CONSTANTS
  name = name
  old = old
  new = new
  start = start
  end = end
  Scalars = {name}
  Entries = {old, new}
  Attrs = {start, end}
  Defaulted = {name}
  New = {new}
  Values <- MCValues
  Content <- MCContent
  MaxEdits = 3
SPECIFICATION Spec
INVARIANT ClearNeverThrows
CHECK_DEADLOCK FALSE
