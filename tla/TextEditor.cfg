CONSTANTS
  Ids = {1, 2}
  Codes <- MCCodes
  Documents <- MCDocuments
  Stored <- MCStored
  MaxEdits = 2
  MaxNodes = 7
SPECIFICATION Spec
INVARIANTS TypedIsText VisitsSettle ImagesAreStored
CHECK_DEADLOCK FALSE
