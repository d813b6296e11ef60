------------------------------ MODULE Diffable ------------------------------
(***************************************************************************)
(* The local copy an editing page works on: a message with scalar fields   *)
(* and one set of entries (ui/src/utils/diff.ts, and the classes that      *)
(* tools/diff-proto generates for the messages of proto/).                 *)
(*                                                                         *)
(* The copy remembers what the server last had (remote) and the cells that *)
(* differ from it (delta).  Each level counts what is different below it,  *)
(* from the differences it is told of: an entry counts its attributes, the *)
(* set its entries, the message its scalars and the set.                   *)
(* Every operator here returns the copy after one synchronous call.        *)
(***************************************************************************)
EXTENDS Integers, FiniteSets

CONSTANTS Scalars,  \* scalar fields of the message
          Entries,  \* ids of the entries of its set
          Attrs,    \* fields of an entry
          Values

EntryCells == Entries \X Attrs
Cells == Scalars \cup EntryCells

ASSUME CellsAssumption ==
  /\ IsFiniteSet(Scalars) /\ IsFiniteSet(Entries) /\ IsFiniteSet(Attrs)
  /\ Scalars \cap EntryCells = {}

Copies == [
  local : [Cells -> Values],
  remote : [Cells -> Values],
  delta : SUBSET Cells,
  entry_fields : [Entries -> Int],  \* fields of each entry
  set_delta : SUBSET Entries,       \* keys of the set's delta
  set_fields : Int,                 \* fields of the set
  has_set : BOOLEAN,                \* the message's delta mentions the set
  fields : Int]                     \* fields of the message

\* createLocal on a message the server answered.
Fresh(content) == [
  local |-> content, remote |-> content, delta |-> {},
  entry_fields |-> [e \in Entries |-> 0], set_delta |-> {}, set_fields |-> 0,
  has_set |-> FALSE, fields |-> 0]

-----------------------------------------------------------------------------
\* What the onDeltaChange closures conclude from (fields, fieldsDelta): the child
\* became clean (-1), became dirty (1), or remains what it was (0).
Edge(fields, change) ==
  IF fields = 0 /\ change < 0 THEN -1 ELSE IF fields = change THEN 1 ELSE 0

Marked(set, x, edge) ==
  CASE edge = -1 -> set \ {x} [] edge = 1 -> set \cup {x} [] OTHER -> set

\* The closure of DiffableSet::mountSingle, for entry e.
EntryTells(d, e, change) ==
  LET edge == Edge(d.entry_fields[e], change)
  IN [d EXCEPT !.set_delta = Marked(@, e, edge), !.set_fields = @ + edge]

\* The closure of the generated mount, for the set.
SetTells(d, change) ==
  LET edge == Edge(d.set_fields, change)
  IN [d EXCEPT !.has_set = IF edge = 0 THEN @ ELSE edge = 1, !.fields = @ + edge]

\* A setter calls onDeltaChange unless the value was the server's and still is.
Tells(d, c, v) == c \in d.delta \/ v # d.remote[c]

\* How a setter changes the count of its own level.
Change(d, c, v) ==
  CASE v = d.remote[c] /\ c \in d.delta -> -1
    [] v # d.remote[c] /\ c \notin d.delta -> 1
    [] OTHER -> 0

Written(d, c, v) ==
  [d EXCEPT !.local[c] = v,
            !.delta = IF v = d.remote[c] THEN @ \ {c} ELSE @ \cup {c}]

\* The setter of a scalar field of the message.
SetScalar(d, c, v) == [Written(d, c, v) EXCEPT !.fields = @ + Change(d, c, v)]

\* The setter of attribute c = <<e, a>>, up to the set.
SetAttr(d, c, v) ==
  LET w == [Written(d, c, v) EXCEPT !.entry_fields[c[1]] = @ + Change(d, c, v)]
  IN IF Tells(d, c, v) THEN EntryTells(w, c[1], Change(d, c, v)) ELSE w

\* What the set tells the message when its own count went from d's to e's.
Propagated(d, e) == SetTells(e, e.set_fields - d.set_fields)

\* One assignment to the copy.
Assigned(d, c, v) ==
  IF c \in Scalars THEN SetScalar(d, c, v)
  ELSE IF Tells(d, c, v) THEN Propagated(d, SetAttr(d, c, v))
  ELSE SetAttr(d, c, v)

\* Two attributes within DiffableSet::asAtomicChange, which tells the message
\* once: OrderedSetComponent::swap, and the initializeLocal of a new entry.
AssignedTogether(d, c1, v1, c2, v2) ==
  LET e == SetAttr(d, c1, v1)
      f == SetAttr(e, c2, v2)
  IN IF Tells(d, c1, v1) \/ Tells(e, c2, v2) THEN Propagated(d, f) ELSE f

-----------------------------------------------------------------------------
\* serialize: the cells a request carries; synchronize: the delta to be
\* committed when it succeeds.  Both with the values of this moment.
Serialized(d) ==
  [c \in (d.delta \cap Scalars) \cup {x \in d.delta \cap EntryCells : x[1] \in d.set_delta}
     |-> d.local[c]]
CommitDelta(d) ==
  [c \in (d.delta \cap Scalars)
         \cup {x \in d.delta \cap EntryCells : d.has_set /\ x[1] \in d.set_delta}
     |-> d.local[c]]

\* What a side has once the cells of sent are written to what it had.
Overwritten(content, sent) ==
  [c \in Cells |-> IF c \in DOMAIN sent THEN sent[c] ELSE content[c]]

\* Fault: the counts and deltas are left alone.
CommitUncounted(d, sent) == [d EXCEPT !.remote = Overwritten(@, sent)]

\* commit: the server has what was sent.  A cell that was changed back meanwhile
\* differs again; one that still has the sent value no longer does.  An entry
\* tells the set if its count changed, and the set the message.
Commit(d, sent) ==
  LET reverted == DOMAIN sent \ d.delta
      settled == {c \in DOMAIN sent \cap d.delta : d.local[c] = sent[c]}
      change == [e \in Entries |->
        Cardinality({c \in reverted \cap EntryCells : c[1] = e})
        - Cardinality({c \in settled \cap EntryCells : c[1] = e})]
      count == [e \in Entries |-> d.entry_fields[e] + change[e]]
      edge == [e \in Entries |-> IF change[e] = 0 THEN 0 ELSE Edge(count[e], change[e])]
      dirty == {e \in Entries : edge[e] = 1}
      clean == {e \in Entries : edge[e] = -1}
      committed == [d EXCEPT
        !.remote = Overwritten(@, sent),
        !.delta = (@ \ settled) \cup reverted,
        !.entry_fields = count,
        !.set_delta = (@ \ clean) \cup dirty,
        !.set_fields = @ + Cardinality(dirty) - Cardinality(clean),
        !.fields = @ + Cardinality(reverted \cap Scalars) - Cardinality(settled \cap Scalars)]
  IN IF committed.set_fields = d.set_fields THEN committed ELSE Propagated(d, committed)

-----------------------------------------------------------------------------
\* Every level's count and delta are what the cells say: nothing that differs is
\* missing from the next request, and a copy without differences has fields = 0.
Exact(d) ==
  /\ d.delta = {c \in Cells : d.local[c] # d.remote[c]}
  /\ \A e \in Entries : d.entry_fields[e] = Cardinality({c \in d.delta \cap EntryCells : c[1] = e})
  /\ d.set_delta = {e \in Entries : d.entry_fields[e] # 0}
  /\ d.set_fields = Cardinality(d.set_delta)
  /\ d.has_set = (d.set_delta # {})
  /\ d.fields = Cardinality(d.delta \cap Scalars) + (IF d.has_set THEN 1 ELSE 0)
=============================================================================
