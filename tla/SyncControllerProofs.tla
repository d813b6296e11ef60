------------------------ MODULE SyncControllerProofs ------------------------
(***************************************************************************)
(* Proofs about SyncController and the copies of Diffable it saves: for    *)
(* any message, any values and any number of edits.                        *)
(***************************************************************************)
EXTENDS SyncController, FiniteSetTheorems, TLAPS

-----------------------------------------------------------------------------
(***************************************************************************)
(* Counting cells                                                          *)
(***************************************************************************)

\* The cells of S that belong to entry e.
Under(S, e) == {c \in S \cap EntryCells : c[1] = e}

\* A message has finitely many cells.
LEMMA FiniteCells ==
  ASSUME NEW S \in SUBSET Cells
  PROVE  /\ IsFiniteSet(S) /\ Cardinality(S) \in Nat
         /\ IsFiniteSet(S \cap Scalars) /\ Cardinality(S \cap Scalars) \in Nat
         /\ \A e \in Entries : IsFiniteSet(Under(S, e)) /\ Cardinality(Under(S, e)) \in Nat
<1>1. IsFiniteSet(Cells)
  BY CellsAssumption, FS_Product, FS_Union DEF CellsAssumption, Cells, EntryCells
<1>2. IsFiniteSet(S) /\ IsFiniteSet(S \cap Scalars)
  BY <1>1, FS_Subset
<1>3. \A e \in Entries : Under(S, e) \in SUBSET S
  BY DEF Under
<1>4. \A e \in Entries : IsFiniteSet(Under(S, e))
  BY <1>2, <1>3, FS_Subset
<1> QED
  BY <1>2, <1>4, FS_CardinalityType

\* Taking out some elements and putting in new ones.
LEMMA ExchangeCount ==
  ASSUME NEW S, IsFiniteSet(S), NEW out \in SUBSET S,
         NEW new, IsFiniteSet(new), new \cap S = {}
  PROVE  /\ IsFiniteSet((S \ out) \cup new)
         /\ Cardinality((S \ out) \cup new) = Cardinality(S) + Cardinality(new) - Cardinality(out)
         /\ Cardinality(S) \in Nat /\ Cardinality(new) \in Nat /\ Cardinality(out) \in Nat
         /\ Cardinality(out) <= Cardinality(S)
<1>1. /\ IsFiniteSet(out) /\ Cardinality(out) \in Nat /\ Cardinality(out) <= Cardinality(S)
      /\ Cardinality(S) \in Nat /\ Cardinality(new) \in Nat
  BY FS_Subset, FS_CardinalityType
<1>2. IsFiniteSet(S \ out) /\ Cardinality(S \ out) = Cardinality(S) - Cardinality(out)
  <2>1. S \cap out = out
    OBVIOUS
  <2> QED
    BY <2>1, FS_Difference
<1>3. (S \ out) \cap new = {} /\ Cardinality({}) = 0
  BY FS_EmptySet
<1>4. /\ IsFiniteSet((S \ out) \cup new)
      /\ Cardinality((S \ out) \cup new) =
           Cardinality(S \ out) + Cardinality(new) - Cardinality({})
  BY <1>2, <1>3, FS_Union
<1> QED
  BY <1>1, <1>2, <1>3, <1>4

-----------------------------------------------------------------------------
(***************************************************************************)
(* What Exact says, level by level                                         *)
(***************************************************************************)

\* Exact, but for what the message knows of its set and for its own count.
SetExact(d) ==
  /\ d.delta = {c \in Cells : d.local[c] # d.remote[c]}
  /\ \A e \in Entries : d.entry_fields[e] = Cardinality(Under(d.delta, e))
  /\ d.set_delta = {e \in Entries : d.entry_fields[e] # 0}
  /\ d.set_fields = Cardinality(d.set_delta)

MessageExact(d) ==
  /\ d.has_set = (d.set_delta # {})
  /\ d.fields = Cardinality(d.delta \cap Scalars) + (IF d.has_set THEN 1 ELSE 0)

LEMMA ExactByLevels == \A d : Exact(d) <=> SetExact(d) /\ MessageExact(d)
BY DEF Exact, SetExact, MessageExact, Under

LEMMA SetCount ==
  ASSUME NEW d \in Copies, SetExact(d)
  PROVE  /\ d.delta \in SUBSET Cells /\ IsFiniteSet(d.delta)
         /\ IsFiniteSet(d.set_delta) /\ d.set_delta \in SUBSET Entries
         /\ d.set_fields \in Nat
         /\ d.set_fields = 0 <=> d.set_delta = {}
         /\ \A e \in Entries : d.entry_fields[e] \in Nat
         /\ \A c \in d.delta \cap EntryCells : c[1] \in d.set_delta
         /\ d.set_delta # {} => d.delta \cap EntryCells # {}
<1>1. d.delta \in SUBSET Cells /\ IsFiniteSet(d.delta)
  BY FiniteCells DEF SetExact
<1>2. d.set_delta \in SUBSET Entries
  BY DEF SetExact
<1>3. IsFiniteSet(d.set_delta)
  BY <1>2, CellsAssumption, FS_Subset DEF CellsAssumption
<1>4. d.set_fields \in Nat /\ (d.set_fields = 0 <=> d.set_delta = {})
  BY <1>3, FS_CardinalityType, FS_EmptySet DEF SetExact
<1>5. \A e \in Entries :
        /\ d.entry_fields[e] \in Nat
        /\ d.entry_fields[e] = 0 <=> Under(d.delta, e) = {}
  BY <1>1, FiniteCells, FS_EmptySet DEF SetExact
<1>6. \A c \in d.delta \cap EntryCells : c[1] \in Entries /\ c \in Under(d.delta, c[1])
  BY DEF Under, EntryCells
<1>7. \A c \in d.delta \cap EntryCells : c[1] \in d.set_delta
  BY <1>5, <1>6 DEF SetExact
<1>8. d.set_delta # {} => d.delta \cap EntryCells # {}
  BY <1>5 DEF SetExact, Under
<1> QED
  BY <1>1, <1>2, <1>3, <1>4, <1>5, <1>7, <1>8

\* A copy has nothing to save exactly when its field count is 0, and then it is
\* what the page believes the server to have.
LEMMA NothingToSave ==
  ASSUME NEW d \in Copies, Exact(d)
  PROVE  /\ d.fields \in Nat
         /\ d.fields = 0 <=> d.delta = {}
         /\ d.fields = 0 => \A c \in Cells : d.local[c] = d.remote[c]
<1>1. SetExact(d) /\ MessageExact(d)
  BY ExactByLevels
<1>2. /\ d.delta \in SUBSET Cells
      /\ \A c \in d.delta \cap EntryCells : c[1] \in d.set_delta
      /\ d.set_delta # {} => d.delta \cap EntryCells # {}
  BY <1>1, SetCount
<1>3. IsFiniteSet(d.delta \cap Scalars) /\ Cardinality(d.delta \cap Scalars) \in Nat
  BY <1>2, FiniteCells
<1>4. Cardinality(d.delta \cap Scalars) = 0 <=> d.delta \cap Scalars = {}
  BY <1>3, FS_EmptySet
<1>5. d.delta = {} <=> d.delta \cap Scalars = {} /\ d.set_delta = {}
  BY <1>2 DEF Cells
<1>6. d.fields \in Nat /\ (d.fields = 0 <=> d.delta = {})
  <2> DEFINE n == Cardinality(d.delta \cap Scalars)
  <2>1. d.fields = IF d.set_delta # {} THEN n + 1 ELSE n + 0
    BY <1>1 DEF MessageExact
  <2> HIDE DEF n
  <2> QED
    BY <1>3, <1>4, <1>5, <2>1 DEF n
<1>7. d.delta = {} => \A c \in Cells : d.local[c] = d.remote[c]
  BY <1>1 DEF SetExact
<1> QED
  BY <1>6, <1>7

\* A request carries every cell that differs, with the value it has then, and
\* the delta to be committed is the same.
LEMMA RequestCarriesAll ==
  ASSUME NEW d \in Copies, Exact(d)
  PROVE  /\ Serialized(d) = [c \in d.delta |-> d.local[c]]
         /\ CommitDelta(d) = [c \in d.delta |-> d.local[c]]
<1>1. SetExact(d) /\ MessageExact(d)
  BY ExactByLevels
<1>2. /\ d.delta \in SUBSET Cells
      /\ \A c \in d.delta \cap EntryCells : c[1] \in d.set_delta
  BY <1>1, SetCount
<1>3. (d.delta \cap Scalars) \cup {x \in d.delta \cap EntryCells : x[1] \in d.set_delta} = d.delta
  BY <1>2 DEF Cells
<1>4. (d.delta \cap Scalars)
        \cup {x \in d.delta \cap EntryCells : d.has_set /\ x[1] \in d.set_delta} = d.delta
  BY <1>1, <1>2 DEF Cells, MessageExact
<1> QED
  BY <1>3, <1>4 DEF Serialized, CommitDelta

-----------------------------------------------------------------------------
(***************************************************************************)
(* One setter                                                              *)
(***************************************************************************)

\* What the setter of an attribute changes, field by field of the copy.
LEMMA SetAttrFields ==
  ASSUME NEW d \in Copies, NEW c \in EntryCells, NEW v \in Values,
         NEW e, e = SetAttr(d, c, v),
         NEW n, n = Change(d, c, v)
  PROVE  /\ e \in Copies /\ n \in {-1, 0, 1}
         /\ e.local = [d.local EXCEPT ![c] = v] /\ e.remote = d.remote
         /\ e.delta = IF v = d.remote[c] THEN d.delta \ {c} ELSE d.delta \cup {c}
         /\ e.entry_fields = [d.entry_fields EXCEPT ![c[1]] = @ + n]
         /\ Tells(d, c, v) =>
              /\ e.set_delta = Marked(d.set_delta, c[1], Edge(d.entry_fields[c[1]] + n, n))
              /\ e.set_fields = d.set_fields + Edge(d.entry_fields[c[1]] + n, n)
         /\ ~Tells(d, c, v) => e.set_delta = d.set_delta /\ e.set_fields = d.set_fields
         /\ e.has_set = d.has_set /\ e.fields = d.fields
<1>1. c \in Cells /\ c[1] \in Entries /\ n \in {-1, 0, 1}
  BY DEF Cells, EntryCells, Change
<1> DEFINE u == Written(d, c, v)
           w == [u EXCEPT !.entry_fields[c[1]] = @ + n]
           x == Edge(d.entry_fields[c[1]] + n, n)
<1>u. /\ u \in Copies
      /\ u.local = [d.local EXCEPT ![c] = v] /\ u.remote = d.remote
      /\ u.delta = IF v = d.remote[c] THEN d.delta \ {c} ELSE d.delta \cup {c}
      /\ u.entry_fields = d.entry_fields
      /\ u.set_delta = d.set_delta /\ u.set_fields = d.set_fields
      /\ u.has_set = d.has_set /\ u.fields = d.fields
  <2>1. u \in Copies
    BY <1>1 DEF Written, Copies
  <2> QED
    BY <2>1, <1>1 DEF Written, Copies
<1> HIDE DEF u
<1>2. /\ w \in Copies
      /\ w.local = [d.local EXCEPT ![c] = v] /\ w.remote = d.remote
      /\ w.delta = IF v = d.remote[c] THEN d.delta \ {c} ELSE d.delta \cup {c}
      /\ w.entry_fields = [d.entry_fields EXCEPT ![c[1]] = @ + n]
      /\ w.set_delta = d.set_delta /\ w.set_fields = d.set_fields
      /\ w.has_set = d.has_set /\ w.fields = d.fields
  <2>1. u.entry_fields[c[1]] + n \in Int
    BY <1>1, <1>u DEF Copies
  <2>2. w \in Copies
    BY <1>1, <1>u, <2>1 DEF Copies
  <2>3. /\ w.local = u.local /\ w.remote = u.remote /\ w.delta = u.delta
        /\ w.entry_fields = [u.entry_fields EXCEPT ![c[1]] = @ + n]
        /\ w.set_delta = u.set_delta /\ w.set_fields = u.set_fields
        /\ w.has_set = u.has_set /\ w.fields = u.fields
    BY <1>1, <1>u DEF Copies
  <2> QED
    BY <1>u, <2>2, <2>3
<1>3. w.entry_fields[c[1]] = d.entry_fields[c[1]] + n
  BY <1>1, <1>2 DEF Copies
<1>4. x \in {-1, 0, 1} /\ Marked(d.set_delta, c[1], x) \in SUBSET Entries
  BY <1>1 DEF Edge, Marked, Copies
<1> HIDE DEF w, x
<1>5. CASE Tells(d, c, v)
  <2>1. e = [w EXCEPT !.set_delta = Marked(@, c[1], x), !.set_fields = @ + x]
    BY <1>3, <1>5 DEF SetAttr, EntryTells, u, w, x
  <2>i. w.set_fields + x \in Int
    BY <1>2, <1>4 DEF Copies
  <2>m. Marked(w.set_delta, c[1], x) \in SUBSET Entries
    BY <1>2, <1>4
  <2>c. e \in Copies
    <3> DEFINE m == Marked(w.set_delta, c[1], x)  k == w.set_fields + x
    <3>1. e = [w EXCEPT !.set_delta = m, !.set_fields = k] /\ m \in SUBSET Entries /\ k \in Int
      BY <2>1, <2>i, <2>m, <1>2
    <3> HIDE DEF m, k
    <3> QED
      BY <3>1, <1>2 DEF Copies
  <2>2. /\ e.local = w.local /\ e.remote = w.remote /\ e.delta = w.delta
        /\ e.entry_fields = w.entry_fields
        /\ e.set_delta = Marked(d.set_delta, c[1], x) /\ e.set_fields = d.set_fields + x
        /\ e.has_set = w.has_set /\ e.fields = w.fields
    BY <2>1, <1>2 DEF Copies
  <2> QED
    BY <1>1, <1>2, <1>5, <2>c, <2>2 DEF x
<1>6. CASE ~Tells(d, c, v)
  <2>1. e = w
    BY <1>6 DEF SetAttr, u, w
  <2> QED
    BY <1>1, <1>2, <1>6, <2>1
<1> QED
  BY <1>5, <1>6

\* It leaves the entry and the set with exact counts, however often the
\* attribute is changed away from the server's value and back.
LEMMA SetAttrExact ==
  ASSUME NEW d \in Copies, SetExact(d), NEW c \in EntryCells, NEW v \in Values,
         NEW e, e = SetAttr(d, c, v)
  PROVE  /\ e \in Copies /\ SetExact(e) /\ e.remote = d.remote
         /\ Tells(d, c, v) => c \in d.delta \/ c \in e.delta
         /\ ~Tells(d, c, v) => e.local = d.local /\ e.delta = d.delta
         /\ \A k \in Cells : k # c => (k \in e.delta <=> k \in d.delta)
         /\ e.delta \cap Scalars = d.delta \cap Scalars
         /\ e.has_set = d.has_set /\ e.fields = d.fields
<1> DEFINE n == Change(d, c, v)  o == c[1]  x == Edge(d.entry_fields[o] + n, n)
<1>1. /\ e \in Copies /\ n \in {-1, 0, 1}
      /\ e.local = [d.local EXCEPT ![c] = v] /\ e.remote = d.remote
      /\ e.delta = IF v = d.remote[c] THEN d.delta \ {c} ELSE d.delta \cup {c}
      /\ e.entry_fields = [d.entry_fields EXCEPT ![o] = @ + n]
      /\ Tells(d, c, v) =>
           e.set_delta = Marked(d.set_delta, o, x) /\ e.set_fields = d.set_fields + x
      /\ ~Tells(d, c, v) => e.set_delta = d.set_delta /\ e.set_fields = d.set_fields
      /\ e.has_set = d.has_set /\ e.fields = d.fields
  BY SetAttrFields
<1> HIDE DEF n, o, x
<1>2. c \in Cells /\ o \in Entries /\ c \notin Scalars
  BY CellsAssumption DEF Cells, EntryCells, CellsAssumption, o
<1>3. d.delta \in SUBSET Cells /\ e.delta \in SUBSET Cells
  BY <1>1 DEF Copies
<1>4. e.delta = {k \in Cells : e.local[k] # e.remote[k]}
  BY <1>1, <1>2 DEF SetExact, Copies
<1>5. \A p \in Entries : e.entry_fields[p] = Cardinality(Under(e.delta, p))
  <2>1. ASSUME NEW p \in Entries, p # o PROVE e.entry_fields[p] = Cardinality(Under(e.delta, p))
    <3>1. Under(e.delta, p) = Under(d.delta, p)
      BY <1>1, <2>1 DEF Under, o
    <3> QED
      BY <1>1, <2>1, <3>1 DEF SetExact, Copies
  <2>2. e.entry_fields[o] = Cardinality(Under(e.delta, o))
    <3>1. e.entry_fields[o] = Cardinality(Under(d.delta, o)) + n
      BY <1>1, <1>2 DEF SetExact, Copies
    <3>2. IsFiniteSet(Under(d.delta, o)) /\ Cardinality(Under(d.delta, o)) \in Nat
      BY <1>2, <1>3, FiniteCells
    <3>3. c \in Under(d.delta, o) <=> c \in d.delta
      BY DEF Under, o
    <3>4. CASE v = d.remote[c]
      <4>1. Under(e.delta, o) = Under(d.delta, o) \ {c}
        BY <1>1, <3>4 DEF Under, o
      <4>2. n = IF c \in d.delta THEN -1 ELSE 0
        BY <3>4 DEF Change, n
      <4>3. Cardinality(Under(d.delta, o) \ {c})
              = IF c \in d.delta THEN Cardinality(Under(d.delta, o)) - 1
                                 ELSE Cardinality(Under(d.delta, o))
        BY <3>2, <3>3, FS_RemoveElement
      <4> QED
        BY <3>1, <3>2, <4>1, <4>2, <4>3
    <3>5. CASE v # d.remote[c]
      <4>1. Under(e.delta, o) = Under(d.delta, o) \cup {c}
        BY <1>1, <3>5 DEF Under, o
      <4>2. n = IF c \in d.delta THEN 0 ELSE 1
        BY <3>5 DEF Change, n
      <4>3. Cardinality(Under(d.delta, o) \cup {c})
              = IF c \in d.delta THEN Cardinality(Under(d.delta, o))
                                 ELSE Cardinality(Under(d.delta, o)) + 1
        BY <3>2, <3>3, FS_AddElement
      <4> QED
        BY <3>1, <3>2, <4>1, <4>2, <4>3
    <3> QED
      BY <3>4, <3>5
  <2> QED
    BY <2>1, <2>2
<1>6. e.set_delta = {p \in Entries : e.entry_fields[p] # 0} /\ e.set_fields = Cardinality(e.set_delta)
  <2>1. /\ IsFiniteSet(d.set_delta) /\ d.set_fields \in Nat
        /\ d.entry_fields[o] \in Nat
        /\ c \in d.delta => o \in d.set_delta
    BY <1>2, SetCount DEF o
  <2>2. d.set_fields = Cardinality(d.set_delta) /\ (o \in d.set_delta <=> d.entry_fields[o] # 0)
    BY <1>2 DEF SetExact
  <2>3. e.entry_fields[o] = d.entry_fields[o] + n /\ e.entry_fields[o] \in Nat
    <3>1. Cardinality(Under(e.delta, o)) \in Nat
      BY <1>2, <1>3, FiniteCells
    <3> QED
      BY <1>1, <1>2, <1>5, <3>1 DEF Copies
  <2>4. {p \in Entries : e.entry_fields[p] # 0}
          = IF d.entry_fields[o] + n = 0 THEN d.set_delta \ {o} ELSE d.set_delta \cup {o}
    BY <1>1, <1>2, <2>3 DEF SetExact, Copies
  <2>5. CASE ~Tells(d, c, v)
    <3>1. n = 0
      BY <2>5 DEF Tells, Change, n
    <3> QED
      BY <1>1, <2>1, <2>2, <2>4, <2>5, <3>1
  <2>6. CASE Tells(d, c, v)
    <3>1. n = 0 => d.entry_fields[o] # 0
      BY <2>1, <2>2, <2>6 DEF Tells, Change, n
    <3>2. x = IF d.entry_fields[o] + n = 0 THEN -1 ELSE IF d.entry_fields[o] = 0 THEN 1 ELSE 0
      BY <1>1, <2>1, <2>3, <3>1 DEF Edge, x
    <3>3. e.set_delta = IF d.entry_fields[o] + n = 0 THEN d.set_delta \ {o} ELSE d.set_delta \cup {o}
      BY <1>1, <2>2, <2>6, <3>2 DEF Marked
    <3>4. d.entry_fields[o] + n = 0 => o \in d.set_delta
      BY <1>1, <2>1, <2>2, <3>1
    <3>5. Cardinality(e.set_delta) = d.set_fields + x
      <4>1. CASE d.entry_fields[o] + n = 0
        <5>1. Cardinality(d.set_delta \ {o}) = Cardinality(d.set_delta) - 1
          BY <2>1, <3>4, <4>1, FS_RemoveElement
        <5> QED
          BY <2>1, <2>2, <3>2, <3>3, <4>1, <5>1
      <4>2. CASE d.entry_fields[o] + n # 0
        <5>1. Cardinality(d.set_delta \cup {o})
                = IF d.entry_fields[o] = 0 THEN Cardinality(d.set_delta) + 1
                                           ELSE Cardinality(d.set_delta)
          BY <2>1, <2>2, FS_AddElement
        <5> QED
          BY <2>1, <2>2, <3>2, <3>3, <4>2, <5>1
      <4> QED
        BY <4>1, <4>2
    <3> QED
      BY <1>1, <2>4, <2>6, <3>3, <3>5
  <2> QED
    BY <2>5, <2>6
<1>7. e.delta \cap Scalars = d.delta \cap Scalars
  BY <1>1, <1>2
<1>8. Tells(d, c, v) => c \in d.delta \/ c \in e.delta
  BY <1>1 DEF Tells
<1>9. ~Tells(d, c, v) => e.local = d.local /\ e.delta = d.delta
  <2> SUFFICES ASSUME ~Tells(d, c, v) PROVE e.local = d.local /\ e.delta = d.delta
    OBVIOUS
  <2>1. c \notin d.delta /\ v = d.remote[c]
    BY DEF Tells
  <2>2. d.local[c] = v /\ d.local \in [Cells -> Values]
    BY <1>2, <2>1 DEF SetExact, Copies
  <2> QED
    BY <1>1, <1>2, <2>1, <2>2
<1>10. \A k \in Cells : k # c => (k \in e.delta <=> k \in d.delta)
  BY <1>1
<1> QED
  BY <1>1, <1>4, <1>5, <1>6, <1>7, <1>8, <1>9, <1>10 DEF SetExact

\* What the set tells the message keeps the message exact, when there is
\* something to tell: the set had or has a difference.
LEMMA PropagatedExact ==
  ASSUME NEW d \in Copies, Exact(d), NEW e \in Copies, SetExact(e),
         e.has_set = d.has_set,
         e.fields = Cardinality(e.delta \cap Scalars) + (IF d.has_set THEN 1 ELSE 0),
         d.set_fields # 0 \/ e.set_fields # 0,
         NEW f, f = Propagated(d, e)
  PROVE  f \in Copies /\ Exact(f) /\ f.local = e.local /\ f.remote = e.remote
<1> DEFINE x == Edge(e.set_fields, e.set_fields - d.set_fields)
           h == IF x = 0 THEN e.has_set ELSE x = 1
           n == e.fields + x
<1>1. SetExact(d) /\ MessageExact(d)
  BY ExactByLevels
<1>2. /\ d.set_fields \in Nat /\ (d.set_fields = 0 <=> d.set_delta = {})
      /\ e.set_fields \in Nat /\ (e.set_fields = 0 <=> e.set_delta = {})
      /\ e.delta \in SUBSET Cells
  BY <1>1, SetCount
<1>3. x = IF e.set_fields = 0 THEN -1 ELSE IF d.set_fields = 0 THEN 1 ELSE 0
  BY <1>2 DEF Edge
<1>e. f = [e EXCEPT !.has_set = IF x = 0 THEN @ ELSE x = 1, !.fields = @ + x]
  BY DEF Propagated, SetTells
<1> HIDE DEF x
<1>4. d.has_set = (d.set_fields # 0)
  <2>1. d.has_set = (d.set_delta # {}) /\ d.has_set \in BOOLEAN
    BY <1>1 DEF MessageExact, Copies
  <2> QED
    BY <2>1, <1>2
<1>5. h = (e.set_delta # {}) /\ h \in BOOLEAN
  <2>1. CASE e.set_fields = 0
    <3>1. x = -1 /\ e.set_delta = {}
      BY <1>2, <1>3, <2>1
    <3>2. h = FALSE
      BY <3>1
    <3> QED
      BY <3>1, <3>2
  <2>2. CASE e.set_fields # 0 /\ d.set_fields = 0
    <3>1. x = 1 /\ e.set_delta # {}
      BY <1>2, <1>3, <2>2
    <3>2. h = TRUE
      BY <3>1
    <3> QED
      BY <3>1, <3>2
  <2>3. CASE e.set_fields # 0 /\ d.set_fields # 0
    <3>1. x = 0 /\ e.set_delta # {}
      BY <1>2, <1>3, <2>3
    <3>2. h = d.has_set /\ d.has_set = TRUE
      BY <3>1, <2>3, <1>4
    <3> QED
      BY <3>1, <3>2
  <2> QED
    BY <2>1, <2>2, <2>3
<1>6. n = Cardinality(e.delta \cap Scalars) + (IF e.set_fields # 0 THEN 1 ELSE 0) /\ n \in Int
  <2> DEFINE k == Cardinality(e.delta \cap Scalars)
  <2>1. k \in Nat
    BY <1>2, FiniteCells
  <2>2. e.fields = k + (IF d.set_fields # 0 THEN 1 ELSE 0)
    BY <1>4
  <2> HIDE DEF k
  <2>3. n = k + (IF e.set_fields # 0 THEN 1 ELSE 0) /\ n \in Int
    BY <1>2, <1>3, <2>1, <2>2
  <2> QED
    BY <2>3 DEF k
<1>7. f = [e EXCEPT !.has_set = h, !.fields = n]
  BY <1>e, Zenon
<1> HIDE DEF h, n
<1>8. /\ f.local = e.local /\ f.remote = e.remote /\ f.delta = e.delta
      /\ f.entry_fields = e.entry_fields
      /\ f.set_delta = e.set_delta /\ f.set_fields = e.set_fields
      /\ f.has_set = h /\ f.fields = n
  BY <1>7 DEF Copies
<1>9. f \in Copies
  BY <1>5, <1>6, <1>7 DEF Copies
<1>10. SetExact(f)
  BY <1>8 DEF SetExact
<1>11. MessageExact(f)
  <2>1. f.has_set = (f.set_delta # {})
    BY <1>5, <1>8
  <2>2. f.fields = Cardinality(f.delta \cap Scalars) + (IF f.has_set THEN 1 ELSE 0)
    <3>1. f.delta \cap Scalars = e.delta \cap Scalars
      BY <1>8
    <3>2. f.has_set <=> e.set_fields # 0
      BY <1>2, <1>5, <1>8
    <3> QED
      BY <1>6, <1>8, <3>1, <3>2
  <2> QED
    BY <2>1, <2>2 DEF MessageExact
<1> QED
  BY <1>8, <1>9, <1>10, <1>11, ExactByLevels

\* A setter keeps the counts exact.
LEMMA SetScalarExact ==
  ASSUME NEW d \in Copies, Exact(d), NEW c \in Scalars, NEW v \in Values,
         NEW e, e = SetScalar(d, c, v)
  PROVE  /\ e \in Copies /\ Exact(e) /\ e.remote = d.remote
         /\ ~Tells(d, c, v) => e.local = d.local
<1> DEFINE n == Change(d, c, v)  u == Written(d, c, v)  k == u.fields + n
           S == d.delta \cap Scalars
<1>1. c \in Cells /\ c \notin EntryCells /\ n \in {-1, 0, 1}
  BY CellsAssumption DEF Cells, CellsAssumption, Change
<1>2. SetExact(d) /\ MessageExact(d)
  BY ExactByLevels
<1>3. /\ u.local = [d.local EXCEPT ![c] = v] /\ u.remote = d.remote
      /\ u.delta = IF v = d.remote[c] THEN d.delta \ {c} ELSE d.delta \cup {c}
      /\ u.entry_fields = d.entry_fields
      /\ u.set_delta = d.set_delta /\ u.set_fields = d.set_fields
      /\ u.has_set = d.has_set /\ u.fields = d.fields
  BY <1>1 DEF Written, Copies
<1>4. u \in Copies
  BY <1>1 DEF Written, Copies
<1>5. k = d.fields + n /\ k \in Int
  BY <1>1, <1>3 DEF Copies
<1>6. e = [u EXCEPT !.fields = k]
  BY DEF SetScalar
<1> HIDE DEF u, k
<1>7. /\ e.local = u.local /\ e.remote = u.remote /\ e.delta = u.delta
      /\ e.entry_fields = u.entry_fields
      /\ e.set_delta = u.set_delta /\ e.set_fields = u.set_fields
      /\ e.has_set = u.has_set /\ e.fields = k
  BY <1>4, <1>6 DEF Copies
<1>8. e \in Copies
  BY <1>4, <1>5, <1>6 DEF Copies
<1>9. SetExact(e)
  <2>1. e.delta = {x \in Cells : e.local[x] # e.remote[x]}
    BY <1>1, <1>2, <1>3, <1>7 DEF SetExact, Copies
  <2>2. \A p \in Entries : Under(e.delta, p) = Under(d.delta, p)
    BY <1>1, <1>3, <1>7 DEF Under
  <2>3. /\ e.entry_fields = d.entry_fields
        /\ e.set_delta = d.set_delta /\ e.set_fields = d.set_fields
    BY <1>3, <1>7
  <2>4. \A p \in Entries : e.entry_fields[p] = Cardinality(Under(e.delta, p))
    <3> TAKE p \in Entries
    <3>1. d.entry_fields[p] = Cardinality(Under(d.delta, p))
      BY <1>2 DEF SetExact
    <3> QED
      BY <2>2, <2>3, <3>1
  <2>5. /\ e.set_delta = {p \in Entries : e.entry_fields[p] # 0}
        /\ e.set_fields = Cardinality(e.set_delta)
    BY <1>2, <2>3, Zenon DEF SetExact
  <2> QED
    BY <2>1, <2>4, <2>5 DEF SetExact
<1>10. MessageExact(e)
  <2>1. IsFiniteSet(S) /\ Cardinality(S) \in Nat /\ (c \in S <=> c \in d.delta)
    BY <1>2, FiniteCells DEF SetExact
  <2>2. e.delta \cap Scalars = IF v = d.remote[c] THEN S \ {c} ELSE S \cup {c}
    BY <1>3, <1>7
  <2>3. /\ Cardinality(S \ {c}) = IF c \in d.delta THEN Cardinality(S) - 1 ELSE Cardinality(S)
        /\ Cardinality(S \cup {c}) = IF c \in d.delta THEN Cardinality(S) ELSE Cardinality(S) + 1
    BY <2>1, FS_AddElement, FS_RemoveElement
  <2> HIDE DEF S
  <2>n. n = IF v = d.remote[c] THEN IF c \in d.delta THEN -1 ELSE 0
                                ELSE IF c \in d.delta THEN 0 ELSE 1
    BY DEF Change
  <2> HIDE DEF n
  <2>4. Cardinality(e.delta \cap Scalars) = Cardinality(S) + n
    BY <2>1, <2>2, <2>3, <2>n
  <2>5. e.has_set = (e.set_delta # {})
    BY <1>2, <1>3, <1>7 DEF MessageExact
  <2>6. d.fields = Cardinality(S) + (IF e.has_set THEN 1 ELSE 0)
    BY <1>2, <1>3, <1>7 DEF MessageExact, S
  <2> HIDE DEF n
  <2>7. e.fields = (Cardinality(S) + (IF e.has_set THEN 1 ELSE 0)) + n
    BY <1>5, <1>7, <2>6
  <2>8. e.fields = Cardinality(e.delta \cap Scalars) + (IF e.has_set THEN 1 ELSE 0)
    BY <1>1, <2>1, <2>4, <2>7
  <2> QED
    BY <2>5, <2>8 DEF MessageExact
<1>11. ~Tells(d, c, v) => e.local = d.local
  <2> SUFFICES ASSUME ~Tells(d, c, v) PROVE e.local = d.local
    OBVIOUS
  <2>1. c \notin d.delta /\ v = d.remote[c]
    BY DEF Tells
  <2>2. d.local[c] = v /\ d.local \in [Cells -> Values]
    BY <1>1, <1>2, <2>1 DEF SetExact, Copies
  <2> QED
    BY <1>1, <1>3, <1>7, <2>2
<1> QED
  BY <1>3, <1>7, <1>8, <1>9, <1>10, <1>11, ExactByLevels

LEMMA AssignedExact ==
  ASSUME NEW d \in Copies, Exact(d), NEW c \in Cells, NEW v \in Values,
         NEW e, e = Assigned(d, c, v)
  PROVE  /\ e \in Copies /\ Exact(e) /\ e.remote = d.remote
         /\ ~Tells(d, c, v) => e.local = d.local
<1>1. CASE c \in Scalars
  BY <1>1, SetScalarExact DEF Assigned
<1>2. CASE c \notin Scalars
  <2> DEFINE a == SetAttr(d, c, v)
  <2>1. c \in EntryCells
    BY <1>2 DEF Cells
  <2>2. SetExact(d) /\ MessageExact(d)
    BY ExactByLevels
  <2>3. /\ a \in Copies /\ SetExact(a) /\ a.remote = d.remote
        /\ Tells(d, c, v) => c \in d.delta \/ c \in a.delta
        /\ ~Tells(d, c, v) => a.local = d.local /\ a.delta = d.delta
        /\ a.delta \cap Scalars = d.delta \cap Scalars
        /\ a.has_set = d.has_set /\ a.fields = d.fields
    BY <2>1, <2>2, SetAttrExact
  <2>4. CASE Tells(d, c, v)
    <3>1. c \in d.delta \/ c \in a.delta
      BY <2>3, <2>4
    <3>2. d.set_fields # 0 \/ a.set_fields # 0
      BY <2>1, <2>2, <2>3, <3>1, SetCount
    <3>3. e = Propagated(d, a)
      BY <1>2, <2>4 DEF Assigned
    <3> HIDE DEF a
    <3> QED
      <4>1. a.fields = Cardinality(a.delta \cap Scalars) + (IF d.has_set THEN 1 ELSE 0)
        BY <2>2, <2>3 DEF MessageExact
      <4> QED
        BY <2>3, <2>4, <3>2, <3>3, <4>1, PropagatedExact
  <2>5. CASE ~Tells(d, c, v)
    <3>1. e = a
      BY <1>2, <2>5 DEF Assigned
    <3>2. a.delta = d.delta
      BY <2>3, <2>5
    <3>3. a.set_delta = d.set_delta
      BY <2>2, <2>3, <3>2 DEF SetExact
    <3>4. MessageExact(a)
      BY <2>2, <2>3, <3>2, <3>3 DEF MessageExact
    <3> QED
      BY <2>3, <2>5, <3>1, <3>4, ExactByLevels
  <2> QED
    BY <2>4, <2>5
<1> QED
  BY <1>1, <1>2

\* Two different attributes in one atomic change: the message is told once, and
\* what it is told is enough even if one undoes what the other did to a count.
LEMMA AssignedTogetherExact ==
  ASSUME NEW d \in Copies, Exact(d),
         NEW c1 \in EntryCells, NEW c2 \in EntryCells, c1 # c2,
         NEW v1 \in Values, NEW v2 \in Values,
         NEW f, f = AssignedTogether(d, c1, v1, c2, v2)
  PROVE  /\ f \in Copies /\ Exact(f) /\ f.remote = d.remote
         /\ ~Tells(d, c1, v1) /\ ~Tells(SetAttr(d, c1, v1), c2, v2) => f.local = d.local
<1>a. PICK a : a = SetAttr(d, c1, v1)
  OBVIOUS
<1>b. PICK b : b = SetAttr(a, c2, v2)
  OBVIOUS
<1>1. SetExact(d) /\ MessageExact(d)
  BY ExactByLevels
<1>2. /\ a \in Copies /\ SetExact(a) /\ a.remote = d.remote
      /\ Tells(d, c1, v1) => c1 \in d.delta \/ c1 \in a.delta
      /\ ~Tells(d, c1, v1) => a.local = d.local /\ a.delta = d.delta
      /\ \A k \in Cells : k # c1 => (k \in a.delta <=> k \in d.delta)
      /\ a.delta \cap Scalars = d.delta \cap Scalars
      /\ a.has_set = d.has_set /\ a.fields = d.fields
  BY <1>a, <1>1, SetAttrExact
<1>3. /\ b \in Copies /\ SetExact(b) /\ b.remote = d.remote
      /\ Tells(a, c2, v2) => c2 \in a.delta \/ c2 \in b.delta
      /\ ~Tells(a, c2, v2) => b.local = a.local /\ b.delta = a.delta
      /\ \A k \in Cells : k # c2 => (k \in b.delta <=> k \in a.delta)
      /\ b.delta \cap Scalars = d.delta \cap Scalars
      /\ b.has_set = d.has_set /\ b.fields = d.fields
  <2>1. a \in Copies /\ SetExact(a)
    BY <1>2
  <2>2. /\ b \in Copies /\ SetExact(b) /\ b.remote = a.remote
        /\ Tells(a, c2, v2) => c2 \in a.delta \/ c2 \in b.delta
        /\ ~Tells(a, c2, v2) => b.local = a.local /\ b.delta = a.delta
        /\ \A k \in Cells : k # c2 => (k \in b.delta <=> k \in a.delta)
        /\ b.delta \cap Scalars = a.delta \cap Scalars
        /\ b.has_set = a.has_set /\ b.fields = a.fields
    BY <1>b, <2>1, SetAttrExact
  <2> QED
    BY <1>2, <2>2
<1>4. CASE Tells(d, c1, v1) \/ Tells(a, c2, v2)
  <2>1. c1 \in d.delta \/ c1 \in b.delta \/ c2 \in d.delta \/ c2 \in b.delta
    BY <1>2, <1>3, <1>4 DEF Cells
  <2>2. d.set_fields # 0 \/ b.set_fields # 0
    BY <1>1, <1>3, <2>1, SetCount
  <2>3. f = Propagated(d, b)
    BY <1>a, <1>b, <1>4 DEF AssignedTogether
  <2>4. f \in Copies /\ Exact(f) /\ f.remote = b.remote
    <3>1. b.fields = Cardinality(b.delta \cap Scalars) + (IF d.has_set THEN 1 ELSE 0)
      BY <1>1, <1>3 DEF MessageExact
    <3> QED
      BY <1>3, <2>2, <2>3, <3>1, PropagatedExact
  <2> QED
    BY <1>a, <1>3, <1>4, <2>4
<1>5. CASE ~Tells(d, c1, v1) /\ ~Tells(a, c2, v2)
  <2>1. f = b
    BY <1>a, <1>b, <1>5 DEF AssignedTogether
  <2>2. b.delta = d.delta /\ b.local = d.local
    BY <1>2, <1>3, <1>5
  <2>3. b.set_delta = d.set_delta
    BY <1>1, <1>3, <2>2 DEF SetExact
  <2>4. MessageExact(b)
    BY <1>1, <1>3, <2>2, <2>3 DEF MessageExact
  <2> QED
    BY <1>3, <2>1, <2>2, <2>4, ExactByLevels
<1> QED
  BY <1>4, <1>5

-----------------------------------------------------------------------------
(***************************************************************************)
(* The commit of what a request carried                                    *)
(***************************************************************************)

\* However the copy was edited while the request was in flight, the commit
\* leaves exact counts at every level.
LEMMA CommitExact ==
  ASSUME NEW d \in Copies, Exact(d), NEW delta, DOMAIN delta \subseteq Cells,
         \A c \in DOMAIN delta : delta[c] \in Values /\ delta[c] # d.remote[c],
         NEW f, f = Commit(d, delta)
  PROVE  f \in Copies /\ Exact(f) /\ f.local = d.local
         /\ f.remote = Overwritten(d.remote, delta)
<1> DEFINE reverted == DOMAIN delta \ d.delta
           settled == {c \in DOMAIN delta \cap d.delta : d.local[c] = delta[c]}
           change == [e \in Entries |->
             Cardinality({c \in reverted \cap EntryCells : c[1] = e})
             - Cardinality({c \in settled \cap EntryCells : c[1] = e})]
           count == [e \in Entries |-> d.entry_fields[e] + change[e]]
           edge == [e \in Entries |-> IF change[e] = 0 THEN 0 ELSE Edge(count[e], change[e])]
           dirty == {e \in Entries : edge[e] = 1}
           clean == {e \in Entries : edge[e] = -1}
           remote == Overwritten(d.remote, delta)
           differ == (d.delta \ settled) \cup reverted
           entries == (d.set_delta \ clean) \cup dirty
           setCount == d.set_fields + Cardinality(dirty) - Cardinality(clean)
           fields == d.fields + Cardinality(reverted \cap Scalars) - Cardinality(settled \cap Scalars)
           committed == [d EXCEPT
             !.remote = Overwritten(@, delta),
             !.delta = (@ \ settled) \cup reverted,
             !.entry_fields = count,
             !.set_delta = (@ \ clean) \cup dirty,
             !.set_fields = @ + Cardinality(dirty) - Cardinality(clean),
             !.fields = @ + Cardinality(reverted \cap Scalars) - Cardinality(settled \cap Scalars)]
<1>1. f = IF committed.set_fields = d.set_fields THEN committed ELSE Propagated(d, committed)
  BY DEF Commit
<1>2. committed = [d EXCEPT !.remote = remote, !.delta = differ, !.entry_fields = count,
                            !.set_delta = entries, !.set_fields = setCount, !.fields = fields]
  OBVIOUS
<1>3. SetExact(d) /\ MessageExact(d)
  BY ExactByLevels
<1>4. /\ reverted \in SUBSET Cells /\ settled \in SUBSET d.delta /\ d.delta \in SUBSET Cells
      /\ settled \in SUBSET Cells /\ differ \in SUBSET Cells /\ reverted \cap d.delta = {}
  BY <1>3, SetCount
<1>5. remote \in [Cells -> Values]
      /\ \A c \in Cells : remote[c] = IF c \in DOMAIN delta THEN delta[c] ELSE d.remote[c]
  BY DEF Overwritten, Copies
<1>6. differ = {c \in Cells : d.local[c] # remote[c]}
  BY <1>3, <1>4, <1>5 DEF SetExact
<1>7. \A e \in Entries :
        /\ change[e] = Cardinality(Under(reverted, e)) - Cardinality(Under(settled, e))
        /\ change[e] \in Int
        /\ count[e] = d.entry_fields[e] + change[e]
        /\ d.entry_fields[e] \in Nat
  <2>1. \A e \in Entries :
          change[e] = Cardinality(Under(reverted, e)) - Cardinality(Under(settled, e))
    BY DEF Under
  <2>2. \A e \in Entries : /\ Cardinality(Under(reverted, e)) \in Nat
                          /\ Cardinality(Under(settled, e)) \in Nat
    BY <1>4, FiniteCells
  <2>3. \A e \in Entries : d.entry_fields[e] \in Nat
    BY <1>3, SetCount
  <2>4. \A e \in Entries : count[e] = d.entry_fields[e] + change[e]
    OBVIOUS
  <2> HIDE DEF change, count, reverted, settled
  <2> QED
    BY <2>1, <2>2, <2>3, <2>4
<1> HIDE DEF change
<1>8. \A e \in Entries : count[e] = Cardinality(Under(differ, e)) /\ count[e] \in Nat
  <2> HIDE DEF count
  <2> SUFFICES ASSUME NEW e \in Entries
               PROVE  count[e] = Cardinality(Under(differ, e)) /\ count[e] \in Nat
    OBVIOUS
  <2>1. Under(differ, e) = (Under(d.delta, e) \ Under(settled, e)) \cup Under(reverted, e)
    BY DEF Under
  <2>2. /\ Under(settled, e) \in SUBSET Under(d.delta, e)
        /\ Under(reverted, e) \cap Under(d.delta, e) = {}
        /\ IsFiniteSet(Under(d.delta, e)) /\ IsFiniteSet(Under(reverted, e))
    BY <1>4, FiniteCells DEF Under
  <2>3. Cardinality(Under(differ, e))
          = Cardinality(Under(d.delta, e)) + Cardinality(Under(reverted, e)) - Cardinality(Under(settled, e))
    <3> DEFINE A == Under(d.delta, e)  B == Under(settled, e)  C == Under(reverted, e)
    <3> HIDE DEF A, B, C
    <3>1. Cardinality((A \ B) \cup C) = Cardinality(A) + Cardinality(C) - Cardinality(B)
      BY <2>2, ExchangeCount DEF A, B, C
    <3> QED
      BY <2>1, <3>1 DEF A, B, C
  <2>4. /\ Cardinality(Under(differ, e)) \in Nat /\ Cardinality(Under(d.delta, e)) \in Nat
        /\ Cardinality(Under(reverted, e)) \in Nat /\ Cardinality(Under(settled, e)) \in Nat
    BY <1>4, FiniteCells
  <2>5. d.entry_fields[e] = Cardinality(Under(d.delta, e))
    BY <1>3 DEF SetExact
  <2> QED
    BY <1>7, <2>3, <2>4, <2>5
<1>9. count \in [Entries -> Int] /\ \A e \in Entries : count[e] \in Nat
  <2>1. count = [e \in Entries |-> d.entry_fields[e] + change[e]]
    OBVIOUS
  <2> HIDE DEF count, reverted, settled, differ
  <2>2. \A e \in Entries : d.entry_fields[e] + change[e] \in Int
    BY <1>7
  <2> QED
    BY <1>8, <2>1, <2>2
<1>10. /\ dirty = {e \in Entries : d.entry_fields[e] = 0 /\ count[e] # 0}
       /\ clean = {e \in Entries : d.entry_fields[e] # 0 /\ count[e] = 0}
  <2>1. ASSUME NEW e \in Entries
        PROVE  /\ edge[e] = 1 <=> d.entry_fields[e] = 0 /\ count[e] # 0
               /\ edge[e] = -1 <=> d.entry_fields[e] # 0 /\ count[e] = 0
    <3>1. edge[e] = IF change[e] = 0 THEN 0 ELSE Edge(count[e], change[e])
      OBVIOUS
    <3> HIDE DEF edge, count
    <3>2. count[e] = d.entry_fields[e] + change[e] /\ d.entry_fields[e] \in Nat /\ change[e] \in Int
      BY <1>7
    <3>3. count[e] \in Nat
      BY <1>9
    <3> QED
      BY <3>1, <3>2, <3>3 DEF Edge
  <2> QED
    BY <2>1
<1> HIDE DEF dirty, clean, edge, count
<1>11. /\ IsFiniteSet(d.set_delta) /\ IsFiniteSet(dirty)
       /\ clean \in SUBSET d.set_delta /\ dirty \cap d.set_delta = {}
       /\ entries = {e \in Entries : count[e] # 0} /\ entries \in SUBSET Entries
  <2>1. IsFiniteSet(Entries) /\ dirty \in SUBSET Entries
    BY <1>10, CellsAssumption DEF CellsAssumption
  <2>2. IsFiniteSet(dirty) /\ IsFiniteSet(d.set_delta)
    BY <1>3, <2>1, FS_Subset, SetCount
  <2> QED
    BY <1>3, <1>10, <2>2 DEF SetExact
<1>12. setCount = Cardinality(entries) /\ setCount \in Int
  <2>1. /\ Cardinality(entries)
            = Cardinality(d.set_delta) + Cardinality(dirty) - Cardinality(clean)
        /\ Cardinality(d.set_delta) \in Nat /\ Cardinality(dirty) \in Nat
        /\ Cardinality(clean) \in Nat
    BY <1>11, ExchangeCount
  <2>2. d.set_fields = Cardinality(d.set_delta)
    BY <1>3 DEF SetExact
  <2> HIDE DEF entries
  <2> QED
    BY <2>1, <2>2
<1>13. /\ fields = Cardinality(differ \cap Scalars) + (IF d.has_set THEN 1 ELSE 0)
       /\ fields \in Int
  <2> DEFINE S == d.delta \cap Scalars  R == reverted \cap Scalars  T == settled \cap Scalars
  <2>1. differ \cap Scalars = (S \ T) \cup R /\ T \in SUBSET S /\ R \cap S = {}
    BY <1>4
  <2>2. IsFiniteSet(S) /\ IsFiniteSet(R)
    BY <1>4, FiniteCells
  <2>3. d.fields = Cardinality(S) + (IF d.has_set THEN 1 ELSE 0)
    BY <1>3 DEF MessageExact
  <2>4. fields = d.fields + Cardinality(R) - Cardinality(T)
    OBVIOUS
  <2> HIDE DEF S, R, T, fields
  <2>5. /\ Cardinality((S \ T) \cup R) = Cardinality(S) + Cardinality(R) - Cardinality(T)
        /\ Cardinality(S) \in Nat /\ Cardinality(R) \in Nat /\ Cardinality(T) \in Nat
    BY <2>1, <2>2, ExchangeCount
  <2>6. Cardinality(differ \cap Scalars) = Cardinality(S) + Cardinality(R) - Cardinality(T)
    BY <2>1, <2>5
  <2> DEFINE k == IF d.has_set THEN 1 ELSE 0
  <2>7. k \in Int /\ d.fields = Cardinality(S) + k
    BY <2>3
  <2> HIDE DEF k
  <2>8. fields = Cardinality(differ \cap Scalars) + k /\ fields \in Int
    BY <2>4, <2>5, <2>6, <2>7
  <2> QED
    BY <2>8 DEF k
<1> HIDE DEF reverted, settled, remote, differ, entries, setCount, fields, committed
<1>14. PICK g : g = committed
  OBVIOUS
<1>15. /\ g.local = d.local /\ g.remote = remote /\ g.delta = differ
       /\ g.entry_fields = count
       /\ g.set_delta = entries /\ g.set_fields = setCount
       /\ g.has_set = d.has_set /\ g.fields = fields
  BY <1>2, <1>14 DEF Copies
<1>16. g \in Copies
  BY <1>2, <1>4, <1>5, <1>9, <1>11, <1>12, <1>13, <1>14 DEF Copies
<1>17. SetExact(g)
  BY <1>6, <1>8, <1>11, <1>12, <1>15 DEF SetExact
<1>18. g.fields = Cardinality(g.delta \cap Scalars) + (IF d.has_set THEN 1 ELSE 0)
  BY <1>13, <1>15
<1>19. CASE g.set_fields = d.set_fields
  <2>1. f = g
    BY <1>1, <1>14, <1>19
  <2>2. g.set_delta # {} <=> d.set_delta # {}
    BY <1>3, <1>16, <1>17, <1>19, SetCount
  <2>3. g.has_set = (g.set_delta # {})
    BY <1>3, <1>15, <2>2 DEF MessageExact
  <2>4. MessageExact(g)
    BY <1>15, <1>18, <2>3 DEF MessageExact
  <2> QED
    BY <1>15, <1>16, <1>17, <2>1, <2>4, ExactByLevels DEF remote
<1>20. CASE g.set_fields # d.set_fields
  <2>1. f = Propagated(d, g)
    BY <1>1, <1>14, <1>20
  <2>2. d.set_fields # 0 \/ g.set_fields # 0
    BY <1>20
  <2> QED
    BY <1>15, <1>16, <1>17, <1>18, <2>1, <2>2, PropagatedExact DEF remote
<1> QED
  BY <1>19, <1>20

-----------------------------------------------------------------------------
(***************************************************************************)
(* The inductive invariant                                                 *)
(***************************************************************************)

\* The request in flight carries differences and nothing else; as long as no
\* edit was noted since it was sent, it carries all of them.  Nobody was told
\* of its end yet.
InFlight ==
  handlerInProgress =>
    /\ deltaCalled /\ updateNotifier \in {"CLEAR", "AWAITING"}
    /\ sent.carried = sent.delta /\ DOMAIN sent.delta \subseteq Cells
    /\ \A c \in DOMAIN sent.delta :
         sent.delta[c] \in Values /\ sent.delta[c] # copy.remote[c]
    /\ ~updateWhileSave =>
         copy.fields # 0 /\ sent.delta = [c \in copy.delta |-> copy.local[c]]

\* What the handler leaves behind: isSynchronized() goes by the true count, and
\* when nothing is in flight either nothing differs or the user is told.
Notes ==
  /\ deltaCalled => lastFields = copy.fields
  /\ deltaCalled /\ ~handlerInProgress /\ ~threw => copy.fields = 0 \/ statusElem = "unsaved"
  /\ updateNotifier = "RESOLVED" => ~handlerInProgress /\ copy.fields = 0

IInv ==
  /\ copy \in Copies /\ server \in [Cells -> Values]
  /\ CountsAreExact /\ RemoteIsServer /\ InFlight /\ Notes

-----------------------------------------------------------------------------
(***************************************************************************)
(* The steps                                                               *)
(***************************************************************************)

\* The counts are determined by the cells.
LEMMA SameCells ==
  ASSUME NEW d \in Copies, Exact(d), NEW e \in Copies, Exact(e),
         d.local = e.local, d.remote = e.remote
  PROVE  d.delta = e.delta /\ d.fields = e.fields
<1>1. SetExact(d) /\ MessageExact(d) /\ SetExact(e) /\ MessageExact(e)
  BY ExactByLevels
<1>2. d.delta = e.delta
  BY <1>1 DEF SetExact
<1>3. \A k \in Entries : d.entry_fields[k] = e.entry_fields[k]
  BY <1>1, <1>2 DEF SetExact
<1>4. d.set_delta = e.set_delta
  BY <1>1, <1>3 DEF SetExact
<1>5. d.has_set = e.has_set
  BY <1>1, <1>4 DEF MessageExact
<1>6. d.fields = e.fields
  BY <1>1, <1>2, <1>5 DEF MessageExact
<1> QED
  BY <1>2, <1>6

\* One iteration of the loop sends everything that differs, or ends the handler
\* when nothing does.
LEMMA IterateEffect ==
  ASSUME NEW d \in Copies, Exact(d), Iterate(d)
  PROVE  /\ updateWhileSave' = FALSE
         /\ handlerInProgress' <=> d.fields # 0
         /\ handlerInProgress' =>
              /\ sent'.carried = sent'.delta /\ DOMAIN sent'.delta \subseteq Cells
              /\ \A c \in DOMAIN sent'.delta :
                   sent'.delta[c] \in Values /\ sent'.delta[c] # d.remote[c]
              /\ sent'.delta = [c \in d.delta |-> d.local[c]]
<1>1. CASE d.fields = 0
  BY <1>1 DEF Iterate
<1>2. CASE d.fields # 0
  <2>1. /\ updateWhileSave' = FALSE /\ handlerInProgress' = TRUE
        /\ sent'.carried = Serialized(d) /\ sent'.delta = CommitDelta(d)
    BY <1>2 DEF Iterate
  <2>2. /\ sent'.carried = [c \in d.delta |-> d.local[c]]
        /\ sent'.delta = [c \in d.delta |-> d.local[c]]
    BY <2>1, RequestCarriesAll
  <2>3. /\ d.delta \subseteq Cells /\ d.local \in [Cells -> Values]
        /\ \A c \in d.delta : d.local[c] # d.remote[c]
    BY ExactByLevels DEF SetExact, Copies
  <2> QED
    BY <1>2, <2>1, <2>2, <2>3
<1> QED
  BY <1>1, <1>2

\* mount() leaves an exact copy of what the server has.
LEMMA InitIInv == Init => IInv
<1> SUFFICES ASSUME Init PROVE IInv
  OBVIOUS
<1>1. PICK filled \in [Defaulted -> Values] :
        copy = [Fresh(Content) EXCEPT
          !.local = [c \in Cells |-> IF c \in Defaulted THEN filled[c] ELSE Content[c]],
          !.delta = {c \in Defaulted : filled[c] # Content[c]},
          !.fields = Cardinality({c \in Defaulted : filled[c] # Content[c]})]
  BY DEF Init
<1> DEFINE local == [c \in Cells |-> IF c \in Defaulted THEN filled[c] ELSE Content[c]]
           changed == {c \in Defaulted : filled[c] # Content[c]}
           n == Cardinality(changed)
<1>2. /\ Content \in [Cells -> Values] /\ Defaulted \subseteq Cells
      /\ changed \in SUBSET Cells /\ changed \subseteq Scalars
      /\ changed \cap EntryCells = {} /\ changed \cap Scalars = changed
      /\ local \in [Cells -> Values]
      /\ changed = {c \in Cells : local[c] # Content[c]}
  BY SyncAssumption, CellsAssumption DEF SyncAssumption, CellsAssumption, Cells
<1>3. n \in Nat
  BY <1>2, FiniteCells
<1>4. copy = [local |-> local, remote |-> Content, delta |-> changed,
              entry_fields |-> [e \in Entries |-> 0], set_delta |-> {}, set_fields |-> 0,
              has_set |-> FALSE, fields |-> n]
  BY <1>1 DEF Fresh
<1> HIDE DEF local, changed, n
<1>5. copy \in Copies
  BY <1>2, <1>3, <1>4 DEF Copies
<1>6. Exact(copy)
  <2>1. \A e \in Entries : Under(changed, e) = {}
    BY <1>2 DEF Under
  <2>2. SetExact(copy)
    BY <1>2, <1>4, <2>1, FS_EmptySet DEF SetExact
  <2>3. copy.has_set = FALSE /\ copy.set_delta = {} /\ copy.fields = n /\ copy.delta = changed
    BY <1>4
  <2>4. copy.has_set = (copy.set_delta # {})
    BY <2>3
  <2>5. n = Cardinality(copy.delta \cap Scalars)
    BY <1>2, <2>3 DEF n
  <2>6. MessageExact(copy)
    BY <1>3, <2>3, <2>4, <2>5 DEF MessageExact
  <2> QED
    BY <2>2, <2>6, ExactByLevels
<1>7. server = Content /\ copy.remote = Content
  BY <1>4 DEF Init
<1>8. RemoteIsServer /\ InFlight /\ Notes
  BY <1>7 DEF Init, RemoteIsServer, InFlight, Notes
<1> QED
  BY <1>2, <1>5, <1>6, <1>7, <1>8 DEF IInv, CountsAreExact

\* An edit, noted or noticed by nobody because it changed nothing.
LEMMA EditIInv ==
  ASSUME IInv, NEW d \in Copies, Exact(d), d.remote = copy.remote,
         NEW told \in BOOLEAN, ~told => d.local = copy.local,
         Edit(d, told)
  PROVE  IInv'
<1>1. /\ copy' = d /\ UNCHANGED <<server, unsure, navigation, page>>
      /\ copy \in Copies /\ Exact(copy)
  BY DEF Edit, IInv, CountsAreExact, serverVars
<1>2. /\ copy' \in Copies /\ server' \in [Cells -> Values] /\ CountsAreExact'
      /\ RemoteIsServer'
  BY <1>1 DEF IInv, CountsAreExact, RemoteIsServer
<1>3. CASE ~told
  <2>1. UNCHANGED <<handlerInProgress, updateWhileSave, lastFields, updateNotifier,
                    statusElem, sent, deltaCalled, threw>>
    BY <1>3 DEF Edit
  <2>2. d.delta = copy.delta /\ d.fields = copy.fields /\ d.local = copy.local
    BY <1>1, <1>3, SameCells
  <2>3. InFlight' /\ Notes'
    BY <1>1, <2>1, <2>2 DEF IInv, InFlight, Notes
  <2> QED
    BY <1>2, <2>3 DEF IInv
<1>4. CASE told
  <2>1. deltaCalled' = TRUE /\ lastFields' = d.fields /\ NoteOrStart(d)
    BY <1>4 DEF Edit, OnDeltaChange
  <2>2. CASE handlerInProgress
    <3>1. /\ updateWhileSave' = TRUE
          /\ UNCHANGED <<handlerInProgress, updateNotifier, statusElem, sent, threw>>
      BY <2>1, <2>2 DEF NoteOrStart
    <3>2. InFlight' /\ Notes'
      BY <1>1, <2>1, <2>2, <3>1 DEF IInv, InFlight, Notes
    <3> QED
      BY <1>2, <3>2 DEF IInv
  <2>3. CASE ~handlerInProgress /\ updateNotifier = "AWAITING"
    <3>1. /\ threw' = TRUE
          /\ UNCHANGED <<handlerInProgress, updateNotifier, statusElem, sent>>
      BY <2>1, <2>3 DEF NoteOrStart
    <3>2. InFlight' /\ Notes'
      BY <1>1, <2>1, <2>3, <3>1 DEF InFlight, Notes
    <3> QED
      BY <1>2, <3>2 DEF IInv
  <2>4. CASE ~handlerInProgress /\ updateNotifier # "AWAITING"
    <3>1. updateNotifier' = "CLEAR" /\ Iterate(d)
      BY <2>1, <2>4 DEF NoteOrStart
    <3>2. InFlight' /\ Notes'
      BY <1>1, <2>1, <3>1, IterateEffect DEF InFlight, Notes
    <3> QED
      BY <1>2, <3>2 DEF IInv
  <2> QED
    BY <2>2, <2>3, <2>4
<1> QED
  BY <1>3, <1>4

\* A commit of all that differs leaves nothing to save.
LEMMA AllCommitted ==
  ASSUME NEW d \in Copies, Exact(d), NEW f \in Copies, Exact(f), f.local = d.local,
         f.remote = Overwritten(d.remote, [c \in d.delta |-> d.local[c]])
  PROVE  f.fields = 0
<1>1. SetExact(d) /\ SetExact(f)
  BY ExactByLevels
<1>2. \A c \in Cells : f.remote[c] = d.local[c]
  BY <1>1 DEF Overwritten, SetExact
<1>3. f.delta = {}
  BY <1>1, <1>2 DEF SetExact
<1> QED
  BY <1>3, NothingToSave

\* The answer to a request: it is committed, and what was edited meanwhile is sent.
LEMMA SucceedsIInv ==
  IInv /\ RequestSucceeds => IInv' /\ (handlerInProgress' \/ copy'.fields = 0)
<1> SUFFICES ASSUME IInv, RequestSucceeds
             PROVE  IInv' /\ (handlerInProgress' \/ copy'.fields = 0)
  OBVIOUS
<1>1. /\ handlerInProgress /\ Answered
      /\ server' = Overwritten(server, sent.carried)
      /\ unsure' = unsure \ DOMAIN sent.carried
      /\ threw' = threw
  BY DEF RequestSucceeds
<1>2. /\ copy \in Copies /\ Exact(copy) /\ server \in [Cells -> Values]
      /\ deltaCalled /\ updateNotifier \in {"CLEAR", "AWAITING"}
      /\ lastFields = copy.fields
      /\ sent.carried = sent.delta /\ DOMAIN sent.delta \subseteq Cells
      /\ \A c \in DOMAIN sent.delta :
           sent.delta[c] \in Values /\ sent.delta[c] # copy.remote[c]
      /\ ~updateWhileSave => sent.delta = [c \in copy.delta |-> copy.local[c]]
      /\ ~updateWhileSave => copy.fields # 0
  BY <1>1 DEF IInv, CountsAreExact, InFlight, Notes
<1>3. PICK d : d = Committed
  OBVIOUS
<1>4. d = Commit(copy, sent.delta)
  BY <1>3 DEF Committed
<1>5. /\ d \in Copies /\ Exact(d) /\ d.local = copy.local
      /\ d.remote = Overwritten(copy.remote, sent.delta)
  BY <1>2, <1>4, CommitExact
<1>6. ~updateWhileSave => d.fields = 0 /\ d.fields # copy.fields
  BY <1>2, <1>5, AllCommitted
<1>7. /\ copy' = d
      /\ IF updateWhileSave THEN NoSettle ELSE Settle("RESOLVED")
      /\ lastFields' = CASE d.fields # copy.fields -> d.fields
                         [] ~(d.fields # copy.fields) /\ ~updateWhileSave -> 0
                         [] OTHER -> lastFields
      /\ deltaCalled' = (deltaCalled \/ d.fields # copy.fields)
      /\ IF updateWhileSave \/ d.fields # copy.fields THEN Iterate(d) ELSE HandlerEnds("")
  BY <1>1, <1>3 DEF Answered
<1>8. copy' = d /\ Iterate(d) /\ lastFields' = d.fields /\ deltaCalled' = TRUE
  BY <1>2, <1>6, <1>7
<1>9. /\ updateWhileSave => updateNotifier' \in {"CLEAR", "AWAITING"}
      /\ ~updateWhileSave => d.fields = 0
  BY <1>2, <1>6, <1>7 DEF NoSettle
<1>10. InFlight' /\ Notes'
  BY <1>5, <1>8, <1>9, IterateEffect DEF InFlight, Notes
<1>11. server' \in [Cells -> Values] /\ RemoteIsServer'
  BY <1>1, <1>2, <1>5, <1>8 DEF IInv, RemoteIsServer, Overwritten
<1>12. handlerInProgress' \/ copy'.fields = 0
  BY <1>5, <1>8, IterateEffect
<1> QED
  BY <1>5, <1>8, <1>10, <1>11, <1>12 DEF IInv, CountsAreExact

\* A request that failed for the page, whether or not the server acted on it.
LEMMA FailedIInv ==
  ASSUME IInv, handlerInProgress, Failed, server' \in [Cells -> Values], RemoteIsServer',
         threw' = threw
  PROVE  IInv'
<1>1. /\ copy \in Copies /\ Exact(copy)
      /\ deltaCalled /\ updateNotifier \in {"CLEAR", "AWAITING"}
      /\ lastFields = copy.fields
  BY DEF IInv, CountsAreExact, InFlight, Notes
<1>2. UNCHANGED <<copy, lastFields, deltaCalled>>
  BY DEF Failed
<1>3. CASE updateWhileSave
  <2>1. updateNotifier' = updateNotifier /\ Iterate(copy)
    BY <1>3 DEF Failed, NoSettle
  <2>2. InFlight' /\ Notes'
    BY <1>1, <1>2, <2>1, IterateEffect DEF InFlight, Notes
  <2> QED
    BY <1>1, <1>2, <2>2 DEF IInv, CountsAreExact
<1>4. CASE ~updateWhileSave
  <2>1. /\ updateNotifier' \in {"FULFILLED", "REJECTED"}
        /\ handlerInProgress' = FALSE /\ statusElem' = "unsaved"
    BY <1>4 DEF Failed, Settle, HandlerEnds
  <2>2. InFlight' /\ Notes'
    BY <1>1, <1>2, <2>1 DEF InFlight, Notes
  <2> QED
    BY <1>1, <1>2, <2>2 DEF IInv, CountsAreExact
<1> QED
  BY <1>3, <1>4

\* Edits with several setters, from the exactness of the copies they leave.
LEMMA EditsIInv ==
  ASSUME IInv, NEW c1 \in EntryCells, NEW c2 \in EntryCells, c1 # c2,
         NEW v1 \in Values, NEW v2 \in Values
  PROVE  /\ Edit(AssignedTogether(copy, c1, v1, c2, v2),
                 Tells(copy, c1, v1) \/ Tells(SetAttr(copy, c1, v1), c2, v2)) => IInv'
         /\ Edit(Assigned(Assigned(copy, c1, v1), c2, v2),
                 Tells(copy, c1, v1) \/ Tells(Assigned(copy, c1, v1), c2, v2)) => IInv'
<1>1. copy \in Copies /\ Exact(copy)
  BY DEF IInv, CountsAreExact
<1>2. ASSUME Edit(AssignedTogether(copy, c1, v1, c2, v2),
                  Tells(copy, c1, v1) \/ Tells(SetAttr(copy, c1, v1), c2, v2))
      PROVE  IInv'
  <2>1. PICK f : f = AssignedTogether(copy, c1, v1, c2, v2)
    OBVIOUS
  <2>2. PICK told \in BOOLEAN :
          told <=> Tells(copy, c1, v1) \/ Tells(SetAttr(copy, c1, v1), c2, v2)
    OBVIOUS
  <2>3. /\ f \in Copies /\ Exact(f) /\ f.remote = copy.remote
        /\ ~told => f.local = copy.local
    BY <1>1, <2>1, <2>2, AssignedTogetherExact
  <2>4. Edit(f, told)
    BY <1>2, <2>1, <2>2 DEF Edit
  <2> QED
    BY <2>3, <2>4, EditIInv
<1>3. ASSUME Edit(Assigned(Assigned(copy, c1, v1), c2, v2),
                  Tells(copy, c1, v1) \/ Tells(Assigned(copy, c1, v1), c2, v2))
      PROVE  IInv'
  <2>1. PICK e : e = Assigned(copy, c1, v1)
    OBVIOUS
  <2>2. PICK f : f = Assigned(e, c2, v2)
    OBVIOUS
  <2>3. PICK told \in BOOLEAN : told <=> Tells(copy, c1, v1) \/ Tells(e, c2, v2)
    OBVIOUS
  <2>4. c1 \in Cells /\ c2 \in Cells
    BY DEF Cells
  <2>5. /\ e \in Copies /\ Exact(e) /\ e.remote = copy.remote
        /\ ~Tells(copy, c1, v1) => e.local = copy.local
    BY <1>1, <2>1, <2>4, AssignedExact
  <2>6. /\ f \in Copies /\ Exact(f) /\ f.remote = e.remote
        /\ ~Tells(e, c2, v2) => f.local = e.local
    BY <2>2, <2>4, <2>5, AssignedExact
  <2>7. Edit(f, told)
    BY <1>3, <2>1, <2>2, <2>3 DEF Edit
  <2> QED
    BY <2>3, <2>5, <2>6, <2>7, EditIInv
<1> QED
  BY <1>2, <1>3

LEMMA NextIInv == IInv /\ [Next]_vars => IInv'
<1> SUFFICES ASSUME IInv, [Next]_vars PROVE IInv'
  OBVIOUS
<1>1. copy \in Copies /\ Exact(copy) /\ server \in [Cells -> Values]
  BY DEF IInv, CountsAreExact
<1>2. ASSUME NEW c \in Cells, NEW v \in Values, Assign(c, v) PROVE IInv'
  <2>1. PICK e : e = Assigned(copy, c, v)
    OBVIOUS
  <2>2. PICK told \in BOOLEAN : told <=> Tells(copy, c, v)
    OBVIOUS
  <2>3. /\ e \in Copies /\ Exact(e) /\ e.remote = copy.remote
        /\ ~told => e.local = copy.local
    BY <1>1, <2>1, <2>2, AssignedExact
  <2>4. Edit(e, told)
    BY <1>2, <2>1, <2>2 DEF Assign, Edit
  <2> QED
    BY <2>3, <2>4, EditIInv
<1>3. ASSUME NEW e1 \in Entries, NEW e2 \in Entries, NEW a \in Attrs, e1 # e2,
             Swap(e1, e2, a)
      PROVE  IInv'
  <2>1. /\ <<e1, a>> \in EntryCells /\ <<e2, a>> \in EntryCells
        /\ <<e1, a>> # <<e2, a>>
    BY <1>3 DEF EntryCells
  <2>2. copy.local[<<e1, a>>] \in Values /\ copy.local[<<e2, a>>] \in Values
    BY <1>1, <2>1 DEF Copies, Cells
  <2> QED
    BY <1>3, <2>1, <2>2, EditsIInv DEF Swap
<1>4. ASSUME NEW e \in Entries, NEW a1 \in Attrs, NEW a2 \in Attrs,
             NEW v1 \in Values, NEW v2 \in Values, a1 # a2,
             AtomicChange(<<e, a1>>, v1, <<e, a2>>, v2) \/ Add(e, a1, v1, a2, v2)
      PROVE  IInv'
  <2>1. /\ <<e, a1>> \in EntryCells /\ <<e, a2>> \in EntryCells
        /\ <<e, a1>> # <<e, a2>>
    BY <1>4 DEF EntryCells
  <2> QED
    BY <1>4, <2>1, EditsIInv DEF AtomicChange, Add
<1>5. CASE RequestSucceeds
  BY <1>5, SucceedsIInv
<1>6. CASE RequestFails
  <2>1. handlerInProgress /\ Failed /\ UNCHANGED <<server, unsure, threw>>
    BY <1>6 DEF RequestFails, serverVars
  <2>2. RemoteIsServer'
    BY <2>1 DEF IInv, RemoteIsServer, Failed
  <2> QED
    BY <1>1, <2>1, <2>2, FailedIInv
<1>7. CASE AnswerIsLost
  <2>1. /\ handlerInProgress /\ Failed /\ threw' = threw
        /\ server' = Overwritten(server, sent.carried)
        /\ unsure' = unsure \cup DOMAIN sent.carried
    BY <1>7 DEF AnswerIsLost
  <2>2. /\ copy' = copy
        /\ \A c \in DOMAIN sent.carried : sent.carried[c] \in Values
    BY <2>1 DEF IInv, InFlight, Failed
  <2>3. server' \in [Cells -> Values] /\ RemoteIsServer'
    BY <1>1, <2>1, <2>2 DEF IInv, RemoteIsServer, Overwritten
  <2> QED
    BY <2>1, <2>3, FailedIInv
<1>8. CASE Navigate
  <2>1. /\ UNCHANGED <<copy, handlerInProgress, updateWhileSave, lastFields, statusElem, sent,
                       server, unsure, deltaCalled, threw>>
        /\ \/ updateNotifier' = updateNotifier
           \/ updateNotifier = "CLEAR" /\ updateNotifier' = "AWAITING"
           \/ /\ updateNotifier \in {"RESOLVED", "REJECTED"}
              /\ updateNotifier' = "FULFILLED"
    BY <1>8 DEF Navigate, serverVars
  <2>2. InFlight' /\ Notes'
    BY <2>1 DEF IInv, InFlight, Notes
  <2>3. CountsAreExact' /\ RemoteIsServer'
    BY <2>1 DEF IInv, CountsAreExact, RemoteIsServer
  <2> QED
    BY <1>1, <2>1, <2>2, <2>3 DEF IInv
<1>9. CASE UNCHANGED vars
  BY <1>9 DEF vars, saveVars, serverVars, userVars, IInv, CountsAreExact, RemoteIsServer,
              InFlight, Notes
<1> QED
  BY <1>2, <1>3, <1>4, <1>5, <1>6, <1>7, <1>8, <1>9 DEF Next

LEMMA Invariance == Spec => []IInv
BY InitIInv, NextIInv, PTL DEF Spec

-----------------------------------------------------------------------------
(***************************************************************************)
(* The theorems                                                            *)
(***************************************************************************)

\* A copy with nothing to save is what the server has, but for the cells of
\* requests whose answers were lost.
LEMMA CleanIsSaved == IInv /\ copy.fields = 0 => Saved
BY NothingToSave DEF IInv, CountsAreExact, RemoteIsServer, Saved

\* The counts by which diff.ts decides whether there is anything to save are
\* those of the differing cells, whatever was edited during a request.
THEOREM CountsStayExact == Spec => []CountsAreExact
<1>1. IInv => CountsAreExact
  BY DEF IInv
<1> QED
  BY <1>1, Invariance, PTL

\* The page knows what the server has, but for answers that were lost.
THEOREM RemoteStaysServer == Spec => []RemoteIsServer
<1>1. IInv => RemoteIsServer
  BY DEF IInv
<1> QED
  BY <1>1, Invariance, PTL

\* isSynchronized() after the first edit means that the edits were saved: none
\* is dropped between two requests of onDeltaChange.
THEOREM NoEditIsDropped == Spec => []SynchronizedIsSaved
<1>1. IInv => SynchronizedIsSaved
  <2> SUFFICES ASSUME IInv, deltaCalled, ~handlerInProgress, lastFields = 0
               PROVE  Saved
    BY DEF SynchronizedIsSaved
  <2>1. copy.fields = 0
    BY DEF IInv, Notes
  <2> QED
    BY <2>1, CleanIsSaved
<1> QED
  BY <1>1, Invariance, PTL

\* Once the handler has ended, edits that are not saved are shown as "unsaved".
THEOREM FailuresAreShown == Spec => []UnsavedIsReported
<1>1. IInv => UnsavedIsReported
  <2> SUFFICES ASSUME IInv, deltaCalled, ~handlerInProgress, ~Saved, ~threw
               PROVE  statusElem = "unsaved"
    BY DEF UnsavedIsReported
  <2>1. copy.fields # 0
    BY CleanIsSaved
  <2> QED
    BY <2>1 DEF IInv, Notes
<1> QED
  BY <1>1, Invariance, PTL

\* goTo leaves an edited page without asking only when its edits are saved or a
\* request is still under way.
THEOREM NoSilentLoss == Spec => SilentLeave
<1>1. IInv' /\ copy'.fields = 0 => Saved'
  BY NothingToSave DEF IInv, CountsAreExact, RemoteIsServer, Saved
<1>2. \A d, told : Edit(d, told) => page' = page
  BY DEF Edit
<1>3. IInv /\ IInv' /\ [Next]_vars =>
        (page = "open" /\ page' = "left" /\ deltaCalled' => Saved' \/ handlerInProgress')
  <2> SUFFICES ASSUME IInv, IInv', [Next]_vars,
                      page = "open", page' = "left", deltaCalled', ~handlerInProgress'
               PROVE  copy'.fields = 0
    BY <1>1
  <2>1. CASE RequestSucceeds
    BY <2>1, SucceedsIInv
  <2>2. CASE RequestFails \/ AnswerIsLost
    BY <2>2 DEF RequestFails, AnswerIsLost, Failed, NoSettle, Settle, NavigationEnds
  <2>3. CASE Navigate
    BY <2>3 DEF Navigate, IInv, Notes
  <2>4. /\ \A c \in Cells, v \in Values : ~Assign(c, v)
        /\ \A e1, e2 \in Entries, a \in Attrs : ~Swap(e1, e2, a)
        /\ \A e \in Entries, a1, a2 \in Attrs, v1, v2 \in Values :
             ~AtomicChange(<<e, a1>>, v1, <<e, a2>>, v2) /\ ~Add(e, a1, v1, a2, v2)
    BY <1>2 DEF Assign, Swap, AtomicChange, Add
  <2>5. CASE UNCHANGED vars
    BY <2>5 DEF vars, userVars
  <2> QED
    BY <2>1, <2>2, <2>3, <2>4, <2>5 DEF Next
<1> QED
  BY <1>3, Invariance, PTL DEF Spec, SilentLeave
=============================================================================
