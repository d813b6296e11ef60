--------------------------- MODULE IdRangesProofs ---------------------------
(***************************************************************************)
(* Proofs about IdRanges for any number of sessions and handlers and any   *)
(* MAX_IDS.                                                                *)
(***************************************************************************)
EXTENDS IdRanges, TLAPS

\* The ranges the database has given out are below seq and do not overlap; one
\* that does not exist has end 0.
RangesApart ==
  /\ \A n \in Starts : end[n] = 0 \/ (n < end[n] /\ end[n] <= seq /\ n <= ptr[n])
  /\ \A m, n \in Starts : m < n /\ end[n] # 0 => end[m] <= n

\* What is between ptr and end of a range was not given to anybody.
FreeIsUnused ==
  /\ \A s \in Sessions : \A id \in given[s] : id < seq
  /\ \A s \in Sessions, n \in Starts : \A id \in given[s] :
       ~(ptr[n] <= id /\ id < end[n])

\* The links lead to ranges that exist, and a handler that is past the load has
\* one in hand.
HandlersInRange ==
  /\ \A l \in Links : next[l] # null => next[l] \in Starts /\ end[next[l]] # 0
  /\ \A h \in Handlers :
       /\ block_len[h] # 0
       /\ pc[h] # "idle" => who[h] \in Sessions /\ where[h] \in Links
       /\ pc[h] \in {"test", "add", "store"} =>
            current[h] \in Starts /\ end[current[h]] # 0

IInv == TypeOK /\ RangesApart /\ FreeIsUnused /\ HandlersInRange

LEMMA InitIInv == Init => IInv
<1> SUFFICES ASSUME Init PROVE IInv
  OBVIOUS
<1> USE IdAssumption DEF Init
<1>1. TypeOK
  BY DEF TypeOK, Starts, Links
<1>2. RangesApart /\ FreeIsUnused /\ HandlersInRange
  BY DEF RangesApart, FreeIsUnused, HandlersInRange, Starts, Links
<1> QED
  BY <1>1, <1>2 DEF IInv

\* Every step of a handler preserves it.
LEMMA NextIInv == IInv /\ [Next]_vars => IInv'
<1> SUFFICES ASSUME IInv, [Next]_vars PROVE IInv'
  OBVIOUS
<1> USE IdAssumption DEF IInv, heap, local
<1>s. Starts \subseteq Links /\ Sessions \subseteq Links /\ (\A n : n \in Starts <=> n \in Nat /\ n < MaxSeq)
  BY DEF Starts, Links
<1> USE <1>s
<1>1. ASSUME NEW h \in Handlers, NEW s \in Sessions, Request(h, s) PROVE IInv'
  <2> USE <1>1 DEF Request
  <2>1. TypeOK'
    BY DEF TypeOK, HandlersInRange, RangesApart
  <2>2. RangesApart'
    BY DEF RangesApart, TypeOK, HandlersInRange
  <2>3. FreeIsUnused'
    BY DEF FreeIsUnused, RangesApart, HandlersInRange, TypeOK
  <2>4. HandlersInRange'
    BY DEF HandlersInRange, TypeOK, RangesApart
  <2> QED
    BY <2>1, <2>2, <2>3, <2>4
<1>2. ASSUME NEW h \in Handlers, Load(h) PROVE IInv'
  <2> USE <1>2 DEF Load
  <2>1. TypeOK'
    BY DEF TypeOK, HandlersInRange, RangesApart
  <2>2. RangesApart'
    BY DEF RangesApart, TypeOK, HandlersInRange
  <2>3. FreeIsUnused'
    BY DEF FreeIsUnused, RangesApart, HandlersInRange, TypeOK
  <2>4. HandlersInRange'
    BY DEF HandlersInRange, TypeOK, RangesApart
  <2> QED
    BY <2>1, <2>2, <2>3, <2>4
<1>3. ASSUME NEW h \in Handlers, Test(h) PROVE IInv'
  <2> USE <1>3 DEF Test, MoveOn
  <2>a. /\ current[h] \in Starts /\ current[h] \in Nat /\ end[current[h]] \in Nat
        /\ current[h] < end[current[h]] /\ ptr[current[h]] \in Nat
        /\ who[h] \in Sessions
    BY DEF HandlersInRange, RangesApart, TypeOK
  <2>b. 2 * (end[current[h]] - current[h]) \in Nat \ {0}
    BY <2>a
  <2>1. TypeOK'
    BY <2>a, <2>b DEF TypeOK, HandlersInRange, RangesApart
  <2>2. RangesApart'
    BY <2>a, <2>b DEF RangesApart, TypeOK, HandlersInRange
  <2>3. FreeIsUnused'
    BY <2>a, <2>b DEF FreeIsUnused, RangesApart, HandlersInRange, TypeOK
  <2>4. HandlersInRange'
    BY <2>a, <2>b DEF HandlersInRange, TypeOK, RangesApart
  <2> QED
    BY <2>1, <2>2, <2>3, <2>4
<1>4. ASSUME NEW h \in Handlers, Reserve(h) PROVE IInv'
  <2> USE <1>4 DEF Reserve, MoveOn, Answer, Least
  <2>a. /\ current[h] \in Starts /\ current[h] \in Nat /\ end[current[h]] \in Nat
        /\ current[h] < end[current[h]] /\ ptr[current[h]] \in Nat
        /\ who[h] \in Sessions
    BY DEF HandlersInRange, RangesApart, TypeOK
  <2>b. 2 * (end[current[h]] - current[h]) \in Nat \ {0}
    BY <2>a
  <2>c. ptr[current[h]] + MAX_IDS \in Nat
    BY <2>a
  <2>d. CASE ptr[current[h]] < end[current[h]]
    <3> DEFINE ids == ptr[current[h]]..Least(ptr[current[h]] + MAX_IDS, end[current[h]]) - 1
    <3>1. \A id \in ids : id \in Nat /\ ptr[current[h]] <= id /\ id < end[current[h]]
                         /\ id < ptr[current[h]] + MAX_IDS /\ id < seq /\ id \in Starts
      BY <2>a, <2>c DEF RangesApart, TypeOK
    <3>2. /\ given' = [given EXCEPT ![who[h]] = @ \cup ids]
          /\ pc' = [pc EXCEPT ![h] = "idle"] /\ UNCHANGED <<where, block_len>>
      BY <2>d
    <3>3. TypeOK'
      BY <2>a, <2>c, <3>1, <3>2 DEF TypeOK
    <3>4. RangesApart'
      BY <2>a, <2>c DEF RangesApart, TypeOK
    <3>5. FreeIsUnused'
      <4>1. ASSUME NEW s \in Sessions, NEW id \in given'[s] PROVE id < seq
        BY <2>a, <3>1, <3>2 DEF FreeIsUnused, TypeOK
      <4>2. ASSUME NEW s \in Sessions, NEW m \in Starts, NEW id \in given'[s]
            PROVE  ~(ptr'[m] <= id /\ id < end[m])
        <5>1. CASE id \in given[s]
          BY <2>a, <2>c, <5>1 DEF FreeIsUnused, TypeOK
        <5>2. CASE id \in ids
          <6>1. m \in Nat /\ id \in Nat /\ end[m] \in Nat /\ ptr[m] \in Nat
            BY <3>1, <5>2 DEF TypeOK
          <6>2. CASE m = current[h]
            BY <2>a, <2>c, <3>1, <5>2, <6>1, <6>2 DEF TypeOK
          <6>3. CASE m < current[h]
            BY <2>a, <3>1, <5>2, <6>1, <6>3 DEF RangesApart, TypeOK
          <6>4. CASE m > current[h]
            BY <2>a, <3>1, <5>2, <6>1, <6>4 DEF RangesApart, TypeOK
          <6> QED
            BY <2>a, <6>1, <6>2, <6>3, <6>4
        <5> QED
          BY <2>a, <3>2, <5>1, <5>2 DEF TypeOK
      <4> QED
        BY <4>1, <4>2 DEF FreeIsUnused
    <3>6. HandlersInRange'
      BY <2>a, <3>2 DEF HandlersInRange, TypeOK
    <3> QED
      BY <3>3, <3>4, <3>5, <3>6
  <2>e. CASE ~(ptr[current[h]] < end[current[h]])
    <3>0. MoveOn(h) /\ UNCHANGED given
      BY <2>e
    <3>a. /\ pc' \in [Handlers -> {"idle", "load", "test", "add", "query", "store"}]
          /\ where' \in [Handlers -> Links \cup {null}]
          /\ block_len' \in [Handlers -> Nat]
      BY <2>a, <2>b, <3>0 DEF TypeOK
    <3>b. ptr' \in [Starts -> Nat]
      BY <2>a, <2>c DEF TypeOK
    <3>1. TypeOK'
      BY <2>a, <2>b, <2>c, <3>0, <3>a, <3>b DEF TypeOK, HandlersInRange, RangesApart
    <3>2. RangesApart'
      BY <2>a, <2>b, <2>c, <3>0, <3>a, <3>b DEF RangesApart, TypeOK, HandlersInRange
    <3>3. FreeIsUnused'
      BY <2>a, <2>b, <2>c, <3>0, <3>a, <3>b DEF FreeIsUnused, RangesApart, HandlersInRange, TypeOK
    <3>4. HandlersInRange'
      BY <2>a, <2>b, <2>c, <3>0, <3>a, <3>b DEF HandlersInRange, TypeOK, RangesApart
    <3> QED
      BY <3>1, <3>2, <3>3, <3>4
  <2> QED
    BY <2>d, <2>e
<1>5. ASSUME NEW h \in Handlers, Query(h) PROVE IInv'
  <2> USE <1>5 DEF Query
  <2>a. /\ seq \in Starts /\ block_len[h] \in Nat \ {0} /\ MaxSeq \in Nat
        /\ seq + block_len[h] \in 0..MaxSeq /\ seq < seq + block_len[h]
    BY SMTT(30) DEF TypeOK, HandlersInRange
  <2>1. TypeOK'
    BY <2>a DEF TypeOK, HandlersInRange, RangesApart
  <2>2. RangesApart'
    BY <2>a DEF RangesApart, TypeOK, HandlersInRange
  <2>3. FreeIsUnused'
    BY <2>a DEF FreeIsUnused, RangesApart, HandlersInRange, TypeOK
  <2>4. HandlersInRange'
    BY <2>a DEF HandlersInRange, TypeOK, RangesApart
  <2> QED
    BY <2>1, <2>2, <2>3, <2>4
<1>6. ASSUME NEW h \in Handlers, QueryFails(h) PROVE IInv'
  <2> USE <1>6 DEF QueryFails
  <2>1. TypeOK'
    BY DEF TypeOK, HandlersInRange, RangesApart
  <2>2. RangesApart'
    BY DEF RangesApart, TypeOK, HandlersInRange
  <2>3. FreeIsUnused'
    BY DEF FreeIsUnused, RangesApart, HandlersInRange, TypeOK
  <2>4. HandlersInRange'
    BY DEF HandlersInRange, TypeOK, RangesApart
  <2> QED
    BY <2>1, <2>2, <2>3, <2>4
<1>7. ASSUME NEW h \in Handlers, Store(h) PROVE IInv'
  <2> USE <1>7 DEF Store
  <2>1. TypeOK'
    BY DEF TypeOK, HandlersInRange, RangesApart
  <2>2. RangesApart'
    BY DEF RangesApart, TypeOK, HandlersInRange
  <2>3. FreeIsUnused'
    BY DEF FreeIsUnused, RangesApart, HandlersInRange, TypeOK
  <2>4. HandlersInRange'
    BY DEF HandlersInRange, TypeOK, RangesApart
  <2> QED
    BY <2>1, <2>2, <2>3, <2>4
<1>8. ASSUME UNCHANGED vars PROVE IInv'
  <2> USE <1>8 DEF vars
  <2>1. TypeOK'
    BY DEF TypeOK, HandlersInRange, RangesApart
  <2>2. RangesApart'
    BY DEF RangesApart, TypeOK, HandlersInRange
  <2>3. FreeIsUnused'
    BY DEF FreeIsUnused, RangesApart, HandlersInRange, TypeOK
  <2>4. HandlersInRange'
    BY DEF HandlersInRange, TypeOK, RangesApart
  <2> QED
    BY <2>1, <2>2, <2>3, <2>4
<1> QED
  BY <1>1, <1>2, <1>3, <1>4, <1>5, <1>6, <1>7, <1>8 DEF Next

LEMMA Invariance == Spec => []IInv
<1>1. Init => IInv
  BY InitIInv
<1>2. IInv /\ [Next]_vars => IInv'
  BY NextIInv
<1> QED
  BY <1>1, <1>2, PTL DEF Spec

\* The fields of the ranges and the locals of the handlers stay in range.
THEOREM TypeCorrect == Spec => []TypeOK
<1>1. IInv => TypeOK
  BY DEF IInv
<1> QED
  BY <1>1, Invariance, PTL

\* Every answer gives ids nobody was given before: the server implements
\* IdAllocator, however its handlers interleave.
THEOREM FreshIds == Spec => IdsAreFresh
<1>1. Init => Allocator!AllocInit
  BY DEF Init, Allocator!AllocInit
<1>2. IInv /\ [Next]_vars => [Allocator!AllocNext]_given
  <2> SUFFICES ASSUME IInv, [Next]_vars, given' # given
               PROVE  \E s \in Sessions : Allocator!Allocate(s)
    BY DEF Allocator!AllocNext
  <2>1. PICK h \in Handlers : Reserve(h) /\ ptr[current[h]] < end[current[h]]
    BY DEF Next, vars, Request, Load, Test, Reserve, Query, QueryFails, Store
  <2> DEFINE n == current[h]
             last == Least(ptr[n] + MAX_IDS, end[n])
             ids == ptr[n]..last - 1
  <2>2. /\ who[h] \in Sessions /\ n \in Starts
        /\ given' = [given EXCEPT ![who[h]] = @ \cup ids]
    BY <2>1 DEF Reserve, Answer, IInv, HandlersInRange
  <2>3. ptr[n] \in ids /\ \A id \in ids : ptr[n] <= id /\ id < end[n]
    <3>1. /\ ptr[n] \in Nat /\ end[n] \in Nat /\ MAX_IDS \in Nat \ {0}
          /\ ptr[n] < end[n]
      BY <2>1, <2>2, IdAssumption DEF IInv, TypeOK, Starts
    <3> QED
      BY <3>1 DEF Least
  <2>4. \A t \in Sessions : ids \cap given[t] = {}
    BY <2>2, <2>3 DEF IInv, FreeIsUnused
  <2>5. given'[who[h]] \ given[who[h]] = ids
    BY <2>2, <2>4 DEF IInv, TypeOK
  <2> QED
    BY <2>2, <2>3, <2>4, <2>5 DEF Allocator!Allocate
<1> QED
  BY <1>1, <1>2, Invariance, PTL DEF Spec, IdsAreFresh, Allocator!AllocSpec
=============================================================================
