------------------------ MODULE ConnectionPoolProofs ------------------------
(***************************************************************************)
(* Proofs about ConnectionPool for any number of handlers, connections and *)
(* any conns_desired.                                                      *)
(***************************************************************************)
EXTENDS ConnectionPool, SequenceTheorems, FiniteSetTheorems, TLAPS

-----------------------------------------------------------------------------
(***************************************************************************)
(* What the operations on the pool and on the queues of waiters do to their *)
(* elements, when no element is in them twice.                             *)
(***************************************************************************)

\* push_back adds one element and keeps the elements distinct.
LEMMA AppendElements ==
  ASSUME NEW S, NEW s \in Seq(S), NEW e \in S
  PROVE  /\ Append(s, e) \in Seq(S)
         /\ Append(s, e) # <<>>
         /\ ToSet(Append(s, e)) = ToSet(s) \cup {e}
         /\ IsInjective(s) /\ e \notin ToSet(s) => IsInjective(Append(s, e))
<1> DEFINE t == Append(s, e)
<1>1. /\ t \in Seq(S) /\ t # <<>> /\ Len(t) = Len(s) + 1
      /\ \A i \in 1..Len(s) : t[i] = s[i]
      /\ t[Len(s) + 1] = e
  BY AppendProperties
<1>2. DOMAIN s = 1..Len(s) /\ DOMAIN t = 1..Len(t) /\ Len(s) \in Nat
  BY <1>1, LenProperties
<1>3. ToSet(t) = ToSet(s) \cup {e}
  BY <1>1, <1>2 DEF ToSet
<1>4. IsInjective(s) /\ e \notin ToSet(s) => IsInjective(t)
  BY <1>1, <1>2 DEF IsInjective, ToSet
<1> QED
  BY <1>1, <1>3, <1>4

\* pop of a queue without duplicates removes exactly its front.
LEMMA TailElements ==
  ASSUME NEW S, NEW s \in Seq(S), s # <<>>, IsInjective(s)
  PROVE  /\ Head(s) \in S /\ Head(s) \in ToSet(s)
         /\ Tail(s) \in Seq(S)
         /\ IsInjective(Tail(s))
         /\ ToSet(Tail(s)) = ToSet(s) \ {Head(s)}
<1> DEFINE t == Tail(s)
<1>1. /\ Head(s) \in S /\ t \in Seq(S) /\ Len(t) = Len(s) - 1
      /\ \A i \in 1..Len(t) : t[i] = s[i + 1]
  BY HeadTailProperties
<1>2. DOMAIN s = 1..Len(s) /\ DOMAIN t = 1..Len(t) /\ Len(s) \in Nat \ {0}
  BY <1>1, LenProperties, EmptySeq
<1>3. Head(s) = s[1]
  OBVIOUS
<1>4. IsInjective(t)
  BY <1>1, <1>2 DEF IsInjective
<1>5. ToSet(t) = ToSet(s) \ {Head(s)}
  <2>1. ASSUME NEW x \in ToSet(t) PROVE x \in ToSet(s) \ {Head(s)}
    BY <1>1, <1>2, <1>3 DEF ToSet, IsInjective
  <2>2. ASSUME NEW x \in ToSet(s) \ {Head(s)} PROVE x \in ToSet(t)
    <3>1. PICK i \in 1..Len(s) : x = s[i] /\ i # 1
      BY <1>2, <1>3 DEF ToSet
    <3>2. i - 1 \in 1..Len(t) /\ t[i - 1] = x
      BY <1>1, <1>2, <3>1
    <3> QED
      BY <1>2, <3>2 DEF ToSet
  <2> QED
    BY <2>1, <2>2
<1> QED
  BY <1>1, <1>2, <1>3, <1>4, <1>5 DEF ToSet

\* pop_back of a vector without duplicates removes exactly its back.
LEMMA FrontElements ==
  ASSUME NEW S, NEW s \in Seq(S), s # <<>>, IsInjective(s)
  PROVE  /\ Last(s) \in S /\ Last(s) \in ToSet(s)
         /\ Front(s) \in Seq(S)
         /\ IsInjective(Front(s))
         /\ ToSet(Front(s)) = ToSet(s) \ {Last(s)}
<1> DEFINE t == Front(s)
<1>1. Len(s) \in Nat \ {0} /\ DOMAIN s = 1..Len(s)
  BY LenProperties, EmptySeq
<1>2. \A i \in 1..Len(s) - 1 : s[i] \in S
  BY <1>1, ElementOfSeq
<1>3. /\ t \in Seq(S) /\ Len(t) = Len(s) - 1
      /\ \A i \in 1..Len(t) : t[i] = s[i]
  BY <1>1, <1>2, SubSeqProperties DEF Front
<1>4. DOMAIN t = 1..Len(t)
  BY <1>3, LenProperties
<1>5. Last(s) \in S /\ Last(s) \in ToSet(s)
  BY <1>1, ElementOfSeq DEF Last, ToSet
<1>6. IsInjective(t)
  BY <1>1, <1>3, <1>4 DEF IsInjective
<1>7. ToSet(t) = ToSet(s) \ {Last(s)}
  BY <1>1, <1>3, <1>4 DEF ToSet, IsInjective, Last
<1> QED
  BY <1>3, <1>5, <1>6, <1>7

-----------------------------------------------------------------------------
(***************************************************************************)
(* The inductive invariant                                                 *)
(***************************************************************************)

\* SingleOwner, connection by connection and handler by handler.
Ownership ==
  /\ IsInjective(pool)
  /\ \A c \in Conns :
       status[c] # "none" <=> \/ c \in ToSet(pool) \/ c \in rolling
                              \/ \E r \in Reqs : conn[r] = c
  /\ \A c \in ToSet(pool) : c \in Conns /\ c \notin rolling
  /\ \A r \in Reqs : conn[r] \notin ToSet(pool) /\ conn[r] \notin rolling
  /\ \A q, r \in Reqs : conn[q] = conn[r] /\ conn[q] # NoConn => q = r

\* NoInheritedTransaction, and that a closed connection has no transaction.
Transactions ==
  /\ \A c \in Conns : status[c] = "none" => ~txn[c]
  /\ \A c \in ToSet(pool) : ~txn[c]
  /\ \A r \in Reqs : conn[r] # NoConn =>
       /\ client[r] = "granted" => ~txn[conn[r]]
       /\ txn[conn[r]] => has_active_transaction[r] \/ status[conn[r]] = "bad"
  /\ \A r \in Reqs : has_active_transaction[r] => client[r] = "holding"

\* Where the thread is: who called into the pool, what populate_pool may still
\* create, and that nothing is idle or queued once on_stop has run.
Control ==
  /\ \A r \in Reqs : client[r] = "calling" <=> caller = r
  /\ \A r \in Reqs : client[r] \in {"granted", "holding"} <=> conn[r] # NoConn
  /\ busy = "no" => caller = NoReq
  /\ busy # "no" => ~stop_requested
  /\ busy = "prune" => caller # NoReq
  /\ busy = "populate" => conns_alive + left <= conns_desired
  /\ stop_requested => requests = <<>> /\ pool = <<>>

IInv ==
  /\ TypeOK /\ FutureSetOnce /\ Ownership /\ AliveCount /\ Transactions
  /\ NoIdleWhileWaiting /\ Control

-----------------------------------------------------------------------------
(***************************************************************************)
(* What the operations on the pool do to the queue and to the count        *)
(***************************************************************************)

\* A good connection that comes in either becomes idle, when nobody waits, or
\* goes to exactly one handler whose future was queued.
LEMMA HandOverEffect ==
  ASSUME TypeOK, FutureSetOnce, NoIdleWhileWaiting,
         NEW c \in Conns, NEW cl, NEW cn, HandOver(c, cl, cn)
  PROVE  \/ /\ requests = <<>> /\ requests' = requests
            /\ pool' \in Seq(Conns) /\ ToSet(pool') = ToSet(pool) \cup {c}
            /\ IsInjective(pool) /\ c \notin ToSet(pool) => IsInjective(pool')
            /\ client' = cl /\ conn' = cn
         \/ /\ requests # <<>> /\ pool = <<>> /\ pool' = pool
            /\ requests' \in Seq(Reqs) /\ IsInjective(requests')
            /\ \E q \in Reqs :
                 /\ q \in ToSet(requests)
                 /\ ToSet(requests') = ToSet(requests) \ {q}
                 /\ client' = [cl EXCEPT ![q] = "granted"]
                 /\ conn' = [cn EXCEPT ![q] = c]
<1>1. CASE requests = <<>>
  <2>1. /\ Append(pool, c) \in Seq(Conns)
        /\ ToSet(Append(pool, c)) = ToSet(pool) \cup {c}
        /\ IsInjective(pool) /\ c \notin ToSet(pool) => IsInjective(Append(pool, c))
    BY AppendElements DEF TypeOK
  <2> QED
    BY <1>1, <2>1 DEF HandOver
<1>2. CASE requests # <<>>
  <2>1. /\ Head(requests) \in Reqs /\ Head(requests) \in ToSet(requests)
        /\ Tail(requests) \in Seq(Reqs) /\ IsInjective(Tail(requests))
        /\ ToSet(Tail(requests)) = ToSet(requests) \ {Head(requests)}
    BY <1>2, TailElements DEF TypeOK, FutureSetOnce
  <2> QED
    BY <1>2, <2>1 DEF HandOver, NoIdleWhileWaiting
<1> QED
  BY <1>1, <1>2

\* PQconnectdb adds one open connection, PQfinish removes one.
LEMMA OpenCount ==
  ASSUME TypeOK, NEW c \in Conns, PoolAssumption
  PROVE  /\ Cardinality(Open) \in Nat
         /\ status[c] = "none" /\ status' = [status EXCEPT ![c] = "ok"] =>
              Cardinality(Open') = Cardinality(Open) + 1
         /\ status[c] # "none" /\ status' = [status EXCEPT ![c] = "none"] =>
              /\ Cardinality(Open') = Cardinality(Open) - 1
              /\ Cardinality(Open) > 0
<1>1. IsFiniteSet(Open) /\ Cardinality(Open) \in Nat
  BY FS_Subset, FS_CardinalityType DEF Open, PoolAssumption
<1>2. ASSUME status[c] = "none", status' = [status EXCEPT ![c] = "ok"]
      PROVE  Cardinality(Open') = Cardinality(Open) + 1
  <2>1. Open' = Open \cup {c} /\ c \notin Open
    BY <1>2 DEF Open, TypeOK
  <2> QED
    BY <1>1, <2>1, FS_AddElement
<1>3. ASSUME status[c] # "none", status' = [status EXCEPT ![c] = "none"]
      PROVE  Cardinality(Open') = Cardinality(Open) - 1 /\ Cardinality(Open) > 0
  <2>1. Open' = Open \ {c} /\ c \in Open
    BY <1>3 DEF Open, TypeOK
  <2>2. Cardinality(Open') = Cardinality(Open) - 1
    BY <1>1, <2>1, FS_RemoveElement
  <2> QED
    BY <1>1, <2>1, <2>2, FS_EmptySet
<1> QED
  BY <1>1, <1>2, <1>3

-----------------------------------------------------------------------------
\* IInv holds when on_init has been called.
LEMMA InitIInv == Init => IInv
<1> SUFFICES ASSUME Init PROVE IInv
  OBVIOUS
<1> USE PoolAssumption DEF Init
<1>1. ToSet(<<>>) = {} /\ IsInjective(<<>>)
  BY DEF ToSet, IsInjective
<1>2. Open = {} /\ Cardinality(Open) = 0
  BY FS_EmptySet DEF Open
<1>3. TypeOK
  <2>1. <<>> \in Seq(Conns) /\ <<>> \in Seq(Reqs)
    OBVIOUS
  <2>2. /\ status \in [Conns -> {"none", "ok", "bad"}] /\ txn \in [Conns -> BOOLEAN]
        /\ client \in [Reqs -> ClientStates]
        /\ conn \in [Reqs -> Conns \cup {NoConn}]
        /\ has_active_transaction \in [Reqs -> BOOLEAN]
    BY DEF ClientStates
  <2>3. /\ pool \in Seq(Conns) /\ requests \in Seq(Reqs)
        /\ conns_alive \in 0..conns_desired /\ left \in 0..conns_desired
    BY <2>1
  <2>4. /\ cooling \in BOOLEAN /\ stop_requested \in BOOLEAN /\ had_failure \in BOOLEAN
        /\ rolling \in SUBSET Conns /\ leaked \in Nat
        /\ busy \in {"no", "prune", "populate"} /\ caller \in Reqs \cup {NoReq}
    OBVIOUS
  <2> QED
    BY <2>2, <2>3, <2>4 DEF TypeOK
<1>4. FutureSetOnce /\ Ownership /\ NoIdleWhileWaiting
  BY <1>1 DEF FutureSetOnce, Ownership, NoIdleWhileWaiting
<1>5. AliveCount /\ Transactions
  BY <1>1, <1>2 DEF AliveCount, Transactions
<1>6. Control
  BY DEF Control
<1> QED
  BY <1>3, <1>4, <1>5, <1>6 DEF IInv

\* Every step of the pool, of a handler, of the server and of the clock
\* preserves it.
LEMMA NextIInv == IInv /\ [Next]_vars => IInv'
<1> SUFFICES ASSUME IInv, [Next]_vars PROVE IInv'
  OBVIOUS
<1> USE PoolAssumption DEF IInv, poolVars, clientVars, loopVars
<1>1. ASSUME NEW r \in Reqs, GetConnection(r) PROVE IInv'
  <2> USE <1>1 DEF GetConnection
  <2>1. TypeOK'
    BY DEF TypeOK, ClientStates, Control, AliveCount
  <2>2. FutureSetOnce' /\ NoIdleWhileWaiting' /\ Control'
    BY DEF FutureSetOnce, NoIdleWhileWaiting, Control, TypeOK
  <2>3. Ownership' /\ Transactions'
    BY DEF Ownership, Transactions, Control, FutureSetOnce, TypeOK
  <2>4. AliveCount'
    BY DEF AliveCount, Open, TypeOK
  <2> QED
    BY <2>1, <2>2, <2>3, <2>4
<1>2. ASSUME NEW r \in Reqs, GetAfterStop(r) PROVE IInv'
  <2> USE <1>2 DEF GetAfterStop
  <2>1. TypeOK'
    BY DEF TypeOK, ClientStates, Control, AliveCount
  <2>2. FutureSetOnce' /\ NoIdleWhileWaiting' /\ Control'
    BY DEF FutureSetOnce, NoIdleWhileWaiting, Control, TypeOK
  <2>3. Ownership' /\ Transactions'
    BY DEF Ownership, Transactions, Control, FutureSetOnce, TypeOK
  <2>4. AliveCount'
    BY DEF AliveCount, Open, TypeOK
  <2> QED
    BY <2>1, <2>2, <2>3, <2>4
<1>3. ASSUME PruneBad PROVE IInv'
  <2> USE <1>3 DEF PruneBad, Destroy
  <2>a. /\ Last(pool) \in Conns /\ Last(pool) \in ToSet(pool)
        /\ Front(pool) \in Seq(Conns) /\ IsInjective(Front(pool))
        /\ ToSet(Front(pool)) = ToSet(pool) \ {Last(pool)}
    BY FrontElements DEF TypeOK, Ownership
  <2>b. status[Last(pool)] # "none"
    BY <2>a DEF Ownership
  <2>c. /\ Cardinality(Open') = Cardinality(Open) - 1 /\ Cardinality(Open) > 0
        /\ Cardinality(Open) \in Nat /\ ~stop_requested
    BY <2>a, <2>b, OpenCount DEF Control
  <2>1. TypeOK'
    BY <2>a, <2>c DEF TypeOK, ClientStates, Control, AliveCount
  <2>2. FutureSetOnce' /\ NoIdleWhileWaiting' /\ Control'
    BY <2>c DEF FutureSetOnce, NoIdleWhileWaiting, Control, TypeOK
  <2>3. Ownership' /\ Transactions'
    BY <2>a, <2>b DEF Ownership, Transactions, Control, FutureSetOnce, TypeOK
  <2>4. AliveCount'
    BY <2>c DEF AliveCount, Open, TypeOK
  <2> QED
    BY <2>1, <2>2, <2>3, <2>4
<1>4. ASSUME PruneDone PROVE IInv'
  <2> USE <1>4 DEF PruneDone, EnterPopulate
  <2>a. Attempts(conns_alive) \in 0..conns_desired /\ conns_alive + Attempts(conns_alive) <= conns_desired
    BY DEF Attempts, TypeOK
  <2>1. TypeOK'
    BY <2>a DEF TypeOK, ClientStates, Control, AliveCount
  <2>2. FutureSetOnce' /\ NoIdleWhileWaiting' /\ Control'
    BY <2>a DEF FutureSetOnce, NoIdleWhileWaiting, Control, TypeOK
  <2>3. Ownership' /\ Transactions'
    BY DEF Ownership, Transactions, Control, FutureSetOnce, TypeOK
  <2>4. AliveCount'
    BY DEF AliveCount, Open, TypeOK
  <2> QED
    BY <2>1, <2>2, <2>3, <2>4
<1>5. ASSUME NEW c \in Conns, CreateConnection(c) PROVE IInv'
  <2> USE <1>5 DEF CreateConnection
  <2>a. c \notin ToSet(pool) /\ c \notin rolling /\ ~txn[c] /\ \A r \in Reqs : conn[r] # c
    BY DEF Ownership, Transactions
  <2>b. Cardinality(Open') = Cardinality(Open) + 1 /\ Cardinality(Open) \in Nat
    BY OpenCount
  <2>1. \/ /\ requests = <<>> /\ requests' = requests
          /\ pool' \in Seq(Conns) /\ ToSet(pool') = ToSet(pool) \cup {c}
          /\ IsInjective(pool')
          /\ client' = client /\ conn' = conn
       \/ /\ requests # <<>> /\ pool = <<>> /\ pool' = pool
          /\ requests' \in Seq(Reqs) /\ IsInjective(requests')
          /\ \E q \in Reqs :
               /\ q \in ToSet(requests)
               /\ ToSet(requests') = ToSet(requests) \ {q}
               /\ client' = [client EXCEPT ![q] = "granted"]
               /\ conn' = [conn EXCEPT ![q] = c]
    BY <2>a, HandOverEffect DEF Ownership
  <2>2. CASE requests = <<>>
    <3>1. TypeOK'
      BY <2>1, <2>2 DEF TypeOK, ClientStates, Control, AliveCount
    <3>2. FutureSetOnce' /\ NoIdleWhileWaiting' /\ Control'
      BY <2>1, <2>2 DEF FutureSetOnce, NoIdleWhileWaiting, Control, TypeOK
    <3>3. Ownership' /\ Transactions'
      BY <2>1, <2>2, <2>a DEF Ownership, Transactions, Control, FutureSetOnce, TypeOK
    <3>4. AliveCount'
      BY <2>1, <2>2, <2>b DEF AliveCount, Open, TypeOK
    <3> QED
      BY <3>1, <3>2, <3>3, <3>4
  <2>3. CASE requests # <<>>
    <3>a. PICK q \in Reqs :
             /\ q \in ToSet(requests)
             /\ ToSet(requests') = ToSet(requests) \ {q}
             /\ client' = [client EXCEPT ![q] = "granted"]
             /\ conn' = [conn EXCEPT ![q] = c]
      BY <2>1, <2>3
    <3>b. /\ requests' \in Seq(Reqs) /\ IsInjective(requests')
          /\ pool = <<>> /\ pool' = pool
          /\ client[q] = "waiting" /\ conn[q] = NoConn /\ ~has_active_transaction[q]
          /\ caller # q /\ ~stop_requested
      BY <2>1, <2>3, <3>a DEF FutureSetOnce, Control, Transactions, TypeOK
    <3>1. TypeOK'
      BY <3>a, <3>b DEF TypeOK, ClientStates, Control, AliveCount
    <3>2. FutureSetOnce' /\ NoIdleWhileWaiting' /\ Control'
      BY <3>a, <3>b DEF FutureSetOnce, NoIdleWhileWaiting, Control, TypeOK
    <3>3. Ownership' /\ Transactions'
      BY <3>a, <3>b, <2>a DEF Ownership, Transactions, Control, FutureSetOnce, TypeOK
    <3>4. AliveCount'
      BY <3>a, <3>b, <2>b DEF AliveCount, Open, TypeOK
    <3> QED
      BY <3>1, <3>2, <3>3, <3>4
  <2> QED
    BY <2>2, <2>3
<1>6. ASSUME CreateFails PROVE IInv'
  <2> USE <1>6 DEF CreateFails
  <2>1. TypeOK'
    BY DEF TypeOK, ClientStates, Control, AliveCount
  <2>2. FutureSetOnce' /\ NoIdleWhileWaiting' /\ Control'
    BY DEF FutureSetOnce, NoIdleWhileWaiting, Control, TypeOK
  <2>3. Ownership' /\ Transactions'
    BY DEF Ownership, Transactions, Control, FutureSetOnce, TypeOK
  <2>4. AliveCount'
    BY DEF AliveCount, Open, TypeOK
  <2> QED
    BY <2>1, <2>2, <2>3, <2>4
<1>7. ASSUME PopulateReturns PROVE IInv'
  <2> USE <1>7 DEF PopulateReturns, PopulateEnds
  <2>1. TypeOK'
    BY DEF TypeOK, ClientStates, Control, AliveCount
  <2>2. FutureSetOnce' /\ NoIdleWhileWaiting' /\ Control'
    BY DEF FutureSetOnce, NoIdleWhileWaiting, Control, TypeOK
  <2>3. Ownership' /\ Transactions'
    BY DEF Ownership, Transactions, Control, FutureSetOnce, TypeOK
  <2>4. AliveCount'
    BY DEF AliveCount, Open, TypeOK
  <2> QED
    BY <2>1, <2>2, <2>3, <2>4
<1>8. ASSUME RefuseRequest PROVE IInv'
  <2> USE <1>8 DEF RefuseRequest, PopulateEnds
  <2>1. TypeOK'
    BY DEF TypeOK, ClientStates, Control, AliveCount
  <2>2. FutureSetOnce' /\ NoIdleWhileWaiting' /\ Control'
    BY DEF FutureSetOnce, NoIdleWhileWaiting, Control, TypeOK
  <2>3. Ownership' /\ Transactions'
    BY DEF Ownership, Transactions, Control, FutureSetOnce, TypeOK
  <2>4. AliveCount'
    BY DEF AliveCount, Open, TypeOK
  <2> QED
    BY <2>1, <2>2, <2>3, <2>4
<1>9. ASSUME QueueRequest PROVE IInv'
  <2> USE <1>9 DEF QueueRequest, PopulateEnds
  <2>a. /\ caller \in Reqs /\ caller \notin ToSet(requests)
        /\ requests' \in Seq(Reqs)
        /\ ToSet(requests') = ToSet(requests) \cup {caller}
        /\ IsInjective(requests')
    BY AppendElements DEF TypeOK, FutureSetOnce, Control
  <2>1. TypeOK'
    BY <2>a DEF TypeOK, ClientStates, Control, AliveCount
  <2>2. FutureSetOnce' /\ NoIdleWhileWaiting' /\ Control'
    BY <2>a DEF FutureSetOnce, NoIdleWhileWaiting, Control, TypeOK
  <2>3. Ownership' /\ Transactions'
    BY <2>a DEF Ownership, Transactions, Control, FutureSetOnce, TypeOK
  <2>4. AliveCount'
    BY DEF AliveCount, Open, TypeOK
  <2> QED
    BY <2>1, <2>2, <2>3, <2>4
<1>10. ASSUME TakeIdle PROVE IInv'
  <2> USE <1>10 DEF TakeIdle, PopulateEnds
  <2>a. /\ Last(pool) \in Conns /\ Last(pool) \in ToSet(pool)
        /\ Front(pool) \in Seq(Conns) /\ IsInjective(Front(pool))
        /\ ToSet(Front(pool)) = ToSet(pool) \ {Last(pool)}
    BY FrontElements DEF TypeOK, Ownership
  <2>b. caller \in Reqs /\ client[caller] = "calling" /\ conn[caller] = NoConn
    BY DEF TypeOK, Control
  <2>1. TypeOK'
    BY <2>a DEF TypeOK, ClientStates, Control, AliveCount
  <2>2. FutureSetOnce' /\ NoIdleWhileWaiting' /\ Control'
    BY <2>b, <2>a DEF FutureSetOnce, NoIdleWhileWaiting, Control, TypeOK
  <2>3. Ownership' /\ Transactions'
    BY <2>a, <2>b DEF Ownership, Transactions, Control, FutureSetOnce, TypeOK
  <2>4. AliveCount'
    BY DEF AliveCount, Open, TypeOK
  <2> QED
    BY <2>1, <2>2, <2>3, <2>4
<1>11. ASSUME NEW r \in Reqs, Resume(r) PROVE IInv'
  <2> USE <1>11 DEF Resume
  <2>1. TypeOK'
    BY DEF TypeOK, ClientStates, Control, AliveCount
  <2>2. FutureSetOnce' /\ NoIdleWhileWaiting' /\ Control'
    BY DEF FutureSetOnce, NoIdleWhileWaiting, Control, TypeOK
  <2>3. Ownership' /\ Transactions'
    BY DEF Ownership, Transactions, Control, FutureSetOnce, TypeOK
  <2>4. AliveCount'
    BY DEF AliveCount, Open, TypeOK
  <2> QED
    BY <2>1, <2>2, <2>3, <2>4
<1>12. ASSUME NEW r \in Reqs, GiveUp(r) PROVE IInv'
  <2> USE <1>12 DEF GiveUp
  <2>1. TypeOK'
    BY DEF TypeOK, ClientStates, Control, AliveCount
  <2>2. FutureSetOnce' /\ NoIdleWhileWaiting' /\ Control'
    BY DEF FutureSetOnce, NoIdleWhileWaiting, Control, TypeOK
  <2>3. Ownership' /\ Transactions'
    BY DEF Ownership, Transactions, Control, FutureSetOnce, TypeOK
  <2>4. AliveCount'
    BY DEF AliveCount, Open, TypeOK
  <2> QED
    BY <2>1, <2>2, <2>3, <2>4
<1>13. ASSUME NEW r \in Reqs, Transaction(r) PROVE IInv'
  <2> USE <1>13 DEF Transaction
  <2>a. conn[r] \in Conns /\ status[conn[r]] # "none" /\ conn[r] # NoConn
    BY DEF TypeOK, Control, Ownership
  <2>1. TypeOK'
    BY <2>a DEF TypeOK, ClientStates, Control, AliveCount
  <2>2. FutureSetOnce' /\ NoIdleWhileWaiting' /\ Control'
    BY <2>a DEF FutureSetOnce, NoIdleWhileWaiting, Control, TypeOK
  <2>3. Ownership' /\ Transactions'
    BY <2>a DEF Ownership, Transactions, Control, FutureSetOnce, TypeOK
  <2>4. AliveCount'
    BY <2>a DEF AliveCount, Open, TypeOK
  <2> QED
    BY <2>1, <2>2, <2>3, <2>4
<1>14. ASSUME NEW r \in Reqs, TransactionReplyLost(r) PROVE IInv'
  <2> USE <1>14 DEF TransactionReplyLost
  <2>a. conn[r] \in Conns /\ status[conn[r]] # "none" /\ conn[r] # NoConn
    BY DEF TypeOK, Control, Ownership
  <2>1. TypeOK'
    BY <2>a DEF TypeOK, ClientStates, Control, AliveCount
  <2>2. FutureSetOnce' /\ NoIdleWhileWaiting' /\ Control'
    BY <2>a DEF FutureSetOnce, NoIdleWhileWaiting, Control, TypeOK
  <2>3. Ownership' /\ Transactions'
    BY <2>a DEF Ownership, Transactions, Control, FutureSetOnce, TypeOK
  <2>4. AliveCount'
    BY <2>a DEF AliveCount, Open, TypeOK
  <2> QED
    BY <2>1, <2>2, <2>3, <2>4
<1>15. ASSUME NEW r \in Reqs, EndTransaction(r) PROVE IInv'
  <2> USE <1>15 DEF EndTransaction
  <2>a. conn[r] \in Conns /\ status[conn[r]] # "none" /\ conn[r] # NoConn
    BY DEF TypeOK, Control, Ownership
  <2>1. TypeOK'
    BY <2>a DEF TypeOK, ClientStates, Control, AliveCount
  <2>2. FutureSetOnce' /\ NoIdleWhileWaiting' /\ Control'
    BY <2>a DEF FutureSetOnce, NoIdleWhileWaiting, Control, TypeOK
  <2>3. Ownership' /\ Transactions'
    BY <2>a DEF Ownership, Transactions, Control, FutureSetOnce, TypeOK
  <2>4. AliveCount'
    BY <2>a DEF AliveCount, Open, TypeOK
  <2> QED
    BY <2>1, <2>2, <2>3, <2>4
<1>16. ASSUME NEW r \in Reqs, CommitFails(r) PROVE IInv'
  <2> USE <1>16 DEF CommitFails
  <2>a. conn[r] \in Conns /\ status[conn[r]] # "none" /\ conn[r] # NoConn
    BY DEF TypeOK, Control, Ownership
  <2>1. TypeOK'
    BY <2>a DEF TypeOK, ClientStates, Control, AliveCount
  <2>2. FutureSetOnce' /\ NoIdleWhileWaiting' /\ Control'
    BY <2>a DEF FutureSetOnce, NoIdleWhileWaiting, Control, TypeOK
  <2>3. Ownership' /\ Transactions'
    BY <2>a DEF Ownership, Transactions, Control, FutureSetOnce, TypeOK
  <2>4. AliveCount'
    BY <2>a DEF AliveCount, Open, TypeOK
  <2> QED
    BY <2>1, <2>2, <2>3, <2>4
<1>17. ASSUME NEW r \in Reqs, Release(r) PROVE IInv'
  <2> USE <1>17 DEF Release, Released, Dropped
  <2>h. /\ conn[r] \in Conns /\ status[conn[r]] # "none" /\ conn[r] # NoConn
        /\ conn[r] \notin ToSet(pool) /\ conn[r] \notin rolling
        /\ \A q \in Reqs : q # r => conn[q] # conn[r]
        /\ r \notin ToSet(requests) /\ client[r] = "holding"
    BY DEF TypeOK, Control, Ownership, FutureSetOnce
  <2>1. CASE stop_requested
    <3>a. /\ status' = [status EXCEPT ![conn[r]] = "none"]
          /\ txn' = [txn EXCEPT ![conn[r]] = FALSE]
          /\ client' = [client EXCEPT ![r] = "idle"] /\ conn' = [conn EXCEPT ![r] = NoConn]
          /\ UNCHANGED <<pool, requests, conns_alive, loopVars>>
      BY <2>1 DEF ReturnConnection, Destroy
    <3>1. TypeOK'
      BY <2>1, <2>h, <3>a DEF TypeOK, ClientStates, Control, AliveCount
    <3>2. FutureSetOnce' /\ NoIdleWhileWaiting' /\ Control'
      BY <2>1, <2>h, <3>a DEF FutureSetOnce, NoIdleWhileWaiting, Control, TypeOK
    <3>3. Ownership' /\ Transactions'
      BY <2>1, <2>h, <3>a DEF Ownership, Transactions, Control, FutureSetOnce, TypeOK
    <3>4. AliveCount'
      BY <2>1, <2>h, <3>a DEF AliveCount, Open, TypeOK
    <3> QED
      BY <3>1, <3>2, <3>3, <3>4
  <2>2. CASE ~stop_requested /\ status[conn[r]] = "bad"
    <3>a. /\ status' = [status EXCEPT ![conn[r]] = "none"]
          /\ txn' = [txn EXCEPT ![conn[r]] = FALSE]
          /\ client' = [client EXCEPT ![r] = "idle"] /\ conn' = [conn EXCEPT ![r] = NoConn]
          /\ conns_alive' = conns_alive - 1
          /\ UNCHANGED <<pool, requests>>
          /\ busy' = "populate" /\ caller' = NoReq /\ had_failure' = FALSE
          /\ left' = Attempts(conns_alive - 1)
      BY <2>2 DEF ReturnConnection, Destroy, EnterPopulate
    <3>b. /\ Cardinality(Open') = Cardinality(Open) - 1 /\ Cardinality(Open) > 0
          /\ Cardinality(Open) \in Nat
      BY <2>h, <3>a, OpenCount
    <3>c. /\ conns_alive - 1 \in 0..conns_desired
      BY <2>2, <3>b DEF TypeOK, AliveCount
    <3>d. /\ Attempts(conns_alive - 1) \in 0..conns_desired
          /\ (conns_alive - 1) + Attempts(conns_alive - 1) <= conns_desired
      BY <3>c DEF Attempts
    <3>e. caller = NoReq
      BY DEF Control
    <3>1. TypeOK'
      BY <2>h, <3>a, <3>c, <3>d DEF TypeOK, ClientStates, Control, AliveCount
    <3>2. FutureSetOnce' /\ NoIdleWhileWaiting' /\ Control'
      BY <2>2, <2>h, <3>a, <3>d, <3>e DEF FutureSetOnce, NoIdleWhileWaiting, Control, TypeOK
    <3>3. Ownership' /\ Transactions'
      BY <2>2, <2>h, <3>a DEF Ownership, Transactions, Control, FutureSetOnce, TypeOK
    <3>4. AliveCount'
      BY <2>2, <3>a, <3>b DEF AliveCount, Open, TypeOK
    <3> QED
      BY <3>1, <3>2, <3>3, <3>4
  <2>3. CASE ~stop_requested /\ status[conn[r]] = "ok"
    <3>a. /\ HandOver(conn[r], Released(r), Dropped(r))
          /\ UNCHANGED <<status, txn, conns_alive, loopVars>>
      BY <2>3 DEF ReturnConnection
    <3>b. ~txn[conn[r]]
      BY <2>3, <2>h DEF Transactions
    <3>1. \/ /\ requests = <<>> /\ requests' = requests
            /\ pool' \in Seq(Conns) /\ ToSet(pool') = ToSet(pool) \cup {conn[r]}
            /\ IsInjective(pool')
            /\ client' = Released(r) /\ conn' = Dropped(r)
         \/ /\ requests # <<>> /\ pool = <<>> /\ pool' = pool
            /\ requests' \in Seq(Reqs) /\ IsInjective(requests')
            /\ \E q \in Reqs :
                 /\ q \in ToSet(requests)
                 /\ ToSet(requests') = ToSet(requests) \ {q}
                 /\ client' = [Released(r) EXCEPT ![q] = "granted"]
                 /\ conn' = [Dropped(r) EXCEPT ![q] = conn[r]]
      BY <2>h, <3>a, HandOverEffect DEF Ownership
    <3>2. CASE requests = <<>>
      <4>1. TypeOK'
        BY <3>1, <3>2, <2>3, <2>h, <3>a DEF TypeOK, ClientStates, Control, AliveCount
      <4>2. FutureSetOnce' /\ NoIdleWhileWaiting' /\ Control'
        BY <3>1, <3>2, <2>3, <2>h, <3>a DEF FutureSetOnce, NoIdleWhileWaiting, Control, TypeOK
      <4>3. Ownership' /\ Transactions'
        BY <3>1, <3>2, <2>3, <2>h, <3>a, <3>b DEF Ownership, Transactions, Control, FutureSetOnce, TypeOK
      <4>4. AliveCount'
        BY <3>1, <3>2, <2>3, <2>h, <3>a DEF AliveCount, Open, TypeOK
      <4> QED
        BY <4>1, <4>2, <4>3, <4>4
    <3>3. CASE requests # <<>>
      <4>a. PICK q \in Reqs :
               /\ q \in ToSet(requests)
               /\ ToSet(requests') = ToSet(requests) \ {q}
               /\ client' = [Released(r) EXCEPT ![q] = "granted"]
               /\ conn' = [Dropped(r) EXCEPT ![q] = conn[r]]
        BY <3>1, <3>3
      <4>b. /\ requests' \in Seq(Reqs) /\ IsInjective(requests')
            /\ pool = <<>> /\ pool' = pool
            /\ client[q] = "waiting" /\ conn[q] = NoConn /\ ~has_active_transaction[q]
            /\ caller # q /\ ~stop_requested
        BY <3>1, <3>3, <4>a, <2>3 DEF FutureSetOnce, Control, Transactions, TypeOK
      <4>c. /\ q # r
            /\ \A p \in Reqs : conn'[p] = IF p = q THEN conn[r]
                                       ELSE IF p = r THEN NoConn ELSE conn[p]
            /\ \A p \in Reqs : client'[p] = IF p = q THEN "granted"
                                         ELSE IF p = r THEN "idle" ELSE client[p]
        BY <4>a, <4>b, <2>h DEF TypeOK
      <4>1. TypeOK'
        BY <4>a, <4>b, <2>3, <2>h, <3>a DEF TypeOK, ClientStates, Control, AliveCount
      <4>2. FutureSetOnce' /\ NoIdleWhileWaiting' /\ Control'
        BY <4>a, <4>b, <2>3, <2>h, <3>a DEF FutureSetOnce, NoIdleWhileWaiting, Control, TypeOK
      <4>3. Ownership' /\ Transactions'
        <5>1. \A d \in Conns :
                (\E p \in Reqs : conn'[p] = d) <=> (\E p \in Reqs : conn[p] = d)
          BY <4>b, <4>c, <2>h
        <5>2. \A p, s \in Reqs : conn'[p] = conn'[s] /\ conn'[p] # NoConn => p = s
          BY <4>b, <4>c, <2>h DEF Ownership
        <5>3. \A p \in Reqs : conn'[p] \notin ToSet(pool) /\ conn'[p] \notin rolling
          BY <4>c, <2>h DEF Ownership, TypeOK
        <5>4. Ownership'
          BY <5>1, <5>2, <5>3, <4>b, <3>a DEF Ownership
        <5>5. Transactions'
          BY <4>b, <4>c, <2>h, <3>a, <3>b DEF Transactions, TypeOK
        <5> QED
          BY <5>4, <5>5
      <4>4. AliveCount'
        BY <4>a, <4>b, <2>3, <2>h, <3>a DEF AliveCount, Open, TypeOK
      <4> QED
        BY <4>1, <4>2, <4>3, <4>4
    <3> QED
      BY <3>2, <3>3
  <2> QED
    BY <2>1, <2>2, <2>3, <2>h DEF ReturnConnection, TypeOK
<1>18. ASSUME NEW r \in Reqs, StartRollback(r) PROVE IInv'
  <2> USE <1>18 DEF StartRollback, Released, Dropped
  <2>h. /\ conn[r] \in Conns /\ status[conn[r]] # "none" /\ conn[r] # NoConn
        /\ conn[r] \notin ToSet(pool) /\ conn[r] \notin rolling
        /\ \A q \in Reqs : q # r => conn[q] # conn[r]
        /\ r \notin ToSet(requests) /\ client[r] = "holding"
    BY DEF TypeOK, Control, Ownership, FutureSetOnce
  <2>1. TypeOK'
    BY <2>h DEF TypeOK, ClientStates, Control, AliveCount
  <2>2. FutureSetOnce' /\ NoIdleWhileWaiting' /\ Control'
    BY <2>h DEF FutureSetOnce, NoIdleWhileWaiting, Control, TypeOK
  <2>3. Ownership' /\ Transactions'
    BY <2>h DEF Ownership, Transactions, Control, FutureSetOnce, TypeOK
  <2>4. AliveCount'
    BY <2>h DEF AliveCount, Open, TypeOK
  <2> QED
    BY <2>1, <2>2, <2>3, <2>4
<1>19. ASSUME NEW r \in Reqs, RollbackCannotStart(r) PROVE IInv'
  <2> USE <1>19 DEF RollbackCannotStart, Released, Dropped, Destroy
  <2>h. /\ conn[r] \in Conns /\ status[conn[r]] # "none" /\ conn[r] # NoConn
        /\ conn[r] \notin ToSet(pool) /\ conn[r] \notin rolling
        /\ \A q \in Reqs : q # r => conn[q] # conn[r]
        /\ r \notin ToSet(requests) /\ client[r] = "holding"
    BY DEF TypeOK, Control, Ownership, FutureSetOnce
  <2>b. Cardinality(Open') = Cardinality(Open) - 1 /\ Cardinality(Open) > 0
        /\ Cardinality(Open) \in Nat
    BY <2>h, OpenCount
  <2>1. TypeOK'
    BY <2>h DEF TypeOK, ClientStates, Control, AliveCount
  <2>2. FutureSetOnce' /\ NoIdleWhileWaiting' /\ Control'
    BY <2>h DEF FutureSetOnce, NoIdleWhileWaiting, Control, TypeOK
  <2>3. Ownership' /\ Transactions'
    BY <2>h DEF Ownership, Transactions, Control, FutureSetOnce, TypeOK
  <2>4. AliveCount'
    BY <2>h, <2>b DEF AliveCount, Open, TypeOK
  <2> QED
    BY <2>1, <2>2, <2>3, <2>4
<1>20. ASSUME NEW c \in Conns, RollbackDone(c) PROVE IInv'
  <2> USE <1>20 DEF RollbackDone
  <2>h. /\ c \notin ToSet(pool) /\ \A r \in Reqs : conn[r] # c
    BY DEF Ownership
  <2>1. CASE stop_requested
    <3>a. /\ status' = [status EXCEPT ![c] = "none"] /\ txn' = [txn EXCEPT ![c] = FALSE]
          /\ UNCHANGED <<pool, requests, client, conn>>
      BY <2>1 DEF Destroy
    <3>1. TypeOK'
      BY <2>1, <2>h, <3>a DEF TypeOK, ClientStates, Control, AliveCount
    <3>2. FutureSetOnce' /\ NoIdleWhileWaiting' /\ Control'
      BY <2>1, <2>h, <3>a DEF FutureSetOnce, NoIdleWhileWaiting, Control, TypeOK
    <3>3. Ownership' /\ Transactions'
      BY <2>1, <2>h, <3>a DEF Ownership, Transactions, Control, FutureSetOnce, TypeOK
    <3>4. AliveCount'
      BY <2>1, <2>h, <3>a DEF AliveCount, Open, TypeOK
    <3> QED
      BY <3>1, <3>2, <3>3, <3>4
  <2>2. CASE ~stop_requested
    <3>a. /\ txn' = [txn EXCEPT ![c] = FALSE] /\ UNCHANGED status
          /\ HandOver(c, client, conn)
      BY <2>2
    <3>1. \/ /\ requests = <<>> /\ requests' = requests
            /\ pool' \in Seq(Conns) /\ ToSet(pool') = ToSet(pool) \cup {c}
            /\ IsInjective(pool')
            /\ client' = client /\ conn' = conn
         \/ /\ requests # <<>> /\ pool = <<>> /\ pool' = pool
            /\ requests' \in Seq(Reqs) /\ IsInjective(requests')
            /\ \E q \in Reqs :
                 /\ q \in ToSet(requests)
                 /\ ToSet(requests') = ToSet(requests) \ {q}
                 /\ client' = [client EXCEPT ![q] = "granted"]
                 /\ conn' = [conn EXCEPT ![q] = c]
      BY <2>h, <3>a, HandOverEffect DEF Ownership
    <3>2. CASE requests = <<>>
      <4>1. TypeOK'
        BY <3>1, <3>2, <2>2, <2>h, <3>a DEF TypeOK, ClientStates, Control, AliveCount
      <4>2. FutureSetOnce' /\ NoIdleWhileWaiting' /\ Control'
        BY <3>1, <3>2, <2>2, <2>h, <3>a DEF FutureSetOnce, NoIdleWhileWaiting, Control, TypeOK
      <4>3. Ownership' /\ Transactions'
        BY <3>1, <3>2, <2>2, <2>h, <3>a DEF Ownership, Transactions, Control, FutureSetOnce, TypeOK
      <4>4. AliveCount'
        BY <3>1, <3>2, <2>2, <2>h, <3>a DEF AliveCount, Open, TypeOK
      <4> QED
        BY <4>1, <4>2, <4>3, <4>4
    <3>3. CASE requests # <<>>
      <4>a. PICK q \in Reqs :
               /\ q \in ToSet(requests)
               /\ ToSet(requests') = ToSet(requests) \ {q}
               /\ client' = [client EXCEPT ![q] = "granted"]
               /\ conn' = [conn EXCEPT ![q] = c]
        BY <3>1, <3>3
      <4>b. /\ requests' \in Seq(Reqs) /\ IsInjective(requests')
            /\ pool = <<>> /\ pool' = pool
            /\ client[q] = "waiting" /\ conn[q] = NoConn /\ ~has_active_transaction[q]
            /\ caller # q /\ ~stop_requested
        BY <3>1, <3>3, <4>a DEF FutureSetOnce, Control, Transactions, TypeOK
      <4>1. TypeOK'
        BY <4>a, <4>b, <2>2, <2>h, <3>a DEF TypeOK, ClientStates, Control, AliveCount
      <4>2. FutureSetOnce' /\ NoIdleWhileWaiting' /\ Control'
        BY <4>a, <4>b, <2>2, <2>h, <3>a DEF FutureSetOnce, NoIdleWhileWaiting, Control, TypeOK
      <4>3. Ownership' /\ Transactions'
        BY <4>a, <4>b, <2>2, <2>h, <3>a DEF Ownership, Transactions, Control, FutureSetOnce, TypeOK
      <4>4. AliveCount'
        BY <4>a, <4>b, <2>2, <2>h, <3>a DEF AliveCount, Open, TypeOK
      <4> QED
        BY <4>1, <4>2, <4>3, <4>4
    <3> QED
      BY <3>2, <3>3
  <2> QED
    BY <2>1, <2>2
<1>21. ASSUME NEW c \in Conns, RollbackFails(c) PROVE IInv'
  <2> USE <1>21 DEF RollbackFails, Destroy
  <2>h. /\ c \notin ToSet(pool) /\ \A r \in Reqs : conn[r] # c
    BY DEF Ownership
  <2>a. status[c] # "none"
    OBVIOUS
  <2>b. Cardinality(Open') = Cardinality(Open) - 1 /\ Cardinality(Open) > 0
        /\ Cardinality(Open) \in Nat
    BY <2>a, OpenCount
  <2>1. TypeOK'
    BY <2>h DEF TypeOK, ClientStates, Control, AliveCount
  <2>2. FutureSetOnce' /\ NoIdleWhileWaiting' /\ Control'
    BY <2>h DEF FutureSetOnce, NoIdleWhileWaiting, Control, TypeOK
  <2>3. Ownership' /\ Transactions'
    BY <2>h DEF Ownership, Transactions, Control, FutureSetOnce, TypeOK
  <2>4. AliveCount'
    BY <2>b DEF AliveCount, Open, TypeOK
  <2> QED
    BY <2>1, <2>2, <2>3, <2>4
<1>22. ASSUME OnStop PROVE IInv'
  <2> USE <1>22 DEF OnStop
  <2>a. ToSet(<<>>) = {} /\ IsInjective(<<>>) /\ <<>> \in Seq(Conns) /\ <<>> \in Seq(Reqs)
    BY DEF ToSet, IsInjective
  <2>1. TypeOK'
    BY <2>a DEF TypeOK, ClientStates, Control, AliveCount
  <2>2. FutureSetOnce' /\ NoIdleWhileWaiting' /\ Control'
    BY <2>a DEF FutureSetOnce, NoIdleWhileWaiting, Control, TypeOK
  <2>3. Ownership' /\ Transactions'
    BY <2>a DEF Ownership, Transactions, Control, FutureSetOnce, TypeOK
  <2>4. AliveCount'
    BY <2>a DEF AliveCount, Open, TypeOK
  <2> QED
    BY <2>1, <2>2, <2>3, <2>4
<1>23. ASSUME NEW c \in Conns, LoseConnection(c) PROVE IInv'
  <2> USE <1>23 DEF LoseConnection
  <2>a. Open' = Open
    BY DEF Open, TypeOK
  <2>1. TypeOK'
    BY DEF TypeOK, ClientStates, Control, AliveCount
  <2>2. FutureSetOnce' /\ NoIdleWhileWaiting' /\ Control'
    BY DEF FutureSetOnce, NoIdleWhileWaiting, Control, TypeOK
  <2>3. Ownership' /\ Transactions'
    BY DEF Ownership, Transactions, Control, FutureSetOnce, TypeOK
  <2>4. AliveCount'
    BY <2>a DEF AliveCount, Open, TypeOK
  <2> QED
    BY <2>1, <2>2, <2>3, <2>4
<1>24. ASSUME CooldownElapses PROVE IInv'
  <2> USE <1>24 DEF CooldownElapses
  <2>1. TypeOK'
    BY DEF TypeOK, ClientStates, Control, AliveCount
  <2>2. FutureSetOnce' /\ NoIdleWhileWaiting' /\ Control'
    BY DEF FutureSetOnce, NoIdleWhileWaiting, Control, TypeOK
  <2>3. Ownership' /\ Transactions'
    BY DEF Ownership, Transactions, Control, FutureSetOnce, TypeOK
  <2>4. AliveCount'
    BY DEF AliveCount, Open, TypeOK
  <2> QED
    BY <2>1, <2>2, <2>3, <2>4
<1>25. ASSUME UNCHANGED vars PROVE IInv'
  <2> USE <1>25 DEF vars
  <2>1. TypeOK'
    BY DEF TypeOK, ClientStates, Control, AliveCount
  <2>2. FutureSetOnce' /\ NoIdleWhileWaiting' /\ Control'
    BY DEF FutureSetOnce, NoIdleWhileWaiting, Control, TypeOK
  <2>3. Ownership' /\ Transactions'
    BY DEF Ownership, Transactions, Control, FutureSetOnce, TypeOK
  <2>4. AliveCount'
    BY DEF AliveCount, Open, TypeOK
  <2> QED
    BY <2>1, <2>2, <2>3, <2>4
<1> QED
  BY <1>1, <1>2, <1>3, <1>4, <1>5, <1>6, <1>7, <1>8, <1>9, <1>10, <1>11, <1>12, <1>13, <1>14, <1>15, <1>16, <1>17, <1>18, <1>19, <1>20, <1>21, <1>22, <1>23, <1>24, <1>25
  DEF Next, PoolStep, HandlerStep, RollbackStep

-----------------------------------------------------------------------------
(***************************************************************************)
(* The theorems                                                            *)
(***************************************************************************)

LEMMA Invariance == Spec => []IInv
<1>1. Init => IInv
  BY InitIInv
<1>2. IInv /\ [Next]_vars => IInv'
  BY NextIInv
<1> QED
  BY <1>1, <1>2, PTL DEF Spec

\* conns_alive stays between 0 and conns_desired, with the types of everything
\* else, for any number of handlers and connections.
THEOREM TypeCorrect == Spec => []TypeOK
<1>1. IInv => TypeOK
  BY DEF IInv
<1> QED
  BY <1>1, Invariance, PTL

\* The assertion of future.cc:6 never fails for a pool request, and every
\* suspended get_connection has exactly one queued future.
THEOREM NoFutureSetTwice == Spec => []FutureSetOnce
<1>1. IInv => FutureSetOnce
  BY DEF IInv
<1> QED
  BY <1>1, Invariance, PTL

\* No two handlers ever share a connection, no closed one is used, and no open
\* one is lost.
THEOREM ConnectionsHaveOneOwner == Spec => []SingleOwner
<1>1. IInv => SingleOwner
  <2> SUFFICES ASSUME IInv PROVE SingleOwner
    OBVIOUS
  <2> USE PoolAssumption DEF IInv, TypeOK, Ownership, Control
  <2>1. \A c \in Conns : c \in Held <=> \E r \in Reqs : conn[r] = c
    BY DEF Held, Holders
  <2>2. Held \subseteq Conns
    BY DEF Held, Holders
  <2>3. Open = ToSet(pool) \cup Held \cup rolling
    BY <2>1, <2>2 DEF Open
  <2>4. ToSet(pool) \cap Held = {} /\ (ToSet(pool) \cup Held) \cap rolling = {}
    BY DEF Held, Holders
  <2>5. \A q, r \in Holders : conn[q] = conn[r] => q = r
    BY DEF Holders
  <2> QED
    BY <2>3, <2>4, <2>5 DEF SingleOwner
<1> QED
  BY <1>1, Invariance, PTL

\* The only connections conns_alive counts and the pool does not have are those
\* whose ROLLBACK failed.
THEOREM ConnectionsAreCounted == Spec => []AliveCount
<1>1. IInv => AliveCount
  BY DEF IInv
<1> QED
  BY <1>1, Invariance, PTL

\* No handler is given a connection with a transaction open on it.
THEOREM TransactionsAreNotInherited == Spec => []NoInheritedTransaction
<1>1. IInv => NoInheritedTransaction
  BY DEF IInv, Control, Transactions, NoInheritedTransaction, Holders, TypeOK
<1> QED
  BY <1>1, Invariance, PTL

\* A free connection and a queued handler never coexist.
THEOREM NobodyWaitsForAnIdleConnection == Spec => []NoIdleWhileWaiting
<1>1. IInv => NoIdleWhileWaiting
  BY DEF IInv
<1> QED
  BY <1>1, Invariance, PTL

-----------------------------------------------------------------------------
(***************************************************************************)
(* The pool implements FifoResource                                        *)
(***************************************************************************)

\* There are at most as many served handlers as connections they can have.
LEMMA HoldersHaveUnits ==
  ASSUME IInv, NEW S \in SUBSET Conns, \A r \in Holders : conn[r] \in S
  PROVE  /\ IsFiniteSet(Holders) /\ Cardinality(Holders) \in Nat
         /\ IsFiniteSet(S) /\ Cardinality(S) \in Nat
         /\ Cardinality(Holders) <= Cardinality(S)
<1> DEFINE f == [r \in Holders |-> conn[r]]
<1>1. \A q, r \in Holders : conn[q] = conn[r] => q = r
  BY DEF IInv, Ownership, Control, Holders
<1>2. f \in Injection(Holders, S)
  BY <1>1 DEF Injection, IsInjective
<1>3. IsFiniteSet(S)
  BY PoolAssumption, FS_Subset DEF PoolAssumption
<1> QED
  BY <1>2, <1>3, FS_Injection, FS_CardinalityType

\* A connection nobody holds, open or about to be created, is a free unit.
LEMMA FreeUnit ==
  ASSUME IInv, ~stop_requested, NEW c \in Conns, \A r \in Reqs : conn[r] # c,
         status[c] # "none" \/ conns_alive < conns_desired
  PROVE  Cardinality(Holders) < conns_desired
<1>1. /\ Open \in SUBSET Conns /\ Open \ {c} \in SUBSET Conns
      /\ \A r \in Holders : conn[r] \in Open \ {c}
  BY DEF IInv, Holders, Open, Ownership, Control, TypeOK
<1>2. /\ Cardinality(Holders) \in Nat /\ Cardinality(Open \ {c}) \in Nat
      /\ Cardinality(Holders) <= Cardinality(Open \ {c})
      /\ IsFiniteSet(Open) /\ Cardinality(Open) \in Nat
  BY <1>1, HoldersHaveUnits
<1>3. Cardinality(Open \ {c}) = IF status[c] # "none" THEN Cardinality(Open) - 1
                                                     ELSE Cardinality(Open)
  BY <1>2, FS_RemoveElement DEF Open
<1>4. Cardinality(Open) <= conns_alive /\ conns_alive <= conns_desired
  BY <1>2 DEF IInv, AliveCount, TypeOK
<1> QED
  BY <1>2, <1>3, <1>4, PoolAssumption DEF IInv, TypeOK, PoolAssumption

\* When somebody waits, a good connection goes to the head of the queue.
LEMMA HandOverServesHead ==
  ASSUME IInv, NEW c \in Conns, NEW cl, NEW cn, HandOver(c, cl, cn)
  PROVE  \/ /\ requests = <<>> /\ requests' = requests /\ client' = cl
         \/ /\ requests # <<>> /\ requests' = Tail(requests)
            /\ Head(requests) \in Reqs /\ client[Head(requests)] = "waiting"
            /\ client' = [cl EXCEPT ![Head(requests)] = "granted"]
<1>1. requests # <<>> => Head(requests) \in Reqs /\ Head(requests) \in ToSet(requests)
  BY TailElements DEF IInv, TypeOK, FutureSetOnce
<1>2. requests # <<>> => client[Head(requests)] = "waiting"
  BY <1>1 DEF IInv, FutureSetOnce
<1> QED
  BY <1>1, <1>2 DEF HandOver

\* A handler's step that serves nobody and ends nobody's turn is a stutter.
LEMMA SameHolders ==
  ASSUME IInv,
         \A r \in Reqs : client'[r] \in {"granted", "holding"}
                          <=> client[r] \in {"granted", "holding"}
  PROVE  Holders' = Holders
BY DEF Holders

\* Every step of the pool is a step of FifoResource or leaves it alone.
LEMMA FifoStep == IInv /\ [Next]_vars => [Fifo!FifoNext]_(Fifo!fifoVars)
<1> SUFFICES ASSUME IInv, [Next]_vars PROVE [Fifo!FifoNext]_(Fifo!fifoVars)
  OBVIOUS
<1> USE DEF poolVars, clientVars, loopVars
<1> DEFINE Still == UNCHANGED <<Holders, requests, stop_requested>>
<1>a. Still => UNCHANGED Fifo!fifoVars
  BY DEF Fifo!fifoVars
<1>c. Fifo!Cardinality(Holders) = Cardinality(Holders)
  BY DEF Cardinality, Fifo!Cardinality
<1>t. TypeOK /\ Control /\ FutureSetOnce
  BY DEF IInv
<1>1. CASE \E r \in Reqs :
             GetConnection(r) \/ GetAfterStop(r) \/ Resume(r) \/ GiveUp(r)
  <2>1. \A r \in Reqs : client'[r] \in {"granted", "holding"}
                       <=> client[r] \in {"granted", "holding"}
    BY <1>1, <1>t DEF TypeOK, GetConnection, GetAfterStop, Resume, GiveUp
  <2>2. UNCHANGED <<requests, stop_requested>>
    BY <1>1 DEF GetConnection, GetAfterStop, Resume, GiveUp
  <2> QED
    BY <2>1, <2>2, <1>a, SameHolders
<1>2. CASE \/ PruneBad \/ PruneDone \/ CreateFails \/ PopulateReturns
           \/ CooldownElapses \/ UNCHANGED vars
           \/ \E c \in Conns : LoseConnection(c) \/ RollbackFails(c)
           \/ \E r \in Reqs : \/ Transaction(r) \/ TransactionReplyLost(r)
                             \/ EndTransaction(r) \/ CommitFails(r)
  <2>1. UNCHANGED <<client, requests, stop_requested>>
    BY <1>2 DEF PruneBad, PruneDone, CreateFails, PopulateReturns, CooldownElapses,
       vars, LoseConnection, RollbackFails, Transaction, TransactionReplyLost,
       EndTransaction, CommitFails
  <2> QED
    BY <2>1, <1>a DEF Holders
<1>3. CASE RefuseRequest
  <2>1. \A r \in Reqs : client'[r] \in {"granted", "holding"}
                       <=> client[r] \in {"granted", "holding"}
    BY <1>3, <1>t DEF TypeOK, Control, RefuseRequest, PopulateEnds
  <2> QED
    BY <1>3, <2>1, <1>a, SameHolders DEF RefuseRequest
<1>4. CASE QueueRequest
  <2> USE <1>4 DEF QueueRequest, PopulateEnds
  <2>1. caller \in Reqs /\ client[caller] = "calling" /\ ~stop_requested
    BY <1>t DEF TypeOK, Control
  <2>2. \A r \in Reqs : client'[r] \in {"granted", "holding"}
                       <=> client[r] \in {"granted", "holding"}
    BY <1>t, <2>1 DEF TypeOK
  <2>3. Holders' = Holders /\ caller \notin Holders
    BY <2>1, <2>2, SameHolders DEF Holders
  <2>4. caller \notin Fifo!Queued
    BY <1>t, <2>1 DEF FutureSetOnce, Fifo!Queued, ToSet
  <2>5. Fifo!Join(caller)
    BY <2>1, <2>3, <2>4 DEF Fifo!Join
  <2> QED
    BY <2>1, <2>5 DEF Fifo!FifoNext
<1>5. CASE TakeIdle
  <2> USE <1>5 DEF TakeIdle, PopulateEnds
  <2>1. caller \in Reqs /\ client[caller] = "calling" /\ ~stop_requested
    BY <1>t DEF TypeOK, Control
  <2>2. Last(pool) \in Conns /\ Last(pool) \in ToSet(pool)
    BY FrontElements DEF IInv, TypeOK, Ownership
  <2>3. status[Last(pool)] # "none" /\ \A r \in Reqs : conn[r] # Last(pool)
    BY <2>2 DEF IInv, Ownership
  <2>4. Cardinality(Holders) < conns_desired
    BY <2>1, <2>2, <2>3, FreeUnit
  <2>5. requests = <<>>
    BY DEF IInv, NoIdleWhileWaiting
  <2>6. Holders' = Holders \cup {caller} /\ caller \notin Holders
    BY <2>1, <1>t DEF Holders, TypeOK
  <2>7. Fifo!Enter(caller)
    BY <2>1, <2>4, <2>5, <2>6, <1>c DEF Fifo!Enter
  <2> QED
    BY <2>1, <2>7 DEF Fifo!FifoNext
<1>6. ASSUME NEW c \in Conns, HandOver(c, client, conn), UNCHANGED stop_requested,
             requests # <<>> => Cardinality(Holders) < conns_desired
      PROVE  Fifo!Admit \/ Still
  <2>1. CASE requests = <<>>
    BY <2>1, <1>6, HandOverServesHead DEF Holders
  <2>2. CASE requests # <<>>
    <3>1. /\ requests' = Tail(requests)
          /\ Head(requests) \in Reqs /\ client[Head(requests)] = "waiting"
          /\ client' = [client EXCEPT ![Head(requests)] = "granted"]
      BY <2>2, <1>6, HandOverServesHead
    <3>2. Holders' = Holders \cup {Head(requests)}
      BY <3>1, <1>t DEF Holders, TypeOK
    <3> QED
      BY <3>1, <3>2, <2>2, <1>6, <1>c DEF Fifo!Admit
  <2> QED
    BY <2>1, <2>2
<1>7. ASSUME NEW c \in Conns, CreateConnection(c)
      PROVE  [Fifo!FifoNext]_(Fifo!fifoVars)
  <2> USE <1>7 DEF CreateConnection
  <2>1. ~stop_requested /\ conns_alive < conns_desired
    BY <1>t, PoolAssumption DEF TypeOK, Control, PoolAssumption
  <2>2. \A r \in Reqs : conn[r] # c
    BY DEF IInv, Ownership
  <2>3. Cardinality(Holders) < conns_desired
    BY <2>1, <2>2, FreeUnit
  <2>4. Fifo!Admit \/ Still
    BY <2>3, <1>6
  <2> QED
    BY <2>4, <1>a DEF Fifo!FifoNext
<1>8. ASSUME NEW c \in Conns, RollbackDone(c)
      PROVE  [Fifo!FifoNext]_(Fifo!fifoVars)
  <2> USE <1>8 DEF RollbackDone
  <2>1. CASE stop_requested
    BY <2>1, <1>a DEF Holders
  <2>2. CASE ~stop_requested
    <3>1. HandOver(c, client, conn)
      BY <2>2
    <3>2. \A r \in Reqs : conn[r] # c
      BY DEF IInv, Ownership
    <3>3. Cardinality(Holders) < conns_desired
      BY <2>2, <3>2, FreeUnit
    <3>4. Fifo!Admit \/ Still
      BY <3>1, <3>3, <1>6
    <3> QED
      BY <3>4, <1>a DEF Fifo!FifoNext
  <2> QED
    BY <2>1, <2>2
<1>9. ASSUME NEW r \in Reqs, client[r] = "holding", client' = Released(r),
             UNCHANGED <<requests, stop_requested>>
      PROVE  Fifo!Leave(r)
  <2>1. r \in Holders /\ Holders' = Holders \ {r}
    BY <1>9, <1>t DEF Holders, Released, TypeOK
  <2> QED
    BY <2>1, <1>9 DEF Fifo!Leave
<1>10. ASSUME NEW r \in Reqs, Release(r)
       PROVE  [Fifo!FifoNext]_(Fifo!fifoVars)
  <2> USE <1>10 DEF Release
  <2>1. CASE /\ client' = Released(r) /\ UNCHANGED requests
    <3>1. Fifo!Leave(r)
      BY <2>1, <1>9
    <3> QED
      BY <3>1 DEF Fifo!FifoNext
  <2>2. CASE HandOver(conn[r], Released(r), Dropped(r))
    <3>1. conn[r] \in Conns
      BY <1>t DEF TypeOK, Control
    <3>2. CASE requests = <<>>
      BY <3>2, <2>1, <2>2 DEF HandOver
    <3>3. CASE requests # <<>>
      <4>1. /\ requests' = Tail(requests)
            /\ Head(requests) \in Reqs /\ client[Head(requests)] = "waiting"
            /\ client' = [Released(r) EXCEPT ![Head(requests)] = "granted"]
        BY <3>3, <2>2, <3>1, HandOverServesHead
      <4>2. r \in Holders /\ Holders' = (Holders \ {r}) \cup {Head(requests)}
        BY <4>1, <1>t DEF Holders, Released, TypeOK
      <4>3. Fifo!Pass(r)
        BY <4>1, <4>2, <3>3 DEF Fifo!Pass
      <4> QED
        BY <4>3 DEF Fifo!FifoNext
    <3> QED
      BY <3>2, <3>3
  <2> QED
    BY <2>1, <2>2 DEF ReturnConnection
<1>11. ASSUME NEW r \in Reqs, StartRollback(r) \/ RollbackCannotStart(r)
       PROVE  [Fifo!FifoNext]_(Fifo!fifoVars)
  <2>1. Fifo!Leave(r)
    BY <1>11, <1>9 DEF StartRollback, RollbackCannotStart
  <2> QED
    BY <2>1 DEF Fifo!FifoNext
<1>12. CASE OnStop
  <2> USE <1>12 DEF OnStop
  <2>1. \A r \in Reqs : client'[r] \in {"granted", "holding"}
                       <=> client[r] \in {"granted", "holding"}
    BY <1>t DEF TypeOK, FutureSetOnce
  <2>2. Holders' = Holders
    BY <2>1, SameHolders
  <2>3. Fifo!Close
    BY <2>2 DEF Fifo!Close
  <2> QED
    BY <2>3 DEF Fifo!FifoNext
<1> HIDE DEF Still
<1> QED
  BY <1>1, <1>2, <1>3, <1>4, <1>5, <1>7, <1>8, <1>10, <1>11, <1>12
  DEF Next, PoolStep, HandlerStep, RollbackStep

\* However connections are lost, rolled back and recreated, the pool behaves as
\* a first-come-first-served resource of conns_desired units.
THEOREM PoolIsFifo == Spec => ImplementsFifo
<1>1. Init => Fifo!FifoInit
  BY DEF Init, Fifo!FifoInit, Holders
<1>2. IInv /\ [Next]_vars => [Fifo!FifoNext]_(Fifo!fifoVars)
  BY FifoStep
<1> QED
  BY <1>1, <1>2, Invariance, PTL DEF Spec, ImplementsFifo, Fifo!FifoSpec
=============================================================================
