-------------------------- MODULE EventLoopProofs --------------------------
(***************************************************************************)
(* Proofs about EventLoop for any number of workers and requests, and any  *)
(* depth and number of suspensions.                                        *)
(***************************************************************************)
EXTENDS EventLoop, SequenceTheorems, FiniteSetTheorems, TLAPS

-----------------------------------------------------------------------------
(***************************************************************************)
(* What the operations on the work queue do to its elements, when no       *)
(* element is in it twice.                                                 *)
(***************************************************************************)

\* push_back adds one element and keeps the elements distinct.
LEMMA AppendElements ==
  ASSUME NEW S, NEW s \in Seq(S), NEW e \in S
  PROVE  /\ Append(s, e) \in Seq(S)
         /\ Append(s, e) # <<>>
         /\ ToSet(Append(s, e)) = ToSet(s) \cup {e}
         /\ IsInjective(s) /\ e \notin ToSet(s) => IsInjective(Append(s, e))
<1> DEFINE t == Append(s, e)
<1>1. /\ t \in Seq(S) /\ t # <<>> /\ Len(t) = Len(s) + 1
      /\ \A i \in 1..Len(s) : t[i] = s[i]
      /\ t[Len(s) + 1] = e
  BY AppendProperties
<1>2. DOMAIN s = 1..Len(s) /\ DOMAIN t = 1..Len(t) /\ Len(s) \in Nat
  BY <1>1, LenProperties
<1>3. ToSet(t) = ToSet(s) \cup {e}
  BY <1>1, <1>2 DEF ToSet
<1>4. IsInjective(s) /\ e \notin ToSet(s) => IsInjective(t)
  BY <1>1, <1>2 DEF IsInjective, ToSet
<1> QED
  BY <1>1, <1>3, <1>4

\* pop of a queue without duplicates removes exactly its front.
LEMMA TailElements ==
  ASSUME NEW S, NEW s \in Seq(S), s # <<>>, IsInjective(s)
  PROVE  /\ Head(s) \in S /\ Head(s) \in ToSet(s)
         /\ Tail(s) \in Seq(S)
         /\ IsInjective(Tail(s))
         /\ ToSet(Tail(s)) = ToSet(s) \ {Head(s)}
<1> DEFINE t == Tail(s)
<1>1. /\ Head(s) \in S /\ t \in Seq(S) /\ Len(t) = Len(s) - 1
      /\ \A i \in 1..Len(t) : t[i] = s[i + 1]
  BY HeadTailProperties
<1>2. DOMAIN s = 1..Len(s) /\ DOMAIN t = 1..Len(t) /\ Len(s) \in Nat \ {0}
  BY <1>1, LenProperties, EmptySeq
<1>3. Head(s) = s[1]
  OBVIOUS
<1>4. IsInjective(t)
  BY <1>1, <1>2 DEF IsInjective
<1>5. ToSet(t) = ToSet(s) \ {Head(s)}
  <2>1. ASSUME NEW x \in ToSet(t) PROVE x \in ToSet(s) \ {Head(s)}
    BY <1>1, <1>2, <1>3 DEF ToSet, IsInjective
  <2>2. ASSUME NEW x \in ToSet(s) \ {Head(s)} PROVE x \in ToSet(t)
    <3>1. PICK i \in 1..Len(s) : x = s[i] /\ i # 1
      BY <1>2, <1>3 DEF ToSet
    <3>2. i - 1 \in 1..Len(t) /\ t[i - 1] = x
      BY <1>1, <1>2, <3>1
    <3> QED
      BY <1>2, <3>2 DEF ToSet
  <2> QED
    BY <2>1, <2>2
<1> QED
  BY <1>1, <1>2, <1>3, <1>4, <1>5 DEF ToSet

-----------------------------------------------------------------------------
(***************************************************************************)
(* The inductive invariant                                                 *)
(***************************************************************************)

\* A request has a worker from its arrival on.
Control == \A r \in Reqs : home[r] = NoWorker <=> at[r] = "new"

IInv ==
  /\ TypeOK /\ AliveIsExact /\ OneWakeUp /\ NothingAbandoned /\ NoWorkSleeps
  /\ Control

-----------------------------------------------------------------------------
(***************************************************************************)
(* What a step of one worker changes                                       *)
(***************************************************************************)

\* The requests in progress at a worker are finitely many; one that begins or
\* ends changes their number by one.
LEMMA AliveChange ==
  ASSUME LoopAssumption, NEW w \in Workers, NEW r \in Reqs
  PROVE  /\ Cardinality(Alive(w)) \in Nat
         /\ Cardinality(Alive(w)) = 0 <=> Alive(w) = {}
         /\ Alive(w)' = Alive(w) \cup {r} /\ r \notin Alive(w) =>
              Cardinality(Alive(w)') = Cardinality(Alive(w)) + 1
         /\ Alive(w)' = Alive(w) \ {r} /\ r \in Alive(w) =>
              /\ Cardinality(Alive(w)') = Cardinality(Alive(w)) - 1
              /\ Cardinality(Alive(w)) > 0
<1>1. IsFiniteSet(Alive(w))
  BY FS_Subset DEF Alive, LoopAssumption
<1>2. /\ Cardinality(Alive(w)) \in Nat
      /\ Cardinality(Alive(w)) = 0 <=> Alive(w) = {}
  BY <1>1, FS_CardinalityType, FS_EmptySet
<1>3. ASSUME Alive(w)' = Alive(w) \cup {r}, r \notin Alive(w)
      PROVE  Cardinality(Alive(w)') = Cardinality(Alive(w)) + 1
  BY <1>1, <1>3, FS_AddElement
<1>4. ASSUME Alive(w)' = Alive(w) \ {r}, r \in Alive(w)
      PROVE  /\ Cardinality(Alive(w)') = Cardinality(Alive(w)) - 1
             /\ Cardinality(Alive(w)) > 0
  <2>1. Cardinality(Alive(w) \ {r}) = Cardinality(Alive(w)) - 1
    BY <1>1, <1>4, FS_RemoveElement
  <2>2. Alive(w) # {}
    BY <1>4
  <2> QED
    BY <1>2, <1>4, <2>1, <2>2
<1> QED
  BY <1>2, <1>3, <1>4

\* A step of a worker that goes on says nothing new of the stopped ones.
LEMMA OthersUntouched ==
  ASSUME NothingAbandoned, NEW w \in Workers, loop'[w] # "stopped",
         \A v \in Workers \ {w} :
           /\ loop'[v] = loop[v] /\ queue'[v] = queue[v]
           /\ delayed_jobs'[v] = delayed_jobs[v],
         \A s \in Reqs : home'[s] # w => home'[s] = home[s] /\ at'[s] = at[s]
  PROVE  NothingAbandoned'
BY DEF NothingAbandoned, Alive

\* A coroutine that runs to its next suspension, its return or its end, with
\* q what is left of the queue without anything for it.
LEMMA RunEffect ==
  ASSUME LoopAssumption, TypeOK, AliveIsExact, OneWakeUp, Control,
         NEW w \in Workers, NEW r \in Reqs, NEW q \in Seq(Work),
         home[r] = w, at[r] \in Unfinished, home' = home,
         Run(w, r, q), IsInjective(q),
         Resume(r) \notin ToSet(q), Destroy(r) \notin ToSet(q),
         \A s \in Reqs \ {r} :
           /\ Resume(s) \in ToSet(q) <=> Resume(s) \in ToSet(queue[w])
           /\ Destroy(s) \in ToSet(q) <=> Destroy(s) \in ToSet(queue[w])
  PROVE  /\ queue' \in [Workers -> Seq(Work)]
         /\ alive_coroutines' \in [Workers -> Nat]
         /\ at' \in [Reqs -> {"new", "finished", "gone"} \cup Unfinished]
         /\ depth' \in [Reqs -> 0..MaxDepth] /\ awaits' \in [Reqs -> 0..MaxAwaits]
         /\ AliveIsExact' /\ OneWakeUp' /\ Control'
         /\ \A v \in Workers \ {w} : queue'[v] = queue[v]
         /\ \A s \in Reqs \ {r} : at'[s] = at[s]
<1> USE DEF Unfinished
<1>a. Resume(r) \in Work /\ Destroy(r) \in Work
  BY DEF Resume, Destroy, Work
<1>b. \A s \in Reqs : Resume(r) # Destroy(s) /\ (Resume(r) = Resume(s) => r = s)
                      /\ Destroy(r) # Resume(s) /\ (Destroy(r) = Destroy(s) => r = s)
  BY DEF Resume, Destroy
<1>c. ASSUME NEW e \in Work
      PROVE  /\ Append(q, e) \in Seq(Work)
             /\ ToSet(Append(q, e)) = ToSet(q) \cup {e}
             /\ e \notin ToSet(q) => IsInjective(Append(q, e))
  BY AppendElements
<1>d. r \in Alive(w) /\ \A v \in Workers \ {w} : r \notin Alive(v)
  BY DEF Alive
<1>1. CASE \E d \in depth[r]..MaxDepth : Await(w, r, d, q)
           /\ UNCHANGED alive_coroutines
  <2>1. PICK d \in depth[r]..MaxDepth : Await(w, r, d, q)
    BY <1>1
  <2>2. /\ at' = [at EXCEPT ![r] = "event"] /\ queue' = [queue EXCEPT ![w] = q]
        /\ depth' \in [Reqs -> 0..MaxDepth] /\ awaits' \in [Reqs -> 0..MaxAwaits]
        /\ UNCHANGED alive_coroutines
    BY <1>1, <2>1 DEF Await, TypeOK, LoopAssumption
  <2>3. \A v \in Workers : Alive(v)' = Alive(v)
    BY <2>2 DEF Alive, TypeOK
  <2>4. AliveIsExact'
    BY <2>2, <2>3 DEF AliveIsExact
  <2>5. OneWakeUp'
    BY <2>2, SMTT(30) DEF OneWakeUp, TypeOK
  <2>6. Control'
    BY <2>2 DEF Control, TypeOK
  <2> QED
    BY <2>2, <2>4, <2>5, <2>6 DEF TypeOK
<1>2. CASE ReturnToParent(w, r, q)
  <2>1. /\ at' = [at EXCEPT ![r] = "returned"]
        /\ queue' = [queue EXCEPT ![w] = Append(q, Resume(r))]
        /\ depth' \in [Reqs -> 0..MaxDepth] /\ awaits' \in [Reqs -> 0..MaxAwaits]
        /\ UNCHANGED alive_coroutines
    BY <1>2 DEF ReturnToParent, TypeOK, LoopAssumption
  <2>2. \A v \in Workers : Alive(v)' = Alive(v)
    BY <2>1 DEF Alive, TypeOK
  <2>3. AliveIsExact'
    BY <2>1, <2>2 DEF AliveIsExact
  <2>4. OneWakeUp'
    BY <1>a, <1>b, <1>c, <2>1 DEF OneWakeUp, TypeOK
  <2>5. Control'
    BY <2>1 DEF Control, TypeOK
  <2> QED
    BY <1>a, <1>c, <2>1, <2>3, <2>4, <2>5 DEF TypeOK
<1>3. CASE Finish(w, r, q)
  <2>1. /\ at' = [at EXCEPT ![r] = "finished"]
        /\ queue' = [queue EXCEPT ![w] = Append(q, Destroy(r))]
        /\ alive_coroutines' = [alive_coroutines EXCEPT ![w] = @ - 1]
        /\ depth' \in [Reqs -> 0..MaxDepth] /\ awaits' \in [Reqs -> 0..MaxAwaits]
    BY <1>3 DEF Finish, TypeOK, LoopAssumption
  <2>2. /\ Alive(w)' = Alive(w) \ {r}
        /\ \A v \in Workers \ {w} : Alive(v)' = Alive(v)
    BY <2>1, <1>d DEF Alive, TypeOK
  <2>3. /\ Cardinality(Alive(w)') = Cardinality(Alive(w)) - 1
        /\ Cardinality(Alive(w)) \in Nat /\ Cardinality(Alive(w)) > 0
    BY <1>d, <2>2, AliveChange
  <2>4. AliveIsExact' /\ alive_coroutines' \in [Workers -> Nat]
    <3>1. alive_coroutines[w] = Cardinality(Alive(w))
      BY DEF AliveIsExact
    <3>2. alive_coroutines'[w] = Cardinality(Alive(w)') /\ alive_coroutines'[w] \in Nat
      BY <2>1, <2>3, <3>1 DEF TypeOK
    <3>3. ASSUME NEW v \in Workers, v # w
          PROVE  alive_coroutines'[v] = Cardinality(Alive(v)')
      BY <2>1, <2>2, <3>3 DEF AliveIsExact, TypeOK
    <3>4. AliveIsExact'
      BY <3>2, <3>3 DEF AliveIsExact
    <3> QED
      BY <2>1, <3>2, <3>4 DEF TypeOK
  <2>5. OneWakeUp'
    BY <1>a, <1>b, <1>c, <2>1, SMTT(30) DEF OneWakeUp, TypeOK
  <2>6. Control'
    BY <2>1 DEF Control, TypeOK
  <2> QED
    BY <1>a, <1>c, <2>1, <2>4, <2>5, <2>6 DEF TypeOK
<1> QED
  BY <1>1, <1>2, <1>3 DEF Run

-----------------------------------------------------------------------------
LEMMA InitIInv == Init => IInv
<1> SUFFICES ASSUME Init PROVE IInv
  OBVIOUS
<1> USE LoopAssumption
<1>0. [w \in Workers |-> <<>>] \in [Workers -> Seq(Work)]
  OBVIOUS
<1>1. TypeOK
  <2>1. queue \in [Workers -> Seq(Work)]
    BY <1>0 DEF Init
  <2>2. /\ depth \in [Reqs -> 0..MaxDepth]
        /\ awaits \in [Reqs -> 0..MaxAwaits]
        /\ alive_coroutines \in [Workers -> Nat]
    BY DEF Init
  <2>3. /\ loop \in [Workers -> {"created", "drain", "poll", "stopped"}]
        /\ home \in [Reqs -> Workers \cup {NoWorker}]
        /\ at \in [Reqs -> {"new", "finished", "gone"} \cup Unfinished]
    BY DEF Init
  <2>4. /\ woken \in [Workers -> BOOLEAN] /\ stop_notifier \in [Workers -> BOOLEAN]
        /\ until_complete \in [Workers -> BOOLEAN] /\ delayed_jobs \in [Workers -> BOOLEAN]
    BY DEF Init
  <2> QED
    BY <2>1, <2>2, <2>3, <2>4 DEF Init, TypeOK
<1>2. \A w \in Workers : Alive(w) = {}
  BY DEF Init, Alive, Unfinished
<1>3. AliveIsExact
  BY <1>2, FS_EmptySet DEF Init, AliveIsExact
<1>4. OneWakeUp
  BY DEF Init, OneWakeUp, ToSet, IsInjective
<1>5. NothingAbandoned /\ NoWorkSleeps /\ Control
  BY DEF Init, NothingAbandoned, NoWorkSleeps, Control
<1> QED
  BY <1>1, <1>3, <1>4, <1>5 DEF IInv

\* Steps that leave the requests and the queues alone.
LEMMA QuietStep ==
  ASSUME IInv, UNCHANGED <<reqVars, workVars>>
  PROVE  AliveIsExact' /\ OneWakeUp' /\ Control'
<1>1. \A w \in Workers : Alive(w)' = Alive(w)
  BY DEF Alive, reqVars
<1>2. AliveIsExact'
  BY <1>1 DEF IInv, AliveIsExact, reqVars, workVars
<1> QED
  BY <1>2 DEF IInv, OneWakeUp, Control, reqVars, workVars

\* A detached coroutine begins at a running worker.
LEMMA BeginEffect ==
  ASSUME LoopAssumption, IInv, NEW w \in Workers, NEW r \in Reqs,
         at[r] = "new", home' = [home EXCEPT ![r] = w],
         DoneAtOnce(r) \/ Detached(w, r)
  PROVE  /\ queue' = queue /\ home' \in [Reqs -> Workers \cup {NoWorker}]
         /\ alive_coroutines' \in [Workers -> Nat]
         /\ at' \in [Reqs -> {"new", "finished", "gone"} \cup Unfinished]
         /\ depth' \in [Reqs -> 0..MaxDepth] /\ awaits' \in [Reqs -> 0..MaxAwaits]
         /\ AliveIsExact' /\ OneWakeUp' /\ Control'
         /\ \A s \in Reqs \ {r} : at'[s] = at[s]
<1> USE DEF Unfinished
<1>a. home[r] = NoWorker /\ \A v \in Workers : r \notin Alive(v)
  BY DEF IInv, Control, Alive
<1>b. \A v \in Workers : Resume(r) \notin ToSet(queue[v]) /\ Destroy(r) \notin ToSet(queue[v])
  BY DEF IInv, OneWakeUp
<1>1. CASE DoneAtOnce(r)
  <2>1. /\ at' = [at EXCEPT ![r] = "gone"]
        /\ UNCHANGED <<queue, alive_coroutines, depth, awaits>>
       
    BY <1>1 DEF DoneAtOnce, IInv, TypeOK
  <2>2. \A v \in Workers : Alive(v)' = Alive(v)
    BY <1>a, <2>1 DEF Alive, IInv, TypeOK
  <2>3. AliveIsExact'
    BY <2>1, <2>2 DEF IInv, AliveIsExact
  <2>4. OneWakeUp'
    BY <1>a, <1>b, <2>1 DEF IInv, OneWakeUp, TypeOK
  <2>5. Control'
    BY <2>1, LoopAssumption DEF IInv, Control, TypeOK
  <2> QED
    BY <2>1, <2>3, <2>4, <2>5 DEF IInv, TypeOK
<1>2. CASE Detached(w, r)
  <2>1. PICK d \in 1..MaxDepth : Await(w, r, d, queue[w])
    BY <1>2 DEF Detached
  <2>2. /\ at' = [at EXCEPT ![r] = "event"] /\ queue' = queue
        /\ depth' \in [Reqs -> 0..MaxDepth] /\ awaits' \in [Reqs -> 0..MaxAwaits]
        /\ alive_coroutines' = [alive_coroutines EXCEPT ![w] = @ + 1]
    BY <1>2, <2>1, LoopAssumption DEF Detached, Await, IInv, TypeOK
  <2>3. /\ Alive(w)' = Alive(w) \cup {r}
        /\ \A v \in Workers \ {w} : Alive(v)' = Alive(v)
    BY <1>a, <2>2 DEF Alive, IInv, TypeOK
  <2>4. Cardinality(Alive(w)') = Cardinality(Alive(w)) + 1
    BY <1>a, <2>3, AliveChange
  <2>5. AliveIsExact'
    <3>1. alive_coroutines'[w] = Cardinality(Alive(w)')
      BY <2>2, <2>4 DEF IInv, AliveIsExact, TypeOK
    <3>2. ASSUME NEW v \in Workers, v # w
          PROVE  alive_coroutines'[v] = Cardinality(Alive(v)')
      BY <2>2, <2>3, <3>2 DEF IInv, AliveIsExact, TypeOK
    <3> QED
      BY <3>1, <3>2 DEF AliveIsExact
  <2>6. OneWakeUp'
    BY <1>a, <1>b, <2>2 DEF IInv, OneWakeUp, TypeOK
  <2>7. Control'
    BY <2>2, LoopAssumption DEF IInv, Control, TypeOK
  <2> QED
    BY <2>2, <2>5, <2>6, <2>7 DEF IInv, TypeOK
<1> QED
  BY <1>1, <1>2

-----------------------------------------------------------------------------
LEMMA NextIInv == IInv /\ [Next]_vars => IInv'
<1> SUFFICES ASSUME IInv, [Next]_vars PROVE IInv'
  OBVIOUS
<1> USE LoopAssumption
<1>0. /\ TypeOK /\ AliveIsExact /\ OneWakeUp /\ NothingAbandoned /\ NoWorkSleeps
      /\ Control
  BY DEF IInv
<1>1. CASE UNCHANGED vars
  <2>1. UNCHANGED <<reqVars, workVars>> /\ UNCHANGED <<mainVars, loopVars>>
    BY <1>1 DEF vars
  <2>2. AliveIsExact' /\ OneWakeUp' /\ Control'
    BY <2>1, QuietStep
  <2>3. TypeOK'
    BY <1>0, <2>1 DEF TypeOK, mainVars, loopVars, reqVars, workVars
  <2>4. NothingAbandoned' /\ NoWorkSleeps'
    BY <1>0, <2>1 DEF NothingAbandoned, NoWorkSleeps, Alive, loopVars, reqVars, workVars
  <2> QED
    BY <2>2, <2>3, <2>4 DEF IInv
<1>2. ASSUME NEW w \in Workers, StartLoop(w) PROVE IInv'
  <2>1. AliveIsExact' /\ OneWakeUp' /\ Control'
    BY <1>2, QuietStep DEF StartLoop
  <2>2. TypeOK'
    BY <1>0, <1>2 DEF StartLoop, TypeOK, mainVars, reqVars, workVars
  <2>3. NothingAbandoned'
    BY <1>0, <1>2, OthersUntouched DEF StartLoop, TypeOK, reqVars, workVars
  <2>4. NoWorkSleeps'
    BY <1>0, <1>2 DEF StartLoop, TypeOK, NoWorkSleeps, reqVars, workVars
  <2> QED
    BY <2>1, <2>2, <2>3, <2>4 DEF IInv
<1>3. ASSUME NEW w \in Workers, DoWork(w) PROVE IInv'
  <2> DEFINE item == Head(queue[w])
             q == Tail(queue[w])
             r == item.req
  <2>1. /\ queue[w] \in Seq(Work) /\ queue[w] # <<>> /\ IsInjective(queue[w])
        /\ loop[w] = "drain" /\ UNCHANGED <<mainVars, loopVars, home>>
    BY <1>0, <1>3 DEF DoWork, TypeOK, OneWakeUp
  <2>2. /\ item \in Work /\ item \in ToSet(queue[w]) /\ q \in Seq(Work)
        /\ IsInjective(q) /\ ToSet(q) = ToSet(queue[w]) \ {item}
    BY <2>1, TailElements
  <2>3. r \in Reqs /\ (item = Resume(r) \/ item = Destroy(r))
    BY <2>2 DEF Work, Resume, Destroy
  <2>4. \A s \in Reqs : Resume(s) # Destroy(r) /\ (Resume(s) = Resume(r) => r = s)
                      /\ Destroy(s) # Resume(r) /\ (Destroy(s) = Destroy(r) => r = s)
    BY DEF Resume, Destroy
  <2>5. NoWorkSleeps'
    <3>1. \A v \in Workers \ {w} : queue'[v] = queue[v]
      BY <1>0, <1>3 DEF DoWork, Run, Await, ReturnToParent, Finish, TypeOK
    <3> QED
      BY <1>0, <2>1, <3>1 DEF NoWorkSleeps, loopVars
  <2>6. CASE item.type = "RESUME"
    <3>1. item = Resume(r) /\ Run(w, r, q)
      BY <1>3, <2>3, <2>6 DEF DoWork, Resume, Destroy
    <3>2. home[r] = w /\ at[r] \in Unfinished
      BY <1>0, <2>2, <2>3, <3>1 DEF OneWakeUp, Unfinished
    <3>3. Resume(r) \notin ToSet(q) /\ Destroy(r) \notin ToSet(q)
      BY <1>0, <2>2, <2>3, <3>1, <3>2 DEF OneWakeUp, Unfinished
    <3>4. \A s \in Reqs \ {r} :
            /\ Resume(s) \in ToSet(q) <=> Resume(s) \in ToSet(queue[w])
            /\ Destroy(s) \in ToSet(q) <=> Destroy(s) \in ToSet(queue[w])
      BY <2>2, <2>4, <3>1
    <3> HIDE DEF item, q, r
    <3>5. home' = home
      BY <2>1
    <3>6. /\ queue' \in [Workers -> Seq(Work)]
          /\ alive_coroutines' \in [Workers -> Nat]
          /\ at' \in [Reqs -> {"new", "finished", "gone"} \cup Unfinished]
          /\ depth' \in [Reqs -> 0..MaxDepth] /\ awaits' \in [Reqs -> 0..MaxAwaits]
          /\ AliveIsExact' /\ OneWakeUp' /\ Control'
          /\ \A v \in Workers \ {w} : queue'[v] = queue[v]
          /\ \A s \in Reqs \ {r} : at'[s] = at[s]
      BY <1>0, <2>2, <2>3, <3>1, <3>2, <3>3, <3>4, <3>5, RunEffect
    <3>7. TypeOK'
      BY <1>0, <2>1, <3>6 DEF TypeOK, mainVars, loopVars
    <3>8. NothingAbandoned'
      <4>1. /\ loop'[w] # "stopped"
            /\ \A v \in Workers \ {w} :
                 /\ loop'[v] = loop[v] /\ queue'[v] = queue[v]
                 /\ delayed_jobs'[v] = delayed_jobs[v]
        BY <2>1, <3>6 DEF loopVars
      <4>2. \A s \in Reqs : home'[s] # w => home'[s] = home[s] /\ at'[s] = at[s]
        BY <3>2, <3>5, <3>6
      <4> QED
        BY <1>0, <4>1, <4>2, OthersUntouched
    <3> QED
      BY <2>5, <3>6, <3>7, <3>8 DEF IInv
  <2>7. CASE item.type = "DESTROY"
    <3>1. /\ item = Destroy(r)
          /\ at' = [at EXCEPT ![r] = "gone"] /\ queue' = [queue EXCEPT ![w] = q]
          /\ UNCHANGED <<depth, awaits, alive_coroutines>>
      BY <1>3, <2>3, <2>7 DEF DoWork, Resume, Destroy
    <3>2. home[r] = w /\ at[r] = "finished"
      BY <1>0, <2>2, <2>3, <3>1 DEF OneWakeUp
    <3> HIDE DEF item, q, r
    <3>3. \A v \in Workers : Alive(v)' = Alive(v)
      BY <1>0, <2>1, <2>3, <3>1, <3>2 DEF Alive, Unfinished, TypeOK
    <3>4. AliveIsExact'
      BY <1>0, <3>1, <3>3 DEF AliveIsExact
    <3>5. OneWakeUp'
      BY <1>0, <2>1, <2>2, <2>3, <2>4, <3>1, <3>2 DEF OneWakeUp, TypeOK
    <3>6. Control'
      BY <1>0, <2>1, <2>3, <3>1, <3>2 DEF Control, TypeOK
    <3>7. TypeOK'
      BY <1>0, <2>1, <2>2, <2>3, <3>1 DEF TypeOK, mainVars, loopVars
    <3>8. NothingAbandoned'
      BY <1>0, <2>1, <2>3, <3>1, <3>2, OthersUntouched DEF loopVars, TypeOK
    <3> QED
      BY <2>5, <3>4, <3>5, <3>6, <3>7, <3>8 DEF IInv
  <2> QED
    BY <1>3, <2>6, <2>7 DEF DoWork
<1>4. ASSUME NEW w \in Workers, StopLoop(w) PROVE IInv'
  <2>1. AliveIsExact' /\ OneWakeUp' /\ Control'
    BY <1>4, QuietStep DEF StopLoop
  <2>2. TypeOK'
    BY <1>0, <1>4 DEF StopLoop, TypeOK, mainVars, reqVars, workVars
  <2>3. Alive(w) = {} /\ queue[w] = <<>>
    <3>1. IsFiniteSet(Alive(w))
      BY FS_Subset DEF Alive, LoopAssumption
    <3>2. Cardinality(Alive(w)) = 0 /\ queue[w] = <<>>
      BY <1>0, <1>4 DEF StopLoop, AliveIsExact
    <3> QED
      BY <3>1, <3>2, FS_EmptySet
  <2>4. \A r \in Reqs : home[r] = w => at[r] = "gone"
    <3> SUFFICES ASSUME NEW r \in Reqs, home[r] = w PROVE at[r] = "gone"
      OBVIOUS
    <3>1. at[r] \notin Unfinished
      BY <2>3 DEF Alive
    <3>2. at[r] # "new"
      BY <1>0 DEF Control
    <3>3. at[r] # "finished"
      BY <1>0, <2>3 DEF OneWakeUp, ToSet
    <3> QED
      BY <1>0, <3>1, <3>2, <3>3 DEF TypeOK
  <2>5. NothingAbandoned'
    BY <1>0, <1>4, <2>3, <2>4
    DEF StopLoop, NothingAbandoned, Alive, TypeOK, reqVars, workVars
  <2>6. NoWorkSleeps'
    BY <1>0, <1>4 DEF StopLoop, TypeOK, NoWorkSleeps, reqVars, workVars
  <2> QED
    BY <2>1, <2>2, <2>5, <2>6 DEF IInv
<1>5. ASSUME NEW w \in Workers, EnterPoll(w) PROVE IInv'
  <2>1. AliveIsExact' /\ OneWakeUp' /\ Control'
    BY <1>5, QuietStep DEF EnterPoll
  <2>2. TypeOK'
    BY <1>0, <1>5 DEF EnterPoll, TypeOK, mainVars, reqVars, workVars
  <2>3. NothingAbandoned'
    BY <1>0, <1>5, OthersUntouched DEF EnterPoll, TypeOK, reqVars, workVars
  <2>4. NoWorkSleeps'
    BY <1>0, <1>5 DEF EnterPoll, TypeOK, NoWorkSleeps, reqVars, workVars
  <2> QED
    BY <2>1, <2>2, <2>3, <2>4 DEF IInv
<1>6. ASSUME NEW w \in Workers, NextRound(w) PROVE IInv'
  <2>1. AliveIsExact' /\ OneWakeUp' /\ Control'
    BY <1>6, QuietStep DEF NextRound
  <2>2. TypeOK'
    BY <1>0, <1>6 DEF NextRound, TypeOK, mainVars, reqVars, workVars
  <2>3. NothingAbandoned'
    BY <1>0, <1>6, OthersUntouched DEF NextRound, TypeOK, reqVars, workVars
  <2>4. NoWorkSleeps'
    BY <1>0, <1>6 DEF NextRound, TypeOK, NoWorkSleeps, reqVars, workVars
  <2> QED
    BY <2>1, <2>2, <2>3, <2>4 DEF IInv
<1>7. ASSUME NEW w \in Workers, NEW r \in Reqs, Accept(w, r) PROVE IInv'
  <2>1. /\ loop[w] = "poll" /\ woken' = [woken EXCEPT ![w] = TRUE]
        /\ UNCHANGED <<mainVars, loop, stop_notifier, until_complete>>
        /\ at[r] = "new" /\ home' = [home EXCEPT ![r] = w]
        /\ DoneAtOnce(r) \/ Detached(w, r)
    BY <1>7 DEF Accept, Callback
  <2>2. \E job \in BOOLEAN : delayed_jobs' = [delayed_jobs EXCEPT ![w] = @ \/ job]
    BY <1>7 DEF Accept
  <2>3. /\ delayed_jobs' \in [Workers -> BOOLEAN]
        /\ \A v \in Workers \ {w} : delayed_jobs'[v] = delayed_jobs[v]
    BY <1>0, <2>2 DEF TypeOK
  <2>4. /\ queue' = queue /\ home' \in [Reqs -> Workers \cup {NoWorker}]
        /\ alive_coroutines' \in [Workers -> Nat]
        /\ at' \in [Reqs -> {"new", "finished", "gone"} \cup Unfinished]
        /\ depth' \in [Reqs -> 0..MaxDepth] /\ awaits' \in [Reqs -> 0..MaxAwaits]
        /\ AliveIsExact' /\ OneWakeUp' /\ Control'
        /\ \A s \in Reqs \ {r} : at'[s] = at[s]
    BY <2>1, BeginEffect
  <2>5. TypeOK'
    BY <1>0, <2>1, <2>3, <2>4 DEF TypeOK, mainVars
  <2>6. NothingAbandoned'
    BY <1>0, <2>1, <2>3, <2>4, OthersUntouched DEF TypeOK
  <2>7. NoWorkSleeps'
    BY <1>0, <2>1, <2>4 DEF NoWorkSleeps, TypeOK
  <2> QED
    BY <2>4, <2>5, <2>6, <2>7 DEF IInv
<1>8. ASSUME NEW w \in Workers, NEW r \in Reqs, Rollback(w, r) PROVE IInv'
  <2>1. /\ loop[w] \in {"drain", "poll"}
        /\ woken' = [woken EXCEPT ![w] = @ \/ loop[w] = "poll"]
        /\ UNCHANGED <<mainVars, loop, stop_notifier, until_complete, delayed_jobs>>
        /\ at[r] = "new" /\ home' = [home EXCEPT ![r] = w]
        /\ DoneAtOnce(r) \/ Detached(w, r)
    BY <1>8 DEF Rollback, Running
  <2>2. /\ queue' = queue /\ home' \in [Reqs -> Workers \cup {NoWorker}]
        /\ alive_coroutines' \in [Workers -> Nat]
        /\ at' \in [Reqs -> {"new", "finished", "gone"} \cup Unfinished]
        /\ depth' \in [Reqs -> 0..MaxDepth] /\ awaits' \in [Reqs -> 0..MaxAwaits]
        /\ AliveIsExact' /\ OneWakeUp' /\ Control'
        /\ \A s \in Reqs \ {r} : at'[s] = at[s]
    BY <2>1, BeginEffect
  <2>3. woken' \in [Workers -> BOOLEAN]
    BY <1>0, <2>1 DEF TypeOK
  <2>4. TypeOK'
    BY <1>0, <2>1, <2>2, <2>3 DEF TypeOK, mainVars
  <2>5. NothingAbandoned'
    BY <1>0, <2>1, <2>2, OthersUntouched DEF TypeOK
  <2>6. NoWorkSleeps'
    BY <1>0, <2>1, <2>2 DEF NoWorkSleeps, TypeOK
  <2> QED
    BY <2>2, <2>4, <2>5, <2>6 DEF IInv
<1>9. ASSUME NEW w \in Workers, NEW r \in Reqs, Wake(w, r) \/ WakeFromCoroutine(w, r)
      PROVE  IInv'
  <2>1. /\ loop[w] \in {"drain", "poll"} /\ home[r] = w /\ at[r] = "event"
        /\ Run(w, r, queue[w]) /\ home' = home
        /\ UNCHANGED <<mainVars, loop, stop_notifier, until_complete, delayed_jobs>>
        /\ woken' \in [Workers -> BOOLEAN]
        /\ loop[w] = "poll" => woken'[w] = TRUE
        /\ \A v \in Workers \ {w} : woken'[v] = woken[v]
    BY <1>0, <1>9 DEF Wake, WakeFromCoroutine, Callback, loopVars, TypeOK
  <2>2. /\ queue[w] \in Seq(Work) /\ IsInjective(queue[w])
        /\ Resume(r) \notin ToSet(queue[w]) /\ Destroy(r) \notin ToSet(queue[w])
    BY <1>0, <2>1 DEF TypeOK, OneWakeUp
  <2>3. /\ queue' \in [Workers -> Seq(Work)]
        /\ alive_coroutines' \in [Workers -> Nat]
        /\ at' \in [Reqs -> {"new", "finished", "gone"} \cup Unfinished]
        /\ depth' \in [Reqs -> 0..MaxDepth] /\ awaits' \in [Reqs -> 0..MaxAwaits]
        /\ AliveIsExact' /\ OneWakeUp' /\ Control'
        /\ \A v \in Workers \ {w} : queue'[v] = queue[v]
        /\ \A s \in Reqs \ {r} : at'[s] = at[s]
    BY <1>0, <2>1, <2>2, RunEffect DEF Unfinished
  <2>4. TypeOK'
    BY <1>0, <2>1, <2>3 DEF TypeOK, mainVars
  <2>5. NothingAbandoned'
    <3>1. /\ loop'[w] # "stopped"
          /\ \A v \in Workers \ {w} :
               /\ loop'[v] = loop[v] /\ queue'[v] = queue[v]
               /\ delayed_jobs'[v] = delayed_jobs[v]
      BY <2>1, <2>3
    <3>2. \A s \in Reqs : home'[s] # w => home'[s] = home[s] /\ at'[s] = at[s]
      BY <2>1, <2>3
    <3> QED
      BY <1>0, <3>1, <3>2, OthersUntouched
  <2>6. NoWorkSleeps'
    <3>1. ASSUME NEW v \in Workers, v # w, loop'[v] = "poll", ~woken'[v]
          PROVE  queue'[v] = <<>>
      <4>1. loop'[v] = loop[v] /\ woken'[v] = woken[v] /\ queue'[v] = queue[v]
        BY <2>1, <2>3, <3>1
      <4>2. NoWorkSleeps
        BY <1>0
      <4> QED
        BY <3>1, <4>1, <4>2 DEF NoWorkSleeps
    <3>2. loop'[w] = "poll" => woken'[w]
      BY <2>1
    <3> QED
      BY <3>1, <3>2 DEF NoWorkSleeps
  <2> QED
    BY <2>3, <2>4, <2>5, <2>6 DEF IInv
<1>10. ASSUME NEW w \in Workers, NEW r \in Reqs, WakeByQueue(w, r) PROVE IInv'
  <2>1. /\ loop[w] = "poll" /\ woken' = [woken EXCEPT ![w] = TRUE]
        /\ home[r] = w /\ at[r] = "event" /\ at' = [at EXCEPT ![r] = "queued"]
        /\ queue' = [queue EXCEPT ![w] = Append(@, Resume(r))]
        /\ UNCHANGED <<mainVars, loop, stop_notifier, until_complete, delayed_jobs,
                       home, depth, awaits, alive_coroutines>>
    BY <1>10 DEF WakeByQueue, Callback
  <2>2. /\ queue[w] \in Seq(Work) /\ IsInjective(queue[w])
        /\ Resume(r) \notin ToSet(queue[w]) /\ Resume(r) \in Work
    BY <1>0, <2>1 DEF TypeOK, OneWakeUp, Resume, Work
  <2>3. /\ Append(queue[w], Resume(r)) \in Seq(Work)
        /\ IsInjective(Append(queue[w], Resume(r)))
        /\ ToSet(Append(queue[w], Resume(r))) = ToSet(queue[w]) \cup {Resume(r)}
    BY <2>2, AppendElements
  <2>4. \A s \in Reqs : Resume(r) # Destroy(s) /\ (Resume(r) = Resume(s) => r = s)
    BY DEF Resume, Destroy
  <2>5. \A v \in Workers : Alive(v)' = Alive(v)
    BY <1>0, <2>1 DEF Alive, Unfinished, TypeOK
  <2>6. AliveIsExact'
    BY <1>0, <2>1, <2>5 DEF AliveIsExact
  <2>7. OneWakeUp'
    BY <1>0, <2>1, <2>3, <2>4 DEF OneWakeUp, TypeOK
  <2>8. Control'
    BY <1>0, <2>1 DEF Control, TypeOK
  <2>9. TypeOK'
    BY <1>0, <2>1, <2>3 DEF TypeOK, Unfinished, mainVars
  <2>10. NothingAbandoned'
    BY <1>0, <2>1, OthersUntouched DEF TypeOK
  <2>11. NoWorkSleeps'
    BY <1>0, <2>1 DEF NoWorkSleeps, TypeOK
  <2> QED
    BY <2>6, <2>7, <2>8, <2>9, <2>10, <2>11 DEF IInv
<1>11. ASSUME NEW w \in Workers, DelayedFires(w) PROVE IInv'
  <2>1. AliveIsExact' /\ OneWakeUp' /\ Control'
    BY <1>11, QuietStep DEF DelayedFires
  <2>2. TypeOK'
    BY <1>0, <1>11 DEF DelayedFires, Callback, TypeOK, mainVars, reqVars, workVars
  <2>3. NothingAbandoned'
    BY <1>0, <1>11, OthersUntouched DEF DelayedFires, Callback, TypeOK, reqVars, workVars
  <2>4. NoWorkSleeps'
    BY <1>0, <1>11 DEF DelayedFires, Callback, TypeOK, NoWorkSleeps, reqVars, workVars
  <2> QED
    BY <2>1, <2>2, <2>3, <2>4 DEF IInv
<1>12. ASSUME NEW w \in Workers, StopNotified(w) PROVE IInv'
  <2>1. AliveIsExact' /\ OneWakeUp' /\ Control'
    BY <1>12, QuietStep DEF StopNotified
  <2>2. TypeOK'
    BY <1>0, <1>12 DEF StopNotified, Callback, TypeOK, mainVars, reqVars, workVars
  <2>3. NothingAbandoned'
    BY <1>0, <1>12, OthersUntouched DEF StopNotified, Callback, TypeOK, reqVars, workVars
  <2>4. NoWorkSleeps'
    BY <1>0, <1>12 DEF StopNotified, Callback, TypeOK, NoWorkSleeps, reqVars, workVars
  <2> QED
    BY <2>1, <2>2, <2>3, <2>4 DEF IInv
<1>13. ASSUME Interrupt \/ NotifyWorkers \/ JoinWorkers PROVE IInv'
  <2>1. /\ UNCHANGED <<reqVars, workVars>>
        /\ UNCHANGED <<loop, woken, until_complete, delayed_jobs>>
    BY <1>13 DEF Interrupt, NotifyWorkers, JoinWorkers, loopVars
  <2>2. AliveIsExact' /\ OneWakeUp' /\ Control'
    BY <2>1, QuietStep
  <2>3. TypeOK'
    BY <1>0, <1>13, <2>1
    DEF Interrupt, NotifyWorkers, JoinWorkers, TypeOK, loopVars, reqVars, workVars
  <2>4. NothingAbandoned' /\ NoWorkSleeps'
    BY <1>0, <2>1 DEF NothingAbandoned, NoWorkSleeps, Alive, reqVars, workVars
  <2> QED
    BY <2>2, <2>3, <2>4 DEF IInv
<1> QED
  BY <1>1, <1>2, <1>3, <1>4, <1>5, <1>6, <1>7, <1>8, <1>9, <1>10, <1>11, <1>12, <1>13
  DEF Next, ThreadStep, EventFor

LEMMA Invariance == Spec => []IInv
BY InitIInv, NextIInv, PTL DEF Spec

-----------------------------------------------------------------------------
\* Every variable keeps its type; a worker's counter never goes below 0
\* (coro.cc:11).
THEOREM TypeCorrect == Spec => []TypeOK
BY Invariance, PTL DEF IInv

\* alive_coroutines is the number of the worker's requests in progress, however
\* requests, rollbacks and the stop interleave.
THEOREM AliveCoroutinesAreCounted == Spec => []AliveIsExact
BY Invariance, PTL DEF IInv

\* No coroutine is resumed twice for one suspension, after its end or after its
\* destruction, and none is destroyed twice.
THEOREM OneWakeUpPerSuspension == Spec => []OneWakeUp
BY Invariance, PTL DEF IInv

\* A loop that has stopped has finished every request it accepted.
THEOREM StoppedLoopsAreFinished == Spec => []NothingAbandoned
BY Invariance, PTL DEF IInv

\* The loop does not begin to wait for events while it has work.
THEOREM WorkIsDoneBeforeWaiting == Spec => []NoWorkSleeps
BY Invariance, PTL DEF IInv
=============================================================================
