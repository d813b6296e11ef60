----------------------------- MODULE EventLoop -----------------------------
(***************************************************************************)
(* The worker threads and the main thread (api/src/main.cc), each worker   *)
(* running a libev event loop (api/src/async/libev-event-loop.cc), and the *)
(* coroutines the loop resumes (api/src/async/coro.cc).                    *)
(*                                                                         *)
(* A request is a chain of coroutines: the detached one that accept_cb     *)
(* creates, and the ones it awaits.  A request that drops its connection   *)
(* inside a transaction detaches one more, rollback_and_return, which from *)
(* then on is scheduled like a request and is one of the model's Reqs.     *)
(* Only the innermost coroutine of a chain can be waiting for something:   *)
(* an event of the outside (a socket, a timer, a future set by an event    *)
(* source), or its turn in the loop's queue.  What happens between two     *)
(* suspensions is one step of the worker.  A future can also be set by     *)
(* another coroutine of the worker, which resumes the waiter in the middle *)
(* of its own step; the waiter's part is then a step of its own next to    *)
(* it, so an event may fire in any phase of the loop.                      *)
(***************************************************************************)
EXTENDS Integers, FiniteSets, SequencesExt

CONSTANTS Workers,
          Reqs,       \* detached coroutines: requests, and rollbacks they leave
          MaxDepth,   \* bound: coroutines in the chain of one request
          MaxAwaits,  \* bound: how often one request can suspend
          NoWorker

ASSUME LoopAssumption ==
  /\ IsFiniteSet(Reqs)
  /\ MaxDepth \in Nat \ {0} /\ MaxAwaits \in Nat
  /\ NoWorker \notin Workers

VARIABLES
  should_exit,    \* SIGINT was handled; a second one would kill the process
  main,           \* where the main thread is
  loop,           \* "created", "drain" (inside worker_cb), "poll", "stopped"
  woken,          \* a callback ran since worker_cb
  stop_notifier,  \* the ev_async is pending
  until_complete,
  queue,          \* event_loop_work items
  alive_coroutines,
  delayed_jobs,   \* a set_timeout job is armed
  home,           \* the worker a request was accepted by
  at,             \* what the innermost coroutine of a request waits for
  depth,          \* unfinished coroutines of the chain
  awaits          \* suspensions the request may still make

mainVars == <<should_exit, main>>
loopVars == <<loop, woken, stop_notifier, until_complete, delayed_jobs>>
reqVars == <<home, at, depth, awaits>>
workVars == <<queue, alive_coroutines>>
vars == <<mainVars, loopVars, reqVars, workVars>>

-----------------------------------------------------------------------------
Work == [type : {"RESUME", "DESTROY"}, req : Reqs]
Resume(r) == [type |-> "RESUME", req |-> r]
Destroy(r) == [type |-> "DESTROY", req |-> r]

Unfinished == {"event", "queued", "returned"}
Alive(w) == {r \in Reqs : home[r] = w /\ at[r] \in Unfinished}

Running(w) == loop[w] \in {"drain", "poll"}

\* co_await on something of the outside, in coroutine d of the chain.
Await(w, r, d, q) ==
  /\ awaits[r] > 0
  /\ awaits' = [awaits EXCEPT ![r] = @ - 1]
  /\ at' = [at EXCEPT ![r] = "event"]
  /\ depth' = [depth EXCEPT ![r] = d]
  /\ queue' = [queue EXCEPT ![w] = q]

\* The first steps of a detached coroutine: it is done before schedule_detached
\* sees it, which drops the exception it may have ended with ...
DoneAtOnce(r) ==
  /\ at' = [at EXCEPT ![r] = "gone"]
  /\ UNCHANGED <<queue, alive_coroutines, depth, awaits>>

\* Fault: the coroutine is not counted.
DetachedUncounted(w, r) ==
  /\ \E d \in 1..MaxDepth : Await(w, r, d, queue[w])
  /\ UNCHANGED alive_coroutines

\* ... or it is suspended and counted.
Detached(w, r) ==
  /\ \E d \in 1..MaxDepth : Await(w, r, d, queue[w])
  /\ alive_coroutines' = [alive_coroutines EXCEPT ![w] = @ + 1]

\* Fault: the parent is not queued.
ReturnToNobody(w, r, q) ==
  /\ depth[r] > 1
  /\ depth' = [depth EXCEPT ![r] = @ - 1]
  /\ at' = [at EXCEPT ![r] = "returned"]
  /\ queue' = [queue EXCEPT ![w] = q]
  /\ UNCHANGED <<awaits, alive_coroutines>>

\* final_suspend_inner of an awaited coroutine: its parent is queued.
ReturnToParent(w, r, q) ==
  /\ depth[r] > 1
  /\ depth' = [depth EXCEPT ![r] = @ - 1]
  /\ at' = [at EXCEPT ![r] = "returned"]
  /\ queue' = [queue EXCEPT ![w] = Append(q, Resume(r))]
  /\ UNCHANGED <<awaits, alive_coroutines>>

\* Fault: the frame is destroyed in final_suspend_inner, and queued as well.
FinishDestroyingAtOnce(w, r, q) ==
  /\ depth[r] = 1
  /\ depth' = [depth EXCEPT ![r] = 0]
  /\ at' = [at EXCEPT ![r] = "gone"]
  /\ alive_coroutines' = [alive_coroutines EXCEPT ![w] = @ - 1]
  /\ queue' = [queue EXCEPT ![w] = Append(q, Destroy(r))]
  /\ UNCHANGED awaits

\* Fault: --alive_coroutines is missing.
FinishUncounted(w, r, q) ==
  /\ depth[r] = 1
  /\ depth' = [depth EXCEPT ![r] = 0]
  /\ at' = [at EXCEPT ![r] = "finished"]
  /\ queue' = [queue EXCEPT ![w] = Append(q, Destroy(r))]
  /\ UNCHANGED <<awaits, alive_coroutines>>

\* final_suspend_inner of the detached coroutine; if it ended with an exception,
\* handle_exception logs it here.
Finish(w, r, q) ==
  /\ depth[r] = 1
  /\ depth' = [depth EXCEPT ![r] = 0]
  /\ at' = [at EXCEPT ![r] = "finished"]
  /\ alive_coroutines' = [alive_coroutines EXCEPT ![w] = @ - 1]
  /\ queue' = [queue EXCEPT ![w] = Append(q, Destroy(r))]
  /\ UNCHANGED awaits

\* handle.resume() of the innermost coroutine of r, to its next suspension; q is
\* what is left of the queue.
Run(w, r, q) ==
  \/ /\ \E d \in depth[r]..MaxDepth : Await(w, r, d, q)
     /\ UNCHANGED alive_coroutines
  \/ ReturnToParent(w, r, q)
  \/ Finish(w, r, q)

-----------------------------------------------------------------------------
Init ==
  /\ should_exit = FALSE /\ main = "poll"
  /\ loop = [w \in Workers |-> "created"]
  /\ woken = [w \in Workers |-> FALSE]
  /\ stop_notifier = [w \in Workers |-> FALSE]
  /\ until_complete = [w \in Workers |-> FALSE]
  /\ queue = [w \in Workers |-> <<>>]
  /\ alive_coroutines = [w \in Workers |-> 0]
  /\ delayed_jobs = [w \in Workers |-> FALSE]
  /\ home = [r \in Reqs |-> NoWorker]
  /\ at = [r \in Reqs |-> "new"]
  /\ depth = [r \in Reqs |-> 0]
  /\ awaits = [r \in Reqs |-> MaxAwaits]

\* worker_func: run(false) calls on_init and enters ev_run, which begins with
\* worker_cb.
StartLoop(w) ==
  /\ loop[w] = "created"
  /\ loop' = [loop EXCEPT ![w] = "drain"]
  /\ UNCHANGED <<mainVars, woken, stop_notifier, until_complete, delayed_jobs,
                 reqVars, workVars>>

\* worker_cb: one item of the queue.
DoWork(w) ==
  /\ loop[w] = "drain" /\ queue[w] # <<>>
  /\ LET item == Head(queue[w])
         r == item.req
     IN \/ item.type = "RESUME" /\ Run(w, r, Tail(queue[w]))
        \/ /\ item.type = "DESTROY"
           /\ at' = [at EXCEPT ![r] = "gone"]
           /\ queue' = [queue EXCEPT ![w] = Tail(@)]
           /\ UNCHANGED <<depth, awaits, alive_coroutines>>
  /\ UNCHANGED <<mainVars, loopVars, home>>

\* Fault: the loop stops as soon as it is asked to.
StopLoopEarly(w) ==
  /\ loop[w] = "drain" /\ queue[w] = <<>>
  /\ until_complete[w]
  /\ delayed_jobs' = [delayed_jobs EXCEPT ![w] = FALSE]
  /\ loop' = [loop EXCEPT ![w] = "stopped"]
  /\ UNCHANGED <<mainVars, woken, stop_notifier, until_complete, reqVars, workVars>>

\* worker_cb, with the queue empty: stop, and tell the event sources so ...
StopLoop(w) ==
  /\ loop[w] = "drain" /\ queue[w] = <<>>
  /\ until_complete[w] /\ alive_coroutines[w] = 0
  /\ delayed_jobs' = [delayed_jobs EXCEPT ![w] = FALSE]
  /\ loop' = [loop EXCEPT ![w] = "stopped"]
  /\ UNCHANGED <<mainVars, woken, stop_notifier, until_complete, reqVars, workVars>>

\* Fault: worker_cb does one item of the queue, not all of them.
EnterPollWithWork(w) ==
  /\ loop[w] = "drain"
  /\ ~(until_complete[w] /\ alive_coroutines[w] = 0)
  /\ loop' = [loop EXCEPT ![w] = "poll"]
  /\ woken' = [woken EXCEPT ![w] = FALSE]
  /\ UNCHANGED <<mainVars, stop_notifier, until_complete, delayed_jobs, reqVars, workVars>>

\* ... or go on to wait for events.
EnterPoll(w) ==
  /\ loop[w] = "drain" /\ queue[w] = <<>>
  /\ ~(until_complete[w] /\ alive_coroutines[w] = 0)
  /\ loop' = [loop EXCEPT ![w] = "poll"]
  /\ woken' = [woken EXCEPT ![w] = FALSE]
  /\ UNCHANGED <<mainVars, stop_notifier, until_complete, delayed_jobs, reqVars, workVars>>

\* The callbacks of this round are over; the next round begins with worker_cb.
NextRound(w) ==
  /\ loop[w] = "poll" /\ woken[w]
  /\ loop' = [loop EXCEPT ![w] = "drain"]
  /\ UNCHANGED <<mainVars, woken, stop_notifier, until_complete, delayed_jobs,
                 reqVars, workVars>>

Callback(w) ==
  /\ loop[w] = "poll"
  /\ woken' = [woken EXCEPT ![w] = TRUE]
  /\ UNCHANGED <<mainVars, loop>>

\* accept_cb: a request arrives and its coroutine starts.  It may arm a timeout
\* (the first session of the process does, for the collection of sessions).
Accept(w, r) ==
  /\ Callback(w)
  /\ at[r] = "new"
  /\ home' = [home EXCEPT ![r] = w]
  /\ DoneAtOnce(r) \/ Detached(w, r)
  /\ \E job \in BOOLEAN : delayed_jobs' = [delayed_jobs EXCEPT ![w] = @ \/ job]
  /\ UNCHANGED <<stop_notifier, until_complete>>

\* A coroutine of the worker, about to end, destroys a connection inside a
\* transaction: rollback_and_return begins.  It suspends once ROLLBACK is sent,
\* or throws at once when the connection is lost.
Rollback(w, r) ==
  /\ Running(w) /\ Alive(w) # {}
  /\ at[r] = "new"
  /\ home' = [home EXCEPT ![r] = w]
  /\ DoneAtOnce(r) \/ Detached(w, r)
  /\ woken' = [woken EXCEPT ![w] = @ \/ loop[w] = "poll"]
  /\ UNCHANGED <<mainVars, loop, stop_notifier, until_complete, delayed_jobs>>

\* A socket, a timer, curl or the database wakes the innermost coroutine of r.
Wake(w, r) ==
  /\ Callback(w)
  /\ home[r] = w /\ at[r] = "event"
  /\ Run(w, r, queue[w])
  /\ UNCHANGED <<stop_notifier, until_complete, delayed_jobs, home>>

\* Another coroutine of the worker sets the future r is suspended on, while the
\* queue is drained.
WakeFromCoroutine(w, r) ==
  /\ loop[w] = "drain"
  /\ home[r] = w /\ at[r] = "event"
  /\ Run(w, r, queue[w])
  /\ UNCHANGED <<mainVars, loopVars, home>>

\* on_state_update of a curl transfer that ends queues the waiter instead.
WakeByQueue(w, r) ==
  /\ Callback(w)
  /\ home[r] = w /\ at[r] = "event"
  /\ at' = [at EXCEPT ![r] = "queued"]
  /\ queue' = [queue EXCEPT ![w] = Append(@, Resume(r))]
  /\ UNCHANGED <<stop_notifier, until_complete, delayed_jobs, home, depth, awaits,
                 alive_coroutines>>

\* delayed_cb: the job runs and may arm itself again.
DelayedFires(w) ==
  /\ Callback(w)
  /\ delayed_jobs[w]
  /\ \E again \in BOOLEAN : delayed_jobs' = [delayed_jobs EXCEPT ![w] = again]
  /\ UNCHANGED <<stop_notifier, until_complete, reqVars, workVars>>

\* stop_notifier_cb
StopNotified(w) ==
  /\ Callback(w)
  /\ stop_notifier[w]
  /\ stop_notifier' = [stop_notifier EXCEPT ![w] = FALSE]
  /\ until_complete' = [until_complete EXCEPT ![w] = TRUE]
  /\ UNCHANGED <<delayed_jobs, reqVars, workVars>>

-----------------------------------------------------------------------------
\* interrupt_handler, the first time.
Interrupt ==
  /\ ~should_exit /\ should_exit' = TRUE
  /\ UNCHANGED <<main, loopVars, reqVars, workVars>>

\* main, once should_exit is seen: stop_notify for every worker ...
NotifyWorkers ==
  /\ main = "poll" /\ should_exit
  /\ stop_notifier' = [w \in Workers |-> TRUE]
  /\ main' = "join"
  /\ UNCHANGED <<should_exit, loop, woken, until_complete, delayed_jobs,
                 reqVars, workVars>>

\* ... and join them.
JoinWorkers ==
  /\ main = "join"
  /\ \A w \in Workers : loop[w] = "stopped"
  /\ main' = "exited"
  /\ UNCHANGED <<should_exit, loopVars, reqVars, workVars>>

\* What the thread does by itself.
ThreadStep(w) ==
  \/ StartLoop(w) \/ DoWork(w) \/ StopLoop(w) \/ EnterPoll(w) \/ NextRound(w)

EventFor(r) == \E w \in Workers : Wake(w, r) \/ WakeFromCoroutine(w, r) \/ WakeByQueue(w, r)

Next ==
  \/ \E w \in Workers : ThreadStep(w) \/ DelayedFires(w) \/ StopNotified(w)
  \/ \E w \in Workers, r \in Reqs : Accept(w, r) \/ Rollback(w, r)
  \/ \E r \in Reqs : EventFor(r)
  \/ Interrupt \/ NotifyWorkers \/ JoinWorkers

Spec == Init /\ [][Next]_vars

\* The operating system runs every thread and delivers an ev_async, and what a
\* coroutine waits for happens in the end: a database or an HTTP server answers
\* or its connection breaks.
Fairness ==
  /\ \A w \in Workers : WF_vars(ThreadStep(w))
  /\ \A w \in Workers : SF_vars(StopNotified(w))
  /\ \A r \in Reqs : WF_vars(EventFor(r))
  /\ WF_vars(NotifyWorkers) /\ WF_vars(JoinWorkers)

FairSpec == Spec /\ Fairness

-----------------------------------------------------------------------------
(***************************************************************************)
(* Properties                                                              *)
(***************************************************************************)

\* Types and ranges.
TypeOK ==
  /\ should_exit \in BOOLEAN
  /\ main \in {"poll", "join", "exited"}
  /\ loop \in [Workers -> {"created", "drain", "poll", "stopped"}]
  /\ woken \in [Workers -> BOOLEAN] /\ stop_notifier \in [Workers -> BOOLEAN]
  /\ until_complete \in [Workers -> BOOLEAN] /\ delayed_jobs \in [Workers -> BOOLEAN]
  /\ queue \in [Workers -> Seq(Work)]
  /\ alive_coroutines \in [Workers -> Nat]
  /\ home \in [Reqs -> Workers \cup {NoWorker}]
  /\ at \in [Reqs -> {"new", "finished", "gone"} \cup Unfinished]
  /\ depth \in [Reqs -> 0..MaxDepth] /\ awaits \in [Reqs -> 0..MaxAwaits]

\* alive_coroutines is exactly the number of detached coroutines of the worker
\* that have begun and not ended: the loop can stop when, and only when, no
\* request is in progress.
AliveIsExact ==
  \A w \in Workers : alive_coroutines[w] = Cardinality(Alive(w))

\* A coroutine is woken once per suspension and destroyed once: the queue holds
\* one RESUME for it exactly while it waits for its turn, one DESTROY exactly
\* between its end and its destruction, and nothing for a destroyed frame.
OneWakeUp ==
  \A w \in Workers :
    /\ IsInjective(queue[w])
    /\ \A r \in Reqs :
         /\ Resume(r) \in ToSet(queue[w]) <=>
              home[r] = w /\ at[r] \in {"queued", "returned"}
         /\ Destroy(r) \in ToSet(queue[w]) <=> home[r] = w /\ at[r] = "finished"

\* A stopped loop leaves nothing behind: no request cut in the middle, no queued
\* work, no armed timeout that would touch what on_stop destroyed.
NothingAbandoned ==
  \A w \in Workers : loop[w] = "stopped" =>
    /\ Alive(w) = {} /\ queue[w] = <<>> /\ ~delayed_jobs[w]
    /\ \A r \in Reqs : home[r] = w => at[r] = "gone"

\* While the loop waits for events, none of its work is left in the queue
\* unless a callback of this very round put it there: work is never forgotten
\* until some unrelated event arrives.
NoWorkSleeps ==
  \A w \in Workers : loop[w] = "poll" /\ ~woken[w] => queue[w] = <<>>

\* A request that suspended is finished and its frame destroyed in the end.
RequestsFinish ==
  \A r \in Reqs : at[r] \in Unfinished ~> at[r] = "gone"

\* After SIGINT the process ends, once requests have stopped coming.
ShutdownEnds == should_exit ~> main = "exited"
=============================================================================
