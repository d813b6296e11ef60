---------------------------- MODULE FifoResource ----------------------------
(***************************************************************************)
(* What a pool of interchangeable units promises to the coroutines that    *)
(* share it, whatever goes on inside: at most Units clients are served at  *)
(* a time; a client that cannot be served at once joins the end of one     *)
(* queue; only the head of the queue is ever admitted and nobody is served *)
(* past a non-empty queue; whoever leaves the queue unserved was turned    *)
(* away by Close.  connection_pool is shown to implement it.               *)
(***************************************************************************)
EXTENDS Integers, Sequences, FiniteSets

CONSTANTS Clients,  \* whoever asks for a unit
          Units     \* how many can be served at once

VARIABLES served,   \* the clients that hold a unit
          queue,    \* the clients that wait for one, oldest first
          closed    \* the resource has been shut down

fifoVars == <<served, queue, closed>>

Queued == {queue[i] : i \in DOMAIN queue}

FifoInit == served = {} /\ queue = <<>> /\ closed = FALSE

\* A unit is free and nobody waits: the client is served at once.
Enter(k) ==
  /\ ~closed /\ queue = <<>>
  /\ k \notin served /\ Cardinality(served) < Units
  /\ served' = served \cup {k}
  /\ UNCHANGED <<queue, closed>>

\* The client has to wait; this is allowed even when units are free, because
\* a unit may be out of service.
Join(k) ==
  /\ ~closed
  /\ k \notin served \cup Queued
  /\ queue' = Append(queue, k)
  /\ UNCHANGED <<served, closed>>

\* A unit becomes available and goes to the head of the queue.
Admit ==
  /\ queue # <<>> /\ Cardinality(served) < Units
  /\ served' = served \cup {Head(queue)}
  /\ queue' = Tail(queue)
  /\ UNCHANGED closed

\* The client gives its unit back and nobody gets it yet.
Leave(k) ==
  /\ k \in served
  /\ served' = served \ {k}
  /\ UNCHANGED <<queue, closed>>

\* The client gives its unit back and the head of the queue gets it.
Pass(k) ==
  /\ k \in served /\ queue # <<>>
  /\ served' = (served \ {k}) \cup {Head(queue)}
  /\ queue' = Tail(queue)
  /\ UNCHANGED closed

\* Everyone who waits is turned away; nobody will be served after this.
Close ==
  /\ ~closed /\ closed' = TRUE
  /\ queue' = <<>>
  /\ UNCHANGED served

FifoNext ==
  \/ \E k \in Clients : Enter(k) \/ Join(k) \/ Leave(k) \/ Pass(k)
  \/ Admit
  \/ Close

FifoSpec == FifoInit /\ [][FifoNext]_fifoVars
=============================================================================
