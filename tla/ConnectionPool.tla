--------------------------- MODULE ConnectionPool ---------------------------
(***************************************************************************)
(* The pool of database connections of one worker thread and the           *)
(* `connection` objects it lends to request handlers (api/src/async/pq.cc),*)
(* with the future each waiting handler is suspended on                    *)
(* (api/src/async/future.cc).                                              *)
(*                                                                         *)
(* A worker is one thread running an event loop.  The code between two     *)
(* suspension points runs to its end without another coroutine; only the   *)
(* database server, the network and the clock act in between.  A call      *)
(* into the pool that loops over blocking PQconnectdb calls or over bad    *)
(* connections is therefore one step per iteration, with `busy` naming the *)
(* loop the thread is in: while it is not "no", no coroutine moves.        *)
(***************************************************************************)
EXTENDS Integers, FiniteSets, SequencesExt

CONSTANTS Conns,         \* identities for connection_storage objects
          Reqs,          \* handler coroutines, each asks for one connection
          conns_desired, \* config db.connections
          NoConn, NoReq  \* null values

ASSUME PoolAssumption ==
  /\ IsFiniteSet(Conns)
  /\ conns_desired \in Nat
  /\ NoConn \notin Conns
  /\ NoReq \notin Reqs

VARIABLES
  status,         \* PQstatus of each connection; "none": not open
  txn,            \* the server has a transaction open for the connection
  pool,           \* idle connections, the back is used first
  requests,       \* the handlers whose futures wait for a connection
  conns_alive,
  cooling,        \* now - last_failure < creation_cooldown
  stop_requested,
  client,         \* where a handler is in get_connection and after it
  conn,           \* the raw_connection a handler holds
  has_active_transaction,
  rolling,        \* connections inside rollback_and_return
  busy,           \* the loop of the pool the thread is in
  caller,         \* the handler whose get_connection runs it
  left,           \* iterations of populate_pool still to do
  had_failure,
  leaked          \* history: connections a failed ROLLBACK never gave back

poolVars == <<pool, requests, conns_alive, cooling, stop_requested>>
clientVars == <<client, conn, has_active_transaction, rolling>>
loopVars == <<busy, caller, left, had_failure>>
vars == <<status, txn, poolVars, clientVars, loopVars, leaked>>

-----------------------------------------------------------------------------
Holders == {r \in Reqs : client[r] \in {"granted", "holding"}}
Held == {conn[r] : r \in Holders}
Open == {c \in Conns : status[c] # "none"}

\* The iterations populate_pool makes: none during the cooldown.
Attempts(alive) ==
  IF cooling \/ alive >= conns_desired THEN 0 ELSE conns_desired - alive

\* Fault: a connection always becomes idle, also when somebody waits.
HandOverToPool(c, cl, cn) ==
  pool' = Append(pool, c) /\ client' = cl /\ conn' = cn /\ UNCHANGED requests

\* Fault: requests.pop() is missing.
HandOverWithoutPop(c, cl, cn) ==
  IF requests = <<>>
    THEN HandOverToPool(c, cl, cn)
    ELSE /\ client' = [cl EXCEPT ![Head(requests)] = "granted"]
         /\ conn' = [cn EXCEPT ![Head(requests)] = c]
         /\ UNCHANGED <<pool, requests>>

\* Fault: the newest waiter is served instead of the oldest.
HandOverToNewest(c, cl, cn) ==
  IF requests = <<>>
    THEN HandOverToPool(c, cl, cn)
    ELSE /\ client' = [cl EXCEPT ![Last(requests)] = "granted"]
         /\ conn' = [cn EXCEPT ![Last(requests)] = c]
         /\ requests' = Front(requests)
         /\ UNCHANGED pool

\* return_connection once the connection is known to be good: it becomes idle,
\* or the oldest waiter's future gets it, which resumes that get_connection to
\* its end.  cl and cn are the clients as the calling handler leaves them.
HandOver(c, cl, cn) ==
  IF requests = <<>>
    THEN /\ pool' = Append(pool, c)
         /\ client' = cl /\ conn' = cn
         /\ UNCHANGED requests
    ELSE /\ client' = [cl EXCEPT ![Head(requests)] = "granted"]
         /\ conn' = [cn EXCEPT ![Head(requests)] = c]
         /\ requests' = Tail(requests)
         /\ UNCHANGED pool

Destroy(c) ==
  /\ status' = [status EXCEPT ![c] = "none"]
  /\ txn' = [txn EXCEPT ![c] = FALSE]

\* populate_pool as a call of the code: its loop starts here.
EnterPopulate(r, alive) ==
  /\ busy' = "populate" /\ caller' = r
  /\ left' = Attempts(alive) /\ had_failure' = FALSE

\* return_connection(conn) for a connection that comes back from outside.
ReturnConnection(c, cl, cn) ==
  \/ /\ stop_requested
     /\ Destroy(c)
     /\ client' = cl /\ conn' = cn
     /\ UNCHANGED <<pool, requests, conns_alive, loopVars>>
  \/ /\ ~stop_requested /\ status[c] = "bad"
     /\ Destroy(c)
     /\ conns_alive' = conns_alive - 1
     /\ EnterPopulate(NoReq, conns_alive - 1)
     /\ client' = cl /\ conn' = cn
     /\ UNCHANGED <<pool, requests>>
  \/ /\ ~stop_requested /\ status[c] = "ok"
     /\ HandOver(c, cl, cn)
     /\ UNCHANGED <<status, txn, conns_alive, loopVars>>

-----------------------------------------------------------------------------
\* The worker has just called on_init, which is a call of populate_pool.
Init ==
  /\ status = [c \in Conns |-> "none"]
  /\ txn = [c \in Conns |-> FALSE]
  /\ pool = <<>> /\ requests = <<>> /\ conns_alive = 0
  /\ cooling = FALSE /\ stop_requested = FALSE
  /\ client = [r \in Reqs |-> "idle"]
  /\ conn = [r \in Reqs |-> NoConn]
  /\ has_active_transaction = [r \in Reqs |-> FALSE]
  /\ rolling = {}
  /\ busy = "populate" /\ caller = NoReq
  /\ left = conns_desired /\ had_failure = FALSE
  /\ leaked = 0

\* get_connection before on_stop: on to the idle connections.
GetConnection(r) ==
  /\ busy = "no" /\ client[r] = "idle" /\ ~stop_requested
  /\ busy' = "prune" /\ caller' = r
  /\ client' = [client EXCEPT ![r] = "calling"]
  /\ UNCHANGED <<status, txn, poolVars, conn, has_active_transaction, rolling,
                 left, had_failure, leaked>>

\* get_connection after on_stop: reject_request.
GetAfterStop(r) ==
  /\ busy = "no" /\ client[r] = "idle" /\ stop_requested
  /\ client' = [client EXCEPT ![r] = "refused"]
  /\ UNCHANGED <<status, txn, poolVars, conn, has_active_transaction, rolling,
                 loopVars, leaked>>

\* Fault: --conns_alive is missing.
PruneBadUncounted ==
  /\ busy = "prune" /\ pool # <<>> /\ status[Last(pool)] # "ok"
  /\ pool' = Front(pool)
  /\ Destroy(Last(pool))
  /\ UNCHANGED <<requests, conns_alive, cooling, stop_requested, clientVars,
                 loopVars, leaked>>

\* get_connection drops a lost connection from the back of the pool.
PruneBad ==
  /\ busy = "prune" /\ pool # <<>> /\ status[Last(pool)] # "ok"
  /\ conns_alive' = conns_alive - 1
  /\ pool' = Front(pool)
  /\ Destroy(Last(pool))
  /\ UNCHANGED <<requests, cooling, stop_requested, clientVars, loopVars, leaked>>

\* get_connection found a good one or none; populate_pool if any is missing.
PruneDone ==
  /\ busy = "prune"
  /\ pool # <<>> => status[Last(pool)] = "ok"
  /\ EnterPopulate(caller, conns_alive)
  /\ UNCHANGED <<status, txn, poolVars, clientVars, leaked>>

\* One iteration of populate_pool: create_connection, return_connection.
CreateConnection(c) ==
  /\ busy = "populate" /\ left > 0 /\ status[c] = "none"
  /\ status' = [status EXCEPT ![c] = "ok"]
  /\ conns_alive' = conns_alive + 1
  /\ HandOver(c, client, conn)
  /\ left' = left - 1
  /\ UNCHANGED <<txn, cooling, stop_requested, has_active_transaction, rolling,
                 busy, caller, had_failure, leaked>>

CreateFails ==
  /\ busy = "populate" /\ left > 0
  /\ left' = left - 1 /\ had_failure' = TRUE
  /\ UNCHANGED <<status, txn, poolVars, clientVars, busy, caller, leaked>>

\* The end of populate_pool: a failure starts the cooldown.
PopulateEnds ==
  /\ busy = "populate" /\ left = 0
  /\ busy' = "no" /\ caller' = NoReq /\ had_failure' = FALSE
  /\ cooling' = (cooling \/ had_failure)
  /\ UNCHANGED left

\* ... called from on_init or return_connection: nothing else to do.
PopulateReturns ==
  /\ PopulateEnds /\ caller = NoReq
  /\ UNCHANGED <<status, txn, pool, requests, conns_alive, stop_requested,
                 clientVars, leaked>>

\* ... called from get_connection, which then decides on the request.
RefuseRequest ==
  /\ PopulateEnds /\ caller # NoReq
  /\ conns_alive = 0
  /\ client' = [client EXCEPT ![caller] = "refused"]
  /\ UNCHANGED <<status, txn, pool, requests, conns_alive, stop_requested,
                 conn, has_active_transaction, rolling, leaked>>

QueueRequest ==
  /\ PopulateEnds /\ caller # NoReq
  /\ conns_alive # 0 /\ pool = <<>>
  /\ requests' = Append(requests, caller)
  /\ client' = [client EXCEPT ![caller] = "waiting"]
  /\ UNCHANGED <<status, txn, pool, conns_alive, stop_requested, conn,
                 has_active_transaction, rolling, leaked>>

\* Fault: pool.pop_back() is missing.
TakeIdleWithoutPop ==
  /\ PopulateEnds /\ caller # NoReq
  /\ conns_alive # 0 /\ pool # <<>>
  /\ client' = [client EXCEPT ![caller] = "granted"]
  /\ conn' = [conn EXCEPT ![caller] = Last(pool)]
  /\ UNCHANGED <<status, txn, pool, requests, conns_alive, stop_requested,
                 has_active_transaction, rolling, leaked>>

TakeIdle ==
  /\ PopulateEnds /\ caller # NoReq
  /\ conns_alive # 0 /\ pool # <<>>
  /\ pool' = Front(pool)
  /\ client' = [client EXCEPT ![caller] = "granted"]
  /\ conn' = [conn EXCEPT ![caller] = Last(pool)]
  /\ UNCHANGED <<status, txn, requests, conns_alive, stop_requested,
                 has_active_transaction, rolling, leaked>>

-----------------------------------------------------------------------------
\* The handler coroutine, queued by get_connection's end, runs again.
Resume(r) ==
  /\ busy = "no" /\ client[r] = "granted"
  /\ client' = [client EXCEPT ![r] = "holding"]
  /\ UNCHANGED <<status, txn, poolVars, conn, has_active_transaction, rolling,
                 loopVars, leaked>>

\* The handler of a rejected request ends with the exception.
GiveUp(r) ==
  /\ busy = "no" /\ client[r] = "refused"
  /\ client' = [client EXCEPT ![r] = "idle"]
  /\ UNCHANGED <<status, txn, poolVars, conn, has_active_transaction, rolling,
                 loopVars, leaked>>

\* connection::transaction: BEGIN succeeds ...
Transaction(r) ==
  /\ busy = "no" /\ client[r] = "holding" /\ ~has_active_transaction[r]
  /\ status[conn[r]] = "ok"
  /\ txn' = [txn EXCEPT ![conn[r]] = TRUE]
  /\ has_active_transaction' = [has_active_transaction EXCEPT ![r] = TRUE]
  /\ UNCHANGED <<status, poolVars, client, conn, rolling, loopVars, leaked>>

\* ... or its answer is lost with the connection, and exec throws.
TransactionReplyLost(r) ==
  /\ busy = "no" /\ client[r] = "holding" /\ ~has_active_transaction[r]
  /\ status[conn[r]] = "ok"
  /\ txn' = [txn EXCEPT ![conn[r]] = TRUE]
  /\ status' = [status EXCEPT ![conn[r]] = "bad"]
  /\ UNCHANGED <<poolVars, clientVars, loopVars, leaked>>

\* connection::commit and connection::rollback when the statement succeeds.
EndTransaction(r) ==
  /\ busy = "no" /\ client[r] = "holding" /\ has_active_transaction[r]
  /\ status[conn[r]] = "ok"
  /\ txn' = [txn EXCEPT ![conn[r]] = FALSE]
  /\ has_active_transaction' = [has_active_transaction EXCEPT ![r] = FALSE]
  /\ UNCHANGED <<status, poolVars, client, conn, rolling, loopVars, leaked>>

\* COMMIT fails on a deferred constraint: the server ends the transaction, exec
\* throws before the flag is cleared.
CommitFails(r) ==
  /\ busy = "no" /\ client[r] = "holding" /\ has_active_transaction[r]
  /\ status[conn[r]] = "ok" /\ txn[conn[r]]
  /\ txn' = [txn EXCEPT ![conn[r]] = FALSE]
  /\ UNCHANGED <<status, poolVars, clientVars, loopVars, leaked>>

-----------------------------------------------------------------------------
Released(r) == [client EXCEPT ![r] = "idle"]
Dropped(r) == [conn EXCEPT ![r] = NoConn]

\* Fault: the destructor does not look at has_active_transaction.
ReleaseInTransaction(r) ==
  /\ busy = "no" /\ client[r] = "holding"
  /\ ReturnConnection(conn[r], Released(r), Dropped(r))
  /\ has_active_transaction' = [has_active_transaction EXCEPT ![r] = FALSE]
  /\ UNCHANGED <<cooling, stop_requested, rolling, leaked>>

\* connection::~connection outside a transaction.
Release(r) ==
  /\ busy = "no" /\ client[r] = "holding" /\ ~has_active_transaction[r]
  /\ ReturnConnection(conn[r], Released(r), Dropped(r))
  /\ UNCHANGED <<cooling, stop_requested, has_active_transaction, rolling, leaked>>

\* connection::~connection inside one: rollback_and_return is detached, and
\* suspends in exec once ROLLBACK is sent ...
StartRollback(r) ==
  /\ busy = "no" /\ client[r] = "holding" /\ has_active_transaction[r]
  /\ status[conn[r]] = "ok"
  /\ rolling' = rolling \cup {conn[r]}
  /\ client' = Released(r) /\ conn' = Dropped(r)
  /\ has_active_transaction' = [has_active_transaction EXCEPT ![r] = FALSE]
  /\ UNCHANGED <<status, txn, poolVars, loopVars, leaked>>

\* ... or throws at once because the connection is lost: the coroutine is over
\* before schedule_detached sees it, and return_connection is never called.
RollbackCannotStart(r) ==
  /\ busy = "no" /\ client[r] = "holding" /\ has_active_transaction[r]
  /\ status[conn[r]] = "bad"
  /\ Destroy(conn[r])
  /\ leaked' = leaked + 1
  /\ client' = Released(r) /\ conn' = Dropped(r)
  /\ has_active_transaction' = [has_active_transaction EXCEPT ![r] = FALSE]
  /\ UNCHANGED <<poolVars, rolling, loopVars>>

\* ROLLBACK is answered: the connection, now outside a transaction, goes back.
RollbackDone(c) ==
  /\ busy = "no" /\ c \in rolling /\ status[c] = "ok"
  /\ rolling' = rolling \ {c}
  /\ \/ /\ stop_requested
        /\ Destroy(c)
        /\ UNCHANGED <<pool, requests, client, conn>>
     \/ /\ ~stop_requested
        /\ txn' = [txn EXCEPT ![c] = FALSE]
        /\ HandOver(c, client, conn)
        /\ UNCHANGED status
  /\ UNCHANGED <<conns_alive, cooling, stop_requested, has_active_transaction,
                 loopVars, leaked>>

\* The connection is lost first: exec throws past return_connection.
RollbackFails(c) ==
  /\ busy = "no" /\ c \in rolling /\ status[c] = "bad"
  /\ rolling' = rolling \ {c}
  /\ Destroy(c)
  /\ leaked' = leaked + 1
  /\ UNCHANGED <<poolVars, client, conn, has_active_transaction, loopVars>>

-----------------------------------------------------------------------------
\* Fault: the queued requests are not rejected.
OnStopForgetsWaiters ==
  /\ busy = "no" /\ ~stop_requested
  /\ stop_requested' = TRUE
  /\ status' = [c \in Conns |-> IF c \in ToSet(pool) THEN "none" ELSE status[c]]
  /\ pool' = <<>>
  /\ UNCHANGED <<txn, requests, conns_alive, cooling, client, conn,
                 has_active_transaction, rolling, loopVars, leaked>>

\* connection_pool::on_stop.
OnStop ==
  /\ busy = "no" /\ ~stop_requested
  /\ stop_requested' = TRUE
  /\ status' = [c \in Conns |-> IF c \in ToSet(pool) THEN "none" ELSE status[c]]
  /\ pool' = <<>>
  /\ client' = [r \in Reqs |-> IF r \in ToSet(requests) THEN "refused" ELSE client[r]]
  /\ requests' = <<>>
  /\ UNCHANGED <<txn, conns_alive, cooling, conn, has_active_transaction, rolling,
                 loopVars, leaked>>

\* The server or the network drops a connection.
LoseConnection(c) ==
  /\ status[c] = "ok"
  /\ status' = [status EXCEPT ![c] = "bad"]
  /\ UNCHANGED <<txn, poolVars, clientVars, loopVars, leaked>>

CooldownElapses ==
  /\ cooling /\ cooling' = FALSE
  /\ UNCHANGED <<status, txn, pool, requests, conns_alive, stop_requested,
                 clientVars, loopVars, leaked>>

PoolStep ==
  \/ PruneBad \/ PruneDone
  \/ \E c \in Conns : CreateConnection(c)
  \/ CreateFails
  \/ PopulateReturns \/ RefuseRequest \/ QueueRequest \/ TakeIdle

HandlerStep(r) ==
  \/ Resume(r) \/ GiveUp(r)
  \/ Release(r) \/ StartRollback(r) \/ RollbackCannotStart(r)

RollbackStep(c) == RollbackDone(c) \/ RollbackFails(c)

Next ==
  \/ PoolStep
  \/ \E r \in Reqs : GetConnection(r) \/ GetAfterStop(r) \/ HandlerStep(r)
  \/ \E r \in Reqs : Transaction(r) \/ TransactionReplyLost(r)
                     \/ EndTransaction(r) \/ CommitFails(r)
  \/ \E c \in Conns : RollbackStep(c) \/ LoseConnection(c)
  \/ OnStop
  \/ CooldownElapses

Spec == Init /\ [][Next]_vars

\* The thread goes on (a blocking connect returns, the event loop resumes what
\* is queued), the server answers or drops a ROLLBACK, and a handler that was
\* resumed finishes and destroys its connection.  Nothing else is promised:
\* nobody has to ask for a connection, and the cooldown alone changes nothing.
Fairness ==
  /\ WF_vars(PoolStep)
  /\ \A r \in Reqs : SF_vars(HandlerStep(r))
  /\ \A c \in Conns : SF_vars(RollbackStep(c))

FairSpec == Spec /\ Fairness

-----------------------------------------------------------------------------
(***************************************************************************)
(* Properties                                                              *)
(***************************************************************************)

ClientStates == {"idle", "calling", "waiting", "granted", "holding", "refused"}

\* Types and ranges; conns_alive never leaves 0 .. conns_desired, so the
\* size_t of pq.cc:68 never wraps and the database never sees more connections
\* of a worker than the config allows.
TypeOK ==
  /\ status \in [Conns -> {"none", "ok", "bad"}]
  /\ txn \in [Conns -> BOOLEAN]
  /\ pool \in Seq(Conns) /\ requests \in Seq(Reqs)
  /\ conns_alive \in 0..conns_desired
  /\ cooling \in BOOLEAN /\ stop_requested \in BOOLEAN
  /\ client \in [Reqs -> ClientStates]
  /\ conn \in [Reqs -> Conns \cup {NoConn}]
  /\ has_active_transaction \in [Reqs -> BOOLEAN]
  /\ rolling \in SUBSET Conns
  /\ busy \in {"no", "prune", "populate"} /\ caller \in Reqs \cup {NoReq}
  /\ left \in 0..conns_desired /\ had_failure \in BOOLEAN
  /\ leaked \in Nat

\* Each queued future belongs to one suspended get_connection and each
\* suspended get_connection has its future queued once: no future is set twice
\* (the assertion of future.cc:6) and no waiter is forgotten by the queue.
FutureSetOnce ==
  /\ IsInjective(requests)
  /\ \A r \in Reqs : client[r] = "waiting" <=> r \in ToSet(requests)

\* Every open connection is in exactly one place: idle once, or held by one
\* handler, or rolling back.  Two handlers never share a PGconn, none is used
\* after PQfinish, and none stays open with nobody to close it.
SingleOwner ==
  /\ Open = ToSet(pool) \cup Held \cup rolling
  /\ ToSet(pool) \cap Held = {}
  /\ (ToSet(pool) \cup Held) \cap rolling = {}
  /\ IsInjective(pool)
  /\ \A q, r \in Holders : conn[q] = conn[r] => q = r

\* Until on_stop, conns_alive counts the open connections and, for ever, those
\* whose ROLLBACK failed: every other way to lose one is accounted for.
AliveCount ==
  ~stop_requested => conns_alive = Cardinality(Open) + leaked

\* A transaction left open by one handler never reaches the next: what is idle
\* or freshly granted has none, and a handler that does not know of one only
\* has one on a connection it cannot use any more.
NoInheritedTransaction ==
  /\ \A c \in ToSet(pool) : ~txn[c]
  /\ \A r \in Holders :
       /\ client[r] = "granted" => ~txn[conn[r]] /\ ~has_active_transaction[r]
       /\ txn[conn[r]] => has_active_transaction[r] \/ status[conn[r]] = "bad"

\* A connection is never left idle while somebody waits for one, whatever the
\* order of returns, losses and repopulations.
NoIdleWhileWaiting == requests # <<>> => pool = <<>>

\* The pool serves at most conns_desired handlers at a time, in the order in
\* which they had to queue, and turns a queued one away only in on_stop.
Fifo == INSTANCE FifoResource WITH
  Clients <- Reqs, Units <- conns_desired,
  served <- Holders, queue <- requests, closed <- stop_requested

ImplementsFifo == Fifo!FifoSpec

\* A handler suspended on its future is resumed, unless the pool loses its last
\* connection first: nothing but a new request then creates one.
Starved == ~stop_requested /\ Open = {}

WaitersAnswered ==
  \A r \in Reqs : client[r] = "waiting" ~> (client[r] # "waiting" \/ Starved)

=============================================================================
