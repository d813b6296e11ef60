---------------------------- MODULE SessionStore ----------------------------
(***************************************************************************)
(* The sessions of logged-in users, shared by all workers                  *)
(* (api/routes/session.cc): logins store them, requests look them up       *)
(* without a lock, and an hourly collection drops the ones that are logged *)
(* out or were idle for too long.                                          *)
(*                                                                         *)
(* The trie is persistent: save and gc_dfs build new nodes and publish a   *)
(* new root, so a root is the set of the sessions reachable from it.  A    *)
(* session_id is 32 random bytes: no two logins have the same one, and the *)
(* exception of session.cc:133 is out of the model.  Workers are threads:  *)
(* every read or write of an atomic is a step of its own.                  *)
(***************************************************************************)
EXTENDS Integers, FiniteSets

CONSTANTS Sessions,  \* one for each login
          Reqs,      \* requests that call require_auth
          NoSession

ASSUME StoreAssumption ==
  /\ NoSession \notin Sessions
  /\ "free" \notin Sessions /\ "gc" \notin Sessions

VARIABLES
  root_node,
  write_lock,   \* "free", "gc", or the session being saved
  logged_out,
  idle,         \* last_activity is more than session_logout_afk_time ago
  login,        \* where save(s) is
  gc_summoned,
  gc,           \* "off", "armed" (the timeout is set), "locked", "scan"
  gc_todo,      \* what the collection has still to look at
  gc_new,       \* what it keeps
  req,          \* where a require_auth call, or the logout after it, is
  user,         \* the session whose id the request's cookie has
  late,         \* history: the call began when the session was logged out
  seen_idle     \* history: the collection saw the session idle

gcVars == <<gc_summoned, gc, gc_todo, gc_new, seen_idle>>
reqVars == <<req, user, late>>
vars == <<root_node, write_lock, logged_out, idle, login, gcVars, reqVars>>

-----------------------------------------------------------------------------
Init ==
  /\ root_node = {} /\ write_lock = "free"
  /\ logged_out = [s \in Sessions |-> FALSE]
  /\ idle = [s \in Sessions |-> FALSE]
  /\ login = [s \in Sessions |-> "none"]
  /\ gc_summoned = FALSE /\ gc = "off" /\ gc_todo = {} /\ gc_new = {}
  /\ req = [r \in Reqs |-> "none"]
  /\ user = [r \in Reqs |-> NoSession]
  /\ late = [r \in Reqs |-> FALSE]
  /\ seen_idle = {}

\* save takes write_lock ...
SaveLocks(s) ==
  /\ login[s] = "none" /\ write_lock = "free"
  /\ write_lock' = s
  /\ login' = [login EXCEPT ![s] = "locked"]
  /\ UNCHANGED <<root_node, logged_out, idle, gcVars, reqVars>>

\* ... publishes the root with the session ...
SavePublishes(s) ==
  /\ login[s] = "locked"
  /\ root_node' = root_node \cup {s}
  /\ idle' = [idle EXCEPT ![s] = FALSE]
  /\ login' = [login EXCEPT ![s] = "published"]
  /\ UNCHANGED <<write_lock, logged_out, gcVars, reqVars>>

\* ... and lets go of the lock; the first one arms the collection.
SaveUnlocks(s) ==
  /\ login[s] = "published"
  /\ write_lock' = "free"
  /\ login' = [login EXCEPT ![s] = "done"]
  /\ gc_summoned' = TRUE
  /\ gc' = IF gc_summoned THEN gc ELSE "armed"
  /\ UNCHANGED <<root_node, logged_out, idle, gc_todo, gc_new, seen_idle, reqVars>>

-----------------------------------------------------------------------------
\* Fault: run_session_gc does not take write_lock.
GcLocksNothing ==
  /\ gc = "armed"
  /\ gc' = "locked"
  /\ UNCHANGED <<root_node, write_lock, logged_out, idle, login, gc_summoned,
                 gc_todo, gc_new, seen_idle, reqVars>>

\* run_session_gc, an hour later, takes write_lock ...
GcLocks ==
  /\ gc = "armed" /\ write_lock = "free"
  /\ write_lock' = "gc"
  /\ gc' = "locked"
  /\ UNCHANGED <<root_node, logged_out, idle, login, gc_summoned, gc_todo, gc_new,
                 seen_idle, reqVars>>

\* ... loads the root ...
GcLoads ==
  /\ gc = "locked"
  /\ gc_todo' = root_node /\ gc_new' = {}
  /\ gc' = "scan"
  /\ UNCHANGED <<root_node, write_lock, logged_out, idle, login, gc_summoned,
                 seen_idle, reqVars>>

\* ... decides on one session after the other ...
GcVisits(s) ==
  /\ gc = "scan" /\ s \in gc_todo
  /\ gc_todo' = gc_todo \ {s}
  /\ gc_new' = IF logged_out[s] \/ idle[s] THEN gc_new ELSE gc_new \cup {s}
  /\ seen_idle' = IF idle[s] THEN seen_idle \cup {s} ELSE seen_idle
  /\ UNCHANGED <<root_node, write_lock, logged_out, idle, login, gc_summoned, gc,
                 reqVars>>

\* Fault: the timeout is not set again.
GcPublishesOnce ==
  /\ gc = "scan" /\ gc_todo = {}
  /\ root_node' = gc_new
  /\ write_lock' = "free"
  /\ gc' = "off" /\ gc_new' = {}
  /\ UNCHANGED <<logged_out, idle, login, gc_summoned, gc_todo, seen_idle, reqVars>>

\* ... publishes the root of what is kept, and sets the timeout again.
GcPublishes ==
  /\ gc = "scan" /\ gc_todo = {}
  /\ root_node' = gc_new
  /\ write_lock' = "free"
  /\ gc' = "armed" /\ gc_new' = {}
  /\ UNCHANGED <<logged_out, idle, login, gc_summoned, gc_todo, seen_idle, reqVars>>

-----------------------------------------------------------------------------
\* A request arrives with the cookie of a session that login has answered.
Begin(r, s) ==
  /\ req[r] = "none" /\ login[s] = "done"
  /\ req' = [req EXCEPT ![r] = "begun"]
  /\ user' = [user EXCEPT ![r] = s]
  /\ late' = [late EXCEPT ![r] = logged_out[s]]
  /\ UNCHANGED <<root_node, write_lock, logged_out, idle, login, gcVars>>

\* require_auth loads the root and walks down to the session.
Walk(r) ==
  /\ req[r] = "begun"
  /\ req' = [req EXCEPT ![r] = IF user[r] \in root_node THEN "found" ELSE "denied"]
  /\ UNCHANGED <<root_node, write_lock, logged_out, idle, login, gcVars, user, late>>

\* Fault: logged_out is not looked at.
CheckPermsOnly(r) ==
  /\ req[r] = "found"
  /\ \E allowed \in BOOLEAN :
       req' = [req EXCEPT ![r] = IF allowed THEN "checked" ELSE "denied"]
  /\ UNCHANGED <<root_node, write_lock, logged_out, idle, login, gcVars, user, late>>

\* ... checks logged_out and the permissions ...
Check(r) ==
  /\ req[r] = "found"
  /\ \E allowed \in BOOLEAN :
       req' = [req EXCEPT ![r] =
                 IF logged_out[user[r]] \/ ~allowed THEN "denied" ELSE "checked"]
  /\ UNCHANGED <<root_node, write_lock, logged_out, idle, login, gcVars, user, late>>

\* ... and records the activity.
Touch(r) ==
  /\ req[r] = "checked"
  /\ idle' = [idle EXCEPT ![user[r]] = FALSE]
  /\ req' = [req EXCEPT ![r] = "allowed"]
  /\ UNCHANGED <<root_node, write_lock, logged_out, login, gcVars, user, late>>

\* handle_user_logout goes on to end the session ...
Logout(r) ==
  /\ req[r] = "allowed"
  /\ logged_out' = [logged_out EXCEPT ![user[r]] = TRUE]
  /\ req' = [req EXCEPT ![r] = "over"]
  /\ UNCHANGED <<root_node, write_lock, idle, login, gcVars, user, late>>

\* ... any other handler does its work; the worker can then take a new request.
Over(r) ==
  /\ req[r] \in {"allowed", "denied", "over"}
  /\ req' = [req EXCEPT ![r] = "none"]
  /\ user' = [user EXCEPT ![r] = NoSession]
  /\ late' = [late EXCEPT ![r] = FALSE]
  /\ UNCHANGED <<root_node, write_lock, logged_out, idle, login, gcVars>>

\* Five hours pass without a request of the user.
BecomesIdle(s) ==
  /\ login[s] \in {"published", "done"} /\ ~idle[s]
  /\ idle' = [idle EXCEPT ![s] = TRUE]
  /\ UNCHANGED <<root_node, write_lock, logged_out, login, gcVars, reqVars>>

SaveStep(s) == SaveLocks(s) \/ SavePublishes(s) \/ SaveUnlocks(s)
GcStep == GcLocks \/ GcLoads \/ (\E s \in Sessions : GcVisits(s)) \/ GcPublishes
ReqStep(r) == Walk(r) \/ Check(r) \/ Touch(r) \/ Over(r)

Next ==
  \/ \E s \in Sessions : SaveStep(s) \/ BecomesIdle(s)
  \/ GcStep
  \/ \E r \in Reqs : ReqStep(r) \/ Logout(r) \/ \E s \in Sessions : Begin(r, s)

Spec == Init /\ [][Next]_vars

\* The lock is passed on, a thread that has it goes on, and an hour passes.
Fairness ==
  /\ SF_vars(GcStep)
  /\ \A s \in Sessions : WF_vars(SavePublishes(s) \/ SaveUnlocks(s))

FairSpec == Spec /\ Fairness

-----------------------------------------------------------------------------
(***************************************************************************)
(* Properties                                                              *)
(***************************************************************************)

\* Types and ranges; whoever is in a critical section of write_lock holds it.
TypeOK ==
  /\ root_node \in SUBSET Sessions
  /\ write_lock \in {"free", "gc"} \cup Sessions
  /\ logged_out \in [Sessions -> BOOLEAN] /\ idle \in [Sessions -> BOOLEAN]
  /\ login \in [Sessions -> {"none", "locked", "published", "done"}]
  /\ gc_summoned \in BOOLEAN /\ gc \in {"off", "armed", "locked", "scan"}
  /\ gc_todo \in SUBSET Sessions /\ gc_new \in SUBSET Sessions
  /\ req \in [Reqs -> {"none", "begun", "found", "checked", "allowed", "denied", "over"}]
  /\ user \in [Reqs -> Sessions \cup {NoSession}]
  /\ \A r \in Reqs : user[r] = NoSession <=> req[r] = "none"
  /\ late \in [Reqs -> BOOLEAN] /\ seen_idle \in SUBSET Sessions
  /\ \A s \in Sessions : login[s] \in {"locked", "published"} <=> write_lock = s
  /\ gc \in {"locked", "scan"} <=> write_lock = "gc"

\* A session that login has answered stays in the store until it is logged out,
\* or the collection sees it idle: neither a concurrent login nor a concurrent
\* collection loses it.
NoSessionLost ==
  \A s \in Sessions :
    login[s] \in {"published", "done"} =>
      s \in root_node \/ logged_out[s] \/ s \in seen_idle

\* A request that begins after the logout was answered is never allowed,
\* whatever root it walks.
LogoutIsFinal ==
  \A r \in Reqs : late[r] => req[r] \notin {"checked", "allowed"}

\* A session that is logged out leaves the memory in the end.
LoggedOutCollected ==
  \A s \in Sessions : logged_out[s] ~> s \notin root_node
=============================================================================
