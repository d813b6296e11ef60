------------------------------ MODULE Contest ------------------------------
(***************************************************************************)
(* The participation of one contestant in one kim                          *)
(* (api/routes/contestant.cc): several devices, or tabs, read the tasks,   *)
(* which starts a virtual participation, answer with the write token they  *)
(* were given, and end the participation; the administrator moves the end  *)
(* of the contest and revokes the tokens (api/routes/kims.cc).             *)
(*                                                                         *)
(* A handler takes the time before its queries, and each query is a step;  *)
(* users_kims holds at most one row for the contestant and the kim         *)
(* (UNIQUE, db.sql).  A token is signed and cannot be made up.  What       *)
(* get_available_kims does with the other kims of the contestant is left   *)
(* out, as are the texts of tasks and answers.                             *)
(***************************************************************************)
EXTENDS Integers

CONSTANTS Devices,
          Start,       \* groups_kims.start_time
          Ends,        \* the values end_time is given
          Duration,
          MaxTime,     \* bound: the clock
          MaxVersion,  \* bound: how often tokens are revoked
          Null

ASSUME ContestAssumption ==
  /\ Start \in Nat /\ Duration \in Nat /\ MaxTime \in Nat /\ MaxVersion \in Nat
  /\ Ends \subseteq Nat /\ Ends # {} /\ \A e \in Ends : Start < e
  /\ Null \notin Int

VARIABLES
  now,
  is_virtual,
  end_time,       \* groups_kims.end_time
  token_version,  \* kims.token_version
  users_kims,     \* the row of the contestant: its start and end
  request,        \* what the request of each device has reached
  write_token,    \* the token each device holds
  ended,          \* history: the participation was ended
  latest_end,     \* history: the greatest end_time so far
  limit           \* history: the greatest end of the participation since the
                  \* tokens were last revoked

contestVars == <<is_virtual, end_time, token_version>>
vars == <<now, contestVars, users_kims, request, write_token, ended, latest_end, limit>>

NoRow == [start |-> Null, end |-> Null]
NoToken == [version |-> Null, start |-> Null, end |-> Null, after_end |-> FALSE]

\* A request that is not there.  time is current_time; after_end and at_version say
\* when it came.
Idle == [at |-> "idle", time |-> Null, token |-> NoToken, after_end |-> FALSE,
         at_version |-> Null]

Earlier(a, b) == IF a < b THEN a ELSE b
Later(a, b) == IF a < b THEN b ELSE a

-----------------------------------------------------------------------------
\* count_participation_status for the row that was read.
Status(time) ==
  CASE time < Start -> "NOT_STARTED"
    [] time >= end_time -> "FINISHED"
    [] Start <= time /\ time < end_time /\ ~is_virtual -> "IN_PROGRESS"
    [] OTHER -> IF users_kims.start = Null \/ users_kims.end = Null
                THEN "VIRTUAL_STARTABLE"
                ELSE IF users_kims.start <= time /\ time < users_kims.end
                     THEN "IN_PROGRESS" ELSE "FINISHED"

\* Fault: the end of the row is ignored.
TokenForContest(r) ==
  [version |-> token_version, start |-> IF is_virtual THEN users_kims.start ELSE Start,
   end |-> end_time, after_end |-> r.after_end]

\* get_write_token of the row that was read, with the contest's times for NULL.
TokenOf(r) ==
  [version |-> token_version,
   start |-> IF users_kims.start = Null THEN Start ELSE users_kims.start,
   end |-> IF users_kims.end = Null THEN end_time ELSE users_kims.end,
   after_end |-> r.after_end]

\* Fault: the contest may end before the participation.
StartingTokenUnclipped(r) ==
  [version |-> token_version, start |-> r.time, end |-> r.time + Duration,
   after_end |-> r.after_end]

\* The times of a virtual participation that is to begin.
StartingToken(r) ==
  [version |-> token_version, start |-> r.time,
   end |-> Earlier(r.time + Duration, end_time), after_end |-> r.after_end]

InTime(r, token) == token.start <= r.time /\ r.time < token.end

\* The end of the participation as the database has it.
RowEnd(row, end) == IF row = NoRow THEN end ELSE row.end

-----------------------------------------------------------------------------
Init ==
  /\ now = 0
  /\ is_virtual \in BOOLEAN /\ end_time \in Ends /\ token_version = 0
  /\ users_kims = NoRow
  /\ request = [d \in Devices |-> Idle]
  /\ write_token = [d \in Devices |-> NoToken]
  /\ ended = FALSE
  /\ latest_end = end_time /\ limit = end_time

Arrive(d, at, token) ==
  /\ request[d] = Idle
  /\ request' = [request EXCEPT ![d] =
       [at |-> at, time |-> now, token |-> token, after_end |-> ended,
        at_version |-> token_version]]
  /\ UNCHANGED <<now, contestVars, users_kims, write_token, ended, latest_end, limit>>

\* handle_get_tasks up to the time; handle_answer up to the time.
GetTasks(d) == Arrive(d, "tasks", NoToken)
Answer(d) == write_token[d] # NoToken /\ Arrive(d, "answer", write_token[d])

Goes(d, at, token) ==
  request' = [request EXCEPT ![d].at = at, ![d].token = token]

\* utils::err, an exception, or a handler that ends.
Finish(d) == request' = [request EXCEPT ![d] = Idle]

Untouched == UNCHANGED <<now, contestVars, users_kims, ended, latest_end, limit>>

\* AVAILABLE_KIMS_REQUEST of handle_get_tasks.  Without a token the page's is empty.
ReadKim(d) ==
  LET r == request[d]  status == Status(r.time)
  IN /\ r.at = "tasks"
     /\ \/ status = "NOT_STARTED" /\ Finish(d) /\ UNCHANGED write_token
        \/ /\ status = "FINISHED" /\ Finish(d)
           /\ write_token' = [write_token EXCEPT ![d] = NoToken]
        \/ /\ status = "VIRTUAL_STARTABLE" /\ Goes(d, "start", StartingToken(r))
           /\ UNCHANGED write_token
        \/ /\ status = "IN_PROGRESS" /\ Goes(d, "respond", TokenOf(r))
           /\ UNCHANGED write_token
     /\ Untouched

\* START_VIRTUAL_REQUEST, which fails if there is a row.
StartVirtual(d) ==
  LET token == request[d].token
  IN /\ request[d].at = "start"
     /\ IF users_kims = NoRow
        THEN /\ users_kims' = [start |-> token.start, end |-> token.end]
             /\ Goes(d, "respond", token)
             /\ limit' = Later(limit, token.end)
        ELSE Finish(d) /\ UNCHANGED <<users_kims, limit>>
     /\ UNCHANGED <<now, contestVars, write_token, ended, latest_end>>

\* The queries for tasks, attachments and answers, and the response.
Respond(d) ==
  /\ request[d].at = "respond"
  /\ write_token' = [write_token EXCEPT ![d] = request[d].token]
  /\ Finish(d) /\ Untouched

\* Goes on to write the answer if the time is within the token.
CheckTime(d, token) ==
  IF InTime(request[d], token) THEN Goes(d, "write", token) ELSE Finish(d)

\* Fault: the token is good whatever its version.
ReadVersionUnused(d) ==
  /\ request[d].at = "answer"
  /\ CheckTime(d, request[d].token)
  /\ Untouched /\ UNCHANGED write_token

\* GET_TOKEN_VERSION_REQUEST of handle_answer.
ReadVersion(d) ==
  LET token == request[d].token
  IN /\ request[d].at = "answer"
     /\ \/ token.version # token_version /\ Goes(d, "recheck", token)
        \/ token.version = token_version /\ CheckTime(d, token)
     /\ Untouched /\ UNCHANGED write_token

\* AVAILABLE_KIMS_REQUEST of handle_answer, for a token that was revoked.
Recheck(d) ==
  /\ request[d].at = "recheck"
  /\ IF Status(request[d].time) = "IN_PROGRESS"
     THEN CheckTime(d, TokenOf(request[d]))
     ELSE Finish(d)
  /\ Untouched /\ UNCHANGED write_token

\* WRITE_ANSWER_REQUEST; the response carries the token.
Write(d) ==
  /\ request[d].at = "write"
  /\ write_token' = [write_token EXCEPT ![d] = request[d].token]
  /\ Finish(d) /\ Untouched

\* Any query may fail, and any response be lost.
RequestFails(d) ==
  /\ request[d] # Idle
  /\ Finish(d) /\ Untouched /\ UNCHANGED write_token

\* END_PARTICIPATION_REQUEST, from any device and at any time.
EndParticipation ==
  /\ users_kims' = [users_kims EXCEPT !.end = now]
  /\ ended' = TRUE
  /\ limit' = Later(limit, now)
  /\ UNCHANGED <<now, contestVars, request, write_token, latest_end>>

\* revoke_access_keys
Revoke ==
  /\ token_version < MaxVersion
  /\ token_version' = token_version + 1
  /\ limit' = RowEnd(users_kims, end_time)
  /\ UNCHANGED <<now, is_virtual, end_time, users_kims, request, write_token, ended,
                 latest_end>>

\* INSERT_OR_MODIFY_GROUP_ASSIGNMENTS_REQUEST with another end (the start, the
\* duration and virtual stay as they are here).
Reschedule(end) ==
  /\ end # end_time
  /\ end_time' = end
  /\ latest_end' = Later(latest_end, end)
  /\ limit' = Later(limit, RowEnd(users_kims, end))
  /\ UNCHANGED <<now, is_virtual, token_version, users_kims, request, write_token, ended>>

Tick ==
  /\ now < MaxTime
  /\ now' = now + 1
  /\ UNCHANGED <<contestVars, users_kims, request, write_token, ended, latest_end, limit>>

Next ==
  \/ \E d \in Devices :
       \/ GetTasks(d) \/ ReadKim(d) \/ StartVirtual(d) \/ Respond(d)
       \/ Answer(d) \/ ReadVersion(d) \/ Recheck(d) \/ Write(d)
       \/ RequestFails(d)
  \/ EndParticipation \/ Revoke \/ (\E end \in Ends : Reschedule(end)) \/ Tick

Spec == Init /\ [][Next]_vars

-----------------------------------------------------------------------------
Tokens == {NoToken} \cup
  [version : 0..MaxVersion, start : Nat, end : Nat, after_end : BOOLEAN]

Requests == {Idle} \cup
  [at : {"tasks", "start", "respond", "answer", "recheck", "write"}, time : 0..MaxTime,
   token : Tokens, after_end : BOOLEAN, at_version : 0..MaxVersion]

TypeOK ==
  /\ now \in 0..MaxTime
  /\ is_virtual \in BOOLEAN /\ end_time \in Ends /\ token_version \in 0..MaxVersion
  /\ users_kims \in [start : Nat \cup {Null}, end : Nat \cup {Null}]
  /\ request \in [Devices -> Requests]
  /\ write_token \in [Devices -> Tokens]
  /\ ended \in BOOLEAN /\ latest_end \in Ends /\ limit \in Nat

\* The tokens that were given out, or are about to be.
Given == {write_token[d] : d \in Devices}
         \cup {request[d].token : d \in {e \in Devices : request[e].at \in {"respond", "write"}}}

\* An answer that will be written was given during the contest and, in a virtual
\* one, within the duration from the start, or, with the same exception, before
\* the moment at which the participation was ended.
AnswersInTime ==
  \A d \in Devices : request[d].at = "write" =>
    /\ Start <= request[d].time /\ request[d].time < latest_end
    /\ is_virtual =>
         /\ users_kims.start <= request[d].time
         /\ \/ request[d].time < users_kims.start + Duration
            \/ ended /\ request[d].time < users_kims.end

\* A participation that was ended is not taken up again: a token given to a
\* request that came after the end is of no use any more.
EndBinds ==
  \A token \in Given : token # NoToken /\ token.after_end => token.end <= now

\* Revoking the tokens makes every change until then effective: an answer that
\* came after it respects an end that was recorded before it, though the device
\* still has a token with a later one.
RevokedAreRechecked ==
  \A d \in Devices :
    request[d].at = "write" /\ request[d].at_version = token_version =>
      request[d].time < limit
=============================================================================
