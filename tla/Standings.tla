----------------------------- MODULE Standings -----------------------------
(***************************************************************************)
(* The standings of a kim (api/routes/standings.cc) and the page that      *)
(* shows them (ui/src/pages/admin/standings.tsx).  The page asks for       *)
(* everything when another kim is selected, and every minute for what was  *)
(* submitted since, which it tells by a sync tag: one more than the        *)
(* greatest id it has seen.                                                *)
(*                                                                         *)
(* reallyUpdateStandings is not awaited by the loop that calls it, so      *)
(* several requests may be in flight; they reach the server, and their     *)
(* responses the page, in any order.  A submission draws its id when it is *)
(* inserted, takes its time before that, and is visible from its commit    *)
(* on; its score is its id here, so that different submissions differ.     *)
(* One group is selected throughout, and its members and the tasks of a    *)
(* kim stay as they are; the order of the rows and the texts are left out. *)
(***************************************************************************)
EXTENDS Integers, FiniteSetsExt, SequencesExt

CONSTANTS Kims, Users, Tasks,
          TasksOf,      \* the tasks of each kim; kims may share tasks
          NoKim,        \* the empty value of the select
          MaxSubs,      \* bound: submissions
          MaxRequests   \* bound: requests in flight

ASSUME StandingsAssumption ==
  /\ IsFiniteSet(Tasks) /\ TasksOf \in [Kims -> SUBSET Tasks] /\ NoKim \notin Kims
  /\ MaxSubs \in Nat /\ MaxRequests \in Nat

VARIABLES
  subs,      \* users_answers, by id
  selected,  \* kimSelect.value
  syncTag,
  requests,  \* in flight, in the order in which they were sent
  table,     \* what the page knows and shows
  troubled,  \* history: since the last full answer, requests overtook each other,
             \* a full one failed, or an answer could not be shown
  late       \* history: submissions that became visible after one with a greater id

vars == <<subs, selected, syncTag, requests, table, troubled, late>>

Ids == 1..Len(subs)
Committed(kim) == {id \in Ids : subs[id].kim = kim /\ subs[id].committed}

NoScores == [u \in Users |-> [t \in Tasks |-> 0]]
Empty(kim) == [of |-> kim, scores |-> NoScores, cells |-> NoScores,
               total |-> [u \in Users |-> 0]]
NoResponse == [subs |-> {}, tag |-> 0]

\* The installation has a submission.
Init ==
  /\ \E kim \in Kims, user \in Users : \E task \in TasksOf[kim] :
       subs = <<[kim |-> kim, task |-> task, user |-> user, time |-> 1, committed |-> TRUE]>>
  /\ selected = NoKim /\ syncTag = 0 /\ requests = <<>>
  /\ table = Empty(NoKim)
  /\ troubled = FALSE /\ late = {}

-----------------------------------------------------------------------------
\* WRITE_ANSWER_REQUEST of the contestants, up to nextval and from there on.
Insert(kim, task, user, time) ==
  /\ Len(subs) < MaxSubs
  /\ task \in TasksOf[kim] /\ \A id \in Ids : subs[id].time # time
  /\ subs' = Append(subs, [kim |-> kim, task |-> task, user |-> user, time |-> time,
                           committed |-> FALSE])
  /\ UNCHANGED <<selected, syncTag, requests, table, troubled, late>>

CommitInsert(id) ==
  /\ ~subs[id].committed
  /\ subs' = [subs EXCEPT ![id].committed = TRUE]
  /\ late' = IF \E later \in Ids : later > id /\ subs[later].committed
             THEN late \cup {id} ELSE late
  /\ UNCHANGED <<selected, syncTag, requests, table, troubled>>

\* Fault: what is there is kept for another kim, too.
ReallyUpdateKeeping(kim, tag) ==
  /\ Len(requests) < MaxRequests
  /\ requests' = IF kim = NoKim THEN requests
                 ELSE Append(requests, [kim |-> kim, tag |-> syncTag, response |-> NoResponse])
  /\ syncTag' = IF kim = NoKim THEN 0 ELSE 1

\* reallyUpdateStandings up to the request.  While it is in flight the tag is 1.
ReallyUpdate(kim, tag) ==
  /\ Len(requests) < MaxRequests
  /\ requests' = IF kim = NoKim THEN requests
                 ELSE Append(requests, [kim |-> kim, tag |-> tag, response |-> NoResponse])
  /\ syncTag' = IF kim = NoKim THEN 0 ELSE 1

\* updateStandings(true): a select changes, or the user asks for all of it again.
Change(kim) ==
  /\ selected' = kim
  /\ ReallyUpdate(kim, 0)
  /\ UNCHANGED <<subs, table, troubled, late>>

\* updateStandings(false), every 60 seconds.
AutomaticUpdate ==
  /\ ReallyUpdate(selected, syncTag)
  /\ UNCHANGED <<subs, selected, table, troubled, late>>

\* GET_USER_ANSWERS_REQUEST: of each task and user the submission with the latest time.
UserAnswers(kim, min_id) ==
  LET found == {id \in Committed(kim) : id >= min_id}
  IN {id \in found : \A other \in found :
        subs[other].task = subs[id].task /\ subs[other].user = subs[id].user =>
          subs[other].time <= subs[id].time}

\* Fault: the id after the greatest is skipped.
SyncTagTwoFurther(min_id, found) == Max({1, min_id - 1} \cup found) + 2

SyncTag(min_id, found) == Max({1, min_id - 1} \cup found) + 1

Served(request) == request.response.tag # 0
InOrder(i) == \A j \in 1..(i - 1) : Served(requests[j])

\* get_standings
Serve(i) ==
  LET found == UserAnswers(requests[i].kim, requests[i].tag)
  IN /\ ~Served(requests[i])
     /\ requests' = [requests EXCEPT ![i].response =
                       [subs |-> found, tag |-> SyncTag(requests[i].tag, found)]]
     /\ troubled' = (troubled \/ ~InOrder(i))
     /\ UNCHANGED <<subs, selected, syncTag, table, late>>

\* The request is not answered: the tag stays what it is.
Fail(i) ==
  /\ requests' = RemoveAt(requests, i)
  /\ troubled' = (troubled \/ requests[i].tag = 0)
  /\ UNCHANGED <<subs, selected, syncTag, table, late>>

Cell(scores, id) == scores[subs[id].user][subs[id].task]

Fill(scores, shown) ==
  [u \in Users |-> [t \in Tasks |->
    LET new == {id \in shown : subs[id].user = u /\ subs[id].task = t}
    IN IF new = {} THEN scores[u][t] ELSE CHOOSE id \in new : TRUE]]

\* Fault: the score that is replaced stays in the total.
AddedUp(known, shown) ==
  [known EXCEPT !.scores = Fill(@, shown),
                !.total = [u \in Users |-> @[u] +
                  MapThenSumSet(LAMBDA id : id, {id \in shown : subs[id].user = u})]]

\* What the submissions shown add to the total of a user.
Gained(scores, shown, u) ==
  MapThenSumSet(LAMBDA id : id - Cell(scores, id), {id \in shown : subs[id].user = u})

\* The first loop over the submissions: scores and totals.
Scored(known, shown) ==
  [known EXCEPT !.scores = Fill(@, shown),
                !.total = [u \in Users |-> @[u] + Gained(known.scores, shown, u)]]

\* reallyUpdateStandings from the response on.  A tag of 0 says that no kim is
\* selected any more: the assertion fails, and nothing is done.  The first
\* submission to a task the table does not have ends it with an exception, after
\* those before it in the list.
Receive(i) ==
  LET request == requests[i]
      found == request.response.subs
      known == IF request.tag = 0 THEN Empty(request.kim) ELSE table
      fits == {id \in found : known.of # NoKim /\ subs[id].task \in TasksOf[known.of]}
      rest == RemoveAt(requests, i)
  IN /\ Served(request)
     /\ requests' = rest
     /\ \/ /\ syncTag = 0
           /\ UNCHANGED <<syncTag, table, troubled>>
        \/ /\ syncTag # 0 /\ fits = found
           /\ table' = [Scored(known, found) EXCEPT !.cells = Fill(@, found)]
           /\ syncTag' = request.response.tag
           /\ troubled' = IF request.tag = 0 /\ request.kim = selected /\ rest = <<>>
                          THEN FALSE ELSE troubled \/ i # 1
        \/ /\ syncTag # 0 /\ fits # found
           /\ \E before \in SUBSET fits : table' = Scored(known, before)
           /\ syncTag' = request.tag
           /\ troubled' = TRUE
     /\ UNCHANGED <<subs, selected, late>>

Next ==
  \/ \E kim \in Kims, task \in Tasks, user \in Users, time \in 1..MaxSubs :
       Insert(kim, task, user, time)
  \/ \E id \in Ids : CommitInsert(id)
  \/ \E kim \in Kims \cup {NoKim} : Change(kim)
  \/ AutomaticUpdate
  \/ \E i \in DOMAIN requests : Serve(i) \/ Fail(i) \/ Receive(i)

Spec == Init /\ [][Next]_vars

-----------------------------------------------------------------------------
\* No request is in flight, and nothing that the page cannot help went wrong.
Settled == requests = <<>> /\ selected # NoKim /\ ~troubled

\* The table belongs to the kim that is selected, however requests of different
\* selections and automatic ones were mixed, as long as none overtook another.
TableIsOfSelection == Settled => table.of = selected

\* The page's requests never leave a hole: a submission below the tag is shown, or
\* one that has a greater id or a later time.  (Submissions that became visible
\* after one with a greater id are the exception.)
NothingMissing ==
  Settled => \A id \in Committed(selected) \ late :
    id < syncTag => LET shown == Cell(table.cells, id)
                    IN /\ shown # 0
                       /\ ~(shown < id /\ subs[shown].time < subs[id].time)

\* A total is the sum of its row, also when an answer was shown in part or repeated.
TotalsAddUp ==
  \A u \in Users :
    table.total[u] = MapThenSumSet(LAMBDA t : table.scores[u][t], Tasks)

=============================================================================
