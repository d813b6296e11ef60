--------------------------- MODULE SyncController ---------------------------
(***************************************************************************)
(* Saving the edits of a page (ui/src/utils/sync-controller.ts), and what  *)
(* a navigation that leaves the page waits for (future.ts, router.ts).     *)
(*                                                                         *)
(* The page is one thread: an edit runs from the setter to the end of      *)
(* onDeltaChange, or to its request; the answer runs from there to the     *)
(* next request, or to the end of onDeltaChange and of the navigation that *)
(* waits for it.  Nothing covers the page while it is being left, so it    *)
(* can still be edited then.                                               *)
(*                                                                         *)
(* A request either reaches the server and is answered, or does not reach  *)
(* it, or reaches it and its answer is lost; the page cannot tell the last *)
(* two apart.  A request fails as a whole (a transaction on the server).   *)
(***************************************************************************)
EXTENDS Diffable

CONSTANTS Content,   \* what the server has when the page is opened
          Defaulted, \* scalars mount() may fill in before edits are saved
          New,       \* entries the server does not have yet
          MaxEdits   \* bound: edits of one visit

ASSUME SyncAssumption ==
  /\ Content \in [Cells -> Values]
  /\ Defaulted \subseteq Scalars
  /\ New \subseteq Entries
  /\ MaxEdits \in Nat

VARIABLES
  copy,              \* the local copy
  server,            \* what the server has
  handlerInProgress,
  updateWhileSave,
  lastFields,
  updateNotifier,    \* the status of the future
  statusElem,        \* "", "saving" or "unsaved"
  sent,              \* the request in flight: what it carries and its delta
  navigation,        \* "none", or "waiting" in synchronize
  added,             \* entries of New that the user added
  page,              \* "open", "left", "left_anyway" (the user was asked)
  edits,             \* edits the user may still make
  deltaCalled,       \* history: an edit was noticed
  unsure,            \* history: cells of requests whose answers were lost
  threw              \* history: clear() threw, and onDeltaChange with it

saveVars == <<copy, handlerInProgress, updateWhileSave, lastFields, updateNotifier,
              statusElem, sent>>
serverVars == <<server, unsure>>
userVars == <<navigation, page, edits, added>>
vars == <<saveVars, serverVars, userVars, deltaCalled, threw>>

NoCells == [c \in {} |-> CHOOSE v \in Values : TRUE]
Nothing == [carried |-> NoCells, delta |-> NoCells]

-----------------------------------------------------------------------------
\* mount(): defaults are set while supressSave is on, so they only reach the copy
\* and updateWhileSave.
Init ==
  /\ \E filled \in [Defaulted -> Values] :
       LET changed == {c \in Defaulted : filled[c] # Content[c]}
       IN /\ copy = [Fresh(Content) EXCEPT
               !.local = [c \in Cells |-> IF c \in Defaulted THEN filled[c] ELSE Content[c]],
               !.delta = changed, !.fields = Cardinality(changed)]
          /\ updateWhileSave = (changed # {})
  /\ server = Content
  /\ handlerInProgress = FALSE
  /\ lastFields = 0
  /\ updateNotifier = "CLEAR"
  /\ statusElem = ""
  /\ sent = Nothing
  /\ navigation = "none" /\ page = "open"
  /\ edits = MaxEdits /\ added = {}
  /\ deltaCalled = FALSE /\ unsure = {} /\ threw = FALSE

-----------------------------------------------------------------------------
\* The body of the loop of onDeltaChange, up to the request.
Iterate(d) ==
  /\ updateWhileSave' = FALSE
  /\ IF d.fields = 0
     THEN /\ statusElem' = ""
          /\ handlerInProgress' = FALSE
          /\ sent' = Nothing
     ELSE /\ statusElem' = "saving"
          /\ handlerInProgress' = TRUE
          /\ sent' = [carried |-> Serialized(d), delta |-> CommitDelta(d)]

\* Fault: an edit during a request is not noted.
EditUnnoted(d) ==
  IF handlerInProgress
  THEN UNCHANGED <<handlerInProgress, updateWhileSave, updateNotifier, statusElem, sent, threw>>
  ELSE updateNotifier' = "CLEAR" /\ Iterate(d) /\ UNCHANGED threw

\* A change to d is noted by the handler that runs, or starts one.
NoteOrStart(d) ==
  \/ /\ handlerInProgress
     /\ updateWhileSave' = TRUE
     /\ UNCHANGED <<handlerInProgress, updateNotifier, statusElem, sent, threw>>
  \/ /\ ~handlerInProgress /\ updateNotifier = "AWAITING"
     /\ updateWhileSave' = TRUE /\ threw' = TRUE
     /\ UNCHANGED <<handlerInProgress, updateNotifier, statusElem, sent>>
  \/ /\ ~handlerInProgress /\ updateNotifier # "AWAITING"
     /\ updateNotifier' = "CLEAR"
     /\ Iterate(d)
     /\ UNCHANGED threw

\* onDeltaChange, called by an edit that made the copy d.
OnDeltaChange(d) ==
  /\ deltaCalled' = TRUE
  /\ lastFields' = d.fields
  /\ NoteOrStart(d)

\* The user changes the copy to d; told says whether onDeltaChange is called.
Edit(d, told) ==
  /\ page = "open" /\ edits > 0
  /\ edits' = edits - 1
  /\ copy' = d
  /\ IF told
     THEN OnDeltaChange(d)
     ELSE UNCHANGED <<handlerInProgress, updateWhileSave, lastFields, updateNotifier,
                      statusElem, sent, deltaCalled, threw>>
  /\ UNCHANGED <<serverVars, navigation, page>>

Present == (Entries \ New) \cup added

Assign(c, v) ==
  /\ c \in EntryCells => c[1] \in Present
  /\ Edit(Assigned(copy, c, v), Tells(copy, c, v))
  /\ UNCHANGED added

\* SetComponent::push: an entry with the server's defaults is added, and then
\* given its first values (two of them) in the same atomic change.
Add(e, a1, v1, a2, v2) ==
  LET c1 == <<e, a1>>  c2 == <<e, a2>>
  IN /\ e \notin Present
     /\ Edit(AssignedTogether(copy, c1, v1, c2, v2),
             Tells(copy, c1, v1) \/ Tells(SetAttr(copy, c1, v1), c2, v2))
     /\ added' = added \cup {e}

\* OrderedSetComponent::swap of two entries.
Swap(e1, e2, a) ==
  LET c1 == <<e1, a>>  c2 == <<e2, a>>
      v1 == copy.local[c2]  v2 == copy.local[c1]
  IN /\ {e1, e2} \subseteq Present
     /\ Edit(AssignedTogether(copy, c1, v1, c2, v2),
             Tells(copy, c1, v1) \/ Tells(SetAttr(copy, c1, v1), c2, v2))
     /\ UNCHANGED added

\* SyncController::asAtomicChange around two setters: the calls they make are
\* held back, and one is made at the end.
AtomicChange(c1, v1, c2, v2) ==
  LET d == Assigned(copy, c1, v1)
  IN /\ c1[1] \in Present
     /\ Edit(Assigned(d, c2, v2), Tells(copy, c1, v1) \/ Tells(d, c2, v2))
     /\ UNCHANGED added

-----------------------------------------------------------------------------
\* Fault: a failure counts as saved.
NavigationEndsAnyway(synchronized) ==
  IF navigation = "none" THEN UNCHANGED <<navigation, page>>
  ELSE navigation' = "none" /\ page' = IF page = "open" THEN "left" ELSE page

\* The end of the navigation that waits, when the future is resolved (TRUE) or
\* rejected (FALSE): goTo goes on, or the user is asked.
NavigationEnds(synchronized) ==
  IF navigation = "none" THEN UNCHANGED <<navigation, page>>
  ELSE /\ navigation' = "none"
       /\ page' \in IF page # "open" THEN {page}
                    ELSE IF synchronized THEN {"left"} ELSE {"open", "left_anyway"}

\* resolveWith and rejectWith; without them nobody is told.
Settle(how) ==
  /\ updateNotifier' = IF updateNotifier = "AWAITING" THEN "FULFILLED" ELSE how
  /\ NavigationEnds(how = "RESOLVED")

NoSettle == UNCHANGED <<updateNotifier, navigation, page>>

HandlerEnds(text) ==
  /\ statusElem' = text /\ handlerInProgress' = FALSE /\ sent' = Nothing
  /\ UNCHANGED updateWhileSave

\* Fault: what the copy holds now is committed, not what was sent.
CommittedNow == Commit(copy, CommitDelta(copy))

\* commit(commitDelta)
Committed == Commit(copy, sent.delta)

Answered ==
  LET d == Committed
      changed == d.fields # copy.fields   \* commit calls onDeltaChange
  IN /\ copy' = d
     /\ IF updateWhileSave THEN NoSettle ELSE Settle("RESOLVED")
     /\ lastFields' = CASE changed -> d.fields
                        [] ~changed /\ ~updateWhileSave -> 0
                        [] OTHER -> lastFields
     /\ deltaCalled' = (deltaCalled \/ changed)
     /\ IF updateWhileSave \/ changed THEN Iterate(d) ELSE HandlerEnds("")

\* Fault: who waits is not told of a failure.
FailedSilently ==
  /\ NoSettle
  /\ UNCHANGED <<copy, lastFields, deltaCalled>>
  /\ IF updateWhileSave THEN Iterate(copy) ELSE HandlerEnds("unsaved")

\* Fault: the text is cleared as after a success.
FailedUnreported ==
  /\ IF updateWhileSave THEN NoSettle ELSE Settle("REJECTED")
  /\ UNCHANGED <<copy, lastFields, deltaCalled>>
  /\ IF updateWhileSave THEN Iterate(copy) ELSE HandlerEnds("")

Failed ==
  /\ IF updateWhileSave THEN NoSettle ELSE Settle("REJECTED")
  /\ UNCHANGED <<copy, lastFields, deltaCalled>>
  /\ IF updateWhileSave THEN Iterate(copy) ELSE HandlerEnds("unsaved")

\* The request is over, in one of three ways.
RequestSucceeds ==
  /\ handlerInProgress
  /\ server' = Overwritten(server, sent.carried)
  /\ unsure' = unsure \ DOMAIN sent.carried
  /\ Answered
  /\ UNCHANGED <<edits, added, threw>>

RequestFails ==
  /\ handlerInProgress
  /\ Failed
  /\ UNCHANGED <<serverVars, edits, added, threw>>

AnswerIsLost ==
  /\ handlerInProgress
  /\ server' = Overwritten(server, sent.carried)
  /\ unsure' = unsure \cup DOMAIN sent.carried
  /\ Failed
  /\ UNCHANGED <<edits, added, threw>>

-----------------------------------------------------------------------------
\* goTo calls unmount, which calls synchronize, at any time and again while an
\* earlier navigation waits.  A future that was awaited before cannot be awaited:
\* wait throws, which counts as a failure to save.
Navigate ==
  /\ page = "open"
  /\ \/ /\ lastFields = 0
        /\ page' = "left"
        /\ UNCHANGED <<navigation, updateNotifier>>
     \/ /\ lastFields # 0 /\ updateNotifier = "CLEAR"
        /\ updateNotifier' = "AWAITING"
        /\ navigation' = "waiting"
        /\ UNCHANGED page
     \/ /\ lastFields # 0 /\ updateNotifier \in {"AWAITING", "FULFILLED"}
        /\ page' \in {"open", "left_anyway"}
        /\ UNCHANGED <<navigation, updateNotifier>>
     \/ /\ lastFields # 0 /\ updateNotifier \in {"RESOLVED", "REJECTED"}
        /\ updateNotifier' = "FULFILLED"
        /\ page' \in IF updateNotifier = "RESOLVED" THEN {"left"} ELSE {"open", "left_anyway"}
        /\ UNCHANGED navigation
  /\ UNCHANGED <<copy, handlerInProgress, updateWhileSave, lastFields, statusElem, sent,
                 serverVars, edits, added, deltaCalled, threw>>

Next ==
  \/ \E c \in Cells, v \in Values : Assign(c, v)
  \/ \E e1, e2 \in Entries, a \in Attrs : e1 # e2 /\ Swap(e1, e2, a)
  \/ \E e \in Entries, a1, a2 \in Attrs, v1, v2 \in Values :
       /\ a1 # a2
       /\ \/ AtomicChange(<<e, a1>>, v1, <<e, a2>>, v2)
          \/ Add(e, a1, v1, a2, v2)
  \/ RequestSucceeds \/ RequestFails \/ AnswerIsLost
  \/ Navigate

\* Every request comes to an end; nobody need edit or leave.
Spec ==
  /\ Init /\ [][Next]_vars
  /\ WF_vars(RequestSucceeds \/ RequestFails \/ AnswerIsLost)

-----------------------------------------------------------------------------
\* The counts by which the copy decides whether there is anything to save agree
\* with its cells, through edits during a request and changes back and forth.
CountsAreExact == Exact(copy)

\* What the page believes the server to have, the server has, unless a request
\* that reached it failed for the page.
RemoteIsServer == \A c \in Cells \ unsure : copy.remote[c] = server[c]

Saved == \A c \in Cells \ unsure : copy.local[c] = server[c]

\* When nothing is being saved and isSynchronized() holds, every edit is saved:
\* no edit is dropped between two requests.
SynchronizedIsSaved ==
  (deltaCalled /\ ~handlerInProgress /\ lastFields = 0) => Saved

\* An edit that is neither saved nor being saved is reported as such.
UnsavedIsReported ==
  (deltaCalled /\ ~handlerInProgress /\ ~Saved /\ ~threw) => statusElem = "unsaved"

\* A page that is left without a question is saved, or is still being saved.
SilentLeave ==
  [][page = "open" /\ page' = "left" /\ deltaCalled' => Saved' \/ handlerInProgress']_vars

\* A navigation ends when the requests do, unless the edits it waits for were
\* undone meanwhile and a request failed: then nobody is left to settle the future.
Forgotten ==
  ~handlerInProgress /\ updateNotifier = "AWAITING" /\ (lastFields = 0 \/ threw)

NavigationsEnd == (navigation = "waiting") ~> (navigation = "none" \/ Forgotten)

\* clear() is not called while the future is awaited ("Cannot clear awaiting
\* future", future.ts:66).
ClearNeverThrows == ~threw
=============================================================================
