----------------------------- MODULE KimEditing -----------------------------
(***************************************************************************)
(* The tasks of a kim and the times of a group, edited by several          *)
(* administrators at a time: the page of the kim                           *)
(* (ui/src/pages/admin/kims/edit.tsx), and the route that saves what it    *)
(* sends (api/routes/kims.cc).                                             *)
(*                                                                         *)
(* A page knows positions of its own: the indices of the list it was       *)
(* given.  Of every task that was moved or removed it sends the position   *)
(* it believes the server to have, and the new one.  The server takes the  *)
(* former for the names of the rows' positions, and moves the rows.  Of    *)
(* the group it sends the fields that differ, and the server merges them   *)
(* into its row.                                                           *)
(*                                                                         *)
(* An update is one step: its first statement locks the row of the kim     *)
(* until the transaction ends (kims.sql, insert or update KIM), so updates *)
(* of one kim exclude each other.  When a page saves is the matter of      *)
(* SyncController; here a task or a field differs, or it does not.         *)
(***************************************************************************)
EXTENDS Lists, GroupDialog

CONSTANTS Tasks, Editors,
          Compiled,   \* the tasks a kim may have at first: a set of sets
          Budgets     \* bound: edits of all pages, steps in dialogs, steps at the list of tasks

ASSUME KimEditingAssumption ==
  /\ IsFiniteSet(Tasks) /\ Compiled \subseteq SUBSET Tasks
  /\ Budgets \subseteq [page : Nat, dialog : Nat, list : Nat]

VARIABLES
  kim,       \* kims, kims_tasks and the row of the group in groups_kims
  page,      \* the page of each editor
  edits,     \* what may still happen, of Budgets
  disturbed, \* history: editors whose tasks or group another one changed
  unsure     \* history: editors whose update was saved, but who were not told

vars == <<kim, page, edits, disturbed, unsure>>

Gone == -1
NoTasks == [t \in {} |-> [curr |-> Gone, swap |-> Gone]]
NoUpdate == [tasks |-> NoTasks, group |-> NoFields]

Members(k) == {t \in Tasks : k.pos[t] # Gone}

\* GET_KIM_TASKS_REQUEST
Order(k) ==
  CHOOSE s \in [1..Cardinality(Members(k)) -> Members(k)] :
    \A i, j \in DOMAIN s : i < j => k.pos[s[i]] < k.pos[s[j]]

-----------------------------------------------------------------------------
\* user_pos_remap and introduced_pos: a position that one of the named tasks had
\* is the one its row has, or 0 if it has none (operator[] of db_positions); the
\* others come after the count record.
Remap(k, update, p) ==
  LET Had(q) == {t \in DOMAIN update : q # Gone /\ update[t].curr = q}
      introduced == {q \in {update[t].swap : t \in DOMAIN update} : q # Gone /\ Had(q) = {}}
      owner == CHOOSE t \in Had(p) : TRUE
  IN IF Had(p) # {} THEN IF k.pos[owner] = Gone THEN 0 ELSE k.pos[owner]
     ELSE k.end + Cardinality({q \in introduced : q < p})

\* handle_kim_update up to the commit.
Moved(k, update) ==
  LET named == DOMAIN update.tasks
      kept == {update.tasks[t].curr : t \in named} \cup {Gone}
      introduced == {update.tasks[t].swap : t \in named} \ kept
      After(t) ==
        IF t \notin named THEN k.pos[t]
        ELSE LET u == update.tasks[t]
             IN IF u.swap # Gone THEN Remap(k, update.tasks, u.swap)
                ELSE IF u.curr = Gone THEN k.pos[t] ELSE Gone
  IN [end |-> k.end + Cardinality(introduced),
      pos |-> [t \in Tasks |-> After(t)],
      row |-> Merged(k.row, update.group)]

\* What the update is refused for: a task that is none (FOREIGN KEY (task_id)),
\* UNIQUE (kim_id, pos), checked by COMMIT, and a row that is not sane.
Unique(k) ==
  /\ \A s, t \in Members(k) : k.pos[s] = k.pos[t] => s = t
  /\ \A t \in Members(k) : k.pos[t] # k.end
Accepted(k, update) ==
  /\ DOMAIN update.tasks \subseteq Tasks /\ Unique(Moved(k, update))
  /\ update.group = NoFields \/ Sane(Merged(k.row, update.group))

-----------------------------------------------------------------------------
\* handle_kim_get_editable, and mount: the positions are the indices.
Opened(k) ==
  LET order == Order(k)
      index == [t \in ToSet(order) |-> IndexOf(order, t) - 1]
      entry == [f \in Fields |-> k.row[f]]
  IN [list |-> FreshList(order), local |-> index, remote |-> index,
      entry |-> entry, entryRemote |-> entry,
      group |-> IF k.row.given THEN "shown" ELSE "none", dialog |-> Closed,
      sent |-> NoUpdate, outcome |-> "none", again |-> FALSE]

\* serialize of what differs.
Serialized(p) ==
  [tasks |-> [t \in {t \in DOMAIN p.local : p.local[t] # p.remote[t]} |->
                [curr |-> p.remote[t], swap |-> p.local[t]]],
   group |-> Restrict(p.entry, {f \in Fields : p.entry[f] # p.entryRemote[f]})]

Idle(p) == p.sent = NoUpdate
AllSaved(p) == Idle(p) /\ Serialized(p) = NoUpdate

\* onDeltaChange: a change is sent at once, or after the request in flight.
OnDeltaChange(p) ==
  IF Idle(p) THEN [p EXCEPT !.sent = Serialized(p)] ELSE [p EXCEPT !.again = TRUE]

\* OrderedSetComponent::swap
SwapTasks(p, i, j) ==
  LET a == p.list.comps[i]  b == p.list.comps[j]
  IN OnDeltaChange([p EXCEPT !.list = SwapComponents(@, i, j),
                             !.local[a] = p.local[b], !.local[b] = p.local[a]])

\* OrderedSetComponent::pop
PopTask(p, i) ==
  OnDeltaChange([p EXCEPT !.list = PopComponent(@, i), !.local[p.list.comps[i]] = Gone])

\* Fault: what the page has now is committed.
CommittedNow(p) ==
  [p EXCEPT !.remote = [t \in DOMAIN @ |->
                          IF t \in DOMAIN p.sent.tasks THEN p.local[t] ELSE @[t]],
            !.entryRemote = Overriding(p.sent.group, @)]

\* commit of what was sent.
Committed(p) ==
  [p EXCEPT !.remote = [t \in DOMAIN @ |->
                          IF t \in DOMAIN p.sent.tasks THEN p.sent.tasks[t].swap ELSE @[t]],
            !.entryRemote = Overriding(p.sent.group, @)]

\* The request is over; the next round of the loop, if there was a change.
NextRound(p) ==
  LET over == [p EXCEPT !.sent = NoUpdate, !.outcome = "none", !.again = FALSE]
  IN IF p.again THEN OnDeltaChange(over) ELSE over

-----------------------------------------------------------------------------
\* A kim that has some tasks, between whose rows others were removed before, and
\* maybe the group.
Init ==
  /\ \E order \in {SetToSeq(S) : S \in Compiled}, given \in BOOLEAN :
       kim = [end |-> 2 * Len(order),
              pos |-> [t \in Tasks |-> IF t \in ToSet(order)
                                       THEN 2 * IndexOf(order, t) - 1 ELSE Gone],
              row |-> IF given
                      THEN [NoRow EXCEPT !.given = TRUE, !.start = DefaultTime,
                                         !.end = DefaultTime + Minute, !.duration = Minute]
                      ELSE NoRow]
  /\ page = [e \in Editors |-> Opened(kim)]
  /\ edits \in Budgets
  /\ disturbed = {} /\ unsure = {}

\* The page is left, or reloaded whatever is unsaved, and opened again.
Reopen(e) ==
  /\ page[e] # Opened(kim)
  /\ Idle(page[e])
  /\ page' = [page EXCEPT ![e] = Opened(kim)]
  /\ disturbed' = disturbed \ {e} /\ unsure' = unsure \ {e}
  /\ UNCHANGED <<kim, edits>>

Edit(e, kind, p) ==
  /\ edits[kind] > 0
  /\ page' = [page EXCEPT ![e] = p]
  /\ edits' = [edits EXCEPT ![kind] = @ - 1]
  /\ UNCHANGED <<kim, disturbed, unsure>>

\* The buttons of the row of t, which are enabled by the place it was told of.
MoveUp(e, t) ==
  LET place == page[e].list.place[t]
  IN ~place.isFirst /\ Edit(e, "page", SwapTasks(page[e], place.i, place.i - 1))

MoveDown(e, t) ==
  LET place == page[e].list.place[t]
  IN ~place.isLast /\ Edit(e, "page", SwapTasks(page[e], place.i, place.i + 1))

RemoveTask(e, t) == Edit(e, "page", PopTask(page[e], page[e].list.place[t].i))

\* The dialog is opened, one of its inputs changed, and its contents are saved or not.
OpenDialog(e) ==
  /\ page[e].group = "shown" /\ ~page[e].dialog.open
  /\ Edit(e, "dialog", [page[e] EXCEPT !.dialog = Opening(page[e].entry)])

ChangeInput(e) ==
  LET dialog == page[e].dialog
  IN /\ dialog.open
     /\ \E input \in {"start", "end", "duration", "virtual"} :
        \E value \in CASE input = "duration" -> Durations
                       [] input = "virtual" -> BOOLEAN
                       [] OTHER -> Inputs :
          LET typed == [dialog EXCEPT ![input] = value]
              changed == Changed(typed, input)
          IN /\ value # dialog[input]
             /\ Edit(e, "dialog", [page[e] EXCEPT !.dialog =
                       IF changed = {} THEN typed ELSE CHOOSE d \in changed : TRUE])

SaveDialog(e) ==
  LET entry == SavedEntry(page[e].dialog, page[e].entry)
      closed == [page[e] EXCEPT !.dialog = Closed, !.entry = entry]
  IN /\ page[e].dialog.open
     /\ page' = [page EXCEPT ![e] = IF entry = page[e].entry THEN closed
                                    ELSE OnDeltaChange(closed)]
     /\ UNCHANGED <<kim, edits, disturbed, unsure>>

\* The group is added to the kim or removed; one that was removed is not added
\* again by the same page.
AddGroup(e) ==
  /\ page[e].group = "none"
  /\ Edit(e, "dialog", OnDeltaChange([page[e] EXCEPT !.group = "shown",
             !.entry.start = DefaultTime, !.entry.end = DefaultTime]))

RemoveGroup(e) ==
  /\ page[e].group = "shown" /\ ~page[e].dialog.open
  /\ Edit(e, "dialog", OnDeltaChange([page[e] EXCEPT !.group = "removed", !.entry.deleted = TRUE]))

-----------------------------------------------------------------------------
\* The update of page e is handled; it may fail for other reasons, too.
Handle(e) ==
  LET moved == Moved(kim, page[e].sent)
  IN /\ ~Idle(page[e]) /\ page[e].outcome = "none"
     /\ \/ /\ Accepted(kim, page[e].sent)
           /\ kim' = moved
           /\ page' = [page EXCEPT ![e].outcome = "ok"]
           /\ disturbed' = disturbed \cup (Editors \ {e})
        \/ /\ page' = [page EXCEPT ![e].outcome = "error"]
           /\ UNCHANGED <<kim, disturbed>>
     /\ UNCHANGED <<edits, unsure>>

Answered(e) ==
  /\ page[e].outcome = "ok"
  /\ page' = [page EXCEPT ![e] = NextRound(Committed(@))]
  /\ UNCHANGED <<kim, edits, disturbed, unsure>>

\* An error, or no answer at all.
NotAnswered(e) ==
  /\ page[e].outcome \in {"ok", "error"}
  /\ page' = [page EXCEPT ![e] = NextRound(@)]
  /\ unsure' = IF page[e].outcome = "ok" THEN unsure \cup {e} ELSE unsure
  /\ UNCHANGED <<kim, edits, disturbed>>

\* The list of tasks adds a selection, in the order in which it was made
\* (tasks/list.tsx): tasks that are there already go to the end.
AddSelection(selection) ==
  LET update == [NoUpdate EXCEPT !.tasks =
                   [t \in ToSet(selection) |->
                      [curr |-> Gone, swap |-> IndexOf(selection, t) - 1]]]
  IN /\ Accepted(kim, update) /\ kim' = Moved(kim, update)
     /\ disturbed' = disturbed \cup
          {e \in Editors : ToSet(selection) \cap DOMAIN page[e].local # {}}
     /\ UNCHANGED <<page, unsure>>

EditorNext ==
  \E e \in Editors :
    \/ \E t \in ToSet(page[e].list.comps) : MoveUp(e, t) \/ MoveDown(e, t) \/ RemoveTask(e, t)
    \/ OpenDialog(e) \/ ChangeInput(e) \/ SaveDialog(e) \/ AddGroup(e) \/ RemoveGroup(e)
    \/ Reopen(e) \/ Handle(e) \/ Answered(e) \/ NotAnswered(e)

-----------------------------------------------------------------------------
\* When all changes of a page are saved, the tasks of the kim are in the order in
\* which the page shows them, whatever was added meanwhile, and the group has the
\* times that it shows, unless another administrator changed what the page shows
\* or the answer to an update was lost.
SavedIsShown ==
  \A e \in Editors \ (disturbed \cup unsure) :
    LET rows == page[e].list.rows
    IN AllSaved(page[e]) =>
      /\ ToSet(rows) = Members(kim) \cap DOMAIN page[e].local
      /\ \A i, j \in DOMAIN rows : i < j => kim.pos[rows[i]] < kim.pos[rows[j]]
      /\ kim.row.given = (page[e].group = "shown")
      /\ kim.row.given => \A f \in Fields : kim.row[f] = page[e].entry[f]

\* What a page sends is refused only if another administrator's update came first,
\* or an update of its own was saved and the answer lost.
SaveAccepted ==
  \A e \in Editors \ (disturbed \cup unsure) :
    page[e].outcome = "none" => Accepted(kim, page[e].sent)

=============================================================================
