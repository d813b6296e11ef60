------------------------------- MODULE KimDesk -------------------------------
(***************************************************************************)
(* Administrators at the page of a kim, and one at the list of tasks, from *)
(* which a selection is added to that kim.                                 *)
(***************************************************************************)
EXTENDS KimEditing

CONSTANT Matches
VARIABLES live, table, requests, removals, recycled

ASSUME DeskAssumption ==
  "1" \in DOMAIN Matches /\ \A f \in DOMAIN Matches : Matches[f] \subseteq Tasks

TaskList == INSTANCE TaskSelect

listVars == <<live, table, requests, removals, recycled>>
deskVars == <<vars, listVars>>

DeskInit == Init /\ TaskList!SelectInit

\* The button of the page of all tasks, up to the redirect when it succeeds; the
\* page is new when it is opened again.
AddToKim ==
  /\ table.addable
  /\ AddSelection(table.selection)
  /\ table' = TaskList!Asked(TaskList!Constructed, "1")
  /\ requests' = {TaskList!RequestOf(TaskList!Asked(TaskList!Constructed, "1"))}
  /\ recycled' = FALSE
  /\ UNCHANGED <<edits, live, removals>>

AtTheList ==
  \/ /\ edits.list > 0
     /\ edits' = [edits EXCEPT !.list = @ - 1]
     /\ TaskList!UserStep
     /\ UNCHANGED <<kim, page, disturbed, unsure>>
  \/ TaskList!ServerStep /\ UNCHANGED vars
  \/ AddToKim

DeskNext == (EditorNext /\ UNCHANGED listVars) \/ AtTheList

DeskSpec == DeskInit /\ [][DeskNext]_deskVars

SelectionIsShown == TaskList!SelectionIsShown
ShownIsLastFilter == TaskList!ShownIsLastFilter
=============================================================================
