----------------------------- MODULE TaskSelect -----------------------------
(***************************************************************************)
(* The table of tasks from which a selection is made                       *)
(* (ui/src/components/task-select.tsx, ui/src/utils/selection-controller), *)
(* as the page of all tasks uses it (ui/src/pages/admin/tasks/list.tsx).   *)
(*                                                                         *)
(* The filter may be changed while answers for earlier ones are under way; *)
(* an answer counts if the epoch is still that of its request.  The epoch  *)
(* is 0 when nothing is being loaded, so numbers are used again.           *)
(*                                                                         *)
(* JavaScript's sets keep the order of insertion, and are sequences here.  *)
(***************************************************************************)
EXTENDS Lists, FiniteSets

CONSTANTS Tasks,
          Matches   \* the tasks each filter is for; "1" is the one of the beginning

VARIABLES
  live,      \* tasks the server lists
  table,     \* the component and its selection controller
  requests,  \* lists under way, with the answer when there is one
  removals,  \* bulk-delete requests under way
  recycled   \* history: an epoch was given to two requests that were under way

Filters == DOMAIN Matches

Nowhere == FreshList(<<>>)

Add(s, x) == IF Contains(s, x) THEN s ELSE Append(s, x)

Delete(s, x) == IF Contains(s, x) THEN RemoveAt(s, IndexOf(s, x)) ELSE s

-----------------------------------------------------------------------------
\* What sendSelectionUpdate does after the event.
BulkBox(t) ==
  LET sup == Len(t.elements)  sub == Len(t.selection)
  IN [partly |-> sub # 0 /\ sub # sup, checked |-> sup # 0 /\ sub = sup, disabled |-> sup = 0]

\* Rows that are no elements any more are popped, from the last on.
PopRows(t) ==
  LET n == Len(t.list.comps)
      seen[k \in 0..n] ==
        IF k = 0 THEN t.list
        ELSE LET i == n + 1 - k
             IN IF Contains(t.elements, t.list.comps[i]) THEN seen[k - 1]
                ELSE PopComponent(seen[k - 1], i)
  IN seen[n]

\* The listeners of BulkSelectionChangeEvent: the table's, and the page's.
Listeners(t, isDOMReflected) ==
  LET list == IF isDOMReflected \/ t.body # "rows" THEN t.list ELSE PopRows(t)
  IN [t EXCEPT
        !.removable = t.selection # <<>>, !.addable = t.selection # <<>>,
        !.list = list,
        !.ticked = IF isDOMReflected \/ t.body # "rows" THEN @
                   ELSE ToSet(t.selection) \cap ToSet(list.comps)]

SendSelectionUpdate(t, isDOMReflected) ==
  LET told == Listeners(t, isDOMReflected) IN [told EXCEPT !.bulk = BulkBox(told)]

NotifySingle(t, x, state) ==
  SendSelectionUpdate(
    [t EXCEPT !.selection = IF state THEN Add(@, x) ELSE Delete(@, x)], TRUE)

ClearSelection(t, isDOMReflected) ==
  SendSelectionUpdate([t EXCEPT !.selection = <<>>], isDOMReflected)

SelectAll(t) == SendSelectionUpdate([t EXCEPT !.selection = t.elements], FALSE)

SetElements(t, elements) == SendSelectionUpdate([t EXCEPT !.elements = elements], TRUE)

PopElement(t, x) ==
  SendSelectionUpdate([t EXCEPT !.elements = Delete(@, x), !.selection = Delete(@, x)], TRUE)

-----------------------------------------------------------------------------
\* setFilter up to its request; filter is history.
Asked(t, f) ==
  LET cleared == IF t.epoch # 0 THEN t
                 ELSE [SetElements(ClearSelection(t, TRUE), <<>>)
                         EXCEPT !.body = "loading", !.list = Nowhere, !.ticked = {}]
  IN [cleared EXCEPT !.epoch = @ + 1, !.filter = f]

\* The component as the page makes it, and the page's first setFilter.
Constructed ==
  [epoch |-> 1, filter |-> "1", of |-> "1", body |-> "loading", list |-> Nowhere, ticked |-> {},
   elements |-> <<>>, selection |-> <<>>, removable |-> FALSE, addable |-> FALSE,
   bulk |-> [partly |-> FALSE, checked |-> FALSE, disabled |-> TRUE]]

RequestOf(t) == [epoch |-> t.epoch, filter |-> t.filter, outcome |-> "none", tasks |-> <<>>]

\* What an answer does that counts; of is history.
Received(t, filter, tasks) ==
  [SetElements([t EXCEPT !.epoch = 0], tasks)
     EXCEPT !.list = FreshList(tasks), !.body = "rows", !.of = filter,
            !.ticked = ToSet(t.selection) \cap ToSet(tasks)]

\* The page is open, and shows its first list.
SelectInit ==
  /\ live = Tasks
  /\ table = Received(Asked(Constructed, "1"), "1", SetToSeq(Matches["1"]))
  /\ requests = {} /\ removals = {} /\ recycled = FALSE

\* Of two equal requests under way, one is left out.
SetFilter(f) ==
  LET asked == Asked(table, f)
  IN /\ table' = asked
     /\ requests' = requests \cup {RequestOf(asked)}
     /\ recycled' = (recycled \/ \E r \in requests : r.epoch = asked.epoch)
     /\ UNCHANGED <<live, removals>>

\* Fault: every answer counts.
IsCurrent(r) == TRUE

\* The comparison of loadingEpoch with currentEpoch.
Current(r) == table.epoch = r.epoch

\* The rest of setFilter.
Receive(r) ==
  /\ r.outcome # "none"
  /\ requests' = requests \ {r}
  /\ table' = CASE ~Current(r) -> table
                [] Current(r) /\ r.outcome = "error" -> [table EXCEPT !.epoch = 0, !.body = "error"]
                [] Current(r) /\ r.outcome = "ok" -> Received(table, r.filter, r.tasks)
  /\ UNCHANGED <<live, removals, recycled>>

\* handle_list, or a request that fails.
Serve(r) ==
  /\ r.outcome = "none"
  /\ \E served \in {[r EXCEPT !.outcome = "ok", !.tasks = SetToSeq(Matches[r.filter] \cap live)],
                    [r EXCEPT !.outcome = "error"]} :
       requests' = (requests \ {r}) \cup {served}
  /\ UNCHANGED <<live, table, removals, recycled>>

-----------------------------------------------------------------------------
\* The checkboxes of the rows and the one of the head.
Tick(x) ==
  /\ Contains(table.list.rows, x)
  /\ LET state == x \notin table.ticked
         ticked == IF state THEN table.ticked \cup {x} ELSE table.ticked \ {x}
     IN table' = NotifySingle([table EXCEPT !.ticked = ticked], x, state)
  /\ UNCHANGED <<live, requests, removals, recycled>>

TickAll ==
  /\ ~table.bulk.disabled
  /\ table' = IF table.bulk.checked THEN ClearSelection(table, FALSE) ELSE SelectAll(table)
  /\ UNCHANGED <<live, requests, removals, recycled>>

\* The delete button of a row.
DeleteRow(x) ==
  /\ Contains(table.list.rows, x)
  /\ LET popped == [table EXCEPT !.list = PopComponent(@, table.list.place[x].i),
                                 !.ticked = @ \ {x}]
     IN table' = PopElement(popped, x)
  /\ removals' = removals \cup {{x}}
  /\ UNCHANGED <<live, requests, recycled>>

\* Fault: the rows are left.
DeletedUnreflected(t) == ClearSelection(FoldLeft(PopElement, t, t.selection), TRUE)

\* What the button in the head does to the table; the event of each popElement is
\* overtaken by that of the last call.
DeletedSelection(t) ==
  LET left[i \in 0..Len(t.selection)] ==
        IF i = 0 THEN t.elements ELSE Delete(left[i - 1], t.selection[i])
  IN ClearSelection([t EXCEPT !.elements = left[Len(t.selection)]], FALSE)

DeleteSelected ==
  /\ table.removable
  /\ table' = DeletedSelection(table)
  /\ removals' = removals \cup {ToSet(table.selection)}
  /\ UNCHANGED <<live, requests, recycled>>

\* handle_bulk_delete, which may fail.
BulkDelete(set) ==
  /\ removals' = removals \ {set}
  /\ live' \in {live, live \ set}
  /\ UNCHANGED <<table, requests, recycled>>

UserStep ==
  \/ \E f \in Filters : SetFilter(f)
  \/ \E x \in Tasks : Tick(x) \/ DeleteRow(x)
  \/ TickAll \/ DeleteSelected

ServerStep ==
  \/ \E r \in requests : Serve(r) \/ Receive(r)
  \/ \E set \in removals : BulkDelete(set)

-----------------------------------------------------------------------------
\* verifyConsistency; the boxes of the rows and the one of the head show the
\* selection, and a button works if there is one.
SelectionIsShown ==
  /\ ToSet(table.selection) \subseteq ToSet(table.elements)
  /\ IsInjective(table.selection)
  /\ IF table.body = "rows" THEN /\ ToSet(table.list.rows) = ToSet(table.elements)
                                 /\ table.ticked = ToSet(table.selection)
                                 /\ Consistent(table.list)
     ELSE table.elements = <<>>
  /\ table.bulk = BulkBox(table)
  /\ table.removable = (table.selection # <<>>) /\ table.addable = table.removable

\* Rows that are shown are those of the filter chosen last, whatever is under way,
\* unless an epoch was given to two requests at a time.
ShownIsLastFilter ==
  table.body = "rows" /\ ~recycled => table.of = table.filter
=============================================================================
