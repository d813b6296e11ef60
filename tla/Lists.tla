-------------------------------- MODULE Lists --------------------------------
(***************************************************************************)
(* The list components of the pages (ui/src/components/lists.ts): the      *)
(* components of the entries, the rows that stand for them in the          *)
(* document, and the place each component was last told of.  An entry and  *)
(* its row have the name of the entry.  Indices start at 1.                *)
(***************************************************************************)
EXTENDS Integers, SequencesExt

IndexOf(s, x) == CHOOSE i \in DOMAIN s : s[i] = x

PositionOf(i, length) == [i |-> i, isFirst |-> i = 1, isLast |-> i = length]

\* The constructor of BasicSetComponent for the entries of s.
FreshList(s) ==
  [rows |-> s, comps |-> s,
   place |-> [x \in ToSet(s) |-> PositionOf(IndexOf(s, x), Len(s))]]

\* dispatchPositionUpdate for the indices of set.
Told(list, set) ==
  [list EXCEPT !.place = [x \in DOMAIN @ |->
     IF \E i \in set : list.comps[i] = x
     THEN PositionOf(IndexOf(list.comps, x), Len(list.comps)) ELSE @[x]]]

\* popComponent: the row and the component of an index go, and all from the one
\* before it on are told.
PopComponent(list, i) ==
  LET comps == RemoveAt(list.comps, i)
      popped == [rows |-> RemoveAt(list.rows, i), comps |-> comps,
                 place |-> [y \in ToSet(comps) |-> list.place[y]]]
  IN Told(popped, {j \in DOMAIN comps : j >= i - 1})

-----------------------------------------------------------------------------
\* What Node does: the sibling after x, and null is <<>>.
NextSibling(rows, x) ==
  LET i == IndexOf(rows, x) IN IF i = Len(rows) THEN <<>> ELSE <<rows[i + 1]>>

Detached(rows, x) == IF Contains(rows, x) THEN RemoveAt(rows, IndexOf(rows, x)) ELSE rows

InsertBefore(rows, x, sibling) ==
  LET rest == Detached(rows, x)
  IN IF sibling = <<>> THEN Append(rest, x)
     ELSE InsertAt(rest, IndexOf(rest, sibling[1]), x)

ReplaceWith(rows, x, y) ==
  LET rest == Detached(rows, y) IN ReplaceAt(rest, IndexOf(rest, x), y)

\* swap, what it does to the document.
SwapRows(rows, i, j) ==
  LET a == rows[i]  b == rows[j]
      afterB == NextSibling(rows, b)
  IN IF afterB = <<a>> THEN InsertBefore(rows, a, <<b>>)
     ELSE InsertBefore(ReplaceWith(rows, a, b), a, afterB)

\* swap, without what it does to currPos.
SwapComponents(list, i, j) ==
  LET comps == [list.comps EXCEPT ![i] = list.comps[j], ![j] = list.comps[i]]
  IN Told([list EXCEPT !.rows = SwapRows(@, i, j), !.comps = comps], {i, j})

\* Rows, components and places agree.
Consistent(list) ==
  /\ list.rows = list.comps
  /\ list.place = FreshList(list.comps).place
=============================================================================
