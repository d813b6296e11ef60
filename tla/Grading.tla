------------------------------ MODULE Grading ------------------------------
(***************************************************************************)
(* What is typed into the cells of an answer, the bytes it becomes on the  *)
(* page of the contestant (ui/src/pages/solve.tsx) and on that of the      *)
(* administrator (ui/src/components/answer-table.tsx), and the score they  *)
(* give (api/src/routes/grading.cc).                                       *)
(*                                                                         *)
(* A cell is a sequence of characters.  What TextEncoder makes of a        *)
(* character is one byte or two, and a JavaScript string counts it as one. *)
(***************************************************************************)
EXTENDS Integers, SequencesExt, FiniteSetsExt, TLC

CONSTANT Characters   \* of the answers: "a", "A", or a Cyrillic letter

Wide == Characters \ {"a", "A", "b"}

Zero == "zero"

\* encode, and decode of what may be cut.
Utf8(cell) == FlattenSeq([i \in DOMAIN cell |->
                IF cell[i] \in Wide THEN <<<<cell[i], 1>>, <<cell[i], 2>>>> ELSE <<cell[i]>>])
Decoded(bytes) ==
  LET Starts(i) == i < Len(bytes) /\ \E c \in Wide : bytes[i] = <<c, 1>> /\ bytes[i + 1] = <<c, 2>>
      Char(i) == IF bytes[i] \in Characters THEN <<bytes[i]>>
                 ELSE IF Starts(i) THEN <<bytes[i][1]>>
                 ELSE IF i > 1 /\ Starts(i - 1) THEN <<>> ELSE <<"?">>
  IN FlattenSeq([i \in DOMAIN bytes |-> Char(i)])

\* encodeInto: the characters that fit are written at an offset.
EncodedInto(result, offset, cell) ==
  LET fits == {n \in 0..Len(cell) : offset + Len(Utf8(SubSeq(cell, 1, n))) <= Len(result)}
      bytes == Utf8(SubSeq(cell, 1, Max(fits)))
  IN [i \in DOMAIN result |->
       IF i - offset \in DOMAIN bytes THEN bytes[i - offset] ELSE result[i]]

Offset(cells, j) == MapThenSumSet(LAMBDA i : Len(cells[i]) + 1, 1..(j - 1))

\* Fault: cells are put together without a zero between them.
Concatenated(cells) == FlattenSeq([i \in DOMAIN cells |-> Utf8(cells[i])])

\* The loop that both pages have: room for the lengths of the strings, and a zero
\* between every two.
Joined(cells) ==
  LET n == Len(cells)
      room == [i \in 1..(Offset(cells, n + 1) - 1) |-> Zero]
  IN FoldLeft(LAMBDA result, j : EncodedInto(result, Offset(cells, j), cells[j]),
              room, [j \in 1..n |-> j])

\* The answer of the contestant, of one cell or more.
Encoded(cells) ==
  IF Len(cells) = 1 THEN Utf8(cells[1])
  ELSE IF \A i \in DOMAIN cells : cells[i] = <<>> THEN <<>> ELSE Joined(cells)

\* updateComputedAnswer: the answer of the administrator.
ComputedAnswer(cells) == Joined(cells)

\* Where the part that begins at i ends.
EndOfPart(bytes, i) == Min({j \in i..Len(bytes) : bytes[j] = Zero} \cup {Len(bytes) + 1})

\* split, of check_and_grade; flushAnswers does the same.
Parts(bytes) ==
  LET Starts == {1} \cup {i + 1 : i \in {j \in DOMAIN bytes : bytes[j] = Zero}}
      starts == SetToSortSeq(Starts \cap DOMAIN bytes, <)
  IN [i \in DOMAIN starts |-> SubSeq(bytes, starts[i], EndOfPart(bytes, starts[i]) - 1)]

\* flushAnswers: cells for which there is no part are left as they are.
Flushed(cells, bytes) ==
  IF Len(cells) = 1 THEN <<Decoded(bytes)>>
  ELSE [i \in DOMAIN cells |->
         IF i \in DOMAIN Parts(bytes) THEN Decoded(Parts(bytes)[i]) ELSE cells[i]]

\* createElement of AnswerTable: every cell has a part, or none.
ParsedAnswer(bytes, n) ==
  [i \in 1..n |-> IF i \in DOMAIN Parts(bytes) THEN Decoded(Parts(bytes)[i]) ELSE <<>>]

\* What createElement makes of the stored answer, whether or not a cell is changed.
Reopened(bytes, n) == ComputedAnswer(ParsedAnswer(bytes, n))

Lower(byte) == IF byte = "A" THEN "a" ELSE byte

\* INDEPENDENT_SWAP_PENALTY of two parts, in halves.
Swapped(user, jury) ==
  IF user = jury THEN 2
  ELSE IF user = Reverse(jury) \/ user[1] = jury[1] \/ user[2] = jury[2] THEN 1 ELSE 0

\* check_and_grade: what is right, and of how much.
check_and_grade(user, jury, policy) ==
  LET ofUser == Parts(user)  ofJury == Parts(jury)
      two == IF Len(ofUser) = 1 THEN Append(ofUser, <<>>) ELSE ofUser
      One(right) == <<IF right THEN 1 ELSE 0, 1>>
  IN CASE policy = "FULL_MATCH_CASE_SENSITIVE" -> One(user = jury)
       [] policy = "FULL_MATCH" ->
            One(Len(user) = Len(jury) /\ \A i \in DOMAIN user : Lower(user[i]) = Lower(jury[i]))
       [] policy = "INDEPENDENT" ->
            <<Cardinality({i \in DOMAIN ofUser \cap DOMAIN ofJury : ofUser[i] = ofJury[i]}),
              Len(ofJury)>>
       [] policy = "INDEPENDENT_SWAP_PENALTY" ->
            <<IF Len(two) = 2 /\ Len(ofJury) = 2 THEN Swapped(two, ofJury) ELSE 0, 2>>

-----------------------------------------------------------------------------
\* The score that cells deserve, by the cells themselves.
Deserved(typed, right, policy) ==
  LET matching == {i \in DOMAIN right : typed[i] = right[i]}
      LowerCell(cell) == [i \in DOMAIN cell |-> Lower(cell[i])]
  IN CASE policy = "FULL_MATCH_CASE_SENSITIVE" -> <<IF typed = right THEN 1 ELSE 0, 1>>
       [] policy = "FULL_MATCH" ->
            <<IF \A i \in DOMAIN right : LowerCell(typed[i]) = LowerCell(right[i]) THEN 1 ELSE 0, 1>>
       [] policy = "INDEPENDENT" -> <<Cardinality(matching), Len(right)>>
       [] policy = "INDEPENDENT_SWAP_PENALTY" ->
            <<IF typed = right THEN 2
              ELSE IF typed = Reverse(right) \/ matching # {} THEN 1 ELSE 0, 2>>
=============================================================================
