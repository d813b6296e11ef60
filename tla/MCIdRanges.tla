----------------------------- MODULE MCIdRanges -----------------------------
(***************************************************************************)
(* Two sessions and two handlers, interchangeable; answers of up to three  *)
(* ids, so that the second range of a session (four ids) takes two         *)
(* answers; and a sequence long enough for the first two ranges of one     *)
(* session and either the first of the other or two that are lost.         *)
(***************************************************************************)
EXTENDS IdRanges, TLC

Symmetry == Permutations(Sessions) \cup Permutations(Handlers)
=============================================================================
