------------------------------ MODULE MCContest ------------------------------
(***************************************************************************)
(* Two devices of one contestant.  The contest is open for two or three of *)
(* five instants and a participation lasts two, so it may be cut by either *)
(* end.                                                                    *)
(***************************************************************************)
EXTENDS Contest, TLC
CONSTANTS d1, d2
Symmetry == Permutations(Devices)
=============================================================================
