---------------------------- MODULE IdAllocator ----------------------------
(***************************************************************************)
(* What the server promises to the administrators' pages that create kims, *)
(* tasks and attachments: every answer gives ids that nobody was given     *)
(* before, whoever asks and however often.                                 *)
(***************************************************************************)
EXTENDS Integers

CONSTANT Owners

VARIABLE given   \* the ids each owner was given

AllocInit == given = [s \in Owners |-> {}]

\* s is given some ids more; none of them was given to anyone.
Allocate(s) ==
  LET ids == given'[s] \ given[s] IN
  /\ ids # {}
  /\ \A t \in Owners : ids \cap given[t] = {}
  /\ given' = [given EXCEPT ![s] = @ \cup ids]

AllocNext == \E s \in Owners : Allocate(s)

AllocSpec == AllocInit /\ [][AllocNext]_given
=============================================================================
