---------------------------- MODULE MCStandings ----------------------------
EXTENDS Standings, TLC
CONSTANTS k1, k2, t1, t2, u1, u2
\* The kims share a task, and only one has another.
MCTasksOf == k1 :> {t1, t2} @@ k2 :> {t2}
Symmetry == Permutations(Users)
=============================================================================
