------------------------- MODULE SessionStoreProofs -------------------------
(***************************************************************************)
(* Proofs about SessionStore for any number of logins and requests.        *)
(***************************************************************************)
EXTENDS SessionStore, TLAPS

\* While the collection scans, every session of the root it will replace is
\* still to be visited, is kept, or was dropped for one of the two reasons; and
\* the root does not change under it, because write_lock is held.
ScanIsFaithful ==
  gc = "scan" => \A s \in root_node :
                   s \in gc_todo \cup gc_new \cup seen_idle \/ logged_out[s]

\* A late request carries a session that is logged out.
LateIsLoggedOut == \A r \in Reqs : late[r] => user[r] \in Sessions /\ logged_out[user[r]]

IInv == TypeOK /\ NoSessionLost /\ LogoutIsFinal /\ ScanIsFaithful /\ LateIsLoggedOut

LEMMA InitIInv == Init => IInv
  BY StoreAssumption
  DEF Init, IInv, TypeOK, NoSessionLost, LogoutIsFinal, ScanIsFaithful, LateIsLoggedOut

LEMMA NextIInv == IInv /\ [Next]_vars => IInv'
<1> SUFFICES ASSUME IInv, [Next]_vars PROVE IInv'
  OBVIOUS
<1> USE StoreAssumption DEF IInv, gcVars, reqVars
<1>1. ASSUME NEW s \in Sessions, SaveLocks(s) PROVE IInv'
  <2> USE <1>1 DEF SaveLocks
  <2>1. TypeOK'
    BY DEF TypeOK
  <2>2. NoSessionLost' /\ ScanIsFaithful'
    BY DEF NoSessionLost, ScanIsFaithful, TypeOK
  <2>3. LogoutIsFinal' /\ LateIsLoggedOut'
    BY DEF LogoutIsFinal, LateIsLoggedOut, TypeOK
  <2> QED
    BY <2>1, <2>2, <2>3
<1>2. ASSUME NEW s \in Sessions, SavePublishes(s) PROVE IInv'
  <2> USE <1>2 DEF SavePublishes
  <2>1. TypeOK'
    BY DEF TypeOK
  <2>2. NoSessionLost' /\ ScanIsFaithful'
    BY DEF NoSessionLost, ScanIsFaithful, TypeOK
  <2>3. LogoutIsFinal' /\ LateIsLoggedOut'
    BY DEF LogoutIsFinal, LateIsLoggedOut, TypeOK
  <2> QED
    BY <2>1, <2>2, <2>3
<1>3. ASSUME NEW s \in Sessions, SaveUnlocks(s) PROVE IInv'
  <2> USE <1>3 DEF SaveUnlocks
  <2>1. TypeOK'
    BY DEF TypeOK
  <2>2. NoSessionLost' /\ ScanIsFaithful'
    BY DEF NoSessionLost, ScanIsFaithful, TypeOK
  <2>3. LogoutIsFinal' /\ LateIsLoggedOut'
    BY DEF LogoutIsFinal, LateIsLoggedOut, TypeOK
  <2> QED
    BY <2>1, <2>2, <2>3
<1>4. ASSUME GcLocks PROVE IInv'
  <2> USE <1>4 DEF GcLocks
  <2>1. TypeOK'
    BY DEF TypeOK
  <2>2. NoSessionLost' /\ ScanIsFaithful'
    BY DEF NoSessionLost, ScanIsFaithful, TypeOK
  <2>3. LogoutIsFinal' /\ LateIsLoggedOut'
    BY DEF LogoutIsFinal, LateIsLoggedOut, TypeOK
  <2> QED
    BY <2>1, <2>2, <2>3
<1>5. ASSUME GcLoads PROVE IInv'
  <2> USE <1>5 DEF GcLoads
  <2>1. TypeOK'
    BY DEF TypeOK
  <2>2. NoSessionLost' /\ ScanIsFaithful'
    BY DEF NoSessionLost, ScanIsFaithful, TypeOK
  <2>3. LogoutIsFinal' /\ LateIsLoggedOut'
    BY DEF LogoutIsFinal, LateIsLoggedOut, TypeOK
  <2> QED
    BY <2>1, <2>2, <2>3
<1>6. ASSUME NEW s \in Sessions, GcVisits(s) PROVE IInv'
  <2> USE <1>6 DEF GcVisits
  <2>1. TypeOK'
    BY DEF TypeOK
  <2>2. NoSessionLost' /\ ScanIsFaithful'
    BY DEF NoSessionLost, ScanIsFaithful, TypeOK
  <2>3. LogoutIsFinal' /\ LateIsLoggedOut'
    BY DEF LogoutIsFinal, LateIsLoggedOut, TypeOK
  <2> QED
    BY <2>1, <2>2, <2>3
<1>7. ASSUME GcPublishes PROVE IInv'
  <2> USE <1>7 DEF GcPublishes
  <2>1. TypeOK'
    BY DEF TypeOK
  <2>2. NoSessionLost' /\ ScanIsFaithful'
    BY DEF NoSessionLost, ScanIsFaithful, TypeOK
  <2>3. LogoutIsFinal' /\ LateIsLoggedOut'
    BY DEF LogoutIsFinal, LateIsLoggedOut, TypeOK
  <2> QED
    BY <2>1, <2>2, <2>3
<1>8. ASSUME NEW r \in Reqs, NEW s \in Sessions, Begin(r, s) PROVE IInv'
  <2> USE <1>8 DEF Begin
  <2>1. TypeOK'
    BY DEF TypeOK
  <2>2. NoSessionLost' /\ ScanIsFaithful'
    BY DEF NoSessionLost, ScanIsFaithful, TypeOK
  <2>3. LogoutIsFinal' /\ LateIsLoggedOut'
    BY DEF LogoutIsFinal, LateIsLoggedOut, TypeOK
  <2> QED
    BY <2>1, <2>2, <2>3
<1>9. ASSUME NEW r \in Reqs, Walk(r) PROVE IInv'
  <2> USE <1>9 DEF Walk
  <2>1. TypeOK'
    BY DEF TypeOK
  <2>2. NoSessionLost' /\ ScanIsFaithful'
    BY DEF NoSessionLost, ScanIsFaithful, TypeOK
  <2>3. LogoutIsFinal' /\ LateIsLoggedOut'
    BY DEF LogoutIsFinal, LateIsLoggedOut, TypeOK
  <2> QED
    BY <2>1, <2>2, <2>3
<1>10. ASSUME NEW r \in Reqs, Check(r) PROVE IInv'
  <2> USE <1>10 DEF Check
  <2>1. TypeOK'
    BY DEF TypeOK
  <2>2. NoSessionLost' /\ ScanIsFaithful'
    BY DEF NoSessionLost, ScanIsFaithful, TypeOK
  <2>3. LogoutIsFinal' /\ LateIsLoggedOut'
    BY DEF LogoutIsFinal, LateIsLoggedOut, TypeOK
  <2> QED
    BY <2>1, <2>2, <2>3
<1>11. ASSUME NEW r \in Reqs, Touch(r) PROVE IInv'
  <2> USE <1>11 DEF Touch
  <2>1. TypeOK'
    BY DEF TypeOK
  <2>2. NoSessionLost' /\ ScanIsFaithful'
    BY DEF NoSessionLost, ScanIsFaithful, TypeOK
  <2>3. LogoutIsFinal' /\ LateIsLoggedOut'
    BY DEF LogoutIsFinal, LateIsLoggedOut, TypeOK
  <2> QED
    BY <2>1, <2>2, <2>3
<1>12. ASSUME NEW r \in Reqs, Logout(r) PROVE IInv'
  <2> USE <1>12 DEF Logout
  <2>1. TypeOK'
    BY DEF TypeOK
  <2>2. NoSessionLost' /\ ScanIsFaithful'
    BY DEF NoSessionLost, ScanIsFaithful, TypeOK
  <2>3. LogoutIsFinal' /\ LateIsLoggedOut'
    BY DEF LogoutIsFinal, LateIsLoggedOut, TypeOK
  <2> QED
    BY <2>1, <2>2, <2>3
<1>13. ASSUME NEW r \in Reqs, Over(r) PROVE IInv'
  <2> USE <1>13 DEF Over
  <2>1. TypeOK'
    BY DEF TypeOK
  <2>2. NoSessionLost' /\ ScanIsFaithful'
    BY DEF NoSessionLost, ScanIsFaithful, TypeOK
  <2>3. LogoutIsFinal' /\ LateIsLoggedOut'
    BY DEF LogoutIsFinal, LateIsLoggedOut, TypeOK
  <2> QED
    BY <2>1, <2>2, <2>3
<1>14. ASSUME NEW s \in Sessions, BecomesIdle(s) PROVE IInv'
  <2> USE <1>14 DEF BecomesIdle
  <2>1. TypeOK'
    BY DEF TypeOK
  <2>2. NoSessionLost' /\ ScanIsFaithful'
    BY DEF NoSessionLost, ScanIsFaithful, TypeOK
  <2>3. LogoutIsFinal' /\ LateIsLoggedOut'
    BY DEF LogoutIsFinal, LateIsLoggedOut, TypeOK
  <2> QED
    BY <2>1, <2>2, <2>3
<1>15. ASSUME UNCHANGED vars PROVE IInv'
  <2> USE <1>15 DEF vars
  <2>1. TypeOK'
    BY DEF TypeOK
  <2>2. NoSessionLost' /\ ScanIsFaithful'
    BY DEF NoSessionLost, ScanIsFaithful, TypeOK
  <2>3. LogoutIsFinal' /\ LateIsLoggedOut'
    BY DEF LogoutIsFinal, LateIsLoggedOut, TypeOK
  <2> QED
    BY <2>1, <2>2, <2>3
<1> QED
  BY <1>1, <1>2, <1>3, <1>4, <1>5, <1>6, <1>7, <1>8, <1>9, <1>10, <1>11, <1>12, <1>13, <1>14, <1>15
  DEF Next, SaveStep, GcStep, ReqStep

LEMMA Invariance == Spec => []IInv
<1>1. Init => IInv
  BY InitIInv
<1>2. IInv /\ [Next]_vars => IInv'
  BY NextIInv
<1> QED
  BY <1>1, <1>2, PTL DEF Spec

\* The variables have their types and write_lock protects what it is meant to.
THEOREM TypeCorrect == Spec => []TypeOK
<1>1. IInv => TypeOK
  BY DEF IInv
<1> QED
  BY <1>1, Invariance, PTL

\* However logins, requests and collections interleave, the store only forgets
\* sessions that were logged out or seen idle.
THEOREM SessionsSurvive == Spec => []NoSessionLost
<1>1. IInv => NoSessionLost
  BY DEF IInv
<1> QED
  BY <1>1, Invariance, PTL

\* No request that begins after a logout is allowed under that session.
THEOREM LogoutHolds == Spec => []LogoutIsFinal
<1>1. IInv => LogoutIsFinal
  BY DEF IInv
<1> QED
  BY <1>1, Invariance, PTL
=============================================================================
