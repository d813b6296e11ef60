-------------------------- MODULE MCSessionStore --------------------------
(***************************************************************************)
(* Two logins, two concurrent requests that are repeated for ever, and the *)
(* collection.                                                             *)
(***************************************************************************)
EXTENDS SessionStore
=============================================================================
