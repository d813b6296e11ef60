---------------------------- MODULE MCEventLoop ----------------------------
(***************************************************************************)
(* Two workers that share two requests; each request is a chain of up to *)
(* two coroutines and suspends up to two times.                            *)
(***************************************************************************)
EXTENDS EventLoop
=============================================================================
