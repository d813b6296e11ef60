-------------------------- MODULE MCConnectionPool --------------------------
(***************************************************************************)
(* A worker whose pool has two connections, and three handlers: one has to *)
(* wait.  Identities of connections are reused after PQfinish, so two are  *)
(* enough for any number of reconnects.                                    *)
(***************************************************************************)
EXTENDS ConnectionPool
=============================================================================
