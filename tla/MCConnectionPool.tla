-------------------------- MODULE MCConnectionPool --------------------------
(* Small instances of ConnectionPool for TLC.                              *)
EXTENDS ConnectionPool

CONSTANTS j1, j2, j3, b1, o1
=============================================================================
