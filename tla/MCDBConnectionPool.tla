------------------------- MODULE MCDBConnectionPool -------------------------
(* Small instances of DBConnectionPool for TLC; the cfg files give the *)
(* values. *)
EXTENDS DBConnectionPool, TLC
=============================================================================
