---------------------------- MODULE MCTcpServer ----------------------------
(* Small instances of TcpServer for TLC.                                   *)
EXTENDS TcpServer, TLC

CONSTANTS c1, c2

\* Two requests of one client may be read together; the other sends none.
Requests_ == c1 :> 2 @@ c2 :> 0
=============================================================================
