---------------------------- MODULE MCEventLoop ----------------------------
(* Small instances of EventLoop for TLC; the cfg files give the values. *)
EXTENDS EventLoop, TLC
=============================================================================
