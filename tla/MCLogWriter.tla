----------------------------- MODULE MCLogWriter -----------------------------
(* Small instances of LogWriter for TLC. *)
EXTENDS LogWriter, TLC

LogSymmetry ==
  Permutations(Logger) \cup Permutations(Record) \cup Permutations(Appender)
    \cup Permutations(Value)
=============================================================================
