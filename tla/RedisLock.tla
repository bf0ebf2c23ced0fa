----------------------------- MODULE RedisLock -----------------------------
(***************************************************************************)
(* Redis::Lock and Redis::Unlock of redis.cc: clients that share a key of  *)
(* a Redis server, each over its own connection.  A command is sent, done  *)
(* by the server in one step, and answered; the connection may be lost at  *)
(* any point, and what is sent over it later fails at once.  The server    *)
(* drops the key when its lifetime is over, whoever still counts on it.    *)
(***************************************************************************)
EXTENDS Naturals

CONSTANTS
  Clients,    \* requests with a connection each
  Nanos,      \* the tv_nsec that a client may read: a lock value is nothing else
  MaxLocks    \* bound of the calls of Lock

ASSUME LockAssumption == MaxLocks \in Nat /\ "none" \notin Nanos /\ "" \notin Nanos

VARIABLES
  key,      \* the key at the server: its value, and history: whose SET made it
  conn,     \* the command of a connection, its argument and how far it is
  lock,     \* what a client knows: the value Lock gave it, and whether it counts on it
  locks,    \* number of calls of Lock
  expired,  \* history: the clients whose lock ended its lifetime since they took it
  drew      \* history: the nanoseconds that a client ever read

lockvars == <<key, conn, lock, locks, expired, drew>>

NoKey == [value |-> "none", by |-> "none"]
Quiet == [cmd |-> "none", value |-> "none", at |-> "idle"]
\* Lock answers with an empty string.
NoLock == [value |-> "", holds |-> FALSE]
LockInit ==
  /\ key = NoKey /\ locks = 0 /\ expired = {} /\ drew = [c \in Clients |-> {}]
  /\ conn = [c \in Clients |-> Quiet] /\ lock = [c \in Clients |-> NoLock]

\* Cmd: what is sent; over a connection in error it fails before it leaves.
Cmd(c, cmd, value) ==
  conn' = [conn EXCEPT ![c] = IF @.at = "broken" THEN @ ELSE [cmd |-> cmd, value |-> value, at |-> "sent"]]
Lock(c, nsec) ==
  /\ conn[c].at \in {"idle", "broken"} /\ ~ lock[c].holds /\ locks < MaxLocks
  /\ Cmd(c, "SET", nsec)
  /\ lock' = [lock EXCEPT ![c] = NoLock]
  /\ locks' = locks + 1
  /\ drew' = [drew EXCEPT ![c] = @ \cup {nsec}]
  /\ UNCHANGED <<key, expired>>
\* Whoever has a value may unlock with it, and again when no answer came.
Unlock(c) ==
  /\ conn[c].at \in {"idle", "broken"} /\ lock[c].value # ""
  /\ Cmd(c, "EVAL", lock[c].value)
  /\ lock' = [lock EXCEPT ![c].holds = FALSE]
  /\ UNCHANGED <<key, locks, expired, drew>>

\* Fault: the key is deleted without a look at its value.
DeletesAnyway(value) == key # NoKey
\* if redis.call('get',KEYS[1]) == ARGV[1] then return redis.call('del',KEYS[1])
Deletes(value) == key.value = value
\* The server does a command: SET NX PX, or the script.
Serve(c) ==
  /\ conn[c].at = "sent"
  /\ LET sets == conn[c].cmd = "SET" /\ key = NoKey
         deletes == conn[c].cmd = "EVAL" /\ Deletes(conn[c].value)
     IN  /\ key' = IF sets THEN [value |-> conn[c].value, by |-> c] ELSE IF deletes THEN NoKey ELSE key
         /\ conn' = [conn EXCEPT ![c].at = IF sets \/ deletes THEN "done" ELSE "refused"]
         /\ expired' = IF sets THEN expired \ {c} ELSE expired
  /\ UNCHANGED <<lock, locks, drew>>
\* The lifetime that SET gave the key is over.
Expire ==
  /\ key # NoKey
  /\ expired' = expired \cup {key.by} /\ key' = NoKey
  /\ UNCHANGED <<conn, lock, locks, drew>>

\* Cmd returns: Lock gives its value when the answer is a string.
Answer(c) ==
  /\ conn[c].at \in {"done", "refused"}
  /\ conn' = [conn EXCEPT ![c] = Quiet]
  /\ lock' = IF conn[c].cmd = "SET" /\ conn[c].at = "done"
             THEN [lock EXCEPT ![c] = [value |-> conn[c].value, holds |-> TRUE]] ELSE lock
  /\ UNCHANGED <<key, locks, expired, drew>>
\* The connection is lost before or after the server did the command; nothing connects again.
Lose(c) ==
  /\ conn[c].at \in {"sent", "done", "refused"}
  /\ conn' = [conn EXCEPT ![c] = [Quiet EXCEPT !.at = "broken"]]
  /\ UNCHANGED <<key, lock, locks, expired, drew>>

LockNext ==
  \/ \E c \in Clients : (\E nsec \in Nanos : Lock(c, nsec)) \/ Unlock(c) \/ Serve(c) \/ Answer(c) \/ Lose(c)
  \/ Expire
LockSpec == LockInit /\ [][LockNext]_lockvars

-----------------------------------------------------------------------------
(* The lock that Lock gave to a client stays its own until it unlocks or the *)
(* lifetime is over: no Unlock of another, a late one or a repeated one,     *)
(* takes it away, unless another ever drew the same nanoseconds.             *)
SameNanos(c, value) == \E d \in Clients \ {c} : value \in drew[d]
LockIsKept ==
  \A c \in Clients :
    lock[c].holds /\ c \notin expired
      => SameNanos(c, lock[c].value) \/ key = [value |-> lock[c].value, by |-> c]
=============================================================================
