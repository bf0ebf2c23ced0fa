------------------------------ MODULE MCParts ------------------------------
(* The parts of the server that share no state, one in each behaviour.       *)
EXTENDS TimerWheel, PollPoller, MemoryPool, SendBuffer, RedisLock, LogFormat, Response, TLC
VARIABLE part
AllParts == {"timers", "poller", "pool", "bytes", "lock", "log", "answers"}

Shapes_ == LET borrowed(n) == [kind |-> "borrowed", size |-> n]
           IN  {<<borrowed(2), borrowed(1)>>, <<[kind |-> "copy", size |-> 1], [kind |-> "file", size |-> 2]>>, <<borrowed(0)>>}
Info(level) == [log_level |-> level, written |-> "now", thread_id |-> "id", log_module |-> "m", log_tag |-> "t", log_content |-> "content"]
Infos_ == {Info("INFO"), Info("OFF")}

\* Data with line ends and dashes of its own, and files with and without a type.
Datas_ == {<<>>, <<97>>, <<97, CR, LF, Dash, Dash, 98>>, <<CR, LF, CR, LF>>}
File(path, name, data) == [path |-> path, name |-> name, exists |-> TRUE, data |-> data]
Files_ == {File(p, n, d) : p \in {<<Dot, Dot, Slash, 97, Dot, 301>>, <<97, Dot, 320>>, <<Dot, Dot, Slash, 97>>}, n \in {<<>>, <<99>>}, d \in Datas_}
            \cup {[File(<<97>>, <<>>, <<>>) EXCEPT !.exists = FALSE]}
PartOf(headers, fd, data) == [headers |-> headers, fd |-> fd, data |-> data]
Parts_ == {PartOf(h, fd, d) : h \in {<<>>, << <<ContentDisposition, <<99>> >>, <<ContentType, <<98>> >> >>}, fd \in {-1, 5}, d \in Datas_}
Answers_ == {[kind |-> k, code |-> 200, data |-> d] : k \in {"string", "json"}, d \in Datas_}
              \cup {[kind |-> "file", code |-> 200, file |-> f] : f \in Files_}
              \cup {[kind |-> "multipart", code |-> 200, parts |-> ps] :
                      ps \in {<<>>} \cup {<<p>> : p \in Parts_} \cup {<<p, PartOf(<<>>, -1, <<97>>)>> : p \in Parts_}}
Sym == Permutations(Timers) \cup Permutations(Events)

PartsInit ==
  /\ part \in AllParts /\ TimerInit /\ PollerInit /\ PoolInit /\ BytesInit /\ LockInit /\ FormatInit /\ ResponseInit
  /\ part # "log" => log_pattern = <<>>
PartsNext ==
  /\ UNCHANGED part
  /\ \/ part = "timers" /\ TimerNext /\ UNCHANGED <<pollvars, poolvars, bytevars, lockvars, formatvars, respvars>>
     \/ part = "poller" /\ PollerNext /\ UNCHANGED <<timevars, poolvars, bytevars, lockvars, formatvars, respvars>>
     \/ part = "pool" /\ PoolNext /\ UNCHANGED <<timevars, pollvars, bytevars, lockvars, formatvars, respvars>>
     \/ part = "bytes" /\ BytesNext /\ UNCHANGED <<timevars, pollvars, poolvars, lockvars, formatvars, respvars>>
     \/ part = "lock" /\ LockNext /\ UNCHANGED <<timevars, pollvars, poolvars, bytevars, formatvars, respvars>>
     \/ part = "log" /\ FormatNext /\ UNCHANGED <<timevars, pollvars, poolvars, bytevars, lockvars, respvars>>
     \/ part = "answers" /\ ResponseNext /\ UNCHANGED <<timevars, pollvars, poolvars, bytevars, lockvars, formatvars>>
=============================================================================
