------------------------------ MODULE LogWriter ------------------------------
(***************************************************************************)
(* log/: the threads of the server log records; one writer thread formats  *)
(* them for files.  A record travels in a LogInfo.  The LogInfos are kept   *)
(* in a pool (LogWriter::logfilepipe_, a LockfreeQueue that the            *)
(* constructor fills with SinglePush), a logger takes one with MultiplePop,*)
(* fills it in and puts it into the pipe of the FileAppender of its        *)
(* module; the writer empties the pipes, with LogWriter::mutex_ held, and  *)
(* gives the LogInfos back with MultiplePush.                              *)
(*                                                                         *)
(* The pool is the lock-free queue step by step (module LockfreeQueue); an *)
(* appender's pipe, which has several pushers and one popper, is the FIFO  *)
(* queue that LockfreeQueue implements for such clients.  All threads log  *)
(* for one module.  The console appender is left out, and so is the end of *)
(* the LoggerManager.                                                      *)
(***************************************************************************)
EXTENDS LockfreeQueue

CONSTANTS
  Main,         \* the thread that constructs the LoggerManager
  Writer,       \* writer_thread_
  Record,       \* the records to be logged, each once
  NoRecord,
  Appender,     \* the FileAppenders that may be made for the module
  NoAppender,
  NoThread      \* nobody holds LogWriter::mutex_

Logger == Thread \ {Main, Writer}

ASSUME LogThreadsAssumption ==
  /\ Main \in Thread /\ Writer \in MultiplePusher /\ Logger \subseteq MultiplePopper
  /\ Main # Writer
ASSUME LogNothingAssumption ==
  NoRecord \notin Record /\ NoAppender \notin Appender /\ NoThread # Writer
ASSUME LogInfosAssumption == IsFiniteSet(Value)

VARIABLES
  built,     \* the LogWriter is constructed and its thread has been started
  mutex,     \* who holds LogWriter::mutex_
  tasks,     \* tasks_: the writeLogsfile of each appender
  logger,    \* the appender of the Logger that loggers_ holds for the module
  pipes,     \* logging_pipe_ of each appender
  content,   \* the record in each LogInfo
  leaked,    \* the LogInfos whose push failed: nobody keeps them
  at,        \* where each thread is
  rec,       \* the record a thread is logging
  via,       \* the appender a thread logs through
  info,      \* the LogInfo a thread has in its hands
  taskNo,    \* the index of the task the writer is running
  path,      \* filepath_ of each appender: the names behind the directory, at most two counted
  formatted, \* history: the records the writer formatted, in order
  stored     \* the records whose text went to an open file: none ever does

logVars == <<built, mutex, tasks, logger, pipes, content, leaked, at, rec, via,
             info, taskNo, path, formatted, stored>>
fileVars   == <<taskNo, path, formatted, stored>>
loggerVars == <<logger, rec, via>>
allVars    == <<vars, logVars>>

LoggerPlace == {"out", "register", "publish", "alloc", "popping", "enqueue",
                "wake"}
WriterPlace == {"lock", "waiting", "relock", "popLog", "dealloc", "pushing"}

LogTypeOK ==
  /\ TypeOK
  /\ built \in BOOLEAN
  /\ mutex \in {Writer, NoThread}
  /\ tasks \in Seq(Appender)
  /\ logger \in Appender \cup {NoAppender}
  /\ pipes \in [Appender -> Seq(Value)]
  /\ content \in [Value -> Record \cup {NoRecord}]
  /\ leaked \subseteq Value
  /\ at \in [Thread -> LoggerPlace \cup WriterPlace]
  /\ rec \in [Thread -> Record \cup {NoRecord}]
  /\ via \in [Thread -> Appender \cup {NoAppender}]
  /\ info \in [Thread -> Value \cup {NoValue}]
  /\ taskNo \in Nat
  /\ path \in [Appender -> 0 .. 2]
  /\ formatted \in Seq(Record)
  /\ stored \subseteq Record

LogInit ==
  /\ Init
  /\ built = FALSE
  /\ mutex = NoThread
  /\ tasks = <<>>
  /\ logger = NoAppender
  /\ pipes = [a \in Appender |-> <<>>]
  /\ content = [v \in Value |-> NoRecord]
  /\ leaked = {}
  /\ at = [t \in Thread |-> IF t = Writer THEN "lock" ELSE "out"]
  /\ rec = [t \in Thread |-> NoRecord]
  /\ via = [t \in Thread |-> NoAppender]
  /\ info = [t \in Thread |-> NoValue]
  /\ taskNo = 0
  /\ path = [a \in Appender |-> 0]
  /\ formatted = <<>>
  /\ stored = {}

Enter(t, place) == at' = [at EXCEPT ![t] = place]

\* LogWriter::Wakeup: the writer, if it waits, goes back to lock mutex_;
\* thread t goes to place.
WakeWriter(t, place) ==
  at' = [at EXCEPT ![t] = place,
                   ![Writer] = IF @ = "waiting" THEN "relock" ELSE @]

-----------------------------------------------------------------------------
(* The constructors.                                                       *)

\* The LogInfos that Main has allocated so far.
Allocated == (Value \ held) \cup leaked

\* One more LogInfo is allocated and pushed; the push that finds the ring full
\* is ignored like the others.
PushNew(v) ==
  /\ ~built
  /\ At(Main, "idle")
  /\ v \notin Allocated
  /\ StartSinglePush(Main, v)
  /\ UNCHANGED logVars

PushNewStep ==
  /\ \/ SinglePush(Main) /\ UNCHANGED logVars
     \/ /\ At(Main, "pushFailed")
        /\ Return(Main)
        /\ leaked' = leaked \cup {op[Main].val}
        /\ UNCHANGED <<built, mutex, tasks, pipes, content, at, info>>
        /\ UNCHANGED <<loggerVars, fileVars>>

Built ==
  /\ ~built
  /\ At(Main, "idle")
  /\ Allocated = Value
  /\ built' = TRUE
  /\ UNCHANGED <<vars, mutex, tasks, pipes, content, leaked, at, info>>
  /\ UNCHANGED <<loggerVars, fileVars>>

-----------------------------------------------------------------------------
(* A logger: LoggerManager::GetLogger, Logger::Log, FileAppender::Log.     *)

Logged == Range(rec) \cup Range(content) \cup Range(formatted)
Made   == Range(tasks) \cup Range(via)

\* createFilepath puts one more "/LOG_<date>_<module>.txt" behind filepath_, which
\* is then never what it was: it returns true each time, and a file is opened.
CreateFilepath(a) == path' = [path EXCEPT ![a] = IF @ < 2 THEN @ + 1 ELSE @]
\* The directory is there; below the path of a file there is nothing to open.
IsOpen(name) == name = 1

\* loggers_ is searched without a lock: a Logger that is not there yet is made,
\* and with it a FileAppender, by each thread that does not find it.
GetLogger(t, r) ==
  /\ built
  /\ t \in Logger
  /\ at[t] = "out"
  /\ r \notin Logged
  /\ rec' = [rec EXCEPT ![t] = r]
  /\ \/ /\ logger # NoAppender
        /\ via' = [via EXCEPT ![t] = logger]
        /\ Enter(t, "alloc")
        /\ UNCHANGED path
     \/ /\ logger = NoAppender
        /\ \E a \in Appender \ Made : via' = [via EXCEPT ![t] = a] /\ CreateFilepath(a)
        /\ Enter(t, "register")
  /\ UNCHANGED <<vars, built, mutex, tasks, logger, pipes, content, leaked, info>>
  /\ UNCHANGED <<taskNo, formatted, stored>>

\* Fault: only the first appender of a module hands its task over.
AddTaskOnce(t) ==
  /\ at[t] = "register"
  /\ mutex = NoThread
  /\ tasks' = IF tasks = <<>> THEN <<via[t]>> ELSE tasks
  /\ Enter(t, "publish")
  /\ UNCHANGED <<vars, built, mutex, pipes, content, leaked, info>>
  /\ UNCHANGED <<loggerVars, fileVars>>

\* The constructor of the FileAppender calls AddTask, which takes mutex_.
AddTask(t) ==
  /\ at[t] = "register"
  /\ mutex = NoThread
  /\ tasks' = Append(tasks, via[t])
  /\ Enter(t, "publish")
  /\ UNCHANGED <<vars, built, mutex, pipes, content, leaked, info>>
  /\ UNCHANGED <<loggerVars, fileVars>>

SetLogger(t) ==
  /\ at[t] = "publish"
  /\ logger' = via[t]
  /\ Enter(t, "alloc")
  /\ UNCHANGED <<vars, built, mutex, tasks, pipes, content, leaked, rec, via, info>>
  /\ UNCHANGED fileVars

AllocLogInfo(t) ==
  /\ at[t] = "alloc"
  /\ StartPop(t)
  /\ Enter(t, "popping")
  /\ UNCHANGED <<built, mutex, tasks, pipes, content, leaked, info>>
  /\ UNCHANGED <<loggerVars, fileVars>>

PoolStep(t) ==
  /\ at[t] \in {"popping", "pushing"}
  /\ MultiplePop(t) \/ MultiplePush(t)
  /\ UNCHANGED logVars

\* The pool is empty: wake the writer up and try again.
AllocAgain(t) ==
  /\ at[t] = "popping"
  /\ At(t, "idle")
  /\ WakeWriter(t, "alloc")
  /\ UNCHANGED <<vars, built, mutex, tasks, pipes, content, leaked, info>>
  /\ UNCHANGED <<loggerVars, fileVars>>

Fill(t) ==
  /\ at[t] = "popping"
  /\ At(t, "popped")
  /\ Return(t)
  /\ info' = [info EXCEPT ![t] = op[t].val]
  /\ content' = [content EXCEPT ![op[t].val] = rec[t]]
  /\ Enter(t, "enqueue")
  /\ UNCHANGED <<built, mutex, tasks, pipes, leaked>>
  /\ UNCHANGED <<loggerVars, fileVars>>

\* The push into the pipe; PipeHasRoom shows that it does not fail.
Enqueue(t) ==
  /\ at[t] = "enqueue"
  /\ pipes' = [pipes EXCEPT ![via[t]] = Append(@, info[t])]
  /\ info' = [info EXCEPT ![t] = NoValue]
  /\ rec' = [rec EXCEPT ![t] = NoRecord]
  /\ Enter(t, "wake")
  /\ UNCHANGED <<vars, built, mutex, tasks, logger, content, leaked, via>>
  /\ UNCHANGED fileVars

Wakeup(t) ==
  /\ at[t] = "wake"
  /\ WakeWriter(t, "out")
  /\ via' = [via EXCEPT ![t] = NoAppender]
  /\ UNCHANGED <<vars, built, mutex, tasks, logger, pipes, content, leaked, rec, info>>
  /\ UNCHANGED fileVars

-----------------------------------------------------------------------------
(* The writer: LogWriter::loop, FileAppender::writeLogsfile.               *)

\* wait_for releases mutex_ as soon as loop() has locked it.
WaitFor ==
  /\ built
  /\ at[Writer] = "lock"
  /\ mutex = NoThread
  /\ Enter(Writer, "waiting")
  /\ UNCHANGED <<vars, built, mutex, tasks, pipes, content, leaked, info>>
  /\ UNCHANGED <<loggerVars, fileVars>>

\* 60 seconds have passed.
WaitTimesOut ==
  /\ at[Writer] = "waiting"
  /\ Enter(Writer, "relock")
  /\ UNCHANGED <<vars, built, mutex, tasks, pipes, content, leaked, info>>
  /\ UNCHANGED <<loggerVars, fileVars>>

Relock ==
  /\ at[Writer] = "relock"
  /\ mutex = NoThread
  /\ mutex' = Writer
  /\ taskNo' = 1
  /\ Enter(Writer, "popLog")
  /\ UNCHANGED <<vars, built, tasks, pipes, content, leaked, info, path, formatted, stored>>
  /\ UNCHANGED loggerVars

\* SinglePop on the pipe of the appender of the task, and the formatting of what
\* it returns for ofs_, which takes the text if it is open.
PopLog(open) ==
  LET a == tasks[taskNo] IN
  IF pipes[a] = <<>>
    THEN /\ taskNo' = taskNo + 1
         /\ info' = [info EXCEPT ![Writer] = NoValue]
         /\ Enter(Writer, "popLog")
         /\ UNCHANGED <<pipes, formatted, stored>>
    ELSE LET v == Head(pipes[a]) IN
         /\ pipes' = [pipes EXCEPT ![a] = Tail(@)]
         /\ info' = [info EXCEPT ![Writer] = v]
         /\ formatted' = Append(formatted, content[v])
         /\ stored' = IF open THEN stored \cup {content[v]} ELSE stored
         /\ Enter(Writer, "dealloc")
         /\ UNCHANGED taskNo

\* The next task: its file is closed and opened by the new name, if need be
\* twice, and its pipe is looked into.
WriteLogsfile ==
  /\ at[Writer] = "popLog"
  /\ taskNo <= Len(tasks)
  /\ CreateFilepath(tasks[taskNo])
  /\ PopLog(IsOpen(path'[tasks[taskNo]]))
  /\ UNCHANGED <<vars, built, mutex, tasks, content, leaked>>
  /\ UNCHANGED loggerVars

DeallocLogInfo ==
  /\ at[Writer] = "dealloc"
  /\ StartPush(Writer, info[Writer])
  /\ info' = [info EXCEPT ![Writer] = NoValue]
  /\ Enter(Writer, "pushing")
  /\ UNCHANGED <<built, mutex, tasks, pipes, content, leaked>>
  /\ UNCHANGED <<loggerVars, fileVars>>

\* Back from the push, whatever it returned: the next SinglePop; the flush is
\* part of the write, as nothing in between depends on it.
GoOn ==
  /\ at[Writer] = "pushing"
  /\ \/ At(Writer, "idle") /\ UNCHANGED <<vars, leaked>>
     \/ At(Writer, "pushFailed") /\ Return(Writer)
          /\ leaked' = leaked \cup {op[Writer].val}
  /\ PopLog(IsOpen(path[tasks[taskNo]]))
  /\ UNCHANGED <<built, mutex, tasks, content, path>>
  /\ UNCHANGED loggerVars

EndPass ==
  /\ at[Writer] = "popLog"
  /\ taskNo > Len(tasks)
  /\ mutex' = NoThread
  /\ Enter(Writer, "lock")
  /\ UNCHANGED <<vars, built, tasks, pipes, content, leaked, info>>
  /\ UNCHANGED <<loggerVars, fileVars>>

-----------------------------------------------------------------------------
MainStep == (\E v \in Value : PushNew(v)) \/ PushNewStep \/ Built

LogStep(t) ==
  \/ AddTask(t) \/ SetLogger(t) \/ AllocLogInfo(t) \/ AllocAgain(t)
  \/ Fill(t) \/ Enqueue(t) \/ Wakeup(t)
  \/ t \in Logger /\ PoolStep(t)

WriterStep ==
  \/ WaitFor \/ WaitTimesOut \/ Relock \/ WriteLogsfile \/ DeallocLogInfo
  \/ PoolStep(Writer)
  \/ GoOn
  \/ EndPass

LogNext ==
  \/ MainStep
  \/ \E t \in Logger : (\E r \in Record : GetLogger(t, r)) \/ LogStep(t)
  \/ WriterStep

\* All threads are scheduled; nothing makes a thread log.
LogFairness ==
  /\ WF_allVars(MainStep)
  /\ WF_allVars(WriterStep)
  /\ \A t \in Logger : WF_allVars(LogStep(t))

LogSpec     == LogInit /\ [][LogNext]_allVars
LogFairSpec == LogSpec /\ LogFairness

-----------------------------------------------------------------------------
(* Properties.                                                             *)

\* A LogInfo is in one place at a time: in the pool, in a call on the pool, in
\* the hands of one thread, in one pipe, or nowhere; so no thread fills in a
\* LogInfo that holds a record still to be written.
InfoInOnePlace ==
  built =>
    \A v \in Value :
      Cardinality({i \in Published : data[i] = v})
        + Cardinality(Pushing(v) \cup Popped(v))
        + Cardinality({t \in Thread : info[t] = v})
        + Cardinality({x \in Appender \X (1..Cardinality(Value)) :
                         x[2] \in DOMAIN pipes[x[1]] /\ pipes[x[1]][x[2]] = v})
        + Cardinality(leaked \cap {v}) = 1

\* The pool of LogInfos and the pipes account for each LogInfo once.
InfosAreKept == LogTypeOK /\ InfoInOnePlace

\* The record of a LogInfo in the pipes, and among the formatted ones, each
\* counted as often as it is there.
Copies(r) ==
    Cardinality({x \in Appender \X (1..Cardinality(Value)) :
                   x[2] \in DOMAIN pipes[x[1]] /\ content[pipes[x[1]][x[2]]] = r})
  + Cardinality({i \in DOMAIN formatted : formatted[i] = r})
  + Cardinality({t \in Logger : at[t] = "enqueue" /\ rec[t] = r})

\* A record that was put into a LogInfo is still on its way or was formatted
\* from it, once and with what it held: no LogInfo comes back to a logger, or
\* to two of them, before the writer is done with it.
RecordKeptOnce ==
  \A r \in Record :
    Copies(r) <= 1 /\ (r \in Logged \ Range(rec) => Copies(r) = 1)

\* A pipe with as many slots as the pool is never full: FileAppender::Log does
\* not get to its wait, which nothing would be sure to end.
PipeHasRoom == \A a \in Appender : Len(pipes[a]) < Capacity

\* A pipe that holds records belongs to an appender whose task the writer runs,
\* also when several threads made an appender for the same module.
PipeHasTask == \A a \in Appender : pipes[a] # <<>> => a \in Range(tasks)

\* Every record that is in a pipe will be looked at: no thread waits for room
\* in a pipe, and no pipe is forgotten by the writer.
PipesAreServed == PipeHasRoom /\ PipeHasTask

\* The writer gets to every record that is in the pipe of an appender: the pipe
\* is read by "a single thread that writes the file" (log_appender.cc:59).
RecordIsTaken ==
  \A r \in Record :
    (\E a \in Appender, i \in 1..Capacity :
       i \in DOMAIN pipes[a] /\ content[pipes[a][i]] = r)
      ~> (r \in Range(formatted))
=============================================================================
