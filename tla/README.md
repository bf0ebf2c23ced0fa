# A verification project for RESTfulCweb

TLA+ modules that model this web framework, the TLC configurations that check
them on small instances, and theorems that TLAPS proves for every value of the
constants. The C++ code under `src/` is the reference: a definition is
translated from the lines that `PROJECT.json` ("map") names, and comments in
the modules name the functions. Paths below are relative to `src/src/`.

## The system

A server process has one *accept loop*, the thread that calls `Cweb::Run`, and
`threadcnt` *worker loops*. The accept loop accepts connections and hands each
to the next worker; the worker serves it for its whole life. All threads log,
and one *log writer* thread formats the records for the file. Requests take database
connections from two pools. A second build (`COROUTINE`) replaces the loops by
coroutine schedulers and hooks the blocking calls.

| component | state | operations | interacts with | modules |
| --- | --- | --- | --- | --- |
| event loop (`tcpserver/eventloop*.cc`) | `running_`, `tasks_` under `mutex_`, wakeup pipe, active events | Run, Quit, AddTask, AddTasks, AddTimer, RemoveTimer | every thread may call in; calls back events, tasks, timers | `EventLoop`, `TaskQueue` |
| timing wheel (`timer.cc`, `linked_list.h`) | wheels of linked lists, `steps_`, counts | AddTimer, RemoveTimer, PopAllTimeoutTimer, NextTimeoutInterval | the loop | `TimerWheel` |
| poller (`poll/`, `event.cc`) | `pollfds_`, `events_map_`, `index_` of the events | UpdateEvent, RemoveEvent, Poll | the loop, `Event` | `PollPoller` |
| TCP server and connections (`tcpserver.cc`, `tcpconnection.cc`, `scheduler.cc`) | `living_connections_`; state, event, timer of each connection | accept, read, write, close, timeout | accept loop and one worker per connection | `TcpServer` |
| send and input buffers (`bytedata.cc`, `bytebuffer.cc`) | packets, `current_index_`, `offset_`; two offsets | Writev, Remain, CopyDataIfNeed; Readv, Append, ReadBytes | connection | `SendBuffer` |
| HTTP parser (`http_parser.cc`) | the state machine and its marks | http_parser_execute | session | `HttpParser` |
| HTTP sessions (`httpserver/`) | `httpsessions_` under a spin lock; parser glue, `need_close_` | handleConnected, handleMessage, Send* | connection callbacks, router | `TcpServer`, `HttpSession`, `Response` |
| request bodies (`httprequest.cc`, `multipartparser.cc`) | parse state, parts | Parse, the multipart callbacks | session | `RequestBody` |
| WebSocket (`websocket.cc`) | frame, fragments, close flags | handleMessage, Close | connection | `WebSocket` |
| router, middleware, context (`cweb/`) | tries, groups, handler chain | AddRouter, Use, Handle, Next | session, pools | `Router` |
| JSON (`util/json/`) | the reader's stacks and errors, a tree of values | parse, write, the calls of `Value` | bodies, handlers | `JsonText`, `JsonReader`, `JsonWriter`, `JsonValue` |
| lock-free queue (`util/lockfree_queue.h`) | ring, `front_`, `back_`, `write_` | MultiplePush/Pop, SinglePush/Pop | pools, log pipes | `LockfreeQueue`, `FifoQueue` |
| DB pools (`db/`) | queue of connections, `mutex_`, `cond_` | Init, GetConnection, ReleaseConnection | contexts | `DBConnectionPool` |
| Redis lock (`db/redis.cc`) | a key at the server, a value at the client | Lock, Unlock | contexts | `RedisLock` |
| logging (`log/`) | LogInfo pool, a pipe per appender, `loggers_`, writer thread, pattern | GetLogger, Log, loop, Format | all threads | `LogWriter`, `LogFormat` |
| coroutine runtime (`co_tcpserver/`, `hooks.cc`) | ready, running and held coroutines | loop, SetState, hooks, handleMessage | pollers, timers, accept thread | `CoEventLoop` |
| memory pool (`threadlocal_memorypool.cc`) | free lists per size class | Allocate, Deallocate | loop, log writer | `MemoryPool` |

What makes them correct, in a line each:

- loop: handed-over tasks run once, in order, and are not slept over; Quit ends
  it; a timer fires.
- queue: FIFO, nothing lost or doubled, every claimed slot has one owner.
- pool: one user per connection, nobody sleeps beside a free connection for
  ever.
- logging: a record is formatted once, as it was logged; a LogInfo is in one
  place; a line is what the pattern says.
- connection: one orderly end whatever its cause, nothing calls into it
  afterwards but the callback that ended it, a silent one is closed.
- coroutine: in one list at a time, woken by its event or its timer, never
  starved, its connection closed once.
- timers, pollers, memory: what is registered is found again, and nothing else;
  a timer comes due near its time.
- buffers, answers: the bytes written are the bytes queued, in order, and a
  client can tell where an answer ends.
- parser, session, bodies, WebSocket: what is heard is what was sent, however
  the bytes fall into reads.
- router: a request gets a handler that fits it, behind the middlewares of its
  group.
- JSON: a document is accepted if and only if it is one, its values are where
  they stand, and what is written reads back.

The behaviours that are hard: calls into a loop at any moment of its pass and
of its start; the wakeup byte written under a lock; lock-free operations
interleaved by single accesses; callbacks that close the connection that is calling them, and free the
parser or the Timer that does; object lifetimes split between two loops; condition variables
notified without their mutex; a timeout and an event of the same pass; bytes
that arrive in pieces; connections to a database that break between a command
and its answer. The list, with its lines, is in `PROJECT.json` under "hazards".

## The modules

`EventLoop` and `TaskQueue`, `LockfreeQueue` and `FifoQueue` are pairs of a
detailed and an abstract specification. `DBConnectionPool` and `LogWriter`
EXTEND `LockfreeQueue` and conjoin its steps with their own variables, so that
they run on the real queue and not on what it promises. `CoEventLoop` EXTENDS
`PollPoller` in the same way. `TcpServer` takes the loops as the task queues
that `EventLoop` is shown to implement. `JsonReader` EXTENDS `JsonWriter`, which
EXTENDS `JsonText`. A module `MC*` extends its component for TLC; the cfg files
give the constants. `MCParts` and `MCRequests` put components that share no
state side by side, one in each behaviour (variable `part`); the others keep
their initial state there, and so a run of such a module is the sum of the runs
of its components and not their product.

Each module also holds a few operators marked *Fault*: the form a definition
would have with a plausible bug. No specification uses them; they serve to
confirm that each property notices its bug.

### EventLoop

`loopAt` is the place of the loop thread: `new` (published by `StartLoop`,
nothing initialised), `created` (pipe made), `check` (head of the while loop),
`poll`, `events`, `runTasks`, `runTimers`, `stopped`. A caller is idle, holds
`mutex_` before the write in `AddTask` (`notify`), or is between the two
statements of `Quit` (`quitNotify`). `WriteByte` blocks on a full pipe, which
models `write(2)` on a pipe that is not set non-blocking; before
`createWakeupfd` the descriptor is uninitialised and the byte reaches no pipe
of this loop. `CallbackEffect` is what a callback may do to its own loop;
since `AddTask` on the loop thread runs the functor on the spot, the histories
show it at once. Timers keep a state instead of a time. `executed` and
`announced` are history variables.

`TaskQueue` is what the loop promises. Under the refinement mapping the queue
is `batch \o tasks`, so the swap in `handleTasks` is a stutter.

### LockfreeQueue

`op[t]` says at which access of which operation a thread is, and holds its
local copy of the index and its value; `held` has the values the clients own.
The spin on `back_` is a guard: only the attempt that succeeds is a step.
Accesses are sequentially consistent; the acquire and release orders of the
code suffice for this on `back_` and `front_`, and the relaxed accesses to
`write_` are read-modify-writes or are checked again by one. That a popper may
copy a slot while a pusher overwrites it is, in the model, a read of one of the
two values; in C++ it is also a data race on the slot.

`SinglePush` is called by nobody but the constructor of `LogWriter`, so its
steps are part of that module's specification and not of `LockfreeQueue`'s own.

`FifoQueue` is the abstract queue. It is implemented when one thread pops at a
time and there are fewer values than slots. Both are needed. `MultiplePop`
reads a slot before it exchanges `front_`, and a second popper may take `front_`
once round the ring in between; `MultiplePush` checks `front_` before it
exchanges `write_`, and where the ring can be full it may then claim a slot of a
full ring, which looks empty afterwards. The server keeps within both: a pool
pops under its mutex and holds fewer connections than slots, and a pipe has one
popper and more slots than there are LogInfos. The pool of LogInfos has fewer
LogInfos than slots too, but many poppers; there `log_writer_pool` runs the
queue's own steps. What is given back to that pool is never published (see
`log_writer_taken`), so no popper can be overtaken by a turn of the ring; a
constructor that filled it with `MultiplePush` would expose it to that.

### DBConnectionPool

`at[t]` follows a thread through `GetConnection` and `ReleaseConnection`, and
`mine` is the connection of its Context. `Main` runs `Init`; `OpenFails` is a
connection that cannot be opened. A wait releases the mutex and sleeps in one
step; wakeups may be spurious. `dropped` has the connections whose push
failed.

### LogWriter and LogFormat

The LogInfo pool is the lock-free queue step by step. The pipe of an appender
has several pushers, one popper and more slots than there are LogInfos, so it is
taken as the FIFO queue that run `lockfree_queue_one_popper` and theorem
`QueueIsFifo` show it to be. `GetLogger` finds no Logger until one
is published, so several threads may make one. The writer holds `mutex_` from
`Relock` to `EndPass`. `PopLog` is the part of `writeLogsfile` from one
`SinglePop` to the next use of a LogInfo. `path` says of each file what
`createFilepath` made of `filepath_`: nothing yet, the path of the file, or one
that begins with the path of a file and cannot be opened. A pass of the writer
begins with it, so `stored`, what got into a file, stays empty, and the
properties speak of `formatted`, what the writer made of the records. `leaked`
has the LogInfos that a failed push dropped.

`LogFormat` is `log_formatter.cc`: `ParseLogpattern` makes the items of any
pattern of bounded length, `Format` a line, which is a sequence of words.
`LineAsPattern` says independently what a pattern means, character by
character.

### TcpServer

`at[w]` is the callback in which worker `w` is, split where another thread sees
what it did: the insertion into `httpsessions_` (search, lock, change), and the
report to the accept loop. `Refd` lists the counted references to a
connection; `Destroyed` means that there are none. The place `returning` is the
way back through `http_parser_execute`, `handleRead`, `HandleEvent` and
`Timer::Execute`, which hold a bare pointer. What they come back to may be gone
(`FreedMeanwhile`): the connection, which the accept loop erased; the Timer,
which `cancelTimer` deletes inside its own `Execute`; the parser, which went with
the session that its callback closed. The program then goes on with the old
memory, or anything may follow: `broken`, where the model ends. `FindSession` searches the map without the lock, as the code
does: while another worker holds the lock it may miss its session, and `missed`
remembers it. A response is a number of parts; each write takes some of
them, including none. A read takes all that the client sent (`HandleRead`, place
`reading`), and the parser answers one request after the other (`Answer`,
`AnswerAndClose`) until none is left, one closes, or the message is bad; behind
one that closed it goes on only where its session was missed, and then a late
answer may ask for room on an Event that was removed.

`loop[w].stale` says that the loop slept so long in a `poll()` without a timeout
that a timer which a task or an event of this pass adds fits no layer of the
wheel: it is `lost`, never comes due, and the next `cancelTimer` goes by its
uninitialised position (`CancelLostTimer`, `broken`).

### TimerWheel

`wheel` is the whole `TimerWheelManager` as one record: the lists of its slots
with head, tail and size, the links and the position of each timer, `steps_`,
`cnts_`. `PopAllTimeoutTimer` is one step, its loops recursive functions on that record: it
cascades from the top layer down, then drains the slots of the lowest layer
that the elapsed ticks pass. Executing the timers it returned is a step for
each, with the repeat and the second insertion. Between the passes the loop is
asleep: for the timeout the wheel gave it, or shorter. An access out of range,
to nowhere or to a deleted timer sets `broken`, and so does a slot that is
filled while it is drained (`refilled`), since `Pop` has then closed its list to
a ring: there the model ends. `early` and `dropped` are histories: the most a
timer came too early, and what the passes dropped of their ticks.

### PollPoller

`pollfds`, `events_map` and the fields of each `Event`, under the calls that a
connection makes: enable reading, writing on and off, disable all, remove, and
at last close the descriptor, which the next connection may get. A `Send` that
comes late may update an Event that was removed. `active` has the Events of the
pass that are still to be handled.

### MemoryPool

An address is a block and an offset. `Allocate` takes from the free list of the
class or cuts from the current block in exactly the size asked for;
`Deallocate` writes a link into the first bytes of the object and puts it in
the list of its class. `PoolAssumption` and `OneRoomPerClass` say of the sizes
what the constants and the one caller of the code (`log/log_writer.cc:7-10`) do.

### SendBuffer

A `ByteData` is a sequence of packets (borrowed memory, its own copy, a file)
with `current_index_` and `offset_`. `Send` writes at once if nothing waits,
keeps the rest and turns borrowed memory into a copy; `HandleWrite` goes on with
what waits. The bytes are numbered in the order of the calls of `Send`, and
`wrote` is what the socket took. `buf` is a `ByteBuffer` with its two offsets
and its memory; `Readv` reads into its room and into a buffer on the stack,
which is appended, and thereby moved to the front or grown.

### CoEventLoop

`running`, `hold` and `ready` are the three lists of the loop, `cur` the
coroutine it runs. `Pass` is one pass: the poll, the coroutines of the timers
that are due and of the events, and the move of what is ready to what runs.
Each connection has one coroutine (`Server`): it reads until that would block,
waits with a timer through the hook, handles messages, and closes. `OnTimeout`
and `OnClose` are the coroutines that execute a timer and that close for another
thread. `RemoveConnection` is the accept thread that destroys. `history.outside`
says that a connection was closed from outside its coroutine, `history.both`
that an event and the timer of one wait came in the same pass.

### HttpParser

`http_parser_execute`, one step per byte; a read is one call, with the marks
that it sets at its beginning and flushes at its end. `parser` is the struct,
`stream` what the peer sends, `unread` the rest of it, `heard` the callbacks. The body and the header
loops of the code, which run ahead inside one byte's case, are the same steps
taken byte by byte. Header names are matched by an index into a shortened word,
as the code does with its long ones. `HeardIsExpected` builds what should be
heard from the stream's grammar, and not from the parser's states.

### HttpSession and Response

`HttpSession` stands on what `HttpParser` gives: a chunk is a run of pieces, the
halves of each string among them, and `Cuts` are the pieces before which a read
may end. `sess[s]` has the session, its parser with
the header in the making, and the connection; `header_key_temp` is the static
that all of them share, and `crossed` has the sessions whose key another one
changed before their value came. A complete request is parsed, handed to the
handler, and may close the connection from inside the callback (`CloseInside`):
that frees the session and the parser, to which the callback then returns. The
rest of the read is parsed as far as the old memory allows, or the model ends
(`broken`). A session whose end `HttpServer` misses is in `TcpServer` and not
here.

`Response` is the other direction: the bytes of each of the four kinds of
answer, with the headers and lengths that `SendMultipart` adds up by hand.
`ClientReads` is a client that reads them by the announced length.

### WebSocket

A frame's header fields are two halves each and its payload is bytes; a byte
carries the set of masks that were applied to it, so that one that is unmasked
twice or with the wrong key shows. A read brings any number of units. The
handler echoes, and either side may close.

### RequestBody

`Execute` is `multipartparser_execute` with the callbacks of
`HttpRequestMultipartBody`, character by character, as a fold; `stray` is the
first of the three callbacks that the constructor leaves unset which is called
and does not read as NULL, and a call of it ends the model (`undefined`); url-encoded
bodies and queries are split as `httprequest.cc` does it. Forms are also made by
the server itself (`SendMultipart`). `header_field_temp` is a static: what a
body that breaks off leaves in it stays for the next request.

### Router

The program registers routes, groups and middlewares in any order; `Insert`
and `Search` are the trie. `served` is the last request: the route it found, the
parameters, and the handlers that ran through `Context::Next`. `Matches` says
without a trie what a pattern means.

### JsonText, JsonReader, JsonWriter, JsonValue

`JsonText` has the scalars: numbers of few bits, strings with their escapes and
UTF-8, from text to value and back, and the conversions between number types
with their range checks and the rounding of a large integer that is read as a
double (`asDouble`). `JsonReader` is `OurReader`: tokens, the frames of
`readObject` and `readArray`, error recovery and the placing of comments; a
document grows by a lexeme whenever the reader asks for more, so that all
documents of bounded length are read. `JsonWriter` is `BuiltStyledStreamWriter`.
`JsonValue` has the calls of `Value` on arrays (with holes) and objects, beside
a `mirror` that is the list or record they describe.

### RedisLock

A command is sent, done by the server and answered, and the connection may
break before, between and after; what is sent over it later fails at once. The
server drops the key when its lifetime ends. A lock value is nothing but the
nanoseconds of the clock, so two clients may draw the same.

## The runs

| run | constants | shows |
| --- | --- | --- |
| `event_loop` | 2 callers, 2 tasks, 2 timers, pipe of 1 | no lost wakeup, refinement of `TaskQueue`; announced tasks run |
| `lockfree_queue_one_popper` | 2 pushers, 1 popper, 2 values, 3 slots | FIFO refinement, each value in one place, each claimed slot with one owner, pushes complete |
| `lockfree_queue_mpmc` | 1 pusher, 2 poppers, 3 values, 2 slots | **violated**: a value is lost and another delivered twice |
| `db_pool_requests` | start-up and 2 requests, 3 slots | exclusive connections, sleepers look again |
| `log_writer_pool` | 2 loggers, 3 records, 3 slots, 2 appenders | LogInfos are kept, a record is formatted once, pipes have room and a task |
| `log_writer_taken` | 1 logger, 3 records, 3 slots | **violated**: the writer spins for ever |
| `tcp_server_lifecycle` | 2 connections, 2 workers, 2 requests of one and none of the other, 2 parts | lifetimes, timers, sessions, one end, silent connections close |
| `server_parts` | `Parts.cfg`, by component below | `TimerWheel`, `PollPoller`, `MemoryPool`, `SendBuffer`, `RedisLock`, `LogFormat`, `Response` |
| `coroutine` | 2 connections, 2 waits and 1 message each | who holds is woken, a connection ends once by itself, no coroutine starves |
| `requests` | `Requests.cfg`, by component below | `HttpParser`, `HttpSession`, `WebSocket`, `RequestBody`, `Router`, the JSON modules |
| `http_session_fragments` | 1 request, cuts inside strings | **violated**: of a URL in two reads the second piece is kept |
| `multipart_upload` | forms with line ends in a file | **violated**: the last piece of a file is kept |

What the properties of the runs say is in the comment before each definition.
Those of the two collective runs, with what bounds them:

- `ListsMatchTimers`, `FiresInTime`, `LostOnlyAfterRest` (2 timers, 2 layers of 3 slots, 2 units in
  a tick, 10 units of time): the wheel turns once round its lower layer and
  cascades, passes drop the part of a tick, a slot is filled while it is
  drained. `FiresInTime` is exact about both errors of the code: less than a
  turn of the lower layers too early, and too late by no more than was dropped. `LostOnlyAfterRest` is about the
  timers that fit no layer: only one that is added after a `poll()` without a
  timeout can be lost. It takes handlers as instantaneous and a `poll()` as
  returning at most at its timeout.
- `PollsWhatIsWanted` (4 Events, 3 descriptors): the last place moves into the
  middle, a descriptor is used again.
- `ObjectsAreDisjoint` (alignment 2, 3 classes, blocks of 12): sizes that are
  not aligned, a rest too small for the next object.
- `StreamIsKept`, `BufferIsFifo` (6 bytes, 3 shapes of packets; room of 2 and a
  stack buffer of 3): a write ends inside each packet, the buffer moves and
  grows.
- `LockIsKept` (2 clients, 2 clock values, 4 calls): a lock outlives its key, an
  answer is lost, both draw the same value.
- `LineAsPattern` (all patterns of 5 characters out of 5).
- `AnswersAreRead` (2 answers of each kind; parts with line ends and dashes;
  `int` up to 31).
- `ParserInv`, `HeardIsSent` (some 40 streams of one to three requests, cut at
  every place into reads): all header names the parser looks for, chunks,
  pipelining, upgrades, refused and spoiled requests, a length that overflows.
- `RequestsAsSent` (2 sessions, one of 2 requests and one of 1): both versions,
  keep-alive and close, bodies that do not parse, an upgrade; reads end before
  requests, fields, values and bodies and inside bodies, so that another session
  may cross one between a field and its value.
- `MessagesAreUnmasked`, `CloseIsHeard` (3 frames of 10 kinds): fragments with a
  ping, pong or close between them, all three length forms.
- `BodyIsAsSent` (each of the unset callbacks NULL or not; parts whose data are any beginning of the boundary; a form
  spoiled at each of its bytes, followed by another).
- `RouteFits`, `GuardsComeFirst` (4 calls out of 4 patterns, 3 groups; 7 paths).
- `DocumentIsRead`, `WrittenReadsBack` (documents of 5 lexemes out of 16, and
  the documents written for what was read).
- `ValueIsWhatWasAsked` (4 calls, indices to 2), `ScalarsAreRight` (integers of
  4 and 7 bits, a mantissa of 5, so that large integers are rounded; strings of the code points at which UTF-8
  changes its length).

Bounds and why they are enough. Tasks, timers, records and connections are used
once each, which bounds every history. Two callers are needed for one to hold
`mutex_` while the other quits or arms a timer; two tasks let one run from the
batch and hand over the other, or both be announced by one byte. A pipe of one
byte fills with the first call, so that a second caller blocks in `write`. Rings of
two and three slots wrap around after two and three operations, so that every
index meets every thread at every value. Two connections on two workers give one
that inserts a session while the other searches; two requests in one read give
one behind the one that closes; a response of two parts
has one that is sent and one that is not. Two coroutines give one that runs
while the other is woken, and two waits let the timer of the first be left over
in the second. The parser's constants (lengths up to 32, headers up to 64
bytes) are small so that their limits are met. `CHECK_DEADLOCK` is off: each of
the systems rests when the bounded inputs are used up, and a loop that has
stopped, or waits in `poll()` for a client, has nothing to do.

Symmetry is used where no liveness property is checked: of the values in
`lockfree_queue_mpmc`; of loggers, records, appenders and LogInfos in
`log_writer_pool`; of timers and of Events in `server_parts`. No definition
picks one of them.

The four violated runs each state what a comment, the README or a test says,
and TLC shows what the code does instead; see "findings" in `PROJECT.json`.

- `lockfree_queue_mpmc`: `MultiplePop` reads the slot before it claims it, and
  the claim compares an index that may have gone round (ABA). With
  one popper at a time and fewer values than slots this cannot happen: runs
  `db_pool_requests` and `lockfree_queue_one_popper` check that, and it is proved.
- `log_writer_taken`: `SinglePush` and `MultiplePush` do not share `write_`.
- `http_session_fragments`: `handleURL` assigns, and the parser may call it
  several times for one URL.
- `multipart_upload`: `SetData` replaces, and the multipart parser hands the
  data over in pieces.

## Fairness

Six modules state liveness. The others have only safety properties.

- `EventLoop`: the loop thread takes its next step when it has one, and a caller
  inside `AddTask` or `Quit` goes on (weak). Nothing makes a caller call, input
  arrive, or a timer be armed or come due. `AnnouncedTaskRuns` is stated for behaviours without
  `Wedged`, the state in which the pipe is full, its writer holds `mutex_` and
  the loop waits for it. TLC reaches `Wedged`; from there nothing is promised.
- `LockfreeQueue`: a thread inside a call is scheduled (weak). Nothing makes it
  begin one.
- `DBConnectionPool`: start-up, each thread inside a call or done with its
  connection, and each request that may come (all weak). That requests keep
  coming makes a lost notification harmless; without it a sleeper may stay
  asleep.
- `LogWriter`: construction, the writer and each logger go on (weak). The
  violated property has its counterexample under this fairness.
- `TcpServer`: each loop goes on with its callback, establishes and serves its
  connections, the accept loop removes what was reported, and a timer that the
  wheel has comes due (weak). The last holds because a client of the model does
  finitely much: the loop comes to rest, sleeps for whole ticks, and the wheel
  drops no more of them (`timer.cc:169`). Of a timer that the wheel lost nothing
  is assumed, and none of a program that is `broken`. No client is made to send,
  read or leave, and no loop to sleep long.
- `CoEventLoop`: the running coroutine goes on, and a pass is made when nothing
  runs (weak). A timer that is armed again and again between passes is not
  enabled all the time, so that an armed timer is in some pass is strong
  fairness, one per timer: the wheel hands out every timer that is not removed.
  It loses none here, since `handleTimeoutTimers` moves `last_rotate_time_` in each
  pass before the coroutines run that add timers (`co_eventloop.cc:105-118`).

## The proofs

Eight modules hold theorems. Each theorem holds for every value of the
constants that the module's named assumptions allow; there are no bounds but
those that are constants themselves. An invariant that a run checks is seldom
inductive, so each module strengthens it, shows that the initial states have
it and that each action keeps it (one lemma per group of actions, one step per
conjunct an action can disturb), and derives the property.

| theorem | says |
| --- | --- |
| `LoopInvariant`, `TypeCorrect`, `WakeupIsNotLost` | the invariant of the loop and its conjuncts |
| `LoopImplementsTaskQueue` | the loop is the abstract task queue |
| `TimersStayListed` | lists, positions and counts of the timing wheel agree |
| `QueueIsKept`, `NothingIsLost` | every value and every claimed slot of the ring has one owner |
| `QueueIsFifo` | the ring is the abstract FIFO queue |
| `ConnectionHasOneUser` | a database connection serves one request |
| `ConnectionIsKept`, `ConnectionEndsOnce` | who knows a TCP connection and when, and that it ends once |
| `PolledAreWanted` | `poll()` gets what the open Events want |
| `LockStaysKept` | a Redis lock stays with its client |
| `BufferStaysFifo` | the input buffer has the newest bytes, in order |
| `StreamStaysKept` | the socket gets all bytes that `Send` was given, in order |
| `InfosKept`, `RecordsKept`, `PipesServed` | each LogInfo is in one place, an accepted record is formatted once, the writer looks into every pipe |
| `ObjectsStayApart` | objects of the memory pool, held or free, do not overlap |
| `CloseStaysHeard` | the end of a WebSocket is reported |
| `ValuesAreAsAsked` | a JSON value is the list or record its calls describe |
| `LinesStayAsPattern` | a line of the log is the pattern with its conversions replaced |
| `NoCoroutineIsLost` | a coroutine that waits is in its list and something will wake it |

**EventLoop_proofs**, from `PipeCapAssumption`, `NoCallerAssumption` and
`RemoteTimerAssumption`. `NoLostWakeup` alone is not inductive: `handleWakeup`
takes a byte, so one needs that the byte is there (`WakeupReadable`) and that
the loop is then on its way to the swap; the swap empties `tasks`, and a later
`RunTask` keeps its guarantee because batches are drained (`BatchDrained`) and
announced tasks are known (`AnnouncedKnown`). There is one lemma per side:
`CallerStepKeeps`, `LoopStepKeeps`, `EnvironmentKeeps`. The refinement has one
step per action under that invariant, and lemmas on the range, head and tail of
concatenations.

`TimersStayListed`, in the same module and from `WheelAssumption` only. The
invariant (`TimerInv`) says of the wheel, while it is sound, that each slot has a
sequence of timers which `head_`, `tail_`, `size_` and the links follow
(`Linked`), that these are the timers whose position names the slot, and that
each layer counts those who wait in it (`Counted`). A list that is being drained
is a ring: `Pop` links the last node to the new head and this back to the last,
so of it `Linked` claims neither the links back nor the `nullptr` at the end. That `Erase` reads
from the links of a node whether it is the first or the last is right because no
list is a ring between the passes. The lemmas are one per operation of a list
(`LinkedPush`, `LinkedPop`, `LinkedErase`) and one per step of a pass, inside out
(`PlaceKeeps`, `PopOneKeeps`, `DrainKeeps`, `DrainLayerKeeps`, `TurnKeeps`). The
loops are recursive functions; that they exist and keep what each of their steps
keeps is `LoopExists` and `LoopLeads`, from the well-foundedness of the naturals
(`WFMin`), which stands for the induction that the library's theorems cannot give
here.

**LockfreeQueue_proofs**, from `CapacityAssumption`, `ThreadAssumption` and
`NoValueAssumption`, and for the theorems `OnePopper` and `FewerValues`. The
invariant says that the three indices follow each other round the ring
(`IndicesInOrder`), that each slot between `back_` and `write_` is some one
pusher's (`SlotsAreClaimed`), that each value has one owner among clients,
calls and published slots (`OneOwner`), and that the one popper knows `front_`
and what is there (`PopperKnows`). `ArcGrows`, `ArcShrinks` and `ArcSplits` are
the arithmetic of the ring. That a push which has found room still has it when
it claims is `RoomForAll`, by the pigeonhole principle: published slots, claimed
slots and the push itself would hold as many different values as there are
slots. The refinement maps the published slots to a sequence; a publication
appends, a take is its tail, everything else stutters.

**DBConnectionPool_proofs** uses these lemmas and gives the queue what it
needs, from `MainAssumption`, `NoThreadAssumption` and `ClientAssumption` and no
assumption on the number of connections. The mutex admits one popper
(`NobodyPops`). During start-up only one thread pushes, so room that was found
stays. When start-up ends all that was pushed lies in the ring, which is never
quite full (`RingHoldsFewer`), so those connections are fewer than slots
(`PoolFits`); from then on they only get fewer, and `RoomForAll` applies.

**TcpServer_proofs**, from `WorkersAssumption`, `NoConnAssumption` and
`BoundsAssumption`. The invariant says where a connection can be between accept
and removal: a new one in the queue of its worker, once (`TasksAreNew`); an open
one in the map of the accept loop (`OpenIsLiving`); a closed one on its way to,
or once in, the removals (`PlaceFitsState`, `RemovalsAreClosed`); poller, timers
and sessions only know connected ones (`KnownByState`, `TimerWhileConnected`,
`SessionWhileConnected`), and an Event that waits for room has something to send
(`WaitsForRoom`). A worker inside a read has its connection to itself, open and
without a timer, so that every way out of it restores the invariant. Nothing is
assumed of what was freed: the invariant speaks of the states up to `broken`.

**PollPoller_proofs**, from `PollerAssumption`: `Table` says that `pollfds_`,
`events_map_` and `index_` are each other's inverse; removal moves the last
entry into the gap, and a late update of a removed Event finds nothing.

**LogWriter_proofs**, from `LogThreadsAssumption`, `LogNothingAssumption` and
`LogInfosAssumption`. The pool of LogInfos is the lock-free queue, but used so
that its invariant does not hold: the constructor fills it with `SinglePush`,
which leaves `write_` at 0. What the proof finds instead is that this ring never
goes round: `back_` stays where the constructor left it, `front_` only grows, and
of the LogInfos that come back the one that finds room waits in its push for a
`back_` of 0, for ever; one that does not fit is dropped (`leaked`). The rest of
the invariant says that the constructor fills the slots in order, that each
LogInfo has one owner among the slots, the calls, the threads, the pipes and the
lost ones, and that a thread inside a call holds what its place in the code
says. That a pipe has room (`PipesAreServed`) is counting: the LogInfos in a
pipe are different, and fewer than its slots. For `RecordKeptOnce` the invariant follows a
record from the logger's hands through the one LogInfo that carries it to what
the writer formatted; each step of the writer moves it and leaves the sum of its
copies alone.

**CoEventLoop_proofs**, from `CoAssumption` and `PollerAssumption`. The calls of
the coroutine loop make one record of another, so the invariant (`Good`) is one
of records: no coroutine is in two lists (`Apart`); that of a connection which is
made is in one until it ended (`Placed`); a timer that was handed to a coroutine
is not armed, and one of a later wait is not made yet (`Timed`); the state of a
connection fits the place of its coroutine and the life of its Event (`Conns`);
and what wakes a coroutine that holds is there (`Holding`). Between the change of
an interest and the wakeup that belongs to it the last part does not hold of one
connection, which `Good` names. Nothing is assumed of the order in which
connections are closed: after a second close the poller may have lost the
descriptor of another connection, so the invariant asks of it only what its own
calls keep of an Event. `CoInv` says nothing once something was used that is no
more (`broken`), where the model ends. The Events of a pass are a recursive
function over `pollfds`, and the induction over it is again well-foundedness.

**Parts_proofs** has what is proved about six of the small components.
`LockStaysKept`, from `LockAssumption`: besides the property one needs that
values at the server were drawn by a client, that a holder has no command on the
way that would undo its lock, and that a granted SET has made the key.
`BufferStaysFifo`, from `BufferAssumption`: the offsets stay in the bounds of
the memory, and what lies between them is consecutive and ends with the last
byte received. `StreamStaysKept`, from the same assumption, of which it needs
that no caller of `Send` hands over a `ByteData` without packets: every
`ByteData` in the queue stands at a place in its packets and borrows nothing
(`IsByteData`, `Borrows`), and what was written and what waits are together the
numbers up to `given` (`StreamInv`). The lemmas below it are one per operation
of a `ByteData`: `IndexMoves` (a write that took n bytes leaves all behind the
first n), `CopyKeeps`, `NewDataFollows`. They speak of `FlattenSeq`, a recursive
function, whose value is proved by counting (`Counted`: a set of numbers that has
0 and with each number the next has all, from `WFMin`). `ObjectsStayApart`, from `PoolAssumption` and `OneRoomPerClass`:
every address that was ever cut from a block, held or free, keeps the room of
its class behind it, a new object begins behind all of them at the next
aligned address, and one taken from a free list has the class of its list and
therefore the room that is asked for. `OneRoomPerClass` is what this needs of
the callers: `Allocate` cuts the size asked for and not that of the class, so
that two sizes of one class with different rooms would overlap; `LogWriter`, the
only caller, asks for one size. That there is a least class that fits is the
well-foundedness of the naturals (`WFMin`), which stands for the induction that
the library's theorems cannot give here.

`CloseStaysHeard`, from no assumption, holds because a turn of `handleMessage`
that ends the channel is the last of its read (`OpenOrDone`): a second close
frame or a `ForceClose` behind it is never looked at. One lemma per state of the
loop and per kind of frame; a read is four turns, since a frame has at most four
states.

`ValuesAreAsAsked`, from `JsonValueAssumption`: `size()` of an array is its
largest index and one, so the proof needs that the list does not end with a hole
(`Whole`). Only `resize` can break that, and then it throws. That a list has a
last place that is no hole, where `removeIndex` took the last one away, is
`WFMin` again.

`LinesStayAsPattern`, from `FormatAssumption`. The invariant is that of the loop of
`parseLogpattern` (`Scanned`): what the items found so far write, and the
characters behind the last conversion, are together the pieces of the pattern up
to here. One character of the pattern is one of three (`ScanStep`): the
beginning of a conversion, its letter, or text; that the pattern ends with a
conversion is needed once, where the loop would lose the text behind the last.

Out of the prover's reach, and left to TLC: liveness under fairness and
`ENABLED`; the induction theorems of the library, which take an operator, hence
what a fold computes for every input; and anything about `RECURSIVE` operators.
A recursive function over the places of a sequence can be counted through, as
above, where its invariant is worth that.

Only model-checked, therefore: all liveness; `FiresInTime` of `TimerWheel`, which
needs the arithmetic of powers with division; `MessagesAreUnmasked`, the parsers, `RequestBody`, JSON but for the calls of
`Value`, and `Router`, which are folds and recursive functions over
sequences; `ClosedByItself` of `CoEventLoop`; `HttpSession` and `Response`.

## Not modelled

Left out for good: the context switch of the coroutines in assembler; sockets,
addresses, encodings and digests; the MySQL calls, which are one library call
behind the other; pipelined Redis commands and the cluster; the heap of
`TimerManager`, which is abandoned (`timer.h:95`); `EPollPoller`, which is
commented out, and the kqueue poller of another system; of the HTTP parser the
responses, `http_parser_parse_url` and pausing; of the JSON library the older
`Reader`, `FastWriter`, `StyledWriter`, `StyledStreamWriter`, `Path` and what no
caller reaches; `main.cc`, its configuration and its handlers.

Of the components that are modelled: the destructors and the shutdown of server,
logger and `EventLoopThread`; `Send` and `ForceClose` from threads other than the
connection's loop; a handler that answers later; a request that holds
connections of both pools; the console appender; stateless coroutines and the hooks of sleep, connect and accept; a
timer callback that removes another timer, and in `TimerWheel` one that removes
its own, which `TcpServer` has; in the coroutine version the lifetime of the
HTTP session, which is that of `TcpServer`; the fall-back of the memory pool to
`malloc`; and system calls that fail, but for a failed connect to the database,
a failed read from a client and a broken connection to Redis. The status and
note of each component in `PROJECT.json` say the same in detail.

## Facts met while modelling

What follows is what the code does where that is not what one would expect.
The properties are stated so that they hold beside it, and their comments say
so; where a document says otherwise there is a finding.

- Logging: nothing is ever stored. `createFilepath` (`log_appender.cc:42-57`)
  appends the name of the file to a path that already has it and says in every
  pass that the path is new, so that `writeLogsfile` (`60-69`) closes the file and
  opens one below it as if that were a directory, which fails. Text behind the last conversion of a pattern is dropped; `%%` before
  a letter keeps one `%`; `%d` is the time of writing, since `LogInfo.time` is
  never set; `content[n]` is written past the array for a long message
  (`logger.cc:34`).
- Timers: one added after an idle time longer than the wheel fits no layer and
  is dropped with `position_` unset, which `RemoveTimer` reads (`timer.cc:145-156`,
  `245`), so that a connection which stays silent from then on is never closed; a
  timeout closes its connection and thereby deletes the Timer that executes it
  (`tcpconnection.cc:72`, `timer.cc:37`); a timer with three repeats fires twice; one may
  come early by up to a turn of the lower layers (`199`); `AddTimer` from another
  thread does not wake a loop that sleeps without timeout (`eventloop.cc:74`).
- Pools: one of capacity n holds n - 1 connections; a request may hold a Redis
  connection while it waits for a MySQL one (`context.cc:64-74`).
- Redis: the value of a lock is the nanoseconds of the clock and not unique; a
  lost answer leaves the key locked until its lifetime ends; a connection that
  broke goes back to the pool.
- Connections: `ForceClose` after a response drops what the socket did not take
  yet (`httpsession.cc:63`), and destroys the session with the parser that is
  calling, whose `http_parser_execute` goes on in freed memory
  (`httpparser.cc:106-113`); `next_ %= threadcnt_` divides by zero without
  workers.
- Coroutines: after one holds, the rest of `running_` waits for the next pass
  (`co_eventloop.cc:137-145`); a timeout and an event of one pass resume the
  same coroutine twice (`hooks.cc:83`, marked as a TODO). A connection that is
  closed twice so takes its Event out of the poller twice: the index is that of
  another connection by then, whose descriptor is dropped, and with three
  connections a coroutine may later be erased from a list that does not hold it
  (`co_eventloop.cc`, `broken = "list"` in the model).
- Sessions: a body that does not parse gets no answer; the header field in the
  making is one static for all sessions (`httpparser.cc:9`), so a read of another
  connection between a field and its value changes it.
- WebSocket: a ping between fragments clears those before it
  (`websocket.cc:197-199`); one frame is handled per read.
- Forms: three callbacks of the multipart parser are never initialised, and are
  called when they are not NULL (`httprequest.cc:131`); a boundary that begins and then differs loses its first bytes
  (`multipartparser.cc:279`); the static field name survives a form that breaks
  off; a field without `=` that is not the last one throws (`httprequest.cc:97`).
- Router: a literal after a wildcard sibling takes over its node
  (`router.h:38`); the middlewares of a group are chosen by the prefix of a
  string (`cweb.cc:71`) and do not run for a 404.
- JSON: `resize` onto a hole throws (`json_value.cc:956`); `asInt64` of 2^63 passes the
  range check (`115`); `asDouble` rounds integers beyond 2^53 without notice
  (`796-806`); a trailing comma is accepted after an empty
  key (`json_reader.cc:1444`), any token for a comma after a comment
  (`1484-1489`), `-` for a zero; text behind the value is ignored.
- Memory pool: objects stay apart as long as those of a class are cut with the
  rest up to the alignment (`threadlocal_memorypool.cc:76`).
