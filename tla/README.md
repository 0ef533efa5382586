# A TLA+ model of High-Performance-WebServer

The repository is a small web server in C++11 in the style of muduo: one event
loop per thread, a base loop that accepts connections, worker loops that serve
them, timers on a timerfd, an HTTP layer on top, and a logging library beside it.
This directory models its core in TLA+, checks the models with TLC on small
instances, and proves the main safety results with TLAPS for all values of the
constants. Paths below are relative to `src/`; `PROJECT.json` maps every
definition to the lines it stands for.

## 1. The system

### 1.1 Components

| Component | State | Operations |
|---|---|---|
| `EventLoop` (`Util/eventloop.*`) | `to_do_list_` under `mutex_`, `calling_functors_`, the eventfd `wakeup_fd_`, `active_channels_` | `Loop`, `HandleRead`, `QueueOneFunc`, `RunOneFunc`, `DoToDoList`, `RunAt/After/Every` |
| `Epoller`, `Channel` (`Util/epoller.*`, `channel.*`) | `channels_` by descriptor, the epoll set with raw `Channel*`; per channel `events_`, `state_`, the weak `tie_` | `Poll`, `Update`, `Remove`, `HandleEvent` |
| `Acceptor` (`Util/acceptor.*`) | the listening socket, the spare descriptor `idlefd_` | `Listen`, `NewConnection` |
| `TcpServer` (`Util/tcpserver.*`) | `connections_` by descriptor, the thread pool | `HandleNewConnection`, `HandleClose`, `HandleCloseInLoop` |
| `TcpConnection` (`Util/tcpconnection.*`) | `state_`, `input_buffer_`, `output_buffer_`, its `Channel`, its `HttpContent`, `timestamp_` | `ConnectionEstablished`, `HandleMessage`, `HandleWrite`, `HandleClose`, `Send`, `Shutdown`, `ConnectionDestructor` |
| `Buffer` (`Util/buffer.*`) | a vector with a read and a write index | `Append`, `ReadFd`, `Retrieve*`, `MakeSureEnoughStorage` |
| `EventLoopThreadPool`, `EventLoopThread`, `Thread`, `Latch` (`Util/`, `Base/latch.h`) | `loops_`, `next_`; per thread `loop_` under a mutex and condition, a latch; the static `thread_id_` | `StartLoop`, `NextLoop`, `StartThread`, `StartFunc` |
| `TimerQueue`, `Timer`, `Timestamp` (`Timer/`, `Base/timestamp.h`) | timers ordered by expiration, `active_timers_`, the timerfd | `AddTimer`, `AddTimerInLoop`, `HandleRead`, `ResetTimers`, `ResetTimer` |
| `HttpServer`, `HttpContent`, `HttpRequest`, `main.cc` | per connection `parse_state_`, `request_`; idle timers when `auto_close_idleconnection_` | `MessageCallback`, `ParseContent`, `DealWithRequest`, `ConnectionCallback`, `HandleIdleConnection` |
| `HttpResponse` (`Http/httpresponse.*`, `main.cc`) | status, body, `close_connection_` of one answer | the setters, `AppendToBuffer`, `HttpResponseCallback` |
| `AsyncLogging` (`Logging/asynclogging.*`) | `current_`, `next_`, `buffers_to_write_` under a mutex; the backend's two spare buffers | `StartAsyncLogging`, `Append`, `Stop`, `ThreadFunc` |
| `LogFile` (`Logging/logfile.*`) | a `FILE*`, `written_bytes_`, `lastwrite_`, `lastflush_` | `Write`, `Flush`, the destructor |
| `Logger`, `LogStream`, `FixedBuffer` (`Logging/logging.*`, `logstream.*`) | a line being formatted on its thread's stack; `g_level`, `g_Output` | the `LOG_` macros, `<<`, `FormatInteger`, `Finish` |
| `Condition`, `MutexLock`, `CurrentThread`, `Address`, typedefs | wrappers and constants | |

### 1.2 How they interact

* **Threads.** The base loop accepts and starts `SetThreadNums(n)` worker loops
  (`main.cc` asks for 4; with 0 the base loop serves everything). A connection
  belongs to one loop for ever. Loops share only their functor lists, `shared_ptr`
  reference counts, and the members of a connection the idle timer touches.
* **Calls.** `RunOneFunc` calls at once in the loop's own thread and queues
  otherwise. A new connection is one hop (base to worker), a close is three:
  `HandleClose` in the worker, `HandleCloseInLoop` in the base loop, which erases
  the map entry, `ConnectionDestructor` queued in the worker again.
* **Lifetime.** A `TcpConnection` is a `shared_ptr` in `connections_`, in queued
  functors and in a locked `weak_ptr` of the idle timer. The last one to go runs
  the destructor, which closes the descriptor, in whatever thread that is. epoll
  keeps a raw `Channel*`.
* **Logging.** A `LOG_` statement formats a line in its own thread and hands it to
  `g_Output`, which `main.cc` can set to `AsyncLogging::Append`; the backend thread
  writes whole buffers to its `LogFile`. (The lines of `main.cc` that do so are
  commented out; `AsyncOutputFunc` is there.)
* **Backpressure.** `Send` writes directly when nothing is pending, and leaves
  the rest to `output_buffer_` and EPOLLOUT; `Shutdown` is put off while
  EPOLLOUT is enabled, and done by the `HandleWrite` that drains the buffer.

### 1.3 What is hard

The 40 hazards are in `PROJECT.json`, each at its line. In groups:

* wakeups: a functor pushed while the loop is on its way into `epoll_wait`;
* lifetimes over two threads, with descriptors reused meanwhile, and an idle timer
  in a third place that may drop the last reference;
* a descriptor table that is full, with a level-triggered listening socket;
* partial writes, a shutdown put off, and a `Shutdown` from another thread;
* index arithmetic of the buffer that is read by one `readv` into two areas;
* the two handshakes at thread start, with spurious wakeups;
* timers inserted while they fire; a wall clock compared with a monotonic timerfd;
* requests cut into reads anywhere, several on one connection, with a request and a
  callback that both decide whether the connection closes;
* buffers that change hands between the appending threads and the log's backend;
* a line near the end of its stream, a file flushed only by a later write.

### 1.4 What makes each component correct

* `EventLoop`: it is a FIFO executor. Every functor is called once, in order, and
  soon, and channels are not starved.
* `TcpServer` and its connections: no dangling `Channel*`, every queued call finds
  what it asserts, each connection has one life, descriptors come back.
* `TcpConnection`: the client's stream is a sequence of whole messages, EPOLLOUT
  and pending output go together, the FIN comes last.
* `Buffer`: it is a queue of bytes in a vector that stays small.
* Thread pool: `StartLoop` returns; loops exist before they are used; load is even.
* `TimerQueue`: nothing early, nothing forgotten, nothing used after its deletion.
* `HttpServer`: each answer belongs to its own request, whatever the reads, and the
  client can tell where it ends.
* Logging: a line is whole unless its stream was full; lines in order, none twice, no
  two in a row lost, written even when traffic stops, and what a crash would lose is
  recent.

## 2. The modules

| Module | Models | Abstract specification |
|---|---|---|
| `TaskExecutor` | what a loop promises | – |
| `EventLoop` | `Loop`, `Poll`, `QueueOneFunc`, `DoToDoList`, the eventfd | `TaskExecutor` |
| `ConnectionLifecycle` | what the server promises of a connection | – |
| `TcpServer`, `MCTcpServer` | acceptor, server, connections, epollers, idle timer over all loops | `ConnectionLifecycle` |
| `TcpConnection` | output, shutdown and close of one connection, byte by byte | – |
| `ByteQueue` | what a buffer promises | – |
| `Buffer`, `MCBuffer` | the vector and its indices | `ByteQueue` |
| `EventLoopThreadPool` | starting threads, both handshakes, `NextLoop` | – |
| `TimerQueue` | timers, the timerfd and the two clocks | – |
| `HttpResponse` | an answer, and how its end is announced | – |
| `HttpServer`, `MCHttpServer` | parser, answers, cutting into reads | a reference parse of the whole stream (`Due`, `AnswerAt`) |
| `LogFile` | the log's file: write, flush by time, roll, close | – |
| `AsyncLogging` | the four buffers and the backend thread, over `LogFile` | – |
| `LogStream` | what `<<` leaves in a `FixedBuffer` | numerals and concatenation (`IsNumeral`, `Unbounded`) |
| `Logger`, `MCLogger` | from the `LOG_` statement to the file: `LogStream` over `AsyncLogging` | – |
| `EventLoopProofs`, `TcpServerProofs`, `TcpConnectionProofs`, `BufferProofs`, `EventLoopThreadPoolProofs`, `TimerQueueProofs`, `HttpServerProofs`, `AsyncLoggingProofs` | the theorems of section 5 | |

Conventions. Variables and actions have the names of the members and methods they
stand for. Operators marked "Fault:" are plausible mistakes, used by the mutants
of `PROJECT.json` to show that each property can fail. Assertions of the code are
compiled out (`CMakeLists.txt` builds Release with `-DNDEBUG`), so the models go on
past them, and properties state them.

**EventLoop.** `pc` is the place of the loop thread in `Loop()`: `poll`, `events`,
`handler` (in a channel's callback), `calls`, `func` (in a functor). The push under
the lock (`QueueFromThread`) and the eventfd write after it (`WriteWakeup`) are two
actions, and the loop's own thread writes only while `calling_functors_`. The
counter of the eventfd is reduced to zero or not. A queue from the loop's own
thread before `Loop()` is not modelled: there `RunOneFunc` calls at once, and
nothing in the repository calls `QueueOneFunc` there. It would sleep if it did.

**TcpServer.** The loops are executors as `TaskExecutor` promises, with the three
phases of `Loop()`; a handler or functor is one step. `ReferredBy`, `Referred` and
`Alive` count the `shared_ptr`s where they are held; the destructor is part of the
step that drops the last. `Update` and `Remove` are those of `Epoller`, with the
three channel states. `registered` is the kernel's side, the interest lists: it
changes only by the `epoll_ctl` calls the code makes, and a failing one, which is
logged, changes nothing. (`ChannelsAlive` shows that none is left when a descriptor is
closed.) `idlefd` is a descriptor as the others are. `AddTimer`
functors hold a `weak_ptr`; `held` is the reference `HandleIdleConnection` has
while it runs. Whether the test of `timestamp_` succeeds is left open when a message
has come since the timer was armed, as it may have come after the test. `IdleIsShutDown`
also sees a timer lost after a recent message: if a connection stays up for good, its timer
finds new messages, and is armed again, for ever.

**TcpConnection.** Bytes are numbered in the order they are handed to `Send`, a
response is `MsgLen` of them. A `write` takes any number of bytes that fit; when
none fit it fails, and `Send` returns. The connection's own thread is at
`pc`; `idle` is the place of the base loop in the `Shutdown` of
`HandleIdleConnection`. `state_` and `events_` are plain members of two threads, so
the base loop's store of `state_` may become visible after its load of `events_`
(`IdleChecksEarly`). `MessagesAreWhole` is about the stream from its first byte, which has
to start a message.

**Buffer.** The members are one record, the methods operators on it, in the order
of the code: `MakeSureEnoughStorage`, then `CopyIn`, with `ReadFd` split in the
`readv` that fits the vector and the one that goes on in `extrabuf`.

**EventLoopThreadPool.** `main` is the thread in `TcpServer::Start`. A critical
section is an action, a wait is a position that a notification or a spurious wakeup
ends. `thread_id_++` is a read and a write. The threads are the pool's; the logging thread is
not one of them.

**TimerQueue.** A tick is the shortest delay the code arms the timerfd with.
`now` is the wall clock, `countdown` and `readable` the timerfd: `countdown` is the time left,
never zero, or `Off`, a constant that is no number, so a delay of any value is told apart from
a timerfd that is not armed. The set is changed by
the loop's thread anywhere (`AddTimerHere`) or through a functor
(`AddTimerElsewhere`, `AddQueued`). `AddTime` drops fractions of a second as the code does.

**HttpServer.** The parser looks for CRLF before anything else, so input is a
sequence of lines and a read returns some whole number of them, or none. A line is the
sequence of its words, and `IsRequestLine` and `HasColon` are what the parser asks of
it. `Path` cuts the query off a target; `WithoutQuery` says which words have one. The text
of the query is stored by the parser and read by nobody, and is left out.
An action is a turn of the loop of `ParseContent`. `waits` says whether the client sends the next request only after the answer. The reference looks at all that
is sent and keeps no state: which lines start a request (`StartsRequest`, a recursive
function), which call for an answer (`Due`) and for which one (`AnswerAt`). `DealWithRequest` makes an
`HttpResponse`, passes it to the callback of `main.cc`, which may make it close, and
shuts down by the response and not by the request; `AppendToBuffer` says a
`Content-Length` only when the connection stays open.

**AsyncLogging and LogFile.** A critical section is an action; a buffer is the numbers
of its lines and the room left. The wait for buffers may end at any time:
`WaitForFewSeconds` computes its deadline from `CLOCK_MONOTONIC` for a condition
that waits on the realtime clock, so in fact it ends at once. `crashed` is what comes
of `back()` and `pop_back()` on an empty vector, which reads and then writes through
the word in front of the allocation. `file` runs on over the files a log is rolled
through, `times` when each line was written, `opened` how many are in files that have been
replaced, and `flushed` how many have left the process: stdio may write out anything at any
`Write`, and must at a flush, a roll and the close. `UnflushedIsRecent` says which lines a
crash may take: none of a file that was rolled or closed, none older by more than
`kFlushInterval` than the last line written.

**LogStream and Logger.** Operators on the content of a stream, in the order of the
code: `FormattedTime`, what the statement gives, `Finish`. `FixedAppend` cuts,
`FormatInteger` finds digits from the last one with C's remainders and gives up
without room for the longest integer. What it writes is compared with the definition of
a decimal numeral (`IsNumeral`), by the value that the places stand for. `Logger` composes: `Log` is a `LOG_`
statement whose line, formatted, filtered by `g_level`, with or without the tid,
is appended with its own length.

## 3. The runs

| Run | Instance | What it shows |
|---|---|---|
| `EventLoop` | 2 foreign threads, 2 functors, 1 channel, list up to 3 | wakeups are not lost, the loop implements `TaskExecutor` with its liveness, channels are served |
| `TcpServer` | 3 connections, 3 descriptors, base loop alone or 2 workers | safety of the lifecycle, without the idle timer as in `main.cc` |
| `TcpServerIdle` | 2 connections, 2 descriptors, base loop alone or 1 worker, idle timer | no dangling channel with a full descriptor table, and liveness |
| `TcpConnection` | 3 responses of 2 bytes, socket buffer of 3, client may half-close | stream, EPOLLOUT and FIN, with the idle `Shutdown` at any moment |
| `TcpConnectionIdleRace` | as above, no half-close | violated: the idle `Shutdown` cuts off output |
| `TcpConnectionSendDrops` | as above, no half-close | violated: a message that meets a full socket is dropped |
| `Buffer` | all messages of up to 3 bytes over {0, 1}, content up to 4 | indices, size, `ByteQueue` |
| `EventLoopThreadPool` | 4 threads, up to 15 connections per loop | handshakes, names, round robin |
| `TimerQueue` | 2 timers, delays 1, 2 and 4, 2 ticks per second, 5 ticks | arming, ordering, deletion, and that every timer runs |
| `HttpServer` | all streams of up to 4 lines of 8 kinds; 2 or 3 requests from a client that waits | answers, where they end, and that a client that waits is answered |
| `AsyncLogging` (module `MCLogger`) | streams of 18 characters, buffers of 22, files of 24 bytes, 4 lines, times 2 to 4 with `kFlushInterval` 1 | lines whole or full, order, losses, what is not on disk, writing, `Stop` |
| `AsyncLoggingSpares` | buffers of one byte, 4 lines | violated: the backend runs out of spare buffers |

**Why the bounds are enough.**
With 2 threads one may push while another is between push and write; list length 3
has one functor called, one left in the batch and one queued behind it. In `TcpServer`
with 3 connections and 3 descriptors, one of them the spare, two connections are up
while the third waits, and a descriptor is reused while the close of its first owner is
on each of its hops; 2 workers
make round robin choose. In `TcpServerIdle` the table is full with one connection, so
the second is refused or reuses the descriptor, and the timer may lock a connection on
every hop of its close. In `TcpConnection` a socket buffer of 3 for messages of 2 gives
writes that are complete, partial, impossible, and ones that span two messages.
`Buffer` starts with 2 usable bytes and reaches both moving down and growing, and
`readv` with every split. Three delays give timers due before, together with and after
one another; delay 1 is less than a second and is truncated to zero, and the clock is
set once, either way. Four lines are a request and what follows it, or two requests
without headers; request streams go up to nine lines with three answers. In
`AsyncLogging` the shortest line is a third of a buffer and the longest fills a
stream, so with four lines buffers rotate once or twice, a line is lost between others or
last, a file is rolled in the middle of a batch, and the two seconds that pass are
more than `kFlushInterval`, so a `Write` flushes or not; statements are compared for
every pair of pieces out of integers of one to four characters of both signs, the
ends of a byte among them, and texts from empty to two thirds of the stream.

`TypeOK` of `HttpServer` and `AsyncLogging` is left to the other properties of these
runs, and that of `AsyncLogging` is proved.

**Deadlock** is checked in `EventLoop` and `Buffer`. The others may really stop: clients
may say no more, bounds on bytes, lines, time or connections are reached, or the
backend has ended.

**Symmetry** is used in `TcpServer` only (connections and descriptors), where the only
temporal property is a safety property without fairness.

**Fairness.** Threads are scheduled: weak fairness of each loop's thread, of the
backend, of the starter. `EventLoop`: callbacks and functors return, and a thread that has
pushed gets to its write. `TcpServer`: time passes (`Expire`); clients need do
nothing. `TcpConnection`: the client reads what it is sent, and a socket that stays writable
is served; the idle timer need not fire. `TimerQueue`: time passes, and every queued functor is
called, which is strong fairness of `AddQueued` because the functor competes with the loop's other
steps; `EventLoop` shows that the loop provides it. `EventLoopThreadPool`: no wait is
assumed to end by itself. `AsyncLogging`: time need not pass and nobody need log.
`HttpServer` assumes nothing: its three properties are invariants.

## 4. Where code and documents disagree

Three disagreements have a run of their own (`findings` in `PROJECT.json`): the
`Shutdown` of `HandleIdleConnection` in the wrong thread, the message dropped by `Send` on
EWOULDBLOCK, and the refill of the log's spare buffers.

Known divergences without a run, which the models follow as the code has them:

* `Http/httpserver.h:50`: an idle connection is shut down for writing and never looked
  at again. A client that stays silent keeps its descriptor, while `README.md:5` has
  the server disconnect it. `IdleIsShutDown` claims only the shutdown.
* `Util/tcpconnection.cc:52`: a client that closes its sending side loses the answers
  still in `output_buffer_`, against `README.md:46`.
* `Util/acceptor.cc:63`: only EMFILE uses the spare descriptor; after ENFILE or ENOBUFS
  the connection stays in the accept queue and the listening socket stays readable.
* `Util/tcpconnection.cc:34`: when the idle timer's `Shutdown` has set `state_` back from
  `kDisconnected` to `kDisconnecting`, `ConnectionDestructor` calls `DisableAll` a second
  time. `Epoller::Update` takes any call on a `kDeleted` channel for a registration and
  adds it to epoll again, with no events, before `Remove` deletes it. It does no harm,
  since both are in one step of the loop.
* `Http/httpserver.cc:32`: what comes after `Shutdown` is read and never consumed, so
  `input_buffer_` grows with whatever the client sends.
* `Http/httpserver.cc:39`: one request is taken from the buffer per read; a second one
  in the same read waits for more bytes. `NoRequestIsLeft` is stated for clients that
  wait for their answers.
* `Http/httprequest.cc:60`: the `?` of a query is looked for up to the end of the line, not
  of the target. One behind the target gives `query_` a range that ends before it starts, and
  `assign` throws where the model would refuse the request. `HttpServerAssumption` leaves such
  request lines out.
* `Http/httpcontent.cc:37`: any line without a colon ends the headers, and a body is
  parsed as the next request line (`README.md:49`).
* `Logging/asynclogging.cc:13`: the line that does not fit rotates the buffers and is
  stored in none of them. Lines in `current_` when `Stop` is called may be lost too.
* `Logging/logstream.h`: a line near the end of its stream loses its integers first,
  then text, and its end of line with it, so that it runs into the next one. The first
  line of a thread has no tid: the constructor calls `CurrentThread::tid` after
  `FormattedTime` (`logging.cc:50`).
* `Logging/logfile.cc:34`: a `Write` flushes by the time of the last line written, and the
  backend's `Write` of nothing does not move it. When traffic stops, what stdio still holds
  stays in the process until the next line or the end. `UnflushedIsRecent` compares with the
  last line written and not with the clock.
* `Util/thread.h:56`: the logging thread increments `thread_id_` too, after its starter has gone
  on and without a lock, so next to it two threads of the pool could get the same number.
  `NamesDiffer` is about the pool alone; `main.cc:73-76`, which would start the log, is
  commented out.
* `Logging/logfile.cc`: on a full disk `Write` goes on trying and does not return.
* `Base/condition.cc:11`: the deadline is on the monotonic clock, the wait on the
  realtime clock; it ends at once, and the backend polls.
* `Base/timestamp.h:65`: `AddTime` drops the fraction of a second, so
  `RunEvery(0.5, ...)` repeats as fast as the timerfd can be armed.

## 5. Proofs

All theorems hold for every value of the constants allowed by the module's named
`ASSUME`, and use nothing else.

* **`EventLoopProofs`** (`EventLoopAssumption`: the names do not clash).
  `LoopInv` is `TypeOK`, `LoopState`, `NoLostWakeup` and `WakeupReadSucceeds`.
  `NoLostWakeup` is not inductive without `LoopState`: that `QueueInLoop` may leave the
  eventfd alone depends on `calling_functors_` being set exactly between the swap and
  the end of the batch. From it follow `TypeCorrect`, `WakeupNeverLost`,
  `WakeupReadNeverFails` (the assertion of `eventloop.cc:65`), and
  `ImplementsExecutorSafety`: each step is a step of `TaskExecutor` or a stutter, with
  `functors \o to_do_list` for its queue.
* **`TcpConnectionProofs`** (`TcpConnectionAssumption`: lengths are positive).
  `WritingInv` adds to `WritingIffPending` that inside `Send` a byte is left and that only
  an open channel is handled; it gives `OutputIsNeverStuck`, with the idle timer
  included. `FinInv` adds `OwnShutdown`: while the base loop has not entered `Shutdown`
  (`Undisturbed`), a FIN is sent only between two requests and no request is answered
  after it. `DisturbedForGood` makes the implication inductive. It gives `FinIsLast`; the
  run `TcpConnectionIdleRace` shows that the condition cannot be dropped. `StreamInv`
  follows the bytes from `Send` to the client: received, in the socket buffer, in
  `output_buffer_` and in the message at hand they are, joined, whole messages in
  order. It gives `StreamIsWhole`; `TypeInv` gives `TypeCorrect`.
* **`BufferProofs`** (`BufferAssumption`: `kPrePendIndex <= kInitialSize`, messages of
  bounded length). `BufferInv` is `TypeOK` with the bound on the size. Lemmas state what
  `MoveDown`, `Resize` and `CopyIn` do to the content; `TypeCorrect`, `VectorIsBounded`
  and `IsAQueue` follow.
* **`EventLoopThreadPoolProofs`** (`PoolAssumption`). `PoolInv` says that threads are started
  one at a time, that at most one of them is between "run" and "loop", and that the loops
  before `next_` have been given one connection more than the rest. It gives
  `TypeCorrect`, `LoopsExist`, `ThreadsAreToldApart` (`thread_id_` is never incremented by
  two threads at once, because the starter waits for `loop_`) and `LoadIsEven`.
* **`TcpServerProofs`** (`TcpServerAssumption`: the names do not clash). `ServerInv` is a
  table of the places a connection can be in. A connection is `Kept` when the map, a
  functor or somebody on a stack has a reference; kept ones have descriptors of
  their own (`OwnFds`), and what the map and an `Epoller` have under a descriptor is
  the connection that owns it (`InMap`, `InEpoller`). `OfChannel` relates the states
  of a channel: added is the same as registered and reading, and then the map has the
  connection; deleted means that a close is on its way. `OfFunctors` says what each
  functor in flight implies, and `Lists` that a connection has only one at a time.
  `ChannelsAlive` alone is not inductive: that the channel of `kDeleted` state is not left
  behind depends on the functor that will remove it, and that functor's validity on
  the map. It gives `TypeCorrect`, `NoDanglingChannel` and
  `PendingCallsFindWhatTheyAssert`, the idle timer included. `LifeInv` adds what the
  phases need: that a connection without a descriptor is a new one, that an accepted one is
  `kConnecting` exactly while its start is on its way, and that the idle timer's `Shutdown`,
  which sets `state_` too, meets none before it is established. Every
  step then does one of a few things to a connection (stand still, accept, establish,
  close, drop a last reference), each a step of `ConnectionLifecycle` or a stutter, which is
  `ServerImplementsLifecycle`.
* **`TimerQueueProofs`** (`TimerQueueAssumption`: times are natural numbers, `Off` is none).
  `TypeOK` has the timerfd armed with a positive time or not at all. `Covered` says that a loop which may block has
  a timerfd that is readable or is armed no later than its earliest timer, and `DueTimers`
  that only timers already due are taken out to run. `LeastTime` (by well-founded
  induction on times) gives the first of a set of timers. They give `TypeCorrect`,
  `EarliestStaysCovered`, `DeletedIsGone` and `NoneIsEarly`.
* **`HttpServerProofs`** (`HttpResponseAssumption`, `HttpServerAssumption`: streams and
  requests are sequences of lines, and no line that starts with a method has a `?` behind its
  target; `RequestsAssumption`: a client that waits ends each
  header with an empty line). `DelimitedInv` adds to the property that while the server has
  not shut down every answer has its length; it gives `AnswersEnd`. `ParserInv` relates the
  parser to the reference: buffer and unread lines are the rest of what is sent, the state
  of the parser and the header fields it keeps are those the reference has for the lines
  taken so far (`TakenInv`), and a client that waits has an answer to every request but the
  last when it sends the next (`WaitInv`). Without the state, `AnswersAreRight` is not
  inductive: what the next answer will be is still in `HttpContent`. It gives
  `AnswersFollowRequests` and `NoRequestIsForgotten`. TLC has checked the invariant on the
  instance of the run.
* **`AsyncLoggingProofs`** (`LogFileAssumption`, `AsyncLoggingAssumption`,
  `NullAssumption`). The lines on their way form a `Chain` of lists: the file, the buffers
  swapped out, those queued, `current_`. `Spares` says that whatever becomes `current_`
  is empty; then each step is one of the relations of `ChainStep` (nothing moves, a list
  opens, one grows by the line appended, two join). `Order` and `Losses` are preserved by each
  relation, which gives `LinesKeepOrder` and `NoTwoInARowAreLost`; for
  `UnflushedIsRecent`, `Unflushed` says that the last flush is no older than `kFlushInterval`,
  by the last write, and that what is unflushed came after it (`UnflushedStaysRecent`).
  The second half is about `Logger` (`LoggerAssumption`: a stream has room for the longest
  integer and is no longer than a buffer, an integer and its '\0' take no more than
  `kNum2MaxStringLength`). `AllDigits` shows that the loop of `FormatInteger` finds the
  digits of any integer, by the value that `ValueOf` gives them, and `CharactersAreNumeral` that
  turned round, sign last, they are its numeral. `InsertAdds` is one `<<`: all of the
  piece, or a stream as good as full, which it then remains; so `LineIs` follows for any
  statement. `CurrentIsShort`, that `current_` has no more than a stream per line, needs
  `Spares`. They give `LinesStayWhole`. A line is from one byte to a whole buffer long, so
  `LoggerSpec` implies the `Spec` of `AsyncLogging` (`LoggerUsesTheLog`), and the theorems about
  the log hold for the macros (`LoggerKeepsItsLines`).

**Recursion.** The theorems of the library for induction and for recursive functions take
an operator as a parameter, which the provers cannot instantiate. The proofs about `HttpServer`
and `Logger` do without them: the numbers for which a fact holds form a set, and if any were missing
there would be a least one (`LeastNumber`, from the well-foundedness of the naturals;
`Induction` is the usual form of it). That a recursive function is what its
definition says is proved from it too, by building the function up to each argument
(`DigitsExist`, `DigitsAgree`, `ValuesExist`, `StreamsExist`, `JoinsExist`).

Every invariant, action property and refinement that a run checks is proved, each for all
values of the constants, except the parts that are liveness. **Only model-checked** are: the
liveness properties (`IoIsServed`, `AcceptQueueDrains`, `ClosedByPeerIsReleased`,
`IdleIsShutDown`, `ShutdownCompletes`, `StartReturns`, `TimersRun`, `StoredLinesAreWritten`,
`StopReturns`) and the liveness part of `ImplementsExecutor`, since TLAPS does not prove
liveness under fairness nor anything with ENABLED; and the three violations.

## 6. Not modelled, and why

* The text of headers, pages, dates and addresses: formatting. An answer is a message of
  fixed length in `TcpConnection`, and its status, size and announced length in `HttpServer`.
* The default output of the log to stdout, the names of its files, and
  `AsyncLogging::Flush`, which flushes stdout and is called by nobody. A full disk.
* Destructors of loops, server, pool and acceptor: `Loop()` never returns (nothing
  clears `running_`), so none of them runs.
* `bind`, `listen` and other errors that end the program or are only logged; a `read` that
  fails, which is logged and followed by a read that returns 0; a failing `write` in
  `HandleWrite`, which changes nothing.
* Growth of the array of `epoll_wait` and of `input_buffer_` after `Shutdown`.
* `Address`, `CurrentThread`, callback typedefs: no state that changes.

## 7. Plan

Order: the executor first, since every other component lives in it; then the lifecycle
across loops; then the stream of one connection; then the parts below and beside them
(buffer, pool, timers, HTTP, logging). All of these exist. What is left, in this order:

1. `TcpServer`: ENFILE and a descriptor taken by another thread (`acceptor.cc:63`), and a
   failing `read`.
2. A composition of `EventLoop` with the loops of `TcpServer`, in place of the executor:
   `ImplementsExecutorSafety` is the theorem that it would use.
