# TLA+ verification of learningC

This directory specifies the repository in TLA+: the event loop, the
multi-Reactor chat server built on it, the framing of its protocol at both ends,
the desktop client, the HTTP client and load generator of the same tool, the web
servers, the thread pool and the logger. TLC model-checks every module on small
instances; TLAPS proves the safety properties that matter most for every value of
the constants. Paths below are relative to the repository's root; `include/` is
`src/include/` in `PROJECT.json`, and so on.

## 1. The system

### Components

| Component | Source | State | Operations | Status |
|---|---|---|---|---|
| EventLoop | `include/EventLoop.hpp` | `running_`, `pending_`, `mutex_`, the wake-up eventfd, the thread that loops | `loop`, `quit`, `runInLoop`, `handleWakeup`, `doPendingFunctors`, the `postDispatch` safe point | modelled, proved |
| Poller, Channel | `include/Poller.hpp`, `include/Channel.hpp` | `channels_`, the kernel's interest list, `events_`/`revents_` | `updateChannel`, `removeChannel`, `poll`, `handleEvent` | partly: inside the modules of their users |
| Chat server, connections and routing | `src/chat_server.cpp` | one `SubState` per sub Reactor (`conns`, `pendingReap`, `usersDirty`), the shared `nameIndex_` | accept, adoption, Login, Say, Bye, close, Users broadcast, idle scan | partly (section 7), proved |
| Chat server, output | `src/chat_server.cpp` | `Connection::out`, `closeAfterFlush`, `events_`, both epoll instances | `sendFrame`, `sendError`, `flush`, `onWrite`, half close, `closeConn` | modelled, proved |
| Chat server, start and end | `src/chat_server.cpp` | `EventLoopThread`, `g_wakeupFd` | `start`, `onSigint`, `onWakeup`, `run` | partly: the end is modelled and proved, `start` is the initial state (section 7) |
| Framing and receive buffer | `include/Buffer.hpp`, `onRead` of `src/chat_server.cpp`, `qt-client/protocol.h` | the bytes with their read and write index, what was read and not yet taken | `pack`, `take`, `readFd`, `retrieve`, `append`, the frame loop | modelled, proved |
| Chat client | `qt-client/tcpclient.cpp` | the socket, its input, `splitPending_`, `connecting_`, `closing_`, three kinds of single-shot timers | `connectTo`, `sendFrame`, split send, `disconnectFrom`, `receive` and the slots called inside it | modelled, proved |
| HTTP client | `qt-client/httpclient.cpp` | the reply, the timer, `timedOut_`, `cancelled_`, `truncated_` | `send`, `readBody`, `cancel`, `finish` | partly (section 7), proved |
| Load generator | `qt-client/benchmark.cpp` | the runner on the window's thread, the worker with its requests on another, the queued calls and signals between them | `start`, `stop`, `fill`, `consume`, `finish`, the destructor | partly (section 7), proved |
| User interface | `qt-client/mainwindow.cpp` | which buttons are enabled, what is shown of a run or of the connection | clicks, the signals of the three clients, `closeEvent` | partly (section 7), proved |
| Web server, one Reactor | `src/webserver.cpp` and its annotated copy `src/webserver_flow.cpp` | the table of connections, timer, wake-up | accept, read, answer, idle close, end | partly (section 7), proved |
| Web server, thread pool | `src/webserver_thread.cpp` | the epoll set, the queue of tasks | accept, one read, hand-over, answer | partly (section 7), proved |
| Web server, several Reactors | `src/webserver_multithread.cpp` | one epoll and one table of buffers per sub Reactor, the round robin | accept, hand-over, read, answer, close | partly (section 7), proved |
| Thread pool | `include/Threadpool.hpp` | `tasks_`, `stop_`, `cv_`, the workers | `submit`, `worker`, destructor | modelled, proved |
| Logger | `include/simpleLogger.hpp` | `buffer_`, `running_`, `cv_`, the file | `log`, `background_work`, destructor | modelled, proved |
| Trace, echo server, draft of the chat server, lessons, scripts | `include/Trace.hpp`, `src/server.cpp`, `src/chat_serverLearn.cpp`, `src/lesson1.cpp` | | | not modelled (section 7) |

### How the components interact

* The main Reactor of the chat server (the thread of `main`) owns the listening
  socket, the idle timer and the SIGINT eventfd. It never touches a connection: it
  posts a task to the sub Reactor the round robin chooses (`runInSub` ->
  `runInLoop`).
* A sub Reactor is a thread whose `EventLoop` is a local variable of the thread
  function. Each iteration is: `epoll_wait`, the callbacks of the batch, the
  tasks posted from elsewhere, the safe point. At the safe point the
  connections closed in this iteration are destroyed (`pendingReap`) and, if the
  list of users has changed, the new one is broadcast.
* Sub Reactors share one table, `nameIndex_` (nickname to loop and descriptor),
  under a `shared_mutex`, and post tasks to each other to deliver messages. A
  post to one's own loop runs inline.
* `flush` registers EPOLLOUT through `loop_`, which is the **main** Reactor's
  loop, although the Channel is registered with the sub Reactor's epoll. So two
  epoll instances and two threads may deal with one connection.
* Thread pool and logger are libraries of one condition variable each. `src/main.cpp`
  uses both: the tasks of the pool log, and the logger, declared last, is destroyed
  first.
* The chat client and the chat server meet only in the bytes of a TCP connection.
* The window of the desktop tool and its three clients live on one thread; the load
  generator's worker, with an `HttpClient` for each request, lives on a second one.
  Calls and signals between the two are queued, in both directions.
* In the web servers a descriptor passes from hand to hand: from the accept to the
  table of the Reactor; from the epoll set to a task and a worker; from the main
  thread to one sub Reactor.

### What is hard

Races between `quit`, posts and the end of a loop; lost wake-ups; objects
destroyed under a batch of raw pointers; state read under a lock and used after
it (the addressee of a private message); broadcasts that cross in two queues;
reused descriptors; full kernel buffers; data that arrives together with FIN;
frames cut anywhere; timers, split sends and queued signals of one session that act
on the next; slots that connect or disconnect inside the loop that called them; a
stop that crosses the end of the run it meant; a destructor that waits for a
thread with requests in flight; idle closes in the middle of a batch; the order
in which threads and the objects on their stacks end. `PROJECT.json` lists each at
its line under `hazards`, with the properties that cover it.

## 2. Modules

| Module | What it specifies |
|---|---|
| `TaskExecutor` | The contract of `runInLoop` and `quit`, without threads: accepted tasks run once each in order; a task is refused only after `quit`; the executor stops only with nothing left. |
| `EventLoop` | The loop, its posters, its quitters and its Channels. One step per access to shared state: a load or store of `running_`, a critical section, a read or write of the eventfd, an `epoll_wait`, a callback. |
| `SubLoops` | The sub Reactors and the connections dealt out to them in turn, which `ChatServer` and `ChatShutdown` share. |
| `ChatServer` | Main Reactor, sub Reactors with their queues, the shared index, connections over reused descriptors, the messages routed. |
| `ChatSend` | One sub Reactor and the main one with both epoll instances; output that the kernel takes in part; half close; the callbacks of both threads. |
| `ServerEnd` | What the chat server owes its connections when it ends: the state this is about and the two properties. |
| `ChatShutdown` | From SIGINT to the return of `run()`: notice, quit, join, clean-up, while the sub Reactors go on to take messages and broadcast. |
| `Framing` | The frames as sequences of words; `Wire::pack` and `take`; `Buffer` with its two indices. Operators only. |
| `FrameReader` | `onRead` as the reader of one stream that arrives in any pieces, ended by the peer at any place. |
| `TcpClient` | The chat client with the buttons of its window: sessions, timers, split sends, `receive()` interrupted by its slots. |
| `Endpoints` | `TcpClient` and `FrameReader`: each end of a connection alone, with any peer, and the two ends joined by a network. |
| `HttpClient` | One request from `send()` to `finished()`: reads, limit, timeout, cancel. |
| `Benchmark` | Runner and worker of the load generator with the two queues between their threads. |
| `MainWindow` | The window over `HttpClient` and `Benchmark`, and the end of the program. |
| `ThreadPool`, `SimpleLogger` | The two libraries, each with arbitrary users. |
| `LoggingPool` | Both as `src/main.cpp` composes them; it implements both. |
| `WebClients` | Browsers, sockets, descriptors and the loop that cuts requests out of a buffer: what the web servers share. |
| `WebReactor`, `WebPool`, `WebSubReactors` | The three designs of the web server. |
| `WebServers` | The three with the same browsers and the same properties. |
| `EventLoopProofs`, `LoggingPoolProofs`, `ChatServerProofs`, `ChatSendProofs`, `ChatShutdownProofs`, `EndpointsProofs`, `MainWindowProofs`, `WebServersProofs` | Theorems with their proofs. |
| `MCLoops` | `EventLoop` and `ChatShutdown` as one instance: which of the two runs is chosen at the start. |
| `MC*` | Instances for TLC; the values of the constants are in the `.cfg` files. Symmetry of the nicknames is used where no liveness is checked. |

The variables carry the names of the fields they stand for, and each is
commented with its field at its declaration. `map` in `PROJECT.json` gives the
lines of every definition. Operators commented `Mutant:` are faulty variants of
the definition they stand before. They are used in no specification and document
which bug each property would catch (`mutants` in `PROJECT.json`).

### Correspondence, module by module

**EventLoop.** `lpc` is the position of the loop thread: `new`, `check` (the test
of `running_` in `loop()`), `poll`, `dispatch`, `swap`, `run` (inside
`doPendingFunctors`), `post` (the safe point), `final` and `finalrun` (the second
`doPendingFunctors`, after the while) and `exited`. A poster goes through `PostLock`,
`PostAccept` or `PostRefuse`, `PostPush` and `PostWake`, so `quit()`, which stores
`running_` without the mutex, can fall between the test and the push. A Channel
closed by a callback is `retired` and is freed only by `PostDispatch`.

**ChatServer.** `phase[i]`, `ready[i]`, `locals[i]`, `posts[i]` are where the
thread of sub Reactor *i* stands: in a batch of events, in a batch of tasks, in the
middle of a `forEachSub`. Between two posts of one broadcast every other thread
may act. A private message is taken in two steps, the lookup under the lock
(`HandleSayTo`) and the task that finds the connection by its descriptor
(`RunPrivate`). A send to a connection whose peer has reset it fails, and
`sendFrame` closes it inside the broadcast (`FailedOf`). `runInLoop` is one step
here; `EventLoop` justifies that by refinement of `TaskExecutor`. While the
server serves, no loop is stopped, so no post is refused.

**ChatSend.** A step is one callback: `OnRead` with all the frames it finds,
`OnWrite`, or the error callback. `Settle` is what every callback ends with: the
kernel takes `n` frames, the rest asks for EPOLLOUT through the main `Poller`,
and the connection may be closed. `UpdateSucceeds` is the choice between ADD and
MOD that `Poller::updateChannel` makes from `channels_`, against what the kernel
has. The two threads running callbacks of one connection at once is a data race
in the program, with no defined outcome; the model keeps one of the outcomes
(they take turns), records the connection in `foreign`, and most properties are
stated for the connections outside `foreign`.

**ChatShutdown.** `mpc` is the stage of the main thread (serving, notify, closing,
quit, wake, join, clean, done), `next` the loop it has come to; `tpc[i]` the place of a
sub thread, `gone` once `loop()` has returned and the local `EventLoop` with it. `quit()`
is two steps, the store to `running_` (`QuitSub`) and the write of the eventfd (`WakeSub`);
a thread that is not asleep may see the first and be gone before the second. The tasks
are three: an adoption, the notice, and any other, which stands for a Users list, a
message and an idle scan alike, as each of them may close connections and does nothing
else that matters here. Main posts idle scans, a callback posts a message to one loop or
to all, the safe point posts the list; `PostOne` takes them loop by loop and runs inline
what is for the thread's own loop. Accepts and scans go on in the batch that holds
`onWakeup`. `runInLoop` is one step, as in `ChatServer`.

**Framing, FrameReader.** The unit is the 32-bit word, since each field of the
header is one and neither decoder looks at part of a word. A word is a number
whatever field it fills, so a decoder that loses its place reads wrong numbers in
the model as in the program. `Buffer` keeps its two indices; `retrieve` resets them
when all is consumed. The length field is checked before it is added to.

**TcpClient.** Everything runs on the thread of the window; a step is one event (a
click, a signal of the socket, a timer). `receive()` alone is interrupted, by the
slots of `frame()`, which may connect, disconnect or send; `rpc` is its position. The
single-shot timers are a set of records that outlive their session, as the lambdas
do, with the guards the code gives them. `written` is what the socket took of the
current session; a socket that takes part of a frame is one of its outcomes.

**Endpoints.** A behaviour has one of three kinds (`end`). The client or the server
runs alone, its peer writing any words, since neither can know which program is at the
other end. Or both run: each word that `Drain` takes from the socket's queue is a word
the server is sent (`Transmits`); `connectTo` gives the new socket a Connection of its
own (`NewConnection`), after which the one before is followed no further; a socket that
is gone ends its stream at the server (`PeerCloses`). The network may be slow and a
connection may be reset at any time; a server that has closed drops what still comes.
`HandledAsReported` compares the two histories: the frames the client reported as
queued and those the server handled.

**HttpClient, Benchmark, MainWindow.** The flags of `HttpClient` are set right before
`abort()`, which emits `finished()` before it returns; so the end of a request is one
step that knows its cause. In `Benchmark`, `calls` and `signals` are the two event
queues, and a step of either thread takes one entry. `cancel()` of a request calls
`consume()` directly, on the same thread. `MainWindow` adds which buttons are
enabled, that each click is possible only then, and the end: `closeEvent`, the
destruction of the runner (which posts `stop` and waits for the worker's thread).

**ThreadPool, SimpleLogger, LoggingPool.** One step per critical section,
notification and task or batch; the condition variables also wake threads
spontaneously. In `LoggingPool` a task logs or submits; `main` destroys the logger,
then the pool. A `log()` after the logger is gone is a use of a destroyed object;
it is a step that changes nothing (`TaskLogsTooLate`), one of the outcomes.

**The web servers.** A request is any number of parts `p` and its last part, `k` to
keep the connection or `c` to end it. `sent[c]` is all that a browser sent; a server
holds part of it (`Held`) and the kernel the rest (`unread`). In `WebReactor` the
callbacks of a batch come in any order; `flow` tells `webserver_flow.cpp` from
`webserver.cpp`, which differ in a callback that finds its connection gone (the first
returns, the second gives `removeChannel` a null Channel, `crashed`). In `WebPool` a
worker reads nothing: it has what the main thread read, and a request not complete
there is `abandoned`. In `WebSubReactors` the close of a descriptor and the removal
of its buffer are two steps, since the main thread may accept the same number in
between and give it to the same sub Reactor. What is in the buffer then belongs to the
connection that is gone: the thread erases it before it reads again, so that to the new
connection it counts as empty (`Content`).
`Answer` is the loop of `webserver.cpp`, which looks at each request by itself;
`AnswerAll` that of `webserver_multithread.cpp`, which looks for `Connection: close` in
all of the buffer, also in a request that is not complete (`said`). What a closed
connection has been answered therefore differs, and `SettledAtEnd` says it server by
server.

## 3. Runs

Each run finishes within two minutes on two workers.

| Run | Instance | States | What it shows |
|---|---|---|---|
| `loops` | one loop with 2 posters x 1 post, 1 quitter, 2 Channels; or 2 loops with 2 connections and 1 message or scan at the end of the server; fair | 389,670 | of the loop: order of tasks, drain at exit, no lost wake-up, no Channel freed under a batch; accepted tasks run and `quit` ends the loop (`LoopProgress`); the refinement of `TaskExecutor`. Of the server's end: notices, closed descriptors, the end is reached |
| `chat_members` | 2 loops, 2 connections on 2 descriptors, 2 Says, 1 reset | 2,021,315 | `NamesMatch`: the index agrees with the connections of all loops; `PerSenderOrder` |
| `chat_one_loop` | 1 loop, 3 connections on 2 descriptors, 1 Say, 1 reset, timer, fair | 131,389 | with one sub Reactor private messages are private, lists current, and a new user is sent a list with its own nickname; `BatchAlive`: no connection is destroyed under a batch, also when the callback of one closes another that is later in it |
| `chat_send` | 2 connections on 2 descriptors, 2 frames each, a kernel buffer of 1 | 892,287 | registrations of both epolls (`EpollsMatch`), output, half close |
| `pool_logger` | 2 workers, 2 clients x 1 submission, 3 messages, fair | 449,134 | nothing lost or run twice, both drains, wake-ups, what finished tasks logged is in the file, everything submitted or logged gets done, both destructors return |
| `tcp_session` | frames of at most 4 words, 2 calls of `connectTo`, 2 sends, 6 words to the server, fair | 1,818,282 | at the client: what it writes is whole frames or one unfinished at the end (`StreamAligned`), what it hands out are the frames it was sent (`ReceivedExactly`), the window tells the truth, waits end; at the server: every frame handled, whatever the cuts; from end to end: the frames handled are the frames reported, in order, and in the end all of them (`EveryFrameHandled`, with `HandledAsReported`) |
| `http_load` | 2 runs of 3 requests, 2 at a time, 1 request of the window, fair | 294,444 | honest results, counts that add up, a stop ends the run it was asked for, buttons and shown numbers consistent, every wait ends |
| `web` | 2 connections, 2 parts of requests in all, 1 tick, 2 workers or 2 sub Reactors, fair | 178,967 | answers belong to the requests of their connection; every descriptor is in one hand; a connection that stays open gets an answer to every whole request, one that is closed has had those its server gives (`SettledAtEnd`), which are not always one for every request read |

Four more runs are expected to end in a violation; section 5 describes them.

### Bounds, and why they are enough

* *Two loops, two posters, two workers.* Every race in this code is between one
  thread and another, or between two that share a third: a poster and a quitter on
  one loop, two loops on the index, two loops and the queue of either. Two loops
  give inline and queued posts, and crossing broadcasts. `BatchAlive` is checked with
  one loop instead: the round robin gives two loops one connection each, and a batch
  must hold two for one of them to close the other.
* *Two connections and one message or scan* (`loops`): two connections are one for each
  loop, adopted before or after the notice; a message taken by a loop that has not been
  quit reaches one that has, or the queue in front of the notice. The theorems cover
  any number.
* *Three connections on two descriptors* (`chat_one_loop`, `chat_misdelivery`): with
  two of them open, a close lets the third take the descriptor of a connection that
  others still refer to. `chat_members` has two connections, so that it can have two
  messages; there the proofs of `ChatServer` cover the reuse for any number.
  In `chat_send` and `web` two connections suffice: the second reuses the descriptor
  of the first, or lives beside it.
* *A kernel buffer of one frame* (`Cap`): with two frames there is an output the
  kernel takes wholly, in part and not at all.
* *One reset* lets a send fail inside a broadcast. *Two Says* are what an order
  needs; one is enough for a private message.
* *One post* per poster: two posters already fill the queue with two tasks while a
  third thread quits. For more, `EventLoop` has its proofs.
* *A payload of one word* (`tcp_session`): frames with and without payload, a length
  too small, right, and too large, and a frame that is one word short of whole. Two
  `connectTo` calls give a session and the one its timers may disturb. `Words` holds
  the two lengths there are, one below and one above them, and the magic number. When
  both ends run the server writes nothing (`SessionReplies`): the client alone is
  checked with every reply, and what a reply can do to the client's output, end the
  connection or run a slot that sends, events do as well; the theorems have no such
  bound.
* *Three requests, two at a time*: a full window and one request to refill it with.
  Two runs let a signal or a stop of the first reach the second.
* *Two parts in all and one tick*: a request that is cut, two that are pipelined, one
  on each connection; one idle close.
* `MaxPosts`, `MaxOthers`, `MaxSubmits`, `MaxMsgs`, `MaxSays`, `MaxFrames`, `MaxConnects`,
  `MaxSends`, `MaxWords`, `MaxRuns`, `MaxCalls`, `MaxSignals`, `MaxParts`, `MaxTicks`
  bound otherwise unbounded inputs and appear only in the guards of the actions that
  take the input. The timer of `ChatServer` posts at most one scan per loop that has
  not been taken.
* Deadlock is tested only in the run with a timer (`chat_one_loop`). The other
  systems may really stop: a loop that has been quit, a pool that has been destroyed,
  a server that no client talks to any more, as the inputs are bounded.

### Fairness

Weak fairness of each thread that is inside the program's own code: a loop
thread, a poster or submitter between its push and its wake-up, a worker, the
main thread during the shutdown, the thread of the window while an event or a
signal is queued, the worker of the load generator, the step of a web server. The
operating system's scheduler and mutexes that are held for a few instructions
justify it. Timers that were started expire (`Timeout` of `TcpClient`,
`HttpTimesOut`, the timer of `chat_one_loop`). The environment has no fairness:
nobody need connect, post, log, reset, send, answer, click, call `quit` or send SIGINT.
In the load generator each request in flight ends, because its `HttpClient` has a
timer that the code always starts. Tasks return: a pool task that blocks for ever
would defeat `EveryTaskRuns` in any pool. `NewUserListed` rests on the chat server's
timer too: a failed send inside the hook's broadcast marks the list dirty after
the hook has cleared the mark, and on a quiet loop nothing but the timer brings
the hook back.

## 4. Proofs

Each proof starts from the named assumption on the constants of its module and
holds for any sets of actors and any bounds. The pattern is always the same: an inductive
invariant, which TLC checked first, one lemma per action, and the published
properties as its consequences.

**EventLoop** (`EventLoopProofs`): `TypeCorrect`, `OrderCorrect`, `DrainCorrect`,
`WakeupCorrect`, `BatchCorrect`, and `Refinement` (`Spec => ImplementsExecutor`).
The inductive invariant is

    IInv == TypeOK /\ LockHeld /\ InCall /\ Drained /\ AcceptedInOrder
            /\ Announced /\ BatchAlive

None of the published properties is inductive alone. `DrainedAtExit` needs `Drained`:
once the loop has left its final critical section no poster may still be before its
push. That in turn needs `LockHeld`: a poster past the test of `running_` holds
the mutex, so the loop cannot swap until it has pushed, and a poster that locks
after the swap sees `running_` false. `NoLostWakeup` needs `Announced`, which
extends the claim from `poll` to all the places from which the loop goes there.

**ThreadPool** (`LoggingPoolProofs`), the empty sets of workers and clients included:
`TypeCorrect`, `LossCorrect`, `OnceCorrect`, `WakeupCorrect`, `DrainCorrect`. The
invariant adds `Numbered` (a task being submitted is new), `HoldsWhileRunning` and
`EmptyAfterExit` (a worker returns only with `stop_` set and an empty queue, which
stays empty because `submit` throws). The last is why `notify_one` may find nobody
waiting without losing a task, and why the queue is empty when the destructor has
joined all the workers. `DrainedAtEnd` assumes at least one worker:
`hardware_concurrency()` may be 0, and then nothing runs.

**SimpleLogger** (the same module): `LogOrderCorrect` and `LogExitCorrect`. What ties
them together is `LogStopping`: the worker leaves its loop only after the destructor's
critical section and with both sequences written, so `before` (what was logged until
then) is at most the length of the file when it looks at the buffer the second time.

**LoggingPool** (the same module): `PoolImplemented` and `LoggerImplemented`, that
the composition implements `ThreadPool` and `SimpleLogger`, step by step, so all that is
proved of the two holds of it; `WrittenCorrect` from that; and `FinishedCorrect`, for
which `Authors` adds who logged what: a task that is over logs no more.

**ChatServer** (`ChatServerProofs`): `NamesCorrect`, `BatchesCorrect`, `OrderCorrect`.
The first two rest on `ConnsOK /\ QueuesOK /\ BatchesOK`: the index, the states and the
nicknames of the connections; the kinds of tasks in the queues; batches that hold
the loop's own connections and are empty outside of the phase of events, so that the
safe point can free none of them. The order of messages needs an invariant over
everything on its way: the queues are in order (`QueuesInLine`), a broadcast posts to
each loop once (`PostsApart`), nothing waits in the queue of its sender's own loop
(`QueuedFromElsewhere`, the inline path), what a loop is about to post is the latest of
its sender (`PostedLast`), and what was received precedes what is still on its way
(`ReceivedFirst`).

`PrivateCorrect` and `ListsCorrect` are about a server with one loop, for any number of
connections and descriptors; with two loops neither holds (section 5). Their
hypothesis is `NLoops = 1`, a configuration the program offers (`SUB_LOOPS=1`,
`chat_server.cpp:118`). A post to one's own loop runs inline, so
no message and no list ever waits in a queue and nothing else happens in the
middle of a broadcast (`PostsAtOnce`); hence what is about to be sent is still true
(`PostsTrue`), and a list that is not current is marked or being replaced
(`ListsCurrent`). That a descriptor found under the lock still belongs to the
addressee needs `DInv`: each accepted connection is adopted once (`AdoptionsOnce`),
and no two open connections have one descriptor (`FdsApart`).

**ChatSend** (`ChatSendProofs`): `EpollsCorrect`, `HalfCloseCorrect`, `ArmedCorrect`,
`IdleCorrect`. The invariant describes the tables of both loops (`SubTables`,
`MainTables`) and the account of frames (`Frames`): until a connection is closed,
what was sent, what is in `out` and what is unread add up to what was asked, and
EPOLLOUT is wanted exactly while `out` is not empty. `MainTables` says what the main
`Poller` may still list: connections that were closed, which is why `ArmedCorrect` has
its exception. All callbacks go through one lemma about `Settle`. The invariant holds
of all connections, also those in `foreign`, in the outcome the model has.

**ChatShutdown** (`ChatShutdownProofs`): `NoticeCorrect` and `ClosedCorrect`, for any
number of loops and connections. `Located` says where an accepted connection is: queued
for its loop, open there, or closed; so when the queues are empty and the tables cleared
it is closed. The notice needs the order inside a queue: from the moment it is posted to
a loop, each connection accepted before is open with the notice still ahead of it, or
its adoption is in front of the notice (`Promised`). `Stages` and `Threads` say that a
loop takes its last batch after nothing is accepted any more, and is cleaned up after it
has ended.

**The two ends of a connection** (`EndpointsProofs`), for any payloads, limits and number
of sessions. Of `TcpClient`: `WindowCorrect`, whose invariant (`Agree`) is the equations
of `WindowTruthful` at every point, also inside `receive()`; `StreamCorrect`, with
`Carried`: what the socket took are the reported frames and, while a split
send is under way, its first half, and the queue has room for the second half,
which is why that one cannot fail; `ReceivedCorrect`, with `Received`: the frames handed
out, the input and what is arriving are a prefix of what the server wrote, and a
`receive()` whose session is over finds an empty input. Of the server: `FramesCorrect`,
with `Handled`: behind the handled frames the stream goes on with exactly what is in the
`Buffer`, whose indices are in order (`BufferOK`), whatever was moved or reset.
`ClientImplemented` says that a behaviour of the ends is one of the client, so that the
theorems about it hold of `Endpoints`.

From end to end there is `SessionCorrect`: the server handles the frames that the client
reported, in order and nothing else, and never refuses this client. Its invariant
(`Shared`) sees the connection from the server. While the socket lives, what it took is
what the server was sent and what waits in the queue. Once the socket is gone nobody
knows how far it came: then the server was sent the reported frames or their beginning,
or all of them and less than one more (`Half`: the first half of a split send, the part
of a write that was cut short). That this is enough rests on the decoder (`Awaited`):
what the server holds behind the frames it has handled either begins the next reported
frame, and then the first frame in it is that one, because both carry their length in
front (`SameFront`, `Follows`); or it is less than a frame that more words could still
complete, and then nothing is taken and nothing refused. An abandoned half therefore
never reaches `handleFrame` and is never an error, on whichever side the connection ends.

These claims are about all the frames of a stream, which suggests an induction on their
number. The proofs do without: `FlattenSeq` applies a recursive function; those of a
sequence and of its extension agree, because there would be a least place where they
differ (`AllInOrder` argues in the same way); and `Least` (a non-empty set of numbers has a least element) follows from the
well-foundedness of `<`.

**HttpClient, Benchmark, MainWindow** (`MainWindowProofs`): `HonestCorrect`,
`CountsCorrect`, `StopsCorrect`, `WindowCorrect`, for any limits, runs and requests.
`Good` is what the worker keeps true of its own state, through the recursion of `finish`
in `fill` and of `consume` in `cancel`. `Protocol` ties the two threads together: at most
one `start` is queued, and then the worker is idle; otherwise it is in the latest run or
done with it. `StopsAsked` says whose every queued `stop` is, and `Heard` that the
signals a window still listens to are those of its present run, the end as the last
one. `Buttons` states the buttons from the state of both clients.

**The web servers** (`WebServersProofs`): `DescriptorsCorrect`, for the three designs at
once: open sockets have descriptors of their own (`Sockets`), and each design hands
them on without keeping or losing one (`ReactorOwns`, `PoolOwns`, `SubsOwn`). On top of
it `AnswersCorrect`: what a server holds of a connection and what the kernel holds are
together what follows the answered requests in what the browser sent (`Whole`), in the
table of the Reactor, in the task of the pool and in the buffer of the one sub Reactor
that watches the descriptor. The first attempt stated this of every buffer and could
not be proved: for a sub Reactor that has closed a descriptor and not yet removed its
buffer it is false, hence `Content`. That the number comes back to the same sub Reactor
takes a round of the round robin; `web`, with two of each, does not get there, an
instance with `SUB_NUM` 1 does, and the theorem covers every number of both.

**Assumptions.** The constants are sets of actors and natural numbers; the kernel's
buffer, a chunk and the load generator's limits are positive; the words of a stream are numbers
(`TcpAssumption`, `EndpointsAssumption`). TLC evaluates each assumption on every run.

**Only model-checked.** Every safety invariant of a passing run is proved. Liveness
stays with TLC, since it needs fairness and ENABLED, which are out of the prover's reach:
`LoopProgress`, `NewUserListed`, `ShutdownEnds`, `AllGetsDone`, `DestructorsEnd`,
`SessionSettles`, `WaitsEnd`, `EveryRequestAnswered`.

## 5. Where the code disagrees with its own comments

Each is a run that TLC ends with a counterexample; `findings` in `PROJECT.json`
quotes the comment.

| Run | What happens |
|---|---|
| `chat_misdelivery` | The addressee of a private message leaves between the lookup and the task; a new connection on the same loop and descriptor gets the message. |
| `chat_stale_list` | Two loops broadcast the list; the older one is sent last, and a user keeps a list that lacks even its own nickname. |
| `chat_send_stalled` | `closeConn` leaves the Channel in the main Poller's `channels_`; a later connection on that descriptor gets EPOLL_CTL_MOD, which fails, and its output is stuck. |
| `web_glued` | Two glued requests, the second with `Connection: close`: `webserver_multithread.cpp:54` looks for those words in the whole buffer, so the first request is answered with the end of the connection and the second, complete and read, is dropped. |

`OutputArmedUnlessReused` (passing, proved) says that the stall happens in no other case.

The models contain further behaviour of this kind, which follows from the same
lines and has no run of its own:

* Because `flush` registers with the main loop, the main thread runs callbacks of
  connections it does not own (`foreign` in `ChatSend`; the comment at
  `chat_server.cpp:395` excludes it), and may hold one in its batch when the owner
  destroys it.
* A fatal Error that meets a full kernel buffer is dropped by the close that follows
  (`ReadBad`; 1065 says it is sent first).
* A client accepted in the batch of the wake-up gets no shutdown notice (1173);
  `NoticeDelivered` says that this is the only case.
* `run()` calls `removeChannel` on the EventLoops of threads it has joined
  (`chat_server.cpp:532`), and a sub Reactor may post to the EventLoop of a thread that
  has returned (524; 584 expects a refusal): both are on the stack of a thread that has
  ended. So may be the one whose eventfd `quit()` writes after it has stored `running_`
  (`EventLoop.hpp:85-88`).
* A message logged after the logger's second look at its buffer is not written, and
  a task that outlives the logger of `main.cpp` logs into a destroyed object.
* `webserver.cpp:144`: the timer closes connections that may be later in the same
  batch; their callback then gives `removeChannel` a null Channel. The annotated copy
  returns there, although `webserver_flow.cpp:3` says the two behave alike.
* `webserver_thread.cpp:26`: a request that is not complete at the first read is
  abandoned with its descriptor neither closed nor watched. `EveryRequestAnswered`
  exempts such a connection by name (`Abandoned`), provided that what was read of it
  holds no whole request.
* `webserver_thread.cpp:24-50`: of several requests in the one read the first is answered
  and the connection closed. `README.md:29-30` and `:39` claim of all three servers that
  halves and glued requests are handled.

## 6. Order of work

The modules were written in this order, and a continuation would follow it:
`EventLoop` with `TaskExecutor` and the proofs; `ChatServer`, `ChatSend`,
`ChatShutdown`; `ThreadPool` with proofs and `SimpleLogger`, then `LoggingPool`; the
framing with both ends of a connection; `HttpClient`, `Benchmark`, `MainWindow`;
the web servers; the proofs about the chat server, the logger, the pool with the
logger and the web servers' descriptors; last the proofs about the shutdown, the server
with one loop, the two ends of a connection, the window with its clients, the
answers of the web servers, and the session of client and server. What is left: a model of `start()` with the failures of its
calls, and accept with no free descriptor in the web servers.

## 7. Not modelled, and what the models leave out

* In the chat server: the contents of messages, nickname validation and lengths,
  logging, the idle timeout's clock (a scan may close any connection), and the
  unlocked read of `nameIndex_.size()` for a log line (`chat_server.cpp:818`).
  `start()` is not modelled, and not all of it runs alone: each sub thread is in its
  loop from `t->start()` on, while `setPostDispatch` is still to write the safe point of
  that loop (`chat_server.cpp:485-501`) and `subLoops_` grows. No task reaches a sub
  thread before the main loop accepts, so the thread waits in `epoll_wait` and uses
  neither; the models begin where `start()` returns.
* In `FrameReader` a connection that ends is closed at once: that what is left of its
  output may be flushed first (`closeAfterFlush`) is the business of `ChatSend`.
* In `ChatShutdown` the contents of messages, lists and scans: which connections a task
  closes is open, none included.
* Failing `eventfd`, `epoll_create` or file operations, other than those named.
* In the chat client: `responseHint_`, which changes only a text. `QTcpSocket` is
  external: it connects, fails, takes any part of what is written, and reports in any
  order its documentation allows.
* In the HTTP client and the load generator: validation of addresses and headers,
  percentiles, throughput, the text of the CSV. `QNetworkReply` is external; an
  `abort()` leaves it open or closed. In `Benchmark` the outcome of a request is chosen as
  `HttpClient` permits (`Honest`).
* In the user interface: widgets, styles, profiles, settings, export dialogs, wording.
* In the web servers: the text of requests and responses, responses sent in part, the
  slow page, an accept that finds no descriptor free, the overflow of the round robin's
  `int` (`webserver_multithread.cpp:123`), and SIGPIPE, which the thread-pool and the
  multi-Reactor version do not ignore: browsers of the model close only their own
  direction. An edge-triggered report is modelled as a level: each handler
  reads or accepts until nothing is left, so an edge is reported exactly when a level
  is. At a tick any connection that is not in the current batch may be idle.
* `include/Trace.hpp`, debug output that no other part reads; `src/server.cpp`,
  `src/chat_serverLearn.cpp` and the lessons, fragments that nothing uses; the
  Python scripts, which drive the servers from outside.
