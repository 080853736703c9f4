# A verification development for qth_frame

qth_frame is a C++ framework for servers: one thread ("processor") that executes the tasks other threads
give it, a TCP server whose handlers run on io threads and hand their events to a processor, timers, smart
pointers, a small-object allocator, and modules that are registered and serialised by identifier.

The development has TLA+ modules that model the code, TLC configurations that check them on small instances,
and TLAPS proofs for every value of the constants. `PROJECT.json` maps each definition to the lines it models.
Paths below are relative to the repository.

## The system

Components, the state each keeps, what they do to one another, and what makes each correct.

| component | state | operations | hard behaviour | correct when |
|---|---|---|---|---|
| Processor (`src/processor.cpp`) | `m_eState`, three task queues, the queue of `SSysTask`s, the processor thread | `PostTask`, `SendTask`, `Stop`, `Run` | callers on any thread; timeouts; Stop under load; an object deleted by either of two threads | a task runs at most once and in order; an answer says what happened to the task; the `SSysTask` is deleted once; Stop ends the thread |
| RWQueue (`include/utility/rwqueue.h`) | a linked list, `m_nSize`, a mutex for writers | `push`; `empty`, `size`, `front`, `pop` | the reader takes no lock; the size lags behind the list | it is a queue; no deleted node is touched; the size never promises too much |
| ProcessorMgr (`src/processor_mgr.cpp`) | map from name to processor, thread and reference count; a mutex | `AllocProcessor`, `FreeProcessor`, `shutDown` | the join under the mutex; frees that race with uses | a processor lives while somebody holds it; one processor per name |
| TcpServer, Asio, FrameWork (`src/tcp_server.cpp`, `src/asio.cpp`, `src/frame_work.cpp`) | run state, acceptor, io services, processor, timer | `init`, `run`, `uinit`, the accept handler | handlers that run during `uinit` | every accepted connection is logged in or dropped; the shutdown reaches its end |
| TcpConnect (`src/tcp_connect.cpp`, `src/tcp_connect_manager.cpp`) | socket, buffers, pending reads and writes | `start_recv`, `SendMsg`, `Close`, the handlers | handlers on io threads, callbacks on the processor | the error is reported once; a connection outlives its handlers |
| Timer (`src/timer.cpp`) | map of timer objects, run counts | `SetTimer`, `KillTimer`, `run` | KillTimer and the handler on different threads | an object is freed once, and not while a wait refers to it; a timer ends after its runs |
| SharedPtr (`include/utility/shared_ptr.h` and its neighbours) | strong and weak count | copy, assign, destroy, lock | the test and the decrement are two operations | the object is deleted once, by its last owner |
| Singleton (`include/utility/single.h`) | instance pointer, list of lifetimes | `Instance`, destruction at exit | double checked creation | one instance; destroyed in the order of longevity |
| SmallObject (`src/SmallObj.cpp`) | chunks, free lists, cached chunks | `Allocate`, `Deallocate` | caches into a vector whose elements move | no block is given out twice; at most one empty chunk |
| ModuleManager (`src/module_manager.cpp`, `src/running_class_info.cpp`) | table of modules, registry of classes, the identifiers all managers share | `Init`, `UnInit`, `serialize`, `unserialize` | the configuration is read between two users | a module reads the record that was written under its identifier |
| DataManager (`include/frame/dynamic_create.h`) | list of classes, table of modules, modules by event | construct, dispatch messages and events | the order of the list is the linker's | an event reaches each module for it, by priority |
| DecoratePtr (`include/utility/decorate_ptr.h`) | a count per wrapped pointer | wrap, copy, assign, destroy | two counts of one object | the count is the number of its pointers, and no pointer has a deleted object |
| CmdParse (`src/property.cpp`, `src/uitility.cpp`) | options | `parse`, `operator[]`, `reverse` | a lookup inserts | an option is found with its own value |
| TcpClient (`src/tcp_client_connect.cpp`, `src/http_request.cpp`) | a descriptor of the process | connect, send, receive, close | closed descriptors are given out again | no descriptor of another is touched; a request goes where its URL says |
| MD5 (`src/md5.cpp`) | count, state, buffer | `init`, `getDigest` | the padding goes through the buffer | the digest is that of the message |

How they interact: `TcpServer::init` takes a processor from `ProcessorMgr`, starts the io threads and gives
the processor to `Timer` and to the connections. Their handlers run on io threads; they call `SendTask` for a
login and `PostTask` for messages, errors and timers. `uinit` sends a last task, stops the io services,
deletes the timer and frees the processor, which `ProcessorMgr` stops and joins. `Processor` reaches its
queues through `RWQueue` only. So everything rests on the processor and its queues: they come first.

## Modules

| module | what it is |
|---|---|
| `TaskService` | what a processor promises its callers: calls, answers and executions, nothing else |
| `Processor` | `CProcessor`: the calls, the queues and the processor thread; implements `TaskService` |
| `ProcessorProofs` | theorems about `Processor` |
| `TaskQueue` | what an `RWQueue` promises: a sequence, with a push in two steps |
| `RWQueue` | the linked list in memory; implements `TaskQueue` |
| `RWQueueProofs` | theorems about `RWQueue` |
| `ProcessorMgr` | `CProcessorMgr`: processors shared by name, their threads, the joins under one mutex |
| `ProcessorMgrProofs` | theorems about `ProcessorMgr` |
| `Timer` | `CTimer`: the table, the chains of waits, the handler, the end |
| `TimerProofs` | theorems about `Timer` |
| `TcpServer` | `CTcpServer`, `CTcpConnect` and `CFrameWork` with the io services; the processor in it is what `TaskService` promises |
| `TcpServerProofs` | theorems about `TcpServer` |
| `SharedPtr` | `shared_ptr`, `weak_ptr`, `sp_count` |
| `SmallObj` | the small-object allocator |
| `Singleton` | `Singleton` and the list of lifetimes |
| `Options` | `CmdParse` and `str_split` |
| `Modules` | `ModuleManager` with the registry |
| `DataManager` | `CDataManager` and its list of classes |
| `DecoratePtr` | `decorate_ptr` |
| `TcpClient` | `SimpleTcpClientConnect` and `CHttpRequest` |
| `Md5` | `MD5` without the rounds of its transformation |
| `LibraryProofs` | theorems about `SharedPtr`, `SmallObj`, `DecoratePtr`, `Singleton`, `TcpClient` and `DataManager` |
| `LayoutProofs` | theorems about `Options`, `Modules` and `Md5`, the parts that put things one behind another and find them again |
| `MCProcessor`, `MCTimer`, `MCTcpServer` | model values and constants of the TLC runs |
| `MCProcessors` | `Processor` and `ProcessorMgr` with the scenes of their run: a behaviour is one of the processor, or of the manager |
| `MCUtility` | the nine modules of the library and `RWQueue` side by side, for one run: it extends them all, so that the run checks the definitions the theorems are about |
| `UtilityProofs` | theorems about the library as `MCUtility` puts it together |

### Processor

A call of `PostTask`, `SendTask` or `Stop` is identified with the task it carries, so `pc[c]` says where the
call is, `ran[c]` how often its task was executed, and a queue is a sequence of calls. The steps of a call end
where other threads can see a difference: the test of `m_eState` (`PostCheck`, `SendCheck`, `Stop`), the push
(`Push` and, when the size follows, `Count`), and for a `SendTask` the lock of `stateMutex` with what follows
under it (`SendDone`, `SendWait`, `SendTimeout`), the end of a wait (`TimerExpires`, `SpuriousWake`,
`SysNotify`). The processor thread is `Run`, `Loop`, `DealSys`/`DropSys`, `SysDealt`, `SysNotify` for the
synchronous tasks and `Pick`, `Batch`, `TaskDone` for the others; the execution of a task lasts from
`DealSys` to `SysDealt` and from `Batch` to `TaskDone`, and tasks may themselves call `PostTask` and
`SendTask` (`OwnThread`), in which case the processor thread goes on only when the calls have returned.

Abstractions:

- Time. `m_runCond` is waited on for 50 ms at most, so the thread comes round without a notification; neither
  the wait nor its notifications are steps. A `SendTask` with a limit (`Timed`) may end its wait at any moment.
- `stateMutex` needs no variable: it is held across steps only while the task is executed (`MutexFree`).
- `Stop` is one step. Its callers, `FreeProcessor` and `shutDown`, hold the mutex of `CProcessorMgr`, so two
  calls of `Stop` do not overlap.
- `m_eState` is read and written whole (a volatile word).
- A caller starts only when `Run` has set the promise, since `AllocProcessor` waits for it.
- `PAUSE` is declared and never assigned; it stays in `EState` for the comparisons.
- `promised` is a history variable: the posts that had answered TRUE when `Stop` was called.

### RWQueue

Nodes are model values with `next` and `value`; `allocated` is the set of those in use, and a deleted node may
be allocated again. Each memory access of `push` is a step. The reader is the loop of `InternalDealTask`
(`batched`: `empty`, `size`, then `front` and `pop` so many times) or of `InternalDealSysTask` (`empty`, then
one `front` and `pop`). Its accesses to `m_pHead->pNext` are private, so unlink and delete are one step; `--m_nSize`
is a step before it. `DestroyQueue` and `FreeEnds` are the destructor with `clear`, which runs when nobody else uses the queue.
`chain` is a history variable, the list as a sequence, which makes the refinement mapping a plain function;
`NodesOwned` has each node of it allocated, and each allocated node in it or with its writer. Unwritten memory is `NoNode`, which the reader must never be told.
The unlocked read of `m_pTail` is a data race in the language; it is modelled as a whole, ordered access, which the supported
compilers and processors give.

`Processor` uses `TaskQueue`'s view in place of an `RWQueue`: a sequence, a push whose value is visible one step before it is counted,
a size that is the length less that push (`Size`, `Counting`).

### ProcessorMgr

`object`, `refs` and `mutex` are the table, its counts and `*m_pMutex`; `alive` and `thread` are the memory and the thread of each
`CProcessor`, which is reduced to what the manager needs: a thread that starts, may be in a task (`busy`), and ends some time after `Stop`.
A client holds one reference at a time (a part of the program with two references is two clients), and frees what it holds, by
pointer or by name. Clients in `Inside` are tasks of a processor: they call from its thread, which waits for them. `shutDown` (`ShutDown`,
`CloseStop`, `CloseJoin`, `Closed`) runs when the other threads have returned, and holds the mutex throughout. A thread that joins itself waits
for ever here; Boost may throw instead.

### Timer

A timer is the memory of one `STimerObj`, from its construction to its destruction. Clients are in the steps of `SetTimer` (`SetTimer`,
`SetInsert` or `SetNoMemory`, `SetStore`, `SetArm`) or `KillTimer` (`KillTimer`, `KillRemove`, `KillZero`); the io thread is in the handler `run`,
which reads `nRunTimes` twice (`RunNegative`, `RunZero`), posts (`RunPost`), decrements (`RunLess`) and waits again (`RunWait`), or deletes the timer
(`RunOut`). `Expire` ends the waits of a timer. `Stop` and `Destroy` are the end of the io services and of the `CTimer`; `Stop` does not wait for the
handler. An access to memory that was freed sets `fault` and ends the behaviour, since nothing can be said of what follows. `past` is history.
The table has a lock that `findTimer`, `insertTimer` and `removeTimer` take (`timer.cpp:124`-`143`), so each is one step. A timer that has run out is deleted and stays in the table
(line 86), where `SetTimer`, `KillTimer` and the destructor find it (`CallDead`, `DestroyDead`). `m_alloc` has no lock and is taken as atomic all the same; the fields of a timer have none either, and each access to them is a step.

### TcpServer

The threads are `main`, the console (`doCmd`), the io thread of the acceptor, an io thread for each connection, and the signal handler, which is
`uinit`. Each read of a pointer that another thread sets is a step. The processor is what `TaskService` leaves of it: a sequence of posts and one
`SendTask` for each sender. A `SendTask` is refused, or served while the processor runs, or its wait ends without a reason (`WakeUp`), or it passed the test of `m_eState` and pushes too late: then it waits for a thread that has ended,
or pushes into a processor that is gone (`PushLate`). The processor executes OnLogin, OnRecvMsg and OnError and whatever the user does in them (`UserClose`,
`UserSend`, `UserDrops`, `UserTimer`, `ConnectServer`). `ConnectServer` leaves a socket that could not be connected open, as the code does (`Attempts`). `uinit` may be cut short by an
exception of the closing of the acceptor, which it catches (`UninitThrows`). A connection is one record: its socket, the peer, the read, its writes, and where its io thread is. It is
destroyed in the step that releases its last `ConnectPtr` (`Release`), and using it, the processor or the timer afterwards sets `fault`.
The bytes are left out; messages have numbers, so that their order can be seen.

### The library

`SharedPtr`: what a pointer does is several calls of `sp_count`, each of which is one step under its mutex; `ptr[p].at` is where the pointer stands
between them. `promoted` and `raced` remember the two sequences in which the code's separate steps delete an object early, late or twice
(`lock()` while the last owner goes, and two owners that go at once), and `DeletedWithLastOwner` excepts these alone.

`SmallObj`: calls are under the lock of `SmallObject`, so each is one step, and its parts are operators on the record of a
`FixedAllocator` that are named for the functions of the code. The cached pointers are positions in the vector, and `moved` is set when `reserve` has moved the vector
and the chunk could not be had: `allocChunk_` and `deallocChunk_` are dangling from then on (`SmallObj.cpp:172`), and the next call on that allocator is the end of the behaviour
(`dangled`, which `PointIntoChunks` forbids and the code does not).

`Singleton`: threads have stacks of calls, since constructors and destructors call other singletons. `Track` to `Insert` is `SetLongevity`, which has no lock that
two types share: two threads in it at once are a data race and end the behaviour (`fault = "race"`, which `OneRegisters` forbids and the code does not), and so does the use of an instance whose pointer became visible before its contents (`"raw"`).
What the code keeps otherwise is that no destructor meets a singleton of higher longevity that is gone. Equal longevities are destroyed
against the order of their registration, which follows the creation, and another thread's registration can come between.

`Options`: `parse`, `operator[]` and `reverse` on strings as sequences of characters; `FoundAsWritten` and `ReverseParses` are the reference: what stands in the line, without
any splitting. A lookup of a key that is missing inserts it, and `reverse` writes it as `key=`, which `parse` drops.

`Modules`: the buffer is a sequence of cells, a count and then a header and the data of each module; a class writes `Size` cells, none if it leaves `Module::serialize` as it is (`running_class_info.cpp:74`). `serialize` hands a module the
place behind its header, `unserialize` hands it the header (`module_manager.cpp:107`, `134`), of a type the module cannot see. The modules of the model read back what they wrote, so they get the header first and miss the last cell of their data:
`FromHeader` is what is found, and `ReadsItsOwnRecord` says that it is their own record and nobody else's, which does not mean that it is what they stored. The size a module reports is right nevertheless, so the check of line 135 does not notice. No text of the repository says
which of the two pointers a module is to expect, and the modules of its tests do not override the two functions, so this is a limit to know and not a finding. The identifiers are static, so a manager that reads the configuration changes
the identifiers of all: managers initialised before and after have different tables, and what one stores may reach a module of another class in the other. `Agree` is what managers initialised in the same way keep;
a record that a module of another size reads ends `unserialize` with an error, and one of the same size it takes for its own (`reader` is the manager that came to the end).

`DataManager`: `s_pFirst` is built by `initRunTimeClass` in any order. Events and messages are indexed modulo the sizes of their tables, so an identifier beyond
`MODULE_NUM` reaches the module it is congruent to; the property excepts this. The vectors of the events are those that `std::sort` may leave (`Sorted`), not what some algorithm computes.

`DecoratePtr`: pointers, counts and objects. The comment at `decorate_ptr.h:130` has the user delete the object, `sub_count` (332-340) deletes it too:
`NeverReleases` is what the comment says, and does not hold. `byHand` and `wrapped` remember the two ways in which an object is deleted twice or under a pointer, which
`DecoratedUsable` excepts.

`TcpClient`: descriptors are numbers of the process, and the lowest free one is given out. `Close` leaves `m_socket` as it is (253), so a client that goes on, if only to its destructor, meets
whoever was given the descriptor since; a second `Connect` leaks the first (236). `stale` and `again` remember these two and `RequestsReachServer` excepts nothing else. For a request it says that host,
port and path are those that the URL was written from, except for three texts that the scans misread: a port at the end of the URL, a colon in the path, a host that begins with "http".
A host that is not known ends the client (`HostUnknown`), as `Host2Ip` reads the NULL that `gethostbyname` returns.

`Md5`: the state is the sequence of the blocks that were transformed, so two digests are compared by their input. `getDigest` restores state and count but not the buffer, and `init` resets `finished`:
asked again, it answers another digest when the length modulo 64 is 56 or more (`md5.cpp:126`, `md5.cpp:78`). The repository says nothing of a second call.

`MCUtility` has them in one run because they have no state in common: `unit` chooses the part whose steps the behaviour takes, that of `RWQueue` among them.

## Runs

| run | instance | checks |
|---|---|---|
| `processor` | three scenes. A HIGHT post and a SendTask again and again, two NORMAL posts of one thread, a Stop; a SendTask without limit, one with, one from inside a task, a post from inside a task again and again, a Stop; two clients of the manager on their own threads and one that is a task, two names, two processors, the end of the program. Spurious wake-ups; fairness; 100,310 states | `SceneTypeOK`, `SysTaskSafe`, `SysTaskOwned`, `ImplementsService`, `StopDrainsNormal`, `ProgramOrder`, `SendServed`, `HightServed`, `StopCompletes`; of the manager `HoldersServed`, `ThreadsOwned`, `JoinsEnd` |
| `timer` | one client, one identifier, three timers, counts -1, 1 and 2, four calls; the end; fairness; 282,731 states | `TypeOK`, `OneChain`, `RunsExact`, `KillStops`, `Reachable`, `TimerEnds` |
| `tcp` | one connection, two messages, one write; a signal, the console, a peer that goes; fairness; 528,781 states | `TypeOK`, `ReportedOnce`, `FaultOnlyAtEnd`, `RecvInOrder`, `DisconnectReported`, `ShutdownEnds` |
| `utility` | the queue and the nine parts of the library, each by itself; of the queue two pushes again and again, five nodes, a reader that believes `size()` or one that pops one at a time; 841,155 states | `UtilityTypeOK` and, by part: `NodesOwned`, `SizeRecovers`, `ImplementsQueue`; `CountsExact`, `DeletedWithLastOwner`; `AllocatorSound`; `LongevityKept`; `OptionsKept`; `ReadsItsOwnRecord`; `EventsReachModules`; `DecoratedUsable`; `RequestsReachServer`; `DigestOfMessage` |
| `processor_stop_drains_all` | posts at each priority and a Stop | `StopDrainsAll` is violated |
| `processor_sent_is_dealt` | one SendTask without limit, spurious wake-ups | `SentIsDealt` is violated |
| `processor_notify_alive` | one SendTask | `NotifyAlive` is violated |
| `timer_exists` | two SetTimer on one timer | `TimerExists` is violated |
| `tcp_error_names` | one connection and a write that fails | `ErrorNamesConnection` is violated |
| `never_releases`, `point_into_chunks`, `one_registers` | the instance of `utility` | `NeverReleases`, `PointIntoChunks`, `OneRegisters` are violated |

What they show:

- Sender and processor thread agree on who deletes an `SSysTask` and on whether its task counts, in every
  order of timeout, execution and wake-up, with one exception: the notification after the unlock
  (`NotifyAlive`).
- The callers see exactly `TaskService`: no task twice, none after FALSE, TRUE from `SendTask` only after the task.
- The queue in memory is a queue, and the size that the batch loop relies on never promises a value that is not there.
  The size of `m_sysQueue` may wrap below zero for a moment; nobody reads it.
- Under endless posts at the highest priority and endless `SendTask`s, a `SendTask` and a `Stop` are still served, because a batch
  ends at the size that was read. Posts may starve meanwhile: NORMAL and LOW tasks behind HIGHT posts, as the priorities mean, and posts of
  every priority, HIGHT too, behind `SendTask`s that never cease, because `RunAll` is called only when `m_sysQueue` was found empty
  (`processor.cpp:105`). `HightServed` has the second as its exception (`SendsNeverCease`).
- Whoever holds a processor has one that runs. The joins under the manager's mutex return, with one exception: the joined thread is in a task
  that calls the manager (`Stuck`), and then every later call of the manager waits as well. No text of the repository allows or forbids such a
  task, so this is a limit to know and not a finding.

- A timer that is set once and killed or not has exactly one wait or handler while it lives, runs as often as it was told, and ends; KillTimer is followed by one callback at most. The exception is the
  write between the handler's test and its decrement: the count is then below zero and the timer never ends (`KillStops`, `TimerEnds`). Setting a timer again while it runs is what breaks the chain.
- The user sees OnLogin, the messages in order and one OnError of a connection, in that order. While the server runs only the handler of
  a write can meet a connection that is gone, because `SendMsg` keeps no `ConnectPtr`; during `uinit` handlers, the accept handler and the console can meet the freed processor
  (`FaultOnlyAtEnd` says which and when).
- After a signal, main reaches the join of the console thread, with two exceptions that `ShutdownEnds` names. The accept handler may have passed the test of
  `m_eState` in `SendTask(OnLogin)` (`tcp_server.cpp:196`) and push when the processor thread has ended: nobody answers, its io thread never ends, and the join at `asio.cpp:32` does not
  return (`LoginLeft`). And `uinit` catches what the closing of the acceptor throws and skips the rest, so the io services are never stopped (`UninitGaveUp`, `tcp_server.cpp:118`).
- Of the library: what each part promises holds with the exceptions that the sections above name, each of them at a line of the code. Three of them contradict the repository's own text or
  asserts and are among the findings below; the others are stated in the properties as exceptions and not as findings, since no text of the repository says otherwise.

Eight statements of the repository are not what the code does:

- `include/utility/processor.h:32` says the tasks before `Stop` are processed before the processor ends. `Stop` pushes its
  task on `m_normal` alone, so LOW tasks, and HIGHT tasks posted after `RunAll` looked at `m_hight`, are left behind (`StopDrainsAll`).
  What does hold is `StopDrainsNormal`.
- `include/utility/interface_processor.h:39` says `SendTask` returns after the task has been processed. A single `cond.wait`
  takes a spurious wake-up for a timeout (`SentIsDealt`).
- `src/processor.cpp:84` has the sender delete the `SSysTask` when the processor thread is finished with it; the thread still
  notifies its condition variable (`NotifyAlive`).
- `src/timer.cpp:72` says a timer exists during its callback. A second `SetTimer` starts a second chain of waits, and the chain that comes last finds the timer
  deleted (`TimerExists`). The deleted timer is in the table as well, where the next `SetTimer` or `KillTimer` of its identifier writes to it.
- `include/asio/frame_work.h:84` says OnError is given the connection on which the error occurred. The `shared_from_this` in the
  handler of a write is NULL, because the interface the deleter is chosen by does not derive from `enable_shared_from_this` (`ErrorNamesConnection`).
- `include/utility/decorate_ptr.h:130` says the class never releases what it wraps and the user deletes it. `sub_count` deletes it with the last pointer (line 338), and a user who goes by the comment
  deletes it twice (`NeverReleases`).
- `src/SmallObj.cpp:197`-`200` assert that the remembered chunks are in the vector. They are not when `reserve` has moved it and there was no memory for the chunk that it was moved for (`PointIntoChunks`).
- `include/utility/single.h:10` says that multithreading is supported. `SetLongevity` inserts into the list of all types under the lock of one of them, so threads that create singletons
  of two types are in it at once (`OneRegisters`).

Bounds. A call is its own identity, so the number of calls bounds a run; `Repeat` makes some of them again without end, which
gives unbounded behaviours in a finite state space. Two NORMAL posts are needed for an order, one post per queue for the priorities, one SendTask for each way to
wait. Three clients suffice for two holders of one processor and a third call that waits; two objects for two names at
once and for memory that is used again. The heap of five nodes holds up to three values and a node per writer, so nodes are used again and the list runs empty and full;
Three timers in memory and four calls let an identifier be set, killed, set again and killed again, with old handlers still under way. One connection meets
everything that main, console, signal, acceptor and user do; two messages make an order, one write a failure next to a read. In `utility`: three pointers on two blocks make two owners that go at once and one that
locks; three pieces of memory, two sizes and two blocks per chunk, with a first capacity of two, make a swap of chunks, a release, and a vector that moves; three singletons with longevities 0, 0 and 1, of which one uses the others,
on two threads; lines of one or two tokens of up to three characters over `x`, `y` and `=`, so that tokens are empty, halves are missing and keys recur; two managers and three classes, of which one stores nothing and the configuration moves one onto the
identifier of another and omits one; four classes of which two share an identifier and one is beyond the table; three decorated pointers on two objects; two clients on two descriptors and 18 URLs; messages of up to two and a half blocks (a block of 8 bytes, of which the
length takes 4), so every position of the padding occurs.
`SizeLimit` (8) is above the number of nodes, so a wrapped size cannot be taken for a real one. Deadlock is not checked: a system that was
stopped, and a queue that was destroyed, have nothing left to do.

Fairness (`FairSpec`): the processor thread takes a step when it can (weak fairness of `Worker`), because it never waits longer than 50 ms;
and a thread inside a call goes on when it can, because the threads are scheduled. No call has to be made, and no wake-up has to be spurious. A `SendTask` that
waits without a limit is woken by `SysNotify` alone, which is part of `Worker`.
In `ProcessorMgr` (`MgrFairness`), who holds the mutex goes on, and so do the processor threads; strong fairness of `ThreadEnd` is what `StopCompletes`
of `Processor` shows, that a thread told to stop does not execute tasks for ever. A client that waits for the mutex is not promised it.
In `Timer`, calls and the handler go on, deadlines pass, and each handler in the queue of the io service is taken in the end (strong fairness, since the queue is first-in first-out). In `TcpServer`, threads
go on when they can; while the processor serves, it deals with each `SendTask` (`SendServed` of `Processor`) and, before it ends, with its posts (`StopDrainsNormal`). Once Stop has been called nothing is
assumed of a `SendTask`: it may be served, or wake without a reason, or wait for ever. Peers, commands and signals may never come. `utility` checks safety alone.

## Proofs

About `Processor`, for every set of calls, every priority and every choice of `Timed`, `OwnThread`, `Repeat`, `After` and `Spurious`, from
`CallAssumption` (the kinds of calls are disjoint) and `ParameterAssumption` (the types of the others):

| theorem | says |
|---|---|
| `TypeCorrect` | `Spec => []TypeOK` |
| `SysTaskSafety`, `SysTaskOwnership` | `Spec => []SysTaskSafe`, `Spec => []SysTaskOwned` |
| `Implementation` | `Spec => ImplementsService` |
| `StopDrains` | `Spec => []StopDrainsNormal` |
| `PostsInOrder` | `Spec => []ProgramOrder` |

`TypeOK` is not inductive: `left` stays in `Nat` only because the queue `RunAll` works on holds at least as many counted tasks, which
needs that no task is queued twice, that a task is queued exactly while its call is between push and execution, and that at most one push per queue is not counted.
`Shape` collects these (`TypeOK`, `BatchFits`, `NoDuplicate`, `Agreed`); `Pushed` and `Popped` say what a push and a pop
do to membership and to duplicates. `Handshake` ties the state of an `SSysTask` to the places of its two threads and gives the two deletion theorems;
`Delivery` ties executions to answers and gives the refinement, with one lemma per group of actions that says which step of
`TaskService` it is. The second half of the module adds what the positions in a queue mean: `StopOrder` (no promised NORMAL task is behind
InternalStop) and `PostOrder` (of two posts in program order, the first is in front).

About `SharedPtr`, for every finite set of pointers and every set of blocks, from `PointerAssumption` (the pointers are finitely many, and `None` is neither a pointer nor a block):

| theorem | says |
|---|---|
| `LibraryProofs!TypeCorrect` | `Spec => []TypeOK` |
| `Counts` | `Spec => []CountsExact` |
| `ObjectsGoWithOwners` | `Spec => []DeletedWithLastOwner` |

That a count does not fall below zero needs that it is the number of pointers, and this needs that a pointer between two steps still has the block it had: `PtrSound` is `TypeOK`, the places of the pointers
(`PtrPlaced`) and the two halves of `CountsExact` (`Tallied`, `Freed`). A step changes one pointer; `PtrRecounted` says by how much this changes the cardinalities of owners and watchers, `PtrMoved`
keeps the places, `PtrCounted` and `FreedKept` the halves. On top of it, `Deletion`: who is about to delete an object is alone with it, which is what `unique()` says when the count is exact, those left with a deleted
one only give it up, and an object that is there has an owner that did not take it for shared. The theorem holds outside `promoted` and `raced`, the blocks on which the two known races took place.

About `RWQueue`, for any set of writers, any heap and any modulus of the size, from `NodeAssumption` and `SizeAssumption`:

| theorem | says |
|---|---|
| `QueueIsTyped` | `QueueSpec => []QueueTypeOK` |
| `NodesAreOwned`, `SizeIsRestored` | `QueueSpec => []NodesOwned`, `QueueSpec => []SizeRecovers` |
| `RWQueueProofs!Implementation` | `QueueSpec => ImplementsQueue` |

`QueueInv` says that the pointers of the list are those of `chain`, that a chain has no node twice, that the node of a writer is in nobody else's hands (`OnePush`, `Linked`, `Private`, `NothingLeaked`), and that the size
and the chain differ by the push and the pop under way. The refinement needs no more: each step is a step of `TaskQueue` or leaves items and size as they are.

About `ProcessorMgr`, for any number of clients, names and processors, from its assumptions on the constants:

| theorem | says |
|---|---|
| `MgrIsTyped` | `MgrSpec => []MgrTypeOK` |
| `HoldersAreServed` | `MgrSpec => []HoldersServed` |
| `ThreadsAreOwned` | `MgrSpec => []ThreadsOwned` |

`MgrInv`: one client at most is under the mutex (`Locked`), each place of a call knows what it was given (`Called`, `Tasks`), a processor is in memory exactly while the table names it, under one name (`Owned`), a count is
the cardinality of the holders (`Counted`), and who holds one has the running thread of the table's entry (`Lives`, `Held`).

About `TcpServer`, for any number of connections, messages and writes, from `TcpAssumption`:

| theorem | says |
|---|---|
| `TcpServerProofs!TypeCorrect` | `Spec => []TypeOK` |
| `ReportedAtMostOnce` | `Spec => []ReportedOnce` |
| `FaultsAreAtTheEnd` | `Spec => []FaultOnlyAtEnd` |
| `RecvIsInOrder` | `Spec => RecvInOrder`, an action property |

`ServerInv` has the phases of main, console and signal handler and what each has left of processor, timer and acceptor (`ControlInv`), and for each connection what its read, its socket and the queue of the processor have to do with each
other (`Life`, `Order`): the posts of a connection stand in the queue as login, messages by number, error; and a connection whose read has ended posts no more, which is why no second error can follow.

About `Timer`, for any number of timers, identifiers and calls, from `TimerAssumption`:

| theorem | says |
|---|---|
| `TimerProofs!TypeCorrect` | `Spec => []TypeOK` |
| `OneChainOfWaits`, `CountIsExact` | `Spec => []OneChain`, `Spec => []RunsExact`, for any number of clients |
| `KillTakesEffect`, `TimersAreReachable` | `Spec => []KillStops`, `Spec => []Reachable`, if there is one client (`OneClient`) |

`ChainInv` follows a timer through its life: nothing waits for one that was not armed (`Unarmed`), one that was armed once has one wait or handler (`Chain`), and what it has posted and what is left are its count (`Account`).
`KillInv` adds who may still reach a timer: what the client's call found is still in the table (`Found`), and a timer that KillTimer took out is in nobody's call (`Abandoned`, `Killed`, `Lasting`). `OneClient` is needed: of two threads one can
find a timer for SetTimer, and arm it after the other has killed it. The code has the one client: the timer is handed out by the server's user, whose callbacks all run on the processor's thread, and `m_alloc`, which has no lock, would not stand two.
`Reachable` also says which dead timers are in the table: those that had a count and used it up, and no timer that was killed.

About `DecoratePtr`, for every finite set of pointers and any objects and counts, from `DecorateAssumption`:

| theorem | says |
|---|---|
| `ObjectsLiveAsPointers` | `DecorateSpec => []DecoratedUsable` |

`DecorateInv`: a count is the cardinality of its sharers (`Counted`, by `Recounted`), who shares a count has the same object (`Alike`), and those that have an object which was wrapped once share one count (`Known`). So the pointer that brings
the count to zero is the last one of the object, and no other deletes it.

About `SmallObj`, for any block sizes, number of blocks per chunk and memory, from `MemoryAssumption` (the number of blocks, the first capacity and the largest size are not zero):

| theorem | says |
|---|---|
| `MemoryInvariant` | `MemorySpec => []MemoryInv` |
| `AllocatorIsSound` | `MemorySpec => []AllocatorSound` |

`MemoryInv`: the free list of a chunk, a sequence that the blocks themselves hold, has each block once and exactly those that no caller has (`ChunkSound`); each chunk of a `FixedAllocator` is a piece of memory
of its own, and the callers' blocks of its size lie in them (`AllocSound`); one chunk at most is wholly free, and it is where `emptyChunk_` says (`Pointed`); and two pools share no memory. `Allocate` settles on a chunk in one of four ways (cached, empty, found by the search, made);
`Ready` is what all four leave, and `GiveStep` takes the block. `BlockReturned` is `DoDeallocate`, and `DropEmptySound` the swap with the last chunk and the release, after which positions are those of a shorter vector
(`Fewer`). `PoolStep` lifts a step of one allocator to the table.

About `Singleton`, for any threads and types, from `LifeAssumption` (longevities are 0 to 999, since `single.h:109` lowers the others to 999; constructors use singletons):

| theorem | says |
|---|---|
| `LifeInvariant` | `LifeSpec => []LifeInv` |
| `LongevityIsKept` | `LifeSpec => []LongevityKept` |

Before main returns (`Running`), each thread's stack is a chain of calls of which each is made by the constructor of the one below (`Frames`), who holds the lock of a type is the one that makes it (`Exclusive`), and an
instance is made after those that its constructor calls (`Made`). The list is `Ordered`: by longevity, each type once, those that have an instance. Afterwards (`Ending`) one destructor is under way, of a type that was taken out of the
list from behind, so whatever it calls is in the list or was destroyed before it at a longevity that is not higher. `RunCall`, `GoingOn` and `AllDone` are the steps of a call, `InsertSound` the insertion, `EndHandler` and
`EndDestroy` the steps at exit.

About `TcpClient`, for any clients, descriptors and URLs, from `SocketAssumption` (descriptors are numbers; a URL has a host without colon and slash, a port of digits, and a path that is empty or begins with a slash):

| theorem | says |
|---|---|
| `SocketInvariant` | `SocketSpec => []SocketInv` |
| `RequestsAreRight` | `SocketSpec => []RequestsReachServer` |

For the descriptors, `Named`: as long as nobody has strayed, a client that names a descriptor and has not closed it owns it. For the requests, `Shape` says at which position of its text each part of a URL begins, and the
scans are followed to these positions (`Starts`, `HostIs`, `UriIs`, `PortIs`); what they find first is `FirstFound`, and that the least position is there is well-foundedness (`LeastIs`).

About `DataManager`, for any classes, identifiers, priorities and functions, from `DataAssumption` (the classes are finitely many, identifiers and priorities are numbers, there is an event):

| theorem | says |
|---|---|
| `DataInvariant` | `DataSpec => []DataInv` |
| `EventsAreHandled` | `DataSpec => []EventsReachModules` |

`TableSound` says what the constructor puts in the table (a module for each identifier that a class in the list declares, at that index), `VectorSound` that each vector has the modules of the table with a function for its event, once each and in
order. As two modules of a table have different identifiers, the order is strict, and `ModuleFound` finds each of them again under the identifier that the vector keeps.

About `Options`, for every line and all words, from `OptionAssumption` (lines and words are strings, and the words have neither space nor "="):

| theorem | says |
|---|---|
| `OptionInvariant` | `OptionSpec => []OptionInv` |
| `OptionsAreKept` | `OptionSpec => []OptionsKept` |

The invariant is small (the types, a finite map, and that a map just read is what `parse` makes of the line); the work is in the functions. `SplitIs` says what `str_split` returns: parts that lie between successive delimiters
(`Between`; the k-th member of a finite set of positions is found by a least counterexample, `NthIs`). `PairsStand` says that the pairs of `parse` are exactly what stands in the line (`WrittenAt`), and `ReadAsWritten` that the first pair of a key gives
its value. `OffsetIs` solves the recursion that puts the pieces of `reverse` one behind the other, `ReversedIs` says where each lies (`Laid`), and `LaidAt` and `LaidOnly` that the pairs of the map stand in that line and nothing else does; since
what stands at a place can be read in one way (`ReadOnce`), `parse` finds them again (`ReverseIsRead`).

About `Modules`, for any managers, classes, sizes, versions and number of identifiers, from `ManageAssumption` (identifiers are within the table, which the code does not test):

| theorem | says |
|---|---|
| `ManageInvariant` | `ManageSpec => []ManageInv` |
| `OwnRecordIsRead` | `ManageSpec => []ReadsItsOwnRecord` |

`ManageInv` has, next to the types, that each table has under an identifier the class that its kind of initialisation leaves there (`InitialisedAlike`: the last of those with it in the list of classes, `LastBy`), that the buffer is what `serialize` makes of
its writer's table (`BufferIsWritten`), and that the manager which has just read it to the end has in each of its modules the writer's record from the header on (`ReaderHasRead`). The last is the work. `RecordsStep` solves the recursion of `serialize`, `WrittenIs` says at which cell the record of a module
begins, behind those of the modules with lower identifiers; `WalkIs` follows `unserialize` to these cells: after as many rounds as there are modules below an identifier it has failed, or it stands at the header of that
one and the modules below have read theirs. What a round does at a header is `RoundIs`, whether the reader has the module or passes over it.

About `Md5`, for messages of every length, any size of blocks and any size of words, from `DigestAssumption` (the wrap of a word falls between two blocks, and a block is longer than the length):

| theorem | says |
|---|---|
| `DigestInvariant` | `DigestSpec => []DigestInv` |
| `DigestsAreRight` | `DigestSpec => []DigestOfMessage` |

`Fed` is the relation between an object and what it was fed, in however many parts: the count is that of the length, the state its whole blocks, the buffer begins with the rest. `init` keeps it (`FeedStep`), because the blocks of two streams joined are those of
the first and those of what its rest begins (`BlocksJoin`, `BlocksFront`, `RestJoin`), and because the count may wrap without changing the index (`Counting`, `IndexIs`). So `getDigest` transforms the blocks of `Completed`, the message with padding and length; that the padding has the fewest zeros
is `PadLenIs`. Afterwards the buffer is the message's (`BufferKept`) if the length fitted behind it, and otherwise that of some message of the same length (`StateRestored`), which is why the second digest is excepted then, and no other.

These two need induction, over the identifiers and over the rounds, which `Reached` does for a set of numbers: a set that has 0, and with each number the next, has them all, by a least counterexample (`LeastNumber`, from `WFMin`). Recursive functions
are solved the same way: a function that satisfies the equations up to a number exists (`RecordsStep`, `WalkStep`, `OffsetIs`).

About the library as a whole (`MCUtility`), from the assumptions of its parts:

| theorem | says |
|---|---|
| `PartsAreSound` | `UtilitySpec` implies the specification of each of the nine parts and of `RWQueue` |
| `PartsAreTyped` | `UtilitySpec => []UtilityTypeOK` |

The first is what makes the run `utility` a check of the definitions that the theorems are about: a step of the whole is a step of one part and leaves the others alone. The second follows from it and from the invariants of the parts.

Only checked by TLC: liveness (`SendServed`, `HightServed`, `StopCompletes`, `JoinsEnd`, `TimerEnds`, `DisconnectReported`, `ShutdownEnds`), which the prover does not reach. Each invariant, each
action property and each refinement that a passing run checks is also a theorem.

## Not modelled

- The template library (`typelist.h`, `typetraits.h`, `tuple_base.h`, `functor.h`, `function.h`, `bind.h`, `compile.h`, `premacro.h`): it is evaluated by the compiler, and has no state. A
  functor or a bound call is what the models that post callbacks take for granted.
- Object factory, visitor: one call of a `std::map` or a `dynamic_cast` each.
- Base64: the iterators of boost do the conversion. The stream object that `base64.cpp:17` keeps between the calls is shared by all threads without a lock; what a race on it
  produces is not said by the code.
- Logger: a front end of log4cpp, output only.
- `mysql_databases.cpp`: disabled by `#if 0`.
- tinyxml2, the log4cpp headers and the threading policies taken over from Loki: third-party code. Together with the template library they are most of the repository's lines,
  so the share of lines that the map covers stays low though the components of the framework are modelled.
- `CTcpClientConnect` of `tcp_client_connect.cpp`: a socket of boost in a class that nothing uses. Entry points, macros, tests and examples.

Left out of the modelled components: the bytes of messages, the configuration of addresses and ports, the number of io threads (one for each connection is the most
concurrent case), the creation policies of singletons, requests to the allocator above its limit, the error texts. `PROJECT.json` has the note of each component.

Hazards without a property are of two kinds. Some are not in the models: `m_alloc` of `CTimer` without a lock, an assignment whose right-hand side is a member of the object it
deletes (`shared_ptr.h:104`), the identifier 255 in a table of 255 entries (`module_manager.cpp:231`), and `Recv` at the end of the stream
(`tcp_client_connect.cpp:304`), which does not return: the model has no step that ends it but an error. The others are in the models, and the code runs into them, while no text of the repository says that
it should not: the write of a connection that is gone (`tcp_connect.cpp:87`), two owners that go at once and the `lock()` of an object that is being deleted (`shared_ptr.h:72`, `77`),
an instance that is used before it is built (`single.h:98`), a descriptor used after `Close` (`tcp_client_connect.cpp:253`), the port of a URL (`http_request.cpp:48`), a host that is not known (`http_request.cpp:21`), and the second digest
(`md5.cpp:126`). The properties next to them name these as their exceptions; a property that forbade them would be false of the code.

## Plan

What the modules do not have yet, in the order in which it is worth adding:

1. `m_alloc` of `Timer` without a lock: the accesses of the two threads as steps of their own, which would show what the allocator may lose (`timer.cpp:35`, `118`).
2. A connection of `TcpServer` that is used again for another peer.
3. `Recv` of `TcpClient` with the end of the stream as a result of its own, and the liveness that fails there.
