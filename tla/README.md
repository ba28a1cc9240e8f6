# Skylar: the verification project

Neko's web framework is a C++ HTTP server, *Skylar*, that loads web
applications from dynamic libraries and hands them the requests, and *Nova*, a
library applications may be written with. This directory holds TLA+ models of
the server and of Nova, the TLC configurations that check them on small
instances, and theorems about them that TLAPS proves. `PROJECT.json` lists the runs, the
source lines behind every definition, the hazards the properties are for and
the disagreements between code and documentation the runs show.

Paths below are relative to `src/`.

1. [The system](#1-the-system)
2. [The modules and the code](#2-the-modules-and-the-code)
3. [The runs](#3-the-runs)
4. [Disagreements](#4-disagreements)
5. [Assumptions about the engine](#5-assumptions-about-the-engine)
6. [Fairness](#6-fairness)
7. [Proofs](#7-proofs)
8. [What is not modelled](#8-what-is-not-modelled)
9. [Plan](#9-plan)

## 1. The system

    ServerPlugin  --start/stop/restart/update-->  Server (StartCommand, Run)
                                                    |            +- AddressBinder (ports, TLS contexts)
                                                    |            |
                            accept loop (acceptor) -+            +- ProcessWorkerThreads (dispatcher)
                                    |  Sockets, events, semaphore        |        |
                                    +------------------------------------+        +- ModuleManager (updates)
                                                                         |
                                                                   Job::Execute (one per task)
                                                                         |
                                                 socket (plain or TLS) <-+-> ProtocolHttp::Process, ContentTypes
                                                                         |        |
                                                                         |   application (Nova: Router,
                                                                         |   Controllers, sessions)
                                                                  Protocol::Sendfile

The processes that run at the same time are the *acceptor* (the thread of
`Server::Run`), the *dispatcher* (a task per `Run`), the *jobs* (tasks the
dispatcher starts) and whoever calls `Stop`, `Restart` and `Update`. They share
the queue `Sockets`, which a critical section protects, and a handful of flags,
events and counters, which nothing protects.

| Component | State | Operations | Talks to | What is hard | What makes it correct |
|---|---|---|---|---|---|
| Connection pipeline (`Skylar/Server.cpp`, `Skylar/ConnectionDispatcher.cpp`, `Skylar/CycleManager.h`) | queue of sockets, `QueueNotFullEvent`, `ProcessQueueSemaphore`, `ConcurrentRequestCount`, jobs | accept a batch, signal, test the pool, close and pass the gate; start jobs, await them, sleep; take, refuse, finish a connection | acceptor, dispatcher and jobs through the queue and the events | test and act outside of the critical section, jobs started for "not empty" and not for a socket, a signal that comes after the push | a connection is in one place; none is forgotten; the pool is bounded; the gate opens again |
| Server life cycle (`Skylar/Server.cpp`) | `Active`, `Restart`, `UpdateModulesEvent`, semaphore, gate, listeners, the task | `StartCommand`, `Run`, `ProcessWorkerThreads`, `Stop`, `Restart`, `Update`, `Clear` | all threads through the flags; the module manager | commands at any point of two loops; flags read one after the other | a server told to stop stops, one told to update updates, nothing is unloaded under a running request |
| Application modules (`Skylar/ModuleManager.cpp`) | `List`, the open libraries, the handlers of each application, the files | load, update, unload | called by `Run`, the dispatcher and `Clear` | seven steps of an update may fail; libraries shared by applications; the list outlives a `Run` | an application that is served can be called, in the library that is on disk; it is told to exit first |
| Server instance (`Skylar/Server.cpp`) | shared memory with a process id | start, claim, release, the commands' lookup | other processes | check, claim and write by two processes at once; a memory that survives its owner; process ids that are used again | one server per name; the commands find it |
| HTTP protocol (`Skylar/Protocols/Http.cpp`, `ContentTypes/`) | `stringBuffer`, the request, `ConnectionParams`, the keep-alive count, the socket | choose a protocol; receive, find the head, look the application up, read the content, run the application, go on or close | socket, content types, application | packets that end anywhere, requests sent ahead, refusals in the middle of a stream | the server stays in step with the client's stream; an application gets whole requests |
| File transfer (`Skylar/Protocols/Protocol.cpp`) | file position, buffer capacity, bytes left | send a whole file, parse ranges, send them | called by the HTTP protocol | unsigned arithmetic at the end of files and ranges, a send that fails half way | what is sent is what was asked for and what was announced |
| Content types (`ContentTypes/`, `Nova/Cookie.cpp`) | `contentBuffer`, `LeftBytes`, `BytesReceived` | take pairs out of a body packet by packet; keep what is left over; read the parameters of a content type and the cookie header | the receive loop of the HTTP protocol | a packet may end anywhere; two different values stand for "no end" | the pairs found are those of the whole body |
| Listeners and TLS contexts (`Skylar/AddressBinder.cpp`, `Skylar/OpenSsl.cpp`, `Skylar/ListenOptions.h`) | `ListenOptions`, `Ports`, `Transports`, `TlsData` | prepare, bind, find the context of a port, clear | `Run` and the caller of `Stop`, without a lock; jobs | contexts and ports that fail one after the other, two threads that clear the same tables, jobs that look a port up late | each listener that can work does; a context is freed once; a connection is served as its listener says |
| Sockets (`Sockets/`) | SSL object, bytes sent | handshake, receive, send, close | jobs | errors are added to unsigned counts, results are dropped | a send tells the truth; the answer is in order |
| Nova sessions (`Nova/SessionManager.cpp`, `Nova/SessionCookieStorage.cpp`, `Nova/UserManager.h`) | none on the server: a session is a signed cookie | read, check and renew the token, log in and out, store | every request | overlapping requests carry sessions of their own, and the answer that arrives last wins | a login stays and ends when it is meant to; the token decides |
| Nova routing and controllers (`Nova/Router.cpp`, `Nova/ControllerFactory.cpp`, `Nova/ControllerContext.h`) | routes; a context with its actions per controller | add a route, create a context, find a route, invoke | the application's constructor, then every request | two tables that must agree, the order of the routes, lengths and indexes that are one apart | a route that is found has its action, and invokes it with the right parameters |

The remaining parts (most data types, clustering, actors, the client in the
sample, the editor plug-in) are in `PROJECT.json` with the reason why they
are left out, and in [section 8](#8-what-is-not-modelled).

## 2. The modules and the code

Each component has one module; its small instances are in the module with the
prefix `MC` and one configuration per question, the theorems about it in a
module with the suffix `_proof` (section 7). `Router` is operators only.

### ConnectionDispatcher

The path of a connection from the listener's backlog to the end of its job,
while nobody stops or updates the server. A region under
`Sockets.CriticalSection` is one action; every load, `Signal`, `Reset` and
`Wait` outside of it is an action of its own.

| State | Code |
|---|---|
| `sockets` | `Server::Sockets`, front first |
| `notFull` | `QueueNotFullEvent` |
| `semaphore` | `Controls.ProcessQueueSemaphore` |
| `concurrent` | `ConcurrentRequestCount` |
| `acceptor`, `dispatcher`, `job`, `socketOf` | where the threads are, what a job holds |
| `arriving`, `served`, `ignored`, `refused` | the backlog, and what has become of the others |

| Actions | Code |
|---|---|
| `Accept`, `SignalQueue`, `CheckLength`, `CloseGate`, `PassGate` | the accept loop of `Server::Run` |
| `StartJob`, `LeaveHandleLoop`, `AwaitJobs`, `WakeUp` | the inner loop of `ProcessWorkerThreads`, with `ConnectionDispatcher::Handle` |
| `FindNothing`, `TakeConnection`, `RefuseConnection`, `FinishConnection` | `Job::Execute` |
| `Release` | the client does what the job waits for |

A job that has taken a connection is `serving`, or `held`: then it cannot end
before its client has done something that the code waits for without a limit of
time (a TLS handshake, a send over TLS, the close of any socket; section 6).

`ConnectionService` is what the pipeline promises: a bounded line of
connections, from whose front each is taken once and leaves for good, answered
or refused; a client may hold the worker it has got, and the line moves while
none does. `ServiceSpec` states that the pipeline implements it, fairness
included; the refinement mapping forgets the threads and the events.

### ServerLifecycle

`StartCommand`'s loop, `Run`, one dispatcher per `Run`, and a controller that
calls `Stop`, `Restart` and `Update`. Every load and store of a flag is a step.
The queue is a length, a job the fact that it runs: `ConnectionDispatcher` has
the details. The condition `Controls.Active or Controls.UpdateModulesEvent.Poll()`
is two steps, `TestActive` and `TestUpdate`. The dispatcher's outer loop runs
from `PollUpdate` to `PollAgain`. `stopping` is a history variable, set when a
`Stop` or `Restart` begins, that says whether `Run` was accepting then.

The engine's `~Task` may wait for the task or not: the repository does not say,
and `ServerPlugin.cpp` calls `Destroy()` before it deletes its task, which `Run`
does not. `DeleteTask` therefore goes on wherever the dispatcher is. `orphaned`
is history: a `Run` began while the dispatcher of an earlier one had not ended.
So is `met`: a call began while an update was under way, or an `Update` while
the server was not active. A job that serves may do so for ever.

### ModuleManager

Loading (`LoadApplication`, with `LoadModule` and `AddApplication` inside),
updating (`BeginUpdate`, a `SkipApplication`, `AbortUpdate` or
`UpdateApplication` per application, `UpdateDone`) and unloading (`Cleanup`).
Every opened library has a number, its *load*; a handler is the load it comes
from, so a handler of a library that has been closed shows.
`SetApplicationModuleMethods`, `GetAllApplicationSettings` and `AddApplication`
are operators of their own. `UpdateApplication`
is one action with the step at which it fails as a parameter: the code runs it
when nothing else does (`UpdateIsQuiescent` of `ServerLifecycle`). Contents of
files are numbered in the order in which an administrator provides them.

### ServerInstance

`StartCommand`'s `Check`, `Claim` and `Write` of the shared memory, each a
system call and a step, `Finish`, and `Crash` anywhere. The mutex the code
locks is a member of the server object and excludes no other process, so it is
not in the model. Every call may fail; a `Check` that cannot read the process id
goes on as if there was none. `GetServerProcessId` is what `RestartCommand`,
`ExitCommand` and `UpdateModulesCommand` read; `ReadProcessId` and `SendSignal`
are two steps, with the id in `target` in between. `raced`, `forced`, `unread`,
`reused` and `refusals` are history.
A start takes its name and `--force` from a command line: `DoTask` is the loop
of `ServerStartupTask` over its words, of which it skips one after each option
without looking at it.

### HttpConnection

One connection in the hands of a job: `CreateProto`, then the loop of
`ProtocolHttp::Process` (`GetRequest`, `GetRequestHeaders`,
`GetApplicationSettingsForRequest`, `GetRequestData`, `ParseRequestContentType`,
`RunApplication`, `NextTurn`), then `Close`. What the client sends is a stream
of *units*: a request is its first line, the rest of its head, and the pieces
of its body. A packet is any number of units, and each receive may also report
that nothing came or that the socket failed. The request an application is run
for carries the number of the client's request, so that a stream read out of
step shows. `served` and `errors` are history.

### FileTransfer

`Sendfile`, `SendPartial` and `GetRanges` of one request. A byte of a file is
its position; what is sent is compared with `Expected`, a definition of what
the ranges ask for that owes nothing to the code's arithmetic, which is modulo
`UlongSize`.

### ContentParsing

The loops of `FormUrlEncoded`, `TextPlain`, `ParseContentTypeParameters` and
`ParseCookieString`. The text is a sequence of characters, because what could
go wrong is where a packet ends: `GetPacket` appends a packet of any size to
what the last one has left over, `ParseForm`, `ParseText`, `ParseParameters`
and `ParseCookies` are one turn of their loops, `SaveLeftover` counts from the
end of the buffer what is kept. Position 0 is `INDEX_NONE`, which is below all
positions, and `Infinity` is `INT_MAX`, above all: the code uses both for "no
end", and the model keeps them apart. `TextParts` and `Pair` are the reference:
the text cut at its separators, and each part at its first `=`.

### AddressBinder and TlsService

`AddressBinder` has the two threads that touch the listeners: `main`
(`PrepareApplications`, `BindListener`, `Listen`, `QuitLoop`, then the clearing
of sockets, contexts and ports, `RunAgain` or `Exit`) and the `controller`
(`Command`, which is `Stop` or `Restart`, and the same clearing). A step is what
one of them does to one table or one context, so that the two clear the same
table at once when the code lets them. A listener is named by the `Run` and its
index in `Options.ListenOptions`, to which each `Run` adds all listeners again.
`IsTls` of a plain port has no value of its own (`ListenOptions.h:88`) and is
chosen anew each time. A port in `Contested` may be held by another process when
it is to be bound. A `Run` whose task cannot be created leaves everything as it
is to the next one (`Listen`, `Server.cpp:136`). History: `served`, `freed`,
`stepped`, `overlap`, `since` (the first `Run` whose listeners may be in
`Transports`) and `denied` (the options another process has kept from their
port).

`TlsService` composes it with the jobs of connections: `Accept`, `Resolve`
(looks the port up), `Attach` (makes the SSL object), `Handshake`, `Receive`,
`SendSecure` or `SendPlain` per turn of the send loops, `Close`. A job may be
late: between two of its steps the listeners may be closed, freed, and bound
again. The socket takes as much of a piece of an answer as it likes (`Sent`)
before a call is repeated, fails, or has sent all; the TLS library remembers its
place, `pending`, for the repetition. A job that gets no address of its socket
is over without closing it (`Dropped`). `ServerLifecycle` has the flags and events of the same threads; here
`QuitLoop` may come as soon as `active` is false.

### Router and Controllers

`Router` is `Nova/Router.cpp` as operators on a sequence of routes:
`AddRoute`, `FindRoute`, `Parameters`, `FindUrlByController`. A path is the
sequence of what stands between its slashes. `Controllers` registers
(`CreateContext`, `RouteAction`, `Clear`), where the handler of an action is the
number of the call that bound it, so that a request that reaches another call's
handler shows. `added` is history.

### NovaApplication

The sample application and one browser with several requests on their way:
`Send`, `Execute` (`RequestContext` to the end of the application's function:
session from the cookie, route, token, action, renewed token, stored session,
answer) or `Abort` (the process ends where the token of a session without one is
asked for), `Finish` (`Skylar` sends a file the application has named, and
`CleanupResponseData`), `Deliver` or `Lose`, and, from outside, `Expire` and
`Redeploy` (a new secret). `Execute` is one step because requests share nothing
on the server; `Deliver` is where they meet, in the browser's cookie. The
history `past` of a session is the set of requests it was made by. The route
table is that of the sample, built with `AddRoute`. A token may be missing or
empty (`NoToken`, `EmptyToken`): `CheckRequest` refuses the one and compares the
other.

## 3. The runs

A `pass` run finishes without an error; the `violation` run checks a property
that a comment in the code states and ends in a counterexample (section 4).
Deadlock is not checked anywhere, because each model may really stop: an idle
server waits, a connection that is closed and a process past its bounds take no
step. That a wait always ends is stated as liveness instead.

Most modules have a property `...Inv`: the type invariant `TypeOK` with the
named invariants that belong to it, of which the table lists the names.

| Run | Configuration | Instance | Properties |
|---|---|---|---|
| `pipeline` | `MCConnectionDispatcher.cfg` | 4 connections, 2 jobs, pool of 2, batches of up to 2 | `TypeOK`, `AccountsBalance` (`ExactlyOnePlace`, `CountIsServingPlusRefused`), `QueueBounded`, `NoStrandedConnection`, `QuiescentWhenAsleep`, `EventuallyAnswered`, `BackpressureReleases`, `ServiceSpec` |
| `lifecycle_safety` | `MCServerLifecycle.cfg` | any two of `Stop`, `Restart`, `Update`, two `Run`s, a pool that fills | `LifecycleInv` (`ActiveHasDispatcher`), `UpdateIsQuiescent`, `SleeperWillBeWoken` |
| `lifecycle_liveness` | `MCServerLifecycleLive.cfg` | any two of them, one `Run`, a pool that does not fill | `LeavesWhenTold`, `UpdateTakenUp` |
| `modules` | `MCModuleManager.cfg` | 3 applications, two of which share a library; two updates, each of which may fail at any step | `ModulesInv` (`HandlersOpen`, `SharedModuleAgrees`, `LoadedIsOnDisk`), `AllUpdated`, `ExitBeforeReplace` |
| `instance` | `MCServerInstance.cfg` | 3 processes, 3 process ids, 4 starts with 7 command lines, 2 crashes, failing calls, one command at a time | `InstanceInv` (`ServerIsFound`, `FoundIsServer`, `SignalHitsServer`), `OneServerUnlessBypassed` |
| `http` | `MCHttpConnection.cfg` | every dialogue of 3 requests of 8 kinds, and of 4 of 3 kinds | `HttpInv` (`InSync`), `ContentWhole`, `RefusalIsLast`, `PromiseKept`, `EventuallyDone` |
| `file` | `MCFileTransfer.cfg` | whole files; single ranges that fit into a chunk, reach the last byte or ask for nothing; 2 or 3 ranges, none shorter than the one before; every refusal; sends that fail | `FileInv` (`PrefixOfExpected`, `BodyOnlyForGet`), `LengthAsAnnounced`, `ContentRangeHolds` |
| `controllers` | `MCControllers.cfg` | up to 2 controllers below 2 bases, one of which is a parameter, 3 routes with 5 kinds of paths; 32 requests | `ControllersInv` (`RouteHasItsAction`, `RouteInvokesItsAction`), `ParametersStandForTags`, `UrlLeadsBack` |
| `nova` | `MCNovaApplication.cfg` | 3 requests of 8 kinds, 2 on their way at once, a cookie that expires, a new secret | `NovaInv` (`LoginIsCarried`), `AnsweredOnce`, `TokenDecides`, `LoginLostOnlyToOlderRequest` |
| `content` | `MCContentParsing.cfg` | every body of up to 5 pieces, cut in every way; every header of up to 6 characters | `ContentInv` (`LeftoverIsNextPart`, `AllPartsArrive`, `CookiesUpToABadOne`), `PairsArrive`, `ParsingEnds` |
| `tls` | `MCTlsService.cfg` | 2 applications with 2 ports between them, one of which another process may hold, 2 `Run`s, a `Stop` or `Restart`, certificates there, missing and repaired, a connection | `TlsInv` (`ServedAsListening`), `ListenersWork`, `FreedOnce`, `AnswerHonest` (`SendTellsTheTruth`, `AnswerInOrder`) |
| `plain_port_lost` | `MCTlsServicePorts.cfg` | the same with 2 calls, all certificates there, no other process | `PortsBound` violated |

**Why the bounds are enough.**

- *Pipeline.* With a pool of two and batches of two the queue fills exactly,
  overflows by a batch and drains while a connection is still on its way; two
  jobs are enough for one to find the queue emptied by the other. A pool that
  is one too large shows with the fourth connection. Symmetry is not used,
  because it is not sound for the liveness properties.
- *Life cycle.* Two calls are the least that meet each other, two `Run`s the
  least for a restart and for a dispatcher that outlives its `Run`. Liveness is
  checked with one: it is about the end of a `Run`, and what the second finds
  (a semaphore that is not zero, a gate open or closed) the first may find too,
  through the calls and the first state of the gate. It is stated for calls that meet no
  update (`Undisturbed`) and fails for others, or when the pool fills: section 4
  shows the same properties on the other side of that line.
- *Modules.* Two applications that share a library, in either order, and one
  that does not; two updates, so that the second meets what the first left.
- *Instance.* Four starts allow a crash, a refused start and one that takes
  over the memory the crash left behind. The properties say under which
  condition the check works: no start between the check and the write of
  another (`raced`), no `--force` (`forced`), and none that cannot read the
  process id of the server that runs (`unread`); and that a signal hits nobody
  else unless its id was given to a new process (`reused`). The command lines have `--force`
  alone, behind a word nobody looks at, right behind a name, and as a name.
- *HTTP.* The kinds of requests: no body, kept or not; an upgrade; a form of
  two units, of none and of three, which is too large; a content type nobody
  parses; an unknown host. The buffer holds three units, so that a packet may
  end within a head, at its end, within a body, or hold the end of one request
  and the beginning of the next. Four requests are one more than the
  keep-alive count of 3 allows. Two kinds are left out of the dialogues because
  their properties fail: a body without a content type and a JSON body.
- *Files.* Files of 0, 1, 3, 4 and 7 bytes and chunks of 3 (512 KB in the
  code): an empty file, one below, at and above a chunk, and one of more than
  two chunks. The ranges left out are those for which section 4 shows a
  disagreement.
- *Controllers.* Two bases, one with a parameter, give paths that fit the same
  request in both orders; the tails are none, one parameter, a parameter before
  a fixed word, and lists with and without a slash behind; requests end where
  the path does, one component later, and further on. Three routes are two that
  fit and one between them. Names are in lower case, controllers are created
  once and no base ends with a slash: section 4 says what happens otherwise.
- *Nova.* Two requests at once are the least that overlap, and a third shows
  what they have left behind; the token of a page may be used by either, and a
  request may come with an empty token or none. The kinds are one of every
  effect on the browser: an answer with a new session (a redirect, for the
  index page as well), a login, a logout, a file, a checked request, a
  directory, and no answer. A request that is not a `GET` and fits no route is
  answered like a directory, once and without a cookie; it is not in the run.
- *Content.* Five pieces are two pairs with a separator or a coded one between,
  so that a packet may end within the code; headers may have blanks anywhere.
- *TLS.* The first application's plain port is the second one's TLS port: the
  second is refused while the first has it. The certificates may be missing in
  the first `Run` and be there in the second, and the same port may be denied in
  one of them. With two `Run`s main binds again while the controller still
  closes what it was told to in the first, or takes over the listeners of a
  first one without a task. One command is enough for that: a second one would
  find the tables as the first may leave them, and what any number of them does
  is proved. An answer of a head of two units and a body of one has a send that
  may stop amid its piece and one that follows it; `Width` is any modulus above
  these.

## 4. Disagreements

### Checked by a run

`PROJECT.json` quotes the lines.

- `plain_port_lost`: `IsTls` of `ListenOptions` has no initialiser
  (`ListenOptions.h:88`) and `PrepareApplications` sets it for TLS ports only
  (`ModuleManager.cpp:70`). When the memory of a plain port's options happens
  to say true, `Bind` finds no certificate, binds the port, and drops the
  socket: the port is neither served nor free.

### Further ones

The modules state more of what the code's comments promise. These properties
belong to no configuration here, because each fails; to see it, change the
named one as described and check the property alone (with `PROPERTY` for
liveness). `Live` stands for `MCServerLifecycleLive.cfg`.

| Property | Change | What happens |
|---|---|---|
| `GateReopens` | `MCConnectionDispatcher.cfg` | the acceptor reads a full pool, the jobs drain it and open the gate, then the acceptor closes it and waits for ever (`Server.cpp:178`) |
| `SilenceHurtsNobodyElse` | the same | a client that is silent in its TLS handshake holds its job for ever, `Async::Wait` with it, and the connections that are queued meanwhile (`SocketSSL.cpp:125`, `ConnectionDispatcher.cpp:292`) |
| `CountIsServing` | the same | `ConcurrentRequestCount`, "Amount of active requests.", also counts every refused connection (`ConnectionDispatcher.cpp:96`) |
| `LeavesWhateverMeets` | `Live`, `Commands = {"stop", "update"}` | a `Stop` that meets an `Update` leaves an accept loop that spins with no listener, or is undone by the end of the update (`Server.cpp:185`) |
| `LeavesWhenTold` | `Live`, `Commands = {"stop"}`, `PoolMaxLength = 1` | the acceptor closes the gate after `Stop` and the dispatcher have opened it (`Server.cpp:178`) |
| `StopIsHeard` | `Live`, `Commands = {"stop"}` | `Run` sets `Active` after a `Stop` has cleared it (`Server.cpp:121`) |
| `EveryUpdateMade` | `Live`, `Commands = {"update"}` | the end of one update takes the event of the next one away (`ModuleManager.cpp:134`) |
| `NoJobInAnUpdate` | `MCServerLifecycle.cfg` | a dispatcher that its `Run` has left behind replaces modules under the jobs of the next one, or the other way round (`Server.cpp:198`) |
| `ClosedOnce` | `Live`, `Commands = {"stop"}` | `Stop` leaves deleted listeners in `Transports`, which `Run` closes again (`Server.cpp:191`) |
| `OnlyStopEndsTheLoop` | `Live`, `Commands = {"update"}` | an update between the two loads of the accept loop's condition ends it (`Server.cpp:185`) |
| `NoJobWithoutModules` | `Live`, `Commands = {"stop"}` | `Clear` unloads the modules while jobs are in their handlers (`Server.cpp:401`) |
| `NeverAborts` | `MCModuleManager.cfg` | a failed update takes the handlers away, and the update that would repair it fails an assertion (`ModuleManager.cpp:148`) |
| `HandlersPresent` | the same | a failed update leaves applications that are served without handlers, which `Protocol.cpp:118` asserts they have |
| `HandlersOpen` | the same, `MaxRuns = 2` | after a restart `List` keeps the handlers of closed libraries (`ModuleManager.cpp:566`) |
| `ToldToExit` | the same | `Cleanup` calls no `OnApplicationExit`, "Called on server quit." (`ModuleManager.cpp:266`) |
| `AllUpdated` | the same, `Updatable = {a1}` | an application that names no update file hides that of another one (`ModuleManager.cpp:126`) |
| `AtMostOneServer` | `MCServerInstance.cfg` | two starts check before either has written (`Server.cpp:319`); also without a race (`raced \/ AtMostOneServer`): a start that fails to read the id of the server that runs takes it for absent (`:323`) |
| `SignalHitsServer` without `reused` | the same | the server ends between the reading of its id and the signal, and a new process has got the id (`Server.cpp:379`) |
| `RefusedOnlyIfRunning` | the same | a start gets the process id its crashed predecessor has left in the memory (`Server.cpp:326`) |
| `ForceIsHeard` | the same | the word after an option is skipped without a look, so that `--name Skylar --force` does not force (`ServerPlugin.cpp:279`) |
| `ContentWhole` | `MCHttpConnection.cfg`, `Scripts <- JsonFirst` | `ApplicationJson` says after the first piece of a body that all of it has been parsed; the rest is read as the next request (`ApplicationJson.cpp:48`) |
| `InSync` | the same, `Scripts <- UntypedFirst` | a body without a content type is read as the next request (`Http.cpp:277`) |
| `ParsedDataIsSaved` | the same, `Scripts <- FormOnly` | the parsed data are stored in a copy of the request (`Http.cpp:193`) |
| `ClosedAtTheEnd` | the same, `Scripts <- FormOnly`, `Negotiations = {"h2"}` | a negotiated HTTP/2 is given up without closing the socket (`ConnectionDispatcher.cpp:198`); this build negotiates nothing, because the registration of the callback is commented out (`OpenSsl.cpp:105`) |
| `NoAnswerToNothing` | the same, `Scripts <- GetTwice` | a client that closes is sent a 400 (`Http.cpp:503`) |
| `TimeoutsSuffice` | `MCHttpConnection.cfg` | a client that does not read keeps the job in a send or in `Close`, which wait without a limit (`SocketSSL.cpp:103`, `SocketDefault.cpp:54`) |
| `HeadMayBeSplit` | the same, `Scripts <- GetTwice` | a head that comes in two packets is refused (`Http.cpp:408`) |
| `LengthAsAnnounced` | `MCFileTransfer.cfg`, `Requests <- LongRange` | the last piece of a range that is longer than a chunk is read with the room of a chunk, the unsigned remainder passes below zero, and the rest of the file follows (`Protocol.cpp:456`) |
| `ContentRangeHolds` | the same, `Requests <- PastTheEnd` | a range that ends at the file's size is announced one byte too long (`Protocol.cpp:291`) |
| `ContentRangeHolds` | the same, `Requests <- LastBytes` | of the last N bytes the code makes all but the first N (`Protocol.cpp:326`) |
| `PrefixOfExpected` | the same, `Requests <- TwoRanges` | after a range whose send has failed the next one is sent (`Protocol.cpp:460`) |
| `RoutesReachable` | `MCControllers.cfg`, `Bases <- Root` | a base that ends with a slash gives an empty component, which no request has (`ControllerContext.h:61`) |
| `RouteHasItsAction` | `MCControllers.cfg`, `Names = {"User"}`, `ClientRequests <- CapitalRequests` | routes name controllers in lower case (`Router.cpp:95`), the dispatcher does not |
| `RouteHasItsAction` | `MCControllers.cfg`, `CreateTwice = TRUE` | a second context of a name does not get, or takes, the first one's place |
| `ParametersStandForTags` | `MCControllers.cfg`, `MCTails` with `<<"[params]", "edit", "[params]">>` | `AddRoute` looks for a list at the end of the path only, so that one that ends with a list may hold another: "[params] tag must be set as last parameter" (`Router.cpp:48`) |
| `UrlLeadsBack` | the same, with `<<"", "edit", "[param]">>` | the url is made from a route that no request reaches, because it was added first and takes as many parameters; it leads nowhere (`Router.cpp:265`) |
| `RouteInvokesItsOwn` | `MCControllers.cfg` | two routes to one action name have one handler between them (`ControllerContext.h:74`) |
| `LogoutForgets` | `MCNovaApplication.cfg` | `HomeController`'s logout sets no status, nobody is sent the session without a user: "Logs user session out." (`UserManager.h:59`) |
| `TokenNeeded` | the same | a checked request with an empty token and no session passes, if `at` gives an empty text for a missing key (`IController.cpp:96`, `Session.h:121`) |
| `NeverAborts` | the same | if `at` asserts instead, the same request ends the process |
| `AlwaysAnswered` | the same | a refused token, a missing file and an action without a status leave the client without an answer |
| `LoginSticks` | the same | the answer to a request that was sent before a login takes it away |
| `NamesArrive` | `MCContentParsing.cfg`, `Texts <- BodiesWithNames` | a part without a value, "empty Value" in the comments, gets what a negative count makes of it (`FormUrlEncoded.cpp:68`) |
| `LastPairArrives` | the same, `Texts <- BodiesOfText` | the last part of `text/plain` and of the parameters has no end to stop at (`TextPlain.cpp:73`, `Http.cpp:162`) |
| `NothingLost`, `RepairWorks` | `MCTlsService.cfg` | a TLS listener without a certificate binds its port and loses the socket, also for the next `Run`; a context whose port is refused is never freed (`AddressBinder.cpp:77`) |
| `NeverFreedTwice` | the same | `Stop` and `Run` clear the contexts at the same time |
| `HandshakeTellsTheTruth` | the same | `Handshake` returns true whatever `SSL_accept` has returned (`SocketSSL.cpp:143`) |
| `ConnectionsClosed` | the same | a job that gets no address of its socket ends and leaves it open (`ConnectionDispatcher.cpp:105`) |
| `NeverInPlain` | the same | a job that looks its port up after the contexts are gone serves a TLS connection in plain (`ConnectionDispatcher.cpp:112`) |

### Seen while reading

Not in a model, or in one that only takes it into account:

- the socket object an application is given lives in a stack frame that is left
  before it is used (`Nova/RequestContext.cpp:213`), the protocol of an HTTP/2
  request is not set (`:246`), `SameSite` of a cookie has no initial value
  (`Nova/Cookie.h:46`), and the text `HomeController`'s login answers with
  points into a local variable (`HomeController.cpp:46`);
- an answer with a file drops the application's `set-cookie`
  (`Skylar/Protocols/Protocol.cpp:609`), and the size of the file is read before
  it is opened (`:492`);
- the path `[params]/b/[params]` is accepted, and the root never matches a
  route (`Nova/Router.cpp:172`);
- `ListenOptions` grow with every `Run`; the duplicates are refused, and a TLS
  one makes a context first, which is lost (`AddressBinder` follows this);
- `ISsl::Destroy` clears a copy of the contexts, and no SSL object is freed;
- connections that are queued when a `Run` ends wait for the next one
  (`Skylar/Server.cpp:395`), and a forced start takes the memory away from the
  server that runs, whose end takes it away again (`:311`).

## 5. Assumptions about the engine

The engine is not part of this repository. What the models take for granted of
it, and from where:

| Assumption | Why |
|---|---|
| Events are manual-reset, `Poll` does not change them | the code resets them by hand; `Wait` in the accept loop would otherwise close the gate after each connection |
| `Async::Wait` returns when every job started with its counter has | its use in `ProcessWorkerThreads` |
| a queued socket may close at any time: `IsOpen` may answer either way | the test in `Job::Execute` and the accept loop |
| the first state of `QueueNotFullEvent` is unknown | both constructor arguments are the engine's |
| `Accept` returns false when nothing listens any more | the accept loop has no other way to end |
| deleting a task waits for it, or does not | unknown; both are in `ServerLifecycle` |
| an open library opened again is the same library | usual for dynamic libraries |
| shared memory outlives a crash, and destroying its name leaves those who have opened it alone | usual for named shared memory |
| a receive returns a packet of any size up to its limit, 0 or -1 | `Sockets/SocketDefault.cpp` and its callers |
| `Reserve` makes exactly the room asked for and never gives any back; a read stops at the end of the file; `IsEof` right after the last byte may be either | the calls in `Protocol.cpp` |
| a port a socket still listens to cannot be bound again; a connection's `GetAddress` has its listener's port; an empty certificate path fails to load | the calls in `AddressBinder.cpp`, `ConnectionDispatcher.cpp:112` |
| `SSL_write` reports the whole length or no success, has sent any part of it before it fails or wants the socket, and goes on there when it is repeated | partial writes are not enabled (`OpenSsl.cpp`), the socket does not block (`Server.cpp:166`) |
| the engine's `SendAllPacketsAsync` sends all, or any part and fails | its name, and the check of its result |
| `at` gives an empty text for a missing key, or asserts | `GetAuthToken` expects the text (`IController.cpp:106`); both are in `NovaApplication` |
| `Insert` into a hash map keeps or replaces what is there | unknown; both are in `Controllers` |
| `String::Mid` with a negative count gives nothing, or everything (`NegativeTakes`) | unknown; the run takes nothing, the properties hold with both |
| `NewSessionId` never repeats, a browser sends only tokens it was given | random ids |
| `CommandLineParser` goes word by word | its use in `ServerPlugin.cpp` |

Also assumed: an application answers as its response says (it writes to the
socket itself); a file does not change while it is sent; applications that
share a library name the same update file, if they name one; no controller name
begins with a slash, and paths fit their strings.

Abstracted: the syntax of heads, headers, dates and cookies, formatting,
logging, and the values of headers other than those named above.

## 6. Fairness

No call of the code bounds the time a client may take: the timeout a send is
given is not looked at over TLS (`SocketSSL.cpp:103`), the handshake and both
`Close` wait with -1 (`:125`, `:149`, `SocketDefault.cpp:54`), and `SSL_read` is
called again, with the whole timeout, for every part of a record (`:44`). So a
client may hold a job for ever, and `Async::Wait` waits for all jobs
(`ConnectionDispatcher.cpp:292`). No step that waits for a client is fair here.

- *Threads* (`Fairness` of `ConnectionDispatcher` and `ServerLifecycle`): weak
  fairness of the acceptor's steps other than accepting, of each dispatcher, and
  of each job until it serves its connection: the operating system schedules
  them, and the engine's workers run every task. A call of `Stop`, `Restart` or
  `Update` that has begun is finished. A job that is not `held` ends; whether
  the client ever lets go of one that is (`Release`) is not said. In
  `ServerLifecycle` the end of a job (`FinishJob`) is not fair at all.
- *Clients* are a hypothesis of the properties instead. `EventuallyAnswered`
  and `BackpressureReleases` have `ClientsAct`: every job is free of its client
  again and again. `LeavesWhenTold` and `UpdateTakenUp` have `JobsEnd`, and that
  no call meets an update and no dispatcher outlives its `Run`
  (`Undisturbed`). `EventuallyDone` has `ClientKeepsUp`. Section 4 has what
  happens without (`SilenceHurtsNobodyElse`, `TimeoutsSuffice`).
- *Nobody else is obliged to anything*: no client has to connect, and nobody
  has to stop or update the server. `Accept`, `AcceptConnection` and
  `BeginCommand` are not fair.
- `HttpConnection` is sequential: its job goes on wherever it does not wait for
  its client (`AwaitsClient`). A receive in plain ends by its timeout, with or
  without a packet. An application's function returns.
- `ContentParsing` is sequential as well: the loop goes on.
- `ConnectionService`: weak fairness of the taking while no worker is held, and
  of the ending of a connection whose client does not hold it.

The counterexamples to liveness (`GateReopens`, `LeavesWhenTold`,
`LeavesWhateverMeets`, `StopIsHeard`, `EveryUpdateMade`) are all found under
these assumptions, with clients that let their jobs end. The
remaining modules state safety only: a client, an administrator and a
controller may stop at any time.

## 7. Proofs

A module `X_proof` extends the module `X` and proves theorems about its
specification, for every value of the constants that satisfies the module's
`ASSUME`: any applications, jobs, clients, processes, ports, certificates, paths
and texts, and any bounds on counters. Two modules prove about two components
each: `Http_proof` about `HttpConnection` and the contents that come over it
(`ContentParsing`), `Nova_proof` about `NovaApplication` and `Controllers`, which
share the lemmas on `Router`.

| Module | Theorem | Shows |
|---|---|---|
| `ConnectionDispatcher_proof` | `TypeCorrect` | `TypeOK` |
| | `PoolIsBounded` | `QueueBounded` |
| | `NothingStranded` | `NoStrandedConnection` |
| | `SleepIsQuiescent` | `QuiescentWhenAsleep` |
| | `AccountsAlwaysBalance` | `AccountsBalance` |
| | `ImplementsService` | `Service!SSafe`, the safety half of the refinement `ServiceSpec` |
| `ServerLifecycle_proof` | `ActiveMeansDispatching` | `LifecycleInv` |
| | `UpdatesAreQuiescent` | `UpdateIsQuiescent` |
| | `SleepersAreWoken` | `SleeperWillBeWoken` |
| `ModuleManager_proof` | `ModulesAgree` | `ModulesInv`, until the second `Run` |
| | `ExitsBeforeReplace` | `ExitBeforeReplace`, until the second `Run` |
| | `UpdatesReachAll` | `AllUpdated`, if `SharersUpdatable` |
| `ServerInstance_proof` | `AtMostOneServerRuns` | `OneServerUnlessBypassed` |
| | `CommandsFindTheServer` | `InstanceInv` |
| `Http_proof` | `TypeCorrect` | `TypeOK` |
| | `RefusalEndsConnection` | `RefusalIsLast` |
| | `KeepAlivePromise` | `PromiseKept` |
| | `StaysInStep` | `HttpInv`, if `BodiesAnnounced` |
| | `RunsWithAllContent` | `ContentWhole`, if `BodiesAnnounced` |
| | `NoPartIsLost` | `ContentInv` |
| | `EveryPairArrives` | `PairsArrive` |
| `FileTransfer_proof` | `BodiesOnlyForGet` | `TypeOK` and `BodyOnlyForGet` |
| | `RangesAreAnnounced` | `ContentRangeHolds`, if `Announceable` |
| | `OnlyWhatWasAsked` | `FileInv`, if `Transferable` |
| | `AllThatWasAnnounced` | `LengthAsAnnounced`, if `Transferable` |
| `Nova_proof` | `SessionsAreCarried` | `NovaInv` |
| | `NeverAnsweredTwice` | `AnsweredOnce` |
| | `TheTokenDecides` | `TokenDecides` |
| | `OnlyOlderRequestsLogOut` | the action property `LoginLostOnlyToOlderRequest` |
| | `TypesHold` | `ControllersTypes` |
| | `TablesAgree` | `ControllersInv`, if controllers are created once, by names in lower case |
| | `ParametersStand` | `ParametersStandForTags`, where `ListsAreLast` |
| | `UrlsLeadBack` | `UrlLeadsBack`, where `ListsAreLast` and `RoutesReachable` |
| `TlsService_proof` | `EveryContextFreedOnce` | `FreedOnce` |
| | `GoodListenersWork` | `ListenersWork` |
| | `ServedAsPromised` | `TlsInv` |
| | `AnswersAreHonest` | `AnswerHonest` |

**Hypotheses.** Where a theorem has one, the property fails without it, and
section 4 shows how:

- `run <= 1`: `Cleanup` closes the libraries and leaves `List`, so that a second
  `Run` begins with handlers of closed libraries (`HandlersOpen`).
- `SharersUpdatable`: of the applications that share a library, all name an
  update file or none does. The code asks only the first one it comes to
  (`AllUpdated`).
- `BodiesAnnounced`: the content of a request has a type, and that of a JSON
  request comes in one piece (`InSync` and `ContentWhole`). The dialogues of the
  `http` run are those of such clients. The theorems on refusals, keep-alive and
  types hold for all clients.
- `Announceable`: every range ends with a byte of the file (`PastTheEnd`), a
  suffix takes all of it (`LastBytes`), and a `ulong` can count the bytes of all
  ranges. These are conditions on the request and the size of the file alone.
- `Transferable`: moreover, each range goes to the end of the file, is of whole
  chunks, or is shorter than a chunk with no longer one before it, because the
  buffer is read with all of its room (`FitsTheBuffer`, against `LongRange`);
  and a request whose socket may fail asks for one range at most, because the
  next one is sent after one that could not be (`NothingBehind`, against
  `TwoRanges`). All requests of the `file` run are of this kind. Types,
  and that no body follows a refusal or a HEAD request, are proved for all
  requests.
- `~CreateTwice` and `Lower[name] = name` for all names: a controller's name
  stands for one context, and is the one its routes have (`RouteHasItsAction` in
  section 4, either way).
- `ListsAreLast`, a predicate of the route table: `[params]` is the last
  component of a route or none (`ParametersStandForTags` in section 4).
  `RoutesReachable`: no route has an empty component, as two slashes in a row
  leave one, which no request has (`UrlLeadsBack` in section 4). Both hold in
  every state of the `controllers` run.

`ContentAssumption` says that a text is shorter than `INT_MAX`; the theorems on
`ContentParsing` have no other hypothesis and hold for either value of
`NegativeTakes`, that is, whatever a negative count takes.

**The invariants.** Hardly any property is inductive as it stands. What is
proved, per module:

- *ConnectionDispatcher.* `QueueBounded` is not inductive, because a long queue
  could meet another batch: `RoomToAccept` adds that an acceptor about to
  accept, or at an open gate, has room. A job opens the gate only on an empty
  queue, so that this survives the race between the length test and the reset.
  `NoStrandedConnection` speaks of a sleeping dispatcher, but it stops looking
  at the queue when it begins to await the jobs: `Announced` says that from
  there on a queued connection has its signal, or gets it in the acceptor's next
  step. `AccountsInv` has the places of connections and the counter together,
  because a refused connection adds to the count only if it was not counted
  yet. The refinement follows from these: under the mapping an `Accept` is an
  `Admit`, a job that takes a socket begins or drops it, one that finishes ends
  it, and every other step stutters.
- *ServerLifecycle.* `DispatcherInv`. Whatever deleting a task does, each `Run`
  starts at most one dispatcher (`FreshDispatcher`), which has jobs only while it
  works on the queue (`JobsHaveDispatcher`). While none outlives its `Run`
  (`OwnDispatcher`), there is one dispatcher at a time; one that has left its
  inner loop saw `Active` cleared; and whoever clears `Active` signals next, a
  signal that no dispatcher takes before it has seen `Active` cleared
  (`StopIsSignalled`). The properties name the exception, `orphaned`.
- *ModuleManager.* `FirstRunInv`: the handlers of a listed application are those
  of the library that is open, which is the one on disk, and applications are
  initialised in that library only. `UpdateInv` says what an update has got done
  so far: an application has been visited or is to be, and a visited module is
  due no more.
- *ServerInstance.* `GuardInv`: unless a start raced, was forced or could not
  read, one process is past the check, and the segment it writes is the one the
  name leads to. The types add that no two processes have one id, by which the
  id a command has read is nobody's but the server's.
- *HttpConnection.* `SyncInv` counts the units of the stream that have been
  used: between two requests the next unit is the first of a request, and while
  one is in hand the count is where its head, or as much of its content as has
  been read, ends. `Start`, the place of a request in the stream, is a recursive
  function; the lemmas about it, and that a stream is the requests one after the
  other, are proved by least counterexample. `RefusalInv` and `PromiseInv` say
  that a refusal and a last answer come with the end of the connection.
- *FileTransfer.* `TransferInv`. `Announced` says that the headers are what
  `GetRanges` has found. `Copying` and `BetweenRanges` say what has been sent at
  the head of either loop: the file up to the position, or the bytes of the
  ranges begun. Within a range, `InRange` adds where the position is and, by
  `RestOf`, why the buffer is not too large for what is left: it is the rest of
  the file, or whole chunks, or just the range. That the unsigned remainder
  never passes below zero follows. What `GetRanges` finds and what `Expected`
  asks for are two concatenations; the lemmas relate them range by range.
- *NovaApplication.* `OutcomeInv` says of an executed request what became of it:
  whether its action ran, how many answers have been sent and how many `Skylar`
  has yet to send, and that its answer keeps the login of its cookie.
  `CookiesMade` says that every cookie on its way was made by the application,
  and has a user exactly if one of the requests it came from was a login. The
  sample's routes are evaluated by proof, one per kind of request.
- *Controllers.* `TablesInv` relates the route table, the history of who added
  each route, the contexts and the dispatcher: a route is what `AddRoute` makes
  of its path (`RoutesMade`), it names the controller and the action it was added
  for (`RoutesBound`), a handler is the call that added a route of that context
  and action (`HandlersAdded`), and while the application is open each context
  is found by its name (`ContextsFound`). The properties about paths rest on
  lemmas about `Router`'s loops, by least counterexample: what `Selected` and
  `Removed` leave of a sequence, which components are fixed, and how many
  parameters there are. `Forward` and `Back` then say that what a route leaves
  of a request and what `GeneratePath` puts into the route are each other's
  inverse. For `UrlLeadsBack` the route the url is made from is the first that
  takes as many parameters, not always the one that was found: that route fits
  the url, so that the url finds it, with the same parameters, or one before it.
- *ContentParsing.* `PartsInv`. `Window`: the buffer is the piece of the text
  between what has been dropped and what has been received, and the places of
  the loop are places in it. `AtAPart`: at its head the loop stands at the
  beginning of the part whose number is the number of pairs inserted so far.
  `Before` counts the separators ahead of a place; that no separator lies
  between the head of the loop and the end it has found, or has looked for in
  vain, makes the next part of the loop the next part of `TextParts`, also when
  a packet ends within it.
- *AddressBinder with TlsService.* `ServiceInv`. `TableInv` relates `Options`,
  `Ports`, `Transports`, `TlsData` and the open sockets, whether or not the two
  threads overlap; its part `Undisturbed` speaks of listeners the controller has
  not touched since they were bound, in this `Run` or one before without a task,
  and gives `ListenersWork`. `GoesOnServing` says that main gives listeners up
  only when the controller has told it to in this `Run`. `OwnerInv` says who
  frees a context while the threads do not overlap; `FreedOnce` follows from
  both. `JobsServed` says that a job of undisturbed listeners has the context of
  its own one, alive. `JobInv` says how much of the answer has been written and
  what the sends have returned: the first pieces, and some units of the next
  one, which is that of the call in hand or of the one that failed last. As no
  bytes are counted before the whole piece is out, the unsigned sum that adds an
  error's -1 (`SocketSSL.cpp:112`) comes out right.

Each of these was checked by TLC on the instance of the run before it was
proved. The libraries of sequences and finite sets give the lemmas about
batches, fronts and cardinalities; where a recursive function is used (the
stream of a client, the listen options of the applications, the pieces of an
answer, the bytes and lengths of ranges, the components of a path, the
separators of a text) its facts are proved from the existence
of a least counterexample.

**Only model-checked**, and why:

- the liveness properties (`EventuallyAnswered`, `BackpressureReleases`,
  `LeavesWhenTold`, `UpdateTakenUp`, `EventuallyDone`, `ParsingEnds`) and the
  fairness half of `ServiceSpec`: fairness is about `ENABLED`, which the prover
  does not treat.

Every invariant and every action property that a passing run checks is stated by
a theorem. What a recursive function computes has no general induction theorem
here, because those of the library take an operator as a parameter, which the
prover cannot instantiate: each such function has an argument of its own.

## 8. What is not modelled

- `Skylar/RequestPoolHandler.*`: an older duplicate of the dispatcher that
  nothing uses; `Skylar/ConnectionManager.h`: marked as not used yet.
- `Skylar/OpenSsl.cpp`: the library's initialisation and the negotiation
  callback, which is not registered; they change no state of the server.
- `Sockets/`: `Connect`, which only a client would call.
- `Skylar/Protocols/Http.cpp`: `CreateContentDescriptor`, which nothing calls,
  and the syntax of heads.
- `Skylar/ModuleManager.cpp`: the syntax of `appsettings.json`.
- `Nova/`: the serialisation of requests and responses between Skylar and the
  application, the signing of cookies, the value types; `Remove` and
  `ClearCache` of the session storage do nothing and nobody calls them.
- `ServerPlugin.cpp`: the plug-in around the command line, and an example of
  actors that is commented out.
- `SampleModule/TelegramApi.*`: the client of a service elsewhere.
- `Clustering/`, `Plasma/`, `Editor/`, `WebHostBuilder.h`, `Utilities.*`: not used by
  the server, or without state.

## 9. Plan

Done, in this order: `ConnectionDispatcher` with `ConnectionService` and the
first proofs, `ServerLifecycle`, `ModuleManager`, `ServerInstance`,
`HttpConnection`, `FileTransfer`, `Router` with `Controllers`,
`NovaApplication`, `ContentParsing`, `AddressBinder` with `TlsService`.

Next module: `HttpDialogue`, an abstract dialogue of requests and answers that
`HttpConnection` implements, as `ConnectionService` is for the pipeline.

Proved, in this order: the four safety properties of the pipeline, its books
and its refinement, `ServerLifecycle`, `ServerInstance`, `ModuleManager`,
`HttpConnection`, `NovaApplication`, `AddressBinder` with `TlsService`,
`FileTransfer`, `Controllers`, `ContentParsing`.

Next theorems:

1. The safety half of `HttpDialogue`, from `SyncInv` of `HttpConnection`.
2. `RoutesReachable` and `ListsAreLast` as invariants, from conditions on the
   bases and the tails of the paths alone.
