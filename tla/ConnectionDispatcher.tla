------------------------ MODULE ConnectionDispatcher ------------------------
(***************************************************************************)
(* The path of a connection through the running Skylar server, between a   *)
(* start and the next Stop, Restart or Update (those are in                *)
(* ServerLifecycle):                                                       *)
(*                                                                         *)
(*   - the acceptor: the accept loop of Server::Run, which pushes accepted *)
(*     sockets on Server::Sockets, signals ProcessQueueSemaphore and, when *)
(*     the pool is full, closes the QueueNotFullEvent gate on itself;      *)
(*   - the dispatcher: the inner loop of Server::ProcessWorkerThreads with *)
(*     ConnectionDispatcher::Handle inlined, which starts jobs while the   *)
(*     queue is not empty, waits for all of them and sleeps on the         *)
(*     semaphore;                                                          *)
(*   - the jobs: Job::Execute, run by the workers of the engine.           *)
(*                                                                         *)
(* Every region under Sockets.CriticalSection is one action; everything a  *)
(* thread does outside of it is an action of its own, so the test of the   *)
(* queue length, the Reset and the Wait of the acceptor interleave with    *)
(* the jobs.  The engine is not part of this repository: QueueNotFullEvent *)
(* is a manual-reset event (the code resets it by hand), Async::Wait       *)
(* returns when every job started with the counter has returned, and       *)
(* NetSocketBase::IsOpen may answer either way each time it is asked.      *)
(***************************************************************************)
EXTENDS Integers, Sequences, FiniteSets

CONSTANTS Connections,     \* every connection a client may open
          Jobs,            \* the jobs that may exist at once (bounds the heap)
          PoolMaxLength,   \* Net::PoolMaxLength
          MaxBatch,        \* most sockets one Pooler.Accept returns (SOMAXCONN)
          NoSocket         \* the socket of a job that holds none

ASSUME PoolAssumption ==
    /\ PoolMaxLength \in Nat \ {0}
    /\ MaxBatch \in Nat \ {0}

ASSUME JobsAssumption == IsFiniteSet(Jobs)

ASSUME NoSocketAssumption == NoSocket \notin Connections

VARIABLES arriving,     \* connections in the backlog of the listeners
          sockets,      \* Server::Sockets, front first
          notFull,      \* QueueNotFullEvent is set
          semaphore,    \* ProcessQueueSemaphore
          acceptor,     \* where the accept loop is
          dispatcher,   \* where the worker-threads loop is
          job,          \* state of each job
          socketOf,     \* the socket a job has taken
          concurrent,   \* ConcurrentRequestCount
          served,       \* connections whose job ran to its end
          ignored,      \* accepted sockets that were not open and not queued
          refused       \* queued sockets a job found not open any more

queueVars == <<sockets, notFull, semaphore>>
jobVars == <<job, socketOf, concurrent, served>>
vars == <<arriving, queueVars, acceptor, dispatcher, jobVars, ignored, refused>>

AcceptorPC == {"accept", "signal", "check", "reset", "wait"}
DispatcherPC == {"handle", "await", "sleep"}
JobState == {"idle", "queued", "held", "serving"}

(* Jobs that have a connection, and those of them that cannot end before   *)
(* their client has done something: a TLS handshake, a send over TLS and   *)
(* the close of any socket wait for it without a limit of time.            *)
Serving == {j \in Jobs : job[j] \in {"held", "serving"}}
Held == {j \in Jobs : job[j] = "held"}

(* Both arguments of the event's constructor are engine code, and a        *)
(* restart leaves it reset (Server::Clear): either state may be the first. *)
Init ==
    /\ arriving = Connections
    /\ sockets = <<>>
    /\ notFull \in BOOLEAN
    /\ semaphore = 0
    /\ acceptor = "accept"
    /\ dispatcher = "handle"
    /\ job = [j \in Jobs |-> "idle"]
    /\ socketOf = [j \in Jobs |-> NoSocket]
    /\ concurrent = 0
    /\ served = {}
    /\ ignored = {}
    /\ refused = {}

-----------------------------------------------------------------------------
(* The acceptor                                                            *)

(* What one Accept may bring: the sockets that are open, in their order,   *)
(* and the ones that are not.                                              *)
Batches == UNION {[1..n -> arriving] : n \in 0..MaxBatch}

Distinct(s) == \A i, k \in 1..Len(s) : s[i] = s[k] => i = k

Elements(s) == {s[i] : i \in 1..Len(s)}

(* Mutant: the new sockets are pushed in front of the waiting ones.        *)
AcceptPushFront ==
    /\ acceptor = "accept"
    /\ \E batch \in Batches :
          /\ Distinct(batch)
          /\ batch # <<>>
          /\ sockets' = batch \o sockets
          /\ arriving' = arriving \ Elements(batch)
    /\ acceptor' = "signal"
    /\ UNCHANGED <<notFull, semaphore, dispatcher, jobVars, ignored, refused>>

Accept ==
    /\ acceptor = "accept"
    /\ \E batch \in Batches, dead \in SUBSET arriving :
          /\ Distinct(batch)
          /\ dead \cap Elements(batch) = {}
          /\ dead \cup Elements(batch) # {}
          /\ Len(batch) + Cardinality(dead) <= MaxBatch
          /\ sockets' = sockets \o batch
          /\ ignored' = ignored \cup dead
          /\ arriving' = arriving \ (dead \cup Elements(batch))
    /\ acceptor' = "signal"
    /\ UNCHANGED <<notFull, semaphore, dispatcher, jobVars, refused>>

SignalQueue ==
    /\ acceptor = "signal"
    /\ semaphore' = semaphore + 1
    /\ acceptor' = "check"
    /\ UNCHANGED <<arriving, sockets, notFull, dispatcher, jobVars, ignored, refused>>

(* Mutant: the pool is full one socket too late.                           *)
CheckLengthOffByOne ==
    /\ acceptor = "check"
    /\ acceptor' = IF Len(sockets) > PoolMaxLength THEN "reset" ELSE "wait"
    /\ UNCHANGED <<arriving, queueVars, dispatcher, jobVars, ignored, refused>>

(* GetSize() is read after the critical section has been left.             *)
CheckLength ==
    /\ acceptor = "check"
    /\ acceptor' = IF Len(sockets) >= PoolMaxLength THEN "reset" ELSE "wait"
    /\ UNCHANGED <<arriving, queueVars, dispatcher, jobVars, ignored, refused>>

CloseGate ==
    /\ acceptor = "reset"
    /\ notFull' = FALSE
    /\ acceptor' = "wait"
    /\ UNCHANGED <<arriving, sockets, semaphore, dispatcher, jobVars, ignored, refused>>

PassGate ==
    /\ acceptor = "wait"
    /\ notFull
    /\ acceptor' = "accept"
    /\ UNCHANGED <<arriving, queueVars, dispatcher, jobVars, ignored, refused>>

-----------------------------------------------------------------------------
(* The dispatcher                                                          *)

(* Handle() starts a job for as long as it sees a queue that is not empty, *)
(* whether or not the jobs it has started will empty it.                   *)
StartJob(j) ==
    /\ dispatcher = "handle"
    /\ sockets # <<>>
    /\ job[j] = "idle"
    /\ job' = [job EXCEPT ![j] = "queued"]
    /\ UNCHANGED <<arriving, queueVars, acceptor, dispatcher, socketOf,
                   concurrent, served, ignored, refused>>

LeaveHandleLoop ==
    /\ dispatcher = "handle"
    /\ sockets = <<>>
    /\ dispatcher' = "await"
    /\ UNCHANGED <<arriving, queueVars, acceptor, jobVars, ignored, refused>>

(* Mutant: only the jobs that serve a request are waited for.              *)
AwaitServingJobs ==
    /\ dispatcher = "await"
    /\ Serving = {}
    /\ dispatcher' = "sleep"
    /\ UNCHANGED <<arriving, queueVars, acceptor, jobVars, ignored, refused>>

(* Mutant: the semaphore is reset before the dispatcher goes to sleep.     *)
AwaitJobsForgetful ==
    /\ dispatcher = "await"
    /\ \A j \in Jobs : job[j] = "idle"
    /\ dispatcher' = "sleep"
    /\ semaphore' = 0
    /\ UNCHANGED <<arriving, sockets, notFull, acceptor, jobVars, ignored, refused>>

AwaitJobs ==
    /\ dispatcher = "await"
    /\ \A j \in Jobs : job[j] = "idle"
    /\ dispatcher' = "sleep"
    /\ UNCHANGED <<arriving, queueVars, acceptor, jobVars, ignored, refused>>

(* Mutant: the wait for the semaphore times out and counts down all the    *)
(* same.                                                                   *)
WakeUpTimedOut ==
    /\ dispatcher = "sleep"
    /\ semaphore' = semaphore - 1
    /\ dispatcher' = "handle"
    /\ UNCHANGED <<arriving, sockets, notFull, acceptor, jobVars, ignored, refused>>

WakeUp ==
    /\ dispatcher = "sleep"
    /\ semaphore > 0
    /\ semaphore' = semaphore - 1
    /\ dispatcher' = "handle"
    /\ UNCHANGED <<arriving, sockets, notFull, acceptor, jobVars, ignored, refused>>

-----------------------------------------------------------------------------
(* The jobs                                                                *)

(* Another job has emptied the queue first.                                *)
FindNothing(j) ==
    /\ job[j] = "queued"
    /\ sockets = <<>>
    /\ job' = [job EXCEPT ![j] = "idle"]
    /\ UNCHANGED <<arriving, queueVars, acceptor, dispatcher, socketOf,
                   concurrent, served, ignored, refused>>

(* Mutant: front() without Pop().                                          *)
PopWithoutRemoval(j) ==
    /\ job[j] = "queued"
    /\ sockets # <<>>
    /\ sockets' = sockets
    /\ concurrent' = concurrent + 1
    /\ UNCHANGED <<arriving, notFull, semaphore, acceptor, dispatcher, served, ignored>>

(* Mutant: the job that empties the queue does not open the gate.          *)
PopSilently(j) ==
    /\ job[j] = "queued"
    /\ sockets # <<>>
    /\ sockets' = Tail(sockets)
    /\ concurrent' = concurrent + 1
    /\ UNCHANGED <<arriving, notFull, semaphore, acceptor, dispatcher, served, ignored>>

(* The front socket leaves the queue and is counted; the job that takes    *)
(* the last one opens the gate.                                            *)
Pop(j) ==
    /\ job[j] = "queued"
    /\ sockets # <<>>
    /\ sockets' = Tail(sockets)
    /\ concurrent' = concurrent + 1
    /\ notFull' = (notFull \/ Tail(sockets) = <<>>)
    /\ UNCHANGED <<arriving, semaphore, acceptor, dispatcher, served, ignored>>

TakeConnection(j) ==
    /\ Pop(j)
    /\ \E state \in {"held", "serving"} : job' = [job EXCEPT ![j] = state]
    /\ socketOf' = [socketOf EXCEPT ![j] = Head(sockets)]
    /\ UNCHANGED refused

(* The socket is no longer open: the job returns without counting down.    *)
RefuseConnection(j) ==
    /\ Pop(j)
    /\ job' = [job EXCEPT ![j] = "idle"]
    /\ refused' = refused \cup {Head(sockets)}
    /\ UNCHANGED socketOf

(* The client has done the last of what the job waits for.                 *)
Release(j) ==
    /\ job[j] = "held"
    /\ job' = [job EXCEPT ![j] = "serving"]
    /\ UNCHANGED <<arriving, queueVars, acceptor, dispatcher, socketOf,
                   concurrent, served, ignored, refused>>

FinishConnection(j) ==
    /\ job[j] = "serving"
    /\ job' = [job EXCEPT ![j] = "idle"]
    /\ served' = served \cup {socketOf[j]}
    /\ socketOf' = [socketOf EXCEPT ![j] = NoSocket]
    /\ concurrent' = concurrent - 1
    /\ UNCHANGED <<arriving, queueVars, acceptor, dispatcher, ignored, refused>>

RunJob(j) ==
    FindNothing(j) \/ TakeConnection(j) \/ RefuseConnection(j) \/ FinishConnection(j)

-----------------------------------------------------------------------------
AcceptorNext == Accept \/ SignalQueue \/ CheckLength \/ CloseGate \/ PassGate

DispatcherNext == (\E j \in Jobs : StartJob(j)) \/ LeaveHandleLoop \/ AwaitJobs \/ WakeUp

Next == AcceptorNext \/ DispatcherNext \/ \E j \in Jobs : RunJob(j) \/ Release(j)

Spec == Init /\ [][Next]_vars

(* The three kinds of threads are scheduled by the operating system, and   *)
(* a job that no client holds ends: a receive has its timeout.  No client  *)
(* is obliged to connect or to let a job go: Accept and Release are not    *)
(* fair.                                                                   *)
Fairness ==
    /\ WF_vars(SignalQueue \/ CheckLength \/ CloseGate \/ PassGate)
    /\ WF_vars(DispatcherNext)
    /\ \A j \in Jobs : WF_vars(RunJob(j))

FairSpec == Spec /\ Fairness

-----------------------------------------------------------------------------
(* Properties                                                              *)

InService == {socketOf[j] : j \in Serving}
HeldConnections == {socketOf[j] : j \in Held}

TypeOK ==
    /\ arriving \in SUBSET Connections
    /\ sockets \in Seq(Connections)
    /\ notFull \in BOOLEAN
    /\ semaphore \in Nat
    /\ acceptor \in AcceptorPC
    /\ dispatcher \in DispatcherPC
    /\ job \in [Jobs -> JobState]
    /\ socketOf \in [Jobs -> Connections \cup {NoSocket}]
    /\ \A j \in Serving : socketOf[j] \in Connections
    /\ concurrent \in Int
    /\ served \in SUBSET Connections
    /\ ignored \in SUBSET Connections
    /\ refused \in SUBSET Connections

(* Whatever the acceptor, the dispatcher and the jobs do to the queue at   *)
(* the same time, a connection is always in exactly one place: no job gets *)
(* a socket another job has (front() and Pop() of Job::Execute), none is   *)
(* lost or queued twice, and a finished one never comes back.              *)
ExactlyOnePlace ==
    /\ Distinct(sockets)
    /\ \A i, k \in Serving : socketOf[i] = socketOf[k] => i = k
    /\ Connections = arriving \cup Elements(sockets) \cup InService
                       \cup served \cup ignored \cup refused
    /\ arriving \cap (Elements(sockets) \cup InService \cup served \cup ignored \cup refused) = {}
    /\ Elements(sockets) \cap (InService \cup served \cup ignored \cup refused) = {}
    /\ InService \cap (served \cup ignored \cup refused) = {}
    /\ served \cap (ignored \cup refused) = {}
    /\ ignored \cap refused = {}

(* The length test is made outside the critical section and the gate is    *)
(* closed later still, yet the pool never outgrows its limit by more than  *)
(* the batch that filled it (Server::Run, PoolMaxLength).                  *)
QueueBounded == Len(sockets) <= PoolMaxLength - 1 + MaxBatch

(* The dispatcher never sleeps on a queue it has not been told about: the  *)
(* signal that wakes it is there or is the acceptor's very next step.      *)
NoStrandedConnection ==
    dispatcher = "sleep" /\ semaphore = 0 /\ sockets # <<>> => acceptor = "signal"

(* When ProcessWorkerThreads sleeps on the semaphore no job is left, not   *)
(* even one that was started for a socket another job took: only then may  *)
(* the loop go on to replace the application modules.                      *)
QuiescentWhenAsleep ==
    dispatcher = "sleep" => \A j \in Jobs : job[j] = "idle"

(* What ConcurrentRequestCount counts: the requests in service, and for    *)
(* ever the connections a job refused, because that return of Job::Execute *)
(* skips the decrement.                                                    *)
CountIsServingPlusRefused ==
    concurrent = Cardinality(Serving) + Cardinality(refused)

(* No connection is lost, none is counted twice, in the queue, in a job or *)
(* in the counter, when a job returns half way through Execute.            *)
AccountsBalance == ExactlyOnePlace /\ CountIsServingPlusRefused

(* ConnectionDispatcher.h says the counter is the amount of active         *)
(* requests.                                                               *)
CountIsServing == concurrent = Cardinality(Serving)

(* No client holds its job for ever.                                       *)
ClientsAct == \A j \in Jobs : []<>(job[j] # "held")

(* Every connection that got into the queue is answered or refused, unless *)
(* some client, of whatever connection, holds its job for ever.            *)
EventuallyAnswered ==
    ClientsAct =>
        \A c \in Connections : c \in Elements(sockets) ~> c \in served \cup refused

(* As long as there is something left to drain, a waiting acceptor will be *)
(* let through, under the same condition.                                  *)
BackpressureReleases ==
    ClientsAct => (acceptor = "wait" /\ sockets # <<>> ~> acceptor = "accept")

(* "process incoming requests" (ConnectionDispatcher.h): each has a task,  *)
(* so that a client that is silent holds up nobody but itself.             *)
SilenceHurtsNobodyElse ==
    \A c \in Connections :
        c \in Elements(sockets) ~> c \in served \cup refused \cup HeldConnections

(* The accept loop "process[es] receiving new connections" (Server::Run):  *)
(* an acceptor that found the pool full gets back to accepting.            *)
GateReopens == ClientsAct => (acceptor = "reset" ~> acceptor = "accept")

(* The pipeline is a bounded first-in-first-out service line.              *)
Service == INSTANCE ConnectionService WITH
    Capacity <- PoolMaxLength - 1 + MaxBatch,
    pending <- sockets,
    active <- InService,
    held <- HeldConnections,
    closed <- served \cup ignored \cup refused

ServiceSpec == Service!SSpec
=============================================================================
