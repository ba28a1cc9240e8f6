-------------------------- MODULE ServerLifecycle --------------------------
(***************************************************************************)
(* The life of a Skylar server process, from StartCommand to its return:   *)
(*                                                                         *)
(*   - main: the loop of StartCommand around Server::Run, which binds the  *)
(*     listeners, starts a dispatcher task, accepts connections and, when  *)
(*     its loop ends, cleans up;                                           *)
(*   - one dispatcher task per Run: Server::ProcessWorkerThreads, which    *)
(*     serves the queue and replaces application modules on request;       *)
(*   - a controller: whoever calls Server::Stop, Restart and Update, from  *)
(*     a thread of its own.                                                *)
(*                                                                         *)
(* They share the flags and events of CycleManager and the list of         *)
(* listeners without a lock, so every load, store, Notify, Reset, Poll,    *)
(* Signal and Wait is a step of its own.  The queue is abstracted to its   *)
(* length and a job to the fact that it runs (ConnectionDispatcher has the *)
(* details); what an update does to the modules is in ModuleManager.       *)
(* Events are manual-reset events, so Poll does not change them.           *)
(***************************************************************************)
EXTENDS Integers, FiniteSets

CONSTANTS MaxRuns,          \* bound on the calls of Run
          MaxCommands,      \* bound on the calls of Stop, Restart, Update
          Commands,         \* the calls the controller makes
          MaxConnections,   \* bound on the connections that arrive
          MaxJobs,          \* bound on the jobs of a dispatcher
          PoolMaxLength     \* Net::PoolMaxLength

ASSUME LifecycleAssumption ==
    /\ MaxRuns \in Nat \ {0}
    /\ MaxCommands \in Nat
    /\ Commands \subseteq {"stop", "restart", "update"}
    /\ MaxConnections \in Nat
    /\ MaxJobs \in Nat \ {0}
    /\ PoolMaxLength \in Nat \ {0}

Runs == 1..MaxRuns

VARIABLES main,         \* where StartCommand and Run are
          run,          \* the current call of Run, 0 before the first
          worker,       \* where the dispatcher of each Run is
          started,      \* jobs of each dispatcher that have not looked at the queue
          serving,      \* jobs of each dispatcher that serve a connection
          active,       \* Controls.Active
          restart,      \* Controls.Restart
          update,       \* Controls.UpdateModulesEvent
          semaphore,    \* Controls.ProcessQueueSemaphore
          notFull,      \* QueueNotFullEvent
          arriving,     \* connections still to come
          queued,       \* length of Sockets
          transports,   \* Server::Transports: the Runs whose listeners it holds
          closes,       \* how often the listener of each Run was closed
          portTaken,    \* AddressBinder::Ports holds the port
          pooler,       \* the pooler exists
          modules,      \* the application modules
          command,      \* the call the controller is in and its next step
          issued,       \* calls begun
          stopping,     \* when in this Run a Stop or Restart last began
          met,          \* a call began while an update was under way, or an
                        \* Update while the server was not active
          orphaned      \* a Run began when the dispatcher of an earlier one had
                        \* not ended

flags == <<active, restart, update, semaphore, notFull>>
queue == <<arriving, queued>>
net == <<transports, closes, portTaken, pooler>>
history == <<stopping, met, orphaned>>
control == <<command, issued, history>>
jobs == <<started, serving>>
vars == <<main, run, worker, jobs, flags, queue, net, modules, control>>

MainPC == {"begin", "bind", "activate", "spawn", "accept", "signal", "check",
           "reset", "wait", "testActive", "testUpdate", "quit", "close",
           "clear", "cleanup", "reap", "again", "exited"}

WorkerPC == {"none", "poll", "replace", "reopen", "setActive", "resetUpdate",
             "enter", "handle", "await", "sleep", "test", "notify",
             "pollAgain", "complete", "done"}

AcceptLoop == {"accept", "signal", "check", "reset", "wait", "testActive", "testUpdate"}

Idle == [kind |-> "none", step |-> 0]

Init ==
    /\ main = "begin"
    /\ run = 0
    /\ worker = [r \in Runs |-> "none"]
    /\ started = [r \in Runs |-> 0]
    /\ serving = [r \in Runs |-> 0]
    /\ active = FALSE
    /\ restart = FALSE
    /\ update = FALSE
    /\ semaphore = 0
    /\ notFull \in BOOLEAN
    /\ arriving = MaxConnections
    /\ queued = 0
    /\ transports = {}
    /\ closes = [r \in Runs |-> 0]
    /\ portTaken = FALSE
    /\ pooler = FALSE
    /\ modules = "closed"
    /\ command = Idle
    /\ issued = 0
    /\ stopping = "never"
    /\ met = FALSE
    /\ orphaned = FALSE

(* Close and delete every listener of the list, which keeps its pointers.  *)
CloseListeners ==
    /\ closes' = [r \in Runs |-> IF r \in transports THEN closes[r] + 1 ELSE closes[r]]
    /\ portTaken' = FALSE

-----------------------------------------------------------------------------
(* StartCommand and Run                                                    *)

MainAt(from, to) == main = from /\ main' = to

DispatchersEnded == \A r \in Runs : worker[r] \in {"none", "done"}

BeginRun ==
    /\ MainAt("begin", "bind")
    /\ run < MaxRuns
    /\ run' = run + 1
    /\ active' = FALSE
    /\ restart' = FALSE
    /\ stopping' = IF command.kind \in {"stop", "restart"} THEN "outside" ELSE "never"
    /\ orphaned' = (orphaned \/ ~DispatchersEnded)
    /\ UNCHANGED <<worker, jobs, update, semaphore, notFull, queue, net, modules,
                   command, issued, met>>

(* The settings and modules are loaded and the ports bound: a port that is *)
(* still taken is refused, any other may fail.                             *)
BindListeners ==
    /\ main = "bind"
    /\ modules' = "open"
    /\ \E bound \in BOOLEAN :
          /\ bound => ~portTaken
          /\ transports' = IF bound THEN transports \cup {run} ELSE transports
          /\ portTaken' = (portTaken \/ bound)
    /\ IF transports' = {}
         THEN main' = "clear" /\ pooler' = pooler
         ELSE main' = "activate" /\ pooler' = TRUE
    /\ UNCHANGED <<run, worker, jobs, flags, queue, closes, control>>

SetActive ==
    /\ MainAt("activate", "spawn")
    /\ active' = TRUE
    /\ UNCHANGED <<run, worker, jobs, restart, update, semaphore, notFull, queue,
                   net, modules, control>>

(* Mutant: that the task could not be created is not looked at.            *)
SpawnUnchecked ==
    /\ MainAt("spawn", "accept")
    /\ \E at \in {"none", "poll"} : worker' = [worker EXCEPT ![run] = at]
    /\ UNCHANGED <<run, jobs, flags, queue, net, modules, control>>

SpawnDispatcher ==
    /\ main = "spawn"
    /\ \/ main' = "accept" /\ worker' = [worker EXCEPT ![run] = "poll"]
       \/ main' = "again" /\ worker' = worker
    /\ UNCHANGED <<run, jobs, flags, queue, net, modules, control>>

Listening == pooler /\ \E r \in transports : closes[r] = 0

AcceptConnection ==
    /\ MainAt("accept", "signal")
    /\ Listening
    /\ arriving > 0
    /\ arriving' = arriving - 1
    /\ queued' = queued + 1
    /\ UNCHANGED <<run, worker, jobs, flags, net, modules, control>>

(* The pooler has nothing to wait on any more: Accept returns false.       *)
AcceptFails ==
    /\ MainAt("accept", "testActive")
    /\ ~Listening
    /\ UNCHANGED <<run, worker, jobs, flags, queue, net, modules, control>>

SignalQueue ==
    /\ MainAt("signal", "check")
    /\ semaphore' = semaphore + 1
    /\ UNCHANGED <<run, worker, jobs, active, restart, update, notFull, queue, net,
                   modules, control>>

CheckLength ==
    /\ main = "check"
    /\ main' = IF queued >= PoolMaxLength THEN "reset" ELSE "wait"
    /\ UNCHANGED <<run, worker, jobs, flags, queue, net, modules, control>>

CloseGate ==
    /\ MainAt("reset", "wait")
    /\ notFull' = FALSE
    /\ UNCHANGED <<run, worker, jobs, active, restart, update, semaphore, queue, net,
                   modules, control>>

PassGate ==
    /\ MainAt("wait", "testActive")
    /\ notFull
    /\ UNCHANGED <<run, worker, jobs, flags, queue, net, modules, control>>

(* The loop's condition is two loads: Active, then UpdateModulesEvent.     *)
TestActive ==
    /\ main = "testActive"
    /\ main' = IF active THEN "accept" ELSE "testUpdate"
    /\ UNCHANGED <<run, worker, jobs, flags, queue, net, modules, control>>

TestUpdate ==
    /\ main = "testUpdate"
    /\ main' = IF update THEN "accept" ELSE "quit"
    /\ UNCHANGED <<run, worker, jobs, flags, queue, net, modules, control>>

QuitLoop ==
    /\ MainAt("quit", "close")
    /\ semaphore' = semaphore + 1
    /\ UNCHANGED <<run, worker, jobs, active, restart, update, notFull, queue, net,
                   modules, control>>

ReleaseListeners ==
    /\ MainAt("close", "clear")
    /\ CloseListeners
    /\ transports' = {}
    /\ UNCHANGED <<run, worker, jobs, flags, queue, pooler, modules, control>>

(* Server::Clear: the gate and the controls first, ...                     *)
ClearControls ==
    /\ MainAt("clear", "cleanup")
    /\ notFull' = FALSE
    /\ semaphore' = semaphore + 1
    /\ update' = FALSE
    /\ UNCHANGED <<run, worker, jobs, active, restart, queue, net, modules, control>>

(* ... then the modules, whatever the jobs are doing.                      *)
CloseModules ==
    /\ main = "cleanup"
    /\ modules' = "closed"
    /\ main' = IF worker[run] = "none" THEN "again" ELSE "reap"
    /\ UNCHANGED <<run, worker, jobs, flags, queue, net, control>>

(* ~Task is the engine's, and nobody calls Destroy first: it may wait for  *)
(* the dispatcher or leave it behind, at any of its steps.                 *)
DeleteTask ==
    /\ MainAt("reap", "again")
    /\ UNCHANGED <<run, worker, jobs, flags, queue, net, modules, control>>

RunAgain ==
    /\ main = "again"
    /\ main' = IF active \/ restart THEN "begin" ELSE "exited"
    /\ UNCHANGED <<run, worker, jobs, flags, queue, net, modules, control>>

MainStep ==
    \/ BeginRun \/ BindListeners \/ SetActive \/ SpawnDispatcher
    \/ AcceptFails \/ SignalQueue \/ CheckLength \/ CloseGate
    \/ PassGate \/ TestActive \/ TestUpdate
    \/ QuitLoop \/ ReleaseListeners \/ ClearControls \/ CloseModules
    \/ DeleteTask \/ RunAgain

MainNext == AcceptConnection \/ MainStep

-----------------------------------------------------------------------------
(* ProcessWorkerThreads, the dispatcher of Run r                           *)

WorkerTo(r, from, to) == worker[r] = from /\ worker' = [worker EXCEPT ![r] = to]

PollUpdate(r) ==
    /\ WorkerTo(r, "poll", IF update THEN "replace" ELSE "enter")
    /\ UNCHANGED <<main, run, jobs, flags, queue, net, modules, control>>

(* UpdateApplications unloads the modules that have a newer file.          *)
UnloadModules(r) ==
    /\ \/ WorkerTo(r, "replace", "reopen") /\ modules' = "closed"
       \/ WorkerTo(r, "replace", "setActive") /\ modules' = modules
    /\ UNCHANGED <<main, run, jobs, flags, queue, net, control>>

(* The new module is opened, or one of the steps of UpdateApplication      *)
(* fails and the applications are left without handlers.                   *)
ReopenModules(r) ==
    /\ WorkerTo(r, "reopen", "setActive")
    /\ modules' \in {"open", "broken"}
    /\ UNCHANGED <<main, run, jobs, flags, queue, net, control>>

Reactivate(r) ==
    /\ WorkerTo(r, "setActive", "resetUpdate")
    /\ active' = TRUE
    /\ UNCHANGED <<main, run, jobs, restart, update, semaphore, notFull, queue, net,
                   modules, control>>

ResetUpdate(r) ==
    /\ WorkerTo(r, "resetUpdate", "enter")
    /\ update' = FALSE
    /\ UNCHANGED <<main, run, jobs, active, restart, semaphore, notFull, queue, net,
                   modules, control>>

(* Handle() returns at once when the server is not active.                 *)
EnterHandle(r) ==
    /\ WorkerTo(r, "enter", IF active THEN "handle" ELSE "sleep")
    /\ UNCHANGED <<main, run, jobs, flags, queue, net, modules, control>>

StartJob(r) ==
    /\ worker[r] = "handle"
    /\ queued > 0
    /\ started[r] + serving[r] < MaxJobs
    /\ started' = [started EXCEPT ![r] = @ + 1]
    /\ UNCHANGED <<main, run, worker, serving, flags, queue, net, modules, control>>

LeaveQueue(r) ==
    /\ WorkerTo(r, "handle", "await")
    /\ queued = 0
    /\ UNCHANGED <<main, run, jobs, flags, queue, net, modules, control>>

(* Mutant: the dispatcher does not wait for the jobs that serve.           *)
AwaitStartedJobs(r) ==
    /\ WorkerTo(r, "await", "sleep")
    /\ started[r] = 0
    /\ UNCHANGED <<main, run, jobs, flags, queue, net, modules, control>>

AwaitJobs(r) ==
    /\ WorkerTo(r, "await", "sleep")
    /\ started[r] + serving[r] = 0
    /\ UNCHANGED <<main, run, jobs, flags, queue, net, modules, control>>

WakeUp(r) ==
    /\ WorkerTo(r, "sleep", "test")
    /\ semaphore > 0
    /\ semaphore' = semaphore - 1
    /\ UNCHANGED <<main, run, jobs, active, restart, update, notFull, queue, net,
                   modules, control>>

(* Mutant: the dispatcher never leaves its inner loop.                     *)
TestNothing(r) ==
    /\ WorkerTo(r, "test", "enter")
    /\ UNCHANGED <<main, run, jobs, flags, queue, net, modules, control>>

TestWorker(r) ==
    /\ WorkerTo(r, "test", IF active THEN "enter" ELSE "notify")
    /\ UNCHANGED <<main, run, jobs, flags, queue, net, modules, control>>

OpenGate(r) ==
    /\ WorkerTo(r, "notify", "pollAgain")
    /\ notFull' = TRUE
    /\ UNCHANGED <<main, run, jobs, active, restart, update, semaphore, queue, net,
                   modules, control>>

(* Mutant: the outer loop is not repeated for an update.                   *)
PollAgainDeaf(r) ==
    /\ WorkerTo(r, "pollAgain", "complete")
    /\ UNCHANGED <<main, run, jobs, flags, queue, net, modules, control>>

PollAgain(r) ==
    /\ WorkerTo(r, "pollAgain", IF update THEN "poll" ELSE "complete")
    /\ UNCHANGED <<main, run, jobs, flags, queue, net, modules, control>>

DestroyPooler(r) ==
    /\ WorkerTo(r, "complete", "done")
    /\ pooler' = FALSE
    /\ UNCHANGED <<main, run, jobs, flags, queue, transports, closes, portTaken,
                   modules, control>>

WorkerNext(r) ==
    \/ PollUpdate(r) \/ UnloadModules(r) \/ ReopenModules(r) \/ Reactivate(r)
    \/ ResetUpdate(r) \/ EnterHandle(r) \/ StartJob(r) \/ LeaveQueue(r)
    \/ AwaitJobs(r) \/ WakeUp(r) \/ TestWorker(r) \/ OpenGate(r) \/ PollAgain(r)
    \/ DestroyPooler(r)

-----------------------------------------------------------------------------
(* The jobs of the dispatcher of Run r                                     *)

FindNothing(r) ==
    /\ started[r] > 0
    /\ queued = 0
    /\ started' = [started EXCEPT ![r] = @ - 1]
    /\ UNCHANGED <<main, run, worker, serving, flags, queue, net, modules, control>>

TakeConnection(r) ==
    /\ started[r] > 0
    /\ queued > 0
    /\ started' = [started EXCEPT ![r] = @ - 1]
    /\ serving' = [serving EXCEPT ![r] = @ + 1]
    /\ queued' = queued - 1
    /\ notFull' = (notFull \/ queued' = 0)
    /\ UNCHANGED <<main, run, worker, active, restart, update, semaphore, arriving, net,
                   modules, control>>

FinishJob(r) ==
    /\ serving[r] > 0
    /\ serving' = [serving EXCEPT ![r] = @ - 1]
    /\ UNCHANGED <<main, run, worker, started, flags, queue, net, modules, control>>

JobNext(r) == FindNothing(r) \/ TakeConnection(r) \/ FinishJob(r)

-----------------------------------------------------------------------------
(* Stop, Restart and Update                                                *)

UpdateUnderWay ==
    update \/ \E r \in Runs : worker[r] \in {"replace", "reopen", "setActive", "resetUpdate"}

BeginCommand(kind) ==
    /\ command = Idle
    /\ issued < MaxCommands
    /\ run > 0 /\ main # "exited"
    /\ command' = [kind |-> kind, step |-> 1]
    /\ issued' = issued + 1
    /\ stopping' = IF kind = "update" THEN stopping
                    ELSE IF main \in AcceptLoop THEN "listening" ELSE "outside"
    /\ met' = (met \/ UpdateUnderWay \/ (kind = "update" /\ ~active))
    /\ UNCHANGED <<main, run, worker, jobs, flags, queue, net, modules, orphaned>>

At(kinds, step) == command.kind \in kinds /\ command.step = step

Advance == command' = [command EXCEPT !.step = @ + 1]

(* Restart sets its flag, Update its event.                                *)
SetRequest ==
    /\ At({"restart", "update"}, 1)
    /\ Advance
    /\ restart' = (restart \/ command.kind = "restart")
    /\ update' = (update \/ command.kind = "update")
    /\ UNCHANGED <<main, run, worker, jobs, active, semaphore, notFull, queue, net,
                   modules, issued, history>>

NotifyGate ==
    /\ At({"stop"}, 1) \/ At({"restart"}, 2)
    /\ command' = [command EXCEPT !.step = 3]
    /\ notFull' = TRUE
    /\ UNCHANGED <<main, run, worker, jobs, active, restart, update, semaphore, queue,
                   net, modules, issued, history>>

ClearActive ==
    /\ At({"stop", "restart"}, 3) \/ At({"update"}, 2)
    /\ command' = [command EXCEPT !.step = 4]
    /\ active' = FALSE
    /\ UNCHANGED <<main, run, worker, jobs, restart, update, semaphore, notFull, queue,
                   net, modules, issued, history>>

ProcessQueue ==
    /\ At({"stop", "restart", "update"}, 4)
    /\ command' = IF command.kind = "update" THEN Idle ELSE [command EXCEPT !.step = 5]
    /\ semaphore' = semaphore + 1
    /\ UNCHANGED <<main, run, worker, jobs, active, restart, update, notFull, queue, net,
                   modules, issued, history>>

StopListening ==
    /\ At({"stop", "restart"}, 5)
    /\ command' = Idle
    /\ CloseListeners
    /\ UNCHANGED <<main, run, worker, jobs, flags, queue, transports, pooler, modules,
                   issued, history>>

ControlStep == SetRequest \/ NotifyGate \/ ClearActive \/ ProcessQueue \/ StopListening

ControlNext == (\E kind \in Commands : BeginCommand(kind)) \/ ControlStep

-----------------------------------------------------------------------------
Next == MainNext \/ ControlNext \/ \E r \in Runs : WorkerNext(r) \/ JobNext(r)

Spec == Init /\ [][Next]_vars

(* Threads are scheduled, a job that has been started looks at the queue,  *)
(* and a call the controller has begun is finished.  Nobody is obliged to  *)
(* connect or to call, and a job may wait for its client for ever.         *)
Fairness ==
    /\ WF_vars(MainStep)
    /\ \A r \in Runs : WF_vars(WorkerNext(r)) /\ WF_vars(FindNothing(r) \/ TakeConnection(r))
    /\ WF_vars(ControlStep)

FairSpec == Spec /\ Fairness

-----------------------------------------------------------------------------
(* Properties                                                              *)

TypeOK ==
    /\ main \in MainPC
    /\ run \in 0..MaxRuns
    /\ worker \in [Runs -> WorkerPC]
    /\ started \in [Runs -> 0..MaxJobs]
    /\ serving \in [Runs -> 0..MaxJobs]
    /\ active \in BOOLEAN
    /\ restart \in BOOLEAN
    /\ update \in BOOLEAN
    /\ semaphore \in Nat
    /\ notFull \in BOOLEAN
    /\ arriving \in 0..MaxConnections
    /\ queued \in 0..MaxConnections
    /\ transports \in SUBSET Runs
    /\ closes \in [Runs -> Nat]
    /\ portTaken \in BOOLEAN
    /\ pooler \in BOOLEAN
    /\ modules \in {"open", "closed", "broken"}
    /\ command \in [kind : Commands \cup {"none"}, step : 0..5]
    /\ issued \in 0..MaxCommands
    /\ stopping \in {"never", "outside", "listening"}
    /\ met \in BOOLEAN /\ orphaned \in BOOLEAN

(* UpdateApplications unloads modules in the background: while a           *)
(* dispatcher does, it has no job left that could call into one, nor has   *)
(* any other, unless one has been left behind by its Run.                  *)
UpdateIsQuiescent ==
    \A r \in Runs : worker[r] \in {"replace", "reopen"} =>
        \A k \in Runs : k = r \/ ~orphaned => started[k] + serving[k] = 0

(* A Run that listens with Active set has a dispatcher that will look at   *)
(* the queue again: CycleManager says the flag tells whether the server    *)
(* "is active and has active threads".  Only the dispatcher an earlier Run *)
(* has left behind can set the flag when there is nobody.                  *)
ActiveHasDispatcher ==
    orphaned \/
        (active /\ main \in AcceptLoop => worker[run] \notin {"none", "complete", "done"})

(* The types, and the flag's promise, which no step of any thread breaks.  *)
LifecycleInv == TypeOK /\ ActiveHasDispatcher

(* A dispatcher that sleeps although the server is no longer active has a  *)
(* signal to wake it, or the call that cleared Active gives it next: no    *)
(* order of the flag, the signals and the dispatcher's test loses it.      *)
(* Only a dispatcher left behind could take it.                            *)
SleeperWillBeWoken ==
    orphaned \/ \A r \in Runs :
        worker[r] = "sleep" /\ ~active /\ semaphore = 0 => command.step = 4

(* No client holds its job for ever, ...                                   *)
JobsEnd == \A r \in Runs : WF_vars(FinishJob(r))

(* ... no call meets an update, and no dispatcher outlives its Run into    *)
(* the next.                                                               *)
Undisturbed == JobsEnd /\ []~met /\ []~orphaned

(* Stop and Restart, called while Run accepts connections, end that Run    *)
(* and its dispatcher, which first awaits its jobs.                        *)
RunEnded == main \in {"begin", "exited"} /\ DispatchersEnded

LeavesWhenTold == Undisturbed => (stopping = "listening" ~> RunEnded)

(* An update that is asked for while Run accepts connections is made, or   *)
(* the server ends.                                                        *)
UpdateTakenUp ==
    Undisturbed => (update /\ main \in AcceptLoop ~> ~update \/ main = "exited")

(* A Stop or Restart at any time ends the Run it was called in.            *)
StopIsHeard == JobsEnd => (stopping # "never" ~> main \in {"begin", "exited"})

(* The same of a call that meets an update.                                *)
LeavesWhateverMeets ==
    JobsEnd => (stopping = "listening" ~> main \in {"begin", "exited"})

(* Every update is made, also one that meets another.                      *)
EveryUpdateMade ==
    JobsEnd => (update /\ main \in AcceptLoop ~> ~update \/ main = "exited")

(* No job that may be in a handler is there while modules are replaced,    *)
(* left behind or not.                                                     *)
NoJobInAnUpdate ==
    \A r, k \in Runs : worker[r] \in {"replace", "reopen"} => serving[k] = 0

(* Server.h calls Transports the list of active sockets: nobody closes and *)
(* deletes a listener that has been deleted.                               *)
ClosedOnce == \A r \in Runs : closes[r] <= 1

(* An update is made in the background: the accept loop ends for a Stop or *)
(* a Restart only.                                                         *)
OnlyStopEndsTheLoop == main = "quit" => stopping # "never"

(* A module is not unloaded under a job that may be in one of its handlers.*)
NoJobWithoutModules == modules = "closed" => \A r \in Runs : serving[r] = 0
=============================================================================
