----------------------- MODULE ServerLifecycle_proof -----------------------
(***************************************************************************)
(* What TLAPS proves about the life of the server, for any number of Runs, *)
(* calls, connections and jobs.                                            *)
(***************************************************************************)
EXTENDS ServerLifecycle, TLAPS

USE LifecycleAssumption

-----------------------------------------------------------------------------
(* Types, in parts that few steps touch at a time.  A job and a connection *)
(* are counted once, and main is in a Run once it has begun one: without   *)
(* these the bounds in TypeOK are not inductive.                           *)
ThreadTypes ==
    /\ main \in MainPC
    /\ run \in 0..MaxRuns
    /\ main # "begin" => run \in Runs
    /\ worker \in [Runs -> WorkerPC]

WorkTypes ==
    /\ started \in [Runs -> 0..MaxJobs]
    /\ serving \in [Runs -> 0..MaxJobs]
    /\ \A r \in Runs : started[r] + serving[r] <= MaxJobs
    /\ arriving \in 0..MaxConnections
    /\ queued \in 0..MaxConnections
    /\ arriving + queued <= MaxConnections

NetTypes ==
    /\ transports \in SUBSET Runs
    /\ closes \in [Runs -> Nat]
    /\ modules \in {"open", "closed", "broken"}

CommandTypes ==
    /\ command \in [kind : Commands \cup {"none"}, step : 0..5]
    /\ issued \in 0..MaxCommands
    /\ stopping \in {"never", "outside", "listening"}

HistoryTypes == met \in BOOLEAN /\ orphaned \in BOOLEAN

ControlFlagTypes == active \in BOOLEAN /\ restart \in BOOLEAN /\ update \in BOOLEAN

GateTypes == notFull \in BOOLEAN /\ portTaken \in BOOLEAN /\ pooler \in BOOLEAN

TypeInv ==
    /\ ThreadTypes /\ WorkTypes /\ NetTypes /\ CommandTypes
    /\ HistoryTypes /\ ControlFlagTypes /\ GateTypes /\ semaphore \in Nat

LEMMA TypeInvIsTypeOK == TypeInv => TypeOK
BY DEF TypeInv, TypeOK, ThreadTypes, WorkTypes, NetTypes, CommandTypes, HistoryTypes,
       ControlFlagTypes, GateTypes

LEMMA InitTypes == Init => TypeInv
<1> SUFFICES ASSUME Init PROVE TypeInv
  OBVIOUS
<1>1. ThreadTypes
  BY DEF Init, ThreadTypes, Runs, MainPC, WorkerPC
<1>2. WorkTypes
  BY DEF Init, WorkTypes
<1>3. NetTypes
  BY DEF Init, NetTypes
<1>4. CommandTypes
  BY DEF Init, CommandTypes, Idle
<1> QED
  BY <1>1, <1>2, <1>3, <1>4 DEF Init, TypeInv, HistoryTypes, ControlFlagTypes, GateTypes

LEMMA MainTypes ==
    ASSUME TypeInv, MainNext
    PROVE  TypeInv'
<1> USE DEF MainNext, MainStep, MainAt, BeginRun, BindListeners, SetActive, SpawnDispatcher,
            AcceptConnection, AcceptFails, SignalQueue, CheckLength, CloseGate, PassGate,
            TestActive, TestUpdate, QuitLoop, ReleaseListeners, ClearControls,
            CloseModules, DeleteTask, RunAgain
<1>1. ThreadTypes'
  BY DEF TypeInv, ThreadTypes, Runs, MainPC, WorkerPC, jobs, flags, queue, net, control
<1>2. WorkTypes'
  BY DEF TypeInv, WorkTypes, jobs, queue
<1>3. NetTypes'
  BY DEF TypeInv, NetTypes, ThreadTypes, CloseListeners, net
<1>4. CommandTypes'
  BY DEF TypeInv, CommandTypes, Idle, control, history
<1>5. active' \in BOOLEAN
  BY DEF TypeInv, ControlFlagTypes, flags
<1>6. restart' \in BOOLEAN
  BY DEF TypeInv, ControlFlagTypes, flags
<1>7. update' \in BOOLEAN
  BY DEF TypeInv, ControlFlagTypes, flags
<1>8. notFull' \in BOOLEAN
  BY Zenon DEF TypeInv, GateTypes, flags
<1>9. portTaken' \in BOOLEAN
  BY DEF TypeInv, GateTypes, CloseListeners, net
<1>10. pooler' \in BOOLEAN
  BY DEF TypeInv, GateTypes, net
<1>11. semaphore' \in Nat
  BY DEF TypeInv, flags
<1>12. met' \in BOOLEAN
  BY Zenon DEF TypeInv, HistoryTypes, control, history
<1>13. orphaned' \in BOOLEAN
  BY Zenon DEF TypeInv, HistoryTypes, control, history
<1> QED
  BY <1>1, <1>2, <1>3, <1>4, <1>5, <1>6, <1>7, <1>8, <1>9, <1>10, <1>11, <1>12, <1>13
  DEF TypeInv, HistoryTypes, ControlFlagTypes, GateTypes

LEMMA ControllerTypes ==
    ASSUME TypeInv, ControlNext
    PROVE  TypeInv'
<1> USE DEF ControlNext, BeginCommand, ControlStep, SetRequest, NotifyGate, ClearActive,
            ProcessQueue, StopListening, At, Advance
<1>1. ThreadTypes'
  BY DEF TypeInv, ThreadTypes, Runs, MainPC, WorkerPC, jobs, flags, queue, net, control
<1>2. WorkTypes'
  BY DEF TypeInv, WorkTypes, jobs, queue
<1>3. NetTypes'
  BY DEF TypeInv, NetTypes, ThreadTypes, CloseListeners, net
<1>4. CommandTypes'
  BY DEF TypeInv, CommandTypes, Idle, control, history
<1>5. active' \in BOOLEAN
  BY DEF TypeInv, ControlFlagTypes, flags
<1>6. restart' \in BOOLEAN
  BY DEF TypeInv, ControlFlagTypes, flags
<1>7. update' \in BOOLEAN
  BY DEF TypeInv, ControlFlagTypes, flags
<1>8. notFull' \in BOOLEAN
  BY Zenon DEF TypeInv, GateTypes, flags
<1>9. portTaken' \in BOOLEAN
  BY DEF TypeInv, GateTypes, CloseListeners, net
<1>10. pooler' \in BOOLEAN
  BY DEF TypeInv, GateTypes, net
<1>11. semaphore' \in Nat
  BY DEF TypeInv, flags
<1>12. met' \in BOOLEAN
  BY Zenon DEF TypeInv, HistoryTypes, control, history
<1>13. orphaned' \in BOOLEAN
  BY Zenon DEF TypeInv, HistoryTypes, control, history
<1> QED
  BY <1>1, <1>2, <1>3, <1>4, <1>5, <1>6, <1>7, <1>8, <1>9, <1>10, <1>11, <1>12, <1>13
  DEF TypeInv, HistoryTypes, ControlFlagTypes, GateTypes

LEMMA WorkerTypes ==
    ASSUME NEW r \in Runs, TypeInv, WorkerNext(r) \/ JobNext(r)
    PROVE  TypeInv'
<1> USE DEF WorkerTo, WorkerNext, PollUpdate, UnloadModules, ReopenModules, Reactivate,
            ResetUpdate, EnterHandle, StartJob, LeaveQueue, AwaitJobs, WakeUp, TestWorker,
            OpenGate, PollAgain, DestroyPooler, JobNext, FindNothing, TakeConnection, FinishJob
<1>1. ThreadTypes'
  BY DEF TypeInv, ThreadTypes, Runs, MainPC, WorkerPC, jobs, flags, queue, net, control
<1>2. WorkTypes'
  BY DEF TypeInv, WorkTypes, jobs, queue
<1>3. NetTypes'
  BY DEF TypeInv, NetTypes, ThreadTypes, CloseListeners, net
<1>4. CommandTypes'
  BY DEF TypeInv, CommandTypes, Idle, control, history
<1>5. active' \in BOOLEAN
  BY DEF TypeInv, ControlFlagTypes, flags
<1>6. restart' \in BOOLEAN
  BY DEF TypeInv, ControlFlagTypes, flags
<1>7. update' \in BOOLEAN
  BY DEF TypeInv, ControlFlagTypes, flags
<1>8. notFull' \in BOOLEAN
  BY Zenon DEF TypeInv, GateTypes, flags
<1>9. portTaken' \in BOOLEAN
  BY DEF TypeInv, GateTypes, CloseListeners, net
<1>10. pooler' \in BOOLEAN
  BY DEF TypeInv, GateTypes, net
<1>11. semaphore' \in Nat
  BY DEF TypeInv, flags
<1>12. met' \in BOOLEAN
  BY Zenon DEF TypeInv, HistoryTypes, control, history
<1>13. orphaned' \in BOOLEAN
  BY Zenon DEF TypeInv, HistoryTypes, control, history
<1> QED
  BY <1>1, <1>2, <1>3, <1>4, <1>5, <1>6, <1>7, <1>8, <1>9, <1>10, <1>11, <1>12, <1>13
  DEF TypeInv, HistoryTypes, ControlFlagTypes, GateTypes

LEMMA StepTypes == TypeInv /\ [Next]_vars => TypeInv'
<1>1. TypeInv /\ UNCHANGED vars => TypeInv'
  BY DEF TypeInv, ThreadTypes, WorkTypes, NetTypes, CommandTypes, HistoryTypes,
         ControlFlagTypes, GateTypes, vars, jobs, flags, queue, net, control, history
<1> QED
  BY <1>1, MainTypes, ControllerTypes, WorkerTypes DEF Next

LEMMA TypeInvariant == Spec => []TypeInv
BY InitTypes, StepTypes, PTL DEF Spec

-----------------------------------------------------------------------------
(* The dispatchers, as long as none has outlived its Run.                  *)

(* A Run has a dispatcher only once it has started one.                    *)
FreshDispatcher ==
    \A r \in Runs :
        r > run \/ (r = run /\ main \in {"bind", "activate", "spawn"}) => worker[r] = "none"

(* Only the dispatcher of the current Run is there, and none before Run    *)
(* has started its own.                                                    *)
OneDispatcher ==
    \A r \in Runs : worker[r] \notin {"none", "done"} =>
        r = run /\ main \notin {"bind", "activate", "spawn"}

(* A dispatcher has jobs only while it works on the queue, left behind or  *)
(* not.                                                                    *)
JobsHaveDispatcher ==
    \A r \in Runs : worker[r] \notin {"handle", "await"} => started[r] = 0 /\ serving[r] = 0

(* A dispatcher that has left its inner loop for good saw Active cleared,  *)
(* and nobody but itself sets it again.                                    *)
InactiveWhenLeaving ==
    main \in AcceptLoop =>
        /\ worker[run] # "none"
        /\ worker[run] \in {"notify", "pollAgain", "complete", "done"} => ~active

(* Who clears Active signals next, and no dispatcher takes that signal     *)
(* before it has seen Active cleared.                                      *)
Signalled == active \/ semaphore > 0 \/ command.step = 4

StopIsSignalled ==
    /\ main = "spawn" => Signalled
    /\ \A r \in Runs :
          /\ worker[r] = "poll" => update \/ Signalled
          /\ worker[r] \in {"resetUpdate", "enter", "handle", "await", "sleep"} => Signalled

OwnDispatcher == OneDispatcher /\ InactiveWhenLeaving /\ StopIsSignalled

DispatcherInv ==
    TypeInv /\ FreshDispatcher /\ JobsHaveDispatcher /\ (orphaned \/ OwnDispatcher)

LEMMA InitDispatcher == Init => DispatcherInv
<1> SUFFICES ASSUME Init PROVE DispatcherInv
  OBVIOUS
<1> QED
  BY InitTypes DEF Init, DispatcherInv, FreshDispatcher, OwnDispatcher, OneDispatcher, JobsHaveDispatcher,
                   AcceptLoop, InactiveWhenLeaving, StopIsSignalled

(* No step takes the history back.                                         *)
LEMMA OrphanedStays ==
    ASSUME Next, orphaned
    PROVE  orphaned'
<1>1. CASE MainNext
  BY <1>1, Zenon
  DEF MainNext, MainStep, BeginRun, BindListeners, SetActive, SpawnDispatcher,
      AcceptConnection, AcceptFails, SignalQueue, CheckLength, CloseGate, PassGate,
      TestActive, TestUpdate, QuitLoop, ReleaseListeners, ClearControls, CloseModules,
      DeleteTask, RunAgain, control, history
<1>2. CASE ControlNext
  BY <1>2, Zenon
  DEF ControlNext, BeginCommand, ControlStep, SetRequest, NotifyGate, ClearActive,
      ProcessQueue, StopListening, history
<1>3. CASE \E r \in Runs : WorkerNext(r) \/ JobNext(r)
  BY <1>3, Zenon
  DEF WorkerNext, PollUpdate, UnloadModules, ReopenModules, Reactivate, ResetUpdate,
      EnterHandle, StartJob, LeaveQueue, AwaitJobs, WakeUp, TestWorker, OpenGate,
      PollAgain, DestroyPooler, JobNext, FindNothing, TakeConnection, FinishJob,
      control, history
<1> QED
  BY <1>1, <1>2, <1>3, Zenon DEF Next

(* A Run that begins finds no dispatcher, or the history says so.          *)
LEMMA BeginRunDispatcher ==
    ASSUME TypeInv, BeginRun, ~orphaned'
    PROVE  OwnDispatcher'
<1>1. DispatchersEnded
  BY Zenon DEF BeginRun
<1>2. worker' = worker /\ main' = "bind"
  BY DEF BeginRun, MainAt
<1> QED
  BY <1>1, <1>2 DEF OwnDispatcher, OneDispatcher, InactiveWhenLeaving, StopIsSignalled,
                    DispatchersEnded, AcceptLoop

LEMMA MainDispatcher ==
    ASSUME DispatcherInv, MainNext
    PROVE  /\ FreshDispatcher' /\ JobsHaveDispatcher'
           /\ ~BeginRun /\ OwnDispatcher => OwnDispatcher'
<1> USE DEF DispatcherInv, TypeInv, MainNext, MainStep, MainAt, BeginRun, BindListeners, SetActive, SpawnDispatcher,
            AcceptConnection, AcceptFails, SignalQueue, CheckLength, CloseGate, PassGate,
            TestActive, TestUpdate, QuitLoop, ReleaseListeners, ClearControls,
            CloseModules, DeleteTask, RunAgain
<1>1. FreshDispatcher'
  <2>1. CASE BeginRun
    BY <2>1 DEF FreshDispatcher, ThreadTypes, Runs
  <2>2. ASSUME ~BeginRun PROVE FreshDispatcher'
    <3>1. run' = run
      BY <2>2
    <3>2. main' \in {"bind", "activate", "spawn"} => main \in {"bind", "activate", "spawn"}
      BY <2>2
    <3>3. \/ worker' = worker
          \/ worker' = [worker EXCEPT ![run] = "poll"] /\ main' = "accept"
      BY <2>2
    <3> QED
      BY <3>1, <3>2, <3>3 DEF FreshDispatcher, ThreadTypes
  <2> QED
    BY <2>1, <2>2 DEF FreshDispatcher, ThreadTypes
<1>2. JobsHaveDispatcher'
  BY DEF JobsHaveDispatcher, FreshDispatcher, ThreadTypes, WorkTypes, jobs
<1>3. ASSUME ~BeginRun, OwnDispatcher PROVE OwnDispatcher'
  <2> USE <1>3 DEF OwnDispatcher
  <2>1. OneDispatcher'
    BY DEF OneDispatcher, ThreadTypes
  <2>2. InactiveWhenLeaving'
    BY DEF InactiveWhenLeaving, OneDispatcher, ThreadTypes, AcceptLoop, flags
  <2>3. StopIsSignalled'
    <3>1. \/ \A r \in Runs : worker'[r] \in {"none", "done"} /\ main' # "spawn"
          \/ active'
          \/ semaphore' > 0
          \/ UNCHANGED <<worker, active, update, semaphore, command>> /\ main' # "spawn"
          \/ main = "spawn" /\ worker' = [worker EXCEPT ![run] = "poll"]
                /\ main' # "spawn" /\ UNCHANGED <<active, update, semaphore, command>>
      BY DEF OneDispatcher, ThreadTypes, flags, control
    <3>2. run \in Runs \/ main = "begin"
      BY DEF ThreadTypes
    <3> QED
      BY <3>1, <3>2 DEF StopIsSignalled, Signalled, ThreadTypes
  <2> QED
    BY <2>1, <2>2, <2>3
<1> QED
  BY <1>1, <1>2, <1>3

LEMMA ControllerDispatcher ==
    ASSUME DispatcherInv, ControlNext
    PROVE  /\ FreshDispatcher' /\ JobsHaveDispatcher'
           /\ OwnDispatcher => OwnDispatcher'
<1> USE DEF DispatcherInv, TypeInv, ControlNext, BeginCommand, ControlStep, SetRequest, NotifyGate, ClearActive,
            ProcessQueue, StopListening, At, Advance
<1>1. UNCHANGED <<main, run, worker, jobs>>
  OBVIOUS
<1>2. FreshDispatcher' /\ JobsHaveDispatcher'
  BY <1>1 DEF FreshDispatcher, JobsHaveDispatcher, jobs
<1>3. ASSUME OwnDispatcher PROVE OwnDispatcher'
  <2> USE <1>3 DEF OwnDispatcher
  <2>1. OneDispatcher'
    BY <1>1 DEF OneDispatcher
  <2>2. InactiveWhenLeaving'
    BY DEF InactiveWhenLeaving, AcceptLoop, flags
  <2>3. update => update'
    BY Zenon DEF flags
  <2>4. Signalled => Signalled'
    BY DEF Signalled, CommandTypes, Idle, flags
  <2>5. StopIsSignalled'
    BY <1>1, <2>3, <2>4 DEF StopIsSignalled
  <2> QED
    BY <2>1, <2>2, <2>5
<1> QED
  BY <1>2, <1>3

LEMMA WorkerDispatcher ==
    ASSUME NEW r \in Runs, DispatcherInv, WorkerNext(r) \/ JobNext(r)
    PROVE  /\ FreshDispatcher' /\ JobsHaveDispatcher'
           /\ OwnDispatcher => OwnDispatcher'
<1> USE DEF DispatcherInv, TypeInv, WorkerTo, WorkerNext, PollUpdate, UnloadModules, ReopenModules, Reactivate,
            ResetUpdate, EnterHandle, StartJob, LeaveQueue, AwaitJobs, WakeUp, TestWorker,
            OpenGate, PollAgain, DestroyPooler, JobNext, FindNothing, TakeConnection, FinishJob
<1>1. FreshDispatcher'
  BY DEF FreshDispatcher, ThreadTypes
<1>2. JobsHaveDispatcher'
  BY DEF JobsHaveDispatcher, ThreadTypes, WorkTypes, jobs
<1>3. ASSUME OwnDispatcher PROVE OwnDispatcher'
  <2> USE <1>3 DEF OwnDispatcher
  <2>1. OneDispatcher'
    BY DEF OneDispatcher, ThreadTypes
  <2>2. InactiveWhenLeaving'
    BY DEF InactiveWhenLeaving, OneDispatcher, ThreadTypes, AcceptLoop, flags
  <2>3. StopIsSignalled'
    BY DEF StopIsSignalled, Signalled, OneDispatcher, ThreadTypes, flags, control
  <2> QED
    BY <2>1, <2>2, <2>3
<1> QED
  BY <1>1, <1>2, <1>3

LEMMA StepDispatcher ==
    ASSUME DispatcherInv, Next
    PROVE  DispatcherInv'
<1>1. TypeInv' /\ FreshDispatcher' /\ JobsHaveDispatcher'
  BY StepTypes, MainDispatcher, ControllerDispatcher, WorkerDispatcher DEF DispatcherInv, Next
<1>2. ASSUME ~orphaned' PROVE OwnDispatcher'
  <2>1. OwnDispatcher
    BY <1>2, OrphanedStays, Zenon DEF DispatcherInv
  <2> QED
    BY <1>2, <2>1, BeginRunDispatcher, MainDispatcher, ControllerDispatcher, WorkerDispatcher, Zenon
    DEF DispatcherInv, Next
<1> QED
  BY <1>1, <1>2, Zenon DEF DispatcherInv

LEMMA DispatcherInvariant == Spec => []DispatcherInv
<1>1. DispatcherInv /\ UNCHANGED vars => DispatcherInv'
  <2> SUFFICES ASSUME DispatcherInv, UNCHANGED vars PROVE DispatcherInv'
    OBVIOUS
  <2>1. TypeInv'
    BY StepTypes DEF DispatcherInv
  <2>2. UNCHANGED <<main, run, worker, started, serving, active, update, semaphore, command, orphaned>>
    BY DEF vars, jobs, flags, control, history
  <2> QED
    BY <2>1, <2>2, Zenon
    DEF DispatcherInv, FreshDispatcher, OwnDispatcher, OneDispatcher, JobsHaveDispatcher,
        InactiveWhenLeaving, StopIsSignalled, Signalled
<1>2. DispatcherInv /\ [Next]_vars => DispatcherInv'
  BY <1>1, StepDispatcher
<1> QED
  BY <1>2, InitDispatcher, PTL DEF Spec

-----------------------------------------------------------------------------
(* While a Run listens with Active set, its dispatcher has not left its    *)
(* loop, whatever Stop, Restart, Update and the dispatcher itself do to    *)
(* the flag, unless the dispatcher of an earlier Run has outlived it.      *)
THEOREM ActiveMeansDispatching == Spec => []LifecycleInv
<1>1. DispatcherInv => LifecycleInv
  <2> SUFFICES ASSUME DispatcherInv, ~orphaned, active, main \in AcceptLoop
               PROVE  worker[run] \notin {"none", "complete", "done"}
    BY TypeInvIsTypeOK DEF DispatcherInv, LifecycleInv, ActiveHasDispatcher
  <2>1. InactiveWhenLeaving
    BY Zenon DEF DispatcherInv, OwnDispatcher
  <2> QED
    BY <2>1 DEF InactiveWhenLeaving
<1> QED
  BY <1>1, DispatcherInvariant, PTL

(* A dispatcher replaces modules when it has no job left that could be in  *)
(* one of their handlers, whatever deleting a task does; nor has any other,*)
(* unless one has outlived its Run.                                        *)
THEOREM UpdatesAreQuiescent == Spec => []UpdateIsQuiescent
<1>1. DispatcherInv => UpdateIsQuiescent
  <2> SUFFICES ASSUME DispatcherInv, NEW r \in Runs, worker[r] \in {"replace", "reopen"},
                      NEW k \in Runs, k = r \/ ~orphaned
               PROVE  started[k] + serving[k] = 0
    BY DEF UpdateIsQuiescent
  <2>1. worker[k] \notin {"handle", "await"}
    <3>1. CASE k = r
      BY <3>1
    <3>2. CASE ~orphaned
      <4>1. OneDispatcher
        BY <3>2, Zenon DEF DispatcherInv, OwnDispatcher
      <4> QED
        BY <4>1 DEF OneDispatcher
    <3> QED
      BY <3>1, <3>2, Zenon
  <2> QED
    BY <2>1 DEF DispatcherInv, JobsHaveDispatcher
<1> QED
  BY <1>1, DispatcherInvariant, PTL

(* The wake-up of Stop, Restart and Update is never lost: a dispatcher     *)
(* that sleeps after Active has been cleared has a signal in the semaphore *)
(* or gets one from the call's next step, unless another dispatcher, which *)
(* has outlived its Run, could have taken it.                              *)
THEOREM SleepersAreWoken == Spec => []SleeperWillBeWoken
<1>1. DispatcherInv => SleeperWillBeWoken
  <2> SUFFICES ASSUME DispatcherInv, ~orphaned, NEW r \in Runs, worker[r] = "sleep",
                      ~active, semaphore = 0
               PROVE  command.step = 4
    BY DEF SleeperWillBeWoken
  <2>1. StopIsSignalled
    BY Zenon DEF DispatcherInv, OwnDispatcher
  <2> QED
    BY <2>1 DEF DispatcherInv, TypeInv, StopIsSignalled, Signalled
<1> QED
  BY <1>1, DispatcherInvariant, PTL
============================================================================
