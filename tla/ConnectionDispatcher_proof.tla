--------------------- MODULE ConnectionDispatcher_proof ---------------------
(***************************************************************************)
(* What TLAPS proves about the connection pipeline, for any set of         *)
(* connections, any finite set of jobs, any pool limit and any batch size. *)
(***************************************************************************)
EXTENDS ConnectionDispatcher, FiniteSetTheorems, TLAPS

USE DEF AcceptorPC, DispatcherPC, JobState

-----------------------------------------------------------------------------
(* Sequences of sockets                                                    *)

(* What appending a batch to the queue does to it.                         *)
LEMMA AppendBatch ==
    ASSUME NEW S, NEW q \in Seq(S), NEW n \in Nat, NEW b \in [1..n -> S]
    PROVE  /\ q \o b \in Seq(S)
           /\ Len(b) = n
           /\ Len(q \o b) = Len(q) + n
           /\ \A i \in 1..Len(q) : (q \o b)[i] = q[i]
           /\ \A i \in 1..n : (q \o b)[Len(q) + i] = b[i]
<1>1. b \in Seq(S) /\ Len(b) = n
  OBVIOUS
<1> QED
  BY <1>1

(* What taking the front socket does to the queue.                         *)
LEMMA TakeFront ==
    ASSUME NEW S, NEW q \in Seq(S), q # <<>>
    PROVE  /\ Tail(q) \in Seq(S)
           /\ Head(q) \in S
           /\ Head(q) = q[1]
           /\ Len(q) \in Nat \ {0}
           /\ Len(Tail(q)) = Len(q) - 1
           /\ \A i \in 1..Len(Tail(q)) : Tail(q)[i] = q[i + 1]
OBVIOUS

-----------------------------------------------------------------------------
(* Type correctness                                                        *)

LEMMA InitType == Init => TypeOK
BY DEF Init, TypeOK, Serving

LEMMA AcceptorType == TypeOK /\ AcceptorNext => TypeOK'
<1> SUFFICES ASSUME TypeOK, AcceptorNext PROVE TypeOK'
  OBVIOUS
<1> USE DEF Serving
<1>1. CASE Accept
  <2>1. PICK batch \in Batches, dead \in SUBSET arriving :
           /\ sockets' = sockets \o batch
           /\ ignored' = ignored \cup dead
           /\ arriving' = arriving \ (dead \cup Elements(batch))
    BY <1>1 DEF Accept
  <2>2. PICK n \in 0..MaxBatch : batch \in [1..n -> arriving]
    BY DEF Batches
  <2>3. n \in Nat /\ batch \in [1..n -> Connections]
    BY <2>2, PoolAssumption DEF TypeOK
  <2>4. sockets' \in Seq(Connections)
    BY <2>1, <2>3, AppendBatch DEF TypeOK
  <2> QED
    BY <1>1, <2>1, <2>4 DEF Accept, TypeOK, jobVars
<1>2. CASE SignalQueue
  BY <1>2 DEF SignalQueue, TypeOK, jobVars
<1>3. CASE CheckLength
  BY <1>3 DEF CheckLength, TypeOK, jobVars, queueVars
<1>4. CASE CloseGate
  BY <1>4 DEF CloseGate, TypeOK, jobVars
<1>5. CASE PassGate
  BY <1>5 DEF PassGate, TypeOK, jobVars, queueVars
<1> QED
  BY <1>1, <1>2, <1>3, <1>4, <1>5 DEF AcceptorNext

LEMMA DispatcherType == TypeOK /\ DispatcherNext => TypeOK'
<1> SUFFICES ASSUME TypeOK, DispatcherNext PROVE TypeOK'
  OBVIOUS
<1> USE DEF Serving
<1>1. ASSUME NEW j \in Jobs, StartJob(j) PROVE TypeOK'
  BY <1>1 DEF StartJob, TypeOK, queueVars
<1>2. CASE LeaveHandleLoop
  BY <1>2 DEF LeaveHandleLoop, TypeOK, jobVars, queueVars
<1>3. CASE AwaitJobs
  BY <1>3 DEF AwaitJobs, TypeOK, jobVars, queueVars
<1>4. CASE WakeUp
  BY <1>4 DEF WakeUp, TypeOK, jobVars
<1> QED
  BY <1>1, <1>2, <1>3, <1>4 DEF DispatcherNext

LEMMA JobType == ASSUME NEW j \in Jobs PROVE TypeOK /\ RunJob(j) => TypeOK'
<1> SUFFICES ASSUME TypeOK, RunJob(j) PROVE TypeOK'
  OBVIOUS
<1> USE DEF Serving
<1>1. CASE FindNothing(j)
  BY <1>1 DEF FindNothing, TypeOK, queueVars
<1>2. CASE TakeConnection(j)
  <2>1. Tail(sockets) \in Seq(Connections) /\ Head(sockets) \in Connections
    BY <1>2, TakeFront DEF TakeConnection, Pop, TypeOK
  <2> QED
    BY <1>2, <2>1 DEF TakeConnection, Pop, TypeOK
<1>3. CASE RefuseConnection(j)
  <2>1. Tail(sockets) \in Seq(Connections) /\ Head(sockets) \in Connections
    BY <1>3, TakeFront DEF RefuseConnection, Pop, TypeOK
  <2> QED
    BY <1>3, <2>1 DEF RefuseConnection, Pop, TypeOK
<1>4. CASE FinishConnection(j)
  BY <1>4 DEF FinishConnection, TypeOK, queueVars
<1> QED
  BY <1>1, <1>2, <1>3, <1>4 DEF RunJob

LEMMA StepType == TypeOK /\ [Next]_vars => TypeOK'
<1>1. TypeOK /\ UNCHANGED vars => TypeOK'
  BY DEF TypeOK, Serving, vars, queueVars, jobVars
<1>2. ASSUME TypeOK, NEW j \in Jobs, Release(j) PROVE TypeOK'
  BY <1>2 DEF Release, TypeOK, Serving, queueVars
<1> QED
  BY <1>1, <1>2, AcceptorType, DispatcherType, JobType DEF Next

(* Every variable of the acceptor, the dispatcher and the jobs keeps its   *)
(* type, and a job that serves holds a real socket.                        *)
THEOREM TypeCorrect == Spec => []TypeOK
BY InitType, StepType, PTL DEF Spec

-----------------------------------------------------------------------------
(* The bound of the queue.  The length test alone does not carry it: what  *)
(* does is that an acceptor at the gate that finds it open, and one that   *)
(* is about to accept, have room.                                          *)
RoomToAccept ==
    /\ acceptor = "accept" => Len(sockets) < PoolMaxLength
    /\ acceptor = "wait" /\ notFull => Len(sockets) < PoolMaxLength

BoundInv == TypeOK /\ RoomToAccept /\ QueueBounded

LEMMA InitBound == Init => BoundInv
<1> SUFFICES ASSUME Init PROVE BoundInv
  OBVIOUS
<1>1. TypeOK
  BY InitType
<1>2. Len(sockets) = 0 /\ acceptor = "accept"
  BY DEF Init
<1> QED
  BY <1>1, <1>2, PoolAssumption DEF BoundInv, RoomToAccept, QueueBounded

LEMMA AcceptorBound == BoundInv /\ AcceptorNext => RoomToAccept' /\ QueueBounded'
<1> SUFFICES ASSUME BoundInv, AcceptorNext PROVE RoomToAccept' /\ QueueBounded'
  OBVIOUS
<1> USE DEF BoundInv, RoomToAccept, QueueBounded
<1>0. Len(sockets) \in Nat
  BY DEF TypeOK
<1>1. CASE Accept
  <2>1. PICK batch \in Batches : sockets' = sockets \o batch
    BY <1>1 DEF Accept
  <2>2. PICK n \in 0..MaxBatch : batch \in [1..n -> arriving]
    BY DEF Batches
  <2>3. n \in Nat /\ batch \in [1..n -> Connections]
    BY <2>2, PoolAssumption DEF TypeOK
  <2>4. Len(sockets') = Len(sockets) + n
    <3>1. sockets \in Seq(Connections)
      BY DEF TypeOK
    <3> QED
      BY <2>1, <2>3, <3>1, AppendBatch
  <2> QED
    BY <1>0, <1>1, <2>2, <2>4, PoolAssumption DEF Accept
<1>2. CASE SignalQueue
  BY <1>2 DEF SignalQueue
<1>3. CASE CheckLength
  BY <1>0, <1>3, PoolAssumption DEF CheckLength, queueVars
<1>4. CASE CloseGate
  BY <1>4 DEF CloseGate
<1>5. CASE PassGate
  BY <1>5 DEF PassGate, queueVars
<1> QED
  BY <1>1, <1>2, <1>3, <1>4, <1>5 DEF AcceptorNext

(* Taking a socket makes room, and opens the gate only on an empty queue.  *)
LEMMA PopBound ==
    ASSUME NEW j \in Jobs PROVE BoundInv /\ Pop(j) => RoomToAccept' /\ QueueBounded'
<1> SUFFICES ASSUME BoundInv, Pop(j) PROVE RoomToAccept' /\ QueueBounded'
  OBVIOUS
<1>1. /\ Len(sockets) \in Nat \ {0}
      /\ Len(sockets') = Len(sockets) - 1
      /\ acceptor' = acceptor
      /\ notFull' => notFull \/ Len(sockets') = 0
  BY TakeFront DEF Pop, BoundInv, TypeOK
<1>2. QueueBounded' /\ (acceptor' = "accept" => Len(sockets') < PoolMaxLength)
  BY <1>1, PoolAssumption DEF BoundInv, RoomToAccept, QueueBounded
<1>3. ASSUME acceptor' = "wait", notFull' PROVE Len(sockets') < PoolMaxLength
  <2>1. CASE notFull
    <3>1. Len(sockets) < PoolMaxLength
      BY <1>1, <1>3, <2>1 DEF BoundInv, RoomToAccept
    <3> QED
      BY <1>1, <3>1, PoolAssumption
  <2>2. CASE Len(sockets') = 0
    BY <2>2, PoolAssumption
  <2> QED
    BY <1>1, <1>3, <2>1, <2>2
<1> QED
  BY <1>2, <1>3 DEF RoomToAccept

LEMMA StepBound == BoundInv /\ [Next]_vars => BoundInv'
<1> SUFFICES ASSUME BoundInv, [Next]_vars PROVE RoomToAccept' /\ QueueBounded'
  BY StepType DEF BoundInv
<1>1. CASE AcceptorNext
  BY <1>1, AcceptorBound
<1>2. ASSUME NEW j \in Jobs, TakeConnection(j) \/ RefuseConnection(j)
      PROVE  RoomToAccept' /\ QueueBounded'
  BY <1>2, PopBound DEF TakeConnection, RefuseConnection
<1>3. CASE UNCHANGED <<sockets, notFull, acceptor>>
  BY <1>3 DEF BoundInv, RoomToAccept, QueueBounded
<1>4. CASE DispatcherNext
  <2>1. UNCHANGED <<sockets, notFull, acceptor>>
    BY <1>4 DEF DispatcherNext, StartJob, LeaveHandleLoop, AwaitJobs, WakeUp, queueVars
  <2> QED
    BY <2>1, <1>3
<1>5. ASSUME NEW j \in Jobs, FindNothing(j) \/ FinishConnection(j) \/ Release(j)
      PROVE  RoomToAccept' /\ QueueBounded'
  <2>1. UNCHANGED <<sockets, notFull, acceptor>>
    BY <1>5 DEF FindNothing, FinishConnection, Release, queueVars
  <2> QED
    BY <2>1, <1>3
<1>6. CASE UNCHANGED vars
  BY <1>3, <1>6 DEF vars, queueVars
<1> QED
  BY <1>1, <1>2, <1>4, <1>5, <1>6 DEF Next, RunJob

(* The pool never outgrows PoolMaxLength by more than the batch that       *)
(* filled it, although Server::Run tests its length and closes the gate    *)
(* outside the critical section, racing with every job.                    *)
THEOREM PoolIsBounded == Spec => []QueueBounded
<1>1. BoundInv => QueueBounded
  BY DEF BoundInv
<1> QED
  BY <1>1, InitBound, StepBound, PTL DEF Spec

-----------------------------------------------------------------------------
(* The wake-up of the dispatcher.  It stops looking at the queue when it   *)
(* starts to await the jobs, so the promise must hold from there on.       *)
Announced ==
    dispatcher \in {"await", "sleep"} /\ sockets # <<>> =>
        semaphore > 0 \/ acceptor = "signal"

WakeInv == TypeOK /\ Announced

LEMMA StepWake == WakeInv /\ [Next]_vars => WakeInv'
<1> SUFFICES ASSUME WakeInv, [Next]_vars PROVE Announced'
  BY StepType DEF WakeInv
<1> USE DEF WakeInv, Announced
<1>1. CASE Accept
  BY <1>1 DEF Accept
<1>2. CASE SignalQueue
  BY <1>2 DEF SignalQueue, TypeOK
<1>3. CASE CheckLength
  BY <1>3 DEF CheckLength, queueVars
<1>4. CASE CloseGate
  BY <1>4 DEF CloseGate
<1>5. CASE PassGate
  BY <1>5 DEF PassGate, queueVars
<1>6. ASSUME NEW j \in Jobs, StartJob(j) PROVE Announced'
  BY <1>6 DEF StartJob
<1>7. CASE LeaveHandleLoop
  BY <1>7 DEF LeaveHandleLoop, queueVars
<1>8. CASE AwaitJobs
  BY <1>8 DEF AwaitJobs, queueVars
<1>9. CASE WakeUp
  BY <1>9 DEF WakeUp
<1>10. ASSUME NEW j \in Jobs, RunJob(j) \/ Release(j) PROVE Announced'
  <2>1. /\ UNCHANGED <<semaphore, acceptor, dispatcher>>
        /\ sockets' # <<>> => sockets # <<>>
    BY <1>10 DEF RunJob, FindNothing, TakeConnection, RefuseConnection, Pop,
                 FinishConnection, Release, queueVars
  <2> QED
    BY <2>1
<1>11. CASE UNCHANGED vars
  BY <1>11 DEF vars, queueVars
<1> QED
  BY <1>1, <1>2, <1>3, <1>4, <1>5, <1>6, <1>7, <1>8, <1>9, <1>10, <1>11
  DEF Next, AcceptorNext, DispatcherNext

(* ProcessWorkerThreads never sleeps on a queue that holds a connection    *)
(* unless the signal that wakes it has been, or is next to be, given.      *)
THEOREM NothingStranded == Spec => []NoStrandedConnection
<1>1. Init => WakeInv
  BY InitType DEF WakeInv, Announced, Init
<1>2. WakeInv => NoStrandedConnection
  BY DEF WakeInv, Announced, NoStrandedConnection, TypeOK
<1> QED
  BY <1>1, <1>2, StepWake, PTL DEF Spec

-----------------------------------------------------------------------------
LEMMA StepQuiescent ==
    QuiescentWhenAsleep /\ TypeOK /\ [Next]_vars => QuiescentWhenAsleep'
<1> SUFFICES ASSUME QuiescentWhenAsleep, TypeOK, [Next]_vars PROVE QuiescentWhenAsleep'
  OBVIOUS
<1> USE DEF QuiescentWhenAsleep
<1>1. CASE AcceptorNext
  BY <1>1 DEF AcceptorNext, Accept, SignalQueue, CheckLength, CloseGate, PassGate, jobVars
<1>2. CASE DispatcherNext
  BY <1>2 DEF DispatcherNext, StartJob, LeaveHandleLoop, AwaitJobs, WakeUp, jobVars
<1>3. ASSUME NEW j \in Jobs, RunJob(j) \/ Release(j) PROVE QuiescentWhenAsleep'
  <2>1. job[j] # "idle" /\ dispatcher' = dispatcher
    BY <1>3 DEF RunJob, FindNothing, TakeConnection, RefuseConnection, Pop, FinishConnection,
                Release
  <2> QED
    BY <2>1
<1>4. CASE UNCHANGED vars
  BY <1>4 DEF vars, jobVars
<1> QED
  BY <1>1, <1>2, <1>3, <1>4 DEF Next

(* No job is left, started or serving, when the dispatcher sleeps on the   *)
(* semaphore: Async::Wait in ProcessWorkerThreads has seen them all.       *)
THEOREM SleepIsQuiescent == Spec => []QuiescentWhenAsleep
<1>1. Init => QuiescentWhenAsleep
  BY DEF Init, QuiescentWhenAsleep
<1> QED
  BY <1>1, InitType, StepType, StepQuiescent, PTL DEF Spec

-----------------------------------------------------------------------------
(* Where a connection is                                                   *)

(* A batch of new sockets behind the queue: nothing else joins it, and a   *)
(* queue without repetition stays one.                                     *)
LEMMA ElementsAppend ==
    ASSUME NEW S, NEW q \in Seq(S), NEW n \in Nat, NEW b \in [1..n -> S]
    PROVE  /\ Elements(q \o b) = Elements(q) \cup Elements(b)
           /\ Distinct(q) /\ Distinct(b) /\ Elements(q) \cap Elements(b) = {}
                 => Distinct(q \o b)
<1> DEFINE m == Len(q)
           r == q \o b
<1>1. /\ m \in Nat /\ Len(b) = n /\ Len(r) = m + n
      /\ \A i \in 1..m : r[i] = q[i]
      /\ \A i \in 1..n : r[m + i] = b[i]
  BY AppendBatch
<1>2. \A i \in 1..Len(r) : \/ i \in 1..m
                            \/ \E k \in 1..n : i = m + k
  <2> SUFFICES ASSUME NEW i \in 1..Len(r), i \notin 1..m PROVE \E k \in 1..n : i = m + k
    OBVIOUS
  <2>1. i - m \in 1..n /\ i = m + (i - m)
    BY <1>1
  <2> QED
    BY <2>1
<1>3. \A i \in 1..m : i \in 1..Len(r)
  BY <1>1
<1>4. \A k \in 1..n : m + k \in 1..Len(r)
  BY <1>1
<1>5. Elements(r) = Elements(q) \cup Elements(b)
  <2>1. ASSUME NEW x \in Elements(r) PROVE x \in Elements(q) \cup Elements(b)
    BY <1>1, <1>2 DEF Elements
  <2>2. ASSUME NEW x \in Elements(q) PROVE x \in Elements(r)
    BY <1>1, <1>3 DEF Elements
  <2>3. ASSUME NEW x \in Elements(b) PROVE x \in Elements(r)
    BY <1>1, <1>4 DEF Elements
  <2> QED
    BY <2>1, <2>2, <2>3
<1>6. ASSUME Distinct(q), Distinct(b), Elements(q) \cap Elements(b) = {},
             NEW i \in 1..Len(r), NEW k \in 1..Len(r), r[i] = r[k]
      PROVE  i = k
  <2>1. \A j \in 1..m : r[j] \in Elements(q)
    BY <1>1 DEF Elements
  <2>2. \A j \in 1..n : r[m + j] \in Elements(b)
    BY <1>1 DEF Elements
  <2>3. CASE i \in 1..m /\ k \in 1..m
    BY <1>1, <1>6, <2>3 DEF Distinct
  <2>4. CASE (\E a \in 1..n : i = m + a) /\ (\E a \in 1..n : k = m + a)
    BY <1>1, <1>6, <2>4 DEF Distinct
  <2> QED
    BY <1>2, <1>6, <2>1, <2>2, <2>3, <2>4
<1> HIDE DEF m, r
<1> QED
  BY <1>5, <1>6 DEF Distinct, r

(* The front socket leaves the queue, and it was there once.               *)
LEMMA ElementsTail ==
    ASSUME NEW S, NEW q \in Seq(S), q # <<>>
    PROVE  /\ Elements(q) = {Head(q)} \cup Elements(Tail(q))
           /\ Distinct(q) => Distinct(Tail(q)) /\ Head(q) \notin Elements(Tail(q))
<1>1. /\ Len(q) \in Nat \ {0} /\ Head(q) = q[1] /\ Len(Tail(q)) = Len(q) - 1
      /\ \A i \in 1..Len(Tail(q)) : Tail(q)[i] = q[i + 1]
  BY TakeFront
<1>2. \A i \in 1..Len(Tail(q)) : i + 1 \in 1..Len(q) /\ i + 1 # 1
  BY <1>1
<1>3. \A i \in 1..Len(q) : i = 1 \/ (i - 1 \in 1..Len(Tail(q)) /\ Tail(q)[i - 1] = q[i])
  BY <1>1
<1>4. 1 \in 1..Len(q)
  BY <1>1
<1>5. ASSUME NEW x \in Elements(q) PROVE x \in {Head(q)} \cup Elements(Tail(q))
  BY <1>1, <1>3 DEF Elements
<1>6. ASSUME NEW x \in {Head(q)} \cup Elements(Tail(q)) PROVE x \in Elements(q)
  BY <1>1, <1>2, <1>4 DEF Elements
<1>7. ASSUME Distinct(q) PROVE Distinct(Tail(q))
  <2> SUFFICES ASSUME NEW i \in 1..Len(Tail(q)), NEW k \in 1..Len(Tail(q)),
                      Tail(q)[i] = Tail(q)[k]
               PROVE  i = k
    BY DEF Distinct
  <2>1. q[i + 1] = q[k + 1]
    BY <1>1
  <2>2. i + 1 = k + 1
    BY <1>2, <1>7, <2>1 DEF Distinct
  <2> QED
    BY <1>1, <2>2
<1>8. ASSUME Distinct(q) PROVE Head(q) \notin Elements(Tail(q))
  BY <1>1, <1>2, <1>4, <1>8 DEF Distinct, Elements
<1> QED
  BY <1>5, <1>6, <1>7, <1>8

(* What each step does to the jobs that serve and to their sockets.        *)
LEMMA JobsStay ==
    ASSUME TypeOK, UNCHANGED socketOf,
           \/ UNCHANGED job
           \/ \E j \in Jobs : /\ job[j] \in {"idle", "queued"}
                            /\ \/ job' = [job EXCEPT ![j] = "idle"]
                               \/ job' = [job EXCEPT ![j] = "queued"]
    PROVE  /\ Serving' = Serving /\ InService' = InService
           /\ HeldConnections' = HeldConnections
<1>1. Serving' = Serving /\ Held' = Held
  BY DEF TypeOK, Serving, Held
<1> QED
  BY <1>1 DEF InService, HeldConnections

LEMMA JobTakes ==
    ASSUME TypeOK, NEW j \in Jobs, TakeConnection(j)
    PROVE  /\ j \notin Serving /\ Serving' = Serving \cup {j}
           /\ InService' = InService \cup {Head(sockets)}
           /\ socketOf'[j] = Head(sockets)
           /\ \A i \in Serving : socketOf'[i] = socketOf[i]
           /\ HeldConnections' \in {HeldConnections, HeldConnections \cup {Head(sockets)}}
<1>1. j \notin Serving /\ Serving' = Serving \cup {j}
  BY DEF TypeOK, Serving, TakeConnection, Pop
<1>2. socketOf'[j] = Head(sockets) /\ \A i \in Jobs \ {j} : socketOf'[i] = socketOf[i]
  BY DEF TypeOK, TakeConnection
<1>3. \A i \in Serving : socketOf'[i] = socketOf[i]
  BY <1>1, <1>2 DEF Serving
<1>4. Held' \in {Held, Held \cup {j}} /\ Held \subseteq Serving
  BY DEF TypeOK, Held, Serving, TakeConnection, Pop
<1>5. HeldConnections' \in {HeldConnections, HeldConnections \cup {Head(sockets)}}
  BY <1>2, <1>3, <1>4 DEF HeldConnections
<1> QED
  BY <1>1, <1>2, <1>3, <1>5 DEF InService

LEMMA JobReleases ==
    ASSUME TypeOK, ExactlyOnePlace, NEW j \in Jobs, Release(j)
    PROVE  /\ Serving' = Serving /\ InService' = InService
           /\ socketOf[j] \in HeldConnections
           /\ HeldConnections' = HeldConnections \ {socketOf[j]}
<1>1. UNCHANGED socketOf /\ Serving' = Serving /\ j \in Held /\ Held' = Held \ {j}
  BY DEF TypeOK, Serving, Held, Release
<1>2. \A i \in Held : socketOf[i] = socketOf[j] => i = j
  BY <1>1 DEF ExactlyOnePlace, Serving, Held
<1> QED
  BY <1>1, <1>2 DEF InService, HeldConnections

LEMMA JobFinishes ==
    ASSUME TypeOK, ExactlyOnePlace, NEW j \in Jobs, FinishConnection(j)
    PROVE  /\ j \in Serving /\ Serving' = Serving \ {j}
           /\ socketOf[j] \in InService
           /\ InService' = InService \ {socketOf[j]}
           /\ \A i \in Serving' : socketOf'[i] = socketOf[i]
           /\ socketOf[j] \notin HeldConnections /\ HeldConnections' = HeldConnections
<1>1. j \in Serving /\ Serving' = Serving \ {j}
  BY DEF TypeOK, Serving, FinishConnection
<1>2. \A i \in Jobs \ {j} : socketOf'[i] = socketOf[i]
  BY DEF TypeOK, FinishConnection
<1>3. \A i \in Serving' : socketOf'[i] = socketOf[i] /\ i \in Serving /\ i # j
  BY <1>1, <1>2 DEF Serving
<1>4. \A i \in Serving : socketOf[i] = socketOf[j] => i = j
  BY <1>1 DEF ExactlyOnePlace
<1>5. InService' = {socketOf[i] : i \in Serving \ {j}}
  BY <1>1, <1>3 DEF InService
<1>6. Held' = Held /\ j \notin Held /\ Held \subseteq Serving
  BY DEF TypeOK, Serving, Held, FinishConnection
<1>7. HeldConnections' = HeldConnections
  BY <1>2, <1>6 DEF HeldConnections, Held
<1>8. socketOf[j] \notin HeldConnections
  BY <1>4, <1>6 DEF HeldConnections
<1> QED
  BY <1>1, <1>3, <1>4, <1>5, <1>7, <1>8 DEF InService

(* A connection moves from one place to the next: arriving, in the queue,  *)
(* in a job, served, or aside as ignored or refused.                       *)
LEMMA StepPlace == TypeOK /\ ExactlyOnePlace /\ [Next]_vars => ExactlyOnePlace'
<1> SUFFICES ASSUME TypeOK, ExactlyOnePlace, [Next]_vars PROVE ExactlyOnePlace'
  OBVIOUS
<1>1. ASSUME UNCHANGED <<arriving, sockets, socketOf, served, ignored, refused>>,
             Serving' = Serving, InService' = InService
      PROVE  ExactlyOnePlace'
  <2>1. UNCHANGED Elements(sockets) /\ UNCHANGED Distinct(sockets)
    BY <1>1
  <2> QED
    BY <1>1, <2>1 DEF ExactlyOnePlace
<1>2. CASE Accept
  <2>1. PICK batch \in Batches, dead \in SUBSET arriving :
           /\ Distinct(batch)
           /\ dead \cap Elements(batch) = {}
           /\ sockets' = sockets \o batch
           /\ ignored' = ignored \cup dead
           /\ arriving' = arriving \ (dead \cup Elements(batch))
    BY <1>2 DEF Accept
  <2>2. PICK n \in 0..MaxBatch : batch \in [1..n -> arriving]
    BY DEF Batches
  <2>3. n \in Nat /\ batch \in [1..n -> Connections]
    BY <2>2, PoolAssumption DEF TypeOK
  <2>4. Len(batch) = n
    BY <2>2, <2>3, AppendBatch DEF TypeOK
  <2>5. Elements(batch) \subseteq arriving
    BY <2>2, <2>4 DEF Elements
  <2>6. Elements(sockets) \cap Elements(batch) = {}
    BY <2>5 DEF ExactlyOnePlace
  <2>7. Elements(sockets') = Elements(sockets) \cup Elements(batch) /\ Distinct(sockets')
    BY <2>1, <2>3, <2>6, ElementsAppend DEF ExactlyOnePlace, TypeOK
  <2>8. Serving' = Serving /\ InService' = InService
    BY <1>2, JobsStay DEF Accept, jobVars
  <2>9. UNCHANGED <<socketOf, served, refused>>
    BY <1>2 DEF Accept, jobVars
  <2> QED
    BY <2>1, <2>5, <2>6, <2>7, <2>8, <2>9 DEF ExactlyOnePlace, TypeOK
<1>3. CASE SignalQueue \/ CheckLength \/ CloseGate \/ PassGate
  BY <1>1, <1>3, JobsStay
  DEF SignalQueue, CheckLength, CloseGate, PassGate, queueVars, jobVars
<1>4. ASSUME NEW j \in Jobs, StartJob(j) PROVE ExactlyOnePlace'
  <2>1. Serving' = Serving /\ InService' = InService
    BY <1>4, JobsStay DEF StartJob
  <2> QED
    BY <1>1, <1>4, <2>1 DEF StartJob, queueVars
<1>5. CASE LeaveHandleLoop \/ AwaitJobs \/ WakeUp
  BY <1>1, <1>5, JobsStay DEF LeaveHandleLoop, AwaitJobs, WakeUp, queueVars, jobVars
<1>6. ASSUME NEW j \in Jobs, FindNothing(j) PROVE ExactlyOnePlace'
  <2>1. Serving' = Serving /\ InService' = InService
    BY <1>6, JobsStay DEF FindNothing
  <2> QED
    BY <1>1, <1>6, <2>1 DEF FindNothing, queueVars
<1>7. ASSUME NEW j \in Jobs, TakeConnection(j) PROVE ExactlyOnePlace'
  <2>1. sockets \in Seq(Connections) /\ sockets # <<>> /\ sockets' = Tail(sockets)
    BY <1>7 DEF TypeOK, TakeConnection, Pop
  <2>2. /\ Elements(sockets) = {Head(sockets)} \cup Elements(sockets')
        /\ Distinct(sockets') /\ Head(sockets) \notin Elements(sockets')
    BY <2>1, ElementsTail DEF ExactlyOnePlace
  <2>3. UNCHANGED <<arriving, served, ignored, refused>>
    BY <1>7 DEF TakeConnection, Pop
  <2>4. /\ j \notin Serving /\ Serving' = Serving \cup {j}
        /\ InService' = InService \cup {Head(sockets)}
        /\ socketOf'[j] = Head(sockets)
        /\ \A i \in Serving : socketOf'[i] = socketOf[i]
    BY <1>7, JobTakes
  <2>5. \A i \in Serving : socketOf[i] # Head(sockets)
    BY <2>2 DEF ExactlyOnePlace, InService
  <2>6. \A i, k \in Serving' : socketOf'[i] = socketOf'[k] => i = k
    BY <2>4, <2>5 DEF ExactlyOnePlace
  <2> QED
    BY <2>2, <2>3, <2>4, <2>6 DEF ExactlyOnePlace
<1>8. ASSUME NEW j \in Jobs, RefuseConnection(j) PROVE ExactlyOnePlace'
  <2>1. sockets \in Seq(Connections) /\ sockets # <<>> /\ sockets' = Tail(sockets)
    BY <1>8 DEF TypeOK, RefuseConnection, Pop
  <2>2. /\ Elements(sockets) = {Head(sockets)} \cup Elements(sockets')
        /\ Distinct(sockets') /\ Head(sockets) \notin Elements(sockets')
    BY <2>1, ElementsTail DEF ExactlyOnePlace
  <2>3. UNCHANGED <<arriving, socketOf, served, ignored>> /\ refused' = refused \cup {Head(sockets)}
    BY <1>8 DEF RefuseConnection, Pop
  <2>4. Serving' = Serving /\ InService' = InService
    BY <1>8, JobsStay DEF RefuseConnection, Pop
  <2> QED
    BY <2>2, <2>3, <2>4 DEF ExactlyOnePlace
<1>9. ASSUME NEW j \in Jobs, FinishConnection(j) PROVE ExactlyOnePlace'
  <2>1. /\ Serving' = Serving \ {j}
        /\ socketOf[j] \in InService
        /\ InService' = InService \ {socketOf[j]}
        /\ \A i \in Serving' : socketOf'[i] = socketOf[i]
    BY <1>9, JobFinishes
  <2>2. /\ UNCHANGED <<arriving, sockets, ignored, refused>>
        /\ served' = served \cup {socketOf[j]}
    BY <1>9 DEF FinishConnection, queueVars
  <2>3. UNCHANGED Elements(sockets) /\ UNCHANGED Distinct(sockets)
    BY <2>2
  <2>4. \A i, k \in Serving' : socketOf'[i] = socketOf'[k] => i = k
    BY <2>1 DEF ExactlyOnePlace
  <2> QED
    BY <2>1, <2>2, <2>3, <2>4 DEF ExactlyOnePlace
<1>10. ASSUME NEW j \in Jobs, Release(j) PROVE ExactlyOnePlace'
  <2>1. Serving' = Serving /\ InService' = InService
    BY <1>10, JobReleases
  <2> QED
    BY <1>1, <1>10, <2>1 DEF Release, queueVars
<1>11. CASE UNCHANGED vars
  BY <1>1, <1>11, JobsStay DEF vars, queueVars, jobVars
<1> QED
  BY <1>2, <1>3, <1>4, <1>5, <1>6, <1>7, <1>8, <1>9, <1>10, <1>11
  DEF Next, AcceptorNext, DispatcherNext, RunJob

LEMMA InitPlace == Init => ExactlyOnePlace
<1> SUFFICES ASSUME Init PROVE ExactlyOnePlace
  OBVIOUS
<1>1. Serving = {} /\ InService = {}
  BY DEF Init, Serving, InService
<1>2. Len(sockets) = 0
  BY DEF Init
<1>3. Elements(sockets) = {} /\ Distinct(sockets)
  BY <1>2 DEF Elements, Distinct
<1> QED
  BY <1>1, <1>3 DEF Init, ExactlyOnePlace

-----------------------------------------------------------------------------
(* The books.  The counter can only be compared with the cardinalities of  *)
(* sets that are finite, and a refused connection adds to its set only     *)
(* because it cannot be there already: the count needs the places.         *)
AccountsInv == TypeOK /\ IsFiniteSet(refused) /\ AccountsBalance

LEMMA ServingFinite == IsFiniteSet(Serving) /\ IsFiniteSet(Serving)'
<1>1. Serving \subseteq Jobs /\ Serving' \subseteq Jobs
  BY DEF Serving
<1> QED
  BY <1>1, JobsAssumption, FS_Subset

LEMMA StepCount ==
    AccountsInv /\ [Next]_vars => CountIsServingPlusRefused' /\ IsFiniteSet(refused)'
<1> SUFFICES ASSUME AccountsInv, [Next]_vars
             PROVE  CountIsServingPlusRefused' /\ IsFiniteSet(refused)'
  OBVIOUS
<1> USE DEF AccountsInv, AccountsBalance, CountIsServingPlusRefused
<1>0. Cardinality(Serving) \in Nat /\ Cardinality(refused) \in Nat
  BY ServingFinite, FS_CardinalityType
<1>1. ASSUME UNCHANGED <<concurrent, refused>>, Serving' = Serving
      PROVE  CountIsServingPlusRefused' /\ IsFiniteSet(refused)'
  BY <1>1
<1>2. CASE AcceptorNext
  <2>1. UNCHANGED <<job, socketOf, concurrent, refused>>
    BY <1>2 DEF AcceptorNext, Accept, SignalQueue, CheckLength, CloseGate, PassGate, jobVars
  <2> QED
    BY <1>1, <2>1, JobsStay
<1>3. ASSUME NEW j \in Jobs, StartJob(j) \/ FindNothing(j)
      PROVE  CountIsServingPlusRefused' /\ IsFiniteSet(refused)'
  <2>1. UNCHANGED <<socketOf, concurrent, refused>>
    BY <1>3 DEF StartJob, FindNothing
  <2>2. Serving' = Serving
    BY <1>3, <2>1, JobsStay DEF StartJob, FindNothing
  <2> QED
    BY <1>1, <2>1, <2>2
<1>4. CASE LeaveHandleLoop \/ AwaitJobs \/ WakeUp \/ UNCHANGED vars
  <2>1. UNCHANGED <<job, socketOf, concurrent, refused>>
    BY <1>4 DEF LeaveHandleLoop, AwaitJobs, WakeUp, jobVars, vars
  <2> QED
    BY <1>1, <2>1, JobsStay
<1>5. ASSUME NEW j \in Jobs, TakeConnection(j)
      PROVE  CountIsServingPlusRefused' /\ IsFiniteSet(refused)'
  <2>1. j \notin Serving /\ Serving' = Serving \cup {j}
    BY <1>5, JobTakes
  <2>2. Cardinality(Serving') = Cardinality(Serving) + 1
    BY <2>1, ServingFinite, FS_AddElement
  <2>3. concurrent' = concurrent + 1 /\ UNCHANGED refused
    BY <1>5 DEF TakeConnection, Pop
  <2> QED
    BY <1>0, <2>2, <2>3
<1>6. ASSUME NEW j \in Jobs, RefuseConnection(j)
      PROVE  CountIsServingPlusRefused' /\ IsFiniteSet(refused)'
  <2>1. Serving' = Serving
    BY <1>6, JobsStay DEF RefuseConnection, Pop
  <2>2. Head(sockets) \in Elements(sockets)
    BY <1>6, ElementsTail DEF RefuseConnection, Pop, TypeOK
  <2>3. Head(sockets) \notin refused
    BY <2>2 DEF ExactlyOnePlace
  <2>4. refused' = refused \cup {Head(sockets)} /\ concurrent' = concurrent + 1
    BY <1>6 DEF RefuseConnection, Pop
  <2>5. IsFiniteSet(refused') /\ Cardinality(refused') = Cardinality(refused) + 1
    BY <2>3, <2>4, FS_AddElement
  <2> QED
    BY <1>0, <2>1, <2>4, <2>5
<1>7. ASSUME NEW j \in Jobs, FinishConnection(j)
      PROVE  CountIsServingPlusRefused' /\ IsFiniteSet(refused)'
  <2>1. j \in Serving /\ Serving' = Serving \ {j}
    BY <1>7, JobFinishes
  <2>2. Cardinality(Serving') = Cardinality(Serving) - 1
    BY <2>1, ServingFinite, FS_RemoveElement
  <2>3. concurrent' = concurrent - 1 /\ UNCHANGED refused
    BY <1>7 DEF FinishConnection
  <2> QED
    BY <1>0, <2>2, <2>3
<1>8. ASSUME NEW j \in Jobs, Release(j)
      PROVE  CountIsServingPlusRefused' /\ IsFiniteSet(refused)'
  <2>1. Serving' = Serving
    BY <1>8, JobReleases
  <2> QED
    BY <1>1, <1>8, <2>1 DEF Release
<1> QED
  BY <1>2, <1>3, <1>4, <1>5, <1>6, <1>7, <1>8 DEF Next, DispatcherNext, RunJob

LEMMA AccountsInvariant == Spec => []AccountsInv
<1>1. Init => AccountsInv
  <2> SUFFICES ASSUME Init PROVE AccountsInv
    OBVIOUS
  <2>1. Serving = {} /\ refused = {} /\ concurrent = 0
    BY DEF Init, Serving
  <2>2. CountIsServingPlusRefused /\ IsFiniteSet(refused)
    BY <2>1, FS_EmptySet DEF CountIsServingPlusRefused
  <2> QED
    BY <2>2, InitType, InitPlace DEF AccountsInv, AccountsBalance
<1>2. AccountsInv /\ [Next]_vars => AccountsInv'
  BY StepType, StepPlace, StepCount DEF AccountsInv, AccountsBalance
<1> QED
  BY <1>1, <1>2, PTL DEF Spec

(* However the acceptor, the dispatcher and the jobs interleave, a         *)
(* connection is in exactly one place, and ConcurrentRequestCount is the   *)
(* number of jobs that serve plus that of all connections ever refused by  *)
(* the early return of Job::Execute.                                       *)
THEOREM AccountsAlwaysBalance == Spec => []AccountsBalance
<1>1. AccountsInv => AccountsBalance
  BY DEF AccountsInv
<1> QED
  BY <1>1, AccountsInvariant, PTL

-----------------------------------------------------------------------------
(* The refinement.  Threads, events and jobs disappear under the mapping:  *)
(* an Accept is an Admit (with nobody turned away behind the line but the  *)
(* sockets that were dead), a job that takes a socket Begins or Drops it,  *)
(* one that its client lets go is Released, and one that finishes Ends it. *)
RefinementInv == AccountsInv /\ BoundInv

LEMMA InitService == Init => Service!SInit
<1> SUFFICES ASSUME Init PROVE Service!SInit
  OBVIOUS
<1>1. InService = {} /\ HeldConnections = {}
  BY DEF Init, InService, Serving, HeldConnections, Held
<1> QED
  BY <1>1 DEF Init, Service!SInit

LEMMA AcceptAdmits == RefinementInv /\ Accept /\ QueueBounded' => Service!Admit
<1> SUFFICES ASSUME RefinementInv, Accept, QueueBounded' PROVE Service!Admit
  OBVIOUS
<1> USE DEF RefinementInv, AccountsInv, AccountsBalance
<1>1. PICK batch \in Batches, dead \in SUBSET arriving :
         /\ Distinct(batch)
         /\ dead \cap Elements(batch) = {}
         /\ sockets' = sockets \o batch
         /\ ignored' = ignored \cup dead
  BY DEF Accept
<1>2. PICK n \in 0..MaxBatch : batch \in [1..n -> arriving]
  BY DEF Batches
<1>3. n \in Nat /\ batch \in [1..n -> Connections]
  BY <1>2, PoolAssumption DEF TypeOK
<1>4. /\ Len(batch) = n /\ Len(sockets) \in Nat
      /\ Len(sockets') = Len(sockets) + n
      /\ \A i \in 1..Len(sockets) : sockets'[i] = sockets[i]
      /\ \A i \in 1..n : sockets'[Len(sockets) + i] = batch[i]
  <2>1. sockets \in Seq(Connections)
    BY DEF TypeOK
  <2> QED
    BY <1>1, <1>3, <2>1, AppendBatch
<1>5. Elements(batch) \subseteq arriving
  BY <1>2, <1>4 DEF Elements
<1>6. Elements(sockets) \cap Elements(batch) = {}
  BY <1>5 DEF ExactlyOnePlace
<1>7. Distinct(sockets')
  BY <1>1, <1>3, <1>6, ElementsAppend DEF ExactlyOnePlace, TypeOK
<1>8. Service!Newcomers \subseteq Elements(batch)
  <2> SUFFICES ASSUME NEW i \in Len(sockets) + 1..Len(sockets')
               PROVE  sockets'[i] \in Elements(batch)
    BY DEF Service!Newcomers
  <2>1. i - Len(sockets) \in 1..n /\ i = Len(sockets) + (i - Len(sockets))
    BY <1>4
  <2> QED
    BY <1>4, <2>1 DEF Elements
<1>9. UNCHANGED <<job, socketOf, served, refused>>
  BY DEF Accept, jobVars
<1>10. InService' = InService /\ HeldConnections' = HeldConnections
  BY <1>9, JobsStay
<1>11. Service!Known = Elements(sockets) \cup InService \cup (served \cup ignored \cup refused)
  BY DEF Service!Known, Service!Waiting, Elements
<1>12. arriving \subseteq Connections \ Service!Known
  BY <1>11 DEF ExactlyOnePlace, TypeOK
<1>13. Service!Newcomers \subseteq Connections \ Service!Known
  BY <1>5, <1>8, <1>12
<1>14. /\ served \cup ignored \cup refused \subseteq (served \cup ignored \cup refused)'
       /\ (served \cup ignored \cup refused)' \ (served \cup ignored \cup refused)
             \subseteq Connections \ (Service!Known \cup Service!Newcomers)
  BY <1>1, <1>8, <1>9, <1>12
<1>15. Len(sockets) <= Len(sockets') /\ Len(sockets') <= PoolMaxLength - 1 + MaxBatch
  BY <1>4 DEF QueueBounded
<1> QED
  BY <1>4, <1>7, <1>10, <1>13, <1>14, <1>15 DEF Service!Admit, Distinct

LEMMA StepService == RefinementInv /\ [Next]_vars /\ QueueBounded' => [Service!SNext]_(Service!svars)
<1> SUFFICES ASSUME RefinementInv, [Next]_vars, QueueBounded'
             PROVE  [Service!SNext]_(Service!svars)
  OBVIOUS
<1> USE DEF RefinementInv, AccountsInv, AccountsBalance
<1>1. ASSUME UNCHANGED <<sockets, served, ignored, refused>>, InService' = InService,
             HeldConnections' = HeldConnections
      PROVE  UNCHANGED Service!svars
  BY <1>1 DEF Service!svars
<1>2. CASE Accept
  BY <1>2, AcceptAdmits DEF Service!SNext
<1>3. CASE SignalQueue \/ CheckLength \/ CloseGate \/ PassGate
  BY <1>1, <1>3, JobsStay
  DEF SignalQueue, CheckLength, CloseGate, PassGate, queueVars, jobVars
<1>4. ASSUME NEW j \in Jobs, StartJob(j) \/ FindNothing(j) PROVE UNCHANGED Service!svars
  <2>1. InService' = InService /\ HeldConnections' = HeldConnections
    BY <1>4, JobsStay DEF StartJob, FindNothing
  <2> QED
    BY <1>1, <1>4, <2>1 DEF StartJob, FindNothing, queueVars
<1>5. CASE LeaveHandleLoop \/ AwaitJobs \/ WakeUp \/ UNCHANGED vars
  BY <1>1, <1>5, JobsStay DEF LeaveHandleLoop, AwaitJobs, WakeUp, queueVars, jobVars, vars
<1>6. ASSUME NEW j \in Jobs, TakeConnection(j) PROVE Service!Begin
  <2>1. /\ InService' = InService \cup {Head(sockets)}
        /\ HeldConnections' \in {HeldConnections, HeldConnections \cup {Head(sockets)}}
    BY <1>6, JobTakes
  <2> QED
    BY <1>6, <2>1 DEF TakeConnection, Pop, Service!Begin
<1>7. ASSUME NEW j \in Jobs, RefuseConnection(j) PROVE Service!Drop
  <2>1. InService' = InService /\ HeldConnections' = HeldConnections
    BY <1>7, JobsStay DEF RefuseConnection, Pop
  <2> QED
    BY <1>7, <2>1 DEF RefuseConnection, Pop, Service!Drop
<1>8. ASSUME NEW j \in Jobs, FinishConnection(j) PROVE \E c \in Connections : Service!End(c)
  <2>1. /\ socketOf[j] \in InService /\ InService' = InService \ {socketOf[j]}
        /\ socketOf[j] \notin HeldConnections /\ HeldConnections' = HeldConnections
    BY <1>8, JobFinishes
  <2>2. socketOf[j] \in Connections
    BY <1>8 DEF FinishConnection, Serving, TypeOK
  <2>3. Service!End(socketOf[j])
    BY <1>8, <2>1 DEF FinishConnection, queueVars, Service!End
  <2> QED
    BY <2>2, <2>3
<1>9. ASSUME NEW j \in Jobs, Release(j) PROVE \E c \in Connections : Service!Release(c)
  <2>1. /\ InService' = InService /\ socketOf[j] \in HeldConnections
        /\ HeldConnections' = HeldConnections \ {socketOf[j]}
    BY <1>9, JobReleases
  <2>2. socketOf[j] \in Connections
    BY <1>9 DEF Release, Serving, TypeOK
  <2>3. Service!Release(socketOf[j])
    BY <1>9, <2>1 DEF Release, queueVars, Service!Release
  <2> QED
    BY <2>2, <2>3
<1> QED
  BY <1>2, <1>3, <1>4, <1>5, <1>6, <1>7, <1>8, <1>9
  DEF Next, AcceptorNext, DispatcherNext, RunJob, Service!SNext

(* The pipeline is a bounded first-in-first-out service line: connections  *)
(* join its end, leave it from the front, each to one job, and none comes  *)
(* back (the safety part of ServiceSpec).                                  *)
THEOREM ImplementsService == Spec => Service!SSafe
<1>1. Spec => []RefinementInv
  <2>1. Spec => []BoundInv
    BY InitBound, StepBound, PTL DEF Spec
  <2> QED
    BY <2>1, AccountsInvariant, PTL DEF RefinementInv
<1>2. RefinementInv => QueueBounded
  BY DEF RefinementInv, BoundInv
<1> QED
  BY <1>1, <1>2, InitService, StepService, PTL DEF Spec, Service!SSafe
=============================================================================
