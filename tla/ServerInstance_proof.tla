------------------------ MODULE ServerInstance_proof ------------------------
(***************************************************************************)
(* What TLAPS proves about the guard against a second server, for any set  *)
(* of processes, process ids and command lines, and any bounds.            *)
(***************************************************************************)
EXTENDS ServerInstance, FiniteSetTheorems, TLAPS

-----------------------------------------------------------------------------
(* Types.  A segment is created, and a start refused, at most once per     *)
(* start: the starts that may still do either are the pending ones.        *)
ProcessTypes ==
    /\ pc \in [Processes -> {"off", "check", "claim", "write", "running"}]
    /\ pid \in [Processes -> Pids \cup {NoPid}]
    /\ \A p \in Processes : pid[p] # NoPid <=> pc[p] # "off"
    /\ \A p, q \in Alive : pid[p] = pid[q] => p = q

MemoryTypes ==
    /\ handle \in [Processes -> Segments \cup {NoSegment}]
    /\ name \in Segments \cup {NoSegment}
    /\ content \in [Segments -> Pids \cup {NoPid}]

HistoryTypes ==
    /\ starts \in 0..MaxStarts /\ crashes \in 0..MaxCrashes
    /\ raced \in BOOLEAN /\ forced \in BOOLEAN /\ unread \in BOOLEAN

SignalTypes == target \in Pids \cup {NoPid} /\ reused \in BOOLEAN

Pending == {p \in Processes : pc[p] \in {"check", "claim"}}

StartsAccounted ==
    /\ IsFiniteSet(Pending)
    /\ created \in Nat /\ refusals \in Nat
    /\ created + refusals + Cardinality(Pending) <= starts

TypeInv == ProcessTypes /\ MemoryTypes /\ HistoryTypes /\ SignalTypes /\ StartsAccounted

(* At most one process is past the check, and the segment it will write,   *)
(* or has written, is the one the name leads to.                           *)
PastCheck == {p \in Processes : pc[p] \in {"claim", "write", "running"}}

OnePastCheck == \A p, q \in PastCheck : p = q

NameLeadsToIt ==
    /\ \A p \in Processes : pc[p] = "write" => handle[p] = name /\ name # NoSegment
    /\ \A p \in Running : name # NoSegment /\ content[name] = pid[p]

NameIsFresh ==
    crashes > 0 \/ name = NoSegment \/ content[name] = NoPid
        \/ \E p \in Running : content[name] = pid[p]

GuardInv ==
    /\ TypeInv
    /\ Bypassed \/ (OnePastCheck /\ NameLeadsToIt /\ NameIsFresh)
    /\ SignalHitsServer

-----------------------------------------------------------------------------
(* A step is one of a command or of one process, and a start may be forced *)
(* or not, whatever the command line says.                                 *)
StepOf(p) ==
    \/ \E i \in Pids, line \in CommandLines : Start(p, i, DoTask(line).force)
    \/ Check(p) \/ Claim(p) \/ Write(p) \/ Finish(p) \/ Crash(p)

Command == ReadProcessId \/ SendSignal

LEMMA NextIsAStep == Next => Command \/ \E p \in Processes : StepOf(p)
BY DEF Next, Command, StepOf

LEMMA NoPidIsNoPid == NoPid \notin Pids /\ Segments \subseteq Nat \ {NoSegment}
BY InstanceAssumption DEF NoPid, Segments, NoSegment

LEMMA InitGuard == Init => GuardInv
<1> SUFFICES ASSUME Init PROVE GuardInv
  OBVIOUS
<1>0. ProcessTypes
  BY DEF Init, ProcessTypes, Alive
<1>1. MemoryTypes
  BY DEF Init, MemoryTypes
<1>2. HistoryTypes /\ SignalTypes
  <2>1. starts \in 0..MaxStarts /\ crashes \in 0..MaxCrashes
    BY InstanceAssumption DEF Init
  <2> QED
    BY <2>1 DEF Init, HistoryTypes, SignalTypes
<1>3. Pending = {} /\ PastCheck = {} /\ Running = {}
  BY DEF Init, Pending, PastCheck, Running
<1>4. StartsAccounted
  BY <1>3, FS_EmptySet DEF Init, StartsAccounted
<1>5. OnePastCheck /\ NameLeadsToIt /\ NameIsFresh
  BY <1>3 DEF Init, OnePastCheck, NameLeadsToIt, NameIsFresh
<1>6. SignalHitsServer
  BY DEF Init, SignalHitsServer, Alive
<1> QED
  BY <1>0, <1>1, <1>2, <1>4, <1>5, <1>6 DEF GuardInv, TypeInv

LEMMA StepProcessTypes ==
    ASSUME ProcessTypes, NEW p \in Processes, StepOf(p) PROVE ProcessTypes'
<1> USE NoPidIsNoPid DEF ProcessTypes
<1>1. ASSUME NEW i \in Pids, NEW force, Start(p, i, force) PROVE ProcessTypes'
  BY <1>1 DEF Start, Go, Alive
<1>2. ASSUME Go(p, "claim") \/ Go(p, "write") \/ Go(p, "running"), pc[p] # "off", UNCHANGED pid
      PROVE  ProcessTypes'
  BY <1>2 DEF Go, Alive
<1>3. ASSUME End(p) PROVE ProcessTypes'
  BY <1>3 DEF End, Go, Alive
<1> QED
  BY <1>1, <1>2, <1>3 DEF StepOf, Check, Claim, Write, Finish, Crash

LEMMA StepSignalTypes ==
    ASSUME SignalTypes, NEW p \in Processes, StepOf(p) PROVE SignalTypes'
<1>1. UNCHANGED target
  BY DEF StepOf, Start, Check, Claim, Write, Finish, Crash, signal
<1>2. reused' = reused \/ reused' \in BOOLEAN
  BY DEF StepOf, Start, Check, Claim, Write, Finish, Crash, signal
<1> QED
  BY <1>1, <1>2 DEF SignalTypes

LEMMA StepHistoryTypes ==
    ASSUME HistoryTypes, NEW p \in Processes, StepOf(p) PROVE HistoryTypes'
<1> USE DEF HistoryTypes, StepOf, Start, Check, Claim, Write, Finish, Crash, counters, history
<1>1. starts' \in 0..MaxStarts /\ crashes' \in 0..MaxCrashes
  BY InstanceAssumption
<1>2. raced' \in BOOLEAN
  OBVIOUS
<1>3. forced' \in BOOLEAN
  OBVIOUS
<1>4. unread' \in BOOLEAN
  OBVIOUS
<1> QED
  BY <1>1, <1>2, <1>3, <1>4

(* What a step does to the pending starts and to what they are counted in. *)
LEMMA StepAccounted ==
    ASSUME TypeInv, NEW p \in Processes, StepOf(p) PROVE StartsAccounted'
<1> USE DEF TypeInv, ProcessTypes
<1>0. /\ created \in Nat /\ refusals \in Nat /\ starts \in Nat
      /\ Cardinality(Pending) \in Nat
      /\ created + refusals + Cardinality(Pending) <= starts
  BY InstanceAssumption, FS_CardinalityType DEF StartsAccounted, HistoryTypes
<1>1. ASSUME p \in Pending, Pending' = Pending \ {p}, UNCHANGED starts,
             \/ UNCHANGED <<created, refusals>>
             \/ created' = created + 1 /\ UNCHANGED refusals
             \/ refusals' = refusals + 1 /\ UNCHANGED created
      PROVE  StartsAccounted'
  <2>1. IsFiniteSet(Pending') /\ Cardinality(Pending') = Cardinality(Pending) - 1
    BY <1>1, FS_RemoveElement DEF StartsAccounted
  <2> QED
    BY <1>0, <1>1, <2>1 DEF StartsAccounted
<1>2. ASSUME Pending' = Pending, UNCHANGED <<starts, created, refusals>> PROVE StartsAccounted'
  BY <1>2 DEF StartsAccounted
<1>3. ASSUME NEW i \in Pids, NEW force, Start(p, i, force) PROVE StartsAccounted'
  <2>1. p \notin Pending /\ Pending' = Pending \cup {p}
    BY <1>3 DEF Start, Go, Pending
  <2>2. IsFiniteSet(Pending') /\ Cardinality(Pending') = Cardinality(Pending) + 1
    BY <2>1, FS_AddElement DEF StartsAccounted
  <2>3. starts' = starts + 1 /\ UNCHANGED <<created, refusals>>
    BY <1>3 DEF Start
  <2> QED
    BY <1>0, <2>2, <2>3 DEF StartsAccounted
<1>4. CASE Check(p)
  <2>1. CASE Go(p, "claim") /\ UNCHANGED refusals
    <3>1. Pending' = Pending
      BY <1>4, <2>1 DEF Check, Go, Pending
    <3> QED
      BY <1>2, <1>4, <2>1, <3>1 DEF Check, counters, memory
  <2>2. CASE End(p) /\ (refusals' = refusals + 1 \/ UNCHANGED refusals)
    <3>1. p \in Pending /\ Pending' = Pending \ {p}
      BY <1>4, <2>2 DEF Check, End, Go, Pending
    <3> QED
      BY <1>1, <1>4, <2>2, <3>1 DEF Check, counters, memory
  <2> QED
    BY <1>4, <2>1, <2>2 DEF Check
<1>5. CASE Claim(p)
  <2>1. p \in Pending /\ Pending' = Pending \ {p}
    BY <1>5 DEF Claim, End, Go, Pending
  <2> QED
    BY <1>1, <1>5, <2>1 DEF Claim, counters, memory, history
<1>6. CASE Write(p) \/ Finish(p)
  <2>1. Pending' = Pending
    BY <1>6 DEF Write, Finish, End, Go, Pending
  <2> QED
    BY <1>2, <1>6, <2>1 DEF Write, Finish, counters, history
<1>7. CASE Crash(p)
  <2>1. Pending' = Pending \ {p}
    BY <1>7 DEF Crash, End, Go, Pending
  <2>2. p \notin Pending => Pending' = Pending
    BY <2>1
  <2> QED
    BY <1>1, <1>2, <1>7, <2>1, <2>2 DEF Crash, memory, history
<1> QED
  BY <1>3, <1>4, <1>5, <1>6, <1>7 DEF StepOf

(* There is room for the segment a start creates: its start is counted,    *)
(* and it has created none yet.                                            *)
LEMMA RoomForSegment ==
    ASSUME TypeInv, NEW p \in Processes, pc[p] = "claim"
    PROVE  created + 1 \in Segments
<1>1. p \in Pending
  BY DEF Pending
<1>2. Cardinality(Pending) \in Nat /\ Cardinality(Pending) # 0
  BY <1>1, FS_CardinalityType, FS_EmptySet DEF TypeInv, StartsAccounted
<1> QED
  BY <1>2, InstanceAssumption DEF TypeInv, StartsAccounted, HistoryTypes, Segments

LEMMA StepMemoryTypes ==
    ASSUME TypeInv, NEW p \in Processes, StepOf(p) PROVE MemoryTypes'
<1>1. pc[p] = "claim" => created + 1 \in Segments
  BY RoomForSegment
<1> QED
  BY <1>1, InstanceAssumption DEF TypeInv, ProcessTypes, MemoryTypes, StepOf, Start, Check, Claim, Write, Finish, Crash,
                Go, End, memory

(* A command leaves all but its signal alone.                              *)
LEMMA CommandLeaves ==
    ASSUME Command PROVE UNCHANGED <<pc, pid, handle, memory, counters, history>>
BY DEF Command, ReadProcessId, SendSignal

LEMMA StepTypes == TypeInv /\ [Next]_vars => TypeInv'
<1>1. ASSUME TypeInv, UNCHANGED <<pc, pid, handle, memory, counters, history>>, SignalTypes'
      PROVE  TypeInv'
  <2>1. ProcessTypes'
    BY <1>1 DEF TypeInv, ProcessTypes, Alive
  <2>2. MemoryTypes' /\ HistoryTypes' /\ StartsAccounted'
    BY <1>1 DEF TypeInv, MemoryTypes, HistoryTypes, StartsAccounted, Pending,
                memory, counters, history
  <2> QED
    BY <1>1, <2>1, <2>2 DEF TypeInv
<1>2. ASSUME TypeInv, UNCHANGED vars PROVE TypeInv'
  <2>1. SignalTypes' /\ UNCHANGED <<pc, pid, handle, memory, counters, history>>
    BY <1>2 DEF TypeInv, SignalTypes, vars, signal
  <2> QED
    BY <1>1, <1>2, <2>1
<1>3. ASSUME TypeInv, Command PROVE TypeInv'
  <2>1. GetServerProcessId \in Pids \cup {NoPid}
    BY <1>3 DEF TypeInv, MemoryTypes, GetServerProcessId
  <2>2. SignalTypes'
    BY <1>3, <2>1 DEF TypeInv, SignalTypes, Command, ReadProcessId, SendSignal
  <2> QED
    BY <1>1, <1>3, <2>2, CommandLeaves
<1>4. ASSUME TypeInv, NEW p \in Processes, StepOf(p) PROVE TypeInv'
  BY <1>4, StepProcessTypes, StepMemoryTypes, StepHistoryTypes, StepSignalTypes, StepAccounted
  DEF TypeInv
<1> QED
  BY <1>2, <1>3, <1>4, NextIsAStep

LEMMA TypesSuffice == TypeInv => TypeOK
<1> SUFFICES ASSUME TypeInv PROVE TypeOK
  OBVIOUS
<1>1. created \in 0..MaxStarts /\ refusals \in 0..MaxStarts
  BY InstanceAssumption, FS_CardinalityType DEF TypeInv, StartsAccounted, HistoryTypes
<1> QED
  BY <1>1 DEF TypeOK, TypeInv, ProcessTypes, MemoryTypes, HistoryTypes, SignalTypes

-----------------------------------------------------------------------------
(* The guard.  A start that gets past its check knows that no server runs, *)
(* since the one that did would have been found, and no other start has    *)
(* got past its check meanwhile, or the history says Bypassed.             *)
Guarded == OnePastCheck /\ NameLeadsToIt /\ NameIsFresh

LEMMA NobodyElse ==
    ASSUME TypeInv, OnePastCheck, NEW p \in Processes, pc[p] \in {"claim", "write", "running"}
    PROVE  \A q \in Processes \ {p} : pc[q] \in {"off", "check"}
BY DEF TypeInv, ProcessTypes, OnePastCheck, PastCheck

LEMMA StepGuarded ==
    ASSUME TypeInv, Guarded, NEW p \in Processes, StepOf(p), ~Bypassed'
    PROVE  Guarded'
<1> USE DEF TypeInv, ProcessTypes, Guarded, Bypassed
<1>1. ASSUME NEW i \in Pids, NEW force, Start(p, i, force) PROVE Guarded'
  <2>1. ~force /\ UNCHANGED <<name, content, handle, crashes>>
    BY <1>1 DEF Start
  <2>2. pc' = [pc EXCEPT ![p] = "check"] /\ pid' = [pid EXCEPT ![p] = i] /\ pc[p] = "off"
    BY <1>1 DEF Start, Go
  <2>3. PastCheck' = PastCheck /\ Running' = Running /\ \A q \in Running : pid'[q] = pid[q]
    BY <2>2 DEF PastCheck, Running
  <2> QED
    BY <2>1, <2>2, <2>3 DEF OnePastCheck, NameLeadsToIt, NameIsFresh
<1>2. CASE Check(p)
  <2>0. pc[p] = "check" /\ UNCHANGED <<name, content, created, crashes>>
    BY <1>2 DEF Check, memory, counters
  <2>1. CASE End(p)
    <3>1. /\ PastCheck' = PastCheck /\ Running' = Running
          /\ \A q \in PastCheck : /\ pid'[q] = pid[q] /\ handle'[q] = handle[q]
                                   /\ pc'[q] = pc[q]
      BY <2>0, <2>1 DEF PastCheck, Running, End, Go, MemoryTypes
    <3>2. \A q \in Processes : pc'[q] = "write" => q \in PastCheck
      BY <3>1 DEF PastCheck
    <3>3. \A q \in Running : q \in PastCheck
      BY DEF PastCheck, Running
    <3> QED
      BY <2>0, <3>1, <3>2, <3>3 DEF OnePastCheck, NameLeadsToIt, NameIsFresh
  <2>2. ASSUME NEW answer, unread' = (unread \/ Exists(answer)), Go(p, "claim"),
               UNCHANGED <<pid, handle>>
        PROVE  Guarded'
    <3>1. \A q \in Processes \ {p} : pc[q] \notin {"claim", "write"}
      BY <1>2 DEF Check
    <3>2. Running = {}
      <4> SUFFICES ASSUME NEW q \in Running PROVE FALSE
        OBVIOUS
      <4>1. name # NoSegment /\ content[name] = pid[q]
        BY DEF NameLeadsToIt
      <4>2. q \in Alive /\ pid[q] # NoPid
        BY DEF Running, Alive
      <4> QED
        BY <2>2, <4>1, <4>2 DEF Exists
    <3>3. PastCheck = {}
      BY <2>0, <3>1, <3>2 DEF PastCheck, Running
    <3>4. PastCheck' = {p} /\ Running' = {} /\ \A q \in Processes : pc'[q] # "write"
      BY <2>0, <2>2, <3>3 DEF PastCheck, Running, Go
    <3> QED
      BY <2>0, <2>2, <3>2, <3>4 DEF OnePastCheck, NameLeadsToIt, NameIsFresh
  <2> QED
    BY <1>2, <2>1, <2>2 DEF Check
<1>3. CASE Claim(p)
  <2>0. \A q \in Processes \ {p} : pc[q] \in {"off", "check"}
    BY <1>3, NobodyElse DEF Claim
  <2>1. Running = {} /\ Running' = {} /\ UNCHANGED crashes
    BY <1>3, <2>0 DEF Running, Claim, Go, End, counters
  <2>2. OnePastCheck'
    BY <1>3, <2>0 DEF OnePastCheck, PastCheck, Claim, Go, End
  <2>3. created + 1 \in Segments
    BY <1>3, RoomForSegment DEF Claim
  <2>4. NameLeadsToIt'
    <3>1. \A q \in Processes : pc'[q] = "write" => q = p
      BY <1>3, <2>0 DEF Claim, Go, End
    <3>2. pc'[p] = "write" => handle'[p] = name' /\ name' # NoSegment
      BY <1>3, <2>3, NoPidIsNoPid DEF Claim, Go, End, MemoryTypes, memory
    <3> QED
      BY <2>1, <3>1, <3>2 DEF NameLeadsToIt
  <2>5. NameIsFresh'
    BY <1>3, <2>1, <2>3 DEF NameIsFresh, Claim, MemoryTypes, memory
  <2> QED
    BY <2>2, <2>4, <2>5
<1>4. CASE Write(p)
  <2>0. \A q \in Processes \ {p} : pc[q] \in {"off", "check"}
    BY <1>4, NobodyElse DEF Write
  <2>1. OnePastCheck'
    BY <1>4, <2>0 DEF OnePastCheck, PastCheck, Write, Go, End
  <2>2. CASE content' = [content EXCEPT ![handle[p]] = pid[p]] /\ Go(p, "running")
             /\ UNCHANGED <<pid, handle, name>>
    <3>1. name \in Segments /\ handle[p] = name /\ content'[name] = pid[p]
      BY <1>4, <2>2 DEF NameLeadsToIt, Write, MemoryTypes
    <3>2. Running' = {p} /\ \A q \in Processes : pc'[q] # "write"
      BY <2>0, <2>2 DEF Running, Go
    <3> QED
      BY <2>1, <2>2, <3>1, <3>2, NoPidIsNoPid DEF NameLeadsToIt, NameIsFresh
  <2>3. CASE name' = NoSegment /\ End(p)
    <3>1. Running' = {} /\ \A q \in Processes : pc'[q] # "write"
      BY <2>0, <2>3 DEF Running, End, Go
    <3> QED
      BY <2>1, <2>3, <3>1 DEF NameLeadsToIt, NameIsFresh
  <2> QED
    BY <1>4, <2>2, <2>3 DEF Write
<1>5. CASE Finish(p)
  <2>0. \A q \in Processes \ {p} : pc[q] \in {"off", "check"}
    BY <1>5, NobodyElse DEF Finish
  <2>1. PastCheck' = {} /\ Running' = {} /\ \A q \in Processes : pc'[q] # "write"
    BY <1>5, <2>0 DEF PastCheck, Running, Finish, End, Go
  <2> QED
    BY <1>5, <2>1 DEF OnePastCheck, NameLeadsToIt, NameIsFresh, Finish
<1>6. CASE Crash(p)
  <2>1. /\ PastCheck' \subseteq PastCheck /\ Running' \subseteq Running
        /\ \A q \in Processes : pc'[q] # "off" =>
              pc'[q] = pc[q] /\ pid'[q] = pid[q] /\ handle'[q] = handle[q]
    BY <1>6 DEF PastCheck, Running, Crash, End, Go, MemoryTypes
  <2>2. UNCHANGED <<name, content>> /\ crashes' > 0
    BY <1>6 DEF Crash, memory, HistoryTypes
  <2> QED
    BY <2>1, <2>2 DEF OnePastCheck, NameLeadsToIt, NameIsFresh, Running
<1> QED
  BY <1>1, <1>2, <1>3, <1>4, <1>5, <1>6 DEF StepOf

(* The history is only added to.                                           *)
LEMMA BypassedStays == ASSUME NEW p \in Processes, StepOf(p), Bypassed PROVE Bypassed'
<1> USE DEF StepOf, Start, Check, Claim, Write, Finish, Crash, history
<1>1. raced => raced'
  OBVIOUS
<1>2. forced => forced'
  OBVIOUS
<1>3. unread => unread'
  OBVIOUS
<1> QED
  BY <1>1, <1>2, <1>3 DEF Bypassed

(* A process that starts after a command has read an id cannot have it     *)
(* unless reused says so, and one that runs does so until it ends.         *)
LEMMA StepSignal ==
    ASSUME TypeInv, SignalHitsServer, NEW p \in Processes, StepOf(p) PROVE SignalHitsServer'
<1> USE DEF TypeInv, ProcessTypes, SignalHitsServer
<1>1. UNCHANGED target /\ (reused => reused') /\ (crashes > 0 => crashes' > 0)
  <2>1. UNCHANGED target
    BY DEF StepOf, Start, Check, Claim, Write, Finish, Crash, signal
  <2>2. reused => reused'
    BY DEF StepOf, Start, Check, Claim, Write, Finish, Crash, signal
  <2>3. crashes' = crashes \/ crashes' = crashes + 1
    BY DEF StepOf, Start, Check, Claim, Write, Finish, Crash, counters
  <2> QED
    BY <2>1, <2>2, <2>3, InstanceAssumption DEF HistoryTypes
<1>2. SUFFICES ASSUME ~Bypassed', ~(crashes' > 0), ~reused', NEW q \in Alive', pid'[q] = target'
      PROVE  q \in Running'
  OBVIOUS
<1>3. ASSUME pid'[q] = pid[q], pc'[q] = pc[q] PROVE q \in Running'
  <2>1. q \in Alive
    BY <1>3 DEF Alive
  <2> QED
    BY <1>1, <1>2, <1>3, <2>1, BypassedStays DEF Running
<1>4. CASE q # p
  <2>1. q \in Processes
    BY DEF Alive
  <2>2. pc'[q] = pc[q]
    BY <1>4, <2>1 DEF StepOf, Start, Check, Claim, Write, Finish, Crash, Go, End
  <2>3. pid'[q] = pid[q]
    BY <1>4, <2>1 DEF StepOf, Start, Check, Claim, Write, Finish, Crash, Go, End
  <2> QED
    BY <1>3, <2>2, <2>3
<1>5. CASE q = p
  <2>1. ASSUME NEW i \in Pids, NEW force, Start(p, i, force) PROVE FALSE
    BY <1>1, <1>2, <1>5, <2>1 DEF Start
  <2>2. ASSUME End(p) PROVE FALSE
    BY <1>2, <1>5, <2>2 DEF End, Alive
  <2>3. ASSUME pc[p] \in {"check", "claim", "write"}, UNCHANGED pid PROVE FALSE
    <3>1. p \in Alive /\ p \notin Running
      BY <2>3 DEF Alive, Running
    <3> QED
      BY <1>1, <1>2, <1>5, <2>3, <3>1, BypassedStays
  <2> QED
    BY <2>1, <2>2, <2>3 DEF StepOf, Check, Claim, Write, Finish, Crash
<1> QED
  BY <1>4, <1>5

LEMMA StepGuard == GuardInv /\ [Next]_vars => GuardInv'
<1> SUFFICES ASSUME GuardInv, [Next]_vars PROVE GuardInv'
  OBVIOUS
<1>1. TypeInv'
  BY StepTypes DEF GuardInv
<1>2. ASSUME UNCHANGED <<pc, pid, handle, memory, counters, history>>
      PROVE  (Bypassed \/ Guarded)'
  BY <1>2 DEF GuardInv, Guarded, Bypassed, OnePastCheck, PastCheck, NameLeadsToIt, NameIsFresh,
              Running, memory, counters, history
<1>3. CASE UNCHANGED vars
  <2>1. SignalHitsServer'
    BY <1>3 DEF GuardInv, SignalHitsServer, Bypassed, Alive, Running, vars, counters, history,
                signal
  <2> QED
    BY <1>1, <1>2, <1>3, <2>1 DEF GuardInv, Guarded, vars
<1>4. CASE Command
  <2>1. UNCHANGED <<pc, pid, handle, memory, counters, history>>
    BY <1>4, CommandLeaves
  <2>2. ASSUME SendSignal PROVE SignalHitsServer'
    <3>1. target' = NoPid /\ pid' = pid
      BY <2>1, <2>2 DEF SendSignal
    <3> QED
      BY <3>1 DEF SignalHitsServer, Alive
  <2>3. ASSUME ReadProcessId PROVE SignalHitsServer'
    <3>0. UNCHANGED <<pc, pid, Alive, Running, Bypassed, crashes>>
      BY <2>1 DEF Alive, Running, Bypassed, counters, history
    <3>1. SUFFICES ASSUME ~Bypassed, ~(crashes > 0), NEW q \in Alive, pid[q] = target'
                   PROVE  q \in Running
      BY <3>0 DEF SignalHitsServer
    <3>2. name # NoSegment /\ content[name] = target' /\ target' # NoPid
      BY <2>3, InstanceAssumption DEF ReadProcessId, GetServerProcessId, NoPid
    <3>3. PICK r \in Running : content[name] = pid[r]
      BY <3>1, <3>2 DEF GuardInv, NameIsFresh
    <3> QED
      BY <3>1, <3>2, <3>3 DEF GuardInv, TypeInv, ProcessTypes, Alive, Running
  <2>4. SignalHitsServer'
    BY <1>4, <2>2, <2>3 DEF Command
  <2> QED
    BY <1>1, <1>2, <2>1, <2>4 DEF GuardInv, Guarded
<1>5. ASSUME NEW p \in Processes, StepOf(p) PROVE GuardInv'
  <2>1. (Bypassed \/ Guarded)'
    BY <1>5, BypassedStays, StepGuarded DEF GuardInv, Guarded
  <2> QED
    BY <1>1, <1>5, <2>1, StepSignal DEF GuardInv, Guarded
<1> QED
  BY <1>3, <1>4, <1>5, NextIsAStep

LEMMA GuardInvariant == Spec => []GuardInv
BY InitGuard, StepGuard, PTL DEF Spec

-----------------------------------------------------------------------------
(* As long as no start falls between the check and the write of another,   *)
(* none is forced and none fails to read the memory, at most one server    *)
(* runs, whatever crashes and whichever process ids are used again.        *)
THEOREM AtMostOneServerRuns == Spec => []OneServerUnlessBypassed
<1>1. GuardInv => OneServerUnlessBypassed
  <2> SUFFICES ASSUME TypeInv, OnePastCheck PROVE AtMostOneServer
    BY DEF GuardInv, OneServerUnlessBypassed
  <2>1. CASE Running = {}
    BY <2>1, FS_EmptySet DEF AtMostOneServer
  <2>2. ASSUME NEW p \in Running PROVE AtMostOneServer
    <3>1. Running = {p}
      BY <2>2 DEF OnePastCheck, PastCheck, Running
    <3> QED
      BY <3>1, FS_Singleton DEF AtMostOneServer
  <2> QED
    BY <2>1, <2>2
<1> QED
  BY <1>1, GuardInvariant, PTL

(* Under the same conditions exit, restart and update find the server that *)
(* runs and, unless it crashed, nobody else's process id; their signal     *)
(* gets to nobody else however late it is sent, unless the id they read    *)
(* has been given to a new process.                                        *)
THEOREM CommandsFindTheServer == Spec => []InstanceInv
<1>1. GuardInv => InstanceInv
  BY TypesSuffice DEF GuardInv, InstanceInv, ServerIsFound, FoundIsServer, NameLeadsToIt,
                      NameIsFresh, GetServerProcessId
<1> QED
  BY <1>1, GuardInvariant, PTL
=============================================================================
