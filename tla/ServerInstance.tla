--------------------------- MODULE ServerInstance ---------------------------
(***************************************************************************)
(* How Server::StartCommand keeps a second server of the same name from    *)
(* starting, and how the exit, restart and update commands find the one    *)
(* that runs: a named shared memory that holds the server's process id.    *)
(*                                                                         *)
(* The mutex StartCommand locks is a member of the Server object, so it    *)
(* excludes nobody in another process: every call of the platform is a     *)
(* step of its own.  The name leads to a segment; destroying it takes the  *)
(* name away but not the segment from those that have opened it.  The      *)
(* segment outlives a crash, and a process id may be used again.  Every    *)
(* call of the platform may fail.  The signal of a command is sent some    *)
(* time after it has read whom to send it to.                              *)
(***************************************************************************)
EXTENDS Integers, Sequences, FiniteSets

CONSTANTS Processes,     \* processes that start a server, one start at a time
          Pids,          \* process ids
          MaxStarts,     \* bound on the starts
          MaxCrashes,    \* bound on the crashes
          ServerName,    \* the name the model is about
          DefaultName,   \* DEFAULT_SERVER_NAME
          CommandLines   \* the command lines of the starts, as sequences of words

ASSUME InstanceAssumption ==
    /\ Pids \subseteq Nat \ {0, 1}
    /\ Cardinality(Processes) <= Cardinality(Pids)
    /\ MaxStarts \in Nat /\ MaxCrashes \in Nat
    /\ \A line \in CommandLines : line \in Seq(STRING)

NoPid == 0
NoSegment == 0
Segments == 1..MaxStarts

VARIABLES pc,        \* where each process is in StartCommand
          pid,       \* its process id, NoPid when there is no process
          handle,    \* the segment it has opened
          name,      \* the segment the name leads to
          content,   \* the process id in each segment
          created,   \* segments created so far
          starts, crashes,   \* counters of the bounds
          target,    \* the process id a command is about to signal, or NoPid
          raced,     \* a start checked while another had checked and not yet written
          forced,    \* a start said --force
          unread,    \* a start could not read a process id that exists, and went on
          reused,    \* a start has got the process id in target since it was read
          refusals   \* starts refused for their own process id, no other process being there

counters == <<starts, crashes>>
memory == <<name, content, created>>
history == <<raced, forced, unread, refusals>>
signal == <<target, reused>>
vars == <<pc, pid, handle, memory, counters, history, signal>>

Alive == {p \in Processes : pid[p] # NoPid}
Running == {p \in Processes : pc[p] = "running"}

Init ==
    /\ pc = [p \in Processes |-> "off"]
    /\ pid = [p \in Processes |-> NoPid]
    /\ handle = [p \in Processes |-> NoSegment]
    /\ name = NoSegment
    /\ content = [s \in Segments |-> NoPid]
    /\ created = 0
    /\ starts = 0 /\ crashes = 0
    /\ raced = FALSE /\ forced = FALSE /\ unread = FALSE /\ refusals = 0
    /\ target = NoPid /\ reused = FALSE

-----------------------------------------------------------------------------
Go(p, to) == pc' = [pc EXCEPT ![p] = to]

(* The process is gone, and its id is free.                                *)
End(p) ==
    /\ Go(p, "off")
    /\ pid' = [pid EXCEPT ![p] = NoPid]
    /\ handle' = [handle EXCEPT ![p] = NoSegment]

(* What ServerStartupTask takes from its command line, word by word.  At   *)
(* the end of each turn of its loop a word is skipped that nobody looks    *)
(* at; a value that is missing ends it; a later name replaces an earlier.  *)
DoTask(line) ==
    LET NothingFound == [force |-> FALSE, name |-> <<>>]
        from[k \in 1..Len(line) + 3] ==
            IF k > Len(line) THEN NothingFound
            ELSE IF line[k] = "--force" THEN [from[k + 2] EXCEPT !.force = TRUE]
            ELSE IF line[k] \notin {"--name", "--maxmemory"} THEN from[k + 2]
            ELSE IF k = Len(line) \/ line[k] = "--maxmemory" \/ from[k + 3].name # <<>>
                 THEN from[k + 3]
            ELSE [from[k + 3] EXCEPT !.name = <<line[k + 1]>>]
        found == from[1]
    IN  [force |-> found.force, name |-> IF found.name = <<>> THEN DefaultName ELSE found.name[1]]

Start(p, i, force) ==
    /\ pc[p] = "off"
    /\ starts < MaxStarts
    /\ i \notin {pid[q] : q \in Alive}
    /\ starts' = starts + 1
    /\ pid' = [pid EXCEPT ![p] = i]
    /\ Go(p, "check")
    /\ name' = IF force THEN NoSegment ELSE name
    /\ forced' = (forced \/ force)
    /\ reused' = (reused \/ i = target)
    /\ UNCHANGED <<handle, content, created, crashes, raced, unread, refusals, target>>

(* The name is open and its process id is one the system knows.  Nobody    *)
(* has id 0, which a segment holds until it is written, but the system's   *)
(* answer for it is not an error either: it may go both ways.              *)
Exists(answer) ==
    /\ name # NoSegment
    /\ IF content[name] = NoPid THEN answer ELSE \E q \in Alive : pid[q] = content[name]

(* Mutant: the process id in the memory is not looked at.                  *)
CheckNothing(p) ==
    /\ pc[p] = "check"
    /\ raced' = (raced \/ \E q \in Processes \ {p} : pc[q] \in {"claim", "write"})
    /\ Go(p, "claim")
    /\ UNCHANGED <<pid, handle, memory, counters, forced, unread, refusals, signal>>

(* A start goes on if the memory cannot be opened or read.                 *)
Check(p) ==
    /\ pc[p] = "check"
    /\ raced' = (raced \/ \E q \in Processes \ {p} : pc[q] \in {"claim", "write"})
    /\ \E answer, readable \in BOOLEAN :
          \/ /\ readable /\ Exists(answer)
             /\ End(p)
             /\ refusals' = IF Alive = {p} /\ content[name] # NoPid
                             THEN refusals + 1 ELSE refusals
             /\ UNCHANGED unread
          \/ /\ ~(readable /\ Exists(answer))
             /\ Go(p, "claim")
             /\ unread' = (unread \/ Exists(answer))
             /\ UNCHANGED <<pid, handle, refusals>>
    /\ UNCHANGED <<memory, counters, forced, signal>>

(* The segment is opened, or created, or neither.                          *)
Claim(p) ==
    /\ pc[p] = "claim"
    /\ \/ /\ name # NoSegment
          /\ handle' = [handle EXCEPT ![p] = name]
          /\ Go(p, "write")
          /\ UNCHANGED <<pid, memory>>
       \/ /\ name = NoSegment
          /\ created' = created + 1
          /\ name' = created'
          /\ content' = [content EXCEPT ![created'] = NoPid]
          /\ handle' = [handle EXCEPT ![p] = created']
          /\ Go(p, "write")
          /\ UNCHANGED pid
       \/ /\ End(p)
          /\ UNCHANGED memory
    /\ UNCHANGED <<counters, history, signal>>

(* Mutant: an opened memory is taken as it is.                             *)
WriteNothing(p) ==
    /\ pc[p] = "write"
    /\ Go(p, "running")
    /\ UNCHANGED <<pid, handle, memory, counters, history, signal>>

Write(p) ==
    /\ pc[p] = "write"
    /\ \/ /\ content' = [content EXCEPT ![handle[p]] = pid[p]]
          /\ Go(p, "running")
          /\ UNCHANGED <<pid, handle, name>>
       \/ /\ name' = NoSegment
          /\ End(p)
          /\ UNCHANGED content
    /\ UNCHANGED <<created, counters, history, signal>>

(* Run is over for good: whatever segment has the name loses it.           *)
Finish(p) ==
    /\ pc[p] = "running"
    /\ name' = NoSegment
    /\ End(p)
    /\ UNCHANGED <<content, created, counters, history, signal>>

Crash(p) ==
    /\ pc[p] # "off"
    /\ crashes < MaxCrashes
    /\ crashes' = crashes + 1
    /\ End(p)
    /\ UNCHANGED <<memory, starts, history, signal>>

-----------------------------------------------------------------------------
(* RestartCommand, ExitCommand and UpdateModulesCommand                    *)

(* What they read, to send their signal to if it is more than 1.           *)
GetServerProcessId == IF name = NoSegment THEN NoPid ELSE content[name]

(* Mutant: the process id is the one some start has, whatever it does.     *)
ReadAnyProcessId ==
    /\ target = NoPid
    /\ \E p \in Alive : target' = pid[p]
    /\ reused' = FALSE
    /\ UNCHANGED <<pc, pid, handle, memory, counters, history>>

ReadProcessId ==
    /\ target = NoPid
    /\ GetServerProcessId > 1
    /\ target' = GetServerProcessId
    /\ reused' = FALSE
    /\ UNCHANGED <<pc, pid, handle, memory, counters, history>>

SendSignal ==
    /\ target > 1
    /\ target' = NoPid
    /\ UNCHANGED <<pc, pid, handle, memory, counters, history, reused>>

-----------------------------------------------------------------------------
Next ==
    \/ \E p \in Processes, i \in Pids, line \in CommandLines :
          DoTask(line).name = ServerName /\ Start(p, i, DoTask(line).force)
    \/ \E p \in Processes : Check(p) \/ Claim(p) \/ Write(p) \/ Finish(p) \/ Crash(p)
    \/ ReadProcessId \/ SendSignal

Spec == Init /\ [][Next]_vars

-----------------------------------------------------------------------------
(* Properties                                                              *)

TypeOK ==
    /\ pc \in [Processes -> {"off", "check", "claim", "write", "running"}]
    /\ pid \in [Processes -> Pids \cup {NoPid}]
    /\ handle \in [Processes -> Segments \cup {NoSegment}]
    /\ name \in Segments \cup {NoSegment}
    /\ content \in [Segments -> Pids \cup {NoPid}]
    /\ created \in 0..MaxStarts
    /\ starts \in 0..MaxStarts /\ crashes \in 0..MaxCrashes
    /\ raced \in BOOLEAN /\ forced \in BOOLEAN /\ unread \in BOOLEAN /\ refusals \in 0..MaxStarts
    /\ target \in Pids \cup {NoPid} /\ reused \in BOOLEAN

(* "Check if server is already running": StartCommand lets no second       *)
(* server start.                                                           *)
AtMostOneServer == Cardinality(Running) <= 1

(* The ways around the check: a start between the check and the write of   *)
(* another, one that says --force, and one that cannot read the memory.    *)
Bypassed == raced \/ forced \/ unread

(* It does so as long as nobody gets around the check, whatever crashes.   *)
OneServerUnlessBypassed == Bypassed \/ AtMostOneServer

(* Under the same conditions the server that runs is the one the commands  *)
(* find: the name leads to a segment with its process id.                  *)
ServerIsFound == Bypassed \/ \A p \in Running : GetServerProcessId = pid[p]

(* And what a command finds is never the id of a start that has been       *)
(* refused or has failed, unless the server itself crashed.                *)
FoundIsServer ==
    Bypassed \/ crashes > 0 \/
        GetServerProcessId \in {NoPid} \cup {pid[p] : p \in Running}

(* Nor is it that when the signal is sent, however late: the process that  *)
(* gets it is the server, unless the id was given to a new process since.  *)
SignalHitsServer ==
    Bypassed \/ crashes > 0 \/ reused \/
        \A p \in Alive : pid[p] = target => p \in Running

(* The types, what the commands find, and whom they signal.                *)
InstanceInv == TypeOK /\ ServerIsFound /\ FoundIsServer /\ SignalHitsServer

(* A command line that says --force, other than for a name or a value, is  *)
(* one of a forced start.                                                  *)
ForceIsHeard ==
    \A line \in CommandLines : \A k \in DOMAIN line :
        line[k] = "--force" /\ (k = 1 \/ line[k - 1] \notin {"--name", "--maxmemory"}) =>
            DoTask(line).force

(* A start that is told the server is already running is told the truth.   *)
RefusedOnlyIfRunning == refusals = 0
=============================================================================
