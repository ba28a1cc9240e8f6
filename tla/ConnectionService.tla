------------------------- MODULE ConnectionService -------------------------
(***************************************************************************)
(* What Skylar promises a client once its connection has been accepted:    *)
(* the connection waits its turn in a bounded line, is taken from the      *)
(* front of the line by exactly one worker, and leaves it for good, either *)
(* answered or refused.  A client may hold the worker it has got; while    *)
(* one does, the line need not move.  Threads, events, semaphores and jobs *)
(* are details of the implementation (see ConnectionDispatcher).           *)
(***************************************************************************)
EXTENDS Integers, Sequences, FiniteSets

CONSTANTS Connections,   \* every connection a client may ever open
          Capacity       \* the most connections that ever wait in the line

VARIABLES pending,   \* the line: accepted connections nobody has taken yet
          active,    \* connections a worker is busy with
          held,      \* those of them whose client has to act first
          closed     \* connections the server has finished with

svars == <<pending, active, held, closed>>

Waiting == {pending[i] : i \in 1..Len(pending)}

Known == Waiting \cup active \cup closed

SInit ==
    /\ pending = <<>>
    /\ active = {}
    /\ held = {}
    /\ closed = {}

(* New connections join the end of the line, some are turned away.         *)
Newcomers == {pending'[i] : i \in Len(pending) + 1..Len(pending')}

Admit ==
    /\ Len(pending) <= Len(pending') /\ Len(pending') <= Capacity
    /\ \A i \in 1..Len(pending) : pending'[i] = pending[i]
    /\ \A i, j \in 1..Len(pending') : pending'[i] = pending'[j] => i = j
    /\ Newcomers \subseteq Connections \ Known
    /\ closed \subseteq closed'
    /\ closed' \ closed \subseteq Connections \ (Known \cup Newcomers)
    /\ UNCHANGED <<active, held>>

(* A worker takes the connection at the front.                             *)
Begin ==
    /\ pending # <<>>
    /\ active' = active \cup {Head(pending)}
    /\ held' \in {held, held \cup {Head(pending)}}
    /\ pending' = Tail(pending)
    /\ closed' = closed

(* The connection at the front turns out to be dead and is refused.        *)
Drop ==
    /\ pending # <<>>
    /\ closed' = closed \cup {Head(pending)}
    /\ pending' = Tail(pending)
    /\ UNCHANGED <<active, held>>

(* The client of a held connection acts.                                   *)
Release(c) ==
    /\ c \in held
    /\ held' = held \ {c}
    /\ UNCHANGED <<pending, active, closed>>

End(c) ==
    /\ c \in active \ held
    /\ active' = active \ {c}
    /\ closed' = closed \cup {c}
    /\ UNCHANGED <<pending, held>>

SNext == Admit \/ Begin \/ Drop \/ \E c \in Connections : Release(c) \/ End(c)

SSafe == SInit /\ [][SNext]_svars

(* The line moves while nobody is held.                                    *)
Serve == held = {} /\ (Begin \/ Drop)

SSpec == SSafe /\ WF_svars(Serve) /\ \A c \in Connections : WF_svars(End(c))
=============================================================================
