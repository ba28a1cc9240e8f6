------------------------------ MODULE TlsService ------------------------------
(***************************************************************************)
(* The jobs that serve connections of the listeners of AddressBinder: how  *)
(* one finds out whether its connection is a TLS one, makes an SSL object  *)
(* of the listener's context, shakes hands, reads a request, answers it    *)
(* and closes, through SocketSSL or SocketDefault.                         *)
(*                                                                         *)
(* The results of the TLS library are what its interface allows: SSL_write *)
(* reports the whole length or no success, as no partial writes are        *)
(* enabled; but the socket does not block, and the records of a large      *)
(* piece may be out in part before it fails or wants the socket.  Then the *)
(* library remembers its place for the next call.  A wait for the socket   *)
(* may fail at any time.  An answer is a head and a body, each sent by a   *)
(* call of SendAllPacketsAsync.                                            *)
(***************************************************************************)
EXTENDS AddressBinder

CONSTANTS Connections,   \* the connections that may come
          Answer,        \* the lengths of the pieces of an answer, <<head, body>>
          Width          \* an ulong has this many values

ASSUME ServiceAssumption ==
    /\ Answer \in Seq(Nat \ {0}) /\ Answer # <<>>
    /\ Width \in Nat /\ \A k \in DOMAIN Answer : Answer[k] < Width - 1

VARIABLES conn   \* the job of each connection

vars == <<binderVars, conn>>

NoJob == [phase |-> "none"]
Done == [phase |-> "done"]
Dropped == [phase |-> "dropped"]   \* the job is over, the socket still open

Tls(c) == conn[c].context # {}

Init == BinderInit /\ conn = [c \in Connections |-> NoJob]

Step(c, new) == conn' = [conn EXCEPT ![c] = new] /\ UNCHANGED binderVars

(* The accept loop takes a connection of an open listener; its job is to   *)
(* be run some time.                                                       *)
Accept(c) ==
    /\ conn[c] = NoJob /\ at["main"] = "accept"
    /\ \E id \in transports \cap sockets :
          Step(c, [phase |-> "resolve", at |-> id, context |-> {}, dead |-> FALSE, shaken |-> FALSE,
                   error |-> "other", piece |-> 1, total |-> 0, pending |-> 0,
                   written |-> <<>>, returned |-> <<>>])

(* Mutant: any port is taken for that of the first context.                *)
ContextOfAny(port) == {id \in Contexts(tlsData) : \A other \in Contexts(tlsData) : id[2] <= other[2]}

ContextOf(port) == IF port \in DOMAIN tlsData THEN {tlsData[port]} ELSE {}

(* Job: the port is looked up, and then, if it has a context, SSL_new.     *)
(* Without an address of the socket there is no port, and nobody closes it. *)
Resolve(c) ==
    /\ conn[c].phase = "resolve"
    /\ \/ LET found == ContextOf(Listener(conn[c].at).port)
          IN  Step(c, [conn[c] EXCEPT !.context = found,
                                      !.phase = IF found = {} THEN "receive" ELSE "attach"])
       \/ Step(c, Dropped)   \* no GetAddress

(* The constructor of SocketSSL.  A context that has been freed since it   *)
(* was found is dead.                                                      *)
Attach(c) ==
    /\ conn[c].phase = "attach"
    /\ Step(c, [conn[c] EXCEPT !.phase = "handshake",
                               !.dead = \E id \in conn[c].context : freed[id] > 0])

(* One turn of Handshake's loop, and its return, which is always true.     *)
(* When the wait fails the loop's condition sees the error of the turn     *)
(* before.                                                                 *)
Handshake(c) ==
    /\ conn[c].phase = "handshake"
    /\ \/ conn[c].error # "wantRead" /\ Step(c, [conn[c] EXCEPT !.phase = "receive"])   \* no wait
       \/ Step(c, [conn[c] EXCEPT !.error = "wantRead"])
       \/ \E result \in BOOLEAN :
             Step(c, [conn[c] EXCEPT !.phase = "receive", !.shaken = result, !.error = "other"])

(* GetPacketAsync, until it returns a request, or an error.  SSL_read      *)
(* finishes a handshake first; no error of before is looked at.            *)
Receive(c) ==
    /\ conn[c].phase = "receive"
    /\ \/ Step(c, [conn[c] EXCEPT !.phase = "send", !.shaken = Tls(c)])
       \/ Step(c, [conn[c] EXCEPT !.phase = "close"])

-----------------------------------------------------------------------------
(* SendAllPacketsAsync                                                     *)
Size(c) == Answer[conn[c].piece]
Piece(k, from, to) == [j \in 1..to - from |-> <<k, from + j>>]

(* Mutant: a result below zero is not told from one above.                 *)
AddAbsolute(total, result) == IF result < 0 THEN (total - result) % Width ELSE (total + result) % Width

(* total += result, an unsigned sum.                                       *)
Add(total, result) == (total + result) % Width

(* As a long.                                                              *)
Signed(total) == IF total = Width - 1 THEN -1 ELSE total

(* SendHeaders builds the head and sends it; zero and below are failures.  *)
SendHeaders(result) == result > 0

(* SendResponse: the body only after a head that has been sent.            *)
GoesOn(c, result) == SendHeaders(result) /\ conn[c].piece < Len(Answer)

(* What the socket takes of the piece, after what it has taken before.     *)
Sent(c, units) ==
    LET from == conn[c].total + conn[c].pending
    IN  [conn[c] EXCEPT !.pending = @ + units, !.written = @ \o Piece(conn[c].piece, from, from + units)]

Left(c) == Size(c) - conn[c].total - conn[c].pending

(* The call returns, and SendResponse goes on or gives up.                 *)
Return(c, job, result) ==
    Step(c, [job EXCEPT
                !.returned = Append(@, result), !.total = 0, !.pending = 0, !.error = "other",
                !.piece = IF GoesOn(c, result) THEN @ + 1 ELSE @,
                !.phase = IF GoesOn(c, result) THEN "send" ELSE "close"])

(* The turn ends with a result that is added to the total; when the total  *)
(* is not below the length the call returns it.                            *)
EndTurn(c, job, result) ==
    LET total == Add(conn[c].total, result)
    IN  IF total < Size(c) THEN Step(c, [job EXCEPT !.total = total, !.error = "other"])
        ELSE Return(c, job, Signed(total))

Failures == {-1, 0}

(* The inner loop is repeated while the last error is "wantWrite", be it   *)
(* that of an earlier turn; a wait that fails leaves the result at 0.      *)
SendSecure(c) ==
    /\ conn[c].phase = "send" /\ Tls(c)
    /\ \/ conn[c].error # "wantWrite" /\ EndTurn(c, conn[c], 0)   \* no wait
       \/ EndTurn(c, Sent(c, Left(c)), Size(c) - conn[c].total)
       \/ \E units \in 0..Left(c) - 1 :
             \/ Step(c, [Sent(c, units) EXCEPT !.error = "wantWrite"])
             \/ \E result \in Failures : EndTurn(c, Sent(c, units), result)

(* SocketDefault leaves it to the engine, which sends all or fails after   *)
(* some of it.                                                             *)
SendPlain(c) ==
    /\ conn[c].phase = "send" /\ ~Tls(c)
    /\ \/ Return(c, Sent(c, Left(c)), Size(c))
       \/ \E units \in 0..Left(c) - 1, result \in Failures : Return(c, Sent(c, units), result)

Close(c) ==
    /\ conn[c].phase = "close"
    /\ Step(c, Done)

JobNext(c) == Accept(c) \/ Resolve(c) \/ Attach(c) \/ Handshake(c) \/ Receive(c)
                \/ SendSecure(c) \/ SendPlain(c) \/ Close(c)

Next == (BinderNext /\ UNCHANGED conn) \/ \E c \in Connections : JobNext(c)

Spec == Init /\ [][Next]_vars

-----------------------------------------------------------------------------
Jobs == {c \in Connections : conn[c] \notin {NoJob, Done, Dropped}}

(* The tables of the binder, and what a job knows.                         *)
TypeOK ==
    /\ BinderTypeOK
    /\ \A c \in Jobs :
          /\ conn[c].phase \in {"resolve", "attach", "handshake", "receive", "send", "close"}
          /\ conn[c].error \in {"wantRead", "wantWrite", "other"}
          /\ conn[c].piece \in DOMAIN Answer /\ conn[c].total \in 0..Size(c) - 1
          /\ conn[c].pending \in 0..Size(c) - 1

(* A connection is served as its listener says, TLS with the listener's    *)
(* own and live context, plain without any, as long as the controller has  *)
(* not begun to close the listeners of its Run, or those that an earlier   *)
(* Run has left to it.  After that its port may lead to no context, and a  *)
(* TLS client is served in plain, or to one that is freed under its hands; *)
(* and while main binds again as the controller still closes, a plain      *)
(* connection may be taken for a TLS one.                                  *)
ServedAsListening ==
    \A c \in Jobs :
        LET id == conn[c].at
            own == IF Listener(id).tls THEN {id} ELSE {}
        IN  conn[c].phase # "resolve" /\ (conn[c].context # own \/ conn[c].dead) =>
                stepped >= id[1] \/ stepped >= since

(* The answer up to and with piece k, and what of it is before piece k.    *)
UpTo[k \in 0..Len(Answer)] == IF k = 0 THEN <<>> ELSE UpTo[k - 1] \o Piece(k, 0, Answer[k])

(* What a client has been sent is a beginning of its answer, every unit of *)
(* it once and in its place, although a send may stop amid a piece and is  *)
(* continued there.                                                        *)
AnswerInOrder ==
    \A c \in Jobs :
        /\ Len(conn[c].written) <= Len(UpTo[Len(Answer)])
        /\ \A j \in DOMAIN conn[c].written : conn[c].written[j] = UpTo[Len(Answer)][j]

(* A send that returns a length has sent its piece to the end, and one     *)
(* that returns none has not and is the last, however often and in         *)
(* whatever order the library has failed: no body after a head that was    *)
(* cut, and no head or body taken for sent of which a part is missing.     *)
(* The error -1 is counted as a result, and only because no bytes have     *)
(* been counted before it does the sum come out as a failure.              *)
SendTellsTheTruth ==
    \A c \in Jobs :
        LET job == conn[c] IN
        \A k \in DOMAIN job.returned :
            \/ job.returned[k] = Answer[k] /\ Len(job.written) >= Len(UpTo[k])
            \/ /\ job.returned[k] <= 0 /\ k = Len(job.returned)
               /\ Len(job.written) < Len(UpTo[k])

(* The types, and that a job and the binder agree on its connection.       *)
TlsInv == TypeOK /\ ServedAsListening

(* What the sockets report and what they have sent, over all of an answer. *)
AnswerHonest == SendTellsTheTruth /\ AnswerInOrder

(* Handshake returns whether the handshake has been made.                  *)
HandshakeTellsTheTruth ==
    \A c \in Jobs : conn[c].phase = "receive" /\ Tls(c) => conn[c].shaken

(* A job closes the connection it has taken.                               *)
ConnectionsClosed == \A c \in Connections : conn[c] # Dropped

(* A TLS listener serves no connection in plain.                           *)
NeverInPlain ==
    \A c \in Jobs : conn[c].phase = "receive" /\ Listener(conn[c].at).tls => Tls(c)
=============================================================================
