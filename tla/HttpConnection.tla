--------------------------- MODULE HttpConnection ---------------------------
(***************************************************************************)
(* One connection in the hands of a job: CreateProto chooses the protocol, *)
(* ProtocolHttp::Process reads requests from the socket until one of them  *)
(* ends the connection or switches its protocol, and the dispatcher closes *)
(* it.  What the client sends is a stream of units that arrives in packets *)
(* of any size; stringBuffer holds what has arrived and is not yet used.   *)
(*                                                                         *)
(* A request is two units of head, the first line and the rest up to the   *)
(* blank line that ends it, and its body, a unit for every piece that a    *)
(* packet may end after.  Its content-length header is the length of its   *)
(* body, and no body holds the end of a line.                              *)
(***************************************************************************)
EXTENDS Integers, Sequences, FiniteSets

CONSTANTS Scripts,       \* what the client may send: sequences of requests
          Negotiations,  \* "plain" (no TLS), "http/1.1", "h2", "failed"
          BufferSize,    \* RequestBufferSize, in units
          RequestMaxSize,\* of the application, in units; 0 is no limit
          KeepAlive      \* KeepAliveTimeout of a new Http::Request

ASSUME HttpAssumption ==
    /\ \A s \in Scripts : s \in Seq([body : Nat, type : {"none", "form", "json", "other"},
                                     host : {"known", "unknown"},
                                     connection : SUBSET {"keep-alive", "upgrade"}])
    /\ Negotiations \subseteq {"plain", "http/1.1", "h2", "failed"}
    /\ BufferSize \in Nat \ {0} /\ RequestMaxSize \in Nat /\ KeepAlive \in Nat \ {0}

VARIABLES script,     \* the requests of this client
          pc,         \* where the job is
          protocol,   \* "none", "http" or "websocket"
          secure,     \* it has a TLS session
          socket,     \* "open" or "closed"
          rest,       \* units of the stream that are not received
          buffer,     \* stringBuffer
          cur,        \* the request GetRequestHeaders has found
          content,    \* the part of its body the parser has been given
          received,   \* ContentDesc::BytesReceived
          params,     \* request.ConnectionParams
          keepAlive,  \* request.KeepAliveTimeout
          served,     \* history: the runs of an application
          errors      \* history: the statuses the server has sent itself

connection == <<script, protocol, secure, socket>>
request == <<cur, content, received>>
history == <<served, errors>>
vars == <<pc, connection, rest, buffer, request, params, keepAlive, history>>

-----------------------------------------------------------------------------
Least(a, b) == IF a < b THEN a ELSE b
Ahead(s, n) == SubSeq(s, 1, n)
Behind(s, n) == SubSeq(s, n + 1, Len(s))

Head1(i) == [req |-> i, part |-> "line"]
Head2(i) == [req |-> i, part |-> "blank"]
Body(i, n) == [k \in 1..n |-> [req |-> i, part |-> "body"]]
Units(i, r) == <<Head1(i), Head2(i)>> \o Body(i, r.body)

Stream(s) ==
    LET upTo[n \in 0..Len(s)] == IF n = 0 THEN <<>> ELSE upTo[n - 1] \o Units(n, s[n])
    IN  upTo[Len(s)]

NoRequest == [req |-> 0, clean |-> TRUE]
Of(c) == script[c.req]

Init ==
    /\ script \in Scripts
    /\ pc = "connect" /\ protocol = "none" /\ secure = FALSE /\ socket = "open"
    /\ rest = Stream(script) /\ buffer = <<>>
    /\ cur = NoRequest /\ content = <<>> /\ received = 0
    /\ params = {} /\ keepAlive = KeepAlive
    /\ served = <<>> /\ errors = <<>>

-----------------------------------------------------------------------------
(* CreateProto.  HTTP/2 is negotiated but has no protocol: the job gives   *)
(* the connection up, and nobody closes its socket.                        *)
CreateProto ==
    /\ pc = "connect"
    /\ \E negotiated \in Negotiations :
       /\ secure' = (negotiated # "plain")
       /\ \/ negotiated = "h2" /\ pc' = "done" /\ UNCHANGED protocol
          \/ negotiated # "h2" /\ pc' = "receive" /\ protocol' = "http"
    /\ UNCHANGED <<script, socket, rest, buffer, request, params, keepAlive, history>>

(* Mutant: a refusal does not end the connection.                          *)
SendStatusAndGoOn(status) ==
    /\ errors' = Append(errors, [status |-> status, after |-> Len(served), had |-> Len(buffer), left |-> Len(rest)])
    /\ pc' = "receive"

(* SendStatus and the return from RunProtocol that follows it.             *)
SendStatus(status) ==
    /\ errors' = Append(errors, [status |-> status, after |-> Len(served), had |-> Len(buffer), left |-> Len(rest)])
    /\ pc' = "loop"

(* GetPacketAsync: a packet of n units, or no packet: 0 from a client that *)
(* has closed, -1 when the time is over or the socket fails.               *)
(* SocketDefault also returns 0 when the engine sets no size, so data may  *)
(* follow a 0.                                                             *)
Packet(n, limit) == n \in 1..Least(limit, Len(rest))
NoPacket == {-1, 0}

GetRequest ==
    /\ pc = "receive"
    /\ \/ \E n \in 1..Len(rest) :
             /\ Packet(n, BufferSize)
             /\ buffer' = buffer \o Ahead(rest, n)
             /\ rest' = Behind(rest, n)
             /\ pc' = "headers"
       \/ \E size \in NoPacket :
             /\ pc' = IF size < 0 /\ buffer = <<>> THEN "loop" ELSE "headers"
             /\ UNCHANGED <<buffer, rest>>
    /\ UNCHANGED <<connection, request, params, keepAlive, history>>

(* The end of the first head in the buffer, if there is one.  What stands  *)
(* before that head is taken for a part of its first line.                 *)
Ends == {n \in 1..Len(buffer) : buffer[n].part = "blank"}
HeadersEnd == CHOOSE n \in Ends : \A m \in Ends : n <= m

GetRequestHeaders ==
    /\ pc = "headers"
    /\ \/ /\ Ends = {}
          /\ SendStatus(400)
          /\ UNCHANGED <<buffer, cur>>
       \/ /\ Ends # {}
          /\ cur' = [req |-> buffer[HeadersEnd].req, clean |-> buffer[1].part = "line"]
          /\ buffer' = Behind(buffer, HeadersEnd)
          /\ pc' = "lookup"
          /\ UNCHANGED errors
    /\ UNCHANGED <<connection, rest, content, received, params, keepAlive, served>>

GetApplicationSettingsForRequest ==
    /\ pc = "lookup"
    /\ \/ Of(cur).host = "unknown" /\ SendStatus(404)
       \/ Of(cur).host = "known" /\ pc' = "data" /\ UNCHANGED errors
    /\ UNCHANGED <<connection, rest, buffer, request, params, keepAlive, served>>

-----------------------------------------------------------------------------
(* ParseFromBuffer of the content types.  ApplicationJson takes what it    *)
(* gets first for the whole content.                                       *)
Parsed(type, got, full, new) == IF type = "json" /\ new # <<>> THEN full ELSE got

(* Mutant: what follows the content in the buffer goes with it.            *)
TakeContentAll ==
    /\ content' = Ahead(buffer, Least(Len(buffer), Of(cur).body))
    /\ buffer' = <<>>
    /\ received' = Parsed(Of(cur).type, Len(content'), Of(cur).body, content')

(* The start of ParseRequestContentType: the content that has come with    *)
(* the head, up to its length.                                             *)
TakeContent ==
    /\ content' = Ahead(buffer, Least(Len(buffer), Of(cur).body))
    /\ buffer' = Behind(buffer, Least(Len(buffer), Of(cur).body))
    /\ received' = Parsed(Of(cur).type, Len(content'), Of(cur).body, content')

TooLarge == RequestMaxSize > 0 /\ RequestMaxSize < Of(cur).body

(* GetRequestData.  Without a content type there is no content, whatever   *)
(* the content-length header says.                                         *)
GetRequestData ==
    /\ pc = "data"
    /\ \/ /\ Of(cur).type = "none"
          /\ pc' = "run" /\ content' = <<>> /\ received' = 0
          /\ UNCHANGED <<buffer, errors>>
       \/ /\ Of(cur).type = "other"
          /\ SendStatus(501)
          /\ UNCHANGED <<buffer, content, received>>
       \/ /\ Of(cur).type \in {"form", "json"} /\ TooLarge
          /\ SendStatus(413)
          /\ UNCHANGED <<buffer, content, received>>
       \/ /\ Of(cur).type \in {"form", "json"} /\ ~TooLarge
          /\ TakeContent
          /\ pc' = "content"
          /\ UNCHANGED errors
    /\ UNCHANGED <<connection, rest, cur, params, keepAlive, served>>

(* Mutant: one unit too few is enough.                                     *)
ContentCompleteEarly == received + 1 >= Of(cur).body

ContentComplete == received >= Of(cur).body

(* Mutant: a packet of no size, from a client that has closed, is not      *)
(* taken for the end.                                                      *)
ReadContentPatiently ==
    \/ \E n \in 1..Len(rest) :
          /\ Packet(n, Of(cur).body - received)
          /\ content' = content \o Ahead(rest, n)
          /\ rest' = Behind(rest, n)
          /\ received' = Parsed(Of(cur).type, received + n, Of(cur).body, Ahead(rest, n))
          /\ UNCHANGED <<pc, errors>>
    \/ rest' = <<>> /\ UNCHANGED <<content, received, pc, errors>>

(* The body of ParseRequestContentType's loop.                             *)
ReadContent ==
    \/ \E n \in 1..Len(rest) :
          /\ Packet(n, Of(cur).body - received)
          /\ content' = content \o Ahead(rest, n)
          /\ rest' = Behind(rest, n)
          /\ received' = Parsed(Of(cur).type, received + n, Of(cur).body, Ahead(rest, n))
          /\ UNCHANGED <<pc, errors>>
    \/ /\ SendStatus(500)
       /\ UNCHANGED <<content, rest, received>>

ParseRequestContentType ==
    /\ pc = "content"
    /\ \/ ContentComplete /\ pc' = "run" /\ UNCHANGED <<content, rest, received, errors>>
       \/ ~ContentComplete /\ ReadContent
    /\ UNCHANGED <<connection, buffer, cur, params, keepAlive, served>>

(* IncomingData of the request the application is given: the parser has    *)
(* filled that of requestData, a copy.                                     *)
IncomingData == <<>>

-----------------------------------------------------------------------------
(* What an application may answer: its exit code, the token of its         *)
(* connection header and of its upgrade header, and whether it names a     *)
(* file to send.  It writes its own answer to the socket.                  *)
Responses ==
    [success : {FALSE}, connection : {"none"}, upgrade : {"none"}, sendfile : {FALSE}]
    \cup [success : {TRUE}, connection : {"none", "keep-alive"}, upgrade : {"none"}, sendfile : BOOLEAN]
    \cup [success : {TRUE}, connection : {"upgrade"}, upgrade : {"none", "h2", "h2c", "websocket"}, sendfile : {FALSE}]

Agreed(response) == response.connection \in Of(cur).connection

CheckRequestUpgrade(upgrade) ==
    CASE upgrade = "websocket"        -> {"LeaveOpen"}
      [] upgrade = "h2" /\ secure     -> {"Reuse"}
      [] upgrade = "h2c" /\ ~secure   -> {"Reuse"}
      [] OTHER                        -> {}

(* Mutant: the connection is kept while the number is not below zero.      *)
CheckRequestKeepAliveOnce(left) == IF left >= 0 THEN {"Reuse"} ELSE {}

CheckRequestKeepAlive(left) == IF left > 0 THEN {"Reuse"} ELSE {}

GetConnectionParams(response) ==
    IF ~response.success \/ ~Agreed(response)
    THEN params' = params /\ keepAlive' = keepAlive
    ELSE IF response.connection = "keep-alive"
         THEN /\ keepAlive' = keepAlive - 1
              /\ params' = params \cup CheckRequestKeepAlive(keepAlive - 1)
         ELSE /\ params' = params \cup CheckRequestUpgrade(response.upgrade)
              /\ keepAlive' = keepAlive

(* The max of the keep-alive header Sendfile adds, -1 for a "connection:   *)
(* close" or no file.                                                      *)
KeepAliveHeader(response) ==
    IF response.sendfile /\ "Reuse" \in params' THEN keepAlive' ELSE -1

(* RunApplication, and what RunProtocol does after it: GetConnectionParams *)
(* and Sendfile, which tells a client whose connection is kept how many    *)
(* more requests it may send.                                              *)
RunApplication ==
    /\ pc = "run"
    /\ \E response \in Responses :
          /\ GetConnectionParams(response)
          /\ served' = Append(served,
                [req |-> cur.req, clean |-> cur.clean, parsed |-> content, incoming |-> IncomingData,
                 kept |-> response.success /\ response.connection = "keep-alive" /\ Agreed(response),
                 max |-> KeepAliveHeader(response),
                 told |-> response.sendfile])
    /\ pc' = "loop"
    /\ UNCHANGED <<connection, rest, buffer, request, errors>>

(* The end of a turn of Process's loop, and the beginning of the next.     *)
NextTurn ==
    /\ pc = "loop"
    /\ \/ /\ "Reuse" \in params
          /\ params' = {} /\ pc' = "receive"
          /\ UNCHANGED protocol
       \/ /\ "Reuse" \notin params
          /\ protocol' = IF "LeaveOpen" \in params THEN "websocket" ELSE protocol
          /\ pc' = "close"
          /\ UNCHANGED params
    /\ UNCHANGED <<script, secure, socket, rest, buffer, request, keepAlive, history>>

(* protocol->Close(): that of ProtocolWebSocket does nothing.              *)
Close ==
    /\ pc = "close"
    /\ socket' = IF protocol = "http" THEN "closed" ELSE socket
    /\ pc' = "done"
    /\ UNCHANGED <<script, protocol, secure, rest, buffer, request, params, keepAlive, history>>

RunProtocol == GetRequest \/ GetRequestHeaders \/ GetApplicationSettingsForRequest
                 \/ GetRequestData \/ ParseRequestContentType \/ RunApplication

Next == CreateProto \/ RunProtocol \/ NextTurn \/ Close

SafeSpec == Init /\ [][Next]_vars

(* Where the job may have to wait for its client without a limit of time:  *)
(* an answer is sent, by SendStatus or the application, SSL_read is called *)
(* again for each part of a record, or Close waits for room to write.      *)
AwaitsClient ==
    \/ errors' # errors
    \/ pc \in {"run", "close"}
    \/ secure /\ pc \in {"receive", "content"}

(* The job is a task of the engine, and a receive in plain has a timeout.  *)
(* A client may hold the job anywhere else.                                *)
Spec == SafeSpec /\ WF_vars(Next /\ ~AwaitsClient)

-----------------------------------------------------------------------------
(* Types, and what the parser's count means: it never exceeds the length   *)
(* of the content, so that GetPacketAsync is never asked for the next      *)
(* request's units.                                                        *)
TypeOK ==
    /\ pc \in {"connect", "receive", "headers", "lookup", "data", "content", "run", "loop", "close", "done"}
    /\ protocol \in {"none", "http", "websocket"} /\ socket \in {"open", "closed"}
    /\ secure \in BOOLEAN
    /\ params \subseteq {"Reuse", "LeaveOpen"}
    /\ keepAlive \in 0..KeepAlive
    /\ pc = "content" => received \in 0..Of(cur).body

(* The requests an application is run for are the client's, whole, each    *)
(* once and in order: however the stream is cut into packets, a request    *)
(* leaves in the buffer what belongs to the next one, and nothing else.    *)
InSync == \A k \in DOMAIN served : served[k].req = k /\ served[k].clean

(* The types, and the stream in step: in particular no packet makes the    *)
(* count of the content received pass its length.                          *)
HttpInv == TypeOK /\ InSync

(* An application is run when the parser has been given all of the content *)
(* its request announced (ParseRequestContentType).                        *)
ContentWhole ==
    \A k \in DOMAIN served :
        LET r == served[k].req IN
        script[r].type \in {"form", "json"} => served[k].parsed = Body(r, script[r].body)

(* A status the server sends itself is the last thing that happens on its  *)
(* connection: the request it refuses is not run, and no other one is.     *)
RefusalIsLast ==
    \A k \in DOMAIN errors : k = 1 /\ errors[k].after = Len(served)

(* The max of the keep-alive header Sendfile adds is kept: no more         *)
(* requests than that follow on the connection, and none after a           *)
(* "connection: close", unless an upgrade keeps it open.                   *)
PromiseKept ==
    \A j, k \in DOMAIN served :
        /\ j < k /\ served[j].told
        /\ \A i \in j..k - 1 : served[i].kept
        => k - j <= served[j].max

(* The client takes its answers and sends the records it has begun.        *)
ClientKeepsUp == WF_vars(Next /\ AwaitsClient)

(* Every connection of such a client comes to its end, as slow or          *)
(* talkative as the client is otherwise: a packet brings the loops nearer  *)
(* to their end and the lack of one ends them.                             *)
EventuallyDone == ClientKeepsUp => <>(pc = "done")

(* The timeouts the calls on the socket are given end every connection.    *)
TimeoutsSuffice == <>(pc = "done")

(* The data the content type has parsed is in the request the application  *)
(* is given.                                                               *)
ParsedDataIsSaved == \A k \in DOMAIN served : served[k].incoming = served[k].parsed

(* A job that is done with a connection has closed its socket.             *)
ClosedAtTheEnd == pc = "done" => socket = "closed"

(* A bad request is reported to a client that has sent something.          *)
NoAnswerToNothing == \A k \in DOMAIN errors : errors[k].status = 400 => errors[k].had > 0

(* A head is not called bad while the rest of it is on its way.            *)
HeadMayBeSplit ==
    \A k \in DOMAIN errors :
        errors[k].status = 400 /\ errors[k].had > 0 => errors[k].left = 0
=============================================================================
