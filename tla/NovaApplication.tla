---------------------------- MODULE NovaApplication ----------------------------
(***************************************************************************)
(* The sample application behind Skylar, and one browser that has several  *)
(* requests on their way at once.  The application keeps nothing between   *)
(* requests: a session is a cookie that holds its data, signed with a      *)
(* secret, and every request answers with a new one.  What the browser     *)
(* believes is decided by the order in which answers reach it.             *)
(*                                                                         *)
(* A request is executed in one step, because nothing it reads or writes   *)
(* is shared with another one; only the cookies and the answers are.  The  *)
(* tokens NewSessionId draws are all different.                            *)
(***************************************************************************)
EXTENDS Router

CONSTANTS Kinds,          \* what the browser asks for: [method, uri]
          Directories,    \* uris below the document root that are directories
          Files,          \* and those that are files
          CheckedMethods, \* of which Request::IsIdempotent is true
          MaxRequests, Window, MaxRedeploys, MaxExpiries

ASSUME NovaAssumption ==
    /\ Directories \cap Files = {}
    /\ MaxRequests \in Nat /\ Window \in Nat \ {0} /\ MaxRedeploys \in Nat /\ MaxExpiries \in Nat

VARIABLES reqs,     \* the requests, [phase, kind, cookie, token, ...]
          jar,      \* the browser's session cookie
          known,    \* the tokens of the pages it has been given
          secret,   \* which SessionOptions::Secret the application uses
          tokens,   \* how many NewSessionId has drawn
          expiries  \* how many cookies have expired

vars == <<reqs, jar, known, secret, tokens, expiries>>

Ids == 1..MaxRequests

(* Tokens: 1, 2, ... as they are drawn, none, and one that is there but    *)
(* has no text.                                                            *)
NoToken == 0
EmptyToken == -1

-----------------------------------------------------------------------------
(* The constructor of WebApplication.                                      *)
Registrations ==
    << [name |-> "home", action |-> "index", method |-> "get", params |-> <<>>],
       [name |-> "home", action |-> "get", method |-> "get", params |-> <<ParamsTag>>],
       [name |-> "home", action |-> "login", method |-> "get", params |-> <<>>],
       [name |-> "home", action |-> "logout", method |-> "get", params |-> <<>>],
       [name |-> "telegram", action |-> "update", method |-> "post", params |-> <<>>] >>

Routes ==
    LET table[n \in 0..Len(Registrations)] ==
            IF n = 0 THEN <<>>
            ELSE LET r == Registrations[n]
                 IN  AddRoute(table[n - 1], r.method, ActionPath(<<"", "api", r.name>>, r.action, r.params),
                              r.name, r.action).routes
    IN  table[Len(Registrations)]

-----------------------------------------------------------------------------
(* Sessions: the user's name and the csrf token, if they are set.  The     *)
(* history "past" is the set of requests whose sessions made this one.     *)
EmptyData == [user |-> FALSE, csrf |-> NoToken]
EmptySession == [valid |-> FALSE, data |-> EmptyData, past |-> {}]
NoCookie == [secret |-> 0, data |-> EmptyData, past |-> {}]

IsEmpty(session) == session.data = EmptyData

(* Mutant: the data of a cookie are not read back.                         *)
FindForgetful(cookie) == [EmptySession EXCEPT !.valid = TRUE]

(* SessionCookieStorage::Find: a cookie that was signed with another       *)
(* secret gives a session that has an id and no data.                      *)
Find(cookie) ==
    IF cookie.secret # secret THEN [EmptySession EXCEPT !.valid = TRUE]
    ELSE [valid |-> TRUE, data |-> cookie.data, past |-> cookie.past]

(* ControllerFactory::SetSession *)
SetSession(cookie) == IF cookie = NoCookie THEN EmptySession ELSE Find(cookie)

(* SessionCookieStorage::Store and StoreSessionCookie: the cookie is the   *)
(* session's data, or its id if it has none.                               *)
Store(session) ==
    IF IsEmpty(session) THEN NoCookie
    ELSE [secret |-> secret, data |-> session.data, past |-> session.past]

SetCsrfProtectionData(session, token) == [session EXCEPT !.data.csrf = token]

(* Session::GetValue takes the key with Storage.at, whether it is there or *)
(* not.  GetAuthToken expects an empty text then, which is what this       *)
(* gives; Abort is for an `at' that asserts.                               *)
GetAuthToken(session) == IF session.data.csrf = NoToken THEN EmptyToken ELSE session.data.csrf

(* CheckRequest, which looks for x-csrftoken and for authenticity_token,   *)
(* and asks whether there is one, not whether it is empty.                 *)
CheckRequest(request, session) == request.token # NoToken /\ request.token = GetAuthToken(session)

IsUserAuthenticated(session) == session.data.user
Login(session) == IF IsUserAuthenticated(session) THEN session ELSE [session EXCEPT !.data.user = TRUE]
Logout(session) == [session EXCEPT !.data.user = FALSE]

-----------------------------------------------------------------------------
(* Responses: status 0 is StatusCode::Empty.                               *)
EmptyResponse == [status |-> 0, headers |-> {}, cookie |-> NoCookie]

AddHeader(response, header) == [response EXCEPT !.headers = @ \cup {header}]
Ok(response) == [response EXCEPT !.status = 200]
Redirect(response) == AddHeader([response EXCEPT !.status = 302], "location")

(* Mutant: the status of a file is set as that of a page is.               *)
PhysicalFileOk(response) == AddHeader([response EXCEPT !.status = 200], "x-sendfile")

PhysicalFile(response) == AddHeader([response EXCEPT !.status = 0], "x-sendfile")

AddCookie(response, cookie) == AddHeader([response EXCEPT !.cookie = cookie], "set-cookie")

(* The actions of HomeController and TelegramController.                   *)
InvokeAction(routing, session, response) ==
    LET result(s, r) == [session |-> s, response |-> r]
        action == routing.action
    IN  CASE action = "index"  -> result(session, Ok(response))
          [] action = "get"    -> result(session, IF routing.parameters = <<>> THEN Redirect(response)
                                                                              ELSE PhysicalFile(response))
          [] action = "login"  -> result(Login(session), Ok(response))
          [] action = "logout" -> result(Logout(session), response)
          [] action = "update" -> result(session, Ok(AddHeader(response, "connection")))

(* Protocol::SendResponse, if the response is not empty.                   *)
SendResponse(response, ran) ==
    [response |-> response, ran |-> ran, sent |-> response.status # 0]

(* A checked request that carries no token leaves no x-frame-options.      *)
Checked(request) == request.kind.method \in CheckedMethods
Frame(request, response) ==
    IF Checked(request) /\ request.token # NoToken THEN AddHeader(response, "x-frame-options") ELSE response

(* Mutant: the session's token is renewed before the request is checked.   *)
SessionForCheckRenewed(request) == SetCsrfProtectionData(SetSession(request.cookie), tokens + 1)

SessionForCheck(request) == SetSession(request.cookie)

(* Mutant: the session is stored before its action has run.                *)
StoredSessionEarly(session, acted) == session

StoredSession(session, acted) == acted

ExecuteController(i, request, routing) ==
    LET verified == Checked(request) => CheckRequest(request, SessionForCheck(request))
        renewed == [SetCsrfProtectionData([SetSession(request.cookie) EXCEPT !.valid = TRUE], tokens + 1)
                        EXCEPT !.past = @ \cup {i}]
        acted == InvokeAction(routing, renewed, Frame(request, EmptyResponse))
        cookie == Store(StoredSession(renewed, acted.session))
    IN  IF verified THEN SendResponse(AddCookie(acted.response, cookie), TRUE)
                    ELSE SendResponse(Frame(request, EmptyResponse), FALSE)

(* The rest of ProcessRequest, for a request no route fits.                *)
Unmapped(request) ==
    LET uri == request.kind.uri
        response ==
            CASE request.kind.method # "get" -> [EmptyResponse EXCEPT !.status = 404]
              [] request.kind.method = "get" /\ uri \in Directories -> Ok(EmptyResponse)
              [] request.kind.method = "get" /\ uri \in Files -> AddHeader(EmptyResponse, "x-sendfile")
              [] OTHER -> EmptyResponse
    IN  SendResponse(response, FALSE)

(* What Router::FindRoute gives for each request.                          *)
Routed == [kind \in Kinds |-> FindRoute(Routes, kind.method, kind.uri)]

ProcessRequest(i, request) ==
    LET routing == Routed[request.kind]
    IN  IF routing.valid THEN ExecuteController(i, request, routing) ELSE Unmapped(request)

-----------------------------------------------------------------------------
Unsent == [phase |-> "unsent"]
InFlight == {i \in Ids : reqs[i].phase # "unsent" /\ reqs[i].got = "nothing" /\
                         ~(reqs[i].phase = "finished" /\ reqs[i].answers = 0)}

Init ==
    /\ reqs = [i \in Ids |-> Unsent]
    /\ jar = NoCookie /\ known = {} /\ secret = 1 /\ tokens = 0 /\ expiries = 0

Send(i, kind, token) ==
    /\ reqs[i] = Unsent /\ \A j \in 1..i - 1 : reqs[j] # Unsent
    /\ Cardinality(InFlight) < Window
    /\ kind.method \notin CheckedMethods => token = NoToken
    /\ reqs' = [reqs EXCEPT ![i] =
          [phase |-> "sent", kind |-> kind, cookie |-> jar, token |-> token, ran |-> FALSE,
           secret |-> 0, headers |-> {}, answers |-> 0, answer |-> NoCookie, got |-> "nothing"]]
    /\ UNCHANGED <<jar, known, secret, tokens, expiries>>

(* RequestContext::Execute.  SerializeResponseData hands the headers to    *)
(* Skylar, in a buffer if there are any.                                   *)
Execute(i) ==
    LET done == ProcessRequest(i, reqs[i])
    IN  /\ reqs[i].phase = "sent"
        /\ reqs' = [reqs EXCEPT ![i].phase = "executed",
                                ![i].ran = done.ran,
                                ![i].headers = done.response.headers,
                                ![i].answers = IF done.sent THEN 1 ELSE 0,
                                ![i].answer = IF done.sent THEN done.response.cookie ELSE NoCookie,
                                ![i].secret = secret]
        /\ tokens' = IF done.ran THEN tokens + 1 ELSE tokens
        /\ UNCHANGED <<jar, known, secret, expiries>>

(* The token of a session without one is asked for, and `at' asserts: the  *)
(* process ends with everything that was in it.                            *)
Abort(i) ==
    /\ reqs[i].phase = "sent" /\ Routed[reqs[i].kind].valid
    /\ Checked(reqs[i]) /\ reqs[i].token # NoToken
    /\ SessionForCheck(reqs[i]).data.csrf = NoToken
    /\ reqs' = [reqs EXCEPT ![i].phase = "aborted"]
    /\ UNCHANGED <<jar, known, secret, tokens, expiries>>

Alive == \A i \in Ids : reqs[i].phase # "aborted"

CleanupResponseData(headers) == {}

(* The rest of RunApplication, which has the buffer freed, and Sendfile,   *)
(* whose answer has none of the application's headers.                     *)
Finish(i) ==
    /\ reqs[i].phase = "executed"
    /\ reqs' = [reqs EXCEPT ![i].phase = "finished",
                            ![i].headers = CleanupResponseData(@),
                            ![i].answers = IF "x-sendfile" \in reqs[i].headers THEN @ + 1 ELSE @]
    /\ UNCHANGED <<jar, known, secret, tokens, expiries>>

(* An answer reaches the browser, whatever else is on its way.             *)
Deliver(i) ==
    /\ reqs[i].phase \in {"executed", "finished"} /\ reqs[i].answers > 0 /\ reqs[i].got = "nothing"
    /\ reqs' = [reqs EXCEPT ![i].got = "answer"]
    /\ IF reqs[i].answer = NoCookie THEN UNCHANGED <<jar, known>>
       ELSE jar' = reqs[i].answer /\ known' = known \cup {reqs[i].answer.data.csrf}
    /\ UNCHANGED <<secret, tokens, expiries>>

(* An answer is lost with its connection.                                  *)
Lose(i) ==
    /\ reqs[i].phase \in {"executed", "finished"} /\ reqs[i].answers > 0 /\ reqs[i].got = "nothing"
    /\ reqs' = [reqs EXCEPT ![i].got = "error"]
    /\ UNCHANGED <<jar, known, secret, tokens, expiries>>

(* The cookie's ExpirationDate has come.                                   *)
Expire ==
    /\ expiries < MaxExpiries /\ jar # NoCookie
    /\ jar' = NoCookie /\ expiries' = expiries + 1
    /\ UNCHANGED <<reqs, known, secret, tokens>>

(* An update brings a library with another secret; Skylar replaces it when *)
(* no request is in the application.                                       *)
Redeploy ==
    /\ secret <= MaxRedeploys /\ \A i \in Ids : reqs[i].phase # "executed"
    /\ secret' = secret + 1
    /\ UNCHANGED <<reqs, jar, known, tokens, expiries>>

Next ==
    \/ \E i \in Ids, kind \in Kinds, token \in known \cup {NoToken, EmptyToken} : Send(i, kind, token)
    \/ \E i \in Ids : Alive /\ (Execute(i) \/ Abort(i) \/ Finish(i))
    \/ \E i \in Ids : Deliver(i) \/ Lose(i)
    \/ Expire \/ Redeploy

Spec == Init /\ [][Next]_vars

-----------------------------------------------------------------------------
Executed(i) == reqs[i].phase \in {"executed", "finished"}
IsLogin(kind) == Routed[kind].action = "login"

(* Types; a cookie in the jar is one the application has made, and the     *)
(* buffer of the headers lives from Execute to CleanupResponseData.        *)
TypeOK ==
    /\ \A i \in Ids : reqs[i] # Unsent =>
          /\ reqs[i].kind \in Kinds /\ reqs[i].token \in EmptyToken..tokens
          /\ reqs[i].got \in {"nothing", "answer", "error"}
          /\ reqs[i].headers # {} => reqs[i].phase = "executed"
    /\ known \subseteq 1..tokens /\ secret \in 1..MaxRedeploys + 1 /\ expiries \in 0..MaxExpiries
    /\ jar # NoCookie => jar.secret \in 1..secret /\ jar.data.csrf \in known

(* A request is answered once, by the application or by Skylar with a      *)
(* file.  It is not answered at all when its token is refused, when it     *)
(* asks for a file that is missing, and when its action sets no status.    *)
AnsweredOnce ==
    \A i \in Ids : reqs[i].phase = "finished" =>
        LET kind == reqs[i].kind
            silent == \/ Routed[kind].valid /\ ~reqs[i].ran
                      \/ Routed[kind].action = "logout"
                      \/ ~Routed[kind].valid /\ kind.method = "get" /\ kind.uri \notin Directories \cup Files
        IN  reqs[i].answers = IF silent THEN 0 ELSE 1

(* The token a request must carry: that of its cookie, or an empty one if  *)
(* the application cannot read a session from it.                          *)
TokenAsked(request) ==
    IF request.cookie # NoCookie /\ request.cookie.secret = request.secret
    THEN request.cookie.data.csrf ELSE EmptyToken

(* The action of a checked request runs exactly when the token it carries  *)
(* is the one its own cookie asks for, however many requests have renewed  *)
(* the token since; and one whose cookie gives no session runs its action  *)
(* only if its token is there and empty.                                   *)
TokenDecides ==
    \A i \in Ids : Executed(i) /\ Checked(reqs[i]) /\ Routed[reqs[i].kind].valid =>
        (reqs[i].ran <=> reqs[i].token = TokenAsked(reqs[i]))

(* The user of a session is logged in when one of the requests it comes    *)
(* from was a login.                                                       *)
LoginIsCarried ==
    jar # NoCookie => (jar.data.user <=> \E i \in jar.past : IsLogin(reqs[i].kind))

(* The types, and that a session is what its requests have made of it.     *)
NovaInv == TypeOK /\ LoginIsCarried

(* An answer takes a login away only if its request was sent with an older *)
(* cookie, before the login had come back, or when the secret has changed. *)
LoginLostOnlyToOlderRequest ==
    [][\A i \in Ids :
          reqs[i] # Unsent /\ reqs[i].got = "nothing" /\ reqs'[i].got = "answer" /\ jar.data.user /\ ~jar'.data.user =>
              reqs[i].cookie # jar \/ reqs[i].secret # jar.secret]_vars

(* "Logs user session out.": no session that comes from a logout, and from *)
(* no later login, has a user.  Nobody is told of the session without one. *)
LogoutForgets ==
    \A i \in Ids : reqs[i].phase = "finished" /\ Routed[reqs[i].kind].action = "logout" /\ reqs[i].cookie = jar
        => ~jar.data.user

(* The action of a checked request runs only for a session's own token.    *)
TokenNeeded ==
    \A i \in Ids : Executed(i) /\ Checked(reqs[i]) /\ reqs[i].ran => reqs[i].token # EmptyToken

(* No request ends the process.                                            *)
NeverAborts == Alive

(* Every request is answered.                                              *)
AlwaysAnswered == \A i \in Ids : reqs[i].phase = "finished" => reqs[i].answers > 0

(* A login stays until the cookie expires.                                 *)
LoginSticks == [][jar.data.user => jar'.data.user \/ jar' = NoCookie]_vars
=============================================================================
