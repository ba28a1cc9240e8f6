------------------------------ MODULE Nova_proof ------------------------------
(***************************************************************************)
(* Proofs about NovaApplication and about Controllers, the tables through  *)
(* which its requests find an action.                                      *)
(***************************************************************************)
EXTENDS NovaApplication, Controllers, TLAPS, WellFoundedInduction, SequenceTheorems, FiniteSetTheorems

-----------------------------------------------------------------------------
(* A request with a route comes to one of the actions of the controllers.  *)

Actions == {"index", "get", "login", "logout", "update"}

(* The table is a sequence of at most n routes that lead to actions.       *)
IsSeq(table) == \E A : table \in Seq(A)

Leads(table, n) ==
    /\ IsSeq(table)
    /\ Len(table) <= n /\ \A i \in 1..Len(table) : table[i].action \in Actions

LEMMA AddRouteLeads ==
    ASSUME NEW table, NEW n \in Nat, Leads(table, n), NEW method, NEW path, NEW controller, NEW action \in Actions
    PROVE  Leads(AddRoute(table, method, path, controller, action).routes, n + 1)
<1>1. PICK A : table \in Seq(A)
  BY DEF Leads, IsSeq
<1> DEFINE new == AddRoute(table, method, path, controller, action).routes
           components == ParsePathForRoute(path)
           route == [method     |-> method,
                     components |-> components,
                     paramCount |-> Cardinality({i \in DOMAIN components : components[i] = ParamTag}),
                     custom     |-> Contains(components, ParamsTag),
                     fixed      |-> FixedIndexes(components),
                     controller |-> Lower[controller],
                     action     |-> action]
<1>2. (new = table \/ new = Append(table, route)) /\ route.action = action
  BY DEF AddRoute
<1> HIDE DEF new, route
<1> DEFINE B == A \cup {route}
<1>3. table \in Seq(B) /\ route \in B
  BY <1>1
<1> HIDE DEF B
<1>4. ASSUME new = table
      PROVE  Leads(new, n + 1)
  <2>1. Len(table) \in Nat
    BY <1>1
  <2> QED BY <1>4, <2>1 DEF Leads
<1>5. ASSUME new = Append(table, route)
      PROVE  Leads(new, n + 1)
  <2>1. new \in Seq(B) /\ Len(new) = Len(table) + 1 /\ Len(table) \in Nat /\ new[Len(table) + 1] = route
            /\ \A i \in 1..Len(table) : new[i] = table[i]
    BY <1>3, <1>5
  <2>2. Len(table) <= n /\ \A i \in 1..Len(table) : table[i].action \in Actions
    BY DEF Leads
  <2>3. Len(new) <= n + 1
    BY <2>1, <2>2
  <2>4. \A i \in 1..Len(new) : new[i].action \in Actions
    BY <1>2, <2>1, <2>2
  <2>5. IsSeq(new)
    BY <2>1 DEF IsSeq
  <2> QED BY <2>3, <2>4, <2>5 DEF Leads
<1> QED BY <1>2, <1>4, <1>5 DEF new

LEMMA RoutesLead == Leads(Routes, 5)
<1> DEFINE Add(t, n) == LET r == Registrations[n]
                        IN  AddRoute(t, r.method, ActionPath(<<"", "api", r.name>>, r.action, r.params),
                                     r.name, r.action).routes
           t1 == Add(<<>>, 1)
           t2 == Add(t1, 2)
           t3 == Add(t2, 3)
           t4 == Add(t3, 4)
           t5 == Add(t4, 5)
           Table(f) == f = [n \in 0..Len(Registrations) |-> IF n = 0 THEN <<>> ELSE Add(f[n - 1], n)]
<1>1. Len(Registrations) = 5 /\ \A n \in 1..5 : Registrations[n].action \in Actions
  BY DEF Registrations, Actions
<1>2. Routes = (CHOOSE f : Table(f))[5]
  BY <1>1 DEF Routes
<1>3. ASSUME NEW t, NEW n \in Nat, Leads(t, n), NEW k \in 1..5
      PROVE  Leads(Add(t, k), n + 1)
  BY <1>1, <1>3, AddRouteLeads
<1> HIDE DEF Add
<1>4. Leads(<<>>, 0)
  <2>1. <<>> \in Seq(Actions)
    OBVIOUS
  <2> QED BY <2>1 DEF Leads, IsSeq
<1>5. Leads(t1, 1) /\ Leads(t2, 2) /\ Leads(t3, 3) /\ Leads(t4, 4) /\ Leads(t5, 5)
  <2>1. Leads(t1, 1)
    BY <1>3, <1>4
  <2>2. Leads(t2, 2)
    BY <1>3, <2>1
  <2>3. Leads(t3, 3)
    BY <1>3, <2>2
  <2>4. Leads(t4, 4)
    BY <1>3, <2>3
  <2>5. Leads(t5, 5)
    BY <1>3, <2>4
  <2> QED BY <2>1, <2>2, <2>3, <2>4, <2>5
<1> HIDE DEF t1, t2, t3, t4, t5
<1>6. Table([n \in 0..5 |-> IF n = 0 THEN <<>> ELSE IF n = 1 THEN t1 ELSE IF n = 2 THEN t2
                            ELSE IF n = 3 THEN t3 ELSE IF n = 4 THEN t4 ELSE t5])
  <2> DEFINE f == [n \in 0..5 |-> IF n = 0 THEN <<>> ELSE IF n = 1 THEN t1 ELSE IF n = 2 THEN t2
                            ELSE IF n = 3 THEN t3 ELSE IF n = 4 THEN t4 ELSE t5]
  <2>1. f[0] = <<>> /\ f[1] = t1 /\ f[2] = t2 /\ f[3] = t3 /\ f[4] = t4 /\ f[5] = t5 /\ f = [n \in 0..5 |-> f[n]]
    OBVIOUS
  <2> HIDE DEF f
  <2>2. \A n \in 1..5 : f[n] = Add(f[n - 1], n)
    BY <2>1 DEF t1, t2, t3, t4, t5
  <2>3. Table(f)
    BY <1>1, <2>1, <2>2
  <2> QED BY <2>3 DEF f
<1>7. Table(CHOOSE f : Table(f))
  BY <1>6
<1> DEFINE T == CHOOSE f : Table(f)
<1>8. T = [n \in 0..5 |-> IF n = 0 THEN <<>> ELSE Add(T[n - 1], n)]
  BY <1>1, <1>7
<1> HIDE DEF T
<1>9. T[0] = <<>> /\ T[1] = t1 /\ T[2] = t2 /\ T[3] = t3 /\ T[4] = t4 /\ T[5] = t5
  BY <1>8 DEF t1, t2, t3, t4, t5
<1> QED BY <1>2, <1>5, <1>9 DEF T

LEMMA RoutedLeads ==
    ASSUME NEW kind \in Kinds
    PROVE  /\ Routed[kind].valid \in BOOLEAN
           /\ Routed[kind].valid => Routed[kind].action \in Actions
           /\ ~Routed[kind].valid => Routed[kind].action = ""
<1> DEFINE components == Cull(kind.uri)
           fitting == {i \in DOMAIN Routes : Fits(Routes[i], kind.method, components)}
<1>1. Routed[kind] = FindByComponents(Routes, kind.method, components)
  BY DEF Routed, FindRoute
<1>2. CASE fitting = {}
  <2>1. Routed[kind] = NotFound
    BY <1>1, <1>2 DEF FindByComponents
  <2>2. NotFound.valid = FALSE /\ NotFound.action = ""
    BY DEF NotFound, Empty
  <2> QED BY <2>1, <2>2
<1>3. CASE fitting # {}
  <2>1. fitting \subseteq 1..5
    BY RoutesLead DEF Leads, IsSeq
  <2> HIDE DEF fitting
  <2>2. \E x \in fitting : \A y \in fitting : x <= y
    <3>1. ASSUME NEW x \in fitting, \A y \in 1..5 : y < x => y \notin fitting
          PROVE  \A y \in fitting : x <= y
      BY <2>1, <3>1
    <3>2. 1 \in fitting \/ 2 \in fitting \/ 3 \in fitting \/ 4 \in fitting \/ 5 \in fitting
      <4>1. PICK x \in fitting : x \in 1..5
        BY <1>3, <2>1
      <4> QED BY <4>1
    <3> QED BY <3>1, <3>2
  <2>3. FirstFit(fitting) \in fitting
    BY <2>2 DEF FirstFit, Min
  <2>4. Routes[FirstFit(fitting)].action \in Actions
    BY <2>3, RoutesLead DEF Leads, IsSeq, fitting
  <2>5. Routed[kind].valid = TRUE /\ Routed[kind].action = Routes[FirstFit(fitting)].action
    BY <1>1, <1>3 DEF FindByComponents, fitting
  <2> QED BY <2>4, <2>5
<1> QED BY <1>2, <1>3

-----------------------------------------------------------------------------
(* The types.                                                              *)

Data == [user : BOOLEAN, csrf : Nat]
Cookies == [secret : Nat, data : Data, past : SUBSET Ids]
Sessions == [valid : BOOLEAN, data : Data, past : SUBSET Ids]
Headers == {"location", "x-sendfile", "x-frame-options", "set-cookie", "connection"}
Responses == [status : Nat, headers : SUBSET Headers, cookie : Cookies]

Requests == [phase : {"sent", "executed", "aborted", "finished"}, kind : Kinds, cookie : Cookies, token : Int, ran : BOOLEAN,
             secret : Nat, headers : SUBSET Headers, answers : Nat, answer : Cookies,
             got : {"nothing", "answer", "error"}]

(* A cookie the application has made, with the secret and the token of its *)
(* time, of which it can be said whose login it holds; or none.            *)
MadeOf(cookie, s, t, rs) ==
    /\ cookie \in Cookies
    /\ cookie # NoCookie =>
          /\ cookie.secret \in 1..s /\ cookie.data.csrf \in 1..t
          /\ \A j \in cookie.past : rs[j] # Unsent
          /\ cookie.data.user <=> \E j \in cookie.past : IsLogin(rs[j].kind)

Made(cookie) == MadeOf(cookie, secret, tokens, reqs)

CounterTypes ==
    /\ tokens \in Nat /\ known \subseteq 1..tokens
    /\ secret \in 1..MaxRedeploys + 1 /\ expiries \in 0..MaxExpiries

RequestTypes ==
    /\ reqs \in [Ids -> {Unsent} \cup Requests]
    /\ \A i \in Ids : reqs[i] # Unsent =>
          /\ reqs[i].token \in EmptyToken..tokens
          /\ reqs[i].headers # {} => reqs[i].phase = "executed"

CookiesMade ==
    /\ Made(jar) /\ (jar # NoCookie => jar.data.csrf \in known)
    /\ \A i \in Ids : reqs[i] # Unsent => Made(reqs[i].cookie) /\ Made(reqs[i].answer)

TypeInv == CounterTypes /\ RequestTypes /\ CookiesMade

-----------------------------------------------------------------------------
(* What is known of a request that has been executed.                      *)

Silent(request) ==
    \/ Routed[request.kind].valid /\ ~request.ran
    \/ Routed[request.kind].action = "logout"
    \/ ~Routed[request.kind].valid /\ request.kind.method = "get" /\ request.kind.uri \notin Directories \cup Files

FromFile(request) == IF "x-sendfile" \in request.headers THEN 1 ELSE 0

Decided(request) ==
    Checked(request) /\ Routed[request.kind].valid =>
        (request.ran <=> request.token = TokenAsked(request))

(* The answers that have been sent, and the one Skylar is to send yet.     *)
Answered(request) == request.answers + FromFile(request) = IF Silent(request) THEN 0 ELSE 1

(* The answer to a request keeps the login of its cookie.                  *)
KeepsLogin(request) ==
    /\ request.answer # NoCookie /\ request.cookie # NoCookie /\ request.cookie.secret = request.secret
    /\ request.cookie.data.user
    => request.answer.data.user

Outcome(request) == Decided(request) /\ Answered(request) /\ KeepsLogin(request)

OutcomeInv == \A i \in Ids : reqs[i] # Unsent /\ reqs[i].phase \notin {"sent", "aborted"} => Outcome(reqs[i])

NovaIInv == TypeInv /\ OutcomeInv

-----------------------------------------------------------------------------
(* Executing a request                                                     *)

LEMMA NothingYet == EmptyData \in Data /\ NoCookie \in Cookies /\ EmptySession \in Sessions /\ EmptyResponse \in Responses
                      /\ Made(NoCookie) /\ ~NoCookie.data.user
<1>1. EmptyData \in Data
  BY DEF EmptyData, Data, NoToken
<1>2. NoCookie \in Cookies
  BY <1>1 DEF NoCookie, Cookies
<1>3. EmptySession \in Sessions
  BY <1>1 DEF EmptySession, Sessions
<1>4. EmptyResponse \in Responses
  BY <1>2 DEF EmptyResponse, Responses
<1>5. ~NoCookie.data.user
  BY DEF NoCookie, EmptyData
<1> QED BY <1>1, <1>2, <1>3, <1>4, <1>5 DEF Made, MadeOf

(* The session a request finds: that of its cookie, if the application can *)
(* read it, and an empty one otherwise.                                    *)
LEMMA Finds ==
    ASSUME NEW cookie \in Cookies
    PROVE  LET s == SetSession(cookie) IN
           /\ s \in Sessions
           /\ cookie # NoCookie /\ cookie.secret = secret => s.data = cookie.data /\ s.past = cookie.past
           /\ cookie = NoCookie \/ cookie.secret # secret => s.data = EmptyData /\ s.past = {}
<1> DEFINE s == SetSession(cookie)
<1>1. CASE cookie = NoCookie
  <2>1. s = EmptySession
    BY <1>1 DEF SetSession
  <2>2. EmptySession.data = EmptyData /\ EmptySession.past = {}
    BY DEF EmptySession
  <2> HIDE DEF s
  <2>3. s \in Sessions /\ s.data = EmptyData /\ s.past = {}
    BY <2>1, <2>2, NothingYet
  <2> QED BY <1>1, <2>3 DEF s
<1>2. CASE cookie # NoCookie /\ cookie.secret # secret
  <2>1. s = [EmptySession EXCEPT !.valid = TRUE]
    BY <1>2 DEF SetSession, Find
  <2>2. EmptySession.data = EmptyData /\ EmptySession.past = {}
    BY DEF EmptySession
  <2> HIDE DEF s
  <2>3. s \in Sessions /\ s.data = EmptyData /\ s.past = {}
    BY <2>1, <2>2, NothingYet DEF Sessions
  <2> QED BY <1>2, <2>3 DEF s
<1>3. CASE cookie # NoCookie /\ cookie.secret = secret
  <2>1. s = [valid |-> TRUE, data |-> cookie.data, past |-> cookie.past]
    BY <1>3 DEF SetSession, Find
  <2> HIDE DEF s
  <2>2. s \in Sessions /\ s.data = cookie.data /\ s.past = cookie.past
    BY <2>1 DEF Sessions, Cookies
  <2> QED BY <1>3, <2>2 DEF s
<1> QED BY <1>1, <1>2, <1>3

LEMMA Framed ==
    ASSUME NEW request
    PROVE  LET r == Frame(request, EmptyResponse) IN
           r \in Responses /\ r.status = 0 /\ r.headers \subseteq {"x-frame-options"} /\ r.cookie = NoCookie
BY NothingYet DEF Frame, AddHeader, EmptyResponse, Responses, Headers

(* What an action does to the session and the response.                    *)
LEMMA Acts ==
    ASSUME NEW routing, routing.action \in Actions, NEW session \in Sessions, NEW response \in Responses,
           response.status = 0, response.headers \subseteq {"x-frame-options"}
    PROVE  LET acted == InvokeAction(routing, session, response) IN
           /\ acted.session \in Sessions /\ acted.response \in Responses
           /\ acted.session.data.csrf = session.data.csrf /\ acted.session.past = session.past
           /\ acted.session.data.user <=> \/ routing.action = "login"
                                          \/ session.data.user /\ routing.action # "logout"
           /\ acted.response.cookie = response.cookie
           /\ \/ acted.response.status = 0 /\ "x-sendfile" \in acted.response.headers /\ routing.action = "get"
              \/ acted.response.status # 0 /\ "x-sendfile" \notin acted.response.headers /\ routing.action # "logout"
              \/ acted.response.status = 0 /\ "x-sendfile" \notin acted.response.headers /\ routing.action = "logout"
<1> DEFINE acted == InvokeAction(routing, session, response)
<1>0. /\ session.data \in Data /\ session.data.csrf \in Nat /\ session.data.user \in BOOLEAN
      /\ response.headers \subseteq Headers /\ response.cookie \in Cookies
  BY DEF Sessions, Data, Responses
<1>2. ASSUME NEW status \in Nat, NEW new, new = [response EXCEPT !.status = status]
      PROVE  new \in Responses /\ new.status = status /\ new.cookie = response.cookie /\ new.headers = response.headers
  BY <1>2 DEF Responses
<1>3. CASE routing.action = "index"
  <2>1. acted.session = session /\ acted.response = [response EXCEPT !.status = 200]
    BY <1>3 DEF InvokeAction, Ok
  <2> HIDE DEF acted
  <2> QED BY <1>0, <1>2, <1>3, <2>1 DEF acted
<1>4. CASE routing.action = "get" /\ routing.parameters = <<>>
  <2>1. acted.session = session /\ acted.response = [[response EXCEPT !.status = 302] EXCEPT !.headers = @ \cup {"location"}]
    BY <1>4 DEF InvokeAction, Redirect, AddHeader
  <2>2. "location" \in Headers
    BY DEF Headers
  <2> HIDE DEF acted
  <2>3. /\ acted.response \in Responses /\ acted.response.status = 302 /\ acted.response.cookie = response.cookie
        /\ acted.response.headers = response.headers \cup {"location"}
    <3> DEFINE moved == [response EXCEPT !.status = 302]
    <3>1. moved \in Responses /\ moved.status = 302 /\ moved.cookie = response.cookie /\ moved.headers = response.headers
      BY <1>2
    <3>2. acted.response = [moved EXCEPT !.headers = @ \cup {"location"}]
      BY <2>1
    <3> HIDE DEF moved
    <3> QED BY <2>2, <3>1, <3>2 DEF Responses
  <2> QED BY <1>0, <1>4, <2>1, <2>3 DEF acted
<1>5. CASE routing.action = "get" /\ routing.parameters # <<>>
  <2>1. acted.session = session /\ acted.response = [[response EXCEPT !.status = 0] EXCEPT !.headers = @ \cup {"x-sendfile"}]
    BY <1>5 DEF InvokeAction, PhysicalFile, AddHeader
  <2>2. "x-sendfile" \in Headers
    BY DEF Headers
  <2> HIDE DEF acted
  <2>3. /\ acted.response \in Responses /\ acted.response.status = 0 /\ acted.response.cookie = response.cookie
        /\ acted.response.headers = response.headers \cup {"x-sendfile"}
    BY <2>1, <2>2 DEF Responses
  <2> QED BY <1>0, <1>5, <2>1, <2>3 DEF acted
<1>6. CASE routing.action = "login"
  <2>1. acted.session = Login(session) /\ acted.response = [response EXCEPT !.status = 200]
    BY <1>6 DEF InvokeAction, Ok
  <2>2. /\ Login(session) \in Sessions /\ Login(session).data.user
        /\ Login(session).data.csrf = session.data.csrf /\ Login(session).past = session.past
    BY <1>0 DEF Login, IsUserAuthenticated, Sessions, Data
  <2> HIDE DEF acted
  <2> QED BY <1>0, <1>2, <1>6, <2>1, <2>2 DEF acted
<1>7. CASE routing.action = "logout"
  <2>1. acted.session = Logout(session) /\ acted.response = response
    BY <1>7 DEF InvokeAction
  <2>2. /\ Logout(session) \in Sessions /\ ~Logout(session).data.user
        /\ Logout(session).data.csrf = session.data.csrf /\ Logout(session).past = session.past
    BY <1>0 DEF Logout, Sessions, Data
  <2> HIDE DEF acted
  <2> QED BY <1>0, <1>7, <2>1, <2>2 DEF acted
<1>8. CASE routing.action = "update"
  <2>1. acted.session = session /\ acted.response = [[response EXCEPT !.headers = @ \cup {"connection"}] EXCEPT !.status = 200]
    BY <1>8 DEF InvokeAction, Ok, AddHeader
  <2>2. "connection" \in Headers
    BY DEF Headers
  <2> HIDE DEF acted
  <2>3. /\ acted.response \in Responses /\ acted.response.status = 200 /\ acted.response.cookie = response.cookie
        /\ acted.response.headers = response.headers \cup {"connection"}
    <3>1. /\ acted.response.status = 200 /\ acted.response.cookie = response.cookie
          /\ acted.response.headers = response.headers \cup {"connection"}
      BY <2>1 DEF Responses
    <3>2. 200 \in Nat /\ response.headers \cup {"connection"} \in SUBSET Headers
      BY <1>0, <2>2
    <3>3. acted.response = [status |-> 200, headers |-> response.headers \cup {"connection"}, cookie |-> response.cookie]
      BY <2>1 DEF Responses
    <3> QED BY <1>0, <3>1, <3>2, <3>3 DEF Responses
  <2> QED BY <1>0, <1>8, <2>1, <2>3 DEF acted
<1> QED BY <1>3, <1>4, <1>5, <1>6, <1>7, <1>8 DEF Actions

(* An action's request: what ExecuteController makes of it.                *)
LEMMA Controls ==
    ASSUME TypeInv, NEW i \in Ids, reqs[i] # Unsent, reqs[i].phase = "sent", Routed[reqs[i].kind].valid
    PROVE  LET r == reqs[i]
               done == ProcessRequest(i, r)
               cookie == done.response.cookie
           IN  /\ done.response \in Responses /\ done.ran \in BOOLEAN
               /\ Checked(r) => (done.ran <=> r.token = IF r.cookie # NoCookie /\ r.cookie.secret = secret
                                                        THEN r.cookie.data.csrf ELSE EmptyToken)
               /\ done.sent <=> done.response.status # 0
               /\ ~done.ran => ~done.sent /\ cookie = NoCookie /\ "x-sendfile" \notin done.response.headers
               /\ done.ran =>
                     /\ IF Routed[r.kind].action = "logout"
                        THEN ~done.sent /\ "x-sendfile" \notin done.response.headers
                        ELSE done.sent <=> "x-sendfile" \notin done.response.headers
                     /\ cookie.secret = secret /\ cookie.data.csrf = tokens + 1
                     /\ IF r.cookie # NoCookie /\ r.cookie.secret = secret
                        THEN /\ cookie.past = r.cookie.past \cup {i}
                             /\ cookie.data.user <=> \/ IsLogin(r.kind)
                                                     \/ r.cookie.data.user /\ Routed[r.kind].action # "logout"
                        ELSE cookie.past = {i} /\ (cookie.data.user <=> IsLogin(r.kind))
<1> DEFINE r == reqs[i]
           routing == Routed[r.kind]
           found == SetSession(r.cookie)
           frame == Frame(r, EmptyResponse)
           verified == Checked(r) => CheckRequest(r, found)
           valid == [found EXCEPT !.valid = TRUE]
           renewed == [SetCsrfProtectionData(valid, tokens + 1) EXCEPT !.past = @ \cup {i}]
           acted == InvokeAction(routing, renewed, frame)
           stored == Store(acted.session)
           done == ProcessRequest(i, r)
<1>1. r \in Requests /\ r.cookie \in Cookies /\ r.token \in Int /\ tokens \in Nat /\ secret \in Nat
  BY DEF TypeInv, RequestTypes, CounterTypes, Requests
<1>2. routing.action \in Actions
  BY <1>1, RoutedLeads DEF Requests
<1>3. done = IF verified THEN SendResponse(AddCookie(acted.response, stored), TRUE) ELSE SendResponse(frame, FALSE)
  BY DEF ProcessRequest, ExecuteController, SessionForCheck, StoredSession
<1> HIDE DEF done, found, frame
<1>4. /\ found \in Sessions
      /\ r.cookie # NoCookie /\ r.cookie.secret = secret => found.data = r.cookie.data /\ found.past = r.cookie.past
      /\ r.cookie = NoCookie \/ r.cookie.secret # secret => found.data = EmptyData /\ found.past = {}
  BY <1>1, Finds DEF found
<1>5. frame \in Responses /\ frame.status = 0 /\ frame.headers \subseteq {"x-frame-options"} /\ frame.cookie = NoCookie
  BY Framed DEF frame
<1>6. EmptyData.csrf = 0 /\ ~EmptyData.user
  BY DEF EmptyData, NoToken
<1>7. verified <=> (Checked(r) => r.token = IF r.cookie # NoCookie /\ r.cookie.secret = secret
                                            THEN r.cookie.data.csrf ELSE EmptyToken)
  <2>1. r.cookie # NoCookie => r.cookie.data.csrf \in 1..tokens
    BY DEF TypeInv, CookiesMade, Made, MadeOf
  <2>2. CheckRequest(r, found) <=> r.token # 0 /\ r.token = IF found.data.csrf = 0 THEN -1 ELSE found.data.csrf
    BY DEF CheckRequest, GetAuthToken, NoToken, EmptyToken
  <2> HIDE DEF r
  <2>3. CheckRequest(r, found) <=> r.token = IF r.cookie # NoCookie /\ r.cookie.secret = secret
                                             THEN r.cookie.data.csrf ELSE EmptyToken
    <3>1. CASE r.cookie # NoCookie /\ r.cookie.secret = secret
      <4>1. found.data.csrf = r.cookie.data.csrf /\ r.cookie.data.csrf # 0
        BY <1>1, <1>4, <2>1, <3>1
      <4> QED BY <2>2, <3>1, <4>1
    <3>2. CASE ~(r.cookie # NoCookie /\ r.cookie.secret = secret)
      <4>1. found.data.csrf = 0
        BY <1>4, <1>6, <3>2
      <4> QED BY <2>2, <3>2, <4>1 DEF EmptyToken
    <3> QED BY <3>1, <3>2
  <2> QED BY <2>3 DEF verified
<1>8. CASE ~verified
  <2>1. done = [response |-> frame, ran |-> FALSE, sent |-> frame.status # 0]
    BY <1>3, <1>8 DEF SendResponse
  <2>2. done.response = frame /\ done.ran = FALSE /\ ~done.sent
    BY <1>5, <2>1
  <2> QED BY <1>5, <1>7, <1>8, <2>2 DEF done, r
<1>9. CASE verified
  <2>1. /\ renewed \in Sessions /\ renewed.data.csrf = tokens + 1 /\ renewed.data.user = found.data.user
        /\ renewed.past = found.past \cup {i}
    <3>1. valid \in Sessions /\ valid.data = found.data /\ valid.past = found.past
      BY <1>4 DEF Sessions
    <3> DEFINE data == [valid.data EXCEPT !.csrf = tokens + 1]
    <3>2. data \in Data /\ data.csrf = tokens + 1 /\ data.user = found.data.user
      BY <1>1, <3>1 DEF Sessions, Data
    <3>3. renewed = [[valid EXCEPT !.data = data] EXCEPT !.past = @ \cup {i}]
      BY DEF SetCsrfProtectionData
    <3> HIDE DEF renewed, data, valid
    <3>4. renewed \in Sessions /\ renewed.data = data /\ renewed.past = valid.past \cup {i}
      BY <3>1, <3>2, <3>3 DEF Sessions
    <3> QED BY <3>1, <3>2, <3>4
  <2> HIDE DEF renewed
  <2>2. /\ acted.session \in Sessions /\ acted.response \in Responses
        /\ acted.session.data.csrf = tokens + 1 /\ acted.session.past = found.past \cup {i}
        /\ acted.session.data.user <=> \/ routing.action = "login"
                                       \/ found.data.user /\ routing.action # "logout"
        /\ \/ acted.response.status = 0 /\ "x-sendfile" \in acted.response.headers /\ routing.action = "get"
           \/ acted.response.status # 0 /\ "x-sendfile" \notin acted.response.headers /\ routing.action # "logout"
           \/ acted.response.status = 0 /\ "x-sendfile" \notin acted.response.headers /\ routing.action = "logout"
    <3> HIDE DEF routing
    <3> QED BY <1>2, <1>5, <2>1, Acts
  <2> HIDE DEF acted
  <2>3. stored = [secret |-> secret, data |-> acted.session.data, past |-> acted.session.past]
    <3>1. acted.session.data # EmptyData
      BY <1>1, <1>6, <2>2
    <3> QED BY <3>1 DEF Store, IsEmpty
  <2>4. stored \in Cookies
    BY <1>1, <2>2, <2>3 DEF Cookies, Sessions
  <2> HIDE DEF stored
  <2>5. done = [response |-> AddCookie(acted.response, stored), ran |-> TRUE, sent |-> AddCookie(acted.response, stored).status # 0]
    BY <1>3, <1>9 DEF SendResponse
  <2>6. /\ AddCookie(acted.response, stored) \in Responses
        /\ AddCookie(acted.response, stored).status = acted.response.status
        /\ AddCookie(acted.response, stored).cookie = stored
        /\ "x-sendfile" \in AddCookie(acted.response, stored).headers <=> "x-sendfile" \in acted.response.headers
    BY <2>2, <2>4 DEF AddCookie, AddHeader, Responses, Headers
  <2>7. /\ done.response \in Responses /\ done.ran = TRUE
        /\ done.sent <=> done.response.status # 0
        /\ done.response.status = acted.response.status /\ done.response.cookie = stored
        /\ "x-sendfile" \in done.response.headers <=> "x-sendfile" \in acted.response.headers
    BY <2>5, <2>6
  <2>8. IF routing.action = "logout"
        THEN ~done.sent /\ "x-sendfile" \notin done.response.headers
        ELSE done.sent <=> "x-sendfile" \notin done.response.headers
    BY <2>2, <2>7
  <2>9. stored.secret = secret /\ stored.data.csrf = tokens + 1 /\ stored.past = found.past \cup {i}
          /\ (stored.data.user <=> (routing.action = "login" \/ (found.data.user /\ routing.action # "logout")))
    BY <2>2, <2>3
  <2>10. CASE r.cookie # NoCookie /\ r.cookie.secret = secret
    BY <1>4, <1>7, <1>9, <2>7, <2>8, <2>9, <2>10 DEF done, r, IsLogin
  <2>11. CASE ~(r.cookie # NoCookie /\ r.cookie.secret = secret)
    BY <1>4, <1>6, <1>7, <1>9, <2>7, <2>8, <2>9, <2>11 DEF done, r, IsLogin
  <2> QED BY <2>10, <2>11
<1> QED BY <1>8, <1>9

(* A request without a route.                                              *)
LEMMA Unrouted ==
    ASSUME TypeInv, NEW i \in Ids, reqs[i] # Unsent, reqs[i].phase = "sent", ~Routed[reqs[i].kind].valid
    PROVE  LET r == reqs[i]
               done == ProcessRequest(i, r)
           IN  /\ done.response \in Responses /\ done.ran = FALSE /\ done.response.cookie = NoCookie
               /\ done.sent <=> done.response.status # 0
               /\ IF r.kind.method = "get" /\ r.kind.uri \notin Directories \cup Files
                  THEN ~done.sent /\ "x-sendfile" \notin done.response.headers
                  ELSE done.sent <=> "x-sendfile" \notin done.response.headers
<1> DEFINE r == reqs[i]
           uri == r.kind.uri
           done == ProcessRequest(i, r)
<1>1. done = Unmapped(r)
  BY DEF ProcessRequest
<1>2. EmptyResponse.status = 0 /\ EmptyResponse.headers = {} /\ EmptyResponse.cookie = NoCookie
  BY DEF EmptyResponse
<1>3. ASSUME NEW response, done = SendResponse(response, FALSE)
      PROVE  done.response = response /\ done.ran = FALSE /\ (done.sent <=> response.status # 0)
  <2>1. done = [response |-> response, ran |-> FALSE, sent |-> response.status # 0]
    BY <1>3 DEF SendResponse
  <2> HIDE DEF done
  <2>2. done.response = response /\ done.ran = FALSE
    BY <2>1
  <2>3. done.sent = (response.status # 0)
    BY <2>1
  <2> QED BY <2>2, <2>3 DEF done
<1>4. CASE r.kind.method # "get"
  <2>1. done = SendResponse([EmptyResponse EXCEPT !.status = 404], FALSE)
    BY <1>1, <1>4 DEF Unmapped
  <2> HIDE DEF done
  <2>2. /\ [EmptyResponse EXCEPT !.status = 404] \in Responses /\ [EmptyResponse EXCEPT !.status = 404].status = 404
        /\ [EmptyResponse EXCEPT !.status = 404].headers = {} /\ [EmptyResponse EXCEPT !.status = 404].cookie = NoCookie
    BY <1>2, NothingYet DEF Responses
  <2> DEFINE new == [EmptyResponse EXCEPT !.status = 404]
  <2>3. done.response = new /\ done.ran = FALSE /\ (done.sent <=> new.status # 0)
    BY <1>3, <2>1
  <2> QED BY <1>4, <2>2, <2>3 DEF done
<1>5. CASE r.kind.method = "get" /\ uri \in Directories
  <2>1. done = SendResponse([EmptyResponse EXCEPT !.status = 200], FALSE)
    BY <1>1, <1>5, NovaAssumption DEF Unmapped, Ok
  <2> HIDE DEF done
  <2>2. /\ [EmptyResponse EXCEPT !.status = 200] \in Responses /\ [EmptyResponse EXCEPT !.status = 200].status = 200
        /\ [EmptyResponse EXCEPT !.status = 200].headers = {} /\ [EmptyResponse EXCEPT !.status = 200].cookie = NoCookie
    BY <1>2, NothingYet DEF Responses
  <2> DEFINE new == [EmptyResponse EXCEPT !.status = 200]
  <2>3. done.response = new /\ done.ran = FALSE /\ (done.sent <=> new.status # 0)
    BY <1>3, <2>1
  <2> QED BY <1>5, <2>2, <2>3 DEF done
<1>6. CASE r.kind.method = "get" /\ uri \in Files
  <2>1. done = SendResponse(AddHeader(EmptyResponse, "x-sendfile"), FALSE)
    BY <1>1, <1>6, NovaAssumption DEF Unmapped
  <2> HIDE DEF done
  <2>2. /\ AddHeader(EmptyResponse, "x-sendfile") \in Responses /\ AddHeader(EmptyResponse, "x-sendfile").status = 0
        /\ AddHeader(EmptyResponse, "x-sendfile").headers = {"x-sendfile"}
        /\ AddHeader(EmptyResponse, "x-sendfile").cookie = NoCookie
    BY <1>2, NothingYet DEF Responses, AddHeader, Headers
  <2> QED BY <1>3, <1>6, <2>1, <2>2 DEF done
<1>7. CASE r.kind.method = "get" /\ uri \notin Directories \cup Files
  <2>1. done = SendResponse(EmptyResponse, FALSE)
    BY <1>1, <1>7 DEF Unmapped
  <2> HIDE DEF done
  <2> QED BY <1>2, <1>3, <1>7, <2>1, NothingYet DEF done
<1> QED BY <1>4, <1>5, <1>6, <1>7

-----------------------------------------------------------------------------
(* The steps                                                               *)

(* Secrets and tokens are only added, and requests keep their kinds.       *)
Grows(s, t, rs, s2, t2, rs2) ==
    /\ s \in Nat /\ t \in Nat /\ s2 \in Nat /\ t2 \in Nat /\ s <= s2 /\ t <= t2
    /\ \A j \in Ids : rs[j] # Unsent => rs2[j] # Unsent /\ rs2[j].kind = rs[j].kind

LEMMA MadeStays ==
    ASSUME NEW s, NEW t, NEW rs, NEW s2, NEW t2, NEW rs2, Grows(s, t, rs, s2, t2, rs2)
    PROVE  \A cookie : MadeOf(cookie, s, t, rs) => MadeOf(cookie, s2, t2, rs2)
<1> SUFFICES ASSUME NEW cookie, MadeOf(cookie, s, t, rs)
             PROVE  MadeOf(cookie, s2, t2, rs2)
  OBVIOUS
<1>1. cookie \in Cookies /\ cookie.past \subseteq Ids
  BY DEF MadeOf, Cookies
<1>2. ASSUME cookie # NoCookie
      PROVE  /\ cookie.secret \in 1..s2 /\ cookie.data.csrf \in 1..t2
             /\ \A j \in cookie.past : rs2[j] # Unsent /\ rs2[j].kind = rs[j].kind
             /\ cookie.data.user <=> \E j \in cookie.past : IsLogin(rs2[j].kind)
  BY <1>1, <1>2 DEF MadeOf, Grows
<1> QED BY <1>1, <1>2 DEF MadeOf

(* A step that gives request i the record new.                             *)
LEMMA TypesStep ==
    ASSUME TypeInv, CounterTypes', secret <= secret', tokens <= tokens', NEW i \in Ids, NEW new \in Requests,
           reqs' = [reqs EXCEPT ![i] = new], reqs[i] # Unsent => new.kind = reqs[i].kind,
           new.token \in EmptyToken..tokens', new.headers # {} => new.phase = "executed",
           MadeOf(new.cookie, secret', tokens', reqs'), MadeOf(new.answer, secret', tokens', reqs'),
           MadeOf(jar', secret', tokens', reqs'), jar' # NoCookie => jar'.data.csrf \in known'
    PROVE  TypeInv'
<1>1. new # Unsent
  BY DEF Requests, Unsent
<1>2. reqs' \in [Ids -> {Unsent} \cup Requests] /\ reqs'[i] = new /\ \A j \in Ids \ {i} : reqs'[j] = reqs[j]
  BY DEF TypeInv, RequestTypes
<1>3. secret \in Nat /\ tokens \in Nat /\ secret' \in Nat /\ tokens' \in Nat
  BY NovaAssumption DEF TypeInv, CounterTypes
<1>4. RequestTypes'
  BY <1>1, <1>2, <1>3 DEF TypeInv, RequestTypes
<1>5. Grows(secret, tokens, reqs, secret', tokens', reqs')
  BY <1>1, <1>2, <1>3 DEF Grows
<1>6. ASSUME NEW j \in Ids, reqs'[j] # Unsent
      PROVE  MadeOf(reqs'[j].cookie, secret', tokens', reqs') /\ MadeOf(reqs'[j].answer, secret', tokens', reqs')
  <2>1. CASE j = i
    BY <1>2, <2>1
  <2>2. CASE j # i
    <3>1. MadeOf(reqs[j].cookie, secret, tokens, reqs) /\ MadeOf(reqs[j].answer, secret, tokens, reqs)
      BY <1>2, <1>6, <2>2 DEF TypeInv, CookiesMade, Made
    <3>2. reqs'[j] = reqs[j]
      BY <1>2, <2>2
    <3> QED BY <1>5, <3>1, <3>2, MadeStays
  <2> QED BY <2>1, <2>2
<1>7. CookiesMade'
  BY <1>6 DEF CookiesMade, Made
<1> QED BY <1>4, <1>7 DEF TypeInv

LEMMA OutcomeStep ==
    ASSUME TypeInv, OutcomeInv, NEW i \in Ids, NEW new, reqs' = [reqs EXCEPT ![i] = new],
           new.phase \notin {"sent", "aborted"} => Outcome(new)
    PROVE  OutcomeInv'
BY DEF OutcomeInv, TypeInv, RequestTypes

(* The cookies there are when the step gives request i the record new.     *)
LEMMA CookiesStay ==
    ASSUME TypeInv, CounterTypes', secret <= secret', tokens <= tokens', NEW i \in Ids, NEW new \in Requests,
           reqs' = [reqs EXCEPT ![i] = new], reqs[i] # Unsent => new.kind = reqs[i].kind,
           NEW cookie, MadeOf(cookie, secret, tokens, reqs)
    PROVE  MadeOf(cookie, secret', tokens', reqs')
<1>1. new # Unsent
  BY DEF Requests, Unsent
<1>2. reqs'[i] = new /\ \A j \in Ids \ {i} : reqs'[j] = reqs[j]
  BY DEF TypeInv, RequestTypes
<1>3. secret \in Nat /\ tokens \in Nat /\ secret' \in Nat /\ tokens' \in Nat
  BY NovaAssumption DEF TypeInv, CounterTypes
<1>4. Grows(secret, tokens, reqs, secret', tokens', reqs')
  BY <1>1, <1>2, <1>3 DEF Grows
<1> QED BY <1>4, MadeStays

LEMMA SendKeeps ==
    ASSUME NovaIInv, NEW i \in Ids, NEW kind \in Kinds, NEW token \in known \cup {NoToken, EmptyToken}, Send(i, kind, token)
    PROVE  NovaIInv'
<1> DEFINE new == [phase |-> "sent", kind |-> kind, cookie |-> jar, token |-> token, ran |-> FALSE,
                   secret |-> 0, headers |-> {}, answers |-> 0, answer |-> NoCookie, got |-> "nothing"]
<1>1. reqs' = [reqs EXCEPT ![i] = new] /\ reqs[i] = Unsent /\ UNCHANGED <<jar, known, secret, tokens, expiries>>
  BY DEF Send
<1>2. TypeInv /\ OutcomeInv
  BY DEF NovaIInv
<1>3. token \in EmptyToken..tokens /\ token \in Int
  BY <1>2 DEF TypeInv, CounterTypes, NoToken, EmptyToken
<1>4. MadeOf(jar, secret, tokens, reqs) /\ jar \in Cookies
  BY <1>2 DEF TypeInv, CookiesMade, Made, MadeOf
<1>5. new \in Requests
  BY <1>3, <1>4, NothingYet DEF Requests
<1>6. /\ new.cookie = jar /\ new.answer = NoCookie /\ new.headers = {} /\ new.token = token /\ new.phase = "sent"
  OBVIOUS
<1> HIDE DEF new
<1>7. CounterTypes' /\ secret <= secret' /\ tokens <= tokens'
  BY <1>1, <1>2, NovaAssumption DEF TypeInv, CounterTypes
<1>8. MadeOf(jar, secret', tokens', reqs') /\ MadeOf(NoCookie, secret', tokens', reqs')
  <2>1. MadeOf(NoCookie, secret, tokens, reqs)
    BY NothingYet DEF Made
  <2> QED BY <1>1, <1>2, <1>4, <1>5, <1>7, <2>1, CookiesStay
<1>9. TypeInv'
  <2>1. jar' = jar /\ known' = known /\ token \in EmptyToken..tokens' /\ (jar' # NoCookie => jar'.data.csrf \in known')
    BY <1>1, <1>2, <1>3 DEF TypeInv, CookiesMade
  <2> QED BY <1>1, <1>2, <1>5, <1>6, <1>7, <1>8, <2>1, TypesStep
<1>10. OutcomeInv'
  BY <1>1, <1>2, <1>6, OutcomeStep
<1> QED BY <1>9, <1>10 DEF NovaIInv

LEMMA ExecuteKeeps ==
    ASSUME NovaIInv, NEW i \in Ids, Execute(i)
    PROVE  NovaIInv'
<1> DEFINE r == reqs[i]
           done == ProcessRequest(i, r)
           answers == IF done.sent THEN 1 ELSE 0
           answer == IF done.sent THEN done.response.cookie ELSE NoCookie
           new == [r EXCEPT !.phase = "executed", !.ran = done.ran, !.headers = done.response.headers,
                            !.answers = answers, !.answer = answer, !.secret = secret]
<1>0. TypeInv /\ OutcomeInv
  BY DEF NovaIInv
<1>1. r # Unsent /\ r.phase = "sent" /\ r \in Requests
  BY <1>0 DEF Execute, Unsent, TypeInv, RequestTypes
<1>2. reqs' = [reqs EXCEPT ![i] = new] /\ tokens' = (IF done.ran THEN tokens + 1 ELSE tokens)
         /\ UNCHANGED <<jar, known, secret, expiries>>
  BY DEF Execute
<1>3. /\ done.response \in Responses /\ done.ran \in BOOLEAN
      /\ ~done.ran => done.response.cookie = NoCookie
  BY <1>0, <1>1, Controls, Unrouted
<1>4. /\ tokens \in Nat /\ secret \in Nat /\ secret # 0
      /\ r.token \in EmptyToken..tokens /\ MadeOf(r.cookie, secret, tokens, reqs) /\ MadeOf(jar, secret, tokens, reqs)
      /\ jar # NoCookie => jar.data.csrf \in known
  BY <1>0, <1>1 DEF TypeInv, CounterTypes, RequestTypes, CookiesMade, Made
<1>5. done.response.cookie \in Cookies /\ done.response.headers \in SUBSET Headers
  BY <1>3 DEF Responses
<1> HIDE DEF done
<1>6. answers \in Nat /\ answer \in Cookies
  BY <1>5, NothingYet
<1>7. /\ new \in Requests /\ new.kind = r.kind /\ new.cookie = r.cookie /\ new.token = r.token /\ new.phase = "executed"
      /\ new.ran = done.ran /\ new.headers = done.response.headers /\ new.answers = answers /\ new.answer = answer
      /\ new.secret = secret
  BY <1>1, <1>3, <1>4, <1>5, <1>6 DEF Requests
<1> HIDE DEF r, new, answers, answer
<1>8. CounterTypes' /\ secret <= secret' /\ tokens <= tokens' /\ tokens' \in Nat
  BY <1>0, <1>2, <1>3, NovaAssumption DEF TypeInv, CounterTypes
<1>9. new # Unsent /\ reqs'[i] = new
  BY <1>0, <1>2, <1>7 DEF TypeInv, RequestTypes, Requests, Unsent
<1>10. ASSUME NEW cookie, MadeOf(cookie, secret, tokens, reqs)
       PROVE  MadeOf(cookie, secret', tokens', reqs')
  BY <1>0, <1>2, <1>7, <1>8, <1>10, CookiesStay DEF r
<1>11. MadeOf(answer, secret', tokens', reqs')
  <2>1. CASE answer = NoCookie
    BY <1>10, <2>1, NothingYet DEF Made
  <2>2. CASE answer # NoCookie
    <3>1. answer = done.response.cookie /\ done.sent /\ done.ran /\ tokens' = tokens + 1
      BY <1>2, <1>3, <2>2 DEF answer
    <3>2. Routed[r.kind].valid
      BY <1>0, <1>1, <3>1, Unrouted DEF done, r
    <3>3. /\ Routed[r.kind].action # "logout"
          /\ answer.secret = secret /\ answer.data.csrf = tokens + 1
          /\ IF r.cookie # NoCookie /\ r.cookie.secret = secret
             THEN /\ answer.past = r.cookie.past \cup {i}
                  /\ answer.data.user <=> IsLogin(r.kind) \/ r.cookie.data.user
             ELSE answer.past = {i} /\ (answer.data.user <=> IsLogin(r.kind))
      <4> DEFINE made == done.response.cookie
      <4>1. /\ Routed[r.kind].action # "logout"
            /\ made.secret = secret /\ made.data.csrf = tokens + 1
            /\ IF r.cookie # NoCookie /\ r.cookie.secret = secret
               THEN /\ made.past = r.cookie.past \cup {i}
                    /\ made.data.user <=> IsLogin(r.kind) \/ r.cookie.data.user
               ELSE made.past = {i} /\ (made.data.user <=> IsLogin(r.kind))
        BY <1>0, <1>1, <3>1, <3>2, Controls DEF done, r
      <4> QED BY <3>1, <4>1
    <3>4. answer.secret \in 1..secret' /\ answer.data.csrf \in 1..tokens'
      BY <1>2, <1>4, <3>1, <3>3
    <3>5. CASE r.cookie # NoCookie /\ r.cookie.secret = secret
      <4>1. MadeOf(r.cookie, secret', tokens', reqs')
        BY <1>4, <1>10
      <4>2. /\ \A j \in r.cookie.past : reqs'[j] # Unsent
            /\ r.cookie.data.user <=> \E j \in r.cookie.past : IsLogin(reqs'[j].kind)
        BY <3>5, <4>1 DEF MadeOf
      <4>3. answer.past = r.cookie.past \cup {i} /\ (answer.data.user <=> IsLogin(r.kind) \/ r.cookie.data.user)
        BY <3>3, <3>5
      <4>4. IsLogin(reqs'[i].kind) <=> IsLogin(r.kind)
        BY <1>7, <1>9
      <4>5. /\ \A j \in answer.past : reqs'[j] # Unsent
            /\ answer.data.user <=> \E j \in answer.past : IsLogin(reqs'[j].kind)
        BY <1>9, <4>2, <4>3, <4>4
      <4> QED BY <1>6, <3>4, <4>5 DEF MadeOf
    <3>6. CASE ~(r.cookie # NoCookie /\ r.cookie.secret = secret)
      <4>1. answer.past = {i} /\ (answer.data.user <=> IsLogin(r.kind))
        BY <3>3, <3>6
      <4>2. /\ \A j \in answer.past : reqs'[j] # Unsent
            /\ answer.data.user <=> \E j \in answer.past : IsLogin(reqs'[j].kind)
        BY <1>7, <1>9, <4>1
      <4> QED BY <1>6, <3>4, <4>2 DEF MadeOf
    <3> QED BY <3>5, <3>6
  <2> QED BY <2>1, <2>2
<1>12. TypeInv'
  <2>1. MadeOf(new.cookie, secret', tokens', reqs') /\ MadeOf(new.answer, secret', tokens', reqs')
    BY <1>4, <1>7, <1>10, <1>11
  <2>2. jar' = jar /\ known' = known /\ MadeOf(jar', secret', tokens', reqs') /\ (jar' # NoCookie => jar'.data.csrf \in known')
    BY <1>2, <1>4, <1>10
  <2>3. new.token \in EmptyToken..tokens'
    BY <1>4, <1>7, <1>8 DEF EmptyToken
  <2> QED BY <1>0, <1>2, <1>7, <1>8, <2>1, <2>2, <2>3, TypesStep DEF r
<1>13. Outcome(new)
  <2>1. Decided(new)
    <3>1. CASE Checked(new) /\ Routed[new.kind].valid
      <4>1. Checked(r) /\ Routed[r.kind].valid
        BY <1>7, <3>1 DEF Checked
      <4>2. done.ran <=> r.token = IF r.cookie # NoCookie /\ r.cookie.secret = secret
                                   THEN r.cookie.data.csrf ELSE EmptyToken
        BY <1>0, <1>1, <4>1, Controls DEF done, r
      <4> QED BY <1>7, <4>2 DEF Decided, TokenAsked
    <3> QED BY <3>1 DEF Decided
  <2>2. Answered(new)
    <3>1. CASE Routed[r.kind].valid
      <4>1. /\ ~done.ran => ~done.sent /\ "x-sendfile" \notin done.response.headers
            /\ done.ran => IF Routed[r.kind].action = "logout"
                           THEN ~done.sent /\ "x-sendfile" \notin done.response.headers
                           ELSE done.sent <=> "x-sendfile" \notin done.response.headers
        BY <1>0, <1>1, <3>1, Controls DEF done, r
      <4>2. answers + FromFile(new) = IF ~done.ran \/ Routed[r.kind].action = "logout" THEN 0 ELSE 1
        BY <1>7, <4>1 DEF FromFile, answers
      <4>3. Silent(new) <=> ~done.ran \/ Routed[r.kind].action = "logout"
        BY <1>7, <3>1 DEF Silent
      <4> QED BY <1>7, <4>2, <4>3 DEF Answered
    <3>2. CASE ~Routed[r.kind].valid
      <4>1. IF r.kind.method = "get" /\ r.kind.uri \notin Directories \cup Files
            THEN ~done.sent /\ "x-sendfile" \notin done.response.headers
            ELSE done.sent <=> "x-sendfile" \notin done.response.headers
        BY <1>0, <1>1, <3>2, Unrouted DEF done, r
      <4>2. Routed[r.kind].action = ""
        BY <1>1, <3>2, RoutedLeads DEF Requests
      <4>3. Silent(new) <=> r.kind.method = "get" /\ r.kind.uri \notin Directories \cup Files
        BY <1>7, <3>2, <4>2 DEF Silent
      <4> QED BY <1>7, <4>1, <4>3 DEF Answered, FromFile, answers
    <3> QED BY <3>1, <3>2
  <2>3. KeepsLogin(new)
    <3> SUFFICES ASSUME answer # NoCookie, r.cookie # NoCookie, r.cookie.secret = secret, r.cookie.data.user
                 PROVE  answer.data.user
      BY <1>7 DEF KeepsLogin
    <3>1. answer = done.response.cookie /\ done.sent /\ done.ran
      BY <1>3 DEF answer
    <3>2. Routed[r.kind].valid
      BY <1>0, <1>1, <3>1, Unrouted DEF done, r
    <3>3. done.response.cookie.data.user
      BY <1>0, <1>1, <3>1, <3>2, Controls DEF done, r
    <3> QED BY <3>1, <3>3
  <2> QED BY <2>1, <2>2, <2>3 DEF Outcome
<1>14. OutcomeInv'
  BY <1>0, <1>2, <1>13, OutcomeStep
<1> QED BY <1>12, <1>14 DEF NovaIInv

(* A step that changes nothing that is in a cookie, and the jar at most to *)
(* another cookie the application has made.                                *)
LEMMA SameCookies ==
    ASSUME TypeInv, CounterTypes', UNCHANGED <<secret, tokens>>, NEW i \in Ids, NEW new \in Requests,
           reqs[i] # Unsent, reqs' = [reqs EXCEPT ![i] = new], new.kind = reqs[i].kind, new.token = reqs[i].token,
           new.cookie = reqs[i].cookie, new.answer = reqs[i].answer, new.headers # {} => new.phase = "executed",
           MadeOf(jar', secret, tokens, reqs), jar' # NoCookie => jar'.data.csrf \in known'
    PROVE  TypeInv'
<1>1. secret <= secret' /\ tokens <= tokens' /\ new.token \in EmptyToken..tokens'
  BY NovaAssumption DEF TypeInv, CounterTypes, RequestTypes
<1>2. MadeOf(new.cookie, secret, tokens, reqs) /\ MadeOf(new.answer, secret, tokens, reqs)
  BY DEF TypeInv, CookiesMade, Made
<1>3. /\ MadeOf(new.cookie, secret', tokens', reqs') /\ MadeOf(new.answer, secret', tokens', reqs')
      /\ MadeOf(jar', secret', tokens', reqs')
  BY <1>1, <1>2, CookiesStay
<1> QED BY <1>1, <1>3, TypesStep

LEMMA FinishKeeps ==
    ASSUME NovaIInv, NEW i \in Ids, Finish(i)
    PROVE  NovaIInv'
<1> DEFINE r == reqs[i]
           answers == r.answers + FromFile(r)
           new == [r EXCEPT !.phase = "finished", !.headers = {}, !.answers = answers]
<1>0. TypeInv /\ OutcomeInv
  BY DEF NovaIInv
<1>1. r # Unsent /\ r.phase = "executed" /\ r \in Requests
  BY <1>0 DEF Finish, Unsent, TypeInv, RequestTypes
<1>2. r.answers \in Nat
  BY <1>1 DEF Requests
<1>3. (IF "x-sendfile" \in r.headers THEN r.answers + 1 ELSE r.answers) = answers /\ answers \in Nat
  BY <1>2 DEF FromFile
<1>4. reqs' = [reqs EXCEPT ![i] = new] /\ UNCHANGED <<jar, known, secret, tokens, expiries>>
  BY <1>3 DEF Finish, CleanupResponseData
<1> HIDE DEF answers
<1>5. /\ new \in Requests /\ new.kind = r.kind /\ new.cookie = r.cookie /\ new.token = r.token /\ new.headers = {}
      /\ new.ran = r.ran /\ new.answer = r.answer /\ new.secret = r.secret /\ new.answers = answers
  BY <1>1, <1>3 DEF Requests
<1> HIDE DEF new
<1>6. Outcome(r)
  BY <1>0, <1>1 DEF OutcomeInv
<1>7. Outcome(new)
  <2>1. Decided(new) /\ KeepsLogin(new)
    BY <1>5, <1>6 DEF Outcome, Decided, KeepsLogin, Checked, TokenAsked
  <2>2. FromFile(new) = 0 /\ (Silent(new) <=> Silent(r)) 
    BY <1>5 DEF FromFile, Silent
  <2>3. Answered(new)
    BY <1>3, <1>5, <1>6, <2>2 DEF Outcome, Answered, answers
  <2> QED BY <2>1, <2>3 DEF Outcome
<1>8. TypeInv'
  <2>1. CounterTypes' /\ MadeOf(jar', secret, tokens, reqs) /\ (jar' # NoCookie => jar'.data.csrf \in known')
    BY <1>0, <1>4 DEF TypeInv, CounterTypes, CookiesMade, Made
  <2> QED BY <1>0, <1>1, <1>4, <1>5, <2>1, SameCookies DEF r
<1>9. OutcomeInv'
  BY <1>0, <1>4, <1>7, OutcomeStep
<1> QED BY <1>8, <1>9 DEF NovaIInv

LEMMA AbortKeeps ==
    ASSUME NovaIInv, NEW i \in Ids, Abort(i)
    PROVE  NovaIInv'
<1> DEFINE r == reqs[i]
           new == [r EXCEPT !.phase = "aborted"]
<1>0. TypeInv /\ OutcomeInv
  BY DEF NovaIInv
<1>1. r # Unsent /\ r.phase = "sent" /\ r \in Requests
  BY <1>0 DEF Abort, Unsent, TypeInv, RequestTypes
<1>2. reqs' = [reqs EXCEPT ![i] = new] /\ UNCHANGED <<jar, known, secret, tokens, expiries>>
  BY DEF Abort
<1>3. /\ new \in Requests /\ new.kind = r.kind /\ new.cookie = r.cookie /\ new.token = r.token
      /\ new.answer = r.answer /\ new.headers = r.headers /\ new.phase = "aborted"
  BY <1>1 DEF Requests
<1>4. r.headers = {}
  BY <1>0, <1>1 DEF TypeInv, RequestTypes
<1> HIDE DEF new
<1>5. TypeInv'
  <2>1. CounterTypes' /\ MadeOf(jar', secret, tokens, reqs) /\ (jar' # NoCookie => jar'.data.csrf \in known')
    BY <1>0, <1>2 DEF TypeInv, CounterTypes, CookiesMade, Made
  <2> QED BY <1>0, <1>1, <1>2, <1>3, <1>4, <2>1, SameCookies DEF r
<1>6. OutcomeInv'
  BY <1>0, <1>2, <1>3, OutcomeStep
<1> QED BY <1>5, <1>6 DEF NovaIInv

(* The browser's end of an answer, or of its loss.                         *)
LEMMA GotKeeps ==
    ASSUME NovaIInv, NEW i \in Ids, reqs[i].phase \in {"executed", "finished"}, NEW got \in {"answer", "error"},
           reqs' = [reqs EXCEPT ![i].got = got], UNCHANGED <<secret, tokens, expiries>>,
           \/ UNCHANGED <<jar, known>>
           \/ reqs[i].answer # NoCookie /\ jar' = reqs[i].answer /\ known' = known \cup {reqs[i].answer.data.csrf}
    PROVE  NovaIInv'
<1> DEFINE r == reqs[i]
           new == [r EXCEPT !.got = got]
<1>0. TypeInv /\ OutcomeInv
  BY DEF NovaIInv
<1>1. r # Unsent /\ r.phase \notin {"sent", "aborted"} /\ r \in Requests
  BY <1>0 DEF Unsent, TypeInv, RequestTypes
<1>2. reqs' = [reqs EXCEPT ![i] = new]
  OBVIOUS
<1>3. /\ new \in Requests /\ new.kind = r.kind /\ new.cookie = r.cookie /\ new.token = r.token /\ new.headers = r.headers
      /\ new.ran = r.ran /\ new.answer = r.answer /\ new.secret = r.secret /\ new.answers = r.answers
      /\ new.phase = r.phase
  BY <1>1 DEF Requests
<1> HIDE DEF new
<1>4. Outcome(r)
  BY <1>0, <1>1 DEF OutcomeInv
<1>5. Outcome(new)
  BY <1>3, <1>4 DEF Outcome, Decided, KeepsLogin, Checked, TokenAsked, Answered, FromFile, Silent
<1>6. MadeOf(r.answer, secret, tokens, reqs) /\ MadeOf(jar, secret, tokens, reqs) /\ (jar # NoCookie => jar.data.csrf \in known)
  BY <1>0, <1>1 DEF TypeInv, CookiesMade, Made
<1>7. CounterTypes'
  BY <1>0, <1>6 DEF TypeInv, CounterTypes, MadeOf
<1>8. TypeInv'
  <2>1. jar' = jar \/ jar' = r.answer
    OBVIOUS
  <2>2. MadeOf(jar', secret, tokens, reqs) /\ (jar' # NoCookie => jar'.data.csrf \in known')
    BY <1>6
  <2>3. new.headers # {} => new.phase = "executed"
    BY <1>0, <1>1, <1>3 DEF TypeInv, RequestTypes
  <2> QED BY <1>0, <1>1, <1>2, <1>3, <1>7, <2>2, <2>3, SameCookies DEF r
<1>9. OutcomeInv'
  BY <1>0, <1>2, <1>5, OutcomeStep
<1> QED BY <1>8, <1>9 DEF NovaIInv

LEMMA NovaStep == NovaIInv /\ [Next]_vars => NovaIInv'
<1> SUFFICES ASSUME NovaIInv, [Next]_vars PROVE NovaIInv'
  OBVIOUS
<1>0. TypeInv /\ OutcomeInv
  BY DEF NovaIInv
<1>1. CASE UNCHANGED vars
  BY <1>1 DEF vars, NovaIInv, TypeInv, CounterTypes, RequestTypes, CookiesMade, Made, OutcomeInv
<1>2. ASSUME NEW i \in Ids, Deliver(i) \/ Lose(i)
      PROVE  NovaIInv'
  BY <1>2, GotKeeps DEF Deliver, Lose
<1>3. ASSUME UNCHANGED <<reqs, known, tokens>>, CounterTypes', jar' \in {jar, NoCookie}, secret <= secret'
      PROVE  NovaIInv'
  <2>1. Grows(secret, tokens, reqs, secret', tokens', reqs')
    BY <1>0, <1>3, NovaAssumption DEF TypeInv, CounterTypes, Grows
  <2>2. ASSUME NEW cookie, MadeOf(cookie, secret, tokens, reqs)
        PROVE  MadeOf(cookie, secret', tokens', reqs')
    BY <2>1, <2>2, MadeStays
  <2>3. MadeOf(jar, secret, tokens, reqs) /\ MadeOf(NoCookie, secret, tokens, reqs)
    BY <1>0, NothingYet DEF TypeInv, CookiesMade, Made
  <2>4. MadeOf(jar', secret', tokens', reqs') /\ (jar' # NoCookie => jar'.data.csrf \in known')
    BY <1>0, <1>3, <2>2, <2>3 DEF TypeInv, CookiesMade
  <2>5. ASSUME NEW i \in Ids, reqs'[i] # Unsent
        PROVE  MadeOf(reqs'[i].cookie, secret', tokens', reqs') /\ MadeOf(reqs'[i].answer, secret', tokens', reqs')
    BY <1>0, <1>3, <2>2, <2>5 DEF TypeInv, CookiesMade, Made
  <2>6. CookiesMade'
    BY <2>4, <2>5 DEF CookiesMade, Made
  <2>7. RequestTypes' /\ OutcomeInv'
    BY <1>0, <1>3 DEF TypeInv, RequestTypes, OutcomeInv
  <2> QED BY <1>3, <2>6, <2>7 DEF NovaIInv, TypeInv
<1>4. CASE Expire
  <2>1. CounterTypes' /\ secret <= secret'
    BY <1>0, <1>4, NovaAssumption DEF Expire, TypeInv, CounterTypes
  <2> QED BY <1>3, <1>4, <2>1 DEF Expire
<1>5. CASE Redeploy
  <2>1. CounterTypes' /\ secret <= secret'
    BY <1>0, <1>5, NovaAssumption DEF Redeploy, TypeInv, CounterTypes
  <2> QED BY <1>3, <1>5, <2>1 DEF Redeploy
<1> QED BY <1>1, <1>2, <1>4, <1>5, SendKeeps, ExecuteKeeps, AbortKeeps, FinishKeeps DEF Next

LEMMA NovaStart == Init => NovaIInv
<1> SUFFICES ASSUME Init PROVE NovaIInv
  OBVIOUS
<1>1. CounterTypes
  BY NovaAssumption DEF Init, CounterTypes
<1>2. RequestTypes /\ OutcomeInv
  BY DEF Init, RequestTypes, OutcomeInv
<1>3. CookiesMade
  BY NothingYet DEF Init, CookiesMade
<1> QED BY <1>1, <1>2, <1>3 DEF NovaIInv, TypeInv

LEMMA NovaInvariant == Spec => []NovaIInv
BY NovaStart, NovaStep, PTL DEF Spec

-----------------------------------------------------------------------------
(* Results                                                                 *)

(* A cookie in the jar is one the application has made, with a token of a  *)
(* page the browser has been given; the headers' buffer lives from Execute *)
(* to CleanupResponseData; and the user of a session is logged in exactly  *)
(* when one of the requests it comes from was a login: for any number of   *)
(* requests on their way, answers in any order, expiries and new secrets.  *)
THEOREM SessionsAreCarried == Spec => []NovaInv
<1>1. NovaIInv => NovaInv
  <2> SUFFICES ASSUME NovaIInv PROVE NovaInv
    OBVIOUS
  <2>1. TypeInv
    BY DEF NovaIInv
  <2>2. \A i \in Ids : reqs[i] # Unsent => reqs[i] \in Requests
    BY <2>1 DEF TypeInv, RequestTypes
  <2>3. TypeOK
    BY <2>1, <2>2 DEF TypeOK, TypeInv, CounterTypes, RequestTypes, CookiesMade, Made, MadeOf, Requests
  <2>4. LoginIsCarried
    BY <2>1 DEF LoginIsCarried, TypeInv, CookiesMade, Made, MadeOf
  <2> QED BY <2>3, <2>4 DEF NovaInv
<1> QED BY <1>1, NovaInvariant, PTL

(* A request is answered once, by the application or with a file, or not   *)
(* at all in the three cases AnsweredOnce names: for any kinds of requests *)
(* and files.                                                              *)
THEOREM NeverAnsweredTwice == Spec => []AnsweredOnce
<1>1. NovaIInv => AnsweredOnce
  <2> SUFFICES ASSUME NovaIInv, NEW i \in Ids, reqs[i].phase = "finished"
               PROVE  reqs[i].answers = IF Silent(reqs[i]) THEN 0 ELSE 1
    BY DEF AnsweredOnce, Silent
  <2>1. reqs[i] # Unsent
    BY DEF Unsent
  <2>2. reqs[i] \in Requests /\ reqs[i].headers = {}
    BY <2>1 DEF NovaIInv, TypeInv, RequestTypes
  <2>3. Answered(reqs[i])
    BY <2>1 DEF NovaIInv, OutcomeInv, Outcome
  <2> QED BY <2>2, <2>3 DEF Answered, FromFile, Requests
<1> QED BY <1>1, NovaInvariant, PTL

(* The action of a checked request runs exactly when its token is the one  *)
(* its own cookie asks for, which is an empty one where the application    *)
(* cannot read a session from the cookie: however often the token and the  *)
(* secret have been renewed since the page was made.                       *)
THEOREM TheTokenDecides == Spec => []TokenDecides
<1>1. NovaIInv => TokenDecides
  <2> SUFFICES ASSUME NovaIInv, NEW i \in Ids, Executed(i)
               PROVE  Decided(reqs[i])
    BY DEF TokenDecides, Decided
  <2>1. reqs[i] # Unsent /\ reqs[i].phase \notin {"sent", "aborted"}
    BY DEF Executed, Unsent
  <2> QED BY <2>1 DEF NovaIInv, OutcomeInv, Outcome
<1> QED BY <1>1, NovaInvariant, PTL

(* Of the answers that arrive, only one to a request that was sent with    *)
(* another cookie, or was executed under another secret, takes a login     *)
(* away.                                                                   *)
THEOREM OnlyOlderRequestsLogOut == Spec => LoginLostOnlyToOlderRequest
<1> DEFINE Lost(i) == reqs[i] # Unsent /\ reqs[i].got = "nothing" /\ reqs'[i].got = "answer" /\ jar.data.user /\ ~jar'.data.user
           Older(i) == reqs[i].cookie # jar \/ reqs[i].secret # jar.secret
<1>1. NovaIInv /\ Next => \A i \in Ids : Lost(i) => Older(i)
  <2> SUFFICES ASSUME NovaIInv, Next, NEW i \in Ids, Lost(i), reqs[i].cookie = jar, reqs[i].secret = jar.secret
               PROVE  FALSE
    OBVIOUS
  <2>1. reqs[i] \in Requests /\ reqs \in [Ids -> {Unsent} \cup Requests]
    BY DEF NovaIInv, TypeInv, RequestTypes
  <2>2. Deliver(i)
    <3>1. ASSUME NEW j \in Ids, NEW kind \in Kinds, NEW token, Send(j, kind, token)
          PROVE  FALSE
      BY <2>1, <3>1 DEF Send
    <3>2. ASSUME NEW j \in Ids, Execute(j) \/ Abort(j) \/ Finish(j) \/ Lose(j)
          PROVE  FALSE
      BY <2>1, <3>2 DEF Execute, Abort, Finish, Lose
    <3>3. ~Expire /\ ~Redeploy
      BY DEF Expire, Redeploy
    <3>4. ASSUME NEW j \in Ids, Deliver(j)
          PROVE  j = i
      BY <2>1, <3>4 DEF Deliver
    <3> QED BY <3>1, <3>2, <3>3, <3>4 DEF Next
  <2>3. reqs[i].phase \notin {"sent", "aborted"} /\ reqs[i].answer # NoCookie /\ jar' = reqs[i].answer
    BY <2>2 DEF Deliver
  <2>4. KeepsLogin(reqs[i])
    BY <2>3 DEF NovaIInv, OutcomeInv, Outcome
  <2>5. jar # NoCookie
    BY NothingYet
  <2> QED BY <2>3, <2>4, <2>5 DEF KeepsLogin
<1>2. NovaIInv /\ [Next]_vars => [\A i \in Ids : Lost(i) => Older(i)]_vars
  BY <1>1
<1> QED BY <1>2, NovaInvariant, PTL DEF Spec, LoginLostOnlyToOlderRequest

-----------------------------------------------------------------------------
(* Induction over the numbers up to a bound, by the set of the numbers of  *)
(* which the claim holds.                                                  *)

LEMMA LeastNumber ==
    ASSUME NEW T, T \subseteq Nat, T # {}
    PROVE  \E x \in T : \A y \in T : ~(y < x)
<1> DEFINE Less == OpToRel(<, Nat)
<1>1. IsWellFoundedOn(Less, Nat)
  BY NatLessThanWellFounded
<1>2. \E x \in T : \A y \in T : ~(<<y, x>> \in Less)
  <2> HIDE DEF Less
  <2> QED BY <1>1, WFMin
<1>3. ASSUME NEW x \in T, NEW y \in T
      PROVE  <<y, x>> \in Less <=> y < x
  BY DEF OpToRel
<1> HIDE DEF Less
<1> QED BY <1>2, <1>3

LEMMA UpTo ==
    ASSUME NEW N \in Nat, NEW S, 0 \in S, \A n \in 0..N - 1 : n \in S => n + 1 \in S
    PROVE  \A n \in 0..N : n \in S
<1> DEFINE T == (0..N) \ S
<1> SUFFICES ASSUME T # {} PROVE FALSE
  OBVIOUS
<1>1. PICK x \in T : \A y \in T : ~(y < x)
  <2>1. T \subseteq Nat
    OBVIOUS
  <2> QED BY <2>1, LeastNumber
<1>2. x # 0 /\ x - 1 \in 0..N - 1
  OBVIOUS
<1>3. x - 1 \in S
  BY <1>1, <1>2
<1> QED BY <1>2, <1>3

LEMMA Climb ==
    ASSUME NEW N \in Nat, NEW S, 0 \in S, \A n \in 1..N : n - 1 \in S => n \in S
    PROVE  \A n \in 0..N : n \in S
<1>1. ASSUME NEW n \in 0..N - 1, n \in S
      PROVE  n + 1 \in S
  <2>1. PICK k \in 1..N : k = n + 1
    OBVIOUS
  <2>2. k - 1 = n
    BY <2>1
  <2> QED BY <1>1, <2>1, <2>2
<1> QED BY <1>1, UpTo
-----------------------------------------------------------------------------
(* What a loop has taken of s when it has come to n.                       *)

Kept(s, positions) ==
    LET upTo[n \in 0..Len(s)] ==
            IF n = 0 THEN <<>>
            ELSE IF n \in positions THEN Append(upTo[n - 1], s[n]) ELSE upTo[n - 1]
    IN  upTo

KeptUpTo(N, s, positions, f) ==
    f = [n \in 0..N |-> IF n = 0 THEN <<>>
                        ELSE IF n \in positions THEN Append(f[n - 1], s[n]) ELSE f[n - 1]]

LEMMA KeptExists ==
    ASSUME NEW N \in Nat, NEW s, NEW positions
    PROVE  \E f : KeptUpTo(N, s, positions, f)
<1> USE DEF KeptUpTo
<1> DEFINE Good(m, f) == KeptUpTo(m, s, positions, f)
           S == {m \in Nat : \E f : Good(m, f)}
<1>1. 0 \in S
  <2>1. Good(0, [n \in 0..0 |-> <<>>])
    OBVIOUS
  <2> QED BY <2>1
<1>2. ASSUME NEW m \in 0..N - 1, m \in S
      PROVE  m + 1 \in S
  <2>0. m \in Nat /\ m + 1 \in Nat
    OBVIOUS
  <2>1. PICK f : Good(m, f)
    BY <1>2
  <2> DEFINE last == IF m + 1 \in positions THEN Append(f[m], s[m + 1]) ELSE f[m]
  <2> HIDE DEF last
  <2> DEFINE h == [n \in 0..m + 1 |-> IF n = m + 1 THEN last ELSE f[n]]
  <2>2. ASSUME NEW n \in 0..m + 1
        PROVE  h[n] = IF n = 0 THEN <<>>
                      ELSE IF n \in positions THEN Append(h[n - 1], s[n]) ELSE h[n - 1]
    <3>1. CASE n = m + 1
      <4>1. h[n] = last
        BY <3>1
      <4>2. h[n - 1] = f[m] /\ n # 0
        BY <3>1, <2>0
      <4> HIDE DEF h
      <4> QED BY <4>1, <4>2, <3>1 DEF last
    <3>2. CASE n = 0
      <4>1. h[0] = f[0] /\ f[0] = <<>>
        BY <2>0, <2>1
      <4> HIDE DEF h
      <4> QED BY <4>1, <3>2
    <3>3. CASE n \in 1..m
      <4>1. n \in 0..m /\ n - 1 \in 0..m + 1 /\ n # 0 /\ n # m + 1 /\ n - 1 # m + 1
        BY <3>3, <2>0
      <4>2. h[n] = f[n] /\ h[n - 1] = f[n - 1]
        BY <4>1
      <4>3. f[n] = IF n \in positions THEN Append(f[n - 1], s[n]) ELSE f[n - 1]
        BY <2>1, <4>1
      <4> HIDE DEF h
      <4> QED BY <4>1, <4>2, <4>3
    <3> QED BY <3>1, <3>2, <3>3, <2>0
  <2>3. h = [n \in 0..m + 1 |-> h[n]]
    OBVIOUS
  <2> HIDE DEF h
  <2> QED BY <2>0, <2>2, <2>3
<1>4. \A m \in 0..N - 1 : m \in S => m + 1 \in S
  BY <1>2
<1>5. N \in S
  <2> HIDE DEF S
  <2>1. \A m \in 0..N : m \in S
    BY <1>1, <1>4, UpTo
  <2> QED BY <2>1
<1> QED BY <1>5

LEMMA KeptIs ==
    ASSUME NEW T, NEW s \in Seq(T), NEW positions
    PROVE  /\ Kept(s, positions) \in [0..Len(s) -> Seq(T)]
           /\ Kept(s, positions)[0] = <<>>
           /\ \A n \in 1..Len(s) :
                 Kept(s, positions)[n] = IF n \in positions THEN Append(Kept(s, positions)[n - 1], s[n])
                                                            ELSE Kept(s, positions)[n - 1]
<1> DEFINE N == Len(s)
           f == Kept(s, positions)
<1>1. N \in Nat /\ \A n \in 1..N : s[n] \in T
  OBVIOUS
<1>2. f = [n \in 0..N |-> IF n = 0 THEN <<>>
                          ELSE IF n \in positions THEN Append(f[n - 1], s[n]) ELSE f[n - 1]]
  <2>1. \E g : KeptUpTo(N, s, positions, g)
    BY <1>1, KeptExists
  <2> QED BY <2>1 DEF Kept, KeptUpTo
<1> HIDE DEF f, N
<1>3. f[0] = <<>> /\ \A n \in 1..N : f[n] = IF n \in positions THEN Append(f[n - 1], s[n]) ELSE f[n - 1]
  <2>1. f[0] = <<>>
    BY <1>1, <1>2
  <2>2. ASSUME NEW n \in 1..N
        PROVE  f[n] = IF n \in positions THEN Append(f[n - 1], s[n]) ELSE f[n - 1]
    <3>1. n \in 0..N /\ n # 0
      BY <1>1
    <3> QED BY <1>2, <3>1
  <2> QED BY <2>1, <2>2
<1>4. \A n \in 0..N : f[n] \in Seq(T)
  <2> DEFINE S == {n \in 0..N : f[n] \in Seq(T)}
  <2>1. 0 \in S
    <3>1. f[0] \in Seq(T)
      BY <1>3, EmptySeq
    <3> QED BY <1>1, <3>1
  <2>2. ASSUME NEW n \in 1..N, n - 1 \in S
        PROVE  n \in S
    <3>1. f[n - 1] \in Seq(T) /\ s[n] \in T
      BY <1>1, <2>2
    <3>2. f[n] = Append(f[n - 1], s[n]) \/ f[n] = f[n - 1]
      BY <1>3
    <3> DEFINE u == f[n - 1]  e == s[n]
    <3> HIDE DEF u, e
    <3>3. Append(u, e) \in Seq(T)
      BY <3>1, AppendProperties DEF u, e
    <3>4. f[n] \in Seq(T)
      BY <3>1, <3>2, <3>3 DEF u, e
    <3> QED BY <1>1, <3>4
  <2> HIDE DEF S
  <2>3. \A n \in 0..N : n \in S
    BY <1>1, <2>1, <2>2, Climb
  <2> QED BY <2>3 DEF S
<1>5. f = [n \in 0..N |-> f[n]]
  BY <1>2
<1> QED BY <1>3, <1>4, <1>5 DEF f, N

(* The number of positions up to n that are kept.                          *)
Place(s, positions, n) == Len(Kept(s, positions)[n])

LEMMA PlaceIs ==
    ASSUME NEW T, NEW s \in Seq(T), NEW positions
    PROVE  /\ Place(s, positions, 0) = 0
           /\ \A n \in 0..Len(s) : Place(s, positions, n) \in Nat
           /\ \A n \in 1..Len(s) :
                 Place(s, positions, n) = IF n \in positions THEN Place(s, positions, n - 1) + 1
                                                             ELSE Place(s, positions, n - 1)
<1> DEFINE f == Kept(s, positions)
<1>1. /\ f \in [0..Len(s) -> Seq(T)] /\ f[0] = <<>>
      /\ \A n \in 1..Len(s) : f[n] = IF n \in positions THEN Append(f[n - 1], s[n]) ELSE f[n - 1]
  BY KeptIs
<1> HIDE DEF f
<1>2. Len(s) \in Nat
  OBVIOUS
<1>3. Len(f[0]) = 0
  BY <1>1, EmptySeq
<1>4. \A n \in 0..Len(s) : Len(f[n]) \in Nat
  BY <1>1, LenProperties
<1>5. ASSUME NEW n \in 1..Len(s)
      PROVE  Len(f[n]) = IF n \in positions THEN Len(f[n - 1]) + 1 ELSE Len(f[n - 1])
  <2>1. n - 1 \in 0..Len(s)
    BY <1>2
  <2> DEFINE u == f[n - 1]  e == s[n]
  <2>2. u \in Seq(T) /\ e \in T
    BY <1>1, <2>1
  <2> HIDE DEF u, e
  <2>3. Len(Append(u, e)) = Len(u) + 1
    BY <2>2, AppendProperties
  <2> QED BY <1>1, <2>3 DEF u, e
<1> QED BY <1>3, <1>4, <1>5 DEF Place, f

LEMMA KeptGrows ==
    ASSUME NEW T, NEW s \in Seq(T), NEW positions, NEW m \in 0..Len(s)
    PROVE  \A n \in 0..Len(s) : m <= n =>
              /\ Place(s, positions, m) <= Place(s, positions, n)
              /\ \A k \in 1..Place(s, positions, m) : Kept(s, positions)[n][k] = Kept(s, positions)[m][k]
<1> DEFINE f == Kept(s, positions)
           P(n) == Place(s, positions, n)
           S == {n \in 0..Len(s) : m <= n => P(m) <= P(n) /\ \A k \in 1..P(m) : f[n][k] = f[m][k]}
<1>1. /\ f \in [0..Len(s) -> Seq(T)]
      /\ \A n \in 1..Len(s) : f[n] = IF n \in positions THEN Append(f[n - 1], s[n]) ELSE f[n - 1]
  BY KeptIs
<1>2. /\ \A n \in 0..Len(s) : P(n) \in Nat /\ P(n) = Len(f[n])
      /\ \A n \in 1..Len(s) : P(n) = IF n \in positions THEN P(n - 1) + 1 ELSE P(n - 1)
  BY PlaceIs DEF Place
<1> HIDE DEF f, P
<1>3. Len(s) \in Nat
  OBVIOUS
<1>4. 0 \in S
  <2>1. m <= 0 => m = 0
    OBVIOUS
  <2> QED BY <1>2, <1>3, <2>1
<1>5. ASSUME NEW n \in 1..Len(s), n - 1 \in S
      PROVE  n \in S
  <2>1. n - 1 \in 0..Len(s) /\ n \in 0..Len(s)
    BY <1>3
  <2>2. CASE m = n
    BY <1>2, <2>1, <2>2
  <2>3. CASE m # n
    <3>1. SUFFICES ASSUME m <= n PROVE P(m) <= P(n) /\ \A k \in 1..P(m) : f[n][k] = f[m][k]
      BY <2>1
    <3>2. m <= n - 1
      BY <2>3, <3>1
    <3>3. P(m) <= P(n - 1) /\ \A k \in 1..P(m) : f[n - 1][k] = f[m][k]
      BY <1>5, <3>2
    <3>4. P(n - 1) \in Nat /\ P(m) \in Nat /\ P(n) \in Nat /\ P(n - 1) <= P(n)
      BY <1>2, <2>1
    <3> DEFINE u == f[n - 1]  e == s[n]
    <3>5. u \in Seq(T) /\ e \in T /\ Len(u) = P(n - 1)
      <4>1. s[n] \in T
        OBVIOUS
      <4>2. f[n - 1] \in Seq(T)
        BY <1>1, <2>1
      <4> QED BY <1>2, <2>1, <4>1, <4>2
    <3>6. f[n] = u \/ f[n] = Append(u, e)
      BY <1>1
    <3> HIDE DEF u, e
    <3>7. \A k \in 1..P(n - 1) : Append(u, e)[k] = u[k]
      BY <3>5, AppendProperties
    <3>8. \A k \in 1..P(n - 1) : f[n][k] = u[k]
      BY <3>6, <3>7
    <3>9. \A k \in 1..P(m) : k \in 1..P(n - 1)
      BY <3>3, <3>4
    <3> QED BY <3>3, <3>4, <3>8, <3>9 DEF u
  <2> QED BY <2>2, <2>3
<1> HIDE DEF S
<1>6. \A n \in 0..Len(s) : n \in S
  BY <1>3, <1>4, <1>5, Climb
<1> QED BY <1>6 DEF S, f, P

LEMMA SelectedIs ==
    ASSUME NEW T, NEW s \in Seq(T), NEW positions
    PROVE  /\ Selected(s, positions) \in Seq(T)
           /\ Len(Selected(s, positions)) = Place(s, positions, Len(s))
           /\ \A n \in 1..Len(s) : n \in positions =>
                 /\ Place(s, positions, n) \in 1..Len(Selected(s, positions))
                 /\ Selected(s, positions)[Place(s, positions, n)] = s[n]
<1> DEFINE f == Kept(s, positions)
           P(n) == Place(s, positions, n)
           r == Selected(s, positions)
<1>1. r = f[Len(s)]
  BY DEF Selected, Kept
<1>2. /\ f \in [0..Len(s) -> Seq(T)]
      /\ \A n \in 1..Len(s) : f[n] = IF n \in positions THEN Append(f[n - 1], s[n]) ELSE f[n - 1]
  BY KeptIs
<1>3. /\ \A n \in 0..Len(s) : P(n) \in Nat /\ P(n) = Len(f[n])
      /\ \A n \in 1..Len(s) : P(n) = IF n \in positions THEN P(n - 1) + 1 ELSE P(n - 1)
  BY PlaceIs DEF Place
<1>4. Len(s) \in Nat /\ Len(s) \in 0..Len(s)
  OBVIOUS
<1>5. ASSUME NEW n \in 1..Len(s), n \in positions
      PROVE  P(n) \in 1..Len(r) /\ r[P(n)] = s[n]
  <2>1. n \in 0..Len(s) /\ n - 1 \in 0..Len(s) /\ n <= Len(s)
    BY <1>4
  <2>2. P(n) <= P(Len(s)) /\ \A k \in 1..P(n) : f[Len(s)][k] = f[n][k]
    BY <1>4, <2>1, KeptGrows
  <2> HIDE DEF f, P, r
  <2> DEFINE u == f[n - 1]  e == s[n]
  <2>3. u \in Seq(T) /\ e \in T /\ P(n) = Len(u) + 1 /\ f[n] = Append(u, e) /\ Len(u) \in Nat
    <3>1. s[n] \in T
      OBVIOUS
    <3>2. f[n - 1] \in Seq(T)
      BY <1>2, <2>1
    <3>3. P(n) = Len(f[n - 1]) + 1 /\ Len(f[n - 1]) \in Nat
      BY <1>3, <1>5, <2>1
    <3>4. f[n] = Append(f[n - 1], s[n])
      BY <1>2, <1>5
    <3> QED BY <3>1, <3>2, <3>3, <3>4
  <2> HIDE DEF u, e
  <2>4. Append(u, e)[Len(u) + 1] = e
    BY <2>3, AppendProperties
  <2>5. f[n][P(n)] = s[n]
    BY <2>3, <2>4 DEF e
  <2>6. P(n) \in 1..P(n)
    BY <2>3
  <2>7. Len(r) = P(Len(s)) /\ Len(r) \in Nat
    BY <1>1, <1>3, <1>4
  <2> QED BY <1>1, <2>2, <2>3, <2>5, <2>6, <2>7
<1> QED BY <1>1, <1>2, <1>3, <1>4, <1>5

(* What is selected has been kept at some position.                        *)
LEMMA SelectedFrom ==
    ASSUME NEW T, NEW s \in Seq(T), NEW positions, NEW k \in 1..Len(Selected(s, positions))
    PROVE  \E n \in 1..Len(s) : n \in positions /\ Place(s, positions, n) = k
<1> DEFINE P(n) == Place(s, positions, n)
           S == {n \in 0..Len(s) : P(n) >= k => \E i \in 1..n : i \in positions /\ P(i) = k}
<1>1. /\ \A n \in 0..Len(s) : P(n) \in Nat
      /\ P(0) = 0 /\ \A n \in 1..Len(s) : P(n) = IF n \in positions THEN P(n - 1) + 1 ELSE P(n - 1)
  BY PlaceIs DEF Place
<1>2. Len(Selected(s, positions)) = P(Len(s))
  BY SelectedIs
<1> HIDE DEF P
<1>3. Len(s) \in Nat /\ Len(s) \in 0..Len(s)
  OBVIOUS
<1>4. 0 \in S
  BY <1>1, <1>3
<1>5. ASSUME NEW n \in 1..Len(s), n - 1 \in S
      PROVE  n \in S
  <2>1. n \in 0..Len(s) /\ n - 1 \in 0..Len(s)
    BY <1>3
  <2>2. SUFFICES ASSUME P(n) >= k PROVE \E i \in 1..n : i \in positions /\ P(i) = k
    BY <2>1
  <2>3. CASE P(n - 1) >= k
    <3>1. \E i \in 1..n - 1 : i \in positions /\ P(i) = k
      BY <1>5, <2>3
    <3>2. \A i \in 1..n - 1 : i \in 1..n
      OBVIOUS
    <3> QED BY <3>1, <3>2
  <2>4. CASE ~(P(n - 1) >= k)
    <3>1. n \in positions /\ P(n) = k
      BY <1>1, <1>2, <2>1, <2>2, <2>4
    <3>2. n \in 1..n
      OBVIOUS
    <3> QED BY <3>1, <3>2
  <2> QED BY <2>3, <2>4
<1> HIDE DEF S
<1>6. Len(s) \in S
  <2>1. \A n \in 0..Len(s) : n \in S
    BY <1>3, <1>4, <1>5, Climb
  <2> QED BY <1>3, <2>1
<1>7. P(Len(s)) >= k
  BY <1>1, <1>2, <1>3
<1> QED BY <1>6, <1>7 DEF S, P

-----------------------------------------------------------------------------
(* The loop that removes the components at some indexes leaves those at    *)
(* the others, because it goes from the last index to the first.           *)

LEMMA RemoveAtIs ==
    ASSUME NEW T, NEW u \in Seq(T), NEW p \in 1..Len(u)
    PROVE  /\ RemoveAt(u, p) \in Seq(T) /\ Len(RemoveAt(u, p)) = Len(u) - 1
           /\ \A k \in 1..Len(u) - 1 : RemoveAt(u, p)[k] = IF k < p THEN u[k] ELSE u[k + 1]
<1> DEFINE a == SubSeq(u, 1, p - 1)
           b == SubSeq(u, p + 1, Len(u))
<1>1. Len(u) \in Nat /\ p \in Nat
  OBVIOUS
<1>2. a \in Seq(T) /\ Len(a) = p - 1 /\ \A k \in 1..p - 1 : a[k] = u[k]
  BY <1>1
<1>3. b \in Seq(T) /\ Len(b) = Len(u) - p /\ \A k \in 1..Len(u) - p : b[k] = u[p + k]
  BY <1>1
<1>4. RemoveAt(u, p) = a \o b
  BY DEF RemoveAt
<1> HIDE DEF a, b
<1>5. /\ a \o b \in Seq(T) /\ Len(a \o b) = Len(a) + Len(b)
      /\ \A k \in 1..Len(a) + Len(b) : (a \o b)[k] = IF k <= Len(a) THEN a[k] ELSE b[k - Len(a)]
  BY <1>2, <1>3, ConcatProperties, Zenon
<1>6. Len(a) + Len(b) = Len(u) - 1
  BY <1>1, <1>2, <1>3
<1>7. ASSUME NEW k \in 1..Len(u) - 1
      PROVE  (a \o b)[k] = IF k < p THEN u[k] ELSE u[k + 1]
  <2>1. k \in 1..Len(a) + Len(b)
    BY <1>6
  <2>2. CASE k < p
    <3>1. k <= Len(a) /\ k \in 1..p - 1
      BY <1>1, <1>2, <2>2
    <3> QED BY <1>2, <1>5, <2>1, <2>2, <3>1
  <2>3. CASE ~(k < p)
    <3>1. ~(k <= Len(a)) /\ k - Len(a) \in 1..Len(u) - p /\ p + (k - Len(a)) = k + 1
      BY <1>1, <1>2, <2>3
    <3>2. PICK j \in 1..Len(u) - p : j = k - Len(a)
      BY <3>1
    <3>3. (a \o b)[k] = b[j]
      BY <1>5, <2>1, <3>1, <3>2
    <3>4. b[j] = u[p + j] /\ p + j = k + 1
      BY <1>3, <3>1, <3>2
    <3> QED BY <2>3, <3>3, <3>4
  <2> QED BY <2>2, <2>3
<1> QED BY <1>4, <1>5, <1>6, <1>7

LEMMA RemoveBehind ==
    ASSUME NEW T, NEW u \in Seq(T), NEW e \in T, NEW p \in 1..Len(u)
    PROVE  RemoveAt(Append(u, e), p) = Append(RemoveAt(u, p), e)
<1> DEFINE v == Append(u, e)
           r == RemoveAt(u, p)
<1>1. v \in Seq(T) /\ Len(v) = Len(u) + 1 /\ Len(u) \in Nat
        /\ v[Len(u) + 1] = e /\ \A k \in 1..Len(u) : v[k] = u[k]
  BY AppendProperties
<1>2. r \in Seq(T) /\ Len(r) = Len(u) - 1
        /\ \A k \in 1..Len(u) - 1 : r[k] = IF k < p THEN u[k] ELSE u[k + 1]
  BY RemoveAtIs
<1> HIDE DEF v, r
<1>3. p \in 1..Len(v)
  BY <1>1
<1>4. RemoveAt(v, p) \in Seq(T) /\ Len(RemoveAt(v, p)) = Len(v) - 1
        /\ \A k \in 1..Len(v) - 1 : RemoveAt(v, p)[k] = IF k < p THEN v[k] ELSE v[k + 1]
  BY <1>1, <1>3, RemoveAtIs
<1>5. Append(r, e) \in Seq(T) /\ Len(Append(r, e)) = Len(r) + 1
        /\ Append(r, e)[Len(r) + 1] = e /\ \A k \in 1..Len(r) : Append(r, e)[k] = r[k]
  BY <1>2, AppendProperties
<1>6. ASSUME NEW k \in 1..Len(u)
      PROVE  RemoveAt(v, p)[k] = Append(r, e)[k]
  <2>1. CASE k = Len(u)
    <3>1. Append(r, e)[k] = e
      BY <1>1, <1>2, <1>5, <2>1
    <3>2. RemoveAt(v, p)[k] = v[k + 1]
      BY <1>1, <1>4, <2>1
    <3> QED BY <1>1, <2>1, <3>1, <3>2
  <2>2. CASE k # Len(u)
    <3>1. k \in 1..Len(u) - 1 /\ k + 1 \in 1..Len(u) /\ k \in 1..Len(v) - 1
      BY <1>1, <2>2
    <3>2. Append(r, e)[k] = IF k < p THEN u[k] ELSE u[k + 1]
      BY <1>2, <1>5, <3>1
    <3>3. v[k] = u[k] /\ v[k + 1] = u[k + 1]
      BY <1>1, <3>1
    <3> QED BY <1>4, <3>1, <3>2, <3>3
  <2> QED BY <2>1, <2>2
<1>7. Len(RemoveAt(v, p)) = Len(u) /\ Len(Append(r, e)) = Len(u)
  BY <1>1, <1>2, <1>4, <1>5
<1>8. RemoveAt(v, p) = Append(r, e)
  BY <1>4, <1>5, <1>6, <1>7, SeqEqual
<1> QED BY <1>8 DEF v, r

LEMMA RemoveSelected ==
    ASSUME NEW T, NEW s \in Seq(T), NEW positions, NEW p \in 1..Len(s), 1..p \subseteq positions
    PROVE  RemoveAt(Selected(s, positions), p) = Selected(s, positions \ {p})
<1> DEFINE N == Len(s)
           f == Kept(s, positions)
           g == Kept(s, positions \ {p})
           S == {n \in 0..N : IF n < p THEN g[n] = f[n] /\ Len(f[n]) = n
                                       ELSE Len(f[n]) >= p /\ g[n] = RemoveAt(f[n], p)}
<1>1. /\ f \in [0..N -> Seq(T)] /\ f[0] = <<>>
      /\ \A n \in 1..N : f[n] = IF n \in positions THEN Append(f[n - 1], s[n]) ELSE f[n - 1]
  BY KeptIs
<1>2. /\ g[0] = <<>>
      /\ \A n \in 1..N : g[n] = IF n \in positions \ {p} THEN Append(g[n - 1], s[n]) ELSE g[n - 1]
  BY KeptIs
<1>3. Selected(s, positions) = f[N] /\ Selected(s, positions \ {p}) = g[N]
  BY DEF Selected, Kept
<1>4. N \in Nat /\ p \in 1..N /\ \A n \in 1..N : s[n] \in T
  OBVIOUS
<1> HIDE DEF f, g, N
<1>5. 0 \in S
  <2>1. Len(f[0]) = 0
    BY <1>1, EmptySeq
  <2> QED BY <1>1, <1>2, <1>4, <2>1
<1>6. ASSUME NEW n \in 1..N, n - 1 \in S
      PROVE  n \in S
  <2> DEFINE u == f[n - 1]  e == s[n]  v == f[n]
  <2>1. n \in 0..N /\ n - 1 \in 0..N /\ n \in Nat /\ p \in Nat
    BY <1>4
  <2>2. u \in Seq(T) /\ e \in T /\ v \in Seq(T)
    BY <1>1, <1>4, <2>1
  <2>3. v = IF n \in positions THEN Append(u, e) ELSE u
    BY <1>1
  <2>4. g[n] = IF n \in positions \ {p} THEN Append(g[n - 1], e) ELSE g[n - 1]
    BY <1>2
  <2>5. IF n - 1 < p THEN g[n - 1] = u /\ Len(u) = n - 1
                     ELSE Len(u) >= p /\ g[n - 1] = RemoveAt(u, p)
    BY <1>6
  <2> HIDE DEF u, e, v
  <2>6. Append(u, e) \in Seq(T) /\ Len(Append(u, e)) = Len(u) + 1 /\ Len(u) \in Nat
          /\ \A k \in 1..Len(u) : Append(u, e)[k] = u[k]
    BY <2>2, AppendProperties
  <2>7. n <= p => n \in positions
    BY <2>1
  <2>8. CASE n < p
    <3>1. g[n] = Append(u, e) /\ v = Append(u, e) /\ Len(u) = n - 1
      BY <2>1, <2>3, <2>4, <2>5, <2>7, <2>8
    <3>2. Len(v) = n
      BY <2>1, <2>6, <3>1
    <3> QED BY <2>1, <2>8, <3>1, <3>2 DEF v
  <2>9. CASE n = p
    <3>1. g[n] = u /\ v = Append(u, e) /\ Len(u) = p - 1
      BY <2>1, <2>3, <2>4, <2>5, <2>7, <2>9
    <3>2. Len(v) = p
      BY <2>1, <2>6, <3>1
    <3>3. p \in 1..Len(v) /\ v \in Seq(T)
      BY <1>4, <2>2, <3>2
    <3>4. RemoveAt(v, p) \in Seq(T) /\ Len(RemoveAt(v, p)) = Len(u)
            /\ \A k \in 1..Len(u) : RemoveAt(v, p)[k] = IF k < p THEN v[k] ELSE v[k + 1]
      <4>1. Len(v) - 1 = Len(u)
        BY <2>1, <3>1, <3>2
      <4> QED BY <3>3, <4>1, RemoveAtIs
    <3>5. \A k \in 1..Len(u) : RemoveAt(v, p)[k] = u[k]
      BY <2>1, <2>6, <3>1, <3>4
    <3>6. RemoveAt(v, p) = u
      BY <2>2, <3>4, <3>5, SeqEqual
    <3>7. Len(v) >= p
      BY <2>1, <3>2
    <3>8. ~(n < p)
      BY <2>1, <2>9
    <3> QED BY <2>1, <3>1, <3>6, <3>7, <3>8 DEF v
  <2>10. CASE n > p
    <3>1. Len(u) >= p /\ g[n - 1] = RemoveAt(u, p) /\ n # p
      BY <2>1, <2>5, <2>10
    <3>2. p \in 1..Len(u)
      BY <1>4, <2>6, <3>1
    <3>3. RemoveAt(Append(u, e), p) = Append(RemoveAt(u, p), e)
      BY <2>2, <3>2, RemoveBehind
    <3>4. g[n] = RemoveAt(v, p)
      BY <2>3, <2>4, <3>1, <3>3
    <3>5. Len(v) >= p
      BY <2>1, <2>3, <2>6, <3>1
    <3>6. ~(n < p)
      BY <2>1, <2>10
    <3> QED BY <2>1, <3>4, <3>5, <3>6 DEF v
  <2> QED BY <2>1, <2>8, <2>9, <2>10
<1> HIDE DEF S
<1>7. N \in S
  <2>1. \A n \in 0..N : n \in S
    BY <1>4, <1>5, <1>6, Climb
  <2> QED BY <1>4, <2>1
<1>8. ~(N < p)
  BY <1>4
<1> QED BY <1>3, <1>7, <1>8 DEF S

(* If nothing is left out, all of it is kept.                              *)
LEMMA SelectedAll ==
    ASSUME NEW T, NEW s \in Seq(T), NEW positions, 1..Len(s) \subseteq positions
    PROVE  Selected(s, positions) = s
<1> DEFINE g == Kept(s, positions)
           S == {n \in 0..Len(s) : Len(g[n]) = n /\ \A k \in 1..n : g[n][k] = s[k]}
<1>0. Len(s) \in Nat
  OBVIOUS
<1>1. \A n \in 1..Len(s) : n \in positions
  OBVIOUS
<1>2. /\ g \in [0..Len(s) -> Seq(T)] /\ g[0] = <<>>
      /\ \A n \in 1..Len(s) : g[n] = IF n \in positions THEN Append(g[n - 1], s[n]) ELSE g[n - 1]
  BY KeptIs
<1>3. Selected(s, positions) = g[Len(s)]
  BY DEF Selected, Kept
<1> HIDE DEF g
<1>4. 0 \in S
  <2>1. Len(g[0]) = 0
    BY <1>2, EmptySeq
  <2> QED BY <1>0, <2>1
<1>5. ASSUME NEW n \in 1..Len(s), n - 1 \in S
      PROVE  n \in S
  <2> DEFINE u == g[n - 1]  e == s[n]
  <2>1. n - 1 \in 0..Len(s) /\ n \in 0..Len(s) /\ e \in T
    BY <1>0
  <2>2. u \in Seq(T) /\ Len(u) = n - 1 /\ \A k \in 1..n - 1 : u[k] = s[k]
    BY <1>2, <1>5, <2>1
  <2>3. g[n] = Append(u, e)
    BY <1>1, <1>2
  <2> HIDE DEF u
  <2>4. Len(Append(u, e)) = Len(u) + 1 /\ Append(u, e)[Len(u) + 1] = e
          /\ \A k \in 1..Len(u) : Append(u, e)[k] = u[k]
    BY <2>1, <2>2, AppendProperties
  <2>5. Len(g[n]) = n /\ g[n][n] = e /\ \A k \in 1..n - 1 : g[n][k] = s[k]
    BY <2>1, <2>2, <2>3, <2>4
  <2>6. \A k \in 1..n : k = n \/ k \in 1..n - 1
    BY <2>1
  <2> QED BY <2>1, <2>5, <2>6
<1> HIDE DEF S
<1>6. Len(s) \in S
  <2>1. \A n \in 0..Len(s) : n \in S
    BY <1>0, <1>4, <1>5, Climb
  <2> QED BY <1>0, <2>1
<1>7. g[Len(s)] \in Seq(T) /\ Len(g[Len(s)]) = Len(s) /\ \A k \in 1..Len(s) : g[Len(s)][k] = s[k]
  BY <1>0, <1>2, <1>6 DEF S
<1>8. g[Len(s)] = s
  BY <1>7, SeqEqual
<1> QED BY <1>3, <1>8

Ascending(indexes) == \A j, k \in 1..Len(indexes) : j < k => indexes[j] < indexes[k]

LEMMA RemovedIs ==
    ASSUME NEW T, NEW s \in Seq(T), NEW indexes \in Seq(1..Len(s)), Ascending(indexes)
    PROVE  Removed(s, indexes) = Selected(s, (1..Len(s)) \ ToSet(indexes))
<1> DEFINE L == Len(indexes)
           Gone(k) == {indexes[j] : j \in k..L}
           W(k) == Selected(s, (1..Len(s)) \ Gone(k))
           w == [k \in 1..L + 1 |-> W(k)]
           IsLoop(f) == f = [k \in 1..L + 1 |-> IF k > L THEN s ELSE RemoveAt(f[k + 1], indexes[k])]
<1>1. L \in Nat /\ Len(s) \in Nat /\ \A k \in 1..L : indexes[k] \in 1..Len(s)
  OBVIOUS
<1>2. \A j, k \in 1..L : j < k => indexes[j] < indexes[k]
  BY DEF Ascending
<1> HIDE DEF L
<1>3. W(L + 1) = s
  <2>1. 1..Len(s) \subseteq (1..Len(s)) \ Gone(L + 1)
    BY <1>1
  <2> QED BY <2>1, SelectedAll
<1>4. ASSUME NEW k \in 1..L
      PROVE  W(k) = RemoveAt(W(k + 1), indexes[k])
  <2> DEFINE rest == (1..Len(s)) \ Gone(k + 1)
             p == indexes[k]
  <2>1. p \in 1..Len(s)
    BY <1>1
  <2>2. \A q \in 1..p : q \in rest
    <3>1. \A j \in k + 1..L : j \in 1..L /\ k < j
      BY <1>1
    <3>2. \A j \in k + 1..L : p < indexes[j] /\ indexes[j] \in 1..Len(s)
      BY <1>1, <1>2, <3>1
    <3> QED BY <1>1, <2>1, <3>2
  <2>3. (1..Len(s)) \ Gone(k) = rest \ {p}
    <3>1. \A j : j \in k..L <=> j = k \/ j \in k + 1..L
      BY <1>1
    <3> QED BY <3>1
  <2> HIDE DEF rest, p
  <2>4. RemoveAt(Selected(s, rest), p) = Selected(s, rest \ {p})
    <3>1. 1..p \subseteq rest
      BY <2>2
    <3> QED BY <2>1, <3>1, RemoveSelected
  <2> QED BY <2>3, <2>4 DEF rest, p
<1> HIDE DEF W
<1>5. IsLoop(w)
  <2>1. ASSUME NEW k \in 1..L + 1
        PROVE  w[k] = IF k > L THEN s ELSE RemoveAt(w[k + 1], indexes[k])
    <3>1. CASE k > L
      <4>1. k = L + 1
        BY <1>1, <3>1
      <4> QED BY <1>3, <3>1, <4>1
    <3>2. CASE ~(k > L)
      <4>1. k \in 1..L /\ k + 1 \in 1..L + 1
        BY <1>1, <3>2
      <4>2. w[k + 1] = W(k + 1) /\ w[k] = W(k)
        BY <4>1
      <4> QED BY <1>4, <3>2, <4>1, <4>2
    <3> QED BY <3>1, <3>2
  <2>2. w = [k \in 1..L + 1 |-> w[k]]
    OBVIOUS
  <2> HIDE DEF w
  <2> QED BY <2>1, <2>2
<1> DEFINE from == CHOOSE f : IsLoop(f)
<1>6. IsLoop(from)
  <2> HIDE DEF IsLoop
  <2> QED BY <1>5
<1>7. Removed(s, indexes) = from[1]
  BY DEF Removed, L
<1> HIDE DEF from
<1>8. \A k \in 1..L + 1 : from[k] = IF k > L THEN s ELSE RemoveAt(from[k + 1], indexes[k])
  BY <1>6
<1> HIDE DEF IsLoop, w
<1> DEFINE S == {n \in 0..L : from[L + 1 - n] = W(L + 1 - n)}
<1>9. 0 \in S
  <2>1. L + 1 \in 1..L + 1 /\ L + 1 > L /\ L + 1 - 0 = L + 1
    BY <1>1
  <2>2. from[L + 1] = s
    BY <1>8, <2>1
  <2> QED BY <1>1, <1>3, <2>1, <2>2
<1>10. ASSUME NEW n \in 1..L, n - 1 \in S
       PROVE  n \in S
  <2>1. PICK k \in 1..L : k = L + 1 - n
    BY <1>1
  <2>2. k \in 1..L + 1 /\ ~(k > L) /\ L + 1 - (n - 1) = k + 1
    BY <1>1, <2>1
  <2>3. from[k + 1] = W(k + 1)
    BY <1>10, <2>2
  <2>4. from[k] = W(k)
    BY <1>4, <1>8, <2>2, <2>3
  <2>5. n \in 0..L
    BY <1>1
  <2> QED BY <2>1, <2>4, <2>5
<1> HIDE DEF S
<1>11. L \in S
  <2>1. \A n \in 0..L : n \in S
    BY <1>1, <1>9, <1>10, Climb
  <2> QED BY <1>1, <2>1
<1>12. from[1] = W(1)
  <2>1. L + 1 - L = 1
    BY <1>1
  <2> QED BY <1>11, <2>1 DEF S
<1>13. Gone(1) = ToSet(indexes)
  <2>1. DOMAIN indexes = 1..L
    BY DEF L
  <2> QED BY <2>1 DEF ToSet
<1> QED BY <1>7, <1>12, <1>13 DEF W

(* A block of consecutive positions is selected as it stands.              *)
Block(s, positions, a, L) == a + L <= Len(s) /\ \A n \in 1..Len(s) : n \in positions <=> a < n /\ n <= a + L

LEMMA SelectedBlock ==
    ASSUME NEW T, NEW s \in Seq(T), NEW positions, NEW a \in Nat, NEW L \in Nat, Block(s, positions, a, L)
    PROVE  /\ Selected(s, positions) \in Seq(T) /\ Len(Selected(s, positions)) = L
           /\ \A k \in 1..L : Selected(s, positions)[k] = s[a + k]
<1> DEFINE P(n) == Place(s, positions, n)
           S == {n \in 0..Len(s) : P(n) = IF n <= a THEN 0 ELSE IF n <= a + L THEN n - a ELSE L}
<1>1. /\ P(0) = 0
      /\ \A n \in 1..Len(s) : P(n) = IF n \in positions THEN P(n - 1) + 1 ELSE P(n - 1)
  BY PlaceIs DEF Place
<1>2. /\ Selected(s, positions) \in Seq(T) /\ Len(Selected(s, positions)) = P(Len(s))
      /\ \A n \in 1..Len(s) : n \in positions => Selected(s, positions)[P(n)] = s[n]
  BY SelectedIs
<1> HIDE DEF P
<1>3. /\ Len(s) \in Nat /\ a + L <= Len(s)
      /\ \A n \in 1..Len(s) : n \in positions <=> a < n /\ n <= a + L
  BY DEF Block
<1>4. 0 \in S
  BY <1>1, <1>3
<1>5. ASSUME NEW n \in 1..Len(s), n - 1 \in S
      PROVE  n \in S
  <2>1. n \in 0..Len(s) /\ n \in Nat
    BY <1>3
  <2>2. P(n - 1) = IF n - 1 <= a THEN 0 ELSE IF n - 1 <= a + L THEN n - 1 - a ELSE L
    BY <1>5
  <2>3. P(n) = IF a < n /\ n <= a + L THEN P(n - 1) + 1 ELSE P(n - 1)
    BY <1>1, <1>3
  <2>4. P(n) = IF n <= a THEN 0 ELSE IF n <= a + L THEN n - a ELSE L
    BY <2>1, <2>2, <2>3
  <2> QED BY <2>1, <2>4
<1> HIDE DEF S
<1>6. \A n \in 0..Len(s) : n \in S
  BY <1>3, <1>4, <1>5, Climb
<1>7. \A n \in 0..Len(s) : P(n) = IF n <= a THEN 0 ELSE IF n <= a + L THEN n - a ELSE L
  BY <1>6 DEF S
<1>8. P(Len(s)) = L
  BY <1>3, <1>7
<1>9. ASSUME NEW k \in 1..L
      PROVE  Selected(s, positions)[k] = s[a + k]
  <2>1. PICK n \in 1..Len(s) : n = a + k
    BY <1>3
  <2>2. n \in positions /\ P(n) = k
    <3>1. n \in 0..Len(s) /\ ~(n <= a) /\ a < n /\ n <= a + L /\ n - a = k
      BY <1>3, <2>1
    <3> QED BY <1>3, <1>7, <3>1
  <2> QED BY <1>2, <2>1, <2>2
<1> QED BY <1>2, <1>8, <1>9

LEMMA FixedAre ==
    ASSUME NEW T, NEW components \in Seq(T)
    PROVE  /\ FixedIndexes(components) \in Seq(1..Len(components))
           /\ Ascending(FixedIndexes(components))
           /\ ToSet(FixedIndexes(components))
                = {i \in 1..Len(components) : components[i] \notin {ParamTag, ParamsTag}}
<1> DEFINE N == Len(components)
           F == {i \in 1..N : components[i] \notin {ParamTag, ParamsTag}}
           s == [i \in 1..N |-> i]
           P(n) == Place(s, F, n)
           r == Selected(s, F)
<1>1. N \in Nat /\ DOMAIN components = 1..N
  OBVIOUS
<1>2. FixedIndexes(components) = r
  BY <1>1 DEF FixedIndexes
<1> HIDE DEF N
<1>3. s \in Seq(1..N) /\ Len(s) = N /\ \A i \in 1..N : s[i] = i
  BY <1>1
<1>4. /\ r \in Seq(1..N)
      /\ \A n \in F : P(n) \in 1..Len(r) /\ r[P(n)] = n
  <2>1. F \subseteq 1..N
    OBVIOUS
  <2> HIDE DEF s, F
  <2>2. /\ r \in Seq(1..N)
        /\ \A n \in 1..Len(s) : n \in F => P(n) \in 1..Len(r) /\ r[P(n)] = s[n]
    BY <1>3, SelectedIs
  <2> QED BY <1>3, <2>1, <2>2
<1>5. \A k \in 1..Len(r) : \E n \in F : P(n) = k
  <2> HIDE DEF s, F
  <2>1. ASSUME NEW k \in 1..Len(r) PROVE \E n \in F : P(n) = k
    BY <1>3, SelectedFrom
  <2> QED BY <2>1
<1>6. \A m, n \in F : m <= n => P(m) <= P(n)
  <2>1. F \subseteq 0..N
    OBVIOUS
  <2> HIDE DEF s, F
  <2>2. ASSUME NEW m \in 0..N PROVE \A n \in 0..N : m <= n => P(m) <= P(n)
    BY <1>3, KeptGrows
  <2> QED BY <2>1, <2>2
<1>7. \A n \in F : n \in 1..N /\ P(n) \in Nat
  BY <1>4
<1> HIDE DEF s, P, r
<1>8. ToSet(r) = F
  <2>1. DOMAIN r = 1..Len(r)
    BY <1>4
  <2>2. ASSUME NEW n \in F PROVE n \in ToSet(r)
    BY <1>4, <2>1 DEF ToSet
  <2>3. ASSUME NEW n \in ToSet(r) PROVE n \in F
    <3>1. PICK k \in 1..Len(r) : n = r[k]
      BY <2>1 DEF ToSet
    <3>2. PICK m \in F : P(m) = k
      BY <1>5
    <3> QED BY <1>4, <3>1, <3>2
  <2> QED BY <2>2, <2>3
<1>9. ASSUME NEW j \in 1..Len(r), NEW k \in 1..Len(r), j < k
      PROVE  r[j] < r[k]
  <2>1. PICK m \in F : P(m) = j
    BY <1>5
  <2>2. PICK n \in F : P(n) = k
    BY <1>5
  <2>3. ~(n <= m)
    BY <1>6, <1>7, <1>9, <2>1, <2>2
  <2> QED BY <1>4, <1>7, <2>1, <2>2, <2>3
<1> QED BY <1>2, <1>4, <1>8, <1>9 DEF Ascending, N

-----------------------------------------------------------------------------
(* The least of a set of positions: the first element that a test finds.   *)

LEMMA MinIs ==
    ASSUME NEW T, T \subseteq Nat, T # {}
    PROVE  Min(T) \in T /\ \A y \in T : Min(T) <= y
<1>1. PICK x \in T : \A y \in T : ~(y < x)
  BY LeastNumber
<1>2. \A y \in T : x <= y
  BY <1>1
<1> QED BY <1>2 DEF Min

(* The components with a tag [param] among the first n.                    *)
Count(components, n) == Cardinality({j \in 1..n : components[j] = ParamTag})

LEMMA CountIs ==
    ASSUME NEW components
    PROVE  /\ Count(components, 0) = 0
           /\ \A n \in Nat : Count(components, n) \in Nat
           /\ \A n \in Nat \ {0} : Count(components, n) = IF components[n] = ParamTag THEN Count(components, n - 1) + 1
                                                                                    ELSE Count(components, n - 1)
<1> DEFINE C(n) == {j \in 1..n : components[j] = ParamTag}
<1>1. Cardinality(C(0)) = 0
  <2>1. C(0) = {}
    OBVIOUS
  <2> QED BY <2>1, FS_EmptySet
<1>2. ASSUME NEW n \in Nat PROVE IsFiniteSet(C(n)) /\ Cardinality(C(n)) \in Nat
  <2>1. IsFiniteSet(1..n)
    BY FS_Interval
  <2>2. C(n) \subseteq 1..n
    OBVIOUS
  <2> HIDE DEF C
  <2> QED BY <2>1, <2>2, FS_Subset, FS_CardinalityType
<1>3. ASSUME NEW n \in Nat \ {0}
      PROVE  Cardinality(C(n)) = IF components[n] = ParamTag THEN Cardinality(C(n - 1)) + 1 ELSE Cardinality(C(n - 1))
  <2>1. n - 1 \in Nat
    OBVIOUS
  <2>2. CASE components[n] = ParamTag
    <3>1. C(n) = C(n - 1) \cup {n} /\ n \notin C(n - 1)
      <4>1. \A j : j \in 1..n <=> j \in 1..n - 1 \/ j = n
        OBVIOUS
      <4>2. n \notin 1..n - 1
        OBVIOUS
      <4> QED BY <2>2, <4>1, <4>2
    <3>2. IsFiniteSet(C(n - 1))
      BY <1>2, <2>1
    <3> HIDE DEF C
    <3>3. Cardinality(C(n - 1) \cup {n}) = Cardinality(C(n - 1)) + 1
      BY <3>1, <3>2, FS_AddElement
    <3> QED BY <2>2, <3>1, <3>3
  <2>3. CASE components[n] # ParamTag
    <3>1. C(n) = C(n - 1)
      <4>1. \A j \in 1..n : j \in 1..n - 1 \/ j = n
        OBVIOUS
      <4> QED BY <2>3, <4>1
    <3> HIDE DEF C
    <3> QED BY <2>3, <3>1
  <2> QED BY <2>2, <2>3
<1> QED BY <1>1, <1>2, <1>3 DEF Count

-----------------------------------------------------------------------------
(* The components of a route in which [params] is the last one, if it is   *)
(* there, and how many of them stand for one component of a request.       *)

OneList(components) == \A i \in 1..Len(components) - 1 : components[i] # ParamsTag

Shown(components) == IF Contains(components, ParamsTag) THEN Len(components) - 1 ELSE Len(components)

LEMMA ShownIs ==
    ASSUME NEW T, NEW components \in Seq(T), OneList(components)
    PROVE  /\ Shown(components) \in Nat
           /\ \A i \in 1..Shown(components) : i \in 1..Len(components) /\ components[i] # ParamsTag
           /\ Contains(components, ParamsTag) =>
                 /\ Len(components) = Shown(components) + 1 /\ components[Len(components)] = ParamsTag
                 /\ {i \in 1..Len(components) : components[i] = ParamsTag} = {Len(components)}
           /\ ~Contains(components, ParamsTag) => Len(components) = Shown(components)
           /\ \A i \in 1..Len(components) : components[i] \notin {ParamTag, ParamsTag} => i \in 1..Shown(components)
           /\ Count(components, Len(components)) = Count(components, Shown(components))
<1> DEFINE N == Len(components)
<1>1. N \in Nat
  OBVIOUS
<1>2. ParamTag # ParamsTag
  BY DEF ParamTag, ParamsTag
<1>3. CASE Contains(components, ParamsTag)
  <2>1. PICK i \in 1..N : components[i] = ParamsTag
    BY <1>3 DEF Contains
  <2>2. i = N
    <3>1. SUFFICES ASSUME i # N PROVE FALSE
      OBVIOUS
    <3>2. i \in 1..N - 1
      BY <1>1, <3>1
    <3> QED BY <2>1, <3>2 DEF OneList
  <2>3. components[N] = ParamsTag /\ N \in Nat \ {0}
    BY <1>1, <2>1, <2>2
  <2>4. Shown(components) = N - 1
    BY <1>3 DEF Shown
  <2> HIDE DEF N
  <2>5. \A j \in 1..N : j # N => j \in 1..N - 1
    BY <2>3
  <2>6. \A j \in 1..N - 1 : j \in 1..N /\ components[j] # ParamsTag
    BY <2>3 DEF OneList, N
  <2>7. {j \in 1..N : components[j] = ParamsTag} = {N}
    BY <2>3, <2>5, <2>6
  <2>8. Count(components, N) = Count(components, N - 1)
    BY <1>2, <2>3, CountIs
  <2>9. {j \in 1..Len(components) : components[j] = ParamsTag} = {Len(components)}
    BY <2>7 DEF N
  <2>10. /\ Shown(components) \in Nat /\ Len(components) = Shown(components) + 1
         /\ components[Len(components)] = ParamsTag
         /\ Count(components, Len(components)) = Count(components, Shown(components))
    BY <2>3, <2>4, <2>8 DEF N
  <2>11. \A j \in 1..Shown(components) : j \in 1..Len(components) /\ components[j] # ParamsTag
    BY <2>4, <2>6 DEF N
  <2>12. \A j \in 1..Len(components) : components[j] \notin {ParamTag, ParamsTag} => j \in 1..Shown(components)
    BY <2>3, <2>4, <2>5 DEF N
  <2> QED BY <1>3, <2>9, <2>10, <2>11, <2>12
<1>4. CASE ~Contains(components, ParamsTag)
  <2>1. \A i \in 1..N : components[i] # ParamsTag
    BY <1>4 DEF Contains
  <2>2. Shown(components) = N
    BY <1>4 DEF Shown
  <2> QED BY <1>1, <1>4, <2>1, <2>2
<1> QED BY <1>3, <1>4

(* The components of a request that are left for the parameters, and how   *)
(* many of them there are up to n.                                         *)
Free(components, request) == (1..Len(request)) \ ToSet(FixedIndexes(components))

Spots(components, n) ==
    IF n <= Shown(components) THEN Count(components, n)
                              ELSE Count(components, Shown(components)) + n - Shown(components)

LEMMA FreeIs ==
    ASSUME NEW T, NEW components \in Seq(T), OneList(components),
           NEW request \in Seq(T), Shown(components) <= Len(request)
    PROVE  \A n \in 1..Len(request) :
              n \in Free(components, request) <=> n > Shown(components) \/ components[n] = ParamTag
<1>1. /\ Shown(components) \in Nat
      /\ \A i \in 1..Shown(components) : i \in 1..Len(components) /\ components[i] # ParamsTag
      /\ \A i \in 1..Len(components) : components[i] \notin {ParamTag, ParamsTag} => i \in 1..Shown(components)
  BY ShownIs
<1>2. ToSet(FixedIndexes(components)) = {i \in 1..Len(components) : components[i] \notin {ParamTag, ParamsTag}}
  BY FixedAre
<1>3. Len(request) \in Nat
  OBVIOUS
<1> SUFFICES ASSUME NEW n \in 1..Len(request)
             PROVE  n \in Free(components, request) <=> n > Shown(components) \/ components[n] = ParamTag
  OBVIOUS
<1>4. n \in Free(components, request) <=> n \notin {i \in 1..Len(components) : components[i] \notin {ParamTag, ParamsTag}}
  BY <1>2 DEF Free
<1>5. CASE n > Shown(components)
  <2>1. n \notin 1..Shown(components)
    BY <1>1, <1>3, <1>5
  <2> QED BY <1>1, <1>4, <1>5, <2>1
<1>6. CASE ~(n > Shown(components))
  <2>1. n \in 1..Shown(components)
    BY <1>1, <1>3, <1>6
  <2>2. n \in 1..Len(components) /\ components[n] # ParamsTag
    BY <1>1, <2>1
  <2> QED BY <1>4, <1>6, <2>2
<1> QED BY <1>5, <1>6

LEMMA PlacesAre ==
    ASSUME NEW T, NEW components \in Seq(T), OneList(components),
           NEW request \in Seq(T), Shown(components) <= Len(request)
    PROVE  \A n \in 0..Len(request) : Place(request, Free(components, request), n) = Spots(components, n)
<1> DEFINE P(n) == Place(request, Free(components, request), n)
           sh == Shown(components)
           C(n) == Count(components, n)
           S == {n \in 0..Len(request) : P(n) = Spots(components, n)}
<1>1. /\ P(0) = 0
      /\ \A n \in 1..Len(request) : P(n) = IF n \in Free(components, request) THEN P(n - 1) + 1 ELSE P(n - 1)
  BY PlaceIs DEF Place
<1>2. /\ C(0) = 0 /\ \A n \in Nat : C(n) \in Nat
      /\ \A n \in Nat \ {0} : C(n) = IF components[n] = ParamTag THEN C(n - 1) + 1 ELSE C(n - 1)
  BY CountIs
<1>3. sh \in Nat /\ Len(request) \in Nat
  BY ShownIs
<1>4. \A n \in 1..Len(request) : n \in Free(components, request) <=> n > sh \/ components[n] = ParamTag
  BY FreeIs
<1>5. \A n : Spots(components, n) = IF n <= sh THEN C(n) ELSE C(sh) + n - sh
  BY DEF Spots
<1> HIDE DEF P, C, sh
<1>6. 0 \in S
  BY <1>1, <1>2, <1>3, <1>5
<1>7. ASSUME NEW n \in 1..Len(request), n - 1 \in S
      PROVE  n \in S
  <2>1. n \in 0..Len(request) /\ n \in Nat \ {0} /\ n - 1 \in Nat /\ P(n - 1) = Spots(components, n - 1)
    BY <1>3, <1>7
  <2>2. CASE n <= sh
    <3>1. n - 1 <= sh /\ ~(n > sh)
      BY <1>3, <2>1, <2>2
    <3>2. P(n - 1) = C(n - 1)
      BY <1>5, <2>1, <3>1
    <3>3. P(n) = C(n)
      BY <1>1, <1>2, <1>4, <2>1, <3>1, <3>2
    <3> QED BY <1>5, <2>1, <2>2, <3>3
  <2>3. CASE ~(n <= sh)
    <3>1. n > sh
      BY <1>3, <2>1, <2>3
    <3>2. P(n) = P(n - 1) + 1
      BY <1>1, <1>4, <3>1
    <3>3. P(n - 1) = C(sh) + (n - 1) - sh
      <4>1. CASE n - 1 = sh
        <5>1. P(n - 1) = C(n - 1)
          BY <1>3, <1>5, <2>1, <4>1
        <5>2. C(sh) \in Nat
          BY <1>2, <1>3
        <5>3. C(n - 1) = C(sh)
          BY <4>1
        <5> QED BY <1>3, <4>1, <5>1, <5>2, <5>3
      <4>2. CASE n - 1 # sh
        <5>1. ~(n - 1 <= sh)
          BY <1>3, <2>1, <3>1, <4>2
        <5> QED BY <1>5, <2>1, <5>1
      <4> QED BY <4>1, <4>2
    <3>4. C(sh) \in Nat
      BY <1>2, <1>3
    <3>5. P(n) = C(sh) + n - sh
      BY <1>3, <2>1, <3>2, <3>3, <3>4
    <3> QED BY <1>5, <2>1, <2>3, <3>5
  <2> QED BY <2>2, <2>3
<1> HIDE DEF S
<1>8. \A n \in 0..Len(request) : n \in S
  BY <1>3, <1>6, <1>7, Climb
<1> QED BY <1>8 DEF S, P

LEMMA ParametersAre ==
    ASSUME NEW T, NEW components \in Seq(T), OneList(components),
           NEW route, route.fixed = FixedIndexes(components),
           NEW request \in Seq(T), request # Slash, Shown(components) <= Len(request)
    PROVE  Parameters(route, request) = Selected(request, Free(components, request))
<1> DEFINE fixed == FixedIndexes(components)
<1>1. fixed \in Seq(1..Len(components)) /\ Ascending(fixed)
        /\ ToSet(fixed) = {i \in 1..Len(components) : components[i] \notin {ParamTag, ParamsTag}}
  BY FixedAre
<1>2. /\ Shown(components) \in Nat
      /\ \A i \in 1..Len(components) : components[i] \notin {ParamTag, ParamsTag} => i \in 1..Shown(components)
  BY ShownIs
<1>3. Len(request) \in Nat
  OBVIOUS
<1>4. Parameters(route, request) = Removed(request, fixed)
  BY DEF Parameters
<1> HIDE DEF fixed
<1>5. fixed \in Seq(1..Len(request))
  <2>1. DOMAIN fixed = 1..Len(fixed) /\ Len(fixed) \in Nat /\ fixed \in [1..Len(fixed) -> 1..Len(components)]
    BY <1>1, LenProperties
  <2>2. ASSUME NEW k \in 1..Len(fixed) PROVE fixed[k] \in 1..Len(request)
    <3>1. fixed[k] \in ToSet(fixed)
      BY <2>1 DEF ToSet
    <3>2. fixed[k] \in 1..Shown(components)
      BY <1>1, <1>2, <3>1
    <3>3. \A x \in 1..Shown(components) : x \in 1..Len(request)
      <4>1. Shown(components) \in Nat /\ Shown(components) <= Len(request)
        BY <1>2
      <4> QED BY <1>3, <4>1
    <3> QED BY <3>2, <3>3
  <2>3. fixed \in [1..Len(fixed) -> 1..Len(request)]
    BY <2>1, <2>2
  <2> QED BY <2>1, <2>3
<1>6. Removed(request, fixed) = Selected(request, (1..Len(request)) \ ToSet(fixed))
  BY <1>1, <1>5, RemovedIs
<1> QED BY <1>4, <1>6 DEF Free, fixed

-----------------------------------------------------------------------------
(* The path that is made of a route's components and of parameters.        *)

Filled(components, params) ==
    [i \in 1..Shown(components) |-> IF components[i] = ParamTag THEN params[Count(components, i - 1) + 1] ELSE components[i]]

Left(components, params) ==
    IF Contains(components, ParamsTag) THEN SubSeq(params, Count(components, Shown(components)) + 1, Len(params)) ELSE <<>>

LEMMA GeneratePathIs ==
    ASSUME NEW T, NEW components \in Seq(T), OneList(components), NEW params
    PROVE  GeneratePath(components, params)
             = Slash \o Filled(components, params)
               \o (IF Left(components, params) = <<>> THEN Slash ELSE Left(components, params))
<1> DEFINE tags == {i \in 1..Len(components) : components[i] = ParamsTag}
           end == IF tags # {} THEN Min(tags) ELSE 0
<1>1. Len(components) \in Nat /\ Shown(components) \in Nat
  BY ShownIs
<1>2. end = IF Contains(components, ParamsTag) THEN Len(components) ELSE 0
  <2>1. CASE Contains(components, ParamsTag)
    <3>1. tags = {Len(components)}
      BY <2>1, ShownIs
    <3>2. tags # {}
      BY <3>1
    <3> HIDE DEF tags
    <3>3. Min(tags) = Len(components)
      BY <1>1, <3>1, MinIs
    <3> QED BY <2>1, <3>2, <3>3
  <2>2. CASE ~Contains(components, ParamsTag)
    <3>1. tags = {}
      BY <2>2 DEF Contains
    <3> HIDE DEF tags
    <3> QED BY <2>2, <3>1
  <2> QED BY <2>1, <2>2
<1>3. Contains(components, ParamsTag) => Len(components) # 0 /\ Len(components) = Shown(components) + 1
  BY <1>1, ShownIs
<1>4. (IF end = 0 THEN Len(components) ELSE end - 1) = Shown(components)
  <2> HIDE DEF end
  <2> QED BY <1>1, <1>2, <1>3, ShownIs
<1>5. (IF end = 0 THEN <<>> ELSE SubSeq(params, Count(components, end - 1) + 1, Len(params))) = Left(components, params)
  <2> HIDE DEF end
  <2>1. CASE Contains(components, ParamsTag)
    <3>1. end # 0 /\ end - 1 = Shown(components)
      BY <1>1, <1>2, <1>3, <2>1
    <3> QED BY <2>1, <3>1 DEF Left
  <2>2. CASE ~Contains(components, ParamsTag)
    BY <1>2, <2>2 DEF Left
  <2> QED BY <2>1, <2>2
<1>6. end = SelectInSeq(components, LAMBDA component : component = ParamsTag)
  BY DEF SelectInSeq
<1>7. \A i \in 1..Shown(components) : Count(components, i - 1) = Cardinality({j \in 1..i - 1 : components[j] = ParamTag})
  BY DEF Count
<1> DEFINE shown == IF end = 0 THEN Len(components) ELSE end - 1
           filled == [i \in 1..shown |->
                        IF components[i] = ParamTag THEN params[Count(components, i - 1) + 1] ELSE components[i]]
           left == IF end = 0 THEN <<>> ELSE SubSeq(params, Count(components, end - 1) + 1, Len(params))
<1>8. GeneratePath(components, params) = Slash \o filled \o (IF left = <<>> THEN Slash ELSE left)
  <2> HIDE DEF end
  <2> QED BY <1>6, Zenon DEF GeneratePath, Count
<1>9. filled = Filled(components, params)
  <2> HIDE DEF end
  <2> QED BY <1>4 DEF Filled
<1> HIDE DEF end, filled
<1> QED BY <1>5, <1>8, <1>9

LEMMA JoinedAre ==
    ASSUME NEW T, NEW a \in Seq(T), NEW b \in Seq(T), NEW s \in Seq(T), Len(s) = Len(a) + Len(b),
           \A i \in 1..Len(a) : a[i] = s[i], \A k \in 1..Len(b) : b[k] = s[Len(a) + k]
    PROVE  a \o b = s
<1>1. /\ a \o b \in Seq(T) /\ Len(a \o b) = Len(a) + Len(b)
      /\ \A i \in 1..Len(a) + Len(b) : (a \o b)[i] = IF i <= Len(a) THEN a[i] ELSE b[i - Len(a)]
  BY ConcatProperties, Zenon
<1>2. Len(a) \in Nat /\ Len(b) \in Nat
  OBVIOUS
<1>3. ASSUME NEW i \in 1..Len(s) PROVE (a \o b)[i] = s[i]
  <2>1. i \in 1..Len(a) + Len(b)
    OBVIOUS
  <2>2. CASE i <= Len(a)
    <3>1. i \in 1..Len(a)
      BY <1>2, <2>1, <2>2
    <3> QED BY <1>1, <2>1, <2>2, <3>1
  <2>3. CASE ~(i <= Len(a))
    <3>0. i - Len(a) \in 1..Len(b)
      BY <1>2, <2>1, <2>3
    <3>1. PICK k \in 1..Len(b) : k = i - Len(a)
      BY <3>0
    <3>2. Len(a) + k = i
      BY <1>2, <3>1
    <3>3. (a \o b)[i] = b[k]
      BY <1>1, <2>1, <2>3, <3>1
    <3> QED BY <3>2, <3>3
  <2> QED BY <2>2, <2>3
<1> QED BY <1>1, <1>3, SeqEqual

(* What the parsing of a path drops are the slashes around it.             *)
LEMMA CullPath ==
    ASSUME NEW T, Empty \in T, NEW a \in Seq(T), NEW b \in Seq(T), \A i \in 1..Len(a) : a[i] # Empty, \A i \in 1..Len(b) : b[i] # Empty
    PROVE  Cull(Slash \o a \o (IF b = <<>> THEN Slash ELSE b)) = a \o b
<1> DEFINE end == IF b = <<>> THEN Slash ELSE b
           sa == Slash \o a
           path == sa \o end
           d == a \o b
<1>1. Slash \in Seq(T) /\ Len(Slash) = 1 /\ Slash[1] = Empty
  BY DEF Slash
<1>2. /\ sa \in Seq(T) /\ Len(sa) = 1 + Len(a)
      /\ \A i \in 1..1 + Len(a) : sa[i] = IF i <= 1 THEN Slash[i] ELSE a[i - 1]
  <2> DEFINE slash == Slash
  <2> HIDE DEF slash
  <2>1. slash \in Seq(T) /\ Len(slash) = 1
    BY <1>1 DEF slash
  <2>2. /\ slash \o a \in Seq(T) /\ Len(slash \o a) = Len(slash) + Len(a)
        /\ \A i \in 1..Len(slash) + Len(a) : (slash \o a)[i] = IF i <= Len(slash) THEN slash[i] ELSE a[i - Len(slash)]
    BY <2>1, ConcatProperties, Zenon
  <2> QED BY <2>1, <2>2 DEF slash
<1>3. end \in Seq(T)
  BY <1>1
<1>4. /\ d \in Seq(T) /\ Len(d) = Len(a) + Len(b)
      /\ \A i \in 1..Len(a) + Len(b) : d[i] = IF i <= Len(a) THEN a[i] ELSE b[i - Len(a)]
  BY ConcatProperties, Zenon
<1>5. Len(a) \in Nat /\ Len(b) \in Nat
  OBVIOUS
<1>6. IF Len(b) = 0 THEN Len(end) = 1 /\ end[1] = Empty ELSE end = b
  <2>1. Len(b) = 0 <=> b = <<>>
    BY EmptySeq
  <2> QED BY <1>1, <2>1
<1> HIDE DEF end, sa
<1>7. /\ path \in Seq(T) /\ Len(path) = Len(sa) + Len(end)
      /\ \A i \in 1..Len(sa) + Len(end) : path[i] = IF i <= Len(sa) THEN sa[i] ELSE end[i - Len(sa)]
  BY <1>2, <1>3, ConcatProperties, Zenon
<1> HIDE DEF path, d
<1> DEFINE ink == {i \in DOMAIN path : path[i] # Empty}
<1>8. DOMAIN path = 1..Len(path) /\ Len(path) \in Nat /\ Len(end) \in Nat
  BY <1>3, <1>7, LenProperties
<1>9. Len(end) = IF Len(b) = 0 THEN 1 ELSE Len(b)
  BY <1>6
<1>10. path[1] = Empty
  BY <1>1, <1>2, <1>5, <1>7, <1>8
<1>11. ASSUME NEW k \in 1..Len(d)
       PROVE  path[1 + k] = d[k] /\ d[k] # Empty
  <2>1. k \in 1..Len(a) + Len(b)
    BY <1>4
  <2>2. CASE k <= Len(a)
    <3>1. k \in 1..Len(a) /\ 1 + k \in 1..1 + Len(a) /\ ~(1 + k <= 1) /\ 1 + k - 1 = k
      BY <1>5, <2>1, <2>2
    <3>2. sa[1 + k] = a[k]
      BY <1>2, <3>1
    <3>3. path[1 + k] = sa[1 + k]
      BY <1>2, <1>7, <1>8, <3>1
    <3> QED BY <1>4, <2>1, <2>2, <3>1, <3>2, <3>3
  <2>3. CASE ~(k <= Len(a))
    <3>0. k - Len(a) \in 1..Len(b)
      BY <1>5, <2>1, <2>3
    <3>1. PICK j \in 1..Len(b) : j = k - Len(a)
      BY <3>0
    <3>2. Len(b) # 0 /\ Len(b) \in Nat
      BY <3>1
    <3>3. end = b
      BY <1>6, <3>2
    <3>4. 1 + k \in 1..Len(sa) + Len(end) /\ ~(1 + k <= Len(sa)) /\ 1 + k - Len(sa) = j
      BY <1>2, <1>5, <2>1, <2>3, <3>1, <3>3
    <3>5. path[1 + k] = b[j]
      BY <1>7, <3>3, <3>4
    <3>6. d[k] = b[j] /\ b[j] # Empty
      BY <1>4, <2>1, <2>3, <3>1
    <3> QED BY <3>5, <3>6
  <2> QED BY <2>2, <2>3
<1>12. ASSUME NEW n \in 1..Len(path), n > 1 + Len(d)
       PROVE  path[n] = Empty
  <2>1. n \in 1..Len(sa) + Len(end) /\ n \in Nat
    BY <1>7
  <2>2. n > Len(a) + Len(b) + 1 /\ n <= 1 + Len(a) + Len(end)
    BY <1>2, <1>4, <1>8, <1>12, <2>1
  <2>3. Len(b) = 0
    <3>1. SUFFICES ASSUME Len(b) # 0 PROVE FALSE
      OBVIOUS
    <3>2. Len(end) = Len(b)
      BY <1>9, <3>1
    <3> QED BY <1>5, <2>1, <2>2, <3>2
  <2>4. ~(n <= Len(sa)) /\ n - Len(sa) = 1 /\ end[1] = Empty
    <3>1. Len(end) = 1 /\ end[1] = Empty
      BY <1>6, <2>3
    <3>2. n = Len(a) + 2 /\ Len(sa) = 1 + Len(a)
      BY <1>2, <1>5, <2>1, <2>2, <2>3, <3>1
    <3> QED BY <1>5, <3>1, <3>2
  <2> QED BY <1>7, <2>1, <2>4
<1>13. /\ Len(d) \in Nat /\ 1 + Len(d) <= Len(path)
       /\ \A n \in 1..Len(path) : n \in ink <=> 1 < n /\ n <= 1 + Len(d)
  <2>1. Len(d) \in Nat /\ 1 + Len(d) <= Len(path)
    <3>1. Len(d) = Len(a) + Len(b) /\ Len(path) = 1 + Len(a) + Len(end)
      BY <1>2, <1>4, <1>7
    <3>2. Len(b) <= Len(end)
      BY <1>5, <1>9
    <3> QED BY <1>5, <1>8, <3>1, <3>2
  <2>2. ASSUME NEW n \in 1..Len(path) PROVE n \in ink <=> 1 < n /\ n <= 1 + Len(d)
    <3>1. CASE n = 1
      BY <1>8, <1>10, <3>1
    <3>2. CASE 1 < n /\ n <= 1 + Len(d)
      <4>1. PICK k \in 1..Len(d) : n = 1 + k
        BY <1>8, <2>1, <3>2
      <4> QED BY <1>8, <1>11, <3>2, <4>1
    <3>3. CASE n > 1 + Len(d)
      <4>1. path[n] = Empty
        BY <1>12, <3>3
      <4>2. ~(n <= 1 + Len(d))
        BY <1>8, <2>1, <3>3
      <4> QED BY <4>1, <4>2
    <3> QED BY <1>8, <2>1, <3>1, <3>2, <3>3
  <2> QED BY <2>1, <2>2
<1>14. /\ Selected(path, ink) \in Seq(T) /\ Len(Selected(path, ink)) = Len(d)
       /\ \A k \in 1..Len(d) : Selected(path, ink)[k] = path[1 + k]
  <2> HIDE DEF ink
  <2>1. path \in Seq(T) /\ Len(d) \in Nat /\ 1 \in Nat /\ 1 + Len(d) <= Len(path)
    BY <1>7, <1>13
  <2>2. \A n \in 1..Len(path) : n \in ink <=> 1 < n /\ n <= 1 + Len(d)
    BY <1>13
  <2> DEFINE one == 1  L == Len(d)
  <2>3. one \in Nat /\ L \in Nat /\ one + L <= Len(path)
    BY <2>1
  <2>4. Block(path, ink, one, L)
    BY <2>2, <2>3 DEF Block
  <2> HIDE DEF one, L
  <2>5. /\ Selected(path, ink) \in Seq(T) /\ Len(Selected(path, ink)) = L
        /\ \A k \in 1..L : Selected(path, ink)[k] = path[one + k]
    BY <2>1, <2>3, <2>4, SelectedBlock
  <2> QED BY <2>5 DEF one, L
<1>15. Selected(path, ink) = d
  <2> HIDE DEF ink
  <2> QED BY <1>4, <1>11, <1>14, SeqEqual
<1> QED BY <1>15 DEF Cull, path, d, sa, end

-----------------------------------------------------------------------------
(* What a route leaves of a request and what is made of it are inverse to  *)
(* each other.                                                             *)

LengthRight(components, request) ==
    IF Contains(components, ParamsTag) THEN Len(components) - 1 <= Len(request) ELSE Len(components) = Len(request)

Agree(components, request) == \A i \in ToSet(FixedIndexes(components)) : components[i] = request[i]

Takes(components, params) ==
    IF Contains(components, ParamsTag) THEN Count(components, Len(components)) <= Len(params)
                                       ELSE Count(components, Len(components)) = Len(params)

LEMMA LengthShown ==
    ASSUME NEW T, NEW components \in Seq(T), OneList(components),
           NEW request \in Seq(T)
    PROVE  LengthRight(components, request) <=>
              /\ Shown(components) <= Len(request)
              /\ ~Contains(components, ParamsTag) => Shown(components) = Len(request)
<1>1. /\ Shown(components) \in Nat /\ Len(request) \in Nat
      /\ Contains(components, ParamsTag) => Len(components) = Shown(components) + 1
      /\ ~Contains(components, ParamsTag) => Len(components) = Shown(components)
  BY ShownIs
<1> QED BY <1>1 DEF LengthRight

LEMMA AgreeShown ==
    ASSUME NEW T, NEW components \in Seq(T), OneList(components), NEW request
    PROVE  Agree(components, request) <=>
              \A i \in 1..Shown(components) : components[i] # ParamTag => components[i] = request[i]
<1>1. ToSet(FixedIndexes(components)) = {i \in 1..Len(components) : components[i] \notin {ParamTag, ParamsTag}}
  BY FixedAre
<1>2. /\ \A i \in 1..Shown(components) : i \in 1..Len(components) /\ components[i] # ParamsTag
      /\ \A i \in 1..Len(components) : components[i] \notin {ParamTag, ParamsTag} => i \in 1..Shown(components)
  BY ShownIs
<1> QED BY <1>1, <1>2 DEF Agree

LeftOf(components, request, params) == params = Selected(request, Free(components, request))

MadeAgain(T, components, request, params) ==
    /\ params \in Seq(T) /\ Takes(components, params)
    /\ \A k \in 1..Len(params) : \E n \in 1..Len(request) : params[k] = request[n]
    /\ Filled(components, params) \in Seq(T) /\ Left(components, params) \in Seq(T)
    /\ Filled(components, params) \o Left(components, params) = request

LEMMA Forward ==
    ASSUME NEW T, NEW components \in Seq(T), OneList(components),
           NEW request \in Seq(T), LengthRight(components, request), Agree(components, request),
           NEW params, LeftOf(components, request, params)
    PROVE  MadeAgain(T, components, request, params)
<1> DEFINE free == Free(components, request)
           sh == Shown(components)
           P(n) == Place(request, free, n)
           C(n) == Count(components, n)
           listed == Contains(components, ParamsTag)
           filled == Filled(components, params)
           left == Left(components, params)
<1>1. /\ sh \in Nat /\ sh <= Len(request) /\ Len(request) \in Nat
      /\ ~listed => sh = Len(request)
  BY ShownIs, LengthShown
<1>0. params = Selected(request, free)
  BY DEF LeftOf
<1>2. /\ params \in Seq(T) /\ Len(params) = P(Len(request))
      /\ \A n \in 1..Len(request) : n \in free => P(n) \in 1..Len(params) /\ params[P(n)] = request[n]
  BY <1>0, SelectedIs
<1>3. \A k \in 1..Len(params) : \E n \in 1..Len(request) : n \in free /\ P(n) = k
  <2> HIDE DEF P, free
  <2>1. ASSUME NEW k \in 1..Len(Selected(request, free)) PROVE \E n \in 1..Len(request) : n \in free /\ P(n) = k
    BY SelectedFrom DEF P
  <2> QED BY <1>0, <2>1 DEF free
<1>4. \A n \in 0..Len(request) : P(n) = IF n <= sh THEN C(n) ELSE C(sh) + n - sh
  BY <1>1, PlacesAre DEF Spots
<1>5. \A n \in 1..Len(request) : n \in free <=> n > sh \/ components[n] = ParamTag
  BY <1>1, FreeIs
<1>6. /\ \A n \in Nat : C(n) \in Nat
      /\ \A n \in Nat \ {0} : C(n) = IF components[n] = ParamTag THEN C(n - 1) + 1 ELSE C(n - 1)
  BY CountIs
<1>7. \A i \in 1..sh : components[i] # ParamTag => components[i] = request[i]
  BY AgreeShown
<1>8. C(Len(components)) = C(sh)
  BY ShownIs
<1>9. filled = [i \in 1..sh |-> IF components[i] = ParamTag THEN params[C(i - 1) + 1] ELSE components[i]]
  BY DEF Filled
<1>10. left = IF listed THEN SubSeq(params, C(sh) + 1, Len(params)) ELSE <<>>
  BY DEF Left
<1>11. Takes(components, params) <=> IF listed THEN C(Len(components)) <= Len(params) ELSE C(Len(components)) = Len(params)
  BY DEF Takes
<1> HIDE DEF free, sh, P, C, listed, filled, left
<1>12. Len(params) = C(sh) + Len(request) - sh /\ C(sh) \in Nat
  <2>1. C(sh) \in Nat
    BY <1>1, <1>6
  <2>2. Len(request) \in 0..Len(request)
    BY <1>1
  <2>3. CASE Len(request) = sh
    <3>1. P(Len(request)) = C(sh)
      BY <1>1, <1>4, <2>2, <2>3
    <3> QED BY <1>1, <1>2, <2>1, <2>3, <3>1
  <2>4. CASE Len(request) # sh
    BY <1>1, <1>2, <1>4, <2>1, <2>2, <2>4
  <2> QED BY <2>1, <2>3, <2>4
<1>13. Takes(components, params)
  BY <1>1, <1>8, <1>11, <1>12
<1>14. ASSUME NEW i \in 1..sh
       PROVE  filled[i] = request[i]
  <2>1. i \in 1..Len(request) /\ i \in Nat \ {0} /\ i - 1 \in Nat /\ i <= sh
    BY <1>1
  <2>2. CASE components[i] = ParamTag
    <3>1. P(i) = C(i - 1) + 1
      <4>1. i \in 0..Len(request)
        BY <1>1, <2>1
      <4>2. P(i) = C(i)
        BY <1>4, <2>1, <4>1
      <4> QED BY <1>6, <2>1, <2>2, <4>2
    <3>2. params[P(i)] = request[i]
      BY <1>2, <1>5, <2>1, <2>2
    <3>3. filled[i] = params[C(i - 1) + 1]
      BY <1>9, <2>2
    <3> QED BY <3>1, <3>2, <3>3
  <2>3. CASE components[i] # ParamTag
    BY <1>7, <1>9, <2>3
  <2> QED BY <2>2, <2>3
<1>15. filled \in Seq(T) /\ Len(filled) = sh
  <2>1. \A i \in 1..sh : request[i] \in T
    <3>1. \A i \in 1..sh : i \in 1..Len(request)
      BY <1>1
    <3> QED BY <3>1
  <2>2. filled \in [1..sh -> T]
    BY <1>9, <1>14, <2>1
  <2> QED BY <1>1, <2>2
<1>16. left \in Seq(T) /\ Len(left) = Len(request) - sh /\ \A k \in 1..Len(request) - sh : left[k] = request[sh + k]
  <2>1. CASE listed
    <3> DEFINE m == C(sh) + 1  n == Len(params)
    <3>1. m \in Nat \ {0} /\ n \in Nat /\ n - m + 1 = Len(request) - sh /\ m <= n + 1
      BY <1>1, <1>12
    <3> HIDE DEF m, n
    <3>2. \A i \in m..n : params[i] \in T
      <4>1. \A i \in m..n : i \in 1..n
        BY <3>1
      <4> QED BY <1>2, <4>1 DEF n
    <3>3. left = SubSeq(params, m, n)
      BY <1>10, <2>1 DEF m, n
    <3>4. /\ SubSeq(params, m, n) \in Seq(T)
          /\ Len(SubSeq(params, m, n)) = IF m <= n THEN n - m + 1 ELSE 0
          /\ \A i \in 1..n - m + 1 : SubSeq(params, m, n)[i] = params[m + i - 1]
      <4>1. m \in Int /\ n \in Int
        BY <3>1
      <4> QED BY <3>2, <4>1, SubSeqProperties
    <3>5. Len(left) = Len(request) - sh
      BY <1>1, <3>1, <3>3, <3>4
    <3>6. ASSUME NEW k \in 1..Len(request) - sh PROVE left[k] = request[sh + k]
      <4>1. left[k] = params[m + k - 1]
        BY <3>1, <3>3, <3>4
      <4>2. sh + k \in 1..Len(request) /\ ~(sh + k <= sh) /\ sh + k > sh /\ sh + k \in 0..Len(request)
        BY <1>1
      <4>3. P(sh + k) = C(sh) + k
        BY <1>1, <1>4, <1>12, <4>2
      <4>4. params[P(sh + k)] = request[sh + k]
        BY <1>2, <1>5, <4>2
      <4>5. m + k - 1 = C(sh) + k
        BY <1>12 DEF m
      <4> QED BY <4>1, <4>3, <4>4, <4>5
    <3> QED BY <3>3, <3>4, <3>5, <3>6
  <2>2. CASE ~listed
    <3>1. left = <<>> /\ Len(request) - sh = 0
      BY <1>1, <1>10, <2>2
    <3>2. left \in Seq(T) /\ Len(left) = 0
      BY <3>1, EmptySeq
    <3> QED BY <3>1, <3>2
  <2> QED BY <2>1, <2>2
<1>17. filled \o left = request
  <2>1. Len(request) = Len(filled) + Len(left)
    BY <1>1, <1>15, <1>16
  <2>2. \A i \in 1..Len(filled) : filled[i] = request[i]
    BY <1>14, <1>15
  <2>3. \A k \in 1..Len(left) : left[k] = request[Len(filled) + k]
    BY <1>15, <1>16
  <2> QED BY <1>15, <1>16, <2>1, <2>2, <2>3, JoinedAre
<1>18. \A k \in 1..Len(params) : \E n \in 1..Len(request) : params[k] = request[n]
  BY <1>2, <1>3
<1> QED BY <1>2, <1>13, <1>15, <1>16, <1>17, <1>18 DEF MadeAgain, filled, left

LEMMA Back ==
    ASSUME NEW T, NEW components \in Seq(T), OneList(components),
           NEW params \in Seq(T), Takes(components, params)
    PROVE  LET request == Filled(components, params) \o Left(components, params)
           IN  /\ Filled(components, params) \in Seq(T) /\ Left(components, params) \in Seq(T)
               /\ \A i \in 1..Shown(components) :
                     \/ Filled(components, params)[i] = components[i]
                     \/ \E k \in 1..Len(params) : Filled(components, params)[i] = params[k]
               /\ \A i \in 1..Len(Left(components, params)) : \E k \in 1..Len(params) : Left(components, params)[i] = params[k]
               /\ Len(Filled(components, params)) = Shown(components)
               /\ LengthRight(components, request) /\ Agree(components, request)
               /\ Selected(request, Free(components, request)) = params
<1> DEFINE sh == Shown(components)
           C(n) == Count(components, n)
           listed == Contains(components, ParamsTag)
           filled == Filled(components, params)
           left == Left(components, params)
           request == filled \o left
           free == Free(components, request)
           P(n) == Place(request, free, n)
<1>1. /\ sh \in Nat /\ Len(params) \in Nat /\ C(Len(components)) = C(sh)
      /\ \A i \in 1..sh : i \in 1..Len(components)
  BY ShownIs
<1>2. /\ C(0) = 0 /\ \A n \in Nat : C(n) \in Nat
      /\ \A n \in Nat \ {0} : C(n) = IF components[n] = ParamTag THEN C(n - 1) + 1 ELSE C(n - 1)
  BY CountIs
<1>3. C(sh) <= Len(params) /\ (~listed => C(sh) = Len(params)) /\ C(sh) \in Nat
  BY <1>1, <1>2 DEF Takes
<1>4. filled = [i \in 1..sh |-> IF components[i] = ParamTag THEN params[C(i - 1) + 1] ELSE components[i]]
  BY DEF Filled
<1>5. left = IF listed THEN SubSeq(params, C(sh) + 1, Len(params)) ELSE <<>>
  BY DEF Left
<1> HIDE DEF filled, left, listed, C, sh
<1>6. \A n \in 0..sh : C(n) <= C(sh)
  <2> DEFINE S == {n \in 0..sh : C(sh - n) <= C(sh)}
  <2>1. 0 \in S
    BY <1>1, <1>3
  <2>2. ASSUME NEW n \in 1..sh, n - 1 \in S
        PROVE  n \in S
    <3>1. PICK m \in Nat \ {0} : m = sh - (n - 1)
      BY <1>1
    <3>2. C(m) <= C(sh) /\ m - 1 = sh - n /\ n \in 0..sh
      BY <1>1, <2>2, <3>1
    <3>3. C(m - 1) <= C(m) /\ C(m - 1) \in Nat /\ C(m) \in Nat
      <4>1. m \in Nat \ {0} /\ m \in Nat /\ m - 1 \in Nat
        OBVIOUS
      <4>2. C(m) = C(m - 1) + 1 \/ C(m) = C(m - 1)
        BY <1>2, <4>1
      <4>3. C(m) \in Nat /\ C(m - 1) \in Nat
        BY <1>2, <4>1
      <4> QED BY <4>2, <4>3
    <3>4. C(sh - n) <= C(sh)
      BY <1>3, <3>2, <3>3
    <3> QED BY <3>2, <3>4
  <2> HIDE DEF S
  <2>3. \A n \in 0..sh : n \in S
    BY <1>1, <2>1, <2>2, Climb
  <2>4. ASSUME NEW n \in 0..sh PROVE C(n) <= C(sh)
    <3>1. sh - n \in 0..sh /\ sh - (sh - n) = n
      BY <1>1
    <3> QED BY <2>3, <3>1 DEF S
  <2> QED BY <2>4
<1>7. ASSUME NEW i \in 1..sh, components[i] = ParamTag
      PROVE  C(i - 1) + 1 \in 1..Len(params) /\ C(i - 1) + 1 = C(i)
  <2>1. i \in Nat \ {0} /\ i - 1 \in Nat /\ i \in 0..sh
    BY <1>1
  <2>2. C(i) = C(i - 1) + 1 /\ C(i - 1) \in Nat /\ C(i) <= C(sh)
    BY <1>2, <1>6, <1>7, <2>1
  <2> QED BY <1>1, <1>3, <2>2
<1>8. filled \in Seq(T) /\ Len(filled) = sh
  <2>1. ASSUME NEW i \in 1..sh PROVE filled[i] \in T
    <3>1. CASE components[i] = ParamTag
      BY <1>4, <1>7, <3>1
    <3>2. CASE components[i] # ParamTag
      BY <1>1, <1>4, <3>2
    <3> QED BY <3>1, <3>2
  <2>2. filled \in [1..sh -> T]
    BY <1>4, <2>1
  <2> QED BY <1>1, <2>2
<1>9. ASSUME NEW i \in 1..sh
      PROVE  filled[i] = components[i] \/ \E k \in 1..Len(params) : filled[i] = params[k]
  <2>1. CASE components[i] = ParamTag
    BY <1>4, <1>7, <2>1
  <2>2. CASE components[i] # ParamTag
    BY <1>4, <2>2
  <2> QED BY <2>1, <2>2
<1>10. left \in Seq(T) /\ Len(left) = Len(params) - C(sh) /\ \A k \in 1..Len(params) - C(sh) : left[k] = params[C(sh) + k]
  <2>1. CASE listed
    <3> DEFINE m == C(sh) + 1  n == Len(params)
    <3>1. m \in Nat \ {0} /\ n \in Nat /\ n - m + 1 = Len(params) - C(sh) /\ m <= n + 1
      BY <1>1, <1>3
    <3> HIDE DEF m, n
    <3>2. \A i \in m..n : params[i] \in T
      <4>1. \A i \in m..n : i \in 1..n
        BY <3>1
      <4> QED BY <4>1 DEF n
    <3>3. left = SubSeq(params, m, n)
      BY <1>5, <2>1 DEF m, n
    <3>4. /\ SubSeq(params, m, n) \in Seq(T)
          /\ Len(SubSeq(params, m, n)) = IF m <= n THEN n - m + 1 ELSE 0
          /\ \A i \in 1..n - m + 1 : SubSeq(params, m, n)[i] = params[m + i - 1]
      <4>1. m \in Int /\ n \in Int
        BY <3>1
      <4> QED BY <3>2, <4>1, SubSeqProperties
    <3>5. Len(left) = Len(params) - C(sh)
      BY <1>1, <3>1, <3>3, <3>4
    <3>6. ASSUME NEW k \in 1..Len(params) - C(sh) PROVE left[k] = params[C(sh) + k]
      <4>1. left[k] = params[m + k - 1]
        BY <3>1, <3>3, <3>4
      <4>2. m + k - 1 = C(sh) + k
        BY <1>3 DEF m
      <4> QED BY <4>1, <4>2
    <3> QED BY <3>3, <3>4, <3>5, <3>6
  <2>2. CASE ~listed
    <3>1. left = <<>> /\ Len(params) - C(sh) = 0
      BY <1>1, <1>3, <1>5, <2>2
    <3>2. left \in Seq(T) /\ Len(left) = 0
      BY <3>1, EmptySeq
    <3> QED BY <3>1, <3>2
  <2> QED BY <2>1, <2>2
<1>11. \A i \in 1..Len(left) : \E k \in 1..Len(params) : left[i] = params[k]
  <2>1. ASSUME NEW i \in 1..Len(left) PROVE C(sh) + i \in 1..Len(params) /\ left[i] = params[C(sh) + i]
    BY <1>1, <1>3, <1>10
  <2> QED BY <2>1
<1>12. /\ request \in Seq(T) /\ Len(request) = sh + Len(left) /\ Len(left) \in Nat
       /\ \A i \in 1..sh + Len(left) : request[i] = IF i <= sh THEN filled[i] ELSE left[i - sh]
  <2>1. /\ filled \o left \in Seq(T) /\ Len(filled \o left) = Len(filled) + Len(left)
        /\ \A i \in 1..Len(filled) + Len(left) : (filled \o left)[i] = IF i <= Len(filled) THEN filled[i] ELSE left[i - Len(filled)]
    BY <1>8, <1>10, ConcatProperties, Zenon
  <2>2. Len(left) \in Nat
    BY <1>10, LenProperties
  <2> QED BY <1>8, <2>1, <2>2
<1> HIDE DEF request
<1>13. LengthRight(components, request)
  <2>1. sh <= Len(request)
    BY <1>1, <1>12
  <2>2. ~listed => sh = Len(request)
    BY <1>1, <1>3, <1>10, <1>12
  <2> QED BY <1>12, <2>1, <2>2, LengthShown DEF sh, listed
<1>14. ASSUME NEW i \in 1..sh PROVE request[i] = filled[i] /\ i \in 1..Len(request) /\ i <= sh
  BY <1>1, <1>12
<1>15. Agree(components, request)
  <2>1. \A i \in 1..sh : components[i] # ParamTag => components[i] = request[i]
    BY <1>4, <1>14
  <2> QED BY <2>1, AgreeShown DEF sh
<1>16. sh <= Len(request) /\ Len(request) \in Nat
  BY <1>1, <1>12
<1>17. \A n \in 0..Len(request) : P(n) = IF n <= sh THEN C(n) ELSE C(sh) + n - sh
  BY <1>12, <1>16, PlacesAre DEF Spots, sh, C
<1>18. \A n \in 1..Len(request) : n \in free <=> n > sh \/ components[n] = ParamTag
  BY <1>12, <1>16, FreeIs DEF sh
<1> DEFINE r == Selected(request, free)
<1>19. r \in Seq(T) /\ Len(r) = P(Len(request))
       /\ \A n \in 1..Len(request) : n \in free => r[P(n)] = request[n]
  BY <1>12, SelectedIs
<1>20. \A k \in 1..Len(r) : \E n \in 1..Len(request) : n \in free /\ P(n) = k
  <2> HIDE DEF P, free
  <2>1. ASSUME NEW k \in 1..Len(r) PROVE \E n \in 1..Len(request) : n \in free /\ P(n) = k
    BY <1>12, SelectedFrom DEF P
  <2> QED BY <2>1
<1> HIDE DEF P, free, r
<1>21. Len(r) = Len(params)
  <2>1. Len(request) \in 0..Len(request)
    BY <1>16
  <2>2. CASE Len(request) = sh
    <3>1. P(Len(request)) = C(sh)
      BY <1>16, <1>17, <2>1, <2>2
    <3> QED BY <1>1, <1>3, <1>10, <1>12, <1>19, <2>2, <3>1
  <2>3. CASE Len(request) # sh
    <3>1. P(Len(request)) = C(sh) + Len(request) - sh
      BY <1>1, <1>16, <1>17, <2>1, <2>3
    <3> QED BY <1>1, <1>3, <1>10, <1>12, <1>19, <3>1
  <2> QED BY <2>2, <2>3
<1>22. ASSUME NEW k \in 1..Len(r)
       PROVE  r[k] = params[k]
  <2>1. PICK n \in 1..Len(request) : n \in free /\ P(n) = k
    BY <1>20
  <2>2. r[k] = request[n] /\ n \in 0..Len(request) /\ n \in Nat \ {0}
    BY <1>16, <1>19, <2>1
  <2>3. CASE n <= sh
    <3>1. n \in 1..sh /\ ~(n > sh)
      BY <1>1, <2>2, <2>3
    <3>2. components[n] = ParamTag /\ k = C(n)
      BY <1>17, <1>18, <2>1, <2>2, <2>3, <3>1
    <3>3. filled[n] = params[C(n - 1) + 1] /\ C(n - 1) + 1 = C(n)
      BY <1>4, <1>7, <3>1, <3>2
    <3> QED BY <1>14, <2>2, <3>1, <3>2, <3>3
  <2>4. CASE ~(n <= sh)
    <3>1. k = C(sh) + n - sh
      BY <1>17, <2>1, <2>2, <2>4
    <3>2. n \in 1..sh + Len(left) /\ request[n] = left[n - sh]
      BY <1>12, <2>4
    <3>3. n - sh \in 1..Len(params) - C(sh)
      BY <1>1, <1>3, <1>10, <2>2, <2>4, <3>2
    <3>4. C(sh) + (n - sh) = k
      BY <1>1, <1>3, <2>2, <3>1
    <3> QED BY <1>10, <2>2, <3>2, <3>3, <3>4
  <2> QED BY <2>3, <2>4
<1>23. r = params
  BY <1>19, <1>21, <1>22, SeqEqual
<1> QED BY <1>8, <1>9, <1>10, <1>11, <1>13, <1>15, <1>23 DEF r, free, request, filled, left, sh

-----------------------------------------------------------------------------
(* What the table holds: every route is made by AddRoute of a path.        *)

(* The prover has no rule that says that Empty is a string.                *)
Word == STRING \cup {Empty}

ActionsGiven == ActionNames \ {Empty}

RouteRecords == [method : RouteMethods, components : Seq(Word), paramCount : Nat, custom : BOOLEAN,
                 fixed : Seq(Nat), controller : {Lower[name] : name \in Names}, action : ActionsGiven]

WellMade(route) ==
    /\ route.fixed = FixedIndexes(route.components)
    /\ route.custom = Contains(route.components, ParamsTag)
    /\ route.paramCount = Count(route.components, Len(route.components))

LEMMA ParseIs ==
    ASSUME NEW T, NEW path \in Seq(T)
    PROVE  ParsePathForRoute(path) \in Seq(T)
<1> DEFINE start == IF Len(path) > 1 /\ Head(path) = Empty THEN Tail(path) ELSE path
<1>1. start \in Seq(T)
  <2>1. Len(path) > 1 => path # <<>>
    BY EmptySeq
  <2> QED BY <2>1, HeadTailProperties
<1> HIDE DEF start
<1>2. Len(start) > 1 => SubSeq(start, 1, Len(start) - 1) \in Seq(T)
  <2>1. Len(start) \in Nat /\ \A i \in 1..Len(start) - 1 : start[i] \in T
    BY <1>1
  <2> QED BY <2>1, SubSeqProperties
<1> QED BY <1>1, <1>2 DEF ParsePathForRoute, Front, start

LEMMA ActionPathIs ==
    ASSUME NEW T, Empty \in T, NEW path \in Seq(T), NEW action \in T, NEW tail \in Seq(T)
    PROVE  ActionPath(path, action, tail) \in Seq(T)
<1> DEFINE end == IF tail = <<>> THEN Slash ELSE tail
           name == <<action>>
<1>1. end \in Seq(T) /\ name \in Seq(T)
  BY DEF Slash
<1> HIDE DEF end, name
<1>2. path \o name \in Seq(T)
  BY <1>1, ConcatProperties, Zenon
<1>3. path \o name \o end \in Seq(T)
  BY <1>1, <1>2, ConcatProperties, Zenon
<1> QED BY <1>3 DEF ActionPath, end, name

RouteFor(method, path, name, action) ==
    [method     |-> method,
     components |-> ParsePathForRoute(path),
     paramCount |-> Count(ParsePathForRoute(path), Len(ParsePathForRoute(path))),
     custom     |-> Contains(ParsePathForRoute(path), ParamsTag),
     fixed      |-> FixedIndexes(ParsePathForRoute(path)),
     controller |-> Lower[name],
     action     |-> action]

LEMMA RouteForIs ==
    ASSUME NEW method \in RouteMethods, NEW path \in Seq(Word), NEW name \in Names, NEW action \in ActionsGiven
    PROVE  /\ RouteFor(method, path, name, action) \in RouteRecords /\ WellMade(RouteFor(method, path, name, action))
           /\ RouteFor(method, path, name, action).controller = Lower[name]
           /\ RouteFor(method, path, name, action).action = action
<1> DEFINE components == ParsePathForRoute(path)
<1>1. components \in Seq(Word)
  BY ParseIs
<1> HIDE DEF components
<1>2. Len(components) \in Nat
  BY <1>1
<1>3. Count(components, Len(components)) \in Nat
  BY <1>2, CountIs
<1>4. FixedIndexes(components) \in Seq(Nat)
  <2>1. FixedIndexes(components) \in Seq(1..Len(components))
    BY <1>1, FixedAre
  <2>2. 1..Len(components) \subseteq Nat
    BY <1>2
  <2> HIDE DEF components
  <2> QED BY <2>1, <2>2, SeqMonotonic
<1>5. Contains(components, ParamsTag) \in BOOLEAN
  BY DEF Contains
<1> DEFINE fixed == FixedIndexes(components)  custom == Contains(components, ParamsTag)
           paramCount == Count(components, Len(components))  controller == Lower[name]
<1>6. RouteFor(method, path, name, action)
        = [method |-> method, components |-> components, paramCount |-> paramCount, custom |-> custom,
           fixed |-> fixed, controller |-> controller, action |-> action]
  BY DEF RouteFor, components
<1>7. fixed \in Seq(Nat) /\ custom \in BOOLEAN /\ paramCount \in Nat /\ controller \in {Lower[n] : n \in Names}
  BY <1>3, <1>4, <1>5
<1>8. controller = Lower[name]
  OBVIOUS
<1>9. \A route : route.components = components /\ route.fixed = fixed /\ route.custom = custom
                   /\ route.paramCount = paramCount => WellMade(route)
  BY DEF WellMade
<1> HIDE DEF fixed, custom, paramCount, controller
<1> QED BY <1>1, <1>6, <1>7, <1>8, <1>9 DEF RouteRecords

LEMMA AddRouteIs ==
    ASSUME NEW table, NEW method, NEW path \in Seq(Word), NEW name, NEW action
    PROVE  \/ AddRoute(table, method, path, name, action) = [added |-> FALSE, routes |-> table]
           \/ /\ action # Empty
              /\ AddRoute(table, method, path, name, action)
                   = [added |-> TRUE, routes |-> Append(table, RouteFor(method, path, name, action))]
<1> DEFINE components == ParsePathForRoute(path)
<1>1. DOMAIN components = 1..Len(components)
  <2>1. components \in Seq(Word)
    BY ParseIs
  <2> QED BY <2>1, LenProperties
<1>2. CASE RefusedPath(path) \/ action = Empty
  BY <1>2, Zenon DEF AddRoute
<1>3. CASE ~(RefusedPath(path) \/ action = Empty)
  <2>1. AddRoute(table, method, path, name, action) = [added |-> TRUE, routes |-> Append(table, RouteFor(method, path, name, action))]
    BY <1>1, <1>3, Zenon DEF AddRoute, RouteFor, Count
  <2> QED BY <1>3, <2>1
<1> QED BY <1>2, <1>3

-----------------------------------------------------------------------------
(* The two tables.                                                         *)

ActionTables == UNION {[D -> Nat] : D \in SUBSET ActionsGiven}

ContextRecords == [name : Names, path : Seq(Word), actions : ActionTables]

TablesType ==
    /\ routes \in Seq(RouteRecords) /\ added \in Seq([context : Nat, action : ActionsGiven])
    /\ Len(routes) = Len(added) /\ Len(routes) <= MaxRoutes
    /\ contexts \in Seq(ContextRecords)
    /\ \A name \in DOMAIN dispatcher : dispatcher[name] \in 1..Len(contexts)

RoutesMade == \A i \in 1..Len(routes) : WellMade(routes[i])

(* The action of a route has been bound in the context of its controller.  *)
RoutesBound ==
    \A i \in 1..Len(added) :
        /\ added[i].context \in 1..Len(contexts)
        /\ routes[i].controller = Lower[contexts[added[i].context].name]
        /\ routes[i].action = added[i].action
        /\ added[i].action \in DOMAIN contexts[added[i].context].actions

(* What is bound to an action is a call of RouteAction for it.             *)
HandlersAdded ==
    \A c \in 1..Len(contexts) : \A a \in DOMAIN contexts[c].actions :
        /\ contexts[c].actions[a] \in 1..Len(added)
        /\ added[contexts[c].actions[a]].context = c
        /\ added[contexts[c].actions[a]].action = a

(* Every context is found under its name.                                  *)
ContextsFound ==
    ~CreateTwice /\ open => \A c \in 1..Len(contexts) :
        contexts[c].name \in DOMAIN dispatcher /\ dispatcher[contexts[c].name] = c

TablesInv == TablesType /\ RoutesMade /\ RoutesBound /\ HandlersAdded /\ ContextsFound

LEMMA InsertIs ==
    ASSUME NEW map, NEW key, NEW value, NEW replace
    PROVE  /\ DOMAIN Insert(map, key, value, replace) = DOMAIN map \cup {key}
           /\ \A k \in DOMAIN map : k # key => Insert(map, key, value, replace)[k] = map[k]
           /\ \/ Insert(map, key, value, replace)[key] = value
              \/ key \in DOMAIN map /\ Insert(map, key, value, replace)[key] = map[key]
           /\ key \notin DOMAIN map => Insert(map, key, value, replace)[key] = value
<1>1. CASE key \in DOMAIN map /\ ~replace
  <2>1. Insert(map, key, value, replace) = map
    BY <1>1 DEF Insert
  <2> QED BY <1>1, <2>1
<1>2. CASE ~(key \in DOMAIN map /\ ~replace)
  <2>1. Insert(map, key, value, replace) = [k \in DOMAIN map \cup {key} |-> IF k = key THEN value ELSE map[k]]
    BY <1>2 DEF Insert
  <2> HIDE DEF Insert
  <2> QED BY <2>1
<1> QED BY <1>1, <1>2

LEMMA TableIs ==
    ASSUME NEW table \in ActionTables, NEW key \in ActionsGiven, NEW value \in Nat, NEW replace
    PROVE  Insert(table, key, value, replace) \in ActionTables
<1>1. PICK D \in SUBSET ActionsGiven : table \in [D -> Nat]
  BY DEF ActionTables
<1>2. CASE key \in DOMAIN table /\ ~replace
  BY <1>2 DEF Insert
<1>3. CASE ~(key \in DOMAIN table /\ ~replace)
  <2>1. Insert(table, key, value, replace) = [k \in D \cup {key} |-> IF k = key THEN value ELSE table[k]]
    BY <1>1, <1>3 DEF Insert
  <2>2. [k \in D \cup {key} |-> IF k = key THEN value ELSE table[k]] \in [D \cup {key} -> Nat]
    BY <1>1
  <2>3. D \cup {key} \in SUBSET ActionsGiven
    OBVIOUS
  <2> QED BY <2>1, <2>2, <2>3 DEF ActionTables
<1> QED BY <1>2, <1>3

LEMMA NoActions ==
    NoFunction \in ActionTables /\ DOMAIN NoFunction = {}
<1>1. DOMAIN NoFunction = {} /\ NoFunction \in [{} -> Nat]
  BY DEF NoFunction
<1>2. {} \in SUBSET ActionsGiven
  OBVIOUS
<1> QED BY <1>1, <1>2 DEF ActionTables

LEMMA TablesInit == ControllersInit => TablesInv
<1> SUFFICES ASSUME ControllersInit PROVE TablesInv
  OBVIOUS
<1>1. routes = <<>> /\ contexts = <<>> /\ dispatcher = NoFunction /\ added = <<>>
  BY DEF ControllersInit
<1>2. Len(routes) = 0 /\ Len(contexts) = 0 /\ Len(added) = 0 /\ DOMAIN dispatcher = {}
  BY <1>1, EmptySeq, NoActions
<1>3. TablesType
  <2>1. routes \in Seq(RouteRecords) /\ added \in Seq([context : Nat, action : ActionsGiven]) /\ contexts \in Seq(ContextRecords)
    BY <1>1, EmptySeq
  <2> QED BY <1>2, <2>1, ControllersAssumption DEF TablesType
<1>4. \A i : i \notin 1..0
  OBVIOUS
<1> QED BY <1>2, <1>3, <1>4 DEF TablesInv, RoutesMade, RoutesBound, HandlersAdded, ContextsFound

LEMMA CreateContextStep ==
    ASSUME TablesInv, NEW name \in Names, NEW base \in Bases, CreateContext(name, base)
    PROVE  TablesInv'
<1> DEFINE context == [name |-> name, path |-> base \o <<name>>, actions |-> NoFunction]
<1>1. /\ open /\ contexts' = Append(contexts, context)
      /\ CreateTwice \/ name \notin DOMAIN dispatcher
      /\ routes' = routes /\ open' = open /\ added' = added
  BY DEF CreateContext
<1>2. PICK replace \in BOOLEAN : dispatcher' = Insert(dispatcher, name, Len(contexts) + 1, replace)
  BY DEF CreateContext
<1>3. /\ routes \in Seq(RouteRecords) /\ added \in Seq([context : Nat, action : ActionsGiven])
      /\ Len(routes) = Len(added) /\ Len(routes) <= MaxRoutes
      /\ contexts \in Seq(ContextRecords)
      /\ \A n \in DOMAIN dispatcher : dispatcher[n] \in 1..Len(contexts)
  BY DEF TablesInv, TablesType
<1>4. context \in ContextRecords
  <2>1. base \o <<name>> \in Seq(Word)
    <3> DEFINE tail == <<name>>
    <3>1. base \in Seq(STRING) /\ name \in STRING
      BY ControllersAssumption
    <3>2. STRING \subseteq Word
      BY DEF Word
    <3>3. base \in Seq(Word) /\ name \in Word
      BY <3>1, <3>2, SeqMonotonic
    <3>4. tail \in Seq(Word)
      BY <3>3
    <3> HIDE DEF tail
    <3>5. base \o tail \in Seq(Word)
      BY <3>3, <3>4, ConcatProperties, Zenon
    <3> QED BY <3>5 DEF tail
  <2> DEFINE path == base \o <<name>>
  <2> HIDE DEF path
  <2> QED BY <2>1, NoActions DEF ContextRecords, path
<1>5. context.name = name /\ DOMAIN context.actions = {}
  BY NoActions
<1> HIDE DEF context
<1>6. /\ contexts' \in Seq(ContextRecords) /\ Len(contexts') = Len(contexts) + 1 /\ Len(contexts) \in Nat
      /\ \A c \in 1..Len(contexts) : contexts'[c] = contexts[c] /\ c \in 1..Len(contexts')
      /\ contexts'[Len(contexts) + 1] = context
  <2>1. Len(contexts) \in Nat
    BY <1>3
  <2> QED BY <1>1, <1>3, <1>4, <2>1, AppendProperties
<1>7. \A c \in 1..Len(contexts') : c = Len(contexts) + 1 \/ c \in 1..Len(contexts)
  BY <1>6
<1>8. /\ DOMAIN dispatcher' = DOMAIN dispatcher \cup {name}
      /\ \A n \in DOMAIN dispatcher : n # name => dispatcher'[n] = dispatcher[n]
      /\ dispatcher'[name] = Len(contexts) + 1 \/ (name \in DOMAIN dispatcher /\ dispatcher'[name] = dispatcher[name])
      /\ name \notin DOMAIN dispatcher => dispatcher'[name] = Len(contexts) + 1
  <2> DEFINE new == Len(contexts) + 1
             map == Insert(dispatcher, name, new, replace)
  <2> HIDE DEF new
  <2>1. /\ DOMAIN map = DOMAIN dispatcher \cup {name}
        /\ \A n \in DOMAIN dispatcher : n # name => map[n] = dispatcher[n]
        /\ map[name] = new \/ (name \in DOMAIN dispatcher /\ map[name] = dispatcher[name])
        /\ name \notin DOMAIN dispatcher => map[name] = new
    BY InsertIs
  <2>2. dispatcher' = map
    BY <1>2 DEF new
  <2> HIDE DEF map
  <2> QED BY <2>1, <2>2 DEF new
<1>9. TablesType'
  <2>1. \A n \in DOMAIN dispatcher' : dispatcher'[n] \in 1..Len(contexts')
    <3>1. Len(contexts) + 1 \in 1..Len(contexts')
      BY <1>6
    <3> QED BY <1>3, <1>6, <1>8, <3>1
  <2> QED BY <1>1, <1>3, <1>6, <2>1 DEF TablesType
<1>10. RoutesMade'
  BY <1>1 DEF TablesInv, RoutesMade
<1>11. RoutesBound'
  <2> SUFFICES ASSUME NEW i \in 1..Len(added)
               PROVE  /\ added[i].context \in 1..Len(contexts')
                      /\ routes[i].controller = Lower[contexts'[added[i].context].name]
                      /\ routes[i].action = added[i].action
                      /\ added[i].action \in DOMAIN contexts'[added[i].context].actions
    BY <1>1 DEF RoutesBound
  <2>1. /\ added[i].context \in 1..Len(contexts)
        /\ routes[i].controller = Lower[contexts[added[i].context].name]
        /\ routes[i].action = added[i].action
        /\ added[i].action \in DOMAIN contexts[added[i].context].actions
    BY DEF TablesInv, RoutesBound
  <2> QED BY <1>6, <2>1
<1>12. HandlersAdded'
  <2> SUFFICES ASSUME NEW c \in 1..Len(contexts'), NEW a \in DOMAIN contexts'[c].actions
               PROVE  /\ contexts'[c].actions[a] \in 1..Len(added)
                      /\ added[contexts'[c].actions[a]].context = c
                      /\ added[contexts'[c].actions[a]].action = a
    BY <1>1 DEF HandlersAdded
  <2>1. c \in 1..Len(contexts) /\ contexts'[c] = contexts[c]
    BY <1>5, <1>6, <1>7
  <2> QED BY <2>1 DEF TablesInv, HandlersAdded
<1>13. ContextsFound'
  <2> SUFFICES ASSUME ~CreateTwice, NEW c \in 1..Len(contexts')
               PROVE  contexts'[c].name \in DOMAIN dispatcher' /\ dispatcher'[contexts'[c].name] = c
    BY DEF ContextsFound
  <2>1. name \notin DOMAIN dispatcher
    BY <1>1
  <2>2. CASE c = Len(contexts) + 1
    BY <1>5, <1>6, <1>8, <2>1, <2>2
  <2>3. CASE c \in 1..Len(contexts)
    <3>1. contexts[c].name \in DOMAIN dispatcher /\ dispatcher[contexts[c].name] = c
      BY <1>1, <2>3 DEF TablesInv, ContextsFound
    <3> QED BY <1>6, <1>8, <2>1, <2>3, <3>1
  <2> QED BY <1>7, <2>2, <2>3
<1> QED BY <1>9, <1>10, <1>11, <1>12, <1>13 DEF TablesInv

LEMMA ClearStep == ASSUME TablesInv, Clear PROVE TablesInv'
<1>1. routes' = routes /\ contexts' = contexts /\ added' = added /\ open' = FALSE /\ dispatcher' = NoFunction
  BY DEF Clear
<1>2. DOMAIN dispatcher' = {}
  BY <1>1, NoActions
<1>3. TablesType'
  BY <1>1, <1>2 DEF TablesInv, TablesType
<1> QED BY <1>1, <1>3 DEF TablesInv, RoutesMade, RoutesBound, HandlersAdded, ContextsFound

LEMMA RouteActionStep ==
    ASSUME TablesInv, NEW c \in DOMAIN contexts, NEW method \in RouteMethods, NEW action \in ActionNames, NEW tail \in Tails,
           RouteAction(c, method, action, tail)
    PROVE  TablesInv'
<1> DEFINE name == contexts[c].name
           path == ActionPath(contexts[c].path, action, tail)
           result == AddRoute(routes, method, path, name, action)
           route == RouteFor(method, path, name, action)
           call == [context |-> c, action |-> action]
<1>1. /\ routes \in Seq(RouteRecords) /\ added \in Seq([context : Nat, action : ActionsGiven])
      /\ Len(routes) = Len(added) /\ Len(routes) <= MaxRoutes
      /\ contexts \in Seq(ContextRecords)
      /\ \A n \in DOMAIN dispatcher : dispatcher[n] \in 1..Len(contexts)
  BY DEF TablesInv, TablesType
<1>2. c \in 1..Len(contexts) /\ Len(contexts) \in Nat /\ Len(added) \in Nat /\ c \in Nat
  BY <1>1
<1>3. name \in Names /\ contexts[c].path \in Seq(Word) /\ contexts[c].actions \in ActionTables
  <2>1. contexts[c] \in ContextRecords
    BY <1>1, <1>2
  <2> QED BY <2>1 DEF ContextRecords
<1>4. path \in Seq(Word)
  <2>1. action \in STRING /\ tail \in Seq(STRING)
    BY ControllersAssumption
  <2>2. STRING \subseteq Word /\ Empty \in Word
    BY DEF Word
  <2>3. tail \in Seq(Word) /\ action \in Word
    BY <2>1, <2>2, SeqMonotonic
  <2> QED BY <1>3, <2>2, <2>3, ActionPathIs
<1>5. /\ Len(routes) < MaxRoutes /\ routes' = result.routes
      /\ Bind(c, action, Len(added) + 1, result.added)
      /\ added' = IF result.added THEN Append(added, call) ELSE added
      /\ dispatcher' = dispatcher /\ open' = open
  BY DEF RouteAction
<1> HIDE DEF path, call
<1>6. \/ result = [added |-> FALSE, routes |-> routes]
      \/ action # Empty /\ result = [added |-> TRUE, routes |-> Append(routes, route)]
  <2>1. \A p \in Seq(Word) : \A t, m, n, a :
           \/ AddRoute(t, m, p, n, a) = [added |-> FALSE, routes |-> t]
           \/ a # Empty /\ AddRoute(t, m, p, n, a) = [added |-> TRUE, routes |-> Append(t, RouteFor(m, p, n, a))]
    BY AddRouteIs
  <2> HIDE DEF name
  <2>2. \A t, m, n, a :
           \/ AddRoute(t, m, path, n, a) = [added |-> FALSE, routes |-> t]
           \/ a # Empty /\ AddRoute(t, m, path, n, a) = [added |-> TRUE, routes |-> Append(t, RouteFor(m, path, n, a))]
    BY <1>4, <2>1
  <2> QED BY <2>2
<1> HIDE DEF result
<1>7. CASE result = [added |-> FALSE, routes |-> routes]
  <2>1. result.added = FALSE /\ result.routes = routes
    BY <1>7
  <2>2. routes' = routes /\ contexts' = contexts /\ added' = added /\ dispatcher' = dispatcher /\ open' = open
    BY <1>5, <2>1 DEF Bind
  <2> QED BY <2>2 DEF TablesInv, TablesType, RoutesMade, RoutesBound, HandlersAdded, ContextsFound
<1>8. CASE action # Empty /\ result = [added |-> TRUE, routes |-> Append(routes, route)]
  <2>1. result.added = TRUE /\ result.routes = Append(routes, route)
    BY <1>8
  <2>2. action \in ActionsGiven
    BY <1>8 DEF ActionsGiven
  <2>3. PICK replace \in BOOLEAN :
            contexts' = [contexts EXCEPT ![c].actions = Insert(@, action, Len(added) + 1, replace)]
    BY <1>5, <2>1 DEF Bind
  <2> DEFINE table == Insert(contexts[c].actions, action, Len(added) + 1, replace)
  <2>4. /\ route \in RouteRecords /\ WellMade(route)
        /\ route.controller = Lower[name] /\ route.action = action
    BY <1>3, <1>4, <2>2, RouteForIs
  <2>5. call \in [context : Nat, action : ActionsGiven] /\ call.context = c /\ call.action = action
    BY <1>2, <2>2 DEF call
  <2> HIDE DEF route, name
  <2>6. /\ routes' \in Seq(RouteRecords) /\ Len(routes') = Len(routes) + 1
        /\ \A i \in 1..Len(routes) : routes'[i] = routes[i]
        /\ routes'[Len(routes) + 1] = route
    <3>1. routes' = Append(routes, route)
      BY <1>5, <2>1
    <3> QED BY <1>1, <2>4, <3>1, AppendProperties
  <2>7. /\ added' \in Seq([context : Nat, action : ActionsGiven]) /\ Len(added') = Len(added) + 1
        /\ \A i \in 1..Len(added) : added'[i] = added[i]
        /\ added'[Len(added) + 1] = call
    <3>1. added' = Append(added, call)
      BY <1>5, <2>1
    <3> DEFINE Calls == [context : Nat, action : ActionsGiven]
    <3> HIDE DEF Calls
    <3>2. added \in Seq(Calls) /\ call \in Calls
      BY <1>1, <2>5 DEF Calls
    <3>3. /\ added' \in Seq(Calls) /\ Len(added') = Len(added) + 1
          /\ \A i \in 1..Len(added) : added'[i] = added[i]
          /\ added'[Len(added) + 1] = call
      BY <3>1, <3>2, AppendProperties
    <3> QED BY <3>3 DEF Calls
  <2>8. /\ table \in ActionTables
        /\ DOMAIN table = DOMAIN contexts[c].actions \cup {action}
        /\ \A k \in DOMAIN contexts[c].actions : k # action => table[k] = contexts[c].actions[k]
        /\ table[action] = Len(added) + 1 \/ (action \in DOMAIN contexts[c].actions /\ table[action] = contexts[c].actions[action])
    <3> DEFINE new == Len(added) + 1
               old == contexts[c].actions
               map == Insert(old, action, new, replace)
    <3>1. new \in Nat /\ old \in ActionTables
      BY <1>2, <1>3
    <3> HIDE DEF new, old
    <3>2. map \in ActionTables
      BY <2>2, <3>1, TableIs
    <3>3. /\ DOMAIN map = DOMAIN old \cup {action}
          /\ \A k \in DOMAIN old : k # action => map[k] = old[k]
          /\ map[action] = new \/ (action \in DOMAIN old /\ map[action] = old[action])
      <4>1. /\ DOMAIN map = DOMAIN old \cup {action}
            /\ \A k \in DOMAIN old : k # action => map[k] = old[k]
            /\ map[action] = new \/ (action \in DOMAIN old /\ map[action] = old[action])
            /\ action \notin DOMAIN old => map[action] = new
        BY InsertIs
      <4> HIDE DEF map
      <4> QED BY <4>1
    <3>4. table = map
      BY DEF table, map, new, old
    <3> HIDE DEF map, table
    <3> QED BY <3>2, <3>3, <3>4 DEF new, old
  <2> HIDE DEF table
  <2>9. /\ Len(contexts') = Len(contexts) /\ contexts' \in Seq(ContextRecords)
        /\ \A d \in 1..Len(contexts) : /\ contexts'[d].name = contexts[d].name
                                       /\ d # c => contexts'[d] = contexts[d]
        /\ contexts'[c].actions = table
    <3>1. contexts' = [contexts EXCEPT ![c] = [contexts[c] EXCEPT !.actions = table]]
      BY <2>3 DEF table
    <3> DEFINE context == [contexts[c] EXCEPT !.actions = table]
    <3>2. contexts[c] \in ContextRecords
      BY <1>1, <1>2
    <3>3. context \in ContextRecords /\ context.name = contexts[c].name /\ context.actions = table
      BY <2>8, <3>2 DEF ContextRecords
    <3> HIDE DEF context
    <3>4. /\ contexts' \in Seq(ContextRecords) /\ Len(contexts') = Len(contexts)
          /\ \A d \in 1..Len(contexts) : contexts'[d] = IF d = c THEN context ELSE contexts[d]
      <4>1. contexts' = [contexts EXCEPT ![c] = context]
        BY <3>1 DEF context
      <4> QED BY <1>1, <1>2, <3>3, <4>1, ExceptSeq
    <3> QED BY <1>2, <3>3, <3>4
  <2>10. \A i \in 1..Len(added') : i = Len(added) + 1 \/ i \in 1..Len(added)
    BY <1>2, <2>7
  <2>11. Len(added) + 1 \in 1..Len(added') /\ \A i \in 1..Len(added) : i \in 1..Len(added')
    BY <1>2, <2>7
  <2>12. TablesType'
    <3>1. Len(routes') = Len(added')
      BY <1>1, <2>6, <2>7
    <3>2. Len(routes') <= MaxRoutes
      BY <1>1, <1>5, <2>6, ControllersAssumption
    <3>3. \A n \in DOMAIN dispatcher' : dispatcher'[n] \in 1..Len(contexts')
      BY <1>1, <1>5, <2>9
    <3> QED BY <2>6, <2>7, <2>9, <3>1, <3>2, <3>3 DEF TablesType
  <2>13. RoutesMade'
    <3>1. \A i \in 1..Len(routes) : WellMade(routes[i])
      BY DEF TablesInv, RoutesMade
    <3> QED BY <1>1, <2>4, <2>6, <2>7, <2>10, <3>1 DEF RoutesMade
  <2>14. RoutesBound'
    <3> SUFFICES ASSUME NEW i \in 1..Len(added')
                 PROVE  /\ added'[i].context \in 1..Len(contexts')
                        /\ routes'[i].controller = Lower[contexts'[added'[i].context].name]
                        /\ routes'[i].action = added'[i].action
                        /\ added'[i].action \in DOMAIN contexts'[added'[i].context].actions
      BY DEF RoutesBound
    <3>1. CASE i = Len(added) + 1
      <4>1. added'[i] = call /\ routes'[i] = route
        BY <1>1, <2>6, <2>7, <3>1
      <4>2. contexts'[c].name = name
        BY <1>2, <2>9 DEF name
      <4> QED BY <1>2, <2>4, <2>5, <2>8, <2>9, <4>1, <4>2
    <3>2. CASE i \in 1..Len(added)
      <4> DEFINE d == added[i].context
      <4>1. /\ d \in 1..Len(contexts)
            /\ routes[i].controller = Lower[contexts[d].name]
            /\ routes[i].action = added[i].action
            /\ added[i].action \in DOMAIN contexts[d].actions
        BY <3>2 DEF TablesInv, RoutesBound
      <4>2. added'[i] = added[i] /\ routes'[i] = routes[i]
        BY <1>1, <2>6, <2>7, <3>2
      <4> HIDE DEF d
      <4>3. contexts'[d].name = contexts[d].name /\ d \in 1..Len(contexts')
        BY <2>9, <4>1
      <4>4. added[i].action \in DOMAIN contexts'[d].actions
        BY <2>8, <2>9, <4>1
      <4> QED BY <4>1, <4>2, <4>3, <4>4 DEF d
    <3> QED BY <2>10, <3>1, <3>2
  <2>15. HandlersAdded'
    <3> SUFFICES ASSUME NEW d \in 1..Len(contexts'), NEW a \in DOMAIN contexts'[d].actions
                 PROVE  /\ contexts'[d].actions[a] \in 1..Len(added')
                        /\ added'[contexts'[d].actions[a]].context = d
                        /\ added'[contexts'[d].actions[a]].action = a
      BY DEF HandlersAdded
    <3>1. d \in 1..Len(contexts)
      BY <2>9
    <3>2. ASSUME a \in DOMAIN contexts[d].actions, contexts'[d].actions[a] = contexts[d].actions[a]
          PROVE  /\ contexts'[d].actions[a] \in 1..Len(added')
                 /\ added'[contexts'[d].actions[a]].context = d
                 /\ added'[contexts'[d].actions[a]].action = a
      <4> DEFINE h == contexts[d].actions[a]
      <4>1. h \in 1..Len(added) /\ added[h].context = d /\ added[h].action = a
        BY <3>1, <3>2 DEF TablesInv, HandlersAdded
      <4> HIDE DEF h
      <4>2. added'[h] = added[h] /\ h \in 1..Len(added')
        BY <2>7, <2>11, <4>1
      <4> QED BY <3>2, <4>1, <4>2 DEF h
    <3>3. CASE d # c
      <4>1. contexts'[d] = contexts[d]
        BY <2>9, <3>1, <3>3
      <4> QED BY <3>2, <4>1
    <3>4. CASE d = c /\ a # action
      <4>1. a \in DOMAIN contexts[d].actions /\ contexts'[d].actions[a] = contexts[d].actions[a]
        BY <2>8, <2>9, <3>4
      <4> QED BY <3>2, <4>1
    <3>5. CASE d = c /\ a = action
      <4>1. CASE table[action] = Len(added) + 1
        BY <2>5, <2>7, <2>9, <2>11, <3>5, <4>1
      <4>2. CASE action \in DOMAIN contexts[c].actions /\ table[action] = contexts[c].actions[action]
        BY <2>9, <3>2, <3>5, <4>2
      <4> QED BY <2>8, <4>1, <4>2
    <3> QED BY <3>3, <3>4, <3>5
  <2>16. ContextsFound'
    <3>1. ~CreateTwice /\ open => \A d \in 1..Len(contexts) :
            contexts[d].name \in DOMAIN dispatcher /\ dispatcher[contexts[d].name] = d
      BY DEF TablesInv, ContextsFound
    <3> QED BY <1>5, <2>9, <3>1 DEF ContextsFound
  <2> QED BY <2>12, <2>13, <2>14, <2>15, <2>16 DEF TablesInv
<1> QED BY <1>6, <1>7, <1>8

LEMMA TablesStep == TablesInv /\ [ControllersNext]_controllersVars => TablesInv'
<1> SUFFICES ASSUME TablesInv, [ControllersNext]_controllersVars PROVE TablesInv'
  OBVIOUS
<1>1. ASSUME NEW name \in Names, NEW base \in Bases, CreateContext(name, base) PROVE TablesInv'
  BY <1>1, CreateContextStep
<1>2. ASSUME NEW c \in DOMAIN contexts, NEW method \in RouteMethods, NEW action \in ActionNames, NEW tail \in Tails,
             RouteAction(c, method, action, tail)
      PROVE  TablesInv'
  BY <1>2, RouteActionStep
<1>3. CASE Clear
  BY <1>3, ClearStep
<1>4. CASE UNCHANGED controllersVars
  BY <1>4 DEF controllersVars, TablesInv, TablesType, RoutesMade, RoutesBound, HandlersAdded, ContextsFound
<1> QED BY <1>1, <1>2, <1>3, <1>4 DEF ControllersNext

LEMMA TablesHold == ControllersSpec => []TablesInv
<1> QED BY TablesInit, TablesStep, PTL DEF ControllersSpec

-----------------------------------------------------------------------------
LEMMA CullIs ==
    ASSUME NEW T, NEW uri \in Seq(T)
    PROVE  /\ Cull(uri) \in Seq(T) /\ \A k \in 1..Len(Cull(uri)) : Cull(uri)[k] # Empty
           /\ Cull(uri) # Slash
<1> DEFINE ink == {i \in DOMAIN uri : uri[i] # Empty}
           r == Selected(uri, ink)
           P(n) == Place(uri, ink, n)
<1>1. Cull(uri) = r
  BY DEF Cull
<1>2. /\ r \in Seq(T)
      /\ \A n \in 1..Len(uri) : n \in ink => r[P(n)] = uri[n]
  <2> HIDE DEF ink
  <2> QED BY SelectedIs
<1>3. \A k \in 1..Len(r) : \E n \in 1..Len(uri) : n \in ink /\ P(n) = k
  <2> HIDE DEF ink, P
  <2>1. ASSUME NEW k \in 1..Len(r) PROVE \E n \in 1..Len(uri) : n \in ink /\ P(n) = k
    BY SelectedFrom DEF P
  <2> QED BY <2>1
<1> HIDE DEF r, P
<1>4. \A k \in 1..Len(r) : r[k] # Empty
  BY <1>2, <1>3
<1>5. r # Slash
  <2>1. Len(Slash) = 1 /\ Slash[1] = Empty
    BY DEF Slash
  <2> DEFINE slash == Slash
  <2>2. Len(slash) = 1 /\ slash[1] = Empty
    BY <2>1
  <2> HIDE DEF slash
  <2>3. 1 \in 1..Len(slash)
    BY <2>2
  <2>4. r # slash
    BY <1>4, <2>2, <2>3
  <2> QED BY <2>4 DEF slash
<1> QED BY <1>1, <1>2, <1>4, <1>5

(* The first of the routes that fit.                                       *)
FirstOf(table, method, request, i) ==
    /\ i \in 1..Len(table) /\ Fits(table[i], method, request)
    /\ \A j \in 1..i - 1 : ~Fits(table[j], method, request)

RoutingOf(route, request) ==
    [valid |-> TRUE, controller |-> route.controller, action |-> route.action, parameters |-> Parameters(route, request)]

LEMMA FoundIs ==
    ASSUME NEW T, NEW table \in Seq(T), NEW method, NEW request
    PROVE  \/ /\ FindByComponents(table, method, request).valid = FALSE
              /\ \A i \in 1..Len(table) : ~Fits(table[i], method, request)
           \/ \E i \in 1..Len(table) :
                 /\ FirstOf(table, method, request, i)
                 /\ FindByComponents(table, method, request) = RoutingOf(table[i], request)
<1> DEFINE fitting == {i \in DOMAIN table : Fits(table[i], method, request)}
<1>1. DOMAIN table = 1..Len(table) /\ Len(table) \in Nat
  BY LenProperties
<1>2. CASE fitting = {}
  <2>1. FindByComponents(table, method, request) = NotFound
    BY <1>2 DEF FindByComponents
  <2>2. NotFound.valid = FALSE
    BY DEF NotFound
  <2> QED BY <1>1, <1>2, <2>1, <2>2
<1>3. CASE fitting # {}
  <2> DEFINE i == Min(fitting)
  <2>1. FindByComponents(table, method, request) = RoutingOf(table[i], request)
    BY <1>3 DEF FindByComponents, FirstFit, RoutingOf
  <2>2. i \in fitting /\ \A j \in fitting : i <= j
    <3>1. fitting \subseteq Nat
      BY <1>1
    <3> HIDE DEF fitting
    <3> QED BY <1>3, <3>1, MinIs
  <2> HIDE DEF i
  <2>3. i \in 1..Len(table) /\ Fits(table[i], method, request)
    BY <1>1, <2>2
  <2>4. ASSUME NEW j \in 1..i - 1 PROVE ~Fits(table[j], method, request)
    <3>1. j \in 1..Len(table) /\ ~(i <= j)
      BY <1>1, <2>3
    <3>2. j \notin fitting
      BY <2>2, <3>1
    <3> QED BY <1>1, <3>1, <3>2
  <2> QED BY <2>1, <2>3, <2>4 DEF FirstOf
<1> QED BY <1>2, <1>3

LEMMA FirstIsOne ==
    ASSUME NEW table, Len(table) \in Nat, NEW method, NEW request, NEW i, NEW j,
           FirstOf(table, method, request, i), FirstOf(table, method, request, j)
    PROVE  i = j
<1>1. i \in 1..Len(table) /\ j \in 1..Len(table) /\ Fits(table[i], method, request) /\ Fits(table[j], method, request)
  BY DEF FirstOf
<1>2. i \notin 1..j - 1 /\ j \notin 1..i - 1
  BY <1>1 DEF FirstOf
<1> QED BY <1>1, <1>2

-----------------------------------------------------------------------------
(* The two tables have what the types say: every handler number is that of *)
(* a call that added a route, and there is a route for each of them.       *)
THEOREM TypesHold == ControllersSpec => []ControllersTypes
<1>1. TablesInv => ControllersTypes
  <2> SUFFICES ASSUME TablesInv PROVE ControllersTypes
    OBVIOUS
  <2>1. /\ routes \in Seq(RouteRecords) /\ added \in Seq([context : Nat, action : ActionsGiven])
        /\ Len(routes) = Len(added) /\ Len(routes) <= MaxRoutes
        /\ contexts \in Seq(ContextRecords)
        /\ \A n \in DOMAIN dispatcher : dispatcher[n] \in 1..Len(contexts)
    BY DEF TablesInv, TablesType
  <2>2. DOMAIN routes = 1..Len(routes) /\ DOMAIN contexts = 1..Len(contexts) /\ DOMAIN added = 1..Len(added)
    BY <2>1, LenProperties
  <2>3. ASSUME NEW i \in 1..Len(routes)
        PROVE  /\ routes[i].method \in RouteMethods
               /\ routes[i].action \in ActionNames \ {Empty}
               /\ ToSet(routes[i].fixed) \subseteq DOMAIN routes[i].components
    <3>1. routes[i] \in RouteRecords
      BY <2>1
    <3>2. routes[i].method \in RouteMethods /\ routes[i].action \in ActionsGiven /\ routes[i].components \in Seq(Word)
      BY <3>1 DEF RouteRecords
    <3>3. routes[i].fixed = FixedIndexes(routes[i].components)
      BY DEF TablesInv, RoutesMade, WellMade
    <3> DEFINE components == routes[i].components
    <3>4. components \in Seq(Word)
      BY <3>2
    <3> HIDE DEF components
    <3>5. ToSet(FixedIndexes(components)) \subseteq 1..Len(components)
      <4>1. ToSet(FixedIndexes(components)) = {k \in 1..Len(components) : components[k] \notin {ParamTag, ParamsTag}}
        BY <3>4, FixedAre
      <4> QED BY <4>1
    <3>6. DOMAIN components = 1..Len(components)
      BY <3>4, LenProperties
    <3> QED BY <3>2, <3>3, <3>5, <3>6 DEF components, ActionsGiven
  <2>4. \A c \in 1..Len(contexts) : \A a \in DOMAIN contexts[c].actions : contexts[c].actions[a] \in 1..Len(added)
    BY DEF TablesInv, HandlersAdded
  <2> QED BY <2>1, <2>2, <2>3, <2>4 DEF ControllersTypes
<1> QED BY <1>1, TablesHold, PTL

(* A routing of a request is that of a route.                              *)
LEMMA FoundRoute ==
    ASSUME TablesInv, NEW r
    PROVE  \/ /\ Found(r).valid = FALSE
              /\ \A i \in 1..Len(routes) : ~Fits(routes[i], r.method, Cull(r.uri))
           \/ \E i \in 1..Len(routes) :
                 /\ FirstOf(routes, r.method, Cull(r.uri), i)
                 /\ Found(r) = RoutingOf(routes[i], Cull(r.uri))
<1> DEFINE request == Cull(r.uri)  method == r.method
<1>1. routes \in Seq(RouteRecords)
  BY DEF TablesInv, TablesType
<1>2. Found(r) = FindByComponents(routes, method, request)
  BY DEF Found, FindRoute
<1> HIDE DEF request, method
<1>3. \/ /\ FindByComponents(routes, method, request).valid = FALSE
         /\ \A i \in 1..Len(routes) : ~Fits(routes[i], method, request)
      \/ \E i \in 1..Len(routes) :
            /\ FirstOf(routes, method, request, i)
            /\ FindByComponents(routes, method, request) = RoutingOf(routes[i], request)
  BY <1>1, FoundIs
<1> QED BY <1>2, <1>3 DEF request, method

(* With one controller to a name, and names in lower case, the route that  *)
(* a request finds has its controller and its action in the other table.   *)
LEMMA RouteFindsContext ==
    ASSUME TablesInv, ~CreateTwice, \A name \in Names : Lower[name] = name, open,
           NEW i \in 1..Len(routes), NEW request
    PROVE  LET routing == RoutingOf(routes[i], request)
               c == added[i].context
           IN  /\ HasContext(routing) /\ dispatcher[routing.controller] = c
               /\ HasAction(routing) /\ c \in 1..Len(contexts)
               /\ Invoked(routing) = contexts[c].actions[added[i].action]
               /\ added[i].action \in DOMAIN contexts[c].actions
<1> DEFINE routing == RoutingOf(routes[i], request)
           c == added[i].context
<1>1. i \in 1..Len(added) /\ contexts \in Seq(ContextRecords)
  BY DEF TablesInv, TablesType
<1>2. /\ c \in 1..Len(contexts) /\ routes[i].controller = Lower[contexts[c].name]
      /\ routes[i].action = added[i].action /\ added[i].action \in DOMAIN contexts[c].actions
  BY <1>1 DEF TablesInv, RoutesBound
<1>3. routing.controller = routes[i].controller /\ routing.action = routes[i].action
  BY DEF RoutingOf
<1> HIDE DEF routing, c
<1>4. contexts[c].name \in Names
  <2>1. contexts[c] \in ContextRecords
    BY <1>1, <1>2
  <2> QED BY <2>1 DEF ContextRecords
<1>5. contexts[c].name \in DOMAIN dispatcher /\ dispatcher[contexts[c].name] = c
  BY <1>2 DEF TablesInv, ContextsFound
<1>6. routing.controller \in DOMAIN dispatcher /\ dispatcher[routing.controller] = c
  BY <1>2, <1>3, <1>4, <1>5
<1>7. HasContext(routing) /\ ContextOf(routing) = contexts[c]
  BY <1>6 DEF HasContext, ContextOf
<1>8. HasAction(routing) /\ Invoked(routing) = contexts[c].actions[added[i].action]
  BY <1>2, <1>3, <1>7 DEF HasAction, Invoked
<1> QED BY <1>2, <1>6, <1>7, <1>8 DEF routing, c

(* Where a controller is created once to a name and names are in lower     *)
(* case, the assertions of ExecuteController and InvokeAction hold for     *)
(* every request, and what is called was bound with the route that the     *)
(* request found or with another one of the same controller and action.    *)
THEOREM TablesAgree ==
    ASSUME ~CreateTwice, \A name \in Names : Lower[name] = name
    PROVE  ControllersSpec => []ControllersInv
<1>1. TablesInv => RouteHasItsAction
  <2> SUFFICES ASSUME TablesInv, open, NEW r \in ClientRequests, Found(r).valid
               PROVE  HasAction(Found(r))
    BY DEF RouteHasItsAction
  <2>1. PICK i \in 1..Len(routes) : Found(r) = RoutingOf(routes[i], Cull(r.uri))
    BY FoundRoute
  <2> QED BY <2>1, RouteFindsContext
<1>2. TablesInv => RouteInvokesItsAction
  <2> SUFFICES ASSUME TablesInv, open, NEW r \in ClientRequests,
                      Found(r).valid
               PROVE  LET first == CHOOSE i \in DOMAIN routes :
                                     /\ Fits(routes[i], r.method, Cull(r.uri))
                                     /\ \A j \in 1..i - 1 : ~Fits(routes[j], r.method, Cull(r.uri))
                      IN  \/ Invoked(Found(r)) = first
                          \/ /\ added[Invoked(Found(r))] = added[first]
                             /\ \E i \in DOMAIN added : i # first /\ added[i] = added[first]
    BY DEF RouteInvokesItsAction
  <2> DEFINE method == r.method  request == Cull(r.uri)
             first == CHOOSE i \in DOMAIN routes :
                        /\ Fits(routes[i], method, request)
                        /\ \A j \in 1..i - 1 : ~Fits(routes[j], method, request)
  <2>1. PICK i \in 1..Len(routes) : FirstOf(routes, method, request, i) /\ Found(r) = RoutingOf(routes[i], request)
    BY FoundRoute
  <2>2. /\ routes \in Seq(RouteRecords) /\ added \in Seq([context : Nat, action : ActionsGiven]) /\ Len(routes) = Len(added)
    BY DEF TablesInv, TablesType
  <2>3. DOMAIN routes = 1..Len(routes) /\ DOMAIN added = 1..Len(added) /\ Len(routes) \in Nat
    BY <2>2, LenProperties
  <2>4. first = i
    <3> HIDE DEF method, request
    <3>1. \E k \in DOMAIN routes : FirstOf(routes, method, request, k)
      BY <2>1, <2>3
    <3>2. FirstOf(routes, method, request, first)
      BY <2>3, <3>1 DEF FirstOf
    <3> HIDE DEF first
    <3> QED BY <2>1, <2>3, <3>2, FirstIsOne
  <2> DEFINE c == added[i].context
             h == contexts[c].actions[added[i].action]
  <2>5. Invoked(Found(r)) = h /\ c \in 1..Len(contexts) /\ added[i].action \in DOMAIN contexts[c].actions
    <3> HIDE DEF request
    <3> QED BY <2>1, RouteFindsContext
  <2>6. h \in 1..Len(added) /\ added[h].context = c /\ added[h].action = added[i].action
    BY <2>5 DEF TablesInv, HandlersAdded
  <2> HIDE DEF h
  <2>7. added[h] = added[i]
    <3>1. added[h] \in [context : Nat, action : ActionsGiven] /\ added[i] \in [context : Nat, action : ActionsGiven]
      <4> DEFINE Calls == [context : Nat, action : ActionsGiven]
      <4> HIDE DEF Calls, c
      <4>1. added \in Seq(Calls) /\ i \in 1..Len(added) /\ h \in 1..Len(added)
        BY <2>2, <2>6 DEF Calls
      <4>2. added[h] \in Calls /\ added[i] \in Calls
        BY <4>1
      <4> QED BY <4>2 DEF Calls
    <3> QED BY <2>6, <3>1
  <2>8. Invoked(Found(r)) = first \/ (/\ added[Invoked(Found(r))] = added[first]
                                      /\ \E k \in DOMAIN added : k # first /\ added[k] = added[first])
    <3> HIDE DEF first
    <3>1. CASE h = i
      BY <2>4, <2>5, <3>1
    <3>2. CASE h # i
      BY <2>3, <2>4, <2>5, <2>6, <2>7, <3>2
    <3> QED BY <3>1, <3>2
  <2> QED BY <2>8
<1>3. TablesInv => RouteHasItsAction /\ RouteInvokesItsAction
  BY <1>1, <1>2
<1> QED BY <1>3, TablesHold, TypesHold, PTL DEF ControllersInv

-----------------------------------------------------------------------------
(* A route of the table, in the terms of the lemmas about components.      *)
LEMMA RouteIs ==
    ASSUME TablesInv, ListsAreLast, NEW i \in 1..Len(routes)
    PROVE  /\ routes[i].components \in Seq(Word) /\ OneList(routes[i].components)
           /\ routes[i].fixed = FixedIndexes(routes[i].components)
           /\ \A request : LengthFits(routes[i], request) <=> LengthRight(routes[i].components, request)
           /\ \A params : TakesParams(routes[i], params) <=> Takes(routes[i].components, params)
           /\ \A method, request : Fits(routes[i], method, request) <=>
                 /\ LengthRight(routes[i].components, request) /\ Agree(routes[i].components, request)
                 /\ routes[i].method \in {method, "any"}
<1> DEFINE route == routes[i]
<1>1. route \in RouteRecords /\ DOMAIN routes = 1..Len(routes)
  <2>1. routes \in Seq(RouteRecords)
    BY DEF TablesInv, TablesType
  <2> QED BY <2>1, LenProperties
<1>2. route.components \in Seq(Word)
  BY <1>1 DEF RouteRecords
<1>3. OneList(route.components)
  BY <1>1 DEF OneList, ListsAreLast
<1>4. /\ route.fixed = FixedIndexes(route.components)
      /\ route.custom = Contains(route.components, ParamsTag)
      /\ route.paramCount = Count(route.components, Len(route.components))
  BY DEF TablesInv, RoutesMade, WellMade
<1> HIDE DEF route
<1>5. \A request : LengthFits(route, request) <=> LengthRight(route.components, request)
  BY <1>4 DEF LengthFits, LengthRight
<1>6. \A params : TakesParams(route, params) <=> Takes(route.components, params)
  BY <1>4 DEF TakesParams, Takes
<1>7. \A method, request : Fits(route, method, request) <=>
         LengthRight(route.components, request) /\ Agree(route.components, request) /\ route.method \in {method, "any"}
  BY <1>4, <1>5 DEF Fits, Agree
<1> QED BY <1>2, <1>3, <1>4, <1>5, <1>6, <1>7 DEF route

LEMMA RequestIs ==
    ASSUME NEW r \in ClientRequests
    PROVE  /\ Cull(r.uri) \in Seq(Word) /\ \A k \in 1..Len(Cull(r.uri)) : Cull(r.uri)[k] # Empty
           /\ Cull(r.uri) # Slash
<1>1. r.uri \in Seq(Word)
  <2>1. r.uri \in Seq(STRING)
    BY ControllersAssumption
  <2>2. STRING \subseteq Word
    BY DEF Word
  <2> QED BY <2>1, <2>2, SeqMonotonic
<1> QED BY <1>1, CullIs

LEMMA FittingIs ==
    ASSUME TablesInv, ListsAreLast, NEW i \in 1..Len(routes), NEW method,
           NEW request \in Seq(Word), request # Slash, Fits(routes[i], method, request)
    PROVE  MadeAgain(Word, routes[i].components, request, Parameters(routes[i], request))
<1> DEFINE components == routes[i].components
           route == routes[i]
           params == Parameters(route, request)
<1>1. /\ components \in Seq(Word) /\ OneList(components) /\ route.fixed = FixedIndexes(components)
      /\ LengthRight(components, request) /\ Agree(components, request)
  BY RouteIs
<1> HIDE DEF components, route
<1>2. Shown(components) <= Len(request)
  BY <1>1, LengthShown
<1>3. LeftOf(components, request, params)
  BY <1>1, <1>2, ParametersAre DEF LeftOf
<1> HIDE DEF params
<1>4. MadeAgain(Word, components, request, params)
  BY <1>1, <1>3, Forward
<1> QED BY <1>4 DEF components, route, params

(* Where a list is the last component of its route, a request is its route *)
(* with the parameters put back where their tags stand: nothing that is    *)
(* left for the action is lost, doubled or out of its place.               *)
THEOREM ParametersStand == ControllersSpec => [](ListsAreLast => ParametersStandForTags)
<1>1. TablesInv => (ListsAreLast => ParametersStandForTags)
  <2> SUFFICES ASSUME TablesInv, ListsAreLast, NEW r \in ClientRequests, NEW i \in DOMAIN routes,
                      Fits(routes[i], r.method, Cull(r.uri))
               PROVE  Cull(GeneratePath(routes[i].components, Parameters(routes[i], Cull(r.uri)))) = Cull(r.uri)
    BY DEF ParametersStandForTags
  <2> DEFINE request == Cull(r.uri)
             components == routes[i].components
             params == Parameters(routes[i], request)
             filled == Filled(components, params)
             left == Left(components, params)
  <2>1. i \in 1..Len(routes)
    <3>1. routes \in Seq(RouteRecords)
      BY DEF TablesInv, TablesType
    <3> QED BY <3>1, LenProperties
  <2>2. request \in Seq(Word) /\ request # Slash /\ \A k \in 1..Len(request) : request[k] # Empty
    BY RequestIs
  <2>3. Fits(routes[i], r.method, request)
    OBVIOUS
  <2> HIDE DEF request
  <2>4. filled \in Seq(Word) /\ left \in Seq(Word) /\ filled \o left = request
    BY <2>1, <2>2, <2>3, FittingIs DEF MadeAgain
  <2>5. components \in Seq(Word) /\ OneList(components)
    BY <2>1, RouteIs
  <2>6. GeneratePath(components, params) = Slash \o filled \o (IF left = <<>> THEN Slash ELSE left)
    <3> HIDE DEF components, params
    <3> QED BY <2>5, GeneratePathIs
  <2> HIDE DEF filled, left
  <2>7. (\A k \in 1..Len(filled) : filled[k] # Empty) /\ (\A k \in 1..Len(left) : left[k] # Empty)
    <3>1. /\ Len(filled \o left) = Len(filled) + Len(left) /\ Len(filled) \in Nat /\ Len(left) \in Nat
          /\ \A k \in 1..Len(filled) + Len(left) :
                (filled \o left)[k] = IF k <= Len(filled) THEN filled[k] ELSE left[k - Len(filled)]
      BY <2>4, ConcatProperties, LenProperties, Zenon
    <3>2. ASSUME NEW k \in 1..Len(filled) PROVE filled[k] # Empty
      <4>1. k \in 1..Len(filled) + Len(left) /\ k <= Len(filled)
        BY <3>1
      <4>2. request[k] = filled[k] /\ k \in 1..Len(request)
        BY <2>4, <3>1, <4>1
      <4> QED BY <2>2, <4>2
    <3>3. ASSUME NEW k \in 1..Len(left) PROVE left[k] # Empty
      <4>1. Len(filled) + k \in 1..Len(filled) + Len(left) /\ ~(Len(filled) + k <= Len(filled)) /\ Len(filled) + k - Len(filled) = k
        BY <3>1
      <4>2. request[Len(filled) + k] = left[k] /\ Len(filled) + k \in 1..Len(request)
        BY <2>4, <3>1, <4>1
      <4> QED BY <2>2, <4>2
    <3> QED BY <3>2, <3>3
  <2>8. Cull(GeneratePath(components, params)) = request
    <3>1. Empty \in Word
      BY DEF Word
    <3> HIDE DEF components, params
    <3> QED BY <2>4, <2>6, <2>7, <3>1, CullPath
  <2> QED BY <2>8 DEF request
<1> QED BY <1>1, TablesHold, PTL

(* Where besides no route has a component that no request has, the url     *)
(* that is made for what a request found leads back to it, or to a route   *)
(* that was added before the one it is made from.                          *)
THEOREM UrlsLeadBack == ControllersSpec => [](ListsAreLast /\ RoutesReachable => UrlLeadsBack)
<1>1. ASSUME TablesInv, ListsAreLast, RoutesReachable, NEW r \in ClientRequests, Found(r).valid
      PROVE  LET routing == Found(r)
                 made == FindUrlByController(routes, routing.controller, routing.action, routing.parameters)
                 method == IF routes[made.from].method = "any" THEN r.method ELSE routes[made.from].method
                 again == FindRoute(routes, method, made.url)
             IN  /\ made.from # 0
                 /\ \/ again = routing
                    \/ \E i \in 1..made.from - 1 : Fits(routes[i], method, Cull(made.url))
  <2> DEFINE request == Cull(r.uri)
  <2>1. routes \in Seq(RouteRecords) /\ Len(routes) \in Nat /\ DOMAIN routes = 1..Len(routes)
    <3>1. routes \in Seq(RouteRecords)
      BY <1>1 DEF TablesInv, TablesType
    <3> QED BY <3>1, LenProperties
  <2>2. PICK i \in 1..Len(routes) : FirstOf(routes, r.method, request, i) /\ Found(r) = RoutingOf(routes[i], request)
    BY <1>1, FoundRoute
  <2>3. request \in Seq(Word) /\ request # Slash /\ \A k \in 1..Len(request) : request[k] # Empty
    BY RequestIs
  <2>4. Fits(routes[i], r.method, request)
    BY <2>2 DEF FirstOf
  <2> DEFINE params == Parameters(routes[i], request)
  <2>5. params \in Seq(Word) /\ Takes(routes[i].components, params) /\ \A k \in 1..Len(params) : \E n \in 1..Len(request) : params[k] = request[n]
    <3> HIDE DEF request
    <3> QED BY <1>1, <2>3, <2>4, FittingIs DEF MadeAgain
  <2>6. \A k \in 1..Len(params) : params[k] # Empty
    BY <2>3, <2>5
  <2> DEFINE routing == Found(r)
             controller == routes[i].controller
             action == routes[i].action
  <2>7. routing = [valid |-> TRUE, controller |-> controller, action |-> action, parameters |-> params]
    BY <2>2 DEF RoutingOf
  <2> HIDE DEF routing, params, controller, action
  <2>8. routing.controller = controller /\ routing.action = action /\ routing.parameters = params
    BY <2>7
  <2> DEFINE possible == {k \in 1..Len(routes) :
                            routes[k].controller = controller /\ routes[k].action = action /\ TakesParams(routes[k], params)}
             from == IF possible # {} THEN Min(possible) ELSE 0
  <2>9. i \in possible
    BY <1>1, <2>5, RouteIs DEF controller, action
  <2>10. from \in possible /\ from \in 1..Len(routes) /\ from # 0
    <3>1. possible \subseteq Nat /\ possible # {}
      BY <2>1, <2>9
    <3>2. \A k \in possible : k \in 1..Len(routes) /\ k # 0
      BY <2>1
    <3> HIDE DEF possible
    <3> QED BY <3>1, <3>2, MinIs
  <2>11. routes[from].controller = controller /\ routes[from].action = action /\ TakesParams(routes[from], params)
    BY <2>10
  <2>12. from = SelectInSeq(routes, LAMBDA route :
                     route.controller = controller /\ route.action = action /\ TakesParams(route, params))
    BY DEF SelectInSeq
  <2> HIDE DEF from
  <2> DEFINE made == FindUrlByController(routes, controller, action, params)
             components == routes[from].components
  <2>13. made.from = from /\ made.url = GeneratePath(components, params)
    <3>1. made = [from |-> from, url |-> IF from = 0 THEN <<>> ELSE GeneratePath(routes[from].components, params)]
      BY <2>12, Zenon DEF FindUrlByController
    <3> HIDE DEF made
    <3> QED BY <2>10, <3>1
  <2> HIDE DEF made
  <2> DEFINE route == routes[from]
             filled == Filled(components, params)
             left == Left(components, params)
             again == filled \o left
             method == IF route.method = "any" THEN r.method ELSE route.method
  <2>14. components \in Seq(Word) /\ OneList(components) /\ Takes(components, params) /\ route.fixed = FixedIndexes(components)
    BY <1>1, <2>10, <2>11, RouteIs
  <2>15. \A k \in 1..Len(components) : components[k] # Empty
    BY <1>1, <2>1, <2>10 DEF RoutesReachable, Contains
  <2>16. \A request_ : LengthRight(components, request_) /\ Agree(components, request_) => Fits(route, method, request_)
    <3>1. route.method \in {method, "any"}
      OBVIOUS
    <3> QED BY <1>1, <2>10, <3>1, RouteIs
  <2> HIDE DEF components, route, method
  <2>17. /\ filled \in Seq(Word) /\ left \in Seq(Word)
         /\ \A n \in 1..Shown(components) :
               \/ filled[n] = components[n]
               \/ \E k \in 1..Len(params) : filled[n] = params[k]
         /\ \A n \in 1..Len(left) : \E k \in 1..Len(params) : left[n] = params[k]
         /\ Len(filled) = Shown(components)
         /\ LengthRight(components, again) /\ Agree(components, again)
         /\ Selected(again, Free(components, again)) = params
    BY <2>5, <2>14, Back, Zenon
  <2>18. GeneratePath(components, params) = Slash \o filled \o (IF left = <<>> THEN Slash ELSE left)
    BY <2>14, GeneratePathIs
  <2> HIDE DEF filled, left
  <2>19. (\A k \in 1..Len(filled) : filled[k] # Empty) /\ (\A k \in 1..Len(left) : left[k] # Empty)
    <3>1. \A k \in 1..Shown(components) : k \in 1..Len(components)
      BY <2>14, ShownIs
    <3>2. ASSUME NEW k \in 1..Len(filled) PROVE filled[k] # Empty
      <4>1. k \in 1..Shown(components) /\ k \in 1..Len(components)
        BY <2>17, <3>1
      <4>2. CASE filled[k] = components[k]
        BY <2>15, <4>1, <4>2
      <4>3. CASE \E n \in 1..Len(params) : filled[k] = params[n]
        BY <2>6, <4>3
      <4> QED BY <2>17, <4>1, <4>2, <4>3
    <3>3. ASSUME NEW k \in 1..Len(left) PROVE left[k] # Empty
      BY <2>6, <2>17
    <3> QED BY <3>2, <3>3
  <2>20. Cull(made.url) = again
    <3>1. Empty \in Word
      BY DEF Word
    <3>2. Cull(Slash \o filled \o (IF left = <<>> THEN Slash ELSE left)) = filled \o left
      BY <2>17, <2>19, <3>1, CullPath
    <3> QED BY <2>13, <2>18, <3>2
  <2>21. again \in Seq(Word) /\ again # Slash
    <3>1. made.url \in Seq(Word)
      <4> DEFINE end == IF left = <<>> THEN Slash ELSE left
                 slash == Slash
      <4>1. slash \in Seq(Word) /\ end \in Seq(Word)
        <5>1. Slash \in Seq(Word)
          BY DEF Slash, Word
        <5> QED BY <2>17, <5>1
      <4>2. made.url = slash \o filled \o end
        BY <2>13, <2>18
      <4> HIDE DEF end, slash
      <4>3. slash \o filled \in Seq(Word)
        BY <2>17, <4>1, ConcatProperties, Zenon
      <4>4. slash \o filled \o end \in Seq(Word)
        BY <4>1, <4>3, ConcatProperties, Zenon
      <4> QED BY <4>2, <4>4
    <3>2. Cull(made.url) \in Seq(Word) /\ Cull(made.url) # Slash
      BY <3>1, CullIs
    <3> QED BY <2>20, <3>2
  <2> HIDE DEF again
  <2>22. Fits(route, method, again)
    BY <2>16, <2>17
  <2>23. Parameters(route, again) = params
    <3>1. Shown(components) <= Len(again)
      BY <2>14, <2>17, <2>21, LengthShown
    <3> QED BY <2>14, <2>17, <2>21, <3>1, ParametersAre
  <2> DEFINE second == FindRoute(routes, method, made.url)
  <2>24. second = routing \/ \E k \in 1..from - 1 : Fits(routes[k], method, again)
    <3>1. second = FindByComponents(routes, method, again)
      BY <2>20 DEF FindRoute
    <3> HIDE DEF second
    <3>2. PICK k \in 1..Len(routes) : FirstOf(routes, method, again, k) /\ second = RoutingOf(routes[k], again)
      BY <2>1, <2>10, <2>22, <3>1, FoundIs DEF route
    <3>3. Fits(routes[k], method, again) /\ ~(from \in 1..k - 1)
      BY <2>22, <3>2 DEF FirstOf, route
    <3>4. CASE k = from
      <4>1. second = RoutingOf(route, again)
        BY <3>2, <3>4 DEF route
      <4>2. route.controller = controller /\ route.action = action
        BY <2>11 DEF route
      <4>3. second = routing
        BY <2>7, <2>23, <4>1, <4>2 DEF RoutingOf
      <4> QED BY <4>3
    <3>5. CASE k # from
      <4>1. k \in 1..from - 1
        BY <2>1, <2>10, <3>3, <3>5
      <4> QED BY <3>3, <4>1
    <3> QED BY <3>4, <3>5
  <2>25. made = FindUrlByController(routes, Found(r).controller, Found(r).action, Found(r).parameters)
    BY <2>8 DEF made, routing
  <2>26. /\ made.from # 0
         /\ \/ second = routing
            \/ \E k \in 1..made.from - 1 : Fits(routes[k], method, Cull(made.url))
    BY <2>10, <2>13, <2>20, <2>24
  <2>27. method = IF routes[made.from].method = "any" THEN r.method ELSE routes[made.from].method
    BY <2>13 DEF method, route
  <2> HIDE DEF method
  <2> QED BY <2>25, <2>26, <2>27 DEF routing
<1>2. TablesInv => (ListsAreLast /\ RoutesReachable => UrlLeadsBack)
  BY <1>1 DEF UrlLeadsBack
<1> QED BY <1>2, TablesHold, PTL
=============================================================================
