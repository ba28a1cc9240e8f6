------------------------------ MODULE Controllers ------------------------------
(***************************************************************************)
(* How a Nova application registers its controllers and their actions, and *)
(* what a request then finds.  Two tables are filled side by side: the     *)
(* router's routes, which name a controller and an action, and a context   *)
(* per controller, which maps the names of its actions to what is called.  *)
(* ExecuteController takes the names from the first table and asserts that *)
(* the second one has them.                                                *)
(***************************************************************************)
EXTENDS Router

CONSTANTS Names,          \* controller names
          Bases,          \* the paths controllers are created under
          ActionNames,    \* action names, "" among them if it may be tried
          Tails,          \* third arguments of RouteAction, <<>> if missing
          RouteMethods,   \* methods routes are added for
          ClientRequests, \* [method, uri] a client may ask for
          CreateTwice,    \* a controller may be created more than once
          MaxContexts, MaxRoutes

ASSUME ControllersAssumption ==
    /\ Names \subseteq DOMAIN Lower
    /\ Names \subseteq STRING /\ ActionNames \subseteq STRING
    /\ \A b \in Bases : b \in Seq(STRING) /\ b # <<>>
    /\ \A tail \in Tails : tail \in Seq(STRING)
    /\ \A r \in ClientRequests : r.uri \in Seq(STRING)
    /\ CreateTwice \in BOOLEAN /\ MaxContexts \in Nat /\ MaxRoutes \in Nat

VARIABLES routes,      \* Router::Routes
          contexts,    \* the controller contexts, [name, path, actions]
          dispatcher,  \* ControllerDispatcher: the context of a name
          open,        \* the application has not exited
          added        \* history: the calls of RouteAction that added a route

controllersVars == <<routes, contexts, dispatcher, open, added>>

NoFunction == [x \in {} |-> 0]

(* Insert on a key that is there: the engine may keep or replace it.       *)
Insert(map, key, value, replace) ==
    IF key \in DOMAIN map /\ ~replace THEN map
    ELSE [k \in DOMAIN map \cup {key} |-> IF k = key THEN value ELSE map[k]]

ControllersInit ==
    routes = <<>> /\ contexts = <<>> /\ dispatcher = NoFunction /\ open = TRUE /\ added = <<>>

-----------------------------------------------------------------------------
(* CreateContext with the constructor of ControllerContext.                *)
CreateContext(name, base) ==
    /\ open /\ Len(contexts) < MaxContexts
    /\ CreateTwice \/ name \notin DOMAIN dispatcher
    /\ contexts' = Append(contexts, [name |-> name, path |-> base \o <<name>>, actions |-> NoFunction])
    /\ \E replace \in BOOLEAN :
          dispatcher' = Insert(dispatcher, name, Len(contexts) + 1, replace)
    /\ UNCHANGED <<routes, open, added>>

(* Mutant: actions of all controllers share one table.                     *)
BindEverywhere(c, action, handler, wasAdded) ==
    contexts' = IF ~wasAdded THEN contexts
                ELSE [d \in DOMAIN contexts |-> [contexts[d] EXCEPT !.actions = Insert(@, action, handler, TRUE)]]

(* What RouteAction does with AddRoute's result.  The handler is the       *)
(* number of the call, so that two calls never bind the same.              *)
Bind(c, action, handler, wasAdded) ==
    IF ~wasAdded THEN contexts' = contexts
    ELSE \E replace \in BOOLEAN :
            contexts' = [contexts EXCEPT ![c].actions = Insert(@, action, handler, replace)]

RouteAction(c, method, action, tail) ==
    LET result == AddRoute(routes, method, ActionPath(contexts[c].path, action, tail), contexts[c].name, action)
    IN  /\ open /\ Len(routes) < MaxRoutes
        /\ routes' = result.routes
        /\ Bind(c, action, Len(added) + 1, result.added)
        /\ added' = IF result.added THEN Append(added, [context |-> c, action |-> action]) ELSE added
        /\ UNCHANGED <<dispatcher, open>>

(* ControllerFactory::Clear, called by ~RequestContext.                    *)
Clear == open /\ open' = FALSE /\ dispatcher' = NoFunction /\ UNCHANGED <<routes, contexts, added>>

ControllersNext ==
    \/ \E name \in Names, base \in Bases : CreateContext(name, base)
    \/ \E c \in DOMAIN contexts, method \in RouteMethods, action \in ActionNames, tail \in Tails :
          RouteAction(c, method, action, tail)
    \/ Clear

ControllersSpec == ControllersInit /\ [][ControllersNext]_controllersVars

-----------------------------------------------------------------------------
(* What ExecuteController and InvokeAction look up for a routing.          *)
HasContext(routing) == routing.controller \in DOMAIN dispatcher
ContextOf(routing) == contexts[dispatcher[routing.controller]]
HasAction(routing) == HasContext(routing) /\ routing.action \in DOMAIN ContextOf(routing).actions
Invoked(routing) == ContextOf(routing).actions[routing.action]

Found(r) == FindRoute(routes, r.method, r.uri)

(* Types; the names in the two tables are those that were given, and a     *)
(* route has a handler number.                                             *)
ControllersTypes ==
    /\ Len(routes) = Len(added) /\ Len(routes) <= MaxRoutes
    /\ \A i \in DOMAIN routes : /\ routes[i].method \in RouteMethods
                                /\ routes[i].action \in ActionNames \ {Empty}
                                /\ ToSet(routes[i].fixed) \subseteq DOMAIN routes[i].components
    /\ \A name \in DOMAIN dispatcher : dispatcher[name] \in DOMAIN contexts
    /\ \A c \in DOMAIN contexts : \A a \in DOMAIN contexts[c].actions :
          contexts[c].actions[a] \in DOMAIN added

(* A valid routing has its controller and its action: the assertions of    *)
(* ExecuteController and InvokeAction hold for every request.              *)
RouteHasItsAction == open => \A r \in ClientRequests : Found(r).valid => HasAction(Found(r))

(* The call that is made for a request is the one that was bound with the  *)
(* route it found, or with another route of the same controller and        *)
(* action: the name of the action is all a routing keeps.                  *)
RouteInvokesItsAction ==
    open => \A r \in ClientRequests :
        LET routing == Found(r)
            first == CHOOSE i \in DOMAIN routes :
                        /\ Fits(routes[i], r.method, Cull(r.uri))
                        /\ \A j \in 1..i - 1 : ~Fits(routes[j], r.method, Cull(r.uri))
        IN  routing.valid /\ HasAction(routing) =>
                \/ Invoked(routing) = first
                \/ /\ added[Invoked(routing)] = added[first]
                   /\ \E i \in DOMAIN added : i # first /\ added[i] = added[first]

(* The types, and that the two tables agree for every request.             *)
ControllersInv == ControllersTypes /\ RouteHasItsAction /\ RouteInvokesItsAction

(* A route and the parameters a request leaves for its action are the      *)
(* request: put back where their tags stand they give its path again.      *)
ParametersStandForTags ==
    \A r \in ClientRequests : \A i \in DOMAIN routes :
        Fits(routes[i], r.method, Cull(r.uri)) =>
            Cull(GeneratePath(routes[i].components, Parameters(routes[i], Cull(r.uri)))) = Cull(r.uri)

(* The url FindUrlByController makes for the controller, the action and    *)
(* the parameters of a request leads back to them, unless a route that was *)
(* added before the one it is made from takes it.                          *)
UrlLeadsBack ==
    \A r \in ClientRequests :
        LET routing == Found(r)
            made == FindUrlByController(routes, routing.controller, routing.action, routing.parameters)
            method == IF routes[made.from].method = "any" THEN r.method ELSE routes[made.from].method
            again == FindRoute(routes, method, made.url)
        IN  routing.valid =>
                /\ made.from # 0
                /\ \/ again = routing
                   \/ \E i \in 1..made.from - 1 : Fits(routes[i], method, Cull(made.url))

(* Every route can be reached by some request (a base that ends with a     *)
(* slash gives an empty component, which no request has).                  *)
RoutesReachable == \A i \in DOMAIN routes : ~Contains(routes[i].components, Empty)

(* A list [params] is the last component of its route.  AddRoute looks at  *)
(* the end of the path only: one that ends with a list may hold another.   *)
ListsAreLast ==
    \A i \in DOMAIN routes : \A k \in 1..Len(routes[i].components) - 1 : routes[i].components[k] # ParamsTag

(* The call for a request is the one that was bound with its route.        *)
RouteInvokesItsOwn ==
    open => \A r \in ClientRequests :
        LET fitting == {i \in DOMAIN routes : Fits(routes[i], r.method, Cull(r.uri))}
        IN  fitting # {} /\ HasAction(Found(r)) => Invoked(Found(r)) = Min(fitting)
=============================================================================
