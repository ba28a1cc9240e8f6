-------------------------------- MODULE Router --------------------------------
(***************************************************************************)
(* The route table of Nova as operators on a sequence of routes.  A path   *)
(* is the sequence of what stands between its slashes, so that "/a/b/" is  *)
(* <<"", "a", "b", "">>; controller names are those of RouteAction, of     *)
(* which none begins with a slash, and the "controller" that AddRoute and  *)
(* CreateContext append to them is left out.                               *)
(***************************************************************************)
EXTENDS Integers, Sequences, SequencesExt, FiniteSetsExt

CONSTANTS Lower,        \* String::ToLower, as a function
          UnknownTags   \* components that begin with '[' and are no tag

ParamTag == "[param]"
ParamsTag == "[params]"

(* What stands between two slashes that follow each other, and before the  *)
(* first slash and behind the last.                                        *)
Empty == ""
Slash == <<Empty>>

NotFound == [valid |-> FALSE, controller |-> Empty, action |-> Empty, parameters |-> <<>>]

-----------------------------------------------------------------------------
(* ParsePathForRoute: without the first slash and the last one, everything *)
(* in between, empty components too.                                       *)
ParsePathForRoute(path) ==
    LET start == IF Len(path) > 1 /\ Head(path) = Empty THEN Tail(path) ELSE path
    IN  IF Len(start) > 1 /\ Last(start) = Empty THEN Front(start) ELSE start

(* The path RouteAction builds.  A missing third argument leaves a slash   *)
(* at the end.                                                             *)
ActionPath(contextPath, action, params) ==
    contextPath \o <<action>> \o (IF params = <<>> THEN Slash ELSE params)

(* A loop that takes the elements of s whose positions are in a set.       *)
Selected(s, positions) ==
    LET upTo[n \in 0..Len(s)] ==
            IF n = 0 THEN <<>>
            ELSE IF n \in positions THEN Append(upTo[n - 1], s[n]) ELSE upTo[n - 1]
    IN  upTo[Len(s)]

(* ParamIndexes: the components that are no tags, in ascending order.      *)
FixedIndexes(components) ==
    Selected([i \in DOMAIN components |-> i],
             {i \in DOMAIN components : components[i] \notin {ParamTag, ParamsTag}})

RefusedPath(path) ==
    \/ Contains(path, ParamsTag) /\ Last(path) # ParamsTag
    \/ \E i \in DOMAIN path : path[i] \in UnknownTags

(* AddRoute; a route that is refused leaves the table as it is.            *)
AddRoute(routes, method, path, controller, action) ==
    LET components == ParsePathForRoute(path)
        route == [method     |-> method,
                  components |-> components,
                  paramCount |-> Cardinality({i \in DOMAIN components : components[i] = ParamTag}),
                  custom     |-> Contains(components, ParamsTag),
                  fixed      |-> FixedIndexes(components),
                  controller |-> Lower[controller],
                  action     |-> action]
    IN  IF RefusedPath(path) \/ action = Empty
        THEN [added |-> FALSE, routes |-> routes]
        ELSE [added |-> TRUE, routes |-> Append(routes, route)]

-----------------------------------------------------------------------------
(* [params] may stand for nothing.                                         *)
LengthFits(route, components) ==
    IF route.custom THEN Len(route.components) - 1 <= Len(components)
                    ELSE Len(route.components) = Len(components)

Fits(route, method, components) ==
    /\ LengthFits(route, components)
    /\ \A i \in ToSet(route.fixed) : route.components[i] = components[i]
    /\ route.method \in {method, "any"}

(* The loop that removes components, from the last index to the first.     *)
Removed(components, indexes) ==
    LET from[k \in 1..Len(indexes) + 1] ==
            IF k > Len(indexes) THEN components ELSE RemoveAt(from[k + 1], indexes[k])
    IN  from[1]

(* Mutant: the loop ends at index 1.                                       *)
ParametersKeepFirst(route, components) == Removed(components, Tail(route.fixed))

(* What is left of a request when the fixed components are removed.        *)
Parameters(route, components) ==
    IF components = Slash THEN <<>> ELSE Removed(components, route.fixed)

FirstFit(fitting) == Min(fitting)

FindByComponents(routes, method, components) ==
    LET fitting == {i \in DOMAIN routes : Fits(routes[i], method, components)}
        route == routes[FirstFit(fitting)]
    IN  IF fitting = {} THEN NotFound
        ELSE [valid |-> TRUE, controller |-> route.controller, action |-> route.action,
              parameters |-> Parameters(route, components)]

(* ParseIntoArray without the empty components, as FindRoute calls it.     *)
Cull(uri) == Selected(uri, {i \in DOMAIN uri : uri[i] # Empty})

FindRoute(routes, method, uri) == FindByComponents(routes, method, Cull(uri))

-----------------------------------------------------------------------------
(* GeneratePathFromComponents: the next parameter for each [param], all    *)
(* that are left for [params], after which it stops.                       *)
GeneratePath(components, params) ==
    LET end == SelectInSeq(components, LAMBDA component : component = ParamsTag)
        shown == IF end = 0 THEN Len(components) ELSE end - 1
        count(i) == Cardinality({j \in 1..i - 1 : components[j] = ParamTag})
        filled == [i \in 1..shown |->
                     IF components[i] = ParamTag THEN params[count(i) + 1] ELSE components[i]]
        left == IF end = 0 THEN <<>> ELSE SubSeq(params, count(end) + 1, Len(params))
    IN  Slash \o filled \o (IF left = <<>> THEN Slash ELSE left)

(* Mutant: a route without [params] takes more parameters than it has.     *)
TakesParamsLoosely(route, params) == route.paramCount <= Len(params)

TakesParams(route, params) ==
    IF route.custom THEN route.paramCount <= Len(params) ELSE route.paramCount = Len(params)

(* FindUrlByController, and with it the route the url is made from; 0 and  *)
(* an empty url when there is none.                                        *)
FindUrlByController(routes, controller, action, params) ==
    LET from == SelectInSeq(routes, LAMBDA route :
                    route.controller = controller /\ route.action = action /\ TakesParams(route, params))
    IN  [from |-> from,
         url |-> IF from = 0 THEN <<>> ELSE GeneratePath(routes[from].components, params)]
=============================================================================
