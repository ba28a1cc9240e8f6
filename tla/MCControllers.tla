----------------------------- MODULE MCControllers -----------------------------
(* Paths and requests for Controllers. *)
EXTENDS Controllers

LowerCase == [name \in {"home", "user", "User"} |-> IF name = "User" THEN "user" ELSE name]
Tags == {"[id]"}
ApiOnly == {<<"", "api">>}
Root == {<<"", "">>}
AlsoWithParameter == {<<"", "api">>, <<"", "[param]">>}

MCTails == {<<>>, <<"[params]">>, <<"[param]">>, <<"[param]", "edit">>, <<"[params]", "">>}

(* ClientRequests below two bases, of which only one is fixed, with one to three *)
(* components, or an empty one, behind the action.                         *)
Rests == {<<>>, <<"">>, <<"edit">>, <<"7">>, <<"7", "edit">>, <<"7", "8", "9">>}
Few == {<<>>, <<"7">>}
MCRequests ==
    [method : {"get", "post"},
     uri : {<<"", base, "user", "show">> \o rest : base \in {"api", "7"}, rest \in Rests}
           \cup {<<"", base, "home", "show">> \o rest : base \in {"api", "7"}, rest \in Few}]

CapitalRequests == [method : {"get"}, uri : {<<"", "api", "User", "show">>}]
=============================================================================
