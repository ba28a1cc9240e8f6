--------------------------- MODULE MCHttpConnection ---------------------------
(* Clients for HttpConnection: all dialogues of three requests of the kinds *)
(* below, those of four requests that keep to what is accepted, and the     *)
(* single dialogues of the runs that show a disagreement.                   *)
EXTENDS HttpConnection

R(body, type, host, conn) == [body |-> body, type |-> type, host |-> host, connection |-> conn]

Get      == R(0, "none", "known", {"keep-alive"})
GetOnce  == R(0, "none", "known", {})
Switch   == R(0, "none", "known", {"upgrade"})
Form     == R(2, "form", "known", {"keep-alive"})
Empty    == R(0, "form", "known", {"keep-alive"})
Large    == R(3, "form", "known", {"keep-alive"})
Unknown  == R(1, "other", "known", {"keep-alive"})
Stranger == R(0, "none", "unknown", {"keep-alive"})
Untyped  == R(1, "none", "known", {"keep-alive"})
Json     == R(2, "json", "known", {"keep-alive"})

Kinds == {Get, GetOnce, Switch, Form, Empty, Large, Unknown, Stranger}
Dialogues == [1..3 -> Kinds] \cup [1..4 -> {Get, GetOnce, Form}]
KeptDialogues == [1..4 -> {Get, Form}]
UntypedFirst == {<<Untyped, Get>>}
JsonFirst == {<<Json, Get>>}
FormOnly == {<<Form>>}
GetTwice == {<<Get, Get>>}
=============================================================================
