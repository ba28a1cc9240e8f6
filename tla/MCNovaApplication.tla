--------------------------- MODULE MCNovaApplication ---------------------------
(* What the browser of NovaApplication may ask for: one request of every   *)
(* effect on it.  The index page is answered as the redirect of "get" is.  *)
EXTENDS NovaApplication

Names == [name \in {"home", "telegram"} |-> name]
None == {}
Home(action, rest) == [method |-> "get", uri |-> <<"", "api", "home", action>> \o rest]
Get(uri) == [method |-> "get", uri |-> uri]
Update == [method |-> "post", uri |-> <<"", "api", "telegram", "update">>]

Directory == <<"", "pictures">>
File == <<"", "pictures", "cat">>
Missing == <<"", "dog">>

Sessions == {Home("login", <<>>), Home("logout", <<"">>), Home("get", <<"cat">>), Update}
Everything == Sessions \cup {Home("get", <<>>), Get(Directory), Get(File), Get(Missing)}
OnlyDirectory == {Directory}
OnlyFile == {File}
=============================================================================
