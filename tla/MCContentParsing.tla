-------------------------- MODULE MCContentParsing --------------------------
(* Every text of up to a few pieces: bodies with a coded separator, headers *)
(* with blanks.  All bodies are well formed: "26" only follows a "%".       *)
EXTENDS ContentParsing

CONSTANTS BodyPieces, HeaderPieces   \* how many pieces

UpTo(n, pieces) == UNION {[1..k -> pieces] : k \in 0..n}
Bodies == {FlattenSeq(p) : p \in UpTo(BodyPieces, {<<"a">>, <<"=">>, <<"&">>, <<"%", "26">>})}
Headers == UpTo(HeaderPieces, {"a", "=", "&", " "})
AllTexts == [form |-> Bodies, text |-> Bodies, parameters |-> Headers \ {<<>>}, cookies |-> Headers]
BodiesWithNames == [form |-> UpTo(3, {"a", "=", "&"})]
BodiesOfText == [text |-> UpTo(5, {"a", "=", "&"})]
=============================================================================
