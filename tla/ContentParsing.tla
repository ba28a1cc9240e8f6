--------------------------- MODULE ContentParsing ---------------------------
(***************************************************************************)
(* The loops that take lists of name=value pairs apart: the bodies of      *)
(* application/x-www-form-urlencoded and text/plain, which arrive in       *)
(* packets (ParseRequestContentType), the parameters of a content type and *)
(* the cookie header, which are whole.  One step is one turn of a loop.    *)
(*                                                                         *)
(* A text is a sequence of characters: "=", the separator "&" (that of the *)
(* headers is a semicolon), blanks, "%" and "26", the code of a separator, *)
(* and anything else.  Positions begin with 1, and 0 is INDEX_NONE, which  *)
(* is below every position as in the code.                                 *)
(***************************************************************************)
EXTENDS Integers, SequencesExt

CONSTANTS Texts,          \* what may come, for every kind of list
          NegativeTakes   \* what String::Mid makes of a count below 0: "nothing" or "all"

Kinds == {"form", "text", "parameters", "cookies"}

Infinity == 1000   \* INT_MAX, which no text is as long as

ASSUME ContentAssumption ==
    /\ DOMAIN Texts \subseteq Kinds
    /\ \A k \in DOMAIN Texts : \A t \in Texts[k] : t \in Seq(STRING) /\ Len(t) < Infinity
    /\ NegativeTakes \in {"nothing", "all"}

VARIABLES kind, text,
          phase,          \* "first", "receive", "turn", "done" or "failed"
          unread,         \* what of the text has not arrived
          contentBuffer,  \* contentBuffer, or the header
          bytesReceived,  \* ContentDesc::BytesReceived
          leftBytes,      \* ContentDesc::LeftBytes
          pos,            \* where the loop is in the buffer
          pairs           \* what has been inserted, in this order

input == <<kind, text>>
contentVars == <<input, phase, unread, contentBuffer, bytesReceived, leftBytes, pos, pairs>>

-----------------------------------------------------------------------------
None == 0

After(s, n) == SubSeq(s, n + 1, Len(s))

Find(c, from) ==
    LET at == {i \in from..Len(contentBuffer) : contentBuffer[i] = c} IN IF at = {} THEN None ELSE Min(at)

Mid(from, count) ==
    IF count < 0
    THEN IF NegativeTakes = "all" THEN After(contentBuffer, from - 1) ELSE <<>>
    ELSE SubSeq(contentBuffer, from, Min({from + count - 1, Len(contentBuffer)}))

Trim(s) ==
    LET ink == {i \in DOMAIN s : s[i] # " "}
    IN  IF ink = {} THEN <<>> ELSE SubSeq(s, Min(ink), Max(ink))

DecodeUrl(s) ==
    LET kept == SelectSeq(s, LAMBDA c : c # "26")
    IN  [i \in DOMAIN kept |-> IF kept[i] = "%" THEN "&" ELSE kept[i]]

ContentInit ==
    /\ kind \in DOMAIN Texts /\ text \in Texts[kind]
    /\ leftBytes = 0 /\ pos = 1 /\ pairs = <<>>
    /\ IF kind \in {"form", "text"}
       THEN phase = "first" /\ unread = text /\ contentBuffer = <<>> /\ bytesReceived = 0
       ELSE phase = "turn" /\ unread = <<>> /\ contentBuffer = text /\ bytesReceived = Len(text)

-----------------------------------------------------------------------------
FullSize == Len(text)

(* Mutant: what is left over is not kept for the next packet.              *)
WithPacketOnly(n) == SubSeq(unread, 1, n)

(* Erase all but the leftover of contentBuffer, and append the packet.     *)
WithPacket(n) == After(contentBuffer, Len(contentBuffer) - leftBytes) \o SubSeq(unread, 1, n)

(* Mutant: a packet of size 0 is not taken for an error.                   *)
SizesFromZero == 0..Len(unread)

(* The first piece, which has come with the head, may be empty; a packet   *)
(* of the loop is of any size up to what is left of the content.           *)
Sizes == IF phase = "first" THEN 0..Len(unread) ELSE 1..Len(unread)

GetPacket ==
    /\ phase \in {"first", "receive"}
    /\ \E n \in Sizes :
          /\ contentBuffer' = WithPacket(n)
          /\ unread' = After(unread, n)
          /\ bytesReceived' = bytesReceived + n
    /\ leftBytes' = 0 /\ pos' = 1 /\ phase' = "turn"
    /\ UNCHANGED <<input, pairs>>

GetNoPacket ==
    /\ phase = "receive"
    /\ phase' = "failed"
    /\ UNCHANGED <<input, unread, contentBuffer, bytesReceived, leftBytes, pos, pairs>>

Insert(name, value) == pairs' = Append(pairs, [name |-> name, value |-> value])

(* Mutant: the next turn begins one character too far on.                  *)
NextPairFurther(end) ==
    IF end = None THEN phase' = "done" /\ pos' = pos ELSE phase' = phase /\ pos' = Min({end + 2, Len(contentBuffer) + 1})

(* The head of the for loop.                                               *)
NextPair(end) ==
    IF end = None THEN phase' = "done" /\ pos' = pos ELSE phase' = phase /\ pos' = end + 1

(* EnsureContentLength: of an empty buffer there is nothing to parse.      *)
Nothing ==
    /\ phase = "turn" /\ kind \in {"form", "text"} /\ contentBuffer = <<>>
    /\ phase' = IF FullSize = 0 THEN "done" ELSE "receive"
    /\ UNCHANGED <<input, unread, contentBuffer, bytesReceived, leftBytes, pos, pairs>>

Leftover == Len(contentBuffer) - pos + 1

(* The end of what has come is not the end of the content.                 *)
SaveLeftover ==
    /\ phase = "turn" /\ kind \in {"form", "text"} /\ contentBuffer # <<>>
    /\ Find("&", pos) = None /\ bytesReceived # FullSize
    /\ leftBytes' = Leftover
    /\ phase' = "receive"
    /\ UNCHANGED <<input, unread, contentBuffer, bytesReceived, pos, pairs>>

HasPart == contentBuffer # <<>> /\ ~(Find("&", pos) = None /\ bytesReceived # FullSize)

EndOr(end) == IF end = None THEN Infinity ELSE end
Rest(end, from) == IF end = None THEN Infinity ELSE end - from

ParseForm ==
    /\ phase = "turn" /\ kind = "form" /\ HasPart
    /\ LET end == Find("&", pos)
           delimiter == Find("=", pos)
       IN  /\ IF delimiter >= EndOr(end)
              THEN Insert(DecodeUrl(Mid(pos, end - pos)), <<>>)
              ELSE Insert(DecodeUrl(Mid(pos, delimiter - pos)),
                          DecodeUrl(Mid(delimiter + 1, Rest(end, delimiter + 1))))
           /\ NextPair(end)
    /\ UNCHANGED <<input, unread, contentBuffer, bytesReceived, leftBytes>>

(* As ParseForm, without the decoding, but the name of the last pair is    *)
(* all that is left.                                                       *)
ParseText ==
    /\ phase = "turn" /\ kind = "text" /\ HasPart
    /\ LET end == Find("&", pos)
           delimiter == Find("=", pos)
       IN  /\ IF delimiter >= EndOr(end)
              THEN Insert(Mid(pos, end - pos), <<>>)
              ELSE Insert(Mid(pos, IF end = None THEN Infinity ELSE delimiter - pos),
                          Mid(delimiter + 1, Rest(end, delimiter + 1)))
           /\ NextPair(end)
    /\ UNCHANGED <<input, unread, contentBuffer, bytesReceived, leftBytes>>

(* ParseContentParameters.  The first part is the name of the type.  A     *)
(* last parameter has end = INDEX_NONE, which no delimiter is below.       *)
ParseParameters ==
    /\ phase = "turn" /\ kind = "parameters"
    /\ LET end == Find("&", pos)
           delimiter == Find("=", pos)
       IN  /\ IF pairs = <<>>
              THEN Insert(IF end = None THEN contentBuffer ELSE Trim(Mid(pos, end - pos)), <<>>)
              ELSE IF delimiter >= end
              THEN Insert(Trim(Mid(pos, Rest(end, pos))), <<>>)
              ELSE Insert(Trim(Mid(pos, delimiter - pos)),
                          Trim(Mid(delimiter + 1, Rest(end, delimiter + 1))))
           /\ NextPair(end)
    /\ UNCHANGED <<input, unread, contentBuffer, bytesReceived, leftBytes>>

NoCookie(delimiter, end) == delimiter = None \/ delimiter > EndOr(end)

(* Cookie::ParseCookieString.  Its caller uses the cookies it has got,     *)
(* whatever it returns.                                                    *)
ParseCookies ==
    /\ phase = "turn" /\ kind = "cookies" /\ contentBuffer # <<>>
    /\ LET end == Find("&", pos)
           delimiter == Find("=", pos)
       IN  IF NoCookie(delimiter, end)
           THEN phase' = "failed" /\ UNCHANGED <<pos, pairs>>
           ELSE /\ Insert(DecodeUrl(Trim(Mid(pos, delimiter - pos))),
                          DecodeUrl(Trim(Mid(delimiter + 1, Rest(end, delimiter + 1)))))
                /\ NextPair(end)
    /\ UNCHANGED <<input, unread, contentBuffer, bytesReceived, leftBytes>>

NoCookies ==
    /\ phase = "turn" /\ kind = "cookies" /\ contentBuffer = <<>>
    /\ phase' = "failed"
    /\ UNCHANGED <<input, unread, contentBuffer, bytesReceived, leftBytes, pos, pairs>>

ContentNext == GetPacket \/ GetNoPacket \/ Nothing \/ SaveLeftover
          \/ ParseForm \/ ParseText \/ ParseParameters \/ ParseCookies \/ NoCookies

(* A read of the socket waits no longer than the request's timeout, and    *)
(* the loops run on their own.                                             *)
ContentSpec == ContentInit /\ [][ContentNext]_contentVars /\ WF_contentVars(ContentNext)

-----------------------------------------------------------------------------
(* The reference: the parts between separators, and the name and the value *)
(* around the first "=" of a part.                                         *)
Separators == {j \in DOMAIN text : text[j] = "&"}
Starts == {1} \cup {j + 1 : j \in Separators}
StartOf(k) == CHOOSE i \in Starts : Cardinality({j \in Separators : j < i}) = k - 1
EndOf(i) == Min({j \in Separators : j >= i} \cup {Len(text) + 1})
TextParts == [k \in 1..Cardinality(Separators) + 1 |-> SubSeq(text, StartOf(k), EndOf(StartOf(k)) - 1)]

Written(s) ==
    CASE kind = "form"       -> DecodeUrl(s)
      [] kind = "text"       -> s
      [] kind = "parameters" -> Trim(s)
      [] kind = "cookies"    -> DecodeUrl(Trim(s))

HasValue(part) == \E i \in DOMAIN part : part[i] = "="

Pair(part) ==
    LET i == Min({j \in DOMAIN part : part[j] = "="})
    IN  [name |-> Written(SubSeq(part, 1, i - 1)), value |-> Written(After(part, i))]

(* Types; no leftover is longer than the contentBuffer it is the end of.          *)
ContentTypes ==
    /\ phase \in {"first", "receive", "turn", "done", "failed"}
    /\ bytesReceived + Len(unread) = FullSize
    /\ leftBytes \in 0..Len(contentBuffer) /\ pos \in 1..Len(contentBuffer) + 1

(* However a body is cut into packets - within a name, before or behind a  *)
(* separator, within the code of a character - every part with a name and  *)
(* a value is inserted as it was written, in its place, whatever stands    *)
(* around it.  Not so the last part of a text/plain body or of the         *)
(* parameters (see LastPairArrives).                                       *)
PairsArrive ==
    \A k \in DOMAIN pairs :
        /\ HasValue(TextParts[k])
        /\ kind = "parameters" => k > 1
        /\ kind \in {"text", "parameters"} => k < Len(TextParts)
        => pairs[k] = Pair(TextParts[k])

(* A body that has been bytesReceived whole has had all of its parts inserted,  *)
(* and each of them once.                                                  *)
AllPartsArrive == phase = "done" /\ text # <<>> => Len(pairs) = Len(TextParts)

(* While a content waits for a packet, what it has kept and what is still  *)
(* to come is the text from the first part on that is not inserted: no     *)
(* character is lost or used twice between two packets.                    *)
LeftoverIsNextPart ==
    phase = "receive" =>
        After(contentBuffer, Len(contentBuffer) - leftBytes) \o unread
            = After(text, StartOf(Len(pairs) + 1) - 1)

(* The cookie header is given up at its first part without a value, and    *)
(* the cookies before it have been read.                                   *)
CookiesUpToABadOne ==
    kind = "cookies" /\ phase = "failed" =>
        /\ \A k \in 1..Len(pairs) : HasValue(TextParts[k])
        /\ text = <<>> \/ ~HasValue(TextParts[Len(pairs) + 1])

(* The types, and that at every packet and at the end exactly the parts    *)
(* behind the loop's place have been inserted.                             *)
ContentInv == ContentTypes /\ LeftoverIsNextPart /\ AllPartsArrive /\ CookiesUpToABadOne

(* Parsing ends: every packet brings it nearer to the end of the content,  *)
(* every turn to the end of the contentBuffer.                                    *)
ParsingEnds == <>(phase \in {"done", "failed"})

(* A part without a value is inserted as a name with an empty value, as    *)
(* the comments of the parsers say ("empty Value").                        *)
NamesArrive ==
    \A k \in DOMAIN pairs :
        ~HasValue(TextParts[k]) /\ (kind = "parameters" => k > 1)
        => pairs[k] = [name |-> Written(TextParts[k]), value |-> <<>>]

(* The last part is inserted like the others.                              *)
LastPairArrives ==
    phase = "done" /\ kind \in {"text", "parameters"} /\ Len(TextParts) > 1 /\ HasValue(Last(TextParts))
        => pairs[Len(pairs)] = Pair(Last(TextParts))
=============================================================================
