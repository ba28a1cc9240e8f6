---------------------------- MODULE FileTransfer ----------------------------
(***************************************************************************)
(* Protocol::Sendfile: the answer to a request whose application has named *)
(* a file, the whole file or the ranges the request asks for.  A byte of   *)
(* the file is its position; a range header is the sequence of its ranges, *)
(* in which an end that is left out is None.  ulong arithmetic is modulo   *)
(* UlongSize, so a subtraction may pass below zero.                        *)
(*                                                                         *)
(* Of the engine is assumed: Reserve makes room for the asked number and   *)
(* no more, and never gives room back; Read stops at the end of the file.  *)
(* Whether IsEof is true when the last byte, but nothing after it, was     *)
(* asked for is left open.                                                 *)
(***************************************************************************)
EXTENDS Integers, Sequences, SequencesExt

CONSTANTS Requests,     \* the requests made, each with the file it meets
          Chunk,        \* the 512 * 1024 of the transfer loops
          UlongSize     \* one more than the largest ulong

None == -1

ASSUME TransferAssumption ==
    /\ \A q \in Requests :
          /\ q.method \in {"get", "head"}
          /\ q.file \in {"ok", "missing", "sizeless", "locked"} /\ q.size \in 0..UlongSize - 1
          /\ q.modified \in {"absent", "invalid", "same", "other"}
          /\ q.unit \in {"absent", "no equals", "other", "bytes"}  \* of the range header
          /\ q.range \in Seq((Nat \cup {None}) \X (Nat \cup {None}))
          /\ q.mayFail \in BOOLEAN   \* the socket may fail
    /\ Chunk \in Nat \ {0} /\ UlongSize \in Nat \ {0}

VARIABLES pc,             \* where Sendfile is
          request,        \* the request and the file
          status,         \* the status sent, None before that
          contentLength,  \* the content-length header
          contentRange,   \* the content-range header: its <<first, last>> pairs
          ranges,         \* ranges not begun
          capacity,       \* of the buffer
          pos,            \* of the file
          sendSizeLeft,   \* of the current range, or FullSize - SendTotal
          sent,           \* the bytes sent
          failed          \* a send has failed

headers == <<status, contentLength, contentRange>>
transfer == <<capacity, pos, sendSizeLeft>>
vars == <<pc, request, headers, ranges, transfer, sent, failed>>

Least(a, b) == IF a < b THEN a ELSE b
Ulong(n) == n % UlongSize
fileSize == request.size

Init ==
    /\ pc = "begin" /\ request \in Requests
    /\ status = None /\ contentLength = 0 /\ contentRange = <<>>
    /\ ranges = <<>> /\ capacity = 0 /\ pos = 0 /\ sendSizeLeft = 0
    /\ sent = <<>> /\ failed = FALSE

-----------------------------------------------------------------------------
(* A range <<first, last>> of the header: where it begins, how long it is, *)
(* and what the content-range header calls its end.                        *)
Bounded(r, size) == r[1] # None /\ r[2] # None /\ r[1] < size /\ r[2] >= r[1]
ToTheEnd(r, size) == r[1] # None /\ r[2] = None /\ r[1] < size
Suffix(r) == r[1] = None /\ r[2] # None

(* Mutant: the end of a range is not one of its bytes.                     *)
BoundedRangeShort(r, size) ==
    LET end == Least(r[2], size)
    IN  [position |-> r[1], length |-> Ulong(end - r[1]), last |-> end]

BoundedRange(r, size) ==
    LET end == Least(r[2], size)
    IN  [position |-> r[1], length |-> Ulong(end - r[1] + 1), last |-> end]

SuffixRange(r, size) ==
    LET length == IF r[2] < size THEN size - r[2] ELSE size
    IN  [position |-> size - length, length |-> length, last |-> Ulong(length - 1)]

RangeOf(r, size) ==
    CASE Bounded(r, size)  -> <<BoundedRange(r, size)>>
      [] ToTheEnd(r, size) -> <<[position |-> r[1], length |-> size - r[1], last |-> size - 1]>>
      [] Suffix(r)         -> <<SuffixRange(r, size)>>
      [] OTHER             -> <<>>

GetRanges(header, size) == FlattenSeq([i \in DOMAIN header |-> RangeOf(header[i], size)])

Total(numbers) ==
    LET upTo[n \in 0..Len(numbers)] == IF n = 0 THEN 0 ELSE upTo[n - 1] + numbers[n]
    IN  upTo[Len(numbers)]

LengthOf(found) == Ulong(Total([i \in DOMAIN found |-> found[i].length]))

-----------------------------------------------------------------------------
(* SendHeaders for a transfer; when it fails the transfer is over.         *)
SendHeaders(code, then) ==
    \/ status' = code /\ pc' = then /\ UNCHANGED failed
    \/ request.mayFail /\ pc' = "done" /\ failed' = TRUE /\ UNCHANGED status

Refuse(code) ==
    /\ SendHeaders(code, "done")
    /\ UNCHANGED <<contentLength, contentRange, ranges, transfer>>

Modified == request.modified \notin {"invalid", "same"}
IsPartial == request.unit # "absent"

BodyFollows(to) == IF request.method = "head" THEN "done" ELSE to

(* Sendfile, up to the headers of a whole file.                            *)
SendfileHeaders ==
    /\ pc = "begin"
    /\ \/ request.file = "missing" /\ Refuse(404)
       \/ /\ request.file = "sizeless"
          /\ pc' = "done"
          /\ UNCHANGED <<headers, ranges, transfer, failed>>
       \/ request.file \in {"ok", "locked"} /\ request.modified = "invalid" /\ Refuse(406)
       \/ request.file \in {"ok", "locked"} /\ request.modified = "same" /\ Refuse(304)
       \/ /\ request.file \in {"ok", "locked"} /\ Modified /\ IsPartial
          /\ pc' = "partial"
          /\ UNCHANGED <<headers, ranges, transfer, failed>>
       \/ request.file = "locked" /\ Modified /\ ~IsPartial /\ Refuse(500)
       \/ /\ request.file = "ok" /\ Modified /\ ~IsPartial
          /\ SendHeaders(200, IF fileSize = 0 THEN "done" ELSE BodyFollows("copy"))
          /\ contentLength' = fileSize
          /\ capacity' = Least(fileSize, Chunk) /\ pos' = 0 /\ sendSizeLeft' = fileSize
          /\ UNCHANGED <<contentRange, ranges>>
    /\ UNCHANGED <<request, sent>>

(* SendPartial, up to its headers.                                         *)
SendPartialHeaders ==
    /\ pc = "partial"
    /\ IF request.unit = "no equals" THEN Refuse(400) ELSE
       LET found == IF request.unit = "other" THEN <<>> ELSE GetRanges(request.range, fileSize) IN
       \/ LengthOf(found) = 0 /\ Refuse(416)
       \/ LengthOf(found) # 0 /\ request.file = "locked" /\ Refuse(500)
       \/ /\ LengthOf(found) # 0 /\ request.file = "ok"
          /\ SendHeaders(206, BodyFollows("ranges"))
          /\ contentLength' = LengthOf(found)
          /\ contentRange' = [i \in DOMAIN found |-> <<found[i].position, found[i].last>>]
          /\ ranges' = found
          /\ UNCHANGED transfer
    /\ UNCHANGED <<request, sent>>

-----------------------------------------------------------------------------
Reserve(n) == IF n > capacity THEN n ELSE capacity
Eofs(to) == IF to > fileSize THEN {TRUE} ELSE IF to = fileSize THEN BOOLEAN ELSE {FALSE}

(* The body of both loops: what is read goes out, or the send fails.       *)
(* A failed send of the ranges' loop changes the number it subtracts it    *)
(* from; the other one only counts what has been sent.                     *)
ReadAndSend(room, again, then) ==
    LET n == Least(room, fileSize - pos) IN
    /\ pos' = pos + n
    /\ \/ /\ n > 0
          /\ sent' = sent \o [i \in 1..n |-> pos + i - 1]
          /\ sendSizeLeft' = Ulong(sendSizeLeft - n)
          /\ \E eof \in Eofs(pos + room) :
                pc' = IF ~eof /\ sendSizeLeft' # 0 THEN again ELSE then
          /\ UNCHANGED failed
       \/ /\ n = 0 \/ request.mayFail
          /\ \E result \in {0, -1} :
                sendSizeLeft' = IF pc = "copy" THEN sendSizeLeft ELSE Ulong(sendSizeLeft - result)
          /\ pc' = then
          /\ failed' = (failed \/ n > 0)
          /\ UNCHANGED sent

RoomFor(length) == Least(length, Chunk)

BeginRange ==
    /\ pc = "ranges"
    /\ \/ /\ ranges = <<>>
          /\ pc' = "done"
          /\ UNCHANGED <<ranges, transfer>>
       \/ /\ ranges # <<>>
          /\ capacity' = Reserve(RoomFor(Head(ranges).length))
          /\ pos' = Least(Head(ranges).position, fileSize)
          /\ sendSizeLeft' = Head(ranges).length
          /\ ranges' = Tail(ranges)
          /\ pc' = "range"
    /\ UNCHANGED <<request, headers, sent, failed>>

(* Mutant: a range is read with the room of a chunk.                       *)
SendRangeChunk ==
    /\ pc = "range"
    /\ capacity' = Reserve(Chunk)
    /\ ReadAndSend(capacity', "range", "ranges")
    /\ UNCHANGED <<request, headers, ranges>>

SendRange ==
    /\ pc = "range"
    /\ capacity' = IF sendSizeLeft < Chunk THEN Reserve(sendSizeLeft) ELSE capacity
    /\ ReadAndSend(capacity', "range", "ranges")
    /\ UNCHANGED <<request, headers, ranges>>

(* Mutant: the loop over the whole file makes one turn.                    *)
CopyOnce ==
    /\ pc = "copy"
    /\ ReadAndSend(capacity, "done", "done")
    /\ UNCHANGED <<request, headers, ranges, capacity>>

Copy ==
    /\ pc = "copy"
    /\ ReadAndSend(capacity, "copy", "done")
    /\ UNCHANGED <<request, headers, ranges, capacity>>

Next == SendfileHeaders \/ SendPartialHeaders \/ BeginRange \/ SendRange \/ Copy

Spec == Init /\ [][Next]_vars

-----------------------------------------------------------------------------
(* The bytes a range asks for: from its first to its last byte, or to the  *)
(* end of the file, or the last r[2] bytes of it.                          *)
Interval(from, to) == [i \in 1..(to - from + 1) |-> from + i - 1]
Asked(r, size) ==
    CASE Bounded(r, size)  -> Interval(r[1], Least(r[2], size - 1))
      [] ToTheEnd(r, size) -> Interval(r[1], size - 1)
      [] Suffix(r)         -> Interval(size - Least(r[2], size), size - 1)
      [] OTHER             -> <<>>

Expected ==
    IF status = 206 THEN FlattenSeq([i \in DOMAIN request.range |-> Asked(request.range[i], fileSize)])
    ELSE IF status = 200 THEN Interval(0, fileSize - 1) ELSE <<>>

TypeOK ==
    /\ pc \in {"begin", "partial", "ranges", "range", "copy", "done"}
    /\ status \in {None, 200, 206, 304, 400, 404, 406, 416, 500}
    /\ contentLength \in 0..UlongSize - 1 /\ sendSizeLeft \in 0..UlongSize - 1
    /\ capacity \in 0..Chunk /\ pos \in 0..fileSize /\ failed \in BOOLEAN

(* What has been sent is at any time the beginning of what was asked for,  *)
(* whatever fails: no byte is skipped, repeated or added.                  *)
PrefixOfExpected == request.method = "get" => IsPrefix(sent, Expected)

(* A transfer in which no send fails sends as many bytes as its            *)
(* content-length header has announced.                                    *)
LengthAsAnnounced ==
    pc = "done" /\ ~failed /\ request.method = "get" /\ status \in {200, 206}
        => Len(sent) = contentLength

(* A body follows no other headers than those of a transfer, and never     *)
(* those of a HEAD request.                                                *)
BodyOnlyForGet == sent # <<>> => request.method = "get" /\ status \in {200, 206}

(* The types, of which the room of the buffer is never beyond a chunk, and *)
(* that only what was asked for is sent, by whichever way.                 *)
FileInv == TypeOK /\ PrefixOfExpected /\ BodyOnlyForGet

(* The content-range header names bytes of the file, and as many as the    *)
(* content-length header.                                                  *)
ContentRangeHolds ==
    status = 206 =>
        /\ \A i \in DOMAIN contentRange : contentRange[i][2] < fileSize
        /\ contentLength = Total([i \in DOMAIN contentRange |-> contentRange[i][2] - contentRange[i][1] + 1])
=============================================================================
