---------------------------- MODULE MCFileTransfer ----------------------------
(* Requests for FileTransfer, over files of up to 7 bytes and chunks of 3.   *)
EXTENDS FileTransfer

Sizes == {0, 1, 3, 4, 7}
Ask(size, range) == [method |-> "get", file |-> "ok", size |-> size, modified |-> "absent",
                     unit |-> "bytes", range |-> range, mayFail |-> FALSE]

(* Ranges within a file that fit into a chunk, ranges to its last byte, and  *)
(* ranges that ask for nothing.                                              *)
Short(size) == {r \in (0..size - 1) \X (0..size - 1) : r[1] <= r[2] /\ r[2] - r[1] < Chunk}
ToEnd(size) == {<<p, None>> : p \in 0..size} \cup {<<p, size - 1>> : p \in 0..size - 1} \cup {<<None, size>>, <<None, size + 2>>}
Empty(size) == {r \in (0..size + 1) \X (0..size + 1) : r[2] < r[1]}

(* Whole files and single ranges of these kinds, with every way to fail.     *)
Whole == [method : {"get", "head"}, file : {"ok", "missing", "sizeless", "locked"}, size : Sizes,
          modified : {"absent", "invalid", "same", "other"}, unit : {"absent", "no equals", "other"}, range : {<<>>}, mayFail : {TRUE}]
Partial == UNION {[method : {"get", "head"}, file : {"ok", "locked"}, size : {size}, modified : {"absent"},
                   unit : {"bytes"}, mayFail : {TRUE}, range : {<<r>> : r \in Short(size) \cup ToEnd(size) \cup Empty(size)}] : size \in Sizes}

(* Two ranges of which the second is not shorter, and then the rest, over a  *)
(* socket that does not fail.                                                *)
Length(r) == r[2] - r[1] + 1
Growing == {Ask(7, <<a, b>> \o rest) : a \in Short(7), b \in Short(7), rest \in {<<>>, <<<<5, None>>>>}}
Several == {q \in Growing : Length(q.range[1]) <= Length(q.range[2])}

InOrder == Whole \cup Partial \cup Several

(* The requests of the runs that show a disagreement.                        *)
PastTheEnd == {Ask(4, <<<<2, 4>>>>)}
LastBytes == {Ask(4, <<<<None, 1>>>>)}
LongRange == {Ask(7, <<<<0, 3>>>>)}
TwoRanges == {[Ask(7, <<<<0, 1>>, <<4, 5>>>>) EXCEPT !.mayFail = TRUE]}
=============================================================================
