------------------------- MODULE FileTransfer_proof -------------------------
(***************************************************************************)
(* Proofs about FileTransfer: what is sent is a beginning of what was      *)
(* asked for, and all of what was announced, for every request the program *)
(* can satisfy, whatever the sizes of the file, the chunks and the ulong.  *)
(***************************************************************************)
EXTENDS FileTransfer, TLAPS, WellFoundedInduction, SequenceTheorems

-----------------------------------------------------------------------------
(* Induction over the numbers up to a bound, and the functions that append *)
(* a sequence, or add a number, for each.                                  *)

LEMMA LeastNumber ==
    ASSUME NEW T, T \subseteq Nat, T # {}
    PROVE  \E x \in T : \A y \in T : ~(y < x)
<1> DEFINE Less == OpToRel(<, Nat)
<1>1. IsWellFoundedOn(Less, Nat)
  BY NatLessThanWellFounded
<1>2. \E x \in T : \A y \in T : ~(<<y, x>> \in Less)
  <2> HIDE DEF Less
  <2> QED BY <1>1, WFMin
<1>3. ASSUME NEW x \in T, NEW y \in T
      PROVE  <<y, x>> \in Less <=> y < x
  BY DEF OpToRel
<1> HIDE DEF Less
<1> QED BY <1>2, <1>3

LEMMA UpTo ==
    ASSUME NEW N \in Nat, NEW S, 0 \in S, \A n \in 0..N - 1 : n \in S => n + 1 \in S
    PROVE  \A n \in 0..N : n \in S
<1> DEFINE T == (0..N) \ S
<1> SUFFICES ASSUME T # {} PROVE FALSE
  OBVIOUS
<1>1. PICK x \in T : \A y \in T : ~(y < x)
  <2>1. T \subseteq Nat
    OBVIOUS
  <2> QED BY <2>1, LeastNumber
<1>2. x # 0 /\ x - 1 \in 0..N - 1
  OBVIOUS
<1>3. x - 1 \in S
  BY <1>1, <1>2
<1> QED BY <1>2, <1>3

LEMMA Climb ==
    ASSUME NEW N \in Nat, NEW S, 0 \in S, \A n \in 1..N : n - 1 \in S => n \in S
    PROVE  \A n \in 0..N : n \in S
<1>1. ASSUME NEW n \in 0..N - 1, n \in S
      PROVE  n + 1 \in S
  <2>1. PICK k \in 1..N : k = n + 1
    OBVIOUS
  <2>2. k - 1 = n
    BY <2>1
  <2> QED BY <1>1, <2>1, <2>2
<1> QED BY <1>1, UpTo

LEMMA ConcatExists ==
    ASSUME NEW N \in Nat, NEW g
    PROVE  \E f : f = [n \in 0..N |-> IF n = 0 THEN <<>> ELSE f[n - 1] \o g[n]]
<1> DEFINE Good(m, f) == f = [n \in 0..m |-> IF n = 0 THEN <<>> ELSE f[n - 1] \o g[n]]
           S == {m \in Nat : \E f : Good(m, f)}
<1>1. 0 \in S
  <2>1. Good(0, [n \in 0..0 |-> <<>>])
    OBVIOUS
  <2> QED BY <2>1
<1>2. ASSUME NEW m \in 0..N - 1, m \in S
      PROVE  m + 1 \in S
  <2>0. m \in Nat /\ m + 1 \in Nat
    OBVIOUS
  <2>1. PICK f : Good(m, f)
    BY <1>2
  <2> DEFINE last == f[m] \o g[m + 1]
  <2> HIDE DEF last
  <2> DEFINE h == [n \in 0..m + 1 |-> IF n = m + 1 THEN last ELSE f[n]]
  <2>2. ASSUME NEW n \in 0..m + 1
        PROVE  h[n] = IF n = 0 THEN <<>> ELSE h[n - 1] \o g[n]
    <3>1. CASE n = m + 1
      <4>1. h[n] = last
        BY <3>1
      <4>2. h[n - 1] = f[m] /\ n # 0
        BY <3>1, <2>0
      <4> HIDE DEF h
      <4> QED BY <4>1, <4>2, <3>1 DEF last
    <3>2. CASE n = 0
      <4>1. h[0] = f[0] /\ f[0] = <<>>
        BY <2>0, <2>1
      <4> HIDE DEF h
      <4> QED BY <4>1, <3>2
    <3>3. CASE n \in 1..m
      <4>1. n \in 0..m /\ n - 1 \in 0..m + 1 /\ n # 0 /\ n # m + 1 /\ n - 1 # m + 1
        BY <3>3, <2>0
      <4>2. h[n] = f[n] /\ h[n - 1] = f[n - 1]
        BY <4>1
      <4>3. f[n] = f[n - 1] \o g[n]
        BY <2>1, <4>1
      <4> HIDE DEF h
      <4> QED BY <4>1, <4>2, <4>3
    <3> QED BY <3>1, <3>2, <3>3, <2>0
  <2>3. h = [n \in 0..m + 1 |-> h[n]]
    OBVIOUS
  <2> HIDE DEF h
  <2> QED BY <2>0, <2>2, <2>3
<1>4. \A m \in 0..N - 1 : m \in S => m + 1 \in S
  BY <1>2
<1>5. N \in S
  <2> HIDE DEF S
  <2>1. \A m \in 0..N : m \in S
    BY <1>1, <1>4, UpTo
  <2> QED BY <2>1
<1> QED BY <1>5

LEMMA SumExists ==
    ASSUME NEW N \in Nat, NEW g
    PROVE  \E f : f = [n \in 0..N |-> IF n = 0 THEN 0 ELSE f[n - 1] + g[n]]
<1> DEFINE Good(m, f) == f = [n \in 0..m |-> IF n = 0 THEN 0 ELSE f[n - 1] + g[n]]
           S == {m \in Nat : \E f : Good(m, f)}
<1>1. 0 \in S
  <2>1. Good(0, [n \in 0..0 |-> 0])
    OBVIOUS
  <2> QED BY <2>1
<1>2. ASSUME NEW m \in 0..N - 1, m \in S
      PROVE  m + 1 \in S
  <2>0. m \in Nat /\ m + 1 \in Nat
    OBVIOUS
  <2>1. PICK f : Good(m, f)
    BY <1>2
  <2> DEFINE last == f[m] + g[m + 1]
  <2> HIDE DEF last
  <2> DEFINE h == [n \in 0..m + 1 |-> IF n = m + 1 THEN last ELSE f[n]]
  <2>2. ASSUME NEW n \in 0..m + 1
        PROVE  h[n] = IF n = 0 THEN 0 ELSE h[n - 1] + g[n]
    <3>1. CASE n = m + 1
      <4>1. h[n] = last
        BY <3>1
      <4>2. h[n - 1] = f[m] /\ n # 0
        BY <3>1, <2>0
      <4> HIDE DEF h
      <4> QED BY <4>1, <4>2, <3>1 DEF last
    <3>2. CASE n = 0
      <4>1. h[0] = f[0] /\ f[0] = 0
        BY <2>0, <2>1
      <4> HIDE DEF h
      <4> QED BY <4>1, <3>2
    <3>3. CASE n \in 1..m
      <4>1. n \in 0..m /\ n - 1 \in 0..m + 1 /\ n # 0 /\ n # m + 1 /\ n - 1 # m + 1
        BY <3>3, <2>0
      <4>2. h[n] = f[n] /\ h[n - 1] = f[n - 1]
        BY <4>1
      <4>3. f[n] = f[n - 1] + g[n]
        BY <2>1, <4>1
      <4> HIDE DEF h
      <4> QED BY <4>1, <4>2, <4>3
    <3> QED BY <3>1, <3>2, <3>3, <2>0
  <2>3. h = [n \in 0..m + 1 |-> h[n]]
    OBVIOUS
  <2> HIDE DEF h
  <2> QED BY <2>0, <2>2, <2>3
<1>4. \A m \in 0..N - 1 : m \in S => m + 1 \in S
  BY <1>2
<1>5. N \in S
  <2> HIDE DEF S
  <2>1. \A m \in 0..N : m \in S
    BY <1>1, <1>4, UpTo
  <2> QED BY <2>1
<1> QED BY <1>5

LEMMA ListIs ==
    ASSUME NEW T, NEW n \in Nat, NEW f \in [1..n -> T]
    PROVE  f \in Seq(T) /\ Len(f) = n
OBVIOUS

(* The beginnings of a concatenation, of which FlattenSeq is the last.     *)
Concats(seqs) == LET f[n \in 0..Len(seqs)] == IF n = 0 THEN <<>> ELSE f[n - 1] \o seqs[n] IN f

LEMMA ConcatsAre ==
    ASSUME NEW T, NEW seqs \in Seq(Seq(T))
    PROVE  /\ Concats(seqs) \in [0..Len(seqs) -> Seq(T)]
           /\ Concats(seqs)[0] = <<>>
           /\ \A n \in 1..Len(seqs) : Concats(seqs)[n] = Concats(seqs)[n - 1] \o seqs[n]
<1> DEFINE N == Len(seqs)
           f == Concats(seqs)
<1>1. N \in Nat /\ \A n \in 1..N : seqs[n] \in Seq(T)
  OBVIOUS
<1>2. f = [n \in 0..N |-> IF n = 0 THEN <<>> ELSE f[n - 1] \o seqs[n]]
  <2>1. \E g : g = [n \in 0..N |-> IF n = 0 THEN <<>> ELSE g[n - 1] \o seqs[n]]
    BY <1>1, ConcatExists
  <2> QED BY <2>1 DEF Concats
<1> HIDE DEF f, N
<1>3. f[0] = <<>> /\ \A n \in 1..N : f[n] = f[n - 1] \o seqs[n]
  <2>1. f[0] = <<>>
    BY <1>1, <1>2
  <2>2. ASSUME NEW n \in 1..N
        PROVE  f[n] = f[n - 1] \o seqs[n]
    <3>1. n \in 0..N /\ n # 0
      BY <1>1
    <3> QED BY <1>2, <3>1
  <2> QED BY <2>1, <2>2
<1>4. \A n \in 0..N : f[n] \in Seq(T)
  <2> DEFINE S == {n \in 0..N : f[n] \in Seq(T)}
  <2>1. 0 \in S
    <3>1. f[0] \in Seq(T)
      BY <1>3, EmptySeq
    <3> QED BY <1>1, <3>1
  <2>2. ASSUME NEW n \in 1..N, n - 1 \in S
        PROVE  n \in S
    <3>1. f[n] = f[n - 1] \o seqs[n] /\ f[n - 1] \in Seq(T) /\ seqs[n] \in Seq(T)
      BY <1>1, <1>3, <2>2
    <3> DEFINE u == f[n - 1]  w == seqs[n]
    <3> HIDE DEF u, w
    <3>2. u \o w \in Seq(T)
      BY <3>1, ConcatProperties DEF u, w
    <3>3. f[n] \in Seq(T)
      BY <3>1, <3>2 DEF u, w
    <3> QED BY <1>1, <3>3
  <2> HIDE DEF S
  <2>3. \A n \in 0..N : n \in S
    BY <1>1, <2>1, <2>2, Climb
  <2> QED BY <2>3 DEF S
<1>5. f = [n \in 0..N |-> f[n]]
  BY <1>2
<1> QED BY <1>3, <1>4, <1>5 DEF f, N

LEMMA Flattened ==
    ASSUME NEW T, NEW seqs \in Seq(Seq(T))
    PROVE  FlattenSeq(seqs) = Concats(seqs)[Len(seqs)]
<1> DEFINE N == Len(seqs)
           f == Concats(seqs)
           flat == CHOOSE g : g = [i \in 1..N |-> IF i = 1 THEN seqs[i] ELSE g[i - 1] \o seqs[i]]
<1>1. N \in Nat /\ \A n \in 1..N : seqs[n] \in Seq(T)
  OBVIOUS
<1>2. /\ f \in [0..N -> Seq(T)] /\ f[0] = <<>>
      /\ \A n \in 1..N : f[n] = f[n - 1] \o seqs[n]
  BY ConcatsAre
<1>3. CASE N = 0
  <2>1. seqs = <<>>
    BY <1>3
  <2>2. FlattenSeq(seqs) = seqs
    BY <1>3 DEF FlattenSeq
  <2> QED BY <1>2, <1>3, <2>1, <2>2
<1>4. CASE N # 0
  <2>1. FlattenSeq(seqs) = flat[N]
    BY <1>4 DEF FlattenSeq
  <2> DEFINE h == [i \in 1..N |-> f[i]]
  <2>2. h = [i \in 1..N |-> IF i = 1 THEN seqs[i] ELSE h[i - 1] \o seqs[i]]
    <3> HIDE DEF f, N
    <3>1. ASSUME NEW i \in 1..N
          PROVE  f[i] = IF i = 1 THEN seqs[i] ELSE h[i - 1] \o seqs[i]
      <4>1. CASE i = 1
        <5>1. 1 \in 1..N /\ 1 - 1 = 0
          BY <4>1
        <5>2. f[1] = f[1 - 1] \o seqs[1]
          BY <1>2, <5>1
        <5>3. f[1] = <<>> \o seqs[1]
          BY <1>2, <5>1, <5>2
        <5>4. seqs[1] \in Seq(T)
          BY <1>1, <4>1
        <5> QED BY <5>3, <5>4, <4>1, ConcatEmptySeq
      <4>2. CASE i # 1
        <5>1. i - 1 \in 1..N /\ h[i - 1] = f[i - 1]
          BY <1>1, <4>2
        <5> QED BY <1>2, <4>2, <5>1
      <4> QED BY <4>1, <4>2
    <3> QED BY <3>1
  <2>3. flat = [i \in 1..N |-> IF i = 1 THEN seqs[i] ELSE flat[i - 1] \o seqs[i]]
    <3> HIDE DEF h, N
    <3> QED BY <2>2
  <2> HIDE DEF flat
  <2> DEFINE S == {n \in 0..N : n # 0 => flat[n] = f[n]}
  <2>4. 0 \in S
    BY <1>1
  <2>5. ASSUME NEW n \in 1..N, n - 1 \in S
        PROVE  n \in S
    <3> HIDE DEF f, N
    <3>1. f[n] = f[n - 1] \o seqs[n] /\ seqs[n] \in Seq(T)
      BY <1>1, <1>2
    <3>2. CASE n = 1
      <4>1. flat[1] = seqs[1]
        BY <2>3, <3>2
      <4>2. f[1] = <<>> \o seqs[1] /\ seqs[1] \in Seq(T)
        <5>1. n - 1 = 0
          BY <3>2
        <5> QED BY <1>2, <3>1, <3>2, <5>1
      <4>3. flat[1] = f[1]
        BY <4>1, <4>2, ConcatEmptySeq
      <4> QED BY <1>1, <3>2, <4>3
    <3>3. CASE n # 1
      <4>1. flat[n] = flat[n - 1] \o seqs[n]
        BY <2>3, <3>3
      <4>2. flat[n - 1] = f[n - 1]
        BY <1>1, <2>5, <3>3
      <4>3. flat[n] = f[n]
        BY <3>1, <4>1, <4>2
      <4> QED BY <1>1, <4>3
    <3> QED BY <3>2, <3>3
  <2>6. N \in S
    <3> HIDE DEF S, N
    <3>1. \A n \in 0..N : n \in S
      BY <1>1, <2>4, <2>5, Climb
    <3> QED BY <1>1, <3>1
  <2> QED BY <1>4, <2>1, <2>6
<1> HIDE DEF f, N
<1> QED BY <1>3, <1>4 DEF f, N

LEMMA SameBeginning ==
    ASSUME NEW T, NEW s \in Seq(Seq(T)), NEW t \in Seq(Seq(T)), Len(s) <= Len(t),
           \A k \in 1..Len(s) : s[k] = t[k]
    PROVE  \A n \in 0..Len(s) : Concats(s)[n] = Concats(t)[n]
<1> DEFINE N == Len(s)
           S == {n \in 0..N : Concats(s)[n] = Concats(t)[n]}
<1>1. N \in Nat /\ Len(t) \in Nat
  OBVIOUS
<1>2. Concats(s)[0] = <<>> /\ Concats(t)[0] = <<>>
  BY ConcatsAre
<1>3. \A n \in 1..N : Concats(s)[n] = Concats(s)[n - 1] \o s[n]
  BY ConcatsAre
<1>4. \A n \in 1..N : Concats(t)[n] = Concats(t)[n - 1] \o t[n]
  <2>1. \A n \in 1..Len(t) : Concats(t)[n] = Concats(t)[n - 1] \o t[n]
    BY ConcatsAre
  <2>2. \A n \in 1..N : n \in 1..Len(t)
    BY <1>1
  <2> QED BY <2>1, <2>2
<1>5. 0 \in S
  BY <1>1, <1>2
<1>6. ASSUME NEW n \in 1..N, n - 1 \in S
      PROVE  n \in S
  <2>1. Concats(s)[n - 1] = Concats(t)[n - 1] /\ s[n] = t[n]
    BY <1>6
  <2>2. Concats(s)[n] = Concats(t)[n]
    BY <1>3, <1>4, <2>1
  <2> QED BY <1>1, <2>2
<1> HIDE DEF N, S
<1>7. \A n \in 0..N : n \in S
  BY <1>1, <1>5, <1>6, Climb
<1> QED BY <1>7 DEF N, S

(* Sums.                                                                   *)
Sums(numbers) == LET f[n \in 0..Len(numbers)] == IF n = 0 THEN 0 ELSE f[n - 1] + numbers[n] IN f

LEMMA SumsAre ==
    ASSUME NEW numbers \in Seq(Nat)
    PROVE  /\ Total(numbers) = Sums(numbers)[Len(numbers)]
           /\ Sums(numbers)[0] = 0
           /\ \A n \in 1..Len(numbers) : Sums(numbers)[n] = Sums(numbers)[n - 1] + numbers[n]
<1> DEFINE N == Len(numbers)
           f == Sums(numbers)
<1>1. N \in Nat
  OBVIOUS
<1>2. f = [n \in 0..N |-> IF n = 0 THEN 0 ELSE f[n - 1] + numbers[n]]
  <2>1. \E g : g = [n \in 0..N |-> IF n = 0 THEN 0 ELSE g[n - 1] + numbers[n]]
    BY <1>1, SumExists
  <2> QED BY <2>1 DEF Sums
<1>3. Total(numbers) = f[N]
  BY DEF Total, Sums
<1> HIDE DEF f, N
<1>4. f[0] = 0
  BY <1>1, <1>2
<1>5. ASSUME NEW n \in 1..N
      PROVE  f[n] = f[n - 1] + numbers[n]
  <2>1. n \in 0..N /\ n # 0
    BY <1>1
  <2> QED BY <1>2, <2>1
<1> QED BY <1>3, <1>4, <1>5 DEF f, N

LEMMA TotalIs ==
    ASSUME NEW numbers \in Seq(Nat)
    PROVE  Total(numbers) \in Nat /\ \A n \in 0..Len(numbers) : Sums(numbers)[n] \in Nat
<1> DEFINE N == Len(numbers)
           S == {n \in 0..N : Sums(numbers)[n] \in Nat}
<1>1. N \in Nat /\ \A n \in 1..N : numbers[n] \in Nat
  OBVIOUS
<1>2. /\ Total(numbers) = Sums(numbers)[N] /\ Sums(numbers)[0] = 0
      /\ \A n \in 1..N : Sums(numbers)[n] = Sums(numbers)[n - 1] + numbers[n]
  BY SumsAre
<1>3. 0 \in S
  BY <1>1, <1>2
<1>4. ASSUME NEW n \in 1..N, n - 1 \in S
      PROVE  n \in S
  <2>1. Sums(numbers)[n - 1] \in Nat /\ numbers[n] \in Nat
    BY <1>1, <1>4
  <2>2. Sums(numbers)[n] \in Nat
    BY <1>2, <2>1
  <2> QED BY <1>1, <2>2
<1>5. \A n \in 0..N : n \in S
  <2> HIDE DEF N, S
  <2> QED BY <1>1, <1>3, <1>4, Climb
<1> QED BY <1>1, <1>2, <1>5

-----------------------------------------------------------------------------
(* Beginnings of sequences, and intervals of bytes.                        *)

LEMMA PrefixOf ==
    ASSUME NEW T, NEW s \in Seq(T), NEW r \in Seq(T)
    PROVE  IsPrefix(s, s \o r)
<1>1. Len(s) \in Nat /\ Len(s) <= Len(s \o r)
  OBVIOUS
<1>2. SubSeq(s, 1, Len(s)) = s
  OBVIOUS
<1>3. SubSeq(s \o r, 1, Len(s)) = s
  OBVIOUS
<1> QED BY <1>1, <1>2, <1>3 DEF IsPrefix

LEMMA PrefixMeans ==
    ASSUME NEW T, NEW s \in Seq(T), NEW t \in Seq(T)
    PROVE  IsPrefix(s, t) <=> Len(s) <= Len(t) /\ \A i \in 1..Len(s) : s[i] = t[i]
<1>1. Len(s) \in Nat /\ Len(t) \in Nat /\ SubSeq(s, 1, Len(s)) = s
  OBVIOUS
<1>2. ASSUME Len(s) <= Len(t)
      PROVE  SubSeq(t, 1, Len(s)) = [i \in 1..Len(s) |-> t[i]]
  BY <1>1, <1>2
<1>3. s = [i \in 1..Len(s) |-> s[i]]
  OBVIOUS
<1> QED BY <1>1, <1>2, <1>3 DEF IsPrefix

LEMMA PrefixChain ==
    ASSUME NEW T, NEW s \in Seq(T), NEW t \in Seq(T), NEW u \in Seq(T), IsPrefix(s, t), IsPrefix(t, u)
    PROVE  IsPrefix(s, u)
BY PrefixMeans

LEMMA PrefixSelf ==
    ASSUME NEW T, NEW s \in Seq(T)
    PROVE  IsPrefix(s, s) /\ IsPrefix(<<>>, s)
<1>1. <<>> \in Seq(T) /\ Len(<<>>) = 0 /\ Len(s) \in Nat
  BY EmptySeq
<1>2. IsPrefix(s, s)
  BY PrefixMeans
<1>3. IsPrefix(<<>>, s)
  <2>1. SubSeq(<<>>, 1, 0) = <<>> /\ SubSeq(s, 1, 0) = <<>>
    BY SubSeqEmpty
  <2> QED BY <1>1, <2>1 DEF IsPrefix
<1> QED BY <1>2, <1>3

LEMMA ConcatsGrow ==
    ASSUME NEW T, NEW seqs \in Seq(Seq(T)), NEW m \in 0..Len(seqs)
    PROVE  IsPrefix(Concats(seqs)[m], Concats(seqs)[Len(seqs)])
<1> DEFINE N == Len(seqs)
           f == Concats(seqs)
           S == {n \in 0..N : m <= n => IsPrefix(f[m], f[n])}
<1>1. N \in Nat /\ (\A n \in 1..N : seqs[n] \in Seq(T)) /\ m \in 0..N
  OBVIOUS
<1>2. /\ f \in [0..N -> Seq(T)]
      /\ \A n \in 1..N : f[n] = f[n - 1] \o seqs[n]
  BY ConcatsAre
<1> HIDE DEF f, N
<1>3. \A n \in 0..N : f[n] \in Seq(T)
  BY <1>2
<1>4. m \in S
  BY <1>1, <1>3, PrefixSelf
<1>5. 0 \in S
  <2>1. m <= 0 => m = 0
    BY <1>1
  <2> QED BY <1>1, <1>4, <2>1
<1>6. ASSUME NEW n \in 1..N, n - 1 \in S
      PROVE  n \in S
  <2>1. CASE m <= n - 1
    <3>1. IsPrefix(f[m], f[n - 1]) /\ n - 1 \in 0..N /\ n \in 0..N
      BY <1>1, <1>6, <2>1
    <3>2. IsPrefix(f[n - 1], f[n])
      BY <1>1, <1>2, <1>3, <3>1, PrefixOf
    <3>3. f[m] \in Seq(T) /\ f[n - 1] \in Seq(T) /\ f[n] \in Seq(T)
      BY <1>1, <1>3, <3>1
    <3>4. IsPrefix(f[m], f[n])
      BY <3>1, <3>2, <3>3, PrefixChain
    <3> QED BY <3>1, <3>4
  <2>2. CASE m = n
    BY <1>4, <2>2
  <2>3. CASE m > n
    BY <1>1, <2>3
  <2> QED BY <1>1, <2>1, <2>2, <2>3
<1> HIDE DEF S
<1>7. N \in S
  <2>1. \A n \in 0..N : n \in S
    BY <1>1, <1>5, <1>6, Climb
  <2> QED BY <1>1, <2>1
<1> QED BY <1>1, <1>7 DEF S, f, N

LEMMA IntervalIs ==
    ASSUME NEW from \in Int, NEW to \in Int, from <= to + 1
    PROVE  Interval(from, to) \in Seq(Int) /\ Len(Interval(from, to)) = to - from + 1
<1>1. to - from + 1 \in Nat
  OBVIOUS
<1>2. Interval(from, to) \in [1..(to - from + 1) -> Int]
  BY DEF Interval
<1> QED BY <1>1, <1>2

LEMMA IntervalEmpty ==
    ASSUME NEW from \in Int
    PROVE  Interval(from, from - 1) = <<>>
<1>1. Interval(from, from - 1) \in Seq(Int) /\ Len(Interval(from, from - 1)) = 0
  BY IntervalIs
<1> QED BY <1>1

LEMMA IntervalJoin ==
    ASSUME NEW from \in Int, NEW middle \in Int, NEW to \in Int, from <= middle + 1, middle <= to
    PROVE  Interval(from, middle) \o Interval(middle + 1, to) = Interval(from, to)
<1> DEFINE s == Interval(from, middle)
           t == Interval(middle + 1, to)
           u == Interval(from, to)
<1>1. s \in Seq(Int) /\ Len(s) = middle - from + 1
  BY IntervalIs
<1>2. t \in Seq(Int) /\ Len(t) = to - middle
  <2>1. PICK next \in Int : next = middle + 1
    OBVIOUS
  <2> HIDE DEF s, t, u
  <2>2. next <= to + 1
    BY <2>1
  <2>3. Interval(next, to) \in Seq(Int) /\ Len(Interval(next, to)) = to - next + 1
    BY <2>2, IntervalIs
  <2> QED BY <2>1, <2>3 DEF t
<1>3. u \in Seq(Int) /\ Len(u) = to - from + 1
  BY IntervalIs
<1>4. /\ \A i \in 1..Len(s) : s[i] = from + i - 1
      /\ \A i \in 1..Len(t) : t[i] = middle + i
      /\ \A i \in 1..Len(u) : u[i] = from + i - 1
  BY <1>1, <1>2, <1>3 DEF Interval
<1> HIDE DEF s, t, u
<1>5. s \o t \in Seq(Int) /\ Len(s \o t) = Len(u)
  BY <1>1, <1>2, <1>3
<1>6. ASSUME NEW i \in 1..Len(u)
      PROVE  (s \o t)[i] = u[i]
  <2>1. i \in 1..Len(s) + Len(t)
    BY <1>1, <1>2, <1>3
  <2>2. (s \o t)[i] = IF i <= Len(s) THEN s[i] ELSE t[i - Len(s)]
    BY <1>1, <1>2, <2>1, ConcatProperties
  <2>3. CASE i <= Len(s)
    BY <1>1, <1>4, <2>2, <2>3
  <2>4. CASE i > Len(s)
    <3>1. i - Len(s) \in 1..Len(t)
      BY <1>1, <1>2, <2>1, <2>4
    <3>2. t[i - Len(s)] = middle + (i - Len(s))
      BY <1>4, <3>1
    <3>3. middle + (i - Len(s)) = from + i - 1
      BY <1>1, <2>1
    <3> QED BY <1>1, <1>4, <2>2, <2>4, <3>2, <3>3
  <2>5. i <= Len(s) \/ i > Len(s)
    BY <1>1, <2>1
  <2> QED BY <2>3, <2>4, <2>5
<1>7. s \o t = u
  BY <1>3, <1>5, <1>6, SeqEqual
<1> QED BY <1>7 DEF s, t, u

(* A number that a ulong can hold is not changed.                          *)
LEMMA UlongIs ==
    /\ \A n \in Int : Ulong(n) \in 0..UlongSize - 1
    /\ \A n \in 0..UlongSize - 1 : Ulong(n) = n
<1>1. UlongSize \in Nat /\ UlongSize > 0
  <2>1. UlongSize \in Nat \ {0}
    BY TransferAssumption, Zenon
  <2> QED BY <2>1
<1>2. ASSUME NEW n \in Int
      PROVE  n % UlongSize \in 0..UlongSize - 1
  BY <1>1
<1>3. ASSUME NEW n \in 0..UlongSize - 1
      PROVE  n % UlongSize = n
  BY <1>1
<1> QED BY <1>2, <1>3 DEF Ulong

-----------------------------------------------------------------------------
(* The types, for all requests.                                            *)

Pairs == (Nat \cup {None}) \X (Nat \cup {None})
Sizes == 0..UlongSize - 1
AnyRanges == [position : Nat, length : Sizes, last : Int]

Found(q) == GetRanges(q.range, q.size)

TypeInv ==
    /\ TypeOK
    /\ request \in Requests /\ ranges \in Seq(AnyRanges)
    /\ pc \in {"begin", "partial"} => status = None /\ sent = <<>>
    /\ pc \in {"ranges", "range"} => status = 206 /\ request.method = "get"
    /\ pc = "copy" => status = 200 /\ request.method = "get"

LEMMA RequestIs ==
    ASSUME NEW q \in Requests
    PROVE  /\ q.size \in Sizes /\ q.range \in Seq(Pairs) /\ q.mayFail \in BOOLEAN
           /\ q.method \in {"get", "head"} /\ q.file \in {"ok", "missing", "sizeless", "locked"}
BY TransferAssumption, Zenon DEF Pairs, Sizes

LEMMA SizesAre == UlongSize \in Nat /\ UlongSize > 0 /\ Chunk \in Nat /\ Chunk > 0 /\ Sizes \subseteq Nat
<1>1. UlongSize \in Nat \ {0} /\ Chunk \in Nat \ {0}
  BY TransferAssumption, Zenon
<1> QED BY <1>1 DEF Sizes

LEMMA RangeOfType ==
    ASSUME NEW r \in Pairs, NEW size \in Sizes
    PROVE  RangeOf(r, size) \in Seq(AnyRanges) /\ Len(RangeOf(r, size)) \in {0, 1}
<1>1. size \in Nat /\ size < UlongSize /\ UlongSize \in Nat
  BY SizesAre DEF Sizes
<1>2. r[1] \in Nat \cup {None} /\ r[2] \in Nat \cup {None}
  BY DEF Pairs
<1>3. ASSUME NEW x \in AnyRanges
      PROVE  <<x>> \in Seq(AnyRanges) /\ Len(<<x>>) = 1
  OBVIOUS
<1>4. CASE Bounded(r, size)
  <2>1. r[1] \in Nat /\ r[2] \in Nat
    BY <1>2, <1>4 DEF Bounded, None
  <2>2. Least(r[2], size) \in Nat
    BY <1>1, <2>1 DEF Least
  <2>3. Ulong(Least(r[2], size) - r[1] + 1) \in Sizes
    BY <2>1, <2>2, UlongIs DEF Sizes
  <2>4. BoundedRange(r, size) \in AnyRanges
    BY <2>1, <2>2, <2>3 DEF BoundedRange, AnyRanges
  <2>5. RangeOf(r, size) = <<BoundedRange(r, size)>>
    BY <1>4 DEF RangeOf, Bounded, ToTheEnd, Suffix
  <2> QED BY <1>3, <2>4, <2>5
<1>5. CASE ~Bounded(r, size) /\ ToTheEnd(r, size)
  <2>1. r[1] \in Nat /\ r[1] < size
    BY <1>2, <1>5 DEF ToTheEnd, None
  <2>2. [position |-> r[1], length |-> size - r[1], last |-> size - 1] \in AnyRanges
    BY <1>1, <2>1 DEF AnyRanges, Sizes
  <2>3. RangeOf(r, size) = <<[position |-> r[1], length |-> size - r[1], last |-> size - 1]>>
    BY <1>5 DEF RangeOf, Bounded, ToTheEnd, Suffix
  <2> QED BY <1>3, <2>2, <2>3
<1>6. CASE ~Bounded(r, size) /\ ~ToTheEnd(r, size) /\ Suffix(r)
  <2>1. r[2] \in Nat
    BY <1>2, <1>6 DEF Suffix, None
  <2> DEFINE length == IF r[2] < size THEN size - r[2] ELSE size
  <2>2. length \in Sizes /\ size - length \in Nat /\ length \in Int
    BY <1>1, <2>1 DEF Sizes
  <2>3. Ulong(length - 1) \in Int
    <3> HIDE DEF length
    <3>1. Ulong(length - 1) \in 0..UlongSize - 1
      BY <2>2, UlongIs
    <3> QED BY <3>1
  <2>4. SuffixRange(r, size) = [position |-> size - length, length |-> length, last |-> Ulong(length - 1)]
    BY DEF SuffixRange
  <2> HIDE DEF length
  <2>5. SuffixRange(r, size) \in AnyRanges
    BY <2>2, <2>3, <2>4 DEF AnyRanges
  <2>6. RangeOf(r, size) = <<SuffixRange(r, size)>>
    BY <1>6 DEF RangeOf, Bounded, ToTheEnd, Suffix
  <2> QED BY <1>3, <2>5, <2>6
<1>7. CASE ~Bounded(r, size) /\ ~ToTheEnd(r, size) /\ ~Suffix(r)
  <2>1. RangeOf(r, size) = <<>>
    BY <1>7 DEF RangeOf
  <2>2. <<>> \in Seq(AnyRanges) /\ Len(<<>>) = 0
    BY EmptySeq
  <2> QED BY <2>1, <2>2
<1> QED BY <1>4, <1>5, <1>6, <1>7

LEMMA FoundType ==
    ASSUME NEW q \in Requests
    PROVE  /\ [i \in DOMAIN q.range |-> RangeOf(q.range[i], q.size)] \in Seq(Seq(AnyRanges))
           /\ Found(q) \in Seq(AnyRanges)
<1> DEFINE seqs == [i \in DOMAIN q.range |-> RangeOf(q.range[i], q.size)]
           N == Len(q.range)
<1>1. q.range \in Seq(Pairs) /\ q.size \in Sizes
  BY RequestIs
<1>2. N \in Nat /\ DOMAIN q.range = 1..N /\ \A i \in 1..N : q.range[i] \in Pairs
  BY <1>1
<1>3. \A i \in 1..N : RangeOf(q.range[i], q.size) \in Seq(AnyRanges)
  BY <1>1, <1>2, RangeOfType
<1>4. seqs \in [1..N -> Seq(AnyRanges)]
  <2> HIDE DEF N
  <2> QED BY <1>2, <1>3
<1>5. seqs \in Seq(Seq(AnyRanges)) /\ Len(seqs) = N
  <2> HIDE DEF seqs, N
  <2> QED BY <1>2, <1>4
<1> HIDE DEF seqs, N
<1>6. FlattenSeq(seqs) \in Seq(AnyRanges)
  <2>1. Concats(seqs) \in [0..Len(seqs) -> Seq(AnyRanges)]
    BY <1>5, ConcatsAre
  <2>2. FlattenSeq(seqs) = Concats(seqs)[Len(seqs)]
    BY <1>5, Flattened
  <2> QED BY <1>2, <1>5, <2>1, <2>2
<1> QED BY <1>5, <1>6 DEF seqs, Found, GetRanges

LEMMA LengthType ==
    ASSUME NEW found \in Seq(AnyRanges)
    PROVE  /\ [k \in DOMAIN found |-> found[k].length] \in Seq(Nat)
           /\ LengthOf(found) \in Sizes
<1> DEFINE N == Len(found)
           lengths == [k \in DOMAIN found |-> found[k].length]
<1>1. N \in Nat /\ DOMAIN found = 1..N /\ \A k \in 1..N : found[k] \in AnyRanges
  OBVIOUS
<1>2. \A k \in 1..N : found[k].length \in Nat
  BY <1>1, SizesAre DEF AnyRanges
<1>3. lengths \in [1..N -> Nat]
  <2> HIDE DEF N
  <2> QED BY <1>1, <1>2
<1>4. lengths \in Seq(Nat)
  <2> HIDE DEF lengths, N
  <2> QED BY <1>1, <1>3
<1>5. LengthOf(found) \in Sizes
  <2> HIDE DEF lengths, N
  <2>1. Total(lengths) \in Nat
    BY <1>4, TotalIs
  <2>2. Ulong(Total(lengths)) \in Sizes
    BY <2>1, UlongIs DEF Sizes
  <2> QED BY <2>2 DEF LengthOf, lengths
<1> QED BY <1>4, <1>5

LEMMA TypesInit == Init => TypeInv
<1> SUFFICES ASSUME Init PROVE TypeInv
  OBVIOUS
<1>1. fileSize \in Nat
  BY RequestIs, SizesAre DEF Init, fileSize
<1>2. <<>> \in Seq(AnyRanges)
  BY EmptySeq
<1>3. TypeOK
  <2>1. pc = "begin" /\ status = None /\ failed \in BOOLEAN
    BY Zenon DEF Init
  <2>2. contentLength \in 0..UlongSize - 1 /\ sendSizeLeft \in 0..UlongSize - 1 /\ capacity \in 0..Chunk /\ pos \in 0..fileSize
    BY <1>1, SizesAre DEF Init
  <2> QED BY <2>1, <2>2, Zenon DEF TypeOK
<1> QED BY <1>2, <1>3 DEF Init, TypeInv

LEMMA ReadTypes ==
    ASSUME TypeInv, NEW room \in Nat, NEW again, NEW then, ReadAndSend(room, again, then), UNCHANGED request
    PROVE  /\ pos' \in 0..fileSize' /\ sendSizeLeft' \in 0..UlongSize - 1 /\ failed' \in BOOLEAN
           /\ pc' \in {again, then}
<1>1. pos \in 0..fileSize /\ fileSize \in Nat /\ fileSize' = fileSize /\ sendSizeLeft \in 0..UlongSize - 1
      /\ failed \in BOOLEAN
  BY RequestIs, SizesAre DEF TypeInv, TypeOK, fileSize
<1> DEFINE n == Least(room, fileSize - pos)
<1>2. n \in Nat /\ pos + n \in 0..fileSize
  BY <1>1 DEF Least
<1>3. Ulong(sendSizeLeft - n) \in 0..UlongSize - 1
      /\ \A result \in {0, -1} : Ulong(sendSizeLeft - result) \in 0..UlongSize - 1
  BY <1>1, <1>2, UlongIs
<1> QED BY <1>1, <1>2, <1>3 DEF ReadAndSend

LEMMA Refused ==
    ASSUME TypeInv, NEW code \in {400, 404, 406, 304, 416, 500}, Refuse(code), UNCHANGED <<request, sent>>
    PROVE  TypeInv' /\ pc' = "done" /\ UNCHANGED <<contentLength, contentRange>> /\ status' \in {code, status}
<1>1. /\ pc' = "done" /\ status' \in {code, status} /\ failed' \in {failed, TRUE}
      /\ UNCHANGED <<contentLength, contentRange, ranges, transfer>>
  BY DEF Refuse, SendHeaders
<1>2. failed' \in BOOLEAN
  BY <1>1, Zenon DEF TypeInv, TypeOK
<1>3. /\ contentLength' \in 0..UlongSize - 1 /\ sendSizeLeft' \in 0..UlongSize - 1
      /\ capacity' \in 0..Chunk /\ pos' \in 0..fileSize'
  BY <1>1, Zenon DEF TypeInv, TypeOK, transfer, fileSize
<1>4. status' \in {None, 200, 206, 304, 400, 404, 406, 416, 500}
  BY <1>1 DEF TypeInv, TypeOK
<1>5. TypeOK'
  BY <1>1, <1>2, <1>3, <1>4, Zenon DEF TypeOK
<1>6. request' \in Requests /\ ranges' \in Seq(AnyRanges)
  BY <1>1, Zenon DEF TypeInv
<1> QED BY <1>1, <1>5, <1>6 DEF TypeInv

LEMMA TypesStep == TypeInv /\ [Next]_vars => TypeInv'
<1> SUFFICES ASSUME TypeInv, [Next]_vars PROVE TypeInv'
  OBVIOUS
<1>0. /\ fileSize \in Sizes /\ fileSize \in Nat /\ request.method \in {"get", "head"} /\ request.mayFail \in BOOLEAN
      /\ Chunk \in Nat /\ Chunk > 0 /\ UlongSize \in Nat /\ UlongSize > 0 /\ 0 \in Sizes
  BY RequestIs, SizesAre DEF TypeInv, fileSize, Sizes
<1>1. CASE SendfileHeaders
  <2>0. pc = "begin" /\ status = None /\ sent = <<>> /\ UNCHANGED <<request, sent>>
    BY <1>1 DEF SendfileHeaders, TypeInv
  <2>1. ASSUME NEW code \in {404, 406, 304, 500}, Refuse(code)
        PROVE  TypeInv'
    BY <2>0, <2>1, Refused DEF fileSize
  <2>2. CASE pc' \in {"done", "partial"} /\ UNCHANGED <<headers, ranges, transfer, failed>>
    BY <2>0, <2>2 DEF TypeInv, TypeOK, headers, transfer, fileSize
  <2>3. CASE /\ SendHeaders(200, IF fileSize = 0 THEN "done" ELSE BodyFollows("copy"))
             /\ contentLength' = fileSize
             /\ capacity' = Least(fileSize, Chunk) /\ pos' = 0 /\ sendSizeLeft' = fileSize
             /\ UNCHANGED <<contentRange, ranges>>
    <3>1. /\ pc' \in {"done", "copy"} /\ status' \in {None, 200} /\ failed' \in BOOLEAN
          /\ pc' = "copy" => status' = 200 /\ request.method = "get"
      <4>1. pc' \in {IF fileSize = 0 THEN "done" ELSE BodyFollows("copy"), "done"} /\ status' \in {status, 200}
            /\ failed' \in {failed, TRUE} /\ (pc' = "copy" => status' = 200)
        BY <2>0, <2>3 DEF SendHeaders
      <4>2. failed' \in BOOLEAN
        BY <4>1, Zenon DEF TypeInv, TypeOK
      <4> QED BY <1>0, <2>0, <4>1, <4>2 DEF BodyFollows
    <3>2. capacity' \in 0..Chunk /\ pos' \in 0..fileSize /\ sendSizeLeft' \in Sizes /\ contentLength' \in Sizes
      BY <1>0, <2>3 DEF Least
    <3> QED BY <2>0, <2>3, <3>1, <3>2 DEF TypeInv, TypeOK, Sizes, fileSize
  <2> QED BY <1>1, <2>1, <2>2, <2>3 DEF SendfileHeaders
<1>2. CASE SendPartialHeaders
  <2>0. pc = "partial" /\ status = None /\ sent = <<>> /\ UNCHANGED <<request, sent>>
    BY <1>2 DEF SendPartialHeaders, TypeInv
  <2>1. ASSUME NEW code \in {400, 416, 500}, Refuse(code)
        PROVE  TypeInv'
    BY <2>0, <2>1, Refused DEF fileSize
  <2>2. ASSUME NEW found \in {<<>>, Found(request)},
               SendHeaders(206, BodyFollows("ranges")), contentLength' = LengthOf(found), ranges' = found,
               UNCHANGED transfer
        PROVE  TypeInv'
    <3>1. /\ pc' \in {"done", "ranges"} /\ status' \in {None, 206} /\ failed' \in BOOLEAN
          /\ pc' = "ranges" => status' = 206 /\ request.method = "get"
      <4>1. pc' \in {BodyFollows("ranges"), "done"} /\ status' \in {status, 206}
            /\ failed' \in {failed, TRUE} /\ (pc' = "ranges" => status' = 206)
        BY <2>0, <2>2 DEF SendHeaders
      <4>2. failed' \in BOOLEAN
        BY <4>1, Zenon DEF TypeInv, TypeOK
      <4> QED BY <1>0, <2>0, <4>1, <4>2 DEF BodyFollows
    <3>2. found \in Seq(AnyRanges)
      BY FoundType, EmptySeq DEF TypeInv
    <3>3. LengthOf(found) \in Sizes
      BY <3>2, LengthType
    <3> QED BY <2>0, <2>2, <3>1, <3>2, <3>3 DEF TypeInv, TypeOK, transfer, Sizes, fileSize
  <2>3. PICK found \in {<<>>, Found(request)} :
            \/ Refuse(400) \/ Refuse(416) \/ Refuse(500)
            \/ /\ SendHeaders(206, BodyFollows("ranges"))
               /\ contentLength' = LengthOf(found) /\ ranges' = found /\ UNCHANGED transfer
    BY <1>2, Zenon DEF SendPartialHeaders, Found, fileSize
  <2> QED BY <2>1, <2>2, <2>3
<1>3. CASE BeginRange
  <2>1. CASE ranges = <<>>
    BY <1>3, <2>1 DEF BeginRange, TypeInv, TypeOK, transfer, headers, fileSize
  <2>2. CASE ranges # <<>>
    <3>1. Head(ranges) \in AnyRanges /\ Tail(ranges) \in Seq(AnyRanges)
      BY <2>2, HeadTailProperties DEF TypeInv
    <3>2. Head(ranges).length \in Sizes /\ Head(ranges).length \in Nat /\ Head(ranges).position \in Nat
      BY <3>1, SizesAre DEF AnyRanges
    <3>3. capacity' \in 0..Chunk /\ pos' \in 0..fileSize
      BY <1>0, <1>3, <2>2, <3>2 DEF BeginRange, Reserve, RoomFor, Least, TypeInv, TypeOK
    <3>4. /\ pc' = "range" /\ status = 206 /\ request.method = "get" /\ UNCHANGED <<request, headers, sent, failed>>
          /\ sendSizeLeft' \in Sizes /\ ranges' \in Seq(AnyRanges)
      BY <1>3, <2>2, <3>1, <3>2 DEF BeginRange, TypeInv
    <3> QED BY <3>3, <3>4 DEF TypeInv, TypeOK, headers, fileSize, Sizes
  <2> QED BY <2>1, <2>2
<1>4. CASE SendRange
  <2>1. capacity' \in 0..Chunk
    BY <1>0, <1>4 DEF SendRange, Reserve, TypeInv, TypeOK
  <2>2. /\ pos' \in 0..fileSize' /\ sendSizeLeft' \in 0..UlongSize - 1 /\ failed' \in BOOLEAN
        /\ pc' \in {"range", "ranges"}
    <3>1. capacity' \in Nat
      BY <1>0, <2>1
    <3> QED BY <1>4, <3>1, ReadTypes DEF SendRange
  <2> QED BY <1>4, <2>1, <2>2 DEF SendRange, TypeInv, TypeOK, headers
<1>5. CASE Copy
  <2>1. /\ pos' \in 0..fileSize' /\ sendSizeLeft' \in 0..UlongSize - 1 /\ failed' \in BOOLEAN
        /\ pc' \in {"copy", "done"}
    <3>1. capacity \in Nat
      BY <1>0 DEF TypeInv, TypeOK
    <3> QED BY <1>5, <3>1, ReadTypes DEF Copy
  <2> QED BY <1>5, <2>1 DEF Copy, TypeInv, TypeOK, headers
<1>6. CASE UNCHANGED vars
  BY <1>6 DEF vars, headers, transfer, TypeInv, TypeOK, fileSize
<1> QED BY <1>1, <1>2, <1>3, <1>4, <1>5, <1>6 DEF Next

LEMMA BodyStep == TypeInv /\ BodyOnlyForGet /\ [Next]_vars => BodyOnlyForGet'
<1> SUFFICES ASSUME TypeInv, BodyOnlyForGet, [Next]_vars PROVE BodyOnlyForGet'
  OBVIOUS
<1>1. CASE SendfileHeaders \/ SendPartialHeaders
  BY <1>1 DEF SendfileHeaders, SendPartialHeaders, TypeInv, BodyOnlyForGet
<1>2. CASE BeginRange \/ UNCHANGED vars
  BY <1>2 DEF BeginRange, vars, headers, BodyOnlyForGet
<1>3. CASE SendRange \/ Copy
  BY <1>3 DEF SendRange, Copy, headers, TypeInv, BodyOnlyForGet
<1> QED BY <1>1, <1>2, <1>3 DEF Next

(* Every variable keeps its type, the room of the buffer is never beyond a *)
(* chunk, and a body follows only the headers of a transfer that was asked *)
(* for by GET: for all requests.                                           *)
THEOREM BodiesOnlyForGet == Spec => [](TypeOK /\ BodyOnlyForGet)
<1>1. Init => TypeInv /\ BodyOnlyForGet
  BY TypesInit DEF Init, BodyOnlyForGet
<1>2. TypeInv => TypeOK
  BY DEF TypeInv
<1> QED BY <1>1, <1>2, TypesStep, BodyStep, PTL DEF Spec

-----------------------------------------------------------------------------
(* Which requests the program can satisfy.                                 *)

Lengths(found) == [k \in DOMAIN found |-> found[k].length]

(* Ranges that end with a byte of the file, suffixes that take all of it,  *)
(* and no more bytes together than a ulong can count.                      *)
InFile(r, size) == (Bounded(r, size) => r[2] < size) /\ (Suffix(r) => r[2] >= size)

Announceable(q) ==
    /\ \A i \in DOMAIN q.range : InFile(q.range[i], q.size)
    /\ Total(Lengths(Found(q))) < UlongSize

(* Ranges whose last piece is not read with too much room: those that go   *)
(* to the end of the file, those of whole chunks, and those of less than a *)
(* chunk before which no longer one is sent.                               *)
WholeChunks(length) == \E m \in Nat : length = m * Chunk

FitsTheBuffer(q) ==
    \A k \in DOMAIN Found(q) :
        \/ Found(q)[k].position + Found(q)[k].length = q.size
        \/ WholeChunks(Found(q)[k].length)
        \/ Found(q)[k].length < Chunk /\ \A j \in 1..k : Found(q)[j].length <= Found(q)[k].length

(* No range comes behind one that could not be sent.                       *)
NothingBehind(q) == q.mayFail => Len(Found(q)) <= 1

Transferable(q) == Announceable(q) /\ FitsTheBuffer(q) /\ NothingBehind(q)

-----------------------------------------------------------------------------
(* The ranges of such a request.                                           *)

Bytes(x) == Interval(x.position, x.position + x.length - 1)
AllBytes(found) == [k \in DOMAIN found |-> Bytes(found[k])]

GoodRanges(size) ==
    {x \in AnyRanges :
        x.position + x.length <= size /\ (size > 0 => x.length > 0 /\ x.last = x.position + x.length - 1)}

LEMMA GoodRange ==
    ASSUME NEW r \in Pairs, NEW size \in Sizes, InFile(r, size)
    PROVE  \/ RangeOf(r, size) = <<>> /\ Asked(r, size) = <<>>
           \/ \E x \in GoodRanges(size) : RangeOf(r, size) = <<x>> /\ Asked(r, size) = Bytes(x)
<1>1. size \in Nat /\ size < UlongSize /\ UlongSize \in Nat
  BY SizesAre DEF Sizes
<1>2. r[1] \in Nat \cup {None} /\ r[2] \in Nat \cup {None}
  BY DEF Pairs
<1>3. \A n \in Nat : n <= size => Ulong(n) = n
  <2>1. \A n \in Nat : n <= size => n \in 0..UlongSize - 1
    BY <1>1
  <2> QED BY <2>1, UlongIs
<1>4. CASE Bounded(r, size)
  <2>1. r[1] \in Nat /\ r[2] \in Nat /\ r[1] < size /\ r[1] <= r[2] /\ r[2] < size
    BY <1>1, <1>2, <1>4 DEF Bounded, None, InFile
  <2> DEFINE n == r[2] - r[1] + 1
             x == [position |-> r[1], length |-> n, last |-> r[2]]
  <2>2. Least(r[2], size) = r[2] /\ Least(r[2], size - 1) = r[2] /\ n \in Nat /\ n <= size /\ n > 0
    BY <1>1, <2>1 DEF Least
  <2>3. Ulong(n) = n /\ n \in Sizes
    <3> HIDE DEF n
    <3> QED BY <1>1, <1>3, <2>2 DEF Sizes
  <2>4. RangeOf(r, size) = <<x>>
    <3>1. RangeOf(r, size) = <<BoundedRange(r, size)>>
      BY <1>4 DEF RangeOf, Bounded, ToTheEnd, Suffix
    <3> QED BY <2>2, <2>3, <3>1 DEF BoundedRange
  <2>5. Asked(r, size) = Interval(r[1], r[2])
    BY <1>4, <2>2 DEF Asked, Bounded, ToTheEnd, Suffix
  <2>6. x.position = r[1] /\ x.length = n /\ x.last = r[2]
    OBVIOUS
  <2>7. x \in GoodRanges(size)
    <3>1. x \in AnyRanges
      BY <2>1, <2>3 DEF AnyRanges
    <3>2. x.position + x.length <= size /\ x.length > 0 /\ x.last = x.position + x.length - 1
      BY <1>1, <2>1, <2>6
    <3> HIDE DEF x
    <3> QED BY <3>1, <3>2 DEF GoodRanges
  <2>8. Bytes(x) = Interval(r[1], r[2])
    <3>1. x.position + x.length - 1 = r[2]
      BY <2>1, <2>6
    <3> HIDE DEF x
    <3> QED BY <2>6, <3>1 DEF Bytes
  <2> HIDE DEF x
  <2> QED BY <2>4, <2>5, <2>7, <2>8
<1>5. CASE ~Bounded(r, size) /\ ToTheEnd(r, size)
  <2>1. r[1] \in Nat /\ r[1] < size
    BY <1>2, <1>5 DEF ToTheEnd, None
  <2> DEFINE x == [position |-> r[1], length |-> size - r[1], last |-> size - 1]
  <2>2. RangeOf(r, size) = <<x>>
    BY <1>5 DEF RangeOf, Bounded, ToTheEnd, Suffix
  <2>3. Asked(r, size) = Interval(r[1], size - 1)
    BY <1>5 DEF Asked, Bounded, ToTheEnd, Suffix
  <2>4. x.position = r[1] /\ x.length = size - r[1] /\ x.last = size - 1
    OBVIOUS
  <2>5. x \in GoodRanges(size)
    <3>1. x \in AnyRanges
      BY <1>1, <2>1 DEF AnyRanges, Sizes
    <3>2. x.position + x.length <= size /\ x.length > 0 /\ x.last = x.position + x.length - 1
      BY <1>1, <2>1, <2>4
    <3> HIDE DEF x
    <3> QED BY <3>1, <3>2 DEF GoodRanges
  <2>6. Bytes(x) = Interval(r[1], size - 1)
    <3>1. x.position + x.length - 1 = size - 1
      BY <1>1, <2>1, <2>4
    <3> HIDE DEF x
    <3> QED BY <2>4, <3>1 DEF Bytes
  <2> HIDE DEF x
  <2> QED BY <2>2, <2>3, <2>5, <2>6
<1>6. CASE ~Bounded(r, size) /\ ~ToTheEnd(r, size) /\ Suffix(r)
  <2>1. r[2] \in Nat /\ r[2] >= size
    BY <1>2, <1>6 DEF Suffix, None, InFile
  <2> DEFINE x == [position |-> 0, length |-> size, last |-> Ulong(size - 1)]
  <2>2. ~(r[2] < size) /\ Least(r[2], size) = size /\ size - size = 0
    BY <1>1, <2>1 DEF Least
  <2>3. RangeOf(r, size) = <<x>>
    <3>1. RangeOf(r, size) = <<SuffixRange(r, size)>>
      BY <1>6 DEF RangeOf, Bounded, ToTheEnd, Suffix
    <3> QED BY <2>2, <3>1 DEF SuffixRange
  <2>4. Asked(r, size) = Interval(0, size - 1)
    BY <1>6, <2>2 DEF Asked, Bounded, ToTheEnd, Suffix
  <2>5. x.position = 0 /\ x.length = size /\ x.last = Ulong(size - 1)
    OBVIOUS
  <2>6. x \in GoodRanges(size)
    <3>1. Ulong(size - 1) \in Int
      <4>1. Ulong(size - 1) \in 0..UlongSize - 1
        BY <1>1, UlongIs
      <4> QED BY <4>1
    <3>2. x \in AnyRanges
      BY <1>1, <3>1 DEF AnyRanges
    <3>3. size > 0 => Ulong(size - 1) = size - 1
      BY <1>1, <1>3
    <3>4. x.position + x.length <= size /\ (size > 0 => x.length > 0 /\ x.last = x.position + x.length - 1)
      BY <1>1, <2>5, <3>3
    <3> HIDE DEF x
    <3> QED BY <3>2, <3>4 DEF GoodRanges
  <2>7. Bytes(x) = Interval(0, size - 1)
    <3>1. x.position + x.length - 1 = size - 1
      BY <1>1, <2>5
    <3> HIDE DEF x
    <3> QED BY <2>5, <3>1 DEF Bytes
  <2> HIDE DEF x
  <2> QED BY <2>3, <2>4, <2>6, <2>7
<1>7. CASE ~Bounded(r, size) /\ ~ToTheEnd(r, size) /\ ~Suffix(r)
  BY <1>7 DEF RangeOf, Asked
<1> QED BY <1>4, <1>5, <1>6, <1>7

LEMMA BytesType ==
    ASSUME NEW found \in Seq(AnyRanges)
    PROVE  /\ AllBytes(found) \in Seq(Seq(Int)) /\ Len(AllBytes(found)) = Len(found)
           /\ \A k \in 1..Len(found) :
                 /\ AllBytes(found)[k] = Bytes(found[k])
                 /\ Bytes(found[k]) \in Seq(Int) /\ Len(Bytes(found[k])) = found[k].length
<1> DEFINE N == Len(found)
<1>1. N \in Nat /\ DOMAIN found = 1..N /\ \A k \in 1..N : found[k] \in AnyRanges
  OBVIOUS
<1>2. ASSUME NEW k \in 1..N
      PROVE  Bytes(found[k]) \in Seq(Int) /\ Len(Bytes(found[k])) = found[k].length
  <2>1. PICK x : x = found[k] /\ x.position \in Nat /\ x.length \in Nat
    BY <1>1, SizesAre DEF AnyRanges
  <2>2. PICK to \in Int : to = x.position + x.length - 1
    BY <2>1
  <2>3. x.position <= to + 1 /\ to - x.position + 1 = x.length /\ x.position \in Int
    BY <2>1, <2>2
  <2>4. Interval(x.position, to) \in Seq(Int) /\ Len(Interval(x.position, to)) = to - x.position + 1
    BY <2>3, IntervalIs
  <2> QED BY <2>1, <2>2, <2>3, <2>4 DEF Bytes
<1>3. AllBytes(found) \in [1..N -> Seq(Int)] /\ \A k \in 1..N : AllBytes(found)[k] = Bytes(found[k])
  <2> HIDE DEF N
  <2> QED BY <1>1, <1>2 DEF AllBytes
<1>4. AllBytes(found) \in Seq(Seq(Int)) /\ Len(AllBytes(found)) = N
  <2> HIDE DEF N
  <2> QED BY <1>1, <1>3
<1> QED BY <1>2, <1>3, <1>4

(* As many bytes as the lengths add up to.                                 *)
LEMMA BytesCount ==
    ASSUME NEW found \in Seq(AnyRanges)
    PROVE  Len(Concats(AllBytes(found))[Len(found)]) = Total(Lengths(found))
<1> DEFINE N == Len(found)
           bytes == AllBytes(found)
           lengths == Lengths(found)
           S == {n \in 0..N : Len(Concats(bytes)[n]) = Sums(lengths)[n]}
<1>1. N \in Nat /\ DOMAIN found = 1..N
  OBVIOUS
<1>2. /\ bytes \in Seq(Seq(Int)) /\ Len(bytes) = N
      /\ \A k \in 1..N : bytes[k] \in Seq(Int) /\ Len(bytes[k]) = found[k].length
  BY BytesType
<1>3. lengths \in Seq(Nat) /\ Len(lengths) = N /\ \A k \in 1..N : lengths[k] = found[k].length
  <2>1. lengths \in Seq(Nat)
    BY LengthType DEF Lengths
  <2>2. DOMAIN lengths = 1..N /\ \A k \in 1..N : lengths[k] = found[k].length
    BY <1>1 DEF Lengths
  <2> HIDE DEF lengths, N
  <2> QED BY <1>1, <2>1, <2>2
<1> HIDE DEF bytes, lengths, N
<1>4. /\ Concats(bytes) \in [0..N -> Seq(Int)] /\ Concats(bytes)[0] = <<>>
      /\ \A n \in 1..N : Concats(bytes)[n] = Concats(bytes)[n - 1] \o bytes[n]
  BY <1>2, ConcatsAre
<1>5. /\ Total(lengths) = Sums(lengths)[N] /\ Sums(lengths)[0] = 0
      /\ \A n \in 1..N : Sums(lengths)[n] = Sums(lengths)[n - 1] + lengths[n]
  BY <1>3, SumsAre
<1>6. 0 \in S
  <2>1. Len(Concats(bytes)[0]) = 0
    BY <1>4, EmptySeq
  <2> QED BY <1>1, <1>5, <2>1
<1>7. ASSUME NEW n \in 1..N, n - 1 \in S
      PROVE  n \in S
  <2>1. Concats(bytes)[n - 1] \in Seq(Int) /\ bytes[n] \in Seq(Int)
    <3>1. n - 1 \in 0..N
      BY <1>1
    <3> QED BY <1>2, <1>4, <3>1
  <2>2. Len(Concats(bytes)[n - 1] \o bytes[n]) = Len(Concats(bytes)[n - 1]) + Len(bytes[n])
    BY <2>1, ConcatProperties
  <2>3. Len(Concats(bytes)[n]) = Sums(lengths)[n]
    BY <1>2, <1>3, <1>4, <1>5, <1>7, <2>2
  <2> QED BY <1>1, <2>3
<1> HIDE DEF S
<1>8. \A n \in 0..N : n \in S
  BY <1>1, <1>6, <1>7, Climb
<1>9. Len(Concats(bytes)[N]) = Sums(lengths)[N]
  BY <1>1, <1>8 DEF S
<1> QED BY <1>5, <1>9 DEF N, bytes, lengths

LEMMA AppendBytes ==
    ASSUME NEW found \in Seq(AnyRanges), NEW x \in AnyRanges
    PROVE  Concats(AllBytes(found \o <<x>>))[Len(found \o <<x>>)] =
               Concats(AllBytes(found))[Len(found)] \o Bytes(x)
<1> DEFINE N == Len(found)
           more == found \o <<x>>
           s == AllBytes(found)
           t == AllBytes(more)
<1>1. <<x>> \in Seq(AnyRanges) /\ Len(<<x>>) = 1 /\ <<x>>[1] = x
  OBVIOUS
<1>2. N \in Nat /\ more \in Seq(AnyRanges) /\ Len(more) = N + 1
  BY <1>1, ConcatProperties
<1>3. more[N + 1] = x /\ \A k \in 1..N : more[k] = found[k]
  <2>1. \A k \in 1..Len(found) + Len(<<x>>) :
            (found \o <<x>>)[k] = IF k <= Len(found) THEN found[k] ELSE <<x>>[k - Len(found)]
    BY <1>1, ConcatProperties
  <2>2. N + 1 \in 1..Len(found) + Len(<<x>>) /\ ~(N + 1 <= N) /\ (N + 1) - N = 1
    BY <1>1, <1>2
  <2>3. more[N + 1] = x
    BY <1>1, <2>1, <2>2
  <2>4. \A k \in 1..N : k \in 1..Len(found) + Len(<<x>>) /\ k <= N
    BY <1>1, <1>2
  <2> QED BY <2>1, <2>3, <2>4
<1>4. s \in Seq(Seq(Int)) /\ Len(s) = N /\ \A k \in 1..N : s[k] = Bytes(found[k])
  BY BytesType
<1> HIDE DEF more
<1>5. t \in Seq(Seq(Int)) /\ Len(t) = N + 1 /\ \A k \in 1..Len(more) : t[k] = Bytes(more[k])
  BY <1>2, BytesType
<1> HIDE DEF s, t, N
<1>6. \A k \in 1..Len(s) : s[k] = t[k]
  <2>1. \A k \in 1..N : k \in 1..Len(more)
    BY <1>2
  <2> QED BY <1>3, <1>4, <1>5, <2>1
<1>7. Concats(s)[N] = Concats(t)[N]
  <2>1. \A n \in 0..Len(s) : Concats(s)[n] = Concats(t)[n]
    <3>1. Len(s) <= Len(t)
      BY <1>2, <1>4, <1>5
    <3> QED BY <1>4, <1>5, <1>6, <3>1, SameBeginning
  <2> QED BY <1>2, <1>4, <2>1
<1>8. Concats(t)[N + 1] = Concats(t)[N] \o t[N + 1]
  <2>1. \A n \in 1..Len(t) : Concats(t)[n] = Concats(t)[n - 1] \o t[n]
    BY <1>5, ConcatsAre
  <2>2. N + 1 \in 1..Len(t) /\ (N + 1) - 1 = N
    BY <1>2, <1>5
  <2> QED BY <2>1, <2>2
<1>9. t[N + 1] = Bytes(x)
  <2>1. N + 1 \in 1..Len(more)
    BY <1>2
  <2> QED BY <1>3, <1>5, <2>1
<1>10. Concats(t)[Len(more)] = Concats(s)[N] \o Bytes(x)
  BY <1>2, <1>7, <1>8, <1>9
<1> QED BY <1>10 DEF s, t, N, more

(* The ranges found are ranges of the file, and their bytes, one range     *)
(* after the other, are those that are asked for.                          *)
LEMMA FoundAsAsked ==
    ASSUME NEW q \in Requests, \A i \in DOMAIN q.range : InFile(q.range[i], q.size)
    PROVE  /\ \A k \in 1..Len(Found(q)) : Found(q)[k] \in GoodRanges(q.size)
           /\ Concats(AllBytes(Found(q)))[Len(Found(q))] =
                  FlattenSeq([i \in DOMAIN q.range |-> Asked(q.range[i], q.size)])
<1> DEFINE N == Len(q.range)
           rs == [i \in DOMAIN q.range |-> RangeOf(q.range[i], q.size)]
           as == [i \in DOMAIN q.range |-> Asked(q.range[i], q.size)]
           found(n) == Concats(rs)[n]
           asked(n) == Concats(as)[n]
           Good == GoodRanges(q.size)
           S == {n \in 0..N : /\ found(n) \in Seq(Good)
                              /\ Concats(AllBytes(found(n)))[Len(found(n))] = asked(n)}
<1>1. q.range \in Seq(Pairs) /\ q.size \in Sizes
  BY RequestIs
<1>2. N \in Nat /\ DOMAIN q.range = 1..N /\ \A i \in 1..N : q.range[i] \in Pairs
  BY <1>1
<1>3. \A i \in 1..N : rs[i] = RangeOf(q.range[i], q.size) /\ as[i] = Asked(q.range[i], q.size)
  BY <1>2
<1>4. ASSUME NEW i \in 1..N
      PROVE  \/ rs[i] = <<>> /\ as[i] = <<>>
             \/ \E x \in Good : rs[i] = <<x>> /\ as[i] = Bytes(x)
  <2>1. InFile(q.range[i], q.size)
    BY <1>2
  <2> HIDE DEF rs, as, N
  <2> QED BY <1>1, <1>2, <1>3, <2>1, GoodRange
<1>5. Good \subseteq AnyRanges
  BY DEF GoodRanges
<1> HIDE DEF Good
<1>6. rs \in Seq(Seq(AnyRanges)) /\ Len(rs) = N
  <2>1. rs \in Seq(Seq(AnyRanges))
    BY FoundType
  <2>2. DOMAIN rs = 1..N
    BY <1>2
  <2> HIDE DEF rs, N
  <2> QED BY <1>2, <2>1, <2>2
<1>7. ASSUME NEW x \in Good
      PROVE  Bytes(x) \in Seq(Int)
  <2>1. <<x>> \in Seq(AnyRanges) /\ Len(<<x>>) = 1 /\ <<x>>[1] = x
    BY <1>5
  <2>2. \A k \in 1..Len(<<x>>) : Bytes(<<x>>[k]) \in Seq(Int)
    BY <2>1, BytesType
  <2> QED BY <2>1, <2>2
<1>8. as \in Seq(Seq(Int)) /\ Len(as) = N
  <2>1. \A i \in 1..N : as[i] \in Seq(Int)
    BY <1>4, <1>7, EmptySeq
  <2>2. DOMAIN as = 1..N /\ as = [i \in 1..N |-> as[i]]
    BY <1>2
  <2> HIDE DEF as, N
  <2>3. as \in [1..N -> Seq(Int)]
    BY <2>1, <2>2
  <2> QED BY <1>2, <2>3, ListIs
<1>9. Found(q) = found(N) /\ FlattenSeq(as) = asked(N)
  <2>1. FlattenSeq(rs) = Concats(rs)[Len(rs)]
    BY <1>6, Flattened
  <2>2. FlattenSeq(as) = Concats(as)[Len(as)]
    BY <1>8, Flattened
  <2>3. Found(q) = FlattenSeq(rs)
    BY DEF Found, GetRanges
  <2> HIDE DEF rs, as
  <2> QED BY <1>6, <1>8, <2>1, <2>2, <2>3
<1> HIDE DEF rs, as, N
<1>10. /\ found(0) = <<>> /\ asked(0) = <<>>
       /\ \A n \in 1..N : found(n) = found(n - 1) \o rs[n]
       /\ \A n \in 1..N : asked(n) = asked(n - 1) \o as[n]
       /\ \A n \in 0..N : found(n) \in Seq(AnyRanges)
       /\ \A n \in 0..N : asked(n) \in Seq(Int)
  <2>1. /\ Concats(rs)[0] = <<>> /\ Concats(rs) \in [0..N -> Seq(AnyRanges)]
        /\ \A n \in 1..N : Concats(rs)[n] = Concats(rs)[n - 1] \o rs[n]
    BY <1>6, ConcatsAre
  <2>2. /\ Concats(as)[0] = <<>> /\ Concats(as) \in [0..N -> Seq(Int)]
        /\ \A n \in 1..N : Concats(as)[n] = Concats(as)[n - 1] \o as[n]
    BY <1>8, ConcatsAre
  <2> QED BY <2>1, <2>2
<1> HIDE DEF found, asked
<1>11. 0 \in S
  <2> DEFINE e == <<>>
  <2>1. e \in Seq(AnyRanges) /\ Len(e) = 0 /\ e \in Seq(Good)
    BY EmptySeq
  <2> HIDE DEF e
  <2>2. AllBytes(e) \in Seq(Seq(Int))
    BY <2>1, BytesType
  <2>3. Concats(AllBytes(e))[0] = <<>>
    BY <2>2, ConcatsAre
  <2>4. found(0) = e
    BY <1>10 DEF e
  <2> QED BY <1>2, <1>10, <2>1, <2>3, <2>4
<1>12. ASSUME NEW n \in 1..N, n - 1 \in S
       PROVE  n \in S
  <2> DEFINE f == found(n - 1)
  <2>1. /\ n - 1 \in 0..N /\ n \in 0..N
        /\ f \in Seq(Good) /\ Concats(AllBytes(f))[Len(f)] = asked(n - 1)
    BY <1>2, <1>12
  <2>2. f \in Seq(AnyRanges) /\ asked(n - 1) \in Seq(Int)
    BY <1>10, <2>1
  <2>3. found(n) = f \o rs[n] /\ asked(n) = asked(n - 1) \o as[n]
    BY <1>10
  <2> HIDE DEF f
  <2>4. CASE rs[n] = <<>> /\ as[n] = <<>>
    <3>1. found(n) = f /\ asked(n) = asked(n - 1)
      BY <2>2, <2>3, <2>4, ConcatEmptySeq
    <3> QED BY <2>1, <3>1
  <2>5. ASSUME NEW x \in Good, rs[n] = <<x>>, as[n] = Bytes(x)
        PROVE  n \in S
    <3>1. found(n) = f \o <<x>> /\ x \in AnyRanges
      BY <1>5, <2>3, <2>5
    <3>2. f \o <<x>> \in Seq(Good)
      <4>1. <<x>> \in Seq(Good)
        OBVIOUS
      <4> QED BY <2>1, <4>1, ConcatProperties
    <3>3. Concats(AllBytes(f \o <<x>>))[Len(f \o <<x>>)] = Concats(AllBytes(f))[Len(f)] \o Bytes(x)
      BY <2>2, <3>1, AppendBytes
    <3>4. Concats(AllBytes(found(n)))[Len(found(n))] = asked(n)
      BY <2>1, <2>3, <2>5, <3>1, <3>3
    <3> QED BY <2>1, <3>1, <3>2, <3>4
  <2> QED BY <1>4, <2>4, <2>5
<1> HIDE DEF S
<1>13. N \in S
  <2>1. \A n \in 0..N : n \in S
    BY <1>2, <1>11, <1>12, Climb
  <2> QED BY <1>2, <2>1
<1>14. found(N) \in Seq(Good) /\ Concats(AllBytes(found(N)))[Len(found(N))] = asked(N)
  BY <1>13 DEF S
<1>15. \A k \in 1..Len(found(N)) : found(N)[k] \in Good
  BY <1>14
<1> QED BY <1>9, <1>14, <1>15 DEF as, Good

LEMMA NothingOfNothing ==
    ASSUME NEW found \in Seq(AnyRanges), \A k \in 1..Len(found) : found[k].length = 0
    PROVE  Total(Lengths(found)) = 0
<1> DEFINE N == Len(found)
           lengths == Lengths(found)
           S == {n \in 0..N : Sums(lengths)[n] = 0}
<1>1. N \in Nat /\ DOMAIN found = 1..N
  OBVIOUS
<1>2. lengths \in Seq(Nat) /\ Len(lengths) = N /\ \A k \in 1..N : lengths[k] = 0
  <2>1. lengths \in Seq(Nat)
    BY LengthType DEF Lengths
  <2>2. DOMAIN lengths = 1..N /\ \A k \in 1..N : lengths[k] = 0
    BY <1>1 DEF Lengths
  <2> HIDE DEF lengths, N
  <2> QED BY <1>1, <2>1, <2>2
<1> HIDE DEF lengths, N
<1>3. /\ Total(lengths) = Sums(lengths)[N] /\ Sums(lengths)[0] = 0
      /\ \A n \in 1..N : Sums(lengths)[n] = Sums(lengths)[n - 1] + lengths[n]
  BY <1>2, SumsAre
<1>4. 0 \in S
  BY <1>1, <1>3
<1>5. ASSUME NEW n \in 1..N, n - 1 \in S
      PROVE  n \in S
  <2>1. Sums(lengths)[n] = 0
    BY <1>2, <1>3, <1>5
  <2> QED BY <1>1, <2>1
<1> HIDE DEF S
<1>6. \A n \in 0..N : n \in S
  BY <1>1, <1>4, <1>5, Climb
<1> QED BY <1>1, <1>3, <1>6 DEF S, N, lengths

-----------------------------------------------------------------------------
(* What the headers of a partial answer announce.                          *)

Announced ==
    status = 206 =>
        /\ contentLength = LengthOf(Found(request)) /\ contentLength # 0
        /\ contentRange = [k \in DOMAIN Found(request) |-> <<Found(request)[k].position, Found(request)[k].last>>]

LEMMA LengthOfNothing == LengthOf(<<>>) = 0
<1> DEFINE e == <<>>
<1>1. e \in Seq(AnyRanges) /\ \A k \in 1..Len(e) : e[k].length = 0
  BY EmptySeq
<1> HIDE DEF e
<1>2. Total(Lengths(e)) = 0
  BY <1>1, NothingOfNothing
<1>3. Ulong(0) = 0
  BY SizesAre, UlongIs
<1> QED BY <1>2, <1>3 DEF LengthOf, Lengths, e

(* The headers of a partial answer refuse the request, or announce the     *)
(* ranges found in it.                                                     *)
LEMMA PartialHeaders ==
    ASSUME SendPartialHeaders
    PROVE  \/ \E code \in {400, 416, 500} : Refuse(code)
           \/ LET found == Found(request)
              IN  /\ SendHeaders(206, BodyFollows("ranges")) /\ LengthOf(found) # 0
                  /\ contentLength' = LengthOf(found) /\ ranges' = found /\ UNCHANGED transfer
                  /\ contentRange' = [k \in DOMAIN found |-> <<found[k].position, found[k].last>>]
<1>1. PICK found \in {<<>>, Found(request)} :
          \/ Refuse(400) \/ Refuse(416) \/ Refuse(500)
          \/ /\ SendHeaders(206, BodyFollows("ranges")) /\ LengthOf(found) # 0
             /\ contentLength' = LengthOf(found) /\ ranges' = found /\ UNCHANGED transfer
             /\ contentRange' = [k \in DOMAIN found |-> <<found[k].position, found[k].last>>]
  BY Zenon DEF SendPartialHeaders, Found, fileSize
<1>2. CASE Refuse(400) \/ Refuse(416) \/ Refuse(500)
  BY <1>2
<1>3. CASE ~(Refuse(400) \/ Refuse(416) \/ Refuse(500))
  <2>1. LengthOf(found) # 0 /\ found = Found(request)
    BY <1>1, <1>3, LengthOfNothing
  <2> QED BY <1>1, <1>3, <2>1
<1> QED BY <1>2, <1>3

LEMMA AnnouncedStep == TypeInv /\ Announced /\ [Next]_vars => Announced'
<1> SUFFICES ASSUME TypeInv, Announced, [Next]_vars, status' = 206
             PROVE  /\ contentLength' = LengthOf(Found(request')) /\ contentLength' # 0
                    /\ contentRange' = [k \in DOMAIN Found(request') |->
                                            <<Found(request')[k].position, Found(request')[k].last>>]
  BY DEF Announced
<1>1. CASE SendfileHeaders
  <2>1. status = None /\ status' \in {status, 200, 404, 406, 304, 500}
    BY <1>1 DEF SendfileHeaders, TypeInv, Refuse, SendHeaders, headers
  <2> QED BY <2>1 DEF None
<1>2. CASE SendPartialHeaders
  <2>1. status = None /\ None # 206 /\ request' = request
    <3>1. None # 206
      BY DEF None
    <3> QED BY <1>2, <3>1 DEF SendPartialHeaders, TypeInv
  <2>2. ~\E code \in {400, 416, 500} : Refuse(code)
    BY <2>1 DEF Refuse, SendHeaders
  <2> QED BY <1>2, <2>1, <2>2, PartialHeaders
<1>3. CASE BeginRange \/ SendRange \/ Copy \/ UNCHANGED vars
  <2>1. UNCHANGED <<request, headers>>
    BY <1>3 DEF BeginRange, SendRange, Copy, vars
  <2> QED BY <2>1 DEF Announced, headers
<1> QED BY <1>1, <1>2, <1>3 DEF Next

LEMMA RangesOfFile ==
    ASSUME TypeInv, Announced, status = 206, Announceable(request)
    PROVE  /\ Found(request) \in Seq(AnyRanges) /\ fileSize \in Nat /\ fileSize > 0
           /\ contentLength = Total(Lengths(Found(request)))
           /\ \A k \in 1..Len(Found(request)) :
                 LET x == Found(request)[k]
                 IN  /\ x.position \in Nat /\ x.length \in Nat /\ x.length > 0
                     /\ x.position + x.length <= fileSize /\ x.last = x.position + x.length - 1
<1> DEFINE found == Found(request)
<1>1. found \in Seq(AnyRanges) /\ fileSize \in Nat
  BY FoundType, RequestIs, SizesAre DEF TypeInv, fileSize
<1>2. \A k \in 1..Len(found) : found[k] \in GoodRanges(fileSize)
  BY FoundAsAsked DEF Announceable, TypeInv, fileSize
<1>3. contentLength = Total(Lengths(found))
  <2>1. Total(Lengths(found)) \in Nat
    BY <1>1, LengthType, TotalIs DEF Lengths
  <2>2. Total(Lengths(found)) \in 0..UlongSize - 1
    BY <2>1, SizesAre DEF Announceable
  <2>3. LengthOf(found) = Ulong(Total(Lengths(found)))
    BY DEF LengthOf, Lengths
  <2> QED BY <2>2, <2>3, UlongIs DEF Announced
<1> HIDE DEF found
<1>4. ASSUME NEW k \in 1..Len(found)
      PROVE  /\ found[k].position \in Nat /\ found[k].length \in Nat
             /\ found[k].position + found[k].length <= fileSize
             /\ fileSize > 0 => found[k].length > 0 /\ found[k].last = found[k].position + found[k].length - 1
  BY <1>2, SizesAre DEF GoodRanges, AnyRanges
<1>5. fileSize > 0
  <2> SUFFICES ASSUME fileSize = 0 PROVE FALSE
    BY <1>1
  <2>1. \A k \in 1..Len(found) : found[k].length = 0
    BY <1>4
  <2>2. Total(Lengths(found)) = 0
    BY <1>1, <2>1, NothingOfNothing
  <2> QED BY <1>3, <2>2 DEF Announced
<1> QED BY <1>1, <1>3, <1>4, <1>5 DEF found

(* The content-range header names bytes of the file, and as many as the    *)
(* content-length header: for every request whose ranges end with a byte   *)
(* of the file and whose suffixes take all of it.  Without the first the   *)
(* end that GetRanges makes of a later one is the size of the file, and of *)
(* the last N bytes it makes all but the first N.                          *)
THEOREM RangesAreAnnounced == (\A q \in Requests : Announceable(q)) => (Spec => []ContentRangeHolds)
<1> SUFFICES ASSUME \A q \in Requests : Announceable(q) PROVE Spec => []ContentRangeHolds
  OBVIOUS
<1>1. Init => TypeInv /\ Announced
  BY TypesInit DEF Init, Announced, None
<1>2. TypeInv /\ Announced => ContentRangeHolds
  <2> SUFFICES ASSUME TypeInv, Announced, status = 206
               PROVE  /\ \A i \in DOMAIN contentRange : contentRange[i][2] < fileSize
                      /\ contentLength = Total([i \in DOMAIN contentRange |->
                                                    contentRange[i][2] - contentRange[i][1] + 1])
    BY DEF ContentRangeHolds
  <2> DEFINE found == Found(request)
             counted == [i \in DOMAIN contentRange |-> contentRange[i][2] - contentRange[i][1] + 1]
  <2>1. Announceable(request)
    BY DEF TypeInv
  <2>2. found \in Seq(AnyRanges) /\ fileSize \in Nat /\ contentLength = Total(Lengths(found))
    BY <2>1, RangesOfFile
  <2>3. ASSUME NEW k \in 1..Len(found)
        PROVE  /\ found[k].position \in Nat /\ found[k].length \in Nat
               /\ found[k].position + found[k].length <= fileSize
               /\ found[k].last = found[k].position + found[k].length - 1
    BY <2>1, RangesOfFile
  <2>4. contentRange = [k \in DOMAIN found |-> <<found[k].position, found[k].last>>]
    BY DEF Announced
  <2> HIDE DEF found
  <2>5. DOMAIN found = 1..Len(found) /\ DOMAIN contentRange = 1..Len(found)
    BY <2>2, <2>4
  <2>6. ASSUME NEW k \in 1..Len(found)
        PROVE  /\ contentRange[k][1] = found[k].position /\ contentRange[k][2] = found[k].last
               /\ contentRange[k][2] < fileSize
               /\ contentRange[k][2] - contentRange[k][1] + 1 = found[k].length
    <3>1. contentRange[k][1] = found[k].position /\ contentRange[k][2] = found[k].last
      BY <2>4, <2>5
    <3>2. found[k].last < fileSize /\ found[k].last - found[k].position + 1 = found[k].length
      <4>1. PICK p \in Nat, n \in Nat : p = found[k].position /\ n = found[k].length
        BY <2>3
      <4>2. PICK size \in Nat : size = fileSize
        BY <2>2
      <4>3. p + n <= size /\ found[k].last = p + n - 1
        BY <2>3, <4>1, <4>2
      <4>4. p + n - 1 < size /\ p + n - 1 - p + 1 = n
        BY <4>3
      <4> QED BY <4>1, <4>2, <4>3, <4>4
    <3> QED BY <3>1, <3>2
  <2>7. counted = Lengths(found)
    BY <2>5, <2>6 DEF Lengths
  <2> HIDE DEF counted
  <2>8. contentLength = Total(counted)
    BY <2>2, <2>7
  <2> QED BY <2>5, <2>6, <2>8 DEF counted
<1> QED BY <1>1, <1>2, TypesStep, AnnouncedStep, PTL DEF Spec

-----------------------------------------------------------------------------
(* The transfer.                                                           *)

(* What has been sent when n ranges have been.                             *)
BytesOf(n) == Concats(AllBytes(Found(request)))[n]

(* The ranges that have been begun are the first ones.                     *)
Begun == Len(Found(request)) - Len(ranges)

RangesInOrder ==
    /\ Begun \in 0..Len(Found(request))
    /\ \A i \in 1..Len(ranges) : ranges[i] = Found(request)[Begun + i]

(* The buffer has the room that one of the ranges begun has asked for.     *)
RoomOfOne == capacity = 0 \/ \E j \in 1..Begun : capacity = RoomFor(Found(request)[j].length)

NotBegun == pc \in {"begin", "partial"} => ~failed /\ capacity = 0

Copying ==
    pc = "copy" =>
        /\ ~failed /\ contentLength = fileSize /\ fileSize > 0
        /\ capacity = Least(fileSize, Chunk) /\ sendSizeLeft > 0 /\ pos + sendSizeLeft = fileSize
        /\ sent = Interval(0, pos - 1)

BetweenRanges ==
    pc = "ranges" =>
        /\ RangesInOrder /\ RoomOfOne
        /\ failed => ranges = <<>> /\ IsPrefix(sent, Expected)
        /\ ~failed => sent = BytesOf(Begun)

(* The rest of a range that has begun: it is the rest of the file, or of   *)
(* whole chunks, or all of the range, for which there is just the room.    *)
RestOf(x) ==
    \/ x.position + x.length = fileSize
    \/ capacity = Chunk /\ WholeChunks(sendSizeLeft)
    \/ sendSizeLeft = x.length /\ capacity = x.length

InRange ==
    pc = "range" =>
        /\ RangesInOrder /\ RoomOfOne /\ Begun # 0 /\ ~failed
        /\ LET x == Found(request)[Begun]
           IN  /\ sendSizeLeft > 0 /\ pos + sendSizeLeft = x.position + x.length /\ pos >= x.position
               /\ capacity >= RoomFor(x.length)
               /\ RestOf(x)
               /\ sent = BytesOf(Begun - 1) \o Interval(x.position, pos - 1)

Over == pc = "done" => PrefixOfExpected /\ LengthAsAnnounced

TransferInv == TypeInv /\ Announced /\ NotBegun /\ Copying /\ BetweenRanges /\ InRange /\ Over

LEMMA BytesOfRanges ==
    ASSUME TypeInv, Announced, status = 206, Announceable(request)
    PROVE  /\ Len(Found(request)) \in Nat
           /\ BytesOf(0) = <<>>
           /\ \A n \in 0..Len(Found(request)) : BytesOf(n) \in Seq(Int) /\ IsPrefix(BytesOf(n), Expected)
           /\ \A k \in 1..Len(Found(request)) :
                 BytesOf(k) = BytesOf(k - 1) \o Bytes(Found(request)[k]) /\ Bytes(Found(request)[k]) \in Seq(Int)
           /\ Expected = BytesOf(Len(Found(request))) /\ Expected \in Seq(Int)
           /\ Len(Expected) = contentLength
<1> DEFINE found == Found(request)
           N == Len(found)
           bytes == AllBytes(found)
<1>1. found \in Seq(AnyRanges) /\ contentLength = Total(Lengths(found))
  BY RangesOfFile
<1>2. bytes \in Seq(Seq(Int)) /\ Len(bytes) = N /\ N \in Nat
      /\ \A k \in 1..N : bytes[k] = Bytes(found[k]) /\ Bytes(found[k]) \in Seq(Int)
  <2> HIDE DEF found
  <2> QED BY <1>1, BytesType
<1>3. Expected = BytesOf(N)
  BY FoundAsAsked DEF Expected, BytesOf, fileSize, Announceable, TypeInv
<1>4. Len(BytesOf(N)) = contentLength
  BY <1>1, BytesCount DEF BytesOf
<1>5. BytesOf(0) = Concats(bytes)[0] /\ \A n \in 0..N : BytesOf(n) = Concats(bytes)[n]
  BY DEF BytesOf
<1> HIDE DEF found, N, bytes
<1>6. /\ Concats(bytes) \in [0..N -> Seq(Int)] /\ Concats(bytes)[0] = <<>>
      /\ \A n \in 1..N : Concats(bytes)[n] = Concats(bytes)[n - 1] \o bytes[n]
  BY <1>2, ConcatsAre
<1>7. \A n \in 0..N : BytesOf(n) \in Seq(Int) /\ IsPrefix(BytesOf(n), Expected)
  <2>1. \A n \in 0..N : IsPrefix(Concats(bytes)[n], Concats(bytes)[N])
    BY <1>2, ConcatsGrow
  <2>2. N \in 0..N
    BY <1>2
  <2> QED BY <1>3, <1>5, <1>6, <2>1, <2>2
<1>8. ASSUME NEW k \in 1..N
      PROVE  BytesOf(k) = BytesOf(k - 1) \o Bytes(found[k])
  <2>1. k \in 0..N /\ k - 1 \in 0..N
    BY <1>2
  <2> QED BY <1>2, <1>5, <1>6, <2>1
<1>9. Expected \in Seq(Int)
  <2>1. N \in 0..N
    BY <1>2
  <2> QED BY <1>3, <1>7, <2>1
<1> QED BY <1>2, <1>3, <1>4, <1>5, <1>6, <1>7, <1>8, <1>9 DEF found, N

(* What one turn of a loop does, when it neither reads more than is left   *)
(* nor meets the end of the file before.                                   *)
LEMMA Turn ==
    ASSUME TypeInv, NEW room \in Nat, NEW again, NEW then, ReadAndSend(room, again, then),
           NEW n \in Nat, n = Least(room, fileSize - pos), n > 0, n <= sendSizeLeft,
           pos + room >= fileSize => n = sendSizeLeft
    PROVE  \/ /\ pos' = pos + n /\ sent' = sent \o Interval(pos, (pos + n) - 1)
              /\ sendSizeLeft' = sendSizeLeft - n /\ failed' = failed
              /\ pc' = IF sendSizeLeft = n THEN then ELSE again
           \/ request.mayFail /\ pc' = then /\ failed' = TRUE /\ sent' = sent
<1>1. /\ pos \in Nat /\ fileSize \in Nat /\ pos <= fileSize
      /\ sendSizeLeft \in 0..UlongSize - 1 /\ sendSizeLeft \in Nat /\ UlongSize \in Nat
  <2>1. pos \in 0..fileSize /\ sendSizeLeft \in 0..UlongSize - 1
    BY Zenon DEF TypeInv, TypeOK
  <2>2. fileSize \in Nat /\ UlongSize \in Nat
    BY RequestIs, SizesAre DEF TypeInv, fileSize
  <2> QED BY <2>1, <2>2
<1>2. Ulong(sendSizeLeft - n) = sendSizeLeft - n
  <2>1. sendSizeLeft - n \in 0..UlongSize - 1
    BY <1>1
  <2> QED BY <2>1, UlongIs
<1>3. [i \in 1..n |-> pos + i - 1] = Interval(pos, (pos + n) - 1)
  <2>1. PICK p \in Nat : p = pos
    BY <1>1
  <2>2. ((p + n) - 1) - p + 1 = n
    OBVIOUS
  <2> QED BY <2>1, <2>2 DEF Interval
<1>4. CASE /\ pos' = pos + n /\ sent' = sent \o [i \in 1..n |-> pos + i - 1]
           /\ sendSizeLeft' = Ulong(sendSizeLeft - n)
           /\ \E eof \in Eofs(pos + room) : pc' = IF ~eof /\ sendSizeLeft' # 0 THEN again ELSE then
           /\ UNCHANGED failed
  <2>1. sendSizeLeft' = 0 <=> sendSizeLeft = n
    BY <1>1, <1>2, <1>4
  <2>2. CASE pos + room < fileSize
    <3>1. ~(pos + room > fileSize) /\ pos + room # fileSize
      BY <1>1, <2>2
    <3>2. Eofs(pos + room) = {FALSE}
      BY <3>1, Zenon DEF Eofs
    <3>3. pc' = IF sendSizeLeft' # 0 THEN again ELSE then
      BY <1>4, <3>2, Zenon
    <3> QED BY <1>2, <1>3, <1>4, <2>1, <3>3
  <2>3. CASE n = sendSizeLeft
    <3>1. pc' = then
      BY <1>4, <2>1, <2>3
    <3> QED BY <1>2, <1>3, <1>4, <2>3, <3>1
  <2>4. pos + room < fileSize \/ n = sendSizeLeft
    BY <1>1
  <2> QED BY <2>2, <2>3, <2>4
<1>5. CASE (n = 0 \/ request.mayFail) /\ pc' = then /\ failed' = (failed \/ n > 0) /\ UNCHANGED sent
  <2>1. n # 0
    OBVIOUS
  <2>2. failed' = TRUE
    BY <1>5, Zenon
  <2> QED BY <1>5, <2>1, <2>2
<1> QED
  <2>1. n = Least(room, fileSize - pos)
    OBVIOUS
  <2> QED BY <1>4, <1>5, <2>1 DEF ReadAndSend

LEMMA TransferInit == Init => TransferInv
<1>1. Init => pc = "begin" /\ status # 206
  BY DEF Init, None
<1> QED BY <1>1, TypesInit DEF Init, TransferInv, Announced, NotBegun, Copying, BetweenRanges, InRange, Over

(* An end without a body.                                                  *)
LEMMA EndedEarly ==
    ASSUME NEW code, status' = code, code \in {None, 304, 400, 404, 406, 416, 500}, pc' = "done", sent' = <<>>
    PROVE  NotBegun' /\ Copying' /\ BetweenRanges' /\ InRange' /\ Over'
<1>1. code # 206 /\ code # 200
  BY DEF None
<1>2. Expected' = <<>>
  BY <1>1 DEF Expected
<1>3. IsPrefix(sent', Expected')
  <2>1. <<>> \in Seq(Int)
    BY EmptySeq
  <2> QED BY <1>2, <2>1, PrefixSelf
<1> QED BY <1>1, <1>3 DEF NotBegun, Copying, BetweenRanges, InRange, Over, PrefixOfExpected, LengthAsAnnounced

LEMMA StepHeaders ==
    ASSUME TransferInv, SendfileHeaders
    PROVE  NotBegun' /\ Copying' /\ BetweenRanges' /\ InRange' /\ Over'
<1>0. /\ pc = "begin" /\ status = None /\ sent = <<>> /\ ~failed /\ capacity = 0 /\ UNCHANGED <<request, sent>>
      /\ fileSize \in Nat /\ Chunk \in Nat /\ Chunk > 0 /\ request.method \in {"get", "head"}
  BY RequestIs, SizesAre DEF SendfileHeaders, TransferInv, TypeInv, NotBegun, fileSize
<1>1. ASSUME NEW code \in {404, 406, 304, 500}, Refuse(code)
      PROVE  pc' = "done" /\ status' \in {None, 304, 400, 404, 406, 416, 500}
  BY <1>0, <1>1 DEF Refuse, SendHeaders
<1>2. CASE pc' = "partial" /\ UNCHANGED <<headers, ranges, transfer, failed>>
  BY <1>0, <1>2 DEF transfer, NotBegun, Copying, BetweenRanges, InRange, Over
<1>3. CASE pc' = "done" /\ UNCHANGED headers
  BY <1>0, <1>3, EndedEarly DEF headers
<1>4. CASE /\ SendHeaders(200, IF fileSize = 0 THEN "done" ELSE BodyFollows("copy"))
           /\ contentLength' = fileSize
           /\ capacity' = Least(fileSize, Chunk) /\ pos' = 0 /\ sendSizeLeft' = fileSize
  <2>1. CASE request.mayFail /\ pc' = "done" /\ UNCHANGED status
    BY <1>0, <2>1, EndedEarly
  <2>2. CASE status' = 200 /\ pc' = "done" /\ UNCHANGED failed /\ (fileSize = 0 \/ request.method = "head")
    <3>1. Expected' = Interval(0, fileSize - 1)
      BY <1>0, <2>2 DEF Expected, fileSize
    <3>2. Interval(0, fileSize - 1) \in Seq(Int)
      BY <1>0, IntervalIs
    <3>3. PrefixOfExpected'
      BY <1>0, <3>1, <3>2, PrefixSelf DEF PrefixOfExpected
    <3>4. LengthAsAnnounced'
      <4>1. Len(<<>>) = 0
        OBVIOUS
      <4> QED BY <1>0, <1>4, <2>2, <4>1 DEF LengthAsAnnounced
    <3> QED BY <2>2, <3>3, <3>4 DEF NotBegun, Copying, BetweenRanges, InRange, Over
  <2>3. CASE status' = 200 /\ pc' = "copy" /\ UNCHANGED failed /\ fileSize # 0
    <3>1. Interval(0, 0 - 1) = <<>>
      BY IntervalEmpty
    <3>2. Copying'
      BY <1>0, <1>4, <2>3, <3>1 DEF Copying, fileSize
    <3> QED BY <2>3, <3>2 DEF NotBegun, BetweenRanges, InRange, Over
  <2> QED BY <1>0, <1>4, <2>1, <2>2, <2>3 DEF SendHeaders, BodyFollows
<1> QED
  <2>1. CASE \E code \in {404, 406, 304, 500} : Refuse(code)
    <3>1. pc' = "done" /\ status' \in {None, 304, 400, 404, 406, 416, 500}
      BY <1>1, <2>1
    <3> QED BY <1>0, <3>1, EndedEarly
  <2> QED BY <1>2, <1>3, <1>4, <2>1 DEF SendfileHeaders

LEMMA StepPartialHeaders ==
    ASSUME TransferInv, SendPartialHeaders
    PROVE  NotBegun' /\ Copying' /\ BetweenRanges' /\ InRange' /\ Over'
<1>0. /\ pc = "partial" /\ status = None /\ sent = <<>> /\ ~failed /\ capacity = 0 /\ UNCHANGED <<request, sent>>
      /\ request.method \in {"get", "head"} /\ request \in Requests
  BY RequestIs DEF SendPartialHeaders, TransferInv, TypeInv, NotBegun
<1>1. ASSUME NEW code \in {400, 416, 500}, Refuse(code)
      PROVE  NotBegun' /\ Copying' /\ BetweenRanges' /\ InRange' /\ Over'
  <2>1. pc' = "done" /\ status' \in {None, 304, 400, 404, 406, 416, 500}
    BY <1>0, <1>1 DEF Refuse, SendHeaders
  <2> QED BY <1>0, <2>1, EndedEarly
<1>2. CASE /\ SendHeaders(206, BodyFollows("ranges"))
           /\ ranges' = Found(request) /\ UNCHANGED transfer
  <2>1. CASE request.mayFail /\ pc' = "done" /\ UNCHANGED status
    BY <1>0, <2>1, EndedEarly
  <2>2. CASE status' = 206 /\ pc' = "done" /\ request.method = "head"
    <3>1. request'.method # "get"
      BY <1>0, <2>2
    <3> QED BY <2>2, <3>1 DEF NotBegun, Copying, BetweenRanges, InRange, Over, PrefixOfExpected, LengthAsAnnounced
  <2>3. CASE status' = 206 /\ pc' = "ranges" /\ UNCHANGED failed
    <3> DEFINE found == Found(request)
    <3>1. found \in Seq(AnyRanges) /\ Found(request') = found /\ ranges' = found
      BY <1>0, <1>2, FoundType
    <3>2. Concats(AllBytes(found))[0] = <<>>
      <4> HIDE DEF found
      <4>1. AllBytes(found) \in Seq(Seq(Int))
        BY <3>1, BytesType
      <4> QED BY <4>1, ConcatsAre
    <3> HIDE DEF found
    <3>3. Begun' = 0
      BY <3>1 DEF Begun
    <3>4. RangesInOrder'
      <4>1. Len(found) \in Nat /\ \A i \in 1..Len(found) : 0 + i = i
        BY <3>1
      <4> QED BY <3>1, <3>3, <4>1 DEF RangesInOrder
    <3>5. RoomOfOne' /\ ~failed'
      BY <1>0, <1>2, <2>3 DEF RoomOfOne, transfer
    <3>6. sent' = BytesOf(Begun)'
      BY <1>0, <3>1, <3>2, <3>3 DEF BytesOf
    <3> QED BY <2>3, <3>4, <3>5, <3>6 DEF NotBegun, Copying, BetweenRanges, InRange, Over
  <2> QED BY <1>0, <1>2, <2>1, <2>2, <2>3 DEF SendHeaders, BodyFollows
<1> QED BY <1>1, <1>2, PartialHeaders

(* A range that is begun has all that it asks for, and the room for it.    *)
LEMMA StepBeginRange ==
    ASSUME TransferInv, Transferable(request), BeginRange, capacity' \in 0..Chunk
    PROVE  NotBegun' /\ Copying' /\ BetweenRanges' /\ InRange' /\ Over'
<1> DEFINE found == Found(request)
           N == Len(found)
           b == Begun
<1>0. /\ pc = "ranges" /\ status = 206 /\ UNCHANGED <<request, headers, sent, failed>>
      /\ TypeInv /\ Announced /\ Announceable(request)
  BY DEF BeginRange, TransferInv, TypeInv, Transferable
<1>1. /\ RangesInOrder /\ RoomOfOne
      /\ failed => ranges = <<>> /\ IsPrefix(sent, Expected)
      /\ ~failed => sent = BytesOf(b)
  BY <1>0 DEF TransferInv, BetweenRanges
<1>2. /\ found \in Seq(AnyRanges) /\ fileSize \in Nat /\ N \in Nat
      /\ \A k \in 1..N : /\ found[k].position \in Nat /\ found[k].length \in Nat /\ found[k].length > 0
                         /\ found[k].position + found[k].length <= fileSize
  BY <1>0, RangesOfFile, BytesOfRanges
<1>3. /\ \A n \in 0..N : BytesOf(n) \in Seq(Int)
      /\ Expected = BytesOf(N) /\ Expected \in Seq(Int) /\ Len(Expected) = contentLength
  BY <1>0, BytesOfRanges
<1>4. /\ b \in 0..N /\ b = N - Len(ranges) /\ \A i \in 1..Len(ranges) : ranges[i] = found[b + i]
      /\ ranges \in Seq(AnyRanges) /\ Len(ranges) \in Nat
  BY <1>0, <1>1 DEF RangesInOrder, Begun, TypeInv
<1>5. CASE ranges = <<>> /\ pc' = "done"
  <2>1. Expected' = Expected
    BY <1>0 DEF Expected, headers, fileSize
  <2>2. b = N
    BY <1>2, <1>4, <1>5
  <2>3. IsPrefix(sent, Expected) /\ (~failed => sent = Expected)
    BY <1>1, <1>3, <2>2, PrefixSelf
  <2>4. PrefixOfExpected' /\ LengthAsAnnounced'
    BY <1>0, <1>3, <2>1, <2>3 DEF PrefixOfExpected, LengthAsAnnounced, headers
  <2> QED BY <1>5, <2>4 DEF NotBegun, Copying, BetweenRanges, InRange, Over
<1>6. CASE /\ ranges # <<>>
           /\ capacity' = Reserve(RoomFor(Head(ranges).length))
           /\ pos' = Least(Head(ranges).position, fileSize)
           /\ sendSizeLeft' = Head(ranges).length
           /\ ranges' = Tail(ranges)
           /\ pc' = "range"
  <2> HIDE DEF found, N, b
  <2> DEFINE x == found[b + 1]
             L == x.length
             P == x.position
  <2>1. /\ Len(ranges) > 0 /\ Head(ranges) = x /\ b + 1 \in 1..N
        /\ Len(ranges') = Len(ranges) - 1 /\ \A i \in 1..Len(ranges') : ranges'[i] = ranges[i + 1]
    <3>1. Len(ranges) > 0 /\ Head(ranges) = ranges[1] /\ 1 \in 1..Len(ranges)
      BY <1>4, <1>6
    <3>2. Head(ranges) = x /\ b + 1 \in 1..N
      BY <1>2, <1>4, <3>1
    <3>3. Len(ranges') = Len(ranges) - 1 /\ \A i \in 1..Len(ranges') : ranges'[i] = ranges[i + 1]
      BY <1>4, <1>6, HeadTailProperties
    <3> QED BY <3>1, <3>2, <3>3
  <2>2. P \in Nat /\ L \in Nat /\ L > 0 /\ P + L <= fileSize
    BY <1>2, <2>1
  <2>3. ~failed /\ sent = BytesOf(b)
    BY <1>1, <1>6 DEF b
  <2>4. Found(request') = found /\ Begun' = b + 1
    <3>1. Found(request') = found
      BY <1>0 DEF found
    <3>2. Begun' = N - Len(ranges')
      BY <3>1 DEF Begun, N
    <3> QED BY <1>2, <1>4, <2>1, <3>1, <3>2
  <2>5. RangesInOrder'
    <3>1. Begun' \in 0..Len(Found(request'))
      BY <1>2, <2>1, <2>4 DEF N
    <3>2. ASSUME NEW i \in 1..Len(ranges')
          PROVE  ranges'[i] = found[b + 1 + i]
      <4>1. i + 1 \in 1..Len(ranges) /\ b + (i + 1) = b + 1 + i
        BY <1>4, <2>1
      <4> QED BY <1>4, <2>1, <4>1
    <3> QED BY <2>4, <3>1, <3>2 DEF RangesInOrder
  <2>6. capacity \in Nat /\ Chunk \in Nat /\ Chunk > 0
    <3>1. capacity \in 0..Chunk
      BY <1>0, Zenon DEF TypeInv, TypeOK
    <3> QED BY <3>1, SizesAre
  <2>7. capacity' = Reserve(RoomFor(L)) /\ pos' = P /\ sendSizeLeft' = L
    <3>1. Least(P, fileSize) = P
      BY <1>2, <2>2 DEF Least
    <3> QED BY <1>6, <2>1, <3>1
  <2>8. RoomFor(L) \in Nat /\ RoomFor(L) > 0 /\ RoomFor(L) <= L /\ RoomFor(L) <= Chunk
        /\ (L < Chunk => RoomFor(L) = L) /\ (L >= Chunk => RoomFor(L) = Chunk)
    BY <2>2, <2>6 DEF RoomFor, Least
  <2>9. /\ capacity' \in Nat /\ capacity' >= RoomFor(L) /\ capacity' <= Chunk
        /\ capacity' \in {capacity, RoomFor(L)} /\ (capacity > RoomFor(L) <=> capacity' # RoomFor(L))
    BY <2>6, <2>7, <2>8 DEF Reserve
  <2>10. capacity = 0 \/ \E j \in 1..b : capacity = RoomFor(found[j].length)
    BY <1>1 DEF RoomOfOne, b, found
  <2>11. RoomOfOne'
    <3>1. \E j \in 1..b + 1 : capacity' = RoomFor(found[j].length)
      <4>1. CASE capacity' = RoomFor(L)
        BY <1>4, <4>1
      <4>2. CASE capacity' = capacity
        <5>1. PICK j \in 1..b : capacity = RoomFor(found[j].length)
          BY <2>8, <2>9, <2>10, <4>2
        <5> QED BY <1>4, <4>2, <5>1
      <4> QED BY <2>9, <4>1, <4>2
    <3> QED BY <2>4, <3>1 DEF RoomOfOne
  <2>12. \/ P + L = fileSize
         \/ capacity' = Chunk /\ WholeChunks(L)
         \/ capacity' = L
    <3>1. \/ P + L = fileSize
          \/ WholeChunks(L)
          \/ L < Chunk /\ \A j \in 1..b + 1 : found[j].length <= L
      <4>1. b + 1 \in DOMAIN found
        BY <1>2, <2>1 DEF N
      <4> QED BY <4>1 DEF Transferable, FitsTheBuffer, found, fileSize
    <3>2. ASSUME WholeChunks(L)
          PROVE  capacity' = Chunk
      <4>0. PICK m \in Nat : L = m * Chunk
        BY <3>2 DEF WholeChunks
      <4>1. m * Chunk >= Chunk
        <5>1. PICK c \in Nat : c = Chunk
          BY <2>6
        <5>2. m # 0
          BY <2>2, <2>6, <4>0
        <5>3. PICK k \in Nat : m = k + 1
          BY <5>2
        <5>4. k * c \in Nat /\ m * c = k * c + c
          BY <5>3
        <5>5. m * c >= c
          BY <5>4
        <5> QED BY <5>1, <5>5
      <4>2. RoomFor(L) = Chunk
        BY <2>8, <4>0, <4>1
      <4> QED BY <2>6, <2>9, <4>2
    <3>3. ASSUME L < Chunk, \A j \in 1..b + 1 : found[j].length <= L
          PROVE  capacity' = L
      <4>1. RoomFor(L) = L
        BY <2>8, <3>3
      <4>2. ASSUME NEW j \in 1..b, capacity = RoomFor(found[j].length)
            PROVE  capacity <= L
        <5>1. j \in 1..b + 1 /\ j \in 1..N
          BY <1>2, <1>4
        <5>2. PICK l \in Nat : l = found[j].length /\ l <= L
          BY <1>2, <3>3, <5>1
        <5>3. RoomFor(l) <= l
          BY <2>6, <5>2 DEF RoomFor, Least
        <5> QED BY <2>2, <2>6, <4>2, <5>2, <5>3
      <4>3. capacity <= L
        BY <2>2, <2>10, <4>2
      <4> QED BY <2>2, <2>6, <2>9, <4>1, <4>3
    <3> QED BY <3>1, <3>2, <3>3
  <2>13. sent' = BytesOf(b) \o Interval(P, P - 1)
    <3>1. Interval(P, P - 1) = <<>>
      <4>1. P \in Int
        BY <2>2
      <4> HIDE DEF P
      <4> QED BY <4>1, IntervalEmpty
    <3>2. BytesOf(b) \in Seq(Int)
      BY <1>3, <1>4
    <3> QED BY <1>0, <2>3, <3>1, <3>2, ConcatEmptySeq
  <2>14. BytesOf(Begun - 1)' = BytesOf(b)
    <3>1. Begun' - 1 = b
      BY <1>4, <2>4
    <3> QED BY <2>4, <3>1 DEF BytesOf, found
  <2>15. fileSize' = fileSize
    BY <1>0 DEF fileSize
  <2>16. InRange'
    <3>1. PICK y : y = Found(request')[Begun'] /\ y = x
      BY <2>4
    <3>2. RestOf(y)'
      BY <2>7, <2>12, <2>15, <3>1 DEF RestOf
    <3>3. Begun' # 0 /\ ~failed'
      BY <1>0, <1>4, <2>3, <2>4
    <3>4. /\ sendSizeLeft' > 0 /\ pos' + sendSizeLeft' = y.position + y.length /\ pos' >= y.position
          /\ capacity' >= RoomFor(y.length)
      BY <2>2, <2>7, <2>9, <3>1
    <3>5. sent' = BytesOf(Begun - 1)' \o Interval(y.position, pos' - 1)
      BY <2>7, <2>13, <2>14, <3>1
    <3> HIDE DEF x
    <3> QED BY <2>5, <2>11, <3>1, <3>2, <3>3, <3>4, <3>5 DEF InRange
  <2> QED BY <1>6, <2>16 DEF NotBegun, Copying, BetweenRanges, Over
<1> QED BY <1>5, <1>6 DEF BeginRange

LEMMA Regroup ==
    ASSUME NEW a \in Seq(Int), NEW b \in Seq(Int), NEW c \in Seq(Int)
    PROVE  (a \o b) \o c = a \o (b \o c)
<1>1. a \o b \in Seq(Int) /\ b \o c \in Seq(Int) /\ Len(a) \in Nat /\ Len(b) \in Nat /\ Len(c) \in Nat
      /\ Len(a \o b) = Len(a) + Len(b) /\ Len(b \o c) = Len(b) + Len(c)
  BY ConcatProperties
<1>2. (a \o b) \o c \in Seq(Int) /\ a \o (b \o c) \in Seq(Int)
  BY <1>1, ConcatProperties
<1> QED BY <1>1, <1>2, SeqEqual

(* What has been sent of a range is the beginning of its bytes.            *)
Sent(before, from, to) == before \o Interval(from, to - 1)

LEMMA SentGrows ==
    ASSUME NEW before \in Seq(Int), NEW from \in Nat, NEW to \in Nat, from <= to, NEW n \in Nat, n > 0
    PROVE  /\ Sent(before, from, to) \in Seq(Int) /\ Interval(to, (to + n) - 1) \in Seq(Int)
           /\ Sent(before, from, to) \o Interval(to, (to + n) - 1) = Sent(before, from, to + n)
<1>1. PICK m \in Int : m = to - 1
  OBVIOUS
<1>2. PICK e \in Int : e = (to + n) - 1
  OBVIOUS
<1>3. from <= m + 1 /\ m <= e /\ m + 1 = to /\ to <= e + 1 /\ from \in Int /\ to \in Int
  BY <1>1, <1>2
<1> DEFINE s == Interval(from, m)
           u == Interval(to, e)
<1>4. s \in Seq(Int) /\ u \in Seq(Int)
  BY <1>3, IntervalIs
<1>5. s \o u = Interval(from, e)
  <2>1. Interval(from, m) \o Interval(m + 1, e) = Interval(from, e)
    BY <1>3, IntervalJoin
  <2> QED BY <1>3, <2>1
<1> HIDE DEF s, u
<1>6. before \o s \in Seq(Int)
  BY <1>4, ConcatProperties
<1>7. (before \o s) \o u = before \o (s \o u)
  BY <1>4, Regroup
<1>8. /\ before \o Interval(from, m) \in Seq(Int) /\ Interval(to, e) \in Seq(Int)
      /\ (before \o Interval(from, m)) \o Interval(to, e) = before \o Interval(from, e)
  BY <1>4, <1>5, <1>6, <1>7 DEF s, u
<1> QED BY <1>1, <1>2, <1>8, Zenon DEF Sent

LEMMA SentBegins ==
    ASSUME NEW before \in Seq(Int), NEW from \in Nat, NEW to \in Nat, NEW end \in Nat, from <= to, to <= end
    PROVE  Sent(before, from, to) \in Seq(Int) /\ IsPrefix(Sent(before, from, to), Sent(before, from, end))
<1>1. Sent(before, from, to) \in Seq(Int)
  <2>1. 1 \in Nat /\ 1 > 0
    OBVIOUS
  <2> QED BY <2>1, SentGrows, Zenon
<1>2. CASE to = end
  BY <1>1, <1>2, PrefixSelf
<1>3. CASE to # end
  <2>1. PICK n \in Nat : n > 0 /\ to + n = end
    <3>1. end - to \in Nat /\ end - to > 0 /\ to + (end - to) = end
      BY <1>3
    <3> QED BY <3>1
  <2>2. n > 0
    BY <2>1
  <2>3. Interval(to, (to + n) - 1) \in Seq(Int)
    BY <2>2, SentGrows, Zenon
  <2>4. Sent(before, from, to) \o Interval(to, (to + n) - 1) = Sent(before, from, to + n)
    BY <2>2, SentGrows, Zenon
  <2>5. IsPrefix(Sent(before, from, to), Sent(before, from, to + n))
    BY <1>1, <2>3, <2>4, PrefixOf
  <2> QED BY <1>1, <2>1, <2>5
<1> QED BY <1>2, <1>3

LEMMA SentOfRange ==
    ASSUME TransferInv, Announceable(request), pc = "range"
    PROVE  /\ Begun \in 1..Len(Found(request)) /\ Len(Found(request)) \in Nat
           /\ LET x == Found(request)[Begun]
              IN  /\ x.position \in Nat /\ x.length \in Nat /\ x.length > 0 /\ x.position + x.length <= fileSize
                  /\ BytesOf(Begun - 1) \in Seq(Int) /\ BytesOf(Begun) = BytesOf(Begun - 1) \o Bytes(x)
                  /\ pos \in Nat /\ sendSizeLeft \in Nat /\ pos + sendSizeLeft = x.position + x.length
                  /\ pos >= x.position /\ sendSizeLeft > 0
           /\ IsPrefix(sent, Expected)
<1> DEFINE N == Len(Found(request))
           b == Begun
           x == Found(request)[b]
<1>1. TypeInv /\ Announced /\ status = 206
  BY DEF TransferInv, TypeInv
<1>2. /\ b \in 0..N /\ b # 0
      /\ sendSizeLeft > 0 /\ pos + sendSizeLeft = x.position + x.length /\ pos >= x.position
      /\ sent = BytesOf(b - 1) \o Interval(x.position, pos - 1)
  BY DEF TransferInv, InRange, RangesInOrder
<1>3. /\ N \in Nat
      /\ \A n \in 0..N : BytesOf(n) \in Seq(Int) /\ IsPrefix(BytesOf(n), Expected)
      /\ \A k \in 1..N : BytesOf(k) = BytesOf(k - 1) \o Bytes(Found(request)[k])
      /\ Expected \in Seq(Int)
  BY <1>1, BytesOfRanges
<1>4. \A k \in 1..N : /\ Found(request)[k].position \in Nat /\ Found(request)[k].length \in Nat
                      /\ Found(request)[k].length > 0
                      /\ Found(request)[k].position + Found(request)[k].length <= fileSize
  BY <1>1, RangesOfFile
<1>5. pos \in Nat /\ sendSizeLeft \in Nat
  <2>1. pos \in 0..fileSize /\ sendSizeLeft \in 0..UlongSize - 1
    BY <1>1, Zenon DEF TypeInv, TypeOK
  <2>2. fileSize \in Nat /\ UlongSize \in Nat
    BY <1>1, RangesOfFile, SizesAre
  <2> QED BY <2>1, <2>2
<1> HIDE DEF N, b
<1>6. b \in 1..N /\ b - 1 \in 0..N
  BY <1>2, <1>3
<1>7. /\ x.position \in Nat /\ x.length \in Nat /\ x.length > 0 /\ x.position + x.length <= fileSize
      /\ BytesOf(b) = BytesOf(b - 1) \o Bytes(x)
      /\ BytesOf(b - 1) \in Seq(Int) /\ BytesOf(b) \in Seq(Int) /\ IsPrefix(BytesOf(b), Expected)
  BY <1>2, <1>3, <1>4, <1>6
<1> HIDE DEF x
<1>8. pos <= x.position + x.length
  BY <1>2, <1>5, <1>7
<1>9. IsPrefix(sent, BytesOf(b)) /\ sent \in Seq(Int)
  <2>1. PICK p \in Nat, l \in Nat, before \in Seq(Int) : p = x.position /\ l = x.length /\ before = BytesOf(b - 1)
    BY <1>7
  <2>2. PICK end \in Nat : end = p + l
    OBVIOUS
  <2>3. BytesOf(b) = Sent(before, p, end)
    <3>1. p + l - 1 = end - 1
      BY <2>2
    <3>2. BytesOf(b) = before \o Interval(p, p + l - 1)
      BY <1>7, <2>1, Zenon DEF Bytes
    <3> QED BY <3>1, <3>2, Zenon DEF Sent
  <2>4. sent = Sent(before, p, pos)
    BY <1>2, <2>1, Zenon DEF Sent
  <2>5. p <= pos /\ pos <= end
    BY <1>2, <1>8, <2>1, <2>2
  <2> QED BY <1>5, <2>3, <2>4, <2>5, SentBegins, Zenon
<1>10. IsPrefix(sent, Expected)
  BY <1>3, <1>7, <1>9, PrefixChain
<1> QED BY <1>2, <1>3, <1>5, <1>6, <1>7, <1>10 DEF N, b, x

(* A turn of a range does not read beyond it: what is left of it is the    *)
(* rest of the file, or whole chunks, or fits the buffer.                  *)
LEMMA TurnOfRange ==
    ASSUME pos \in Nat, sendSizeLeft \in Nat, fileSize \in Nat, capacity \in Nat,
           sendSizeLeft > 0, capacity > 0, pos + sendSizeLeft <= fileSize,
           \/ pos + sendSizeLeft = fileSize
           \/ capacity = Chunk /\ WholeChunks(sendSizeLeft)
           \/ capacity = sendSizeLeft,
           NEW n, n = Least(capacity, fileSize - pos)
    PROVE  /\ n \in Nat /\ n > 0 /\ n <= sendSizeLeft
           /\ pos + capacity >= fileSize => n = sendSizeLeft
           /\ \/ n = sendSizeLeft
              \/ pos + sendSizeLeft = fileSize
              \/ capacity = Chunk /\ WholeChunks(sendSizeLeft - n)
<1>1. n \in Nat /\ n > 0
  BY DEF Least
<1>2. n <= capacity /\ n <= fileSize - pos /\ (n = capacity \/ n = fileSize - pos)
  BY DEF Least
<1>3. CASE pos + sendSizeLeft = fileSize
  <2>1. n <= sendSizeLeft /\ (pos + capacity >= fileSize => n = sendSizeLeft)
    BY <1>2, <1>3
  <2> QED BY <1>1, <1>3, <2>1
<1>4. CASE capacity = Chunk /\ WholeChunks(sendSizeLeft)
  <2>1. PICK m \in Nat : sendSizeLeft = m * capacity
    BY <1>4 DEF WholeChunks
  <2>2. m # 0
    BY <2>1
  <2>3. PICK k \in Nat : m = k + 1
    BY <2>2
  <2>4. PICK rest \in Nat : rest = k * capacity /\ sendSizeLeft = rest + capacity
    BY <2>1, <2>3
  <2>5. n = capacity
    BY <1>2, <2>4
  <2>6. n <= sendSizeLeft /\ (pos + capacity >= fileSize => n = sendSizeLeft) /\ sendSizeLeft - n = rest
    BY <2>4, <2>5
  <2>7. WholeChunks(sendSizeLeft - n)
    BY <1>4, <2>4, <2>6 DEF WholeChunks
  <2> QED BY <1>1, <1>4, <2>6, <2>7
<1>5. CASE capacity = sendSizeLeft
  BY <1>1, <1>2, <1>5
<1> QED BY <1>3, <1>4, <1>5

(* The beginnings of a whole file.                                         *)
LEMMA FileBegins ==
    ASSUME NEW at \in Nat, NEW size \in Nat, at <= size
    PROVE  /\ Interval(0, at - 1) \in Seq(Int) /\ Len(Interval(0, at - 1)) = at
           /\ IsPrefix(Interval(0, at - 1), Interval(0, size - 1))
           /\ \A n \in Nat : n > 0 => Interval(0, at - 1) \o Interval(at, (at + n) - 1) = Interval(0, (at + n) - 1)
<1>1. PICK e \in Seq(Int) : e = <<>>
  BY EmptySeq
<1>2. ASSUME NEW to \in Nat
      PROVE  /\ Interval(0, to - 1) \in Seq(Int) /\ Len(Interval(0, to - 1)) = to
             /\ Sent(e, 0, to) = Interval(0, to - 1)
  <2>1. PICK last \in Int : last = to - 1
    OBVIOUS
  <2>2. 0 <= last + 1 /\ last - 0 + 1 = to /\ 0 \in Int
    BY <2>1
  <2>3. Interval(0, last) \in Seq(Int) /\ Len(Interval(0, last)) = last - 0 + 1
    BY <2>2, IntervalIs, Zenon
  <2>4. e \o Interval(0, last) = Interval(0, last)
    BY <1>1, <2>3, ConcatEmptySeq
  <2> QED BY <2>1, <2>2, <2>3, <2>4 DEF Sent
<1>3. PICK z \in Nat : z = 0 /\ z <= at
  OBVIOUS
<1>4. IsPrefix(Sent(e, z, at), Sent(e, z, size))
  BY <1>3, SentBegins
<1>5. ASSUME NEW n \in Nat, n > 0
      PROVE  Sent(e, z, at) \o Interval(at, (at + n) - 1) = Sent(e, z, at + n) /\ at + n \in Nat
  <2>1. at + n \in Nat
    OBVIOUS
  <2>2. z <= at /\ n > 0
    BY <1>3, <1>5
  <2>3. Sent(e, z, at) \o Interval(at, (at + n) - 1) = Sent(e, z, at + n)
    BY <2>2, SentGrows, Zenon
  <2> QED BY <2>1, <2>3
<1>6. ASSUME NEW n \in Nat, n > 0
      PROVE  Interval(0, at - 1) \o Interval(at, (at + n) - 1) = Interval(0, (at + n) - 1)
  BY <1>2, <1>3, <1>5, <1>6, Zenon
<1>7. IsPrefix(Interval(0, at - 1), Interval(0, size - 1))
  BY <1>2, <1>3, <1>4, Zenon
<1> QED BY <1>2, <1>6, <1>7, Zenon

LEMMA StepSendRange ==
    ASSUME TransferInv, Transferable(request), SendRange
    PROVE  NotBegun' /\ Copying' /\ BetweenRanges' /\ InRange' /\ Over'
<1>0. /\ pc = "range" /\ status = 206 /\ UNCHANGED <<request, headers, ranges>>
      /\ TypeInv /\ Announced /\ Announceable(request)
      /\ capacity' = IF sendSizeLeft < Chunk THEN Reserve(sendSizeLeft) ELSE capacity
      /\ ReadAndSend(capacity', "range", "ranges")
  BY DEF SendRange, TransferInv, TypeInv, Transferable
<1>1. PICK x : x = Found(request)[Begun]
  OBVIOUS
<1>2. PICK N, b : N \in Nat /\ b \in 1..N /\ N = Len(Found(request)) /\ b = Begun
  BY <1>0, SentOfRange
<1>3. PICK before : before \in Seq(Int) /\ before = BytesOf(b - 1)
  BY <1>0, <1>2, SentOfRange
<1>4. PICK p, l : p \in Nat /\ l \in Nat /\ p = x.position /\ l = x.length /\ l > 0
  BY <1>0, <1>1, SentOfRange
<1>5. PICK at, left : at \in Nat /\ left \in Nat /\ at = pos /\ left = sendSizeLeft
  BY <1>0, SentOfRange
<1>6. PICK size, chunk, room :
          /\ size \in Nat /\ chunk \in Nat /\ room \in Nat
          /\ size = fileSize /\ chunk = Chunk /\ chunk > 0 /\ room = capacity /\ room <= chunk
  <2>1. capacity \in 0..Chunk
    BY <1>0, Zenon DEF TypeInv, TypeOK
  <2>2. fileSize \in Nat /\ Chunk \in Nat /\ Chunk > 0
    BY <1>0, RangesOfFile, SizesAre
  <2> QED BY <2>1, <2>2
<1>7. /\ p + l <= size /\ at + left = p + l /\ at >= p /\ left > 0 /\ at <= p + l
      /\ BytesOf(b) = before \o Interval(p, p + l - 1)
  <2>1. /\ p + l <= size /\ at + left = p + l /\ at >= p /\ left > 0
        /\ BytesOf(b) = before \o Interval(p, p + l - 1)
    BY <1>0, <1>1, <1>2, <1>3, <1>4, <1>5, <1>6, SentOfRange DEF Bytes
  <2> QED BY <1>4, <1>5, <2>1
<1>8. /\ RangesInOrder /\ RoomOfOne /\ ~failed /\ RestOf(x) /\ room >= RoomFor(l)
      /\ sent = before \o Interval(p, at - 1)
  BY <1>0, <1>1, <1>2, <1>3, <1>4, <1>5, <1>6 DEF TransferInv, InRange
<1>9. capacity' = capacity /\ room > 0
  <2>1. RoomFor(l) = IF l < chunk THEN l ELSE chunk
    BY <1>6 DEF RoomFor, Least
  <2>2. room >= IF l < chunk THEN l ELSE chunk
    BY <1>8, <2>1, Zenon
  <2>3. left <= l
    BY <1>4, <1>5, <1>7
  <2>4. room > 0 /\ (left < chunk => left <= room)
    BY <1>4, <1>5, <1>6, <2>2, <2>3
  <2> QED BY <1>0, <1>5, <1>6, <2>4 DEF Reserve
<1>10. \/ at + left = size
       \/ room = chunk /\ WholeChunks(left)
       \/ room = left
  BY <1>4, <1>5, <1>6, <1>7, <1>8 DEF RestOf
<1>11. PICK n :
           /\ n = Least(room, size - at) /\ n \in Nat /\ n > 0 /\ n <= left
           /\ at + room >= size => n = left
           /\ n = left \/ at + left = size \/ (room = chunk /\ WholeChunks(left - n))
  <2>1. /\ pos \in Nat /\ sendSizeLeft \in Nat /\ fileSize \in Nat /\ capacity \in Nat
        /\ sendSizeLeft > 0 /\ capacity > 0 /\ pos + sendSizeLeft <= fileSize
    BY <1>4, <1>5, <1>6, <1>7, <1>9
  <2>2. \/ pos + sendSizeLeft = fileSize
        \/ capacity = Chunk /\ WholeChunks(sendSizeLeft)
        \/ capacity = sendSizeLeft
    BY <1>5, <1>6, <1>10, Zenon
  <2>3. PICK n : n = Least(capacity, fileSize - pos)
    OBVIOUS
  <2>4. /\ n \in Nat /\ n > 0 /\ n <= sendSizeLeft
        /\ pos + capacity >= fileSize => n = sendSizeLeft
        /\ \/ n = sendSizeLeft
           \/ pos + sendSizeLeft = fileSize
           \/ capacity = Chunk /\ WholeChunks(sendSizeLeft - n)
    BY <2>1, <2>2, <2>3, TurnOfRange
  <2> QED BY <1>5, <1>6, <2>3, <2>4, Zenon
<1>12. \/ /\ pos' = at + n /\ sent' = sent \o Interval(at, (at + n) - 1)
          /\ sendSizeLeft' = left - n /\ failed' = failed
          /\ pc' = IF left = n THEN "ranges" ELSE "range"
       \/ request.mayFail /\ pc' = "ranges" /\ failed' = TRUE /\ sent' = sent
  <2>1. ReadAndSend(room, "range", "ranges") /\ n = Least(room, fileSize - pos) /\ n <= sendSizeLeft
        /\ (pos + room >= fileSize => n = sendSizeLeft)
    BY <1>0, <1>5, <1>6, <1>9, <1>11
  <2> QED BY <1>0, <1>5, <1>6, <1>11, <2>1, Turn
<1>13. /\ Found(request') = Found(request) /\ Begun' = Begun /\ RangesInOrder' /\ RoomOfOne'
       /\ BytesOf(Begun)' = BytesOf(b) /\ BytesOf(Begun - 1)' = before
  <2>1. Found(request') = Found(request)
    BY <1>0
  <2>2. Begun' = Begun
    BY <1>0, <2>1 DEF Begun
  <2>3. RangesInOrder' /\ RoomOfOne'
    BY <1>0, <1>8, <1>9, <2>1, <2>2 DEF RangesInOrder, RoomOfOne
  <2> QED BY <1>2, <1>3, <2>1, <2>2, <2>3 DEF BytesOf
<1>14. CASE /\ pos' = at + n /\ sent' = sent \o Interval(at, (at + n) - 1)
            /\ sendSizeLeft' = left - n /\ failed' = failed
            /\ pc' = IF left = n THEN "ranges" ELSE "range"
  <2>0. n \in Nat /\ n > 0 /\ n <= left
    BY <1>11, Zenon
  <2>1. sent' = before \o Interval(p, (at + n) - 1)
    <3>1. p \in Nat /\ at \in Nat /\ before \in Seq(Int)
      BY <1>3, <1>4, <1>5
    <3>2. p <= at
      BY <1>7, <3>1
    <3>3. Sent(before, p, at) \o Interval(at, (at + n) - 1) = Sent(before, p, at + n)
      BY <2>0, <3>1, <3>2, SentGrows, Zenon
    <3>4. sent' = Sent(before, p, at) \o Interval(at, (at + n) - 1)
      BY <1>8, <1>14, Zenon DEF Sent
    <3> QED BY <3>3, <3>4, Zenon DEF Sent
  <2>2. CASE left = n
    <3>1. (at + n) - 1 = p + l - 1
      BY <1>4, <1>5, <1>7, <2>2
    <3>2. sent' = BytesOf(Begun)'
      BY <1>7, <1>13, <2>1, <3>1
    <3> QED BY <1>8, <1>13, <1>14, <2>2, <3>2 DEF NotBegun, Copying, BetweenRanges, InRange, Over
  <2>3. CASE left # n
    <3>1. RestOf(x)'
      <4>1. at + left = size \/ (room = chunk /\ WholeChunks(left - n))
        BY <1>11, <2>3
      <4>2. fileSize' = size /\ capacity' = room
        BY <1>0, <1>6, <1>9 DEF fileSize
      <4>3. CASE at + left = size
        <5>1. p + l = size
          BY <1>4, <1>5, <1>7, <4>3
        <5> QED BY <1>4, <4>2, <5>1 DEF RestOf
      <4>4. CASE room = chunk /\ WholeChunks(left - n)
        BY <1>6, <1>14, <4>2, <4>4 DEF RestOf
      <4> QED BY <4>1, <4>3, <4>4
    <3>2. sendSizeLeft' > 0 /\ pos' + sendSizeLeft' = x.position + x.length /\ pos' >= x.position
      <4>1. left - n > 0 /\ (at + n) + (left - n) = p + l /\ at + n >= p
        BY <1>4, <1>5, <1>7, <2>0, <2>3
      <4> QED BY <1>4, <1>5, <1>14, <2>0, <4>1
    <3>3. capacity' >= RoomFor(x.length) /\ Begun' # 0 /\ ~failed'
      <4>1. ~failed'
        BY <1>8, <1>14, Zenon
      <4> QED BY <1>2, <1>4, <1>6, <1>8, <1>9, <1>13, <4>1
    <3>4. sent' = BytesOf(Begun - 1)' \o Interval(x.position, pos' - 1) /\ x = Found(request')[Begun']
      <4>1. sent' = before \o Interval(x.position, pos' - 1)
        <5>1. pos' - 1 = (at + n) - 1
          BY <1>14
        <5> QED BY <1>4, <2>1, <5>1, Zenon
      <4>2. before = BytesOf(Begun - 1)' /\ x = Found(request')[Begun']
        BY <1>1, <1>13
      <4> QED BY <4>1, <4>2
    <3>5. pc' = "range"
      BY <1>14, <2>3
    <3> QED BY <1>13, <3>1, <3>2, <3>3, <3>4, <3>5 DEF NotBegun, Copying, BetweenRanges, InRange, Over
  <2> QED BY <2>2, <2>3
<1>15. CASE request.mayFail /\ pc' = "ranges" /\ failed' = TRUE /\ sent' = sent
  <2>1. N <= 1
    BY <1>2, <1>15 DEF Transferable, NothingBehind
  <2>2. ranges' = <<>>
    <3>1. ranges \in Seq(AnyRanges) /\ b = N - Len(ranges)
      BY <1>0, <1>2 DEF Begun, TypeInv
    <3>2. Len(ranges) = 0
      <4>1. PICK k \in Nat : k = Len(ranges)
        BY <3>1
      <4>2. N \in Nat /\ b \in Nat /\ b >= 1 /\ b = N - k
        BY <1>2, <3>1, <4>1
      <4> QED BY <2>1, <4>1, <4>2
    <3> QED BY <1>0, <3>1, <3>2
  <2>3. IsPrefix(sent', Expected')
    <3>1. Expected' = Expected
      BY <1>0 DEF Expected, headers, fileSize
    <3> QED BY <1>0, <1>15, <3>1, SentOfRange
  <2> QED BY <1>13, <1>15, <2>2, <2>3 DEF NotBegun, Copying, BetweenRanges, InRange, Over
<1> QED BY <1>12, <1>14, <1>15

LEMMA StepCopy ==
    ASSUME TransferInv, Copy
    PROVE  NotBegun' /\ Copying' /\ BetweenRanges' /\ InRange' /\ Over'
<1>0. /\ pc = "copy" /\ status = 200 /\ UNCHANGED <<request, headers, ranges, capacity>> /\ TypeInv
      /\ ReadAndSend(capacity, "copy", "done")
  BY DEF Copy, TransferInv, TypeInv
<1>1. PICK at \in Nat, left \in Nat, size \in Nat, room \in Nat :
          at = pos /\ left = sendSizeLeft /\ size = fileSize /\ room = capacity
  <2>1. capacity \in 0..Chunk /\ pos \in 0..fileSize /\ sendSizeLeft \in 0..UlongSize - 1
    BY <1>0, Zenon DEF TypeInv, TypeOK
  <2>2. fileSize \in Nat /\ Chunk \in Nat /\ UlongSize \in Nat
    BY <1>0, RequestIs, SizesAre DEF TypeInv, fileSize
  <2> QED BY <2>1, <2>2
<1>2. /\ ~failed /\ contentLength = size /\ room = Least(size, Chunk) /\ left > 0 /\ at + left = size
      /\ sent = Interval(0, at - 1)
  BY <1>0, <1>1 DEF TransferInv, Copying
<1>3. PICK n \in Nat : n = Least(room, size - at) /\ n > 0 /\ n <= left /\ (at + room >= size => n = left)
  <2>1. room > 0
    BY <1>1, <1>2, SizesAre DEF Least
  <2>2. PICK n \in Nat : n = Least(room, left) /\ n > 0
    BY <1>2, <2>1 DEF Least
  <2>3. n <= left /\ (room >= left => n = left)
    BY <2>2 DEF Least
  <2>4. size - at = left /\ (at + room >= size <=> room >= left)
    BY <1>2
  <2> QED BY <2>2, <2>3, <2>4
<1>4. \/ /\ pos' = at + n /\ sent' = sent \o Interval(at, (at + n) - 1)
         /\ sendSizeLeft' = left - n /\ failed' = failed
         /\ pc' = IF left = n THEN "done" ELSE "copy"
      \/ request.mayFail /\ pc' = "done" /\ failed' = TRUE /\ sent' = sent
  <2>1. ReadAndSend(room, "copy", "done") /\ n = Least(room, fileSize - pos) /\ n <= sendSizeLeft
        /\ (pos + room >= fileSize => n = sendSizeLeft)
    BY <1>0, <1>1, <1>3
  <2> QED BY <1>0, <1>1, <1>3, <2>1, Turn
<1>5. Expected' = Interval(0, size - 1) /\ fileSize' = size /\ contentLength' = size /\ capacity' = room
      /\ status' = 200
  BY <1>0, <1>1, <1>2 DEF Expected, fileSize, headers
<1>6. /\ Interval(0, at - 1) \in Seq(Int) /\ IsPrefix(Interval(0, at - 1), Interval(0, size - 1))
      /\ Interval(0, at - 1) \o Interval(at, (at + n) - 1) = Interval(0, (at + n) - 1)
      /\ Interval(0, size - 1) \in Seq(Int) /\ Len(Interval(0, size - 1)) = size
  <2>1. at <= size /\ size <= size
    BY <1>2
  <2> QED BY <1>3, <2>1, FileBegins
<1>7. CASE /\ pos' = at + n /\ sent' = sent \o Interval(at, (at + n) - 1)
           /\ sendSizeLeft' = left - n /\ failed' = failed
           /\ pc' = IF left = n THEN "done" ELSE "copy"
  <2>1. sent' = Interval(0, (at + n) - 1)
    BY <1>2, <1>6, <1>7
  <2>2. CASE left = n
    <3>1. (at + n) - 1 = size - 1
      BY <1>2, <2>2
    <3>2. IsPrefix(sent', Expected') /\ Len(sent') = contentLength'
      BY <1>5, <1>6, <2>1, <3>1, PrefixSelf
    <3> QED BY <1>7, <2>2, <3>2 DEF NotBegun, Copying, BetweenRanges, InRange, Over, PrefixOfExpected, LengthAsAnnounced
  <2>3. CASE left # n
    <3>1. ~failed'
      BY <1>2, <1>7, Zenon
    <3>2. pc' = "copy" /\ sendSizeLeft' > 0 /\ pos' + sendSizeLeft' = size /\ size > 0
      <4>1. left - n > 0 /\ (at + n) + (left - n) = size /\ size > 0
        BY <1>2, <1>3, <2>3
      <4> QED BY <1>7, <2>3, <4>1
    <3>3. Copying'
      BY <1>2, <1>5, <1>7, <2>1, <3>1, <3>2 DEF Copying
    <3> QED BY <3>2, <3>3 DEF NotBegun, BetweenRanges, InRange, Over
  <2> QED BY <2>2, <2>3
<1>8. CASE request.mayFail /\ pc' = "done" /\ failed' = TRUE /\ sent' = sent
  <2>1. IsPrefix(sent', Expected')
    BY <1>2, <1>5, <1>6, <1>8
  <2> QED BY <1>8, <2>1 DEF NotBegun, Copying, BetweenRanges, InRange, Over, PrefixOfExpected, LengthAsAnnounced
<1> QED BY <1>4, <1>7, <1>8

LEMMA TransferStep ==
    ASSUME TransferInv, Transferable(request), [Next]_vars
    PROVE  TransferInv'
<1>1. TypeInv' /\ Announced'
  BY TypesStep, AnnouncedStep DEF TransferInv
<1>2. NotBegun' /\ Copying' /\ BetweenRanges' /\ InRange' /\ Over'
  <2>1. CASE BeginRange
    <3>1. capacity' \in 0..Chunk
      BY <1>1, Zenon DEF TypeInv, TypeOK
    <3> QED BY <2>1, <3>1, StepBeginRange
  <2>2. CASE UNCHANGED vars
    <3>1. UNCHANGED <<pc, request, status, contentLength, contentRange, ranges, capacity, pos, sendSizeLeft, sent, failed>>
      BY <2>2 DEF vars, headers, transfer
    <3>2. NotBegun' /\ Copying' /\ Over'
      BY <3>1 DEF TransferInv, NotBegun, Copying, Over, PrefixOfExpected, LengthAsAnnounced, Expected, fileSize
    <3>3. BetweenRanges' /\ InRange'
      BY <3>1 DEF TransferInv, BetweenRanges, InRange, RangesInOrder, RoomOfOne, Begun, BytesOf, RestOf, Expected, fileSize
    <3> QED BY <3>2, <3>3
  <2> QED BY <2>1, <2>2, StepHeaders, StepPartialHeaders, StepSendRange, StepCopy DEF Next
<1> QED BY <1>1, <1>2 DEF TransferInv

(* While it is under way, what has been sent is the beginning of what was  *)
(* asked for.                                                              *)
LEMMA SentSoFar ==
    ASSUME TransferInv, Transferable(request)
    PROVE  PrefixOfExpected
<1>0. TypeInv /\ Announced /\ Announceable(request)
  BY DEF TransferInv, Transferable
<1>1. CASE pc \in {"begin", "partial"}
  <2>1. sent = <<>> /\ Expected = <<>>
    BY <1>0, <1>1 DEF TypeInv, Expected, None
  <2>2. <<>> \in Seq(Int)
    BY EmptySeq
  <2> QED BY <2>1, <2>2, PrefixSelf DEF PrefixOfExpected
<1>2. CASE pc = "ranges"
  <2>1. status = 206
    BY <1>0, <1>2 DEF TypeInv
  <2>2. \A n \in 0..Len(Found(request)) : IsPrefix(BytesOf(n), Expected)
    BY <1>0, <2>1, BytesOfRanges
  <2> QED BY <1>2, <2>2 DEF TransferInv, BetweenRanges, RangesInOrder, PrefixOfExpected
<1>3. CASE pc = "range"
  BY <1>0, <1>3, SentOfRange DEF PrefixOfExpected
<1>4. CASE pc = "copy"
  <2>1. PICK at \in Nat, size \in Nat : at = pos /\ size = fileSize /\ at <= size
    <3>1. pos \in 0..fileSize
      BY <1>0, Zenon DEF TypeInv, TypeOK
    <3>2. fileSize \in Nat
      BY <1>0, RequestIs, SizesAre DEF TypeInv, fileSize
    <3> QED BY <3>1, <3>2
  <2>2. sent = Interval(0, at - 1) /\ Expected = Interval(0, size - 1)
    BY <1>0, <1>4, <2>1 DEF TransferInv, Copying, TypeInv, Expected
  <2>3. IsPrefix(Interval(0, at - 1), Interval(0, size - 1))
    BY <2>1, FileBegins
  <2> QED BY <2>2, <2>3 DEF PrefixOfExpected
<1>5. CASE pc = "done"
  BY <1>5 DEF TransferInv, Over
<1>6. pc \in {"begin", "partial", "ranges", "range", "copy", "done"}
  BY <1>0, Zenon DEF TypeInv, TypeOK
<1> QED BY <1>1, <1>2, <1>3, <1>4, <1>5, <1>6

(* What is sent of a file is at any time the beginning of what was asked   *)
(* for, and the room of the buffer never beyond a chunk: for the requests  *)
(* that the program can satisfy.  Those that it cannot are those whose     *)
(* content-range header is wrong already, a range that ends before the     *)
(* file does with a piece shorter than the buffer, which is read with all  *)
(* of the room, and one that could not be sent with another behind it,     *)
(* which is sent all the same.                                             *)
THEOREM OnlyWhatWasAsked == (\A q \in Requests : Transferable(q)) => (Spec => []FileInv)
<1> SUFFICES ASSUME \A q \in Requests : Transferable(q) PROVE Spec => []FileInv
  OBVIOUS
<1>1. Init => TransferInv /\ BodyOnlyForGet
  BY TransferInit DEF Init, BodyOnlyForGet
<1>2. TransferInv /\ BodyOnlyForGet /\ [Next]_vars => (TransferInv /\ BodyOnlyForGet)'
  <2>1. TransferInv => TypeInv /\ Transferable(request)
    BY DEF TransferInv, TypeInv
  <2> QED BY <2>1, TransferStep, BodyStep
<1>3. TransferInv /\ BodyOnlyForGet => FileInv
  <2>1. TransferInv => TypeOK /\ Transferable(request)
    BY DEF TransferInv, TypeInv
  <2> QED BY <2>1, SentSoFar DEF FileInv
<1> QED BY <1>1, <1>2, <1>3, PTL DEF Spec

(* As many bytes are sent as the content-length header has announced, for  *)
(* the same requests, unless a send has failed.                            *)
THEOREM AllThatWasAnnounced == (\A q \in Requests : Transferable(q)) => (Spec => []LengthAsAnnounced)
<1> SUFFICES ASSUME \A q \in Requests : Transferable(q) PROVE Spec => []LengthAsAnnounced
  OBVIOUS
<1>1. TransferInv /\ [Next]_vars => TransferInv'
  <2>1. TransferInv => Transferable(request)
    BY DEF TransferInv, TypeInv
  <2> QED BY <2>1, TransferStep
<1>2. TransferInv => LengthAsAnnounced
  BY DEF TransferInv, Over, LengthAsAnnounced
<1> QED BY <1>1, <1>2, TransferInit, PTL DEF Spec
=============================================================================
