------------------------------ MODULE Http_proof ------------------------------
(***************************************************************************)
(* Proofs about HttpConnection and about ContentParsing, the loops that    *)
(* take apart what a connection has received.                              *)
(***************************************************************************)
EXTENDS HttpConnection, ContentParsing, TLAPS, WellFoundedInduction, SequenceTheorems, FiniteSetTheorems

-----------------------------------------------------------------------------
(* Induction over the numbers up to a bound.  The induction theorems of    *)
(* the library take an operator; this form takes the set of the numbers of *)
(* which the claim holds, and follows from the order being well-founded.   *)

LEMMA LeastNumber ==
    ASSUME NEW T, T \subseteq Nat, T # {}
    PROVE  \E x \in T : \A y \in T : ~(y < x)
<1> DEFINE Less == OpToRel(<, Nat)
<1>1. IsWellFoundedOn(Less, Nat)
  BY NatLessThanWellFounded
<1>2. \E x \in T : \A y \in T : ~(<<y, x>> \in Less)
  <2> HIDE DEF Less
  <2> QED BY <1>1, WFMin
<1>3. ASSUME NEW x \in T, NEW y \in T
      PROVE  <<y, x>> \in Less <=> y < x
  BY DEF OpToRel
<1> HIDE DEF Less
<1> QED BY <1>2, <1>3

LEMMA UpTo ==
    ASSUME NEW N \in Nat, NEW S, 0 \in S, \A n \in 0..N - 1 : n \in S => n + 1 \in S
    PROVE  \A n \in 0..N : n \in S
<1> DEFINE T == (0..N) \ S
<1> SUFFICES ASSUME T # {} PROVE FALSE
  OBVIOUS
<1>1. PICK x \in T : \A y \in T : ~(y < x)
  <2>1. T \subseteq Nat
    OBVIOUS
  <2> QED BY <2>1, LeastNumber
<1>2. x # 0 /\ x - 1 \in 0..N - 1
  OBVIOUS
<1>3. x - 1 \in S
  BY <1>1, <1>2
<1> QED BY <1>2, <1>3

-----------------------------------------------------------------------------
(* The stream of a script.                                                 *)

Requests == [body : Nat, type : {"none", "form", "json", "other"},
             host : {"known", "unknown"}, connection : SUBSET {"keep-alive", "upgrade"}]

Parts(s) == [req : 1..Len(s), part : {"line", "blank", "body"}]

(* What the first n requests add to the stream.                            *)
PrefixesOf(s) ==
    CHOOSE f : f = [n \in 0..Len(s) |-> IF n = 0 THEN <<>> ELSE f[n - 1] \o Units(n, s[n])]

LEMMA PrefixesExist ==
    ASSUME NEW s \in Seq(Requests)
    PROVE  PrefixesOf(s) = [n \in 0..Len(s) |-> IF n = 0 THEN <<>> ELSE PrefixesOf(s)[n - 1] \o Units(n, s[n])]
<1> DEFINE Good(m, f) == f = [n \in 0..m |-> IF n = 0 THEN <<>> ELSE f[n - 1] \o Units(n, s[n])]
           S == {m \in Nat : \E f : Good(m, f)}
<1>1. 0 \in S
  <2>1. Good(0, [n \in 0..0 |-> <<>>])
    OBVIOUS
  <2> QED BY <2>1
<1>2. ASSUME NEW m \in 0..Len(s) - 1, m \in S
      PROVE  m + 1 \in S
  <2>1. PICK f : Good(m, f)
    BY <1>2
  <2> DEFINE g == [n \in 0..m + 1 |-> IF n = m + 1 THEN f[m] \o Units(m + 1, s[m + 1]) ELSE f[n]]
  <2>2. m \in Nat /\ m + 1 \in Nat
    OBVIOUS
  <2>3. ASSUME NEW n \in 0..m + 1
        PROVE  g[n] = IF n = 0 THEN <<>> ELSE g[n - 1] \o Units(n, s[n])
    <3>1. CASE n = m + 1
      <4>1. g[n] = f[m] \o Units(m + 1, s[m + 1])
        BY <3>1
      <4>2. g[n - 1] = f[m] /\ n # 0
        BY <3>1, <2>2
      <4> HIDE DEF g
      <4> QED BY <4>1, <4>2, <3>1
    <3>2. CASE n = 0
      <4>1. g[0] = f[0] /\ f[0] = <<>>
        BY <2>1, <2>2
      <4> HIDE DEF g
      <4> QED BY <4>1, <3>2
    <3>3. CASE n \in 1..m
      <4>1. n \in 0..m /\ n - 1 \in 0..m + 1 /\ n # 0 /\ n # m + 1 /\ n - 1 # m + 1
        BY <3>3, <2>2
      <4>2. g[n] = f[n] /\ g[n - 1] = f[n - 1]
        BY <4>1
      <4>3. f[n] = f[n - 1] \o Units(n, s[n])
        BY <2>1, <4>1
      <4> HIDE DEF g
      <4> QED BY <4>1, <4>2, <4>3
    <3> QED BY <3>1, <3>2, <3>3, <2>2
  <2>4. Good(m + 1, g)
    <3>1. g = [n \in 0..m + 1 |-> g[n]]
      OBVIOUS
    <3> HIDE DEF g
    <3> QED BY <2>3, <3>1
  <2> QED BY <2>2, <2>4
<1>3. Len(s) \in Nat
  OBVIOUS
<1>4. Len(s) \in S
  <2>1. \A n \in 0..Len(s) - 1 : n \in S => n + 1 \in S
    BY <1>2
  <2> HIDE DEF S
  <2>2. \A n \in 0..Len(s) : n \in S
    BY <1>1, <2>1, <1>3, UpTo
  <2> QED BY <2>2, <1>3
<1>5. \E f : Good(Len(s), f)
  BY <1>4
<1> QED BY <1>5 DEF PrefixesOf

LEMMA StreamIs ==
    ASSUME NEW s \in Seq(Requests)
    PROVE  Stream(s) = PrefixesOf(s)[Len(s)]
BY DEF Stream, PrefixesOf

(* Where the units of request i begin, counted from 0.                     *)
Start(s, i) == Len(PrefixesOf(s)[i - 1])

LEMMA UnitsOf ==
    ASSUME NEW s \in Seq(Requests), NEW i \in 1..Len(s), NEW r \in Requests
    PROVE  /\ Units(i, r) \in Seq(Parts(s))
           /\ Len(Units(i, r)) = r.body + 2
           /\ Units(i, r)[1] = Head1(i) /\ Units(i, r)[2] = Head2(i)
           /\ \A k \in 1..r.body : Units(i, r)[k + 2] = [req |-> i, part |-> "body"]
<1> DEFINE P == Parts(s)
           B == Body(i, r.body)
           b == [req |-> i, part |-> "body"]
<1>1. r.body \in Nat
  BY DEF Requests
<1>2. Head1(i) \in P /\ Head2(i) \in P /\ b \in P
  BY DEF Parts, Head1, Head2
<1>3. B = [k \in 1..r.body |-> b]
  BY DEF Body
<1> HIDE DEF P, B, b
<1>4. B \in Seq(P) /\ Len(B) = r.body /\ \A k \in 1..r.body : B[k] = b
  BY <1>1, <1>2, <1>3
<1>5. Units(i, r) = <<Head1(i), Head2(i)>> \o B
  BY DEF Units, B
<1>6. /\ Units(i, r) \in Seq(P) /\ Len(Units(i, r)) = r.body + 2
      /\ Units(i, r)[1] = Head1(i) /\ Units(i, r)[2] = Head2(i)
      /\ \A k \in 1..r.body : Units(i, r)[k + 2] = b
  BY <1>1, <1>2, <1>4, <1>5
<1> QED BY <1>6 DEF P, b

LEMMA PrefixStep ==
    ASSUME NEW s \in Seq(Requests)
    PROVE  /\ PrefixesOf(s)[0] = <<>>
           /\ \A n \in 1..Len(s) : PrefixesOf(s)[n] = PrefixesOf(s)[n - 1] \o Units(n, s[n])
           /\ \A n \in 0..Len(s) - 1 : PrefixesOf(s)[n + 1] = PrefixesOf(s)[n] \o Units(n + 1, s[n + 1])
<1> DEFINE F == PrefixesOf(s)
<1>1. F = [n \in 0..Len(s) |-> IF n = 0 THEN <<>> ELSE F[n - 1] \o Units(n, s[n])]
  BY PrefixesExist
<1> HIDE DEF F
<1>2. F[0] = <<>>
  BY <1>1
<1>3. ASSUME NEW n \in 1..Len(s)
      PROVE  F[n] = F[n - 1] \o Units(n, s[n])
  BY <1>1
<1>4. ASSUME NEW n \in 0..Len(s) - 1
      PROVE  F[n + 1] = F[n] \o Units(n + 1, s[n + 1])
  <2>1. PICK k \in 1..Len(s) : k = n + 1
    OBVIOUS
  <2>2. k - 1 = n
    BY <2>1
  <2> QED BY <2>1, <2>2, <1>3
<1> QED BY <1>2, <1>3, <1>4 DEF F

LEMMA PrefixTypes ==
    ASSUME NEW s \in Seq(Requests)
    PROVE  \A n \in 0..Len(s) : PrefixesOf(s)[n] \in Seq(Parts(s))
<1> DEFINE S == {n \in Nat : PrefixesOf(s)[n] \in Seq(Parts(s))}
<1>1. 0 \in S
  BY PrefixStep, EmptySeq
<1>2. ASSUME NEW n \in 0..Len(s) - 1, n \in S
      PROVE  n + 1 \in S
  <2>1. n + 1 \in 1..Len(s) /\ n + 1 \in Nat /\ n + 1 - 1 = n
    OBVIOUS
  <2>2. PrefixesOf(s)[n + 1] = PrefixesOf(s)[n] \o Units(n + 1, s[n + 1])
    BY PrefixStep
  <2>3. Units(n + 1, s[n + 1]) \in Seq(Parts(s))
    <3>1. s[n + 1] \in Requests
      BY <2>1
    <3> QED BY <2>1, <3>1, UnitsOf
  <2> QED BY <1>2, <2>1, <2>2, <2>3, ConcatProperties
<1>3. \A n \in 0..Len(s) : n \in S
  <2>1. \A n \in 0..Len(s) - 1 : n \in S => n + 1 \in S
    BY <1>2
  <2>2. Len(s) \in Nat
    OBVIOUS
  <2> HIDE DEF S
  <2> QED BY <1>1, <2>1, <2>2, UpTo
<1> QED BY <1>3

(* What the first n requests have put into the stream stays.               *)
LEMMA PrefixStays ==
    ASSUME NEW s \in Seq(Requests), NEW n \in 0..Len(s)
    PROVE  /\ Len(PrefixesOf(s)[n]) <= Len(Stream(s))
           /\ \A k \in 1..Len(PrefixesOf(s)[n]) : Stream(s)[k] = PrefixesOf(s)[n][k]
<1> DEFINE F == PrefixesOf(s)
           Stays(m) == /\ Len(F[n]) <= Len(F[m])
                       /\ \A k \in 1..Len(F[n]) : F[m][k] = F[n][k]
           S == {d \in Nat : Stays(n + d)}
<1>0. Len(s) \in Nat /\ n \in Nat /\ F[n] \in Seq(Parts(s))
  BY PrefixTypes
<1>1. 0 \in S
  <2>1. n + 0 = n
    BY <1>0
  <2> HIDE DEF F
  <2> QED BY <1>0, <2>1
<1>2. ASSUME NEW d \in 0..(Len(s) - n) - 1, d \in S
      PROVE  d + 1 \in S
  <2> DEFINE m == n + d
  <2>1. m \in 0..Len(s) - 1 /\ m + 1 \in 1..Len(s) /\ m + 1 - 1 = m /\ n + (d + 1) = m + 1 /\ d + 1 \in Nat
    BY <1>0
  <2>2. F[m + 1] = F[m] \o Units(m + 1, s[m + 1])
    BY <2>1, PrefixStep
  <2>3. F[m] \in Seq(Parts(s)) /\ Units(m + 1, s[m + 1]) \in Seq(Parts(s))
    <3>1. m \in 0..Len(s) /\ m + 1 \in 1..Len(s)
      BY <2>1, <1>0
    <3>2. s[m + 1] \in Requests
      BY <2>1
    <3> HIDE DEF m
    <3> QED BY <3>1, <3>2, UnitsOf, PrefixTypes
  <2>4. Stays(m)
    BY <1>2
  <2> HIDE DEF F, m
  <2> DEFINE U == Units(m + 1, s[m + 1])
             G == F[m]
  <2>5. F[m + 1] = G \o U /\ G \in Seq(Parts(s)) /\ U \in Seq(Parts(s))
    BY <2>2, <2>3
  <2> HIDE DEF U, G
  <2>8. /\ Len(F[m + 1]) = Len(G) + Len(U)
        /\ \A k \in 1..Len(G) + Len(U) : F[m + 1][k] = IF k <= Len(G) THEN G[k] ELSE U[k - Len(G)]
    BY <2>5, ConcatProperties
  <2>6. Len(F[n]) \in Nat /\ Len(G) \in Nat /\ Len(U) \in Nat
    BY <1>0, <2>5, LenProperties
  <2>7. Stays(m + 1)
    <3> DEFINE A == F[n]
               B == F[m + 1]
    <3>1. Len(A) <= Len(G) /\ \A k \in 1..Len(A) : G[k] = A[k]
      BY <2>4 DEF G
    <3>2. Len(A) \in Nat
      BY <2>6
    <3>3. /\ Len(B) = Len(G) + Len(U)
          /\ \A k \in 1..Len(G) + Len(U) : B[k] = IF k <= Len(G) THEN G[k] ELSE U[k - Len(G)]
      BY <2>8
    <3> HIDE DEF A, B
    <3>4. Len(A) <= Len(B) /\ \A k \in 1..Len(A) : B[k] = A[k]
      BY <3>1, <3>2, <3>3, <2>6
    <3> QED BY <3>4 DEF A, B
  <2> QED BY <2>1, <2>7
<1>3. Len(s) - n \in S
  <2>1. Len(s) - n \in Nat
    BY <1>0
  <2>2. \A d \in 0..(Len(s) - n) - 1 : d \in S => d + 1 \in S
    BY <1>2
  <2> HIDE DEF S
  <2>3. \A d \in 0..Len(s) - n : d \in S
    BY <1>1, <2>1, <2>2, UpTo
  <2> QED BY <2>1, <2>3
<1>4. Stays(Len(s))
  BY <1>3, <1>0
<1> QED BY <1>4, StreamIs

(* Where the units of a request are in the stream.                         *)
LEMMA StreamOf ==
    ASSUME NEW s \in Seq(Requests)
    PROVE  /\ Stream(s) \in Seq(Parts(s))
           /\ Start(s, 1) = 0 /\ Start(s, Len(s) + 1) = Len(Stream(s))
           /\ \A i \in 1..Len(s) :
                 /\ Start(s, i) \in Nat /\ Start(s, i + 1) = Start(s, i) + s[i].body + 2
                 /\ Start(s, i + 1) <= Len(Stream(s))
                 /\ Stream(s)[Start(s, i) + 1] = Head1(i)
                 /\ Stream(s)[Start(s, i) + 2] = Head2(i)
                 /\ \A k \in 1..s[i].body :
                       Stream(s)[Start(s, i) + 2 + k] = [req |-> i, part |-> "body"]
<1> DEFINE F == PrefixesOf(s)
<1>0. Len(s) \in Nat
  OBVIOUS
<1>1. Stream(s) \in Seq(Parts(s))
  BY <1>0, StreamIs, PrefixTypes
<1>2. Start(s, 1) = 0 /\ Start(s, Len(s) + 1) = Len(Stream(s))
  <2>1. 1 - 1 = 0 /\ Len(s) + 1 - 1 = Len(s)
    BY <1>0
  <2>2. Len(F[0]) = 0
    BY PrefixStep, EmptySeq
  <2>3. Start(s, 1) = 0
    BY <2>1, <2>2 DEF Start
  <2>4. Start(s, Len(s) + 1) = Len(Stream(s))
    BY <2>1, StreamIs DEF Start
  <2> QED BY <2>3, <2>4
<1>3. ASSUME NEW i \in 1..Len(s)
      PROVE  /\ Start(s, i) \in Nat /\ Start(s, i + 1) = Start(s, i) + s[i].body + 2
             /\ Start(s, i + 1) <= Len(Stream(s))
             /\ Stream(s)[Start(s, i) + 1] = Head1(i)
             /\ Stream(s)[Start(s, i) + 2] = Head2(i)
             /\ \A k \in 1..s[i].body :
                   Stream(s)[Start(s, i) + 2 + k] = [req |-> i, part |-> "body"]
  <2> DEFINE U == Units(i, s[i])
  <2>1. i \in Nat /\ i - 1 \in 0..Len(s) /\ i \in 0..Len(s) /\ i + 1 - 1 = i /\ s[i] \in Requests
    OBVIOUS
  <2>2. F[i] = F[i - 1] \o U
    BY PrefixStep
  <2>3. F[i - 1] \in Seq(Parts(s))
    BY <2>1, PrefixTypes
  <2>4. /\ U \in Seq(Parts(s)) /\ Len(U) = s[i].body + 2
        /\ U[1] = Head1(i) /\ U[2] = Head2(i)
        /\ \A k \in 1..s[i].body : U[k + 2] = [req |-> i, part |-> "body"]
    BY <2>1, UnitsOf
  <2>5. /\ Len(F[i]) <= Len(Stream(s))
        /\ \A k \in 1..Len(F[i]) : Stream(s)[k] = F[i][k]
    BY <2>1, PrefixStays
  <2>6. s[i].body \in Nat
    BY <2>1 DEF Requests
  <2>7. Start(s, i) = Len(F[i - 1]) /\ Start(s, i + 1) = Len(F[i])
    BY <2>1 DEF Start
  <2> HIDE DEF F, U
  <2>8. /\ Len(F[i]) = Len(F[i - 1]) + s[i].body + 2
        /\ \A k \in 1..s[i].body + 2 : F[i][Len(F[i - 1]) + k] = U[k]
    <3> DEFINE L == Len(F[i - 1])
    <3>1. /\ Len(F[i]) = L + Len(U)
          /\ \A k \in 1..L + Len(U) : F[i][k] = IF k <= L THEN F[i - 1][k] ELSE U[k - L]
      <4>1. U \in Seq(Parts(s))
        BY <2>4
      <4>2. /\ Len(F[i - 1] \o U) = L + Len(U)
            /\ \A k \in 1..L + Len(U) : (F[i - 1] \o U)[k] = IF k <= L THEN F[i - 1][k] ELSE U[k - L]
        BY <2>3, <4>1, ConcatProperties, Zenon
      <4> QED BY <2>2, <4>2, Zenon
    <3>2. L \in Nat
      BY <2>3, LenProperties
    <3> HIDE DEF L
    <3>3. Len(F[i]) = L + s[i].body + 2
      BY <3>1, <3>2, <2>4, <2>6
    <3>4. ASSUME NEW k \in 1..s[i].body + 2
          PROVE  F[i][L + k] = U[k]
      <4>1. L + k \in 1..L + Len(U) /\ ~(L + k <= L) /\ L + k - L = k
        BY <3>2, <2>4, <2>6
      <4>2. PICK j \in 1..L + Len(U) : j = L + k
        BY <4>1
      <4>3. F[i][j] = U[j - L]
        BY <3>1, <4>1, <4>2
      <4>4. j - L = k
        BY <3>2, <2>6, <4>2
      <4> QED BY <4>2, <4>3, <4>4, Zenon
    <3> QED BY <3>3, <3>4 DEF L
  <2>9. \A k \in 1..s[i].body + 2 : Stream(s)[Len(F[i - 1]) + k] = U[k]
    <3> DEFINE L == Len(F[i - 1])
    <3>1. L \in Nat
      BY <2>3, LenProperties
    <3> HIDE DEF L
    <3>2. ASSUME NEW k \in 1..s[i].body + 2
          PROVE  Stream(s)[L + k] = U[k]
      <4>1. L + k \in 1..Len(F[i])
        BY <3>1, <2>6, <2>8 DEF L
      <4> QED BY <4>1, <2>5, <2>8 DEF L
    <3> QED BY <3>2 DEF L
  <2>10. Start(s, i) \in Nat /\ Start(s, i + 1) = Start(s, i) + s[i].body + 2 /\ Start(s, i + 1) <= Len(Stream(s))
    BY <2>3, <2>5, <2>7, <2>8, LenProperties
  <2>11. 1 \in 1..s[i].body + 2 /\ 2 \in 1..s[i].body + 2
    BY <2>6
  <2>12. ASSUME NEW k \in 1..s[i].body
         PROVE  Stream(s)[Start(s, i) + 2 + k] = [req |-> i, part |-> "body"]
    <3>1. k + 2 \in 1..s[i].body + 2 /\ Start(s, i) + 2 + k = Start(s, i) + (k + 2)
      BY <2>6, <2>10
    <3> QED BY <3>1, <2>4, <2>7, <2>9
  <2> QED BY <2>4, <2>7, <2>9, <2>10, <2>11, <2>12
<1> QED BY <1>1, <1>2, <1>3

-----------------------------------------------------------------------------
(* Packets: a sequence is cut into what comes first and what comes later.  *)

LEMMA AheadBehind ==
    ASSUME NEW S, NEW s \in Seq(S), NEW n \in 0..Len(s)
    PROVE  /\ Ahead(s, n) \in Seq(S) /\ Len(Ahead(s, n)) = n
           /\ \A k \in 1..n : Ahead(s, n)[k] = s[k]
           /\ Behind(s, n) \in Seq(S) /\ Len(Behind(s, n)) = Len(s) - n
           /\ \A k \in 1..Len(s) - n : Behind(s, n)[k] = s[n + k]
<1>1. Len(s) \in Nat /\ \A k \in 1..Len(s) : s[k] \in S
  BY LenProperties, ElementOfSeq
<1>2. Ahead(s, n) \in Seq(S) /\ Len(Ahead(s, n)) = n /\ \A k \in 1..n : Ahead(s, n)[k] = s[k]
  <2>1. \A k \in 1..n : s[k] \in S
    BY <1>1
  <2>2. /\ SubSeq(s, 1, n) \in Seq(S) /\ Len(SubSeq(s, 1, n)) = IF 1 <= n THEN n - 1 + 1 ELSE 0
        /\ \A k \in 1..n - 1 + 1 : SubSeq(s, 1, n)[k] = s[1 + k - 1]
    BY <2>1, SubSeqProperties
  <2>3. \A k \in 1..n : k \in 1..n - 1 + 1 /\ 1 + k - 1 = k
    OBVIOUS
  <2> QED BY <2>2, <2>3 DEF Ahead
<1>3. Behind(s, n) \in Seq(S) /\ Len(Behind(s, n)) = Len(s) - n
  <2>1. \A k \in n + 1..Len(s) : s[k] \in S
    BY <1>1
  <2>2. /\ SubSeq(s, n + 1, Len(s)) \in Seq(S)
        /\ Len(SubSeq(s, n + 1, Len(s))) = IF n + 1 <= Len(s) THEN Len(s) - (n + 1) + 1 ELSE 0
    BY <1>1, <2>1, SubSeqProperties
  <2> QED BY <1>1, <2>2 DEF Behind
<1>4. ASSUME NEW k \in 1..Len(s) - n
      PROVE  Behind(s, n)[k] = s[n + k]
  <2>1. \A j \in n + 1..Len(s) : s[j] \in S
    BY <1>1
  <2>2. \A j \in 1..Len(s) - (n + 1) + 1 : SubSeq(s, n + 1, Len(s))[j] = s[n + 1 + j - 1]
    BY <1>1, <2>1, SubSeqProperties
  <2>3. k \in 1..Len(s) - (n + 1) + 1 /\ n + 1 + k - 1 = n + k
    BY <1>1
  <2>4. SubSeq(s, n + 1, Len(s))[k] = s[n + 1 + k - 1]
    BY <2>2, <2>3
  <2> QED BY <2>3, <2>4 DEF Behind
<1> QED BY <1>2, <1>3, <1>4

(* GetRequestHeaders finds the first end of a head.                        *)
LEMMA FirstEnd ==
    ASSUME NEW S, buffer \in Seq(S), Ends # {}
    PROVE  /\ HeadersEnd \in 1..Len(buffer) /\ buffer[HeadersEnd].part = "blank"
           /\ \A m \in 1..Len(buffer) : buffer[m].part = "blank" => HeadersEnd <= m
<1>1. Len(buffer) \in Nat
  BY LenProperties
<1>2. Ends \subseteq Nat
  BY <1>1 DEF Ends
<1>3. PICK x \in Ends : \A y \in Ends : ~(y < x)
  BY <1>2, LeastNumber
<1>4. \E n \in Ends : \A m \in Ends : n <= m
  BY <1>2, <1>3
<1>5. HeadersEnd \in Ends /\ \A m \in Ends : HeadersEnd <= m
  BY <1>4 DEF HeadersEnd
<1> QED BY <1>5 DEF Ends

-----------------------------------------------------------------------------
(* The types.                                                              *)

Reading == {"connect", "receive", "headers", "lookup", "data", "content", "run"}
Leaving == {"loop", "close", "done"}
InRequest == {"lookup", "data", "content", "run"}

Runs(s) == [req : 1..Len(s), clean : BOOLEAN, parsed : Seq(Parts(s)), incoming : {<<>>},
            kept : BOOLEAN, max : Int, told : BOOLEAN]

Refusals == [status : Nat, after : Nat, had : Nat, left : Nat]

(* A connection is kept by its last answer only, while requests are left.  *)
KeepInv ==
    /\ pc \in Reading \cup Leaving
    /\ params \subseteq {"Reuse", "LeaveOpen"}
    /\ pc \in Reading => params = {}
    /\ "Reuse" \in params => pc = "loop"
    /\ keepAlive \in 0..KeepAlive
    /\ pc \in Reading \/ "Reuse" \in params => keepAlive > 0

SocketTypes == protocol \in {"none", "http", "websocket"} /\ socket \in {"open", "closed"} /\ secure \in BOOLEAN

StreamTypes ==
    /\ script \in Scripts
    /\ buffer \in Seq(Parts(script)) /\ rest \in Seq(Parts(script)) /\ content \in Seq(Parts(script))

RequestTypes ==
    /\ pc \in InRequest => cur.req \in 1..Len(script) /\ cur.clean \in BOOLEAN
    /\ pc = "content" => received \in 0..Of(cur).body

HistoryTypes == served \in Seq(Runs(script)) /\ errors \in Seq(Refusals)

TypeInv == KeepInv /\ SocketTypes /\ StreamTypes /\ RequestTypes /\ HistoryTypes

LEMMA TypesImplied == TypeInv => TypeOK
<1>1. TypeInv => pc \in {"connect", "receive", "headers", "lookup", "data", "content", "run", "loop", "close", "done"}
  BY DEF TypeInv, KeepInv, Reading, Leaving
<1> QED BY <1>1 DEF TypeInv, KeepInv, SocketTypes, RequestTypes, TypeOK

LEMMA ScriptsAre == \A s \in Scripts : s \in Seq(Requests)
BY HttpAssumption DEF Requests

LEMMA TypesInit == Init => TypeInv
<1> SUFFICES ASSUME Init PROVE TypeInv
  OBVIOUS
<1> USE DEF Init
<1>1. KeepInv
  BY HttpAssumption DEF KeepInv, Reading, Leaving
<1>2. SocketTypes
  BY DEF SocketTypes
<1>3. StreamTypes
  <2>1. script \in Seq(Requests)
    BY ScriptsAre
  <2>2. Stream(script) \in Seq(Parts(script))
    BY <2>1, StreamOf
  <2> QED BY <2>2, EmptySeq DEF StreamTypes
<1>4. RequestTypes
  BY DEF RequestTypes, InRequest
<1>5. HistoryTypes
  BY EmptySeq DEF HistoryTypes
<1> QED BY <1>1, <1>2, <1>3, <1>4, <1>5 DEF TypeInv

LEMMA KeepStep == KeepInv /\ Next => KeepInv'
<1> SUFFICES ASSUME KeepInv, Next PROVE KeepInv'
  OBVIOUS
<1> USE DEF KeepInv, Reading, Leaving, connection, request, history
<1>1. CASE CreateProto
  BY <1>1 DEF CreateProto
<1>2. CASE GetRequest
  BY <1>2 DEF GetRequest
<1>3. CASE GetRequestHeaders
  BY <1>3 DEF GetRequestHeaders, SendStatus
<1>4. CASE GetApplicationSettingsForRequest
  BY <1>4 DEF GetApplicationSettingsForRequest, SendStatus
<1>5. CASE GetRequestData
  BY <1>5 DEF GetRequestData, SendStatus
<1>6. CASE ParseRequestContentType
  BY <1>6 DEF ParseRequestContentType, ReadContent, SendStatus
<1>7. CASE RunApplication
  <2>1. PICK response \in Responses : GetConnectionParams(response)
    BY <1>7 DEF RunApplication
  <2>2. pc = "run" /\ pc' = "loop" /\ params = {} /\ keepAlive \in 1..KeepAlive
    BY <1>7 DEF RunApplication
  <2>3. CASE params' = params /\ keepAlive' = keepAlive
    BY <2>2, <2>3
  <2>4. CASE keepAlive' = keepAlive - 1 /\ params' = params \cup CheckRequestKeepAlive(keepAlive - 1)
    BY <2>2, <2>4, HttpAssumption DEF CheckRequestKeepAlive
  <2>5. CASE keepAlive' = keepAlive /\ params' = params \cup CheckRequestUpgrade(response.upgrade)
    <3>1. CheckRequestUpgrade(response.upgrade) \subseteq {"Reuse", "LeaveOpen"}
      BY DEF CheckRequestUpgrade
    <3> QED BY <2>2, <2>5, <3>1
  <2> QED BY <2>1, <2>3, <2>4, <2>5 DEF GetConnectionParams
<1>8. CASE NextTurn
  BY <1>8 DEF NextTurn
<1>9. CASE Close
  BY <1>9 DEF Close
<1> QED BY <1>1, <1>2, <1>3, <1>4, <1>5, <1>6, <1>7, <1>8, <1>9 DEF Next, RunProtocol

LEMMA SocketStep == SocketTypes /\ Next => SocketTypes'
<1> SUFFICES ASSUME SocketTypes, Next PROVE SocketTypes'
  OBVIOUS
<1> USE DEF SocketTypes, connection, request, history
<1>1. CASE CreateProto
  BY <1>1 DEF CreateProto
<1>2. CASE RunProtocol
  BY <1>2 DEF RunProtocol, GetRequest, GetRequestHeaders, GetApplicationSettingsForRequest, GetRequestData,
              ParseRequestContentType, RunApplication
<1>3. CASE NextTurn
  BY <1>3 DEF NextTurn
<1>4. CASE Close
  BY <1>4 DEF Close
<1> QED BY <1>1, <1>2, <1>3, <1>4 DEF Next

(* What of a body comes with the head, and what comes later.               *)
LEMMA BodyFits ==
    ASSUME TypeInv, pc \in InRequest
    PROVE  /\ Of(cur) \in Requests /\ Of(cur).body \in Nat
           /\ Least(Len(buffer), Of(cur).body) \in 0..Len(buffer)
           /\ Least(Len(buffer), Of(cur).body) \in 0..Of(cur).body
<1>1. script \in Seq(Requests) /\ cur.req \in 1..Len(script)
  BY ScriptsAre DEF TypeInv, StreamTypes, RequestTypes
<1>2. Of(cur) \in Requests
  BY <1>1 DEF Of
<1>3. Of(cur).body \in Nat
  BY <1>2 DEF Requests
<1>4. Len(buffer) \in Nat
  BY LenProperties DEF TypeInv, StreamTypes
<1> QED BY <1>2, <1>3, <1>4 DEF Least

LEMMA StreamStep == TypeInv /\ Next => StreamTypes'
<1> SUFFICES ASSUME TypeInv, Next PROVE StreamTypes'
  OBVIOUS
<1>0. script \in Scripts /\ buffer \in Seq(Parts(script)) /\ rest \in Seq(Parts(script)) /\ content \in Seq(Parts(script))
  BY DEF TypeInv, StreamTypes
<1> DEFINE P == Parts(script)
<1>1. /\ script' = script
      /\ buffer' \in Seq(P) /\ rest' \in Seq(P) /\ content' \in Seq(P)
  <2> USE DEF connection, request, history
  <2> HIDE DEF P
  <2>0. buffer \in Seq(P) /\ rest \in Seq(P) /\ content \in Seq(P) /\ Len(buffer) \in Nat /\ Len(rest) \in Nat
    BY <1>0, LenProperties DEF P
  <2>1. CASE GetRequest
    <3>1. CASE UNCHANGED <<buffer, rest>>
      BY <2>0, <2>1, <3>1 DEF GetRequest
    <3>2. ASSUME NEW n \in 1..Len(rest), buffer' = buffer \o Ahead(rest, n), rest' = Behind(rest, n)
          PROVE  buffer' \in Seq(P) /\ rest' \in Seq(P)
      <4>1. n \in 0..Len(rest)
        BY <2>0
      <4>2. Ahead(rest, n) \in Seq(P) /\ Behind(rest, n) \in Seq(P)
        BY <4>1, <2>0, AheadBehind
      <4> QED BY <2>0, <4>2, <3>2, ConcatProperties
    <3>3. script' = script /\ content' = content
      BY <2>1 DEF GetRequest
    <3> QED BY <2>0, <2>1, <3>1, <3>2, <3>3 DEF GetRequest
  <2>2. CASE GetRequestHeaders
    <3>1. CASE UNCHANGED buffer
      BY <2>0, <2>2, <3>1 DEF GetRequestHeaders
    <3>2. CASE Ends # {} /\ buffer' = Behind(buffer, HeadersEnd)
      <4>1. HeadersEnd \in 0..Len(buffer)
        BY <2>0, <3>2, FirstEnd
      <4> QED BY <2>0, <2>2, <3>2, <4>1, AheadBehind DEF GetRequestHeaders
    <3> QED BY <2>2, <3>1, <3>2 DEF GetRequestHeaders
  <2>3. CASE GetRequestData
    <3>1. script' = script /\ rest' = rest
      BY <2>3 DEF GetRequestData
    <3>2. CASE buffer' = buffer /\ content' = content
      BY <2>0, <3>1, <3>2
    <3>3. CASE buffer' = buffer /\ content' = <<>>
      BY <2>0, <3>1, <3>3, EmptySeq
    <3>4. CASE TakeContent
      <4>1. Least(Len(buffer), Of(cur).body) \in 0..Len(buffer)
        BY <2>3, BodyFits DEF GetRequestData, InRequest
      <4> QED BY <2>0, <3>1, <3>4, <4>1, AheadBehind DEF TakeContent
    <3> QED BY <2>3, <3>2, <3>3, <3>4 DEF GetRequestData
  <2>4. CASE ParseRequestContentType
    <3>1. script' = script /\ buffer' = buffer
      BY <2>4 DEF ParseRequestContentType
    <3>2. CASE UNCHANGED <<content, rest>>
      BY <2>0, <3>1, <3>2
    <3>3. ASSUME NEW n \in 1..Len(rest), content' = content \o Ahead(rest, n), rest' = Behind(rest, n)
          PROVE  content' \in Seq(P) /\ rest' \in Seq(P)
      <4>1. n \in 0..Len(rest)
        BY <2>0
      <4>2. Ahead(rest, n) \in Seq(P) /\ Behind(rest, n) \in Seq(P)
        BY <4>1, <2>0, AheadBehind
      <4> QED BY <2>0, <4>2, <3>3, ConcatProperties
    <3> QED BY <2>0, <2>4, <3>1, <3>2, <3>3 DEF ParseRequestContentType, ReadContent
  <2>5. CASE CreateProto \/ GetApplicationSettingsForRequest \/ RunApplication \/ NextTurn \/ Close
    BY <2>0, <2>5 DEF CreateProto, GetApplicationSettingsForRequest, RunApplication, NextTurn, Close
  <2> QED BY <2>1, <2>2, <2>3, <2>4, <2>5 DEF Next, RunProtocol
<1> QED BY <1>0, <1>1 DEF StreamTypes, Parts

LEMMA RequestStep == TypeInv /\ Next => RequestTypes'
<1> SUFFICES ASSUME TypeInv, Next PROVE RequestTypes'
  OBVIOUS
<1> USE DEF connection, request, history, InRequest
<1>0. /\ buffer \in Seq(Parts(script)) /\ rest \in Seq(Parts(script)) /\ content \in Seq(Parts(script))
      /\ Len(buffer) \in Nat /\ Len(rest) \in Nat
  BY LenProperties DEF TypeInv, StreamTypes
<1>1. CASE GetRequestHeaders
  <2>1. CASE pc' = "lookup" /\ Ends # {} /\ cur' = [req |-> buffer[HeadersEnd].req, clean |-> buffer[1].part = "line"]
    <3>1. HeadersEnd \in 1..Len(buffer)
      BY <1>0, <2>1, FirstEnd
    <3>2. buffer[HeadersEnd] \in Parts(script)
      BY <1>0, <3>1, ElementOfSeq
    <3>3. cur'.req \in 1..Len(script) /\ cur'.clean \in BOOLEAN
      BY <2>1, <3>2 DEF Parts
    <3>4. script' = script
      BY <1>1 DEF GetRequestHeaders
    <3> QED BY <2>1, <3>3, <3>4 DEF RequestTypes
  <2> QED BY <1>1, <2>1 DEF GetRequestHeaders, SendStatus, RequestTypes
<1>2. CASE GetApplicationSettingsForRequest
  BY <1>2 DEF GetApplicationSettingsForRequest, SendStatus, RequestTypes, TypeInv
<1>3. CASE GetRequestData
  <2>1. cur' = cur /\ script' = script /\ pc = "data" /\ cur.req \in 1..Len(script) /\ cur.clean \in BOOLEAN
    BY <1>3 DEF GetRequestData, RequestTypes, TypeInv
  <2>2. CASE pc' # "content"
    BY <2>1, <2>2 DEF RequestTypes
  <2>3. CASE TakeContent
    <3> DEFINE n == Least(Len(buffer), Of(cur).body)
    <3>1. n \in 0..Len(buffer) /\ n \in 0..Of(cur).body /\ Of(cur).body \in Nat
      BY <2>1, BodyFits
    <3> HIDE DEF n
    <3>2. content' = Ahead(buffer, n) /\ received' = Parsed(Of(cur).type, Len(content'), Of(cur).body, content')
      BY <2>3 DEF TakeContent, n
    <3>3. Len(content') = n
      BY <1>0, <3>1, <3>2, AheadBehind
    <3>4. received' \in 0..Of(cur).body
      BY <3>1, <3>2, <3>3 DEF Parsed
    <3> QED BY <2>1, <3>4 DEF RequestTypes, Of
  <2> QED BY <1>3, <2>2, <2>3 DEF GetRequestData, SendStatus
<1>4. CASE ParseRequestContentType
  <2>1. /\ cur' = cur /\ script' = script /\ pc = "content" /\ cur.req \in 1..Len(script) /\ cur.clean \in BOOLEAN
        /\ received \in 0..Of(cur).body
    BY <1>4 DEF ParseRequestContentType, RequestTypes, TypeInv
  <2>2. CASE pc' # "content"
    BY <2>1, <2>2 DEF RequestTypes
  <2>3. ASSUME NEW n \in 1..Len(rest), Packet(n, Of(cur).body - received),
               received' = Parsed(Of(cur).type, received + n, Of(cur).body, Ahead(rest, n))
        PROVE  RequestTypes'
    <3>1. Of(cur).body \in Nat
      BY <2>1, BodyFits
    <3>2. received' \in 0..Of(cur).body
      BY <1>0, <2>1, <2>3, <3>1 DEF Parsed, Packet, Least
    <3> QED BY <2>1, <3>2 DEF RequestTypes, Of
  <2> QED BY <1>4, <2>2, <2>3 DEF ParseRequestContentType, ReadContent, SendStatus
<1>5. CASE CreateProto \/ GetRequest \/ RunApplication \/ NextTurn \/ Close
  BY <1>5 DEF CreateProto, GetRequest, RunApplication, NextTurn, Close, RequestTypes
<1> QED BY <1>1, <1>2, <1>3, <1>4, <1>5 DEF Next, RunProtocol

LEMMA HistoryStep == TypeInv /\ Next => HistoryTypes'
<1> SUFFICES ASSUME TypeInv, Next PROVE HistoryTypes'
  OBVIOUS
<1> USE DEF connection, request, history
<1> DEFINE R == Runs(script)
<1>0. /\ served \in Seq(R) /\ errors \in Seq(Refusals)
      /\ Len(served) \in Nat /\ Len(buffer) \in Nat /\ Len(rest) \in Nat
  BY LenProperties DEF TypeInv, StreamTypes, HistoryTypes
<1>1. script' = script
  BY DEF Next, RunProtocol, CreateProto, GetRequest, GetRequestHeaders, GetApplicationSettingsForRequest,
         GetRequestData, ParseRequestContentType, RunApplication, NextTurn, Close
<1>2. CASE RunApplication
  <2>1. PICK response \in Responses :
          /\ GetConnectionParams(response)
          /\ served' = Append(served,
                [req |-> cur.req, clean |-> cur.clean, parsed |-> content, incoming |-> IncomingData,
                 kept |-> response.success /\ response.connection = "keep-alive" /\ Agreed(response),
                 max |-> KeepAliveHeader(response),
                 told |-> response.sendfile])
    BY <1>2 DEF RunApplication
  <2>2. pc = "run" /\ errors' = errors
    BY <1>2 DEF RunApplication
  <2>3. cur.req \in 1..Len(script) /\ cur.clean \in BOOLEAN /\ content \in Seq(Parts(script))
    BY <2>2 DEF TypeInv, RequestTypes, StreamTypes, InRequest
  <2>4. KeepAliveHeader(response) \in Int
    <3>1. keepAlive' \in Int
      BY KeepStep, HttpAssumption DEF TypeInv, KeepInv
    <3> QED BY <3>1 DEF KeepAliveHeader
  <2>5. response.sendfile \in BOOLEAN
    BY DEF Responses
  <2>6. (response.success /\ response.connection = "keep-alive" /\ Agreed(response)) \in BOOLEAN
    OBVIOUS
  <2>7. [req |-> cur.req, clean |-> cur.clean, parsed |-> content, incoming |-> IncomingData,
         kept |-> response.success /\ response.connection = "keep-alive" /\ Agreed(response),
         max |-> KeepAliveHeader(response), told |-> response.sendfile] \in R
    BY <2>3, <2>4, <2>5, <2>6, Zenon DEF Runs, IncomingData
  <2> HIDE DEF R
  <2>8. served' \in Seq(R)
    BY <1>0, <2>1, <2>7
  <2> QED BY <1>0, <1>1, <2>2, <2>8 DEF HistoryTypes, R
<1>3. ASSUME NEW status \in Nat, served' = served, SendStatus(status)
      PROVE  HistoryTypes'
  <2>1. [status |-> status, after |-> Len(served), had |-> Len(buffer), left |-> Len(rest)] \in Refusals
    BY <1>0 DEF Refusals
  <2>2. errors' \in Seq(Refusals)
    BY <1>0, <1>3, <2>1 DEF SendStatus
  <2> QED BY <1>0, <1>1, <1>3, <2>2 DEF HistoryTypes
<1>4. CASE UNCHANGED history
  BY <1>0, <1>1, <1>4 DEF HistoryTypes
<1> QED
  <2>1. CASE CreateProto \/ GetRequest \/ NextTurn \/ Close
    BY <1>4, <2>1 DEF CreateProto, GetRequest, NextTurn, Close
  <2>2. CASE GetRequestHeaders \/ GetApplicationSettingsForRequest \/ GetRequestData \/ ParseRequestContentType
    <3>1. served' = served
      BY <2>2 DEF GetRequestHeaders, GetApplicationSettingsForRequest, GetRequestData, ParseRequestContentType
    <3>2. \/ errors' = errors
          \/ SendStatus(400) \/ SendStatus(404) \/ SendStatus(413) \/ SendStatus(500) \/ SendStatus(501)
      BY <2>2 DEF GetRequestHeaders, GetApplicationSettingsForRequest, GetRequestData,
                  ParseRequestContentType, ReadContent
    <3> QED BY <3>1, <3>2, <1>3, <1>4
  <2> QED BY <1>2, <2>1, <2>2 DEF Next, RunProtocol

LEMMA TypesStep == TypeInv /\ [Next]_vars => TypeInv'
<1>1. TypeInv /\ UNCHANGED vars => TypeInv'
  BY DEF TypeInv, KeepInv, SocketTypes, StreamTypes, RequestTypes, HistoryTypes, Of, Reading, Leaving, InRequest,
         Parts, Runs, Refusals, vars, connection, request, history
<1> QED BY <1>1, KeepStep, SocketStep, StreamStep, RequestStep, HistoryStep DEF TypeInv

(* Every variable of a connection keeps its type, and the count of the     *)
(* content received never passes its length, so that GetPacketAsync is     *)
(* never asked for units of the next request: for all clients.             *)
THEOREM TypeCorrect == Spec => []TypeOK
<1>1. Spec => []TypeInv
  BY TypesInit, TypesStep, PTL DEF Spec, SafeSpec
<1> QED BY <1>1, TypesImplied, PTL

-----------------------------------------------------------------------------
(* Refusals and promises, whatever the client sends.                       *)

(* What the server sends itself, it sends when it gives the connection up. *)
RefusalInv ==
    errors # <<>> =>
        /\ DOMAIN errors = {1} /\ errors[1].after = Len(served)
        /\ pc \in Leaving /\ "Reuse" \notin params

LEMMA RefusalStep == TypeInv /\ RefusalInv /\ [Next]_vars => RefusalInv'
<1> SUFFICES ASSUME TypeInv, RefusalInv, [Next]_vars PROVE RefusalInv'
  OBVIOUS
<1> USE DEF connection, request, history
<1>0. errors \in Seq(Refusals)
  BY DEF TypeInv, HistoryTypes
<1>1. CASE pc \in Reading
  <2>1. errors = <<>> /\ params = {}
    BY <1>1 DEF RefusalInv, Reading, Leaving, TypeInv, KeepInv
  <2>2. ASSUME NEW status \in Nat, SendStatus(status), served' = served, params' = params
        PROVE  RefusalInv'
    <3>1. errors' = <<[status |-> status, after |-> Len(served), had |-> Len(buffer), left |-> Len(rest)]>>
      BY <2>1, <2>2 DEF SendStatus
    <3>2. pc' = "loop"
      BY <2>2 DEF SendStatus
    <3> QED BY <2>1, <2>2, <3>1, <3>2 DEF RefusalInv, Leaving
  <2>3. CASE errors' = errors
    BY <2>1, <2>3 DEF RefusalInv
  <2>4. CASE UNCHANGED vars \/ CreateProto \/ GetRequest \/ RunApplication \/ NextTurn \/ Close
    BY <2>3, <2>4 DEF vars, CreateProto, GetRequest, RunApplication, NextTurn, Close
  <2>5. CASE GetRequestHeaders \/ GetApplicationSettingsForRequest \/ GetRequestData \/ ParseRequestContentType
    <3>1. served' = served /\ params' = params
      BY <2>5 DEF GetRequestHeaders, GetApplicationSettingsForRequest, GetRequestData, ParseRequestContentType
    <3>2. \/ errors' = errors
          \/ SendStatus(400) \/ SendStatus(404) \/ SendStatus(413) \/ SendStatus(500) \/ SendStatus(501)
      BY <2>5 DEF GetRequestHeaders, GetApplicationSettingsForRequest, GetRequestData,
                  ParseRequestContentType, ReadContent
    <3> QED BY <3>1, <3>2, <2>2, <2>3
  <2> QED BY <2>4, <2>5 DEF Next, RunProtocol
<1>2. CASE pc \in Leaving
  <2>1. UNCHANGED vars \/ NextTurn \/ Close
    BY <1>2 DEF Next, RunProtocol, CreateProto, GetRequest, GetRequestHeaders, GetApplicationSettingsForRequest,
                GetRequestData, ParseRequestContentType, RunApplication, Leaving
  <2>2. errors' = errors /\ served' = served
    BY <2>1 DEF vars, NextTurn, Close
  <2>3. errors # <<>> => pc' \in Leaving /\ "Reuse" \notin params'
    BY <1>2, <2>1 DEF RefusalInv, vars, NextTurn, Close, Leaving
  <2> QED BY <2>2, <2>3 DEF RefusalInv
<1> QED BY <1>1, <1>2 DEF TypeInv, KeepInv

(* A status the server sends itself (RunProtocol's 400, 404, 413, 500 and  *)
(* 501) is the last thing that happens on its connection: for all clients. *)
THEOREM RefusalEndsConnection == Spec => []RefusalIsLast
<1>1. Init => RefusalInv
  BY DEF Init, RefusalInv
<1>2. RefusalInv => RefusalIsLast
  BY DEF RefusalInv, RefusalIsLast
<1>3. Spec => [](TypeInv /\ RefusalInv)
  BY TypesInit, TypesStep, <1>1, RefusalStep, PTL DEF Spec, SafeSpec
<1> QED BY <1>2, <1>3, PTL

(* A client that was told how many requests are left can count them.       *)
PromiseInv ==
    \A j \in DOMAIN served :
        served[j].told /\ (\A i \in j..Len(served) : served[i].kept) =>
            \/ served[j].max = keepAlive + (Len(served) - j)
            \/ j = Len(served) /\ pc \in Leaving /\ "Reuse" \notin params

LEMMA PromiseStep ==
    TypeInv /\ PromiseInv /\ PromiseKept /\ [Next]_vars => PromiseInv' /\ PromiseKept'
<1> SUFFICES ASSUME TypeInv, PromiseInv, PromiseKept, [Next]_vars PROVE PromiseInv' /\ PromiseKept'
  OBVIOUS
<1> USE DEF connection, request, history
<1>0. served \in Seq(Runs(script)) /\ Len(served) \in Nat /\ DOMAIN served = 1..Len(served) /\ keepAlive \in Nat
  BY LenProperties, HttpAssumption DEF TypeInv, HistoryTypes, KeepInv
<1>1. CASE RunApplication
  <2>1. PICK response \in Responses :
          /\ GetConnectionParams(response)
          /\ served' = Append(served,
                [req |-> cur.req, clean |-> cur.clean, parsed |-> content, incoming |-> IncomingData,
                 kept |-> response.success /\ response.connection = "keep-alive" /\ Agreed(response),
                 max |-> KeepAliveHeader(response),
                 told |-> response.sendfile])
    BY <1>1 DEF RunApplication
  <2> DEFINE n == Len(served)
             r == served'[n + 1]
  <2>2. /\ Len(served') = n + 1 /\ DOMAIN served' = 1..n + 1
        /\ \A j \in 1..n : served'[j] = served[j]
        /\ r.kept = (response.success /\ response.connection = "keep-alive" /\ Agreed(response))
        /\ r.max = KeepAliveHeader(response) /\ r.told = response.sendfile
    BY <1>0, <2>1
  <2>3. pc = "run" /\ pc' = "loop" /\ params = {} /\ keepAlive > 0
    BY <1>1 DEF RunApplication, TypeInv, KeepInv, Reading
  <2>4. r.kept => keepAlive' = keepAlive - 1 /\ params' = CheckRequestKeepAlive(keepAlive - 1)
    BY <2>1, <2>2, <2>3 DEF GetConnectionParams
  <2>5. r.kept /\ r.told => r.max = keepAlive' \/ "Reuse" \notin params'
    BY <2>2, <2>4 DEF KeepAliveHeader
  <2> HIDE DEF r
  <2>6. ASSUME NEW j \in 1..n + 1, served'[j].told, \A i \in j..n + 1 : served'[i].kept
        PROVE  \/ served'[j].max = keepAlive' + (n + 1 - j)
               \/ j = n + 1 /\ pc' \in Leaving /\ "Reuse" \notin params'
    <3>1. CASE j = n + 1
      <4>1. r.kept /\ r.told /\ r = served'[j] /\ n + 1 - j = 0
        BY <1>0, <2>6, <3>1 DEF r
      <4>2. keepAlive' \in Int
        BY <1>0, <2>4, <4>1
      <4> QED BY <2>3, <2>5, <3>1, <4>1, <4>2 DEF Leaving
    <3>2. CASE j \in 1..n
      <4>1. served[j].told /\ \A i \in j..n : served[i].kept
        BY <1>0, <2>2, <2>6, <3>2
      <4>2. served[j].max = keepAlive + (n - j)
        BY <1>0, <2>3, <3>2, <4>1 DEF PromiseInv, Leaving
      <4>3. r.kept
        BY <1>0, <2>6, <3>2 DEF r
      <4>4. keepAlive' = keepAlive - 1
        BY <2>4, <4>3
      <4>5. served'[j] = served[j]
        BY <2>2, <3>2
      <4>6. n \in Int /\ j \in Int /\ keepAlive \in Int
        BY <1>0, <3>2
      <4> HIDE DEF n
      <4>7. keepAlive' + (n + 1 - j) = keepAlive + (n - j)
        BY <4>4, <4>6
      <4> QED BY <4>2, <4>5, <4>7
    <3> QED BY <1>0, <3>1, <3>2
  <2>7. PromiseInv'
    BY <2>2, <2>6 DEF PromiseInv
  <2>8. ASSUME NEW j \in 1..n + 1, NEW k \in 1..n + 1, j < k, served'[j].told,
               \A i \in j..k - 1 : served'[i].kept
        PROVE  k - j <= served'[j].max
    <3>1. j \in 1..n
      BY <1>0, <2>8
    <3>2. served[j].told /\ served'[j].max = served[j].max /\ \A i \in j..k - 1 : served[i].kept
      BY <1>0, <2>2, <2>8, <3>1
    <3>3. CASE k \in 1..n
      BY <1>0, <2>8, <3>1, <3>2, <3>3 DEF PromiseKept
    <3>4. CASE k = n + 1
      <4>1. \A i \in j..n : served[i].kept
        BY <1>0, <3>2, <3>4
      <4>2. served[j].max = keepAlive + (n - j)
        BY <1>0, <2>3, <3>1, <3>2, <4>1 DEF PromiseInv, Leaving
      <4> QED BY <1>0, <2>3, <3>1, <3>2, <3>4, <4>2
    <3> QED BY <1>0, <3>3, <3>4
  <2>9. PromiseKept'
    BY <2>2, <2>8 DEF PromiseKept
  <2> QED BY <2>7, <2>9
<1>2. CASE UNCHANGED vars \/ CreateProto \/ GetRequest \/ GetRequestHeaders \/ GetApplicationSettingsForRequest
            \/ GetRequestData \/ ParseRequestContentType \/ NextTurn \/ Close
  <2>1. served' = served /\ keepAlive' = keepAlive
    BY <1>2 DEF vars, CreateProto, GetRequest, GetRequestHeaders, GetApplicationSettingsForRequest,
                GetRequestData, ParseRequestContentType, NextTurn, Close
  <2>2. pc \in Leaving /\ "Reuse" \notin params => pc' \in Leaving /\ "Reuse" \notin params'
    BY <1>2 DEF vars, CreateProto, GetRequest, GetRequestHeaders, GetApplicationSettingsForRequest,
                GetRequestData, ParseRequestContentType, NextTurn, Close, Leaving
  <2>3. PromiseInv'
    BY <2>1, <2>2 DEF PromiseInv
  <2> QED BY <2>1, <2>3 DEF PromiseKept
<1> QED BY <1>1, <1>2 DEF Next, RunProtocol

(* The max of the keep-alive header Sendfile adds is kept, for every       *)
(* KeepAliveTimeout and whatever the client asks for.                      *)
THEOREM KeepAlivePromise == Spec => []PromiseKept
<1>1. Init => PromiseInv /\ PromiseKept
  BY DEF Init, PromiseInv, PromiseKept
<1>2. Spec => [](TypeInv /\ PromiseInv /\ PromiseKept)
  BY TypesInit, TypesStep, <1>1, PromiseStep, PTL DEF Spec, SafeSpec
<1> QED BY <1>2, PTL

-----------------------------------------------------------------------------
(* The job stays in step with the stream.                                  *)

(* How many units of the stream have been used.                            *)
Used == Len(Stream(script)) - Len(rest) - Len(buffer)

(* The buffer and what is still to be received are the rest of the stream. *)
StreamInv ==
    /\ Used \in Nat
    /\ \A k \in 1..Len(buffer) : buffer[k] = Stream(script)[Used + k]
    /\ \A k \in 1..Len(rest) : rest[k] = Stream(script)[Used + Len(buffer) + k]

(* Between two requests the next unit is the first one of a request.       *)
BetweenRequests ==
    pc \in {"connect", "receive", "headers"} \cup Leaving => Used = Start(script, Len(served) + 1)

InHand == pc \in InRequest => cur.req = Len(served) + 1 /\ cur.clean

HeadRead == pc \in {"lookup", "data"} => Used = Start(script, cur.req) + 2

ContentRead ==
    pc = "content" =>
        /\ Of(cur).type \in {"form", "json"}
        /\ Len(content) \in 0..Of(cur).body /\ received = Len(content)
        /\ content = Body(cur.req, Len(content))
        /\ Used = Start(script, cur.req) + 2 + Len(content)
        /\ buffer = <<>> \/ Len(content) = Of(cur).body

WholeRead ==
    pc = "run" =>
        /\ Used = Start(script, cur.req + 1)
        /\ Of(cur).type \in {"form", "json"} => content = Body(cur.req, Of(cur).body)

Reads == BetweenRequests /\ InHand /\ HeadRead /\ ContentRead /\ WholeRead

SyncInv ==
    /\ Len(served) \in 0..Len(script)
    /\ InSync /\ ContentWhole
    /\ StreamInv
    /\ errors = <<>> => Reads

(* What the job has to expect of its clients to stay in step: the content  *)
(* of a request has a type, and that of a JSON request comes in one piece. *)
BodiesAnnounced ==
    \A s \in Scripts : \A k \in DOMAIN s :
        /\ s[k].type = "none" => s[k].body = 0
        /\ s[k].type = "json" => s[k].body <= 1

LEMMA Lengths ==
    ASSUME TypeInv
    PROVE  /\ script \in Seq(Requests) /\ Len(script) \in Nat /\ Len(Stream(script)) \in Nat
           /\ buffer \in Seq(Parts(script)) /\ rest \in Seq(Parts(script)) /\ content \in Seq(Parts(script))
           /\ Len(buffer) \in Nat /\ Len(rest) \in Nat /\ Len(content) \in Nat /\ Len(served) \in Nat
<1>1. script \in Seq(Requests)
  BY ScriptsAre DEF TypeInv, StreamTypes
<1>2. Stream(script) \in Seq(Parts(script))
  BY <1>1, StreamOf
<1> QED BY <1>1, <1>2, LenProperties DEF TypeInv, StreamTypes, HistoryTypes

LEMMA StreamStays ==
    ASSUME TypeInv, StreamInv, UNCHANGED <<script, buffer, rest>>
    PROVE  StreamInv' /\ Used' = Used
BY DEF StreamInv, Used

LEMMA StreamReceived ==
    ASSUME TypeInv, StreamInv, NEW n \in 1..Len(rest), script' = script,
           buffer' = buffer \o Ahead(rest, n), rest' = Behind(rest, n)
    PROVE  StreamInv' /\ Used' = Used
<1> DEFINE S == Stream(script)
           P == Parts(script)
<1>0. /\ buffer \in Seq(P) /\ rest \in Seq(P) /\ Len(buffer) \in Nat /\ Len(rest) \in Nat /\ Len(S) \in Nat
      /\ n \in 0..Len(rest)
  BY Lengths
<1>1. /\ Used \in Nat /\ Used = Len(S) - Len(rest) - Len(buffer)
      /\ \A k \in 1..Len(buffer) : buffer[k] = S[Used + k]
      /\ \A k \in 1..Len(rest) : rest[k] = S[Used + Len(buffer) + k]
  BY DEF StreamInv, Used
<1>2. Used' = Len(S) - Len(rest') - Len(buffer')
  BY DEF Used
<1>3. StreamInv' <=> /\ Used' \in Nat
                     /\ \A k \in 1..Len(buffer') : buffer'[k] = S[Used' + k]
                     /\ \A k \in 1..Len(rest') : rest'[k] = S[Used' + Len(buffer') + k]
  BY DEF StreamInv
<1> HIDE DEF S, P
<1>4. /\ Ahead(rest, n) \in Seq(P) /\ Len(Ahead(rest, n)) = n
      /\ \A k \in 1..n : Ahead(rest, n)[k] = rest[k]
      /\ Len(rest') = Len(rest) - n
      /\ \A k \in 1..Len(rest) - n : rest'[k] = rest[n + k]
  BY <1>0, AheadBehind
<1>5. /\ Len(buffer') = Len(buffer) + n
      /\ \A k \in 1..Len(buffer) + n :
            buffer'[k] = IF k <= Len(buffer) THEN buffer[k] ELSE Ahead(rest, n)[k - Len(buffer)]
  <2> DEFINE f == Ahead(rest, n)
  <2>1. buffer' = buffer \o f /\ f \in Seq(P) /\ Len(f) = n
    BY <1>4
  <2> HIDE DEF f
  <2>2. /\ Len(buffer') = Len(buffer) + Len(f)
        /\ \A k \in 1..Len(buffer) + Len(f) : buffer'[k] = IF k <= Len(buffer) THEN buffer[k] ELSE f[k - Len(buffer)]
    BY <1>0, <2>1, ConcatProperties
  <2>3. /\ Len(buffer') = Len(buffer) + n
        /\ \A k \in 1..Len(buffer) + n : buffer'[k] = IF k <= Len(buffer) THEN buffer[k] ELSE f[k - Len(buffer)]
    BY <2>1, <2>2
  <2> QED BY <2>3 DEF f
<1>6. Used' = Used
  BY <1>0, <1>1, <1>2, <1>4, <1>5
<1>7. ASSUME NEW k \in 1..Len(buffer')
      PROVE  buffer'[k] = S[Used' + k]
  <2>1. CASE k <= Len(buffer)
    BY <1>0, <1>1, <1>5, <1>6, <2>1
  <2>2. CASE ~(k <= Len(buffer))
    <3>1. PICK i \in 1..n : k = Len(buffer) + i
      <4>1. k - Len(buffer) \in 1..n /\ k = Len(buffer) + (k - Len(buffer))
        BY <1>0, <1>5, <2>2
      <4> QED BY <4>1
    <3>2. k - Len(buffer) = i /\ i \in 1..Len(rest) /\ k \in 1..Len(buffer) + n
      BY <1>0, <1>5, <3>1
    <3>3. buffer'[k] = rest[i]
      BY <1>4, <1>5, <2>2, <3>2
    <3>4. rest[i] = S[Used + Len(buffer) + i]
      BY <1>1, <3>2
    <3>5. Used + Len(buffer) + i = Used' + k
      BY <1>0, <1>1, <1>6, <3>1
    <3> QED BY <3>3, <3>4, <3>5
  <2> QED BY <2>1, <2>2
<1>8. ASSUME NEW k \in 1..Len(rest')
      PROVE  rest'[k] = S[Used' + Len(buffer') + k]
  <2>1. PICK i \in 1..Len(rest) : i = n + k
    BY <1>0, <1>4
  <2>2. rest'[k] = rest[i]
    BY <1>4, <2>1
  <2>3. rest[i] = S[Used + Len(buffer) + i]
    BY <1>1
  <2>4. Used + Len(buffer) + i = Used' + Len(buffer') + k
    BY <1>0, <1>1, <1>4, <1>5, <1>6, <2>1
  <2> QED BY <2>2, <2>3, <2>4
<1> QED BY <1>1, <1>3, <1>6, <1>7, <1>8

LEMMA StreamTaken ==
    ASSUME TypeInv, StreamInv, NEW n \in 0..Len(buffer), script' = script,
           buffer' = Behind(buffer, n), rest' = rest
    PROVE  StreamInv' /\ Used' = Used + n
<1> DEFINE S == Stream(script)
           P == Parts(script)
<1>0. buffer \in Seq(P) /\ Len(buffer) \in Nat /\ Len(rest) \in Nat /\ Len(S) \in Nat
  BY Lengths
<1>1. /\ Used \in Nat /\ Used = Len(S) - Len(rest) - Len(buffer)
      /\ \A k \in 1..Len(buffer) : buffer[k] = S[Used + k]
      /\ \A k \in 1..Len(rest) : rest[k] = S[Used + Len(buffer) + k]
  BY DEF StreamInv, Used
<1>2. Used' = Len(S) - Len(rest') - Len(buffer')
  BY DEF Used
<1>3. StreamInv' <=> /\ Used' \in Nat
                     /\ \A k \in 1..Len(buffer') : buffer'[k] = S[Used' + k]
                     /\ \A k \in 1..Len(rest') : rest'[k] = S[Used' + Len(buffer') + k]
  BY DEF StreamInv
<1> HIDE DEF S, P
<1>4. /\ Len(buffer') = Len(buffer) - n
      /\ \A k \in 1..Len(buffer) - n : buffer'[k] = buffer[n + k]
  BY <1>0, AheadBehind
<1>5. Used' = Used + n
  BY <1>0, <1>1, <1>2, <1>4
<1>6. ASSUME NEW k \in 1..Len(buffer')
      PROVE  buffer'[k] = S[Used' + k]
  <2>1. PICK i \in 1..Len(buffer) : i = n + k
    BY <1>0, <1>4
  <2>2. buffer'[k] = buffer[i]
    BY <1>4, <2>1
  <2>3. buffer[i] = S[Used + i]
    BY <1>1
  <2>4. Used + i = Used' + k
    BY <1>0, <1>1, <1>4, <1>5, <2>1
  <2> QED BY <2>2, <2>3, <2>4
<1>7. ASSUME NEW k \in 1..Len(rest')
      PROVE  rest'[k] = S[Used' + Len(buffer') + k]
  <2>1. Used + Len(buffer) + k = Used' + Len(buffer') + k
    BY <1>0, <1>1, <1>4, <1>5
  <2>2. rest[k] = S[Used + Len(buffer) + k]
    BY <1>1
  <2> QED BY <2>1, <2>2
<1> QED BY <1>1, <1>3, <1>5, <1>6, <1>7

LEMMA StreamRead ==
    ASSUME TypeInv, StreamInv, buffer = <<>>, NEW n \in 1..Len(rest), script' = script,
           buffer' = buffer, rest' = Behind(rest, n)
    PROVE  StreamInv' /\ Used' = Used + n
<1> DEFINE S == Stream(script)
           P == Parts(script)
<1>0. /\ rest \in Seq(P) /\ Len(buffer) = 0 /\ Len(buffer') = 0 /\ Len(rest) \in Nat /\ Len(S) \in Nat
      /\ n \in 0..Len(rest)
  BY Lengths, EmptySeq
<1>1. /\ Used \in Nat /\ Used = Len(S) - Len(rest) - Len(buffer)
      /\ \A k \in 1..Len(rest) : rest[k] = S[Used + Len(buffer) + k]
  BY DEF StreamInv, Used
<1>2. Used' = Len(S) - Len(rest') - Len(buffer')
  BY DEF Used
<1>3. StreamInv' <=> /\ Used' \in Nat
                     /\ \A k \in 1..Len(buffer') : buffer'[k] = S[Used' + k]
                     /\ \A k \in 1..Len(rest') : rest'[k] = S[Used' + Len(buffer') + k]
  BY DEF StreamInv
<1> HIDE DEF S, P
<1>4. /\ Len(rest') = Len(rest) - n
      /\ \A k \in 1..Len(rest) - n : rest'[k] = rest[n + k]
  BY <1>0, AheadBehind
<1>5. Used' = Used + n
  BY <1>0, <1>1, <1>2, <1>4
<1>7. ASSUME NEW k \in 1..Len(rest')
      PROVE  rest'[k] = S[Used' + Len(buffer') + k]
  <2>1. PICK i \in 1..Len(rest) : i = n + k
    BY <1>0, <1>4
  <2>2. rest'[k] = rest[i]
    BY <1>4, <2>1
  <2>3. rest[i] = S[Used + Len(buffer) + i]
    BY <1>1
  <2>4. Used + Len(buffer) + i = Used' + Len(buffer') + k
    BY <1>0, <1>1, <1>4, <1>5, <2>1
  <2> QED BY <2>2, <2>3, <2>4
<1> QED BY <1>0, <1>1, <1>3, <1>5, <1>7

LEMMA BodyIs ==
    ASSUME NEW S, NEW c \in Seq(S), NEW i,
           \A k \in 1..Len(c) : c[k] = [req |-> i, part |-> "body"]
    PROVE  c = Body(i, Len(c))
<1>1. c = [k \in 1..Len(c) |-> c[k]]
  BY LenProperties
<1> QED BY <1>1 DEF Body

LEMMA SyncInit == Init => SyncInv
<1> SUFFICES ASSUME Init PROVE SyncInv
  OBVIOUS
<1>1. TypeInv
  BY TypesInit
<1>2. /\ Len(served) = 0 /\ DOMAIN served = {} /\ Len(buffer) = 0 /\ rest = Stream(script)
      /\ Len(Stream(script)) \in Nat /\ Len(script) \in Nat /\ pc = "connect" /\ script \in Seq(Requests)
  BY <1>1, Lengths DEF Init
<1>3. Used = 0
  BY <1>2 DEF Used
<1>4. StreamInv
  BY <1>2, <1>3 DEF StreamInv
<1>5. Reads
  <2>1. Start(script, 1) = 0
    BY <1>2, StreamOf
  <2>2. Used = Start(script, Len(served) + 1)
    BY <1>2, <1>3, <2>1
  <2> QED BY <1>2, <2>2 DEF Reads, BetweenRequests, InHand, HeadRead, ContentRead, WholeRead, InRequest
<1> QED BY <1>2, <1>4, <1>5 DEF SyncInv, InSync, ContentWhole

(* A step that runs no application keeps what is known of the ones run.    *)
LEMMA RunsStay ==
    ASSUME SyncInv, UNCHANGED <<script, served>>
    PROVE  Len(served') \in 0..Len(script') /\ InSync' /\ ContentWhole'
BY DEF SyncInv, InSync, ContentWhole

LEMMA Refused ==
    ASSUME errors = <<>>, NEW status, SendStatus(status)
    PROVE  errors' # <<>>
BY DEF SendStatus

LEMMA HeadsStep ==
    ASSUME TypeInv, RefusalInv, SyncInv, GetRequestHeaders
    PROVE  StreamInv' /\ (errors' = <<>> => Reads')
<1> USE DEF connection, request, history
<1> DEFINE s == script
           k == Len(served) + 1
           S == Stream(script)
<1>0. /\ s \in Seq(Requests) /\ Len(s) \in Nat /\ buffer \in Seq(Parts(s)) /\ Len(buffer) \in Nat
      /\ Len(rest) \in Nat /\ Len(S) \in Nat
  BY Lengths
<1>1. pc = "headers" /\ errors = <<>>
  BY DEF GetRequestHeaders, RefusalInv, Leaving
<1>2. StreamInv /\ Used = Start(s, k) /\ Len(served) \in 0..Len(s)
  BY <1>1 DEF SyncInv, Reads, BetweenRequests
<1>3. CASE SendStatus(400) /\ UNCHANGED <<buffer, cur>>
  <2>1. StreamInv'
    BY <1>2, <1>3, StreamStays DEF GetRequestHeaders
  <2>2. errors' # <<>>
    BY <1>1, <1>3, Refused
  <2> QED BY <2>1, <2>2
<1>4. CASE /\ Ends # {} /\ pc' = "lookup" /\ buffer' = Behind(buffer, HeadersEnd)
           /\ cur' = [req |-> buffer[HeadersEnd].req, clean |-> buffer[1].part = "line"]
  <2>1. /\ HeadersEnd \in 1..Len(buffer) /\ buffer[HeadersEnd].part = "blank"
        /\ \A m \in 1..Len(buffer) : buffer[m].part = "blank" => HeadersEnd <= m
    BY <1>0, <1>4, FirstEnd
  <2>2. k \in 1..Len(s)
    <3>1. CASE k = Len(s) + 1
      <4>1. Used = Len(S)
        BY <1>0, <1>2, <3>1, StreamOf
      <4> QED BY <1>0, <2>1, <4>1 DEF Used
    <3> QED BY <1>0, <1>2, <3>1
  <2>3. /\ Start(s, k) \in Nat /\ S[Start(s, k) + 1] = Head1(k) /\ S[Start(s, k) + 2] = Head2(k)
    BY <1>0, <2>2, StreamOf
  <2>4. \A i \in 1..Len(buffer) : buffer[i] = S[Used + i]
    BY <1>2 DEF StreamInv
  <2>5. buffer[1] = Head1(k)
    <3>1. 1 \in 1..Len(buffer)
      BY <1>0, <2>1
    <3> QED BY <3>1, <2>3, <2>4, <1>2
  <2>6. HeadersEnd # 1
    BY <2>1, <2>5 DEF Head1
  <2>7. 2 \in 1..Len(buffer)
    BY <1>0, <2>1, <2>6
  <2>8. buffer[2] = Head2(k)
    BY <2>3, <2>4, <2>7, <1>2
  <2>9. HeadersEnd = 2
    <3>1. HeadersEnd <= 2
      BY <2>1, <2>7, <2>8 DEF Head2
    <3> QED BY <1>0, <2>1, <2>6, <3>1
  <2>10. cur'.req = k /\ cur'.clean
    <3>1. buffer[1].part = "line" /\ buffer[2].req = k
      BY <2>5, <2>8 DEF Head1, Head2
    <3>2. cur'.req = buffer[2].req
      BY <1>4, <2>9
    <3>3. cur'.clean = (buffer[1].part = "line")
      BY <1>4, Zenon
    <3> QED BY <3>1, <3>2, <3>3
  <2>11. script' = script /\ rest' = rest /\ served' = served
    BY DEF GetRequestHeaders
  <2>12. StreamInv' /\ Used' = Used + 2
    <3>1. 2 \in 0..Len(buffer) /\ buffer' = Behind(buffer, 2)
      BY <1>0, <1>4, <2>7, <2>9
    <3> QED BY <3>1, <1>2, <2>11, StreamTaken
  <2>13. Used' = Start(script', cur'.req) + 2
    BY <2>10, <2>11, <2>12, <1>2
  <2> QED BY <1>4, <2>10, <2>11, <2>12, <2>13
          DEF Reads, BetweenRequests, InHand, HeadRead, ContentRead, WholeRead, InRequest, Leaving
<1> QED BY <1>3, <1>4 DEF GetRequestHeaders

LEMMA DataStep ==
    ASSUME BodiesAnnounced, TypeInv, RefusalInv, SyncInv, GetRequestData
    PROVE  StreamInv' /\ (errors' = <<>> => Reads')
<1> USE DEF connection, request, history
<1> DEFINE s == script
           i == cur.req
           S == Stream(script)
           body == Of(cur).body
<1>0. /\ s \in Seq(Requests) /\ Len(s) \in Nat /\ buffer \in Seq(Parts(s)) /\ Len(buffer) \in Nat
      /\ Len(rest) \in Nat /\ Len(S) \in Nat /\ s \in Scripts
  BY Lengths DEF TypeInv, StreamTypes
<1>1. pc = "data" /\ errors = <<>> /\ pc \in InRequest
  BY DEF GetRequestData, RefusalInv, Leaving, InRequest
<1>2. /\ StreamInv /\ Used = Start(s, i) + 2 /\ cur.req = Len(served) + 1 /\ cur.clean
      /\ i \in 1..Len(s)
  BY <1>1 DEF SyncInv, Reads, HeadRead, InHand, InRequest, TypeInv, RequestTypes
<1>3. /\ Start(s, i) \in Nat /\ Start(s, i + 1) = Start(s, i) + body + 2
      /\ \A k \in 1..body : S[Start(s, i) + 2 + k] = [req |-> i, part |-> "body"]
  BY <1>0, <1>2, StreamOf DEF Of
<1>4. /\ body \in Nat /\ Least(Len(buffer), body) \in 0..Len(buffer) /\ Least(Len(buffer), body) \in 0..body
      /\ Of(cur) \in Requests
  BY <1>1, BodyFits
<1>5. (Of(cur).type = "none" => body = 0) /\ (Of(cur).type = "json" => body <= 1)
  <2>1. i \in DOMAIN s
    BY <1>0, <1>2
  <2> QED BY <1>0, <2>1 DEF BodiesAnnounced, Of
<1>6. script' = script /\ rest' = rest /\ cur' = cur /\ served' = served /\ Of(cur)' = Of(cur)
  BY DEF GetRequestData, Of
<1>7. CASE Of(cur).type = "none" /\ pc' = "run" /\ UNCHANGED buffer
  <2>1. StreamInv' /\ Used' = Used
    BY <1>2, <1>6, <1>7, StreamStays
  <2>2. Used' = Start(script', cur'.req + 1)
    BY <1>2, <1>3, <1>4, <1>5, <1>6, <1>7, <2>1
  <2> QED BY <1>2, <1>6, <1>7, <2>1, <2>2
          DEF Reads, BetweenRequests, InHand, HeadRead, ContentRead, WholeRead, InRequest, Leaving
<1>8. CASE (SendStatus(501) \/ SendStatus(413)) /\ UNCHANGED buffer
  <2>1. StreamInv'
    BY <1>2, <1>6, <1>8, StreamStays
  <2>2. errors' # <<>>
    BY <1>1, <1>8, Refused
  <2> QED BY <2>1, <2>2
<1>9. CASE Of(cur).type \in {"form", "json"} /\ TakeContent /\ pc' = "content"
  <2> DEFINE n == Least(Len(buffer), body)
  <2>0. n \in 0..Len(buffer) /\ n \in 0..body /\ body \in Nat /\ (n = Len(buffer) \/ n = body)
    BY <1>4 DEF Least
  <2>1. /\ content' = Ahead(buffer, n) /\ buffer' = Behind(buffer, n)
        /\ received' = Parsed(Of(cur).type, Len(content'), body, content')
    BY <1>9 DEF TakeContent
  <2> HIDE DEF n
  <2>2. StreamInv' /\ Used' = Used + n
    BY <2>0, <2>1, <1>2, <1>6, StreamTaken
  <2>3. /\ content' \in Seq(Parts(s)) /\ Len(content') = n /\ \A k \in 1..n : content'[k] = buffer[k]
        /\ buffer' \in Seq(Parts(s)) /\ Len(buffer') = Len(buffer) - n
    BY <1>0, <2>0, <2>1, AheadBehind
  <2>4. content' = Body(i, n)
    <3>1. ASSUME NEW k \in 1..n
          PROVE  content'[k] = [req |-> i, part |-> "body"]
      <4>1. k \in 1..Len(buffer) /\ k \in 1..body
        BY <1>0, <2>0
      <4>2. buffer[k] = S[Used + k]
        BY <4>1, <1>2 DEF StreamInv
      <4> QED BY <4>1, <4>2, <2>3, <1>2, <1>3
    <3> QED BY <3>1, <2>3, BodyIs
  <2>5. received' = n
    <3>1. content' # <<>> => n # 0
      BY <2>3, EmptySeq
    <3> QED BY <3>1, <2>0, <2>1, <2>3, <1>5 DEF Parsed
  <2>6. buffer' = <<>> \/ n = body
    <3>1. n = Len(buffer) => Len(buffer') = 0
      BY <1>0, <2>3
    <3> QED BY <3>1, <2>0, <2>3, EmptySeq
  <2>7. ContentRead'
    <3>1. Used' = Start(script', cur'.req) + 2 + Len(content')
      BY <1>2, <1>6, <2>2, <2>3
    <3>2. Len(content') \in 0..Of(cur)'.body /\ received' = Len(content') /\ content' = Body(cur'.req, Len(content'))
      BY <1>6, <2>0, <2>3, <2>4, <2>5
    <3> QED BY <1>6, <1>9, <2>3, <2>6, <3>1, <3>2 DEF ContentRead
  <2>8. InHand'
    BY <1>2, <1>6 DEF InHand
  <2>9. BetweenRequests' /\ HeadRead' /\ WholeRead'
    BY <1>9 DEF BetweenRequests, HeadRead, WholeRead, Leaving
  <2> QED BY <2>2, <2>7, <2>8, <2>9 DEF Reads
<1> QED BY <1>7, <1>8, <1>9 DEF GetRequestData

LEMMA ContentStep ==
    ASSUME BodiesAnnounced, TypeInv, RefusalInv, SyncInv, ParseRequestContentType
    PROVE  StreamInv' /\ (errors' = <<>> => Reads')
<1> USE DEF connection, request, history
<1> DEFINE s == script
           i == cur.req
           S == Stream(script)
           body == Of(cur).body
           n == Len(content)
<1>0. /\ s \in Seq(Requests) /\ Len(s) \in Nat /\ rest \in Seq(Parts(s)) /\ content \in Seq(Parts(s))
      /\ Len(rest) \in Nat /\ Len(S) \in Nat /\ n \in Nat /\ s \in Scripts
  BY Lengths DEF TypeInv, StreamTypes
<1>1. pc = "content" /\ errors = <<>> /\ pc \in InRequest
  BY DEF ParseRequestContentType, RefusalInv, Leaving, InRequest
<1>2. /\ StreamInv /\ cur.req = Len(served) + 1 /\ cur.clean /\ i \in 1..Len(s)
      /\ Of(cur).type \in {"form", "json"} /\ n \in 0..body /\ received = n
      /\ content = Body(i, n) /\ Used = Start(s, i) + 2 + n /\ (buffer = <<>> \/ n = body)
  BY <1>1 DEF SyncInv, Reads, ContentRead, InHand, InRequest, TypeInv, RequestTypes
<1>3. /\ Start(s, i) \in Nat /\ Start(s, i + 1) = Start(s, i) + body + 2
      /\ \A k \in 1..body : S[Start(s, i) + 2 + k] = [req |-> i, part |-> "body"]
  BY <1>0, <1>2, StreamOf DEF Of
<1>4. body \in Nat
  BY <1>1, BodyFits
<1>5. Of(cur).type = "json" => body <= 1
  <2>1. i \in DOMAIN s
    BY <1>0, <1>2
  <2> QED BY <1>0, <2>1 DEF BodiesAnnounced, Of
<1>6. script' = script /\ buffer' = buffer /\ cur' = cur /\ served' = served /\ Of(cur)' = Of(cur)
  BY DEF ParseRequestContentType, Of
<1> HIDE DEF n
<1>7. CASE ContentComplete /\ pc' = "run" /\ UNCHANGED <<content, rest>>
  <2>1. StreamInv' /\ Used' = Used
    BY <1>2, <1>6, <1>7, StreamStays
  <2>2. n = body
    BY <1>2, <1>4, <1>7 DEF ContentComplete
  <2>3. Used' = Start(script', cur'.req + 1)
    <3>1. Start(script', cur'.req + 1) = Start(s, i + 1)
      BY <1>6, Zenon
    <3>2. Used' = Start(s, i) + 2 + n
      BY <1>2, <2>1, Zenon
    <3>3. Start(s, i) \in Nat /\ Start(s, i + 1) = Start(s, i) + body + 2
      BY <1>3
    <3> HIDE DEF s, i, body
    <3>4. Used' = Start(s, i + 1)
      BY <1>4, <2>2, <3>2, <3>3
    <3> QED BY <3>1, <3>4
  <2>4. content' = Body(cur'.req, Of(cur)'.body)
    BY <1>2, <1>6, <1>7, <2>2
  <2> QED BY <1>2, <1>6, <1>7, <2>1, <2>3, <2>4
          DEF Reads, BetweenRequests, InHand, HeadRead, ContentRead, WholeRead, InRequest, Leaving
<1>8. CASE SendStatus(500) /\ UNCHANGED rest
  <2>1. StreamInv'
    BY <1>2, <1>6, <1>8, StreamStays
  <2>2. errors' # <<>>
    BY <1>1, <1>8, Refused
  <2> QED BY <2>1, <2>2
<1>9. ASSUME ~ContentComplete, NEW m \in 1..Len(rest), Packet(m, body - received),
             content' = content \o Ahead(rest, m), rest' = Behind(rest, m),
             received' = Parsed(Of(cur).type, received + m, body, Ahead(rest, m)), pc' = pc
      PROVE  StreamInv' /\ (errors' = <<>> => Reads')
  <2>1. buffer = <<>> /\ n < body
    BY <1>2, <1>4, <1>9 DEF ContentComplete
  <2>2. m \in 0..Len(rest) /\ m >= 1 /\ n + m \in 0..body
    BY <1>0, <1>2, <1>4, <1>9 DEF Packet, Least
  <2>3. StreamInv' /\ Used' = Used + m
    BY <2>1, <1>2, <1>6, <1>9, StreamRead
  <2> DEFINE f == Ahead(rest, m)
  <2>4. f \in Seq(Parts(s)) /\ Len(f) = m /\ \A k \in 1..m : f[k] = rest[k]
    BY <1>0, <2>2, AheadBehind
  <2>5. content' = content \o f /\ received' = Parsed(Of(cur).type, received + m, body, f)
    BY <1>9
  <2> HIDE DEF f
  <2>6. /\ content' \in Seq(Parts(s)) /\ Len(content') = n + Len(f)
        /\ \A k \in 1..n + Len(f) : content'[k] = IF k <= n THEN content[k] ELSE f[k - n]
    BY <1>0, <2>4, <2>5, ConcatProperties DEF n
  <2>7. content' = Body(i, n + m)
    <3>1. ASSUME NEW k \in 1..n + m
          PROVE  content'[k] = [req |-> i, part |-> "body"]
      <4>1. CASE k <= n
        <5>1. content'[k] = content[k] /\ k \in 1..n
          BY <1>0, <2>4, <2>6, <4>1 DEF n
        <5>2. content[k] = [req |-> i, part |-> "body"]
          BY <1>2, <5>1 DEF Body
        <5> QED BY <5>1, <5>2
      <4>2. CASE ~(k <= n)
        <5>1. PICK j \in 1..m : k = n + j
          <6>1. k - n \in 1..m /\ k = n + (k - n)
            BY <1>0, <2>2, <4>2 DEF n
          <6> QED BY <6>1
        <5>2. k - n = j /\ j \in 1..Len(rest) /\ k \in 1..body /\ k \in 1..n + Len(f)
          BY <1>0, <1>4, <2>2, <2>4, <5>1 DEF n
        <5>3. content'[k] = rest[j]
          BY <2>4, <2>6, <4>2, <5>2
        <5>4. rest[j] = S[Used + Len(buffer) + j]
          BY <1>2, <5>2 DEF StreamInv
        <5>5. Used + Len(buffer) + j = Start(s, i) + 2 + k
          <6>1. Len(buffer) = 0
            BY <2>1, EmptySeq
          <6>2. Used = Start(s, i) + 2 + n
            BY <1>2
          <6>3. Start(s, i) \in Nat /\ n \in Nat /\ j \in Nat
            BY <1>0, <1>3
          <6> HIDE DEF s, i
          <6> QED BY <6>1, <6>2, <6>3, <5>1
        <5> QED BY <5>2, <5>3, <5>4, <5>5, <1>3
      <4> QED BY <4>1, <4>2
    <3>2. Len(content') = n + m
      BY <2>4, <2>6
    <3> QED BY <3>1, <3>2, <2>6, BodyIs
  <2>8. received' = n + m
    <3>1. Len(f) # 0
      BY <2>2, <2>4
    <3>2. f # <<>>
      BY <3>1, EmptySeq
    <3> QED BY <3>2, <1>0, <1>2, <1>4, <1>5, <2>1, <2>2, <2>5 DEF Parsed, n
  <2>9. ContentRead'
    <3>1. Len(content') = n + m
      BY <2>4, <2>6
    <3>2. Used' = Start(script', cur'.req) + 2 + Len(content')
      BY <1>0, <1>2, <1>3, <1>6, <2>2, <2>3, <3>1 DEF n
    <3>3. Len(content') \in 0..Of(cur)'.body /\ received' = Len(content') /\ content' = Body(cur'.req, Len(content'))
      BY <1>6, <2>2, <2>7, <2>8, <3>1
    <3>4. buffer' = <<>> /\ Of(cur)'.type \in {"form", "json"}
      BY <1>2, <1>6, <2>1
    <3> QED BY <3>2, <3>3, <3>4 DEF ContentRead
  <2>10. InHand'
    BY <1>2, <1>6 DEF InHand
  <2>11. BetweenRequests' /\ HeadRead' /\ WholeRead'
    BY <1>1, <1>9 DEF BetweenRequests, HeadRead, WholeRead, Leaving
  <2> QED BY <2>3, <2>9, <2>10, <2>11 DEF Reads
<1> QED BY <1>7, <1>8, <1>9 DEF ParseRequestContentType, ReadContent

LEMMA RunStep ==
    ASSUME TypeInv, RefusalInv, SyncInv, RunApplication
    PROVE  SyncInv'
<1> USE DEF connection, request, history
<1> DEFINE n == Len(served)
           r == served'[n + 1]
<1>0. /\ served \in Seq(Runs(script)) /\ n \in Nat /\ Len(script) \in Nat /\ DOMAIN served = 1..n
  BY Lengths, LenProperties DEF TypeInv, HistoryTypes
<1>1. pc = "run" /\ errors = <<>> /\ pc' = "loop" /\ script' = script /\ buffer' = buffer /\ rest' = rest
  BY DEF RunApplication, RefusalInv, Leaving
<1>2. /\ StreamInv /\ cur.req = n + 1 /\ cur.clean /\ n + 1 \in 1..Len(script)
      /\ Used = Start(script, cur.req + 1)
      /\ Of(cur).type \in {"form", "json"} => content = Body(cur.req, Of(cur).body)
  BY <1>1 DEF SyncInv, Reads, InHand, WholeRead, InRequest, TypeInv, RequestTypes
<1>3. PICK e : served' = Append(served, e) /\ e.req = cur.req /\ e.clean = cur.clean /\ e.parsed = content
  BY DEF RunApplication
<1>4. /\ Len(served') = n + 1 /\ DOMAIN served' = 1..n + 1
      /\ \A j \in 1..n : served'[j] = served[j]
      /\ r = e
  BY <1>0, <1>3
<1> HIDE DEF r
<1>5. InSync'
  <2>1. ASSUME NEW k \in 1..n + 1
        PROVE  served'[k].req = k /\ served'[k].clean
    <3>1. CASE k = n + 1
      BY <1>2, <1>3, <1>4, <3>1 DEF r
    <3>2. CASE k \in 1..n
      BY <1>0, <1>4, <3>2 DEF SyncInv, InSync
    <3> QED BY <1>0, <3>1, <3>2
  <2> QED BY <2>1, <1>4 DEF InSync
<1>6. ContentWhole'
  <2>1. ASSUME NEW k \in 1..n + 1, script[served'[k].req].type \in {"form", "json"}
        PROVE  served'[k].parsed = Body(served'[k].req, script[served'[k].req].body)
    <3>1. CASE k = n + 1
      BY <2>1, <1>2, <1>3, <1>4, <3>1 DEF r, Of
    <3>2. CASE k \in 1..n
      BY <2>1, <1>0, <1>4, <3>2 DEF SyncInv, ContentWhole
    <3> QED BY <1>0, <3>1, <3>2
  <2> QED BY <2>1, <1>1, <1>4 DEF ContentWhole
<1>7. StreamInv' /\ Used' = Used
  BY <1>1, <1>2, StreamStays
<1>8. Reads'
  <2>1. Used' = Start(script', Len(served') + 1)
    BY <1>1, <1>2, <1>4, <1>7
  <2> QED BY <1>1, <2>1 DEF Reads, BetweenRequests, InHand, HeadRead, ContentRead, WholeRead, InRequest
<1> QED BY <1>0, <1>1, <1>2, <1>4, <1>5, <1>6, <1>7, <1>8 DEF SyncInv

LEMMA SyncStep ==
    ASSUME BodiesAnnounced, TypeInv, RefusalInv, SyncInv, [Next]_vars
    PROVE  SyncInv'
<1> USE DEF connection, request, history
<1>0. /\ Len(script) \in Nat /\ Len(rest) \in Nat
  BY Lengths
<1>1. ASSUME UNCHANGED <<script, served>>, StreamInv', errors' = <<>> => Reads'
      PROVE  SyncInv'
  BY <1>1, RunsStay DEF SyncInv
<1>2. ASSUME UNCHANGED <<script, served, buffer, rest, errors>>,
             errors = <<>> /\ Reads => Reads'
      PROVE  SyncInv'
  <2>1. StreamInv'
    BY <1>2, StreamStays DEF SyncInv
  <2>2. errors' = <<>> => Reads'
    BY <1>2 DEF SyncInv
  <2> QED BY <1>1, <1>2, <2>1, <2>2
<1>3. CASE UNCHANGED vars
  BY <1>2, <1>3 DEF vars, Reads, BetweenRequests, InHand, HeadRead, ContentRead, WholeRead, Used, Of
<1>4. CASE CreateProto
  BY <1>2, <1>4 DEF CreateProto, Reads, BetweenRequests, InHand, HeadRead, ContentRead, WholeRead, Used, Leaving, InRequest
<1>5. CASE GetRequest
  <2>0. UNCHANGED <<script, served, errors>> /\ pc = "receive" /\ pc' \in {"headers", "loop"}
    BY <1>5 DEF GetRequest
  <2>1. CASE UNCHANGED <<buffer, rest>>
    BY <1>2, <2>0, <2>1 DEF Reads, BetweenRequests, InHand, HeadRead, ContentRead, WholeRead, Used, Leaving, InRequest
  <2>2. ASSUME NEW n \in 1..Len(rest), buffer' = buffer \o Ahead(rest, n), rest' = Behind(rest, n)
        PROVE  SyncInv'
    <3>1. StreamInv' /\ Used' = Used
      BY <2>0, <2>2, StreamReceived DEF SyncInv
    <3>2. errors' = <<>> => Reads'
      BY <2>0, <3>1 DEF SyncInv, Reads, BetweenRequests, InHand, HeadRead, ContentRead, WholeRead, Leaving, InRequest
    <3> QED BY <1>1, <2>0, <3>1, <3>2
  <2> QED BY <1>5, <2>1, <2>2 DEF GetRequest
<1>6. CASE GetRequestHeaders
  BY <1>1, <1>6, HeadsStep DEF GetRequestHeaders
<1>7. CASE GetApplicationSettingsForRequest
  <2>0. UNCHANGED <<script, served, buffer, rest, cur>> /\ pc = "lookup"
    BY <1>7 DEF GetApplicationSettingsForRequest
  <2>1. CASE SendStatus(404)
    <3>1. errors' # <<>>
      BY <2>0, <2>1, Refused DEF RefusalInv, Leaving
    <3>2. StreamInv'
      BY <2>0, StreamStays DEF SyncInv
    <3> QED BY <1>1, <2>0, <3>1, <3>2
  <2>2. CASE pc' = "data" /\ UNCHANGED errors
    BY <1>2, <2>0, <2>2
       DEF Reads, BetweenRequests, InHand, HeadRead, ContentRead, WholeRead, Used, Leaving, InRequest
  <2> QED BY <1>7, <2>1, <2>2 DEF GetApplicationSettingsForRequest
<1>8. CASE GetRequestData
  BY <1>1, <1>8, DataStep DEF GetRequestData
<1>9. CASE ParseRequestContentType
  BY <1>1, <1>9, ContentStep DEF ParseRequestContentType
<1>10. CASE RunApplication
  BY <1>10, RunStep
<1>11. CASE NextTurn
  BY <1>2, <1>11 DEF NextTurn, Reads, BetweenRequests, InHand, HeadRead, ContentRead, WholeRead, Used, Leaving, InRequest
<1>12. CASE Close
  BY <1>2, <1>12 DEF Close, Reads, BetweenRequests, InHand, HeadRead, ContentRead, WholeRead, Used, Leaving, InRequest
<1> QED BY <1>3, <1>4, <1>5, <1>6, <1>7, <1>8, <1>9, <1>10, <1>11, <1>12 DEF Next, RunProtocol

LEMMA SyncAlways ==
    ASSUME BodiesAnnounced
    PROVE  Spec => [](TypeInv /\ RefusalInv /\ SyncInv)
<1>1. Init => TypeInv /\ RefusalInv /\ SyncInv
  BY TypesInit, SyncInit DEF Init, RefusalInv
<1>2. TypeInv /\ RefusalInv /\ SyncInv /\ [Next]_vars => (TypeInv /\ RefusalInv /\ SyncInv)'
  BY TypesStep, RefusalStep, SyncStep
<1> QED BY <1>1, <1>2, PTL DEF Spec, SafeSpec

(* An application is run for the client's requests, each once and in       *)
(* order, however the stream is cut into packets: for every client whose   *)
(* content has a type and whose JSON comes in one piece.  Without the      *)
(* first the body of a request is read as the next one, without the second *)
(* what is left of it is (Http.cpp, GetRequestData and ApplicationJson).   *)
THEOREM StaysInStep == BodiesAnnounced => (Spec => []HttpInv)
<1> SUFFICES ASSUME BodiesAnnounced PROVE Spec => []HttpInv
  OBVIOUS
<1>1. TypeInv /\ SyncInv => HttpInv
  BY TypesImplied DEF HttpInv, SyncInv
<1> QED BY <1>1, SyncAlways, PTL

(* An application is run when the parser has been given all of the content *)
(* its request announced, under the same condition on the clients.         *)
THEOREM RunsWithAllContent == BodiesAnnounced => (Spec => []ContentWhole)
<1> SUFFICES ASSUME BodiesAnnounced PROVE Spec => []ContentWhole
  OBVIOUS
<1>1. SyncInv => ContentWhole
  BY DEF SyncInv
<1> QED BY <1>1, SyncAlways, PTL

-----------------------------------------------------------------------------
(* The invariant of the loops of ContentParsing: the buffer is a window of *)
(* the text, the loop stands at the beginning of a part, and it has        *)
(* inserted as many pairs as there are parts before its place.             *)
Char == STRING

(* Where in the text the buffer begins, and where the loop is.             *)
Offset == Len(text) - Len(unread) - Len(contentBuffer)
Here == Offset + (IF phase = "receive" THEN Len(contentBuffer) - leftBytes + 1 ELSE pos)

Before(i) == Cardinality({j \in Separators : j < i})

TextTypes ==
    /\ text \in Seq(Char) /\ Len(text) < Infinity
    /\ unread \in Seq(Char) /\ contentBuffer \in Seq(Char)

PlaceTypes ==
    /\ bytesReceived + Len(unread) = Len(text) /\ bytesReceived \in Nat
    /\ leftBytes \in 0..Len(contentBuffer) /\ pos \in 1..Len(contentBuffer) + 1

PairTypes == \E S : pairs \in Seq(S)

PhaseTypes ==
    /\ kind \in Kinds
    /\ phase \in {"first", "receive", "turn", "done", "failed"}
    /\ phase \in {"first", "turn"} => leftBytes = 0
    /\ phase = "first" => contentBuffer = <<>>
    /\ kind \in {"parameters", "cookies"} => unread = <<>> /\ contentBuffer = text /\ phase \notin {"first", "receive"}

Window ==
    /\ Offset \in Nat
    /\ \A i \in 1..Len(contentBuffer) : contentBuffer[i] = text[Offset + i]
    /\ \A i \in 1..Len(unread) : unread[i] = text[Len(text) - Len(unread) + i]

AtAPart == phase \in {"first", "receive", "turn"} => Here \in Starts /\ Before(Here) = Len(pairs)

CookiesHaveValues == kind = "cookies" => \A k \in 1..Len(pairs) : HasValue(TextParts[k])

WindowInv == TextTypes /\ PlaceTypes /\ PairTypes /\ PhaseTypes /\ Window

PartsInv == WindowInv /\ AtAPart /\ CookiesHaveValues /\ AllPartsArrive /\ CookiesUpToABadOne /\ PairsArrive

-----------------------------------------------------------------------------
(* The least element of a set of numbers, as Min gives it.                 *)
LEMMA MinOf ==
    ASSUME NEW T, T \subseteq Nat, T # {}
    PROVE  Min(T) \in T /\ \A y \in T : Min(T) <= y
<1>1. PICK x \in T : \A y \in T : ~(y < x)
  BY LeastNumber
<1>2. \A y \in T : x <= y
  BY <1>1
<1> QED BY <1>2 DEF Min

(* What Find gives: nothing, or the first place of the character.          *)
LEMMA FindIs ==
    ASSUME contentBuffer \in Seq(Char), NEW c, NEW from \in Nat \ {0}
    PROVE  \/ Find(c, from) = None /\ \A i \in from..Len(contentBuffer) : contentBuffer[i] # c
           \/ /\ Find(c, from) \in from..Len(contentBuffer) /\ contentBuffer[Find(c, from)] = c
              /\ \A i \in from..Find(c, from) - 1 : contentBuffer[i] # c
<1> DEFINE at == {i \in from..Len(contentBuffer) : contentBuffer[i] = c}
<1>1. Find(c, from) = IF at = {} THEN None ELSE Min(at)
  BY DEF Find
<1>2. at \subseteq Nat
  OBVIOUS
<1>3. CASE at = {}
  BY <1>1, <1>3
<1>4. CASE at # {}
  <2>1. Min(at) \in at /\ \A y \in at : Min(at) <= y
    <3> HIDE DEF at
    <3> QED BY <1>2, <1>4, MinOf
  <2>2. Min(at) \in from..Len(contentBuffer) /\ contentBuffer[Min(at)] = c
    BY <2>1
  <2>3. \A i \in from..Min(at) - 1 : contentBuffer[i] # c
    BY <2>1, <2>2
  <2> QED BY <1>1, <1>4, <2>2, <2>3
<1> QED BY <1>3, <1>4

-----------------------------------------------------------------------------
(* The parts of a text: how many separators stand before a place says      *)
(* which part begins there.                                                *)
LEMMA SeparatorsAre ==
    ASSUME text \in Seq(Char)
    PROVE  /\ Separators \subseteq 1..Len(text) /\ Separators \subseteq Nat /\ IsFiniteSet(Separators)
           /\ Starts \subseteq Nat \ {0} /\ Cardinality(Separators) \in Nat
           /\ \A j \in 1..Len(text) : j \in Separators <=> text[j] = "&"
<1>1. Separators \subseteq 1..Len(text) /\ \A j \in 1..Len(text) : j \in Separators <=> text[j] = "&"
  BY DEF Separators
<1>2. IsFiniteSet(1..Len(text))
  BY FS_Interval
<1>3. IsFiniteSet(Separators)
  BY <1>1, <1>2, FS_Subset
<1>4. Cardinality(Separators) \in Nat
  BY <1>3, FS_CardinalityType
<1>5. Separators \subseteq Nat \ {0}
  BY <1>1, LenProperties
<1>6. Starts \subseteq Nat \ {0}
  <2>1. ASSUME NEW i \in Starts PROVE i \in Nat \ {0}
    <3>1. i = 1 \/ \E j \in Separators : i = j + 1
      BY DEF Starts
    <3> QED BY <1>5, <3>1
  <2> QED BY <2>1
<1> QED BY <1>1, <1>3, <1>4, <1>5, <1>6

LEMMA BeforeIs ==
    ASSUME text \in Seq(Char), NEW i \in Nat
    PROVE  /\ IsFiniteSet({j \in Separators : j < i}) /\ Before(i) \in Nat
           /\ Before(i) <= Cardinality(Separators)
<1>1. {j \in Separators : j < i} \in SUBSET Separators
  OBVIOUS
<1>2. IsFiniteSet({j \in Separators : j < i}) /\ Before(i) <= Cardinality(Separators)
  BY <1>1, SeparatorsAre, FS_Subset DEF Before
<1> QED BY <1>2, FS_CardinalityType DEF Before

LEMMA BeforeGrows ==
    ASSUME text \in Seq(Char), NEW i \in Nat, NEW k \in Nat, NEW s \in Separators, i <= s, s < k
    PROVE  Before(i) < Before(k)
<1> DEFINE A == {j \in Separators : j < i}
           B == {j \in Separators : j < k}
<1>1. A \in SUBSET B /\ s \in B /\ s \notin A
  <2>1. \A j \in Separators : j \in Nat
    BY SeparatorsAre
  <2>2. s \in Nat /\ s \in Separators
    BY <2>1
  <2>3. \A j \in Separators : j < i => j < k
    BY <2>1, <2>2
  <2>4. A \in SUBSET B
    BY <2>3
  <2>5. s \in B
    BY <2>2
  <2>6. s \notin A
    BY <2>2
  <2> QED BY <2>4, <2>5, <2>6
<1>2. IsFiniteSet(B) /\ Cardinality(A) = Before(i) /\ Cardinality(B) = Before(k)
  BY BeforeIs DEF Before
<1>3. Cardinality(A) <= Cardinality(B) /\ Cardinality(A) # Cardinality(B)
  <2> HIDE DEF A, B
  <2>1. Cardinality(A) <= Cardinality(B) /\ (Cardinality(B) = Cardinality(A) => B = A)
    BY <1>1, <1>2, FS_Subset
  <2> QED BY <1>1, <2>1
<1>4. Before(i) \in Nat /\ Before(k) \in Nat
  BY BeforeIs
<1> QED BY <1>2, <1>3, <1>4

LEMMA StartIs ==
    ASSUME text \in Seq(Char), NEW i \in Starts
    PROVE  StartOf(Before(i) + 1) = i
<1>1. Starts \subseteq Nat \ {0}
  BY SeparatorsAre
<1>2. ASSUME NEW a \in Starts, NEW b \in Starts, a < b
      PROVE  Before(a) < Before(b)
  <2>1. b = 1 \/ \E s \in Separators : b = s + 1
    BY DEF Starts
  <2>2. a \in Nat \ {0} /\ b \in Nat \ {0}
    BY <1>1
  <2>3. PICK s \in Separators : b = s + 1
    BY <1>2, <2>1, <2>2
  <2>4. s \in Nat
    BY SeparatorsAre
  <2>5. a <= s /\ s < b
    BY <1>2, <2>2, <2>3, <2>4
  <2> QED BY <2>2, <2>5, BeforeGrows
<1>3. \A a \in Starts : Before(a) \in Nat
  BY <1>1, BeforeIs
<1>4. \A a \in Starts : Before(a) = Before(i) => a = i
  BY <1>1, <1>2, <1>3
<1> DEFINE k == Before(i) + 1
<1>5. k - 1 = Before(i)
  BY <1>3
<1> HIDE DEF k
<1>6. StartOf(k) = CHOOSE a \in Starts : Before(a) = k - 1
  BY Zenon DEF StartOf, Before
<1>7. StartOf(k) \in Starts /\ Before(StartOf(k)) = k - 1
  BY <1>5, <1>6
<1>8. StartOf(k) = i
  BY <1>4, <1>5, <1>7
<1> QED BY <1>8 DEF k

LEMMA NextStart ==
    ASSUME text \in Seq(Char), NEW i \in Nat, NEW e \in Separators, i <= e, \A j \in Separators : j >= i => e <= j
    PROVE  e + 1 \in Starts /\ Before(e + 1) = Before(i) + 1
<1>1. Separators \subseteq Nat
  BY SeparatorsAre
<1>2. {j \in Separators : j < e + 1} = {j \in Separators : j < i} \cup {e}
  <2>1. e \in Nat
    BY <1>1
  <2>2. ASSUME NEW j \in Separators PROVE j < e + 1 <=> j < i \/ j = e
    <3>1. j \in Nat /\ (j >= i => e <= j)
      BY <1>1
    <3> QED BY <2>1, <3>1
  <2> QED BY <2>2
<1>3. IsFiniteSet({j \in Separators : j < i}) /\ e \notin {j \in Separators : j < i}
  BY <1>1, BeforeIs
<1>4. Cardinality({j \in Separators : j < i} \cup {e}) = Cardinality({j \in Separators : j < i}) + 1
  BY <1>3, FS_AddElement
<1> QED BY <1>2, <1>4 DEF Before, Starts

LEMMA NoneBehind ==
    ASSUME text \in Seq(Char), NEW i \in Nat, \A j \in Separators : j < i
    PROVE  Before(i) = Cardinality(Separators)
<1>1. {j \in Separators : j < i} = Separators
  OBVIOUS
<1> QED BY <1>1 DEF Before

(* The end of a part is the first separator behind its beginning, or the   *)
(* end of the text.                                                        *)
LEMMA EndIs ==
    ASSUME text \in Seq(Char), NEW i \in Nat
    PROVE  /\ EndOf(i) \in {j \in Separators : j >= i} \cup {Len(text) + 1}
           /\ \A j \in Separators : j >= i => EndOf(i) <= j
           /\ EndOf(i) <= Len(text) + 1 /\ EndOf(i) \in Nat
<1> DEFINE T == {j \in Separators : j >= i} \cup {Len(text) + 1}
<1>1. T \subseteq Nat /\ T # {}
  BY SeparatorsAre
<1>2. Min(T) \in T /\ \A y \in T : Min(T) <= y
  <2> HIDE DEF T
  <2> QED BY <1>1, MinOf
<1>3. EndOf(i) = Min(T)
  BY DEF EndOf
<1> QED BY <1>1, <1>2, <1>3

(* The part that begins at a place.                                        *)
LEMMA PartIs ==
    ASSUME text \in Seq(Char), NEW i \in Starts
    PROVE  /\ Before(i) + 1 \in 1..Len(TextParts)
           /\ TextParts[Before(i) + 1] = SubSeq(text, i, EndOf(i) - 1)
<1> DEFINE N == Cardinality(Separators)
           k == Before(i) + 1
<1>1. N \in Nat /\ i \in Nat
  BY SeparatorsAre
<1>2. Before(i) \in Nat /\ Before(i) <= N
  BY <1>1, BeforeIs
<1>3. k \in 1..N + 1
  BY <1>1, <1>2
<1>4. StartOf(k) = i
  BY StartIs
<1>5. TextParts[k] = SubSeq(text, StartOf(k), EndOf(StartOf(k)) - 1) /\ Len(TextParts) = N + 1
  <2> DEFINE P(m) == SubSeq(text, StartOf(m), EndOf(StartOf(m)) - 1)
  <2>1. TextParts = [m \in 1..N + 1 |-> P(m)]
    BY DEF TextParts
  <2>2. TextParts[k] = P(k) /\ Len(TextParts) = N + 1
    <3> HIDE DEF N, k, P
    <3> QED BY <1>1, <1>3, <2>1
  <2> QED BY <2>2
<1> QED BY <1>3, <1>4, <1>5

LEMMA PartsLength ==
    ASSUME text \in Seq(Char)
    PROVE  Len(TextParts) = Cardinality(Separators) + 1
<1>1. Cardinality(Separators) \in Nat
  BY SeparatorsAre
<1> QED BY <1>1 DEF TextParts

-----------------------------------------------------------------------------
(* The numbers of the window.                                              *)
LEMMA WindowIs ==
    ASSUME WindowInv
    PROVE  /\ text \in Seq(Char) /\ unread \in Seq(Char) /\ contentBuffer \in Seq(Char)
           /\ Len(text) \in Nat /\ Len(unread) \in Nat /\ Len(contentBuffer) \in Nat
           /\ Offset \in Nat /\ Offset + Len(contentBuffer) + Len(unread) = Len(text)
           /\ pos \in 1..Len(contentBuffer) + 1 /\ leftBytes \in 0..Len(contentBuffer)
           /\ bytesReceived + Len(unread) = Len(text) /\ bytesReceived \in Nat
           /\ Len(text) < Infinity
           /\ \A i \in 1..Len(contentBuffer) : contentBuffer[i] = text[Offset + i]
<1>1. text \in Seq(Char) /\ unread \in Seq(Char) /\ contentBuffer \in Seq(Char)
  BY DEF WindowInv, TextTypes
<1>2. Len(text) \in Nat /\ Len(unread) \in Nat /\ Len(contentBuffer) \in Nat
  BY <1>1, LenProperties
<1>3. Offset + Len(contentBuffer) + Len(unread) = Len(text)
  BY <1>2 DEF Offset
<1> QED BY <1>1, <1>2, <1>3 DEF WindowInv, TextTypes, PlaceTypes, Window

(* A separator of the text that is in the buffer is found there.           *)
LEMMA SeparatorInBuffer ==
    ASSUME WindowInv, NEW i \in 1..Len(contentBuffer)
    PROVE  Offset + i \in Separators <=> contentBuffer[i] = "&"
<1>1. Offset + i \in 1..Len(text) /\ contentBuffer[i] = text[Offset + i]
  BY WindowIs
<1> QED BY <1>1, WindowIs, SeparatorsAre

(* The end of the buffer's part, counted in the buffer.                    *)
PartEnd == IF Find("&", pos) = None THEN Len(contentBuffer) + 1 ELSE Find("&", pos)

(* All of the loop's next part is in the buffer.                           *)
Turning ==
    /\ WindowInv /\ AtAPart /\ phase = "turn"
    /\ Find("&", pos) = None => unread = <<>>

LEMMA PartEndIs ==
    ASSUME Turning
    PROVE  /\ PartEnd \in pos..Len(contentBuffer) + 1 /\ PartEnd \in Nat
           /\ \A i \in pos..PartEnd - 1 : contentBuffer[i] # "&"
           /\ Find("&", pos) # None => PartEnd = Find("&", pos) /\ PartEnd \in 1..Len(contentBuffer) /\ contentBuffer[PartEnd] = "&"
           /\ Find("&", pos) = None => PartEnd = Len(contentBuffer) + 1 /\ Offset + PartEnd = Len(text) + 1
<1>0. WindowInv /\ (Find("&", pos) = None => unread = <<>>)
  BY DEF Turning
<1>1. contentBuffer \in Seq(Char) /\ Len(contentBuffer) \in Nat /\ pos \in 1..Len(contentBuffer) + 1 /\ pos \in Nat \ {0}
  BY <1>0, WindowIs
<1> DEFINE f == Find("&", pos)
<1>2. \/ f = None /\ \A i \in pos..Len(contentBuffer) : contentBuffer[i] # "&"
      \/ /\ f \in pos..Len(contentBuffer) /\ contentBuffer[f] = "&"
         /\ \A i \in pos..f - 1 : contentBuffer[i] # "&"
  BY <1>1, FindIs
<1>3. PartEnd = IF f = None THEN Len(contentBuffer) + 1 ELSE f
  BY DEF PartEnd
<1>4. f = None => Offset + Len(contentBuffer) = Len(text) /\ Offset \in Nat /\ Len(text) \in Nat
  <2>1. HAVE f = None
  <2>2. Len(unread) = 0
    BY <1>0, <2>1, EmptySeq
  <2> QED BY <1>0, <2>2, WindowIs
<1> HIDE DEF f
<1>5. CASE f = None
  <2>1. PartEnd = Len(contentBuffer) + 1 /\ PartEnd - 1 = Len(contentBuffer)
    BY <1>1, <1>3, <1>5
  <2>2. \A i \in pos..PartEnd - 1 : contentBuffer[i] # "&"
    BY <1>1, <1>2, <1>5, <2>1 DEF None
  <2>3. Offset + PartEnd = Len(text) + 1
    BY <1>1, <1>4, <1>5, <2>1
  <2> QED BY <1>1, <1>5, <2>1, <2>2, <2>3 DEF f
<1>6. CASE f # None
  <2>1. PartEnd = f
    BY <1>3, <1>6
  <2> QED BY <1>1, <1>2, <1>6, <2>1 DEF f
<1> QED BY <1>5, <1>6

LEMMA TurnIs ==
    ASSUME Turning
    PROVE  /\ Here = Offset + pos /\ EndOf(Here) = Offset + PartEnd
           /\ Len(pairs) + 1 \in 1..Len(TextParts)
           /\ Find("&", pos) # None => /\ Offset + PartEnd + 1 \in Starts
                                       /\ Before(Offset + PartEnd + 1) = Len(pairs) + 1
           /\ Find("&", pos) = None => Len(pairs) + 1 = Len(TextParts)
           /\ TextParts[Len(pairs) + 1] = SubSeq(text, Offset + pos, Offset + PartEnd - 1)
<1>0. WindowInv /\ AtAPart /\ phase = "turn"
  BY DEF Turning
<1>1. Here = Offset + pos /\ Here \in Starts /\ Before(Here) = Len(pairs)
  BY <1>0 DEF AtAPart, Here
<1>2. /\ PartEnd \in pos..Len(contentBuffer) + 1 /\ PartEnd \in Nat
      /\ \A i \in pos..PartEnd - 1 : contentBuffer[i] # "&"
      /\ Find("&", pos) # None => PartEnd = Find("&", pos) /\ PartEnd \in 1..Len(contentBuffer) /\ contentBuffer[PartEnd] = "&"
      /\ Find("&", pos) = None => PartEnd = Len(contentBuffer) + 1 /\ Offset + PartEnd = Len(text) + 1
  BY PartEndIs
<1>3. /\ text \in Seq(Char) /\ Len(text) \in Nat /\ Len(contentBuffer) \in Nat
      /\ Offset \in Nat /\ Offset + Len(contentBuffer) <= Len(text) /\ pos \in Nat /\ pos >= 1
  BY <1>0, WindowIs
<1>4. /\ Separators \subseteq 1..Len(text) /\ Separators \subseteq Nat
      /\ Starts \subseteq Nat \ {0} /\ Cardinality(Separators) \in Nat
  BY <1>3, SeparatorsAre
<1> DEFINE e == Offset + PartEnd
           h == Offset + pos
<1>5. e \in Nat /\ h \in Nat /\ h <= e
  BY <1>2, <1>3
<1>6. \A j \in Separators : j >= h => e <= j
  <2>1. SUFFICES ASSUME NEW j \in Separators, j >= h, j < e PROVE FALSE
    BY <1>4, <1>5
  <2>2. PICK i \in Int : i = j - Offset
    BY <1>3, <1>4
  <2>3. j \in Nat
    BY <1>4
  <2>4. i \in pos..PartEnd - 1 /\ i \in 1..Len(contentBuffer) /\ Offset + i = j
    BY <1>2, <1>3, <2>1, <2>2, <2>3
  <2>5. contentBuffer[i] = "&"
    BY <1>0, <2>4, SeparatorInBuffer
  <2> QED BY <1>2, <2>4, <2>5
<1>7. e \in Separators \/ e = Len(text) + 1
  <2>1. CASE Find("&", pos) # None
    BY <1>0, <1>2, <2>1, SeparatorInBuffer
  <2>2. CASE Find("&", pos) = None
    BY <1>2, <2>2
  <2> QED BY <2>1, <2>2
<1>8. EndOf(h) = e
  <2>1. /\ EndOf(h) \in {j \in Separators : j >= h} \cup {Len(text) + 1}
        /\ \A j \in Separators : j >= h => EndOf(h) <= j
        /\ EndOf(h) <= Len(text) + 1 /\ EndOf(h) \in Nat
    BY <1>3, <1>5, EndIs
  <2>2. e <= EndOf(h)
    <3>1. CASE EndOf(h) \in Separators /\ EndOf(h) >= h
      BY <1>6, <3>1
    <3>2. CASE EndOf(h) = Len(text) + 1
      <4>1. e <= Len(text) + 1
        BY <1>2, <1>3
      <4> QED BY <3>2, <4>1
    <3> QED BY <2>1, <3>1, <3>2
  <2>3. EndOf(h) <= e
    BY <1>5, <1>7, <2>1
  <2> QED BY <1>5, <2>1, <2>2, <2>3
<1>9. /\ Before(h) + 1 \in 1..Len(TextParts)
      /\ TextParts[Before(h) + 1] = SubSeq(text, h, EndOf(h) - 1)
  <2>1. h \in Starts
    BY <1>1
  <2> HIDE DEF h
  <2> QED BY <1>3, <2>1, PartIs
<1>10. Find("&", pos) # None => e + 1 \in Starts /\ Before(e + 1) = Len(pairs) + 1
  <2>1. HAVE Find("&", pos) # None
  <2>2. e \in Separators
    BY <1>0, <1>2, <2>1, SeparatorInBuffer
  <2>3. e + 1 \in Starts /\ Before(e + 1) = Before(h) + 1
    <3> HIDE DEF e, h
    <3> QED BY <1>3, <1>5, <1>6, <2>2, NextStart
  <2> QED BY <1>1, <2>3
<1>11. Find("&", pos) = None => Len(pairs) + 1 = Len(TextParts)
  <2>1. HAVE Find("&", pos) = None
  <2>2. e = Len(text) + 1
    BY <1>2, <2>1
  <2>3. \A j \in Separators : j < h
    <3>1. ASSUME NEW j \in Separators PROVE j < h
      <4>1. j \in Nat /\ j <= Len(text) /\ (j >= h => e <= j)
        BY <1>3, <1>4, <1>6
      <4> QED BY <1>3, <1>5, <2>2, <4>1
    <3> QED BY <3>1
  <2>4. Before(h) = Cardinality(Separators)
    <3> HIDE DEF h
    <3> QED BY <1>3, <1>5, <2>3, NoneBehind
  <2> QED BY <1>1, <1>3, <2>4, PartsLength
<1>12. Len(pairs) + 1 \in 1..Len(TextParts) /\ TextParts[Len(pairs) + 1] = SubSeq(text, h, e - 1)
  <2>1. Before(h) = Len(pairs)
    BY <1>1
  <2> HIDE DEF e, h
  <2> QED BY <1>8, <1>9, <2>1
<1>13. EndOf(Here) = e
  <2>1. Here = h
    BY <1>1
  <2> HIDE DEF e, h
  <2> QED BY <1>8, <2>1
<1>14. /\ Len(pairs) + 1 \in 1..Len(TextParts)
       /\ TextParts[Len(pairs) + 1] = SubSeq(text, Offset + pos, Offset + PartEnd - 1)
  <2>1. h = Offset + pos /\ e - 1 = Offset + PartEnd - 1
    BY <1>2, <1>3
  <2> HIDE DEF e, h
  <2> QED BY <1>12, <2>1
<1>15. Find("&", pos) # None => /\ Offset + PartEnd + 1 \in Starts
                                /\ Before(Offset + PartEnd + 1) = Len(pairs) + 1
  BY <1>10
<1>16. Here = Offset + pos /\ EndOf(Here) = Offset + PartEnd
  BY <1>1, <1>13
<1> HIDE DEF e, h
<1> QED BY <1>11, <1>14, <1>15, <1>16

-----------------------------------------------------------------------------
(* Slices with the same elements are the same.                             *)
LEMMA SameSlice ==
    ASSUME NEW T, NEW s, NEW t, NEW a \in Int, NEW b \in Int, NEW c \in Int, NEW d \in Int, b - a = d - c,
           \A i \in a..b : s[i] \in T, \A i \in c..d : t[i] \in T,
           \A i \in a..b : s[i] = t[i + (c - a)]
    PROVE  SubSeq(s, a, b) = SubSeq(t, c, d)
<1>1. /\ SubSeq(s, a, b) \in Seq(T) /\ Len(SubSeq(s, a, b)) = IF a <= b THEN b - a + 1 ELSE 0
      /\ \A i \in 1..b - a + 1 : SubSeq(s, a, b)[i] = s[a + i - 1]
  BY SubSeqProperties
<1>2. /\ SubSeq(t, c, d) \in Seq(T) /\ Len(SubSeq(t, c, d)) = IF c <= d THEN d - c + 1 ELSE 0
      /\ \A i \in 1..d - c + 1 : SubSeq(t, c, d)[i] = t[c + i - 1]
  BY SubSeqProperties
<1>3. Len(SubSeq(s, a, b)) = Len(SubSeq(t, c, d))
  BY <1>1, <1>2
<1>4. ASSUME NEW i \in 1..Len(SubSeq(s, a, b)) PROVE SubSeq(s, a, b)[i] = SubSeq(t, c, d)[i]
  <2>1. i \in 1..b - a + 1 /\ i \in 1..d - c + 1
    BY <1>1
  <2>2. SubSeq(s, a, b)[i] = s[a + i - 1] /\ SubSeq(t, c, d)[i] = t[c + i - 1]
    BY <1>1, <1>2, <2>1
  <2>3. PICK k \in a..b : k = a + i - 1
    BY <2>1
  <2>4. k + (c - a) = c + i - 1
    BY <2>1, <2>3
  <2>5. s[k] = t[k + (c - a)]
    BY <2>3
  <2> QED BY <2>2, <2>3, <2>4, <2>5
<1> QED BY <1>1, <1>2, <1>3, <1>4, SeqEqual

(* A slice of the text that is in the buffer.                              *)
LEMMA SliceOfBuffer ==
    ASSUME WindowInv, NEW a \in Nat \ {0}, NEW b \in Int, b <= Len(contentBuffer)
    PROVE  SubSeq(text, Offset + a, Offset + b) = SubSeq(contentBuffer, a, b)
<1> DEFINE c == Offset + a
           d == Offset + b
<1>1. /\ text \in Seq(Char) /\ contentBuffer \in Seq(Char)
      /\ Len(text) \in Nat /\ Len(contentBuffer) \in Nat /\ Offset \in Nat /\ Offset + Len(contentBuffer) <= Len(text)
      /\ \A i \in 1..Len(contentBuffer) : contentBuffer[i] = text[Offset + i]
  BY WindowIs
<1>2. c \in Int /\ d \in Int /\ b - a = d - c
  BY <1>1
<1>3. ASSUME NEW i \in a..b
      PROVE  contentBuffer[i] \in Char /\ contentBuffer[i] = text[i + (c - a)]
  <2>1. i \in 1..Len(contentBuffer)
    BY <1>1
  <2>2. i + (c - a) = Offset + i
    BY <1>1
  <2> QED BY <1>1, <2>1, <2>2, ElementOfSeq
<1>4. ASSUME NEW i \in c..d PROVE text[i] \in Char
  <2>1. i \in 1..Len(text)
    BY <1>1
  <2> QED BY <1>1, <2>1, ElementOfSeq
<1>5. SubSeq(contentBuffer, a, b) = SubSeq(text, c, d)
  <2> HIDE DEF c, d
  <2> QED BY <1>2, <1>3, <1>4, SameSlice
<1> QED BY <1>5

(* What Mid takes of the buffer when the part is all in it.                *)
LEMMA MidOf ==
    ASSUME WindowInv, NEW a \in Nat \ {0}, NEW b \in Int, a <= b + 1, b <= Len(contentBuffer)
    PROVE  Mid(a, b - a + 1) = SubSeq(contentBuffer, a, b)
<1> DEFINE n == b - a + 1
           T == {a + n - 1, Len(contentBuffer)}
<1>1. Len(contentBuffer) \in Nat
  BY WindowIs
<1>2. n \in Nat /\ a + n - 1 = b /\ ~(n < 0)
  OBVIOUS
<1>3. Min(T) = b
  <2>1. b \in Nat
    OBVIOUS
  <2>2. T = {b, Len(contentBuffer)} /\ T \subseteq Nat /\ T # {}
    BY <1>1, <1>2, <2>1
  <2>3. Min(T) \in T /\ \A y \in T : Min(T) <= y
    <3> HIDE DEF T
    <3> QED BY <2>2, MinOf
  <2> QED BY <1>1, <2>1, <2>2, <2>3
<1>4. Mid(a, n) = SubSeq(contentBuffer, a, Min(T))
  <2> HIDE DEF n
  <2> QED BY <1>2 DEF Mid
<1> QED BY <1>3, <1>4

LEMMA MidToTheEnd ==
    ASSUME WindowInv, NEW a \in Nat \ {0}
    PROVE  Mid(a, Infinity) = SubSeq(contentBuffer, a, Len(contentBuffer))
<1> DEFINE T == {a + Infinity - 1, Len(contentBuffer)}
<1>1. Len(contentBuffer) \in Nat /\ Len(contentBuffer) < Infinity /\ Infinity \in Nat
  BY WindowIs DEF Infinity
<1>2. T \subseteq Nat /\ T # {} /\ a + Infinity - 1 >= Len(contentBuffer)
  BY <1>1
<1>3. Min(T) \in T /\ \A y \in T : Min(T) <= y
  <2> HIDE DEF T
  <2> QED BY <1>2, MinOf
<1>4. Min(T) = Len(contentBuffer)
  BY <1>1, <1>2, <1>3
<1>5. Mid(a, Infinity) = SubSeq(contentBuffer, a, Min(T))
  <2>1. ~(Infinity < 0)
    BY DEF Infinity
  <2> QED BY <2>1 DEF Mid
<1> QED BY <1>4, <1>5

-----------------------------------------------------------------------------
(* The loop's next part, and where its "=" is.                             *)
NextPart == TextParts[Len(pairs) + 1]
Delimiter == Find("=", pos)

LEMMA NextPartIs ==
    ASSUME Turning
    PROVE  /\ NextPart = SubSeq(contentBuffer, pos, PartEnd - 1)
           /\ Len(NextPart) = PartEnd - pos /\ DOMAIN NextPart = 1..PartEnd - pos
           /\ \A i \in 1..PartEnd - pos : NextPart[i] = contentBuffer[pos + (i - 1)] /\ NextPart[i] \in Char
<1>1. WindowInv
  BY DEF Turning
<1>2. /\ PartEnd \in pos..Len(contentBuffer) + 1 /\ PartEnd \in Nat /\ pos \in Nat \ {0} /\ Len(contentBuffer) \in Nat
      /\ Offset \in Nat /\ contentBuffer \in Seq(Char)
  BY <1>1, PartEndIs, WindowIs
<1> DEFINE b == PartEnd - 1
<1>3. b \in Int /\ b <= Len(contentBuffer) /\ b - pos + 1 = PartEnd - pos
  BY <1>2
<1>4. NextPart = SubSeq(contentBuffer, pos, b)
  <2>1. NextPart = SubSeq(text, Offset + pos, Offset + b)
    BY TurnIs DEF NextPart
  <2> HIDE DEF b
  <2>2. SubSeq(text, Offset + pos, Offset + b) = SubSeq(contentBuffer, pos, b)
    BY <1>1, <1>2, <1>3, SliceOfBuffer
  <2> QED BY <2>1, <2>2
<1>5. \A i \in pos..b : contentBuffer[i] \in Char
  <2>1. ASSUME NEW i \in pos..b PROVE contentBuffer[i] \in Char
    <3>1. i \in 1..Len(contentBuffer)
      BY <1>2
    <3> QED BY <1>2, <3>1, ElementOfSeq
  <2> QED BY <2>1
<1>6. /\ SubSeq(contentBuffer, pos, b) \in Seq(Char)
      /\ Len(SubSeq(contentBuffer, pos, b)) = IF pos <= b THEN b - pos + 1 ELSE 0
      /\ \A i \in 1..b - pos + 1 : SubSeq(contentBuffer, pos, b)[i] = contentBuffer[pos + i - 1]
  <2> HIDE DEF b
  <2> QED BY <1>2, <1>3, <1>5, SubSeqProperties
<1>7. NextPart \in Seq(Char) /\ Len(NextPart) = PartEnd - pos
  BY <1>2, <1>4, <1>6
<1>8. ASSUME NEW i \in 1..PartEnd - pos
      PROVE  NextPart[i] = contentBuffer[pos + (i - 1)] /\ NextPart[i] \in Char
  <2>1. i \in 1..b - pos + 1 /\ pos + i - 1 = pos + (i - 1) /\ i \in 1..Len(NextPart)
    BY <1>2, <1>7
  <2> HIDE DEF b
  <2>2. NextPart[i] = contentBuffer[pos + (i - 1)]
    BY <1>4, <1>6, <2>1
  <2> QED BY <1>7, <2>1, <2>2, ElementOfSeq
<1>9. DOMAIN NextPart = 1..PartEnd - pos
  BY <1>7, LenProperties
<1> QED BY <1>4, <1>7, <1>8, <1>9

LEMMA ValueIs ==
    ASSUME Turning
    PROVE  /\ HasValue(NextPart) => /\ Delimiter \in pos..PartEnd - 1 /\ contentBuffer[Delimiter] = "="
                                    /\ \A i \in pos..Delimiter - 1 : contentBuffer[i] # "="
           /\ ~HasValue(NextPart) => Delimiter = None \/ Delimiter >= PartEnd
           /\ Delimiter \in 0..Len(contentBuffer)
           /\ Delimiter # None => Delimiter >= pos /\ contentBuffer[Delimiter] = "="
<1>1. /\ PartEnd \in pos..Len(contentBuffer) + 1 /\ PartEnd \in Nat /\ pos \in Nat \ {0} /\ Len(contentBuffer) \in Nat
      /\ contentBuffer \in Seq(Char)
  BY PartEndIs, WindowIs DEF Turning
<1>2. \/ Delimiter = None /\ \A i \in pos..Len(contentBuffer) : contentBuffer[i] # "="
      \/ /\ Delimiter \in pos..Len(contentBuffer) /\ contentBuffer[Delimiter] = "="
         /\ \A i \in pos..Delimiter - 1 : contentBuffer[i] # "="
  BY <1>1, FindIs DEF Delimiter
<1>3. DOMAIN NextPart = 1..PartEnd - pos /\ \A i \in 1..PartEnd - pos : NextPart[i] = contentBuffer[pos + (i - 1)]
  BY NextPartIs
<1>4. ASSUME HasValue(NextPart)
      PROVE  /\ Delimiter \in pos..PartEnd - 1 /\ contentBuffer[Delimiter] = "="
             /\ \A i \in pos..Delimiter - 1 : contentBuffer[i] # "="
  <2>1. PICK i \in 1..PartEnd - pos : NextPart[i] = "="
    BY <1>3, <1>4 DEF HasValue
  <2>2. PICK k \in pos..PartEnd - 1 : k = pos + (i - 1)
    BY <1>1, <2>1
  <2>3. contentBuffer[k] = "=" /\ k \in pos..Len(contentBuffer)
    BY <1>1, <1>3, <2>1, <2>2
  <2>4. /\ Delimiter \in pos..Len(contentBuffer) /\ contentBuffer[Delimiter] = "="
        /\ \A m \in pos..Delimiter - 1 : contentBuffer[m] # "="
    BY <1>2, <2>3
  <2>5. ~(k < Delimiter)
    BY <2>3, <2>4
  <2> QED BY <1>1, <2>2, <2>4, <2>5
<1>5. ASSUME ~HasValue(NextPart), Delimiter # None PROVE Delimiter >= PartEnd
  <2>1. Delimiter \in pos..Len(contentBuffer) /\ contentBuffer[Delimiter] = "="
    BY <1>2, <1>5
  <2>2. SUFFICES ASSUME Delimiter < PartEnd PROVE FALSE
    BY <1>1, <2>1
  <2>3. PICK i \in 1..PartEnd - pos : pos + (i - 1) = Delimiter
    <3>1. Delimiter - pos + 1 \in 1..PartEnd - pos /\ pos + ((Delimiter - pos + 1) - 1) = Delimiter
      BY <1>1, <2>1, <2>2
    <3> QED BY <3>1
  <2>4. NextPart[i] = "="
    BY <1>3, <2>1, <2>3
  <2> QED BY <1>3, <1>5, <2>4 DEF HasValue
<1>6. Delimiter \in 0..Len(contentBuffer) /\ (Delimiter # None => Delimiter >= pos /\ contentBuffer[Delimiter] = "=")
  BY <1>1, <1>2 DEF None
<1> QED BY <1>4, <1>5, <1>6

(* The pair of a part with a value is what is written on the two sides of  *)
(* the delimiter.                                                          *)
LEMMA PairIs ==
    ASSUME Turning, HasValue(NextPart)
    PROVE  Pair(NextPart) = [name |-> Written(SubSeq(contentBuffer, pos, Delimiter - 1)),
                             value |-> Written(SubSeq(contentBuffer, Delimiter + 1, PartEnd - 1))]
<1>1. /\ PartEnd \in pos..Len(contentBuffer) + 1 /\ PartEnd \in Nat /\ pos \in Nat \ {0} /\ Len(contentBuffer) \in Nat
      /\ contentBuffer \in Seq(Char)
  BY PartEndIs, WindowIs DEF Turning
<1>2. /\ Delimiter \in pos..PartEnd - 1 /\ contentBuffer[Delimiter] = "="
      /\ \A i \in pos..Delimiter - 1 : contentBuffer[i] # "="
  BY ValueIs
<1>3. /\ Len(NextPart) = PartEnd - pos /\ DOMAIN NextPart = 1..PartEnd - pos
      /\ \A i \in 1..PartEnd - pos : NextPart[i] = contentBuffer[pos + (i - 1)] /\ NextPart[i] \in Char
  BY NextPartIs
<1> DEFINE T == {j \in DOMAIN NextPart : NextPart[j] = "="}
           m == Delimiter - pos + 1
<1>4. m \in 1..PartEnd - pos /\ pos + (m - 1) = Delimiter /\ m \in Nat
  BY <1>1, <1>2
<1>5. Min(T) = m
  <2>1. m \in T
    BY <1>2, <1>3, <1>4
  <2>2. T \subseteq Nat
    BY <1>3
  <2>3. Min(T) \in T /\ \A y \in T : Min(T) <= y
    <3> HIDE DEF T, m
    <3> QED BY <2>1, <2>2, MinOf
  <2>4. ASSUME NEW j \in T PROVE m <= j
    <3>1. j \in 1..PartEnd - pos /\ contentBuffer[pos + (j - 1)] = "="
      BY <1>3
    <3>2. PICK k \in Int : k = pos + (j - 1)
      BY <1>1, <3>1
    <3>3. SUFFICES ASSUME j < m PROVE FALSE
      BY <1>4, <3>1
    <3>4. k \in pos..Delimiter - 1
      BY <1>1, <1>4, <3>1, <3>2, <3>3
    <3> QED BY <1>2, <3>1, <3>2, <3>4
  <2>5. Min(T) \in Nat
    BY <2>2, <2>3
  <2> HIDE DEF T, m
  <2> QED BY <1>4, <2>1, <2>3, <2>4, <2>5
<1>6. Pair(NextPart) = [name |-> Written(SubSeq(NextPart, 1, m - 1)), value |-> Written(SubSeq(NextPart, m + 1, Len(NextPart)))]
  <2> HIDE DEF m
  <2> QED BY <1>5, Zenon DEF Pair, After, T
<1>7. ASSUME NEW a \in Int, NEW b \in Int, 1 <= a, b <= Len(NextPart)
      PROVE  SubSeq(NextPart, a, b) = SubSeq(contentBuffer, pos + (a - 1), pos + (b - 1))
  <2> DEFINE c == pos + (a - 1)
             d == pos + (b - 1)
  <2>1. c \in Int /\ d \in Int /\ b - a = d - c
    BY <1>1
  <2>2. ASSUME NEW i \in a..b PROVE NextPart[i] \in Char /\ NextPart[i] = contentBuffer[i + (c - a)]
    <3>1. i \in 1..PartEnd - pos /\ i + (c - a) = pos + (i - 1)
      BY <1>1, <1>3, <1>7
    <3> QED BY <1>3, <3>1
  <2>3. ASSUME NEW i \in c..d PROVE contentBuffer[i] \in Char
    <3>1. i \in 1..Len(contentBuffer)
      BY <1>1, <1>3, <1>7
    <3> QED BY <1>1, <3>1, ElementOfSeq
  <2>4. SubSeq(NextPart, a, b) = SubSeq(contentBuffer, c, d)
    <3> HIDE DEF c, d
    <3> QED BY <2>1, <2>2, <2>3, SameSlice
  <2> QED BY <2>4
<1>8. SubSeq(NextPart, 1, m - 1) = SubSeq(contentBuffer, pos, Delimiter - 1)
  <2>1. m - 1 \in Int /\ m - 1 <= Len(NextPart) /\ pos + (1 - 1) = pos /\ pos + ((m - 1) - 1) = Delimiter - 1
    BY <1>1, <1>3, <1>4
  <2> DEFINE q == m - 1
  <2>2. q \in Int /\ q <= Len(NextPart) /\ pos + (q - 1) = Delimiter - 1
    BY <2>1
  <2> HIDE DEF m, q
  <2>3. PICK a \in Int : a = 1 /\ 1 <= a
    OBVIOUS
  <2>4. SubSeq(NextPart, a, q) = SubSeq(contentBuffer, pos + (a - 1), pos + (q - 1))
    BY <1>7, <2>2, <2>3, Zenon
  <2>5. pos + (a - 1) = pos
    BY <1>1, <2>3
  <2>6. SubSeq(NextPart, 1, q) = SubSeq(contentBuffer, pos, Delimiter - 1)
    BY <2>2, <2>3, <2>4, <2>5
  <2> QED BY <2>6 DEF q
<1>9. SubSeq(NextPart, m + 1, Len(NextPart)) = SubSeq(contentBuffer, Delimiter + 1, PartEnd - 1)
  <2>1. /\ m + 1 \in Int /\ 1 <= m + 1 /\ Len(NextPart) \in Int /\ Len(NextPart) <= Len(NextPart)
        /\ pos + ((m + 1) - 1) = Delimiter + 1 /\ pos + (Len(NextPart) - 1) = PartEnd - 1
    BY <1>1, <1>3, <1>4
  <2> HIDE DEF m
  <2> QED BY <1>7, <2>1
<1> HIDE DEF m
<1> QED BY <1>6, <1>8, <1>9

-----------------------------------------------------------------------------
(* Steps.  The text and its kind never change.                             *)
TextKept == text' = text /\ kind' = kind

LEMMA PartsStay ==
    ASSUME TextKept
    PROVE  /\ Separators' = Separators /\ Starts' = Starts /\ TextParts' = TextParts
           /\ \A i : Before(i)' = Before(i)
           /\ \A p : Pair(p)' = Pair(p)
           /\ \A k : Pair(TextParts[k])' = Pair(TextParts[k])
<1>1. Separators' = Separators
  BY DEF Separators, TextKept
<1>2. Starts' = Starts
  BY <1>1 DEF Starts
<1>3. \A i : Before(i)' = Before(i)
  BY <1>1 DEF Before
<1>4. \A k : StartOf(k)' = StartOf(k)
  BY <1>1, <1>2 DEF StartOf
<1>5. \A i : EndOf(i)' = EndOf(i)
  BY <1>1 DEF EndOf, TextKept
<1>6. TextParts' = TextParts
  BY <1>1, <1>4, <1>5 DEF TextParts, TextKept
<1>7. \A s : Written(s)' = Written(s)
  BY DEF Written, TextKept
<1>8. \A p : Pair(p)' = Pair(p)
  BY <1>7 DEF Pair
<1>9. \A k : Pair(TextParts[k])' = Pair(TextParts[k])
  BY <1>6, <1>7 DEF Pair
<1> QED BY <1>1, <1>2, <1>3, <1>6, <1>8, <1>9

BufferKept == unread' = unread /\ contentBuffer' = contentBuffer /\ bytesReceived' = bytesReceived

LEMMA BufferStays ==
    ASSUME WindowInv, TextKept, BufferKept,
           leftBytes' \in 0..Len(contentBuffer), pos' \in 1..Len(contentBuffer) + 1, PairTypes', PhaseTypes'
    PROVE  WindowInv' /\ Offset' = Offset
<1>1. Offset' = Offset
  BY DEF Offset, TextKept, BufferKept
<1>2. TextTypes'
  BY DEF WindowInv, TextTypes, TextKept, BufferKept
<1>3. PlaceTypes'
  BY DEF WindowInv, PlaceTypes, TextKept, BufferKept
<1>4. Window'
  BY <1>1 DEF WindowInv, Window, TextKept, BufferKept
<1> QED BY <1>1, <1>2, <1>3, <1>4 DEF WindowInv

(* When no pair is inserted, the properties of the pairs stay.             *)
LEMMA PairsStay ==
    ASSUME PartsInv, TextKept, pairs' = pairs
    PROVE  PairTypes' /\ CookiesHaveValues' /\ PairsArrive'
<1>1. TextParts' = TextParts /\ \A p : Pair(p)' = Pair(p)
  BY PartsStay
<1>2. PairTypes'
  BY DEF PartsInv, WindowInv, PairTypes
<1>3. CookiesHaveValues'
  BY <1>1 DEF PartsInv, CookiesHaveValues, TextKept
<1>4. PairsArrive'
  BY <1>1 DEF PartsInv, PairsArrive, TextKept
<1> QED BY <1>2, <1>3, <1>4

(* The end of a sequence.                                                  *)
LEMMA AfterIs ==
    ASSUME NEW T, NEW s \in Seq(T), NEW n \in 0..Len(s)
    PROVE  /\ After(s, n) \in Seq(T) /\ Len(After(s, n)) = Len(s) - n
           /\ \A i \in 1..Len(s) - n : After(s, n)[i] = s[n + i]
<1>1. Len(s) \in Nat /\ \A i \in 1..Len(s) : s[i] \in T
  BY LenProperties, ElementOfSeq
<1> DEFINE a == n + 1
           l == Len(s)
<1>2. a \in Int /\ l \in Int /\ l - a + 1 = l - n
  BY <1>1
<1>3. \A i \in a..l : s[i] \in T
  BY <1>1
<1>4. /\ SubSeq(s, a, l) \in Seq(T) /\ Len(SubSeq(s, a, l)) = IF a <= l THEN l - a + 1 ELSE 0
      /\ \A i \in 1..l - a + 1 : SubSeq(s, a, l)[i] = s[a + i - 1]
  <2> HIDE DEF a, l
  <2> QED BY <1>2, <1>3, SubSeqProperties
<1>5. After(s, n) = SubSeq(s, a, l)
  BY DEF After
<1>6. Len(After(s, n)) = l - n
  BY <1>1, <1>4, <1>5
<1>7. ASSUME NEW i \in 1..l - n PROVE After(s, n)[i] = s[n + i]
  <2>1. i \in 1..l - a + 1 /\ a + i - 1 = n + i
    BY <1>1
  <2> HIDE DEF a, l
  <2> QED BY <1>4, <1>5, <2>1
<1> QED BY <1>4, <1>5, <1>6, <1>7

LEMMA FrontIs ==
    ASSUME NEW T, NEW s \in Seq(T), NEW n \in 0..Len(s)
    PROVE  /\ SubSeq(s, 1, n) \in Seq(T) /\ Len(SubSeq(s, 1, n)) = n
           /\ \A i \in 1..n : SubSeq(s, 1, n)[i] = s[i]
<1>1. Len(s) \in Nat /\ \A i \in 1..Len(s) : s[i] \in T
  BY LenProperties, ElementOfSeq
<1>2. \A i \in 1..n : s[i] \in T
  BY <1>1
<1>3. /\ SubSeq(s, 1, n) \in Seq(T) /\ Len(SubSeq(s, 1, n)) = IF 1 <= n THEN n - 1 + 1 ELSE 0
      /\ \A i \in 1..n - 1 + 1 : SubSeq(s, 1, n)[i] = s[1 + i - 1]
  BY <1>2, SubSeqProperties
<1>4. ASSUME NEW i \in 1..n PROVE SubSeq(s, 1, n)[i] = s[i]
  <2>1. i \in 1..n - 1 + 1 /\ 1 + i - 1 = i
    OBVIOUS
  <2> QED BY <1>3, <2>1
<1> QED BY <1>3, <1>4

(* A packet moves the window to the leftover.                              *)
LEMMA PacketStep ==
    ASSUME PartsInv, GetPacket
    PROVE  PartsInv'
<1>1. TextKept /\ pairs' = pairs /\ phase' = "turn" /\ leftBytes' = 0 /\ pos' = 1 /\ phase \in {"first", "receive"}
  BY DEF GetPacket, input, TextKept
<1>2. PICK n \in Sizes : /\ contentBuffer' = WithPacket(n)
                         /\ unread' = After(unread, n)
                         /\ bytesReceived' = bytesReceived + n
  BY DEF GetPacket
<1>3. WindowInv /\ PhaseTypes
  BY DEF PartsInv, WindowInv
<1>4. /\ text \in Seq(Char) /\ unread \in Seq(Char) /\ contentBuffer \in Seq(Char)
      /\ Len(text) \in Nat /\ Len(unread) \in Nat /\ Len(contentBuffer) \in Nat
      /\ Offset \in Nat /\ Offset + Len(contentBuffer) + Len(unread) = Len(text)
      /\ pos \in 1..Len(contentBuffer) + 1 /\ leftBytes \in 0..Len(contentBuffer)
      /\ bytesReceived + Len(unread) = Len(text) /\ bytesReceived \in Nat
      /\ \A i \in 1..Len(contentBuffer) : contentBuffer[i] = text[Offset + i]
  BY <1>3, WindowIs
<1>5. n \in 0..Len(unread) /\ n \in Nat
  BY <1>4 DEF Sizes
<1> DEFINE l == Len(contentBuffer) - leftBytes
           A == After(contentBuffer, l)
           B == SubSeq(unread, 1, n)
<1>6. l \in 0..Len(contentBuffer) /\ l \in Nat /\ Len(contentBuffer) - l = leftBytes /\ leftBytes \in Nat
  BY <1>4
<1>7. /\ A \in Seq(Char) /\ Len(A) = leftBytes
      /\ \A i \in 1..leftBytes : A[i] = contentBuffer[l + i]
  <2>1. /\ A \in Seq(Char) /\ Len(A) = Len(contentBuffer) - l
        /\ \A i \in 1..Len(contentBuffer) - l : A[i] = contentBuffer[l + i]
    <3> HIDE DEF l
    <3> QED BY <1>4, <1>6, AfterIs
  <2> HIDE DEF l, A
  <2> QED BY <1>6, <2>1
<1>8. B \in Seq(Char) /\ Len(B) = n /\ \A i \in 1..n : B[i] = unread[i]
  BY <1>4, <1>5, FrontIs
<1>9. /\ unread' \in Seq(Char) /\ Len(unread') = Len(unread) - n
      /\ \A i \in 1..Len(unread) - n : unread'[i] = unread[n + i]
  BY <1>2, <1>4, <1>5, AfterIs
<1>10. contentBuffer' = A \o B
  BY <1>2 DEF WithPacket
<1> HIDE DEF A, B
<1>11. /\ contentBuffer' \in Seq(Char) /\ Len(contentBuffer') = leftBytes + n
       /\ \A i \in 1..leftBytes + n : contentBuffer'[i] = IF i <= leftBytes THEN A[i] ELSE B[i - leftBytes]
  <2>1. /\ A \o B \in Seq(Char) /\ Len(A \o B) = Len(A) + Len(B)
        /\ \A i \in 1..Len(A) + Len(B) : (A \o B)[i] = IF i <= Len(A) THEN A[i] ELSE B[i - Len(A)]
    BY <1>7, <1>8, ConcatProperties, Zenon
  <2> HIDE DEF l
  <2> QED BY <1>7, <1>8, <1>10, <2>1
<1>12. Offset' = Offset + l
  <2>1. Offset' = Len(text) - Len(unread') - Len(contentBuffer')
    BY <1>1 DEF Offset, TextKept
  <2>2. Offset' = Len(text) - (Len(unread) - n) - (leftBytes + n)
    BY <1>9, <1>11, <2>1
  <2>3. /\ Offset \in Nat /\ Len(unread) \in Nat /\ Len(contentBuffer) \in Nat /\ leftBytes \in Nat
        /\ Offset + Len(contentBuffer) + Len(unread) = Len(text)
    BY <1>4, <1>6
  <2>4. Offset' = Offset + Len(contentBuffer) - leftBytes
    BY <1>5, <2>2, <2>3
  <2>5. Offset + Len(contentBuffer) - leftBytes = Offset + l
    BY <2>3
  <2> QED BY <2>4, <2>5
<1>13. ASSUME NEW i \in 1..Len(contentBuffer') PROVE contentBuffer'[i] = text'[Offset' + i]
  <2>1. i \in 1..leftBytes + n /\ i \in Nat
    BY <1>11
  <2>2. Offset' + i = Offset + (l + i)
    BY <1>4, <1>6, <1>12, <2>1
  <2>3. CASE i <= leftBytes
    <3>1. i \in 1..leftBytes /\ l + i \in 1..Len(contentBuffer)
      BY <1>4, <1>6, <2>1, <2>3
    <3>2. contentBuffer'[i] = contentBuffer[l + i]
      BY <1>7, <1>11, <2>1, <2>3, <3>1
    <3>3. contentBuffer[l + i] = text[Offset + (l + i)]
      BY <1>4, <3>1
    <3> QED BY <1>1, <2>2, <3>2, <3>3 DEF TextKept
  <2>4. CASE ~(i <= leftBytes)
    <3>1. PICK k \in 1..n : k = i - leftBytes
      BY <1>5, <1>6, <2>1, <2>4
    <3>2. contentBuffer'[i] = unread[k]
      BY <1>8, <1>11, <2>1, <2>4, <3>1
    <3>3. unread[k] = text[Len(text) - Len(unread) + k]
      <4>1. k \in 1..Len(unread)
        BY <1>4, <1>5
      <4> QED BY <1>3, <4>1 DEF WindowInv, Window
    <3>4. Len(text) - Len(unread) + k = Offset + (l + i)
      <4>1. k \in Nat /\ i = leftBytes + k /\ l + i = Len(contentBuffer) + k
        BY <1>4, <1>5, <1>6, <2>1, <3>1
      <4>2. /\ Offset \in Nat /\ Len(unread) \in Nat /\ Len(contentBuffer) \in Nat /\ Len(text) \in Nat
            /\ Offset + Len(contentBuffer) + Len(unread) = Len(text)
        BY <1>4
      <4>3. Len(text) - Len(unread) = Offset + Len(contentBuffer)
        BY <4>2
      <4>4. Offset + (Len(contentBuffer) + k) = Offset + Len(contentBuffer) + k
        BY <4>1, <4>2
      <4> QED BY <4>1, <4>3, <4>4
    <3> QED BY <1>1, <2>2, <3>2, <3>3, <3>4 DEF TextKept
  <2> QED BY <2>3, <2>4
<1>14. ASSUME NEW i \in 1..Len(unread') PROVE unread'[i] = text'[Len(text') - Len(unread') + i]
  <2>1. i \in 1..Len(unread) - n
    BY <1>9
  <2>2. PICK k \in 1..Len(unread) : k = n + i
    BY <1>4, <1>5, <2>1
  <2>3. unread'[i] = unread[k]
    BY <1>9, <2>1, <2>2
  <2>4. unread[k] = text[Len(text) - Len(unread) + k]
    BY <1>3 DEF WindowInv, Window
  <2>5. Len(text) - Len(unread) + k = Len(text) - Len(unread') + i
    BY <1>4, <1>5, <1>9, <2>1, <2>2
  <2> QED BY <1>1, <2>3, <2>4, <2>5 DEF TextKept
<1>15. Window'
  <2>1. Offset' \in Nat
    BY <1>4, <1>6, <1>12
  <2> QED BY <1>13, <1>14, <2>1 DEF Window
<1>16. TextTypes'
  BY <1>1, <1>3, <1>9, <1>11 DEF TextTypes, WindowInv, TextKept
<1>17. PlaceTypes'
  <2>1. bytesReceived' + Len(unread') = Len(text) /\ bytesReceived' \in Nat
    <3>1. bytesReceived' = bytesReceived + n
      BY <1>2
    <3>2. Len(unread') = Len(unread) - n
      BY <1>9
    <3>3. bytesReceived \in Nat /\ Len(unread) \in Nat /\ bytesReceived + Len(unread) = Len(text)
      BY <1>4
    <3>4. (bytesReceived + n) + (Len(unread) - n) = bytesReceived + Len(unread) /\ bytesReceived + n \in Nat
      BY <1>5, <3>3
    <3> QED BY <3>1, <3>2, <3>3, <3>4
  <2>2. leftBytes' \in 0..Len(contentBuffer') /\ pos' \in 1..Len(contentBuffer') + 1
    BY <1>1, <1>5, <1>6, <1>11
  <2> QED BY <1>1, <2>1, <2>2 DEF PlaceTypes, TextKept
<1>18. PhaseTypes' /\ kind \notin {"parameters", "cookies"}
  BY <1>1, <1>3 DEF PhaseTypes, TextKept
<1>19. PairTypes' /\ CookiesHaveValues' /\ PairsArrive'
  BY <1>1, PairsStay
<1>20. Here' = Here
  <2>1. Here' = Offset' + 1
    BY <1>1 DEF Here
  <2>2. CASE phase = "receive"
    <3>1. Here = Offset + (Len(contentBuffer) - leftBytes + 1)
      BY <2>2 DEF Here
    <3> QED BY <1>4, <1>6, <1>12, <2>1, <3>1
  <2>3. CASE phase = "first"
    <3>1. Here = Offset + pos /\ Len(contentBuffer) = 0
      BY <1>3, <2>3, EmptySeq DEF Here, PhaseTypes
    <3>2. pos = 1 /\ l = 0
      <4>1. pos \in 1..Len(contentBuffer) + 1 /\ leftBytes \in 0..Len(contentBuffer)
        BY <1>4
      <4>2. pos = 1
        BY <3>1, <4>1
      <4>3. leftBytes = 0
        BY <3>1, <4>1
      <4> QED BY <3>1, <4>2, <4>3
    <3> QED BY <1>4, <1>12, <2>1, <3>1, <3>2
  <2> QED BY <1>1, <2>2, <2>3
<1>21. AtAPart'
  BY <1>1, <1>20, PartsStay DEF AtAPart, PartsInv
<1>22. AllPartsArrive' /\ CookiesUpToABadOne'
  BY <1>1 DEF AllPartsArrive, CookiesUpToABadOne
<1> QED BY <1>15, <1>16, <1>17, <1>18, <1>19, <1>21, <1>22 DEF PartsInv, WindowInv

(* The steps that insert nothing and take no packet.                       *)
LEMMA NoPacketStep ==
    ASSUME PartsInv, GetNoPacket
    PROVE  PartsInv'
<1>1. TextKept /\ BufferKept /\ pairs' = pairs /\ leftBytes' = leftBytes /\ pos' = pos /\ phase' = "failed" /\ phase = "receive"
  BY DEF GetNoPacket, input, TextKept, BufferKept
<1>2. WindowInv /\ PhaseTypes
  BY DEF PartsInv, WindowInv
<1>3. PairTypes' /\ CookiesHaveValues' /\ PairsArrive'
  BY <1>1, PairsStay
<1>4. PhaseTypes' /\ kind # "cookies"
  BY <1>1, <1>2 DEF PhaseTypes, TextKept, BufferKept
<1>5. WindowInv'
  <2>1. leftBytes' \in 0..Len(contentBuffer) /\ pos' \in 1..Len(contentBuffer) + 1
    BY <1>1, <1>2, WindowIs
  <2> QED BY <1>1, <1>2, <1>3, <1>4, <2>1, BufferStays
<1>6. AtAPart' /\ AllPartsArrive' /\ CookiesUpToABadOne'
  BY <1>1, <1>4 DEF AtAPart, AllPartsArrive, CookiesUpToABadOne, TextKept
<1> QED BY <1>3, <1>5, <1>6 DEF PartsInv

LEMMA NothingStep ==
    ASSUME PartsInv, Nothing
    PROVE  PartsInv'
<1>1. /\ TextKept /\ BufferKept /\ pairs' = pairs /\ leftBytes' = leftBytes /\ pos' = pos
      /\ phase = "turn" /\ kind \in {"form", "text"} /\ contentBuffer = <<>>
      /\ phase' = IF Len(text) = 0 THEN "done" ELSE "receive"
  BY DEF Nothing, input, TextKept, BufferKept, FullSize
<1>2. WindowInv /\ PhaseTypes /\ AtAPart
  BY DEF PartsInv, WindowInv
<1>3. PairTypes' /\ CookiesHaveValues' /\ PairsArrive'
  BY <1>1, PairsStay
<1>4. PhaseTypes'
  BY <1>1, <1>2 DEF PhaseTypes, TextKept, BufferKept
<1>5. leftBytes \in 0..Len(contentBuffer) /\ pos \in 1..Len(contentBuffer) + 1 /\ Offset \in Nat /\ Len(contentBuffer) = 0
  BY <1>1, <1>2, WindowIs, EmptySeq
<1>6. WindowInv' /\ Offset' = Offset
  BY <1>1, <1>2, <1>3, <1>4, <1>5, BufferStays
<1>7. AtAPart'
  <2>1. SUFFICES ASSUME phase' \in {"first", "receive", "turn"} PROVE (Here \in Starts /\ Before(Here) = Len(pairs))'
    BY DEF AtAPart
  <2>2. phase' = "receive"
    BY <1>1, <2>1
  <2>3. Here' = Offset + (Len(contentBuffer) - leftBytes + 1)
    BY <1>1, <1>6, <2>2 DEF Here, BufferKept
  <2>4. Here = Offset + pos
    BY <1>1 DEF Here
  <2>5. pos = 1
    BY <1>5
  <2>6. leftBytes = 0
    BY <1>5
  <2>7. Here' = Here
    BY <1>5, <2>3, <2>4, <2>5, <2>6
  <2>8. Here \in Starts /\ Before(Here) = Len(pairs)
    BY <1>1, <1>2 DEF AtAPart
  <2> QED BY <1>1, <2>7, <2>8, PartsStay
<1>8. AllPartsArrive'
  <2>1. Len(text) = 0 => text = <<>>
    BY <1>2, WindowIs, EmptySeq
  <2> QED BY <1>1, <2>1 DEF AllPartsArrive, TextKept
<1>9. CookiesUpToABadOne'
  BY <1>1 DEF CookiesUpToABadOne, TextKept
<1> QED BY <1>3, <1>6, <1>7, <1>8, <1>9 DEF PartsInv

LEMMA SaveLeftoverStep ==
    ASSUME PartsInv, SaveLeftover
    PROVE  PartsInv'
<1>1. /\ TextKept /\ BufferKept /\ pairs' = pairs /\ leftBytes' = Leftover /\ pos' = pos
      /\ phase = "turn" /\ kind \in {"form", "text"} /\ phase' = "receive"
  BY DEF SaveLeftover, input, TextKept, BufferKept
<1>2. WindowInv /\ PhaseTypes /\ AtAPart
  BY DEF PartsInv, WindowInv
<1>3. PairTypes' /\ CookiesHaveValues' /\ PairsArrive'
  BY <1>1, PairsStay
<1>4. PhaseTypes'
  BY <1>1, <1>2 DEF PhaseTypes, TextKept, BufferKept
<1>5. pos \in 1..Len(contentBuffer) + 1 /\ Offset \in Nat /\ Len(contentBuffer) \in Nat
  BY <1>2, WindowIs
<1>6. leftBytes' \in 0..Len(contentBuffer) /\ Len(contentBuffer) - leftBytes' + 1 = pos
  BY <1>1, <1>5 DEF Leftover
<1>7. WindowInv' /\ Offset' = Offset
  BY <1>1, <1>2, <1>3, <1>4, <1>5, <1>6, BufferStays
<1>8. AtAPart'
  <2>1. Here' = Offset + (Len(contentBuffer) - leftBytes' + 1)
    BY <1>1, <1>7 DEF Here, BufferKept
  <2>2. Here = Offset + pos
    BY <1>1 DEF Here
  <2>3. Here' = Here
    BY <1>6, <2>1, <2>2
  <2>4. Here \in Starts /\ Before(Here) = Len(pairs)
    BY <1>1, <1>2 DEF AtAPart
  <2> QED BY <1>1, <2>3, <2>4, PartsStay DEF AtAPart
<1>9. AllPartsArrive' /\ CookiesUpToABadOne'
  BY <1>1 DEF AllPartsArrive, CookiesUpToABadOne
<1> QED BY <1>3, <1>7, <1>8, <1>9 DEF PartsInv

LEMMA NoCookiesStep ==
    ASSUME PartsInv, NoCookies
    PROVE  PartsInv'
<1>1. /\ TextKept /\ BufferKept /\ pairs' = pairs /\ leftBytes' = leftBytes /\ pos' = pos
      /\ phase = "turn" /\ kind = "cookies" /\ contentBuffer = <<>> /\ phase' = "failed"
  BY DEF NoCookies, input, TextKept, BufferKept
<1>2. WindowInv /\ PhaseTypes
  BY DEF PartsInv, WindowInv
<1>3. PairTypes' /\ CookiesHaveValues' /\ PairsArrive'
  BY <1>1, PairsStay
<1>4. PhaseTypes' /\ text = <<>>
  BY <1>1, <1>2 DEF PhaseTypes, TextKept, BufferKept
<1>5. WindowInv'
  <2>1. leftBytes' \in 0..Len(contentBuffer) /\ pos' \in 1..Len(contentBuffer) + 1
    BY <1>1, <1>2, WindowIs
  <2> QED BY <1>1, <1>2, <1>3, <1>4, <2>1, BufferStays
<1>6. AtAPart' /\ AllPartsArrive'
  BY <1>1 DEF AtAPart, AllPartsArrive
<1>7. CookiesUpToABadOne'
  BY <1>1, <1>3, <1>4 DEF CookiesUpToABadOne, CookiesHaveValues, TextKept
<1> QED BY <1>3, <1>5, <1>6, <1>7 DEF PartsInv

(* A turn of the loop inserts a pair.                                      *)
PairWanted ==
    /\ HasValue(NextPart)
    /\ kind = "parameters" => Len(pairs) + 1 > 1
    /\ kind \in {"text", "parameters"} => Find("&", pos) # None

LEMMA InsertStep ==
    ASSUME PartsInv, Turning, TextKept, BufferKept, leftBytes' = leftBytes, NextPair(Find("&", pos)),
           NEW x, pairs' = Append(pairs, x), PairWanted => x = Pair(NextPart), kind = "cookies" => HasValue(NextPart)
    PROVE  PartsInv'
<1> DEFINE n == Len(pairs)
<1>1. WindowInv /\ PhaseTypes /\ PairTypes /\ AtAPart /\ phase = "turn"
  BY DEF PartsInv, WindowInv, Turning
<1>2. PICK S : pairs \in Seq(S)
  BY <1>1 DEF PairTypes
<1>3. /\ pairs' \in Seq(S \cup {x}) /\ Len(pairs') = n + 1 /\ n \in Nat
      /\ DOMAIN pairs' = 1..n + 1 /\ DOMAIN pairs = 1..n
      /\ \A k \in 1..n : pairs'[k] = pairs[k]
      /\ pairs'[n + 1] = x
  <2>1. pairs \in Seq(S \cup {x})
    BY <1>2
  <2>2. /\ Append(pairs, x) \in Seq(S \cup {x}) /\ Len(Append(pairs, x)) = Len(pairs) + 1
        /\ \A k \in 1..Len(pairs) : Append(pairs, x)[k] = pairs[k]
        /\ Append(pairs, x)[Len(pairs) + 1] = x
    BY <2>1, AppendProperties
  <2>3. DOMAIN pairs' = 1..Len(pairs') /\ DOMAIN pairs = 1..Len(pairs) /\ Len(pairs) \in Nat
    BY <2>1, <2>2, LenProperties
  <2>4. pairs' = Append(pairs, x)
    OBVIOUS
  <2> QED BY <2>2, <2>3, <2>4
<1>4. PairTypes'
  BY <1>3 DEF PairTypes
<1>5. /\ TextParts' = TextParts /\ Starts' = Starts
      /\ \A i : Before(i)' = Before(i)
      /\ \A p : Pair(p)' = Pair(p)
  BY PartsStay
<1>6. /\ Here = Offset + pos
      /\ n + 1 \in 1..Len(TextParts)
      /\ Find("&", pos) # None => /\ Offset + PartEnd + 1 \in Starts
                                  /\ Before(Offset + PartEnd + 1) = n + 1
      /\ Find("&", pos) = None => n + 1 = Len(TextParts)
  BY TurnIs
<1>7. /\ PartEnd \in pos..Len(contentBuffer) + 1 /\ PartEnd \in Nat
      /\ Find("&", pos) # None => PartEnd = Find("&", pos) /\ PartEnd \in 1..Len(contentBuffer)
  BY PartEndIs
<1>8. /\ pos \in 1..Len(contentBuffer) + 1 /\ leftBytes \in 0..Len(contentBuffer)
      /\ Offset \in Nat /\ Len(contentBuffer) \in Nat
  BY <1>1, WindowIs
<1>9. \/ Find("&", pos) = None /\ phase' = "done" /\ pos' = pos
      \/ Find("&", pos) # None /\ phase' = "turn" /\ pos' = PartEnd + 1
  BY <1>1, <1>7 DEF NextPair
<1>10. PhaseTypes'
  BY <1>1, <1>9 DEF PhaseTypes, TextKept, BufferKept
<1>11. WindowInv' /\ Offset' = Offset
  <2>1. pos' \in 1..Len(contentBuffer) + 1
    BY <1>7, <1>8, <1>9
  <2>2. leftBytes' \in 0..Len(contentBuffer)
    BY <1>8
  <2> QED BY <1>1, <1>4, <1>10, <2>1, <2>2, BufferStays
<1>12. AtAPart'
  <2>1. SUFFICES ASSUME phase' \in {"first", "receive", "turn"} PROVE (Here \in Starts /\ Before(Here) = Len(pairs))'
    BY DEF AtAPart
  <2>2. Find("&", pos) # None /\ phase' = "turn" /\ pos' = PartEnd + 1
    BY <1>9, <2>1
  <2>3. Here' = Offset + (PartEnd + 1)
    BY <1>11, <2>2 DEF Here
  <2>4. Here' = Offset + PartEnd + 1
    BY <1>7, <1>8, <2>3
  <2>5. Offset + PartEnd + 1 \in Starts /\ Before(Offset + PartEnd + 1) = n + 1
    BY <1>6, <2>2
  <2>6. Here' \in Starts /\ Before(Here') = n + 1
    <3> DEFINE h == Offset + PartEnd + 1
    <3>1. h \in Starts /\ Before(h) = n + 1 /\ Here' = h
      BY <2>4, <2>5
    <3> HIDE DEF h, n
    <3> QED BY <3>1
  <2>7. Separators' = Separators
    BY PartsStay
  <2> QED BY <1>3, <1>5, <2>6, <2>7 DEF Before
<1>13. CookiesHaveValues'
  <2>1. SUFFICES ASSUME kind' = "cookies" PROVE \A k \in 1..Len(pairs') : HasValue(TextParts'[k])
    BY DEF CookiesHaveValues
  <2>2. kind = "cookies"
    BY <2>1 DEF TextKept
  <2>3. HasValue(TextParts[n + 1])
    BY <2>2 DEF NextPart
  <2>4. ASSUME NEW k \in 1..n + 1 PROVE HasValue(TextParts[k])
    <3>1. CASE k = n + 1
      BY <2>3, <3>1
    <3>2. CASE k # n + 1
      <4>1. k \in 1..n
        BY <1>3, <3>2
      <4> QED BY <2>2, <4>1 DEF PartsInv, CookiesHaveValues
    <3> QED BY <3>1, <3>2
  <2> QED BY <1>3, <1>5, <2>4
<1>14. AllPartsArrive'
  <2>1. phase' = "done" => Len(pairs') = Len(TextParts)
    BY <1>3, <1>6, <1>9
  <2> QED BY <1>5, <2>1 DEF AllPartsArrive
<1>15. CookiesUpToABadOne'
  BY <1>9 DEF CookiesUpToABadOne
<1>16. PairsArrive'
  <2> SUFFICES ASSUME NEW k \in DOMAIN pairs', HasValue(TextParts'[k]), kind' = "parameters" => k > 1,
                      kind' \in {"text", "parameters"} => k < Len(TextParts')
               PROVE  pairs'[k] = Pair(TextParts[k])'
    BY DEF PairsArrive
  <2>1. /\ HasValue(TextParts[k]) /\ (kind = "parameters" => k > 1)
        /\ (kind \in {"text", "parameters"} => k < Len(TextParts)) /\ k \in 1..n + 1
    BY <1>3, <1>5 DEF TextKept
  <2>2. pairs'[k] = Pair(TextParts[k])
    <3>1. CASE k = n + 1
      <4>1. kind \in {"text", "parameters"} => Find("&", pos) # None
        <5>1. SUFFICES ASSUME kind \in {"text", "parameters"}, Find("&", pos) = None PROVE FALSE
          OBVIOUS
        <5>2. k < Len(TextParts) /\ Len(TextParts) = k
          BY <1>6, <2>1, <3>1, <5>1
        <5>3. k \in Nat
          BY <2>1
        <5> QED BY <5>2, <5>3
      <4>2. PairWanted
        BY <2>1, <3>1, <4>1 DEF PairWanted, NextPart
      <4> QED BY <1>3, <3>1, <4>2 DEF NextPart
    <3>2. CASE k # n + 1
      <4>1. k \in 1..n
        BY <1>3, <2>1, <3>2
      <4>2. pairs[k] = Pair(TextParts[k])
        BY <1>3, <2>1, <4>1 DEF PartsInv, PairsArrive
      <4> QED BY <1>3, <4>1, <4>2
    <3> QED BY <3>1, <3>2
  <2>3. Pair(TextParts[k])' = Pair(TextParts[k])
    BY PartsStay
  <2> QED BY <2>2, <2>3
<1> QED BY <1>11, <1>12, <1>13, <1>14, <1>15, <1>16 DEF PartsInv

-----------------------------------------------------------------------------
(* What the parsers take for the two sides of a part with a value.         *)
LEMMA WholePart ==
    ASSUME PartsInv, phase = "turn", kind \in {"form", "text"}, HasPart
    PROVE  Turning
<1>1. WindowInv /\ AtAPart
  BY DEF PartsInv
<1>2. ASSUME Find("&", pos) = None PROVE unread = <<>>
  <2>1. bytesReceived = Len(text)
    BY <1>2 DEF HasPart, FullSize
  <2>2. Len(unread) = 0 /\ unread \in Seq(Char)
    BY <1>1, <2>1, WindowIs
  <2> QED BY <2>2, EmptySeq
<1> QED BY <1>1, <1>2 DEF Turning

LEMMA WholeHeader ==
    ASSUME PartsInv, phase = "turn", kind \in {"parameters", "cookies"}
    PROVE  Turning
<1>1. WindowInv /\ AtAPart /\ unread = <<>>
  BY DEF PartsInv, WindowInv, PhaseTypes
<1> QED BY <1>1 DEF Turning

LEMMA SidesAre ==
    ASSUME Turning, HasValue(NextPart)
    PROVE  /\ Mid(pos, Delimiter - pos) = SubSeq(contentBuffer, pos, Delimiter - 1)
           /\ Mid(Delimiter + 1, Rest(Find("&", pos), Delimiter + 1)) = SubSeq(contentBuffer, Delimiter + 1, PartEnd - 1)
           /\ ~(Delimiter >= EndOr(Find("&", pos)))
           /\ ~NoCookie(Delimiter, Find("&", pos))
           /\ Find("&", pos) # None => ~(Delimiter >= Find("&", pos))
<1> DEFINE d == Delimiter
           e == PartEnd
<1>1. WindowInv
  BY DEF Turning
<1>2. /\ e \in pos..Len(contentBuffer) + 1 /\ e \in Nat /\ pos \in Nat \ {0} /\ Len(contentBuffer) \in Nat
      /\ Len(contentBuffer) < Infinity
      /\ Find("&", pos) # None => e = Find("&", pos)
      /\ Find("&", pos) = None => e = Len(contentBuffer) + 1
  <2>1. Offset + Len(contentBuffer) + Len(unread) = Len(text) /\ Len(text) < Infinity /\ Offset \in Nat /\ Len(unread) \in Nat /\ Len(contentBuffer) \in Nat
    BY <1>1, WindowIs
  <2>2. Len(contentBuffer) < Infinity
    BY <2>1 DEF Infinity
  <2> QED BY <1>1, <2>2, WindowIs, PartEndIs
<1>3. d \in pos..e - 1 /\ d \in Nat \ {0} /\ d < e /\ d <= Len(contentBuffer)
  <2>1. d \in pos..e - 1
    BY ValueIs
  <2> QED BY <1>2, <2>1
<1>4. Mid(pos, d - pos) = SubSeq(contentBuffer, pos, d - 1)
  <2> DEFINE b == d - 1
  <2>1. b \in Int /\ pos <= b + 1 /\ b <= Len(contentBuffer) /\ b - pos + 1 = d - pos
    BY <1>2, <1>3
  <2>2. Mid(pos, b - pos + 1) = SubSeq(contentBuffer, pos, b)
    <3> HIDE DEF b
    <3> QED BY <1>1, <1>2, <2>1, MidOf
  <2> HIDE DEF d
  <2> QED BY <2>1, <2>2
<1>5. Mid(d + 1, Rest(Find("&", pos), d + 1)) = SubSeq(contentBuffer, d + 1, e - 1)
  <2> DEFINE a == d + 1
             b == e - 1
  <2>1. a \in Nat \ {0} /\ b \in Int /\ a <= b + 1 /\ b <= Len(contentBuffer) /\ b - a + 1 = e - a
    BY <1>2, <1>3
  <2>2. Mid(a, b - a + 1) = SubSeq(contentBuffer, a, b) /\ Mid(a, Infinity) = SubSeq(contentBuffer, a, Len(contentBuffer))
    <3> HIDE DEF a, b
    <3> QED BY <1>1, <2>1, MidOf, MidToTheEnd
  <2>3. CASE Find("&", pos) = None
    <3>1. Rest(Find("&", pos), a) = Infinity /\ b = Len(contentBuffer)
      BY <1>2, <2>3 DEF Rest
    <3> HIDE DEF a, b
    <3>2. Mid(a, Rest(Find("&", pos), a)) = SubSeq(contentBuffer, a, b)
      BY <2>2, <3>1
    <3> QED BY <3>2 DEF a, b
  <2>4. CASE Find("&", pos) # None
    <3>1. Rest(Find("&", pos), a) = b - a + 1
      <4>1. Rest(Find("&", pos), a) = e - a
        BY <1>2, <2>4 DEF Rest
      <4> HIDE DEF a, b
      <4> QED BY <2>1, <4>1
    <3> HIDE DEF a, b
    <3>2. Mid(a, Rest(Find("&", pos), a)) = SubSeq(contentBuffer, a, b)
      BY <2>2, <3>1
    <3> QED BY <3>2 DEF a, b
  <2> QED BY <2>3, <2>4
<1>6. EndOr(Find("&", pos)) \in Nat /\ d < EndOr(Find("&", pos))
  <2>1. CASE Find("&", pos) = None
    <3>1. EndOr(Find("&", pos)) = Infinity /\ Infinity \in Nat
      BY <2>1 DEF EndOr, Infinity
    <3> QED BY <1>2, <1>3, <3>1
  <2>2. CASE Find("&", pos) # None
    <3>1. EndOr(Find("&", pos)) = e
      BY <1>2, <2>2 DEF EndOr
    <3> QED BY <1>2, <1>3, <3>1
  <2> QED BY <2>1, <2>2
<1>7. ~(d >= EndOr(Find("&", pos))) /\ ~(d > EndOr(Find("&", pos))) /\ d # None
  BY <1>3, <1>6 DEF None
<1>8. ~NoCookie(d, Find("&", pos))
  BY <1>7 DEF NoCookie
<1>9. Find("&", pos) # None => ~(d >= Find("&", pos))
  BY <1>2, <1>3
<1> QED BY <1>4, <1>5, <1>7, <1>8, <1>9

LEMMA BadCookie ==
    ASSUME Turning, ~HasValue(NextPart)
    PROVE  NoCookie(Delimiter, Find("&", pos))
<1>1. /\ PartEnd \in pos..Len(contentBuffer) + 1 /\ PartEnd \in Nat /\ pos \in Nat /\ Len(contentBuffer) \in Nat
      /\ Find("&", pos) # None => PartEnd = Find("&", pos) /\ contentBuffer[PartEnd] = "&"
      /\ Find("&", pos) = None => PartEnd = Len(contentBuffer) + 1
  BY PartEndIs, WindowIs DEF Turning
<1>2. /\ Delimiter = None \/ Delimiter >= PartEnd
      /\ Delimiter \in 0..Len(contentBuffer)
      /\ Delimiter # None => contentBuffer[Delimiter] = "="
  BY ValueIs
<1> SUFFICES ASSUME Delimiter # None PROVE Delimiter > EndOr(Find("&", pos))
  BY DEF NoCookie
<1>3. Delimiter >= PartEnd /\ contentBuffer[Delimiter] = "=" /\ Delimiter <= Len(contentBuffer) /\ Delimiter \in Nat
  BY <1>2
<1>4. Find("&", pos) # None
  BY <1>1, <1>3
<1>5. Delimiter # PartEnd
  BY <1>1, <1>3, <1>4
<1>6. EndOr(Find("&", pos)) = PartEnd
  BY <1>1, <1>4 DEF EndOr
<1> QED BY <1>1, <1>3, <1>5, <1>6

LEMMA ParseFormStep ==
    ASSUME PartsInv, ParseForm
    PROVE  PartsInv'
<1> DEFINE end == Find("&", pos)
           delimiter == Find("=", pos)
           x == IF delimiter >= EndOr(end)
                THEN [name |-> DecodeUrl(Mid(pos, end - pos)), value |-> <<>>]
                ELSE [name |-> DecodeUrl(Mid(pos, delimiter - pos)),
                      value |-> DecodeUrl(Mid(delimiter + 1, Rest(end, delimiter + 1)))]
<1>1. /\ TextKept /\ BufferKept /\ leftBytes' = leftBytes /\ phase = "turn" /\ kind = "form" /\ HasPart
      /\ NextPair(end)
  BY DEF ParseForm, input, TextKept, BufferKept
<1>2. pairs' = Append(pairs, x)
  BY DEF ParseForm, Insert
<1>3. Turning
  BY <1>1, WholePart
<1>4. PairWanted => x = Pair(NextPart)
  <2>1. SUFFICES ASSUME HasValue(NextPart) PROVE x = Pair(NextPart)
    BY DEF PairWanted
  <2>2. x = [name |-> DecodeUrl(SubSeq(contentBuffer, pos, Delimiter - 1)),
             value |-> DecodeUrl(SubSeq(contentBuffer, Delimiter + 1, PartEnd - 1))]
    BY <1>3, <2>1, SidesAre DEF Delimiter
  <2>3. \A s : Written(s) = DecodeUrl(s)
    BY <1>1 DEF Written
  <2> HIDE DEF x
  <2> QED BY <1>3, <2>1, <2>2, <2>3, PairIs
<1> HIDE DEF x, end
<1>5. kind # "cookies"
  BY <1>1
<1> QED BY <1>1, <1>2, <1>3, <1>4, <1>5, InsertStep DEF end

LEMMA ParseTextStep ==
    ASSUME PartsInv, ParseText
    PROVE  PartsInv'
<1> DEFINE end == Find("&", pos)
           delimiter == Find("=", pos)
           x == IF delimiter >= EndOr(end)
                THEN [name |-> Mid(pos, end - pos), value |-> <<>>]
                ELSE [name |-> Mid(pos, IF end = None THEN Infinity ELSE delimiter - pos),
                      value |-> Mid(delimiter + 1, Rest(end, delimiter + 1))]
<1>1. /\ TextKept /\ BufferKept /\ leftBytes' = leftBytes /\ phase = "turn" /\ kind = "text" /\ HasPart
      /\ NextPair(end)
  BY DEF ParseText, input, TextKept, BufferKept
<1>2. pairs' = Append(pairs, x)
  BY DEF ParseText, Insert
<1>3. Turning
  BY <1>1, WholePart
<1>4. PairWanted => x = Pair(NextPart)
  <2>1. SUFFICES ASSUME HasValue(NextPart), end # None PROVE x = Pair(NextPart)
    BY <1>1 DEF PairWanted
  <2>2. x = [name |-> SubSeq(contentBuffer, pos, Delimiter - 1),
             value |-> SubSeq(contentBuffer, Delimiter + 1, PartEnd - 1)]
    BY <1>3, <2>1, SidesAre DEF Delimiter
  <2>3. \A s : Written(s) = s
    BY <1>1 DEF Written
  <2> DEFINE a == SubSeq(contentBuffer, pos, Delimiter - 1)
             b == SubSeq(contentBuffer, Delimiter + 1, PartEnd - 1)
  <2>4. Pair(NextPart) = [name |-> Written(a), value |-> Written(b)]
    BY <1>3, <2>1, PairIs
  <2>5. x = [name |-> a, value |-> b]
    BY <2>2
  <2> HIDE DEF x, a, b
  <2>6. Written(a) = a /\ Written(b) = b
    BY <2>3
  <2> QED BY <2>4, <2>5, <2>6
<1> HIDE DEF x, end
<1>5. kind # "cookies"
  BY <1>1
<1> QED BY <1>1, <1>2, <1>3, <1>4, <1>5, InsertStep DEF end

LEMMA ParseParametersStep ==
    ASSUME PartsInv, ParseParameters
    PROVE  PartsInv'
<1> DEFINE end == Find("&", pos)
           delimiter == Find("=", pos)
           x == IF pairs = <<>>
                THEN [name |-> IF end = None THEN contentBuffer ELSE Trim(Mid(pos, end - pos)), value |-> <<>>]
                ELSE IF delimiter >= end
                THEN [name |-> Trim(Mid(pos, Rest(end, pos))), value |-> <<>>]
                ELSE [name |-> Trim(Mid(pos, delimiter - pos)),
                      value |-> Trim(Mid(delimiter + 1, Rest(end, delimiter + 1)))]
<1>1. /\ TextKept /\ BufferKept /\ leftBytes' = leftBytes /\ phase = "turn" /\ kind = "parameters"
      /\ NextPair(end)
  BY DEF ParseParameters, input, TextKept, BufferKept
<1>2. pairs' = Append(pairs, x)
  BY DEF ParseParameters, Insert
<1>3. Turning
  BY <1>1, WholeHeader
<1>4. PairWanted => x = Pair(NextPart)
  <2>1. SUFFICES ASSUME HasValue(NextPart), end # None, Len(pairs) + 1 > 1 PROVE x = Pair(NextPart)
    BY <1>1 DEF PairWanted
  <2>2. pairs # <<>>
    <3>1. SUFFICES ASSUME pairs = <<>> PROVE FALSE
      OBVIOUS
    <3>2. Len(pairs) = 0
      BY <3>1, EmptySeq
    <3> QED BY <2>1, <3>2
  <2>3. x = [name |-> Trim(SubSeq(contentBuffer, pos, Delimiter - 1)),
             value |-> Trim(SubSeq(contentBuffer, Delimiter + 1, PartEnd - 1))]
    BY <1>3, <2>1, <2>2, SidesAre DEF Delimiter
  <2>4. \A s : Written(s) = Trim(s)
    BY <1>1 DEF Written
  <2> HIDE DEF x
  <2> QED BY <1>3, <2>1, <2>3, <2>4, PairIs
<1> HIDE DEF x, end
<1>5. kind # "cookies"
  BY <1>1
<1> QED BY <1>1, <1>2, <1>3, <1>4, <1>5, InsertStep DEF end

LEMMA ParseCookiesStep ==
    ASSUME PartsInv, ParseCookies
    PROVE  PartsInv'
<1> DEFINE end == Find("&", pos)
           delimiter == Find("=", pos)
           x == [name |-> DecodeUrl(Trim(Mid(pos, delimiter - pos))),
                 value |-> DecodeUrl(Trim(Mid(delimiter + 1, Rest(end, delimiter + 1))))]
<1>1. TextKept /\ BufferKept /\ leftBytes' = leftBytes /\ phase = "turn" /\ kind = "cookies"
  BY DEF ParseCookies, input, TextKept, BufferKept
<1>2. \/ NoCookie(delimiter, end) /\ phase' = "failed" /\ pos' = pos /\ pairs' = pairs
      \/ ~NoCookie(delimiter, end) /\ pairs' = Append(pairs, x) /\ NextPair(end)
  BY DEF ParseCookies, Insert
<1>3. Turning
  BY <1>1, WholeHeader
<1>4. CASE ~NoCookie(delimiter, end) /\ pairs' = Append(pairs, x) /\ NextPair(end)
  <2>1. HasValue(NextPart)
    BY <1>3, <1>4, BadCookie DEF Delimiter
  <2>2. x = Pair(NextPart)
    <3>1. x = [name |-> DecodeUrl(Trim(SubSeq(contentBuffer, pos, Delimiter - 1))),
               value |-> DecodeUrl(Trim(SubSeq(contentBuffer, Delimiter + 1, PartEnd - 1)))]
      BY <1>3, <2>1, SidesAre DEF Delimiter
    <3>2. \A s : Written(s) = DecodeUrl(Trim(s))
      BY <1>1 DEF Written
    <3> HIDE DEF x
    <3> QED BY <1>3, <2>1, <3>1, <3>2, PairIs
  <2>3. NextPair(Find("&", pos)) /\ pairs' = Append(pairs, x)
    BY <1>4
  <2> HIDE DEF x, end
  <2> QED BY <1>1, <1>3, <2>1, <2>2, <2>3, InsertStep
<1>5. CASE NoCookie(delimiter, end) /\ phase' = "failed" /\ pos' = pos /\ pairs' = pairs
  <2>1. WindowInv /\ PhaseTypes
    BY DEF PartsInv, WindowInv
  <2>2. PairTypes' /\ CookiesHaveValues' /\ PairsArrive'
    BY <1>1, <1>5, PairsStay
  <2>3. PhaseTypes'
    BY <1>1, <1>5, <2>1 DEF PhaseTypes, TextKept, BufferKept
  <2>4. WindowInv'
    <3>1. leftBytes' \in 0..Len(contentBuffer) /\ pos' \in 1..Len(contentBuffer) + 1
      BY <1>1, <1>5, <2>1, WindowIs
    <3> QED BY <1>1, <2>1, <2>2, <2>3, <3>1, BufferStays
  <2>5. AtAPart' /\ AllPartsArrive'
    BY <1>5 DEF AtAPart, AllPartsArrive
  <2>6. ~HasValue(NextPart)
    BY <1>3, <1>5, SidesAre DEF Delimiter
  <2>7. CookiesUpToABadOne'
    <3>1. TextParts' = TextParts
      BY <1>1, PartsStay
    <3>2. \A k \in 1..Len(pairs) : HasValue(TextParts[k])
      BY <1>1 DEF PartsInv, CookiesHaveValues
    <3> QED BY <1>5, <2>6, <3>1, <3>2 DEF CookiesUpToABadOne, NextPart
  <2> QED BY <2>2, <2>4, <2>5, <2>7 DEF PartsInv
<1> QED BY <1>2, <1>4, <1>5

LEMMA PartsInit == ContentInit => PartsInv
<1> SUFFICES ASSUME ContentInit PROVE PartsInv
  OBVIOUS
<1>1. kind \in DOMAIN Texts /\ text \in Texts[kind] /\ leftBytes = 0 /\ pos = 1 /\ pairs = <<>>
  BY DEF ContentInit
<1>2. text \in Seq(Char) /\ Len(text) < Infinity /\ kind \in Kinds
  BY <1>1, ContentAssumption DEF Char
<1>3. Len(text) \in Nat
  BY <1>2, LenProperties
<1>4. /\ Len(pairs) = 0 /\ PairTypes
      /\ Len(<<>>) = 0 /\ <<>> \in Seq(Char)
  BY <1>1, EmptySeq DEF PairTypes
<1>5. \/ kind \in {"form", "text"} /\ phase = "first" /\ unread = text /\ contentBuffer = <<>> /\ bytesReceived = 0
      \/ kind \notin {"form", "text"} /\ phase = "turn" /\ unread = <<>> /\ contentBuffer = text /\ bytesReceived = Len(text)
  BY DEF ContentInit
<1>6. TextTypes
  BY <1>2, <1>4, <1>5 DEF TextTypes
<1>7. PlaceTypes
  BY <1>1, <1>3, <1>4, <1>5 DEF PlaceTypes
<1>8. PhaseTypes
  BY <1>1, <1>2, <1>5 DEF PhaseTypes, Kinds
<1>9. Offset = 0
  BY <1>3, <1>4, <1>5 DEF Offset
<1>10. Window
  BY <1>3, <1>4, <1>5, <1>9 DEF Window
<1>11. Here = 1
  BY <1>1, <1>5, <1>9 DEF Here
<1>12. Before(1) = 0
  <2>1. {j \in Separators : j < 1} = {}
    <3>1. ASSUME NEW j \in Separators PROVE ~(j < 1)
      <4>1. j \in 1..Len(text)
        BY <1>2, SeparatorsAre
      <4> QED BY <1>3, <4>1
    <3> QED BY <3>1
  <2> QED BY <2>1, FS_EmptySet DEF Before
<1>13. AtAPart
  BY <1>4, <1>11, <1>12 DEF AtAPart, Starts
<1>14. CookiesHaveValues /\ AllPartsArrive /\ CookiesUpToABadOne
  BY <1>3, <1>4, <1>5 DEF CookiesHaveValues, AllPartsArrive, CookiesUpToABadOne
<1>15. PairsArrive
  <2>1. DOMAIN pairs = {}
    BY <1>1
  <2> QED BY <2>1 DEF PairsArrive
<1> QED BY <1>4, <1>6, <1>7, <1>8, <1>10, <1>13, <1>14, <1>15 DEF PartsInv, WindowInv

LEMMA PartsStep == PartsInv /\ [ContentNext]_contentVars => PartsInv'
<1> SUFFICES ASSUME PartsInv, [ContentNext]_contentVars PROVE PartsInv'
  OBVIOUS
<1>1. CASE GetPacket
  BY <1>1, PacketStep
<1>2. CASE GetNoPacket
  BY <1>2, NoPacketStep
<1>3. CASE Nothing
  BY <1>3, NothingStep
<1>4. CASE SaveLeftover
  BY <1>4, SaveLeftoverStep
<1>5. CASE ParseForm
  BY <1>5, ParseFormStep
<1>6. CASE ParseText
  BY <1>6, ParseTextStep
<1>7. CASE ParseParameters
  BY <1>7, ParseParametersStep
<1>8. CASE ParseCookies
  BY <1>8, ParseCookiesStep
<1>9. CASE NoCookies
  BY <1>9, NoCookiesStep
<1>10. CASE UNCHANGED contentVars
  <2>1. /\ TextKept /\ BufferKept /\ pairs' = pairs /\ leftBytes' = leftBytes /\ pos' = pos /\ phase' = phase
    BY <1>10 DEF contentVars, input, TextKept, BufferKept
  <2>2. WindowInv /\ PhaseTypes
    BY DEF PartsInv, WindowInv
  <2>3. PairTypes' /\ CookiesHaveValues' /\ PairsArrive'
    BY <2>1, PairsStay
  <2>4. PhaseTypes'
    BY <2>1, <2>2 DEF PhaseTypes, TextKept, BufferKept
  <2>5. WindowInv' /\ Offset' = Offset
    <3>1. leftBytes' \in 0..Len(contentBuffer) /\ pos' \in 1..Len(contentBuffer) + 1
      BY <2>1, <2>2, WindowIs
    <3> QED BY <2>1, <2>2, <2>3, <2>4, <3>1, BufferStays
  <2>6. Here' = Here
    BY <2>1, <2>5 DEF Here, BufferKept
  <2>7. AtAPart'
    BY <2>1, <2>6, PartsStay DEF AtAPart, PartsInv
  <2>8. TextParts' = TextParts
    BY <2>1, PartsStay
  <2>9. AllPartsArrive' /\ CookiesUpToABadOne'
    BY <2>1, <2>8 DEF AllPartsArrive, CookiesUpToABadOne, PartsInv, TextKept
  <2> QED BY <2>3, <2>5, <2>7, <2>9 DEF PartsInv
<1> QED BY <1>1, <1>2, <1>3, <1>4, <1>5, <1>6, <1>7, <1>8, <1>9, <1>10 DEF ContentNext

LEMMA PartsHold == ContentSpec => []PartsInv
BY PartsInit, PartsStep, PTL DEF ContentSpec

-----------------------------------------------------------------------------
(* However a content comes in packets: the places are within the buffer,   *)
(* what is kept between two packets and what is to come is the text from   *)
(* the first part on that is not inserted, a content that has been read to *)
(* its end has had all of its parts inserted, and the cookies are read up  *)
(* to the first that has no value.                                         *)
THEOREM NoPartIsLost == ContentSpec => []ContentInv
<1>1. ASSUME PartsInv PROVE ContentTypes
  BY <1>1 DEF PartsInv, WindowInv, PlaceTypes, PhaseTypes, ContentTypes, FullSize
<1>2. ASSUME PartsInv, phase = "receive"
      PROVE  After(contentBuffer, Len(contentBuffer) - leftBytes) \o unread = After(text, StartOf(Len(pairs) + 1) - 1)
  <2>1. WindowInv /\ AtAPart
    BY <1>2 DEF PartsInv
  <2>2. /\ text \in Seq(Char) /\ unread \in Seq(Char) /\ contentBuffer \in Seq(Char)
        /\ Len(text) \in Nat /\ Len(unread) \in Nat /\ Len(contentBuffer) \in Nat
        /\ Offset \in Nat /\ Offset + Len(contentBuffer) + Len(unread) = Len(text)
        /\ leftBytes \in 0..Len(contentBuffer)
        /\ \A i \in 1..Len(contentBuffer) : contentBuffer[i] = text[Offset + i]
    BY <2>1, WindowIs
  <2> DEFINE l == Len(contentBuffer) - leftBytes
             p == Offset + l
             A == After(contentBuffer, l)
             B == After(text, p)
  <2>3. l \in 0..Len(contentBuffer) /\ l \in Nat /\ Len(contentBuffer) - l = leftBytes /\ leftBytes \in Nat
    BY <2>2
  <2>4. p \in 0..Len(text) /\ Len(text) - p = leftBytes + Len(unread) /\ p \in Nat
    <3>1. Offset + Len(contentBuffer) + Len(unread) = Len(text) /\ Len(contentBuffer) = l + leftBytes
      BY <2>2, <2>3
    <3> HIDE DEF l
    <3> QED BY <2>2, <2>3, <3>1
  <2>5. /\ A \in Seq(Char) /\ Len(A) = leftBytes /\ \A i \in 1..leftBytes : A[i] = contentBuffer[l + i]
    <3>1. /\ A \in Seq(Char) /\ Len(A) = Len(contentBuffer) - l
          /\ \A i \in 1..Len(contentBuffer) - l : A[i] = contentBuffer[l + i]
      <4> HIDE DEF l
      <4> QED BY <2>2, <2>3, AfterIs
    <3> HIDE DEF l, A
    <3> QED BY <2>3, <3>1
  <2>6. /\ B \in Seq(Char) /\ Len(B) = leftBytes + Len(unread)
        /\ \A i \in 1..leftBytes + Len(unread) : B[i] = text[p + i]
    <3>1. /\ B \in Seq(Char) /\ Len(B) = Len(text) - p
          /\ \A i \in 1..Len(text) - p : B[i] = text[p + i]
      <4> HIDE DEF p
      <4> QED BY <2>2, <2>4, AfterIs
    <3> HIDE DEF p, B
    <3> QED BY <2>4, <3>1
  <2>7. ASSUME NEW i \in 1..leftBytes PROVE A[i] = B[i]
    <3>1. l + i \in 1..Len(contentBuffer) /\ p + i = Offset + (l + i) /\ i \in 1..leftBytes + Len(unread)
      BY <2>2, <2>3
    <3>2. A[i] = text[Offset + (l + i)]
      BY <2>2, <2>5, <3>1
    <3> HIDE DEF p, B, A, l
    <3> QED BY <2>6, <3>1, <3>2
  <2>8. ASSUME NEW k \in 1..Len(unread) PROVE unread[k] = B[leftBytes + k]
    <3>1. unread[k] = text[Len(text) - Len(unread) + k]
      BY <2>1 DEF WindowInv, Window
    <3>2. leftBytes + k \in 1..leftBytes + Len(unread) /\ k \in Nat
      BY <2>2, <2>3
    <3>3. Len(text) - Len(unread) + k = p + (leftBytes + k)
      <4> HIDE DEF p, l
      <4> QED BY <2>2, <2>3, <2>4, <3>2
    <3> HIDE DEF p, B
    <3> QED BY <2>6, <3>1, <3>2, <3>3
  <2>9. A \o unread = B
    <3> HIDE DEF A, B, l
    <3>1. /\ A \o unread \in Seq(Char) /\ Len(A \o unread) = Len(A) + Len(unread)
          /\ \A i \in 1..Len(A) + Len(unread) : (A \o unread)[i] = IF i <= Len(A) THEN A[i] ELSE unread[i - Len(A)]
      BY <2>2, <2>5, ConcatProperties, Zenon
    <3>2. Len(A \o unread) = Len(B)
      BY <2>5, <2>6, <3>1
    <3>3. ASSUME NEW i \in 1..Len(A \o unread) PROVE (A \o unread)[i] = B[i]
      <4>1. i \in 1..leftBytes + Len(unread)
        BY <2>5, <3>1
      <4>2. CASE i <= leftBytes
        <5>1. i \in 1..leftBytes
          BY <2>3, <4>1, <4>2
        <5> QED BY <2>5, <2>7, <3>1, <4>1, <4>2, <5>1
      <4>3. CASE ~(i <= leftBytes)
        <5>1. PICK k \in 1..Len(unread) : k = i - leftBytes
          BY <2>2, <2>3, <4>1, <4>3
        <5>2. (A \o unread)[i] = unread[k]
          BY <2>5, <3>1, <4>1, <4>3, <5>1
        <5>3. leftBytes + k = i
          BY <2>3, <4>1, <5>1
        <5> QED BY <2>8, <5>2, <5>3
      <4> QED BY <4>2, <4>3
    <3> QED BY <2>6, <3>1, <3>2, <3>3, SeqEqual
  <2>10. StartOf(Len(pairs) + 1) = Here
    <3>1. Here \in Starts /\ Before(Here) = Len(pairs)
      BY <1>2, <2>1 DEF AtAPart
    <3>2. StartOf(Before(Here) + 1) = Here
      BY <2>2, <3>1, StartIs
    <3> QED BY <3>1, <3>2
  <2>11. Here - 1 = p
    <3>1. Here = Offset + (Len(contentBuffer) - leftBytes + 1)
      BY <1>2 DEF Here
    <3> QED BY <2>2, <2>3, <3>1
  <2> HIDE DEF p
  <2> QED BY <2>9, <2>10, <2>11
<1>3. PartsInv => ContentInv
  BY <1>1, <1>2 DEF ContentInv, LeftoverIsNextPart, PartsInv
<1> QED BY <1>3, PartsHold, PTL

(* However a content comes in packets, every part with a name and a value  *)
(* is inserted as it was written and in its place (but for the last one of *)
(* a text/plain body or of the parameters).                                *)
THEOREM EveryPairArrives == ContentSpec => []PairsArrive
<1>1. PartsInv => PairsArrive
  BY DEF PartsInv
<1> QED BY <1>1, PartsHold, PTL
=============================================================================
