----------------------------- MODULE DataLemmas -----------------------------
(***************************************************************************)
(* Facts about data on which the other proofs rest.                        *)
(*                                                                         *)
(* Induction and recursion, in the form in which the provers can use them: *)
(* the property that is proved by induction is given as the set of what    *)
(* has it, the equation of a recursive function as an operator on          *)
(* functions.  And sequences: their parts, and what FlattenSeq makes of    *)
(* them.                                                                   *)
(***************************************************************************)
EXTENDS Cuts, SequencesExt, SequenceTheorems, WellFoundedInduction, TLAPS

-----------------------------------------------------------------------------
(* Induction and recursion *)

\* Induction over the natural numbers: T is the set of those that have the property.
LEMMA Induction ==
  ASSUME NEW T, 0 \in T, \A n \in Nat : n \in T => n + 1 \in T
  PROVE  Nat \subseteq T
<1> SUFFICES ASSUME Nat \ T # {} PROVE FALSE
  OBVIOUS
<1>1. \E x \in Nat \ T : \A y \in Nat \ T : ~(<<y, x>> \in OpToRel(<, Nat))
  BY NatLessThanWellFounded, WFMin
<1>2. PICK x \in Nat \ T : \A y \in Nat \ T : ~(y < x)
  BY <1>1 DEF OpToRel
<1>3. x # 0 /\ x - 1 \in Nat /\ x - 1 < x /\ (x - 1) + 1 = x
  BY <1>2
<1> QED BY <1>2, <1>3

\* r is a rank on S: there are finitely many.
Ranks(S, r) == \E b \in Nat : r \in [S -> 0 .. b]

\* What of S has everything of a lower rank in G is in G.
Inherited(S, r, G) == \A m \in S : (\A k \in S : r[k] < r[m] => k \in G) => m \in G

\* Induction along a rank: what has the property when everything of a lower rank has
\* it, has it.
LEMMA RankInduction ==
  ASSUME NEW S, NEW r, NEW G, Ranks(S, r), Inherited(S, r, G)
  PROVE  S \subseteq G
<1>1. PICK b \in Nat : r \in [S -> 0 .. b]
  BY DEF Ranks
<1> DEFINE T == {n \in Nat : \A m \in S : r[m] < n => m \in G}
<1>2. 0 \in T
  <2>1. \A m \in S : ~(r[m] < 0)
    BY <1>1
  <2> QED BY <2>1
<1>3. ASSUME NEW n \in Nat, n \in T PROVE n + 1 \in T
  <2> SUFFICES ASSUME NEW m \in S, r[m] < n + 1 PROVE m \in G
    OBVIOUS
  <2>1. \A k \in S : r[k] < r[m] => r[k] < n
    BY <1>1
  <2>2. \A k \in S : r[k] < r[m] => k \in G
    BY <1>3, <2>1
  <2> QED BY <2>2 DEF Inherited
<1>4. b + 1 \in T
  <2> HIDE DEF T
  <2> QED BY <1>2, <1>3, Induction
<1>5. \A m \in S : r[m] < b + 1
  BY <1>1
<1> QED BY <1>4, <1>5

\* D is the right-hand side of a recursive definition of a function from S to V: its
\* value at m depends on the values at arguments of a lower rank only.
Recursive(S, V, r, D) ==
  /\ V # {}
  /\ D \in [[S -> V] -> [S -> V]]
  /\ \A g, h \in [S -> V], m \in S :
       (\A k \in S : r[k] < r[m] => g[k] = h[k]) => D[g][m] = D[h][m]

\* Such a definition defines a function.
LEMMA Recursion ==
  ASSUME NEW S, NEW V, NEW r, NEW D, Ranks(S, r), Recursive(S, V, r, D)
  PROVE  \E f \in [S -> V] : f = D[f]
<1>1. PICK b \in Nat : r \in [S -> 0 .. b]
  BY DEF Ranks
<1>2. /\ V # {}
      /\ D \in [[S -> V] -> [S -> V]]
      /\ \A g, h \in [S -> V], m \in S :
           (\A k \in S : r[k] < r[m] => g[k] = h[k]) => D[g][m] = D[h][m]
  BY DEF Recursive
<1> DEFINE Good(f, n) == \A m \in S : r[m] < n => f[m] = D[f][m]
           T == {n \in Nat : \E f \in [S -> V] : Good(f, n)}
<1>3. 0 \in T
  <2>1. PICK v \in V : TRUE
    BY <1>2
  <2>2. [m \in S |-> v] \in [S -> V]
    OBVIOUS
  <2>3. \A m \in S : ~(r[m] < 0)
    BY <1>1
  <2> QED BY <2>2, <2>3
<1>4. ASSUME NEW n \in Nat, n \in T PROVE n + 1 \in T
  <2>1. PICK f \in [S -> V] : Good(f, n)
    BY <1>4
  <2>2. D[f] \in [S -> V]
    BY <1>2
  <2>3. ASSUME NEW m \in S, r[m] < n + 1 PROVE D[f][m] = D[D[f]][m]
    <3>1. \A k \in S : r[k] < r[m] => D[f][k] = f[k]
      <4> SUFFICES ASSUME NEW k \in S, r[k] < r[m] PROVE D[f][k] = f[k]
        OBVIOUS
      <4>1. r[k] < n
        BY <1>1, <2>3
      <4> QED BY <2>1, <4>1
    <3> QED BY <1>2, <2>2, <3>1
  <2>4. Good(D[f], n + 1)
    BY <2>3
  <2> QED BY <2>2, <2>4
<1>5. b + 1 \in T
  <2> HIDE DEF T
  <2> QED BY <1>3, <1>4, Induction
<1>6. PICK f \in [S -> V] : Good(f, b + 1)
  BY <1>5
<1>7. \A m \in S : f[m] = D[f][m]
  BY <1>1, <1>6
<1> QED BY <1>2, <1>7

\* What a loop returns: the result at the end of it, and the same all the way there.
Loops(D, stop, result, step, f) ==
  \A x \in D : f[x] = IF x \in stop THEN result[x] ELSE f[step[x]]

\* There is such a function, also when the loop does not end from everywhere.
LEMMA LoopExists ==
  ASSUME NEW D, NEW V, NEW v0 \in V, NEW stop \in SUBSET D,
         NEW result \in [D -> V], NEW step \in [D -> D]
  PROVE  \E f \in [D -> V] : Loops(D, stop, result, step, f)
<1> DEFINE Closed(Q) == /\ \A x \in stop : <<x, result[x]>> \in Q
                        /\ \A x \in D \ stop, v \in V : <<step[x], v>> \in Q => <<x, v>> \in Q
           Q0 == {q \in D \X V : \A Q \in SUBSET (D \X V) : Closed(Q) => q \in Q}
           f == [x \in D |-> IF \E v \in V : <<x, v>> \in Q0
                             THEN CHOOSE v \in V : <<x, v>> \in Q0 ELSE v0]
<1>1. Q0 \in SUBSET (D \X V)
  OBVIOUS
<1>2. \A Q \in SUBSET (D \X V) : Closed(Q) => Q0 \subseteq Q
  OBVIOUS
<1>3. Closed(Q0)
  <2>1. ASSUME NEW x \in stop PROVE <<x, result[x]>> \in Q0
    <3>1. <<x, result[x]>> \in D \X V
      OBVIOUS
    <3>2. \A Q \in SUBSET (D \X V) : Closed(Q) => <<x, result[x]>> \in Q
      OBVIOUS
    <3> QED BY <3>1, <3>2
  <2>2. ASSUME NEW x \in D \ stop, NEW v \in V, <<step[x], v>> \in Q0 PROVE <<x, v>> \in Q0
    <3>1. <<x, v>> \in D \X V
      OBVIOUS
    <3>2. ASSUME NEW Q \in SUBSET (D \X V), Closed(Q) PROVE <<x, v>> \in Q
      <4>1. <<step[x], v>> \in Q
        BY <2>2, <3>2
      <4> QED BY <3>2, <4>1
    <3> QED BY <3>1, <3>2
  <2> QED BY <2>1, <2>2
<1> HIDE DEF Q0
<1>4. /\ \A x \in stop, v \in V : <<x, v>> \in Q0 => v = result[x]
      /\ \A x \in D \ stop, v \in V : <<x, v>> \in Q0 => <<step[x], v>> \in Q0
  <2> DEFINE Q1 == {q \in Q0 : IF q[1] \in stop THEN q[2] = result[q[1]]
                               ELSE <<step[q[1]], q[2]>> \in Q0}
  <2>1. Q1 \in SUBSET (D \X V)
    BY <1>1
  <2>2. Closed(Q1)
    <3>1. ASSUME NEW x \in stop PROVE <<x, result[x]>> \in Q1
      BY <1>3
    <3>2. ASSUME NEW x \in D \ stop, NEW v \in V, <<step[x], v>> \in Q1 PROVE <<x, v>> \in Q1
      <4>1. <<step[x], v>> \in Q0
        BY <3>2
      <4>2. <<x, v>> \in Q0
        BY <1>3, <4>1
      <4> QED BY <4>1, <4>2
    <3> QED BY <3>1, <3>2
  <2>3. Q0 \subseteq Q1
    <3> HIDE DEF Q1, Closed
    <3> QED BY <1>2, <2>1, <2>2
  <2> QED BY <2>3
<1>5. \A x \in D, u, v \in V : <<x, u>> \in Q0 /\ <<x, v>> \in Q0 => u = v
  <2> DEFINE Q1 == {q \in Q0 : \A u \in V : <<q[1], u>> \in Q0 => u = q[2]}
  <2>1. Q1 \in SUBSET (D \X V)
    BY <1>1
  <2>2. Closed(Q1)
    <3>1. ASSUME NEW x \in stop PROVE <<x, result[x]>> \in Q1
      <4>1. <<x, result[x]>> \in Q0 /\ x \in D
        BY <1>3
      <4>2. \A u \in V : <<x, u>> \in Q0 => u = result[x]
        BY <1>4
      <4> QED BY <4>1, <4>2
    <3>2. ASSUME NEW x \in D \ stop, NEW v \in V, <<step[x], v>> \in Q1 PROVE <<x, v>> \in Q1
      <4>1. <<step[x], v>> \in Q0 /\ \A u \in V : <<step[x], u>> \in Q0 => u = v
        BY <3>2
      <4>2. <<x, v>> \in Q0
        BY <1>3, <4>1
      <4>3. \A u \in V : <<x, u>> \in Q0 => u = v
        BY <1>4, <4>1
      <4> QED BY <4>2, <4>3
    <3> QED BY <3>1, <3>2
  <2>3. Q0 \subseteq Q1
    <3> HIDE DEF Q1, Closed
    <3> QED BY <1>2, <2>1, <2>2
  <2> QED BY <2>3
<1>6. f \in [D -> V]
  OBVIOUS
<1>7. ASSUME NEW x \in D, NEW v \in V, <<x, v>> \in Q0 PROVE f[x] = v
  BY <1>5, <1>7
<1>8. ASSUME NEW x \in D, \A v \in V : <<x, v>> \notin Q0 PROVE f[x] = v0
  BY <1>8
<1> HIDE DEF f
<1>9. ASSUME NEW x \in D PROVE f[x] = IF x \in stop THEN result[x] ELSE f[step[x]]
  <2>1. CASE x \in stop
    BY <1>3, <1>7, <2>1
  <2>2. CASE x \notin stop
    <3> DEFINE y == step[x]
    <3>1. y \in D /\ \A v \in V : <<y, v>> \in Q0 <=> <<x, v>> \in Q0
      BY <1>3, <1>4, <2>2
    <3> HIDE DEF y
    <3>2. f[x] = f[y]
      <4>1. CASE \E v \in V : <<x, v>> \in Q0
        BY <1>7, <3>1, <4>1
      <4>2. CASE \A v \in V : <<x, v>> \notin Q0
        BY <1>8, <3>1, <4>2
      <4> QED BY <4>1, <4>2
    <3> QED BY <2>2, <3>2 DEF y
  <2> QED BY <2>1, <2>2
<1> QED BY <1>6, <1>9 DEF Loops

-----------------------------------------------------------------------------
(* Sequences *)

\* Some set holds the elements of both sequences.
LEMMA CommonSet ==
  ASSUME NEW S, NEW T, NEW s \in Seq(S), NEW t \in Seq(T)
  PROVE  s \in Seq(S \cup T) /\ t \in Seq(S \cup T)
<1>1. s \in [1 .. Len(s) -> S] /\ Len(s) \in Nat
  BY LenProperties
<1>2. t \in [1 .. Len(t) -> T] /\ Len(t) \in Nat
  BY LenProperties
<1>3. s \in [1 .. Len(s) -> S \cup T] /\ t \in [1 .. Len(t) -> S \cup T]
  BY <1>1, <1>2
<1> QED BY <1>1, <1>2, <1>3

\* Cutting a sequence.
LEMMA PartLengths ==
  ASSUME NEW S, NEW s \in Seq(S), NEW n \in 0 .. Len(s)
  PROVE  /\ Take(s, n) \in Seq(S) /\ Len(Take(s, n)) = n
         /\ Drop(s, n) \in Seq(S) /\ Len(Drop(s, n)) = Len(s) - n
<1>1. Len(s) \in Nat /\ \A i \in 1 .. Len(s) : s[i] \in S
  BY LenProperties
<1>2. \A i \in 1 .. n : s[i] \in S
  BY <1>1
<1>3. \A i \in n + 1 .. Len(s) : s[i] \in S
  BY <1>1
<1>4. Take(s, n) \in Seq(S) /\ Len(Take(s, n)) = n
  BY <1>1, <1>2, SubSeqProperties DEF Take
<1>5. Drop(s, n) \in Seq(S) /\ Len(Drop(s, n)) = Len(s) - n
  BY <1>1, <1>3, SubSeqProperties DEF Drop
<1> QED BY <1>4, <1>5

\* The two parts into which a sequence is cut.
LEMMA Parts ==
  ASSUME NEW S, NEW s \in Seq(S), NEW n \in 0 .. Len(s)
  PROVE  /\ Take(s, n) \in Seq(S) /\ Len(Take(s, n)) = n
         /\ Drop(s, n) \in Seq(S) /\ Len(Drop(s, n)) = Len(s) - n
         /\ \A i \in 1 .. n : Take(s, n)[i] = s[i]
         /\ \A i \in 1 .. Len(s) - n : Drop(s, n)[i] = s[n + i]
         /\ Take(s, n) \o Drop(s, n) = s
<1>1. Len(s) \in Nat /\ n \in Nat /\ n <= Len(s)
  BY LenProperties
<1>2. /\ Take(s, n) \in Seq(S) /\ Len(Take(s, n)) = n
      /\ Drop(s, n) \in Seq(S) /\ Len(Drop(s, n)) = Len(s) - n
  BY PartLengths
<1>3. \A i \in 1 .. n : Take(s, n)[i] = s[i]
  <2>1. \A i \in 1 .. n : s[i] \in S
    BY <1>1
  <2>2. \A i \in 1 .. n - 1 + 1 : SubSeq(s, 1, n)[i] = s[1 + i - 1]
    BY <1>1, <2>1, SubSeqProperties
  <2> QED BY <1>1, <2>2 DEF Take
<1>4. \A i \in 1 .. Len(s) - n : Drop(s, n)[i] = s[n + i]
  <2>1. \A i \in n + 1 .. Len(s) : s[i] \in S
    BY <1>1
  <2>2. n + 1 \in Int /\ Len(s) \in Int
    BY <1>1
  <2>3. \A i \in 1 .. Len(s) - (n + 1) + 1 : SubSeq(s, n + 1, Len(s))[i] = s[(n + 1) + i - 1]
    BY <2>1, <2>2, SubSeqProperties
  <2> QED BY <1>1, <2>3 DEF Drop
<1>5. Take(s, n) \o Drop(s, n) = s
  <2> DEFINE t == Take(s, n) \o Drop(s, n)
  <2>1. /\ t \in Seq(S) /\ Len(t) = n + (Len(s) - n)
        /\ \A i \in 1 .. n + (Len(s) - n) :
             t[i] = IF i <= n THEN Take(s, n)[i] ELSE Drop(s, n)[i - n]
    BY <1>2, ConcatProperties
  <2> HIDE DEF t
  <2>2. Len(t) = Len(s)
    BY <1>1, <2>1
  <2>3. ASSUME NEW i \in 1 .. Len(t) PROVE t[i] = s[i]
    <3>1. CASE i <= n
      BY <1>1, <1>3, <2>1, <2>2, <3>1
    <3>2. CASE ~(i <= n)
      <4>1. i - n \in 1 .. Len(s) - n /\ n + (i - n) = i
        BY <1>1, <2>2, <3>2
      <4>2. Drop(s, n)[i - n] = s[n + (i - n)]
        BY <1>4, <4>1
      <4> QED BY <1>1, <2>1, <2>2, <3>2, <4>1, <4>2
    <3> QED BY <3>1, <3>2
  <2>4. t = s
    BY <2>1, <2>2, <2>3, SeqEqual
  <2> QED BY <2>4 DEF t
<1> QED BY <1>2, <1>3, <1>4, <1>5

\* Dropping what stands in front.
LEMMA DropFront ==
  ASSUME NEW S, NEW a \in Seq(S), NEW b \in Seq(S)
  PROVE  Drop(a \o b, Len(a)) = b
<1>1. /\ a \o b \in Seq(S) /\ Len(a \o b) = Len(a) + Len(b)
      /\ \A i \in 1 .. Len(a) + Len(b) : (a \o b)[i] = IF i <= Len(a) THEN a[i] ELSE b[i - Len(a)]
  BY ConcatProperties
<1>2. Len(a) \in Nat /\ Len(b) \in Nat
  BY LenProperties
<1> DEFINE d == Drop(a \o b, Len(a))
<1>3. Len(a) \in 0 .. Len(a \o b)
  BY <1>1, <1>2
<1>4. /\ d \in Seq(S) /\ Len(d) = Len(a \o b) - Len(a)
      /\ \A i \in 1 .. Len(a \o b) - Len(a) : d[i] = (a \o b)[Len(a) + i]
  BY <1>1, <1>3, Parts
<1> HIDE DEF d
<1>5. Len(d) = Len(b)
  BY <1>1, <1>2, <1>4
<1>6. ASSUME NEW i \in 1 .. Len(d) PROVE d[i] = b[i]
  <2>1. /\ Len(a) + i \in 1 .. Len(a) + Len(b) /\ ~(Len(a) + i <= Len(a))
        /\ (Len(a) + i) - Len(a) = i /\ i \in 1 .. Len(a \o b) - Len(a)
    BY <1>1, <1>2, <1>5
  <2>2. d[i] = (a \o b)[Len(a) + i]
    BY <1>4, <2>1
  <2>3. (a \o b)[Len(a) + i] = b[(Len(a) + i) - Len(a)]
    BY <1>1, <2>1
  <2> QED BY <2>1, <2>2, <2>3
<1> QED BY <1>4, <1>5, <1>6, SeqEqual DEF d

\* Dropping a part of what stands in front leaves the rest of it.
LEMMA DropSome ==
  ASSUME NEW S, NEW a \in Seq(S), NEW b \in Seq(S), NEW n \in 0 .. Len(a)
  PROVE  Drop(a \o b, n) = Drop(a, n) \o b
<1>1. /\ Take(a, n) \in Seq(S) /\ Len(Take(a, n)) = n /\ Drop(a, n) \in Seq(S)
      /\ Take(a, n) \o Drop(a, n) = a
  BY Parts
<1>2. a \o b = Take(a, n) \o (Drop(a, n) \o b)
  <2> DEFINE x == Take(a, n)
             y == Drop(a, n)
  <2>1. (x \o y) \o b = x \o (y \o b)
    <3>1. x \in Seq(S) /\ y \in Seq(S)
      BY <1>1
    <3> HIDE DEF x, y
    <3> QED BY <3>1, ConcatAssociative
  <2> QED BY <1>1, <2>1
<1>3. Drop(a, n) \o b \in Seq(S)
  BY <1>1, ConcatProperties
<1>4. Drop(Take(a, n) \o (Drop(a, n) \o b), Len(Take(a, n))) = Drop(a, n) \o b
  BY <1>1, <1>3, DropFront
<1> QED BY <1>1, <1>2, <1>4

\* Dropping twice.
LEMMA DropTwice ==
  ASSUME NEW S, NEW s \in Seq(S), NEW m \in Nat, NEW n \in Nat, m + n <= Len(s)
  PROVE  Drop(Drop(s, m), n) = Drop(s, m + n)
<1> DEFINE d == Drop(s, m)
           e == Drop(d, n)
           f == Drop(s, m + n)
<1>1. Len(s) \in Nat /\ m \in 0 .. Len(s) /\ m + n \in 0 .. Len(s)
  BY LenProperties
<1>2. /\ d \in Seq(S) /\ Len(d) = Len(s) - m
      /\ \A i \in 1 .. Len(s) - m : d[i] = s[m + i]
  BY <1>1, Parts
<1>3. /\ f \in Seq(S) /\ Len(f) = Len(s) - (m + n)
      /\ \A i \in 1 .. Len(s) - (m + n) : f[i] = s[(m + n) + i]
  BY <1>1, Parts
<1> HIDE DEF d, f
<1>4. n \in 0 .. Len(d)
  BY <1>1, <1>2
<1>5. /\ e \in Seq(S) /\ Len(e) = Len(d) - n
      /\ \A i \in 1 .. Len(d) - n : e[i] = d[n + i]
  BY <1>2, <1>4, Parts
<1> HIDE DEF e
<1>6. Len(e) = Len(f)
  BY <1>1, <1>2, <1>3, <1>5
<1>7. ASSUME NEW i \in 1 .. Len(e) PROVE e[i] = f[i]
  <2>1. /\ i \in 1 .. Len(d) - n /\ n + i \in 1 .. Len(s) - m
        /\ i \in 1 .. Len(s) - (m + n) /\ m + (n + i) = (m + n) + i
    BY <1>1, <1>2, <1>5
  <2>2. e[i] = d[n + i] /\ d[n + i] = s[m + (n + i)] /\ f[i] = s[(m + n) + i]
    BY <1>2, <1>3, <1>5, <2>1
  <2> QED BY <2>1, <2>2
<1>8. e = f
  BY <1>3, <1>5, <1>6, <1>7, SeqEqual
<1> QED BY <1>8 DEF d, e, f

\* Dropping nothing, and everything.
LEMMA DropNone ==
  ASSUME NEW S, NEW s \in Seq(S)
  PROVE  Drop(s, 0) = s
<1>1. SubSeq(s, 1, Len(s)) = s
  BY SubSeqFull
<1> QED BY <1>1 DEF Drop

LEMMA DropAll ==
  ASSUME NEW S, NEW s \in Seq(S)
  PROVE  Drop(s, Len(s)) = << >>
<1>1. Len(s) \in Nat /\ Len(s) \in 0 .. Len(s)
  BY LenProperties
<1>2. Drop(s, Len(s)) \in Seq(S) /\ Len(Drop(s, Len(s))) = Len(s) - Len(s)
  BY <1>1, Parts
<1> QED BY <1>1, <1>2, EmptySeq

\* f[i] is what the first i sequences make, up to k.
Grows(S, seqs, k, f) ==
  /\ f \in [0 .. k -> Seq(S)]
  /\ f[0] = << >>
  /\ \A i \in 1 .. k : f[i] = f[i - 1] \o seqs[i]

\* FlattenSeq computes that.
LEMMA FlattenIs ==
  ASSUME NEW S, NEW seqs \in Seq(Seq(S)), NEW f, Grows(S, seqs, Len(seqs), f)
  PROVE  FlattenSeq(seqs) = f[Len(seqs)] /\ f[Len(seqs)] \in Seq(S)
<1> DEFINE n == Len(seqs)
<1>1. n \in Nat /\ \A i \in 1 .. n : seqs[i] \in Seq(S)
  BY LenProperties
<1>2. /\ f \in [0 .. n -> Seq(S)] /\ f[0] = << >>
      /\ \A i \in 1 .. n : f[i] = f[i - 1] \o seqs[i]
  BY DEF Grows
<1>3. CASE n = 0
  <2>1. seqs = << >>
    BY <1>3, EmptySeq
  <2> QED BY <1>2, <1>3, <2>1, EmptySeq DEF FlattenSeq
<1>4. CASE n # 0
  <2> DEFINE flatten[i \in 1 .. Len(seqs)] == IF i = 1 THEN seqs[i] ELSE flatten[i - 1] \o seqs[i]
             h == [i \in 1 .. Len(seqs) |-> f[i]]
  <2>1. FlattenSeq(seqs) = flatten[Len(seqs)]
    BY <1>4 DEF FlattenSeq
  <2>2. h = [i \in 1 .. Len(seqs) |-> IF i = 1 THEN seqs[i] ELSE h[i - 1] \o seqs[i]]
    <3>1. ASSUME NEW i \in 1 .. n PROVE h[i] = IF i = 1 THEN seqs[i] ELSE h[i - 1] \o seqs[i]
      <4>1. f[i] = f[i - 1] \o seqs[i]
        BY <1>2
      <4>2. CASE i = 1
        <5>1. f[0] \o seqs[1] = seqs[1]
          BY <1>1, <1>2, <4>2, ConcatEmptySeq
        <5>2. f[i - 1] = f[0]
          BY <4>2
        <5>3. h[i] = f[i]
          OBVIOUS
        <5> HIDE DEF h
        <5> QED BY <4>1, <4>2, <5>1, <5>2, <5>3
      <4>3. CASE i # 1
        <5>1. i - 1 \in 1 .. n
          BY <1>1, <4>3
        <5> QED BY <4>1, <4>3, <5>1
      <4> QED BY <4>2, <4>3
    <3> QED BY <3>1
  <2>3. flatten = [i \in 1 .. Len(seqs) |-> IF i = 1 THEN seqs[i] ELSE flatten[i - 1] \o seqs[i]]
    <3> HIDE DEF h
    <3> QED BY <2>2
  <2> HIDE DEF flatten
  <2> DEFINE T == {k \in Nat : k \in 1 .. n => flatten[k] = f[k]}
  <2>4. 0 \in T
    OBVIOUS
  <2>5. ASSUME NEW k \in Nat, k \in T PROVE k + 1 \in T
    <3> SUFFICES ASSUME k + 1 \in 1 .. n PROVE flatten[k + 1] = f[k + 1]
      OBVIOUS
    <3> DEFINE j == k + 1
    <3>1. j \in 1 .. n /\ j - 1 = k /\ (j = 1 <=> k = 0)
      OBVIOUS
    <3> HIDE DEF j
    <3>2. f[j] = f[k] \o seqs[j]
      BY <1>2, <3>1
    <3>3. flatten[j] = IF j = 1 THEN seqs[j] ELSE flatten[k] \o seqs[j]
      BY <2>3, <3>1
    <3> SUFFICES flatten[j] = f[j]
      BY DEF j
    <3>4. CASE k = 0
      <4>1. f[k] \o seqs[j] = seqs[j]
        BY <1>1, <1>2, <3>1, <3>4, ConcatEmptySeq
      <4> QED BY <3>1, <3>2, <3>3, <3>4, <4>1
    <3>5. CASE k # 0
      <4>1. k \in 1 .. n
        BY <1>1, <3>1, <3>5
      <4>2. flatten[k] = f[k]
        BY <2>5, <4>1
      <4> QED BY <3>1, <3>2, <3>3, <3>5, <4>2
    <3> QED BY <3>4, <3>5
  <2> HIDE DEF T
  <2>6. n \in T
    BY <1>1, <2>4, <2>5, Induction
  <2>7. n \in 1 .. n
    BY <1>1, <1>4
  <2>8. flatten[n] = f[n]
    BY <2>6, <2>7 DEF T
  <2> QED BY <1>1, <1>2, <2>1, <2>8
<1> QED BY <1>3, <1>4

Grown(S, seqs, k, f, g) ==
  /\ Grows(S, seqs, k + 1, g)
  /\ g[k + 1] = f[k] \o seqs[k + 1]

\* One more sequence.
LEMMA GrowsOn ==
  ASSUME NEW S, NEW seqs, NEW k \in Nat, NEW f, Grows(S, seqs, k, f), seqs[k + 1] \in Seq(S)
  PROVE  \E g : Grown(S, seqs, k, f, g)
<1> DEFINE last == f[k] \o seqs[k + 1]
           g == [i \in 0 .. k + 1 |-> IF i = k + 1 THEN last ELSE f[i]]
<1>1. last \in Seq(S)
  <2>1. f[k] \in Seq(S)
    BY DEF Grows
  <2> QED BY <2>1, ConcatProperties
<1> HIDE DEF last
<1>2. g \in [0 .. k + 1 -> Seq(S)] /\ g[0] = << >>
  BY <1>1 DEF Grows
<1>3. \A i \in 0 .. k : g[i] = f[i]
  OBVIOUS
<1>4. g[k + 1] = last
  <2>1. k + 1 \in 0 .. k + 1
    OBVIOUS
  <2> QED BY <2>1
<1> HIDE DEF g
<1>5. ASSUME NEW i \in 1 .. k + 1 PROVE g[i] = g[i - 1] \o seqs[i]
  <2>1. i - 1 \in 0 .. k
    OBVIOUS
  <2>2. g[i - 1] = f[i - 1]
    BY <1>3, <2>1
  <2>3. CASE i = k + 1
    <3>1. i - 1 = k
      BY <2>3
    <3> QED BY <1>4, <2>2, <2>3, <3>1 DEF last
  <2>4. CASE i # k + 1
    <3>1. i \in 1 .. k /\ i \in 0 .. k
      BY <2>4
    <3>2. g[i] = f[i] /\ f[i] = f[i - 1] \o seqs[i]
      BY <1>3, <3>1 DEF Grows
    <3> QED BY <2>2, <3>2
  <2> QED BY <2>3, <2>4
<1> QED BY <1>2, <1>4, <1>5 DEF Grown, Grows, last

\* Every sequence of sequences is flattened to something.
LEMMA FlattenExists ==
  ASSUME NEW S, NEW seqs \in Seq(Seq(S))
  PROVE  \E f : Grows(S, seqs, Len(seqs), f)
<1> DEFINE n == Len(seqs)
           T == {k \in Nat : k <= n => \E f : Grows(S, seqs, k, f)}
<1>1. n \in Nat /\ \A i \in 1 .. n : seqs[i] \in Seq(S)
  BY LenProperties
<1>2. 0 \in T
  <2> DEFINE f == [i \in 0 .. 0 |-> << >>]
  <2>1. f \in [0 .. 0 -> Seq(S)] /\ f[0] = << >> /\ \A i \in 1 .. 0 : f[i] = f[i - 1] \o seqs[i]
    BY EmptySeq
  <2> HIDE DEF f
  <2> QED BY <2>1 DEF Grows
<1>3. ASSUME NEW k \in Nat, k \in T PROVE k + 1 \in T
  <2> SUFFICES ASSUME k + 1 <= n PROVE \E g : Grows(S, seqs, k + 1, g)
    OBVIOUS
  <2>1. k <= n /\ k + 1 \in 1 .. n
    BY <1>1
  <2>2. PICK f : Grows(S, seqs, k, f)
    BY <1>3, <2>1
  <2>3. seqs[k + 1] \in Seq(S)
    BY <1>1, <2>1
  <2> QED BY <2>2, <2>3, GrowsOn DEF Grown
<1> HIDE DEF T
<1>4. n \in T
  BY <1>1, <1>2, <1>3, Induction
<1>5. n <= n
  BY <1>1
<1> QED BY <1>4, <1>5 DEF T

\* It is made of the same elements.
LEMMA FlattenType ==
  ASSUME NEW S, NEW seqs \in Seq(Seq(S))
  PROVE  FlattenSeq(seqs) \in Seq(S)
<1>1. PICK f : Grows(S, seqs, Len(seqs), f)
  BY FlattenExists
<1> QED BY <1>1, FlattenIs

\* Of no sequences it is nothing.
LEMMA FlattenEmpty == FlattenSeq(<< >>) = << >>
BY EmptySeq DEF FlattenSeq

\* One more sequence behind the others.
LEMMA FlattenAppend ==
  ASSUME NEW S, NEW seqs \in Seq(Seq(S)), NEW s \in Seq(S)
  PROVE  FlattenSeq(Append(seqs, s)) = FlattenSeq(seqs) \o s
<1> DEFINE t == Append(seqs, s)
           n == Len(seqs)
<1>1. n \in Nat
  BY LenProperties
<1>2. /\ t \in Seq(Seq(S)) /\ Len(t) = n + 1 /\ t[n + 1] = s
      /\ \A i \in 1 .. n : t[i] = seqs[i]
  OBVIOUS
<1>3. PICK f : Grows(S, seqs, n, f)
  BY FlattenExists
<1>4. FlattenSeq(seqs) = f[n]
  BY <1>3, FlattenIs
<1> HIDE DEF t, n
<1>5. Grows(S, t, n, f)
  BY <1>2, <1>3 DEF Grows
<1>6. t[n + 1] \in Seq(S)
  <2>1. t[n + 1] = s
    BY <1>2
  <2> QED BY <2>1
<1>7. PICK g : Grows(S, t, n + 1, g) /\ g[n + 1] = f[n] \o t[n + 1]
  <2>1. \E g : Grown(S, t, n, f, g)
    BY <1>1, <1>5, <1>6, GrowsOn
  <2> QED BY <2>1 DEF Grown
<1>8. Grows(S, t, Len(t), g)
  BY <1>2, <1>7
<1>9. FlattenSeq(t) = g[Len(t)]
  BY <1>2, <1>8, FlattenIs
<1> QED BY <1>2, <1>4, <1>7, <1>9 DEF t
=============================================================================
