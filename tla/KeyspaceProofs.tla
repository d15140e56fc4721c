--------------------------- MODULE KeyspaceProofs ---------------------------
(***************************************************************************)
(* The text of a reply gives the client the response back, and nothing     *)
(* shorter does; so the dispatcher, whose replies travel as text,          *)
(* implements Store.                                                       *)
(***************************************************************************)
EXTENDS Keyspace, DataLemmas, FiniteSetTheorems

-----------------------------------------------------------------------------
(* Lines *)

\* What replies are made of besides the units of S.
Units(S) == S \cup {CRLF} \cup {Type(c) : c \in {"+", "-", ":", "$", "*"}}
              \cup {Number(n) : n \in Int}

\* A line of text without a break.
Lines(S) == {line \in Seq(S) : \A i \in 1 .. Len(line) : line[i] # CRLF}

\* The first line of a response: its type, a line, and the break.
Opening(c, line) == <<Type(c)>> \o line \o <<CRLF>>

\* How it looks unit by unit.
Opened(V, c, line, x) ==
  /\ x \in Seq(V) /\ Len(x) = Len(line) + 2
  /\ x[1] = Type(c)
  /\ \A i \in 1 .. Len(line) : x[i + 1] = line[i]
  /\ x[Len(line) + 2] = CRLF

\* A row of one unit.
LEMMA Single ==
  ASSUME NEW V, NEW u \in V
  PROVE  <<u>> \in Seq(V) /\ Len(<<u>>) = 1 /\ <<u>>[1] = u
OBVIOUS

\* Three units in a row.
LEMMA Three ==
  ASSUME NEW a, NEW b, NEW c
  PROVE  <<a>> \o <<b>> \o <<c>> = <<a, b, c>>
<1> DEFINE x == (<<a>> \o <<b>>) \o <<c>>
           y == <<a, b, c>>
           V == {a, b, c}
<1>1. y \in Seq(V) /\ Len(y) = 3 /\ y[1] = a /\ y[2] = b /\ y[3] = c
  OBVIOUS
<1>2. x \in Seq(V) /\ Len(x) = 3 /\ x[1] = a /\ x[2] = b /\ x[3] = c
  OBVIOUS
<1> HIDE DEF x, y, V
<1>3. ASSUME NEW i \in 1 .. Len(x) PROVE x[i] = y[i]
  <2>1. i = 1 \/ i = 2 \/ i = 3
    BY <1>2
  <2> QED BY <1>1, <1>2, <2>1
<1>4. x = y
  BY <1>1, <1>2, <1>3, SeqEqual
<1> QED BY <1>4 DEF x, y

\* x is a with b behind it.
Joined(a, b, x) ==
  /\ Len(x) = Len(a) + Len(b)
  /\ \A i \in 1 .. Len(a) : x[i] = a[i]
  /\ \A i \in 1 .. Len(b) : x[Len(a) + i] = b[i]

\* Concatenation, by its positions.
LEMMA Join ==
  ASSUME NEW V, NEW a \in Seq(V), NEW b \in Seq(V)
  PROVE  a \o b \in Seq(V) /\ Joined(a, b, a \o b)
<1> DEFINE x == a \o b
<1>1. Len(a) \in Nat /\ Len(b) \in Nat
  BY LenProperties
<1>2. /\ x \in Seq(V) /\ Len(x) = Len(a) + Len(b)
      /\ \A i \in 1 .. Len(a) + Len(b) : x[i] = IF i <= Len(a) THEN a[i] ELSE b[i - Len(a)]
  BY ConcatProperties
<1> HIDE DEF x
<1>3. ASSUME NEW i \in 1 .. Len(a) PROVE x[i] = a[i]
  BY <1>1, <1>2
<1>4. ASSUME NEW i \in 1 .. Len(b) PROVE x[Len(a) + i] = b[i]
  <2>1. /\ Len(a) + i \in 1 .. Len(a) + Len(b) /\ ~(Len(a) + i <= Len(a))
        /\ (Len(a) + i) - Len(a) = i
    BY <1>1
  <2>2. x[Len(a) + i] = b[(Len(a) + i) - Len(a)]
    BY <1>2, <2>1
  <2> QED BY <2>1, <2>2
<1> QED BY <1>2, <1>3, <1>4 DEF Joined, x

\* An opening is its type, its line and the break.
LEMMA OpeningUnits ==
  ASSUME NEW V, CRLF \in V, NEW c, Type(c) \in V, NEW line \in Lines(V)
  PROVE  Opened(V, c, line, Opening(c, line))
<1> DEFINE t == <<Type(c)>>
           b == <<CRLF>>
           x == t \o line
           y == x \o b
           n == Len(line)
<1>1. line \in Seq(V) /\ n \in Nat
  BY LenProperties DEF Lines
<1>2. t \in Seq(V) /\ Len(t) = 1 /\ t[1] = Type(c)
  BY Single
<1>3. b \in Seq(V) /\ Len(b) = 1 /\ b[1] = CRLF
  BY Single
<1> HIDE DEF t, b
<1>4. x \in Seq(V) /\ Joined(t, line, x)
  BY <1>1, <1>2, Join
<1> HIDE DEF x
<1>5. y \in Seq(V) /\ Joined(x, b, y)
  BY <1>3, <1>4, Join
<1> HIDE DEF y
<1>6. Len(x) = 1 + n /\ x[1] = Type(c) /\ \A i \in 1 .. n : x[1 + i] = line[i]
  BY <1>1, <1>2, <1>4 DEF Joined
<1> HIDE DEF n
<1>7. /\ Len(y) = n + 2 /\ y[n + 2] = CRLF
      /\ \A i \in 1 .. n + 1 : y[i] = x[i]
  <2>1. Len(y) = Len(x) + 1 /\ y[Len(x) + 1] = b[1] /\ \A i \in 1 .. Len(x) : y[i] = x[i]
    BY <1>3, <1>5 DEF Joined
  <2>2. Len(x) = n + 1 /\ Len(x) + 1 = n + 2
    BY <1>1, <1>6
  <2> QED BY <1>3, <2>1, <2>2
<1>8. y[1] = Type(c)
  BY <1>1, <1>6, <1>7
<1>9. ASSUME NEW i \in 1 .. n PROVE y[i + 1] = line[i]
  <2>1. i + 1 \in 1 .. n + 1 /\ i + 1 = 1 + i
    BY <1>1
  <2> QED BY <1>6, <1>7, <2>1
<1> QED BY <1>5, <1>7, <1>8, <1>9 DEF Opened, Opening, y, x, t, b, n

\* What the client finds behind an opening that is there.
Read(data, c, line, rest) ==
  /\ data # << >> /\ data[1] = Type(c)
  /\ HasLine(Tail(data)) /\ Line(Tail(data)) = line /\ AfterLine(Tail(data)) = rest

\* The client reads an opening back, whatever is behind it.
LEMMA OpeningRead ==
  ASSUME NEW V, CRLF \in V, NEW c, Type(c) \in V, NEW line \in Lines(V), NEW rest \in Seq(V)
  PROVE  Read(Opening(c, line) \o rest, c, line, rest)
<1> DEFINE x == Opening(c, line)
           data == x \o rest
           t == Tail(data)
           n == Len(line)
           m == Len(rest)
<1>1. Opened(V, c, line, x)
  BY OpeningUnits
<1>2. line \in Seq(V) /\ n \in Nat /\ m \in Nat /\ \A i \in 1 .. n : line[i] # CRLF
  BY LenProperties DEF Lines
<1> HIDE DEF x
<1>3. /\ x \in Seq(V) /\ Len(x) = n + 2 /\ x[1] = Type(c) /\ x[n + 2] = CRLF
      /\ \A i \in 1 .. n : x[i + 1] = line[i]
  BY <1>1 DEF Opened
<1>4. data \in Seq(V) /\ Joined(x, rest, data)
  BY <1>3, Join
<1>5. data \in Seq(V) /\ Len(data) = (n + 2) + m /\ \A i \in 1 .. n + 2 : data[i] = x[i]
  <2> HIDE DEF data
  <2> QED BY <1>3, <1>4 DEF Joined
<1> HIDE DEF data, m, n
<1>6. data # << >> /\ data[1] = Type(c)
  <2>1. 1 \in 1 .. n + 2 /\ (n + 2) + m # 0
    BY <1>2
  <2> QED BY <1>3, <1>5, <2>1, EmptySeq
<1>7. /\ t \in Seq(V) /\ Len(t) = n + 1 + m
      /\ \A i \in 1 .. n + 1 + m : t[i] = data[i + 1]
  <2>1. /\ Tail(data) \in Seq(V) /\ Len(Tail(data)) = Len(data) - 1
        /\ \A i \in 1 .. Len(data) - 1 : Tail(data)[i] = data[i + 1]
    BY <1>5, <1>6, HeadTailProperties
  <2>2. Len(data) - 1 = n + 1 + m
    BY <1>2, <1>5
  <2> QED BY <2>1, <2>2
<1> HIDE DEF t
<1>8. ASSUME NEW i \in 1 .. n PROVE t[i] = line[i]
  <2>1. i \in 1 .. n + 1 + m /\ i + 1 \in 1 .. n + 2
    BY <1>2
  <2>2. t[i] = data[i + 1] /\ data[i + 1] = x[i + 1] /\ x[i + 1] = line[i]
    BY <1>3, <1>5, <1>7, <2>1
  <2> QED BY <2>2
<1>9. t[n + 1] = CRLF
  <2>1. n + 1 \in 1 .. n + 1 + m /\ (n + 1) + 1 = n + 2 /\ n + 2 \in 1 .. n + 2
    BY <1>2
  <2>2. t[n + 1] = data[(n + 1) + 1] /\ data[n + 2] = x[n + 2]
    BY <1>5, <1>7, <2>1
  <2> QED BY <1>3, <2>1, <2>2
<1>10. ASSUME NEW i \in 1 .. m PROVE t[n + 1 + i] = rest[i]
  <2>1. n + 1 + i \in 1 .. n + 1 + m /\ (n + 1 + i) + 1 = Len(x) + i
    BY <1>2, <1>3
  <2>2. t[n + 1 + i] = data[(n + 1 + i) + 1]
    BY <1>7, <2>1
  <2>3. data[Len(x) + i] = rest[i]
    BY <1>4 DEF Joined, m
  <2> QED BY <2>1, <2>2, <2>3
<1>11. DOMAIN t = 1 .. n + 1 + m
  BY <1>7, LenProperties
<1>12. HasLine(t) /\ LineEnd(t) = n + 1
  <2>1. n + 1 \in DOMAIN t
    BY <1>2, <1>11
  <2>2. \A j \in 1 .. (n + 1) - 1 : t[j] # CRLF
    BY <1>2, <1>8
  <2>3. ASSUME NEW i \in DOMAIN t, t[i] = CRLF, \A j \in 1 .. i - 1 : t[j] # CRLF
        PROVE  i = n + 1
    <3>1. i \in Nat /\ ~(i \in 1 .. n) /\ ~(n + 1 \in 1 .. i - 1) /\ i >= 1
      BY <1>2, <1>9, <1>11, <2>2, <2>3
    <3> QED BY <1>2, <3>1
  <2> QED BY <1>9, <2>1, <2>2, <2>3 DEF HasLine, LineEnd
<1>13. Line(t) = line
  <2> DEFINE l == Take(t, n)
  <2>1. n \in 0 .. Len(t)
    BY <1>2, <1>7
  <2>2. l \in Seq(V) /\ Len(l) = n /\ \A i \in 1 .. n : l[i] = t[i]
    BY <1>7, <2>1, Parts
  <2> HIDE DEF l
  <2>3. Len(l) = Len(line) /\ \A i \in 1 .. Len(l) : l[i] = line[i]
    BY <1>8, <2>2 DEF n
  <2>4. l = line
    BY <1>2, <2>2, <2>3, SeqEqual
  <2>5. LineEnd(t) - 1 = n
    BY <1>2, <1>12
  <2> QED BY <2>4, <2>5 DEF Line, l
<1>14. AfterLine(t) = rest
  <2> DEFINE r == Drop(t, n + 1)
  <2>1. n + 1 \in 0 .. Len(t) /\ Len(t) - (n + 1) = m
    BY <1>2, <1>7
  <2>2. r \in Seq(V) /\ Len(r) = m /\ \A i \in 1 .. m : r[i] = t[n + 1 + i]
    BY <1>7, <2>1, Parts
  <2> HIDE DEF r
  <2>3. Len(r) = Len(rest) /\ \A i \in 1 .. Len(r) : r[i] = rest[i]
    BY <1>10, <2>2 DEF m
  <2>4. r = rest
    BY <2>2, <2>3, SeqEqual
  <2> QED BY <1>12, <2>4 DEF AfterLine, r
<1> QED BY <1>6, <1>12, <1>13, <1>14 DEF Read, data, t, x

\* A part of an opening has no line in it.
Unread(data, c) ==
  data # << >> => data[1] = Type(c) /\ ~HasLine(Tail(data))

\* In less than an opening the client finds no line.
LEMMA OpeningCut ==
  ASSUME NEW V, CRLF \in V, NEW c, Type(c) \in V, NEW line \in Lines(V),
         NEW n \in Nat, n < Len(Opening(c, line))
  PROVE  Unread(Take(Opening(c, line), n), c)
<1> DEFINE x == Opening(c, line)
           data == Take(x, n)
           t == Tail(data)
<1> SUFFICES ASSUME data # << >> PROVE data[1] = Type(c) /\ ~HasLine(t)
  BY DEF Unread
<1>1. Opened(V, c, line, x)
  BY OpeningUnits
<1>2. line \in Seq(V) /\ Len(line) \in Nat /\ \A i \in 1 .. Len(line) : line[i] # CRLF
  BY LenProperties DEF Lines
<1> HIDE DEF x
<1>3. /\ x \in Seq(V) /\ Len(x) = Len(line) + 2 /\ x[1] = Type(c)
      /\ \A i \in 1 .. Len(line) : x[i + 1] = line[i]
  BY <1>1 DEF Opened
<1>4. n \in 0 .. Len(x) /\ n <= Len(line) + 1
  BY <1>2, <1>3 DEF x
<1>5. data \in Seq(V) /\ Len(data) = n /\ \A i \in 1 .. n : data[i] = x[i]
  BY <1>3, <1>4, Parts
<1> HIDE DEF data
<1>6. n # 0
  BY <1>5, EmptySeq
<1>7. t \in Seq(V) /\ Len(t) = n - 1 /\ \A i \in 1 .. n - 1 : t[i] = data[i + 1]
  BY <1>5, HeadTailProperties
<1> HIDE DEF t
<1>8. DOMAIN t = 1 .. n - 1
  BY <1>7, LenProperties
<1>9. ASSUME NEW i \in 1 .. n - 1 PROVE t[i] # CRLF
  <2>1. i + 1 \in 1 .. n /\ i \in 1 .. Len(line)
    BY <1>2, <1>4
  <2>2. t[i] = line[i]
    BY <1>3, <1>5, <1>7, <2>1
  <2> QED BY <1>2, <2>1, <2>2
<1>10. data[1] = Type(c)
  BY <1>3, <1>5, <1>6
<1> QED BY <1>8, <1>9, <1>10 DEF HasLine
-----------------------------------------------------------------------------
(* Parts of what is joined *)

\* The first units of a sequence that something is joined to.
LEMMA TakeFront ==
  ASSUME NEW V, NEW a \in Seq(V), NEW b \in Seq(V), NEW n \in 0 .. Len(a)
  PROVE  Take(a \o b, n) = Take(a, n)
<1> DEFINE x == a \o b
           p == Take(x, n)
           q == Take(a, n)
<1>1. Len(a) \in Nat /\ Len(b) \in Nat
  BY LenProperties
<1>2. x \in Seq(V) /\ Len(x) = Len(a) + Len(b) /\ \A i \in 1 .. Len(a) : x[i] = a[i]
  BY Join DEF Joined
<1> HIDE DEF x
<1>3. n \in 0 .. Len(x)
  BY <1>1, <1>2
<1>4. p \in Seq(V) /\ Len(p) = n /\ \A i \in 1 .. n : p[i] = x[i]
  BY <1>2, <1>3, Parts
<1>5. q \in Seq(V) /\ Len(q) = n /\ \A i \in 1 .. n : q[i] = a[i]
  BY Parts
<1> HIDE DEF p, q
<1>6. ASSUME NEW i \in 1 .. Len(p) PROVE p[i] = q[i]
  <2>1. i \in 1 .. n /\ i \in 1 .. Len(a)
    BY <1>1, <1>4
  <2> QED BY <1>2, <1>4, <1>5, <2>1
<1>7. p = q
  BY <1>4, <1>5, <1>6, SeqEqual
<1> QED BY <1>7 DEF p, q, x

\* All of the first part and some units of the second.
LEMMA TakeMore ==
  ASSUME NEW V, NEW a \in Seq(V), NEW b \in Seq(V), NEW n \in 0 .. Len(b)
  PROVE  Take(a \o b, Len(a) + n) = a \o Take(b, n)
<1> DEFINE x == a \o b
           c == Take(b, n)
           p == Take(x, Len(a) + n)
           q == a \o c
<1>1. Len(a) \in Nat /\ Len(b) \in Nat
  BY LenProperties
<1>2. x \in Seq(V) /\ Joined(a, b, x)
  BY Join
<1>3. c \in Seq(V) /\ Len(c) = n /\ \A i \in 1 .. n : c[i] = b[i]
  BY Parts
<1> HIDE DEF x, c
<1>4. q \in Seq(V) /\ Joined(a, c, q)
  BY <1>3, Join
<1>5. Len(a) + n \in 0 .. Len(x)
  BY <1>1, <1>2 DEF Joined
<1>6. p \in Seq(V) /\ Len(p) = Len(a) + n /\ \A i \in 1 .. Len(a) + n : p[i] = x[i]
  BY <1>2, <1>5, Parts
<1> HIDE DEF p, q
<1>7. Len(q) = Len(a) + n
  BY <1>3, <1>4 DEF Joined
<1>8. ASSUME NEW i \in 1 .. Len(p) PROVE p[i] = q[i]
  <2>1. p[i] = x[i]
    BY <1>6
  <2>2. CASE i <= Len(a)
    <3>1. i \in 1 .. Len(a)
      BY <1>1, <2>2
    <3> QED BY <1>2, <1>4, <2>1, <3>1 DEF Joined
  <2>3. CASE ~(i <= Len(a))
    <3> DEFINE j == i - Len(a)
    <3>1. j \in 1 .. n /\ j \in 1 .. Len(b) /\ Len(a) + j = i
      BY <1>1, <1>6, <2>3
    <3> HIDE DEF j
    <3>2. x[Len(a) + j] = b[j]
      BY <1>2, <3>1 DEF Joined
    <3>3. q[Len(a) + j] = c[j]
      BY <1>3, <1>4, <3>1 DEF Joined
    <3> QED BY <1>3, <2>1, <3>1, <3>2, <3>3
  <2> QED BY <2>2, <2>3
<1>9. p = q
  BY <1>4, <1>6, <1>7, <1>8, SeqEqual
<1> QED BY <1>9 DEF p, q, x, c

-----------------------------------------------------------------------------
(* Responses that are no arrays *)

Types == {"+", "-", ":", "$", "*"}

\* Replies are made of the units of V.
Alphabet(V) ==
  /\ CRLF \in V
  /\ \A c \in Types : Type(c) \in V
  /\ \A n \in Int : Number(n) \in V

\* Behind its first line the response r has the body b.
Behind(V, c, line, b, r) ==
  /\ b \in Seq(V)
  /\ \A rest \in Seq(V) : ParseLine(c, line, b \o rest) = Parsed(r, rest)
  /\ \A n \in 0 .. Len(b) - 1 : ParseLine(c, line, Take(b, n)).outcome # "parsed"

\* text is the response r.
Written(V, r, text) ==
  \E c \in Types \ {"*"}, line \in Lines(V), b \in Seq(V) :
    text = Opening(c, line) \o b /\ Behind(V, c, line, b, r)

\* An opening is made of the alphabet.
LEMMA OpeningType ==
  ASSUME NEW V, Alphabet(V), NEW c \in Types, NEW line \in Lines(V)
  PROVE  Opening(c, line) \in Seq(V) /\ Len(Opening(c, line)) = Len(line) + 2
<1>1. CRLF \in V /\ Type(c) \in V
  BY DEF Alphabet
<1> QED BY <1>1, OpeningUnits DEF Opened

\* So is a response.
LEMMA WrittenType ==
  ASSUME NEW V, Alphabet(V), NEW r, NEW text, Written(V, r, text)
  PROVE  text \in Seq(V)
<1>1. PICK c \in Types \ {"*"}, line \in Lines(V), b \in Seq(V) : text = Opening(c, line) \o b
  BY DEF Written
<1>2. Opening(c, line) \in Seq(V)
  BY <1>1, OpeningType
<1> QED BY <1>1, <1>2, Join

\* The response is read from its text.
LEMMA ScalarRead ==
  ASSUME NEW V, Alphabet(V), NEW r, NEW text, Written(V, r, text), NEW rest \in Seq(V)
  PROVE  ParseScalar(text \o rest) = Parsed(r, rest)
<1>1. PICK c \in Types \ {"*"}, line \in Lines(V), b \in Seq(V) :
        text = Opening(c, line) \o b /\ Behind(V, c, line, b, r)
  BY DEF Written
<1> DEFINE o == Opening(c, line)
           d == b \o rest
           data == o \o d
<1>2. o \in Seq(V) /\ d \in Seq(V) /\ CRLF \in V /\ Type(c) \in V
  BY <1>1, OpeningType, Join DEF Alphabet
<1>3. text \o rest = data
  <2>1. (o \o b) \o rest = o \o (b \o rest)
    <3> HIDE DEF o
    <3> QED BY <1>2, ConcatAssociative
  <2> QED BY <1>1, <2>1
<1>4. Read(data, c, line, d)
  <2> HIDE DEF d
  <2> QED BY <1>2, OpeningRead
<1>5. ParseLine(c, line, d) = Parsed(r, rest)
  BY <1>1 DEF Behind
<1> HIDE DEF data, d
<1>6. ParseScalar(data) = ParseLine(c, line, d)
  <2>1. /\ data # << >> /\ data[1] = Type(c) /\ HasLine(Tail(data))
        /\ Line(Tail(data)) = line /\ AfterLine(Tail(data)) = d
    BY <1>4 DEF Read
  <2>2. data[1][1] = "type" /\ data[1][2] = c
    BY <2>1 DEF Type
  <2> QED BY <2>1, <2>2 DEF ParseScalar
<1> QED BY <1>3, <1>5, <1>6

\* A part of the text is no response.
LEMMA ScalarCut ==
  ASSUME NEW V, Alphabet(V), NEW r, NEW text, Written(V, r, text),
         NEW n \in Nat, n < Len(text)
  PROVE  ParseScalar(Take(text, n)).outcome # "parsed"
<1>1. PICK c \in Types \ {"*"}, line \in Lines(V), b \in Seq(V) :
        text = Opening(c, line) \o b /\ Behind(V, c, line, b, r)
  BY DEF Written
<1> DEFINE o == Opening(c, line)
           data == Take(text, n)
<1>2. o \in Seq(V) /\ CRLF \in V /\ Type(c) \in V /\ Len(o) \in Nat /\ Len(b) \in Nat
  BY <1>1, OpeningType, LenProperties DEF Alphabet
<1>3. Len(text) = Len(o) + Len(b)
  BY <1>1, <1>2, Join DEF Joined
<1>4. CASE n < Len(o)
  <2>1. n \in 0 .. Len(o)
    BY <1>2, <1>4
  <2>2. data = Take(o, n)
    BY <1>1, <1>2, <2>1, TakeFront
  <2>3. Unread(data, c)
    BY <1>2, <1>4, <2>2, OpeningCut
  <2>4. ParseScalar(data) \in {Incomplete, Invalid}
    <3> HIDE DEF data
    <3> QED BY <2>3 DEF Unread, ParseScalar
  <2>5. Incomplete.outcome # "parsed" /\ Invalid.outcome # "parsed"
    BY DEF Incomplete, Invalid
  <2> QED BY <2>4, <2>5
<1>5. CASE ~(n < Len(o))
  <2> DEFINE m == n - Len(o)
             d == Take(b, m)
  <2>1. m \in 0 .. Len(b) /\ m \in 0 .. Len(b) - 1 /\ Len(o) + m = n
    BY <1>2, <1>3, <1>5
  <2> HIDE DEF m
  <2>2. Take(o \o b, Len(o) + m) = o \o d
    BY <1>2, <2>1, TakeMore
  <2>3. data = o \o d
    BY <1>1, <2>1, <2>2
  <2>4. d \in Seq(V)
    BY <2>1, Parts
  <2>5. ParseLine(c, line, d).outcome # "parsed"
    BY <1>1, <2>1 DEF Behind
  <2> HIDE DEF d, data
  <2>6. Read(data, c, line, d)
    BY <1>2, <2>3, <2>4, OpeningRead
  <2>7. /\ data # << >> /\ data[1] = Type(c) /\ HasLine(Tail(data))
        /\ Line(Tail(data)) = line /\ AfterLine(Tail(data)) = d
    BY <2>6 DEF Read
  <2>8. data[1][1] = "type" /\ data[1][2] = c
    BY <2>7 DEF Type
  <2> QED BY <2>5, <2>7, <2>8 DEF ParseScalar, data
<1> QED BY <1>4, <1>5

\* Every kind of response.
Scalars(V) ==
  {SimpleString(line) : line \in Lines(V)} \cup {Error(line) : line \in Lines(V)}
  \cup {Integer(n) : n \in Int} \cup {BulkString(text) : text \in Seq(V)}
  \cup {NullBulkString}

\* A number in a line of its own.
LEMMA NumberLine ==
  ASSUME NEW V, Alphabet(V), NEW n \in Int
  PROVE  /\ <<Number(n)>> \in Lines(V)
         /\ IsNumber(<<Number(n)>>) /\ NumberOf(<<Number(n)>>) = n
<1> DEFINE u == Number(n)
<1>1. u \in V
  BY DEF Alphabet
<1>2. u[1] = "number" /\ u[2] = n
  BY DEF Number
<1>3. CRLF[1] = "crlf"
  BY DEF CRLF
<1> HIDE DEF u
<1>4. u # CRLF
  BY <1>2, <1>3
<1>5. <<u>> \in Seq(V) /\ Len(<<u>>) = 1 /\ <<u>>[1] = u
  BY <1>1, Single
<1>6. <<u>> \in Lines(V)
  BY <1>4, <1>5 DEF Lines
<1>7. IsNumber(<<u>>) /\ NumberOf(<<u>>) = n
  BY <1>2, <1>5 DEF IsNumber, NumberOf
<1> QED BY <1>6, <1>7 DEF u

\* Nothing is behind the line.
LEMMA NoBody ==
  ASSUME NEW V, NEW c, NEW line, NEW r,
         \A rest \in Seq(V) : ParseLine(c, line, rest) = Parsed(r, rest)
  PROVE  Behind(V, c, line, << >>, r)
<1>1. << >> \in Seq(V) /\ Len(<< >>) = 0
  BY EmptySeq
<1>2. ASSUME NEW rest \in Seq(V) PROVE ParseLine(c, line, << >> \o rest) = Parsed(r, rest)
  <2>1. << >> \o rest = rest
    BY ConcatEmptySeq
  <2> QED BY <2>1
<1>3. 0 .. Len(<< >>) - 1 = {}
  BY <1>1
<1> QED BY <1>1, <1>2, <1>3 DEF Behind

\* The text of a bulk string and the break behind it.
LEMMA BulkBody ==
  ASSUME NEW V, Alphabet(V), NEW text \in Seq(V)
  PROVE  Behind(V, "$", <<Number(Len(text))>>, text \o <<CRLF>>, BulkString(text))
<1> DEFINE n == Len(text)
           b == text \o <<CRLF>>
           line == <<Number(n)>>
<1>1. n \in Nat
  BY LenProperties
<1>2. IsNumber(line) /\ NumberOf(line) = n
  BY <1>1, NumberLine
<1>3. ASSUME NEW rest PROVE ParseLine("$", line, rest) = ParseBulk(n, rest)
  <2> HIDE DEF n, line
  <2> QED BY <1>2 DEF ParseLine
<1>4. <<CRLF>> \in Seq(V) /\ Len(<<CRLF>>) = 1 /\ <<CRLF>>[1] = CRLF
  BY Single DEF Alphabet
<1>5. b \in Seq(V) /\ Len(b) = n + 1 /\ b[n + 1] = CRLF
  <2>1. b \in Seq(V) /\ Joined(text, <<CRLF>>, b)
    BY <1>4, Join
  <2> HIDE DEF b
  <2>2. Len(b) = n + 1
    BY <1>4, <2>1 DEF Joined
  <2>3. b[n + 1] = CRLF
    BY <1>4, <2>1 DEF Joined
  <2> QED BY <2>1, <2>2, <2>3
<1>6. ASSUME NEW rest \in Seq(V)
      PROVE  ParseBulk(n, b \o rest) = Parsed(BulkString(text), rest)
  <2> DEFINE d == b \o rest
  <2>1. d \in Seq(V) /\ Joined(b, rest, d)
    <3> HIDE DEF b
    <3> QED BY <1>5, Join
  <2>2. Len(rest) \in Nat
    BY LenProperties
  <2>3. Drop(d, n + 1) = rest
    <3> HIDE DEF b
    <3>1. Drop(b \o rest, Len(b)) = rest
      BY <1>5, DropFront
    <3> QED BY <1>5, <3>1
  <2>4. Take(d, n) = text
    <3>1. n \in 0 .. Len(b) /\ n \in 0 .. Len(text)
      <4> HIDE DEF b
      <4> QED BY <1>1, <1>5
    <3>2. Take(b \o rest, n) = Take(b, n)
      <4> HIDE DEF b
      <4> QED BY <1>5, <3>1, TakeFront
    <3>3. Take(text \o <<CRLF>>, n) = Take(text, n)
      BY <1>4, <3>1, TakeFront
    <3>4. Take(text, n) = text
      BY SubSeqFull DEF Take
    <3> QED BY <3>2, <3>3, <3>4
  <2> HIDE DEF b, d
  <2>5. n + 1 <= Len(d) /\ d[n + 1] = CRLF
    <3>1. Len(d) = (n + 1) + Len(rest)
      BY <1>5, <2>1 DEF Joined
    <3>2. n + 1 \in 1 .. Len(b)
      BY <1>1, <1>5
    <3>3. d[n + 1] = b[n + 1]
      BY <2>1, <3>2 DEF Joined
    <3> HIDE DEF n
    <3> QED BY <1>1, <1>5, <2>2, <3>1, <3>3
  <2> HIDE DEF n
  <2>6. ~(n = -1) /\ ~(n < -1) /\ ~(n + 1 > Len(d))
    <3>1. Len(d) \in Nat
      BY <2>1, LenProperties
    <3> QED BY <1>1, <2>5, <3>1
  <2> QED BY <2>3, <2>4, <2>5, <2>6 DEF ParseBulk, d
<1>7. ASSUME NEW m \in 0 .. Len(b) - 1 PROVE ParseBulk(n, Take(b, m)).outcome # "parsed"
  <2> HIDE DEF b
  <2>1. m \in 0 .. Len(b)
    BY <1>1, <1>5
  <2>2. Len(Take(b, m)) = m
    BY <1>5, <2>1, Parts
  <2> HIDE DEF n
  <2>3. ~(n = -1) /\ ~(n < -1) /\ n + 1 > Len(Take(b, m))
    BY <1>1, <1>5, <2>2
  <2>4. ParseBulk(n, Take(b, m)) = Incomplete
    BY <2>3 DEF ParseBulk
  <2> QED BY <2>4 DEF Incomplete
<1> HIDE DEF n, b, line
<1>8. Behind(V, "$", line, b, BulkString(text))
  BY <1>3, <1>5, <1>6, <1>7 DEF Behind
<1> QED BY <1>8 DEF n, b, line

\* Every response is written so that it can be read.
LEMMA ScalarWritten ==
  ASSUME NEW V, Alphabet(V), NEW r \in Scalars(V)
  PROVE  Written(V, r, SerializeScalar(r))
<1> DEFINE text == SerializeScalar(r)
<1> SUFFICES Written(V, r, text)
  OBVIOUS
<1>1. ASSUME NEW c \in {"+", "-"}, NEW line \in Lines(V), r = [type |-> c, value |-> line]
      PROVE  Written(V, r, text)
  <2>1. text = Opening(c, line)
    BY <1>1 DEF SerializeScalar, Opening
  <2>2. Opening(c, line) \in Seq(V)
    BY <1>1, OpeningType DEF Types
  <2>3. text = Opening(c, line) \o << >>
    BY <2>1, <2>2, ConcatEmptySeq
  <2>4. \A rest \in Seq(V) : ParseLine(c, line, rest) = Parsed(r, rest)
    BY <1>1 DEF ParseLine, SimpleString, Error
  <2>5. Behind(V, c, line, << >>, r)
    BY <2>4, NoBody
  <2>6. << >> \in Seq(V) /\ c \in Types \ {"*"}
    BY EmptySeq DEF Types
  <2> HIDE DEF text
  <2> QED BY <2>3, <2>5, <2>6 DEF Written
<1>2. ASSUME NEW c \in {":", "$"}, NEW n \in Int, text = <<Type(c), Number(n), CRLF>>,
             \A rest \in Seq(V) : ParseLine(c, <<Number(n)>>, rest) = Parsed(r, rest)
      PROVE  Written(V, r, text)
  <2> DEFINE line == <<Number(n)>>
  <2>1. line \in Lines(V)
    BY NumberLine
  <2>2. text = Opening(c, line)
    <3> HIDE DEF text
    <3> QED BY <1>2, Three DEF Opening
  <2>3. Opening(c, line) \in Seq(V)
    BY <2>1, OpeningType DEF Types
  <2>4. text = Opening(c, line) \o << >>
    BY <2>2, <2>3, ConcatEmptySeq
  <2>5. Behind(V, c, line, << >>, r)
    BY <1>2, NoBody
  <2>6. << >> \in Seq(V) /\ c \in Types \ {"*"}
    BY EmptySeq DEF Types
  <2> HIDE DEF text, line
  <2> QED BY <2>1, <2>4, <2>5, <2>6 DEF Written
<1>3. CASE \E line \in Lines(V) : r = SimpleString(line)
  BY <1>1, <1>3 DEF SimpleString
<1>4. CASE \E line \in Lines(V) : r = Error(line)
  BY <1>1, <1>4 DEF Error
<1>5. CASE \E n \in Int : r = Integer(n)
  <2>1. PICK n \in Int : r = Integer(n)
    BY <1>5
  <2>2. text = <<Type(":"), Number(n), CRLF>>
    BY <2>1 DEF SerializeScalar, Integer
  <2>3. ASSUME NEW rest \in Seq(V) PROVE ParseLine(":", <<Number(n)>>, rest) = Parsed(r, rest)
    BY <2>1, NumberLine DEF ParseLine
  <2> HIDE DEF text
  <2> QED BY <1>2, <2>2, <2>3
<1>6. CASE r = NullBulkString
  <2>1. text = <<Type("$"), Number(-1), CRLF>>
    BY <1>6 DEF SerializeScalar, NullBulkString
  <2>2. -1 \in Int
    OBVIOUS
  <2>3. ASSUME NEW rest \in Seq(V) PROVE ParseLine("$", <<Number(-1)>>, rest) = Parsed(r, rest)
    <3>1. IsNumber(<<Number(-1)>>) /\ NumberOf(<<Number(-1)>>) = -1
      BY <2>2, NumberLine
    <3>2. ParseBulk(-1, rest) = Parsed(r, rest)
      BY <1>6 DEF ParseBulk
    <3> QED BY <3>1, <3>2 DEF ParseLine
  <2> HIDE DEF text
  <2> QED BY <1>2, <2>1, <2>2, <2>3
<1>7. CASE \E t \in Seq(V) : r = BulkString(t)
  <2>1. PICK t \in Seq(V) : r = BulkString(t)
    BY <1>7
  <2> DEFINE line == <<Number(Len(t))>>
             b == t \o <<CRLF>>
  <2>2. Len(t) \in Int /\ line \in Lines(V)
    BY LenProperties, NumberLine
  <2>3. Behind(V, "$", line, b, r)
    BY <2>1, BulkBody
  <2>4. b \in Seq(V)
    BY <2>3 DEF Behind
  <2>5. text = Opening("$", line) \o b
    <3>1. text = <<Type("$"), Number(Len(t)), CRLF>> \o t \o <<CRLF>>
      BY <2>1 DEF SerializeScalar, BulkString
    <3>2. Opening("$", line) = <<Type("$"), Number(Len(t)), CRLF>>
      BY Three DEF Opening
    <3>3. Opening("$", line) \in Seq(V) /\ <<CRLF>> \in Seq(V)
      BY <2>2, OpeningType, Single DEF Types, Alphabet
    <3>4. (Opening("$", line) \o t) \o <<CRLF>> = Opening("$", line) \o (t \o <<CRLF>>)
      BY <3>3, ConcatAssociative
    <3> QED BY <3>1, <3>2, <3>4
  <2>6. "$" \in Types \ {"*"}
    BY DEF Types
  <2> HIDE DEF text, line, b
  <2> QED BY <2>2, <2>3, <2>4, <2>5, <2>6 DEF Written
<1> QED BY <1>3, <1>4, <1>5, <1>6, <1>7 DEF Scalars
-----------------------------------------------------------------------------
(* Arrays *)

\* The response of one more element, and what is left behind it.
LEMMA ElementRead ==
  ASSUME NEW es, NEW rest, NEW r, NEW d, ParseScalar(rest) = Parsed(r, d)
  PROVE  ParseElement(Parsed(Array(es), rest)) = Parsed(Array(Append(es, r)), d)
<1> DEFINE array == Parsed(Array(es), rest)
<1>1. array.outcome = "parsed" /\ array.rest = rest /\ array.response.value = es
  BY DEF Parsed, Array
<1> HIDE DEF array
<1>2. /\ Parsed(r, d).outcome = "parsed" /\ Parsed(r, d).response = r
      /\ Parsed(r, d).rest = d
  BY DEF Parsed
<1>3. ParseElement(array) = Parsed(Array(Append(es, r)), d)
  BY <1>1, <1>2 DEF ParseElement
<1> QED BY <1>3 DEF array

\* An element that is not there ends the array.
LEMMA ElementCut ==
  ASSUME NEW es, NEW rest, ParseScalar(rest).outcome # "parsed"
  PROVE  ParseElement(Parsed(Array(es), rest)).outcome # "parsed"
<1> DEFINE array == Parsed(Array(es), rest)
<1>1. array.outcome = "parsed" /\ array.rest = rest
  BY DEF Parsed
<1> HIDE DEF array
<1>2. ParseElement(array) = ParseScalar(rest)
  BY <1>1 DEF ParseElement
<1> QED BY <1>2 DEF array

\* f[i] is what has been read behind i of the k elements in the data.
Elements(k, data, f) ==
  f = [i \in 0 .. k |-> IF i = 0 THEN Parsed(Array(<< >>), data) ELSE ParseElement(f[i - 1])]

\* The elements can be read one by one, whatever the data is.
LEMMA ElementsExist ==
  ASSUME NEW k \in Nat, NEW data
  PROVE  \E f : Elements(k, data, f)
<1> DEFINE T == {j \in Nat : \E f : Elements(j, data, f)}
           first == Parsed(Array(<< >>), data)
<1>1. 0 \in T
  <2> DEFINE f == [i \in 0 .. 0 |-> first]
  <2> HIDE DEF first
  <2>1. f = [i \in 0 .. 0 |-> IF i = 0 THEN first ELSE ParseElement(f[i - 1])]
    OBVIOUS
  <2> HIDE DEF f
  <2>2. Elements(0, data, f)
    BY <2>1 DEF Elements, first
  <2> QED BY <2>2
<1>2. ASSUME NEW j \in Nat, j \in T PROVE j + 1 \in T
  <2>1. PICK f : Elements(j, data, f)
    BY <1>2
  <2> DEFINE e(g, i) == IF i = 0 THEN first ELSE ParseElement(g[i - 1])
             g == [i \in 0 .. j + 1 |-> IF i = j + 1 THEN ParseElement(f[j]) ELSE f[i]]
  <2>2. f = [i \in 0 .. j |-> e(f, i)]
    BY <2>1 DEF Elements
  <2> HIDE DEF first
  <2>3. ASSUME NEW i \in 0 .. j + 1 PROVE g[i] = e(g, i)
    <3>1. CASE i = 0
      <4>1. g[i] = f[i] /\ i \in 0 .. j
        BY <3>1
      <4>2. f[i] = e(f, i)
        BY <2>2, <4>1
      <4> HIDE DEF g
      <4> QED BY <3>1, <4>1, <4>2
    <3>2. CASE i # 0
      <4>1. i - 1 \in 0 .. j /\ i - 1 \in 0 .. j + 1 /\ i - 1 # j + 1
        BY <3>2
      <4>2. g[i - 1] = f[i - 1]
        BY <4>1
      <4>3. g[i] = ParseElement(f[i - 1])
        <5>1. CASE i = j + 1
          <6>1. i - 1 = j
            BY <5>1
          <6> QED BY <5>1, <6>1
        <5>2. CASE i # j + 1
          <6>1. i \in 0 .. j /\ g[i] = f[i]
            BY <5>2
          <6>2. f[i] = e(f, i)
            BY <2>2, <6>1
          <6> QED BY <3>2, <6>1, <6>2
        <5> QED BY <5>1, <5>2
      <4> HIDE DEF g
      <4> QED BY <3>2, <4>2, <4>3
    <3> QED BY <3>1, <3>2
  <2>4. g = [i \in 0 .. j + 1 |-> e(g, i)]
    BY <2>3
  <2> HIDE DEF g
  <2>5. Elements(j + 1, data, g)
    BY <2>4 DEF Elements, first
  <2> QED BY <2>5
<1> HIDE DEF T
<1>3. k \in T
  BY <1>1, <1>2, Induction
<1> QED BY <1>3 DEF T

\* That is what ParseArray computes.
LEMMA ArrayIs ==
  ASSUME NEW k \in Nat, NEW data, NEW f, Elements(k, data, f)
  PROVE  ParseArray(k, data) = f[k]
<1> DEFINE first == Parsed(Array(<< >>), data)
           read[i \in 0 .. k] == IF i = 0 THEN Parsed(Array(<< >>), data) ELSE ParseElement(read[i - 1])
<1>1. ParseArray(k, data) = read[k]
  <2>1. ~(k = -1) /\ ~(k < -1)
    OBVIOUS
  <2> QED BY <2>1 DEF ParseArray
<1>2. f = [i \in 0 .. k |-> IF i = 0 THEN Parsed(Array(<< >>), data) ELSE ParseElement(f[i - 1])]
  BY DEF Elements
<1>3. read = [i \in 0 .. k |-> IF i = 0 THEN Parsed(Array(<< >>), data) ELSE ParseElement(read[i - 1])]
  BY <1>2
<1> HIDE DEF read
<1> DEFINE T == {j \in Nat : j \in 0 .. k => read[j] = f[j]}
<1>4. 0 \in T
  BY <1>2, <1>3
<1>5. ASSUME NEW j \in Nat, j \in T PROVE j + 1 \in T
  <2> SUFFICES ASSUME j + 1 \in 0 .. k PROVE read[j + 1] = f[j + 1]
    OBVIOUS
  <2> DEFINE i == j + 1
  <2>1. i \in 0 .. k /\ i # 0 /\ i - 1 = j /\ j \in 0 .. k
    OBVIOUS
  <2> HIDE DEF i
  <2>2. read[j] = f[j]
    BY <1>5, <2>1
  <2>3. f[i] = ParseElement(f[j])
    BY <1>2, <2>1
  <2>4. read[i] = ParseElement(read[j])
    BY <1>3, <2>1
  <2>5. read[i] = f[i]
    BY <2>2, <2>3, <2>4
  <2> QED BY <2>5 DEF i
<1> HIDE DEF T
<1>6. k \in T
  BY <1>4, <1>5, Induction
<1>7. k \in 0 .. k
  OBVIOUS
<1> QED BY <1>1, <1>6, <1>7 DEF T

\* One element more of a sequence.
LEMMA TakeNext ==
  ASSUME NEW S, NEW s \in Seq(S), NEW i \in Nat, i + 1 <= Len(s)
  PROVE  Take(s, i + 1) = Append(Take(s, i), s[i + 1])
<1> DEFINE j == i + 1
           p == Take(s, i)
           q == Take(s, j)
           x == Append(p, s[j])
<1>1. Len(s) \in Nat /\ i \in 0 .. Len(s) /\ j \in 0 .. Len(s) /\ j \in 1 .. Len(s) /\ s[j] \in S
  BY LenProperties
<1>2. p \in Seq(S) /\ Len(p) = i /\ \A m \in 1 .. i : p[m] = s[m]
  BY <1>1, Parts
<1>3. q \in Seq(S) /\ Len(q) = j /\ \A m \in 1 .. j : q[m] = s[m]
  BY <1>1, Parts
<1> HIDE DEF p, q
<1>4. /\ x \in Seq(S) /\ Len(x) = i + 1 /\ x[i + 1] = s[j]
      /\ \A m \in 1 .. i : x[m] = p[m]
  <2> HIDE DEF j
  <2> QED BY <1>1, <1>2
<1> HIDE DEF x
<1>5. ASSUME NEW m \in 1 .. Len(x) PROVE x[m] = q[m]
  <2>1. CASE m = j
    BY <1>3, <1>4, <2>1
  <2>2. CASE m # j
    <3>1. m \in 1 .. i /\ m \in 1 .. j
      BY <1>4, <2>2
    <3> QED BY <1>2, <1>3, <1>4, <3>1
  <2> QED BY <2>1, <2>2
<1>6. Len(x) = Len(q)
  BY <1>3, <1>4
<1>7. x = q
  BY <1>3, <1>4, <1>5, <1>6, SeqEqual
<1> QED BY <1>7 DEF x, p, q, j

\* The texts of the elements, as serialize puts them together.
Texts(es) == [i \in DOMAIN es |-> SerializeScalar(es[i])]

\* Each text is made of the alphabet.
LEMMA TextsType ==
  ASSUME NEW V, Alphabet(V), NEW es \in Seq(Scalars(V))
  PROVE  /\ Texts(es) \in Seq(Seq(V)) /\ Len(Texts(es)) = Len(es)
         /\ \A i \in 1 .. Len(es) : Texts(es)[i] = SerializeScalar(es[i])
<1>1. Len(es) \in Nat /\ DOMAIN es = 1 .. Len(es) /\ \A i \in 1 .. Len(es) : es[i] \in Scalars(V)
  BY LenProperties
<1>2. ASSUME NEW i \in 1 .. Len(es) PROVE SerializeScalar(es[i]) \in Seq(V)
  BY <1>1, ScalarWritten, WrittenType
<1>3. Texts(es) = [i \in 1 .. Len(es) |-> SerializeScalar(es[i])]
  BY <1>1 DEF Texts
<1> QED BY <1>1, <1>2, <1>3

\* What is left of the data behind the first i of the sequences that make it.
Behinds(V, seqs, G, L) ==
  \A i \in 0 .. Len(seqs) :
    /\ L[i] \in Seq(V) /\ G[i] \o L[i] = G[Len(seqs)]
    /\ i < Len(seqs) => L[i] = seqs[i + 1] \o L[i + 1]

\* Behind each of the sequences stands a part of what they make.
LEMMA BehindsExist ==
  ASSUME NEW V, NEW seqs \in Seq(Seq(V)), NEW G, Grows(V, seqs, Len(seqs), G)
  PROVE  \E L : Behinds(V, seqs, G, L)
<1> DEFINE k == Len(seqs)
           T(i) == {j \in Nat : i + j <= k => \E u \in Seq(V) : G[i + j] = G[i] \o u}
<1>1. /\ k \in Nat /\ \A i \in 1 .. k : seqs[i] \in Seq(V)
      /\ \A i \in 0 .. k : G[i] \in Seq(V)
      /\ \A i \in 1 .. k : G[i] = G[i - 1] \o seqs[i]
  BY LenProperties DEF Grows
<1> HIDE DEF k
<1>2. ASSUME NEW i \in 0 .. k PROVE \E u \in Seq(V) : G[k] = G[i] \o u
  <2>1. 0 \in T(i)
    <3>1. G[i] = G[i] \o << >> /\ << >> \in Seq(V) /\ i + 0 = i
      BY <1>1, ConcatEmptySeq, EmptySeq
    <3> QED BY <3>1
  <2>2. ASSUME NEW j \in Nat, j \in T(i) PROVE j + 1 \in T(i)
    <3> SUFFICES ASSUME i + (j + 1) <= k PROVE \E u \in Seq(V) : G[i + (j + 1)] = G[i] \o u
      OBVIOUS
    <3>1. i + j <= k
      BY <1>1
    <3>2. PICK u \in Seq(V) : G[i + j] = G[i] \o u
      BY <2>2, <3>1
    <3> DEFINE m == i + (j + 1)
               v == u \o seqs[m]
    <3>3. m \in 1 .. k /\ m - 1 = i + j
      BY <1>1
    <3> HIDE DEF m
    <3>4. G[m] = (G[i] \o u) \o seqs[m]
      BY <1>1, <3>2, <3>3
    <3>5. (G[i] \o u) \o seqs[m] = G[i] \o v
      <4> DEFINE g == G[i]
                 q == seqs[m]
      <4>1. g \in Seq(V) /\ q \in Seq(V)
        BY <1>1, <3>3
      <4> HIDE DEF g, q
      <4>2. (g \o u) \o q = g \o (u \o q)
        BY <4>1, ConcatAssociative, SMTT(30)
      <4> QED BY <4>2 DEF g, q
    <3>6. v \in Seq(V)
      BY <1>1, <3>3, ConcatProperties
    <3>7. \E w \in Seq(V) : G[m] = G[i] \o w
      <4> HIDE DEF v
      <4> QED BY <3>4, <3>5, <3>6
    <3> QED BY <3>7 DEF m
  <2> HIDE DEF T
  <2>3. k - i \in Nat /\ i + (k - i) = k /\ k <= k
    BY <1>1
  <2>4. k - i \in T(i)
    BY <2>1, <2>2, <2>3, Induction
  <2> QED BY <2>3, <2>4 DEF T
<1> DEFINE L == [i \in 0 .. k |-> CHOOSE u \in Seq(V) : G[k] = G[i] \o u]
<1>3. ASSUME NEW i \in 0 .. k PROVE L[i] \in Seq(V) /\ G[i] \o L[i] = G[k]
  BY <1>2
<1> HIDE DEF L
<1>4. ASSUME NEW i \in 0 .. k, i < k PROVE L[i] = seqs[i + 1] \o L[i + 1]
  <2> DEFINE j == i + 1
             t == seqs[j] \o L[j]
  <2>1. j \in 1 .. k /\ j \in 0 .. k /\ j - 1 = i
    BY <1>1, <1>4
  <2> HIDE DEF j
  <2>2. G[j] = G[i] \o seqs[j] /\ G[i] \in Seq(V) /\ seqs[j] \in Seq(V) /\ L[j] \in Seq(V)
    BY <1>1, <1>3, <2>1
  <2>3. (G[i] \o seqs[j]) \o L[j] = G[i] \o t
    <3> DEFINE g == G[i]
               q == seqs[j]
               r == L[j]
    <3>1. g \in Seq(V) /\ q \in Seq(V) /\ r \in Seq(V)
      BY <2>2
    <3> HIDE DEF g, q, r
    <3>2. (g \o q) \o r = g \o (q \o r)
      BY <3>1, ConcatAssociative, SMTT(30)
    <3> QED BY <3>2 DEF g, q, r
  <2>4. t \in Seq(V)
    BY <2>2, ConcatProperties
  <2>5. G[i] \o t = G[k] /\ G[i] \o L[i] = G[k] /\ L[i] \in Seq(V)
    BY <1>3, <2>1, <2>2, <2>3
  <2>6. L[i] = t
    <3> HIDE DEF t
    <3>1. Drop(G[i] \o t, Len(G[i])) = t
      BY <2>2, <2>4, DropFront
    <3>2. Drop(G[i] \o L[i], Len(G[i])) = L[i]
      BY <2>2, <2>5, DropFront
    <3> QED BY <2>5, <3>1, <3>2
  <2> QED BY <2>6 DEF j
<1> QED BY <1>3, <1>4 DEF Behinds, k

\* What the array is when n units of it have been received and i elements been read:
\* g is the text of those, l what is behind them.
Sofar(es, i, n, g, l, array) ==
  IF n < Len(g) THEN array.outcome # "parsed"
  ELSE array = Parsed(Array(Take(es, i)), Take(l, n - Len(g)))

\* When one more element is there the array has it; when it is cut there is no array.
LEMMA OneElement ==
  ASSUME NEW V, Alphabet(V), NEW es \in Seq(Scalars(V)), NEW j \in 1 .. Len(es),
         NEW text, text = SerializeScalar(es[j]),
         NEW g \in Seq(V), NEW l \in Seq(V), NEW n \in Nat, n <= Len(g \o text) + Len(l),
         NEW array, Sofar(es, j - 1, n, g, text \o l, array)
  PROVE  Sofar(es, j, n, g \o text, l, ParseElement(array))
<1> DEFINE i == j - 1
           a == text \o l
           h == g \o text
           m == n - Len(g)
           k == n - Len(h)
           e == ParseElement(array)
<1>1. Len(es) \in Nat /\ i \in Nat /\ i + 1 = j /\ es[j] \in Scalars(V)
  BY LenProperties
<1>2. Written(V, es[j], text)
  BY <1>1, ScalarWritten
<1>3. text \in Seq(V)
  BY <1>2, WrittenType
<1>4. Len(g) \in Nat /\ Len(text) \in Nat /\ Len(l) \in Nat /\ a \in Seq(V)
  BY <1>3, LenProperties, ConcatProperties
<1>5. Len(h) = Len(g) + Len(text)
  BY <1>3, ConcatProperties
<1>6. n <= Len(h) + Len(l) /\ Sofar(es, i, n, g, a, array)
  OBVIOUS
<1> SUFFICES Sofar(es, j, n, h, l, e)
  OBVIOUS
<1> HIDE DEF i, a, h
<1>7. CASE n < Len(g)
  <2>1. array.outcome # "parsed"
    BY <1>6, <1>7 DEF Sofar
  <2>2. e = array
    BY <2>1 DEF ParseElement
  <2>3. n < Len(h)
    BY <1>4, <1>5, <1>7
  <2> HIDE DEF e
  <2> QED BY <2>1, <2>2, <2>3 DEF Sofar
<1>8. CASE ~(n < Len(g)) /\ n < Len(h)
  <2>1. m \in Nat /\ m < Len(text) /\ m \in 0 .. Len(text)
    BY <1>4, <1>5, <1>8
  <2>2. array = Parsed(Array(Take(es, i)), Take(a, m))
    BY <1>6, <1>8 DEF Sofar
  <2> HIDE DEF m
  <2>3. Take(a, m) = Take(text, m)
    BY <1>3, <2>1, TakeFront DEF a
  <2>4. ParseScalar(Take(text, m)).outcome # "parsed"
    BY <1>2, <2>1, ScalarCut
  <2>5. e.outcome # "parsed"
    BY <2>2, <2>3, <2>4, ElementCut
  <2> HIDE DEF e
  <2> QED BY <1>8, <2>5 DEF Sofar
<1>9. CASE ~(n < Len(h))
  <2> DEFINE rest == Take(l, k)
             read == Take(es, i)
  <2>1. k \in 0 .. Len(l) /\ m = Len(text) + k /\ ~(n < Len(g))
    BY <1>4, <1>5, <1>6, <1>9
  <2>2. array = Parsed(Array(read), Take(a, m))
    BY <1>6, <2>1 DEF Sofar
  <2> HIDE DEF m, k
  <2>3. Take(a, m) = text \o rest
    <3>1. Take(text \o l, Len(text) + k) = text \o Take(l, k)
      BY <1>3, <2>1, TakeMore
    <3> QED BY <2>1, <3>1 DEF a
  <2>4. rest \in Seq(V)
    BY <2>1, Parts
  <2> HIDE DEF rest, read
  <2>5. ParseScalar(text \o rest) = Parsed(es[j], rest)
    BY <1>2, <2>4, ScalarRead
  <2>6. e = Parsed(Array(Append(read, es[j])), rest)
    BY <2>2, <2>3, <2>5, ElementRead
  <2>7. Take(es, j) = Append(read, es[j])
    <3>1. i + 1 <= Len(es)
      BY <1>1
    <3>2. Take(es, i + 1) = Append(Take(es, i), es[i + 1])
      BY <1>1, <3>1, TakeNext
    <3> QED BY <1>1, <3>2 DEF read
  <2>8. e = Parsed(Array(Take(es, j)), Take(l, n - Len(h)))
    BY <2>6, <2>7 DEF rest, k
  <2> HIDE DEF e
  <2> QED BY <1>9, <2>8 DEF Sofar
<1> QED BY <1>7, <1>8, <1>9

\* The first n units of the elements are all of them, or no array.
ArrayParts(es, body) ==
  \A n \in 0 .. Len(body) :
    IF n < Len(body) THEN ParseArray(Len(es), Take(body, n)).outcome # "parsed"
    ELSE ParseArray(Len(es), Take(body, n)) = Parsed(Array(es), << >>)

\* The elements of an array are read back from their texts, and not from a part of them.
LEMMA ArrayRead ==
  ASSUME NEW V, Alphabet(V), NEW es \in Seq(Scalars(V))
  PROVE  FlattenSeq(Texts(es)) \in Seq(V) /\ ArrayParts(es, FlattenSeq(Texts(es)))
<1> DEFINE k == Len(es)
           body == FlattenSeq(Texts(es))
<1>1. Texts(es) \in Seq(Seq(V)) /\ Len(Texts(es)) = k /\ k \in Nat
  BY TextsType, LenProperties
<1> HIDE DEF k
<1>2. PICK G : Grows(V, Texts(es), k, G)
  BY <1>1, FlattenExists
<1>3. PICK L : Behinds(V, Texts(es), G, L)
  BY <1>1, <1>2, BehindsExist
<1>4. body = G[k] /\ G[k] \in Seq(V)
  BY <1>1, <1>2, FlattenIs
<1> HIDE DEF body
<1> SUFFICES ASSUME NEW n \in 0 .. Len(body)
             PROVE  IF n < Len(body) THEN ParseArray(k, Take(body, n)).outcome # "parsed"
                    ELSE ParseArray(k, Take(body, n)) = Parsed(Array(es), << >>)
  BY <1>4 DEF ArrayParts, body, k
<1> DEFINE data == Take(body, n)
<1>5. PICK f : Elements(k, data, f)
  BY <1>1, ElementsExist
<1>6. ParseArray(k, data) = f[k]
  BY <1>1, <1>5, ArrayIs
<1>7. /\ f[0] = Parsed(Array(<< >>), data)
      /\ \A i \in 1 .. k : f[i] = ParseElement(f[i - 1])
  <2>1. f = [i \in 0 .. k |-> IF i = 0 THEN Parsed(Array(<< >>), data) ELSE ParseElement(f[i - 1])]
    BY <1>5 DEF Elements
  <2> HIDE DEF data
  <2> QED BY <1>1, <2>1
<1>8. Len(body) \in Nat /\ n \in Nat /\ n <= Len(body)
  BY <1>4, LenProperties
<1> HIDE DEF data
<1> DEFINE T == {i \in Nat : i <= k => Sofar(es, i, n, G[i], L[i], f[i])}
<1>9. 0 \in T
  <2>1. G[0] = << >> /\ Len(G[0]) = 0
    BY <1>2, EmptySeq DEF Grows
  <2>2. L[0] = body
    <3>1. 0 \in 0 .. Len(Texts(es))
      BY <1>1
    <3>2. L[0] \in Seq(V) /\ G[0] \o L[0] = body
      BY <1>1, <1>3, <1>4, <3>1 DEF Behinds
    <3>3. << >> \o L[0] = L[0]
      BY <3>2, ConcatEmptySeq
    <3> QED BY <2>1, <3>2, <3>3
  <2>3. Take(es, 0) = << >>
    BY SubSeqEmpty DEF Take
  <2>4. ~(n < Len(G[0])) /\ n - Len(G[0]) = n
    BY <1>8, <2>1
  <2>5. Sofar(es, 0, n, G[0], L[0], f[0])
    BY <1>7, <2>2, <2>3, <2>4 DEF Sofar, data
  <2> QED BY <2>5
<1>10. ASSUME NEW i \in Nat, i \in T PROVE i + 1 \in T
  <2> SUFFICES ASSUME i + 1 <= k PROVE Sofar(es, i + 1, n, G[i + 1], L[i + 1], f[i + 1])
    OBVIOUS
  <2> DEFINE j == i + 1
             text == Texts(es)[j]
             g == G[i]
             l == L[j]
             array == f[i]
  <2>1. i \in 0 .. k /\ i < k /\ j \in 1 .. k /\ j \in 0 .. k /\ j - 1 = i /\ i <= k
    BY <1>1
  <2>2. text = SerializeScalar(es[j])
    BY <2>1, TextsType DEF k
  <2>3. g \in Seq(V) /\ G[j] = g \o text
    BY <1>2, <2>1 DEF Grows
  <2>4. /\ l \in Seq(V) /\ G[j] \o l = body
        /\ L[i] = text \o l
    BY <1>1, <1>3, <1>4, <2>1 DEF Behinds
  <2>5. Sofar(es, i, n, g, L[i], array)
    BY <1>10, <2>1
  <2>6. f[j] = ParseElement(array)
    BY <1>7, <2>1
  <2> HIDE DEF text, g, l, array
  <2>7. n <= Len(g \o text) + Len(l)
    <3> DEFINE h == G[j]
    <3>1. h \in Seq(V)
      BY <1>2, <2>1 DEF Grows
    <3>2. h \o l = body
      BY <2>4
    <3> HIDE DEF h
    <3>3. Len(body) = Len(h) + Len(l)
      BY <2>4, <3>1, <3>2, ConcatProperties
    <3> QED BY <1>8, <2>3, <3>3 DEF h
  <2>8. Sofar(es, j - 1, n, g, text \o l, array)
    BY <2>1, <2>4, <2>5
  <2>9. j \in 1 .. Len(es)
    BY <2>1 DEF k
  <2> HIDE DEF j
  <2>10. Sofar(es, j, n, g \o text, l, ParseElement(array))
    BY <1>8, <2>2, <2>3, <2>4, <2>7, <2>8, <2>9, OneElement
  <2>11. Sofar(es, j, n, G[j], L[j], f[j])
    BY <2>3, <2>6, <2>10 DEF l
  <2> QED BY <2>11 DEF j
<1> HIDE DEF T
<1>11. Sofar(es, k, n, G[k], L[k], f[k])
  <2>1. k \in T
    BY <1>1, <1>9, <1>10, Induction
  <2>2. k <= k
    BY <1>1
  <2> QED BY <2>1, <2>2 DEF T
<1>12. CASE n < Len(body)
  <2>1. f[k].outcome # "parsed"
    BY <1>4, <1>11, <1>12 DEF Sofar
  <2> QED BY <1>6, <1>12, <2>1 DEF data
<1>13. CASE ~(n < Len(body))
  <2>1. n - Len(G[k]) = 0
    BY <1>4, <1>8, <1>13
  <2>2. Take(es, k) = es
    BY SubSeqFull DEF Take, k
  <2>3. Take(L[k], 0) = << >>
    BY SubSeqEmpty DEF Take
  <2>4. f[k] = Parsed(Array(es), << >>)
    <3>1. f[k] = Parsed(Array(Take(es, k)), Take(L[k], n - Len(G[k])))
      BY <1>4, <1>11, <1>13 DEF Sofar
    <3> QED BY <2>1, <2>2, <2>3, <3>1
  <2> QED BY <1>6, <1>13, <2>4 DEF data
<1> QED BY <1>12, <1>13 DEF data

-----------------------------------------------------------------------------
(* The whole reply *)

\* What the dispatcher answers.
Responses(V) == Scalars(V) \cup {Array(es) : es \in Seq(Scalars(V))}

\* The first n units of the text are all of it and the response r, or no response.
Answered(r, text) ==
  /\ parse(text) = Parsed(r, << >>)
  /\ \A n \in 0 .. Len(text) - 1 : parse(Take(text, n)).outcome # "parsed"

\* The type of an array is no other.
LEMMA TypesDiffer ==
  ASSUME NEW c, c # "*"
  PROVE  Type(c) # Type("*")
<1>1. Type(c)[2] = c /\ Type("*")[2] = "*"
  BY DEF Type
<1> QED BY <1>1

\* A response that is no array is read from its text, and not from a part of it.
LEMMA ScalarAnswered ==
  ASSUME NEW V, Alphabet(V), NEW r \in Scalars(V)
  PROVE  serialize(r) \in Seq(V) /\ Answered(r, serialize(r))
<1> DEFINE text == SerializeScalar(r)
<1>1. serialize(r) = text
  <2>1. r.type # "*"
    BY DEF Scalars, SimpleString, Error, Integer, BulkString, NullBulkString
  <2> QED BY <2>1 DEF serialize
<1>2. Written(V, r, text)
  BY ScalarWritten
<1> HIDE DEF text
<1>3. text \in Seq(V) /\ Len(text) \in Nat
  BY <1>2, WrittenType, LenProperties
<1>4. PICK c \in Types \ {"*"}, line \in Lines(V), b \in Seq(V) : text = Opening(c, line) \o b
  BY <1>2 DEF Written
<1>5. Len(text) >= 1 /\ text[1] = Type(c)
  <2> DEFINE o == Opening(c, line)
  <2>1. Type(c) \in V /\ CRLF \in V /\ Len(line) \in Nat
    BY <1>4, LenProperties DEF Alphabet, Lines
  <2>2. o \in Seq(V) /\ Len(o) = Len(line) + 2 /\ o[1] = Type(c)
    BY <2>1, OpeningUnits DEF Opened
  <2> HIDE DEF o
  <2>3. Joined(o, b, text)
    BY <1>4, <2>2, Join DEF o
  <2>4. Len(b) \in Nat /\ 1 \in 1 .. Len(o)
    BY <2>1, <2>2, LenProperties
  <2> QED BY <2>1, <2>2, <2>3, <2>4 DEF Joined
<1>6. ASSUME NEW data, data = << >> \/ data[1] = Type(c) PROVE parse(data) = ParseScalar(data)
  <2>1. Type(c) # Type("*")
    BY <1>4, TypesDiffer
  <2> QED BY <1>6, <2>1 DEF parse
<1>7. parse(text) = Parsed(r, << >>)
  <2>1. text \o << >> = text /\ << >> \in Seq(V)
    BY <1>3, ConcatEmptySeq, EmptySeq
  <2>2. ParseScalar(text \o << >>) = Parsed(r, << >>)
    BY <1>2, <2>1, ScalarRead
  <2> QED BY <1>5, <1>6, <2>1, <2>2
<1>8. ASSUME NEW n \in 0 .. Len(text) - 1 PROVE parse(Take(text, n)).outcome # "parsed"
  <2> DEFINE data == Take(text, n)
  <2>1. n \in Nat /\ n < Len(text) /\ n \in 0 .. Len(text)
    BY <1>3
  <2>2. data \in Seq(V) /\ Len(data) = n /\ \A i \in 1 .. n : data[i] = text[i]
    BY <1>3, <2>1, Parts
  <2>3. ParseScalar(data).outcome # "parsed"
    BY <1>2, <2>1, ScalarCut
  <2> HIDE DEF data
  <2>4. data = << >> \/ data[1] = Type(c)
    <3>1. CASE n = 0
      BY <2>2, <3>1, EmptySeq
    <3>2. CASE n # 0
      <4>1. 1 \in 1 .. n
        BY <2>1, <3>2
      <4> QED BY <1>5, <2>2, <4>1
    <3> QED BY <3>1, <3>2
  <2>5. parse(data).outcome # "parsed"
    BY <1>6, <2>3, <2>4
  <2> QED BY <2>5 DEF data
<1> QED BY <1>1, <1>3, <1>7, <1>8 DEF Answered

\* Nor is an array: its first line says how many elements have to come.
LEMMA ArrayAnswered ==
  ASSUME NEW V, Alphabet(V), NEW es \in Seq(Scalars(V))
  PROVE  serialize(Array(es)) \in Seq(V) /\ Answered(Array(es), serialize(Array(es)))
<1> DEFINE k == Len(es)
           body == FlattenSeq(Texts(es))
           line == <<Number(k)>>
           o == Opening("*", line)
           text == o \o body
<1>1. k \in Nat
  BY LenProperties
<1>2. serialize(Array(es)) = text
  <2>1. Array(es).type = "*" /\ Array(es).value = es
    BY DEF Array
  <2>2. serialize(Array(es)) = <<Type("*"), Number(k), CRLF>> \o body
    BY <2>1 DEF serialize, Texts
  <2> QED BY <2>2, Three DEF Opening
<1>3. body \in Seq(V) /\ ArrayParts(es, body)
  BY ArrayRead
<1>4. line \in Lines(V) /\ IsNumber(line) /\ NumberOf(line) = k
  BY <1>1, NumberLine
<1> HIDE DEF k, body, line
<1>5. CRLF \in V /\ Type("*") \in V
  BY DEF Alphabet, Types
<1>6. o \in Seq(V)
  BY <1>4, OpeningType DEF Types
<1>7. Len(o) \in Nat /\ Len(body) \in Nat
  BY <1>3, <1>6, LenProperties
<1>8. Len(text) = Len(o) + Len(body) /\ text \in Seq(V)
  <2> HIDE DEF o
  <2> QED BY <1>3, <1>6, ConcatProperties
<1>9. ASSUME NEW m \in 0 .. Len(body)
      PROVE  parse(Take(text, Len(o) + m)) = ParseArray(k, Take(body, m))
  <2> DEFINE d == Take(body, m)
             data == o \o d
  <2>1. Take(text, Len(o) + m) = data
    <3> HIDE DEF o
    <3> QED BY <1>3, <1>6, TakeMore
  <2>2. d \in Seq(V)
    BY <1>3, Parts
  <2> HIDE DEF d
  <2>3. Read(data, "*", line, d)
    BY <1>4, <1>5, <2>2, OpeningRead
  <2> HIDE DEF data
  <2>4. parse(data) = ParseArray(k, d)
    BY <1>4, <2>3 DEF Read, parse
  <2> HIDE DEF text, o
  <2> QED BY <2>1, <2>4 DEF d
<1>10. parse(text) = Parsed(Array(es), << >>)
  <2>1. Len(body) \in 0 .. Len(body) /\ ~(Len(body) < Len(body))
    BY <1>7
  <2>2. ParseArray(k, Take(body, Len(body))) = Parsed(Array(es), << >>)
    BY <1>3, <2>1 DEF ArrayParts, k
  <2>3. Take(text, Len(o) + Len(body)) = text
    <3> HIDE DEF text, o
    <3> QED BY <1>8, SubSeqFull DEF Take
  <2>4. parse(Take(text, Len(o) + Len(body))) = ParseArray(k, Take(body, Len(body)))
    BY <1>9, <2>1
  <2> HIDE DEF text, o
  <2> QED BY <2>2, <2>3, <2>4
<1>11. ASSUME NEW n \in 0 .. Len(text) - 1 PROVE parse(Take(text, n)).outcome # "parsed"
  <2>1. CASE n < Len(o)
    <3> DEFINE data == Take(o, n)
    <3>1. n \in Nat /\ n \in 0 .. Len(o)
      <4> HIDE DEF o, text
      <4> QED BY <1>7, <2>1
    <3>2. Take(text, n) = data
      <4> HIDE DEF o
      <4> QED BY <1>3, <1>6, <3>1, TakeFront
    <3>3. Unread(data, "*")
      BY <1>4, <1>5, <2>1, <3>1, OpeningCut
    <3> HIDE DEF data
    <3>4. parse(data) \in {Incomplete, Invalid}
      <4>1. CASE data = << >>
        BY <4>1 DEF parse, ParseScalar
      <4>2. CASE data # << >>
        BY <3>3, <4>2 DEF parse, Unread
      <4> QED BY <4>1, <4>2
    <3>5. Incomplete.outcome # "parsed" /\ Invalid.outcome # "parsed"
      BY DEF Incomplete, Invalid
    <3> HIDE DEF text, o
    <3> QED BY <3>2, <3>4, <3>5
  <2>2. CASE ~(n < Len(o))
    <3> DEFINE m == n - Len(o)
    <3> HIDE DEF o, text
    <3>1. m \in 0 .. Len(body) /\ m < Len(body) /\ Len(o) + m = n
      BY <1>7, <1>8, <2>2
    <3> HIDE DEF m
    <3>2. ParseArray(k, Take(body, m)).outcome # "parsed"
      BY <1>3, <3>1 DEF ArrayParts, k
    <3>3. parse(Take(text, Len(o) + m)) = ParseArray(k, Take(body, m))
      BY <1>9, <3>1
    <3> QED BY <3>1, <3>2, <3>3
  <2> QED BY <2>1, <2>2
<1> HIDE DEF text
<1> QED BY <1>2, <1>8, <1>10, <1>11 DEF Answered

\* The client reads the response back from the whole text of a reply, and no response
\* from less of it.
THEOREM ReplyRead ==
  ASSUME NEW V, Alphabet(V), NEW r \in Responses(V)
  PROVE  serialize(r) \in Seq(V) /\ Answered(r, serialize(r))
BY ScalarAnswered, ArrayAnswered DEF Responses

-----------------------------------------------------------------------------
(* The members of a set in their order *)

\* Q orders M.
Orders(Q, M) ==
  /\ \A x, y \in M : x # y => <<x, y>> \in Q \/ <<y, x>> \in Q
  /\ \A x, y, z \in M : <<x, y>> \in Q /\ <<y, z>> \in Q => <<x, z>> \in Q
  /\ \A x \in M : <<x, x>> \notin Q

\* s is a list of the c elements of M in the order Q.
Ranked(Q, M, c, s) ==
  /\ s \in [1 .. c -> M]
  /\ \A x \in M : \E i \in 1 .. c : s[i] = x
  /\ \A i, j \in 1 .. c : i < j => <<s[i], s[j]>> \in Q

IsTop(Q, M, z) == \A x \in M \ {z} : <<x, z>> \in Q

\* The element on top stands at the end of the list of the others.
LEMMA RankOnTop ==
  ASSUME NEW Q, NEW M, NEW z \in M, IsTop(Q, M, z),
         NEW c \in Nat, NEW s, Ranked(Q, M \ {z}, c, s)
  PROVE  \E t : Ranked(Q, M, c + 1, t)
<1> DEFINE d == c + 1
           t == [i \in 1 .. d |-> IF i = d THEN z ELSE s[i]]
<1>1. /\ s \in [1 .. c -> M \ {z}]
      /\ \A x \in M \ {z} : \E i \in 1 .. c : s[i] = x
      /\ \A i, j \in 1 .. c : i < j => <<s[i], s[j]>> \in Q
  BY DEF Ranked
<1>2. d \in 1 .. d /\ \A i \in 1 .. d : i # d => i \in 1 .. c
  OBVIOUS
<1>3. \A i \in 1 .. c : i \in 1 .. d /\ i # d
  OBVIOUS
<1> HIDE DEF d
<1>4. t[d] = z /\ \A i \in 1 .. c : t[i] = s[i]
  BY <1>2, <1>3
<1>5. t \in [1 .. d -> M]
  BY <1>1, <1>2
<1> HIDE DEF t
<1>6. ASSUME NEW x \in M PROVE \E i \in 1 .. d : t[i] = x
  <2>1. CASE x = z
    BY <1>2, <1>4, <2>1
  <2>2. CASE x # z
    <3>1. PICK i \in 1 .. c : s[i] = x
      BY <1>1, <2>2
    <3> QED BY <1>3, <1>4, <3>1
  <2> QED BY <2>1, <2>2
<1>7. ASSUME NEW i \in 1 .. d, NEW j \in 1 .. d, i < j PROVE <<t[i], t[j]>> \in Q
  <2>1. i \in 1 .. c
    BY <1>7 DEF d
  <2>2. CASE j = d
    <3>1. s[i] \in M \ {z}
      BY <1>1, <2>1
    <3> QED BY <1>4, <2>1, <2>2, <3>1 DEF IsTop
  <2>3. CASE j # d
    <3>1. j \in 1 .. c
      BY <1>2, <2>3
    <3> QED BY <1>1, <1>4, <1>7, <2>1, <3>1
  <2> QED BY <2>2, <2>3
<1>8. Ranked(Q, M, d, t)
  BY <1>5, <1>6, <1>7 DEF Ranked
<1> QED BY <1>8 DEF d

\* Of two candidates, the new element and the last of the others, one is on top.
LEMMA TopExists ==
  ASSUME NEW Q, NEW M, Orders(Q, M), NEW y \in M,
         NEW c \in Nat, NEW s, Ranked(Q, M \ {y}, c, s)
  PROVE  \E z \in M : IsTop(Q, M, z)
<1>1. /\ s \in [1 .. c -> M \ {y}]
      /\ \A x \in M \ {y} : \E i \in 1 .. c : s[i] = x
      /\ \A i, j \in 1 .. c : i < j => <<s[i], s[j]>> \in Q
  BY DEF Ranked
<1>2. CASE c = 0
  <2>1. 1 .. c = {}
    BY <1>2
  <2>2. IsTop(Q, M, y)
    BY <1>1, <2>1 DEF IsTop
  <2> QED BY <2>2
<1>3. CASE c # 0
  <2> DEFINE z == s[c]
  <2>1. c \in 1 .. c
    BY <1>3
  <2>2. z \in M /\ z # y
    BY <1>1, <2>1
  <2>3. ASSUME NEW x \in M, x # y, x # z PROVE <<x, z>> \in Q
    <3>1. PICK i \in 1 .. c : s[i] = x
      BY <1>1, <2>3
    <3>2. i < c
      BY <2>3, <3>1
    <3> QED BY <1>1, <2>1, <3>1, <3>2
  <2> HIDE DEF z
  <2>4. CASE <<z, y>> \in Q
    <3>1. ASSUME NEW x \in M, x # y PROVE <<x, y>> \in Q
      BY <2>2, <2>3, <2>4, <3>1 DEF Orders
    <3>2. IsTop(Q, M, y)
      BY <3>1 DEF IsTop
    <3> QED BY <3>2
  <2>5. CASE <<y, z>> \in Q
    <3>1. IsTop(Q, M, z)
      BY <2>3, <2>5 DEF IsTop
    <3> QED BY <2>2, <3>1
  <2> QED BY <2>2, <2>4, <2>5 DEF Orders
<1> QED BY <1>2, <1>3

\* A finite set has such a list.
LEMMA RankedExists ==
  ASSUME NEW Q, NEW U, Orders(Q, U), IsFiniteSet(U)
  PROVE  \E s : Ranked(Q, U, Cardinality(U), s)
<1> DEFINE T == {c \in Nat : \A M \in SUBSET U :
                   IsFiniteSet(M) /\ Cardinality(M) = c => \E s : Ranked(Q, M, c, s)}
<1>1. 0 \in T
  <2> SUFFICES ASSUME NEW M \in SUBSET U, IsFiniteSet(M), Cardinality(M) = 0
               PROVE  \E s : Ranked(Q, M, 0, s)
    OBVIOUS
  <2>1. M = {}
    BY FS_EmptySet
  <2> DEFINE s == [i \in 1 .. 0 |-> 0]
  <2>2. 1 .. 0 = {}
    OBVIOUS
  <2>3. s \in [1 .. 0 -> M]
    BY <2>2
  <2> HIDE DEF s
  <2>4. Ranked(Q, M, 0, s)
    BY <2>1, <2>2, <2>3 DEF Ranked
  <2> QED BY <2>4
<1>2. ASSUME NEW c \in Nat, c \in T PROVE c + 1 \in T
  <2> SUFFICES ASSUME NEW M \in SUBSET U, IsFiniteSet(M), Cardinality(M) = c + 1
               PROVE  \E s : Ranked(Q, M, c + 1, s)
    OBVIOUS
  <2>1. ASSUME NEW y \in M PROVE \E s : Ranked(Q, M \ {y}, c, s)
    <3>1. IsFiniteSet(M \ {y}) /\ Cardinality(M \ {y}) = (c + 1) - 1
      BY FS_RemoveElement
    <3>2. (c + 1) - 1 = c
      OBVIOUS
    <3> QED BY <1>2, <3>1, <3>2
  <2>2. PICK y \in M : TRUE
    <3>1. Cardinality(M) # 0
      OBVIOUS
    <3>2. M # {}
      BY <3>1, FS_EmptySet
    <3> QED BY <3>2
  <2>3. PICK s : Ranked(Q, M \ {y}, c, s)
    BY <2>1
  <2>4. Orders(Q, M)
    BY DEF Orders
  <2>5. PICK z \in M : IsTop(Q, M, z)
    BY <2>3, <2>4, TopExists
  <2>6. PICK t : Ranked(Q, M \ {z}, c, t)
    BY <2>1
  <2> QED BY <2>5, <2>6, RankOnTop
<1> HIDE DEF T
<1>3. Nat \subseteq T
  BY <1>1, <1>2, Induction
<1>4. Cardinality(U) \in Nat
  BY FS_CardinalityType
<1>5. Cardinality(U) \in T
  BY <1>3, <1>4
<1> QED BY <1>5 DEF T

\* The scores of a set with finitely many members.
Finite(scores) ==
  /\ scores \in [Name -> Score \cup {NoScore}]
  /\ IsFiniteSet({n \in Name : scores[n] # NoScore})

\* The sorted set counts its members as the library does.
LEMMA SameCount == \A scores, M : SetOf(scores)!Cardinality(M) = Cardinality(M)
BY DEF SetOf!Cardinality, Cardinality

\* A score is a number unless it is NaN, and the infinite ones are neither that nor equal.
LEMMA ScoreNumbers ==
  /\ \A x \in Score : x # NaN => x \in Int
  /\ Infinity # NaN /\ -Infinity # NaN /\ -Infinity # Infinity
  /\ Infinity \in Int /\ -Infinity \in Int
<1>1. Infinity \in Int /\ -Infinity \in Int /\ -Infinity # Infinity
  BY ScoreAssumption
<1>2. \A x \in -Infinity .. Infinity : x \in Int
  BY <1>1
<1>3. \A x \in Score : x \in -Infinity .. Infinity \/ x = NaN
  BY ScoreAssumption, Zenon
<1>4. NaN \notin Int
  BY ScoreAssumption, Zenon
<1> QED BY <1>1, <1>2, <1>3, <1>4

\* All the scores are numbers.
Numbers(scores) == \A n \in Name : scores[n] # NaN

\* Score and name put the members of a set in one order.
LEMMA MembersOrdered ==
  ASSUME NEW scores, Finite(scores), Numbers(scores)
  PROVE  LET M == SetOf(scores)!Members
         IN  Orders({q \in M \X M : SetOf(scores)!Before(q[1], q[2])}, M)
<1> DEFINE M == SetOf(scores)!Members
           Q == {q \in M \X M : SetOf(scores)!Before(q[1], q[2])}
<1>1. \A x \in M : x \in Int /\ scores[x] \in Int
  <2> SUFFICES ASSUME NEW x \in M PROVE x \in Int /\ scores[x] \in Int
    OBVIOUS
  <2>1. x \in Name /\ scores[x] # NoScore
    BY DEF SetOf!Members
  <2>2. x \in Nat
    BY <2>1, NameAssumption
  <2>3. scores[x] \in Score /\ scores[x] # NaN
    BY <2>1 DEF Finite, Numbers
  <2>4. scores[x] \in Int
    BY <2>3, ScoreNumbers, Zenon
  <2> QED BY <2>2, <2>4
<1> HIDE DEF M
<1>2. \A x, y \in M : <<x, y>> \in Q <=> \/ scores[x] < scores[y]
                                         \/ scores[x] = scores[y] /\ x < y
  BY DEF SetOf!Before
<1> HIDE DEF Q
<1>3. \A x, y \in M : x # y => <<x, y>> \in Q \/ <<y, x>> \in Q
  BY <1>1, <1>2
<1>4. \A x, y, z \in M : <<x, y>> \in Q /\ <<y, z>> \in Q => <<x, z>> \in Q
  BY <1>1, <1>2
<1>5. \A x \in M : <<x, x>> \notin Q
  BY <1>1, <1>2
<1> QED BY <1>3, <1>4, <1>5 DEF Orders, Q, M

\* r is a list of the members, and a member has a rank in it.
HasRanks(scores, r) ==
  /\ r \in Seq(SetOf(scores)!Members)
  /\ \A n \in SetOf(scores)!Members : SetOf(scores)!RankOf(r, n) \in Nat

\* Any order of the members is one.
LEMMA ArrangementRanked ==
  ASSUME NEW scores, Finite(scores), NEW r \in SetOf(scores)!Arrangements
  PROVE  HasRanks(scores, r)
<1> DEFINE M == SetOf(scores)!Members
           c == Cardinality(M)
<1>1. IsFiniteSet(M)
  BY DEF Finite, SetOf!Members
<1>2. r \in [1 .. c -> M] /\ \A n \in M : \E i \in DOMAIN r : r[i] = n
  BY SameCount DEF SetOf!Arrangements
<1> HIDE DEF M
<1>3. c \in Nat
  BY <1>1, FS_CardinalityType
<1> HIDE DEF c
<1>4. r \in Seq(M) /\ DOMAIN r = 1 .. c
  BY <1>2, <1>3
<1>5. ASSUME NEW n \in M PROVE SetOf(scores)!RankOf(r, n) \in Nat
  <2>1. SetOf(scores)!RankOf(r, n) = CHOOSE i \in DOMAIN r : r[i] = n
    BY DEF SetOf!RankOf
  <2>2. SetOf(scores)!RankOf(r, n) \in 1 .. c
    BY <1>2, <1>4, <2>1
  <2> QED BY <1>3, <2>2
<1> QED BY <1>4, <1>5 DEF HasRanks, M

\* So a set with finitely many members has a ranking, if their scores are numbers.
LEMMA MembersRanked ==
  ASSUME NEW scores, Finite(scores), Numbers(scores)
  PROVE  HasRanks(scores, SetOf(scores)!Ranking)
<1> DEFINE M == SetOf(scores)!Members
           Q == {q \in M \X M : SetOf(scores)!Before(q[1], q[2])}
           c == Cardinality(M)
           R == SetOf(scores)!Ranking
           InOrder(s) == \A i, j \in DOMAIN s : i < j => SetOf(scores)!Before(s[i], s[j])
<1>1. Orders(Q, M) /\ IsFiniteSet(M)
  BY MembersOrdered DEF Finite, SetOf!Members
<1>2. \A x, y \in M : <<x, y>> \in Q <=> SetOf(scores)!Before(x, y)
  OBVIOUS
<1>3. R = CHOOSE s \in [1 .. c -> M] : InOrder(s)
  BY SameCount DEF SetOf!Ranking
<1> HIDE DEF M, Q, R
<1>4. c \in Nat
  BY <1>1, FS_CardinalityType
<1>5. PICK s : Ranked(Q, M, c, s)
  BY <1>1, RankedExists
<1> HIDE DEF c
<1>6. s \in [1 .. c -> M] /\ InOrder(s)
  BY <1>2, <1>5 DEF Ranked
<1>7. R \in [1 .. c -> M] /\ InOrder(R)
  <2> HIDE DEF InOrder
  <2> QED BY <1>3, <1>6
<1>8. ASSUME NEW n \in M PROVE \E i \in 1 .. c : R[i] = n
  <2>1. ASSUME NEW i \in 1 .. c, NEW j \in 1 .. c, R[i] = R[j] PROVE i = j
    <3> SUFFICES ASSUME i # j PROVE FALSE
      OBVIOUS
    <3>1. R[i] \in M /\ (i < j \/ j < i)
      BY <1>4, <1>7
    <3>2. SetOf(scores)!Before(R[i], R[i])
      BY <1>7, <2>1, <3>1
    <3> QED BY <1>1, <1>2, <3>1, <3>2 DEF Orders
  <2>2. R \in Injection(1 .. c, M)
    BY <1>7, <2>1 DEF Injection, IsInjective
  <2>3. Cardinality(1 .. c) = c
    BY <1>4, FS_Interval
  <2>4. R \in Surjection(1 .. c, M)
    BY <1>1, <2>2, <2>3, FS_Injection DEF c
  <2> QED BY <2>4 DEF Surjection
<1>9. R \in Seq(M) /\ DOMAIN R = 1 .. c
  BY <1>4, <1>7
<1>10. ASSUME NEW n \in M PROVE SetOf(scores)!RankOf(R, n) \in Nat
  <2>1. SetOf(scores)!RankOf(R, n) = CHOOSE i \in DOMAIN R : R[i] = n
    BY DEF SetOf!RankOf
  <2>2. SetOf(scores)!RankOf(R, n) \in 1 .. c
    BY <1>8, <1>9, <2>1
  <2> QED BY <1>4, <2>2
<1> QED BY <1>9, <1>10 DEF HasRanks, R, M

-----------------------------------------------------------------------------
(* What the dispatcher says *)

Phrases == {"OK", "stod", "stoi", "nil()", "unknown", "'", "arity", "success",
            "nan", "inf", "-inf"}
           \cup Name \cup Unknown \cup DOMAIN registry

\* What replies are made of.
Vocabulary == (UNION {Range(v) : v \in Value}) \cup {Text(t) : t \in Phrases}
              \cup {CRLF} \cup {Type(c) : c \in Types} \cup {Number(n) : n \in Int}

\* That is enough for any type, line break and number.
LEMMA VocabularyIsAlphabet == Alphabet(Vocabulary)
<1>1. CRLF \in Vocabulary
  BY DEF Vocabulary
<1>2. ASSUME NEW c \in Types PROVE Type(c) \in Vocabulary
  <2>1. Type(c) \in {Type(x) : x \in Types}
    OBVIOUS
  <2> QED BY <2>1 DEF Vocabulary
<1>3. ASSUME NEW n \in Int PROVE Number(n) \in Vocabulary
  <2>1. Number(n) \in {Number(x) : x \in Int}
    OBVIOUS
  <2> QED BY <2>1 DEF Vocabulary
<1> QED BY <1>1, <1>2, <1>3 DEF Alphabet

\* A value is made of it.
LEMMA ValueSaid ==
  ASSUME NEW v \in Value
  PROVE  v \in Seq(Vocabulary)
<1>1. v \in Seq(Range(v))
  BY ValueAssumption
<1>2. Range(v) \subseteq Vocabulary
  BY DEF Vocabulary
<1> QED BY <1>1, <1>2, SeqMonotonic

\* What can stand in a line.
Words == {u \in Vocabulary : u # CRLF}

\* A row of such words is a line.
LEMMA WordsInLine ==
  ASSUME NEW line \in Seq(Words)
  PROVE  line \in Lines(Vocabulary)
<1>1. line \in Seq(Vocabulary)
  BY SeqMonotonic DEF Words
<1>2. \A i \in 1 .. Len(line) : line[i] # CRLF
  BY DEF Words
<1> QED BY <1>1, <1>2 DEF Lines

\* The phrases of the dispatcher are words.
LEMMA PhraseIsWord ==
  ASSUME NEW t \in Phrases
  PROVE  Text(t) \in Words
<1>1. Text(t) \in Vocabulary
  <2>1. Text(t) \in {Text(x) : x \in Phrases}
    OBVIOUS
  <2> QED BY <2>1 DEF Vocabulary
<1>2. Text(t)[1] = "text" /\ CRLF[1] = "crlf"
  BY DEF Text, CRLF
<1> QED BY <1>1, <1>2 DEF Words

\* Every response of the dispatcher but those that list a set.
LEMMA Simple ==
  ASSUME NEW line \in Seq(Words)
  PROVE  /\ SimpleString(line) \in Scalars(Vocabulary) /\ SimpleString(line) \in Responses(Vocabulary)
         /\ Error(line) \in Responses(Vocabulary)
BY WordsInLine DEF Scalars, Responses

\* A phrase is a response.
LEMMA Phrase ==
  ASSUME NEW t \in Phrases
  PROVE  /\ SimpleString(<<Text(t)>>) \in Responses(Vocabulary)
         /\ Error(<<Text(t)>>) \in Responses(Vocabulary)
<1> DEFINE u == Text(t)
<1>1. u \in Words
  BY PhraseIsWord
<1> HIDE DEF u
<1>2. <<u>> \in Seq(Words)
  BY <1>1, Single
<1> QED BY <1>2, Simple DEF u

\* A number is a response.
LEMMA Count ==
  ASSUME NEW n \in Int
  PROVE  Integer(n) \in Responses(Vocabulary)
BY DEF Scalars, Responses

\* Every number of units has a number of tens that is nearest to it.
LEMMA Nearest ==
  ASSUME NEW x \in Int
  PROVE  \E t \in (x - 5) \div 10 .. (x + 5) \div 10 : 10 * t - x \in -5 .. 5
<1> DEFINE q == (x + 5) \div 10
           p == (x - 5) \div 10
<1>1. q \in Int /\ p \in Int
  OBVIOUS
<1>2. 10 * q <= x + 5 /\ x + 5 < 10 * q + 10
  OBVIOUS
<1>3. 10 * p <= x - 5
  OBVIOUS
<1> HIDE DEF p, q
<1>4. q \in p .. q /\ 10 * q - x \in -5 .. 5
  BY <1>1, <1>2, <1>3
<1> QED BY <1>4 DEF p, q

\* The nearest number of tens, as the text of a score says it.
Near(x) == CHOOSE t \in (x - 5) \div 10 .. (x + 5) \div 10 : 10 * t - x \in -5 .. 5

\* What to_string makes of a score.
ScoreWritten(x) ==
  \/ x = NaN /\ to_string(x) = <<Text("nan")>>
  \/ x # NaN /\ x = Infinity /\ to_string(x) = <<Text("inf")>>
  \/ x # NaN /\ x # Infinity /\ x = -Infinity /\ to_string(x) = <<Text("-inf")>>
  \/ /\ x # NaN /\ x # Infinity /\ x # -Infinity
     /\ to_string(x) = <<Number(Near(x))>>
     /\ Near(x) \in (x - 5) \div 10 .. (x + 5) \div 10
     /\ 10 * Near(x) - x \in -5 .. 5

LEMMA ScoreIsWritten ==
  ASSUME NEW x \in Score
  PROVE  ScoreWritten(x)
<1>1. CASE x = NaN
  BY <1>1, ScoreNumbers DEF to_string, ScoreWritten
<1>2. CASE x # NaN /\ x = Infinity
  BY <1>2, ScoreNumbers DEF to_string, ScoreWritten
<1>3. CASE x # NaN /\ x # Infinity /\ x = -Infinity
  BY <1>3, ScoreNumbers, Zenon DEF to_string, ScoreWritten
<1>4. CASE x # NaN /\ x # Infinity /\ x # -Infinity
  <2>1. x \in Int
    BY <1>4, ScoreNumbers
  <2>2. \E t \in (x - 5) \div 10 .. (x + 5) \div 10 : 10 * t - x \in -5 .. 5
    BY <2>1, Nearest
  <2>3. /\ Near(x) \in (x - 5) \div 10 .. (x + 5) \div 10
        /\ 10 * Near(x) - x \in -5 .. 5
    BY <2>2, Zenon DEF Near
  <2>4. to_string(x) = <<Number(Near(x))>>
    BY <1>4 DEF to_string, Near
  <2> QED BY <1>4, <2>3, <2>4 DEF ScoreWritten
<1> QED BY <1>1, <1>2, <1>3, <1>4

\* A score is a response, as to_string writes it.
LEMMA ScoreSaid ==
  ASSUME NEW x \in Score
  PROVE  /\ SimpleString(to_string(x)) \in Scalars(Vocabulary)
         /\ SimpleString(to_string(x)) \in Responses(Vocabulary)
<1>1. to_string(x) \in Lines(Vocabulary)
  <2>1. ScoreWritten(x)
    BY ScoreIsWritten
  <2>2. ASSUME x # NaN, x # Infinity, x # -Infinity PROVE to_string(x) \in Lines(Vocabulary)
    <3>1. x \in Int
      BY <2>2, ScoreNumbers
    <3>2. Near(x) \in Int /\ to_string(x) = <<Number(Near(x))>>
      BY <2>1, <2>2, <3>1 DEF ScoreWritten
    <3> QED BY <3>2, NumberLine, VocabularyIsAlphabet
  <2>3. ASSUME NEW t \in {"nan", "inf", "-inf"}, to_string(x) = <<Text(t)>>
        PROVE  to_string(x) \in Lines(Vocabulary)
    <3> DEFINE u == Text(t)
    <3>1. u \in Words
      BY PhraseIsWord DEF Phrases
    <3> HIDE DEF u
    <3>2. <<u>> \in Seq(Words)
      BY <3>1
    <3>3. <<u>> \in Lines(Vocabulary)
      BY <3>2, WordsInLine
    <3> QED BY <2>3, <3>3 DEF u
  <2> QED BY <2>1, <2>2, <2>3 DEF ScoreWritten
<1> QED BY <1>1 DEF Scalars, Responses

\* The client is answered with the response r.
Told(args, r) ==
  /\ request' = args /\ answer' = Parsed(r, << >>)
  /\ undefined = FALSE /\ undefined' = FALSE
  /\ OneResponse'

\* So it is when the dispatcher replies with it, and no node has been misread.
LEMMA Replied ==
  ASSUME undefined \in BOOLEAN, NEW args, NEW r \in Responses(Vocabulary), Reply(args, r)
  PROVE  Told(args, r)
<1> DEFINE text == serialize(r)
<1>1. Answered(r, text)
  BY VocabularyIsAlphabet, ReplyRead
<1>2. request' = args /\ reply' = text /\ answer' = parse(text)
  BY DEF Reply
<1>3. undefined = FALSE /\ undefined' = FALSE
  BY DEF Reply
<1> HIDE DEF text
<1>4. answer' = Parsed(r, << >>)
  BY <1>1, <1>2 DEF Answered
<1>5. answer'.outcome = "parsed" /\ answer'.rest = << >>
  BY <1>4 DEF Parsed
<1>6. \A n \in 0 .. Len(reply') - 1 : parse(SubSeq(reply', 1, n)).outcome # "parsed"
  BY <1>1, <1>2 DEF Answered, Take
<1>7. OneResponse'
  BY <1>5, <1>6 DEF OneResponse
<1> QED BY <1>2, <1>3, <1>4, <1>7 DEF Told

\* That is the answer of Store, when it is one of those that Store may give.
LEMMA ToldAnswers ==
  ASSUME NEW args, NEW r, Told(args, r), NEW S, r \in S
  PROVE  Abstract!Answers(args, S)
<1>1. answer'.outcome = "parsed" /\ answer'.response = r
  BY DEF Told, Parsed
<1> QED BY <1>1 DEF Told, Abstract!Answers

\* Both modules write responses in the same way.
LEMMA SameResponses ==
  /\ \A x : Abstract!SimpleString(x) = SimpleString(x)
  /\ \A x : Abstract!Error(x) = Error(x)
  /\ \A x : Abstract!Integer(x) = Integer(x)
  /\ \A x : Abstract!BulkString(x) = BulkString(x)
  /\ \A x : Abstract!Array(x) = Array(x)
  /\ \A x : Abstract!Text(x) = Text(x)
  /\ \A x : Abstract!NameText(x) = <<Text(x)>>
  /\ Abstract!NilError = Nil
BY DEF Abstract!SimpleString, SimpleString, Abstract!Error, Error, Abstract!Integer, Integer,
       Abstract!BulkString, BulkString, Abstract!Array, Array, Abstract!Text, Text,
       Abstract!NameText,
       Abstract!NilError, Nil

\* They flatten the elements of an array alike.
LEMMA SameFlatten == \A x : Abstract!FlattenSeq(x) = FlattenSeq(x)
BY DEF Abstract!FlattenSeq, FlattenSeq

\* What is said of a score is one of the texts that Store has for it.
LEMMA SameScore ==
  ASSUME NEW x \in Score
  PROVE  to_string(x) \in Abstract!ScoreTexts(x)
<1>1. ScoreWritten(x)
  BY ScoreIsWritten
<1>2. Abstract!Text("nan") = Text("nan") /\ Abstract!Text("inf") = Text("inf")
      /\ Abstract!Text("-inf") = Text("-inf") /\ \A t : Abstract!Number(t) = Number(t)
  BY DEF Abstract!Text, Text, Abstract!Number, Number
<1>3. CASE x = NaN
  BY <1>1, <1>2, <1>3, ScoreNumbers DEF ScoreWritten, Abstract!ScoreTexts
<1>4. CASE x # NaN /\ x = Infinity
  BY <1>1, <1>2, <1>4, ScoreNumbers DEF ScoreWritten, Abstract!ScoreTexts
<1>5. CASE x # NaN /\ x # Infinity /\ x = -Infinity
  BY <1>1, <1>2, <1>5, ScoreNumbers, Zenon DEF ScoreWritten, Abstract!ScoreTexts
<1>6. CASE x # NaN /\ x # Infinity /\ x # -Infinity
  <2> DEFINE T == {u \in (x - 5) \div 10 .. (x + 5) \div 10 : 10 * u - x \in -5 .. 5}
  <2>1. Near(x) \in T /\ to_string(x) = <<Number(Near(x))>>
    BY <1>1, <1>6 DEF ScoreWritten
  <2>2. Abstract!ScoreTexts(x) = {<<Number(t)>> : t \in T}
    BY <1>2, <1>6 DEF Abstract!ScoreTexts
  <2> HIDE DEF T
  <2> QED BY <2>1, <2>2
<1> QED BY <1>3, <1>4, <1>5, <1>6

\* Both modules have the same members and orders of a set.
LEMMA SameContents ==
  ASSUME NEW scores
  PROVE  /\ Abstract!Contents(scores)!Members = SetOf(scores)!Members
         /\ Abstract!Contents(scores)!Ranking = SetOf(scores)!Ranking
         /\ Abstract!Contents(scores)!Arrangements = SetOf(scores)!Arrangements
<1>1. Abstract!Contents(scores)!Members = SetOf(scores)!Members
  BY DEF Abstract!Contents!Members, SetOf!Members
<1>2. \A x, y : Abstract!Contents(scores)!Before(x, y) = SetOf(scores)!Before(x, y)
  BY DEF Abstract!Contents!Before, SetOf!Before
<1>3. \A M : Abstract!Contents(scores)!Cardinality(M) = SetOf(scores)!Cardinality(M)
  BY DEF Abstract!Contents!Cardinality, SetOf!Cardinality
<1>4. Abstract!Contents(scores)!Ranking = SetOf(scores)!Ranking
  BY <1>1, <1>2, <1>3 DEF Abstract!Contents!Ranking, SetOf!Ranking
<1>5. Abstract!Contents(scores)!Arrangements = SetOf(scores)!Arrangements
  BY <1>1, <1>3 DEF Abstract!Contents!Arrangements, SetOf!Arrangements
<1> QED BY <1>1, <1>4, <1>5

\* And find the same in an order.
LEMMA SameRanks ==
  ASSUME NEW scores
  PROVE  /\ \A r, n : Abstract!Contents(scores)!RankOf(r, n) = SetOf(scores)!RankOf(r, n)
         /\ \A r, lo, hi : Abstract!Contents(scores)!InRanks(r, lo, hi)
                             = SetOf(scores)!InRanks(r, lo, hi)
BY DEF Abstract!Contents!RankOf, SetOf!RankOf, Abstract!Contents!InRanks, SetOf!InRanks

-----------------------------------------------------------------------------
(* The answers that list members *)

\* What is said of one of them.
Entry(scores, n) == <<BulkString(<<Text(n)>>), SimpleString(to_string(scores[n]))>>

\* The scores of all members, as they are told.
Telling(scores) == [n \in SetOf(scores)!Members |-> to_string(scores[n])]

\* The list of any members is a response, the one of Store for that way of telling scores.
LEMMA ListAnswered ==
  ASSUME NEW scores, Finite(scores), NEW names \in Seq(SetOf(scores)!Members)
  PROVE  /\ Listed(SetOf(scores)!Listed(names)) \in Responses(Vocabulary)
         /\ Abstract!Elements(names, Telling(scores)) = Listed(SetOf(scores)!Listed(names))
<1> DEFINE M == SetOf(scores)!Members
           entries == SetOf(scores)!Listed(names)
           E == [i \in DOMAIN names |-> Entry(scores, names[i])]
           S == Scalars(Vocabulary)
<1>1. Len(names) \in Nat /\ DOMAIN names = 1 .. Len(names) /\ \A i \in DOMAIN names : names[i] \in M
  BY LenProperties
<1>2. ASSUME NEW n \in M
      PROVE  n \in Name /\ scores[n] \in Score /\ Telling(scores)[n] = to_string(scores[n])
  <2>1. n \in Name /\ scores[n] # NoScore
    BY DEF SetOf!Members
  <2>2. scores[n] \in Score
    BY <2>1 DEF Finite
  <2> QED BY <2>1, <2>2 DEF Telling
<1> HIDE DEF M, S
<1>3. ASSUME NEW n \in M PROVE Entry(scores, n) \in Seq(S)
  <2> DEFINE b == BulkString(<<Text(n)>>)
             c == SimpleString(to_string(scores[n]))
             u == Text(n)
  <2>1. u \in Vocabulary
    BY <1>2, PhraseIsWord DEF Phrases, Words
  <2>2. <<u>> \in Seq(Vocabulary)
    <3> HIDE DEF u
    <3> QED BY <2>1, Single
  <2>3. b \in S
    BY <2>2 DEF Scalars, S
  <2>4. c \in S
    BY <1>2, ScoreSaid DEF S
  <2> HIDE DEF b, c
  <2>5. <<b, c>> \in Seq(S)
    BY <2>3, <2>4
  <2> QED BY <2>5 DEF Entry, b, c
<1>4. E \in Seq(Seq(S))
  <2>1. \A i \in 1 .. Len(names) : Entry(scores, names[i]) \in Seq(S)
    BY <1>1, <1>3
  <2> QED BY <1>1, <2>1
<1>5. Listed(entries) = Array(FlattenSeq(E))
  <2>1. entries = [i \in DOMAIN names |-> <<names[i], scores[names[i]]>>]
    BY DEF SetOf!Listed
  <2>2. [i \in DOMAIN entries |-> <<BulkString(<<Text(entries[i][1])>>),
                                    SimpleString(to_string(entries[i][2]))>>] = E
    BY <2>1 DEF Entry
  <2> QED BY <2>2 DEF Listed
<1>6. FlattenSeq(E) \in Seq(S)
  BY <1>4, FlattenType
<1>7. Abstract!Elements(names, Telling(scores)) = Array(FlattenSeq(E))
  <2> DEFINE T == Telling(scores)
  <2>1. ASSUME NEW i \in DOMAIN names
        PROVE  <<Abstract!BulkString(Abstract!NameText(names[i])), Abstract!SimpleString(T[names[i]])>>
                 = Entry(scores, names[i])
    <3>1. T[names[i]] = to_string(scores[names[i]])
      BY <1>1, <1>2
    <3> HIDE DEF T
    <3> QED BY <3>1, SameResponses DEF Entry
  <2> HIDE DEF T
  <2>2. [i \in DOMAIN names |-> <<Abstract!BulkString(Abstract!NameText(names[i])),
                                  Abstract!SimpleString(T[names[i]])>>] = E
    BY <2>1
  <2>3. Abstract!Elements(names, T) = Array(FlattenSeq(E))
    BY <2>2, SameFlatten, SameResponses DEF Abstract!Elements
  <2> QED BY <2>3 DEF T
<1> QED BY <1>5, <1>6, <1>7 DEF Responses, S

\* Between two ranks a list of members has members.
LEMMA SomeNames ==
  ASSUME NEW scores, NEW r \in Seq(SetOf(scores)!Members), NEW lo \in Rank, NEW hi \in Rank
  PROVE  SetOf(scores)!InRanks(r, lo, hi) \in Seq(SetOf(scores)!Members)
<1> DEFINE M == SetOf(scores)!Members
           from == IF lo < 1 THEN 1 ELSE lo
           to == IF hi > Len(r) THEN Len(r) ELSE hi
<1>1. lo \in Int /\ hi \in Int
  BY RankAssumption
<1>2. SetOf(scores)!InRanks(r, lo, hi) = SubSeq(r, from, to)
  BY DEF SetOf!InRanks
<1> HIDE DEF M
<1>3. r \in Seq(M)
  BY DEF M
<1>4. Len(r) \in Nat
  BY <1>3, LenProperties
<1>5. from \in Int /\ to \in Int /\ from >= 1 /\ to <= Len(r)
  BY <1>1, <1>4
<1> HIDE DEF from, to
<1>6. \A i \in from .. to : r[i] \in M
  <2>1. \A i \in from .. to : i \in 1 .. Len(r)
    BY <1>4, <1>5
  <2> QED BY <1>3, <2>1, ElementOfSeq
<1>7. SubSeq(r, from, to) \in Seq(M)
  BY <1>5, <1>6, SubSeqProperties
<1> QED BY <1>2, <1>7 DEF M

-----------------------------------------------------------------------------
(* What the commands do *)

\* The strings and the sets have their type, a set has finitely many members, and a score
\* that is no number only if its order is given up.
Nodes ==
  /\ strings \in [Key -> Value \cup {NoString}]
  /\ zsets \in [Key -> [Name -> Score \cup {NoScore}] \cup {NoSet}]
  /\ disordered \in SUBSET Key
  /\ \A k \in Key : zsets[k] # NoSet => Finite(zsets[k])
  /\ \A k \in Key : zsets[k] # NoSet /\ k \notin disordered => Numbers(zsets[k])

\* The sets as Store has them.
Shown == [k \in Key |-> IF zsets[k] = NoSet THEN NewSet ELSE zsets[k]]

\* A new set has no members.
LEMMA NewSetFinite == Finite(NewSet) /\ Numbers(NewSet)
<1>1. NewSet \in [Name -> Score \cup {NoScore}] /\ \A n \in Name : NewSet[n] = NoScore
  BY DEF NewSet
<1>2. {n \in Name : NewSet[n] # NoScore} = {}
  BY <1>1
<1> QED BY <1>1, <1>2, FS_EmptySet, ScoreAssumption DEF Finite, Numbers

\* What a command finds or creates is what is seen of the set.
LEMMA CreatedFinite ==
  ASSUME Nodes, NEW k \in Key
  PROVE  /\ Finite(Created(k)) /\ Shown[k] = Created(k)
         /\ k \notin disordered => Numbers(Created(k))
BY NewSetFinite DEF Nodes, Created, Shown

\* A set that is created or was there is seen as it was.
LEMMA LookedShown ==
  ASSUME Nodes, NEW k \in Key, Looked(k)
  PROVE  Nodes' /\ Shown' = Shown /\ UNCHANGED <<strings, disordered>>
<1> DEFINE c == Created(k)
<1>1. /\ Finite(c) /\ c = (IF zsets[k] # NoSet THEN zsets[k] ELSE NewSet)
      /\ k \notin disordered => Numbers(c)
  BY CreatedFinite DEF Created
<1>2. c \in [Name -> Score \cup {NoScore}] /\ c # NoSet
  BY <1>1, NoSetAssumption DEF Finite
<1> HIDE DEF c
<1>3. zsets' = [zsets EXCEPT ![k] = c] /\ strings' = strings /\ disordered' = disordered
  BY DEF Looked, c
<1>4. Nodes'
  <2>1. zsets' \in [Key -> [Name -> Score \cup {NoScore}] \cup {NoSet}]
    BY <1>2, <1>3 DEF Nodes
  <2>2. ASSUME NEW j \in Key, zsets'[j] # NoSet PROVE Finite(zsets'[j])
    BY <1>1, <1>3, <2>2 DEF Nodes
  <2>3. ASSUME NEW j \in Key, zsets'[j] # NoSet, j \notin disordered PROVE Numbers(zsets'[j])
    BY <1>1, <1>3, <2>3 DEF Nodes
  <2> QED BY <1>3, <2>1, <2>2, <2>3 DEF Nodes
<1>5. ASSUME NEW j \in Key
      PROVE  (IF zsets'[j] = NoSet THEN NewSet ELSE zsets'[j])
               = (IF zsets[j] = NoSet THEN NewSet ELSE zsets[j])
  BY <1>1, <1>2, <1>3 DEF Nodes
<1>6. Shown' = Shown
  BY <1>5 DEF Shown, NewSet
<1> QED BY <1>3, <1>4, <1>6

\* The set has finitely many members when another name is one.
LEMMA OneMore ==
  ASSUME NEW scores, Finite(scores), NEW n \in Name, NEW s \in Score \cup {NoScore}
  PROVE  Finite([scores EXCEPT ![n] = s])
<1> DEFINE t == [scores EXCEPT ![n] = s]
           M == {m \in Name : scores[m] # NoScore}
           N == {m \in Name : t[m] # NoScore}
<1>1. t \in [Name -> Score \cup {NoScore}] /\ \A m \in Name : m # n => t[m] = scores[m]
  BY DEF Finite
<1>2. IsFiniteSet(M)
  BY DEF Finite
<1> HIDE DEF t
<1>3. N \subseteq M \cup {n}
  BY <1>1
<1> HIDE DEF M, N
<1>4. IsFiniteSet(M \cup {n})
  BY <1>2, FS_AddElement
<1>5. IsFiniteSet(N)
  BY <1>3, <1>4, FS_Subset
<1>6. Finite(t)
  BY <1>1, <1>5 DEF Finite, N
<1> QED BY <1>6 DEF t

\* All its scores stay numbers when the one that changes is a number or none.
LEMMA OneMoreNumber ==
  ASSUME NEW scores, Finite(scores), Numbers(scores), NEW n \in Name, NEW s, s # NaN
  PROVE  Numbers([scores EXCEPT ![n] = s])
BY DEF Finite, Numbers

\* One score is changed.
LEMMA ZaddShown ==
  ASSUME Nodes, NEW k \in Key, NEW n \in Name, NEW s \in Score \cup {NoScore}, zadd(k, n, s)
  PROVE  /\ Nodes' /\ Shown' = [Shown EXCEPT ![k][n] = s] /\ strings' = strings
         /\ disordered' = IF s = NaN THEN disordered \cup {k} ELSE disordered
<1> DEFINE c == [Created(k) EXCEPT ![n] = s]
<1>1. Finite(c)
  BY CreatedFinite, OneMore
<1>2. c = [Shown[k] EXCEPT ![n] = s]
  BY CreatedFinite
<1>3. /\ zsets' = [zsets EXCEPT ![k] = c] /\ strings' = strings
      /\ disordered' = IF s = NaN THEN disordered \cup {k} ELSE disordered
  BY DEF zadd
<1>7. k \notin disordered' => Numbers(c)
  <2>1. ASSUME k \notin disordered' PROVE s # NaN /\ k \notin disordered
    BY <1>3, <2>1
  <2> QED BY <2>1, CreatedFinite, OneMoreNumber
<1> HIDE DEF c
<1>4. c \in [Name -> Score \cup {NoScore}] /\ c # NoSet
  BY <1>1, NoSetAssumption DEF Finite
<1>5. Nodes'
  <2>1. zsets' \in [Key -> [Name -> Score \cup {NoScore}] \cup {NoSet}]
    BY <1>3, <1>4 DEF Nodes
  <2>2. ASSUME NEW j \in Key, zsets'[j] # NoSet PROVE Finite(zsets'[j])
    BY <1>1, <1>3, <2>2 DEF Nodes
  <2>3. ASSUME NEW j \in Key, zsets'[j] # NoSet, j \notin disordered' PROVE Numbers(zsets'[j])
    BY <1>3, <1>7, <2>3 DEF Nodes
  <2>4. disordered' \in SUBSET Key
    BY <1>3 DEF Nodes
  <2> QED BY <1>3, <2>1, <2>2, <2>3, <2>4 DEF Nodes
<1>6. Shown' = [Shown EXCEPT ![k] = c]
  BY <1>3, <1>4 DEF Shown, Nodes, NewSet
<1> QED BY <1>2, <1>3, <1>5, <1>6

\* The set is gone.
LEMMA ZdelShown ==
  ASSUME Nodes, NEW k \in Key, zsets' = [zsets EXCEPT ![k] = NoSet], strings' = strings,
         disordered' = disordered \ {k}
  PROVE  Nodes' /\ Shown' = [Shown EXCEPT ![k] = [n \in Name |-> NoScore]]
<1>1. zsets' \in [Key -> [Name -> Score \cup {NoScore}] \cup {NoSet}]
  BY DEF Nodes
<1>2. ASSUME NEW j \in Key, zsets'[j] # NoSet PROVE Finite(zsets'[j])
  BY <1>2 DEF Nodes
<1>5. ASSUME NEW j \in Key, zsets'[j] # NoSet, j \notin disordered' PROVE Numbers(zsets'[j])
  BY <1>5 DEF Nodes
<1>3. Nodes'
  BY <1>1, <1>2, <1>5 DEF Nodes
<1>4. Shown' = [Shown EXCEPT ![k] = [n \in Name |-> NoScore]]
  BY DEF Shown, Nodes, NewSet
<1> QED BY <1>3, <1>4

KInv == Nodes /\ undefined \in BOOLEAN

\* What every step has to leave behind.
Done == KInv' /\ OneResponse'

\* A response that is written for a request is what the client gets.
LEMMA AnswerDone ==
  ASSUME KInv, NEW args, NEW r \in Responses(Vocabulary), Reply(args, r), Nodes',
         NEW S, r \in S
  PROVE  Done /\ Abstract!Answers(args, S)
<1>1. Told(args, r)
  BY Replied DEF KInv
<1>2. Done
  BY <1>1 DEF Told, Done, KInv
<1> QED BY <1>1, <1>2, ToldAnswers

\* A command that changes nothing that can be seen.
LEMMA QueryDone ==
  ASSUME KInv, NEW args, NEW r \in Responses(Vocabulary), Reply(args, r),
         Nodes', Shown' = Shown, UNCHANGED <<strings, disordered>>, NEW S, r \in S
  PROVE  Done /\ Abstract!Query(args, S)
<1>1. Done /\ Abstract!Answers(args, S)
  BY AnswerDone
<1> QED BY <1>1 DEF Abstract!Query, Shown

\* The nodes stay as they are.
LEMMA SameNodes ==
  ASSUME Nodes, UNCHANGED <<strings, zsets, disordered>>
  PROVE  Nodes' /\ Shown' = Shown
BY DEF Nodes, Shown, NewSet

\* GET tells the string that is there, or the empty one.
LEMMA GetDone ==
  ASSUME KInv, NEW k \in Key, handle_get(k)
  PROVE  Done /\ Abstract!Get(k)
<1> DEFINE text == IF strings[k] = NoString THEN << >> ELSE strings[k]
           r == BulkString(text)
<1>1. text \in Seq(Vocabulary)
  <2>1. strings[k] = NoString \/ strings[k] \in Value
    BY DEF KInv, Nodes
  <2> QED BY <2>1, ValueSaid, EmptySeq
<1> HIDE DEF text
<1>2. r \in Responses(Vocabulary)
  BY <1>1 DEF Responses, Scalars
<1>3. Reply(<<"GET", k>>, r) /\ UNCHANGED <<strings, zsets, disordered>>
  BY DEF handle_get, text
<1>4. Done /\ Abstract!Query(<<"GET", k>>, {r})
  BY <1>2, <1>3, SameNodes, QueryDone DEF KInv
<1> QED BY <1>4, SameResponses DEF Abstract!Get, Abstract!Query, text

\* SET puts the value in the node and says OK.
LEMMA SetDone ==
  ASSUME KInv, NEW k \in Key, NEW v \in Value, handle_set(k, v)
  PROVE  Done /\ Abstract!Set(k, v)
<1> DEFINE r == SimpleString(<<Text("OK")>>)
<1>1. r \in Responses(Vocabulary)
  BY Phrase DEF Phrases
<1>2. /\ strings' = [strings EXCEPT ![k] = v] /\ UNCHANGED <<zsets, disordered>>
      /\ Reply(<<"SET", k, v>>, r)
  BY DEF handle_set
<1>3. Nodes'
  BY <1>2 DEF KInv, Nodes
<1>4. Done /\ Abstract!Answers(<<"SET", k, v>>, {r})
  BY <1>1, <1>2, <1>3, AnswerDone
<1> QED BY <1>2, <1>4, SameResponses DEF Abstract!Set

\* DEL takes the string away and tells whether there was one.
LEMMA DelDone ==
  ASSUME KInv, NEW k \in Key, handle_del(k)
  PROVE  Done /\ Abstract!Del(k)
<1> DEFINE r == Integer(IF strings[k] # NoString THEN 1 ELSE -1)
<1>1. r \in Responses(Vocabulary)
  BY Count
<1>2. /\ strings' = [strings EXCEPT ![k] = NoString] /\ UNCHANGED <<zsets, disordered>>
      /\ Reply(<<"DEL", k>>, r)
  BY DEF handle_del
<1>3. Nodes'
  BY <1>2 DEF KInv, Nodes
<1>4. Done /\ Abstract!Answers(<<"DEL", k>>, {r})
  BY <1>1, <1>2, <1>3, AnswerDone
<1>5. r = Abstract!Integer(IF strings[k] = NoString THEN -1 ELSE 1)
  BY SameResponses
<1> QED BY <1>2, <1>4, <1>5 DEF Abstract!Del

\* ZADD sets one score, or refuses a score that is no number.
LEMMA ZaddDone ==
  ASSUME KInv, NEW k \in Key, NEW n \in Name, NEW s \in Score \cup {NotANumber},
         handle_zadd(k, s, n)
  PROVE  Done /\ (Abstract!ZaddText(k, n) \/ (s \in Score /\ Abstract!Zadd(k, s, n)))
<1>1. CASE s = NotANumber
  <2> DEFINE args == <<"ZADD", k, s, n>>
             r == SimpleString(<<Text("stod")>>)
  <2>1. r \in Responses(Vocabulary)
    BY Phrase DEF Phrases
  <2>2. Looked(k) /\ Reply(args, r)
    BY <1>1 DEF handle_zadd, make_error_response
  <2>3. Done /\ Abstract!Query(args, {r, Error(<<Text("stod")>>)})
    BY <2>1, <2>2, LookedShown, QueryDone DEF KInv
  <2>4. Abstract!ZaddText(k, n)
    BY <1>1, <2>3, SameResponses DEF Abstract!ZaddText, Abstract!Refuse
  <2> QED BY <2>3, <2>4
<1>2. CASE s # NotANumber
  <2> DEFINE args == <<"ZADD", k, s, n>>
             r == Integer(1)
  <2>1. r \in Responses(Vocabulary)
    BY Count
  <2>2. zadd(k, n, s) /\ Reply(args, r) /\ s \in Score
    BY <1>2 DEF handle_zadd
  <2>3. /\ Nodes' /\ Shown' = [Shown EXCEPT ![k][n] = s] /\ strings' = strings
        /\ disordered' = IF s = NaN THEN disordered \cup {k} ELSE disordered
    BY <2>2, ZaddShown DEF KInv
  <2>4. Done /\ Abstract!Answers(args, {r})
    BY <2>1, <2>2, <2>3, AnswerDone
  <2>5. Abstract!Zadd(k, s, n)
    BY <2>3, <2>4, SameResponses DEF Abstract!Zadd, Shown
  <2> QED BY <2>2, <2>4, <2>5
<1> QED BY <1>1, <1>2

\* ZREM takes one member away.
LEMMA ZremDone ==
  ASSUME KInv, NEW k \in Key, NEW n \in Name, handle_zrem(k, n)
  PROVE  Done /\ Abstract!Zrem(k, n)
<1> DEFINE args == <<"ZREM", k, n>>
           r == Integer(1)
<1>1. r \in Responses(Vocabulary)
  BY Count
<1>2. zadd(k, n, NoScore) /\ Reply(args, r)
  BY DEF handle_zrem
<1>3. /\ Nodes' /\ Shown' = [Shown EXCEPT ![k][n] = NoScore] /\ strings' = strings
      /\ disordered' = disordered
  BY <1>2, ZaddShown, ScoreAssumption DEF KInv
<1>4. Done /\ Abstract!Answers(args, {r})
  BY <1>1, <1>2, <1>3, AnswerDone
<1> QED BY <1>3, <1>4, SameResponses DEF Abstract!Zrem, Shown

\* ZDEL takes the whole set away.
LEMMA ZdelDone ==
  ASSUME KInv, NEW k \in Key, handle_zdel(k)
  PROVE  Done /\ Abstract!Zdel(k)
<1> DEFINE args == <<"ZDEL", k>>
           r == SimpleString(<<Text("success")>>)
<1>1. r \in Responses(Vocabulary)
  BY Phrase DEF Phrases
<1>2. /\ zsets' = [zsets EXCEPT ![k] = NoSet] /\ strings' = strings
      /\ disordered' = disordered \ {k} /\ Reply(args, r)
  BY DEF handle_zdel
<1>3. Nodes' /\ Shown' = [Shown EXCEPT ![k] = [n \in Name |-> NoScore]]
  BY <1>2, ZdelShown DEF KInv
<1>4. Done /\ Abstract!Answers(args, {r})
  BY <1>1, <1>2, <1>3, AnswerDone
<1> QED BY <1>2, <1>3, <1>4, SameResponses DEF Abstract!Zdel, Shown

\* The error for a missing member is a response.
LEMMA NilSaid == Nil \in Responses(Vocabulary)
BY Phrase DEF Phrases, Nil

\* The members of the set that a query creates or finds are those that Store has, and so
\* are the orders they may have.
LEMMA SameSet ==
  ASSUME Nodes, NEW k \in Key
  PROVE  /\ Abstract!Members(k) = SetOf(Created(k))!Members
         /\ Abstract!Rankings(k) = Rankings(k)
<1> DEFINE c == Created(k)
<1>1. Shown[k] = c
  BY CreatedFinite
<1>2. Abstract!Members(k) = Abstract!Contents(Shown[k])!Members
  BY DEF Abstract!Members, Shown
<1>3. Abstract!Rankings(k) = IF k \in disordered THEN Abstract!Contents(Shown[k])!Arrangements
                             ELSE {Abstract!Contents(Shown[k])!Ranking}
  BY DEF Abstract!Rankings, Shown
<1>4. Rankings(k) = IF k \in disordered THEN SetOf(c)!Arrangements ELSE {SetOf(c)!Ranking}
  BY DEF Rankings
<1> HIDE DEF c
<1>5. Abstract!Members(k) = SetOf(c)!Members
  BY <1>1, <1>2, SameContents
<1>6. Abstract!Rankings(k) = Rankings(k)
  BY <1>1, <1>3, <1>4, SameContents
<1> QED BY <1>5, <1>6 DEF c

\* Each of them lists the members.
LEMMA RankingsList ==
  ASSUME Nodes, NEW k \in Key, NEW r \in Rankings(k)
  PROVE  HasRanks(Created(k), r)
<1> DEFINE c == Created(k)
<1>1. Finite(c) /\ (k \notin disordered => Numbers(c))
  BY CreatedFinite
<1>2. r \in (IF k \in disordered THEN SetOf(c)!Arrangements ELSE {SetOf(c)!Ranking})
  BY DEF Rankings
<1> HIDE DEF c
<1>3. CASE k \in disordered
  <2>1. r \in SetOf(c)!Arrangements
    BY <1>2, <1>3
  <2> QED BY <1>1, <2>1, ArrangementRanked DEF c
<1>4. CASE k \notin disordered
  <2>1. r = SetOf(c)!Ranking
    BY <1>2, <1>4
  <2> QED BY <1>1, <1>4, <2>1, MembersRanked DEF c
<1> QED BY <1>3, <1>4

\* The score of a member is one, and its text one that Store may tell.
LEMMA MemberShown ==
  ASSUME Nodes, NEW k \in Key, NEW n \in SetOf(Created(k))!Members
  PROVE  Created(k)[n] \in Score /\ to_string(Created(k)[n]) \in Abstract!ScoreTexts(Created(k)[n])
<1>1. n \in Name /\ Created(k)[n] # NoScore
  BY DEF SetOf!Members
<1>2. Created(k)[n] \in Score
  BY <1>1, CreatedFinite DEF Finite
<1> QED BY <1>2, SameScore

\* So the scores of all members are told in one of the ways of Store.
LEMMA TellingShown ==
  ASSUME Nodes, NEW k \in Key
  PROVE  Telling(Created(k)) \in Abstract!Tellings(k)
<1> DEFINE c == Created(k)
           M == SetOf(c)!Members
           told == Telling(c)
<1>1. Shown[k] = c
  BY CreatedFinite
<1>2. Abstract!Members(k) = M
  BY SameSet
<1>3. Abstract!Tellings(k)
        = {t \in [M -> UNION {Abstract!ScoreTexts(Shown[k][n]) : n \in M}] :
             \A n \in M : t[n] \in Abstract!ScoreTexts(Shown[k][n])}
  BY <1>2 DEF Abstract!Tellings, Shown
<1>4. told = [n \in M |-> to_string(c[n])]
  BY DEF Telling
<1>5. \A n \in M : to_string(c[n]) \in Abstract!ScoreTexts(c[n])
  BY MemberShown
<1> HIDE DEF c, M, told
<1>6. told \in [M -> UNION {Abstract!ScoreTexts(c[n]) : n \in M}]
  BY <1>4, <1>5
<1>7. \A n \in M : told[n] \in Abstract!ScoreTexts(c[n])
  BY <1>4, <1>5
<1>8. told \in Abstract!Tellings(k)
  BY <1>1, <1>3, <1>6, <1>7
<1> QED BY <1>8 DEF told, c

\* ZSCORE tells the score of a member.
LEMMA ZscoreDone ==
  ASSUME KInv, NEW k \in Key, NEW n \in Name, handle_zscore(k, n)
  PROVE  Done /\ Abstract!Zscore(k, n)
<1> DEFINE args == <<"ZSCORE", k, n>>
           c == Created(k)
           r == IF n \in SetOf(c)!Members THEN SimpleString(to_string(c[n])) ELSE Nil
           S == IF n \in SetOf(c)!Members
                THEN {SimpleString(text) : text \in Abstract!ScoreTexts(c[n])} ELSE {Nil}
<1>1. Looked(k) /\ Reply(args, r)
  BY DEF handle_zscore
<1>2. r \in Responses(Vocabulary)
  BY NilSaid, MemberShown, ScoreSaid DEF KInv
<1>3. r \in S
  BY MemberShown DEF KInv
<1>4. Shown[k] = c /\ Abstract!Members(k) = SetOf(c)!Members
  BY CreatedFinite, SameSet DEF KInv
<1> HIDE DEF r, c
<1>5. S = IF n \in Abstract!Members(k)
          THEN {Abstract!SimpleString(text) : text \in Abstract!ScoreTexts(Shown[k][n])}
          ELSE {Abstract!NilError}
  BY <1>4, SameResponses
<1> HIDE DEF S
<1>6. Done /\ Abstract!Query(args, S)
  BY <1>1, <1>2, <1>3, LookedShown, QueryDone DEF KInv
<1> QED BY <1>5, <1>6 DEF Abstract!Zscore, Shown

\* ZRANK tells its position in one of the orders.
LEMMA ZrankDone ==
  ASSUME KInv, NEW k \in Key, NEW n \in Name, handle_zrank(k, n)
  PROVE  Done /\ Abstract!Zrank(k, n)
<1> DEFINE args == <<"ZRANK", k, n>>
           c == Created(k)
           S == IF n \in SetOf(c)!Members
                THEN {Integer(SetOf(c)!RankOf(x, n)) : x \in Rankings(k)} ELSE {Nil}
<1>1. Looked(k)
  BY DEF handle_zrank
<1>2. PICK x \in Rankings(k) :
        Reply(args, IF n \in SetOf(c)!Members THEN Integer(SetOf(c)!RankOf(x, n)) ELSE Nil)
  BY DEF handle_zrank
<1> DEFINE rank == SetOf(c)!RankOf(x, n)
           r == IF n \in SetOf(c)!Members THEN Integer(rank) ELSE Nil
<1>3. Shown[k] = c /\ Abstract!Members(k) = SetOf(c)!Members /\ Abstract!Rankings(k) = Rankings(k)
  BY CreatedFinite, SameSet DEF KInv
<1>4. HasRanks(c, x)
  BY RankingsList DEF KInv
<1> HIDE DEF c
<1>5. n \in SetOf(c)!Members => rank \in Int
  BY <1>4 DEF HasRanks
<1>6. r \in S
  OBVIOUS
<1> HIDE DEF rank
<1>7. r \in Responses(Vocabulary)
  BY <1>5, NilSaid, Count
<1>8. S = IF n \in Abstract!Members(k)
          THEN {Abstract!Integer(Abstract!Contents(Shown[k])!RankOf(y, n)) : y \in Abstract!Rankings(k)}
          ELSE {Abstract!NilError}
  BY <1>3, SameRanks, SameResponses
<1>9. Reply(args, r)
  BY <1>2 DEF rank
<1> HIDE DEF r, S
<1>10. Done /\ Abstract!Query(args, S)
  BY <1>1, <1>6, <1>7, <1>9, LookedShown, QueryDone DEF KInv
<1> QED BY <1>8, <1>10 DEF Abstract!Zrank, Shown

\* ZCARD counts the members.
LEMMA ZcardDone ==
  ASSUME KInv, NEW k \in Key, handle_zcard(k)
  PROVE  Done /\ Abstract!Zcard(k)
<1> DEFINE args == <<"ZCARD", k>>
           M == SetOf(Created(k))!Members
           r == Integer(Cardinality(M))
<1>1. Looked(k) /\ Reply(args, r)
  BY DEF handle_zcard
<1>2. IsFiniteSet(M)
  BY CreatedFinite DEF KInv, Finite, SetOf!Members
<1>3. Abstract!Members(k) = M
  BY SameSet DEF KInv
<1> HIDE DEF M
<1>4. r \in Responses(Vocabulary)
  BY <1>2, FS_CardinalityType, Count
<1>5. r = Abstract!Integer(Abstract!Cardinality(Abstract!Members(k)))
  BY <1>3, SameResponses DEF Abstract!Cardinality, Cardinality
<1> HIDE DEF r
<1>6. Done /\ Abstract!Query(args, {r})
  BY <1>1, <1>4, LookedShown, QueryDone DEF KInv
<1> QED BY <1>5, <1>6 DEF Abstract!Zcard

\* ZALL lists them all, in one of the orders.
LEMMA ZallDone ==
  ASSUME KInv, NEW k \in Key, handle_zall(k)
  PROVE  Done /\ Abstract!Zall(k)
<1> DEFINE args == <<"ZALL", k>>
           c == Created(k)
           S == {Abstract!Elements(x, told) : x \in Abstract!Rankings(k), told \in Abstract!Tellings(k)}
<1>1. Looked(k)
  BY DEF handle_zall
<1>2. PICK x \in Rankings(k) : Reply(args, Listed(SetOf(c)!Listed(x)))
  BY DEF handle_zall
<1> DEFINE r == Listed(SetOf(c)!Listed(x))
<1>3. HasRanks(c, x) /\ Finite(c)
  BY RankingsList, CreatedFinite DEF KInv
<1>4. x \in Abstract!Rankings(k) /\ Telling(c) \in Abstract!Tellings(k)
  BY SameSet, TellingShown DEF KInv
<1> HIDE DEF c
<1>5. r \in Responses(Vocabulary) /\ r = Abstract!Elements(x, Telling(c))
  BY <1>3, ListAnswered DEF HasRanks
<1>6. Reply(args, r)
  BY <1>2
<1> HIDE DEF r
<1>7. r \in S
  BY <1>4, <1>5
<1> HIDE DEF S
<1>8. Done /\ Abstract!Query(args, S)
  BY <1>1, <1>5, <1>6, <1>7, LookedShown, QueryDone DEF KInv
<1> QED BY <1>8 DEF Abstract!Zall, S

\* ZRANGE lists those between two positions, or refuses bounds that are no numbers.
LEMMA ZrangeDone ==
  ASSUME KInv, NEW k \in Key, NEW lo \in Rank \cup {NotANumber}, NEW hi \in Rank \cup {NotANumber},
         handle_zrange(k, lo, hi)
  PROVE  Done /\ (Abstract!ZrangeText(k, lo, hi)
                  \/ (lo \in Rank /\ hi \in Rank /\ Abstract!Zrange(k, lo, hi)))
<1> DEFINE args == <<"ZRANGE", k, lo, hi>>
<1>1. CASE NotANumber \in {lo, hi}
  <2> DEFINE r == SimpleString(<<Text("stoi")>>)
  <2>1. r \in Responses(Vocabulary)
    BY Phrase DEF Phrases
  <2>2. Looked(k) /\ Reply(args, r)
    BY <1>1 DEF handle_zrange, make_error_response
  <2>3. Done /\ Abstract!Query(args, {r, Error(<<Text("stoi")>>)})
    BY <2>1, <2>2, LookedShown, QueryDone DEF KInv
  <2>4. Abstract!ZrangeText(k, lo, hi)
    BY <1>1, <2>3, SameResponses DEF Abstract!ZrangeText, Abstract!Refuse
  <2> QED BY <2>3, <2>4
<1>2. CASE NotANumber \notin {lo, hi}
  <2> DEFINE c == Created(k)
             S == {Abstract!Elements(Abstract!Contents(Shown[k])!InRanks(y, lo, hi), told) :
                     y \in Abstract!Rankings(k), told \in Abstract!Tellings(k)}
  <2>1. Looked(k) /\ lo \in Rank /\ hi \in Rank
    BY <1>2 DEF handle_zrange
  <2>2. PICK x \in Rankings(k) : Reply(args, Listed(SetOf(c)!Listed(SetOf(c)!InRanks(x, lo, hi))))
    BY <1>2 DEF handle_zrange
  <2> DEFINE part == SetOf(c)!InRanks(x, lo, hi)
             r == Listed(SetOf(c)!Listed(part))
  <2>3. HasRanks(c, x) /\ Finite(c) /\ Shown[k] = c
    BY RankingsList, CreatedFinite DEF KInv
  <2>4. x \in Abstract!Rankings(k) /\ Telling(c) \in Abstract!Tellings(k)
    BY SameSet, TellingShown DEF KInv
  <2> HIDE DEF c
  <2>5. part \in Seq(SetOf(c)!Members)
    BY <2>1, <2>3, SomeNames DEF HasRanks
  <2>6. Abstract!Contents(Shown[k])!InRanks(x, lo, hi) = part
    BY <2>3, SameRanks
  <2>7. Reply(args, r)
    BY <2>2
  <2> HIDE DEF part
  <2>8. r \in Responses(Vocabulary) /\ r = Abstract!Elements(part, Telling(c))
    BY <2>3, <2>5, ListAnswered
  <2> HIDE DEF r
  <2>9. r \in S
    BY <2>4, <2>6, <2>8
  <2> HIDE DEF S
  <2>10. Done /\ Abstract!Query(args, S)
    BY <2>1, <2>7, <2>8, <2>9, LookedShown, QueryDone DEF KInv
  <2>11. Abstract!Zrange(k, lo, hi)
    BY <2>10 DEF Abstract!Zrange, Shown, S
  <2> QED BY <2>1, <2>10, <2>11
<1> QED BY <1>1, <1>2

-----------------------------------------------------------------------------
(* Requests that reach no command *)

\* A command with too many or too few arguments is refused.
LEMMA WrongArityDone ==
  ASSUME KInv, NEW args \in Malformed, WrongArity(args)
  PROVE  Done /\ Abstract!WrongArity(args)
<1> DEFINE u == Text(args[1])
           v == Text("arity")
           r == SimpleString(<<u, v>>)
<1>1. u \in Words /\ v \in Words
  BY RequestsAssumption, PhraseIsWord DEF Phrases
<1>2. Reply(args, r) /\ UNCHANGED <<strings, zsets, disordered>>
  BY DEF WrongArity, make_error_response
<1>3. r \in Responses(Vocabulary)
  <2> HIDE DEF u, v
  <2>1. <<u, v>> \in Seq(Words)
    BY <1>1
  <2> QED BY <2>1, Simple
<1>4. Done /\ Abstract!Query(args, {r, Error(<<u, v>>)})
  BY <1>2, <1>3, SameNodes, QueryDone DEF KInv
<1> QED BY <1>4, SameResponses DEF Abstract!WrongArity, Abstract!Refuse

\* Two units in a row.
LEMMA Two ==
  ASSUME NEW a, NEW b
  PROVE  <<a>> \o <<b>> = <<a, b>>
<1> DEFINE x == <<a>> \o <<b>>
           y == <<a, b>>
           V == {a, b}
<1>1. y \in Seq(V) /\ Len(y) = 2 /\ y[1] = a /\ y[2] = b
  OBVIOUS
<1>2. x \in Seq(V) /\ Len(x) = 2 /\ x[1] = a /\ x[2] = b
  OBVIOUS
<1> HIDE DEF x, y, V
<1>3. ASSUME NEW i \in 1 .. Len(x) PROVE x[i] = y[i]
  <2>1. i = 1 \/ i = 2
    BY <1>2
  <2> QED BY <1>1, <1>2, <2>1
<1>4. x = y
  BY <1>1, <1>2, <1>3, SeqEqual
<1> QED BY <1>4 DEF x, y

\* A line of two units broken after the second: as it is written, and as it is read.
LineWritten(t, u, n, b, q) == <<t>> \o (<<u>> \o <<n, b, n>> \o <<q>>) \o <<b>>
LineRead(t, u, n, b, q) == (<<t>> \o <<u, n>> \o <<b>>) \o <<n, q, b>>
SameUnits(t, u, n, b, q) == LineWritten(t, u, n, b, q) = LineRead(t, u, n, b, q)

\* They are the same units.
LEMMA Broken ==
  ASSUME NEW t, NEW u, NEW n, NEW b, NEW q
  PROVE  SameUnits(t, u, n, b, q)
<1> DEFINE S == {t, u, n, b, q}
           tt == <<t>>
           uu == <<u>>
           bb == <<b>>
           qq == <<q>>
           nbn == <<n, b, n>>
           un == <<u, n>>
           nqb == <<n, q, b>>
           p == uu \o nbn
           m == p \o qq
           w == tt \o m
           written == w \o bb
           l == tt \o un
           o == l \o bb
           read == o \o nqb
<1>1. LineWritten(t, u, n, b, q) = (tt \o ((uu \o nbn) \o qq)) \o bb
  BY DEF LineWritten
<1>2. LineRead(t, u, n, b, q) = ((tt \o un) \o bb) \o nqb
  BY DEF LineRead
<1>3. /\ tt \in Seq(S) /\ Len(tt) = 1 /\ tt[1] = t
      /\ uu \in Seq(S) /\ Len(uu) = 1 /\ uu[1] = u
      /\ bb \in Seq(S) /\ Len(bb) = 1 /\ bb[1] = b
      /\ qq \in Seq(S) /\ Len(qq) = 1 /\ qq[1] = q
  OBVIOUS
<1>4. /\ nbn \in Seq(S) /\ Len(nbn) = 3 /\ nbn[1] = n /\ nbn[2] = b /\ nbn[3] = n
      /\ nqb \in Seq(S) /\ Len(nqb) = 3 /\ nqb[1] = n /\ nqb[2] = q /\ nqb[3] = b
      /\ un \in Seq(S) /\ Len(un) = 2 /\ un[1] = u /\ un[2] = n
  OBVIOUS
<1> HIDE DEF S, tt, uu, bb, qq, nbn, un, nqb
<1>5. p \in Seq(S) /\ Joined(uu, nbn, p) /\ l \in Seq(S) /\ Joined(tt, un, l)
  BY <1>3, <1>4, Join
<1> HIDE DEF p, l
<1>6. m \in Seq(S) /\ Joined(p, qq, m) /\ o \in Seq(S) /\ Joined(l, bb, o)
  BY <1>3, <1>5, Join
<1> HIDE DEF m, o
<1>7. w \in Seq(S) /\ Joined(tt, m, w) /\ read \in Seq(S) /\ Joined(o, nqb, read)
  BY <1>3, <1>4, <1>6, Join
<1> HIDE DEF w, read
<1>8. written \in Seq(S) /\ Joined(w, bb, written)
  BY <1>3, <1>7, Join
<1> HIDE DEF written
<1>9. Len(p) = 4 /\ p[1] = u /\ p[1 + 1] = n /\ p[1 + 2] = b /\ p[1 + 3] = n
  BY <1>3, <1>4, <1>5 DEF Joined
<1>10. /\ Len(m) = 5 /\ m[1] = u /\ m[2] = n /\ m[3] = b /\ m[4] = n /\ m[4 + 1] = q
  BY <1>3, <1>6, <1>9 DEF Joined
<1>11. /\ Len(w) = 6 /\ w[1] = t /\ w[1 + 1] = u /\ w[1 + 2] = n /\ w[1 + 3] = b
       /\ w[1 + 4] = n /\ w[1 + 5] = q
  BY <1>3, <1>7, <1>10 DEF Joined
<1>12. /\ Len(written) = 7 /\ written[1] = t /\ written[2] = u /\ written[3] = n /\ written[4] = b
       /\ written[5] = n /\ written[6] = q /\ written[6 + 1] = b
  BY <1>3, <1>8, <1>11 DEF Joined
<1>13. Len(l) = 3 /\ l[1] = t /\ l[1 + 1] = u /\ l[1 + 2] = n
  BY <1>3, <1>4, <1>5 DEF Joined
<1>14. Len(o) = 4 /\ o[1] = t /\ o[2] = u /\ o[3] = n /\ o[3 + 1] = b
  BY <1>3, <1>6, <1>13 DEF Joined
<1>15. /\ Len(read) = 7 /\ read[1] = t /\ read[2] = u /\ read[3] = n /\ read[4] = b
       /\ read[4 + 1] = n /\ read[4 + 2] = q /\ read[4 + 3] = b
  BY <1>4, <1>7, <1>14 DEF Joined
<1>16. ASSUME NEW i \in 1 .. Len(written) PROVE written[i] = read[i]
  <2>1. i = 1 \/ i = 2 \/ i = 3 \/ i = 4 \/ i = 5 \/ i = 6 \/ i = 7
    BY <1>12
  <2> QED BY <1>12, <1>15, <2>1
<1>17. written = read
  BY <1>7, <1>8, <1>12, <1>15, <1>16, SeqEqual
<1> QED BY <1>1, <1>2, <1>17 DEF SameUnits, written, read, w, m, p, o, l

\* A name that is no command is refused; one of two lines cuts the response that refuses it.
LEMMA UnknownDone ==
  ASSUME KInv, NEW name \in Unknown, UnknownCommand(<<name>>)
  PROVE  Done /\ Abstract!UnknownCommand(name)
<1> DEFINE u == Text("unknown")
           n == Text(name)
           q == Text("'")
           args == <<name>>
           text == <<u>> \o (IF name \in TwoLines THEN <<n, CRLF, n>> ELSE <<n>>) \o <<q>>
<1>1. u \in Words /\ n \in Words /\ q \in Words
  BY PhraseIsWord DEF Phrases
<1>2. Reply(args, SimpleString(text)) /\ UNCHANGED <<strings, zsets, disordered>>
  BY DEF UnknownCommand, make_error_response
<1> HIDE DEF u, n, q
<1>3. Nodes' /\ Shown' = Shown /\ UNCHANGED <<strings, disordered>>
  BY <1>2, SameNodes DEF KInv
<1>4. CASE name \notin TwoLines
  <2> DEFINE line == <<u, n, q>>
  <2>1. text = line /\ text = <<u, n>> \o <<q>>
    BY <1>4, Two, Three
  <2>2. line \in Seq(Words)
    BY <1>1
  <2> HIDE DEF line, text
  <2>3. SimpleString(text) \in Responses(Vocabulary)
    BY <2>1, <2>2, Simple
  <2>4. Done /\ Abstract!Query(args, {SimpleString(text), Error(text)})
    BY <1>2, <1>3, <2>3, QueryDone
  <2> QED BY <1>4, <2>1, <2>4, SameResponses DEF Abstract!UnknownCommand, Abstract!Refuse, u, n, q
<1>5. CASE name \in TwoLines
  <2> DEFINE line == <<u, n>>
             rest == <<n, q, CRLF>>
             data == Opening("+", line) \o rest
  <2>1. serialize(SimpleString(text)) = data
    <3>1. text = <<u>> \o <<n, CRLF, n>> \o <<q>>
      BY <1>5
    <3> HIDE DEF text
    <3>2. serialize(SimpleString(text)) = <<Type("+")>> \o text \o <<CRLF>>
      BY DEF serialize, SerializeScalar, SimpleString
    <3>3. <<Type("+")>> \o (<<u>> \o <<n, CRLF, n>> \o <<q>>) \o <<CRLF>>
            = (<<Type("+")>> \o <<u, n>> \o <<CRLF>>) \o <<n, q, CRLF>>
      <4> DEFINE t == Type("+")
                 b == CRLF
      <4> HIDE DEF t, b
      <4>1. SameUnits(t, u, n, b, q)
        BY Broken
      <4> QED BY <4>1 DEF SameUnits, LineWritten, LineRead, t, b
    <3> QED BY <3>1, <3>2, <3>3 DEF Opening
  <2>2. line \in Lines(Vocabulary)
    <3>1. line \in Seq(Words)
      BY <1>1
    <3> HIDE DEF line
    <3> QED BY <3>1, WordsInLine
  <2>3. CRLF \in Vocabulary /\ Type("+") \in Vocabulary
    BY VocabularyIsAlphabet DEF Alphabet, Types
  <2>4. rest \in Seq(Vocabulary)
    BY <1>1, <2>3 DEF Words
  <2> HIDE DEF line, rest, text
  <2>5. Read(data, "+", line, rest)
    BY <2>2, <2>3, <2>4, OpeningRead
  <2> HIDE DEF data
  <2>6. parse(data) = Parsed(SimpleString(line), rest)
    <3>1. /\ data # << >> /\ data[1] = Type("+") /\ HasLine(Tail(data))
          /\ Line(Tail(data)) = line /\ AfterLine(Tail(data)) = rest
      BY <2>5 DEF Read
    <3>2. data[1][1] = "type" /\ data[1][2] = "+"
      BY <3>1 DEF Type
    <3>3. data[1] # Type("*")
      BY <3>1, TypesDiffer
    <3>4. parse(data) = ParseScalar(data)
      BY <3>3 DEF parse
    <3>5. ParseScalar(data) = ParseLine("+", line, rest)
      BY <3>1, <3>2 DEF ParseScalar
    <3> QED BY <3>4, <3>5 DEF ParseLine
  <2>7. /\ request' = args /\ answer' = Parsed(SimpleString(line), rest)
        /\ undefined' \in BOOLEAN
    <3>1. request' = args /\ answer' = parse(serialize(SimpleString(text))) /\ undefined' = undefined
      BY <1>2 DEF Reply
    <3> QED BY <2>1, <2>6, <3>1 DEF KInv
  <2>8. Done
    <3>1. request'[1] \in TwoLines
      BY <1>5, <2>7
    <3> QED BY <1>3, <2>7, <3>1 DEF Done, KInv, OneResponse
  <2>9. Abstract!Query(args, {SimpleString(line), Error(line)})
    <3>1. answer'.outcome = "parsed" /\ answer'.response = SimpleString(line)
      BY <2>7 DEF Parsed
    <3>2. Abstract!Answers(args, {SimpleString(line), Error(line)})
      BY <2>7, <3>1 DEF Abstract!Answers
    <3> QED BY <1>3, <3>2 DEF Abstract!Query, Shown
  <2>10. line = <<u, n>> \o << >>
    BY DEF line
  <2> QED BY <1>5, <2>8, <2>9, <2>10, SameResponses DEF Abstract!UnknownCommand, Abstract!Refuse, u, n
<1> QED BY <1>4, <1>5

\* A string command takes the node of a set for its own.
LEMMA MisreadDone ==
  ASSUME KInv, NEW args, Misread(args)
  PROVE  Done /\ undefined'
<1>1. Nodes'
  BY SameNodes DEF Misread, KInv
<1>2. undefined' = TRUE /\ reply' = << >>
  BY DEF Misread
<1> QED BY <1>1, <1>2 DEF Done, KInv, OneResponse

-----------------------------------------------------------------------------
(* Every step *)

\* Every step keeps the invariant and is a step of Store, up to the first misread node.
LEMMA StepDone ==
  ASSUME KInv, Next
  PROVE  Done /\ (undefined' \/ Abstract!Next)
<1>1. ASSUME NEW k \in Key, handle_get(k) PROVE Done /\ Abstract!Next
  BY <1>1, GetDone DEF Abstract!Next
<1>2. ASSUME NEW k \in Key, handle_del(k) PROVE Done /\ Abstract!Next
  BY <1>2, DelDone DEF Abstract!Next
<1>3. ASSUME NEW k \in Key, handle_zdel(k) PROVE Done /\ Abstract!Next
  BY <1>3, ZdelDone DEF Abstract!Next
<1>4. ASSUME NEW k \in Key, handle_zcard(k) PROVE Done /\ Abstract!Next
  BY <1>4, ZcardDone DEF Abstract!Next
<1>5. ASSUME NEW k \in Key, handle_zall(k) PROVE Done /\ Abstract!Next
  BY <1>5, ZallDone DEF Abstract!Next
<1>6. ASSUME NEW k \in Key, NEW v \in Value, handle_set(k, v) PROVE Done /\ Abstract!Next
  BY <1>6, SetDone DEF Abstract!Next
<1>7. ASSUME NEW k \in Key, NEW n \in Name, handle_zrem(k, n) PROVE Done /\ Abstract!Next
  BY <1>7, ZremDone DEF Abstract!Next
<1>8. ASSUME NEW k \in Key, NEW n \in Name, handle_zscore(k, n) PROVE Done /\ Abstract!Next
  BY <1>8, ZscoreDone DEF Abstract!Next
<1>9. ASSUME NEW k \in Key, NEW n \in Name, handle_zrank(k, n) PROVE Done /\ Abstract!Next
  BY <1>9, ZrankDone DEF Abstract!Next
<1>10. ASSUME NEW k \in Key, NEW n \in Name, NEW s \in Score \cup {NotANumber}, handle_zadd(k, s, n)
       PROVE  Done /\ Abstract!Next
  <2>1. Done /\ (Abstract!ZaddText(k, n) \/ (s \in Score /\ Abstract!Zadd(k, s, n)))
    BY <1>10, ZaddDone
  <2> QED BY <2>1 DEF Abstract!Next
<1>11. ASSUME NEW k \in Key, NEW lo \in Rank \cup {NotANumber}, NEW hi \in Rank \cup {NotANumber},
              handle_zrange(k, lo, hi)
       PROVE  Done /\ Abstract!Next
  <2>1. Done /\ (Abstract!ZrangeText(k, lo, hi)
                  \/ (lo \in Rank /\ hi \in Rank /\ Abstract!Zrange(k, lo, hi)))
    BY <1>11, ZrangeDone
  <2> QED BY <2>1 DEF Abstract!Next
<1>12. ASSUME NEW args \in Malformed, WrongArity(args) PROVE Done /\ Abstract!Next
  BY <1>12, WrongArityDone DEF Abstract!Next
<1>13. ASSUME NEW name \in Unknown, UnknownCommand(<<name>>) PROVE Done /\ Abstract!Next
  BY <1>13, UnknownDone DEF Abstract!Next
<1>14. ASSUME NEW args, Misread(args) PROVE Done /\ undefined'
  BY <1>14, MisreadDone
<1> QED
  BY <1>1, <1>2, <1>3, <1>4, <1>5, <1>6, <1>7, <1>8, <1>9, <1>10, <1>11, <1>12, <1>13, <1>14
  DEF Next

\* The inductive invariant and the property of the answers.
LEMMA InitDone == Init => KInv /\ OneResponse /\ Abstract!Init
<1> SUFFICES ASSUME Init PROVE KInv /\ OneResponse /\ Abstract!Init
  OBVIOUS
<1>1. /\ strings = [k \in Key |-> NoString] /\ zsets = [k \in Key |-> NoSet]
      /\ disordered = {}
      /\ request = << >> /\ reply = << >> /\ answer = parse(<< >>) /\ undefined = FALSE
  BY DEF Init
<1>2. KInv /\ OneResponse
  BY <1>1 DEF KInv, Nodes, OneResponse
<1>3. answer.outcome # "parsed"
  <2>1. answer = Incomplete
    BY <1>1 DEF parse, ParseScalar
  <2> QED BY <2>1 DEF Incomplete
<1> QED BY <1>1, <1>2, <1>3 DEF Abstract!Init, NewSet

\* Every step keeps them.
LEMMA InvInductive == ASSUME KInv, OneResponse, [Next]_vars PROVE KInv' /\ OneResponse'
<1>1. CASE Next
  BY <1>1, StepDone DEF Done
<1>2. CASE UNCHANGED vars
  <2>1. Nodes'
    BY <1>2, SameNodes DEF vars, KInv
  <2> QED BY <1>2, <2>1 DEF vars, KInv, OneResponse
<1> QED BY <1>1, <1>2

\* So they hold always.
LEMMA Invariant == Spec => [](KInv /\ OneResponse)
BY InitDone, InvInductive, PTL DEF Spec

\* Strings and sets keep their types under every key (globals.h), for any keys, values,
\* names, scores and requests.
THEOREM KeyspaceTypeOK == Spec => []TypeOK
<1>1. ASSUME KInv PROVE TypeOK
  BY <1>1 DEF KInv, Nodes, TypeOK
<1> QED BY <1>1, Invariant, PTL

\* The client reads the whole of every reply as one response and no part of it as one
\* (serializer.cpp, deserializer.cpp), whatever the reply lists and whatever text it
\* carries - but for names of unknown commands that break the line.
THEOREM EveryReplyIsOneResponse == Spec => []OneResponse
BY Invariant, PTL

\* Every command does to the strings and the sets what Store says and gives the client the
\* answer of Store, up to the first string command that misreads the node of a set: the
\* dispatcher implements Store, for any keys, values, names, scores and requests.
THEOREM ImplementsStore == Spec => Refines
<1>1. ASSUME KInv, [Next]_vars PROVE [undefined' \/ Abstract!Next]_(Abstract!vars)
  <2>1. CASE Next
    BY <1>1, <2>1, StepDone
  <2>2. CASE UNCHANGED vars
    BY <2>2 DEF vars, Abstract!vars, NewSet
  <2> QED BY <1>1, <2>1, <2>2
<1>2. Init => Abstract!Init
  BY InitDone
<1> QED BY <1>1, <1>2, Invariant, PTL DEF Spec, Refines
=============================================================================
