-------------------------- MODULE ConnectionProofs --------------------------
(***************************************************************************)
(* For every client, every set of requests and every size of the socket's  *)
(* streams: the flags of a Conntion fit its buffers, answers come back in  *)
(* the order of execution, and every variable keeps its type.  As long as  *)
(* the client waits for each answer and takes it, the connection is the    *)
(* Service.                                                                *)
(*                                                                         *)
(*   sequences   cutting them, and FlattenSeq                              *)
(*   IInv        the flags, and what the answers' stream holds             *)
(*   Conveyed    the answers on their way, against those executed          *)
(*   RoundTrip   the parser reads what the client serialises               *)
(*   Serving     whose turn it is, and what is on its way then             *)
(*   Framed      what is on its way to the server, for every client        *)
(***************************************************************************)
EXTENDS Connection, DataLemmas

\* The flags between two turns of the loop, and before handle_write.
Settled ==
  /\ is_read = (write_buffer = << >>)
  /\ write_buffer # << >> => is_write
  /\ executed # << >> => is_write = ~is_read

\* The flags during handle_read: it runs only while is_read is set, and a request
\* executed in this turn has left its answer in the buffer.
Reading ==
  /\ is_read = TRUE
  /\ pc = "read" => write_buffer = << >>
  /\ executed # << >> => write_buffer # << >> \/ is_write = FALSE

FlagsOK ==
  /\ is_write \in BOOLEAN
  /\ pc \in {"poll", "read", "try", "reply", "write"}
  /\ pc \in {"poll", "write"} => Settled
  /\ pc \in {"read", "try", "reply"} => Reading

\* The way of the answers: data, of which the stream holds what it can.
AnswersOK ==
  /\ \E S : write_buffer \in Seq(S) /\ down \in Seq(S)
  /\ Len(down) <= SocketSize

IInv == FlagsOK /\ AnswersOK
-----------------------------------------------------------------------------
\* write puts no more into the stream than there is room for, and writes nothing
\* when there is nothing to write.
LEMMA WriteKeeps ==
  ASSUME AnswersOK, write
  PROVE  /\ AnswersOK'
         /\ write_buffer = << >> => write_buffer' = << >>
<1> DEFINE n == Least(Len(write_buffer), SocketSize - Len(down))
<1>1. PICK S : write_buffer \in Seq(S) /\ down \in Seq(S)
  BY DEF AnswersOK
<1>2. /\ Len(write_buffer) \in Nat /\ Len(down) \in Nat
      /\ Len(down) <= SocketSize /\ SocketSize \in Nat
  BY <1>1, LenProperties, SizeAssumption DEF AnswersOK
<1>3. n \in 0 .. Len(write_buffer) /\ n <= SocketSize - Len(down)
  BY <1>2 DEF Least
<1>4. down' = down \o Take(write_buffer, n) /\ write_buffer' = Drop(write_buffer, n)
  BY DEF write
<1> HIDE DEF n
<1>5. /\ Take(write_buffer, n) \in Seq(S) /\ Len(Take(write_buffer, n)) = n
      /\ write_buffer' \in Seq(S) /\ Len(write_buffer') = Len(write_buffer) - n
  BY <1>1, <1>3, <1>4, PartLengths
<1>6. down' \in Seq(S) /\ Len(down') = Len(down) + n
  BY <1>1, <1>4, <1>5, ConcatProperties
<1>7. AnswersOK'
  BY <1>2, <1>3, <1>5, <1>6 DEF AnswersOK
<1>8. ASSUME write_buffer = << >> PROVE write_buffer' = << >>
  <2>1. Len(write_buffer) = 0
    BY <1>8
  <2>2. n = 0
    BY <2>1, <1>3
  <2>3. Len(write_buffer') = Len(write_buffer) - n
    BY <1>5
  <2>4. Len(write_buffer') = 0
    BY <2>1, <2>2, <2>3
  <2> QED BY <1>5, <2>4, EmptySeq
<1> QED BY <1>7, <1>8

-----------------------------------------------------------------------------
\* A connection that has just been accepted; is_write has any value.
LEMMA InitHolds == Init => IInv
<1> SUFFICES ASSUME Init PROVE IInv
  OBVIOUS
<1>1. FlagsOK
  BY DEF Init, FlagsOK, Settled, Reading
<1>2. write_buffer \in Seq({}) /\ down \in Seq({}) /\ Len(down) = 0
  BY DEF Init
<1>3. AnswersOK
  BY <1>2, SizeAssumption DEF AnswersOK
<1> QED BY <1>1, <1>3 DEF IInv

\* The client takes data out of the stream and changes nothing of the connection.
LEMMA ClientStep ==
  ASSUME IInv, (\E cmd \in Request : Send(cmd)) \/ ClientWrite \/ ClientRead
  PROVE  IInv'
<1>1. UNCHANGED <<write_buffer, is_read, is_write, pc, executed>>
  BY DEF Send, ClientWrite, ClientRead, ReadLength, ReadAnswer
<1>2. FlagsOK'
  BY <1>1 DEF IInv, FlagsOK, Settled, Reading
<1>3. CASE UNCHANGED down
  BY <1>1, <1>2, <1>3 DEF IInv, AnswersOK
<1>4. CASE UNCHANGED <<write_buffer>> /\ \E n \in 1 .. Len(down) : down' = Drop(down, n)
  <2>1. PICK n \in 1 .. Len(down) : down' = Drop(down, n)
    BY <1>4
  <2>2. PICK S : write_buffer \in Seq(S) /\ down \in Seq(S)
    BY DEF IInv, AnswersOK
  <2>3. Len(down) \in Nat /\ Len(down) <= SocketSize /\ SocketSize \in Nat
    BY <2>2, LenProperties, SizeAssumption DEF IInv, AnswersOK
  <2>4. n \in 0 .. Len(down)
    BY <2>3
  <2>5. down' \in Seq(S) /\ Len(down') = Len(down) - n
    BY <2>1, <2>2, <2>4, PartLengths
  <2>6. Len(down') <= SocketSize
    BY <2>3, <2>4, <2>5
  <2>7. AnswersOK'
    BY <1>4, <2>2, <2>5, <2>6 DEF AnswersOK
  <2> QED BY <1>2, <2>7 DEF IInv
<1>5. CASE ReadLength
  <2>1. PICK S : write_buffer \in Seq(S) /\ down \in Seq(S)
    BY DEF IInv, AnswersOK
  <2>2. down # << >> /\ down' = Tail(down)
    BY <1>5 DEF ReadLength
  <2>3. Len(down) \in Nat /\ Len(down) # 0
    BY <2>1, <2>2, LenProperties, EmptySeq
  <2>4. Tail(down) = Drop(down, 1)
    BY <2>1, <2>2 DEF Drop
  <2> QED BY <1>1, <1>4, <2>2, <2>3, <2>4
<1>6. CASE ReadAnswer
  BY <1>1, <1>4, <1>6 DEF ReadAnswer
<1> QED BY <1>3, <1>5, <1>6 DEF Send, ClientWrite, ClientRead

\* Steps of the server that touch neither the answers nor the flags.
LEMMA QuietStep ==
  ASSUME IInv, Poll \/ handle_read \/ LeaveLoop
  PROVE  IInv'
<1>1. UNCHANGED <<write_buffer, down, is_read, is_write, executed>>
  BY DEF Poll, handle_read, LeaveLoop, client
<1>2. AnswersOK'
  BY <1>1 DEF IInv, AnswersOK
<1>3. CASE Poll
  <2>1. Settled /\ is_write \in BOOLEAN
    BY <1>3 DEF Poll, IInv, FlagsOK
  <2>2. pc' \in {"read", "write"} /\ (pc' = "read" => is_read)
    BY <1>3 DEF Poll
  <2>3. CASE pc' = "write"
    BY <1>1, <1>2, <2>1, <2>3 DEF IInv, FlagsOK, Settled
  <2>4. CASE pc' = "read"
    <3>1. is_read = TRUE /\ write_buffer = << >>
      BY <2>1, <2>2, <2>4, Zenon DEF Settled
    <3>2. executed # << >> => is_write = FALSE
      BY <2>1, <3>1 DEF Settled
    <3>3. Reading'
      BY <1>1, <3>1, <3>2 DEF Reading
    <3> QED BY <1>1, <1>2, <2>1, <2>4, <3>3 DEF IInv, FlagsOK
  <2> QED BY <2>2, <2>3, <2>4
<1>4. CASE handle_read
  BY <1>1, <1>2, <1>4 DEF handle_read, IInv, FlagsOK, Reading
<1>5. CASE LeaveLoop
  BY <1>1, <1>2, <1>5 DEF LeaveLoop, IInv, FlagsOK, Reading
<1> QED BY <1>3, <1>4, <1>5

\* An executed request leaves its answer in the write buffer.
LEMMA ExecuteStep ==
  ASSUME IInv, ExecuteRequest
  PROVE  IInv'
<1> DEFINE args == parser_req(request_data).args
           answer == Frame(Response(args))
<1>1. /\ write_buffer' = write_buffer \o answer
      /\ UNCHANGED <<down, is_read, is_write, pc>>
      /\ pc = "try"
  BY DEF ExecuteRequest
<1>2. PICK S : write_buffer \in Seq(S) /\ down \in Seq(S)
  BY DEF IInv, AnswersOK
<1>3. PICK T : Nat \subseteq T /\ Response(args) \in Seq(T)
  <2> DEFINE text == IF args \in Request THEN Last(Last(args)) ELSE NoText
             len == IF args \in Listing THEN LongLen ELSE ReplyLen
  <2>1. len \in Nat
    BY SizeAssumption
  <2>2. Response(args) = [i \in 1 .. len |-> text]
    BY DEF Response
  <2> HIDE DEF len, text
  <2>3. Response(args) \in Seq({text} \cup Nat)
    BY <2>1, <2>2
  <2> QED BY <2>3
<1>4. answer \in Seq(T) /\ Len(answer) > 0
  <2>1. Len(Response(args)) \in Nat
    BY <1>3, LenProperties
  <2>2. <<Len(Response(args))>> \in Seq(T) /\ Len(<<Len(Response(args))>>) = 1
    BY <1>3, <2>1
  <2> QED BY <1>3, <2>1, <2>2, ConcatProperties DEF Frame
<1> HIDE DEF answer
<1>5. /\ write_buffer \in Seq(S \cup T) /\ down \in Seq(S \cup T)
      /\ answer \in Seq(S \cup T)
  BY <1>2, <1>4, CommonSet
<1>6. write_buffer' \in Seq(S \cup T) /\ Len(write_buffer') = Len(write_buffer) + Len(answer)
  BY <1>1, <1>5, ConcatProperties
<1>7. write_buffer' # << >>
  <2>1. Len(write_buffer) \in Nat /\ Len(answer) \in Nat
    BY <1>5, LenProperties
  <2> QED BY <1>4, <1>6, <2>1
<1>8. AnswersOK'
  BY <1>1, <1>5, <1>6 DEF IInv, AnswersOK
<1>9. FlagsOK'
  BY <1>1, <1>7 DEF IInv, FlagsOK, Reading
<1> QED BY <1>8, <1>9 DEF IInv

\* The flags follow what is left in the write buffer.
LEMMA ReplyStep ==
  ASSUME IInv, Reply
  PROVE  IInv'
<1>1. /\ pc = "reply" /\ Reading
      /\ pc' \in {"poll", "write"}
      /\ UNCHANGED executed
  BY DEF Reply, IInv, FlagsOK
<1>2. CASE write_buffer = << >>
  <2>1. UNCHANGED <<down, write_buffer, is_read, is_write>>
    BY <1>2 DEF Reply
  <2>2. AnswersOK'
    BY <2>1 DEF IInv, AnswersOK
  <2> QED BY <1>1, <1>2, <2>1, <2>2 DEF IInv, FlagsOK, Settled, Reading
<1>3. CASE write_buffer # << >>
  <2>1. /\ write
        /\ is_read' = (write_buffer' = << >>)
        /\ is_write' = (write_buffer' # << >>)
    BY <1>3 DEF Reply
  <2>2. AnswersOK'
    BY <2>1, WriteKeeps DEF IInv
  <2> QED BY <1>1, <2>1, <2>2, Zenon DEF IInv, FlagsOK, Settled
<1> QED BY <1>2, <1>3

\* The flags turn back when the last byte is written, and are left alone when there
\* was none.
LEMMA WriteStep ==
  ASSUME IInv, handle_write
  PROVE  IInv'
<1>1. /\ write /\ Settled /\ pc' = "poll" /\ UNCHANGED executed
      /\ is_write \in BOOLEAN
  BY DEF handle_write, IInv, FlagsOK
<1>2. AnswersOK' /\ (write_buffer = << >> => write_buffer' = << >>)
  BY <1>1, WriteKeeps DEF IInv
<1>3. CASE write_buffer # << >> /\ write_buffer' = << >>
  <2>1. is_read' = TRUE /\ is_write' = FALSE
    BY <1>3 DEF handle_write
  <2> QED BY <1>1, <1>2, <1>3, <2>1 DEF IInv, FlagsOK, Settled
<1>4. CASE ~(write_buffer # << >> /\ write_buffer' = << >>)
  <2>1. UNCHANGED <<is_read, is_write>>
    BY <1>4 DEF handle_write
  <2> QED BY <1>1, <1>2, <1>4, <2>1 DEF IInv, FlagsOK, Settled
<1> QED BY <1>3, <1>4

\* Every step keeps the invariant.
LEMMA NextHolds == IInv /\ [Next]_vars => IInv'
<1> SUFFICES ASSUME IInv, [Next]_vars PROVE IInv'
  OBVIOUS
<1>1. CASE (\E cmd \in Request : Send(cmd)) \/ ClientWrite \/ ClientRead
  BY <1>1, ClientStep
<1>2. CASE Poll \/ handle_read \/ LeaveLoop
  BY <1>2, QuietStep
<1>3. CASE ExecuteRequest
  BY <1>3, ExecuteStep
<1>4. CASE Reply
  BY <1>4, ReplyStep
<1>5. CASE handle_write
  BY <1>5, WriteStep
<1>6. CASE UNCHANGED vars
  BY <1>6 DEF vars, client, IInv, FlagsOK, AnswersOK, Settled, Reading
<1> QED BY <1>1, <1>2, <1>3, <1>4, <1>5, <1>6 DEF Next, Server

\* A connection asks poll for what its buffers need, and reads no request while an
\* answer is unsent, whatever the uninitialised is_write was and however the
\* streams cut the data (handle_read, handle_write).
THEOREM FlagsFit == Spec => []FlagsFitBuffers
<1>1. IInv => FlagsFitBuffers
  BY DEF IInv, FlagsOK, Settled, Reading, FlagsFitBuffers
<1>2. Spec => []IInv
  BY InitHolds, NextHolds, PTL DEF Spec
<1> QED BY <1>1, <1>2, PTL

-----------------------------------------------------------------------------
(* How much the client has read *)

\* What read_res returns: a text, or that it was too long.
Text == Seq(Unit) \cup {TooLong}

\* f[i] is what the first i answers have taken, up to k.
Counts(answers, k, f) ==
  /\ f \in [0 .. k -> Nat]
  /\ f[0] = 0
  /\ \A i \in 1 .. k : f[i] = f[i - 1] + 1 + (IF answers[i] = TooLong THEN 0 ELSE Len(answers[i]))

\* Taken computes that.
LEMMA TakenIs ==
  ASSUME NEW answers, Len(answers) \in Nat, NEW f, Counts(answers, Len(answers), f)
  PROVE  Taken(answers) = f[Len(answers)]
<1> DEFINE n == Len(answers)
           Size(i) == IF answers[i] = TooLong THEN 0 ELSE Len(answers[i])
           taken[i \in 0 .. Len(answers)] ==
             IF i = 0 THEN 0
             ELSE taken[i - 1] + 1 + (IF answers[i] = TooLong THEN 0 ELSE Len(answers[i]))
<1>1. /\ f \in [0 .. n -> Nat] /\ f[0] = 0
      /\ \A i \in 1 .. n : f[i] = f[i - 1] + 1 + Size(i)
  BY DEF Counts
<1>2. Taken(answers) = taken[Len(answers)]
  BY DEF Taken
<1>3. taken = [i \in 0 .. Len(answers) |->
                IF i = 0 THEN 0
                ELSE taken[i - 1] + 1 + (IF answers[i] = TooLong THEN 0 ELSE Len(answers[i]))]
  <2>1. f = [i \in 0 .. n |-> IF i = 0 THEN 0 ELSE f[i - 1] + 1 + Size(i)]
    <3> HIDE DEF Size, n
    <3>1. ASSUME NEW i \in 0 .. n PROVE f[i] = IF i = 0 THEN 0 ELSE f[i - 1] + 1 + Size(i)
      <4>1. i = 0 \/ i \in 1 .. n
        OBVIOUS
      <4> QED BY <1>1, <4>1
    <3> QED BY <1>1, <3>1
  <2> QED BY <2>1
<1>4. \A i \in 0 .. n : taken[i] = IF i = 0 THEN 0 ELSE taken[i - 1] + 1 + Size(i)
  <2> HIDE DEF taken
  <2> QED BY <1>3
<1> HIDE DEF taken, Size
<1> DEFINE T == {k \in Nat : k <= n => taken[k] = f[k]}
<1>5. 0 \in T
  BY <1>1, <1>4
<1>6. ASSUME NEW k \in Nat, k \in T PROVE k + 1 \in T
  <2> SUFFICES ASSUME k + 1 <= n PROVE taken[k + 1] = f[k + 1]
    OBVIOUS
  <2> DEFINE j == k + 1
  <2>1. j \in 1 .. n /\ j \in 0 .. n /\ j # 0 /\ j - 1 = k /\ k <= n
    OBVIOUS
  <2> HIDE DEF j
  <2>2. f[j] = f[k] + 1 + Size(j) /\ taken[j] = taken[k] + 1 + Size(j)
    BY <1>1, <1>4, <2>1
  <2>3. taken[k] = f[k]
    BY <1>6, <2>1
  <2>4. taken[j] = f[j]
    BY <2>2, <2>3
  <2> QED BY <2>4 DEF j
<1> HIDE DEF T
<1>7. n \in T
  BY <1>5, <1>6, Induction
<1>8. n <= n
  OBVIOUS
<1> QED BY <1>2, <1>7, <1>8 DEF T

Counted(answers, k, f, g) ==
  /\ Counts(answers, k + 1, g)
  /\ g[k + 1] = f[k] + 1 + (IF answers[k + 1] = TooLong THEN 0 ELSE Len(answers[k + 1]))

\* One more answer.
LEMMA CountsOn ==
  ASSUME NEW answers, NEW k \in Nat, NEW f, Counts(answers, k, f), answers[k + 1] \in Text
  PROVE  \E g : Counted(answers, k, f, g)
<1> DEFINE Size(i) == IF answers[i] = TooLong THEN 0 ELSE Len(answers[i])
           last == f[k] + 1 + Size(k + 1)
           g == [i \in 0 .. k + 1 |-> IF i = k + 1 THEN last ELSE f[i]]
<1>1. /\ f \in [0 .. k -> Nat] /\ f[0] = 0
      /\ \A i \in 1 .. k : f[i] = f[i - 1] + 1 + Size(i)
  BY DEF Counts
<1>2. last \in Nat
  <2>1. Size(k + 1) \in Nat
    <3>1. CASE answers[k + 1] = TooLong
      BY <3>1
    <3>2. CASE answers[k + 1] # TooLong
      <4>1. answers[k + 1] \in Seq(Unit)
        BY <3>2 DEF Text
      <4>2. Len(answers[k + 1]) \in Nat
        BY <4>1, LenProperties
      <4> QED BY <3>2, <4>2
    <3> QED BY <3>1, <3>2
  <2>2. f[k] \in Nat
    BY <1>1
  <2> HIDE DEF Size
  <2> QED BY <2>1, <2>2
<1>3. /\ Counts(answers, k + 1, g) <=>
           /\ g \in [0 .. k + 1 -> Nat]
           /\ g[0] = 0
           /\ \A i \in 1 .. k + 1 : g[i] = g[i - 1] + 1 + Size(i)
      /\ Counted(answers, k, f, g) <=>
           Counts(answers, k + 1, g) /\ g[k + 1] = f[k] + 1 + Size(k + 1)
  <2> HIDE DEF g
  <2> QED BY DEF Counts, Counted
<1> HIDE DEF Size
<1>4. last = f[k] + 1 + Size(k + 1)
  OBVIOUS
<1> HIDE DEF last
<1>5. g \in [0 .. k + 1 -> Nat] /\ g[0] = 0
  BY <1>1, <1>2
<1>6. \A i \in 0 .. k : g[i] = f[i]
  OBVIOUS
<1>7. g[k + 1] = last
  <2>1. k + 1 \in 0 .. k + 1
    OBVIOUS
  <2> QED BY <2>1
<1> HIDE DEF g
<1>8. ASSUME NEW i \in 1 .. k + 1 PROVE g[i] = g[i - 1] + 1 + Size(i)
  <2>1. i - 1 \in 0 .. k
    OBVIOUS
  <2>2. g[i - 1] = f[i - 1]
    BY <1>6, <2>1
  <2>3. CASE i = k + 1
    <3>1. i - 1 = k
      BY <2>3
    <3> QED BY <1>4, <1>7, <2>2, <2>3, <3>1
  <2>4. CASE i # k + 1
    <3>1. i \in 1 .. k /\ i \in 0 .. k
      BY <2>4
    <3>2. g[i] = f[i] /\ f[i] = f[i - 1] + 1 + Size(i)
      BY <1>1, <1>6, <3>1
    <3> QED BY <2>2, <3>2
  <2> QED BY <2>3, <2>4
<1>9. Counted(answers, k, f, g)
  BY <1>3, <1>4, <1>5, <1>7, <1>8
<1> QED BY <1>9

\* There is such a count for every sequence of answers.
LEMMA CountsExists ==
  ASSUME NEW answers \in Seq(Text)
  PROVE  \E f : Counts(answers, Len(answers), f)
<1> DEFINE n == Len(answers)
           T == {k \in Nat : k <= n => \E f : Counts(answers, k, f)}
<1>1. n \in Nat /\ \A i \in 1 .. n : answers[i] \in Text
  BY LenProperties
<1>2. 0 \in T
  <2> DEFINE f == [i \in 0 .. 0 |-> 0]
  <2>1. f \in [0 .. 0 -> Nat] /\ f[0] = 0 /\ 1 .. 0 = {}
    OBVIOUS
  <2> HIDE DEF f
  <2>2. Counts(answers, 0, f)
    BY <2>1 DEF Counts
  <2> QED BY <2>2
<1>3. ASSUME NEW k \in Nat, k \in T PROVE k + 1 \in T
  <2> SUFFICES ASSUME k + 1 <= n PROVE \E g : Counts(answers, k + 1, g)
    OBVIOUS
  <2>1. k <= n /\ k + 1 \in 1 .. n
    BY <1>1
  <2>2. PICK f : Counts(answers, k, f)
    BY <1>3, <2>1
  <2>3. answers[k + 1] \in Text
    BY <1>1, <2>1
  <2>4. \E g : Counted(answers, k, f, g)
    BY <2>2, <2>3, CountsOn
  <2> QED BY <2>4 DEF Counted
<1> HIDE DEF T
<1>4. n \in T
  BY <1>1, <1>2, <1>3, Induction
<1>5. n <= n
  BY <1>1
<1> QED BY <1>4, <1>5 DEF T

\* So Taken is a number,
LEMMA TakenType ==
  ASSUME NEW answers \in Seq(Text)
  PROVE  Taken(answers) \in Nat
<1>1. Len(answers) \in Nat
  BY LenProperties
<1>2. PICK f : Counts(answers, Len(answers), f)
  BY CountsExists
<1>3. f[Len(answers)] \in Nat
  BY <1>1, <1>2 DEF Counts
<1> QED BY <1>1, <1>2, <1>3, TakenIs

\* nothing for no answers.
LEMMA TakenEmpty == Taken(<< >>) = 0
<1> DEFINE f == [i \in 0 .. 0 |-> 0]
<1>1. f \in [0 .. 0 -> Nat] /\ f[0] = 0 /\ 1 .. 0 = {} /\ Len(<< >>) = 0
  OBVIOUS
<1> HIDE DEF f
<1>2. Counts(<< >>, Len(<< >>), f)
  BY <1>1 DEF Counts
<1> QED BY <1>1, <1>2, TakenIs

\* An answer takes its length and its text, or its length only.
LEMMA TakenAppend ==
  ASSUME NEW answers \in Seq(Text), NEW r \in Text
  PROVE  Taken(Append(answers, r)) = Taken(answers) + 1 + (IF r = TooLong THEN 0 ELSE Len(r))
<1> DEFINE t == Append(answers, r)
           n == Len(answers)
<1>1. n \in Nat
  BY LenProperties
<1>2. /\ Len(t) = n + 1 /\ t[n + 1] = r
      /\ \A i \in 1 .. n : t[i] = answers[i]
  OBVIOUS
<1>3. PICK f : Counts(answers, n, f)
  BY CountsExists
<1>4. Taken(answers) = f[n]
  BY <1>1, <1>3, TakenIs
<1> HIDE DEF t, n
<1>5. Counts(t, n, f)
  BY <1>2, <1>3 DEF Counts
<1>6. t[n + 1] \in Text
  <2>1. t[n + 1] = r
    BY <1>2
  <2> QED BY <2>1
<1>7. PICK g : Counted(t, n, f, g)
  BY <1>1, <1>5, <1>6, CountsOn
<1>8. Len(t) \in Nat /\ Counts(t, Len(t), g)
  BY <1>1, <1>2, <1>7 DEF Counted
<1>9. Taken(t) = g[Len(t)]
  BY <1>8, TakenIs
<1>10. g[n + 1] = f[n] + 1 + (IF t[n + 1] = TooLong THEN 0 ELSE Len(t[n + 1]))
  BY <1>7 DEF Counted
<1> QED BY <1>2, <1>4, <1>9, <1>10 DEF t

-----------------------------------------------------------------------------
(* The answers on their way *)

\* All answers, one after the other, as they are serialised.
Frames(cmds) == [i \in DOMAIN cmds |-> Frame(Response(cmds[i]))]
Stream(cmds) == FlattenSeq(Frames(cmds))

\* What the client has not read yet is in its buffer, in the stream and in the write
\* buffer.
Conveyed ==
  /\ \E C : executed \in Seq(C)
  /\ received \in Seq(Text)
  /\ rbuf \in Seq(Unit) /\ down \in Seq(Unit) /\ write_buffer \in Seq(Unit)
  /\ Taken(received) <= Len(Stream(executed))
  /\ rbuf \o down \o write_buffer = Drop(Stream(executed), Taken(received))

\* An answer is a sequence of units.
LEMMA ResponseType ==
  ASSUME NEW cmd
  PROVE  /\ Response(cmd) \in Seq(Unit)
         /\ Frame(Response(cmd)) \in Seq(Unit)
         /\ Len(Frame(Response(cmd))) = Len(Response(cmd)) + 1
         /\ Frame(Response(cmd)) # << >>
<1> DEFINE text == IF cmd \in Request THEN Last(Last(cmd)) ELSE NoText
           len == IF cmd \in Listing THEN LongLen ELSE ReplyLen
           r == Response(cmd)
<1>1. len \in Nat
  BY SizeAssumption
<1>2. text \in Unit
  BY DEF Unit
<1>3. r = [i \in 1 .. len |-> text]
  BY DEF Response
<1> HIDE DEF text, len, r
<1>4. r \in Seq(Unit)
  BY <1>1, <1>2, <1>3
<1>5. Len(r) \in Nat
  BY <1>4, LenProperties
<1>6. <<Len(r)>> \in Seq(Unit) /\ Len(<<Len(r)>>) = 1
  BY <1>5 DEF Unit
<1>7. <<Len(r)>> \o r \in Seq(Unit) /\ Len(<<Len(r)>> \o r) = 1 + Len(r)
  BY <1>4, <1>6, ConcatProperties
<1>8. <<Len(r)>> \o r # << >>
  BY <1>5, <1>7, EmptySeq
<1> QED BY <1>4, <1>5, <1>7, <1>8 DEF Frame, r

\* The answers to one command more.
LEMMA StreamAppend ==
  ASSUME NEW C, NEW cmds \in Seq(C), NEW cmd
  PROVE  /\ Stream(cmds) \in Seq(Unit)
         /\ Stream(Append(cmds, cmd)) = Stream(cmds) \o Frame(Response(cmd))
<1> DEFINE n == Len(cmds)
           F == Frames(cmds)
           a == Frame(Response(cmd))
           G == Frames(Append(cmds, cmd))
<1>1. n \in Nat /\ DOMAIN cmds = 1 .. n
  BY LenProperties
<1>2. \A c : Frame(Response(c)) \in Seq(Unit)
  BY ResponseType
<1>3. F \in Seq(Seq(Unit)) /\ Len(F) = n /\ \A i \in 1 .. n : F[i] = Frame(Response(cmds[i]))
  <2>1. F = [i \in 1 .. n |-> Frame(Response(cmds[i]))]
    BY <1>1 DEF Frames
  <2> HIDE DEF F, n
  <2> QED BY <1>1, <1>2, <2>1
<1>4. a \in Seq(Unit)
  BY <1>2
<1>5. G = Append(F, a)
  <2>1. DOMAIN Append(cmds, cmd) = 1 .. n + 1 /\ Append(cmds, cmd)[n + 1] = cmd
        /\ \A i \in 1 .. n : Append(cmds, cmd)[i] = cmds[i]
    BY <1>1
  <2>2. G = [i \in 1 .. n + 1 |-> Frame(Response(Append(cmds, cmd)[i]))]
    BY <2>1 DEF Frames
  <2> HIDE DEF F, G, n, a
  <2>3. G = [i \in 1 .. n + 1 |-> IF i = n + 1 THEN a ELSE F[i]]
    <3>1. ASSUME NEW i \in 1 .. n + 1
          PROVE  Frame(Response(Append(cmds, cmd)[i])) = IF i = n + 1 THEN a ELSE F[i]
      <4>1. CASE i = n + 1
        BY <2>1, <4>1 DEF a
      <4>2. CASE i # n + 1
        <5>1. i \in 1 .. n
          BY <1>1, <4>2
        <5> QED BY <1>3, <2>1, <4>2, <5>1
      <4> QED BY <4>1, <4>2
    <3> QED BY <2>2, <3>1
  <2>4. Append(F, a) = [i \in 1 .. n + 1 |-> IF i = n + 1 THEN a ELSE F[i]]
    <3>1. Append(F, a) \in Seq(Seq(Unit)) /\ Len(Append(F, a)) = n + 1
      BY <1>3, <1>4
    <3>2. \A i \in 1 .. n + 1 : Append(F, a)[i] = IF i = n + 1 THEN a ELSE F[i]
      BY <1>1, <1>3, <1>4
    <3> DEFINE t == [i \in 1 .. n + 1 |-> IF i = n + 1 THEN a ELSE F[i]]
               u == Append(F, a)
    <3>3. t \in Seq(Seq(Unit)) /\ Len(t) = n + 1
      <4>1. n + 1 \in Nat
        BY <1>1
      <4>2. \A i \in 1 .. n + 1 : t[i] \in Seq(Unit)
        BY <3>1, <3>2, ElementOfSeq
      <4> QED BY <4>1, <4>2
    <3>4. \A i \in 1 .. n + 1 : t[i] = u[i]
      BY <3>2
    <3>5. u \in Seq(Seq(Unit)) /\ Len(u) = n + 1
      BY <3>1
    <3> HIDE DEF t, u
    <3>6. u = t
      BY <3>3, <3>4, <3>5, SeqEqual
    <3> QED BY <3>6 DEF t, u
  <2> QED BY <2>3, <2>4
<1> HIDE DEF F, G, a
<1>6. FlattenSeq(F) \in Seq(Unit)
  BY <1>3, FlattenType
<1>7. FlattenSeq(Append(F, a)) = FlattenSeq(F) \o a
  BY <1>3, <1>4, FlattenAppend
<1>8. Stream(cmds) = FlattenSeq(F) /\ Stream(Append(cmds, cmd)) = FlattenSeq(G)
  BY DEF Stream, F, G
<1>9. a = Frame(Response(cmd))
  BY DEF a
<1> QED BY <1>5, <1>6, <1>7, <1>8, <1>9

\* Concatenation is associative, as a fact about three sequences.
Associates(p, q, x) == (p \o q) \o x = p \o (q \o x)

LEMMA Associate ==
  ASSUME NEW S, NEW p \in Seq(S), NEW q \in Seq(S), NEW x \in Seq(S)
  PROVE  Associates(p, q, x)
BY ConcatAssociative DEF Associates

\* What stands in the middle of four may be taken together in two ways.
Regrouped(p, q, x, y) == (p \o (q \o x)) \o y = (p \o q) \o (x \o y)

LEMMA Regroup ==
  ASSUME NEW S, NEW p \in Seq(S), NEW q \in Seq(S), NEW x \in Seq(S), NEW y \in Seq(S)
  PROVE  Regrouped(p, q, x, y)
<1>1. p \o q \in Seq(S) /\ q \o x \in Seq(S) /\ x \o y \in Seq(S)
  BY ConcatProperties
<1>2. (p \o q) \o x = p \o (q \o x)
  BY ConcatAssociative, SMTT(30)
<1>3. ((p \o q) \o x) \o y = (p \o q) \o (x \o y)
  <2> DEFINE pq == p \o q
  <2>1. pq \in Seq(S)
    BY <1>1
  <2> HIDE DEF pq
  <2>2. (pq \o x) \o y = pq \o (x \o y)
    BY <2>1, ConcatAssociative
  <2> QED BY <2>2 DEF pq
<1> QED BY <1>2, <1>3 DEF Regrouped

\* What write moves from the buffer into the stream goes nowhere else.
LEMMA WriteConveys ==
  ASSUME IInv, Conveyed, write, UNCHANGED <<rbuf, executed, received>>
  PROVE  Conveyed'
<1> DEFINE n == Least(Len(write_buffer), SocketSize - Len(down))
           x == Take(write_buffer, n)
           y == Drop(write_buffer, n)
<1>1. rbuf \in Seq(Unit) /\ down \in Seq(Unit) /\ write_buffer \in Seq(Unit)
  BY DEF Conveyed
<1>2. /\ Len(write_buffer) \in Nat /\ Len(down) \in Nat
      /\ Len(down) <= SocketSize /\ SocketSize \in Nat
  BY <1>1, LenProperties, SizeAssumption DEF IInv, AnswersOK
<1>3. n \in 0 .. Len(write_buffer)
  BY <1>2 DEF Least
<1>4. down' = down \o x /\ write_buffer' = y
  BY DEF write
<1> HIDE DEF n
<1>5. x \in Seq(Unit) /\ y \in Seq(Unit) /\ x \o y = write_buffer
  BY <1>1, <1>3, Parts
<1> HIDE DEF x, y
<1>6. (rbuf \o (down \o x)) \o y = (rbuf \o down) \o (x \o y)
  <2>1. Regrouped(rbuf, down, x, y)
    BY <1>1, <1>5, Regroup
  <2> QED BY <2>1 DEF Regrouped
<1>7. down \o x \in Seq(Unit)
  BY <1>1, <1>5, ConcatProperties
<1>9. rbuf' \o down' \o write_buffer' = rbuf \o down \o write_buffer
  BY <1>4, <1>5, <1>6
<1>10. down' \in Seq(Unit) /\ write_buffer' \in Seq(Unit)
  BY <1>4, <1>5, <1>7
<1> QED BY <1>1, <1>9, <1>10 DEF Conveyed

\* The answer to an executed command is put behind the others.
LEMMA ExecuteConveys ==
  ASSUME Conveyed, ExecuteRequest
  PROVE  Conveyed'
<1> DEFINE args == parser_req(request_data).args
           a == Frame(Response(args))
           F == Stream(executed)
           k == Taken(received)
<1>1. /\ write_buffer' = write_buffer \o a
      /\ executed' = Append(executed, args)
      /\ UNCHANGED <<received, rbuf, down>>
  BY DEF ExecuteRequest, client
<1> HIDE DEF args
<1>2. PICK C : executed \in Seq(C)
  BY DEF Conveyed
<1>3. F \in Seq(Unit) /\ Stream(executed') = F \o a
  BY <1>1, <1>2, StreamAppend
<1>4. a \in Seq(Unit)
  BY ResponseType
<1>5. /\ rbuf \in Seq(Unit) /\ down \in Seq(Unit) /\ write_buffer \in Seq(Unit)
      /\ k <= Len(F) /\ k \in Nat
      /\ rbuf \o down \o write_buffer = Drop(F, k)
  BY TakenType DEF Conveyed
<1>6. k' = k
  BY <1>1
<1> HIDE DEF a, F, k
<1>7. Len(F) \in Nat /\ Len(a) \in Nat /\ k \in 0 .. Len(F)
  BY <1>3, <1>4, <1>5, LenProperties
<1>8. Drop(F \o a, k) = Drop(F, k) \o a
  BY <1>3, <1>4, <1>7, DropSome
<1>9. rbuf \o down \in Seq(Unit) /\ write_buffer \o a \in Seq(Unit)
  BY <1>4, <1>5, ConcatProperties
<1>10. (rbuf \o down) \o (write_buffer \o a) = ((rbuf \o down) \o write_buffer) \o a
  <2> DEFINE p == rbuf \o down
  <2>1. p \in Seq(Unit)
    BY <1>9
  <2> HIDE DEF p
  <2>2. (p \o write_buffer) \o a = p \o (write_buffer \o a)
    BY <1>4, <1>5, <2>1, ConcatAssociative, SMTT(30)
  <2> QED BY <2>2 DEF p
<1>11. rbuf' \o down' \o write_buffer' = Drop(F \o a, k)
  BY <1>1, <1>5, <1>8, <1>10
<1>12. Len(F \o a) = Len(F) + Len(a)
  BY <1>3, <1>4, ConcatProperties
<1>13. k <= Len(F \o a)
  BY <1>5, <1>7, <1>12
<1>14. executed' \in Seq(C \cup {args})
  <2>1. executed \in Seq(C \cup {args})
    BY <1>2, SeqMonotonic
  <2> QED BY <1>1, <2>1
<1>15. /\ Taken(received') = k /\ Stream(executed') = F \o a
       /\ received' \in Seq(Text) /\ rbuf' \in Seq(Unit) /\ down' \in Seq(Unit)
       /\ write_buffer' \in Seq(Unit)
  BY <1>1, <1>3, <1>5, <1>9 DEF Conveyed, k
<1> QED BY <1>11, <1>13, <1>14, <1>15 DEF Conveyed

\* What is in front of the rest of a stream is taken off it.
TakenOff(F, k, front, rest) ==
  /\ k + Len(front) <= Len(F)
  /\ rest = Drop(F, k + Len(front))

LEMMA TakeOff ==
  ASSUME NEW F \in Seq(Unit), NEW k \in Nat, k <= Len(F),
         NEW front \in Seq(Unit), NEW rest \in Seq(Unit), front \o rest = Drop(F, k)
  PROVE  TakenOff(F, k, front, rest)
<1> DEFINE n == Len(front)
           d == Drop(F, k)
<1>1. /\ n \in Nat /\ Len(F) \in Nat /\ Len(rest) \in Nat /\ k \in 0 .. Len(F)
  BY LenProperties
<1>2. Len(d) = Len(F) - k
  BY <1>1, Parts
<1>3. Len(front \o rest) = n + Len(rest)
  BY ConcatProperties
<1> HIDE DEF n
<1>4. k + n <= Len(F)
  BY <1>1, <1>2, <1>3
<1>5. Drop(d, n) = Drop(F, k + n)
  BY <1>1, <1>4, DropTwice
<1>6. Drop(front \o rest, n) = rest
  BY DropFront DEF n
<1> QED BY <1>4, <1>5, <1>6 DEF TakenOff, n

\* The first element of a sequence, in front of the others.
LEMMA FirstOff ==
  ASSUME NEW S, NEW s \in Seq(S), s # << >>
  PROVE  /\ Head(s) \in S /\ Tail(s) \in Seq(S) /\ Len(Tail(s)) = Len(s) - 1
         /\ <<Head(s)>> \o Tail(s) = s /\ Head(s) = s[1]
<1> DEFINE h == Head(s)
           t == Tail(s)
           u == <<h>> \o t
<1>1. /\ h \in S /\ t \in Seq(S) /\ Len(t) = Len(s) - 1 /\ Len(s) \in Nat \ {0}
      /\ \A i \in 1 .. Len(t) : t[i] = s[i + 1]
  BY HeadTailProperties, EmptySeq
<1>2. h = s[1]
  OBVIOUS
<1> HIDE DEF h, t
<1>3. <<h>> \in Seq(S) /\ Len(<<h>>) = 1 /\ <<h>>[1] = h
  BY <1>1
<1>4. /\ u \in Seq(S) /\ Len(u) = 1 + Len(t)
      /\ \A i \in 1 .. 1 + Len(t) : u[i] = IF i <= 1 THEN <<h>>[i] ELSE t[i - 1]
  BY <1>1, <1>3, ConcatProperties
<1> HIDE DEF u
<1>5. Len(u) = Len(s)
  BY <1>1, <1>4
<1>6. ASSUME NEW i \in 1 .. Len(u) PROVE u[i] = s[i]
  <2>1. CASE i = 1
    BY <1>1, <1>2, <1>3, <1>4, <2>1
  <2>2. CASE i # 1
    <3>1. i - 1 \in 1 .. Len(t) /\ (i - 1) + 1 = i /\ ~(i <= 1) /\ i \in 1 .. 1 + Len(t)
      BY <1>1, <1>4, <1>5, <2>2
    <3>2. u[i] = t[i - 1]
      BY <1>4, <3>1
    <3>3. t[i - 1] = s[(i - 1) + 1]
      BY <1>1, <3>1
    <3> QED BY <3>1, <3>2, <3>3
  <2> QED BY <2>1, <2>2
<1>7. u = s
  BY <1>4, <1>5, <1>6, SeqEqual
<1> QED BY <1>1, <1>2, <1>7 DEF h, t, u

\* The length in front of an answer: the client keeps it, or is told of an answer
\* that is empty or too long.
LEMMA ReadLengthConveys ==
  ASSUME Conveyed, ReadLength
  PROVE  Conveyed'
<1> DEFINE F == Stream(executed)
           k == Taken(received)
           h == Head(down)
           t == Tail(down)
           w == write_buffer
<1>1. PICK C : executed \in Seq(C)
  BY DEF Conveyed
<1>2. F \in Seq(Unit)
  BY <1>1, StreamAppend
<1>3. /\ received \in Seq(Text) /\ down \in Seq(Unit) /\ w \in Seq(Unit)
      /\ k <= Len(F) /\ k \in Nat
      /\ rbuf \o down \o w = Drop(F, k)
  BY TakenType DEF Conveyed
<1>4. PICK len \in LengthsRead :
        /\ rbuf = << >> /\ down # << >> /\ down' = t /\ w' = w /\ executed' = executed
        /\ \/ rbuf' = <<h>> /\ received' = received
           \/ rbuf' = << >> /\ received' = Append(received, IF len = 0 THEN << >> ELSE TooLong)
  BY DEF ReadLength
<1>5. /\ h \in Unit /\ t \in Seq(Unit) /\ <<h>> \o t = down
  BY <1>3, <1>4, FirstOff
<1>6. rbuf \o down = down
  BY <1>3, <1>4, ConcatEmptySeq
<1>7. Stream(executed') = F
  BY <1>4
<1> HIDE DEF F, k, h, t, w
<1>8. <<h>> \in Seq(Unit) /\ Len(<<h>>) = 1
  BY <1>5
<1>9. CASE rbuf' = <<h>> /\ received' = received
  <2>1. rbuf' \o down' \o w' = Drop(F, k)
    BY <1>3, <1>4, <1>5, <1>6, <1>9
  <2>2. Taken(received') = k
    BY <1>9 DEF k
  <2> QED BY <1>1, <1>3, <1>4, <1>5, <1>7, <1>8, <1>9, <2>1, <2>2 DEF Conveyed, w
<1>10. CASE rbuf' = << >> /\ received' = Append(received, IF len = 0 THEN << >> ELSE TooLong)
  <2> DEFINE r == IF len = 0 THEN << >> ELSE TooLong
  <2>1. r \in Text /\ (IF r = TooLong THEN 0 ELSE Len(r)) = 0
    BY EmptySeq DEF Text
  <2>2. received' = Append(received, r)
    BY <1>10
  <2> HIDE DEF r
  <2>3. Taken(received') = k + 1
    <3> DEFINE e == IF r = TooLong THEN 0 ELSE Len(r)
    <3>1. Taken(Append(received, r)) = k + 1 + e
      BY <1>3, <2>1, TakenAppend DEF k
    <3>2. e = 0
      BY <2>1
    <3> HIDE DEF e
    <3>3. k + 1 + e = k + 1
      BY <1>3, <3>2
    <3> QED BY <2>2, <3>1, <3>3
  <2>4. t \o w \in Seq(Unit)
    BY <1>3, <1>5, ConcatProperties
  <2>5. <<h>> \o (t \o w) = (<<h>> \o t) \o w
    <3> DEFINE p == <<h>>
    <3>1. p \in Seq(Unit)
      BY <1>8
    <3>2. t \in Seq(Unit) /\ w \in Seq(Unit)
      BY <1>3, <1>5
    <3> HIDE DEF p
    <3>3. Associates(p, t, w)
      BY <3>1, <3>2, Associate
    <3> QED BY <3>3 DEF p, Associates
  <2>6. <<h>> \o (t \o w) = Drop(F, k)
    BY <1>3, <1>5, <1>6, <2>5
  <2>7. TakenOff(F, k, <<h>>, t \o w)
    BY <1>2, <1>3, <1>8, <2>4, <2>6, TakeOff
  <2>8. k + 1 <= Len(F) /\ t \o w = Drop(F, k + 1)
    BY <1>8, <2>7 DEF TakenOff
  <2>9. rbuf' \o down' = t
    BY <1>4, <1>5, <1>10, ConcatEmptySeq
  <2>10. rbuf' \in Seq(Unit)
    BY <1>10, EmptySeq
  <2>11. received' \in Seq(Text)
    BY <1>3, <2>1, <2>2
  <2>12. /\ Taken(received') <= Len(Stream(executed'))
         /\ rbuf' \o down' \o write_buffer' = Drop(Stream(executed'), Taken(received'))
    BY <1>4, <1>7, <2>3, <2>8, <2>9 DEF w
  <2>13. executed' \in Seq(C) /\ down' \in Seq(Unit) /\ write_buffer' \in Seq(Unit)
    BY <1>1, <1>3, <1>4, <1>5 DEF w
  <2> QED BY <2>10, <2>11, <2>12, <2>13 DEF Conveyed
<1> QED BY <1>4, <1>9, <1>10

\* A part of the answer, or the rest of it: then the client has it whole.
LEMMA ReadAnswerConveys ==
  ASSUME Conveyed, ReadAnswer
  PROVE  Conveyed'
<1> DEFINE F == Stream(executed)
           k == Taken(received)
           w == write_buffer
<1>1. PICK C : executed \in Seq(C)
  BY DEF Conveyed
<1>2. F \in Seq(Unit)
  BY <1>1, StreamAppend
<1>3. /\ received \in Seq(Text) /\ rbuf \in Seq(Unit) /\ down \in Seq(Unit) /\ w \in Seq(Unit)
      /\ k <= Len(F) /\ k \in Nat
      /\ (rbuf \o down) \o w = Drop(F, k)
  BY TakenType DEF Conveyed
<1>4. PICK n \in 1 .. Len(down) :
        /\ rbuf # << >> /\ down' = Drop(down, n) /\ w' = w /\ executed' = executed
        /\ \/ rbuf' = << >> /\ received' = Append(received, Tail(rbuf \o Take(down, n)))
           \/ rbuf' = rbuf \o Take(down, n) /\ received' = received
  BY DEF ReadAnswer
<1> DEFINE x == Take(down, n)
           y == Drop(down, n)
           got == rbuf \o x
<1>5. x \in Seq(Unit) /\ y \in Seq(Unit) /\ x \o y = down
  <2>1. n \in 0 .. Len(down)
    OBVIOUS
  <2> QED BY <1>3, <2>1, Parts
<1>6. Stream(executed') = F
  BY <1>4
<1> HIDE DEF F, k, w, x, y
<1>7. got \in Seq(Unit) /\ Len(got) = Len(rbuf) + Len(x)
  BY <1>3, <1>5, ConcatProperties
<1>8. Len(rbuf) \in Nat \ {0} /\ Len(x) \in Nat
  BY <1>3, <1>4, <1>5, EmptySeq, LenProperties
<1>9. got \o y = rbuf \o down
  <2>1. Associates(rbuf, x, y)
    BY <1>3, <1>5, Associate
  <2> QED BY <1>5, <2>1 DEF Associates
<1>10. /\ \/ rbuf' = << >> /\ received' = Append(received, Tail(got))
          \/ rbuf' = got /\ received' = received
       /\ down' = y
  BY <1>4 DEF x, y
<1> HIDE DEF got
<1>11. CASE rbuf' = got /\ received' = received
  <2>1. (rbuf' \o down') \o w' = Drop(F, k)
    BY <1>3, <1>4, <1>9, <1>10, <1>11
  <2>2. Taken(received') = k
    BY <1>11 DEF k
  <2> QED BY <1>1, <1>3, <1>4, <1>5, <1>6, <1>7, <1>10, <1>11, <2>1, <2>2 DEF Conveyed, w
<1>12. CASE rbuf' = << >> /\ received' = Append(received, Tail(got))
  <2> DEFINE r == Tail(got)
             e == IF r = TooLong THEN 0 ELSE Len(r)
  <2>1. got # << >>
    BY <1>7, <1>8, EmptySeq
  <2>2. r \in Seq(Unit) /\ Len(r) = Len(got) - 1
    BY <1>7, <2>1, FirstOff
  <2>3. r # TooLong /\ r \in Text
    BY <2>2, TextAssumption DEF Text
  <2>4. Taken(Append(received, r)) = k + 1 + e
    BY <1>3, <2>3, TakenAppend DEF k
  <2>5. e = Len(got) - 1
    BY <2>2, <2>3
  <2>6. received' = Append(received, r)
    BY <1>12
  <2> HIDE DEF r, e
  <2>7. Len(got) \in Nat
    BY <1>7, <1>8
  <2>8. Taken(received') = k + Len(got)
    <3>1. k + 1 + e = k + Len(got)
      BY <1>3, <2>5, <2>7
    <3> QED BY <2>4, <2>6, <3>1
  <2>9. y \o w \in Seq(Unit)
    BY <1>3, <1>5, ConcatProperties
  <2>10. got \o (y \o w) = Drop(F, k)
    <3>1. Associates(got, y, w)
      BY <1>3, <1>5, <1>7, Associate
    <3> QED BY <1>3, <1>9, <3>1 DEF Associates
  <2>11. TakenOff(F, k, got, y \o w)
    BY <1>2, <1>3, <1>7, <2>9, <2>10, TakeOff
  <2>12. k + Len(got) <= Len(F) /\ y \o w = Drop(F, k + Len(got))
    BY <2>11 DEF TakenOff
  <2>13. rbuf' \o down' = y
    BY <1>5, <1>10, <1>12, ConcatEmptySeq
  <2>14. rbuf' \in Seq(Unit)
    BY <1>12, EmptySeq
  <2>15. received' \in Seq(Text)
    BY <1>3, <2>3, <2>6
  <2>16. /\ Taken(received') <= Len(Stream(executed'))
         /\ (rbuf' \o down') \o write_buffer' = Drop(Stream(executed'), Taken(received'))
    BY <1>4, <1>6, <2>8, <2>12, <2>13 DEF w
  <2>17. executed' \in Seq(C) /\ down' \in Seq(Unit) /\ write_buffer' \in Seq(Unit)
    BY <1>1, <1>3, <1>4, <1>5, <1>10 DEF w
  <2> QED BY <2>14, <2>15, <2>16, <2>17 DEF Conveyed
<1> QED BY <1>10, <1>11, <1>12

\* Nothing is on its way at first.
LEMMA InitConveys == Init => Conveyed
<1> SUFFICES ASSUME Init PROVE Conveyed
  OBVIOUS
<1>1. /\ executed = << >> /\ received = << >> /\ rbuf = << >> /\ down = << >>
      /\ write_buffer = << >>
  BY DEF Init
<1>2. << >> \in Seq(Unit) /\ << >> \in Seq(Text) /\ << >> \o << >> = << >>
  OBVIOUS
<1>3. Stream(<< >>) = << >>
  <2>1. Frames(<< >>) = << >>
    BY DEF Frames
  <2> QED BY <2>1, FlattenEmpty DEF Stream
<1>4. Taken(received) = 0 /\ Stream(executed) = << >>
  BY <1>1, <1>3, TakenEmpty
<1>5. Drop(<< >>, 0) = << >>
  BY <1>2, DropNone
<1>6. Len(<< >>) = 0
  OBVIOUS
<1> QED BY <1>1, <1>2, <1>4, <1>5, <1>6 DEF Conveyed

\* What is on its way stays what is to come, whoever steps.
LEMMA NextConveys == IInv /\ Conveyed /\ [Next]_vars => Conveyed'
<1> SUFFICES ASSUME IInv, Conveyed, [Next]_vars PROVE Conveyed'
  OBVIOUS
<1> DEFINE Idle == UNCHANGED <<executed, received, rbuf, down, write_buffer>>
<1>1. ASSUME Idle PROVE Conveyed'
  BY <1>1 DEF Conveyed
<1>2. ASSUME NEW cmd \in Request, Send(cmd) PROVE Conveyed'
  BY <1>1, <1>2 DEF Send
<1>3. CASE ClientWrite
  BY <1>1, <1>3 DEF ClientWrite
<1>4. CASE ClientRead
  BY <1>4, ReadLengthConveys, ReadAnswerConveys DEF ClientRead
<1>5. CASE Poll \/ handle_read \/ LeaveLoop
  BY <1>1, <1>5 DEF Poll, handle_read, LeaveLoop, client
<1>6. CASE ExecuteRequest
  BY <1>6, ExecuteConveys
<1>7. CASE Reply
  <2>1. UNCHANGED <<rbuf, executed, received>>
    BY <1>7 DEF Reply, client
  <2>2. UNCHANGED <<down, write_buffer>> \/ write
    BY <1>7 DEF Reply
  <2> QED BY <1>1, <2>1, <2>2, WriteConveys
<1>8. CASE handle_write
  <2>1. write /\ UNCHANGED <<rbuf, executed, received>>
    BY <1>8 DEF handle_write, client
  <2> QED BY <2>1, WriteConveys
<1>9. CASE UNCHANGED vars
  BY <1>1, <1>9 DEF vars, client
<1> QED BY <1>2, <1>3, <1>4, <1>5, <1>6, <1>7, <1>8, <1>9 DEF Next, Server

\* Whatever the requests, however the streams cut the data and however far ahead the
\* client asks: the answers reach it in the order of execution, whole and once, and
\* only one over its limit leaves its text in front of the later ones
\* (Conntion::handle_write, Serializer, read_res).
THEOREM AnswersInOrder == Spec => []AnswersAligned
<1>1. Conveyed => AnswersAligned
  BY DEF Conveyed, AnswersAligned, Stream, Frames
<1>2. Spec => [](IInv /\ Conveyed)
  BY InitHolds, NextHolds, InitConveys, NextConveys, PTL DEF Spec
<1> QED BY <1>1, <1>2, PTL

-----------------------------------------------------------------------------
(* What the parser makes of a request *)

\* What requests are made of: their lengths and the characters of their strings.
Datum == Nat \cup UNION {UNION {Range(string) : string \in Range(cmd)} : cmd \in Request}

\* A request is a sequence of sequences of data,
LEMMA RequestType ==
  ASSUME NEW cmd \in Request
  PROVE  cmd \in Seq(Seq(Datum))
<1> DEFINE n == Len(cmd)
<1>1. cmd \in Seq(Range(cmd))
  BY RequestAssumption
<1>2. n \in Nat /\ cmd \in [1 .. n -> Range(cmd)] /\ cmd = [i \in 1 .. n |-> cmd[i]]
  BY <1>1, LenProperties
<1>3. ASSUME NEW i \in 1 .. n PROVE cmd[i] \in Seq(Datum)
  <2> DEFINE string == cmd[i]
             m == Len(string)
  <2>1. string \in Range(cmd)
    BY <1>2
  <2>2. string \in Seq(Range(string))
    BY <2>1, RequestAssumption
  <2>3. Range(string) \subseteq Datum
    BY <2>1 DEF Datum
  <2> HIDE DEF string
  <2>4. m \in Nat /\ string \in [1 .. m -> Range(string)]
    BY <2>2, LenProperties
  <2>5. string \in [1 .. m -> Datum]
    BY <2>3, <2>4
  <2>6. string \in Seq(Datum)
    BY <2>4, <2>5
  <2> QED BY <2>6 DEF string
<1> HIDE DEF n
<1>4. cmd \in [1 .. n -> Seq(Datum)]
  BY <1>2, <1>3
<1> QED BY <1>2, <1>4

\* One element in front of a sequence.
Led(S, x, t) ==
  /\ <<x>> \o t \in Seq(S) /\ Len(<<x>> \o t) = Len(t) + 1
  /\ (<<x>> \o t)[1] = x
  /\ \A j \in 1 .. Len(t) : (<<x>> \o t)[j + 1] = t[j]

LEMMA Lead ==
  ASSUME NEW S, NEW x \in S, NEW t \in Seq(S)
  PROVE  Led(S, x, t)
<1> DEFINE l == <<x>>
           q == l \o t
<1>1. Len(t) \in Nat
  BY LenProperties
<1>2. l \in Seq(S) /\ Len(l) = 1 /\ l[1] = x
  OBVIOUS
<1> HIDE DEF l
<1>3. /\ q \in Seq(S) /\ Len(q) = Len(l) + Len(t)
      /\ \A j \in 1 .. Len(l) + Len(t) : q[j] = IF j <= Len(l) THEN l[j] ELSE t[j - Len(l)]
  BY <1>2, ConcatProperties
<1> HIDE DEF q
<1>4. q[1] = x
  BY <1>1, <1>2, <1>3
<1>5. ASSUME NEW j \in 1 .. Len(t) PROVE q[j + 1] = t[j]
  <2>1. j + 1 \in 1 .. Len(l) + Len(t) /\ ~(j + 1 <= Len(l)) /\ (j + 1) - Len(l) = j
    BY <1>1, <1>2
  <2>2. q[j + 1] = t[(j + 1) - Len(l)]
    BY <1>3, <2>1
  <2> QED BY <2>1, <2>2
<1>6. Len(q) = Len(t) + 1
  BY <1>1, <1>2, <1>3
<1> QED BY <1>3, <1>4, <1>5, <1>6 DEF Led, l, q

\* The strings of a request as they are serialised.
Pieces(cmd) == [i \in DOMAIN cmd |-> <<Len(cmd[i])>> \o cmd[i]]

\* and so are its strings, each behind its length,
LEMMA PiecesType ==
  ASSUME NEW cmd \in Seq(Seq(Datum))
  PROVE  /\ Pieces(cmd) \in Seq(Seq(Datum)) /\ Len(Pieces(cmd)) = Len(cmd)
         /\ \A i \in 1 .. Len(cmd) :
              /\ cmd[i] \in Seq(Datum) /\ Len(cmd[i]) \in Nat
              /\ Pieces(cmd)[i] \in Seq(Datum)
              /\ Len(Pieces(cmd)[i]) = Len(cmd[i]) + 1
              /\ Pieces(cmd)[i][1] = Len(cmd[i])
              /\ \A j \in 1 .. Len(cmd[i]) : Pieces(cmd)[i][j + 1] = cmd[i][j]
<1> DEFINE n == Len(cmd)
           P == Pieces(cmd)
<1>1. n \in Nat /\ DOMAIN cmd = 1 .. n /\ \A i \in 1 .. n : cmd[i] \in Seq(Datum)
  BY LenProperties, ElementOfSeq
<1>2. P = [i \in 1 .. n |-> <<Len(cmd[i])>> \o cmd[i]]
  BY <1>1 DEF Pieces
<1> HIDE DEF P, n
<1>3. ASSUME NEW i \in 1 .. n
      PROVE  /\ cmd[i] \in Seq(Datum) /\ Len(cmd[i]) \in Nat
             /\ P[i] \in Seq(Datum)
             /\ Len(P[i]) = Len(cmd[i]) + 1
             /\ P[i][1] = Len(cmd[i])
             /\ \A j \in 1 .. Len(cmd[i]) : P[i][j + 1] = cmd[i][j]
  <2> DEFINE t == cmd[i]
             m == Len(t)
  <2>1. t \in Seq(Datum) /\ m \in Nat /\ m \in Datum
    BY <1>1, LenProperties DEF Datum
  <2>2. P[i] = <<m>> \o t
    BY <1>2
  <2> HIDE DEF t, m
  <2>3. Led(Datum, m, t)
    BY <2>1, Lead
  <2>4. Len(t) = m
    BY DEF m
  <2> QED BY <2>1, <2>2, <2>3, <2>4 DEF t, m, Led
<1>4. P \in Seq(Seq(Datum)) /\ Len(P) = n
  <2> DEFINE D == Seq(Datum)
  <2>1. \A i \in 1 .. n : P[i] \in D
    BY <1>3
  <2> HIDE DEF D
  <2>2. P \in [1 .. n -> D]
    BY <1>2, <2>1
  <2>3. P \in Seq(D) /\ Len(P) = n
    BY <1>1, <2>2
  <2> QED BY <2>3 DEF D
<1> QED BY <1>3, <1>4 DEF P, n

\* and so is its body, and the message.
LEMMA BodyType ==
  ASSUME NEW cmd \in Request
  PROVE  /\ Body(cmd) = <<Len(cmd)>> \o FlattenSeq(Pieces(cmd))
         /\ Body(cmd) \in Seq(Datum) /\ Len(Body(cmd)) \in Nat
         /\ Frame(Body(cmd)) \in Seq(Datum)
         /\ Len(Frame(Body(cmd))) = Len(Body(cmd)) + 1
         /\ Frame(Body(cmd))[1] = Len(Body(cmd))
<1> DEFINE f == FlattenSeq(Pieces(cmd))
           b == Body(cmd)
           c == <<Len(cmd)>>
<1>1. cmd \in Seq(Seq(Datum))
  BY RequestType
<1>2. f \in Seq(Datum)
  BY <1>1, PiecesType, FlattenType
<1>3. b = c \o f
  BY DEF Body, Pieces
<1>4. c \in Seq(Datum)
  BY <1>1, LenProperties DEF Datum
<1> HIDE DEF f, c, b
<1>5. b \in Seq(Datum)
  BY <1>2, <1>3, <1>4, ConcatProperties
<1>6. Len(b) \in Nat
  BY <1>5, LenProperties
<1>7. Led(Datum, Len(b), b)
  <2>1. Len(b) \in Datum
    BY <1>6 DEF Datum
  <2> QED BY <1>5, <2>1, Lead
<1>8. Frame(b) = <<Len(b)>> \o b
  BY DEF Frame
<1> QED BY <1>3, <1>5, <1>6, <1>7, <1>8 DEF b, c, f, Led

\* s is the beginning of t.
Begins(s, t) == Len(s) <= Len(t) /\ \A j \in 1 .. Len(s) : t[j] = s[j]

\* What the first i sequences make is the beginning of what all of them make.
LEMMA FlattenBegins ==
  ASSUME NEW S, NEW seqs \in Seq(Seq(S)), NEW f, Grows(S, seqs, Len(seqs), f),
         NEW i \in 0 .. Len(seqs)
  PROVE  Begins(f[i], f[Len(seqs)])
<1> DEFINE n == Len(seqs)
           T == {k \in Nat : k <= n /\ i <= k => Begins(f[i], f[k])}
<1>1. n \in Nat /\ \A k \in 1 .. n : seqs[k] \in Seq(S)
  BY LenProperties
<1>2. /\ \A k \in 0 .. n : f[k] \in Seq(S) /\ Len(f[k]) \in Nat
      /\ \A k \in 1 .. n : f[k] = f[k - 1] \o seqs[k]
  BY LenProperties DEF Grows
<1>3. Begins(f[i], f[i])
  <2>1. Len(f[i]) \in Nat
    BY <1>2
  <2> QED BY <2>1 DEF Begins
<1> HIDE DEF n
<1>4. i \in 0 .. n
  BY DEF n
<1>5. 0 \in T
  <2>1. ASSUME i <= 0 PROVE i = 0
    BY <1>1, <1>4, <2>1
  <2> QED BY <1>3, <2>1
<1>6. ASSUME NEW k \in Nat, k \in T PROVE k + 1 \in T
  <2> SUFFICES ASSUME k + 1 <= n, i <= k + 1 PROVE Begins(f[i], f[k + 1])
    OBVIOUS
  <2> DEFINE j == k + 1
  <2>1. j \in 1 .. n /\ j - 1 = k /\ k \in 0 .. n /\ k <= n
    BY <1>1
  <2>2. i = j \/ i <= k
    BY <1>1, <1>4
  <2> HIDE DEF j
  <2>3. CASE i = j
    BY <1>3, <2>3 DEF j
  <2>4. CASE i <= k
    <3>1. Begins(f[i], f[k])
      BY <1>6, <2>1, <2>4
    <3> DEFINE s == f[k]
               t == seqs[j]
               u == f[j]
               v == f[i]
    <3>2. s \in Seq(S) /\ t \in Seq(S) /\ u = s \o t /\ Len(v) \in Nat /\ Len(s) \in Nat
      BY <1>1, <1>2, <1>4, <2>1
    <3>3. Len(v) <= Len(s) /\ \A m \in 1 .. Len(v) : s[m] = v[m]
      BY <3>1 DEF Begins
    <3> HIDE DEF s, t, u, v
    <3>4. /\ Len(u) = Len(s) + Len(t) /\ Len(t) \in Nat
          /\ \A m \in 1 .. Len(s) + Len(t) : u[m] = IF m <= Len(s) THEN s[m] ELSE t[m - Len(s)]
      BY <3>2, ConcatProperties, LenProperties
    <3>5. ASSUME NEW m \in 1 .. Len(v) PROVE u[m] = v[m]
      <4>1. m \in 1 .. Len(s) + Len(t) /\ m <= Len(s)
        BY <3>2, <3>3, <3>4
      <4>2. u[m] = s[m]
        BY <3>4, <4>1
      <4> QED BY <3>3, <4>2
    <3>6. Len(v) <= Len(u)
      BY <3>2, <3>3, <3>4
    <3>7. Begins(v, u)
      BY <3>5, <3>6 DEF Begins
    <3> QED BY <3>7 DEF u, v, j
  <2> QED BY <2>2, <2>3, <2>4
<1> HIDE DEF T
<1>7. n \in T
  BY <1>1, <1>5, <1>6, Induction
<1>8. n <= n /\ i <= n
  BY <1>1, <1>4
<1> QED BY <1>7, <1>8 DEF T, n

\* Where one of the sequences stands in what all of them make.
Placed(seqs, f, i) ==
  /\ Len(f[i]) = Len(f[i - 1]) + Len(seqs[i])
  /\ Len(f[i]) <= Len(f[Len(seqs)])
  /\ \A j \in 1 .. Len(seqs[i]) : f[Len(seqs)][Len(f[i - 1]) + j] = seqs[i][j]

LEMMA Placing ==
  ASSUME NEW S, NEW seqs \in Seq(Seq(S)), NEW f, Grows(S, seqs, Len(seqs), f),
         NEW i \in 1 .. Len(seqs)
  PROVE  Placed(seqs, f, i)
<1> DEFINE n == Len(seqs)
           s == f[i - 1]
           t == seqs[i]
           u == f[i]
           v == f[n]
<1>1. n \in Nat /\ i - 1 \in 0 .. n /\ i \in 0 .. n
  BY LenProperties
<1>2. s \in Seq(S) /\ t \in Seq(S) /\ u = s \o t
  BY <1>1, ElementOfSeq DEF Grows
<1>3. Begins(u, v)
  BY <1>1, FlattenBegins
<1> HIDE DEF s, t, u, v
<1>4. /\ Len(u) = Len(s) + Len(t) /\ Len(s) \in Nat /\ Len(t) \in Nat
      /\ \A m \in 1 .. Len(s) + Len(t) : u[m] = IF m <= Len(s) THEN s[m] ELSE t[m - Len(s)]
  BY <1>2, ConcatProperties, LenProperties
<1>5. ASSUME NEW j \in 1 .. Len(t) PROVE v[Len(s) + j] = t[j]
  <2> DEFINE m == Len(s) + j
  <2>1. m \in 1 .. Len(s) + Len(t) /\ ~(m <= Len(s)) /\ m - Len(s) = j
    BY <1>4
  <2> HIDE DEF m
  <2>2. u[m] = t[m - Len(s)]
    BY <1>4, <2>1
  <2>3. v[m] = u[m]
    BY <1>3, <1>4, <2>1 DEF Begins
  <2>4. v[m] = t[j]
    BY <2>1, <2>2, <2>3
  <2> QED BY <2>4 DEF m
<1>6. Len(u) <= Len(v)
  BY <1>3 DEF Begins
<1> QED BY <1>4, <1>5, <1>6 DEF Placed, s, t, u, v

\* Where the parser is when it has read the first i strings.
Read(cmd, f, i) == [cur |-> 1 + Len(f[i]), args |-> Take(cmd, i)]

\* The parser reads the next string.
LEMMA ParsesNext ==
  ASSUME NEW cmd \in Seq(Seq(Datum)), NEW f, Grows(Datum, Pieces(cmd), Len(cmd), f),
         NEW i \in 1 .. Len(cmd)
  PROVE  parser_str(<<Len(cmd)>> \o f[Len(cmd)], Read(cmd, f, i - 1)) = Read(cmd, f, i)
<1> DEFINE n == Len(cmd)
           S == Pieces(cmd)
           t == cmd[i]
           m == Len(t)
           v == f[n]
           a == Len(f[i - 1])
           b == Len(f[i])
           req == <<n>> \o v
           p == Read(cmd, f, i - 1)
           c == a + 2
           end == a + 2 + m
           parsed == Append(Take(cmd, i - 1), SubSeq(req, c + 1, end))
<1>1. /\ n \in Nat /\ i - 1 \in 0 .. n /\ i \in 0 .. n
      /\ S \in Seq(Seq(Datum)) /\ Len(S) = n
  BY LenProperties, PiecesType
<1>2. /\ t \in Seq(Datum) /\ m \in Nat /\ Len(S[i]) = m + 1 /\ S[i][1] = m
      /\ \A j \in 1 .. m : S[i][j + 1] = t[j]
  BY PiecesType
<1>3. Placed(S, f, i)
  BY <1>1, Placing
<1>4. v \in Seq(Datum) /\ a \in Nat /\ Len(v) \in Nat
  <2>1. f \in [0 .. n -> Seq(Datum)]
    BY DEF Grows
  <2>2. n \in 0 .. n
    BY <1>1
  <2>3. f[n] \in Seq(Datum) /\ f[i - 1] \in Seq(Datum)
    BY <1>1, <2>1, <2>2
  <2> QED BY <2>3, LenProperties
<1>5. b = a + Len(S[i]) /\ b <= Len(v)
  BY <1>1, <1>3 DEF Placed
<1>6. \A j \in 1 .. Len(S[i]) : v[a + j] = S[i][j]
  BY <1>1, <1>3 DEF Placed
<1>7. Led(Datum, n, v)
  BY <1>1, <1>4, Lead DEF Datum
<1>8. p.cur = 1 + a /\ p.args = Take(cmd, i - 1)
  BY DEF Read
<1> HIDE DEF n, S, t, v, a, b, req, p
<1>9. /\ req \in Seq(Datum) /\ Len(req) = Len(v) + 1
      /\ \A j \in 1 .. Len(v) : req[j + 1] = v[j]
  BY <1>7 DEF Led, req
<1>10. b = a + m + 1 /\ end = b + 1 /\ end <= Len(req) /\ c <= end /\ end \in Nat /\ c \in Nat
  BY <1>2, <1>4, <1>5, <1>9, SMTT(30)
<1>11. \A j \in 1 .. m + 1 : req[a + 1 + j] = S[i][j]
  <2>1. ASSUME NEW j \in 1 .. m + 1 PROVE req[a + 1 + j] = S[i][j]
    <3> DEFINE k == a + j
    <3>1. k \in 1 .. Len(v) /\ a + 1 + j = k + 1
      BY <1>2, <1>4, <1>5
    <3>2. v[k] = S[i][j]
      BY <1>2, <1>6
    <3> HIDE DEF k
    <3>3. req[k + 1] = v[k]
      BY <1>9, <3>1
    <3> QED BY <3>1, <3>2, <3>3
  <2> QED BY <2>1
<1>12. req[c] = m
  <2>1. 1 \in 1 .. m + 1 /\ a + 1 + 1 = c
    BY <1>2, <1>4
  <2> QED BY <1>2, <1>11, <2>1
<1>13. SubSeq(req, c + 1, end) = t
  <2> DEFINE q == SubSeq(req, c + 1, end)
  <2>1. /\ c + 1 \in Int /\ end \in Int /\ end - (c + 1) + 1 = m
        /\ \A j \in c + 1 .. end : j \in 1 .. Len(req)
    BY <1>2, <1>4, <1>9, <1>10
  <2>2. \A j \in c + 1 .. end : req[j] \in Datum
    BY <1>9, <2>1, ElementOfSeq
  <2>3. /\ q \in Seq(Datum)
        /\ Len(q) = IF c + 1 <= end THEN end - (c + 1) + 1 ELSE 0
        /\ \A j \in 1 .. end - (c + 1) + 1 : q[j] = req[(c + 1) + j - 1]
    BY <2>1, <2>2, SubSeqProperties, SMTT(30)
  <2> HIDE DEF q
  <2>4. Len(q) = m
    BY <1>2, <1>4, <2>1, <2>3
  <2>5. ASSUME NEW j \in 1 .. m PROVE q[j] = t[j]
    <3>1. j + 1 \in 1 .. m + 1 /\ a + 1 + (j + 1) = (c + 1) + j - 1
      BY <1>2, <1>4
    <3>2. q[j] = req[(c + 1) + j - 1]
      BY <2>1, <2>3
    <3>3. req[a + 1 + (j + 1)] = S[i][j + 1]
      BY <1>11, <3>1
    <3>4. S[i][j + 1] = t[j]
      BY <1>2
    <3> QED BY <3>1, <3>2, <3>3, <3>4
  <2>6. q = t
    BY <1>2, <2>3, <2>4, <2>5, SeqEqual
  <2> QED BY <2>6 DEF q
<1>14. Append(Take(cmd, i - 1), t) = Take(cmd, i)
  <2> DEFINE A == Take(cmd, i - 1)
             B == Take(cmd, i)
             D == Seq(Datum)
  <2>1. cmd \in Seq(D) /\ i - 1 \in 0 .. Len(cmd) /\ i \in 0 .. Len(cmd)
    BY <1>1 DEF n
  <2>2. t \in D
    BY <1>2
  <2> HIDE DEF D
  <2>3. /\ A \in Seq(D) /\ Len(A) = i - 1 /\ B \in Seq(D) /\ Len(B) = i
        /\ \A j \in 1 .. i - 1 : A[j] = cmd[j]
        /\ \A j \in 1 .. i : B[j] = cmd[j]
    BY <2>1, Parts, ZenonT(30)
  <2> DEFINE E == Append(A, t)
  <2>4. i \in Nat
    BY <2>1
  <2> HIDE DEF A, B
  <2>5. E \in Seq(D) /\ Len(E) = i /\ E[i] = t /\ \A j \in 1 .. i - 1 : E[j] = A[j]
    BY <2>2, <2>3, <2>4
  <2> HIDE DEF E
  <2>6. ASSUME NEW j \in 1 .. i PROVE E[j] = B[j]
    <3>1. CASE j = i
      BY <2>3, <2>5, <3>1 DEF t
    <3>2. CASE j # i
      <4>1. j \in 1 .. i - 1
        BY <2>4, <3>2
      <4> QED BY <2>3, <2>5, <4>1
    <3> QED BY <3>1, <3>2
  <2>7. E = B
    BY <2>3, <2>5, <2>6, SeqEqual
  <2> QED BY <2>7 DEF A, B, E
<1>15. p # Failed
  <2>1. p.cur # -1
    BY <1>4, <1>8
  <2> QED BY <2>1 DEF Failed
<1>16. p.cur + 1 = c /\ p.cur + 2 = c + 1 /\ c + m = end
  BY <1>2, <1>4, <1>8
<1>17. c <= Len(req) /\ req[c] \in Nat /\ ~(c > Len(req)) /\ ~(end > Len(req))
  <2>1. Len(req) \in Nat /\ c <= Len(req) /\ end <= Len(req)
    BY <1>9, <1>10, LenProperties
  <2>2. req[c] \in Nat
    BY <1>2, <1>12
  <2> QED BY <1>10, <2>1, <2>2
<1>18. parser_str(req, p) = [cur |-> end, args |-> parsed]
  <2>1. ~(p = Failed \/ p.cur + 1 > Len(req) \/ req[p.cur + 1] \notin Nat)
    BY <1>15, <1>16, <1>17
  <2>2. p.cur + 1 + req[p.cur + 1] = end
    BY <1>12, <1>16
  <2>3. parser_str(req, p) = [cur |-> end, args |-> Append(p.args, SubSeq(req, p.cur + 2, end))]
    <3> HIDE DEF end, c
    <3> QED BY <1>17, <2>1, <2>2 DEF parser_str
  <2> QED BY <1>8, <1>16, <2>3
<1>19. parsed = Take(cmd, i) /\ end = 1 + b
  BY <1>10, <1>13, <1>14, <1>4, <1>2, SMTT(30)
<1> QED BY <1>18, <1>19 DEF Read, req, p, n, v, b

\* The parser gives back the command that was serialised, unless it has too many
\* strings (Parser::parser_req, and send_req of the client).
THEOREM RoundTrip ==
  ASSUME NEW cmd \in Request
  PROVE  parser_req(Body(cmd)) =
           IF Len(cmd) <= k_max_args THEN [cur |-> Len(Body(cmd)), args |-> cmd] ELSE Failed
<1> DEFINE n == Len(cmd)
           req == Body(cmd)
           read[i \in 0 .. req[1]] ==
             IF i = 0 THEN [cur |-> 1, args |-> << >>] ELSE parser_str(req, read[i - 1])
           last == read[req[1]]
<1>1. cmd \in Seq(Seq(Datum)) /\ n \in Nat
  BY RequestType, LenProperties
<1>2. /\ Pieces(cmd) \in Seq(Seq(Datum)) /\ Len(Pieces(cmd)) = n
  BY <1>1, PiecesType
<1>3. PICK f : Grows(Datum, Pieces(cmd), n, f)
  BY <1>2, FlattenExists
<1>4. FlattenSeq(Pieces(cmd)) = f[n] /\ f[n] \in Seq(Datum)
  BY <1>2, <1>3, FlattenIs
<1>5. req = <<n>> \o f[n]
  BY <1>4, BodyType
<1>6. Led(Datum, n, f[n])
  BY <1>1, <1>4, Lead DEF Datum
<1>7. /\ req \in Seq(Datum) /\ Len(req) = Len(f[n]) + 1 /\ req[1] = n /\ Len(f[n]) \in Nat
  BY <1>4, <1>5, <1>6, LenProperties DEF Led
<1>8. req # << >>
  BY <1>7, EmptySeq
<1>9. parser_req(req) = IF n \notin 0 .. k_max_args THEN Failed
                        ELSE IF last.cur = Len(req) THEN last ELSE Failed
  <2>1. CASE n \notin 0 .. k_max_args
    BY <1>7, <2>1 DEF parser_req
  <2>2. CASE n \in 0 .. k_max_args
    BY <1>7, <1>8, <2>2 DEF parser_req
  <2> QED BY <2>1, <2>2
<1> DEFINE P(i) == Read(cmd, f, i)
           D(r) == [i \in 0 .. n |-> IF i = 0 THEN P(0) ELSE parser_str(req, r[i - 1])]
<1>10. P(0) = [cur |-> 1, args |-> << >>]
  <2>1. f[0] = << >> /\ Take(cmd, 0) = << >>
    <3>1. 0 \in 0 .. Len(cmd)
      BY <1>1
    <3>2. Take(cmd, 0) \in Seq(Seq(Datum)) /\ Len(Take(cmd, 0)) = 0
      BY <1>1, <3>1, Parts
    <3> QED BY <1>3, <3>2, EmptySeq DEF Grows
  <2> QED BY <2>1, EmptySeq DEF Read
<1>11. \A i \in 1 .. n : parser_str(req, P(i - 1)) = P(i)
  BY <1>1, <1>3, <1>5, ParsesNext
<1> HIDE DEF P, req
<1>12. read = D(read)
  <2> DEFINE g == [i \in 0 .. n |-> P(i)]
  <2>1. g = D(g)
    <3>1. ASSUME NEW i \in 0 .. n PROVE g[i] = IF i = 0 THEN P(0) ELSE parser_str(req, g[i - 1])
      <4>1. CASE i = 0
        BY <4>1
      <4>2. CASE i # 0
        <5>1. i \in 1 .. n /\ i - 1 \in 0 .. n
          BY <1>1, <4>2
        <5>2. g[i - 1] = P(i - 1) /\ g[i] = P(i)
          BY <5>1
        <5> QED BY <1>11, <4>2, <5>1, <5>2
      <4> QED BY <4>1, <4>2
    <3> QED BY <3>1
  <2>2. g = [i \in 0 .. req[1] |->
               IF i = 0 THEN [cur |-> 1, args |-> << >>] ELSE parser_str(req, g[i - 1])]
    BY <1>7, <1>10, <2>1
  <2> HIDE DEF g
  <2>3. read = [i \in 0 .. req[1] |->
                  IF i = 0 THEN [cur |-> 1, args |-> << >>] ELSE parser_str(req, read[i - 1])]
    BY <2>2
  <2> HIDE DEF read
  <2> QED BY <1>7, <1>10, <2>3
<1>13. last = read[n]
  BY <1>7
<1> HIDE DEF read, last
<1> DEFINE T == {k \in Nat : k <= n => read[k] = P(k)}
<1>14. \A i \in 0 .. n : read[i] = IF i = 0 THEN P(0) ELSE parser_str(req, read[i - 1])
  BY <1>12
<1>15. 0 \in T
  BY <1>1, <1>14
<1>16. ASSUME NEW k \in Nat, k \in T PROVE k + 1 \in T
  <2> SUFFICES ASSUME k + 1 <= n PROVE read[k + 1] = P(k + 1)
    OBVIOUS
  <2> DEFINE j == k + 1
  <2>1. j \in 1 .. n /\ j \in 0 .. n /\ j # 0 /\ j - 1 = k /\ k <= n
    BY <1>1
  <2> HIDE DEF j
  <2>2. read[k] = P(k)
    BY <1>16, <2>1
  <2>3. read[j] = parser_str(req, read[j - 1])
    BY <1>14, <2>1
  <2>4. parser_str(req, P(j - 1)) = P(j)
    BY <1>11, <2>1
  <2>5. read[j] = P(j)
    BY <2>1, <2>2, <2>3, <2>4
  <2> QED BY <2>5 DEF j
<1> HIDE DEF T
<1>17. n \in T
  BY <1>1, <1>15, <1>16, Induction
<1>18. n <= n
  BY <1>1
<1>19. last = P(n)
  BY <1>13, <1>17, <1>18 DEF T
<1>20. Take(cmd, n) = cmd
  BY <1>1, SubSeqFull DEF Take
<1>21. 1 + Len(f[n]) = Len(req)
  BY <1>7
<1>22. last = [cur |-> Len(req), args |-> cmd]
  BY <1>19, <1>20, <1>21 DEF P, Read
<1>23. last.cur = Len(req)
  BY <1>22
<1>24. n \in 0 .. k_max_args <=> n <= k_max_args
  BY <1>1, ArgsAssumption
<1> QED BY <1>9, <1>22, <1>23, <1>24 DEF req

-----------------------------------------------------------------------------
(* A client that waits for each answer, and takes it *)

\* The requests and the answers on their way.
Requests == read_buffer \o up \o wbuf
Answers  == rbuf \o down \o write_buffer

DataOK ==
  /\ sent \in Seq(Request) /\ executed \in Seq(Request) /\ received \in Seq(Seq(Unit))
  /\ read_buffer \in Seq(Datum) /\ up \in Seq(Datum) /\ wbuf \in Seq(Datum)
  /\ rbuf \in Seq(Unit) /\ down \in Seq(Unit) /\ write_buffer \in Seq(Unit)
  /\ rbuf # << >> => want = rbuf[1]

\* What the client was told are the answers to what was executed.
Told ==
  /\ Len(received) <= Len(executed)
  /\ \A i \in 1 .. Len(received) : received[i] = Response(executed[i])

\* Nothing is under way; or one request is, if it has not been rejected; or the
\* answer to it.
Idle ==
  /\ sent = executed /\ Len(received) = Len(executed)
  /\ Requests = << >> /\ Answers = << >>

Asking(cmd) ==
  /\ sent = Append(executed, cmd) /\ Len(received) = Len(executed)
  /\ Requests = Frame(Body(cmd)) \/ (Requests = << >> /\ Len(cmd) > k_max_args)
  /\ Answers = << >>

Answering ==
  /\ sent = executed /\ Len(executed) = Len(received) + 1
  /\ Requests = << >> /\ Answers = Frame(Response(executed[Len(executed)]))

Turn == Idle \/ Answering \/ \E cmd \in Request : Asking(cmd)

Serving == DataOK /\ Told /\ Turn

\* The client has sent no request while an answer was due, and given up on none.
Waits == ~ahead /\ ~GaveUp

\* A step of the service or none.
Serves == Abstract!Next \/ UNCHANGED <<sent, executed, received>>

\* When nothing is made of two sequences, both are empty.
LEMMA BothEmpty ==
  ASSUME NEW S, NEW x \in Seq(S), NEW y \in Seq(S), x \o y = << >>
  PROVE  x = << >> /\ y = << >>
<1>1. Len(x \o y) = Len(x) + Len(y)
  BY ConcatProperties
<1>2. Len(x) \in Nat /\ Len(y) \in Nat /\ Len(x \o y) = 0
  BY LenProperties, EmptySeq
<1>3. Len(x) = 0 /\ Len(y) = 0
  BY <1>1, <1>2
<1> QED BY <1>3, EmptySeq

\* What is read first of a message says how long the message is; when as much is
\* there, it is the message.
Heads(x, y, b) ==
  /\ x[1] = Len(b)
  /\ Len(x) >= Len(b) + 1 => x = Frame(b) /\ y = << >>

LEMMA Heading ==
  ASSUME NEW S, NEW b \in Seq(S), Len(b) \in S,
         NEW x \in Seq(S), NEW y \in Seq(S), x # << >>, x \o y = Frame(b)
  PROVE  Heads(x, y, b)
<1> DEFINE m == Frame(b)
           n == Len(b)
<1>1. Led(S, n, b) /\ m = <<n>> \o b
  BY Lead DEF Frame
<1>2. m \in Seq(S) /\ Len(m) = n + 1 /\ m[1] = n /\ n \in Nat
  BY <1>1, LenProperties DEF Led
<1> HIDE DEF m, n
<1>3. /\ Len(x) \in Nat \ {0} /\ Len(y) \in Nat /\ Len(m) = Len(x) + Len(y)
      /\ \A i \in 1 .. Len(x) + Len(y) : m[i] = IF i <= Len(x) THEN x[i] ELSE y[i - Len(x)]
  BY EmptySeq, LenProperties, ConcatProperties DEF m
<1>4. x[1] = n
  BY <1>2, <1>3
<1>5. ASSUME Len(x) >= n + 1 PROVE x = m /\ y = << >>
  <2>1. Len(y) = 0 /\ Len(x) = Len(m)
    BY <1>2, <1>3, <1>5
  <2>2. y = << >>
    BY <2>1, EmptySeq
  <2>3. x \o y = x
    BY <2>2, ConcatEmptySeq
  <2> QED BY <2>2, <2>3 DEF m
<1> QED BY <1>4, <1>5 DEF Heads, m, n

\* Nothing moves but the cuts between buffers and streams.
LEMMA SameTurn ==
  ASSUME Serving, DataOK', UNCHANGED <<sent, executed, received, Requests, Answers>>
  PROVE  Serving' /\ Serves
<1>1. Told'
  BY DEF Serving, Told
<1>2. Turn'
  BY DEF Serving, Turn, Idle, Answering, Asking
<1> QED BY <1>1, <1>2 DEF Serving, Serves

\* write_all moves a part of the request into the stream,
LEMMA ClientWriteServes ==
  ASSUME Serving, ClientWrite
  PROVE  Serving' /\ Serves
<1>1. /\ read_buffer \in Seq(Datum) /\ up \in Seq(Datum) /\ wbuf \in Seq(Datum)
      /\ Len(wbuf) \in Nat /\ Len(up) \in Nat /\ SocketSize \in Nat
  BY LenProperties, SizeAssumption DEF Serving, DataOK
<1>2. PICK n \in 1 .. Least(Len(wbuf), SocketSize - Len(up)) :
        up' = up \o Take(wbuf, n) /\ wbuf' = Drop(wbuf, n)
  BY DEF ClientWrite
<1>3. n \in 0 .. Len(wbuf)
  BY <1>1 DEF Least
<1> DEFINE x == Take(wbuf, n)
           y == Drop(wbuf, n)
<1>4. x \in Seq(Datum) /\ y \in Seq(Datum) /\ x \o y = wbuf
  BY <1>1, <1>3, Parts
<1>5. up' = up \o x /\ wbuf' = y /\ read_buffer' = read_buffer
  BY <1>2 DEF ClientWrite
<1> HIDE DEF x, y
<1>6. up \o x \in Seq(Datum)
  BY <1>1, <1>4, ConcatProperties
<1>7. Regrouped(read_buffer, up, x, y)
  BY <1>1, <1>4, Regroup
<1>8. Requests' = Requests
  BY <1>4, <1>5, <1>7 DEF Requests, Regrouped
<1>9. Answers' = Answers /\ UNCHANGED <<sent, executed, received>>
  BY DEF ClientWrite, Answers
<1>10. DataOK'
  BY <1>4, <1>5, <1>6 DEF Serving, DataOK, ClientWrite
<1> QED BY <1>8, <1>9, <1>10, SameTurn

\* handle_read a part of the stream into the read buffer,
LEMMA HandleReadServes ==
  ASSUME Serving, handle_read
  PROVE  Serving' /\ Serves
<1>1. /\ read_buffer \in Seq(Datum) /\ up \in Seq(Datum) /\ wbuf \in Seq(Datum)
      /\ Len(up) \in Nat /\ k_read \in Nat
  BY LenProperties, SizeAssumption DEF Serving, DataOK
<1> DEFINE n == Least(k_read, Len(up))
           x == Take(up, n)
           y == Drop(up, n)
<1>2. n \in 0 .. Len(up)
  BY <1>1 DEF Least
<1>3. read_buffer' = read_buffer \o x /\ up' = y /\ wbuf' = wbuf
  BY DEF handle_read, client
<1> HIDE DEF n
<1>4. x \in Seq(Datum) /\ y \in Seq(Datum) /\ x \o y = up
  BY <1>1, <1>2, Parts
<1> HIDE DEF x, y
<1>5. read_buffer \o x \in Seq(Datum)
  BY <1>1, <1>4, ConcatProperties
<1>6. Associates(read_buffer, x, y)
  BY <1>1, <1>4, Associate
<1>7. Requests' = Requests
  BY <1>3, <1>4, <1>6 DEF Requests, Associates
<1>8. Answers' = Answers /\ UNCHANGED <<sent, executed, received>>
  BY DEF handle_read, client, Answers
<1>9. DataOK'
  BY <1>3, <1>4, <1>5, <1>8 DEF Serving, DataOK, handle_read, client
<1> QED BY <1>7, <1>8, <1>9, SameTurn

\* and the write a part of the answer into its stream.
LEMMA WriteServes ==
  ASSUME Serving, IInv, write,
         UNCHANGED <<sent, executed, received, rbuf, want, read_buffer, up, wbuf>>
  PROVE  Serving' /\ Serves
<1> DEFINE n == Least(Len(write_buffer), SocketSize - Len(down))
           x == Take(write_buffer, n)
           y == Drop(write_buffer, n)
<1>1. rbuf \in Seq(Unit) /\ down \in Seq(Unit) /\ write_buffer \in Seq(Unit)
  BY DEF Serving, DataOK
<1>2. /\ Len(write_buffer) \in Nat /\ Len(down) \in Nat
      /\ Len(down) <= SocketSize /\ SocketSize \in Nat
  BY <1>1, LenProperties, SizeAssumption DEF IInv, AnswersOK
<1>3. n \in 0 .. Len(write_buffer)
  BY <1>2 DEF Least
<1>4. down' = down \o x /\ write_buffer' = y
  BY DEF write
<1> HIDE DEF n
<1>5. x \in Seq(Unit) /\ y \in Seq(Unit) /\ x \o y = write_buffer
  BY <1>1, <1>3, Parts
<1> HIDE DEF x, y
<1>6. Regrouped(rbuf, down, x, y)
  BY <1>1, <1>5, Regroup
<1>7. Answers' = Answers
  BY <1>4, <1>5, <1>6 DEF Answers, Regrouped
<1>8. down \o x \in Seq(Unit)
  BY <1>1, <1>5, ConcatProperties
<1>9. Requests' = Requests
  BY DEF Requests
<1>10. DataOK'
  BY <1>4, <1>5, <1>8 DEF Serving, DataOK
<1> QED BY <1>7, <1>9, <1>10, SameTurn

\* A new request: nothing else was under way.
LEMMA SendServes ==
  ASSUME Serving, ~ahead', NEW cmd \in Request, Send(cmd)
  PROVE  Serving' /\ Serves
<1> DEFINE q == read_buffer \o up
           m == Frame(Body(cmd))
<1>1. /\ sent \in Seq(Request) /\ executed \in Seq(Request) /\ received \in Seq(Seq(Unit))
      /\ read_buffer \in Seq(Datum) /\ up \in Seq(Datum)
      /\ Len(sent) \in Nat /\ Len(executed) \in Nat /\ Len(received) \in Nat
  BY LenProperties DEF Serving, DataOK
<1>2. /\ wbuf = << >> /\ ~(Len(received) < Len(sent))
      /\ sent' = Append(sent, cmd) /\ wbuf' = m
      /\ UNCHANGED <<executed, received, rbuf, want, down, write_buffer, read_buffer, up>>
  BY DEF Send
<1>3. Idle
  <2>1. ~Answering
    BY <1>1, <1>2 DEF Answering
  <2>2. ASSUME NEW c \in Request, Asking(c) PROVE FALSE
    <3>1. Len(sent) = Len(executed) + 1 /\ Len(received) = Len(executed)
      BY <1>1, <2>2 DEF Asking
    <3> QED BY <1>1, <1>2, <3>1
  <2> QED BY <2>1, <2>2 DEF Serving, Turn
<1>4. q \in Seq(Datum)
  BY <1>1, ConcatProperties
<1>5. m \in Seq(Datum)
  BY BodyType
<1> HIDE DEF q, m
<1>6. Requests = q \o << >> /\ Requests' = q \o m
  BY <1>2 DEF Requests, q
<1>7. q = << >>
  BY <1>3, <1>4, <1>6, ConcatEmptySeq DEF Idle
<1>8. Requests' = m
  BY <1>5, <1>6, <1>7, ConcatEmptySeq
<1>9. Answers' = << >>
  BY <1>2, <1>3 DEF Answers, Idle
<1>10. sent' = Append(executed', cmd) /\ Len(received') = Len(executed')
  BY <1>2, <1>3 DEF Idle
<1>11. Asking(cmd)'
  BY <1>8, <1>9, <1>10 DEF Asking, m
<1>12. Told'
  BY <1>2 DEF Serving, Told
<1>13. DataOK'
  BY <1>1, <1>2, <1>5 DEF Serving, DataOK
<1>14. Abstract!Next
  BY <1>2 DEF Abstract!Next, Abstract!Send
<1> QED BY <1>11, <1>12, <1>13, <1>14 DEF Serving, Serves, Turn

\* A request that is alone in the buffer, when it is parsed.
LEMMA WholeRequest ==
  ASSUME NEW cmd \in Request, read_buffer = Frame(Body(cmd))
  PROVE  Unconsumed = << >> /\ request_data = Body(cmd)
<1> DEFINE b == Body(cmd)
           l == <<Len(b)>>
           m == read_buffer
           memory == [i \in DOMAIN m |-> IF i <= Len(Unconsumed) THEN Unconsumed[i] ELSE m[i]]
<1>1. /\ b \in Seq(Datum) /\ Len(b) \in Nat /\ m \in Seq(Datum)
      /\ Len(m) = Len(b) + 1 /\ m[1] = Len(b)
  BY BodyType
<1>2. m = l \o b
  BY DEF Frame
<1>3. Unconsumed = << >>
  <2>1. Drop(m, Len(m)) = << >>
    BY <1>1, DropAll
  <2> QED BY <1>1, <2>1 DEF Unconsumed
<1>4. memory = m
  <2>1. m \in [1 .. Len(m) -> Datum] /\ DOMAIN m = 1 .. Len(m)
    BY <1>1, LenProperties
  <2>2. Len(Unconsumed) = 0
    BY <1>3, EmptySeq
  <2>3. \A i \in DOMAIN m : memory[i] = m[i]
    BY <2>1, <2>2
  <2> QED BY <2>1, <2>3
<1>5. l \in Seq(Datum) /\ Len(l) = 1
  BY <1>1 DEF Datum
<1> HIDE DEF b, l, memory
<1>6. Drop(l \o b, Len(l)) = b
  BY <1>1, <1>5, DropFront
<1>7. SubSeq(m, 2, Len(b) + 1) = b
  BY <1>1, <1>2, <1>5, <1>6 DEF Drop
<1>8. request_data = SubSeq(memory, 2, m[1] + 1)
  BY DEF request_data, memory
<1> QED BY <1>1, <1>3, <1>4, <1>7, <1>8 DEF b

\* When there is a request in the buffer, there is nothing but that.
Asked(cmd) ==
  /\ Asking(cmd)
  /\ read_buffer = Frame(Body(cmd)) /\ up = << >> /\ wbuf = << >>
  /\ Unconsumed = << >> /\ request_data = Body(cmd)

LEMMA AskedIs ==
  ASSUME Serving, HasRequest
  PROVE  \E cmd \in Request : Asked(cmd)
<1> DEFINE rest == up \o wbuf
<1>1. read_buffer \in Seq(Datum) /\ up \in Seq(Datum) /\ wbuf \in Seq(Datum)
  BY DEF Serving, DataOK
<1>2. rest \in Seq(Datum)
  BY <1>1, ConcatProperties
<1>3. Requests = read_buffer \o rest
  <2>1. Associates(read_buffer, up, wbuf)
    BY <1>1, Associate
  <2> QED BY <2>1 DEF Associates, Requests
<1>4. read_buffer # << >> /\ Len(read_buffer) >= read_buffer[1] + 1
  BY DEF HasRequest
<1> HIDE DEF rest
<1>5. Requests # << >>
  BY <1>1, <1>2, <1>3, <1>4, BothEmpty
<1>6. PICK cmd \in Request : Asking(cmd)
  BY <1>5 DEF Serving, Turn, Idle, Answering
<1>7. Requests = Frame(Body(cmd))
  BY <1>5, <1>6 DEF Asking
<1>8. Body(cmd) \in Seq(Datum) /\ Len(Body(cmd)) \in Datum
  BY BodyType DEF Datum
<1>9. Heads(read_buffer, rest, Body(cmd))
  BY <1>1, <1>2, <1>3, <1>4, <1>7, <1>8, Heading
<1>10. read_buffer = Frame(Body(cmd)) /\ rest = << >>
  BY <1>4, <1>9 DEF Heads
<1>11. up = << >> /\ wbuf = << >>
  BY <1>1, <1>10, BothEmpty DEF rest
<1>12. Unconsumed = << >> /\ request_data = Body(cmd)
  BY <1>10, WholeRequest
<1> QED BY <1>6, <1>10, <1>11, <1>12 DEF Asked

\* The request is executed as it was sent, and answered.
LEMMA ExecuteServes ==
  ASSUME Serving, ExecuteRequest
  PROVE  Serving' /\ Serves
<1>1. PICK cmd \in Request : Asked(cmd)
  BY AskedIs DEF ExecuteRequest
<1> DEFINE a == Frame(Response(cmd))
           q == rbuf \o down
           n == Len(executed)
<1>2. /\ sent \in Seq(Request) /\ executed \in Seq(Request) /\ received \in Seq(Seq(Unit))
      /\ rbuf \in Seq(Unit) /\ down \in Seq(Unit) /\ write_buffer \in Seq(Unit)
      /\ n \in Nat /\ Len(received) \in Nat
  BY LenProperties DEF Serving, DataOK
<1>3. /\ sent = Append(executed, cmd) /\ Len(received) = n /\ Answers = << >>
      /\ up = << >> /\ wbuf = << >> /\ Unconsumed = << >> /\ request_data = Body(cmd)
  BY <1>1 DEF Asked, Asking
<1>4. parser_req(request_data).args = cmd
  <2>1. parser_req(request_data) # Failed
    BY DEF ExecuteRequest
  <2>2. parser_req(Body(cmd)) = [cur |-> Len(Body(cmd)), args |-> cmd]
    BY <1>3, <2>1, RoundTrip
  <2> QED BY <1>3, <2>2
<1>5. /\ executed' = Append(executed, cmd) /\ write_buffer' = write_buffer \o a
      /\ read_buffer' = << >> /\ UNCHANGED <<client, up, down>>
  BY <1>3, <1>4 DEF ExecuteRequest
<1>6. a \in Seq(Unit)
  BY ResponseType
<1>7. q \in Seq(Unit)
  BY <1>2, ConcatProperties
<1>8. Answers = q \o write_buffer
  BY DEF Answers
<1> HIDE DEF a, q, n
<1>9. q = << >> /\ write_buffer = << >>
  BY <1>2, <1>3, <1>7, <1>8, BothEmpty
<1>10. Answers' = q \o (write_buffer \o a)
  BY <1>5 DEF Answers, q, client
<1>11. Answers' = a
  BY <1>6, <1>9, <1>10, ConcatEmptySeq
<1>12. Requests' = << >>
  <2>1. << >> \o << >> \o << >> = << >>
    OBVIOUS
  <2> QED BY <1>3, <1>5, <2>1 DEF Requests, client
<1>13. /\ Len(executed') = n + 1 /\ executed'[n + 1] = cmd
       /\ \A i \in 1 .. n : executed'[i] = executed[i]
  BY <1>2, <1>5 DEF n
<1>14. /\ UNCHANGED <<sent, received>> /\ sent' = executed'
  BY <1>3, <1>5 DEF client
<1>15. Answering'
  BY <1>3, <1>11, <1>12, <1>13, <1>14 DEF Answering, a
<1>16. Told'
  BY <1>2, <1>3, <1>13, <1>14 DEF Serving, Told, n
<1>17. DataOK'
  <2>1. executed' \in Seq(Request) /\ write_buffer' \in Seq(Unit) /\ read_buffer' \in Seq(Datum)
    BY <1>2, <1>5, <1>6, <1>9, ConcatEmptySeq, EmptySeq
  <2> QED BY <1>5, <2>1 DEF Serving, DataOK, client
<1>18. Abstract!Execute
  <2>1. Len(sent) = n + 1 /\ sent[n + 1] = cmd
    BY <1>2, <1>3 DEF n
  <2> QED BY <1>2, <1>5, <1>14, <2>1 DEF Abstract!Execute, n
<1> QED BY <1>15, <1>16, <1>17, <1>18 DEF Serving, Serves, Turn, Abstract!Next

\* Nothing to execute, or a request that the parser rejects: it has too many
\* strings, for RoundTrip says that it reads every other one.
LEMMA LeaveLoopServes ==
  ASSUME Serving, LeaveLoop
  PROVE  Serving' /\ Serves
<1>1. UNCHANGED <<client, up, down, write_buffer, executed>>
  BY DEF LeaveLoop
<1>2. Answers' = Answers /\ UNCHANGED <<sent, executed, received>>
  BY <1>1 DEF Answers, client
<1>3. CASE ~HasRequest
  <2>1. read_buffer' = read_buffer
    BY <1>3 DEF LeaveLoop
  <2>2. Requests' = Requests /\ DataOK'
    BY <1>1, <2>1 DEF Requests, client, Serving, DataOK
  <2> QED BY <1>2, <2>2, SameTurn
<1>4. CASE HasRequest
  <2>1. PICK cmd \in Request : Asked(cmd)
    BY <1>4, AskedIs
  <2>2. read_buffer' = << >> /\ parser_req(Body(cmd)) = Failed
    BY <1>4, <2>1 DEF LeaveLoop, Asked
  <2>3. Len(cmd) > k_max_args
    <3>1. Len(cmd) \in Nat /\ k_max_args \in Nat /\ Len(Body(cmd)) \in Nat
      BY RequestType, LenProperties, ArgsAssumption, BodyType
    <3>2. ASSUME Len(cmd) <= k_max_args PROVE FALSE
      <4>1. parser_req(Body(cmd)) = [cur |-> Len(Body(cmd)), args |-> cmd]
        BY <3>2, RoundTrip
      <4>2. parser_req(Body(cmd)).cur = -1
        BY <2>2 DEF Failed
      <4> QED BY <3>1, <4>1, <4>2
    <3> QED BY <3>1, <3>2
  <2>4. Requests' = << >>
    <3>1. << >> \o << >> \o << >> = << >>
      OBVIOUS
    <3> QED BY <1>1, <2>1, <2>2, <3>1 DEF Requests, client, Asked
  <2>5. Asking(cmd)'
    BY <1>2, <2>1, <2>3, <2>4 DEF Asking, Asked
  <2>6. Told'
    BY <1>2 DEF Serving, Told
  <2>7. DataOK'
    BY <1>1, <2>2, EmptySeq DEF Serving, DataOK, client
  <2> QED BY <1>2, <2>5, <2>6, <2>7 DEF Serving, Serves, Turn
<1> QED BY <1>3, <1>4

\* When something of an answer is on its way, it is the answer to the last command.
LEMMA AnsweringNow ==
  ASSUME Serving, Answers # << >>
  PROVE  Answering
BY DEF Serving, Turn, Idle, Asking

\* The client takes an answer to its end.
LEMMA AnswerTaken ==
  ASSUME Serving, Answering, DataOK',
         received' = Append(received, Response(executed[Len(executed)])),
         Answers' = << >>, UNCHANGED <<sent, executed, Requests>>
  PROVE  Serving' /\ Serves
<1> DEFINE n == Len(received)
           r == Response(executed[Len(executed)])
<1>1. received \in Seq(Seq(Unit)) /\ n \in Nat /\ r \in Seq(Unit)
  BY LenProperties, ResponseType DEF Serving, DataOK
<1>2. Len(executed) = n + 1 /\ sent = executed /\ Requests = << >>
  BY DEF Answering
<1>3. /\ Len(received') = n + 1 /\ received'[n + 1] = r
      /\ \A i \in 1 .. n : received'[i] = received[i]
  BY <1>1
<1>4. Idle'
  BY <1>2, <1>3 DEF Idle
<1>5. Told'
  <2>1. \A i \in 1 .. n : received[i] = Response(executed[i])
    BY DEF Serving, Told
  <2>2. ASSUME NEW i \in 1 .. n + 1 PROVE received'[i] = Response(executed[i])
    <3>1. CASE i = n + 1
      BY <1>2, <1>3, <3>1
    <3>2. CASE i # n + 1
      <4>1. i \in 1 .. n
        BY <1>1, <3>2
      <4> QED BY <1>3, <2>1, <4>1
    <3> QED BY <3>1, <3>2
  <2>3. Len(received') <= Len(executed')
    BY <1>1, <1>2, <1>3
  <2> QED BY <1>2, <1>3, <2>2, <2>3 DEF Told
<1>6. Abstract!Receive
  <2>1. Len(received) < Len(executed) /\ executed[n + 1] = executed[Len(executed)]
    BY <1>1, <1>2
  <2> QED BY <2>1 DEF Abstract!Receive
<1> QED BY <1>4, <1>5, <1>6 DEF Serving, Serves, Turn, Abstract!Next

\* What the client is told it stays told, also that an answer is too long.
LEMMA GaveUpNow ==
  ASSUME NEW S, received \in Seq(S), NEW r, received' = Append(received, r)
  PROVE  (GaveUp => GaveUp') /\ (r = TooLong => GaveUp')
<1> DEFINE n == Len(received)
<1>1. n \in Nat /\ DOMAIN received = 1 .. n
  BY LenProperties
<1>2. DOMAIN received' = 1 .. n + 1 /\ received'[n + 1] = r
      /\ \A i \in 1 .. n : received'[i] = received[i]
  BY <1>1
<1> HIDE DEF n
<1>3. ASSUME GaveUp PROVE GaveUp'
  <2>1. PICK i \in 1 .. n : received[i] = TooLong
    BY <1>1, <1>3 DEF GaveUp, Range
  <2>2. i \in DOMAIN received' /\ received'[i] = TooLong
    BY <1>1, <1>2, <2>1
  <2> QED BY <2>2 DEF GaveUp, Range
<1>4. ASSUME r = TooLong PROVE GaveUp'
  <2>1. n + 1 \in DOMAIN received' /\ received'[n + 1] = TooLong
    BY <1>1, <1>2, <1>4
  <2> QED BY <2>1 DEF GaveUp, Range
<1> QED BY <1>3, <1>4

\* The length of an answer is that of the answer to the last command,
LEMMA ReadLengthServes ==
  ASSUME Serving, Waits, ~GaveUp', ReadLength
  PROVE  Serving' /\ Serves
<1> DEFINE h == Head(down)
           t == Tail(down)
           r == Response(executed[Len(executed)])
           rest == t \o write_buffer
<1>1. rbuf \in Seq(Unit) /\ down \in Seq(Unit) /\ write_buffer \in Seq(Unit)
  BY DEF Serving, DataOK
<1>2. /\ rbuf = << >> /\ down # << >> /\ down' = t
      /\ UNCHANGED <<sent, executed, wbuf, up, read_buffer, write_buffer>>
      /\ \/ rbuf' = <<h>> /\ want' = h /\ received' = received
         \/ /\ rbuf' = << >>
            /\ received' = Append(received, IF h = 0 THEN << >> ELSE TooLong)
  BY DEF ReadLength, LengthsRead, Waits
<1>3. h \in Unit /\ t \in Seq(Unit) /\ <<h>> \o t = down /\ <<h>> \in Seq(Unit)
  BY <1>1, <1>2, FirstOff
<1>4. r \in Seq(Unit) /\ Len(r) \in Unit
  BY ResponseType, LenProperties DEF Unit
<1>5. Requests' = Requests
  BY <1>2 DEF Requests
<1>6. Answers = down \o write_buffer
  BY <1>1, <1>2, ConcatEmptySeq DEF Answers
<1>7. Answers # << >>
  BY <1>1, <1>2, <1>6, BothEmpty
<1>8. Answering /\ Answers = Frame(r)
  BY <1>7, AnsweringNow DEF Answering
<1> HIDE DEF h, t, r
<1>9. <<h>> \o rest = Frame(r)
  <2> DEFINE p == <<h>>
  <2>1. p \in Seq(Unit)
    BY <1>3
  <2> HIDE DEF p
  <2>2. Associates(p, t, write_buffer)
    BY <1>1, <1>3, <2>1, Associate
  <2> QED BY <1>3, <1>6, <1>8, <2>2 DEF Associates, p
<1>10. rest \in Seq(Unit)
  BY <1>1, <1>3, ConcatProperties
<1>11. h = Len(r) /\ (r = << >> => rest = << >>)
  <2> DEFINE p == <<h>>
  <2>1. p \in Seq(Unit) /\ p # << >> /\ p[1] = h /\ Len(p) = 1
    BY <1>3, EmptySeq
  <2> HIDE DEF p, rest
  <2>2. p \o rest = Frame(r)
    BY <1>9 DEF p
  <2>3. Heads(p, rest, r)
    BY <1>4, <1>10, <2>1, <2>2, Heading
  <2>4. ASSUME r = << >> PROVE Len(p) >= Len(r) + 1
    <3>1. Len(r) = 0
      BY <2>4, EmptySeq
    <3> QED BY <2>1, <3>1
  <2> QED BY <2>1, <2>3, <2>4 DEF Heads
<1>12. CASE rbuf' = <<h>> /\ want' = h /\ received' = received
  <2>1. Answers' = Answers
    BY <1>2, <1>3, <1>6, <1>12 DEF Answers
  <2>2. rbuf' \in Seq(Unit) /\ rbuf'[1] = h
    BY <1>3, <1>12
  <2>3. DataOK'
    BY <1>2, <1>3, <1>12, <2>2 DEF Serving, DataOK
  <2> QED BY <1>2, <1>5, <1>12, <2>1, <2>3, SameTurn
<1>13. CASE /\ rbuf' = << >>
            /\ received' = Append(received, IF h = 0 THEN << >> ELSE TooLong)
  <2>1. h = 0
    <3>1. received \in Seq(Seq(Unit))
      BY DEF Serving, DataOK
    <3>2. ASSUME received' = Append(received, TooLong) PROVE FALSE
      BY <3>1, <3>2, GaveUpNow
    <3> QED BY <1>13, <3>2
  <2>2. r = << >>
    BY <1>4, <1>11, <2>1, EmptySeq
  <2>3. rest = << >>
    BY <1>11, <2>2
  <2>4. received' = Append(received, r)
    BY <1>13, <2>1, <2>2
  <2>5. Answers' = << >>
    <3>1. Answers' = (<< >> \o t) \o write_buffer
      BY <1>2, <1>13 DEF Answers
    <3>2. << >> \o t = t
      BY <1>3, ConcatEmptySeq
    <3> QED BY <2>3, <3>1, <3>2
  <2>6. DataOK'
    <3>1. received' \in Seq(Seq(Unit))
      BY <1>4, <2>4 DEF Serving, DataOK
    <3> QED BY <1>2, <1>3, <1>13, <3>1, EmptySeq DEF Serving, DataOK
  <2> QED BY <1>2, <1>5, <1>8, <2>4, <2>5, <2>6, AnswerTaken DEF r
<1> QED BY <1>2, <1>12, <1>13

\* and what is read as its text is that answer.
LEMMA ReadAnswerServes ==
  ASSUME Serving, ReadAnswer
  PROVE  Serving' /\ Serves
<1>1. /\ rbuf \in Seq(Unit) /\ down \in Seq(Unit) /\ write_buffer \in Seq(Unit)
      /\ Len(down) \in Nat
  BY LenProperties DEF Serving, DataOK
<1>2. PICK n \in 1 .. Len(down) :
        /\ rbuf # << >> /\ down' = Drop(down, n)
        /\ UNCHANGED <<sent, executed, wbuf, up, read_buffer, write_buffer>>
        /\ LET got == rbuf \o Take(down, n)
           IN  \/ /\ Len(got) = want + 1
                  /\ rbuf' = << >> /\ received' = Append(received, Tail(got))
               \/ rbuf' = got /\ want' = want /\ received' = received
  BY DEF ReadAnswer
<1> DEFINE x == Take(down, n)
           y == Drop(down, n)
           got == rbuf \o x
           rest == y \o write_buffer
           r == Response(executed[Len(executed)])
<1>3. x \in Seq(Unit) /\ y \in Seq(Unit) /\ x \o y = down
  <2>1. n \in 0 .. Len(down)
    BY <1>1
  <2> QED BY <1>1, <2>1, Parts
<1>4. down' = y
  BY <1>2
<1>5. \/ Len(got) = want + 1 /\ rbuf' = << >> /\ received' = Append(received, Tail(got))
      \/ rbuf' = got /\ want' = want /\ received' = received
  BY <1>2
<1>6. Requests' = Requests
  BY <1>2 DEF Requests
<1> HIDE DEF x, y
<1>7. got \in Seq(Unit) /\ rest \in Seq(Unit)
  BY <1>1, <1>3, ConcatProperties
<1>8. got # << >>
  BY <1>1, <1>2, <1>3, BothEmpty
<1>9. got \o rest = Answers
  <2>1. Regrouped(rbuf, x, y, write_buffer)
    BY <1>1, <1>3, Regroup
  <2> QED BY <1>3, <2>1 DEF Regrouped, Answers
<1>10. rest = y \o write_buffer
  OBVIOUS
<1>11. got \o y = rbuf \o down
  <2>1. Associates(rbuf, x, y)
    BY <1>1, <1>3, Associate
  <2> QED BY <1>3, <2>1 DEF Associates
<1>14. want = got[1]
  <2>1. want = rbuf[1]
    BY <1>2 DEF Serving, DataOK
  <2>2. Len(rbuf) \in Nat \ {0} /\ Len(x) \in Nat
    BY <1>1, <1>2, <1>3, EmptySeq, LenProperties
  <2>3. \A i \in 1 .. Len(rbuf) + Len(x) : got[i] = IF i <= Len(rbuf) THEN rbuf[i] ELSE x[i - Len(rbuf)]
    BY <1>1, <1>3, ConcatProperties
  <2> HIDE DEF got
  <2>4. got[1] = rbuf[1]
    BY <2>2, <2>3
  <2> QED BY <2>1, <2>4
<1> HIDE DEF got, rest, r
<1>12. CASE rbuf' = got /\ want' = want /\ received' = received
  <2>1. Answers' = Answers
    BY <1>2, <1>4, <1>11, <1>12 DEF Answers
  <2>2. DataOK'
    BY <1>2, <1>3, <1>4, <1>7, <1>12, <1>14 DEF Serving, DataOK
  <2> QED BY <1>2, <1>6, <1>12, <2>1, <2>2, SameTurn
<1>13. CASE Len(got) = want + 1 /\ rbuf' = << >> /\ received' = Append(received, Tail(got))
  <2>1. Answers # << >>
    BY <1>7, <1>8, <1>9, BothEmpty
  <2>2. Answering /\ Answers = Frame(r)
    BY <2>1, AnsweringNow DEF Answering, r
  <2>3. r \in Seq(Unit) /\ Len(r) \in Unit
    BY ResponseType, LenProperties DEF Unit, r
  <2>4. Heads(got, rest, r)
    BY <1>7, <1>8, <1>9, <2>2, <2>3, Heading
  <2>5. got = Frame(r) /\ rest = << >>
    <3>1. Len(r) \in Nat
      BY <2>3, LenProperties
    <3>2. Len(got) >= Len(r) + 1
      BY <1>13, <1>14, <2>4, <3>1 DEF Heads
    <3> QED BY <2>4, <3>2 DEF Heads
  <2>6. Tail(got) = r
    <3> DEFINE l == <<Len(r)>>
               u == Tail(got)
    <3>1. l \in Seq(Unit) /\ Len(l) = 1
      BY <2>3
    <3>2. got = l \o r
      BY <2>5 DEF Frame
    <3>3. <<Head(got)>> \o Tail(got) = got /\ Tail(got) \in Seq(Unit) /\ Head(got) = got[1]
      BY <1>7, <1>8, FirstOff
    <3>4. Head(got) = Len(r)
      BY <2>4, <3>3 DEF Heads
    <3>5. l \o u = got /\ u \in Seq(Unit)
      BY <3>3, <3>4
    <3> HIDE DEF l, u
    <3>6. Drop(l \o u, Len(l)) = u
      BY <3>1, <3>5, DropFront
    <3>7. Drop(l \o r, Len(l)) = r
      BY <2>3, <3>1, DropFront
    <3>8. u = r
      BY <3>2, <3>5, <3>6, <3>7
    <3> QED BY <3>8 DEF u
  <2>7. Answers' = << >>
    <3>1. Answers' = (<< >> \o y) \o write_buffer
      BY <1>2, <1>4, <1>13 DEF Answers
    <3>2. << >> \o y = y
      BY <1>3, ConcatEmptySeq
    <3> QED BY <1>10, <2>5, <3>1, <3>2
  <2>8. received' = Append(received, r)
    BY <1>13, <2>6
  <2>9. DataOK'
    <3>1. received' \in Seq(Seq(Unit))
      BY <2>3, <2>8 DEF Serving, DataOK
    <3> QED BY <1>2, <1>3, <1>4, <1>13, <3>1, EmptySeq DEF Serving, DataOK
  <2> QED BY <1>2, <1>6, <2>2, <2>7, <2>8, <2>9, AnswerTaken DEF r
<1> QED BY <1>5, <1>12, <1>13

\* Nobody has asked anything.
LEMMA InitServes == Init => Serving /\ Abstract!Init
<1> SUFFICES ASSUME Init PROVE Serving /\ Abstract!Init
  OBVIOUS
<1>1. /\ sent = << >> /\ executed = << >> /\ received = << >>
      /\ read_buffer = << >> /\ up = << >> /\ wbuf = << >>
      /\ rbuf = << >> /\ down = << >> /\ write_buffer = << >>
  BY DEF Init
<1>2. << >> \o << >> \o << >> = << >> /\ Len(<< >>) = 0
  OBVIOUS
<1>3. Idle
  BY <1>1, <1>2 DEF Idle, Requests, Answers
<1>4. Told
  BY <1>1, <1>2 DEF Told
<1>5. DataOK
  BY <1>1, EmptySeq DEF DataOK
<1> QED BY <1>1, <1>3, <1>4, <1>5 DEF Serving, Turn, Abstract!Init

\* A client that has waited until now had waited before.
LEMMA WaitsBefore ==
  ASSUME Conveyed, [Next]_vars, Waits'
  PROVE  Waits
<1>1. received \in Seq(Text)
  BY DEF Conveyed
<1>2. \/ UNCHANGED <<received, ahead>>
      \/ ahead' = ahead /\ \E r : received' = Append(received, r)
      \/ received' = received /\ (ahead' = TRUE \/ ahead' = ahead)
  <2>1. CASE \E cmd \in Request : Send(cmd)
    BY <2>1 DEF Send
  <2>2. CASE ClientWrite
    BY <2>2 DEF ClientWrite
  <2>3. CASE ClientRead
    BY <2>3 DEF ClientRead, ReadLength, ReadAnswer
  <2>4. CASE Server \/ UNCHANGED vars
    BY <2>4 DEF Server, Poll, handle_read, ExecuteRequest, LeaveLoop, Reply, handle_write,
                vars, client
  <2> QED BY <2>1, <2>2, <2>3, <2>4 DEF Next
<1>3. CASE UNCHANGED <<received, ahead>>
  BY <1>3 DEF Waits, GaveUp
<1>4. CASE ahead' = ahead /\ \E r : received' = Append(received, r)
  <2>1. PICK r : received' = Append(received, r)
    BY <1>4
  <2>2. GaveUp => GaveUp'
    BY <1>1, <2>1, GaveUpNow
  <2> QED BY <1>4, <2>2 DEF Waits
<1>5. CASE received' = received /\ (ahead' = TRUE \/ ahead' = ahead)
  BY <1>5 DEF Waits, GaveUp
<1> QED BY <1>2, <1>3, <1>4, <1>5

\* Every step of the connection is a step of the service or none, as long as the client
\* waits for its answers and takes them.
LEMMA NextServes ==
  ASSUME IInv, Conveyed, Waits => Serving, [Next]_vars, Waits'
  PROVE  Serving' /\ Serves
<1>0. Waits /\ Serving /\ ~ahead' /\ ~GaveUp'
  BY WaitsBefore DEF Waits
<1> DEFINE Quiet == UNCHANGED <<client, up, down, read_buffer, write_buffer, executed>>
<1>1. ASSUME Quiet PROVE Serving' /\ Serves
  BY <1>1, <1>0, SameTurn DEF client, Requests, Answers, Serving, DataOK
<1>2. ASSUME NEW cmd \in Request, Send(cmd) PROVE Serving' /\ Serves
  BY <1>2, <1>0, SendServes
<1>3. CASE ClientWrite
  BY <1>3, <1>0, ClientWriteServes
<1>4. CASE ClientRead
  BY <1>4, <1>0, ReadLengthServes, ReadAnswerServes DEF ClientRead
<1>5. CASE Poll
  BY <1>1, <1>5 DEF Poll
<1>6. CASE handle_read
  BY <1>6, <1>0, HandleReadServes
<1>7. CASE ExecuteRequest
  BY <1>7, <1>0, ExecuteServes
<1>8. CASE LeaveLoop
  BY <1>8, <1>0, LeaveLoopServes
<1>9. CASE Reply
  <2>1. UNCHANGED <<sent, executed, received, rbuf, want, read_buffer, up, wbuf>>
    BY <1>9 DEF Reply, client
  <2>2. CASE write
    BY <2>1, <2>2, <1>0, WriteServes
  <2>3. CASE UNCHANGED <<down, write_buffer>>
    BY <1>1, <1>9, <2>1, <2>3 DEF Reply
  <2> QED BY <1>9, <2>2, <2>3 DEF Reply
<1>10. CASE handle_write
  <2>1. write /\ UNCHANGED <<sent, executed, received, rbuf, want, read_buffer, up, wbuf>>
    BY <1>10 DEF handle_write, client
  <2> QED BY <2>1, <1>0, WriteServes
<1>11. CASE UNCHANGED vars
  BY <1>1, <1>11 DEF vars, client
<1> QED BY <1>2, <1>3, <1>4, <1>5, <1>6, <1>7, <1>8, <1>9, <1>10, <1>11 DEF Next, Server

\* The inductive invariant of the theorems below.
Waiting == IInv /\ Conveyed /\ (Waits => Serving)

LEMMA InitWaiting == Init => Waiting /\ Abstract!Init
BY InitHolds, InitConveys, InitServes DEF Waiting

LEMMA NextWaiting == Waiting /\ [Next]_vars => Waiting' /\ (Waits' => Serves)
BY NextHolds, NextConveys, NextServes DEF Waiting

\* As long as the client waits for each answer and gives up on none for its length, a
\* connection is the service that it promises: every request that is executed is executed
\* once, as it was sent and in the order sent, and every answer that the client gets is the
\* whole answer to the next of its requests - however the streams cut the data, and
\* whichever requests the parser or the limit rejects (handle_read, try_one_request,
\* handle_write, send_req, read_res).  The client of main.cpp sends no request while an
\* answer is due, but it gives up on an answer of more than 4096 bytes.
THEOREM ImplementsService == Spec => Refines
<1>1. Init => Waiting /\ Abstract!Init
  BY InitWaiting
<1>2. Waiting /\ [Next]_vars
        => Waiting' /\ [ahead' \/ GaveUp' \/ Abstract!Next]_(Abstract!vars)
  BY NextWaiting DEF Waits, Serves, Abstract!vars
<1> QED BY <1>1, <1>2, PTL DEF Spec, Refines

\* The order of execution that README.md:221-227 and the comment at server.cpp:99
\* state holds until the client sends ahead of an answer, which Connection refutes it for,
\* or gives up on one that is over its limit and goes on to read what is left of it.
THEOREM InOrderForOne == Spec => [](~ahead /\ ~GaveUp => ExecutedAsSent)
<1>1. Serving => ExecutedAsSent
  <2> SUFFICES ASSUME Serving PROVE ExecutedAsSent
    OBVIOUS
  <2> DEFINE n == Len(executed)
  <2>1. executed \in Seq(Request) /\ sent \in Seq(Request) /\ n \in Nat
    BY LenProperties DEF Serving, DataOK
  <2>2. sent = executed \/ \E cmd \in Request : sent = Append(executed, cmd)
    BY DEF Serving, Turn, Idle, Answering, Asking
  <2>3. n <= Len(sent) /\ \A i \in 1 .. n : sent[i] = executed[i]
    BY <2>1, <2>2
  <2>4. SubSeq(executed, 1, n) = SubSeq(sent, 1, n)
    <3>1. Take(executed, n) \in Seq(Request) /\ Len(Take(executed, n)) = n
          /\ \A i \in 1 .. n : Take(executed, n)[i] = executed[i]
      <4>1. n \in 0 .. Len(executed)
        BY <2>1
      <4> QED BY <2>1, <4>1, Parts
    <3>2. Take(sent, n) \in Seq(Request) /\ Len(Take(sent, n)) = n
          /\ \A i \in 1 .. n : Take(sent, n)[i] = sent[i]
      <4>1. n \in 0 .. Len(sent)
        BY <2>1, <2>3, LenProperties
      <4> QED BY <2>1, <4>1, Parts
    <3>3. \A i \in 1 .. n : Take(executed, n)[i] = Take(sent, n)[i]
      BY <2>3, <3>1, <3>2
    <3> DEFINE s == Take(executed, n)
               t == Take(sent, n)
    <3>4. s \in Seq(Request) /\ t \in Seq(Request) /\ Len(s) = Len(t) /\ Len(s) = n
          /\ \A i \in 1 .. n : s[i] = t[i]
      BY <3>1, <3>2, <3>3
    <3> HIDE DEF s, t
    <3>5. s = t
      BY <3>4, SeqEqual
    <3> QED BY <3>5 DEF s, t, Take
  <2> QED BY <2>3, <2>4 DEF ExecutedAsSent, IsPrefix
<1>2. Waiting => (~ahead /\ ~GaveUp => ExecutedAsSent)
  BY <1>1 DEF Waiting, Waits
<1> QED BY <1>2, InitWaiting, NextWaiting, PTL DEF Spec

\* What is on its way from a client that has not sent ahead of an answer, nor given up
\* on one, are the messages of the commands not yet executed, when the parser rejects
\* none of them for its number of strings (try_one_request, buffer_consume).
THEOREM FramesKept ==
  ASSUME \A cmd \in Request : Len(cmd) <= k_max_args
  PROVE  Spec => [](~ahead /\ ~GaveUp => FramesFrom(Len(executed)))
<1>1. Serving => FramesFrom(Len(executed))
  <2> SUFFICES ASSUME Serving PROVE FramesFrom(Len(executed))
    OBVIOUS
  <2> DEFINE M == Seq(Datum)
             n == Len(executed)
             frames == [i \in DOMAIN sent |-> Frame(Body(sent[i]))]
             rest == Drop(frames, n)
  <2>1. sent \in Seq(Request) /\ executed \in Seq(Request) /\ n \in Nat /\ Len(sent) \in Nat
        /\ DOMAIN sent = 1 .. Len(sent) /\ \A i \in 1 .. Len(sent) : sent[i] \in Request
    BY LenProperties, ElementOfSeq DEF Serving, DataOK
  <2>2. \A cmd \in Request : Frame(Body(cmd)) \in M
    BY BodyType
  <2> HIDE DEF M
  <2>3. frames \in Seq(M) /\ Len(frames) = Len(sent)
        /\ \A i \in 1 .. Len(sent) : frames[i] = Frame(Body(sent[i]))
    <3>1. \A i \in 1 .. Len(sent) : frames[i] \in M
      BY <2>1, <2>2
    <3>2. frames = [i \in 1 .. Len(sent) |-> frames[i]]
      BY <2>1
    <3> QED BY <2>1, <3>1, <3>2
  <2> HIDE DEF frames, n
  <2>4. CASE Idle \/ Answering
    <3>1. n = Len(frames) /\ Requests = << >>
      BY <2>3, <2>4 DEF Idle, Answering, n
    <3>2. rest = << >>
      BY <2>3, <3>1, DropAll
    <3> QED BY <3>1, <3>2, FlattenEmpty DEF FramesFrom, Requests, frames, n
  <2>5. ASSUME NEW cmd \in Request, Asking(cmd) PROVE FramesFrom(Len(executed))
    <3> DEFINE m == Frame(Body(cmd))
    <3>1. Len(cmd) \in Nat /\ k_max_args \in Nat /\ Len(cmd) <= k_max_args
      BY RequestType, LenProperties, ArgsAssumption
    <3>2. Requests = m /\ sent = Append(executed, cmd)
      BY <2>5, <3>1 DEF Asking
    <3>3. Len(sent) = n + 1 /\ sent[n + 1] = cmd
      BY <2>1, <3>2 DEF n
    <3>4. m \in M
      BY <2>2
    <3> HIDE DEF m
    <3>5. frames[n + 1] = m
      BY <2>1, <2>3, <3>3 DEF m
    <3>6. rest = <<m>>
      <4>1. n \in 0 .. Len(frames)
        BY <2>1, <2>3, <3>3
      <4>2. rest \in Seq(M) /\ Len(rest) = Len(frames) - n
            /\ \A i \in 1 .. Len(frames) - n : rest[i] = frames[n + i]
        BY <2>3, <4>1, Parts
      <4>3. Len(frames) - n = 1 /\ 1 \in 1 .. Len(frames) - n
        BY <2>1, <2>3, <3>3
      <4>4. rest[1] = m /\ Len(rest) = 1
        BY <3>5, <4>2, <4>3
      <4> DEFINE one == <<m>>
      <4>5. one \in Seq(M) /\ Len(one) = 1 /\ one[1] = m
        BY <3>4
      <4> HIDE DEF one, rest
      <4>6. \A i \in 1 .. Len(rest) : rest[i] = one[i]
        BY <4>4, <4>5
      <4>7. rest = one
        BY <4>2, <4>4, <4>5, <4>6, SeqEqual
      <4> QED BY <4>7 DEF one
    <3>7. FlattenSeq(<<m>>) = m
      <4>1. << >> \in Seq(Seq(Datum)) /\ m \in Seq(Datum)
        BY <3>4, EmptySeq DEF M
      <4>2. FlattenSeq(Append(<< >>, m)) = FlattenSeq(<< >>) \o m
        BY <4>1, FlattenAppend
      <4>3. Append(<< >>, m) = <<m>>
        OBVIOUS
      <4>4. << >> \o m = m
        BY <4>1, ConcatEmptySeq
      <4> QED BY <4>2, <4>3, <4>4, FlattenEmpty
    <3> QED BY <3>2, <3>6, <3>7 DEF FramesFrom, Requests, frames, n
  <2> QED BY <2>4, <2>5 DEF Serving, Turn
<1>2. Waiting => (~ahead /\ ~GaveUp => FramesFrom(Len(executed)))
  BY <1>1 DEF Waiting, Waits
<1> QED BY <1>2, InitWaiting, NextWaiting, PTL DEF Spec

-----------------------------------------------------------------------------
(* Types *)

\* The way of the requests, whose stream holds what it can.
RequestsOK ==
  /\ sent \in Seq(Request) /\ ahead \in BOOLEAN /\ want \in 0 .. client_max_msg
  /\ wbuf \in Seq(Datum) /\ up \in Seq(Datum)
  /\ Len(up) <= SocketSize
  /\ pollout \in BOOLEAN

\* No request is on its way at first,
LEMMA InitRequests == Init => RequestsOK
<1> SUFFICES ASSUME Init PROVE RequestsOK
  OBVIOUS
<1>1. /\ sent = << >> /\ wbuf = << >> /\ up = << >> /\ pollout = FALSE
      /\ ahead = FALSE /\ want = 0
  BY DEF Init
<1>2. /\ sent \in Seq(Request) /\ wbuf \in Seq(Datum) /\ up \in Seq(Datum)
      /\ want \in 0 .. client_max_msg
  BY <1>1, EmptySeq, SizeAssumption
<1>3. Len(up) <= SocketSize
  <2>1. Len(up) = 0
    BY <1>1
  <2> QED BY <2>1, SizeAssumption
<1> QED BY <1>1, <1>2, <1>3 DEF RequestsOK

\* and no step puts more into the stream than there is room for.
LEMMA NextRequests == RequestsOK /\ [Next]_vars => RequestsOK'
<1> SUFFICES ASSUME RequestsOK, [Next]_vars PROVE RequestsOK'
  OBVIOUS
<1> USE DEF RequestsOK
<1>1. Len(wbuf) \in Nat /\ Len(up) \in Nat /\ SocketSize \in Nat /\ k_read \in Nat
  BY LenProperties, SizeAssumption
<1>2. ASSUME NEW cmd \in Request, Send(cmd) PROVE RequestsOK'
  <2>1. Frame(Body(cmd)) \in Seq(Datum)
    BY BodyType
  <2>2. sent' \in Seq(Request)
    BY <1>2, AppendProperties DEF Send
  <2>3. ahead' = TRUE \/ ahead' = ahead
    BY <1>2 DEF Send
  <2>4. /\ wbuf' = Frame(Body(cmd))
        /\ UNCHANGED <<want, up, pollout>>
    BY <1>2 DEF Send
  <2> QED BY <2>1, <2>2, <2>3, <2>4
<1>3. CASE ClientWrite
  <2>1. PICK n \in 1 .. Least(Len(wbuf), SocketSize - Len(up)) :
          up' = up \o Take(wbuf, n) /\ wbuf' = Drop(wbuf, n)
    BY <1>3 DEF ClientWrite
  <2>2. n \in 0 .. Len(wbuf) /\ n <= SocketSize - Len(up)
    BY <1>1 DEF Least
  <2>3. /\ Take(wbuf, n) \in Seq(Datum) /\ Len(Take(wbuf, n)) = n
        /\ Drop(wbuf, n) \in Seq(Datum)
    BY <2>2, PartLengths
  <2>4. up' \in Seq(Datum) /\ Len(up') = Len(up) + n
    BY <2>1, <2>3, ConcatProperties
  <2>5. Len(up') <= SocketSize
    BY <1>1, <2>2, <2>4
  <2> QED BY <1>3, <2>1, <2>3, <2>4, <2>5 DEF ClientWrite
<1>4. CASE ClientRead
  <2>1. UNCHANGED <<sent, ahead, wbuf, up, pollout>>
    BY <1>4 DEF ClientRead, ReadLength, ReadAnswer
  <2>2. want' = want \/ want' = 0 \/ want' \in 1 .. client_max_msg
    BY <1>4 DEF ClientRead, ReadLength, ReadAnswer
  <2>3. want' \in 0 .. client_max_msg
    BY <2>2, SizeAssumption
  <2> QED BY <2>1, <2>3
<1>5. CASE Poll
  BY <1>5 DEF Poll, client
<1>6. CASE handle_read
  <2> DEFINE n == Least(k_read, Len(up))
  <2>1. n \in 0 .. Len(up)
    BY <1>1 DEF Least
  <2>2. up' = Drop(up, n)
    BY <1>6 DEF handle_read
  <2> HIDE DEF n
  <2>3. up' \in Seq(Datum) /\ Len(up') = Len(up) - n
    BY <2>1, <2>2, PartLengths
  <2>4. Len(up') <= SocketSize
    BY <1>1, <2>1, <2>3
  <2> QED BY <1>6, <2>3, <2>4 DEF handle_read, client
<1>7. CASE ExecuteRequest \/ LeaveLoop \/ Reply \/ handle_write
  BY <1>7 DEF ExecuteRequest, LeaveLoop, Reply, handle_write, client
<1>8. CASE UNCHANGED vars
  BY <1>8 DEF vars, client
<1> QED BY <1>2, <1>3, <1>4, <1>5, <1>6, <1>7, <1>8 DEF Next, Server

\* Every variable keeps its type, and no stream holds more than it can: neither the
\* client nor the server writes more than there is room for (write_all,
\* Conntion::handle_write).
THEOREM ConnectionTypeOK == Spec => []TypeOK
<1>1. IInv /\ RequestsOK => TypeOK
  BY DEF IInv, FlagsOK, Settled, Reading, AnswersOK, RequestsOK, TypeOK
<1>2. Spec => [](IInv /\ RequestsOK)
  BY InitHolds, NextHolds, InitRequests, NextRequests, PTL DEF Spec
<1> QED BY <1>1, <1>2, PTL
-----------------------------------------------------------------------------
(* Framing, for every client *)

\* The messages of what was asked, and what is left of them behind the first n.
Wires(cmds) == [i \in DOMAIN cmds |-> Frame(Body(cmds[i]))]
Rest(cmds, n) == FlattenSeq(Drop(Wires(cmds), n))

\* A sequence in front of others comes first in what they make.
LEMMA FlattenLead ==
  ASSUME NEW S, NEW x \in Seq(S), NEW t \in Seq(Seq(S))
  PROVE  FlattenSeq(<<x>> \o t) = x \o FlattenSeq(t)
<1> DEFINE U == Seq(S)
           n == Len(t)
           s == <<x>> \o t
<1>1. n \in Nat
  BY LenProperties
<1>2. Led(U, x, t)
  BY Lead
<1>3. s \in Seq(Seq(S)) /\ Len(s) = n + 1 /\ s[1] = x /\ \A j \in 1 .. n : s[j + 1] = t[j]
  BY <1>2 DEF Led
<1> HIDE DEF s
<1>4. PICK f : Grows(S, t, n, f)
  BY FlattenExists
<1>5. PICK g : Grows(S, s, Len(s), g)
  BY <1>3, FlattenExists
<1>6. FlattenSeq(t) = f[n] /\ FlattenSeq(s) = g[Len(s)]
  BY <1>3, <1>4, <1>5, FlattenIs
<1>7. \A k \in 1 .. n : t[k] \in Seq(S)
  BY LenProperties
<1> HIDE DEF n, U
<1>8. /\ f[0] = << >> /\ g[0] = << >>
      /\ \A k \in 0 .. n : f[k] \in Seq(S)
      /\ \A k \in 1 .. n : f[k] = f[k - 1] \o t[k]
      /\ \A k \in 1 .. n + 1 : g[k] = g[k - 1] \o s[k]
  BY <1>1, <1>3, <1>4, <1>5 DEF Grows
<1> DEFINE T == {k \in Nat : k <= n => g[k + 1] = x \o f[k]}
<1>9. 0 \in T
  <2>1. 1 \in 1 .. n + 1 /\ 1 - 1 = 0 /\ 0 + 1 = 1
    BY <1>1
  <2>2. g[1] = << >> \o x
    BY <1>3, <1>8, <2>1
  <2>3. << >> \o x = x /\ x \o << >> = x
    BY ConcatEmptySeq
  <2> QED BY <1>8, <2>1, <2>2, <2>3
<1>10. ASSUME NEW k \in Nat, k \in T PROVE k + 1 \in T
  <2> SUFFICES ASSUME k + 1 <= n PROVE g[(k + 1) + 1] = x \o f[k + 1]
    OBVIOUS
  <2> DEFINE j == k + 1
  <2>1. /\ j \in 1 .. n /\ j - 1 = k /\ k <= n /\ k \in 0 .. n
        /\ j + 1 \in 1 .. n + 1 /\ (j + 1) - 1 = j
    BY <1>1
  <2>2. g[j] = x \o f[k]
    BY <1>10, <2>1
  <2> HIDE DEF j
  <2>3. g[j + 1] = g[j] \o t[j] /\ f[j] = f[k] \o t[j]
    BY <1>3, <1>8, <2>1
  <2>4. f[k] \in Seq(S) /\ t[j] \in Seq(S)
    BY <1>7, <1>8, <2>1
  <2> DEFINE p == f[k]
             q == t[j]
  <2>5. Associates(x, p, q)
    <3>1. p \in Seq(S) /\ q \in Seq(S)
      BY <2>4
    <3> HIDE DEF p, q
    <3> QED BY <3>1, Associate
  <2>6. g[j + 1] = x \o f[j]
    BY <2>2, <2>3, <2>5 DEF Associates
  <2> QED BY <2>6 DEF j
<1> HIDE DEF T
<1>11. n \in T
  BY <1>1, <1>9, <1>10, Induction
<1>12. n <= n
  BY <1>1
<1>13. g[n + 1] = x \o f[n]
  BY <1>11, <1>12 DEF T
<1> QED BY <1>3, <1>6, <1>13 DEF s

\* The messages are sequences of data, one for each request.
LEMMA WiresType ==
  ASSUME NEW cmds \in Seq(Request)
  PROVE  /\ Wires(cmds) \in Seq(Seq(Datum)) /\ Len(Wires(cmds)) = Len(cmds)
         /\ \A i \in 1 .. Len(cmds) : Wires(cmds)[i] = Frame(Body(cmds[i]))
<1> DEFINE n == Len(cmds)
           w == Wires(cmds)
           D == Seq(Datum)
<1>1. n \in Nat /\ DOMAIN cmds = 1 .. n /\ \A i \in 1 .. n : cmds[i] \in Request
  BY LenProperties, ElementOfSeq
<1>2. w = [i \in 1 .. n |-> Frame(Body(cmds[i]))]
  BY <1>1 DEF Wires
<1>3. \A cmd \in Request : Frame(Body(cmd)) \in D
  BY BodyType
<1> HIDE DEF w, n, D
<1>4. \A i \in 1 .. n : w[i] = Frame(Body(cmds[i])) /\ w[i] \in D
  BY <1>1, <1>2, <1>3
<1>5. w \in [1 .. n -> D]
  BY <1>2, <1>4
<1>6. w \in Seq(D) /\ Len(w) = n
  BY <1>1, <1>5
<1> QED BY <1>4, <1>6 DEF w, n, D

\* The message of one request more.
LEMMA WiresAppend ==
  ASSUME NEW cmds \in Seq(Request), NEW cmd \in Request
  PROVE  Wires(Append(cmds, cmd)) = Append(Wires(cmds), Frame(Body(cmd)))
<1> DEFINE n == Len(cmds)
           more == Append(cmds, cmd)
           v == Wires(more)
           w == Wires(cmds)
           m == Frame(Body(cmd))
           u == Append(w, m)
           D == Seq(Datum)
<1>1. /\ n \in Nat /\ more \in Seq(Request) /\ Len(more) = n + 1 /\ more[n + 1] = cmd
      /\ \A i \in 1 .. n : more[i] = cmds[i]
  BY LenProperties, AppendProperties
<1> HIDE DEF more
<1>2. v \in Seq(D) /\ Len(v) = n + 1 /\ \A i \in 1 .. n + 1 : v[i] = Frame(Body(more[i]))
  BY <1>1, WiresType
<1>3. w \in Seq(D) /\ Len(w) = n /\ \A i \in 1 .. n : w[i] = Frame(Body(cmds[i]))
  BY WiresType
<1>4. m \in D
  BY BodyType
<1> HIDE DEF n, v, w, D
<1>5. /\ u \in Seq(D) /\ Len(u) = n + 1 /\ u[n + 1] = m
      /\ \A i \in 1 .. n : u[i] = w[i]
  <2> HIDE DEF m
  <2> QED BY <1>3, <1>4, AppendProperties
<1> HIDE DEF u
<1>6. ASSUME NEW i \in 1 .. Len(v) PROVE v[i] = u[i]
  <2>1. i \in 1 .. n + 1 /\ (i \in 1 .. n \/ i = n + 1)
    BY <1>1, <1>2
  <2>2. CASE i = n + 1
    BY <1>1, <1>2, <1>5, <2>1, <2>2 DEF m
  <2>3. CASE i \in 1 .. n
    BY <1>1, <1>2, <1>3, <1>5, <2>1, <2>3
  <2> QED BY <2>1, <2>2, <2>3
<1>7. v = u
  BY <1>2, <1>5, <1>6, SeqEqual
<1> QED BY <1>7 DEF v, u, w, m, more

\* The first message of the rest is that of the next request.
RestBegins(cmds, n, cmd) ==
  /\ Rest(cmds, n) = Frame(Body(cmd)) \o Rest(cmds, n + 1)
  /\ Rest(cmds, n + 1) \in Seq(Datum)

LEMMA RestFirst ==
  ASSUME NEW cmds \in Seq(Request), NEW n \in Nat, n < Len(cmds)
  PROVE  cmds[n + 1] \in Request /\ RestBegins(cmds, n, cmds[n + 1])
<1> DEFINE D == Seq(Datum)
           w == Wires(cmds)
           d == Drop(w, n)
           e == Drop(w, n + 1)
           m == Frame(Body(cmds[n + 1]))
<1>1. w \in Seq(D) /\ Len(w) = Len(cmds) /\ Len(cmds) \in Nat /\ w[n + 1] = m
  <2>1. n + 1 \in 1 .. Len(cmds)
    BY LenProperties
  <2> QED BY <2>1, WiresType, LenProperties
<1>2. cmds[n + 1] \in Request
  <2>1. n + 1 \in 1 .. Len(cmds)
    BY <1>1
  <2> QED BY <2>1, ElementOfSeq
<1>3. m \in D
  BY <1>2, BodyType
<1> HIDE DEF w, m
<1>4. n \in 0 .. Len(w) /\ n + 1 \in 0 .. Len(w)
  BY <1>1
<1>5. d \in Seq(D) /\ Len(d) = Len(w) - n /\ \A i \in 1 .. Len(w) - n : d[i] = w[n + i]
  BY <1>1, <1>4, Parts
<1>6. d[1] = m
  BY <1>1, <1>4, <1>5
<1>7. d # << >>
  BY <1>1, <1>5, EmptySeq
<1>8. e = Drop(d, 1) /\ e \in Seq(D)
  <2>1. n + 1 <= Len(w)
    BY <1>4
  <2>2. Drop(Drop(w, n), 1) = Drop(w, n + 1)
    <3> HIDE DEF D
    <3> QED BY <1>1, <2>1, DropTwice
  <2>3. e \in Seq(D)
    <3> HIDE DEF D
    <3> QED BY <1>1, <1>4, Parts
  <2> QED BY <2>2, <2>3
<1> HIDE DEF d, e
<1>9. Tail(d) \in Seq(D) /\ <<m>> \o Tail(d) = d
  <2> HIDE DEF D
  <2>1. Tail(d) \in Seq(D) /\ <<Head(d)>> \o Tail(d) = d /\ Head(d) = d[1]
    BY <1>5, <1>7, FirstOff
  <2> QED BY <1>6, <2>1
<1>10. Drop(<<m>> \o Tail(d), 1) = Tail(d)
  <2> DEFINE one == <<m>>
             t == Tail(d)
  <2>1. one \in Seq(D) /\ Len(one) = 1 /\ t \in Seq(D)
    BY <1>3, <1>9
  <2> HIDE DEF D, one, t
  <2>2. Drop(one \o t, Len(one)) = t
    BY <2>1, DropFront
  <2> QED BY <2>1, <2>2 DEF one, t
<1>11. d = <<m>> \o e
  BY <1>8, <1>9, <1>10
<1>12. FlattenSeq(<<m>> \o e) = m \o FlattenSeq(e) /\ FlattenSeq(e) \in Seq(Datum)
  BY <1>3, <1>8, FlattenLead, FlattenType
<1>13. Rest(cmds, n) = m \o Rest(cmds, n + 1) /\ Rest(cmds, n + 1) \in Seq(Datum)
  BY <1>11, <1>12 DEF Rest, d, e, w
<1> QED BY <1>2, <1>13 DEF RestBegins, m

\* The message of a new request comes last.
RestEnds(cmds, n, cmd) == Rest(Append(cmds, cmd), n) = Rest(cmds, n) \o Frame(Body(cmd))

LEMMA RestLast ==
  ASSUME NEW cmds \in Seq(Request), NEW n \in 0 .. Len(cmds), NEW cmd \in Request
  PROVE  RestEnds(cmds, n, cmd)
<1> DEFINE D == Seq(Datum)
           w == Wires(cmds)
           m == Frame(Body(cmd))
           d == Drop(w, n)
           one == <<m>>
<1>1. w \in Seq(D) /\ n \in 0 .. Len(w)
  BY WiresType
<1>2. m \in D
  BY BodyType
<1>3. Wires(Append(cmds, cmd)) = Append(w, m)
  BY WiresAppend
<1> HIDE DEF w, m
<1>4. one \in Seq(D)
  BY <1>2
<1>5. d \in Seq(D)
  <2> HIDE DEF D
  <2> QED BY <1>1, Parts
<1>6. Append(w, m) = w \o one /\ Append(d, m) = d \o one
  <2> HIDE DEF D, d
  <2> QED BY <1>1, <1>2, <1>5, AppendIsConcat
<1>7. Drop(w \o one, n) = d \o one
  <2> HIDE DEF D, one
  <2> QED BY <1>1, <1>4, DropSome
<1>8. Drop(Append(w, m), n) = Append(d, m)
  BY <1>6, <1>7
<1>9. FlattenSeq(Append(d, m)) = FlattenSeq(d) \o m
  <2> HIDE DEF d
  <2> QED BY <1>2, <1>5, FlattenAppend
<1> QED BY <1>3, <1>8, <1>9 DEF RestEnds, Rest, w, m

\* What is on the way to the server are the messages of the last requests, whole.
Ahead(n) == n \in Len(executed) .. Len(sent) /\ Requests = Rest(sent, n)

Framed ==
  /\ RequestsOK
  /\ read_buffer \in Seq(Datum)
  /\ \E C : executed \in Seq(C)
  /\ \E n : Ahead(n)

\* A step of the two streams moves their cuts only.
LEMMA SameFrames ==
  ASSUME Framed, RequestsOK', read_buffer' \in Seq(Datum),
         UNCHANGED <<sent, executed, Requests>>
  PROVE  Framed'
<1>1. PICK n : Ahead(n)
  BY DEF Framed
<1>2. Ahead(n)'
  BY <1>1 DEF Ahead, Rest, Wires
<1>3. (\E C : executed \in Seq(C))'
  BY DEF Framed
<1> QED BY <1>2, <1>3 DEF Framed

\* What has been read is a whole message, when HasRequest says so, and what is left
\* of it when it is consumed begins with the next one.
LEMMA ConsumesOne ==
  ASSUME Framed, HasRequest, NEW n, Ahead(n)
  PROVE  /\ n \in Nat /\ n < Len(sent)
         /\ Unconsumed \in Seq(Datum)
         /\ Unconsumed \o up \o wbuf = Rest(sent, n + 1)
<1> DEFINE x == up \o wbuf
           r == Rest(sent, n)
           t == Rest(sent, n + 1)
           k == read_buffer[1] + 1
<1>1. /\ sent \in Seq(Request) /\ read_buffer \in Seq(Datum)
      /\ up \in Seq(Datum) /\ wbuf \in Seq(Datum) /\ read_buffer # << >>
      /\ Len(sent) \in Nat /\ Len(executed) \in Nat /\ Len(read_buffer) >= k
  BY LenProperties DEF Framed, RequestsOK, HasRequest
<1>2. n \in Nat /\ n <= Len(sent) /\ Requests = r
  BY <1>1 DEF Ahead
<1>3. x \in Seq(Datum)
  BY <1>1, ConcatProperties
<1>4. Requests = read_buffer \o x
  <2>1. Associates(read_buffer, up, wbuf)
    BY <1>1, Associate
  <2> QED BY <2>1 DEF Associates, Requests
<1> HIDE DEF x, r
<1>5. n < Len(sent)
  <2> SUFFICES ASSUME n = Len(sent) PROVE FALSE
    BY <1>1, <1>2
  <2>1. Drop(Wires(sent), n) = << >>
    BY <1>1, WiresType, DropAll
  <2>2. r = << >>
    BY <2>1, FlattenEmpty DEF Rest, r
  <2>3. read_buffer = << >>
    BY <1>1, <1>2, <1>3, <1>4, <2>2, BothEmpty
  <2> QED BY <1>1, <2>3
<1> DEFINE b == Body(sent[n + 1])
           m == Frame(b)
<1>6. sent[n + 1] \in Request /\ r = m \o t /\ t \in Seq(Datum)
  BY <1>1, <1>2, <1>5, RestFirst DEF RestBegins, r
<1>7. m \in Seq(Datum) /\ Len(m) = Len(b) + 1 /\ m[1] = Len(b) /\ Len(b) \in Nat
  BY <1>6, BodyType
<1> HIDE DEF t, m, b
<1>8. read_buffer \o x = m \o t
  BY <1>2, <1>4, <1>6
<1>9. read_buffer[1] = m[1]
  <2> DEFINE a == read_buffer
             s == a \o x
             u == m \o t
  <2>1. a \in Seq(Datum) /\ Len(a) \in Nat \ {0} /\ Len(x) \in Nat /\ Len(t) \in Nat
    BY <1>1, <1>3, <1>6, EmptySeq, LenProperties
  <2>2. \A i \in 1 .. Len(a) + Len(x) : s[i] = IF i <= Len(a) THEN a[i] ELSE x[i - Len(a)]
    BY <1>3, <2>1, ConcatProperties
  <2>3. \A i \in 1 .. Len(m) + Len(t) : u[i] = IF i <= Len(m) THEN m[i] ELSE t[i - Len(m)]
    BY <1>6, <1>7, ConcatProperties
  <2> HIDE DEF a, s, u
  <2>4. s[1] = a[1]
    BY <2>1, <2>2
  <2>5. u[1] = m[1]
    BY <1>7, <2>1, <2>3
  <2>6. s = u
    BY <1>8 DEF s, u, a
  <2> QED BY <2>4, <2>5, <2>6 DEF a
<1>10. k = Len(m) /\ k \in 0 .. Len(read_buffer)
  <2>1. Len(read_buffer) \in Nat
    BY <1>1, LenProperties
  <2> QED BY <1>1, <1>7, <1>9, <2>1
<1> HIDE DEF k
<1>11. Drop(read_buffer \o x, k) = Drop(read_buffer, k) \o x
  BY <1>1, <1>3, <1>10, DropSome
<1>12. Drop(m \o t, k) = t
  BY <1>6, <1>7, <1>10, DropFront
<1>13. Unconsumed = Drop(read_buffer, k)
  BY DEF Unconsumed, k
<1>14. Unconsumed \in Seq(Datum)
  BY <1>1, <1>10, <1>13, PartLengths
<1>15. Unconsumed \o x = t
  BY <1>8, <1>11, <1>12, <1>13
<1>16. Unconsumed \o up \o wbuf = Unconsumed \o x
  <2> DEFINE p == Unconsumed
  <2>1. p \in Seq(Datum)
    BY <1>14
  <2> HIDE DEF p
  <2>2. Associates(p, up, wbuf)
    BY <1>1, <2>1, Associate
  <2> QED BY <2>2 DEF Associates, x, p
<1> QED BY <1>2, <1>5, <1>14, <1>15, <1>16 DEF t

\* At first nothing is asked,
LEMMA InitFramed == Init => Framed
<1> SUFFICES ASSUME Init PROVE Framed
  OBVIOUS
<1>1. /\ RequestsOK /\ sent = << >> /\ executed = << >>
      /\ read_buffer = << >> /\ up = << >> /\ wbuf = << >>
  BY InitRequests DEF Init
<1>2. sent \in Seq(Request) /\ executed \in Seq(Request) /\ read_buffer \in Seq(Datum)
      /\ Len(sent) = 0 /\ Len(executed) = 0
  BY <1>1, EmptySeq
<1>3. Requests = << >>
  <2>1. << >> \o << >> \o << >> = << >>
    OBVIOUS
  <2> QED BY <1>1, <2>1 DEF Requests
<1>4. Rest(sent, 0) = << >>
  <2>1. Wires(sent) \in Seq(Seq(Datum)) /\ Len(Wires(sent)) = 0
    BY <1>2, WiresType
  <2>2. Drop(Wires(sent), 0) = << >>
    BY <2>1, DropAll
  <2> QED BY <2>2, FlattenEmpty DEF Rest
<1>5. Ahead(0)
  BY <1>2, <1>3, <1>4 DEF Ahead
<1> QED BY <1>1, <1>2, <1>5 DEF Framed

\* and every step keeps to whole messages: the reads and writes move the cuts, a
\* request consumed takes one message off, executed or not.
LEMMA NextFramed == Framed /\ [Next]_vars => Framed'
<1> SUFFICES ASSUME Framed, [Next]_vars PROVE Framed'
  OBVIOUS
<1>1. /\ RequestsOK' /\ sent \in Seq(Request) /\ read_buffer \in Seq(Datum)
      /\ up \in Seq(Datum) /\ wbuf \in Seq(Datum)
      /\ Len(sent) \in Nat /\ Len(executed) \in Nat /\ Len(wbuf) \in Nat
      /\ Len(up) \in Nat /\ SocketSize \in Nat /\ k_read \in Nat
  BY NextRequests, LenProperties, SizeAssumption DEF Framed, RequestsOK
<1>2. PICK C : executed \in Seq(C)
  BY DEF Framed
<1>3. PICK n : Ahead(n)
  BY DEF Framed
<1>4. n \in 0 .. Len(sent) /\ n >= Len(executed)
  BY <1>1, <1>3 DEF Ahead
<1>5. ASSUME NEW cmd \in Request, Send(cmd) PROVE Framed'
  <2> DEFINE q == read_buffer \o up
             m == Frame(Body(cmd))
  <2>1. /\ wbuf = << >> /\ sent' = Append(sent, cmd) /\ wbuf' = m
        /\ UNCHANGED <<executed, read_buffer, up>>
    BY <1>5 DEF Send
  <2>2. q \in Seq(Datum)
    BY <1>1, ConcatProperties
  <2> HIDE DEF q, m
  <2>3. Requests = q \o << >> /\ Requests' = q \o m
    BY <2>1 DEF Requests, q
  <2>4. Requests' = Requests \o m
    BY <2>2, <2>3, ConcatEmptySeq
  <2>5. RestEnds(sent, n, cmd)
    BY <1>1, <1>4, RestLast
  <2>6. Requests' = Rest(sent', n)
    BY <1>3, <2>1, <2>4, <2>5 DEF Ahead, RestEnds, m
  <2>7. Len(sent') = Len(sent) + 1
    BY <1>1, <2>1
  <2>8. n \in Len(executed') .. Len(sent')
    BY <1>1, <1>4, <2>1, <2>7
  <2>9. Ahead(n)'
    BY <2>6, <2>8 DEF Ahead, Rest, Wires
  <2>10. executed' \in Seq(C)
    BY <1>2, <2>1
  <2> QED BY <1>1, <2>1, <2>9, <2>10 DEF Framed
<1>6. CASE ClientWrite
  <2>1. PICK i \in 1 .. Least(Len(wbuf), SocketSize - Len(up)) :
          up' = up \o Take(wbuf, i) /\ wbuf' = Drop(wbuf, i)
    BY <1>6 DEF ClientWrite
  <2>2. i \in 0 .. Len(wbuf)
    BY <1>1 DEF Least
  <2> DEFINE x == Take(wbuf, i)
             y == Drop(wbuf, i)
  <2>3. x \in Seq(Datum) /\ y \in Seq(Datum) /\ x \o y = wbuf
    BY <1>1, <2>2, Parts
  <2>4. up' = up \o x /\ wbuf' = y /\ UNCHANGED <<sent, executed, read_buffer>>
    BY <1>6, <2>1 DEF ClientWrite
  <2> HIDE DEF x, y
  <2>5. Regrouped(read_buffer, up, x, y)
    BY <1>1, <2>3, Regroup
  <2>6. Requests' = Requests
    BY <2>3, <2>4, <2>5 DEF Requests, Regrouped
  <2> QED BY <1>1, <2>4, <2>6, SameFrames
<1>7. CASE handle_read
  <2> DEFINE i == Least(k_read, Len(up))
             x == Take(up, i)
             y == Drop(up, i)
  <2>1. i \in 0 .. Len(up)
    BY <1>1 DEF Least
  <2>2. read_buffer' = read_buffer \o x /\ up' = y /\ UNCHANGED <<sent, executed, wbuf>>
    BY <1>7 DEF handle_read, client
  <2> HIDE DEF i
  <2>3. x \in Seq(Datum) /\ y \in Seq(Datum) /\ x \o y = up
    BY <1>1, <2>1, Parts
  <2> HIDE DEF x, y
  <2>4. read_buffer \o x \in Seq(Datum)
    BY <1>1, <2>3, ConcatProperties
  <2>5. Associates(read_buffer, x, y)
    BY <1>1, <2>3, Associate
  <2>6. Requests' = Requests
    BY <2>2, <2>3, <2>5 DEF Requests, Associates
  <2> QED BY <1>1, <2>2, <2>4, <2>6, SameFrames
<1>8. ASSUME HasRequest, read_buffer' = Unconsumed, UNCHANGED <<sent, up, wbuf>>,
             \/ executed' = executed
             \/ executed' = Append(executed, parser_req(request_data).args)
      PROVE  Framed'
  <2> DEFINE args == parser_req(request_data).args
  <2>1. /\ n < Len(sent) /\ Unconsumed \in Seq(Datum)
        /\ Unconsumed \o up \o wbuf = Rest(sent, n + 1)
    BY <1>3, <1>8, ConsumesOne
  <2>2. Requests' = Rest(sent', n + 1)
    BY <1>8, <2>1 DEF Requests
  <2>3. executed' = executed \/ executed' = Append(executed, args)
    BY <1>8
  <2> HIDE DEF args
  <2>4. executed' \in Seq(C \cup {args}) /\ Len(executed') <= Len(executed) + 1
        /\ Len(executed') \in Nat
    <3> DEFINE V == C \cup {args}
    <3>1. executed \in Seq(V) /\ args \in V
      BY <1>2, SeqMonotonic
    <3> HIDE DEF V
    <3>2. Append(executed, args) \in Seq(V) /\ Len(Append(executed, args)) = Len(executed) + 1
      BY <3>1, AppendProperties
    <3>3. executed' \in Seq(V)
      BY <2>3, <3>1, <3>2
    <3>4. Len(executed') <= Len(executed) + 1 /\ Len(executed') \in Nat
      <4> QED BY <1>1, <2>3, <3>2
    <3> QED BY <3>3, <3>4 DEF V
  <2>5. n + 1 \in Len(executed') .. Len(sent')
    BY <1>1, <1>4, <1>8, <2>1, <2>4
  <2>6. Ahead(n + 1)'
    BY <2>2, <2>5 DEF Ahead, Rest, Wires
  <2> QED BY <1>1, <1>8, <2>1, <2>4, <2>6 DEF Framed
<1>9. CASE ExecuteRequest
  BY <1>8, <1>9 DEF ExecuteRequest, client
<1>10. CASE LeaveLoop
  <2>1. UNCHANGED <<sent, up, wbuf, executed>>
    BY <1>10 DEF LeaveLoop, client
  <2>2. CASE UNCHANGED read_buffer
    BY <1>1, <2>1, <2>2, SameFrames DEF Requests
  <2>3. CASE HasRequest /\ read_buffer' = Unconsumed
    BY <1>8, <2>1, <2>3
  <2> QED BY <1>10, <2>2, <2>3 DEF LeaveLoop
<1>11. ASSUME UNCHANGED <<sent, executed, read_buffer, up, wbuf>> PROVE Framed'
  BY <1>1, <1>11, SameFrames DEF Requests
<1>12. CASE ClientRead \/ Poll \/ Reply \/ handle_write \/ UNCHANGED vars
  BY <1>11, <1>12 DEF ClientRead, ReadLength, ReadAnswer, Poll, Reply, handle_write, client, vars
<1> QED BY <1>5, <1>6, <1>7, <1>9, <1>10, <1>12 DEF Next, Server

\* What is on its way are the messages of the last requests, whole.
WholeFrames == \E n \in Len(executed) .. Len(sent) : FramesFrom(n)

\* Whatever the client sends, and however far ahead of the answers: what the server
\* has not consumed are the messages of its last requests, whole, and for each
\* command executed one message is gone (try_one_request, buffer_consume).
THEOREM FramesWhole == Spec => []WholeFrames
<1>1. Framed => WholeFrames
  <2> SUFFICES ASSUME Framed PROVE WholeFrames
    OBVIOUS
  <2>1. PICK n : Ahead(n)
    BY DEF Framed
  <2> QED BY <2>1 DEF Ahead, Requests, Rest, Wires, WholeFrames, FramesFrom
<1> QED BY <1>1, InitFramed, NextFramed, PTL DEF Spec
=============================================================================
