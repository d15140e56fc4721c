---------------------------- MODULE ServerProofs ----------------------------
(***************************************************************************)
(* The tables of the server and the pieces of the answers, for any number  *)
(* of clients and descriptors and any size of answers and sockets.         *)
(***************************************************************************)
EXTENDS Server, SequenceTheorems, TLAPS

\* A connection that waits to be accepted waits once and has no descriptor yet, and
\* only clients that have connected have either.
Queued ==
  /\ pc = "accept" => backlog # << >>
  /\ \A i, j \in DOMAIN backlog : backlog[i] = backlog[j] => i = j
  /\ \A i \in DOMAIN backlog : phase[backlog[i]] # "new"
  /\ \A i \in DOMAIN backlog, f \in Fd : socket[f] # backlog[i]
  /\ \A f \in Fd : socket[f] # NULL => phase[socket[f]] # "new"

\* The server's end of a socket tells who has left: only there is data ended or an
\* error pending or reported, and no more answers are on their way there.
Leaving ==
  /\ \A c \in Client : closed[c] = "no" <=> phase[c] # "gone"
  /\ \A c \in Client : sk_err[c] # "none" => phase[c] = "gone"
  /\ \A f \in Fd : "err" \in revents[f] => phase[socket[f]] = "gone"
  /\ \A c \in Client : phase[c] = "gone" => down[c] = 0

\* A client that has left no text of an answer behind waits when its request is in the
\* socket, and waits still, for an answer to no other one, when an answer over its limit
\* is sent to it.
Asks(c) ==
  phase[c] # "gone" =>
    /\ asked[c] => over[c] = "past" \/ (phase[c] = "waiting" /\ over[c] = "no")
    /\ over[c] = "next" => phase[c] = "waiting" /\ ~asked[c]
Asking == \A c \in Client : Asks(c)

\* What NothingLost says of one client: of the pieces between it and the server, and of
\* those of the answer it waits for.
Between(c) == phase[c] # "gone" => down[c] + unsent[c] = due[c]
Whole(c) ==
  phase[c] # "gone" /\ over[c] # "past" =>
    got[c] + due[c] = IF phase[c] # "waiting" \/ asked[c] THEN 0
                      ELSE IF over[c] = "next" THEN ListingSize ELSE AnswerSize

LEMMA Pieces == NothingLost <=> \A c \in Client : Between(c) /\ Whole(c)
BY DEF NothingLost, Between, Whole, Size

LEMMA PiecesNext == (\A c \in Client : Between(c)' /\ Whole(c)') => NothingLost'
BY DEF NothingLost, Between, Whole, Size

IInv ==
  /\ TypeOK /\ PoolMatches /\ NothingLost /\ EndsOnlyAmidAnswer
  /\ Queued /\ Leaving /\ Asking
-----------------------------------------------------------------------------
\* No client has connected, and no descriptor is open.
LEMMA InitHolds == Init => IInv
<1> SUFFICES ASSUME Init PROVE IInv
  OBVIOUS
<1>1. backlog = << >> /\ backlog \in Seq(Client) /\ DOMAIN backlog = {}
  BY EmptySeq, LenProperties DEF Init
<1>2. TypeOK
  BY <1>1, SizeAssumption DEF Init, TypeOK
<1>3. PoolMatches /\ NothingLost /\ EndsOnlyAmidAnswer
  BY DEF Init, PoolMatches, NothingLost, EndsOnlyAmidAnswer, Size
<1>4. Queued
  BY <1>1 DEF Init, Queued
<1>5. Leaving /\ Asking
  BY DEF Init, Leaving, Asking, Asks
<1> QED BY <1>2, <1>3, <1>4, <1>5 DEF IInv

-----------------------------------------------------------------------------
(* The clients *)

\* A new client stands behind those that wait, and is none of them.
LEMMA ConnectStep ==
  ASSUME IInv, NEW c \in Client, Connect(c)
  PROVE  IInv'
<1> USE DEF IInv, client, wire, conn, loop
<1>1. /\ backlog \in Seq(Client) /\ Len(backlog) \in Nat /\ DOMAIN backlog = 1 .. Len(backlog)
      /\ backlog' = Append(backlog, c)
  BY LenProperties DEF TypeOK, Connect
<1>2. /\ backlog' \in Seq(Client) /\ DOMAIN backlog' = 1 .. Len(backlog) + 1
      /\ \A i \in 1 .. Len(backlog) : backlog'[i] = backlog[i]
      /\ backlog'[Len(backlog) + 1] = c /\ backlog' # << >>
  <2>1. /\ backlog' \in Seq(Client) /\ Len(backlog') = Len(backlog) + 1 /\ backlog' # << >>
        /\ \A i \in 1 .. Len(backlog) : backlog'[i] = backlog[i]
        /\ backlog'[Len(backlog) + 1] = c
    BY <1>1, AppendProperties
  <2> QED BY <2>1, LenProperties
<1>3. TypeOK'
  BY <1>2 DEF TypeOK, Connect
<1>4. PoolMatches' /\ NothingLost' /\ EndsOnlyAmidAnswer'
  <2>1. \A d \in Client : Between(d)' /\ Whole(d)'
    BY Pieces DEF Connect, TypeOK, Between, Whole
  <2>2. NothingLost'
    BY <2>1, PiecesNext
  <2> QED BY <2>2 DEF Connect, TypeOK, PoolMatches, EndsOnlyAmidAnswer
<1>5. Queued'
  <2>1. \A i \in 1 .. Len(backlog) : backlog[i] # c
    BY <1>1 DEF Connect, Queued
  <2>2. \A f \in Fd : socket[f] # c
    BY ClientAssumption DEF Connect, Queued
  <2>3. \A i \in DOMAIN backlog' : i \in 1 .. Len(backlog) \/ i = Len(backlog) + 1
    BY <1>1, <1>2
  <2>4. \A i, j \in DOMAIN backlog' : backlog'[i] = backlog'[j] => i = j
    BY <1>1, <1>2, <2>1, <2>3 DEF Queued
  <2>5. \A i \in DOMAIN backlog' : phase'[backlog'[i]] # "new"
    <3> TAKE i \in DOMAIN backlog'
    <3>1. CASE i = Len(backlog) + 1
      BY <1>2, <3>1 DEF Connect, TypeOK
    <3>2. CASE i \in 1 .. Len(backlog)
      <4>1. backlog'[i] = backlog[i] /\ phase[backlog[i]] # "new" /\ backlog[i] # c
        BY <1>1, <1>2, <2>1, <3>2 DEF Queued
      <4> QED BY <4>1 DEF Connect, TypeOK
    <3> QED BY <2>3, <3>1, <3>2
  <2>6. \A i \in DOMAIN backlog', f \in Fd : socket'[f] # backlog'[i]
    BY <1>1, <1>2, <2>2, <2>3 DEF Queued, Connect
  <2>7. \A f \in Fd : socket'[f] # NULL => phase'[socket'[f]] # "new"
    BY <2>2 DEF Queued, Connect, TypeOK
  <2> QED BY <1>2, <2>4, <2>5, <2>6, <2>7 DEF Queued
<1>6. Leaving' /\ Asking'
  BY DEF Connect, TypeOK, Leaving, Asking, Asks, PoolMatches
<1> QED BY <1>3, <1>4, <1>5, <1>6

\* A request goes out when no piece of an answer is left, unless the client has given up
\* on one.
LEMMA AskStep ==
  ASSUME IInv, NEW c \in Client, Ask(c)
  PROVE  IInv'
<1> USE DEF IInv, client, wire, conn, loop
<1>1. TypeOK'
  BY DEF TypeOK, Ask
<1>2. PoolMatches' /\ EndsOnlyAmidAnswer'
  BY DEF Ask, TypeOK, PoolMatches, EndsOnlyAmidAnswer
<1>3. NothingLost' /\ Asking'
  <2>1. Between(c) /\ Whole(c) /\ Asks(c)
    BY Pieces DEF Asking
  <2>2. over[c] # "past" => got[c] + due[c] = 0
    BY <2>1 DEF Ask, Whole
  <2>3. Between(c)' /\ Whole(c)' /\ Asks(c)'
    BY <2>1, <2>2 DEF Ask, TypeOK, Between, Whole, Asks
  <2>4. \A d \in Client \ {c} : Between(d)' /\ Whole(d)' /\ Asks(d)'
    BY Pieces DEF Ask, TypeOK, Between, Whole, Asks, Asking
  <2> QED BY <2>3, <2>4, PiecesNext DEF Asking
<1>4. Queued'
  <2>1. phase' = [phase EXCEPT ![c] = "waiting"] /\ UNCHANGED <<backlog, socket, pc>>
    BY DEF Ask
  <2>2. \A d \in Client : phase[d] # "new" => phase'[d] # "new"
    BY <2>1 DEF TypeOK
  <2>3. \A i \in DOMAIN backlog : backlog[i] \in Client
    BY ElementOfSeq, LenProperties DEF TypeOK
  <2>4. \A f \in Fd : socket[f] # NULL => socket[f] \in Client
    BY DEF TypeOK
  <2> QED BY <2>1, <2>2, <2>3, <2>4 DEF Queued
<1>5. Leaving'
  BY DEF Ask, TypeOK, Leaving, PoolMatches
<1> QED BY <1>1, <1>2, <1>3, <1>4, <1>5

\* A piece moves from the socket to the client, or it gives up on an answer.
LEMMA ReadStep ==
  ASSUME IInv, NEW c \in Client, ReadAnswer(c)
  PROVE  IInv'
<1> USE DEF IInv, client, wire, conn, loop
<1>1. /\ got[c] \in 0 .. AnswerSize - 1 /\ down[c] \in 1 .. SocketSize
      /\ unsent[c] \in Nat /\ due[c] \in Nat
      /\ AnswerSize \in Nat \ {0} /\ SocketSize \in Nat
  BY SizeAssumption DEF TypeOK, ReadAnswer
<1>2. Between(c) /\ Whole(c) /\ Asks(c)
  BY Pieces DEF Asking
<1>3. down[c] + unsent[c] = due[c] /\ due[c] - 1 \in Nat /\ down[c] - 1 \in 0 .. SocketSize
  BY <1>1, <1>2 DEF Between, ReadAnswer
<1>4. /\ phase[c] = "waiting" /\ UNCHANGED <<backlog, asked, closed, sk_err, conn, loop>>
      /\ ReadPiece(c) \/ GiveUp(c) \/ ReadLeftOver(c)
  BY DEF ReadAnswer
<1> DEFINE Fine == /\ TypeOK' /\ Between(c)' /\ Whole(c)' /\ Asks(c)'
                   /\ phase'[c] \in {"waiting", "idle"}
                   /\ \A d \in Client \ {c} : /\ phase'[d] = phase[d] /\ got'[d] = got[d]
                                              /\ over'[d] = over[d] /\ due'[d] = due[d]
                                              /\ down'[d] = down[d]
<1>5. ASSUME ReadPiece(c) PROVE Fine
  <2>1. /\ over[c] = "no" /\ over' = over
        /\ down' = [down EXCEPT ![c] = @ - 1] /\ due' = [due EXCEPT ![c] = @ - 1]
    BY <1>5 DEF ReadPiece, Taken
  <2>2. ~asked[c] /\ got[c] + due[c] = AnswerSize
    <3>1. got[c] + due[c] # 0
      BY <1>1, <1>3
    <3> QED BY <1>2, <1>4, <2>1, <3>1 DEF Whole
  <2>3. CASE got[c] + 1 = AnswerSize
    <3>1. got' = [got EXCEPT ![c] = 0] /\ phase' = [phase EXCEPT ![c] = "idle"]
      BY <1>5, <2>3 DEF ReadPiece
    <3>2. due[c] = 1 /\ down[c] = 1 /\ unsent[c] = 0
      BY <1>1, <1>3, <2>2, <2>3
    <3>3. TypeOK'
      <4>1. 0 \in 0 .. AnswerSize - 1
        BY <1>1
      <4> QED BY <1>3, <1>4, <2>1, <3>1, <4>1 DEF TypeOK
    <3>4. got'[c] = 0 /\ due'[c] = 0 /\ down'[c] = 0 /\ unsent'[c] = 0 /\ phase'[c] = "idle"
          /\ over'[c] = "no" /\ ~asked'[c]
      BY <1>4, <2>1, <2>2, <3>1, <3>2 DEF TypeOK
    <3>5. Between(c)' /\ Whole(c)' /\ Asks(c)'
      BY <3>4 DEF Between, Whole, Asks
    <3>6. \A d \in Client \ {c} : /\ phase'[d] = phase[d] /\ got'[d] = got[d]
                                  /\ due'[d] = due[d] /\ down'[d] = down[d]
      BY <2>1, <3>1 DEF TypeOK
    <3> QED BY <2>1, <3>3, <3>4, <3>5, <3>6
  <2>4. CASE got[c] + 1 # AnswerSize
    <3>1. got' = [got EXCEPT ![c] = @ + 1] /\ phase' = phase
      BY <1>5, <2>4 DEF ReadPiece
    <3>2. got[c] + 1 \in 0 .. AnswerSize - 1
      BY <1>1, <2>4
    <3>3. TypeOK'
      BY <1>3, <1>4, <2>1, <3>1, <3>2 DEF TypeOK
    <3>4. /\ got'[c] = got[c] + 1 /\ due'[c] = due[c] - 1 /\ down'[c] = down[c] - 1
          /\ unsent'[c] = unsent[c] /\ phase'[c] = "waiting" /\ over'[c] = "no" /\ ~asked'[c]
      BY <1>4, <2>1, <2>2, <3>1 DEF TypeOK
    <3>5. got'[c] + due'[c] = AnswerSize /\ down'[c] + unsent'[c] = due'[c]
      BY <1>1, <1>3, <2>2, <3>4
    <3>6. Between(c)' /\ Whole(c)' /\ Asks(c)'
      BY <3>4, <3>5 DEF Between, Whole, Asks
    <3>7. \A d \in Client \ {c} : /\ phase'[d] = phase[d] /\ got'[d] = got[d]
                                  /\ due'[d] = due[d] /\ down'[d] = down[d]
      BY <2>1, <3>1 DEF TypeOK
    <3> QED BY <2>1, <3>3, <3>4, <3>6, <3>7
  <2> QED BY <2>3, <2>4
<1>6. ASSUME GiveUp(c) PROVE Fine
  <2>1. /\ over[c] = "next" /\ over' = [over EXCEPT ![c] = "past"]
        /\ phase' = [phase EXCEPT ![c] = "idle"] /\ UNCHANGED <<got, due, down>>
    BY <1>6 DEF GiveUp
  <2>2. TypeOK'
    BY <1>4, <2>1 DEF TypeOK
  <2>3. over'[c] = "past" /\ phase'[c] = "idle" /\ ~asked'[c]
    BY <1>2, <1>4, <2>1 DEF TypeOK, Asks
  <2>4. Between(c)' /\ Whole(c)' /\ Asks(c)'
    BY <1>3, <1>4, <2>1, <2>3 DEF Between, Whole, Asks
  <2> QED BY <2>1, <2>2, <2>3, <2>4 DEF TypeOK
<1>7. ASSUME ReadLeftOver(c) PROVE Fine
  <2>1. over[c] = "past" /\ UNCHANGED <<got, over>>
    BY <1>7 DEF ReadLeftOver
  <2>2. PICK p \in {"idle", "waiting"} : phase' = [phase EXCEPT ![c] = p]
    BY <1>7 DEF ReadLeftOver
  <2>3. \/ UNCHANGED <<due, down>>
        \/ down' = [down EXCEPT ![c] = @ - 1] /\ due' = [due EXCEPT ![c] = @ - 1]
    BY <1>7 DEF ReadLeftOver, Taken
  <2>4. TypeOK'
    <3>1. phase' \in [Client -> {"new", "idle", "waiting", "gone"}]
      BY <2>2 DEF TypeOK
    <3>2. due' \in [Client -> Nat] /\ down' \in [Client -> 0 .. SocketSize]
      <4>1. due[c] - 1 \in Nat /\ down[c] - 1 \in 0 .. SocketSize
        BY <1>3
      <4>2. due \in [Client -> Nat] /\ down \in [Client -> 0 .. SocketSize]
        BY DEF TypeOK
      <4>3. CASE UNCHANGED <<due, down>>
        BY <4>2, <4>3
      <4>4. CASE down' = [down EXCEPT ![c] = @ - 1] /\ due' = [due EXCEPT ![c] = @ - 1]
        BY <4>1, <4>2, <4>4
      <4> QED BY <2>3, <4>3, <4>4
    <3> QED BY <1>4, <2>1, <3>1, <3>2 DEF TypeOK
  <2>5. phase'[c] = p /\ over'[c] = "past" /\ down'[c] + unsent'[c] = due'[c]
    BY <1>1, <1>3, <1>4, <2>1, <2>2, <2>3 DEF TypeOK
  <2>6. Between(c)' /\ Whole(c)' /\ Asks(c)'
    BY <2>5 DEF Between, Whole, Asks
  <2>7. \A d \in Client \ {c} : phase'[d] = phase[d]
    BY <2>2 DEF TypeOK
  <2>8. \A d \in Client \ {c} : due'[d] = due[d] /\ down'[d] = down[d]
    BY <2>3 DEF TypeOK
  <2> QED BY <2>1, <2>4, <2>5, <2>6, <2>7, <2>8
<1>8. Fine
  BY <1>4, <1>5, <1>6, <1>7
<1> HIDE DEF Fine
<1>9. phase'[c] # "gone" /\ phase'[c] # "new"
  BY <1>8 DEF Fine
<1>10. NothingLost' /\ Asking'
  <2>1. \A d \in Client \ {c} : Between(d)' /\ Whole(d)' /\ Asks(d)'
    BY <1>4, <1>8, Pieces DEF Fine, Between, Whole, Asks, Asking
  <2>2. \A d \in Client : Between(d)' /\ Whole(d)' /\ Asks(d)'
    BY <1>8, <2>1 DEF Fine
  <2> QED BY <2>2, PiecesNext DEF Asking
<1>11. PoolMatches' /\ EndsOnlyAmidAnswer'
  BY <1>4, <1>8 DEF Fine, PoolMatches, EndsOnlyAmidAnswer
<1>12. \A d \in Client : (phase'[d] = "gone" <=> phase[d] = "gone") /\ (phase[d] # "new" => phase'[d] # "new")
  BY <1>4, <1>8, <1>9 DEF Fine
<1>13. Queued'
  <2>1. /\ backlog' = backlog /\ socket' = socket /\ pc' = pc
        /\ \A i \in DOMAIN backlog : backlog[i] \in Client
    BY <1>4, ElementOfSeq, LenProperties DEF TypeOK
  <2>2. \A f \in Fd : socket[f] # NULL => socket[f] \in Client
    BY DEF TypeOK
  <2> QED BY <1>12, <2>1, <2>2 DEF Queued
<1>14. Leaving'
  <2>1. \A f \in Fd : "err" \in revents[f] => socket[f] \in Client
    BY DEF TypeOK, PoolMatches
  <2>2. \A d \in Client : phase'[d] = "gone" => down'[d] = 0
    BY <1>4, <1>8, <1>9, <1>12 DEF Fine, Leaving
  <2> QED BY <1>4, <1>12, <2>1, <2>2 DEF Leaving
<1> QED BY <1>8, <1>10, <1>11, <1>13, <1>14 DEF Fine

\* With the client go the pieces that it has not read.
LEMMA LeaveStep ==
  ASSUME IInv, NEW c \in Client, Leave(c)
  PROVE  IInv'
<1> USE DEF IInv, client, wire, conn, loop
<1>1. TypeOK'
  <2>1. 0 \in 0 .. AnswerSize - 1 /\ 0 \in 0 .. SocketSize /\ 0 \in Nat
    BY SizeAssumption
  <2> QED BY <2>1 DEF TypeOK, Leave
<1>2. PoolMatches' /\ EndsOnlyAmidAnswer'
  BY DEF Leave, TypeOK, PoolMatches, EndsOnlyAmidAnswer
<1>3. NothingLost' /\ Asking'
  <2>1. \A d \in Client : Between(d)' /\ Whole(d)' /\ Asks(d)'
    BY Pieces DEF Leave, TypeOK, Between, Whole, Asks, Asking
  <2> QED BY <2>1, PiecesNext DEF Asking
<1>4. Queued'
  <2>1. phase' = [phase EXCEPT ![c] = "gone"] /\ UNCHANGED <<backlog, socket, pc>>
    BY DEF Leave
  <2>2. \A d \in Client : phase[d] # "new" => phase'[d] # "new"
    BY <2>1 DEF TypeOK
  <2>3. \A i \in DOMAIN backlog : backlog[i] \in Client
    BY ElementOfSeq, LenProperties DEF TypeOK
  <2>4. \A f \in Fd : socket[f] # NULL => socket[f] \in Client
    BY DEF TypeOK
  <2> QED BY <2>1, <2>2, <2>3, <2>4 DEF Queued
<1>5. Leaving'
  BY DEF Leave, TypeOK, Leaving, PoolMatches
<1> QED BY <1>1, <1>2, <1>3, <1>4, <1>5

-----------------------------------------------------------------------------
(* The server *)

\* Poll reports only of connections that exist, and errors only of clients that left.
LEMMA PollStep ==
  ASSUME IInv, Poll
  PROVE  IInv'
<1> USE DEF IInv, client, wire, conn, loop
<1>1. /\ revents' \in [Fd -> SUBSET {"in", "out", "err"}]
      /\ \A f \in Fd : revents'[f] = IF conn_pool[f] = NULL THEN {} ELSE Events(conn_pool[f])
      /\ pc' = IF backlog # << >> THEN "accept" ELSE "serve"
  BY DEF Poll, Events
<1>2. TypeOK'
  BY <1>1 DEF TypeOK, Poll
<1>3. PoolMatches' /\ NothingLost' /\ EndsOnlyAmidAnswer'
  BY <1>1 DEF Poll, PoolMatches, NothingLost, EndsOnlyAmidAnswer
<1>4. Queued'
  BY <1>1 DEF Poll, Queued
<1>5. Leaving'
  <2>1. ASSUME NEW f \in Fd, "err" \in revents'[f] PROVE phase[socket[f]] = "gone"
    <3>1. conn_pool[f] \in Client /\ socket[f] = conn_pool[f] /\ "err" \in Events(conn_pool[f])
      BY <1>1, <2>1 DEF TypeOK, PoolMatches
    <3> QED BY <3>1 DEF Events, Leaving
  <2> QED BY <2>1 DEF Poll, Leaving
<1>6. Asking'
  BY DEF Poll, Asking, Asks
<1> QED BY <1>2, <1>3, <1>4, <1>5, <1>6

\* The first of those that wait gets a descriptor that was free, and waits no longer.
LEMMA AcceptStep ==
  ASSUME IInv, handle_accept
  PROVE  IInv'
<1> USE DEF IInv, client, wire, conn, loop
<1> DEFINE h == Head(backlog)
<1>1. /\ backlog \in Seq(Client) /\ backlog # << >>
      /\ Len(backlog) \in Nat /\ DOMAIN backlog = 1 .. Len(backlog)
  BY LenProperties DEF TypeOK, handle_accept, Queued
<1>2. /\ h \in Client /\ h = backlog[1] /\ 1 \in DOMAIN backlog
      /\ backlog' \in Seq(Client) /\ DOMAIN backlog' = 1 .. Len(backlog) - 1
      /\ \A i \in DOMAIN backlog' : i + 1 \in DOMAIN backlog /\ backlog'[i] = backlog[i + 1]
  <2>1. /\ h \in Client /\ Tail(backlog) \in Seq(Client) /\ Len(backlog) # 0
        /\ Len(Tail(backlog)) = Len(backlog) - 1
        /\ \A i \in 1 .. Len(Tail(backlog)) : Tail(backlog)[i] = backlog[i + 1]
    BY <1>1, HeadTailProperties, EmptySeq
  <2>2. h = backlog[1]
    BY <1>1
  <2>3. backlog' = Tail(backlog) /\ DOMAIN Tail(backlog) = 1 .. Len(backlog) - 1
    BY <2>1, LenProperties DEF handle_accept
  <2> QED BY <1>1, <2>1, <2>2, <2>3
<1>3. PICK f \in Fd : /\ socket[f] = NULL
                      /\ socket' = [socket EXCEPT ![f] = h]
                      /\ conn_pool' = [conn_pool EXCEPT ![f] = h]
  BY DEF handle_accept, FreeFds
<1>4. PICK w \in BOOLEAN : is_write' = [is_write EXCEPT ![h] = w]
  BY DEF handle_accept
<1>5. /\ is_read' = [is_read EXCEPT ![h] = TRUE] /\ pc' = "serve" /\ revents' = revents
      /\ UNCHANGED <<phase, got, over, due, asked, down, closed, sk_err, unsent>>
  BY DEF handle_accept
<1> HIDE DEF h
<1>6. TypeOK'
  BY <1>2, <1>3, <1>4, <1>5 DEF TypeOK
<1>7. h # NULL /\ \A g \in Fd : socket[g] # h
  BY <1>2, ClientAssumption DEF Queued
<1>8. revents[f] = {}
  BY <1>3 DEF PoolMatches
<1>9. PoolMatches'
  BY <1>3, <1>5, <1>7 DEF PoolMatches, TypeOK
<1>10. NothingLost' /\ EndsOnlyAmidAnswer'
  BY <1>5 DEF NothingLost, EndsOnlyAmidAnswer
<1>11. Queued'
  <2>1. \A i, j \in DOMAIN backlog' : backlog'[i] = backlog'[j] => i = j
    <3> SUFFICES ASSUME NEW i \in DOMAIN backlog', NEW j \in DOMAIN backlog',
                        backlog'[i] = backlog'[j]
                 PROVE  i = j
      OBVIOUS
    <3>1. i + 1 = j + 1
      BY <1>2 DEF Queued
    <3> QED BY <1>1, <1>2, <3>1
  <2>2. \A i \in DOMAIN backlog' : phase'[backlog'[i]] # "new" /\ backlog'[i] # h
    <3> SUFFICES ASSUME NEW i \in DOMAIN backlog'
                 PROVE  phase[backlog[i + 1]] # "new" /\ backlog[i + 1] # backlog[1]
      BY <1>2, <1>5
    <3>1. i + 1 # 1
      BY <1>1, <1>2
    <3> QED BY <1>2, <3>1 DEF Queued
  <2>3. \A i \in DOMAIN backlog', g \in Fd : socket'[g] # backlog'[i]
    BY <1>2, <1>3, <2>2 DEF Queued, TypeOK
  <2>4. \A g \in Fd : socket'[g] # NULL => phase'[socket'[g]] # "new"
    BY <1>2, <1>3, <1>5 DEF Queued, TypeOK
  <2> QED BY <1>5, <2>1, <2>2, <2>3, <2>4 DEF Queued
<1>12. Leaving' /\ Asking'
  BY <1>3, <1>5, <1>8 DEF Leaving, Asking, Asks, TypeOK
<1> QED BY <1>6, <1>9, <1>10, <1>11, <1>12

\* Nothing is handled when there is no descriptor left.
LEMMA AcceptFailsStep ==
  ASSUME IInv, AcceptFails
  PROVE  IInv'
<1> USE DEF IInv, client, wire, conn, loop
<1>1. TypeOK'
  BY DEF TypeOK, AcceptFails
<1>2. PoolMatches' /\ NothingLost' /\ EndsOnlyAmidAnswer'
  BY DEF AcceptFails, PoolMatches, NothingLost, EndsOnlyAmidAnswer
<1>3. Queued' /\ Leaving' /\ Asking'
  BY DEF AcceptFails, Queued, Leaving, Asking, Asks
<1> QED BY <1>1, <1>2, <1>3

\* The turn is that of a client's connection, and the client's socket is there.
LEMMA TurnFacts ==
  ASSUME IInv, NEW f \in Fd, Turn(f)
  PROVE  /\ pc = "serve"
         /\ socket[f] \in Client /\ conn_pool[f] = socket[f]
BY DEF Turn, IInv, TypeOK, PoolMatches

\* Handling an event takes it from those of its descriptor.
LEMMA HandledFacts ==
  ASSUME IInv, NEW f \in Fd, NEW e, Handled(f, e)
  PROVE  /\ revents' \in [Fd -> SUBSET {"in", "out", "err"}]
         /\ \A g \in Fd : revents'[g] \subseteq revents[g]
BY DEF Handled, IInv, TypeOK

\* What write does to the connection and the socket of c: n pieces are divided
\* between the two when its client is there, else nothing gets to the client; and the
\* server is ended only with all of them unsent.
LEMMA WriteFacts ==
  ASSUME IInv, NEW c \in Client, NEW n \in Nat \ {0}, pc = "serve", write(c, c, n)
  PROVE  /\ unsent' \in [Client -> Nat] /\ down' \in [Client -> 0 .. SocketSize]
         /\ closed' \in [Client -> {"no", "eof", "reset"}]
         /\ sk_err' \in [Client -> {"none", "reset", "pipe"}]
         /\ pc' \in {"serve", "ended"}
         /\ \A d \in Client \ {c} : /\ unsent'[d] = unsent[d] /\ down'[d] = down[d]
                                    /\ closed'[d] = closed[d] /\ sk_err'[d] = sk_err[d]
         /\ closed[c] = "no" =>
              /\ closed'[c] = "no" /\ sk_err'[c] = sk_err[c] /\ pc' = "serve"
              /\ down'[c] + unsent'[c] = down[c] + n
         /\ closed[c] # "no" =>
              /\ closed'[c] # "no" /\ down'[c] = down[c]
              /\ pc' = "ended" => unsent'[c] = n
<1> DEFINE sent == IF closed[c] = "reset" THEN 0 ELSE Least(n, SocketSize - down[c])
<1>1. /\ SocketSize \in Nat /\ n \in Nat \ {0}
      /\ down[c] \in 0 .. SocketSize /\ closed[c] \in {"no", "eof", "reset"}
  BY SizeAssumption DEF IInv, TypeOK
<1>2. sent \in 0 .. n /\ n - sent \in Nat /\ down[c] + sent \in 0 .. SocketSize
  <2>1. CASE closed[c] = "reset"
    BY <1>1, <2>1
  <2>2. CASE closed[c] # "reset" /\ n < SocketSize - down[c]
    BY <1>1, <2>2 DEF Least
  <2>3. CASE closed[c] # "reset" /\ ~(n < SocketSize - down[c])
    BY <1>1, <2>3 DEF Least
  <2> QED BY <2>1, <2>2, <2>3
<1>3. /\ unsent' = [unsent EXCEPT ![c] = n - sent]
      /\ down' = [down EXCEPT ![c] = IF closed[c] = "no" THEN @ + sent ELSE @]
      /\ closed' = [closed EXCEPT ![c] = IF @ = "no" THEN "no" ELSE "reset"]
      /\ sk_err' = [sk_err EXCEPT ![c] = CASE closed[c] = "no"    -> @
                                           [] closed[c] = "eof"   -> "pipe"
                                           [] closed[c] = "reset" -> "none"]
      /\ pc' = IF closed[c] = "reset" /\ sk_err[c] # "reset" THEN "ended" ELSE pc
  BY DEF write
<1>4. closed[c] = "reset" => sent = 0
  OBVIOUS
<1> HIDE DEF sent
<1>5. unsent' \in [Client -> Nat] /\ unsent'[c] = n - sent
  BY <1>2, <1>3 DEF IInv, TypeOK
<1>6. /\ down' \in [Client -> 0 .. SocketSize]
      /\ down'[c] = IF closed[c] = "no" THEN down[c] + sent ELSE down[c]
  BY <1>1, <1>2, <1>3 DEF IInv, TypeOK
<1>7. /\ closed' \in [Client -> {"no", "eof", "reset"}]
      /\ closed[c] = "no" <=> closed'[c] = "no"
  BY <1>3 DEF IInv, TypeOK
<1>8. /\ sk_err' \in [Client -> {"none", "reset", "pipe"}]
      /\ closed[c] = "no" => sk_err'[c] = sk_err[c]
  <2>1. CASE closed[c] = "no"
    BY <1>3, <2>1 DEF IInv, TypeOK
  <2>2. CASE closed[c] = "eof"
    <3>1. sk_err' = [sk_err EXCEPT ![c] = "pipe"]
      BY <1>3, <2>2
    <3> QED BY <2>2, <3>1 DEF IInv, TypeOK
  <2>3. CASE closed[c] = "reset"
    <3>1. sk_err' = [sk_err EXCEPT ![c] = "none"]
      BY <1>3, <2>3
    <3> QED BY <2>3, <3>1 DEF IInv, TypeOK
  <2> QED BY <1>1, <2>1, <2>2, <2>3
<1>9. \A d \in Client \ {c} : /\ unsent'[d] = unsent[d] /\ down'[d] = down[d]
                              /\ closed'[d] = closed[d] /\ sk_err'[d] = sk_err[d]
  BY <1>3 DEF IInv, TypeOK
<1>10. pc' \in {"serve", "ended"} /\ (closed[c] = "no" => pc' = "serve")
  BY <1>3
<1>11. closed[c] = "no" => down'[c] + unsent'[c] = down[c] + n
  BY <1>1, <1>2, <1>5, <1>6
<1>12. closed[c] # "no" => down'[c] = down[c] /\ (pc' = "ended" => unsent'[c] = n)
  <2>1. pc' = "ended" => closed[c] = "reset"
    BY <1>3
  <2> QED BY <1>1, <1>2, <1>4, <1>5, <1>6, <2>1
<1> QED BY <1>5, <1>6, <1>7, <1>8, <1>9, <1>10, <1>11, <1>12

\* Writing keeps the invariant when the n pieces and those in the socket are what is due
\* to the client.
LEMMA WriteKeeps ==
  ASSUME IInv, NEW c \in Client, NEW n \in Nat \ {0}, pc = "serve", write(c, c, n),
         phase[c] # "gone" => down[c] + n = due'[c],
         Whole(c)', Asks(c)',
         asked' \in [Client -> BOOLEAN],
         over' \in [Client -> {"no", "next", "past"}], due' \in [Client -> Nat],
         \A d \in Client \ {c} : asked'[d] = asked[d] /\ over'[d] = over[d] /\ due'[d] = due[d],
         is_read' \in [Client -> BOOLEAN], is_write' \in [Client -> BOOLEAN],
         revents' \in [Fd -> SUBSET {"in", "out", "err"}],
         \A g \in Fd : revents'[g] \subseteq revents[g],
         UNCHANGED <<phase, got, backlog, socket, conn_pool>>
  PROVE  IInv'
<1>1. closed[c] = "no" <=> phase[c] # "gone"
  BY DEF IInv, Leaving
<1>2. TypeOK'
  <2>1. pc' \in {"serve", "accept", "ended"}
    BY WriteFacts
  <2> QED BY <2>1, WriteFacts, SMTT(30) DEF IInv, TypeOK
<1>3. PoolMatches'
  BY DEF IInv, PoolMatches
<1>4. NothingLost'
  <2>1. ASSUME phase[c] # "gone" PROVE down'[c] + unsent'[c] = due'[c]
    BY <1>1, <2>1, WriteFacts
  <2>2. Between(c)'
    BY <2>1 DEF Between
  <2>3. \A d \in Client \ {c} : unsent'[d] = unsent[d] /\ down'[d] = down[d]
    BY WriteFacts
  <2>4. \A d \in Client \ {c} : Between(d)' /\ Whole(d)'
    BY <2>3, Pieces DEF IInv, Between, Whole
  <2> QED BY <2>2, <2>4, PiecesNext
<1>5. EndsOnlyAmidAnswer'
  <2>1. pc' = "ended" => phase[c] = "gone" /\ unsent'[c] = n
    BY <1>1, WriteFacts
  <2> QED BY <2>1 DEF EndsOnlyAmidAnswer
<1>6. Queued'
  <2>1. pc' # "accept"
    BY WriteFacts
  <2> QED BY <2>1 DEF IInv, Queued
<1>7. Leaving'
  <2>1. /\ \A d \in Client \ {c} : down'[d] = down[d] /\ closed'[d] = closed[d]
                                   /\ sk_err'[d] = sk_err[d]
        /\ closed[c] = "no" => closed'[c] = "no" /\ sk_err'[c] = sk_err[c]
        /\ closed[c] # "no" => closed'[c] # "no" /\ down'[c] = down[c]
    BY WriteFacts
  <2> QED BY <1>1, <2>1 DEF IInv, Leaving
<1>8. Asking'
  <2>1. \A d \in Client \ {c} : Asks(d)'
    BY DEF IInv, Asking, Asks
  <2> QED BY <2>1 DEF Asking
<1> QED BY <1>2, <1>3, <1>4, <1>5, <1>6, <1>7, <1>8 DEF IInv

\* An answer begins when nothing is left of the last one, if the client has left nothing.
LEMMA ReadRequestStep ==
  ASSUME IInv, NEW f \in Fd, ReadRequest(f)
  PROVE  IInv'
<1>1. PICK c \in Client : pc = "serve" /\ c = socket[f] /\ conn_pool[f] = c
  BY TurnFacts DEF ReadRequest
<1>2. /\ revents' \in [Fd -> SUBSET {"in", "out", "err"}]
      /\ \A g \in Fd : revents'[g] \subseteq revents[g]
  BY HandledFacts DEF ReadRequest
<1>3. PICK listing \in BOOLEAN : Execute(c, listing) /\ write(c, c, unsent[c] + Size(listing))
  BY <1>1 DEF ReadRequest
<1>4. /\ is_read' = [is_read EXCEPT ![c] = (unsent'[c] = 0)]
      /\ is_write' = [is_write EXCEPT ![c] = (unsent'[c] > 0)]
      /\ UNCHANGED <<socket, conn_pool>>
  BY <1>1 DEF ReadRequest
<1> DEFINE size == Size(listing)
<1>5. /\ asked[c] /\ asked' = [asked EXCEPT ![c] = FALSE]
      /\ UNCHANGED <<phase, got, backlog>>
      /\ phase[c] = "gone" => UNCHANGED <<due, over>>
      /\ phase[c] # "gone" =>
           /\ due' = [due EXCEPT ![c] = @ + size]
           /\ over' = [over EXCEPT ![c] = IF listing /\ @ = "no" THEN "next" ELSE @]
  BY <1>3 DEF Execute
<1>6. /\ size \in Nat \ {0} /\ AnswerSize \in Nat /\ ListingSize \in Nat
      /\ (listing => size = ListingSize) /\ (~listing => size = AnswerSize)
  BY SizeAssumption DEF Size
<1> DEFINE n == unsent[c] + size
<1>7. write(c, c, n)
  BY <1>3
<1> HIDE DEF size
<1>8. /\ unsent[c] \in Nat /\ due[c] \in Nat /\ down[c] \in Nat /\ got[c] \in Nat
      /\ over[c] \in {"no", "next", "past"} /\ n \in Nat \ {0}
  BY <1>1, <1>6, SizeAssumption DEF IInv, TypeOK
<1>9. asked' \in [Client -> BOOLEAN] /\ ~asked'[c]
  BY <1>1, <1>5 DEF IInv, TypeOK
<1>10. due' \in [Client -> Nat] /\ over' \in [Client -> {"no", "next", "past"}]
  <2>1. CASE phase[c] = "gone"
    BY <1>5, <2>1 DEF IInv, TypeOK
  <2>2. CASE phase[c] # "gone"
    <3>1. due' = [due EXCEPT ![c] = @ + size] /\ due[c] + size \in Nat
      BY <1>5, <1>6, <1>8, <2>2
    <3>2. PICK o \in {"no", "next", "past"} : over' = [over EXCEPT ![c] = o]
      BY <1>5, <1>8, <2>2
    <3> QED BY <3>1, <3>2 DEF IInv, TypeOK
  <2> QED BY <2>1, <2>2
<1>11. \A d \in Client \ {c} : asked'[d] = asked[d] /\ over'[d] = over[d] /\ due'[d] = due[d]
  BY <1>1, <1>5 DEF IInv, TypeOK
<1>12. Between(c) /\ Whole(c) /\ Asks(c)
  BY <1>1, Pieces DEF IInv, Asking
<1>13. ASSUME phase[c] # "gone"
       PROVE  /\ due'[c] = due[c] + size
              /\ over'[c] = IF listing /\ over[c] = "no" THEN "next" ELSE over[c]
  BY <1>1, <1>5, <1>13 DEF IInv, TypeOK
<1>14. phase[c] # "gone" => down[c] + n = due'[c]
  BY <1>6, <1>8, <1>12, <1>13 DEF Between
<1>15. Whole(c)' /\ Asks(c)'
  <2>1. CASE phase[c] = "gone"
    BY <1>5, <2>1 DEF Whole, Asks
  <2>2. CASE phase[c] # "gone" /\ over[c] = "past"
    BY <1>5, <1>9, <1>13, <2>2 DEF Whole, Asks
  <2>3. CASE phase[c] # "gone" /\ over[c] # "past"
    <3>1. phase[c] = "waiting" /\ over[c] = "no"
      BY <1>5, <1>12, <2>3 DEF Asks
    <3>2. got[c] + due[c] = 0
      BY <1>5, <1>12, <2>3 DEF Whole
    <3>3. got'[c] + due'[c] = size
      BY <1>5, <1>6, <1>8, <1>13, <2>3, <3>2
    <3>4. over'[c] = IF listing THEN "next" ELSE "no"
      BY <1>13, <2>3, <3>1
    <3> QED BY <1>5, <1>6, <1>9, <3>1, <3>3, <3>4 DEF Whole, Asks
  <2> QED BY <2>1, <2>2, <2>3
<1>16. is_read' \in [Client -> BOOLEAN] /\ is_write' \in [Client -> BOOLEAN]
  <2>1. (unsent'[c] = 0) \in BOOLEAN /\ (unsent'[c] > 0) \in BOOLEAN
    OBVIOUS
  <2> QED BY <1>1, <1>4, <2>1 DEF IInv, TypeOK
<1>17. UNCHANGED <<phase, got, backlog, socket, conn_pool>>
  BY <1>4, <1>5
<1> HIDE DEF n
<1> QED BY <1>1, <1>2, <1>7, <1>8, <1>9, <1>10, <1>11, <1>14, <1>15, <1>16, <1>17, WriteKeeps

\* An error that has been read is gone.
LEMMA ReadClosedStep ==
  ASSUME IInv, NEW f \in Fd, ReadClosed(f)
  PROVE  IInv'
<1> DEFINE c == socket[f]
<1>1. pc = "serve" /\ c \in Client
  BY TurnFacts DEF ReadClosed
<1>2. /\ revents' \in [Fd -> SUBSET {"in", "out", "err"}]
      /\ \A g \in Fd : revents'[g] \subseteq revents[g]
  BY HandledFacts DEF ReadClosed
<1>3. /\ sk_err' = [sk_err EXCEPT ![c] = IF @ = "reset" THEN "none" ELSE @]
      /\ UNCHANGED <<client, asked, down, closed, conn, socket, conn_pool, pc>>
  BY DEF ReadClosed
<1> HIDE DEF c
<1> USE DEF IInv, client, conn
<1>4. TypeOK'
  BY <1>1, <1>2, <1>3 DEF TypeOK
<1>5. PoolMatches' /\ NothingLost' /\ EndsOnlyAmidAnswer'
  BY <1>2, <1>3 DEF PoolMatches, NothingLost, EndsOnlyAmidAnswer
<1>6. Queued' /\ Asking'
  BY <1>3 DEF Queued, Asking, Asks
<1>7. Leaving'
  BY <1>1, <1>2, <1>3 DEF Leaving, TypeOK
<1> QED BY <1>4, <1>5, <1>6, <1>7

\* What is left of an answer is written, or nothing is done.
LEMMA WriteStep ==
  ASSUME IInv, NEW f \in Fd, handle_write(f)
  PROVE  IInv'
<1>1. PICK c \in Client : pc = "serve" /\ c = socket[f] /\ conn_pool[f] = c
  BY TurnFacts DEF handle_write
<1>2. /\ revents' \in [Fd -> SUBSET {"in", "out", "err"}]
      /\ \A g \in Fd : revents'[g] \subseteq revents[g]
  BY HandledFacts DEF handle_write
<1>3. UNCHANGED <<client, asked, socket, conn_pool>>
  BY DEF handle_write
<1>4. CASE unsent[c] = 0
  <2>1. UNCHANGED <<down, closed, sk_err, conn, pc>>
    BY <1>1, <1>4 DEF handle_write
  <2> USE DEF IInv, client, conn
  <2>2. TypeOK'
    BY <1>2, <1>3, <2>1 DEF TypeOK
  <2>3. PoolMatches' /\ NothingLost' /\ EndsOnlyAmidAnswer'
    BY <1>2, <1>3, <2>1 DEF PoolMatches, NothingLost, EndsOnlyAmidAnswer
  <2>4. Queued' /\ Leaving' /\ Asking'
    BY <1>2, <1>3, <2>1 DEF Queued, Leaving, Asking, Asks
  <2> QED BY <2>2, <2>3, <2>4
<1>5. CASE unsent[c] # 0
  <2>1. /\ write(c, c, unsent[c])
        /\ \/ /\ is_read' = [is_read EXCEPT ![c] = TRUE]
              /\ is_write' = [is_write EXCEPT ![c] = FALSE]
           \/ UNCHANGED <<is_read, is_write>>
    BY <1>1, <1>5 DEF handle_write
  <2>2. is_read' \in [Client -> BOOLEAN] /\ is_write' \in [Client -> BOOLEAN]
    <3>1. is_read \in [Client -> BOOLEAN] /\ is_write \in [Client -> BOOLEAN]
      BY DEF IInv, TypeOK
    <3> QED BY <2>1, <3>1
  <2>3. unsent[c] \in Nat \ {0}
    BY <1>1, <1>5 DEF IInv, TypeOK
  <2>4. Between(c) /\ Whole(c) /\ Asks(c)
    BY <1>1, Pieces DEF IInv, Asking
  <2>5. UNCHANGED <<phase, got, over, due, backlog, asked, socket, conn_pool>>
    BY <1>3 DEF client
  <2>6. (phase[c] # "gone" => down[c] + unsent[c] = due'[c]) /\ Whole(c)' /\ Asks(c)'
    BY <2>4, <2>5 DEF Between, Whole, Asks
  <2>7. /\ asked' \in [Client -> BOOLEAN] /\ due' \in [Client -> Nat]
        /\ over' \in [Client -> {"no", "next", "past"}]
        /\ \A d \in Client \ {c} : asked'[d] = asked[d] /\ over'[d] = over[d] /\ due'[d] = due[d]
    BY <2>5 DEF IInv, TypeOK
  <2> QED BY <1>1, <1>2, <2>1, <2>2, <2>3, <2>5, <2>6, <2>7, WriteKeeps
<1> QED BY <1>4, <1>5

\* Only the connection of a client that has left is closed.
LEMMA CloseStep ==
  ASSUME IInv, NEW f \in Fd, CloseOnError(f)
  PROVE  IInv' /\ phase[socket[f]] = "gone"
<1> DEFINE c == socket[f]
<1>1. pc = "serve" /\ c \in Client /\ conn_pool[f] = c
  BY TurnFacts DEF CloseOnError
<1>2. /\ revents' \in [Fd -> SUBSET {"in", "out", "err"}] /\ revents'[f] = {}
      /\ \A g \in Fd : revents'[g] \subseteq revents[g]
  <2>1. revents' = [revents EXCEPT ![f] = @ \ {"err"}] /\ revents[f] = {"err"}
    BY DEF CloseOnError, Handled
  <2> QED BY <2>1 DEF IInv, TypeOK
<1>3. phase[c] = "gone"
  BY DEF CloseOnError, IInv, Leaving
<1>4. /\ socket' = [socket EXCEPT ![f] = NULL] /\ conn_pool' = [conn_pool EXCEPT ![f] = NULL]
      /\ sk_err' = [sk_err EXCEPT ![c] = "none"]
      /\ is_read' = [is_read EXCEPT ![c] = FALSE] /\ is_write' = [is_write EXCEPT ![c] = FALSE]
      /\ unsent' = [unsent EXCEPT ![c] = 0]
      /\ asked' = [asked EXCEPT ![c] = FALSE]
      /\ UNCHANGED <<client, down, closed, pc>>
  BY <1>1 DEF CloseOnError, Freed
<1> HIDE DEF c
<1> USE DEF IInv, client
<1>5. TypeOK'
  BY <1>1, <1>2, <1>4, SizeAssumption DEF TypeOK
<1>6. PoolMatches'
  BY <1>2, <1>4 DEF PoolMatches, TypeOK
<1>7. NothingLost' /\ EndsOnlyAmidAnswer' /\ Asking'
  <2>1. \A d \in Client : Between(d)' /\ Whole(d)' /\ Asks(d)'
    BY <1>1, <1>3, <1>4, Pieces DEF Between, Whole, Asks, Asking, TypeOK
  <2>2. NothingLost' /\ Asking'
    BY <2>1, PiecesNext DEF Asking
  <2> QED BY <1>1, <1>3, <1>4, <2>2 DEF EndsOnlyAmidAnswer, TypeOK
<1>8. Queued'
  BY <1>4, ClientAssumption DEF Queued, TypeOK
<1>9. Leaving'
  BY <1>2, <1>3, <1>4 DEF Leaving, TypeOK
<1>10. phase[socket[f]] = "gone"
  BY <1>3 DEF c
<1> QED BY <1>5, <1>6, <1>7, <1>8, <1>9, <1>10
-----------------------------------------------------------------------------
(* The specification *)

\* Every step keeps the invariant.
LEMMA NextHolds == IInv /\ [Next]_vars => IInv'
<1> SUFFICES ASSUME IInv, [Next]_vars PROVE IInv'
  OBVIOUS
<1>1. ASSUME NEW c \in Client, Connect(c) \/ Ask(c) \/ ReadAnswer(c) \/ Leave(c) PROVE IInv'
  BY <1>1, ConnectStep, AskStep, ReadStep, LeaveStep
<1>2. CASE Poll \/ handle_accept \/ AcceptFails
  BY <1>2, PollStep, AcceptStep, AcceptFailsStep
<1>3. ASSUME NEW f \in Fd,
             ReadRequest(f) \/ ReadClosed(f) \/ handle_write(f) \/ CloseOnError(f)
      PROVE  IInv'
  BY <1>3, ReadRequestStep, ReadClosedStep, WriteStep, CloseStep
<1>4. CASE UNCHANGED vars
  BY <1>4 DEF vars, client, wire, conn, loop, IInv, TypeOK, PoolMatches, NothingLost,
              EndsOnlyAmidAnswer, Queued, Leaving, Asking, Asks
<1> QED BY <1>1, <1>2, <1>3, <1>4 DEF Next, run

\* The invariant holds at all times.
LEMMA Invariance == Spec => []IInv
<1> QED BY InitHolds, NextHolds, PTL DEF Spec

\* The variables of Server have their types, in particular no socket holds more than
\* it has room for.
THEOREM TypeCorrect == Spec => []TypeOK
<1>1. IInv => TypeOK
  BY DEF IInv
<1> QED BY <1>1, Invariance, PTL

\* conn_pool (server.cpp:83) has under every descriptor the connection whose socket it
\* is, whatever the order in which descriptors are closed and given out again.
THEOREM PoolMatching == Spec => []PoolMatches
<1>1. IInv => PoolMatches
  BY DEF IInv
<1> QED BY <1>1, Invariance, PTL

\* No piece of an answer is lost or sent twice, however little of it a socket takes at
\* a time (connection.cpp:101-117) and also when the client leaves the text of an answer
\* over its limit in the socket and goes on (main.cpp:113-117).
THEOREM PiecesAccounted == Spec => []NothingLost
<1>1. IInv => NothingLost
  BY DEF IInv
<1> QED BY <1>1, Invariance, PTL

\* Only a client that leaves before all of an answer to it is sent ends the server.
THEOREM EndsOnly == Spec => []EndsOnlyAmidAnswer
<1>1. IInv => EndsOnlyAmidAnswer
  BY DEF IInv
<1> QED BY <1>1, Invariance, PTL

\* The server closes no connection whose client has not left (server.cpp:106).
THEOREM ClosingOnlyLeft == Spec => ClosesOnlyLeft
<1> DEFINE Closing == \A f \in Fd : socket[f] # NULL /\ socket'[f] # socket[f]
                                      => phase[socket[f]] = "gone"
<1>1. IInv /\ [Next]_vars => [Closing]_vars
  <2> SUFFICES ASSUME IInv, Next PROVE Closing
    OBVIOUS
  <2> USE DEF loop
  <2>1. ASSUME NEW c \in Client, Connect(c) \/ Ask(c) \/ ReadAnswer(c) \/ Leave(c)
        PROVE  Closing
    BY <2>1 DEF Connect, Ask, ReadAnswer, Leave
  <2>2. CASE Poll \/ AcceptFails
    BY <2>2 DEF Poll, AcceptFails
  <2>3. CASE handle_accept
    BY <2>3 DEF handle_accept, FreeFds, IInv, TypeOK
  <2>4. ASSUME NEW f \in Fd, ReadRequest(f) \/ ReadClosed(f) \/ handle_write(f)
        PROVE  Closing
    BY <2>4 DEF ReadRequest, ReadClosed, handle_write
  <2>5. ASSUME NEW f \in Fd, CloseOnError(f) PROVE Closing
    <3>1. phase[socket[f]] = "gone" /\ socket' = [socket EXCEPT ![f] = NULL]
      BY <2>5, CloseStep DEF CloseOnError, Freed
    <3> QED BY <3>1 DEF IInv, TypeOK
  <2> QED BY <2>1, <2>2, <2>3, <2>4, <2>5 DEF Next, run
<1>2. Spec => [][Next]_vars
  BY DEF Spec
<1>3. Spec => [][Closing]_vars
  BY <1>1, <1>2, Invariance, PTL
<1> QED BY <1>3 DEF ClosesOnlyLeft
=============================================================================
