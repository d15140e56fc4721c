------------------------------- MODULE Server -------------------------------
(***************************************************************************)
(* class Server (server.cpp): the loop of Server::run over all its         *)
(* connections, and the clients (client/main.cpp) that connect, ask, read  *)
(* the answer and leave.                                                   *)
(*                                                                         *)
(* The loop is modelled step by step: poll, accept, then for every         *)
(* descriptor with events handle_read, handle_write and the closing.  What *)
(* goes on inside a connection is Connection's; here a request is one      *)
(* unit, an answer is a number of pieces, and some answers are over the    *)
(* limit of the client.  Client and server run on one machine              *)
(* (main.cpp:147): what one end of a socket does is known at the other at  *)
(* once.  A client is one run of the client program.                       *)
(***************************************************************************)
EXTENDS Integers, Sequences, FiniteSets

CONSTANTS Client,       \* the clients, numbered in the order in which they connect
          Fd,           \* the descriptors left for connections
          AnswerSize,   \* pieces of an answer within the limit of the client
          ListingSize,  \* pieces of an answer over it
          SocketSize,   \* pieces of answers that a socket holds
          NULL

ASSUME FdAssumption     == Fd \subseteq Nat /\ IsFiniteSet(Fd)
ASSUME SizeAssumption   ==
  /\ AnswerSize \in Nat \ {0} /\ ListingSize \in Nat \ {0}
  /\ SocketSize \in Nat \ {0}
ASSUME ClientAssumption == Client \subseteq Nat /\ NULL \notin Client

VARIABLES
  phase,       \* of every client: "new", "idle", "waiting" or "gone"
  got,         \* pieces it has read of the answer it waits for
  over,        \* "next": the answer it waits for is over its limit; "past": it has
               \* left text of such an answer in the socket; or "no"
  due,         \* pieces of answers to its requests that it has not read
  asked,       \* a request of it is in the socket
  down,        \* pieces of answers in the socket
  closed,      \* the socket of the client that left: "no", "eof" or "reset"
  sk_err,      \* error pending at the server's end: "none", "reset" or "pipe"
  backlog,     \* connections to accept
  socket,      \* whose socket every descriptor is, or NULL
  conn_pool,   \* whose Conntion conn_pool has for every descriptor, or NULL
  is_read, is_write, unsent,      \* of its Conntion; unsent is the size of write_buffer
  revents,     \* what poll reported of every descriptor and is not handled yet
  pc           \* "serve", "accept", or "ended": killed by SIGPIPE

client == <<phase, got, over, due, backlog>>
wire   == <<asked, down, closed, sk_err>>
conn   == <<is_read, is_write, unsent>>
loop   == <<socket, conn_pool, revents, pc>>
vars   == <<client, wire, conn, loop>>

Least(a, b) == IF a < b THEN a ELSE b

Init ==
  /\ phase = [c \in Client |-> "new"]
  /\ got = [c \in Client |-> 0]
  /\ over = [c \in Client |-> "no"]
  /\ due = [c \in Client |-> 0]
  /\ asked = [c \in Client |-> FALSE]
  /\ down = [c \in Client |-> 0]
  /\ closed = [c \in Client |-> "no"]
  /\ sk_err = [c \in Client |-> "none"]
  /\ backlog = << >>
  /\ socket = [f \in Fd |-> NULL]
  /\ conn_pool = [f \in Fd |-> NULL]
  /\ is_read = [c \in Client |-> FALSE]
  /\ is_write = [c \in Client |-> FALSE]
  /\ unsent = [c \in Client |-> 0]
  /\ revents = [f \in Fd |-> {}]
  /\ pc = "serve"

-----------------------------------------------------------------------------
(* The clients *)

Connect(c) ==
  /\ phase[c] = "new" /\ \A d \in Client : d < c => phase[d] # "new"
  /\ phase' = [phase EXCEPT ![c] = "idle"]
  /\ backlog' = Append(backlog, c)
  /\ UNCHANGED <<got, over, due, wire, conn, loop>>

\* send_req; the connection need not be accepted yet.  (The bound of one request in the
\* socket: what the server makes of several is Connection's.)
Ask(c) ==
  /\ phase[c] = "idle" /\ ~asked[c]
  /\ phase' = [phase EXCEPT ![c] = "waiting"]
  /\ asked' = [asked EXCEPT ![c] = TRUE]
  /\ UNCHANGED <<got, over, due, backlog, down, closed, sk_err, conn, loop>>

\* A piece is read out of the socket.
Taken(c) ==
  /\ down' = [down EXCEPT ![c] = @ - 1]
  /\ due' = [due EXCEPT ![c] = @ - 1]

\* Mutant: the count of pieces goes on with the next answer.
ReadPiece_KeepsGot(c) ==
  /\ over[c] = "no"
  /\ Taken(c)
  /\ got' = [got EXCEPT ![c] = @ + 1]
  /\ phase' = [phase EXCEPT ![c] = IF got'[c] >= AnswerSize THEN "idle" ELSE @]
  /\ UNCHANGED over

\* One read of read_res, of an answer within the limit.
ReadPiece(c) ==
  /\ over[c] = "no"
  /\ Taken(c)
  /\ IF got[c] + 1 = AnswerSize
     THEN got' = [got EXCEPT ![c] = 0] /\ phase' = [phase EXCEPT ![c] = "idle"]
     ELSE got' = [got EXCEPT ![c] = @ + 1] /\ UNCHANGED phase
  /\ UNCHANGED over

\* The length of an answer over the limit is read, and nothing else of it: the client
\* goes on to its next request.
GiveUp(c) ==
  /\ over[c] = "next"
  /\ over' = [over EXCEPT ![c] = "past"]
  /\ phase' = [phase EXCEPT ![c] = "idle"]
  /\ UNCHANGED <<got, due, down>>

\* From then on the client takes what was left over for a length and for as much text
\* as that says: a read may take no whole piece, and may be the last for this request.
ReadLeftOver(c) ==
  /\ over[c] = "past"
  /\ \/ phase' = [phase EXCEPT ![c] = "idle"] /\ UNCHANGED <<due, down>>
     \/ Taken(c) /\ \E p \in {"idle", "waiting"} : phase' = [phase EXCEPT ![c] = p]
  /\ UNCHANGED <<got, over>>

\* read_res.
ReadAnswer(c) ==
  /\ phase[c] = "waiting"
  /\ down[c] > 0
  /\ ReadPiece(c) \/ GiveUp(c) \/ ReadLeftOver(c)
  /\ UNCHANGED <<backlog, asked, closed, sk_err, conn, loop>>

\* The client quits, fails or is interrupted.  Closing a socket with unread data
\* resets the connection.
Leave(c) ==
  /\ phase[c] \in {"idle", "waiting"}
  /\ phase' = [phase EXCEPT ![c] = "gone"]
  /\ closed' = [closed EXCEPT ![c] = IF down[c] > 0 THEN "reset" ELSE "eof"]
  /\ sk_err' = [sk_err EXCEPT ![c] = IF down[c] > 0 THEN "reset" ELSE "none"]
  /\ down' = [down EXCEPT ![c] = 0]
  /\ got' = [got EXCEPT ![c] = 0]
  /\ due' = [due EXCEPT ![c] = 0]
  /\ over' = [over EXCEPT ![c] = "no"]
  /\ UNCHANGED <<backlog, asked, conn, loop>>

-----------------------------------------------------------------------------
(* The server *)

\* What poll reports of the socket of c, asked according to the flags of the
\* connection.  POLLHUP, which it reports too, is not looked at by the loop.
Events(c) ==
  {e \in {"in", "out", "err"} :
     \/ e = "in"  /\ is_read[c]  /\ (asked[c] \/ closed[c] # "no")
     \/ e = "out" /\ is_write[c] /\ (down[c] < SocketSize \/ closed[c] = "reset")
     \/ e = "err" /\ sk_err[c] # "none"}

\* When everything that was reported is handled.
Poll ==
  LET reported == [f \in Fd |-> IF conn_pool[f] = NULL THEN {} ELSE Events(conn_pool[f])]
  IN  /\ pc = "serve" /\ \A f \in Fd : revents[f] = {}
      /\ backlog # << >> \/ \E f \in Fd : reported[f] # {}
      /\ revents' = reported
      /\ pc' = IF backlog # << >> THEN "accept" ELSE "serve"
      /\ UNCHANGED <<client, wire, conn, socket, conn_pool>>

\* The kernel gives a new socket the lowest descriptor that is free.
FreeFds == {f \in Fd : socket[f] = NULL}

\* A connection is accepted.  The constructor of Conntion does not set is_write.
handle_accept ==
  /\ pc = "accept"
  /\ \E f \in FreeFds :
       /\ \A g \in FreeFds : f <= g
       /\ socket' = [socket EXCEPT ![f] = Head(backlog)]
       /\ conn_pool' = [conn_pool EXCEPT ![f] = Head(backlog)]
  /\ backlog' = Tail(backlog)
  /\ is_read' = [is_read EXCEPT ![Head(backlog)] = TRUE]
  /\ \E w \in BOOLEAN : is_write' = [is_write EXCEPT ![Head(backlog)] = w]
  /\ pc' = "serve"
  /\ UNCHANGED <<phase, got, over, due, wire, unsent, revents>>

\* accept fails without a free descriptor: the loop begins again, and asks poll
\* again, before any connection has been served.
AcceptFails ==
  /\ pc = "accept"
  /\ FreeFds = {}
  /\ revents' = [f \in Fd |-> {}]
  /\ pc' = "serve"
  /\ UNCHANGED <<client, wire, conn, socket, conn_pool>>

\* It is the turn of f: descriptors with events are served in ascending order.
Turn(f) ==
  /\ pc = "serve"
  /\ revents[f] # {}
  /\ \A g \in Fd : revents[g] # {} => f <= g

Handled(f, e) == revents' = [revents EXCEPT ![f] = @ \ {e}]

\* Mutant: what the socket did not take is forgotten.
write_DropsRest(c, s, n) ==
  LET sent == IF closed[s] = "reset" THEN 0 ELSE Least(n, SocketSize - down[s])
  IN  /\ unsent' = [unsent EXCEPT ![c] = 0]
      /\ down' = [down EXCEPT ![s] = IF closed[s] = "no" THEN @ + sent ELSE @]
      /\ closed' = [closed EXCEPT ![s] = IF @ = "no" THEN "no" ELSE "reset"]
      /\ sk_err' = [sk_err EXCEPT ![s] = IF closed[s] = "eof" THEN "pipe" ELSE @]
      /\ UNCHANGED pc

\* write: the socket s takes what it has room for of the n pieces that the
\* connection c has to send.  A socket whose client has left takes pieces, too, and
\* is reset by them.  On a socket that has been reset, write fails: once with the
\* error of a reset that nothing has reported yet, else with a signal that ends the
\* program.
write(c, s, n) ==
  LET sent == IF closed[s] = "reset" THEN 0 ELSE Least(n, SocketSize - down[s])
  IN  /\ unsent' = [unsent EXCEPT ![c] = n - sent]
      /\ down' = [down EXCEPT ![s] = IF closed[s] = "no" THEN @ + sent ELSE @]
      /\ closed' = [closed EXCEPT ![s] = IF @ = "no" THEN "no" ELSE "reset"]
      /\ sk_err' = [sk_err EXCEPT ![s] = CASE closed[s] = "no"    -> @
                                           [] closed[s] = "eof"   -> "pipe"
                                           [] closed[s] = "reset" -> "none"]
      /\ pc' = IF closed[s] = "reset" /\ sk_err[s] # "reset" THEN "ended" ELSE pc

\* The pieces of an answer.
Size(listing) == IF listing THEN ListingSize ELSE AnswerSize

\* The request in the socket s is read and executed.
Execute(s, listing) ==
  /\ asked[s]
  /\ asked' = [asked EXCEPT ![s] = FALSE]
  /\ IF phase[s] = "gone"
     THEN UNCHANGED <<due, over>>
     ELSE /\ due' = [due EXCEPT ![s] = @ + Size(listing)]
          /\ over' = [over EXCEPT ![s] = IF listing /\ @ = "no" THEN "next" ELSE @]
  /\ UNCHANGED <<phase, got, backlog>>

\* Mutant: the flags are left as they are.
ReadRequest_KeepsFlags(f) ==
  /\ Turn(f) /\ "in" \in revents[f] /\ Handled(f, "in")
  /\ \E listing \in BOOLEAN :
       /\ Execute(socket[f], listing)
       /\ write(conn_pool[f], socket[f], unsent[conn_pool[f]] + Size(listing))
  /\ UNCHANGED <<socket, conn_pool, is_read, is_write>>

\* A request is read and executed, and as much of the answer is written as the socket
\* takes.
ReadRequest(f) ==
  /\ Turn(f) /\ "in" \in revents[f] /\ Handled(f, "in")
  /\ \E listing \in BOOLEAN :
       /\ Execute(socket[f], listing)
       /\ write(conn_pool[f], socket[f], unsent[conn_pool[f]] + Size(listing))
  /\ is_read' = [is_read EXCEPT ![conn_pool[f]] = (unsent'[conn_pool[f]] = 0)]
  /\ is_write' = [is_write EXCEPT ![conn_pool[f]] = (unsent'[conn_pool[f]] > 0)]
  /\ UNCHANGED <<socket, conn_pool>>

\* Mutant: handle_read goes on and writes, although there is nothing to write.
ReadClosed_Writes(f) ==
  /\ Turn(f) /\ "in" \in revents[f] /\ Handled(f, "in")
  /\ ~asked[socket[f]]
  /\ write(conn_pool[f], socket[f], unsent[conn_pool[f]])
  /\ UNCHANGED <<client, asked, is_read, is_write, socket, conn_pool>>

\* handle_read finds the end of the data, or the error of a reset, which is gone
\* when it has been read.  Both set is_close, which nobody looks at.
ReadClosed(f) ==
  /\ Turn(f) /\ "in" \in revents[f] /\ Handled(f, "in")
  /\ ~asked[socket[f]]
  /\ sk_err' = [sk_err EXCEPT ![socket[f]] = IF @ = "reset" THEN "none" ELSE @]
  /\ UNCHANGED <<client, asked, down, closed, conn, socket, conn_pool, pc>>

\* handle_write, after handle_read.
handle_write(f) ==
  /\ Turn(f) /\ "in" \notin revents[f] /\ "out" \in revents[f] /\ Handled(f, "out")
  /\ IF unsent[conn_pool[f]] = 0
     THEN UNCHANGED <<down, closed, sk_err, conn, pc>>
     ELSE /\ write(conn_pool[f], socket[f], unsent[conn_pool[f]])
          /\ IF unsent'[conn_pool[f]] = 0
             THEN /\ is_read' = [is_read EXCEPT ![conn_pool[f]] = TRUE]
                  /\ is_write' = [is_write EXCEPT ![conn_pool[f]] = FALSE]
             ELSE UNCHANGED <<is_read, is_write>>
  /\ UNCHANGED <<client, asked, socket, conn_pool>>

\* Mutant: the Conntion is deleted, the descriptor is not closed.
Freed_NotClosed(f) ==
  /\ conn_pool' = [conn_pool EXCEPT ![f] = NULL]
  /\ is_read' = [is_read EXCEPT ![conn_pool[f]] = FALSE]
  /\ is_write' = [is_write EXCEPT ![conn_pool[f]] = FALSE]
  /\ unsent' = [unsent EXCEPT ![conn_pool[f]] = 0]
  /\ UNCHANGED <<client, asked, down, closed, sk_err, socket, pc>>

\* close and delete: the socket of f and the Conntion are gone.
Freed(f) ==
  /\ socket' = [socket EXCEPT ![f] = NULL]
  /\ sk_err' = [sk_err EXCEPT ![socket[f]] = "none"]
  /\ conn_pool' = [conn_pool EXCEPT ![f] = NULL]
  /\ is_read' = [is_read EXCEPT ![conn_pool[f]] = FALSE]
  /\ is_write' = [is_write EXCEPT ![conn_pool[f]] = FALSE]
  /\ unsent' = [unsent EXCEPT ![conn_pool[f]] = 0]
  /\ asked' = [asked EXCEPT ![socket[f]] = FALSE]
  /\ UNCHANGED <<client, down, closed, pc>>

\* Mutant: the events of one descriptor may be handled in any order.
CloseOnError_First(f) ==
  /\ Turn(f) /\ "err" \in revents[f] /\ Handled(f, "err")
  /\ Freed(f)

\* Mutant: a connection is closed when its events are handled.
CloseOnError_Always(f) ==
  /\ Turn(f) /\ Cardinality(revents[f]) = 1 /\ revents' = [revents EXCEPT ![f] = {}]
  /\ Freed(f)

\* POLLERR, after the other events: the descriptor is closed, the Conntion deleted.
CloseOnError(f) ==
  /\ Turn(f) /\ revents[f] = {"err"} /\ Handled(f, "err")
  /\ Freed(f)

run ==
  \/ Poll \/ handle_accept \/ AcceptFails
  \/ \E f \in Fd : ReadRequest(f) \/ ReadClosed(f) \/ handle_write(f) \/ CloseOnError(f)

Next ==
  \/ \E c \in Client : Connect(c) \/ Ask(c) \/ ReadAnswer(c) \/ Leave(c)
  \/ run

Spec == Init /\ [][Next]_vars

\* The server keeps running while poll has something to report, and so does a
\* client that waits for an answer.  Nobody has to connect, to ask or to leave.
FairSpec == Spec /\ WF_vars(run) /\ \A c \in Client : WF_vars(ReadAnswer(c))
-----------------------------------------------------------------------------
\* The type of every variable.
TypeOK ==
  /\ phase \in [Client -> {"new", "idle", "waiting", "gone"}]
  /\ got \in [Client -> 0 .. AnswerSize - 1]
  /\ over \in [Client -> {"no", "next", "past"}]
  /\ due \in [Client -> Nat]
  /\ asked \in [Client -> BOOLEAN]
  /\ down \in [Client -> 0 .. SocketSize]
  /\ closed \in [Client -> {"no", "eof", "reset"}]
  /\ sk_err \in [Client -> {"none", "reset", "pipe"}]
  /\ backlog \in Seq(Client)
  /\ socket \in [Fd -> Client \cup {NULL}]
  /\ conn_pool \in [Fd -> Client \cup {NULL}]
  /\ is_read \in [Client -> BOOLEAN] /\ is_write \in [Client -> BOOLEAN]
  /\ unsent \in [Client -> Nat]
  /\ revents \in [Fd -> SUBSET {"in", "out", "err"}]
  /\ pc \in {"serve", "accept", "ended"}

\* Under every open descriptor the pool has the connection of the client whose
\* socket it is, under no other one it has any, and no client has two; what poll
\* has reported and the loop still handles is of a connection that exists.
PoolMatches ==
  /\ conn_pool = socket
  /\ \A f, g \in Fd : socket[f] = socket[g] /\ socket[f] # NULL => f = g
  /\ \A f \in Fd : revents[f] # {} => conn_pool[f] # NULL

\* No piece of an answer is lost or sent twice: those that a client has not read are in
\* its socket or still to be sent.  While it has not given up on any answer, it has got a
\* part of the one it waits for and the rest is due, and it leaves nothing behind when it
\* asks again.
NothingLost ==
  \A c \in Client : phase[c] # "gone" =>
    /\ down[c] + unsent[c] = due[c]
    /\ over[c] # "past" =>
         got[c] + due[c] = IF phase[c] # "waiting" \/ asked[c] THEN 0
                           ELSE Size(over[c] = "next")

\* The server closes no connection whose client has not left.
ClosesOnlyLeft ==
  [][\A f \in Fd : socket[f] # NULL /\ socket'[f] # socket[f] => phase[socket[f]] = "gone"]_vars

\* The server is ended by one thing only: a client leaves before all of an answer to it
\* is sent.
EndsOnlyAmidAnswer ==
  pc = "ended" => \E c \in Client : phase[c] = "gone" /\ unsent[c] > 0

\* The server is ended, or has a connection to accept and no descriptor for it: in
\* both cases it serves nobody.
Stuck == pc = "ended" \/ (FreeFds = {} /\ backlog # << >>)

\* Every client that waits for an answer gets it, or learns that it is over its limit, or
\* leaves, or the server is stuck - also one whose connection is not accepted yet.  (One
\* that goes on behind such an answer may wait for more than is sent.)
Served ==
  \A c \in Client :
    phase[c] = "waiting" /\ over[c] # "past" ~> phase[c] # "waiting" \/ Stuck

\* The connection of a client that was reset is closed and its descriptor free,
\* sooner or later, or the server is stuck.
Reclaimed ==
  \A c \in Client : closed[c] = "reset" /\ (\E f \in Fd : socket[f] = c)
                    ~> (\A f \in Fd : socket[f] # c) \/ Stuck

\* A client whose connection has been accepted gets its answers while it waits for
\* them ("multiple client connections", README.md:13).
AcceptedServed ==
  \A c \in Client :
    phase[c] = "waiting" /\ over[c] # "past" /\ (\E f \in Fd : conn_pool[f] = c)
      ~> phase[c] # "waiting" \/ pc = "ended"
=============================================================================
