----------------------------- MODULE Connection -----------------------------
(***************************************************************************)
(* class Conntion (connection.cpp), driven by the loop of Server::run      *)
(* (server.cpp) for one connection, and its client (client/main.cpp).      *)
(*                                                                         *)
(* Client and server are two processes; between them are the two byte      *)
(* streams of a socket.  The server is modelled system call by system call *)
(* and request by request: pc says where it is in a turn of the loop.      *)
(*    poll -> read -> try -> ... -> try -> reply [-> write] -> poll        *)
(*    poll -> write -> poll                                                *)
(* The commands themselves are not modelled: an answer is text that says   *)
(* which command it answers.                                               *)
(***************************************************************************)
EXTENDS Wire

CONSTANTS Request,        \* the commands, each a sequence of strings
          Window,         \* how many answers the client lets be due; 1 for main.cpp
          Listing,        \* the commands that are answered at length
          LongLen,        \* the length of such an answer, serialised, and
          ReplyLen,       \* of any other
          NoText,         \* what is answered to a command that nobody has sent
          TooLong,        \* what the client is told of an answer over its limit
          client_max_msg, \* k_max_msg of the client, 4096 bytes in the code
          k_max_msg,      \* 32 MB in the code
          k_read,         \* what one read takes at most, 64 KB in the code
          SocketSize,     \* what a stream can hold
          MaxRequests     \* bounds the number of requests of a behaviour

ASSUME SizeAssumption ==
  /\ Window \in Nat \ {0} /\ LongLen \in Nat /\ ReplyLen \in Nat
  /\ client_max_msg \in Nat /\ k_max_msg \in Nat
  /\ k_read \in Nat \ {0} /\ SocketSize \in Nat \ {0} /\ MaxRequests \in Nat

\* What answers are made of: their length and their text.
Unit == Nat \cup {NoText} \cup {Last(Last(cmd)) : cmd \in Request}

ASSUME RequestAssumption ==
  \A cmd \in Request : /\ cmd \in Seq(Range(cmd))
                       /\ \A string \in Range(cmd) : string \in Seq(Range(string))

ASSUME TextAssumption == TooLong \notin Seq(Unit)

VARIABLES sent, received,                   \* what the client asked and was told
          ahead,                            \* it has sent while an answer was due
          wbuf, rbuf,                       \* its buffers, in send_req and read_res
          want,                             \* the length that read_res has read
          up, down,                         \* the streams to and from the server
          read_buffer, write_buffer,        \* the fields of the Conntion
          is_read, is_write,
          pc, pollout,                      \* the turn of the loop, and its POLLOUT
          executed                          \* the commands executed

client == <<sent, received, ahead, wbuf, rbuf, want>>
vars   == <<client, up, down, read_buffer, write_buffer, is_read, is_write, pc, pollout,
            executed>>

Least(a, b) == IF a < b THEN a ELSE b

\* What is serialised for a command.
Response(cmd) ==
  LET text == IF cmd \in Request THEN Last(Last(cmd)) ELSE NoText
  IN  [i \in 1 .. IF cmd \in Listing THEN LongLen ELSE ReplyLen |-> text]

\* The constructor does not set is_write.
Init ==
  /\ sent = << >> /\ received = << >>
  /\ ahead = FALSE
  /\ wbuf = << >> /\ rbuf = << >> /\ want = 0
  /\ up = << >> /\ down = << >>
  /\ read_buffer = << >> /\ write_buffer = << >>
  /\ is_read = TRUE
  /\ is_write \in BOOLEAN
  /\ pc = "poll"
  /\ pollout = FALSE
  /\ executed = << >>

-----------------------------------------------------------------------------
(* The client *)

\* send_req, up to write_all; a request over the limit of the client is not sent.
Send(cmd) ==
  /\ wbuf = << >>
  /\ Len(Body(cmd)) <= client_max_msg
  /\ Len(sent) < MaxRequests /\ Len(sent) < Len(received) + Window
  /\ sent' = Append(sent, cmd)
  /\ ahead' = IF Len(received) < Len(sent) THEN TRUE ELSE ahead
  /\ wbuf' = Frame(Body(cmd))
  /\ UNCHANGED <<received, rbuf, want, up, down, read_buffer, write_buffer, is_read,
                 is_write, pc, pollout, executed>>

\* write_all: one write, which takes part of the data or all of it.
ClientWrite ==
  /\ \E n \in 1 .. Least(Len(wbuf), SocketSize - Len(up)) :
       /\ up' = up \o Take(wbuf, n)
       /\ wbuf' = Drop(wbuf, n)
  /\ UNCHANGED <<sent, received, ahead, rbuf, want, down, read_buffer, write_buffer, is_read,
                 is_write, pc, pollout, executed>>

\* read_res: an answer is due, and the requests are written.
Expecting == wbuf = << >> /\ Len(received) < Len(sent)

\* It has been told of an answer over its limit, and has left the text of that in the
\* stream.
GaveUp == TooLong \in Range(received)

\* The length that the client reads: that of an answer - or, when it has given up on one,
\* bytes of texts and lengths, which make any number.
LengthsRead == IF GaveUp THEN 0 .. client_max_msg + 1 ELSE {Head(down)}

\* One read of read_full, of the length of the answer.  When that is over the limit
\* the client gives up: it does not read the answer, and goes on.
ReadLength ==
  /\ Expecting
  /\ rbuf = << >> /\ down # << >>
  /\ down' = Tail(down)
  /\ \E len \in LengthsRead :
       IF len \in 1 .. client_max_msg
       THEN rbuf' = <<Head(down)>> /\ want' = len /\ UNCHANGED received
       ELSE /\ received' = Append(received, IF len = 0 THEN << >> ELSE TooLong)
            /\ UNCHANGED <<rbuf, want>>
  /\ UNCHANGED <<sent, ahead, wbuf, up, read_buffer, write_buffer, is_read, is_write, pc,
                 pollout, executed>>

\* One read of read_full, of the answer: part of what is missing or all of it.
ReadAnswer ==
  /\ Expecting
  /\ rbuf # << >>
  /\ \E n \in 1 .. Len(down) :
       LET got == rbuf \o Take(down, n)
       IN  /\ Len(got) <= want + 1
           /\ down' = Drop(down, n)
           /\ IF Len(got) = want + 1
              THEN rbuf' = << >> /\ want' = 0 /\ received' = Append(received, Tail(got))
              ELSE rbuf' = got /\ UNCHANGED <<want, received>>
  /\ UNCHANGED <<sent, ahead, wbuf, up, read_buffer, write_buffer, is_read, is_write, pc,
                 pollout, executed>>

ClientRead == ReadLength \/ ReadAnswer

-----------------------------------------------------------------------------
(* The server *)

\* poll, asked for POLLIN and POLLOUT according to the flags, reports something.
\* What it reports of POLLOUT is used after handle_read.
Poll ==
  /\ pc = "poll"
  /\ LET readable == is_read /\ up # << >>
         writable == is_write /\ Len(down) < SocketSize
     IN  /\ readable \/ writable
         /\ pollout' = writable
         /\ pc' = IF readable THEN "read" ELSE "write"
  /\ UNCHANGED <<client, up, down, read_buffer, write_buffer, is_read, is_write,
                 executed>>

\* handle_read, up to its loop.
handle_read ==
  /\ pc = "read"
  /\ LET n == Least(k_read, Len(up))
     IN  /\ read_buffer' = read_buffer \o Take(up, n)
         /\ up' = Drop(up, n)
  /\ pc' = "try"
  /\ UNCHANGED <<client, down, write_buffer, is_read, is_write, pollout, executed>>

\* A complete request is in the buffer, and its length is not over the limit.
HasRequest ==
  /\ read_buffer # << >>
  /\ read_buffer[1] <= k_max_msg
  /\ Len(read_buffer) >= read_buffer[1] + 1

\* Mutant: the length in front of the request is not consumed.
Unconsumed_OffByOne == Drop(read_buffer, read_buffer[1])

\* What buffer_consume leaves in the buffer.
Unconsumed == Drop(read_buffer, read_buffer[1] + 1)

\* request_data points into the buffer, behind the first unit.  When the parser
\* reads through it, buffer_consume has moved what was behind the request to the
\* front of the buffer, over the request; the memory behind that is untouched.
request_data ==
  LET memory == [i \in DOMAIN read_buffer |->
                   IF i <= Len(Unconsumed) THEN Unconsumed[i] ELSE read_buffer[i]]
  IN  SubSeq(memory, 2, read_buffer[1] + 1)

\* Mutant: the request is left in the buffer.
ExecuteRequest_KeepsRequest ==
  /\ pc = "try"
  /\ HasRequest
  /\ parser_req(request_data) # Failed
  /\ LET args == parser_req(request_data).args
     IN  /\ executed' = Append(executed, args)
         /\ write_buffer' = write_buffer \o Frame(Response(args))
  /\ pc' = "reply"
  /\ UNCHANGED <<client, up, down, read_buffer, is_read, is_write, pollout>>

\* try_one_request returns true: it has executed a request.
ExecuteRequest ==
  /\ pc = "try"
  /\ HasRequest
  /\ parser_req(request_data) # Failed
  /\ LET args == parser_req(request_data).args
     IN  /\ executed' = Append(executed, args)
         /\ write_buffer' = write_buffer \o Frame(Response(args))
  /\ read_buffer' = Unconsumed
  /\ UNCHANGED <<client, up, down, is_read, is_write, pc, pollout>>

\* try_one_request returns false, which ends the loop of handle_read: there is no
\* request, or there was one that does not parse.
LeaveLoop ==
  /\ pc = "try"
  /\ \/ ~HasRequest /\ UNCHANGED read_buffer
     \/ /\ HasRequest
        /\ parser_req(request_data) = Failed
        /\ read_buffer' = Unconsumed
  /\ pc' = "reply"
  /\ UNCHANGED <<client, up, down, write_buffer, is_read, is_write, pollout, executed>>

\* Mutant: the stream takes everything.
write_Everything ==
  /\ down' = down \o write_buffer
  /\ write_buffer' = << >>

\* Mutant: only a buffer that was written as a whole is consumed.
write_KeepsPart ==
  LET n == Least(Len(write_buffer), SocketSize - Len(down))
  IN  /\ down' = down \o Take(write_buffer, n)
      /\ write_buffer' = IF n = Len(write_buffer) THEN << >> ELSE write_buffer

\* The write of handle_write: what the stream has room for, perhaps nothing.
write ==
  LET n == Least(Len(write_buffer), SocketSize - Len(down))
  IN  /\ down' = down \o Take(write_buffer, n)
      /\ write_buffer' = Drop(write_buffer, n)

\* Mutant: what could not be written is not waited for.
Reply_KeepsReading ==
  /\ pc = "reply"
  /\ write
  /\ pc' = IF pollout THEN "write" ELSE "poll"
  /\ UNCHANGED <<client, up, read_buffer, is_read, is_write, pollout, executed>>

\* The end of handle_read: it turns from reading to writing, and writes.
Reply ==
  /\ pc = "reply"
  /\ IF write_buffer = << >>
     THEN UNCHANGED <<down, write_buffer, is_read, is_write>>
     ELSE /\ write
          /\ is_read' = (write_buffer' = << >>)
          /\ is_write' = (write_buffer' # << >>)
  /\ pc' = IF pollout THEN "write" ELSE "poll"
  /\ UNCHANGED <<client, up, read_buffer, pollout, executed>>

\* Mutant: the flags are not turned back when everything is written.
handle_write_KeepsFlags ==
  /\ pc = "write"
  /\ write
  /\ pc' = "poll"
  /\ UNCHANGED <<client, up, read_buffer, is_read, is_write, pollout, executed>>

\* handle_write, on POLLOUT.
handle_write ==
  /\ pc = "write"
  /\ write
  /\ IF write_buffer # << >> /\ write_buffer' = << >>
     THEN is_read' = TRUE /\ is_write' = FALSE
     ELSE UNCHANGED <<is_read, is_write>>
  /\ pc' = "poll"
  /\ UNCHANGED <<client, up, read_buffer, pollout, executed>>

Server == Poll \/ handle_read \/ ExecuteRequest \/ LeaveLoop \/ Reply \/ handle_write

Next ==
  \/ \E cmd \in Request : Send(cmd)
  \/ ClientWrite
  \/ ClientRead
  \/ Server

Spec == Init /\ [][Next]_vars

\* Both threads keep running while they can; nobody has to send a request.
FairSpec == Spec /\ WF_vars(Server) /\ WF_vars(ClientWrite) /\ WF_vars(ClientRead)
-----------------------------------------------------------------------------
\* The type of every variable that is not data.
TypeOK ==
  /\ sent \in Seq(Request) /\ ahead \in BOOLEAN /\ want \in 0 .. client_max_msg
  /\ Len(up) <= SocketSize /\ Len(down) <= SocketSize
  /\ is_read \in BOOLEAN /\ is_write \in BOOLEAN /\ pollout \in BOOLEAN
  /\ pc \in {"poll", "read", "try", "reply", "write"}

\* The flags that poll is asked with fit the buffer: a connection that has
\* something to write asks for POLLOUT, one that has not asks for POLLIN, and none
\* reads while an answer is unsent.  is_write, which starts as anything, is the
\* opposite of is_read once an answer has been written.
FlagsFitBuffers ==
  /\ pc = "poll" => is_read = (write_buffer = << >>)
  /\ pc = "poll" /\ write_buffer # << >> => is_write
  /\ pc = "read" => write_buffer = << >>
  /\ pc = "poll" /\ executed # << >> => is_write = ~is_read

\* What the server has not consumed are the messages of the requests behind the first n.
FramesFrom(n) ==
  LET frames == [i \in DOMAIN sent |-> Frame(Body(sent[i]))]
  IN  read_buffer \o up \o wbuf = FlattenSeq(Drop(frames, n))

\* The requests sent are within the limits of the server, and alike but for their text.
OneShape ==
  LET shape(cmd) == [i \in DOMAIN cmd |-> Len(cmd[i])]
  IN  /\ \A i \in DOMAIN sent : Len(sent[i]) <= k_max_args /\ Len(Body(sent[i])) <= k_max_msg
      /\ \A i, j \in DOMAIN sent : shape(sent[i]) = shape(sent[j])

\* However the requests are cut into pieces, and also when the server rejects one or reads
\* it wrong because a later one was moved over it, it consumes whole requests only and
\* executes at most one command for each: no byte is lost, read twice or taken for a length
\* that is none.  While all requests are alike it executes exactly one for each.
FramesAligned ==
  \E n \in Len(executed) .. Len(sent) : FramesFrom(n) /\ (OneShape => n = Len(executed))

\* How much the client has read for what it was told: of an answer that was too long
\* the length only.
Taken(answers) ==
  LET taken[i \in 0 .. Len(answers)] ==
        IF i = 0 THEN 0
        ELSE taken[i - 1] + 1 + (IF answers[i] = TooLong THEN 0 ELSE Len(answers[i]))
  IN  taken[Len(answers)]

\* The answers come back whole, once and in the order of execution: what the client
\* has still to read are the answers to the commands executed, less a whole answer
\* for each one that it has read and a length only for each one that was too long -
\* whose text is then left in front of all later answers.
AnswersAligned ==
  LET frames == [i \in DOMAIN executed |-> Frame(Response(executed[i]))]
  IN  rbuf \o down \o write_buffer = Drop(FlattenSeq(frames), Taken(received))

\* Every request is answered, sooner or later ("the server will return the corresponding
\* response", README.md:227).
EveryAnswered ==
  \A n \in 1 .. MaxRequests : (Len(sent) >= n) ~> (Len(received) >= n)

\* Again and again no answer is due any more - with the bound on their number: every request
\* is answered -, as long as the requests are within the limits of the server and alike and
\* the answers within the limit of the client.
Answered == []<>(Len(received) = Len(sent) \/ ~OneShape \/ GaveUp)

\* Every request is executed and answered, once and in order, until the client sends ahead
\* of an answer or gives up on one.
Abstract == INSTANCE Service
Refines == Abstract!Init /\ [][ahead' \/ GaveUp' \/ Abstract!Next]_(Abstract!vars)

\* No command is executed but those that were sent, in that order
\* (README.md:221-227, server.cpp:99).
ExecutedAsSent == IsPrefix(executed, sent)
=============================================================================
