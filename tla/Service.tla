------------------------------ MODULE Service ------------------------------
(***************************************************************************)
(* What a connection promises its client (README.md:221-227): every        *)
(* request is executed, once, in the order in which the requests were      *)
(* sent, and answered in that order.  Connection is shown to implement     *)
(* this module for a client that waits for each answer.                    *)
(***************************************************************************)
EXTENDS Naturals, Sequences

CONSTANTS Request,         \* the commands clients send
          Response(_)      \* the answer to a command

VARIABLES sent,            \* the commands, in the order sent
          executed,        \* the commands, in the order executed
          received         \* the answers, in the order received

vars == <<sent, executed, received>>

Init ==
  /\ sent = << >>
  /\ executed = << >>
  /\ received = << >>

Send(cmd) ==
  /\ sent' = Append(sent, cmd)
  /\ UNCHANGED <<executed, received>>

Execute ==
  /\ Len(executed) < Len(sent)
  /\ executed' = Append(executed, sent[Len(executed) + 1])
  /\ UNCHANGED <<sent, received>>

Receive ==
  /\ Len(received) < Len(executed)
  /\ received' = Append(received, Response(executed[Len(received) + 1]))
  /\ UNCHANGED <<sent, executed>>

Next ==
  \/ \E cmd \in Request : Send(cmd)
  \/ Execute
  \/ Receive

Spec == Init /\ [][Next]_vars
=============================================================================
