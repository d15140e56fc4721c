-------------------------------- MODULE Wire --------------------------------
(***************************************************************************)
(* The format of a request (parser.h:7-10, README.md:213-220), as the      *)
(* client writes it (send_req) and as the server reads it (Parser).        *)
(*                                                                         *)
(* Data is a sequence of units of four bytes: a unit is a 32-bit number or *)
(* four characters of a string, and every length counts units.  So the     *)
(* strings here are multiples of four bytes, and data is cut between units *)
(* only.  Characters that are read as a number make one that is larger     *)
(* than every length.                                                      *)
(***************************************************************************)
EXTENDS Cuts, SequencesExt

CONSTANT k_max_args    \* 32 in the code

ASSUME ArgsAssumption == k_max_args \in Nat

\* send_req: the number of strings, then each with its length in front.
Body(cmd) == <<Len(cmd)>> \o FlattenSeq([i \in DOMAIN cmd |-> <<Len(cmd[i])>> \o cmd[i]])

\* The message: the length of the body, then the body.
Frame(body) == <<Len(body)>> \o body

Failed == [cur |-> -1, args |-> << >>]

\* One more string of the request: its length, then itself.
parser_str(req, p) ==
  IF p = Failed \/ p.cur + 1 > Len(req) \/ req[p.cur + 1] \notin Nat THEN Failed
  ELSE LET end == p.cur + 1 + req[p.cur + 1]
       IN  IF end > Len(req) THEN Failed
           ELSE [cur |-> end, args |-> Append(p.args, SubSeq(req, p.cur + 2, end))]

\* The strings of the request, or Failed; nothing may be left behind the last.
parser_req(req) ==
  IF req = << >> \/ req[1] \notin 0 .. k_max_args THEN Failed
  ELSE LET read[i \in 0 .. req[1]] ==      \* behind the first i strings
             IF i = 0 THEN [cur |-> 1, args |-> << >>] ELSE parser_str(req, read[i - 1])
           p == read[req[1]]
       IN  IF p.cur = Len(req) THEN p ELSE Failed
=============================================================================
