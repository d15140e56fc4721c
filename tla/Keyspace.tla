------------------------------ MODULE Keyspace ------------------------------
(***************************************************************************)
(* The top-level hash map (globals.h) and the CommandDispatcher            *)
(* (command_dispatcher.cpp), from the strings of a request to the text of  *)
(* its reply and what the client reads in it.                              *)
(*                                                                         *)
(* A key has up to two nodes in the map: an Entry_str, which string        *)
(* commands look for, and a ZsetNode, which the others look for.  Map and  *)
(* sets are taken for what HMap and ZSet show them to be; the server       *)
(* executes one request at a time.  Scores are counted in units of 1e-7;   *)
(* an infinite one is a number that no other exceeds.                      *)
(***************************************************************************)
EXTENDS Resp

CONSTANTS Key, Value, Name, Score, NaN, Infinity, Rank,     \* as in Store
          NotANumber, Malformed, Unknown, TwoLines,
          NoString, NoScore,
          NoSet                              \* no ZsetNode of this key is in the map

VARIABLES strings,     \* the value of the Entry_str of every key, or NoString
          zsets,       \* the score of every name in the Value of the ZsetNode of
                       \* every key, or NoSet
          disordered,  \* the keys whose AVL tree a NaN has been in, since the set was
                       \* created: less is no order then
          request,     \* the last request,
          reply,       \* its reply, serialised, and
          answer,      \* what the client makes of that
          undefined    \* a command has read memory that is no Entry_str as one

vars == <<strings, zsets, disordered, request, reply, answer, undefined>>

\* Every command and the number of its strings.
registry ==
  [GET |-> 2, SET |-> 3, DEL |-> 2, ZADD |-> 4, ZREM |-> 3, ZSCORE |-> 3, ZRANK |-> 3,
   ZCARD |-> 2, ZRANGE |-> 4, ZALL |-> 2, ZDEL |-> 2]

ASSUME RequestsAssumption ==
  /\ \A args \in Malformed : args[1] \in DOMAIN registry /\ Len(args) # registry[args[1]]
  /\ Unknown \cap DOMAIN registry = {} /\ TwoLines \subseteq Unknown

\* Names are numbered in the order of std::string; a value is a sequence of units of text.
ASSUME NameAssumption  == Name \subseteq Nat
ASSUME ScoreAssumption ==
  /\ Infinity \in Nat \ {0} /\ NaN \notin Int /\ NaN # NoScore
  /\ Score \subseteq (-Infinity .. Infinity) \cup {NaN} /\ NoScore \notin Score
ASSUME RankAssumption  == Rank \subseteq Int
ASSUME ValueAssumption == \A v \in Value : v \in Seq(Range(v))
ASSUME NoSetAssumption == NoSet \notin [Name -> Score \cup {NoScore}]

SetOf(scores) == INSTANCE SortedSet WITH cmd <- << >>, resp <- << >>, Nil <- << >>

NewSet == [n \in Name |-> NoScore]

Init ==
  /\ strings = [k \in Key |-> NoString]
  /\ zsets = [k \in Key |-> NoSet]
  /\ disordered = {}
  /\ request = << >>
  /\ reply = << >>
  /\ answer = parse(<< >>)
  /\ undefined = FALSE

\* The request is executed and the response serialised (try_one_request); the
\* client parses what it has read (print_raw_and_parsed).
Reply(args, response) ==
  /\ ~undefined
  /\ request' = args
  /\ LET text == serialize(response)
     IN  reply' = text /\ answer' = parse(text)
  /\ UNCHANGED undefined

make_error_response(msg) == SimpleString(msg)

-----------------------------------------------------------------------------
(* String commands *)

\* The lookup compares the key with every node of the same hash code as if it were
\* an Entry_str.  Of a ZsetNode, which is smaller, it reads the memory in front of
\* the node: it finds another key there, or one that is equal, or a pointer that
\* leads nowhere.  A rehash may put either node of a key in front of the other.
Misread(args) ==
  /\ ~undefined
  /\ zsets[args[2]] # NoSet
  /\ undefined' = TRUE
  /\ request' = args
  /\ reply' = << >> /\ answer' = parse(<< >>)
  /\ UNCHANGED <<strings, zsets, disordered>>

handle_get(k) ==
  /\ Reply(<<"GET", k>>, BulkString(IF strings[k] = NoString THEN << >> ELSE strings[k]))
  /\ UNCHANGED <<strings, zsets, disordered>>

handle_set(k, v) ==
  /\ strings' = [strings EXCEPT ![k] = v]
  /\ Reply(<<"SET", k, v>>, SimpleString(<<Text("OK")>>))
  /\ UNCHANGED <<zsets, disordered>>

handle_del(k) ==
  /\ strings' = [strings EXCEPT ![k] = NoString]
  /\ Reply(<<"DEL", k>>, Integer(IF strings[k] # NoString THEN 1 ELSE -1))
  /\ UNCHANGED <<zsets, disordered>>

-----------------------------------------------------------------------------
(* Sorted set commands.  Their lookup takes the value of an Entry_str for a *)
(* key whose length is an address, and never finds that one equal.          *)

\* Mutant: the set of the key is replaced by a new one.
Created_Always(k) == NewSet

\* exsit, or create if there is none: what every command but ZDEL begins with.
Created(k) == IF zsets[k] # NoSet THEN zsets[k] ELSE NewSet

\* A new score for the member n.
zadd(k, n, s) ==
  /\ zsets' = [zsets EXCEPT ![k] = [Created(k) EXCEPT ![n] = s]]
  /\ disordered' = IF s = NaN THEN disordered \cup {k} ELSE disordered
  /\ UNCHANGED strings

\* The set is there, and as it was, when the command has ended.
Looked(k) ==
  /\ zsets' = [zsets EXCEPT ![k] = Created(k)]
  /\ UNCHANGED <<strings, disordered>>

\* Mutant: what is no number is a score.
handle_zadd_Unchecked(k, s, n) ==
  zadd(k, n, s) /\ Reply(<<"ZADD", k, s, n>>, Integer(1))

\* std::stod throws when the set has been created.
handle_zadd(k, s, n) ==
  IF s = NotANumber
  THEN Looked(k) /\ Reply(<<"ZADD", k, s, n>>, make_error_response(<<Text("stod")>>))
  ELSE zadd(k, n, s) /\ Reply(<<"ZADD", k, s, n>>, Integer(1))

\* zrem returns true for a name that is not a member, too.
handle_zrem(k, n) ==
  /\ zadd(k, n, NoScore)
  /\ Reply(<<"ZREM", k, n>>, Integer(1))

Nil == Error(<<Text("nil()")>>)

\* std::to_string prints six decimals, the nearest; which of two that are equally near
\* depends on how the double is stored.  (The sign of a NaN is left out.)
to_string(score) ==
  CASE score = NaN -> <<Text("nan")>>
    [] score = Infinity -> <<Text("inf")>>
    [] score = -Infinity -> <<Text("-inf")>>
    [] OTHER -> <<Number(CHOOSE t \in (score - 5) \div 10 .. (score + 5) \div 10 :
                           10 * t - score \in -5 .. 5)>>

\* The order in which the tree has the members of the set: when a NaN has been among
\* them, any order they may have come into.
Rankings(k) ==
  IF k \in disordered THEN SetOf(Created(k))!Arrangements ELSE {SetOf(Created(k))!Ranking}

handle_zscore(k, n) ==
  /\ Looked(k)
  /\ Reply(<<"ZSCORE", k, n>>,
           IF n \in SetOf(Created(k))!Members THEN SimpleString(to_string(Created(k)[n])) ELSE Nil)

handle_zrank(k, n) ==
  /\ Looked(k)
  /\ \E r \in Rankings(k) :
       Reply(<<"ZRANK", k, n>>,
             IF n \in SetOf(Created(k))!Members THEN Integer(SetOf(Created(k))!RankOf(r, n))
             ELSE Nil)

handle_zcard(k) ==
  /\ Looked(k)
  /\ Reply(<<"ZCARD", k>>, Integer(Cardinality(SetOf(Created(k))!Members)))

\* The elements of an answer: the name and the score of every entry.
Listed(entries) ==
  Array(FlattenSeq([i \in DOMAIN entries |-> <<BulkString(<<Text(entries[i][1])>>),
                                               SimpleString(to_string(entries[i][2]))>>]))

\* std::stoi of either bound throws when the set has been created.
handle_zrange(k, lo, hi) ==
  /\ Looked(k)
  /\ IF NotANumber \in {lo, hi}
     THEN Reply(<<"ZRANGE", k, lo, hi>>, make_error_response(<<Text("stoi")>>))
     ELSE \E r \in Rankings(k) :
            Reply(<<"ZRANGE", k, lo, hi>>,
                  Listed(SetOf(Created(k))!Listed(SetOf(Created(k))!InRanks(r, lo, hi))))

handle_zall(k) ==
  /\ Looked(k)
  /\ \E r \in Rankings(k) : Reply(<<"ZALL", k>>, Listed(SetOf(Created(k))!Listed(r)))

\* A key without a set is a success, too.
handle_zdel(k) ==
  /\ zsets' = [zsets EXCEPT ![k] = NoSet]
  /\ disordered' = disordered \ {k}
  /\ Reply(<<"ZDEL", k>>, SimpleString(<<Text("success")>>))
  /\ UNCHANGED strings

-----------------------------------------------------------------------------
(* execute_command: requests that reach no handler *)

UnknownCommand(args) ==
  /\ args[1] \notin DOMAIN registry
  /\ LET name == IF args[1] \in TwoLines THEN <<Text(args[1]), CRLF, Text(args[1])>>
                                         ELSE <<Text(args[1])>>
     IN  Reply(args, make_error_response(<<Text("unknown")>> \o name \o <<Text("'")>>))
  /\ UNCHANGED <<strings, zsets, disordered>>

\* validate_args.
WrongArity(args) ==
  /\ args[1] \in DOMAIN registry
  /\ Len(args) # registry[args[1]]
  /\ Reply(args, make_error_response(<<Text(args[1]), Text("arity")>>))
  /\ UNCHANGED <<strings, zsets, disordered>>

Next ==
  \/ \E k \in Key :
       \/ handle_get(k) \/ handle_del(k)
       \/ handle_zdel(k) \/ handle_zcard(k) \/ handle_zall(k)
       \/ \E v \in Value : handle_set(k, v) \/ Misread(<<"SET", k, v>>)
       \/ Misread(<<"GET", k>>) \/ Misread(<<"DEL", k>>)
       \/ \E n \in Name : \/ handle_zrem(k, n) \/ handle_zscore(k, n) \/ handle_zrank(k, n)
                          \/ \E s \in Score \cup {NotANumber} : handle_zadd(k, s, n)
       \/ \E lo, hi \in Rank \cup {NotANumber} : handle_zrange(k, lo, hi)
  \/ \E args \in Malformed : WrongArity(args)
  \/ \E name \in Unknown : UnknownCommand(<<name>>)

Spec == Init /\ [][Next]_vars
-----------------------------------------------------------------------------
\* The type of the two kinds of nodes.
TypeOK ==
  /\ strings \in [Key -> Value \cup {NoString}]
  /\ zsets \in [Key -> [Name -> Score \cup {NoScore}] \cup {NoSet}]
  /\ disordered \subseteq Key
  /\ undefined \in BOOLEAN

\* The client reads the whole reply as one response and takes no part of it for a
\* reply - except that the name of an unknown command may break the line in which
\* it is quoted.
OneResponse ==
  reply = << >> \/ request[1] \in TwoLines \/
    /\ answer.outcome = "parsed" /\ answer.rest = << >>
    /\ \A n \in 0 .. Len(reply) - 1 : parse(SubSeq(reply, 1, n)).outcome # "parsed"

\* Every command does to the strings and the sets what its name says and tells the
\* client so, a command that fails changes nothing that another can see, and a set
\* that was created for nothing is seen by nobody; until a string command misreads
\* the node of a set.
Abstract == INSTANCE Store
              WITH sets <- [k \in Key |-> IF zsets[k] = NoSet THEN NewSet ELSE zsets[k]],
                   answer <- IF answer.outcome = "parsed" THEN answer.response ELSE << >>
Refines == Abstract!Init /\ [][undefined' \/ Abstract!Next]_(Abstract!vars)

\* The requests that fail: no such command, too few or too many strings, text where a
\* number is expected.
Fails(args) ==
  \/ args[1] \notin DOMAIN registry
  \/ Len(args) # registry[args[1]]
  \/ \E i \in DOMAIN args : args[i] = NotANumber

\* A request that fails is answered by an error ("-Error message", README.md:135), so
\* that a client can tell the message from a string that was asked for.
ErrorsAreErrors ==
  request # << >> /\ Fails(request) /\ answer.outcome = "parsed" => answer.response.type = "-"
=============================================================================
