------------------------------- MODULE Store -------------------------------
(***************************************************************************)
(* What the server promises about its keys (README.md:232-265): strings    *)
(* and sorted sets, in two name spaces of their own.  A set that has no    *)
(* member is as good as none.  A command either fails and changes nothing, *)
(* or does what its name says; a query changes nothing.  Keyspace, with    *)
(* one hash map for both, sets that come and go, and answers that travel   *)
(* as text, is shown to implement this module.                             *)
(*                                                                         *)
(* Of two things it does not say which: whether a request that fails is    *)
(* told so by an error or by a simple string, and which of the two nearest *)
(* numbers a score half-way between them is told as.  And it promises no   *)
(* order any more of a set that was given a score that is no number.       *)
(***************************************************************************)
EXTENDS Resp

CONSTANTS Key,            \* the names of strings and of sets
          Value,          \* the texts stored under a key
          Name, Score,    \* the members of a set and their scores
          NaN, Infinity,  \* the score that is no number, and the greatest one
          Rank,           \* the ranks clients ask for
          NotANumber,     \* text where a score or a rank is expected
          Malformed,      \* requests with more or fewer strings than their command has
          Unknown,        \* names that no command has
          TwoLines,       \* those of them that have a line break in the middle
          NoString,       \* no string under the key
          NoScore         \* not a member

VARIABLES strings,        \* the string of every key
          sets,           \* the score of every name in the set of every key
          disordered,     \* the keys whose sets have no order
          request,        \* the last request, and what the client reads of its
          answer          \* answer

vars == <<strings, sets, disordered, request, answer>>

Contents(scores) == INSTANCE SortedSet WITH cmd <- << >>, resp <- << >>, Nil <- << >>

Init ==
  /\ strings = [k \in Key |-> NoString]
  /\ sets = [k \in Key |-> [n \in Name |-> NoScore]]
  /\ disordered = {}
  /\ request = << >>
  /\ answer = << >>

\* The client is answered by one of these responses.
Answers(args, responses) ==
  /\ request' = args
  /\ answer' \in responses

\* What an answer says of a name and what it may say of a score: six decimals, which are
\* no more than half a unit away from it.
NameText(n) == <<Text(n)>>
ScoreTexts(s) ==
  CASE s = NaN -> {<<Text("nan")>>}
    [] s = Infinity -> {<<Text("inf")>>}
    [] s = -Infinity -> {<<Text("-inf")>>}
    [] OTHER -> {<<Number(t)>> : t \in {u \in (s - 5) \div 10 .. (s + 5) \div 10 :
                                          10 * u - s \in -5 .. 5}}

Members(k) == Contents(sets[k])!Members

\* The ways to tell all the scores of a set.
Tellings(k) ==
  {told \in [Members(k) -> UNION {ScoreTexts(sets[k][n]) : n \in Members(k)}] :
     \A n \in Members(k) : told[n] \in ScoreTexts(sets[k][n])}

\* The orders that the members may be listed in.
Rankings(k) ==
  IF k \in disordered THEN Contents(sets[k])!Arrangements ELSE {Contents(sets[k])!Ranking}

\* Names and scores alternate in the answer to ZRANGE and ZALL.
Elements(names, told) ==
  Array(FlattenSeq([i \in DOMAIN names |-> <<BulkString(NameText(names[i])),
                                             SimpleString(told[names[i]])>>]))

-----------------------------------------------------------------------------
(* Strings *)

Get(k) ==
  /\ Answers(<<"GET", k>>, {BulkString(IF strings[k] = NoString THEN << >> ELSE strings[k])})
  /\ UNCHANGED <<strings, sets, disordered>>

Set(k, v) ==
  /\ Answers(<<"SET", k, v>>, {SimpleString(<<Text("OK")>>)})
  /\ strings' = [strings EXCEPT ![k] = v]
  /\ UNCHANGED <<sets, disordered>>

Del(k) ==
  /\ Answers(<<"DEL", k>>, {Integer(IF strings[k] = NoString THEN -1 ELSE 1)})
  /\ strings' = [strings EXCEPT ![k] = NoString]
  /\ UNCHANGED <<sets, disordered>>

-----------------------------------------------------------------------------
(* Sorted sets *)

Zadd(k, s, n) ==
  /\ Answers(<<"ZADD", k, s, n>>, {Integer(1)})
  /\ sets' = [sets EXCEPT ![k][n] = s]
  /\ disordered' = IF s = NaN THEN disordered \cup {k} ELSE disordered
  /\ UNCHANGED strings

Zrem(k, n) ==
  /\ Answers(<<"ZREM", k, n>>, {Integer(1)})
  /\ sets' = [sets EXCEPT ![k][n] = NoScore]
  /\ UNCHANGED <<strings, disordered>>

Zdel(k) ==
  /\ Answers(<<"ZDEL", k>>, {SimpleString(<<Text("success")>>)})
  /\ sets' = [sets EXCEPT ![k] = [n \in Name |-> NoScore]]
  /\ disordered' = disordered \ {k}
  /\ UNCHANGED strings

\* What a query answers about a name that is not a member.
NilError == Error(<<Text("nil()")>>)

Query(args, responses) ==
  /\ Answers(args, responses)
  /\ UNCHANGED <<strings, sets, disordered>>

Zscore(k, n) ==
  Query(<<"ZSCORE", k, n>>,
        IF n \in Members(k) THEN {SimpleString(text) : text \in ScoreTexts(sets[k][n])}
        ELSE {NilError})

Zrank(k, n) ==
  Query(<<"ZRANK", k, n>>,
        IF n \in Members(k)
        THEN {Integer(Contents(sets[k])!RankOf(r, n)) : r \in Rankings(k)}
        ELSE {NilError})

Zcard(k) == Query(<<"ZCARD", k>>, {Integer(Cardinality(Members(k)))})

Zrange(k, lo, hi) ==
  Query(<<"ZRANGE", k, lo, hi>>,
        {Elements(Contents(sets[k])!InRanks(r, lo, hi), told) :
           r \in Rankings(k), told \in Tellings(k)})

Zall(k) ==
  Query(<<"ZALL", k>>, {Elements(r, told) : r \in Rankings(k), told \in Tellings(k)})

-----------------------------------------------------------------------------
(* Requests that fail *)

\* Nothing is changed and the client is told why: by a line, whatever its type.
Refuse(args, line) == Query(args, {SimpleString(line), Error(line)})

\* Text where a number is expected.
ZaddText(k, n) == Refuse(<<"ZADD", k, NotANumber, n>>, <<Text("stod")>>)
ZrangeText(k, lo, hi) ==
  /\ NotANumber \in {lo, hi}
  /\ Refuse(<<"ZRANGE", k, lo, hi>>, <<Text("stoi")>>)

WrongArity(args) == Refuse(args, <<Text(args[1]), Text("arity")>>)

\* The client is told the name in quotes, up to its first line break.
UnknownCommand(name) ==
  Refuse(<<name>>, <<Text("unknown"), Text(name)>>
                   \o (IF name \in TwoLines THEN << >> ELSE <<Text("'")>>))

Next ==
  \/ \E k \in Key :
       \/ Get(k) \/ Del(k) \/ Zdel(k) \/ Zcard(k) \/ Zall(k)
       \/ \E v \in Value : Set(k, v)
       \/ \E n \in Name : \/ Zrem(k, n) \/ Zscore(k, n) \/ Zrank(k, n) \/ ZaddText(k, n)
                           \/ \E s \in Score : Zadd(k, s, n)
       \/ \E lo, hi \in Rank : Zrange(k, lo, hi)
       \/ \E lo, hi \in Rank \cup {NotANumber} : ZrangeText(k, lo, hi)
  \/ \E args \in Malformed : WrongArity(args)
  \/ \E name \in Unknown : UnknownCommand(name)

Spec == Init /\ [][Next]_vars
=============================================================================
