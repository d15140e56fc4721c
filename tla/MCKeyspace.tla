----------------------------- MODULE MCKeyspace -----------------------------
(* Keyspace with few keys, members whose scores tie, are rounded when they *)
(* are printed, are infinite or no number, and texts that break lines.     *)
EXTENDS Keyspace, TLC

CONSTANTS k1, k2, a, b

Keys == {k1, k2}
AnyOrder == Permutations(Keys)

\* A text with a line break.
Values == {<<Text(a), CRLF, Text(b)>>}

Names == 1 .. 2
Scores == {7, Infinity, NaN}
Ranks == {2}

\* One string too few, one too many.
Requests == {<<"ZADD">>} \cup {<<"GET", k, k>> : k \in Keys}

Commands == {"FLUSHALL", "FLUSH-ALL"}
CommandsWithBreak == {"FLUSH-ALL"}
=============================================================================
