----------------------------- MODULE SortedSet -----------------------------
(***************************************************************************)
(* What the sorted-set commands promise (zset.h:68-87): members with a     *)
(* score each, ranked from 1 by score and, among equal scores, by name.    *)
(* ZSet, which keeps them in a hash map and an AVL tree, is shown to       *)
(* implement this module.                                                  *)
(***************************************************************************)
EXTENDS Integers, Sequences, FiniteSets

CONSTANTS Name,       \* members, ordered by <
          Score,      \* the scores clients use
          Rank,       \* the ranks clients ask for
          NoScore,    \* not a member
          Nil         \* the answer about a name that is not a member

VARIABLES scores,     \* the score of every name
          cmd, resp   \* the last command and its answer

vars == <<scores, cmd, resp>>

Members == {n \in Name : scores[n] # NoScore}

Before(a, b) ==
  \/ scores[a] < scores[b]
  \/ scores[a] = scores[b] /\ a < b

Ranking ==
  CHOOSE s \in [1 .. Cardinality(Members) -> Members] :
    \A i, j \in DOMAIN s : i < j => Before(s[i], s[j])

\* The members in any order.
Arrangements ==
  {s \in [1 .. Cardinality(Members) -> Members] :
     \A n \in Members : \E i \in DOMAIN s : s[i] = n}

\* The members from one rank to another; ranks outside 1..ZCARD select nothing.
InRanks(ranking, lo, hi) == SubSeq(ranking, IF lo < 1 THEN 1 ELSE lo,
                                   IF hi > Len(ranking) THEN Len(ranking) ELSE hi)

RankOf(ranking, n) == CHOOSE i \in DOMAIN ranking : ranking[i] = n

\* The elements of a ranking as the server sends them.
Listed(names) == [i \in DOMAIN names |-> <<names[i], scores[names[i]]>>]

Init ==
  /\ scores = [n \in Name |-> NoScore]
  /\ cmd = <<"init">>
  /\ resp = Nil

Zadd(n, s) ==
  /\ cmd' = <<"zadd", n, s>>
  /\ scores' = [scores EXCEPT ![n] = s]
  /\ resp' = 1

Zrem(n) ==
  /\ cmd' = <<"zrem", n>>
  /\ scores' = [scores EXCEPT ![n] = NoScore]
  /\ resp' = 1

Zdel ==
  /\ cmd' = <<"zdel">>
  /\ scores' = [n \in Name |-> NoScore]
  /\ resp' = 1

Zscore(n) ==
  /\ cmd' = <<"zscore", n>>
  /\ resp' = IF n \in Members THEN scores[n] ELSE Nil
  /\ UNCHANGED scores

Zrank(n) ==
  /\ cmd' = <<"zrank", n>>
  /\ resp' = IF n \in Members THEN RankOf(Ranking, n) ELSE Nil
  /\ UNCHANGED scores

Zcard ==
  /\ cmd' = <<"zcard">>
  /\ resp' = Cardinality(Members)
  /\ UNCHANGED scores

Zrange(lo, hi) ==
  /\ cmd' = <<"zrange", lo, hi>>
  /\ resp' = Listed(InRanks(Ranking, lo, hi))
  /\ UNCHANGED scores

Zall ==
  /\ cmd' = <<"zall">>
  /\ resp' = Listed(Ranking)
  /\ UNCHANGED scores

Next ==
  \/ \E n \in Name : \/ \E s \in Score : Zadd(n, s)
                     \/ Zrem(n) \/ Zscore(n) \/ Zrank(n)
  \/ Zdel \/ Zcard \/ Zall
  \/ \E lo, hi \in Rank : Zrange(lo, hi)

Spec == Init /\ [][Next]_vars
=============================================================================
