------------------------------- MODULE MCZSet -------------------------------
(* ZSet with few members, whose scores tie, change and, in one run, are    *)
(* not numbers.                                                            *)
EXTENDS ZSet

Names == 1 .. 4

FewScores == 1 .. 2
FewScoresAndNaN == {1, 2, NaN}

\* Below the first rank, inside and behind the last.
Ranks == {-1, 1, 2, 3, 5}

NoRanks == {}
=============================================================================
