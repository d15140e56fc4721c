-------------------------------- MODULE ZSet --------------------------------
(***************************************************************************)
(* One sorted set (zset.cpp): struct Value, its hash map and its AVL tree, *)
(* and the functions of ZsetEntry and Zset that work on them.              *)
(*                                                                         *)
(* An Entry_zset is linked into both structures.  There is at most one per *)
(* name, so its node in Avl is the name.  The hash map is the set of the   *)
(* names it finds, which HMap is shown to be.  A command runs alone, from  *)
(* its first lookup to its answer.  A set that does not exist yet is an    *)
(* empty one: every command creates the set it does not find.              *)
(***************************************************************************)
EXTENDS Avl, FiniteSets

CONSTANTS Score,      \* the scores clients send
          NaN,        \* the score std::stod makes of "nan"
          Rank,       \* the ranks clients ask for
          NoScore,    \* no Entry_zset is allocated for the name
          Nil         \* the answer about a name that is not a member

Name == Node

ASSUME NameAssumption  == Name \subseteq Nat
ASSUME ScoreAssumption == Score \subseteq Int \cup {NaN} /\ NoScore \notin Score
ASSUME RankAssumption  == Rank \subseteq Int

VARIABLES hmap,       \* the names linked into val->hmap
          tree,       \* val->tree
          score,      \* the score field of every allocated Entry_zset
          cmd, resp   \* the last command and its answer

vars == <<hmap, tree, score, cmd, resp>>

\* Two doubles: a comparison with NaN is false.
ScoreEq(x, y) == x # NaN /\ y # NaN /\ x = y
ScoreLess(x, y) == x # NaN /\ y # NaN /\ x < y

less(sc, a, b) ==
  IF ScoreEq(sc[a], sc[b]) THEN a < b ELSE ScoreLess(sc[a], sc[b])

\* The members that n with the scores sc is less than.
Above(sc, n) == {m \in hmap \ {n} : less(sc, n, m)}

Init ==
  /\ hmap = {}
  /\ tree = EmptyTree
  /\ score = [n \in Name |-> NoScore]
  /\ cmd = <<"init">>
  /\ resp = Nil

\* delete p: the next entry of this name is a new one, with a new node.
Freed(t, n) == [t EXCEPT !.cnt[n] = 1]

-----------------------------------------------------------------------------
\* Mutant: the new score is written into a node that keeps its place.
ZaddExisting_InPlace(n, s) ==
  /\ n \in hmap
  /\ score' = [score EXCEPT ![n] = s]
  /\ UNCHANGED <<hmap, tree>>

\* The member exists: out of the tree, new score, into the tree again.
ZaddExisting(n, s) ==
  /\ n \in hmap
  /\ score' = [score EXCEPT ![n] = s]
  /\ tree' = avl_insert(avl_delete_(tree, n), n, Above(score', n))
  /\ UNCHANGED hmap

\* A new entry is linked into the tree, then into the hash map.
ZaddNew(n, s) ==
  /\ n \notin hmap
  /\ score' = [score EXCEPT ![n] = s]
  /\ tree' = avl_insert(tree, n, Above(score', n))
  /\ hmap' = hmap \cup {n}

Zadd(n, s) ==
  /\ ZaddExisting(n, s) \/ ZaddNew(n, s)
  /\ cmd' = <<"zadd", n, s>>
  /\ resp' = 1

\* Mutant: the entry is freed and stays in the hash map.
Zrem_StaysInMap(n) ==
  /\ IF n \in hmap
     THEN /\ tree' = Freed(avl_delete_(tree, n), n)
          /\ score' = [score EXCEPT ![n] = NoScore]
          /\ UNCHANGED hmap
     ELSE UNCHANGED <<hmap, tree, score>>
  /\ cmd' = <<"zrem", n>>
  /\ resp' = 1

\* zrem: true for a name that is not a member, too.
Zrem(n) ==
  /\ IF n \in hmap
     THEN /\ hmap' = hmap \ {n}
          /\ tree' = Freed(avl_delete_(tree, n), n)
          /\ score' = [score EXCEPT ![n] = NoScore]
     ELSE UNCHANGED <<hmap, tree, score>>
  /\ cmd' = <<"zrem", n>>
  /\ resp' = 1

\* Zset::zdel: one by one the entries that the tree lists are unlinked from both
\* structures and freed; then both are cleared.
Zdel ==
  LET all_elements == avl_inorder(tree)
      size == Len(all_elements)
      emptied[i \in 0 .. size] ==      \* the tree without the first i of them
        IF i = 0 THEN tree
        ELSE Freed(avl_delete_(emptied[i - 1], all_elements[i]), all_elements[i])
  IN  /\ tree' = [emptied[size] EXCEPT !.root = NULL]
      /\ hmap' = {}
      /\ score' = [n \in Name |-> IF n \in Range(all_elements) THEN NoScore ELSE score[n]]
      /\ cmd' = <<"zdel">>
      /\ resp' = 1

-----------------------------------------------------------------------------
Answer(c, r) ==
  /\ cmd' = c
  /\ resp' = r
  /\ UNCHANGED <<hmap, tree, score>>

\* What zrange and zall copy out of the nodes.
Listed(nodes) == [i \in DOMAIN nodes |-> <<nodes[i], score[nodes[i]]>>]

\* Mutant: the node that was not found is read.
Zscore_Unchecked(n) == Answer(<<"zscore", n>>, score[n])

Zscore(n) == Answer(<<"zscore", n>>, IF n \in hmap THEN score[n] ELSE Nil)

Zrank(n) == Answer(<<"zrank", n>>, IF n \in hmap THEN avl_rank(tree, n) ELSE Nil)

Zcard == Answer(<<"zcard">>, Cardinality(hmap))

Zrange(lo, hi) == Answer(<<"zrange", lo, hi>>, Listed(avl_range_by_rank(tree, lo, hi)))

Zall == Answer(<<"zall">>, Listed(avl_inorder(tree)))

Next ==
  \/ \E n \in Name : \/ \E s \in Score : Zadd(n, s)
                     \/ Zrem(n) \/ Zscore(n) \/ Zrank(n)
  \/ Zdel \/ Zcard \/ Zall
  \/ \E lo, hi \in Rank : Zrange(lo, hi)

Spec == Init /\ [][Next]_vars
-----------------------------------------------------------------------------
\* What the last command can have been answered.
Answered ==
  CASE cmd[1] = "zscore" -> resp \in Score \cup {Nil}
    [] cmd[1] = "zrank" -> resp \in Nat \cup {Nil}
    [] cmd[1] = "zcard" -> resp \in Nat
    [] cmd[1] \in {"zrange", "zall"} -> resp \in Seq(Name \X Score)
    [] OTHER -> resp \in {1, Nil}

\* The type of the two structures, the entries and the answers: no command answers with
\* what is left of an entry that is not allocated (zset.cpp looks each name up and
\* copies each listed node), and a rank or a listing is one whatever the scores are.
TypeOK ==
  /\ hmap \subseteq Name
  /\ tree \in Tree
  /\ \A n \in Name : score[n] \in Score \cup {NoScore}
  /\ Answered

\* The hash map and the tree hold the same entries, each once, and these are the
\* allocated ones: no structure keeps a pointer to a freed entry, no entry leaks,
\* and ZCARD, which asks the hash map, counts what ZALL, which walks the tree,
\* lists.
SameEntries ==
  /\ {n \in Name : score[n] # NoScore} = hmap
  /\ Range(avl_inorder(tree)) = hmap
  /\ Len(avl_inorder(tree)) = Cardinality(hmap)

\* Every answer is the one SortedSet gives: scores, ranks, ranges and counts are
\* those of one set of members sorted by score and name, across any updates.
Abstract == INSTANCE SortedSet WITH scores <- score
Refines == Abstract!Spec

\* The scores that ZALL lists are in ascending order, those that are not numbers
\* left aside ("sorted by score", zset.h:83 and zset.h:86).
ListedByScore ==
  LET numbers == SelectSeq(avl_inorder(tree), LAMBDA n : score[n] # NaN)
  IN  \A i, j \in DOMAIN numbers : i < j => score[numbers[i]] <= score[numbers[j]]
=============================================================================
