----------------------------- MODULE ZSetProofs -----------------------------
(***************************************************************************)
(* The hash map and the tree of a sorted set hold the same entries, for    *)
(* any names and scores, also scores that are not numbers; and if no score *)
(* is one of those, ZSet implements SortedSet.                             *)
(***************************************************************************)
EXTENDS ZSet, AvlProofs, FiniteSetTheorems

\* The tree is ordered by less, if that is an order.
Agrees(R, sc, M) ==
  NaN \notin Score => \A x, y \in M : <<x, y>> \in R <=> less(sc, x, y)

\* t is a search tree of M in which every size is exact, and other nodes point at nothing.
SearchTree(t, M, sc) ==
  /\ \E R : Ordered(R, M) /\ Shape(t, M, R, M) /\ Agrees(R, sc, M)
  /\ ExactOff(t, M, {})
  /\ Clean(t, M)

\* The inductive invariant: the allocated entries are those of the hash map and the ones
\* of which the tree is a search tree.
IInv ==
  /\ hmap \in SUBSET Name
  /\ score \in [Name -> Score \cup {NoScore}]
  /\ \A n \in Name : score[n] # NoScore <=> n \in hmap
  /\ SearchTree(tree, hmap, score)

LEMMA SubOrder ==
  ASSUME NEW R, NEW X, Ordered(R, X), NEW Y \in SUBSET X
  PROVE  Ordered(R, Y)
BY DEF Ordered

\* Numbers, and names among equal numbers, are ordered by less.
LEMMA LessIsOrder ==
  ASSUME NaN \notin Score, NEW M \in SUBSET Name, NEW sc, \A x \in M : sc[x] \in Score
  PROVE  /\ \A x, y \in M : less(sc, x, y) <=> \/ sc[x] < sc[y]
                                               \/ sc[x] = sc[y] /\ x < y
         /\ Ordered({q \in M \X M : less(sc, q[1], q[2])}, M)
<1> DEFINE Q == {q \in M \X M : less(sc, q[1], q[2])}
<1>1. \A x \in M : sc[x] \in Int /\ sc[x] # NaN /\ x \in Int
  <2> SUFFICES ASSUME NEW x \in M PROVE sc[x] \in Int /\ sc[x] # NaN /\ x \in Int
    OBVIOUS
  <2>1. sc[x] \in Score /\ sc[x] # NaN
    OBVIOUS
  <2>2. sc[x] \in Int
    BY <2>1, ScoreAssumption
  <2>3. x \in Int
    BY NameAssumption
  <2> QED BY <2>1, <2>2, <2>3
<1>2. \A x, y \in M : less(sc, x, y) <=> sc[x] < sc[y] \/ (sc[x] = sc[y] /\ x < y)
  <2> SUFFICES ASSUME NEW x \in M, NEW y \in M
               PROVE  less(sc, x, y) <=> sc[x] < sc[y] \/ (sc[x] = sc[y] /\ x < y)
    OBVIOUS
  <2>1. ScoreEq(sc[x], sc[y]) <=> sc[x] = sc[y]
    BY <1>1 DEF ScoreEq
  <2>2. ScoreLess(sc[x], sc[y]) <=> sc[x] < sc[y]
    BY <1>1 DEF ScoreLess
  <2>3. sc[x] \in Int /\ sc[y] \in Int
    BY <1>1
  <2> QED BY <2>1, <2>2, <2>3 DEF less
<1>3. \A x, y \in M : <<x, y>> \in Q <=> less(sc, x, y)
  OBVIOUS
<1> HIDE DEF Q
<1>4. \A x, y \in M : <<x, y>> \in Q <=> sc[x] < sc[y] \/ (sc[x] = sc[y] /\ x < y)
  BY <1>2, <1>3
<1>5. \A x \in M : <<x, x>> \notin Q
  BY <1>1, <1>4
<1>6. \A x, y, z \in M : <<x, y>> \in Q /\ <<y, z>> \in Q => <<x, z>> \in Q
  <2> SUFFICES ASSUME NEW x \in M, NEW y \in M, NEW z \in M, <<x, y>> \in Q, <<y, z>> \in Q
               PROVE  <<x, z>> \in Q
    OBVIOUS
  <2>1. /\ sc[x] < sc[y] \/ (sc[x] = sc[y] /\ x < y)
        /\ sc[y] < sc[z] \/ (sc[y] = sc[z] /\ y < z)
    BY <1>4
  <2>2. sc[x] < sc[z] \/ (sc[x] = sc[z] /\ x < z)
    BY <1>1, <2>1
  <2> QED BY <1>4, <2>2
<1>7. \A x, y \in M : x = y \/ <<x, y>> \in Q \/ <<y, x>> \in Q
  <2> SUFFICES ASSUME NEW x \in M, NEW y \in M
               PROVE  x = y \/ <<x, y>> \in Q \/ <<y, x>> \in Q
    OBVIOUS
  <2>1. sc[x] < sc[y] \/ sc[y] < sc[x] \/ sc[x] = sc[y]
    BY <1>1
  <2>2. x < y \/ y < x \/ x = y
    BY <1>1
  <2> QED BY <1>4, <2>1, <2>2
<1>8. Ordered(Q, M)
  BY <1>5, <1>6, <1>7 DEF Ordered
<1> QED BY <1>2, <1>8 DEF Q

\* Scores of others do not matter.
LEMMA SameScores ==
  ASSUME NEW t, NEW M, NEW sc, SearchTree(t, M, sc), NEW sd, \A x \in M : sd[x] = sc[x]
  PROVE  SearchTree(t, M, sd)
<1>1. PICK R : Ordered(R, M) /\ Shape(t, M, R, M) /\ Agrees(R, sc, M)
  BY DEF SearchTree
<1>2. \A x, y \in M : less(sc, x, y) = less(sd, x, y)
  BY DEF less
<1>3. Agrees(R, sd, M)
  BY <1>1, <1>2 DEF Agrees
<1> QED BY <1>1, <1>3 DEF SearchTree

\* An entry is taken out of the tree.
LEMMA Removed ==
  ASSUME NEW t, NEW M, NEW sc, SearchTree(t, M, sc), NEW n \in M
  PROVE  SearchTree(avl_delete_(t, n), M \ {n}, sc)
<1> DEFINE u == avl_delete_(t, n)
           L == M \ {n}
<1>1. PICK R : Ordered(R, M) /\ Shape(t, M, R, M) /\ Agrees(R, sc, M)
  BY DEF SearchTree
<1>2. /\ Shape(u, M \ {n}, R, M)
      /\ ExactOff(u, M \ {n}, {})
      /\ Clean(u, M \ {n})
  BY <1>1, DeleteKeeps DEF SearchTree
<1> HIDE DEF u
<1>3. \E K, rk : Shaped(u, L, R, L, K, rk) /\ Widest(u, K, R, L)
  <2>1. L \subseteq L /\ \A x, y \in L : <<x, y>> \in R => <<x, y>> \in R
    OBVIOUS
  <2>2. Shape(u, L, R, M)
    BY <1>2
  <2> HIDE DEF L
  <2> QED BY <2>1, <2>2, Reorder
<1>4. Shape(u, L, R, L)
  BY <1>3 DEF Shape
<1>5. Ordered(R, L)
  BY <1>1, SubOrder
<1>6. Agrees(R, sc, L)
  BY <1>1 DEF Agrees
<1> QED BY <1>2, <1>4, <1>5, <1>6 DEF SearchTree, u

\* An entry that is in neither structure is freed.
LEMMA FreedKeeps ==
  ASSUME NEW t, NEW M, NEW sc, SearchTree(t, M, sc), NEW n \in Node \ M
  PROVE  SearchTree(Freed(t, n), M, sc)
<1> DEFINE u == [t EXCEPT !.cnt[n] = 1]
<1>1. PICK R : Ordered(R, M) /\ Shape(t, M, R, M) /\ Agrees(R, sc, M)
  BY DEF SearchTree
<1>2. /\ Shape(u, M, R, M)
      /\ ExactOff(u, M, {})
      /\ u.parent = t.parent /\ u.left = t.left /\ u.right = t.right
      /\ u.height = t.height
      /\ \A x \in Node \ {n} : u.cnt[x] = t.cnt[x]
  BY <1>1, RecountKeeps DEF SearchTree
<1>3. Freed(t, n) = u
  BY DEF Freed
<1> HIDE DEF u
<1>4. Clean(u, M)
  BY <1>2 DEF SearchTree, Clean
<1> QED BY <1>1, <1>2, <1>3, <1>4 DEF SearchTree

\* An entry is put into the tree where the comparisons lead.
LEMMA Added ==
  ASSUME NEW t, NEW M \in SUBSET Name, NEW sc, SearchTree(t, M, sc),
         NEW n \in Name \ M, \A x \in M \cup {n} : sc[x] \in Score,
         NEW above, \A m \in M : m \in above <=> less(sc, n, m)
  PROVE  SearchTree(avl_insert(t, n, above), M \cup {n}, sc)
<1> DEFINE u == avl_insert(t, n, above)
           N == M \cup {n}
<1>1. PICK R : Ordered(R, M) /\ Shape(t, M, R, M) /\ Agrees(R, sc, M)
  BY DEF SearchTree
<1>2. ExactOff(t, M, {}) /\ Clean(t, M) /\ n \in Node \ M
  BY DEF SearchTree, Name
<1>3. /\ \E Q : Ordered(Q, N) /\ Shape(u, N, Q, N) /\ Agrees(Q, sc, N)
      /\ ExactOff(u, N, {})
      /\ \A x \in Node \ N : SameFields(t, u, x)
  <2>1. CASE NaN \in Score
    <3>1. /\ \E Q : Ordered(Q, N) /\ Shape(u, N, Q, N)
          /\ ExactOff(u, N, {})
          /\ \A x \in Node \ N : SameFields(t, u, x)
      BY <1>1, <1>2, InsertAnywhere
    <3>2. \A Q : Agrees(Q, sc, N)
      BY <2>1 DEF Agrees
    <3> HIDE DEF u, N
    <3> QED BY <3>1, <3>2
  <2>2. CASE NaN \notin Score
    <3> DEFINE Q == {q \in N \X N : less(sc, q[1], q[2])}
    <3>1. \A x, y \in N : <<x, y>> \in Q <=> less(sc, x, y)
      OBVIOUS
    <3>2. /\ \A x, y \in N : less(sc, x, y) <=> \/ sc[x] < sc[y]
                                                \/ sc[x] = sc[y] /\ x < y
          /\ Ordered(Q, N)
      <4>1. N \in SUBSET Name /\ \A x \in N : sc[x] \in Score
        OBVIOUS
      <4> HIDE DEF N
      <4> QED BY <2>2, <4>1, LessIsOrder
    <3> HIDE DEF Q
    <3>3. \E K, rk : Shaped(t, M, Q, N, K, rk) /\ Widest(t, K, Q, M)
      <4>1. M \subseteq N /\ \A x, y \in M : <<x, y>> \in R => <<x, y>> \in Q
        BY <1>1, <2>2, <3>1 DEF Agrees
      <4> HIDE DEF N
      <4> QED BY <1>1, <4>1, Reorder
    <3>4. Shape(t, M, Q, N) /\ n \in N
      BY <3>3 DEF Shape
    <3>5. Sorts(Q, M, n, above)
      <4>1. ASSUME NEW m \in M, m \in above PROVE <<n, m>> \in Q
        BY <3>1, <4>1
      <4>2. ASSUME NEW m \in M, m \notin above PROVE <<m, n>> \in Q
        <5>1. ~less(sc, n, m) /\ m # n
          BY <4>2
        <5>2. <<n, m>> \notin Q
          BY <3>1, <5>1
        <5> QED BY <3>2, <5>1, <5>2 DEF Ordered
      <4> QED BY <4>1, <4>2 DEF Sorts
    <3>6. /\ Shape(u, M \cup {n}, Q, N)
          /\ ExactOff(u, M \cup {n}, {})
          /\ \A x \in Node \ (M \cup {n}) : SameFields(t, u, x)
      <4> HIDE DEF N
      <4> QED BY <1>2, <3>2, <3>4, <3>5, InsertKeeps
    <3>7. Agrees(Q, sc, N)
      BY <3>1 DEF Agrees
    <3> HIDE DEF u
    <3> QED BY <3>2, <3>6, <3>7
  <2> QED BY <2>1, <2>2
<1> HIDE DEF u, N
<1>4. Clean(u, N)
  <2>1. \A x \in Node \ N : x \in Node \ M
    BY DEF N
  <2> QED BY <1>2, <1>3, <2>1 DEF Clean, SameFields
<1> QED BY <1>3, <1>4 DEF SearchTree, u, N

\* The tree of no entries.
LEMMA EmptySearchTree == \A sc : SearchTree(EmptyTree, {}, sc)
<1> USE NullAssumption
<1> SUFFICES ASSUME NEW sc PROVE SearchTree(EmptyTree, {}, sc)
  OBVIOUS
<1> DEFINE R == {}
           X == {}
           J == [x \in Node |-> {}]
           rk == [x \in Node |-> 0]
<1>1. EmptyTree \in Tree
  BY DEF EmptyTree, Tree
<1>2. Linked(EmptyTree.root, EmptyTree.parent, EmptyTree.left, EmptyTree.right, {})
  BY DEF EmptyTree, Linked
<1>3. Ranked(EmptyTree.parent, rk)
  <2>1. rk \in [Node -> Nat] /\ 0 \in Nat /\ \A x \in Node : rk[x] <= 0
    OBVIOUS
  <2>2. \A x \in Node : EmptyTree.parent[x] = NULL
    BY DEF EmptyTree
  <2> QED BY <2>1, <2>2 DEF Ranked
<1>4. Sided(EmptyTree.root, EmptyTree.left, EmptyTree.right, J, R, X, {})
  BY DEF EmptyTree, Sided
<1>5. Shape(EmptyTree, {}, R, {})
  BY <1>1, <1>2, <1>3, <1>4 DEF Shape, Shaped
<1>6. Ordered(R, {}) /\ Agrees(R, sc, {})
  BY DEF Ordered, Agrees
<1>7. ExactOff(EmptyTree, {}, {}) /\ Clean(EmptyTree, {})
  BY DEF ExactOff, Clean, EmptyTree
<1> QED BY <1>5, <1>6, <1>7 DEF SearchTree

\* A walk of the tree lists its members, each once, in an order that agrees with less.
LEMMA Walked ==
  ASSUME NEW t, NEW M, NEW sc, SearchTree(t, M, sc)
  PROVE  \E R, w : /\ Ordered(R, M) /\ Agrees(R, sc, M) /\ Shape(t, M, R, M)
                   /\ Walks(t, w) /\ avl_inorder(t) = w[t.root]
                   /\ Lists(avl_inorder(t), M, R)
<1>1. PICK R : Ordered(R, M) /\ Shape(t, M, R, M) /\ Agrees(R, sc, M)
  BY DEF SearchTree
<1>2. t \in Tree /\ Clean(t, M) /\ ExactOff(t, M, {})
  BY <1>1 DEF SearchTree, Shape, Shaped
<1>3. PICK d : Falls(t, d)
  BY <1>1, <1>2, DownRank
<1>4. PICK w : Walks(t, w) /\ avl_inorder(t) = w[t.root]
  BY <1>2, <1>3, WalkExists
<1>5. Lists(w[t.root], M, R)
  BY <1>1, <1>2, <1>4, WalkLists
<1> QED BY <1>1, <1>4, <1>5

\* s lists M without repetition.
ListsOnce(s, M) ==
  /\ s \in Seq(Node)
  /\ Range(s) = M
  /\ \A i, j \in 1 .. Len(s) : i # j => s[i] # s[j]

LEMMA WalkListsOnce ==
  ASSUME NEW t, NEW M, NEW sc, SearchTree(t, M, sc)
  PROVE  ListsOnce(avl_inorder(t), M)
<1> DEFINE s == avl_inorder(t)
<1>1. PICK R : Ordered(R, M) /\ Lists(s, M, R)
  BY Walked
<1> HIDE DEF s
<1>2. /\ s \in Seq(Node) /\ Range(s) = M
      /\ \A i, j \in 1 .. Len(s) : i < j => <<s[i], s[j]>> \in R
  BY <1>1 DEF Lists
<1>3. \A i \in 1 .. Len(s) : s[i] \in M
  BY <1>2 DEF Range
<1>4. ASSUME NEW i \in 1 .. Len(s), NEW j \in 1 .. Len(s), i # j, s[i] = s[j] PROVE FALSE
  <2>1. i < j \/ j < i
    BY <1>4
  <2>2. <<s[i], s[i]>> \in R
    BY <1>2, <1>4, <2>1
  <2> QED BY <1>1, <1>3, <2>2 DEF Ordered
<1> QED BY <1>2, <1>4 DEF ListsOnce, s

\* f[i] is the tree t without the first i entries of s, which have been freed.
Emptying(f, t, s) ==
  f = [i \in 0 .. Len(s) |-> IF i = 0 THEN t
                             ELSE Freed(avl_delete_(f[i - 1], s[i]), s[i])]

\* The loop of zdel defines a tree for each of its steps.
LEMMA EmptyingExists ==
  ASSUME NEW t, NEW s \in Seq(Node)
  PROVE  \E f : Emptying(f, t, s)
<1> DEFINE L == Len(s)
           Step(u, i) == Freed(avl_delete_(u, s[i]), s[i])
           Unfolds(f, k) == f = [i \in 0 .. k |-> IF i = 0 THEN t ELSE Step(f[i - 1], i)]
           T == {k \in Nat : \E f : Unfolds(f, k)}
<1>1. 0 \in T
  <2> DEFINE f == [i \in 0 .. 0 |-> t]
  <2>1. f = [i \in 0 .. 0 |-> IF i = 0 THEN t ELSE Step(f[i - 1], i)]
    OBVIOUS
  <2> QED BY <2>1
<1>2. ASSUME NEW k \in Nat, k \in T PROVE k + 1 \in T
  <2>1. PICK f : Unfolds(f, k)
    BY <1>2
  <2> HIDE DEF Step
  <2> DEFINE g == [i \in 0 .. k + 1 |-> IF i \in 0 .. k THEN f[i] ELSE Step(f[k], k + 1)]
  <2>2. ASSUME NEW i \in 0 .. k + 1
        PROVE  g[i] = IF i = 0 THEN t ELSE Step(g[i - 1], i)
    <3>1. CASE i = 0
      BY <2>1, <3>1
    <3>2. CASE i \in 1 .. k
      <4>1. i \in 0 .. k /\ i # 0 /\ i - 1 \in 0 .. k /\ i - 1 \in 0 .. k + 1
        BY <3>2
      <4>2. f[i] = Step(f[i - 1], i)
        BY <2>1, <4>1
      <4>3. g[i] = f[i] /\ g[i - 1] = f[i - 1]
        BY <4>1
      <4> QED BY <4>1, <4>2, <4>3
    <3>3. CASE i = k + 1
      <4>1. i \notin 0 .. k /\ i # 0 /\ i - 1 = k /\ k \in 0 .. k /\ k \in 0 .. k + 1
        BY <3>3
      <4>2. g[i] = Step(f[k], k + 1) /\ g[i - 1] = f[k]
        BY <4>1
      <4> QED BY <3>3, <4>1, <4>2
    <3> QED BY <3>1, <3>2, <3>3
  <2>3. g = [i \in 0 .. k + 1 |-> g[i]]
    OBVIOUS
  <2> HIDE DEF g
  <2>4. g = [i \in 0 .. k + 1 |-> IF i = 0 THEN t ELSE Step(g[i - 1], i)]
    BY <2>2, <2>3
  <2> QED BY <2>4
<1> HIDE DEF T
<1>3. L \in T
  BY <1>1, <1>2, Induction
<1> QED BY <1>3 DEF T, Emptying

\* In the end the tree is empty.
LEMMA EmptyingEmpties ==
  ASSUME NEW t, NEW M, NEW sc, SearchTree(t, M, sc), NEW s, ListsOnce(s, M),
         NEW f, Emptying(f, t, s)
  PROVE  SearchTree(f[Len(s)], {}, sc)
<1> DEFINE L == Len(s)
           Left(i) == {s[j] : j \in i + 1 .. L}
           T == {i \in Nat : i <= L => SearchTree(f[i], Left(i), sc)}
<1>1. s \in Seq(Node) /\ L \in Nat /\ DOMAIN s = 1 .. L /\ Range(s) = M
      /\ \A i, j \in 1 .. L : i # j => s[i] # s[j]
  BY DEF ListsOnce
<1>2. \A i \in 1 .. L : s[i] \in Node
  BY <1>1
<1>3. f[0] = t /\ \A i \in 1 .. L : f[i] = Freed(avl_delete_(f[i - 1], s[i]), s[i])
  <2>1. \A i \in 0 .. L : f[i] = IF i = 0 THEN t
                                 ELSE Freed(avl_delete_(f[i - 1], s[i]), s[i])
    BY DEF Emptying
  <2> QED BY <1>1, <2>1
<1>4. 0 \in T
  <2>1. Left(0) = M
    BY <1>1 DEF Range
  <2> HIDE DEF Left
  <2> QED BY <1>3, <2>1
<1>5. ASSUME NEW i \in Nat, i \in T PROVE i + 1 \in T
  <2> SUFFICES ASSUME i + 1 <= L PROVE SearchTree(f[i + 1], Left(i + 1), sc)
    OBVIOUS
  <2> DEFINE n == s[i + 1]
             u == avl_delete_(f[i], n)
             A == Left(i)
             B == Left(i + 1)
  <2>1. SearchTree(f[i], A, sc) /\ i + 1 \in 1 .. L /\ (i + 1) - 1 = i
    <3> HIDE DEF L, Left
    <3>1. i <= L /\ i + 1 \in 1 .. L /\ (i + 1) - 1 = i
      BY <1>1
    <3> QED BY <1>5, <3>1
  <2>2. \A j \in (i + 1) + 1 .. L : j \in 1 .. L /\ j # i + 1
    BY <1>1, <2>1
  <2>3. n \notin B /\ n \in Node
    BY <1>1, <1>2, <2>1, <2>2
  <2>4. A = B \cup {n}
    <3>1. i + 1 .. L = ((i + 1) + 1 .. L) \cup {i + 1}
      BY <1>1, <2>1
    <3> QED BY <3>1
  <2>5. f[i + 1] = Freed(u, n)
    BY <1>3, <2>1
  <2>6. n \in A /\ A \ {n} = B
    BY <2>3, <2>4
  <2> HIDE DEF n, A, B
  <2>7. SearchTree(u, A \ {n}, sc)
    BY <2>1, <2>6, Removed
  <2>8. SearchTree(u, B, sc) /\ n \in Node \ B
    BY <2>3, <2>6, <2>7
  <2> HIDE DEF u
  <2>9. SearchTree(Freed(u, n), B, sc)
    BY <2>8, FreedKeeps
  <2> QED BY <2>5, <2>9 DEF B
<1> HIDE DEF T
<1>6. L \in T
  BY <1>1, <1>4, <1>5, Induction
<1>7. SearchTree(f[L], Left(L), sc)
  BY <1>1, <1>6 DEF T
<1>8. Left(L) = {}
  BY <1>1
<1> QED BY <1>7, <1>8

-----------------------------------------------------------------------------
LEMMA InvInductive == IInv /\ [Next]_vars => IInv'
<1> SUFFICES ASSUME IInv, [Next]_vars PROVE IInv'
  OBVIOUS
<1>1. /\ hmap \in SUBSET Name
      /\ score \in [Name -> Score \cup {NoScore}]
      /\ \A n \in Name : score[n] # NoScore <=> n \in hmap
      /\ SearchTree(tree, hmap, score)
  BY DEF IInv
<1>2. \A x \in hmap : x \in Name /\ score[x] \in Score
  BY <1>1
<1>3. NoScore \notin Score
  BY ScoreAssumption
<1>4. ASSUME NEW n \in Name, NEW x \in Score, ZaddExisting(n, x) PROVE IInv'
  <2> DEFINE M == hmap \ {n}
             t == avl_delete_(tree, n)
             sc == [score EXCEPT ![n] = x]
             above == Above(sc, n)
             u == avl_insert(t, n, above)
  <2>1. n \in hmap /\ score' = sc /\ hmap' = hmap /\ tree' = u
    BY <1>4 DEF ZaddExisting, Above
  <2>2. sc \in [Name -> Score \cup {NoScore}] /\ sc[n] = x
        /\ \A m \in Name \ {n} : sc[m] = score[m]
    BY <1>1
  <2>3. SearchTree(t, M, score)
    BY <1>1, <2>1, Removed
  <2>4. \A m \in M : m \in above <=> less(sc, n, m)
    <3> HIDE DEF sc
    <3> QED BY DEF Above
  <2>5. M \in SUBSET Name /\ n \in Name \ M /\ M \cup {n} = hmap
    BY <1>1, <2>1
  <2> HIDE DEF sc, above, t, M
  <2>6. \A m \in M : sc[m] = score[m]
    BY <2>2, <2>5
  <2>7. SearchTree(t, M, sc)
    BY <2>3, <2>6, SameScores
  <2>8. \A m \in M \cup {n} : sc[m] \in Score
    BY <1>2, <2>2, <2>5, <2>6
  <2>9. SearchTree(u, M \cup {n}, sc)
    BY <2>4, <2>5, <2>7, <2>8, Added
  <2>10. \A m \in Name : sc[m] # NoScore <=> m \in hmap
    BY <1>1, <1>3, <2>1, <2>2
  <2> HIDE DEF u
  <2> QED BY <1>1, <2>1, <2>2, <2>5, <2>9, <2>10 DEF IInv, SearchTree
<1>5. ASSUME NEW n \in Name, NEW x \in Score, ZaddNew(n, x) PROVE IInv'
  <2> DEFINE sc == [score EXCEPT ![n] = x]
             above == Above(sc, n)
             u == avl_insert(tree, n, above)
             N == hmap \cup {n}
  <2>1. n \in Name \ hmap /\ score' = sc /\ hmap' = N /\ tree' = u
    BY <1>5 DEF ZaddNew, Above
  <2>2. sc \in [Name -> Score \cup {NoScore}] /\ sc[n] = x
        /\ \A m \in Name \ {n} : sc[m] = score[m]
    BY <1>1
  <2>3. \A m \in hmap : m \in above <=> less(sc, n, m)
    <3> HIDE DEF sc
    <3> QED BY <2>1 DEF Above
  <2> HIDE DEF sc, above
  <2>4. \A m \in hmap : sc[m] = score[m]
    BY <1>2, <2>1, <2>2
  <2>5. SearchTree(tree, hmap, sc)
    BY <1>1, <2>4, SameScores
  <2>6. \A m \in hmap \cup {n} : sc[m] \in Score
    BY <1>2, <2>2, <2>4
  <2>7. SearchTree(u, hmap \cup {n}, sc)
    BY <1>1, <2>1, <2>3, <2>5, <2>6, Added
  <2>8. \A m \in Name : sc[m] # NoScore <=> m \in N
    BY <1>1, <1>3, <2>1, <2>2
  <2>9. N \in SUBSET Name
    BY <1>1
  <2> HIDE DEF u
  <2>10. SearchTree(u, N, sc)
    BY <2>7
  <2> HIDE DEF N
  <2> QED BY <2>1, <2>2, <2>8, <2>9, <2>10 DEF IInv, SearchTree
<1>6. ASSUME NEW n \in Name, Zrem(n) PROVE IInv'
  <2>1. CASE n \notin hmap
    BY <1>1, <1>6, <2>1 DEF Zrem, IInv, SearchTree
  <2>2. CASE n \in hmap
    <3> DEFINE M == hmap \ {n}
               t == avl_delete_(tree, n)
               u == Freed(t, n)
               sc == [score EXCEPT ![n] = NoScore]
    <3>1. score' = sc /\ hmap' = M /\ tree' = u
      BY <1>6, <2>2 DEF Zrem
    <3>2. SearchTree(t, M, score)
      BY <1>1, <2>2, Removed
    <3>3. M \in SUBSET Name /\ n \in Node \ M
      BY <1>1 DEF Name
    <3>4. /\ sc \in [Name -> Score \cup {NoScore}]
          /\ \A m \in Name : sc[m] # NoScore <=> m \in M
          /\ \A m \in M : sc[m] = score[m]
      BY <1>1
    <3> HIDE DEF M, t, sc
    <3>5. SearchTree(t, M, sc)
      BY <3>2, <3>4, SameScores
    <3>6. SearchTree(u, M, sc)
      BY <3>3, <3>5, FreedKeeps
    <3> HIDE DEF u
    <3> QED BY <3>1, <3>3, <3>4, <3>6 DEF IInv, SearchTree
  <2> QED BY <2>1, <2>2
<1>7. CASE Zdel
  <2> DEFINE all_elements == avl_inorder(tree)
             size == Len(all_elements)
             emptied[i \in 0 .. size] ==
               IF i = 0 THEN tree
               ELSE Freed(avl_delete_(emptied[i - 1], all_elements[i]), all_elements[i])
             u == [emptied[size] EXCEPT !.root = NULL]
             sc == [n \in Name |-> IF n \in Range(all_elements) THEN NoScore ELSE score[n]]
  <2>1. tree' = u /\ hmap' = {} /\ score' = sc
    BY <1>7 DEF Zdel
  <2>2. ListsOnce(all_elements, hmap)
    BY <1>1, WalkListsOnce
  <2> HIDE DEF all_elements
  <2>3. all_elements \in Seq(Node) /\ Range(all_elements) = hmap
    BY <2>2 DEF ListsOnce
  <2>4. \E f : f = [i \in 0 .. size |->
                      IF i = 0 THEN tree
                      ELSE Freed(avl_delete_(f[i - 1], all_elements[i]), all_elements[i])]
    <3>1. \E f : Emptying(f, tree, all_elements)
      BY <2>3, EmptyingExists
    <3> QED BY <3>1 DEF Emptying
  <2>5. emptied = [i \in 0 .. size |->
                     IF i = 0 THEN tree
                     ELSE Freed(avl_delete_(emptied[i - 1], all_elements[i]), all_elements[i])]
    BY <2>4
  <2> HIDE DEF emptied
  <2>6. Emptying(emptied, tree, all_elements)
    BY <2>5 DEF Emptying
  <2>7. SearchTree(emptied[size], {}, score)
    BY <1>1, <2>2, <2>6, EmptyingEmpties
  <2>8. sc \in [Name -> Score \cup {NoScore}] /\ \A n \in Name : sc[n] = NoScore
    BY <1>1, <2>3
  <2> DEFINE t == emptied[size]
  <2>9. t \in Tree /\ t.root = NULL
    BY <2>7 DEF SearchTree, Shape, Shaped, Linked
  <2>10. u = t
    <3> HIDE DEF t
    <3>1. [t EXCEPT !.root = NULL] = t
      BY <2>9 DEF Tree
    <3> QED BY <3>1 DEF t
  <2> HIDE DEF u, sc
  <2>11. SearchTree(u, {}, sc)
    BY <2>7, <2>10, SameScores
  <2> QED BY <2>1, <2>8, <2>11 DEF IInv, SearchTree
<1>8. CASE UNCHANGED <<hmap, tree, score>>
  BY <1>1, <1>8 DEF IInv, SearchTree
<1> QED
  <2>1. ASSUME NEW n \in Name, NEW x \in Score, Zadd(n, x) PROVE IInv'
    BY <1>4, <1>5, <2>1 DEF Zadd
  <2>2. ASSUME NEW n \in Name, Zscore(n) \/ Zrank(n) PROVE IInv'
    BY <1>8, <2>2 DEF Zscore, Zrank, Answer
  <2>3. ASSUME NEW lo \in Rank, NEW hi \in Rank, Zrange(lo, hi) PROVE IInv'
    BY <1>8, <2>3 DEF Zrange, Answer
  <2>4. CASE Zcard \/ Zall
    BY <1>8, <2>4 DEF Zcard, Zall, Answer
  <2>5. CASE UNCHANGED vars
    BY <1>8, <2>5 DEF vars
  <2> QED BY <1>6, <1>7, <2>1, <2>2, <2>3, <2>4, <2>5 DEF Next

\* The inductive invariant holds in every state.
LEMMA Invariant == Spec => []IInv
<1>1. Init => IInv
  <2> SUFFICES ASSUME Init PROVE IInv
    OBVIOUS
  <2>1. tree = EmptyTree /\ hmap = {} /\ score = [n \in Name |-> NoScore]
    BY DEF Init
  <2>2. SearchTree(EmptyTree, {}, score)
    BY EmptySearchTree
  <2>3. score \in [Name -> Score \cup {NoScore}] /\ \A n \in Name : score[n] = NoScore
    BY <2>1
  <2> QED BY <2>1, <2>2, <2>3 DEF IInv
<1> QED BY <1>1, InvInductive, PTL DEF Spec

\* A set that is listed without repetition has as many members as the list is long.
LEMMA CountOfList ==
  ASSUME NEW s, NEW M, ListsOnce(s, M)
  PROVE  IsFiniteSet(M) /\ Cardinality(M) = Len(s)
<1> DEFINE L == Len(s)
<1>1. s \in Seq(Node) /\ L \in Nat /\ DOMAIN s = 1 .. L /\ Range(s) = M
      /\ \A i, j \in 1 .. L : i # j => s[i] # s[j]
  BY DEF ListsOnce
<1>2. s \in [1 .. L -> M] /\ \A m \in M : \E i \in 1 .. L : s[i] = m
  BY <1>1 DEF Range
<1> HIDE DEF L
<1>3. s \in Bijection(1 .. L, M)
  BY <1>1, <1>2 DEF Bijection, Injection, Surjection, IsInjective
<1>4. ExistsBijection(1 .. L, M)
  BY <1>3 DEF ExistsBijection
<1>5. Cardinality(M) = L
  BY <1>1, <1>4, FS_CountingElements
<1>6. IsFiniteSet(1 .. L)
  BY <1>1, FS_Interval
<1>7. s \in Surjection(1 .. L, M)
  BY <1>3 DEF Bijection
<1>8. IsFiniteSet(M)
  BY <1>6, <1>7, FS_Surjection
<1> QED BY <1>5, <1>8 DEF L

\* An entry's rank is a number.
LEMMA RankIsNumber ==
  ASSUME IInv, NEW n \in hmap
  PROVE  avl_rank(tree, n) \in Nat
<1>1. SearchTree(tree, hmap, score)
  BY DEF IInv
<1>2. PICK R, w : /\ Ordered(R, hmap) /\ Shape(tree, hmap, R, hmap)
                  /\ Walks(tree, w) /\ avl_inorder(tree) = w[tree.root]
  BY <1>1, Walked
<1>3. Clean(tree, hmap) /\ ExactOff(tree, hmap, {})
  BY <1>1 DEF SearchTree
<1>4. avl_rank(tree, n) \in 1 .. Len(avl_inorder(tree))
  BY <1>2, <1>3, RankIsPosition
<1>5. Len(avl_inorder(tree)) \in Nat
  BY <1>1, WalkListsOnce DEF ListsOnce
<1> QED BY <1>4, <1>5

\* What is between two ranks is a part of the walk, whatever the order of the tree.
LEMMA RangeIsPart ==
  ASSUME IInv, NEW lo \in Rank, NEW hi \in Rank
  PROVE  avl_range_by_rank(tree, lo, hi) \in Seq(hmap)
<1> DEFINE s == avl_inorder(tree)
           first == Larger(lo, 1)
           last == IF hi < Len(s) THEN hi ELSE Len(s)
<1>1. SearchTree(tree, hmap, score)
  BY DEF IInv
<1>2. PICK R, w : /\ Ordered(R, hmap) /\ Shape(tree, hmap, R, hmap)
                  /\ Walks(tree, w) /\ s = w[tree.root]
  BY <1>1, Walked
<1>3. Clean(tree, hmap)
  BY <1>1 DEF SearchTree
<1>4. lo \in Int /\ hi \in Int
  BY RankAssumption
<1>5. avl_range_by_rank(tree, lo, hi) = Cut(s, lo, hi)
  BY <1>2, <1>3, <1>4, RangeIsCut
<1>6. s \in Seq(Node) /\ Range(s) = hmap
  BY <1>1, WalkListsOnce DEF ListsOnce
<1> HIDE DEF s
<1>7. s \in Seq(hmap)
  <2>1. \A i \in 1 .. Len(s) : s[i] \in hmap
    BY <1>6 DEF Range
  <2> QED BY <1>6, <2>1
<1>8. Cut(s, lo, hi) = SubSeq(s, first, last)
  BY DEF Cut
<1>9. first \in Int /\ first >= 1 /\ last \in Int /\ last <= Len(s)
  BY <1>4, <1>7 DEF Larger
<1> HIDE DEF first, last
<1>10. SubSeq(s, first, last) \in Seq(hmap)
  BY <1>7, <1>9
<1> QED BY <1>5, <1>8, <1>10

\* What a listing copies are names with their scores.
LEMMA ListedPairs ==
  ASSUME IInv, NEW s \in Seq(hmap)
  PROVE  Listed(s) \in Seq(Name \X Score)
<1>1. \A n \in hmap : n \in Name /\ score[n] \in Score
  BY DEF IInv
<1>2. Len(s) \in Nat /\ DOMAIN s = 1 .. Len(s) /\ \A i \in 1 .. Len(s) : s[i] \in hmap
  OBVIOUS
<1>3. Listed(s) = [i \in 1 .. Len(s) |-> <<s[i], score[s[i]]>>]
  BY <1>2 DEF Listed
<1>4. \A i \in 1 .. Len(s) : <<s[i], score[s[i]]>> \in Name \X Score
  BY <1>1, <1>2
<1>5. Listed(s) \in [1 .. Len(s) -> Name \X Score]
  BY <1>3, <1>4
<1> QED BY <1>2, <1>5

\* A command's answer has the type of the command.
LEMMA AnswersTyped == IInv /\ Answered /\ [Next]_vars => Answered'
<1> SUFFICES ASSUME IInv, Answered, [Next]_vars PROVE Answered'
  OBVIOUS
<1>1. \A n \in hmap : score[n] \in Score
  BY DEF IInv
<1>2. ASSUME NEW n \in Name, Zscore(n) PROVE Answered'
  BY <1>1, <1>2 DEF Zscore, Answer, Answered
<1>3. ASSUME NEW n \in Name, Zrank(n) PROVE Answered'
  <2>1. n \in hmap => avl_rank(tree, n) \in Nat
    BY RankIsNumber
  <2> QED BY <1>3, <2>1 DEF Zrank, Answer, Answered
<1>4. ASSUME Zcard PROVE Answered'
  <2>1. ListsOnce(avl_inorder(tree), hmap)
    BY WalkListsOnce DEF IInv
  <2>2. IsFiniteSet(hmap)
    BY <2>1, CountOfList
  <2>3. Cardinality(hmap) \in Nat
    BY <2>2, FS_CardinalityType
  <2> QED BY <1>4, <2>3 DEF Zcard, Answer, Answered
<1>5. ASSUME NEW lo \in Rank, NEW hi \in Rank, Zrange(lo, hi) PROVE Answered'
  <2> DEFINE l == Listed(avl_range_by_rank(tree, lo, hi))
  <2>1. l \in Seq(Name \X Score)
    BY RangeIsPart, ListedPairs
  <2>2. cmd' = <<"zrange", lo, hi>> /\ resp' = l /\ score' = score
    BY <1>5 DEF Zrange, Answer
  <2> HIDE DEF l
  <2> QED BY <2>1, <2>2 DEF Answered
<1>6. ASSUME Zall PROVE Answered'
  <2> DEFINE s == avl_inorder(tree)
             l == Listed(s)
  <2>1. s \in Seq(Node) /\ Range(s) = hmap
    BY WalkListsOnce DEF IInv, ListsOnce
  <2>2. cmd' = <<"zall">> /\ resp' = l
    BY <1>6 DEF Zall, Answer
  <2> HIDE DEF s
  <2>3. s \in Seq(hmap)
    <3>1. \A i \in 1 .. Len(s) : s[i] \in hmap
      BY <2>1 DEF Range
    <3> QED BY <2>1, <3>1
  <2>4. l \in Seq(Name \X Score)
    BY <2>3, ListedPairs
  <2> HIDE DEF l
  <2> QED BY <2>2, <2>4 DEF Answered
<1>7. ASSUME NEW n \in Name, (\E x \in Score : Zadd(n, x)) \/ Zrem(n) PROVE Answered'
  BY <1>7 DEF Zadd, Zrem, Answered
<1>8. ASSUME Zdel PROVE Answered'
  BY <1>8 DEF Zdel, Answered
<1>9. CASE UNCHANGED vars
  BY <1>9 DEF vars, Answered
<1> QED BY <1>2, <1>3, <1>4, <1>5, <1>6, <1>7, <1>8, <1>9 DEF Next

\* The structures, the entries and the answers keep their types (struct Value,
\* Entry_zset, Zset), for any names and scores: also with scores that are no numbers,
\* when the tree has no order to keep, a rank is a number, a listing is one of members
\* with their scores, and no answer is read from an entry that is not allocated.
THEOREM SetTypeOK == Spec => []TypeOK
<1>1. Init => Answered
  BY DEF Init, Answered
<1>2. IInv /\ Answered => TypeOK
  <2> SUFFICES ASSUME IInv, Answered PROVE TypeOK
    OBVIOUS
  <2>1. tree \in Tree
    BY DEF IInv, SearchTree, Shape, Shaped
  <2>2. hmap \subseteq Name /\ \A n \in Name : score[n] \in Score \cup {NoScore}
    BY DEF IInv
  <2> QED BY <2>1, <2>2 DEF TypeOK
<1> QED BY <1>1, <1>2, AnswersTyped, Invariant, PTL DEF Spec

\* The hash map, the tree and the allocated entries stay the same set, each entry once
\* in each structure, whatever is added, moved, removed or cleared, for any names and
\* scores, also scores that are not numbers (zadd, zrem, zdel).
THEOREM OneSetOfEntries == Spec => []SameEntries
<1>1. ASSUME IInv PROVE SameEntries
  <2>1. ListsOnce(avl_inorder(tree), hmap)
    BY <1>1, WalkListsOnce DEF IInv
  <2>2. Cardinality(hmap) = Len(avl_inorder(tree))
    BY <2>1, CountOfList
  <2>3. Range(avl_inorder(tree)) = hmap
    BY <2>1 DEF ListsOnce
  <2>4. {n \in Name : score[n] # NoScore} = hmap
    BY <1>1 DEF IInv
  <2> QED BY <2>2, <2>3, <2>4 DEF SameEntries
<1> QED BY <1>1, Invariant, PTL

-----------------------------------------------------------------------------
(* ZSet implements SortedSet *)

\* a and b list M in the order R: there is one such list.
LEMMA OneList ==
  ASSUME NEW R, NEW M, Ordered(R, M), NEW L \in Nat,
         NEW a \in Bijection(1 .. L, M), NEW b \in Bijection(1 .. L, M),
         \A i, j \in 1 .. L : i < j => <<a[i], a[j]>> \in R,
         \A i, j \in 1 .. L : i < j => <<b[i], b[j]>> \in R
  PROVE  a = b
<1>1. /\ a \in [1 .. L -> M] /\ \A m \in M : \E i \in 1 .. L : a[i] = m
      /\ b \in [1 .. L -> M] /\ \A m \in M : \E i \in 1 .. L : b[i] = m
      /\ \A i, j \in 1 .. L : a[i] = a[j] => i = j
      /\ \A i, j \in 1 .. L : b[i] = b[j] => i = j
  BY DEF Bijection, Injection, Surjection, IsInjective
<1>2. \A x, y \in M : <<x, y>> \in R => <<y, x>> \notin R
  BY DEF Ordered
<1> DEFINE T == {k \in Nat : \A i \in 1 .. L : i <= k => a[i] = b[i]}
<1>3. 0 \in T
  OBVIOUS
<1>4. ASSUME NEW k \in Nat, k \in T PROVE k + 1 \in T
  <2> SUFFICES ASSUME k + 1 \in 1 .. L, a[k + 1] # b[k + 1] PROVE FALSE
    <3>1. ASSUME NEW i \in 1 .. L, i <= k + 1, a[k + 1] = b[k + 1] \/ k + 1 \notin 1 .. L
          PROVE  a[i] = b[i]
      <4>1. i <= k \/ i = k + 1
        BY <3>1
      <4> QED BY <1>4, <3>1, <4>1
    <3> QED BY <3>1
  <2> DEFINE n == k + 1
  <2>1. n \in 1 .. L /\ a[n] # b[n] /\ \A i \in 1 .. L : i < n => a[i] = b[i]
    BY <1>4
  <2> HIDE DEF n, T
  <2>2. PICK j \in 1 .. L : b[j] = a[n]
    BY <1>1, <2>1
  <2>3. PICK l \in 1 .. L : a[l] = b[n]
    BY <1>1, <2>1
  <2>4. n < j
    <3>1. ~(j < n)
      BY <1>1, <2>1, <2>2
    <3>2. j # n
      BY <2>1, <2>2
    <3> QED BY <2>1, <3>1, <3>2
  <2>5. n < l
    <3>1. ~(l < n)
      BY <1>1, <2>1, <2>3
    <3>2. l # n
      BY <2>1, <2>3
    <3> QED BY <2>1, <3>1, <3>2
  <2>6. <<b[n], a[n]>> \in R
    BY <2>1, <2>2, <2>4
  <2>7. <<a[n], b[n]>> \in R
    BY <2>1, <2>3, <2>5
  <2> QED BY <1>1, <1>2, <2>1, <2>6, <2>7
<1> HIDE DEF T
<1>5. L \in T
  BY <1>3, <1>4, Induction
<1>6. \A i \in 1 .. L : a[i] = b[i]
  BY <1>5 DEF T
<1> QED BY <1>1, <1>6

\* Both modules count with the same operator.
LEMMA SameCount == \A M : Abstract!Cardinality(M) = Cardinality(M)
BY DEF Abstract!Cardinality, Cardinality

\* The ranking that SortedSet chooses is the one a walk of the tree gives.
LEMMA RankingIsWalk ==
  ASSUME NaN \notin Score, IInv
  PROVE  Abstract!Members = hmap /\ Abstract!Ranking = avl_inorder(tree)
<1> DEFINE s == avl_inorder(tree)
           L == Len(s)
           Q == {q \in hmap \X hmap : less(score, q[1], q[2])}
           Ranks1(f) == \A i, j \in DOMAIN f : i < j => Abstract!Before(f[i], f[j])
<1>1. /\ hmap \in SUBSET Name /\ \A x \in hmap : score[x] \in Score
      /\ SearchTree(tree, hmap, score)
      /\ {n \in Name : score[n] # NoScore} = hmap
  BY DEF IInv
<1>2. Abstract!Members = hmap
  BY <1>1 DEF Abstract!Members
<1>3. /\ \A x, y \in hmap : less(score, x, y) <=> Abstract!Before(x, y)
      /\ Ordered(Q, hmap)
  BY <1>1, LessIsOrder DEF Abstract!Before
<1>4. \A x, y \in hmap : <<x, y>> \in Q <=> Abstract!Before(x, y)
  BY <1>3
<1> HIDE DEF Q
<1>5. PICK R : Agrees(R, score, hmap) /\ Lists(s, hmap, R)
  BY <1>1, Walked
<1>6. ListsOnce(s, hmap)
  BY <1>1, WalkListsOnce
<1> HIDE DEF s
<1>7. Cardinality(hmap) = L
  BY <1>6, CountOfList
<1>8. /\ s \in Seq(Node) /\ L \in Nat /\ DOMAIN s = 1 .. L /\ Range(s) = hmap
      /\ \A i, j \in 1 .. L : i # j => s[i] # s[j]
  BY <1>6 DEF ListsOnce
<1>9. s \in [1 .. L -> hmap] /\ \A m \in hmap : \E i \in 1 .. L : s[i] = m
  BY <1>8 DEF Range
<1> HIDE DEF L
<1>10. s \in Bijection(1 .. L, hmap)
  BY <1>8, <1>9 DEF Bijection, Injection, Surjection, IsInjective
<1>11. \A i, j \in 1 .. L : i < j => <<s[i], s[j]>> \in Q
  <2>1. \A i, j \in 1 .. L : i < j => <<s[i], s[j]>> \in R
    BY <1>5 DEF Lists, L
  <2>2. \A i \in 1 .. L : s[i] \in hmap
    BY <1>9
  <2>3. \A x, y \in hmap : <<x, y>> \in R => <<x, y>> \in Q
    BY <1>3, <1>4, <1>5 DEF Agrees
  <2> QED BY <2>1, <2>2, <2>3
<1>12. Ranks1(s)
  BY <1>4, <1>8, <1>9, <1>11
<1>13. ASSUME NEW f \in [1 .. L -> hmap], Ranks1(f) PROVE f = s
  <2>1. \A i, j \in 1 .. L : i < j => <<f[i], f[j]>> \in Q
    BY <1>4, <1>13
  <2>2. \A i, j \in 1 .. L : f[i] = f[j] => i = j
    <3> SUFFICES ASSUME NEW i \in 1 .. L, NEW j \in 1 .. L, f[i] = f[j], i # j PROVE FALSE
      OBVIOUS
    <3>1. i < j \/ j < i
      BY <1>8
    <3>2. <<f[i], f[i]>> \in Q
      BY <2>1, <3>1
    <3> QED BY <1>3, <3>2 DEF Ordered
  <2>3. f \in Injection(1 .. L, hmap)
    BY <2>2 DEF Injection, IsInjective
  <2>4. IsFiniteSet(hmap) /\ IsFiniteSet(1 .. L) /\ Cardinality(1 .. L) = L
    BY <1>6, <1>8, CountOfList, FS_Interval
  <2>5. f \in Surjection(1 .. L, hmap)
    BY <1>7, <2>3, <2>4, FS_Injection
  <2>6. f \in Bijection(1 .. L, hmap)
    BY <2>3, <2>5 DEF Bijection
  <2> QED BY <1>3, <1>8, <1>10, <1>11, <2>1, <2>6, OneList
<1>14. Abstract!Ranking = s
  <2>1. Abstract!Ranking = CHOOSE f \in [1 .. L -> hmap] : Ranks1(f)
    <3>1. Abstract!Cardinality(Abstract!Members) = L
      BY <1>2, <1>7, SameCount
    <3> QED BY <1>2, <3>1 DEF Abstract!Ranking
  <2> HIDE DEF Ranks1
  <2> QED BY <1>9, <1>12, <1>13, <2>1
<1> QED BY <1>2, <1>14 DEF s

\* A rank is the place in the ranking (zrank).
LEMMA RankOfIsRank ==
  ASSUME NaN \notin Score, IInv, NEW n \in hmap
  PROVE  Abstract!RankOf(Abstract!Ranking, n) = avl_rank(tree, n)
<1> DEFINE s == avl_inorder(tree)
           k == avl_rank(tree, n)
<1>1. Abstract!Ranking = s
  BY RankingIsWalk
<1>2. SearchTree(tree, hmap, score)
  BY DEF IInv
<1>3. PICK R, w : /\ Ordered(R, hmap) /\ Shape(tree, hmap, R, hmap)
                  /\ Walks(tree, w) /\ s = w[tree.root]
  BY <1>2, Walked
<1>4. Clean(tree, hmap) /\ ExactOff(tree, hmap, {})
  BY <1>2 DEF SearchTree
<1>5. k \in 1 .. Len(s) /\ s[k] = n
  BY <1>3, <1>4, RankIsPosition
<1>6. s \in Seq(Node) /\ \A i, j \in 1 .. Len(s) : i # j => s[i] # s[j]
  BY <1>2, WalkListsOnce DEF ListsOnce
<1> HIDE DEF s, k
<1>7. Abstract!RankOf(s, n) = CHOOSE i \in 1 .. Len(s) : s[i] = n
  BY <1>6 DEF Abstract!RankOf
<1>8. \A i \in 1 .. Len(s) : s[i] = n => i = k
  BY <1>5, <1>6
<1> QED BY <1>1, <1>5, <1>7, <1>8 DEF k

\* The nodes between two ranks are those of the ranking between these places (zrange).
LEMMA InRanksIsRange ==
  ASSUME NaN \notin Score, IInv, NEW lo \in Rank, NEW hi \in Rank
  PROVE  Abstract!InRanks(Abstract!Ranking, lo, hi) = avl_range_by_rank(tree, lo, hi)
<1> DEFINE s == avl_inorder(tree)
<1>1. Abstract!Ranking = s
  BY RankingIsWalk
<1>2. SearchTree(tree, hmap, score)
  BY DEF IInv
<1>3. PICK R, w : /\ Ordered(R, hmap) /\ Shape(tree, hmap, R, hmap)
                  /\ Walks(tree, w) /\ s = w[tree.root]
  BY <1>2, Walked
<1>4. Clean(tree, hmap)
  BY <1>2 DEF SearchTree
<1>5. lo \in Int /\ hi \in Int
  BY RankAssumption
<1>6. avl_range_by_rank(tree, lo, hi) = Cut(s, lo, hi)
  BY <1>3, <1>4, <1>5, RangeIsCut
<1>7. s \in Seq(Node)
  BY <1>2, WalkListsOnce DEF ListsOnce
<1> HIDE DEF s
<1>8. (IF lo < 1 THEN 1 ELSE lo) = Larger(lo, 1)
  BY <1>5 DEF Larger
<1>9. (IF hi > Len(s) THEN Len(s) ELSE hi) = IF hi < Len(s) THEN hi ELSE Len(s)
  <2>1. Len(s) \in Nat
    BY <1>7
  <2> QED BY <1>5, <2>1
<1>10. Abstract!InRanks(s, lo, hi)
         = SubSeq(s, IF lo < 1 THEN 1 ELSE lo, IF hi > Len(s) THEN Len(s) ELSE hi)
  BY DEF Abstract!InRanks
<1>11. Cut(s, lo, hi) = SubSeq(s, Larger(lo, 1), IF hi < Len(s) THEN hi ELSE Len(s))
  BY DEF Cut
<1>12. Abstract!InRanks(s, lo, hi)
         = SubSeq(s, Larger(lo, 1), IF hi < Len(s) THEN hi ELSE Len(s))
  BY <1>8, <1>9, <1>10, Zenon
<1> QED BY <1>1, <1>6, <1>11, <1>12

\* Every command of ZSet is the command of SortedSet.
LEMMA CommandsImplement ==
  ASSUME NaN \notin Score, IInv, [Next]_vars
  PROVE  [Abstract!Next]_(Abstract!vars)
<1>1. Abstract!Members = hmap /\ Abstract!Ranking = avl_inorder(tree)
  BY RankingIsWalk
<1>2. ASSUME NEW n \in Name, NEW x \in Score, Zadd(n, x) PROVE Abstract!Zadd(n, x)
  BY <1>2 DEF Zadd, ZaddExisting, ZaddNew, Abstract!Zadd
<1>3. ASSUME NEW n \in Name, Zrem(n) PROVE Abstract!Zrem(n)
  <2>1. score' = [score EXCEPT ![n] = NoScore]
    <3>1. CASE n \in hmap
      BY <1>3, <3>1 DEF Zrem
    <3>2. CASE n \notin hmap
      <4>1. score' = score
        BY <1>3, <3>2 DEF Zrem
      <4>2. score[n] = NoScore /\ score \in [Name -> Score \cup {NoScore}]
        BY <3>2 DEF IInv
      <4>3. [score EXCEPT ![n] = NoScore] = score
        BY <4>2
      <4> QED BY <4>1, <4>3
    <3> QED BY <3>1, <3>2
  <2> QED BY <1>3, <2>1 DEF Zrem, Abstract!Zrem
<1>4. ASSUME Zdel PROVE Abstract!Zdel
  <2>1. Range(avl_inorder(tree)) = hmap
    BY WalkListsOnce DEF IInv, ListsOnce
  <2>2. \A n \in Name : score[n] # NoScore => n \in hmap
    BY DEF IInv
  <2>3. score' = [n \in Name |-> IF n \in Range(avl_inorder(tree)) THEN NoScore ELSE score[n]]
    BY <1>4 DEF Zdel
  <2>4. score' = [n \in Name |-> NoScore]
    BY <2>1, <2>2, <2>3
  <2>5. cmd' = <<"zdel">> /\ resp' = 1
    BY <1>4 DEF Zdel
  <2> QED BY <2>4, <2>5 DEF Abstract!Zdel
<1>5. ASSUME NEW n \in Name, Zscore(n) PROVE Abstract!Zscore(n)
  BY <1>1, <1>5 DEF Zscore, Answer, Abstract!Zscore
<1>6. ASSUME NEW n \in Name, Zrank(n) PROVE Abstract!Zrank(n)
  <2>1. n \in hmap => Abstract!RankOf(Abstract!Ranking, n) = avl_rank(tree, n)
    BY RankOfIsRank
  <2> QED BY <1>1, <1>6, <2>1 DEF Zrank, Answer, Abstract!Zrank
<1>7. ASSUME Zcard PROVE Abstract!Zcard
  <2>1. Abstract!Cardinality(Abstract!Members) = Cardinality(hmap)
    BY <1>1, SameCount
  <2> QED BY <1>7, <2>1 DEF Zcard, Answer, Abstract!Zcard
<1>8. ASSUME NEW lo \in Rank, NEW hi \in Rank, Zrange(lo, hi) PROVE Abstract!Zrange(lo, hi)
  <2>1. Abstract!InRanks(Abstract!Ranking, lo, hi) = avl_range_by_rank(tree, lo, hi)
    BY InRanksIsRange
  <2> QED BY <1>8, <2>1 DEF Zrange, Answer, Listed, Abstract!Zrange, Abstract!Listed
<1>9. ASSUME Zall PROVE Abstract!Zall
  BY <1>1, <1>9 DEF Zall, Answer, Listed, Abstract!Zall, Abstract!Listed
<1>10. CASE UNCHANGED vars
  BY <1>10 DEF vars, Abstract!vars
<1>11. CASE Next
  BY <1>2, <1>3, <1>4, <1>5, <1>6, <1>7, <1>8, <1>9, <1>11 DEF Next, Abstract!Next
<1> QED BY <1>10, <1>11

\* For any names, ranks and scores that are numbers, the hash map and the tree answer every
\* command as one set of members ranked by score and, among equals, by name would: ZSet
\* implements SortedSet.  With a score that is not a number the tree has no order to keep
\* and the theorem does not hold.
THEOREM ImplementsSortedSet ==
  ASSUME NaN \notin Score
  PROVE  Spec => Refines
<1>1. Init => Abstract!Init
  BY DEF Init, Abstract!Init
<1>2. IInv /\ [Next]_vars => [Abstract!Next]_(Abstract!vars)
  BY CommandsImplement
<1> QED BY <1>1, <1>2, Invariant, PTL DEF Spec, Refines, Abstract!Spec
=============================================================================
