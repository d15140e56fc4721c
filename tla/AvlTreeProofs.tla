--------------------------- MODULE AvlTreeProofs ---------------------------
(***************************************************************************)
(* The tree of AvlTree is a search tree of its members with exact sizes,   *)
(* whatever nodes there are and in whatever order they are inserted and    *)
(* deleted; and an insertion into a balanced tree leaves it balanced.      *)
(***************************************************************************)
EXTENDS AvlTree, AvlProofs

\* The order of the nodes.
Before == {q \in Node \X Node : q[1] < q[2]}

\* The inductive invariant: the pointers form a search tree of the members in which
\* every height and count is the one its children give, and other nodes point at nothing.
IInv ==
  /\ Shape(tree, members, Before, Node)
  /\ ExactOff(tree, members, {})
  /\ Clean(tree, members)

LEMMA BeforeOrdered ==
  /\ Ordered(Before, Node)
  /\ \A x, y \in Node : <<x, y>> \in Before <=> x < y
<1>1. \A x, y \in Node : <<x, y>> \in Before <=> x < y
  BY DEF Before
<1>2. \A x \in Node : x \in Nat
  BY NodeAssumption
<1>3. /\ \A x \in Node : ~(x < x)
      /\ \A x, y, z \in Node : x < y /\ y < z => x < z
      /\ \A x, y \in Node : x = y \/ x < y \/ y < x
  BY <1>2
<1>4. Ordered(Before, Node)
  <2> HIDE DEF Before
  <2>1. \A x \in Node : <<x, x>> \notin Before
    BY <1>1, <1>3
  <2>2. \A x, y, z \in Node : <<x, y>> \in Before /\ <<y, z>> \in Before => <<x, z>> \in Before
    BY <1>1, <1>3
  <2>3. \A x, y \in Node : x = y \/ <<x, y>> \in Before \/ <<y, x>> \in Before
    BY <1>1, <1>3
  <2> QED BY <2>1, <2>2, <2>3 DEF Ordered
<1> QED BY <1>1, <1>4

LEMMA EmptyIsShape == Shape(EmptyTree, {}, Before, Node)
<1> USE NullAssumption
<1> DEFINE J == [x \in Node |-> Node]
           rk == [x \in Node |-> 0]
<1>1. EmptyTree \in Tree
  BY DEF EmptyTree, Tree
<1>2. Linked(EmptyTree.root, EmptyTree.parent, EmptyTree.left, EmptyTree.right, {})
  BY DEF EmptyTree, Linked
<1>3. Ranked(EmptyTree.parent, rk)
  <2>1. rk \in [Node -> Nat] /\ 0 \in Nat /\ \A x \in Node : rk[x] <= 0
    OBVIOUS
  <2>2. \A x \in Node : EmptyTree.parent[x] = NULL
    BY DEF EmptyTree
  <2> QED BY <2>1, <2>2 DEF Ranked
<1>4. Sided(EmptyTree.root, EmptyTree.left, EmptyTree.right, J, Before, Node, {})
  BY DEF EmptyTree, Sided
<1> QED BY <1>1, <1>2, <1>3, <1>4 DEF Shape, Shaped

\* A node that is not in the tree gets new fields.
LEMMA RenewedKeeps ==
  ASSUME NEW R, NEW X, NEW N, NEW t, Shape(t, N, R, X), ExactOff(t, N, {}),
         NEW n \in Node \ N
  PROVE  LET u == Renewed(t, n)
         IN  /\ Shape(u, N, R, X)
             /\ ExactOff(u, N, {})
             /\ u.parent[n] = NULL /\ u.left[n] = NULL /\ u.right[n] = NULL
             /\ \A x \in Node \ {n} : SameFields(t, u, x)
<1> USE NullAssumption
<1> DEFINE w == Unlinked(t, n)
           u == Renewed(t, n)
<1>1. /\ Shape(w, N, R, X)
      /\ ExactOff(w, N, {})
      /\ w.parent[n] = NULL /\ w.left[n] = NULL /\ w.right[n] = NULL
      /\ \A x \in Node \ {n} : SameFields(t, w, x)
  BY UnlinkedKeeps
<1>2. t \in Tree /\ w \in Tree /\ N \in SUBSET Node /\ n \in Node
      /\ Linked(w.root, w.parent, w.left, w.right, N)
  BY <1>1 DEF Shape, Shaped
<1>3. u = [w EXCEPT !.cnt[n] = 1]
  BY <1>2 DEF Renewed, Unlinked, Tree
<1> HIDE DEF u, w
<1>4. /\ Shape(u, N, R, X)
      /\ ExactOff(u, N, {})
      /\ u.parent = w.parent /\ u.left = w.left /\ u.right = w.right
      /\ u.height = w.height
      /\ \A x \in Node \ {n} : u.cnt[x] = w.cnt[x]
  BY <1>1, <1>3, RecountKeeps
<1>5. \A x \in Node \ {n} : SameFields(t, u, x)
  BY <1>1, <1>4 DEF SameFields
<1> QED BY <1>1, <1>4, <1>5 DEF u

LEMMA InvInductive == IInv /\ [Next]_vars => IInv'
<1> USE NullAssumption
<1> SUFFICES ASSUME IInv, [Next]_vars PROVE IInv'
  OBVIOUS
<1>1. /\ Shape(tree, members, Before, Node)
      /\ ExactOff(tree, members, {})
      /\ Clean(tree, members)
  BY DEF IInv
<1>2. /\ Ordered(Before, Node)
      /\ \A x, y \in Node : <<x, y>> \in Before <=> x < y
      /\ \A x, y \in Node : x = y \/ x < y \/ y < x
  BY BeforeOrdered DEF Ordered
<1>3. members \in SUBSET Node
  BY <1>1 DEF Shape, Shaped
<1>4. ASSUME NEW n \in Node, Insert(n) PROVE IInv'
  <2> DEFINE above == {m \in members : Less(n, m)}
             u == avl_insert(tree, n, above)
  <2>1. /\ n \in Node \ members /\ n \in Node
        /\ \A m \in members : m \in above => <<n, m>> \in Before
        /\ \A m \in members : m \notin above => <<m, n>> \in Before
    BY <1>2, <1>3, <1>4 DEF Insert, Less
  <2>2. tree' = u /\ members' = members \cup {n}
    BY <1>4 DEF Insert
  <2> HIDE DEF above
  <2>3. Sorts(Before, members, n, above)
    BY <2>1 DEF Sorts
  <2>4. /\ Shape(u, members \cup {n}, Before, Node)
        /\ ExactOff(u, members \cup {n}, {})
        /\ \A x \in Node \ (members \cup {n}) : SameFields(tree, u, x)
    BY <1>1, <1>2, <2>1, <2>3, InsertKeeps
  <2> HIDE DEF u
  <2>5. Clean(u, members \cup {n})
    BY <1>1, <2>4 DEF Clean, SameFields
  <2> QED BY <2>2, <2>4, <2>5 DEF IInv, Before
<1>5. ASSUME NEW n \in Node, Delete(n) PROVE IInv'
  <2> DEFINE u == avl_delete_(tree, n)
  <2>1. n \in members /\ tree' = u /\ members' = members \ {n}
    BY <1>5 DEF Delete
  <2>2. /\ Shape(u, members \ {n}, Before, Node)
        /\ ExactOff(u, members \ {n}, {})
        /\ Clean(u, members \ {n})
    BY <1>1, <1>2, <2>1, DeleteKeeps
  <2> HIDE DEF u
  <2> QED BY <2>1, <2>2 DEF IInv, Before
<1>6. ASSUME NEW n \in Node, DeleteAndFree(n) PROVE IInv'
  <2> DEFINE above == {m \in members : Less(n, m)}
             t == avl_delete(tree, n, above)
             u == Renewed(t, n)
             L == members \ {n}
  <2>1. tree' = (IF n \in members THEN u ELSE t) /\ members' = L
    BY <1>6 DEF DeleteAndFree
  <2>2. /\ \A m \in members \ {n} : m \in above => <<n, m>> \in Before
        /\ \A m \in members \ {n} : m \notin above => <<m, n>> \in Before
    BY <1>2, <1>3 DEF Less
  <2> HIDE DEF above
  <2>3. avl_find(tree, n, above) = IF n \in members THEN n ELSE NULL
    BY <1>1, <1>2, <2>2, FindFinds
  <2>4. CASE n \notin members
    <3>1. t = tree
      BY <2>3, <2>4 DEF avl_delete
    <3>2. tree' = tree /\ members' = members
      BY <2>1, <2>4, <3>1
    <3> QED BY <1>1, <3>2 DEF IInv, Before
  <2>5. CASE n \in members
    <3>1. t = IF HasTwo(tree, n) THEN Substituted(tree, n) ELSE avl_del(tree, n)
      BY <2>3, <2>5 DEF avl_delete
    <3> HIDE DEF t, u
    <3>2. /\ Shape(t, L, Before, Node)
          /\ ExactOff(t, L, {})
          /\ \A x \in Node \ members : SameFields(tree, t, x)
      <4>1. CASE HasTwo(tree, n)
        <5> DEFINE v == Substituted(tree, n)
        <5>1. /\ Shape(v, members \ {n}, Before, Node)
              /\ ExactOff(v, members \ {n}, {})
              /\ \A x \in Node \ members : SameFields(tree, v, x)
          BY <1>1, <1>2, <2>5, <4>1, SubstitutedKeeps
        <5>2. t = v
          BY <3>1, <4>1
        <5> HIDE DEF v
        <5> QED BY <5>1, <5>2
      <4>2. CASE ~HasTwo(tree, n)
        <5> DEFINE v == avl_del(tree, n)
        <5>1. /\ Shape(v, members \ {n}, Before, Node)
              /\ ExactOff(v, members \ {n}, {})
              /\ v.parent[n] = NULL /\ v.left[n] = NULL /\ v.right[n] = NULL
              /\ \A x \in Node \ members : SameFields(tree, v, x)
          BY <1>1, <1>2, <2>5, <4>2, DelKeeps
        <5>2. t = v
          BY <3>1, <4>2
        <5> HIDE DEF v
        <5> QED BY <5>1, <5>2
      <4> QED BY <4>1, <4>2
    <3>3. n \in Node \ L
      OBVIOUS
    <3> HIDE DEF L
    <3>4. /\ Shape(u, L, Before, Node)
          /\ ExactOff(u, L, {})
          /\ u.parent[n] = NULL /\ u.left[n] = NULL /\ u.right[n] = NULL
          /\ \A x \in Node \ {n} : SameFields(t, u, x)
      BY <3>2, <3>3, RenewedKeeps DEF u
    <3>5. Clean(u, L)
      <4> SUFFICES ASSUME NEW x \in Node \ L
                   PROVE  u.parent[x] = NULL /\ u.left[x] = NULL /\ u.right[x] = NULL
        BY DEF Clean
      <4>1. CASE x = n
        BY <3>4, <4>1
      <4>2. CASE x # n
        <5>1. x \in Node \ members /\ x \in Node \ {n}
          BY <4>2 DEF L
        <5>2. SameFields(tree, t, x) /\ SameFields(t, u, x)
          BY <3>2, <3>4, <5>1
        <5> QED BY <1>1, <5>1, <5>2 DEF SameFields, Clean
      <4> QED BY <4>1, <4>2
    <3>6. tree' = u /\ members' = L
      BY <2>1, <2>5
    <3> QED BY <3>4, <3>5, <3>6 DEF IInv, Before
  <2> QED BY <2>4, <2>5
<1>7. CASE UNCHANGED vars
  BY <1>1, <1>7 DEF vars, IInv, Before
<1> QED BY <1>4, <1>5, <1>6, <1>7 DEF Next

LEMMA InitInv == Init => IInv
<1> SUFFICES ASSUME Init PROVE IInv
  OBVIOUS
<1>1. tree = EmptyTree /\ members = {}
  BY DEF Init
<1>2. ExactOff(EmptyTree, {}, {})
  BY DEF ExactOff
<1>3. Clean(EmptyTree, {})
  BY DEF Clean, EmptyTree
<1> QED BY <1>1, <1>2, <1>3, EmptyIsShape DEF IInv

\* The inductive invariant holds in every state.
LEMMA Invariant == Spec => []IInv
BY InitInv, InvInductive, PTL DEF Spec

\* The fields of every node keep their types, for any set of nodes (class AVLNode).
THEOREM TreeTypeOK == Spec => []TypeOK
<1>1. IInv => TypeOK
  BY DEF IInv, Shape, Shaped, TypeOK, Tree
<1> QED BY <1>1, Invariant, PTL

\* The pointers of parents and children agree, and a deleted node points at nothing and
\* nothing at it, after any sequence of insertions and deletions.
THEOREM PointersAgree == Spec => []LinksAgree
<1> USE NullAssumption
<1>1. ASSUME IInv PROVE LinksAgree
  <2>1. /\ tree \in Tree /\ members \in SUBSET Node
        /\ Linked(tree.root, tree.parent, tree.left, tree.right, members)
        /\ Clean(tree, members)
    BY <1>1 DEF IInv, Shape, Shaped
  <2>2. \A n \in members : tree.left[n] = tree.right[n] => tree.left[n] = NULL
    BY <2>1 DEF Linked
  <2>3. \A n \in Node : \A c \in Children(n) : tree.parent[c] = n
    BY <2>1 DEF Linked, Clean, Children
  <2>4. \A n \in members \ {tree.root} :
          tree.parent[n] \in members /\ n \in Children(tree.parent[n])
    BY <2>1 DEF Linked, Children
  <2>5. \A n \in Node : tree.left[n] = tree.right[n] => tree.left[n] = NULL
    BY <2>1, <2>2 DEF Clean
  <2>6. \A n \in Node \ members : Children(n) = {} /\ tree.parent[n] = NULL
    BY <2>1 DEF Clean, Children
  <2>7. /\ tree.root # NULL => tree.parent[tree.root] = NULL
        /\ (tree.root = NULL) = (members = {})
    BY <2>1 DEF Linked
  <2> QED BY <2>3, <2>4, <2>5, <2>6, <2>7 DEF LinksAgree
<1> QED BY <1>1, Invariant, PTL

\* The height and the number of nodes of every subtree, counted along the pointers, are
\* the ones its root stores.
LEMMA TrueSizes == ASSUME IInv PROVE SizesAreExact
<1> USE NullAssumption
<1> DEFINE S == Node \cup {NULL}
           V == [height: Nat, cnt: Nat]
           Sum(a, b) == [height |-> 1 + Larger(a.height, b.height), cnt |-> 1 + a.cnt + b.cnt]
           below[m \in Node \cup {NULL}] ==
             IF m = NULL THEN [height |-> 0, cnt |-> 0]
             ELSE LET l == below[tree.left[m]]
                      r == below[tree.right[m]]
                  IN  [height |-> 1 + Larger(l.height, r.height), cnt |-> 1 + l.cnt + r.cnt]
           D == [f \in [S -> V] |->
                  [m \in S |-> IF m = NULL THEN [height |-> 0, cnt |-> 0]
                               ELSE Sum(f[tree.left[m]], f[tree.right[m]])]]
           Stored(m) == [height |-> SizeOf(tree.height, m), cnt |-> SizeOf(tree.cnt, m)]
<1>1. /\ tree \in Tree /\ members \in SUBSET Node
      /\ Linked(tree.root, tree.parent, tree.left, tree.right, members)
      /\ Shape(tree, members, Before, Node) /\ Clean(tree, members)
      /\ ExactOff(tree, members, {})
  BY DEF IInv, Shape, Shaped
<1>2. PICK d : Falls(tree, d)
  BY <1>1, DownRank
<1>3. /\ Ranks(S, d)
      /\ \A m \in Node : /\ tree.left[m] \in S /\ d[tree.left[m]] < d[m]
                         /\ tree.right[m] \in S /\ d[tree.right[m]] < d[m]
  BY <1>1, <1>2 DEF Falls, Tree
<1>4. \A a, b \in V : Sum(a, b) \in V
  BY DEF Larger
<1>5. [height |-> 0, cnt |-> 0] \in V
  OBVIOUS
<1>6. Recursive(S, V, d, D)
  <2> HIDE DEF V, Sum
  <2>1. \A f \in [S -> V], m \in S :
          (IF m = NULL THEN [height |-> 0, cnt |-> 0]
           ELSE Sum(f[tree.left[m]], f[tree.right[m]])) \in V
    BY <1>3, <1>4, <1>5
  <2>2. \A g, h \in [S -> V], m \in S :
          (\A k \in S : d[k] < d[m] => g[k] = h[k]) => D[g][m] = D[h][m]
    BY <1>3
  <2>3. D \in [[S -> V] -> [S -> V]]
    BY <2>1
  <2>4. V # {}
    BY <1>5
  <2> HIDE DEF D, S
  <2> QED BY <2>2, <2>3, <2>4 DEF Recursive
<1>7. PICK f \in [S -> V] : f = D[f]
  <2> HIDE DEF D, S, V
  <2> QED BY <1>3, <1>6, Recursion
<1>8. f = [m \in Node \cup {NULL} |->
             IF m = NULL THEN [height |-> 0, cnt |-> 0]
             ELSE LET l == f[tree.left[m]]
                      r == f[tree.right[m]]
                  IN  [height |-> 1 + Larger(l.height, r.height), cnt |-> 1 + l.cnt + r.cnt]]
  <2> HIDE DEF V
  <2> QED BY <1>7
<1>9. below = [m \in Node \cup {NULL} |->
                 IF m = NULL THEN [height |-> 0, cnt |-> 0]
                 ELSE LET l == below[tree.left[m]]
                          r == below[tree.right[m]]
                      IN  [height |-> 1 + Larger(l.height, r.height),
                           cnt |-> 1 + l.cnt + r.cnt]]
  <2> HIDE DEF D, V
  <2> QED BY <1>8
<1>10. \A n \in Node : TrueSize(n) = below[n]
  BY DEF TrueSize
<1> HIDE DEF below, D
<1>11. \A m \in S : below[m] = IF m = NULL THEN [height |-> 0, cnt |-> 0]
                               ELSE Sum(below[tree.left[m]], below[tree.right[m]])
  BY <1>9
<1> DEFINE G == {m \in S : m \in members \cup {NULL} => below[m] = Stored(m)}
<1>12. ASSUME NEW m \in S, \A k \in S : d[k] < d[m] => k \in G PROVE m \in G
  <2>1. CASE m = NULL
    BY <1>11, <2>1 DEF SizeOf
  <2>2. CASE m \in members
    <3>1. m \in Node /\ m # NULL
          /\ tree.left[m] \in members \cup {NULL} /\ tree.right[m] \in members \cup {NULL}
      BY <1>1, <2>2 DEF Linked
    <3>2. below[tree.left[m]] = Stored(tree.left[m]) /\ below[tree.right[m]] = Stored(tree.right[m])
      BY <1>3, <1>12, <3>1
    <3>3. /\ tree.height[m] = 1 + Larger(SizeOf(tree.height, tree.left[m]), SizeOf(tree.height, tree.right[m]))
          /\ tree.cnt[m] = 1 + SizeOf(tree.cnt, tree.left[m]) + SizeOf(tree.cnt, tree.right[m])
      BY <1>1, <2>2 DEF ExactOff, Exactly, Exact
    <3>4. below[m] = Sum(Stored(tree.left[m]), Stored(tree.right[m]))
      BY <1>11, <3>1, <3>2
    <3>5. Stored(m) = [height |-> tree.height[m], cnt |-> tree.cnt[m]]
      BY <3>1 DEF SizeOf
    <3> QED BY <3>3, <3>4, <3>5
  <2> QED BY <2>1, <2>2
<1>13. S \subseteq G
  <2> HIDE DEF G, S
  <2>1. Inherited(S, d, G)
    BY <1>12 DEF Inherited
  <2> QED BY <1>3, <2>1, RankInduction
<1>14. \A n \in members : TrueSize(n) = [height |-> tree.height[n], cnt |-> tree.cnt[n]]
  BY <1>1, <1>10, <1>13 DEF SizeOf
<1> QED BY <1>14 DEF SizesAreExact

\* The height and the count of every node are those of its subtree, after any sequence
\* of insertions and deletions (avl_update, avl_fix, rot_left, rot_right).
THEOREM SizesExact == Spec => []SizesAreExact
<1>1. IInv => SizesAreExact
  BY TrueSizes
<1> QED BY <1>1, Invariant, PTL

\* A walk of the tree is a list of its members in their order.
LEMMA Walked ==
  ASSUME IInv
  PROVE  /\ \E w : Walks(tree, w) /\ avl_inorder(tree) = w[tree.root]
         /\ Lists(avl_inorder(tree), members, Before)
<1>1. /\ Shape(tree, members, Before, Node) /\ Clean(tree, members)
      /\ ExactOff(tree, members, {}) /\ tree \in Tree
  BY DEF IInv, Shape, Shaped
<1>2. PICK d : Falls(tree, d)
  BY <1>1, DownRank
<1>3. PICK w : Walks(tree, w) /\ avl_inorder(tree) = w[tree.root]
  BY <1>1, <1>2, WalkExists
<1>4. Lists(w[tree.root], members, Before)
  BY <1>1, <1>3, BeforeOrdered, WalkLists
<1> QED BY <1>3, <1>4

\* Read in order the tree is its members in ascending order, each once, after any sequence
\* of insertions and deletions (avl_inorder).
THEOREM TreeInOrder == Spec => []InOrder
<1>1. ASSUME IInv PROVE InOrder
  <2> DEFINE s == avl_inorder(tree)
  <2>1. Lists(s, members, Before)
    BY <1>1, Walked
  <2>2. /\ s \in Seq(Node) /\ Range(s) = members
        /\ \A i, j \in 1 .. Len(s) : i < j => <<s[i], s[j]>> \in Before
    BY <2>1 DEF Lists
  <2> HIDE DEF s
  <2>3. DOMAIN s = 1 .. Len(s) /\ \A i \in DOMAIN s : s[i] \in Node
    BY <2>2
  <2>4. \A i, j \in DOMAIN s : i < j => s[i] < s[j]
    BY <2>2, <2>3, BeforeOrdered
  <2> QED BY <2>2, <2>4 DEF InOrder, s
<1> QED BY <1>1, Invariant, PTL

\* The rank of a member and the members in a range of ranks are what their positions in
\* the order say, in a tree of any size (avl_rank, avl_range_by_rank).
THEOREM RanksArePositions == Spec => []RanksAgree
<1>1. ASSUME IInv PROVE RanksAgree
  <2> DEFINE s == avl_inorder(tree)
             size == Len(s)
  <2>1. /\ Shape(tree, members, Before, Node) /\ Clean(tree, members)
        /\ ExactOff(tree, members, {}) /\ Ordered(Before, Node)
    BY <1>1, BeforeOrdered DEF IInv
  <2>2. PICK w : Walks(tree, w) /\ s = w[tree.root]
    BY <1>1, Walked
  <2>3. Lists(s, members, Before)
    BY <1>1, Walked
  <2>4. /\ s \in Seq(Node) /\ size \in Nat /\ \A i \in 1 .. size : s[i] \in members
        /\ \A i, j \in 1 .. size : i < j => <<s[i], s[j]>> \in Before
    <3> HIDE DEF s
    <3>1. s \in Seq(Node) /\ Range(s) = members
          /\ \A i, j \in 1 .. size : i < j => <<s[i], s[j]>> \in Before
      BY <2>3 DEF Lists
    <3>2. DOMAIN s = 1 .. size /\ size \in Nat
      BY <3>1
    <3> QED BY <3>1, <3>2 DEF Range
  <2>5. ASSUME NEW i \in 1 .. size PROVE avl_rank(tree, s[i]) = i
    <3> DEFINE r == avl_rank(tree, s[i])
    <3>1. s[i] \in members
      BY <2>4
    <3>2. r \in 1 .. Len(w[tree.root]) /\ w[tree.root][r] = s[i]
      BY <2>1, <2>2, <3>1, RankIsPosition
    <3> HIDE DEF s, r
    <3>3. r \in 1 .. size /\ s[r] = s[i]
      BY <2>2, <3>2
    <3>4. <<s[i], s[i]>> \notin Before /\ i \in Int /\ r \in Int
      BY <2>4, <3>3, BeforeOrdered DEF Ordered
    <3>5. ~(r < i) /\ ~(i < r)
      BY <2>4, <3>3, <3>4
    <3> QED BY <3>4, <3>5 DEF r
  <2>6. ASSUME NEW lo \in Int, NEW hi \in Int
        PROVE  avl_range_by_rank(tree, lo, hi) = Cut(s, lo, hi)
    BY <2>1, <2>2, RangeIsCut
  <2>7. -1 .. size + 1 \subseteq Int
    OBVIOUS
  <2>8. \A lo, hi \in -1 .. size + 1 :
          avl_range_by_rank(tree, lo, hi)
            = SubSeq(s, Larger(lo, 1), IF hi < size THEN hi ELSE size)
    <3> HIDE DEF s
    <3> QED BY <2>6, <2>7 DEF Cut
  <2> QED BY <2>5, <2>8 DEF RanksAgree
<1> QED BY <1>1, Invariant, PTL

\* From every member avl_offset finds the one any number of places behind it, or nothing
\* where there is none, in a tree of any size and although it adds negative distances to
\* unsigned counts on the way.
THEOREM OffsetsForward == Spec => []OffsetForward
<1>1. ASSUME IInv PROVE OffsetForward
  <2> DEFINE s == avl_inorder(tree)
  <2>1. /\ Shape(tree, members, Before, Node) /\ Clean(tree, members)
        /\ ExactOff(tree, members, {}) /\ Ordered(Before, Node)
    BY <1>1, BeforeOrdered DEF IInv
  <2>2. PICK w : Walks(tree, w) /\ s = w[tree.root]
    BY <1>1, Walked
  <2>3. s \in Seq(Node)
    BY <1>1, Walked DEF Lists
  <2> HIDE DEF s
  <2>4. DOMAIN s = 1 .. Len(s) /\ Len(s) \in Nat
    BY <2>3
  <2>5. ASSUME NEW i \in 1 .. Len(s), NEW d \in 0 .. Len(s)
        PROVE  avl_offset(tree, s[i], d) = IF i + d \in DOMAIN s THEN s[i + d] ELSE NULL
    <3>1. i \in 1 .. Len(w[tree.root]) /\ d \in Nat
      BY <2>2
    <3>2. avl_offset(tree, w[tree.root][i], d) =
            IF i + d <= Len(w[tree.root]) THEN w[tree.root][i + d] ELSE NULL
      BY <2>1, <2>2, <3>1, OffsetFinds
    <3>3. i + d \in DOMAIN s <=> i + d <= Len(s)
      BY <2>4
    <3> QED BY <2>2, <3>2, <3>3
  <2> QED BY <2>4, <2>5 DEF OffsetForward, s
<1> QED BY <1>1, Invariant, PTL

-----------------------------------------------------------------------------
(* Balance: what a rotation does to the heights, again field by field, so that one proof
   about A and B stands for a rotation and for its mirror image *)

\* The height of m is the one its children give.
Tall(A, B, H, m) == H[m] = 1 + Larger(SizeOf(H, A[m]), SizeOf(H, B[m]))

\* Moreover the heights of its children differ by at most one.
Sound(A, B, H, m) ==
  /\ Tall(A, B, H, m)
  /\ SizeOf(H, A[m]) - SizeOf(H, B[m]) \in -1 .. 1

\* Only the heights of the nodes in Z are others.
HeightsKept(H, H2, Z) == \A x \in Node \ Z : H2[x] = H[x]

\* Neither depends on the sides.
LEMMA SoundMirror ==
  ASSUME NEW A \in [Node -> Node \cup {NULL}], NEW B \in [Node -> Node \cup {NULL}],
         NEW H \in [Node -> Nat], NEW m \in Node
  PROVE  /\ Tall(A, B, H, m) <=> Tall(B, A, H, m)
         /\ Sound(A, B, H, m) <=> Sound(B, A, H, m)
<1>1. A[m] \in Node \cup {NULL} /\ B[m] \in Node \cup {NULL}
  OBVIOUS
<1>2. SizeOf(H, A[m]) \in Nat /\ SizeOf(H, B[m]) \in Nat
  BY <1>1 DEF SizeOf
<1> QED BY <1>2 DEF Sound, Tall, Larger

\* After a rotation of n and its child r: the heights of the two, and that every other
\* node stays as it was, the parent of n if the subtree below it keeps its height.
Rotated(M, P, A, B, H, A2, B2, H2, n, r) ==
  /\ A2[n] = A[n] /\ B2[n] = A[r] /\ A2[r] = n /\ B2[r] = B[r]
  /\ SizeOf(H2, A[n]) = SizeOf(H, A[n])
  /\ SizeOf(H2, A[r]) = SizeOf(H, A[r])
  /\ SizeOf(H2, B[r]) = SizeOf(H, B[r])
  /\ H2[n] = 1 + Larger(SizeOf(H, A[n]), SizeOf(H, A[r]))
  /\ H2[r] = 1 + Larger(H2[n], SizeOf(H, B[r]))
  /\ \A m \in M \ {n, r} :
       (m = P[n] => H2[r] = H[n]) /\ Sound(A, B, H, m) => Sound(A2, B2, H2, m)

\* What a rotation makes of the heights, when those of n and r are brought up to date.
LEMMA TurnHeights ==
  ASSUME NEW root, NEW M \in SUBSET Node,
         NEW P \in [Node -> Node \cup {NULL}], NEW A \in [Node -> Node \cup {NULL}],
         NEW B \in [Node -> Node \cup {NULL}],
         NEW A2 \in [Node -> Node \cup {NULL}], NEW B2 \in [Node -> Node \cup {NULL}],
         Linked(root, P, A, B, M), NEW rk, Ranked(P, rk),
         NEW n \in M, NEW r \in Node, r = B[n], NEW H, NEW H2,
         TurnsChildren(P, A, B, A2, B2, n, r),
         HeightsKept(H, H2, {n, r}),
         Tall(A2, B2, H2, n), Tall(A2, B2, H2, r)
  PROVE  Rotated(M, P, A, B, H, A2, B2, H2, n, r)
<1> USE NullAssumption DEF TurnsChildren
<1>1. r \in M /\ P[r] = n /\ r # n /\ n \in Node
  BY DEF Linked, Ranked
<1>2. P[n] # NULL => P[n] \in M /\ P[n] # r /\ P[n] # n
  BY <1>1 DEF Linked, Ranked
<1>3. /\ A[n] \notin {n, r} /\ A[r] \notin {n, r} /\ B[r] \notin {n, r}
      /\ A[n] \in Node \cup {NULL} /\ A[r] \in Node \cup {NULL} /\ B[r] \in Node \cup {NULL}
  BY <1>1 DEF Linked, Ranked
<1>4. A2[n] = A[n] /\ B2[n] = A[r] /\ A2[r] = n /\ B2[r] = B[r]
  BY <1>1, <1>2, <1>3
<1>5. \A x \in Node \cup {NULL} : x \notin {n, r} => SizeOf(H2, x) = SizeOf(H, x)
  BY DEF HeightsKept, SizeOf
<1>6. SizeOf(H2, n) = H2[n] /\ SizeOf(H2, r) = H2[r] /\ SizeOf(H, n) = H[n]
  BY <1>1 DEF SizeOf
<1>7. /\ SizeOf(H2, A[n]) = SizeOf(H, A[n])
      /\ SizeOf(H2, A[r]) = SizeOf(H, A[r])
      /\ SizeOf(H2, B[r]) = SizeOf(H, B[r])
      /\ H2[n] = 1 + Larger(SizeOf(H, A[n]), SizeOf(H, A[r]))
      /\ H2[r] = 1 + Larger(H2[n], SizeOf(H, B[r]))
  BY <1>3, <1>4, <1>5, <1>6 DEF Tall
<1>8. ASSUME NEW m \in M \ {n, r}, m = P[n] => H2[r] = H[n], Sound(A, B, H, m)
      PROVE  Sound(A2, B2, H2, m)
  <2>1. H2[m] = H[m] /\ m \in Node
    BY DEF HeightsKept
  <2>2. A[m] # r /\ B[m] # r /\ A[m] \in Node \cup {NULL} /\ B[m] \in Node \cup {NULL}
    BY <1>1, <1>8 DEF Linked
  <2>3. A[m] = n \/ B[m] = n => m = P[n]
    BY <1>1 DEF Linked
  <2>4. /\ A2[m] = IF A[m] = n THEN r ELSE A[m]
        /\ B2[m] = IF B[m] = n THEN r ELSE B[m]
    BY <1>8, <2>1, <2>3
  <2>5. SizeOf(H2, A2[m]) = SizeOf(H, A[m])
    BY <1>5, <1>6, <1>8, <2>2, <2>3, <2>4
  <2>6. SizeOf(H2, B2[m]) = SizeOf(H, B[m])
    BY <1>5, <1>6, <1>8, <2>2, <2>3, <2>4
  <2> QED BY <1>8, <2>1, <2>5, <2>6 DEF Sound, Tall
<1> QED BY <1>4, <1>7, <1>8 DEF Rotated

\* The last rotation of a repair: the subtree of n has h levels again and one more, as
\* it had before its right side grew, and every node is sound.
LEMMA TurnBalances ==
  ASSUME NEW root, NEW M \in SUBSET Node,
         NEW P \in [Node -> Node \cup {NULL}], NEW A \in [Node -> Node \cup {NULL}],
         NEW B \in [Node -> Node \cup {NULL}],
         NEW A2 \in [Node -> Node \cup {NULL}], NEW B2 \in [Node -> Node \cup {NULL}],
         Linked(root, P, A, B, M), NEW rk, Ranked(P, rk),
         NEW n \in M, NEW r \in Node, r = B[n], NEW H, NEW H2,
         TurnsChildren(P, A, B, A2, B2, n, r),
         HeightsKept(H, H2, {n, r}),
         Tall(A2, B2, H2, n), Tall(A2, B2, H2, r),
         NEW h \in Nat, H[n] = h + 1, SizeOf(H, A[n]) = h - 1,
         SizeOf(H, B[r]) = h, SizeOf(H, A[r]) \in {h - 1, h - 2},
         \A m \in M \ {n, r} : Sound(A, B, H, m)
  PROVE  \A m \in M : Sound(A2, B2, H2, m)
<1>1. Rotated(M, P, A, B, H, A2, B2, H2, n, r)
  BY TurnHeights
<1>2. H2[n] = h /\ H2[r] = h + 1
  BY <1>1 DEF Rotated, Larger
<1>3. SizeOf(H2, n) = H2[n]
  BY NullAssumption DEF SizeOf
<1>4. Sound(A2, B2, H2, n)
  BY <1>1 DEF Rotated, Sound
<1>5. Sound(A2, B2, H2, r)
  BY <1>1, <1>2, <1>3 DEF Rotated, Sound
<1>6. ASSUME NEW m \in M \ {n, r} PROVE Sound(A2, B2, H2, m)
  BY <1>1, <1>2, <1>6 DEF Rotated
<1> QED BY <1>4, <1>5, <1>6

\* First i turns above r and then above n, and the heights of the nodes that turn are set.
TurnedTwice(P, A, B, H, P1, A1, B1, H1, A2, B2, H2, n, r, i) ==
  /\ TurnsChildren(P, B, A, B1, A1, r, i) /\ HeightsKept(H, H1, {r, i})
  /\ Tall(A1, B1, H1, r) /\ Tall(A1, B1, H1, i)
  /\ TurnsChildren(P1, A1, B1, A2, B2, n, i) /\ HeightsKept(H1, H2, {n, i})
  /\ Tall(A2, B2, H2, n) /\ Tall(A2, B2, H2, i)

\* The child r of n on the side B leans to its inner child i, the stored height of n is that
\* of before, and the side A is two levels lower than r.
LeansIn(A, B, H, n, r, i, h) ==
  /\ r = B[n] /\ i = A[r]
  /\ H[n] = h + 1 /\ SizeOf(H, A[n]) = h - 1
  /\ SizeOf(H, B[r]) = h - 1 /\ H[i] = h

\* The repair by two rotations: first r and its child i, then n and i.
LEMMA DoubleBalances ==
  ASSUME NEW root, NEW M \in SUBSET Node,
         NEW P \in [Node -> Node \cup {NULL}], NEW A \in [Node -> Node \cup {NULL}],
         NEW B \in [Node -> Node \cup {NULL}],
         NEW root1, NEW P1 \in [Node -> Node \cup {NULL}],
         NEW A1 \in [Node -> Node \cup {NULL}], NEW B1 \in [Node -> Node \cup {NULL}],
         NEW A2 \in [Node -> Node \cup {NULL}], NEW B2 \in [Node -> Node \cup {NULL}],
         Linked(root, P, A, B, M), NEW rk, Ranked(P, rk),
         Linked(root1, P1, A1, B1, M), NEW rk1, Ranked(P1, rk1),
         NEW n \in M, NEW r \in Node, NEW i \in Node, NEW h \in Nat,
         NEW H \in [Node -> Nat], NEW H1 \in [Node -> Nat], NEW H2,
         TurnedTwice(P, A, B, H, P1, A1, B1, H1, A2, B2, H2, n, r, i),
         LeansIn(A, B, H, n, r, i, h),
         \A m \in M \ {n} : Sound(A, B, H, m)
  PROVE  \A m \in M : Sound(A2, B2, H2, m)
<1> SUFFICES
      ASSUME r = B[n], i = A[r],
             TurnsChildren(P, B, A, B1, A1, r, i),
             HeightsKept(H, H1, {r, i}),
             Tall(A1, B1, H1, r), Tall(A1, B1, H1, i),
             TurnsChildren(P1, A1, B1, A2, B2, n, i),
             HeightsKept(H1, H2, {n, i}),
             Tall(A2, B2, H2, n), Tall(A2, B2, H2, i),
             H[n] = h + 1, SizeOf(H, A[n]) = h - 1,
             SizeOf(H, B[r]) = h - 1, H[i] = h
      PROVE  \A m \in M : Sound(A2, B2, H2, m)
  BY DEF TurnedTwice, LeansIn
<1> USE NullAssumption
<1>1. r \in M /\ P[r] = n /\ r # n /\ n \in Node
  BY DEF Linked, Ranked
<1>2. i \in M /\ P[i] = r /\ i # r /\ i # n
  BY <1>1 DEF Linked, Ranked
<1>3. Linked(root, P, B, A, M)
  BY LinkedMirror
<1>4. Tall(B1, A1, H1, r) /\ Tall(B1, A1, H1, i)
  BY SoundMirror
<1>5. Rotated(M, P, B, A, H, B1, A1, H1, r, i)
  BY <1>1, <1>3, <1>4, TurnHeights
<1>6. /\ Sound(A, B, H, i) /\ SizeOf(H, A[i]) \in Nat /\ SizeOf(H, B[i]) \in Nat
  <2>1. A[i] \in Node \cup {NULL} /\ B[i] \in Node \cup {NULL}
    OBVIOUS
  <2> QED BY <1>2, <2>1 DEF SizeOf
<1>7. SizeOf(H, A[i]) \in {h - 1, h - 2} /\ SizeOf(H, B[i]) \in {h - 1, h - 2}
  <2> DEFINE e == SizeOf(H, A[i])
             f == SizeOf(H, B[i])
  <2>1. e \in Nat /\ f \in Nat /\ h = 1 + Larger(e, f) /\ e - f \in -1 .. 1
    BY <1>6 DEF Sound, Tall
  <2> HIDE DEF e, f
  <2>2. e \in {h - 1, h - 2} /\ f \in {h - 1, h - 2}
    BY <2>1 DEF Larger
  <2> QED BY <2>2 DEF e, f
<1>8. H1[r] = h
  BY <1>5, <1>7 DEF Rotated, Larger
<1>9. A1[n] = A[n] /\ B1[n] = i /\ B1[i] = r /\ A1[i] = A[i] /\ A1[r] = B[i] /\ B1[r] = B[r]
  <2>1. A[n] # r /\ B[n] = r
    BY <1>1 DEF Linked
  <2> QED BY <1>1, <1>2, <1>5, <2>1 DEF TurnsChildren, Rotated
<1>10. H1[n] = h + 1
  BY <1>1, <1>2 DEF HeightsKept
<1>11. SizeOf(H1, A1[n]) = h - 1
  <2>1. A[n] \in Node \cup {NULL} /\ A[n] # r /\ A[n] # i
    BY <1>1, <1>2 DEF Linked
  <2> QED BY <1>9, <2>1 DEF HeightsKept, SizeOf
<1>12. SizeOf(H1, B1[i]) = h /\ SizeOf(H1, A1[i]) \in {h - 1, h - 2}
  BY <1>5, <1>7, <1>8, <1>9 DEF Rotated, SizeOf
<1>13. Sound(A1, B1, H1, r)
  BY <1>5, <1>7, <1>9 DEF Rotated, Sound
<1>14. ASSUME NEW m \in M \ {n, i} PROVE Sound(A1, B1, H1, m)
  <2>1. CASE m = r
    BY <1>13, <2>1
  <2>2. CASE m # r
    <3>1. m \in M \ {r, i} /\ m # P[r] /\ m \in Node /\ Sound(A, B, H, m)
      BY <1>1, <2>2
    <3>2. Sound(B, A, H, m)
      BY <3>1, SoundMirror
    <3>3. Sound(B1, A1, H1, m)
      BY <1>5, <3>1, <3>2 DEF Rotated
    <3> QED BY <3>1, <3>3, SoundMirror
  <2> QED BY <2>1, <2>2
<1> QED BY <1>9, <1>10, <1>11, <1>12, <1>14, TurnBalances

\* What a rotation of n and its child r, on the side B, makes of the fields.
Turn(P, A, B, H, P2, A2, B2, H2, n, r) ==
  /\ TurnsParents(P, P2, n, r, A[r])
  /\ TurnsChildren(P, A, B, A2, B2, n, r)
  /\ HeightsKept(H, H2, {n, r})
  /\ Tall(A2, B2, H2, n) /\ Tall(A2, B2, H2, r)

TurnLeft(t, u, n, r) ==
  Turn(t.parent, t.left, t.right, t.height, u.parent, u.left, u.right, u.height, n, r)

TurnRight(t, u, n, l) ==
  Turn(t.parent, t.right, t.left, t.height, u.parent, u.right, u.left, u.height, n, l)

\* The same before the pointer to n in its parent is mended.
HalfLeft(t, v, n, r) ==
  /\ v \in Tree /\ v.parent[n] = r
  /\ \A x \in Node : v.left[x] = IF x = r THEN n ELSE t.left[x]

HalfRight(t, v, n, l) ==
  /\ v \in Tree /\ v.parent[n] = l
  /\ \A x \in Node : v.right[x] = IF x = l THEN n ELSE t.right[x]
  /\ \A x \in Node \ {n} : v.left[x] = t.left[x]

\* What a left rotation makes of a tree.
LEMMA LeftTurnedFields ==
  ASSUME NEW R, NEW X, Ordered(R, X), NEW M, NEW t, Shape(t, M, R, X),
         NEW n \in M, t.right[n] # NULL
  PROVE  /\ Shape(LeftTurned(t, n), M, R, X)
         /\ TurnLeft(t, LeftTurned(t, n), n, t.right[n])
         /\ HalfLeft(t, rot_left(t, n), n, t.right[n])
<1> USE NullAssumption
<1> DEFINE v == rot_left(t, n)
           u == LeftTurned(t, n)
<1>0. PICK r : r = t.right[n] /\ r # NULL
  OBVIOUS
<1>1. /\ t \in Tree /\ M \in SUBSET Node
      /\ Linked(t.root, t.parent, t.left, t.right, M)
      /\ \E rk : Ranked(t.parent, rk)
  BY DEF Shape, Shaped
<1>2. PICK rk : Ranked(t.parent, rk)
  BY <1>1
<1>3. /\ t.parent \in [Node -> Node \cup {NULL}]
      /\ t.left \in [Node -> Node \cup {NULL}] /\ t.right \in [Node -> Node \cup {NULL}]
  BY <1>1 DEF Tree
<1>4. r \in M /\ t.parent[r] = n /\ r # n /\ n \in Node /\ r \in Node
  BY <1>0, <1>1, <1>2, <1>3 DEF Linked, Ranked
<1>5. t.left[r] \notin {n, r} /\ t.right[r] \notin {n, r} /\ t.left[n] \notin {n, r}
  BY <1>0, <1>1, <1>2, <1>3, <1>4 DEF Linked, Ranked
<1>6. /\ v \in Tree
      /\ v.root = t.root
      /\ \A x \in Node : v.parent[x] = IF x = n THEN r ELSE IF x = r THEN t.parent[n]
                                       ELSE IF x = t.left[r] THEN n ELSE t.parent[x]
      /\ \A x \in Node : v.left[x] = IF x = r THEN n ELSE t.left[x]
      /\ \A x \in Node : v.right[x] = IF x = n THEN t.left[r] ELSE t.right[x]
      /\ \A x \in Node \ {n, r} : v.height[x] = t.height[x] /\ v.cnt[x] = t.cnt[x]
      /\ Exactly(v, n) /\ Exactly(v, r)
  BY <1>0, <1>1, <1>4, <1>5, RotLeftFields
<1>7. t.parent[n] \in Node \cup {NULL} /\ r \in Node \cup {NULL}
  BY <1>3, <1>4
<1>8. u = Replace(v, t.parent[n], n, r)
  BY <1>0 DEF LeftTurned
<1> HIDE DEF v
<1>9. /\ u.parent = v.parent /\ u.height = v.height
      /\ \A x \in Node : u.left[x] = IF x = t.parent[n] /\ v.left[x] = n THEN r ELSE v.left[x]
      /\ \A x \in Node : u.right[x] = IF x = t.parent[n] /\ v.left[x] # n THEN r ELSE v.right[x]
  BY <1>6, <1>7, <1>8, ReplaceFields
<1>10. Shape(u, M, R, X)
  <2>1. (t.parent[n] # NULL => t.parent[n] \in M) /\ ExactOff(t, M, M \cup {n}) /\ t.right[n] # NULL
    BY <1>0, <1>1, <1>4 DEF Linked, ExactOff
  <2> QED BY <2>1, RotateLeft
<1> HIDE DEF u
<1>11. t.parent[n] # NULL =>
        /\ t.parent[n] \in M /\ t.parent[n] # r /\ t.parent[n] # n
        /\ (t.left[t.parent[n]] = n) # (t.right[t.parent[n]] = n)
  BY <1>0, <1>1, <1>2, <1>3, <1>4 DEF Linked, Ranked
<1>12. TurnsChildren(t.parent, t.left, t.right, u.left, u.right, n, r)
  <2>1. \A x \in Node : u.left[x] = IF x = r THEN n
                        ELSE IF x = t.parent[n] /\ t.left[x] = n THEN r ELSE t.left[x]
    BY <1>6, <1>9, <1>11
  <2>2. \A x \in Node : u.right[x] = IF x = n THEN t.left[r]
                        ELSE IF x = t.parent[n] /\ t.right[x] = n THEN r ELSE t.right[x]
    BY <1>6, <1>9, <1>11
  <2> QED BY <2>1, <2>2 DEF TurnsChildren
<1>13. TurnsParents(t.parent, u.parent, n, r, t.left[r])
  BY <1>6, <1>9 DEF TurnsParents
<1>14. HeightsKept(t.height, u.height, {n, r})
  BY <1>6, <1>9 DEF HeightsKept
<1>15. Tall(u.left, u.right, u.height, n) /\ Tall(u.left, u.right, u.height, r)
  <2>1. /\ u.left[n] = v.left[n] /\ u.right[n] = v.right[n]
        /\ u.left[r] = v.left[r] /\ u.right[r] = v.right[r]
    BY <1>4, <1>9, <1>11
  <2> QED BY <1>6, <1>9, <2>1 DEF Exactly, Exact, Tall
<1>16. /\ v \in Tree /\ v.parent[n] = r
       /\ \A x \in Node : v.left[x] = IF x = r THEN n ELSE t.left[x]
  BY <1>4, <1>6
<1>17. TurnLeft(t, u, n, r) /\ HalfLeft(t, v, n, r)
  BY <1>12, <1>13, <1>14, <1>15, <1>16 DEF TurnLeft, Turn, HalfLeft
<1> QED BY <1>0, <1>10, <1>17 DEF u, v

\* The mirror image.
LEMMA RightTurnedFields ==
  ASSUME NEW R, NEW X, Ordered(R, X), NEW M, NEW t, Shape(t, M, R, X),
         NEW n \in M, t.left[n] # NULL
  PROVE  /\ Shape(RightTurned(t, n), M, R, X)
         /\ TurnRight(t, RightTurned(t, n), n, t.left[n])
         /\ HalfRight(t, rot_right(t, n), n, t.left[n])
<1> USE NullAssumption
<1> DEFINE v == rot_right(t, n)
           u == RightTurned(t, n)
<1>0. PICK l : l = t.left[n] /\ l # NULL
  OBVIOUS
<1>1. /\ t \in Tree /\ M \in SUBSET Node
      /\ Linked(t.root, t.parent, t.left, t.right, M)
      /\ \E rk : Ranked(t.parent, rk)
  BY DEF Shape, Shaped
<1>2. PICK rk : Ranked(t.parent, rk)
  BY <1>1
<1>3. /\ t.parent \in [Node -> Node \cup {NULL}]
      /\ t.left \in [Node -> Node \cup {NULL}] /\ t.right \in [Node -> Node \cup {NULL}]
  BY <1>1 DEF Tree
<1>4. l \in M /\ t.parent[l] = n /\ l # n /\ n \in Node /\ l \in Node
  BY <1>0, <1>1, <1>2, <1>3 DEF Linked, Ranked
<1>5. t.right[l] \notin {n, l} /\ t.left[l] \notin {n, l} /\ t.right[n] \notin {n, l}
  BY <1>0, <1>1, <1>2, <1>3, <1>4 DEF Linked, Ranked
<1>6. /\ v \in Tree
      /\ v.root = t.root
      /\ \A x \in Node : v.parent[x] = IF x = n THEN l ELSE IF x = l THEN t.parent[n]
                                       ELSE IF x = t.right[l] THEN n ELSE t.parent[x]
      /\ \A x \in Node : v.right[x] = IF x = l THEN n ELSE t.right[x]
      /\ \A x \in Node : v.left[x] = IF x = n THEN t.right[l] ELSE t.left[x]
      /\ \A x \in Node \ {n, l} : v.height[x] = t.height[x] /\ v.cnt[x] = t.cnt[x]
      /\ Exactly(v, n) /\ Exactly(v, l)
  BY <1>0, <1>1, <1>4, <1>5, RotRightFields
<1>7. t.parent[n] \in Node \cup {NULL} /\ l \in Node \cup {NULL}
  BY <1>3, <1>4
<1>8. u = Replace(v, t.parent[n], n, l)
  BY <1>0 DEF RightTurned
<1> HIDE DEF v
<1>9. /\ v.left[n] # n
      /\ u \in Tree /\ u.parent = v.parent /\ u.height = v.height
      /\ \A x \in Node : u.left[x] = IF x = t.parent[n] /\ v.left[x] = n THEN l ELSE v.left[x]
      /\ \A x \in Node : u.right[x] = IF x = t.parent[n] /\ v.left[x] # n THEN l ELSE v.right[x]
  BY <1>4, <1>5, <1>6, <1>7, <1>8, ReplaceFields
<1>10. Shape(u, M, R, X)
  <2>1. (t.parent[n] # NULL => t.parent[n] \in M) /\ ExactOff(t, M, M \cup {n}) /\ t.left[n] # NULL
    BY <1>0, <1>1, <1>4 DEF Linked, ExactOff
  <2> QED BY <2>1, RotateRight
<1> HIDE DEF u
<1>11. t.parent[n] # NULL =>
        /\ t.parent[n] \in M /\ t.parent[n] # l /\ t.parent[n] # n
        /\ (t.left[t.parent[n]] = n) # (t.right[t.parent[n]] = n)
  BY <1>0, <1>1, <1>2, <1>3, <1>4 DEF Linked, Ranked
<1>12. TurnsChildren(t.parent, t.right, t.left, u.right, u.left, n, l)
  <2>1. \A x \in Node : u.right[x] = IF x = l THEN n
                        ELSE IF x = t.parent[n] /\ t.right[x] = n THEN l ELSE t.right[x]
    BY <1>6, <1>9, <1>11
  <2>2. \A x \in Node : u.left[x] = IF x = n THEN t.right[l]
                        ELSE IF x = t.parent[n] /\ t.left[x] = n THEN l ELSE t.left[x]
    BY <1>6, <1>9, <1>11
  <2> QED BY <2>1, <2>2 DEF TurnsChildren
<1>13. TurnsParents(t.parent, u.parent, n, l, t.right[l])
  BY <1>6, <1>9 DEF TurnsParents
<1>14. HeightsKept(t.height, u.height, {n, l})
  BY <1>6, <1>9 DEF HeightsKept
<1>15. Tall(u.right, u.left, u.height, n) /\ Tall(u.right, u.left, u.height, l)
  <2>1. /\ u.left[n] = v.left[n] /\ u.right[n] = v.right[n]
        /\ u.left[l] = v.left[l] /\ u.right[l] = v.right[l]
    BY <1>4, <1>9, <1>11
  <2>2. Exactly(u, n) /\ Exactly(u, l)
    <3>1. u.cnt = v.cnt
      BY <1>6, <1>7, <1>8, ReplaceFields
    <3> QED BY <1>6, <1>9, <2>1, <3>1 DEF Exactly, Exact
  <2>3. Exact(u.right, u.left, u.height, u.cnt, n) /\ Exact(u.right, u.left, u.height, u.cnt, l)
    BY <1>4, <1>9, <2>2, ExactMirror DEF Exactly
  <2> QED BY <2>3 DEF Exact, Tall
<1>16. /\ v \in Tree /\ v.parent[n] = l
       /\ \A x \in Node : v.right[x] = IF x = l THEN n ELSE t.right[x]
       /\ \A x \in Node \ {n} : v.left[x] = t.left[x]
  BY <1>4, <1>6
<1>17. TurnRight(t, u, n, l) /\ HalfRight(t, v, n, l)
  BY <1>12, <1>13, <1>14, <1>15, <1>16 DEF TurnRight, Turn, HalfRight
<1> QED BY <1>0, <1>10, <1>17 DEF u, v

SoundAt(t, m) == Sound(t.left, t.right, t.height, m)

\* rot_left_right with the pointer to n mended is one of the rotations, or two.
LEMMA RotLeftRightForm ==
  ASSUME NEW R, NEW X, Ordered(R, X), NEW M, NEW t, Shape(t, M, R, X),
         NEW n \in M, NEW l, l = t.left[n], l # NULL, NEW i, i = t.right[l]
  PROVE  LET v == rot_left_right(t, n)
             u == Replace(v, t.parent[n], n, v.parent[n])
             s == LeftTurned(t, l)
         IN  /\ ~(avl_height(t, t.left[l]) <= avl_height(t, i)) => u = RightTurned(t, n)
             /\ avl_height(t, t.left[l]) <= avl_height(t, i) /\ i # NULL
                => /\ u = RightTurned(s, n)
                   /\ s.left[n] = i /\ s.parent[n] = t.parent[n]
                   /\ t.parent[n] # l /\ t.parent[n] # i
<1> USE NullAssumption
<1>1. /\ t \in Tree /\ M \in SUBSET Node
      /\ Linked(t.root, t.parent, t.left, t.right, M)
      /\ \E rk : Ranked(t.parent, rk)
  BY DEF Shape, Shaped
<1>2. PICK rk : Ranked(t.parent, rk)
  BY <1>1
<1>3. l \in M /\ l \in Node /\ n \in Node /\ t.parent[l] = n /\ l # n
  BY <1>1, <1>2 DEF Linked, Ranked
<1>4. CASE ~(avl_height(t, t.left[l]) <= avl_height(t, i))
  <2>1. rot_left_right(t, n) = rot_right(t, n)
    BY <1>4 DEF rot_left_right
  <2>2. HalfRight(t, rot_right(t, n), n, l)
    BY RightTurnedFields
  <2>3. Replace(rot_right(t, n), t.parent[n], n, l) = RightTurned(t, n)
    BY DEF RightTurned
  <2> QED BY <1>4, <2>1, <2>2, <2>3 DEF HalfRight
<1>5. CASE avl_height(t, t.left[l]) <= avl_height(t, i) /\ i # NULL
  <2> DEFINE w == rot_left(t, l)
             s == LeftTurned(t, l)
             v == rot_right(s, n)
             u == RightTurned(s, n)
  <2>1. i \in M /\ i \in Node /\ t.parent[i] = l
    BY <1>1, <1>3, <1>5 DEF Linked
  <2>2. t.parent[n] # l /\ t.parent[n] # i /\ t.parent[n] \in Node \cup {NULL}
    BY <1>1, <1>2, <1>3, <2>1 DEF Ranked, Tree
  <2>3. Shape(s, M, R, X) /\ TurnLeft(t, s, l, i) /\ HalfLeft(t, w, l, i)
    BY <1>3, <1>5, LeftTurnedFields
  <2>4. s = Replace(w, n, l, i)
    BY <1>3 DEF LeftTurned
  <2> HIDE DEF w
  <2>5. w.left[n] = l /\ i # n
    <3>1. i # n
      BY <1>2, <1>3, <2>1 DEF Ranked
    <3> QED BY <1>3, <2>3, <3>1 DEF HalfLeft
  <2>6. s = [w EXCEPT !.left[n] = i] /\ s.left[n] = i
    BY <1>3, <2>3, <2>4, <2>5 DEF HalfLeft, Replace, Tree
  <2>7. rot_left_right(t, n) = v
    BY <1>5, <2>6 DEF rot_left_right, w
  <2>8. s.parent[n] = t.parent[n]
    <3>1. n # l /\ n # i /\ n # t.left[i]
      BY <1>1, <1>3, <2>1, <2>2, <2>5 DEF Linked
    <3> QED BY <1>3, <2>3, <3>1 DEF TurnLeft, Turn, TurnsParents
  <2> HIDE DEF s
  <2>9. v.parent[n] = i
    <3>1. HalfRight(s, rot_right(s, n), n, s.left[n])
      BY <1>5, <2>3, <2>6, RightTurnedFields
    <3> QED BY <2>6, <3>1 DEF HalfRight
  <2>10. u = Replace(v, t.parent[n], n, i)
    BY <2>6, <2>8 DEF RightTurned
  <2> QED BY <1>5, <2>2, <2>6, <2>7, <2>8, <2>9, <2>10 DEF s
<1> QED BY <1>4, <1>5

\* w is t with the sizes of n brought up to date.
Updated(t, w, n) ==
  /\ w.parent = t.parent /\ w.left = t.left /\ w.right = t.right
  /\ HeightsKept(t.height, w.height, {n})

\* The side A of n has h levels and one more, two more than the side B, and the child there
\* leans to one side itself; the stored height of n is that of before.
Leans(A, B, H, n, h) ==
  /\ H[n] = h + 1
  /\ SizeOf(H, A[n]) = h + 1 /\ SizeOf(H, B[n]) = h - 1
  /\ SizeOf(H, A[A[n]]) # SizeOf(H, B[A[n]])

\* A node n whose left side has grown too high by one: rot_left_right repairs it, and the
\* subtree is as high as it was before it grew.  w is t with the size of n brought up to
\* date, as avl_fix does first.
LEMMA LeftHeavyBalances ==
  ASSUME NEW R, NEW X, Ordered(R, X), NEW M, NEW t, Shape(t, M, R, X),
         NEW n \in M, NEW w, Shape(w, M, R, X), Updated(t, w, n),
         NEW h \in Nat, Leans(t.left, t.right, t.height, n, h),
         \A m \in M \ {n} : SoundAt(t, m)
  PROVE  LET v == rot_left_right(w, n)
             u == Replace(v, w.parent[n], n, v.parent[n])
         IN  \A m \in M : SoundAt(u, m)
<1> SUFFICES
      ASSUME NEW l, l = t.left[n],
             w.parent = t.parent, w.left = t.left, w.right = t.right,
             HeightsKept(t.height, w.height, {n}), t.height[n] = h + 1,
             SizeOf(t.height, t.left[n]) = h + 1, SizeOf(t.height, t.right[n]) = h - 1,
             SizeOf(t.height, t.left[l]) # SizeOf(t.height, t.right[l])
      PROVE  LET v == rot_left_right(w, n)
                 u == Replace(v, w.parent[n], n, v.parent[n])
             IN  \A m \in M : SoundAt(u, m)
  BY DEF Updated, Leans
<1> USE NullAssumption
<1> DEFINE v == rot_left_right(w, n)
           u == Replace(v, w.parent[n], n, v.parent[n])
           H == t.height
           i == t.right[l]
<1>1. /\ t \in Tree /\ w \in Tree /\ M \in SUBSET Node
      /\ Linked(t.root, t.parent, t.left, t.right, M)
      /\ Linked(t.root, t.parent, t.right, t.left, M)
      /\ \E rk : Ranked(t.parent, rk)
  BY LinkedMirror DEF Shape, Shaped
<1>2. PICK rk : Ranked(t.parent, rk)
  BY <1>1
<1>3. /\ t.parent \in [Node -> Node \cup {NULL}]
      /\ t.left \in [Node -> Node \cup {NULL}] /\ t.right \in [Node -> Node \cup {NULL}]
      /\ t.height \in [Node -> Nat] /\ w.height \in [Node -> Nat]
      /\ \A x \in Node : t.height[x] # 0
  BY <1>1 DEF Tree
<1>4. /\ l \in M /\ l \in Node /\ n \in Node /\ l # NULL /\ t.parent[l] = n /\ l # n
      /\ H[l] = h + 1
  <2>1. l # NULL /\ H[l] = h + 1
    BY DEF SizeOf
  <2>2. l \in M /\ t.parent[l] = n
    BY <1>1, <2>1 DEF Linked
  <2>3. l # n
    BY <1>1, <1>2, <2>1, <2>2 DEF Ranked
  <2> QED BY <1>1, <2>1, <2>2, <2>3
<1>5. \A x \in Node \cup {NULL} : SizeOf(H, x) \in Nat
  BY <1>3 DEF SizeOf
<1>6. \/ SizeOf(H, t.left[l]) = h /\ SizeOf(H, i) = h - 1
      \/ SizeOf(H, t.left[l]) = h - 1 /\ SizeOf(H, i) = h
  <2> DEFINE e == SizeOf(H, t.left[l])
             f == SizeOf(H, i)
  <2>1. e \in Nat /\ f \in Nat
    BY <1>3, <1>4, <1>5
  <2>2. h + 1 = 1 + Larger(e, f) /\ e - f \in -1 .. 1 /\ e # f
    BY <1>4 DEF SoundAt, Sound, Tall
  <2> HIDE DEF e, f
  <2>3. (e = h /\ f = h - 1) \/ (e = h - 1 /\ f = h)
    BY <2>1, <2>2 DEF Larger
  <2> QED BY <2>3 DEF e, f
<1>7. /\ avl_height(w, w.left[l]) = SizeOf(H, t.left[l])
      /\ avl_height(w, w.right[l]) = SizeOf(H, i)
  <2>1. t.left[l] # n /\ i # n /\ t.left[l] \in Node \cup {NULL} /\ i \in Node \cup {NULL}
    BY <1>1, <1>2, <1>3, <1>4 DEF Linked, Ranked
  <2> QED BY <2>1 DEF avl_height, SizeOf, HeightsKept
<1>8. \A m \in M \ {n} : Sound(t.right, t.left, H, m)
  BY <1>1, <1>3, SoundMirror DEF SoundAt
<1>9. CASE SizeOf(H, t.left[l]) = h /\ SizeOf(H, i) = h - 1
  <2>1. u = RightTurned(w, n)
    <3>1. ~(avl_height(w, w.left[l]) <= avl_height(w, w.right[l])) /\ l = w.left[n]
      BY <1>7, <1>9
    <3> QED BY <1>4, <3>1, RotLeftRightForm
  <2> HIDE DEF u
  <2>2. /\ u \in Tree
        /\ TurnsChildren(t.parent, t.right, t.left, u.right, u.left, n, l)
        /\ HeightsKept(w.height, u.height, {n, l})
        /\ Tall(u.right, u.left, u.height, n) /\ Tall(u.right, u.left, u.height, l)
    <3>1. Shape(u, M, R, X) /\ TurnRight(w, u, n, w.left[n])
      BY <1>4, <2>1, RightTurnedFields
    <3> QED BY <3>1 DEF Shape, Shaped, TurnRight, Turn
  <2>3. /\ u.right \in [Node -> Node \cup {NULL}] /\ u.left \in [Node -> Node \cup {NULL}]
        /\ u.height \in [Node -> Nat]
    BY <2>2 DEF Tree
  <2>4. HeightsKept(H, u.height, {n, l})
    BY <2>2 DEF HeightsKept
  <2>5. SizeOf(H, t.right[l]) \in {h - 1, h - 2} /\ \A m \in M \ {n, l} : Sound(t.right, t.left, H, m)
    BY <1>8, <1>9
  <2>6. \A m \in M : Sound(u.right, u.left, u.height, m)
    BY <1>1, <1>2, <1>3, <1>4, <1>9, <2>2, <2>3, <2>4, <2>5, TurnBalances
  <2>7. \A m \in M : SoundAt(u, m)
    BY <1>1, <2>3, <2>6, SoundMirror DEF SoundAt
  <2> QED BY <2>7 DEF u
<1>10. CASE SizeOf(H, t.left[l]) = h - 1 /\ SizeOf(H, i) = h
  <2> DEFINE s == LeftTurned(w, l)
             H1 == [s.height EXCEPT ![n] = H[n]]
  <2>1. i # NULL
    BY <1>3, <1>4, <1>5, <1>10 DEF SizeOf
  <2>2. i \in M /\ i \in Node /\ t.parent[i] = l /\ H[i] = h
    BY <1>1, <1>4, <1>10, <2>1 DEF Linked, SizeOf
  <2>3. /\ u = RightTurned(s, n)
        /\ s.left[n] = i /\ s.parent[n] = t.parent[n]
        /\ t.parent[n] # l /\ t.parent[n] # i
    <3>1. avl_height(w, w.left[l]) <= avl_height(w, i) /\ l = w.left[n] /\ i = w.right[l]
      BY <1>7, <1>10
    <3> QED BY <1>4, <2>1, <3>1, RotLeftRightForm
  <2> HIDE DEF u, i
  <2>4. /\ Shape(s, M, R, X)
        /\ TurnsChildren(t.parent, t.left, t.right, s.left, s.right, l, i)
        /\ HeightsKept(w.height, s.height, {l, i})
        /\ Tall(s.left, s.right, s.height, l) /\ Tall(s.left, s.right, s.height, i)
    <3>1. i = w.right[l]
      BY DEF i
    <3>2. Shape(s, M, R, X) /\ TurnLeft(w, s, l, w.right[l])
      BY <1>4, <2>1, <3>1, LeftTurnedFields DEF s
    <3> QED BY <3>1, <3>2 DEF TurnLeft, Turn
  <2> HIDE DEF s
  <2>5. /\ Shape(u, M, R, X)
        /\ TurnsChildren(s.parent, s.right, s.left, u.right, u.left, n, i)
        /\ HeightsKept(s.height, u.height, {n, i})
        /\ Tall(u.right, u.left, u.height, n) /\ Tall(u.right, u.left, u.height, i)
    <3>1. Shape(u, M, R, X) /\ TurnRight(s, u, n, s.left[n])
      BY <2>1, <2>3, <2>4, RightTurnedFields
    <3> QED BY <2>3, <3>1 DEF TurnRight, Turn
  <2>6. /\ s \in Tree /\ u \in Tree /\ Linked(s.root, s.parent, s.left, s.right, M)
        /\ Linked(s.root, s.parent, s.right, s.left, M) /\ \E rk1 : Ranked(s.parent, rk1)
    BY <2>4, <2>5, LinkedMirror DEF Shape, Shaped
  <2>7. PICK rk1 : Ranked(s.parent, rk1)
    BY <2>6
  <2>8. /\ s.right \in [Node -> Node \cup {NULL}] /\ s.left \in [Node -> Node \cup {NULL}]
        /\ u.right \in [Node -> Node \cup {NULL}] /\ u.left \in [Node -> Node \cup {NULL}]
        /\ s.parent \in [Node -> Node \cup {NULL}]
        /\ s.height \in [Node -> Nat] /\ u.height \in [Node -> Nat]
    BY <2>6 DEF Tree
  <2>9. /\ H1 \in [Node -> Nat] /\ H1[n] = H[n]
        /\ \A x \in Node \ {n} : H1[x] = s.height[x]
    BY <1>3, <1>4, <2>8
  <2> HIDE DEF H1
  <2>10. HeightsKept(H, H1, {l, i})
    BY <2>4, <2>9 DEF HeightsKept
  <2>11. HeightsKept(H1, u.height, {n, i})
    BY <2>5, <2>9 DEF HeightsKept
  <2>12. Tall(s.right, s.left, H1, l) /\ Tall(s.right, s.left, H1, i)
    <3>1. s.left[l] # n /\ s.right[l] # n /\ s.left[i] # n /\ s.right[i] # n /\ l # n /\ i # n
      <4>1. l # n /\ i # n
        BY <1>4, <2>2, <2>3
      <4>2. s.parent[n] # l /\ s.parent[n] # i
        BY <2>3
      <4> QED BY <4>1, <4>2, <2>6, <1>4, <2>2 DEF Linked
    <3>2. Tall(s.left, s.right, H1, l) /\ Tall(s.left, s.right, H1, i)
      BY <1>4, <2>2, <2>4, <2>8, <2>9, <3>1 DEF Tall, SizeOf
    <3> QED BY <1>4, <2>2, <2>8, <2>9, <3>2, SoundMirror
  <2>13. /\ Linked(t.root, t.parent, t.right, t.left, M) /\ l \in Node /\ i \in Node
         /\ M \in SUBSET Node /\ H \in [Node -> Nat]
         /\ Linked(s.root, s.parent, s.right, s.left, M)
    BY <1>1, <1>3, <1>4, <2>2, <2>6
  <2>14. LeansIn(t.right, t.left, H, n, l, i, h)
    BY <1>10, <2>2 DEF LeansIn, i
  <2>15. TurnedTwice(t.parent, t.right, t.left, H, s.parent, s.right, s.left, H1,
                     u.right, u.left, u.height, n, l, i)
    BY <2>4, <2>5, <2>10, <2>11, <2>12 DEF TurnedTwice
  <2> HIDE DEF H
  <2>16. \A m \in M : Sound(u.right, u.left, u.height, m)
    BY <1>2, <1>3, <1>8, <2>7, <2>8, <2>9, <2>13, <2>14, <2>15, DoubleBalances
  <2>17. \A m \in M : SoundAt(u, m)
    BY <1>1, <2>8, <2>16, SoundMirror DEF SoundAt
  <2> QED BY <2>17 DEF u
<1> QED BY <1>6, <1>9, <1>10

\* rot_right_left with the pointer to n mended is one of the rotations, or two.
LEMMA RotRightLeftForm ==
  ASSUME NEW R, NEW X, Ordered(R, X), NEW M, NEW t, Shape(t, M, R, X),
         NEW n \in M, NEW r, r = t.right[n], r # NULL, NEW i, i = t.left[r]
  PROVE  LET v == rot_right_left(t, n)
             u == Replace(v, t.parent[n], n, v.parent[n])
             s == RightTurned(t, r)
         IN  /\ ~(avl_height(t, i) >= avl_height(t, t.right[r])) => u = LeftTurned(t, n)
             /\ avl_height(t, i) >= avl_height(t, t.right[r]) /\ i # NULL
                => /\ u = LeftTurned(s, n)
                   /\ s.right[n] = i /\ s.parent[n] = t.parent[n]
                   /\ t.parent[n] # r /\ t.parent[n] # i
<1> USE NullAssumption
<1>1. /\ t \in Tree /\ M \in SUBSET Node
      /\ Linked(t.root, t.parent, t.left, t.right, M)
      /\ \E rk : Ranked(t.parent, rk)
  BY DEF Shape, Shaped
<1>2. PICK rk : Ranked(t.parent, rk)
  BY <1>1
<1>3. r \in M /\ r \in Node /\ n \in Node /\ t.parent[r] = n /\ r # n
  BY <1>1, <1>2 DEF Linked, Ranked
<1>4. CASE ~(avl_height(t, i) >= avl_height(t, t.right[r]))
  <2>1. rot_right_left(t, n) = rot_left(t, n)
    BY <1>4 DEF rot_right_left
  <2>2. HalfLeft(t, rot_left(t, n), n, r)
    BY LeftTurnedFields
  <2>3. Replace(rot_left(t, n), t.parent[n], n, r) = LeftTurned(t, n)
    BY DEF LeftTurned
  <2> QED BY <1>4, <2>1, <2>2, <2>3 DEF HalfLeft
<1>5. CASE avl_height(t, i) >= avl_height(t, t.right[r]) /\ i # NULL
  <2> DEFINE w == rot_right(t, r)
             s == RightTurned(t, r)
             v == rot_left(s, n)
             u == LeftTurned(s, n)
  <2>1. i \in M /\ i \in Node /\ t.parent[i] = r
    BY <1>1, <1>3, <1>5 DEF Linked
  <2>2. t.parent[n] # r /\ t.parent[n] # i /\ t.parent[n] \in Node \cup {NULL}
    BY <1>1, <1>2, <1>3, <2>1 DEF Ranked, Tree
  <2>3. Shape(s, M, R, X) /\ TurnRight(t, s, r, i) /\ HalfRight(t, w, r, i)
    BY <1>3, <1>5, RightTurnedFields
  <2>4. s = Replace(w, n, r, i)
    BY <1>3 DEF RightTurned
  <2> HIDE DEF w
  <2>5. w.right[n] = r /\ w.left[n] # r /\ i # n
    <3>1. i # n
      BY <1>2, <1>3, <2>1 DEF Ranked
    <3>2. t.left[n] # r
      BY <1>1, <1>3 DEF Linked
    <3> QED BY <1>3, <2>3, <3>1, <3>2 DEF HalfRight
  <2>6. s = [w EXCEPT !.right[n] = i] /\ s.right[n] = i
    BY <1>3, <2>3, <2>4, <2>5 DEF HalfRight, Replace, Tree
  <2>7. rot_right_left(t, n) = v
    BY <1>5, <2>6 DEF rot_right_left, w
  <2>8. s.parent[n] = t.parent[n]
    <3>1. n # r /\ n # i /\ n # t.right[i]
      BY <1>1, <1>3, <2>1, <2>2, <2>5 DEF Linked
    <3> QED BY <1>3, <2>3, <3>1 DEF TurnRight, Turn, TurnsParents
  <2> HIDE DEF s
  <2>9. v.parent[n] = i
    <3>1. HalfLeft(s, rot_left(s, n), n, s.right[n])
      BY <1>5, <2>3, <2>6, LeftTurnedFields
    <3> QED BY <2>6, <3>1 DEF HalfLeft
  <2>10. u = Replace(v, t.parent[n], n, i)
    BY <2>6, <2>8 DEF LeftTurned
  <2> QED BY <1>5, <2>2, <2>6, <2>7, <2>8, <2>9, <2>10 DEF s
<1> QED BY <1>4, <1>5

\* A node n whose right side has grown too high by one: rot_right_left repairs it, and the
\* subtree is as high as it was before it grew.  w is t with the size of n brought up to
\* date, as avl_fix does first.
LEMMA RightHeavyBalances ==
  ASSUME NEW R, NEW X, Ordered(R, X), NEW M, NEW t, Shape(t, M, R, X),
         NEW n \in M, NEW w, Shape(w, M, R, X), Updated(t, w, n),
         NEW h \in Nat, Leans(t.right, t.left, t.height, n, h),
         \A m \in M \ {n} : SoundAt(t, m)
  PROVE  LET v == rot_right_left(w, n)
             u == Replace(v, w.parent[n], n, v.parent[n])
         IN  \A m \in M : SoundAt(u, m)
<1> SUFFICES
      ASSUME NEW r, r = t.right[n],
             w.parent = t.parent, w.left = t.left, w.right = t.right,
             HeightsKept(t.height, w.height, {n}), t.height[n] = h + 1,
             SizeOf(t.height, t.right[n]) = h + 1, SizeOf(t.height, t.left[n]) = h - 1,
             SizeOf(t.height, t.right[r]) # SizeOf(t.height, t.left[r])
      PROVE  LET v == rot_right_left(w, n)
                 u == Replace(v, w.parent[n], n, v.parent[n])
             IN  \A m \in M : SoundAt(u, m)
  BY DEF Updated, Leans
<1> USE NullAssumption
<1> DEFINE v == rot_right_left(w, n)
           u == Replace(v, w.parent[n], n, v.parent[n])
           H == t.height
           i == t.left[r]
<1>1. /\ t \in Tree /\ w \in Tree /\ M \in SUBSET Node
      /\ Linked(t.root, t.parent, t.right, t.left, M)
      /\ Linked(t.root, t.parent, t.left, t.right, M)
      /\ \E rk : Ranked(t.parent, rk)
  BY LinkedMirror DEF Shape, Shaped
<1>2. PICK rk : Ranked(t.parent, rk)
  BY <1>1
<1>3. /\ t.parent \in [Node -> Node \cup {NULL}]
      /\ t.right \in [Node -> Node \cup {NULL}] /\ t.left \in [Node -> Node \cup {NULL}]
      /\ t.height \in [Node -> Nat] /\ w.height \in [Node -> Nat]
      /\ \A x \in Node : t.height[x] # 0
  BY <1>1 DEF Tree
<1>4. /\ r \in M /\ r \in Node /\ n \in Node /\ r # NULL /\ t.parent[r] = n /\ r # n
      /\ H[r] = h + 1
  <2>1. r # NULL /\ H[r] = h + 1
    BY DEF SizeOf
  <2>2. r \in M /\ t.parent[r] = n
    BY <1>1, <2>1 DEF Linked
  <2>3. r # n
    BY <1>1, <1>2, <2>1, <2>2 DEF Ranked
  <2> QED BY <1>1, <2>1, <2>2, <2>3
<1>5. \A x \in Node \cup {NULL} : SizeOf(H, x) \in Nat
  BY <1>3 DEF SizeOf
<1>6. \/ SizeOf(H, t.right[r]) = h /\ SizeOf(H, i) = h - 1
      \/ SizeOf(H, t.right[r]) = h - 1 /\ SizeOf(H, i) = h
  <2> DEFINE e == SizeOf(H, t.right[r])
             f == SizeOf(H, i)
  <2>1. e \in Nat /\ f \in Nat
    BY <1>3, <1>4, <1>5
  <2>2. h + 1 = 1 + Larger(f, e) /\ f - e \in -1 .. 1 /\ e # f
    BY <1>4 DEF SoundAt, Sound, Tall
  <2> HIDE DEF e, f
  <2>3. (e = h /\ f = h - 1) \/ (e = h - 1 /\ f = h)
    BY <2>1, <2>2 DEF Larger
  <2> QED BY <2>3 DEF e, f
<1>7. /\ avl_height(w, w.right[r]) = SizeOf(H, t.right[r])
      /\ avl_height(w, w.left[r]) = SizeOf(H, i)
  <2>1. t.right[r] # n /\ i # n /\ t.right[r] \in Node \cup {NULL} /\ i \in Node \cup {NULL}
    BY <1>1, <1>2, <1>3, <1>4 DEF Linked, Ranked
  <2> QED BY <2>1 DEF avl_height, SizeOf, HeightsKept
<1>8. \A m \in M \ {n} : Sound(t.left, t.right, H, m)
  BY DEF SoundAt
<1>9. CASE SizeOf(H, t.right[r]) = h /\ SizeOf(H, i) = h - 1
  <2>1. u = LeftTurned(w, n)
    <3>1. ~(avl_height(w, w.left[r]) >= avl_height(w, w.right[r])) /\ r = w.right[n]
      BY <1>7, <1>9
    <3> QED BY <1>4, <3>1, RotRightLeftForm
  <2> HIDE DEF u
  <2>2. /\ u \in Tree
        /\ TurnsChildren(t.parent, t.left, t.right, u.left, u.right, n, r)
        /\ HeightsKept(w.height, u.height, {n, r})
        /\ Tall(u.left, u.right, u.height, n) /\ Tall(u.left, u.right, u.height, r)
    <3>1. Shape(u, M, R, X) /\ TurnLeft(w, u, n, w.right[n])
      BY <1>4, <2>1, LeftTurnedFields
    <3> QED BY <3>1 DEF Shape, Shaped, TurnLeft, Turn
  <2>3. /\ u.left \in [Node -> Node \cup {NULL}] /\ u.right \in [Node -> Node \cup {NULL}]
        /\ u.height \in [Node -> Nat]
    BY <2>2 DEF Tree
  <2>4. HeightsKept(H, u.height, {n, r})
    BY <2>2 DEF HeightsKept
  <2>5. SizeOf(H, t.left[r]) \in {h - 1, h - 2} /\ \A m \in M \ {n, r} : Sound(t.left, t.right, H, m)
    BY <1>8, <1>9
  <2>6. \A m \in M : Sound(u.left, u.right, u.height, m)
    BY <1>1, <1>2, <1>3, <1>4, <1>9, <2>2, <2>3, <2>4, <2>5, TurnBalances
  <2>7. \A m \in M : SoundAt(u, m)
    BY <2>6 DEF SoundAt
  <2> QED BY <2>7 DEF u
<1>10. CASE SizeOf(H, t.right[r]) = h - 1 /\ SizeOf(H, i) = h
  <2> DEFINE s == RightTurned(w, r)
             H1 == [s.height EXCEPT ![n] = H[n]]
  <2>1. i # NULL
    BY <1>3, <1>4, <1>5, <1>10 DEF SizeOf
  <2>2. i \in M /\ i \in Node /\ t.parent[i] = r /\ H[i] = h
    BY <1>1, <1>4, <1>10, <2>1 DEF Linked, SizeOf
  <2>3. /\ u = LeftTurned(s, n)
        /\ s.right[n] = i /\ s.parent[n] = t.parent[n]
        /\ t.parent[n] # r /\ t.parent[n] # i
    <3>1. avl_height(w, i) >= avl_height(w, w.right[r]) /\ r = w.right[n] /\ i = w.left[r]
      BY <1>7, <1>10
    <3> QED BY <1>4, <2>1, <3>1, RotRightLeftForm
  <2> HIDE DEF u, i
  <2>4. /\ Shape(s, M, R, X)
        /\ TurnsChildren(t.parent, t.right, t.left, s.right, s.left, r, i)
        /\ HeightsKept(w.height, s.height, {r, i})
        /\ Tall(s.right, s.left, s.height, r) /\ Tall(s.right, s.left, s.height, i)
    <3>1. i = w.left[r]
      BY DEF i
    <3>2. Shape(s, M, R, X) /\ TurnRight(w, s, r, w.left[r])
      BY <1>4, <2>1, <3>1, RightTurnedFields DEF s
    <3> QED BY <3>1, <3>2 DEF TurnRight, Turn
  <2> HIDE DEF s
  <2>5. /\ Shape(u, M, R, X)
        /\ TurnsChildren(s.parent, s.left, s.right, u.left, u.right, n, i)
        /\ HeightsKept(s.height, u.height, {n, i})
        /\ Tall(u.left, u.right, u.height, n) /\ Tall(u.left, u.right, u.height, i)
    <3>1. Shape(u, M, R, X) /\ TurnLeft(s, u, n, s.right[n])
      BY <2>1, <2>3, <2>4, LeftTurnedFields
    <3> QED BY <2>3, <3>1 DEF TurnLeft, Turn
  <2>6. /\ s \in Tree /\ u \in Tree /\ Linked(s.root, s.parent, s.right, s.left, M)
        /\ Linked(s.root, s.parent, s.left, s.right, M) /\ \E rk1 : Ranked(s.parent, rk1)
    BY <2>4, <2>5, LinkedMirror DEF Shape, Shaped
  <2>7. PICK rk1 : Ranked(s.parent, rk1)
    BY <2>6
  <2>8. /\ s.left \in [Node -> Node \cup {NULL}] /\ s.right \in [Node -> Node \cup {NULL}]
        /\ u.left \in [Node -> Node \cup {NULL}] /\ u.right \in [Node -> Node \cup {NULL}]
        /\ s.parent \in [Node -> Node \cup {NULL}]
        /\ s.height \in [Node -> Nat] /\ u.height \in [Node -> Nat]
    BY <2>6 DEF Tree
  <2>9. /\ H1 \in [Node -> Nat] /\ H1[n] = H[n]
        /\ \A x \in Node \ {n} : H1[x] = s.height[x]
    BY <1>3, <1>4, <2>8
  <2> HIDE DEF H1
  <2>10. HeightsKept(H, H1, {r, i})
    BY <2>4, <2>9 DEF HeightsKept
  <2>11. HeightsKept(H1, u.height, {n, i})
    BY <2>5, <2>9 DEF HeightsKept
  <2>12. Tall(s.left, s.right, H1, r) /\ Tall(s.left, s.right, H1, i)
    <3>1. s.right[r] # n /\ s.left[r] # n /\ s.right[i] # n /\ s.left[i] # n /\ r # n /\ i # n
      <4>1. r # n /\ i # n
        BY <1>4, <2>2, <2>3
      <4>2. s.parent[n] # r /\ s.parent[n] # i
        BY <2>3
      <4> QED BY <4>1, <4>2, <2>6, <1>4, <2>2 DEF Linked
    <3>2. Tall(s.right, s.left, H1, r) /\ Tall(s.right, s.left, H1, i)
      BY <1>4, <2>2, <2>4, <2>8, <2>9, <3>1 DEF Tall, SizeOf
    <3> QED BY <1>4, <2>2, <2>8, <2>9, <3>2, SoundMirror
  <2>13. /\ Linked(t.root, t.parent, t.left, t.right, M) /\ r \in Node /\ i \in Node
         /\ M \in SUBSET Node /\ H \in [Node -> Nat]
         /\ Linked(s.root, s.parent, s.left, s.right, M)
    BY <1>1, <1>3, <1>4, <2>2, <2>6
  <2>14. LeansIn(t.left, t.right, H, n, r, i, h)
    BY <1>10, <2>2 DEF LeansIn, i
  <2>15. TurnedTwice(t.parent, t.left, t.right, H, s.parent, s.left, s.right, H1,
                     u.left, u.right, u.height, n, r, i)
    BY <2>4, <2>5, <2>10, <2>11, <2>12 DEF TurnedTwice
  <2> HIDE DEF H
  <2>16. \A m \in M : Sound(u.left, u.right, u.height, m)
    BY <1>2, <1>3, <1>8, <2>7, <2>8, <2>9, <2>13, <2>14, <2>15, DoubleBalances
  <2>17. \A m \in M : SoundAt(u, m)
    BY <2>16 DEF SoundAt
  <2> QED BY <2>17 DEF u
<1> QED BY <1>6, <1>9, <1>10

-----------------------------------------------------------------------------
(* avl_fix after an insertion: on the way up every node is sound but the one that is
   next, below which the tree may have grown by one level *)

\* The subtree of m on the side A had h levels when the height of m was stored.  It has
\* one more now, perhaps, and then it is a new node or one of its sides is the higher one.
GrewBy(A, B, H, m, h) ==
  /\ h - SizeOf(H, B[m]) \in -1 .. 1
  /\ H[m] = 1 + Larger(h, SizeOf(H, B[m]))
  /\ \/ SizeOf(H, A[m]) = h
     \/ /\ SizeOf(H, A[m]) = h + 1
        /\ h = 0 \/ SizeOf(H, A[A[m]]) # SizeOf(H, B[A[m]])

GrewOn(A, B, H, m) == \E h \in Nat : GrewBy(A, B, H, m, h)

GrownAt(t, m) ==
  \/ GrewOn(t.left, t.right, t.height, m)
  \/ GrewOn(t.right, t.left, t.height, m)

\* avl_update of a node that has grown and needs no rotation: it is sound, and as high as
\* before or one higher and higher on one side.
Settled(A, B, H, n, a) ==
  /\ a - SizeOf(H, n) \in {0, 1}
  /\ a # SizeOf(H, n) => SizeOf(H, A[n]) # SizeOf(H, B[n])

LEMMA GrownSettles ==
  ASSUME NEW A \in [Node -> Node \cup {NULL}], NEW B \in [Node -> Node \cup {NULL}],
         NEW H \in [Node -> Nat], NEW n \in Node, GrewOn(A, B, H, n),
         NEW a, a = 1 + Larger(SizeOf(H, A[n]), SizeOf(H, B[n])),
         SizeOf(H, A[n]) # SizeOf(H, B[n]) + 2
  PROVE  /\ Settled(A, B, H, n, a)
         /\ SizeOf(H, A[n]) - SizeOf(H, B[n]) \in -1 .. 1
<1> DEFINE c == SizeOf(H, A[n])
           d == SizeOf(H, B[n])
<1>1. PICK h \in Nat : GrewBy(A, B, H, n, h)
  BY DEF GrewOn
<1>2. c \in Nat /\ d \in Nat
  <2>1. A[n] \in Node \cup {NULL} /\ B[n] \in Node \cup {NULL}
    OBVIOUS
  <2> QED BY <2>1 DEF SizeOf
<1>3. /\ h - d \in -1 .. 1 /\ H[n] = 1 + Larger(h, d) /\ (c = h \/ c = h + 1)
      /\ a = 1 + Larger(c, d) /\ c # d + 2
  BY <1>1 DEF GrewBy
<1>4. SizeOf(H, n) = H[n]
  BY NullAssumption DEF SizeOf
<1> HIDE DEF c, d
<1>5. c - d \in -1 .. 1
  BY <1>2, <1>3
<1>6. a - H[n] \in {0, 1} /\ (a # H[n] => c # d)
  BY <1>2, <1>3 DEF Larger
<1> QED BY <1>4, <1>5, <1>6 DEF Settled, c, d

\* The parent p of a node that has settled at the height a.
LEMMA ParentGrew ==
  ASSUME NEW A \in [Node -> Node \cup {NULL}], NEW B \in [Node -> Node \cup {NULL}],
         NEW H \in [Node -> Nat], NEW H2 \in [Node -> Nat],
         NEW n \in Node, NEW p \in Node, A[p] = n, B[p] # n, p # n, A[n] # n, B[n] # n,
         HeightsKept(H, H2, {n}), Settled(A, B, H, n, H2[n]), Sound(A, B, H, p)
  PROVE  GrewOn(A, B, H2, p)
<1> USE NullAssumption
<1> DEFINE h == H[n]
<1>1. SizeOf(H, n) = h /\ SizeOf(H2, n) = H2[n] /\ h \in Nat /\ H2[n] \in Nat
  BY DEF SizeOf
<1>2. \A x \in Node \cup {NULL} : x # n => SizeOf(H2, x) = SizeOf(H, x)
  BY DEF SizeOf, HeightsKept
<1>3. /\ SizeOf(H2, B[p]) = SizeOf(H, B[p]) /\ H2[p] = H[p]
      /\ SizeOf(H2, A[n]) = SizeOf(H, A[n]) /\ SizeOf(H2, B[n]) = SizeOf(H, B[n])
  BY <1>2 DEF HeightsKept
<1>4. H2[n] = h \/ (H2[n] = h + 1 /\ SizeOf(H, A[n]) # SizeOf(H, B[n]))
  BY <1>1 DEF Settled
<1>5. h - SizeOf(H, B[p]) \in -1 .. 1 /\ H[p] = 1 + Larger(h, SizeOf(H, B[p]))
  BY <1>1 DEF Sound, Tall
<1> HIDE DEF h
<1>6. GrewBy(A, B, H2, p, h)
  BY <1>1, <1>3, <1>4, <1>5 DEF GrewBy
<1> QED BY <1>1, <1>6 DEF GrewOn

\* A node that is sound may be said to have grown.
LEMMA SoundGrew ==
  ASSUME NEW t \in Tree, NEW m \in Node, SoundAt(t, m)
  PROVE  GrownAt(t, m)
<1> DEFINE h == SizeOf(t.height, t.left[m])
<1>1. h \in Nat
  BY DEF SizeOf, Tree
<1>2. GrewBy(t.left, t.right, t.height, m, h)
  BY DEF GrewBy, SoundAt, Sound, Tall
<1> HIDE DEF h
<1> QED BY <1>1, <1>2 DEF GrownAt, GrewOn

\* Every node of M is sound but perhaps p, which may have grown.
Rising(t, M, p) ==
  /\ \A m \in M \ {p} : SoundAt(t, m)
  /\ p # NULL => GrownAt(t, p)

\* avl_update is all there is to do at a node that is sound afterwards.
LEMMA UpdateRises ==
  ASSUME NEW R, NEW X, NEW M, NEW t, Shape(t, M, R, X), NEW n \in M,
         NEW w, Shape(w, M, R, X), Updated(t, w, n), SoundAt(w, n),
         Settled(t.left, t.right, t.height, n, w.height[n]),
         \A m \in M \ {n} : SoundAt(t, m)
  PROVE  Rising(w, M, t.parent[n])
<1> USE NullAssumption
<1> DEFINE p == t.parent[n]
<1>1. /\ t \in Tree /\ w \in Tree /\ M \in SUBSET Node
      /\ Linked(t.root, t.parent, t.left, t.right, M)
      /\ \E rk : Ranked(t.parent, rk)
  BY DEF Shape, Shaped
<1>2. PICK rk : Ranked(t.parent, rk)
  BY <1>1
<1>3. /\ t.parent \in [Node -> Node \cup {NULL}]
      /\ t.left \in [Node -> Node \cup {NULL}] /\ t.right \in [Node -> Node \cup {NULL}]
      /\ t.height \in [Node -> Nat] /\ w.height \in [Node -> Nat] /\ n \in Node
  BY <1>1 DEF Tree
<1>0. /\ w.parent = t.parent /\ w.left = t.left /\ w.right = t.right
      /\ HeightsKept(t.height, w.height, {n})
  BY DEF Updated
<1>4. ASSUME NEW m \in M \ {p} PROVE SoundAt(w, m)
  <2>1. CASE m = n
    BY <2>1
  <2>2. CASE m # n
    <3>1. /\ t.left[m] # n /\ t.right[m] # n /\ m \in Node
          /\ t.left[m] \in Node \cup {NULL} /\ t.right[m] \in Node \cup {NULL}
      BY <1>1, <1>3, <1>4 DEF Linked
    <3>2. /\ SizeOf(w.height, t.left[m]) = SizeOf(t.height, t.left[m])
          /\ SizeOf(w.height, t.right[m]) = SizeOf(t.height, t.right[m])
          /\ w.height[m] = t.height[m]
      BY <1>0, <2>2, <3>1 DEF HeightsKept, SizeOf
    <3>3. SoundAt(t, m)
      BY <2>2
    <3> QED BY <1>0, <3>2, <3>3 DEF SoundAt, Sound, Tall
  <2> QED BY <2>1, <2>2
<1>5. ASSUME p # NULL PROVE GrownAt(w, p)
  <2>1. /\ p \in M /\ p \in Node /\ p # n /\ SoundAt(t, p)
        /\ t.left[n] # n /\ t.right[n] # n
        /\ \/ t.left[p] = n /\ t.right[p] # n
           \/ t.right[p] = n /\ t.left[p] # n
    BY <1>1, <1>2, <1>3, <1>5 DEF Linked, Ranked
  <2>2. CASE t.left[p] = n /\ t.right[p] # n
    <3>1. Sound(t.left, t.right, t.height, p)
      BY <2>1 DEF SoundAt
    <3>2. GrewOn(t.left, t.right, w.height, p)
      BY <1>0, <1>3, <2>1, <2>2, <3>1, ParentGrew
    <3> QED BY <1>0, <3>2 DEF GrownAt
  <2>3. CASE t.right[p] = n /\ t.left[p] # n
    <3>1. Sound(t.right, t.left, t.height, p)
      BY <1>3, <2>1, SoundMirror DEF SoundAt
    <3>2. Settled(t.right, t.left, t.height, n, w.height[n])
      BY DEF Settled
    <3>3. GrewOn(t.right, t.left, w.height, p)
      BY <1>0, <1>3, <2>1, <2>3, <3>1, <3>2, ParentGrew
    <3> QED BY <1>0, <3>3 DEF GrownAt
  <2> QED BY <2>1, <2>2, <2>3
<1> QED BY <1>4, <1>5 DEF Rising

\* A node that has grown too high on the side A: the numbers.
LEMMA GrewTwo ==
  ASSUME NEW A \in [Node -> Node \cup {NULL}], NEW B \in [Node -> Node \cup {NULL}],
         NEW H \in [Node -> Nat], NEW n \in Node,
         GrewOn(A, B, H, n) \/ GrewOn(B, A, H, n), SizeOf(H, A[n]) = SizeOf(H, B[n]) + 2
  PROVE  \E h \in Nat : Leans(A, B, H, n, h)
<1> DEFINE c == SizeOf(H, A[n])
           d == SizeOf(H, B[n])
<1>1. c \in Nat /\ d \in Nat /\ c = d + 2
  <2>1. A[n] \in Node \cup {NULL} /\ B[n] \in Node \cup {NULL}
    OBVIOUS
  <2> QED BY <2>1 DEF SizeOf
<1>2. ASSUME GrewOn(B, A, H, n) PROVE FALSE
  <2>1. PICK h \in Nat : GrewBy(B, A, H, n, h)
    BY <1>2 DEF GrewOn
  <2>2. h - c \in -1 .. 1 /\ (d = h \/ d = h + 1)
    BY <2>1 DEF GrewBy
  <2> HIDE DEF c, d
  <2> QED BY <1>1, <2>2
<1>3. PICK h \in Nat : GrewBy(A, B, H, n, h)
  BY <1>2 DEF GrewOn
<1>4. /\ h - d \in -1 .. 1 /\ H[n] = 1 + Larger(h, d)
      /\ c = h \/ (c = h + 1 /\ (h = 0 \/ SizeOf(H, A[A[n]]) # SizeOf(H, B[A[n]])))
  BY <1>3 DEF GrewBy
<1> DEFINE Lopsided == SizeOf(H, A[A[n]]) # SizeOf(H, B[A[n]])
<1>5. c = h \/ (c = h + 1 /\ (h = 0 \/ Lopsided))
  BY <1>4
<1>6. h - d \in -1 .. 1 /\ H[n] = 1 + Larger(h, d)
  BY <1>4
<1> HIDE DEF c, d, Lopsided
<1>7. c = h + 1 /\ d = h - 1 /\ h # 0 /\ H[n] = h + 1
  BY <1>1, <1>5, <1>6 DEF Larger
<1>8. Lopsided
  BY <1>1, <1>5, <1>7
<1> QED BY <1>7, <1>8 DEF Leans, c, d, Lopsided

\* One iteration of avl_fix at a node that has grown: its parent may have grown now.
LEMMA FixAtRises ==
  ASSUME NEW R, NEW X, Ordered(R, X), NEW M, NEW t, Shape(t, M, R, X),
         NEW n \in M, Rising(t, M, n), NEW u, u = FixAt(t, n), Shape(u, M, R, X)
  PROVE  Rising(u, M, t.parent[n])
<1> USE NullAssumption
<1> DEFINE w == avl_update(t, n)
           p == t.parent[n]
           H == t.height
<1>1. /\ t \in Tree /\ M \in SUBSET Node /\ n \in Node
      /\ Linked(t.root, t.parent, t.left, t.right, M)
      /\ \E rk : Ranked(t.parent, rk)
  BY DEF Shape, Shaped
<1>2. PICK rk : Ranked(t.parent, rk)
  BY <1>1
<1>3. /\ t.left \in [Node -> Node \cup {NULL}] /\ t.right \in [Node -> Node \cup {NULL}]
      /\ t.height \in [Node -> Nat] /\ t.parent[n] \in Node \cup {NULL}
      /\ t.left[n] \in Node \cup {NULL} /\ t.right[n] \in Node \cup {NULL}
  BY <1>1 DEF Tree
<1>4. /\ w \in Tree
      /\ w.root = t.root /\ w.parent = t.parent /\ w.left = t.left /\ w.right = t.right
      /\ \A x \in Node \ {n} : w.height[x] = t.height[x] /\ w.cnt[x] = t.cnt[x]
      /\ w.height[n] = 1 + Larger(SizeOf(t.height, t.left[n]), SizeOf(t.height, t.right[n]))
  BY <1>1, UpdateFields
<1>5. FixAt(t, n) = IF avl_height(w, w.left[n]) = avl_height(w, w.right[n]) + 2
                    THEN Replace(rot_left_right(w, n), w.parent[n], n, rot_left_right(w, n).parent[n])
                    ELSE IF avl_height(w, w.right[n]) = avl_height(w, w.left[n]) + 2
                    THEN Replace(rot_right_left(w, n), w.parent[n], n, rot_right_left(w, n).parent[n])
                    ELSE w
  BY <1>4 DEF FixAt
<1> HIDE DEF w
<1>6. Shape(w, M, R, X)
  BY <1>4, SamePointers
<1>7. Updated(t, w, n)
  BY <1>4 DEF Updated, HeightsKept
<1>8. /\ t.left[n] # n /\ t.right[n] # n
      /\ avl_height(w, w.left[n]) = SizeOf(H, t.left[n])
      /\ avl_height(w, w.right[n]) = SizeOf(H, t.right[n])
  <2>1. t.left[n] # n /\ t.right[n] # n
    BY <1>1, <1>2 DEF Linked, Ranked
  <2> QED BY <1>3, <1>4, <2>1 DEF avl_height, SizeOf
<1>9. /\ \A m \in M \ {n} : SoundAt(t, m)
      /\ GrownAt(t, n)
  BY <1>1 DEF Rising
<1>10. GrewOn(t.left, t.right, H, n) \/ GrewOn(t.right, t.left, H, n)
  BY <1>9 DEF GrownAt
<1>11. ASSUME \A m \in M : SoundAt(u, m) PROVE Rising(u, M, p)
  <2>1. (p # NULL => p \in M /\ p \in Node) /\ u \in Tree
    BY <1>1 DEF Linked, Shape, Shaped
  <2> QED BY <1>11, <2>1, SoundGrew DEF Rising
<1>12. CASE SizeOf(H, t.left[n]) = SizeOf(H, t.right[n]) + 2
  <2>1. PICK h \in Nat : Leans(t.left, t.right, H, n, h)
    BY <1>1, <1>3, <1>10, <1>12, GrewTwo
  <2> DEFINE v == rot_left_right(w, n)
             z == Replace(v, w.parent[n], n, v.parent[n])
  <2>2. u = z
    BY <1>5, <1>8, <1>12
  <2>3. \A m \in M : SoundAt(z, m)
    BY <1>6, <1>7, <1>9, <2>1, LeftHeavyBalances
  <2> QED BY <1>11, <2>2, <2>3
<1>13. CASE SizeOf(H, t.right[n]) = SizeOf(H, t.left[n]) + 2
  <2>1. PICK h \in Nat : Leans(t.right, t.left, H, n, h)
    BY <1>1, <1>3, <1>10, <1>13, GrewTwo
  <2> DEFINE v == rot_right_left(w, n)
             z == Replace(v, w.parent[n], n, v.parent[n])
  <2>2. u = z
    <3>1. SizeOf(H, t.left[n]) # SizeOf(H, t.right[n]) + 2
      BY <2>1 DEF Leans
    <3> QED BY <1>5, <1>8, <1>13, <3>1
  <2>3. \A m \in M : SoundAt(z, m)
    BY <1>6, <1>7, <1>9, <2>1, RightHeavyBalances
  <2> QED BY <1>11, <2>2, <2>3
<1>14. CASE /\ SizeOf(H, t.left[n]) # SizeOf(H, t.right[n]) + 2
            /\ SizeOf(H, t.right[n]) # SizeOf(H, t.left[n]) + 2
  <2>1. u = w
    BY <1>5, <1>8, <1>14
  <2>2. SizeOf(H, t.left[n]) \in Nat /\ SizeOf(H, t.right[n]) \in Nat
    BY <1>3 DEF SizeOf
  <2>3. w.height[n] = 1 + Larger(SizeOf(H, t.right[n]), SizeOf(H, t.left[n]))
    BY <1>4, <2>2 DEF Larger
  <2>4. /\ Settled(t.left, t.right, H, n, w.height[n])
        /\ SizeOf(H, t.left[n]) - SizeOf(H, t.right[n]) \in -1 .. 1
    <3>1. CASE GrewOn(t.left, t.right, H, n)
      BY <1>1, <1>3, <1>4, <1>14, <3>1, GrownSettles
    <3>2. CASE GrewOn(t.right, t.left, H, n)
      <4>1. /\ Settled(t.right, t.left, H, n, w.height[n])
            /\ SizeOf(H, t.right[n]) - SizeOf(H, t.left[n]) \in -1 .. 1
        BY <1>1, <1>3, <1>14, <2>3, <3>2, GrownSettles
      <4> QED BY <2>2, <4>1 DEF Settled
    <3> QED BY <1>10, <3>1, <3>2
  <2>5. SoundAt(w, n)
    <3>1. /\ SizeOf(w.height, t.left[n]) = SizeOf(H, t.left[n])
          /\ SizeOf(w.height, t.right[n]) = SizeOf(H, t.right[n])
      BY <1>4, <1>8 DEF avl_height, SizeOf
    <3> QED BY <1>4, <2>4, <3>1 DEF SoundAt, Sound, Tall
  <2> QED BY <1>4, <1>6, <1>7, <1>9, <2>1, <2>4, <2>5, UpdateRises
<1> QED BY <1>12, <1>13, <1>14

\* n is a new leaf below p, on the side A, and p is sound if n is not counted.
HangsFrom(A, B, H, n, p) ==
  /\ A[p] = n /\ B[p] # n
  /\ SizeOf(H, B[p]) \in 0 .. 1
  /\ H[p] = 1 + SizeOf(H, B[p])

Hangs(t, M, n) ==
  /\ t.left[n] = NULL /\ t.right[n] = NULL
  /\ \A m \in M \ {n, t.parent[n]} : SoundAt(t, m)
  /\ t.parent[n] # NULL =>
       \/ HangsFrom(t.left, t.right, t.height, n, t.parent[n])
       \/ HangsFrom(t.right, t.left, t.height, n, t.parent[n])

LEMMA HungGrew ==
  ASSUME NEW A, NEW B \in [Node -> Node \cup {NULL}], NEW H, NEW H2, NEW n \in Node,
         NEW p \in Node, p # n, HangsFrom(A, B, H, n, p), HeightsKept(H, H2, {n}), H2[n] = 1
  PROVE  GrewOn(A, B, H2, p)
<1>1. SizeOf(H2, B[p]) = SizeOf(H, B[p]) /\ H2[p] = H[p]
  BY NullAssumption DEF HeightsKept, SizeOf, HangsFrom
<1>2. SizeOf(H2, A[p]) = 1
  BY NullAssumption DEF SizeOf, HangsFrom
<1> DEFINE b == SizeOf(H, B[p])
<1>3. b \in 0 .. 1 /\ H2[p] = 1 + b /\ SizeOf(H2, B[p]) = b
  BY <1>1 DEF HangsFrom
<1> HIDE DEF b
<1>4. 0 - b \in -1 .. 1 /\ H2[p] = 1 + Larger(0, b)
  BY <1>3 DEF Larger
<1>5. GrewBy(A, B, H2, p, 0)
  BY <1>2, <1>3, <1>4 DEF GrewBy
<1> QED BY <1>5 DEF GrewOn

\* The first iteration after an insertion, at the new node.
LEMMA FixLeafRises ==
  ASSUME NEW R, NEW X, NEW M, NEW t, Shape(t, M, R, X), NEW n \in M, Hangs(t, M, n)
  PROVE  Rising(FixAt(t, n), M, t.parent[n])
<1> USE NullAssumption
<1> DEFINE w == avl_update(t, n)
           p == t.parent[n]
           H == t.height
<1>1. /\ t \in Tree /\ M \in SUBSET Node /\ n \in Node
      /\ Linked(t.root, t.parent, t.left, t.right, M)
      /\ \E rk : Ranked(t.parent, rk)
  BY DEF Shape, Shaped
<1>2. PICK rk : Ranked(t.parent, rk)
  BY <1>1
<1>3. /\ t.left \in [Node -> Node \cup {NULL}] /\ t.right \in [Node -> Node \cup {NULL}]
      /\ p # NULL => p \in M /\ p \in Node /\ p # n
  BY <1>1, <1>2 DEF Tree, Linked, Ranked
<1>4. /\ w \in Tree /\ w.parent = t.parent /\ w.left = t.left /\ w.right = t.right
      /\ \A x \in Node \ {n} : w.height[x] = t.height[x] /\ w.cnt[x] = t.cnt[x]
      /\ w.height[n] = 1 + Larger(SizeOf(t.height, t.left[n]), SizeOf(t.height, t.right[n]))
  BY <1>1, UpdateFields
<1>5. t.left[n] = NULL /\ t.right[n] = NULL
  BY DEF Hangs
<1>6. w.height[n] = 1
  BY <1>4, <1>5 DEF SizeOf, Larger
<1>7. FixAt(t, n) = w
  <2>1. w.left[n] = NULL /\ w.right[n] = NULL
    BY <1>4, <1>5
  <2> QED BY <2>1 DEF FixAt, avl_height
<1> HIDE DEF w
<1>8. HeightsKept(H, w.height, {n})
  BY <1>4 DEF HeightsKept
<1>9. ASSUME NEW m \in M \ {p} PROVE SoundAt(w, m)
  <2>1. CASE m = n
    BY <1>4, <1>5, <1>6, <2>1 DEF SoundAt, Sound, Tall, SizeOf, Larger
  <2>2. CASE m # n
    <3>1. /\ t.left[m] # n /\ t.right[m] # n /\ m \in Node
          /\ t.left[m] \in Node \cup {NULL} /\ t.right[m] \in Node \cup {NULL}
      BY <1>1, <1>3, <1>9 DEF Linked
    <3>2. /\ SizeOf(w.height, t.left[m]) = SizeOf(t.height, t.left[m])
          /\ SizeOf(w.height, t.right[m]) = SizeOf(t.height, t.right[m])
          /\ w.height[m] = t.height[m]
      BY <1>4, <2>2, <3>1 DEF SizeOf
    <3>3. SoundAt(t, m)
      BY <1>9, <2>2 DEF Hangs
    <3> QED BY <1>4, <3>2, <3>3 DEF SoundAt, Sound, Tall
  <2> QED BY <2>1, <2>2
<1>10. ASSUME p # NULL PROVE GrownAt(w, p)
  <2>1. CASE HangsFrom(t.left, t.right, H, n, p)
    BY <1>1, <1>3, <1>4, <1>6, <1>8, <1>10, <2>1, HungGrew DEF GrownAt
  <2>2. CASE HangsFrom(t.right, t.left, H, n, p)
    BY <1>1, <1>3, <1>4, <1>6, <1>8, <1>10, <2>2, HungGrew DEF GrownAt
  <2> QED BY <1>10, <2>1, <2>2 DEF Hangs
<1> QED BY <1>7, <1>9, <1>10 DEF Rising

\* avl_fix, begun at a new leaf, leaves every node sound.
LEMMA FixBalances ==
  ASSUME NEW R, NEW X, Ordered(R, X), NEW M, NEW t, Shape(t, M, R, X),
         NEW n \in M, ExactOff(t, M, {n, t.parent[n]}), Hangs(t, M, n)
  PROVE  \A m \in M : SoundAt(avl_fix(t, n), m)
<1> USE NullAssumption
<1>1. PICK s, f : /\ Repairs(t, M, n, s, f)
                  /\ \A i \in 0 .. Len(s) : Repaired(t, f[i], M, R, X, s, i)
  BY FixRepairs
<1> DEFINE L == Len(s)
           up(i) == IF i < L THEN s[i + 1] ELSE NULL
           T == {k \in Nat : k + 1 <= L => Rising(f[k + 1], M, up(k + 1))}
<1>2. /\ s \in Seq(Node) /\ L \in Nat /\ L >= 1 /\ s[1] = n /\ f[0] = t
      /\ avl_fix(t, n) = f[L]
      /\ \A i \in 1 .. L : s[i] \in M /\ f[i] = FixAt(f[i - 1], s[i])
  BY <1>1 DEF Repairs
<1>3. \A i \in 0 .. L : Shape(f[i], M, R, X)
  BY <1>1 DEF Repaired
<1>4. ASSUME NEW i \in 1 .. L PROVE t.parent[s[i]] = up(i)
  <2>1. CASE i = L
    BY <1>1, <1>2, <2>1 DEF Repairs
  <2>2. CASE i # L
    <3>1. i \in 1 .. L - 1 /\ i < L
      BY <1>2, <2>2
    <3> QED BY <1>1, <3>1 DEF Repairs
  <2> QED BY <2>1, <2>2
<1>5. ASSUME NEW i \in 1 .. L PROVE f[i - 1].parent[s[i]] = up(i)
  <2>1. i - 1 \in 0 .. L /\ i \in (i - 1) + 1 .. L
    BY <1>2
  <2>2. f[i - 1].parent[s[i]] = t.parent[s[i]]
    BY <1>1, <2>1 DEF Repaired
  <2> QED BY <1>4, <2>2
<1> HIDE DEF L, up
<1>6. 0 \in T
  <2>1. 1 \in 1 .. L /\ 1 - 1 = 0 /\ 0 + 1 = 1
    BY <1>2
  <2>2. Rising(FixAt(t, n), M, t.parent[n])
    BY FixLeafRises
  <2>3. f[1] = FixAt(t, n) /\ t.parent[n] = up(1)
    BY <1>2, <1>4, <2>1
  <2> QED BY <2>1, <2>2, <2>3
<1>7. ASSUME NEW k \in Nat, k \in T PROVE k + 1 \in T
  <2> SUFFICES ASSUME (k + 1) + 1 <= L PROVE Rising(f[(k + 1) + 1], M, up((k + 1) + 1))
    OBVIOUS
  <2> DEFINE j == k + 1
             g == f[j]
             m == s[j + 1]
  <2>1. j \in 0 .. L /\ j + 1 \in 1 .. L /\ j + 1 \in 0 .. L /\ j <= L /\ j < L /\ (j + 1) - 1 = j
    BY <1>2
  <2>2. Rising(g, M, up(j))
    BY <1>7, <2>1
  <2>3. up(j) = m
    BY <2>1 DEF up
  <2>4. f[j + 1] = FixAt(g, m) /\ m \in M /\ g.parent[m] = up(j + 1)
    BY <1>2, <1>5, <2>1
  <2>5. Shape(g, M, R, X) /\ Shape(f[j + 1], M, R, X)
    BY <1>3, <2>1
  <2> HIDE DEF g, m, j
  <2>6. Rising(f[j + 1], M, g.parent[m])
    BY <2>2, <2>3, <2>4, <2>5, FixAtRises
  <2>7. Rising(f[j + 1], M, up(j + 1))
    BY <2>4, <2>6
  <2> QED BY <2>7 DEF j
<1>8. Rising(f[L], M, NULL)
  <2> HIDE DEF T
  <2>1. Nat \subseteq T
    BY <1>6, <1>7, Induction
  <2>2. L - 1 \in Nat /\ L - 1 \in T /\ (L - 1) + 1 = L /\ L <= L
    BY <1>2, <2>1
  <2>3. up(L) = NULL
    BY <1>2 DEF up
  <2> QED BY <2>2, <2>3 DEF T
<1>9. NULL \notin M
  BY DEF Shape, Shaped
<1> QED BY <1>2, <1>8, <1>9 DEF Rising

-----------------------------------------------------------------------------
(* Insertion into a balanced tree *)

\* A sound node that gets a child on a side on which it had none.
LEMMA SoundHolds ==
  ASSUME NEW A \in [Node -> Node \cup {NULL}], NEW B \in [Node -> Node \cup {NULL}],
         NEW H \in [Node -> Nat], NEW n, NEW p \in Node, Sound(A, B, H, p), A[p] = NULL,
         NEW A2, A2[p] = n, B[p] # n
  PROVE  HangsFrom(A2, B, H, n, p)
<1> DEFINE b == SizeOf(H, B[p])
<1>1. b \in Nat
  <2>1. B[p] \in Node \cup {NULL}
    OBVIOUS
  <2> QED BY <2>1 DEF SizeOf
<1>2. H[p] = 1 + Larger(0, b) /\ 0 - b \in -1 .. 1
  BY DEF Sound, Tall, SizeOf
<1> HIDE DEF b
<1>3. b \in 0 .. 1 /\ H[p] = 1 + b
  BY <1>1, <1>2 DEF Larger
<1> QED BY <1>3 DEF HangsFrom, b

\* A new node linked to the left of p.
LEMMA LinkLeftHangs ==
  ASSUME NEW R, NEW X, NEW M, NEW t, Shape(t, M, R, X), Clean(t, M),
         NEW p \in M, t.left[p] = NULL, NEW n \in Node \ M, \A m \in M : SoundAt(t, m)
  PROVE  Hangs([t EXCEPT !.left[p] = n, !.parent[n] = p], M \cup {n}, n)
<1> DEFINE u == [t EXCEPT !.left[p] = n, !.parent[n] = p]
<1>1. t \in Tree /\ M \in SUBSET Node /\ Linked(t.root, t.parent, t.left, t.right, M)
  BY DEF Shape, Shaped
<1>2. /\ t.parent \in [Node -> Node \cup {NULL}] /\ t.height \in [Node -> Nat]
      /\ t.left \in [Node -> Node \cup {NULL}] /\ t.right \in [Node -> Node \cup {NULL}]
  BY <1>1 DEF Tree
<1>3. /\ u.right = t.right /\ u.height = t.height
      /\ u.parent = [t.parent EXCEPT ![n] = p] /\ u.left = [t.left EXCEPT ![p] = n]
  BY <1>1 DEF Tree
<1> HIDE DEF u
<1>4. p \in Node /\ p # n /\ p # NULL /\ t.right[p] # n
  BY <1>1, NullAssumption DEF Linked
<1>5. u.parent[n] = p /\ u.left[n] = NULL /\ u.right[n] = NULL
  BY <1>2, <1>3, <1>4 DEF Clean
<1>6. \A m \in M \ {p} : SoundAt(u, m)
  BY <1>1, <1>2, <1>3 DEF SoundAt, Sound, Tall
<1>7. HangsFrom(u.left, u.right, u.height, n, p)
  BY <1>2, <1>3, <1>4, SoundHolds DEF SoundAt
<1> QED BY <1>5, <1>6, <1>7 DEF Hangs, u

\* The mirror image: to the right of p.
LEMMA LinkRightHangs ==
  ASSUME NEW R, NEW X, NEW M, NEW t, Shape(t, M, R, X), Clean(t, M),
         NEW p \in M, t.right[p] = NULL, NEW n \in Node \ M, \A m \in M : SoundAt(t, m)
  PROVE  Hangs([t EXCEPT !.right[p] = n, !.parent[n] = p], M \cup {n}, n)
<1> DEFINE u == [t EXCEPT !.right[p] = n, !.parent[n] = p]
<1>1. t \in Tree /\ M \in SUBSET Node /\ Linked(t.root, t.parent, t.left, t.right, M)
  BY DEF Shape, Shaped
<1>2. /\ t.parent \in [Node -> Node \cup {NULL}] /\ t.height \in [Node -> Nat]
      /\ t.left \in [Node -> Node \cup {NULL}] /\ t.right \in [Node -> Node \cup {NULL}]
  BY <1>1 DEF Tree
<1>3. /\ u.left = t.left /\ u.height = t.height
      /\ u.parent = [t.parent EXCEPT ![n] = p] /\ u.right = [t.right EXCEPT ![p] = n]
  BY <1>1 DEF Tree
<1> HIDE DEF u
<1>4. p \in Node /\ p # n /\ p # NULL /\ t.left[p] # n
  BY <1>1, NullAssumption DEF Linked
<1>5. u.parent[n] = p /\ u.left[n] = NULL /\ u.right[n] = NULL
  BY <1>2, <1>3, <1>4 DEF Clean
<1>6. \A m \in M \ {p} : SoundAt(u, m)
  BY <1>1, <1>2, <1>3 DEF SoundAt, Sound, Tall
<1>7. Sound(t.right, t.left, t.height, p)
  BY <1>2, <1>4, SoundMirror DEF SoundAt
<1>8. HangsFrom(u.right, u.left, u.height, n, p)
  BY <1>2, <1>3, <1>4, <1>7, SoundHolds
<1> QED BY <1>5, <1>6, <1>8 DEF Hangs, u

\* A node that is linked under p, where a search for it would look, and the repairs.
LEMMA UnderBalances ==
  ASSUME NEW R, NEW X, Ordered(R, X), NEW M, NEW t, NEW K, NEW rk, Shaped(t, M, R, X, K, rk),
         Clean(t, M), ExactOff(t, M, {}), t.root # NULL,
         NEW n \in Node \ M, NEW above, NEW p, Ends(t, above, p), p \in M, n \in K[p],
         p \in above => t.left[p] = NULL /\ <<n, p>> \in R,
         p \notin above => t.right[p] = NULL /\ <<p, n>> \in R,
         \A m \in M : SoundAt(t, m)
  PROVE  \A m \in M \cup {n} : SoundAt(avl_insert(t, n, above), m)
<1> USE NullAssumption
<1> DEFINE N == M \cup {n}
<1>1. t \in Tree /\ p \in Node /\ n \in Node /\ n \in N /\ Shape(t, M, R, X)
  BY DEF Shaped, Shape
<1>2. CASE p \in above
  <2> DEFINE w == [t EXCEPT !.left[p] = n, !.parent[n] = p]
  <2>1. avl_insert(t, n, above) = avl_fix(w, n)
    BY <1>1, <1>2 DEF avl_insert, Tree, Ends
  <2>2. t.left[p] = NULL /\ <<n, p>> \in R
    BY <1>2
  <2>3. /\ Shape(w, M \cup {n}, R, X)
        /\ w.parent[n] = p
        /\ ExactOff(w, M \cup {n}, {n, p})
        /\ \A x \in Node \ (M \cup {n}) : SameFields(t, w, x)
    BY <2>2, LinkLeft
  <2>4. Hangs(w, N, n)
    BY <1>1, <2>2, LinkLeftHangs
  <2> HIDE DEF w
  <2>5. Shape(w, N, R, X) /\ ExactOff(w, N, {n, w.parent[n]})
    BY <2>3
  <2> HIDE DEF N
  <2>6. \A m \in N : SoundAt(avl_fix(w, n), m)
    BY <1>1, <2>4, <2>5, FixBalances
  <2> QED BY <2>1, <2>6 DEF N
<1>3. CASE p \notin above
  <2> DEFINE w == [t EXCEPT !.right[p] = n, !.parent[n] = p]
  <2>1. avl_insert(t, n, above) = avl_fix(w, n)
    BY <1>1, <1>3 DEF avl_insert, Tree, Ends
  <2>2. t.right[p] = NULL /\ <<p, n>> \in R
    BY <1>3
  <2>3. /\ Shape(w, M \cup {n}, R, X)
        /\ w.parent[n] = p
        /\ ExactOff(w, M \cup {n}, {n, p})
        /\ \A x \in Node \ (M \cup {n}) : SameFields(t, w, x)
    BY <2>2, LinkRight
  <2>4. Hangs(w, N, n)
    BY <1>1, <2>2, LinkRightHangs
  <2> HIDE DEF w
  <2>5. Shape(w, N, R, X) /\ ExactOff(w, N, {n, w.parent[n]})
    BY <2>3
  <2> HIDE DEF N
  <2>6. \A m \in N : SoundAt(avl_fix(w, n), m)
    BY <1>1, <2>4, <2>5, FixBalances
  <2> QED BY <2>1, <2>6 DEF N
<1> QED BY <1>2, <1>3

\* Insertion into a tree in which every node is sound.
LEMMA InsertBalances ==
  ASSUME NEW R, NEW X, Ordered(R, X), NEW M, NEW t, Shape(t, M, R, X), Clean(t, M),
         ExactOff(t, M, {}), NEW n \in Node \ M, n \in X, NEW above, Sorts(R, M, n, above),
         \A m \in M : SoundAt(t, m)
  PROVE  \A m \in M \cup {n} : SoundAt(avl_insert(t, n, above), m)
<1> USE NullAssumption
<1>1. CASE t.root = NULL
  <2> DEFINE w == [t EXCEPT !.root = n, !.parent[n] = NULL]
  <2>1. /\ M = {}
        /\ Shape(w, {n}, R, X)
        /\ ExactOff(w, {n}, {n, w.parent[n]})
    BY <1>1, FirstNode
  <2>2. t \in Tree
    BY DEF Shape, Shaped
  <2>3. w.left[n] = NULL /\ w.right[n] = NULL /\ w.parent[n] = NULL
    BY <2>2 DEF Clean, Tree
  <2>4. avl_insert(t, n, above) = avl_fix(w, n)
    BY <1>1 DEF avl_insert
  <2> HIDE DEF w
  <2>5. Hangs(w, {n}, n)
    BY <2>3 DEF Hangs
  <2>6. n \in {n} /\ M \cup {n} = {n}
    BY <2>1
  <2> QED BY <2>1, <2>4, <2>5, <2>6, FixBalances
<1>2. CASE t.root # NULL
  <2>1. PICK J, rk : Shaped(t, M, R, X, J, rk)
    BY DEF Shape
  <2>2. \E K : Shaped(t, M, R, X, K, rk) /\ Widest(t, K, R, M)
    <3>1. X \subseteq X /\ \A x, y \in X : <<x, y>> \in R => <<x, y>> \in R
      OBVIOUS
    <3> QED BY <2>1, <3>1, Widen
  <2>3. PICK K : Shaped(t, M, R, X, K, rk) /\ Widest(t, K, R, M)
    BY <2>2
  <2> DEFINE p == Below(t, above)
  <2>4. /\ p \in M /\ n \in K[p]
        /\ p \in above => t.left[p] = NULL
        /\ p \notin above => t.right[p] = NULL
    BY <1>2, <2>3, BelowFinds
  <2>5. Ends(t, above, p)
    BY DEF Ends
  <2> HIDE DEF p
  <2>6. /\ p \in above => t.left[p] = NULL /\ <<n, p>> \in R
        /\ p \notin above => t.right[p] = NULL /\ <<p, n>> \in R
    BY <2>4 DEF Sorts
  <2>7. Shaped(t, M, R, X, K, rk)
    BY <2>3
  <2> QED BY <1>2, <2>4, <2>5, <2>6, <2>7, UnderBalances
<1> QED BY <1>1, <1>2

\* What Balanced says of a tree with exact heights.
LEMMA BalancedIsSound ==
  ASSUME IInv
  PROVE  Balanced <=> \A m \in members : SoundAt(tree, m)
<1>1. \A m \in members : Tall(tree.left, tree.right, tree.height, m)
  BY DEF IInv, ExactOff, Exactly, Exact, Tall
<1>2. \A x : avl_height(tree, x) = SizeOf(tree.height, x)
  BY DEF avl_height, SizeOf
<1> QED BY <1>1, <1>2 DEF Balanced, SoundAt, Sound

LEMMA BalanceKept ==
  ASSUME IInv, Balanced, NEW n \in Node, Insert(n)
  PROVE  Balanced'
<1> DEFINE above == {m \in members : Less(n, m)}
           u == avl_insert(tree, n, above)
<1>1. /\ Shape(tree, members, Before, Node)
      /\ ExactOff(tree, members, {})
      /\ Clean(tree, members)
      /\ members \in SUBSET Node
  BY DEF IInv, Shape, Shaped
<1>2. /\ Ordered(Before, Node)
      /\ \A x, y \in Node : <<x, y>> \in Before <=> x < y
      /\ \A x, y \in Node : x = y \/ x < y \/ y < x
  BY BeforeOrdered DEF Ordered
<1>3. /\ n \in Node \ members
      /\ \A m \in members : m \in above => <<n, m>> \in Before
      /\ \A m \in members : m \notin above => <<m, n>> \in Before
  BY <1>1, <1>2 DEF Insert, Less
<1>4. tree' = u /\ members' = members \cup {n}
  BY DEF Insert
<1>5. \A m \in members : SoundAt(tree, m)
  BY BalancedIsSound
<1> HIDE DEF above
<1>6. Sorts(Before, members, n, above)
  BY <1>3 DEF Sorts
<1>7. \A m \in members \cup {n} : SoundAt(u, m)
  BY <1>1, <1>2, <1>3, <1>5, <1>6, InsertBalances
<1> HIDE DEF u
<1>8. \A x : avl_height(u, x) = SizeOf(u.height, x)
  BY DEF avl_height, SizeOf
<1> QED BY <1>4, <1>7, <1>8 DEF Balanced, SoundAt, Sound

\* An insertion into a balanced tree leaves it balanced, wherever the new node goes and
\* whatever deletions there were before (AVLTree::avl_insert and avl_fix, avl.cpp).
THEOREM InsertionsKeepBalance == Spec => InsertKeepsBalanced
<1> DEFINE Kept == (\E n \in Node \ members : members' = members \cup {n}) /\ Balanced => Balanced'
<1>1. IInv /\ [Next]_vars => [Kept]_vars
  <2> SUFFICES ASSUME IInv, Next, Balanced,
                      NEW n \in Node \ members, members' = members \cup {n}
               PROVE  Balanced'
    BY DEF Kept
  <2>1. PICK k \in Node : Insert(k) \/ Delete(k) \/ DeleteAndFree(k)
    BY DEF Next
  <2>2. members' # members \ {k}
    OBVIOUS
  <2>3. Insert(k)
    BY <2>1, <2>2 DEF Delete, DeleteAndFree
  <2> QED BY <2>3, BalanceKept
<1> QED BY <1>1, Invariant, PTL DEF Spec, InsertKeepsBalanced

\* A tree to which nodes are only added is balanced at all times; only a deletion can
\* leave it otherwise.
THEOREM GrowingBalanced ==
  Init /\ [][\E n \in Node : Insert(n)]_vars => []Balanced
<1>1. Init => IInv /\ Balanced
  <2> SUFFICES ASSUME Init PROVE IInv /\ Balanced
    OBVIOUS
  <2>1. IInv
    BY InitInv
  <2> QED BY <2>1 DEF Init, Balanced
<1>2. IInv /\ Balanced /\ [\E n \in Node : Insert(n)]_vars => (IInv /\ Balanced)'
  <2> SUFFICES ASSUME IInv, Balanced, [\E n \in Node : Insert(n)]_vars PROVE (IInv /\ Balanced)'
    OBVIOUS
  <2>1. [Next]_vars
    BY DEF Next
  <2>2. IInv'
    BY <2>1, InvInductive
  <2>3. CASE \E n \in Node : Insert(n)
    BY <2>2, <2>3, BalanceKept
  <2>4. CASE UNCHANGED vars
    BY <2>2, <2>4 DEF vars, Balanced
  <2> QED BY <2>2, <2>3, <2>4
<1> QED BY <1>1, <1>2, PTL
=============================================================================
