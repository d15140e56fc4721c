-------------------------------- MODULE Avl --------------------------------
(***************************************************************************)
(* class AVLTree (avl.h, avl.cpp): what its functions do to the nodes.     *)
(*                                                                         *)
(* A tree is a record: the root pointer and, for each field of AVLNode,    *)
(* the value it has in every node.  Nodes are intrusive, so a node that is *)
(* in no tree has its fields too.  The loops that climb from a node to the *)
(* root follow the path between them, which no rotation on the way changes; *)
(* they and the descents are recursive functions.                          *)
(***************************************************************************)
EXTENDS Integers, Sequences, SequencesExt

CONSTANTS Node,    \* the nodes that can be linked into the tree
          NULL     \* the null pointer

ASSUME NullAssumption == NULL \notin Node

\* The values of the fields of a tree and its nodes.
Tree ==
  [root: Node \cup {NULL}, parent: [Node -> Node \cup {NULL}],
   left: [Node -> Node \cup {NULL}], right: [Node -> Node \cup {NULL}],
   height: [Node -> Nat \ {0}], cnt: [Node -> Nat \ {0}]]

\* AVLTree() and AVLNode(): no root; unlinked nodes of height and count 1.
EmptyTree ==
  [root   |-> NULL,
   parent |-> [n \in Node |-> NULL],
   left   |-> [n \in Node |-> NULL],
   right  |-> [n \in Node |-> NULL],
   height |-> [n \in Node |-> 1],
   cnt    |-> [n \in Node |-> 1]]

avl_height(t, n) == IF n = NULL THEN 0 ELSE t.height[n]

avl_cnt(t, n) == IF n = NULL THEN 0 ELSE t.cnt[n]

Larger(a, b) == IF a > b THEN a ELSE b

avl_update(t, n) ==
  [t EXCEPT
    !.height[n] = 1 + Larger(avl_height(t, t.left[n]), avl_height(t, t.right[n])),
    !.cnt[n]    = 1 + avl_cnt(t, t.left[n]) + avl_cnt(t, t.right[n])]

\* if (n) n->parent = p
SetParent(t, n, p) == IF n = NULL THEN t ELSE [t EXCEPT !.parent[n] = p]

\* *from = m, where from is the pointer to n in its parent p, or root.
Replace(t, p, n, m) ==
  IF p = NULL THEN [t EXCEPT !.root = m]
  ELSE IF t.left[p] = n THEN [t EXCEPT !.left[p] = m]
  ELSE [t EXCEPT !.right[p] = m]

-----------------------------------------------------------------------------
(* Rotations.  Each leaves the pointer to n in its parent to the caller.   *)

\* Mutant: the node that changes sides keeps its old parent.
rot_left_ParentStays(t, n) ==
  LET r == t.right[n]
      turned == [t EXCEPT !.right[n] = t.left[r], !.left[r] = n,
                          !.parent[n] = r, !.parent[r] = t.parent[n]]
  IN  avl_update(avl_update(turned, n), r)

rot_left(t, n) ==
  LET r == t.right[n]
      inner == t.left[r]
      turned == [t EXCEPT !.right[n] = inner, !.left[r] = n,
                          !.parent[n] = r, !.parent[r] = t.parent[n]]
  IN  avl_update(avl_update(SetParent(turned, inner, n), n), r)

rot_right(t, n) ==
  LET l == t.left[n]
      inner == t.right[l]
      turned == [t EXCEPT !.left[n] = inner, !.right[l] = n,
                          !.parent[n] = l, !.parent[l] = t.parent[n]]
  IN  avl_update(avl_update(SetParent(turned, inner, n), n), l)

\* Mutant: the single rotation, whichever grandchild is the higher one.
rot_left_right_Single(t, n) == rot_right(t, n)

rot_left_right(t, n) ==
  LET l == t.left[n]
      inner == t.right[l]
  IN  IF avl_height(t, t.left[l]) <= avl_height(t, inner)
      THEN rot_right([rot_left(t, l) EXCEPT !.left[n] = inner], n)
      ELSE rot_right(t, n)

rot_right_left(t, n) ==
  LET r == t.right[n]
      inner == t.left[r]
  IN  IF avl_height(t, inner) >= avl_height(t, t.right[r])
      THEN rot_left([rot_right(t, r) EXCEPT !.right[n] = inner], n)
      ELSE rot_left(t, n)

-----------------------------------------------------------------------------
(* avl_fix *)

\* One iteration: only a difference of exactly two is repaired.  After a
\* rotation the parent of n is the new root of its subtree.
FixAt(t, n) ==
  LET p == t.parent[n]
      u == avl_update(t, n)
      Lh == avl_height(u, u.left[n])
      Rh == avl_height(u, u.right[n])
      Relinked(v) == Replace(v, p, n, v.parent[n])
  IN  IF Lh = Rh + 2 THEN Relinked(rot_left_right(u, n))
      ELSE IF Rh = Lh + 2 THEN Relinked(rot_right_left(u, n))
      ELSE u

\* The nodes from n to the root.
Path(t, n) ==
  LET up[m \in Node] ==
        IF t.parent[m] = NULL THEN <<m>> ELSE <<m>> \o up[t.parent[m]]
  IN  up[n]

\* The tree when the first i nodes of the path have been repaired, for all of them.
avl_fix(t, n) ==
  LET path == Path(t, n)
      fixed[i \in 0 .. Len(path)] == IF i = 0 THEN t ELSE FixAt(fixed[i - 1], path[i])
  IN  fixed[Len(path)]

-----------------------------------------------------------------------------
(* Insertion and deletion *)

\* Where a new node is linked: under the node at which the descent ends that goes
\* left at the nodes it is less than, those above it in the order.
Below(t, above) ==
  LET seek[m \in Node] ==
        LET child == IF m \in above THEN t.left[m] ELSE t.right[m]
        IN  IF child = NULL THEN m ELSE seek[child]
  IN  seek[t.root]

avl_insert(t, n, above) ==
  IF t.root = NULL
  THEN avl_fix([t EXCEPT !.root = n, !.parent[n] = NULL], n)
  ELSE LET p == Below(t, above)
           linked == IF p \in above THEN [t EXCEPT !.left[p] = n]
                                   ELSE [t EXCEPT !.right[p] = n]
       IN  avl_fix([linked EXCEPT !.parent[n] = p], n)

\* Mutant: the height is that of no node.
Unlinked_HeightZero(t, n) ==
  [t EXCEPT !.parent[n] = NULL, !.left[n] = NULL, !.right[n] = NULL,
            !.height[n] = 0]

\* What is left in a node that has been deleted; cnt keeps its last value.
Unlinked(t, n) ==
  [t EXCEPT !.parent[n] = NULL, !.left[n] = NULL, !.right[n] = NULL,
            !.height[n] = 1]

\* Deletion of a node that has at most one child.
avl_del(t, n) ==
  LET only_child == IF t.left[n] # NULL THEN t.left[n] ELSE t.right[n]
      p == t.parent[n]
      bypassed == Replace(SetParent(t, only_child, p), p, n, only_child)
  IN  IF p = NULL THEN Unlinked(bypassed, n)
      ELSE Unlinked(avl_fix(bypassed, p), n)

\* Mutant: the right child, which need not be the smallest node there.
Successor_RightChild(t, n) == t.right[n]

\* The smallest node right of n.
Successor(t, n) ==
  LET leftmost[m \in Node] == IF t.left[m] = NULL THEN m ELSE leftmost[t.left[m]]
  IN  leftmost[t.right[n]]

\* Mutant: the successor keeps the height and count of its old place.
Substituted_NoUpdate(t, n) ==
  LET s == Successor(t, n)
      u == avl_del(t, s)
      moved == [u EXCEPT !.parent[s] = u.parent[n],
                         !.left[s] = u.left[n], !.right[s] = u.right[n]]
      adopted == SetParent(SetParent(moved, moved.left[s], s), moved.right[s], s)
  IN  Replace(adopted, u.parent[n], n, s)

\* The successor of n, deleted from its own place, takes the place of n.
Substituted(t, n) ==
  LET s == Successor(t, n)
      u == avl_del(t, s)
      moved == [u EXCEPT !.parent[s] = u.parent[n],
                         !.left[s] = u.left[n], !.right[s] = u.right[n]]
      adopted == SetParent(SetParent(moved, moved.left[s], s), moved.right[s], s)
  IN  Replace(avl_update(adopted, s), u.parent[n], n, s)

HasTwo(t, n) == t.left[n] # NULL /\ t.right[n] # NULL

avl_delete_(t, n) ==
  IF HasTwo(t, n) THEN Unlinked(Substituted(t, n), n) ELSE avl_del(t, n)

\* The node that is neither less nor greater than n; less than those above it.
avl_find(t, n, above) ==
  LET seek[m \in Node \cup {NULL}] ==
        IF m \in {n, NULL} THEN m
        ELSE seek[IF m \in above THEN t.left[m] ELSE t.right[m]]
  IN  seek[t.root]

\* Of a node with two children the pointers are left as they were.
avl_delete(t, n, above) ==
  IF avl_find(t, n, above) = NULL THEN t
  ELSE IF HasTwo(t, n) THEN Substituted(t, n) ELSE avl_del(t, n)

-----------------------------------------------------------------------------
(* Queries *)

\* Mutant: the parent of a right child is not counted.
avl_rank_ForgetsParent(t, n) ==
  LET before[m \in Node] ==
        LET p == t.parent[m]
        IN  IF p = NULL THEN 0
            ELSE before[p] + (IF m = t.right[p] THEN avl_cnt(t, t.left[p]) ELSE 0)
  IN  avl_cnt(t, t.left[n]) + 1 + before[n]

avl_rank(t, n) ==
  LET before[m \in Node] ==      \* what the climb from m on adds
        LET p == t.parent[m]
        IN  IF p = NULL THEN 0
            ELSE before[p] + (IF m = t.right[p] THEN avl_cnt(t, t.left[p]) + 1 ELSE 0)
  IN  avl_cnt(t, t.left[n]) + 1 + before[n]

avl_inorder(t) ==
  LET walk[m \in Node \cup {NULL}] ==
        IF m = NULL THEN << >> ELSE walk[t.left[m]] \o <<m>> \o walk[t.right[m]]
  IN  walk[t.root]

\* collect_in_range hands current_rank from call to call; the nodes behind
\* max_rank are not visited.
avl_range_by_rank(t, min_rank, max_rank) ==
  LET collect[m \in Node \cup {NULL}] == [current_rank \in Int |->
        IF m = NULL \/ current_rank > max_rank
        THEN [rank |-> current_rank, nodes |-> << >>]
        ELSE LET l == collect[t.left[m]][current_rank]
                 here == IF min_rank <= l.rank /\ l.rank <= max_rank THEN <<m>> ELSE << >>
                 r == IF l.rank + 1 <= max_rank THEN collect[t.right[m]][l.rank + 1]
                      ELSE [rank |-> l.rank + 1, nodes |-> << >>]
             IN  [rank |-> r.rank, nodes |-> l.nodes \o here \o r.nodes]]
  IN  IF min_rank > max_rank \/ t.root = NULL THEN << >>
      ELSE collect[t.root][1].nodes

\* a <= b for 32-bit integers compared as unsigned: a negative one is larger
\* than every other.
UnsignedLeq(a, b) == IF (a < 0) = (b < 0) THEN a <= b ELSE b < 0

\* The null pointer is dereferenced.
Crash == "crash"

\* Mutant: on the way up from a left child the parent itself is not counted.
avl_offset_ForgetsParent(t, n, offset) ==
  LET seek[m \in Node \cup {NULL}] == [pos \in Int |->
        IF offset = pos THEN m
        ELSE IF m = NULL THEN Crash
        ELSE LET l == t.left[m]
                 r == t.right[m]
                 p == t.parent[m]
             IN  IF pos < offset /\ UnsignedLeq(offset, pos + avl_cnt(t, r))
                 THEN IF r = NULL THEN Crash ELSE seek[r][pos + avl_cnt(t, t.left[r]) + 1]
                 ELSE IF pos > offset /\ UnsignedLeq(pos - avl_cnt(t, l), offset)
                 THEN IF l = NULL THEN Crash ELSE seek[l][pos - avl_cnt(t, t.right[l]) - 1]
                 ELSE IF p = NULL THEN NULL
                 ELSE IF t.left[p] = m THEN seek[p][pos + avl_cnt(t, r)]
                 ELSE seek[p][pos - avl_cnt(t, l) - 1]]
  IN  seek[n][0]

\* avl_cnt is unsigned, so both sums are compared with offset as unsigned.
avl_offset(t, n, offset) ==
  LET seek[m \in Node \cup {NULL}] == [pos \in Int |->
        IF offset = pos THEN m
        ELSE IF m = NULL THEN Crash
        ELSE LET l == t.left[m]
                 r == t.right[m]
                 p == t.parent[m]
             IN  IF pos < offset /\ UnsignedLeq(offset, pos + avl_cnt(t, r))
                 THEN IF r = NULL THEN Crash ELSE seek[r][pos + avl_cnt(t, t.left[r]) + 1]
                 ELSE IF pos > offset /\ UnsignedLeq(pos - avl_cnt(t, l), offset)
                 THEN IF l = NULL THEN Crash ELSE seek[l][pos - avl_cnt(t, t.right[l]) - 1]
                 ELSE IF p = NULL THEN NULL
                 ELSE IF t.left[p] = m THEN seek[p][pos + avl_cnt(t, r) + 1]
                 ELSE seek[p][pos - avl_cnt(t, l) - 1]]
  IN  seek[n][0]
=============================================================================
