------------------------------ MODULE AvlTree ------------------------------
(***************************************************************************)
(* A tree used the way a sorted set uses it: nodes that are not in it are  *)
(* inserted, nodes that are in it are deleted, in any order.  The nodes    *)
(* are numbers, ordered by <.                                              *)
(***************************************************************************)
EXTENDS Avl, FiniteSets

CONSTANT MaxOutside     \* bound: nodes outside the tree that are not as new

ASSUME NodeAssumption == Node \subseteq Nat

VARIABLES tree,
          members    \* the nodes in the tree; the hash map of the set knows

vars == <<tree, members>>

Less(a, b) == a < b

Init ==
  /\ tree = EmptyTree
  /\ members = {}

Insert(n) ==
  /\ n \notin members
  /\ tree' = avl_insert(tree, n, {m \in members : Less(n, m)})
  /\ members' = members \cup {n}

\* The nodes that were deleted and have the height and the count they had.
Outside == {n \in Node \ members : tree.height[n] # 1 \/ tree.cnt[n] # 1}

\* The caller keeps the node, to insert it again (zadd keeps one at a time).
Delete(n) ==
  /\ n \in members
  /\ Cardinality(Outside) < MaxOutside
  /\ tree' = avl_delete_(tree, n)
  /\ members' = members \ {n}

\* What a new node has in its fields.
Renewed(t, n) ==
  [t EXCEPT !.parent[n] = NULL, !.left[n] = NULL, !.right[n] = NULL,
            !.height[n] = 1, !.cnt[n] = 1]

\* avl_delete looks for the node, and leaves its fields as they are: for a node that is
\* freed then, so that what is inserted later is a new one.
DeleteAndFree(n) ==
  LET t == avl_delete(tree, n, {m \in members : Less(n, m)})
  IN  /\ tree' = IF n \in members THEN Renewed(t, n) ELSE t
      /\ members' = members \ {n}

Next == \E n \in Node : Insert(n) \/ Delete(n) \/ DeleteAndFree(n)

Spec == Init /\ [][Next]_vars
-----------------------------------------------------------------------------
\* The type of every field of every node.
TypeOK ==
  /\ tree \in Tree
  /\ members \subseteq Node

\* The children of a node.
Children(n) == {tree.left[n], tree.right[n]} \ {NULL}

\* Every rotation and replacement has mended all the pointers it touched: each
\* node but the root is a child of its parent and of no other node, and a node
\* that was deleted points at nothing and nothing points at it.
LinksAgree ==
  /\ \A n \in Node : \A c \in Children(n) : tree.parent[c] = n
  /\ \A n \in members \ {tree.root} :
       tree.parent[n] \in members /\ n \in Children(tree.parent[n])
  /\ \A n \in Node : tree.left[n] = tree.right[n] => tree.left[n] = NULL
  /\ \A n \in Node \ members : Children(n) = {} /\ tree.parent[n] = NULL
  /\ tree.root # NULL => tree.parent[tree.root] = NULL
  /\ (tree.root = NULL) = (members = {})

\* Read in order the tree is its members, sorted, each exactly once.
InOrder ==
  LET sorted == avl_inorder(tree)
  IN  /\ Range(sorted) = members
      /\ \A i, j \in DOMAIN sorted : i < j => sorted[i] < sorted[j]

\* The height and the number of nodes of the subtree of n, as they are.
TrueSize(n) ==
  LET below[m \in Node \cup {NULL}] ==
        IF m = NULL THEN [height |-> 0, cnt |-> 0]
        ELSE LET l == below[tree.left[m]]
                 r == below[tree.right[m]]
             IN  [height |-> 1 + Larger(l.height, r.height), cnt |-> 1 + l.cnt + r.cnt]
  IN  below[n]

\* The heights and counts stored in the nodes are never stale, although one
\* operation changes them along a whole path and rotates on the way.
SizesAreExact ==
  \A n \in members : TrueSize(n) = [height |-> tree.height[n], cnt |-> tree.cnt[n]]

\* avl_rank, which climbs, and avl_range_by_rank, which descends and prunes,
\* both agree with the position in sorted order, for ranges that begin or end
\* outside the tree too.
RanksAgree ==
  LET sorted == avl_inorder(tree)
      size == Len(sorted)
  IN  /\ \A i \in 1 .. size : avl_rank(tree, sorted[i]) = i
      /\ \A lo, hi \in -1 .. size + 1 :
           avl_range_by_rank(tree, lo, hi)
             = SubSeq(sorted, Larger(lo, 1), IF hi < size THEN hi ELSE size)

\* The heights of the two subtrees of a node differ by at most one
\* (README.md, "AVLTree: self-balancing binary search tree").  A deletion can end that
\* (avl_fix chooses the double rotation for two grandchildren of one height).
Balanced ==
  \A n \in members :
    avl_height(tree, tree.left[n]) - avl_height(tree, tree.right[n]) \in -1 .. 1

\* Only a deletion ends it: whatever deletions a balanced tree has behind it, a node
\* that is added leaves it balanced, by the rotations of avl_fix along the path.
InsertKeepsBalanced ==
  [][(\E n \in Node \ members : members' = members \cup {n}) /\ Balanced => Balanced']_vars

\* From every node avl_offset finds the one that many places behind it, or NULL behind
\* the last one, although it climbs over nodes in front of it whose distance is
\* negative and is added to an unsigned count (avl.cpp:123-134).
OffsetForward ==
  LET sorted == avl_inorder(tree)
  IN  \A i \in DOMAIN sorted : \A d \in 0 .. Len(sorted) :
        avl_offset(tree, sorted[i], d) = IF i + d \in DOMAIN sorted THEN sorted[i + d] ELSE NULL
=============================================================================
