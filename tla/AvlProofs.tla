----------------------------- MODULE AvlProofs -----------------------------
(***************************************************************************)
(* What the functions of Avl do to a tree that is well formed, for any set *)
(* of nodes and any order on them: rotations and the way up; insertion and *)
(* deletion, that the descents end where they should and that one tree     *)
(* comes from the other; and what a walk of the tree and the queries by    *)
(* rank and by offset find in it.                                          *)
(*                                                                         *)
(* A tree is described field by field (root, P for parent, A and B for the *)
(* two children), so that one proof about A and B stands for a rotation    *)
(* and for its mirror image.                                               *)
(***************************************************************************)
EXTENDS Avl, DataLemmas

\* The children of a node of the tree have it as their parent; every node but the
\* root is a child of its parent.
Linked(root, P, A, B, M) ==
  /\ (root = NULL) = (M = {})
  /\ root # NULL => root \in M /\ P[root] = NULL
  /\ \A m \in M : A[m] \in M \cup {NULL} /\ B[m] \in M \cup {NULL}
  /\ \A m \in M : A[m] = B[m] => A[m] = NULL
  /\ \A m \in M : A[m] # NULL => P[A[m]] = m
  /\ \A m \in M : B[m] # NULL => P[B[m]] = m
  /\ \A m \in M \ {root} : P[m] \in M /\ (A[P[m]] = m \/ B[P[m]] = m)

\* rk grows on every way down, up to some bound: there is no cycle.
Ranked(P, rk) ==
  /\ rk \in [Node -> Nat]
  /\ \E b \in Nat : \A x \in Node : rk[x] <= b
  /\ \A m \in Node : P[m] # NULL => rk[P[m]] < rk[m]

\* R is a strict order on X, and a total one.
Ordered(R, X) ==
  /\ \A x \in X : <<x, x>> \notin R
  /\ \A x, y, z \in X : <<x, y>> \in R /\ <<y, z>> \in R => <<x, z>> \in R
  /\ \A x, y \in X : x = y \/ <<x, y>> \in R \/ <<y, x>> \in R

\* J[m] holds what a search that has come to m may still be looking for: what is
\* less than m on the side A, what is greater on the side B.
Sided(root, A, B, J, R, X, M) ==
  /\ J \in [Node -> SUBSET X]
  /\ root # NULL => J[root] = X
  /\ \A m \in M : m \in J[m]
  /\ \A m \in M : A[m] # NULL => \A x \in J[A[m]] : x \in J[m] /\ <<x, m>> \in R
  /\ \A m \in M : B[m] # NULL => \A x \in J[B[m]] : x \in J[m] /\ <<m, x>> \in R

SizeOf(H, x) == IF x = NULL THEN 0 ELSE H[x]

\* The height and the count of m are those its children give.
Exact(A, B, H, C, m) ==
  /\ H[m] = 1 + Larger(SizeOf(H, A[m]), SizeOf(H, B[m]))
  /\ C[m] = 1 + SizeOf(C, A[m]) + SizeOf(C, B[m])

ExactBut(A, B, H, C, M, W) == \A m \in M \ W : Exact(A, B, H, C, m)

\* Only the sizes of the nodes in Z are others.
SizesKept(H, C, H2, C2, Z) == \A x \in Node \ Z : H2[x] = H[x] /\ C2[x] = C[x]

-----------------------------------------------------------------------------
(* A rotation: r, a child of n, takes its place, n becomes the other child *)
(* of r and takes over the child of r that was there.                      *)

\* The parents after the rotation; i is the child that is taken over, if there is one.
TurnsParents(P, P2, n, r, i) ==
  \A x \in Node : P2[x] = IF x = n THEN r ELSE IF x = r THEN P[n]
                          ELSE IF x = i THEN n ELSE P[x]

\* The children after it, when the pointer to n in its parent is mended.
TurnsChildren(P, A, B, A2, B2, n, r) ==
  /\ \A x \in Node : A2[x] = IF x = r THEN n
                             ELSE IF x = P[n] /\ A[x] = n THEN r ELSE A[x]
  /\ \A x \in Node : B2[x] = IF x = n THEN A[r]
                             ELSE IF x = P[n] /\ B[x] = n THEN r ELSE B[x]

\* What a rotation makes of the links.
LEMMA TurnLinked ==
  ASSUME NEW root, NEW M \in SUBSET Node,
         NEW P \in [Node -> Node \cup {NULL}], NEW A \in [Node -> Node \cup {NULL}],
         NEW B \in [Node -> Node \cup {NULL}],
         NEW P2 \in [Node -> Node \cup {NULL}], NEW A2 \in [Node -> Node \cup {NULL}],
         NEW B2 \in [Node -> Node \cup {NULL}],
         Linked(root, P, A, B, M), NEW rk, Ranked(P, rk),
         NEW n \in M, NEW r \in Node, r = B[n],
         TurnsParents(P, P2, n, r, A[r]),
         TurnsChildren(P, A, B, A2, B2, n, r)
  PROVE  Linked(IF P[n] = NULL THEN r ELSE root, P2, A2, B2, M)
<1> USE NullAssumption DEF TurnsParents, TurnsChildren
<1>1. r \in M /\ P[r] = n /\ r # n
  BY DEF Linked, Ranked
<1>2. P[n] # NULL => P[n] \in M /\ P[n] # r /\ P[n] # n
  BY <1>1 DEF Linked, Ranked
<1>3. A[r] # NULL => A[r] \in M /\ P[A[r]] = r /\ A[r] # r /\ A[r] # n /\ A[r] # P[n]
  BY <1>1 DEF Linked, Ranked
<1>4. P[n] = NULL <=> n = root
  BY DEF Linked
<1>5. \A m \in M : A2[m] \in M \cup {NULL} /\ B2[m] \in M \cup {NULL}
  BY <1>1, <1>3 DEF Linked
<1>6. \A m \in M : A2[m] = B2[m] => A2[m] = NULL
  BY <1>1, <1>2, <1>3 DEF Linked
<1>7. \A m \in M : A2[m] # NULL => P2[A2[m]] = m
  BY <1>1, <1>2, <1>3 DEF Linked
<1>8. \A m \in M : B2[m] # NULL => P2[B2[m]] = m
  BY <1>1, <1>2, <1>3 DEF Linked
<1>9. \A m \in M \ {IF P[n] = NULL THEN r ELSE root} :
         P2[m] \in M /\ (A2[P2[m]] = m \/ B2[P2[m]] = m)
  BY <1>1, <1>2, <1>3, <1>4 DEF Linked
<1>10. LET top == IF P[n] = NULL THEN r ELSE root
       IN  (top = NULL) = (M = {}) /\ (top # NULL => top \in M /\ P2[top] = NULL)
  BY <1>1, <1>2, <1>3, <1>4 DEF Linked
<1> QED BY <1>5, <1>6, <1>7, <1>8, <1>9, <1>10 DEF Linked

\* The rank after a rotation: n has come to be one lower than r, in the place of which
\* it was.
Turned(rk, n, r) ==
  [x \in Node |-> IF x = n THEN 2 * rk[n] + 1 ELSE IF x = r THEN 2 * rk[n] ELSE 2 * rk[x]]

LEMMA TurnRanked ==
  ASSUME NEW P \in [Node -> Node \cup {NULL}], NEW P2 \in [Node -> Node \cup {NULL}],
         NEW rk, Ranked(P, rk),
         NEW n \in Node, NEW r \in Node, P[r] = n, NEW i, i # NULL => i \in Node /\ P[i] = r,
         TurnsParents(P, P2, n, r, i)
  PROVE  Ranked(P2, Turned(rk, n, r))
<1> USE NullAssumption DEF TurnsParents
<1> DEFINE s == Turned(rk, n, r)
<1>1. rk \in [Node -> Nat] /\ \A m \in Node : P[m] # NULL => rk[P[m]] < rk[m]
  BY DEF Ranked
<1>2. PICK b \in Nat : \A x \in Node : rk[x] <= b
  BY DEF Ranked
<1>3. s \in [Node -> Nat]
  BY <1>1 DEF Turned
<1>4. \A x \in Node : s[x] = IF x = n THEN 2 * rk[n] + 1 ELSE IF x = r THEN 2 * rk[n]
                             ELSE 2 * rk[x]
  BY DEF Turned
<1>5. 2 * b + 1 \in Nat /\ \A x \in Node : s[x] <= 2 * b + 1
  BY <1>1, <1>2, <1>4
<1>6. ASSUME NEW m \in Node, P2[m] # NULL PROVE s[P2[m]] < s[m]
  <2> HIDE DEF s
  <2>1. rk[n] < rk[r] /\ (i # NULL => rk[r] < rk[i])
    BY <1>1
  <2>2. CASE m \in {n, r, i}
    BY <1>1, <1>4, <1>6, <2>1, <2>2
  <2>3. CASE m \notin {n, r, i}
    <3>1. P2[m] = P[m] /\ P[m] \in Node /\ rk[P[m]] < rk[m] /\ rk[P[m]] \in Nat /\ rk[m] \in Nat
      BY <1>1, <1>6, <2>3
    <3> QED BY <1>1, <1>4, <2>1, <2>3, <3>1
  <2> QED BY <2>2, <2>3
<1> QED BY <1>3, <1>5, <1>6 DEF Ranked

\* What a search may be looking for at n and at r after a rotation.
TurnedSides(J, R, n, r) ==
  [x \in Node |-> IF x = n THEN {y \in J[n] : <<y, r>> \in R}
                  ELSE IF x = r THEN J[n] ELSE J[x]]

LEMMA TurnSided ==
  ASSUME NEW root, NEW M \in SUBSET Node, NEW R, NEW X, Ordered(R, X), NEW J,
         NEW P \in [Node -> Node \cup {NULL}], NEW A \in [Node -> Node \cup {NULL}],
         NEW B \in [Node -> Node \cup {NULL}],
         NEW A2 \in [Node -> Node \cup {NULL}], NEW B2 \in [Node -> Node \cup {NULL}],
         Linked(root, P, A, B, M), NEW rk, Ranked(P, rk), Sided(root, A, B, J, R, X, M),
         NEW n \in M, NEW r \in Node, r = B[n],
         TurnsChildren(P, A, B, A2, B2, n, r)
  PROVE  Sided(IF P[n] = NULL THEN r ELSE root, A2, B2, TurnedSides(J, R, n, r), R, X, M)
<1> USE NullAssumption DEF TurnsChildren
<1> DEFINE K == TurnedSides(J, R, n, r)
<1>1. r \in M /\ P[r] = n /\ r # n
  BY DEF Linked, Ranked
<1>2. P[n] # NULL => P[n] \in M /\ P[n] # r /\ P[n] # n
  BY <1>1 DEF Linked, Ranked
<1>3. A[r] # NULL => A[r] \in M /\ P[A[r]] = r /\ A[r] # r /\ A[r] # n
  BY <1>1 DEF Linked, Ranked
<1>4. \A x \in Node : K[x] = IF x = n THEN {y \in J[n] : <<y, r>> \in R}
                             ELSE IF x = r THEN J[n] ELSE J[x]
  BY DEF TurnedSides
<1>5. K \in [Node -> SUBSET X]
  BY DEF TurnedSides, Sided
<1> HIDE DEF K
<1>6. \A m \in M : J[m] \subseteq X /\ m \in X /\ m \in J[m]
  BY DEF Sided
<1>7. r \in J[n] /\ <<n, r>> \in R
  BY <1>1 DEF Sided
<1>8. \A m \in M : m \in K[m]
  BY <1>1, <1>4, <1>6, <1>7
<1>9. \A m \in M \ {n, r} : (A[m] # NULL => A[m] # r) /\ (B[m] # NULL => B[m] # r)
                            /\ (A[m] = n => m = P[n]) /\ (B[m] = n => m = P[n])
  BY <1>1 DEF Linked
<1>10. A[n] # NULL => A[n] \in M /\ A[n] # n /\ A[n] # r
  BY <1>1 DEF Linked, Ranked
<1>11. B[r] # NULL => B[r] \in M /\ B[r] # n /\ B[r] # r
  BY <1>1 DEF Linked, Ranked
<1>12. \A x, y, z \in X : <<x, y>> \in R /\ <<y, z>> \in R => <<x, z>> \in R
  BY DEF Ordered
<1>13. ASSUME NEW m \in M, A[m] # NULL, NEW x \in J[A[m]] PROVE x \in J[m] /\ <<x, m>> \in R
  BY <1>13 DEF Sided
<1>14. ASSUME NEW m \in M, B[m] # NULL, NEW x \in J[B[m]] PROVE x \in J[m] /\ <<m, x>> \in R
  BY <1>14 DEF Sided
<1>15. ASSUME NEW m \in M, A2[m] # NULL, NEW x \in K[A2[m]]
       PROVE  x \in K[m] /\ <<x, m>> \in R
  <2>1. CASE m = r
    BY <1>1, <1>4, <1>15, <2>1
  <2>2. CASE m = n
    <3>1. A2[m] = A[n] /\ K[A[n]] = J[A[n]]
      BY <1>1, <1>2, <1>4, <1>10, <1>15, <2>2
    <3>2. x \in J[n] /\ <<x, n>> \in R
      BY <1>13, <1>15, <2>2, <3>1
    <3>3. <<x, r>> \in R
      BY <1>1, <1>6, <1>7, <1>12, <3>2
    <3>4. K[n] = {y \in J[n] : <<y, r>> \in R}
      BY <1>4
    <3> QED BY <2>2, <3>2, <3>3, <3>4
  <2>3. CASE m \notin {n, r} /\ A[m] = n
    <3>1. m = P[n] /\ A2[m] = r
      BY <1>9, <2>3
    <3>2. K[r] = J[n] /\ K[m] = J[m]
      BY <1>1, <1>4, <2>3
    <3> QED BY <1>13, <1>15, <2>3, <3>1, <3>2
  <2>4. CASE m \notin {n, r} /\ A[m] # n
    <3>1. A2[m] = A[m]
      BY <2>4
    <3>2. A[m] \in Node \ {n, r}
      BY <1>9, <1>15, <2>4, <3>1
    <3>3. K[A[m]] = J[A[m]] /\ K[m] = J[m]
      BY <1>4, <2>4, <3>2
    <3> QED BY <1>13, <1>15, <3>1, <3>2, <3>3
  <2> QED BY <2>1, <2>2, <2>3, <2>4
<1>16. ASSUME NEW m \in M, B2[m] # NULL, NEW x \in K[B2[m]]
       PROVE  x \in K[m] /\ <<m, x>> \in R
  <2>1. CASE m = r
    <3>1. B2[m] = B[r] /\ K[B[r]] = J[B[r]]
      BY <1>1, <1>2, <1>4, <1>11, <1>16, <2>1
    <3>2. x \in J[r] /\ <<r, x>> \in R
      BY <1>1, <1>14, <1>16, <2>1, <3>1
    <3>3. x \in J[n]
      BY <1>1, <1>14, <3>2
    <3> QED BY <1>1, <1>4, <2>1, <3>2, <3>3
  <2>2. CASE m = n
    <3>1. B2[m] = A[r] /\ K[A[r]] = J[A[r]]
      BY <1>1, <1>3, <1>4, <1>16, <2>2
    <3>2. x \in J[r] /\ <<x, r>> \in R
      BY <1>1, <1>13, <1>16, <2>2, <3>1
    <3>3. x \in J[n] /\ <<n, x>> \in R
      BY <1>1, <1>14, <3>2
    <3> QED BY <1>4, <2>2, <3>2, <3>3
  <2>3. CASE m \notin {n, r} /\ B[m] = n
    <3>1. m = P[n] /\ B2[m] = r
      BY <1>9, <2>3
    <3>2. K[r] = J[n] /\ K[m] = J[m]
      BY <1>1, <1>4, <2>3
    <3> QED BY <1>14, <1>16, <2>3, <3>1, <3>2
  <2>4. CASE m \notin {n, r} /\ B[m] # n
    <3>1. B2[m] = B[m]
      BY <2>4
    <3>2. B[m] \in Node \ {n, r}
      BY <1>9, <1>16, <2>4, <3>1
    <3>3. K[B[m]] = J[B[m]] /\ K[m] = J[m]
      BY <1>4, <2>4, <3>2
    <3> QED BY <1>14, <1>16, <3>1, <3>2, <3>3
  <2> QED BY <2>1, <2>2, <2>3, <2>4
<1>17. K[IF P[n] = NULL THEN r ELSE root] = X
  <2>1. root \in Node /\ P[root] = NULL /\ root # r /\ J[root] = X
    BY <1>1 DEF Linked, Sided
  <2>2. CASE n = root
    BY <1>1, <1>4, <2>1, <2>2
  <2>3. CASE n # root
    <3>1. P[n] # NULL
      BY <2>3 DEF Linked
    <3> QED BY <1>4, <2>1, <2>3, <3>1
  <2> QED BY <2>2, <2>3
<1> QED BY <1>5, <1>8, <1>15, <1>16, <1>17 DEF Sided, K

\* A rotation that brings the height and the count of n and then of r up to date
\* leaves every other node exact, but perhaps the parent of n.
LEMMA TurnExact ==
  ASSUME NEW root, NEW M \in SUBSET Node, NEW W,
         NEW P \in [Node -> Node \cup {NULL}], NEW A \in [Node -> Node \cup {NULL}],
         NEW B \in [Node -> Node \cup {NULL}],
         NEW A2 \in [Node -> Node \cup {NULL}], NEW B2 \in [Node -> Node \cup {NULL}],
         Linked(root, P, A, B, M), NEW rk, Ranked(P, rk),
         NEW n \in M, NEW r \in Node, r = B[n], P[n] # NULL => P[n] \in W,
         NEW H, NEW C, NEW H2, NEW C2,
         TurnsChildren(P, A, B, A2, B2, n, r),
         SizesKept(H, C, H2, C2, {n, r}),
         Exact(A2, B2, H2, C2, n), Exact(A2, B2, H2, C2, r),
         ExactBut(A, B, H, C, M, W \cup {n})
  PROVE  ExactBut(A2, B2, H2, C2, M, W)
<1> USE NullAssumption DEF TurnsChildren
<1> SUFFICES ASSUME NEW m \in M \ W PROVE Exact(A2, B2, H2, C2, m)
  BY DEF ExactBut
<1>1. r \in M /\ P[r] = n
  BY DEF Linked
<1>2. CASE m \in {n, r}
  BY <1>2
<1>3. CASE m \notin {n, r}
  <2>1. A2[m] = A[m] /\ B2[m] = B[m]
    BY <1>3
  <2>2. A[m] \notin {n, r} /\ B[m] \notin {n, r}
    BY <1>1, <1>3 DEF Linked
  <2>3. (A[m] # NULL => A[m] \in Node) /\ (B[m] # NULL => B[m] \in Node)
    OBVIOUS
  <2>4. H2[m] = H[m] /\ C2[m] = C[m]
    BY <1>3 DEF SizesKept
  <2> QED BY <1>3, <2>1, <2>2, <2>3, <2>4 DEF Exact, ExactBut, SizesKept, SizeOf
<1> QED BY <1>2, <1>3

-----------------------------------------------------------------------------
(* The same of trees that are records *)

Exactly(t, m) == Exact(t.left, t.right, t.height, t.cnt, m)

ExactOff(t, M, W) == \A m \in M \ W : Exactly(t, m)

\* J and rk show that t is a search tree for R of the nodes in M.
Shaped(t, M, R, X, J, rk) ==
  /\ t \in Tree
  /\ M \in SUBSET Node
  /\ Linked(t.root, t.parent, t.left, t.right, M)
  /\ Ranked(t.parent, rk)
  /\ Sided(t.root, t.left, t.right, J, R, X, M)

Shape(t, M, R, X) == \E J, rk : Shaped(t, M, R, X, J, rk)

\* Node x has the same in all its fields.
SameFields(t, u, x) ==
  /\ u.parent[x] = t.parent[x] /\ u.left[x] = t.left[x] /\ u.right[x] = t.right[x]
  /\ u.height[x] = t.height[x] /\ u.cnt[x] = t.cnt[x]

\* avl_update writes the two sizes of one node.
LEMMA UpdateFields ==
  ASSUME NEW t \in Tree, NEW n \in Node
  PROVE  LET u == avl_update(t, n)
         IN  /\ u \in Tree
             /\ u.root = t.root /\ u.parent = t.parent /\ u.left = t.left /\ u.right = t.right
             /\ \A x \in Node \ {n} : u.height[x] = t.height[x] /\ u.cnt[x] = t.cnt[x]
             /\ u.height[n] = 1 + Larger(SizeOf(t.height, t.left[n]), SizeOf(t.height, t.right[n]))
             /\ u.cnt[n] = 1 + SizeOf(t.cnt, t.left[n]) + SizeOf(t.cnt, t.right[n])
<1> USE NullAssumption
<1> DEFINE h == 1 + Larger(SizeOf(t.height, t.left[n]), SizeOf(t.height, t.right[n]))
           c == 1 + SizeOf(t.cnt, t.left[n]) + SizeOf(t.cnt, t.right[n])
           u == avl_update(t, n)
<1>1. \A x \in Node \cup {NULL} : SizeOf(t.height, x) \in Nat /\ SizeOf(t.cnt, x) \in Nat
  BY DEF Tree, SizeOf
<1>2. t.left[n] \in Node \cup {NULL} /\ t.right[n] \in Node \cup {NULL}
  BY DEF Tree
<1>3. h \in Nat \ {0} /\ c \in Nat \ {0}
  BY <1>1, <1>2 DEF Larger
<1>4. u = [t EXCEPT !.height = [t.height EXCEPT ![n] = h], !.cnt = [t.cnt EXCEPT ![n] = c]]
  BY DEF avl_update, avl_height, avl_cnt, SizeOf, Tree
<1> HIDE DEF h, c, u
<1>5. u = [root |-> t.root, parent |-> t.parent, left |-> t.left, right |-> t.right,
           height |-> [t.height EXCEPT ![n] = h], cnt |-> [t.cnt EXCEPT ![n] = c]]
  BY <1>4 DEF Tree
<1>6. u \in Tree
  BY <1>3, <1>5 DEF Tree
<1>7. /\ u.root = t.root /\ u.parent = t.parent /\ u.left = t.left /\ u.right = t.right
      /\ \A x \in Node \ {n} : u.height[x] = t.height[x] /\ u.cnt[x] = t.cnt[x]
      /\ u.height[n] = h /\ u.cnt[n] = c
  BY <1>5 DEF Tree
<1> QED BY <1>6, <1>7 DEF h, c, u

\* The pointers after a rotation, before the pointer to n in its parent is mended, and
\* the sizes, which are brought up to date in n and then in r.
LEMMA RotLeftFields ==
  ASSUME NEW t \in Tree, NEW n \in Node, NEW r \in Node, r = t.right[n], r # n,
         t.left[r] \notin {n, r}, t.right[r] \notin {n, r}, t.left[n] \notin {n, r}
  PROVE  LET v == rot_left(t, n)
         IN  /\ v \in Tree
             /\ v.root = t.root
             /\ \A x \in Node : v.parent[x] = IF x = n THEN r ELSE IF x = r THEN t.parent[n]
                                              ELSE IF x = t.left[r] THEN n ELSE t.parent[x]
             /\ \A x \in Node : v.left[x] = IF x = r THEN n ELSE t.left[x]
             /\ \A x \in Node : v.right[x] = IF x = n THEN t.left[r] ELSE t.right[x]
             /\ \A x \in Node \ {n, r} : v.height[x] = t.height[x] /\ v.cnt[x] = t.cnt[x]
             /\ Exactly(v, n) /\ Exactly(v, r)
<1> USE NullAssumption
<1> DEFINE i == t.left[r]
           turned == [t EXCEPT !.right[n] = i, !.left[r] = n,
                               !.parent[n] = r, !.parent[r] = t.parent[n]]
           w == SetParent(turned, i, n)
           u == avl_update(w, n)
           v == avl_update(u, r)
<1>1. v = rot_left(t, n)
  BY DEF rot_left
<1>2. /\ turned.root = t.root /\ turned.height = t.height /\ turned.cnt = t.cnt
      /\ turned.parent = [t.parent EXCEPT ![n] = r, ![r] = t.parent[n]]
      /\ turned.left = [t.left EXCEPT ![r] = n]
      /\ turned.right = [t.right EXCEPT ![n] = i]
      /\ turned \in Tree
  BY DEF Tree
<1>3. /\ w \in Tree
      /\ w.root = t.root /\ w.height = t.height /\ w.cnt = t.cnt
      /\ w.left = turned.left /\ w.right = turned.right
      /\ w.parent = IF i = NULL THEN turned.parent ELSE [turned.parent EXCEPT ![i] = n]
  <2> HIDE DEF turned
  <2>1. i \in Node \cup {NULL}
    BY DEF Tree
  <2> QED BY <1>2, <2>1 DEF SetParent, Tree
<1>4. /\ \A x \in Node : w.parent[x] = IF x = n THEN r ELSE IF x = r THEN t.parent[n]
                                        ELSE IF x = i THEN n ELSE t.parent[x]
      /\ \A x \in Node : w.left[x] = IF x = r THEN n ELSE t.left[x]
      /\ \A x \in Node : w.right[x] = IF x = n THEN i ELSE t.right[x]
  <2> HIDE DEF turned, w
  <2> QED BY <1>2, <1>3 DEF Tree
<1> HIDE DEF turned, w
<1>5. /\ u \in Tree
      /\ u.root = w.root /\ u.parent = w.parent /\ u.left = w.left /\ u.right = w.right
      /\ \A x \in Node \ {n} : u.height[x] = w.height[x] /\ u.cnt[x] = w.cnt[x]
      /\ u.height[n] = 1 + Larger(SizeOf(w.height, w.left[n]), SizeOf(w.height, w.right[n]))
      /\ u.cnt[n] = 1 + SizeOf(w.cnt, w.left[n]) + SizeOf(w.cnt, w.right[n])
  BY <1>3, UpdateFields
<1> HIDE DEF u
<1>6. /\ v \in Tree
      /\ v.root = u.root /\ v.parent = u.parent /\ v.left = u.left /\ v.right = u.right
      /\ \A x \in Node \ {r} : v.height[x] = u.height[x] /\ v.cnt[x] = u.cnt[x]
      /\ v.height[r] = 1 + Larger(SizeOf(u.height, u.left[r]), SizeOf(u.height, u.right[r]))
      /\ v.cnt[r] = 1 + SizeOf(u.cnt, u.left[r]) + SizeOf(u.cnt, u.right[r])
  BY <1>5, UpdateFields
<1> HIDE DEF v
<1>7. \A x \in (Node \cup {NULL}) \ {n, r} : /\ SizeOf(v.height, x) = SizeOf(w.height, x)
                                            /\ SizeOf(v.cnt, x) = SizeOf(w.cnt, x)
  BY <1>5, <1>6 DEF SizeOf
<1>8. Exactly(v, n)
  <2>1. w.left[n] = t.left[n] /\ w.right[n] = i /\ i \in Node \cup {NULL}
        /\ t.left[n] \in Node \cup {NULL}
    BY <1>4 DEF Tree
  <2>2. /\ SizeOf(v.height, w.left[n]) = SizeOf(w.height, w.left[n])
        /\ SizeOf(v.height, w.right[n]) = SizeOf(w.height, w.right[n])
        /\ SizeOf(v.cnt, w.left[n]) = SizeOf(w.cnt, w.left[n])
        /\ SizeOf(v.cnt, w.right[n]) = SizeOf(w.cnt, w.right[n])
    BY <1>7, <2>1
  <2>3. v.height[n] = u.height[n] /\ v.cnt[n] = u.cnt[n]
    BY <1>6
  <2> QED BY <1>5, <1>6, <2>2, <2>3 DEF Exactly, Exact
<1>9. Exactly(v, r)
  <2>1. u.left[r] = n /\ u.right[r] = t.right[r] /\ t.right[r] \in Node \cup {NULL}
    BY <1>4, <1>5 DEF Tree
  <2>2. /\ SizeOf(v.height, n) = SizeOf(u.height, n)
        /\ SizeOf(v.height, t.right[r]) = SizeOf(u.height, t.right[r])
        /\ SizeOf(v.cnt, n) = SizeOf(u.cnt, n)
        /\ SizeOf(v.cnt, t.right[r]) = SizeOf(u.cnt, t.right[r])
    BY <1>6, <2>1 DEF SizeOf
  <2> QED BY <1>6, <2>1, <2>2 DEF Exactly, Exact
<1>10. \A x \in Node \ {n, r} : v.height[x] = t.height[x] /\ v.cnt[x] = t.cnt[x]
  BY <1>3, <1>5, <1>6
<1>11. \A x \in Node : v.parent[x] = IF x = n THEN r ELSE IF x = r THEN t.parent[n]
                                   ELSE IF x = t.left[r] THEN n ELSE t.parent[x]
  BY <1>4, <1>5, <1>6
<1>12. \A x \in Node : v.left[x] = IF x = r THEN n ELSE t.left[x]
  BY <1>4, <1>5, <1>6
<1>13. \A x \in Node : v.right[x] = IF x = n THEN t.left[r] ELSE t.right[x]
  BY <1>4, <1>5, <1>6
<1>14. v \in Tree /\ v.root = t.root
  BY <1>3, <1>5, <1>6
<1> QED BY <1>1, <1>8, <1>9, <1>10, <1>11, <1>12, <1>13, <1>14

\* The mirror image.
LEMMA RotRightFields ==
  ASSUME NEW t \in Tree, NEW n \in Node, NEW l \in Node, l = t.left[n], l # n,
         t.right[l] \notin {n, l}, t.left[l] \notin {n, l}, t.right[n] \notin {n, l}
  PROVE  LET v == rot_right(t, n)
         IN  /\ v \in Tree
             /\ v.root = t.root
             /\ \A x \in Node : v.parent[x] = IF x = n THEN l ELSE IF x = l THEN t.parent[n]
                                              ELSE IF x = t.right[l] THEN n ELSE t.parent[x]
             /\ \A x \in Node : v.right[x] = IF x = l THEN n ELSE t.right[x]
             /\ \A x \in Node : v.left[x] = IF x = n THEN t.right[l] ELSE t.left[x]
             /\ \A x \in Node \ {n, l} : v.height[x] = t.height[x] /\ v.cnt[x] = t.cnt[x]
             /\ Exactly(v, n) /\ Exactly(v, l)
<1> USE NullAssumption
<1> DEFINE i == t.right[l]
           turned == [t EXCEPT !.left[n] = i, !.right[l] = n,
                               !.parent[n] = l, !.parent[l] = t.parent[n]]
           w == SetParent(turned, i, n)
           u == avl_update(w, n)
           v == avl_update(u, l)
<1>1. v = rot_right(t, n)
  BY DEF rot_right
<1>2. /\ turned.root = t.root /\ turned.height = t.height /\ turned.cnt = t.cnt
      /\ turned.parent = [t.parent EXCEPT ![n] = l, ![l] = t.parent[n]]
      /\ turned.right = [t.right EXCEPT ![l] = n]
      /\ turned.left = [t.left EXCEPT ![n] = i]
      /\ turned \in Tree
  BY DEF Tree
<1>3. /\ w \in Tree
      /\ w.root = t.root /\ w.height = t.height /\ w.cnt = t.cnt
      /\ w.right = turned.right /\ w.left = turned.left
      /\ w.parent = IF i = NULL THEN turned.parent ELSE [turned.parent EXCEPT ![i] = n]
  <2> HIDE DEF turned
  <2>1. i \in Node \cup {NULL}
    BY DEF Tree
  <2> QED BY <1>2, <2>1 DEF SetParent, Tree
<1>4. /\ \A x \in Node : w.parent[x] = IF x = n THEN l ELSE IF x = l THEN t.parent[n]
                                        ELSE IF x = i THEN n ELSE t.parent[x]
      /\ \A x \in Node : w.right[x] = IF x = l THEN n ELSE t.right[x]
      /\ \A x \in Node : w.left[x] = IF x = n THEN i ELSE t.left[x]
  <2> HIDE DEF turned, w
  <2> QED BY <1>2, <1>3 DEF Tree
<1> HIDE DEF turned, w
<1>5. /\ u \in Tree
      /\ u.root = w.root /\ u.parent = w.parent /\ u.right = w.right /\ u.left = w.left
      /\ \A x \in Node \ {n} : u.height[x] = w.height[x] /\ u.cnt[x] = w.cnt[x]
      /\ u.height[n] = 1 + Larger(SizeOf(w.height, w.left[n]), SizeOf(w.height, w.right[n]))
      /\ u.cnt[n] = 1 + SizeOf(w.cnt, w.left[n]) + SizeOf(w.cnt, w.right[n])
  BY <1>3, UpdateFields
<1> HIDE DEF u
<1>6. /\ v \in Tree
      /\ v.root = u.root /\ v.parent = u.parent /\ v.right = u.right /\ v.left = u.left
      /\ \A x \in Node \ {l} : v.height[x] = u.height[x] /\ v.cnt[x] = u.cnt[x]
      /\ v.height[l] = 1 + Larger(SizeOf(u.height, u.left[l]), SizeOf(u.height, u.right[l]))
      /\ v.cnt[l] = 1 + SizeOf(u.cnt, u.left[l]) + SizeOf(u.cnt, u.right[l])
  BY <1>5, UpdateFields
<1> HIDE DEF v
<1>7. \A x \in (Node \cup {NULL}) \ {n, l} : /\ SizeOf(v.height, x) = SizeOf(w.height, x)
                                            /\ SizeOf(v.cnt, x) = SizeOf(w.cnt, x)
  BY <1>5, <1>6 DEF SizeOf
<1>8. Exactly(v, n)
  <2>1. w.right[n] = t.right[n] /\ w.left[n] = i /\ i \in Node \cup {NULL}
        /\ t.right[n] \in Node \cup {NULL}
    BY <1>4 DEF Tree
  <2>2. /\ SizeOf(v.height, w.right[n]) = SizeOf(w.height, w.right[n])
        /\ SizeOf(v.height, w.left[n]) = SizeOf(w.height, w.left[n])
        /\ SizeOf(v.cnt, w.right[n]) = SizeOf(w.cnt, w.right[n])
        /\ SizeOf(v.cnt, w.left[n]) = SizeOf(w.cnt, w.left[n])
    BY <1>7, <2>1
  <2>3. v.height[n] = u.height[n] /\ v.cnt[n] = u.cnt[n]
    BY <1>6
  <2> QED BY <1>5, <1>6, <2>2, <2>3 DEF Exactly, Exact
<1>9. Exactly(v, l)
  <2>1. u.right[l] = n /\ u.left[l] = t.left[l] /\ t.left[l] \in Node \cup {NULL}
    BY <1>4, <1>5 DEF Tree
  <2>2. /\ SizeOf(v.height, n) = SizeOf(u.height, n)
        /\ SizeOf(v.height, t.left[l]) = SizeOf(u.height, t.left[l])
        /\ SizeOf(v.cnt, n) = SizeOf(u.cnt, n)
        /\ SizeOf(v.cnt, t.left[l]) = SizeOf(u.cnt, t.left[l])
    BY <1>6, <2>1 DEF SizeOf
  <2> QED BY <1>6, <2>1, <2>2 DEF Exactly, Exact
<1>10. \A x \in Node \ {n, l} : v.height[x] = t.height[x] /\ v.cnt[x] = t.cnt[x]
  BY <1>3, <1>5, <1>6
<1>11. \A x \in Node : v.parent[x] = IF x = n THEN l ELSE IF x = l THEN t.parent[n]
                                   ELSE IF x = t.right[l] THEN n ELSE t.parent[x]
  BY <1>4, <1>5, <1>6
<1>12. \A x \in Node : v.right[x] = IF x = l THEN n ELSE t.right[x]
  BY <1>4, <1>5, <1>6
<1>13. \A x \in Node : v.left[x] = IF x = n THEN t.right[l] ELSE t.left[x]
  BY <1>4, <1>5, <1>6
<1>14. v \in Tree /\ v.root = t.root
  BY <1>3, <1>5, <1>6
<1> QED BY <1>1, <1>8, <1>9, <1>10, <1>11, <1>12, <1>13, <1>14

-----------------------------------------------------------------------------
\* Replace writes one pointer.
LEMMA ReplaceFields ==
  ASSUME NEW v \in Tree, NEW p \in Node \cup {NULL}, NEW n, NEW m \in Node \cup {NULL}
  PROVE  LET u == Replace(v, p, n, m)
         IN  /\ u \in Tree
             /\ u.root = IF p = NULL THEN m ELSE v.root
             /\ u.parent = v.parent /\ u.height = v.height /\ u.cnt = v.cnt
             /\ \A x \in Node : u.left[x] = IF x = p /\ v.left[x] = n THEN m ELSE v.left[x]
             /\ \A x \in Node : u.right[x] = IF x = p /\ v.left[x] # n THEN m ELSE v.right[x]
<1> USE NullAssumption DEF Replace, Tree
<1>1. CASE p = NULL
  BY <1>1
<1>2. CASE p \in Node /\ v.left[p] = n
  BY <1>2
<1>3. CASE p \in Node /\ v.left[p] # n
  BY <1>3
<1> QED BY <1>1, <1>2, <1>3

LEMMA LinkedMirror ==
  ASSUME NEW root, NEW P, NEW A, NEW B, NEW M, Linked(root, P, A, B, M)
  PROVE  Linked(root, P, B, A, M)
BY DEF Linked

\* R the other way round, which is the order of the mirror image.
Reversed(R, X) == {q \in X \X X : <<q[2], q[1]>> \in R}

LEMMA ReversedOrder ==
  ASSUME NEW R, NEW X, Ordered(R, X)
  PROVE  /\ Ordered(Reversed(R, X), X)
         /\ \A x, y \in X : <<x, y>> \in Reversed(R, X) <=> <<y, x>> \in R
<1>1. \A x, y \in X : <<x, y>> \in Reversed(R, X) <=> <<y, x>> \in R
  BY DEF Reversed
<1> QED BY <1>1 DEF Ordered

LEMMA SidedMirror ==
  ASSUME NEW root, NEW A, NEW B, NEW J, NEW R, NEW Q, NEW X, NEW M \in SUBSET Node,
         \A x, y \in X : <<x, y>> \in Q <=> <<y, x>> \in R,
         A \in [Node -> Node \cup {NULL}], B \in [Node -> Node \cup {NULL}],
         Sided(root, A, B, J, R, X, M)
  PROVE  Sided(root, B, A, J, Q, X, M)
<1>1. J \in [Node -> SUBSET X] /\ \A m \in M : m \in J[m] /\ m \in X
  BY DEF Sided
<1>2. ASSUME NEW m \in M, A[m] # NULL, NEW x \in J[A[m]] PROVE x \in J[m] /\ <<m, x>> \in Q
  <2>1. x \in J[m] /\ <<x, m>> \in R
    BY <1>2 DEF Sided
  <2> QED BY <1>1, <2>1
<1>3. ASSUME NEW m \in M, B[m] # NULL, NEW x \in J[B[m]] PROVE x \in J[m] /\ <<x, m>> \in Q
  <2>1. x \in J[m] /\ <<m, x>> \in R
    BY <1>3 DEF Sided
  <2> QED BY <1>1, <2>1
<1>4. (root # NULL => J[root] = X) /\ \A m \in M : m \in J[m]
  BY DEF Sided
<1> QED BY <1>1, <1>2, <1>3, <1>4 DEF Sided


\* A rotation with the pointer to n mended.
LeftTurned(t, n) == Replace(rot_left(t, n), t.parent[n], n, t.right[n])
RightTurned(t, n) == Replace(rot_right(t, n), t.parent[n], n, t.left[n])

\* A left rotation with the pointer to n mended keeps the tree a search tree, moves
\* three parent pointers and makes n and r exact again.
LEMMA RotateLeft ==
  ASSUME NEW R, NEW X, Ordered(R, X), NEW M, NEW t, Shape(t, M, R, X),
         NEW n \in M, t.right[n] # NULL,
         NEW W, t.parent[n] # NULL => t.parent[n] \in W, ExactOff(t, M, W \cup {n})
  PROVE  LET r == t.right[n]
             v == rot_left(t, n)
             u == LeftTurned(t, n)
         IN  /\ v \in Tree /\ v.parent[n] = r
             /\ \A x \in Node : v.left[x] = IF x = r THEN n ELSE t.left[x]
             /\ \A x \in Node : v.right[x] = IF x = n THEN t.left[r] ELSE t.right[x]
             /\ Shape(u, M, R, X)
             /\ ExactOff(u, M, W)
             /\ TurnsParents(t.parent, u.parent, n, r, t.left[r])
             /\ \A x \in Node \ M : SameFields(t, u, x)
<1> SUFFICES
      ASSUME NEW r, r = t.right[n]
      PROVE  LET v == rot_left(t, n)
                 u == Replace(v, t.parent[n], n, r)
             IN  /\ v \in Tree /\ v.parent[n] = r
                 /\ \A x \in Node : v.left[x] = IF x = r THEN n ELSE t.left[x]
                 /\ \A x \in Node : v.right[x] = IF x = n THEN t.left[r] ELSE t.right[x]
                 /\ Shape(u, M, R, X)
                 /\ ExactOff(u, M, W)
                 /\ TurnsParents(t.parent, u.parent, n, r, t.left[r])
                 /\ \A x \in Node \ M : SameFields(t, u, x)
  BY DEF LeftTurned
<1> USE NullAssumption
<1> DEFINE v == rot_left(t, n)
           u == Replace(v, t.parent[n], n, r)
           top == IF t.parent[n] = NULL THEN r ELSE t.root
<1>1. PICK J, rk : Shaped(t, M, R, X, J, rk)
  BY DEF Shape
<1>2. /\ t \in Tree /\ M \in SUBSET Node
      /\ Linked(t.root, t.parent, t.left, t.right, M)
      /\ Ranked(t.parent, rk)
      /\ Sided(t.root, t.left, t.right, J, R, X, M)
  BY <1>1 DEF Shaped
<1>3. /\ t.parent \in [Node -> Node \cup {NULL}]
      /\ t.left \in [Node -> Node \cup {NULL}] /\ t.right \in [Node -> Node \cup {NULL}]
  BY <1>2 DEF Tree
<1>4. r \in M /\ t.parent[r] = n /\ r # n /\ n \in Node /\ r \in Node
  BY <1>2, <1>3 DEF Linked, Ranked
<1>5. t.left[r] \notin {n, r} /\ t.right[r] \notin {n, r} /\ t.left[n] \notin {n, r}
  BY <1>2, <1>3, <1>4 DEF Linked, Ranked
<1>6. /\ v \in Tree
      /\ v.root = t.root
      /\ \A x \in Node : v.parent[x] = IF x = n THEN r ELSE IF x = r THEN t.parent[n]
                                       ELSE IF x = t.left[r] THEN n ELSE t.parent[x]
      /\ \A x \in Node : v.left[x] = IF x = r THEN n ELSE t.left[x]
      /\ \A x \in Node : v.right[x] = IF x = n THEN t.left[r] ELSE t.right[x]
      /\ \A x \in Node \ {n, r} : v.height[x] = t.height[x] /\ v.cnt[x] = t.cnt[x]
      /\ Exactly(v, n) /\ Exactly(v, r)
  BY <1>2, <1>4, <1>5, RotLeftFields
<1> HIDE DEF v
<1>7. t.parent[n] \in Node \cup {NULL} /\ r \in Node \cup {NULL}
  BY <1>3, <1>4
<1>8. /\ u \in Tree
      /\ u.root = top
      /\ u.parent = v.parent /\ u.height = v.height /\ u.cnt = v.cnt
      /\ \A x \in Node : u.left[x] = IF x = t.parent[n] /\ v.left[x] = n THEN r ELSE v.left[x]
      /\ \A x \in Node : u.right[x] = IF x = t.parent[n] /\ v.left[x] # n THEN r ELSE v.right[x]
  BY <1>6, <1>7, ReplaceFields
<1> HIDE DEF u
<1>9. t.parent[n] # NULL =>
        /\ t.parent[n] \in M /\ t.parent[n] # r /\ t.parent[n] # n
        /\ (t.left[t.parent[n]] = n) # (t.right[t.parent[n]] = n)
  BY <1>2, <1>3, <1>4 DEF Linked, Ranked
<1>10. TurnsChildren(t.parent, t.left, t.right, u.left, u.right, n, r)
  <2>1. \A x \in Node : u.left[x] = IF x = r THEN n
                        ELSE IF x = t.parent[n] /\ t.left[x] = n THEN r ELSE t.left[x]
    BY <1>6, <1>8, <1>9
  <2>2. \A x \in Node : u.right[x] = IF x = n THEN t.left[r]
                        ELSE IF x = t.parent[n] /\ t.right[x] = n THEN r ELSE t.right[x]
    BY <1>6, <1>8, <1>9
  <2> QED BY <2>1, <2>2 DEF TurnsChildren
<1>11. u.parent = v.parent
  BY <1>8
<1>12. TurnsParents(t.parent, u.parent, n, r, t.left[r])
  BY <1>6, <1>8 DEF TurnsParents
<1>13. /\ u.parent \in [Node -> Node \cup {NULL}]
       /\ u.left \in [Node -> Node \cup {NULL}] /\ u.right \in [Node -> Node \cup {NULL}]
  BY <1>8 DEF Tree
<1>14. Linked(top, u.parent, u.left, u.right, M)
  BY <1>2, <1>3, <1>4, <1>10, <1>12, <1>13, TurnLinked
<1>15. Ranked(u.parent, Turned(rk, n, r))
  <2>1. t.left[r] # NULL => t.left[r] \in Node /\ t.parent[t.left[r]] = r
    BY <1>2, <1>3, <1>4 DEF Linked
  <2> QED BY <1>2, <1>3, <1>4, <1>12, <1>13, <2>1, TurnRanked
<1>16. \E K : Sided(top, u.left, u.right, K, R, X, M)
  BY <1>2, <1>3, <1>4, <1>10, <1>13, TurnSided
<1>17. Shape(u, M, R, X)
  BY <1>2, <1>8, <1>14, <1>15, <1>16 DEF Shape, Shaped
<1>18. ExactOff(u, M, W)
  <2>1. Exactly(u, n) /\ Exactly(u, r)
    <3>1. /\ u.left[n] = v.left[n] /\ u.right[n] = v.right[n]
          /\ u.left[r] = v.left[r] /\ u.right[r] = v.right[r]
      BY <1>4, <1>8, <1>9
    <3> QED BY <1>6, <1>8, <3>1 DEF Exactly, Exact
  <2>2. SizesKept(t.height, t.cnt, u.height, u.cnt, {n, r})
    BY <1>6, <1>8 DEF SizesKept
  <2>3. ExactBut(t.left, t.right, t.height, t.cnt, M, W \cup {n})
    BY DEF Exactly, ExactBut, ExactOff
  <2>4. ExactBut(u.left, u.right, u.height, u.cnt, M, W)
    BY <1>2, <1>3, <1>4, <1>10, <1>13, <2>1, <2>2, <2>3, TurnExact DEF Exactly
  <2> QED BY <2>4 DEF Exactly, ExactBut, ExactOff
<1>19. \A x \in Node \ M : SameFields(t, u, x)
  <2> SUFFICES ASSUME NEW x \in Node \ M PROVE SameFields(t, u, x)
    OBVIOUS
  <2>1. x # n /\ x # r /\ x # t.left[r] /\ x # t.parent[n]
    BY <1>2, <1>4, <1>9 DEF Linked
  <2> QED BY <1>6, <1>8, <2>1 DEF SameFields
<1> QED BY <1>4, <1>6, <1>12, <1>17, <1>18, <1>19 DEF u, v

\* The sizes do not depend on the sides.
LEMMA ExactMirror ==
  ASSUME NEW t \in Tree, NEW m \in Node
  PROVE  Exact(t.left, t.right, t.height, t.cnt, m) <=> Exact(t.right, t.left, t.height, t.cnt, m)
<1>1. \A x \in Node \cup {NULL} : SizeOf(t.height, x) \in Nat /\ SizeOf(t.cnt, x) \in Nat
  BY NullAssumption DEF Tree, SizeOf
<1>2. t.left[m] \in Node \cup {NULL} /\ t.right[m] \in Node \cup {NULL}
  BY DEF Tree
<1> QED BY <1>1, <1>2 DEF Exact, Larger

\* The mirror image: the same lemmas about A and B, with the children the other way
\* round and the order reversed.
LEMMA RotateRight ==
  ASSUME NEW R, NEW X, Ordered(R, X), NEW M, NEW t, Shape(t, M, R, X),
         NEW n \in M, t.left[n] # NULL,
         NEW W, t.parent[n] # NULL => t.parent[n] \in W, ExactOff(t, M, W \cup {n})
  PROVE  LET l == t.left[n]
             v == rot_right(t, n)
             u == RightTurned(t, n)
         IN  /\ v \in Tree /\ v.parent[n] = l
             /\ \A x \in Node : v.right[x] = IF x = l THEN n ELSE t.right[x]
             /\ \A x \in Node : v.left[x] = IF x = n THEN t.right[l] ELSE t.left[x]
             /\ Shape(u, M, R, X)
             /\ ExactOff(u, M, W)
             /\ TurnsParents(t.parent, u.parent, n, l, t.right[l])
             /\ \A x \in Node \ M : SameFields(t, u, x)
<1> SUFFICES
      ASSUME NEW l, l = t.left[n]
      PROVE  LET v == rot_right(t, n)
                 u == Replace(v, t.parent[n], n, l)
             IN  /\ v \in Tree /\ v.parent[n] = l
                 /\ \A x \in Node : v.right[x] = IF x = l THEN n ELSE t.right[x]
                 /\ \A x \in Node : v.left[x] = IF x = n THEN t.right[l] ELSE t.left[x]
                 /\ Shape(u, M, R, X)
                 /\ ExactOff(u, M, W)
                 /\ TurnsParents(t.parent, u.parent, n, l, t.right[l])
                 /\ \A x \in Node \ M : SameFields(t, u, x)
  BY DEF RightTurned
<1> USE NullAssumption
<1> DEFINE v == rot_right(t, n)
           u == Replace(v, t.parent[n], n, l)
           top == IF t.parent[n] = NULL THEN l ELSE t.root
<1>1. PICK J, rk : Shaped(t, M, R, X, J, rk)
  BY DEF Shape
<1>2. /\ t \in Tree /\ M \in SUBSET Node
      /\ Linked(t.root, t.parent, t.left, t.right, M)
      /\ Ranked(t.parent, rk)
      /\ Sided(t.root, t.left, t.right, J, R, X, M)
  BY <1>1 DEF Shaped
<1>3. /\ t.parent \in [Node -> Node \cup {NULL}]
      /\ t.right \in [Node -> Node \cup {NULL}] /\ t.left \in [Node -> Node \cup {NULL}]
  BY <1>2 DEF Tree
<1>4. l \in M /\ t.parent[l] = n /\ l # n /\ n \in Node /\ l \in Node
  BY <1>2, <1>3 DEF Linked, Ranked
<1>5. t.right[l] \notin {n, l} /\ t.left[l] \notin {n, l} /\ t.right[n] \notin {n, l}
  BY <1>2, <1>3, <1>4 DEF Linked, Ranked
<1>6. /\ v \in Tree
      /\ v.root = t.root
      /\ \A x \in Node : v.parent[x] = IF x = n THEN l ELSE IF x = l THEN t.parent[n]
                                       ELSE IF x = t.right[l] THEN n ELSE t.parent[x]
      /\ \A x \in Node : v.right[x] = IF x = l THEN n ELSE t.right[x]
      /\ \A x \in Node : v.left[x] = IF x = n THEN t.right[l] ELSE t.left[x]
      /\ \A x \in Node \ {n, l} : v.height[x] = t.height[x] /\ v.cnt[x] = t.cnt[x]
      /\ Exactly(v, n) /\ Exactly(v, l)
  BY <1>2, <1>4, <1>5, RotRightFields
<1> HIDE DEF v
<1>7. t.parent[n] \in Node \cup {NULL} /\ l \in Node \cup {NULL}
  BY <1>3, <1>4
<1>8. /\ u \in Tree
      /\ u.root = top
      /\ u.parent = v.parent /\ u.height = v.height /\ u.cnt = v.cnt
      /\ \A x \in Node : u.left[x] = IF x = t.parent[n] /\ v.left[x] = n THEN l ELSE v.left[x]
      /\ \A x \in Node : u.right[x] = IF x = t.parent[n] /\ v.left[x] # n THEN l ELSE v.right[x]
  BY <1>6, <1>7, ReplaceFields
<1> HIDE DEF u
<1>9. t.parent[n] # NULL =>
        /\ t.parent[n] \in M /\ t.parent[n] # l /\ t.parent[n] # n
        /\ (t.right[t.parent[n]] = n) # (t.left[t.parent[n]] = n)
  BY <1>2, <1>3, <1>4 DEF Linked, Ranked
<1>10. TurnsChildren(t.parent, t.right, t.left, u.right, u.left, n, l)
  <2>1. \A x \in Node : u.right[x] = IF x = l THEN n
                        ELSE IF x = t.parent[n] /\ t.right[x] = n THEN l ELSE t.right[x]
    BY <1>6, <1>8, <1>9
  <2>2. \A x \in Node : u.left[x] = IF x = n THEN t.right[l]
                        ELSE IF x = t.parent[n] /\ t.left[x] = n THEN l ELSE t.left[x]
    BY <1>6, <1>8, <1>9
  <2> QED BY <2>1, <2>2 DEF TurnsChildren
<1>11. u.parent = v.parent
  BY <1>8
<1>12. TurnsParents(t.parent, u.parent, n, l, t.right[l])
  BY <1>6, <1>8 DEF TurnsParents
<1>13. /\ u.parent \in [Node -> Node \cup {NULL}]
       /\ u.right \in [Node -> Node \cup {NULL}] /\ u.left \in [Node -> Node \cup {NULL}]
  BY <1>8 DEF Tree
<1>14. Linked(top, u.parent, u.left, u.right, M)
  <2>1. Linked(t.root, t.parent, t.right, t.left, M)
    BY <1>2, LinkedMirror
  <2>2. Linked(top, u.parent, u.right, u.left, M)
    BY <1>2, <1>3, <1>4, <1>10, <1>12, <1>13, <2>1, TurnLinked, SMTT(30)
  <2> QED BY <2>2, LinkedMirror
<1>15. Ranked(u.parent, Turned(rk, n, l))
  <2>1. t.right[l] # NULL => t.right[l] \in Node /\ t.parent[t.right[l]] = l
    BY <1>2, <1>3, <1>4 DEF Linked
  <2> QED BY <1>2, <1>3, <1>4, <1>12, <1>13, <2>1, TurnRanked
<1>16. \E K : Sided(top, u.left, u.right, K, R, X, M)
  <2> DEFINE Q == Reversed(R, X)
  <2>1. Ordered(Q, X) /\ \A x, y \in X : <<x, y>> \in Q <=> <<y, x>> \in R
    BY ReversedOrder
  <2> HIDE DEF Q
  <2>2. Linked(t.root, t.parent, t.right, t.left, M)
    BY <1>2, LinkedMirror
  <2>3. Sided(t.root, t.right, t.left, J, Q, X, M)
    BY <1>2, <1>3, <2>1, SidedMirror
  <2>4. \E K : Sided(top, u.right, u.left, K, Q, X, M)
    BY <1>2, <1>3, <1>4, <1>10, <1>13, <2>1, <2>2, <2>3, TurnSided
  <2>5. PICK K : Sided(top, u.right, u.left, K, Q, X, M)
    BY <2>4
  <2>6. \A x, y \in X : <<x, y>> \in R <=> <<y, x>> \in Q
    BY <2>1
  <2>7. Sided(top, u.left, u.right, K, R, X, M)
    BY <1>2, <1>13, <2>5, <2>6, SidedMirror
  <2> QED BY <2>7
<1>17. Shape(u, M, R, X)
  BY <1>2, <1>8, <1>14, <1>15, <1>16 DEF Shape, Shaped
<1>18. ExactOff(u, M, W)
  <2>1. Exactly(u, n) /\ Exactly(u, l)
    <3>1. /\ u.right[n] = v.right[n] /\ u.left[n] = v.left[n]
          /\ u.right[l] = v.right[l] /\ u.left[l] = v.left[l]
      BY <1>4, <1>8, <1>9
    <3> QED BY <1>6, <1>8, <3>1 DEF Exactly, Exact
  <2>2. SizesKept(t.height, t.cnt, u.height, u.cnt, {n, l})
    BY <1>6, <1>8 DEF SizesKept
  <2>3. ExactBut(t.right, t.left, t.height, t.cnt, M, W \cup {n})
    BY <1>2, ExactMirror DEF Exactly, ExactBut, ExactOff
  <2>4. Exact(u.right, u.left, u.height, u.cnt, n) /\ Exact(u.right, u.left, u.height, u.cnt, l)
    BY <1>4, <1>8, <2>1, ExactMirror DEF Exactly
  <2>5. Linked(t.root, t.parent, t.right, t.left, M)
    BY <1>2, LinkedMirror
  <2>6. ExactBut(u.right, u.left, u.height, u.cnt, M, W)
    BY <1>2, <1>3, <1>4, <1>10, <1>13, <2>2, <2>3, <2>4, <2>5, TurnExact
  <2> QED BY <1>2, <1>8, <2>6, ExactMirror DEF Exactly, ExactBut, ExactOff
<1>19. \A x \in Node \ M : SameFields(t, u, x)
  <2> SUFFICES ASSUME NEW x \in Node \ M PROVE SameFields(t, u, x)
    OBVIOUS
  <2>1. x # n /\ x # l /\ x # t.right[l] /\ x # t.parent[n]
    BY <1>2, <1>4, <1>9 DEF Linked
  <2> QED BY <1>6, <1>8, <2>1 DEF SameFields
<1> QED BY <1>4, <1>6, <1>12, <1>17, <1>18, <1>19 DEF u, v

-----------------------------------------------------------------------------
(* avl_fix *)

\* rot_left_right, one rotation or two, with the pointer to n mended.  The nodes in
\* W, those above n, may still be wrong; none of them has another parent afterwards.
LEMMA LeftHeavy ==
  ASSUME NEW R, NEW X, Ordered(R, X), NEW M, NEW t, Shape(t, M, R, X),
         NEW n \in M, NEW W \in SUBSET Node, n \notin W,
         \A x \in W \cup {n} : t.parent[x] \in W \cup {NULL},
         ExactOff(t, M, W),
         avl_height(t, t.left[n]) = avl_height(t, t.right[n]) + 2
  PROVE  LET v == rot_left_right(t, n)
             u == Replace(v, t.parent[n], n, v.parent[n])
         IN  /\ Shape(u, M, R, X)
             /\ ExactOff(u, M, W)
             /\ \A x \in W : u.parent[x] = t.parent[x]
             /\ \A x \in Node \ M : SameFields(t, u, x)
<1> USE NullAssumption
<1> DEFINE l == t.left[n]
           i == t.right[l]
           p == t.parent[n]
<1>1. t \in Tree /\ M \in SUBSET Node /\ Linked(t.root, t.parent, t.left, t.right, M)
  BY DEF Shape, Shaped
<1>2. n \in Node /\ (l # NULL => l \in M /\ t.parent[l] = n)
  BY <1>1 DEF Linked
<1>3. \A x \in Node \cup {NULL} : avl_height(t, x) \in Nat /\ (avl_height(t, x) = 0 => x = NULL)
  BY <1>1 DEF avl_height, Tree
<1>4. /\ t.left[n] \in Node \cup {NULL} /\ t.right[n] \in Node \cup {NULL}
      /\ \A x \in Node : t.left[x] \in Node \cup {NULL} /\ t.right[x] \in Node \cup {NULL}
  BY <1>1, <1>2 DEF Tree
<1>5. avl_height(t, l) >= 2
  BY <1>3, <1>4
<1>6. l # NULL /\ l \in M /\ t.parent[l] = n /\ l \notin W /\ l # n
  BY <1>2, <1>5 DEF avl_height
<1>7. t.parent[n] # NULL => t.parent[n] \in W
  OBVIOUS
<1>8. ExactOff(t, M, W \cup {n}) /\ ExactOff(t, M, (W \cup {n}) \cup {l})
  BY DEF ExactOff
<1>9. CASE ~(avl_height(t, t.left[l]) <= avl_height(t, i))
  <2> DEFINE v == rot_right(t, n)
             u == RightTurned(t, n)
  <2>1. rot_left_right(t, n) = v
    BY <1>9 DEF rot_left_right
  <2>2. /\ v.parent[n] = l
        /\ Shape(u, M, R, X)
        /\ ExactOff(u, M, W)
        /\ TurnsParents(t.parent, u.parent, n, l, i)
        /\ \A x \in Node \ M : SameFields(t, u, x)
    BY <1>6, <1>7, <1>8, RotateRight
  <2> HIDE DEF v, u
  <2>3. \A x \in W \cup {n} : x # l /\ (x = i => i = NULL)
    BY <1>1, <1>6 DEF Linked
  <2>4. \A x \in W : u.parent[x] = t.parent[x]
    BY <1>2, <2>2, <2>3 DEF TurnsParents
  <2>5. u = Replace(v, p, n, v.parent[n])
    BY <2>2 DEF u, v, RightTurned
  <2> QED BY <2>1, <2>2, <2>4, <2>5
<1>10. CASE avl_height(t, t.left[l]) <= avl_height(t, i)
  <2> DEFINE w == rot_left(t, l)
             s == LeftTurned(t, l)
             v == rot_right(s, n)
             u == RightTurned(s, n)
  <2>0. l = t.left[n] /\ i = t.right[l] /\ p = t.parent[n]
    OBVIOUS
  <2> HIDE DEF l, i, p
  <2>1. i # NULL /\ i \in M /\ t.parent[i] = l
    <3>1. Exactly(t, l)
      BY <1>6 DEF ExactOff
    <3>2. avl_height(t, l) = 1 + Larger(avl_height(t, t.left[l]), avl_height(t, i))
      BY <1>6, <2>0, <3>1 DEF Exactly, Exact, avl_height, SizeOf
    <3>3. avl_height(t, t.left[l]) \in Nat /\ avl_height(t, i) \in Nat
      BY <1>1, <1>3, <1>4, <1>6, <2>0
    <3>4. avl_height(t, i) # 0
      BY <1>5, <1>10, <3>2, <3>3 DEF Larger
    <3>5. i # NULL
      BY <3>4 DEF avl_height
    <3> QED BY <1>1, <1>6, <2>0, <3>5 DEF Linked
  <2>2. /\ w \in Tree
        /\ \A x \in Node : w.left[x] = IF x = i THEN l ELSE t.left[x]
        /\ \A x \in Node : w.right[x] = IF x = l THEN t.left[i] ELSE t.right[x]
        /\ Shape(s, M, R, X)
        /\ ExactOff(s, M, W \cup {n})
        /\ TurnsParents(t.parent, s.parent, l, i, t.left[i])
        /\ \A x \in Node \ M : SameFields(t, s, x)
    <3>1. t.parent[l] = n /\ (t.parent[l] # NULL => t.parent[l] \in W \cup {n})
      BY <1>6
    <3>2. t.right[l] = i
      BY <2>0
    <3>3. /\ w \in Tree
          /\ \A x \in Node : w.left[x] = IF x = t.right[l] THEN l ELSE t.left[x]
          /\ \A x \in Node : w.right[x] = IF x = l THEN t.left[t.right[l]] ELSE t.right[x]
          /\ Shape(s, M, R, X)
          /\ ExactOff(s, M, W \cup {n})
          /\ TurnsParents(t.parent, s.parent, l, t.right[l], t.left[t.right[l]])
          /\ \A x \in Node \ M : SameFields(t, s, x)
      <4>1. l \in M /\ t.right[l] # NULL
        BY <1>6, <2>1, <3>2
      <4>2. t.parent[l] # NULL => t.parent[l] \in W \cup {n}
        BY <3>1
      <4>3. ExactOff(t, M, (W \cup {n}) \cup {l})
        BY <1>8
      <4> QED BY <4>1, <4>2, <4>3, RotateLeft
    <3> QED BY <3>2, <3>3
  <2> HIDE DEF w, s
  <2>3. i # n
    BY <1>1, <1>6, <1>7, <2>0, <2>1
  <2>4. s = [w EXCEPT !.left[n] = i] /\ s.left[n] = i
    <3>1. w.left[n] = l /\ w.right[n] # l
      BY <1>1, <1>2, <1>6, <2>0, <2>2, <2>3 DEF Linked
    <3>2. s = Replace(w, n, l, i)
      BY <1>6, <2>0 DEF s, w, LeftTurned
    <3> QED BY <1>2, <2>2, <3>1, <3>2 DEF Replace, Tree
  <2>5. rot_left_right(t, n) = v
    BY <1>10, <2>0, <2>4 DEF rot_left_right, w
  <2>6. \A x \in W \cup {n} : x # l /\ x # i /\ (x # NULL => x # t.left[i])
    BY <1>1, <1>6, <2>0, <2>1 DEF Linked
  <2>7. \A x \in W \cup {n} : s.parent[x] = t.parent[x]
    BY <1>2, <2>2, <2>6 DEF TurnsParents
  <2>8. s.parent[n] = p
    BY <2>0, <2>7
  <2>9. /\ v.parent[n] = i
        /\ Shape(u, M, R, X)
        /\ ExactOff(u, M, W)
        /\ TurnsParents(s.parent, u.parent, n, i, s.right[i])
        /\ \A x \in Node \ M : SameFields(s, u, x)
    <3>1. s.parent[n] # NULL => s.parent[n] \in W
      BY <1>7, <2>0, <2>8
    <3>2. Shape(s, M, R, X) /\ ExactOff(s, M, W \cup {n}) /\ s.left[n] # NULL
      BY <2>1, <2>2, <2>4
    <3>3. /\ v.parent[n] = s.left[n]
          /\ Shape(u, M, R, X)
          /\ ExactOff(u, M, W)
          /\ TurnsParents(s.parent, u.parent, n, s.left[n], s.right[s.left[n]])
          /\ \A x \in Node \ M : SameFields(s, u, x)
      BY <3>1, <3>2, RotateRight, SMTT(30)
    <3> QED BY <2>4, <3>3
  <2> HIDE DEF v, u
  <2>10. \A x \in W : u.parent[x] = t.parent[x]
    <3> SUFFICES ASSUME NEW x \in W PROVE u.parent[x] = t.parent[x]
      OBVIOUS
    <3>1. Linked(s.root, s.parent, s.left, s.right, M)
      BY <2>2 DEF Shape, Shaped
    <3>2. x # i /\ x # n /\ x \in Node /\ s.parent[x] = t.parent[x] /\ t.parent[x] # i
      BY <2>1, <2>6, <2>7
    <3>3. x # s.right[i]
      BY <2>1, <3>1, <3>2 DEF Linked
    <3> QED BY <2>9, <3>2, <3>3 DEF TurnsParents
  <2>11. \A x \in Node \ M : SameFields(t, u, x)
    BY <2>2, <2>9 DEF SameFields
  <2>12. u = Replace(v, p, n, v.parent[n])
    BY <2>0, <2>4, <2>8, <2>9 DEF u, v, RightTurned
  <2> QED BY <2>0, <2>5, <2>9, <2>10, <2>11, <2>12
<1> QED BY <1>9, <1>10

\* The mirror image.
LEMMA RightHeavy ==
  ASSUME NEW R, NEW X, Ordered(R, X), NEW M, NEW t, Shape(t, M, R, X),
         NEW n \in M, NEW W \in SUBSET Node, n \notin W,
         \A x \in W \cup {n} : t.parent[x] \in W \cup {NULL},
         ExactOff(t, M, W),
         avl_height(t, t.right[n]) = avl_height(t, t.left[n]) + 2
  PROVE  LET v == rot_right_left(t, n)
             u == Replace(v, t.parent[n], n, v.parent[n])
         IN  /\ Shape(u, M, R, X)
             /\ ExactOff(u, M, W)
             /\ \A x \in W : u.parent[x] = t.parent[x]
             /\ \A x \in Node \ M : SameFields(t, u, x)
<1> USE NullAssumption
<1> DEFINE r == t.right[n]
           i == t.left[r]
           p == t.parent[n]
<1>1. t \in Tree /\ M \in SUBSET Node /\ Linked(t.root, t.parent, t.left, t.right, M)
  BY DEF Shape, Shaped
<1>2. n \in Node /\ (r # NULL => r \in M /\ t.parent[r] = n)
  BY <1>1 DEF Linked
<1>3. \A x \in Node \cup {NULL} : avl_height(t, x) \in Nat /\ (avl_height(t, x) = 0 => x = NULL)
  BY <1>1 DEF avl_height, Tree
<1>4. /\ t.right[n] \in Node \cup {NULL} /\ t.left[n] \in Node \cup {NULL}
      /\ \A x \in Node : t.right[x] \in Node \cup {NULL} /\ t.left[x] \in Node \cup {NULL}
  BY <1>1, <1>2 DEF Tree
<1>5. avl_height(t, r) >= 2
  BY <1>3, <1>4
<1>6. r # NULL /\ r \in M /\ t.parent[r] = n /\ r \notin W /\ r # n
  BY <1>2, <1>5 DEF avl_height
<1>7. t.parent[n] # NULL => t.parent[n] \in W
  OBVIOUS
<1>8. ExactOff(t, M, W \cup {n}) /\ ExactOff(t, M, (W \cup {n}) \cup {r})
  BY DEF ExactOff
<1>9. CASE ~(avl_height(t, i) >= avl_height(t, t.right[r]))
  <2> DEFINE v == rot_left(t, n)
             u == LeftTurned(t, n)
  <2>1. rot_right_left(t, n) = v
    BY <1>9 DEF rot_right_left
  <2>2. /\ v.parent[n] = r
        /\ Shape(u, M, R, X)
        /\ ExactOff(u, M, W)
        /\ TurnsParents(t.parent, u.parent, n, r, i)
        /\ \A x \in Node \ M : SameFields(t, u, x)
    BY <1>6, <1>7, <1>8, RotateLeft, SMTT(30)
  <2> HIDE DEF v, u
  <2>3. \A x \in W \cup {n} : x # r /\ (x = i => i = NULL)
    BY <1>1, <1>6 DEF Linked
  <2>4. \A x \in W : u.parent[x] = t.parent[x]
    BY <1>2, <2>2, <2>3 DEF TurnsParents
  <2>5. u = Replace(v, p, n, v.parent[n])
    BY <2>2 DEF u, v, LeftTurned
  <2> QED BY <2>1, <2>2, <2>4, <2>5
<1>10. CASE avl_height(t, i) >= avl_height(t, t.right[r])
  <2> DEFINE w == rot_right(t, r)
             s == RightTurned(t, r)
             v == rot_left(s, n)
             u == LeftTurned(s, n)
  <2>0. r = t.right[n] /\ i = t.left[r] /\ p = t.parent[n]
    OBVIOUS
  <2> HIDE DEF r, i, p
  <2>1. i # NULL /\ i \in M /\ t.parent[i] = r
    <3>1. Exactly(t, r)
      BY <1>6 DEF ExactOff
    <3>2. avl_height(t, r) = 1 + Larger(avl_height(t, i), avl_height(t, t.right[r]))
      BY <1>6, <2>0, <3>1 DEF Exactly, Exact, avl_height, SizeOf
    <3>3. avl_height(t, t.right[r]) \in Nat /\ avl_height(t, i) \in Nat
      BY <1>1, <1>3, <1>4, <1>6, <2>0
    <3>4. avl_height(t, i) # 0
      BY <1>5, <1>10, <3>2, <3>3 DEF Larger
    <3>5. i # NULL
      BY <3>4 DEF avl_height
    <3> QED BY <1>1, <1>6, <2>0, <3>5 DEF Linked
  <2>2. /\ w \in Tree
        /\ \A x \in Node : w.right[x] = IF x = i THEN r ELSE t.right[x]
        /\ \A x \in Node : w.left[x] = IF x = r THEN t.right[i] ELSE t.left[x]
        /\ Shape(s, M, R, X)
        /\ ExactOff(s, M, W \cup {n})
        /\ TurnsParents(t.parent, s.parent, r, i, t.right[i])
        /\ \A x \in Node \ M : SameFields(t, s, x)
    <3>1. t.parent[r] = n /\ (t.parent[r] # NULL => t.parent[r] \in W \cup {n})
      BY <1>6
    <3>2. t.left[r] = i
      BY <2>0
    <3>3. /\ w \in Tree
          /\ \A x \in Node : w.right[x] = IF x = t.left[r] THEN r ELSE t.right[x]
          /\ \A x \in Node : w.left[x] = IF x = r THEN t.right[t.left[r]] ELSE t.left[x]
          /\ Shape(s, M, R, X)
          /\ ExactOff(s, M, W \cup {n})
          /\ TurnsParents(t.parent, s.parent, r, t.left[r], t.right[t.left[r]])
          /\ \A x \in Node \ M : SameFields(t, s, x)
      <4>1. r \in M /\ t.left[r] # NULL
        BY <1>6, <2>1, <3>2
      <4>2. t.parent[r] # NULL => t.parent[r] \in W \cup {n}
        BY <3>1
      <4>3. ExactOff(t, M, (W \cup {n}) \cup {r})
        BY <1>8
      <4> QED BY <4>1, <4>2, <4>3, RotateRight
    <3> QED BY <3>2, <3>3
  <2> HIDE DEF w, s
  <2>3. i # n
    BY <1>1, <1>6, <1>7, <2>0, <2>1
  <2>4. s = [w EXCEPT !.right[n] = i] /\ s.right[n] = i
    <3>1. w.right[n] = r /\ w.left[n] # r
      BY <1>1, <1>2, <1>6, <2>0, <2>2, <2>3 DEF Linked
    <3>2. s = Replace(w, n, r, i)
      BY <1>6, <2>0 DEF s, w, RightTurned
    <3> QED BY <1>2, <2>2, <3>1, <3>2 DEF Replace, Tree
  <2>5. rot_right_left(t, n) = v
    BY <1>10, <2>0, <2>4 DEF rot_right_left, w
  <2>6. \A x \in W \cup {n} : x # r /\ x # i /\ (x # NULL => x # t.right[i])
    BY <1>1, <1>6, <2>0, <2>1 DEF Linked
  <2>7. \A x \in W \cup {n} : s.parent[x] = t.parent[x]
    BY <1>2, <2>2, <2>6 DEF TurnsParents
  <2>8. s.parent[n] = p
    BY <2>0, <2>7
  <2>9. /\ v.parent[n] = i
        /\ Shape(u, M, R, X)
        /\ ExactOff(u, M, W)
        /\ TurnsParents(s.parent, u.parent, n, i, s.left[i])
        /\ \A x \in Node \ M : SameFields(s, u, x)
    <3>1. s.parent[n] # NULL => s.parent[n] \in W
      BY <1>7, <2>0, <2>8
    <3>2. Shape(s, M, R, X) /\ ExactOff(s, M, W \cup {n}) /\ s.right[n] # NULL
      BY <2>1, <2>2, <2>4
    <3>3. /\ v.parent[n] = s.right[n]
          /\ Shape(u, M, R, X)
          /\ ExactOff(u, M, W)
          /\ TurnsParents(s.parent, u.parent, n, s.right[n], s.left[s.right[n]])
          /\ \A x \in Node \ M : SameFields(s, u, x)
      BY <3>1, <3>2, RotateLeft, SMTT(30)
    <3> QED BY <2>4, <3>3
  <2> HIDE DEF v, u
  <2>10. \A x \in W : u.parent[x] = t.parent[x]
    <3> SUFFICES ASSUME NEW x \in W PROVE u.parent[x] = t.parent[x]
      OBVIOUS
    <3>1. Linked(s.root, s.parent, s.left, s.right, M)
      BY <2>2 DEF Shape, Shaped
    <3>2. x # i /\ x # n /\ x \in Node /\ s.parent[x] = t.parent[x] /\ t.parent[x] # i
      BY <2>1, <2>6, <2>7
    <3>3. x # s.left[i]
      BY <2>1, <3>1, <3>2 DEF Linked
    <3> QED BY <2>9, <3>2, <3>3 DEF TurnsParents
  <2>11. \A x \in Node \ M : SameFields(t, u, x)
    BY <2>2, <2>9 DEF SameFields
  <2>12. u = Replace(v, p, n, v.parent[n])
    BY <2>0, <2>4, <2>8, <2>9 DEF u, v, LeftTurned
  <2> QED BY <2>0, <2>5, <2>9, <2>10, <2>11, <2>12
<1> QED BY <1>9, <1>10

\* Two trees with the same pointers are search trees, or not, together.
LEMMA SamePointers ==
  ASSUME NEW t, NEW u \in Tree, NEW M, NEW R, NEW X, Shape(t, M, R, X),
         u.root = t.root, u.parent = t.parent, u.left = t.left, u.right = t.right
  PROVE  Shape(u, M, R, X)
BY DEF Shape, Shaped

\* One iteration of avl_fix makes n exact; what was wrong above n may still be.
LEMMA FixAtKeeps ==
  ASSUME NEW R, NEW X, Ordered(R, X), NEW M, NEW t, Shape(t, M, R, X),
         NEW n \in M, NEW W \in SUBSET Node, n \notin W,
         \A x \in W \cup {n} : t.parent[x] \in W \cup {NULL},
         ExactOff(t, M, W \cup {n})
  PROVE  LET u == FixAt(t, n)
         IN  /\ Shape(u, M, R, X)
             /\ ExactOff(u, M, W)
             /\ \A x \in W : u.parent[x] = t.parent[x]
             /\ \A x \in Node \ M : SameFields(t, u, x)
<1> USE NullAssumption
<1> DEFINE w == avl_update(t, n)
<1>1. t \in Tree /\ M \in SUBSET Node /\ Linked(t.root, t.parent, t.left, t.right, M) /\ n \in Node
  BY DEF Shape, Shaped
<1>2. /\ w \in Tree
      /\ w.root = t.root /\ w.parent = t.parent /\ w.left = t.left /\ w.right = t.right
      /\ \A x \in Node \ {n} : w.height[x] = t.height[x] /\ w.cnt[x] = t.cnt[x]
      /\ w.height[n] = 1 + Larger(SizeOf(t.height, t.left[n]), SizeOf(t.height, t.right[n]))
      /\ w.cnt[n] = 1 + SizeOf(t.cnt, t.left[n]) + SizeOf(t.cnt, t.right[n])
  BY <1>1, UpdateFields
<1>3. FixAt(t, n) = IF avl_height(w, w.left[n]) = avl_height(w, w.right[n]) + 2
                    THEN Replace(rot_left_right(w, n), w.parent[n], n, rot_left_right(w, n).parent[n])
                    ELSE IF avl_height(w, w.right[n]) = avl_height(w, w.left[n]) + 2
                    THEN Replace(rot_right_left(w, n), w.parent[n], n, rot_right_left(w, n).parent[n])
                    ELSE w
  BY <1>2 DEF FixAt
<1> HIDE DEF w
<1>4. Shape(w, M, R, X)
  BY <1>2, SamePointers
<1>5. \A m \in M : m \notin W => t.left[m] # n /\ t.right[m] # n
  BY <1>1 DEF Linked
<1>6. ExactOff(w, M, W)
  <2> SUFFICES ASSUME NEW m \in M \ W PROVE Exactly(w, m)
    BY DEF ExactOff
  <2>1. /\ t.left[m] \in Node \cup {NULL} /\ t.right[m] \in Node \cup {NULL}
        /\ t.left[m] # n /\ t.right[m] # n
    BY <1>1, <1>5 DEF Tree
  <2>2. /\ SizeOf(w.height, t.left[m]) = SizeOf(t.height, t.left[m])
        /\ SizeOf(w.height, t.right[m]) = SizeOf(t.height, t.right[m])
        /\ SizeOf(w.cnt, t.left[m]) = SizeOf(t.cnt, t.left[m])
        /\ SizeOf(w.cnt, t.right[m]) = SizeOf(t.cnt, t.right[m])
    BY <1>2, <2>1 DEF SizeOf
  <2>3. CASE m = n
    BY <1>2, <2>2, <2>3 DEF Exactly, Exact
  <2>4. CASE m # n
    <3>1. Exactly(t, m) /\ w.height[m] = t.height[m] /\ w.cnt[m] = t.cnt[m]
      BY <1>1, <1>2, <2>4 DEF ExactOff
    <3> QED BY <1>2, <2>2, <3>1 DEF Exactly, Exact
  <2> QED BY <2>3, <2>4
<1>7. \A x \in W \cup {n} : w.parent[x] \in W \cup {NULL}
  BY <1>2
<1>8. \A x \in Node \ M : SameFields(t, w, x)
  BY <1>2 DEF SameFields
<1>9. CASE avl_height(w, w.left[n]) = avl_height(w, w.right[n]) + 2
  <2> DEFINE u == Replace(rot_left_right(w, n), w.parent[n], n, rot_left_right(w, n).parent[n])
  <2>1. /\ Shape(u, M, R, X)
        /\ ExactOff(u, M, W)
        /\ \A x \in W : u.parent[x] = w.parent[x]
        /\ \A x \in Node \ M : SameFields(w, u, x)
    BY <1>4, <1>6, <1>7, <1>9, LeftHeavy
  <2>2. FixAt(t, n) = u
    BY <1>3, <1>9
  <2> HIDE DEF u
  <2>3. \A x \in Node \ M : SameFields(t, u, x)
    BY <1>8, <2>1 DEF SameFields
  <2> QED BY <1>2, <2>1, <2>2, <2>3
<1>10. CASE /\ avl_height(w, w.left[n]) # avl_height(w, w.right[n]) + 2
            /\ avl_height(w, w.right[n]) = avl_height(w, w.left[n]) + 2
  <2> DEFINE u == Replace(rot_right_left(w, n), w.parent[n], n, rot_right_left(w, n).parent[n])
  <2>1. /\ Shape(u, M, R, X)
        /\ ExactOff(u, M, W)
        /\ \A x \in W : u.parent[x] = w.parent[x]
        /\ \A x \in Node \ M : SameFields(w, u, x)
    <3>1. avl_height(w, w.right[n]) = avl_height(w, w.left[n]) + 2
      BY <1>10
    <3> QED BY <1>4, <1>6, <1>7, <3>1, RightHeavy
  <2>2. FixAt(t, n) = u
    BY <1>3, <1>10
  <2> HIDE DEF u
  <2>3. \A x \in Node \ M : SameFields(t, u, x)
    BY <1>8, <2>1 DEF SameFields
  <2> QED BY <1>2, <2>1, <2>2, <2>3
<1>11. CASE /\ avl_height(w, w.left[n]) # avl_height(w, w.right[n]) + 2
            /\ avl_height(w, w.right[n]) # avl_height(w, w.left[n]) + 2
  <2>1. FixAt(t, n) = w
    BY <1>3, <1>11
  <2> QED BY <1>2, <1>4, <1>6, <1>8, <2>1
<1> QED BY <1>9, <1>10, <1>11

\* The path from n to the root: it climbs from parent to parent, never to a node it has
\* been at, and ends where there is no parent.
Climbs(P, s) ==
  /\ s \in Seq(Node) /\ Len(s) >= 1
  /\ P[s[Len(s)]] = NULL
  /\ \A i \in 1 .. Len(s) - 1 : P[s[i]] = s[i + 1]

LEMMA PathClimbs ==
  ASSUME NEW t, t.parent \in [Node -> Node \cup {NULL}], NEW rk, Ranked(t.parent, rk),
         NEW n \in Node
  PROVE  /\ Climbs(t.parent, Path(t, n))
         /\ Path(t, n)[1] = n
         /\ \A i, j \in 1 .. Len(Path(t, n)) : i < j => rk[Path(t, n)[j]] < rk[Path(t, n)[i]]
<1> USE NullAssumption
<1> DEFINE P == t.parent
           up[m \in Node] == IF t.parent[m] = NULL THEN <<m>> ELSE <<m>> \o up[t.parent[m]]
           D == [f \in [Node -> Seq(Node)] |->
                  [m \in Node |-> IF P[m] = NULL THEN <<m>> ELSE <<m>> \o f[P[m]]]]
<1>1. rk \in [Node -> Nat] /\ \A m \in Node : P[m] # NULL => P[m] \in Node /\ rk[P[m]] < rk[m]
  BY DEF Ranked
<1>2. Ranks(Node, rk)
  BY <1>1 DEF Ranked, Ranks
<1>3. Recursive(Node, Seq(Node), rk, D)
  <2>1. Seq(Node) # {}
    <3>1. << >> \in Seq(Node)
      OBVIOUS
    <3> QED BY <3>1
  <2>2. D \in [[Node -> Seq(Node)] -> [Node -> Seq(Node)]]
    <3> SUFFICES ASSUME NEW f \in [Node -> Seq(Node)], NEW m \in Node
                 PROVE  (IF P[m] = NULL THEN <<m>> ELSE <<m>> \o f[P[m]]) \in Seq(Node)
      OBVIOUS
    <3>1. <<m>> \in Seq(Node)
      OBVIOUS
    <3>2. P[m] # NULL => f[P[m]] \in Seq(Node)
      BY <1>1
    <3> QED BY <3>1, <3>2
  <2>3. \A g, h \in [Node -> Seq(Node)], m \in Node :
           (\A k \in Node : rk[k] < rk[m] => g[k] = h[k]) => D[g][m] = D[h][m]
    BY <1>1
  <2> QED BY <2>1, <2>2, <2>3 DEF Recursive
<1>4. \E f \in [Node -> Seq(Node)] : f = D[f]
  <2> HIDE DEF D
  <2> QED BY <1>2, <1>3, Recursion
<1>5. PICK f \in [Node -> Seq(Node)] : f = D[f]
  BY <1>4
<1>6. f = [m \in Node |-> IF t.parent[m] = NULL THEN <<m>> ELSE <<m>> \o f[t.parent[m]]]
  BY <1>5
<1>7. up = [m \in Node |-> IF t.parent[m] = NULL THEN <<m>> ELSE <<m>> \o up[t.parent[m]]]
  <2> HIDE DEF D
  <2> QED BY <1>6
<1>8. Path(t, n) = up[n]
  BY DEF Path
<1> HIDE DEF up
<1>9. \A m \in Node : up[m] = IF P[m] = NULL THEN <<m>> ELSE <<m>> \o up[P[m]]
  BY <1>7
<1> DEFINE Good(m) == /\ Climbs(P, up[m]) /\ up[m][1] = m
                      /\ \A i, j \in 1 .. Len(up[m]) : i < j => rk[up[m][j]] < rk[up[m][i]]
           G == {m \in Node : Good(m)}
<1>10. ASSUME NEW m \in Node, \A k \in Node : rk[k] < rk[m] => k \in G PROVE m \in G
  <2>1. CASE P[m] = NULL
    <3>1. up[m] = <<m>>
      BY <1>9, <2>1
    <3>2. up[m] \in Seq(Node) /\ Len(up[m]) = 1 /\ up[m][1] = m
      BY <3>1
    <3>3. \A i, j \in 1 .. Len(up[m]) : ~(i < j)
      BY <3>2
    <3> QED BY <2>1, <3>2, <3>3 DEF Climbs
  <2>2. CASE P[m] # NULL
    <3> DEFINE q == P[m]
               s == up[q]
    <3>1. q \in Node /\ Climbs(P, s) /\ s[1] = q /\ rk[q] < rk[m]
          /\ \A i, j \in 1 .. Len(s) : i < j => rk[s[j]] < rk[s[i]]
      BY <1>1, <1>10, <2>2
    <3>2. up[m] = <<m>> \o s
      BY <1>9, <2>2
    <3>3. q = P[m]
      OBVIOUS
    <3> HIDE DEF q, s
    <3>4. s \in Seq(Node) /\ Len(s) \in Nat /\ Len(s) >= 1
      BY <3>1 DEF Climbs
    <3>5. /\ up[m] \in Seq(Node) /\ Len(up[m]) = Len(s) + 1 /\ up[m][1] = m
          /\ \A i \in 2 .. Len(s) + 1 : up[m][i] = s[i - 1]
      BY <3>2, <3>4
    <3>6. Climbs(P, up[m])
      <4>1. P[up[m][Len(up[m])]] = NULL
        <5>1. Len(s) + 1 \in 2 .. Len(s) + 1 /\ (Len(s) + 1) - 1 = Len(s)
          BY <3>4
        <5>2. up[m][Len(up[m])] = s[Len(s)]
          BY <3>5, <5>1
        <5> QED BY <3>1, <5>2 DEF Climbs
      <4>2. ASSUME NEW i \in 1 .. Len(up[m]) - 1 PROVE P[up[m][i]] = up[m][i + 1]
        <5>1. CASE i = 1
          BY <3>1, <3>3, <3>4, <3>5, <5>1
        <5>2. CASE i # 1
          <6>1. i - 1 \in 1 .. Len(s) - 1 /\ (i - 1) + 1 = (i + 1) - 1
            BY <3>4, <3>5, <5>2
          <6>2. up[m][i] = s[i - 1] /\ up[m][i + 1] = s[(i - 1) + 1]
            BY <3>4, <3>5, <6>1, SMTT(30)
          <6> QED BY <3>1, <6>1, <6>2 DEF Climbs
        <5> QED BY <5>1, <5>2
      <4> QED BY <3>4, <3>5, <4>1, <4>2 DEF Climbs
    <3>7. ASSUME NEW i \in 1 .. Len(up[m]), NEW j \in 1 .. Len(up[m]), i < j
          PROVE  rk[up[m][j]] < rk[up[m][i]]
      <4>1. j - 1 \in 1 .. Len(s) /\ up[m][j] = s[j - 1]
        BY <3>4, <3>5, <3>7
      <4>2. s[j - 1] \in Node /\ rk[s[j - 1]] \in Nat /\ rk[q] \in Nat /\ rk[m] \in Nat
        BY <1>1, <3>1, <3>4, <4>1, SMTT(30)
      <4>3. CASE i = 1
        <5>1. j - 1 = 1 \/ (1 < j - 1 /\ 1 \in 1 .. Len(s))
          BY <3>4, <4>1
        <5>2. rk[s[j - 1]] <= rk[q]
          <6>1. CASE j - 1 = 1
            <7>1. s[j - 1] = q
              BY <3>1, <6>1
            <7> QED BY <4>2, <7>1
          <6>2. CASE 1 < j - 1 /\ 1 \in 1 .. Len(s)
            <7>1. rk[s[j - 1]] < rk[s[1]]
              BY <3>1, <4>1, <6>2
            <7> QED BY <3>1, <4>2, <7>1
          <6> QED BY <5>1, <6>1, <6>2
        <5>3. up[m][j] = s[j - 1] /\ up[m][i] = m
          BY <3>5, <4>1, <4>3
        <5> QED BY <3>1, <4>2, <5>2, <5>3
      <4>4. CASE i # 1
        <5>1. i - 1 \in 1 .. Len(s) /\ up[m][i] = s[i - 1] /\ i - 1 < j - 1
          BY <3>4, <3>5, <3>7, <4>4
        <5> QED BY <3>1, <4>1, <5>1
      <4> QED BY <4>3, <4>4
    <3> QED BY <3>5, <3>6, <3>7
  <2> QED BY <2>1, <2>2
<1>11. n \in G
  <2> HIDE DEF G
  <2>1. Inherited(Node, rk, G)
    BY <1>10 DEF Inherited
  <2>2. Node \subseteq G
    BY <1>2, <2>1, RankInduction
  <2> QED BY <2>2
<1> QED BY <1>8, <1>11

\* s is the path that avl_fix climbs from n to the root of t, and f[i] is the tree after
\* the first i repairs.
Repairs(t, M, n, s, f) ==
  /\ s \in Seq(Node) /\ Len(s) >= 1 /\ s[1] = n
  /\ t.parent[s[Len(s)]] = NULL
  /\ \A i \in 1 .. Len(s) - 1 : t.parent[s[i]] = s[i + 1]
  /\ \A i \in 1 .. Len(s) : s[i] \in M
  /\ f[0] = t /\ \A i \in 1 .. Len(s) : f[i] = FixAt(f[i - 1], s[i])
  /\ avl_fix(t, n) = f[Len(s)]

\* What is true of g, the tree after the first i repairs.
Repaired(t, g, M, R, X, s, i) ==
  /\ Shape(g, M, R, X)
  /\ ExactOff(g, M, {s[j] : j \in i + 1 .. Len(s)})
  /\ \A j \in i + 1 .. Len(s) : g.parent[s[j]] = t.parent[s[j]]
  /\ \A x \in Node \ M : SameFields(t, g, x)

\* avl_fix climbs the path that is there when it begins, although it rotates on the
\* way: the trees in between are search trees, exact but for the nodes it still has to
\* repair, if only the node at which it begins and the parent of that were wrong.
LEMMA FixRepairs ==
  ASSUME NEW R, NEW X, Ordered(R, X), NEW M, NEW t, Shape(t, M, R, X),
         NEW n \in M, ExactOff(t, M, {n, t.parent[n]})
  PROVE  \E s, f : /\ Repairs(t, M, n, s, f)
                   /\ \A i \in 0 .. Len(s) : Repaired(t, f[i], M, R, X, s, i)
<1> USE NullAssumption
<1> DEFINE s == Path(t, n)
           L == Len(s)
           fixed[i \in 0 .. Len(s)] == IF i = 0 THEN t ELSE FixAt(fixed[i - 1], s[i])
<1>1. PICK J, rk : Shaped(t, M, R, X, J, rk)
  BY DEF Shape
<1>2. /\ t \in Tree /\ M \in SUBSET Node
      /\ Linked(t.root, t.parent, t.left, t.right, M)
      /\ Ranked(t.parent, rk)
      /\ t.parent \in [Node -> Node \cup {NULL}]
  BY <1>1 DEF Shaped, Tree
<1>3. /\ Climbs(t.parent, s) /\ s[1] = n
      /\ \A i, j \in 1 .. L : i < j => rk[s[j]] < rk[s[i]]
  BY <1>2, PathClimbs
<1>4. avl_fix(t, n) = fixed[L]
  BY DEF avl_fix
<1> HIDE DEF s
<1>5. s \in Seq(Node) /\ L \in Nat /\ L >= 1 /\ t.parent[s[L]] = NULL
      /\ \A i \in 1 .. L - 1 : t.parent[s[i]] = s[i + 1]
  BY <1>3 DEF Climbs
<1>6. \A i \in 1 .. L : s[i] \in Node /\ rk[s[i]] \in Nat
  BY <1>2, <1>5 DEF Ranked
<1>7. \A i, j \in 1 .. L : i # j => s[i] # s[j]
  <2> SUFFICES ASSUME NEW i \in 1 .. L, NEW j \in 1 .. L, i # j, s[i] = s[j] PROVE FALSE
    OBVIOUS
  <2>1. i < j \/ j < i
    OBVIOUS
  <2> QED BY <1>3, <1>6, <2>1
<1> HIDE DEF L
<1>8. \A i \in 1 .. L : s[i] \in M
  <2> DEFINE T == {k \in Nat : k + 1 <= L => s[k + 1] \in M}
  <2>1. 0 \in T
    BY <1>3
  <2>2. ASSUME NEW k \in Nat, k \in T PROVE k + 1 \in T
    <3> SUFFICES ASSUME (k + 1) + 1 <= L PROVE s[(k + 1) + 1] \in M
      OBVIOUS
    <3>1. s[k + 1] \in M /\ k + 1 \in 1 .. L - 1 /\ (k + 1) + 1 \in 1 .. L
      BY <1>5, <2>2
    <3>2. t.parent[s[k + 1]] = s[(k + 1) + 1] /\ s[(k + 1) + 1] # NULL
      BY <1>5, <1>6, <3>1
    <3> QED BY <1>2, <3>1, <3>2 DEF Linked
  <2> HIDE DEF T
  <2>3. Nat \subseteq T
    BY <2>1, <2>2, Induction
  <2>4. \A i \in 1 .. L : i - 1 \in Nat /\ i - 1 \in T /\ (i - 1) + 1 = i
    BY <1>5, <2>3
  <2> QED BY <2>4 DEF T
<1>9. \E f : f = [i \in 0 .. L |-> IF i = 0 THEN t ELSE FixAt(f[i - 1], s[i])]
  <2> DEFINE Unfolds(f, k) == f = [i \in 0 .. k |-> IF i = 0 THEN t ELSE FixAt(f[i - 1], s[i])]
             T == {k \in Nat : \E f : Unfolds(f, k)}
  <2>1. 0 \in T
    <3> DEFINE f == [i \in 0 .. 0 |-> t]
    <3>1. f = [i \in 0 .. 0 |-> IF i = 0 THEN t ELSE FixAt(f[i - 1], s[i])]
      OBVIOUS
    <3> QED BY <3>1
  <2>2. ASSUME NEW k \in Nat, k \in T PROVE k + 1 \in T
    <3>1. PICK f : Unfolds(f, k)
      BY <2>2
    <3> DEFINE g == [i \in 0 .. k + 1 |-> IF i \in 0 .. k THEN f[i] ELSE FixAt(f[k], s[k + 1])]
    <3>2. ASSUME NEW i \in 0 .. k + 1
          PROVE  g[i] = IF i = 0 THEN t ELSE FixAt(g[i - 1], s[i])
      <4>1. CASE i = 0
        BY <3>1, <4>1
      <4>2. CASE i \in 1 .. k
        <5>1. i \in 0 .. k /\ i # 0 /\ i - 1 \in 0 .. k /\ i - 1 \in 0 .. k + 1
          BY <4>2
        <5>2. f[i] = FixAt(f[i - 1], s[i])
          BY <3>1, <5>1
        <5>3. g[i] = f[i] /\ g[i - 1] = f[i - 1]
          BY <5>1
        <5> QED BY <5>1, <5>2, <5>3
      <4>3. CASE i = k + 1
        <5>1. i \notin 0 .. k /\ i # 0 /\ i - 1 = k /\ k \in 0 .. k /\ k \in 0 .. k + 1
          BY <4>3
        <5>2. g[i] = FixAt(f[k], s[k + 1]) /\ g[i - 1] = f[k]
          BY <5>1
        <5> QED BY <4>3, <5>1, <5>2
      <4> QED BY <4>1, <4>2, <4>3
    <3>3. g = [i \in 0 .. k + 1 |-> g[i]]
      OBVIOUS
    <3> HIDE DEF g
    <3>4. g = [i \in 0 .. k + 1 |-> IF i = 0 THEN t ELSE FixAt(g[i - 1], s[i])]
      BY <3>2, <3>3
    <3> QED BY <3>4
  <2> HIDE DEF T
  <2>3. L \in T
    BY <1>5, <2>1, <2>2, Induction
  <2> QED BY <2>3 DEF T
<1>10. fixed = [i \in 0 .. L |-> IF i = 0 THEN t ELSE FixAt(fixed[i - 1], s[i])]
  BY <1>9 DEF L
<1>11. avl_fix(t, n) = fixed[L]
  BY <1>4 DEF L
<1> HIDE DEF fixed
<1>12. fixed[0] = t /\ \A i \in 1 .. L : fixed[i] = FixAt(fixed[i - 1], s[i])
  <2>1. \A i \in 0 .. L : fixed[i] = IF i = 0 THEN t ELSE FixAt(fixed[i - 1], s[i])
    BY <1>10
  <2> QED BY <1>5, <2>1
<1> DEFINE Above(i) == {s[j] : j \in i + 1 .. L}
           Good(i, g) == /\ Shape(g, M, R, X)
                         /\ ExactOff(g, M, Above(i))
                         /\ \A j \in i + 1 .. L : g.parent[s[j]] = t.parent[s[j]]
                         /\ \A x \in Node \ M : SameFields(t, g, x)
           T == {i \in Nat : i <= L => Good(i, fixed[i])}
<1>13. 0 \in T
  <2>1. \A m \in M : m \notin Above(0) => m # n /\ m # t.parent[n]
    <3>1. s[1] \in Above(0)
      BY <1>5
    <3>2. t.parent[n] # NULL => t.parent[n] \in Above(0)
      <4> SUFFICES ASSUME t.parent[n] # NULL PROVE t.parent[n] \in Above(0)
        OBVIOUS
      <4>1. L # 1
        BY <1>3, <1>5
      <4>2. 1 \in 1 .. L - 1 /\ 2 \in 0 + 1 .. L /\ 1 + 1 = 2
        BY <1>5, <4>1
      <4>3. t.parent[n] = s[2]
        BY <1>3, <1>5, <4>2
      <4> QED BY <4>2, <4>3
    <3> QED BY <1>2, <1>3, <3>1, <3>2
  <2>2. ExactOff(t, M, Above(0))
    <3> HIDE DEF Above
    <3> QED BY <2>1 DEF ExactOff
  <2>3. \A x \in Node \ M : SameFields(t, t, x)
    BY DEF SameFields
  <2> QED BY <1>12, <2>2, <2>3
<1>14. ASSUME NEW i \in Nat, i \in T PROVE i + 1 \in T
  <2> SUFFICES ASSUME i + 1 <= L PROVE Good(i + 1, fixed[i + 1])
    OBVIOUS
  <2> DEFINE g == fixed[i]
             m == s[i + 1]
             W == Above(i + 1)
  <2>1. Good(i, g) /\ i + 1 \in 1 .. L /\ (i + 1) - 1 = i
    BY <1>5, <1>14
  <2>2. m \in M /\ W \in SUBSET Node /\ m \notin W
    BY <1>5, <1>6, <1>7, <1>8, <2>1
  <2>3. Above(i) = W \cup {m}
    <3>1. i + 1 .. L = (i + 2 .. L) \cup {i + 1}
      BY <1>5, <2>1
    <3> QED BY <3>1
  <2>4. \A j \in i + 1 .. L : j \in 1 .. L /\ g.parent[s[j]] = t.parent[s[j]]
    BY <1>5, <2>1
  <2>5. \A j \in i + 1 .. L : t.parent[s[j]] \in W \cup {NULL}
    <3> SUFFICES ASSUME NEW j \in i + 1 .. L PROVE t.parent[s[j]] \in W \cup {NULL}
      OBVIOUS
    <3>1. CASE j = L
      BY <1>5, <3>1
    <3>2. CASE j # L
      <4>1. j \in 1 .. L - 1 /\ j + 1 \in (i + 1) + 1 .. L
        BY <1>5, <3>2
      <4>2. t.parent[s[j]] = s[j + 1]
        BY <1>5, <4>1
      <4> QED BY <4>1, <4>2
    <3> QED BY <3>1, <3>2
  <2>6. \A x \in W \cup {m} : g.parent[x] \in W \cup {NULL}
    <3> SUFFICES ASSUME NEW x \in Above(i) PROVE g.parent[x] \in W \cup {NULL}
      BY <2>3
    <3>1. PICK j \in i + 1 .. L : x = s[j]
      OBVIOUS
    <3> HIDE DEF g, W
    <3> QED BY <2>4, <2>5, <3>1
  <2>7. fixed[i + 1] = FixAt(g, m)
    BY <1>12, <2>1
  <2>8. Shape(g, M, R, X) /\ ExactOff(g, M, W \cup {m})
    BY <2>1, <2>3
  <2>9. \A x \in Node \ M : SameFields(t, g, x)
    BY <2>1
  <2>10. \A j \in (i + 1) + 1 .. L : s[j] \in W /\ j \in i + 1 .. L
    BY <1>5, <2>1
  <2> DEFINE u == fixed[i + 1]
  <2> HIDE DEF g, m, W, u, Above
  <2>11. LET v == FixAt(g, m)
         IN  /\ Shape(v, M, R, X)
             /\ ExactOff(v, M, W)
             /\ \A x \in W : v.parent[x] = g.parent[x]
             /\ \A x \in Node \ M : SameFields(g, v, x)
    BY <2>2, <2>6, <2>8, FixAtKeeps
  <2>12. u = FixAt(g, m)
    BY <2>7 DEF u
  <2>13. Shape(u, M, R, X) /\ ExactOff(u, M, W)
    BY <2>11, <2>12
  <2>14. \A j \in (i + 1) + 1 .. L : u.parent[s[j]] = t.parent[s[j]]
    BY <2>4, <2>10, <2>11, <2>12
  <2>15. \A x \in Node \ M : SameFields(t, u, x)
    BY <2>9, <2>11, <2>12 DEF SameFields
  <2> QED BY <2>13, <2>14, <2>15 DEF u, W
<1>15. \A i \in 0 .. L : Good(i, fixed[i])
  <2> HIDE DEF T, Good
  <2>1. Nat \subseteq T
    BY <1>13, <1>14, Induction
  <2>2. \A i \in 0 .. L : i \in T /\ i <= L
    BY <1>5, <2>1
  <2> QED BY <2>2 DEF T
<1>16. \A i \in 0 .. L : Repaired(t, fixed[i], M, R, X, s, i)
  BY <1>15 DEF Repaired, L
<1>17. Repairs(t, M, n, s, fixed)
  BY <1>3, <1>5, <1>8, <1>11, <1>12 DEF Repairs, L
<1> QED BY <1>16, <1>17 DEF L

\* So it leaves a search tree with every size exact.
LEMMA FixKeeps ==
  ASSUME NEW R, NEW X, Ordered(R, X), NEW M, NEW t, Shape(t, M, R, X),
         NEW n \in M, ExactOff(t, M, {n, t.parent[n]})
  PROVE  LET u == avl_fix(t, n)
         IN  /\ Shape(u, M, R, X)
             /\ ExactOff(u, M, {})
             /\ \A x \in Node \ M : SameFields(t, u, x)
<1>1. PICK s, f : /\ Repairs(t, M, n, s, f)
                  /\ \A i \in 0 .. Len(s) : Repaired(t, f[i], M, R, X, s, i)
  BY FixRepairs
<1> DEFINE L == Len(s)
<1>2. L \in Nat /\ avl_fix(t, n) = f[L]
  BY <1>1 DEF Repairs
<1>3. Repaired(t, f[L], M, R, X, s, L)
  BY <1>1, <1>2
<1>4. {s[j] : j \in L + 1 .. L} = {}
  BY <1>2
<1> QED BY <1>2, <1>3, <1>4 DEF Repaired
-----------------------------------------------------------------------------
(* Descents *)

\* The nodes outside M point at nothing.
Clean(t, M) ==
  \A x \in Node \ M : t.parent[x] = NULL /\ t.left[x] = NULL /\ t.right[x] = NULL

\* A rank that falls on every way down, to the null pointers too.
Falls(t, d) ==
  /\ Ranks(Node \cup {NULL}, d)
  /\ Ranks(Node, [m \in Node |-> d[m]])
  /\ \A m \in Node : d[t.left[m]] < d[m] /\ d[t.right[m]] < d[m]

LEMMA DownRank ==
  ASSUME NEW t, NEW M, NEW R, NEW X, Shape(t, M, R, X), Clean(t, M)
  PROVE  \E d : Falls(t, d)
<1> USE NullAssumption
<1>1. PICK J, rk : Shaped(t, M, R, X, J, rk)
  BY DEF Shape
<1>2. /\ t \in Tree /\ M \in SUBSET Node
      /\ Linked(t.root, t.parent, t.left, t.right, M)
      /\ rk \in [Node -> Nat]
      /\ \A m \in Node : t.parent[m] # NULL => rk[t.parent[m]] < rk[m]
  BY <1>1 DEF Shaped, Ranked
<1>3. PICK b \in Nat : \A x \in Node : rk[x] <= b
  BY <1>1 DEF Shaped, Ranked
<1> DEFINE d == [m \in Node \cup {NULL} |-> IF m = NULL THEN 0 ELSE (b + 1) - rk[m]]
<1>4. \A m \in Node : rk[m] \in Nat /\ rk[m] <= b /\ d[m] = (b + 1) - rk[m]
  BY <1>2, <1>3
<1>5. d[NULL] = 0
  OBVIOUS
<1>6. \A m \in Node : d[m] \in 0 .. b + 1 /\ d[m] > 0
  BY <1>4
<1>7. d \in [Node \cup {NULL} -> 0 .. b + 1]
  BY <1>5, <1>6
<1>8. [m \in Node |-> d[m]] \in [Node -> 0 .. b + 1]
  BY <1>6
<1> HIDE DEF d
<1>9. ASSUME NEW m \in Node, NEW c \in {t.left[m], t.right[m]} PROVE d[c] < d[m]
  <2>1. CASE c = NULL
    BY <1>5, <1>6, <2>1
  <2>2. CASE c # NULL
    <3>1. m \in M
      BY <2>2 DEF Clean
    <3>2. c \in Node /\ t.parent[c] = m
      BY <1>2, <2>2, <3>1 DEF Linked
    <3>3. rk[m] < rk[c]
      BY <1>2, <3>2
    <3> QED BY <1>4, <3>2, <3>3
  <2> QED BY <2>1, <2>2
<1>10. b + 1 \in Nat
  OBVIOUS
<1> QED BY <1>7, <1>8, <1>9, <1>10 DEF Falls, Ranks

\* K[m] holds everything that a search which comes to m can be looking for.
Widest(t, K, R, M) ==
  /\ \A m \in M : t.left[m] # NULL => K[t.left[m]] = {x \in K[m] : <<x, m>> \in R}
  /\ \A m \in M : t.right[m] # NULL => K[t.right[m]] = {x \in K[m] : <<m, x>> \in R}

\* A search tree is one for a larger order, too.
LEMMA Widen ==
  ASSUME NEW t, NEW M, NEW R, NEW X, NEW J, NEW rk, Shaped(t, M, R, X, J, rk),
         NEW Q, NEW Y, X \subseteq Y, \A x, y \in X : <<x, y>> \in R => <<x, y>> \in Q
  PROVE  \E K : Shaped(t, M, Q, Y, K, rk) /\ Widest(t, K, Q, M)
<1> USE NullAssumption
<1> DEFINE P == t.parent
           V == SUBSET Y
           Sides(S, m) == {x \in S : IF t.left[P[m]] = m THEN <<x, P[m]>> \in Q
                                                       ELSE <<P[m], x>> \in Q}
           D == [f \in [Node -> V] |->
                  [m \in Node |-> IF P[m] = NULL THEN Y ELSE Sides(f[P[m]], m)]]
<1>1. /\ t \in Tree /\ M \in SUBSET Node
      /\ Linked(t.root, t.parent, t.left, t.right, M)
      /\ Ranked(t.parent, rk)
      /\ Sided(t.root, t.left, t.right, J, R, X, M)
  BY DEF Shaped
<1>2. rk \in [Node -> Nat] /\ \A m \in Node : P[m] # NULL => P[m] \in Node /\ rk[P[m]] < rk[m]
  BY <1>1 DEF Ranked, Tree
<1>3. Ranks(Node, rk)
  BY <1>1, <1>2 DEF Ranked, Ranks
<1>4. Recursive(Node, V, rk, D)
  <2>1. V # {}
    <3>1. Y \in V
      OBVIOUS
    <3> QED BY <3>1
  <2>2. D \in [[Node -> V] -> [Node -> V]]
    <3> SUFFICES ASSUME NEW f \in [Node -> V], NEW m \in Node
                 PROVE  (IF P[m] = NULL THEN Y ELSE Sides(f[P[m]], m)) \in V
      OBVIOUS
    <3>1. P[m] # NULL => f[P[m]] \in SUBSET Y
      BY <1>2
    <3> QED BY <3>1
  <2>3. \A g, h \in [Node -> V], m \in Node :
          (\A k \in Node : rk[k] < rk[m] => g[k] = h[k]) => D[g][m] = D[h][m]
    <3> SUFFICES ASSUME NEW g \in [Node -> V], NEW h \in [Node -> V], NEW m \in Node,
                        \A k \in Node : rk[k] < rk[m] => g[k] = h[k]
                 PROVE  D[g][m] = D[h][m]
      OBVIOUS
    <3>1. P[m] # NULL => g[P[m]] = h[P[m]]
      BY <1>2
    <3> QED BY <3>1
  <2> QED BY <2>1, <2>2, <2>3 DEF Recursive
<1>5. PICK K \in [Node -> V] : K = D[K]
  <2> HIDE DEF D, V
  <2> QED BY <1>3, <1>4, Recursion
<1>6. \A m \in Node : K[m] = IF P[m] = NULL THEN Y ELSE Sides(K[P[m]], m)
  BY <1>5
<1>7. ASSUME NEW m \in M, t.left[m] # NULL PROVE K[t.left[m]] = {x \in K[m] : <<x, m>> \in Q}
  <2>1. t.left[m] \in Node /\ P[t.left[m]] = m /\ m # NULL
    BY <1>1, <1>7 DEF Linked
  <2>2. K[t.left[m]] = Sides(K[m], t.left[m])
    <3> HIDE DEF Sides
    <3> QED BY <1>6, <2>1
  <2>3. \A S : Sides(S, t.left[m]) = {x \in S : <<x, m>> \in Q}
    BY <2>1
  <2> HIDE DEF Sides
  <2> QED BY <2>2, <2>3
<1>8. ASSUME NEW m \in M, t.right[m] # NULL PROVE K[t.right[m]] = {x \in K[m] : <<m, x>> \in Q}
  <2>1. t.right[m] \in Node /\ P[t.right[m]] = m /\ m # NULL /\ t.left[m] # t.right[m]
    BY <1>1, <1>8 DEF Linked
  <2>2. K[t.right[m]] = Sides(K[m], t.right[m])
    <3> HIDE DEF Sides
    <3> QED BY <1>6, <2>1
  <2>3. \A S : Sides(S, t.right[m]) = {x \in S : <<m, x>> \in Q}
    BY <2>1
  <2> HIDE DEF Sides
  <2> QED BY <2>2, <2>3
<1>9. t.root # NULL => K[t.root] = Y
  BY <1>1, <1>6 DEF Linked
<1> HIDE DEF D, Sides
<1>10. ASSUME NEW m \in M PROVE J[m] \subseteq K[m]
  <2> DEFINE G == {k \in Node : k \in M => J[k] \subseteq K[k]}
  <2>1. ASSUME NEW k \in Node, \A j \in Node : rk[j] < rk[k] => j \in G PROVE k \in G
    <3> SUFFICES ASSUME k \in M, NEW x \in J[k] PROVE x \in K[k]
      OBVIOUS
    <3>1. CASE k = t.root
      BY <1>1, <1>9, <3>1 DEF Sided
    <3>2. CASE k # t.root
      <4> DEFINE q == P[k]
      <4>1. q \in M /\ (t.left[q] = k \/ t.right[q] = k) /\ rk[q] < rk[k] /\ q \in X /\ k # NULL
        BY <1>1, <1>2, <3>2 DEF Linked, Sided
      <4>2. J[q] \subseteq K[q] /\ J[q] \subseteq X
        BY <1>1, <2>1, <4>1 DEF Sided
      <4> HIDE DEF q
      <4>3. CASE t.left[q] = k
        <5>1. x \in J[q] /\ <<x, q>> \in R
          BY <1>1, <4>1, <4>3 DEF Sided
        <5>2. K[k] = {y \in K[q] : <<y, q>> \in Q}
          BY <1>7, <4>1, <4>3
        <5> QED BY <4>1, <4>2, <5>1, <5>2
      <4>4. CASE t.right[q] = k
        <5>1. x \in J[q] /\ <<q, x>> \in R
          BY <1>1, <4>1, <4>4 DEF Sided
        <5>2. K[k] = {y \in K[q] : <<q, y>> \in Q}
          BY <1>8, <4>1, <4>4
        <5> QED BY <4>1, <4>2, <5>1, <5>2
      <4> QED BY <4>1, <4>3, <4>4
    <3> QED BY <3>1, <3>2
  <2> HIDE DEF G
  <2>2. Inherited(Node, rk, G)
    BY <2>1 DEF Inherited
  <2>3. Node \subseteq G
    BY <1>3, <2>2, RankInduction
  <2> QED BY <1>1, <2>3 DEF G
<1>11. \A m \in M : m \in K[m]
  BY <1>1, <1>10 DEF Sided
<1>12. Sided(t.root, t.left, t.right, K, Q, Y, M)
  BY <1>5, <1>7, <1>8, <1>9, <1>11 DEF Sided
<1> QED BY <1>1, <1>7, <1>8, <1>12 DEF Shaped, Widest

\* The members among what a search that comes to c can be looking for.
Under(K, M, c) == IF c = NULL THEN {} ELSE K[c] \cap M

\* A search for a member never ends in front of a null pointer: what of M can be looked
\* for at m is m itself and what can be looked for at its two children.
LEMMA Subtrees ==
  ASSUME NEW R, NEW X, Ordered(R, X), NEW M, NEW t, NEW K, NEW rk,
         Shaped(t, M, R, X, K, rk), Widest(t, K, R, M), Clean(t, M)
  PROVE  \A m \in M : Under(K, M, m) = {m} \cup Under(K, M, t.left[m])
                                           \cup Under(K, M, t.right[m])
<1> USE NullAssumption
<1> DEFINE S == Node \cup {NULL}
           V == SUBSET Node
           D == [f \in [S -> V] |->
                  [m \in S |-> IF m = NULL THEN {}
                               ELSE {m} \cup f[t.left[m]] \cup f[t.right[m]]]]
<1>1. /\ t \in Tree /\ M \in SUBSET Node
      /\ Linked(t.root, t.parent, t.left, t.right, M)
      /\ Ranked(t.parent, rk)
      /\ Sided(t.root, t.left, t.right, K, R, X, M)
  BY DEF Shaped
<1>2. PICK d : Falls(t, d)
  <2>1. Shape(t, M, R, X)
    BY DEF Shape
  <2> QED BY <2>1, DownRank
<1>3. /\ Ranks(S, d)
      /\ \A m \in Node : /\ t.left[m] \in S /\ d[t.left[m]] < d[m]
                         /\ t.right[m] \in S /\ d[t.right[m]] < d[m]
  BY <1>1, <1>2 DEF Falls, Tree
<1>4. Recursive(S, V, d, D)
  <2>1. V # {}
    OBVIOUS
  <2>2. D \in [[S -> V] -> [S -> V]]
    <3> SUFFICES ASSUME NEW f \in [S -> V], NEW m \in S
                 PROVE  (IF m = NULL THEN {}
                         ELSE {m} \cup f[t.left[m]] \cup f[t.right[m]]) \in V
      OBVIOUS
    <3>1. m # NULL => f[t.left[m]] \in V /\ f[t.right[m]] \in V
      BY <1>3
    <3> QED BY <3>1
  <2>3. \A g, h \in [S -> V], m \in S :
          (\A k \in S : d[k] < d[m] => g[k] = h[k]) => D[g][m] = D[h][m]
    BY <1>3
  <2> QED BY <2>1, <2>2, <2>3 DEF Recursive
<1>5. PICK sub \in [S -> V] : sub = D[sub]
  <2> HIDE DEF D, S, V
  <2> QED BY <1>3, <1>4, Recursion
<1>6. /\ sub[NULL] = {}
      /\ \A m \in Node : sub[m] = {m} \cup sub[t.left[m]] \cup sub[t.right[m]]
  <2>1. \A m \in S : sub[m] = IF m = NULL THEN {} ELSE {m} \cup sub[t.left[m]] \cup sub[t.right[m]]
    BY <1>5
  <2> QED BY <2>1
<1> HIDE DEF D
<1>7. \A m \in M : m \in K[m] /\ m \in X /\ K[m] \subseteq X
  BY <1>1 DEF Sided
\* Everything below m can be looked for at m.
<1>8. \A m \in M : sub[m] \subseteq K[m] \cap M
  <2> DEFINE G == {k \in S : k \in M => sub[k] \subseteq K[k] \cap M}
  <2>1. ASSUME NEW m \in S, \A k \in S : d[k] < d[m] => k \in G PROVE m \in G
    <3> SUFFICES ASSUME m \in M PROVE sub[m] \subseteq K[m] \cap M
      OBVIOUS
    <3>1. m \in Node /\ t.left[m] \in M \cup {NULL} /\ t.right[m] \in M \cup {NULL}
      BY <1>1 DEF Linked
    <3>2. sub[t.left[m]] \subseteq K[m] \cap M
      <4>1. CASE t.left[m] = NULL
        BY <1>6, <4>1
      <4>2. CASE t.left[m] # NULL
        <5>1. sub[t.left[m]] \subseteq K[t.left[m]] \cap M
          BY <1>3, <2>1, <3>1, <4>2
        <5>2. K[t.left[m]] \subseteq K[m]
          BY <4>2 DEF Widest
        <5> QED BY <5>1, <5>2
      <4> QED BY <4>1, <4>2
    <3>3. sub[t.right[m]] \subseteq K[m] \cap M
      <4>1. CASE t.right[m] = NULL
        BY <1>6, <4>1
      <4>2. CASE t.right[m] # NULL
        <5>1. sub[t.right[m]] \subseteq K[t.right[m]] \cap M
          BY <1>3, <2>1, <3>1, <4>2
        <5>2. K[t.right[m]] \subseteq K[m]
          BY <4>2 DEF Widest
        <5> QED BY <5>1, <5>2
      <4> QED BY <4>1, <4>2
    <3> QED BY <1>6, <1>7, <3>1, <3>2, <3>3
  <2> HIDE DEF G
  <2>2. Inherited(S, d, G)
    BY <2>1 DEF Inherited
  <2>3. S \subseteq G
    BY <1>3, <2>2, RankInduction
  <2> QED BY <1>1, <2>3 DEF G
\* What is below m has its children there, too.
<1>9. \A m \in S : \A y \in sub[m] : \A c \in {t.left[y], t.right[y]} \ {NULL} : c \in sub[m]
  <2> DEFINE G == {k \in S : \A y \in sub[k] :
                               \A c \in {t.left[y], t.right[y]} \ {NULL} : c \in sub[k]}
  <2>1. ASSUME NEW m \in S, \A k \in S : d[k] < d[m] => k \in G PROVE m \in G
    <3> SUFFICES ASSUME NEW y \in sub[m], NEW c \in {t.left[y], t.right[y]} \ {NULL}
                 PROVE  c \in sub[m]
      OBVIOUS
    <3>1. m \in Node
      BY <1>6
    <3>2. CASE y = m
      <4>1. c \in Node
        BY <1>3, <3>1, <3>2
      <4>2. c \in sub[c]
        BY <1>6, <4>1
      <4> QED BY <1>6, <3>1, <3>2, <4>2
    <3>3. CASE y \in sub[t.left[m]]
      <4>1. t.left[m] \in G
        BY <1>3, <2>1, <3>1
      <4> QED BY <1>6, <3>1, <3>3, <4>1
    <3>4. CASE y \in sub[t.right[m]]
      <4>1. t.right[m] \in G
        BY <1>3, <2>1, <3>1
      <4> QED BY <1>6, <3>1, <3>4, <4>1
    <3> QED BY <1>6, <3>1, <3>2, <3>3, <3>4
  <2> HIDE DEF G
  <2>2. Inherited(S, d, G)
    BY <2>1 DEF Inherited
  <2>3. S \subseteq G
    BY <1>3, <2>2, RankInduction
  <2> QED BY <2>3 DEF G
<1>10. rk \in [Node -> Nat] /\ Ranks(Node, rk)
       /\ \A m \in Node : t.parent[m] # NULL => rk[t.parent[m]] < rk[m]
  BY <1>1 DEF Ranked, Ranks
\* Every member is below the root.
<1>11. M \subseteq sub[t.root]
  <2> DEFINE G == {k \in Node : k \in M => k \in sub[t.root]}
  <2>1. ASSUME NEW m \in Node, \A k \in Node : rk[k] < rk[m] => k \in G PROVE m \in G
    <3> SUFFICES ASSUME m \in M PROVE m \in sub[t.root]
      OBVIOUS
    <3>1. CASE m = t.root
      BY <1>6, <3>1
    <3>2. CASE m # t.root
      <4>1. /\ t.parent[m] \in M /\ t.parent[m] \in Node /\ t.parent[m] # NULL
            /\ m \in {t.left[t.parent[m]], t.right[t.parent[m]]} \ {NULL}
            /\ t.root \in S
        BY <1>1, <3>2 DEF Linked
      <4>2. t.parent[m] \in sub[t.root]
        BY <1>10, <2>1, <4>1
      <4> QED BY <1>9, <4>1, <4>2
    <3> QED BY <3>1, <3>2
  <2> HIDE DEF G
  <2>2. Inherited(Node, rk, G)
    BY <2>1 DEF Inherited
  <2>3. Node \subseteq G
    BY <1>10, <2>2, RankInduction
  <2> QED BY <1>1, <2>3 DEF G
\* A member that can be looked for at m is below m.
<1>12. \A m \in M : K[m] \cap M \subseteq sub[m]
  <2> DEFINE G == {k \in Node : k \in M => K[k] \cap M \subseteq sub[k]}
  <2>1. ASSUME NEW m \in Node, \A k \in Node : rk[k] < rk[m] => k \in G PROVE m \in G
    <3> SUFFICES ASSUME m \in M, NEW x \in K[m] \cap M PROVE x \in sub[m]
      OBVIOUS
    <3>1. CASE m = t.root
      BY <1>11, <3>1
    <3>2. CASE m # t.root
      <4> DEFINE q == t.parent[m]
      <4>1. q \in M /\ q \in Node /\ q # NULL /\ (t.left[q] = m \/ t.right[q] = m) /\ rk[q] < rk[m]
            /\ m # NULL
        BY <1>1, <1>10, <3>2 DEF Linked
      <4> HIDE DEF q
      <4>2. K[q] \cap M \subseteq sub[q]
        BY <2>1, <4>1
      <4>3. x \in K[q] /\ x \in X /\ x # q /\ q \in X
        <5>1. x \in K[q] /\ (<<x, q>> \in R \/ <<q, x>> \in R)
          BY <4>1 DEF Widest
        <5>2. x \in X /\ q \in X /\ <<q, q>> \notin R
          BY <1>7, <4>1, <5>1 DEF Ordered
        <5> QED BY <5>1, <5>2
      <4>4. x \in sub[t.left[q]] \/ x \in sub[t.right[q]]
        BY <1>6, <4>1, <4>2, <4>3
      <4>5. x \in sub[t.left[q]] => t.left[q] # NULL /\ <<x, q>> \in R
        <5>1. t.left[q] # NULL => t.left[q] \in M
          BY <1>1, <4>1 DEF Linked
        <5> QED BY <1>6, <1>8, <4>1, <5>1 DEF Widest
      <4>6. x \in sub[t.right[q]] => t.right[q] # NULL /\ <<q, x>> \in R
        <5>1. t.right[q] # NULL => t.right[q] \in M
          BY <1>1, <4>1 DEF Linked
        <5> QED BY <1>6, <1>8, <4>1, <5>1 DEF Widest
      <4>7. ~(<<x, q>> \in R /\ <<q, x>> \in R)
        BY <4>3 DEF Ordered
      <4>8. CASE t.left[q] = m
        <5>1. <<x, q>> \in R
          BY <4>1, <4>8 DEF Widest
        <5> QED BY <4>4, <4>6, <4>7, <4>8, <5>1
      <4>9. CASE t.right[q] = m
        <5>1. <<q, x>> \in R
          BY <4>1, <4>9 DEF Widest
        <5> QED BY <4>4, <4>5, <4>7, <4>9, <5>1
      <4> QED BY <4>1, <4>8, <4>9
    <3> QED BY <3>1, <3>2
  <2> HIDE DEF G
  <2>2. Inherited(Node, rk, G)
    BY <2>1 DEF Inherited
  <2>3. Node \subseteq G
    BY <1>10, <2>2, RankInduction
  <2> QED BY <1>1, <2>3 DEF G
<1>13. \A m \in M \cup {NULL} : sub[m] = Under(K, M, m)
  BY <1>6, <1>8, <1>12 DEF Under
<1> QED
  <2> SUFFICES ASSUME NEW m \in M
               PROVE  Under(K, M, m) = {m} \cup Under(K, M, t.left[m]) \cup Under(K, M, t.right[m])
    OBVIOUS
  <2>1. m \in Node /\ t.left[m] \in M \cup {NULL} /\ t.right[m] \in M \cup {NULL}
    BY <1>1 DEF Linked
  <2> QED BY <1>6, <1>13, <2>1

\* What lies between two that can be looked for at m can be looked for there, too.
LEMMA Convex ==
  ASSUME NEW R, NEW X, Ordered(R, X), NEW M, NEW t, NEW K, NEW rk,
         Shaped(t, M, R, X, K, rk), Widest(t, K, R, M)
  PROVE  \A m \in M : \A x, z \in K[m] : \A y \in X :
           <<x, y>> \in R /\ <<y, z>> \in R => y \in K[m]
<1> USE NullAssumption
<1>1. /\ M \in SUBSET Node
      /\ Linked(t.root, t.parent, t.left, t.right, M)
      /\ rk \in [Node -> Nat] /\ Ranks(Node, rk)
      /\ \A m \in Node : t.parent[m] # NULL => rk[t.parent[m]] < rk[m]
      /\ Sided(t.root, t.left, t.right, K, R, X, M)
  BY DEF Shaped, Ranked, Ranks
<1>2. \A x, y, z \in X : <<x, y>> \in R /\ <<y, z>> \in R => <<x, z>> \in R
  BY DEF Ordered
<1>3. \A m \in M : m \in X /\ K[m] \subseteq X
  BY <1>1 DEF Sided
<1> DEFINE Good(m) == \A x, z \in K[m] : \A y \in X :
                        <<x, y>> \in R /\ <<y, z>> \in R => y \in K[m]
           G == {k \in Node : k \in M => Good(k)}
<1>4. ASSUME NEW m \in Node, \A k \in Node : rk[k] < rk[m] => k \in G PROVE m \in G
  <2> SUFFICES ASSUME m \in M, NEW x \in K[m], NEW z \in K[m], NEW y \in X,
                      <<x, y>> \in R, <<y, z>> \in R
               PROVE  y \in K[m]
    OBVIOUS
  <2>1. CASE m = t.root
    BY <1>1, <2>1 DEF Sided, Linked
  <2>2. CASE m # t.root
    <3> DEFINE q == t.parent[m]
    <3>1. q \in M /\ q # NULL /\ (t.left[q] = m \/ t.right[q] = m) /\ rk[q] < rk[m] /\ m # NULL
      BY <1>1, <2>2 DEF Linked
    <3> HIDE DEF q
    <3>2. Good(q)
      BY <1>1, <1>4, <3>1
    <3>3. CASE t.left[q] = m
      <4>1. K[m] = {a \in K[q] : <<a, q>> \in R}
        BY <3>1, <3>3 DEF Widest
      <4>2. y \in K[q]
        BY <3>2, <4>1
      <4>3. <<y, q>> \in R
        BY <1>2, <1>3, <3>1, <4>1
      <4> QED BY <4>1, <4>2, <4>3
    <3>4. CASE t.right[q] = m
      <4>1. K[m] = {a \in K[q] : <<q, a>> \in R}
        BY <3>1, <3>4 DEF Widest
      <4>2. y \in K[q]
        BY <3>2, <4>1
      <4>3. <<q, y>> \in R
        BY <1>2, <1>3, <3>1, <4>1
      <4> QED BY <4>1, <4>2, <4>3
    <3> QED BY <3>1, <3>3, <3>4
  <2> QED BY <2>1, <2>2
<1>5. Node \subseteq G
  <2> HIDE DEF G
  <2>1. Inherited(Node, rk, G)
    BY <1>4 DEF Inherited
  <2> QED BY <1>1, <2>1, RankInduction
<1> QED BY <1>1, <1>5

\* s comes after n, and nothing of M comes between them.
Adjacent(R, M, n, s) ==
  /\ <<n, s>> \in R
  /\ \A m \in M : ~(<<n, m>> \in R /\ <<m, s>> \in R)

\* The smallest node right of n is the next member after n.
LEMMA SuccessorIsNext ==
  ASSUME NEW R, NEW X, Ordered(R, X), NEW M, NEW t, NEW K, NEW rk,
         Shaped(t, M, R, X, K, rk), Widest(t, K, R, M), Clean(t, M),
         NEW n \in M, t.right[n] # NULL
  PROVE  LET s == Successor(t, n)
         IN  s \in M /\ s # n /\ t.left[s] = NULL /\ Adjacent(R, M, n, s)
<1> USE NullAssumption
<1> DEFINE leftmost[m \in Node] == IF t.left[m] = NULL THEN m ELSE leftmost[t.left[m]]
           D == [f \in [Node -> Node] |->
                  [m \in Node |-> IF t.left[m] = NULL THEN m ELSE f[t.left[m]]]]
           Least(m, s) == /\ s \in M /\ s \in K[m] /\ t.left[s] = NULL
                          /\ \A x \in K[m] \cap M : x = s \/ <<s, x>> \in R
           c == t.right[n]
           s == leftmost[c]
<1>1. /\ t \in Tree /\ M \in SUBSET Node
      /\ Linked(t.root, t.parent, t.left, t.right, M)
      /\ Sided(t.root, t.left, t.right, K, R, X, M)
  BY DEF Shaped
<1>2. PICK d : Falls(t, d)
  <2>1. Shape(t, M, R, X)
    BY DEF Shape
  <2> QED BY <2>1, DownRank
<1> DEFINE r == [m \in Node |-> d[m]]
<1>3. Ranks(Node, r)
  BY <1>2 DEF Falls
<1>4. \A m \in Node : t.left[m] # NULL => t.left[m] \in Node /\ r[t.left[m]] < r[m]
  BY <1>1, <1>2 DEF Falls, Tree
<1> HIDE DEF r
<1>5. Recursive(Node, Node, r, D)
  <2>1. \A f \in [Node -> Node], m \in Node :
          (IF t.left[m] = NULL THEN m ELSE f[t.left[m]]) \in Node
    BY <1>4
  <2>2. \A g, h \in [Node -> Node], m \in Node :
          (\A k \in Node : r[k] < r[m] => g[k] = h[k]) => D[g][m] = D[h][m]
    BY <1>4
  <2>3. D \in [[Node -> Node] -> [Node -> Node]]
    BY <2>1
  <2>4. Node # {}
    BY <1>1
  <2> HIDE DEF D
  <2> QED BY <2>2, <2>3, <2>4 DEF Recursive
<1>6. PICK f \in [Node -> Node] : f = D[f]
  <2> HIDE DEF D
  <2> QED BY <1>3, <1>5, Recursion
<1>7. f = [m \in Node |-> IF t.left[m] = NULL THEN m ELSE f[t.left[m]]]
  BY <1>6
<1>8. leftmost = [m \in Node |-> IF t.left[m] = NULL THEN m ELSE leftmost[t.left[m]]]
  <2> HIDE DEF D
  <2> QED BY <1>7
<1>9. s = Successor(t, n)
  BY DEF Successor
<1> HIDE DEF leftmost, D
<1>10. \A m \in Node : leftmost[m] = IF t.left[m] = NULL THEN m ELSE leftmost[t.left[m]]
  BY <1>8
<1>11. \A m \in M : Under(K, M, m) = {m} \cup Under(K, M, t.left[m])
                                         \cup Under(K, M, t.right[m])
  BY Subtrees
<1>12. \A x, y, z \in X : <<x, y>> \in R /\ <<y, z>> \in R => <<x, z>> \in R
  BY DEF Ordered
<1>13. \A m \in M : m \in X /\ m \in K[m] /\ K[m] \subseteq X
  BY <1>1 DEF Sided
<1> DEFINE G == {m \in Node : m \in M => Least(m, leftmost[m])}
<1>14. ASSUME NEW m \in Node, \A k \in Node : r[k] < r[m] => k \in G PROVE m \in G
  <2> SUFFICES ASSUME m \in M PROVE Least(m, leftmost[m])
    OBVIOUS
  <2>1. \A x \in K[m] \cap M : x = m \/ x \in Under(K, M, t.left[m])
                                     \/ x \in Under(K, M, t.right[m])
    BY <1>11 DEF Under
  <2>2. \A x \in Under(K, M, t.right[m]) : <<m, x>> \in R
    BY DEF Under, Widest
  <2>3. CASE t.left[m] = NULL
    <3>1. leftmost[m] = m
      BY <1>10, <2>3
    <3>2. \A x \in K[m] \cap M : x = m \/ <<m, x>> \in R
      BY <2>1, <2>2, <2>3 DEF Under
    <3> QED BY <1>13, <2>3, <3>1, <3>2
  <2>4. CASE t.left[m] # NULL
    <3> DEFINE j == t.left[m]
               z == leftmost[j]
    <3>1. leftmost[m] = z
      BY <1>10, <2>4
    <3>2. j \in M /\ j \in G /\ K[j] = {x \in K[m] : <<x, m>> \in R}
      BY <1>1, <1>4, <1>14, <2>4 DEF Linked, Widest
    <3>3. Least(j, z)
      BY <3>2
    <3>4. \A x \in K[m] \cap M : x = m \/ x \in K[j] \/ <<m, x>> \in R
      BY <2>1, <2>2, <2>4 DEF Under
    <3> HIDE DEF j, z
    <3>5. z \in M /\ z \in K[m] /\ <<z, m>> \in R /\ t.left[z] = NULL
      BY <3>2, <3>3
    <3>6. ASSUME NEW x \in K[m] \cap M PROVE x = z \/ <<z, x>> \in R
      <4>1. CASE x = m
        BY <3>5, <4>1
      <4>2. CASE x \in K[j]
        BY <3>3, <4>2
      <4>3. CASE <<m, x>> \in R
        BY <1>12, <1>13, <3>5, <4>3
      <4> QED BY <3>4, <4>1, <4>2, <4>3
    <3>7. Least(m, z)
      BY <3>5, <3>6
    <3> QED BY <3>1, <3>7
  <2> QED BY <2>3, <2>4
<1>15. Node \subseteq G
  <2> HIDE DEF G
  <2>1. Inherited(Node, r, G)
    BY <1>14 DEF Inherited
  <2> QED BY <1>3, <2>1, RankInduction
<1>16. c \in M /\ K[c] = {x \in K[n] : <<n, x>> \in R}
  BY <1>1 DEF Linked, Widest
<1>17. Least(c, s)
  BY <1>1, <1>15, <1>16
<1> HIDE DEF s, c
<1>18. s \in M /\ t.left[s] = NULL /\ s \in K[n] /\ <<n, s>> \in R
  BY <1>16, <1>17
<1>19. s # n
  BY <1>13, <1>18 DEF Ordered
<1>20. ASSUME NEW m \in M, <<n, m>> \in R, <<m, s>> \in R PROVE FALSE
  <2>1. m \in K[n]
    BY <1>13, <1>18, <1>20, Convex
  <2>2. m \in K[c] \cap M
    BY <1>16, <1>20, <2>1
  <2>3. m = s \/ <<s, m>> \in R
    BY <1>17, <2>2
  <2>4. <<s, s>> \in R
    BY <1>12, <1>13, <1>18, <1>20, <2>3
  <2> QED BY <1>13, <1>18, <2>4 DEF Ordered
<1> QED BY <1>9, <1>18, <1>19, <1>20 DEF Adjacent

-----------------------------------------------------------------------------
(* Insertion *)

\* n, which pointed at nothing and at which nothing pointed, becomes the child of p
\* on the side A, where it had none.
Links(P, A, P2, A2, n, p) ==
  /\ \A x \in Node : P2[x] = IF x = n THEN p ELSE P[x]
  /\ \A x \in Node : A2[x] = IF x = p THEN n ELSE A[x]

\* Outside of M there are no links.
Bare(P, A, B, M) == \A x \in Node \ M : P[x] = NULL /\ A[x] = NULL /\ B[x] = NULL

LEMMA LinkLinked ==
  ASSUME NEW root, NEW M \in SUBSET Node,
         NEW P \in [Node -> Node \cup {NULL}], NEW A \in [Node -> Node \cup {NULL}],
         NEW B \in [Node -> Node \cup {NULL}],
         NEW P2 \in [Node -> Node \cup {NULL}], NEW A2 \in [Node -> Node \cup {NULL}],
         Linked(root, P, A, B, M), Bare(P, A, B, M),
         NEW p \in M, A[p] = NULL, NEW n \in Node \ M, Links(P, A, P2, A2, n, p)
  PROVE  /\ Linked(root, P2, A2, B, M \cup {n})
         /\ \A rk : Ranked(P, rk) => \E s : Ranked(P2, s)
         /\ \A J, R, X : /\ Sided(root, A, B, J, R, X, M)
                         /\ n \in J[p] /\ <<n, p>> \in R
                         => \E K : Sided(root, A2, B, K, R, X, M \cup {n})
<1> USE NullAssumption DEF Links, Bare
<1>1. \A x \in M : A[x] # n /\ B[x] # n /\ P[x] # n
  BY DEF Linked
<1>2. \A x \in Node : P[x] # n
  BY <1>1
<1>3. Linked(root, P2, A2, B, M \cup {n})
  <2>1. (root = NULL) = (M \cup {n} = {}) /\ (root # NULL => root \in M \cup {n} /\ P2[root] = NULL)
    BY DEF Linked
  <2>2. \A m \in M \cup {n} : A2[m] \in M \cup {n} \cup {NULL} /\ B[m] \in M \cup {n} \cup {NULL}
    BY DEF Linked
  <2>3. \A m \in M \cup {n} : A2[m] = B[m] => A2[m] = NULL
    BY <1>1 DEF Linked
  <2>4. \A m \in M \cup {n} : A2[m] # NULL => P2[A2[m]] = m
    BY <1>1 DEF Linked
  <2>5. \A m \in M \cup {n} : B[m] # NULL => P2[B[m]] = m
    BY <1>1 DEF Linked
  <2>6. \A m \in (M \cup {n}) \ {root} : P2[m] \in M \cup {n} /\ (A2[P2[m]] = m \/ B[P2[m]] = m)
    BY <1>1 DEF Linked
  <2> QED BY <2>1, <2>2, <2>3, <2>4, <2>5, <2>6 DEF Linked
<1>4. ASSUME NEW rk, Ranked(P, rk) PROVE \E s : Ranked(P2, s)
  <2> DEFINE s == [rk EXCEPT ![n] = rk[p] + 1]
  <2>1. rk \in [Node -> Nat] /\ \A m \in Node : P[m] # NULL => rk[P[m]] < rk[m]
    BY <1>4 DEF Ranked
  <2>2. PICK b \in Nat : \A x \in Node : rk[x] <= b
    BY <1>4 DEF Ranked
  <2>3. s \in [Node -> Nat] /\ b + 1 \in Nat /\ \A x \in Node : s[x] <= b + 1
    BY <2>1, <2>2
  <2>4. \A m \in Node : P2[m] # NULL => s[P2[m]] < s[m]
    BY <1>2, <2>1
  <2> QED BY <2>3, <2>4 DEF Ranked
<1>5. ASSUME NEW J, NEW R, NEW X, Sided(root, A, B, J, R, X, M), n \in J[p], <<n, p>> \in R
      PROVE  \E K : Sided(root, A2, B, K, R, X, M \cup {n})
  <2> DEFINE K == [J EXCEPT ![n] = {x \in J[p] : <<x, p>> \in R}]
  <2>1. J \in [Node -> SUBSET X] /\ (root # NULL => J[root] = X) /\ \A m \in M : m \in J[m]
    BY <1>5 DEF Sided
  <2>2. K \in [Node -> SUBSET X] /\ K[n] = {x \in J[p] : <<x, p>> \in R}
        /\ \A m \in M : K[m] = J[m]
    BY <2>1
  <2> HIDE DEF K
  <2>3. (root # NULL => K[root] = X) /\ \A m \in M \cup {n} : m \in K[m]
    BY <1>5, <2>1, <2>2 DEF Linked
  <2>4. ASSUME NEW m \in M \cup {n}, A2[m] # NULL, NEW x \in K[A2[m]]
        PROVE  x \in K[m] /\ <<x, m>> \in R
    <3>1. CASE m = p
      BY <2>2, <2>4, <3>1
    <3>2. CASE m # p
      <4>1. m \in M /\ A2[m] = A[m] /\ A[m] \in M
        BY <2>4, <3>2 DEF Linked
      <4> QED BY <1>5, <2>2, <2>4, <4>1 DEF Sided
    <3> QED BY <3>1, <3>2
  <2>5. ASSUME NEW m \in M \cup {n}, B[m] # NULL, NEW x \in K[B[m]]
        PROVE  x \in K[m] /\ <<m, x>> \in R
    <3>1. m \in M /\ B[m] \in M
      BY <2>5 DEF Linked
    <3> QED BY <1>5, <2>2, <2>5, <3>1 DEF Sided
  <2> QED BY <2>2, <2>3, <2>4, <2>5 DEF Sided
<1> QED BY <1>3, <1>4, <1>5

\* A node linked to the left of p, which had no left child.
LEMMA LinkLeft ==
  ASSUME NEW R, NEW X, NEW M, NEW t, NEW J, NEW rk, Shaped(t, M, R, X, J, rk), Clean(t, M),
         NEW p \in M, t.left[p] = NULL, NEW n \in Node \ M, n \in J[p], <<n, p>> \in R,
         ExactOff(t, M, {})
  PROVE  LET u == [t EXCEPT !.left[p] = n, !.parent[n] = p]
         IN  /\ Shape(u, M \cup {n}, R, X)
             /\ u.parent[n] = p
             /\ ExactOff(u, M \cup {n}, {n, p})
             /\ \A x \in Node \ (M \cup {n}) : SameFields(t, u, x)
<1> USE NullAssumption
<1> DEFINE u == [t EXCEPT !.left[p] = n, !.parent[n] = p]
<1>1. /\ t \in Tree /\ M \in SUBSET Node
      /\ Linked(t.root, t.parent, t.left, t.right, M)
      /\ Ranked(t.parent, rk)
      /\ Sided(t.root, t.left, t.right, J, R, X, M)
  BY DEF Shaped
<1>2. /\ t.parent \in [Node -> Node \cup {NULL}]
      /\ t.left \in [Node -> Node \cup {NULL}] /\ t.right \in [Node -> Node \cup {NULL}]
  BY <1>1 DEF Tree
<1>3. /\ u \in Tree /\ u.root = t.root /\ u.right = t.right
      /\ u.height = t.height /\ u.cnt = t.cnt
      /\ u.parent = [t.parent EXCEPT ![n] = p] /\ u.left = [t.left EXCEPT ![p] = n]
  BY <1>1 DEF Tree
<1> HIDE DEF u
<1>4. /\ u.parent \in [Node -> Node \cup {NULL}] /\ u.left \in [Node -> Node \cup {NULL}]
  BY <1>3 DEF Tree
<1>5. Links(t.parent, t.left, u.parent, u.left, n, p)
  BY <1>1, <1>2, <1>3 DEF Links
<1>6. Bare(t.parent, t.left, t.right, M)
  BY DEF Bare, Clean
<1>7. /\ Linked(u.root, u.parent, u.left, u.right, M \cup {n})
      /\ \E s : Ranked(u.parent, s)
      /\ \E K : Sided(u.root, u.left, u.right, K, R, X, M \cup {n})
  <2>1. /\ Linked(t.root, u.parent, u.left, t.right, M \cup {n})
        /\ \A s : Ranked(t.parent, s) => \E w : Ranked(u.parent, w)
        /\ \A I, Q, Y : /\ Sided(t.root, t.left, t.right, I, Q, Y, M)
                        /\ n \in I[p] /\ <<n, p>> \in Q
                        => \E K : Sided(t.root, u.left, t.right, K, Q, Y, M \cup {n})
    BY <1>1, <1>2, <1>4, <1>5, <1>6, LinkLinked
  <2> QED BY <1>1, <1>3, <2>1
<1>8. Shape(u, M \cup {n}, R, X)
  BY <1>1, <1>3, <1>7 DEF Shape, Shaped
<1>9. ExactOff(u, M \cup {n}, {n, p})
  <2> SUFFICES ASSUME NEW m \in M \ {p} PROVE Exactly(u, m)
    BY DEF ExactOff
  <2>1. Exactly(t, m) /\ u.left[m] = t.left[m] /\ u.right[m] = t.right[m]
    BY <1>1, <1>2, <1>3 DEF ExactOff
  <2> QED BY <1>3, <2>1 DEF Exactly, Exact
<1>10. \A x \in Node \ (M \cup {n}) : SameFields(t, u, x)
  BY <1>1, <1>2, <1>3 DEF SameFields
<1>11. u.parent[n] = p
  BY <1>2, <1>3
<1> QED BY <1>8, <1>9, <1>10, <1>11 DEF u

\* The mirror image: a node linked to the right of p, which had no right child.
LEMMA LinkRight ==
  ASSUME NEW R, NEW X, NEW M, NEW t, NEW J, NEW rk, Shaped(t, M, R, X, J, rk), Clean(t, M),
         NEW p \in M, t.right[p] = NULL, NEW n \in Node \ M, n \in J[p], <<p, n>> \in R,
         ExactOff(t, M, {})
  PROVE  LET u == [t EXCEPT !.right[p] = n, !.parent[n] = p]
         IN  /\ Shape(u, M \cup {n}, R, X)
             /\ u.parent[n] = p
             /\ ExactOff(u, M \cup {n}, {n, p})
             /\ \A x \in Node \ (M \cup {n}) : SameFields(t, u, x)
<1> USE NullAssumption
<1> DEFINE u == [t EXCEPT !.right[p] = n, !.parent[n] = p]
<1>1. /\ t \in Tree /\ M \in SUBSET Node
      /\ Linked(t.root, t.parent, t.left, t.right, M)
      /\ Ranked(t.parent, rk)
      /\ Sided(t.root, t.left, t.right, J, R, X, M)
  BY DEF Shaped
<1>2. /\ t.parent \in [Node -> Node \cup {NULL}]
      /\ t.right \in [Node -> Node \cup {NULL}] /\ t.left \in [Node -> Node \cup {NULL}]
  BY <1>1 DEF Tree
<1>3. /\ u \in Tree /\ u.root = t.root /\ u.left = t.left
      /\ u.height = t.height /\ u.cnt = t.cnt
      /\ u.parent = [t.parent EXCEPT ![n] = p] /\ u.right = [t.right EXCEPT ![p] = n]
  BY <1>1 DEF Tree
<1> HIDE DEF u
<1>4. /\ u.parent \in [Node -> Node \cup {NULL}] /\ u.right \in [Node -> Node \cup {NULL}]
  BY <1>3 DEF Tree
<1>5. Links(t.parent, t.right, u.parent, u.right, n, p)
  BY <1>1, <1>2, <1>3 DEF Links
<1>6. Bare(t.parent, t.left, t.right, M)
  BY DEF Bare, Clean
<1>7. /\ Linked(u.root, u.parent, u.left, u.right, M \cup {n})
      /\ \E s : Ranked(u.parent, s)
      /\ \E K : Sided(u.root, u.left, u.right, K, R, X, M \cup {n})
  <2> DEFINE S == Reversed(R, X)
  <2>1. Linked(t.root, t.parent, t.right, t.left, M)
    BY <1>1, LinkedMirror
  <2>2. Bare(t.parent, t.right, t.left, M)
    BY <1>6 DEF Bare
  <2>3. /\ Linked(t.root, u.parent, u.right, t.left, M \cup {n})
        /\ \A s : Ranked(t.parent, s) => \E w : Ranked(u.parent, w)
        /\ \A I, Q, Y : /\ Sided(t.root, t.right, t.left, I, Q, Y, M)
                        /\ n \in I[p] /\ <<n, p>> \in Q
                        => \E K : Sided(t.root, u.right, t.left, K, Q, Y, M \cup {n})
    BY <1>1, <1>2, <1>4, <1>5, <2>1, <2>2, LinkLinked
  <2>4. Linked(u.root, u.parent, u.left, u.right, M \cup {n})
    BY <1>3, <2>3, LinkedMirror
  <2>5. n \in X /\ p \in X
    BY <1>1 DEF Sided
  <2>6. \A x, y \in X : <<x, y>> \in S <=> <<y, x>> \in R
    BY DEF Reversed
  <2> HIDE DEF S
  <2>7. Sided(t.root, t.right, t.left, J, S, X, M)
    BY <1>1, <1>2, <2>6, SidedMirror
  <2>8. PICK K : Sided(t.root, u.right, t.left, K, S, X, M \cup {n})
    BY <2>3, <2>5, <2>6, <2>7
  <2>9. \A x, y \in X : <<x, y>> \in R <=> <<y, x>> \in S
    BY <2>6
  <2>10. Sided(t.root, t.left, u.right, K, R, X, M \cup {n})
    BY <1>1, <1>2, <1>4, <2>8, <2>9, SidedMirror
  <2> QED BY <1>1, <1>3, <2>3, <2>4, <2>10
<1>8. Shape(u, M \cup {n}, R, X)
  BY <1>1, <1>3, <1>7 DEF Shape, Shaped
<1>9. ExactOff(u, M \cup {n}, {n, p})
  <2> SUFFICES ASSUME NEW m \in M \ {p} PROVE Exactly(u, m)
    BY DEF ExactOff
  <2>1. Exactly(t, m) /\ u.right[m] = t.right[m] /\ u.left[m] = t.left[m]
    BY <1>1, <1>2, <1>3 DEF ExactOff
  <2> QED BY <1>3, <2>1 DEF Exactly, Exact
<1>10. \A x \in Node \ (M \cup {n}) : SameFields(t, u, x)
  BY <1>1, <1>2, <1>3 DEF SameFields
<1>11. u.parent[n] = p
  BY <1>2, <1>3
<1> QED BY <1>8, <1>9, <1>10, <1>11 DEF u

\* above holds the members that n is less than.
Sorts(R, M, n, above) ==
  /\ \A m \in M : m \in above => <<n, m>> \in R
  /\ \A m \in M : m \notin above => <<m, n>> \in R

\* The descent of an insertion ends at a node that has no child on the side it is to go,
\* and, if above holds the members that n is less than, where a search for n would look.
LEMMA BelowFinds ==
  ASSUME NEW R, NEW X, NEW M, NEW t, NEW K, NEW rk, Shaped(t, M, R, X, K, rk),
         Widest(t, K, R, M), Clean(t, M), t.root # NULL, NEW n \in X, NEW above
  PROVE  LET p == Below(t, above)
         IN  /\ p \in M
             /\ Sorts(R, M, n, above) => n \in K[p]
             /\ p \in above => t.left[p] = NULL
             /\ p \notin above => t.right[p] = NULL
<1> USE NullAssumption
<1> DEFINE child(m) == IF m \in above THEN t.left[m] ELSE t.right[m]
           seek[m \in Node] == IF child(m) = NULL THEN m ELSE seek[child(m)]
           D == [f \in [Node -> Node] |->
                  [m \in Node |-> IF child(m) = NULL THEN m ELSE f[child(m)]]]
           Sorted == Sorts(R, M, n, above)
           Good(p) == /\ p \in M
                      /\ Sorted => n \in K[p]
                      /\ p \in above => t.left[p] = NULL
                      /\ p \notin above => t.right[p] = NULL
<1>1. /\ t \in Tree /\ M \in SUBSET Node
      /\ Linked(t.root, t.parent, t.left, t.right, M)
      /\ Sided(t.root, t.left, t.right, K, R, X, M)
  BY DEF Shaped
<1>2. PICK d : Falls(t, d)
  <2>1. Shape(t, M, R, X)
    BY DEF Shape
  <2> QED BY <2>1, DownRank
<1> DEFINE r == [m \in Node |-> d[m]]
<1>3. Ranks(Node, r)
  BY <1>2 DEF Falls
<1>4. \A m \in Node : child(m) # NULL => child(m) \in Node /\ r[child(m)] < r[m]
  BY <1>1, <1>2 DEF Falls, Tree
<1> HIDE DEF r
<1>5. t.root \in M /\ t.root \in Node
  BY <1>1 DEF Linked
<1>6. \A f \in [Node -> Node], m \in Node :
         (IF child(m) = NULL THEN m ELSE f[child(m)]) \in Node
  BY <1>4
<1>7. \A g, h \in [Node -> Node], m \in Node :
         (\A k \in Node : r[k] < r[m] => g[k] = h[k]) => D[g][m] = D[h][m]
  BY <1>4
<1>8. Recursive(Node, Node, r, D)
  <2>1. D \in [[Node -> Node] -> [Node -> Node]]
    BY <1>6
  <2> HIDE DEF D
  <2> QED BY <1>5, <1>7, <2>1 DEF Recursive
<1>9. PICK f \in [Node -> Node] : f = D[f]
  <2> HIDE DEF D
  <2> QED BY <1>3, <1>8, Recursion
<1>10. f = [m \in Node |-> IF child(m) = NULL THEN m ELSE f[child(m)]]
  BY <1>9
<1>11. seek = [m \in Node |-> IF child(m) = NULL THEN m ELSE seek[child(m)]]
  <2> HIDE DEF D, child
  <2> QED BY <1>10
<1>12. Below(t, above) = seek[t.root]
  BY DEF Below
<1> HIDE DEF seek, D
<1>13. \A m \in Node : seek[m] = IF child(m) = NULL THEN m ELSE seek[child(m)]
  BY <1>11
<1> DEFINE G == {m \in Node : m \in M /\ (Sorted => n \in K[m]) => Good(seek[m])}
<1>14. ASSUME NEW m \in Node, \A k \in Node : r[k] < r[m] => k \in G PROVE m \in G
  <2> SUFFICES ASSUME m \in M, Sorted => n \in K[m] PROVE Good(seek[m])
    OBVIOUS
  <2>1. CASE child(m) = NULL
    <3>1. seek[m] = m
      BY <1>13, <2>1
    <3> QED BY <2>1, <3>1
  <2>2. CASE child(m) # NULL
    <3>1. seek[m] = seek[child(m)] /\ child(m) \in G
      BY <1>4, <1>13, <1>14, <2>2
    <3>2. child(m) \in M
      BY <1>1, <2>2 DEF Linked
    <3>3. Sorted => n \in K[child(m)]
      BY <2>2 DEF Widest, Sorts
    <3> QED BY <3>1, <3>2, <3>3
  <2> QED BY <2>1, <2>2
<1>15. t.root \in G
  <2> HIDE DEF G
  <2>1. Inherited(Node, r, G)
    BY <1>14 DEF Inherited
  <2>2. Node \subseteq G
    BY <1>3, <2>1, RankInduction
  <2> QED BY <1>5, <2>2
<1>16. n \in K[t.root]
  BY <1>1 DEF Sided
<1> QED BY <1>5, <1>12, <1>15, <1>16

\* The first node of a tree.
LEMMA FirstNode ==
  ASSUME NEW R, NEW X, NEW M, NEW t, Shape(t, M, R, X), Clean(t, M),
         t.root = NULL, NEW n \in Node, n \in X
  PROVE  LET u == [t EXCEPT !.root = n, !.parent[n] = NULL]
         IN  /\ M = {}
             /\ Shape(u, {n}, R, X)
             /\ ExactOff(u, {n}, {n, u.parent[n]})
             /\ \A x \in Node \ {n} : SameFields(t, u, x)
<1> USE NullAssumption
<1> DEFINE u == [t EXCEPT !.root = n, !.parent[n] = NULL]
           K == [x \in Node |-> X]
<1>1. PICK J, rk : Shaped(t, M, R, X, J, rk)
  BY DEF Shape
<1>2. /\ t \in Tree /\ M = {}
      /\ Ranked(t.parent, rk)
  BY <1>1 DEF Shaped, Linked
<1>3. t.parent[n] = NULL /\ t.left[n] = NULL /\ t.right[n] = NULL
  BY <1>2 DEF Clean
<1>4. /\ u \in Tree /\ u.root = n /\ u.left = t.left /\ u.right = t.right
      /\ u.height = t.height /\ u.cnt = t.cnt /\ u.parent = t.parent
  BY <1>2, <1>3 DEF Tree
<1> HIDE DEF u
<1>5. Linked(u.root, u.parent, u.left, u.right, {n})
  BY <1>3, <1>4 DEF Linked
<1>6. Sided(u.root, u.left, u.right, K, R, X, {n})
  BY <1>3, <1>4 DEF Sided
<1>7. Shape(u, {n}, R, X)
  BY <1>2, <1>4, <1>5, <1>6 DEF Shape, Shaped
<1>8. ExactOff(u, {n}, {n, u.parent[n]})
  BY DEF ExactOff
<1>9. \A x \in Node \ {n} : SameFields(t, u, x)
  BY <1>4 DEF SameFields
<1> QED BY <1>2, <1>7, <1>8, <1>9 DEF u

\* p is the node at which the descent of an insertion ends.
Ends(t, above, p) == p = Below(t, above)

\* A node that is linked under p, where a search for it would look, and the repairs.
LEMMA InsertUnder ==
  ASSUME NEW R, NEW X, Ordered(R, X), NEW M, NEW t, NEW K, NEW rk, Shaped(t, M, R, X, K, rk),
         Clean(t, M), ExactOff(t, M, {}), t.root # NULL,
         NEW n \in Node \ M, NEW above, NEW p, Ends(t, above, p), p \in M, n \in K[p],
         p \in above => t.left[p] = NULL /\ <<n, p>> \in R,
         p \notin above => t.right[p] = NULL /\ <<p, n>> \in R
  PROVE  LET u == avl_insert(t, n, above)
         IN  /\ Shape(u, M \cup {n}, R, X)
             /\ ExactOff(u, M \cup {n}, {})
             /\ \A x \in Node \ (M \cup {n}) : SameFields(t, u, x)
<1> USE NullAssumption
<1> DEFINE N == M \cup {n}
           Good(u) == /\ Shape(u, N, R, X)
                      /\ ExactOff(u, N, {})
                      /\ \A x \in Node \ N : SameFields(t, u, x)
<1>1. ASSUME NEW w, Shape(w, N, R, X), ExactOff(w, N, {n, w.parent[n]}),
             \A x \in Node \ N : SameFields(t, w, x)
      PROVE  Good(avl_fix(w, n))
  <2> DEFINE u == avl_fix(w, n)
  <2>1. n \in N
    OBVIOUS
  <2> HIDE DEF N
  <2>2. /\ Shape(u, N, R, X)
        /\ ExactOff(u, N, {})
        /\ \A x \in Node \ N : SameFields(w, u, x)
    BY <1>1, <2>1, FixKeeps
  <2> HIDE DEF u
  <2>3. \A x \in Node \ N : SameFields(t, u, x)
    BY <1>1, <2>2 DEF SameFields
  <2> QED BY <2>2, <2>3 DEF u
<1>2. t \in Tree /\ p \in Node /\ n \in Node
  BY DEF Shaped
<1>3. CASE p \in above
  <2> DEFINE w == [t EXCEPT !.left[p] = n, !.parent[n] = p]
  <2>1. avl_insert(t, n, above) = avl_fix(w, n)
    BY <1>2, <1>3 DEF avl_insert, Tree, Ends
  <2>2. t.left[p] = NULL /\ <<n, p>> \in R
    BY <1>3
  <2>3. /\ Shape(w, M \cup {n}, R, X)
        /\ w.parent[n] = p
        /\ ExactOff(w, M \cup {n}, {n, p})
        /\ \A x \in Node \ (M \cup {n}) : SameFields(t, w, x)
    BY <2>2, LinkLeft
  <2> HIDE DEF w
  <2>4. Good(avl_fix(w, n))
    BY <1>1, <2>3
  <2> QED BY <2>1, <2>4
<1>4. CASE p \notin above
  <2> DEFINE w == [t EXCEPT !.right[p] = n, !.parent[n] = p]
  <2>1. avl_insert(t, n, above) = avl_fix(w, n)
    BY <1>2, <1>4 DEF avl_insert, Tree, Ends
  <2>2. t.right[p] = NULL /\ <<p, n>> \in R
    BY <1>4
  <2>3. /\ Shape(w, M \cup {n}, R, X)
        /\ w.parent[n] = p
        /\ ExactOff(w, M \cup {n}, {n, p})
        /\ \A x \in Node \ (M \cup {n}) : SameFields(t, w, x)
    BY <2>2, LinkRight
  <2> HIDE DEF w
  <2>4. Good(avl_fix(w, n))
    BY <1>1, <2>3
  <2> QED BY <2>1, <2>4
<1> QED BY <1>3, <1>4

\* A node that is inserted into an empty tree.
LEMMA InsertFirst ==
  ASSUME NEW R, NEW X, Ordered(R, X), NEW M, NEW t, Shape(t, M, R, X), Clean(t, M),
         t.root = NULL, NEW n \in Node, n \in X, NEW above
  PROVE  LET u == avl_insert(t, n, above)
         IN  /\ M = {}
             /\ Shape(u, {n}, R, X)
             /\ ExactOff(u, {n}, {})
             /\ \A x \in Node \ {n} : SameFields(t, u, x)
<1> DEFINE w == [t EXCEPT !.root = n, !.parent[n] = NULL]
           u == avl_fix(w, n)
<1>1. /\ M = {}
      /\ Shape(w, {n}, R, X)
      /\ ExactOff(w, {n}, {n, w.parent[n]})
      /\ \A x \in Node \ {n} : SameFields(t, w, x)
  BY FirstNode
<1>2. avl_insert(t, n, above) = u
  BY DEF avl_insert
<1> HIDE DEF w
<1>3. n \in {n}
  OBVIOUS
<1>4. /\ Shape(u, {n}, R, X)
      /\ ExactOff(u, {n}, {})
      /\ \A x \in Node \ {n} : SameFields(w, u, x)
  BY <1>1, <1>3, FixKeeps
<1> HIDE DEF u
<1>5. \A x \in Node \ {n} : SameFields(t, u, x)
  BY <1>1, <1>4 DEF SameFields
<1> QED BY <1>1, <1>2, <1>4, <1>5

\* Insertion of a node that is not in the tree: above holds the members it is less than.
LEMMA InsertKeeps ==
  ASSUME NEW R, NEW X, Ordered(R, X), NEW M, NEW t, Shape(t, M, R, X), Clean(t, M),
         ExactOff(t, M, {}), NEW n \in Node \ M, n \in X, NEW above, Sorts(R, M, n, above)
  PROVE  LET u == avl_insert(t, n, above)
         IN  /\ Shape(u, M \cup {n}, R, X)
             /\ ExactOff(u, M \cup {n}, {})
             /\ \A x \in Node \ (M \cup {n}) : SameFields(t, u, x)
<1>1. CASE t.root = NULL
  <2> DEFINE u == avl_insert(t, n, above)
  <2>1. /\ M = {}
        /\ Shape(u, {n}, R, X)
        /\ ExactOff(u, {n}, {})
        /\ \A x \in Node \ {n} : SameFields(t, u, x)
    BY <1>1, InsertFirst
  <2>2. M \cup {n} = {n}
    BY <2>1
  <2> HIDE DEF u
  <2> QED BY <2>1, <2>2 DEF u
<1>2. CASE t.root # NULL
  <2>1. PICK J, rk : Shaped(t, M, R, X, J, rk)
    BY DEF Shape
  <2>2. \E K : Shaped(t, M, R, X, K, rk) /\ Widest(t, K, R, M)
    <3>1. X \subseteq X /\ \A x, y \in X : <<x, y>> \in R => <<x, y>> \in R
      OBVIOUS
    <3> QED BY <2>1, <3>1, Widen
  <2>3. PICK K : Shaped(t, M, R, X, K, rk) /\ Widest(t, K, R, M)
    BY <2>2
  <2> DEFINE p == Below(t, above)
  <2>4. /\ p \in M /\ n \in K[p]
        /\ p \in above => t.left[p] = NULL
        /\ p \notin above => t.right[p] = NULL
    BY <1>2, <2>3, BelowFinds
  <2>5. Ends(t, above, p)
    BY DEF Ends
  <2> HIDE DEF p
  <2>6. /\ p \in above => t.left[p] = NULL /\ <<n, p>> \in R
        /\ p \notin above => t.right[p] = NULL /\ <<p, n>> \in R
    BY <2>4 DEF Sorts
  <2>7. Shaped(t, M, R, X, K, rk)
    BY <2>3
  <2> QED BY <1>2, <2>4, <2>5, <2>6, <2>7, InsertUnder
<1> QED BY <1>1, <1>2

-----------------------------------------------------------------------------
(* Deletion *)

\* What is left when a node that has no child but c gives its place to c.
Bypasses(P, A, B, P2, A2, B2, n, c) ==
  /\ \A x \in Node : P2[x] = IF x = c THEN P[n] ELSE P[x]
  /\ \A x \in Node : A2[x] = IF x = P[n] /\ A[x] = n THEN c ELSE A[x]
  /\ \A x \in Node : B2[x] = IF x = P[n] /\ B[x] = n THEN c ELSE B[x]

OnlyChild(A, B, n, c) == (A[n] = c /\ B[n] = NULL) \/ (A[n] = NULL /\ B[n] = c)

LEMMA BypassLinked ==
  ASSUME NEW root, NEW M \in SUBSET Node,
         NEW P \in [Node -> Node \cup {NULL}], NEW A \in [Node -> Node \cup {NULL}],
         NEW B \in [Node -> Node \cup {NULL}],
         NEW P2 \in [Node -> Node \cup {NULL}], NEW A2 \in [Node -> Node \cup {NULL}],
         NEW B2 \in [Node -> Node \cup {NULL}],
         Linked(root, P, A, B, M), NEW rk, Ranked(P, rk),
         NEW n \in M, NEW c, OnlyChild(A, B, n, c),
         Bypasses(P, A, B, P2, A2, B2, n, c)
  PROVE  /\ Linked(IF P[n] = NULL THEN c ELSE root, P2, A2, B2, M \ {n})
         /\ Ranked(P2, rk)
<1> USE NullAssumption DEF OnlyChild
<1> DEFINE p == P[n]
           top == IF P[n] = NULL THEN c ELSE root
<1>1. /\ rk \in [Node -> Nat] /\ \A m \in Node : P[m] # NULL => rk[P[m]] < rk[m]
      /\ Ranks(Node, rk)
  BY DEF Ranked, Ranks
<1>2. /\ \A x \in Node : P2[x] = IF x = c THEN p ELSE P[x]
      /\ \A x \in Node : A2[x] = IF x = p /\ A[x] = n THEN c ELSE A[x]
      /\ \A x \in Node : B2[x] = IF x = p /\ B[x] = n THEN c ELSE B[x]
  BY DEF Bypasses
<1>3. c # NULL => c \in M /\ P[c] = n /\ c # n /\ rk[n] < rk[c]
  BY <1>1 DEF Linked
<1>4. p # NULL => p \in M /\ p # n /\ rk[p] < rk[n]
  BY <1>1 DEF Linked
<1>5. p # NULL => p # c
  <2>1. c # NULL /\ p # NULL => rk[p] < rk[n] /\ rk[n] < rk[c]
    BY <1>3, <1>4
  <2>2. \A x \in Node : rk[x] \in Nat
    BY <1>1
  <2> QED BY <1>3, <1>4, <2>1, <2>2
<1>6. p = NULL <=> n = root
  BY DEF Linked
\* A root without children is alone.
<1>7. n = root /\ c = NULL => M = {n}
  <2> SUFFICES ASSUME n = root, c = NULL PROVE M = {n}
    OBVIOUS
  <2> DEFINE G == {k \in Node : k \in M => k = n}
  <2>1. ASSUME NEW m \in Node, \A k \in Node : rk[k] < rk[m] => k \in G PROVE m \in G
    <3> SUFFICES ASSUME m \in M, m # n PROVE FALSE
      OBVIOUS
    <3>1. P[m] \in M /\ (A[P[m]] = m \/ B[P[m]] = m) /\ m # NULL
      BY DEF Linked
    <3>2. rk[P[m]] < rk[m] /\ P[m] \in Node
      BY <1>1, <3>1
    <3>3. P[m] = n
      BY <2>1, <3>1, <3>2
    <3> QED BY <3>1, <3>3
  <2> HIDE DEF G
  <2>2. Inherited(Node, rk, G)
    BY <2>1 DEF Inherited
  <2>3. Node \subseteq G
    BY <1>1, <2>2, RankInduction
  <2> QED BY <2>3 DEF G
<1> HIDE DEF p
<1>8. Linked(top, P2, A2, B2, M \ {n})
  <2>1. (top = NULL) = (M \ {n} = {})
    BY <1>3, <1>6, <1>7 DEF Linked, p
  <2>2. top # NULL => top \in M \ {n} /\ P2[top] = NULL
    BY <1>2, <1>3, <1>6 DEF Linked, p
  <2>3. \A m \in M \ {n} : A[m] # c \/ c = NULL
    BY <1>3 DEF Linked
  <2>4. \A m \in M \ {n} : B[m] # c \/ c = NULL
    BY <1>3 DEF Linked
  <2>5. \A m \in M \ {n} : (A[m] = n => m = p) /\ (B[m] = n => m = p)
    BY DEF Linked, p
  <2>6. \A m \in M \ {n} : A2[m] \in (M \ {n}) \cup {NULL} /\ B2[m] \in (M \ {n}) \cup {NULL}
    BY <1>2, <1>3, <2>5 DEF Linked
  <2>7. \A m \in M \ {n} : A2[m] = B2[m] => A2[m] = NULL
    BY <1>2, <2>3, <2>4, <2>5 DEF Linked
  <2>8. \A m \in M \ {n} : A2[m] # NULL => P2[A2[m]] = m
    BY <1>2, <1>3, <2>3, <2>5 DEF Linked
  <2>9. \A m \in M \ {n} : B2[m] # NULL => P2[B2[m]] = m
    BY <1>2, <1>3, <2>4, <2>5 DEF Linked
  <2>10. ASSUME NEW m \in (M \ {n}) \ {top}
         PROVE  P2[m] \in M \ {n} /\ (A2[P2[m]] = m \/ B2[P2[m]] = m)
    <3>1. CASE m = c
      <4>1. p # NULL /\ n # root
        BY <1>6, <2>10, <3>1 DEF p
      <4>2. A[p] = n \/ B[p] = n
        BY <4>1 DEF Linked, p
      <4> QED BY <1>2, <1>4, <3>1, <4>1, <4>2
    <3>2. CASE m # c
      <4>1. m # root
        BY <1>6, <2>10, <3>2 DEF p
      <4>2. P[m] \in M /\ (A[P[m]] = m \/ B[P[m]] = m)
        BY <4>1 DEF Linked
      <4>3. P[m] # n
        BY <3>2, <4>2
      <4> QED BY <1>2, <3>2, <4>2, <4>3
    <3> QED BY <3>1, <3>2
  <2> QED BY <2>1, <2>2, <2>6, <2>7, <2>8, <2>9, <2>10 DEF Linked
<1>9. Ranked(P2, rk)
  <2>1. ASSUME NEW m \in Node, P2[m] # NULL PROVE rk[P2[m]] < rk[m]
    <3>1. CASE m = c
      <4>1. P2[m] = p /\ p # NULL /\ c # NULL /\ rk[p] < rk[n] /\ rk[n] < rk[c]
        BY <1>2, <1>3, <1>4, <2>1, <3>1
      <4>2. rk[p] \in Nat /\ rk[n] \in Nat /\ rk[c] \in Nat
        BY <1>1, <1>3, <1>4, <4>1
      <4> QED BY <3>1, <4>1, <4>2
    <3>2. CASE m # c
      BY <1>1, <1>2, <2>1, <3>2
    <3> QED BY <3>1, <3>2
  <2> QED BY <1>1, <2>1 DEF Ranked
<1> QED BY <1>8, <1>9 DEF p

\* c is looked for where n was.
BypassedSides(J, n, c) == [J EXCEPT ![c] = J[n]]

LEMMA BypassSided ==
  ASSUME NEW root, NEW M \in SUBSET Node, NEW R, NEW X, NEW J,
         NEW P \in [Node -> Node \cup {NULL}], NEW A \in [Node -> Node \cup {NULL}],
         NEW B \in [Node -> Node \cup {NULL}], NEW P2,
         NEW A2 \in [Node -> Node \cup {NULL}], NEW B2 \in [Node -> Node \cup {NULL}],
         Linked(root, P, A, B, M), NEW rk, Ranked(P, rk), Sided(root, A, B, J, R, X, M),
         NEW n \in M, NEW c, OnlyChild(A, B, n, c),
         Bypasses(P, A, B, P2, A2, B2, n, c)
  PROVE  Sided(IF P[n] = NULL THEN c ELSE root, A2, B2, BypassedSides(J, n, c), R, X, M \ {n})
<1> USE NullAssumption DEF OnlyChild
<1> DEFINE p == P[n]
           top == IF P[n] = NULL THEN c ELSE root
<1>1. /\ \A x \in Node : A2[x] = IF x = p /\ A[x] = n THEN c ELSE A[x]
      /\ \A x \in Node : B2[x] = IF x = p /\ B[x] = n THEN c ELSE B[x]
  BY DEF Bypasses
<1>2. c # NULL => c \in M /\ P[c] = n /\ c # n
  BY DEF Linked, Ranked
<1>3. p = NULL <=> n = root
  BY DEF Linked
<1> HIDE DEF p
<1> DEFINE K == BypassedSides(J, n, c)
<1>4. J \in [Node -> SUBSET X] /\ (root # NULL => J[root] = X) /\ \A m \in M : m \in J[m]
  BY DEF Sided
<1>5. K \in [Node -> SUBSET X] /\ (c # NULL => K[c] = J[n])
      /\ \A m \in Node \ {c} : K[m] = J[m]
  BY <1>2, <1>4 DEF BypassedSides
<1> HIDE DEF K
<1>6. c # NULL => J[c] \subseteq J[n]
  BY DEF Sided
<1>7. top # NULL => K[top] = X
  BY <1>3, <1>4, <1>5 DEF Linked, p
<1>8. \A m \in M \ {n} : m \in K[m]
  BY <1>4, <1>5, <1>6
<1>9. \A m \in M \ {n} : J[m] \subseteq K[m]
  BY <1>2, <1>5, <1>6
<1>10. ASSUME NEW m \in M \ {n}, A2[m] # NULL, NEW x \in K[A2[m]]
      PROVE  x \in K[m] /\ <<x, m>> \in R
  <2>1. CASE m = p /\ A[m] = n
    <3>1. x \in J[A[m]] /\ A[m] # NULL
      BY <1>1, <1>2, <1>5, <1>10, <2>1
    <3> QED BY <1>9, <3>1 DEF Sided
  <2>2. CASE ~(m = p /\ A[m] = n)
    <3>1. A2[m] = A[m] /\ A[m] \in M
      BY <1>1, <1>10, <2>2 DEF Linked
    <3>2. A[m] # c
      BY <1>2, <1>10, <3>1 DEF Linked
    <3>3. x \in J[A[m]]
      BY <1>5, <1>10, <3>1, <3>2
    <3> QED BY <1>9, <1>10, <3>1, <3>3 DEF Sided
  <2> QED BY <2>1, <2>2
<1>11. ASSUME NEW m \in M \ {n}, B2[m] # NULL, NEW x \in K[B2[m]]
      PROVE  x \in K[m] /\ <<m, x>> \in R
  <2>1. CASE m = p /\ B[m] = n
    <3>1. x \in J[B[m]] /\ B[m] # NULL
      BY <1>1, <1>2, <1>5, <1>11, <2>1
    <3> QED BY <1>9, <3>1 DEF Sided
  <2>2. CASE ~(m = p /\ B[m] = n)
    <3>1. B2[m] = B[m] /\ B[m] \in M
      BY <1>1, <1>11, <2>2 DEF Linked
    <3>2. B[m] # c
      BY <1>2, <1>11, <3>1 DEF Linked
    <3>3. x \in J[B[m]]
      BY <1>5, <1>11, <3>1, <3>2
    <3> QED BY <1>9, <1>11, <3>1, <3>3 DEF Sided
  <2> QED BY <2>1, <2>2
<1>12. Sided(top, A2, B2, K, R, X, M \ {n})
  BY <1>5, <1>7, <1>8, <1>10, <1>11 DEF Sided
<1> QED BY <1>12 DEF K, p

\* What a node that is not in the tree points at does not matter to the tree.
LEMMA UnlinkedKeeps ==
  ASSUME NEW R, NEW X, NEW N, NEW t, Shape(t, N, R, X), ExactOff(t, N, {}),
         NEW n \in Node \ N
  PROVE  LET u == Unlinked(t, n)
         IN  /\ Shape(u, N, R, X)
             /\ ExactOff(u, N, {})
             /\ u.parent[n] = NULL /\ u.left[n] = NULL /\ u.right[n] = NULL
             /\ \A x \in Node \ {n} : SameFields(t, u, x)
<1> USE NullAssumption
<1> DEFINE u == Unlinked(t, n)
<1>1. PICK J, rk : Shaped(t, N, R, X, J, rk)
  BY DEF Shape
<1>2. /\ t \in Tree /\ N \in SUBSET Node
      /\ Linked(t.root, t.parent, t.left, t.right, N)
      /\ Ranked(t.parent, rk)
      /\ Sided(t.root, t.left, t.right, J, R, X, N)
  BY <1>1 DEF Shaped
<1>3. /\ u \in Tree /\ u.root = t.root /\ u.cnt = t.cnt
      /\ u.parent = [t.parent EXCEPT ![n] = NULL]
      /\ u.left = [t.left EXCEPT ![n] = NULL] /\ u.right = [t.right EXCEPT ![n] = NULL]
      /\ u.height = [t.height EXCEPT ![n] = 1]
  <2> DEFINE w == [t EXCEPT !.parent[n] = NULL, !.left[n] = NULL]
             v == [w EXCEPT !.right[n] = NULL, !.height[n] = 1]
  <2>1. u = v
    BY <1>2 DEF Unlinked, Tree
  <2>2. /\ w \in Tree /\ w.root = t.root /\ w.cnt = t.cnt
        /\ w.parent = [t.parent EXCEPT ![n] = NULL] /\ w.left = [t.left EXCEPT ![n] = NULL]
        /\ w.right = t.right /\ w.height = t.height
    BY <1>2 DEF Tree
  <2> HIDE DEF u, w
  <2>3. /\ v.root = w.root /\ v.cnt = w.cnt
        /\ v.parent = w.parent /\ v.left = w.left
        /\ v.right = [w.right EXCEPT ![n] = NULL] /\ v.height = [w.height EXCEPT ![n] = 1]
        /\ v \in [root: Node \cup {NULL}, parent: [Node -> Node \cup {NULL}],
                  left: [Node -> Node \cup {NULL}], right: [Node -> Node \cup {NULL}],
                  height: [Node -> Nat \ {0}], cnt: [Node -> Nat \ {0}]]
    <3>1. w \in [root: Node \cup {NULL}, parent: [Node -> Node \cup {NULL}],
                  left: [Node -> Node \cup {NULL}], right: [Node -> Node \cup {NULL}],
                  height: [Node -> Nat \ {0}], cnt: [Node -> Nat \ {0}]]
      BY <2>2 DEF Tree
    <3>2. n \in Node /\ 1 \in Nat \ {0}
      OBVIOUS
    <3> QED BY <3>1, <3>2
  <2> HIDE DEF v
  <2> QED BY <2>1, <2>2, <2>3 DEF Tree
<1> HIDE DEF u
<1>4. /\ u.parent[n] = NULL /\ u.left[n] = NULL /\ u.right[n] = NULL
      /\ \A x \in Node \ {n} : SameFields(t, u, x)
  BY <1>2, <1>3 DEF Tree, SameFields
<1>5. \A m \in N : /\ u.parent[m] = t.parent[m] /\ u.left[m] = t.left[m]
                   /\ u.right[m] = t.right[m]
  BY <1>2, <1>4 DEF SameFields
<1>6. Linked(u.root, u.parent, u.left, u.right, N)
  BY <1>2, <1>3, <1>5 DEF Linked
<1>7. Ranked(u.parent, rk)
  BY <1>2, <1>3 DEF Ranked, Tree
<1>8. Sided(u.root, u.left, u.right, J, R, X, N)
  BY <1>2, <1>3, <1>5 DEF Sided
<1>9. Shape(u, N, R, X)
  BY <1>2, <1>3, <1>6, <1>7, <1>8 DEF Shape, Shaped
<1>10. ExactOff(u, N, {})
  <2> SUFFICES ASSUME NEW m \in N PROVE Exactly(u, m)
    BY DEF ExactOff
  <2>1. Exactly(t, m) /\ m \in Node \ {n}
    BY <1>2 DEF ExactOff
  <2>2. /\ t.left[m] \in (Node \ {n}) \cup {NULL} /\ t.right[m] \in (Node \ {n}) \cup {NULL}
    BY <1>2 DEF Linked
  <2>3. \A x \in (Node \ {n}) \cup {NULL} : /\ SizeOf(u.height, x) = SizeOf(t.height, x)
                                            /\ SizeOf(u.cnt, x) = SizeOf(t.cnt, x)
    BY <1>4 DEF SizeOf, SameFields
  <2>4. /\ SizeOf(u.height, t.left[m]) = SizeOf(t.height, t.left[m])
        /\ SizeOf(u.height, t.right[m]) = SizeOf(t.height, t.right[m])
        /\ SizeOf(u.cnt, t.left[m]) = SizeOf(t.cnt, t.left[m])
        /\ SizeOf(u.cnt, t.right[m]) = SizeOf(t.cnt, t.right[m])
    BY <2>2, <2>3
  <2>5. SameFields(t, u, m)
    BY <1>4, <2>1
  <2> QED BY <2>1, <2>4, <2>5 DEF Exactly, Exact, SameFields
<1> QED BY <1>4, <1>9, <1>10 DEF u

\* Before avl_fix runs: the only child of n, if there is one, is in the place of n.
Bypassed(t, n) ==
  LET only_child == IF t.left[n] # NULL THEN t.left[n] ELSE t.right[n]
      p == t.parent[n]
  IN  Replace(SetParent(t, only_child, p), p, n, only_child)

LEMMA BypassKeeps ==
  ASSUME NEW R, NEW X, NEW M, NEW t, Shape(t, M, R, X), ExactOff(t, M, {}),
         NEW n \in M, ~HasTwo(t, n)
  PROVE  LET u == Bypassed(t, n)
             p == t.parent[n]
         IN  /\ Shape(u, M \ {n}, R, X)
             /\ p # NULL => p \in M \ {n}
             /\ ExactOff(u, M \ {n}, {p})
             /\ \A x \in Node \ M : SameFields(t, u, x)
<1> USE NullAssumption
<1> DEFINE c == IF t.left[n] # NULL THEN t.left[n] ELSE t.right[n]
           p == t.parent[n]
           w == SetParent(t, c, p)
           u == Replace(w, p, n, c)
           N == M \ {n}
           top == IF p = NULL THEN c ELSE t.root
<1>1. PICK J, rk : Shaped(t, M, R, X, J, rk)
  BY DEF Shape
<1>2. /\ t \in Tree /\ M \in SUBSET Node /\ n \in Node
      /\ Linked(t.root, t.parent, t.left, t.right, M)
      /\ Ranked(t.parent, rk)
      /\ Sided(t.root, t.left, t.right, J, R, X, M)
  BY <1>1 DEF Shaped
<1>3. /\ t.parent \in [Node -> Node \cup {NULL}]
      /\ t.left \in [Node -> Node \cup {NULL}] /\ t.right \in [Node -> Node \cup {NULL}]
  BY <1>2 DEF Tree
<1>4. OnlyChild(t.left, t.right, n, c) /\ c \in Node \cup {NULL} /\ p \in Node \cup {NULL}
  BY <1>2, <1>3 DEF OnlyChild, HasTwo
<1>5. u = Bypassed(t, n)
  BY DEF Bypassed
<1>6. /\ p # NULL => p \in M /\ p # n /\ (t.left[p] = n \/ t.right[p] = n)
      /\ p # NULL => (t.left[p] = n) # (t.right[p] = n)
      /\ c # NULL => c \in M /\ t.parent[c] = n
  BY <1>2, <1>3 DEF Linked, Ranked
<1> HIDE DEF c, p
<1>7. /\ w \in Tree /\ w.root = t.root /\ w.left = t.left /\ w.right = t.right
      /\ w.height = t.height /\ w.cnt = t.cnt
      /\ w.parent = IF c = NULL THEN t.parent ELSE [t.parent EXCEPT ![c] = p]
  BY <1>2, <1>3, <1>4 DEF SetParent, Tree
<1> HIDE DEF w
<1>8. /\ u \in Tree
      /\ u.root = top
      /\ u.parent = w.parent /\ u.height = w.height /\ u.cnt = w.cnt
      /\ \A x \in Node : u.left[x] = IF x = p /\ w.left[x] = n THEN c ELSE w.left[x]
      /\ \A x \in Node : u.right[x] = IF x = p /\ w.left[x] # n THEN c ELSE w.right[x]
  BY <1>4, <1>7, ReplaceFields
<1> HIDE DEF u
<1>9. /\ \A x \in Node : u.parent[x] = IF x = c THEN p ELSE t.parent[x]
      /\ \A x \in Node : u.left[x] = IF x = p /\ t.left[x] = n THEN c ELSE t.left[x]
      /\ \A x \in Node : u.right[x] = IF x = p /\ t.right[x] = n THEN c ELSE t.right[x]
  BY <1>3, <1>4, <1>6, <1>7, <1>8
<1>10. Bypasses(t.parent, t.left, t.right, u.parent, u.left, u.right, n, c)
  BY <1>9 DEF Bypasses, p
<1>11. /\ u.parent \in [Node -> Node \cup {NULL}]
       /\ u.left \in [Node -> Node \cup {NULL}] /\ u.right \in [Node -> Node \cup {NULL}]
  BY <1>8 DEF Tree
<1>12. /\ Linked(top, u.parent, u.left, u.right, N)
       /\ Ranked(u.parent, rk)
       /\ \E K : Sided(top, u.left, u.right, K, R, X, N)
  <2>1. top = IF t.parent[n] = NULL THEN c ELSE t.root
    BY DEF p
  <2> HIDE DEF top, N
  <2>2. /\ Linked(IF t.parent[n] = NULL THEN c ELSE t.root, u.parent, u.left, u.right, M \ {n})
        /\ Ranked(u.parent, rk)
    BY <1>2, <1>3, <1>4, <1>10, <1>11, BypassLinked
  <2>3. Sided(IF t.parent[n] = NULL THEN c ELSE t.root, u.left, u.right, BypassedSides(J, n, c),
              R, X, M \ {n})
    BY <1>2, <1>3, <1>4, <1>10, <1>11, BypassSided
  <2> QED BY <2>1, <2>2, <2>3 DEF N
<1>13. Shape(u, N, R, X)
  BY <1>2, <1>8, <1>12 DEF Shape, Shaped
<1>14. ExactOff(u, N, {p})
  <2> SUFFICES ASSUME NEW m \in N \ {p} PROVE Exactly(u, m)
    BY DEF ExactOff
  <2>1. Exactly(t, m) /\ m \in Node /\ u.left[m] = t.left[m] /\ u.right[m] = t.right[m]
    BY <1>2, <1>9 DEF ExactOff
  <2> QED BY <1>7, <1>8, <2>1 DEF Exactly, Exact
<1>15. \A x \in Node \ M : SameFields(t, u, x)
  BY <1>2, <1>6, <1>7, <1>8, <1>9 DEF SameFields
<1> QED BY <1>5, <1>6, <1>13, <1>14, <1>15 DEF p

\* Deletion of a member that has at most one child.
LEMMA DelKeeps ==
  ASSUME NEW R, NEW X, Ordered(R, X), NEW M, NEW t, Shape(t, M, R, X),
         ExactOff(t, M, {}), NEW n \in M, ~HasTwo(t, n)
  PROVE  LET u == avl_del(t, n)
         IN  /\ Shape(u, M \ {n}, R, X)
             /\ ExactOff(u, M \ {n}, {})
             /\ u.parent[n] = NULL /\ u.left[n] = NULL /\ u.right[n] = NULL
             /\ \A x \in Node \ M : SameFields(t, u, x)
<1> USE NullAssumption
<1> DEFINE w == Bypassed(t, n)
           p == t.parent[n]
           N == M \ {n}
           v == IF p = NULL THEN w ELSE avl_fix(w, p)
           u == Unlinked(v, n)
<1>1. /\ Shape(w, N, R, X)
      /\ p # NULL => p \in N
      /\ ExactOff(w, N, {p})
      /\ \A x \in Node \ M : SameFields(t, w, x)
  BY BypassKeeps
<1>2. u = avl_del(t, n)
  BY DEF avl_del, Bypassed
<1>3. n \in Node /\ n \notin N /\ M \in SUBSET Node /\ N \subseteq Node
  BY DEF Shape, Shaped
<1> HIDE DEF w, N, p
<1>4. Shape(v, N, R, X) /\ ExactOff(v, N, {}) /\ \A x \in Node \ N : SameFields(w, v, x)
  <2>1. CASE p = NULL
    <3>1. NULL \notin N
      BY <1>3
    <3> QED BY <1>1, <2>1, <3>1 DEF ExactOff, SameFields
  <2>2. CASE p # NULL
    <3> DEFINE y == avl_fix(w, p)
    <3>1. ExactOff(w, N, {p, w.parent[p]})
      BY <1>1 DEF ExactOff
    <3>2. p \in N
      BY <1>1, <2>2
    <3>3. /\ Shape(y, N, R, X)
          /\ ExactOff(y, N, {})
          /\ \A x \in Node \ N : SameFields(w, y, x)
      BY <1>1, <3>1, <3>2, FixKeeps
    <3> QED BY <2>2, <3>3
  <2> QED BY <2>1, <2>2
<1> HIDE DEF v
<1>5. n \in Node \ N
  BY <1>3
<1>6. /\ Shape(u, N, R, X)
      /\ ExactOff(u, N, {})
      /\ u.parent[n] = NULL /\ u.left[n] = NULL /\ u.right[n] = NULL
      /\ \A x \in Node \ {n} : SameFields(v, u, x)
  BY <1>4, <1>5, UnlinkedKeeps
<1>7. \A x \in Node \ M : SameFields(t, u, x)
  <2> SUFFICES ASSUME NEW x \in Node \ M PROVE SameFields(t, u, x)
    OBVIOUS
  <2>1. x \in Node \ N /\ x \in Node \ {n}
    BY DEF N
  <2>2. SameFields(t, w, x) /\ SameFields(w, v, x) /\ SameFields(v, u, x)
    BY <1>1, <1>4, <1>6, <2>1
  <2> QED BY <2>2 DEF SameFields
<1> QED BY <1>2, <1>6, <1>7 DEF N

\* s, which was not in the tree, has taken the place of n; what n points at is as before.
Substitutes(P, A, B, P2, A2, B2, n, s) ==
  /\ \A x \in Node : P2[x] = IF x = s THEN P[n]
                             ELSE IF x \in {A[n], B[n]} THEN s ELSE P[x]
  /\ \A x \in Node : A2[x] = IF x = s THEN A[n]
                             ELSE IF x = P[n] /\ A[x] = n THEN s ELSE A[x]
  /\ \A x \in Node : B2[x] = IF x = s THEN B[n]
                             ELSE IF x = P[n] /\ B[x] = n THEN s ELSE B[x]

LEMMA SubstituteLinked ==
  ASSUME NEW root, NEW M \in SUBSET Node,
         NEW P \in [Node -> Node \cup {NULL}], NEW A \in [Node -> Node \cup {NULL}],
         NEW B \in [Node -> Node \cup {NULL}], NEW P2, NEW A2, NEW B2,
         Linked(root, P, A, B, M), Bare(P, A, B, M), NEW rk, Ranked(P, rk),
         NEW n \in M, NEW s \in Node \ M,
         Substitutes(P, A, B, P2, A2, B2, n, s)
  PROVE  /\ Linked(IF P[n] = NULL THEN s ELSE root, P2, A2, B2, (M \ {n}) \cup {s})
         /\ Ranked(P2, [rk EXCEPT ![s] = rk[n]])
<1> USE NullAssumption
<1> DEFINE p == P[n]
           N == (M \ {n}) \cup {s}
           top == IF p = NULL THEN s ELSE root
<1>1. /\ rk \in [Node -> Nat] /\ \A m \in Node : P[m] # NULL => rk[P[m]] < rk[m]
  BY DEF Ranked
<1>2. /\ \A x \in Node : P2[x] = IF x = s THEN p ELSE IF x \in {A[n], B[n]} THEN s ELSE P[x]
      /\ \A x \in Node : A2[x] = IF x = s THEN A[n] ELSE IF x = p /\ A[x] = n THEN s ELSE A[x]
      /\ \A x \in Node : B2[x] = IF x = s THEN B[n] ELSE IF x = p /\ B[x] = n THEN s ELSE B[x]
  BY DEF Substitutes
<1>3. /\ p # NULL => p \in M /\ p # n /\ (A[p] = n \/ B[p] = n)
      /\ p = NULL <=> n = root
  BY <1>1 DEF Linked
<1>4. /\ A[n] # NULL => A[n] \in M /\ A[n] # n /\ P[A[n]] = n
      /\ B[n] # NULL => B[n] \in M /\ B[n] # n /\ P[B[n]] = n
  BY <1>1 DEF Linked
<1>5. \A m \in M : (A[m] = n => m = p) /\ (B[m] = n => m = p)
  BY DEF Linked
<1>6. \A m \in M \ {n} : /\ A[m] # NULL => A[m] \in M /\ A[m] \notin {A[n], B[n]}
                         /\ B[m] # NULL => B[m] \in M /\ B[m] \notin {A[n], B[n]}
  BY <1>4 DEF Linked
<1> HIDE DEF p
<1>7. Linked(top, P2, A2, B2, N)
  <2>1. (top = NULL) = (N = {})
    BY <1>3 DEF Linked
  <2>2. top # NULL => top \in N /\ P2[top] = NULL
    <3>1. CASE p = NULL
      BY <1>2, <3>1
    <3>2. CASE p # NULL
      <4>1. top = root /\ root \in M /\ root # n /\ P[root] = NULL
        BY <1>3, <3>2 DEF Linked
      <4>2. root \notin {A[n], B[n]} /\ root # s /\ root \in Node
        BY <1>4, <4>1
      <4> QED BY <1>2, <4>1, <4>2
    <3> QED BY <3>1, <3>2
  <2>3. \A m \in N : A2[m] \in N \cup {NULL} /\ B2[m] \in N \cup {NULL}
    BY <1>2, <1>4, <1>5, <1>6 DEF Linked
  <2>4. \A m \in N : A2[m] = B2[m] => A2[m] = NULL
    <3>1. A[n] = B[n] => A[n] = NULL
      BY DEF Linked
    <3>2. \A m \in M : A[m] = B[m] => A[m] = NULL
      BY DEF Linked
    <3>3. \A m \in M : A[m] # s /\ B[m] # s
      BY DEF Linked
    <3> QED BY <1>2, <3>1, <3>2, <3>3
  <2>5. ASSUME NEW m \in N, A2[m] # NULL PROVE P2[A2[m]] = m
    <3>1. CASE m = s
      <4>1. A2[m] = A[n] /\ A[n] \in M /\ A[n] # s /\ A[n] \in Node
        BY <1>2, <1>4, <2>5, <3>1
      <4> QED BY <1>2, <3>1, <4>1
    <3>2. CASE m # s /\ m = p /\ A[m] = n
      <4>1. A2[m] = s
        BY <1>2, <3>2
      <4> QED BY <1>2, <3>2, <4>1
    <3>3. CASE m # s /\ ~(m = p /\ A[m] = n)
      <4>1. m \in M \ {n} /\ A2[m] = A[m] /\ A[m] \in M /\ A[m] \notin {A[n], B[n]} /\ P[A[m]] = m
        BY <1>2, <1>6, <2>5, <3>3 DEF Linked
      <4>2. A[m] # s /\ A[m] \in Node
        BY <4>1
      <4> QED BY <1>2, <4>1, <4>2
    <3> QED BY <3>1, <3>2, <3>3
  <2>6. ASSUME NEW m \in N, B2[m] # NULL PROVE P2[B2[m]] = m
    <3>1. CASE m = s
      <4>1. B2[m] = B[n] /\ B[n] \in M /\ B[n] # s /\ B[n] \in Node
        BY <1>2, <1>4, <2>6, <3>1
      <4> QED BY <1>2, <3>1, <4>1
    <3>2. CASE m # s /\ m = p /\ B[m] = n
      <4>1. B2[m] = s
        BY <1>2, <3>2
      <4> QED BY <1>2, <3>2, <4>1
    <3>3. CASE m # s /\ ~(m = p /\ B[m] = n)
      <4>1. m \in M \ {n} /\ B2[m] = B[m] /\ B[m] \in M /\ B[m] \notin {A[n], B[n]} /\ P[B[m]] = m
        BY <1>2, <1>6, <2>6, <3>3 DEF Linked
      <4>2. B[m] # s /\ B[m] \in Node
        BY <4>1
      <4> QED BY <1>2, <4>1, <4>2
    <3> QED BY <3>1, <3>2, <3>3
  <2>7. ASSUME NEW m \in N \ {top} PROVE P2[m] \in N /\ (A2[P2[m]] = m \/ B2[P2[m]] = m)
    <3>1. CASE m = s
      <4>1. P2[m] = p /\ p # NULL
        BY <1>2, <2>7, <3>1
      <4> QED BY <1>2, <1>3, <3>1, <4>1
    <3>2. CASE m # s /\ m \in {A[n], B[n]}
      <4>1. P2[m] = s
        BY <1>2, <2>7, <3>2
      <4> QED BY <1>2, <3>2, <4>1
    <3>3. CASE m # s /\ m \notin {A[n], B[n]}
      <4>1. m \in M \ {n} /\ m # root
        BY <1>3, <2>7, <3>3
      <4>2. P2[m] = P[m] /\ P[m] \in M /\ (A[P[m]] = m \/ B[P[m]] = m)
        BY <1>2, <3>3, <4>1 DEF Linked
      <4>3. P[m] # n /\ P[m] # s
        BY <3>3, <4>2
      <4> QED BY <1>2, <4>1, <4>2, <4>3
    <3> QED BY <3>1, <3>2, <3>3
  <2> QED BY <2>1, <2>2, <2>3, <2>4, <2>5, <2>6, <2>7 DEF Linked
<1>8. Ranked(P2, [rk EXCEPT ![s] = rk[n]])
  <2> DEFINE w == [rk EXCEPT ![s] = rk[n]]
  <2>1. w \in [Node -> Nat] /\ w[s] = rk[n] /\ \A x \in Node \ {s} : w[x] = rk[x]
    BY <1>1
  <2>2. PICK b \in Nat : \A x \in Node : rk[x] <= b
    BY DEF Ranked
  <2>3. \A x \in Node : w[x] <= b
    BY <1>1, <2>2
  <2> HIDE DEF w
  <2>4. \A m \in Node : P[m] # s
    BY DEF Linked, Bare
  <2>5. ASSUME NEW m \in Node, P2[m] # NULL PROVE w[P2[m]] < w[m]
    <3>1. CASE m = s
      <4>1. P2[m] = p /\ p \in M /\ p # s /\ p \in Node
        BY <1>2, <1>3, <2>5, <3>1
      <4>2. rk[p] < rk[n]
        BY <1>1, <4>1 DEF p
      <4> QED BY <2>1, <3>1, <4>1, <4>2
    <3>2. CASE m # s /\ m \in {A[n], B[n]}
      <4>1. P2[m] = s /\ P[m] = n /\ m # NULL
        BY <1>2, <1>4, <3>2
      <4> QED BY <1>1, <2>1, <3>2, <4>1
    <3>3. CASE m # s /\ m \notin {A[n], B[n]}
      <4>1. P2[m] = P[m] /\ P[m] # NULL /\ P[m] # s /\ P[m] \in Node
        BY <1>2, <2>4, <2>5, <3>3
      <4> QED BY <1>1, <2>1, <3>3, <4>1
    <3> QED BY <3>1, <3>2, <3>3
  <2> QED BY <2>1, <2>2, <2>3, <2>5 DEF Ranked, w
<1> QED BY <1>7, <1>8 DEF p

\* Where s takes the place of n, what lies between them cannot be looked for any more
\* on the far side of s.
TakenSides(J, R, n, s) ==
  [m \in Node |-> IF m = s THEN J[n] ELSE IF n \in J[m] THEN J[m]
                  ELSE {x \in J[m] : ~(<<n, x>> \in R /\ (x = s \/ <<x, s>> \in R))}]

LEMMA SubstituteSided ==
  ASSUME NEW root, NEW M \in SUBSET Node, NEW R, NEW X, Ordered(R, X), NEW J,
         NEW P \in [Node -> Node \cup {NULL}], NEW A \in [Node -> Node \cup {NULL}],
         NEW B \in [Node -> Node \cup {NULL}], NEW P2, NEW A2, NEW B2,
         Linked(root, P, A, B, M), Sided(root, A, B, J, R, X, M),
         NEW n \in M, NEW s \in Node \ M, s \in X, Adjacent(R, M, n, s),
         \A m \in M : n \in J[m] => s \in J[m],
         Substitutes(P, A, B, P2, A2, B2, n, s)
  PROVE  Sided(IF P[n] = NULL THEN s ELSE root, A2, B2, TakenSides(J, R, n, s), R, X,
               (M \ {n}) \cup {s})
<1> USE NullAssumption
<1> DEFINE p == P[n]
           N == (M \ {n}) \cup {s}
           top == IF p = NULL THEN s ELSE root
           K == TakenSides(J, R, n, s)
<1>1. /\ \A x \in Node : A2[x] = IF x = s THEN A[n] ELSE IF x = p /\ A[x] = n THEN s ELSE A[x]
      /\ \A x \in Node : B2[x] = IF x = s THEN B[n] ELSE IF x = p /\ B[x] = n THEN s ELSE B[x]
  BY DEF Substitutes
<1>2. /\ J \in [Node -> SUBSET X] /\ (root # NULL => J[root] = X)
      /\ \A m \in M : m \in J[m] /\ m \in X /\ J[m] \subseteq X
  BY DEF Sided
<1>3. \A m \in M : A[m] # NULL => A[m] \in M /\ A[m] \in Node \ {s}
                                  /\ \A x \in J[A[m]] : x \in J[m] /\ <<x, m>> \in R
  BY DEF Linked, Sided
<1>4. \A m \in M : B[m] # NULL => B[m] \in M /\ B[m] \in Node \ {s}
                                  /\ \A x \in J[B[m]] : x \in J[m] /\ <<m, x>> \in R
  BY DEF Linked, Sided
<1>5. /\ \A x \in X : <<x, x>> \notin R
      /\ \A x, y, z \in X : <<x, y>> \in R /\ <<y, z>> \in R => <<x, z>> \in R
      /\ \A x, y \in X : x = y \/ <<x, y>> \in R \/ <<y, x>> \in R
  BY DEF Ordered
<1>6. /\ p = NULL <=> n = root
      /\ \A m \in M : (A[m] = n => m = p) /\ (B[m] = n => m = p)
  BY DEF Linked
<1>7. <<n, s>> \in R /\ \A m \in M : ~(<<n, m>> \in R /\ <<m, s>> \in R)
  BY DEF Adjacent
<1>8. /\ K \in [Node -> SUBSET X] /\ K[s] = J[n]
      /\ \A m \in Node \ {s} : n \in J[m] => K[m] = J[m]
      /\ \A m \in Node \ {s} : n \notin J[m] =>
           K[m] = {x \in J[m] : ~(<<n, x>> \in R /\ (x = s \/ <<x, s>> \in R))}
  BY <1>2 DEF TakenSides
<1> HIDE DEF p, K
<1>9. top # NULL => K[top] = X
  <2>1. CASE p = NULL
    BY <1>2, <1>6, <1>8, <2>1
  <2>2. CASE p # NULL
    <3>1. top = root /\ root \in M /\ root # s
      BY <1>6, <2>2 DEF Linked
    <3>2. n \in J[root] /\ root \in Node
      BY <1>2, <3>1
    <3> QED BY <1>2, <1>8, <3>1, <3>2
  <2> QED BY <2>1, <2>2
<1>10. ASSUME NEW m \in N PROVE m \in K[m]
  <2>1. CASE m = s
    BY <1>2, <1>8, <2>1
  <2>2. CASE m # s
    <3>1. m \in M /\ m # n /\ m \in J[m] /\ m \in Node \ {s}
      BY <1>2, <1>10, <2>2
    <3>2. ~(<<n, m>> \in R /\ (m = s \/ <<m, s>> \in R))
      BY <1>7, <2>2, <3>1
    <3> QED BY <1>8, <3>1, <3>2
  <2> QED BY <2>1, <2>2
<1>11. \A m \in Node \ {s} : K[m] \subseteq J[m]
  BY <1>8
\* What can be looked for below m and is not between n and s can be looked for at m.
<1>12. \A m \in N \ {s} : \A x \in J[m] :
         ~(<<n, x>> \in R /\ (x = s \/ <<x, s>> \in R)) => x \in K[m]
  BY <1>8
<1>13. \A m \in Node \ {s} : \A x \in K[m] :
         n \in J[m] \/ ~(<<n, x>> \in R /\ (x = s \/ <<x, s>> \in R))
  BY <1>8
<1>14. ASSUME NEW m \in N, A2[m] # NULL, NEW x \in K[A2[m]] PROVE x \in K[m] /\ <<x, m>> \in R
  <2>1. CASE m = s
    <3>1. A2[m] = A[n] /\ A[n] # NULL
      BY <1>1, <1>14, <2>1
    <3>2. x \in J[n] /\ <<x, n>> \in R
      BY <1>3, <1>11, <1>14, <3>1
    <3>3. <<x, s>> \in R
      BY <1>2, <1>5, <1>7, <3>2
    <3> QED BY <1>8, <2>1, <3>2, <3>3
  <2>2. CASE m # s /\ m = p /\ A[m] = n
    <3>1. A2[m] = s /\ A[m] # NULL /\ m \in M
      BY <1>1, <1>14, <2>2
    <3>2. x \in J[n]
      BY <1>8, <1>14, <3>1
    <3>3. n \in J[m] /\ x \in J[m] /\ <<x, m>> \in R
      BY <1>2, <1>3, <2>2, <3>1, <3>2
    <3> QED BY <1>8, <2>2, <3>1, <3>3
  <2>3. CASE m # s /\ ~(m = p /\ A[m] = n)
    <3>1. A2[m] = A[m] /\ A[m] # NULL /\ m \in M /\ m \in N \ {s} /\ A[m] \in Node \ {s}
      BY <1>1, <1>3, <1>14, <2>3
    <3>2. x \in J[m] /\ <<x, m>> \in R
      BY <1>3, <1>11, <1>14, <3>1
    <3>3. n \in J[A[m]] => n \in J[m]
      BY <1>3, <3>1
    <3>4. x \in K[m]
      BY <1>8, <1>12, <1>13, <1>14, <3>1, <3>2, <3>3
    <3> QED BY <3>2, <3>4
  <2> QED BY <2>1, <2>2, <2>3
<1>15. ASSUME NEW m \in N, B2[m] # NULL, NEW x \in K[B2[m]] PROVE x \in K[m] /\ <<m, x>> \in R
  <2>1. CASE m = s
    <3>1. B2[m] = B[n] /\ B[n] # NULL /\ B[n] \in Node \ {s}
      BY <1>1, <1>4, <1>15, <2>1
    <3>2. x \in J[n] /\ <<n, x>> \in R
      BY <1>4, <1>11, <1>15, <3>1
    <3>3. n \notin J[B[n]]
      BY <1>2, <1>4, <1>5, <3>1
    <3>4. ~(x = s \/ <<x, s>> \in R)
      BY <1>13, <1>15, <3>1, <3>2, <3>3
    <3>5. <<s, x>> \in R
      BY <1>2, <1>5, <3>2, <3>4
    <3> QED BY <1>8, <2>1, <3>2, <3>5
  <2>2. CASE m # s /\ m = p /\ B[m] = n
    <3>1. B2[m] = s /\ B[m] # NULL /\ m \in M
      BY <1>1, <1>15, <2>2
    <3>2. x \in J[n]
      BY <1>8, <1>15, <3>1
    <3>3. n \in J[m] /\ x \in J[m] /\ <<m, x>> \in R
      BY <1>2, <1>4, <2>2, <3>1, <3>2
    <3> QED BY <1>8, <2>2, <3>1, <3>3
  <2>3. CASE m # s /\ ~(m = p /\ B[m] = n)
    <3>1. B2[m] = B[m] /\ B[m] # NULL /\ m \in M /\ m \in N \ {s} /\ B[m] \in Node \ {s}
      BY <1>1, <1>4, <1>15, <2>3
    <3>2. x \in J[m] /\ <<m, x>> \in R
      BY <1>4, <1>11, <1>15, <3>1
    <3>3. n \in J[B[m]] => n \in J[m]
      BY <1>4, <3>1
    <3>4. x \in K[m]
      BY <1>8, <1>12, <1>13, <1>15, <3>1, <3>2, <3>3
    <3> QED BY <3>2, <3>4
  <2> QED BY <2>1, <2>2, <2>3
<1>16. Sided(top, A2, B2, K, R, X, N)
  BY <1>8, <1>9, <1>10, <1>14, <1>15 DEF Sided
<1> QED BY <1>16 DEF K, p

\* s is less and greater than all the members of M that n is.
Alike(R, M, n, s) ==
  \A m \in M : /\ <<n, m>> \in R => <<s, m>> \in R
               /\ <<m, n>> \in R => <<m, s>> \in R

LEMMA AdjacentAlike ==
  ASSUME NEW R, NEW X, Ordered(R, X), NEW M \in SUBSET X, NEW n \in M, NEW s \in X \ M,
         Adjacent(R, M, n, s)
  PROVE  Alike(R, M, n, s)
BY DEF Ordered, Adjacent, Alike

\* Then a search for s comes to every node to which one for n comes.
LEMMA SearchAlike ==
  ASSUME NEW R, NEW X, NEW M, NEW t, NEW K, NEW rk,
         Shaped(t, M, R, X, K, rk), Widest(t, K, R, M),
         NEW n \in M, NEW s \in X, Alike(R, M, n, s)
  PROVE  \A m \in M : n \in K[m] => s \in K[m]
<1> USE NullAssumption
<1>1. /\ M \in SUBSET Node
      /\ Linked(t.root, t.parent, t.left, t.right, M)
      /\ rk \in [Node -> Nat] /\ Ranks(Node, rk)
      /\ \A m \in Node : t.parent[m] # NULL => rk[t.parent[m]] < rk[m]
      /\ Sided(t.root, t.left, t.right, K, R, X, M)
  BY DEF Shaped, Ranked, Ranks
<1>2. \A k \in M : /\ <<n, k>> \in R => <<s, k>> \in R
                   /\ <<k, n>> \in R => <<k, s>> \in R
  BY DEF Alike
<1> DEFINE G == {k \in Node : k \in M /\ n \in K[k] => s \in K[k]}
<1>3. ASSUME NEW m \in Node, \A k \in Node : rk[k] < rk[m] => k \in G PROVE m \in G
  <2> SUFFICES ASSUME m \in M, n \in K[m] PROVE s \in K[m]
    OBVIOUS
  <2>1. CASE m = t.root
    BY <1>1, <2>1 DEF Sided, Linked
  <2>2. CASE m # t.root
    <3> DEFINE q == t.parent[m]
    <3>1. q \in M /\ q # NULL /\ (t.left[q] = m \/ t.right[q] = m) /\ rk[q] < rk[m] /\ m # NULL
      BY <1>1, <2>2 DEF Linked
    <3>2. q \in G
      BY <1>1, <1>3, <3>1
    <3> HIDE DEF q
    <3>3. CASE t.left[q] = m
      <4>1. K[m] = {a \in K[q] : <<a, q>> \in R}
        BY <3>1, <3>3 DEF Widest
      <4>2. s \in K[q] /\ <<n, q>> \in R
        BY <3>1, <3>2, <4>1
      <4>3. <<s, q>> \in R
        BY <1>2, <3>1, <4>2
      <4> QED BY <4>1, <4>2, <4>3
    <3>4. CASE t.right[q] = m
      <4>1. K[m] = {a \in K[q] : <<q, a>> \in R}
        BY <3>1, <3>4 DEF Widest
      <4>2. s \in K[q] /\ <<q, n>> \in R
        BY <3>1, <3>2, <4>1
      <4>3. <<q, s>> \in R
        BY <1>2, <3>1, <4>2
      <4> QED BY <4>1, <4>2, <4>3
    <3> QED BY <3>1, <3>3, <3>4
  <2> QED BY <2>1, <2>2
<1>4. Node \subseteq G
  <2> HIDE DEF G
  <2>1. Inherited(Node, rk, G)
    BY <1>3 DEF Inherited
  <2> QED BY <1>1, <2>1, RankInduction
<1> QED BY <1>1, <1>4

LEMMA SetParentFields ==
  ASSUME NEW t \in Tree, NEW n, NEW p \in Node
  PROVE  LET u == SetParent(t, n, p)
         IN  /\ u \in Tree /\ u.root = t.root /\ u.left = t.left /\ u.right = t.right
             /\ u.height = t.height /\ u.cnt = t.cnt
             /\ \A x \in Node : u.parent[x] = IF x = n THEN p ELSE t.parent[x]
<1> USE NullAssumption DEF SetParent, Tree
<1>1. CASE n = NULL
  BY <1>1
<1>2. CASE n # NULL
  BY <1>2
<1> QED BY <1>1, <1>2

\* Substituted, once the successor s has left its own place.
TakePlace(u, n, s) ==
  LET moved == [u EXCEPT !.parent[s] = u.parent[n],
                         !.left[s] = u.left[n], !.right[s] = u.right[n]]
      adopted == SetParent(SetParent(moved, moved.left[s], s), moved.right[s], s)
  IN  Replace(avl_update(adopted, s), u.parent[n], n, s)

LEMMA TakePlaceFields ==
  ASSUME NEW t \in Tree, NEW n \in Node, NEW s \in Node, n # s,
         t.left[n] \notin {n, s}, t.right[n] \notin {n, s}, t.parent[n] # s
  PROVE  LET v == TakePlace(t, n, s)
             p == t.parent[n]
         IN  /\ v \in Tree /\ v.root = IF p = NULL THEN s ELSE t.root
             /\ \A x \in Node : v.parent[x] = IF x = s THEN p
                                  ELSE IF x \in {t.left[n], t.right[n]} THEN s ELSE t.parent[x]
             /\ \A x \in Node : v.left[x] = IF x = s THEN t.left[n]
                                  ELSE IF x = p /\ t.left[x] = n THEN s ELSE t.left[x]
             /\ \A x \in Node : v.right[x] = IF x = s THEN t.right[n]
                                  ELSE IF x = p /\ t.left[x] # n THEN s ELSE t.right[x]
             /\ \A x \in Node \ {s} : v.height[x] = t.height[x] /\ v.cnt[x] = t.cnt[x]
             /\ v.height[s] = 1 + Larger(SizeOf(t.height, t.left[n]), SizeOf(t.height, t.right[n]))
             /\ v.cnt[s] = 1 + SizeOf(t.cnt, t.left[n]) + SizeOf(t.cnt, t.right[n])
<1> USE NullAssumption
<1> DEFINE p == t.parent[n]
           l == t.left[n]
           r == t.right[n]
           a == [t EXCEPT !.parent[s] = p, !.left[s] = l, !.right[s] = r]
           b == SetParent(a, l, s)
           c == SetParent(b, r, s)
           d == avl_update(c, s)
           v == Replace(d, p, n, s)
<1>1. /\ p \in Node \cup {NULL} /\ s \in Node \cup {NULL}
      /\ l \in Node \cup {NULL} /\ r \in Node \cup {NULL}
  BY DEF Tree
<1>2. /\ a \in Tree /\ a.root = t.root /\ a.height = t.height /\ a.cnt = t.cnt
      /\ a.parent = [t.parent EXCEPT ![s] = p]
      /\ a.left = [t.left EXCEPT ![s] = l] /\ a.right = [t.right EXCEPT ![s] = r]
  <2> HIDE DEF p, l, r
  <2> QED BY <1>1 DEF Tree
<1>3. a.left[s] = l /\ a.right[s] = r
  <2> HIDE DEF p, l, r, a
  <2> QED BY <1>2 DEF Tree
<1>4. v = TakePlace(t, n, s)
  <2> HIDE DEF v, a
  <2>1. TakePlace(t, n, s)
          = Replace(avl_update(SetParent(SetParent(a, a.left[s], s), a.right[s], s), s), p, n, s)
    BY DEF TakePlace, a
  <2> QED BY <1>3, <2>1 DEF v
<1> HIDE DEF p, l, r, a
<1>5. /\ b \in Tree /\ b.root = a.root /\ b.left = a.left /\ b.right = a.right
      /\ b.height = a.height /\ b.cnt = a.cnt
      /\ \A x \in Node : b.parent[x] = IF x = l THEN s ELSE a.parent[x]
  <2>1. a \in Tree
    BY <1>2
  <2> QED BY <2>1, SetParentFields
<1> HIDE DEF b
<1>6. /\ c \in Tree /\ c.root = b.root /\ c.left = b.left /\ c.right = b.right
      /\ c.height = b.height /\ c.cnt = b.cnt
      /\ \A x \in Node : c.parent[x] = IF x = r THEN s ELSE b.parent[x]
  BY <1>5, SetParentFields
<1> HIDE DEF c
<1>7. /\ d \in Tree
      /\ d.root = c.root /\ d.parent = c.parent /\ d.left = c.left /\ d.right = c.right
      /\ \A x \in Node \ {s} : d.height[x] = c.height[x] /\ d.cnt[x] = c.cnt[x]
      /\ d.height[s] = 1 + Larger(SizeOf(c.height, c.left[s]), SizeOf(c.height, c.right[s]))
      /\ d.cnt[s] = 1 + SizeOf(c.cnt, c.left[s]) + SizeOf(c.cnt, c.right[s])
  BY <1>6, UpdateFields
<1> HIDE DEF d
<1>8. /\ v \in Tree
      /\ v.root = IF p = NULL THEN s ELSE d.root
      /\ v.parent = d.parent /\ v.height = d.height /\ v.cnt = d.cnt
      /\ \A x \in Node : v.left[x] = IF x = p /\ d.left[x] = n THEN s ELSE d.left[x]
      /\ \A x \in Node : v.right[x] = IF x = p /\ d.left[x] # n THEN s ELSE d.right[x]
  BY <1>1, <1>7, ReplaceFields
<1> HIDE DEF v
<1>9. /\ p # s /\ l # s /\ r # s /\ l # n /\ r # n
  BY DEF p, l, r
<1>10. /\ \A x \in Node : a.parent[x] = IF x = s THEN p ELSE t.parent[x]
       /\ \A x \in Node : a.left[x] = IF x = s THEN l ELSE t.left[x]
       /\ \A x \in Node : a.right[x] = IF x = s THEN r ELSE t.right[x]
  BY <1>2 DEF Tree
<1>11. \A x \in Node : v.parent[x] = IF x = s THEN p ELSE IF x \in {l, r} THEN s ELSE t.parent[x]
  BY <1>5, <1>6, <1>7, <1>8, <1>9, <1>10
<1>12. \A x \in Node : v.left[x] = IF x = s THEN l
                                   ELSE IF x = p /\ t.left[x] = n THEN s ELSE t.left[x]
  BY <1>5, <1>6, <1>7, <1>8, <1>9, <1>10
<1>13. \A x \in Node : v.right[x] = IF x = s THEN r
                                    ELSE IF x = p /\ t.left[x] # n THEN s ELSE t.right[x]
  BY <1>5, <1>6, <1>7, <1>8, <1>9, <1>10
<1>14. \A x \in Node \ {s} : v.height[x] = t.height[x] /\ v.cnt[x] = t.cnt[x]
  BY <1>2, <1>5, <1>6, <1>7, <1>8
<1>15. /\ v.height[s] = 1 + Larger(SizeOf(t.height, l), SizeOf(t.height, r))
       /\ v.cnt[s] = 1 + SizeOf(t.cnt, l) + SizeOf(t.cnt, r)
  BY <1>2, <1>3, <1>5, <1>6, <1>7, <1>8
<1>16. v.root = IF p = NULL THEN s ELSE t.root
  BY <1>2, <1>5, <1>6, <1>7, <1>8
<1> QED BY <1>4, <1>8, <1>11, <1>12, <1>13, <1>14, <1>15, <1>16 DEF p, l, r

\* The place of n is taken by a node that comes right after n in the order.
LEMMA TakePlaceKeeps ==
  ASSUME NEW R, NEW X, Ordered(R, X), NEW M, NEW t, Shape(t, M, R, X), Clean(t, M),
         ExactOff(t, M, {}), NEW n \in M, NEW s \in Node \ M, s \in X, Adjacent(R, M, n, s)
  PROVE  LET v == TakePlace(t, n, s)
         IN  /\ Shape(v, (M \ {n}) \cup {s}, R, X)
             /\ ExactOff(v, (M \ {n}) \cup {s}, {})
             /\ \A x \in Node \ (M \cup {s}) : SameFields(t, v, x)
<1> USE NullAssumption
<1> DEFINE v == TakePlace(t, n, s)
           p == t.parent[n]
           top == IF p = NULL THEN s ELSE t.root
           N == (M \ {n}) \cup {s}
<1>1. PICK J, rk : Shaped(t, M, R, X, J, rk)
  BY DEF Shape
<1>2. \E K : Shaped(t, M, R, X, K, rk) /\ Widest(t, K, R, M)
  <2>1. X \subseteq X /\ \A x, y \in X : <<x, y>> \in R => <<x, y>> \in R
    OBVIOUS
  <2> QED BY <1>1, <2>1, Widen
<1>3. PICK K : Shaped(t, M, R, X, K, rk) /\ Widest(t, K, R, M)
  BY <1>2
<1>4. /\ t \in Tree /\ M \in SUBSET Node /\ n \in Node /\ s \in Node /\ n # s
      /\ Linked(t.root, t.parent, t.left, t.right, M)
      /\ Ranked(t.parent, rk)
      /\ Sided(t.root, t.left, t.right, K, R, X, M)
  BY <1>3 DEF Shaped
<1>5. /\ t.parent \in [Node -> Node \cup {NULL}]
      /\ t.left \in [Node -> Node \cup {NULL}] /\ t.right \in [Node -> Node \cup {NULL}]
  BY <1>4 DEF Tree
<1>6. /\ t.left[n] \notin {n, s} /\ t.right[n] \notin {n, s} /\ p # s
      /\ t.left[n] \in M \cup {NULL} /\ t.right[n] \in M \cup {NULL}
      /\ p # NULL => p \in M /\ (t.left[p] = n) # (t.right[p] = n)
  BY <1>4, <1>5 DEF Linked, Ranked
<1>7. /\ v \in Tree /\ v.root = top
      /\ \A x \in Node : v.parent[x] = IF x = s THEN p
                           ELSE IF x \in {t.left[n], t.right[n]} THEN s ELSE t.parent[x]
      /\ \A x \in Node : v.left[x] = IF x = s THEN t.left[n]
                           ELSE IF x = p /\ t.left[x] = n THEN s ELSE t.left[x]
      /\ \A x \in Node : v.right[x] = IF x = s THEN t.right[n]
                           ELSE IF x = p /\ t.left[x] # n THEN s ELSE t.right[x]
      /\ \A x \in Node \ {s} : v.height[x] = t.height[x] /\ v.cnt[x] = t.cnt[x]
      /\ v.height[s] = 1 + Larger(SizeOf(t.height, t.left[n]), SizeOf(t.height, t.right[n]))
      /\ v.cnt[s] = 1 + SizeOf(t.cnt, t.left[n]) + SizeOf(t.cnt, t.right[n])
  BY <1>4, <1>6, TakePlaceFields
<1> HIDE DEF v
<1>8. Substitutes(t.parent, t.left, t.right, v.parent, v.left, v.right, n, s)
  <2>1. \A x \in Node : v.right[x] = IF x = s THEN t.right[n]
                          ELSE IF x = p /\ t.right[x] = n THEN s ELSE t.right[x]
    BY <1>6, <1>7
  <2> QED BY <1>7, <2>1 DEF Substitutes
<1>9. Bare(t.parent, t.left, t.right, M)
  BY DEF Bare, Clean
<1>10. /\ Linked(IF t.parent[n] = NULL THEN s ELSE t.root, v.parent, v.left, v.right,
                 (M \ {n}) \cup {s})
       /\ Ranked(v.parent, [rk EXCEPT ![s] = rk[n]])
  BY <1>4, <1>5, <1>8, <1>9, SubstituteLinked
<1>11. Sided(IF t.parent[n] = NULL THEN s ELSE t.root, v.left, v.right, TakenSides(K, R, n, s),
             R, X, (M \ {n}) \cup {s})
  <2>1. \A m \in M : n \in K[m] => s \in K[m]
    <3>1. s \in X \ M /\ M \in SUBSET X
      BY <1>4 DEF Sided
    <3>2. Alike(R, M, n, s)
      BY <3>1, AdjacentAlike
    <3> QED BY <1>3, <3>2, SearchAlike
  <2> QED BY <1>4, <1>5, <1>8, <2>1, SubstituteSided
<1>12. Shape(v, N, R, X)
  BY <1>4, <1>7, <1>10, <1>11 DEF Shape, Shaped
<1>13. \A x \in Node \ (M \cup {s}) : SameFields(t, v, x)
  BY <1>4, <1>6, <1>7 DEF SameFields
<1>14. ExactOff(v, N, {})
  <2> SUFFICES ASSUME NEW m \in N PROVE Exactly(v, m)
    BY DEF ExactOff
  <2>1. v.height[s] = t.height[n] /\ v.cnt[s] = t.cnt[n]
    BY <1>7 DEF ExactOff, Exactly, Exact
  <2>2. \A x \in (Node \ {s}) \cup {NULL} : /\ SizeOf(v.height, x) = SizeOf(t.height, x)
                                            /\ SizeOf(v.cnt, x) = SizeOf(t.cnt, x)
    BY <1>7 DEF SizeOf
  <2>3. SizeOf(v.height, s) = SizeOf(t.height, n) /\ SizeOf(v.cnt, s) = SizeOf(t.cnt, n)
    BY <1>4, <2>1 DEF SizeOf
  <2>4. CASE m = s
    <3>1. v.left[s] = t.left[n] /\ v.right[s] = t.right[n]
      BY <1>7
    <3>2. t.left[n] \in (Node \ {s}) \cup {NULL} /\ t.right[n] \in (Node \ {s}) \cup {NULL}
      BY <1>4, <1>6
    <3> QED BY <1>7, <2>2, <2>4, <3>1, <3>2 DEF Exactly, Exact
  <2>5. CASE m # s
    <3>1. m \in M \ {n} /\ m \in Node \ {s}
      BY <1>4, <2>5
    <3>2. Exactly(t, m) /\ v.height[m] = t.height[m] /\ v.cnt[m] = t.cnt[m]
      BY <1>7, <3>1 DEF ExactOff
    <3>3. /\ t.left[m] \in (Node \ {s}) \cup {NULL} /\ t.right[m] \in (Node \ {s}) \cup {NULL}
      BY <1>4, <3>1 DEF Linked
    <3>4. /\ v.left[m] = t.left[m] \/ (t.left[m] = n /\ v.left[m] = s)
          /\ v.right[m] = t.right[m] \/ (t.right[m] = n /\ v.right[m] = s)
      BY <1>6, <1>7, <3>1
    <3>5. /\ SizeOf(v.height, v.left[m]) = SizeOf(t.height, t.left[m])
          /\ SizeOf(v.height, v.right[m]) = SizeOf(t.height, t.right[m])
          /\ SizeOf(v.cnt, v.left[m]) = SizeOf(t.cnt, t.left[m])
          /\ SizeOf(v.cnt, v.right[m]) = SizeOf(t.cnt, t.right[m])
      BY <2>2, <2>3, <3>3, <3>4
    <3> QED BY <3>2, <3>5 DEF Exactly, Exact
  <2> QED BY <2>4, <2>5
<1> QED BY <1>12, <1>13, <1>14 DEF v

\* Deletion of a member that has two children, as avl_delete leaves it.
LEMMA SubstitutedKeeps ==
  ASSUME NEW R, NEW X, Ordered(R, X), NEW M, NEW t, Shape(t, M, R, X), Clean(t, M),
         ExactOff(t, M, {}), NEW n \in M, HasTwo(t, n)
  PROVE  LET v == Substituted(t, n)
         IN  /\ Shape(v, M \ {n}, R, X)
             /\ ExactOff(v, M \ {n}, {})
             /\ \A x \in Node \ M : SameFields(t, v, x)
<1> USE NullAssumption
<1> DEFINE s == Successor(t, n)
           u == avl_del(t, s)
           v == TakePlace(u, n, s)
           L == M \ {s}
<1>1. PICK J, rk : Shaped(t, M, R, X, J, rk)
  BY DEF Shape
<1>2. \E K : Shaped(t, M, R, X, K, rk) /\ Widest(t, K, R, M)
  <2>1. X \subseteq X /\ \A x, y \in X : <<x, y>> \in R => <<x, y>> \in R
    OBVIOUS
  <2> QED BY <1>1, <2>1, Widen
<1>3. PICK K : Shaped(t, M, R, X, K, rk) /\ Widest(t, K, R, M)
  BY <1>2
<1>4. s \in M /\ s # n /\ t.left[s] = NULL /\ Adjacent(R, M, n, s)
  <2>1. t.right[n] # NULL
    BY DEF HasTwo
  <2> QED BY <1>3, <2>1, SuccessorIsNext
<1>5. v = Substituted(t, n)
  BY DEF Substituted, TakePlace
<1> HIDE DEF s
<1>6. s \in Node /\ s \in X /\ M \in SUBSET Node
  BY <1>3, <1>4 DEF Shaped, Sided
<1>7. /\ Shape(u, L, R, X)
      /\ ExactOff(u, L, {})
      /\ u.parent[s] = NULL /\ u.left[s] = NULL /\ u.right[s] = NULL
      /\ \A x \in Node \ M : SameFields(t, u, x)
  <2>1. s \in M /\ ~HasTwo(t, s)
    BY <1>4 DEF HasTwo
  <2> QED BY <2>1, DelKeeps
<1> HIDE DEF u
<1>8. Clean(u, L)
  BY <1>7 DEF Clean, SameFields
<1>9. n \in L /\ s \in Node \ L /\ Adjacent(R, L, n, s)
  BY <1>4, <1>6 DEF Adjacent
<1>10. (L \ {n}) \cup {s} = M \ {n} /\ L \cup {s} = M
  BY <1>4
<1> HIDE DEF L
<1>11. /\ Shape(v, (L \ {n}) \cup {s}, R, X)
       /\ ExactOff(v, (L \ {n}) \cup {s}, {})
       /\ \A x \in Node \ (L \cup {s}) : SameFields(u, v, x)
  BY <1>6, <1>7, <1>8, <1>9, TakePlaceKeeps
<1> HIDE DEF v
<1>12. \A x \in Node \ M : SameFields(t, v, x)
  BY <1>7, <1>10, <1>11 DEF SameFields
<1> QED BY <1>5, <1>10, <1>11, <1>12

\* avl_delete_ of a member: a search tree of the others remains, and the node points at
\* nothing.
LEMMA DeleteKeeps ==
  ASSUME NEW R, NEW X, Ordered(R, X), NEW M, NEW t, Shape(t, M, R, X), Clean(t, M),
         ExactOff(t, M, {}), NEW n \in M
  PROVE  LET u == avl_delete_(t, n)
         IN  /\ Shape(u, M \ {n}, R, X)
             /\ ExactOff(u, M \ {n}, {})
             /\ Clean(u, M \ {n})
<1> USE NullAssumption
<1> DEFINE u == avl_delete_(t, n)
           L == M \ {n}
<1>0. M \in SUBSET Node
  BY DEF Shape, Shaped
<1>1. CASE HasTwo(t, n)
  <2> DEFINE v == Substituted(t, n)
             w == Unlinked(v, n)
  <2>1. u = w
    BY <1>1 DEF avl_delete_
  <2>2. /\ Shape(v, L, R, X)
        /\ ExactOff(v, L, {})
        /\ \A x \in Node \ M : SameFields(t, v, x)
    BY <1>1, SubstitutedKeeps
  <2> HIDE DEF v, u
  <2>3. n \in Node \ L
    BY <1>0
  <2> HIDE DEF L
  <2>4. /\ Shape(w, L, R, X)
        /\ ExactOff(w, L, {})
        /\ w.parent[n] = NULL /\ w.left[n] = NULL /\ w.right[n] = NULL
        /\ \A x \in Node \ {n} : SameFields(v, w, x)
    BY <2>2, <2>3, UnlinkedKeeps
  <2> HIDE DEF w
  <2>5. Clean(w, L)
    <3> SUFFICES ASSUME NEW x \in Node \ L
                 PROVE  w.parent[x] = NULL /\ w.left[x] = NULL /\ w.right[x] = NULL
      BY DEF Clean
    <3>1. CASE x = n
      BY <2>4, <3>1
    <3>2. CASE x # n
      <4>1. x \in Node \ M /\ x \in Node \ {n}
        BY <3>2 DEF L
      <4>2. SameFields(t, v, x) /\ SameFields(v, w, x)
        BY <2>2, <2>4, <4>1
      <4> QED BY <4>1, <4>2 DEF SameFields, Clean
    <3> QED BY <3>1, <3>2
  <2> QED BY <2>1, <2>4, <2>5 DEF L, u
<1>2. CASE ~HasTwo(t, n)
  <2> DEFINE w == avl_del(t, n)
  <2>1. u = w
    BY <1>2 DEF avl_delete_
  <2>2. /\ Shape(w, L, R, X)
        /\ ExactOff(w, L, {})
        /\ w.parent[n] = NULL /\ w.left[n] = NULL /\ w.right[n] = NULL
        /\ \A x \in Node \ M : SameFields(t, w, x)
    BY <1>2, DelKeeps
  <2> HIDE DEF w, u
  <2>3. Clean(w, L)
    BY <2>2 DEF Clean, SameFields
  <2> QED BY <2>1, <2>2, <2>3 DEF u
<1> QED BY <1>1, <1>2

\* avl_find comes to the node if it is in the tree, and to a null pointer if not.
LEMMA FindFinds ==
  ASSUME NEW R, NEW X, Ordered(R, X), NEW M, NEW t, Shape(t, M, R, X), Clean(t, M),
         NEW n \in Node, n \in X, NEW above,
         \A m \in M \ {n} : m \in above => <<n, m>> \in R,
         \A m \in M \ {n} : m \notin above => <<m, n>> \in R
  PROVE  avl_find(t, n, above) = IF n \in M THEN n ELSE NULL
<1> USE NullAssumption
<1> DEFINE S == Node \cup {NULL}
           child(m) == IF m \in above THEN t.left[m] ELSE t.right[m]
           seek[m \in Node \cup {NULL}] == IF m \in {n, NULL} THEN m ELSE seek[child(m)]
           D == [f \in [S -> S] |-> [m \in S |-> IF m \in {n, NULL} THEN m ELSE f[child(m)]]]
<1>1. PICK J, rk : Shaped(t, M, R, X, J, rk)
  BY DEF Shape
<1>2. \E K : Shaped(t, M, R, X, K, rk) /\ Widest(t, K, R, M)
  <2>1. X \subseteq X /\ \A x, y \in X : <<x, y>> \in R => <<x, y>> \in R
    OBVIOUS
  <2> QED BY <1>1, <2>1, Widen
<1>3. PICK K : Shaped(t, M, R, X, K, rk) /\ Widest(t, K, R, M)
  BY <1>2
<1>4. /\ t \in Tree /\ M \in SUBSET Node
      /\ Linked(t.root, t.parent, t.left, t.right, M)
      /\ Sided(t.root, t.left, t.right, K, R, X, M)
  BY <1>3 DEF Shaped
<1>5. PICK d : Falls(t, d)
  BY DownRank
<1>6. /\ Ranks(S, d)
      /\ \A m \in Node : child(m) \in S /\ d[child(m)] < d[m]
  BY <1>4, <1>5 DEF Falls, Tree
<1>7. Recursive(S, S, d, D)
  <2>1. \A f \in [S -> S], m \in S : (IF m \in {n, NULL} THEN m ELSE f[child(m)]) \in S
    BY <1>6
  <2>2. \A g, h \in [S -> S], m \in S :
          (\A k \in S : d[k] < d[m] => g[k] = h[k]) => D[g][m] = D[h][m]
    BY <1>6
  <2>3. D \in [[S -> S] -> [S -> S]]
    BY <2>1
  <2>4. S # {}
    OBVIOUS
  <2> HIDE DEF D, S
  <2> QED BY <2>2, <2>3, <2>4 DEF Recursive
<1>8. PICK f \in [S -> S] : f = D[f]
  <2> HIDE DEF D, S
  <2> QED BY <1>6, <1>7, Recursion
<1>9. f = [m \in Node \cup {NULL} |-> IF m \in {n, NULL} THEN m ELSE f[child(m)]]
  BY <1>8
<1>10. seek = [m \in Node \cup {NULL} |-> IF m \in {n, NULL} THEN m ELSE seek[child(m)]]
  <2> HIDE DEF D, child
  <2> QED BY <1>9
<1>11. avl_find(t, n, above) = seek[t.root]
  BY DEF avl_find
<1> HIDE DEF seek, D
<1>12. \A m \in S : seek[m] = IF m \in {n, NULL} THEN m ELSE seek[child(m)]
  BY <1>10
<1>13. \A m \in M : Under(K, M, m) = {m} \cup Under(K, M, t.left[m])
                                         \cup Under(K, M, t.right[m])
  BY <1>3, Subtrees
<1>14. \A m \in M : m \in X /\ t.left[m] \in M \cup {NULL} /\ t.right[m] \in M \cup {NULL}
  BY <1>4 DEF Sided, Linked
<1>15. ~(\E m \in M : <<n, m>> \in R /\ <<m, n>> \in R)
  BY <1>14 DEF Ordered
<1> DEFINE Found(k) == k \in M /\ n \in K[k] /\ n \in M => seek[k] = n
           Missed(k) == k \in M \cup {NULL} /\ n \notin M => seek[k] = NULL
           G == {k \in S : Found(k) /\ Missed(k)}
<1>16. ASSUME NEW m \in S, \A k \in S : d[k] < d[m] => k \in G PROVE m \in G
  <2>1. Found(m)
    <3> SUFFICES ASSUME m \in M, n \in K[m], n \in M, m # n PROVE seek[m] = n
      BY <1>12
    <3>1. n \in Under(K, M, t.left[m]) \/ n \in Under(K, M, t.right[m])
      BY <1>13 DEF Under
    <3>2. n \in Under(K, M, t.left[m]) => <<n, m>> \in R
      BY <1>3 DEF Under, Widest
    <3>3. n \in Under(K, M, t.right[m]) => <<m, n>> \in R
      BY <1>3 DEF Under, Widest
    <3>4. n \in Under(K, M, child(m))
      BY <1>15, <3>1, <3>2, <3>3
    <3>5. child(m) \in M /\ n \in K[child(m)]
      BY <1>14, <3>4 DEF Under
    <3>6. seek[child(m)] = n
      BY <1>4, <1>6, <1>16, <3>5
    <3> QED BY <1>4, <1>12, <3>6
  <2>2. Missed(m)
    <3> SUFFICES ASSUME m \in M, n \notin M PROVE seek[m] = NULL
      BY <1>12
    <3>1. child(m) \in M \cup {NULL} /\ m # n /\ m # NULL
      BY <1>4, <1>14
    <3>2. seek[child(m)] = NULL
      BY <1>4, <1>6, <1>16, <3>1
    <3> QED BY <1>12, <3>1, <3>2
  <2> QED BY <2>1, <2>2
<1>17. S \subseteq G
  <2> HIDE DEF G, S
  <2>1. Inherited(S, d, G)
    BY <1>16 DEF Inherited
  <2> QED BY <1>6, <2>1, RankInduction
<1>18. /\ t.root \in M \cup {NULL} /\ t.root \in S /\ (t.root = NULL => M = {})
       /\ t.root # NULL => n \in K[t.root]
  BY <1>4 DEF Linked, Sided
<1>19. Found(t.root) /\ Missed(t.root)
  BY <1>17, <1>18
<1> QED BY <1>11, <1>18, <1>19

\* A node that is not in the tree gets a new count, that of a new node.
LEMMA RecountKeeps ==
  ASSUME NEW R, NEW X, NEW M, NEW t, Shape(t, M, R, X), ExactOff(t, M, {}),
         NEW n \in Node \ M
  PROVE  LET u == [t EXCEPT !.cnt[n] = 1]
         IN  /\ Shape(u, M, R, X)
             /\ ExactOff(u, M, {})
             /\ u.parent = t.parent /\ u.left = t.left /\ u.right = t.right
             /\ u.height = t.height
             /\ \A x \in Node \ {n} : u.cnt[x] = t.cnt[x]
<1> USE NullAssumption
<1> DEFINE u == [t EXCEPT !.cnt[n] = 1]
<1>1. /\ t \in Tree /\ M \in SUBSET Node
      /\ Linked(t.root, t.parent, t.left, t.right, M)
  BY DEF Shape, Shaped
<1>2. /\ u \in Tree /\ u.root = t.root /\ u.parent = t.parent
      /\ u.left = t.left /\ u.right = t.right /\ u.height = t.height
      /\ u.cnt = [t.cnt EXCEPT ![n] = 1]
  BY <1>1 DEF Tree
<1> HIDE DEF u
<1>3. Shape(u, M, R, X)
  BY <1>2, SamePointers
<1>4. \A x \in Node \ {n} : u.cnt[x] = t.cnt[x]
  BY <1>1, <1>2 DEF Tree
<1>5. ExactOff(u, M, {})
  <2> SUFFICES ASSUME NEW m \in M PROVE Exactly(u, m)
    BY DEF ExactOff
  <2>1. Exactly(t, m) /\ m \in Node \ {n}
    BY <1>1 DEF ExactOff
  <2>2. t.left[m] \in (Node \ {n}) \cup {NULL} /\ t.right[m] \in (Node \ {n}) \cup {NULL}
    BY <1>1 DEF Linked
  <2>3. /\ SizeOf(u.cnt, t.left[m]) = SizeOf(t.cnt, t.left[m])
        /\ SizeOf(u.cnt, t.right[m]) = SizeOf(t.cnt, t.right[m])
    BY <1>4, <2>2 DEF SizeOf
  <2> QED BY <1>2, <1>4, <2>1, <2>3 DEF Exactly, Exact
<1> QED BY <1>2, <1>3, <1>4, <1>5 DEF u

-----------------------------------------------------------------------------
(* A tree whose order changes *)

\* A search tree is one for every order that agrees on its members.
LEMMA Reorder ==
  ASSUME NEW t, NEW M, NEW R, NEW X, Shape(t, M, R, X),
         NEW Q, NEW Y, M \subseteq Y, \A x, y \in M : <<x, y>> \in R => <<x, y>> \in Q
  PROVE  \E K, rk : Shaped(t, M, Q, Y, K, rk) /\ Widest(t, K, Q, M)
<1>1. PICK J, rk : Shaped(t, M, R, X, J, rk)
  BY DEF Shape
<1>2. /\ t \in Tree /\ M \in SUBSET Node
      /\ Linked(t.root, t.parent, t.left, t.right, M)
      /\ Ranked(t.parent, rk)
      /\ Sided(t.root, t.left, t.right, J, R, X, M)
  BY <1>1 DEF Shaped
<1> DEFINE N == [x \in Node |-> J[x] \cap M]
<1>3. \A m \in M : m \in Node /\ m \in X /\ N[m] = J[m] \cap M
  BY <1>2 DEF Sided
<1>4. \A m \in M : /\ t.left[m] # NULL => t.left[m] \in M
                   /\ t.right[m] # NULL => t.right[m] \in M
  BY <1>2 DEF Linked
<1>5. t.root # NULL => N[t.root] = M
  <2> SUFFICES ASSUME t.root # NULL PROVE N[t.root] = M
    OBVIOUS
  <2>1. t.root \in M /\ J[t.root] = X
    BY <1>2 DEF Linked, Sided
  <2> QED BY <1>3, <2>1
<1>6. N \in [Node -> SUBSET M]
  OBVIOUS
<1> HIDE DEF N
<1>7. Sided(t.root, t.left, t.right, N, R, M, M)
  <2>1. \A m \in M : m \in N[m]
    BY <1>2, <1>3 DEF Sided
  <2>2. ASSUME NEW m \in M, t.left[m] # NULL, NEW x \in N[t.left[m]]
        PROVE  x \in N[m] /\ <<x, m>> \in R
    <3>1. t.left[m] \in M /\ x \in J[t.left[m]] /\ x \in M
      BY <1>3, <1>4, <2>2
    <3>2. x \in J[m] /\ <<x, m>> \in R
      BY <1>2, <2>2, <3>1 DEF Sided
    <3> QED BY <1>3, <3>1, <3>2
  <2>3. ASSUME NEW m \in M, t.right[m] # NULL, NEW x \in N[t.right[m]]
        PROVE  x \in N[m] /\ <<m, x>> \in R
    <3>1. t.right[m] \in M /\ x \in J[t.right[m]] /\ x \in M
      BY <1>3, <1>4, <2>3
    <3>2. x \in J[m] /\ <<m, x>> \in R
      BY <1>2, <2>3, <3>1 DEF Sided
    <3> QED BY <1>3, <3>1, <3>2
  <2> QED BY <1>5, <1>6, <2>1, <2>2, <2>3 DEF Sided
<1>8. Shaped(t, M, R, M, N, rk)
  BY <1>2, <1>7 DEF Shaped
<1>9. \E K : Shaped(t, M, Q, Y, K, rk) /\ Widest(t, K, Q, M)
  BY <1>8, Widen
<1> QED BY <1>9

\* lower has with every one of its members those before it.
Lower(R, M, lower) ==
  /\ lower \in SUBSET M
  /\ \A x \in M, y \in lower : <<x, y>> \in R => x \in lower

\* The order in which n comes directly behind lower.
Squeezed(R, M, lower, n) ==
  {q \in R : q[1] \in M /\ q[2] \in M} \cup (lower \X {n}) \cup ({n} \X (M \ lower))

LEMMA SqueezedOrder ==
  ASSUME NEW R, NEW M, Ordered(R, M), NEW lower, Lower(R, M, lower), NEW n, n \notin M
  PROVE  LET Q == Squeezed(R, M, lower, n)
         IN  /\ Ordered(Q, M \cup {n})
             /\ \A x, y \in M : <<x, y>> \in Q <=> <<x, y>> \in R
             /\ \A x \in M : <<x, n>> \in Q <=> x \in lower
             /\ \A x \in M : <<n, x>> \in Q <=> x \notin lower
<1> DEFINE Q == Squeezed(R, M, lower, n)
<1>1. lower \in SUBSET M /\ \A x \in M, y \in lower : <<x, y>> \in R => x \in lower
  BY DEF Lower
<1>2. \A x, y \in M : <<x, y>> \in Q <=> <<x, y>> \in R
  BY <1>1 DEF Squeezed
<1>3. \A x \in M : <<x, n>> \in Q <=> x \in lower
  BY <1>1 DEF Squeezed
<1>4. \A x \in M : <<n, x>> \in Q <=> x \notin lower
  BY <1>1 DEF Squeezed
<1>5. <<n, n>> \notin Q
  BY <1>1 DEF Squeezed
<1> HIDE DEF Q
<1>6. /\ \A x \in M : <<x, x>> \notin R
      /\ \A x, y, z \in M : <<x, y>> \in R /\ <<y, z>> \in R => <<x, z>> \in R
      /\ \A x, y \in M : x = y \/ <<x, y>> \in R \/ <<y, x>> \in R
  BY DEF Ordered
<1>7. \A x \in M \cup {n} : <<x, x>> \notin Q
  BY <1>2, <1>5, <1>6
<1>8. ASSUME NEW x \in M \cup {n}, NEW y \in M \cup {n}, NEW z \in M \cup {n},
             <<x, y>> \in Q, <<y, z>> \in Q
      PROVE  <<x, z>> \in Q
  <2>1. CASE x = n
    BY <1>1, <1>2, <1>3, <1>4, <1>5, <1>8, <2>1
  <2>2. CASE x # n /\ y = n
    BY <1>1, <1>2, <1>3, <1>4, <1>5, <1>6, <1>8, <2>2
  <2>3. CASE x # n /\ y # n
    BY <1>1, <1>2, <1>3, <1>6, <1>8, <2>3
  <2> QED BY <2>1, <2>2, <2>3
<1>9. \A x, y \in M \cup {n} : x = y \/ <<x, y>> \in Q \/ <<y, x>> \in Q
  BY <1>2, <1>3, <1>4, <1>6
<1>10. Ordered(Q, M \cup {n})
  BY <1>7, <1>8, <1>9 DEF Ordered
<1> QED BY <1>2, <1>3, <1>4, <1>10 DEF Q

\* Insertion of a node that is not in the tree, whatever above is: the tree is a search
\* tree for an order in which the new node is next to the one at which the descent ends.
LEMMA InsertAnywhere ==
  ASSUME NEW R, NEW M, Ordered(R, M), NEW t, Shape(t, M, R, M), Clean(t, M),
         ExactOff(t, M, {}), NEW n \in Node \ M, NEW above
  PROVE  LET u == avl_insert(t, n, above)
             N == M \cup {n}
         IN  /\ \E Q : Ordered(Q, N) /\ Shape(u, N, Q, N)
             /\ ExactOff(u, N, {})
             /\ \A x \in Node \ N : SameFields(t, u, x)
<1> USE NullAssumption
<1> DEFINE u == avl_insert(t, n, above)
           N == M \cup {n}
           p == Below(t, above)
           lower == IF p \in above THEN {m \in M : <<m, p>> \in R}
                                  ELSE {m \in M : <<m, p>> \in R} \cup {p}
           Q == Squeezed(R, M, lower, n)
<1>1. CASE t.root = NULL
  <2>1. M = {}
    BY <1>1 DEF Shape, Shaped, Linked
  <2> DEFINE E == {}
  <2>2. Ordered(E, {n}) /\ n \in {n}
    BY DEF Ordered
  <2>3. \E K, rk : Shaped(t, M, E, {n}, K, rk) /\ Widest(t, K, E, M)
    <3>1. M \subseteq {n} /\ \A x, y \in M : <<x, y>> \in R => <<x, y>> \in E
      BY <2>1
    <3> QED BY <3>1, Reorder
  <2>4. Shape(t, M, E, {n})
    BY <2>3 DEF Shape
  <2> HIDE DEF E
  <2>5. /\ Shape(u, {n}, E, {n})
        /\ ExactOff(u, {n}, {})
        /\ \A x \in Node \ {n} : SameFields(t, u, x)
    <3>1. n \in Node
      OBVIOUS
    <3> QED BY <1>1, <2>2, <2>4, <3>1, InsertFirst
  <2>6. N = {n}
    BY <2>1
  <2> HIDE DEF u, N
  <2> QED BY <2>2, <2>5, <2>6 DEF u, N
<1>2. CASE t.root # NULL
  <2>1. PICK J, rj : Shaped(t, M, R, M, J, rj) /\ Widest(t, J, R, M)
    BY Reorder
  <2>2. /\ p \in M
        /\ p \in above => t.left[p] = NULL
        /\ p \notin above => t.right[p] = NULL
    <3>1. t.root \in M /\ Shaped(t, M, R, M, J, rj) /\ Widest(t, J, R, M)
      BY <1>2, <2>1 DEF Shaped, Linked
    <3>2. /\ p \in M
          /\ Sorts(R, M, t.root, above) => t.root \in J[p]
          /\ p \in above => t.left[p] = NULL
          /\ p \notin above => t.right[p] = NULL
      BY <1>2, <3>1, BelowFinds
    <3> QED BY <3>2
  <2>3. Ends(t, above, p)
    BY DEF Ends
  <2> HIDE DEF p
  <2>4. /\ \A x \in M : <<x, x>> \notin R
        /\ \A x, y, z \in M : <<x, y>> \in R /\ <<y, z>> \in R => <<x, z>> \in R
        /\ \A x, y \in M : x = y \/ <<x, y>> \in R \/ <<y, x>> \in R
    BY DEF Ordered
  <2>5. Lower(R, M, lower)
    BY <2>2, <2>4 DEF Lower
  <2>6. \A x \in M \ {p} : x \in lower <=> <<x, p>> \in R
    OBVIOUS
  <2>7. p \in lower <=> p \notin above
    BY <2>2, <2>4
  <2> HIDE DEF lower
  <2>8. /\ Ordered(Q, M \cup {n})
        /\ \A x, y \in M : <<x, y>> \in Q <=> <<x, y>> \in R
        /\ \A x \in M : <<x, n>> \in Q <=> x \in lower
        /\ \A x \in M : <<n, x>> \in Q <=> x \notin lower
    <3>1. n \notin M
      OBVIOUS
    <3> QED BY <2>5, <3>1, SqueezedOrder
  <2> HIDE DEF Q
  <2>9. PICK K, rk : Shaped(t, M, Q, N, K, rk) /\ Widest(t, K, Q, M)
    <3>1. M \subseteq N /\ \A x, y \in M : <<x, y>> \in R => <<x, y>> \in Q
      BY <2>8
    <3> HIDE DEF N
    <3> QED BY <3>1, Reorder
  <2>10. Alike(Q, M, p, n)
    <3> SUFFICES ASSUME NEW m \in M
                 PROVE  /\ <<p, m>> \in Q => <<n, m>> \in Q
                        /\ <<m, p>> \in Q => <<m, n>> \in Q
      BY DEF Alike
    <3>1. m = p => <<p, m>> \notin Q /\ <<m, p>> \notin Q
      BY <2>4, <2>8
    <3>2. m # p => (<<p, m>> \in Q => <<n, m>> \in Q)
      BY <2>2, <2>4, <2>6, <2>8
    <3>3. m # p => (<<m, p>> \in Q => <<m, n>> \in Q)
      BY <2>2, <2>6, <2>8
    <3> QED BY <3>1, <3>2, <3>3
  <2>11. n \in K[p]
    <3>1. n \in N /\ p \in M
      BY <2>2
    <3>2. p \in K[p]
      BY <2>2, <2>9 DEF Shaped, Sided
    <3> HIDE DEF N
    <3>3. \A m \in M : p \in K[m] => n \in K[m]
      BY <2>9, <2>10, <3>1, SearchAlike
    <3> QED BY <3>1, <3>2, <3>3
  <2>12. /\ p \in above => t.left[p] = NULL /\ <<n, p>> \in Q
         /\ p \notin above => t.right[p] = NULL /\ <<p, n>> \in Q
    BY <2>2, <2>7, <2>8
  <2>13. Ordered(Q, N) /\ Shaped(t, M, Q, N, K, rk)
    BY <2>8, <2>9
  <2>14. /\ Shape(u, M \cup {n}, Q, N)
         /\ ExactOff(u, M \cup {n}, {})
         /\ \A x \in Node \ (M \cup {n}) : SameFields(t, u, x)
    <3> HIDE DEF N
    <3> QED BY <1>2, <2>2, <2>3, <2>11, <2>12, <2>13, InsertUnder
  <2> HIDE DEF u
  <2> QED BY <2>13, <2>14 DEF u
<1> QED BY <1>1, <1>2

-----------------------------------------------------------------------------
(* Walks and ranks *)

\* w gives for every node the nodes of its subtree, as they are met in a walk.
Walks(t, w) ==
  /\ w \in [Node \cup {NULL} -> Seq(Node)]
  /\ w[NULL] = << >>
  /\ \A m \in Node : w[m] = w[t.left[m]] \o <<m>> \o w[t.right[m]]

LEMMA WalkExists ==
  ASSUME NEW t, t \in Tree, NEW d, Falls(t, d)
  PROVE  \E w : Walks(t, w) /\ avl_inorder(t) = w[t.root]
<1> USE NullAssumption
<1> DEFINE S == Node \cup {NULL}
           V == Seq(Node)
           walk[m \in Node \cup {NULL}] ==
             IF m = NULL THEN << >> ELSE walk[t.left[m]] \o <<m>> \o walk[t.right[m]]
           D == [f \in [S -> V] |->
                  [m \in S |-> IF m = NULL THEN << >> ELSE f[t.left[m]] \o <<m>> \o f[t.right[m]]]]
<1>1. /\ Ranks(S, d)
      /\ \A m \in Node : /\ t.left[m] \in S /\ d[t.left[m]] < d[m]
                         /\ t.right[m] \in S /\ d[t.right[m]] < d[m]
  BY DEF Falls, Tree
<1>2. \A a, b \in V, m \in Node : a \o <<m>> \o b \in V
  OBVIOUS
<1>3. << >> \in V
  OBVIOUS
<1>4. Recursive(S, V, d, D)
  <2> HIDE DEF V
  <2>1. \A f \in [S -> V], m \in S :
          (IF m = NULL THEN << >> ELSE f[t.left[m]] \o <<m>> \o f[t.right[m]]) \in V
    <3> SUFFICES ASSUME NEW f \in [S -> V], NEW m \in S, m # NULL
                 PROVE  f[t.left[m]] \o <<m>> \o f[t.right[m]] \in V
      BY <1>3
    <3>1. f[t.left[m]] \in V /\ f[t.right[m]] \in V /\ m \in Node
      BY <1>1
    <3> QED BY <1>2, <3>1
  <2>2. \A g, h \in [S -> V], m \in S :
          (\A k \in S : d[k] < d[m] => g[k] = h[k]) => D[g][m] = D[h][m]
    <3> SUFFICES ASSUME NEW g \in [S -> V], NEW h \in [S -> V], NEW m \in S,
                        \A k \in S : d[k] < d[m] => g[k] = h[k]
                 PROVE  D[g][m] = D[h][m]
      OBVIOUS
    <3>1. m # NULL => g[t.left[m]] = h[t.left[m]] /\ g[t.right[m]] = h[t.right[m]]
      BY <1>1
    <3> QED BY <3>1
  <2>3. D \in [[S -> V] -> [S -> V]]
    BY <2>1
  <2>4. V # {}
    BY <1>3
  <2> HIDE DEF D, S
  <2> QED BY <2>2, <2>3, <2>4 DEF Recursive
<1>5. PICK f \in [S -> V] : f = D[f]
  <2> HIDE DEF D, S, V
  <2> QED BY <1>1, <1>4, Recursion
<1>6. f = [m \in Node \cup {NULL} |->
             IF m = NULL THEN << >> ELSE f[t.left[m]] \o <<m>> \o f[t.right[m]]]
  <2> HIDE DEF V
  <2> QED BY <1>5
<1>7. walk = [m \in Node \cup {NULL} |->
                IF m = NULL THEN << >> ELSE walk[t.left[m]] \o <<m>> \o walk[t.right[m]]]
  <2> HIDE DEF D, V
  <2> QED BY <1>6
<1>8. avl_inorder(t) = walk[t.root]
  BY DEF avl_inorder
<1> HIDE DEF walk, D
<1>9. walk \in [S -> V]
  <2> DEFINE G == {m \in S : walk[m] \in V}
  <2>1. ASSUME NEW m \in S, \A k \in S : d[k] < d[m] => k \in G PROVE m \in G
    <3>1. m # NULL => walk[t.left[m]] \in V /\ walk[t.right[m]] \in V
      BY <1>1, <2>1
    <3>2. walk[m] = IF m = NULL THEN << >> ELSE walk[t.left[m]] \o <<m>> \o walk[t.right[m]]
      BY <1>7
    <3> HIDE DEF V
    <3> QED BY <1>2, <1>3, <3>1, <3>2
  <2> HIDE DEF G
  <2>2. Inherited(S, d, G)
    BY <2>1 DEF Inherited
  <2>3. S \subseteq G
    <3> HIDE DEF S
    <3> QED BY <1>1, <2>2, RankInduction
  <2>4. \A m \in S : walk[m] \in V
    BY <2>3 DEF G
  <2> HIDE DEF V
  <2> QED BY <1>7, <2>4
<1>10. Walks(t, walk)
  BY <1>7, <1>9 DEF Walks
<1> QED BY <1>8, <1>10

\* A walk meets what is left of a node, the node, and what is right of it.
LEMMA Joined ==
  ASSUME NEW a \in Seq(Node), NEW m \in Node, NEW b \in Seq(Node)
  PROVE  LET s == a \o <<m>> \o b
         IN  /\ s \in Seq(Node)
             /\ Len(s) = Len(a) + 1 + Len(b)
             /\ \A i \in 1 .. Len(a) : s[i] = a[i]
             /\ s[Len(a) + 1] = m
             /\ \A i \in 1 .. Len(b) : s[Len(a) + 1 + i] = b[i]
             /\ \A i \in 1 .. Len(s) :
                  \/ i \in 1 .. Len(a)
                  \/ i = Len(a) + 1
                  \/ i - (Len(a) + 1) \in 1 .. Len(b)
             /\ Range(s) = Range(a) \cup {m} \cup Range(b)
<1> DEFINE s == a \o <<m>> \o b
<1>1. s \in Seq(Node) /\ Len(s) = Len(a) + 1 + Len(b)
  OBVIOUS
<1>2. \A i \in 1 .. Len(a) : s[i] = a[i]
  OBVIOUS
<1>3. s[Len(a) + 1] = m
  OBVIOUS
<1>4. \A i \in 1 .. Len(b) : s[Len(a) + 1 + i] = b[i]
  OBVIOUS
<1>5. \A i \in 1 .. Len(s) :
        \/ i \in 1 .. Len(a)
        \/ i = Len(a) + 1
        \/ i - (Len(a) + 1) \in 1 .. Len(b)
  BY <1>1
<1>6. Range(s) = Range(a) \cup {m} \cup Range(b)
  <2>1. DOMAIN s = 1 .. Len(s) /\ DOMAIN a = 1 .. Len(a) /\ DOMAIN b = 1 .. Len(b)
    BY <1>1
  <2>2. Len(a) \in Nat /\ Len(b) \in Nat
    OBVIOUS
  <2> HIDE DEF s
  <2>3. ASSUME NEW x \in Range(s) PROVE x \in Range(a) \cup {m} \cup Range(b)
    <3>1. PICK i \in 1 .. Len(s) : x = s[i]
      BY <2>1 DEF Range
    <3>2. CASE i \in 1 .. Len(a)
      BY <1>2, <2>1, <3>1, <3>2 DEF Range
    <3>3. CASE i = Len(a) + 1
      BY <1>3, <3>1, <3>3
    <3>4. CASE i - (Len(a) + 1) \in 1 .. Len(b)
      <4>1. s[Len(a) + 1 + (i - (Len(a) + 1))] = b[i - (Len(a) + 1)]
        BY <1>4, <3>4
      <4>2. Len(a) + 1 + (i - (Len(a) + 1)) = i
        BY <2>2, <3>1
      <4> QED BY <2>1, <3>1, <3>4, <4>1, <4>2 DEF Range
    <3> QED BY <1>5, <3>2, <3>3, <3>4
  <2>4. ASSUME NEW x \in Range(a) PROVE x \in Range(s)
    <3>1. PICK i \in 1 .. Len(a) : x = a[i]
      BY <2>1 DEF Range
    <3>2. i \in 1 .. Len(s) /\ s[i] = x
      BY <1>1, <1>2, <2>2, <3>1
    <3> QED BY <2>1, <3>2 DEF Range
  <2>5. m \in Range(s)
    <3>1. Len(a) + 1 \in 1 .. Len(s)
      BY <1>1, <2>2
    <3> QED BY <1>3, <2>1, <3>1 DEF Range
  <2>6. ASSUME NEW x \in Range(b) PROVE x \in Range(s)
    <3>1. PICK i \in 1 .. Len(b) : x = b[i]
      BY <2>1 DEF Range
    <3>2. Len(a) + 1 + i \in 1 .. Len(s) /\ s[Len(a) + 1 + i] = x
      BY <1>1, <1>4, <2>2, <3>1
    <3> QED BY <2>1, <3>2 DEF Range
  <2> QED BY <2>3, <2>4, <2>5, <2>6
<1> QED BY <1>1, <1>2, <1>3, <1>4, <1>5, <1>6

\* s lists the nodes of L, each before those behind it in the order.
Lists(s, L, R) ==
  /\ s \in Seq(Node)
  /\ Range(s) = L
  /\ \A i, j \in 1 .. Len(s) : i < j => <<s[i], s[j]>> \in R

LEMMA JoinLists ==
  ASSUME NEW R, NEW X, Ordered(R, X), NEW m \in Node, m \in X, NEW a, NEW A, Lists(a, A, R),
         NEW b, NEW B, Lists(b, B, R), A \subseteq X, B \subseteq X,
         \A x \in A : <<x, m>> \in R, \A x \in B : <<m, x>> \in R
  PROVE  Lists(a \o <<m>> \o b, {m} \cup A \cup B, R)
<1> DEFINE s == a \o <<m>> \o b
<1>1. /\ a \in Seq(Node) /\ Range(a) = A
      /\ b \in Seq(Node) /\ Range(b) = B
      /\ \A i, j \in 1 .. Len(a) : i < j => <<a[i], a[j]>> \in R
      /\ \A i, j \in 1 .. Len(b) : i < j => <<b[i], b[j]>> \in R
  BY DEF Lists
<1>2. /\ s \in Seq(Node)
      /\ Len(s) = Len(a) + 1 + Len(b)
      /\ \A i \in 1 .. Len(a) : s[i] = a[i]
      /\ s[Len(a) + 1] = m
      /\ \A i \in 1 .. Len(b) : s[Len(a) + 1 + i] = b[i]
      /\ \A i \in 1 .. Len(s) :
           \/ i \in 1 .. Len(a)
           \/ i = Len(a) + 1
           \/ i - (Len(a) + 1) \in 1 .. Len(b)
      /\ Range(s) = Range(a) \cup {m} \cup Range(b)
  BY <1>1, Joined
<1>3. /\ \A i \in 1 .. Len(a) : a[i] \in A
      /\ \A i \in 1 .. Len(b) : b[i] \in B
  BY <1>1 DEF Range
<1>4. \A x \in A, y \in B : <<x, y>> \in R
  BY DEF Ordered
<1>5. Len(a) \in Nat /\ Len(b) \in Nat /\ Len(s) \in Nat
  BY <1>1, <1>2
<1> HIDE DEF s
<1>6. \A i \in 1 .. Len(s) : i > Len(a) + 1 => s[i] = b[i - (Len(a) + 1)]
  <2> SUFFICES ASSUME NEW i \in 1 .. Len(s), i > Len(a) + 1 PROVE s[i] = b[i - (Len(a) + 1)]
    OBVIOUS
  <2>1. i - (Len(a) + 1) \in 1 .. Len(b) /\ Len(a) + 1 + (i - (Len(a) + 1)) = i
    BY <1>2, <1>5
  <2>2. s[Len(a) + 1 + (i - (Len(a) + 1))] = b[i - (Len(a) + 1)]
    BY <1>2, <2>1
  <2> QED BY <2>1, <2>2
<1>7. ASSUME NEW i \in 1 .. Len(s), NEW j \in 1 .. Len(s), i < j PROVE <<s[i], s[j]>> \in R
  <2>1. CASE i \in 1 .. Len(a) /\ j \in 1 .. Len(a)
    BY <1>1, <1>2, <1>7, <2>1
  <2>2. CASE i \in 1 .. Len(a) /\ j = Len(a) + 1
    BY <1>2, <1>3, <2>2
  <2>3. CASE i \in 1 .. Len(a) /\ j > Len(a) + 1
    <3>1. j - (Len(a) + 1) \in 1 .. Len(b)
      BY <1>2, <1>5, <2>3
    <3>2. s[i] \in A /\ s[j] \in B
      BY <1>2, <1>3, <1>6, <2>3, <3>1
    <3> QED BY <1>4, <3>2
  <2>4. CASE i = Len(a) + 1 /\ j > Len(a) + 1
    <3>1. j - (Len(a) + 1) \in 1 .. Len(b)
      BY <1>2, <1>5, <2>4
    <3>2. s[i] = m /\ s[j] \in B
      BY <1>2, <1>3, <1>6, <2>4, <3>1
    <3> QED BY <3>2
  <2>5. CASE i > Len(a) + 1 /\ j > Len(a) + 1
    <3> DEFINE k == i - (Len(a) + 1)
               l == j - (Len(a) + 1)
    <3>1. k \in 1 .. Len(b) /\ l \in 1 .. Len(b) /\ k < l
      BY <1>2, <1>5, <1>7, <2>5
    <3>2. s[i] = b[k] /\ s[j] = b[l]
      BY <1>6, <2>5
    <3> QED BY <1>1, <3>1, <3>2
  <2> QED BY <1>5, <1>7, <2>1, <2>2, <2>3, <2>4, <2>5
<1>8. Range(s) = {m} \cup A \cup B
  BY <1>1, <1>2
<1>9. Lists(s, {m} \cup A \cup B, R)
  BY <1>2, <1>7, <1>8 DEF Lists
<1> QED BY <1>9 DEF s

\* A walk of a search tree meets its members in their order, each once, and as many as
\* the root of every subtree counts.
LEMMA WalkLists ==
  ASSUME NEW R, NEW X, Ordered(R, X), NEW M, NEW t, Shape(t, M, R, X), Clean(t, M),
         ExactOff(t, M, {}), NEW w, Walks(t, w)
  PROVE  /\ Lists(w[t.root], M, R)
         /\ \A m \in M \cup {NULL} : Len(w[m]) = SizeOf(t.cnt, m)
<1> USE NullAssumption
<1> DEFINE S == Node \cup {NULL}
<1>1. PICK J, rk : Shaped(t, M, R, X, J, rk)
  BY DEF Shape
<1>2. \E K : Shaped(t, M, R, X, K, rk) /\ Widest(t, K, R, M)
  <2>1. X \subseteq X /\ \A x, y \in X : <<x, y>> \in R => <<x, y>> \in R
    OBVIOUS
  <2> QED BY <1>1, <2>1, Widen
<1>3. PICK K : Shaped(t, M, R, X, K, rk) /\ Widest(t, K, R, M)
  BY <1>2
<1>4. /\ t \in Tree /\ M \in SUBSET Node
      /\ Linked(t.root, t.parent, t.left, t.right, M)
      /\ Sided(t.root, t.left, t.right, K, R, X, M)
  BY <1>3 DEF Shaped
<1>5. PICK d : Falls(t, d)
  BY DownRank
<1>6. /\ Ranks(S, d)
      /\ \A m \in Node : d[t.left[m]] < d[m] /\ d[t.right[m]] < d[m]
  BY <1>5 DEF Falls
<1>7. \A m \in M : Under(K, M, m) = {m} \cup Under(K, M, t.left[m])
                                        \cup Under(K, M, t.right[m])
  BY <1>3, Subtrees
<1>8. \A m \in M : /\ m \in Node /\ m \in X /\ m # NULL
                   /\ t.left[m] \in M \cup {NULL} /\ t.right[m] \in M \cup {NULL}
  BY <1>4 DEF Sided, Linked
<1>9. /\ w \in [S -> Seq(Node)] /\ w[NULL] = << >>
      /\ \A m \in Node : w[m] = w[t.left[m]] \o <<m>> \o w[t.right[m]]
  BY DEF Walks
<1> DEFINE G == {m \in S : m \in M \cup {NULL} =>
                   /\ Lists(w[m], Under(K, M, m), R)
                   /\ Len(w[m]) = SizeOf(t.cnt, m)}
<1>10. ASSUME NEW m \in S, \A k \in S : d[k] < d[m] => k \in G PROVE m \in G
  <2>1. CASE m = NULL
    <3>1. << >> \in Seq(Node) /\ Range(<< >>) = {} /\ Len(<< >>) = 0
      BY DEF Range
    <3>2. Lists(w[m], Under(K, M, m), R) /\ Len(w[m]) = 0
      BY <1>9, <2>1, <3>1 DEF Lists, Under
    <3> QED BY <2>1, <3>2 DEF SizeOf
  <2>2. CASE m \in M
    <3> DEFINE l == t.left[m]
               r == t.right[m]
    <3>1. l \in M \cup {NULL} /\ r \in M \cup {NULL} /\ d[l] < d[m] /\ d[r] < d[m]
      BY <1>6, <1>8, <2>2
    <3>2. /\ Lists(w[l], Under(K, M, l), R) /\ Len(w[l]) = SizeOf(t.cnt, l)
          /\ Lists(w[r], Under(K, M, r), R) /\ Len(w[r]) = SizeOf(t.cnt, r)
      BY <1>4, <1>10, <3>1
    <3>3. /\ \A x \in Under(K, M, l) : x \in X /\ <<x, m>> \in R
          /\ \A x \in Under(K, M, r) : x \in X /\ <<m, x>> \in R
      BY <1>3, <1>8, <2>2 DEF Under, Widest
    <3>4. w[m] = w[l] \o <<m>> \o w[r]
      BY <1>8, <1>9, <2>2
    <3>5. m \in Node /\ m \in X
      BY <1>8, <2>2
    <3>6. t.cnt[m] = 1 + SizeOf(t.cnt, l) + SizeOf(t.cnt, r) /\ m # NULL
      BY <1>8, <2>2 DEF ExactOff, Exactly, Exact
    <3>7. w[l] \in Seq(Node) /\ w[r] \in Seq(Node)
      BY <3>2 DEF Lists
    <3>8. Under(K, M, m) = {m} \cup Under(K, M, l) \cup Under(K, M, r)
      BY <1>7, <2>2
    <3> HIDE DEF l, r
    <3>9. Lists(w[l] \o <<m>> \o w[r], {m} \cup Under(K, M, l) \cup Under(K, M, r), R)
      <4> HIDE DEF G
      <4>1. Under(K, M, l) \subseteq X /\ Under(K, M, r) \subseteq X
        BY <3>3
      <4> QED BY <3>2, <3>3, <3>5, <4>1, JoinLists
    <3>10. Len(w[m]) = Len(w[l]) + 1 + Len(w[r])
      BY <3>4, <3>5, <3>7
    <3>11. Len(w[l]) \in Nat /\ Len(w[r]) \in Nat
      BY <3>7
    <3>12. Len(w[m]) = SizeOf(t.cnt, m)
      BY <3>2, <3>6, <3>10, <3>11 DEF SizeOf
    <3> QED BY <3>4, <3>8, <3>9, <3>12
  <2> QED BY <2>1, <2>2
<1>11. S \subseteq G
  <2> HIDE DEF G, S
  <2>1. Inherited(S, d, G)
    BY <1>10 DEF Inherited
  <2> QED BY <1>6, <2>1, RankInduction
<1>12. t.root \in M \cup {NULL} /\ M \cup {NULL} \subseteq S
  BY <1>4 DEF Linked
<1>13. Under(K, M, t.root) = M
  BY <1>4 DEF Linked, Sided, Under
<1> QED BY <1>11, <1>12, <1>13

\* u stands in s behind b other nodes.
Placed(s, u, b) ==
  /\ b \in Nat
  /\ b + Len(u) <= Len(s)
  /\ \A i \in 1 .. Len(u) : s[b + i] = u[i]

LEMMA PlacedJoined ==
  ASSUME NEW s, NEW a \in Seq(Node), NEW m \in Node, NEW b \in Seq(Node), NEW k,
         s \in Seq(Node), Placed(s, a \o <<m>> \o b, k)
  PROVE  /\ Placed(s, a, k)
         /\ k + Len(a) + 1 <= Len(s) /\ s[k + Len(a) + 1] = m
         /\ Placed(s, b, k + Len(a) + 1)
<1> DEFINE u == a \o <<m>> \o b
<1>1. /\ Len(u) = Len(a) + 1 + Len(b)
      /\ \A i \in 1 .. Len(a) : u[i] = a[i]
      /\ u[Len(a) + 1] = m
      /\ \A i \in 1 .. Len(b) : u[Len(a) + 1 + i] = b[i]
  BY Joined
<1>2. k \in Nat /\ k + Len(u) <= Len(s) /\ \A i \in 1 .. Len(u) : s[k + i] = u[i]
  BY DEF Placed
<1> HIDE DEF u
<1>3. Len(a) \in Nat /\ Len(b) \in Nat /\ Len(s) \in Nat
  OBVIOUS
<1>4. k + Len(a) + 1 + Len(b) <= Len(s) /\ k + Len(a) <= Len(s) /\ k + Len(a) + 1 <= Len(s)
      /\ k + Len(a) + 1 \in Nat
  BY <1>1, <1>2, <1>3
<1>5. \A i \in 1 .. Len(a) : s[k + i] = a[i]
  BY <1>1, <1>2, <1>3
<1>6. s[k + Len(a) + 1] = m
  <2>1. Len(a) + 1 \in 1 .. Len(u) /\ k + (Len(a) + 1) = k + Len(a) + 1
    BY <1>1, <1>2, <1>3
  <2> QED BY <1>1, <1>2, <2>1
<1>7. \A i \in 1 .. Len(b) : s[k + Len(a) + 1 + i] = b[i]
  <2> SUFFICES ASSUME NEW i \in 1 .. Len(b) PROVE s[k + Len(a) + 1 + i] = b[i]
    OBVIOUS
  <2>1. Len(a) + 1 + i \in 1 .. Len(u) /\ k + (Len(a) + 1 + i) = k + Len(a) + 1 + i
    BY <1>1, <1>2, <1>3
  <2> QED BY <1>1, <1>2, <2>1
<1> QED BY <1>2, <1>4, <1>5, <1>6, <1>7 DEF Placed

\* The positions in s of the subtree of m, when base[m] nodes of s stand before it: where
\* m itself stands, and where the last node does.
Position(t, base, m) == base[m] + avl_cnt(t, t.left[m]) + 1
LastOf(t, base, m) == Position(t, base, m) + avl_cnt(t, t.right[m])

\* Every subtree takes up consecutive positions of s: those of its left subtree, its root,
\* those of its right subtree.
Spans(t, M, s, base) ==
  \A m \in M :
    /\ base[m] \in Nat /\ avl_cnt(t, t.left[m]) \in Nat /\ avl_cnt(t, t.right[m]) \in Nat
    /\ LastOf(t, base, m) <= Len(s)
    /\ s[Position(t, base, m)] = m
    /\ t.left[m] # NULL =>
         /\ t.left[m] \in M /\ base[t.left[m]] = base[m]
         /\ LastOf(t, base, t.left[m]) = Position(t, base, m) - 1
    /\ t.right[m] # NULL =>
         /\ t.right[m] \in M /\ base[t.right[m]] = Position(t, base, m)
         /\ LastOf(t, base, t.right[m]) = LastOf(t, base, m)
    /\ t.parent[m] = NULL => base[m] = 0 /\ LastOf(t, base, m) = Len(s)
    /\ t.parent[m] # NULL =>
         t.parent[m] \in M /\ (t.left[t.parent[m]] = m \/ t.right[t.parent[m]] = m)

\* A walk of the tree is made of such spans, and a climb from a node adds up what stands
\* before it.
LEMMA SpansExist ==
  ASSUME NEW R, NEW X, Ordered(R, X), NEW M, NEW t, Shape(t, M, R, X), Clean(t, M),
         ExactOff(t, M, {}), NEW w, Walks(t, w)
  PROVE  \E base : /\ Spans(t, M, w[t.root], base)
                   /\ \A n \in M : avl_rank(t, n) = Position(t, base, n)
<1> USE NullAssumption
<1> DEFINE Counted(m) == IF m = t.right[t.parent[m]] THEN avl_cnt(t, t.left[t.parent[m]]) + 1 ELSE 0
           before[m \in Node] ==
             LET p == t.parent[m]
             IN  IF p = NULL THEN 0
                 ELSE before[p] + (IF m = t.right[p] THEN avl_cnt(t, t.left[p]) + 1 ELSE 0)
           D == [f \in [Node -> Nat] |->
                  [m \in Node |-> IF t.parent[m] = NULL THEN 0
                                  ELSE f[t.parent[m]] + Counted(m)]]
           s == w[t.root]
<1>1. PICK J, rk : Shaped(t, M, R, X, J, rk)
  BY DEF Shape
<1>2. /\ t \in Tree /\ M \in SUBSET Node
      /\ Linked(t.root, t.parent, t.left, t.right, M)
      /\ Ranked(t.parent, rk)
  BY <1>1 DEF Shaped
<1>3. Ranks(Node, rk)
  BY <1>2 DEF Ranked, Ranks
<1>4. \A m \in Node : t.parent[m] # NULL => t.parent[m] \in Node /\ rk[t.parent[m]] < rk[m]
  BY <1>2 DEF Ranked, Tree
<1>5. \A m \in Node : t.parent[m] # NULL => Counted(m) \in Nat
  <2> SUFFICES ASSUME NEW m \in Node, t.parent[m] # NULL PROVE Counted(m) \in Nat
    OBVIOUS
  <2>1. t.left[t.parent[m]] \in Node \cup {NULL}
    BY <1>2, <1>4 DEF Tree
  <2>2. avl_cnt(t, t.left[t.parent[m]]) \in Nat
    BY <1>2, <2>1 DEF avl_cnt, Tree
  <2> QED BY <2>2
<1>6. Recursive(Node, Nat, rk, D)
  <2> HIDE DEF Counted
  <2>1. \A f \in [Node -> Nat], m \in Node :
          (IF t.parent[m] = NULL THEN 0 ELSE f[t.parent[m]] + Counted(m)) \in Nat
    BY <1>4, <1>5
  <2>2. \A g, h \in [Node -> Nat], m \in Node :
          (\A k \in Node : rk[k] < rk[m] => g[k] = h[k]) => D[g][m] = D[h][m]
    BY <1>4
  <2>3. D \in [[Node -> Nat] -> [Node -> Nat]]
    BY <2>1
  <2> HIDE DEF D
  <2> QED BY <2>2, <2>3 DEF Recursive
<1>7. PICK f \in [Node -> Nat] : f = D[f]
  <2> HIDE DEF D
  <2> QED BY <1>3, <1>6, Recursion
<1>8. f = [m \in Node |->
             LET p == t.parent[m]
             IN  IF p = NULL THEN 0
                 ELSE f[p] + (IF m = t.right[p] THEN avl_cnt(t, t.left[p]) + 1 ELSE 0)]
  BY <1>7
<1>9. before = [m \in Node |->
             LET p == t.parent[m]
             IN  IF p = NULL THEN 0
                 ELSE before[p] + (IF m = t.right[p] THEN avl_cnt(t, t.left[p]) + 1 ELSE 0)]
  <2> HIDE DEF D, Counted
  <2> QED BY <1>8
<1>10. \A n \in Node : avl_rank(t, n) = avl_cnt(t, t.left[n]) + 1 + before[n]
  BY DEF avl_rank
<1> HIDE DEF before, D
<1>11. \A m \in Node : before[m] = IF t.parent[m] = NULL THEN 0
                                   ELSE before[t.parent[m]] + Counted(m)
  BY <1>9
<1>12. /\ \A m \in M \cup {NULL} : Len(w[m]) = SizeOf(t.cnt, m)
       /\ s \in Seq(Node)
  BY WalkLists DEF Lists
<1>13. /\ w \in [Node \cup {NULL} -> Seq(Node)]
       /\ \A m \in Node : w[m] = w[t.left[m]] \o <<m>> \o w[t.right[m]]
  BY DEF Walks
<1>14. \A m \in M : /\ m \in Node /\ m # NULL
                    /\ t.left[m] \in M \cup {NULL} /\ t.right[m] \in M \cup {NULL}
                    /\ avl_cnt(t, t.left[m]) = Len(w[t.left[m]])
                    /\ avl_cnt(t, t.right[m]) = Len(w[t.right[m]])
  BY <1>2, <1>12 DEF Linked, SizeOf, avl_cnt
<1> HIDE DEF s
<1>15. ASSUME NEW m \in M, NEW k, Placed(s, w[m], k)
       PROVE  /\ Placed(s, w[t.left[m]], k)
              /\ k + Len(w[t.left[m]]) + 1 <= Len(s) /\ s[k + Len(w[t.left[m]]) + 1] = m
              /\ Placed(s, w[t.right[m]], k + Len(w[t.left[m]]) + 1)
  <2>1. /\ m \in Node /\ w[t.left[m]] \in Seq(Node) /\ w[t.right[m]] \in Seq(Node)
        /\ w[m] = w[t.left[m]] \o <<m>> \o w[t.right[m]]
    BY <1>2, <1>13, <1>14
  <2> QED BY <1>12, <1>15, <2>1, PlacedJoined
<1> DEFINE G == {m \in Node : m \in M => Placed(s, w[m], before[m])}
<1>16. ASSUME NEW m \in Node, \A k \in Node : rk[k] < rk[m] => k \in G PROVE m \in G
  <2> SUFFICES ASSUME m \in M PROVE Placed(s, w[m], before[m])
    OBVIOUS
  <2>1. CASE m = t.root
    <3>1. before[m] = 0
      BY <1>2, <1>11, <2>1 DEF Linked
    <3>2. w[m] = s /\ Len(s) \in Nat
      BY <1>12, <2>1 DEF s
    <3> QED BY <3>1, <3>2 DEF Placed
  <2>2. CASE m # t.root
    <3> DEFINE p == t.parent[m]
    <3>1. p \in M /\ (t.left[p] = m \/ t.right[p] = m) /\ p # NULL /\ p \in Node
      BY <1>2, <1>14, <2>2 DEF Linked
    <3>2. Placed(s, w[p], before[p])
      BY <1>4, <1>16, <3>1
    <3>3. before[m] = before[p] + Counted(m)
      BY <1>11, <3>1
    <3>4. t.left[p] = t.right[p] => t.left[p] = NULL
      BY <1>2, <3>1 DEF Linked
    <3>5. before[p] \in Nat /\ Len(w[t.left[p]]) \in Nat
      BY <1>13, <1>14, <3>1, <3>2, SMTT(30) DEF Placed
    <3>6. CASE t.left[p] = m
      <4>1. Counted(m) = 0
        BY <1>14, <3>4, <3>6
      <4>2. before[m] = before[p]
        BY <3>3, <3>5, <4>1
      <4> QED BY <1>15, <3>1, <3>2, <3>6, <4>2
    <3>7. CASE t.right[p] = m
      <4>1. Counted(m) = Len(w[t.left[p]]) + 1
        BY <1>14, <3>1, <3>7
      <4>2. before[m] = before[p] + Len(w[t.left[p]]) + 1
        <5>1. before[m] = before[p] + (Len(w[t.left[p]]) + 1)
          BY <3>3, <4>1
        <5>2. \A a, b \in Nat : a + (b + 1) = a + b + 1
          OBVIOUS
        <5> QED BY <3>5, <5>1, <5>2
      <4>3. Placed(s, w[t.right[p]], before[p] + Len(w[t.left[p]]) + 1)
        BY <1>15, <3>1, <3>2
      <4> HIDE DEF p
      <4> QED BY <3>7, <4>2, <4>3
    <3> QED BY <3>1, <3>6, <3>7
  <2> QED BY <2>1, <2>2
<1>17. Node \subseteq G
  <2> HIDE DEF G
  <2>1. Inherited(Node, rk, G)
    BY <1>16 DEF Inherited
  <2> QED BY <1>3, <2>1, RankInduction
<1>18. ASSUME NEW m \in M
       PROVE  /\ Placed(s, w[m], before[m]) /\ Placed(s, w[t.left[m]], before[m])
              /\ before[m] \in Nat /\ Len(w[t.left[m]]) \in Nat /\ Len(w[t.right[m]]) \in Nat
              /\ Position(t, before, m) = before[m] + Len(w[t.left[m]]) + 1
              /\ LastOf(t, before, m) = before[m] + Len(w[m])
              /\ LastOf(t, before, m) <= Len(s) /\ s[Position(t, before, m)] = m
              /\ avl_rank(t, m) = Position(t, before, m)
  <2>1. m \in Node /\ Placed(s, w[m], before[m])
    BY <1>14, <1>17
  <2>2. /\ w[t.left[m]] \in Seq(Node) /\ w[t.right[m]] \in Seq(Node)
        /\ w[m] = w[t.left[m]] \o <<m>> \o w[t.right[m]]
    BY <1>2, <1>13, <1>14
  <2>3. /\ before[m] \in Nat /\ Len(w[t.left[m]]) \in Nat /\ Len(w[t.right[m]]) \in Nat
        /\ before[m] + Len(w[m]) <= Len(s)
    <3>1. before[m] \in Nat /\ before[m] + Len(w[m]) <= Len(s)
      BY <2>1 DEF Placed
    <3>2. Len(w[t.left[m]]) \in Nat /\ Len(w[t.right[m]]) \in Nat
      BY <2>2
    <3> QED BY <3>1, <3>2
  <2>4. Len(w[m]) = Len(w[t.left[m]]) + 1 + Len(w[t.right[m]])
    BY <2>1, <2>2
  <2>5. Position(t, before, m) = before[m] + Len(w[t.left[m]]) + 1
    BY <1>14 DEF Position
  <2>6. LastOf(t, before, m) = before[m] + Len(w[m])
    <3> DEFINE a == Len(w[t.left[m]])
               b == Len(w[t.right[m]])
    <3>1. LastOf(t, before, m) = before[m] + a + 1 + b
      BY <1>14, <2>5 DEF LastOf
    <3>2. a \in Nat /\ b \in Nat /\ before[m] \in Nat /\ Len(w[m]) = a + 1 + b
      BY <2>3, <2>4
    <3> HIDE DEF a, b
    <3> QED BY <3>1, <3>2
  <2>7. avl_rank(t, m) = Position(t, before, m)
    <3> DEFINE a == Len(w[t.left[m]])
               q == before[m]
    <3>1. avl_rank(t, m) = a + 1 + q
      BY <1>10, <1>14, <2>1
    <3>2. Position(t, before, m) = q + a + 1 /\ a \in Nat /\ q \in Nat
      BY <2>3, <2>5
    <3> HIDE DEF a, q
    <3> QED BY <3>1, <3>2
  <2>8. Placed(s, w[t.left[m]], before[m]) /\ s[before[m] + Len(w[t.left[m]]) + 1] = m
    BY <1>15, <2>1
  <2> QED BY <2>1, <2>3, <2>5, <2>6, <2>7, <2>8
<1>19. ASSUME NEW m \in M, t.left[m] # NULL
       PROVE  /\ t.left[m] \in M /\ before[t.left[m]] = before[m]
              /\ LastOf(t, before, t.left[m]) = Position(t, before, m) - 1
  <2> DEFINE c == t.left[m]
  <2>1. c \in M /\ c # NULL /\ t.parent[c] = m /\ m \in Node /\ m # NULL /\ c \in Node
    BY <1>2, <1>14, <1>19 DEF Linked
  <2>2. c # t.right[m]
    BY <1>2, <1>19 DEF Linked
  <2>3. Counted(c) = 0 /\ before[c] = before[m] + Counted(c)
    BY <1>11, <2>1, <2>2
  <2>4. before[m] \in Nat /\ before[c] \in Nat /\ Len(w[c]) \in Nat
        /\ Position(t, before, m) = before[m] + Len(w[c]) + 1
        /\ LastOf(t, before, c) = before[c] + Len(w[c])
    BY <1>18, <2>1
  <2> HIDE DEF c, Counted
  <2>5. before[c] = before[m]
    BY <2>3, <2>4
  <2>6. LastOf(t, before, c) = Position(t, before, m) - 1
    BY <2>4, <2>5
  <2> QED BY <2>1, <2>5, <2>6 DEF c
<1>20. ASSUME NEW m \in M, t.right[m] # NULL
       PROVE  /\ t.right[m] \in M /\ before[t.right[m]] = Position(t, before, m)
              /\ LastOf(t, before, t.right[m]) = LastOf(t, before, m)
  <2> DEFINE c == t.right[m]
             l == Len(w[t.left[m]])
  <2>1. c \in M /\ c # NULL /\ t.parent[c] = m /\ m \in Node /\ m # NULL /\ c \in Node
    BY <1>2, <1>14, <1>20 DEF Linked
  <2>2. avl_cnt(t, t.left[m]) = l /\ avl_cnt(t, c) = Len(w[c])
    BY <1>14
  <2>3. Counted(c) = l + 1 /\ before[c] = before[m] + Counted(c)
    BY <1>11, <2>1, <2>2
  <2>4. before[m] \in Nat /\ l \in Nat /\ Len(w[c]) \in Nat
        /\ Position(t, before, m) = before[m] + l + 1
        /\ LastOf(t, before, c) = before[c] + Len(w[c])
    BY <1>18, <2>1
  <2>5. LastOf(t, before, m) = Position(t, before, m) + Len(w[c])
    BY <2>2 DEF LastOf
  <2> HIDE DEF c, l, Counted
  <2>6. before[c] = Position(t, before, m)
    BY <2>3, <2>4
  <2>7. LastOf(t, before, c) = LastOf(t, before, m)
    BY <2>4, <2>5, <2>6
  <2> QED BY <2>1, <2>6, <2>7 DEF c
<1>21. ASSUME NEW m \in M, t.parent[m] = NULL
       PROVE  before[m] = 0 /\ LastOf(t, before, m) = Len(s)
  <2>1. m = t.root
    BY <1>2, <1>14, <1>21 DEF Linked
  <2>2. before[m] = 0
    BY <1>11, <1>14, <1>21
  <2>3. LastOf(t, before, m) = 0 + Len(s) /\ Len(s) \in Nat
    <3>1. LastOf(t, before, m) = before[m] + Len(w[m])
      BY <1>18
    <3>2. w[m] = s /\ Len(s) \in Nat
      BY <1>12, <2>1 DEF s
    <3> QED BY <2>2, <3>1, <3>2
  <2> QED BY <2>2, <2>3
<1>22. ASSUME NEW m \in M, t.parent[m] # NULL
       PROVE  t.parent[m] \in M /\ (t.left[t.parent[m]] = m \/ t.right[t.parent[m]] = m)
  BY <1>2, <1>22 DEF Linked
<1>23. ASSUME NEW m \in M
       PROVE  before[m] \in Nat /\ avl_cnt(t, t.left[m]) \in Nat /\ avl_cnt(t, t.right[m]) \in Nat
  BY <1>14, <1>18
<1>24. Spans(t, M, s, before)
  <2> HIDE DEF Counted, G
  <2> QED BY <1>18, <1>19, <1>20, <1>21, <1>22, <1>23 DEF Spans
<1>25. \A n \in M : avl_rank(t, n) = Position(t, before, n)
  BY <1>18
<1> QED BY <1>24, <1>25 DEF s

\* The rank of a node, found by climbing from it, is its position in a walk of the tree.
LEMMA RankIsPosition ==
  ASSUME NEW R, NEW X, Ordered(R, X), NEW M, NEW t, Shape(t, M, R, X), Clean(t, M),
         ExactOff(t, M, {}), NEW w, Walks(t, w), NEW n \in M
  PROVE  /\ avl_rank(t, n) \in 1 .. Len(w[t.root])
         /\ w[t.root][avl_rank(t, n)] = n
<1> DEFINE s == w[t.root]
<1>1. PICK base : /\ Spans(t, M, s, base)
                  /\ \A m \in M : avl_rank(t, m) = Position(t, base, m)
  BY SpansExist
<1>2. Len(s) \in Nat
  BY WalkLists DEF Lists
<1> HIDE DEF s
<1>3. /\ base[n] \in Nat /\ avl_cnt(t, t.left[n]) \in Nat /\ avl_cnt(t, t.right[n]) \in Nat
      /\ LastOf(t, base, n) <= Len(s) /\ s[Position(t, base, n)] = n
  BY <1>1 DEF Spans
<1>4. Position(t, base, n) \in 1 .. Len(s)
  BY <1>2, <1>3 DEF Position, LastOf
<1>5. avl_rank(t, n) \in 1 .. Len(s) /\ s[avl_rank(t, n)] = n
  BY <1>1, <1>3, <1>4
<1> QED BY <1>5 DEF s

\* The part of s from position lo to position hi, as far as there are such positions.
Cut(s, lo, hi) == SubSeq(s, Larger(lo, 1), IF hi < Len(s) THEN hi ELSE Len(s))

LEMMA SameSeq ==
  ASSUME NEW a \in Seq(Node), NEW b \in Seq(Node), Len(a) = Len(b),
         \A i \in 1 .. Len(a) : a[i] = b[i]
  PROVE  a = b
OBVIOUS

LEMMA ConcatEmpty ==
  ASSUME NEW a \in Seq(Node)
  PROVE  a \o << >> = a /\ << >> \o a = a /\ << >> \o << >> = << >>
OBVIOUS

LEMMA SubSeqFacts ==
  ASSUME NEW s \in Seq(Node), NEW f \in Int, NEW l \in Int, 1 <= f, l <= Len(s)
  PROVE  /\ SubSeq(s, f, l) \in Seq(Node)
         /\ Len(SubSeq(s, f, l)) = IF f <= l THEN l - f + 1 ELSE 0
         /\ \A i \in Nat : 1 <= i /\ i <= l - f + 1 => SubSeq(s, f, l)[i] = s[f + i - 1]
         /\ l < f => SubSeq(s, f, l) = << >>
OBVIOUS

LEMMA CutFacts ==
  ASSUME NEW s \in Seq(Node), NEW lo \in Int, NEW hi \in Int
  PROVE  LET first == Larger(lo, 1)
             last == IF hi < Len(s) THEN hi ELSE Len(s)
             c == Cut(s, lo, hi)
         IN  /\ c \in Seq(Node)
             /\ Len(c) = IF first <= last THEN last - first + 1 ELSE 0
             /\ \A i \in Nat : 1 <= i /\ i <= last - first + 1 => c[i] = s[first + i - 1]
             /\ last < first => c = << >>
<1> DEFINE first == Larger(lo, 1)
           last == IF hi < Len(s) THEN hi ELSE Len(s)
<1>1. first \in Int /\ last \in Int /\ 1 <= first /\ last <= Len(s)
  BY DEF Larger
<1>2. Cut(s, lo, hi) = SubSeq(s, first, last)
  BY DEF Cut
<1> HIDE DEF first, last
<1>3. /\ SubSeq(s, first, last) \in Seq(Node)
      /\ Len(SubSeq(s, first, last)) = IF first <= last THEN last - first + 1 ELSE 0
      /\ \A i \in Nat : 1 <= i /\ i <= last - first + 1
                           => SubSeq(s, first, last)[i] = s[first + i - 1]
      /\ last < first => SubSeq(s, first, last) = << >>
  BY <1>1, SubSeqFacts
<1>4. LET c == Cut(s, lo, hi)
      IN  /\ c \in Seq(Node)
          /\ Len(c) = IF first <= last THEN last - first + 1 ELSE 0
          /\ \A i \in Nat : 1 <= i /\ i <= last - first + 1 => c[i] = s[first + i - 1]
          /\ last < first => c = << >>
  BY <1>2, <1>3
<1> QED BY <1>4 DEF first, last

\* The node at position k, if that is one of those from lo to hi.
At(k, m, lo, hi) == IF lo <= k /\ k <= hi THEN <<m>> ELSE << >>

\* What of a walk lies in a range of ranks: what of its two halves does.
LEMMA CutJoined ==
  ASSUME NEW a \in Seq(Node), NEW m \in Node, NEW b \in Seq(Node), NEW lo \in Int, NEW hi \in Int
  PROVE  Cut(a \o <<m>> \o b, lo, hi)
           = Cut(a, lo, hi) \o At(Len(a) + 1, m, lo, hi)
                            \o Cut(b, lo - (Len(a) + 1), hi - (Len(a) + 1))
<1> DEFINE k == Len(a) + 1
           s == a \o <<m>> \o b
           x == Cut(a, lo, hi)
           z == Cut(b, lo - k, hi - k)
           c == Cut(s, lo, hi)
<1>1. /\ s \in Seq(Node)
      /\ Len(s) = k + Len(b)
      /\ \A i \in 1 .. Len(a) : s[i] = a[i]
      /\ s[k] = m
      /\ \A i \in 1 .. Len(b) : s[k + i] = b[i]
  BY Joined
<1>2. Len(a) \in Nat /\ Len(b) \in Nat /\ k \in Int /\ lo - k \in Int /\ hi - k \in Int
      /\ k = Len(a) + 1
  OBVIOUS
<1> HIDE DEF s, k
<1> DEFINE fs == Larger(lo, 1)
           ls == IF hi < Len(s) THEN hi ELSE Len(s)
           la == IF hi < Len(a) THEN hi ELSE Len(a)
           fb == Larger(lo - k, 1)
           lb == IF hi - k < Len(b) THEN hi - k ELSE Len(b)
<1>3. /\ x \in Seq(Node)
      /\ Len(x) = IF fs <= la THEN la - fs + 1 ELSE 0
      /\ \A i \in Nat : 1 <= i /\ i <= la - fs + 1 => x[i] = a[fs + i - 1]
      /\ la < fs => x = << >>
  BY CutFacts
<1>4. /\ z \in Seq(Node)
      /\ Len(z) = IF fb <= lb THEN lb - fb + 1 ELSE 0
      /\ \A i \in Nat : 1 <= i /\ i <= lb - fb + 1 => z[i] = b[fb + i - 1]
      /\ lb < fb => z = << >>
  BY <1>2, CutFacts
<1>5. /\ c \in Seq(Node)
      /\ Len(c) = IF fs <= ls THEN ls - fs + 1 ELSE 0
      /\ \A i \in Nat : 1 <= i /\ i <= ls - fs + 1 => c[i] = s[fs + i - 1]
  BY <1>1, CutFacts
<1>6. /\ fs \in Int /\ 1 <= fs /\ lo <= fs /\ (lo <= 1 => fs = 1) /\ (lo > 1 => fs = lo)
      /\ fb \in Int /\ 1 <= fb /\ (lo - k <= 1 => fb = 1) /\ (lo - k > 1 => fb = lo - k)
      /\ ls \in Int /\ (hi < Len(s) => ls = hi) /\ (hi >= Len(s) => ls = Len(s))
      /\ la \in Int /\ (hi < Len(a) => la = hi) /\ (hi >= Len(a) => la = Len(a))
      /\ lb \in Int /\ (hi - k < Len(b) => lb = hi - k) /\ (hi - k >= Len(b) => lb = Len(b))
      /\ Len(s) \in Nat
  BY <1>1, <1>2 DEF Larger
<1> HIDE DEF x, z, c, fs, ls, la, fb, lb
<1> SUFFICES c = x \o At(k, m, lo, hi) \o z
  BY DEF c, x, z, s, k
<1>7. CASE hi < k
  <2>1. \/ ls = la /\ lb <= -1
        \/ hi = Len(a) /\ ls = la /\ lb < 1
    BY <1>1, <1>2, <1>6, <1>7
  <2>2. z = << >> /\ ls = la
    BY <1>4, <1>6, <2>1
  <2>3. c = x
    <3>1. Len(c) = Len(x)
      BY <1>3, <1>5, <2>2
    <3>2. ASSUME NEW i \in 1 .. Len(c) PROVE c[i] = x[i]
      <4>1. i \in Nat /\ 1 <= i /\ i <= ls - fs + 1 /\ fs + i - 1 \in 1 .. Len(a)
        BY <1>2, <1>5, <1>6, <1>7, <2>2, <3>2, SMTT(30)
      <4> QED BY <1>1, <1>3, <1>5, <2>2, <4>1
    <3> QED BY <1>3, <1>5, <3>1, <3>2, SameSeq
  <2>4. At(k, m, lo, hi) = << >>
    BY <1>2, <1>7 DEF At
  <2> QED BY <1>3, <2>2, <2>3, <2>4, ConcatEmpty
<1>8. CASE lo > k
  <2>0. k >= 1 /\ lo > 1 /\ lo - k >= 1 /\ Len(s) = k + Len(b)
    BY <1>1, <1>2, <1>8
  <2>1. fs = lo /\ fb = lo - k /\ la < fs /\ ls = lb + k
    <3>1. fs = lo
      BY <1>6, <2>0
    <3>2. fb = lo - k
      BY <1>2, <1>6, <2>0
    <3>3. la < fs
      BY <1>2, <1>6, <1>8, <3>1
    <3>4. hi < Len(s) <=> hi - k < Len(b)
      BY <1>2, <2>0
    <3>5. ls = lb + k
      BY <1>2, <1>6, <2>0, <3>4, SMTT(30)
    <3> QED BY <3>1, <3>2, <3>3, <3>5
  <2>2. x = << >>
    BY <1>3, <2>1
  <2>3. c = z
    <3>1. Len(c) = Len(z)
      BY <1>2, <1>4, <1>5, <1>6, <2>1
    <3>2. ASSUME NEW i \in 1 .. Len(c) PROVE c[i] = z[i]
      <4>1. i \in Nat /\ 1 <= i /\ i <= ls - fs + 1 /\ i <= lb - fb + 1
            /\ fb + i - 1 \in 1 .. Len(b) /\ fs + i - 1 = k + (fb + i - 1)
        BY <1>2, <1>5, <1>6, <1>8, <2>1, <3>2, SMTT(30)
      <4>2. c[i] = s[k + (fb + i - 1)] /\ z[i] = b[fb + i - 1]
        BY <1>4, <1>5, <4>1
      <4> QED BY <1>1, <4>1, <4>2
    <3> QED BY <1>4, <1>5, <3>1, <3>2, SameSeq
  <2>4. At(k, m, lo, hi) = << >>
    BY <1>2, <1>8 DEF At
  <2> QED BY <1>4, <2>2, <2>3, <2>4, ConcatEmpty
<1>9. CASE lo <= k /\ k <= hi
  <2> DEFINE y == x \o <<m>> \o z
  <2>1. /\ fs <= k /\ fb = 1 /\ la = Len(a) /\ ls = k + lb /\ 0 <= lb
        /\ Len(x) = k - fs /\ Len(z) = lb /\ Len(c) = k + lb - fs + 1
    <3>1. k >= 1 /\ fs <= k /\ fb = 1 /\ la = Len(a)
      BY <1>2, <1>6, <1>9
    <3>2. Len(s) = k + Len(b) /\ (hi < Len(s) <=> hi - k < Len(b))
      BY <1>1, <1>2
    <3>3. ls = k + lb /\ 0 <= lb
      <4>1. CASE hi < Len(s)
        <5>1. ls = hi /\ lb = hi - k
          BY <1>6, <3>2, <4>1
        <5> QED BY <1>2, <1>9, <5>1
      <4>2. CASE hi >= Len(s)
        <5>1. ls = Len(s) /\ lb = Len(b)
          BY <1>2, <1>6, <3>2, <4>2
        <5> QED BY <1>2, <3>2, <5>1
      <4> QED BY <1>6, <4>1, <4>2
    <3>4. Len(x) = k - fs
      BY <1>2, <1>3, <1>6, <3>1
    <3>5. Len(z) = lb
      BY <1>4, <1>6, <3>1, <3>3
    <3>6. Len(c) = k + lb - fs + 1
      BY <1>2, <1>5, <1>6, <3>1, <3>3
    <3> QED BY <3>1, <3>3, <3>4, <3>5, <3>6
  <2>2. /\ y \in Seq(Node)
        /\ Len(y) = Len(x) + 1 + Len(z)
        /\ \A i \in 1 .. Len(x) : y[i] = x[i]
        /\ y[Len(x) + 1] = m
        /\ \A i \in 1 .. Len(z) : y[Len(x) + 1 + i] = z[i]
    <3>1. x \in Seq(Node) /\ z \in Seq(Node)
      BY <1>3, <1>4
    <3> QED BY <3>1, Joined
  <2> HIDE DEF y
  <2>3. Len(c) = Len(y)
    BY <1>2, <1>6, <2>1, <2>2
  <2>4. ASSUME NEW i \in 1 .. Len(c) PROVE c[i] = y[i]
    <3>1. i \in Nat /\ 1 <= i /\ i <= ls - fs + 1 /\ c[i] = s[fs + i - 1]
      <4>1. i \in Nat /\ 1 <= i /\ i <= k + lb - fs + 1
        BY <1>2, <1>6, <2>1
      <4>2. i <= ls - fs + 1
        BY <1>2, <1>6, <2>1, <4>1
      <4> QED BY <1>5, <4>1, <4>2
    <3>2. CASE i <= Len(x)
      <4>1. i \in 1 .. Len(x) /\ i <= la - fs + 1 /\ fs + i - 1 \in 1 .. Len(a)
        BY <1>2, <1>6, <2>1, <3>1, <3>2
      <4> QED BY <1>1, <1>3, <2>2, <3>1, <4>1
    <3>3. CASE i = Len(x) + 1
      <4>1. fs + i - 1 = k
        BY <1>2, <1>6, <2>1, <3>3
      <4> QED BY <1>1, <2>2, <3>1, <3>3, <4>1
    <3>4. CASE i > Len(x) + 1
      <4> DEFINE j == i - (Len(x) + 1)
      <4>1. /\ j \in 1 .. Len(z) /\ j \in Nat /\ 1 <= j /\ j <= lb - fb + 1 /\ fb + j - 1 = j
            /\ Len(x) + 1 + j = i /\ fs + i - 1 = k + j /\ j \in 1 .. Len(b)
        <5>0. Len(x) \in Nat
          BY <1>3
        <5>1. j \in Nat /\ 1 <= j /\ Len(x) + 1 + j = i
          BY <3>1, <3>4, <5>0
        <5> HIDE DEF j
        <5>2. j <= lb
          BY <1>2, <1>6, <2>1, <3>1, <5>1
        <5>3. lb <= Len(b)
          BY <1>2, <1>6
        <5>4. j \in 1 .. Len(z) /\ j \in 1 .. Len(b)
          BY <1>2, <1>6, <2>1, <5>1, <5>2, <5>3
        <5>5. j <= lb - fb + 1 /\ fb + j - 1 = j
          BY <1>6, <2>1, <5>1, <5>2
        <5>6. fs + i - 1 = k + j
          BY <1>2, <1>6, <2>1, <3>1, <5>1
        <5> QED BY <5>1, <5>4, <5>5, <5>6
      <4> HIDE DEF j
      <4>2. y[i] = z[j] /\ z[j] = b[j]
        BY <1>4, <2>2, <4>1
      <4>3. c[i] = b[j]
        BY <1>1, <3>1, <4>1
      <4> QED BY <4>2, <4>3
    <3> QED BY <1>2, <1>6, <2>1, <3>1, <3>2, <3>3, <3>4, SMTT(30)
  <2>5. c = y
    BY <1>5, <2>2, <2>3, <2>4, SameSeq
  <2>6. At(k, m, lo, hi) = <<m>>
    BY <1>9 DEF At
  <2> QED BY <2>5, <2>6 DEF y
<1> QED BY <1>2, <1>7, <1>8, <1>9, SMTT(30)

\* What collect_in_range does below a node: the part of the walk with ranks from lo to hi,
\* when the first one has rank c; behind hi the rank that is handed on is not exact.
Collected(v, s, lo, hi, c) ==
  /\ v.nodes = Cut(s, lo - c + 1, hi - c + 1)
  /\ c + Len(s) <= hi + 1 => v.rank = c + Len(s)
  /\ c + Len(s) > hi => v.rank > hi

Visited == [rank: Int, nodes: Seq(Node)]

LEMMA VisitCollects ==
  ASSUME NEW a \in Seq(Node), NEW m \in Node, NEW b \in Seq(Node),
         NEW lo \in Int, NEW hi \in Int, NEW c \in Int, c <= hi,
         NEW l \in Visited, Collected(l, a, lo, hi, c),
         NEW g \in [Int -> Visited], \A i \in Int : Collected(g[i], b, lo, hi, i),
         NEW here, here = At(l.rank, m, lo, hi),
         NEW r, r = IF l.rank + 1 <= hi THEN g[l.rank + 1]
                    ELSE [rank |-> l.rank + 1, nodes |-> << >>]
  PROVE  Collected([rank |-> r.rank, nodes |-> l.nodes \o here \o r.nodes],
                   a \o <<m>> \o b, lo, hi, c)
<1> DEFINE s == a \o <<m>> \o b
           k == Len(a) + 1
           e == lo - c + 1
           h == hi - c + 1
           x == Cut(a, e, h)
           y == At(k, m, e, h)
           z == Cut(b, e - k, h - k)
<1>1. Len(s) = k + Len(b) /\ Len(a) \in Nat /\ Len(b) \in Nat /\ k \in Nat /\ k = Len(a) + 1
      /\ e \in Int /\ h \in Int
  BY Joined
<1>2. Cut(s, e, h) = x \o y \o z
  <2>1. e \in Int /\ h \in Int
    BY <1>1
  <2>2. \A p, q \in Int : Cut(s, p, q) = Cut(a, p, q) \o At(k, m, p, q) \o Cut(b, p - k, q - k)
    BY CutJoined
  <2> HIDE DEF e, h, s, k
  <2> QED BY <2>1, <2>2
<1>3. /\ l.rank \in Int
      /\ l.nodes = x
      /\ c + Len(a) <= hi + 1 => l.rank = c + Len(a)
      /\ c + Len(a) > hi => l.rank > hi
  BY DEF Collected, Visited
<1>4. \A i \in Int : Cut(b, e - k, i) \in Seq(Node)
  BY <1>1, CutFacts
<1>5. h - k < 1 => z = << >>
  <2> HIDE DEF e, h, k
  <2>1. e - k \in Int /\ h - k \in Int
    BY <1>1
  <2>2. h - k < 1 => (IF h - k < Len(b) THEN h - k ELSE Len(b)) < Larger(e - k, 1)
    BY <1>1, <2>1 DEF Larger
  <2> QED BY <2>1, <2>2, CutFacts
<1> HIDE DEF s, x, y, z
<1>6. CASE l.rank + 1 <= hi
  <2>1. c + Len(a) <= hi /\ l.rank = c + Len(a) /\ l.rank + 1 = c + k
    BY <1>1, <1>3, <1>6, SMTT(30)
  <2>2. y = here
    BY <1>1, <2>1 DEF At, y
  <2>3. r = g[c + k] /\ c + k \in Int
    BY <1>1, <1>6, <2>1
  <2>4. Collected(r, b, lo, hi, c + k)
    BY <2>3
  <2>5. /\ r.nodes = z
        /\ c + k + Len(b) <= hi + 1 => r.rank = c + k + Len(b)
        /\ c + k + Len(b) > hi => r.rank > hi
    <3>1. lo - (c + k) + 1 = e - k /\ hi - (c + k) + 1 = h - k
      BY <1>1
    <3> QED BY <2>4, <3>1 DEF Collected, z
  <2>6. l.nodes \o here \o r.nodes = Cut(s, e, h)
    BY <1>2, <1>3, <2>2, <2>5
  <2>7. /\ c + Len(s) <= hi + 1 => r.rank = c + Len(s)
        /\ c + Len(s) > hi => r.rank > hi
    BY <1>1, <2>5
  <2> QED BY <2>6, <2>7 DEF Collected, s
<1>7. CASE ~(l.rank + 1 <= hi)
  <2>1. r = [rank |-> l.rank + 1, nodes |-> << >>]
    BY <1>7
  <2>2. (c + Len(a) = hi \/ c + Len(a) > hi) /\ h - k < 1
    BY <1>1, <1>3, <1>7
  <2>3. z = << >>
    BY <1>5, <2>2
  <2>4. y = here
    <3>1. CASE c + Len(a) = hi
      <4>1. l.rank = hi
        BY <1>1, <1>3, <3>1
      <4> QED BY <1>1, <3>1, <4>1 DEF At, y
    <3>2. CASE c + Len(a) > hi
      <4>1. l.rank > hi
        BY <1>3, <3>2
      <4>2. ~(l.rank <= hi) /\ ~(k <= h)
        BY <1>1, <1>3, <3>2, <4>1
      <4>3. here = << >> /\ y = << >>
        BY <4>2 DEF At, y
      <4> HIDE DEF y
      <4> QED BY <4>3
    <3> QED BY <2>2, <3>1, <3>2
  <2>5. l.nodes \o here \o r.nodes = Cut(s, e, h)
    <3>1. l.nodes = x /\ r.nodes = z
      BY <1>3, <2>1, <2>3
    <3> QED BY <1>2, <2>4, <3>1
  <2>6. r.rank = l.rank + 1
    BY <2>1
  <2>7. c + Len(s) > hi /\ r.rank > hi
    BY <1>1, <1>3, <1>7, <2>2, <2>6
  <2>8. c + Len(s) <= hi + 1 => r.rank = c + Len(s)
    BY <1>1, <1>3, <2>2, <2>6
  <2> QED BY <2>5, <2>7, <2>8 DEF Collected, s
<1> QED BY <1>6, <1>7

\* avl_range_by_rank is the part of a walk of the tree between the two positions.
LEMMA RangeIsCut ==
  ASSUME NEW R, NEW X, Ordered(R, X), NEW M, NEW t, Shape(t, M, R, X), Clean(t, M),
         NEW w, Walks(t, w), NEW min_rank \in Int, NEW max_rank \in Int
  PROVE  avl_range_by_rank(t, min_rank, max_rank) = Cut(w[t.root], min_rank, max_rank)
<1> USE NullAssumption
<1> DEFINE S == Node \cup {NULL}
           V == [Int -> Visited]
           Visit(left, right, m, current_rank) ==
             IF m = NULL \/ current_rank > max_rank
             THEN [rank |-> current_rank, nodes |-> << >>]
             ELSE LET l == left[current_rank]
                      here == IF min_rank <= l.rank /\ l.rank <= max_rank THEN <<m>> ELSE << >>
                      r == IF l.rank + 1 <= max_rank THEN right[l.rank + 1]
                           ELSE [rank |-> l.rank + 1, nodes |-> << >>]
                  IN  [rank |-> r.rank, nodes |-> l.nodes \o here \o r.nodes]
           collect[m \in Node \cup {NULL}] == [current_rank \in Int |->
             IF m = NULL \/ current_rank > max_rank
             THEN [rank |-> current_rank, nodes |-> << >>]
             ELSE LET l == collect[t.left[m]][current_rank]
                      here == IF min_rank <= l.rank /\ l.rank <= max_rank THEN <<m>> ELSE << >>
                      r == IF l.rank + 1 <= max_rank THEN collect[t.right[m]][l.rank + 1]
                           ELSE [rank |-> l.rank + 1, nodes |-> << >>]
                  IN  [rank |-> r.rank, nodes |-> l.nodes \o here \o r.nodes]]
           D == [f \in [S -> V] |->
                  [m \in S |-> [c \in Int |-> Visit(f[t.left[m]], f[t.right[m]], m, c)]]]
<1>1. PICK d : Falls(t, d)
  BY DownRank
<1>2. t \in Tree /\ M \in SUBSET Node /\ Linked(t.root, t.parent, t.left, t.right, M)
  BY DEF Shape, Shaped
<1>3. /\ Ranks(S, d)
      /\ \A m \in Node : /\ t.left[m] \in S /\ d[t.left[m]] < d[m]
                         /\ t.right[m] \in S /\ d[t.right[m]] < d[m]
  BY <1>1, <1>2 DEF Falls, Tree
<1>4. \A c \in Int : [rank |-> c, nodes |-> << >>] \in Visited
  BY DEF Visited
<1>5. ASSUME NEW left \in V, NEW right \in V, NEW m \in S, NEW c \in Int
      PROVE  Visit(left, right, m, c) \in Visited
  <2>1. CASE m = NULL \/ c > max_rank
    BY <1>4, <2>1
  <2>2. CASE ~(m = NULL \/ c > max_rank)
    <3> DEFINE l == left[c]
               here == IF min_rank <= l.rank /\ l.rank <= max_rank THEN <<m>> ELSE << >>
               r == IF l.rank + 1 <= max_rank THEN right[l.rank + 1]
                    ELSE [rank |-> l.rank + 1, nodes |-> << >>]
    <3>1. l \in Visited /\ l.rank \in Int /\ l.nodes \in Seq(Node)
      BY DEF Visited
    <3>2. r \in Visited
      <4>1. l.rank + 1 \in Int
        BY <3>1
      <4> QED BY <1>4, <4>1
    <3>3. here \in Seq(Node)
      BY <2>2
    <3>4. Visit(left, right, m, c) = [rank |-> r.rank, nodes |-> l.nodes \o here \o r.nodes]
      BY <2>2
    <3> HIDE DEF l, here, r, Visit
    <3>5. r.rank \in Int /\ r.nodes \in Seq(Node)
      BY <3>2 DEF Visited
    <3>6. l.nodes \o here \o r.nodes \in Seq(Node)
      BY <3>1, <3>3, <3>5
    <3> QED BY <3>4, <3>5, <3>6 DEF Visited
  <2> QED BY <2>1, <2>2
<1>8. Recursive(S, V, d, D)
  <2> HIDE DEF Visit
  <2>1. \A m \in S, g, h \in [S -> V], c \in Int :
          (\A k \in S : d[k] < d[m] => g[k] = h[k])
            => Visit(g[t.left[m]], g[t.right[m]], m, c) = Visit(h[t.left[m]], h[t.right[m]], m, c)
    <3> SUFFICES ASSUME NEW m \in S, NEW g \in [S -> V], NEW h \in [S -> V], NEW c \in Int,
                        \A k \in S : d[k] < d[m] => g[k] = h[k]
                 PROVE  Visit(g[t.left[m]], g[t.right[m]], m, c)
                          = Visit(h[t.left[m]], h[t.right[m]], m, c)
      OBVIOUS
    <3>1. CASE m = NULL
      BY <3>1 DEF Visit
    <3>2. CASE m # NULL
      <4>1. g[t.left[m]] = h[t.left[m]] /\ g[t.right[m]] = h[t.right[m]]
        BY <1>3, <3>2
      <4> QED BY <4>1
    <3> QED BY <3>1, <3>2
  <2>2. \A g, h \in [S -> V], m \in S :
          (\A k \in S : d[k] < d[m] => g[k] = h[k]) => D[g][m] = D[h][m]
    <3> SUFFICES ASSUME NEW g \in [S -> V], NEW h \in [S -> V], NEW m \in S,
                        \A k \in S : d[k] < d[m] => g[k] = h[k]
                 PROVE  D[g][m] = D[h][m]
      OBVIOUS
    <3>1. \A c \in Int :
            Visit(g[t.left[m]], g[t.right[m]], m, c) = Visit(h[t.left[m]], h[t.right[m]], m, c)
      BY <2>1, ZenonT(30)
    <3> QED BY <3>1
  <2>3. \A g \in [S -> V], m \in S, c \in Int :
          Visit(g[t.left[m]], g[t.right[m]], m, c) \in Visited
    <3> SUFFICES ASSUME NEW g \in [S -> V], NEW m \in S, NEW c \in Int
                 PROVE  Visit(g[t.left[m]], g[t.right[m]], m, c) \in Visited
      OBVIOUS
    <3>1. CASE m = NULL
      <4>1. Visit(g[t.left[m]], g[t.right[m]], m, c) = [rank |-> c, nodes |-> << >>]
        BY <3>1 DEF Visit
      <4> QED BY <1>4, <4>1
    <3>2. CASE m # NULL
      <4>1. g[t.left[m]] \in V /\ g[t.right[m]] \in V
        BY <1>3, <3>2
      <4> QED BY <1>5, <4>1
    <3> QED BY <3>1, <3>2
  <2>4. D \in [[S -> V] -> [S -> V]]
    BY <2>3
  <2>5. V # {}
    <3>1. [c \in Int |-> [rank |-> c, nodes |-> << >>]] \in V
      BY <1>4
    <3> QED BY <3>1
  <2> HIDE DEF D, S, V
  <2> QED BY <2>2, <2>4, <2>5 DEF Recursive
<1>9. PICK f \in [S -> V] : f = D[f]
  <2> HIDE DEF D, S, V
  <2> QED BY <1>3, <1>8, Recursion
<1>10. f = [m \in Node \cup {NULL} |-> [current_rank \in Int |->
             IF m = NULL \/ current_rank > max_rank
             THEN [rank |-> current_rank, nodes |-> << >>]
             ELSE LET l == f[t.left[m]][current_rank]
                      here == IF min_rank <= l.rank /\ l.rank <= max_rank THEN <<m>> ELSE << >>
                      r == IF l.rank + 1 <= max_rank THEN f[t.right[m]][l.rank + 1]
                           ELSE [rank |-> l.rank + 1, nodes |-> << >>]
                  IN  [rank |-> r.rank, nodes |-> l.nodes \o here \o r.nodes]]]
  <2> HIDE DEF V
  <2> QED BY <1>9
<1>11. collect = [m \in Node \cup {NULL} |-> [current_rank \in Int |->
             IF m = NULL \/ current_rank > max_rank
             THEN [rank |-> current_rank, nodes |-> << >>]
             ELSE LET l == collect[t.left[m]][current_rank]
                      here == IF min_rank <= l.rank /\ l.rank <= max_rank THEN <<m>> ELSE << >>
                      r == IF l.rank + 1 <= max_rank THEN collect[t.right[m]][l.rank + 1]
                           ELSE [rank |-> l.rank + 1, nodes |-> << >>]
                  IN  [rank |-> r.rank, nodes |-> l.nodes \o here \o r.nodes]]]
  <2> HIDE DEF D, V, Visit
  <2> QED BY <1>10
<1>12. avl_range_by_rank(t, min_rank, max_rank)
         = IF min_rank > max_rank \/ t.root = NULL THEN << >> ELSE collect[t.root][1].nodes
  BY DEF avl_range_by_rank
<1> HIDE DEF collect, D
<1>13. ASSUME NEW m \in S, NEW c \in Int
       PROVE  collect[m][c] = Visit(collect[t.left[m]], collect[t.right[m]], m, c)
  <2>1. collect = [x \in Node \cup {NULL} |-> [y \in Int |->
                     Visit(collect[t.left[x]], collect[t.right[x]], x, y)]]
    BY <1>11
  <2> HIDE DEF V, Visit
  <2> QED BY <2>1
<1>14. collect \in [S -> V]
  <2> DEFINE G == {m \in S : collect[m] \in V}
  <2>1. ASSUME NEW m \in S, \A k \in S : d[k] < d[m] => k \in G PROVE m \in G
    <3>1. \A c \in Int : collect[m][c] \in Visited
      <4>1. CASE m = NULL
        BY <1>4, <1>13, <4>1
      <4>2. CASE m # NULL
        <5>1. collect[t.left[m]] \in V /\ collect[t.right[m]] \in V
          BY <1>3, <2>1, <4>2
        <5> HIDE DEF Visit, V
        <5> QED BY <1>5, <1>13, <5>1
      <4> QED BY <4>1, <4>2
    <3>2. collect[m] = [c \in Int |-> collect[m][c]]
      BY <1>11
    <3> QED BY <3>1, <3>2
  <2> HIDE DEF G
  <2>2. Inherited(S, d, G)
    BY <2>1 DEF Inherited
  <2>3. S \subseteq G
    <3> HIDE DEF S
    <3> QED BY <1>3, <2>2, RankInduction
  <2>4. \A m \in S : collect[m] \in V
    BY <2>3 DEF G
  <2> HIDE DEF V
  <2> QED BY <1>11, <2>4
<1>15. /\ w \in [S -> Seq(Node)] /\ w[NULL] = << >>
       /\ \A m \in Node : w[m] = w[t.left[m]] \o <<m>> \o w[t.right[m]]
  BY DEF Walks
<1> DEFINE Good(m) == \A c \in Int : Collected(collect[m][c], w[m], min_rank, max_rank, c)
           G == {m \in S : Good(m)}
<1>16. ASSUME NEW m \in S, NEW c \in Int, m = NULL \/ c > max_rank
       PROVE  Collected(collect[m][c], w[m], min_rank, max_rank, c)
  <2>1. collect[m][c] = [rank |-> c, nodes |-> << >>]
    BY <1>13, <1>16
  <2>2. w[m] \in Seq(Node) /\ Len(w[m]) \in Nat /\ (m = NULL => Len(w[m]) = 0)
    BY <1>15
  <2> DEFINE e == min_rank - c + 1
             h == max_rank - c + 1
  <2>3. e \in Int /\ h \in Int
    OBVIOUS
  <2>4. (IF h < Len(w[m]) THEN h ELSE Len(w[m])) < Larger(e, 1)
    <3>1. h < 1 \/ Len(w[m]) < 1
      BY <1>16, <2>2
    <3> HIDE DEF e, h
    <3> QED BY <2>2, <2>3, <3>1 DEF Larger
  <2> HIDE DEF e, h
  <2>5. Cut(w[m], e, h) = << >>
    BY <2>2, <2>3, <2>4, CutFacts
  <2>6. /\ c + Len(w[m]) <= max_rank + 1 => c = c + Len(w[m])
        /\ c + Len(w[m]) > max_rank => c > max_rank
    BY <1>16, <2>2
  <2> QED BY <2>1, <2>5, <2>6 DEF Collected, e, h
<1>17. ASSUME NEW m \in S, \A k \in S : d[k] < d[m] => k \in G PROVE m \in G
  <2> SUFFICES ASSUME NEW c \in Int
               PROVE  Collected(collect[m][c], w[m], min_rank, max_rank, c)
    OBVIOUS
  <2>1. CASE m = NULL \/ c > max_rank
    BY <1>16, <2>1
  <2>2. CASE ~(m = NULL \/ c > max_rank)
    <3> DEFINE a == w[t.left[m]]
               b == w[t.right[m]]
               l == collect[t.left[m]][c]
               g == collect[t.right[m]]
               here == IF min_rank <= l.rank /\ l.rank <= max_rank THEN <<m>> ELSE << >>
               r == IF l.rank + 1 <= max_rank THEN g[l.rank + 1]
                    ELSE [rank |-> l.rank + 1, nodes |-> << >>]
    <3>1. m \in Node /\ t.left[m] \in S /\ t.right[m] \in S /\ c <= max_rank
      BY <1>3, <2>2
    <3>2. a \in Seq(Node) /\ b \in Seq(Node) /\ w[m] = a \o <<m>> \o b
      BY <1>15, <3>1
    <3>3. l \in Visited /\ g \in [Int -> Visited]
      BY <1>14, <3>1
    <3>4. Good(t.left[m]) /\ Good(t.right[m])
      BY <1>3, <1>17, <3>1
    <3>5. /\ Collected(l, a, min_rank, max_rank, c)
          /\ \A i \in Int : Collected(g[i], b, min_rank, max_rank, i)
      BY <3>4
    <3>6. collect[m][c] = [rank |-> r.rank, nodes |-> l.nodes \o here \o r.nodes]
      BY <1>13, <2>2
    <3> HIDE DEF a, b, l, g
    <3>0. here = At(l.rank, m, min_rank, max_rank)
      BY DEF At
    <3> HIDE DEF here, r
    <3>7. Collected([rank |-> r.rank, nodes |-> l.nodes \o here \o r.nodes],
                    a \o <<m>> \o b, min_rank, max_rank, c)
      BY <3>0, <3>1, <3>2, <3>3, <3>5, VisitCollects DEF r
    <3> QED BY <3>2, <3>6, <3>7
  <2> QED BY <2>1, <2>2
<1>18. S \subseteq G
  <2> HIDE DEF G, S
  <2>1. Inherited(S, d, G)
    BY <1>17 DEF Inherited
  <2> QED BY <1>3, <2>1, RankInduction
<1>19. t.root \in S /\ w[t.root] \in Seq(Node)
  BY <1>2, <1>15 DEF Tree
<1>20. CASE min_rank > max_rank \/ t.root = NULL
  <2>1. (IF max_rank < Len(w[t.root]) THEN max_rank ELSE Len(w[t.root])) < Larger(min_rank, 1)
    BY <1>15, <1>19, <1>20 DEF Larger
  <2>2. Cut(w[t.root], min_rank, max_rank) = << >>
    BY <1>19, <2>1, CutFacts
  <2> QED BY <1>12, <1>20, <2>2
<1>21. CASE ~(min_rank > max_rank \/ t.root = NULL)
  <2>1. Collected(collect[t.root][1], w[t.root], min_rank, max_rank, 1)
    BY <1>18, <1>19
  <2>2. min_rank - 1 + 1 = min_rank /\ max_rank - 1 + 1 = max_rank
    OBVIOUS
  <2> QED BY <1>12, <1>21, <2>1, <2>2 DEF Collected
<1> QED BY <1>20, <1>21

-----------------------------------------------------------------------------
(* Looking from one node for another, some places behind it *)

\* Where avl_offset goes from m, with pos places behind it and offset to go.
GoesRight(t, offset, m, pos) ==
  pos < offset /\ UnsignedLeq(offset, pos + avl_cnt(t, t.right[m]))
GoesLeft(t, offset, m, pos) ==
  pos > offset /\ UnsignedLeq(pos - avl_cnt(t, t.left[m]), offset)
GoesUp(t, offset, m, pos) ==
  offset # pos /\ ~GoesRight(t, offset, m, pos) /\ ~GoesLeft(t, offset, m, pos)

\* seek[m][pos] is what its loop returns when it has come to m.
Seeks(t, offset, seek) ==
  \A m \in Node, pos \in Int :
    /\ offset = pos => seek[m][pos] = m
    /\ GoesRight(t, offset, m, pos) /\ t.right[m] # NULL =>
         seek[m][pos] = seek[t.right[m]][pos + avl_cnt(t, t.left[t.right[m]]) + 1]
    /\ GoesLeft(t, offset, m, pos) /\ t.left[m] # NULL =>
         seek[m][pos] = seek[t.left[m]][pos - avl_cnt(t, t.right[t.left[m]]) - 1]
    /\ GoesUp(t, offset, m, pos) =>
         seek[m][pos] =
           IF t.parent[m] = NULL THEN NULL
           ELSE IF t.left[t.parent[m]] = m
           THEN seek[t.parent[m]][pos + avl_cnt(t, t.right[m]) + 1]
           ELSE seek[t.parent[m]][pos - avl_cnt(t, t.left[m]) - 1]

\* What avl_offset returns is given by such a function, also from where its loop does not
\* end.
LEMMA SeekExists ==
  ASSUME NEW t, t \in Tree, NEW offset \in Int
  PROVE  \E seek : Seeks(t, offset, seek) /\ \A n \in Node : avl_offset(t, n, offset) = seek[n][0]
<1> USE NullAssumption
<1> DEFINE S == Node \cup {NULL}
           D == S \X Int
           V == S \cup {Crash}
           R(m, pos) == pos < offset /\ UnsignedLeq(offset, pos + avl_cnt(t, t.right[m]))
           L(m, pos) == pos > offset /\ UnsignedLeq(pos - avl_cnt(t, t.left[m]), offset)
           Next(m, pos) ==       \* the next node, unless there is none
             IF R(m, pos) THEN t.right[m] ELSE IF L(m, pos) THEN t.left[m] ELSE t.parent[m]
           Pos(m, pos) ==
             IF R(m, pos) THEN pos + avl_cnt(t, t.left[t.right[m]]) + 1
             ELSE IF L(m, pos) THEN pos - avl_cnt(t, t.right[t.left[m]]) - 1
             ELSE IF t.left[t.parent[m]] = m THEN pos + avl_cnt(t, t.right[m]) + 1
             ELSE pos - avl_cnt(t, t.left[m]) - 1
           Stops(m, pos) == offset = pos \/ m = NULL \/ Next(m, pos) = NULL
           Result(m, pos) == IF offset = pos THEN m
                             ELSE IF m = NULL \/ R(m, pos) \/ L(m, pos) THEN Crash ELSE NULL
           stop == {x \in D : Stops(x[1], x[2])}
           result == [x \in D |-> Result(x[1], x[2])]
           step == [x \in D |-> IF x \in stop THEN x ELSE <<Next(x[1], x[2]), Pos(x[1], x[2])>>]
           Body(h, m, pos) ==
             IF offset = pos THEN m
             ELSE IF m = NULL THEN Crash
             ELSE LET l == t.left[m]
                      r == t.right[m]
                      p == t.parent[m]
                  IN  IF pos < offset /\ UnsignedLeq(offset, pos + avl_cnt(t, r))
                      THEN IF r = NULL THEN Crash ELSE h[r][pos + avl_cnt(t, t.left[r]) + 1]
                      ELSE IF pos > offset /\ UnsignedLeq(pos - avl_cnt(t, l), offset)
                      THEN IF l = NULL THEN Crash ELSE h[l][pos - avl_cnt(t, t.right[l]) - 1]
                      ELSE IF p = NULL THEN NULL
                      ELSE IF t.left[p] = m THEN h[p][pos + avl_cnt(t, r) + 1]
                      ELSE h[p][pos - avl_cnt(t, l) - 1]
           seek[m \in Node \cup {NULL}] == [pos \in Int |->
             IF offset = pos THEN m
             ELSE IF m = NULL THEN Crash
             ELSE LET l == t.left[m]
                      r == t.right[m]
                      p == t.parent[m]
                  IN  IF pos < offset /\ UnsignedLeq(offset, pos + avl_cnt(t, r))
                      THEN IF r = NULL THEN Crash ELSE seek[r][pos + avl_cnt(t, t.left[r]) + 1]
                      ELSE IF pos > offset /\ UnsignedLeq(pos - avl_cnt(t, l), offset)
                      THEN IF l = NULL THEN Crash ELSE seek[l][pos - avl_cnt(t, t.right[l]) - 1]
                      ELSE IF p = NULL THEN NULL
                      ELSE IF t.left[p] = m THEN seek[p][pos + avl_cnt(t, r) + 1]
                      ELSE seek[p][pos - avl_cnt(t, l) - 1]]
<1>1. \A m \in Node : t.left[m] \in S /\ t.right[m] \in S /\ t.parent[m] \in S
  BY DEF Tree
<1>2. \A m \in S : avl_cnt(t, m) \in Int
  BY DEF Tree, avl_cnt
<1>3. ASSUME NEW m \in S, NEW pos \in Int, ~Stops(m, pos)
      PROVE  Next(m, pos) \in S /\ Pos(m, pos) \in Int
  <2>1. m \in Node /\ Next(m, pos) \in Node
    BY <1>1, <1>3
  <2>2. avl_cnt(t, t.left[m]) \in Int /\ avl_cnt(t, t.right[m]) \in Int
    BY <1>1, <1>2, <2>1
  <2>3. R(m, pos) => avl_cnt(t, t.left[t.right[m]]) \in Int
    BY <1>1, <1>2, <2>1
  <2>4. ~R(m, pos) /\ L(m, pos) => avl_cnt(t, t.right[t.left[m]]) \in Int
    BY <1>1, <1>2, <2>1
  <2> HIDE DEF R, L
  <2> QED BY <2>1, <2>2, <2>3, <2>4
<1>4. \A m \in S, pos \in Int : Result(m, pos) \in V
  OBVIOUS
<1>5. PICK f \in [D -> V] : Loops(D, stop, result, step, f)
  <2>1. Crash \in V
    OBVIOUS
  <2>2. stop \in SUBSET D
    OBVIOUS
  <2>3. result \in [D -> V]
    <3> HIDE DEF Result, V, S
    <3> QED BY <1>4
  <2>4. step \in [D -> D]
    <3>1. ASSUME NEW x \in D PROVE (IF x \in stop THEN x ELSE <<Next(x[1], x[2]), Pos(x[1], x[2])>>) \in D
      <4> HIDE DEF Next, Pos, Stops, S
      <4> QED BY <1>3
    <3> HIDE DEF stop
    <3> QED BY <3>1
  <2> HIDE DEF D, V, stop, result, step
  <2> QED BY <2>1, <2>2, <2>3, <2>4, LoopExists
<1> DEFINE g == [m \in S |-> [pos \in Int |-> f[<<m, pos>>]]]
<1>6. ASSUME NEW m \in S, NEW pos \in Int
      PROVE  g[m][pos] = IF Stops(m, pos) THEN Result(m, pos) ELSE g[Next(m, pos)][Pos(m, pos)]
  <2> DEFINE x == <<m, pos>>
  <2>1. x \in D /\ x[1] = m /\ x[2] = pos /\ g[m][pos] = f[x]
    OBVIOUS
  <2>2. f[x] = IF x \in stop THEN result[x] ELSE f[step[x]]
    <3> HIDE DEF x, stop, result, step, D
    <3> QED BY <1>5, <2>1 DEF Loops
  <2>3. x \in stop <=> Stops(m, pos)
    <3> HIDE DEF x, Stops, D
    <3> QED BY <2>1
  <2>4. CASE Stops(m, pos)
    <3>1. result[x] = Result(m, pos)
      <4> HIDE DEF x, Result, D
      <4> QED BY <2>1
    <3> HIDE DEF stop, result, step, x, Stops
    <3> QED BY <2>1, <2>2, <2>3, <2>4, <3>1
  <2>5. CASE ~Stops(m, pos)
    <3> DEFINE c == Next(m, pos)
               i == Pos(m, pos)
    <3>1. step[x] = <<c, i>>
      <4> HIDE DEF x, stop, D, Next, Pos, Stops
      <4> QED BY <2>1, <2>3, <2>5
    <3>2. c \in S /\ i \in Int
      BY <1>3, <2>5
    <3> HIDE DEF c, i
    <3>3. g[c][i] = f[<<c, i>>]
      BY <3>2
    <3> HIDE DEF stop, result, step, x, Stops, g
    <3>4. g[m][pos] = g[c][i]
      BY <2>1, <2>2, <2>3, <2>5, <3>1, <3>3
    <3> QED BY <2>5, <3>4 DEF c, i
  <2> QED BY <2>4, <2>5
<1>7. ASSUME NEW m \in S, NEW pos \in Int PROVE g[m][pos] = Body(g, m, pos)
  <2> HIDE DEF S, g, D
  <2>1. CASE offset = pos \/ m = NULL
    BY <1>6, <2>1
  <2>2. CASE ~(offset = pos \/ m = NULL)
    BY <1>6, <2>2
  <2> QED BY <2>1, <2>2
<1>8. g = [m \in Node \cup {NULL} |-> [pos \in Int |-> Body(g, m, pos)]]
  <2> HIDE DEF Body
  <2> QED BY <1>7
<1>9. seek = [m \in Node \cup {NULL} |-> [pos \in Int |-> Body(seek, m, pos)]]
  <2> HIDE DEF g
  <2> QED BY <1>8
<1>10. \A n \in Node : avl_offset(t, n, offset) = seek[n][0]
  BY DEF avl_offset
<1> HIDE DEF seek
<1>11. ASSUME NEW m \in Node, NEW pos \in Int PROVE seek[m][pos] = Body(seek, m, pos)
  <2> HIDE DEF Body
  <2> QED BY <1>9
<1>12. Seeks(t, offset, seek)
  <2> SUFFICES ASSUME NEW m \in Node, NEW pos \in Int
               PROVE  /\ offset = pos => seek[m][pos] = m
                      /\ GoesRight(t, offset, m, pos) /\ t.right[m] # NULL =>
                           seek[m][pos] = seek[t.right[m]][pos + avl_cnt(t, t.left[t.right[m]]) + 1]
                      /\ GoesLeft(t, offset, m, pos) /\ t.left[m] # NULL =>
                           seek[m][pos] = seek[t.left[m]][pos - avl_cnt(t, t.right[t.left[m]]) - 1]
                      /\ GoesUp(t, offset, m, pos) =>
                           seek[m][pos] =
                             IF t.parent[m] = NULL THEN NULL
                             ELSE IF t.left[t.parent[m]] = m
                             THEN seek[t.parent[m]][pos + avl_cnt(t, t.right[m]) + 1]
                             ELSE seek[t.parent[m]][pos - avl_cnt(t, t.left[m]) - 1]
    BY DEF Seeks
  <2>1. m # NULL
    OBVIOUS
  <2>2. offset = pos => seek[m][pos] = m
    BY <1>11
  <2>3. ASSUME GoesRight(t, offset, m, pos), t.right[m] # NULL
        PROVE  seek[m][pos] = seek[t.right[m]][pos + avl_cnt(t, t.left[t.right[m]]) + 1]
    <3>1. offset # pos
      BY <2>3 DEF GoesRight
    <3> QED BY <1>11, <2>1, <2>3, <3>1 DEF GoesRight
  <2>4. ASSUME GoesLeft(t, offset, m, pos), t.left[m] # NULL
        PROVE  seek[m][pos] = seek[t.left[m]][pos - avl_cnt(t, t.right[t.left[m]]) - 1]
    <3>1. offset # pos /\ ~(pos < offset)
      BY <2>4 DEF GoesLeft
    <3> QED BY <1>11, <2>1, <2>4, <3>1 DEF GoesLeft
  <2>5. ASSUME GoesUp(t, offset, m, pos)
        PROVE  seek[m][pos] =
                 IF t.parent[m] = NULL THEN NULL
                 ELSE IF t.left[t.parent[m]] = m
                 THEN seek[t.parent[m]][pos + avl_cnt(t, t.right[m]) + 1]
                 ELSE seek[t.parent[m]][pos - avl_cnt(t, t.left[m]) - 1]
    BY <1>11, <2>1, <2>5 DEF GoesUp, GoesRight, GoesLeft
  <2> QED BY <2>2, <2>3, <2>4, <2>5
<1> QED BY <1>10, <1>12

\* What m stands for in a search from position i to position j of s: it is found below m,
\* when the subtree of m holds j and begins at or behind i.
FoundBelow(t, s, base, seek, i, j, m) ==
  i <= base[m] + 1 /\ base[m] + 1 <= j /\ j <= LastOf(t, base, m) =>
    seek[m][Position(t, base, m) - i] = s[j]

\* It is found from m on, when the climb from i has come to m and has not passed j.
FoundFrom(t, s, base, seek, i, j, m) ==
  /\ base[m] + 1 <= i /\ i <= LastOf(t, base, m)
  /\ \/ LastOf(t, base, m) < j
     \/ i <= Position(t, base, m) /\ Position(t, base, m) <= j
  => seek[m][Position(t, base, m) - i] = IF j <= Len(s) THEN s[j] ELSE NULL

\* Going down to j, in a subtree that begins at or behind i: no distance on the way is less
\* than none, so comparing as unsigned compares.
LEMMA SeekDescends ==
  ASSUME NEW t, NEW M \in SUBSET Node, NEW s, NEW base, Spans(t, M, s, base),
         NEW d, Falls(t, d), NEW i \in Int, NEW j \in Int, i <= j,
         NEW seek, Seeks(t, j - i, seek)
  PROVE  \A m \in M : FoundBelow(t, s, base, seek, i, j, m)
<1> USE NullAssumption
<1> DEFINE G == {m \in Node : m \in M => FoundBelow(t, s, base, seek, i, j, m)}
           rd == [m \in Node |-> d[m]]
<1>1. ASSUME NEW m \in Node, \A k \in Node : rd[k] < rd[m] => k \in G PROVE m \in G
  <2> SUFFICES ASSUME m \in M, i <= base[m] + 1, base[m] + 1 <= j, j <= LastOf(t, base, m)
               PROVE  seek[m][Position(t, base, m) - i] = s[j]
    BY DEF FoundBelow
  <2> DEFINE b == base[m]
             l == avl_cnt(t, t.left[m])
             r == avl_cnt(t, t.right[m])
             at == Position(t, base, m)
             z == LastOf(t, base, m)
             pos == at - i
             offset == j - i
  <2>1. /\ b \in Int /\ l \in Int /\ r \in Int /\ s[at] = m
        /\ at = b + l + 1 /\ z = at + r
        /\ at \in Int /\ z \in Int /\ pos \in Int /\ offset \in Int
        /\ l >= 0 /\ r >= 0
    <3>1. b \in Nat /\ l \in Nat /\ r \in Nat /\ s[at] = m
      BY DEF Spans
    <3>2. at = b + l + 1 /\ z = at + r
      BY DEF Position, LastOf
    <3> HIDE DEF b, l, r, at, z
    <3> QED BY <3>1, <3>2
  <2>2. /\ i <= b + 1 /\ b + 1 <= j /\ j <= z
    OBVIOUS
  <2>3. CASE j = at
    <3>1. seek[m][pos] = m
      BY <2>1, <2>3 DEF Seeks
    <3> QED BY <2>1, <2>3, <3>1
  <2>4. CASE at < j
    <3> DEFINE c == t.right[m]
               lc == avl_cnt(t, t.left[c])
               rc == avl_cnt(t, t.right[c])
    <3>1. c # NULL
      <4>1. 0 < r
        <5> HIDE DEF b, l, r, at, z, pos, offset
        <5> QED BY <2>1, <2>2, <2>4
      <4> QED BY <4>1 DEF avl_cnt
    <3>2. GoesRight(t, offset, m, pos)
      <4>1. pos + r = z - i /\ pos < offset /\ 0 <= offset /\ offset <= z - i /\ 0 <= z - i
        <5>1. pos = at - i /\ offset = j - i
          OBVIOUS
        <5> HIDE DEF b, l, r, at, z, pos, offset
        <5> QED BY <2>1, <2>2, <2>4, <5>1
      <4>2. UnsignedLeq(offset, pos + r)
        <5> HIDE DEF b, l, r, at, z, pos, offset
        <5> QED BY <2>1, <4>1 DEF UnsignedLeq
      <4> QED BY <4>1, <4>2 DEF GoesRight
    <3>3. seek[m][pos] = seek[c][pos + lc + 1]
      BY <2>1, <3>1, <3>2 DEF Seeks
    <3>4. /\ c \in M /\ base[c] = at /\ LastOf(t, base, c) = z
      BY <3>1 DEF Spans
    <3>5. lc \in Int /\ rc \in Int
      BY <3>4 DEF Spans
    <3>6. Position(t, base, c) = at + lc + 1
      BY <3>4 DEF Position
    <3>7. i <= base[c] + 1 /\ base[c] + 1 <= j /\ j <= LastOf(t, base, c)
      <4> HIDE DEF b, l, r, at, z, pos, offset, c
      <4> QED BY <2>1, <2>2, <2>4, <3>4
    <3>8. seek[c][Position(t, base, c) - i] = s[j]
      <4>1. c \in Node /\ rd[c] < rd[m]
        BY <3>4 DEF Falls
      <4>2. FoundBelow(t, s, base, seek, i, j, c)
        BY <1>1, <3>4, <4>1
      <4> QED BY <3>7, <4>2 DEF FoundBelow
    <3>9. Position(t, base, c) - i = pos + lc + 1
      <4> DEFINE pc == Position(t, base, c)
      <4>1. pos = at - i /\ pc = at + lc + 1
        BY <3>6
      <4> HIDE DEF b, l, r, at, z, pos, offset, c, lc, pc
      <4>2. pc - i = pos + lc + 1
        BY <2>1, <3>5, <4>1
      <4> QED BY <4>2 DEF pc, c, lc
    <3> QED BY <3>3, <3>8, <3>9
  <2>5. CASE j < at
    <3> DEFINE c == t.left[m]
               lc == avl_cnt(t, t.left[c])
               rc == avl_cnt(t, t.right[c])
    <3>1. c # NULL
      <4>1. 0 < l
        <5> HIDE DEF b, l, r, at, z, pos, offset
        <5> QED BY <2>1, <2>2, <2>5
      <4> QED BY <4>1 DEF avl_cnt
    <3>2. GoesLeft(t, offset, m, pos)
      <4>1. pos - l = b + 1 - i /\ offset < pos /\ 0 <= offset /\ b + 1 - i <= offset /\ 0 <= b + 1 - i
        <5>1. pos = at - i /\ offset = j - i
          OBVIOUS
        <5> HIDE DEF b, l, r, at, z, pos, offset
        <5> QED BY <2>1, <2>2, <2>5, <5>1
      <4>2. UnsignedLeq(pos - l, offset)
        <5> HIDE DEF b, l, r, at, z, pos, offset
        <5> QED BY <2>1, <4>1 DEF UnsignedLeq
      <4> QED BY <2>1, <4>1, <4>2 DEF GoesLeft
    <3>3. seek[m][pos] = seek[c][pos - rc - 1]
      BY <2>1, <3>1, <3>2 DEF Seeks
    <3>4. /\ c \in M /\ base[c] = b /\ LastOf(t, base, c) = at - 1
      BY <3>1 DEF Spans
    <3>5. base[c] \in Int /\ lc \in Int /\ rc \in Int
      BY <3>4 DEF Spans
    <3>6. Position(t, base, c) = base[c] + lc + 1 /\ LastOf(t, base, c) = Position(t, base, c) + rc
      BY <3>4 DEF Position, LastOf
    <3>7. i <= base[c] + 1 /\ base[c] + 1 <= j /\ j <= LastOf(t, base, c)
      <4> HIDE DEF b, l, r, at, z, pos, offset, c
      <4> QED BY <2>1, <2>2, <2>5, <3>4
    <3>8. seek[c][Position(t, base, c) - i] = s[j]
      <4>1. c \in Node /\ rd[c] < rd[m]
        BY <3>4 DEF Falls
      <4>2. FoundBelow(t, s, base, seek, i, j, c)
        BY <1>1, <3>4, <4>1
      <4> QED BY <3>7, <4>2 DEF FoundBelow
    <3>9. Position(t, base, c) - i = pos - rc - 1
      <4> DEFINE pc == Position(t, base, c)
                 zc == LastOf(t, base, c)
                 bc == base[c]
      <4>1. pos = at - i /\ pc = bc + lc + 1 /\ zc = pc + rc /\ zc = at - 1
        BY <3>4, <3>6
      <4>2. bc \in Int /\ lc \in Int /\ rc \in Int
        BY <3>5
      <4> HIDE DEF b, l, r, at, z, pos, offset, c, lc, rc, pc, zc, bc
      <4>3. pc - i = pos - rc - 1
        BY <2>1, <4>1, <4>2
      <4> QED BY <4>3 DEF pc, c, rc
    <3> QED BY <3>3, <3>8, <3>9
  <2> QED BY <2>1, <2>3, <2>4, <2>5
<1>2. Node \subseteq G
  <2> HIDE DEF G
  <2>1. Inherited(Node, rd, G)
    <3> HIDE DEF rd
    <3> QED BY <1>1 DEF Inherited
  <2>2. Ranks(Node, rd)
    BY DEF Falls
  <2> HIDE DEF rd
  <2> QED BY <2>1, <2>2, RankInduction
<1> QED BY <1>2

\* Climbing from i: the subtree of m holds i, and the distance of its last node from i, with
\* which the goal is compared, is not negative although that of m may be.
LEMMA SeekClimbs ==
  ASSUME NEW t, t \in Tree, NEW M \in SUBSET Node, NEW s, NEW base, Spans(t, M, s, base),
         NEW d, Falls(t, d), NEW rk, Ranked(t.parent, rk),
         NEW i \in Int, NEW j \in Int, i <= j, Len(s) \in Nat,
         NEW seek, Seeks(t, j - i, seek)
  PROVE  \A m \in M : FoundFrom(t, s, base, seek, i, j, m)
<1> USE NullAssumption
<1> DEFINE G == {m \in Node : m \in M => FoundFrom(t, s, base, seek, i, j, m)}
<1>1. \A m \in M : FoundBelow(t, s, base, seek, i, j, m)
  BY SeekDescends
<1>2. ASSUME NEW m \in Node, \A k \in Node : rk[k] < rk[m] => k \in G PROVE m \in G
  <2> SUFFICES ASSUME m \in M, base[m] + 1 <= i, i <= LastOf(t, base, m),
                      \/ LastOf(t, base, m) < j
                      \/ i <= Position(t, base, m) /\ Position(t, base, m) <= j
               PROVE  seek[m][Position(t, base, m) - i] = IF j <= Len(s) THEN s[j] ELSE NULL
    BY DEF FoundFrom
  <2> DEFINE b == base[m]
             l == avl_cnt(t, t.left[m])
             r == avl_cnt(t, t.right[m])
             at == Position(t, base, m)
             z == LastOf(t, base, m)
             pos == at - i
             offset == j - i
             size == Len(s)
  <2>1. /\ b \in Int /\ l \in Int /\ r \in Int /\ s[at] = m
        /\ at = b + l + 1 /\ z = at + r /\ size \in Int /\ z <= size
        /\ at \in Int /\ z \in Int /\ pos \in Int /\ offset \in Int
        /\ l >= 0 /\ r >= 0
    <3>1. b \in Nat /\ l \in Nat /\ r \in Nat /\ s[at] = m /\ z <= size /\ size \in Nat
      BY DEF Spans
    <3>2. at = b + l + 1 /\ z = at + r
      BY DEF Position, LastOf
    <3> HIDE DEF b, l, r, at, z, size
    <3> QED BY <3>1, <3>2
  <2>2. b + 1 <= i /\ i <= z /\ (z < j \/ (i <= at /\ at <= j))
    OBVIOUS
  <2>3. CASE j = at
    <3>1. seek[m][pos] = m
      BY <2>1, <2>3 DEF Seeks
    <3>2. j <= size
      <4> HIDE DEF b, l, r, at, z, pos, offset, size
      <4> QED BY <2>1, <2>3
    <3> QED BY <2>1, <2>3, <3>1, <3>2
  <2>4. CASE at < j /\ j <= z
    <3> DEFINE c == t.right[m]
               lc == avl_cnt(t, t.left[c])
    <3>1. c # NULL
      <4>1. 0 < r
        <5> HIDE DEF b, l, r, at, z, pos, offset, size
        <5> QED BY <2>1, <2>4
      <4> QED BY <4>1 DEF avl_cnt
    <3>2. GoesRight(t, offset, m, pos)
      <4>1. pos + r = z - i /\ pos < offset /\ 0 <= offset /\ offset <= z - i /\ 0 <= z - i
        <5>1. pos = at - i /\ offset = j - i
          OBVIOUS
        <5>2. i <= j /\ i \in Int /\ j \in Int
          OBVIOUS
        <5> HIDE DEF b, l, r, at, z, pos, offset, size
        <5>3. at \in Int /\ z \in Int /\ r \in Int /\ z = at + r
          BY <2>1
        <5>4. pos + r = z - i
          BY <5>1, <5>2, <5>3
        <5>5. pos < offset /\ 0 <= offset
          BY <2>4, <5>1, <5>2, <5>3
        <5>6. offset <= z - i /\ 0 <= z - i
          BY <2>4, <5>1, <5>2, <5>3
        <5> QED BY <5>4, <5>5, <5>6
      <4>2. UnsignedLeq(offset, pos + r)
        <5> HIDE DEF b, l, r, at, z, pos, offset, size
        <5> QED BY <2>1, <4>1 DEF UnsignedLeq
      <4> QED BY <4>1, <4>2 DEF GoesRight
    <3>3. seek[m][pos] = seek[c][pos + lc + 1]
      BY <2>1, <3>1, <3>2 DEF Seeks
    <3>4. /\ c \in M /\ base[c] = at /\ LastOf(t, base, c) = z
      BY <3>1 DEF Spans
    <3>5. lc \in Int
      BY <3>4 DEF Spans
    <3>6. Position(t, base, c) = at + lc + 1
      BY <3>4 DEF Position
    <3>7. i <= base[c] + 1 /\ base[c] + 1 <= j /\ j <= LastOf(t, base, c) /\ j <= size
      <4> HIDE DEF b, l, r, at, z, pos, offset, c, size
      <4> QED BY <2>1, <2>2, <2>4, <3>4
    <3>8. seek[c][Position(t, base, c) - i] = s[j]
      BY <1>1, <3>4, <3>7 DEF FoundBelow
    <3>9. Position(t, base, c) - i = pos + lc + 1
      <4> DEFINE pc == Position(t, base, c)
      <4>1. pos = at - i /\ pc = at + lc + 1
        BY <3>6
      <4> HIDE DEF b, l, r, at, z, pos, offset, c, lc, size, pc
      <4>2. pc - i = pos + lc + 1
        BY <2>1, <3>5, <4>1
      <4> QED BY <4>2 DEF pc, c, lc
    <3> QED BY <3>3, <3>7, <3>8, <3>9
  <2>5. CASE z < j
    <3> DEFINE p == t.parent[m]
    <3>1. GoesUp(t, offset, m, pos)
      <4>1. pos + r = z - i /\ pos < offset /\ 0 <= offset /\ z - i < offset /\ 0 <= z - i
        <5>1. pos = at - i /\ offset = j - i
          OBVIOUS
        <5>2. i <= j /\ i \in Int /\ j \in Int /\ i <= z
          BY <2>2
        <5> HIDE DEF b, l, r, at, z, pos, offset, size
        <5>3. at \in Int /\ z \in Int /\ r \in Int /\ z = at + r /\ r >= 0
          BY <2>1
        <5>4. pos + r = z - i
          BY <5>1, <5>2, <5>3
        <5>5. pos < offset /\ 0 <= offset
          BY <2>5, <5>1, <5>2, <5>3
        <5>6. z - i < offset /\ 0 <= z - i
          BY <2>5, <5>1, <5>2, <5>3
        <5> QED BY <5>4, <5>5, <5>6
      <4>2. ~UnsignedLeq(offset, pos + r) /\ ~(pos > offset) /\ offset # pos
        <5> HIDE DEF b, l, r, at, z, pos, offset, size
        <5> QED BY <2>1, <4>1 DEF UnsignedLeq
      <4> HIDE DEF pos, offset
      <4> QED BY <4>2 DEF GoesUp, GoesRight, GoesLeft
    <3>2. seek[m][pos] = IF p = NULL THEN NULL
                         ELSE IF t.left[p] = m THEN seek[p][pos + r + 1] ELSE seek[p][pos - l - 1]
      BY <2>1, <3>1 DEF Seeks
    <3>3. CASE p = NULL
      <4>1. z = size
        BY <3>3 DEF Spans
      <4>2. ~(j <= size)
        <5> HIDE DEF b, l, r, at, z, pos, offset, size
        <5> QED BY <2>1, <2>5, <4>1
      <4> QED BY <3>2, <3>3, <4>2
    <3>4. CASE p # NULL
      <4> DEFINE ap == Position(t, base, p)
                 zp == LastOf(t, base, p)
                 bp == base[p]
                 lp == avl_cnt(t, t.left[p])
                 rp == avl_cnt(t, t.right[p])
      <4>1. p \in M /\ p \in Node /\ (t.left[p] = m \/ t.right[p] = m) /\ m # NULL
        BY <3>4 DEF Spans
      <4>2. bp \in Nat /\ lp \in Nat /\ rp \in Nat
        BY <4>1 DEF Spans
      <4>3. ap = bp + lp + 1 /\ zp = ap + rp
        BY DEF Position, LastOf
      <4>4. ap \in Int /\ zp \in Int /\ ap <= zp /\ bp + 1 <= ap
        <5> HIDE DEF ap, zp, bp, lp, rp
        <5> QED BY <4>2, <4>3
      <4>5. FoundFrom(t, s, base, seek, i, j, p)
        <5>1. rk[p] < rk[m]
          BY <3>4 DEF Ranked
        <5> QED BY <1>2, <4>1, <5>1
      <4>6. bp + 1 <= i /\ i <= zp /\ (zp < j \/ (i <= ap /\ ap <= j)) =>
              seek[p][ap - i] = IF j <= size THEN s[j] ELSE NULL
        BY <4>5 DEF FoundFrom
      <4>7. CASE t.left[p] = m
        <5>1. bp = b /\ z = ap - 1
          BY <4>1, <4>7 DEF Spans
        <5>2. pos = at - i
          OBVIOUS
        <5>3. ap - i = pos + r + 1
          <6> HIDE DEF b, l, r, at, z, pos, offset, size, ap, zp, bp, lp, rp
          <6>1. ap = at + r + 1
            BY <2>1, <4>4, <5>1
          <6> QED BY <2>1, <5>2, <6>1
        <5>4. bp + 1 <= i /\ i <= zp /\ i <= ap /\ ap <= j
          <6> HIDE DEF b, l, r, at, z, pos, offset, size, ap, zp, bp, lp, rp
          <6> QED BY <2>1, <2>2, <2>5, <4>2, <4>4, <5>1
        <5> HIDE DEF b, l, r, at, z, pos, offset, size, ap, zp, bp, lp, rp
        <5>5. seek[p][ap - i] = IF j <= size THEN s[j] ELSE NULL
          BY <4>6, <5>4
        <5>6. seek[m][pos] = IF j <= size THEN s[j] ELSE NULL
          BY <3>2, <3>4, <4>7, <5>3, <5>5
        <5> QED BY <5>6 DEF pos, at, size
      <4>8. CASE t.left[p] # m
        <5>1. t.right[p] = m
          BY <4>1, <4>8
        <5>2. b = ap /\ z = zp
          BY <4>1, <5>1 DEF Spans
        <5>3. pos = at - i
          OBVIOUS
        <5>4. ap - i = pos - l - 1
          <6> HIDE DEF b, l, r, at, z, pos, offset, size, ap, zp, bp, lp, rp
          <6>1. at = ap + l + 1
            BY <2>1, <4>4, <5>2
          <6>2. \A x, y, u, v \in Int : x = y + u + 1 => y - v = (x - v) - u - 1
            OBVIOUS
          <6>3. at \in Int /\ ap \in Int /\ l \in Int /\ i \in Int
            BY <2>1, <4>4
          <6>4. ap - i = (at - i) - l - 1
            BY <6>1, <6>2, <6>3
          <6> QED BY <5>3, <6>4
        <5>5. bp + 1 <= i /\ i <= zp /\ zp < j
          <6> HIDE DEF b, l, r, at, z, pos, offset, size, ap, zp, bp, lp, rp
          <6> QED BY <2>1, <2>2, <2>5, <4>2, <4>4, <5>2
        <5> HIDE DEF b, l, r, at, z, pos, offset, size, ap, zp, bp, lp, rp
        <5>6. seek[p][ap - i] = IF j <= size THEN s[j] ELSE NULL
          BY <4>6, <5>5
        <5>7. seek[m][pos] = IF j <= size THEN s[j] ELSE NULL
          BY <3>2, <3>4, <4>8, <5>4, <5>6
        <5> QED BY <5>7 DEF pos, at, size
      <4> QED BY <4>7, <4>8
    <3> QED BY <3>3, <3>4
  <2>6. j = at \/ (at < j /\ j <= z) \/ z < j
    <3> HIDE DEF b, l, r, at, z, pos, offset, size
    <3> QED BY <2>1, <2>2
  <2> QED BY <2>3, <2>4, <2>5, <2>6
<1>3. Node \subseteq G
  <2> HIDE DEF G
  <2>1. Inherited(Node, rk, G)
    BY <1>2 DEF Inherited
  <2>2. Ranks(Node, rk)
    BY DEF Ranked, Ranks
  <2> QED BY <2>1, <2>2, RankInduction
<1> QED BY <1>3

\* avl_offset finds the node that many places behind another, or nothing if there is none.
LEMMA OffsetFinds ==
  ASSUME NEW R, NEW X, Ordered(R, X), NEW M, NEW t, Shape(t, M, R, X), Clean(t, M),
         ExactOff(t, M, {}), NEW w, Walks(t, w),
         NEW i \in 1 .. Len(w[t.root]), NEW offset \in Nat
  PROVE  avl_offset(t, w[t.root][i], offset) =
           IF i + offset <= Len(w[t.root]) THEN w[t.root][i + offset] ELSE NULL
<1> DEFINE s == w[t.root]
           n == s[i]
           j == i + offset
<1>1. PICK J, rk : Shaped(t, M, R, X, J, rk)
  BY DEF Shape
<1>2. t \in Tree /\ M \in SUBSET Node /\ Ranked(t.parent, rk) /\ M \subseteq X
  BY <1>1 DEF Shaped, Sided
<1>3. PICK d : Falls(t, d)
  BY DownRank
<1>4. PICK base : Spans(t, M, s, base)
  BY SpansExist
<1>5. Lists(s, M, R)
  BY WalkLists
<1>6. i \in 1 .. Len(s)
  OBVIOUS
<1> HIDE DEF s
<1>7. /\ Len(s) \in Nat /\ n \in M
      /\ \A k, l \in 1 .. Len(s) : k < l => <<s[k], s[l]>> \in R
  BY <1>5, <1>6 DEF Lists, Range
<1> HIDE DEF n
<1>8. /\ base[n] \in Nat /\ avl_cnt(t, t.left[n]) \in Nat /\ avl_cnt(t, t.right[n]) \in Nat
      /\ LastOf(t, base, n) <= Len(s) /\ s[Position(t, base, n)] = n
  BY <1>4, <1>7 DEF Spans
<1>9. /\ Position(t, base, n) \in 1 .. Len(s)
      /\ base[n] + 1 <= Position(t, base, n) /\ Position(t, base, n) <= LastOf(t, base, n)
  BY <1>7, <1>8 DEF Position, LastOf
<1>10. Position(t, base, n) = i
  <2> DEFINE k == Position(t, base, n)
  <2>1. k \in 1 .. Len(s) /\ s[k] = n /\ s[i] = n
    BY <1>8, <1>9 DEF n
  <2> HIDE DEF k
  <2>2. <<n, n>> \notin R
    BY <1>2, <1>7 DEF Ordered
  <2>3. ~(k < i) /\ ~(i < k)
    BY <1>6, <1>7, <2>1, <2>2
  <2>4. k = i
    BY <1>6, <1>7, <2>1, <2>3
  <2> QED BY <2>4 DEF k
<1>11. i \in Int /\ j \in Int /\ i <= j /\ j - i = offset /\ i - i = 0 /\ offset \in Int /\ i <= i
  BY <1>6
<1> HIDE DEF j
<1>12. PICK seek : /\ Seeks(t, offset, seek)
                   /\ \A m \in Node : avl_offset(t, m, offset) = seek[m][0]
  BY <1>2, <1>11, SeekExists
<1>13. FoundFrom(t, s, base, seek, i, j, n)
  <2>1. Seeks(t, j - i, seek)
    BY <1>11, <1>12
  <2> QED BY <1>2, <1>3, <1>4, <1>7, <1>11, <2>1, SeekClimbs
<1>14. seek[n][0] = IF j <= Len(s) THEN s[j] ELSE NULL
  BY <1>9, <1>10, <1>11, <1>13 DEF FoundFrom
<1>15. avl_offset(t, n, offset) = IF j <= Len(s) THEN s[j] ELSE NULL
  BY <1>2, <1>7, <1>12, <1>14
<1> QED BY <1>15 DEF s, n, j
=============================================================================
