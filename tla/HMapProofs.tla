----------------------------- MODULE HMapProofs -----------------------------
(***************************************************************************)
(* The invariants of HMap, for every set of keys and values, every hash    *)
(* function and every value of the three tuning constants.                 *)
(***************************************************************************)
EXTENDS HMap, FiniteSetTheorems, SequenceTheorems, TLAPS

-----------------------------------------------------------------------------
(* What the operations of HTab do to a table *)

\* Linking a node in front of a chain moves every other node one place back.
LEMMA LinkInFront ==
  ASSUME NEW S, NEW s \in Seq(S), NEW e \in S
  PROVE  /\ <<e>> \o s \in Seq(S)
         /\ Len(<<e>> \o s) = Len(s) + 1
         /\ (<<e>> \o s)[1] = e
         /\ \A i \in 1 .. Len(s) : (<<e>> \o s)[i + 1] = s[i]
  OBVIOUS

\* Unlinking the i-th node moves the nodes behind it one place forward.
LEMMA Unlink ==
  ASSUME NEW S, NEW s \in Seq(S), NEW i \in 1 .. Len(s)
  PROVE  /\ RemoveAt(s, i) \in Seq(S)
         /\ Len(RemoveAt(s, i)) = Len(s) - 1
         /\ \A j \in 1 .. Len(s) - 1 :
              RemoveAt(s, i)[j] = IF j < i THEN s[j] ELSE s[j + 1]
<1>1. /\ SubSeq(s, 1, i - 1) \in Seq(S)
      /\ Len(SubSeq(s, 1, i - 1)) = i - 1
      /\ \A j \in 1 .. i - 1 : SubSeq(s, 1, i - 1)[j] = s[j]
  <2>1. \A j \in 1 .. i - 1 : s[j] \in S
    BY ElementOfSeq
  <2> QED BY <2>1, SubSeqProperties
<1>2. /\ SubSeq(s, i + 1, Len(s)) \in Seq(S)
      /\ Len(SubSeq(s, i + 1, Len(s))) = Len(s) - i
      /\ \A j \in 1 .. Len(s) - i : SubSeq(s, i + 1, Len(s))[j] = s[i + j]
  <2>1. \A j \in i + 1 .. Len(s) : s[j] \in S
    BY ElementOfSeq
  <2> QED BY <2>1, SubSeqProperties
<1> DEFINE front == SubSeq(s, 1, i - 1)
           back == SubSeq(s, i + 1, Len(s))
<1>3. /\ front \in Seq(S) /\ Len(front) = i - 1
      /\ back \in Seq(S) /\ Len(back) = Len(s) - i
  BY <1>1, <1>2
<1>4. /\ \A j \in 1 .. i - 1 : front[j] = s[j]
      /\ \A j \in 1 .. Len(s) - i : back[j] = s[i + j]
  BY <1>1, <1>2
<1> HIDE DEF front, back
<1>5. /\ front \o back \in Seq(S)
      /\ Len(front \o back) = Len(front) + Len(back)
      /\ \A j \in 1 .. Len(front) + Len(back) :
           (front \o back)[j] = IF j <= Len(front) THEN front[j] ELSE back[j - Len(front)]
  BY <1>3, ConcatProperties
<1>6. Len(s) \in Nat /\ i \in Nat
  OBVIOUS
<1>7. ASSUME NEW j \in 1 .. Len(s) - 1
      PROVE  (front \o back)[j] = IF j < i THEN s[j] ELSE s[j + 1]
  <2>1. j \in 1 .. Len(front) + Len(back)
    BY <1>3, <1>6
  <2>2. CASE j < i
    BY <1>3, <1>4, <1>5, <1>6, <2>1, <2>2
  <2>3. CASE ~(j < i)
    <3>1. /\ j - (i - 1) \in 1 .. Len(s) - i
          /\ i + (j - (i - 1)) = j + 1
          /\ ~(j <= i - 1)
      BY <2>3, <1>6
    <3> QED BY <1>3, <1>4, <1>5, <2>1, <2>3, <3>1
  <2> QED BY <2>2, <2>3
<1>8. RemoveAt(s, i) = front \o back
  BY DEF RemoveAt, front, back
<1>9. Len(front \o back) = Len(s) - 1
  BY <1>3, <1>5, <1>6
<1> QED BY <1>5, <1>7, <1>8, <1>9

\* A table none of whose counters, slots and nodes is wrong.
WellFormed(t) == HTabType(t) /\ Unique(t) /\ Placed(t) /\ Counted(t)

\* The slots of a table, and the places in each of its chains.
LEMMA Shape ==
  ASSUME NEW t, HTabType(t)
  PROVE  /\ DOMAIN t.tab = 0 .. t.mask
         /\ t.mask \in Nat /\ t.size \in Nat
         /\ t.tab \in [0 .. t.mask -> Seq(Entry)]
         /\ \A p \in 0 .. t.mask : /\ t.tab[p] \in Seq(Entry)
                                   /\ Len(t.tab[p]) \in Nat
                                   /\ DOMAIN t.tab[p] = 1 .. Len(t.tab[p])
                                   /\ \A i \in 1 .. Len(t.tab[p]) : t.tab[p][i] \in Entry
  BY DEF HTabType

\* A table has finitely many nodes.
LEMMA FiniteNodes ==
  ASSUME NEW t, HTabType(t)
  PROVE  IsFiniteSet(Nodes(t))
<1> DEFINE row(pos) == {pos} \X (DOMAIN t.tab[pos])
<1>1. DOMAIN t.tab = 0 .. t.mask /\ t.mask \in Nat
  BY DEF HTabType
<1>2. IsFiniteSet({row(pos) : pos \in DOMAIN t.tab})
  <2> DEFINE f == [pos \in DOMAIN t.tab |-> row(pos)]
  <2>1. f \in Surjection(DOMAIN t.tab, {row(pos) : pos \in DOMAIN t.tab})
    BY DEF Surjection
  <2>2. IsFiniteSet(DOMAIN t.tab)
    <3>1. IsFiniteSet(0 .. t.mask)
      BY <1>1, FS_Interval
    <3> QED BY <1>1, <3>1
  <2> HIDE DEF f
  <2> QED BY <2>1, <2>2, FS_Surjection
<1>3. ASSUME NEW pos \in DOMAIN t.tab PROVE IsFiniteSet(row(pos))
  <2>1. Len(t.tab[pos]) \in Nat /\ DOMAIN t.tab[pos] = 1 .. Len(t.tab[pos])
    BY <1>1, Shape
  <2>2. IsFiniteSet(DOMAIN t.tab[pos])
    <3>1. IsFiniteSet(1 .. Len(t.tab[pos]))
      BY <2>1, FS_Interval
    <3> QED BY <2>1, <3>1
  <2>3. IsFiniteSet({pos})
    BY FS_Singleton
  <2> QED BY <2>2, <2>3, FS_Product
<1> QED BY <1>2, <1>3, FS_UNION DEF Nodes

-----------------------------------------------------------------------------
(* h_insert *)

\* u is t with the node e as the new head of the chain of slot h: the nodes of
\* that chain move back, nothing else changes.
IsInserted(t, e, u, h) ==
  /\ HTabType(u) /\ u.mask = t.mask /\ u.size = t.size + 1
  /\ h \in 0 .. t.mask
  /\ Len(u.tab[h]) = Len(t.tab[h]) + 1
  /\ u.tab[h][1] = e
  /\ \A i \in 1 .. Len(t.tab[h]) : u.tab[h][i + 1] = t.tab[h][i]
  /\ \A p \in 0 .. t.mask : p # h => u.tab[p] = t.tab[p]

\* h_insert puts the node at the head of its chain and leaves the others alone.
LEMMA Inserted ==
  ASSUME NEW t, HTabType(t), NEW e \in Entry
  PROVE  IsInserted(t, e, h_insert(t, e), get_pos(t, e.key))
<1> SUFFICES ASSUME NEW u, u = h_insert(t, e),
                    NEW h, h = get_pos(t, e.key)
             PROVE  IsInserted(t, e, u, h)
  OBVIOUS
<1>1. h \in 0 .. t.mask
  BY HashAssumption DEF Entry, HTabType, get_pos
<1>2. /\ u.mask = t.mask
      /\ u.size = t.size + 1
      /\ u.tab = [t.tab EXCEPT ![h] = <<e>> \o t.tab[h]]
      /\ u = [tab |-> [t.tab EXCEPT ![h] = <<e>> \o t.tab[h]],
              mask |-> t.mask, size |-> t.size + 1]
  BY DEF h_insert, HTabType
<1>3. t.tab \in [0 .. t.mask -> Seq(Entry)] /\ t.mask \in Nat /\ t.size \in Nat
  BY DEF HTabType
<1>4. /\ <<e>> \o t.tab[h] \in Seq(Entry)
      /\ Len(<<e>> \o t.tab[h]) = Len(t.tab[h]) + 1
      /\ (<<e>> \o t.tab[h])[1] = e
      /\ \A i \in 1 .. Len(t.tab[h]) : (<<e>> \o t.tab[h])[i + 1] = t.tab[h][i]
  BY <1>1, <1>3, LinkInFront
<1>5. HTabType(u)
  <2>1. u.tab \in [0 .. t.mask -> Seq(Entry)]
    BY <1>1, <1>2, <1>3, <1>4
  <2>2. u \in [tab: [0 .. t.mask -> Seq(Entry)], mask: Nat, size: Nat]
    BY <1>2, <1>3, <2>1
  <2> QED BY <1>2, <2>2 DEF HTabType
<1> QED BY <1>1, <1>2, <1>3, <1>4, <1>5 DEF IsInserted

\* Where the nodes of the new table come from.
LEMMA InsertedNodes ==
  ASSUME NEW t, HTabType(t), NEW e, NEW u, NEW h, IsInserted(t, e, u, h),
         NEW p \in DOMAIN u.tab, NEW i \in DOMAIN u.tab[p]
  PROVE  /\ p \in DOMAIN t.tab
         /\ \/ p = h /\ i = 1 /\ u.tab[p][i] = e
            \/ p = h /\ i - 1 \in DOMAIN t.tab[p] /\ u.tab[p][i] = t.tab[p][i - 1]
            \/ p # h /\ i \in DOMAIN t.tab[p] /\ u.tab[p][i] = t.tab[p][i]
<1> USE DEF IsInserted
<1>1. HTabType(u)
  OBVIOUS
<1>2. p \in 0 .. t.mask /\ DOMAIN t.tab = 0 .. t.mask
  BY <1>1, Shape
<1>3. CASE p = h
  <2>1. i \in 1 .. Len(t.tab[p]) + 1 /\ Len(t.tab[p]) \in Nat
        /\ DOMAIN t.tab[p] = 1 .. Len(t.tab[p])
    BY <1>1, <1>2, <1>3, Shape
  <2>2. CASE i = 1
    BY <1>1, <1>2, <1>3, <2>2
  <2>3. CASE i # 1
    <3>1. i - 1 \in 1 .. Len(t.tab[p]) /\ (i - 1) + 1 = i
      BY <2>1, <2>3
    <3> QED BY <1>1, <1>2, <1>3, <2>1, <3>1
  <2> QED BY <2>2, <2>3
<1>4. CASE p # h
  BY <1>1, <1>2, <1>4
<1> QED BY <1>3, <1>4

\* Inserting a key that the table does not hold keeps the table well formed.
LEMMA InsertKeeps ==
  ASSUME NEW t, WellFormed(t), NEW e \in Entry, e.key \notin KeysOf(t),
         NEW u, u = h_insert(t, e)
  PROVE  /\ WellFormed(u) /\ KeysOf(u) = KeysOf(t) \cup {e.key}
         /\ u.mask = t.mask /\ u.size = t.size + 1
<1> DEFINE h == get_pos(t, e.key)
<1> USE DEF WellFormed
<1>0. IsInserted(t, e, u, h)
  BY Inserted
<1>1. /\ HTabType(u) /\ u.mask = t.mask /\ u.size = t.size + 1
      /\ h \in 0 .. t.mask
      /\ Len(u.tab[h]) = Len(t.tab[h]) + 1
      /\ u.tab[h][1] = e
      /\ \A k \in 1 .. Len(t.tab[h]) : u.tab[h][k + 1] = t.tab[h][k]
      /\ \A q \in 0 .. t.mask : q # h => u.tab[q] = t.tab[q]
  BY <1>0 DEF IsInserted
<1>2. \A p \in DOMAIN u.tab : \A i \in DOMAIN u.tab[p] :
        /\ p \in DOMAIN t.tab
        /\ \/ p = h /\ i = 1 /\ u.tab[p][i] = e
           \/ p = h /\ i - 1 \in DOMAIN t.tab[p] /\ u.tab[p][i] = t.tab[p][i - 1]
           \/ p # h /\ i \in DOMAIN t.tab[p] /\ u.tab[p][i] = t.tab[p][i]
  BY <1>0, InsertedNodes
<1>3. \A p \in DOMAIN t.tab : \A i \in DOMAIN t.tab[p] :
        t.tab[p][i] \in Entry /\ t.tab[p][i].key \in KeysOf(t)
  BY Shape DEF KeysOf, Entry
<1>4. \A p \in DOMAIN t.tab : \A i \in DOMAIN t.tab[p] : t.tab[p][i].key # e.key
  BY <1>3
<1>5. \A p \in DOMAIN u.tab : DOMAIN u.tab[p] \subseteq Nat
  <2> SUFFICES ASSUME NEW p \in DOMAIN u.tab PROVE DOMAIN u.tab[p] \subseteq Nat
    OBVIOUS
  <2>1. p \in 0 .. u.mask
    BY <1>1, Shape
  <2>2. DOMAIN u.tab[p] = 1 .. Len(u.tab[p]) /\ Len(u.tab[p]) \in Nat
    BY <1>1, <2>1, Shape
  <2> QED BY <2>2
<1> HIDE DEF h
<1>6. Unique(u)
  <2> SUFFICES ASSUME NEW p \in DOMAIN u.tab, NEW q \in DOMAIN u.tab,
                      NEW i \in DOMAIN u.tab[p], NEW j \in DOMAIN u.tab[q],
                      u.tab[p][i].key = u.tab[q][j].key
               PROVE  p = q /\ i = j
    BY DEF Unique
  <2>1. i \in Nat /\ j \in Nat
    BY <1>5
  <2> QED BY <1>2, <1>4, <2>1 DEF Unique
<1>7. Placed(u)
  <2> SUFFICES ASSUME NEW p \in DOMAIN u.tab, NEW i \in DOMAIN u.tab[p]
               PROVE  get_pos(u, u.tab[p][i].key) = p
    BY DEF Placed
  <2>1. \A k : get_pos(u, k) = get_pos(t, k)
    BY <1>1 DEF get_pos
  <2> QED BY <1>2, <2>1 DEF Placed, h
<1>8. KeysOf(u) = KeysOf(t) \cup {e.key}
  <2>1. KeysOf(u) \subseteq KeysOf(t) \cup {e.key}
    BY <1>2 DEF KeysOf
  <2>2. e.key \in KeysOf(u)
    <3>1. h \in DOMAIN u.tab /\ 1 \in DOMAIN u.tab[h] /\ e.key \in Key
      BY <1>1, Shape DEF Entry
    <3> QED BY <1>1, <3>1 DEF KeysOf
  <2>3. ASSUME NEW p \in DOMAIN t.tab, NEW i \in DOMAIN t.tab[p]
        PROVE  p \in DOMAIN u.tab /\ \E j \in DOMAIN u.tab[p] : u.tab[p][j] = t.tab[p][i]
    <3>1. p \in 0 .. t.mask /\ DOMAIN u.tab = 0 .. t.mask
      BY <1>1, Shape
    <3>2. CASE p = h
      <4>1. i \in 1 .. Len(t.tab[h]) /\ Len(t.tab[h]) \in Nat
        BY <3>1, <3>2, Shape
      <4>2. DOMAIN u.tab[h] = 1 .. Len(t.tab[h]) + 1
        BY <1>1, Shape
      <4>3. i + 1 \in DOMAIN u.tab[h]
        BY <4>1, <4>2
      <4> QED BY <1>1, <3>1, <3>2, <4>1, <4>3
    <3>3. CASE p # h
      BY <1>1, <3>1, <3>3
    <3> QED BY <3>2, <3>3
  <2> QED BY <2>1, <2>2, <2>3 DEF KeysOf
<1>9. Counted(u)
  <2>1. Nodes(u) = Nodes(t) \cup {<<h, Len(t.tab[h]) + 1>>}
    <3>1. DOMAIN u.tab = DOMAIN t.tab /\ h \in DOMAIN t.tab
      BY <1>1, Shape
    <3>2. DOMAIN u.tab[h] = DOMAIN t.tab[h] \cup {Len(t.tab[h]) + 1}
      <4>1. /\ DOMAIN u.tab[h] = 1 .. Len(t.tab[h]) + 1
            /\ DOMAIN t.tab[h] = 1 .. Len(t.tab[h])
            /\ Len(t.tab[h]) \in Nat
        BY <1>1, Shape
      <4> QED BY <4>1
    <3>3. \A p \in DOMAIN t.tab : p # h => DOMAIN u.tab[p] = DOMAIN t.tab[p]
      BY <1>1, <3>1, Shape
    <3> QED BY <3>1, <3>2, <3>3 DEF Nodes
  <2>2. <<h, Len(t.tab[h]) + 1>> \notin Nodes(t)
    BY <1>1, Shape DEF Nodes
  <2> HIDE DEF WellFormed
  <2>3. Cardinality(Nodes(u)) = Cardinality(Nodes(t)) + 1
    BY <2>1, <2>2, FiniteNodes, FS_AddElement DEF WellFormed
  <2> QED BY <1>1, <2>3 DEF Counted, WellFormed
<1> QED BY <1>1, <1>6, <1>7, <1>8, <1>9

-----------------------------------------------------------------------------
(* h_detach *)

\* u is t without the i-th node of the chain of slot h: the nodes behind it
\* move forward, nothing else changes.
IsDetached(t, h, i, u) ==
  /\ HTabType(u) /\ u.mask = t.mask /\ u.size = t.size - 1
  /\ Len(u.tab[h]) = Len(t.tab[h]) - 1
  /\ \A j \in 1 .. Len(t.tab[h]) - 1 :
       u.tab[h][j] = IF j < i THEN t.tab[h][j] ELSE t.tab[h][j + 1]
  /\ \A p \in 0 .. t.mask : p # h => u.tab[p] = t.tab[p]

\* A table that has a node does not count zero.
LEMMA CountsNode ==
  ASSUME NEW t, HTabType(t), Counted(t),
         NEW p \in DOMAIN t.tab, NEW i \in DOMAIN t.tab[p]
  PROVE  t.size > 0
<1>1. <<p, i>> \in Nodes(t)
  BY DEF Nodes
<1>2. IsFiniteSet(Nodes(t)) /\ Cardinality(Nodes(t)) \in Nat
  BY FiniteNodes, FS_CardinalityType
<1>3. Cardinality(Nodes(t)) # 0
  BY <1>1, <1>2, FS_EmptySet
<1> QED BY <1>2, <1>3 DEF Counted

\* A table that counts a node has one.
LEMMA CountedNode ==
  ASSUME NEW t, HTabType(t), Counted(t), t.size > 0
  PROVE  \E p \in DOMAIN t.tab : \E i \in DOMAIN t.tab[p] : TRUE
<1>1. Nodes(t) # {}
  BY FiniteNodes, FS_EmptySet DEF Counted
<1> QED BY <1>1 DEF Nodes

\* h_detach leaves the other chains alone and shortens its own by one node.
LEMMA Detached ==
  ASSUME NEW t, HTabType(t), t.size > 0,
         NEW h \in 0 .. t.mask, NEW i \in 1 .. Len(t.tab[h])
  PROVE  IsDetached(t, h, i, h_detach(t, h, i))
<1> SUFFICES ASSUME NEW u, u = h_detach(t, h, i)
             PROVE  IsDetached(t, h, i, u)
  OBVIOUS
<1>1. t.tab \in [0 .. t.mask -> Seq(Entry)] /\ t.mask \in Nat /\ t.size \in Nat
  BY DEF HTabType
<1>2. /\ u.mask = t.mask
      /\ u.size = t.size - 1
      /\ u.tab = [t.tab EXCEPT ![h] = RemoveAt(t.tab[h], i)]
      /\ u = [tab |-> [t.tab EXCEPT ![h] = RemoveAt(t.tab[h], i)],
              mask |-> t.mask, size |-> t.size - 1]
  BY DEF h_detach, HTabType
<1>3. t.tab[h] \in Seq(Entry)
  BY <1>1
<1>4. /\ RemoveAt(t.tab[h], i) \in Seq(Entry)
      /\ Len(RemoveAt(t.tab[h], i)) = Len(t.tab[h]) - 1
      /\ \A j \in 1 .. Len(t.tab[h]) - 1 :
           RemoveAt(t.tab[h], i)[j] = IF j < i THEN t.tab[h][j] ELSE t.tab[h][j + 1]
  BY <1>3, Unlink
<1>5. HTabType(u)
  <2>1. u.tab \in [0 .. t.mask -> Seq(Entry)]
    BY <1>1, <1>2, <1>4
  <2>2. u \in [tab: [0 .. t.mask -> Seq(Entry)], mask: Nat, size: Nat]
    BY <1>1, <1>2, <2>1
  <2> QED BY <1>2, <2>2 DEF HTabType
<1> QED BY <1>1, <1>2, <1>4, <1>5 DEF IsDetached

\* The j-th node of slot p of u is this one of t.
IsLeftBy(t, h, i, u, p, j) ==
  /\ p \in DOMAIN t.tab
  /\ \/ p = h /\ j < i /\ j \in DOMAIN t.tab[p] /\ u.tab[p][j] = t.tab[p][j]
     \/ p = h /\ j >= i /\ j + 1 \in DOMAIN t.tab[p] /\ u.tab[p][j] = t.tab[p][j + 1]
     \/ p # h /\ j \in DOMAIN t.tab[p] /\ u.tab[p][j] = t.tab[p][j]

\* Where the nodes that are left come from.
LEMMA DetachedNodes ==
  ASSUME NEW t, HTabType(t), NEW h \in 0 .. t.mask, NEW i \in 1 .. Len(t.tab[h]),
         NEW u, IsDetached(t, h, i, u),
         NEW p \in DOMAIN u.tab, NEW j \in DOMAIN u.tab[p]
  PROVE  IsLeftBy(t, h, i, u, p, j)
<1> USE DEF IsDetached, IsLeftBy
<1>1. HTabType(u)
  OBVIOUS
<1>2. p \in 0 .. t.mask /\ DOMAIN t.tab = 0 .. t.mask
  BY <1>1, Shape
<1>3. CASE p = h
  <2>1. j \in 1 .. Len(t.tab[p]) - 1 /\ Len(t.tab[p]) \in Nat
        /\ DOMAIN t.tab[p] = 1 .. Len(t.tab[p])
    BY <1>1, <1>2, <1>3, Shape
  <2>2. j \in DOMAIN t.tab[p] /\ j + 1 \in DOMAIN t.tab[p] /\ j \in Nat /\ i \in Nat
    BY <2>1
  <2>3. u.tab[p][j] = IF j < i THEN t.tab[p][j] ELSE t.tab[p][j + 1]
    BY <1>3, <2>1
  <2> QED BY <1>2, <1>3, <2>2, <2>3
<1>4. CASE p # h
  BY <1>1, <1>2, <1>4
<1> QED BY <1>3, <1>4

\* Unlinking a node keeps the table well formed and takes one key from it.
LEMMA DetachKeeps ==
  ASSUME NEW t, WellFormed(t),
         NEW h \in DOMAIN t.tab, NEW i \in DOMAIN t.tab[h],
         NEW u, u = h_detach(t, h, i)
  PROVE  /\ WellFormed(u) /\ IsDetached(t, h, i, u)
         /\ KeysOf(u) = KeysOf(t) \ {t.tab[h][i].key}
<1>1. HTabType(t) /\ Unique(t) /\ Placed(t) /\ Counted(t) /\ t.size > 0
  BY CountsNode DEF WellFormed
<1>2. /\ h \in 0 .. t.mask /\ i \in 1 .. Len(t.tab[h]) /\ Len(t.tab[h]) \in Nat
      /\ DOMAIN t.tab = 0 .. t.mask
      /\ \A p \in 0 .. t.mask : DOMAIN t.tab[p] = 1 .. Len(t.tab[p])
  BY <1>1, Shape
<1>3. IsDetached(t, h, i, u)
  BY <1>1, <1>2, Detached
<1>4. /\ HTabType(u) /\ u.mask = t.mask /\ u.size = t.size - 1
      /\ Len(u.tab[h]) = Len(t.tab[h]) - 1
      /\ \A j \in 1 .. Len(t.tab[h]) - 1 :
           u.tab[h][j] = IF j < i THEN t.tab[h][j] ELSE t.tab[h][j + 1]
      /\ \A p \in 0 .. t.mask : p # h => u.tab[p] = t.tab[p]
  BY <1>3 DEF IsDetached
<1>5. \A p \in DOMAIN u.tab : \A j \in DOMAIN u.tab[p] : IsLeftBy(t, h, i, u, p, j)
  BY <1>1, <1>2, <1>3, DetachedNodes
<1>6. \A p \in DOMAIN u.tab : DOMAIN u.tab[p] \subseteq Nat
  <2> SUFFICES ASSUME NEW p \in DOMAIN u.tab PROVE DOMAIN u.tab[p] \subseteq Nat
    OBVIOUS
  <2>1. p \in 0 .. u.mask
    BY <1>4, Shape
  <2>2. DOMAIN u.tab[p] = 1 .. Len(u.tab[p]) /\ Len(u.tab[p]) \in Nat
    BY <1>4, <2>1, Shape
  <2> QED BY <2>2
<1>7. Unique(u)
  <2> SUFFICES ASSUME NEW p \in DOMAIN u.tab, NEW q \in DOMAIN u.tab,
                      NEW j \in DOMAIN u.tab[p], NEW k \in DOMAIN u.tab[q],
                      u.tab[p][j].key = u.tab[q][k].key
               PROVE  p = q /\ j = k
    BY DEF Unique
  <2>1. i \in Nat /\ j \in Nat /\ k \in Nat
    BY <1>2, <1>6
  <2> QED BY <1>1, <1>5, <2>1 DEF Unique, IsLeftBy
<1>8. Placed(u)
  <2> SUFFICES ASSUME NEW p \in DOMAIN u.tab, NEW j \in DOMAIN u.tab[p]
               PROVE  get_pos(u, u.tab[p][j].key) = p
    BY DEF Placed
  <2>1. \A k : get_pos(u, k) = get_pos(t, k)
    BY <1>4 DEF get_pos
  <2> QED BY <1>1, <1>5, <2>1 DEF Placed, IsLeftBy
<1>9. KeysOf(u) = KeysOf(t) \ {t.tab[h][i].key}
  <2>1. KeysOf(u) \subseteq KeysOf(t)
    BY <1>5 DEF KeysOf, IsLeftBy
  <2>2. t.tab[h][i].key \notin KeysOf(u)
    <3> SUFFICES ASSUME NEW p \in DOMAIN u.tab, NEW j \in DOMAIN u.tab[p],
                        u.tab[p][j].key = t.tab[h][i].key
                 PROVE  FALSE
      BY DEF KeysOf
    <3>1. i \in Nat /\ j \in Nat
      BY <1>2, <1>6
    <3> QED BY <1>1, <1>5, <3>1 DEF Unique, IsLeftBy
  <2>3. ASSUME NEW p \in DOMAIN t.tab, NEW j \in DOMAIN t.tab[p],
               t.tab[p][j].key # t.tab[h][i].key
        PROVE  p \in DOMAIN u.tab /\ \E k \in DOMAIN u.tab[p] : u.tab[p][k] = t.tab[p][j]
    <3>1. p \in 0 .. t.mask /\ DOMAIN u.tab = 0 .. t.mask
      BY <1>2, <1>4, Shape
    <3>2. CASE p = h
      <4>1. j \in 1 .. Len(t.tab[h]) /\ j # i
        BY <1>2, <2>3, <3>2
      <4>2. DOMAIN u.tab[h] = 1 .. Len(t.tab[h]) - 1
        BY <1>2, <1>4, Shape, SMTT(30)
      <4>3. CASE j < i
        <5>1. j \in DOMAIN u.tab[h]
          BY <1>2, <4>1, <4>2, <4>3
        <5>2. u.tab[h][j] = t.tab[h][j]
          BY <1>4, <4>2, <4>3, <5>1
        <5> QED BY <3>1, <3>2, <5>1, <5>2
      <4>4. CASE j > i
        <5>1. j - 1 \in DOMAIN u.tab[h] /\ (j - 1) + 1 = j /\ ~(j - 1 < i)
          BY <1>2, <4>1, <4>2, <4>4
        <5>2. u.tab[h][j - 1] = t.tab[h][j]
          BY <1>4, <4>2, <5>1
        <5> QED BY <3>1, <3>2, <5>1, <5>2
      <4> QED BY <1>2, <4>1, <4>3, <4>4
    <3>3. CASE p # h
      BY <1>4, <3>1, <3>3
    <3> QED BY <3>2, <3>3
  <2>4. KeysOf(t) \ {t.tab[h][i].key} \subseteq KeysOf(u)
    <3> SUFFICES ASSUME NEW key \in KeysOf(t), key # t.tab[h][i].key PROVE key \in KeysOf(u)
      OBVIOUS
    <3>1. key \in Key /\ \E p \in DOMAIN t.tab : \E j \in DOMAIN t.tab[p] : t.tab[p][j].key = key
      BY DEF KeysOf
    <3>2. PICK p \in DOMAIN t.tab : \E j \in DOMAIN t.tab[p] : t.tab[p][j].key = key
      BY <3>1
    <3>3. PICK j \in DOMAIN t.tab[p] : t.tab[p][j].key = key
      BY <3>2
    <3>4. p \in DOMAIN u.tab /\ \E k \in DOMAIN u.tab[p] : u.tab[p][k] = t.tab[p][j]
      BY <2>3, <3>3
    <3> QED BY <3>1, <3>3, <3>4 DEF KeysOf
  <2> QED BY <2>1, <2>2, <2>4
<1>10. Counted(u)
  <2>1. Nodes(u) = Nodes(t) \ {<<h, Len(t.tab[h])>>}
    <3>1. DOMAIN u.tab = DOMAIN t.tab
      BY <1>2, <1>4, Shape
    <3>2. DOMAIN u.tab[h] = DOMAIN t.tab[h] \ {Len(t.tab[h])}
      <4>1. /\ DOMAIN u.tab[h] = 1 .. Len(t.tab[h]) - 1
            /\ DOMAIN t.tab[h] = 1 .. Len(t.tab[h])
        BY <1>2, <1>4, Shape
      <4> QED BY <1>2, <4>1
    <3>3. \A p \in DOMAIN t.tab : p # h => DOMAIN u.tab[p] = DOMAIN t.tab[p]
      BY <1>2, <1>4
    <3> QED BY <3>1, <3>2, <3>3 DEF Nodes
  <2>2. <<h, Len(t.tab[h])>> \in Nodes(t)
    <3>1. Len(t.tab[h]) \in DOMAIN t.tab[h]
      BY <1>2
    <3> QED BY <3>1 DEF Nodes
  <2>3. Cardinality(Nodes(u)) = Cardinality(Nodes(t)) - 1
    <3>1. IsFiniteSet(Nodes(t))
      BY <1>1, FiniteNodes
    <3> DEFINE last == <<h, Len(t.tab[h])>>
    <3> HIDE DEF last
    <3>2. Cardinality(Nodes(t) \ {last})
            = IF last \in Nodes(t) THEN Cardinality(Nodes(t)) - 1 ELSE Cardinality(Nodes(t))
      BY <3>1, FS_RemoveElement
    <3> QED BY <2>1, <2>2, <3>2 DEF last
  <2> QED BY <1>1, <1>4, <2>3 DEF Counted
<1> QED BY <1>1, <1>3, <1>4, <1>7, <1>8, <1>9, <1>10 DEF WellFormed

-----------------------------------------------------------------------------
(* Writing to a node, h_lookup, and the tables without a node *)

\* Giving a node another value keeps the table well formed, and its keys.
LEMMA WriteKeeps ==
  ASSUME NEW t, WellFormed(t),
         NEW h \in DOMAIN t.tab, NEW i \in DOMAIN t.tab[h],
         NEW e \in Entry, e.key = t.tab[h][i].key,
         NEW u, u = [t EXCEPT !.tab[h][i] = e]
  PROVE  /\ WellFormed(u) /\ KeysOf(u) = KeysOf(t)
         /\ u.mask = t.mask /\ u.size = t.size
         /\ \A p \in DOMAIN t.tab : t.tab[p] = << >> => u.tab[p] = << >>
<1>1. HTabType(t) /\ Unique(t) /\ Placed(t) /\ Counted(t)
  BY DEF WellFormed
<1>2. /\ h \in 0 .. t.mask /\ i \in 1 .. Len(t.tab[h])
      /\ DOMAIN t.tab = 0 .. t.mask
      /\ \A p \in 0 .. t.mask : t.tab[p] \in Seq(Entry)
      /\ t.mask \in Nat /\ t.size \in Nat
  BY <1>1, Shape
<1>3. u = [tab |-> [t.tab EXCEPT ![h] = [t.tab[h] EXCEPT ![i] = e]],
           mask |-> t.mask, size |-> t.size]
  BY <1>1 DEF HTabType
<1>4. [t.tab[h] EXCEPT ![i] = e] \in Seq(Entry)
  BY <1>2, ExceptSeq
<1>5. /\ DOMAIN u.tab = DOMAIN t.tab
      /\ u.mask = t.mask /\ u.size = t.size
      /\ \A p \in DOMAIN t.tab : DOMAIN u.tab[p] = DOMAIN t.tab[p]
      /\ \A p \in DOMAIN t.tab : \A j \in DOMAIN t.tab[p] :
           u.tab[p][j] = IF p = h /\ j = i THEN e ELSE t.tab[p][j]
  BY <1>1, <1>2, <1>3 DEF HTabType
<1>6. HTabType(u)
  <2>1. u.tab \in [0 .. t.mask -> Seq(Entry)]
    BY <1>1, <1>2, <1>3, <1>4 DEF HTabType
  <2>2. u \in [tab: [0 .. t.mask -> Seq(Entry)], mask: Nat, size: Nat]
    BY <1>2, <1>3, <2>1
  <2> QED BY <1>5, <2>2 DEF HTabType
<1>7. \A p \in DOMAIN t.tab : \A j \in DOMAIN t.tab[p] :
        u.tab[p][j].key = t.tab[p][j].key
  BY <1>5
<1>8. Unique(u)
  BY <1>1, <1>5, <1>7 DEF Unique
<1>9. Placed(u)
  BY <1>1, <1>5, <1>7 DEF Placed, get_pos
<1>10. KeysOf(u) = KeysOf(t)
  BY <1>5, <1>7 DEF KeysOf
<1>11. Nodes(u) = Nodes(t)
  BY <1>5 DEF Nodes
<1>12. Counted(u)
  BY <1>1, <1>5, <1>11 DEF Counted
<1>13. ASSUME NEW p \in DOMAIN t.tab, t.tab[p] = << >> PROVE u.tab[p] = << >>
  <2>1. p # h
    BY <1>2, <1>13
  <2> QED BY <1>2, <1>3, <1>13, <2>1
<1> QED BY <1>5, <1>6, <1>8, <1>9, <1>10, <1>12, <1>13 DEF WellFormed

\* h_lookup finds a key exactly if some node of the table holds it, and stops
\* at such a node.
LEMMA LookupFinds ==
  ASSUME NEW t, WellFormed(t), NEW k \in Key
  PROVE  /\ Found(t, k) <=> k \in KeysOf(t)
         /\ Found(t, k) =>
              /\ get_pos(t, k) \in DOMAIN t.tab
              /\ h_lookup(t, k) \in DOMAIN t.tab[get_pos(t, k)]
              /\ t.tab[get_pos(t, k)][h_lookup(t, k)].key = k
<1> DEFINE h == get_pos(t, k)
           chain == t.tab[h]
<1>1. HTabType(t) /\ Unique(t) /\ Placed(t)
  BY DEF WellFormed
<1>2. h \in 0 .. t.mask
  BY <1>1, HashAssumption DEF HTabType, get_pos
<1>3. DOMAIN t.tab = 0 .. t.mask /\ Allocated(t)
  BY <1>1, <1>2, Shape DEF Allocated
<1>4. Found(t, k) <=> k \in KeysOf(t)
  BY <1>1, <1>2, <1>3 DEF Found, KeysOf, Placed
<1>5. ASSUME Found(t, k)
      PROVE  h_lookup(t, k) \in DOMAIN chain /\ chain[h_lookup(t, k)].key = k
  <2>1. PICK i \in DOMAIN chain : chain[i].key = k
    BY <1>5 DEF Found
  <2>2. i \in Nat /\ DOMAIN chain = 1 .. Len(chain) /\ Len(chain) \in Nat
    BY <1>1, <1>2, Shape
  <2>3. \A j \in 1 .. i - 1 : chain[j].key # k
    <3> SUFFICES ASSUME NEW j \in 1 .. i - 1, chain[j].key = k PROVE FALSE
      OBVIOUS
    <3>1. j \in DOMAIN chain /\ j # i
      BY <2>2
    <3> QED BY <1>1, <1>2, <1>3, <2>1, <3>1 DEF Unique
  <2> HIDE DEF chain
  <2> QED BY <2>1, <2>3 DEF h_lookup, chain
<1> QED BY <1>2, <1>3, <1>4, <1>5

\* A table made by HTab(n) is well formed and holds nothing.
LEMMA FreshTable ==
  ASSUME NEW n \in Nat \ {0}, NEW u, u = NewHTab(n)
  PROVE  /\ WellFormed(u) /\ KeysOf(u) = {}
         /\ u.mask = n - 1 /\ u.size = 0
<1>1. /\ u.tab = [pos \in 0 .. n - 1 |-> << >>]
      /\ u.mask = n - 1 /\ u.size = 0
      /\ u = [tab |-> [pos \in 0 .. n - 1 |-> << >>], mask |-> n - 1, size |-> 0]
  BY DEF NewHTab
<1>2. HTabType(u)
  <2>1. u \in [tab: [0 .. n - 1 -> Seq(Entry)], mask: Nat, size: Nat]
    BY <1>1
  <2> QED BY <1>1, <2>1 DEF HTabType
<1>3. \A p \in DOMAIN u.tab : DOMAIN u.tab[p] = {}
  BY <1>1
<1>4. Unique(u) /\ Placed(u) /\ KeysOf(u) = {} /\ Nodes(u) = {}
  BY <1>3 DEF Unique, Placed, KeysOf, Nodes
<1>5. Counted(u)
  BY <1>1, <1>4, FS_EmptySet DEF Counted
<1> QED BY <1>1, <1>2, <1>4, <1>5 DEF WellFormed

\* No array, no node.
LEMMA NullTable ==
  /\ Unique(NullHTab) /\ Placed(NullHTab) /\ Counted(NullHTab)
  /\ KeysOf(NullHTab) = {} /\ NullHTab.size = 0 /\ DOMAIN NullHTab.tab = {}
<1>1. DOMAIN NullHTab.tab = {} /\ NullHTab.size = 0
  BY DEF NullHTab
<1>2. Nodes(NullHTab) = {}
  BY <1>1 DEF Nodes
<1> QED BY <1>1, <1>2, FS_EmptySet DEF Unique, Placed, Counted, KeysOf

-----------------------------------------------------------------------------
(* What a table says: its entries, whatever slots and places they are in.  *)

EntriesOf(t) == {e \in Entry : \E pos \in DOMAIN t.tab :
                                 \E i \in DOMAIN t.tab[pos] : t.tab[pos][i] = e}

\* The keys of a table are those of its entries, one each.
LEMMA KeysAndEntries ==
  ASSUME NEW t, WellFormed(t)
  PROVE  /\ \A k : k \in KeysOf(t) <=> \E e \in EntriesOf(t) : e.key = k
         /\ \A e, f \in EntriesOf(t) : e.key = f.key => e = f
<1>1. HTabType(t) /\ Unique(t)
  BY DEF WellFormed
<1>2. \A p \in DOMAIN t.tab : \A i \in DOMAIN t.tab[p] :
        t.tab[p][i] \in Entry /\ t.tab[p][i] \in EntriesOf(t)
  BY <1>1, Shape DEF EntriesOf
<1>3. \A e \in EntriesOf(t) : e.key \in Key
  BY DEF EntriesOf, Entry
<1>4. \A k : k \in KeysOf(t) <=> \E e \in EntriesOf(t) : e.key = k
  BY <1>2, <1>3 DEF EntriesOf, KeysOf
<1>5. \A e, f \in EntriesOf(t) : e.key = f.key => e = f
  BY <1>1 DEF EntriesOf, Unique
<1> QED BY <1>4, <1>5

\* h_lookup, if it finds the key, stops at the entry of that key.
LEMMA LookupEntry ==
  ASSUME NEW t, WellFormed(t), NEW k \in Key, Found(t, k)
  PROVE  /\ t.tab[get_pos(t, k)][h_lookup(t, k)] \in EntriesOf(t)
         /\ t.tab[get_pos(t, k)][h_lookup(t, k)].key = k
<1>1. /\ get_pos(t, k) \in DOMAIN t.tab
      /\ h_lookup(t, k) \in DOMAIN t.tab[get_pos(t, k)]
      /\ t.tab[get_pos(t, k)][h_lookup(t, k)].key = k
  BY LookupFinds
<1>2. t.tab[get_pos(t, k)][h_lookup(t, k)] \in Entry
  BY <1>1, Shape DEF WellFormed
<1> QED BY <1>1, <1>2 DEF EntriesOf

\* h_insert adds one entry.
LEMMA InsertEntries ==
  ASSUME NEW t, HTabType(t), NEW e \in Entry, NEW u, u = h_insert(t, e)
  PROVE  EntriesOf(u) = EntriesOf(t) \cup {e}
<1> DEFINE h == get_pos(t, e.key)
<1>1. IsInserted(t, e, u, h)
  BY Inserted
<1> HIDE DEF h
<1>2. /\ HTabType(u) /\ u.mask = t.mask /\ h \in 0 .. t.mask
      /\ Len(u.tab[h]) = Len(t.tab[h]) + 1
      /\ u.tab[h][1] = e
      /\ \A k \in 1 .. Len(t.tab[h]) : u.tab[h][k + 1] = t.tab[h][k]
      /\ \A q \in 0 .. t.mask : q # h => u.tab[q] = t.tab[q]
  BY <1>1 DEF IsInserted
<1>3. ASSUME NEW p \in DOMAIN u.tab, NEW i \in DOMAIN u.tab[p]
      PROVE  u.tab[p][i] = e \/ (p \in DOMAIN t.tab
                                 /\ \E j \in DOMAIN t.tab[p] : t.tab[p][j] = u.tab[p][i])
  BY <1>1, InsertedNodes
<1>4. h \in DOMAIN u.tab /\ 1 \in DOMAIN u.tab[h]
  BY <1>2, Shape
<1>5. ASSUME NEW p \in DOMAIN t.tab, NEW i \in DOMAIN t.tab[p]
      PROVE  p \in DOMAIN u.tab /\ \E j \in DOMAIN u.tab[p] : u.tab[p][j] = t.tab[p][i]
  <2>1. p \in 0 .. t.mask /\ DOMAIN u.tab = 0 .. t.mask
    BY <1>2, Shape
  <2>2. CASE p = h
    <3>1. i \in 1 .. Len(t.tab[h]) /\ Len(t.tab[h]) \in Nat
      BY <2>1, <2>2, Shape
    <3>2. i + 1 \in DOMAIN u.tab[h]
      BY <1>2, <3>1, Shape
    <3> QED BY <1>2, <2>1, <2>2, <3>1, <3>2
  <2>3. CASE p # h
    BY <1>2, <2>1, <2>3
  <2> QED BY <2>2, <2>3
<1> QED BY <1>2, <1>3, <1>4, <1>5 DEF EntriesOf

\* h_detach takes one entry away.
LEMMA DetachEntries ==
  ASSUME NEW t, WellFormed(t),
         NEW h \in DOMAIN t.tab, NEW i \in DOMAIN t.tab[h],
         NEW u, u = h_detach(t, h, i)
  PROVE  EntriesOf(u) = EntriesOf(t) \ {t.tab[h][i]}
<1>1. /\ HTabType(t) /\ WellFormed(u) /\ IsDetached(t, h, i, u)
      /\ KeysOf(u) = KeysOf(t) \ {t.tab[h][i].key}
  BY DetachKeeps DEF WellFormed
<1>2. /\ \A k : k \in KeysOf(t) <=> \E e \in EntriesOf(t) : e.key = k
      /\ \A k : k \in KeysOf(u) <=> \E e \in EntriesOf(u) : e.key = k
      /\ \A e, f \in EntriesOf(t) : e.key = f.key => e = f
  BY <1>1, KeysAndEntries
<1>3. h \in 0 .. t.mask /\ i \in 1 .. Len(t.tab[h])
  BY <1>1, Shape
<1>4. ASSUME NEW p \in DOMAIN u.tab, NEW j \in DOMAIN u.tab[p]
      PROVE  p \in DOMAIN t.tab /\ \E k \in DOMAIN t.tab[p] : t.tab[p][k] = u.tab[p][j]
  <2>1. IsLeftBy(t, h, i, u, p, j)
    BY <1>1, <1>3, DetachedNodes
  <2> QED BY <2>1 DEF IsLeftBy
<1>5. EntriesOf(u) \subseteq EntriesOf(t)
  BY <1>4 DEF EntriesOf
<1>6. t.tab[h][i] \in EntriesOf(t)
  BY <1>1, <1>3, Shape DEF EntriesOf
<1> QED BY <1>1, <1>2, <1>5, <1>6

\* Writing to a node replaces its entry.
LEMMA WriteEntries ==
  ASSUME NEW t, WellFormed(t),
         NEW h \in DOMAIN t.tab, NEW i \in DOMAIN t.tab[h],
         NEW e \in Entry, e.key = t.tab[h][i].key,
         NEW u, u = [t EXCEPT !.tab[h][i] = e]
  PROVE  EntriesOf(u) = (EntriesOf(t) \ {t.tab[h][i]}) \cup {e}
<1>1. HTabType(t) /\ Unique(t)
  BY DEF WellFormed
<1>2. /\ h \in 0 .. t.mask /\ i \in 1 .. Len(t.tab[h])
      /\ DOMAIN t.tab = 0 .. t.mask
      /\ \A p \in 0 .. t.mask : t.tab[p] \in Seq(Entry)
  BY <1>1, Shape
<1>3. u = [tab |-> [t.tab EXCEPT ![h] = [t.tab[h] EXCEPT ![i] = e]],
           mask |-> t.mask, size |-> t.size]
  BY <1>1 DEF HTabType
<1>4. /\ DOMAIN u.tab = DOMAIN t.tab
      /\ \A p \in DOMAIN t.tab : DOMAIN u.tab[p] = DOMAIN t.tab[p]
      /\ \A p \in DOMAIN t.tab : \A j \in DOMAIN t.tab[p] :
           u.tab[p][j] = IF p = h /\ j = i THEN e ELSE t.tab[p][j]
  BY <1>1, <1>2, <1>3 DEF HTabType
<1>5. \A p \in DOMAIN t.tab : \A j \in DOMAIN t.tab[p] :
        t.tab[p][j] = t.tab[h][i] => p = h /\ j = i
  BY <1>1 DEF Unique
<1>6. ASSUME NEW x \in Entry
      PROVE  x \in EntriesOf(u) <=> x = e \/ (x \in EntriesOf(t) /\ x # t.tab[h][i])
  <2>1. x \in EntriesOf(u) <=>
          \E p \in DOMAIN t.tab : \E j \in DOMAIN t.tab[p] : u.tab[p][j] = x
    BY <1>4, <1>6 DEF EntriesOf
  <2>2. x \in EntriesOf(t) <=>
          \E p \in DOMAIN t.tab : \E j \in DOMAIN t.tab[p] : t.tab[p][j] = x
    BY <1>6 DEF EntriesOf
  <2> QED BY <1>4, <1>5, <2>1, <2>2
<1> QED BY <1>6 DEF EntriesOf

\* A new table, and no table, has no entry.
LEMMA NoEntries ==
  /\ \A n \in Nat \ {0} : EntriesOf(NewHTab(n)) = {}
  /\ EntriesOf(NullHTab) = {}
<1>1. ASSUME NEW n \in Nat \ {0} PROVE EntriesOf(NewHTab(n)) = {}
  BY DEF EntriesOf, NewHTab
<1>2. EntriesOf(NullHTab) = {}
  BY DEF EntriesOf, NullHTab
<1> QED BY <1>1, <1>2

-----------------------------------------------------------------------------
(* The inductive invariant *)

\* Where ret can lead, and what a finished round of migration leaves: nodes to
\* move or no old table.
ControlOK ==
  /\ pc = "find" => ret = "find"
  /\ ret = "done" => op = "set"
  /\ pc = "find" => oldTab.size > 0 \/ oldTab = NullHTab

\* What is in the two tables.
TablesOK ==
  /\ WellFormed(newTab)
  /\ oldTab = NullHTab \/ WellFormed(oldTab)
  /\ KeysOf(newTab) \cap KeysOf(oldTab) = {}

\* The slots behind the cursor are empty.
CursorOK ==
  \A pos \in DOMAIN oldTab.tab : pos < migrate_pos => oldTab.tab[pos] = << >>

\* A node counts once for the new table and twice for the old one, where it
\* still has to be moved from.
Load  == newTab.size + 2 * oldTab.size
Limit == (newTab.mask + 1) * k_max_load_factor

\* Below the limit; at it only between hm_insert and the first node that its
\* round of migration moves.
LoadOK ==
  /\ Load <= Limit
  /\ Load = Limit => pc = "help" /\ nwork = 0 /\ oldTab.size > 0

IInv == TypeOK /\ ControlOK /\ TablesOK /\ CursorOK /\ LoadOK
-----------------------------------------------------------------------------
\* An HMap that has just been constructed.
LEMMA InitHolds == Init => IInv
<1> SUFFICES ASSUME Init PROVE IInv
  OBVIOUS
<1> USE DEF Init
<1>1. /\ WellFormed(newTab) /\ KeysOf(newTab) = {}
      /\ newTab.mask = init_size - 1 /\ newTab.size = 0
  BY FreshTable, SizeAssumption
<1>2. oldTab.size = 0 /\ DOMAIN oldTab.tab = {} /\ KeysOf(oldTab) = {}
  BY NullTable
<1>3. TablesOK
  BY <1>1, <1>2 DEF TablesOK
<1>4. TypeOK
  BY <1>1, ValueAssumption, WorkAssumption DEF TypeOK, WellFormed, Op
<1>5. LoadOK
  <2>1. Limit = init_size * k_max_load_factor /\ Load = 0
    BY <1>1, <1>2, SizeAssumption DEF Limit, Load
  <2>2. init_size * k_max_load_factor > 0
    BY SizeAssumption, LoadAssumption
  <2> QED BY <2>1, <2>2, SizeAssumption, LoadAssumption DEF LoadOK
<1>6. ControlOK /\ CursorOK
  BY <1>2 DEF ControlOK, CursorOK
<1> QED BY <1>3, <1>4, <1>5, <1>6 DEF IInv

\* The types, spelled out for the steps that follow.
LEMMA Facts ==
  ASSUME IInv
  PROVE  /\ HTabType(newTab) /\ WellFormed(newTab)
         /\ oldTab = NullHTab \/ (HTabType(oldTab) /\ WellFormed(oldTab))
         /\ newTab.mask \in Nat /\ newTab.size \in Nat /\ oldTab.size \in Nat
         /\ migrate_pos \in Nat
         /\ k_rehashing_work \in Nat \ {0} /\ nwork \in 0 .. k_rehashing_work
         /\ k_max_load_factor \in Nat \ {0}
         /\ Limit \in Nat /\ Load \in Nat
<1>1. newTab.mask \in Nat /\ newTab.size \in Nat
  BY Shape DEF IInv, TypeOK
<1>2. oldTab.size \in Nat
  BY Shape, NullTable DEF IInv, TypeOK
<1> QED BY <1>1, <1>2, WorkAssumption, LoadAssumption
        DEF IInv, TypeOK, TablesOK, WellFormed, Limit, Load

\* A command that begins touches no table; only nwork starts again.
LEMMA CallStep ==
  ASSUME IInv, NEW o \in Op, NEW k \in Key, NEW v \in Value, Call(o, k, v)
  PROVE  IInv'
<1> USE DEF Call, tables
<1>1. TypeOK'
  BY Facts DEF IInv, TypeOK, Entry
<1>2. ControlOK' /\ TablesOK' /\ CursorOK'
  BY DEF IInv, ControlOK, TablesOK, CursorOK
<1>3. LoadOK'
  BY DEF IInv, LoadOK, Load, Limit
<1> QED BY <1>1, <1>2, <1>3 DEF IInv

\* hm_help_rehashing skips a slot: it is empty, so every node of the old table is
\* still at the cursor or behind it.
LEMMA SkipEmptySlotStep ==
  ASSUME IInv, SkipEmptySlot
  PROVE  IInv'
<1> USE DEF SkipEmptySlot, call
<1>1. TypeOK'
  BY Facts DEF IInv, TypeOK
<1>2. ControlOK' /\ TablesOK'
  BY DEF IInv, ControlOK, TablesOK
<1>3. CursorOK'
  <2> SUFFICES ASSUME NEW pos \in DOMAIN oldTab.tab, pos < migrate_pos + 1
               PROVE  oldTab.tab[pos] = << >>
    BY DEF CursorOK
  <2>1. pos \in Nat
    BY Facts, Shape, NullTable
  <2> QED BY <2>1, Facts DEF IInv, CursorOK
<1>4. LoadOK'
  BY DEF IInv, LoadOK, Load, Limit
<1> QED BY <1>1, <1>2, <1>3, <1>4 DEF IInv

\* While a node is left in the old table the cursor is inside its array.
LEMMA CursorInside ==
  ASSUME IInv, oldTab.size > 0
  PROVE  /\ WellFormed(oldTab)
         /\ migrate_pos \in DOMAIN oldTab.tab
<1>1. WellFormed(oldTab) /\ HTabType(oldTab) /\ Counted(oldTab)
  BY Facts, NullTable DEF WellFormed
<1>2. PICK p \in DOMAIN oldTab.tab : \E i \in DOMAIN oldTab.tab[p] : TRUE
  BY <1>1, CountedNode
<1>3. DOMAIN oldTab.tab = 0 .. oldTab.mask /\ oldTab.mask \in Nat
  BY <1>1, Shape
<1>4. oldTab.tab[p] # << >>
  BY <1>2
<1>5. ~(p < migrate_pos)
  BY <1>4 DEF IInv, CursorOK
<1> QED BY <1>1, <1>3, <1>5, Facts

\* hm_help_rehashing moves a node: one table loses the key that the other gains.
LEMMA MoveHeadStep ==
  ASSUME IInv, MoveHead
  PROVE  IInv'
<1> DEFINE chain == oldTab.tab[migrate_pos]
           e == Head(chain)
<1>1. /\ oldTab.size > 0 /\ nwork < k_rehashing_work /\ chain # << >> /\ pc = "help"
      /\ newTab' = h_insert(newTab, e)
      /\ oldTab' = h_detach(oldTab, migrate_pos, 1)
      /\ nwork' = nwork + 1
      /\ UNCHANGED <<migrate_pos, pc, ret, op, arg, resp>>
  BY DEF MoveHead, MoreWork, call
<1>2. WellFormed(oldTab) /\ HTabType(oldTab) /\ migrate_pos \in DOMAIN oldTab.tab
  BY <1>1, CursorInside DEF WellFormed
<1>3. /\ chain \in Seq(Entry) /\ 1 \in DOMAIN chain
      /\ e \in Entry /\ e = chain[1]
  BY <1>1, <1>2, Shape
<1>4. e.key \in Key /\ e.key \in KeysOf(oldTab)
  BY <1>2, <1>3 DEF KeysOf, Entry
<1>5. e.key \notin KeysOf(newTab)
  BY <1>4 DEF IInv, TablesOK
<1> HIDE DEF e, chain
<1>6. /\ WellFormed(newTab') /\ KeysOf(newTab') = KeysOf(newTab) \cup {e.key}
      /\ newTab'.mask = newTab.mask /\ newTab'.size = newTab.size + 1
  <2>1. WellFormed(newTab)
    BY Facts
  <2> QED BY <1>1, <1>3, <1>5, <2>1, InsertKeeps
<1>7. /\ WellFormed(oldTab') /\ KeysOf(oldTab') = KeysOf(oldTab) \ {e.key}
      /\ IsDetached(oldTab, migrate_pos, 1, oldTab')
  BY <1>1, <1>2, <1>3, DetachKeeps DEF chain
<1>8. /\ oldTab'.mask = oldTab.mask /\ oldTab'.size = oldTab.size - 1
      /\ \A p \in 0 .. oldTab.mask : p # migrate_pos => oldTab'.tab[p] = oldTab.tab[p]
  BY <1>7 DEF IsDetached
<1>9. TablesOK'
  BY <1>6, <1>7 DEF IInv, TablesOK
<1>10. TypeOK'
  BY <1>1, <1>6, <1>7, Facts DEF IInv, TypeOK, WellFormed
<1>11. ControlOK'
  BY <1>1 DEF IInv, ControlOK
<1>12. CursorOK'
  <2> SUFFICES ASSUME NEW pos \in DOMAIN oldTab'.tab, pos < migrate_pos
               PROVE  oldTab'.tab[pos] = << >>
    BY <1>1 DEF CursorOK
  <2>1. pos \in 0 .. oldTab.mask /\ pos \in DOMAIN oldTab.tab
    BY <1>2, <1>7, <1>8, Shape DEF WellFormed
  <2>2. pos # migrate_pos
    BY <2>1, Facts
  <2> QED BY <1>8, <2>1, <2>2 DEF IInv, CursorOK
<1>13. LoadOK'
  <2>1. Load' = Load - 1 /\ Limit' = Limit
    BY <1>6, <1>8, Facts DEF Load, Limit
  <2> QED BY <2>1, Facts DEF IInv, LoadOK
<1> QED BY <1>9, <1>10, <1>11, <1>12, <1>13 DEF IInv

\* hm_help_rehashing returns: an old table that counts zero has no node to lose.
LEMMA HelpReturnsStep ==
  ASSUME IInv, HelpReturns
  PROVE  IInv'
<1>1. /\ pc = "help" /\ ~(nwork < k_rehashing_work /\ oldTab.size > 0)
      /\ oldTab' = IF oldTab.size = 0 /\ Allocated(oldTab) THEN NullHTab ELSE oldTab
      /\ pc' = ret
      /\ UNCHANGED <<newTab, migrate_pos, nwork, ret, op, arg, resp>>
  BY DEF HelpReturns, MoreWork, call
<1>2. oldTab' = NullHTab \/ (oldTab' = oldTab /\ oldTab.size > 0)
  <2>1. CASE oldTab = NullHTab
    BY <1>1, <2>1
  <2>2. CASE HTabType(oldTab)
    <3>1. 0 \in DOMAIN oldTab.tab /\ oldTab.size \in Nat
      BY <2>2, Shape
    <3>2. Allocated(oldTab)
      BY <3>1 DEF Allocated
    <3> QED BY <1>1, <3>1, <3>2
  <2> QED BY <2>1, <2>2, Facts
<1>3. TablesOK'
  BY <1>1, <1>2, NullTable DEF IInv, TablesOK
<1>4. TypeOK'
  BY <1>1, <1>2, Facts DEF IInv, TypeOK
<1>5. ControlOK'
  BY <1>1, <1>2 DEF IInv, ControlOK, TypeOK
<1>6. CursorOK'
  BY <1>1, <1>2, NullTable DEF IInv, CursorOK
<1>7. LoadOK'
  <2>1. Load # Limit
    BY <1>1, Facts DEF IInv, LoadOK
  <2>2. Load' <= Load /\ Limit' = Limit /\ Load' \in Nat
    BY <1>1, <1>2, NullTable, Facts DEF Load, Limit
  <2> QED BY <2>1, <2>2, Facts DEF IInv, LoadOK
<1> QED BY <1>3, <1>4, <1>5, <1>6, <1>7 DEF IInv

\* What the lookups of the two tables say about the key of the command.
LEMMA Lookups ==
  ASSUME IInv
  PROVE  /\ arg \in Entry /\ arg.key \in Key
         /\ Found(newTab, arg.key) <=> arg.key \in KeysOf(newTab)
         /\ Found(oldTab, arg.key) <=> arg.key \in KeysOf(oldTab)
         /\ \A t \in {newTab, oldTab} : Found(t, arg.key) =>
              /\ WellFormed(t)
              /\ get_pos(t, arg.key) \in DOMAIN t.tab
              /\ h_lookup(t, arg.key) \in DOMAIN t.tab[get_pos(t, arg.key)]
              /\ t.tab[get_pos(t, arg.key)][h_lookup(t, arg.key)] \in Entry
              /\ t.tab[get_pos(t, arg.key)][h_lookup(t, arg.key)].key = arg.key
<1>1. arg \in Entry /\ arg.key \in Key
  BY DEF IInv, TypeOK, Entry
<1>2. ASSUME NEW t, WellFormed(t)
      PROVE  /\ Found(t, arg.key) <=> arg.key \in KeysOf(t)
             /\ Found(t, arg.key) =>
                  /\ get_pos(t, arg.key) \in DOMAIN t.tab
                  /\ h_lookup(t, arg.key) \in DOMAIN t.tab[get_pos(t, arg.key)]
                  /\ t.tab[get_pos(t, arg.key)][h_lookup(t, arg.key)] \in Entry
                  /\ t.tab[get_pos(t, arg.key)][h_lookup(t, arg.key)].key = arg.key
  <2>1. /\ Found(t, arg.key) <=> arg.key \in KeysOf(t)
        /\ Found(t, arg.key) =>
             /\ get_pos(t, arg.key) \in DOMAIN t.tab
             /\ h_lookup(t, arg.key) \in DOMAIN t.tab[get_pos(t, arg.key)]
             /\ t.tab[get_pos(t, arg.key)][h_lookup(t, arg.key)].key = arg.key
    BY <1>1, <1>2, LookupFinds
  <2>2. HTabType(t)
    BY <1>2 DEF WellFormed
  <2> QED BY <2>1, <2>2, Shape
<1>3. ~Found(NullHTab, arg.key) /\ KeysOf(NullHTab) = {}
  BY NullTable DEF Found, Allocated
<1> QED BY <1>1, <1>2, <1>3, Facts

\* get changes no table; what it answers is a value of the map, or the empty one.
LEMMA GetStep ==
  ASSUME IInv, Get
  PROVE  IInv'
<1>1. /\ pc = "find" /\ pc' = "done"
      /\ UNCHANGED <<newTab, oldTab, migrate_pos, nwork, ret, op, arg>>
  BY DEF Get, tables, call
<1>2. resp' \in Value
  <2> DEFINE node(t) == t.tab[get_pos(t, arg.key)][h_lookup(t, arg.key)]
  <2>1. \A t \in {newTab, oldTab} : Found(t, arg.key) => node(t).value \in Value
    BY Lookups DEF Entry
  <2> QED BY <2>1, ValueAssumption DEF Get
<1>3. TypeOK'
  BY <1>1, <1>2, Facts DEF IInv, TypeOK
<1>4. ControlOK' /\ TablesOK' /\ CursorOK'
  BY <1>1 DEF IInv, ControlOK, TablesOK, CursorOK
<1>5. LoadOK'
  BY <1>1 DEF IInv, LoadOK, Load, Limit
<1> QED BY <1>3, <1>4, <1>5 DEF IInv

\* set writes a value into the node it found and links nothing.
LEMMA SetExistingStep ==
  ASSUME IInv, SetExisting
  PROVE  IInv'
<1>1. /\ pc = "find" /\ op = "set" /\ pc' = "done" /\ resp' = TRUE
      /\ UNCHANGED <<migrate_pos, nwork, ret, op, arg>>
  BY DEF SetExisting, call
<1>2. ASSUME NEW t \in {newTab, oldTab}, Found(t, arg.key),
             NEW u, u = Update(t, arg)
      PROVE  /\ WellFormed(u) /\ KeysOf(u) = KeysOf(t)
             /\ u.mask = t.mask /\ u.size = t.size
             /\ DOMAIN u.tab = DOMAIN t.tab
             /\ \A p \in DOMAIN t.tab : t.tab[p] = << >> => u.tab[p] = << >>
  <2> DEFINE h == get_pos(t, arg.key)
             i == h_lookup(t, arg.key)
  <2>1. /\ WellFormed(t) /\ h \in DOMAIN t.tab /\ i \in DOMAIN t.tab[h]
        /\ arg \in Entry /\ arg.key = t.tab[h][i].key
    BY <1>2, Lookups
  <2>2. u = [t EXCEPT !.tab[h][i] = arg]
    BY <1>2 DEF Update
  <2> HIDE DEF h, i
  <2>3. /\ WellFormed(u) /\ KeysOf(u) = KeysOf(t)
        /\ u.mask = t.mask /\ u.size = t.size
        /\ \A p \in DOMAIN t.tab : t.tab[p] = << >> => u.tab[p] = << >>
    BY <2>1, <2>2, WriteKeeps
  <2>4. HTabType(u) /\ HTabType(t)
    BY <2>1, <2>3 DEF WellFormed
  <2>5. DOMAIN u.tab = DOMAIN t.tab
    BY <2>3, <2>4, Shape
  <2> QED BY <2>3, <2>5
<1>3. /\ WellFormed(newTab') /\ KeysOf(newTab') = KeysOf(newTab)
      /\ newTab'.mask = newTab.mask /\ newTab'.size = newTab.size
  <2>1. CASE Found(newTab, arg.key)
    BY <2>1, <1>2 DEF SetExisting
  <2>2. CASE ~Found(newTab, arg.key)
    BY <2>2, Facts DEF SetExisting
  <2> QED BY <2>1, <2>2
<1>4. /\ oldTab' = oldTab \/ WellFormed(oldTab')
      /\ KeysOf(oldTab') = KeysOf(oldTab)
      /\ oldTab'.size = oldTab.size
      /\ DOMAIN oldTab'.tab = DOMAIN oldTab.tab
      /\ \A p \in DOMAIN oldTab.tab : oldTab.tab[p] = << >> => oldTab'.tab[p] = << >>
  <2>1. CASE Found(newTab, arg.key)
    BY <2>1 DEF SetExisting
  <2>2. CASE ~Found(newTab, arg.key)
    BY <2>2, <1>2 DEF SetExisting
  <2> QED BY <2>1, <2>2
<1>5. TablesOK'
  BY <1>3, <1>4, Facts DEF IInv, TablesOK
<1>6. TypeOK'
  BY <1>1, <1>3, <1>4, Facts DEF IInv, TypeOK, WellFormed
<1>7. ControlOK'
  BY <1>1 DEF IInv, ControlOK
<1>8. CursorOK'
  BY <1>1, <1>4 DEF IInv, CursorOK
<1>9. LoadOK'
  <2>1. Load' = Load /\ Limit' = Limit
    BY <1>3, <1>4 DEF Load, Limit
  <2> QED BY <1>1, <2>1 DEF IInv, LoadOK
<1> QED BY <1>5, <1>6, <1>7, <1>8, <1>9 DEF IInv

\* hm_delete unlinks one node from the table in which it found the key.
LEMMA DelStep ==
  ASSUME IInv, Del
  PROVE  IInv'
<1>1. /\ pc = "find" /\ pc' = "done" /\ resp' \in BOOLEAN
      /\ UNCHANGED <<migrate_pos, nwork, ret, op, arg>>
  BY DEF Del, call
<1>2. ASSUME NEW t \in {newTab, oldTab}, Found(t, arg.key),
             NEW u, u = h_detach(t, get_pos(t, arg.key), h_lookup(t, arg.key))
      PROVE  /\ WellFormed(u) /\ KeysOf(u) \subseteq KeysOf(t)
             /\ u.mask = t.mask /\ u.size = t.size - 1
             /\ DOMAIN u.tab = DOMAIN t.tab
             /\ \A p \in DOMAIN t.tab : t.tab[p] = << >> => u.tab[p] = << >>
  <2> DEFINE h == get_pos(t, arg.key)
             i == h_lookup(t, arg.key)
  <2>1. /\ WellFormed(t) /\ h \in DOMAIN t.tab /\ i \in DOMAIN t.tab[h]
    BY <1>2, Lookups
  <2>2. u = h_detach(t, h, i)
    BY <1>2
  <2> HIDE DEF h, i
  <2>3. /\ WellFormed(u) /\ IsDetached(t, h, i, u)
        /\ KeysOf(u) = KeysOf(t) \ {t.tab[h][i].key}
    BY <2>1, <2>2, DetachKeeps
  <2>4. HTabType(u) /\ HTabType(t) /\ u.mask = t.mask
    BY <2>1, <2>3 DEF WellFormed, IsDetached
  <2>5. DOMAIN u.tab = DOMAIN t.tab /\ DOMAIN t.tab = 0 .. t.mask
    BY <2>4, Shape
  <2>6. ASSUME NEW p \in DOMAIN t.tab, t.tab[p] = << >> PROVE u.tab[p] = << >>
    <3>1. p # h
      BY <2>1, <2>6
    <3> QED BY <2>3, <2>5, <2>6, <3>1 DEF IsDetached
  <2> QED BY <2>3, <2>5, <2>6 DEF IsDetached
<1>3. /\ WellFormed(newTab') /\ KeysOf(newTab') \subseteq KeysOf(newTab)
      /\ newTab'.mask = newTab.mask
      /\ newTab'.size = newTab.size \/ newTab'.size = newTab.size - 1
  <2>1. CASE Found(newTab, arg.key)
    BY <2>1, <1>2 DEF Del
  <2>2. CASE ~Found(newTab, arg.key)
    BY <2>2, Facts DEF Del
  <2> QED BY <2>1, <2>2
<1>4. /\ oldTab' = oldTab \/ WellFormed(oldTab')
      /\ KeysOf(oldTab') \subseteq KeysOf(oldTab)
      /\ oldTab'.size = oldTab.size \/ oldTab'.size = oldTab.size - 1
      /\ DOMAIN oldTab'.tab = DOMAIN oldTab.tab
      /\ \A p \in DOMAIN oldTab.tab : oldTab.tab[p] = << >> => oldTab'.tab[p] = << >>
  <2>1. CASE oldTab' = oldTab
    BY <2>1
  <2>2. CASE ~Found(newTab, arg.key) /\ Found(oldTab, arg.key)
    BY <2>2, <1>2 DEF Del
  <2> QED BY <2>1, <2>2 DEF Del
<1>5. TablesOK'
  BY <1>3, <1>4, Facts DEF IInv, TablesOK
<1>6. TypeOK'
  BY <1>1, <1>3, <1>4, Facts DEF IInv, TypeOK, WellFormed
<1>7. ControlOK'
  BY <1>1 DEF IInv, ControlOK
<1>8. CursorOK'
  BY <1>1, <1>4 DEF IInv, CursorOK
<1>9. LoadOK'
  <2>1. newTab'.size \in Nat /\ oldTab'.size \in Nat
    BY <1>3, <1>4, Facts, Shape DEF WellFormed
  <2>2. Load' <= Load /\ Limit' = Limit /\ Load' \in Nat
    <3>1. newTab'.size <= newTab.size /\ oldTab'.size <= oldTab.size
      BY <1>3, <1>4, Facts
    <3>2. Limit' = Limit
      BY <1>3 DEF Limit
    <3> QED BY <2>1, <3>1, <3>2, Facts DEF Load
  <2>3. Load < Limit
    BY <1>1, Facts DEF IInv, LoadOK
  <2> QED BY <2>2, <2>3, Facts DEF LoadOK
<1> QED BY <1>5, <1>6, <1>7, <1>8, <1>9 DEF IInv

\* A command that ends changes no table.
LEMMA ReturnStep ==
  ASSUME IInv, Return
  PROVE  IInv'
<1> USE DEF Return, tables, call
<1>1. TypeOK'
  BY Facts DEF IInv, TypeOK
<1>2. ControlOK' /\ TablesOK' /\ CursorOK'
  BY DEF IInv, ControlOK, TablesOK, CursorOK
<1>3. LoadOK'
  BY DEF IInv, LoadOK, Load, Limit
<1> QED BY <1>1, <1>2, <1>3 DEF IInv

\* hm_insert of a key neither table holds.
LEMMA SetNewStep ==
  ASSUME IInv, SetNew
  PROVE  IInv'
<1> DEFINE inserted == h_insert(newTab, arg)
<1>1. /\ pc = "find" /\ op = "set"
      /\ ~Found(newTab, arg.key) /\ ~Found(oldTab, arg.key)
      /\ resp' = TRUE /\ nwork' = 0 /\ pc' = "help" /\ ret' = "done"
      /\ UNCHANGED <<op, arg>>
  BY DEF SetNew, call
<1>2. /\ IF ~Allocated(oldTab) /\ Overloaded(inserted)
         THEN hm_trigger_rehashing(inserted)
         ELSE newTab' = inserted /\ UNCHANGED <<oldTab, migrate_pos>>
  BY DEF SetNew
<1>3. arg \in Entry /\ arg.key \notin KeysOf(newTab) /\ arg.key \notin KeysOf(oldTab)
  BY <1>1, Lookups
<1>4. /\ WellFormed(inserted) /\ KeysOf(inserted) = KeysOf(newTab) \cup {arg.key}
      /\ inserted.mask = newTab.mask /\ inserted.size = newTab.size + 1
  BY <1>3, Facts, InsertKeeps
<1>5. Load < Limit
  BY <1>1, Facts DEF IInv, LoadOK
<1> HIDE DEF inserted
<1>6. CASE ~(~Allocated(oldTab) /\ Overloaded(inserted))
  <2>1. newTab' = inserted /\ oldTab' = oldTab /\ migrate_pos' = migrate_pos
    BY <1>2, <1>6
  <2>2. TablesOK'
    BY <1>3, <1>4, <2>1 DEF IInv, TablesOK
  <2>3. TypeOK'
    BY <1>1, <1>4, <2>1, Facts DEF IInv, TypeOK, WellFormed
  <2>4. ControlOK'
    BY <1>1, <2>1 DEF IInv, ControlOK
  <2>5. CursorOK'
    BY <2>1 DEF IInv, CursorOK
  <2>6. LoadOK'
    <3>1. Load' = Load + 1 /\ Limit' = Limit
      BY <1>4, <2>1, Facts DEF Load, Limit
    <3>2. CASE oldTab.size > 0
      BY <1>1, <1>5, <2>1, <3>1, <3>2, Facts DEF LoadOK
    <3>3. CASE oldTab = NullHTab
      <4>1. ~Allocated(oldTab) /\ oldTab.size = 0
        BY <3>3, NullTable DEF Allocated
      <4>2. ~(inserted.size >= Limit)
        BY <1>4, <1>6, <4>1 DEF Overloaded, Limit
      <4>3. Load' = inserted.size
        BY <1>4, <2>1, <4>1, Facts DEF Load
      <4> QED BY <1>4, <3>1, <4>2, <4>3, Facts DEF LoadOK
    <3> QED BY <1>1, <3>2, <3>3 DEF IInv, ControlOK
  <2> QED BY <2>2, <2>3, <2>4, <2>5, <2>6 DEF IInv
<1>7. CASE ~Allocated(oldTab) /\ Overloaded(inserted)
  <2> DEFINE n == 2 * (newTab.mask + 1)
  <2>1. oldTab' = inserted /\ newTab' = NewHTab(n) /\ migrate_pos' = 0
    BY <1>2, <1>4, <1>7 DEF hm_trigger_rehashing
  <2>2. n \in Nat \ {0}
    BY Facts
  <2>3. /\ WellFormed(newTab') /\ KeysOf(newTab') = {}
        /\ newTab'.mask = n - 1 /\ newTab'.size = 0
    <3> HIDE DEF n
    <3> QED BY <2>1, <2>2, FreshTable
  <2>4. TablesOK'
    BY <1>4, <2>1, <2>3 DEF TablesOK
  <2>5. TypeOK'
    BY <1>1, <1>4, <2>1, <2>3, Facts DEF IInv, TypeOK, WellFormed
  <2>6. ControlOK'
    BY <1>1 DEF IInv, ControlOK
  <2>7. CursorOK'
    <3>1. \A pos \in DOMAIN inserted.tab : ~(pos < 0)
      BY <1>4, Shape DEF WellFormed
    <3> QED BY <2>1, <3>1 DEF CursorOK
  <2>8. LoadOK'
    <3>1. oldTab.size = 0
      <4>1. oldTab = NullHTab
        <5> SUFFICES ASSUME HTabType(oldTab) PROVE FALSE
          BY Facts
        <5>1. 0 \in DOMAIN oldTab.tab
          BY Shape
        <5> QED BY <1>7, <5>1 DEF Allocated
      <4> QED BY <4>1, NullTable
    <3>2. inserted.size >= Limit
      BY <1>4, <1>7 DEF Overloaded, Limit
    <3>3. inserted.size = Limit /\ inserted.size > 0
      BY <1>4, <1>5, <3>1, <3>2, Facts DEF Load
    <3>4. Load' = 2 * inserted.size
      BY <2>1, <2>3, <3>3, Facts DEF Load
    <3>5. Limit' = 2 * Limit
      <4>1. Limit' = (2 * (newTab.mask + 1)) * k_max_load_factor
        BY <2>2, <2>3 DEF Limit
      <4>2. \A a, b \in Nat : (2 * a) * b = 2 * (a * b)
        OBVIOUS
      <4>3. newTab.mask + 1 \in Nat /\ k_max_load_factor \in Nat
        BY Facts
      <4> QED BY <4>1, <4>2, <4>3 DEF Limit
    <3> QED BY <1>1, <2>1, <3>3, <3>4, <3>5, Facts DEF LoadOK
  <2> QED BY <2>4, <2>5, <2>6, <2>7, <2>8 DEF IInv
<1> QED BY <1>6, <1>7

\* Every step of HMap keeps the inductive invariant.
LEMMA NextHolds == IInv /\ [Next]_vars => IInv'
<1> SUFFICES ASSUME IInv, [Next]_vars PROVE IInv'
  OBVIOUS
<1>1. ASSUME NEW o \in Op, NEW k \in Key, NEW v \in Value, Call(o, k, v) PROVE IInv'
  BY <1>1, CallStep
<1>2. CASE SkipEmptySlot
  BY <1>2, SkipEmptySlotStep
<1>3. CASE MoveHead
  BY <1>3, MoveHeadStep
<1>4. CASE HelpReturns
  BY <1>4, HelpReturnsStep
<1>5. CASE Get
  BY <1>5, GetStep
<1>6. CASE SetExisting
  BY <1>6, SetExistingStep
<1>7. CASE SetNew
  BY <1>7, SetNewStep
<1>8. CASE Del
  BY <1>8, DelStep
<1>9. CASE Return
  BY <1>9, ReturnStep
<1>10. CASE UNCHANGED vars
  BY <1>10 DEF vars, IInv, TypeOK, ControlOK, TablesOK, CursorOK, LoadOK, Load, Limit
<1> QED BY <1>1, <1>2, <1>3, <1>4, <1>5, <1>6, <1>7, <1>8, <1>9, <1>10
        DEF Next, Execute

\* The inductive invariant of HMap.
THEOREM InductiveInvariant == Spec => []IInv
  BY InitHolds, NextHolds, PTL DEF Spec

-----------------------------------------------------------------------------
\* Every variable of the map keeps its type: the sizes and the cursor never
\* underflow, both tables keep one chain per slot (class HTab, class HMap).
THEOREM TypeCorrect == Spec => []TypeOK
<1>1. IInv => TypeOK
  BY DEF IInv
<1> QED BY <1>1, InductiveInvariant, PTL

\* Whatever h_insert, h_detach and hm_help_rehashing have moved, no key is held
\* by two nodes, of one table or of the two.
THEOREM KeysAreUnique == Spec => []OnePlacePerKey
<1>1. IInv => OnePlacePerKey
  BY NullTable DEF IInv, TablesOK, WellFormed, OnePlacePerKey
<1> QED BY <1>1, InductiveInvariant, PTL

\* Every node is where h_lookup looks for its key, in both tables.
THEOREM NodesArePlaced == Spec => []InItsSlot
<1>1. IInv => InItsSlot
  BY NullTable DEF IInv, TablesOK, WellFormed, InItsSlot
<1> QED BY <1>1, InductiveInvariant, PTL

\* HTab::size counts the nodes of the table, so that hm_help_rehashing frees an
\* old table only when no node is left in it.
THEOREM SizesAreExact == Spec => []SizeIsExact
<1>1. IInv => SizeIsExact
  BY NullTable DEF IInv, TablesOK, WellFormed, SizeIsExact
<1> QED BY <1>1, InductiveInvariant, PTL

\* hm_help_rehashing never reads oldTab.data()[migrate_pos] outside the array.
THEOREM CursorInBounds == Spec => []MigrationInBounds
<1>1. IInv => MigrationInBounds
  BY CursorInside DEF IInv, CursorOK, MigrationInBounds
<1> QED BY <1>1, InductiveInvariant, PTL

\* Between commands the new table has room for everything still in the old one
\* and as much again, whatever the load factor, the initial size and the number
\* of nodes moved per round are.
THEOREM LoadStaysBounded == Spec => []LoadBounded
<1>1. IInv => LoadBounded
  <2> SUFFICES ASSUME IInv, pc = "idle" PROVE Load < Limit
    BY DEF LoadBounded, Load, Limit
  <2> QED BY Facts DEF IInv, LoadOK
<1> QED BY <1>1, InductiveInvariant, PTL

-----------------------------------------------------------------------------
(* HMap implements KVMap.  What the two tables say together is Entries, a  *)
(* set with at most one entry per key; store is that set read as a         *)
(* function.  A step is a step of KVMap if it does to Entries what KVMap   *)
(* does to its store, and stutters if it leaves Entries alone.             *)

Entries == EntriesOf(newTab) \cup EntriesOf(oldTab)

\* The keys of the two tables are those of the entries, one each.
LEMMA EntriesFacts ==
  ASSUME IInv
  PROVE  /\ Entries \subseteq Entry
         /\ \A e, f \in Entries : e.key = f.key => e = f
         /\ \A k \in Key : Found(newTab, k) \/ Found(oldTab, k)
                             <=> \E e \in Entries : e.key = k
         /\ \A k \in Key : \A t \in {newTab, oldTab} : Found(t, k) =>
              /\ WellFormed(t)
              /\ get_pos(t, k) \in DOMAIN t.tab
              /\ h_lookup(t, k) \in DOMAIN t.tab[get_pos(t, k)]
              /\ t.tab[get_pos(t, k)][h_lookup(t, k)] \in Entries
              /\ t.tab[get_pos(t, k)][h_lookup(t, k)].key = k
<1>1. WellFormed(newTab) /\ (oldTab = NullHTab \/ WellFormed(oldTab))
      /\ KeysOf(newTab) \cap KeysOf(oldTab) = {}
  BY DEF IInv, TablesOK
<1>2. /\ KeysOf(NullHTab) = {} /\ EntriesOf(NullHTab) = {}
      /\ \A k \in Key : ~Found(NullHTab, k)
  BY NullTable, NoEntries DEF Found, Allocated
<1>3. ASSUME NEW t \in {newTab, oldTab}
      PROVE  /\ \A k : k \in KeysOf(t) <=> \E e \in EntriesOf(t) : e.key = k
             /\ \A e, f \in EntriesOf(t) : e.key = f.key => e = f
             /\ \A k \in Key : Found(t, k) <=> k \in KeysOf(t)
  BY <1>1, <1>2, KeysAndEntries, LookupFinds
<1>4. \A k \in Key : Found(newTab, k) \/ Found(oldTab, k)
                       <=> \E e \in Entries : e.key = k
  BY <1>3 DEF Entries
<1>5. \A e, f \in Entries : e.key = f.key => e = f
  BY <1>1, <1>3 DEF Entries
<1>6. ASSUME NEW k \in Key, NEW t \in {newTab, oldTab}, Found(t, k)
      PROVE  /\ WellFormed(t)
             /\ get_pos(t, k) \in DOMAIN t.tab
             /\ h_lookup(t, k) \in DOMAIN t.tab[get_pos(t, k)]
             /\ t.tab[get_pos(t, k)][h_lookup(t, k)] \in Entries
             /\ t.tab[get_pos(t, k)][h_lookup(t, k)].key = k
  <2>1. WellFormed(t)
    BY <1>1, <1>2, <1>6
  <2>2. t.tab[get_pos(t, k)][h_lookup(t, k)] \in EntriesOf(t)
    BY <1>6, <2>1, LookupEntry
  <2> QED BY <1>6, <2>1, <2>2, LookupFinds DEF Entries
<1> QED BY <1>4, <1>5, <1>6 DEF Entries, EntriesOf

\* The value that the store has for a key is the one of its entry.
StoreIsEntries ==
  \A k \in Key :
    /\ \A e \in Entries : e.key = k => store[k] = e.value
    /\ (\A e \in Entries : e.key # k) => store[k] = NoValue

LEMMA StoreOfKeys == IInv => StoreIsEntries
<1> SUFFICES ASSUME IInv, NEW k \in Key
             PROVE  /\ \A e \in Entries : e.key = k => store[k] = e.value
                    /\ (\A e \in Entries : e.key # k) => store[k] = NoValue
  BY DEF StoreIsEntries
<1>1. store[k] = IF Found(newTab, k) THEN ValueOf(newTab, k)
                 ELSE IF Found(oldTab, k) THEN ValueOf(oldTab, k)
                 ELSE NoValue
  BY DEF store
<1>2. ASSUME NEW e \in Entries, e.key = k
      PROVE  store[k] = e.value
  <2>1. \E t \in {newTab, oldTab} : Found(t, k) /\ store[k] = ValueOf(t, k)
    BY <1>1, <1>2, EntriesFacts
  <2>2. \A t \in {newTab, oldTab} : Found(t, k) => ValueOf(t, k) = e.value
    BY <1>2, EntriesFacts DEF ValueOf
  <2> QED BY <2>1, <2>2
<1>3. ASSUME \A e \in Entries : e.key # k PROVE store[k] = NoValue
  BY <1>1, <1>3, EntriesFacts
<1> QED BY <1>2, <1>3

\* The store, and how it changes with the set of entries.
LEMMA StoreChanges ==
  ASSUME IInv, IInv', arg \in Entry
  PROVE  /\ Entries' = Entries => store' = store
         /\ (\A e \in Entry : e \in Entries' <=> e = arg \/ (e \in Entries /\ e.key # arg.key))
              => store' = [store EXCEPT ![arg.key] = arg.value]
         /\ (\A e \in Entry : e \in Entries' <=> e \in Entries /\ e.key # arg.key)
              => store' = [store EXCEPT ![arg.key] = NoValue]
<1>1. /\ store = [k \in Key |-> store[k]] /\ DOMAIN store = Key
      /\ store' = [k \in Key |-> store'[k]] /\ DOMAIN store' = Key
  BY DEF store
<1>2. StoreIsEntries /\ StoreIsEntries'
  BY StoreOfKeys, PTL
<1>3. /\ \A k \in Key :
           /\ \A e \in Entries : e.key = k => store[k] = e.value
           /\ (\A e \in Entries : e.key # k) => store[k] = NoValue
      /\ \A k \in Key :
           /\ \A e \in Entries' : e.key = k => store'[k] = e.value
           /\ (\A e \in Entries' : e.key # k) => store'[k] = NoValue
  BY <1>2 DEF StoreIsEntries
<1>4. Entries \subseteq Entry /\ Entries' \subseteq Entry
  <2>1. Entries \subseteq Entry
    BY DEF Entries, EntriesOf
  <2>2. Entries' \subseteq Entry
    BY DEF Entries, EntriesOf
  <2> QED BY <2>1, <2>2
<1>5. arg.key \in Key
  BY DEF Entry
<1>6. ASSUME Entries' = Entries PROVE store' = store
  <2>1. \A k \in Key : store'[k] = store[k]
    BY <1>3, <1>6
  <2> QED BY <1>1, <2>1
<1>7. ASSUME \A e \in Entry : e \in Entries' <=> e = arg \/ (e \in Entries /\ e.key # arg.key)
      PROVE  store' = [store EXCEPT ![arg.key] = arg.value]
  <2>1. ASSUME NEW k \in Key
        PROVE  store'[k] = IF k = arg.key THEN arg.value ELSE store[k]
    BY <1>3, <1>4, <1>7
  <2> QED BY <1>1, <1>5, <2>1
<1>8. ASSUME \A e \in Entry : e \in Entries' <=> e \in Entries /\ e.key # arg.key
      PROVE  store' = [store EXCEPT ![arg.key] = NoValue]
  <2>1. ASSUME NEW k \in Key
        PROVE  store'[k] = IF k = arg.key THEN NoValue ELSE store[k]
    BY <1>3, <1>4, <1>8
  <2> QED BY <1>1, <1>5, <2>1
<1> QED BY <1>6, <1>7, <1>8

\* The entries of the two tables, and with them the store, stay what they are
\* while hm_help_rehashing moves nodes and frees the old table.
LEMMA MigrationStutters ==
  ASSUME IInv, IInv', SkipEmptySlot \/ MoveHead \/ HelpReturns
  PROVE  UNCHANGED <<store, phase, op, arg, resp>>
<1>1. UNCHANGED <<op, arg, resp>>
  BY DEF SkipEmptySlot, MoveHead, HelpReturns, call
<1>2. arg \in Entry
  BY DEF IInv, TypeOK
<1>3. CASE SkipEmptySlot
  <2>1. UNCHANGED <<newTab, oldTab, pc, ret>>
    BY <1>3 DEF SkipEmptySlot
  <2>2. UNCHANGED <<store, phase>>
    BY <2>1 DEF store, phase
  <2> QED BY <1>1, <2>2
<1>4. CASE MoveHead
  <2> DEFINE e == Head(oldTab.tab[migrate_pos])
  <2>1. /\ oldTab.size > 0 /\ oldTab.tab[migrate_pos] # << >>
        /\ newTab' = h_insert(newTab, e)
        /\ oldTab' = h_detach(oldTab, migrate_pos, 1)
        /\ UNCHANGED <<pc, ret>>
    BY <1>4 DEF MoveHead, MoreWork
  <2>2. WellFormed(oldTab) /\ migrate_pos \in DOMAIN oldTab.tab
    BY <2>1, CursorInside
  <2>3. /\ 1 \in DOMAIN oldTab.tab[migrate_pos]
        /\ e = oldTab.tab[migrate_pos][1] /\ e \in Entry
    BY <2>1, <2>2, Shape DEF WellFormed
  <2> HIDE DEF e
  <2>4. e \in EntriesOf(oldTab)
    BY <2>2, <2>3 DEF EntriesOf
  <2>5. EntriesOf(newTab') = EntriesOf(newTab) \cup {e}
    BY <2>1, <2>3, Facts, InsertEntries
  <2>6. EntriesOf(oldTab') = EntriesOf(oldTab) \ {e}
    BY <2>1, <2>2, <2>3, DetachEntries
  <2>7. Entries' = Entries
    BY <2>4, <2>5, <2>6 DEF Entries
  <2>8. store' = store
    BY <1>2, <2>7, StoreChanges
  <2>9. phase' = phase
    BY <2>1 DEF phase
  <2> QED BY <1>1, <2>8, <2>9
<1>5. CASE HelpReturns
  <2>1. /\ pc = "help" /\ pc' = ret /\ UNCHANGED <<newTab, ret>>
        /\ oldTab' = IF oldTab.size = 0 /\ Allocated(oldTab) THEN NullHTab ELSE oldTab
    BY <1>5 DEF HelpReturns
  <2>2. CASE oldTab' = oldTab
    <3>1. Entries' = Entries
      BY <2>1, <2>2 DEF Entries
    <3> QED BY <1>1, <1>2, <2>1, <3>1, StoreChanges DEF phase, IInv, TypeOK
  <2>3. CASE oldTab' # oldTab
    <3>1. oldTab.size = 0 /\ oldTab' = NullHTab /\ HTabType(oldTab) /\ Counted(oldTab)
      BY <2>1, <2>3, Facts DEF WellFormed
    <3>2. \A p \in DOMAIN oldTab.tab : \A i \in DOMAIN oldTab.tab[p] : FALSE
      BY <3>1, CountsNode
    <3>3. EntriesOf(oldTab) = {} /\ EntriesOf(oldTab') = {}
      BY <3>1, <3>2, NoEntries DEF EntriesOf
    <3>4. Entries' = Entries
      BY <2>1, <3>3 DEF Entries
    <3> QED BY <1>1, <1>2, <2>1, <3>4, StoreChanges DEF phase, IInv, TypeOK
  <2> QED BY <2>2, <2>3
<1> QED BY <1>3, <1>4, <1>5

\* get answers what the store has for the key.
LEMMA GetPerforms ==
  ASSUME IInv, IInv', Get
  PROVE  Abstract!Perform
<1>1. /\ pc = "find" /\ pc' = "done" /\ op = "get"
      /\ UNCHANGED <<newTab, oldTab, ret, op, arg>>
  BY DEF Get, tables, call
<1>2. arg \in Entry /\ arg.key \in Key /\ NoValue \notin Value
  BY ValueAssumption DEF IInv, TypeOK, Entry
<1>3. store' = store /\ phase = "called" /\ phase' = "done"
  BY <1>1 DEF store, phase
<1>4. resp' = IF Found(newTab, arg.key) THEN ValueOf(newTab, arg.key)
              ELSE IF Found(oldTab, arg.key) THEN ValueOf(oldTab, arg.key)
              ELSE Empty
  BY DEF Get, ValueOf
<1>5. store[arg.key] = IF Found(newTab, arg.key) THEN ValueOf(newTab, arg.key)
                       ELSE IF Found(oldTab, arg.key) THEN ValueOf(oldTab, arg.key)
                       ELSE NoValue
  BY <1>2 DEF store
<1>6. \A t \in {newTab, oldTab} : Found(t, arg.key) => ValueOf(t, arg.key) \in Value
  BY <1>2, EntriesFacts DEF ValueOf, Entry
<1>7. resp' = IF store[arg.key] = NoValue THEN Empty ELSE store[arg.key]
  BY <1>2, <1>4, <1>5, <1>6
<1>8. Abstract!Get
  BY <1>1, <1>3, <1>7 DEF Abstract!Get
<1> QED BY <1>1, <1>3, <1>8 DEF Abstract!Perform

\* set, of a key that is there and of one that is not, writes the store once.
LEMMA SetPerforms ==
  ASSUME IInv, IInv', SetExisting \/ SetNew
  PROVE  Abstract!Perform
<1>1. /\ pc = "find" /\ op = "set" /\ resp' = TRUE
      /\ pc' = "done" \/ (pc' = "help" /\ ret' = "done")
      /\ UNCHANGED <<op, arg>>
  BY DEF SetExisting, SetNew, call
<1>2. arg \in Entry /\ arg.key \in Key
  BY DEF IInv, TypeOK, Entry
<1>3. phase = "called" /\ phase' = "done"
  BY <1>1 DEF phase
<1>4. \A e \in Entry : e \in Entries' <=> e = arg \/ (e \in Entries /\ e.key # arg.key)
  <2>1. CASE SetExisting
    <3> DEFINE found(t) == t.tab[get_pos(t, arg.key)][h_lookup(t, arg.key)]
    <3>1. ASSUME NEW t \in {newTab, oldTab}, Found(t, arg.key)
          PROVE  /\ EntriesOf(Update(t, arg)) = (EntriesOf(t) \ {found(t)}) \cup {arg}
                 /\ found(t) \in Entries /\ found(t).key = arg.key
      BY <1>2, <3>1, EntriesFacts, WriteEntries DEF Update
    <3> HIDE DEF found
    <3>2. CASE Found(newTab, arg.key)
      <4>1. newTab' = Update(newTab, arg) /\ oldTab' = oldTab
        BY <2>1, <3>2 DEF SetExisting
      <4>2. found(newTab) \notin EntriesOf(oldTab)
        <5>1. found(newTab).key \in KeysOf(newTab)
          BY <1>2, <3>1, <3>2, Facts, LookupFinds
        <5>2. oldTab = NullHTab \/ WellFormed(oldTab)
          BY Facts
        <5>3. found(newTab) \in EntriesOf(oldTab) => found(newTab).key \in KeysOf(oldTab)
          BY <5>2, KeysAndEntries, NoEntries
        <5> QED BY <5>1, <5>3 DEF IInv, TablesOK
      <4>3. Entries' = (Entries \ {found(newTab)}) \cup {arg}
        BY <3>1, <3>2, <4>1, <4>2 DEF Entries
      <4> QED BY <1>2, <3>1, <3>2, <4>3, EntriesFacts
    <3>3. CASE ~Found(newTab, arg.key)
      <4>1. oldTab' = Update(oldTab, arg) /\ newTab' = newTab /\ Found(oldTab, arg.key)
        BY <2>1, <3>3 DEF SetExisting
      <4>2. found(oldTab) \notin EntriesOf(newTab)
        <5>1. arg.key \notin KeysOf(newTab)
          BY <1>2, <3>3, Facts, LookupFinds
        <5> QED BY <3>1, <4>1, <5>1, Facts, KeysAndEntries
      <4>3. Entries' = (Entries \ {found(oldTab)}) \cup {arg}
        BY <3>1, <4>1, <4>2 DEF Entries
      <4> QED BY <1>2, <3>1, <4>1, <4>3, EntriesFacts
    <3> QED BY <3>2, <3>3
  <2>2. CASE SetNew
    <3> DEFINE inserted == h_insert(newTab, arg)
    <3>1. EntriesOf(inserted) = EntriesOf(newTab) \cup {arg}
      BY <1>2, Facts, InsertEntries
    <3>2. ~Found(newTab, arg.key) /\ ~Found(oldTab, arg.key)
      BY <2>2 DEF SetNew
    <3>3. IF ~Allocated(oldTab) /\ Overloaded(inserted)
          THEN hm_trigger_rehashing(inserted)
          ELSE newTab' = inserted /\ UNCHANGED <<oldTab, migrate_pos>>
      BY <2>2 DEF SetNew
    <3>4. Entries' = Entries \cup {arg}
      <4>1. CASE ~(~Allocated(oldTab) /\ Overloaded(inserted))
        BY <3>1, <3>3, <4>1 DEF Entries
      <4>2. CASE ~Allocated(oldTab) /\ Overloaded(inserted)
        <5>1. oldTab' = inserted /\ newTab' = NewHTab(2 * (inserted.mask + 1))
          BY <3>3, <4>2 DEF hm_trigger_rehashing
        <5>2. inserted.mask = newTab.mask
          BY <1>2, Facts, Inserted DEF IsInserted
        <5>3. 2 * (inserted.mask + 1) \in Nat \ {0}
          BY <5>2, Facts
        <5>4. EntriesOf(newTab') = {}
          BY <5>1, <5>3, NoEntries
        <5>5. EntriesOf(oldTab) = {}
          <6>1. DOMAIN oldTab.tab = {}
            BY <4>2 DEF Allocated
          <6> QED BY <6>1 DEF EntriesOf
        <5> QED BY <3>1, <5>1, <5>4, <5>5 DEF Entries
      <4> QED BY <4>1, <4>2
    <3>5. \A e \in Entries : e.key # arg.key
      BY <1>2, <3>2, EntriesFacts
    <3> QED BY <3>4, <3>5
  <2> QED BY <2>1, <2>2
<1>5. store' = [store EXCEPT ![arg.key] = arg.value]
  BY <1>2, <1>4, StoreChanges
<1>6. Abstract!Set
  BY <1>1, <1>5 DEF Abstract!Set
<1> QED BY <1>1, <1>3, <1>6 DEF Abstract!Perform

\* del takes the key out of the store and says whether it was there.
LEMMA DelPerforms ==
  ASSUME IInv, IInv', Del
  PROVE  Abstract!Perform
<1>1. /\ pc = "find" /\ pc' = "done" /\ op = "del"
      /\ resp' = (Found(newTab, arg.key) \/ Found(oldTab, arg.key))
      /\ UNCHANGED <<op, arg>>
  BY DEF Del, call
<1>2. arg \in Entry /\ arg.key \in Key /\ NoValue \notin Value
  BY ValueAssumption DEF IInv, TypeOK, Entry
<1>3. phase = "called" /\ phase' = "done"
  BY <1>1 DEF phase
<1>4. \A e \in Entry : e \in Entries' <=> e \in Entries /\ e.key # arg.key
  <2> DEFINE found(t) == t.tab[get_pos(t, arg.key)][h_lookup(t, arg.key)]
             without(t) == h_detach(t, get_pos(t, arg.key), h_lookup(t, arg.key))
  <2>1. ASSUME NEW t \in {newTab, oldTab}, Found(t, arg.key)
        PROVE  /\ EntriesOf(without(t)) = EntriesOf(t) \ {found(t)}
               /\ found(t) \in Entries /\ found(t).key = arg.key
    BY <1>2, <2>1, EntriesFacts, DetachEntries
  <2>2. \/ Found(newTab, arg.key) /\ newTab' = without(newTab) /\ oldTab' = oldTab
        \/ /\ ~Found(newTab, arg.key) /\ Found(oldTab, arg.key)
           /\ oldTab' = without(oldTab) /\ newTab' = newTab
        \/ /\ ~Found(newTab, arg.key) /\ ~Found(oldTab, arg.key)
           /\ newTab' = newTab /\ oldTab' = oldTab
    BY DEF Del
  <2> HIDE DEF found, without
  <2>3. CASE Found(newTab, arg.key)
    <3>1. newTab' = without(newTab) /\ oldTab' = oldTab
      BY <2>2, <2>3
    <3>2. found(newTab) \notin EntriesOf(oldTab)
      <4>1. found(newTab).key \in KeysOf(newTab)
        BY <1>2, <2>1, <2>3, Facts, LookupFinds
      <4>2. oldTab = NullHTab \/ WellFormed(oldTab)
        BY Facts
      <4>3. found(newTab) \in EntriesOf(oldTab) => found(newTab).key \in KeysOf(oldTab)
        BY <4>2, KeysAndEntries, NoEntries
      <4> QED BY <4>1, <4>3 DEF IInv, TablesOK
    <3>3. Entries' = Entries \ {found(newTab)}
      BY <2>1, <2>3, <3>1, <3>2 DEF Entries
    <3> QED BY <1>2, <2>1, <2>3, <3>3, EntriesFacts
  <2>4. CASE ~Found(newTab, arg.key) /\ Found(oldTab, arg.key)
    <3>1. oldTab' = without(oldTab) /\ newTab' = newTab
      BY <2>2, <2>4
    <3>2. found(oldTab) \notin EntriesOf(newTab)
      <4>1. arg.key \notin KeysOf(newTab)
        BY <1>2, <2>4, Facts, LookupFinds
      <4> QED BY <2>1, <2>4, <4>1, Facts, KeysAndEntries
    <3>3. Entries' = Entries \ {found(oldTab)}
      BY <2>1, <2>4, <3>1, <3>2 DEF Entries
    <3> QED BY <1>2, <2>1, <2>4, <3>3, EntriesFacts
  <2>5. CASE ~Found(newTab, arg.key) /\ ~Found(oldTab, arg.key)
    <3>1. Entries' = Entries
      BY <2>2, <2>5 DEF Entries
    <3>2. \A e \in Entries : e.key # arg.key
      BY <1>2, <2>5, EntriesFacts
    <3> QED BY <3>1, <3>2
  <2> QED BY <2>3, <2>4, <2>5
<1>5. store' = [store EXCEPT ![arg.key] = NoValue]
  BY <1>2, <1>4, StoreChanges
<1>6. resp' = (store[arg.key] # NoValue)
  <2>1. /\ \A e \in Entries : e.key = arg.key => store[arg.key] = e.value
        /\ (\A e \in Entries : e.key # arg.key) => store[arg.key] = NoValue
    BY <1>2, StoreOfKeys DEF StoreIsEntries
  <2>2. \A e \in Entries : e.value # NoValue
    BY <1>2, EntriesFacts DEF Entry
  <2>3. (store[arg.key] # NoValue) <=> (\E e \in Entries : e.key = arg.key)
    BY <2>1, <2>2
  <2>4. (Found(newTab, arg.key) \/ Found(oldTab, arg.key)) <=> (\E e \in Entries : e.key = arg.key)
    BY <1>2, EntriesFacts
  <2> QED BY <1>1, <2>3, <2>4
<1>7. Abstract!Del
  BY <1>1, <1>5, <1>6 DEF Abstract!Del
<1> QED BY <1>1, <1>3, <1>7 DEF Abstract!Perform

\* Incremental rehashing is invisible: for all keys, values, hash functions and
\* tuning constants, what the clients of the map see are GETs, SETs and DELs that
\* take effect at once, each between its call and its return (HMap implements KVMap).
THEOREM ImplementsKVMap == Spec => Refines
<1>1. Init => Abstract!Init
  <2> SUFFICES ASSUME Init PROVE Abstract!Init
    OBVIOUS
  <2>1. IInv
    BY InitHolds
  <2>2. Entries = {}
    BY SizeAssumption, NoEntries DEF Init, Entries
  <2>3. store = [k \in Key |-> NoValue]
    <3>1. \A k \in Key : store[k] = NoValue
      BY <2>1, <2>2, StoreOfKeys DEF StoreIsEntries
    <3>2. store = [k \in Key |-> store[k]]
      BY DEF store
    <3> QED BY <3>1, <3>2
  <2>4. phase = "idle" /\ op = "get" /\ resp = Empty /\ arg \in [key: Key, value: Value]
    BY DEF Init, phase, Entry
  <2> QED BY <2>3, <2>4 DEF Abstract!Init
<1>2. IInv /\ IInv' /\ [Next]_vars => [Abstract!Next]_(Abstract!vars)
  <2> SUFFICES ASSUME IInv, IInv', [Next]_vars
               PROVE  Abstract!Next \/ UNCHANGED Abstract!vars
    OBVIOUS
  <2>1. ASSUME NEW o \in Op, NEW k \in Key, NEW v \in Value, Call(o, k, v)
        PROVE  Abstract!Next
    <3>1. /\ phase = "idle" /\ phase' = "called" /\ store' = store
      BY <2>1 DEF Call, phase, store, tables
    <3>2. Abstract!Call(o, k, v)
      BY <2>1, <3>1 DEF Call, Abstract!Call
    <3>3. o \in Abstract!Op
      BY DEF Op, Abstract!Op
    <3> QED BY <3>2, <3>3 DEF Abstract!Next
  <2>2. CASE SkipEmptySlot \/ MoveHead \/ HelpReturns
    BY <2>2, MigrationStutters DEF Abstract!vars
  <2>3. CASE Get
    BY <2>3, GetPerforms DEF Abstract!Next
  <2>4. CASE SetExisting \/ SetNew
    BY <2>4, SetPerforms DEF Abstract!Next
  <2>5. CASE Del
    BY <2>5, DelPerforms DEF Abstract!Next
  <2>6. CASE Return
    <3>1. phase = "done" /\ phase' = "idle" /\ UNCHANGED <<store, op, arg, resp>>
      BY <2>6 DEF Return, tables, call, phase, store
    <3> QED BY <3>1 DEF Abstract!Next, Abstract!Return
  <2>7. CASE UNCHANGED vars
    BY <2>7 DEF vars, Abstract!vars, store, phase
  <2> QED BY <2>1, <2>2, <2>3, <2>4, <2>5, <2>6, <2>7 DEF Next, Execute
<1> QED BY <1>1, <1>2, InductiveInvariant, PTL DEF Spec, Refines, Abstract!Spec
=============================================================================
