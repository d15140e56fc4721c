-------------------------------- MODULE HTab --------------------------------
(***************************************************************************)
(* class HTab (hashTable.h, hashTable.cpp): one array of chains.           *)
(*                                                                         *)
(* A table is a record [tab, mask, size].  tab maps each slot in 0..mask   *)
(* to its chain, the sequence of the entries linked from tab[slot] through *)
(* HNode.next; the null pointer is the function with no slot.  An entry is *)
(* the key and the value of the Entry_str the HNode is embedded in, and    *)
(* hcode is a function of the key.  The number of slots is a power of two  *)
(* (the constructor throws otherwise), so that hcode & mask is             *)
(* hcode % (mask + 1).                                                     *)
(***************************************************************************)
EXTENDS Naturals, Sequences, FiniteSets, SequencesExt

CONSTANTS Key, Value,
          hcode        \* the hash of every key

ASSUME HashAssumption == hcode \in [Key -> Nat]

Entry == [key: Key, value: Value]

\* HTab(): no array at all.
NullHTab == [tab |-> [pos \in {} |-> << >>], mask |-> 0, size |-> 0]

\* Mutant: the mask of a table of n slots is n.
NewHTab_MaskIsN(n) == [tab |-> [pos \in 0 .. n - 1 |-> << >>], mask |-> n, size |-> 0]

\* HTab(n): n empty chains.
NewHTab(n) == [tab |-> [pos \in 0 .. n - 1 |-> << >>], mask |-> n - 1, size |-> 0]

\* tab != nullptr
Allocated(t) == DOMAIN t.tab # {}

get_pos(t, k) == hcode[k] % (t.mask + 1)

\* h_lookup finds the key: some node of its chain has the same key.
Found(t, k) ==
  /\ Allocated(t)
  /\ \E i \in DOMAIN t.tab[get_pos(t, k)] : t.tab[get_pos(t, k)][i].key = k

\* The place in the chain that h_lookup stops at: the first node with the key.
h_lookup(t, k) ==
  LET chain == t.tab[get_pos(t, k)]
  IN  CHOOSE i \in DOMAIN chain :
        /\ chain[i].key = k
        /\ \A j \in 1 .. i - 1 : chain[j].key # k

\* h_insert puts the node at the head of its chain.
h_insert(t, e) ==
  [t EXCEPT !.tab[get_pos(t, e.key)] = <<e>> \o @, !.size = @ + 1]

\* Mutant: the size counter is forgotten.
h_detach_NoCount(t, pos, i) == [t EXCEPT !.tab[pos] = RemoveAt(@, i)]

\* h_detach unlinks the i-th node of the chain of slot pos.
h_detach(t, pos, i) ==
  [t EXCEPT !.tab[pos] = RemoveAt(@, i), !.size = @ - 1]

-----------------------------------------------------------------------------
(* What is in a table, whatever its counters say. *)

\* A table that has an array: one chain of entries in every slot.
HTabType(t) == t \in [tab: [0 .. t.mask -> Seq(Entry)], mask: Nat, size: Nat]

\* The nodes linked in the table, each named by its slot and its place.
Nodes(t) == UNION {{pos} \X (DOMAIN t.tab[pos]) : pos \in DOMAIN t.tab}

\* The keys some node of the table holds.
KeysOf(t) == {k \in Key : \E pos \in DOMAIN t.tab :
                            \E i \in DOMAIN t.tab[pos] : t.tab[pos][i].key = k}

\* No two nodes of the table hold the same key.
Unique(t) ==
  \A p, q \in DOMAIN t.tab : \A i \in DOMAIN t.tab[p], j \in DOMAIN t.tab[q] :
    t.tab[p][i].key = t.tab[q][j].key => p = q /\ i = j

\* Every node is in the slot its hash selects.
Placed(t) ==
  \A pos \in DOMAIN t.tab : \A i \in DOMAIN t.tab[pos] :
    get_pos(t, t.tab[pos][i].key) = pos

\* The size counter counts the nodes.
Counted(t) == t.size = Cardinality(Nodes(t))
=============================================================================
