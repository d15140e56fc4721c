------------------------------- MODULE MCHMap -------------------------------
(* HMap on small tables: two slots to begin with, one key per slot, and K  *)
(* keys, whose hashes keep some in one chain and part others when it       *)
(* doubles.                                                                *)
EXTENDS HMap

K == 4

MCKey == 1 .. K

\* 1 and 5 share a slot of every table of at most 4 slots, 2 and 4 that of the first
\* one only; 4 is in the first slot of both, where a migration begins.
MChcode == [k \in MCKey |-> <<1, 5, 2, 4>>[k]]
=============================================================================
