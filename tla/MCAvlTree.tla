----------------------------- MODULE MCAvlTree -----------------------------
(* AvlTree on the eight nodes that a deletion needs to leave the tree      *)
(* unbalanced.                                                             *)
EXTENDS AvlTree

EightNodes == 1 .. 8
=============================================================================
