-------------------------------- MODULE Cuts --------------------------------
(***************************************************************************)
(* How data is cut: the buffers of both sides and the strings that are     *)
(* parsed are cut behind the first n units.                                *)
(***************************************************************************)
EXTENDS Integers, Sequences

Take(s, n) == SubSeq(s, 1, n)
Drop(s, n) == SubSeq(s, n + 1, Len(s))
=============================================================================
