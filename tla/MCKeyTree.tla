------------------------------ MODULE MCKeyTree ------------------------------
(***************************************************************************)
(* KeyTree on small heaps.  Six keys hold the root, an array table with    *)
(* two tables and a key in each, or an inline table in an inline table;    *)
(* three identifiers and two subkeys per key make the maps overflow.       *)
(* Identifiers are compared and used as map keys only, so the heaps that   *)
(* differ by a permutation of them need to be checked once.                *)
(***************************************************************************)
EXTENDS KeyTreeUse, TLC

MCSymmetry == Permutations(Ids) \cup Permutations(Values)
=============================================================================
