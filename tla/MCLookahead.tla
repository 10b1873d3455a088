----------------------------- MODULE MCLookahead -----------------------------
(***************************************************************************)
(* Lookahead on every input of up to eight characters out of a blank, a     *)
(* newline and a character that may start a lookahead, with a lines table  *)
(* of two lines so that inputs outgrow it.                                 *)
(***************************************************************************)
EXTENDS Lookahead

MCChar  == {"\n", " ", "x"}
MCStray == {0, 3}
=============================================================================
