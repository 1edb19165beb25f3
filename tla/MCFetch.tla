------------------------------ MODULE MCFetch ------------------------------
(***************************************************************************)
(* Two versions; the weights become shorter, so that a .part of the first  *)
(* may be longer than the second.                                          *)
(***************************************************************************)
EXTENDS Sha256

MCSize(f, v) == IF f = "weights" THEN 4 - v ELSE 2
=============================================================================
