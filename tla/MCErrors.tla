------------------------------ MODULE MCErrors ------------------------------
(* Errors over two elements and a path of two retained elements: a          *)
(* traversal of depth five overflows it by three, one more than MaxOmitted. *)
EXTENDS Errors

CONSTANTS e1, e2, none, invalid, depth, syntax

MCElements == {e1, e2}
MCCodes == {invalid, depth, syntax}
=============================================================================
