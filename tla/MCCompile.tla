----------------------------- MODULE MCCompile -----------------------------
(* Instances of Compile for TLC. *)
EXTENDS Compile

CONSTANTS a, b, c
=============================================================================
