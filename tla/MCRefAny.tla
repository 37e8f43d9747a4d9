------------------------------ MODULE MCRefAny ------------------------------
(* RefAny for TLC. *)
EXTENDS RefAny, TLC
=============================================================================
