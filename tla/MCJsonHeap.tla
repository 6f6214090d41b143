----------------------------- MODULE MCJsonHeap -----------------------------
(* Small instances of JsonValues for TLC. *)
EXTENDS JsonValues
=============================================================================
