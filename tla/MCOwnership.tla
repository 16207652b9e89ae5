---------------------------- MODULE MCOwnership ----------------------------
(* Ownership on a small instance. *)
EXTENDS Ownership, TLC
=============================================================================
