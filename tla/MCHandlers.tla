----------------------------- MODULE MCHandlers -----------------------------
(* Small instances of Handlers for TLC. *)
EXTENDS Handlers

(* Requests are interchangeable.                                           *)
Symmetry == Permutations(Requests)
=============================================================================
