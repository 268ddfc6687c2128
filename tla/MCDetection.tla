---------------------------- MODULE MCDetection -----------------------------
(* Small instances of Detection for TLC. *)
EXTENDS Detection
=============================================================================
