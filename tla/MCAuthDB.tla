------------------------------ MODULE MCAuthDB ------------------------------
(* Small instances of AuthDB for TLC. *)
EXTENDS AuthDB
=============================================================================
