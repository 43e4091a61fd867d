---------------------------- MODULE MCConnection ----------------------------
(* Instances of Connection for TLC. *)
EXTENDS Connection

TwoOwners == {"o1", "o2"}
=============================================================================
