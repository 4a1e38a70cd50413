---------------------------- MODULE MCBackOffice ----------------------------
(* Instances of BackOffice for TLC. *)
EXTENDS BackOffice

=============================================================================
