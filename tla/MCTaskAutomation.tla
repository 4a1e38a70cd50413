-------------------------- MODULE MCTaskAutomation --------------------------
(* Instances of TaskAutomation for TLC. *)
EXTENDS TaskAutomation, TLC

CONSTANTS a1, a2, p1, p2

\* A project for each task, so that one of two due tasks can be deleted.
OwnProjects == (a1 :> p1) @@ (a2 :> p2)

=============================================================================
