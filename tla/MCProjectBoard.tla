-------------------------- MODULE MCProjectBoard --------------------------
(* Instances of ProjectBoard for TLC. *)
EXTENDS ProjectBoard, TLC

Symmetric == Permutations(Clients) \cup Permutations(Tasks)

=============================================================================
