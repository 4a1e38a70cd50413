------------------------ MODULE MCConnectionManager ------------------------
(* Instances of ConnectionManager for TLC. *)
EXTENDS ConnectionManager, TLC

\* Connections are interchangeable until they are made, and so are calls.
Symmetry == Permutations(Clients) \cup Permutations(Broadcasts)

=============================================================================
