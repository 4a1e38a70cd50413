------------------------- MODULE MCProposalEditor -------------------------
(* Instances of ProposalEditor for TLC. *)
EXTENDS ProposalEditor

CONSTANTS q1, q2, q3
MCProposals == {q1, q2, q3}
MCExisting  == <<q1, q2>>

=============================================================================
