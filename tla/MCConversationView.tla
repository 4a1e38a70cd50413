------------------------ MODULE MCConversationView ------------------------
(* Instances of ConversationView for TLC. *)
EXTENDS ConversationView

Symmetric == Permutations(Convs) \cup Permutations(Texts)

=============================================================================
