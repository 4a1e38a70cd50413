------------------------ MODULE MCConversationPanel ------------------------
(* Instances of ConversationPanel for TLC. *)
EXTENDS ConversationPanel

=============================================================================
