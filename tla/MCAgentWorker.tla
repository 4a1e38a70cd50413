--------------------------- MODULE MCAgentWorker ---------------------------
(* Instances of AgentWorker for TLC. *)
EXTENDS AgentWorker, TLC

CONSTANT c1

\* All messages of one conversation.
OneConversation == [t \in Tasks |-> c1]

=============================================================================
