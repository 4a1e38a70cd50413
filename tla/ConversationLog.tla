-------------------------- MODULE ConversationLog --------------------------
(***************************************************************************)
(* What the message tables promise to whoever reads a conversation ordered *)
(* by conversation_sequence: a log.  A new message comes after every       *)
(* message that is there, no two messages ever change places, and the only *)
(* other changes are that one message or a whole conversation disappears.  *)
(***************************************************************************)
CONSTANTS Conversations, MessageIds

VARIABLES
    members,    \* the messages of each conversation
    older       \* <<m, n>>: m is shown before n

log == <<members, older>>

LogInit ==
    /\ members = [c \in Conversations |-> {}]
    /\ older = {}

Append(c, m) ==
    /\ \A d \in Conversations : m \notin members[d]
    /\ members' = [members EXCEPT ![c] = @ \cup {m}]
    /\ older' = older \cup (members[c] \X {m})

Remove(c, m) ==
    /\ m \in members[c]
    /\ members' = [members EXCEPT ![c] = @ \ {m}]
    /\ older' = {pair \in older : pair[1] # m /\ pair[2] # m}

Clear(c) ==
    /\ members' = [members EXCEPT ![c] = {}]
    /\ older' = {pair \in older :
                    pair[1] \notin members[c] /\ pair[2] \notin members[c]}

LogNext ==
    \E c \in Conversations :
        \/ \E m \in MessageIds : Append(c, m) \/ Remove(c, m)
        \/ Clear(c)

LogSpec == LogInit /\ [][LogNext]_log

=============================================================================
