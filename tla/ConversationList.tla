-------------------------- MODULE ConversationList --------------------------
(***************************************************************************)
(* The list of conversations of a dashboard tab (useConversations): which  *)
(* conversations it holds, which one is active, the unread flags, the      *)
(* badges, and who is shown as viewing the active conversation.  Requests, *)
(* WebSocket events and clicks change them in any order.  The panels of    *)
(* the active conversation are ConversationPanel, which extends this       *)
(* module and gives the next-state relation of the whole page.             *)
(*                                                                         *)
(* Abstracted: the list is a set, since the page sorts it again before it  *)
(* shows it; of a conversation, only whether it is unread; a badge is      *)
(* there or not.  A list answer names no request, so an older answer may   *)
(* replace a newer one.                                                    *)
(***************************************************************************)
EXTENDS Integers, Sequences, FiniteSets, TLC, Bags, SequencesExt, BagsExt

CONSTANTS
    Convs,          \* the conversations there may be
    None,
    Cached          \* one of them, that the session cache may have as active

ASSUME ListAssumption == None \notin Convs /\ Cached \in Convs

VARIABLES
    \* The server.
    stored,         \* the conversations there are
    waiting,        \* those with is_unread
    \* useConversations.
    listed,         \* conversations
    unread,         \* those whose listed copy has is_unread
    shown,          \* activeConversation
    ref,            \* activeConversationRef.current
    badged,         \* those with notifCounts above zero
    viewers,        \* the conversation activeViewers are of
    asked           \* the bag of its requests that are not settled

remote == <<stored, waiting>>
list   == <<listed, unread, shown, ref, badged, viewers>>

-----------------------------------------------------------------------------
(* Requests *)

Request(op, c) == [op |-> op, conv |-> c, done |-> FALSE, ids |-> {}, new |-> {}]

Unsettled    == DOMAIN asked
Without(req) == asked (-) SetToBag({req})
Asking(reqs) == asked (+) SetToBag(reqs)

Answered(req, ids, new) ==
    asked' = Without(req) (+)
             SetToBag({[req EXCEPT !.done = TRUE, !.ids = ids, !.new = new]})

FetchList == Request("list", None)

\* setActive.
SetActive(c) == ref' = c /\ shown' = c

\* setConversations, and the effect on it: the active conversation follows its
\* listed copy, and is given up when the list lacks it.  After a reload there
\* is no active conversation although one is shown.
Relist(ids, new) ==
    /\ listed' = ids
    /\ unread' = new
    /\ IF ref = None THEN UNCHANGED <<ref, shown>>
       ELSE SetActive(IF ref \in ids THEN ref ELSE None)

-----------------------------------------------------------------------------
(* The server *)

AnswersList(req) ==
    /\ req.op = "list" /\ ~req.done
    /\ Answered(req, stored, waiting)
    /\ UNCHANGED <<remote, list>>

\* PATCH: is_unread, or another field; POST of an assignment.
StoresUpdate(req) ==
    /\ req.op \in {"read", "unread", "update", "assign"} /\ ~req.done
    /\ req.conv \in stored
    /\ waiting' = CASE req.op = "read"   -> waiting \ {req.conv}
                    [] req.op = "unread" -> waiting \cup {req.conv}
                    [] OTHER -> waiting
    /\ Answered(req, {req.conv}, waiting' \cap {req.conv})
    /\ UNCHANGED <<stored, list>>

StoresDeletion(req) ==
    /\ req.op = "delete" /\ ~req.done
    /\ req.conv \in stored
    /\ stored' = stored \ {req.conv}
    /\ waiting' = waiting \ {req.conv}
    /\ Answered(req, {}, {})
    /\ UNCHANGED list

\* A customer writes, to a conversation there is or to a new one; a colleague
\* deletes one.  Deletions are announced to nobody.
CustomerWrites(c) ==
    /\ stored' = stored \cup {c} /\ waiting' = waiting \cup {c}
    /\ UNCHANGED <<list, asked>>

ColleagueDeletes(c) ==
    /\ c \in stored
    /\ stored' = stored \ {c} /\ waiting' = waiting \ {c}
    /\ UNCHANGED <<list, asked>>

-----------------------------------------------------------------------------
(* The events, as MessagesSessionContext hands them on *)

\* new_message: the list is asked for again when it lacks the conversation.
OnNewMessage(c, inbound) ==
    /\ IF c \in listed
       THEN /\ Relist(listed, IF inbound THEN unread \cup {c} ELSE unread \ {c})
            /\ UNCHANGED asked
       ELSE /\ asked' = Asking({FetchList})
            /\ UNCHANGED <<listed, unread, ref, shown>>
    /\ UNCHANGED <<remote, badged, viewers>>

\* Mutant: the notification does not ask which conversation is active.
NotifiedAlways(c) == badged' = badged \cup {c}

\* What a notification for a conversation other than the active one leaves.
Notified(c) == badged' = IF ref = c THEN badged ELSE badged \cup {c}

OnConversationNotification(c) ==
    /\ Notified(c)
    /\ UNCHANGED <<remote, listed, unread, shown, ref, viewers, asked>>

OnPresenceUpdate(c) ==
    /\ viewers' = IF ref = c THEN c ELSE viewers
    /\ UNCHANGED <<remote, listed, unread, shown, ref, badged, asked>>

\* conversation_updated and message_deleted.
OnConversationUpdated ==
    /\ asked' = Asking({FetchList})
    /\ UNCHANGED <<remote, list>>

-----------------------------------------------------------------------------
(* What the user does *)

\* The part of selectConversation that every selection runs.
Opens(c) == SetActive(c) /\ badged' = badged \ {c} /\ viewers' = None

\* selectConversation, up to its await.
Select(c) ==
    /\ c \in listed
    /\ Opens(c)
    /\ asked' = IF c \in unread THEN Asking({Request("read", c)}) ELSE asked
    /\ UNCHANGED <<remote, listed, unread>>

\* updateConversation for the active conversation, from the header ("unread"),
\* the details or the tag dialog ("update"); AssignmentPanel; the header's
\* deletion, for users who may.
Change(op) ==
    /\ shown # None
    /\ asked' = Asking({Request(op, shown)})
    /\ UNCHANGED <<remote, list>>

-----------------------------------------------------------------------------
(* The answers *)

ListArrives(req) ==
    /\ req.op = "list" /\ req.done
    /\ Relist(req.ids, req.new)
    /\ asked' = Without(req)
    /\ UNCHANGED <<remote, badged, viewers>>

\* What selectConversation and updateConversation do with the answer: the
\* listed copy, if it is there still, takes the fields over.
UpdateArrives(req) ==
    /\ req.op \in {"read", "unread", "update"} /\ req.done
    /\ Relist(listed, (unread \ {req.conv}) \cup (req.new \cap listed))
    /\ asked' = Without(req)
    /\ UNCHANGED <<remote, badged, viewers>>

\* Both go on to ask for the list.
AssignmentOrDeletionArrives(req) ==
    /\ req.op \in {"assign", "delete"} /\ req.done
    /\ asked' = Without(req) (+) SetToBag({FetchList})
    /\ UNCHANGED <<remote, list>>

\* All catch their errors, or leave the page as it is.
RequestFails(req) ==
    /\ asked' = Without(req)
    /\ UNCHANGED <<remote, list>>

-----------------------------------------------------------------------------
\* The page has been loaded: the session cache has a list and possibly the
\* conversation that was active, and the provider asks for the list.
ListInit ==
    /\ stored = Convs /\ waiting = Convs \ {Cached}
    /\ listed \in {{}, Convs}
    /\ unread = waiting \cap listed
    /\ shown \in {None} \cup ({Cached} \cap listed) /\ ref = None
    /\ badged = {} /\ viewers = None
    /\ asked = SetToBag({FetchList})

ListServer == \E req \in Unsettled :
                 AnswersList(req) \/ StoresUpdate(req) \/ StoresDeletion(req)

Others == \E c \in Convs : CustomerWrites(c) \/ ColleagueDeletes(c)

ListEvents ==
    \/ \E c \in Convs :
         \/ \E inbound \in BOOLEAN : OnNewMessage(c, inbound)
         \/ OnConversationNotification(c) \/ OnPresenceUpdate(c)
    \/ OnConversationUpdated

ListArrivals == \E req \in Unsettled :
                   \/ ListArrives(req) \/ UpdateArrives(req)
                   \/ AssignmentOrDeletionArrives(req) \/ RequestFails(req)

-----------------------------------------------------------------------------
(* Properties *)

ListTypes ==
    /\ {stored, waiting, listed, unread, badged} \subseteq SUBSET Convs
    /\ waiting \subseteq stored /\ unread \subseteq listed
    /\ {shown, ref, viewers} \subseteq Convs \cup {None}

\* The conversation the agent works in is one of the list, carries no badge of
\* unseen messages, and the list of viewers beside it came for it and for no
\* other conversation, in whatever order answers, notifications and presence
\* updates come.  Who the viewers are is abstracted: the list may be stale.
ActiveIsInOrder ==
    /\ ref # None => ref \in listed /\ ref \notin badged
    /\ shown # None /\ viewers # None => viewers = shown

=============================================================================
