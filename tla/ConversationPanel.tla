------------------------- MODULE ConversationPanel -------------------------
(***************************************************************************)
(* The messages page around the active conversation, on top of             *)
(* ConversationList: the composer with its attachment and its recorder,    *)
(* the AI suggestions, the linked client, and the dialogs opened from a    *)
(* message.  Handlers keep the conversation they were rendered with across *)
(* their awaits, while the agent goes on to another conversation.          *)
(*                                                                         *)
(* Abstracted: a contact is its conversation; a file or a recording is the *)
(* conversation it was made in; a client is a model value, and the form    *)
(* that creates one is the conversation whose contact's name it holds;     *)
(* suggestions are the conversation they are for.  The thread itself is    *)
(* ConversationView.  Left out: filters, the text typed, emoji, banners,   *)
(* the search for quick replies and in the client picker, clients that are *)
(* detected although they are not linked, and what has been recorded: the  *)
(* chunks, which all recorders share, and the microphones they hold.       *)
(***************************************************************************)
EXTENDS ConversationList

CONSTANTS
    Clients,        \* clients there may be
    Known,          \* the client there is at first
    MaxActs,        \* bound: acts of the user, events, changes made by others
    MaxWork         \* bound: requests under way when something new happens

ASSUME PanelAssumption ==
    /\ None \notin Clients /\ Known \in Clients
    /\ MaxActs \in Nat /\ MaxWork \in Nat

VARIABLES
    \* The server.
    linked,         \* the client of each contact, or None
    madeFor,        \* of a client created by a form, whose name the form held
    \* The composer.
    file,           \* where selectedFile was chosen, or None
    recorder,       \* where mediaRecorderRef.current was started, or None
    recording,      \* isRecording
    \* The AI panel.
    inbound,        \* canUseAISuggestions: the newest message is inbound
    suggested,      \* the conversation the suggestions are for
    \* The linked client.
    client,         \* clientMatches[0] once linked, or None
    history,        \* the client clientHistory is of
    form,           \* where the form for a new client was opened, or None
    picker,         \* showExistingClientPicker
    \* Everything.
    dialogs,        \* the dialogs that are open
    busy,           \* flags such as clientLinking that are set
    work,           \* the bag of the page's requests that are not settled
    acts            \* what MaxActs bounds, so far

backend  == <<linked, madeFor>>
composer == <<file, recorder, recording>>
ai       == <<inbound, suggested>>
contact  == <<client, history, form, picker>>
panel    == <<composer, ai, contact, dialogs, busy, work>>
vars     == <<remote, list, asked, backend, panel, acts>>

-----------------------------------------------------------------------------
(* Requests *)

\* to: the conversation or contact it is for; of: what is sent along.
Job(op, to, of) == [op |-> op, to |-> to, of |-> of, done |-> FALSE, ans |-> None]

InFlight  == DOMAIN work
Ended(j)  == work (-) SetToBag({j})
Begun(js) == work (+) SetToBag(js)

Settles(j, ans) == work' = Ended(j) (+) SetToBag({[j EXCEPT !.done = TRUE, !.ans = ans]})

\* Dialogs by what their submission does.
Dialogs == {"card", "task", "tag", "reply", "delete message"}

-----------------------------------------------------------------------------
(* Another conversation *)

\* Mutant: the effect leaves the form for a new client open.
FollowsKeepingForm(c, choice) ==
    /\ picker' = FALSE
    /\ IF c = None THEN suggested' = None /\ UNCHANGED <<busy, work>>
       ELSE /\ suggested' = choice
            /\ busy' = busy \cup {"detect"}
            /\ work' = Begun({Job("detect", c, None)})
    /\ UNCHANGED <<client, history, form, recorder, recording, inbound, dialogs>>

\* The effects on activeConversation.id and on the newest message, for the
\* conversation shown next: the client of it is asked for, as are suggestions
\* kept for it, while the previous client stays on screen.
Follows(c, choice) ==
    /\ form' = None /\ picker' = FALSE
    /\ IF c = None
       THEN /\ client' = None /\ history' = None
            /\ suggested' = None
            /\ UNCHANGED <<busy, work>>
       ELSE /\ suggested' = choice
            /\ busy' = busy \cup {"detect"} \cup (IF inbound THEN {"ai load"} ELSE {})
            /\ work' = Begun({Job("detect", c, None)} \cup
                             (IF inbound THEN {Job("ai load", c, None)} ELSE {}))
            /\ UNCHANGED <<client, history>>
    /\ UNCHANGED <<recorder, recording, inbound, dialogs>>

\* A step of the list, and what follows from a change of the conversation.
Then(step) ==
    /\ step
    /\ IF shown' # shown THEN Follows(shown', suggested) /\ UNCHANGED file
       ELSE UNCHANGED panel

\* Mutant: the attachment stays in the composer.
SelectWithFile(c) ==
    /\ Select(c)
    /\ UNCHANGED file
    /\ IF c # shown THEN Follows(c, None)
       ELSE /\ suggested' = None
            /\ UNCHANGED <<recorder, recording, inbound, contact, dialogs, busy, work>>

\* handleSelectConversation, from the list, the history or ?conversationId=:
\* attachment and suggestions go.
SelectConversation(c) ==
    /\ Select(c)
    /\ file' = None
    /\ IF c # shown THEN Follows(c, None)
       ELSE /\ suggested' = None
            /\ UNCHANGED <<recorder, recording, inbound, contact, dialogs, busy, work>>

-----------------------------------------------------------------------------
(* The composer *)

\* handleFileChange.
ChooseFile ==
    /\ shown # None /\ ~recording
    /\ file' = shown
    /\ UNCHANGED <<recorder, recording, ai, contact, dialogs, busy, work>>

\* cancelAttachment.
RemoveFile ==
    /\ file # None
    /\ file' = None
    /\ UNCHANGED <<recorder, recording, ai, contact, dialogs, busy, work>>

\* handleSendMessage with an attachment.  Enter sends while a send is under
\* way; only the button does not.
SendFile ==
    /\ shown # None /\ file # None /\ ~recording
    /\ work' = Begun({Job("file", shown, file)})
    /\ UNCHANGED <<composer, ai, contact, dialogs, busy>>

\* sendFile returns, with the message sent, refused or too large for it:
\* cancelAttachment, also of what has been chosen since.
FileSent(j) ==
    /\ j.op = "file"
    /\ file' = None
    /\ work' = Ended(j)
    /\ UNCHANGED <<recorder, recording, ai, contact, dialogs, busy>>

\* The upload fails: sendFile throws, and the attachment stays.
UploadFails(j) ==
    /\ j.op = "file"
    /\ work' = Ended(j)
    /\ UNCHANGED <<composer, ai, contact, dialogs, busy>>

\* startRecording, up to the microphone's permission.
StartRecording ==
    /\ shown # None /\ file = None /\ ~recording
    /\ work' = Begun({Job("mic", shown, None)})
    /\ UNCHANGED <<composer, ai, contact, dialogs, busy>>

MicGranted(j) ==
    /\ j.op = "mic"
    /\ recorder' = j.to /\ recording' = TRUE
    /\ work' = Ended(j)
    /\ UNCHANGED <<file, ai, contact, dialogs, busy>>

MicDenied(j) ==
    /\ j.op = "mic"
    /\ work' = Ended(j)
    /\ UNCHANGED <<composer, ai, contact, dialogs, busy>>

\* stopRecording, and handleMobileBack while recording: onstop sends the audio
\* to the conversation the recording was started in.
StopRecording ==
    /\ recording /\ shown # None
    /\ recording' = FALSE
    /\ work' = Begun({Job("audio", recorder, recorder)})
    /\ UNCHANGED <<file, recorder, ai, contact, dialogs, busy>>

\* "Cancel": the recorder is not stopped, and nothing stops it any more.
CancelRecording ==
    /\ recording /\ shown # None
    /\ recording' = FALSE
    /\ UNCHANGED <<file, recorder, ai, contact, dialogs, busy, work>>

\* sendAudio returns, or throws when the upload fails.
AudioSettles(j) ==
    /\ j.op = "audio"
    /\ work' = Ended(j)
    /\ UNCHANGED <<composer, ai, contact, dialogs, busy>>

-----------------------------------------------------------------------------
(* AI suggestions *)

\* The newest message of the thread is another one: an inbound one asks for the
\* suggestions kept for the conversation, an outbound one clears them.
NewestChanges(new) ==
    /\ shown # None
    /\ inbound' = new
    /\ IF new THEN /\ busy' = busy \cup {"ai load"}
                   /\ work' = Begun({Job("ai load", shown, None)})
                   /\ UNCHANGED suggested
       ELSE suggested' = None /\ UNCHANGED <<busy, work>>
    /\ UNCHANGED <<composer, contact, dialogs>>

\* generate, for the buttons of the panel and the phone's button.
Generate ==
    /\ shown # None /\ inbound
    /\ {"ai load", "ai generate"} \cap busy = {}
    /\ busy' = busy \cup {"ai generate"}
    /\ work' = Begun({Job("ai generate", shown, None)})
    /\ UNCHANGED <<composer, ai, contact, dialogs>>

\* fetchCached and generate go on, for whatever conversation; j.ans tells
\* whether there are suggestions.
Suggests(j) ==
    /\ j.op \in {"ai load", "ai generate"}
    /\ \E some \in BOOLEAN : suggested' = IF some THEN j.to ELSE None
    /\ busy' = busy \ {j.op}
    /\ work' = Ended(j)
    /\ UNCHANGED <<composer, inbound, contact, dialogs>>

-----------------------------------------------------------------------------
(* The linked client *)

\* The server: detect-client, PATCH of a contact's client, POST of a client.
AnswersDetect(j) ==
    /\ j.op = "detect" /\ ~j.done
    /\ Settles(j, linked[j.to])
    /\ UNCHANGED <<backend, composer, ai, contact, dialogs, busy>>

StoresLink(j) ==
    /\ j.op \in {"link", "link new", "unlink"} /\ ~j.done
    /\ linked' = [linked EXCEPT ![j.to] = j.of]
    /\ Settles(j, j.of)
    /\ UNCHANGED <<madeFor, composer, ai, contact, dialogs, busy>>

Recorded(k, c) == [x \in DOMAIN madeFor \cup {k} |-> IF x = k THEN c ELSE madeFor[x]]

StoresClient(j) ==
    /\ j.op = "create client" /\ ~j.done
    /\ \E k \in Clients \ (DOMAIN madeFor \cup {Known}) :
          /\ madeFor' = Recorded(k, j.of)
          /\ Settles(j, k)
    /\ UNCHANGED <<linked, composer, ai, contact, dialogs, busy>>

\* The answer is taken for the conversation shown by now, and the history of
\* the client is asked for.
Detected(j) ==
    /\ j.op = "detect" /\ j.done
    /\ client' = j.ans
    /\ busy' = (busy \ {"detect"}) \cup (IF j.ans = None THEN {} ELSE {"history"})
    /\ history' = IF j.ans = None THEN None ELSE history
    /\ work' = Ended(j) (+) SetToBag(IF j.ans = None THEN {}
                                     ELSE {Job("history", j.to, j.ans)})
    /\ UNCHANGED <<composer, ai, form, picker, dialogs>>

DetectFails(j) ==
    /\ j.op = "detect"
    /\ client' = None
    /\ busy' = busy \ {"detect"} /\ work' = Ended(j)
    /\ UNCHANGED <<composer, ai, history, form, picker, dialogs>>

\* getClientConversations after a detection ("history") or a link, and the
\* finally of each.
HistoryArrives(j) ==
    /\ j.op \in {"history", "link history"}
    /\ history' \in {j.of, IF j.op = "history" THEN None ELSE history}
    /\ busy' = busy \ {"history", IF j.op = "history" THEN "history" ELSE "link"}
    /\ work' = Ended(j)
    /\ UNCHANGED <<composer, ai, client, form, picker, dialogs>>

\* The section shows the client, the form, or the two ways to link one.
Unlinked == shown # None /\ "detect" \notin busy /\ client = None

OpenForm ==
    /\ Unlinked /\ form = None
    /\ form' = shown /\ picker' = FALSE
    /\ UNCHANGED <<composer, ai, client, history, dialogs, busy, work>>

CloseForm ==
    /\ Unlinked /\ form # None
    /\ form' = None
    /\ UNCHANGED <<composer, ai, client, history, picker, dialogs, busy, work>>

TogglePicker ==
    /\ Unlinked /\ form = None
    /\ picker' = ~picker
    /\ UNCHANGED <<composer, ai, client, history, form, dialogs, busy, work>>

\* "Create & link", up to its first await.
CreateClient ==
    /\ Unlinked /\ form # None /\ "form" \notin busy
    /\ busy' = busy \cup {"form"}
    /\ work' = Begun({Job("create client", shown, form)})
    /\ UNCHANGED <<composer, ai, contact, dialogs>>

\* The client is created; it is linked to the contact the handler was rendered
\* for.
ClientCreated(j) ==
    /\ j.op = "create client" /\ j.done
    /\ work' = Ended(j) (+) SetToBag({Job("link new", j.to, j.ans)})
    /\ UNCHANGED <<composer, ai, contact, dialogs, busy>>

LinkExisting ==
    /\ Unlinked /\ form = None /\ picker /\ "link" \notin busy
    /\ \E k \in {Known} \cup DOMAIN madeFor :
          work' = Begun({Job("link", shown, k)})
    /\ busy' = busy \cup {"link"}
    /\ UNCHANGED <<composer, ai, contact, dialogs>>

\* The link is stored: it is shown, whatever conversation is.
Linked(j) ==
    /\ j.op \in {"link", "link new"} /\ j.done
    /\ client' = j.of
    /\ IF j.op = "link"
       THEN /\ picker' = FALSE /\ busy' = busy \cup {"history"}
            /\ work' = Ended(j) (+) SetToBag({Job("link history", j.to, j.of)})
            /\ UNCHANGED form
       ELSE /\ form' = None /\ busy' = busy \ {"form"}
            /\ work' = Ended(j)
            /\ UNCHANGED picker
    /\ UNCHANGED <<composer, ai, history, dialogs>>

\* The catch and the finally of both handlers; a client that was created
\* before the link failed stays.
LinkFails(j) ==
    /\ j.op \in {"link", "link new", "create client"}
    /\ busy' = busy \ (IF j.op = "link" THEN {"link", "history"} ELSE {"form"})
    /\ work' = Ended(j)
    /\ UNCHANGED <<composer, ai, contact, dialogs>>

Unlink ==
    /\ shown # None /\ "detect" \notin busy /\ client # None
    /\ work' = Begun({Job("unlink", shown, None)})
    /\ UNCHANGED <<composer, ai, contact, dialogs, busy>>

\* Errors are ignored: the client disappears whether it was unlinked or not.
UnlinkSettles(j) ==
    /\ j.op = "unlink"
    /\ client' = None /\ history' = None
    /\ work' = Ended(j)
    /\ UNCHANGED <<composer, ai, form, picker, dialogs, busy>>

-----------------------------------------------------------------------------
(* The dialogs *)

\* handleMessageActionSelect, and "Add quick reply": cards and tasks need the
\* stages and the projects first.
OpenDialog(d) ==
    /\ shown # None
    /\ IF d \in {"card", "task"}
       THEN /\ busy' = busy \cup {"routing"}
            /\ work' = Begun({Job("routing", shown, d)})
            /\ UNCHANGED dialogs
       ELSE dialogs' = dialogs \cup {d} /\ UNCHANGED <<busy, work>>
    /\ UNCHANGED <<composer, ai, contact>>

\* openCreateCardModalForMessage and openCreateTaskModalForMessage go on.
RoutingSettles(j) ==
    /\ j.op = "routing"
    /\ dialogs' \in {dialogs, dialogs \cup {j.of}}
    /\ busy' = busy \ {"routing"}
    /\ work' = Ended(j)
    /\ UNCHANGED <<composer, ai, contact>>

\* Cancel, Escape or the backdrop, also while a submission is under way.
CloseDialog(d) ==
    /\ d \in dialogs
    /\ dialogs' = dialogs \ {d}
    /\ UNCHANGED <<composer, ai, contact, busy, work>>

\* All but the quick replies need an active conversation.
Submit(d) ==
    /\ d \in dialogs /\ d \notin busy
    /\ shown # None \/ d = "reply"
    /\ busy' = busy \cup {d}
    /\ work' = Begun({Job("submit", shown, d)})
    /\ UNCHANGED <<composer, ai, contact, dialogs>>

\* The submission has been stored.  A task and a deletion go on to ask for the
\* list; the tag is an update of the conversation, whose errors never arrive.
Submitted(j) ==
    /\ j.op = "submit"
    /\ dialogs' = dialogs \ {j.of}
    /\ busy' = busy \ {j.of}
    /\ work' = Ended(j)
    /\ asked' = CASE j.of \in {"task", "delete message"} -> Asking({FetchList})
                  [] j.of = "tag" -> Asking({Request("update", j.to)})
                  [] OTHER -> asked
    /\ UNCHANGED <<remote, list, composer, ai, contact>>

SubmitFails(j) ==
    /\ j.op = "submit" /\ j.of # "tag"
    /\ busy' = busy \ {j.of}
    /\ work' = Ended(j)
    /\ UNCHANGED <<remote, list, asked, composer, ai, contact, dialogs>>

-----------------------------------------------------------------------------
Init ==
    /\ ListInit
    /\ linked = [c \in Convs |-> IF c = shown THEN Known ELSE None]
    /\ madeFor = <<>>
    /\ file = None /\ recorder = None /\ recording = FALSE
    /\ inbound = (shown # None) /\ suggested = None
    /\ client = None /\ history = None /\ form = None /\ picker = FALSE
    /\ dialogs = {}
    /\ busy = IF shown = None THEN {} ELSE {"detect", "ai load"}
    /\ work = SetToBag(IF shown = None THEN {}
                       ELSE {Job("detect", shown, None), Job("ai load", shown, None)})
    /\ acts = 0

Server ==
    \/ ListServer /\ UNCHANGED <<backend, panel>>
    \/ /\ \E j \in InFlight : AnswersDetect(j) \/ StoresLink(j) \/ StoresClient(j)
       /\ UNCHANGED <<remote, list, asked>>

Arrives ==
    \/ Then(ListArrivals) /\ UNCHANGED backend
    \/ /\ \E j \in InFlight :
            \/ FileSent(j) \/ UploadFails(j) \/ AudioSettles(j)
            \/ MicGranted(j) \/ MicDenied(j)
            \/ Suggests(j) \/ Detected(j) \/ DetectFails(j) \/ HistoryArrives(j)
            \/ ClientCreated(j) \/ Linked(j) \/ LinkFails(j) \/ UnlinkSettles(j)
            \/ RoutingSettles(j)
       /\ UNCHANGED <<remote, list, asked, backend>>
    \/ (\E j \in InFlight : Submitted(j) \/ SubmitFails(j)) /\ UNCHANGED backend

Happens ==
    \/ Then(ListEvents) /\ UNCHANGED backend
    \/ Others /\ UNCHANGED <<backend, panel>>
    \/ /\ \E new \in BOOLEAN : NewestChanges(new)
       /\ UNCHANGED <<remote, list, asked, backend>>

InHeader   == \E op \in {"unread", "update", "assign", "delete"} : Change(op)
InDetails  == \E op \in {"update", "assign"} : Change(op)

InList     == \E c \in Convs : SelectConversation(c)
InHistory  == \E c \in Convs \ {shown} : shown # None /\ SelectConversation(c)

InComposer == \/ ChooseFile \/ RemoveFile \/ SendFile
              \/ StartRecording \/ StopRecording \/ CancelRecording

InContact  == \/ OpenForm \/ CloseForm \/ TogglePicker
              \/ CreateClient \/ LinkExisting \/ Unlink

InThread   == \E d \in Dialogs : OpenDialog(d)
InReplies  == OpenDialog("reply")

\* A dialog covers the rest of the page.
OnPage ==
    \/ InList \/ InHistory
    \/ (InHeader \/ InDetails) /\ UNCHANGED panel
    \/ /\ InComposer \/ Generate \/ InContact \/ InThread \/ InReplies
       /\ UNCHANGED <<remote, list, asked>>

CardDialog == CloseDialog("card") \/ Submit("card")
TaskDialog == CloseDialog("task") \/ Submit("task")

InDialog == \/ CardDialog \/ TaskDialog
            \/ \E d \in {"tag", "reply", "delete message"} : CloseDialog(d) \/ Submit(d)

User == \/ dialogs = {} /\ OnPage /\ UNCHANGED backend
        \/ InDialog /\ UNCHANGED <<remote, list, asked, backend>>

Calm == BagCardinality(asked) + BagCardinality(work) <= MaxWork

Next == \/ (Server \/ Arrives) /\ UNCHANGED acts
        \/ /\ Calm /\ acts < MaxActs
           /\ Happens \/ User
           /\ acts' = acts + 1

Spec == Init /\ [][Next]_vars

-----------------------------------------------------------------------------
(* Properties *)

\* The types of the variables.
TypeOK ==
    /\ ListTypes
    /\ linked \in [Convs -> Clients \cup {None}]
    /\ DOMAIN madeFor \subseteq Clients /\ Range(madeFor) \subseteq Convs
    /\ {file, recorder, suggested, form} \subseteq Convs \cup {None}
    /\ recording \in BOOLEAN /\ inbound \in BOOLEAN
    /\ {client, history} \subseteq Clients \cup {None} /\ picker \in BOOLEAN
    /\ dialogs \subseteq Dialogs
    /\ busy \subseteq Dialogs \cup {"detect", "history", "link", "form", "routing",
                                    "ai load", "ai generate"}
    /\ acts \in 0..MaxActs

\* A file is sent to the conversation it was chosen in, although the agent may
\* have gone on to another one before sending, and an upload that failed leaves
\* the file in the composer.
FileGoesHome ==
    \A j \in InFlight : j.op = "file" => j.to = j.of

\* A client created from the contact of one conversation is linked to this
\* contact, unless somebody picks it for another from the list of clients.
NewClientGoesHome ==
    \A j \in InFlight : j.op = "link new" => madeFor[j.of] = j.to

=============================================================================
