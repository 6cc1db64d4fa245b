----------------------------- MODULE Interface -----------------------------
(* The window of the application (App.tsx, the composer of Chat.tsx,        *)
(* drafts.ts): which conversation is active, whose messages are shown,      *)
(* where a draft is kept, and the commands that wait for the backend while  *)
(* the user goes on.  The window is one thread: an action is what a handler *)
(* does between two awaits.                                                 *)
EXTENDS Naturals

CONSTANTS
    MaxChats,       \* bound: conversations that ever exist, numbered from 1
    MaxDrafts,      \* bound: prompts the user types, numbered from 1
    MaxSwitches,    \* bound: changes of the active conversation
    Overtaken,      \* what the user may start while a new chat, a removal or a fork waits
    OverResume      \* what the user may start while a resume waits

VARIABLES
    made,           \* the conversations ever made are 1 .. made
    listed,         \* those that are not deleted
    active,         \* activeId; Home when it is null
    shown,          \* the conversations whose messages are on screen
    loading,        \* a conversation is being opened
    version,        \* selection.current
    loads,          \* selectConversation calls that wait for the backend
    opening,        \* newConversation waits for the workspace index
    removing,       \* removeConversations: what is left to delete and what it knew
    forking,        \* a fork of the trajectory, up to its selection
    resuming,       \* the conversation whose resume waits, or Home
    draftKey,       \* draftId.current
    drafts,         \* the saved draft of each conversation and of the new one; 0 is none
    sending,        \* the call of send in flight
    typed,          \* prompts typed so far
    accepted,       \* history: <<conversation, prompt>> the backend saved
    told,           \* history: prompts the user was asked to verify
    covered,        \* history: prompts given up for a newer draft
    meant           \* history: the conversation each prompt was written for

view == <<made, listed, active, shown, loading, version, loads, opening, removing, forking, resuming>>
composer == <<draftKey, drafts, sending, typed>>
outcome == <<accepted, told, covered, meant>>
vars == <<view, composer, outcome>>

Home == 0
Chats == 1 .. MaxChats
DraftKeys == Chats \cup {Home}
Prompts == 1 .. MaxDrafts

NoSend == [at |-> "no", chat |-> Home, prompt |-> 0, cancelled |-> FALSE, threw |-> FALSE]
NoRemoval == [left |-> {}, all |-> {}, active |-> Home]
NoFork == [at |-> "no", chat |-> Home, busy |-> FALSE, current |-> FALSE]

TypeOK ==
    /\ made \in 0 .. MaxChats /\ listed \subseteq 1 .. made /\ active \in DraftKeys
    /\ shown \subseteq Chats /\ loading \in BOOLEAN /\ version \in Nat
    /\ loads \subseteq [chat : Chats, version : Nat] /\ opening \in BOOLEAN
    /\ removing \in [left : SUBSET Chats, all : SUBSET Chats, active : DraftKeys]
    /\ forking \in [at : {"no", "fork", "boot"}, chat : DraftKeys, busy : BOOLEAN, current : BOOLEAN]
    /\ resuming \in DraftKeys
    /\ draftKey \in DraftKeys /\ drafts \in [DraftKeys -> 0 .. MaxDrafts]
    /\ sending \in [at : {"no", "create", "meta", "tools", "turn", "check", "refresh", "last"},
                    chat : DraftKeys, prompt : 0 .. MaxDrafts, cancelled : BOOLEAN, threw : BOOLEAN]
    /\ typed \in 0 .. MaxDrafts /\ accepted \subseteq Chats \X Prompts
    /\ told \subseteq Prompts /\ covered \subseteq Prompts /\ meant \in [Prompts -> DraftKeys]

Init ==
    /\ made \in {0, MaxChats - 1} /\ listed = 1 .. made
    /\ active = Home /\ shown = {} /\ loading = FALSE /\ version = 0 /\ loads = {}
    /\ opening = FALSE /\ removing = NoRemoval /\ forking = NoFork /\ resuming = Home
    /\ draftKey = Home /\ drafts = [k \in DraftKeys |-> 0] /\ sending = NoSend /\ typed = 0
    /\ accepted = {} /\ told = {} /\ covered = {} /\ meant = [p \in Prompts |-> Home]

-----------------------------------------------------------------------------
(* Model actions, saved tools and exports, which also count, are not here. *)
Busy == sending.at # "no" \/ loading

Leaving == opening \/ removing.left # {} \/ forking.at # "no"
Waiting == Leaving \/ resuming # Home
MayStart(kind) ==
    /\ Leaving => kind \in Overtaken
    /\ resuming # Home => kind \in OverResume

Leaves == version < MaxSwitches

(* The trajectory shows the active conversation; when that changes, what it *)
(* has asked for is no longer current.                                      *)
Retraced == forking' = IF active' = active THEN forking ELSE [forking EXCEPT !.current = FALSE]

(* The active conversation changes to c, which is loaded by a new call.     *)
Opens(c) ==
    /\ version' = version + 1 /\ loads' = loads \cup {[chat |-> c, version |-> version + 1]}
    /\ draftKey' = c /\ active' = c /\ loading' = TRUE /\ shown' = {}

Select(c) ==
    /\ ~Busy /\ Leaves /\ MayStart("select") /\ c \in listed
    /\ Opens(c) /\ Retraced
    /\ UNCHANGED <<made, listed, opening, removing, resuming, drafts, sending, typed, outcome>>

(* The messages, tools and preset of the conversation, or an error.  Only   *)
(* the newest selection is heard.                                           *)
SelectAnswered(l) ==
    /\ loads' = loads \ {l}
    /\ IF l.version # version THEN UNCHANGED <<shown, active, draftKey, loading>>
       ELSE /\ loading' = FALSE
            /\ \/ /\ l.chat \in listed /\ shown' = {l.chat}
                  /\ UNCHANGED <<active, draftKey>>
               \/ /\ active' = Home /\ draftKey' = Home /\ UNCHANGED shown
    /\ Retraced
    /\ UNCHANGED <<made, listed, version, opening, removing, resuming, drafts, sending, typed, outcome>>

(* The view leaves for the composer of a new conversation. *)
ToHome ==
    draftKey' = Home /\ version' = version + 1 /\ active' = Home /\ shown' = {}

GoHome ==
    /\ ~Busy /\ Leaves /\ MayStart("home")
    /\ ToHome /\ Retraced
    /\ UNCHANGED <<made, listed, loading, loads, opening, removing, resuming, drafts, sending, typed, outcome>>

New ==
    /\ ~Busy /\ Leaves /\ ~Waiting /\ opening' = TRUE
    /\ UNCHANGED <<made, listed, active, shown, loading, version, loads, removing, forking, resuming,
                   composer, outcome>>

(* The index has come; without a project the view stays.                    *)
NewOpens ==
    /\ opening /\ opening' = FALSE
    /\ ToHome \/ UNCHANGED <<draftKey, version, active, shown>>
    /\ Retraced
    /\ UNCHANGED <<made, listed, loading, loads, removing, resuming, drafts, sending, typed, outcome>>

(* The conversations of a deleted project go one by one.                    *)
Remove(chats) ==
    /\ ~Busy /\ Leaves /\ ~Waiting /\ chats # {} /\ chats \subseteq listed
    /\ removing' = [left |-> chats, all |-> chats, active |-> active]
    /\ UNCHANGED <<made, listed, active, shown, loading, version, loads, opening, forking, resuming,
                   composer, outcome>>

(* One is gone.  After the last the view leaves the conversation that was   *)
(* active when the removal began, if that is gone, for a new one.           *)
Removed(c) ==
    /\ c \in removing.left /\ sending.at # "turn"
    /\ listed' = listed \ {c}
    /\ IF removing.left # {c}
       THEN /\ removing' = [removing EXCEPT !.left = @ \ {c}]
            /\ UNCHANGED <<version, active, shown, opening>>
       ELSE /\ removing' = NoRemoval
            /\ IF removing.active \in removing.all
               THEN version' = version + 1 /\ active' = Home /\ shown' = {} /\ opening' = TRUE
               ELSE UNCHANGED <<version, active, shown, opening>>
    /\ Retraced
    /\ UNCHANGED <<made, loading, loads, resuming, composer, outcome>>

(* delete_conversation fails, as it does while a turn runs.                 *)
RemovalFails ==
    /\ removing.left # {} /\ removing' = NoRemoval
    /\ UNCHANGED <<made, listed, active, shown, loading, version, loads, opening, forking, resuming,
                   composer, outcome>>

(* The trajectory's fork keeps the selectConversation of the moment it was  *)
(* asked for, and with it what was busy then.                               *)
Fork ==
    /\ active # Home /\ ~Waiting /\ Leaves /\ made < MaxChats
    /\ forking' = [at |-> "fork", chat |-> Home, busy |-> Busy, current |-> TRUE]
    /\ UNCHANGED <<made, listed, active, shown, loading, version, loads, opening, removing, resuming,
                   composer, outcome>>

(* The fork is made.  It is heard if the trajectory shows what it did then, *)
(* and was not closed or read again.                                        *)
Forked ==
    /\ forking.at = "fork"
    /\ \/ /\ made < MaxChats
          /\ made' = made + 1 /\ listed' = listed \cup {made + 1}
          /\ \/ /\ forking.current
                /\ forking' = [forking EXCEPT !.at = "boot", !.chat = made + 1, !.current = FALSE]
             \/ forking' = NoFork
       \/ forking' = NoFork /\ UNCHANGED <<made, listed>>
    /\ UNCHANGED <<active, shown, loading, version, loads, opening, removing, resuming, composer, outcome>>

ForkOpens ==
    /\ forking.at = "boot" /\ forking' = NoFork
    /\ \/ ~forking.busy /\ Opens(forking.chat)
       \/ UNCHANGED <<version, loads, draftKey, active, loading, shown>>
    /\ UNCHANGED <<made, listed, opening, removing, resuming, drafts, sending, typed, outcome>>

-----------------------------------------------------------------------------
(* changeDraft: the user writes the next prompt.                            *)
Type ==
    /\ typed < MaxDrafts /\ drafts[draftKey] = 0
    /\ typed' = typed + 1
    /\ drafts' = [drafts EXCEPT ![draftKey] = typed + 1]
    /\ meant' = [meant EXCEPT ![typed + 1] = draftKey]
    /\ UNCHANGED <<view, draftKey, sending, accepted, told, covered>>

(* submit of the composer, up to the first await of send.                   *)
Submit ==
    /\ ~Busy /\ drafts[draftKey] # 0 /\ MayStart("send")
    /\ sending' = [NoSend EXCEPT !.at = IF active = Home THEN "create" ELSE "tools",
                                 !.chat = active, !.prompt = drafts[draftKey]]
    /\ drafts' = [drafts EXCEPT ![draftKey] = 0]
    /\ UNCHANGED <<view, draftKey, typed, outcome>>

(* onResume: the backend gives the checkpoint back, and the send of the     *)
(* moment it was asked for goes to the conversation that was active then,   *)
(* whatever is busy by now.  It carries no prompt of the user's.  One send  *)
(* at a time is a bound.                                                    *)
Resume ==
    /\ ~Busy /\ ~Waiting /\ active # Home /\ resuming' = active
    /\ UNCHANGED <<made, listed, active, shown, loading, version, loads, opening, removing, forking,
                   composer, outcome>>

ResumeAnswered ==
    /\ resuming # Home /\ resuming' = Home
    /\ \/ sending.at = "no" /\ sending' = [NoSend EXCEPT !.at = "tools", !.chat = resuming]
       \/ UNCHANGED sending
    /\ UNCHANGED <<made, listed, active, shown, loading, version, loads, opening, removing, forking,
                   draftKey, drafts, typed, outcome>>

(* What the user wrote, of what is on its way. *)
Carries == {sending.prompt} \ {0}

(* The conversation exists; what was written since goes along.              *)
Created ==
    /\ sending.at = "create" /\ made < MaxChats
    /\ LET c == made + 1 IN
       /\ made' = c /\ listed' = listed \cup {c} /\ active' = c /\ draftKey' = c
       /\ drafts' = [drafts EXCEPT ![c] = drafts[Home], ![Home] = 0]
       /\ meant' = [p \in Prompts |-> IF p \in {sending.prompt, drafts[Home]} THEN c ELSE meant[p]]
       /\ sending' = [sending EXCEPT !.chat = c, !.at = IF sending.cancelled THEN "check" ELSE "meta"]
    /\ Retraced
    /\ UNCHANGED <<shown, loading, version, loads, opening, removing, resuming, typed, accepted, told, covered>>

CreationFails ==
    /\ sending.at = "create"
    /\ sending' = [sending EXCEPT !.at = "refresh", !.threw = TRUE]
    /\ UNCHANGED <<view, draftKey, drafts, typed, outcome>>

(* Task data and preset of a new conversation; then, for all, the tools.    *)
MetaSaved ==
    /\ sending.at = "meta"
    /\ \E next \in {"tools", "check"} :
          /\ sending.cancelled => next = "check"
          /\ sending' = [sending EXCEPT !.at = next]
    /\ UNCHANGED <<view, draftKey, drafts, typed, outcome>>

ToolsSaved ==
    /\ sending.at = "tools"
    /\ \/ ~sending.cancelled /\ sending' = [sending EXCEPT !.at = "turn"] /\ shown' = shown \cup {sending.chat}
       \/ sending' = [sending EXCEPT !.at = "check"] /\ UNCHANGED shown
    /\ UNCHANGED <<made, listed, active, loading, version, loads, opening, removing, forking, resuming,
                   draftKey, drafts, typed, outcome>>

(* onCancel: heard before the backend is called, else passed to it.         *)
Cancel ==
    /\ sending.at # "no" /\ ~sending.cancelled
    /\ sending' = [sending EXCEPT !.cancelled = TRUE]
    /\ UNCHANGED <<view, draftKey, drafts, typed, outcome>>

(* An event of the turn adds to the messages on screen.                     *)
TurnStreams ==
    /\ sending.at = "turn" /\ shown' = shown \cup {sending.chat}
    /\ UNCHANGED <<made, listed, active, loading, version, loads, opening, removing, forking, resuming,
                   composer, outcome>>

(* send_message answers, or fails before or after it saved the prompt.      *)
TurnEnds ==
    /\ sending.at = "turn"
    /\ \/ /\ sending.chat \in listed /\ accepted' = accepted \cup ({sending.chat} \X Carries)
          /\ \E next \in {"refresh", "check"} : sending' = [sending EXCEPT !.at = next]
       \/ sending' = [sending EXCEPT !.at = "check"] /\ UNCHANGED accepted
    /\ UNCHANGED <<view, draftKey, drafts, typed, told, covered, meant>>

(* A slip: an error of the turn is taken for a prompt that was not.         *)
CheckedByError ==
    /\ sending.at = "check" /\ shown' = {sending.chat}
    /\ sending' = [sending EXCEPT !.at = "refresh", !.threw = TRUE]
    /\ UNCHANGED <<made, listed, active, loading, version, loads, opening, removing, forking, resuming,
                   draftKey, drafts, typed, outcome>>

(* After an error the saved messages decide whether the prompt was taken.   *)
Checked ==
    /\ sending.at = "check" /\ shown' = {sending.chat}
    /\ sending' = [sending EXCEPT !.at = "refresh",
                                  !.threw = <<sending.chat, sending.prompt>> \notin accepted]
    /\ UNCHANGED <<made, listed, active, loading, version, loads, opening, removing, forking, resuming,
                   draftKey, drafts, typed, outcome>>

CheckFails ==
    /\ sending.at = "check"
    /\ sending' = [sending EXCEPT !.at = "refresh"] /\ told' = told \cup Carries
    /\ UNCHANGED <<view, draftKey, drafts, typed, accepted, covered, meant>>

Refreshed ==
    /\ sending.at = "refresh" /\ sending.chat # Home
    /\ sending' = [sending EXCEPT !.at = "last"] /\ shown' = {sending.chat}
    /\ UNCHANGED <<made, listed, active, loading, version, loads, opening, removing, forking, resuming,
                   draftKey, drafts, typed, outcome>>

(* The lists have come, or any refresh failed.  A send that threw gives the *)
(* prompt back to the composer, unless something is there.                  *)
SendEnds ==
    /\ sending.at \in {"refresh", "last"} /\ sending' = NoSend
    /\ IF ~sending.threw \/ Carries = {} THEN UNCHANGED <<drafts, covered>>
       ELSE IF drafts[draftKey] = 0
       THEN drafts' = [drafts EXCEPT ![draftKey] = sending.prompt] /\ UNCHANGED covered
       ELSE covered' = covered \cup {sending.prompt} /\ UNCHANGED drafts
    /\ UNCHANGED <<view, draftKey, typed, accepted, told, meant>>

-----------------------------------------------------------------------------
Next ==
    \/ \E c \in Chats : Select(c) \/ Removed(c)
    \/ \E l \in loads : SelectAnswered(l)
    \/ GoHome \/ New \/ NewOpens \/ (\E chats \in SUBSET Chats : Remove(chats)) \/ RemovalFails
    \/ Fork \/ Forked \/ ForkOpens
    \/ Type \/ Submit \/ Resume \/ ResumeAnswered \/ Created \/ CreationFails \/ MetaSaved \/ ToolsSaved \/ Cancel
    \/ TurnStreams \/ TurnEnds \/ Checked \/ CheckFails \/ Refreshed \/ SendEnds

Spec == Init /\ [][Next]_vars

-----------------------------------------------------------------------------
(* What is on screen belongs to the conversation the next prompt goes to:   *)
(* a late answer of an earlier selection shows nothing (App.tsx).           *)
ShownIsActive == shown \subseteq {active} \ {Home}

Draft(p) == \E k \in DraftKeys : drafts[k] = p
Taken(p) == \E c \in Chats : <<c, p>> \in accepted

(* A prompt is never lost and never sent twice by its return: when no send  *)
(* carries it, it is a draft of the conversation it was written for, or it  *)
(* was saved, or the user was told to look, or a newer draft stands in its  *)
(* place; and a draft was not saved.  (Chat.tsx submit, App.tsx send.)      *)
PromptKept ==
    /\ \A p \in 1 .. typed :
          \/ Draft(p) \/ Taken(p) \/ p \in told \cup covered
          \/ sending.at # "no" /\ sending.prompt = p
    /\ \A k \in DraftKeys : drafts[k] # 0 => meant[drafts[k]] = k /\ ~Taken(drafts[k])

(* What is on screen and what the user wrote stay where they belong, however *)
(* late the backend answers (App.tsx).                                      *)
WindowHolds == ShownIsActive /\ PromptKept

(* Checked by hand: the window leaves "loading" only by an answer; one must *)
(* be under way.  It need not be, when a new chat, a removal or a fork      *)
(* overtakes the selection.                                                 *)
LoadingIsAnswered == loading => \E l \in loads : l.version = version
=============================================================================
