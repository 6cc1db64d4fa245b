----------------------------- MODULE MCAccess -----------------------------
(* Who may use what and what comes of it, side by side in one model: the    *)
(* conversations' locks, the sessions of the connectors and the questions   *)
(* they put to the user, the slots of the language servers, the session of  *)
(* a subscription and the answers of a model.  One of them runs while the   *)
(* others rest, for they share no state.                                    *)
EXTENDS TurnLocks, Naturals

CONSTANTS
    LocalServers, OauthPresets, KeyPresets, Pages, MaxLinks, MaxVersions,
    Leased, Tests, Probes, Accounts, MaxTokens,
    Sessions, ToolCalls, Questions, MaxRounds, MaxQuestions, MaxPending,
    Requests, Keys, MaxSlots, MaxRetirements,
    Backends, Styles, CutReasons, MaxItems, MaxFragments, MaxTools, RecoveryLimit

(* A server on this computer is called "local-" and a UUID, no preset is    *)
(* (LocalServer::validate).                                                 *)
ASSUME NamesAssumption == LocalServers \cap (OauthPresets \cup KeyPresets) = {}

(* Calls of connectors are numbered from 1; the keys of the language        *)
(* servers are ordered, as those of a BTreeMap.                             *)
ASSUME InputAssumption == ToolCalls \subseteq Nat \ {0} /\ Sessions # {}
ASSUME SlotsAssumption == IsFiniteSet(Requests) /\ Keys \subseteq Nat /\ Keys # {} /\ MaxSlots \in Nat \ {0}

(* There are three protocols.  An answer has fragments and calls; what cuts *)
(* it short is none of the reasons that a completed answer gives, nor a     *)
(* state of saying it.                                                      *)
ASSUME RoundsAssumption ==
    /\ Backends \subseteq {"openai", "claude", "responses"}
    /\ MaxFragments \in Nat /\ MaxTools \in Nat
    /\ CutReasons \cap {"stop", "tool_calls", "refusal", "no", "cutting"} = {}

VARIABLES
    service,        \* the one that runs
    servers, accounts, remembered, hub, links, work, todo, running, versions, reply,
    vault, rotates, seekers, signin, valid, issued, lost,
    toolCall, occupant, minted, question, pending, dialogs, cancelled,
    registry, pooled, req, retire, leaving, retirements,
    reading, backend, style, reader, output, said, fault, finishSeen, indices, hasInput,
    items, calls, text, finish, recoveries

Sources == INSTANCE Connectors
Login == INSTANCE Subscription
Input == INSTANCE McpInput WITH owner <- occupant
Slots == INSTANCE LspSlots
Round == INSTANCE ModelStream WITH at <- reading

sources == <<servers, accounts, remembered, hub, links, work, todo, running, versions, reply>>
login == <<vault, rotates, seekers, signin, valid, issued, lost>>
input == <<toolCall, occupant, minted, question, pending, dialogs, cancelled>>
slots == <<registry, pooled, req, retire, leaving, retirements>>
stream == <<reading, backend, style, reader, output, said, fault, finishSeen, indices, hasInput,
            items, calls, text, finish, recoveries>>

everything == <<service, vars, sources, login, input, slots, stream>>

(* A service at rest is in one of its initial states. *)
AccessInit ==
    /\ service \in {"locks", "sources", "login", "input", "slots", "stream"}
    /\ Init
    /\ Sources!Init
    /\ service = "sources" \/ (servers = [s \in LocalServers |-> 0] /\ accounts = {} /\ remembered = {})
    /\ Login!Init /\ (service = "login" \/ (vault = Login!Gone /\ rotates))
    /\ Input!Init
    /\ Slots!Init
    /\ Round!Init /\ (service = "stream" \/ (backend = "claude" /\ reader = "turn"))

LockStep == service = "locks" /\ Next /\ UNCHANGED <<service, sources, login, input, slots, stream>>
SourceStep == service = "sources" /\ Sources!Next /\ UNCHANGED <<service, vars, login, input, slots, stream>>
LoginStep == service = "login" /\ Login!Next /\ UNCHANGED <<service, vars, sources, input, slots, stream>>
InputStep == service = "input" /\ Input!Next /\ UNCHANGED <<service, vars, sources, login, slots, stream>>
SlotStep == service = "slots" /\ Slots!Next /\ UNCHANGED <<service, vars, sources, login, input, stream>>
StreamStep == service = "stream" /\ Round!Next /\ UNCHANGED <<service, vars, sources, login, input, slots>>

(* After the exit of the program there are no more connectors, the calls    *)
(* and retirements are bounded, and an answer ends: only the locks are      *)
(* checked for deadlock.                                                    *)
Rests == service # "locks" /\ UNCHANGED everything

AccessNext == LockStep \/ SourceStep \/ LoginStep \/ InputStep \/ SlotStep \/ StreamStep \/ Rests

AccessSpec == AccessInit /\ [][AccessNext]_everything

-----------------------------------------------------------------------------
(* What the hub, the vault, the store and the user know of a connector      *)
(* agree (McpHub).                                                          *)
ConnectionsHold == Sources!ConnectionsHold

(* A session stays refreshable, however many refresh it at once             *)
(* (refresh_subscription_token).                                            *)
StaysRefreshable == Login!StaysRefreshable

(* Nobody closes a question of another session (mint_scope).               *)
OpenQuestionsStay == Input!OpenQuestionsStay

(* No session of an old configuration is used, and a slot at rest keeps no  *)
(* request from its permit (clear, restore, Slots).                        *)
SlotsHold == Slots!SlotsHold

(* A finished answer is taken, once, and calls run from no other           *)
(* (ModelStream, Stream of responses_adapter).                             *)
WholeRounds == Round!WholeRounds
=============================================================================
