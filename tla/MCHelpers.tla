----------------------------- MODULE MCHelpers -----------------------------
(* What a round of a turn goes through, side by side in one model: the      *)
(* bytes of the model's answer, the compaction of its context, the          *)
(* permission rules, programs of calls, a debugger, the task graph; and     *)
(* what stands around the turn, the window and the installers.              *)
(* One of them runs while the others rest, for they share no state.         *)
EXTENDS Naturals

CONSTANTS
    Bytes, MaxBytes, MaxEvent,
    Keep, Smaller, ToolKeep, Threshold, Capacity, ClockPasses, MidwayCrashes,
    MaxTurns, MaxTools, MaxTime,
    Letters, MaxPattern, MaxPath, MaxRules,
    Signatures, Reads, Asking, Searches, MaxSearches, MaxCalls, MaxMembers, MaxPrograms,
    MaxSignals, Forms, BadNames,
    Tasks,
    MaxChats, MaxDrafts, MaxSwitches, Overtaken, OverResume,
    MaxAssets, MaxFiles, MaxRuns, MaxFaults,
    MaxStops, MaxMail, MaxLeases

(* A runtime has an archive at least.  A window has a conversation to make. *)
(* Budgets are numbers.  A letter of a name is not a star of a pattern, nor *)
(* the end of one.  A window leaves turns, and instants are numbers.        *)
ASSUME SearchesAssumption == MaxSearches \in Nat /\ MaxMembers \in Nat
ASSUME SetupAssumption == MaxAssets \in Nat \ {0} /\ MaxFiles \in Nat /\ MaxRuns \in Nat /\ MaxFaults \in Nat
ASSUME ScreenAssumption == MaxChats \in Nat \ {0} /\ MaxDrafts \in Nat /\ MaxSwitches \in Nat
ASSUME RulesAssumption == Letters \cap {"*", "**", "end"} = {}
ASSUME WindowsAssumption ==
    Keep \in Nat \ {0} /\ ToolKeep \in Nat \ {0} /\ Smaller \in SUBSET Nat /\ MaxTime \in Nat

VARIABLES
    service,        \* the one that runs
    wire, chunk, lineBytes, data, eventSize, skipLf, started, events, delivered,
    messages, clock, checkpoint, archives, cache, phase, turn, tools,
    buffer, original, window, tokens, store,
    ruled, judging, rule, judged, tries, place, stars, effect, expected, decision,
    program, form, log, hand, blocked, spent, flag, bump, wake, late, programs, signals, answer,
    task, deps, search,
    made, listed, active, shown, loading, version, loads, opening, removing, forking, resuming,
    draftKey, drafts, sending, typed, accepted, told, covered, meant,
    install, wanted, status, runs, staging, bundles, collector, faults, spared,
    debuggee, mail, asked, session, names, request, leases

Decoder == INSTANCE EventStream WITH at <- chunk, pending <- lineBytes
Context == INSTANCE Compaction WITH rows <- messages
Rules == INSTANCE PermissionRules WITH call <- ruled, at <- judging
Plans == INSTANCE Ptc WITH at <- program
Graph == INSTANCE TaskGraph WITH state <- task
Screen == INSTANCE Interface
Setup == INSTANCE Installer
Probe == INSTANCE Debugger

decoder == <<wire, chunk, lineBytes, data, eventSize, skipLf, started, events, delivered>>
context == <<messages, clock, checkpoint, archives, cache, phase, turn, tools,
             buffer, original, window, tokens, store>>
rules == <<ruled, judging, rule, judged, tries, place, stars, effect, expected, decision>>
plans == <<program, form, log, hand, blocked, spent, flag, bump, wake, late, programs, signals, answer>>
graph == <<task, deps, search>>
screen == <<made, listed, active, shown, loading, version, loads, opening, removing, forking, resuming,
            draftKey, drafts, sending, typed, accepted, told, covered, meant>>
setup == <<install, wanted, status, runs, staging, bundles, collector, faults, spared>>
probe == <<debuggee, mail, asked, session, names, request, leases>>

Services == {"decoder", "context", "rules", "plans", "graph", "screen", "setup", "probe"}
vars == <<service, decoder, context, rules, plans, graph, screen, setup, probe>>

(* A service at rest is in one of its initial states. *)
Init ==
    /\ service \in Services
    /\ Decoder!Init
    /\ Context!Init
    /\ Rules!Init /\ (service = "rules" \/ ruled.action = "tool")
    /\ Plans!Init
    /\ Graph!Init
    /\ Screen!Init /\ (service = "screen" \/ made = 0)
    /\ Setup!Init
    /\ Probe!Init

NotDecoder == UNCHANGED <<service, context, rules, plans, graph, screen, setup, probe>>
NotContext == UNCHANGED <<service, decoder, rules, plans, graph, screen, setup, probe>>
NotRules == UNCHANGED <<service, decoder, context, plans, graph, screen, setup, probe>>
NotPlans == UNCHANGED <<service, decoder, context, rules, graph, screen, setup, probe>>
NotGraph == UNCHANGED <<service, decoder, context, rules, plans, screen, setup, probe>>
NotScreen == UNCHANGED <<service, decoder, context, rules, plans, graph, setup, probe>>
NotSetup == UNCHANGED <<service, decoder, context, rules, plans, graph, screen, probe>>
NotProbe == UNCHANGED <<service, decoder, context, rules, plans, graph, screen, setup>>

DecoderStep == service = "decoder" /\ Decoder!Next /\ NotDecoder
ContextStep == service = "context" /\ Context!Next /\ NotContext
RulesStep == service = "rules" /\ Rules!Next /\ NotRules
PlanStep == service = "plans" /\ Plans!Next /\ NotPlans
GraphStep == service = "graph" /\ Graph!Next /\ NotGraph
ScreenStep == service = "screen" /\ Screen!Next /\ NotScreen
SetupStep == service = "setup" /\ Setup!Next /\ NotSetup
ProbeStep == service = "probe" /\ Probe!Next /\ NotProbe

Next ==
    \/ DecoderStep \/ ContextStep \/ RulesStep \/ PlanStep \/ GraphStep
    \/ ScreenStep \/ SetupStep \/ ProbeStep

Spec == Init /\ [][Next]_vars

-----------------------------------------------------------------------------
(* The cuts of the network do not change the events (SseDecoder).          *)
ChunksDoNotMatter == Decoder!ChunksDoNotMatter

(* Compaction archives what it hides, parts no turn and keeps the work at   *)
(* hand (compact_now, kept_boundary, plan_compaction).                     *)
ContextHolds == Context!ContextHolds

(* The last rule whose pattern covers the call decides (evaluate).         *)
LastMatchDecides == Rules!LastMatchDecides

(* What ended badly is not repeated by a program, and what a program ran    *)
(* has its audit row (dispatch_call, dispatch_parallel).                   *)
RunsAccounted == Plans!RunsAccounted

(* No tasks wait for each other, and no change is refused for a cycle that  *)
(* is not there (find_cycle).                                              *)
TasksHold == Graph!TasksHold

(* What is on screen and what was written stay where they belong (App.tsx). *)
WindowHolds == Screen!WindowHolds

(* A runtime is installed whole or not at all (install, clean).            *)
WholeOrAbsent == Setup!WholeOrAbsent

(* A debugger takes no reference of an earlier stop (References).          *)
ReferencesAreCurrent == Probe!ReferencesAreCurrent
=============================================================================
