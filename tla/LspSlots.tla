------------------------------ MODULE LspSlots ------------------------------
(* The pool of language servers (Manager in lsp_client.rs).  A request      *)
(* finds the slot of its key, locks it, takes the session out and puts it   *)
(* back only after a complete answer.  A session, wherever it is, has a     *)
(* permit; a slot lives while the registry, a request or a retirement       *)
(* refers to it, and its session dies with it.                              *)
EXTENDS Naturals, FiniteSets

CONSTANTS
    Requests,
    Keys,           \* owner, root and server, in the order of the registry
    MaxSlots,       \* slots of the registry, and permits: 4 in the code
    MaxRetirements  \* bound on the retirements of the pool

VARIABLES
    registry,       \* the slot of each key, 0 without one
    pooled,         \* what each slot holds: "none", a "new" session or an "old"
    req,            \* the requests in progress, and the session of each
    retire,         \* the retirement in progress, and the slots it waits for
    leaving,        \* sessions that retirement shuts down
    retirements

vars == <<registry, pooled, req, retire, leaving, retirements>>

Slots == 1..2 * MaxSlots + Cardinality(Requests)
Idle == [at |-> "idle", key |-> CHOOSE k \in Keys : TRUE, slot |-> 0, session |-> "none", retired |-> FALSE]
NoRetirement == [at |-> "none", busy |-> {}]

Init ==
    /\ registry = [k \in Keys |-> 0]
    /\ pooled = [s \in Slots |-> "none"]
    /\ req = [r \in Requests |-> Idle]
    /\ retire = NoRetirement /\ leaving = 0 /\ retirements = 0

Registered(reg) == {reg[k] : k \in Keys} \ {0}
Referred(reg, rq, rt) == Registered(reg) \cup {rq[r].slot : r \in Requests} \cup rt.busy

(* Who has the lock of slot s: `slot.lock().await` in `request_guarded`. *)
HasLock(r) == req[r].at \in {"permit", "using"}
Locked(s) == \E r \in Requests : HasLock(r) /\ req[r].slot = s

LiveSessions == Cardinality({s \in Slots : pooled[s] # "none"})
            + Cardinality({r \in Requests : req[r].session # "none"}) + leaving
PermitFree == LiveSessions < MaxSlots

(* The step to these references drops the slots that nothing refers to. *)
Refers(reg, rq, rt, slots) ==
    /\ registry' = reg /\ req' = rq /\ retire' = rt
    /\ pooled' = [s \in Slots |-> IF s \in Referred(reg, rq, rt) THEN slots[s] ELSE "none"]

(* The watch is subscribed and checked, and the generation noted. *)
Ask(r) ==
    /\ req[r].at = "idle"
    /\ \E k \in Keys : req' = [req EXCEPT ![r] = [Idle EXCEPT !.at = "asked", !.key = k]]
    /\ UNCHANGED <<registry, pooled, retire, leaving, retirements>>

(* Manager::slot.  A full registry gives up the slot of its first key      *)
(* whose lock is free, and refuses when there is none.                     *)
Removable == {k \in Keys : registry[k] # 0 /\ ~Locked(registry[k])}
FirstKey(keys) == CHOOSE k \in keys : \A l \in keys : k <= l
Full == Cardinality(Registered(registry)) >= MaxSlots

FindSlot(r) ==
    /\ req[r].at = "asked"
    /\ LET k == req[r].key
           fresh == CHOOSE s \in Slots : s \notin Referred(registry, req, retire)
           room == IF Full THEN [registry EXCEPT ![FirstKey(Removable)] = 0] ELSE registry
       IN \/ /\ registry[k] # 0
             /\ Refers(registry, [req EXCEPT ![r].at = "found", ![r].slot = registry[k]], retire, pooled)
          \/ /\ registry[k] = 0 /\ (Full => Removable # {})
             /\ Refers([room EXCEPT ![k] = fresh],
                       [req EXCEPT ![r].at = "found", ![r].slot = fresh], retire, pooled)
          \/ /\ registry[k] = 0 /\ Full /\ Removable = {}
             /\ Refers(registry, [req EXCEPT ![r] = Idle], retire, pooled)
    /\ UNCHANGED <<leaving, retirements>>

LockSlot(r) ==
    /\ req[r].at = "found" /\ ~Locked(req[r].slot)
    /\ LET s == req[r].slot
       IN IF pooled[s] = "none"
          THEN req' = [req EXCEPT ![r].at = "permit"] /\ UNCHANGED pooled
          ELSE /\ req' = [req EXCEPT ![r].at = "using", ![r].session = pooled[s]]
               /\ pooled' = [pooled EXCEPT ![s] = "none"]
    /\ UNCHANGED <<registry, retire, leaving, retirements>>

(* The permit, Session::spawn and initialize; a spawn may fail. *)
Spawn(r) ==
    /\ req[r].at = "permit" /\ PermitFree
    /\ req' = [req EXCEPT ![r].at = "using", ![r].session = "new"]
    /\ UNCHANGED <<registry, pooled, retire, leaving, retirements>>

Restored(r) == IF req[r].retired THEN pooled ELSE [pooled EXCEPT ![req[r].slot] = req[r].session]

Answer(r) ==
    /\ req[r].at = "using"
    /\ Refers(registry, [req EXCEPT ![r] = Idle], retire, Restored(r))
    /\ UNCHANGED <<leaving, retirements>>

(* An error, the timeout, a dropped call, or the watch: what the request   *)
(* holds goes with it.                                                     *)
Abandon(r) ==
    /\ req[r].at \in {"found", "permit", "using"}
    /\ Refers(registry, [req EXCEPT ![r] = Idle], retire, pooled)
    /\ UNCHANGED <<leaving, retirements>>

(* Two minutes of rest: the cleanup drops the session and its slot. *)
Cleanup ==
    /\ \E k \in Removable :
         pooled[registry[k]] # "none"
         /\ Refers([registry EXCEPT ![k] = 0], req, retire, [pooled EXCEPT ![registry[k]] = "none"])
    /\ UNCHANGED <<leaving, retirements>>

-----------------------------------------------------------------------------
(* Manager::clear and Manager::shutdown *)

(* The watch first; shutdown counts the generation up as well.  Every      *)
(* session so far is an old one.                                           *)
Aged(x) == IF x = "new" THEN "old" ELSE x
Announce ==
    /\ retire.at = "none" /\ retirements < MaxRetirements
    /\ \E kind \in {"clear", "shutdown"} :
         /\ retire' = [NoRetirement EXCEPT !.at = kind]
         /\ req' = [r \in Requests |->
                       IF req[r].at = "idle" THEN req[r]
                       ELSE [req[r] EXCEPT !.session = Aged(@), !.retired = @ \/ kind = "shutdown"]]
    /\ pooled' = [s \in Slots |-> Aged(pooled[s])]
    /\ retirements' = retirements + 1
    /\ UNCHANGED <<registry, leaving>>

Unlocked == {s \in Registered(registry) : ~Locked(s)}

(* A slip: the slots of busy requests stay in the registry. *)
EmptiedOfFree == [k \in Keys |-> IF registry[k] \in Unlocked THEN 0 ELSE registry[k]]
Emptied == [k \in Keys |-> 0]

(* The registry is emptied under its lock.  Free slots give up their       *)
(* sessions to an orderly end; a shutdown waits for the others.            *)
Retire ==
    /\ retire.at \in {"clear", "shutdown"}
    /\ IF retire.at = "clear"
       THEN Refers(Emptied, req, NoRetirement, pooled) /\ UNCHANGED leaving
       ELSE /\ Refers(Emptied, req, [at |-> "waiting", busy |-> Registered(registry) \ Unlocked],
                      [s \in Slots |-> IF s \in Unlocked THEN "none" ELSE pooled[s]])
            /\ leaving' = Cardinality({s \in Unlocked : pooled[s] # "none"})
    /\ UNCHANGED retirements

Left == leaving > 0 /\ leaving' = 0 /\ UNCHANGED <<registry, pooled, req, retire, retirements>>

(* A busy slot is locked, or given up after five seconds. *)
Collect ==
    /\ retire.at = "waiting" /\ leaving = 0 /\ retire.busy # {}
    /\ \E s \in retire.busy :
         /\ Refers(registry, req, [retire EXCEPT !.busy = @ \ {s}],
                   IF Locked(s) THEN pooled ELSE [pooled EXCEPT ![s] = "none"])
         /\ leaving' = IF ~Locked(s) /\ pooled[s] # "none" THEN 1 ELSE 0
    /\ UNCHANGED retirements

RetirementEnds ==
    /\ retire.at = "waiting" /\ retire.busy = {} /\ leaving = 0
    /\ retire' = NoRetirement
    /\ UNCHANGED <<registry, pooled, req, leaving, retirements>>

RequestStep(r) ==
    Ask(r) \/ FindSlot(r) \/ LockSlot(r) \/ Spawn(r) \/ Answer(r) \/ Abandon(r)

Next ==
    \/ \E r \in Requests : RequestStep(r)
    \/ Cleanup \/ Announce \/ Retire \/ Left \/ Collect \/ RetirementEnds

Spec == Init /\ [][Next]_vars

-----------------------------------------------------------------------------
(* "The previous session was stopped": once a retirement is over, no       *)
(* request finds a session that began before it (Manager::clear,           *)
(* shutdown, restore), whatever was in progress then and finishes now.     *)
OldAreGone == retire = NoRetirement => \A s \in Registered(registry) : pooled[s] # "old"

Starves(r) ==
    /\ req[r].at = "permit"
    /\ Cardinality({s \in Registered(registry) : pooled[s] # "none"}) >= MaxSlots

(* A request never waits for a permit while resting sessions hold them     *)
(* all: there are as many slots as permits, and its own slot is empty.     *)
RestNeverStarves == \A r \in Requests : Starves(r) => req[r].slot \notin Registered(registry)

(* No session outlives its retirement, and none at rest starves a request.  *)
SlotsHold == OldAreGone /\ RestNeverStarves

(* The same of every request.  One whose slot was given up before it       *)
(* locked it waits for the cleanup, or for its timeout.                    *)
NobodyStarves == \A r \in Requests : ~Starves(r)
=============================================================================
