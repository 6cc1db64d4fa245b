----------------------------- MODULE Debugger ------------------------------
(* One session of a debug adapter (debug_tools.rs): its start, the calls    *)
(* that lease it one after the other, the references it gives out for       *)
(* frames and variables, and an adapter whose debuggee stops, resumes and   *)
(* ends when it likes.  What the adapter says is read in order, some of it  *)
(* late.                                                                    *)
EXTENDS Naturals, Sequences

CONSTANTS
    MaxStops,       \* bound: stops of the debuggee
    MaxMail,        \* bound: messages of the adapter not read yet
    MaxLeases       \* bound: calls of the tools

VARIABLES
    debuggee,       \* the debuggee: whether it runs, and its stops so far
    mail,           \* what the adapter said and the session has not read
    asked,          \* the request the adapter has not answered
    session,        \* the session: place, phase, generation, pending launch
    names,          \* the references given out: generation and stop they are for
    request,        \* the call that leases the session
    leases            \* calls so far

vars == <<debuggee, mail, asked, session, names, request, leases>>

Inspecting == {"stackTrace", "scopes"}      \* scopes stands for variables too: both name a reference
Resuming == {"continue", "configurationDone"}   \* and next, stepIn, stepOut
Commands == Inspecting \cup Resuming \cup {"events", "stop", "other"}
Notices == {"stopped", "continued"}

(* References are numbered by their order; raw numbers repeat in each stop. *)
Named == 1 .. Len(names)

TypeOK ==
    /\ debuggee \in [state : {"new", "runs", "stopped", "ended"}, stops : 0 .. MaxStops]
    /\ mail \in Seq([kind : Notices \cup {"initialized", "launched", "refused", "terminated", "answer", "error"},
                     stop : 0 .. MaxStops])
    /\ asked \in [command : Commands \cup {"none"}, ref : Nat]
    /\ session \in [at : {"no", "starts", "open", "leased", "closed"}, generation : Nat, launch : BOOLEAN,
                    phase : {"initializing", "configuring", "running", "stopped", "terminated"}]
    /\ names \in Seq([generation : Nat, stop : Nat])
    /\ request \in [command : Commands \cup {"none"}, ref : Nat, at : {"no", "drain", "wait"}]
    /\ leases \in 0 .. MaxLeases

NoRequest == [command |-> "none", ref |-> 0, at |-> "no"]
Unasked == [command |-> "none", ref |-> 0]
Init ==
    /\ debuggee = [state |-> "new", stops |-> 0] /\ mail = <<>> /\ asked = Unasked
    /\ session = [at |-> "no", generation |-> 0, launch |-> FALSE, phase |-> "initializing"]
    /\ names = <<>> /\ request = NoRequest /\ leases = 0

-----------------------------------------------------------------------------
(* The adapter and its debuggee.                                            *)
Say(kind) == Len(mail) < MaxMail /\ mail' = Append(mail, [kind |-> kind, stop |-> debuggee.stops])
Up == session.at \in {"starts", "open", "leased"}

Initialized ==
    /\ Up /\ session.launch /\ session.phase = "initializing"
    /\ ~ \E i \in DOMAIN mail : mail[i].kind = "initialized"
    /\ Say("initialized")
    /\ UNCHANGED <<debuggee, asked, session, names, request, leases>>

(* The launch is answered whenever the adapter likes; a debuggee that needs *)
(* no configurationDone runs from then on.                                  *)
Launched ==
    /\ Up /\ session.launch /\ \A i \in DOMAIN mail : mail[i].kind \notin {"launched", "refused"}
    /\ \/ Say("launched") /\ debuggee' \in {debuggee, [debuggee EXCEPT !.state = IF @ = "new" THEN "runs" ELSE @]}
       \/ Say("refused") /\ UNCHANGED debuggee
    /\ UNCHANGED <<asked, session, names, request, leases>>

Stops ==
    /\ Up /\ debuggee.state = "runs" /\ debuggee.stops < MaxStops /\ Say("stopped")
    /\ debuggee' = [state |-> "stopped", stops |-> debuggee.stops + 1]
    /\ UNCHANGED <<asked, session, names, request, leases>>

Resumes ==
    /\ Up /\ debuggee.state = "stopped" /\ Say("continued")
    /\ debuggee' = [debuggee EXCEPT !.state = "runs"]
    /\ UNCHANGED <<asked, session, names, request, leases>>

Ends ==
    /\ Up /\ debuggee.state \in {"runs", "stopped"} /\ Say("terminated")
    /\ debuggee' = [debuggee EXCEPT !.state = "ended"]
    /\ UNCHANGED <<asked, session, names, request, leases>>

(* An inspection is answered from the debuggee as it is; a resumption that  *)
(* was asked for brings no notice of its own.                               *)
Answers ==
    /\ asked # Unasked /\ asked' = Unasked
    /\ \/ Say("error") /\ UNCHANGED debuggee
       \/ /\ asked.command \in Inspecting => debuggee.state = "stopped"
          /\ Say("answer")
          /\ debuggee' = IF \/ asked.command = "continue" /\ debuggee.state = "stopped"
                            \/ asked.command = "configurationDone" /\ debuggee.state = "new"
                         THEN [debuggee EXCEPT !.state = "runs"] ELSE debuggee
    /\ UNCHANGED <<session, names, request, leases>>

-----------------------------------------------------------------------------
(* The session.  Dropping it kills the adapter.                             *)
Closed ==
    /\ session' = [session EXCEPT !.at = "closed"]
    /\ mail' = <<>> /\ asked' = Unasked /\ request' = NoRequest

Invalidated(s) == [s EXCEPT !.generation = @ + 1]

(* A slip: only the session's own requests make references stale.           *)
HeardOnly(kind) ==
    CASE kind = "stopped" -> [session EXCEPT !.phase = "stopped"]
      [] kind = "continued" -> [session EXCEPT !.phase = "running"]
      [] kind = "terminated" -> [session EXCEPT !.phase = "terminated"]
      [] kind = "launched" -> [session EXCEPT !.launch = FALSE]
      [] kind = "initialized" -> session

(* Session::message, for what is not the answer of a request.               *)
Heard(kind) ==
    CASE kind = "stopped" -> [Invalidated(session) EXCEPT !.phase = "stopped"]
      [] kind = "continued" -> [Invalidated(session) EXCEPT !.phase = "running"]
      [] kind = "terminated" -> [session EXCEPT !.phase = "terminated"]
      [] kind = "launched" -> [session EXCEPT !.launch = FALSE]
      [] kind = "initialized" -> session

(* initialize is answered and the launch sent.                              *)
Start ==
    /\ session.at = "no"
    /\ session' = [session EXCEPT !.at = "starts", !.launch = TRUE]
    /\ UNCHANGED <<debuggee, mail, asked, names, request, leases>>

StartReads ==
    /\ session.at = "starts" /\ mail # <<>> /\ Head(mail).kind # "refused"
    /\ session' = IF Head(mail).kind = "initialized"
                  THEN [session EXCEPT !.phase = "configuring", !.at = "open"] ELSE Heard(Head(mail).kind)
    /\ mail' = Tail(mail)
    /\ UNCHANGED <<debuggee, asked, names, request, leases>>

(* A refused launch, the timeout of the start or of a request, an adapter   *)
(* that is idle, too old or gone.                                           *)
GivesUp ==
    /\ session.at \in {"starts", "leased", "open"} /\ Closed
    /\ UNCHANGED <<debuggee, names, leases>>

(* A call takes the session out of its slot.  Arguments are validated here. *)
Lease(command, ref) ==
    /\ session.at = "open" /\ leases < MaxLeases /\ leases' = leases + 1
    /\ command # "scopes" => ref = 0
    /\ session' = [session EXCEPT !.at = "leased"]
    /\ request' = [command |-> command, ref |-> ref, at |-> "drain"]
    /\ UNCHANGED <<debuggee, mail, asked, names>>

(* What has come is read before the request is sent, and while its answer   *)
(* is awaited.                                                              *)
Hears ==
    /\ session.at = "leased" /\ request.at \in {"drain", "wait"}
    /\ mail # <<>> /\ Head(mail).kind \notin {"answer", "error"}
    /\ IF Head(mail).kind = "refused" THEN Closed
       ELSE session' = Heard(Head(mail).kind) /\ mail' = Tail(mail) /\ UNCHANGED <<asked, request>>
    /\ UNCHANGED <<debuggee, names, leases>>

(* A reference is good in the generation it was issued in.                  *)
Resolves(ref) == ref \in Named /\ names[ref].generation = session.generation

Unread == \E i \in DOMAIN mail : mail[i].kind \in Notices

Sends ==
    /\ request.at = "drain" /\ request.command \notin {"events", "stop"}
    /\ request.command \in Inspecting => session.phase = "stopped"
    /\ request.command = "scopes" => Resolves(request.ref)
    /\ request' = [request EXCEPT !.at = "wait"]
    /\ asked' = [command |-> request.command, ref |-> request.ref]
    /\ session' = IF request.command \in Resuming
                  THEN [Invalidated(session) EXCEPT !.phase = "running"] ELSE session
    /\ UNCHANGED <<debuggee, mail, names, leases>>

(* An inspection in another phase, or a reference that is stale, is an      *)
(* error of the call, and every error drops the session.                    *)
Refuses ==
    /\ request.at = "drain" /\ request.command \in Inspecting
    /\ session.phase # "stopped" \/ (request.command = "scopes" /\ ~Resolves(request.ref))
    /\ Closed
    /\ UNCHANGED <<debuggee, names, leases>>

Releases == session' = [session EXCEPT !.at = "open"] /\ request' = NoRequest

(* translate_body: what the answer names gets references of this generation,*)
(* those it has if it is named again.                                       *)
Answered ==
    /\ request.at = "wait" /\ mail # <<>> /\ Head(mail).kind \in {"answer", "error"}
    /\ IF Head(mail).kind = "error" THEN Closed /\ UNCHANGED names
       ELSE /\ Releases /\ mail' = Tail(mail) /\ UNCHANGED asked
            /\ names' = IF \/ request.command \notin Inspecting
                           \/ \E i \in Named : names[i].generation = session.generation
                        THEN names
                        ELSE Append(names, [generation |-> session.generation, stop |-> Head(mail).stop])
    /\ UNCHANGED <<debuggee, leases>>

(* debugger_events returns what was drained; a configurationDone the        *)
(* adapter does not know is answered at once.                               *)
Returns ==
    /\ request.at = "drain"
    /\ \/ request.command = "events" /\ Releases
       \/ request.command = "configurationDone" /\ request' = NoRequest
          /\ session' = [session EXCEPT !.at = "open", !.phase = "running"]
    /\ UNCHANGED <<debuggee, mail, asked, names, leases>>

(* debugger_stop: disconnect, then the adapter is killed.                   *)
Disconnects ==
    /\ request.at = "drain" /\ request.command = "stop" /\ Closed
    /\ UNCHANGED <<debuggee, names, leases>>

Next ==
    \/ Initialized \/ Launched \/ Stops \/ Resumes \/ Ends \/ Answers
    \/ Start \/ StartReads \/ GivesUp
    \/ (\E command \in Commands, ref \in 0 .. Len(names) + 1 : Lease(command, ref))
    \/ Hears \/ Sends \/ Refuses \/ Answered \/ Returns \/ Disconnects

Spec == Init /\ [][Next]_vars

-----------------------------------------------------------------------------
(* Once its notices are read, a session takes no reference to an object of  *)
(* an earlier stop, whoever resumed the debuggee and whatever crossed on    *)
(* the wire.  (References, Session::message.)                               *)
ReferencesAreCurrent ==
    (session.at \in {"open", "leased"} /\ ~Unread) =>
        \A ref \in Named : Resolves(ref) => names[ref].stop = debuggee.stops

(* Checked by hand: a session that says its debuggee is stopped, with       *)
(* nothing unread or asked, is right.  A control that crosses the notice of *)
(* a stop leaves the phase "stopped" while the debuggee runs.               *)
StoppedIsStopped ==
    (/\ session.at \in {"open", "leased"} /\ session.phase = "stopped"
     /\ ~Unread /\ asked.command \notin Resuming) => debuggee.state # "runs"
=============================================================================
