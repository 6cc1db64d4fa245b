------------------------------ MODULE McpInput ------------------------------
(* Questions of MCP servers to the user (mcp_input.rs, the tool call of    *)
(* connectors.rs).  A server asks either by answering a call with          *)
(* inputRequired, which the call itself puts to the user, or by an         *)
(* elicitation/create of its own, which a handler task answers beside the  *)
(* call.  All connector sessions share the registry of pending questions.  *)
EXTENDS Naturals, FiniteSets

CONSTANTS
    Sessions,       \* connected servers
    ToolCalls,      \* calls 1..n, in the order they enter
    Questions,      \* questions 1..n, in the order they are asked
    MaxRounds,      \* MAX_CONTINUATION_ROUNDS
    MaxQuestions,   \* MAX_QUESTIONS_PER_CALL
    MaxPending      \* MAX_PENDING

VARIABLES
    toolCall,       \* each call: place, session, scope, user at hand, questions, decision, rounds
    owner,          \* SessionInput.active: the call of each session, 0 if none
    minted,         \* SCOPE_SEQUENCE
    question,       \* each question: place, call, who asks, answer
    pending,        \* Registry.pending
    dialogs,        \* questions on the screen
    cancelled       \* history: calls of which the user cancelled a question

vars == <<toolCall, owner, minted, question, pending, dialogs, cancelled>>

Init ==
    /\ toolCall = [c \in ToolCalls |-> [at |-> "new", session |-> CHOOSE s \in Sessions : TRUE, scope |-> 0,
                                live |-> FALSE, asked |-> 0, decision |-> "none", rounds |-> 0]]
    /\ owner = [s \in Sessions |-> 0]
    /\ minted = 0
    /\ question = [q \in Questions |-> [at |-> "unused", call |-> 0, by |-> "call", answer |-> "none"]]
    /\ pending = {} /\ dialogs = {} /\ cancelled = {}

First(ns) == {n \in ns : \A m \in ns : n <= m}
NextQuestion == First({q \in Questions : question[q].at = "unused"})
Scope(q) == toolCall[question[q].call].scope
Active(c) == toolCall[c].at \in {"calling", "asking"}

(* A slip: each session counts its own scopes. *)
PerSession(s) == Cardinality({c \in ToolCalls : toolCall[c].at # "new" /\ toolCall[c].session = s})

Minted(s) == minted

(* enter: one call at a time holds the gate of its session. *)
Enter ==
    /\ \E c \in First({c \in ToolCalls : toolCall[c].at = "new"}), s \in Sessions, live \in BOOLEAN :
         /\ owner[s] = 0
         /\ owner' = [owner EXCEPT ![s] = c]
         /\ toolCall' = [toolCall EXCEPT ![c].at = "calling", ![c].session = s,
                                 ![c].scope = Minted(s), ![c].live = live]
    /\ minted' = minted + 1
    /\ UNCHANGED <<question, pending, dialogs, cancelled>>

GateTimesOut ==
    /\ \E s \in Sessions : owner[s] # 0
    /\ \E c \in First({c \in ToolCalls : toolCall[c].at = "new"}) : toolCall' = [toolCall EXCEPT ![c].at = "error"]
    /\ UNCHANGED <<owner, minted, question, pending, dialogs, cancelled>>

(* leave, as the scope of a call is dropped: its questions go with it.     *)
Leaves(c, result) ==
    LET closed == {q \in pending : Scope(q) = toolCall[c].scope}
        own == {q \in Questions : question[q].call = c /\ question[q].by = "call"}
    IN /\ toolCall' = [toolCall EXCEPT ![c].at = result]
       /\ owner' = [owner EXCEPT ![toolCall[c].session] = 0]
       /\ pending' = pending \ (closed \cup own)
       /\ dialogs' = dialogs \ (closed \cup own)
       /\ question' = [q \in Questions |->
            IF q \in own THEN [question[q] EXCEPT !.at = "done"]
            ELSE IF q \in closed THEN [question[q] EXCEPT !.at = "orphaned"] ELSE question[q]]
       /\ UNCHANGED <<minted, cancelled>>

(* A result that arrives after the user cancelled is no success. *)
Completes(c) ==
    /\ toolCall[c].at = "calling"
    /\ Leaves(c, IF toolCall[c].decision = "cancel" THEN "error" ELSE "ok")

(* An error, a deadline, or a call's future dropped. *)
Fails(c) == Active(c) /\ Leaves(c, "error")

-----------------------------------------------------------------------------
(* inputRequired: the call asks and waits; what the user decided before    *)
(* answers at once.                                                        *)
Opens(q, c, by) ==
    /\ question' = [question EXCEPT ![q].at = "waiting", ![q].call = c, ![q].by = by]
    /\ pending' = pending \cup {q} /\ dialogs' = dialogs \cup {q}

CallAsks(c) ==
    /\ toolCall[c].at = "calling" /\ toolCall[c].live /\ toolCall[c].rounds < MaxRounds
    /\ \/ /\ toolCall[c].decision # "none"
          /\ toolCall' = [toolCall EXCEPT ![c].rounds = @ + 1]
          /\ UNCHANGED <<question, pending, dialogs>>
       \/ /\ toolCall[c].decision = "none" /\ toolCall[c].asked < MaxQuestions
          /\ Cardinality(pending) < MaxPending
          /\ toolCall' = [toolCall EXCEPT ![c].at = "asking", ![c].rounds = @ + 1, ![c].asked = @ + 1]
          /\ \E q \in NextQuestion : Opens(q, c, "call")
    /\ UNCHANGED <<owner, minted, cancelled>>

(* elicitation/create: checked against the call that owns the session, and *)
(* put into the registry after that lock is released.                      *)
ServerAsks(s) ==
    /\ owner[s] # 0
    /\ LET c == owner[s]
       IN /\ toolCall[c].decision = "none" /\ toolCall[c].live /\ toolCall[c].asked < MaxQuestions
          /\ toolCall' = [toolCall EXCEPT ![c].asked = @ + 1]
          /\ \E q \in NextQuestion :
               question' = [question EXCEPT ![q].at = "checked", ![q].call = c, ![q].by = "server"]
    /\ UNCHANGED <<owner, minted, pending, dialogs, cancelled>>

ServerAskBegins(q) ==
    /\ question[q].at = "checked"
    /\ \/ Cardinality(pending) < MaxPending /\ Opens(q, question[q].call, "server")
       \/ /\ Cardinality(pending) >= MaxPending
          /\ question' = [question EXCEPT ![q].at = "done"]
          /\ UNCHANGED <<pending, dialogs>>
    /\ UNCHANGED <<toolCall, owner, minted, cancelled>>

-----------------------------------------------------------------------------
(* Registry::resolve: the entry goes, and the asker is sent the answer.    *)
Resolve(q, answer) ==
    /\ q \in pending
    /\ pending' = pending \ {q}
    /\ question' = [question EXCEPT ![q].at = "answered", ![q].answer = answer]
    /\ cancelled' = IF answer = "cancel" THEN cancelled \cup {question[q].call} ELSE cancelled
    /\ UNCHANGED <<toolCall, owner, minted, dialogs>>

(* PendingAsk::drop, on every way out of a question. *)
Closes(q) ==
    /\ pending' = pending \ {q} /\ dialogs' = dialogs \ {q}
    /\ question' = [question EXCEPT ![q].at = "done"]

(* note_decision: the first refusal of a call stands until it ends.        *)
Decided(q, answer) ==
    [c \in ToolCalls |->
      IF Active(c) /\ c = owner[toolCall[question[q].call].session] /\ toolCall[c].scope = Scope(q)
        THEN [toolCall[c] EXCEPT !.decision = IF @ = "none" /\ answer # "accept" THEN answer ELSE @,
                             !.at = IF question[q].by = "call" THEN "calling" ELSE @]
        ELSE toolCall[c]]

Resumes(q) ==
    /\ question[q].at = "answered"
    /\ Closes(q) /\ toolCall' = Decided(q, question[q].answer)
    /\ UNCHANGED <<owner, minted, cancelled>>

FormTimesOut(q) ==
    /\ question[q].at = "waiting"
    /\ Closes(q) /\ toolCall' = Decided(q, "cancel")
    /\ UNCHANGED <<owner, minted, cancelled>>

(* The sender is gone: the ask is an error, for a call one that ends it.   *)
OrphanResumes(q) ==
    /\ question[q].at = "orphaned"
    /\ Closes(q)
    /\ UNCHANGED <<toolCall, owner, minted, cancelled>>

(* The server withdraws its elicitation: a cancel nobody decided.          *)
ServerCancels(q) ==
    /\ question[q].by = "server" /\ question[q].at \in {"waiting", "answered"}
    /\ Closes(q)
    /\ UNCHANGED <<toolCall, owner, minted, cancelled>>

Next ==
    \/ Enter \/ GateTimesOut
    \/ \E c \in ToolCalls : Completes(c) \/ Fails(c) \/ CallAsks(c)
    \/ \E s \in Sessions : ServerAsks(s)
    \/ \E q \in Questions : \/ ServerAskBegins(q) \/ Resumes(q) \/ FormTimesOut(q)
                            \/ OrphanResumes(q) \/ ServerCancels(q)
                            \/ \E answer \in {"accept", "decline", "cancel"} : Resolve(q, answer)

Spec == Init /\ [][Next]_vars

-----------------------------------------------------------------------------
(* While a call runs, a question of it that waits for the user is in the   *)
(* registry and on the screen: nobody but the user, its time limit, its    *)
(* server or its own call closes it ("one connector's cleanup would then   *)
(* cancel the other connector's pending form").                            *)
OpenQuestionsStay ==
    \A q \in Questions :
      /\ question[q].at = "waiting" => q \in pending \cap dialogs
      /\ question[q].at = "orphaned" => ~Active(question[q].call)

(* A question does not outlive its operation ("so a question can never     *)
(* outlive its operation").                                                *)
QuestionsDieWithCall == \A q \in pending : Active(question[q].call)

(* One question per session is open at most ("so at most one question - and *)
(* one dialog - is outstanding per session").                              *)
OneQuestionPerSession ==
    \A q, r \in pending :
      toolCall[question[q].call].session = toolCall[question[r].call].session => q = r

(* A call whose user cancelled does not succeed ("a Complete after the     *)
(* user cancelled must not surface as success").                           *)
CancelledNotSucceeded == [][\A c \in cancelled : toolCall'[c].at = "ok" => toolCall[c].at = "ok"]_vars
=============================================================================
