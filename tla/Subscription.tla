---------------------------- MODULE Subscription ----------------------------
(* The session of a subscription (subscription_auth.rs): one record in the  *)
(* vault, read and refreshed by everybody who is about to talk to the       *)
(* provider, replaced by a sign-in, an import or a typed token, and cleared *)
(* by a disconnect.  Imports, tests and disconnects need the operation gate *)
(* alone, so turns keep them out; probes and sign-ins do not ask it.        *)
(*                                                                          *)
(* External: a provider whose answers carry a successor takes a refresh     *)
(* token once; another takes it again and again.                            *)
EXTENDS Naturals

CONSTANTS
    Leased,     \* turns and their children: they share the lease
    Tests,      \* tests and listings of the provider: each has it alone
    Probes,     \* probes of a model's tools: they have none
    Accounts,
    MaxTokens   \* refresh tokens ever issued

VARIABLES
    vault,      \* the saved session: account, refresh token (0: none), expiry
    rotates,    \* whether the provider's answer carries a successor
    seekers,    \* everyone in get_valid_access_token and after it
    signin,     \* the sign-in under way
    valid,      \* refresh tokens the provider takes
    issued,
    lost        \* history: tokens saved when used up, or whose successor never was

vars == <<vault, rotates, seekers, signin, valid, issued, lost>>

Seekers == Leased \cup Tests \cup Probes
Gone == [account |-> "none", refresh |-> 0, expiry |-> "gone"]
Idle == [at |-> "idle", sent |-> 0, held |-> Gone, account |-> "none"]

(* Token 1 is the one in the file of the CLI, imported or not. *)
Init ==
    /\ \E a \in Accounts :
         vault \in {Gone, [account |-> a, refresh |-> 1, expiry |-> "near"]}
    /\ rotates \in BOOLEAN
    /\ seekers = [s \in Seekers |-> Idle]
    /\ signin = "no"
    /\ valid = {1} /\ issued = 1 /\ lost = {}

(* The operation gate: no turn runs, and no test. *)
Exclusive == \A s \in Leased \cup Tests : seekers[s].at = "idle"

(* get_valid_access_token: a session that expires within three minutes and *)
(* has a refresh token is refreshed first; without a session, an error.     *)
Seek(s) ==
    /\ seekers[s].at = "idle" /\ vault # Gone
    /\ s \in Tests => Exclusive
    /\ s \in Leased => \A t \in Tests : seekers[t].at = "idle"
    /\ seekers' = [seekers EXCEPT ![s].held = vault,
                     ![s].at = IF vault.expiry = "near" /\ vault.refresh # 0 THEN "asking" ELSE "token"]
    /\ UNCHANGED <<vault, rotates, signin, valid, issued, lost>>

(* The provider takes the token and answers: with a successor, or without  *)
(* one, when the session keeps its token; some answers tell no expiry.      *)
Accepted(s) ==
    /\ seekers[s].at = "asking" /\ seekers[s].held.refresh \in valid
    /\ LET used == seekers[s].held.refresh
           next == IF rotates THEN issued + 1 ELSE used
       IN  /\ rotates => issued < MaxTokens
           /\ issued' = IF rotates THEN next ELSE issued
           /\ valid' = IF rotates THEN (valid \ {used}) \cup {next} ELSE valid
           /\ \E e \in {"far", seekers[s].held.expiry} :
                seekers' = [seekers EXCEPT ![s] =
                  [@ EXCEPT !.at = "accepted", !.sent = used, !.held.refresh = next, !.held.expiry = e]]
    /\ UNCHANGED <<vault, rotates, signin, lost>>

(* It refuses, at will or because the token is used up. *)
Refused(s) ==
    /\ seekers[s].at = "asking"
    /\ seekers' = [seekers EXCEPT ![s].at = "refused"]
    /\ UNCHANGED <<vault, rotates, signin, valid, issued, lost>>

(* No answer arrives, or one that cannot be read: an error to the caller.  *)
Unanswered(s) ==
    /\ seekers[s].at \in {"asking", "accepted"}
    /\ lost' = IF seekers[s].at = "accepted" THEN lost \cup {seekers[s].sent} ELSE lost
    /\ seekers' = [seekers EXCEPT ![s] = Idle]
    /\ UNCHANGED <<vault, rotates, signin, valid, issued>>

(* A slip: whatever was answered is saved. *)
SavedAnyway(s) == seekers[s].at \in {"accepted", "refused"}

Saves(s) == seekers[s].at = "accepted"

(* The rest of refresh_subscription_token: what a success brought is saved, *)
(* over whatever the vault holds by now, and a save that fails is ignored.  *)
(* A refusal leaves the session, and the old access token is used.          *)
Refreshed(s) ==
    /\ seekers[s].at \in {"accepted", "refused"}
    /\ \/ Saves(s) /\ vault' = seekers[s].held /\ UNCHANGED lost
       \/ Saves(s) /\ lost' = lost \cup {seekers[s].sent} /\ UNCHANGED vault
       \/ ~Saves(s) /\ UNCHANGED <<vault, lost>>
    /\ seekers' = [seekers EXCEPT ![s].at = "token", ![s].sent = 0]
    /\ UNCHANGED <<rotates, signin, valid, issued>>

(* A turn, a child and a probe read the account from the vault themselves. *)
ReadAccount(s) ==
    /\ seekers[s].at = "token" /\ s \notin Tests
    /\ seekers' = [seekers EXCEPT ![s].at = "ready", ![s].account = vault.account]
    /\ UNCHANGED <<vault, rotates, signin, valid, issued, lost>>

(* The turn, the test or the probe is over. *)
Ends(s) ==
    /\ seekers[s].at = IF s \in Tests THEN "token" ELSE "ready"
    /\ seekers' = [seekers EXCEPT ![s] = Idle]
    /\ UNCHANGED <<vault, rotates, signin, valid, issued, lost>>

-----------------------------------------------------------------------------
(* sign_in_subscription: the browser's code is awaited, for five minutes or *)
(* until it is cancelled; then it is exchanged and the session saved.  It   *)
(* takes no lease of the gate; other sign-ins are refused.                  *)
SignIn ==
    /\ signin = "no" /\ signin' = "waiting"
    /\ UNCHANGED <<vault, rotates, seekers, valid, issued, lost>>

CodeArrives ==
    /\ signin = "waiting" /\ signin' = "exchanging"
    /\ UNCHANGED <<vault, rotates, seekers, valid, issued, lost>>

SignInFails ==
    /\ signin \in {"waiting", "exchanging"} /\ signin' = "no"
    /\ UNCHANGED <<vault, rotates, seekers, valid, issued, lost>>

(* A session with a new refresh token, or with one of `others`. *)
Replace(accounts, others, expiries) ==
    \E a \in accounts, e \in expiries :
        \/ \E r \in others :
             /\ vault' = [account |-> a, refresh |-> r, expiry |-> e]
             /\ lost' = IF r \in valid \cup {0} THEN lost ELSE lost \cup {r}
             /\ UNCHANGED <<valid, issued>>
        \/ /\ issued < MaxTokens /\ issued' = issued + 1 /\ valid' = valid \cup {issued'}
           /\ vault' = [account |-> a, refresh |-> issued', expiry |-> e]
           /\ UNCHANGED lost

(* The exchange brings no account. *)
SignedIn ==
    /\ signin = "exchanging" /\ signin' = "no"
    /\ Replace({"none"}, {0}, {"far", "never"})
    /\ UNCHANGED <<rotates, seekers>>

(* import_cli_session and save_manual_token, each alone with the gate: one  *)
(* takes the token and the expiry of the file, the other knows no expiry.   *)
Import ==
    /\ Exclusive
    /\ Replace(Accounts \cup {"none"}, {0, 1}, {"near", "never"})
    /\ UNCHANGED <<rotates, seekers, signin>>

(* disconnect_subscription. *)
Disconnect ==
    /\ Exclusive /\ vault # Gone
    /\ vault' = Gone
    /\ UNCHANGED <<rotates, seekers, signin, valid, issued, lost>>

(* Time passes. *)
Expires ==
    /\ vault.expiry = "far"
    /\ vault' = [vault EXCEPT !.expiry = "near"]
    /\ UNCHANGED <<rotates, seekers, signin, valid, issued, lost>>

Next ==
    \/ \E s \in Seekers :
         \/ Seek(s) \/ Accepted(s) \/ Refused(s) \/ Unanswered(s)
         \/ Refreshed(s) \/ ReadAccount(s) \/ Ends(s)
    \/ SignIn \/ CodeArrives \/ SignInFails \/ SignedIn
    \/ Import \/ Disconnect \/ Expires

Spec == Init /\ [][Next]_vars

-----------------------------------------------------------------------------
(* However many refresh at once, a session that can be refreshed stays so:  *)
(* the token in the vault is one the provider takes, or whoever used it is  *)
(* about to save its successor, or that was lost with an answer or a save   *)
(* (refresh_subscription_token).                                            *)
StaysRefreshable ==
    \/ vault.refresh \in valid \cup lost \cup {0}
    \/ \E s \in Seekers : seekers[s].at = "accepted" /\ seekers[s].sent = vault.refresh

-----------------------------------------------------------------------------
(* What the code or its docs say and is not so. *)

(* lib.rs:132: "An exclusive operation -- a provider edit, a credential     *)
(* change [..] takes the **exclusive** lease, so it cannot run while a turn *)
(* is in flight".                                                           *)
NoChangeUnderTurn ==
    [][\A s \in Leased : SignedIn => seekers[s].at = "idle"]_vars

(* commands.rs:638: a disconnect clears the session; only an import or a    *)
(* sign-in brings one back.                                                 *)
DisconnectedStays == [][vault = Gone /\ vault' # Gone => Import \/ SignedIn]_vars

(* chat.rs:1435: the account goes with the token it is sent with.           *)
AccountOfToken == \A s \in Seekers : seekers[s].at = "ready" => seekers[s].account = seekers[s].held.account
=============================================================================
