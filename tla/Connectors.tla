----------------------------- MODULE Connectors -----------------------------
(* Sessions of MCP servers (connectors.rs, local_mcp_process.rs, oauth.rs). *)
(* A session is set up without the lock of the hub and recorded under it;   *)
(* meanwhile the user connects, disconnects, signs in, edits and removes    *)
(* servers, and the start of the app restores what was connected.  A server *)
(* on this computer is a process; the others are presets, reached with an   *)
(* account or a token.  Public presets are presets that need neither.       *)
EXTENDS Naturals, Sequences

CONSTANTS
    LocalServers,   \* servers the user configured
    OauthPresets,   \* presets that are signed in to
    KeyPresets,     \* presets that take an API token
    Pages,          \* Connectors pages of the window, each with one command under way
    MaxLinks,       \* sessions ever begun
    MaxVersions     \* configurations ever written

VARIABLES
    servers,        \* local-mcp-configs in the vault: each server's configuration, 0 if none
    accounts,       \* presets whose credential is in the vault
    remembered,     \* the setting connected_connectors
    hub,            \* McpHub: connections, restore_errors, unconfirmed_shutdowns
    links,          \* every session, in the order they were begun
    work,           \* what restore_connections (0) and each page are at
    todo,           \* what restore_connections has not come to
    running,
    versions,       \* configurations written so far
    reply           \* history: what the last command told of each connector; an error tells nothing

vars == <<servers, accounts, remembered, hub, links, work, todo, running, versions, reply>>

Ids == LocalServers \cup OauthPresets \cup KeyPresets
Workers == Pages \cup {0}
Idle == [at |-> "idle", id |-> CHOOSE id \in Ids : TRUE, link |-> 0, lease |-> FALSE]

(* A start of the app with whatever an earlier one left in the store and    *)
(* the vault: a removed server may still be remembered.  A preset that takes *)
(* a token never is, for no token is ever saved (ConnectWithToken).         *)
Init ==
    /\ servers \in [LocalServers -> {0, 1}] /\ versions = 1
    /\ accounts \in SUBSET OauthPresets
    /\ remembered \in SUBSET (LocalServers \cup OauthPresets) /\ todo = remembered
    /\ hub = [connections |-> [id \in Ids |-> 0], errors |-> {}, unconfirmed |-> {}]
    /\ links = <<>>
    /\ work = [w \in Workers |-> Idle]
    /\ running = TRUE
    /\ reply = [id \in Ids |-> "none"]

Live(n) == links[n].state \in {"starting", "up"}

(* ConnectorSession::cancel: the session is over, though a local process    *)
(* may not have exited in its three seconds.                                *)
Cancelled(ls, n) == [ls EXCEPT ![n].state = "over"]

(* Sessions being set up whose connector changes under them. *)
Overtaken(ls, id) ==
    [n \in DOMAIN ls |->
        IF ls[n].of = id /\ n # hub.connections[id] THEN [ls[n] EXCEPT !.overtaken = TRUE] ELSE ls[n]]

-----------------------------------------------------------------------------
(* Setting up a session. *)

(* preset_credential, for the name of a preset. *)
PresetCredential(name) ==
    IF name \in KeyPresets THEN "header" ELSE IF name \in OauthPresets THEN "dcr" ELSE "unknown"

(* establish finds the configuration or the credential it needs. *)
CanBegin(id) == IF id \in LocalServers THEN servers[id] # 0 ELSE id \in accounts

Version(id) == IF id \in LocalServers THEN servers[id] ELSE 0

(* establish: the configuration is read, and the process or the request    *)
(* started from it.                                                         *)
Begin(w, id, lease) ==
    /\ Len(links) < MaxLinks
    /\ links' = Append(links, [of |-> id, by |-> w, version |-> Version(id),
                               state |-> "starting", overtaken |-> FALSE])
    /\ work' = [work EXCEPT ![w] = [at |-> "starting", id |-> id, link |-> Len(links) + 1, lease |-> lease]]

Told(id, what) == reply' = [reply EXCEPT ![id] = what]

(* restore_connections comes to the next of the remembered connectors. *)
RestoreNext ==
    /\ running /\ work[0].at = "idle"
    /\ \E id \in todo :
         /\ todo' = todo \ {id}
         /\ IF CanBegin(id) THEN Begin(0, id, FALSE)
            ELSE /\ work' = [work EXCEPT ![0] = [Idle EXCEPT !.at = "failed", !.id = id]]
                 /\ UNCHANGED links
    /\ UNCHANGED <<servers, accounts, remembered, hub, running, versions, reply>>

(* connect_connector without a token. *)
Connect(w, id) ==
    /\ running /\ work[w].at = "idle"
    /\ IF CanBegin(id) THEN Begin(w, id, FALSE) /\ UNCHANGED reply
       ELSE Told(id, "none") /\ UNCHANGED <<links, work>>
    /\ UNCHANGED <<servers, accounts, remembered, hub, todo, running, versions>>

(* connect_connector with one: what it asks preset_credential about is the  *)
(* name of the vault's entry.                                               *)
ConnectWithToken(w, id) ==
    /\ running /\ work[w].at = "idle" /\ id \in KeyPresets
    /\ IF PresetCredential(<<"token", id>>) = "header"
       THEN accounts' = accounts \cup {id} /\ Begin(w, id, FALSE) /\ UNCHANGED reply
       ELSE Told(id, "none") /\ UNCHANGED <<accounts, links, work>>
    /\ UNCHANGED <<servers, remembered, hub, todo, running, versions>>

(* The handshake and the catalog of tools are through. *)
Established(w) ==
    /\ running /\ work[w].at = "starting"
    /\ work' = [work EXCEPT ![w].at = "up"]
    /\ links' = [links EXCEPT ![work[w].link].state = "up"]
    /\ UNCHANGED <<servers, accounts, remembered, hub, todo, running, versions, reply>>

(* One of them fails: the session is cancelled, whatever comes of it, or    *)
(* dropped with its process.                                                *)
EstablishFails(w) ==
    /\ running /\ work[w].at = "starting"
    /\ links' = Cancelled(links, work[w].link)
    /\ IF w = 0 THEN work' = [work EXCEPT ![w].at = "failed", ![w].link = 0] /\ UNCHANGED reply
       ELSE work' = [work EXCEPT ![w] = Idle] /\ Told(work[w].id, "none")
    /\ UNCHANGED <<servers, accounts, remembered, hub, todo, running, versions>>

-----------------------------------------------------------------------------
(* Recording it, under the lock of the hub. *)

(* A slip: the session it replaces is dropped from the map and no more. *)
InsertedOver(n) ==
    [hub |-> [hub EXCEPT !.connections[links[n].of] = n, !.errors = @ \ {links[n].of}], links |-> links]

(* The old session of the connector is cancelled, the new one takes its    *)
(* place and clears the error.  A failed cancellation is not looked at.     *)
Inserted(n) ==
    LET id == links[n].of
        old == hub.connections[id]
    IN [hub |-> [hub EXCEPT !.connections[id] = n, !.errors = @ \ {id}],
        links |-> IF old = 0 THEN links ELSE Cancelled(links, old)]

RestoreRecords ==
    /\ running /\ work[0].at = "up"
    /\ hub' = Inserted(work[0].link).hub /\ links' = Inserted(work[0].link).links
    /\ work' = [work EXCEPT ![0] = Idle]
    /\ UNCHANGED <<servers, accounts, remembered, todo, running, versions, reply>>

RestoreNotes ==
    /\ running /\ work[0].at = "failed"
    /\ hub' = [hub EXCEPT !.errors = @ \cup {work[0].id}]
    /\ work' = [work EXCEPT ![0] = Idle]
    /\ UNCHANGED <<servers, accounts, remembered, links, todo, running, versions, reply>>

Known(id) == id \in LocalServers => servers[id] # 0

(* McpHub::disconnect: what it may leave, and what it answers.  A vault that *)
(* keeps the credentials fails it when the session is gone.                 *)
Disconnected(h, ls, id, forget) ==
    LET off(hb, l) == {[hub |-> hb, links |-> l, reply |-> r] : r \in {"off"} \cup IF forget THEN {"none"} ELSE {}}
        asked == [h EXCEPT !.errors = @ \ {id}]
        n == h.connections[id]
        without == [asked EXCEPT !.connections[id] = 0]
    IN IF ~Known(id) THEN {[hub |-> asked, links |-> ls, reply |-> "none"]}
       ELSE IF id \in h.unconfirmed
            THEN {[hub |-> [asked EXCEPT !.unconfirmed = @ \ {id}], links |-> ls, reply |-> "unreachable"]}
       ELSE IF n = 0 THEN off(asked, ls)
       ELSE off(without, Cancelled(ls, n)) \cup
            {[hub |-> [without EXCEPT !.unconfirmed = @ \cup {id}],
              links |-> Cancelled(ls, n), reply |-> "none"]}

(* The end of connect_connector: the connection is remembered, or, when     *)
(* the store fails, disconnected again.                                     *)
PageRecords(w) ==
    /\ running /\ work[w].at = "up"
    /\ LET r == Inserted(work[w].link) IN
         \/ /\ hub' = r.hub /\ links' = r.links
            /\ remembered' = remembered \cup {work[w].id}
            /\ Told(work[w].id, "on")
         \/ /\ \E d \in Disconnected(r.hub, r.links, work[w].id, FALSE) : hub' = d.hub /\ links' = d.links
            /\ Told(work[w].id, "none")
            /\ UNCHANGED remembered
    /\ work' = [work EXCEPT ![w] = Idle]
    /\ UNCHANGED <<servers, accounts, todo, running, versions>>

-----------------------------------------------------------------------------
(* The user's other commands. *)

(* What the page has a button for: Stop session, Disconnect, Forget         *)
(* credentials.                                                             *)
Offered(id) ==
    id \in LocalServers \cup accounts \cup hub.errors \/ hub.connections[id] # 0

(* disconnect_connector: forgotten, then disconnected, under one lock.  A   *)
(* store that fails ends it before either.                                  *)
Disconnect(w, id, forget) ==
    /\ running /\ work[w].at = "idle" /\ Offered(id)
    /\ forget => id \in accounts
    /\ remembered' = remembered \ {id}
    /\ \E d \in Disconnected(hub, links, id, forget) :
         /\ hub' = d.hub
         /\ links' = IF d.reply = "off" THEN Overtaken(d.links, id) ELSE d.links
         /\ Told(id, d.reply)
         /\ accounts' = IF forget /\ d.reply = "off" THEN accounts \ {id} ELSE accounts
    /\ UNCHANGED <<servers, work, todo, running, versions>>

(* save_local: a new or an edited configuration, of a server without a     *)
(* session.  The form does not wait for the page's command.  A save during  *)
(* a model operation is refused.                                            *)
SaveLocal(id) ==
    /\ running /\ hub.connections[id] = 0 /\ versions < MaxVersions
    /\ versions' = versions + 1
    /\ servers' = [servers EXCEPT ![id] = versions + 1]
    /\ links' = Overtaken(links, id)
    /\ UNCHANGED <<accounts, remembered, hub, work, todo, running, reply>>

(* remove_local_connector; a store that fails leaves it remembered. *)
RemoveLocal(w, id) ==
    /\ running /\ work[w].at = "idle"
    /\ servers[id] # 0 /\ hub.connections[id] = 0
    /\ servers' = [servers EXCEPT ![id] = 0]
    /\ links' = Overtaken(links, id)
    /\ \/ remembered' = remembered \ {id} /\ Told(id, "off")
       \/ Told(id, "none") /\ UNCHANGED remembered
    /\ UNCHANGED <<accounts, hub, work, todo, running, versions>>

(* sign_in_connector, one at a time. *)
SignIn(w, id) ==
    /\ running /\ work[w].at = "idle" /\ \A v \in Workers : ~work[v].lease
    /\ work' = [work EXCEPT ![w] = [at |-> "signin", id |-> id, link |-> 0, lease |-> TRUE]]
    /\ UNCHANGED <<servers, accounts, remembered, hub, links, todo, running, versions, reply>>

(* The callback is exchanged for an account, which the vault takes; the     *)
(* browser's page is written next.                                          *)
CallbackTaken(w) ==
    /\ running /\ work[w].at = "signin"
    /\ accounts' = accounts \cup {work[w].id}
    /\ work' = [work EXCEPT ![w].at = "signed"]
    /\ UNCHANGED <<servers, remembered, hub, links, todo, running, versions, reply>>

(* Signed in: connect_connector goes on. *)
SignedIn(w) ==
    /\ running /\ work[w].at = "signed"
    /\ IF CanBegin(work[w].id) THEN Begin(w, work[w].id, TRUE) /\ UNCHANGED reply
       ELSE /\ work' = [work EXCEPT ![w] = Idle] /\ Told(work[w].id, "none")
            /\ UNCHANGED links
    /\ UNCHANGED <<servers, accounts, remembered, hub, todo, running, versions>>

(* Cancelled, expired or rejected, until the answer is written. *)
SignInEnds(w) ==
    /\ running /\ work[w].at \in {"signin", "signed"}
    /\ work' = [work EXCEPT ![w] = Idle]
    /\ Told(work[w].id, "none")
    /\ UNCHANGED <<servers, accounts, remembered, hub, links, todo, running, versions>>

(* A server ends, or its transport closes; the hub keeps the entry. *)
Dies ==
    /\ running
    /\ \E n \in DOMAIN links : links[n].state = "up" /\ links' = [links EXCEPT ![n].state = "over"]
    /\ UNCHANGED <<servers, accounts, remembered, hub, work, todo, running, versions, reply>>

(* The exit: disconnect_all, then process::exit, which runs no destructor. *)
Quit ==
    /\ running /\ running' = FALSE
    /\ hub' = [hub EXCEPT !.connections = [id \in Ids |-> 0]]
    /\ links' = [n \in DOMAIN links |->
                   IF hub.connections[links[n].of] = n THEN [links[n] EXCEPT !.state = "over"] ELSE links[n]]
    /\ work' = [w \in Workers |-> Idle] /\ todo' = {}
    /\ UNCHANGED <<servers, accounts, remembered, versions, reply>>

Next ==
    \/ RestoreNext \/ RestoreRecords \/ RestoreNotes
    \/ \E w \in Workers : Established(w) \/ EstablishFails(w)
    \/ \E w \in Pages, id \in Ids :
         \/ Connect(w, id) \/ ConnectWithToken(w, id)
         \/ \E forget \in BOOLEAN : Disconnect(w, id, forget)
    \/ \E w \in Pages : PageRecords(w) \/ CallbackTaken(w) \/ SignedIn(w) \/ SignInEnds(w)
    \/ \E w \in Pages, id \in LocalServers : RemoveLocal(w, id)
    \/ \E id \in LocalServers : SaveLocal(id)
    \/ \E w \in Pages, id \in OauthPresets : SignIn(w, id)
    \/ Dies \/ Quit

Spec == Init /\ [][Next]_vars

-----------------------------------------------------------------------------
(* No live session is forgotten: it is in the hub, or someone still sets it *)
(* up (an insertion cancels what it replaces).                              *)
NoneForgotten ==
    \A n \in DOMAIN links : running /\ Live(n) =>
        hub.connections[links[n].of] = n \/ \E w \in Workers : work[w].link = n

(* A connector the user was told is off has a session only if the restore   *)
(* of the start came after (disconnect_connector, restore_connections).     *)
OffIsOff ==
    \A id \in Ids : reply[id] = "off" /\ hub.connections[id] # 0 =>
        links[hub.connections[id]].by = 0

(* A connector the user was told is on is in the hub, and will be restored  *)
(* (connect_connector, remove_local).                                       *)
OnIsKept ==
    \A id \in Ids : running /\ reply[id] = "on" => hub.connections[id] # 0 /\ id \in remembered

(* A session in the hub is one of the saved configuration, and of an        *)
(* account the vault has, unless those changed while it was set up          *)
(* (save_local, remove_local, disconnect).                                  *)
Backed ==
    \A id \in Ids : LET n == hub.connections[id] IN
        n # 0 /\ ~links[n].overtaken =>
            /\ links[n].version = Version(id)
            /\ id \in OauthPresets => id \in accounts

(* What the hub, the vault, the store and the user know of a connector      *)
(* agree (McpHub).                                                          *)
ConnectionsHold == NoneForgotten /\ OffIsOff /\ OnIsKept /\ Backed

-----------------------------------------------------------------------------
(* What the code or its docs say and is not so. *)

(* connectors.rs:131: "A second Disconnect reports this state [..]: the     *)
(* session is already gone from the map".                                   *)
UnreachableIsGone == \A id \in Ids : reply[id] = "unreachable" => hub.connections[id] = 0

(* Connectors.tsx:61: "disconnect to keep a service off". *)
DisconnectedStaysOff == \A id \in Ids : reply[id] = "off" => hub.connections[id] = 0

(* connectors.rs:917: "Disconnect the local server before editing its       *)
(* configuration."                                                          *)
EditedIsDisconnected ==
    \A id \in LocalServers : hub.connections[id] # 0 => links[hub.connections[id]].version = servers[id]

(* connectors.rs:710: "`header` presets require a saved bearer API token", *)
(* which connect_connector is to save.                                      *)
TokensAreTaken == \A id \in KeyPresets : PresetCredential(<<"token", id>>) = "header"

(* oauth.rs:154: "Sign-in cancelled." *)
CancelledLeavesNothing ==
    [][\A w \in Pages : SignInEnds(w) /\ work[w].at = "signed" => work[w].id \notin accounts']_vars

(* connectors.rs:1178: "Without this the MCP server processes outlive the   *)
(* app."                                                                    *)
NoneOutlives == \A n \in DOMAIN links : ~running /\ links[n].of \in LocalServers => ~Live(n)
=============================================================================
