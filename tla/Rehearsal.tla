----------------------------- MODULE Rehearsal -----------------------------
(* A migration rehearsed on a disposable database (database_rehearsal.rs).  *)
(* The program creates a role and a database on a remote server, records in *)
(* its own store what it is about to create, and later drops what it finds  *)
(* and can prove to be its own.  An acknowledgement of the server may be    *)
(* lost, a statement may run after its caller gave up, and the program may  *)
(* stop between any two steps.                                              *)
EXTENDS FiniteSets, Naturals

CONSTANTS
    Engines,        \* of {"postgres", "mysql"}
    LateRoles,      \* engines at which a CREATE ROLE may run late
    LateDatabases,  \* and a CREATE DATABASE
    Outsiders,      \* engines at which others may take the generated names
    MaxCleanups     \* bound on the calls of database_cleanup

VARIABLES
    engine,
    at,             \* where the rehearsal or the cleanup is
    ledger,         \* development.rehearsal.<id>: status, absence, intents, creations
    seen,           \* what the cleanup's inspection found
    remote,         \* the role and the database of the generated names
    late,           \* statements that may still run at the server
    cleanups

vars == <<engine, at, ledger, seen, remote, late, cleanups>>

Kinds == {"role", "database"}
Drop == [role |-> "drop role", database |-> "drop database"]
Drops == {Drop[k] : k \in Kinds}
Statements == Kinds \cup Drops
Kind(s) == IF s \in Kinds THEN s ELSE CHOOSE k \in Kinds : Drop[k] = s

Init ==
    /\ engine \in Engines
    /\ at = "idle" /\ seen = {} /\ late = {} /\ cleanups = 0
    /\ ledger = [status |-> "none", absent |-> FALSE, may |-> {}, made |-> {}]
    /\ remote = [k \in Kinds |-> "none"]

-----------------------------------------------------------------------------
(* The server *)

(* In PostgreSQL a database needs its owner, and a role that owns one      *)
(* cannot be dropped.                                                      *)
Possible(s) ==
    /\ s \in Kinds => remote[s] = "none"
    /\ engine = "postgres" => /\ s = "database" => remote.role = "ours"
                              /\ s = "drop role" => remote.database # "ours"

Applied(s) == [remote EXCEPT ![Kind(s)] = IF s \in Kinds THEN "ours" ELSE "none"]

LateRuns ==
    /\ \E s \in late :
         late' = late \ {s} /\ remote' = IF Possible(s) THEN Applied(s) ELSE remote
    /\ UNCHANGED <<engine, at, ledger, seen, cleanups>>

Lateable(s) ==
    /\ s = "role" => engine \in LateRoles
    /\ s = "database" => engine \in LateDatabases

(* What may have become of a statement that is not acknowledged. *)
Unacknowledged(s) ==
    \/ UNCHANGED <<remote, late>>
    \/ Possible(s) /\ remote' = Applied(s) /\ UNCHANGED late
    \/ Lateable(s) /\ late' = late \cup {s} /\ UNCHANGED remote

(* Somebody else takes a name while the rehearsal creates. *)
Taken ==
    /\ engine \in Outsiders /\ at \in {"check", "intend role", "intend database"} \cup Kinds
    /\ \E k \in Kinds : remote[k] = "none" /\ remote' = [remote EXCEPT ![k] = "foreign"]
    /\ UNCHANGED <<engine, at, ledger, seen, late, cleanups>>

-----------------------------------------------------------------------------
(* execute *)

Prepare ==
    /\ at = "idle" /\ ledger.status = "none"
    /\ ledger' = [ledger EXCEPT !.status = "prepared"]
    /\ at' = "check"
    /\ UNCHANGED <<engine, seen, remote, late, cleanups>>

Check ==
    /\ at = "check" /\ remote = [k \in Kinds |-> "none"]
    /\ ledger' = [ledger EXCEPT !.absent = TRUE]
    /\ at' = "intend role"
    /\ UNCHANGED <<engine, seen, remote, late, cleanups>>

Intention == [role |-> "intend role", database |-> "intend database"]

(* A slip: what is created is recorded once it is there. *)
IntendedLater(k) == ledger

(* roleMayExist and databaseMayExist, before the statement is sent. *)
Intended(k) == [ledger EXCEPT !.may = @ \cup {k}]

Intend(k) ==
    /\ at = Intention[k]
    /\ ledger' = Intended(k) /\ at' = k
    /\ UNCHANGED <<engine, seen, remote, late, cleanups>>

After(s) ==
    CASE s = "role" -> "intend database"
      [] s = "database" -> "restore"
      [] s = "drop database" /\ "role" \in seen -> "drop role"
      [] OTHER -> "finish"

(* A statement and its acknowledgement, with the write that records it. *)
Acknowledged(s) ==
    /\ at = s /\ Possible(s)
    /\ remote' = Applied(s)
    /\ ledger' = IF s \in Kinds THEN [ledger EXCEPT !.made = @ \cup {s}]
                 ELSE [ledger EXCEPT !.may = @ \ {Kind(s)}, !.made = @ \ {Kind(s)}]
    /\ at' = After(s)
    /\ UNCHANGED <<engine, seen, late, cleanups>>

(* The dump is restored and migrated inside the scratch database; the      *)
(* cleanup follows on every outcome.                                       *)
Restore ==
    /\ at = "restore"
    /\ ledger' = [ledger EXCEPT !.status = "restored"]
    /\ at' = "cleanup"
    /\ UNCHANGED <<engine, seen, remote, late, cleanups>>

Creating == {"check", "intend role", "intend database", "restore"} \cup Kinds
Cleaning == {"cleanup", "finish"} \cup Drops

(* An error, a timeout, or a write to the store that fails: a rehearsal    *)
(* goes on to its cleanup, a cleanup ends.                                 *)
Fails ==
    /\ \/ at \in Creating /\ at' = "cleanup"
       \/ at \in Cleaning /\ at' = "idle"
    /\ IF at \in Statements THEN Unacknowledged(at) ELSE UNCHANGED <<remote, late>>
    /\ UNCHANGED <<engine, ledger, seen, cleanups>>

(* The call is dropped, or the program stops: no cleanup follows. *)
Stops ==
    /\ at # "idle" /\ at' = "idle"
    /\ IF at \in Statements THEN Unacknowledged(at) ELSE UNCHANGED <<remote, late>>
    /\ UNCHANGED <<engine, ledger, seen, cleanups>>

-----------------------------------------------------------------------------
(* cleanup, and database_cleanup *)

CleanupTool ==
    /\ at = "idle" /\ ledger.status \notin {"none", "cleaned"} /\ cleanups < MaxCleanups
    /\ at' = "cleanup" /\ cleanups' = cleanups + 1
    /\ UNCHANGED <<engine, ledger, seen, remote, late>>

Existing == {k \in Kinds : remote[k] # "none"}

(* A slip: the generated names and the intent are proof enough. *)
RefusedByIntent == \E k \in Existing : k \notin ledger.may \cup ledger.made

(* owned_resources and the checks of the intent: the role bears the marker, *)
(* the database belongs to it (in MySQL: there is the role) and was absent.  *)
Refused ==
    \/ remote.role = "foreign"
    \/ /\ remote.database # "none"
       /\ \/ remote.role = "none" \/ ~ledger.absent
          \/ engine = "postgres" /\ remote.database = "foreign"
    \/ \E k \in Existing : k \notin ledger.may \cup ledger.made

(* Each drop goes by what this inspection found. *)
Inspect ==
    /\ at = "cleanup" /\ ~Refused
    /\ seen' = Existing
    /\ at' = IF "database" \in Existing THEN "drop database"
             ELSE IF "role" \in Existing THEN "drop role" ELSE "finish"
    /\ UNCHANGED <<engine, ledger, remote, late, cleanups>>

Finish ==
    /\ at = "finish"
    /\ ledger' = [ledger EXCEPT !.status = "cleaned", !.may = {}, !.made = {}]
    /\ at' = "idle"
    /\ UNCHANGED <<engine, seen, remote, late, cleanups>>

Next ==
    \/ Prepare \/ Check \/ Restore \/ Fails \/ Stops
    \/ \E k \in Kinds : Intend(k)
    \/ \E s \in Statements : Acknowledged(s)
    \/ CleanupTool \/ Inspect \/ Finish
    \/ LateRuns \/ Taken

Spec == Init /\ [][Next]_vars

-----------------------------------------------------------------------------
(* Whatever of the rehearsal exists at the server can still be cleaned up:  *)
(* its record is not closed, and, names not taken by others, a cleanup that *)
(* looks is not refused ("lost acknowledgements remain discoverable").      *)
Reclaimable ==
    "ours" \in {remote[k] : k \in Kinds} =>
        /\ ledger.status # "cleaned"
        /\ Refused => "foreign" \in {remote[k] : k \in Kinds}

(* What others created under the generated names stays ("marker mismatches  *)
(* are preserved, never adopted").                                          *)
ForeignKept == [][\A k \in Kinds : remote[k] = "foreign" => remote'[k] = "foreign"]_vars
=============================================================================
