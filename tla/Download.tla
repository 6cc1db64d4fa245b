------------------------------ MODULE Download ------------------------------
(* A resumable, verified download (download.rs fetch and install_verified, *)
(* the choice between fetch and verify_file of model_install.rs).  Bytes   *)
(* are Size units; what matters of saved bytes is their number and whether *)
(* they are the pinned ones.  The service is free to answer anything.      *)
EXTENDS Naturals

CONSTANTS
    Size,           \* units of the pinned asset
    MaxRetries,     \* TransferPolicy.max_retries
    MaxFetches      \* bound: fetches begun

VARIABLES
    dest,           \* the destination: "none", "foreign", "verified" or "bad"
    part,           \* the .part file: units (None if there is no file) and whether they are right
    fetch,          \* where the fetch is
    have,           \* bytes saved, as the fetch counts them
    hash,           \* the running hash is that of the pinned bytes so far
    failures, highWater,
    links,          \* the volume supports hard links
    fetches         \* count of fetches

transfer == <<have, hash, failures, highWater>>
vars == <<dest, part, fetch, transfer, links, fetches>>

None == Size + 2
NoPart == [units |-> None, right |-> TRUE]
Units(n, right) == [units |-> n, right |-> right]

Init ==
    /\ dest \in {"none", "foreign"} /\ links \in BOOLEAN
    /\ part \in {NoPart} \cup {Units(n, right) : n \in 0..Size + 1, right \in BOOLEAN}
    /\ fetch = "idle" /\ have = 0 /\ hash = TRUE /\ failures = 0 /\ highWater = 0
    /\ fetches = 0

Idle ==
    /\ fetch' = "idle"
    /\ have' = 0 /\ hash' = TRUE /\ failures' = 0 /\ highWater' = 0

(* An existing destination is verified, never fetched. *)
Begin ==
    /\ fetch = "idle" /\ dest = "none"
    /\ fetches < MaxFetches /\ fetches' = fetches + 1
    /\ have' = IF part.units > Size THEN 0 ELSE part.units
    /\ part' = IF part.units > Size THEN Units(0, TRUE) ELSE part
    /\ fetch' = "opened"
    /\ UNCHANGED <<dest, hash, failures, highWater, links>>

(* The saved bytes are hashed again. *)
Rehash ==
    /\ fetch = "opened"
    /\ hash' = part.right /\ highWater' = have
    /\ fetch' = IF have < Size THEN "request" ELSE "check"
    /\ UNCHANGED <<dest, part, have, failures, links, fetches>>

(* The saved bytes that a failed fetch leaves behind. *)
Saved(discard) == part' = IF part.units = 0 \/ discard THEN NoPart ELSE part

Fails(discard) ==
    /\ Saved(discard) /\ Idle
    /\ UNCHANGED <<dest, links, fetches>>

-----------------------------------------------------------------------------
(* A slip: an attempt that saved anything at all starts the count again. *)
AnyProgress == have > 0

(* More is saved than ever before in this fetch. *)
Progress == have > highWater

(* A transient failure: what was received decides when it is complete,     *)
(* otherwise the fetch tries again, so many times without progress.        *)
Transient ==
    IF have = Size
      THEN /\ fetch' = "check"
           /\ UNCHANGED <<dest, part, transfer, links, fetches>>
      ELSE LET count == (IF Progress THEN 0 ELSE failures) + 1
           IN IF count > MaxRetries THEN Fails(FALSE)
              ELSE /\ failures' = count
                   /\ highWater' = IF Progress THEN have ELSE highWater
                   /\ fetch' = "request"
                   /\ UNCHANGED <<dest, part, have, hash, links, fetches>>

(* 206 with the range that was asked for. *)
Resumes ==
    /\ fetch = "request"
    /\ fetch' = "stream"
    /\ UNCHANGED <<dest, part, transfer, links, fetches>>

(* 200: the service ignored the range, and the saved prefix is dropped.    *)
StartsOver ==
    /\ fetch = "request" /\ have > 0
    /\ fetch' = "stream"
    /\ part' = Units(0, TRUE) /\ have' = 0 /\ hash' = TRUE
    /\ UNCHANGED <<dest, failures, highWater, links, fetches>>

(* No headers in time, no connection, a busy service. *)
NoAnswer == fetch = "request" /\ Transient

(* Another status, a wrong range or size, no space for a fresh start.      *)
Refused == fetch = "request" /\ Fails(FALSE)

Chunk ==
    /\ fetch = "stream"
    /\ \E n \in 1..2, right \in BOOLEAN :
         IF have + n > Size THEN Fails(FALSE)
         ELSE /\ have' = have + n
              /\ part' = Units(have', part.right /\ right)
              /\ hash' = (hash /\ right)
              /\ UNCHANGED <<dest, fetch, failures, highWater, links, fetches>>

(* The body ends, stalls or breaks off. *)
StreamEnds == fetch = "stream" /\ Transient

WriteFails == fetch = "stream" /\ Fails(FALSE)

(* A slip: a part that was complete when it was opened is believed. *)
Believed == hash \/ highWater = Size

Verified == hash

Check ==
    /\ fetch = "check"
    /\ IF Verified THEN fetch' = "install" /\ UNCHANGED <<dest, part, transfer, links, fetches>>
       ELSE Fails(TRUE)

Cancel ==
    /\ fetch \in {"opened", "request", "stream", "check"}
    /\ Fails(FALSE)

-----------------------------------------------------------------------------
(* install_verified: a link fails where a file already is.                 *)
Published == IF part.right THEN "verified" ELSE "bad"

Link ==
    /\ fetch = "install" /\ links /\ dest = "none"
    /\ dest' = Published /\ fetch' = "unlink"
    /\ UNCHANGED <<part, transfer, links, fetches>>

Unlink ==
    /\ fetch = "unlink"
    /\ part' = NoPart /\ Idle
    /\ UNCHANGED <<dest, links, fetches>>

DestinationTaken == fetch = "install" /\ dest # "none" /\ Fails(TRUE)

(* No hard links here: the name was free a moment ago. *)
LooksFree ==
    /\ fetch = "install" /\ ~links /\ dest = "none"
    /\ fetch' = "rename"
    /\ UNCHANGED <<dest, part, transfer, links, fetches>>

Rename ==
    /\ fetch = "rename"
    /\ dest' = Published /\ part' = NoPart /\ Idle
    /\ UNCHANGED <<links, fetches>>

-----------------------------------------------------------------------------
(* Another program creates the destination. *)
Foreign ==
    /\ dest = "none"
    /\ dest' = "foreign"
    /\ UNCHANGED <<part, fetch, transfer, links, fetches>>

(* The program or the machine dies; what was not synced may be lost or     *)
(* wrong.                                                                  *)
Crash ==
    /\ fetch # "idle"
    /\ IF fetch \in {"install", "unlink", "rename"} THEN UNCHANGED part
       ELSE \E n \in 0..part.units, right \in BOOLEAN :
              part' = Units(n, n = 0 \/ (part.right /\ right))
    /\ Idle
    /\ UNCHANGED <<dest, links, fetches>>

FetchStep ==
    \/ Rehash \/ Resumes \/ StartsOver \/ NoAnswer \/ Refused \/ Chunk \/ StreamEnds
    \/ WriteFails \/ Check \/ Link \/ Unlink \/ DestinationTaken \/ LooksFree \/ Rename

Next == Begin \/ FetchStep \/ Cancel \/ Foreign \/ Crash

Spec == Init /\ [][Next]_vars
FairSpec == Spec /\ WF_vars(FetchStep)

-----------------------------------------------------------------------------
(* Only the pinned bytes are ever published, and a file that is already    *)
(* there is never replaced on a volume with hard links ("without ever      *)
(* replacing an existing file"), through resumes, cancels and crashes.     *)
DestinationKept ==
    [][dest' # "bad" /\ (dest = "foreign" /\ links => dest' = "foreign")]_vars

(* The same where there are none. *)
ForeignKept == [][dest = "foreign" => dest' = "foreign"]_vars

(* Every fetch ends, whatever the service answers: each unit saved is      *)
(* worth MaxRetries more attempts and no more (fetch_with_policy).         *)
FetchEnds == []<>(fetch = "idle")
=============================================================================
