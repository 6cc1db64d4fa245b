----------------------------- MODULE AtomicPatch -----------------------------
(***************************************************************************)
(* What a workspace transaction promises to those who read the workspace   *)
(* through the app: its files change together or not at all.  A file that  *)
(* another application has written is the user's and outside the promise.  *)
(***************************************************************************)
CONSTANT Entries

VARIABLE seen  \* what each file of the patch is, to a native reader

Init == seen = [i \in Entries |-> "before"]

Touch(i) == seen' = [seen EXCEPT ![i] = "foreign"]

Commit ==
    /\ \A i \in Entries : seen[i] # "after"
    /\ seen' = [i \in Entries |-> IF seen[i] = "before" THEN "after" ELSE "foreign"]

Next == Commit \/ \E i \in Entries : Touch(i)

Spec == Init /\ [][Next]_seen
=============================================================================
