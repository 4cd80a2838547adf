---------------------------- MODULE ScanRegistry ----------------------------
(***************************************************************************)
(* What the scan pipeline promises about one homeserver name, whatever the *)
(* queue, the leases, the two tick loops and the in-flight table do: a     *)
(* name that was handed to the bot is never forgotten, it becomes          *)
(* "scanned" by the terminal write of a scan and stays so, only names the  *)
(* bot has heard of are scanned, and no name is scanned twice at once.     *)
(* ScanScheduler implements this specification.                            *)
(***************************************************************************)
EXTENDS Naturals

CONSTANT Targets   \* the scan targets (server names, port included)

VARIABLES known,      \* known[t]: what the two tables say of t
          scanning    \* scanning[t]: scan tasks of t that have not finished

vars == <<known, scanning>>

Knowledge == {"unheard", "queued", "scanned"}

TypeOK == /\ known \in [Targets -> Knowledge]
          /\ scanning \in [Targets -> {0, 1}]

Init == /\ known = [t \in Targets |-> "unheard"]
        /\ scanning = [t \in Targets |-> 0]

(* A source or the webhook hands over names; those heard before are dropped. *)
Discover(S) ==
    /\ \A t \in S : known[t] = "unheard"
    /\ known' = [t \in Targets |-> IF t \in S THEN "queued" ELSE known[t]]
    /\ UNCHANGED scanning

(* A tick starts a batch of scans, of names the bot knows and is not scanning. *)
Launch(S) ==
    /\ \A t \in S : known[t] # "unheard" /\ scanning[t] = 0
    /\ scanning' = [t \in Targets |-> IF t \in S THEN 1 ELSE scanning[t]]
    /\ UNCHANGED known

(* The terminal write of a running scan. *)
Record(t) ==
    /\ scanning[t] = 1
    /\ known' = [known EXCEPT ![t] = "scanned"]
    /\ UNCHANGED scanning

(* A scan ends, by returning or by raising. *)
Finish(t) ==
    /\ scanning[t] = 1
    /\ scanning' = [scanning EXCEPT ![t] = 0]
    /\ UNCHANGED known

(* A restart abandons every scan and nothing else. *)
Abandon ==
    /\ scanning' = [t \in Targets |-> 0]
    /\ UNCHANGED known

Next == \/ \E S \in SUBSET Targets : Discover(S) \/ Launch(S)
        \/ \E t \in Targets : Record(t) \/ Finish(t)
        \/ Abandon

Spec == Init /\ [][Next]_vars
=============================================================================
