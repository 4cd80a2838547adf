---------------------------- MODULE MCGovernance ----------------------------
(* Governance on small instances, with history variables: whether the room   *)
(* was edited while a read was under way, and the suffix list halt under     *)
(* which the last fetch began.                                               *)
EXTENDS Governance

CONSTANTS kept, edited

VARIABLES raced, chased

MCContents ==
    { [kind |-> "invalid", cap |-> FALSE, floor |-> NoFloor],
      [kind |-> "valid",   cap |-> FALSE, floor |-> NoFloor],
      [kind |-> "valid",   cap |-> TRUE,  floor |-> 2],
      [kind |-> "valid",   cap |-> TRUE,  floor |-> BadFloor] }

Reading == reader.pc \in {"gotRules", "askConfig", "gotConfig"}

(* The rule nobody edits is there; the other one, if anybody adds it. *)
MCInit == Init /\ room = {kept} /\ raced = FALSE /\ chased = <<>>

MCNext ==
    /\ Next
    /\ raced' = IF Asking = reader' THEN FALSE
                ELSE raced \/ (Reading /\ <<room, event>>' # <<room, event>>)
    /\ chased' = IF loop' = "fetching" /\ loop # "fetching" THEN pslHalt ELSE chased

MCSafety == MCInit /\ [][MCNext]_<<vars, raced, chased>>
MCSpec   == MCSafety /\ Fairness

(* An edit is lost only in a race with a read: when the reads are over and   *)
(* all was delivered, and the room was not edited during the last pass of    *)
(* reads, the bot's state is that of the room.                               *)
StaleOnlyByRace == reader.pc = "done" /\ feed = <<>> /\ ~raced => Current

(* The refresh loop never sleeps on a suffix list halt it has not fetched    *)
(* for: the wake-up is neither lost while it fetches nor while it persists.  *)
HaltIsChased ==
    loop = "sleeping" /\ pslHalt # <<>> => wake \/ chased = pslHalt
=============================================================================
