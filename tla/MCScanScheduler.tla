-------------------------- MODULE MCScanScheduler ---------------------------
(* ScanScheduler for TLC, with a history variable: the targets started or    *)
(* recorded since the rescan tick in progress passed its gate.               *)
EXTENDS ScanScheduler

VARIABLE moved

MCInit == Init /\ moved = {}

MCNext ==
    /\ Next
    /\ moved' = IF rescanTick.pc \in {"querying", "launching"}
                THEN moved \cup {t \in Targets : \/ probing'[t] > probing[t]
                                                 \/ settling'[t] > settling[t]}
                ELSE {}

MCSpec == MCInit /\ [][MCNext]_<<vars, moved>>

(* Over-fetching by the in-flight count works: when a rescan tick launches   *)
(* fewer scans than authorised, and nothing it fetched was started or        *)
(* recorded by others while it waited, every scanned row it did not fetch is *)
(* in flight or was just recorded. Without the over-fetch, slow targets at   *)
(* the head of the ranking hide the due rows behind them.                    *)
NoDueRowMasked ==
    [][(/\ RescanLaunch
        /\ Cardinality(inflight' \ inflight) < rescanTick.take
        /\ rescanTick.due \cap moved = {}) =>
          \A t \in scanned \ rescanTick.due : t \in inflight \cup moved]_vars
=============================================================================
