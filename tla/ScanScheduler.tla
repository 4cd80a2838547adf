--------------------------- MODULE ScanScheduler ----------------------------
(***************************************************************************)
(* The scan pipeline of the bot: the tables scan_queue and scanned         *)
(* (db.py), the ingest of sources and webhook, the queue tick, the rescan  *)
(* tick with its credit meter, and the scan tasks tracked in _inflight     *)
(* (bot.py). Every step is what one coroutine does between two awaits, or  *)
(* one database transaction.                                               *)
(*                                                                         *)
(* Abstractions. A scan target is a number: its place in the collation of  *)
(* scan_target, which db.pending orders by. The clock appears twice and    *)
(* both times by what it does: a lease runs out at any moment after the    *)
(* claim (LeaseExpires), and last_scan_at is kept as the order of the last *)
(* recorded scans (older). One staleness T serves every status, so the     *)
(* rank of most_overdue is that order. What a scan finds is not here.      *)
(***************************************************************************)
EXTENDS Integers, FiniteSets

CONSTANTS
    Targets,        \* names that may be ingested, numbered in collation order
    ScanLimit,      \* queue.scan_batch_limit
    RescanLimit,    \* rescan.batch_limit
    CreditUnit,     \* credit that pays for one rescan
    Accrual,        \* credit one scanned row earns in one rescan tick
    MaxFaults       \* bound: exceptions and restarts in a behaviour

ASSUME TargetsAssumption == Targets \subseteq Nat /\ IsFiniteSet(Targets)
ASSUME LimitsAssumption ==
    /\ ScanLimit \in Nat /\ RescanLimit \in Nat
    /\ CreditUnit \in Nat \ {0} /\ Accrual \in Nat /\ MaxFaults \in Nat

VARIABLES
    queue,          \* scan_queue: no row, a row free to claim, a leased row
    scanned,        \* targets with a row in scanned
    older,          \* <<a, b>>: a's last recorded scan is before b's
    inflight,       \* keys of _inflight
    probing,        \* probing[t]: tasks of t before the terminal write
    settling,       \* settling[t]: tasks of t between the write and their end
    ended,          \* ended[t]: tasks of t over, done-callback not yet run
    credit,         \* _rescan_credit, in fractions of one rescan
    scanTick,       \* where the coroutine _scan_loop is, and its locals
    rescanTick,     \* where the coroutine _rescan_loop is, and its locals
    faults          \* exceptions and restarts so far

tables == <<queue, scanned, older>>
tasks  == <<probing, settling, ended>>
vars   == <<tables, inflight, tasks, credit, scanTick, rescanTick, faults>>

Least(a, b)    == IF a <= b THEN a ELSE b
Greatest(a, b) == IF a >= b THEN a ELSE b

MaxInflight == Greatest(1, ScanLimit + RescanLimit)
Slots       == MaxInflight - Cardinality(inflight)
MaxCredit   == RescanLimit * CreditUnit

ScanIdle   == [pc |-> "idle", take |-> 0, batch |-> {}]
RescanIdle == [pc |-> "idle", rows |-> 0, take |-> 0, fetch |-> 0,
               due |-> {}, rank |-> {}]

ByName == {p \in Targets \X Targets : p[1] < p[2]}

(* SELECT ... ORDER BY order LIMIT n: the first n members of S. *)
FirstOf(S, n, order) ==
    {C \in SUBSET S : /\ Cardinality(C) = Least(n, Cardinality(S))
                      /\ \A a \in C, b \in S \ C : <<a, b>> \in order}

TypeOK ==
    /\ queue \in [Targets -> {"absent", "free", "leased"}]
    /\ scanned \in SUBSET Targets
    /\ older \in SUBSET (Targets \X Targets)
    /\ inflight \in SUBSET Targets
    /\ probing \in [Targets -> Nat]
    /\ settling \in [Targets -> Nat]
    /\ ended \in [Targets -> Nat]
    /\ credit \in 0 .. MaxCredit
    /\ scanTick \in [pc : {"idle", "claiming", "launching"},
                     take : 0 .. ScanLimit, batch : SUBSET Targets]
    /\ rescanTick \in [pc : {"idle", "metering", "querying", "launching"},
                       rows : Nat, take : 0 .. RescanLimit, fetch : Nat,
                       due : SUBSET Targets, rank : SUBSET (Targets \X Targets)]
    /\ faults \in 0 .. MaxFaults

NoTasks == [t \in Targets |-> 0]

Init ==
    /\ queue = [t \in Targets |-> "absent"] /\ scanned = {} /\ older = {}
    /\ inflight = {} /\ probing = NoTasks /\ settling = NoTasks
    /\ ended = NoTasks /\ credit = 0 /\ scanTick = ScanIdle
    /\ rescanTick = RescanIdle /\ faults = 0

-----------------------------------------------------------------------------
(* Ingest: a source fetch or a webhook request hands over a cleaned batch.   *)
(* enqueue is one transaction: it skips targets already scanned and already  *)
(* queued; a new row has no lease.                                           *)

New(batch) == {t \in batch : t \notin scanned /\ queue[t] = "absent"}

Ingest(batch) ==
    /\ queue' = [t \in Targets |-> IF t \in New(batch) THEN "free" ELSE queue[t]]
    /\ UNCHANGED <<scanned, older, inflight, tasks, credit, scanTick,
                   rescanTick, faults>>

LeaseNeverExpires(t) == queue[t] = "leased" /\ UNCHANGED vars        \* faulty variant

(* The lease of a claimed row runs out: the row may be claimed again. *)
LeaseExpires(t) ==
    /\ queue[t] = "leased"
    /\ queue' = [queue EXCEPT ![t] = "free"]
    /\ UNCHANGED <<scanned, older, inflight, tasks, credit, scanTick,
                   rescanTick, faults>>

-----------------------------------------------------------------------------
(* _launch_scan over a batch: a target with a task in _inflight is skipped.  *)

StartableUnguarded(S) == S                                         \* faulty variant

Startable(S) == S \ inflight

LaunchScans(S) ==
    /\ probing' = [t \in Targets |-> IF t \in S THEN probing[t] + 1 ELSE probing[t]]
    /\ inflight' = inflight \cup S
    /\ UNCHANGED <<settling, ended>>

-----------------------------------------------------------------------------
(* _scan_loop. The admission gate is evaluated before the await of pending;  *)
(* pending claims rows in one transaction; the launches follow its return.   *)
(* A tick without free slots only logs.                                      *)

ScanTake == Least(ScanLimit, Slots)

ScanAdmit ==
    /\ scanTick.pc = "idle"
    /\ Slots > 0
    /\ scanTick' = [ScanIdle EXCEPT !.pc = "claiming", !.take = ScanTake]
    /\ UNCHANGED <<tables, inflight, tasks, credit, rescanTick, faults>>

Claimable == {t \in Targets : queue[t] = "free"}

LeaseByDelete(claim) ==                                            \* faulty variant
    [t \in Targets |-> IF t \in claim THEN "absent" ELSE queue[t]]

Lease(claim) == [t \in Targets |-> IF t \in claim THEN "leased" ELSE queue[t]]

ScanClaim ==
    /\ scanTick.pc = "claiming"
    /\ \E claim \in FirstOf(Claimable, scanTick.take, ByName) :
          /\ queue' = Lease(claim)
          /\ scanTick' = [scanTick EXCEPT !.pc = "launching", !.batch = claim]
    /\ UNCHANGED <<scanned, older, inflight, tasks, credit, rescanTick, faults>>

ScanLaunch ==
    /\ scanTick.pc = "launching"
    /\ LaunchScans(Startable(scanTick.batch))
    /\ scanTick' = ScanIdle
    /\ UNCHANGED <<tables, credit, rescanTick, faults>>

(* pending raises: its transaction is rolled back and the tick only warns. *)
ScanTickFails ==
    /\ scanTick.pc = "claiming" /\ faults < MaxFaults
    /\ scanTick' = ScanIdle
    /\ faults' = faults + 1
    /\ UNCHANGED <<tables, inflight, tasks, credit, rescanTick>>

-----------------------------------------------------------------------------
(* _rescan_loop: bucket_counts is awaited, the meter and the admission gate  *)
(* run, most_overdue is awaited, the launches follow its return.             *)

RescanCount ==
    /\ rescanTick.pc = "idle"
    /\ rescanTick' = [RescanIdle EXCEPT !.pc = "metering", !.rows = Cardinality(scanned)]
    /\ UNCHANGED <<tables, inflight, tasks, credit, scanTick, faults>>

AccruedUnclamped == credit + rescanTick.rows * Accrual             \* faulty variant

(* required * interval, clamped so that an idle period hoards no burst. *)
Accrued == Least(MaxCredit, credit + rescanTick.rows * Accrual)

RescanTakeRounded ==                                               \* faulty variant
    Least(Least((Accrued + CreditUnit - 1) \div CreditUnit, RescanLimit),
          Greatest(Slots, 0))

RescanTakeUngated == Least(Accrued \div CreditUnit, RescanLimit)    \* faulty variant

(* The take authorised by the credit and the free slots. *)
RescanTake == Least(Least(Accrued \div CreditUnit, RescanLimit), Greatest(Slots, 0))

FetchExact(take) == take                                           \* faulty variant

(* The take is over-fetched by the number of targets in flight. *)
Fetch(take) == take + Cardinality(inflight)

RescanMeter ==
    /\ rescanTick.pc = "metering"
    /\ credit' = Accrued
    /\ rescanTick' = IF RescanTake >= 1
                     THEN [pc |-> "querying", rows |-> 0, take |-> RescanTake,
                           fetch |-> Fetch(RescanTake), due |-> {}, rank |-> {}]
                     ELSE RescanIdle
    /\ UNCHANGED <<tables, inflight, tasks, scanTick, faults>>

(* most_overdue reads a snapshot of scanned: the rows and their rank. *)
RescanQuery ==
    /\ rescanTick.pc = "querying"
    /\ \E due \in FirstOf(scanned, rescanTick.fetch, older) :
          rescanTick' = [rescanTick EXCEPT !.pc = "launching", !.due = due,
                                              !.rank = older \cap (due \X due)]
    /\ UNCHANGED <<tables, inflight, tasks, credit, scanTick, faults>>

(* The rows are tried in order until take of them were launched; only a      *)
(* launch spends credit.                                                     *)
RescanLaunch ==
    /\ rescanTick.pc = "launching"
    /\ \E start \in FirstOf(Startable(rescanTick.due), rescanTick.take,
                               rescanTick.rank) :
          /\ LaunchScans(start)
          /\ credit' = credit - Cardinality(start) * CreditUnit
    /\ rescanTick' = RescanIdle
    /\ UNCHANGED <<tables, scanTick, faults>>

(* bucket_counts or most_overdue raises: accrued credit stays. *)
RescanTickFails ==
    /\ rescanTick.pc \in {"metering", "querying"} /\ faults < MaxFaults
    /\ rescanTick' = RescanIdle
    /\ faults' = faults + 1
    /\ UNCHANGED <<tables, inflight, tasks, credit, scanTick>>

-----------------------------------------------------------------------------
(* _scan_one as a task: the probes, the terminal write record_scan (one      *)
(* transaction: upsert scanned, then delete the queue row), then support,    *)
(* logging, reconcile and cleanup, which touch none of this state. The       *)
(* done-callback _scan_done runs in a later turn of the event loop.          *)

RefreshedOnce(t) ==                                                \* faulty variant
    IF t \in scanned THEN older ELSE older \cup (scanned \X {t})

(* record_scan refreshes last_scan_at whether the scan succeeded or not. *)
Refreshed(t) == {p \in older : p[1] # t /\ p[2] # t}
                \cup ((scanned \ {t}) \X {t})

DrainedNever(t) == queue                                           \* faulty variant

Drained(t) == [queue EXCEPT ![t] = "absent"]

Record(t) ==
    /\ probing[t] > 0
    /\ probing' = [probing EXCEPT ![t] = @ - 1]
    /\ settling' = [settling EXCEPT ![t] = @ + 1]
    /\ scanned' = scanned \cup {t}
    /\ older' = Refreshed(t)
    /\ queue' = Drained(t)
    /\ UNCHANGED <<inflight, ended, credit, scanTick, rescanTick, faults>>

(* The scan or the terminal write raises: nothing was written. *)
ScanRaises(t) ==
    /\ probing[t] > 0 /\ faults < MaxFaults
    /\ probing' = [probing EXCEPT ![t] = @ - 1]
    /\ ended' = [ended EXCEPT ![t] = @ + 1]
    /\ faults' = faults + 1
    /\ UNCHANGED <<tables, inflight, settling, credit, scanTick, rescanTick>>

(* The rest of the task returns, or raises: the callback only logs that. *)
Settle(t) ==
    /\ settling[t] > 0
    /\ settling' = [settling EXCEPT ![t] = @ - 1]
    /\ ended' = [ended EXCEPT ![t] = @ + 1]
    /\ UNCHANGED <<tables, inflight, probing, credit, scanTick, rescanTick, faults>>

ScanDone(t) ==
    /\ ended[t] > 0
    /\ ended' = [ended EXCEPT ![t] = @ - 1]
    /\ inflight' = inflight \ {t}
    /\ UNCHANGED <<tables, probing, settling, credit, scanTick, rescanTick, faults>>

(* stop() then start(), or the process dies and comes back: every task and   *)
(* tick is cancelled and awaited, _inflight and the credit start anew, the   *)
(* tables stay. A transaction cut short is rolled back.                      *)
Restart ==
    /\ faults < MaxFaults
    /\ inflight' = {} /\ probing' = NoTasks /\ settling' = NoTasks
    /\ ended' = NoTasks /\ credit' = 0 /\ scanTick' = ScanIdle
    /\ rescanTick' = RescanIdle
    /\ faults' = faults + 1
    /\ UNCHANGED tables

-----------------------------------------------------------------------------
ScanStep   == ScanAdmit \/ ScanClaim \/ ScanLaunch
RescanStep == RescanCount \/ RescanMeter \/ RescanQuery \/ RescanLaunch
TaskStep(t) == Record(t) \/ Settle(t) \/ ScanDone(t)

Next ==
    \/ \E batch \in SUBSET Targets : Ingest(batch)
    \/ \E t \in Targets : LeaseExpires(t) \/ TaskStep(t) \/ ScanRaises(t)
    \/ ScanStep \/ ScanTickFails
    \/ RescanStep \/ RescanTickFails
    \/ Restart

Spec == Init /\ [][Next]_vars

(* Both loops keep ticking, a task is given its turns and ends (every phase  *)
(* of a scan has a timeout), and a lease runs out. Nothing is assumed about  *)
(* sources, and nothing about a tick finding a free slot: that is the        *)
(* premise of the progress properties.                                       *)
Fairness ==
    /\ WF_vars(ScanStep) /\ WF_vars(RescanStep)
    /\ \A t \in Targets : WF_vars(TaskStep(t)) /\ WF_vars(LeaseExpires(t))

FairSpec == Spec /\ Fairness

-----------------------------------------------------------------------------
Running(t) == probing[t] + settling[t]

(* A target is never scanned twice at once: the queue tick, the rescan tick, *)
(* an expired lease and a slow scan together never start a second task       *)
(* (_launch_scan, "the same target can never run twice concurrently").       *)
NoDuplicateScan == \A t \in Targets : Running(t) <= 1

(* _inflight holds exactly the targets with a task, so that no task can be   *)
(* collected while it runs, stop() cancels all of them, and no slot leaks.   *)
TasksAreTracked ==
    inflight = {t \in Targets : Running(t) + ended[t] > 0}

(* The gates of the two ticks are evaluated before an await and used after   *)
(* it, so the ceiling may be overshot, against what _launch_scan says of it, *)
(* but by one batch of one tick at most.                                     *)
InflightBound ==
    Cardinality(inflight) <= MaxInflight + Greatest(ScanLimit, RescanLimit)

(* The tables agree with each other and with the tasks: a scanned target has *)
(* no queue row (scanned is the dedup authority), a target is probed only    *)
(* from a row of one of the tables (so that a crash loses no target), and    *)
(* what is past its terminal write is recorded.                              *)
TablesAgree ==
    \A t \in Targets :
        /\ t \in scanned => queue[t] = "absent"
        /\ probing[t] > 0 => t \in scanned \/ queue[t] # "absent"
        /\ settling[t] > 0 => t \in scanned

(* The rescan tick never starts a scan the meter has not paid for: from the  *)
(* gate to the launch its take stays covered by the credit.                  *)
RescansAreAuthorized ==
    rescanTick.pc \in {"querying", "launching"} =>
        rescanTick.take * CreditUnit <= credit

(* The pipeline implements ScanRegistry. *)
Registry == INSTANCE ScanRegistry WITH
    known <- [t \in Targets |-> IF t \in scanned THEN "scanned"
                                ELSE IF queue[t] = "absent" THEN "unheard" ELSE "queued"],
    scanning <- [t \in Targets |-> Running(t)]

RegistrySpec == Registry!Spec

(* Every queued target is eventually scanned, provided the queue tick finds  *)
(* a free slot again and again.                                              *)
QueueDrains ==
    []<><<ScanAdmit>>_vars =>
        \A t \in Targets : (queue[t] # "absent") ~> (t \in scanned)

(* Every scanned target is recorded again and again, provided the rescan     *)
(* tick is given credit and a slot again and again: no row starves.          *)
RescansRecur ==
    []<><<RescanLaunch>>_vars =>
        \A t \in Targets : []<>(t \in scanned => settling[t] > 0)
=============================================================================
