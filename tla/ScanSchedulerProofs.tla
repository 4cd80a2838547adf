------------------------ MODULE ScanSchedulerProofs -------------------------
(***************************************************************************)
(* Theorems about ScanScheduler, for every set of targets, every batch     *)
(* limit, every accrual and every number of faults.                        *)
(***************************************************************************)
EXTENDS MCScanScheduler, FiniteSetTheorems, TLAPS

(* What FirstOf returns: some of S, no more than asked for.                  *)
LEMMA FirstOfSelects ==
    ASSUME NEW S, IsFiniteSet(S), NEW n \in Nat, NEW order,
           NEW C \in FirstOf(S, n, order)
    PROVE  /\ C \subseteq S
           /\ IsFiniteSet(C)
           /\ Cardinality(C) \in Nat
           /\ Cardinality(C) <= n
<1>1. C \subseteq S /\ Cardinality(C) = Least(n, Cardinality(S))
  BY DEF FirstOf
<1>2. IsFiniteSet(C)
  BY <1>1, FS_Subset
<1>3. Cardinality(C) \in Nat /\ Cardinality(S) \in Nat
  BY <1>2, FS_CardinalityType
<1>. QED
  BY <1>1, <1>2, <1>3 DEF Least

(* Launching a batch costs at most its size in slots.                        *)
LEMMA LaunchAdds ==
    ASSUME NEW A, NEW B, IsFiniteSet(A), IsFiniteSet(B)
    PROVE  /\ Cardinality(A) \in Nat /\ Cardinality(B) \in Nat
           /\ Cardinality(A \cup B) \in Nat
           /\ Cardinality(A \cup B) <= Cardinality(A) + Cardinality(B)
<1>1. Cardinality(A \cup B) =
          Cardinality(A) + Cardinality(B) - Cardinality(A \cap B)
  BY FS_Union
<1>2. Cardinality(A) \in Nat /\ Cardinality(B) \in Nat
  BY FS_CardinalityType
<1>3. Cardinality(A \cap B) \in Nat /\ Cardinality(A \cup B) \in Nat
  BY FS_CardinalityType, FS_Intersection, FS_Union
<1>. QED
  BY <1>1, <1>2, <1>3

(* The credit that a take of whole rescans needs is at hand.                 *)
LEMMA WholeUnits ==
    ASSUME NEW a \in Nat, NEW u \in Nat \ {0}, NEW k \in Nat, k <= a \div u
    PROVE  k * u <= a
<1>1. a \div u \in Nat /\ (a \div u) * u <= a
  BY Z3
<1>2. k * u <= (a \div u) * u
  BY <1>1, Z3
<1>3. k * u \in Nat /\ (a \div u) * u \in Nat
  BY <1>1, Z3
<1>. QED
  BY <1>1, <1>2, <1>3

(* Every set of targets is finite and has a cardinality.                     *)
LEMMA TargetsFinite ==
    ASSUME NEW S \in SUBSET Targets
    PROVE  IsFiniteSet(S) /\ Cardinality(S) \in Nat
BY TargetsAssumption, FS_Subset, FS_CardinalityType

-----------------------------------------------------------------------------
(* Type correctness. That the credit never goes below zero needs the take of *)
(* a rescan tick to stay covered while the tick awaits its query: the two    *)
(* are inductive together.                                                   *)
TypeInv == TypeOK /\ RescansAreAuthorized

LEMMA LimitsAreNat ==
    /\ MaxInflight \in Nat /\ MaxCredit \in Nat
    /\ ScanLimit \in Nat /\ RescanLimit \in Nat
    /\ CreditUnit \in Nat /\ CreditUnit > 0 /\ Accrual \in Nat /\ MaxFaults \in Nat
BY LimitsAssumption DEF MaxInflight, MaxCredit, Greatest

(* What the gate of the rescan tick lets through is paid for.                *)
LEMMA MeterIsCovered ==
    ASSUME TypeOK
    PROVE  /\ Slots \in Int
           /\ Accrued \in 0 .. MaxCredit
           /\ RescanTake \in 0 .. RescanLimit
           /\ RescanTake * CreditUnit <= Accrued
           /\ RescanTake <= Greatest(Slots, 0)
<1>1. Slots \in Int
  BY TargetsFinite, LimitsAreNat DEF TypeOK, Slots
<1>2. rescanTick.rows * Accrual \in Nat
  <2>1. rescanTick.rows \in Nat
    BY DEF TypeOK
  <2>. QED
    BY <2>1, LimitsAreNat
<1>3. Accrued \in 0 .. MaxCredit
  BY <1>2, LimitsAreNat DEF TypeOK, Accrued, Least
<1>4. Accrued \div CreditUnit \in Nat
  BY <1>3, LimitsAreNat, Z3
<1>5. RescanTake \in 0 .. RescanLimit /\ RescanTake <= Accrued \div CreditUnit
      /\ RescanTake <= Greatest(Slots, 0)
  BY <1>1, <1>4, LimitsAreNat DEF RescanTake, Least, Greatest
<1>6. RescanTake * CreditUnit <= Accrued
  BY <1>3, <1>5, LimitsAreNat, WholeUnits
<1>. QED
  BY <1>1, <1>3, <1>5, <1>6

LEMMA InitTypeInv == Init => TypeInv
BY LimitsAreNat
   DEF Init, TypeInv, TypeOK, RescansAreAuthorized, NoTasks, ScanIdle, RescanIdle

LEMMA StepTypeInv == TypeInv /\ [Next]_vars => TypeInv'
<1>. SUFFICES ASSUME TypeInv, [Next]_vars PROVE TypeInv'
  OBVIOUS
<1>. USE LimitsAreNat
<1>. USE DEF TypeInv, TypeOK, RescansAreAuthorized
<1>1. ASSUME NEW batch \in SUBSET Targets, Ingest(batch) PROVE TypeInv'
  BY <1>1 DEF Ingest, tasks
<1>2. ASSUME NEW t \in Targets, LeaseExpires(t) PROVE TypeInv'
  BY <1>2 DEF LeaseExpires, tasks
<1>3. ASSUME NEW t \in Targets, Record(t) PROVE TypeInv'
  <2>1. probing[t] - 1 \in Nat
    BY <1>3 DEF Record
  <2>2. probing' \in [Targets -> Nat] /\ settling' \in [Targets -> Nat]
    BY <1>3, <2>1 DEF Record
  <2>3. queue' \in [Targets -> {"absent", "free", "leased"}]
    BY <1>3 DEF Record, Drained
  <2>4. scanned' \in SUBSET Targets /\ older' \in SUBSET (Targets \X Targets)
    BY <1>3 DEF Record, Refreshed
  <2>. QED
    BY <1>3, <2>2, <2>3, <2>4 DEF Record
<1>4. ASSUME NEW t \in Targets, Settle(t) PROVE TypeInv'
  <2>1. settling[t] - 1 \in Nat
    BY <1>4 DEF Settle
  <2>. QED
    BY <1>4, <2>1 DEF Settle, tables
<1>5. ASSUME NEW t \in Targets, ScanDone(t) PROVE TypeInv'
  <2>1. ended[t] - 1 \in Nat
    BY <1>5 DEF ScanDone
  <2>. QED
    BY <1>5, <2>1 DEF ScanDone, tables
<1>6. ASSUME NEW t \in Targets, ScanRaises(t) PROVE TypeInv'
  <2>1. probing[t] - 1 \in Nat
    BY <1>6 DEF ScanRaises
  <2>. QED
    BY <1>6, <2>1 DEF ScanRaises, tables
<1>7. CASE ScanAdmit
  <2>1. ScanTake \in 0 .. ScanLimit
    BY <1>7, MeterIsCovered DEF ScanAdmit, ScanTake, Least
  <2>. QED
    BY <1>7, <2>1 DEF ScanAdmit, ScanIdle, tables, tasks
<1>8. CASE ScanClaim
  <2>1. PICK claim \in FirstOf(Claimable, scanTick.take, ByName) :
            /\ queue' = Lease(claim)
            /\ scanTick' = [scanTick EXCEPT !.pc = "launching", !.batch = claim]
    BY <1>8 DEF ScanClaim
  <2>2. claim \in SUBSET Targets
    BY DEF FirstOf, Claimable
  <2>3. queue' \in [Targets -> {"absent", "free", "leased"}]
    BY <2>1 DEF Lease
  <2>. QED
    BY <1>8, <2>1, <2>2, <2>3 DEF ScanClaim, tasks
<1>9. CASE ScanLaunch
  <2>1. Startable(scanTick.batch) \in SUBSET Targets
    BY DEF Startable
  <2>. QED
    BY <1>9, <2>1 DEF ScanLaunch, LaunchScans, ScanIdle, tables
<1>10. CASE ScanTickFails
  BY <1>10 DEF ScanTickFails, ScanIdle, tables, tasks
<1>11. CASE RescanCount
  <2>1. Cardinality(scanned) \in Nat
    BY TargetsFinite
  <2>2. rescanTick' = [pc |-> "metering", rows |-> Cardinality(scanned), take |-> 0,
                       fetch |-> 0, due |-> {}, rank |-> {}]
    BY <1>11 DEF RescanCount, RescanIdle
  <2>. QED
    BY <1>11, <2>1, <2>2 DEF RescanCount, tables, tasks
<1>12. CASE RescanMeter
  <2>1. RescanTake \in 0 .. RescanLimit /\ Accrued \in 0 .. MaxCredit
        /\ RescanTake * CreditUnit <= Accrued
    BY MeterIsCovered
  <2>2. Fetch(RescanTake) \in Nat
    BY <2>1, TargetsFinite DEF Fetch
  <2>3. TypeOK'
    BY <1>12, <2>1, <2>2 DEF RescanMeter, RescanIdle, tables, tasks
  <2>4. RescansAreAuthorized'
    BY <1>12, <2>1 DEF RescanMeter, RescanIdle
  <2>. QED
    BY <2>3, <2>4
<1>13. CASE RescanQuery
  <2>1. PICK due \in FirstOf(scanned, rescanTick.fetch, older) :
            rescanTick' = [rescanTick EXCEPT !.pc = "launching", !.due = due,
                                             !.rank = older \cap (due \X due)]
    BY <1>13 DEF RescanQuery
  <2>2. due \in SUBSET Targets
    BY DEF FirstOf
  <2>. QED
    BY <1>13, <2>1, <2>2 DEF RescanQuery, tables, tasks
<1>14. CASE RescanLaunch
  <2>1. PICK start \in FirstOf(Startable(rescanTick.due), rescanTick.take,
                               rescanTick.rank) :
            /\ LaunchScans(start)
            /\ credit' = credit - Cardinality(start) * CreditUnit
    BY <1>14 DEF RescanLaunch
  <2>2. IsFiniteSet(Startable(rescanTick.due)) /\ rescanTick.take \in Nat
    BY TargetsFinite DEF Startable
  <2>3. /\ start \in SUBSET Targets
        /\ Cardinality(start) \in Nat /\ Cardinality(start) <= rescanTick.take
    BY <2>2, FirstOfSelects DEF Startable
  <2>4. /\ Cardinality(start) * CreditUnit \in Nat
        /\ Cardinality(start) * CreditUnit <= rescanTick.take * CreditUnit
    BY <2>2, <2>3, Z3
  <2>5. credit' \in 0 .. MaxCredit
    BY <1>14, <2>1, <2>2, <2>4 DEF RescanLaunch
  <2>. QED
    BY <1>14, <2>1, <2>3, <2>5 DEF RescanLaunch, LaunchScans, RescanIdle, tables
<1>15. CASE RescanTickFails
  BY <1>15 DEF RescanTickFails, RescanIdle, tables, tasks
<1>16. CASE Restart
  BY <1>16 DEF Restart, NoTasks, ScanIdle, RescanIdle, tables
<1>17. CASE UNCHANGED vars
  BY <1>17 DEF vars, tables, tasks
<1>. QED
  BY <1>1, <1>2, <1>3, <1>4, <1>5, <1>6, <1>7, <1>8, <1>9, <1>10, <1>11, <1>12,
     <1>13, <1>14, <1>15, <1>16, <1>17
     DEF Next, TaskStep, ScanStep, RescanStep

(* Every variable keeps its type; in particular the credit stays between     *)
(* zero and one full batch.                                                  *)
THEOREM TypeCorrect == Spec => []TypeOK
<1>1. Spec => []TypeInv
  BY InitTypeInv, StepTypeInv, PTL DEF Spec
<1>2. TypeInv => TypeOK
  BY DEF TypeInv
<1>. QED
  BY <1>1, <1>2, PTL

(* The rescan tick never launches more than the meter has paid for.          *)
THEOREM RescansAuthorized == Spec => []RescansAreAuthorized
<1>1. Spec => []TypeInv
  BY InitTypeInv, StepTypeInv, PTL DEF Spec
<1>2. TypeInv => RescansAreAuthorized
  BY DEF TypeInv
<1>. QED
  BY <1>1, <1>2, PTL

-----------------------------------------------------------------------------
(* Tasks, tables and ticks. A launch is safe because a target outside        *)
(* _inflight has no task at all, whatever its phase (TasksAreTracked and     *)
(* OneTask), and because what a tick holds in its hands over an await is     *)
(* still known when it launches (TicksHoldKnown): rows leave the queue only  *)
(* into scanned, and scanned never shrinks.                                  *)
OneTask == \A t \in Targets : Running(t) + ended[t] <= 1

TicksHoldKnown ==
    /\ \A t \in scanTick.batch : t \in scanned \/ queue[t] # "absent"
    /\ rescanTick.due \subseteq scanned

TaskInv == TasksAreTracked /\ OneTask /\ TablesAgree /\ TicksHoldKnown

LEMMA InitTaskInv == Init => TaskInv
BY DEF Init, TaskInv, TasksAreTracked, OneTask, TablesAgree, TicksHoldKnown,
       Running, NoTasks, ScanIdle, RescanIdle

(* A batch launched from known targets that are not in flight keeps TaskInv. *)
LEMMA LaunchKeepsTasks ==
    ASSUME TypeOK, TaskInv, NEW S \in SUBSET Targets, LaunchScans(S),
           S \cap inflight = {},
           \A t \in S : t \in scanned \/ queue[t] # "absent",
           UNCHANGED tables
    PROVE  TasksAreTracked' /\ OneTask' /\ TablesAgree'
<1>. USE DEF TypeOK, TaskInv, LaunchScans, Running, tables
<1>1. \A t \in Targets : /\ settling'[t] = settling[t] /\ ended'[t] = ended[t]
                         /\ probing'[t] = IF t \in S THEN probing[t] + 1 ELSE probing[t]
                         /\ probing[t] \in Nat /\ settling[t] \in Nat /\ ended[t] \in Nat
  OBVIOUS
<1>2. \A t \in S : probing[t] = 0 /\ settling[t] = 0 /\ ended[t] = 0
  BY <1>1 DEF TasksAreTracked
<1>3. TasksAreTracked'
  BY <1>1, <1>2 DEF TasksAreTracked
<1>4. OneTask'
  BY <1>1, <1>2 DEF OneTask
<1>5. TablesAgree'
  BY <1>1 DEF TablesAgree
<1>. QED
  BY <1>3, <1>4, <1>5

LEMMA StepTaskInv == TypeOK /\ TaskInv /\ [Next]_vars => TaskInv'
<1>. SUFFICES ASSUME TypeOK, TaskInv, [Next]_vars PROVE TaskInv'
  OBVIOUS
<1>0. \A t \in Targets : probing[t] \in Nat /\ settling[t] \in Nat /\ ended[t] \in Nat
  BY DEF TypeOK
<1>. USE DEF TaskInv, TasksAreTracked, OneTask, TablesAgree, TicksHoldKnown, Running
<1>1. ASSUME NEW batch \in SUBSET Targets, Ingest(batch) PROVE TaskInv'
  BY <1>1 DEF Ingest, New, tasks, TypeOK
<1>2. ASSUME NEW t \in Targets, LeaseExpires(t) PROVE TaskInv'
  BY <1>2 DEF LeaseExpires, tasks, TypeOK
<1>3. ASSUME NEW t \in Targets, Record(t) PROVE TaskInv'
  <2>1. /\ probing' = [probing EXCEPT ![t] = @ - 1]
        /\ settling' = [settling EXCEPT ![t] = @ + 1]
        /\ scanned' = scanned \cup {t} /\ queue' = [queue EXCEPT ![t] = "absent"]
        /\ probing[t] > 0 /\ ended' = ended /\ inflight' = inflight
        /\ scanTick' = scanTick /\ rescanTick' = rescanTick
    BY <1>3 DEF Record, Drained
  <2>2. TasksAreTracked' /\ OneTask'
    BY <1>0, <2>1 DEF TypeOK
  <2>3. TablesAgree'
    BY <1>0, <2>1 DEF TypeOK
  <2>4. TicksHoldKnown'
    BY <2>1 DEF TypeOK
  <2>. QED
    BY <2>2, <2>3, <2>4
<1>4. ASSUME NEW t \in Targets, Settle(t) PROVE TaskInv'
  BY <1>0, <1>4 DEF Settle, tables, TypeOK
<1>5. ASSUME NEW t \in Targets, ScanDone(t) PROVE TaskInv'
  BY <1>0, <1>5 DEF ScanDone, tables, TypeOK
<1>6. ASSUME NEW t \in Targets, ScanRaises(t) PROVE TaskInv'
  BY <1>0, <1>6 DEF ScanRaises, tables, TypeOK
<1>7. CASE ScanAdmit
  <2>1. scanTick'.batch = {}
    BY <1>7 DEF ScanAdmit, ScanIdle
  <2>. QED
    BY <1>7, <2>1 DEF ScanAdmit, tables, tasks
<1>8. CASE ScanClaim
  <2>1. PICK claim \in FirstOf(Claimable, scanTick.take, ByName) :
            /\ queue' = Lease(claim)
            /\ scanTick' = [scanTick EXCEPT !.pc = "launching", !.batch = claim]
    BY <1>8 DEF ScanClaim
  <2>2. \A t \in claim : t \in Targets /\ queue[t] = "free"
    BY DEF FirstOf, Claimable
  <2>3. \A t \in Targets : queue'[t] = IF t \in claim THEN "leased" ELSE queue[t]
    BY <2>1 DEF Lease
  <2>4. scanTick'.batch = claim
    BY <2>1 DEF TypeOK
  <2>. QED
    BY <1>8, <2>2, <2>3, <2>4 DEF ScanClaim, tasks
<1>9. CASE ScanLaunch
  <2>1. /\ Startable(scanTick.batch) \in SUBSET Targets
        /\ Startable(scanTick.batch) \cap inflight = {}
        /\ Startable(scanTick.batch) \subseteq scanTick.batch
    BY DEF Startable, TypeOK
  <2>2. TasksAreTracked' /\ OneTask' /\ TablesAgree'
    BY <1>9, <2>1, LaunchKeepsTasks DEF ScanLaunch
  <2>. QED
    BY <1>9, <2>2 DEF ScanLaunch, ScanIdle, tables
<1>10. CASE ScanTickFails
  BY <1>10 DEF ScanTickFails, ScanIdle, tables, tasks
<1>11. CASE RescanCount
  <2>1. rescanTick'.due = {}
    BY <1>11 DEF RescanCount, RescanIdle
  <2>. QED
    BY <1>11, <2>1 DEF RescanCount, tables, tasks
<1>12. CASE RescanMeter
  <2>1. rescanTick'.due = {}
    BY <1>12 DEF RescanMeter, RescanIdle
  <2>. QED
    BY <1>12, <2>1 DEF RescanMeter, tables, tasks
<1>13. CASE RescanQuery
  <2>1. PICK due \in FirstOf(scanned, rescanTick.fetch, older) :
            rescanTick' = [rescanTick EXCEPT !.pc = "launching", !.due = due,
                                             !.rank = older \cap (due \X due)]
    BY <1>13 DEF RescanQuery
  <2>2. rescanTick'.due = due
    BY <2>1 DEF TypeOK
  <2>3. due \subseteq scanned
    BY DEF FirstOf
  <2>. QED
    BY <1>13, <2>2, <2>3 DEF RescanQuery, tables, tasks
<1>14. CASE RescanLaunch
  <2>1. PICK start \in FirstOf(Startable(rescanTick.due), rescanTick.take,
                               rescanTick.rank) : LaunchScans(start)
    BY <1>14 DEF RescanLaunch
  <2>2. /\ start \in SUBSET Targets /\ start \cap inflight = {}
        /\ \A t \in start : t \in scanned
    BY DEF FirstOf, Startable, TypeOK
  <2>3. TasksAreTracked' /\ OneTask' /\ TablesAgree'
    BY <1>14, <2>1, <2>2, LaunchKeepsTasks DEF RescanLaunch
  <2>. QED
    BY <1>14, <2>3 DEF RescanLaunch, RescanIdle, tables
<1>15. CASE RescanTickFails
  BY <1>15 DEF RescanTickFails, RescanIdle, tables, tasks
<1>16. CASE Restart
  BY <1>16 DEF Restart, NoTasks, ScanIdle, RescanIdle, tables
<1>17. CASE UNCHANGED vars
  BY <1>17 DEF vars, tables, tasks
<1>. QED
  BY <1>1, <1>2, <1>3, <1>4, <1>5, <1>6, <1>7, <1>8, <1>9, <1>10, <1>11, <1>12,
     <1>13, <1>14, <1>15, <1>16, <1>17
     DEF Next, TaskStep, ScanStep, RescanStep

LEMMA TasksInvariant == Spec => []TaskInv
<1>1. TypeOK /\ TaskInv /\ [Next]_vars => TaskInv'
  BY StepTaskInv
<1>. QED
  BY <1>1, InitTaskInv, TypeCorrect, PTL DEF Spec

(* No target is ever scanned by two tasks at once (_launch_scan's guard).    *)
THEOREM NoDuplicates == Spec => []NoDuplicateScan
<1>1. TypeOK /\ TaskInv => NoDuplicateScan
  BY DEF TypeOK, TaskInv, OneTask, NoDuplicateScan, Running
<1>. QED
  BY <1>1, TypeCorrect, TasksInvariant, PTL

(* _inflight holds exactly the targets with a task: none is lost to stop(),  *)
(* and no slot leaks.                                                        *)
THEOREM TasksTracked == Spec => []TasksAreTracked
<1>1. TaskInv => TasksAreTracked
  BY DEF TaskInv
<1>. QED
  BY <1>1, TasksInvariant, PTL

(* The queue, the registry of scanned targets and the tasks agree: no scanned *)
(* target is queued, none is probed that a crash would forget.               *)
THEOREM TablesConsistent == Spec => []TablesAgree
<1>1. TaskInv => TablesAgree
  BY DEF TaskInv
<1>. QED
  BY <1>1, TasksInvariant, PTL

-----------------------------------------------------------------------------
(* How far the ceiling can be overshot. Each gate leaves room for its own    *)
(* take when it is passed; when both ticks have passed theirs, the room is   *)
(* counted twice, and one of the two takes may come on top.                  *)
SlotInv ==
    /\ Cardinality(inflight) + scanTick.take + rescanTick.take
          <= MaxInflight + Greatest(ScanLimit, RescanLimit)
    /\ Cardinality(scanTick.batch) <= scanTick.take

LEMMA InitSlotInv == Init => SlotInv
BY FS_EmptySet, LimitsAreNat DEF Init, SlotInv, ScanIdle, RescanIdle, Greatest

LEMMA StepSlotInv == TypeOK /\ SlotInv /\ [Next]_vars => SlotInv'
<1>. SUFFICES ASSUME TypeOK, SlotInv, [Next]_vars PROVE SlotInv'
  OBVIOUS
<1>. DEFINE Over == MaxInflight + Greatest(ScanLimit, RescanLimit)
<1>0. /\ Cardinality(inflight) \in Nat /\ Cardinality(scanTick.batch) \in Nat
      /\ scanTick.take \in 0 .. ScanLimit /\ rescanTick.take \in 0 .. RescanLimit
      /\ ScanLimit <= Greatest(ScanLimit, RescanLimit)
      /\ RescanLimit <= Greatest(ScanLimit, RescanLimit)
      /\ Greatest(ScanLimit, RescanLimit) \in Nat
  BY TargetsFinite, LimitsAreNat DEF TypeOK, Greatest
<1>. USE LimitsAreNat DEF SlotInv
<1>1. ASSUME UNCHANGED <<inflight, scanTick, rescanTick>> PROVE SlotInv'
  BY <1>1
<1>2. ASSUME NEW t \in Targets, ScanDone(t) PROVE SlotInv'
  <2>1. Cardinality(inflight') <= Cardinality(inflight) /\ Cardinality(inflight') \in Nat
    BY <1>2, TargetsFinite, FS_Subset DEF ScanDone, TypeOK
  <2>2. scanTick' = scanTick /\ rescanTick' = rescanTick
    BY <1>2 DEF ScanDone
  <2>. QED
    BY <1>0, <2>1, <2>2
<1>3. CASE ScanAdmit
  <2>1. scanTick'.take = ScanTake /\ scanTick'.batch = {}
    BY <1>3 DEF ScanAdmit, ScanIdle
  <2>2. ScanTake \in Nat /\ Cardinality(inflight) + ScanTake <= MaxInflight
    BY <1>0, <1>3 DEF ScanAdmit, ScanTake, Slots, Least
  <2>. QED
    BY <1>0, <1>3, <2>1, <2>2, FS_EmptySet DEF ScanAdmit
<1>4. CASE ScanClaim
  <2>1. PICK claim \in FirstOf(Claimable, scanTick.take, ByName) :
            scanTick' = [scanTick EXCEPT !.pc = "launching", !.batch = claim]
    BY <1>4 DEF ScanClaim
  <2>2. Cardinality(claim) <= scanTick.take
    <3>1. IsFiniteSet(Claimable) /\ scanTick.take \in Nat
      BY <1>0, TargetsFinite DEF Claimable
    <3>. QED
      BY <3>1, FirstOfSelects
  <2>3. scanTick'.batch = claim /\ scanTick'.take = scanTick.take
    BY <2>1 DEF TypeOK
  <2>4. inflight' = inflight /\ rescanTick' = rescanTick
    BY <1>4 DEF ScanClaim
  <2>. QED
    BY <2>2, <2>3, <2>4
<1>5. CASE ScanLaunch
  <2>1. /\ IsFiniteSet(Startable(scanTick.batch))
        /\ Cardinality(Startable(scanTick.batch)) <= Cardinality(scanTick.batch)
    BY TargetsFinite, FS_Subset DEF Startable, TypeOK
  <2>2. inflight' = inflight \cup Startable(scanTick.batch)
    BY <1>5 DEF ScanLaunch, LaunchScans
  <2>3. /\ Cardinality(inflight') \in Nat
        /\ Cardinality(inflight') <= Cardinality(inflight) + scanTick.take
    BY <1>0, <2>1, <2>2, TargetsFinite, LaunchAdds DEF TypeOK
  <2>4. scanTick'.take = 0 /\ scanTick'.batch = {} /\ rescanTick' = rescanTick
    BY <1>5 DEF ScanLaunch, ScanIdle
  <2>. QED
    BY <1>0, <2>3, <2>4, FS_EmptySet
<1>6. CASE ScanTickFails
  <2>1. scanTick'.take = 0 /\ scanTick'.batch = {}
    BY <1>6 DEF ScanTickFails, ScanIdle
  <2>2. inflight' = inflight /\ rescanTick' = rescanTick
    BY <1>6 DEF ScanTickFails
  <2>. QED
    BY <1>0, <2>1, <2>2, FS_EmptySet
<1>7. CASE RescanCount \/ RescanTickFails
  <2>1. rescanTick'.take = 0
    <3>1. CASE RescanCount
      BY <3>1 DEF RescanCount, RescanIdle
    <3>2. CASE RescanTickFails
      BY <3>2 DEF RescanTickFails, RescanIdle
    <3>. QED
      BY <1>7, <3>1, <3>2
  <2>2. inflight' = inflight /\ scanTick' = scanTick
    BY <1>7 DEF RescanCount, RescanTickFails
  <2>. QED
    BY <1>0, <2>1, <2>2
<1>8. CASE RescanMeter
  <2>1. RescanTake \in 0 .. RescanLimit /\ RescanTake <= Greatest(Slots, 0)
        /\ Slots \in Int
    BY MeterIsCovered
  <2>2. rescanTick'.take \in {0, RescanTake}
    BY <1>8 DEF RescanMeter, RescanIdle
  <2>3. Cardinality(inflight) + RescanTake <= MaxInflight \/ RescanTake = 0
    BY <1>0, <2>1 DEF Slots, Greatest
  <2>4. inflight' = inflight /\ scanTick' = scanTick
    BY <1>8 DEF RescanMeter
  <2>. QED
    BY <1>0, <2>1, <2>2, <2>3, <2>4
<1>9. CASE RescanQuery
  <2>1. rescanTick'.take = rescanTick.take
    BY <1>9 DEF RescanQuery, TypeOK
  <2>2. inflight' = inflight /\ scanTick' = scanTick
    BY <1>9 DEF RescanQuery
  <2>. QED
    BY <2>1, <2>2
<1>10. CASE RescanLaunch
  <2>1. PICK start \in FirstOf(Startable(rescanTick.due), rescanTick.take,
                               rescanTick.rank) : LaunchScans(start)
    BY <1>10 DEF RescanLaunch
  <2>2. IsFiniteSet(start) /\ Cardinality(start) <= rescanTick.take
    <3>1. IsFiniteSet(Startable(rescanTick.due)) /\ rescanTick.take \in Nat
      BY <1>0, TargetsFinite DEF Startable, TypeOK
    <3>. QED
      BY <3>1, FirstOfSelects
  <2>3. /\ Cardinality(inflight') \in Nat
        /\ Cardinality(inflight') <= Cardinality(inflight) + rescanTick.take
    BY <1>0, <2>1, <2>2, TargetsFinite, LaunchAdds DEF TypeOK, LaunchScans
  <2>4. rescanTick'.take = 0 /\ scanTick' = scanTick
    BY <1>10 DEF RescanLaunch, RescanIdle
  <2>. QED
    BY <1>0, <2>3, <2>4
<1>11. CASE Restart
  BY <1>0, <1>11, FS_EmptySet DEF Restart, ScanIdle, RescanIdle
<1>. QED
  <2>1. ASSUME NEW batch \in SUBSET Targets, Ingest(batch) PROVE SlotInv'
    BY <1>1, <2>1 DEF Ingest
  <2>2. ASSUME NEW t \in Targets, LeaseExpires(t) \/ Record(t) \/ Settle(t) \/ ScanRaises(t)
        PROVE SlotInv'
    BY <1>1, <2>2 DEF LeaseExpires, Record, Settle, ScanRaises
  <2>3. CASE UNCHANGED vars
    BY <1>1, <2>3 DEF vars
  <2>. QED
    BY <1>2, <1>3, <1>4, <1>5, <1>6, <1>7, <1>8, <1>9, <1>10, <1>11, <2>1, <2>2, <2>3
       DEF Next, TaskStep, ScanStep, RescanStep

(* The number of scans in flight never exceeds the admission ceiling by more *)
(* than one batch of one tick.                                               *)
THEOREM InflightBounded == Spec => []InflightBound
<1>1. TypeOK /\ SlotInv => InflightBound
  <2>. SUFFICES ASSUME TypeOK, SlotInv PROVE InflightBound
    OBVIOUS
  <2>1. Cardinality(inflight) \in Nat /\ scanTick.take \in Nat /\ rescanTick.take \in Nat
    BY TargetsFinite, LimitsAreNat DEF TypeOK
  <2>2. Greatest(ScanLimit, RescanLimit) \in Nat
    BY LimitsAreNat DEF Greatest
  <2>. QED
    BY <2>1, <2>2, LimitsAreNat DEF SlotInv, InflightBound
<1>2. TypeOK /\ SlotInv /\ [Next]_vars => SlotInv'
  BY StepSlotInv
<1>. QED
  BY <1>1, <1>2, InitSlotInv, TypeCorrect, PTL DEF Spec

-----------------------------------------------------------------------------
(* Refinement. Ingest, launches, terminal writes, ends of scans and restarts *)
(* are the steps of the registry; claims, leases, meters, queries and        *)
(* callbacks are its stuttering.                                             *)
LEMMA InitRefines == Init => Registry!Init
BY DEF Init, Registry!Init, Running, NoTasks

(* A step that leaves the tables' view and the running counts alone stutters. *)
LEMMA Stutters ==
    ASSUME TypeOK,
           scanned' = scanned,
           \A t \in Targets : (queue'[t] = "absent") <=> (queue[t] = "absent"),
           \A t \in Targets : Running(t)' = Running(t)
    PROVE  UNCHANGED Registry!vars
BY DEF Registry!vars

(* A launch of known targets outside _inflight is a Launch of the registry.  *)
LEMMA LaunchRefines ==
    ASSUME TypeOK, TaskInv, NEW S \in SUBSET Targets, LaunchScans(S),
           S \cap inflight = {},
           \A t \in S : t \in scanned \/ queue[t] # "absent",
           UNCHANGED tables
    PROVE  Registry!Launch(S)
<1>1. \A t \in S : Running(t) = 0
  BY DEF TaskInv, TasksAreTracked, TypeOK, Running
<1>2. \A t \in Targets : Running(t)' = IF t \in S THEN 1 ELSE Running(t)
  BY <1>1 DEF LaunchScans, Running, TypeOK
<1>3. scanned' = scanned /\ queue' = queue
  BY DEF tables
<1>. QED
  BY <1>1, <1>2, <1>3 DEF Registry!Launch

LEMMA StepRefines ==
    TypeOK /\ TaskInv /\ [Next]_vars => [Registry!Next]_(Registry!vars)
<1>. SUFFICES ASSUME TypeOK, TaskInv, [Next]_vars
              PROVE  [Registry!Next]_(Registry!vars)
  OBVIOUS
<1>0. \A t \in Targets : probing[t] \in Nat /\ settling[t] \in Nat /\ ended[t] \in Nat
                         /\ Running(t) + ended[t] <= 1
  BY DEF TypeOK, TaskInv, OneTask
<1>1. ASSUME NEW batch \in SUBSET Targets, Ingest(batch) PROVE Registry!Next
  <2>0. PICK S \in SUBSET Targets : S = New(batch)
    BY DEF New
  <2>1. \A t \in S : t \notin scanned /\ queue[t] = "absent"
    BY <2>0 DEF New
  <2>2. scanned' = scanned /\ \A t \in Targets : Running(t)' = Running(t)
    BY <1>1 DEF Ingest, tasks, Running
  <2>3. \A t \in Targets : queue'[t] = IF t \in S THEN "free" ELSE queue[t]
    BY <1>1, <2>0 DEF Ingest
  <2>4. Registry!Discover(S)
    BY <2>1, <2>2, <2>3 DEF Registry!Discover
  <2>. QED
    BY <2>4 DEF Registry!Next
<1>2. ASSUME NEW t \in Targets, LeaseExpires(t) PROVE UNCHANGED Registry!vars
  <2>1. \A u \in Targets : (queue'[u] = "absent") <=> (queue[u] = "absent")
    BY <1>2 DEF LeaseExpires, TypeOK
  <2>2. scanned' = scanned /\ \A u \in Targets : Running(u)' = Running(u)
    BY <1>2 DEF LeaseExpires, tasks, Running
  <2>. QED
    BY <2>1, <2>2, Stutters
<1>3. ASSUME NEW t \in Targets, Record(t) PROVE Registry!Next
  <2>1. Running(t) = 1
    BY <1>0, <1>3 DEF Record, Running
  <2>2. \A u \in Targets : Running(u)' = Running(u)
    BY <1>0, <1>3 DEF Record, Running, TypeOK
  <2>3. /\ scanned' = scanned \cup {t}
        /\ \A u \in Targets : queue'[u] = IF u = t THEN "absent" ELSE queue[u]
    BY <1>3 DEF Record, Drained, TypeOK
  <2>4. Registry!Record(t)
    BY <2>1, <2>2, <2>3 DEF Registry!Record
  <2>. QED
    BY <2>4 DEF Registry!Next
<1>4. ASSUME NEW t \in Targets, Settle(t) \/ ScanRaises(t) PROVE Registry!Next
  <2>1. Running(t) = 1 /\ Running(t)' = 0
    <3>1. CASE Settle(t)
      <4>0. settling[t] > 0 /\ probing[t] + settling[t] + ended[t] <= 1
        BY <1>0, <3>1 DEF Settle, Running
      <4>1. probing[t] = 0 /\ settling[t] = 1
        BY <1>0, <4>0
      <4>2. probing'[t] = 0 /\ settling'[t] = 0
        BY <3>1, <4>1 DEF Settle, TypeOK
      <4>. QED
        BY <4>1, <4>2 DEF Running
    <3>2. CASE ScanRaises(t)
      BY <1>0, <3>2 DEF ScanRaises, Running, TypeOK
    <3>. QED
      BY <1>4, <3>1, <3>2
  <2>2. \A u \in Targets \ {t} : Running(u)' = Running(u)
    BY <1>0, <1>4 DEF Settle, ScanRaises, Running, TypeOK
  <2>3. scanned' = scanned /\ queue' = queue
    BY <1>4 DEF Settle, ScanRaises, tables
  <2>4. Registry!Finish(t)
    BY <2>1, <2>2, <2>3 DEF Registry!Finish
  <2>. QED
    BY <2>4 DEF Registry!Next
<1>5. ASSUME NEW t \in Targets, ScanDone(t) PROVE UNCHANGED Registry!vars
  BY <1>5, Stutters DEF ScanDone, Running, tables
<1>6. CASE ScanClaim
  <2>1. PICK claim \in FirstOf(Claimable, scanTick.take, ByName) : queue' = Lease(claim)
    BY <1>6 DEF ScanClaim
  <2>2. \A t \in claim : queue[t] = "free"
    BY DEF FirstOf, Claimable
  <2>3. \A t \in Targets : (queue'[t] = "absent") <=> (queue[t] = "absent")
    BY <2>1, <2>2 DEF Lease
  <2>4. scanned' = scanned /\ \A t \in Targets : Running(t)' = Running(t)
    BY <1>6 DEF ScanClaim, tasks, Running
  <2>. QED
    BY <2>3, <2>4, Stutters
<1>7. CASE ScanLaunch
  <2>1. /\ Startable(scanTick.batch) \in SUBSET Targets
        /\ Startable(scanTick.batch) \cap inflight = {}
        /\ \A t \in Startable(scanTick.batch) : t \in scanned \/ queue[t] # "absent"
    BY DEF Startable, TypeOK, TaskInv, TicksHoldKnown
  <2>2. Registry!Launch(Startable(scanTick.batch))
    BY <1>7, <2>1, LaunchRefines DEF ScanLaunch
  <2>. QED
    BY <2>1, <2>2 DEF Registry!Next
<1>8. CASE RescanLaunch
  <2>1. PICK start \in FirstOf(Startable(rescanTick.due), rescanTick.take,
                               rescanTick.rank) : LaunchScans(start)
    BY <1>8 DEF RescanLaunch
  <2>2. /\ start \in SUBSET Targets /\ start \cap inflight = {}
        /\ \A t \in start : t \in scanned
    BY DEF FirstOf, Startable, TypeOK, TaskInv, TicksHoldKnown
  <2>3. Registry!Launch(start)
    BY <1>8, <2>1, <2>2, LaunchRefines DEF RescanLaunch
  <2>. QED
    BY <2>2, <2>3 DEF Registry!Next
<1>9. CASE Restart
  <2>1. \A t \in Targets : Running(t)' = 0
    BY <1>9 DEF Restart, NoTasks, Running
  <2>2. scanned' = scanned /\ queue' = queue
    BY <1>9 DEF Restart, tables
  <2>3. Registry!Abandon
    BY <2>1, <2>2 DEF Registry!Abandon
  <2>. QED
    BY <2>3 DEF Registry!Next
<1>10. ASSUME UNCHANGED <<tables, tasks>> PROVE UNCHANGED Registry!vars
  BY <1>10, Stutters DEF tables, tasks, Running
<1>11. CASE ScanAdmit \/ ScanTickFails \/ RescanCount \/ RescanMeter \/ RescanQuery
            \/ RescanTickFails
  BY <1>10, <1>11 DEF ScanAdmit, ScanTickFails, RescanCount, RescanMeter, RescanQuery,
                      RescanTickFails
<1>12. CASE UNCHANGED vars
  BY <1>10, <1>12 DEF vars
<1>. QED
  BY <1>1, <1>2, <1>3, <1>4, <1>5, <1>6, <1>7, <1>8, <1>9, <1>11, <1>12
     DEF Next, TaskStep, ScanStep, RescanStep

(* The pipeline implements the registry: under every interleaving of ticks,  *)
(* scans, leases and restarts no name is forgotten, only known names are     *)
(* scanned, and no name is scanned twice at once.                            *)
THEOREM ImplementsRegistry == Spec => RegistrySpec
<1>1. TypeOK /\ TaskInv /\ [Next]_vars => [Registry!Next]_(Registry!vars)
  BY StepRefines
<1>. QED
  BY <1>1, InitRefines, TypeCorrect, TasksInvariant, PTL
     DEF Spec, RegistrySpec, Registry!Spec

-----------------------------------------------------------------------------
(* No due row is masked. The rows of a query that are in flight but were not *)
(* started since the gate are no more than the query was over-fetched by;    *)
(* and a query that did not fill up had every row there was.                 *)
MaskInv ==
    /\ rescanTick.pc \in {"querying", "launching"} =>
          rescanTick.take + Cardinality(inflight \ moved) <= rescanTick.fetch
    /\ rescanTick.pc = "launching" =>
          \/ Cardinality(rescanTick.due) = rescanTick.fetch
          \/ scanned \ rescanTick.due \subseteq moved

(* What joins the flight, or the scanned rows, after the gate has moved.     *)
LEMMA Joined ==
    ASSUME TypeOK, MCNext, rescanTick.pc \in {"querying", "launching"}, ~Restart
    PROVE  /\ moved \subseteq moved'
           /\ inflight' \ moved' \subseteq inflight \ moved
           /\ scanned' \ scanned \subseteq moved'
<1>1. /\ Next
      /\ moved' = moved \cup {t \in Targets : \/ probing'[t] > probing[t]
                                              \/ settling'[t] > settling[t]}
  BY DEF MCNext
<1>2. /\ probing \in [Targets -> Nat] /\ settling \in [Targets -> Nat]
      /\ inflight \in SUBSET Targets /\ rescanTick.due \in SUBSET Targets
      /\ scanTick.batch \in SUBSET Targets
  BY DEF TypeOK
<1>3. ASSUME inflight' \subseteq inflight, scanned' = scanned
      PROVE  /\ inflight' \ moved' \subseteq inflight \ moved
             /\ scanned' \ scanned \subseteq moved'
  BY <1>1, <1>3
<1>4. ASSUME NEW S \in SUBSET Targets, LaunchScans(S), scanned' = scanned
      PROVE  /\ inflight' \ moved' \subseteq inflight \ moved
             /\ scanned' \ scanned \subseteq moved'
  <2>1. \A t \in S : probing'[t] > probing[t]
    BY <1>2, <1>4 DEF LaunchScans
  <2>2. S \subseteq moved' /\ inflight' = inflight \cup S
    BY <1>1, <1>4, <2>1 DEF LaunchScans
  <2>. QED
    BY <1>1, <1>4, <2>2
<1>5. CASE ScanLaunch
  <2>1. LaunchScans(Startable(scanTick.batch)) /\ scanned' = scanned
    BY <1>5 DEF ScanLaunch, tables
  <2>. QED
    BY <1>1, <1>2, <1>4, <2>1 DEF Startable
<1>6. CASE RescanLaunch
  <2>1. /\ scanned' = scanned
        /\ \E S \in SUBSET Targets : LaunchScans(S)
    BY <1>2, <1>6 DEF RescanLaunch, FirstOf, Startable, tables
  <2>. QED
    BY <1>1, <1>4, <2>1
<1>7. ASSUME NEW t \in Targets, Record(t)
      PROVE  /\ inflight' \ moved' \subseteq inflight \ moved
             /\ scanned' \ scanned \subseteq moved'
  <2>1. settling'[t] > settling[t] /\ scanned' = scanned \cup {t} /\ inflight' = inflight
    BY <1>2, <1>7 DEF Record
  <2>. QED
    BY <1>1, <2>1
<1>8. ASSUME NEW t \in Targets, \/ LeaseExpires(t) \/ Settle(t) \/ ScanDone(t)
                                \/ ScanRaises(t)
      PROVE  inflight' \subseteq inflight /\ scanned' = scanned
  BY <1>8 DEF LeaseExpires, Settle, ScanDone, ScanRaises, tables
<1>9. CASE \E batch \in SUBSET Targets : Ingest(batch)
  BY <1>1, <1>3, <1>9 DEF Ingest
<1>10. CASE ScanAdmit \/ ScanClaim \/ ScanTickFails \/ RescanCount \/ RescanMeter
            \/ RescanQuery \/ RescanTickFails
  <2>1. inflight' = inflight /\ scanned' = scanned
    BY <1>10 DEF ScanAdmit, ScanClaim, ScanTickFails, RescanCount, RescanMeter,
                 RescanQuery, RescanTickFails, tables
  <2>. QED
    BY <1>1, <1>3, <2>1
<1>. QED
  BY <1>1, <1>3, <1>5, <1>6, <1>7, <1>8, <1>9, <1>10
     DEF Next, TaskStep, ScanStep, RescanStep

LEMMA RescanTickSteps ==
    ASSUME Next
    PROVE  \/ rescanTick' = rescanTick \/ rescanTick'.pc \in {"idle", "metering"}
           \/ RescanMeter \/ RescanQuery
<1>1. CASE \E batch \in SUBSET Targets : Ingest(batch)
  BY <1>1 DEF Ingest
<1>2. ASSUME NEW t \in Targets, LeaseExpires(t) \/ TaskStep(t) \/ ScanRaises(t)
      PROVE  rescanTick' = rescanTick
  BY <1>2 DEF LeaseExpires, TaskStep, Record, Settle, ScanDone, ScanRaises
<1>3. CASE ScanStep \/ ScanTickFails
  BY <1>3 DEF ScanStep, ScanAdmit, ScanClaim, ScanLaunch, ScanTickFails
<1>4. CASE RescanLaunch \/ RescanTickFails \/ Restart
  BY <1>4 DEF RescanLaunch, RescanTickFails, Restart, RescanIdle
<1>5. CASE RescanCount
  <2>. DEFINE n == Cardinality(scanned)
  <2>1. rescanTick' = [RescanIdle EXCEPT !.pc = "metering", !.rows = n]
    BY <1>5 DEF RescanCount
  <2>. HIDE DEF n
  <2>2. rescanTick'.pc = "metering"
    BY <2>1 DEF RescanIdle
  <2>. QED
    BY <2>2
<1>. QED
  BY <1>1, <1>2, <1>3, <1>4, <1>5 DEF Next, RescanStep

LEMMA StepMaskInv == TypeOK /\ MaskInv /\ [MCNext]_<<vars, moved>> => MaskInv'
<1>. SUFFICES ASSUME TypeOK, MaskInv, [MCNext]_<<vars, moved>> PROVE MaskInv'
  OBVIOUS
<1>0. CASE UNCHANGED <<vars, moved>>
  BY <1>0 DEF vars, tables, MaskInv
<1>. SUFFICES ASSUME MCNext PROVE MaskInv'
  BY <1>0
<1>t. /\ inflight \in SUBSET Targets /\ scanned \in SUBSET Targets
      /\ rescanTick.take \in Nat /\ rescanTick.fetch \in Nat
  BY LimitsAreNat DEF TypeOK
<1>1. CASE rescanTick' = rescanTick
  <2>. SUFFICES ASSUME rescanTick.pc \in {"querying", "launching"} PROVE MaskInv'
    BY <1>1 DEF MaskInv
  <2>1. CASE Restart
    BY <1>1, <2>1 DEF Restart, RescanIdle
  <2>2. CASE ~Restart
    <3>1. /\ moved \subseteq moved' /\ inflight' \ moved' \subseteq inflight \ moved
          /\ scanned' \ scanned \subseteq moved'
      BY <2>2, Joined
    <3>2. /\ Cardinality(inflight' \ moved') <= Cardinality(inflight \ moved)
          /\ Cardinality(inflight' \ moved') \in Nat /\ Cardinality(inflight \ moved) \in Nat
      <4>1. inflight \ moved \in SUBSET Targets /\ inflight' \ moved' \in SUBSET Targets
        BY <1>t, <3>1
      <4>. QED
        BY <3>1, <4>1, TargetsFinite, FS_Subset
    <3>3. rescanTick.take + Cardinality(inflight' \ moved') <= rescanTick.fetch
      BY <1>t, <3>2 DEF MaskInv
    <3>. QED
      BY <1>1, <3>1, <3>3 DEF MaskInv
  <2>. QED
    BY <2>1, <2>2
<1>2. CASE rescanTick'.pc \in {"idle", "metering"}
  BY <1>2 DEF MaskInv
<1>3. CASE RescanMeter /\ rescanTick'.pc \notin {"idle", "metering"}
  <2>1. /\ rescanTick.pc = "metering" /\ rescanTick'.pc = "querying" /\ inflight' = inflight
        /\ rescanTick'.take = RescanTake /\ rescanTick'.fetch = Fetch(RescanTake)
    BY <1>3 DEF RescanMeter, RescanIdle
  <2>2. moved' = {} /\ inflight' \ moved' = inflight
    BY <2>1 DEF MCNext
  <2>4. RescanTake \in Nat
    BY MeterIsCovered, LimitsAreNat
  <2>5. Cardinality(inflight) \in Nat
    BY <1>t, TargetsFinite
  <2>. QED
    BY <2>1, <2>2, <2>4, <2>5 DEF MaskInv, Fetch
<1>4. CASE RescanQuery
  <2>0. rescanTick'.pc = "launching"
    BY <1>4 DEF RescanQuery, TypeOK
  <2>1. rescanTick.pc = "querying" /\ UNCHANGED <<inflight, scanned>> /\ ~Restart
    <3>1. ~Restart
      BY <2>0 DEF Restart, RescanIdle
    <3>2. rescanTick.pc = "querying" /\ UNCHANGED <<inflight, scanned>>
      BY <1>4 DEF RescanQuery, tables
    <3>. QED
      BY <3>1, <3>2
  <2>2. /\ moved \subseteq moved' /\ inflight' \ moved' \subseteq inflight \ moved
        /\ scanned' \ scanned \subseteq moved'
    BY <2>1, Joined
  <2>3. PICK due \in FirstOf(scanned, rescanTick.fetch, older) :
            rescanTick' = [rescanTick EXCEPT !.pc = "launching", !.due = due,
                                             !.rank = older \cap (due \X due)]
    BY <1>4 DEF RescanQuery
  <2>4. due \subseteq scanned /\ Cardinality(due) = Least(rescanTick.fetch, Cardinality(scanned))
    BY <2>3 DEF FirstOf
  <2>5. /\ rescanTick'.pc = "launching" /\ rescanTick'.due = due
        /\ rescanTick'.take = rescanTick.take /\ rescanTick'.fetch = rescanTick.fetch
    BY <2>3 DEF TypeOK
  <2>6. Cardinality(scanned) \in Nat /\ IsFiniteSet(scanned)
    BY <1>t, TargetsFinite
  <2>7. Cardinality(due) = rescanTick.fetch \/ due = scanned
    <3>1. Cardinality(due) = rescanTick.fetch \/ Cardinality(due) = Cardinality(scanned)
      BY <2>4 DEF Least
    <3>. QED
      BY <2>4, <2>6, <3>1, FS_Subset
  <2>8. Cardinality(inflight' \ moved') <= Cardinality(inflight \ moved)
        /\ Cardinality(inflight' \ moved') \in Nat /\ Cardinality(inflight \ moved) \in Nat
    <3>1. inflight \ moved \in SUBSET Targets /\ inflight' \ moved' \in SUBSET Targets
      BY <1>t, <2>2
    <3>. QED
      BY <2>2, <3>1, TargetsFinite, FS_Subset
  <2>9. rescanTick.take + Cardinality(inflight' \ moved') <= rescanTick.fetch
    BY <1>t, <2>1, <2>8 DEF MaskInv
  <2>. QED
    BY <2>1, <2>5, <2>7, <2>9 DEF MaskInv
<1>. QED
  BY <1>1, <1>2, <1>3, <1>4, RescanTickSteps DEF MCNext

(* A rescan tick that launches fewer scans than it was given did try every   *)
(* row it fetched, and had room for all that others kept in flight: rows it  *)
(* did not fetch are in flight or have just been recorded.                   *)
LEMMA LaunchMasksNone ==
    ASSUME TypeOK, MaskInv, RescanLaunch,
           Cardinality(inflight' \ inflight) < rescanTick.take,
           rescanTick.due \cap moved = {}
    PROVE  \A t \in scanned \ rescanTick.due : t \in inflight \cup moved
<1>. DEFINE due  == rescanTick.due
            free == due \ inflight
            kept == inflight \ moved
<1>t. /\ inflight \in SUBSET Targets /\ due \in SUBSET Targets
      /\ rescanTick.take \in Nat /\ rescanTick.fetch \in Nat
      /\ rescanTick.pc = "launching"
  BY LimitsAreNat DEF TypeOK, RescanLaunch
<1>1. PICK start \in FirstOf(Startable(due), rescanTick.take, rescanTick.rank) :
          LaunchScans(start)
  BY DEF RescanLaunch
<1>2. start \subseteq free /\ Cardinality(start) = Least(rescanTick.take, Cardinality(free))
  BY <1>1 DEF FirstOf, Startable
<1>3. inflight' \ inflight = start
  BY <1>1, <1>2 DEF LaunchScans
<1>4. free \in SUBSET Targets /\ kept \in SUBSET Targets
  BY <1>t
<1>5. /\ IsFiniteSet(free) /\ Cardinality(free) \in Nat
      /\ IsFiniteSet(kept) /\ Cardinality(kept) \in Nat
  BY <1>4, TargetsFinite
<1>6. Cardinality(free) < rescanTick.take
  <2>1. Least(rescanTick.take, Cardinality(free)) < rescanTick.take
    BY <1>2, <1>3
  <2>. QED
    BY <1>t, <1>5, <2>1 DEF Least
<1>7. due \subseteq free \cup kept
  OBVIOUS
<1>8. /\ Cardinality(due) \in Nat
      /\ Cardinality(due) <= Cardinality(free) + Cardinality(kept)
  <2>1. /\ Cardinality(free \cup kept) \in Nat
        /\ Cardinality(free \cup kept) <= Cardinality(free) + Cardinality(kept)
    BY <1>5, LaunchAdds
  <2>2. free \cup kept \in SUBSET Targets
    BY <1>4
  <2>3. IsFiniteSet(free \cup kept) /\ Cardinality(due) \in Nat
    BY <1>t, <2>2, TargetsFinite
  <2>4. Cardinality(due) <= Cardinality(free \cup kept)
    BY <1>7, <2>3, FS_Subset
  <2>. QED
    BY <1>5, <2>1, <2>3, <2>4
<1>9. rescanTick.take + Cardinality(kept) <= rescanTick.fetch
  BY <1>t DEF MaskInv
<1>10. Cardinality(due) # rescanTick.fetch
  BY <1>t, <1>5, <1>6, <1>8, <1>9
<1>. QED
  BY <1>t, <1>10 DEF MaskInv

(* Over-fetching by the in-flight count works: however scans, claims and     *)
(* ends of tasks fall between the gate of a rescan tick, its query and its   *)
(* launches, no slow targets at the head of the ranking hide due rows.       *)
THEOREM NothingMasked == MCSpec => NoDueRowMasked
<1>1. MCInit => TypeInv /\ MaskInv
  <2>1. MCInit => rescanTick.pc = "idle"
    BY DEF MCInit, Init, RescanIdle
  <2>. QED
    BY <2>1, InitTypeInv DEF MCInit, MaskInv
<1>2. [MCNext]_<<vars, moved>> => [Next]_vars
  BY DEF MCNext
<1>3. TypeInv => TypeOK
  BY DEF TypeInv
<1>4. TypeOK /\ MaskInv =>
          [(/\ RescanLaunch
            /\ Cardinality(inflight' \ inflight) < rescanTick.take
            /\ rescanTick.due \cap moved = {}) =>
              \A t \in scanned \ rescanTick.due : t \in inflight \cup moved]_vars
  BY LaunchMasksNone
<1>. QED
  BY <1>1, <1>2, <1>3, <1>4, StepTypeInv, StepMaskInv, PTL DEF MCSpec, NoDueRowMasked
=============================================================================
