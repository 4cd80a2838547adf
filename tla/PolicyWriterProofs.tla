------------------------- MODULE PolicyWriterProofs -------------------------
(***************************************************************************)
(* Proofs about PolicyWriter, for every set of targets, domains and         *)
(* wildcards, every decision map and cap, any number of edits and faults:   *)
(* the types, and that every write is justified when it lands.              *)
(***************************************************************************)
EXTENDS PolicyWriter, FiniteSetTheorems, TLAPS

Tasks == [pc : {"idle", "recorded", "guard", "waiting", "sending", "sent"},
          op : {"none", "ban", "remove"}, lane : {"none", "reconcile", "cleanup"}]

(* The long way of a write, from the decision to the homeserver.             *)
Deciding == {"guard", "waiting", "sending"}

(* A write under way is justified by the row of its target.                  *)
Justified(write, s, old) ==
    write.pc \in Deciding =>
        \/ write.op = "ban" /\ Decide(s) = "ban"
        \/ write.op = "remove" /\ (Decide(s) = "unban" \/ (s = Stale /\ old))

JustInv == \A t \in Targets : Justified(task[t], status[t], aged[t])

(* Where a task has no business with the lock.                               *)
Quiet == {"idle", "recorded", "guard"}

InQueue(t) == \E i \in 1 .. Len(waiting) : waiting[i] = t

(* LockDiscipline without counting: the sender is the holder, and the queue  *)
(* holds the waiting tasks without repetition.                               *)
LockInv ==
    /\ \A t \in Targets : task[t].pc \in {"sending", "sent"} <=> writer = t
    /\ \A t \in Targets : task[t].pc = "waiting" <=> InQueue(t)
    /\ \A i, j \in 1 .. Len(waiting) : waiting[i] = waiting[j] => i = j

-----------------------------------------------------------------------------
(* What each step of a task may leave of it.                                 *)

LEMMA IdleTyped == Idle \in Tasks
BY DEF Idle, Tasks

(* The cleanup that follows a reconcile is due by the row of its target.     *)
LEMMA AfterReconcileFits ==
    ASSUME NEW t \in Targets, NEW rules
    PROVE  /\ AfterReconcile(t, rules) \in Tasks
           /\ AfterReconcile(t, rules).pc \in Quiet
           /\ Justified(AfterReconcile(t, rules), status[t], aged[t])
BY DEF AfterReconcile, CleanupDue, Idle, Tasks, Justified, Deciding, Quiet

LEMMA AfterWriteFits ==
    ASSUME NEW t \in Targets, NEW rules
    PROVE  /\ AfterWrite(t, rules) \in Tasks
           /\ AfterWrite(t, rules).pc \in Quiet
           /\ Justified(AfterWrite(t, rules), status[t], aged[t])
<1>1. Idle \in Tasks /\ Idle.pc \in Quiet /\ Justified(Idle, status[t], aged[t])
  BY DEF Idle, Tasks, Justified, Deciding, Quiet
<1>. QED
  BY <1>1, AfterReconcileFits DEF AfterWrite

LEMMA AfterTyped ==
    ASSUME NEW t \in Targets, NEW rules \in SUBSET Entities
    PROVE  After(rules, t) \in SUBSET Entities
BY SetsAssumption DEF After, Entities

(* Asking for the lock keeps what the write is and queues or holds its task. *)
LEMMA AskLockTyped ==
    ASSUME TypeOK, NEW t \in Targets, NEW write \in Tasks, AskLock(t, write)
    PROVE  /\ task' \in [Targets -> Tasks]
           /\ waiting' \in Seq(Targets) /\ writer' \in Targets \cup {"nobody"}
<1>1. [write EXCEPT !.pc = "sending"] \in Tasks /\ [write EXCEPT !.pc = "waiting"] \in Tasks
  BY DEF Tasks
<1>2. task \in [Targets -> Tasks] /\ waiting \in Seq(Targets)
      /\ writer \in Targets \cup {"nobody"}
  BY DEF TypeOK, Tasks
<1>3. CASE /\ writer' = t /\ UNCHANGED waiting
           /\ task' = [task EXCEPT ![t] = [write EXCEPT !.pc = "sending"]]
  BY <1>1, <1>2, <1>3
<1>4. CASE /\ waiting' = Append(waiting, t) /\ UNCHANGED writer
           /\ task' = [task EXCEPT ![t] = [write EXCEPT !.pc = "waiting"]]
  BY <1>1, <1>2, <1>4
<1>. QED
  BY <1>3, <1>4 DEF AskLock

-----------------------------------------------------------------------------
(* Type correctness.                                                         *)

LEMMA InitTyped == Init => TypeOK
<1>1. Init => task \in [Targets -> Tasks]
  BY IdleTyped DEF Init
<1>2. Init => halted \in BOOLEAN /\ aged \in [Targets -> BOOLEAN]
  BY DEF Init
<1>3. Init => attempts \in 0 .. MaxRetries /\ edits \in 0 .. MaxEdits /\ faults \in 0 .. MaxFaults
  BY BoundsAssumption DEF Init
<1>4. Init => waiting \in Seq(Targets) /\ feed \in [Entities -> Seq(BOOLEAN)]
  <2>1. <<>> \in Seq(Targets) /\ <<>> \in Seq(BOOLEAN)
    OBVIOUS
  <2>. QED
    BY <2>1 DEF Init
<1>5. Init => /\ status \in [Targets -> Statuses \cup {"unseen"}]
              /\ writer \in Targets \cup {"nobody"}
              /\ room \in SUBSET Entities /\ fold \in SUBSET Entities /\ hold \in SUBSET Domains
  BY DEF Init
<1>. QED
  BY <1>1, <1>2, <1>3, <1>4, <1>5 DEF TypeOK, Tasks

(* The steps that move the rows or a task, not the rules.                    *)
LEMMA TaskStepTyped ==
    ASSUME TypeOK, UNCHANGED <<room, fold, feed, config, edits>>,
           status' \in [Targets -> Statuses \cup {"unseen"}], aged' \in [Targets -> BOOLEAN],
           task' \in [Targets -> Tasks], waiting' \in Seq(Targets),
           writer' \in Targets \cup {"nobody"}, attempts' \in 0 .. MaxRetries,
           faults' \in 0 .. MaxFaults
    PROVE  TypeOK'
BY DEF TypeOK, Tasks, config

(* The steps that move rules and their announcement, not the rows.           *)
LEMMA RuleStepTyped ==
    ASSUME TypeOK, UNCHANGED <<rows, config>>,
           task' \in [Targets -> Tasks], waiting' \in Seq(Targets),
           writer' \in Targets \cup {"nobody"}, attempts' \in 0 .. MaxRetries,
           room' \in SUBSET Entities, fold' \in SUBSET Entities,
           feed' \in [Entities -> Seq(BOOLEAN)],
           edits' \in 0 .. MaxEdits, faults' \in 0 .. MaxFaults
    PROVE  TypeOK'
BY DEF TypeOK, Tasks, config, rows

LEMMA TailTyped ==
    ASSUME NEW S, NEW queue \in Seq(S), queue # <<>> PROVE Tail(queue) \in Seq(S)
OBVIOUS

LEMMA AnnounceTyped ==
    ASSUME TypeOK, NEW e \in Entities, NEW present \in BOOLEAN, Announce(e, present)
    PROVE  feed' \in [Entities -> Seq(BOOLEAN)]
<1>1. Append(feed[e], present) \in Seq(BOOLEAN)
  BY DEF TypeOK
<1>. QED
  BY <1>1 DEF TypeOK, Announce

LEMMA ReleaseTyped ==
    ASSUME TypeOK, Release
    PROVE  /\ waiting' \in Seq(Targets) /\ writer' \in Targets \cup {"nobody"}
           /\ attempts' \in 0 .. MaxRetries
BY BoundsAssumption DEF TypeOK, Release

LEMMA StepTyped == TypeOK /\ [Next]_vars => TypeOK'
<1>. SUFFICES ASSUME TypeOK, [Next]_vars PROVE TypeOK'
  OBVIOUS
<1>0. /\ task \in [Targets -> Tasks] /\ attempts \in 0 .. MaxRetries
      /\ waiting \in Seq(Targets) /\ writer \in Targets \cup {"nobody"}
      /\ status \in [Targets -> Statuses \cup {"unseen"}] /\ aged \in [Targets -> BOOLEAN]
      /\ edits \in 0 .. MaxEdits /\ faults \in 0 .. MaxFaults
      /\ room \in SUBSET Entities /\ fold \in SUBSET Entities
      /\ feed \in [Entities -> Seq(BOOLEAN)]
  BY DEF TypeOK, Tasks
<1>f. faults < MaxFaults => faults + 1 \in 0 .. MaxFaults
  BY <1>0, BoundsAssumption
<1>e. edits < MaxEdits => edits + 1 \in 0 .. MaxEdits
  BY <1>0, BoundsAssumption
<1>1. ASSUME NEW t \in Targets, NEW s \in Statuses, Observe(t, s) PROVE TypeOK'
  <2>1. [Idle EXCEPT !.pc = "recorded"] \in Tasks
    BY DEF Idle, Tasks
  <2>2. task' \in [Targets -> Tasks] /\ status' \in [Targets -> Statuses \cup {"unseen"}]
    BY <1>0, <1>1, <2>1 DEF Observe
  <2>3. aged' \in [Targets -> BOOLEAN]
    BY <1>0, <1>1 DEF Observe
  <2>. QED
    BY <1>0, <1>1, <2>2, <2>3, TaskStepTyped DEF Observe, lock
<1>2. ASSUME NEW t \in Targets, GrowsStale(t) PROVE TypeOK'
  BY <1>0, <1>2, TaskStepTyped DEF GrowsStale, lock
<1>3. ASSUME NEW t \in Targets, Reconcile(t) PROVE TypeOK'
  <2>1. task' \in [Targets -> Tasks] /\ waiting' \in Seq(Targets)
        /\ writer' \in Targets \cup {"nobody"}
    <3>1. CASE AskLock(t, [pc |-> "recorded", op |-> "ban", lane |-> "reconcile"])
      <4>1. [pc |-> "recorded", op |-> "ban", lane |-> "reconcile"] \in Tasks
        BY DEF Tasks
      <4>. QED
        BY <3>1, <4>1, AskLockTyped
    <3>2. CASE /\ task' = [task EXCEPT ![t] = [pc |-> "guard", op |-> "remove",
                                               lane |-> "reconcile"]]
               /\ UNCHANGED <<waiting, writer>>
      <4>1. [pc |-> "guard", op |-> "remove", lane |-> "reconcile"] \in Tasks
        BY DEF Tasks
      <4>. QED
        BY <1>0, <3>2, <4>1
    <3>3. CASE /\ task' = [task EXCEPT ![t] = AfterReconcile(t, fold)]
               /\ UNCHANGED <<waiting, writer>>
      BY <1>0, <3>3, AfterReconcileFits
    <3>. QED
      BY <1>3, <3>1, <3>2, <3>3 DEF Reconcile
  <2>. QED
    BY <1>0, <1>3, <2>1, TaskStepTyped DEF Reconcile, rows
<1>4. ASSUME NEW t \in Targets, Guard(t) PROVE TypeOK'
  <2>1. task' \in [Targets -> Tasks] /\ waiting' \in Seq(Targets)
        /\ writer' \in Targets \cup {"nobody"}
    BY <1>0, <1>4, AskLockTyped, AfterWriteFits DEF Guard
  <2>. QED
    BY <1>0, <1>4, <2>1, TaskStepTyped DEF Guard, rows
<1>5. ASSUME NEW t \in Targets, Acquire(t) PROVE TypeOK'
  <2>1. [task[t] EXCEPT !.pc = "sending"] \in Tasks
    BY <1>0 DEF Tasks
  <2>2. task' \in [Targets -> Tasks]
    BY <1>0, <1>5, <2>1 DEF Acquire
  <2>3. waiting' \in Seq(Targets) /\ writer' \in Targets \cup {"nobody"}
    BY <1>0, <1>5 DEF Acquire
  <2>. QED
    BY <1>0, <1>5, <2>2, <2>3, TaskStepTyped DEF Acquire, rows
<1>6. ASSUME NEW t \in Targets, Applied(t) PROVE TypeOK'
  <2>1. [task[t] EXCEPT !.pc = "sent"] \in Tasks
    BY <1>0 DEF Tasks
  <2>2. task' \in [Targets -> Tasks]
    BY <1>0, <1>6, <2>1 DEF Applied
  <2>3. DomainOf[t] \in Entities
    BY SetsAssumption DEF Entities
  <2>4. feed' \in [Entities -> Seq(BOOLEAN)]
    BY <1>6, <2>3, AnnounceTyped, (task[t].op = "ban") \in BOOLEAN DEF Applied
  <2>5. room' \in SUBSET Entities
    BY <1>0, <1>6, AfterTyped DEF Applied
  <2>. QED
    BY <1>0, <1>6, <2>2, <2>4, <2>5, RuleStepTyped DEF Applied, lock
<1>7. ASSUME NEW t \in Targets, Answered(t) PROVE TypeOK'
  <2>1. fold' \in SUBSET Entities
    BY <1>0, <1>7, AfterTyped DEF Answered
  <2>2. task' \in [Targets -> Tasks]
    BY <1>0, <1>7, AfterWriteFits DEF Answered
  <2>. QED
    BY <1>0, <1>7, <2>1, <2>2, ReleaseTyped, RuleStepTyped DEF Answered
<1>8. ASSUME NEW t \in Targets, RateLimited(t) PROVE TypeOK'
  <2>1. attempts' \in 0 .. MaxRetries
    BY <1>0, <1>8, BoundsAssumption DEF RateLimited
  <2>. QED
    BY <1>0, <1>f, <1>8, <2>1, TaskStepTyped DEF RateLimited, rows
<1>9. ASSUME NEW t \in Targets, Refused(t) PROVE TypeOK'
  <2>1. task' \in [Targets -> Tasks]
    BY <1>0, <1>9, AfterWriteFits DEF Refused
  <2>. QED
    BY <1>0, <1>f, <1>9, <2>1, ReleaseTyped, TaskStepTyped DEF Refused, rows
<1>10. ASSUME NEW t \in Targets, ConnectionLost(t) PROVE TypeOK'
  <2>1. task' \in [Targets -> Tasks]
    BY <1>0, <1>10, IdleTyped DEF ConnectionLost
  <2>. QED
    BY <1>0, <1>f, <1>10, <2>1, ReleaseTyped, TaskStepTyped DEF ConnectionLost, rows
<1>11. ASSUME NEW e \in Entities, Sync(e) PROVE TypeOK'
  <2>1. Tail(feed[e]) \in Seq(BOOLEAN)
    <3>1. feed[e] \in Seq(BOOLEAN) /\ feed[e] # <<>>
      BY <1>0, <1>11 DEF Sync
    <3>. QED
      BY <3>1, TailTyped
  <2>2. feed' \in [Entities -> Seq(BOOLEAN)] /\ fold' \in SUBSET Entities
    BY <1>0, <1>11, <2>1 DEF Sync
  <2>. QED
    BY <1>0, <1>11, <2>2, RuleStepTyped DEF Sync, lock
<1>12. ASSUME NEW e \in Editable, EditRoom(e) PROVE TypeOK'
  <2>1. e \in Entities
    BY SetsAssumption DEF Entities
  <2>2. room' \in SUBSET Entities
    BY <1>0, <1>12, <2>1 DEF EditRoom
  <2>3. feed' \in [Entities -> Seq(BOOLEAN)]
    BY <1>12, <2>1, AnnounceTyped, (e \notin room) \in BOOLEAN DEF EditRoom
  <2>. QED
    BY <1>0, <1>e, <1>12, <2>2, <2>3, RuleStepTyped DEF EditRoom, lock
<1>13. CASE EditConfig
  <2>1. halted' \in BOOLEAN
    <3>1. CASE halted' = ~halted
      BY <3>1
    <3>2. CASE UNCHANGED halted
      BY <3>2 DEF TypeOK
    <3>. QED
      BY <1>13, <3>1, <3>2 DEF EditConfig
  <2>2. hold' \in SUBSET Domains
    <3>1. CASE UNCHANGED hold
      BY <3>1 DEF TypeOK
    <3>2. CASE \E d \in Domains :
                  hold' = IF d \in hold THEN hold \ {d} ELSE hold \cup {d}
      BY <3>2 DEF TypeOK
    <3>. QED
      BY <1>13, <3>1, <3>2 DEF EditConfig
  <2>. QED
    BY <1>0, <1>e, <1>13, <2>1, <2>2 DEF EditConfig, TypeOK, rows, lock
<1>14. CASE Restart
  <2>1. task' \in [Targets -> Tasks]
    BY <1>14, IdleTyped DEF Restart
  <2>2. waiting' \in Seq(Targets) /\ feed' \in [Entities -> Seq(BOOLEAN)]
    <3>1. <<>> \in Seq(Targets) /\ <<>> \in Seq(BOOLEAN)
      OBVIOUS
    <3>. QED
      BY <1>14, <3>1 DEF Restart
  <2>3. attempts' \in 0 .. MaxRetries
    BY <1>14, BoundsAssumption DEF Restart
  <2>. QED
    BY <1>0, <1>f, <1>14, <2>1, <2>2, <2>3, RuleStepTyped DEF Restart
<1>15. CASE UNCHANGED vars
  BY <1>15 DEF vars, rows, lock, config, TypeOK
<1>. QED
  BY <1>1, <1>2, <1>3, <1>4, <1>5, <1>6, <1>7, <1>8, <1>9, <1>10, <1>11, <1>12, <1>13,
     <1>14, <1>15 DEF Next, WriteStep, Fault

(* Every variable keeps its type; the retries of a write stay bounded.       *)
THEOREM TypeCorrect == Spec => []TypeOK
BY InitTyped, StepTyped, PTL DEF Spec

-----------------------------------------------------------------------------
(* The lock.                                                                 *)

(* A task with no business with the lock moves, and has none afterwards.     *)
LEMMA QuietMove ==
    ASSUME TypeOK, LockInv, NEW t \in Targets, NEW write,
           task[t].pc \in Quiet, write.pc \in Quiet,
           task' = [task EXCEPT ![t] = write], UNCHANGED <<waiting, writer>>
    PROVE  LockInv'
<1>1. task'[t].pc \in Quiet /\ \A u \in Targets : u # t => task'[u] = task[u]
  BY DEF TypeOK
<1>. QED
  BY <1>1 DEF LockInv, InQueue, Quiet

LEMMA AskLockKeeps ==
    ASSUME TypeOK, LockInv, NEW t \in Targets, NEW write \in Tasks,
           task[t].pc \in Quiet, AskLock(t, write)
    PROVE  LockInv'
<1>1. ~InQueue(t) /\ writer # t
  BY DEF LockInv, Quiet
<1>2. CASE /\ writer = "nobody" /\ writer' = t /\ UNCHANGED waiting
           /\ task' = [task EXCEPT ![t] = [write EXCEPT !.pc = "sending"]]
  <2>1. task'[t].pc = "sending" /\ \A u \in Targets : u # t => task'[u] = task[u]
    BY <1>2 DEF TypeOK, Tasks
  <2>. QED
    BY <1>1, <1>2, <2>1, SetsAssumption DEF LockInv, InQueue
<1>3. CASE /\ waiting' = Append(waiting, t) /\ UNCHANGED writer
           /\ task' = [task EXCEPT ![t] = [write EXCEPT !.pc = "waiting"]]
  <2>1. task'[t].pc = "waiting" /\ \A u \in Targets : u # t => task'[u] = task[u]
    BY <1>3 DEF TypeOK, Tasks
  <2>2. /\ waiting \in Seq(Targets) /\ Len(waiting') = Len(waiting) + 1
        /\ waiting'[Len(waiting) + 1] = t
        /\ \A i \in 1 .. Len(waiting) : waiting'[i] = waiting[i]
    BY <1>3 DEF TypeOK
  <2>3. \A u \in Targets : InQueue(u)' <=> InQueue(u) \/ u = t
    <3>1. \A i \in 1 .. Len(waiting') : i \in 1 .. Len(waiting) \/ i = Len(waiting) + 1
      BY <2>2
    <3>2. \A i \in 1 .. Len(waiting) : i \in 1 .. Len(waiting')
      BY <2>2
    <3>3. Len(waiting) + 1 \in 1 .. Len(waiting')
      BY <2>2
    <3>. QED
      BY <2>2, <3>1, <3>2, <3>3 DEF InQueue
  <2>4. \A i, j \in 1 .. Len(waiting') : waiting'[i] = waiting'[j] => i = j
    BY <1>1, <2>2 DEF LockInv, InQueue
  <2>. QED
    BY <1>1, <1>3, <2>1, <2>3, <2>4 DEF LockInv
<1>. QED
  BY <1>2, <1>3 DEF AskLock

(* The task at the head of the queue takes the lock and leaves the queue.    *)
LEMMA AcquireKeeps ==
    ASSUME TypeOK, LockInv, NEW t \in Targets, Acquire(t)
    PROVE  LockInv'
<1>1. /\ waiting \in Seq(Targets) /\ waiting # <<>> /\ waiting[1] = t
      /\ waiting' = Tail(waiting) /\ writer' = t /\ writer = "nobody"
  BY DEF Acquire, TypeOK
<1>2. /\ Len(waiting) \in Nat \ {0} /\ Len(waiting') = Len(waiting) - 1
      /\ \A i \in 1 .. Len(waiting') : waiting'[i] = waiting[i + 1]
  BY <1>1
<1>3. task'[t].pc = "sending" /\ \A u \in Targets : u # t => task'[u] = task[u]
  BY DEF Acquire, TypeOK, Tasks
<1>4. \A u \in Targets : InQueue(u)' <=> InQueue(u) /\ u # t
  <2>. SUFFICES ASSUME NEW u \in Targets PROVE InQueue(u)' <=> InQueue(u) /\ u # t
    OBVIOUS
  <2>1. ASSUME InQueue(u)' PROVE InQueue(u) /\ u # t
    <3>1. PICK i \in 1 .. Len(waiting') : waiting'[i] = u
      BY <2>1 DEF InQueue
    <3>2. i + 1 \in 1 .. Len(waiting) /\ waiting[i + 1] = u /\ i + 1 # 1
          /\ 1 \in 1 .. Len(waiting)
      BY <1>2, <3>1
    <3>. QED
      BY <1>1, <3>2 DEF InQueue, LockInv
  <2>2. ASSUME InQueue(u), u # t PROVE InQueue(u)'
    <3>1. PICK i \in 1 .. Len(waiting) : waiting[i] = u
      BY <2>2 DEF InQueue
    <3>2. i - 1 \in 1 .. Len(waiting') /\ waiting'[i - 1] = u
      BY <1>1, <1>2, <2>2, <3>1
    <3>. QED
      BY <3>2 DEF InQueue
  <2>. QED
    BY <2>1, <2>2
<1>5. \A i, j \in 1 .. Len(waiting') : waiting'[i] = waiting'[j] => i = j
  <2>. SUFFICES ASSUME NEW i \in 1 .. Len(waiting'), NEW j \in 1 .. Len(waiting'),
                       waiting'[i] = waiting'[j]
                PROVE  i = j
    OBVIOUS
  <2>1. i + 1 \in 1 .. Len(waiting) /\ j + 1 \in 1 .. Len(waiting)
        /\ waiting[i + 1] = waiting[j + 1]
    BY <1>2
  <2>2. i + 1 = j + 1
    BY <2>1 DEF LockInv
  <2>. QED
    BY <2>2
<1>6. \A u \in Targets : task'[u].pc \in {"sending", "sent"} <=> writer' = u
  BY <1>1, <1>3, SetsAssumption DEF LockInv
<1>7. \A u \in Targets : task'[u].pc = "waiting" <=> InQueue(u)'
  BY <1>3, <1>4 DEF LockInv
<1>. QED
  BY <1>5, <1>6, <1>7 DEF LockInv

(* However a write ends, it gives the lock back.                             *)
LEMMA ReleaseKeeps ==
    ASSUME TypeOK, LockInv, NEW t \in Targets, NEW write,
           t \in Senders, write.pc \in Quiet,
           task' = [task EXCEPT ![t] = write], writer' = "nobody", UNCHANGED waiting
    PROVE  LockInv'
<1>1. task'[t].pc \in Quiet /\ \A u \in Targets : u # t => task'[u] = task[u]
  BY DEF TypeOK
<1>2. writer = t /\ writer' = "nobody" /\ waiting' = waiting
  BY DEF LockInv, Senders
<1>. QED
  BY <1>1, <1>2, SetsAssumption DEF LockInv, InQueue, Quiet

LEMMA StepLocked == TypeOK /\ LockInv /\ [Next]_vars => LockInv'
<1>. SUFFICES ASSUME TypeOK, LockInv, [Next]_vars PROVE LockInv'
  OBVIOUS
<1>u. ASSUME UNCHANGED <<task, waiting, writer>> PROVE LockInv'
  BY <1>u DEF LockInv, InQueue
<1>q. Idle.pc \in Quiet
  BY DEF Idle, Quiet
<1>1. ASSUME NEW t \in Targets, NEW s \in Statuses, Observe(t, s) PROVE LockInv'
  <2>1. [Idle EXCEPT !.pc = "recorded"].pc \in Quiet
    BY DEF Idle, Quiet
  <2>2. task[t].pc \in Quiet /\ UNCHANGED <<waiting, writer>>
    BY <1>1 DEF Observe, lock, Quiet
  <2>3. task' = [task EXCEPT ![t] = [Idle EXCEPT !.pc = "recorded"]]
    BY <1>1 DEF Observe
  <2>. QED
    BY <2>1, <2>2, <2>3, QuietMove
<1>2. ASSUME NEW t \in Targets, GrowsStale(t) PROVE LockInv'
  BY <1>2, <1>u DEF GrowsStale, lock
<1>3. ASSUME NEW t \in Targets, Reconcile(t) PROVE LockInv'
  <2>0. task[t].pc \in Quiet
    BY <1>3 DEF Reconcile, Quiet
  <2>1. CASE AskLock(t, [pc |-> "recorded", op |-> "ban", lane |-> "reconcile"])
    <3>1. [pc |-> "recorded", op |-> "ban", lane |-> "reconcile"] \in Tasks
      BY DEF Tasks
    <3>. QED
      BY <2>0, <2>1, <3>1, AskLockKeeps
  <2>2. CASE /\ task' = [task EXCEPT ![t] = [pc |-> "guard", op |-> "remove",
                                             lane |-> "reconcile"]]
             /\ UNCHANGED <<waiting, writer>>
    <3>1. [pc |-> "guard", op |-> "remove", lane |-> "reconcile"].pc \in Quiet
      BY DEF Quiet
    <3>. QED
      BY <2>0, <2>2, <3>1, QuietMove
  <2>3. CASE /\ task' = [task EXCEPT ![t] = AfterReconcile(t, fold)]
             /\ UNCHANGED <<waiting, writer>>
    BY <2>0, <2>3, AfterReconcileFits, QuietMove
  <2>. QED
    BY <1>3, <2>1, <2>2, <2>3 DEF Reconcile
<1>4. ASSUME NEW t \in Targets, Guard(t) PROVE LockInv'
  <2>1. task[t].pc \in Quiet /\ task[t] \in Tasks
    BY <1>4 DEF Guard, Quiet, TypeOK, Tasks
  <2>. QED
    BY <1>4, <2>1, AskLockKeeps, QuietMove, AfterWriteFits DEF Guard
<1>5. ASSUME NEW t \in Targets, Acquire(t) PROVE LockInv'
  BY <1>5, AcquireKeeps
<1>6. ASSUME NEW t \in Targets, Applied(t) PROVE LockInv'
  <2>1. task'[t].pc = "sent" /\ \A u \in Targets : u # t => task'[u] = task[u]
    BY <1>6 DEF Applied, TypeOK
  <2>. QED
    BY <1>6, <2>1 DEF Applied, lock, LockInv, InQueue
<1>7. ASSUME NEW t \in Targets, Answered(t) PROVE LockInv'
  <2>1. t \in Senders /\ writer' = "nobody" /\ UNCHANGED waiting
    BY <1>7 DEF Answered, Release, Senders
  <2>2. task' = [task EXCEPT ![t] = AfterWrite(t, fold')]
    BY <1>7 DEF Answered
  <2>. QED
    BY <2>1, <2>2, AfterWriteFits, ReleaseKeeps
<1>8. ASSUME NEW t \in Targets, RateLimited(t) PROVE LockInv'
  BY <1>8, <1>u DEF RateLimited
<1>9. ASSUME NEW t \in Targets, Refused(t) PROVE LockInv'
  <2>1. t \in Senders /\ writer' = "nobody" /\ UNCHANGED waiting
    BY <1>9 DEF Refused, Release, Senders
  <2>2. task' = [task EXCEPT ![t] = AfterWrite(t, fold)]
    BY <1>9 DEF Refused
  <2>. QED
    BY <2>1, <2>2, AfterWriteFits, ReleaseKeeps
<1>10. ASSUME NEW t \in Targets, ConnectionLost(t) PROVE LockInv'
  <2>1. t \in Senders /\ writer' = "nobody" /\ UNCHANGED waiting
    BY <1>10 DEF ConnectionLost, Release, Senders
  <2>2. task' = [task EXCEPT ![t] = Idle]
    BY <1>10 DEF ConnectionLost
  <2>. QED
    BY <1>q, <2>1, <2>2, ReleaseKeeps
<1>11. CASE (\E e \in Entities : Sync(e)) \/ (\E e \in Editable : EditRoom(e)) \/ EditConfig
  BY <1>11, <1>u DEF Sync, EditRoom, EditConfig, lock
<1>12. CASE Restart
  <2>1. \A t \in Targets : task'[t].pc = "idle"
    BY <1>12 DEF Restart, Idle
  <2>2. writer' = "nobody" /\ waiting' = <<>>
    BY <1>12 DEF Restart
  <2>. QED
    BY <2>1, <2>2, SetsAssumption DEF LockInv, InQueue
<1>13. CASE UNCHANGED vars
  BY <1>13, <1>u DEF vars, lock
<1>. QED
  BY <1>1, <1>2, <1>3, <1>4, <1>5, <1>6, <1>7, <1>8, <1>9, <1>10, <1>11, <1>12, <1>13
  DEF Next, WriteStep, Fault

LEMMA Locked == Spec => []LockInv
<1>1. Init => LockInv
  BY SetsAssumption DEF Init, LockInv, InQueue, Idle
<1>. QED
  BY <1>1, StepLocked, TypeCorrect, PTL DEF Spec

(* Whatever way a write ends, the lock passes on: one request is out at a    *)
(* time, it is the holder's, and every task that waits is in the queue once. *)
THEOREM LockPasses == Spec => []LockDiscipline
<1>1. TypeOK /\ LockInv => LockDiscipline
  <2>. SUFFICES ASSUME TypeOK, LockInv PROVE LockDiscipline
    OBVIOUS
  <2>1. Senders = IF writer = "nobody" THEN {} ELSE {writer}
    BY SetsAssumption DEF Senders, LockInv, TypeOK
  <2>2. ASSUME NEW t \in Targets
        PROVE  Cardinality({i \in 1 .. Len(waiting) : waiting[i] = t})
                   = IF task[t].pc = "waiting" THEN 1 ELSE 0
    <3>1. CASE InQueue(t)
      <4>1. PICK k \in 1 .. Len(waiting) : waiting[k] = t
        BY <3>1 DEF InQueue
      <4>2. {i \in 1 .. Len(waiting) : waiting[i] = t} = {k}
        BY <4>1 DEF LockInv
      <4>. QED
        BY <2>2, <3>1, <4>2, FS_Singleton DEF LockInv
    <3>2. CASE ~InQueue(t)
      <4>1. {i \in 1 .. Len(waiting) : waiting[i] = t} = {}
        BY <3>2 DEF InQueue
      <4>. QED
        BY <2>2, <3>2, <4>1, FS_EmptySet DEF LockInv
    <3>. QED
      BY <3>1, <3>2
  <2>. QED
    BY <2>1, <2>2 DEF LockDiscipline
<1>. QED
  BY <1>1, TypeCorrect, Locked, PTL

-----------------------------------------------------------------------------
(* Justification.                                                            *)

(* A step that leaves the rows and all tasks but one alone has only that one *)
(* to answer for.                                                            *)
LEMMA OneTaskMoves ==
    ASSUME TypeOK, JustInv, NEW t \in Targets, NEW write,
           task' = [task EXCEPT ![t] = write], UNCHANGED rows,
           Justified(write, status[t], aged[t])
    PROVE  JustInv'
<1>. SUFFICES ASSUME NEW u \in Targets PROVE Justified(task[u], status[u], aged[u])'
  BY DEF JustInv
<1>1. status' = status /\ aged' = aged
  BY DEF rows
<1>2. CASE u = t
  <2>1. task'[u] = write
    BY <1>2 DEF TypeOK
  <2>. QED
    BY <1>1, <1>2, <2>1 DEF Justified, Decide
<1>3. CASE u # t
  <2>1. task'[u] = task[u] /\ Justified(task[u], status[u], aged[u])
    BY <1>3 DEF TypeOK, JustInv
  <2>. QED
    BY <1>1, <2>1 DEF Justified, Decide
<1>. QED
  BY <1>2, <1>3

(* Waiting for the lock changes nothing of what the write is.                *)
LEMMA AskLockJustified ==
    ASSUME TypeOK, JustInv, NEW t \in Targets, NEW write \in Tasks, AskLock(t, write),
           UNCHANGED rows,
           \/ write.op = "ban" /\ Decide(status[t]) = "ban"
           \/ write.op = "remove"
              /\ (Decide(status[t]) = "unban" \/ (status[t] = Stale /\ aged[t]))
    PROVE  JustInv'
<1>1. PICK pc \in {"waiting", "sending"} : task' = [task EXCEPT ![t] = [write EXCEPT !.pc = pc]]
  BY DEF AskLock
<1>2. Justified([write EXCEPT !.pc = pc], status[t], aged[t])
  BY DEF Justified, Tasks
<1>. QED
  BY <1>1, <1>2, OneTaskMoves

LEMMA StepJustified == TypeOK /\ LockInv /\ JustInv /\ [Next]_vars => JustInv'
<1>. SUFFICES ASSUME TypeOK, LockInv, JustInv, [Next]_vars PROVE JustInv'
  OBVIOUS
<1>0. task \in [Targets -> Tasks]
  BY DEF TypeOK, Tasks
<1>i. \A t \in Targets : Justified(Idle, status[t], aged[t])
  BY DEF Idle, Justified, Deciding
<1>1. ASSUME NEW t \in Targets, NEW s \in Statuses, Observe(t, s) PROVE JustInv'
  <2>. SUFFICES ASSUME NEW u \in Targets PROVE Justified(task[u], status[u], aged[u])'
    BY DEF JustInv
  <2>1. CASE u = t
    <3>1. task'[u].pc = "recorded"
      BY <1>0, <1>1, <2>1 DEF Observe, Idle
    <3>. QED
      BY <3>1 DEF Justified, Deciding
  <2>2. CASE u # t
    <3>1. task'[u] = task[u] /\ status'[u] = status[u] /\ aged'[u] = aged[u]
      BY <1>0, <1>1, <2>2 DEF Observe, TypeOK
    <3>2. Justified(task[u], status[u], aged[u])
      BY DEF JustInv
    <3>. QED
      BY <3>1, <3>2 DEF Justified, Decide
  <2>. QED
    BY <2>1, <2>2
<1>2. ASSUME NEW t \in Targets, GrowsStale(t) PROVE JustInv'
  <2>. SUFFICES ASSUME NEW u \in Targets PROVE Justified(task[u], status[u], aged[u])'
    BY DEF JustInv
  <2>1. task' = task /\ status' = status /\ (aged[u] => aged'[u])
    BY <1>2 DEF GrowsStale, TypeOK
  <2>2. Justified(task[u], status[u], aged[u])
    BY DEF JustInv
  <2>. QED
    BY <2>1, <2>2 DEF Justified, Decide
<1>3. ASSUME NEW t \in Targets, Reconcile(t) PROVE JustInv'
  <2>1. CASE /\ WantsBan(t)
             /\ AskLock(t, [pc |-> "recorded", op |-> "ban", lane |-> "reconcile"])
    <3>1. [pc |-> "recorded", op |-> "ban", lane |-> "reconcile"] \in Tasks
      BY DEF Tasks
    <3>2. Decide(status[t]) = "ban"
      BY <2>1 DEF WantsBan
    <3>. QED
      BY <1>3, <2>1, <3>1, <3>2, AskLockJustified DEF Reconcile
  <2>2. CASE /\ WantsUnban(t)
             /\ task' = [task EXCEPT ![t] = [pc |-> "guard", op |-> "remove",
                                             lane |-> "reconcile"]]
    <3>1. Justified([pc |-> "guard", op |-> "remove", lane |-> "reconcile"],
                    status[t], aged[t])
      BY <2>2 DEF WantsUnban, Justified
    <3>. QED
      BY <1>3, <2>2, <3>1, OneTaskMoves DEF Reconcile
  <2>3. CASE task' = [task EXCEPT ![t] = AfterReconcile(t, fold)]
    BY <1>3, <2>3, AfterReconcileFits, OneTaskMoves DEF Reconcile
  <2>. QED
    BY <1>3, <2>1, <2>2, <2>3 DEF Reconcile
<1>4. ASSUME NEW t \in Targets, Guard(t) PROVE JustInv'
  <2>1. CASE AskLock(t, task[t])
    <3>1. Justified(task[t], status[t], aged[t]) /\ task[t].pc = "guard"
      BY <1>4 DEF JustInv, Guard
    <3>. QED
      BY <1>0, <1>4, <2>1, <3>1, AskLockJustified DEF Guard, Justified, Deciding
  <2>2. CASE task' = [task EXCEPT ![t] = AfterWrite(t, fold)]
    BY <1>4, <2>2, AfterWriteFits, OneTaskMoves DEF Guard
  <2>. QED
    BY <1>4, <2>1, <2>2 DEF Guard
<1>u. ASSUME UNCHANGED <<rows, task>> PROVE JustInv'
  BY <1>u DEF rows, JustInv, Justified, Decide
<1>5. ASSUME NEW t \in Targets, Acquire(t) PROVE JustInv'
  <2>1. task[t].pc = "waiting"
    <3>1. waiting[1] = t /\ 1 \in 1 .. Len(waiting)
      BY <1>5 DEF Acquire, TypeOK
    <3>. QED
      BY <3>1 DEF LockInv, InQueue
  <2>2. Justified([task[t] EXCEPT !.pc = "sending"], status[t], aged[t])
    BY <1>0, <2>1 DEF JustInv, Justified, Deciding, Tasks
  <2>. QED
    BY <1>5, <2>2, OneTaskMoves DEF Acquire
<1>6. ASSUME NEW t \in Targets, Applied(t) PROVE JustInv'
  <2>1. Justified([task[t] EXCEPT !.pc = "sent"], status[t], aged[t])
    BY <1>0 DEF Justified, Deciding, Tasks
  <2>. QED
    BY <1>6, <2>1, OneTaskMoves DEF Applied
<1>7. ASSUME NEW t \in Targets, Answered(t) PROVE JustInv'
  BY <1>7, AfterWriteFits, OneTaskMoves DEF Answered
<1>8. ASSUME NEW t \in Targets, RateLimited(t) PROVE JustInv'
  BY <1>8, <1>u DEF RateLimited
<1>9. ASSUME NEW t \in Targets, Refused(t) PROVE JustInv'
  BY <1>9, AfterWriteFits, OneTaskMoves DEF Refused
<1>10. ASSUME NEW t \in Targets, ConnectionLost(t) PROVE JustInv'
  BY <1>10, <1>i, OneTaskMoves DEF ConnectionLost
<1>11. CASE (\E e \in Entities : Sync(e)) \/ (\E e \in Editable : EditRoom(e)) \/ EditConfig
  BY <1>11, <1>u DEF Sync, EditRoom, EditConfig
<1>12. CASE Restart
  <2>1. \A t \in Targets : task'[t].pc = "idle"
    BY <1>12 DEF Restart, Idle
  <2>. QED
    BY <2>1 DEF JustInv, Justified, Deciding
<1>13. CASE UNCHANGED vars
  BY <1>13, <1>u DEF vars
<1>. QED
  BY <1>1, <1>2, <1>3, <1>4, <1>5, <1>6, <1>7, <1>8, <1>9, <1>10, <1>11, <1>12, <1>13
  DEF Next, WriteStep, Fault

(* A write that reaches the homeserver is justified then and there by the    *)
(* row of the target it was decided for, however long it queued and retried. *)
THEOREM WritesJustified == Spec => JustifiedWrites
<1>1. Init => JustInv
  BY DEF Init, JustInv, Justified, Deciding, Idle
<1>2. JustInv /\ [Next]_vars =>
          [\A t \in Targets : Applied(t) =>
              IF task[t].op = "ban"
              THEN Decide(status[t]) = "ban"
              ELSE Decide(status[t]) = "unban" \/ (status[t] = Stale /\ aged[t])]_vars
  BY DEF JustInv, Justified, Deciding, Applied
<1>. QED
  BY <1>1, <1>2, StepJustified, TypeCorrect, Locked, PTL DEF Spec, JustifiedWrites

-----------------------------------------------------------------------------
(* The fold.                                                                 *)

(* Rules that the bot and others do not both edit.                           *)
OneEditor == Entities \ {DomainOf[t] : t \in {u \in Targets : DomainOf[u] \in Editable}}

(* The last change under way is what the room holds, with none under way the *)
(* fold is the room, and an answer under way says what the room holds.       *)
FoldInv ==
    \A e \in OneEditor :
        /\ feed[e] # <<>> => (feed[e][Len(feed[e])] <=> e \in room)
        /\ feed[e] = <<>> => (e \in fold <=> e \in room)
        /\ \A t \in Targets :
              task[t].pc = "sent" /\ DomainOf[t] = e => (task[t].op = "ban" <=> e \in room)

(* A step that sends nothing and moves no rule.                              *)
LEMMA FoldStill ==
    ASSUME FoldInv, UNCHANGED <<room, fold, feed>>,
           \A t \in Targets : task'[t].pc = "sent" =>
               task[t].pc = "sent" /\ task'[t].op = task[t].op
    PROVE  FoldInv'
BY DEF FoldInv, OneEditor

(* One that moves a task elsewhere than to the homeserver.                   *)
LEMMA TaskLeaves ==
    ASSUME TypeOK, NEW t \in Targets, NEW write, write.pc # "sent",
           task' = [task EXCEPT ![t] = write]
    PROVE  \A u \in Targets : task'[u].pc = "sent" =>
               task[u].pc = "sent" /\ task'[u].op = task[u].op
BY DEF TypeOK

LEMMA AskLockSendsNot ==
    ASSUME TypeOK, NEW t \in Targets, NEW write \in Tasks, AskLock(t, write)
    PROVE  \A u \in Targets : task'[u].pc = "sent" =>
               task[u].pc = "sent" /\ task'[u].op = task[u].op
<1>1. PICK pc \in {"waiting", "sending"} : task' = [task EXCEPT ![t] = [write EXCEPT !.pc = pc]]
  BY DEF AskLock
<1>2. [write EXCEPT !.pc = pc].pc = pc
  BY DEF Tasks
<1>. QED
  BY <1>1, <1>2, TaskLeaves

(* The last of a queue is the last of its tail, or its head.                 *)
LEMMA TailLast ==
    ASSUME NEW S, NEW queue \in Seq(S), queue # <<>>
    PROVE  /\ Tail(queue) # <<>> => Tail(queue)[Len(Tail(queue))] = queue[Len(queue)]
           /\ Tail(queue) = <<>> => Head(queue) = queue[Len(queue)]
<1>1. /\ Len(queue) \in Nat \ {0} /\ Len(Tail(queue)) = Len(queue) - 1
      /\ \A i \in 1 .. Len(queue) - 1 : Tail(queue)[i] = queue[i + 1]
      /\ Head(queue) = queue[1]
  OBVIOUS
<1>2. Tail(queue) \in Seq(S)
  BY TailTyped
<1>3. CASE Len(queue) = 1
  <2>1. Len(Tail(queue)) = 0
    BY <1>1, <1>3
  <2>2. Tail(queue) = <<>>
    <3>. DEFINE rest == Tail(queue)
    <3>1. rest \in Seq(S) /\ Len(rest) = 0
      BY <1>2, <2>1
    <3>2. rest = <<>>
      <4>. HIDE DEF rest
      <4>. QED
        BY <3>1
    <3>. QED
      BY <3>2
  <2>. QED
    BY <1>1, <1>3, <2>2
<1>4. CASE Len(queue) # 1
  <2>1. Len(queue) - 1 \in 1 .. Len(queue) - 1
    BY <1>1, <1>4
  <2>2. Tail(queue)[Len(Tail(queue))] = queue[Len(queue)]
    BY <1>1, <2>1
  <2>3. Tail(queue) # <<>>
    BY <1>1, <1>4
  <2>. QED
    BY <2>2, <2>3
<1>. QED
  BY <1>3, <1>4

(* The last of the changes once another is announced.                        *)
LEMMA AnnounceLast ==
    ASSUME TypeOK, NEW e \in Entities, NEW present \in BOOLEAN, Announce(e, present)
    PROVE  /\ feed'[e] # <<>> /\ feed'[e][Len(feed'[e])] = present
           /\ \A f \in Entities : f # e => feed'[f] = feed[f]
<1>1. feed[e] \in Seq(BOOLEAN) /\ feed' = [feed EXCEPT ![e] = Append(feed[e], present)]
  BY DEF TypeOK, Announce
<1>2. feed'[e] = Append(feed[e], present) /\ \A f \in Entities : f # e => feed'[f] = feed[f]
  BY <1>1 DEF TypeOK
<1>3. /\ Append(feed[e], present) # <<>>
      /\ Append(feed[e], present)[Len(Append(feed[e], present))] = present
  BY <1>1
<1>. QED
  BY <1>2, <1>3

LEMMA StepFolded == TypeOK /\ LockInv /\ FoldInv /\ [Next]_vars => FoldInv'
<1>. SUFFICES ASSUME TypeOK, LockInv, FoldInv, [Next]_vars PROVE FoldInv'
  OBVIOUS
<1>0. task \in [Targets -> Tasks] /\ DomainOf \in [Targets -> Entities]
  BY SetsAssumption DEF TypeOK, Tasks, Entities
<1>q. \A pc \in Quiet : pc # "sent"
  BY DEF Quiet
<1>1. ASSUME NEW t \in Targets, NEW s \in Statuses, Observe(t, s) PROVE FoldInv'
  <2>1. [Idle EXCEPT !.pc = "recorded"].pc # "sent"
    BY DEF Idle
  <2>. QED
    BY <1>1, <2>1, TaskLeaves, FoldStill DEF Observe
<1>u. ASSUME UNCHANGED <<room, fold, feed, task>> PROVE FoldInv'
  BY <1>u, FoldStill
<1>2. ASSUME NEW t \in Targets, GrowsStale(t) PROVE FoldInv'
  BY <1>2, <1>u DEF GrowsStale
<1>3. ASSUME NEW t \in Targets, Reconcile(t) PROVE FoldInv'
  <2>0. UNCHANGED <<room, fold, feed>>
    BY <1>3 DEF Reconcile
  <2>1. CASE AskLock(t, [pc |-> "recorded", op |-> "ban", lane |-> "reconcile"])
    <3>1. [pc |-> "recorded", op |-> "ban", lane |-> "reconcile"] \in Tasks
      BY DEF Tasks
    <3>. QED
      BY <2>0, <2>1, <3>1, AskLockSendsNot, FoldStill
  <2>2. CASE task' = [task EXCEPT ![t] = [pc |-> "guard", op |-> "remove",
                                          lane |-> "reconcile"]]
    <3>1. [pc |-> "guard", op |-> "remove", lane |-> "reconcile"].pc # "sent"
      OBVIOUS
    <3>. QED
      BY <2>0, <2>2, <3>1, TaskLeaves, FoldStill
  <2>3. CASE task' = [task EXCEPT ![t] = AfterReconcile(t, fold)]
    BY <1>q, <2>0, <2>3, AfterReconcileFits, TaskLeaves, FoldStill
  <2>. QED
    BY <1>3, <2>1, <2>2, <2>3 DEF Reconcile
<1>4. ASSUME NEW t \in Targets, Guard(t) PROVE FoldInv'
  <2>0. UNCHANGED <<room, fold, feed>> /\ task[t] \in Tasks
    BY <1>0, <1>4 DEF Guard
  <2>1. CASE AskLock(t, task[t])
    BY <2>0, <2>1, AskLockSendsNot, FoldStill
  <2>2. CASE task' = [task EXCEPT ![t] = AfterWrite(t, fold)]
    BY <1>q, <2>0, <2>2, AfterWriteFits, TaskLeaves, FoldStill
  <2>. QED
    BY <1>4, <2>1, <2>2 DEF Guard
<1>5. ASSUME NEW t \in Targets, Acquire(t) PROVE FoldInv'
  <2>1. [task[t] EXCEPT !.pc = "sending"].pc # "sent"
    BY <1>0 DEF Tasks
  <2>. QED
    BY <1>5, <2>1, TaskLeaves, FoldStill DEF Acquire
<1>6. ASSUME NEW t \in Targets, Applied(t) PROVE FoldInv'
  <2>. DEFINE d == DomainOf[t]
  <2>0. d \in Entities
    BY <1>0
  <2>1. /\ feed'[d] # <<>> /\ feed'[d][Len(feed'[d])] = (task[t].op = "ban")
        /\ \A f \in Entities : f # d => feed'[f] = feed[f]
    BY <1>6, <2>0, AnnounceLast DEF Applied
  <2>2. /\ task[t].op = "ban" <=> d \in room'
        /\ \A e : e # d => (e \in room' <=> e \in room)
    BY <1>6 DEF Applied, After
  <2>3. fold' = fold
    BY <1>6 DEF Applied
  <2>4. /\ task'[t].op = task[t].op
        /\ \A u \in Targets : u # t => task'[u] = task[u] /\ task[u].pc # "sent"
    BY <1>0, <1>6 DEF Applied, Tasks, LockInv
  <2>. SUFFICES ASSUME NEW e \in OneEditor
                PROVE  /\ feed'[e] # <<>> => (feed'[e][Len(feed'[e])] <=> e \in room')
                       /\ feed'[e] = <<>> => (e \in fold' <=> e \in room')
                       /\ \A u \in Targets : task'[u].pc = "sent" /\ DomainOf[u] = e =>
                                 (task'[u].op = "ban" <=> e \in room')
    BY DEF FoldInv, OneEditor
  <2>5. e \in Entities
    BY DEF OneEditor
  <2>6. CASE e = d
    BY <2>1, <2>2, <2>4, <2>6
  <2>7. CASE e # d
    BY <2>1, <2>2, <2>3, <2>4, <2>5, <2>7 DEF FoldInv
  <2>. QED
    BY <2>6, <2>7
<1>7. ASSUME NEW t \in Targets, Answered(t) PROVE FoldInv'
  <2>. DEFINE d == DomainOf[t]
  <2>1. task' = [task EXCEPT ![t] = AfterWrite(t, fold')] /\ UNCHANGED <<room, feed>>
        /\ task[t].pc = "sent" /\ fold' = After(fold, t)
    BY <1>7 DEF Answered
  <2>2. \A u \in Targets : task'[u].pc = "sent" =>
            task[u].pc = "sent" /\ task'[u].op = task[u].op
    BY <1>q, <2>1, AfterWriteFits, TaskLeaves
  <2>3. \A e \in OneEditor : e = d => (e \in fold' <=> e \in room)
    BY <2>1 DEF After, FoldInv
  <2>4. \A e \in OneEditor : e # d => (e \in fold' <=> e \in fold)
    BY <2>1 DEF After
  <2>. QED
    BY <2>1, <2>2, <2>3, <2>4 DEF FoldInv, OneEditor
<1>8. ASSUME NEW t \in Targets, RateLimited(t) PROVE FoldInv'
  BY <1>8, <1>u DEF RateLimited
<1>9. ASSUME NEW t \in Targets, Refused(t) PROVE FoldInv'
  BY <1>9, <1>q, AfterWriteFits, TaskLeaves, FoldStill DEF Refused
<1>10. ASSUME NEW t \in Targets, ConnectionLost(t) PROVE FoldInv'
  <2>1. Idle.pc # "sent"
    BY DEF Idle
  <2>. QED
    BY <1>10, <2>1, TaskLeaves, FoldStill DEF ConnectionLost
<1>11. ASSUME NEW e \in Entities, Sync(e) PROVE FoldInv'
  <2>1. /\ feed[e] \in Seq(BOOLEAN) /\ feed[e] # <<>> /\ feed'[e] = Tail(feed[e])
        /\ \A f \in Entities : f # e => feed'[f] = feed[f]
    BY <1>11 DEF Sync, TypeOK
  <2>2. /\ Tail(feed[e]) # <<>> =>
              Tail(feed[e])[Len(Tail(feed[e]))] = feed[e][Len(feed[e])]
        /\ Tail(feed[e]) = <<>> => Head(feed[e]) = feed[e][Len(feed[e])]
    BY <2>1, TailLast
  <2>3. /\ e \in fold' <=> Head(feed[e])
        /\ \A f : f # e => (f \in fold' <=> f \in fold)
    BY <1>11 DEF Sync
  <2>4. UNCHANGED <<room, task>>
    BY <1>11 DEF Sync
  <2>. SUFFICES ASSUME NEW f \in OneEditor
                PROVE  /\ feed'[f] # <<>> => (feed'[f][Len(feed'[f])] <=> f \in room)
                       /\ feed'[f] = <<>> => (f \in fold' <=> f \in room)
    BY <2>4 DEF FoldInv, OneEditor
  <2>5. CASE f = e
    BY <2>1, <2>2, <2>3, <2>5 DEF FoldInv
  <2>6. CASE f # e
    BY <2>1, <2>3, <2>6 DEF FoldInv, OneEditor
  <2>. QED
    BY <2>5, <2>6
<1>12. ASSUME NEW e \in Editable, EditRoom(e) PROVE FoldInv'
  <2>0. e \in Entities
    BY SetsAssumption DEF Entities
  <2>1. /\ feed'[e] # <<>> /\ feed'[e][Len(feed'[e])] = (e \notin room)
        /\ \A f \in Entities : f # e => feed'[f] = feed[f]
    BY <1>12, <2>0, AnnounceLast DEF EditRoom
  <2>2. /\ e \in room' <=> e \notin room
        /\ \A f : f # e => (f \in room' <=> f \in room)
    BY <1>12 DEF EditRoom
  <2>3. UNCHANGED <<fold, task>>
    BY <1>12 DEF EditRoom
  <2>. SUFFICES ASSUME NEW f \in OneEditor
                PROVE  /\ feed'[f] # <<>> => (feed'[f][Len(feed'[f])] <=> f \in room')
                       /\ feed'[f] = <<>> => (f \in fold <=> f \in room')
                       /\ \A u \in Targets : task[u].pc = "sent" /\ DomainOf[u] = f =>
                                 (task[u].op = "ban" <=> f \in room')
    BY <2>3 DEF FoldInv, OneEditor
  <2>4. f \in Entities
    BY DEF OneEditor
  <2>5. CASE f = e
    <3>1. \A u \in Targets : DomainOf[u] # f
      BY <2>5 DEF OneEditor
    <3>. QED
      BY <2>1, <2>2, <2>5, <3>1
  <2>6. CASE f # e
    BY <2>1, <2>2, <2>4, <2>6 DEF FoldInv
  <2>. QED
    BY <2>5, <2>6
<1>13. CASE EditConfig
  BY <1>13, <1>u DEF EditConfig
<1>14. CASE Restart
  <2>1. \A t \in Targets : task'[t].pc = "idle"
    BY <1>14 DEF Restart, Idle
  <2>2. fold' = room /\ room' = room /\ \A e \in Entities : feed'[e] = <<>>
    BY <1>14 DEF Restart
  <2>. QED
    BY <2>1, <2>2 DEF FoldInv, OneEditor
<1>15. CASE UNCHANGED vars
  BY <1>15, <1>u DEF vars
<1>. QED
  BY <1>1, <1>2, <1>3, <1>4, <1>5, <1>6, <1>7, <1>8, <1>9, <1>10, <1>11, <1>12, <1>13,
     <1>14, <1>15 DEF Next, WriteStep, Fault

(* The fold is the room but for changes that are still to be delivered,      *)
(* whatever writes were refused, lost, answered late or cut off by a         *)
(* restart; for rules the bot and others do not both edit.                   *)
THEOREM FoldRecovers == Spec => []FoldIsRecoverable
<1>1. Init => FoldInv
  <2>. SUFFICES ASSUME Init PROVE FoldInv
    OBVIOUS
  <2>1. fold = room /\ \A e \in Entities : feed[e] = <<>>
    BY DEF Init
  <2>2. \A t \in Targets : task[t].pc = "idle"
    BY DEF Init, Idle
  <2>. QED
    BY <2>1, <2>2 DEF FoldInv, OneEditor
<1>2. FoldInv => FoldIsRecoverable
  BY DEF FoldInv, FoldIsRecoverable, OneEditor
<1>. QED
  BY <1>1, <1>2, StepFolded, TypeCorrect, Locked, PTL DEF Spec
=============================================================================
