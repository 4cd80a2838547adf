---------------------------- MODULE PolicyWriter ----------------------------
(***************************************************************************)
(* How scan results become rules of the shared policy room (policy.py): the *)
(* tail of a scan task (record_scan, reconcile, consider_stale_cleanup),    *)
(* the write lock with its bounded retries, the homeserver that applies a   *)
(* state event and answers, the sync stream that brings every change of the *)
(* room back to the local fold, and the operators who edit the room and the *)
(* governance configuration meanwhile.                                      *)
(*                                                                         *)
(* Abstractions. A rule is its entity: a domain, or a glob that covers some *)
(* domains; there is one recommendation, so the state key is the entity. A  *)
(* target runs at most one task at a time (ScanScheduler, NoDuplicateScan). *)
(* The staleness clock is a flag that may be raised while a row stays       *)
(* unknown. The throttle's sleep is the wait before the request goes out.   *)
(* IP literals, for which no rule is written by default, are left out; the  *)
(* decision map and the cap stay what they are in a behaviour.              *)
(***************************************************************************)
EXTENDS Naturals, FiniteSets, Sequences

CONSTANTS
    Targets,        \* scan targets, port included
    Domains,        \* portless names, what rules are keyed on
    Globs,          \* wildcard entities
    DomainOf,       \* [Targets -> Domains]: strip_port
    Covers,         \* [Globs -> SUBSET Domains]: what a wildcard matches
    Bucket,         \* [Domains -> values]: the registrable domain, eTLD+1
    Statuses,       \* registration statuses a scan can report
    Stale,          \* the status that ages: unknown
    Decision,       \* [Statuses -> actions]: the decision map
    Cap,            \* max_bans_per_etld1
    MaxRetries,     \* _RL_MAX_RETRIES
    Editable,       \* entities other operators may add or remove
    MaxLag,         \* bound: changes of one rule the sync has yet to deliver
    MaxEdits,       \* bound: edits by other operators in a behaviour
    MaxFaults       \* bound: failed requests and restarts in a behaviour

ASSUME SetsAssumption ==
    /\ Domains \cap Globs = {} /\ Editable \subseteq Domains \cup Globs
    /\ DomainOf \in [Targets -> Domains] /\ Covers \in [Globs -> SUBSET Domains]
    /\ Stale \in Statuses /\ Decision \in [Statuses -> {"ban", "unban", "hold"}]
    /\ "unseen" \notin Statuses /\ "nobody" \notin Targets
ASSUME BoundsAssumption ==
    /\ Cap \in Nat /\ MaxRetries \in Nat
    /\ MaxLag \in Nat /\ MaxEdits \in Nat /\ MaxFaults \in Nat

VARIABLES
    status,         \* reg_status of each target's row, "unseen" without a row
    aged,           \* aged[t]: t has been unknown for stale_max_age
    task,           \* where the task of each target is, and what it writes
    waiting,        \* _write_lock: tasks waiting for it, first come first
    writer,         \* _write_lock: the task that holds it
    attempts,       \* rate-limited attempts of the write in progress
    room,           \* entities with a rule in the policy room
    fold,           \* _rules: entities with a rule as far as the bot knows
    feed,           \* feed[e]: changes of e the sync has not yet delivered
    halted,         \* the policy's halt predicate
    hold,           \* hold_targets
    edits,          \* edits so far
    faults          \* faults so far

rows   == <<status, aged>>
lock   == <<waiting, writer, attempts>>
config == <<halted, hold>>
vars   == <<rows, task, lock, room, fold, feed, config, edits, faults>>

Entities == Domains \cup Globs
Idle     == [pc |-> "idle", op |-> "none", lane |-> "none"]

Decide(s)       == IF s \in Statuses THEN Decision[s] ELSE "hold"
DomainHasBan(d) == \E t \in Targets : DomainOf[t] = d /\ Decide(status[t]) = "ban"

TypeOK ==
    /\ status \in [Targets -> Statuses \cup {"unseen"}]
    /\ aged \in [Targets -> BOOLEAN]
    /\ task \in [Targets -> [pc : {"idle", "recorded", "guard", "waiting", "sending", "sent"},
                             op : {"none", "ban", "remove"},
                             lane : {"none", "reconcile", "cleanup"}]]
    /\ waiting \in Seq(Targets) /\ writer \in Targets \cup {"nobody"}
    /\ attempts \in 0 .. MaxRetries
    /\ room \in SUBSET Entities /\ fold \in SUBSET Entities
    /\ feed \in [Entities -> Seq(BOOLEAN)]
    /\ halted \in BOOLEAN /\ hold \in SUBSET Domains
    /\ edits \in 0 .. MaxEdits /\ faults \in 0 .. MaxFaults

Init ==
    /\ status = [t \in Targets |-> "unseen"] /\ aged = [t \in Targets |-> FALSE]
    /\ task = [t \in Targets |-> Idle]
    /\ waiting = <<>> /\ writer = "nobody" /\ attempts = 0
    /\ room = {} /\ fold = room /\ feed = [e \in Entities |-> <<>>]
    /\ halted = FALSE /\ hold = {} /\ edits = 0 /\ faults = 0

-----------------------------------------------------------------------------
(* A scan of t reports s and record_scan commits it; status_since moves only *)
(* with the status, so the age survives an unchanged result.                 *)
Observe(t, s) ==
    /\ task[t].pc = "idle"
    /\ status' = [status EXCEPT ![t] = s]
    /\ aged' = [aged EXCEPT ![t] = @ /\ s = status[t]]
    /\ task' = [task EXCEPT ![t] = [Idle EXCEPT !.pc = "recorded"]]
    /\ UNCHANGED <<lock, room, fold, feed, config, edits, faults>>

(* Time passes stale_max_age while t stays unknown. *)
GrowsStale(t) ==
    /\ status[t] = Stale /\ ~aged[t]
    /\ aged' = [aged EXCEPT ![t] = TRUE]
    /\ UNCHANGED <<status, task, lock, room, fold, feed, config, edits, faults>>

-----------------------------------------------------------------------------
(* consider_stale_cleanup up to its first await, with the fold as it stands. *)
CleanupDue(t, rules) ==
    /\ ~halted
    /\ status[t] = Stale /\ aged[t]
    /\ DomainOf[t] \notin hold
    /\ DomainOf[t] \in rules

AfterReconcileDone(t, rules) == Idle                               \* faulty variant

(* What is left of the task once reconcile has returned.                     *)
AfterReconcile(t, rules) ==
    IF CleanupDue(t, rules)
    THEN [pc |-> "guard", op |-> "remove", lane |-> "cleanup"]
    ELSE Idle

(* What is left of the task once a write, or a refused one, has returned.    *)
AfterWrite(t, rules) ==
    IF task[t].lane = "reconcile" THEN AfterReconcile(t, rules) ELSE Idle

Covered(d)       == \E g \in fold \cap Globs : d \in Covers[g]
BucketRules(d)   == {e \in fold \cap Domains : Bucket[e] = Bucket[d]}
CapReached(d)    == Cardinality(BucketRules(d)) >= Cap

(* reconcile's guards: not halted, not held, and a change is wanted.         *)
WantsBan(t) ==
    LET d == DomainOf[t]
    IN  /\ ~halted /\ d \notin hold /\ Decide(status[t]) = "ban"
        /\ d \notin fold /\ ~Covered(d) /\ ~CapReached(d)

WantsUnbanLoose(t) ==                                              \* faulty variant
    LET d == DomainOf[t]
    IN  ~halted /\ d \notin hold /\ Decide(status[t]) # "ban" /\ d \in fold

WantsUnban(t) ==
    LET d == DomainOf[t]
    IN  ~halted /\ d \notin hold /\ Decide(status[t]) = "unban" /\ d \in fold

(* async with _write_lock: a free lock nobody waits for is taken without a   *)
(* pause; otherwise the task queues. The lock is held over the throttle, the *)
(* request and every backoff.                                                *)
AskLock(t, write) ==
    \/ /\ writer = "nobody" /\ waiting = <<>>
       /\ writer' = t
       /\ task' = [task EXCEPT ![t] = [write EXCEPT !.pc = "sending"]]
       /\ UNCHANGED waiting
    \/ /\ writer # "nobody" \/ waiting # <<>>
       /\ waiting' = Append(waiting, t)
       /\ task' = [task EXCEPT ![t] = [write EXCEPT !.pc = "waiting"]]
       /\ UNCHANGED writer

(* reconcile up to its first real pause: to the lock with a ban, to the      *)
(* sibling query with an unban, or through to the cleanup without a pause.   *)
Reconcile(t) ==
    /\ task[t].pc = "recorded"
    /\ \/ /\ WantsBan(t)
          /\ AskLock(t, [pc |-> "recorded", op |-> "ban", lane |-> "reconcile"])
       \/ /\ WantsUnban(t)
          /\ task' = [task EXCEPT ![t] = [pc |-> "guard", op |-> "remove",
                                          lane |-> "reconcile"]]
          /\ UNCHANGED <<waiting, writer>>
       \/ /\ ~WantsBan(t) /\ ~WantsUnban(t)
          /\ task' = [task EXCEPT ![t] = AfterReconcile(t, fold)]
          /\ UNCHANGED <<waiting, writer>>
    /\ UNCHANGED <<rows, attempts, room, fold, feed, config, edits, faults>>

GuardForgetsSiblings(t) == Decide(status[t]) # "ban"               \* faulty variant

GuardPasses(t) == ~DomainHasBan(DomainOf[t])

(* _domain_has_ban reads the rows of the domain; then the lock is asked for. *)
Guard(t) ==
    /\ task[t].pc = "guard"
    /\ \/ GuardPasses(t) /\ AskLock(t, task[t])
       \/ /\ ~GuardPasses(t)
          /\ task' = [task EXCEPT ![t] = AfterWrite(t, fold)]
          /\ UNCHANGED <<waiting, writer>>
    /\ UNCHANGED <<rows, attempts, room, fold, feed, config, edits, faults>>

-----------------------------------------------------------------------------
(* _write.                                                                   *)

(* The lock is free: it passes to the task that has waited longest. *)
Acquire(t) ==
    /\ writer = "nobody" /\ waiting # <<>> /\ Head(waiting) = t
    /\ waiting' = Tail(waiting) /\ writer' = t
    /\ task' = [task EXCEPT ![t].pc = "sending"]
    /\ UNCHANGED <<rows, attempts, room, fold, feed, config, edits, faults>>

Release == writer' = "nobody" /\ attempts' = 0 /\ UNCHANGED waiting

AfterByTarget(rules, t) ==                                         \* faulty variant
    IF task[t].op = "ban" THEN rules \cup {t} ELSE rules \ {t}

After(rules, t) ==
    IF task[t].op = "ban" THEN rules \cup {DomainOf[t]} ELSE rules \ {DomainOf[t]}

Announce(e, present) ==
    /\ Len(feed[e]) < MaxLag
    /\ feed' = [feed EXCEPT ![e] = Append(@, present)]

(* The homeserver applies the state event. *)
Applied(t) ==
    /\ task[t].pc = "sending"
    /\ room' = After(room, t)
    /\ Announce(DomainOf[t], task[t].op = "ban")
    /\ task' = [task EXCEPT ![t].pc = "sent"]
    /\ UNCHANGED <<rows, lock, fold, config, edits, faults>>

(* Its answer reaches the bot, which only now updates the fold. *)
Answered(t) ==
    /\ task[t].pc = "sent"
    /\ fold' = After(fold, t)
    /\ Release
    /\ task' = [task EXCEPT ![t] = AfterWrite(t, fold')]
    /\ UNCHANGED <<rows, room, feed, config, edits, faults>>

(* 429: back off and send again, the lock held. *)
RateLimited(t) ==
    /\ task[t].pc = "sending" /\ attempts < MaxRetries /\ faults < MaxFaults
    /\ attempts' = attempts + 1 /\ faults' = faults + 1
    /\ UNCHANGED <<rows, task, waiting, writer, room, fold, feed, config, edits>>

RefusedIntoFold(t) ==                                              \* faulty variant
    /\ task[t].pc = "sending" /\ faults < MaxFaults
    /\ Release
    /\ fold' = After(fold, t)
    /\ task' = [task EXCEPT ![t] = AfterWrite(t, fold')]
    /\ faults' = faults + 1
    /\ UNCHANGED <<rows, room, feed, config, edits>>

(* Any other answer that refuses the event, or a 429 too many: the fold is   *)
(* left alone and the task goes on as if the write had been made.            *)
Refused(t) ==
    /\ task[t].pc = "sending" /\ faults < MaxFaults
    /\ Release
    /\ task' = [task EXCEPT ![t] = AfterWrite(t, fold)]
    /\ faults' = faults + 1
    /\ UNCHANGED <<rows, room, fold, feed, config, edits>>

ConnectionLostKeepsLock(t) ==                                      \* faulty variant
    /\ task[t].pc \in {"sending", "sent"} /\ faults < MaxFaults
    /\ task' = [task EXCEPT ![t] = Idle]
    /\ faults' = faults + 1
    /\ UNCHANGED <<rows, lock, room, fold, feed, config, edits>>

(* The connection breaks before or after the event was applied: the          *)
(* exception leaves _write through its finally and ends the task.            *)
ConnectionLost(t) ==
    /\ task[t].pc \in {"sending", "sent"} /\ faults < MaxFaults
    /\ Release
    /\ task' = [task EXCEPT ![t] = Idle]
    /\ faults' = faults + 1
    /\ UNCHANGED <<rows, room, fold, feed, config, edits>>

-----------------------------------------------------------------------------
(* note_rule: the sync delivers the changes of a state key in room order,    *)
(* the bot's own among them.                                                 *)
Sync(e) ==
    /\ feed[e] # <<>>
    /\ fold' = IF Head(feed[e]) THEN fold \cup {e} ELSE fold \ {e}
    /\ feed' = [feed EXCEPT ![e] = Tail(@)]
    /\ UNCHANGED <<rows, task, lock, room, config, edits, faults>>

(* Another operator, or another bot, adds or removes a rule. *)
EditRoom(e) ==
    /\ edits < MaxEdits
    /\ room' = IF e \in room THEN room \ {e} ELSE room \cup {e}
    /\ Announce(e, e \notin room)
    /\ edits' = edits + 1
    /\ UNCHANGED <<rows, task, lock, fold, config, faults>>

(* auto_config halts the bot, lifts the halt, or holds or frees a domain. *)
EditConfig ==
    /\ edits < MaxEdits
    /\ \/ halted' = ~halted /\ UNCHANGED hold
       \/ \E d \in Domains :
             /\ hold' = IF d \in hold THEN hold \ {d} ELSE hold \cup {d}
             /\ UNCHANGED halted
    /\ edits' = edits + 1
    /\ UNCHANGED <<rows, task, lock, room, fold, feed, faults>>

(* stop() cancels the tasks, start() reads the rules of the room again. *)
Restart ==
    /\ faults < MaxFaults
    /\ task' = [t \in Targets |-> Idle]
    /\ waiting' = <<>> /\ writer' = "nobody" /\ attempts' = 0
    /\ fold' = room /\ feed' = [e \in Entities |-> <<>>]
    /\ faults' = faults + 1
    /\ UNCHANGED <<rows, room, config, edits>>

-----------------------------------------------------------------------------
WriteStep(t) == Applied(t) \/ Answered(t)
Fault(t)     == RateLimited(t) \/ Refused(t) \/ ConnectionLost(t)

Next ==
    \/ \E t \in Targets :
          \/ \E s \in Statuses : Observe(t, s)
          \/ GrowsStale(t) \/ Reconcile(t) \/ Guard(t) \/ Acquire(t)
          \/ WriteStep(t) \/ Fault(t)
    \/ \E e \in Entities : Sync(e)
    \/ \E e \in Editable : EditRoom(e)
    \/ EditConfig \/ Restart

Spec == Init /\ [][Next]_vars

(* Every target is scanned again and again (RescansRecur of ScanScheduler),  *)
(* with whatever result; tasks and the sync get their turns; the homeserver  *)
(* answers, for the client has a timeout; a row left unknown gets old.       *)
Fairness ==
    /\ \A t \in Targets :
          /\ WF_vars(\E s \in Statuses : Observe(t, s))
          /\ WF_vars(GrowsStale(t)) /\ WF_vars(Reconcile(t)) /\ WF_vars(Guard(t))
          /\ WF_vars(Acquire(t)) /\ WF_vars(WriteStep(t))
    /\ \A e \in Entities : WF_vars(Sync(e))

FairSpec == Spec /\ Fairness

-----------------------------------------------------------------------------
Senders == {t \in Targets : task[t].pc \in {"sending", "sent"}}

(* Whatever way a write ends, the lock passes on: one request is out at a    *)
(* time, it belongs to the holder, and every task that waits is in the       *)
(* queue, once.                                                              *)
LockDiscipline ==
    /\ Senders = IF writer = "nobody" THEN {} ELSE {writer}
    /\ \A t \in Targets :
          Cardinality({i \in 1 .. Len(waiting) : waiting[i] = t})
              = IF task[t].pc = "waiting" THEN 1 ELSE 0

(* A write that took the long way through guard, lock and retries is still   *)
(* justified when it lands by the row of the target it was decided for: a    *)
(* ban by a dangerous status, a removal by a safe one or by stale age. In    *)
(* particular a status no rule maps (unknown) never lifts a ban by itself.   *)
JustifiedWrites ==
    [][\A t \in Targets : Applied(t) =>
          IF task[t].op = "ban"
          THEN Decide(status[t]) = "ban"
          ELSE Decide(status[t]) = "unban" \/ (status[t] = Stale /\ aged[t])]_vars

(* The fold differs from the room only while a change the sync has yet to    *)
(* deliver is about to correct it: a refused or lost write must leave it     *)
(* alone, and a late answer must not undo what was delivered. (For rules     *)
(* that the bot and others do not both edit; see FoldTracksRoom for those.)  *)
FoldIsRecoverable ==
    \A e \in Entities \ {DomainOf[t] : t \in {u \in Targets : DomainOf[u] \in Editable}} :
        (e \in fold) # (e \in room) => feed[e] # <<>>

(* A domain with a dangerous target, not held, not covered by a wildcard and *)
(* with room under the cap, for good.                                        *)
Pinned(d) ==
    /\ DomainHasBan(d) /\ ~halted /\ d \notin hold
    /\ \A g \in Globs : g \in fold \cup room => d \notin Covers[g]
    /\ Cardinality({e \in ((fold \cup room) \cap Domains) \ {d} : Bucket[e] = Bucket[d]}) < Cap

(* The policy list converges: whatever its siblings report and whatever      *)
(* writes failed on the way, such a domain ends up banned and stays so.      *)
DangerousEndsBanned ==
    \A d \in Domains : <>[]Pinned(d) => <>[](d \in room)

(* A domain none of whose targets is dangerous, one of them safe or stale.   *)
Clear(d) ==
    /\ ~halted /\ d \notin hold /\ ~DomainHasBan(d)
    /\ \E t \in Targets : /\ DomainOf[t] = d
                          /\ Decide(status[t]) = "unban" \/ (status[t] = Stale /\ aged[t])

(* And the other way round: a domain that stays clear loses its rule, by the *)
(* unban of a safe target or by the cleanup of a stale one.                  *)
ClearEndsLifted ==
    \A d \in Domains : <>[]Clear(d) => <>[](d \notin room)

-----------------------------------------------------------------------------
(* What comments of policy.py say, and the interleavings refute.             *)

(* reconcile: "No write while halted". A write that was queued behind the    *)
(* lock when the halt came is still begun.                                   *)
NoWriteWhileHalted == [][\A t \in Targets : Acquire(t) => ~halted]_vars

(* auto_config's ban cap: no bot writes a new ban for a target whose         *)
(* registrable domain already holds this many. Two bans decided before       *)
(* either is in the fold both pass.                                          *)
CapHolds ==
    [][\A t \in Targets : Applied(t) /\ task[t].op = "ban" =>
          Cardinality({e \in room \cap Domains : Bucket[e] = Bucket[DomainOf[t]]}) < Cap]_vars

(* note_rule: "Keep the local fold live as OTHER writers change the policy   *)
(* room". With every change delivered and no write in progress the fold is   *)
(* the room.                                                                 *)
FoldTracksRoom ==
    (writer = "nobody" /\ \A e \in Entities : feed[e] = <<>>) => fold = room
=============================================================================
