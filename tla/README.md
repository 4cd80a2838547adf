# TLA+ model of the open-registration scanner

Formal models of the bot in `src/bot/csreg_scanner/`, model-checked with TLC and, where it
says so, proved with TLAPS. `PROJECT.json` lists the components, the runs, the source lines
each definition stands for, the hazards the properties are aimed at, and the theorems.

## The system

The bot is one Python process on one asyncio event loop: code between two `await`s is
atomic, and everything interesting happens between coroutines that resume in any order.

| Component | State | Operations | Talks to |
| --- | --- | --- | --- |
| Ingress (`sources.py`, webhook in `bot.py`) | none that lasts | fetch, clean, hand over a batch | tables |
| Scan tables (`db.py`) | `scan_queue` (target, lease), `scanned` (status, clocks, counters, versions) | enqueue, pending, most_overdue, record_scan, statuses_for_domain | everything |
| Scan pipeline (`bot.py`) | `_inflight`, `_rescan_credit`, the two tick coroutines, scan tasks | scan tick, rescan tick, launch, task end | tables, checker, policy writer |
| Registration checker (`regcheck.py`, `fedversion.py`, `supportinfo.py`) | none across scans | resolve, probe, classify, version, support, under one budget | remote servers |
| Policy writer (`policy.py`) | rule fold `_rules`, `_write_lock`, throttle clock | reconcile, consider_stale_cleanup, _write, note_rule | policy room, tables |
| Governance (`policy.py`, `bot.py`) | auto_config fields, three halt sources, retry loop | load_rules, refresh_auto_config, live events, floor re-evaluation | policy room, suffix list |
| Public suffix list (`psl.py`, `pslfetch.py`, `bot.py`) | active list, cached blob, wake event, backoff | adopt, fetch, refresh loop, etld1 | database, publicsuffix.org |
| Server names (`util.py`, `resolver.py`) | none | validate, strip the port, parse, tell an address | ingress, checker, policy writer |
| Resolution (`resolver.py`) | none across scans | well-known, SRV, candidates in order | DNS, remote servers |
| Lifecycle (`bot.py`) | tasks, sessions, sockets, handlers | start, stop, reload | everything |
| Metrics, calculator, CLI | none | read-only views | tables |

Hard behaviours: gates evaluated before an `await` and used after it; leases that expire
under slow scans; tasks that raise; restarts at any point; answers that come after newer
events; a lock held over retries; halts that arrive while a write is queued.

What makes each component correct, in one line each:

* scan pipeline: no target scanned twice at once, no target forgotten, bounded concurrency,
  paid-for rescans, nothing starves;
* policy writer: one write at a time, every write justified by the current row of its
  target, the fold converges to the room, the room converges to what the scans say;
* governance: no halt source clears another, the applied configuration is the room's;
* suffix list: monotone, halts below its floor, wakes when the floor moves;
* scan rows: a failure never changes a status or its age, versions are overwritten only by
  authoritative answers;
* checker: classification has priority over the other phases and never exceeds the budget;
* server names: whoever takes a name apart gets the same host, or a scan and the rule that
  follows from it are about different servers;
* resolution: the endpoints of the Matrix specification, whatever is lost on the way;
* lifecycle: one runtime at a time, nothing opened is lost, a good configuration repairs a
  bad one.

## Modules

| Module | What it is |
| --- | --- |
| `ScanRegistry` | abstract: what the pipeline promises about a name (heard, queued, scanned; scanned by at most one task) |
| `ScanScheduler` | the pipeline: tables, ticks, in-flight table, credit, tasks, faults; refines `ScanRegistry` |
| `MCScanScheduler` | `ScanScheduler` with the history variable `moved`, for `NoDueRowMasked` |
| `ScanSchedulerProofs` | theorems and proofs about `ScanScheduler` and `MCScanScheduler` |
| `PolicyWriter` | reconcile, cleanup, write lock, homeserver, sync, other operators |
| `MCPolicyWriter` | small instances of `PolicyWriter` |
| `PolicyWriterProofs` | theorems and proofs about `PolicyWriter` |
| `Governance` | the three halt sources, governance reads and live events, the suffix list loop |
| `MCGovernance` | `Governance` with history variables: an edit during a read, the halt last fetched for |
| `GovernanceProofs` | theorems and proofs about `Governance` and `MCGovernance` |
| `ScanJob` | one scan from the first request to the stored row: ladder, version walk, support document, budget, `record_scan` |
| `MCScanJob` | `ScanJob` on seven servers, with history variables: anything lost, what past scans found |
| `ScanJobProofs` | theorems and proofs about `ScanJob` and `MCScanJob` |
| `Lifecycle` | start, stop and reload over every resource of the plugin |
| `LifecycleProofs` | theorems and proofs about `Lifecycle` |
| `SuffixList` | lookup, validation, and the list in use over fetches, restarts and upgrades |
| `SuffixListProofs` | theorems and proofs about `SuffixList` |
| `ServerNames` | the four readers of a server name |
| `Resolution` | `resolve_candidates` under every answer; uses `ServerNames` |
| `ResolutionProofs` | theorems and proofs about `ServerNames` and `Resolution` |
| `MCParts` | `Lifecycle`, `SuffixList` and `Resolution` on small instances, side by side |
| `PartsProofs` | what is proved of the three carries over to `MCParts` |

### ScanScheduler

State: `queue` is `scan_queue` (no row, free row, leased row); `scanned` and `older` are the
rows of `scanned` and the order of their `last_scan_at`; `inflight` is the keys of
`_inflight`; `probing`, `settling`, `ended` count the tasks of a target before the terminal
write, after it, and finished with the done-callback still to run. They are counters, not
flags, so that a second task of a target is something the model can express. `credit` is
`_rescan_credit` in fractions of one rescan; `scanTick` and `rescanTick` hold the locals of
the two coroutines over their awaits.

One action per stretch of code between awaits: `ScanAdmit` (gate), `ScanClaim`
(`db.pending`), `ScanLaunch`; `RescanCount` (`bucket_counts`), `RescanMeter` (accrual, clamp
and gate), `RescanQuery` (`most_overdue`), `RescanLaunch`; `Record` (`record_scan`),
`ScanRaises`, `Settle`, `ScanDone`; `Ingest`, `LeaseExpires`, `Restart`, and the ticks'
except branches. Time appears by its effects: a lease may expire at any moment after the
claim (more often than the code allows, so what holds does not depend on the slack of 30 s),
and the ranking of `most_overdue` is the order of the last recorded scans, which is what the
ratio is when every status has the same staleness. Whole-second ties are not modelled.

### PolicyWriter

State: the part of each row that policy reads (`status`, `aged`), where each scan task is
(`task`), the asyncio lock (`waiting`, `writer`, `attempts`), the policy room, the fold, the
changes of each state key the sync has still to deliver (`feed`), the halt predicate and the
hold list. `Observe` is the terminal write of a scan that succeeded as a task; a failed scan
keeps the row and skips policy, so it changes nothing here. `Reconcile` and `Guard` are the
code up to the next real pause; a free lock nobody waits for is taken without one, as
`asyncio.Lock` does. `Applied` is the homeserver's half of a write and `Answered` the bot's;
`Sync`, `EditRoom` and `EditConfig` run in between. `Refused`, `RateLimited` and
`ConnectionLost` are the three ways a request fails.

### Governance

State: the policy room as the homeserver has it (`room`, `event`) and what the sync has
still to deliver (`feed`); the bot's fold and the three sources of `halted`
(`configHalted`, `rulesLoaded`, `pslHalt`, the last as what the reason mentions, because a
changed reason wakes the fetch loop); the cap and the floor of the last event; the suffix
list as versions (`active`, `cached`, `upstream`), where `_psl_refresh_loop` is (`loop`) and
its event (`wake`). `reader` is whoever reads the room: `start()` first, then
`_governance_retry_loop`; a read is two steps, the homeserver's answer and the bot's use of
it. `Apply` is `_apply_auto_config` with every early return: an unusable event changes
nothing but the halt, a malformed floor halts after cap and floor were taken over.
`Deliver` is `_on_state_event`; before the registration (`live`) a change goes to nobody.
`Restart` is `stop()` and `start()` at any point. Sleeps have no length: a timer may go off
whenever it runs, so the backoff ladder of the loop is not modelled, and of the cache's age
only that it is fresh or not. `psl_auto_update` is on; without it there is no loop and
`FloorHeals` does not apply.

### ScanJob

State: `pc` is the request being awaited, `server` what the remote end would answer to each,
`elapsed` and `deadline` the clock of the `wait_for` around the current phase, `probe` the
locals of `classify` and of the version walk, `result` the three results, `row` the columns
of `scanned` and `support` whether a document is stored. Each request is an action that
either gets the server's answer or loses it, whatever the cause, because the code maps every
cause to the same value: `FetchWellKnown`, `ProbeRegister`, `FetchMetadata` (two paths, one
answer), `Resolve`, `TryCandidate`, `FetchSupport`. `Ladder` and `Classified` are the early
returns of `classify` and the phase changes of `scan`; `TimeOut` is each `wait_for` giving
up. `Record` is `record_scan` with the task's decision to write a document or not. Budgets
are compared as the code does, so a phase with nothing left is skipped.

Abstractions: a server stands still during one scan and is another one in the next; a stage
is verifying, harmless, unfamiliar or malformed (not a string), and a flow is the set of its
stages; a timestamp is the number of its write, so that columns can be compared with the
history; a name that does not parse does not get past the cleaning of the ingress.
`ClassifyCatches` is an exception in a step of `classify`, which it turns into `unknown`;
`ClassifyRaises` is the branch of `scan` for an exception that gets past that, which the code
has no way to raise: it is the only scan with `ok` false, and is kept because `record_scan`
has a branch for it.

The history variable `lossy` of `MCScanJob` is set next to each action, from the parameter
bound for it: a request with `lost`, an exception and a `wait_for` that gives up set it, the
start and the end of a scan clear it. `MCNext` implies `Next` (`MCTyped` proves it), and each
of the five statuses is reached by scans with `lossy` false.

### Lifecycle

State: the configuration as last edited, what every attribute of the plugin refers to
(`held`) and what is really open (`open`), both as sets of generations, one generation per
`start()`; `place` is the await at which each call of `on_external_config_update` stands.
Open and held differ where the code loses a reference, and that is the hazard: what is in no
attribute can never be closed again. `Edit` is the start of a reload, `Gathered`,
`ClosePool`, `StopListener`, `StopListenerRaises`, `CloseProbe`, `CloseSession` are the
sequence of `stop()`, in the order of the code, with the two places where it can raise;
`BeginStart`, `Construct`, `Register`, `Connect`, `Launch`, `BindFails` are `start()` with
one fault for each stretch of it in which a configuration makes it raise (a batch limit that
is no number fails where a blacklist that does not parse does, a path of the metrics that is
none where a taken port does), and `TearDown` is the second `stop()` after
a `start()` that failed. A configuration is reduced to what is wrong with it and whether it
has a metrics listener. The stretches between two awaits are urgent: no other call runs in
between. Calls may overlap, since nothing in the code serialises them; the history variables
`raised`, `dropped` and `overlapped` say which of the three ways out of the guarantees was
taken.

### SuffixList

State: the list in use (`active`, the holder), the row of `psl_cache` (`cached`), whether the
process is down, up or between an adoption and its write, and as history the newest version
ever saved and whether the row was damaged or not read. A name is the sequence of its labels
from the top-level domain down, so a suffix of the name is a prefix here. `Load` is the
parsing into the three kinds of rule and the known top-level domains, `SuffixLen` and
`Etld1` are the lookup in the order the code tries it, `Valid` is `validate_psl_text`
(markers, stamp, the sentinel lookups). `StartProcess` is `_load_psl_local` with a vendored
copy of any version, with no stamp or none at all; `Refresh` a fetch, of the body that is
published or of one that a proxy cut, filtered or stripped of its stamp (`Offered`);
`PutCached` the write that follows, or its failure; `DamageRow` an edit by hand. The refresh
loop and its wake-up are in `Governance`, which takes lists as versions.

### ServerNames and Resolution

A name is a sequence of brackets, colons and chunks, and the chunks are the classes of text
that any of the four readers tells apart (a DNS name, dotted quads with and without leading
zeros or octets that are too big, IPv6 addresses with and without a scope, a port, the number
0, numbers above 65535, junk).
`ValidServerName`, `StripPort`, `IsIpLiteral` and `ParseName` are the four functions on it.

In `Resolution`, `Resolve` starts with a name that the ingress let through, `Delegate` and
`NoDelegation` are the answers of the well-known, `QuerySrv` an SRV answer (a lost one has no
records), `PickRecord` one draw of the weighted choice (every record a draw can fall on is a
choice), `Answer` what is done with the ordered records. The history variable `answered` is
what the network said; `FollowsSpec` computes the endpoints from it by the rules of the
Matrix specification and compares. A record's target stands for its host and port.

### MCParts

`Lifecycle`, `SuffixList` and `Resolution` share no state and call each other nowhere, so a
behaviour of `MCParts` is a behaviour of one of them, with the other two at rest: what is
checked is each part by itself, not their product.

## Runs

| Run | Shows |
| --- | --- |
| `scan_slots` | 4 targets, limits 1+1: the in-flight bound is exact (3, not 2), rescans stay paid for, no due row is hidden by slow ones |
| `scan_faults` | 3 targets, one exception or restart anywhere, leases expiring: single scans, tracking, table agreement, refinement of `ScanRegistry`, queue and rescan progress |
| `policy_lists` | 2 targets of one domain, a covering wildcard and a neighbour edited by others, halts, holds, one failed request or restart: lock, justification, fold, convergence both ways |
| `policy_halted` | violation: a write begun after the halt |
| `policy_cap` | violation: two bans through a cap of one |
| `policy_fold` | violation: a late answer overwrites a newer change |
| `governance` | 2 rules, 4 kinds of auto_config event, 3 states of the list, two edits and two faults anywhere: the halts, staleness only by a race, no lost wake-up, the retry loop ends, a floor halt heals |
| `governance_stale` | violation: an edit during the reads of `start()` is lost |
| `scan_job` | 7 servers, any request lost, any step raising, any phase out of time, up to 3 scans with restarts: one budget, no status made up, the truth when nothing is lost, the row equals its history, every scan ends |
| `scan_doubt` | violation: a lost register probe lets an OAuth announcement decide |
| `parts` | lifecycle: two edits by two calls that may overlap, every fault of a configuration, every raise of `stop()`; suffix list: three versions over fetches, cuts, stale mirrors, restarts, upgrades and a damaged row; names and resolution: every shape of a name under every answer |
| `lifecycle_rebuild` | violation: a `stop()` that raises before the listener is closed keeps the port, and no later `start()` succeeds |

Bounds. `Targets` of four lets `scan_slots` reach the overshoot (both gates counting one
slot twice) with a target left to overshoot the proved bound if a gate were missing; three
suffice for the rest, since one is queued, one scanned and one in flight. Batch limits of 1 give a ceiling
of 2; two units of credit per rescan make the floor matter. `MaxFaults = 1` puts one fault
at every point. In `policy_lists` two targets of one domain are what the sibling guard and
the lock contention need, `Cap = 1` lets the neighbour's rule fill the cap, `MaxLag = 2`
lets an echo and an edit be outstanding together, and two edits halt and resume.
In `governance` one rule that is edited and one that is not suffice for the fold, since the
rules do not interact; versions 1 and 2 with a floor of 2 give a list below, at and, with
none at all, under every floor; two edits let one supersede the other in a read or a fetch;
two faults let a read fail in one pass and again, or a restart, in the next.

In `scan_job` the servers are chosen so that each rung of the ladder decides for one of them
and disagrees with the next rung, a delegated base URL answers otherwise than the origin, one
server has a flow of malformed stages only, and the version walk meets a dead, a junk and a null endpoint first; a budget of 2 lets each of
the three phases be the one that is cut short and the one that is skipped; three writes let
a status change and change back with a failure in between.

In `parts`, two reloads can overlap, or follow one another with the second repairing what the
first left; `lifecycle_rebuild` needs three edits by one caller, to lose the listener, to
fail, and to fail again. The three published lists differ by a wildcard, by a rule for a
top-level domain that was known through longer rules only, and by a new top-level domain; the
names have every kind of rule above them with no, one and more labels below. The raw names
are every chunk in every shape the grammar tells apart: bare, bracketed, with a port, with a
bracket or a colon astray, with a colon too many; the SRV answers have no record, none usable,
equal records, two priorities, and a zero weight between others. The two callers are
interchangeable, and TLC takes states that differ by their names for one.

Violation runs quote the comment they refute in `PROJECT.json`, under "findings".

### Fairness

`ScanScheduler`: the two loops tick for ever and a task ends, because each `except` in the
loops continues, and every phase of a scan is under a timeout; a lease expires with the
clock. No fairness is assumed of sources or faults, and none that a tick finds a free slot:
`QueueDrains` and `RescansRecur` state it as their premise, since under saturation the code
promises nothing else. `PolicyWriter`: every target is scanned again and again, tasks and
the sync take their turns, the homeserver answers or the client times out, and a row that
stays unknown gets old. `Governance`: the reads and fetches have timeouts, sleeps end, the
sync delivers; operators, publications and faults are not fair, and `FloorHeals` has as its
premise that the configuration stays usable and a fit list published. `ScanJob`: the clock runs, timers
fire, the database answers; that any server ever answers is not assumed. Lock hand-over is
fair because `asyncio.Lock` is first come, first served. `Lifecycle`, `SuffixList` and
`Resolution` have safety properties only and assume no fairness: when an operator edits, or
whether a mirror or a server answers, is not in the code's hands.

## Proofs

`ScanSchedulerProofs` proves, for every finite set of targets, all limits, all accruals and
any number of faults (assumptions `TargetsAssumption` and `LimitsAssumption`, nothing else):

* `TypeCorrect` and `RescansAuthorized`, from one inductive invariant: the credit stays in
  its range only because the take of a tick in progress is covered by it over the await;
* `NoDuplicates`, `TasksTracked`, `TablesConsistent`, from `TaskInv`: a launch is safe
  because a target outside `_inflight` has no task in any phase, and because what a tick
  holds over an await is still known to the tables when it launches;
* `InflightBounded`, from `SlotInv`: each gate leaves room for its own take, and when both
  are passed the room is counted twice, once too often by at most one take;
* `NothingMasked` (`NoDueRowMasked`), from `MaskInv`: what is in flight and has not moved
  since the gate is no more than the query was over-fetched by, so a tick that launches less
  than its take cannot have been stopped by slow targets ahead of due ones;
* `ImplementsRegistry`: the initial state maps to an initial state and every step to a step
  of `ScanRegistry` or a stutter.

`PolicyWriterProofs` proves, for every set of targets, domains and wildcards, every decision
map and cap, any number of edits and faults (assumptions `SetsAssumption`,
`BoundsAssumption`):

* `TypeCorrect`;
* `LockPasses`, from `LockInv`: the sender is the holder, the queue holds exactly the waiting
  tasks and holds none twice, which is what lets the head leave it without a trace;
* `WritesJustified`, from `JustInv`: what a task carries from its decision to the homeserver
  stays justified because its row can change only by a scan of the same target, which has to
  wait for the task to end, and by growing older; that the head of the queue is such a task is
  `LockInv` again. This rests on a target having one task, which is `NoDuplicates` above;
* `FoldRecovers` (`FoldIsRecoverable`), from its own `FoldInv`: the last undelivered change of
  a rule is its state in the room, a rule with none is in the fold as in the room, and a write
  that was sent and not yet answered agrees with the room unless another change came after
  it. The domains that other operators edit are left out, since for them it is false: that is
  the finding of `policy_fold`.

`GovernanceProofs` proves, for all rules, events and versions and any number of edits and
faults (assumptions `RulesAssumption`, `ContentsAssumption`, `BoundsAssumption`):

* `TypeCorrect`;
* `WritesSafe` and `FloorHalts`, from `HaltInv`: while an adopted list is being cached the
  reason on record is the old list's, so the invariant keeps, beside the exact reason
  outside that window (`FloorInv`), that no reason means a fit list, which survives because
  adoption only raises the version; the fold is right about untouched rules because the
  answer a reader holds is, and because the sync delivers only edits (`FoldInv`); that the
  loop is not running when `start()` creates it is `LoopInv`.

and of `MCGovernance`, from the same assumptions:

* `StaleNeedsARace` (`StaleOnlyByRace`), from `StaleInv`: the last undelivered change of a
  rule, or of the event, is what the room has; a rule or event with none is held right once
  a pass has read it without an edit in between; and before the handlers are registered,
  where changes are dropped, any edit after the first answer counts as a race;
* `HaltsAreChased` (`HaltIsChased`), from `ChaseInv`, which says the same of a loop that
  fetches or persists.

`ScanJobProofs` proves, for every set of servers, every budget and any number of scans
(assumptions `ServersAssumption`, `BudgetAssumption`):

* `TypeCorrect`, from `RoomToWrite`: a scan that has not written has room for its write;
* `BudgetRespected`, from `BudgetInv`: every deadline given to a `wait_for` is within the
  budget, because it is what is used plus what remains;
* `StatusWitnessed` (`DefiniteIsWitnessed`), from `WitnessInv`: what the ladder carries from
  rung to rung (base URL, issuer, verdict of the register probe) was said by the server being
  scanned, and the phases after the classification leave the status alone. It is stated with
  the exception for malformed stages, see "Noted on the way".

and of `MCScanJob`, from the same assumptions:

* `RowSumsUpHistory` (`RowIsHistory`), from `HistoryInv`: the row is a function of the log of
  the writes, column by column, though each write computes it from the row before; the date
  of the status needs the fact that the status of the row is that of the last success;
* `CleanScansTrue` (`CleanScanIsTrue`), from `CleanInv`: what a scan without a loss knows at
  each rung of the ladder is what the server would answer, and the walk has passed dead
  endpoints only. A step of `MCNext` that leaves `lossy` false is a request with `lost` false,
  the clock, or the start or end of a scan.

`LifecycleProofs` proves, for any number of callers and edits (`LifecycleAssumption`):

* `RuntimeIsOne` (`OneRuntime`) and `OrphansNeedAnError` (`OrphansOnlyByError`), from
  `RuntimeInv`: without overlaps one call is under way at most (`Alone`), what is open is held
  but for what the two errors lost (`HeldInv`), what `stop()` has passed is closed
  (`StopInv`), and the loops it cancels are the ones that run (`Cancels`, `Single`);
* `CleanReloads` (`ReloadsAreClean`), from `CleanInv`: a `start()` builds one generation over
  nothing (`BuildsOne`), fails only for a configuration that cannot be loaded
  (`FailsForCause`), and idle means settled (`Settled`).

`SuffixListProofs` proves, for every set of names and every sequence of published lists in
which versions count up and an exception has two labels at least (`PublishedAssumption`):

* `BucketsAreStandard` (`BucketsMatchStandard`), from `LookupIsStandard`: the lookup over
  three sets and the definition rule by rule agree, because the longest of the prefixes that
  match is the length of the longest rule that applies;
* `AdditionsAreSafe` (`AdditionsOnlySplit`), from `AdditionsSplit`: two names with the same
  registrable domain in the newer list share a prefix that is at least as long as the suffix
  of the older;
* `NeverDowngraded` (`NoQuietDowngrade`), from `SavedInv`: as long as the row is intact and
  read it is the newest saved list and valid, so every start begins at least there.

* `AdoptedWhole` (`AdoptedIcannWhole`), from `PassedInv`: what is in use is a published list
  or a valid body that a mirror made of one. A body cut in its ICANN section has no private
  marker; one without a section fails a sentinel, because a name of three labels is its own
  registrable domain only by a rule of two labels or more (`OwnBucketNeedsRule`). This needs
  what `psl.py:60-72` takes for granted of the sentinels, that each is decided by the section
  it is named for: no private rule of two labels or more applies to `b.test.ck`, and no such
  ICANN rule to `foo.github.io` (`SentinelsAssumption`). Of a published list that breaks this
  the theorem says nothing, and a filtered copy of it could pass. TLC evaluates the assumption
  on the lists of the instance. (`SentinelNames` states that the names are sequences of
  labels: the provers do not know a literal for a STRING.)

`ResolutionProofs` proves, for every set of names over the tokens, every delegation and
every answer to an SRV query (`ResolutionAssumption`: names are sequences of tokens, an
empty `m.server` is no delegation, answers are sequences of records):

* `ResolutionTyped` and `ReadAlike` (`NamesAgree`), from `TypedInv` and `ValidNamesAgree`,
  which goes through the shapes of a valid name: in brackets, with a port, without one; a
  search starts with such a name only, and what it parses stays a name that has not raised;
* `PicksAreWeighted`, from `PickableIsDue`: the running sum of `_weighted_pick_index` grows
  exactly at the foremost records that have a weight, so the pick falls on each of these and
  on no other, and if there are none on any. The trailing `return` (`resolver.py:516`) is never
  needed for a pick below the total, and a walk never stands before records it cannot pick
  from;
* `TriedInOrder` (`OrderIsRfc2782`), from `OrderInv`: beside the order of what has been
  picked, nothing picked may stand behind anything that is left (`Precedes`), and the counts of
  a record in the two add up to its count in the answer, which is about positions
  (`CountOfWithout` is a bijection between them) because records may be equal;
* `SearchFollowsSpec` (`FollowsSpec`), from `SearchInv`: while services are asked, the name is
  the one the answers so far lead to (`Base`, `Via`), it is neither an address nor has a port,
  the services before the current one offered nothing, and the records in order and left are
  those of the current one. Then each way the search can end fits the specification
  (`DirectFits`, `RecordsFit`, `PlainFits`).

`PartsProofs` proves that `MCParts` implements `Lifecycle`, `SuffixList` and `Resolution`
(`PartsImplement`), and with that `PartsTyped` (`PartsTypeOK`), from the assumptions of the
three.

`LifecycleTyped`, `ListTyped`, `ResolutionTyped` and `TypeCorrect` are the type invariants.

Two definitions of `Resolution` are recursive functions: the running sum and the walk over
the records. That they have the values of their recursion is proved (`UptoSums`,
`UsableKeeps`) by induction over the numbers up to a length. The library's induction and
recursion theorems take operators, which the provers here cannot instantiate; `Induction`
and `Recursion` state the same for a set and for a function, and follow from the
well-foundedness of the naturals.

Only model-checked is liveness (`QueueDrains`, `RescansRecur`, `DangerousEndsBanned`,
`ClearEndsLifted`, `ResyncEnds`, `FloorHeals`, `ScanEnds`): with ENABLED it is out of the
provers' reach. Every other property of a passing run is the subject of a theorem.

## Noted on the way

Beside the findings in `PROJECT.json`, places where the code and what is said of it differ,
or where a property had to be stated with an exception:

* `_max_inflight` is exceeded by one batch when both ticks count the same free slot
  (`InflightBound` is the bound that holds).
* `_flow_classification` drops the stages that are no strings before it looks at the rest
  (`regcheck.py:123`), so a flow such as `{"stages": [42]}` counts as empty and makes a server
  `dangerously_open`. The docstrings promise a definite status "ONLY when a well-formed
  response unambiguously warrants it" (`regcheck.py:14-17`) and that "Only flows we can affirm
  are frictionless (empty, or exclusively dummy/terms) reach dangerously_open"
  (`regcheck.py:118-119`). `DefiniteIsWitnessed` excepts such flows: of a flow without
  malformed stages it says what the docstrings do. Run with `flow \subseteq {"harmless"}` in
  its place in `Witnessed`, `scan_job` fails on the server of `MCServers` that has such a flow.
* The address test of `util.py` and `resolver.parse_name` do not agree, as `util.py:59-60`
  says, on a dotted quad with a leading zero: an address to the rules, a DNS name to the
  resolver (`NamesAgree` excepts it).
* A list that is cut in its private section after the rule of the last sentinel is valid;
  the comment at `psl.py:60-61` says a truncated body fails a sentinel. `AdoptedIcannWhole`
  says what is still true: the ICANN section is whole.
* Only `PSLValidationError` is caught around the cached row (`bot.py:496`); a rule that cannot
  be encoded raises `UnicodeError` out of `start()`.
* A postgres source that has connected and is then dropped for its interval leaves its pool
  open (`bot.py:396-403`; `dropped` in `Lifecycle`).
* Overlapping calls of `on_external_config_update` (`bot.py:778`) are serialised by nothing;
  `OneRuntime` does not hold of them and is stated without them.
* A start that cannot read the row begins from the vendored list, and a fetch from a stale
  mirror may then be written over a newer row (`lost` in `SuffixList`).
* `consider_stale_cleanup` is said to return True only when a removal was written
  (`policy.py:1085`) and returns True as well when `_write` gave up (`policy.py:1143`); the
  next rescan derives the removal again.

## What is left

* `ScanScheduler` and `PolicyWriter` composed: `PolicyWriter` assumes that a target has one
  task at a time, which is `NoDuplicateScan`, and is scanned again and again, which is
  `RescansRecur`; the two are joined by those properties and not by a module: `policy_lists`
  alone has 260 000 states, which the composition would multiply by those of the pipeline.
* A decision map that bans `unknown`, under which a stale target blocks its own cleanup
  (`policy.py:1136`), and an enqueue that overlaps a terminal write on Postgres
  (`db.py:316`): both are listed as hazards without a property.

Not modelled:

* the connection target filter (`ipfilter.py`): a stateless predicate on addresses. That its
  configuration may not parse is in `Lifecycle`;
* the rendering of metrics and their snapshots (`metrics.py`), the calculator page
  (`web/calc.html`): read-only views. The listener is a resource in `Lifecycle`;
* the command line checker (`regcheck_cli.py`) and the client resolver it displays: a
  sequential front end that keeps no state;
* configuration keys and log context (`config.py`, `logcontext.py`);
* the text format of the suffix list and the encoding of its labels, the formats of the
  sources, the authentication of the webhook, the schema migrations;
* the HTTP clients: a request is answered or lost.
