----------------------------- MODULE Governance -----------------------------
(***************************************************************************)
(* What decides whether the bot may write to the policy room: the rule fold *)
(* and auto_config, read at start and again by the retry loop, then kept    *)
(* live by state events (policy.py, bot.py); and the public suffix list     *)
(* that the ban cap needs, with its holder, cache and refresh loop (psl.py, *)
(* bot.py). Three halt sources, moved by three callers.                     *)
(*                                                                         *)
(* Abstractions. An auto_config event is usable or not, sets a ban cap or   *)
(* not, and asks for a version of the list or not; what else it carries is  *)
(* applied with these. A list is its version. Timers may go off whenever    *)
(* they run. The sync stream carries rule and config changes in room order. *)
(***************************************************************************)
EXTENDS Integers, Sequences

CONSTANTS
    Rules,          \* entities of policy rules
    Editable,       \* those that other operators add or remove
    Contents,       \* auto_config events operators may write
    Vendored,       \* version of the vendored suffix list, or NoList
    MaxVersion,     \* bound: versions of the list that get published
    MaxEdits,       \* bound: edits of the room and publications
    MaxFaults       \* bound: failed reads, fetches, writes and restarts

NoList    == -1     \* holder.current is None; real versions are positive
NoVersion == 0      \* a list whose header carries no parseable VERSION
NoFloor   == 0      \* min_psl_version not set
BadFloor  == -1     \* min_psl_version set and malformed

Content == [kind : {"absent", "invalid", "valid"}, cap : BOOLEAN,
            floor : BadFloor .. MaxVersion]
Absent  == [kind |-> "absent", cap |-> FALSE, floor |-> NoFloor]

ASSUME RulesAssumption == Editable \subseteq Rules
ASSUME ContentsAssumption ==
    /\ Contents \subseteq Content /\ \A c \in Contents : c.kind # "absent"
ASSUME BoundsAssumption ==
    /\ MaxVersion \in Nat /\ MaxEdits \in Nat /\ MaxFaults \in Nat
    /\ Vendored \in NoList .. MaxVersion

VARIABLES
    room,           \* rules of the policy room
    event,          \* its auto_config state event
    feed,           \* changes of the room the sync has yet to deliver
    live,           \* the state handlers are registered
    reader,         \* who reads the room: start() or the retry loop
    fold,           \* _rules
    rulesLoaded,    \* _rules_loaded
    configHalted,   \* _config_halted
    cap,            \* max_bans_per_etld1 is set
    floor,          \* min_psl_version
    pslHalt,        \* _psl_halt_reason: <<>>, or what it mentions
    active,         \* version of the active suffix list
    cached,         \* version in psl_cache
    upstream,       \* version published
    loop,           \* where _psl_refresh_loop is
    wake,           \* _psl_wake
    edits,          \* edits and publications so far
    faults          \* faults so far

world  == <<room, event, feed, edits>>
config == <<configHalted, cap, floor>>
halt   == <<config, pslHalt, wake>>
list   == <<active, cached, upstream, loop>>
vars   == <<world, live, reader, fold, rulesLoaded, halt, list, faults>>

Versions == NoList .. MaxVersion
Greatest(a, b) == IF a >= b THEN a ELSE b

Halted == configHalted \/ ~rulesLoaded \/ pslHalt # <<>>

TypeOK ==
    /\ room \in SUBSET Rules /\ fold \in SUBSET Rules
    /\ event \in Contents \cup {Absent}
    /\ feed \in Seq([rule : Rules, present : BOOLEAN] \cup [content : Contents])
    /\ live \in BOOLEAN /\ rulesLoaded \in BOOLEAN /\ configHalted \in BOOLEAN
    /\ reader \in [pc : {"askRules", "gotRules", "askConfig", "gotConfig",
                         "started", "asleep", "done"},
                   rules : SUBSET Rules, content : Contents \cup {Absent},
                   ok : BOOLEAN]
    /\ cap \in BOOLEAN /\ floor \in NoFloor .. MaxVersion
    /\ pslHalt \in Seq(Versions) /\ wake \in BOOLEAN
    /\ active \in Versions /\ cached \in Versions
    /\ upstream \in 1 .. MaxVersion
    /\ loop \in {"off", "fetching", "persisting", "sleeping"}
    /\ edits \in 0 .. MaxEdits /\ faults \in 0 .. MaxFaults

Asking == [pc |-> "askRules", rules |-> {}, content |-> Absent, ok |-> FALSE]

(* start() up to its first read: a new PolicyManager, and the freshest of    *)
(* the vendored and the cached list.                                         *)
Init ==
    /\ room \in SUBSET Rules /\ event \in Contents \cup {Absent} /\ feed = <<>>
    /\ live = FALSE /\ reader = Asking /\ fold = {} /\ rulesLoaded = FALSE
    /\ configHalted = TRUE /\ cap = FALSE /\ floor = NoFloor /\ pslHalt = <<>>
    /\ cached \in {NoList} \cup 1 .. MaxVersion /\ active = Greatest(Vendored, cached)
    /\ upstream \in 1 .. MaxVersion /\ loop = "off" /\ wake = FALSE
    /\ edits = 0 /\ faults = 0

-----------------------------------------------------------------------------
(* The suffix list halt. Without a cap no list is needed. NoList and         *)
(* NoVersion lie below every floor, NoList below "no floor" too.             *)

Unfit(c, f, a) == c /\ a < f

(* What the reason mentions: the missing version, or the version and floor.  *)
Reason(c, f, a) ==
    IF ~Unfit(c, f, a) THEN <<>> ELSE IF a <= NoVersion THEN <<a>> ELSE <<a, f>>

ReevaluateNever(c, f, a) == UNCHANGED <<pslHalt, wake>>            \* faulty variant

(* reevaluate_psl_floor and _set_psl_halt: a new reason wakes the fetch loop. *)
Reevaluate(c, f, a) ==
    /\ pslHalt' = Reason(c, f, a)
    /\ wake' = (wake \/ (Reason(c, f, a) # <<>> /\ Reason(c, f, a) # pslHalt))

-----------------------------------------------------------------------------
(* _apply_auto_config, with any content. An unusable event halts before it   *)
(* is interpreted; a malformed floor halts after the fields were taken over. *)

Usable(c) == c.kind = "valid" /\ ~(c.floor = BadFloor /\ c.cap)

ApplyRaw(c) ==                                                     \* faulty variant
    /\ configHalted' = ~Usable(c)
    /\ cap' = IF c.kind = "valid" THEN c.cap ELSE cap
    /\ floor' = IF c.kind = "valid" THEN c.floor ELSE floor
    /\ IF Usable(c) THEN Reevaluate(c.cap, c.floor, active) ELSE UNCHANGED <<pslHalt, wake>>

Apply(c) ==
    /\ configHalted' = ~Usable(c)
    /\ cap' = IF c.kind = "valid" THEN c.cap ELSE cap
    /\ floor' = IF c.kind = "valid" THEN Greatest(c.floor, NoFloor) ELSE floor
    /\ IF Usable(c)
       THEN Reevaluate(c.cap, Greatest(c.floor, NoFloor), active)
       ELSE UNCHANGED <<pslHalt, wake>>

-----------------------------------------------------------------------------
(* start() and _governance_retry_loop: load_rules, then refresh_auto_config. *)
(* The homeserver answers from the room as it is; the answer takes time.     *)

AnswerRules ==
    /\ reader.pc = "askRules"
    /\ reader' = [reader EXCEPT !.pc = "gotRules", !.rules = room]
    /\ UNCHANGED <<world, live, fold, rulesLoaded, halt, list, faults>>

LoadRulesMerges ==                                                 \* faulty variant
    /\ reader.pc = "gotRules"
    /\ fold' = fold \cup reader.rules /\ rulesLoaded' = TRUE
    /\ reader' = [Asking EXCEPT !.pc = "askConfig", !.ok = TRUE]
    /\ UNCHANGED <<world, live, halt, list, faults>>

LoadRules ==
    /\ reader.pc = "gotRules"
    /\ fold' = reader.rules /\ rulesLoaded' = TRUE
    /\ reader' = [Asking EXCEPT !.pc = "askConfig", !.ok = TRUE]
    /\ UNCHANGED <<world, live, halt, list, faults>>

RulesUnreadableClears ==                                           \* faulty variant
    /\ reader.pc \in {"askRules", "gotRules"} /\ faults < MaxFaults
    /\ fold' = {} /\ faults' = faults + 1
    /\ reader' = [Asking EXCEPT !.pc = "askConfig"]
    /\ UNCHANGED <<world, live, rulesLoaded, halt, list>>

(* The read fails: halted, the previous fold left intact. *)
RulesUnreadable ==
    /\ reader.pc \in {"askRules", "gotRules"} /\ faults < MaxFaults
    /\ rulesLoaded' = FALSE /\ faults' = faults + 1
    /\ reader' = [Asking EXCEPT !.pc = "askConfig"]
    /\ UNCHANGED <<world, live, fold, halt, list>>

AnswerConfig ==
    /\ reader.pc = "askConfig"
    /\ reader' = [reader EXCEPT !.pc = "gotConfig", !.content = event]
    /\ UNCHANGED <<world, live, fold, rulesLoaded, halt, list, faults>>

(* After the second read start() registers the handlers and goes on to its   *)
(* clocks; the retry loop ends if both reads of one pass succeeded.          *)
Continue(ok) ==
    /\ live' = TRUE
    /\ reader' = [Asking EXCEPT !.ok = ok,
                                !.pc = IF ~live THEN "started"
                                       ELSE IF ok THEN "done" ELSE "asleep"]

ReadOkIfPresent(c) == c.kind # "absent"                            \* faulty variant

(* An absent event is a successful read, which halts. *)
ReadOk(c) == TRUE

RefreshConfig ==
    /\ reader.pc = "gotConfig"
    /\ Apply(reader.content)
    /\ Continue(reader.ok /\ ReadOk(reader.content))
    /\ UNCHANGED <<world, fold, rulesLoaded, list, faults>>

ConfigUnreadable ==
    /\ reader.pc \in {"askConfig", "gotConfig"} /\ faults < MaxFaults
    /\ configHalted' = TRUE /\ faults' = faults + 1
    /\ Continue(FALSE)
    /\ UNCHANGED <<world, fold, rulesLoaded, cap, floor, pslHalt, wake, list>>

Degraded == active = NoList \/ pslHalt # <<>>

(* The clocks start: the retry loop if a read failed, and the refresh loop,  *)
(* which puts off its first fetch only if all is well and the cache fresh.   *)
StartClocks ==
    /\ reader.pc = "started"
    /\ reader' = [reader EXCEPT !.pc = IF reader.ok THEN "done" ELSE "asleep"]
    /\ loop' \in (IF Degraded \/ cached = NoList
                  THEN {"fetching"} ELSE {"fetching", "sleeping"})
    /\ UNCHANGED <<world, live, fold, rulesLoaded, halt, active, cached, upstream, faults>>

Retry ==
    /\ reader.pc = "asleep"
    /\ reader' = Asking
    /\ UNCHANGED <<world, live, fold, rulesLoaded, halt, list, faults>>

-----------------------------------------------------------------------------
(* Other operators edit the room; _on_state_event gets the changes in order, *)
(* once it is registered. What comes before is delivered to nobody.          *)

EditRule(e) ==
    /\ edits < MaxEdits
    /\ room' = IF e \in room THEN room \ {e} ELSE room \cup {e}
    /\ feed' = Append(feed, [rule |-> e, present |-> e \notin room])
    /\ edits' = edits + 1
    /\ UNCHANGED <<event, live, reader, fold, rulesLoaded, halt, list, faults>>

EditConfig(c) ==
    /\ edits < MaxEdits /\ event # c
    /\ event' = c
    /\ feed' = Append(feed, [content |-> c])
    /\ edits' = edits + 1
    /\ UNCHANGED <<room, live, reader, fold, rulesLoaded, halt, list, faults>>

Deliver ==
    /\ feed # <<>>
    /\ feed' = Tail(feed)
    /\ LET change == Head(feed)
       IN  \/ ~live /\ UNCHANGED <<fold, halt>>
           \/ /\ live /\ "rule" \in DOMAIN change
              /\ fold' = IF change.present THEN fold \cup {change.rule}
                                           ELSE fold \ {change.rule}
              /\ UNCHANGED halt
           \/ /\ live /\ "content" \in DOMAIN change
              /\ Apply(change.content)
              /\ UNCHANGED fold
    /\ UNCHANGED <<room, event, edits, live, reader, rulesLoaded, list, faults>>

-----------------------------------------------------------------------------
(* The suffix list: publication, and _psl_refresh_loop.                      *)

Publish(v) ==
    /\ edits < MaxEdits /\ v # upstream
    /\ upstream' = v /\ edits' = edits + 1
    /\ UNCHANGED <<room, event, feed, live, reader, fold, rulesLoaded, halt, active,
                   cached, loop, faults>>

(* adopt: only a strictly newer list replaces the active one. *)
FetchAdopts ==
    /\ loop = "fetching" /\ upstream > active
    /\ active' = upstream /\ loop' = "persisting"
    /\ UNCHANGED <<world, live, reader, fold, rulesLoaded, halt, cached, upstream, faults>>

FetchKeepsClears ==                                                \* faulty variant
    /\ loop = "fetching" /\ upstream <= active
    /\ loop' = "sleeping" /\ wake' = FALSE
    /\ UNCHANGED <<world, live, reader, fold, rulesLoaded, config, pslHalt, active,
                   cached, upstream, faults>>

(* Not modified, or not newer. *)
FetchKeeps ==
    /\ loop = "fetching" /\ upstream <= active
    /\ loop' = "sleeping"
    /\ UNCHANGED <<world, live, reader, fold, rulesLoaded, halt, active, cached,
                   upstream, faults>>

FetchFails ==
    /\ loop = "fetching" /\ faults < MaxFaults
    /\ loop' = "sleeping" /\ faults' = faults + 1
    /\ UNCHANGED <<world, live, reader, fold, rulesLoaded, halt, active, cached, upstream>>

PersistOnly ==                                                     \* faulty variant
    /\ loop = "persisting" /\ loop' = "sleeping" /\ cached' = active
    /\ UNCHANGED <<world, live, reader, fold, rulesLoaded, halt, active, upstream, faults>>

(* put_cached_psl succeeds or is shrugged off; then the floor is looked at.  *)
Persist ==
    /\ loop = "persisting" /\ loop' = "sleeping"
    /\ \/ cached' = active /\ UNCHANGED faults
       \/ faults < MaxFaults /\ faults' = faults + 1 /\ UNCHANGED cached
    /\ Reevaluate(cap, floor, active)
    /\ UNCHANGED <<world, live, reader, fold, rulesLoaded, config, active, upstream>>

TimerExpires ==
    /\ loop = "sleeping" /\ loop' = "fetching"
    /\ UNCHANGED <<world, live, reader, fold, rulesLoaded, halt, active, cached,
                   upstream, faults>>

Woken ==
    /\ loop = "sleeping" /\ wake
    /\ wake' = FALSE /\ loop' = "fetching"
    /\ UNCHANGED <<world, live, reader, fold, rulesLoaded, config, pslHalt, active,
                   cached, upstream, faults>>

(* stop() then start(): everything in memory goes, the cache stays. *)
Restart ==
    /\ faults < MaxFaults /\ faults' = faults + 1
    /\ live' = FALSE /\ reader' = Asking /\ fold' = {} /\ rulesLoaded' = FALSE
    /\ configHalted' = TRUE /\ cap' = FALSE /\ floor' = NoFloor /\ pslHalt' = <<>>
    /\ wake' = FALSE /\ loop' = "off" /\ active' = Greatest(Vendored, cached)
    /\ UNCHANGED <<world, cached, upstream>>

-----------------------------------------------------------------------------
ReadStep  == AnswerRules \/ LoadRules \/ AnswerConfig \/ RefreshConfig
             \/ StartClocks \/ Retry
FetchStep == FetchAdopts \/ FetchKeeps \/ Persist

Next ==
    \/ ReadStep \/ RulesUnreadable \/ ConfigUnreadable
    \/ \E e \in Editable : EditRule(e)
    \/ \E c \in Contents : EditConfig(c)
    \/ Deliver
    \/ \E v \in 1 .. MaxVersion : Publish(v)
    \/ FetchStep \/ FetchFails \/ TimerExpires \/ Woken
    \/ Restart

Spec == Init /\ [][Next]_vars

(* The reads and the fetches have timeouts, sleeps end, the sync delivers.   *)
Fairness == /\ WF_vars(ReadStep) /\ WF_vars(FetchStep)
            /\ WF_vars(TimerExpires) /\ WF_vars(Deliver)

FairSpec == Spec /\ Fairness

-----------------------------------------------------------------------------
(* Whoever moved last, an event, a read or an adopted list: the bot writes   *)
(* only with a usable configuration whose cap the active list can enforce,   *)
(* and over a fold that has every rule nobody touched since it was read.     *)
(* Fixing one halt source never lifts another.                               *)
WritesAreSafe ==
    ~Halted => /\ ~Unfit(cap, floor, active)
               /\ \A e \in Rules \ Editable : (e \in fold) = (e \in room)

(* And it is not halted without need: under a usable configuration the       *)
(* suffix list halt is engaged exactly while the active list is unfit, but   *)
(* for the moment between the adoption of a list and its caching.            *)
FloorHaltExact ==
    ~configHalted /\ loop # "persisting" =>
        (pslHalt # <<>>) = Unfit(cap, floor, active)

(* However the reads and the live events fell, the retry loop ends.          *)
ResyncEnds == <>[](reader.pc = "done")

(* A bot halted by the floor un-halts by itself once a fit list is           *)
(* published: no operator has to poke it.                                    *)
FloorHeals ==
    <>[](rulesLoaded /\ ~configHalted /\ upstream >= floor) => <>[]~Halted

(* The state of the bot is that of the room. *)
Current ==
    /\ fold = room
    /\ configHalted = ~Usable(event)
    /\ Usable(event) => cap = event.cap /\ floor = Greatest(event.floor, NoFloor)

(* What _governance_retry_loop says: once both reads succeed, the live       *)
(* handler keeps both current. An edit between an answer and its use, or     *)
(* between the reads of start() and the registration, is lost.               *)
StaysCurrent == reader.pc = "done" /\ feed = <<>> => Current
=============================================================================
