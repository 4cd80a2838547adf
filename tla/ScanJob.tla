------------------------------ MODULE ScanJob ------------------------------
(***************************************************************************)
(* One scan of one target, from the first request to the stored row: the    *)
(* registration ladder, the version probe and the support document under    *)
(* one budget (regcheck.py, fedversion.py, supportinfo.py), and the         *)
(* terminal write (db.py), over a series of scans of a server that changes. *)
(*                                                                         *)
(* Abstractions. A stage of a registration flow verifies, is harmless, is   *)
(* unfamiliar, or is malformed (not a string); a version document is junk,  *)
(* the reported null, or a value. Any request may be lost: a broken         *)
(* connection, its own timeout, a challenge of a proxy, an oversize body.   *)
(* The server stands still during one scan. Time is the part of the budget  *)
(* used up; timestamps are the numbers of the writes.                       *)
(***************************************************************************)
EXTENDS Integers, Sequences

CONSTANTS
    Servers,        \* what the server of the target may be, see Server
    Budget,         \* Scanner.timeout
    FetchesSupport, \* scanner.fetch_support
    MaxScans        \* bound: terminal writes

Stages   == {"verifying", "harmless", "unfamiliar", "malformed"}
Bases    == {"origin", "delegate"}
Verdicts == {"dangerously_open", "open", "closed", "none"}
Statuses == {"dangerously_open", "oauth", "open", "closed", "unknown"}
Versions == {"null", "v1", "v2"}

(* A server: its client well-known (a base URL elsewhere, an OAuth issuer),  *)
(* what /register and auth_metadata say at each base URL, the federation     *)
(* endpoints in the order to try them, with and without what the resolution  *)
(* may miss, and whether it has a support document.                          *)
Server ==
    [delegates : BOOLEAN, issuer : BOOLEAN,
     register  : [Bases -> [code : {"challenge", "forbidden", "other"},
                            flows : SUBSET SUBSET Stages]],
     metadata  : [Bases -> BOOLEAN],
     found : Seq({"dead", "junk"} \cup Versions),
     plain : Seq({"dead", "junk"} \cup Versions),
     support : BOOLEAN]

(* resolve_candidates always has an endpoint to offer. *)
ASSUME ServersAssumption ==
    Servers \subseteq Server /\ \A s \in Servers : s.found # <<>> /\ s.plain # <<>>
ASSUME BudgetAssumption ==
    Budget \in Nat /\ MaxScans \in Nat /\ FetchesSupport \in BOOLEAN

VARIABLES
    pc,             \* the await of Scanner.scan or _scan_one, or "idle"
    server,         \* the server being scanned
    elapsed,        \* budget used up
    deadline,       \* of the current wait_for
    probe,          \* locals of classify and of the version probe
    result,         \* the three results
    row,            \* row of scanned, or NoRow
    support         \* there is a row in support_info

job  == <<pc, server, elapsed, deadline, probe, result>>
vars == <<job, row, support>>

NoRow    == [count |-> 0]
NoProbe  == [base |-> "origin", issuer |-> FALSE, legacy |-> "none", left |-> <<>>]
NoResult == [ok |-> FALSE, status |-> "unknown", fed |-> "nosignal", doc |-> FALSE]

Classifying == {"wellKnown", "register", "metadata"}
Versioning  == {"resolve", "candidate"}
Waiting     == Classifying \cup Versioning \cup {"support"}

Probe  == [base : Bases, issuer : BOOLEAN, legacy : Verdicts,
           left : Seq({"dead", "junk"} \cup Versions)]
Result == [ok : BOOLEAN, status : Statuses,
           fed : {"nosignal"} \cup Versions, doc : BOOLEAN]

(* A row of n writes: its timestamps are numbers of writes that happened.    *)
Row(n) == [count : {n}, status : Statuses, since : 1 .. n, success : 0 .. n,
           streak : 0 .. n, fed : Versions, fedAt : 0 .. n]

RowOK == row = NoRow \/ \E n \in 1 .. MaxScans : row \in Row(n)

TypeOK ==
    /\ pc \in Waiting \cup {"idle", "record", "recordSupport"}
    /\ server \in Servers
    /\ elapsed \in Nat /\ deadline \in Nat
    /\ probe \in Probe /\ result \in Result
    /\ RowOK
    /\ support \in BOOLEAN

Init ==
    /\ pc = "idle" /\ server \in Servers /\ elapsed = 0 /\ deadline = 0
    /\ probe = NoProbe /\ result = NoResult /\ row = NoRow /\ support = FALSE

-----------------------------------------------------------------------------
(* Reading a registration challenge. A flow without a list of stages does    *)
(* not count as a flow; in a list, what is no string does not count as a     *)
(* stage.                                                                    *)

(* _flow_classification *)
FlowVerdict(stages) ==
    LET named == stages \ {"malformed"}
    IN  IF "verifying" \in named THEN "none"
        ELSE IF named \subseteq {"harmless"} THEN "dangerously_open" ELSE "open"

(* classify_register_body *)
BodyVerdict(flows) ==
    IF flows = {} THEN "none"
    ELSE IF \E f \in flows : FlowVerdict(f) = "dangerously_open"
         THEN "dangerously_open" ELSE "open"

RegisterVerdictLoose(answer) ==                                    \* faulty variant
    IF answer.code = "challenge" THEN BodyVerdict(answer.flows) ELSE "closed"

(* _probe_register: only M_FORBIDDEN is a refusal. *)
RegisterVerdict(answer) ==
    IF answer.code = "challenge" THEN BodyVerdict(answer.flows)
    ELSE IF answer.code = "forbidden" THEN "closed" ELSE "none"

-----------------------------------------------------------------------------
(* The three phases of Scanner.scan share one budget.                        *)

RemainingFresh == Budget                                           \* faulty variant

Remaining == Budget - elapsed

Start ==
    /\ pc = "idle" /\ row.count < MaxScans
    /\ server' \in Servers
    /\ pc' = "wellKnown" /\ elapsed' = 0 /\ deadline' = Budget
    /\ UNCHANGED <<probe, result, row, support>>

(* The support document, if enabled and if anything of the budget is left.   *)
ToSupport ==
    IF FetchesSupport /\ Remaining > 0
    THEN pc' = "support" /\ deadline' = elapsed + Remaining
    ELSE pc' = "record" /\ UNCHANGED deadline

(* classify returns; the version probe, if anything of the budget is left.   *)
Classified(status) ==
    /\ result' = [result EXCEPT !.ok = TRUE, !.status = status]
    /\ IF Remaining > 0
       THEN pc' = "resolve" /\ deadline' = elapsed + Remaining
       ELSE pc' = "record" /\ UNCHANGED deadline

(* _base_url: the well-known may name another base URL, and an issuer.       *)
FetchWellKnown(lost) ==
    /\ pc = "wellKnown" /\ pc' = "register"
    /\ probe' = [probe EXCEPT
           !.base   = IF ~lost /\ server.delegates THEN "delegate" ELSE "origin",
           !.issuer = ~lost /\ server.issuer]
    /\ UNCHANGED <<server, elapsed, deadline, result, row, support>>

LadderOauthFirst(legacy) ==                                        \* faulty variant
    IF probe.issuer THEN Classified("oauth")
    ELSE IF legacy = "dangerously_open" THEN Classified(legacy)
    ELSE pc' = "metadata" /\ UNCHANGED <<deadline, result>>

(* The ladder, after the register probe: an unguarded flow wins outright, an *)
(* issuer in hand saves the question of the metadata.                        *)
Ladder(legacy) ==
    IF legacy = "dangerously_open" THEN Classified(legacy)
    ELSE IF probe.issuer THEN Classified("oauth")
    ELSE pc' = "metadata" /\ UNCHANGED <<deadline, result>>

ProbeRegister(lost) ==
    /\ pc = "register"
    /\ LET legacy == IF lost THEN "none" ELSE RegisterVerdict(server.register[probe.base])
       IN  /\ probe' = [probe EXCEPT !.legacy = legacy]
           /\ Ladder(legacy)
    /\ UNCHANGED <<server, elapsed, row, support>>

(* _is_oauth_delegated at the endpoints, then what the register probe said.  *)
FetchMetadata(lost) ==
    /\ pc = "metadata"
    /\ Classified(IF ~lost /\ server.metadata[probe.base] THEN "oauth"
                  ELSE IF probe.legacy \in {"open", "closed"} THEN probe.legacy
                  ELSE "unknown")
    /\ UNCHANGED <<server, elapsed, probe, row, support>>

(* An exception in one of the steps, which classify turns into unknown.      *)
ClassifyCatches ==
    /\ pc \in Classifying
    /\ Classified("unknown")
    /\ UNCHANGED <<server, elapsed, probe, row, support>>

(* The branch of scan for a classify that raises all the same.               *)
ClassifyRaises ==
    /\ pc \in Classifying /\ pc' = "record"
    /\ UNCHANGED <<server, elapsed, deadline, probe, result, row, support>>

(* Well-known delegation and SRV records: losing their answer leaves others. *)
Candidates(lost) == IF lost THEN server.plain ELSE server.found

Resolve(lost) ==
    /\ pc = "resolve" /\ pc' = "candidate"
    /\ probe' = [probe EXCEPT !.left = Candidates(lost)]
    /\ UNCHANGED <<server, elapsed, deadline, result, row, support>>

(* _interpret: a reported null is a report.                                  *)
Reported(answer) == IF answer \in Versions THEN answer ELSE "nosignal"

(* The walk goes on only over endpoints that cannot be reached at all.       *)
TryCandidate(lost) ==
    /\ pc = "candidate" /\ probe.left # <<>>
    /\ LET answer == IF lost THEN "dead" ELSE Head(probe.left)
       IN  IF answer = "dead" /\ Tail(probe.left) # <<>>
           THEN /\ probe' = [probe EXCEPT !.left = Tail(@)]
                /\ UNCHANGED <<pc, deadline, result>>
           ELSE /\ result' = [result EXCEPT !.fed = Reported(answer)]
                /\ ToSupport /\ UNCHANGED probe
    /\ UNCHANGED <<server, elapsed, row, support>>

FetchSupport(lost) ==
    /\ pc = "support" /\ pc' = "record"
    /\ result' = [result EXCEPT !.doc = ~lost /\ server.support]
    /\ UNCHANGED <<server, elapsed, deadline, probe, row, support>>

Tick ==
    /\ pc \in Waiting /\ elapsed < deadline
    /\ elapsed' = elapsed + 1
    /\ UNCHANGED <<pc, server, deadline, probe, result, row, support>>

TimeOutClassifying ==                                              \* faulty variant
    /\ pc \in Classifying /\ elapsed = deadline
    /\ result' = [result EXCEPT !.ok = TRUE] /\ pc' = "record" /\ UNCHANGED deadline
    /\ UNCHANGED <<server, elapsed, probe, row, support>>

(* wait_for gives up: a slow classification is a success with status         *)
(* unknown, a slow version or support document is no signal.                 *)
TimeOut ==
    /\ elapsed = deadline
    /\ \/ /\ pc \in Classifying
          /\ result' = [result EXCEPT !.ok = TRUE, !.status = "unknown"]
          /\ pc' = "record" /\ UNCHANGED deadline
       \/ pc \in Versioning /\ ToSupport /\ UNCHANGED result
       \/ pc = "support" /\ pc' = "record" /\ UNCHANGED <<deadline, result>>
    /\ UNCHANGED <<server, elapsed, probe, row, support>>

-----------------------------------------------------------------------------
(* record_scan: one row, from the row before and the results.                *)

KnownStatus == IF row = NoRow THEN "unknown" ELSE row.status

StatusAfter == IF result.ok THEN result.status ELSE KnownStatus

SinceAfterAttempt(ts) == ts                                        \* faulty variant

SinceAfterInsert(ts) ==                                            \* faulty variant
    IF row = NoRow THEN 0 ELSE IF StatusAfter # row.status THEN ts ELSE row.since

SinceAfter(ts) ==
    IF row = NoRow \/ StatusAfter # KnownStatus THEN ts ELSE row.since

RecordScan ==
    LET ts == row.count + 1
        seen == result.fed # "nosignal"
    IN  row' = [count   |-> ts,
                status  |-> StatusAfter,
                since   |-> SinceAfter(ts),
                success |-> IF result.ok THEN ts ELSE IF row = NoRow THEN 0 ELSE row.success,
                streak  |-> IF result.ok THEN 0 ELSE IF row = NoRow THEN 1 ELSE row.streak + 1,
                fed     |-> IF seen THEN result.fed ELSE IF row = NoRow THEN "null" ELSE row.fed,
                fedAt   |-> IF seen THEN ts ELSE IF row = NoRow THEN 0 ELSE row.fedAt]

ToIdle == pc' = "idle" /\ probe' = NoProbe /\ result' = NoResult
          /\ elapsed' = 0 /\ deadline' = 0 /\ UNCHANGED server

Record ==
    /\ pc = "record"
    /\ RecordScan
    /\ IF result.doc
       THEN pc' = "recordSupport" /\ UNCHANGED <<server, elapsed, deadline, probe, result>>
       ELSE ToIdle
    /\ UNCHANGED support

RecordSupport ==
    /\ pc = "recordSupport"
    /\ support' = TRUE /\ ToIdle /\ UNCHANGED row

(* stop() cancels the scan wherever it is; what is stored stays.             *)
Restart == pc # "idle" /\ ToIdle /\ UNCHANGED <<row, support>>

-----------------------------------------------------------------------------
Request(lost) ==
    \/ FetchWellKnown(lost) \/ ProbeRegister(lost) \/ FetchMetadata(lost)
    \/ Resolve(lost) \/ TryCandidate(lost) \/ FetchSupport(lost)

Next ==
    \/ Start
    \/ \E lost \in BOOLEAN : Request(lost)
    \/ ClassifyCatches \/ ClassifyRaises \/ Tick \/ TimeOut
    \/ Record \/ RecordSupport \/ Restart

Spec == Init /\ [][Next]_vars

(* Time passes and timers fire, the database answers; nobody has to answer   *)
(* a request.                                                                *)
Fairness == WF_vars(Tick) /\ WF_vars(TimeOut) /\ WF_vars(Record \/ RecordSupport)

FairSpec == Spec /\ Fairness

-----------------------------------------------------------------------------
(* The three phases together never use more than the one budget, whatever    *)
(* each of them does with what the others left.                              *)
BudgetHeld == elapsed <= Budget

(* Where the client API of the server may be looked for.                    *)
ReadableBases == IF server.delegates THEN Bases ELSE {"origin"}

(* What an answer must have said for each status: to be dangerously open, to *)
(* offer a flow of which every stage that is a string is harmless.           *)
Witnessed(status) ==
    LET Says(b) == server.register[b]
    IN  /\ status = "oauth" =>
               server.issuer \/ \E b \in ReadableBases : server.metadata[b]
        /\ status = "closed" => \E b \in ReadableBases : Says(b).code = "forbidden"
        /\ status = "open" =>
               \E b \in ReadableBases : Says(b).code = "challenge" /\ Says(b).flows # {}
        /\ status = "dangerously_open" =>
               \E b \in ReadableBases :
                   /\ Says(b).code = "challenge"
                   /\ \E flow \in Says(b).flows : flow \subseteq {"harmless", "malformed"}

(* Classification ends with a definite status only if some endpoint of the   *)
(* server said so: losses and exceptions make it less sure, never sure of    *)
(* something nobody said. The docstrings promise more, that the answer is    *)
(* well-formed and its free flow affirmed; a flow with stages that are no    *)
(* strings is the exception, it counts as if they were not there and, with   *)
(* no others, as free.                                                       *)
DefiniteIsWitnessed == pc = "record" /\ result.ok => Witnessed(result.status)

(* Whatever a server does, or does not do, its scan ends.                    *)
ScanEnds == (pc # "idle") ~> (pc = "idle")

(* What the module docstring says: failures collapse to unknown, and a live  *)
(* unguarded flow wins whatever the server announces. A register probe that  *)
(* is lost on a server with an OAuth issuer yields "oauth".                  *)
LiveFlowOverrides ==
    pc = "record" /\ result.ok /\ ~server.delegates
        /\ RegisterVerdict(server.register["origin"]) = "dangerously_open"
    => result.status \in {"dangerously_open", "unknown"}
=============================================================================
