--------------------------- MODULE ScanJobProofs ---------------------------
(***************************************************************************)
(* Proofs about ScanJob and MCScanJob, for every set of servers, every      *)
(* budget and every number of scans: the types, the shared budget, that a   *)
(* definite status was said by the server; that the row of a target is what *)
(* its whole history says, and that a scan of which nothing was lost tells  *)
(* the truth about the server.                                              *)
(***************************************************************************)
EXTENDS MCScanJob, WellFoundedInduction, TLAPS

(* A scan that has not written yet has room for its write.                   *)
RoomToWrite == pc \in Waiting \cup {"record"} => row.count < MaxScans

TypeInv == TypeOK /\ RoomToWrite

(* No wait_for is given a deadline beyond the budget.                        *)
BudgetInv == elapsed <= deadline /\ deadline <= Budget

(* What the locals of classify hold on to was said by the server.            *)
ProbeWitnessed ==
    pc \in {"register", "metadata"} =>
        /\ probe.base \in ReadableBases
        /\ probe.issuer => server.issuer
        /\ pc = "metadata" /\ probe.legacy # "none" =>
              probe.legacy = RegisterVerdict(server.register[probe.base])

(* The results are those of the scan under way.                              *)
ResultFresh == pc \in Classifying \cup {"idle"} => result = NoResult

WitnessInv == ProbeWitnessed /\ ResultFresh /\ Witnessed(result.status)

-----------------------------------------------------------------------------
LEMMA AnswerTyped ==
    ASSUME NEW s \in Servers, NEW b \in Bases
    PROVE  /\ s.register[b].code \in {"challenge", "forbidden", "other"}
           /\ s.issuer \in BOOLEAN /\ s.metadata[b] \in BOOLEAN
           /\ s.delegates \in BOOLEAN /\ s.support \in BOOLEAN
           /\ s.found \in Seq({"dead", "junk"} \cup Versions)
           /\ s.plain \in Seq({"dead", "junk"} \cup Versions)
BY ServersAssumption DEF Server

(* What _probe_register makes of an answer is in its vocabulary.             *)
LEMMA VerdictTyped ==
    ASSUME NEW answer PROVE RegisterVerdict(answer) \in Verdicts
BY DEF RegisterVerdict, BodyVerdict, Verdicts

(* A verdict of a base URL that may be read is warranted by what it said.    *)
LEMMA VerdictWarranted ==
    ASSUME NEW b \in ReadableBases
    PROVE  Witnessed(RegisterVerdict(server.register[b]))
<1>. DEFINE answer == server.register[b]
<1>1. CASE answer.code = "challenge"
  <2>1. RegisterVerdict(answer) = BodyVerdict(answer.flows)
    BY <1>1 DEF RegisterVerdict
  <2>2. CASE answer.flows = {}
    BY <2>1, <2>2 DEF BodyVerdict, Witnessed
  <2>3. CASE answer.flows # {} /\ \E f \in answer.flows : FlowVerdict(f) = "dangerously_open"
    <3>1. PICK f \in answer.flows : FlowVerdict(f) = "dangerously_open"
      BY <2>3
    <3>2. f \subseteq {"harmless", "malformed"}
      BY <3>1 DEF FlowVerdict
    <3>3. RegisterVerdict(answer) = "dangerously_open"
      BY <2>1, <2>3 DEF BodyVerdict
    <3>. QED
      BY <1>1, <3>2, <3>3 DEF Witnessed
  <2>4. CASE answer.flows # {} /\ ~ \E f \in answer.flows : FlowVerdict(f) = "dangerously_open"
    <3>1. RegisterVerdict(answer) = "open"
      BY <2>1, <2>4 DEF BodyVerdict
    <3>. QED
      BY <1>1, <2>4, <3>1 DEF Witnessed
  <2>. QED
    BY <2>2, <2>3, <2>4
<1>2. CASE answer.code = "forbidden"
  BY <1>2 DEF RegisterVerdict, Witnessed
<1>3. CASE answer.code # "challenge" /\ answer.code # "forbidden"
  BY <1>3 DEF RegisterVerdict, Witnessed
<1>. QED
  BY <1>1, <1>2, <1>3

LEMMA UnknownWitnessed == Witnessed("unknown") /\ Witnessed("none")
BY DEF Witnessed
-----------------------------------------------------------------------------
(* Type correctness.                                                         *)

(* The values between scans.                                                 *)
LEMMA NothingTyped == NoProbe \in Probe /\ NoResult \in Result
<1>1. <<>> \in Seq({"dead", "junk"} \cup Versions)
  OBVIOUS
<1>. QED
  BY <1>1 DEF NoProbe, NoResult, Probe, Result, Bases, Verdicts, Statuses

LEMMA InitTyped == Init => TypeInv
<1>1. Init => RowOK
  BY DEF Init, RowOK
<1>2. Init => RoomToWrite
  <2>1. "idle" \notin Waiting \cup {"record"}
    BY DEF Waiting, Classifying, Versioning
  <2>. QED
    BY <2>1 DEF Init, RoomToWrite
<1>3. Init => TypeOK
  <2>1. Init => support \in BOOLEAN
    BY DEF Init
  <2>2. Init => elapsed \in Nat /\ deadline \in Nat
    BY DEF Init
  <2>. QED
    BY <1>1, <2>1, <2>2, NothingTyped DEF Init, TypeOK
<1>. QED
  BY <1>2, <1>3 DEF TypeInv

(* The terminal write keeps the columns in step with the number of writes.   *)
LEMMA RecordScanTyped ==
    ASSUME TypeInv, pc = "record", RecordScan
    PROVE  RowOK'
<1>1. result.ok \in BOOLEAN /\ result.status \in Statuses
      /\ result.fed \in {"nosignal"} \cup Versions
  BY DEF TypeInv, TypeOK, Result
<1>2. CASE row = NoRow
  <2>1. row.count = 0 /\ 1 \in 1 .. MaxScans
    BY <1>2, BudgetAssumption DEF NoRow, TypeInv, RoomToWrite
  <2>2. StatusAfter \in Statuses
    BY <1>1, <1>2 DEF StatusAfter, KnownStatus, Statuses
  <2>3. row' \in Row(1)
    BY <1>1, <1>2, <2>1, <2>2 DEF RecordScan, SinceAfter, Versions, Row
  <2>. QED
    BY <2>1, <2>3 DEF RowOK
<1>3. CASE row # NoRow
  <2>1. PICK n \in 1 .. MaxScans : row \in Row(n)
    BY <1>3 DEF TypeInv, TypeOK, RowOK
  <2>2. n + 1 \in 1 .. MaxScans /\ row.count = n
    BY <2>1, BudgetAssumption DEF TypeInv, RoomToWrite, Row
  <2>3. StatusAfter \in Statuses
    BY <1>1, <1>3, <2>1 DEF StatusAfter, KnownStatus, Row
  <2>4. SinceAfter(n + 1) \in 1 .. n + 1
    BY <2>1, <2>2 DEF SinceAfter, Row
  <2>5. row' \in Row(n + 1)
    BY <1>1, <1>3, <2>1, <2>2, <2>3, <2>4 DEF RecordScan, Row
  <2>. QED
    BY <2>2, <2>5 DEF RowOK
<1>. QED
  BY <1>2, <1>3

(* A scan that is over leaves its variables as they were at the start.       *)
LEMMA ToIdleTyped ==
    ASSUME TypeOK, ToIdle, RowOK', support' \in BOOLEAN
    PROVE  TypeInv'
BY NothingTyped
DEF ToIdle, TypeInv, TypeOK, RoomToWrite, Waiting, Classifying, Versioning

(* What is common to all steps of a scan between its start and its write.    *)
LEMMA MidScanTyped ==
    ASSUME TypeInv, pc \in Waiting, UNCHANGED <<server, row, support>>,
           pc' \in Waiting \cup {"record"},
           elapsed' \in Nat, deadline' \in Nat, probe' \in Probe, result' \in Result
    PROVE  TypeInv'
BY DEF TypeInv, TypeOK, RowOK, RoomToWrite

LEMMA ClassifiedTyped ==
    ASSUME TypeInv, NEW status \in Statuses, Classified(status), elapsed' = elapsed
    PROVE  /\ pc' \in Waiting \cup {"record"} /\ deadline' \in Nat
           /\ result' \in Result
<1>1. result' \in Result
  BY DEF TypeInv, TypeOK, Classified, Result
<1>2. CASE Remaining > 0
  BY <1>1, <1>2, BudgetAssumption
  DEF TypeInv, TypeOK, Classified, Remaining, Waiting, Versioning
<1>3. CASE ~(Remaining > 0)
  BY <1>1, <1>3 DEF TypeInv, TypeOK, Classified
<1>. QED
  BY <1>2, <1>3

LEMMA ToSupportTyped ==
    ASSUME TypeInv, ToSupport
    PROVE  pc' \in Waiting \cup {"record"} /\ deadline' \in Nat
BY BudgetAssumption DEF TypeInv, TypeOK, ToSupport, Remaining, Waiting

LEMMA StepTyped == TypeInv /\ [Next]_vars => TypeInv'
<1>. SUFFICES ASSUME TypeInv, [Next]_vars PROVE TypeInv'
  OBVIOUS
<1>. USE BudgetAssumption
<1>1. CASE Start
  BY <1>1 DEF Start, TypeInv, TypeOK, RowOK, RoomToWrite, Waiting, Classifying
<1>2. ASSUME NEW lost \in BOOLEAN, FetchWellKnown(lost) PROVE TypeInv'
  <2>1. server.issuer \in BOOLEAN
    BY AnswerTyped, "origin" \in Bases DEF TypeInv, TypeOK, Bases
  <2>2. probe' \in Probe
    BY <1>2, <2>1 DEF FetchWellKnown, TypeInv, TypeOK, Probe, Bases
  <2>. QED
    BY <1>2, <2>2, MidScanTyped
    DEF FetchWellKnown, TypeInv, TypeOK, Waiting, Classifying
<1>3. ASSUME NEW lost \in BOOLEAN, ProbeRegister(lost) PROVE TypeInv'
  <2>. DEFINE legacy == IF lost THEN "none" ELSE RegisterVerdict(server.register[probe.base])
  <2>1. legacy \in Verdicts
    BY VerdictTyped DEF Verdicts
  <2>2. probe' = [probe EXCEPT !.legacy = legacy] /\ Ladder(legacy)
    BY <1>3 DEF ProbeRegister
  <2>3. probe' \in Probe
    BY <2>1, <2>2 DEF TypeInv, TypeOK, Probe
  <2>4. /\ pc' \in Waiting \cup {"record"} /\ deadline' \in Nat
        /\ result' \in Result
    <3>1. CASE legacy = "dangerously_open"
      BY <3>1, <2>2, <1>3, ClassifiedTyped DEF Ladder, Statuses, ProbeRegister
    <3>2. CASE legacy # "dangerously_open" /\ probe.issuer
      BY <3>2, <2>2, <1>3, ClassifiedTyped DEF Ladder, Statuses, ProbeRegister
    <3>3. CASE legacy # "dangerously_open" /\ ~probe.issuer
      BY <3>3, <2>2 DEF Ladder, TypeInv, TypeOK, Waiting, Classifying
    <3>. QED
      BY <3>1, <3>2, <3>3
  <2>. QED
    BY <1>3, <2>3, <2>4, MidScanTyped
    DEF ProbeRegister, TypeInv, TypeOK, Waiting, Classifying
<1>4. ASSUME NEW lost \in BOOLEAN, FetchMetadata(lost) PROVE TypeInv'
  <2>1. PICK status \in Statuses : Classified(status)
    BY <1>4 DEF FetchMetadata, Statuses
  <2>2. /\ pc' \in Waiting \cup {"record"} /\ deadline' \in Nat
        /\ result' \in Result
    BY <1>4, <2>1, ClassifiedTyped DEF FetchMetadata
  <2>. QED
    BY <1>4, <2>2, MidScanTyped DEF FetchMetadata, TypeInv, TypeOK, Waiting, Classifying
<1>5. CASE ClassifyRaises
  BY <1>5, MidScanTyped DEF ClassifyRaises, TypeInv, TypeOK, Waiting
<1>6. ASSUME NEW lost \in BOOLEAN, Resolve(lost) PROVE TypeInv'
  <2>1. server.found \in Seq({"dead", "junk"} \cup Versions)
        /\ server.plain \in Seq({"dead", "junk"} \cup Versions)
    BY AnswerTyped, "origin" \in Bases DEF TypeInv, TypeOK, Bases
  <2>2. probe' \in Probe
    BY <1>6, <2>1 DEF Resolve, Candidates, TypeInv, TypeOK, Probe
  <2>. QED
    BY <1>6, <2>2, MidScanTyped DEF Resolve, TypeInv, TypeOK, Waiting, Versioning
<1>7. ASSUME NEW lost \in BOOLEAN, TryCandidate(lost) PROVE TypeInv'
  <2>1. probe.left \in Seq({"dead", "junk"} \cup Versions) /\ probe.left # <<>>
    BY <1>7 DEF TryCandidate, TypeInv, TypeOK, Probe
  <2>. DEFINE answer == IF lost THEN "dead" ELSE Head(probe.left)
  <2>2. Tail(probe.left) \in Seq({"dead", "junk"} \cup Versions)
    BY <2>1
  <2>3. CASE answer = "dead" /\ Tail(probe.left) # <<>>
    <3>1. probe' = [probe EXCEPT !.left = Tail(@)] /\ UNCHANGED <<pc, deadline, result>>
      BY <1>7, <2>3 DEF TryCandidate
    <3>2. probe' \in Probe
      BY <2>2, <3>1 DEF TypeInv, TypeOK, Probe
    <3>. QED
      BY <1>7, <3>1, <3>2, MidScanTyped DEF TryCandidate, TypeInv, TypeOK, Waiting, Versioning
  <2>4. CASE ~(answer = "dead" /\ Tail(probe.left) # <<>>)
    <3>1. /\ result' = [result EXCEPT !.fed = Reported(answer)]
          /\ ToSupport /\ UNCHANGED probe
      BY <1>7, <2>4 DEF TryCandidate
    <3>2. result' \in Result
      BY <3>1 DEF TypeInv, TypeOK, Result, Reported
    <3>3. pc' \in Waiting \cup {"record"} /\ deadline' \in Nat
      BY <3>1, ToSupportTyped
    <3>. QED
      BY <1>7, <3>1, <3>2, <3>3, MidScanTyped
      DEF TryCandidate, TypeInv, TypeOK, Waiting, Versioning
  <2>. QED
    BY <2>3, <2>4
<1>8. ASSUME NEW lost \in BOOLEAN, FetchSupport(lost) PROVE TypeInv'
  <2>1. server.support \in BOOLEAN
    BY AnswerTyped, "origin" \in Bases DEF TypeInv, TypeOK, Bases
  <2>2. result' \in Result
    BY <1>8, <2>1 DEF FetchSupport, TypeInv, TypeOK, Result
  <2>. QED
    BY <1>8, <2>2, MidScanTyped DEF FetchSupport, TypeInv, TypeOK, Waiting
<1>9. CASE Tick
  BY <1>9, MidScanTyped DEF Tick, TypeInv, TypeOK
<1>10. CASE TimeOut
  <2>1. /\ pc' \in Waiting \cup {"record"} /\ deadline' \in Nat
        /\ result' \in Result
    <3>1. CASE pc \in Classifying
      BY <3>1, <1>10
      DEF TimeOut, TypeInv, TypeOK, Result, Statuses, Classifying, Versioning
    <3>2. CASE pc \notin Classifying
      BY <3>2, <1>10, ToSupportTyped DEF TimeOut, TypeInv, TypeOK
    <3>. QED
      BY <3>1, <3>2
  <2>. QED
    BY <1>10, <2>1, MidScanTyped DEF TimeOut, TypeInv, TypeOK, Waiting
<1>11. CASE Record
  <2>1. RowOK' /\ support' \in BOOLEAN
    BY <1>11, RecordScanTyped DEF Record, TypeInv, TypeOK
  <2>2. CASE result.doc
    BY <1>11, <2>1, <2>2
    DEF Record, TypeInv, TypeOK, RoomToWrite, Waiting, Classifying, Versioning
  <2>3. CASE ~result.doc
    BY <1>11, <2>1, <2>3, ToIdleTyped DEF Record, TypeInv
  <2>. QED
    BY <2>2, <2>3
<1>12. CASE RecordSupport
  BY <1>12, ToIdleTyped DEF RecordSupport, TypeInv, TypeOK, RowOK
<1>13. CASE Restart
  BY <1>13, ToIdleTyped DEF Restart, TypeInv, TypeOK, RowOK
<1>14. CASE UNCHANGED vars
  BY <1>14 DEF vars, job, TypeInv, TypeOK, RowOK, RoomToWrite
<1>15. CASE ClassifyCatches
  <2>1. /\ pc' \in Waiting \cup {"record"} /\ deadline' \in Nat
        /\ result' \in Result
    BY <1>15, ClassifiedTyped DEF ClassifyCatches, Statuses
  <2>. QED
    BY <1>15, <2>1, MidScanTyped DEF ClassifyCatches, TypeInv, TypeOK, Waiting
<1>. QED
  BY <1>1, <1>2, <1>3, <1>4, <1>5, <1>6, <1>7, <1>8, <1>9, <1>10, <1>11, <1>12, <1>13, <1>14,
     <1>15 DEF Next, Request

LEMMA Typed == Spec => []TypeInv
BY InitTyped, StepTyped, PTL DEF Spec

(* Every variable keeps its type; in particular the timestamps of the row    *)
(* are those of writes that happened.                                        *)
THEOREM TypeCorrect == Spec => []TypeOK
BY Typed, PTL DEF TypeInv

-----------------------------------------------------------------------------
(* The budget.                                                               *)

LEMMA StepBudgeted == TypeInv /\ BudgetInv /\ [Next]_vars => BudgetInv'
<1>. SUFFICES ASSUME TypeOK, BudgetInv, [Next]_vars PROVE BudgetInv'
  BY DEF TypeInv
<1>. USE BudgetAssumption DEF TypeOK, BudgetInv
<1>1. CASE Start
  BY <1>1 DEF Start
<1>2. ASSUME UNCHANGED elapsed, UNCHANGED deadline \/ deadline' = elapsed + Remaining
      PROVE  BudgetInv'
  BY <1>2 DEF Remaining
<1>3. ASSUME NEW lost \in BOOLEAN, Request(lost) PROVE BudgetInv'
  <2>1. UNCHANGED elapsed
    BY <1>3 DEF Request, FetchWellKnown, ProbeRegister, FetchMetadata, Resolve,
                TryCandidate, FetchSupport
  <2>2. UNCHANGED deadline \/ deadline' = elapsed + Remaining
    BY <1>3 DEF Request, FetchWellKnown, ProbeRegister, FetchMetadata, Resolve,
                TryCandidate, FetchSupport, Ladder, Classified, ToSupport
  <2>. QED
    BY <1>2, <2>1, <2>2
<1>4. CASE Tick
  BY <1>4 DEF Tick
<1>5. CASE TimeOut
  <2>1. UNCHANGED elapsed /\ (UNCHANGED deadline \/ deadline' = elapsed + Remaining)
    BY <1>5 DEF TimeOut, ToSupport
  <2>. QED
    BY <1>2, <2>1
<1>6. CASE ClassifyCatches \/ ClassifyRaises \/ UNCHANGED vars
  BY <1>2, <1>6 DEF ClassifyCatches, Classified, ClassifyRaises, vars, job
<1>7. CASE Record \/ RecordSupport \/ Restart
  <2>1. ToIdle \/ UNCHANGED <<elapsed, deadline>>
    BY <1>7 DEF Record, RecordSupport, Restart
  <2>. QED
    BY <2>1 DEF ToIdle
<1>. QED
  BY <1>1, <1>3, <1>4, <1>5, <1>6, <1>7 DEF Next

(* The three phases together stay within the one budget of a scan.           *)
THEOREM BudgetRespected == Spec => []BudgetHeld
<1>1. Init => BudgetInv
  BY BudgetAssumption DEF Init, BudgetInv
<1>2. TypeInv /\ BudgetInv => BudgetHeld
  BY BudgetAssumption DEF TypeInv, TypeOK, BudgetInv, BudgetHeld
<1>. QED
  BY <1>1, <1>2, StepBudgeted, Typed, PTL DEF Spec

-----------------------------------------------------------------------------
(* The status.                                                               *)

(* A status stays witnessed while the server under the scan is the same.     *)
LEMMA WitnessKept ==
    ASSUME server' = server, Witnessed(result.status), result'.status = result.status
    PROVE  Witnessed(result.status)'
BY DEF Witnessed, ReadableBases

LEMMA ClassifiedWitnessed ==
    ASSUME TypeInv, NEW status, Witnessed(status), Classified(status), server' = server
    PROVE  WitnessInv'
<1>1. result'.status = status /\ pc' \in {"resolve", "record"}
  BY DEF TypeInv, TypeOK, Result, Classified
<1>2. Witnessed(result.status)'
  BY <1>1 DEF Witnessed, ReadableBases
<1>. QED
  BY <1>1, <1>2 DEF WitnessInv, ProbeWitnessed, ResultFresh, Classifying

(* Between the classification and the write the status does not change.      *)
LEMMA AfterwardsWitnessed ==
    ASSUME WitnessInv, server' = server, result'.status = result.status,
           pc' \notin Classifying \cup {"idle"}
    PROVE  WitnessInv'
BY WitnessKept DEF WitnessInv, ProbeWitnessed, ResultFresh, Classifying

LEMMA ToIdleWitnessed == ASSUME ToIdle PROVE WitnessInv'
BY DEF ToIdle, WitnessInv, ProbeWitnessed, ResultFresh, Witnessed, NoResult

LEMMA StepWitnessed == TypeInv /\ WitnessInv /\ [Next]_vars => WitnessInv'
<1>. SUFFICES ASSUME TypeInv, WitnessInv, [Next]_vars PROVE WitnessInv'
  OBVIOUS
<1>1. CASE Start
  BY <1>1 DEF Start, WitnessInv, ProbeWitnessed, ResultFresh, Witnessed, NoResult
<1>2. ASSUME NEW lost \in BOOLEAN, FetchWellKnown(lost) PROVE WitnessInv'
  <2>1. /\ probe'.base \in ReadableBases /\ (probe'.issuer => server.issuer)
    BY <1>2 DEF FetchWellKnown, TypeInv, TypeOK, Probe, ReadableBases, Bases
  <2>2. result' = result /\ result = NoResult /\ server' = server /\ pc' = "register"
    BY <1>2 DEF FetchWellKnown, WitnessInv, ResultFresh, Classifying
  <2>3. Witnessed(result.status)'
    BY <2>2, WitnessKept DEF WitnessInv
  <2>. QED
    BY <2>1, <2>2, <2>3 DEF WitnessInv, ProbeWitnessed, ResultFresh, ReadableBases
<1>3. ASSUME NEW lost \in BOOLEAN, ProbeRegister(lost) PROVE WitnessInv'
  <2>. DEFINE legacy == IF lost THEN "none" ELSE RegisterVerdict(server.register[probe.base])
  <2>1. /\ probe' = [probe EXCEPT !.legacy = legacy] /\ Ladder(legacy)
        /\ server' = server /\ pc = "register"
    BY <1>3 DEF ProbeRegister
  <2>2. probe.base \in ReadableBases /\ (probe.issuer => server.issuer)
    BY <2>1 DEF WitnessInv, ProbeWitnessed
  <2>3. Witnessed(legacy)
    BY <2>2, VerdictWarranted, UnknownWitnessed
  <2>4. CASE legacy = "dangerously_open"
    BY <2>1, <2>3, <2>4, ClassifiedWitnessed DEF Ladder
  <2>5. CASE legacy # "dangerously_open" /\ probe.issuer
    <3>1. Witnessed("oauth")
      BY <2>2, <2>5 DEF Witnessed
    <3>. QED
      BY <2>1, <2>5, <3>1, ClassifiedWitnessed DEF Ladder
  <2>6. CASE legacy # "dangerously_open" /\ ~probe.issuer
    <3>1. pc' = "metadata" /\ result' = result /\ result = NoResult
      BY <2>1, <2>6 DEF Ladder, WitnessInv, ResultFresh, Classifying
    <3>2. /\ probe'.base = probe.base /\ probe'.issuer = probe.issuer
          /\ probe'.legacy = legacy
      BY <2>1 DEF TypeInv, TypeOK, Probe
    <3>3. Witnessed(result.status)'
      BY <2>1, <3>1, WitnessKept DEF WitnessInv
    <3>4. ProbeWitnessed'
      BY <2>1, <2>2, <3>2 DEF ProbeWitnessed, ReadableBases, RegisterVerdict, BodyVerdict,
         FlowVerdict
    <3>. QED
      BY <3>1, <3>3, <3>4 DEF WitnessInv, ResultFresh
  <2>. QED
    BY <2>4, <2>5, <2>6
<1>4. ASSUME NEW lost \in BOOLEAN, FetchMetadata(lost) PROVE WitnessInv'
  <2>. DEFINE status == IF ~lost /\ server.metadata[probe.base] THEN "oauth"
                        ELSE IF probe.legacy \in {"open", "closed"} THEN probe.legacy
                        ELSE "unknown"
  <2>1. Classified(status) /\ server' = server /\ pc = "metadata"
    BY <1>4 DEF FetchMetadata
  <2>2. /\ probe.base \in ReadableBases
        /\ probe.legacy # "none" =>
              probe.legacy = RegisterVerdict(server.register[probe.base])
    BY <2>1 DEF WitnessInv, ProbeWitnessed
  <2>3. Witnessed(status)
    <3>1. CASE status = "oauth" /\ server.metadata[probe.base]
      BY <2>2, <3>1 DEF Witnessed
    <3>2. CASE status = probe.legacy /\ probe.legacy \in {"open", "closed"}
      BY <2>2, <3>2, VerdictWarranted
    <3>3. CASE status = "unknown"
      BY <3>3, UnknownWitnessed
    <3>. QED
      BY <3>1, <3>2, <3>3
  <2>. QED
    BY <2>1, <2>3, ClassifiedWitnessed
<1>5. CASE ClassifyRaises
  BY <1>5, AfterwardsWitnessed DEF ClassifyRaises, Classifying
<1>6. ASSUME NEW lost \in BOOLEAN, Resolve(lost) PROVE WitnessInv'
  BY <1>6, AfterwardsWitnessed DEF Resolve, Classifying
<1>7. ASSUME NEW lost \in BOOLEAN, TryCandidate(lost) PROVE WitnessInv'
  <2>1. server' = server /\ pc' \in {"candidate", "support", "record"}
    BY <1>7 DEF TryCandidate, ToSupport
  <2>2. result'.status = result.status
    BY <1>7 DEF TryCandidate, TypeInv, TypeOK, Result
  <2>. QED
    BY <2>1, <2>2, AfterwardsWitnessed DEF Classifying
<1>8. ASSUME NEW lost \in BOOLEAN, FetchSupport(lost) PROVE WitnessInv'
  <2>1. result'.status = result.status
    BY <1>8 DEF FetchSupport, TypeInv, TypeOK, Result
  <2>. QED
    BY <1>8, <2>1, AfterwardsWitnessed DEF FetchSupport, Classifying
<1>9. CASE Tick \/ UNCHANGED vars
  BY <1>9, WitnessKept DEF Tick, vars, job, WitnessInv, ProbeWitnessed, ResultFresh,
     ReadableBases, RegisterVerdict, BodyVerdict, FlowVerdict
<1>10. CASE TimeOut
  <2>1. result'.status = result.status /\ server' = server
    <3>1. CASE pc \in Classifying
      <4>1. result.status = "unknown"
        BY <3>1 DEF WitnessInv, ResultFresh, NoResult
      <4>2. result' = [result EXCEPT !.ok = TRUE, !.status = "unknown"]
        BY <3>1, <1>10 DEF TimeOut, Classifying, Versioning
      <4>. QED
        BY <4>1, <4>2, <1>10 DEF TimeOut, TypeInv, TypeOK, Result
    <3>2. CASE pc \notin Classifying
      BY <3>2, <1>10 DEF TimeOut
    <3>. QED
      BY <3>1, <3>2
  <2>2. pc' \in {"support", "record"}
    BY <1>10 DEF TimeOut, ToSupport
  <2>. QED
    BY <2>1, <2>2, AfterwardsWitnessed DEF Classifying
<1>11. CASE Record
  BY <1>11, ToIdleWitnessed, AfterwardsWitnessed DEF Record, Classifying
<1>12. CASE RecordSupport \/ Restart
  BY <1>12, ToIdleWitnessed DEF RecordSupport, Restart
<1>13. CASE ClassifyCatches
  BY <1>13, UnknownWitnessed, ClassifiedWitnessed DEF ClassifyCatches
<1>. QED
  BY <1>1, <1>2, <1>3, <1>4, <1>5, <1>6, <1>7, <1>8, <1>9, <1>10, <1>11, <1>12,
     <1>13 DEF Next, Request

(* Whatever is lost of a scan or raises in it, a definite status was said by *)
(* the server, stages that are no strings not counting.                      *)
THEOREM StatusWitnessed == Spec => []DefiniteIsWitnessed
<1>1. Init => WitnessInv
  BY DEF Init, WitnessInv, ProbeWitnessed, ResultFresh, Witnessed, NoResult
<1>2. WitnessInv => DefiniteIsWitnessed
  BY DEF WitnessInv, DefiniteIsWitnessed
<1>. QED
  BY <1>1, <1>2, StepWitnessed, Typed, PTL DEF Spec

-----------------------------------------------------------------------------
(* The largest and the smallest number of a set.                             *)
LEMMA LeastExists ==
    ASSUME NEW T \in SUBSET Nat, T # {}
    PROVE  \E t \in T : \A u \in T : t <= u
<1>. DEFINE less == OpToRel(<, Nat)
<1>1. IsWellFoundedOn(less, Nat)
  BY NatLessThanWellFounded
<1>2. PICK t \in T : \A u \in T : <<u, t>> \notin less
  <2>. HIDE DEF less
  <2>. QED
    BY <1>1, WFMin
<1>3. \A u, v \in Nat : u < v => <<u, v>> \in less
  BY DEF OpToRel
<1>. HIDE DEF less
<1>4. \A u \in T : ~ (u < t)
  BY <1>2, <1>3
<1>. QED
  BY <1>4

LEMMA MinIs ==
    ASSUME NEW S \in SUBSET Nat, S # {}
    PROVE  Min(S) \in S /\ \A y \in S : Min(S) <= y
BY LeastExists DEF Min

LEMMA MaxIs ==
    ASSUME NEW n \in Nat, NEW S \in SUBSET (1 .. n), S # {}
    PROVE  Max(S) \in S /\ \A y \in S : Max(S) >= y
<1>. DEFINE T == {n - k : k \in S}
<1>1. T \in SUBSET Nat /\ T # {}
  <2>1. \A k \in S : n - k \in Nat
    OBVIOUS
  <2>. QED
    BY <2>1
<1>2. PICK t \in T : \A u \in T : t <= u
  <2>. HIDE DEF T
  <2>. QED
    BY <1>1, LeastExists
<1>3. PICK k \in S : t = n - k
  OBVIOUS
<1>4. \A j \in S : k >= j
  <2>. TAKE j \in S
  <2>1. n - k <= n - j
    BY <1>2, <1>3
  <2>. QED
    BY <2>1
<1>. QED
  BY <1>4 DEF Max

LEMMA MaxAtTop ==
    ASSUME NEW n \in Nat, NEW S \in SUBSET (1 .. n), n \in S
    PROVE  Max(S) = n
<1>1. Max(S) \in S /\ Max(S) >= n
  BY MaxIs
<1>2. Max(S) \in 1 .. n
  BY <1>1
<1>. QED
  BY <1>1, <1>2

-----------------------------------------------------------------------------
(* What a history says, with names for the parts of RowIsHistory.            *)
Entry == [ok : BOOLEAN, status : Statuses, fed : {"nosignal"} \cup Versions]

LastIn(S)    == IF S = {} THEN 0 ELSE Max(S)
Successes(l) == {i \in 1 .. Len(l) : l[i].ok}
Reports(l)   == {i \in 1 .. Len(l) : l[i].fed # "nosignal"}

StatusOf(l, i) ==
    LET last == LastIn(Successes(l) \cap 1 .. i)
    IN  IF last = 0 THEN "unknown" ELSE l[last].status

(* The writes since which the status has not changed.                        *)
Stretch(l) == {i \in 1 .. Len(l) : \A j \in i .. Len(l) : StatusOf(l, j) = StatusOf(l, Len(l))}

Summary(l) ==
    [count   |-> Len(l),
     status  |-> StatusOf(l, Len(l)),
     since   |-> Min(Stretch(l)),
     success |-> LastIn(Successes(l)),
     streak  |-> Len(l) - LastIn(Successes(l)),
     fed     |-> IF Reports(l) = {} THEN "null" ELSE l[Max(Reports(l))].fed,
     fedAt   |-> LastIn(Reports(l))]

HistoryInv ==
    /\ log \in Seq(Entry)
    /\ row = IF log = <<>> THEN NoRow ELSE Summary(log)

LEMMA LastInTyped ==
    ASSUME NEW n \in Nat, NEW S \in SUBSET (1 .. n)
    PROVE  LastIn(S) \in 0 .. n /\ (LastIn(S) # 0 => LastIn(S) \in S)
<1>1. CASE S = {}
  BY <1>1 DEF LastIn
<1>2. CASE S # {}
  <2>1. LastIn(S) = Max(S) /\ Max(S) \in S
    BY <1>2, MaxIs DEF LastIn
  <2>2. Max(S) \in 1 .. n
    BY <2>1
  <2>. QED
    BY <2>1, <2>2
<1>. QED
  BY <1>1, <1>2

LEMMA HistoryRow == HistoryInv => RowIsHistory
<1>. SUFFICES ASSUME HistoryInv PROVE RowIsHistory
  OBVIOUS
<1>1. Len(log) \in Nat /\ (Len(log) = 0 <=> log = <<>>)
  BY DEF HistoryInv
<1>2. CASE log = <<>>
  BY <1>1, <1>2 DEF HistoryInv, RowIsHistory
<1>3. CASE log # <<>>
  BY <1>1, <1>3 DEF HistoryInv, RowIsHistory, Summary, StatusOf, Stretch, LastIn,
                    Successes, Reports
<1>. QED
  BY <1>2, <1>3

-----------------------------------------------------------------------------
(* One more write.                                                           *)
LEMMA Appended ==
    ASSUME NEW l \in Seq(Entry), NEW e \in Entry
    PROVE  /\ Append(l, e) \in Seq(Entry) /\ Len(Append(l, e)) = Len(l) + 1
           /\ Append(l, e)[Len(l) + 1] = e
           /\ \A i \in 1 .. Len(l) : Append(l, e)[i] = l[i]
           /\ Len(l) \in Nat /\ Append(l, e) # <<>>
OBVIOUS

LEMMA SuccessesAppended ==
    ASSUME NEW l \in Seq(Entry), NEW e \in Entry
    PROVE  /\ Successes(Append(l, e)) =
                  IF e.ok THEN Successes(l) \cup {Len(l) + 1} ELSE Successes(l)
           /\ Reports(Append(l, e)) =
                  IF e.fed # "nosignal" THEN Reports(l) \cup {Len(l) + 1} ELSE Reports(l)
<1>. DEFINE m == Append(l, e)
<1>1. /\ Len(m) = Len(l) + 1 /\ m[Len(l) + 1] = e /\ Len(l) \in Nat
      /\ \A i \in 1 .. Len(l) : m[i] = l[i]
  BY Appended
<1>. HIDE DEF m
<1>2. 1 .. Len(m) = 1 .. Len(l) \cup {Len(l) + 1}
  BY <1>1
<1>3. Len(l) + 1 \notin 1 .. Len(l)
  BY <1>1
<1>4. Successes(m) = IF e.ok THEN Successes(l) \cup {Len(l) + 1} ELSE Successes(l)
  BY <1>1, <1>2, <1>3 DEF Successes
<1>5. Reports(m) = IF e.fed # "nosignal" THEN Reports(l) \cup {Len(l) + 1} ELSE Reports(l)
  BY <1>1, <1>2, <1>3 DEF Reports
<1>. QED
  BY <1>4, <1>5 DEF m

(* The statuses of the writes before stay what they were, and the new one    *)
(* is that of the write if it succeeded, the one before if not.              *)
LEMMA StatusAppended ==
    ASSUME NEW l \in Seq(Entry), NEW e \in Entry
    PROVE  /\ \A i \in 1 .. Len(l) : StatusOf(Append(l, e), i) = StatusOf(l, i)
           /\ StatusOf(Append(l, e), Len(l) + 1) =
                  IF e.ok THEN e.status ELSE StatusOf(l, Len(l))
<1>. DEFINE m == Append(l, e)
<1>1. /\ Len(m) = Len(l) + 1 /\ m[Len(l) + 1] = e /\ Len(l) \in Nat
      /\ \A i \in 1 .. Len(l) : m[i] = l[i]
  BY Appended
<1>2. Successes(m) = IF e.ok THEN Successes(l) \cup {Len(l) + 1} ELSE Successes(l)
  BY SuccessesAppended
<1>3. Successes(l) \in SUBSET (1 .. Len(l))
  BY DEF Successes
<1>. HIDE DEF m
<1>4. \A S \in SUBSET (1 .. Len(l)) : LastIn(S) # 0 => m[LastIn(S)] = l[LastIn(S)]
  BY <1>1, LastInTyped
<1>5. ASSUME NEW i \in 1 .. Len(l) PROVE StatusOf(m, i) = StatusOf(l, i)
  <2>1. Successes(m) \cap 1 .. i = Successes(l) \cap 1 .. i
    <3>1. Len(l) + 1 \notin 1 .. i
      BY <1>1
    <3>. QED
      BY <1>2, <3>1
  <2>2. Successes(l) \cap 1 .. i \in SUBSET (1 .. Len(l))
    BY <1>3
  <2>. QED
    BY <1>4, <2>1, <2>2 DEF StatusOf
<1>6. StatusOf(m, Len(l) + 1) = IF e.ok THEN e.status ELSE StatusOf(l, Len(l))
  <2>1. CASE e.ok
    <3>1. Successes(m) \cap 1 .. Len(l) + 1 \in SUBSET (1 .. Len(l) + 1)
      OBVIOUS
    <3>2. Len(l) + 1 \in Successes(m) \cap 1 .. Len(l) + 1
      BY <1>1, <1>2, <2>1
    <3>3. LastIn(Successes(m) \cap 1 .. Len(l) + 1) = Len(l) + 1
      BY <1>1, <3>1, <3>2, MaxAtTop, Len(l) + 1 \in Nat DEF LastIn
    <3>. QED
      BY <1>1, <2>1, <3>3 DEF StatusOf
  <2>2. CASE ~e.ok
    <3>1. Successes(m) \cap 1 .. Len(l) + 1 = Successes(l) \cap 1 .. Len(l)
      BY <1>1, <1>2, <1>3, <2>2
    <3>2. Successes(l) \cap 1 .. Len(l) \in SUBSET (1 .. Len(l))
      BY <1>3
    <3>. QED
      BY <1>4, <2>2, <3>1, <3>2 DEF StatusOf
  <2>. QED
    BY <2>1, <2>2
<1>. QED
  BY <1>5, <1>6 DEF m

(* The status is dated from the write if it changed, else from where it was. *)
LEMMA StretchAppended ==
    ASSUME NEW l \in Seq(Entry), NEW e \in Entry
    PROVE  Min(Stretch(Append(l, e))) =
               IF l = <<>> \/ StatusOf(Append(l, e), Len(l) + 1) # StatusOf(l, Len(l))
               THEN Len(l) + 1 ELSE Min(Stretch(l))
<1>. DEFINE m == Append(l, e)
<1>. DEFINE n == Len(l)
<1>1. Len(m) = n + 1 /\ n \in Nat /\ (l = <<>> <=> n = 0)
  BY Appended
<1>2. \A i \in 1 .. n : StatusOf(m, i) = StatusOf(l, i)
  BY StatusAppended
<1>. HIDE DEF m, n
<1>3. n + 1 \in Stretch(m)
  BY <1>1 DEF Stretch
<1>4. Stretch(m) \in SUBSET Nat /\ Stretch(m) \subseteq 1 .. n + 1
  BY <1>1 DEF Stretch
<1>5. Min(Stretch(m)) \in Stretch(m) /\ \A i \in Stretch(m) : Min(Stretch(m)) <= i
  BY <1>3, <1>4, MinIs
<1>6. CASE n = 0 \/ StatusOf(m, n + 1) # StatusOf(l, n)
  <2>1. ASSUME NEW i \in Stretch(m), i # n + 1 PROVE FALSE
    <3>1. i \in 1 .. n /\ n \in i .. Len(m) /\ n \in 1 .. n
      BY <1>1, <1>4, <2>1
    <3>2. StatusOf(m, n) = StatusOf(m, n + 1)
      BY <1>1, <3>1 DEF Stretch
    <3>. QED
      BY <1>2, <1>6, <3>1, <3>2
  <2>. QED
    BY <1>1, <1>5, <1>6, <2>1 DEF m, n
<1>7. CASE n # 0 /\ StatusOf(m, n + 1) = StatusOf(l, n)
  <2>1. Stretch(m) = Stretch(l) \cup {n + 1}
    <3>1. ASSUME NEW i \in 1 .. n PROVE i \in Stretch(m) <=> i \in Stretch(l)
      <4>1. i .. n + 1 = (i .. n) \cup {n + 1} /\ i .. n \subseteq 1 .. n
        BY <1>1
      <4>2. i \in Stretch(m) <=> \A j \in i .. n : StatusOf(m, j) = StatusOf(m, n + 1)
        BY <1>1, <4>1 DEF Stretch
      <4>3. i \in Stretch(l) <=> \A j \in i .. n : StatusOf(l, j) = StatusOf(l, n)
        BY DEF Stretch, n
      <4>. QED
        BY <1>2, <1>7, <4>1, <4>2, <4>3
    <3>2. Stretch(l) \subseteq 1 .. n
      BY DEF Stretch, n
    <3>3. 1 .. n + 1 = 1 .. n \cup {n + 1}
      BY <1>1
    <3>. QED
      BY <1>3, <1>4, <3>1, <3>2, <3>3
  <2>2. n \in Stretch(l) /\ Stretch(l) \in SUBSET Nat /\ Stretch(l) \subseteq 1 .. n
    BY <1>1, <1>7 DEF Stretch, n
  <2>3. Min(Stretch(l)) \in Stretch(l) /\ \A i \in Stretch(l) : Min(Stretch(l)) <= i
    BY <2>2, MinIs
  <2>4. Min(Stretch(m)) # n + 1
    <3>1. n \in Stretch(m)
      BY <2>1, <2>2
    <3>2. Min(Stretch(m)) <= n
      BY <1>5, <3>1
    <3>. QED
      BY <1>1, <3>2
  <2>5. /\ Min(Stretch(m)) <= Min(Stretch(l)) /\ Min(Stretch(l)) <= Min(Stretch(m))
        /\ Min(Stretch(m)) \in Nat /\ Min(Stretch(l)) \in Nat
    BY <1>4, <1>5, <2>1, <2>2, <2>3, <2>4
  <2>6. Min(Stretch(m)) = Min(Stretch(l))
    BY <2>5
  <2>. QED
    BY <1>1, <1>7, <2>6 DEF m, n
<1>. QED
  BY <1>6, <1>7

(* The terminal write appends what the scan found to the history, and makes  *)
(* the row its summary.                                                      *)
LEMMA WriteSummarised ==
    ASSUME TypeInv, HistoryInv, RecordScan,
           log' = Append(log, [ok |-> result.ok, status |-> result.status, fed |-> result.fed])
    PROVE  HistoryInv'
<1>. DEFINE e == [ok |-> result.ok, status |-> result.status, fed |-> result.fed]
<1>. DEFINE n == Len(log)
<1>0. e \in Entry
  BY DEF TypeInv, TypeOK, Result, Entry
<1>1. /\ log \in Seq(Entry) /\ n \in Nat /\ (log = <<>> <=> n = 0)
      /\ log' \in Seq(Entry) /\ log' # <<>> /\ Len(log') = n + 1
      /\ log'[n + 1] = e /\ \A i \in 1 .. n : log'[i] = log[i]
  BY <1>0, Appended DEF HistoryInv
<1>2. /\ Successes(log') = IF result.ok THEN Successes(log) \cup {n + 1} ELSE Successes(log)
      /\ Reports(log') = IF result.fed # "nosignal" THEN Reports(log) \cup {n + 1} ELSE Reports(log)
  BY <1>0, <1>1, SuccessesAppended
<1>3. StatusOf(log', n + 1) = IF result.ok THEN result.status ELSE StatusOf(log, n)
  BY <1>0, <1>1, StatusAppended
<1>4. Min(Stretch(log')) =
          IF n = 0 \/ StatusOf(log', n + 1) # StatusOf(log, n)
          THEN n + 1 ELSE Min(Stretch(log))
  BY <1>0, <1>1, StretchAppended
<1>5. /\ Successes(log) \in SUBSET (1 .. n) /\ Reports(log) \in SUBSET (1 .. n)
      /\ LastIn(Successes(log)) \in 0 .. n
  BY <1>1, LastInTyped DEF Successes, Reports
<1>f. e.ok = result.ok /\ e.fed = result.fed /\ e.fed \in {"nosignal"} \cup Versions
  BY <1>0 DEF Entry
<1>. HIDE DEF n, e
<1>6. ASSUME NEW S \in SUBSET (1 .. n)
      PROVE  LastIn(S \cup {n + 1}) = n + 1 /\ Max(S \cup {n + 1}) = n + 1
  <2>1. n + 1 \in Nat /\ \A i \in 1 .. n : i \in 1 .. n + 1
    BY <1>1
  <2>2. n + 1 \in 1 .. n + 1
    BY <1>1
  <2>3. S \cup {n + 1} \in SUBSET (1 .. n + 1)
    BY <2>1, <2>2
  <2>. QED
    BY <2>1, <2>3, MaxAtTop DEF LastIn
<1>7. LastIn(Successes(log')) = IF result.ok THEN n + 1 ELSE LastIn(Successes(log))
  BY <1>2, <1>5, <1>6
<1>8. LastIn(Reports(log')) = IF result.fed # "nosignal" THEN n + 1 ELSE LastIn(Reports(log))
  BY <1>2, <1>5, <1>6
<1>9. (IF Reports(log') = {} THEN "null" ELSE log'[Max(Reports(log'))].fed)
          = IF result.fed # "nosignal" THEN result.fed
            ELSE IF Reports(log) = {} THEN "null" ELSE log[Max(Reports(log))].fed
  <2>1. CASE result.fed # "nosignal"
    <3>1. Max(Reports(log')) = n + 1 /\ Reports(log') # {}
      BY <1>2, <1>5, <1>6, <2>1
    <3>. QED
      BY <1>1, <1>f, <2>1, <3>1
  <2>2. CASE result.fed = "nosignal"
    <3>1. Reports(log') = Reports(log)
      BY <1>2, <2>2
    <3>2. Reports(log) # {} => log'[Max(Reports(log))] = log[Max(Reports(log))]
      BY <1>1, <1>5, MaxIs
    <3>. QED
      BY <2>2, <3>1, <3>2
  <2>. QED
    BY <2>1, <2>2
<1>. DEFINE m == log'
<1>. DEFINE newest == IF Reports(m) = {} THEN "null" ELSE m[Max(Reports(m))].fed
<1>s. Summary(m) = [count |-> Len(m), status |-> StatusOf(m, Len(m)),
                    since |-> Min(Stretch(m)), success |-> LastIn(Successes(m)),
                    streak |-> Len(m) - LastIn(Successes(m)), fed |-> newest,
                    fedAt |-> LastIn(Reports(m))]
  BY Zenon DEF Summary
<1>m. /\ Len(m) = n + 1
      /\ StatusOf(m, n + 1) = IF result.ok THEN result.status ELSE StatusOf(log, n)
      /\ Min(Stretch(m)) = IF n = 0 \/ StatusOf(m, n + 1) # StatusOf(log, n)
                           THEN n + 1 ELSE Min(Stretch(log))
      /\ LastIn(Successes(m)) = IF result.ok THEN n + 1 ELSE LastIn(Successes(log))
      /\ LastIn(Reports(m)) = IF result.fed # "nosignal" THEN n + 1 ELSE LastIn(Reports(log))
      /\ newest = IF result.fed # "nosignal" THEN result.fed
                  ELSE IF Reports(log) = {} THEN "null" ELSE log[Max(Reports(log))].fed
  BY <1>1, <1>3, <1>4, <1>7, <1>8, <1>9
<1>. HIDE DEF m, newest
<1>10. row' = Summary(m)
  <2>1. CASE n = 0
    <3>1. row = NoRow /\ row.count = 0
      BY <1>1, <2>1 DEF HistoryInv, NoRow
    <3>2. Successes(log) = {} /\ Reports(log) = {}
      BY <1>5, <2>1
    <3>3. StatusOf(log, n) = "unknown" /\ LastIn(Successes(log)) = 0 /\ LastIn(Reports(log)) = 0
      BY <3>2 DEF StatusOf, LastIn
    <3>4. StatusAfter = StatusOf(m, n + 1) /\ SinceAfter(row.count + 1) = Min(Stretch(m))
      BY <1>m, <2>1, <3>1, <3>3 DEF StatusAfter, KnownStatus, SinceAfter
    <3>5. row.count + 1 = 1 /\ n + 1 = 1
      BY <2>1, <3>1
    <3>6. (IF result.ok THEN 0 ELSE 1) = n + 1 - LastIn(Successes(m))
      BY <1>m, <2>1, <3>3
    <3>. QED
      BY <1>m, <1>s, <2>1, <3>1, <3>2, <3>3, <3>4, <3>5, <3>6 DEF RecordScan
  <2>2. CASE n # 0
    <3>1. /\ row # NoRow /\ row.count = n /\ row.status = StatusOf(log, n)
          /\ row.since = Min(Stretch(log)) /\ row.success = LastIn(Successes(log))
          /\ row.streak = n - LastIn(Successes(log)) /\ row.fedAt = LastIn(Reports(log))
          /\ row.fed = IF Reports(log) = {} THEN "null" ELSE log[Max(Reports(log))].fed
      BY <1>1, <2>2 DEF HistoryInv, Summary, NoRow, n
    <3>2. row.streak + 1 = n + 1 - LastIn(Successes(log))
      BY <1>1, <1>5, <3>1
    <3>3. n + 1 - (n + 1) = 0
      BY <1>1
    <3>4. StatusAfter = StatusOf(m, n + 1) /\ SinceAfter(row.count + 1) = Min(Stretch(m))
      BY <1>m, <2>2, <3>1 DEF StatusAfter, KnownStatus, SinceAfter
    <3>5. (IF result.ok THEN 0 ELSE row.streak + 1) = n + 1 - LastIn(Successes(m))
      BY <1>m, <3>2, <3>3
    <3>6. /\ LastIn(Successes(m)) = IF result.ok THEN n + 1 ELSE row.success
          /\ LastIn(Reports(m)) = IF result.fed # "nosignal" THEN n + 1 ELSE row.fedAt
          /\ newest = IF result.fed # "nosignal" THEN result.fed ELSE row.fed
      BY <1>m, <3>1
    <3>7. row # NoRow /\ row.count = n /\ Len(m) = n + 1
      BY <1>m, <3>1
    <3>8. row' = [count   |-> row.count + 1, status |-> StatusAfter,
                  since   |-> SinceAfter(row.count + 1),
                  success |-> IF result.ok THEN row.count + 1 ELSE row.success,
                  streak  |-> IF result.ok THEN 0 ELSE row.streak + 1,
                  fed     |-> IF result.fed # "nosignal" THEN result.fed ELSE row.fed,
                  fedAt   |-> IF result.fed # "nosignal" THEN row.count + 1 ELSE row.fedAt]
      BY <3>7 DEF RecordScan
    <3>9. /\ row.count + 1 = Len(m) /\ n + 1 = Len(m)
          /\ Len(m) \in Nat /\ LastIn(Successes(m)) \in Nat
      BY <1>1, <1>5, <1>m, <3>7
    <3>10. /\ StatusAfter = StatusOf(m, Len(m))
           /\ (IF result.ok THEN 0 ELSE row.streak + 1) = Len(m) - LastIn(Successes(m))
           /\ (IF result.ok THEN row.count + 1 ELSE row.success) = LastIn(Successes(m))
           /\ (IF result.fed # "nosignal" THEN row.count + 1 ELSE row.fedAt)
                  = LastIn(Reports(m))
      BY <1>1, <3>4, <3>5, <3>6, <3>9
    <3>. QED
      BY <1>s, <3>4, <3>6, <3>8, <3>9, <3>10, Zenon
  <2>. QED
    BY <2>1, <2>2
<1>. QED
  BY <1>1, <1>10 DEF HistoryInv, m

LEMMA StepSummarised == TypeInv /\ HistoryInv /\ [MCNext]_<<vars, lossy, log>> => HistoryInv'
<1>. SUFFICES ASSUME TypeInv, HistoryInv, [MCNext]_<<vars, lossy, log>> PROVE HistoryInv'
  OBVIOUS
<1>1. CASE UNCHANGED <<row, log>>
  BY <1>1 DEF HistoryInv, Summary, StatusOf, Stretch, Successes, Reports
<1>2. CASE MCNext /\ row' # row
  <2>1. Record
    BY <1>2 DEF MCNext, Next, Request, Start, FetchWellKnown, ProbeRegister, FetchMetadata,
                Resolve, TryCandidate, FetchSupport, ClassifyCatches, ClassifyRaises, Tick,
                TimeOut, RecordSupport, Restart
  <2>. QED
    BY <1>2, <2>1, WriteSummarised DEF MCNext, Record
<1>. QED
  BY <1>1, <1>2 DEF MCNext, vars

(* Every behaviour of MCScanJob is one of ScanJob.                           *)
LEMMA MCTyped == MCSafety => []TypeInv
<1>1. MCInit => Init
  BY DEF MCInit
<1>2. [MCNext]_<<vars, lossy, log>> => [Next]_vars
  BY DEF MCNext, Next
<1>. QED
  BY <1>1, <1>2, InitTyped, StepTyped, PTL DEF MCSafety

(* The row, written from the row before alone, is what the whole history of  *)
(* the target says, over failures, timeouts and restarts.                    *)
THEOREM RowSumsUpHistory == MCSafety => []RowIsHistory
<1>1. MCInit => HistoryInv
  BY DEF MCInit, Init, HistoryInv
<1>. QED
  BY <1>1, StepSummarised, MCTyped, HistoryRow, PTL DEF MCSafety

-----------------------------------------------------------------------------
(* A scan of which nothing is lost.                                          *)

(* The answer of the first endpoint in a list that can be reached.           *)
Live(s) == {i \in DOMAIN s : s[i] # "dead"}

FirstReport(s) ==
    IF Live(s) = {} \/ s[Min(Live(s))] = "junk" THEN "nosignal" ELSE s[Min(Live(s))]

Endpoints == {"dead", "junk"} \cup Versions

Truthful == result.ok /\ result.status = TrueStatus

(* As long as nothing was lost the locals of the ladder are the server's own *)
(* answers, and the endpoints still to be tried report what all of them do.  *)
CleanInv ==
    ~lossy =>
        /\ pc \in {"register", "metadata"} => probe.base = TrueBase
        /\ pc = "register" => (probe.issuer <=> server.issuer)
        /\ pc = "metadata" =>
              /\ ~server.issuer /\ probe.legacy # "dangerously_open"
              /\ probe.legacy = RegisterVerdict(server.register[TrueBase])
        /\ pc \in Versioning \cup {"support", "record"} => Truthful
        /\ pc \in Versioning => ~result.doc
        /\ pc = "candidate" => FirstReport(probe.left) = TrueVersion
        /\ pc = "support" => FetchesSupport /\ result.fed = TrueVersion
        /\ pc = "record" /\ elapsed < Budget =>
              /\ result.fed = TrueVersion
              /\ result.doc <=> FetchesSupport /\ server.support

LEMMA TrueVersionIs == TrueVersion = FirstReport(server.found)
BY DEF TrueVersion, FirstReport, Live

(* An endpoint that cannot be reached may be left out.                       *)
LEMMA DeadSkipped ==
    ASSUME NEW s \in Seq(Endpoints), s # <<>>, Head(s) = "dead"
    PROVE  FirstReport(Tail(s)) = FirstReport(s)
<1>. DEFINE r == Tail(s)
<1>1. /\ r \in Seq(Endpoints) /\ Len(s) \in Nat \ {0} /\ Len(r) = Len(s) - 1
      /\ \A i \in 1 .. Len(r) : r[i] = s[i + 1]
      /\ s[1] = "dead" /\ DOMAIN s = 1 .. Len(s) /\ DOMAIN r = 1 .. Len(r)
  OBVIOUS
<1>. HIDE DEF r
<1>2. \A i \in Live(r) : i + 1 \in Live(s) /\ s[i + 1] = r[i] /\ i \in Nat
  BY <1>1 DEF Live
<1>3. \A i \in Live(s) : i - 1 \in Live(r) /\ i \in Nat
  <2>. SUFFICES ASSUME NEW i \in Live(s) PROVE i - 1 \in Live(r) /\ i \in Nat
    OBVIOUS
  <2>1. i \in 1 .. Len(s) /\ s[i] # "dead" /\ i # 1
    BY <1>1 DEF Live
  <2>2. i - 1 \in 1 .. Len(r) /\ i - 1 + 1 = i
    BY <1>1, <2>1
  <2>. QED
    BY <1>1, <2>1, <2>2 DEF Live
<1>4. CASE Live(r) = {}
  <2>1. Live(s) = {}
    BY <1>3, <1>4
  <2>. QED
    BY <1>4, <2>1 DEF FirstReport, r
<1>5. CASE Live(r) # {}
  <2>1. Live(s) # {} /\ Live(s) \in SUBSET Nat /\ Live(r) \in SUBSET Nat
    BY <1>2, <1>3, <1>5
  <2>2. /\ Min(Live(s)) \in Live(s) /\ \A y \in Live(s) : Min(Live(s)) <= y
        /\ Min(Live(r)) \in Live(r) /\ \A y \in Live(r) : Min(Live(r)) <= y
    BY <1>5, <2>1, MinIs
  <2>3. Min(Live(s)) <= Min(Live(r)) + 1 /\ Min(Live(r)) <= Min(Live(s)) - 1
    BY <1>2, <1>3, <2>2
  <2>4. Min(Live(s)) = Min(Live(r)) + 1
    BY <2>1, <2>2, <2>3
  <2>5. s[Min(Live(s))] = r[Min(Live(r))]
    BY <1>2, <2>2, <2>4
  <2>. QED
    BY <1>5, <2>1, <2>5 DEF FirstReport, r
<1>. QED
  BY <1>4, <1>5

(* One that can be reached, or the last, decides.                            *)
LEMMA HeadDecides ==
    ASSUME NEW s \in Seq(Endpoints), s # <<>>, Head(s) # "dead" \/ Tail(s) = <<>>
    PROVE  Reported(Head(s)) = FirstReport(s)
<1>1. /\ Len(s) \in Nat \ {0} /\ s[1] = Head(s) /\ DOMAIN s = 1 .. Len(s)
      /\ Len(Tail(s)) = Len(s) - 1 /\ Head(s) \in Endpoints
  OBVIOUS
<1>2. CASE Head(s) # "dead"
  <2>1. 1 \in Live(s) /\ Live(s) \in SUBSET Nat /\ \A i \in Live(s) : 1 <= i
    BY <1>1, <1>2 DEF Live
  <2>2. Min(Live(s)) \in Live(s) /\ Min(Live(s)) <= 1
    BY <2>1, MinIs
  <2>3. Min(Live(s)) = 1
    BY <2>1, <2>2
  <2>. QED
    BY <1>1, <1>2, <2>1, <2>3 DEF FirstReport, Reported, Endpoints, Versions
<1>3. CASE Head(s) = "dead"
  <2>1. Len(s) = 1
    BY <1>1, <1>3
  <2>2. Live(s) = {}
    BY <1>1, <1>3, <2>1 DEF Live
  <2>. QED
    BY <1>3, <2>2 DEF FirstReport, Reported, Versions
<1>. QED
  BY <1>2, <1>3

(* The phases after a truthful classification.                               *)
LEMMA ClassifiedClean ==
    ASSUME TypeInv, Classified(TrueStatus), ~result.doc, UNCHANGED <<server, elapsed>>
    PROVE  CleanInv'
<1>1. /\ result'.ok /\ result'.status = TrueStatus /\ ~result'.doc
      /\ TrueStatus' = TrueStatus
  BY DEF Classified, TypeInv, TypeOK, Result, TrueStatus, TrueBase
<1>2. Remaining > 0 => pc' = "resolve"
  BY DEF Classified
<1>3. ~(Remaining > 0) => pc' = "record" /\ ~(elapsed' < Budget)
  BY BudgetAssumption DEF Classified, Remaining, TypeInv, TypeOK
<1>. QED
  BY <1>1, <1>2, <1>3 DEF CleanInv, Truthful, Versioning

LEMMA StepClean ==
    TypeInv /\ WitnessInv /\ CleanInv /\ [MCNext]_<<vars, lossy, log>> => CleanInv'
<1>. SUFFICES ASSUME TypeInv, WitnessInv, CleanInv, [MCNext]_<<vars, lossy, log>>, ~lossy'
              PROVE  CleanInv'
  BY DEF CleanInv
<1>1. CASE UNCHANGED <<vars, lossy, log>>
  BY <1>1 DEF vars, job, CleanInv, Truthful, TrueStatus, TrueVersion, TrueBase
<1>2. CASE Tick /\ UNCHANGED lossy
  <2>1. ~lossy
    BY <1>2
  <2>. QED
    BY <1>2, <2>1 DEF Tick, CleanInv, Truthful, TrueStatus, TrueVersion, TrueBase, Waiting,
                      Classifying, Versioning
<1>3. CASE Start \/ Record \/ RecordSupport \/ Restart
  <2>1. pc' \in {"wellKnown", "recordSupport", "idle"}
    BY <1>3 DEF Start, Record, RecordSupport, Restart, ToIdle
  <2>. QED
    BY <2>1 DEF CleanInv, Versioning
<1>4. ASSUME NEW lost \in BOOLEAN, Request(lost), lossy' = (lossy \/ lost)
      PROVE  CleanInv'
  <2>0. ~lossy /\ Request(FALSE)
    <3>1. ~lossy /\ ~lost
      BY <1>4
    <3>2. lost = FALSE
      BY <3>1
    <3>. QED
      BY <1>4, <3>1, <3>2
  <2>f. pc \in Classifying => ~result.doc
    BY DEF WitnessInv, ResultFresh, NoResult
  <2>1. CASE FetchWellKnown(FALSE)
    BY <2>0, <2>1 DEF FetchWellKnown, CleanInv, TypeInv, TypeOK, Probe, TrueBase, Versioning
  <2>2. CASE ProbeRegister(FALSE)
    <3>. DEFINE legacy == RegisterVerdict(server.register[TrueBase])
    <3>1. /\ probe.base = TrueBase /\ (probe.issuer <=> server.issuer) /\ ~result.doc
          /\ probe' = [probe EXCEPT !.legacy = legacy] /\ Ladder(legacy)
          /\ UNCHANGED <<server, elapsed>>
      BY <2>0, <2>2, <2>f DEF CleanInv, ProbeRegister, Classifying
    <3>. HIDE DEF legacy
    <3>2. CASE legacy = "dangerously_open"
      <4>1. TrueStatus = legacy
        BY <3>2 DEF TrueStatus, legacy
      <4>. QED
        BY <3>1, <3>2, <4>1, ClassifiedClean DEF Ladder
    <3>3. CASE legacy # "dangerously_open" /\ probe.issuer
      <4>1. TrueStatus = "oauth"
        BY <3>1, <3>3 DEF TrueStatus, legacy
      <4>. QED
        BY <3>1, <3>3, <4>1, ClassifiedClean DEF Ladder
    <3>4. CASE legacy # "dangerously_open" /\ ~probe.issuer
      <4>1. pc' = "metadata" /\ probe'.base = TrueBase /\ probe'.legacy = legacy
        BY <3>1, <3>4 DEF Ladder, TypeInv, TypeOK, Probe
      <4>2. TrueBase' = TrueBase
        BY <3>1 DEF TrueBase
      <4>. QED
        BY <3>1, <3>4, <4>1, <4>2 DEF CleanInv, Versioning, legacy
    <3>. QED
      BY <3>2, <3>3, <3>4
  <2>3. CASE FetchMetadata(FALSE)
    <3>. DEFINE legacy == RegisterVerdict(server.register[TrueBase])
    <3>1. /\ probe.base = TrueBase /\ ~server.issuer /\ ~result.doc
          /\ probe.legacy = legacy /\ legacy # "dangerously_open"
          /\ UNCHANGED <<server, elapsed>>
      BY <2>0, <2>3, <2>f DEF CleanInv, FetchMetadata, Classifying
    <3>2. legacy \in {"open", "closed", "none"}
      BY <3>1, VerdictTyped DEF Verdicts
    <3>3. TrueStatus = IF server.metadata[TrueBase] THEN "oauth"
                       ELSE IF legacy \in {"open", "closed"} THEN legacy ELSE "unknown"
      BY <3>1, <3>2 DEF TrueStatus
    <3>4. Classified(TrueStatus)
      BY <2>3, <3>1, <3>3 DEF FetchMetadata
    <3>. QED
      BY <3>1, <3>4, ClassifiedClean
  <2>4. CASE Resolve(FALSE)
    <3>1. probe'.left = server.found
      BY <2>4 DEF Resolve, Candidates, TypeInv, TypeOK, Probe
    <3>2. pc' = "candidate" /\ UNCHANGED <<server, result>> /\ pc = "resolve"
      BY <2>4 DEF Resolve
    <3>. QED
      BY <2>0, <3>1, <3>2, TrueVersionIs
      DEF CleanInv, Versioning, Truthful, TrueStatus, TrueVersion, TrueBase
  <2>5. CASE TryCandidate(FALSE)
    <3>. DEFINE left == probe.left
    <3>1. /\ left \in Seq(Endpoints) /\ left # <<>> /\ FirstReport(left) = TrueVersion
          /\ Truthful /\ ~result.doc /\ pc = "candidate"
      BY <2>0, <2>5 DEF TryCandidate, CleanInv, Versioning, TypeInv, TypeOK, Probe, Endpoints
    <3>2. /\ UNCHANGED <<server, elapsed>> /\ TrueStatus' = TrueStatus
          /\ TrueVersion' = TrueVersion
      BY <2>5 DEF TryCandidate, TrueStatus, TrueVersion, TrueBase
    <3>3. CASE Head(left) = "dead" /\ Tail(left) # <<>>
      <4>1. probe'.left = Tail(left) /\ UNCHANGED <<pc, result>>
        BY <2>5, <3>3 DEF TryCandidate, TypeInv, TypeOK, Probe
      <4>2. FirstReport(Tail(left)) = TrueVersion
        BY <3>1, <3>3, DeadSkipped
      <4>. QED
        BY <3>1, <3>2, <4>1, <4>2 DEF CleanInv, Truthful
    <3>4. CASE Head(left) # "dead" \/ Tail(left) = <<>>
      <4>1. result' = [result EXCEPT !.fed = Reported(Head(left))] /\ ToSupport
        BY <2>5, <3>4 DEF TryCandidate
      <4>2. /\ result'.fed = TrueVersion /\ result'.ok /\ result'.status = TrueStatus
            /\ ~result'.doc
        BY <3>1, <3>4, <4>1, HeadDecides DEF Truthful, TypeInv, TypeOK, Result
      <4>3. CASE FetchesSupport /\ Remaining > 0
        BY <3>2, <4>1, <4>2, <4>3 DEF ToSupport, CleanInv, Truthful, Versioning
      <4>4. CASE ~(FetchesSupport /\ Remaining > 0)
        <5>1. pc' = "record" /\ (elapsed' < Budget => ~FetchesSupport)
          BY <3>2, <4>1, <4>4, BudgetAssumption DEF ToSupport, Remaining, TypeInv, TypeOK
        <5>. QED
          BY <3>2, <4>2, <5>1 DEF CleanInv, Truthful, Versioning
      <4>. QED
        BY <4>3, <4>4
    <3>. QED
      BY <3>3, <3>4
  <2>6. CASE FetchSupport(FALSE)
    <3>1. /\ pc' = "record" /\ FetchesSupport /\ Truthful /\ result.fed = TrueVersion
      BY <2>0, <2>6 DEF FetchSupport, CleanInv
    <3>2. /\ UNCHANGED <<server, elapsed>>
          /\ TrueStatus' = TrueStatus /\ TrueVersion' = TrueVersion
      BY <2>6 DEF FetchSupport, TrueStatus, TrueVersion, TrueBase
    <3>3. /\ result'.doc <=> server.support
          /\ result'.fed = result.fed /\ result'.ok = result.ok
          /\ result'.status = result.status
      BY <2>6 DEF FetchSupport, TypeInv, TypeOK, Result
    <3>. QED
      BY <3>1, <3>2, <3>3 DEF CleanInv, Truthful, Versioning
  <2>. QED
    BY <2>0, <2>1, <2>2, <2>3, <2>4, <2>5, <2>6 DEF Request
<1>. QED
  BY <1>1, <1>2, <1>3, <1>4 DEF MCNext

(* A scan of which nothing was lost records the most dangerous label that    *)
(* applies to the server, and with budget to spare its version and document  *)
(* too, whatever the server is and however many endpoints it has.            *)
THEOREM CleanScansTrue == MCSafety => []CleanScanIsTrue
<1>1. MCInit => CleanInv /\ WitnessInv
  <2>1. MCInit => CleanInv
    BY DEF MCInit, Init, CleanInv, Versioning
  <2>2. MCInit => WitnessInv
    BY DEF MCInit, Init, WitnessInv, ProbeWitnessed, ResultFresh, Witnessed, NoResult
  <2>. QED
    BY <2>1, <2>2
<1>2. [MCNext]_<<vars, lossy, log>> => [Next]_vars
  BY DEF MCNext, Next
<1>3. TypeInv /\ CleanInv => CleanScanIsTrue
  <2>. SUFFICES ASSUME TypeInv, CleanInv, pc = "record", ~lossy PROVE CleanScanIsTrue
    BY DEF CleanScanIsTrue
  <2>1. Truthful /\ (elapsed < Budget =>
            result.fed = TrueVersion /\ (result.doc <=> FetchesSupport /\ server.support))
    BY DEF CleanInv
  <2>2. result.doc \in BOOLEAN
    BY DEF TypeInv, TypeOK, Result
  <2>3. (result.doc <=> FetchesSupport /\ server.support) =>
            result.doc = (FetchesSupport /\ server.support)
    BY <2>2
  <2>. QED
    BY <2>1, <2>3 DEF CleanScanIsTrue, Truthful
<1>. QED
  BY <1>1, <1>2, <1>3, StepClean, StepWitnessed, MCTyped, PTL DEF MCSafety

=============================================================================
