-------------------------- MODULE GovernanceProofs --------------------------
(***************************************************************************)
(* Theorems about Governance, for all rules, all auto_config events, all    *)
(* versions of the suffix list and any number of edits and faults; and what *)
(* the history variables of MCGovernance say: an edit is lost only in a     *)
(* race with a read of the room, and no suffix list halt is slept on.       *)
(***************************************************************************)
EXTENDS MCGovernance, TLAPS

LEMMA VersionBounds ==
    /\ MaxVersion \in Nat /\ MaxEdits \in Nat /\ MaxFaults \in Nat
    /\ Vendored \in Versions /\ Versions \subseteq Int
    /\ NoFloor .. MaxVersion \subseteq Versions
BY BoundsAssumption DEF Versions, NoList, NoFloor

(* A reason mentions versions only, and there is one exactly for an unfit    *)
(* list.                                                                     *)
LEMMA ReasonFits ==
    ASSUME NEW c \in BOOLEAN, NEW f \in NoFloor .. MaxVersion, NEW a \in Versions
    PROVE  /\ Reason(c, f, a) \in Seq(Versions)
           /\ (Reason(c, f, a) # <<>>) = Unfit(c, f, a)
<1>1. f \in Versions
  BY VersionBounds
<1>2. <<a>> \in Seq(Versions) /\ <<a, f>> \in Seq(Versions) /\ <<>> \in Seq(Versions)
  BY <1>1
<1>3. <<a>> # <<>> /\ <<a, f>> # <<>>
  OBVIOUS
<1>4. Unfit(c, f, a) \in BOOLEAN
  BY DEF Unfit
<1>. QED
  BY <1>2, <1>3, <1>4 DEF Reason

(* What an auto_config event leaves behind, whatever it says.                *)
LEMMA ApplySettles ==
    ASSUME TypeOK, NEW c \in Contents \cup {Absent}, Apply(c)
    PROVE  /\ configHalted' \in BOOLEAN /\ cap' \in BOOLEAN
           /\ floor' \in NoFloor .. MaxVersion
           /\ pslHalt' \in Seq(Versions) /\ wake' \in BOOLEAN
           /\ ~configHalted' => pslHalt' = Reason(cap', floor', active)
<1>. USE VersionBounds
<1>1. c \in Content
  <2>1. Absent \in Content
    BY DEF Content, Absent, BadFloor, NoFloor
  <2>. QED
    BY <2>1, ContentsAssumption
<1>2. c.cap \in BOOLEAN /\ Greatest(c.floor, NoFloor) \in NoFloor .. MaxVersion
  BY <1>1 DEF Content, Greatest, NoFloor, BadFloor
<1>3. /\ configHalted' = ~Usable(c)
      /\ cap' \in BOOLEAN /\ floor' \in NoFloor .. MaxVersion
  BY <1>2 DEF Apply, TypeOK, Usable
<1>4. CASE Usable(c)
  <2>1. cap' = c.cap /\ floor' = Greatest(c.floor, NoFloor)
    BY <1>4 DEF Apply, Usable
  <2>2. Reevaluate(c.cap, Greatest(c.floor, NoFloor), active)
    BY <1>4 DEF Apply
  <2>3. Reason(c.cap, Greatest(c.floor, NoFloor), active) \in Seq(Versions)
    BY <1>2, ReasonFits DEF TypeOK
  <2>4. wake' \in BOOLEAN
    BY <2>2 DEF Reevaluate, TypeOK
  <2>. QED
    BY <1>3, <2>1, <2>2, <2>3, <2>4, <1>4 DEF Reevaluate
<1>5. CASE ~Usable(c)
  BY <1>3, <1>5 DEF Apply, TypeOK
<1>. QED
  BY <1>4, <1>5

-----------------------------------------------------------------------------
(* Type correctness.                                                         *)

Change == [rule : Rules, present : BOOLEAN] \cup [content : Contents]

(* An event delivered by the sync is one that operators may write.           *)
LEMMA DeliveredIsTyped ==
    ASSUME TypeOK, feed # <<>>
    PROVE  /\ Tail(feed) \in Seq(Change) /\ Head(feed) \in Change
           /\ "rule" \in DOMAIN Head(feed) =>
                  Head(feed).rule \in Rules /\ Head(feed).present \in BOOLEAN
           /\ "content" \in DOMAIN Head(feed) => Head(feed).content \in Contents
<1>1. feed \in Seq(Change)
  BY DEF TypeOK, Change
<1>2. Tail(feed) \in Seq(Change) /\ Head(feed) \in Change
  BY <1>1
<1>. QED
  BY <1>2 DEF Change

Reader == [pc : {"askRules", "gotRules", "askConfig", "gotConfig",
                 "started", "asleep", "done"},
           rules : SUBSET Rules, content : Contents \cup {Absent}, ok : BOOLEAN]

(* Between two reads the reader holds no answer. *)
LEMMA AskingIsTyped ==
    /\ Asking \in Reader
    /\ [Asking EXCEPT !.pc = "askConfig"] \in Reader
    /\ [Asking EXCEPT !.pc = "askConfig", !.ok = TRUE] \in Reader
BY DEF Asking, Reader

LEMMA TypePreserved == TypeOK /\ [Next]_vars => TypeOK'
<1>. SUFFICES ASSUME TypeOK, [Next]_vars PROVE TypeOK'
  OBVIOUS
<1>. USE VersionBounds
<1>1. CASE ReadStep
  <2>1. CASE AnswerRules
    BY <2>1 DEF AnswerRules, TypeOK, world, halt, config, list
  <2>2. CASE LoadRules
    <3>1. reader' \in Reader /\ fold' \in SUBSET Rules
      BY <2>2, AskingIsTyped DEF LoadRules, TypeOK
    <3>. QED
      BY <2>2, <3>1 DEF LoadRules, TypeOK, Reader, world, halt, config, list
  <2>3. CASE AnswerConfig
    BY <2>3 DEF AnswerConfig, TypeOK, world, halt, config, list
  <2>4. CASE RefreshConfig
    <3>1. reader.content \in Contents \cup {Absent} /\ reader.ok \in BOOLEAN
      BY DEF TypeOK
    <3>2. /\ configHalted' \in BOOLEAN /\ cap' \in BOOLEAN
          /\ floor' \in NoFloor .. MaxVersion
          /\ pslHalt' \in Seq(Versions) /\ wake' \in BOOLEAN
      BY <2>4, <3>1, ApplySettles DEF RefreshConfig
    <3>. QED
      BY <2>4, <3>1, <3>2 DEF RefreshConfig, Continue, ReadOk, Asking, TypeOK, world, list
  <2>5. CASE StartClocks
    BY <2>5 DEF StartClocks, TypeOK, world, halt, config
  <2>6. CASE Retry
    BY <2>6 DEF Retry, Asking, TypeOK, world, halt, config, list
  <2>. QED
    BY <1>1, <2>1, <2>2, <2>3, <2>4, <2>5, <2>6 DEF ReadStep
<1>2. CASE RulesUnreadable
  <2>1. reader' \in Reader
    BY <1>2, AskingIsTyped DEF RulesUnreadable
  <2>2. faults' \in 0 .. MaxFaults /\ rulesLoaded' = FALSE
    BY <1>2 DEF RulesUnreadable, TypeOK
  <2>. QED
    BY <1>2, <2>1, <2>2 DEF RulesUnreadable, TypeOK, Reader, world, halt, config, list
<1>3. CASE ConfigUnreadable
  <2>1. reader' \in Reader /\ live' = TRUE
    BY <1>3 DEF ConfigUnreadable, Continue, Asking, Reader, TypeOK
  <2>. QED
    BY <1>3, <2>1 DEF ConfigUnreadable, TypeOK, Reader, world, list
<1>4. ASSUME NEW e \in Editable, EditRule(e) PROVE TypeOK'
  <2>1. e \in Rules /\ [rule |-> e, present |-> e \notin room] \in Change
    BY RulesAssumption DEF Change
  <2>2. feed' \in Seq(Change)
    BY <1>4, <2>1 DEF EditRule, TypeOK, Change
  <2>. QED
    BY <1>4, <2>1, <2>2 DEF EditRule, TypeOK, Change, halt, config, list
<1>5. ASSUME NEW c \in Contents, EditConfig(c) PROVE TypeOK'
  <2>1. [content |-> c] \in Change
    BY DEF Change
  <2>2. feed' \in Seq(Change)
    BY <1>5, <2>1 DEF EditConfig, TypeOK, Change
  <2>. QED
    BY <1>5, <2>2 DEF EditConfig, TypeOK, Change, halt, config, list
<1>6. CASE Deliver
  <2>1. feed # <<>> /\ feed' = Tail(feed)
    BY <1>6 DEF Deliver
  <2>2. CASE UNCHANGED <<fold, halt>>
    BY <1>6, <2>1, <2>2, DeliveredIsTyped DEF Deliver, TypeOK, Change, halt, config, list
  <2>3. CASE /\ "rule" \in DOMAIN Head(feed)
             /\ fold' = IF Head(feed).present THEN fold \cup {Head(feed).rule}
                                              ELSE fold \ {Head(feed).rule}
             /\ UNCHANGED halt
    BY <1>6, <2>1, <2>3, DeliveredIsTyped DEF Deliver, TypeOK, Change, halt, config, list
  <2>4. CASE /\ "content" \in DOMAIN Head(feed)
             /\ Apply(Head(feed).content)
             /\ UNCHANGED fold
    <3>1. Head(feed).content \in Contents \cup {Absent}
      BY <2>1, <2>4, DeliveredIsTyped
    <3>2. /\ configHalted' \in BOOLEAN /\ cap' \in BOOLEAN
          /\ floor' \in NoFloor .. MaxVersion
          /\ pslHalt' \in Seq(Versions) /\ wake' \in BOOLEAN
      BY <2>4, <3>1, ApplySettles
    <3>. QED
      BY <1>6, <2>1, <2>4, <3>2, DeliveredIsTyped DEF Deliver, TypeOK, Change, list
  <2>. QED
    BY <1>6, <2>2, <2>3, <2>4 DEF Deliver
<1>7. ASSUME NEW v \in 1 .. MaxVersion, Publish(v) PROVE TypeOK'
  BY <1>7 DEF Publish, TypeOK, halt, config
<1>8. CASE FetchAdopts
  BY <1>8 DEF FetchAdopts, TypeOK, Versions, NoList, world, halt, config
<1>9. CASE FetchKeeps
  BY <1>9 DEF FetchKeeps, TypeOK, world, halt, config
<1>10. CASE Persist
  <2>1. Reason(cap, floor, active) \in Seq(Versions)
    BY ReasonFits DEF TypeOK
  <2>. QED
    BY <1>10, <2>1 DEF Persist, Reevaluate, TypeOK, world, config
<1>11. CASE FetchFails
  BY <1>11 DEF FetchFails, TypeOK, world, halt, config
<1>12. CASE TimerExpires
  BY <1>12 DEF TimerExpires, TypeOK, world, halt, config
<1>13. CASE Woken
  BY <1>13 DEF Woken, TypeOK, world, config
<1>14. CASE Restart
  <2>1. reader' \in Reader
    BY <1>14, AskingIsTyped DEF Restart
  <2>2. active' \in Versions /\ floor' \in NoFloor .. MaxVersion
    BY <1>14 DEF Restart, Greatest, NoFloor, TypeOK
  <2>3. faults' \in 0 .. MaxFaults /\ pslHalt' \in Seq(Versions)
    BY <1>14 DEF Restart, TypeOK
  <2>. QED
    BY <1>14, <2>1, <2>2, <2>3 DEF Restart, TypeOK, Reader, world
<1>15. CASE UNCHANGED vars
  BY <1>15 DEF vars, TypeOK, world, halt, config, list
<1>. QED
  BY <1>1, <1>2, <1>3, <1>4, <1>5, <1>6, <1>7, <1>8, <1>9, <1>10, <1>11, <1>12,
     <1>13, <1>14, <1>15 DEF Next, FetchStep

LEMMA TypeInitially == Init => TypeOK
<1>. SUFFICES ASSUME Init PROVE TypeOK
  OBVIOUS
<1>1. active \in Versions /\ cached \in Versions
  BY VersionBounds DEF Init, Greatest, Versions, NoList
<1>2. floor \in NoFloor .. MaxVersion /\ edits \in 0 .. MaxEdits /\ faults \in 0 .. MaxFaults
  BY VersionBounds DEF Init, NoFloor
<1>3. reader \in Reader
  BY AskingIsTyped DEF Init
<1>4. pslHalt \in Seq(Versions) /\ feed \in Seq(Change)
  BY DEF Init
<1>. QED
  BY <1>1, <1>2, <1>3, <1>4 DEF Init, TypeOK, Reader, Change

(* Type correctness: in particular min_psl_version is never left malformed,  *)
(* whatever event set it.                                                    *)
THEOREM TypeCorrect == Spec => []TypeOK
BY TypeInitially, TypePreserved, PTL DEF Spec

-----------------------------------------------------------------------------
(* The halts. FloorHaltExact is not inductive by itself: between the         *)
(* adoption of a list and its caching the reason on record is that of the    *)
(* list before, so all that holds then is that no reason means a fit list.   *)
(* That the fold is right about the rules nobody edits rests on the answer a *)
(* reader holds, and on what the sync may still deliver.                     *)

Fixed == Rules \ Editable

FloorInv ==
    ~configHalted =>
        /\ loop # "persisting" => pslHalt = Reason(cap, floor, active)
        /\ pslHalt = <<>> => ~Unfit(cap, floor, active)

FoldInv ==
    /\ rulesLoaded => \A e \in Fixed : (e \in fold) = (e \in room)
    /\ reader.pc = "gotRules" => \A e \in Fixed : (e \in reader.rules) = (e \in room)
    /\ \A i \in 1 .. Len(feed) :
           "rule" \in DOMAIN feed[i] => feed[i].rule \in Editable

(* The refresh loop runs only once start() is through with its reads. *)
LoopInv ==
    /\ ~live \/ reader.pc = "started" => loop = "off"
    /\ reader.pc = "started" => live

HaltInv == TypeOK /\ FloorInv /\ FoldInv /\ LoopInv

LEMMA HaltInvImplies ==
    ASSUME HaltInv PROVE WritesAreSafe /\ FloorHaltExact
<1>1. WritesAreSafe
  BY DEF HaltInv, FloorInv, FoldInv, Fixed, WritesAreSafe, Halted
<1>2. ASSUME ~configHalted, loop # "persisting"
      PROVE  (pslHalt # <<>>) = Unfit(cap, floor, active)
  BY <1>2, ReasonFits DEF HaltInv, FloorInv, TypeOK
<1>3. FloorHaltExact
  BY <1>2 DEF FloorHaltExact
<1>. QED
  BY <1>1, <1>3

(* The suffix list halt through every step.                                  *)
LEMMA FloorPreserved ==
    ASSUME TypeOK, FloorInv, LoopInv, [Next]_vars PROVE FloorInv'
<1>1. ASSUME NEW c \in Contents \cup {Absent}, Apply(c), UNCHANGED list PROVE FloorInv'
  <2>1. /\ ~configHalted' => pslHalt' = Reason(cap', floor', active)
        /\ cap' \in BOOLEAN /\ floor' \in NoFloor .. MaxVersion
    BY <1>1, ApplySettles
  <2>2. (Reason(cap', floor', active) # <<>>) = Unfit(cap', floor', active)
    BY <2>1, ReasonFits DEF TypeOK
  <2>. QED
    BY <1>1, <2>1, <2>2 DEF FloorInv, list
<1>2. ASSUME UNCHANGED <<halt, active>>, loop' = "persisting" => loop = "persisting",
             loop = "persisting" => loop' = "persisting"
      PROVE  FloorInv'
  BY <1>2 DEF FloorInv, halt, config
<1>3. ASSUME UNCHANGED <<config, pslHalt, active>>, loop # "persisting", loop' # "persisting"
      PROVE  FloorInv'
  BY <1>3 DEF FloorInv, config
<1>4. CASE RefreshConfig
  BY <1>4, <1>1 DEF RefreshConfig, TypeOK
<1>5. CASE Deliver
  <2>1. feed # <<>> /\ UNCHANGED list
    BY <1>5 DEF Deliver
  <2>2. CASE UNCHANGED halt
    BY <2>1, <2>2, <1>2 DEF list
  <2>3. CASE "content" \in DOMAIN Head(feed) /\ Apply(Head(feed).content)
    BY <2>1, <2>3, <1>1, DeliveredIsTyped
  <2>. QED
    BY <1>5, <2>2, <2>3 DEF Deliver
<1>6. CASE ConfigUnreadable \/ Restart
  BY <1>6 DEF ConfigUnreadable, Restart, FloorInv
<1>7. CASE FetchAdopts
  <2>1. active \in Int /\ active' \in Int /\ active' > active /\ floor \in Int
    BY <1>7, VersionBounds DEF FetchAdopts, TypeOK
  <2>2. Unfit(cap, floor, active') => Unfit(cap, floor, active)
    BY <2>1 DEF Unfit
  <2>. QED
    BY <1>7, <2>2 DEF FetchAdopts, FloorInv, halt, config
<1>8. CASE Persist
  <2>1. (Reason(cap, floor, active) # <<>>) = Unfit(cap, floor, active)
    BY ReasonFits DEF TypeOK
  <2>. QED
    BY <1>8, <2>1 DEF Persist, Reevaluate, FloorInv, config
<1>9. CASE AnswerRules \/ LoadRules \/ AnswerConfig \/ Retry \/ RulesUnreadable
           \/ UNCHANGED vars
  BY <1>9, <1>2 DEF AnswerRules, LoadRules, AnswerConfig, Retry, RulesUnreadable, vars, list
<1>10. CASE \/ \E e \in Editable : EditRule(e)
            \/ \E c \in Contents : EditConfig(c)
            \/ \E v \in 1 .. MaxVersion : Publish(v)
  BY <1>10, <1>2 DEF EditRule, EditConfig, Publish, list
<1>11. CASE FetchKeeps \/ FetchFails \/ TimerExpires \/ Woken
  BY <1>11, <1>3 DEF FetchKeeps, FetchFails, TimerExpires, Woken, halt
<1>12. CASE StartClocks
  BY <1>12, <1>3 DEF StartClocks, LoopInv, halt
<1>. QED
  BY <1>4, <1>5, <1>6, <1>7, <1>8, <1>9, <1>10, <1>11, <1>12
     DEF Next, ReadStep, FetchStep

LEMMA LoopPreserved ==
    ASSUME TypeOK, LoopInv, [Next]_vars PROVE LoopInv'
<1>. USE DEF LoopInv
<1>1. ASSUME NEW ok \in BOOLEAN, Continue(ok), UNCHANGED list PROVE LoopInv'
  BY <1>1 DEF Continue, list, TypeOK, Asking
<1>2. CASE RefreshConfig
  BY <1>2, <1>1 DEF RefreshConfig, ReadOk, TypeOK
<1>3. CASE ConfigUnreadable
  BY <1>3, <1>1 DEF ConfigUnreadable
<1>4. CASE StartClocks
  BY <1>4 DEF StartClocks, TypeOK
<1>5. CASE AnswerRules \/ AnswerConfig \/ UNCHANGED vars
  <2>1. UNCHANGED <<live, loop>> /\ (reader'.pc = "started" => reader.pc = "started")
    BY <1>5 DEF AnswerRules, AnswerConfig, vars, list, TypeOK
  <2>. QED
    BY <2>1
<1>6. CASE LoadRules \/ RulesUnreadable \/ Retry \/ Restart
  <2>1. reader'.pc # "started"
    <3>1. CASE LoadRules
      BY <3>1 DEF LoadRules, Asking
    <3>2. CASE RulesUnreadable
      BY <3>2 DEF RulesUnreadable, Asking
    <3>3. CASE Retry \/ Restart
      BY <3>3 DEF Retry, Restart, Asking
    <3>. QED
      BY <1>6, <3>1, <3>2, <3>3
  <2>2. UNCHANGED <<live, loop>> \/ loop' = "off"
    BY <1>6 DEF LoadRules, RulesUnreadable, Retry, Restart, list
  <2>. QED
    BY <2>1, <2>2
<1>7. CASE FetchAdopts \/ FetchKeeps \/ Persist \/ FetchFails \/ TimerExpires \/ Woken
  BY <1>7 DEF FetchAdopts, FetchKeeps, Persist, FetchFails, TimerExpires, Woken
<1>8. CASE \/ \E e \in Editable : EditRule(e)
           \/ \E c \in Contents : EditConfig(c)
           \/ \E v \in 1 .. MaxVersion : Publish(v)
           \/ Deliver
  BY <1>8 DEF EditRule, EditConfig, Publish, Deliver, list
<1>. QED
  BY <1>2, <1>3, <1>4, <1>5, <1>6, <1>7, <1>8 DEF Next, ReadStep, FetchStep

(* The fold, of the rules nobody edits.                                      *)
LEMMA FoldPreserved ==
    ASSUME TypeOK, FoldInv, [Next]_vars PROVE FoldInv'
<1>. USE DEF FoldInv, Fixed
<1>1. CASE AnswerRules
  <2>1. reader'.rules = room /\ UNCHANGED <<room, feed, fold, rulesLoaded>>
    BY <1>1 DEF AnswerRules, world, TypeOK
  <2>. QED
    BY <2>1
<1>2. CASE LoadRules
  <2>1. fold' = reader.rules /\ reader.pc = "gotRules" /\ UNCHANGED <<room, feed>>
    BY <1>2 DEF LoadRules, world
  <2>2. reader'.pc = "askConfig"
    BY <1>2 DEF LoadRules, Asking
  <2>. QED
    BY <2>1, <2>2
<1>3. CASE RulesUnreadable
  <2>1. rulesLoaded' = FALSE /\ UNCHANGED feed /\ reader'.pc = "askConfig"
    BY <1>3 DEF RulesUnreadable, Asking, world
  <2>. QED
    BY <2>1
<1>4. CASE AnswerConfig \/ RefreshConfig \/ ConfigUnreadable \/ StartClocks \/ Retry
  <2>1. UNCHANGED <<room, feed, fold, rulesLoaded>>
    BY <1>4 DEF AnswerConfig, RefreshConfig, ConfigUnreadable, StartClocks, Retry, world
  <2>2. CASE AnswerConfig \/ StartClocks
    BY <2>1, <2>2 DEF AnswerConfig, StartClocks, TypeOK
  <2>3. CASE RefreshConfig \/ ConfigUnreadable \/ Retry
    <3>1. reader'.pc # "gotRules"
      <4>1. ASSUME NEW ok \in BOOLEAN, Continue(ok) PROVE reader'.pc # "gotRules"
        BY <4>1 DEF Continue, Asking
      <4>2. CASE RefreshConfig
        BY <4>1, <4>2 DEF RefreshConfig, ReadOk, TypeOK
      <4>3. CASE ConfigUnreadable
        BY <4>1, <4>3 DEF ConfigUnreadable
      <4>4. CASE Retry
        BY <4>4 DEF Retry, Asking
      <4>. QED
        BY <2>3, <4>2, <4>3, <4>4
    <3>. QED
      BY <2>1, <3>1
  <2>. QED
    BY <1>4, <2>2, <2>3
<1>5. ASSUME NEW e \in Editable, EditRule(e) PROVE FoldInv'
  <2>1. \A d \in Fixed : (d \in room') = (d \in room)
    BY <1>5 DEF EditRule
  <2>2. /\ Len(feed') = Len(feed) + 1 /\ Len(feed) \in Nat
        /\ \A i \in 1 .. Len(feed) : feed'[i] = feed[i]
        /\ feed'[Len(feed) + 1] = [rule |-> e, present |-> e \notin room]
    BY <1>5 DEF EditRule, TypeOK
  <2>3. feed'[Len(feed) + 1].rule \in Editable
    BY <2>2
  <2>4. \A i \in 1 .. Len(feed') : "rule" \in DOMAIN feed'[i] => feed'[i].rule \in Editable
    BY <2>2, <2>3
  <2>. QED
    BY <1>5, <2>1, <2>4 DEF EditRule
<1>6. ASSUME NEW c \in Contents, EditConfig(c) PROVE FoldInv'
  <2>1. /\ Len(feed') = Len(feed) + 1 /\ Len(feed) \in Nat
        /\ \A i \in 1 .. Len(feed) : feed'[i] = feed[i]
        /\ feed'[Len(feed) + 1] = [content |-> c]
    BY <1>6 DEF EditConfig, TypeOK
  <2>2. "rule" \notin DOMAIN feed'[Len(feed) + 1]
    BY <2>1
  <2>3. \A i \in 1 .. Len(feed') : "rule" \in DOMAIN feed'[i] => feed'[i].rule \in Editable
    BY <2>1, <2>2
  <2>. QED
    BY <1>6, <2>3 DEF EditConfig
<1>7. CASE Deliver
  <2>1. feed # <<>> /\ feed' = Tail(feed) /\ UNCHANGED <<room, reader, rulesLoaded>>
    BY <1>7 DEF Deliver
  <2>2. feed \in Seq(Change)
    BY DEF TypeOK, Change
  <2>3. /\ Len(feed') = Len(feed) - 1 /\ Len(feed) \in Nat \ {0}
        /\ \A i \in 1 .. Len(feed') : feed'[i] = feed[i + 1]
        /\ Head(feed) = feed[1]
    BY <2>1, <2>2
  <2>4. \A i \in 1 .. Len(feed') : "rule" \in DOMAIN feed'[i] => feed'[i].rule \in Editable
    BY <2>3
  <2>5. "rule" \in DOMAIN Head(feed) => Head(feed).rule \in Editable
    BY <2>3
  <2>6. \A e \in Fixed : (e \in fold') = (e \in fold)
    BY <1>7, <2>5 DEF Deliver
  <2>. QED
    BY <2>1, <2>4, <2>6
<1>8. CASE Restart
  <2>1. rulesLoaded' = FALSE /\ UNCHANGED feed /\ reader'.pc = "askRules"
    BY <1>8 DEF Restart, Asking, world
  <2>. QED
    BY <2>1
<1>9. CASE \/ FetchAdopts \/ FetchKeeps \/ Persist \/ FetchFails \/ TimerExpires \/ Woken
           \/ \E v \in 1 .. MaxVersion : Publish(v)
           \/ UNCHANGED vars
  <2>1. UNCHANGED <<room, feed, reader, fold, rulesLoaded>>
    BY <1>9 DEF FetchAdopts, FetchKeeps, Persist, FetchFails, TimerExpires, Woken,
                Publish, vars, world
  <2>. QED
    BY <2>1
<1>. QED
  BY <1>1, <1>2, <1>3, <1>4, <1>5, <1>6, <1>7, <1>8, <1>9 DEF Next, ReadStep, FetchStep

LEMMA HaltInvInitially == Init => HaltInv
<1>. SUFFICES ASSUME Init PROVE HaltInv
  OBVIOUS
<1>1. FoldInv
  BY DEF Init, FoldInv, Asking
<1>2. FloorInv /\ LoopInv
  BY DEF Init, FloorInv, LoopInv, Asking
<1>. QED
  BY <1>1, <1>2, TypeInitially DEF HaltInv

LEMMA HaltInvPreserved == HaltInv /\ [Next]_vars => HaltInv'
BY TypePreserved, FloorPreserved, FoldPreserved, LoopPreserved DEF HaltInv

LEMMA HaltInvariant == Spec => []HaltInv
BY HaltInvInitially, HaltInvPreserved, PTL DEF Spec

(* No write decision is taken over a configuration that the active list      *)
(* cannot enforce or over a fold that misses a rule nobody touched, whoever  *)
(* of the events, the reads and the refresh loop moved last.                 *)
THEOREM WritesSafe == Spec => []WritesAreSafe
BY HaltInvariant, HaltInvImplies, PTL

(* The suffix list halt follows cap, floor and active list, all three moved  *)
(* by different callers.                                                     *)
THEOREM FloorHalts == Spec => []FloorHaltExact
BY HaltInvariant, HaltInvImplies, PTL

Watched == <<vars, raced, chased>>

-----------------------------------------------------------------------------
(* The halt that is being chased.                                            *)

ChaseInv == loop # "off" /\ pslHalt # <<>> => wake \/ chased = pslHalt

(* A halt that is set or kept is still covered: a new one by the wake-up. *)
LEMMA ReevaluateChased ==
    ASSUME NEW c, NEW f, NEW a, Reevaluate(c, f, a), loop # "off",
           ChaseInv, chased' = chased
    PROVE  pslHalt' # <<>> => wake' \/ chased' = pslHalt'
BY DEF Reevaluate, ChaseInv

LEMMA ApplyChased ==
    ASSUME NEW c, Apply(c), ChaseInv, loop # "off", chased' = chased
    PROVE  pslHalt' # <<>> => wake' \/ chased' = pslHalt'
<1>1. CASE Usable(c)
  BY <1>1, ReevaluateChased DEF Apply
<1>2. CASE ~Usable(c)
  BY <1>2 DEF Apply, ChaseInv
<1>. QED
  BY <1>1, <1>2

LEMMA StepChased == LoopInv /\ ChaseInv /\ [MCNext]_Watched => ChaseInv'
<1>. SUFFICES ASSUME LoopInv, ChaseInv, [MCNext]_Watched PROVE ChaseInv'
  OBVIOUS
<1>0. CASE UNCHANGED Watched
  BY <1>0 DEF Watched, vars, halt, list, config, ChaseInv
<1>n. ASSUME MCNext
      PROVE  Next /\ chased' = IF loop' = "fetching" /\ loop # "fetching"
                               THEN pslHalt ELSE chased
  BY <1>n DEF MCNext
<1>1. ASSUME MCNext, UNCHANGED <<loop, pslHalt, wake>> PROVE ChaseInv'
  BY <1>1, <1>n DEF ChaseInv
<1>2. ASSUME MCNext, NEW c, Apply(c), UNCHANGED list PROVE ChaseInv'
  <2>1. loop' = loop
    BY <1>2 DEF list
  <2>2. chased' = chased
    BY <1>2, <1>n, <2>1
  <2>. QED
    BY <1>2, <2>1, <2>2, ApplyChased DEF ChaseInv
<1>3. ASSUME MCNext, StartClocks PROVE ChaseInv'
  <2>1. reader.pc = "started" /\ loop = "off"
    BY <1>3 DEF StartClocks, LoopInv
  <2>2. UNCHANGED <<pslHalt, wake>>
    BY <1>3 DEF StartClocks, halt
  <2>3. loop' = "fetching" \/ pslHalt = <<>>
    BY <1>3 DEF StartClocks, Degraded
  <2>. QED
    BY <1>3, <1>n, <2>1, <2>2, <2>3 DEF ChaseInv
<1>4. ASSUME MCNext, Persist PROVE ChaseInv'
  <2>1. loop = "persisting" /\ loop' = "sleeping" /\ Reevaluate(cap, floor, active)
    BY <1>4 DEF Persist
  <2>2. chased' = chased
    BY <1>4, <1>n, <2>1
  <2>. QED
    BY <2>1, <2>2, ReevaluateChased DEF ChaseInv
<1>5. ASSUME MCNext, TimerExpires \/ Woken PROVE ChaseInv'
  <2>1. loop = "sleeping" /\ loop' = "fetching" /\ pslHalt' = pslHalt
    BY <1>5 DEF TimerExpires, Woken, halt
  <2>. QED
    BY <1>5, <1>n, <2>1 DEF ChaseInv
<1>6. ASSUME MCNext, FetchAdopts \/ FetchKeeps \/ FetchFails PROVE ChaseInv'
  <2>1. loop = "fetching" /\ loop' # "fetching" /\ UNCHANGED <<pslHalt, wake>>
    BY <1>6 DEF FetchAdopts, FetchKeeps, FetchFails, halt
  <2>. QED
    BY <1>6, <1>n, <2>1 DEF ChaseInv
<1>7. ASSUME Restart PROVE ChaseInv'
  BY <1>7 DEF Restart, ChaseInv
<1>8. ASSUME MCNext, ReadStep PROVE ChaseInv'
  <2>1. CASE AnswerRules \/ LoadRules \/ AnswerConfig \/ Retry
    BY <1>1, <1>8, <2>1 DEF AnswerRules, LoadRules, AnswerConfig, Retry, list, halt
  <2>2. CASE RefreshConfig
    BY <1>2, <1>8, <2>2 DEF RefreshConfig
  <2>. QED
    BY <1>3, <1>8, <2>1, <2>2 DEF ReadStep
<1>9. ASSUME MCNext, RulesUnreadable \/ ConfigUnreadable PROVE ChaseInv'
  BY <1>1, <1>9 DEF RulesUnreadable, ConfigUnreadable, list, halt
<1>10. ASSUME MCNext, \/ \E e \in Editable : EditRule(e)
                      \/ \E c \in Contents : EditConfig(c)
                      \/ \E v \in 1 .. MaxVersion : Publish(v)
       PROVE  ChaseInv'
  BY <1>1, <1>10 DEF EditRule, EditConfig, Publish, list, halt
<1>11. ASSUME MCNext, Deliver PROVE ChaseInv'
  <2>1. UNCHANGED halt \/ Apply(Head(feed).content)
    BY <1>11 DEF Deliver
  <2>2. UNCHANGED list
    BY <1>11 DEF Deliver
  <2>. QED
    BY <1>1, <1>2, <1>11, <2>1, <2>2 DEF halt, list
<1>. QED
  BY <1>0, <1>n, <1>3, <1>4, <1>5, <1>6, <1>7, <1>8, <1>9, <1>10, <1>11
     DEF Next, FetchStep, ReadStep

-----------------------------------------------------------------------------
LEMMA StepIsNext == [MCNext]_Watched => [Next]_vars
BY DEF MCNext, Watched

LEMMA HaltInvKept == MCSafety => []HaltInv
<1>1. MCInit => HaltInv
  BY HaltInvInitially DEF MCInit
<1>. QED
  BY <1>1, StepIsNext, HaltInvPreserved, PTL DEF MCSafety, Watched

(* The refresh loop never sleeps on a suffix list halt it has not fetched    *)
(* for: a halt raised while it fetches or persists leaves a wake-up behind.  *)
THEOREM HaltsAreChased == MCSafety => []HaltIsChased
<1>1. MCInit => ChaseInv
  BY DEF MCInit, Init, ChaseInv
<1>2. ChaseInv => HaltIsChased
  BY DEF ChaseInv, HaltIsChased
<1>3. HaltInv => LoopInv
  BY DEF HaltInv
<1>. QED
  BY <1>1, <1>2, <1>3, StepChased, HaltInvKept, PTL DEF MCSafety, Watched

-----------------------------------------------------------------------------
(* What the bot holds against what the room holds. The last undelivered      *)
(* change of a rule is its state in the room; a rule with none is as the     *)
(* room has it, once it was read without a race; and so for the event.       *)

About(change, e)   == "rule" \in DOMAIN change /\ change.rule = e
Configures(change) == "content" \in DOMAIN change

LastRule(f, i, e) ==
    About(f[i], e) /\ \A j \in 1 .. Len(f) : j > i => ~About(f[j], e)
LastConfig(f, i) ==
    Configures(f[i]) /\ \A j \in 1 .. Len(f) : j > i => ~Configures(f[j])

FeedInv ==
    \A i \in 1 .. Len(feed) :
        /\ \A e \in Rules : LastRule(feed, i, e) => (feed[i].present <=> e \in room)
        /\ LastConfig(feed, i) => feed[i].content = event

ReadsInv ==
    /\ reader.pc \in {"askRules", "gotRules"} => ~reader.ok
    /\ reader.pc \in {"started", "asleep", "done"} => live
    /\ reader.pc = "done" => reader.ok
    /\ reader.pc = "gotRules" /\ ~raced => reader.rules = room
    /\ reader.pc = "gotConfig" /\ ~raced => reader.content = event

RulesSettled ==
    /\ \A e \in Rules : (\A i \in 1 .. Len(feed) : ~About(feed[i], e)) =>
                            (e \in fold <=> e \in room)
    /\ ~live => fold = room

ConfigIs(c) ==
    /\ configHalted = ~Usable(c)
    /\ Usable(c) => cap = c.cap /\ floor = Greatest(c.floor, NoFloor)

ConfigSettled == (\A i \in 1 .. Len(feed) : ~Configures(feed[i])) => ConfigIs(event)

SettledInv ==
    reader.ok /\ ~raced =>
        /\ RulesSettled
        /\ reader.pc \in {"started", "done"} => ConfigSettled

(* The feed is a sequence of changes, each of a rule or of the event.        *)
LEMMA FeedTyped == TypeOK => feed \in Seq(Change)
BY DEF TypeOK, Change

LEMMA ChangeKinds ==
    ASSUME NEW c \in Contents, NEW e \in Editable, NEW p \in BOOLEAN
    PROVE  LET byRule == [rule |-> e, present |-> p]
               byConfig == [content |-> c]
           IN  /\ byRule \in Change /\ byConfig \in Change
               /\ About(byRule, e) /\ ~Configures(byRule)
               /\ \A x : About(byRule, x) => x = e
               /\ Configures(byConfig) /\ \A x : ~About(byConfig, x)
BY RulesAssumption DEF Change, About, Configures

LEMMA TailShifts ==
    ASSUME NEW S, NEW s \in Seq(S), s # <<>>
    PROVE  /\ Len(s) \in Nat \ {0} /\ Len(Tail(s)) = Len(s) - 1
           /\ \A i \in 1 .. Len(Tail(s)) : i + 1 \in 1 .. Len(s) /\ Tail(s)[i] = s[i + 1]
           /\ Head(s) = s[1]
OBVIOUS

LEMMA AppendKeeps ==
    ASSUME NEW S, NEW s \in Seq(S), NEW x \in S
    PROVE  /\ Len(s) \in Nat /\ Len(Append(s, x)) = Len(s) + 1
           /\ Append(s, x)[Len(s) + 1] = x
           /\ \A i \in 1 .. Len(s) : i # Len(s) + 1 /\ Append(s, x)[i] = s[i]
OBVIOUS

(* Dropping the head of a feed leaves the last changes as they were; a rule  *)
(* or an event of which no change is left had its last one in the head.      *)
LEMMA HeadDelivered ==
    ASSUME NEW f \in Seq(Change), f # <<>>
    PROVE  /\ \A i \in 1 .. Len(Tail(f)) :
                  /\ i + 1 \in 1 .. Len(f) /\ Tail(f)[i] = f[i + 1]
                  /\ \A e : LastRule(Tail(f), i, e) => LastRule(f, i + 1, e)
                  /\ LastConfig(Tail(f), i) => LastConfig(f, i + 1)
           /\ 1 \in 1 .. Len(f) /\ Head(f) = f[1]
           /\ \A e : (\A i \in 1 .. Len(Tail(f)) : ~About(Tail(f)[i], e)) =>
                  IF About(Head(f), e) THEN LastRule(f, 1, e)
                  ELSE \A i \in 1 .. Len(f) : ~About(f[i], e)
           /\ (\A i \in 1 .. Len(Tail(f)) : ~Configures(Tail(f)[i])) =>
                  IF Configures(Head(f)) THEN LastConfig(f, 1)
                  ELSE \A i \in 1 .. Len(f) : ~Configures(f[i])
<1>1. /\ Len(f) \in Nat \ {0} /\ Len(Tail(f)) = Len(f) - 1
      /\ \A i \in 1 .. Len(Tail(f)) : i + 1 \in 1 .. Len(f) /\ Tail(f)[i] = f[i + 1]
      /\ Head(f) = f[1]
  BY TailShifts
<1>. DEFINE g == Tail(f)
<1>2. \A j \in 1 .. Len(f) : j > 1 => j - 1 \in 1 .. Len(g) /\ g[j - 1] = f[j]
  <2>. TAKE j \in 1 .. Len(f)
  <2>. HAVE j > 1
  <2>1. j - 1 \in 1 .. Len(g) /\ (j - 1) + 1 = j
    BY <1>1
  <2>. QED
    BY <1>1, <2>1
<1>3. \A i \in 1 .. Len(g), j \in 1 .. Len(f) :
          j > i + 1 => j > 1 /\ j - 1 > i
  BY <1>1
<1>4. /\ Len(f) \in Nat \ {0} /\ Len(g) = Len(f) - 1
      /\ \A i \in 1 .. Len(g) : i + 1 \in 1 .. Len(f) /\ g[i] = f[i + 1]
  BY <1>1
<1>. HIDE DEF g
<1>5. \A i \in 1 .. Len(g) :
          /\ \A e : LastRule(g, i, e) => LastRule(f, i + 1, e)
          /\ LastConfig(g, i) => LastConfig(f, i + 1)
  <2>. TAKE i \in 1 .. Len(g)
  <2>1. ASSUME NEW e, LastRule(g, i, e) PROVE LastRule(f, i + 1, e)
    <3>1. \A j \in 1 .. Len(f) : j > i + 1 => ~About(f[j], e)
      <4>. SUFFICES ASSUME NEW j \in 1 .. Len(f), j > i + 1 PROVE ~About(f[j], e)
        OBVIOUS
      <4>1. j - 1 \in 1 .. Len(g) /\ g[j - 1] = f[j] /\ j - 1 > i
        BY <1>2, <1>3
      <4>. QED
        BY <2>1, <4>1 DEF LastRule
    <3>. QED
      BY <1>4, <2>1, <3>1 DEF LastRule
  <2>2. ASSUME LastConfig(g, i) PROVE LastConfig(f, i + 1)
    <3>1. \A j \in 1 .. Len(f) : j > i + 1 => ~Configures(f[j])
      <4>. SUFFICES ASSUME NEW j \in 1 .. Len(f), j > i + 1 PROVE ~Configures(f[j])
        OBVIOUS
      <4>1. j - 1 \in 1 .. Len(g) /\ g[j - 1] = f[j] /\ j - 1 > i
        BY <1>2, <1>3
      <4>. QED
        BY <2>2, <4>1 DEF LastConfig
    <3>. QED
      BY <1>4, <2>2, <3>1 DEF LastConfig
  <2>. QED
    BY <2>1, <2>2
<1>6. \A j \in 1 .. Len(f) : j = 1 \/ j > 1
  BY <1>4
<1>7. ASSUME NEW e, \A i \in 1 .. Len(g) : ~About(g[i], e)
      PROVE  IF About(f[1], e) THEN LastRule(f, 1, e)
             ELSE \A i \in 1 .. Len(f) : ~About(f[i], e)
  <2>1. \A j \in 1 .. Len(f) : j > 1 => ~About(f[j], e)
    BY <1>2, <1>7
  <2>. QED
    BY <1>6, <2>1 DEF LastRule
<1>8. ASSUME \A i \in 1 .. Len(g) : ~Configures(g[i])
      PROVE  IF Configures(f[1]) THEN LastConfig(f, 1)
             ELSE \A i \in 1 .. Len(f) : ~Configures(f[i])
  <2>1. \A j \in 1 .. Len(f) : j > 1 => ~Configures(f[j])
    BY <1>2, <1>8
  <2>. QED
    BY <1>6, <2>1 DEF LastConfig
<1>9. 1 \in 1 .. Len(f) /\ Head(f) = f[1]
  BY <1>1
<1>. QED
  BY <1>4, <1>5, <1>7, <1>8, <1>9 DEF g

(* A new change is the last of what it is about, and of nothing else.        *)
LEMMA ChangeAppended ==
    ASSUME NEW f \in Seq(Change), NEW change \in Change
    PROVE  LET g == Append(f, change)
               n == Len(f) + 1
           IN  /\ n \in 1 .. Len(g) /\ g[n] = change
               /\ \A i \in 1 .. Len(f) : i \in 1 .. Len(g) /\ g[i] = f[i]
               /\ \A i \in 1 .. Len(g) :
                     i = n \/ /\ i \in 1 .. Len(f) /\ g[i] = f[i]
                              /\ \A e : LastRule(g, i, e) =>
                                     LastRule(f, i, e) /\ ~About(change, e)
                              /\ LastConfig(g, i) =>
                                     LastConfig(f, i) /\ ~Configures(change)
<1>. DEFINE g == Append(f, change)
            n == Len(f) + 1
<1>1. /\ Len(f) \in Nat /\ Len(g) = n /\ g[n] = change
      /\ \A i \in 1 .. Len(f) : g[i] = f[i]
  BY AppendKeeps
<1>. HIDE DEF g
<1>2. n \in 1 .. Len(g) /\ \A i \in 1 .. Len(f) : i \in 1 .. Len(g) /\ n > i
  BY <1>1
<1>3. \A i \in 1 .. Len(g) : i = n \/ i \in 1 .. Len(f)
  BY <1>1
<1>4. ASSUME NEW i \in 1 .. Len(f)
      PROVE  /\ \A e : LastRule(g, i, e) => LastRule(f, i, e) /\ ~About(change, e)
             /\ LastConfig(g, i) => LastConfig(f, i) /\ ~Configures(change)
  BY <1>1, <1>2 DEF LastRule, LastConfig
<1>. QED
  BY <1>1, <1>2, <1>3, <1>4 DEF g

LEMMA FeedStill == FeedInv /\ UNCHANGED <<feed, room, event>> => FeedInv'
BY DEF FeedInv

LEMMA RuleEditFed ==
    ASSUME TypeOK, FeedInv, NEW e \in Editable, EditRule(e)
    PROVE  /\ FeedInv' /\ room' # room
           /\ \A i \in 1 .. Len(feed) : i \in 1 .. Len(feed') /\ feed'[i] = feed[i]
           /\ \E i \in 1 .. Len(feed') : About(feed'[i], e)
           /\ \A x \in Rules \ {e} : x \in room' <=> x \in room
<1>. DEFINE change == [rule |-> e, present |-> e \notin room]
            n == Len(feed) + 1
<1>1. /\ room' = IF e \in room THEN room \ {e} ELSE room \cup {e}
      /\ feed' = Append(feed, change) /\ event' = event
  BY DEF EditRule
<1>2. /\ change \in Change /\ About(change, e) /\ ~Configures(change)
      /\ \A x : About(change, x) => x = e
      /\ change.present = (e \notin room)
  BY RulesAssumption DEF Change, About, Configures
<1>3. feed \in Seq(Change)
  BY FeedTyped
<1>. HIDE DEF change
<1>4. /\ n \in 1 .. Len(feed') /\ feed'[n] = change
      /\ \A i \in 1 .. Len(feed) : i \in 1 .. Len(feed') /\ feed'[i] = feed[i]
      /\ \A i \in 1 .. Len(feed') :
            i = n \/ /\ i \in 1 .. Len(feed) /\ feed'[i] = feed[i]
                     /\ \A x : LastRule(feed', i, x) => LastRule(feed, i, x) /\ ~About(change, x)
                     /\ LastConfig(feed', i) => LastConfig(feed, i) /\ ~Configures(change)
  BY <1>1, <1>2, <1>3, ChangeAppended
<1>5. (e \in room' <=> e \notin room) /\ \A x : x # e => (x \in room' <=> x \in room)
  BY <1>1
<1>6. FeedInv'
  <2>. SUFFICES ASSUME NEW i \in 1 .. Len(feed')
                PROVE  /\ \A x \in Rules : LastRule(feed', i, x) =>
                              (feed'[i].present <=> x \in room')
                       /\ LastConfig(feed', i) => feed'[i].content = event'
    BY DEF FeedInv
  <2>1. CASE i = n
    BY <1>2, <1>4, <1>5, <2>1 DEF LastRule, LastConfig
  <2>2. CASE i # n
    BY <1>1, <1>2, <1>4, <1>5, <2>2 DEF FeedInv
  <2>. QED
    BY <2>1, <2>2
<1>. QED
  BY <1>2, <1>4, <1>5, <1>6

LEMMA ConfigEditFed ==
    ASSUME TypeOK, FeedInv, NEW c \in Contents, EditConfig(c)
    PROVE  /\ FeedInv' /\ event' # event /\ room' = room
           /\ \A i \in 1 .. Len(feed) : i \in 1 .. Len(feed') /\ feed'[i] = feed[i]
           /\ \E i \in 1 .. Len(feed') : Configures(feed'[i])
<1>. DEFINE change == [content |-> c]
            n == Len(feed) + 1
<1>1. event' = c /\ event # c /\ room' = room /\ feed' = Append(feed, change)
  BY DEF EditConfig
<1>2. /\ change \in Change /\ Configures(change) /\ change.content = c
      /\ \A x : ~About(change, x)
  BY DEF Change, About, Configures
<1>3. feed \in Seq(Change)
  BY FeedTyped
<1>. HIDE DEF change
<1>4. /\ n \in 1 .. Len(feed') /\ feed'[n] = change
      /\ \A i \in 1 .. Len(feed) : i \in 1 .. Len(feed') /\ feed'[i] = feed[i]
      /\ \A i \in 1 .. Len(feed') :
            i = n \/ /\ i \in 1 .. Len(feed) /\ feed'[i] = feed[i]
                     /\ \A x : LastRule(feed', i, x) => LastRule(feed, i, x) /\ ~About(change, x)
                     /\ LastConfig(feed', i) => LastConfig(feed, i) /\ ~Configures(change)
  BY <1>1, <1>2, <1>3, ChangeAppended
<1>6. FeedInv'
  <2>. SUFFICES ASSUME NEW i \in 1 .. Len(feed')
                PROVE  /\ \A x \in Rules : LastRule(feed', i, x) =>
                              (feed'[i].present <=> x \in room')
                       /\ LastConfig(feed', i) => feed'[i].content = event'
    BY DEF FeedInv
  <2>1. CASE i = n
    BY <1>1, <1>2, <1>4, <2>1 DEF LastRule, LastConfig
  <2>2. CASE i # n
    BY <1>1, <1>2, <1>4, <2>2 DEF FeedInv
  <2>. QED
    BY <2>1, <2>2
<1>. QED
  BY <1>1, <1>2, <1>4, <1>6

LEMMA DeliveryFed ==
    ASSUME TypeOK, FeedInv, Deliver
    PROVE  /\ FeedInv'
           /\ \A e \in Rules : (\A i \in 1 .. Len(feed') : ~About(feed'[i], e)) =>
                  IF About(Head(feed), e) THEN Head(feed).present <=> e \in room
                  ELSE \A i \in 1 .. Len(feed) : ~About(feed[i], e)
           /\ (\A i \in 1 .. Len(feed') : ~Configures(feed'[i])) =>
                  IF Configures(Head(feed)) THEN Head(feed).content = event
                  ELSE \A i \in 1 .. Len(feed) : ~Configures(feed[i])
<1>1. feed # <<>> /\ feed' = Tail(feed) /\ room' = room /\ event' = event
  BY DEF Deliver
<1>2. feed \in Seq(Change)
  BY FeedTyped
<1>3. /\ \A i \in 1 .. Len(feed') :
            /\ i + 1 \in 1 .. Len(feed) /\ feed'[i] = feed[i + 1]
            /\ \A e : LastRule(feed', i, e) => LastRule(feed, i + 1, e)
            /\ LastConfig(feed', i) => LastConfig(feed, i + 1)
      /\ 1 \in 1 .. Len(feed) /\ Head(feed) = feed[1]
      /\ \A e : (\A i \in 1 .. Len(feed') : ~About(feed'[i], e)) =>
            IF About(Head(feed), e) THEN LastRule(feed, 1, e)
            ELSE \A i \in 1 .. Len(feed) : ~About(feed[i], e)
      /\ (\A i \in 1 .. Len(feed') : ~Configures(feed'[i])) =>
            IF Configures(Head(feed)) THEN LastConfig(feed, 1)
            ELSE \A i \in 1 .. Len(feed) : ~Configures(feed[i])
  BY <1>1, <1>2, HeadDelivered
<1>4. FeedInv'
  BY <1>1, <1>3 DEF FeedInv
<1>. QED
  BY <1>3, <1>4 DEF FeedInv

StaleInv == FeedInv /\ ReadsInv /\ SettledInv

(* The marker of a race falls only when a pass of reads begins. *)
LEMMA RacedMarks ==
    ASSUME MCNext
    PROVE  /\ ~raced' /\ Asking # reader' => ~raced
           /\ ~raced' /\ Asking # reader' /\ Reading => room' = room /\ event' = event
BY DEF MCNext

(* A step that leaves reader, feed, room, event, fold and configuration.     *)
LEMMA StaleStill ==
    ASSUME StaleInv, MCNext, reader' = reader,
           UNCHANGED <<feed, room, event, live, fold, configHalted, cap, floor>>
    PROVE  StaleInv'
<1>1. FeedInv'
  BY FeedStill DEF StaleInv
<1>2. reader # Asking /\ ~raced' => ~raced
  BY DEF MCNext
<1>3. reader = Asking => reader.pc = "askRules" /\ ~reader.ok
  BY DEF Asking
<1>4. ReadsInv'
  BY <1>2, <1>3 DEF StaleInv, ReadsInv
<1>5. RulesSettled' = RulesSettled /\ ConfigSettled' = ConfigSettled
  BY DEF RulesSettled, ConfigSettled, ConfigIs
<1>6. SettledInv'
  BY <1>2, <1>3, <1>5 DEF SettledInv, StaleInv
<1>. QED
  BY <1>1, <1>4, <1>6 DEF StaleInv

(* A pass of reads begins: nothing is claimed of what the bot holds.         *)
LEMMA StaleAsking ==
    ASSUME StaleInv, MCNext, reader' = Asking, UNCHANGED <<feed, room, event>>
    PROVE  StaleInv'
<1>1. FeedInv'
  BY FeedStill DEF StaleInv
<1>2. reader'.pc = "askRules" /\ ~reader'.ok
  BY DEF Asking
<1>. QED
  BY <1>1, <1>2 DEF StaleInv, ReadsInv, SettledInv

LEMMA ApplyIs ==
    ASSUME TypeOK, NEW c \in Contents \cup {Absent}, Apply(c)
    PROVE  /\ configHalted' = ~Usable(c)
           /\ Usable(c) => cap' = c.cap /\ floor' = Greatest(c.floor, NoFloor)
BY DEF Apply, Usable

LEMMA StepStale == TypeOK /\ StaleInv /\ [MCNext]_Watched => StaleInv'
<1>. SUFFICES ASSUME TypeOK, StaleInv, [MCNext]_Watched PROVE StaleInv'
  OBVIOUS
<1>i. FeedInv /\ ReadsInv /\ SettledInv
  BY DEF StaleInv
<1>t. reader \in Reader
  BY DEF TypeOK, Reader
<1>a. Asking.pc = "askRules" /\ ~Asking.ok
  BY DEF Asking
<1>0. CASE UNCHANGED Watched
  <2>1. UNCHANGED <<feed, room, event, live, fold, configHalted, cap, floor, reader, raced>>
    BY <1>0 DEF Watched, vars, world, halt, config
  <2>2. RulesSettled' = RulesSettled /\ ConfigSettled' = ConfigSettled
    BY <2>1 DEF RulesSettled, ConfigSettled, ConfigIs
  <2>. QED
    BY <2>1, <2>2, FeedStill DEF StaleInv, ReadsInv, SettledInv
<1>. SUFFICES ASSUME MCNext PROVE StaleInv'
  BY <1>0
<1>n. Next
  BY DEF MCNext
<1>1. CASE AnswerRules
  <2>1. UNCHANGED <<feed, room, event>> /\ reader'.pc = "gotRules" /\ ~reader'.ok
        /\ reader'.rules = room
    BY <1>1, <1>i, <1>t DEF AnswerRules, world, Reader, ReadsInv
  <2>. QED
    BY <2>1, <1>i, FeedStill DEF StaleInv, ReadsInv, SettledInv
<1>2. CASE LoadRules
  <2>1. /\ UNCHANGED <<feed, room, event, live>> /\ fold' = reader.rules
        /\ reader.pc = "gotRules" /\ reader'.pc = "askConfig"
    BY <1>2, <1>t, AskingIsTyped DEF LoadRules, world, Asking
  <2>2. ~raced' => ~raced
    BY <2>1, <1>a, RacedMarks
  <2>3. ~raced' => fold' = room'
    BY <1>i, <2>1, <2>2 DEF ReadsInv
  <2>4. SettledInv'
    BY <2>1, <2>3 DEF SettledInv, RulesSettled
  <2>. QED
    BY <2>1, <2>4, <1>i, FeedStill DEF StaleInv, ReadsInv
<1>3. CASE AnswerConfig
  <2>1. /\ UNCHANGED <<feed, room, event, live, fold>> /\ reader.pc = "askConfig"
        /\ reader'.pc = "gotConfig" /\ reader'.content = event /\ reader'.ok = reader.ok
    BY <1>3, <1>t DEF AnswerConfig, world, Reader
  <2>2. ~raced' => ~raced
    BY <2>1, <1>a, RacedMarks
  <2>3. RulesSettled' = RulesSettled
    BY <2>1 DEF RulesSettled
  <2>4. SettledInv'
    BY <1>i, <2>1, <2>2, <2>3 DEF SettledInv
  <2>. QED
    BY <2>1, <2>4, <1>i, FeedStill DEF StaleInv, ReadsInv
<1>c. ASSUME NEW ok \in BOOLEAN, Continue(ok)
      PROVE  /\ live' /\ reader'.pc \in {"started", "asleep", "done"} /\ reader'.ok = ok
             /\ reader'.pc = "done" => ok
  BY <1>c DEF Continue, Asking
<1>4. CASE RefreshConfig
  <2>1. /\ UNCHANGED <<feed, room, event, fold>> /\ reader.pc = "gotConfig"
        /\ live' /\ reader'.pc \in {"started", "asleep", "done"} /\ reader'.ok = reader.ok
        /\ reader'.pc = "done" => reader'.ok
        /\ reader.content \in Contents \cup {Absent} /\ Apply(reader.content)
    BY <1>4, <1>c, <1>t DEF RefreshConfig, world, Reader, ReadOk
  <2>2. ~raced' => ~raced
    BY <2>1, <1>a, RacedMarks
  <2>3. ~raced => reader.content = event
    BY <1>i, <2>1 DEF ReadsInv
  <2>4. ~raced => ConfigIs(event)'
    BY <2>1, <2>3, ApplyIs DEF ConfigIs
  <2>5. RulesSettled => RulesSettled'
    BY <2>1 DEF RulesSettled
  <2>6. ConfigIs(event)' => ConfigSettled'
    BY <2>1 DEF ConfigSettled
  <2>7. SettledInv'
    BY <1>i, <2>1, <2>2, <2>4, <2>5, <2>6 DEF SettledInv
  <2>. QED
    BY <2>1, <2>7, <1>i, FeedStill DEF StaleInv, ReadsInv
<1>5. CASE StartClocks
  <2>1. /\ UNCHANGED <<feed, room, event, live, fold, configHalted, cap, floor>>
        /\ reader.pc = "started" /\ reader'.ok = reader.ok
        /\ reader'.pc \in {"asleep", "done"} /\ (reader'.pc = "done" => reader'.ok)
    BY <1>5, <1>t DEF StartClocks, world, halt, config, Reader
  <2>2. ~raced' => ~raced
    BY <2>1, <1>a, RacedMarks
  <2>3. RulesSettled' = RulesSettled /\ ConfigSettled' = ConfigSettled
    BY <2>1 DEF RulesSettled, ConfigSettled, ConfigIs
  <2>4. SettledInv'
    BY <1>i, <2>1, <2>2, <2>3 DEF SettledInv
  <2>. QED
    BY <2>1, <2>4, <1>i, FeedStill DEF StaleInv, ReadsInv
<1>6. CASE Retry \/ Restart
  BY <1>6, StaleAsking DEF Retry, Restart, world
<1>7. CASE RulesUnreadable
  <2>1. /\ UNCHANGED <<feed, room, event>>
        /\ reader'.pc = "askConfig" /\ ~reader'.ok
    BY <1>7, AskingIsTyped DEF RulesUnreadable, world, Asking
  <2>. QED
    BY <2>1, <1>i, FeedStill DEF StaleInv, ReadsInv, SettledInv
<1>8. CASE ConfigUnreadable
  <2>1. /\ UNCHANGED <<feed, room, event>>
        /\ live' /\ reader'.pc \in {"started", "asleep"} /\ ~reader'.ok
    BY <1>8, <1>c DEF ConfigUnreadable, world
  <2>. QED
    BY <2>1, <1>i, FeedStill DEF StaleInv, ReadsInv, SettledInv
<1>r. ASSUME reader' = reader, reader.ok, ~raced'
      PROVE  ~raced /\ (Reading => room' = room /\ event' = event)
  <2>1. Asking # reader'
    BY <1>a, <1>r
  <2>. QED
    BY <1>r, <2>1, RacedMarks
<1>s. ASSUME reader' = reader, ~raced', reader.pc \in {"gotRules", "gotConfig"}
      PROVE  ~raced /\ room' = room /\ event' = event
  <2>1. Asking # reader' /\ Reading
    BY <1>a, <1>s DEF Reading
  <2>. QED
    BY <1>s, <2>1, RacedMarks
<1>d. ~live /\ reader.ok => Reading
  BY <1>i, <1>t DEF ReadsInv, Reader, Reading
<1>9. ASSUME NEW e \in Editable, EditRule(e) PROVE StaleInv'
  <2>1. reader' = reader /\ UNCHANGED <<event, live, fold, configHalted, cap, floor>>
    BY <1>9 DEF EditRule, halt, config
  <2>2. /\ FeedInv' /\ room' # room
        /\ \A i \in 1 .. Len(feed) : i \in 1 .. Len(feed') /\ feed'[i] = feed[i]
        /\ \E i \in 1 .. Len(feed') : About(feed'[i], e)
        /\ \A x \in Rules \ {e} : x \in room' <=> x \in room
    BY <1>i, <1>9, RuleEditFed
  <2>3. ReadsInv'
    BY <1>i, <1>s, <2>1, <2>2 DEF ReadsInv
  <2>4. ASSUME reader.ok, ~raced' PROVE RulesSettled'
    <3>1. ~raced /\ live
      BY <1>d, <1>r, <2>1, <2>2, <2>4
    <3>2. RulesSettled
      BY <1>i, <2>4, <3>1 DEF SettledInv
    <3>3. \A x \in Rules : (\A i \in 1 .. Len(feed') : ~About(feed'[i], x)) =>
              (x \in fold' <=> x \in room')
      <4>. TAKE x \in Rules
      <4>. HAVE \A i \in 1 .. Len(feed') : ~About(feed'[i], x)
      <4>1. x # e
        BY <2>2
      <4>2. \A i \in 1 .. Len(feed) : ~About(feed[i], x)
        BY <2>2
      <4>. QED
        BY <2>1, <2>2, <3>2, <4>1, <4>2 DEF RulesSettled
    <3>. QED
      BY <2>1, <3>1, <3>3 DEF RulesSettled
  <2>5. ConfigSettled => ConfigSettled'
    BY <2>1, <2>2 DEF ConfigSettled, ConfigIs
  <2>6. SettledInv'
    BY <1>i, <1>r, <2>1, <2>4, <2>5 DEF SettledInv
  <2>. QED
    BY <2>2, <2>3, <2>6 DEF StaleInv
<1>10. ASSUME NEW c \in Contents, EditConfig(c) PROVE StaleInv'
  <2>1. reader' = reader /\ UNCHANGED <<room, live, fold>>
    BY <1>10 DEF EditConfig
  <2>2. /\ FeedInv' /\ event' # event
        /\ \A i \in 1 .. Len(feed) : i \in 1 .. Len(feed') /\ feed'[i] = feed[i]
        /\ \E i \in 1 .. Len(feed') : Configures(feed'[i])
    BY <1>i, <1>10, ConfigEditFed
  <2>3. ReadsInv'
    BY <1>i, <1>s, <2>1, <2>2 DEF ReadsInv
  <2>4. RulesSettled => RulesSettled'
    BY <2>1, <2>2 DEF RulesSettled
  <2>5. ConfigSettled'
    BY <2>2 DEF ConfigSettled
  <2>6. SettledInv'
    BY <1>i, <1>r, <2>1, <2>4, <2>5 DEF SettledInv
  <2>. QED
    BY <2>2, <2>3, <2>6 DEF StaleInv
<1>11. CASE Deliver
  <2>1. UNCHANGED <<reader, room, event, live>>
    BY <1>11 DEF Deliver
  <2>2. /\ FeedInv'
        /\ \A e \in Rules : (\A i \in 1 .. Len(feed') : ~About(feed'[i], e)) =>
              IF About(Head(feed), e) THEN Head(feed).present <=> e \in room
              ELSE \A i \in 1 .. Len(feed) : ~About(feed[i], e)
        /\ (\A i \in 1 .. Len(feed') : ~Configures(feed'[i])) =>
              IF Configures(Head(feed)) THEN Head(feed).content = event
              ELSE \A i \in 1 .. Len(feed) : ~Configures(feed[i])
    BY <1>i, <1>11, DeliveryFed
  <2>3. ReadsInv'
    BY <1>i, <1>s, <2>1 DEF ReadsInv
  <2>k. Head(feed) \in Change
    BY <1>11, DeliveredIsTyped DEF Deliver
  <2>4. \/ ~live /\ UNCHANGED <<fold, configHalted, cap, floor>>
        \/ /\ live /\ "rule" \in DOMAIN Head(feed)
           /\ fold' = IF Head(feed).present THEN fold \cup {Head(feed).rule}
                                            ELSE fold \ {Head(feed).rule}
           /\ UNCHANGED <<configHalted, cap, floor>>
        \/ live /\ Configures(Head(feed)) /\ Apply(Head(feed).content) /\ UNCHANGED fold
    BY <1>11 DEF Deliver, halt, config, Configures
  <2>5. ~("rule" \in DOMAIN Head(feed) /\ "content" \in DOMAIN Head(feed))
    BY <2>k DEF Change
  <2>6. RulesSettled => RulesSettled'
    <3>. SUFFICES ASSUME RulesSettled PROVE RulesSettled'
      OBVIOUS
    <3>1. CASE ~live
      BY <2>1, <2>4, <3>1 DEF RulesSettled
    <3>2. CASE live
      <4>. SUFFICES ASSUME NEW e \in Rules, \A i \in 1 .. Len(feed') : ~About(feed'[i], e)
                    PROVE  e \in fold' <=> e \in room'
        BY <2>1, <3>2 DEF RulesSettled
      <4>1. CASE About(Head(feed), e)
        <5>1. Head(feed).present <=> e \in room
          BY <2>2, <4>1
        <5>2. fold' = IF Head(feed).present THEN fold \cup {e} ELSE fold \ {e}
          BY <2>4, <2>5, <3>2, <4>1 DEF About, Configures
        <5>. QED
          BY <2>1, <5>1, <5>2
      <4>2. CASE ~About(Head(feed), e)
        <5>1. e \in fold <=> e \in room
          BY <2>2, <4>2 DEF RulesSettled
        <5>2. e \in fold' <=> e \in fold
          BY <2>4, <3>2, <4>2 DEF About
        <5>. QED
          BY <2>1, <5>1, <5>2
      <4>. QED
        BY <4>1, <4>2
    <3>. QED
      BY <3>1, <3>2
  <2>7. ASSUME live, ConfigSettled PROVE ConfigSettled'
    <3>. SUFFICES ASSUME \A i \in 1 .. Len(feed') : ~Configures(feed'[i])
                  PROVE  ConfigIs(event)'
      BY DEF ConfigSettled
    <3>1. CASE Configures(Head(feed))
      <4>1. Head(feed).content = event /\ event' = event
        BY <2>1, <2>2, <3>1
      <4>2. Apply(event)
        BY <2>4, <2>5, <2>7, <3>1, <4>1 DEF Configures
      <4>3. event \in Contents \cup {Absent}
        BY DEF TypeOK
      <4>. QED
        BY <4>1, <4>2, <4>3, ApplyIs DEF ConfigIs
    <3>2. CASE ~Configures(Head(feed))
      <4>1. UNCHANGED <<configHalted, cap, floor>>
        BY <2>4, <2>7, <3>2
      <4>2. ConfigIs(event)
        BY <2>2, <2>7, <3>2 DEF ConfigSettled
      <4>. QED
        BY <2>1, <4>1, <4>2 DEF ConfigIs
    <3>. QED
      BY <3>1, <3>2
  <2>8. reader.pc \in {"started", "done"} => live
    BY <1>i DEF ReadsInv
  <2>9. SettledInv'
    BY <1>i, <1>r, <2>1, <2>6, <2>7, <2>8 DEF SettledInv
  <2>. QED
    BY <2>2, <2>3, <2>9 DEF StaleInv
<1>12. CASE FetchAdopts \/ FetchKeeps \/ FetchFails \/ TimerExpires
  <2>1. UNCHANGED <<world, live, reader, fold, halt>>
    BY <1>12 DEF FetchAdopts, FetchKeeps, FetchFails, TimerExpires
  <2>. QED
    BY <2>1, <1>i, StaleStill DEF world, halt, config
<1>13. CASE Persist \/ Woken
  <2>1. UNCHANGED <<world, live, reader, fold, config>>
    BY <1>13 DEF Persist, Woken
  <2>. QED
    BY <2>1, <1>i, StaleStill DEF world, config
<1>14. CASE \E v \in 1 .. MaxVersion : Publish(v)
  <2>1. UNCHANGED <<room, event, feed, live, reader, fold, halt>>
    BY <1>14 DEF Publish
  <2>. QED
    BY <2>1, <1>i, StaleStill DEF halt, config
<1>. QED
  BY <1>n, <1>1, <1>2, <1>3, <1>4, <1>5, <1>6, <1>7, <1>8, <1>9, <1>10, <1>11, <1>12,
     <1>13, <1>14 DEF Next, ReadStep, FetchStep

(* When the reads of the room are over, all was delivered, and nobody edited *)
(* the room during the last pass of reads, then fold and configuration are   *)
(* the room's: without such a race no failure and no order of events makes   *)
(* _governance_retry_loop leave the bot with a stale copy.                   *)
THEOREM StaleNeedsARace == MCSafety => []StaleOnlyByRace
<1>1. MCInit => StaleInv
  <2>. SUFFICES ASSUME MCInit PROVE StaleInv
    OBVIOUS
  <2>1. feed = <<>> /\ reader = Asking
    BY DEF MCInit, Init
  <2>2. Len(feed) = 0 /\ reader.pc = "askRules" /\ ~reader.ok
    BY <2>1 DEF Asking
  <2>. QED
    BY <2>2 DEF StaleInv, FeedInv, ReadsInv, SettledInv
<1>2. HaltInv => TypeOK
  BY DEF HaltInv
<1>3. TypeOK /\ StaleInv => StaleOnlyByRace
  <2>. SUFFICES ASSUME TypeOK, StaleInv, reader.pc = "done", feed = <<>>, ~raced
                PROVE  Current
    BY DEF StaleOnlyByRace
  <2>1. RulesSettled /\ ConfigSettled
    BY DEF StaleInv, ReadsInv, SettledInv
  <2>2. \A i \in 1 .. Len(feed) : FALSE
    <3>1. Len(feed) = 0
      OBVIOUS
    <3>. QED
      BY <3>1
  <2>3. \A e \in Rules : e \in fold <=> e \in room
    BY <2>1, <2>2 DEF RulesSettled
  <2>4. fold = room
    BY <2>3 DEF TypeOK
  <2>5. ConfigIs(event)
    BY <2>1, <2>2 DEF ConfigSettled
  <2>. QED
    BY <2>4, <2>5 DEF Current, ConfigIs
<1>. QED
  BY <1>1, <1>2, <1>3, StepStale, HaltInvKept, PTL DEF MCSafety, Watched

=============================================================================
