-------------------------- MODULE ResolutionProofs --------------------------
(***************************************************************************)
(* Proofs about ServerNames and Resolution, for all names over the tokens,  *)
(* all delegations and all answers of the name servers.                     *)
(***************************************************************************)
EXTENDS Resolution, FiniteSetTheorems, FunctionTheorems, SequenceTheorems,
        WellFoundedInduction, TLAPS

-----------------------------------------------------------------------------
(* A set of numbers that is not empty has a least one.                       *)
LEMMA LeastOf ==
    ASSUME NEW T, T \subseteq Nat, T # {}
    PROVE  \E t \in T : \A u \in T : t <= u
<1>. DEFINE less == OpToRel(<, Nat)
<1>1. IsWellFoundedOn(less, Nat)
  BY NatLessThanWellFounded
<1>2. \A m, n \in Nat : m < n => <<m, n>> \in less
  BY DEF OpToRel
<1>. HIDE DEF less
<1>3. PICK t \in T : \A u \in T : <<u, t>> \notin less
  BY <1>1, WFMin
<1>4. \A u \in T : ~ (u < t)
  BY <1>2, <1>3
<1>. QED
  BY <1>3, <1>4

(* Induction, for a set of numbers in the place of a predicate.              *)
LEMMA Induction ==
    ASSUME NEW S, 0 \in S, \A n \in Nat : n \in S => n + 1 \in S
    PROVE  Nat \subseteq S
<1>. DEFINE T == Nat \ S
<1>. SUFFICES ASSUME T # {} PROVE FALSE
  OBVIOUS
<1>1. PICK t \in T : \A u \in T : t <= u
  <2>1. T \subseteq Nat
    OBVIOUS
  <2>. HIDE DEF T
  <2>. QED
    BY <2>1, LeastOf
<1>2. t \in Nat /\ t # 0 /\ t \notin S
  OBVIOUS
<1>3. t - 1 \in Nat /\ (t - 1) + 1 = t /\ t - 1 < t
  BY <1>2
<1>4. t - 1 \notin T
  BY <1>1, <1>3
<1>. QED
  BY <1>2, <1>3, <1>4

(* A recursion over the numbers up to n, with what each step makes of the    *)
(* value before it as a function, has a solution.                            *)
Steps(n, V) == [(1 .. n) \X V -> V]

Solution(f, n, V, base, next) ==
    /\ f \in [0 .. n -> V]
    /\ f[0] = base
    /\ \A k \in 1 .. n : f[k] = next[<<k, f[k - 1]>>]

LEMMA Recursion ==
    ASSUME NEW n \in Nat, NEW V, NEW base \in V, NEW next \in Steps(n, V)
    PROVE  \E f : Solution(f, n, V, base, next)
<1>. DEFINE Solves(f, m) == /\ f \in [0 .. m -> V]
                            /\ f[0] = base
                            /\ \A k \in 1 .. m : f[k] = next[<<k, f[k - 1]>>]
            S == {m \in Nat : m <= n => \E f : Solves(f, m)}
<1>. USE DEF Steps
<1>1. 0 \in S
  <2>1. Solves([k \in 0 .. 0 |-> base], 0)
    OBVIOUS
  <2>. QED
    BY <2>1
<1>2. ASSUME NEW m \in Nat, m \in S PROVE m + 1 \in S
  <2>. SUFFICES ASSUME m + 1 <= n PROVE \E f : Solves(f, m + 1)
    OBVIOUS
  <2>1. PICK f : Solves(f, m)
    BY <1>2
  <2>. DEFINE g == [k \in 0 .. m + 1 |-> IF k = m + 1 THEN next[<<m + 1, f[m]>>] ELSE f[k]]
  <2>2. m + 1 \in 1 .. n /\ f[m] \in V
    BY <2>1
  <2>3. next[<<m + 1, f[m]>>] \in V
    BY <2>2
  <2>4. g \in [0 .. m + 1 -> V] /\ g[0] = base
    BY <2>1, <2>3
  <2>5. ASSUME NEW k \in 1 .. m + 1 PROVE g[k] = next[<<k, g[k - 1]>>]
    <3>1. CASE k = m + 1
      <4>1. k - 1 = m /\ m \in 0 .. m + 1 /\ m # m + 1
        BY <3>1
      <4>2. g[k - 1] = f[m] /\ g[k] = next[<<m + 1, f[m]>>]
        BY <3>1, <4>1
      <4>. QED
        BY <3>1, <4>2
    <3>2. CASE k # m + 1
      <4>1. k \in 1 .. m /\ k - 1 \in 0 .. m
        BY <3>2
      <4>2. g[k] = f[k] /\ g[k - 1] = f[k - 1]
        BY <3>2, <4>1
      <4>. QED
        BY <2>1, <4>1, <4>2
    <3>. QED
      BY <3>1, <3>2
  <2>. QED
    BY <2>4, <2>5
<1>3. n \in S
  <2>. HIDE DEF S
  <2>. QED
    BY <1>1, <1>2, Induction
<1>. QED
  BY <1>3 DEF Solution

-----------------------------------------------------------------------------
(* The running sum over the tickets.                                         *)
LEMMA UptoSums ==
    ASSUME NEW n \in Nat, Len(band) = n, \A k \in 1 .. n : Tickets[k] \in Nat
    PROVE  /\ \A k \in 0 .. n : Upto[k] \in Nat
           /\ Upto[0] = 0
           /\ \A k \in 1 .. n : Upto[k] = Upto[k - 1] + Tickets[k]
<1>. DEFINE next == [p \in (1 .. n) \X Nat |-> p[2] + Tickets[p[1]]]
            Sum(f) == f = [k \in 0 .. Len(band) |-> IF k = 0 THEN 0 ELSE f[k - 1] + Tickets[k]]
<1>1. next \in Steps(n, Nat)
  BY DEF Steps
<1>2. 0 \in Nat
  OBVIOUS
<1>3. \E f : Solution(f, n, Nat, 0, next)
  <2>. HIDE DEF next
  <2>. QED
    BY <1>1, <1>2, Recursion
<1>4. ASSUME NEW k \in 1 .. n, NEW v \in Nat PROVE next[<<k, v>>] = v + Tickets[k]
  OBVIOUS
<1>5. \E f : Sum(f)
  <2>. HIDE DEF next
  <2>1. PICK f \in [0 .. n -> Nat] :
            f[0] = 0 /\ \A k \in 1 .. n : f[k] = next[<<k, f[k - 1]>>]
    BY <1>3 DEF Solution
  <2>2. \A k \in 1 .. n : f[k - 1] \in Nat
    OBVIOUS
  <2>3. \A k \in 1 .. n : f[k] = f[k - 1] + Tickets[k]
    BY <1>4, <2>1, <2>2
  <2>4. f = [k \in 0 .. n |-> IF k = 0 THEN 0 ELSE f[k - 1] + Tickets[k]]
    BY <2>1, <2>3
  <2>. QED
    BY <2>4
<1>6. Upto = CHOOSE g : Sum(g)
  BY DEF Upto
<1>7. Sum(Upto)
  <2>. HIDE DEF Sum
  <2>. QED
    BY <1>5, <1>6
<1>8. Upto[0] = 0 /\ \A k \in 1 .. n : Upto[k] = Upto[k - 1] + Tickets[k]
  BY <1>7
<1>9. \A k \in 0 .. n : Upto[k] \in Nat
  <2>. DEFINE S == {m \in Nat : m <= n => Upto[m] \in Nat}
  <2>1. 0 \in S
    BY <1>8
  <2>2. ASSUME NEW m \in Nat, m \in S PROVE m + 1 \in S
    <3>. SUFFICES ASSUME m + 1 <= n PROVE Upto[m + 1] \in Nat
      OBVIOUS
    <3>1. m + 1 \in 1 .. n /\ (m + 1) - 1 = m /\ Upto[m] \in Nat
      BY <2>2
    <3>2. Upto[m + 1] = Upto[m] + Tickets[m + 1] /\ Tickets[m + 1] \in Nat
      BY <1>8, <3>1
    <3>. QED
      BY <3>1, <3>2
  <2>3. Nat \subseteq S
    <3>. HIDE DEF S
    <3>. QED
      BY <2>1, <2>2, Induction
  <2>. QED
    BY <2>3
<1>. QED
  BY <1>8, <1>9

-----------------------------------------------------------------------------
(* What the walk over the records keeps.                                     *)
LEMMA RangeOfAppend ==
    ASSUME NEW S, NEW s \in Seq(S), NEW e \in S
    PROVE  Range(Append(s, e)) = Range(s) \cup {e}
<1>1. /\ DOMAIN s = 1 .. Len(s) /\ Len(s) \in Nat
      /\ DOMAIN Append(s, e) = 1 .. Len(s) + 1
      /\ \A i \in 1 .. Len(s) : Append(s, e)[i] = s[i]
      /\ Append(s, e)[Len(s) + 1] = e
  BY AppendProperties, LenProperties
<1>2. ASSUME NEW x \in Range(Append(s, e)) PROVE x \in Range(s) \cup {e}
  <2>1. PICK i \in 1 .. Len(s) + 1 : x = Append(s, e)[i]
    BY <1>1 DEF Range
  <2>2. CASE i = Len(s) + 1
    BY <1>1, <2>1, <2>2
  <2>3. CASE i # Len(s) + 1
    <3>1. i \in 1 .. Len(s)
      BY <1>1, <2>3
    <3>. QED
      BY <1>1, <2>1, <3>1 DEF Range
  <2>. QED
    BY <2>2, <2>3
<1>3. ASSUME NEW i \in 1 .. Len(s) PROVE s[i] \in Range(Append(s, e))
  <2>1. i \in 1 .. Len(s) + 1
    BY <1>1
  <2>. QED
    BY <1>1, <2>1 DEF Range
<1>4. e \in Range(Append(s, e))
  BY <1>1 DEF Range
<1>. QED
  BY <1>1, <1>2, <1>3, <1>4 DEF Range

LEMMA UsableKeeps ==
    ASSUME NEW records \in Seq(Record)
    PROVE  /\ Usable(records) \in Seq(Record)
           /\ Range(Usable(records)) = {r \in Range(records) : r.target # NoService}
<1>. DEFINE n == Len(records)
            Out == Seq(Record)
            Step(k, s) == IF records[k].target = NoService THEN s ELSE Append(s, records[k])
            next == [p \in (1 .. n) \X Out |-> Step(p[1], p[2])]
            Keeps(f) == f = [k \in 0 .. n |-> IF k = 0 THEN <<>> ELSE Step(k, f[k - 1])]
            kept == CHOOSE f : Keeps(f)
            Offering(k) == {i \in 1 .. k : records[i].target # NoService}
<1>1. n \in Nat /\ DOMAIN records = 1 .. n /\ \A i \in 1 .. n : records[i] \in Record
  BY LenProperties, ElementOfSeq
<1>2. Usable(records) = kept[n]
  BY DEF Usable
<1>3. next \in Steps(n, Out) /\ <<>> \in Out
  BY <1>1, AppendProperties DEF Steps
<1>. HIDE DEF Step
<1>4. ASSUME NEW k \in 1 .. n, NEW s \in Out PROVE next[<<k, s>>] = Step(k, s)
  OBVIOUS
<1>5. Keeps(kept)
  <2>. HIDE DEF next, Out
  <2>0. \E f : Solution(f, n, Out, <<>>, next)
    BY <1>1, <1>3, Recursion
  <2>1. PICK f \in [0 .. n -> Out] :
            f[0] = <<>> /\ \A k \in 1 .. n : f[k] = next[<<k, f[k - 1]>>]
    BY <2>0 DEF Solution
  <2>2. \A k \in 1 .. n : f[k - 1] \in Out
    BY <1>1
  <2>3. \A k \in 1 .. n : f[k] = Step(k, f[k - 1])
    BY <1>4, <2>1, <2>2
  <2>4. Keeps(f)
    BY <2>1, <2>3
  <2>. HIDE DEF Keeps
  <2>. QED
    BY <2>4
<1>. HIDE DEF kept, next
<1>6. kept[0] = <<>> /\ \A k \in 1 .. n : kept[k] = Step(k, kept[k - 1])
  BY <1>1, <1>5
<1>7. kept[n] \in Out /\ Range(kept[n]) = {records[i] : i \in Offering(n)}
  <2>. DEFINE S == {m \in Nat : m <= n => /\ kept[m] \in Out
                                          /\ Range(kept[m]) = {records[i] : i \in Offering(m)}}
  <2>. HIDE DEF Keeps, n
  <2>1. 0 \in S
    <3>1. Offering(0) = {} /\ kept[0] \in Out
      BY <1>3, <1>6
    <3>2. Range(kept[0]) = {}
      BY <1>6 DEF Range
    <3>. QED
      BY <3>1, <3>2
  <2>2. ASSUME NEW m \in Nat, m \in S PROVE m + 1 \in S
    <3>. SUFFICES ASSUME m + 1 <= n
                  PROVE  /\ kept[m + 1] \in Out
                         /\ Range(kept[m + 1]) = {records[i] : i \in Offering(m + 1)}
      OBVIOUS
    <3>1. /\ m + 1 \in 1 .. n /\ (m + 1) - 1 = m /\ kept[m] \in Out
          /\ Range(kept[m]) = {records[i] : i \in Offering(m)}
      BY <1>1, <2>2
    <3>2. records[m + 1] \in Record
      BY <1>1, <3>1
    <3>3. CASE records[m + 1].target = NoService
      <4>1. Offering(m + 1) = Offering(m)
        BY <3>3
      <4>2. kept[m + 1] = kept[m]
        BY <1>6, <3>1, <3>3 DEF Step
      <4>. QED
        BY <3>1, <4>1, <4>2
    <3>4. CASE records[m + 1].target # NoService
      <4>1. Offering(m + 1) = Offering(m) \cup {m + 1}
        BY <3>4
      <4>2. kept[m + 1] = Append(kept[m], records[m + 1])
        BY <1>6, <3>1, <3>4 DEF Step
      <4>3. kept[m + 1] \in Out
        BY <3>1, <3>2, <4>2, AppendProperties
      <4>4. Range(kept[m + 1]) = Range(kept[m]) \cup {records[m + 1]}
        BY <3>1, <3>2, <4>2, RangeOfAppend
      <4>. HIDE DEF Offering, Out
      <4>. QED
        BY <3>1, <4>1, <4>3, <4>4
    <3>. QED
      BY <3>3, <3>4
  <2>3. Nat \subseteq S
    <3>. HIDE DEF S
    <3>. QED
      BY <2>1, <2>2, Induction
  <2>4. n \in S
    <3>. HIDE DEF S
    <3>. QED
      BY <1>1, <2>3
  <2>. QED
    BY <1>1, <2>4
<1>8. {records[i] : i \in Offering(n)} = {r \in Range(records) : r.target # NoService}
  BY <1>1 DEF Range
<1>. QED
  BY <1>2, <1>7, <1>8

-----------------------------------------------------------------------------
(* The records that RFC 2782 lets come next: of the lowest priority, and     *)
(* without weight only where none of them has any.                           *)
Due == {i \in Foremost : band[i].weight = 0 => \A j \in Foremost : band[j].weight = 0}

(* The pick can fall on each of them and on no other.                        *)
LEMMA PickableIsDue ==
    ASSUME band \in Seq(Record)
    PROVE  Pickable = Due
<1>. DEFINE n == Len(band)
<1>1. n \in Nat /\ DOMAIN band = 1 .. n /\ \A k \in 1 .. n : band[k] \in Record
  BY LenProperties, ElementOfSeq
<1>2. Foremost \subseteq 1 .. n
  BY <1>1 DEF Foremost
<1>3. \A k \in 1 .. n : band[k].weight \in Nat
  BY <1>1 DEF Record
<1>4. \A k \in 1 .. n : Tickets[k] = IF k \in Foremost THEN band[k].weight ELSE 0
  BY <1>1 DEF Tickets
<1>5. \A k \in 1 .. n : Tickets[k] \in Nat
  BY <1>3, <1>4
<1>6. /\ \A k \in 0 .. n : Upto[k] \in Nat
      /\ Upto[0] = 0
      /\ \A k \in 1 .. n : Upto[k] = Upto[k - 1] + Tickets[k]
  BY <1>1, <1>5, UptoSums
<1>7. Total = Upto[n]
  BY DEF Total
<1>. HIDE DEF n
(* The sum does not fall.                                                    *)
<1>8. ASSUME NEW j \in 0 .. n, NEW k \in 0 .. n, j <= k PROVE Upto[j] <= Upto[k]
  <2>. DEFINE S == {m \in Nat : j <= m /\ m <= n => Upto[j] <= Upto[m]}
  <2>1. 0 \in S
    BY <1>1, <1>6
  <2>2. ASSUME NEW m \in Nat, m \in S PROVE m + 1 \in S
    <3>. SUFFICES ASSUME j <= m + 1, m + 1 <= n PROVE Upto[j] <= Upto[m + 1]
      OBVIOUS
    <3>1. CASE j = m + 1
      BY <1>6, <3>1
    <3>2. CASE j # m + 1
      <4>1. Upto[j] <= Upto[m] /\ m + 1 \in 1 .. n /\ (m + 1) - 1 = m /\ m \in 0 .. n
        BY <1>1, <2>2, <3>2
      <4>2. Upto[m + 1] = Upto[m] + Tickets[m + 1] /\ Tickets[m + 1] \in Nat
        BY <1>5, <1>6, <4>1
      <4>3. Upto[j] \in Nat /\ Upto[m] \in Nat
        BY <1>6, <4>1
      <4>. QED
        BY <4>1, <4>2, <4>3
    <3>. QED
      BY <3>1, <3>2
  <2>3. Nat \subseteq S
    <3>. HIDE DEF S
    <3>. QED
      BY <2>1, <2>2, Induction
  <2>. QED
    BY <1>1, <1>8, <2>3
(* It grows at the foremost that have a weight.                              *)
<1>9. \A m \in 0 .. n : Upto[m] > 0 =>
          \E j \in Foremost : j <= m /\ Upto[j] = Upto[m] /\ band[j].weight > 0
  <2>. DEFINE S == {m \in Nat : m <= n /\ Upto[m] > 0 =>
                        \E j \in Foremost : j <= m /\ Upto[j] = Upto[m] /\ band[j].weight > 0}
  <2>1. 0 \in S
    BY <1>6
  <2>2. ASSUME NEW m \in Nat, m \in S PROVE m + 1 \in S
    <3>. SUFFICES ASSUME m + 1 <= n, Upto[m + 1] > 0
                  PROVE  \E j \in Foremost :
                             j <= m + 1 /\ Upto[j] = Upto[m + 1] /\ band[j].weight > 0
      OBVIOUS
    <3>1. m + 1 \in 1 .. n /\ (m + 1) - 1 = m /\ m \in 0 .. n
      BY <1>1
    <3>2. CASE Tickets[m + 1] > 0
      BY <1>4, <3>1, <3>2
    <3>3. CASE ~ (Tickets[m + 1] > 0)
      <4>1. Upto[m + 1] = Upto[m]
        BY <1>5, <1>6, <3>1, <3>3
      <4>2. PICK j \in Foremost : j <= m /\ Upto[j] = Upto[m] /\ band[j].weight > 0
        BY <1>1, <2>2, <4>1
      <4>3. j <= m + 1
        BY <1>2, <4>2
      <4>. QED
        BY <4>1, <4>2, <4>3
    <3>. QED
      BY <3>2, <3>3
  <2>3. Nat \subseteq S
    <3>. HIDE DEF S
    <3>. QED
      BY <2>1, <2>2, Induction
  <2>. QED
    BY <1>1, <2>3
<1>10. ASSUME NEW k \in 1 .. n, Tickets[k] > 0
       PROVE  Upto[k - 1] < Upto[k] /\ Upto[k - 1] \in 0 .. Total - 1
  <2>1. k - 1 \in 0 .. n /\ k \in 0 .. n /\ n \in 0 .. n /\ k <= n
    BY <1>1
  <2>2. Upto[k] = Upto[k - 1] + Tickets[k] /\ Upto[k] <= Upto[n]
    BY <1>6, <1>8, <2>1
  <2>3. Upto[k - 1] \in Nat /\ Upto[k] \in Nat /\ Upto[n] \in Nat /\ Tickets[k] \in Nat
    BY <1>5, <1>6, <2>1
  <2>. QED
    BY <1>7, <1>10, <2>2, <2>3
<1>11. Total = 0 <=> \A j \in Foremost : band[j].weight = 0
  <2>1. ASSUME Total = 0, NEW j \in Foremost PROVE band[j].weight = 0
    <3>1. ~ (Tickets[j] > 0)
      BY <1>2, <1>10, <2>1
    <3>. QED
      BY <1>2, <1>3, <1>4, <3>1
  <2>2. ASSUME Total # 0 PROVE \E j \in Foremost : band[j].weight # 0
    <3>1. n \in 0 .. n /\ Upto[n] > 0
      BY <1>1, <1>6, <1>7, <2>2
    <3>2. PICK j \in Foremost : band[j].weight > 0
      BY <1>9, <3>1
    <3>. QED
      BY <1>2, <1>3, <3>2
  <2>. QED
    BY <2>1, <2>2
<1>12. CASE Total = 0
  BY <1>11, <1>12 DEF Pickable, Due
<1>13. CASE Total # 0
  <2>. DEFINE Falls(i) == \E pick \in 0 .. Total - 1 :
                              /\ pick < Upto[i]
                              /\ \A j \in Foremost : j < i => ~ pick < Upto[j]
  <2>1. ASSUME NEW i \in Foremost, band[i].weight = 0, Falls(i) PROVE FALSE
    <3>1. PICK pick \in 0 .. Total - 1 : /\ pick < Upto[i]
                                         /\ \A j \in Foremost : j < i => ~ pick < Upto[j]
      BY <2>1
    <3>2. i \in 1 .. n /\ i - 1 \in 0 .. n /\ pick \in Nat
      BY <1>1, <1>2
    <3>3. Upto[i] = Upto[i - 1]
      BY <1>4, <1>6, <2>1, <3>2
    <3>4. Upto[i - 1] > 0
      BY <1>6, <3>1, <3>2, <3>3
    <3>5. PICK j \in Foremost : j <= i - 1 /\ Upto[j] = Upto[i - 1]
      BY <1>9, <3>2, <3>4
    <3>6. j < i
      BY <1>2, <3>2, <3>5
    <3>. QED
      BY <3>1, <3>3, <3>5, <3>6
  <2>2. ASSUME NEW i \in Foremost, band[i].weight # 0 PROVE Falls(i)
    <3>1. i \in 1 .. n /\ Tickets[i] > 0
      BY <1>2, <1>3, <1>4, <2>2
    <3>2. Upto[i - 1] \in 0 .. Total - 1 /\ Upto[i - 1] < Upto[i]
      BY <1>10, <3>1
    <3>3. ASSUME NEW j \in Foremost, j < i PROVE ~ Upto[i - 1] < Upto[j]
      <4>1. j \in 0 .. n /\ i - 1 \in 0 .. n /\ j <= i - 1
        BY <1>1, <1>2, <3>1, <3>3
      <4>. QED
        BY <1>6, <1>8, <4>1
    <3>. QED
      BY <3>2, <3>3
  <2>3. Pickable = {i \in Foremost : Falls(i)}
    BY <1>13 DEF Pickable
  <2>4. \A i \in Foremost : i \in Due <=> band[i].weight # 0
    BY <1>11, <1>13 DEF Due
  <2>5. Due \subseteq Foremost
    BY DEF Due
  <2>. HIDE DEF Falls
  <2>. QED
    BY <2>1, <2>2, <2>3, <2>4, <2>5
<1>. QED
  BY <1>12, <1>13

LEMMA PickedIsDue ==
    ASSUME band \in Seq(Record), NEW i \in Pickable
    PROVE  /\ i \in DOMAIN band
           /\ \A k \in DOMAIN band :
                 /\ band[i].priority <= band[k].priority
                 /\ band[i].priority = band[k].priority /\ band[i].weight = 0 =>
                       band[k].weight = 0
<1>1. i \in Due
  BY PickableIsDue
<1>2. \A k \in DOMAIN band : band[i].priority = band[k].priority => k \in Foremost
  BY <1>1 DEF Due, Foremost
<1>. QED
  BY <1>1, <1>2 DEF Due, Foremost

(* As long as records are left, one of them is due.                          *)
LEMMA SomeIsDue ==
    ASSUME band \in Seq(Record), band # <<>>
    PROVE  Pickable # {}
<1>. DEFINE T == {band[k].priority : k \in DOMAIN band}
<1>1. Len(band) \in Nat /\ DOMAIN band = 1 .. Len(band) /\ Len(band) # 0
  BY LenProperties, EmptySeq
<1>2. \A k \in DOMAIN band : band[k] \in Record
  BY <1>1, ElementOfSeq
<1>3. \A k \in DOMAIN band : band[k].priority \in Nat
  BY <1>2 DEF Record
<1>4. T \subseteq Nat
  BY <1>3
<1>5. T # {}
  <2>1. 1 \in DOMAIN band
    BY <1>1
  <2>. QED
    BY <2>1
<1>6. PICK p \in T : \A q \in T : p <= q
  <2>. HIDE DEF T
  <2>. QED
    BY <1>4, <1>5, LeastOf
<1>7. Foremost # {}
  <2>1. PICK i \in DOMAIN band : band[i].priority = p
    BY <1>6
  <2>2. \A k \in DOMAIN band : p <= band[k].priority
    BY <1>6
  <2>. QED
    BY <2>1, <2>2 DEF Foremost
<1>8. CASE \A j \in Foremost : band[j].weight = 0
  BY <1>7, <1>8, PickableIsDue DEF Due
<1>9. ASSUME NEW j \in Foremost, band[j].weight # 0 PROVE j \in Due
  BY <1>9 DEF Due
<1>. QED
  BY <1>8, <1>9, PickableIsDue

-----------------------------------------------------------------------------
(* How often a record is in a sequence, when one is added and when one is    *)
(* taken out.                                                                *)
Occurrences(r, s) == {i \in DOMAIN s : s[i] = r}

LEMMA OccurrencesFinite ==
    ASSUME NEW s \in Seq(Record), NEW r
    PROVE  /\ Occurrences(r, s) \subseteq 1 .. Len(s)
           /\ IsFiniteSet(Occurrences(r, s)) /\ Count(r, s) \in Nat
<1>1. Len(s) \in Nat /\ DOMAIN s = 1 .. Len(s)
  BY LenProperties
<1>2. Occurrences(r, s) \subseteq 1 .. Len(s)
  BY <1>1 DEF Occurrences
<1>3. IsFiniteSet(1 .. Len(s))
  BY <1>1, FS_Interval
<1>4. IsFiniteSet(Occurrences(r, s))
  BY <1>2, <1>3, FS_Subset
<1>5. Count(r, s) = Cardinality(Occurrences(r, s))
  BY DEF Count, Occurrences
<1>. QED
  BY <1>2, <1>4, <1>5, FS_CardinalityType

LEMMA CountOfAppend ==
    ASSUME NEW s \in Seq(Record), NEW e \in Record, NEW r
    PROVE  Count(r, Append(s, e)) = Count(r, s) + IF e = r THEN 1 ELSE 0
<1>1. /\ Len(s) \in Nat /\ DOMAIN s = 1 .. Len(s)
      /\ DOMAIN Append(s, e) = 1 .. Len(s) + 1
      /\ \A i \in 1 .. Len(s) : Append(s, e)[i] = s[i]
      /\ Append(s, e)[Len(s) + 1] = e
  BY AppendProperties, LenProperties
<1>2. Occurrences(r, Append(s, e)) = Occurrences(r, s) \cup (IF e = r THEN {Len(s) + 1} ELSE {})
  BY <1>1 DEF Occurrences
<1>3. Len(s) + 1 \notin Occurrences(r, s)
  BY <1>1 DEF Occurrences
<1>4. IsFiniteSet(Occurrences(r, s)) /\ Count(r, s) \in Nat
  BY OccurrencesFinite
<1>5. /\ Count(r, s) = Cardinality(Occurrences(r, s))
      /\ Count(r, Append(s, e)) = Cardinality(Occurrences(r, Append(s, e)))
  BY DEF Count, Occurrences
<1>6. CASE e = r
  <2>1. Occurrences(r, Append(s, e)) = Occurrences(r, s) \cup {Len(s) + 1}
    BY <1>2, <1>6
  <2>. QED
    BY <1>3, <1>4, <1>5, <1>6, <2>1, FS_AddElement
<1>7. CASE e # r
  BY <1>2, <1>4, <1>5, <1>7
<1>. QED
  BY <1>6, <1>7

LEMMA WithoutFacts ==
    ASSUME NEW s \in Seq(Record), NEW i \in 1 .. Len(s)
    PROVE  /\ Without(s, i) \in Seq(Record)
           /\ Len(Without(s, i)) = Len(s) - 1
           /\ \A j \in 1 .. Len(s) - 1 : Without(s, i)[j] = IF j < i THEN s[j] ELSE s[j + 1]
<1>1. Len(s) \in Nat /\ \A j \in 1 .. Len(s) : s[j] \in Record
  BY LenProperties, ElementOfSeq
<1>2. Len(s) - 1 \in Nat
  BY <1>1
<1>3. \A j \in 1 .. Len(s) - 1 : (IF j < i THEN s[j] ELSE s[j + 1]) \in Record
  BY <1>1
<1>. DEFINE n == Len(s) - 1
            w == [j \in 1 .. n |-> IF j < i THEN s[j] ELSE s[j + 1]]
<1>4. w \in [1 .. n -> Record]
  BY <1>3
<1>. HIDE DEF w
<1>5. w \in Seq(Record) /\ Len(w) = n
  BY <1>2, <1>4
<1>. QED
  BY <1>5 DEF Without, w

LEMMA CountOfWithout ==
    ASSUME NEW s \in Seq(Record), NEW i \in 1 .. Len(s), NEW r
    PROVE  Count(r, s) = Count(r, Without(s, i)) + IF s[i] = r THEN 1 ELSE 0
<1>. DEFINE w    == Without(s, i)
            here == Occurrences(r, w)
            rest == Occurrences(r, s) \ {i}
            move == [j \in here |-> IF j < i THEN j ELSE j + 1]
<1>1. Len(s) \in Nat /\ DOMAIN s = 1 .. Len(s)
  BY LenProperties
<1>2. /\ w \in Seq(Record) /\ DOMAIN w = 1 .. Len(s) - 1
      /\ \A j \in 1 .. Len(s) - 1 : w[j] = IF j < i THEN s[j] ELSE s[j + 1]
  BY WithoutFacts, LenProperties
<1>3. /\ IsFiniteSet(here) /\ IsFiniteSet(Occurrences(r, s))
      /\ Count(r, w) \in Nat /\ Count(r, s) \in Nat
  BY <1>2, OccurrencesFinite
<1>4. Count(r, s) = Cardinality(Occurrences(r, s)) /\ Count(r, w) = Cardinality(here)
  BY DEF Count, Occurrences
<1>. HIDE DEF w
<1>5. \A j \in here : j \in 1 .. Len(s) - 1 /\ w[j] = r
  BY <1>2 DEF Occurrences
<1>6. ASSUME NEW j \in here PROVE (IF j < i THEN j ELSE j + 1) \in rest
  BY <1>1, <1>2, <1>5 DEF Occurrences
<1>7. move \in [here -> rest]
  BY <1>6
<1>8. \A a, b \in here : move[a] = move[b] => a = b
  BY <1>5
<1>9. ASSUME NEW t \in rest PROVE \E j \in here : move[j] = t
  <2>1. t \in 1 .. Len(s) /\ t # i /\ s[t] = r
    BY <1>1 DEF Occurrences
  <2>2. CASE t < i
    <3>1. t \in here
      BY <1>1, <1>2, <2>1, <2>2 DEF Occurrences
    <3>. QED
      BY <2>2, <3>1
  <2>3. CASE t > i
    <3>1. t - 1 \in 1 .. Len(s) - 1 /\ (t - 1) + 1 = t /\ ~ (t - 1 < i)
      BY <1>1, <2>1, <2>3
    <3>2. w[t - 1] = s[t]
      BY <1>2, <3>1
    <3>3. t - 1 \in here
      BY <1>2, <2>1, <3>1, <3>2 DEF Occurrences
    <3>. QED
      BY <3>1, <3>3
  <2>. QED
    BY <2>1, <2>2, <2>3
<1>10. ExistsBijection(here, rest)
  <2>. HIDE DEF move, here, rest
  <2>. QED
    BY <1>7, <1>8, <1>9, Fun_IsBij DEF ExistsBijection
<1>11. Cardinality(rest) = Cardinality(here)
  <2>. HIDE DEF here, rest
  <2>. QED
    BY <1>3, <1>10, FS_Bijection
<1>12. Cardinality(rest) =
          IF s[i] = r THEN Cardinality(Occurrences(r, s)) - 1 ELSE Cardinality(Occurrences(r, s))
  <2>1. i \in Occurrences(r, s) <=> s[i] = r
    BY <1>1 DEF Occurrences
  <2>. QED
    BY <1>3, <2>1, FS_RemoveElement
<1>. HIDE DEF here, rest
<1>. QED
  BY <1>3, <1>4, <1>11, <1>12 DEF w

-----------------------------------------------------------------------------
(* The readers of a name.                                                    *)
LEMMA FindFacts ==
    ASSUME NEW n \in Seq(Token), NEW t
    PROVE  /\ Find(n, t) \in 0 .. Len(n)
           /\ Find(n, t) # 0 => n[Find(n, t)] = t
           /\ Find(n, t) = 0 => \A i \in DOMAIN n : n[i] # t
<1>. DEFINE at == {i \in DOMAIN n : n[i] = t}
<1>1. Len(n) \in Nat /\ DOMAIN n = 1 .. Len(n)
  BY LenProperties
<1>2. CASE at = {}
  BY <1>1, <1>2 DEF Find
<1>3. CASE at # {}
  <2>1. at \subseteq Nat
    BY <1>1
  <2>2. \E i \in at : \A j \in at : i <= j
    <3>. HIDE DEF at
    <3>. QED
      BY <1>3, <2>1, LeastOf
  <2>3. Find(n, t) = CHOOSE i \in at : \A j \in at : i <= j
    BY <1>3 DEF Find
  <2>4. Find(n, t) \in at
    <3>. HIDE DEF at
    <3>. QED
      BY <2>2, <2>3
  <2>. QED
    BY <1>1, <2>4
<1>. QED
  BY <1>2, <1>3

(* A name that parses is a record of five fields; only an address is written *)
(* otherwise than its host.                                                  *)
Readable(p) ==
    \E host, port, written : \E literal \in BOOLEAN :
        /\ p = Parsed(host, port, literal, written)
        /\ ~literal => written = host

LEMMA ParsedOrRaises ==
    ASSUME NEW n
    PROVE  ParseName(n) = Raises \/ Readable(ParseName(n))
<1>1. CASE Bracketed(n)
  BY <1>1 DEF ParseName, ParseBracketed, Readable
<1>2. CASE ~Bracketed(n)
  <2>. DEFINE literal(host) == host \in {<<"quad">>, <<"v6">>, <<"scoped">>}
  <2>1. \A host : literal(host) \in BOOLEAN
    OBVIOUS
  <2>2. CASE ~OneColon(n)
    <3>1. ParseName(n) = Parsed(n, "", literal(n), n)
      BY <1>2, <2>2 DEF ParseName
    <3>. HIDE DEF literal
    <3>. QED
      BY <2>1, <3>1 DEF Readable
  <2>3. CASE OneColon(n)
    <3>. DEFINE colon == Find(n, ":")
                host  == SubSeq(n, 1, colon - 1)
    <3>1. ParseName(n) \in {Raises, Parsed(host, n[colon + 1], literal(host), host)}
      BY <1>2, <2>3 DEF ParseName
    <3>. HIDE DEF literal, host, colon
    <3>. QED
      BY <2>1, <3>1 DEF Readable
  <2>. QED
    BY <2>2, <2>3
<1>. QED
  BY <1>1, <1>2

LEMMA OneToken ==
    ASSUME NEW n, NEW i \in Int, n[i] \in Token
    PROVE  SubSeq(n, i, i) = <<n[i]>>
<1>1. /\ SubSeq(n, i, i) \in Seq(Token) /\ Len(SubSeq(n, i, i)) = 1
      /\ SubSeq(n, i, i)[1] = n[i]
  <2>1. \A j \in i .. i : n[j] \in Token
    OBVIOUS
  <2>. HIDE DEF Token
  <2>2. /\ SubSeq(n, i, i) \in Seq(Token)
        /\ Len(SubSeq(n, i, i)) = IF i <= i THEN i - i + 1 ELSE 0
        /\ \A j \in 1 .. i - i + 1 : SubSeq(n, i, i)[j] = n[i + j - 1]
    BY <2>1, SubSeqProperties
  <2>. QED
    BY <2>2
<1>2. <<n[i]>> \in Seq(Token) /\ Len(<<n[i]>>) = 1 /\ <<n[i]>>[1] = n[i]
  <2>. DEFINE x == n[i]
  <2>. HIDE DEF x, Token
  <2>1. x \in Token
    BY DEF x
  <2>. QED
    BY <2>1
<1>. HIDE DEF Token
<1>3. \A j \in 1 .. 1 : SubSeq(n, i, i)[j] = <<n[i]>>[j]
  BY <1>1, <1>2
<1>. QED
  BY <1>1, <1>2, <1>3, SeqEqual

(* What the sources let through, the resolver and the rules read alike.      *)
LEMMA ValidNamesAgree ==
    ASSUME NEW n \in Seq(Token), ValidServerName(n)
    PROVE  /\ n # <<>>
           /\ ParseName(n) # Raises
           /\ StripPort(n) = ParseName(n).written
           /\ StripPort(n) # <<"padded">> => IsIpLiteral(StripPort(n)) = ParseName(n).literal
<1>. DEFINE literal(host) == host \in {<<"quad">>, <<"v6">>, <<"scoped">>}
            key == StripPort(n)
<1>1. Len(n) \in Nat /\ DOMAIN n = 1 .. Len(n)
  BY LenProperties
(* In brackets there is an address, and behind them a port or nothing.       *)
<1>2. CASE Bracketed(n)
  <2>. DEFINE close == Find(n, "]")
              rest  == From(n, close + 1)
  <2>. DEFINE v6    == <<"[", "v6", "]">>
              ported == <<":", "port">>
  <2>1. /\ close \in 1 .. Len(n)
        /\ rest \in {<<>>, ported}
        /\ SubSeq(n, 1, close) = v6
    BY <1>2, FindFacts DEF ValidServerName
  <2>2. \A i \in 1 .. close : n[i] \in Token
    BY <1>1, <2>1, ElementOfSeq
  <2>3. /\ Len(v6) = 3 /\ v6[2] = "v6"
        /\ ported # <<>> /\ ported[1] = ":" /\ ported[2] = "port" /\ Len(ported) = 2
    OBVIOUS
  <2>4. IsIpLiteral(v6)
    BY DEF IsIpLiteral
  <2>. HIDE DEF close, rest, v6, ported
  <2>5. close = 3 /\ n[2] = "v6" /\ n[2] \in Token
    <3>1. /\ Len(SubSeq(n, 1, close)) = close
          /\ \A i \in 1 .. close : SubSeq(n, 1, close)[i] = n[i]
      BY <1>1, <2>1, <2>2, SubSeqProperties
    <3>2. close = 3
      BY <2>1, <2>3, <3>1
    <3>3. n[2] = v6[2] /\ 2 \in 1 .. close
      BY <2>1, <3>1, <3>2
    <3>. QED
      BY <2>2, <2>3, <3>2, <3>3
  <2>6. SubSeq(n, 2, close - 1) = <<"v6">>
    <3>1. SubSeq(n, 2, 2) = <<n[2]>>
      BY <2>5, OneToken
    <3>. QED
      BY <2>5, <3>1
  <2>7. From(ported, 2) = <<"port">>
    <3>1. SubSeq(ported, 2, 2) = <<ported[2]>>
      BY <2>3, OneToken DEF Token, Chunks
    <3>. QED
      BY <2>3, <3>1 DEF From
  <2>8. LET wrong == \/ close = 0
                     \/ rest # <<>> /\ rest[1] = ":" /\ From(rest, 2) \notin {<<p>> : p \in Numbers}
                     \/ SubSeq(n, 2, close - 1) \notin {<<"v6">>, <<"scoped">>}
        IN  ~wrong
    BY <2>1, <2>5, <2>6, <2>7 DEF Numbers
  <2>9. \E port : ParseName(n) = Parsed(SubSeq(n, 2, close - 1), port, TRUE, SubSeq(n, 1, close))
    BY <1>2, <2>8 DEF ParseName, ParseBracketed, close, rest
  <2>10. key = SubSeq(n, 1, close)
    BY <1>2 DEF StripPort, close
  <2>11. n # <<>>
    BY <1>2 DEF Bracketed
  <2>12. /\ ParseName(n) # Raises
         /\ ParseName(n).written = SubSeq(n, 1, close)
         /\ ParseName(n).literal = TRUE
    <3>. DEFINE host    == SubSeq(n, 2, close - 1)
                written == SubSeq(n, 1, close)
                parsed  == ParseName(n)
    <3>1. PICK port : parsed = Parsed(host, port, TRUE, written)
      BY <2>9
    <3>. HIDE DEF host, written, parsed
    <3>2. parsed # Raises /\ parsed.written = written /\ parsed.literal = TRUE
      BY <3>1 DEF Parsed, Raises
    <3>. QED
      BY <3>2 DEF written, parsed
  <2>13. IsIpLiteral(key)
    BY <2>1, <2>4, <2>10
  <2>14. IsIpLiteral(key) \in BOOLEAN
    BY DEF IsIpLiteral
  <2>. QED
    BY <2>10, <2>11, <2>12, <2>13, <2>14 DEF key
<1>3. ASSUME ~Bracketed(n), NoColon(n), n = <<"quad">> \/ DnsName(n)
      PROVE  /\ n # <<>> /\ key = n
             /\ ParseName(n) = Parsed(key, "", literal(key), key)
             /\ key # <<"padded">> => IsIpLiteral(key) = literal(key)
  <2>1. key = n
    BY <1>3 DEF StripPort
  <2>2. ~OneColon(n)
    BY <1>1, <1>3 DEF OneColon, NoColon
  <2>. QED
    BY <1>3, <2>1, <2>2 DEF ParseName, DnsName, IsIpLiteral
<1>4. ASSUME ~Bracketed(n), OneColon(n), From(n, Find(n, ":") + 1) = <<"port">>,
             LET host == SubSeq(n, 1, Find(n, ":") - 1) IN host = <<"quad">> \/ DnsName(host)
      PROVE  /\ n # <<>>
             /\ ParseName(n) = Parsed(key, n[Find(n, ":") + 1], literal(key), key)
             /\ key # <<"padded">> => IsIpLiteral(key) = literal(key)
  <2>1. ~NoColon(n) /\ n # <<>>
    BY <1>1, <1>4 DEF OneColon, NoColon
  <2>2. key = SubSeq(n, 1, Find(n, ":") - 1)
    BY <1>4, <2>1 DEF StripPort
  <2>3. ParseName(n) = Parsed(key, n[Find(n, ":") + 1], literal(key), key)
    BY <1>4, <2>2 DEF ParseName, Numbers
  <2>. QED
    BY <1>4, <2>1, <2>2, <2>3 DEF DnsName, IsIpLiteral
<1>. HIDE DEF key, literal
<1>5. CASE ~Bracketed(n)
  <2>1. \/ NoColon(n) /\ (n = <<"quad">> \/ DnsName(n))
        \/ /\ OneColon(n)
           /\ From(n, Find(n, ":") + 1) = <<"port">>
           /\ LET host == SubSeq(n, 1, Find(n, ":") - 1) IN host = <<"quad">> \/ DnsName(host)
    BY <1>5 DEF ValidServerName
  <2>2. /\ n # <<>>
        /\ \E port : ParseName(n) = Parsed(key, port, literal(key), key)
        /\ key # <<"padded">> => IsIpLiteral(key) = literal(key)
    BY <1>3, <1>4, <1>5, <2>1
  <2>. QED
    <3>. DEFINE l      == literal(key)
                parsed == ParseName(n)
    <3>1. PICK port : parsed = Parsed(key, port, l, key)
      BY <2>2
    <3>2. l \in BOOLEAN
      BY DEF literal
    <3>. HIDE DEF l, parsed
    <3>3. parsed # Raises /\ parsed.written = key /\ parsed.literal = l
      BY <3>1, <3>2 DEF Parsed, Raises
    <3>. QED
      BY <2>2, <3>3 DEF key, l, parsed
<1>. QED
  BY <1>2, <1>5

-----------------------------------------------------------------------------
(* What holds in every state of a search: what is read is a name, what is    *)
(* asked and answered is in step with where the search is.                   *)
Readings == [wellknown : {<<>>} \cup Delegations, srv : Seq(Answers)]

TypedInv ==
    /\ step \in {"idle", "wellknown", "srv", "order", "done"}
    /\ raw \in {<<>>} \cup RawNames
    /\ raw # <<>> => ValidServerName(raw)
    /\ raw = <<>> => step = "idle"
    /\ Readable(name)
    /\ delegated \in BOOLEAN
    /\ service \in {1, 2}
    /\ band \in Seq(Record)
    /\ ordered \in Seq(Record)
    /\ answered \in Readings
    /\ Len(answered.srv) <= service
    /\ step \in {"idle", "wellknown"} => Len(answered.srv) = 0 /\ service = 1
    /\ step = "srv" => Len(answered.srv) = service - 1
    /\ step = "order" => Len(answered.srv) = service
    /\ (candidates # <<>>) = (step = "done")

LEMMA ReadableFields ==
    ASSUME NEW p, Readable(p)
    PROVE  p.raises = FALSE /\ p.literal \in BOOLEAN /\ (~p.literal => p.written = p.host)
BY DEF Readable, Parsed

LEMMA NotRaised ==
    ASSUME NEW n, ~ ParseName(n).raises
    PROVE  Readable(ParseName(n))
<1>1. Raises.raises = TRUE
  BY DEF Raises
<1>. QED
  BY <1>1, ParsedOrRaises

LEMMA SearchesReadable ==
    ASSUME NEW r \in RawNames, ValidServerName(r)
    PROVE  r # <<>> /\ Readable(ParseName(r))
<1>1. r \in Seq(Token)
  BY ResolutionAssumption
<1>. QED
  BY <1>1, ValidNamesAgree, ParsedOrRaises

LEMMA TypedInit ==
    ASSUME ResolutionInit
    PROVE  TypedInv
<1>1. Readable(name)
  BY DEF ResolutionInit, NoName, Readable
<1>2. /\ <<>> \in Seq(Record)
      /\ <<>> \in Seq(Answers) /\ Len(<<>>) = 0
  OBVIOUS
<1>3. answered \in Readings /\ answered.srv = <<>>
  BY <1>2 DEF ResolutionInit, Readings
<1>4. /\ step = "idle" /\ raw = <<>> /\ delegated \in BOOLEAN /\ service = 1
      /\ band = <<>> /\ ordered = <<>> /\ candidates = <<>>
  BY DEF ResolutionInit
<1>5. Len(answered.srv) = 0
  BY <1>2, <1>3
<1>. QED
  BY <1>1, <1>2, <1>3, <1>4, <1>5 DEF TypedInv

(* The endpoints an answer leads to: none only if no record can be used.     *)
LEMMA NoneUsable ==
    ASSUME NEW usable \in Seq(Record), NEW n
    PROVE  ([i \in DOMAIN usable |-> ToRecord(n, usable[i])] = <<>>) = (usable = <<>>)
<1>. DEFINE list == [i \in DOMAIN usable |-> ToRecord(n, usable[i])]
<1>1. DOMAIN list = 1 .. Len(usable) /\ Len(usable) \in Nat
  BY LenProperties
<1>2. DOMAIN <<>> = 1 .. 0
  OBVIOUS
<1>3. ASSUME usable = <<>> PROVE list = <<>>
  BY <1>3
<1>4. ASSUME list = <<>> PROVE usable = <<>>
  <2>. HIDE DEF list
  <2>1. 1 .. Len(usable) = 1 .. 0
    BY <1>1, <1>2, <1>4
  <2>2. Len(usable) = 0
    <3>1. Len(usable) > 0 => 1 \in 1 .. Len(usable)
      BY <1>1
    <3>2. 1 \notin 1 .. 0
      OBVIOUS
    <3>. QED
      BY <1>1, <2>1, <3>1, <3>2
  <2>. QED
    BY <2>2, EmptySeq
<1>. HIDE DEF list
<1>. QED
  BY <1>3, <1>4 DEF list

LEMMA TypedStep ==
    ASSUME TypedInv, [ResolutionNext]_resolutionVars
    PROVE  TypedInv'
<1>. USE DEF TypedInv
<1>1. ASSUME NEW r \in RawNames, Resolve(r) PROVE TypedInv'
  <2>1. r # <<>> /\ Readable(ParseName(r)) /\ ParseName(r).literal \in BOOLEAN
    BY <1>1, SearchesReadable, ReadableFields DEF Resolve
  <2>2. (candidates' # <<>>) = (step' = "done")
    BY <1>1, <2>1 DEF Resolve, Direct
  <2>3. step' \in {"wellknown", "done"} /\ Readable(name')
    BY <1>1, <2>1 DEF Resolve, Direct
  <2>. HIDE DEF Readable
  <2>. QED
    BY <1>1, <2>1, <2>2, <2>3 DEF Resolve
<1>2. ASSUME NEW value \in Delegations, Delegate(value) PROVE TypedInv'
  <2>1. /\ answered' \in Readings /\ answered'.srv = answered.srv
    BY <1>2 DEF Delegate, Readings
  <2>2. CASE ParseName(value).raises
    <3>1. step' = "srv" /\ UNCHANGED <<raw, name, delegated, service, band, ordered, candidates>>
      BY <1>2, <2>2 DEF Delegate
    <3>2. Readable(name')
      BY <3>1 DEF Readable
    <3>. QED
      BY <1>2, <2>1, <3>1, <3>2 DEF Delegate
  <2>3. CASE ~ ParseName(value).raises
    <3>1. Readable(ParseName(value)) /\ ParseName(value).literal \in BOOLEAN
      BY <2>3, NotRaised, ReadableFields
    <3>2. (candidates' # <<>>) = (step' = "done")
      <4>. DEFINE parsed == ParseName(value)
      <4>1. Direct(parsed, "srv") /\ parsed.literal \in BOOLEAN
        BY <1>2, <2>3, <3>1 DEF Delegate
      <4>. HIDE DEF parsed
      <4>. QED
        BY <4>1 DEF Direct
    <3>3. step' \in {"srv", "done"} /\ name' = ParseName(value) /\ delegated' \in BOOLEAN
      BY <1>2, <2>3 DEF Delegate, Direct
    <3>4. Readable(name')
      BY <3>1, <3>3 DEF Readable
    <3>. QED
      BY <1>2, <2>1, <3>2, <3>3, <3>4 DEF Delegate
  <2>. QED
    BY <2>2, <2>3
<1>3. CASE NoDelegation
  BY <1>3 DEF NoDelegation, Readable
<1>4. ASSUME NEW records \in Answers, QuerySrv(records) PROVE TypedInv'
  <2>1. records \in Seq(Record)
    BY ResolutionAssumption
  <2>2. answered.srv \in Seq(Answers)
    BY DEF Readings
  <2>3. /\ Append(answered.srv, records) \in Seq(Answers)
        /\ Len(Append(answered.srv, records)) = Len(answered.srv) + 1
    BY <2>2, AppendProperties
  <2>4. answered' \in Readings /\ answered'.srv = Append(answered.srv, records)
    BY <1>4, <2>3 DEF QuerySrv, Readings
  <2>5. Len(answered'.srv) = service
    BY <1>4, <2>3, <2>4 DEF QuerySrv
  <2>6. Readable(name')
    BY <1>4 DEF QuerySrv, Readable
  <2>7. <<>> \in Seq(Record)
    OBVIOUS
  <2>. QED
    BY <1>4, <2>1, <2>4, <2>5, <2>6, <2>7 DEF QuerySrv
<1>5. ASSUME NEW i \in DOMAIN band, PickRecord(i) PROVE TypedInv'
  <2>1. i \in 1 .. Len(band) /\ band[i] \in Record
    BY LenProperties, ElementOfSeq
  <2>2. band' \in Seq(Record) /\ ordered' \in Seq(Record)
    BY <1>5, <2>1, WithoutFacts, AppendProperties DEF PickRecord
  <2>3. Readable(name')
    BY <1>5 DEF PickRecord, Readable
  <2>. QED
    BY <1>5, <2>2, <2>3 DEF PickRecord
<1>6. CASE Answer
  <2>. DEFINE usable == Usable(ordered)
              list   == [i \in DOMAIN usable |-> ToRecord(name, usable[i])]
  <2>1. (list = <<>>) = (usable = <<>>)
    <3>1. usable \in Seq(Record)
      BY UsableKeeps
    <3>. HIDE DEF usable
    <3>. QED
      BY <3>1, NoneUsable
  <2>2. Len(Services) = 2
    BY DEF Services
  <2>3. /\ step = "order" /\ UNCHANGED <<raw, name, delegated, band, ordered, answered>>
        /\ candidates' = IF usable # <<>> THEN list
                         ELSE IF service < 2 THEN <<>> ELSE <<ToPlain(name)>>
        /\ IF usable = <<>> /\ service < 2 THEN step' = "srv" /\ service' = service + 1
           ELSE step' = "done" /\ UNCHANGED service
    BY <1>6, <2>2 DEF Answer
  <2>4. Readable(name')
    BY <2>3 DEF Readable
  <2>. HIDE DEF usable, list
  <2>5. (candidates' # <<>>) = (step' = "done")
    BY <2>1, <2>3
  <2>. QED
    BY <2>3, <2>4, <2>5
<1>7. CASE UNCHANGED resolutionVars
  BY <1>7 DEF resolutionVars, Readable
<1>. QED
  BY <1>1, <1>2, <1>3, <1>4, <1>5, <1>6, <1>7 DEF ResolutionNext

LEMMA TypedAlways == ResolutionSpec => []TypedInv
BY TypedInit, TypedStep, PTL DEF ResolutionSpec

(* A search is in one of its steps, has asked no more services than it has,  *)
(* and ends with a candidate and no earlier.                                 *)
THEOREM ResolutionTyped == ResolutionSpec => []ResolutionTypeOK
<1>1. ASSUME TypedInv PROVE ResolutionTypeOK
  <2>1. DOMAIN Services = {1, 2}
    BY DEF Services
  <2>2. ~ name.raises
    BY <1>1, ReadableFields DEF TypedInv
  <2>. QED
    BY <1>1, <2>1, <2>2 DEF TypedInv, ResolutionTypeOK
<1>. QED
  BY <1>1, TypedAlways, PTL

(* Whatever the sources let through, the rules are keyed by the host that    *)
(* the resolver asks for.                                                    *)
THEOREM ReadAlike == ResolutionSpec => []NamesAgree
<1>1. ASSUME TypedInv PROVE NamesAgree
  <2>1. raw # <<>> => raw \in Seq(Token) /\ ValidServerName(raw) /\ raw \in RawNames
    BY <1>1, ResolutionAssumption DEF TypedInv
  <2>2. raw # <<>> => ParseName(raw).raises = FALSE
    BY <2>1, SearchesReadable, ReadableFields
  <2>. QED
    BY <2>1, <2>2, ValidNamesAgree DEF NamesAgree
<1>. QED
  BY <1>1, TypedAlways, PTL

-----------------------------------------------------------------------------
(* None of the records in order stands behind one that is left.              *)
Precedes(a, b) ==
    /\ a.priority <= b.priority
    /\ a.priority = b.priority /\ a.weight = 0 => b.weight = 0

OrderInv ==
    /\ OrderIsRfc2782
    /\ \A i \in DOMAIN ordered : \A k \in DOMAIN band : Precedes(ordered[i], band[k])

LEMMA CountOfNone ==
    ASSUME NEW r
    PROVE  Count(r, <<>>) = 0
<1>1. {i \in DOMAIN <<>> : <<>>[i] = r} = {}
  OBVIOUS
<1>. QED
  BY <1>1, FS_EmptySet DEF Count

LEMMA OrderInit ==
    ASSUME ResolutionInit
    PROVE  OrderInv
<1>1. answered.srv = <<>> /\ ordered = <<>>
  BY DEF ResolutionInit
<1>. QED
  BY <1>1 DEF OrderInv, OrderIsRfc2782

LEMMA OrderStep ==
    ASSUME TypedInv, OrderInv, [ResolutionNext]_resolutionVars
    PROVE  OrderInv'
<1>1. ASSUME UNCHANGED <<band, ordered>>, answered'.srv = answered.srv PROVE OrderInv'
  BY <1>1 DEF OrderInv, OrderIsRfc2782
<1>2. ASSUME NEW value \in Delegations, Delegate(value) PROVE OrderInv'
  <2>1. answered' = [answered EXCEPT !.wellknown = value] /\ UNCHANGED <<band, ordered>>
    BY <1>2 DEF Delegate
  <2>2. answered'.srv = answered.srv
    BY <2>1 DEF TypedInv, Readings
  <2>. QED
    BY <1>1, <2>1, <2>2
<1>3. ASSUME NEW records \in Answers, QuerySrv(records) PROVE OrderInv'
  <2>1. records \in Seq(Record)
    BY ResolutionAssumption
  <2>2. answered.srv \in Seq(Answers)
    BY DEF TypedInv, Readings
  <2>3. answered'.srv = Append(answered.srv, records)
    BY <1>3 DEF QuerySrv, TypedInv, Readings
  <2>4. answered'.srv[Len(answered'.srv)] = records
    BY <2>2, <2>3, AppendProperties
  <2>5. band' = records /\ ordered' = <<>> /\ DOMAIN <<>> = {} /\ Len(<<>>) = 0
    BY <1>3 DEF QuerySrv
  <2>6. \A r : Count(r, records) \in Nat /\ Count(r, <<>>) = 0
    BY <2>1, OccurrencesFinite, CountOfNone
  <2>7. Len(records) \in Nat
    BY <2>1, LenProperties
  <2>. QED
    BY <2>4, <2>5, <2>6, <2>7 DEF OrderInv, OrderIsRfc2782
<1>4. ASSUME NEW i \in DOMAIN band, PickRecord(i) PROVE OrderInv'
  <2>. DEFINE e == band[i]
              m == Len(ordered)
              given == answered.srv[Len(answered.srv)]
  <2>1. /\ band \in Seq(Record) /\ ordered \in Seq(Record)
        /\ Len(band) \in Nat /\ DOMAIN band = 1 .. Len(band)
        /\ m \in Nat /\ DOMAIN ordered = 1 .. m
        /\ i \in 1 .. Len(band) /\ e \in Record
    BY LenProperties, ElementOfSeq DEF TypedInv
  <2>2. answered.srv # <<>> /\ UNCHANGED answered
    <3>1. step = "order" /\ UNCHANGED answered
      BY <1>4 DEF PickRecord
    <3>2. Len(answered.srv) # 0
      BY <3>1 DEF TypedInv
    <3>. QED
      BY <3>1, <3>2
  <2>3. /\ ordered' = Append(ordered, e) /\ DOMAIN ordered' = 1 .. m + 1 /\ Len(ordered') = m + 1
        /\ \A j \in 1 .. m : ordered'[j] = ordered[j]
        /\ ordered'[m + 1] = e
    BY <1>4, <2>1, AppendProperties, LenProperties DEF PickRecord
  <2>4. /\ band' = Without(band, i) /\ Len(band') = Len(band) - 1
        /\ DOMAIN band' = 1 .. Len(band) - 1
        /\ \A k \in 1 .. Len(band) - 1 : band'[k] = IF k < i THEN band[k] ELSE band[k + 1]
    BY <1>4, <2>1, WithoutFacts, LenProperties DEF PickRecord
  <2>5. ASSUME NEW k \in DOMAIN band' PROVE \E l \in DOMAIN band : band'[k] = band[l]
    BY <2>1, <2>4
  <2>6. \A k \in DOMAIN band : Precedes(e, band[k])
    <3>1. i \in Pickable
      BY <1>4 DEF PickRecord
    <3>. QED
      BY <2>1, <3>1, PickedIsDue DEF Precedes
  <2>7. \A a \in DOMAIN ordered : \A k \in DOMAIN band : Precedes(ordered[a], band[k])
    BY DEF OrderInv
  <2>8. ASSUME NEW a \in DOMAIN ordered', NEW k \in DOMAIN band'
        PROVE  Precedes(ordered'[a], band'[k])
    <3>1. PICK l \in DOMAIN band : band'[k] = band[l]
      BY <2>5
    <3>2. CASE a = m + 1
      BY <2>3, <2>6, <3>1, <3>2
    <3>3. CASE a # m + 1
      <4>1. a \in 1 .. m
        BY <2>1, <2>3, <3>3
      <4>. QED
        BY <2>1, <2>3, <2>7, <3>1, <4>1
    <3>. QED
      BY <3>2, <3>3
  <2>9. /\ \A r \in Range(given) : Count(r, given) = Count(r, ordered) + Count(r, band)
        /\ Len(given) = m + Len(band)
        /\ \A a, b \in DOMAIN ordered : a < b => Precedes(ordered[a], ordered[b])
    BY <2>2 DEF OrderInv, OrderIsRfc2782, Precedes
  <2>10. ASSUME NEW r
         PROVE  Count(r, ordered) + Count(r, band) = Count(r, ordered') + Count(r, band')
    <3>1. Count(r, ordered') = Count(r, ordered) + IF e = r THEN 1 ELSE 0
      BY <2>1, <2>3, CountOfAppend
    <3>2. Count(r, band) = Count(r, band') + IF e = r THEN 1 ELSE 0
      BY <2>1, <2>4, CountOfWithout
    <3>3. Count(r, ordered) \in Nat /\ Count(r, band) \in Nat /\ Count(r, band') \in Nat
      BY <2>1, <2>4, OccurrencesFinite, WithoutFacts
    <3>. QED
      BY <3>1, <3>2, <3>3
  <2>11. ASSUME NEW a \in DOMAIN ordered', NEW b \in DOMAIN ordered', a < b
         PROVE  Precedes(ordered'[a], ordered'[b])
    <3>1. a \in 1 .. m /\ ordered'[a] = ordered[a]
      BY <2>1, <2>3, <2>11
    <3>2. CASE b = m + 1
      BY <2>1, <2>3, <2>7, <3>1, <3>2
    <3>3. CASE b # m + 1
      <4>1. b \in 1 .. m
        BY <2>1, <2>3, <3>3
      <4>. QED
        BY <2>1, <2>3, <2>9, <2>11, <3>1, <4>1
    <3>. QED
      BY <3>2, <3>3
  <2>12. given' = given
    BY <2>2
  <2>13. Len(given) = Len(ordered') + Len(band')
    BY <2>1, <2>3, <2>4, <2>9
  <2>14. \A r \in Range(given) : Count(r, given) = Count(r, ordered') + Count(r, band')
    BY <2>9, <2>10
  <2>. HIDE DEF given
  <2>15. OrderIsRfc2782'
    BY <2>11, <2>12, <2>13, <2>14 DEF OrderIsRfc2782, Precedes, given
  <2>. QED
    BY <2>8, <2>15 DEF OrderInv
<1>5. CASE \/ \E r \in RawNames : Resolve(r)
           \/ NoDelegation
           \/ Answer
           \/ UNCHANGED resolutionVars
  BY <1>1, <1>5 DEF Resolve, NoDelegation, Answer, resolutionVars
<1>. QED
  BY <1>2, <1>3, <1>4, <1>5 DEF ResolutionNext

(* The walk never stands before records none of which it may pick, and no    *)
(* record that has a weight is out of its reach while its priority is due.   *)
THEOREM PicksAreWeighted ==
    ResolutionSpec => [](Pickable = Due /\ (band # <<>> => Pickable # {}))
<1>1. TypedInv => Pickable = Due /\ (band # <<>> => Pickable # {})
  BY PickableIsDue, SomeIsDue DEF TypedInv
<1>. QED
  BY <1>1, TypedAlways, PTL

(* However the picks fall, each record of an answer is tried as often as it  *)
(* was given, and in an order of RFC 2782.                                   *)
THEOREM TriedInOrder == ResolutionSpec => []OrderIsRfc2782
<1>1. ResolutionSpec => []OrderInv
  BY TypedAlways, OrderInit, OrderStep, PTL DEF ResolutionSpec
<1>2. OrderInv => OrderIsRfc2782
  BY DEF OrderInv
<1>. QED
  BY <1>1, <1>2, PTL

-----------------------------------------------------------------------------
(* The name that the search is for, by what has been answered.               *)
Via ==
    /\ ~ ParseName(raw).literal /\ ParseName(raw).port = ""
    /\ answered.wellknown # <<>>
    /\ ~ ParseName(answered.wellknown).raises

Base == IF Via THEN ParseName(answered.wellknown) ELSE ParseName(raw)

(* Neither an address nor a port ends the search.                            *)
Open(n) == ~ n.literal /\ n.port = ""

Offering(records) == {r \in Range(records) : r.target # NoService}

(* What FollowsSpec says of a list of candidates.                            *)
Fits(base, srv, list) ==
    /\ {<<c.host, c.port>> : c \in Range(list)} = Endpoints(base, srv)
    /\ \A c \in Range(list) :
          /\ c.tls = IF base.literal THEN <<>> ELSE base.host
          /\ c.header = IF base.port = "" THEN base.written ELSE Append(base.written, base.port)

SearchInv ==
    /\ step = "wellknown" =>
          name = ParseName(raw) /\ Open(name) /\ ~delegated /\ answered.wellknown = <<>>
    /\ step = "idle" => ~delegated /\ answered.wellknown = <<>>
    /\ step \in {"srv", "order"} =>
          /\ name = Base /\ delegated = Via /\ Open(name)
          /\ \A s \in 1 .. service - 1 : Offering(answered.srv[s]) = {}
    /\ step = "order" =>
          Range(answered.srv[service]) = Range(ordered) \cup Range(band)
    /\ step = "done" => delegated = Via /\ Fits(Base, answered.srv, candidates)

LEMMA RangeOfOne ==
    ASSUME NEW x
    PROVE  Range(<<x>>) = {x}
BY DEF Range

(* An address or a port is the answer of the specification as well.          *)
LEMMA DirectFits ==
    ASSUME NEW n, Readable(n), ~ Open(n), NEW srv,
           NEW list, list = IF n.literal THEN <<ToLiteral(n)>> ELSE <<ToPort(n)>>
    PROVE  Fits(n, srv, list)
<1>1. n.literal \in BOOLEAN /\ (~n.literal => n.written = n.host)
  BY ReadableFields
<1>2. CASE n.literal
  <2>. DEFINE c == ToLiteral(n)
  <2>1. /\ c.host = n.host
        /\ c.port = IF n.port \in {"", "zero"} THEN Default ELSE n.port
        /\ c.header = IF n.port = "" THEN n.written ELSE Append(n.written, n.port)
        /\ c.tls = <<>>
    BY DEF ToLiteral, Target, Headed
  <2>2. Endpoints(n, srv) = {<<c.host, c.port>>}
    BY <1>2, <2>1 DEF Endpoints
  <2>3. Range(list) = {c}
    BY <1>2, RangeOfOne
  <2>. HIDE DEF c
  <2>. QED
    BY <1>2, <2>1, <2>2, <2>3 DEF Fits
<1>3. CASE ~n.literal
  <2>. DEFINE c == ToPort(n)
  <2>1. n.port # "" /\ n.written = n.host
    BY <1>1, <1>3 DEF Open
  <2>2. /\ c.host = n.host /\ c.port = n.port
        /\ c.header = Append(n.written, n.port) /\ c.tls = n.host
    BY <2>1 DEF ToPort, Target, Headed
  <2>3. Endpoints(n, srv) = {<<n.host, n.port>>}
    BY <1>3, <2>1 DEF Endpoints
  <2>4. Range(list) = {c}
    BY <1>3, RangeOfOne
  <2>. HIDE DEF c
  <2>. QED
    BY <1>3, <2>1, <2>2, <2>3, <2>4 DEF Fits
<1>. QED
  BY <1>1, <1>2, <1>3

(* So are the records of the one service that offers any.                    *)
LEMMA RecordsFit ==
    ASSUME NEW n, Readable(n), Open(n), NEW srv, NEW s \in Nat, DOMAIN srv = 1 .. s, s > 0,
           \A t \in 1 .. s - 1 : Offering(srv[t]) = {},
           NEW usable \in Seq(Record), usable # <<>>, Range(usable) = Offering(srv[s])
    PROVE  Fits(n, srv, [i \in DOMAIN usable |-> ToRecord(n, usable[i])])
<1>. DEFINE list     == [i \in DOMAIN usable |-> ToRecord(n, usable[i])]
            offering == {t \in DOMAIN srv : \E r \in Range(srv[t]) : r.target # NoService}
            chosen   == CHOOSE t \in offering : \A u \in offering : t <= u
<1>1. n.literal = FALSE /\ n.port = "" /\ n.written = n.host
  BY ReadableFields DEF Open
<1>2. Len(usable) \in Nat /\ DOMAIN usable = 1 .. Len(usable)
  BY LenProperties
<1>3. Range(usable) # {}
  <2>1. Len(usable) # 0
    BY EmptySeq
  <2>2. 1 \in DOMAIN usable
    BY <1>2, <2>1
  <2>3. usable[1] \in Range(usable)
    BY <2>2 DEF Range
  <2>. QED
    BY <2>3
<1>4. offering = {s}
  BY <1>3 DEF Offering
<1>5. chosen = s
  BY <1>4
<1>. HIDE DEF chosen
<1>6. Endpoints(n, srv) = {<< <<r.target>>, r.target>> : r \in Offering(srv[s])}
  <2>1. Endpoints(n, srv) =
           {<< <<r.target>>, r.target>> : r \in {x \in Range(srv[chosen]) : x.target # NoService}}
    BY <1>1, <1>4 DEF Endpoints, chosen
  <2>. QED
    BY <1>5, <2>1 DEF Offering
<1>7. Range(list) = {ToRecord(n, r) : r \in Range(usable)}
  BY DEF Range
<1>8. \A r : LET c == ToRecord(n, r)
             IN  /\ c.host = <<r.target>> /\ c.port = r.target
                 /\ c.header = n.host /\ c.tls = n.host
  BY DEF ToRecord, Target
<1>. HIDE DEF list
<1>9. {<<c.host, c.port>> : c \in Range(list)} = {<< <<r.target>>, r.target>> : r \in Range(usable)}
  BY <1>7, <1>8
<1>10. Fits(n, srv, list)
  BY <1>1, <1>6, <1>7, <1>8, <1>9 DEF Fits
<1>. QED
  BY <1>10 DEF list

(* And the plain name, when none does.                                       *)
LEMMA PlainFits ==
    ASSUME NEW n, Readable(n), Open(n), NEW srv, \A t \in DOMAIN srv : Offering(srv[t]) = {}
    PROVE  Fits(n, srv, <<ToPlain(n)>>)
<1>. DEFINE c == ToPlain(n)
<1>1. n.literal = FALSE /\ n.port = "" /\ n.written = n.host
  BY ReadableFields DEF Open
<1>2. /\ c.host = n.host /\ c.port = Default
      /\ c.header = n.host /\ c.tls = n.host
  BY DEF ToPlain, Target
<1>3. {t \in DOMAIN srv : \E r \in Range(srv[t]) : r.target # NoService} = {}
  BY DEF Offering
<1>4. Endpoints(n, srv) = {<<n.host, Default>>}
  BY <1>1, <1>3 DEF Endpoints
<1>5. Range(<<c>>) = {c}
  BY RangeOfOne
<1>. HIDE DEF c
<1>6. Fits(n, srv, <<c>>)
  BY <1>1, <1>2, <1>4, <1>5 DEF Fits
<1>. QED
  BY <1>6 DEF c

(* Where Direct leads with a name that can be read.                          *)
LEMMA DirectLeads ==
    ASSUME NEW n, Readable(n), NEW otherwise, otherwise # "done", Direct(n, otherwise)
    PROVE  /\ name' = n
           /\ \/ step' = "done" /\ ~Open(n) /\ \A srv : Fits(n, srv, candidates')
              \/ step' = otherwise /\ Open(n)
<1>1. n.literal \in BOOLEAN
  BY ReadableFields
<1>2. CASE Open(n)
  BY <1>2 DEF Open, Direct
<1>3. CASE ~Open(n)
  <2>1. step' = "done"
    BY <1>1, <1>3 DEF Open, Direct
  <2>2. candidates' = IF n.literal THEN <<ToLiteral(n)>> ELSE <<ToPort(n)>>
    BY <1>3 DEF Open, Direct
  <2>3. \A srv : Fits(n, srv, candidates')
    BY <1>3, <2>2, DirectFits
  <2>. QED
    BY <1>3, <2>1, <2>3 DEF Direct
<1>. QED
  BY <1>2, <1>3 DEF Direct

LEMMA SearchInit ==
    ASSUME ResolutionInit
    PROVE  SearchInv
BY DEF ResolutionInit, SearchInv

LEMMA SearchStep ==
    ASSUME TypedInv, TypedInv', SearchInv, [ResolutionNext]_resolutionVars
    PROVE  SearchInv'
<1>1. ASSUME NEW r \in RawNames, Resolve(r) PROVE SearchInv'
  <2>. DEFINE n == ParseName(r)
  <2>1. /\ step = "idle" /\ raw' = r /\ delegated' = FALSE /\ UNCHANGED answered
        /\ Direct(n, "wellknown") /\ Readable(n) /\ n.literal \in BOOLEAN
        /\ answered.wellknown = <<>>
    BY <1>1, SearchesReadable, ReadableFields DEF Resolve, SearchInv
  <2>2. /\ name' = n
        /\ \/ step' = "done" /\ ~Open(n) /\ \A srv : Fits(n, srv, candidates')
           \/ step' = "wellknown" /\ Open(n)
    <3>1. "wellknown" # "done"
      OBVIOUS
    <3>. HIDE DEF n
    <3>. QED
      BY <2>1, <3>1, DirectLeads
  <2>3. Via' = FALSE /\ Base' = n
    BY <2>1 DEF Via, Base
  <2>. HIDE DEF n
  <2>4. ParseName(raw') = n
    BY <2>1 DEF n
  <2>. QED
    BY <2>1, <2>2, <2>3, <2>4 DEF SearchInv
<1>2. ASSUME NEW value \in Delegations, Delegate(value) PROVE SearchInv'
  <2>. DEFINE own == ParseName(raw)
              n   == ParseName(value)
  <2>1. /\ step = "wellknown" /\ UNCHANGED <<raw, service>> /\ service = 1
        /\ name = own /\ Open(own) /\ delegated = FALSE
        /\ answered'.wellknown = value
    BY <1>2 DEF Delegate, SearchInv, TypedInv, Readings
  <2>2. value # <<>>
    BY ResolutionAssumption
  <2>3. 1 .. service' - 1 = {}
    BY <2>1
  <2>4. CASE n.raises
    <3>1. step' = "srv" /\ UNCHANGED <<name, delegated>>
      BY <1>2, <2>4 DEF Delegate
    <3>2. Via' = FALSE /\ Base' = own
      BY <2>1, <2>4 DEF Via, Base
    <3>. HIDE DEF own
    <3>. QED
      BY <2>1, <2>3, <3>1, <3>2 DEF SearchInv
  <2>5. CASE ~n.raises
    <3>1. Readable(n) /\ Direct(n, "srv") /\ delegated' = TRUE
      BY <1>2, <2>5, NotRaised DEF Delegate
    <3>2. Via' = TRUE /\ Base' = n
      BY <2>1, <2>2, <2>5 DEF Via, Base, Open
    <3>3. "srv" # "done"
      OBVIOUS
    <3>. HIDE DEF n
    <3>4. /\ name' = n
          /\ \/ step' = "done" /\ ~Open(n) /\ \A srv : Fits(n, srv, candidates')
             \/ step' = "srv" /\ Open(n)
      BY <3>1, <3>3, DirectLeads
    <3>5. delegated' = Via'
      BY <3>1, <3>2
    <3>6. CASE step' = "done"
      BY <3>2, <3>4, <3>5, <3>6 DEF SearchInv
    <3>7. CASE step' = "srv"
      <4>1. Open(n)' = Open(n)
        BY DEF n
      <4>. QED
        BY <2>3, <3>2, <3>4, <3>5, <3>7 DEF SearchInv
    <3>. QED
      BY <3>4, <3>6, <3>7
  <2>. QED
    BY <2>4, <2>5
<1>3. CASE NoDelegation
  <2>1. /\ step' = "srv" /\ UNCHANGED <<raw, name, delegated, service, answered>> /\ service = 1
        /\ name = ParseName(raw) /\ Open(name) /\ ~delegated /\ answered.wellknown = <<>>
    BY <1>3 DEF NoDelegation, SearchInv, TypedInv
  <2>2. Via' = FALSE /\ Base' = ParseName(raw)
    BY <2>1 DEF Via, Base
  <2>3. 1 .. service' - 1 = {} /\ delegated \in BOOLEAN
    BY <2>1 DEF TypedInv
  <2>. QED
    BY <2>1, <2>2, <2>3 DEF SearchInv
<1>4. ASSUME NEW records \in Answers, QuerySrv(records) PROVE SearchInv'
  <2>1. /\ step = "srv" /\ step' = "order" /\ UNCHANGED <<raw, name, delegated, service>>
        /\ band' = records /\ ordered' = <<>>
    BY <1>4 DEF QuerySrv
  <2>2. /\ answered.srv \in Seq(Answers)
        /\ answered'.srv = Append(answered.srv, records)
        /\ answered'.wellknown = answered.wellknown
    BY <1>4 DEF QuerySrv, TypedInv, Readings
  <2>3. Via' = Via /\ Base' = Base
    BY <2>1, <2>2 DEF Via, Base
  <2>4. Len(answered.srv) = service - 1 /\ service \in {1, 2}
    BY <2>1 DEF TypedInv
  <2>5. /\ answered'.srv[service] = records
        /\ \A s \in 1 .. service - 1 : answered'.srv[s] = answered.srv[s]
    BY <2>2, <2>4, AppendProperties
  <2>6. Range(<<>>) = {}
    BY DEF Range
  <2>7. /\ name = Base /\ delegated = Via /\ Open(name)
        /\ \A s \in 1 .. service - 1 : Offering(answered.srv[s]) = {}
    BY <2>1 DEF SearchInv
  <2>. QED
    BY <2>1, <2>3, <2>5, <2>6, <2>7 DEF SearchInv
<1>5. ASSUME NEW i \in DOMAIN band, PickRecord(i) PROVE SearchInv'
  <2>1. /\ step = "order" /\ UNCHANGED <<step, raw, name, delegated, service, answered>>
        /\ ordered' = Append(ordered, band[i]) /\ band' = Without(band, i)
    BY <1>5 DEF PickRecord
  <2>2. /\ band \in Seq(Record) /\ ordered \in Seq(Record)
        /\ DOMAIN band = 1 .. Len(band) /\ Len(band) \in Nat /\ band[i] \in Record
    BY LenProperties, ElementOfSeq DEF TypedInv
  <2>3. Range(ordered') = Range(ordered) \cup {band[i]}
    BY <2>1, <2>2, RangeOfAppend
  <2>4. Range(band) = Range(band') \cup {band[i]}
    <3>1. /\ DOMAIN band' = 1 .. Len(band) - 1
          /\ \A k \in 1 .. Len(band) - 1 : band'[k] = IF k < i THEN band[k] ELSE band[k + 1]
      BY <2>1, <2>2, WithoutFacts, LenProperties
    <3>2. Range(band') \subseteq Range(band)
      <4>1. \A j \in DOMAIN band' : \E l \in DOMAIN band : band'[j] = band[l]
        BY <2>2, <3>1
      <4>. QED
        BY <4>1 DEF Range
    <3>3. ASSUME NEW k \in DOMAIN band, k # i PROVE band[k] \in Range(band')
      <4>1. CASE k < i
        <5>1. k \in 1 .. Len(band) - 1 /\ band'[k] = band[k]
          BY <2>2, <3>1, <4>1
        <5>. QED
          BY <3>1, <5>1 DEF Range
      <4>2. CASE k > i
        <5>1. k - 1 \in 1 .. Len(band) - 1 /\ ~ (k - 1 < i) /\ (k - 1) + 1 = k
          BY <2>2, <4>2
        <5>2. band'[k - 1] = band[k]
          BY <3>1, <5>1
        <5>. QED
          BY <3>1, <5>1, <5>2 DEF Range
      <4>. QED
        BY <2>2, <3>3, <4>1, <4>2
    <3>4. band[i] \in Range(band)
      BY DEF Range
    <3>5. \A x \in Range(band) : \E k \in DOMAIN band : x = band[k]
      BY DEF Range
    <3>. QED
      BY <3>2, <3>3, <3>4, <3>5
  <2>5. Via' = Via /\ Base' = Base
    BY <2>1 DEF Via, Base
  <2>6. Range(ordered') \cup Range(band') = Range(ordered) \cup Range(band)
    BY <2>3, <2>4
  <2>. QED
    BY <2>1, <2>5, <2>6 DEF SearchInv
<1>6. CASE Answer
  <2>. DEFINE usable == Usable(ordered)
              list   == [i \in DOMAIN usable |-> ToRecord(name, usable[i])]
  <2>1. Len(Services) = 2
    BY DEF Services
  <2>2. /\ step = "order" /\ band = <<>>
        /\ UNCHANGED <<raw, name, delegated, band, ordered, answered>>
        /\ candidates' = IF usable # <<>> THEN list
                         ELSE IF service < 2 THEN <<>> ELSE <<ToPlain(name)>>
        /\ IF usable = <<>> /\ service < 2 THEN step' = "srv" /\ service' = service + 1
           ELSE step' = "done" /\ UNCHANGED service
    BY <1>6, <2>1 DEF Answer
  <2>3. /\ service \in {1, 2} /\ Len(answered.srv) = service /\ DOMAIN answered.srv = 1 .. service
        /\ Readable(name) /\ ordered \in Seq(Record)
    BY <2>2, LenProperties DEF TypedInv, Readings
  <2>4. /\ name = Base /\ delegated = Via /\ Open(name)
        /\ \A s \in 1 .. service - 1 : Offering(answered.srv[s]) = {}
        /\ Range(answered.srv[service]) = Range(ordered)
    <3>1. Range(<<>>) = {}
      BY DEF Range
    <3>. QED
      BY <2>2, <3>1 DEF SearchInv
  <2>5. Via' = Via /\ Base' = Base
    BY <2>2 DEF Via, Base
  <2>6. /\ usable \in Seq(Record)
        /\ Range(usable) = Offering(answered.srv[service])
    BY <2>3, <2>4, UsableKeeps DEF Offering
  <2>. HIDE DEF usable
  <2>7. CASE usable # <<>>
    <3>1. service \in Nat /\ service > 0
      BY <2>3
    <3>2. Fits(name, answered.srv, list)
      BY <2>3, <2>4, <2>6, <2>7, <3>1, RecordsFit
    <3>3. step' = "done" /\ candidates' = list
      BY <2>2, <2>7
    <3>. HIDE DEF list
    <3>. QED
      BY <2>2, <2>4, <2>5, <3>2, <3>3 DEF SearchInv
  <2>8. CASE usable = <<>>
    <3>1. Offering(answered.srv[service]) = {}
      BY <2>6, <2>8 DEF Range
    <3>2. \A s \in 1 .. service : Offering(answered.srv[s]) = {}
      BY <2>3, <2>4, <3>1
    <3>3. CASE service < 2
      <4>1. step' = "srv" /\ service' - 1 = service
        BY <2>2, <2>3, <2>8, <3>3
      <4>. QED
        BY <2>2, <2>4, <2>5, <3>2, <4>1 DEF SearchInv
    <3>4. CASE ~ (service < 2)
      <4>1. Fits(name, answered.srv, <<ToPlain(name)>>)
        BY <2>3, <2>4, <3>2, PlainFits
      <4>2. step' = "done" /\ candidates' = <<ToPlain(name)>>
        BY <2>2, <2>8, <3>4
      <4>. QED
        BY <2>2, <2>4, <2>5, <4>1, <4>2 DEF SearchInv
    <3>. QED
      BY <3>3, <3>4
  <2>. QED
    BY <2>7, <2>8
<1>7. CASE UNCHANGED resolutionVars
  BY <1>7 DEF resolutionVars, SearchInv, Via, Base
<1>. QED
  BY <1>1, <1>2, <1>3, <1>4, <1>5, <1>6, <1>7 DEF ResolutionNext

(* Whatever is answered or lost, the endpoints of a search are those of the  *)
(* Matrix specification, under the name that was asked for.                  *)
THEOREM SearchFollowsSpec == ResolutionSpec => []FollowsSpec
<1>1. ResolutionSpec => []SearchInv
  BY TypedAlways, SearchInit, SearchStep, PTL DEF ResolutionSpec
<1>2. SearchInv => FollowsSpec
  BY DEF SearchInv, FollowsSpec, Via, Base, Fits
<1>. QED
  BY <1>1, <1>2, PTL

=============================================================================
