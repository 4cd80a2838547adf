-------------------------- MODULE SuffixListProofs --------------------------
(***************************************************************************)
(* Proofs about SuffixList, for every set of names and every history of    *)
(* published bodies.                                                       *)
(***************************************************************************)
EXTENDS SuffixList, WellFoundedInduction, SequenceTheorems, TLAPS

-----------------------------------------------------------------------------
(* The largest number of a set.                                              *)
LEMMA LongestExists ==
    ASSUME NEW n \in Nat, NEW S \in SUBSET (0 .. n), S # {}
    PROVE  Longest(S) \in S /\ \A j \in S : j <= Longest(S)
<1>. DEFINE T == {n - k : k \in S}
<1>1. T \subseteq Nat /\ T # {}
  <2>1. \A k \in S : n - k \in Nat
    OBVIOUS
  <2>. QED
    BY <2>1
<1>2. PICK t \in T : \A u \in T : t <= u
  <2>. DEFINE less == OpToRel(<, Nat)
  <2>1. IsWellFoundedOn(less, Nat)
    BY NatLessThanWellFounded
  <2>2. \E t \in T : \A u \in T : <<u, t>> \notin less
    <3>. HIDE DEF T, less
    <3>. QED
      BY <1>1, <2>1, WFMin
  <2>3. \A u, t \in Nat : u < t => <<u, t>> \in less
    BY DEF OpToRel
  <2>4. PICK t \in T : \A u \in T : <<u, t>> \notin less
    BY <2>2
  <2>5. ASSUME NEW u \in T PROVE t <= u
    <3>. HIDE DEF T, less
    <3>1. u \in Nat /\ t \in Nat
      BY <1>1
    <3>2. ~ (u < t)
      BY <2>3, <2>4, <3>1
    <3>. QED
      BY <3>1, <3>2
  <2>. QED
    BY <2>5
<1>3. PICK k \in S : t = n - k
  OBVIOUS
<1>4. \A j \in S : j <= k
  <2>. TAKE j \in S
  <2>1. n - j \in T
    OBVIOUS
  <2>2. n - k <= n - j
    BY <1>2, <1>3, <2>1
  <2>. QED
    BY <2>2
<1>. QED
  BY <1>4 DEF Longest

LEMMA LongestIs ==
    ASSUME NEW S \in SUBSET Nat, NEW k \in S, \A j \in S : j <= k
    PROVE  Longest(S) = k
<1>1. Longest(S) \in S /\ \A j \in S : j <= Longest(S)
  BY DEF Longest
<1>2. Longest(S) \in Nat /\ k \in Nat
  BY <1>1
<1>3. Longest(S) <= k /\ k <= Longest(S)
  BY <1>1
<1>. QED
  BY <1>2, <1>3

-----------------------------------------------------------------------------
(* Names and their prefixes.                                                 *)
Host == Seq(STRING) \ {<<>>}

LEMMA PrefixFacts ==
    ASSUME NEW h \in Seq(STRING), NEW k \in 0 .. Len(h)
    PROVE  /\ Prefix(h, k) \in Seq(STRING)
           /\ Len(Prefix(h, k)) = k
           /\ \A i \in 1 .. k : Prefix(h, k)[i] = h[i]
           /\ k = Len(h) => Prefix(h, k) = h
<1>1. \A i \in 1 .. k : h[i] \in STRING
  <2>. TAKE i \in 1 .. k
  <2>1. i \in 1 .. Len(h)
    BY LenProperties
  <2>. QED
    BY <2>1, ElementOfSeq
<1>2. /\ SubSeq(h, 1, k) \in Seq(STRING)
      /\ Len(SubSeq(h, 1, k)) = IF 1 <= k THEN k - 1 + 1 ELSE 0
      /\ \A i \in 1 .. k - 1 + 1 : SubSeq(h, 1, k)[i] = h[1 + i - 1]
  BY <1>1, SubSeqProperties
<1>3. k = Len(h) => SubSeq(h, 1, k) = h
  BY SubSeqFull
<1>. QED
  BY <1>2, <1>3 DEF Prefix

(* A prefix of a prefix.                                                     *)
LEMMA PrefixOfPrefix ==
    ASSUME NEW h \in Seq(STRING), NEW m \in 0 .. Len(h), NEW k \in 0 .. m
    PROVE  Prefix(Prefix(h, m), k) = Prefix(h, k)
<1>1. /\ Prefix(h, m) \in Seq(STRING) /\ Len(Prefix(h, m)) = m
      /\ \A i \in 1 .. m : Prefix(h, m)[i] = h[i]
  BY PrefixFacts
<1>2. k \in 0 .. Len(h) /\ k \in 0 .. Len(Prefix(h, m))
  BY <1>1
<1>3. /\ Prefix(h, k) \in Seq(STRING) /\ Len(Prefix(h, k)) = k
      /\ \A i \in 1 .. k : Prefix(h, k)[i] = h[i]
  BY <1>2, PrefixFacts
<1>4. /\ Prefix(Prefix(h, m), k) \in Seq(STRING) /\ Len(Prefix(Prefix(h, m), k)) = k
      /\ \A i \in 1 .. k : Prefix(Prefix(h, m), k)[i] = Prefix(h, m)[i]
  BY <1>1, <1>2, PrefixFacts
<1>5. \A i \in 1 .. k : Prefix(Prefix(h, m), k)[i] = Prefix(h, k)[i]
  BY <1>1, <1>3, <1>4
<1>. QED
  BY <1>3, <1>4, <1>5, SeqEqual

(* What SuffixLen finds, and the prefix Etld1 makes of it.                   *)
Bucket(l, h) == Etld1(l, h)[1]

LEMMA LenOfHost == ASSUME NEW h \in Host PROVE Len(h) \in Nat \ {0} /\ h \in Seq(STRING)
BY EmptySeq, LenProperties DEF Host

LEMMA SuffixFound ==
    ASSUME NEW l, NEW h \in Host, \A x \in l.exception : Len(x) > 1
    PROVE  /\ Exceptions(l, h) # {} =>
                 /\ SuffixLen(l, h) + 1 \in Exceptions(l, h)
                 /\ SuffixLen(l, h) \in 1 .. Len(h) - 1
                 /\ \A k \in Exceptions(l, h) : k <= SuffixLen(l, h) + 1
           /\ Exceptions(l, h) = {} /\ Matches(l, h) # {} =>
                 /\ SuffixLen(l, h) \in Matches(l, h)
                 /\ SuffixLen(l, h) \in 1 .. Len(h)
                 /\ \A k \in Matches(l, h) : k <= SuffixLen(l, h)
           /\ Exceptions(l, h) = {} /\ Matches(l, h) = {} =>
                 SuffixLen(l, h) = IF h[1] \in l.tlds THEN 1 ELSE 0
<1>1. Len(h) \in Nat \ {0} /\ h \in Seq(STRING)
  BY LenOfHost
<1>2. Exceptions(l, h) \in SUBSET (0 .. Len(h)) /\ Matches(l, h) \in SUBSET (0 .. Len(h))
  BY <1>1 DEF Exceptions, Matches
<1>3. \A k \in Exceptions(l, h) : k \in 2 .. Len(h)
  <2>. SUFFICES ASSUME NEW k \in Exceptions(l, h) PROVE k > 1
    BY <1>1 DEF Exceptions
  <2>1. k \in 1 .. Len(h) /\ Prefix(h, k) \in l.exception
    BY DEF Exceptions
  <2>2. Len(Prefix(h, k)) = k
    BY <1>1, <2>1, PrefixFacts
  <2>. QED
    BY <2>1, <2>2
<1>4. CASE Exceptions(l, h) # {}
  <2>1. /\ Longest(Exceptions(l, h)) \in Exceptions(l, h)
        /\ \A j \in Exceptions(l, h) : j <= Longest(Exceptions(l, h))
    BY <1>1, <1>2, <1>4, LongestExists
  <2>2. SuffixLen(l, h) = Longest(Exceptions(l, h)) - 1
    BY <1>4 DEF SuffixLen
  <2>3. Longest(Exceptions(l, h)) \in 2 .. Len(h)
    BY <1>3, <2>1
  <2>. QED
    BY <1>1, <1>4, <2>1, <2>2, <2>3
<1>5. CASE Exceptions(l, h) = {} /\ Matches(l, h) # {}
  <2>1. /\ Longest(Matches(l, h)) \in Matches(l, h)
        /\ \A j \in Matches(l, h) : j <= Longest(Matches(l, h))
    BY <1>1, <1>2, <1>5, LongestExists
  <2>2. SuffixLen(l, h) = Longest(Matches(l, h))
    BY <1>5 DEF SuffixLen
  <2>3. \A k \in Matches(l, h) : k \in 1 .. Len(h)
    BY DEF Matches
  <2>. QED
    BY <1>5, <2>1, <2>2, <2>3
<1>6. CASE Exceptions(l, h) = {} /\ Matches(l, h) = {}
  BY <1>6 DEF SuffixLen
<1>. QED
  BY <1>4, <1>5, <1>6

(* Of a name under a known top-level domain, the bucket is a prefix, one     *)
(* label longer than the suffix if there is one more.                        *)
LEMMA BucketIsPrefix ==
    ASSUME NEW l, NEW h \in Host, \A x \in l.exception : Len(x) > 1, h[1] \in l.tlds
    PROVE  /\ SuffixLen(l, h) \in 1 .. Len(h)
           /\ Len(Bucket(l, h)) = IF SuffixLen(l, h) = Len(h) THEN Len(h)
                                  ELSE SuffixLen(l, h) + 1
           /\ Len(Bucket(l, h)) \in 1 .. Len(h)
           /\ Bucket(l, h) = Prefix(h, Len(Bucket(l, h)))
<1>1. Len(h) \in Nat \ {0} /\ h \in Seq(STRING)
  BY LenOfHost
<1>2. SuffixLen(l, h) \in 1 .. Len(h)
  <2>1. CASE Exceptions(l, h) # {}
    BY <1>1, <2>1, SuffixFound
  <2>2. CASE Exceptions(l, h) = {} /\ Matches(l, h) # {}
    BY <2>2, SuffixFound
  <2>3. CASE Exceptions(l, h) = {} /\ Matches(l, h) = {}
    <3>1. SuffixLen(l, h) = 1
      BY <2>3, SuffixFound
    <3>. QED
      BY <1>1, <3>1
  <2>. QED
    BY <2>1, <2>2, <2>3
<1>. DEFINE n == SuffixLen(l, h)
<1>3. CASE n = Len(h)
  <2>1. Bucket(l, h) = h
    BY <1>1, <1>3 DEF Bucket, Etld1
  <2>2. Prefix(h, Len(h)) = h
    BY <1>1, PrefixFacts
  <2>. QED
    BY <1>1, <1>2, <1>3, <2>1, <2>2
<1>4. CASE n # Len(h)
  <2>1. Bucket(l, h) = Prefix(h, n + 1)
    BY <1>2, <1>4 DEF Bucket, Etld1
  <2>2. n + 1 \in 1 .. Len(h) /\ n + 1 \in 0 .. Len(h)
    BY <1>1, <1>2, <1>4
  <2>3. Len(Prefix(h, n + 1)) = n + 1
    BY <1>1, <2>2, PrefixFacts
  <2>. QED
    BY <1>2, <1>4, <2>1, <2>2, <2>3
<1>. QED
  BY <1>3, <1>4

-----------------------------------------------------------------------------
(* Additions only split.  Two names in one bucket of the newer list agree on *)
(* all labels of the bucket, and the suffix the older list finds is no       *)
(* longer: it is found in both names alike.                                  *)
LEMMA SharedPrefix ==
    ASSUME NEW g \in Host, NEW h \in Host, NEW b,
           Len(b) \in 1 .. Len(g), b = Prefix(g, Len(b)),
           Len(b) \in 1 .. Len(h), b = Prefix(h, Len(b)),
           NEW k \in 0 .. Len(b)
    PROVE  Prefix(g, k) = Prefix(h, k)
<1>1. /\ Len(g) \in Nat \ {0} /\ g \in Seq(STRING)
      /\ Len(h) \in Nat \ {0} /\ h \in Seq(STRING)
  BY LenOfHost
<1>2. Len(b) \in 0 .. Len(g) /\ Len(b) \in 0 .. Len(h)
  BY <1>1
<1>3. Prefix(Prefix(g, Len(b)), k) = Prefix(g, k)
  BY <1>1, <1>2, PrefixOfPrefix
<1>4. Prefix(Prefix(h, Len(b)), k) = Prefix(h, k)
  BY <1>1, <1>2, PrefixOfPrefix
<1>. QED
  BY <1>3, <1>4

(* Where an exception of a list decides, every list with the same exceptions *)
(* has the same bucket.                                                      *)
LEMMA ExceptionDecides ==
    ASSUME NEW l, NEW g \in Host, NEW h \in Host, g[1] \in l.tlds, h[1] \in l.tlds,
           \A x \in l.exception : Len(x) > 1,
           Bucket(l, g) = Bucket(l, h), Exceptions(l, g) # {}
    PROVE  Exceptions(l, h) # {} /\ SuffixLen(l, h) = SuffixLen(l, g)
<1>. DEFINE b == Bucket(l, g)
<1>1. /\ Len(g) \in Nat \ {0} /\ g \in Seq(STRING)
      /\ Len(h) \in Nat \ {0} /\ h \in Seq(STRING)
  BY LenOfHost
<1>2. /\ SuffixLen(l, g) + 1 \in Exceptions(l, g)
      /\ SuffixLen(l, g) \in 1 .. Len(g) - 1
  BY SuffixFound
<1>3. /\ Len(b) = SuffixLen(l, g) + 1
      /\ Len(b) \in 1 .. Len(g) /\ b = Prefix(g, Len(b))
  <2>1. SuffixLen(l, g) # Len(g)
    BY <1>1, <1>2
  <2>. QED
    BY <2>1, BucketIsPrefix
<1>4. /\ Len(b) \in 1 .. Len(h) /\ b = Prefix(h, Len(b))
      /\ Len(b) = IF SuffixLen(l, h) = Len(h) THEN Len(h) ELSE SuffixLen(l, h) + 1
      /\ SuffixLen(l, h) \in 1 .. Len(h)
  BY BucketIsPrefix
<1>5. Prefix(h, Len(b)) \in l.exception
  <2>1. Prefix(g, Len(b)) \in l.exception
    BY <1>2, <1>3 DEF Exceptions
  <2>. QED
    BY <1>3, <1>4, <2>1
<1>6. Len(b) \in Exceptions(l, h)
  BY <1>4, <1>5 DEF Exceptions
<1>7. SuffixLen(l, h) \in 1 .. Len(h) - 1
  BY <1>6, SuffixFound
<1>. QED
  BY <1>1, <1>2, <1>3, <1>4, <1>6, <1>7

LEMMA AdditionsSplit ==
    ASSUME NEW older, NEW newer, AddsTo(newer, older),
           \A x \in older.exception : Len(x) > 1,
           NEW g \in Host, NEW h \in Host, g[1] \in older.tlds, h[1] \in older.tlds,
           Bucket(newer, g) = Bucket(newer, h)
    PROVE  Bucket(older, g) = Bucket(older, h)
<1>. DEFINE b == Bucket(newer, g)
<1>1. /\ Len(g) \in Nat \ {0} /\ g \in Seq(STRING)
      /\ Len(h) \in Nat \ {0} /\ h \in Seq(STRING)
  BY LenOfHost
<1>2. /\ \A x \in newer.exception : Len(x) > 1
      /\ g[1] \in newer.tlds /\ h[1] \in newer.tlds
      /\ \A x : Exceptions(newer, x) = Exceptions(older, x)
      /\ \A x : Matches(older, x) \subseteq Matches(newer, x)
  BY DEF AddsTo, Exceptions, Matches
<1>3. /\ Len(b) \in 1 .. Len(g) /\ b = Prefix(g, Len(b))
      /\ Len(b) = IF SuffixLen(newer, g) = Len(g) THEN Len(g) ELSE SuffixLen(newer, g) + 1
      /\ SuffixLen(newer, g) \in 1 .. Len(g)
  BY <1>2, BucketIsPrefix
<1>4. /\ Len(b) \in 1 .. Len(h) /\ b = Prefix(h, Len(b))
      /\ Len(b) = IF SuffixLen(newer, h) = Len(h) THEN Len(h) ELSE SuffixLen(newer, h) + 1
      /\ SuffixLen(newer, h) \in 1 .. Len(h)
  BY <1>2, BucketIsPrefix
<1>5. \A k \in 0 .. Len(b) : Prefix(g, k) = Prefix(h, k)
  BY <1>3, <1>4, SharedPrefix
<1>6. /\ SuffixLen(older, g) \in 1 .. Len(g) /\ SuffixLen(older, h) \in 1 .. Len(h)
      /\ Bucket(older, g) = Prefix(g, Len(Bucket(older, g)))
      /\ Bucket(older, h) = Prefix(h, Len(Bucket(older, h)))
      /\ Len(Bucket(older, g)) = IF SuffixLen(older, g) = Len(g) THEN Len(g)
                                 ELSE SuffixLen(older, g) + 1
      /\ Len(Bucket(older, h)) = IF SuffixLen(older, h) = Len(h) THEN Len(h)
                                 ELSE SuffixLen(older, h) + 1
  BY BucketIsPrefix
(* It is enough that the suffixes are of one length, and within the bucket.  *)
<1>7. SUFFICES /\ SuffixLen(older, g) = SuffixLen(older, h)
               /\ SuffixLen(older, g) <= SuffixLen(newer, g)
               /\ SuffixLen(older, h) <= SuffixLen(newer, h)
  <2>1. Len(Bucket(older, g)) = Len(Bucket(older, h))
    BY <1>1, <1>3, <1>4, <1>6, <1>7
  <2>2. Len(Bucket(older, g)) \in 0 .. Len(b)
    BY <1>1, <1>3, <1>4, <1>6, <1>7
  <2>. QED
    BY <1>5, <1>6, <2>1, <2>2
<1>8. CASE Exceptions(newer, g) # {} \/ Exceptions(newer, h) # {}
  <2>1. /\ Exceptions(newer, g) # {} /\ Exceptions(newer, h) # {}
        /\ SuffixLen(newer, g) = SuffixLen(newer, h)
    BY <1>2, <1>8, ExceptionDecides
  <2>2. /\ SuffixLen(older, g) = SuffixLen(newer, g)
        /\ SuffixLen(older, h) = SuffixLen(newer, h)
    BY <1>2, <2>1 DEF SuffixLen
  <2>. QED
    BY <1>3, <1>4, <2>1, <2>2
<1>9. CASE Exceptions(newer, g) = {} /\ Exceptions(newer, h) = {}
  <2>1. Exceptions(older, g) = {} /\ Exceptions(older, h) = {}
    BY <1>2, <1>9
  <2>2. \A k \in Matches(newer, g) : k <= SuffixLen(newer, g)
    BY <1>2, <1>9, SuffixFound
  <2>3. \A k \in Matches(newer, h) : k <= SuffixLen(newer, h)
    BY <1>2, <1>9, SuffixFound
  <2>4. Matches(older, g) \subseteq 1 .. Len(b) /\ Matches(older, h) \subseteq 1 .. Len(b)
    <3>1. \A k \in Matches(older, g) : k \in 1 .. Len(g) /\ k <= SuffixLen(newer, g)
      BY <1>2, <2>2 DEF Matches
    <3>2. \A k \in Matches(older, h) : k \in 1 .. Len(h) /\ k <= SuffixLen(newer, h)
      BY <1>2, <2>3 DEF Matches
    <3>. QED
      BY <1>1, <1>3, <1>4, <3>1, <3>2
  <2>5. Matches(older, g) = Matches(older, h)
    <3>1. \A k \in 1 .. Len(b) : k \in 0 .. Len(b) /\ k - 1 \in 0 .. Len(b)
      BY <1>1, <1>3
    <3>2. \A k \in 1 .. Len(b) : k \in 1 .. Len(g) /\ k \in 1 .. Len(h)
      BY <1>1, <1>3, <1>4
    <3>3. \A k \in 1 .. Len(b) : /\ Prefix(g, k) = Prefix(h, k)
                                 /\ Prefix(g, k - 1) = Prefix(h, k - 1)
      BY <1>5, <3>1
    <3>4. \A k \in 1 .. Len(b) : k \in Matches(older, g) <=> k \in Matches(older, h)
      BY <3>2, <3>3 DEF Matches
    <3>. QED
      BY <2>4, <3>4
  <2>6. SuffixLen(older, g) = SuffixLen(older, h)
    BY <2>1, <2>5 DEF SuffixLen
  <2>7. CASE Matches(older, g) # {}
    <3>1. /\ SuffixLen(older, g) \in Matches(older, g)
          /\ SuffixLen(older, h) \in Matches(older, h)
      BY <2>1, <2>5, <2>7, SuffixFound
    <3>. QED
      BY <1>2, <2>2, <2>3, <2>6, <3>1
  <2>8. CASE Matches(older, g) = {}
    <3>1. SuffixLen(older, g) = 1
      BY <2>1, <2>8 DEF SuffixLen
    <3>. QED
      BY <1>1, <1>3, <1>4, <2>6, <3>1
  <2>. QED
    BY <2>7, <2>8
<1>. QED
  BY <1>8, <1>9

-----------------------------------------------------------------------------
(* The lookup is the standard's.                                             *)
GoodRules(rules) ==
    rules \subseteq Rule /\ \A r \in rules : r.kind = "exception" => Len(r.labels) > 1

LEMMA RuleFacts ==
    ASSUME NEW rules, GoodRules(rules), NEW r \in rules, NEW h \in Host
    PROVE  /\ r.kind \in Kind
           /\ r.labels \in Host
           /\ Len(r.labels) \in Nat \ {0}
           /\ Labels(r) = IF r.kind = "wildcard" THEN Len(r.labels) + 1 ELSE Len(r.labels)
<1>1. r \in Rule
  BY DEF GoodRules
<1>2. r.kind \in Kind /\ r.labels \in Host
  BY <1>1 DEF Rule, Host
<1>. QED
  BY <1>2, LenOfHost DEF Labels

Applying(rules, h) == {r \in rules : Applies(r, h)}

LEMMA ExceptionsAreApplying ==
    ASSUME NEW body, GoodRules(RulesOf(body)), NEW h \in Host
    PROVE  Exceptions(Load(body), h) =
               {Labels(r) : r \in {x \in Applying(RulesOf(body), h) : x.kind = "exception"}}
<1>. DEFINE rules == RulesOf(body)
            found == {x \in Applying(rules, h) : x.kind = "exception"}
<1>1. Len(h) \in Nat \ {0} /\ h \in Seq(STRING)
  BY LenOfHost
<1>2. Load(body).exception = {r.labels : r \in {x \in rules : x.kind = "exception"}}
  BY DEF Load
<1>3. ASSUME NEW k \in Exceptions(Load(body), h) PROVE \E r \in found : k = Labels(r)
  <2>1. k \in 1 .. Len(h) /\ Prefix(h, k) \in Load(body).exception
    BY <1>3 DEF Exceptions
  <2>2. PICK r \in rules : r.kind = "exception" /\ Prefix(h, k) = r.labels
    BY <1>2, <2>1
  <2>3. Len(r.labels) = k
    BY <1>1, <2>1, <2>2, PrefixFacts
  <2>4. Labels(r) = k
    BY <2>2, <2>3 DEF Labels
  <2>5. Applies(r, h)
    BY <1>1, <2>1, <2>2, <2>3, <2>4 DEF Applies
  <2>. QED
    BY <2>2, <2>4, <2>5 DEF Applying
<1>4. ASSUME NEW r \in found PROVE Labels(r) \in Exceptions(Load(body), h)
  <2>1. r \in rules /\ Applies(r, h) /\ r.kind = "exception"
    BY DEF Applying
  <2>2. Labels(r) = Len(r.labels) /\ Len(r.labels) \in Nat \ {0}
    BY <2>1, RuleFacts
  <2>3. Len(r.labels) \in 1 .. Len(h) /\ Prefix(h, Len(r.labels)) = r.labels
    BY <1>1, <2>1, <2>2 DEF Applies
  <2>4. r.labels \in Load(body).exception
    BY <1>2, <2>1
  <2>. QED
    BY <2>2, <2>3, <2>4 DEF Exceptions
<1>. QED
  BY <1>3, <1>4

LEMMA MatchesAreApplying ==
    ASSUME NEW body, GoodRules(RulesOf(body)), NEW h \in Host
    PROVE  Matches(Load(body), h) =
               {Labels(r) : r \in {x \in Applying(RulesOf(body), h) : x.kind # "exception"}}
<1>. DEFINE rules == RulesOf(body)
            found == {x \in Applying(rules, h) : x.kind # "exception"}
<1>1. Len(h) \in Nat \ {0} /\ h \in Seq(STRING)
  BY LenOfHost
<1>2. /\ Load(body).normal = {r.labels : r \in {x \in rules : x.kind = "normal"}}
      /\ Load(body).wildcard = {r.labels : r \in {x \in rules : x.kind = "wildcard"}}
  BY DEF Load
<1>3. ASSUME NEW k \in Matches(Load(body), h) PROVE \E r \in found : k = Labels(r)
  <2>1. k \in 1 .. Len(h)
    BY <1>3 DEF Matches
  <2>2. CASE Prefix(h, k) \in Load(body).normal
    <3>1. PICK r \in rules : r.kind = "normal" /\ Prefix(h, k) = r.labels
      BY <1>2, <2>2
    <3>2. Len(r.labels) = k
      BY <1>1, <2>1, <3>1, PrefixFacts
    <3>3. Labels(r) = k
      BY <3>1, <3>2 DEF Labels
    <3>4. Applies(r, h)
      BY <1>1, <2>1, <3>1, <3>2, <3>3 DEF Applies
    <3>. QED
      BY <3>1, <3>3, <3>4 DEF Applying
  <2>3. CASE k > 1 /\ Prefix(h, k - 1) \in Load(body).wildcard
    <3>1. PICK r \in rules : r.kind = "wildcard" /\ Prefix(h, k - 1) = r.labels
      BY <1>2, <2>3
    <3>2. k - 1 \in 0 .. Len(h)
      BY <1>1, <2>1
    <3>3. Len(r.labels) = k - 1
      BY <1>1, <3>1, <3>2, PrefixFacts
    <3>4. Labels(r) = k
      BY <2>1, <3>1, <3>3 DEF Labels
    <3>5. Applies(r, h)
      BY <1>1, <2>1, <3>1, <3>3, <3>4 DEF Applies
    <3>. QED
      BY <3>1, <3>4, <3>5 DEF Applying
  <2>. QED
    BY <1>3, <2>2, <2>3 DEF Matches
<1>4. ASSUME NEW r \in found PROVE Labels(r) \in Matches(Load(body), h)
  <2>1. r \in rules /\ Applies(r, h) /\ r.kind # "exception"
    BY DEF Applying
  <2>2. r.kind \in {"normal", "wildcard"} /\ Len(r.labels) \in Nat \ {0}
    BY <2>1, RuleFacts DEF Kind
  <2>3. Labels(r) <= Len(h) /\ Prefix(h, Len(r.labels)) = r.labels
    BY <2>1 DEF Applies
  <2>4. CASE r.kind = "normal"
    <3>1. Labels(r) = Len(r.labels) /\ r.labels \in Load(body).normal
      BY <1>2, <2>1, <2>4 DEF Labels
    <3>. QED
      BY <1>1, <2>2, <2>3, <3>1 DEF Matches
  <2>5. CASE r.kind = "wildcard"
    <3>1. Labels(r) = Len(r.labels) + 1 /\ r.labels \in Load(body).wildcard
      BY <1>2, <2>1, <2>5 DEF Labels
    <3>2. Labels(r) \in 1 .. Len(h) /\ Labels(r) > 1 /\ Labels(r) - 1 = Len(r.labels)
      BY <1>1, <2>2, <2>3, <3>1
    <3>. QED
      BY <2>3, <3>1, <3>2 DEF Matches
  <2>. QED
    BY <2>2, <2>4, <2>5
<1>. QED
  BY <1>3, <1>4

(* A rule that applies to a name shares its top-level domain.                *)
LEMMA ApplyingIsKnown ==
    ASSUME NEW rules, GoodRules(rules), NEW h \in Host, NEW r \in rules, Applies(r, h)
    PROVE  r.labels[1] = h[1]
<1>1. Len(h) \in Nat \ {0} /\ h \in Seq(STRING)
  BY LenOfHost
<1>2. Len(r.labels) \in Nat \ {0} /\ Len(r.labels) <= Labels(r)
  BY RuleFacts
<1>3. Labels(r) \in Nat
  BY RuleFacts
<1>4. Len(r.labels) \in 0 .. Len(h) /\ 1 \in 1 .. Len(r.labels)
  BY <1>1, <1>2, <1>3 DEF Applies
<1>5. Prefix(h, Len(r.labels))[1] = h[1]
  BY <1>1, <1>4, PrefixFacts
<1>. QED
  BY <1>5 DEF Applies

LEMMA LookupIsStandard ==
    ASSUME NEW body, GoodRules(RulesOf(body)), NEW h \in Host
    PROVE  Etld1(Load(body), h) =
               IF \E r \in RulesOf(body) : r.labels[1] = h[1]
               THEN <<StandardBucket(RulesOf(body), h), TRUE>> ELSE <<h, FALSE>>
<1>. DEFINE rules == RulesOf(body)
            l     == Load(body)
            E     == Exceptions(l, h)
            M     == Matches(l, h)
            known == \E r \in rules : r.labels[1] = h[1]
<1>1. Len(h) \in Nat \ {0} /\ h \in Seq(STRING)
  BY LenOfHost
<1>2. h[1] \in l.tlds <=> known
  <2>1. l.tlds = {r.labels[1] : r \in rules}
    BY DEF Load
  <2>. HIDE DEF l, rules
  <2>. QED
    BY <2>1
<1>3. \A x \in l.exception : Len(x) > 1
  BY DEF Load, GoodRules
<1>4. /\ E = {Labels(r) : r \in {x \in Applying(rules, h) : x.kind = "exception"}}
      /\ M = {Labels(r) : r \in {x \in Applying(rules, h) : x.kind # "exception"}}
  BY ExceptionsAreApplying, MatchesAreApplying
<1>5. E # {} \/ M # {} => known
  <2>1. \A r \in Applying(rules, h) : r \in rules /\ Applies(r, h)
    BY DEF Applying
  <2>. QED
    BY <1>4, <2>1, ApplyingIsKnown
<1>6. CASE ~known
  <2>1. SuffixLen(l, h) = 0
    BY <1>2, <1>5, <1>6 DEF SuffixLen
  <2>. QED
    BY <1>6, <2>1 DEF Etld1
<1>7. CASE known
  <2>1. SuffixLen(l, h) = StandardSuffix(rules, h)
    <3>. DEFINE excepting == {x \in Applying(rules, h) : x.kind = "exception"}
    <3>1. StandardSuffix(rules, h) =
              IF excepting # {} THEN Longest({Labels(r) : r \in excepting} \cup {1}) - 1
              ELSE Longest({Labels(r) : r \in Applying(rules, h)} \cup {1})
      BY DEF StandardSuffix, Applying
    <3>2. E \in SUBSET Nat /\ M \in SUBSET Nat /\ \A k \in M : k >= 1
      BY DEF Exceptions, Matches
    <3>3. CASE E # {}
      <4>1. /\ SuffixLen(l, h) + 1 \in E
            /\ SuffixLen(l, h) \in 1 .. Len(h) - 1
            /\ \A k \in E : k <= SuffixLen(l, h) + 1
        BY <1>3, <3>3, SuffixFound
      <4>2. Longest(E \cup {1}) = SuffixLen(l, h) + 1
        <5>. DEFINE S == E \cup {1}
        <5>1. S \in SUBSET Nat /\ SuffixLen(l, h) + 1 \in S
          BY <3>2, <4>1
        <5>2. \A k \in S : k <= SuffixLen(l, h) + 1
          BY <4>1
        <5>. HIDE DEF S
        <5>3. Longest(S) = SuffixLen(l, h) + 1
          BY <5>1, <5>2, LongestIs
        <5>. QED
          BY <5>3 DEF S
      <4>3. excepting # {} /\ {Labels(r) : r \in excepting} = E
        BY <1>4, <3>3
      <4>4. StandardSuffix(rules, h) = Longest(E \cup {1}) - 1
        <5>. HIDE DEF E, excepting, rules
        <5>. QED
          BY <3>1, <4>3
      <4>. HIDE DEF E, rules, l
      <4>. QED
        BY <1>1, <4>1, <4>2, <4>4
    <3>4. CASE E = {}
      <4>1. excepting = {} /\ {Labels(r) : r \in Applying(rules, h)} = M
        BY <1>4, <3>4
      <4>2. CASE M # {}
        <5>1. SuffixLen(l, h) \in M /\ \A k \in M : k <= SuffixLen(l, h)
          BY <1>3, <3>4, <4>2, SuffixFound
        <5>. DEFINE S == M \cup {1}
        <5>2. S \in SUBSET Nat /\ SuffixLen(l, h) \in S
          BY <3>2, <5>1
        <5>3. \A k \in S : k <= SuffixLen(l, h)
          BY <3>2, <5>1
        <5>. HIDE DEF S
        <5>4. Longest(S) = SuffixLen(l, h)
          BY <5>2, <5>3, LongestIs
        <5>. QED
          BY <3>1, <4>1, <5>4 DEF S
      <4>3. CASE M = {}
        <5>1. SuffixLen(l, h) = 1
          BY <1>2, <1>7, <3>4, <4>3 DEF SuffixLen
        <5>2. {Labels(r) : r \in Applying(rules, h)} \cup {1} = {1}
          BY <4>1, <4>3
        <5>3. Longest({1}) = 1
          BY LongestIs
        <5>. QED
          BY <3>1, <4>1, <5>1, <5>2, <5>3
      <4>. QED
        BY <4>2, <4>3
    <3>. QED
      BY <3>3, <3>4
  <2>2. SuffixLen(l, h) \in 1 .. Len(h)
    BY <1>2, <1>3, <1>7, BucketIsPrefix
  <2>3. CASE SuffixLen(l, h) = Len(h)
    <3>1. Etld1(l, h) = <<h, TRUE>>
      BY <1>1, <2>3 DEF Etld1
    <3>2. StandardBucket(rules, h) = h
      BY <1>1, <2>1, <2>3 DEF StandardBucket
    <3>. QED
      BY <1>7, <3>1, <3>2
  <2>4. CASE SuffixLen(l, h) < Len(h)
    <3>1. Etld1(l, h) = <<Prefix(h, SuffixLen(l, h) + 1), TRUE>>
      <4>. HIDE DEF l
      <4>1. SuffixLen(l, h) # 0 /\ SuffixLen(l, h) # Len(h)
        BY <1>1, <2>2, <2>4
      <4>. QED
        BY <4>1 DEF Etld1
    <3>2. StandardBucket(rules, h) = Prefix(h, SuffixLen(l, h) + 1)
      BY <2>1, <2>4 DEF StandardBucket
    <3>. QED
      BY <1>7, <3>1, <3>2
  <2>5. SuffixLen(l, h) = Len(h) \/ SuffixLen(l, h) < Len(h)
    <3>. HIDE DEF l
    <3>. QED
      BY <1>1, <2>2
  <2>. QED
    BY <2>3, <2>4, <2>5
<1>. QED
  BY <1>6, <1>7

-----------------------------------------------------------------------------
(* Whatever is fetched or shipped is made of rules that were published.      *)
GoodBody(body) ==
    GoodRules(RulesOf(body)) /\ body.version \in 0 .. Len(Published)

LEMMA PublishedIsGood ==
    ASSUME NEW v \in DOMAIN Published
    PROVE  /\ Published[v] \in Body
           /\ v \in 1 .. Len(Published)
           /\ Published[v].version = v
           /\ GoodRules(RulesOf(Published[v]))
<1>. DEFINE body == Published[v]
<1>1. body \in Body /\ v \in 1 .. Len(Published)
  BY PublishedAssumption, LenProperties, ElementOfSeq
<1>2. body.icann \in Seq(Rule) /\ body.private \in Seq(Rule)
  BY <1>1 DEF Body
<1>3. \A s \in Seq(Rule) : Rules(s) \subseteq Rule
  BY ElementOfSeq, LenProperties DEF Rules
<1>4. RulesOf(body) \subseteq Rule
  BY <1>2, <1>3 DEF RulesOf
<1>. QED
  BY <1>1, <1>4, PublishedAssumption DEF GoodRules

LEMMA CutsKeepRules ==
    ASSUME NEW section \in Seq(Rule), NEW cut \in Cuts(section)
    PROVE  Rules(cut) \subseteq Rules(section)
<1>1. PICK n \in 0 .. Len(section) : cut = SubSeq(section, 1, n)
  BY DEF Cuts
<1>2. Len(section) \in Nat /\ DOMAIN section = 1 .. Len(section)
  BY LenProperties
<1>3. \A i \in 1 .. n : section[i] \in Rule
  BY <1>2, ElementOfSeq
<1>4. /\ cut \in Seq(Rule)
      /\ Len(cut) = IF 1 <= n THEN n - 1 + 1 ELSE 0
      /\ \A i \in 1 .. n - 1 + 1 : cut[i] = section[1 + i - 1]
  BY <1>1, <1>3, SubSeqProperties
<1>5. Len(cut) = n /\ \A i \in 1 .. n : cut[i] = section[i]
  BY <1>4
<1>6. DOMAIN cut = 1 .. n
  BY <1>4, <1>5, LenProperties
<1>. QED
  BY <1>2, <1>5, <1>6 DEF Rules

LEMMA OfferedIsGood ==
    ASSUME NEW v \in DOMAIN Published, NEW body \in Offered(Published[v])
    PROVE  GoodBody(body)
<1>. DEFINE whole == Published[v]
<1>1. /\ whole \in Body /\ v \in 1 .. Len(Published) /\ whole.version = v
      /\ GoodRules(RulesOf(whole))
  BY PublishedIsGood
<1>2. whole.icann \in Seq(Rule) /\ whole.private \in Seq(Rule)
  BY <1>1 DEF Body
<1>3. Rules(<<>>) = {}
  BY DEF Rules
<1>4. /\ \A cut \in Cuts(whole.icann) : Rules(cut) \subseteq Rules(whole.icann)
      /\ \A cut \in Cuts(whole.private) : Rules(cut) \subseteq Rules(whole.private)
  BY <1>2, CutsKeepRules
<1>5. /\ RulesOf(body) \subseteq RulesOf(whole)
      /\ body.version \in {0, v}
  <2>. HIDE DEF whole
  <2>1. CASE body \in {whole, [whole EXCEPT !.version = 0]}
    BY <1>1, <2>1 DEF Body, RulesOf
  <2>2. CASE body \in Truncated(whole)
    <3>1. CASE \E cut \in Cuts(whole.icann) :
                   body = [whole EXCEPT !.icann = cut, !.private = <<>>, !.markers = {"icann"}]
      <4>1. PICK cut \in Cuts(whole.icann) :
                   body = [whole EXCEPT !.icann = cut, !.private = <<>>, !.markers = {"icann"}]
        BY <3>1
      <4>2. body.version = v /\ body.icann = cut /\ body.private = <<>>
        BY <1>1, <4>1 DEF Body
      <4>. QED
        BY <1>3, <1>4, <4>2 DEF RulesOf
    <3>2. CASE \E cut \in Cuts(whole.private) : body = [whole EXCEPT !.private = cut]
      <4>1. PICK cut \in Cuts(whole.private) : body = [whole EXCEPT !.private = cut]
        BY <3>2
      <4>2. body.version = v /\ body.icann = whole.icann /\ body.private = cut
        BY <1>1, <4>1 DEF Body
      <4>. QED
        BY <1>4, <4>2 DEF RulesOf
    <3>. QED
      BY <2>2, <3>1, <3>2 DEF Truncated
  <2>3. CASE body \in Filtered(whole)
    <3>1. CASE body = [whole EXCEPT !.icann = <<>>]
      <4>1. body.version = v /\ body.icann = <<>> /\ body.private = whole.private
        BY <1>1, <3>1 DEF Body
      <4>. QED
        BY <1>3, <4>1 DEF RulesOf
    <3>2. CASE body = [whole EXCEPT !.private = <<>>]
      <4>1. body.version = v /\ body.icann = whole.icann /\ body.private = <<>>
        BY <1>1, <3>2 DEF Body
      <4>. QED
        BY <1>3, <4>1 DEF RulesOf
    <3>. QED
      BY <2>3, <3>1, <3>2 DEF Filtered
  <2>. QED
    BY <2>1, <2>2, <2>3 DEF Offered, whole
<1>6. body.version \in 0 .. Len(Published)
  BY <1>1, <1>5
<1>. QED
  BY <1>1, <1>5, <1>6 DEF GoodBody, GoodRules

LEMMA BodiesAreGood ==
    /\ Vendored \cup Bodies \cup {NoBody} = {NoBody} \cup Bodies
    /\ \A body \in {NoBody} \cup Bodies : GoodBody(body)
<1>1. Vendored \subseteq {NoBody} \cup Bodies
  BY DEF Vendored, Bodies, Offered
<1>2. GoodBody(NoBody)
  <2>1. RulesOf(NoBody) = {} /\ NoBody.version = 0
    BY DEF NoBody, RulesOf, Rules
  <2>2. Len(Published) \in Nat
    BY PublishedAssumption, LenProperties
  <2>. QED
    BY <2>1, <2>2 DEF GoodBody, GoodRules
<1>3. \A body \in Bodies : GoodBody(body)
  BY OfferedIsGood DEF Bodies
<1>. QED
  BY <1>1, <1>2, <1>3

-----------------------------------------------------------------------------
(* THEOREM: every variable of the list keeps its range; in particular the    *)
(* list in use and the row are always a published body, whole or in part.    *)
THEOREM ListTyped == ListSpec => []ListTypeOK
<1>. DEFINE Any == {NoBody} \cup Bodies
<1>1. /\ Vendored \cup Bodies = Any /\ Vendored \subseteq Any
      /\ \A body \in Any : body.version \in 0 .. Len(Published)
  BY BodiesAreGood DEF GoodBody, Vendored
<1>2. Len(Published) \in Nat
  BY PublishedAssumption, LenProperties
<1>3. ListInit => ListTypeOK
  <2>1. NoBody \in Vendored \cup Bodies /\ NoBody \in {NoBody} \cup Bodies
    BY DEF Vendored
  <2>2. 0 \in 0 .. Len(Published)
    BY <1>2
  <2>. QED
    BY <2>1, <2>2 DEF ListInit, ListTypeOK
<1>4. ListTypeOK /\ [ListNext]_listVars => ListTypeOK'
  <2>. SUFFICES ASSUME ListTypeOK, [ListNext]_listVars PROVE ListTypeOK'
    OBVIOUS
  <2>0. /\ active \in Any /\ cached \in Any
        /\ listPhase \in {"down", "up", "saving"} /\ saved \in 0 .. Len(Published)
        /\ lost \in BOOLEAN
    BY <1>1 DEF ListTypeOK
  <2>. HIDE DEF Any
  <2>1. ASSUME NEW vendored \in Vendored, NEW readable \in BOOLEAN,
               StartProcess(vendored, readable)
        PROVE  ListTypeOK'
    <3>1. vendored \in Any /\ NoBody \in Any
      BY <1>1 DEF Any
    <3>2. active' \in Any
      BY <2>0, <2>1, <3>1 DEF StartProcess
    <3>3. lost' \in BOOLEAN
      BY <2>1 DEF StartProcess
    <3>4. listPhase' = "up" /\ cached' = cached /\ saved' = saved
      BY <2>1 DEF StartProcess
    <3>. QED
      BY <1>1, <2>0, <3>2, <3>3, <3>4 DEF ListTypeOK, Any
  <2>2. ASSUME NEW body \in Bodies, Refresh(body) PROVE ListTypeOK'
    BY <1>1, <2>0, <2>2 DEF Refresh, ListTypeOK, Any
  <2>3. ASSUME NEW written \in BOOLEAN, PutCached(written) PROVE ListTypeOK'
    <3>1. cached' \in Any
      BY <2>0, <2>3 DEF PutCached
    <3>2. saved' \in 0 .. Len(Published)
      BY <1>1, <2>0, <2>3 DEF PutCached
    <3>3. listPhase' = "up" /\ active' = active /\ lost' = lost
      BY <2>3 DEF PutCached
    <3>. QED
      BY <1>1, <2>0, <3>1, <3>2, <3>3 DEF ListTypeOK, Any
  <2>4. CASE EndProcess
    BY <1>1, <2>0, <2>4 DEF EndProcess, ListTypeOK, Any
  <2>5. ASSUME NEW body \in Bodies, DamageRow(body) PROVE ListTypeOK'
    BY <1>1, <2>0, <2>5 DEF DamageRow, ListTypeOK, Any
  <2>6. CASE UNCHANGED listVars
    BY <1>1, <2>0, <2>6 DEF listVars, ListTypeOK, Any
  <2>. QED
    BY <2>1, <2>2, <2>3, <2>4, <2>5, <2>6 DEF ListNext
<1>. QED
  BY <1>3, <1>4, PTL DEF ListSpec

(* THEOREM: names are counted as the standard says: whatever the published   *)
(* lists and whatever the names, the lookup through three sets of rules and  *)
(* the known top-level domains agrees with the standard's rule by rule.      *)
THEOREM BucketsAreStandard == ListSpec => []BucketsMatchStandard
<1>1. ListTypeOK => BucketsMatchStandard
  <2>. SUFFICES ASSUME ListTypeOK, NEW h \in Names
                PROVE  Etld1(Load(active), h) =
                           IF \E r \in RulesOf(active) : r.labels[1] = h[1]
                           THEN <<StandardBucket(RulesOf(active), h), TRUE>> ELSE <<h, FALSE>>
    BY DEF BucketsMatchStandard
  <2>1. GoodRules(RulesOf(active))
    BY BodiesAreGood DEF ListTypeOK, GoodBody
  <2>2. h \in Host
    BY PublishedAssumption DEF Host
  <2>. QED
    BY <2>1, <2>2, LookupIsStandard
<1>. QED
  BY <1>1, ListTyped, PTL

(* THEOREM: lacking additions of a newer list makes the bot only stricter:   *)
(* no two names become one domain by an addition.                            *)
THEOREM AdditionsAreSafe == ListSpec => []AdditionsOnlySplit
<1>1. ListTypeOK => AdditionsOnlySplit
  <2>. DEFINE older == Load(active)
  <2>. SUFFICES ASSUME ListTypeOK, NEW v \in DOMAIN Published,
                       AddsTo(Load(Published[v]), older),
                       NEW g \in Names, NEW h \in Names,
                       g[1] \in older.tlds, h[1] \in older.tlds,
                       Buckets(Load(Published[v]))[g] = Buckets(Load(Published[v]))[h]
                PROVE  Buckets(older)[g] = Buckets(older)[h]
    BY DEF AdditionsOnlySplit
  <2>1. GoodRules(RulesOf(active))
    BY BodiesAreGood DEF ListTypeOK, GoodBody
  <2>2. \A x \in older.exception : Len(x) > 1
    BY <2>1 DEF Load, GoodRules
  <2>3. g \in Host /\ h \in Host
    BY PublishedAssumption DEF Host
  <2>. HIDE DEF older
  <2>4. Bucket(Load(Published[v]), g) = Bucket(Load(Published[v]), h)
    BY DEF Buckets, Bucket
  <2>5. Bucket(older, g) = Bucket(older, h)
    BY <2>2, <2>3, <2>4, AdditionsSplit
  <2>. QED
    BY <2>5 DEF Buckets, Bucket
<1>. QED
  BY <1>1, ListTyped, PTL

(* The row, while nobody touched it and every start read it, is what was     *)
(* saved last and would be taken again; a list in use is no older.           *)
SavedInv ==
    /\ ListTypeOK
    /\ ~lost => saved = cached.version /\ (cached = NoBody \/ Valid(cached))
    /\ listPhase # "down" /\ ~lost => active.version >= saved
    /\ listPhase = "saving" => Valid(active)

(* THEOREM: a process never falls back behind a list that was saved, whatever *)
(* order fetches, failed writes, restarts and package changes come in, as     *)
(* long as the row is intact and read.                                        *)
THEOREM NeverDowngraded == ListSpec => []NoQuietDowngrade
<1>1. Len(Published) \in Nat /\ NoBody.version = 0
  BY PublishedAssumption, LenProperties DEF NoBody
<1>2. /\ \A body \in Vendored \cup Bodies : body.version \in Nat
      /\ \A body \in {NoBody} \cup Bodies : body.version \in Nat
  BY <1>1, BodiesAreGood DEF GoodBody
<1>3. ListInit /\ ListTypeOK => SavedInv
  BY <1>1 DEF ListInit, SavedInv
<1>4. SavedInv /\ ListTypeOK' /\ [ListNext]_listVars => SavedInv'
  <2>. SUFFICES ASSUME SavedInv, ListTypeOK', [ListNext]_listVars PROVE SavedInv'
    OBVIOUS
  <2>0. saved \in Nat /\ active.version \in Nat /\ cached.version \in Nat
    BY <1>1, <1>2 DEF SavedInv, ListTypeOK
  <2>1. ASSUME NEW vendored \in Vendored, NEW readable \in BOOLEAN,
               StartProcess(vendored, readable)
        PROVE  SavedInv'
    <3>1. CASE lost'
      BY <2>1, <3>1 DEF SavedInv, StartProcess
    <3>2. CASE ~lost'
      <4>1. ~lost /\ readable /\ listPhase' = "up" /\ cached' = cached /\ saved' = saved
        BY <2>1, <3>2 DEF StartProcess
      <4>2. vendored.version \in Nat
        BY <1>2
      <4>3. active'.version >= saved
        <5>1. CASE Valid(cached)
          <6>1. active' = IF cached.version > vendored.version THEN cached ELSE vendored
            BY <2>1, <4>1, <5>1 DEF StartProcess
          <6>. QED
            BY <2>0, <4>1, <4>2, <6>1 DEF SavedInv
        <5>2. CASE ~Valid(cached)
          <6>1. saved = 0
            BY <1>1, <4>1, <5>2 DEF SavedInv
          <6>2. active' \in Vendored \cup Bodies
            BY DEF ListTypeOK
          <6>. QED
            BY <1>2, <6>1, <6>2
        <5>. QED
          BY <5>1, <5>2
      <4>4. saved = cached.version /\ (cached = NoBody \/ Valid(cached))
        BY <4>1 DEF SavedInv
      <4>. QED
        BY <3>2, <4>1, <4>3, <4>4 DEF SavedInv, Valid
    <3>. QED
      BY <3>1, <3>2
  <2>2. ASSUME NEW body \in Bodies, Refresh(body) PROVE SavedInv'
    <3>1. /\ listPhase = "up" /\ listPhase' = "saving" /\ active' = body
          /\ Valid(body) /\ body.version > active.version
          /\ cached' = cached /\ saved' = saved /\ lost' = lost
      BY <2>2 DEF Refresh, Adoptable
    <3>2. body.version \in Nat
      BY <1>2
    <3>3. ~lost => body.version >= saved
      BY <2>0, <3>1, <3>2 DEF SavedInv
    <3>. QED
      BY <3>1, <3>3 DEF SavedInv, Valid
  <2>3. ASSUME NEW written \in BOOLEAN, PutCached(written) PROVE SavedInv'
    <3>1. /\ listPhase = "saving" /\ listPhase' = "up" /\ active' = active /\ lost' = lost
          /\ Valid(active)
      BY <2>3 DEF PutCached, SavedInv
    <3>2. CASE written
      <4>1. cached' = active
        BY <2>3, <3>2 DEF PutCached
      <4>2. ~lost => saved' = active.version
        BY <2>0, <2>3, <3>1, <3>2 DEF PutCached, SavedInv
      <4>3. Valid(active') /\ Valid(cached')
        BY <3>1, <4>1
      <4>4. ~lost' => saved' = cached'.version /\ active'.version >= saved'
        BY <2>0, <3>1, <4>1, <4>2
      <4>. QED
        BY <3>1, <4>3, <4>4 DEF SavedInv, Valid
    <3>3. CASE ~written
      <4>1. cached' = cached /\ saved' = saved
        BY <2>3, <3>3 DEF PutCached
      <4>. QED
        BY <3>1, <4>1 DEF SavedInv, Valid
    <3>. QED
      BY <3>2, <3>3
  <2>4. CASE EndProcess
    BY <2>4 DEF EndProcess, SavedInv, Valid
  <2>5. ASSUME NEW body \in Bodies, DamageRow(body) PROVE SavedInv'
    BY <2>5 DEF DamageRow, SavedInv
  <2>6. CASE UNCHANGED listVars
    BY <2>6 DEF listVars, SavedInv, Valid
  <2>. QED
    BY <2>1, <2>2, <2>3, <2>4, <2>5, <2>6 DEF ListNext
<1>5. SavedInv => NoQuietDowngrade
  BY DEF SavedInv, NoQuietDowngrade
<1>. QED
  BY <1>3, <1>4, <1>5, ListTyped, PTL DEF ListSpec

-----------------------------------------------------------------------------
(* What the gauntlet of sentinels rejects.                                   *)

(* A name of three labels is its own bucket only by a rule of two labels or  *)
(* more.                                                                     *)
LEMMA OwnBucketNeedsRule ==
    ASSUME NEW body, GoodRules(RulesOf(body)), NEW h \in Host, Len(h) = 3,
           Etld1(Load(body), h) = <<h, TRUE>>
    PROVE  \E r \in RulesOf(body) : Applies(r, h) /\ Labels(r) # 1
<1>. DEFINE l == Load(body)
            n == SuffixLen(l, h)
<1>1. h \in Seq(STRING)
  BY LenOfHost
<1>2. \A x \in l.exception : Len(x) > 1
  BY DEF Load, GoodRules
<1>. HIDE DEF l
<1>3. n # 0
  BY DEF Etld1, l
<1>4. n # 1
  <2>. SUFFICES ASSUME n = 1 PROVE FALSE
    OBVIOUS
  <2>1. Prefix(h, 2) = h
    BY DEF Etld1, l
  <2>2. Len(Prefix(h, 2)) = 2
    BY <1>1, PrefixFacts
  <2>. QED
    BY <2>1, <2>2
<1>5. CASE Exceptions(l, h) # {}
  <2>1. n + 1 \in Exceptions(l, h) /\ n \in 1 .. Len(h) - 1
    BY <1>2, <1>5, SuffixFound
  <2>2. PICK r \in Applying(RulesOf(body), h) : n + 1 = Labels(r)
    BY <2>1, ExceptionsAreApplying DEF l
  <2>. QED
    BY <1>4, <2>1, <2>2 DEF Applying
<1>6. CASE Exceptions(l, h) = {} /\ Matches(l, h) # {}
  <2>1. n \in Matches(l, h)
    BY <1>2, <1>6, SuffixFound
  <2>2. PICK r \in Applying(RulesOf(body), h) : n = Labels(r)
    BY <2>1, MatchesAreApplying DEF l
  <2>. QED
    BY <1>4, <2>2 DEF Applying
<1>7. CASE Exceptions(l, h) = {} /\ Matches(l, h) = {}
  BY <1>2, <1>3, <1>4, <1>7, SuffixFound
<1>. QED
  BY <1>5, <1>6, <1>7

(* Of all that a fetch can bring of a published body, what is valid has the  *)
(* version and the ICANN rules of that body, and a private rule if it has.   *)
LEMMA ValidIsWhole ==
    ASSUME NEW v \in DOMAIN Published, NEW body \in Offered(Published[v]), Valid(body)
    PROVE  /\ body.version = v
           /\ body.icann = Published[v].icann
           /\ body.private = <<>> => Published[v].private = <<>>
<1>. DEFINE whole == Published[v]
<1>1. whole \in Body /\ whole.version = v
  BY PublishedIsGood
<1>2. GoodRules(RulesOf(body))
  BY OfferedIsGood DEF GoodBody
<1>3. Rules(<<>>) = {}
  BY DEF Rules
<1>. DEFINE ck == <<"ck", "test", "b">>
            gh == <<"io", "github", "foo">>
<1>4. /\ ck \in Host /\ Len(ck) = 3 /\ Etld1(Load(body), ck) = <<ck, TRUE>>
      /\ gh \in Host /\ Len(gh) = 3 /\ Etld1(Load(body), gh) = <<gh, TRUE>>
  <2>1. <<ck, ck>> \in Sentinels /\ <<gh, gh>> \in Sentinels
    BY DEF Sentinels
  <2>2. Len(ck) = 3 /\ Len(gh) = 3
    OBVIOUS
  <2>3. ck \in Host /\ gh \in Host
    <3>. HIDE DEF ck, gh
    <3>. QED
      BY <2>1, SentinelNames DEF Host
  <2>. HIDE DEF ck, gh
  <2>. QED
    BY <2>1, <2>2, <2>3 DEF Valid
<1>5. /\ \A r \in Rules(whole.private) : Applies(r, ck) => Labels(r) = 1
      /\ \A r \in Rules(whole.icann) : Applies(r, gh) => Labels(r) = 1
  BY SentinelsAssumption
<1>. HIDE DEF ck, gh, whole
<1>6. /\ \E r \in RulesOf(body) : Applies(r, ck) /\ Labels(r) # 1
      /\ \E r \in RulesOf(body) : Applies(r, gh) /\ Labels(r) # 1
  BY <1>2, <1>4, OwnBucketNeedsRule
<1>7. body.markers = {"icann", "private"} /\ body.version > 0
  BY DEF Valid
(* Without rules of a section, a sentinel finds none of the other.           *)
<1>8. ASSUME body.icann = <<>>, body.private = whole.private PROVE FALSE
  BY <1>3, <1>5, <1>6, <1>8 DEF RulesOf
<1>9. ASSUME body.icann = whole.icann, body.private = <<>> PROVE FALSE
  BY <1>3, <1>5, <1>6, <1>9 DEF RulesOf
<1>10. CASE body = whole
  BY <1>1, <1>10 DEF whole
<1>11. CASE body = [whole EXCEPT !.version = 0]
  BY <1>1, <1>7, <1>11 DEF Body
<1>12. CASE \E cut \in Cuts(whole.icann) :
                body = [whole EXCEPT !.icann = cut, !.private = <<>>, !.markers = {"icann"}]
  <2>1. body.markers = {"icann"}
    BY <1>1, <1>12 DEF Body
  <2>. QED
    BY <1>7, <2>1
<1>13. CASE \E cut \in Cuts(whole.private) : body = [whole EXCEPT !.private = cut]
  <2>1. body.version = v /\ body.icann = whole.icann
    BY <1>1, <1>13 DEF Body
  <2>. QED
    BY <1>9, <2>1 DEF whole
<1>14. CASE body \in Filtered(whole)
  <2>1. CASE body = [whole EXCEPT !.icann = <<>>]
    <3>1. body.icann = <<>> /\ body.private = whole.private
      BY <1>1, <2>1 DEF Body
    <3>. QED
      BY <1>8, <3>1
  <2>2. CASE body = [whole EXCEPT !.private = <<>>]
    <3>1. body.icann = whole.icann /\ body.private = <<>>
      BY <1>1, <2>2 DEF Body
    <3>. QED
      BY <1>9, <3>1
  <2>. QED
    BY <1>14, <2>1, <2>2 DEF Filtered
<1>. QED
  BY <1>10, <1>11, <1>12, <1>13, <1>14 DEF Offered, Truncated, whole

(* The list in use came with the package, or it passed the gauntlet.         *)
PassedInv == active \in Vendored \cup {body \in Bodies : Valid(body)}

(* THEOREM: a list in use that has a version has all ICANN rules that were   *)
(* published under it, and private ones if there were any, however bodies    *)
(* are cut or filtered on their way, saved, damaged in the row and read      *)
(* again: validate_psl_text stands before every way in.                      *)
THEOREM AdoptedWhole == ListSpec => []AdoptedIcannWhole
<1>1. ListInit => PassedInv
  BY DEF ListInit, PassedInv, Vendored
<1>2. ListTypeOK /\ PassedInv /\ [ListNext]_listVars => PassedInv'
  <2>. SUFFICES ASSUME ListTypeOK, PassedInv, [ListNext]_listVars PROVE PassedInv'
    OBVIOUS
  <2>1. ASSUME NEW vendored \in Vendored, NEW readable \in BOOLEAN,
               StartProcess(vendored, readable)
        PROVE  PassedInv'
    <3>1. cached \in {NoBody} \cup Bodies /\ NoBody \in Vendored
      BY DEF ListTypeOK, Vendored
    <3>2. CASE readable /\ Valid(cached)
      <4>1. active' \in {cached, vendored}
        BY <2>1, <3>2 DEF StartProcess
      <4>. QED
        BY <3>1, <3>2, <4>1 DEF PassedInv, Vendored, Bodies, Offered
    <3>3. CASE ~ (readable /\ Valid(cached))
      <4>1. active' \in {NoBody, vendored}
        BY <2>1, <3>3 DEF StartProcess
      <4>. QED
        BY <3>1, <4>1 DEF PassedInv, Vendored, Bodies, Offered
    <3>. QED
      BY <3>2, <3>3
  <2>2. ASSUME NEW body \in Bodies, Refresh(body) PROVE PassedInv'
    BY <2>2 DEF Refresh, PassedInv, Vendored, Bodies, Offered
  <2>3. CASE UNCHANGED active
    BY <2>3 DEF PassedInv, Vendored, Bodies, Offered
  <2>4. CASE EndProcess
    BY <2>4 DEF EndProcess, PassedInv, Vendored
  <2>. QED
    BY <2>1, <2>2, <2>3, <2>4 DEF ListNext, PutCached, DamageRow, listVars
<1>3. PassedInv => AdoptedIcannWhole
  <2>. SUFFICES ASSUME PassedInv, active.version > 0 PROVE AdoptedIcannWhole
    BY DEF AdoptedIcannWhole
  <2>1. CASE active = NoBody
    BY <2>1 DEF NoBody
  <2>2. ASSUME NEW v \in DOMAIN Published,
               active \in {Published[v], [Published[v] EXCEPT !.version = 0]}
        PROVE  AdoptedIcannWhole
    BY <2>2, PublishedIsGood DEF AdoptedIcannWhole, Body
  <2>3. ASSUME NEW v \in DOMAIN Published, active \in Offered(Published[v]), Valid(active)
        PROVE  AdoptedIcannWhole
    BY <2>3, ValidIsWhole DEF AdoptedIcannWhole
  <2>. QED
    BY <2>1, <2>2, <2>3 DEF PassedInv, Vendored, Bodies
<1>. QED
  BY <1>1, <1>2, <1>3, ListTyped, PTL DEF ListSpec

=============================================================================
