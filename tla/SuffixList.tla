----------------------------- MODULE SuffixList -----------------------------
(***************************************************************************)
(* The public suffix list: what a list says of a name (PublicSuffixList),  *)
(* which body may become a list (validate_psl_text), and which list is in  *)
(* use over fetches, restarts and upgrades (PSLHolder, _load_psl_local,    *)
(* _psl_refresh_once, psl_cache).                                          *)
(*                                                                         *)
(* A name is the sequence of its labels from the top-level domain down, so *)
(* that a suffix of the name as it is written is a prefix here.            *)
(***************************************************************************)
EXTENDS Naturals, Sequences, FiniteSets

CONSTANTS
    Names,      \* the names that are looked up
    Published   \* the bodies upstream publishes, oldest first, by version

VARIABLES
    listPhase,  \* the process: down, up, or saving the list it has just adopted
    active,     \* the list in use (PSLHolder.current)
    cached,     \* the body in the row of psl_cache
    saved,      \* the newest version that was ever written there
    lost        \* the row was damaged, or some start could not read it

listVars == <<listPhase, active, cached, saved, lost>>

Kind == {"normal", "wildcard", "exception"}

(* The rules of a body by section, in their order, its version (0: no stamp, *)
(* or one that cannot be parsed) and the section markers it has.             *)
NoBody == [version |-> 0, icann |-> <<>>, private |-> <<>>, markers |-> {}]

Rules(section) == {section[i] : i \in DOMAIN section}

RulesOf(body) == Rules(body.icann) \cup Rules(body.private)

Rule == [kind : Kind, labels : Seq(STRING) \ {<<>>}]

Body == [version : Nat, icann : Seq(Rule), private : Seq(Rule),
         markers : SUBSET {"icann", "private"}]

(* Upstream stamps every body; an exception has a label more than what it is *)
(* an exception of.                                                          *)
ASSUME PublishedAssumption ==
    /\ Names \subseteq Seq(STRING) \ {<<>>}
    /\ Published \in Seq(Body)
    /\ \A v \in DOMAIN Published :
          /\ Published[v].version = v
          /\ Published[v].markers = {"icann", "private"}
          /\ \A r \in RulesOf(Published[v]) : r.kind = "exception" => Len(r.labels) > 1

-----------------------------------------------------------------------------
(* Both sections count; a wildcard is kept without its star.                 *)
Load(body) ==
    LET kind(k) == {r.labels : r \in {x \in RulesOf(body) : x.kind = k}}
    IN  [normal    |-> kind("normal"),
         wildcard  |-> kind("wildcard"),
         exception |-> kind("exception"),
         tlds      |-> {r.labels[1] : r \in RulesOf(body)}]

Prefix(h, k) == SubSeq(h, 1, k)

Longest(S) == CHOOSE k \in S : \A j \in S : j <= k

Exceptions(l, h) == {k \in 1 .. Len(h) : Prefix(h, k) \in l.exception}

(* MUTANT: the base of a wildcard is the suffix, not the label below it.     *)
MatchesBase(l, h) == {k \in 1 .. Len(h) : Prefix(h, k) \in l.normal \cup l.wildcard}

Matches(l, h) ==
    {k \in 1 .. Len(h) : \/ Prefix(h, k) \in l.normal
                         \/ k > 1 /\ Prefix(h, k - 1) \in l.wildcard}

(* MUTANT: a name no rule matches has no suffix, known top-level domain or   *)
(* not.                                                                      *)
SuffixLenExplicit(l, h) ==
    IF Exceptions(l, h) # {} THEN Longest(Exceptions(l, h)) - 1
    ELSE IF Matches(l, h) # {} THEN Longest(Matches(l, h))
    ELSE 0

(* How many labels of a name are its public suffix; 0 if there is none.      *)
SuffixLen(l, h) ==
    IF Exceptions(l, h) # {} THEN Longest(Exceptions(l, h)) - 1
    ELSE IF Matches(l, h) # {} THEN Longest(Matches(l, h))
    ELSE IF h[1] \in l.tlds THEN 1 ELSE 0

(* The name a ban of h is counted under, and whether the list knew it: the   *)
(* suffix and one label more, the name itself where there is no such label   *)
(* or the list does not know its top-level domain.                           *)
Etld1(l, h) ==
    LET n == SuffixLen(l, h)
    IN  IF n = 0 THEN <<h, FALSE>>
        ELSE IF n = Len(h) THEN <<h, TRUE>>
        ELSE <<Prefix(h, n + 1), TRUE>>

(* Lookups whose answer is known, one at least for each kind of rule.        *)
Sentinels ==
    { << <<"com", "example">>, <<"com", "example">> >>,
      << <<"uk", "co", "example", "b", "a">>, <<"uk", "co", "example">> >>,
      << <<"ck", "test", "b">>, <<"ck", "test", "b">> >>,
      << <<"ck", "www", "www">>, <<"ck", "www">> >>,
      << <<"io", "github", "foo">>, <<"io", "github", "foo">> >> }

(* How many labels of a name a rule covers, and which names it applies to.   *)
Labels(r) == IF r.kind = "wildcard" THEN Len(r.labels) + 1 ELSE Len(r.labels)

Applies(r, h) == Labels(r) <= Len(h) /\ Prefix(h, Len(r.labels)) = r.labels

(* What a sentinel of one section is looked up by is in that section alone:  *)
(* no private rule but one of a top-level domain applies to b.test.ck, and   *)
(* no such ICANN rule to foo.github.io.                                      *)
ASSUME SentinelsAssumption ==
    \A v \in DOMAIN Published :
        /\ \A r \in Rules(Published[v].private) : Applies(r, <<"ck", "test", "b">>) => Labels(r) = 1
        /\ \A r \in Rules(Published[v].icann) : Applies(r, <<"io", "github", "foo">>) => Labels(r) = 1

(* True of any literals; the provers do not know that a literal is a STRING. *)
ASSUME SentinelNames == \A s \in Sentinels : s[1] \in Seq(STRING) \ {<<>>}

(* MUTANT: markers and stamp are taken as proof enough.                      *)
ValidByMarkers(body) == body.markers = {"icann", "private"} /\ body.version > 0

Valid(body) ==
    /\ body.markers = {"icann", "private"}
    /\ body.version > 0
    /\ \A s \in Sentinels : Etld1(Load(body), s[1]) = <<s[2], TRUE>>

-----------------------------------------------------------------------------
(* What a fetch can bring of what was published: the body, the body cut      *)
(* within either section, the body without the rules of a section, the body  *)
(* without a stamp.                                                          *)
Cuts(section) == {SubSeq(section, 1, n) : n \in 0 .. Len(section)}

Truncated(body) ==
    {[body EXCEPT !.icann = cut, !.private = <<>>, !.markers = {"icann"}] : cut \in Cuts(body.icann)}
    \cup {[body EXCEPT !.private = cut] : cut \in Cuts(body.private)}

Filtered(body) == {[body EXCEPT !.icann = <<>>], [body EXCEPT !.private = <<>>]}

Offered(body) ==
    {body, [body EXCEPT !.version = 0]} \cup Truncated(body) \cup Filtered(body)

(* MUTANT: any other version replaces the list in use.                       *)
AdoptableIfOther(body) == body.version # active.version

(* A list that can be ordered replaces one that is older or has no version.  *)
Adoptable(body) == body.version > active.version

ListInit ==
    /\ listPhase = "down"
    /\ active = NoBody
    /\ cached = NoBody
    /\ saved = 0
    /\ lost = FALSE

(* start(): the freshest of the vendored copy, which a new package may have  *)
(* changed and a broken one lacks, and the row, if it can be read and is     *)
(* valid.                                                                    *)
StartProcess(vendored, readable) ==
    LET row == IF readable /\ Valid(cached) THEN cached ELSE NoBody
    IN  /\ listPhase = "down"
        /\ listPhase' = "up"
        /\ active' = IF row.version > vendored.version THEN row ELSE vendored
        /\ lost' = (lost \/ ~readable)
        /\ UNCHANGED <<cached, saved>>

(* A fetch: a body that is valid and newer is adopted.                       *)
Refresh(body) ==
    /\ listPhase = "up"
    /\ Valid(body)
    /\ Adoptable(body)
    /\ active' = body
    /\ listPhase' = "saving"
    /\ UNCHANGED <<cached, saved, lost>>

(* The write of the row that follows, and may fail.                          *)
PutCached(written) ==
    /\ listPhase = "saving"
    /\ listPhase' = "up"
    /\ cached' = IF written THEN active ELSE cached
    /\ saved' = IF written /\ saved < active.version THEN active.version ELSE saved
    /\ UNCHANGED <<active, lost>>

(* The process ends, perhaps between an adoption and its write.              *)
EndProcess ==
    /\ listPhase # "down"
    /\ listPhase' = "down"
    /\ active' = NoBody
    /\ UNCHANGED <<cached, saved, lost>>

(* The row is edited by hand or restored from a backup.                      *)
DamageRow(body) ==
    /\ listPhase = "down"
    /\ cached' = body
    /\ lost' = TRUE
    /\ UNCHANGED <<listPhase, active, saved>>

Vendored == {NoBody} \cup
    UNION {{Published[v], [Published[v] EXCEPT !.version = 0]} : v \in DOMAIN Published}

Bodies == UNION {Offered(Published[v]) : v \in DOMAIN Published}

ListNext ==
    \/ \E vendored \in Vendored, readable \in BOOLEAN : StartProcess(vendored, readable)
    \/ \E body \in Bodies : Refresh(body)
    \/ \E written \in BOOLEAN : PutCached(written)
    \/ EndProcess
    \/ \E body \in Bodies : DamageRow(body)

ListSpec == ListInit /\ [][ListNext]_listVars

-----------------------------------------------------------------------------
ListTypeOK ==
    /\ listPhase \in {"down", "up", "saving"}
    /\ active \in Vendored \cup Bodies
    /\ cached \in {NoBody} \cup Bodies
    /\ saved \in 0 .. Len(Published)
    /\ lost \in BOOLEAN

(* The lookup as publicsuffix.org defines it, rule by rule: of the rules     *)
(* that match, an exception prevails, then the one with the most labels,     *)
(* then the rule *.                                                          *)
StandardSuffix(rules, h) ==
    LET applying == {r \in rules : Applies(r, h)}
        length(S) == Longest({Labels(r) : r \in S} \cup {1})
        excepting == {r \in applying : r.kind = "exception"}
    IN  IF excepting # {} THEN length(excepting) - 1 ELSE length(applying)

StandardBucket(rules, h) ==
    LET n == StandardSuffix(rules, h)
    IN  IF n < Len(h) THEN Prefix(h, n + 1) ELSE h

(* PROPERTY: under the list in use, every name is counted under its          *)
(* registrable domain as the standard has it, wildcards, exceptions and      *)
(* names that are suffixes themselves included; a name whose top-level       *)
(* domain the list does not have is counted by itself and reported.          *)
BucketsMatchStandard ==
    \A h \in Names :
        LET known == \E r \in RulesOf(active) : r.labels[1] = h[1]
        IN  Etld1(Load(active), h) =
                IF known THEN <<StandardBucket(RulesOf(active), h), TRUE>> ELSE <<h, FALSE>>

(* A list that has all rules of another, the same exceptions, and more.      *)
AddsTo(newer, older) ==
    /\ older.normal \subseteq newer.normal
    /\ older.wildcard \subseteq newer.wildcard
    /\ older.tlds \subseteq newer.tlds
    /\ older.exception = newer.exception

Buckets(l) == [h \in Names |-> Etld1(l, h)[1]]

(* PROPERTY: lacking additions of a newer list, the bot is only stricter:    *)
(* under known top-level domains, names that the newer list counts as one    *)
(* domain are one domain to the list in use too, so the cap fills no later.  *)
AdditionsOnlySplit ==
    \A v \in DOMAIN Published :
        LET older  == Load(active)
            newer  == Load(Published[v])
            coarse == Buckets(older)
            fine   == Buckets(newer)
        IN  AddsTo(newer, older) =>
                \A g, h \in {x \in Names : x[1] \in older.tlds} :
                    fine[g] = fine[h] => coarse[g] = coarse[h]

(* PROPERTY: no process uses a list older than one that was once written to  *)
(* the row, over restarts, failed writes, upgrades and downgrades of the     *)
(* package and stale mirrors, unless the row itself was damaged or could not *)
(* be read.                                                                  *)
NoQuietDowngrade ==
    listPhase # "down" /\ ~lost => active.version >= saved

(* PROPERTY: whatever was fetched, a list in use with a version has every    *)
(* ICANN rule that was published with that version, and one private rule at  *)
(* least if any was.                                                         *)
AdoptedIcannWhole ==
    active.version > 0 =>
        LET published == Published[active.version]
        IN  /\ active.icann = published.icann
            /\ active.private = <<>> => published.private = <<>>

=============================================================================
