----------------------------- MODULE Resolution -----------------------------
(***************************************************************************)
(* From a server name to the endpoints its federation API is tried at      *)
(* (ServerResolver.resolve_candidates): the well-known document, the SRV   *)
(* records of two service names, and the order the records are tried in.   *)
(* Every answer of the network is a choice, a lost one included.           *)
(***************************************************************************)
EXTENDS ServerNames, FiniteSets, Functions

CONSTANTS
    RawNames,     \* the names the sources bring
    Delegations,  \* the values of m.server in a well-known document
    Answers       \* the answers to an SRV query, sequences of records

(* The target of a record that says "no such service here".                  *)
NoService == "none"

Record == [priority : Nat, weight : Nat, target : STRING]

(* An empty m.server is no delegation.                                       *)
ASSUME ResolutionAssumption ==
    /\ RawNames \subseteq Seq(Token)
    /\ Delegations \subseteq Seq(Token) \ {<<>>}
    /\ Answers \subseteq Seq(Record)

VARIABLES
    step,        \* where resolve_candidates is
    raw,         \* the name that is resolved
    name,        \* it, or the name it delegates to, parsed
    delegated,   \* name is that of a delegation
    service,     \* the service name that is asked
    band,        \* the records still to be put in order
    ordered,     \* the records in the order they are tried
    candidates,  \* the result
    answered     \* what the well-known and each service answered

resolutionVars ==
    <<step, raw, name, delegated, service, band, ordered, candidates, answered>>

Services == <<"modern", "deprecated">>

(* An endpoint: the host and port connected to, the Host header, the name in *)
(* the certificate (none if it is for an address), and how it was found,     *)
(* which delegated completes.                                                *)
Target(host, port, header, tls, method) ==
    [host |-> host, port |-> port, header |-> header, tls |-> tls, method |-> method]

Default == "8448"

Headed(host, port) == IF port = "" THEN host ELSE Append(host, port)

(* An address, with its port; the port 0 gives way to the default.           *)
ToLiteral(n) ==
    Target(n.host, IF n.port \in {"", "zero"} THEN Default ELSE n.port,
           Headed(n.written, n.port), <<>>, "ip")

ToPort(n)  == Target(n.host, n.port, Headed(n.host, n.port), n.host, "port")
ToPlain(n) == Target(n.host, Default, n.host, n.host, "plain")

(* MUTANT: Host and certificate are those of the record.                     *)
ToRecordByTarget(n, r) == Target(<<r.target>>, r.target, <<r.target>>, <<r.target>>, "srv")

(* The target of a record stands for its host and port; the name in the      *)
(* header and the certificate stays the one that was asked for.              *)
ToRecord(n, r) == Target(<<r.target>>, r.target, n.host, n.host, "srv")

NoName == Parsed(<<>>, "", FALSE, <<>>)

ResolutionInit ==
    /\ step = "idle"
    /\ raw = <<>>
    /\ name = NoName
    /\ delegated = FALSE
    /\ service = 1
    /\ band = <<>>
    /\ ordered = <<>>
    /\ candidates = <<>>
    /\ answered = [wellknown |-> <<>>, srv |-> <<>>]

-----------------------------------------------------------------------------
(* Steps 1 and 2, and 3a and 3b: an address or a port is the answer.  What   *)
(* is left goes on to the step given.                                        *)
Direct(n, otherwise) ==
    /\ name' = n
    /\ candidates' = IF n.literal THEN <<ToLiteral(n)>>
                     ELSE IF n.port # "" THEN <<ToPort(n)>> ELSE <<>>
    /\ step' = IF n.literal \/ n.port # "" THEN "done" ELSE otherwise

(* A scan of a name that _clean let through.                                 *)
Resolve(r) ==
    /\ step = "idle"
    /\ ValidServerName(r)
    /\ raw' = r
    /\ delegated' = FALSE
    /\ Direct(ParseName(r), "wellknown")
    /\ UNCHANGED <<service, band, ordered, answered>>

(* The document delegates.  A value that does not parse counts as none.      *)
Delegate(value) ==
    LET parsed == ParseName(value)
    IN  /\ step = "wellknown"
        /\ answered' = [answered EXCEPT !.wellknown = value]
        /\ IF parsed.raises
           THEN /\ step' = "srv"
                /\ UNCHANGED <<name, delegated, candidates>>
           ELSE /\ delegated' = TRUE
                /\ Direct(parsed, "srv")
        /\ UNCHANGED <<raw, service, band, ordered>>

(* No document, none that can be read, or no answer.                         *)
NoDelegation ==
    /\ step = "wellknown"
    /\ step' = "srv"
    /\ UNCHANGED <<raw, name, delegated, service, band, ordered, candidates, answered>>

(* The records of a service; an answer that is lost has none.                *)
QuerySrv(records) ==
    /\ step = "srv"
    /\ band' = records
    /\ ordered' = <<>>
    /\ step' = "order"
    /\ answered' = [answered EXCEPT !.srv = Append(@, records)]
    /\ UNCHANGED <<raw, name, delegated, service, candidates>>

(* The records of the lowest priority that are left.                         *)
Foremost ==
    {i \in DOMAIN band : \A j \in DOMAIN band : band[i].priority <= band[j].priority}

(* The tickets of the records left: their weight, of the foremost ones.      *)
Tickets == [k \in DOMAIN band |-> IF k \in Foremost THEN band[k].weight ELSE 0]

(* The sum that runs over the tickets, and what it comes to.                 *)
Upto == LET sum[k \in 0 .. Len(band)] == IF k = 0 THEN 0 ELSE sum[k - 1] + Tickets[k]
        IN  sum

Total == Upto[Len(band)]

(* MUTANT: the pick may fall on the edge of a record without weight.         *)
PickableInclusive ==
    IF Total = 0 THEN Foremost
    ELSE {i \in Foremost : \E pick \in 0 .. Total - 1 :
             /\ pick <= Upto[i]
             /\ \A j \in Foremost : j < i => ~ pick <= Upto[j]}

(* The records a pick can fall on: the first the running sum goes beyond it  *)
(* at, or any if none has a weight.                                          *)
Pickable ==
    IF Total = 0 THEN Foremost
    ELSE {i \in Foremost : \E pick \in 0 .. Total - 1 :
             /\ pick < Upto[i]
             /\ \A j \in Foremost : j < i => ~ pick < Upto[j]}

Without(s, i) == [j \in 1 .. Len(s) - 1 |-> IF j < i THEN s[j] ELSE s[j + 1]]

PickRecord(i) ==
    /\ step = "order"
    /\ i \in Pickable
    /\ ordered' = Append(ordered, band[i])
    /\ band' = Without(band, i)
    /\ UNCHANGED <<step, raw, name, delegated, service, candidates, answered>>

(* What the walk over the records keeps.                                     *)
Usable(records) ==
    LET kept[k \in 0 .. Len(records)] ==
            IF k = 0 THEN <<>>
            ELSE IF records[k].target = NoService THEN kept[k - 1]
            ELSE Append(kept[k - 1], records[k])
    IN  kept[Len(records)]

(* MUTANT: nothing is tried when no service answers.                         *)
AnswerOrNothing ==
    LET usable == Usable(ordered)
    IN  /\ step = "order"
        /\ band = <<>>
        /\ candidates' = [i \in DOMAIN usable |-> ToRecord(name, usable[i])]
        /\ IF usable = <<>> /\ service < Len(Services)
           THEN step' = "srv" /\ service' = service + 1
           ELSE step' = "done" /\ UNCHANGED service
        /\ UNCHANGED <<raw, name, delegated, band, ordered, answered>>

(* All are in order: if one is usable they are the answer, if not the next   *)
(* service is asked, and after the last the plain name is the answer.        *)
Answer ==
    LET usable == Usable(ordered)
    IN  /\ step = "order"
        /\ band = <<>>
        /\ candidates' =
               IF usable # <<>> THEN [i \in DOMAIN usable |-> ToRecord(name, usable[i])]
               ELSE IF service < Len(Services) THEN <<>> ELSE <<ToPlain(name)>>
        /\ IF usable = <<>> /\ service < Len(Services)
           THEN step' = "srv" /\ service' = service + 1
           ELSE step' = "done" /\ UNCHANGED service
        /\ UNCHANGED <<raw, name, delegated, band, ordered, answered>>

ResolutionNext ==
    \/ \E r \in RawNames : Resolve(r)
    \/ \E value \in Delegations : Delegate(value)
    \/ NoDelegation
    \/ \E records \in Answers : QuerySrv(records)
    \/ \E i \in DOMAIN band : PickRecord(i)
    \/ Answer

ResolutionSpec == ResolutionInit /\ [][ResolutionNext]_resolutionVars

-----------------------------------------------------------------------------
ResolutionTypeOK ==
    /\ step \in {"idle", "wellknown", "srv", "order", "done"}
    /\ raw \in {<<>>} \cup RawNames
    /\ ~ name.raises
    /\ delegated \in BOOLEAN
    /\ service \in DOMAIN Services
    /\ Len(answered.srv) <= service
    /\ (candidates # <<>>) = (step = "done")

(* PROPERTY: what the sources let through, the resolver and the rules read   *)
(* alike: the resolver can parse it, the key of the rule is the host the     *)
(* resolver asks for, and the name is an address to both or to neither, save *)
(* a dotted quad with a leading zero, an address to the rules and a DNS name *)
(* to the resolver.                                                          *)
NamesAgree ==
    raw # <<>> =>
        LET parsed == ParseName(raw)
            key    == StripPort(raw)
        IN  /\ ~ parsed.raises
            /\ key = parsed.written
            /\ key # <<"padded">> => IsIpLiteral(key) = parsed.literal

(* The endpoints of a name by the rules of the Matrix specification, from    *)
(* the answers of its services; a port that a delegation names is taken as   *)
(* it is, one above 65535 too.                                               *)
Endpoints(base, srv) ==
    LET offering == {s \in DOMAIN srv : \E r \in Range(srv[s]) : r.target # NoService}
        chosen   == CHOOSE s \in offering : \A t \in offering : s <= t
    IN  IF base.port \notin {"", "zero"} THEN {<<base.host, base.port>>}
        ELSE IF base.literal THEN {<<base.host, Default>>}
        ELSE IF base.port = "zero" THEN {<<base.host, "zero">>}
        ELSE IF offering = {} THEN {<<base.host, Default>>}
        ELSE {<< <<r.target>>, r.target>> :
                  r \in {x \in Range(srv[chosen]) : x.target # NoService}}

(* PROPERTY: whatever was answered or lost, the endpoints are those of the   *)
(* specification: a delegation that can be read replaces the name once and   *)
(* for all, an address or a port ends the search, one service answers and is *)
(* not mixed with the other, the default port is no fallback behind records; *)
(* and Host and certificate are those of the name, never of a record.        *)
FollowsSpec ==
    step = "done" =>
        LET own  == ParseName(raw)
            via  == /\ ~own.literal /\ own.port = ""
                    /\ answered.wellknown # <<>>
                    /\ ~ParseName(answered.wellknown).raises
            base == IF via THEN ParseName(answered.wellknown) ELSE own
        IN  /\ delegated = via
            /\ {<<c.host, c.port>> : c \in Range(candidates)} = Endpoints(base, answered.srv)
            /\ \A c \in Range(candidates) :
                  /\ c.tls = IF base.literal THEN <<>> ELSE base.host
                  /\ c.header = IF base.port = "" THEN base.written
                                ELSE Append(base.written, base.port)

Count(r, s) == Cardinality({i \in DOMAIN s : s[i] = r})

(* PROPERTY: the records of an answer are tried in an order of RFC 2782:     *)
(* each as often as it was given, no priority before a lower one, and within *)
(* a priority none without a weight before one that has one.                 *)
OrderIsRfc2782 ==
    answered.srv # <<>> =>
        LET given == answered.srv[Len(answered.srv)]
        IN  /\ \A r \in Range(given) : Count(r, given) = Count(r, ordered) + Count(r, band)
            /\ Len(given) = Len(ordered) + Len(band)
            /\ \A i, j \in DOMAIN ordered : i < j =>
                  /\ ordered[i].priority <= ordered[j].priority
                  /\ ordered[i].priority = ordered[j].priority /\ ordered[i].weight = 0 =>
                        ordered[j].weight = 0

=============================================================================
