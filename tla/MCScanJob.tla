----------------------------- MODULE MCScanJob -----------------------------
(* ScanJob on a handful of servers, with two history variables: whether      *)
(* anything of the scan under way was lost, and what the scans recorded so   *)
(* far had found.                                                            *)
EXTENDS ScanJob, FiniteSets, FiniteSetsExt

VARIABLES lossy, log

Challenge(flows) == [code |-> "challenge", flows |-> flows]
Forbidden == [code |-> "forbidden", flows |-> {}]
Other     == [code |-> "other", flows |-> {}]
Everywhere(x) == [b \in Bases |-> x]

(* Closed, no OAuth, one endpoint, the same with and without delegation. *)
Plain == [delegates |-> FALSE, issuer |-> FALSE, register |-> Everywhere(Forbidden),
          metadata |-> Everywhere(FALSE), found |-> <<"v1">>, plain |-> <<"v1">>,
          support |-> TRUE]

MCServers ==
    { \* an unguarded flow beside a guarded one, and an OAuth issuer
      [Plain EXCEPT !.register = Everywhere(Challenge({{"verifying"}, {"harmless"}})),
                    !.issuer = TRUE],
      \* open by an unfamiliar stage, OAuth metadata only, a dead first endpoint
      [Plain EXCEPT !.register = Everywhere(Challenge({{"harmless", "unfamiliar"}})),
                    !.metadata = Everywhere(TRUE), !.found = <<"dead", "v2">>],
      \* dangerous, behind a well-known; the origin itself refuses registration
      [Plain EXCEPT !.delegates = TRUE, !.register["delegate"] = Challenge({{}}),
                    !.found = <<"null", "v1">>],
      \* guarded, junk for a version
      [Plain EXCEPT !.register = Everywhere(Challenge({{"verifying", "harmless"}})),
                    !.found = <<"junk", "v2">>],
      \* behind a proxy that answers everything with a challenge of its own
      [Plain EXCEPT !.register = Everywhere(Other), !.found = <<"dead">>, !.support = FALSE],
      \* a guarded flow beside one whose only stage is no string
      [Plain EXCEPT !.register = Everywhere(Challenge({{"verifying", "malformed"},
                                                       {"malformed"}}))],
      Plain }

MCInit == Init /\ lossy = FALSE /\ log = <<>>

(* The steps of Next, each with what it loses.                               *)
MCNext ==
    /\ \/ \E lost \in BOOLEAN : Request(lost) /\ lossy' = (lossy \/ lost)
       \/ (ClassifyCatches \/ ClassifyRaises \/ TimeOut) /\ lossy' = TRUE
       \/ Tick /\ UNCHANGED lossy
       \/ (Start \/ Record \/ RecordSupport \/ Restart) /\ lossy' = FALSE
    /\ log' = IF row' = row THEN log
              ELSE Append(log, [ok |-> result.ok, status |-> result.status,
                                fed |-> result.fed])

MCSafety == MCInit /\ [][MCNext]_<<vars, lossy, log>>
MCSpec   == MCSafety /\ Fairness

-----------------------------------------------------------------------------
(* What is true of a server, all at once: the most dangerous applicable      *)
(* label, and the answer of the first endpoint that can be reached.          *)
TrueBase == IF server.delegates THEN "delegate" ELSE "origin"

TrueStatus ==
    LET legacy == RegisterVerdict(server.register[TrueBase])
    IN  CASE legacy = "dangerously_open" -> legacy
          [] legacy # "dangerously_open" /\ (server.issuer \/ server.metadata[TrueBase]) -> "oauth"
          [] OTHER -> IF legacy = "none" THEN "unknown" ELSE legacy

TrueVersion ==
    LET live == {i \in DOMAIN server.found : server.found[i] # "dead"}
    IN  IF live = {} \/ server.found[Min(live)] = "junk" THEN "nosignal"
        ELSE server.found[Min(live)]

(* A scan of which nothing was lost tells the truth, in the order of         *)
(* requests the code happens to make; and with budget to spare it has the    *)
(* version and the support document too.                                     *)
CleanScanIsTrue ==
    pc = "record" /\ ~lossy =>
        /\ result.ok /\ result.status = TrueStatus
        /\ elapsed < Budget => /\ result.fed = TrueVersion
                               /\ result.doc = (FetchesSupport /\ server.support)

(* The row, computed write by write from the row before, is what the whole   *)
(* history of the target says: the status of the last scan that succeeded,   *)
(* dated from the write since which it has not changed, failures not         *)
(* counting; the failures since; the last version anybody truly reported.    *)
RowIsHistory ==
    LET n         == Len(log)
        LastOf(S) == IF S = {} THEN 0 ELSE Max(S)
        successes == {i \in 1 .. n : log[i].ok}
        reports   == {i \in 1 .. n : log[i].fed # "nosignal"}
        StatusAt(i) == LET last == LastOf(successes \cap 1 .. i)
                       IN  IF last = 0 THEN "unknown" ELSE log[last].status
    IN  IF n = 0 THEN row = NoRow
        ELSE row = [count   |-> n,
                    status  |-> StatusAt(n),
                    since   |-> Min({i \in 1 .. n :
                                       \A j \in i .. n : StatusAt(j) = StatusAt(n)}),
                    success |-> LastOf(successes),
                    streak  |-> n - LastOf(successes),
                    fed     |-> IF reports = {} THEN "null" ELSE log[Max(reports)].fed,
                    fedAt   |-> LastOf(reports)]
=============================================================================
