------------------------------ MODULE MCParts -------------------------------
(* Three parts of the plugin that share no state, each on a small instance:  *)
(* a behaviour is one of the first, of the second or of the third, the other *)
(* two at rest.                                                              *)
EXTENDS Lifecycle, SuffixList, Resolution, TLC

VARIABLE part

(* The versions of a suffix list.  The second adds a private wildcard and a  *)
(* rule for a top-level domain that was known by longer rules only; the      *)
(* third delegates a top-level domain and replaces the wildcard.             *)
Normal(labels)    == [kind |-> "normal", labels |-> labels]
Wildcard(labels)  == [kind |-> "wildcard", labels |-> labels]
Exception(labels) == [kind |-> "exception", labels |-> labels]

Listed(v, icann, private) ==
    [version |-> v, icann |-> icann, private |-> private, markers |-> {"icann", "private"}]

Icann == << Normal(<<"com">>), Normal(<<"uk", "co">>), Wildcard(<<"ck">>),
            Exception(<<"ck", "www">>), Normal(<<"io">>) >>

GithubIo == Normal(<<"io", "github">>)

MCPublished ==
    << Listed(1, Icann, <<GithubIo>>),
       Listed(2, Append(Icann, Normal(<<"uk">>)), <<GithubIo, Wildcard(<<"io", "host">>)>>),
       Listed(3, <<Normal(<<"dev">>)>> \o Icann, <<Normal(<<"com", "blog">>), GithubIo>>) >>

(* Under each kind of rule: the suffix, names with one label and with more   *)
(* below it, two of them in one bucket.                                      *)
MCNames ==
    { <<"com">>, <<"com", "a">>, <<"com", "blog">>, <<"com", "blog", "a">>,
      <<"com", "blog", "b", "x">>,
      <<"uk">>, <<"uk", "co">>, <<"uk", "co", "a">>, <<"uk", "co", "a", "b">>,
      <<"uk", "gov", "a">>, <<"uk", "gov", "b">>,
      <<"ck">>, <<"ck", "a">>, <<"ck", "a", "b">>, <<"ck", "a", "b", "c">>,
      <<"ck", "www">>, <<"ck", "www", "a">>, <<"ck", "www", "a", "b">>,
      <<"io">>, <<"io", "github">>, <<"io", "github", "a">>, <<"io", "host", "a">>,
      <<"io", "host", "a", "b">>, <<"io", "host", "a", "c">>, <<"io", "host", "b">>,
      <<"dev">>, <<"dev", "a">>, <<"dev", "a", "b">> }

(* Names of every shape, right and wrong.                                    *)
MCRawNames ==
    UNION {{<<c>>, <<"[", c, "]">>, <<"[", c>>, <<c, ":">>} : c \in Chunks}
    \cup UNION {{<<c, ":", p>>, <<"[", c, "]", ":", p>>, <<"[", c, "]", p>>} : c, p \in Chunks}
    \cup {<<c, ":", "port", ":", "port">> : c \in Chunks}

MCDelegations ==
    { <<"dns">>, <<"dns", ":", "port">>, <<"dns", ":", "zero">>, <<"dns", ":", "junk">>,
      <<"dns", ":", "huge">>, <<"quad">>, <<"quad", ":", "port">>, <<"padded">>, <<"v6">>,
      <<":", "port">>, <<"[", "v6", "]">>, <<"[", "scoped", "]", ":", "zero">>,
      <<"[", "v6", "]", ":", "dns">>, <<"[", "v6">>, <<"[", "v6", "]", "junk">> }

SRV(priority, weight, target) == [priority |-> priority, weight |-> weight, target |-> target]

(* No record, no service, one record; two priorities, the first without      *)
(* weights; equal records, and one without weight between weighted ones.     *)
MCAnswers ==
    { <<>>, <<SRV(0, 0, NoService)>>, <<SRV(0, 1, "a")>>,
      <<SRV(1, 0, "a"), SRV(1, 2, "b"), SRV(0, 0, "c"), SRV(0, 0, NoService)>>,
      <<SRV(1, 2, "a"), SRV(1, 0, "b"), SRV(1, 1, "c"), SRV(1, 2, "a")>> }

(* The calls that reload are alike.                                          *)
ReloaderSymmetry == Permutations(Reloaders)

Parts == {"lifecycle", "list", "resolution"}

PartsInit == part \in Parts /\ LifecycleInit /\ ListInit /\ ResolutionInit

PartsNext ==
    /\ UNCHANGED part
    /\ \/ part = "lifecycle"  /\ LifecycleNext  /\ UNCHANGED <<listVars, resolutionVars>>
       \/ part = "list"       /\ ListNext       /\ UNCHANGED <<lifecycleVars, resolutionVars>>
       \/ part = "resolution" /\ ResolutionNext /\ UNCHANGED <<lifecycleVars, listVars>>

PartsSpec == PartsInit /\ [][PartsNext]_<<part, lifecycleVars, listVars, resolutionVars>>

(* The type invariants of the three.                                         *)
PartsTypeOK == part \in Parts /\ LifecycleTypeOK /\ ListTypeOK /\ ResolutionTypeOK
=============================================================================
