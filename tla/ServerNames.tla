---------------------------- MODULE ServerNames -----------------------------
(***************************************************************************)
(* What the parts of the program take a server name for: the check of the  *)
(* sources (validate_server_name), the key of the rules (strip_port,       *)
(* is_ip_literal) and the resolver (parse_name) each read it on their own. *)
(*                                                                         *)
(* A name is a sequence of brackets, colons and chunks, no two chunks next *)
(* to each other.  The chunks are what any of the four tells apart.        *)
(***************************************************************************)
EXTENDS Naturals, Sequences

(* A DNS name, a dotted quad, one with a leading zero, one with an octet     *)
(* above 255, an IPv6 address without and with a scope, a number that is a   *)
(* port, the number 0, a number above 65535, and none of these.              *)
Chunks == {"dns", "quad", "padded", "big", "v6", "scoped", "port", "zero", "huge", "junk"}

Token == Chunks \cup {"[", "]", ":"}

(* Where a token occurs first; 0 where it does not.                          *)
Find(name, token) ==
    LET at == {i \in DOMAIN name : name[i] = token}
    IN  IF at = {} THEN 0 ELSE CHOOSE i \in at : \A j \in at : i <= j

From(name, i) == SubSeq(name, i, Len(name))

Bracketed(name) == name # <<>> /\ name[1] = "["

(* An IPv6 address has colons of its own.                                    *)
OneColon(name) ==
    /\ \A i \in DOMAIN name : name[i] \notin {"v6", "scoped"}
    /\ \E i \in DOMAIN name : \A j \in DOMAIN name : (name[j] = ":") = (j = i)

NoColon(name) == \A i \in DOMAIN name : name[i] \notin {":", "v6", "scoped"}

-----------------------------------------------------------------------------
(* MUTANT: strip_port that takes brackets for part of a host name.           *)
StripPortUnbracketed(name) ==
    IF NoColon(name) THEN name ELSE SubSeq(name, 1, Find(name, ":") - 1)

(* strip_port, of a name that has passed validate_server_name.               *)
StripPort(name) ==
    IF Bracketed(name) THEN SubSeq(name, 1, Find(name, "]"))
    ELSE IF NoColon(name) THEN name
    ELSE SubSeq(name, 1, Find(name, ":") - 1)

(* is_ip_literal, of such a name without its port: up to three digits make   *)
(* an octet, leading zeros or not.                                           *)
IsIpLiteral(host) ==
    host \in {<<"quad">>, <<"padded">>, <<"[", "v6", "]">>}

(* Numbers and dotted numbers are DNS names too.                             *)
DnsName(host) == host \in {<<c>> : c \in {"dns", "padded", "big", "port", "zero", "huge"}}

ValidServerName(name) ==
    IF Bracketed(name)
    THEN /\ Find(name, "]") # 0
         /\ From(name, Find(name, "]") + 1) \in {<<>>, <<":", "port">>}
         /\ SubSeq(name, 1, Find(name, "]")) = <<"[", "v6", "]">>
    ELSE \/ NoColon(name) /\ (name = <<"quad">> \/ DnsName(name))
         \/ /\ OneColon(name)
            /\ From(name, Find(name, ":") + 1) = <<"port">>
            /\ LET host == SubSeq(name, 1, Find(name, ":") - 1)
               IN  host = <<"quad">> \/ DnsName(host)

-----------------------------------------------------------------------------
(* parse_name: the host, the port ("" if there is none), whether the host is *)
(* an address, the host as a header has it.                                  *)
Parsed(host, port, literal, written) ==
    [raises |-> FALSE, host |-> host, port |-> port, literal |-> literal, written |-> written]

Raises == [raises |-> TRUE]

(* int() takes any number, validate_server_name only one that is a port.     *)
Numbers == {"port", "zero", "huge"}

ParseBracketed(name) ==
    LET close == Find(name, "]")
        host  == SubSeq(name, 2, close - 1)
        rest  == From(name, close + 1)
        ported == rest # <<>> /\ rest[1] = ":"
    IN  IF \/ close = 0
           \/ ported /\ From(rest, 2) \notin {<<n>> : n \in Numbers}
           \/ host \notin {<<"v6">>, <<"scoped">>}
        THEN Raises
        ELSE Parsed(host, IF ported THEN rest[2] ELSE "", TRUE, SubSeq(name, 1, close))

ParseName(name) ==
    LET colon   == Find(name, ":")
        literal(host) == host \in {<<"quad">>, <<"v6">>, <<"scoped">>}
    IN  IF Bracketed(name) THEN ParseBracketed(name)
        ELSE IF ~OneColon(name) THEN Parsed(name, "", literal(name), name)
        ELSE IF From(name, colon + 1) \notin {<<n>> : n \in Numbers} THEN Raises
        ELSE LET host == SubSeq(name, 1, colon - 1)
             IN  Parsed(host, name[colon + 1], literal(host), host)

=============================================================================
