--------------------------- MODULE MCPolicyWriter ---------------------------
(* PolicyWriter on small instances: a domain A with two targets, a second    *)
(* domain B of the same registrable domain, with or without a target, and a  *)
(* wildcard G that covers A.                                                 *)
EXTENDS PolicyWriter, TLC

CONSTANTS a1, a2, b1, A, B, G

MCDomainOf == [t \in Targets |-> IF t = b1 THEN B ELSE A]
MCCovers   == G :> {A}
MCBucket   == (A :> "site") @@ (B :> "site")
MCStatuses == {"open", "closed", "unknown"}
MCDecision == ("open" :> "ban") @@ ("closed" :> "unban") @@ ("unknown" :> "hold")
=============================================================================
