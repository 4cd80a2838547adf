---------------------------- MODULE PartsProofs -----------------------------
(***************************************************************************)
(* The parts that share no state, together: what is proved of each of them  *)
(* holds of the composition that TLC explores.                              *)
(***************************************************************************)
EXTENDS MCParts, LifecycleProofs, SuffixListProofs, ResolutionProofs

(* A step of the composition is a step of each part, or leaves it alone.     *)
LEMMA StepOfEach ==
    ASSUME [PartsNext]_<<part, lifecycleVars, listVars, resolutionVars>>
    PROVE  /\ [LifecycleNext]_lifecycleVars
           /\ [ListNext]_listVars
           /\ [ResolutionNext]_resolutionVars
BY DEF PartsNext

(* The composition implements each of its parts.                             *)
THEOREM PartsImplement == PartsSpec => LifecycleSpec /\ ListSpec /\ ResolutionSpec
<1>1. PartsInit => LifecycleInit /\ ListInit /\ ResolutionInit
  BY DEF PartsInit
<1>. QED
  BY <1>1, StepOfEach, PTL DEF PartsSpec, LifecycleSpec, ListSpec, ResolutionSpec

(* One part runs and each is in the states of its type.                      *)
THEOREM PartsTyped == PartsSpec => []PartsTypeOK
<1>1. PartsInit => part \in Parts
  BY DEF PartsInit
<1>2. part \in Parts /\ [PartsNext]_<<part, lifecycleVars, listVars, resolutionVars>>
          => (part \in Parts)'
  BY DEF PartsNext
<1>3. PartsSpec => [](part \in Parts)
  BY <1>1, <1>2, PTL DEF PartsSpec
<1>4. PartsTypeOK <=> part \in Parts /\ LifecycleTypeOK /\ ListTypeOK /\ ResolutionTypeOK
  BY DEF PartsTypeOK
<1>. QED
  BY <1>3, <1>4, PartsImplement, LifecycleTyped, ListTyped, ResolutionTyped, PTL

=============================================================================
