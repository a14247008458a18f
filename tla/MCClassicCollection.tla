---------------------- MODULE MCClassicCollection ----------------------
(* Small collections: two descriptions with up to two effects for the        *)
(* compilation, one with up to three effects, of two modules, for the        *)
(* encoding.                                                                 *)
EXTENDS ClassicCollection

CONSTANTS noise, clump

ChainsUpTo(n) == UNION {[1 .. k -> {noise, clump}] : k \in 0 .. n}

PlansToCompile ==
  [valid : BOOLEAN, modules : {{noise}, {noise, clump}}, effects : ChainsUpTo(2)]

PlansToEncode ==
  [valid : {TRUE}, modules : {{noise, clump}}, effects : ChainsUpTo(3)]

AllPlans == PlansToCompile \cup PlansToEncode

TwoModules == {noise, clump}

\* Bound: every motion table for one description that one worker compiles; the
\* tables of a single sample for everything else, where the second description
\* has no more effects than an only worker leaves it.
Within ==
  \/ Len(plans) = 1 /\ workers = 1 /\ plans[1] \in PlansToEncode
  \/ /\ \A d \in Descriptions : plans[d] \in PlansToCompile
     /\ Len(plans) = 2 => Len(plans[2].effects) < workers
     /\ call.samples \in {0, 1, MaxSamples + 1}
     /\ \A i \in DOMAIN call.placements : call.placements[i] \in {1, NotFinite}

=============================================================================
