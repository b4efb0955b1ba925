------------------------------- MODULE Chains -------------------------------
(***************************************************************************)
(* agents/threat_agent/chains.py and chain_links.json: the attack chains   *)
(* proposed from approved threats.  A chain is the sequence of the indices *)
(* of its threats in the list, which is ordered by tid; the order in which *)
(* the chains are shown (evidence_strength) is left out.                   *)
(***************************************************************************)
EXTENDS Naturals, Sequences, FiniteSets, SequencesExt

CONSTANT MaxSteps   \* max_steps of chain_links.json

ASSUME ChainsAssumption == MaxSteps \in Nat \ {0, 1}

Links == { <<"InformationDisclosure", "Spoofing">>,
           <<"InformationDisclosure", "ElevationOfPrivilege">>,
           <<"Spoofing", "Tampering">>,
           <<"Spoofing", "ElevationOfPrivilege">>,
           <<"ElevationOfPrivilege", "Tampering">>,
           <<"ElevationOfPrivilege", "Repudiation">>,
           <<"Tampering", "Repudiation">>,
           <<"Tampering", "DenialOfService">> }

(* surfaces: the data flows and interfaces of each asset.                  *)
Connected(surfaces, a, b) == a = b \/ surfaces[a] \cap surfaces[b] # {}

Following(threats, surfaces, i) ==
    {j \in DOMAIN threats \ {i} :
        /\ <<threats[i].stride, threats[j].stride>> \in Links
        /\ Connected(surfaces, threats[i].asset, threats[j].asset)}

(* The paths walk() visits: no threat twice, each step follows the last.   *)
Walks(threats, surfaces) ==
    {w \in UNION {[1..n -> DOMAIN threats] : n \in 1..MaxSteps} :
        /\ \A i, j \in DOMAIN w : w[i] = w[j] => i = j
        /\ \A i \in 1..(Len(w) - 1) : w[i + 1] \in Following(threats, surfaces, w[i])}

(* Mutant: a walk is reported at its full length only.                     *)
MutantEnds(threats, surfaces, w) == Len(w) = MaxSteps

(* walk() goes no further: the path has its full length, or no threat is   *)
(* left that follows.                                                      *)
Ends(threats, surfaces, w) ==
    \/ Len(w) = MaxSteps
    \/ Following(threats, surfaces, Last(w)) \subseteq ToSet(w)

DropContained(chains) == {c \in chains : ~ \E d \in chains : IsStrictPrefix(c, d)}

ProposeChains(threats, surfaces) ==
    DropContained({w \in Walks(threats, surfaces) :
                     Len(w) >= 2 /\ Ends(threats, surfaces, w)})
=============================================================================
