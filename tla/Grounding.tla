----------------------------- MODULE Grounding ------------------------------
(***************************************************************************)
(* The gate between generation and the reviewer: the four checks of        *)
(* validator.py and those of grounding.py, and the answer that generator.py*)
(* gives in place of the model's.                                          *)
(*                                                                         *)
(* A text is the set of its words that some check looks for, empty for a   *)
(* blank text; a reference is a sequence of tokens, "-" among them.        *)
(***************************************************************************)
EXTENDS Selections, SequencesExt

(* STRIDE_VECTOR_VOCABULARY, two words of each category.                   *)
Vocabulary ==
    [Spoofing |-> {"replay", "spoof"},
     Tampering |-> {"injection", "tamper"},
     Repudiation |-> {"audit bypass", "repudiat"},
     InformationDisclosure |-> {"unencrypted transmission", "leak"},
     DenialOfService |-> {"resource exhaustion", "flood"},
     ElevationOfPrivilege |-> {"access control bypass", "privilege"}]

(* Mutant: a word that is in the vocabulary of another category.           *)
MutantFallbackWord ==
    [Spoofing |-> "replay", Tampering |-> "injection",
     Repudiation |-> "audit bypass",
     InformationDisclosure |-> "unencrypted transmission",
     DenialOfService |-> "resource exhaustion",
     ElevationOfPrivilege |-> "injection"]

(* _STRIDE_KEYWORD_FALLBACK.                                               *)
FallbackWord ==
    [Spoofing |-> "replay", Tampering |-> "injection",
     Repudiation |-> "audit bypass",
     InformationDisclosure |-> "unencrypted transmission",
     DenialOfService |-> "resource exhaustion",
     ElevationOfPrivilege |-> "access control bypass"]

(* Stop words, and words of fewer than three letters.                      *)
Dropped == {"interface", "trust", "zone", "IO", "IT"}
Words(text) == text \ Dropped
----------------------------------------------------------------------------
(* References.                                                             *)
Norm(ref) == Picked(ref, {i \in DOMAIN ref : ref[i] # "-"})

(* Mutant: a reference matches when the sources are the same.              *)
MutantRefMatches(a, b) == Norm(a) # <<>> /\ Norm(b) # <<>> /\ Norm(a)[1] = Norm(b)[1]

RefMatches(a, b) ==
    LET na == Norm(a)  nb == Norm(b)
    IN  na # <<>> /\ nb # <<>> /\ (IsSuffix(na, nb) \/ IsSuffix(nb, na))

(* What follows the last dash.                                             *)
RefCore(ref) ==
    LET dashes == {i \in DOMAIN ref : ref[i] = "-"}
        last == IF dashes = {} THEN 0 ELSE CHOOSE i \in dashes : \A j \in dashes : j <= i
    IN  SubSeq(ref, last + 1, Len(ref))

(* generator._deterministic_fallback_for_path, for the one step of a path. *)
Fallback(candidate, asset) ==
    LET category == IF candidate.stride = "None" THEN "Tampering" ELSE candidate.stride
    IN  [asset |-> candidate.asset,
         stride |-> category,
         vector |-> {FallbackWord[category]},
         ref |-> candidate.pid,
         matched |-> candidate.pid,
         citation |-> [text |-> "text", names |-> {RefCore(candidate.pid)}],
         exposure |-> (IF asset.interfaces = {} THEN {"standard"} ELSE asset.interfaces)
                        \cup {"interface", asset.trust_zone, "trust", "zone"},
         reason |-> "specific"]
----------------------------------------------------------------------------
(* Validator.validate: the ids of the checks that fail.                    *)
CitationPresent(s) == s.citation.text \notin {"", "placeholder"}

SchemaComplete(s) == s.asset # "" /\ s.vector # {} /\ s.ref # <<>>

Consistent(s) == s.vector \cap Vocabulary[s.stride] # {}

EvidenceComplete(s) ==
    /\ s.exposure # {}
    /\ s.matched # <<>>
    /\ s.reason \notin {"", "placeholder", "short"}

Validate(s) ==
    {check \in {"CITATION_MISSING", "SCHEMA_INCOMPLETE", "CONSISTENCY_MISMATCH",
                "EVIDENCE_GENERIC"} :
        CASE check = "CITATION_MISSING" -> ~CitationPresent(s)
          [] check = "SCHEMA_INCOMPLETE" -> ~SchemaComplete(s)
          [] check = "CONSISTENCY_MISMATCH" -> ~Consistent(s)
          [] OTHER -> ~EvidenceComplete(s)}

(* check_grounding, against the one step of the path and the input.        *)
Retrieved(s, pid) == RefMatches(s.ref, pid)

CitationMatches(s, pid) ==
    /\ RefMatches(s.matched, s.ref)
    /\ {RefCore(s.ref), RefCore(pid)} \cap s.citation.names # {}

(* The words of an asset: here its name is its id.                         *)
AssetVocabulary(a, asset) ==
    Words({a, asset.trust_zone} \cup asset.type \cup asset.interfaces \cup asset.flows)

ExposureGrounded(s, assets) ==
    LET vocabulary == AssetVocabulary(s.asset, assets[s.asset])
    IN  vocabulary = {} \/ Words(s.exposure) \cap vocabulary # {}

CheckGrounding(s, pid, assets) ==
    {check \in {"CITATION_NOT_RETRIEVED", "ASSET_NOT_IN_INPUT", "CITATION_MISMATCH",
                "EXPOSURE_NOT_GROUNDED"} :
        CASE check = "CITATION_NOT_RETRIEVED" -> ~Retrieved(s, pid)
          [] check = "ASSET_NOT_IN_INPUT" -> s.asset \notin DOMAIN assets
          [] check = "CITATION_MISMATCH" -> ~CitationMatches(s, pid)
          [] OTHER -> s.asset \in DOMAIN assets /\ ~ExposureGrounded(s, assets)}

Passes(s, pid, assets) == Validate(s) = {} /\ CheckGrounding(s, pid, assets) = {}
=============================================================================
