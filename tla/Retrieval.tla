----------------------------- MODULE Retrieval ------------------------------
(***************************************************************************)
(* agents/threat_agent/retrieval.py and rerank.py: which patterns of the   *)
(* knowledge base are offered for an asset.  The queries are operators on  *)
(* the content they run on, so that the machine that uses them may change  *)
(* that content between two of them.                                       *)
(*                                                                         *)
(* The text of an asset is the set of words that the code looks for in it. *)
(* A cosine similarity is in hundredths, and no two patterns are at the    *)
(* same distance from one asset.  retrieval_score = (similarity + 1) / 2,  *)
(* so scores and sort keys are in two-hundredths.                          *)
(***************************************************************************)
EXTENDS Selections, SequencesExt, FiniteSetsExt

CONSTANTS
    TopK,                 \* RetrievalPlan.top_k
    PoolSize,             \* RETRIEVAL_POOL_SIZE
    StrideSlots,          \* RETRIEVAL_STRIDE_SLOTS
    TagBoost,             \* RETRIEVAL_RERANK_BOOST, in hundredths
    HardwarePenalty,      \* RETRIEVAL_RERANK_HW_PENALTY, in hundredths
    AllSourcesWhenTagged  \* RETRIEVAL_ALL_SOURCES_WHEN_TAGGED

ASSUME RetrievalAssumption ==
    /\ TopK \in 1..50
    /\ {PoolSize, StrideSlots, TagBoost, HardwarePenalty} \subseteq Nat
    /\ AllSourcesWhenTagged \in BOOLEAN

Stride == {"Spoofing", "Tampering", "Repudiation", "InformationDisclosure",
           "DenialOfService", "ElevationOfPrivilege"}
NoStride == "None"
Sources == {"CAPEC", "STRIDE", "ATT&CK", "CWE"}
CoreSources == {"CAPEC", "STRIDE"}
Attributes == {"authenticity", "integrity", "confidentiality", "availability"}

(* TAG_RULES, the domain tags of a text.                                   *)
Tags == {"hardware", "firmware", "physical", "wireless", "network", "web", "cloud",
         "mobile", "ics", "automotive", "crypto", "credentials"}

(* AssetModel: asset_type and interfaces as keywords, trust_zone as a word,*)
(* the attributes to protect, the domain tags of its text.                 *)
Asset == [type : SUBSET {"network", "embedded"},
          interfaces : SUBSET {"wireless", "http", "serial", "IO"},
          trust_zone : {"untrusted", "internal", "IT"},
          flows : SUBSET {"unlock", "log"},
          protects : SUBSET Attributes,
          tags : SUBSET Tags]
----------------------------------------------------------------------------
(* The plan: the sources searched for an asset and the STRIDE categories   *)
(* its attributes imply.                                                   *)
FullCoverage(asset) ==
    "wireless" \in asset.interfaces \/ asset.trust_zone = "untrusted"

SelectKbSources(asset) ==
    {s \in Sources :
        \/ s \in CoreSources
        \/ FullCoverage(asset)
        \/ s = "ATT&CK" /\ ("network" \in asset.type \/ "http" \in asset.interfaces)
        \/ s = "CWE" /\ "embedded" \in asset.type}

StrideForAttribute ==
    << <<"authenticity", "Spoofing">>, <<"integrity", "Tampering">>,
       <<"confidentiality", "InformationDisclosure">>, <<"availability", "DenialOfService">> >>

ImpliedStride(asset) ==
    LET applicable == Picked(StrideForAttribute,
                             {i \in DOMAIN StrideForAttribute :
                                StrideForAttribute[i][1] \in asset.protects})
    IN  [i \in DOMAIN applicable |-> applicable[i][2]]
----------------------------------------------------------------------------
(* The queries.  kb maps the id of a pattern to its row; a hit is a row as *)
(* the query saw it.                                                       *)
IsTagged(kb) == \E p \in DOMAIN kb : kb[p].tags # {}

QuerySources(asset, kb_is_tagged) ==
    IF kb_is_tagged /\ AllSourcesWhenTagged THEN Sources ELSE SelectKbSources(asset)

Reranking == TagBoost # 0 \/ HardwarePenalty # 0 \/ StrideSlots > 0
PoolLimit == IF Reranking THEN Max({2 * TopK, PoolSize}) ELSE 2 * TopK

Nearest(kb, a, patterns, limit) ==
    LET ordered == Ordered(patterns, LAMBDA p, q : kb[p].sim[a] > kb[q].sim[a])
        nearest == First(limit, ordered)
    IN  [i \in DOMAIN nearest |-> [pid |-> nearest[i], row |-> kb[nearest[i]]]]

PoolQuery(kb, a, sources) ==
    Nearest(kb, a, {p \in DOMAIN kb : kb[p].source \in sources}, PoolLimit)

StrideQuery(kb, a, sources, category) ==
    Nearest(kb, a, {p \in DOMAIN kb : kb[p].source \in sources /\ kb[p].stride = category},
            3 * StrideSlots)

UseRerank(hits) == Reranking /\ \E i \in DOMAIN hits : hits[i].row.tags # {}

(* Without reranking the pool is cut to what it was before pools existed.  *)
Pool(hits) == IF UseRerank(hits) THEN hits ELSE First(2 * TopK, hits)

AddNew(hits, extras) ==
    hits \o Picked(extras, {n \in DOMAIN extras :
                              \A i \in DOMAIN hits : hits[i].pid # extras[n].pid})
----------------------------------------------------------------------------
(* Scores, and the choice of the candidates of one asset.                  *)
RerankScore(asset, row, sim) ==
    LET overlap == Min({Cardinality(asset.tags \cap row.tags), 2})
        misfit == /\ "hardware" \in row.tags
                  /\ asset.tags \cap {"hardware", "firmware", "physical"} = {}
    IN  2 * (sim + TagBoost * overlap - (IF misfit THEN HardwarePenalty ELSE 0))

Candidate(asset, a, hit, rerank) ==
    [pid |-> hit.pid, asset |-> a, stride |-> hit.row.stride,
     score |-> hit.row.sim[a] + 100,
     key |-> IF rerank THEN RerankScore(asset, hit.row, hit.row.sim[a])
             ELSE hit.row.sim[a] + 100]

(* sorted(..., reverse=True): by key, the order of equals kept.            *)
SortDesc(candidates) ==
    LET order == Ordered(DOMAIN candidates,
                         LAMBDA i, j : \/ candidates[i].key > candidates[j].key
                                       \/ candidates[i].key = candidates[j].key /\ i < j)
    IN  [i \in DOMAIN candidates |-> candidates[order[i]]]

OfStride(ordered, category) ==
    Picked(ordered, {i \in DOMAIN ordered : ordered[i].stride = category})

(* Mutant: all the places of one category before those of the next.        *)
MutantReserved(ordered, categories) ==
    LET best(category) == First(StrideSlots, OfStride(ordered, category))
    IN  FlattenSeq([n \in DOMAIN categories |-> best(categories[n])])

(* Round-robin: the best match of every category before any second one.    *)
Reserved(ordered, categories) ==
    LET turn(n) == LET category == categories[((n - 1) % Len(categories)) + 1]
                       rank == ((n - 1) \div Len(categories)) + 1
                       best == OfStride(ordered, category)
                   IN  IF rank <= Len(best) THEN <<best[rank]>> ELSE <<>>
    IN  FlattenSeq([n \in 1..(StrideSlots * Len(categories)) |-> turn(n)])

SelectTop(candidates, categories) ==
    LET ordered == SortDesc(candidates)
        reserved == Reserved(ordered, categories)
    IN  First(TopK, reserved \o Picked(ordered, {i \in DOMAIN ordered :
                                                   ordered[i] \notin ToSet(reserved)}))

(* Mutant: the list of an asset is not cut.                                *)
MutantAssetCandidates(asset, a, hits) ==
    SortDesc([i \in DOMAIN hits |-> Candidate(asset, a, hits[i], UseRerank(hits))])

AssetCandidates(asset, a, hits) ==
    LET rerank == UseRerank(hits)
        all == [i \in DOMAIN hits |-> Candidate(asset, a, hits[i], rerank)]
        cats == ImpliedStride(asset)
        chosen == IF rerank /\ StrideSlots > 0 /\ cats # <<>>
                  THEN ToSet(SelectTop(all, cats)) ELSE ToSet(all)
    IN  First(TopK, SortDesc(Picked(all, {i \in DOMAIN all : all[i] \in chosen})))

(* One list for all assets.  Its keys may be on two scales: those of an    *)
(* asset whose pool has tags, and those of one whose pool has none.        *)
FinalList(lists) == SortDesc(FlattenSeq(lists))
=============================================================================
