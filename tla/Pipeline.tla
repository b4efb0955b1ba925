------------------------------ MODULE Pipeline ------------------------------
(***************************************************************************)
(* One analysis from its input to the attack chains, with the knowledge    *)
(* base it reads: kb_fingerprint, fetch_candidates, build_paths,           *)
(* generate_scenarios, the gate, the review, and propose_chains, composed  *)
(* from Retrieval, KnowledgeBase, Grounding and Chains.  Builds, outages of*)
(* the database and restarts come between any two steps; the queries of one*)
(* fetch are separate statements under READ COMMITTED, so each of them sees*)
(* the table of its own moment.                                            *)
(*                                                                         *)
(* The gate runs once (max_attempts = 1): Orchestrator has the retries,    *)
(* RunRegistry the review.                                                 *)
(***************************************************************************)
EXTENDS Retrieval, KnowledgeBase, Grounding, Chains

CONSTANTS
    Inputs,      \* bound: system models, functions from asset ids to assets
    AssetOrder,  \* the assets in the order of the input
    InitialKbs,  \* contents of the table at the start
    Answers,     \* bound: the kinds of answer the model gives
    MaxOdd,      \* bound: paths with an answer other than "down"
    Foreign      \* a pattern the model may cite though it was not given it

VARIABLES
    input,       \* ThreatAgentInput.assets
    phase,       \* where the analysis is
    stamp,       \* kb_snapshot_version of the scenarios, Unknown for "latest"
    connected,   \* the connection of the fetch is open
    tagged,      \* kb_is_tagged
    at,          \* index of the asset that is being fetched
    hits,        \* rows read for it
    cats,        \* STRIDE categories still to be queried for it
    lists,       \* candidates of the assets before it
    candidates,  \* what fetch_candidates returned, and so the attack paths
    stub,        \* history: they are the orchestrator's own
    consulted,   \* history: the contents the queries ran on
    scenarios,   \* generated, with the verdict of the gate
    approved,    \* indices of the scenarios the reviewer approved
    chains       \* the chains proposed

fetchvars == <<connected, tagged, at, hits, cats, lists>>
outvars == <<scenarios, approved, chains>>
vars == <<kbvars, fetchvars, outvars, input, phase, stamp, candidates, stub, consulted>>

Phases == {"idle", "open", "pool", "stride", "fetched", "paths", "generated",
           "reviewed", "done", "failed"}

ASSUME PipelineAssumption ==
    /\ Inputs # {} /\ \A m \in Inputs : \A a \in DOMAIN m : m[a] \in Asset
    /\ \A m \in Inputs : DOMAIN m = ToSet(AssetOrder)
    /\ AssetOrder \in Seq(STRING) /\ IsInjective(AssetOrder)
    /\ AssetOrder # <<>>                      \* assets: min_length = 1
    /\ \A i \in DOMAIN AssetOrder : AssetOrder[i] # ""   \* asset_id: min_length = 1

(* The data: ids that are more than dashes, rows as the schema of the table*)
(* has them, and no two patterns at the same distance from one asset.      *)
IsPatternId(pid) == pid \in Seq(ToSet(pid)) /\ \E i \in DOMAIN pid : pid[i] # "-"
Similarities == [ToSet(AssetOrder) -> -100..100]
Rows == [source : Sources, stride : Stride \cup {NoStride}, tags : SUBSET Tags,
         sim : Similarities]
IsTable(table) ==
    /\ IsFiniteSet(DOMAIN table) /\ \A p \in DOMAIN table : IsPatternId(p)
    /\ table \in [DOMAIN table -> Rows]

ASSUME EntryAssumption ==
    /\ SeedData \in Seq(ToSet(SeedData)) /\ FullData \in Seq(ToSet(FullData))
    /\ \A e \in ToSet(SeedData) \cup ToSet(FullData) :
        /\ IsPatternId(e.pid) /\ e.source \in Sources /\ e.hint \in Stride \cup {NoStride}
        /\ e.hits \in [Stride -> Nat] /\ e.tags \in SUBSET Tags /\ e.sim \in Similarities

ASSUME TableAssumption == \A table \in InitialKbs : IsTable(table)

Embeddings ==
    {<<e.pid, e.sim>> : e \in ToSet(SeedData) \cup ToSet(FullData)}
        \cup UNION {{<<p, table[p].sim>> : p \in DOMAIN table} : table \in InitialKbs}

ASSUME DistanceAssumption ==
    \A e, f \in Embeddings : e[1] # f[1] => \A a \in ToSet(AssetOrder) : e[2][a] # f[2][a]

(* No id ends in another one, or in a technique of ATT&CK without prefix.  *)
StubId == <<"CWE", "-", "30", "6">>
PatternIds == {e[1] : e \in Embeddings} \cup {StubId}

ASSUME IdAssumption ==
    /\ Foreign \in Seq(ToSet(Foreign))
    /\ \A p, q \in PatternIds : p # q =>
        /\ ~IsSuffix(Norm(q), Norm(p))
        /\ q[1] = "ATT&CK" => ~IsSuffix(Norm(SubSeq(q, 3, Len(q))), Norm(p))

Init ==
    /\ \E table \in InitialKbs : KbInit(table)
    /\ input \in Inputs
    /\ phase = "idle"
    /\ stamp = Unknown
    /\ connected = FALSE /\ tagged = FALSE /\ at = 0
    /\ hits = <<>> /\ cats = <<>> /\ lists = <<>>
    /\ candidates = <<>> /\ stub = FALSE /\ consulted = {}
    /\ scenarios = <<>> /\ approved = {} /\ chains = {}
----------------------------------------------------------------------------
(* The stamps are made before anything is retrieved.                       *)
Begin ==
    /\ phase = "idle"
    /\ LookUp
    /\ stamp' = Fingerprint
    /\ phase' = "open"
    /\ UNCHANGED <<kb, database, reachable, used, fetchvars, outvars, input,
                   candidates, stub, consulted>>

OpenFetch ==
    /\ phase = "open"
    /\ reachable
    /\ connected' = TRUE
    /\ tagged' = IsTagged(kb)
    /\ at' = 1
    /\ phase' = "pool"
    /\ UNCHANGED <<kbvars, outvars, hits, cats, lists, input, stamp, candidates, stub,
                   consulted>>

Current == AssetOrder[at]
CurrentSources == QuerySources(input[Current], tagged)

QueryPool ==
    /\ phase = "pool"
    /\ connected
    /\ LET rows == PoolQuery(kb, Current, CurrentSources)
       IN  /\ hits' = Pool(rows)
           /\ cats' = IF UseRerank(rows) /\ StrideSlots > 0
                      THEN ImpliedStride(input[Current]) ELSE <<>>
    /\ consulted' = consulted \cup {kb}
    /\ phase' = "stride"
    /\ UNCHANGED <<kbvars, outvars, connected, tagged, at, lists, input, stamp,
                   candidates, stub>>

QueryStride ==
    /\ phase = "stride"
    /\ connected
    /\ cats # <<>>
    /\ hits' = AddNew(hits, StrideQuery(kb, Current, CurrentSources, Head(cats)))
    /\ cats' = Tail(cats)
    /\ consulted' = consulted \cup {kb}
    /\ UNCHANGED <<kbvars, outvars, phase, connected, tagged, at, lists, input, stamp,
                   candidates, stub>>

NextAsset ==
    /\ phase = "stride"
    /\ cats = <<>>
    /\ lists' = Append(lists, AssetCandidates(input[Current], Current, hits))
    /\ hits' = <<>>
    /\ IF at = Len(AssetOrder)
       THEN phase' = "fetched" /\ at' = 0
       ELSE phase' = "pool" /\ at' = at + 1
    /\ UNCHANGED <<kbvars, outvars, connected, tagged, cats, input, stamp, candidates,
                   stub, consulted>>

(* The connection is given back; then an asset without candidates raises   *)
(* EmptyKBMatchError, otherwise every candidate is a path of one step      *)
(* (attack_chain.build_paths).                                             *)
BuildPaths ==
    /\ phase = "fetched"
    /\ connected
    /\ IF \E i \in DOMAIN lists : lists[i] = <<>>
       THEN phase' = "failed" /\ UNCHANGED candidates
       ELSE phase' = "paths" /\ candidates' = FinalList(lists)
    /\ lists' = <<>>
    /\ connected' = FALSE
    /\ UNCHANGED <<kbvars, outvars, tagged, at, hits, cats, input, stamp, stub, consulted>>

(* KBStoreUnreachableError, of a query or of the commit when the connection*)
(* is given back: one candidate for each asset, made up by                 *)
(* orchestrator._execute_retrieval_and_chaining.                           *)
StubCandidate(a) ==
    [pid |-> StubId, asset |-> a, stride |-> "ElevationOfPrivilege",
     score |-> 168, key |-> 168]

FallBackToStubs ==
    /\ \/ phase = "open" /\ ~reachable
       \/ phase = "pool" /\ ~connected
       \/ phase = "stride" /\ ~connected /\ cats # <<>>
       \/ phase = "fetched" /\ ~connected
    /\ candidates' = [i \in DOMAIN AssetOrder |-> StubCandidate(AssetOrder[i])]
    /\ stub' = TRUE
    /\ phase' = "paths"
    /\ at' = 0 /\ hits' = <<>> /\ cats' = <<>> /\ lists' = <<>> /\ connected' = FALSE
    /\ UNCHANGED <<kbvars, outvars, tagged, input, stamp, consulted>>
----------------------------------------------------------------------------
(* What the model answers for a path: nothing, the pattern under part of   *)
(* its id, a pattern it was not given, an exposure the asset does not have;*)
(* "down" is a failed call, which the deterministic fallback stands in for.*)
Cite(item, ref) ==
    [item EXCEPT !.ref = ref, !.matched = ref,
                 !.citation = [text |-> "text", names |-> {RefCore(ref)}]]

Items(kind, candidate) ==
    LET item == Fallback(candidate, input[candidate.asset])
    IN  CASE kind = "none"    -> <<>>
          [] kind = "part"    -> <<Cite(item, <<Last(candidate.pid)>>)>>
          [] kind = "foreign" -> <<Cite(item, Foreign)>>
          [] kind = "vague"   -> <<[item EXCEPT !.exposure = {"surface"}]>>
          [] OTHER            -> <<item>>

Scenarios(answer) ==
    LET judged(i) ==
            LET items == Items(answer[i], candidates[i])
            IN  [n \in DOMAIN items |->
                    [item |-> items[n], path |-> i, by |-> answer[i],
                     passed |-> Passes(items[n], candidates[i].pid, input)]]
    IN  FlattenSeq([i \in DOMAIN candidates |-> judged(i)])

Generate ==
    /\ phase = "paths"
    /\ \E answer \in [DOMAIN candidates -> Answers] :
        /\ Cardinality({i \in DOMAIN answer : answer[i] # "down"}) <= MaxOdd
        /\ scenarios' = Scenarios(answer)
    /\ phase' = "generated"
    /\ UNCHANGED <<kbvars, fetchvars, approved, chains, input, stamp, candidates, stub,
                   consulted>>

(* An answer that does not parse, or that the schema refuses, is raised.   *)
GenerateFails ==
    /\ phase = "paths"
    /\ phase' = "failed"
    /\ UNCHANGED <<kbvars, fetchvars, outvars, input, stamp, candidates, stub, consulted>>

(* The reviewer may approve a scenario that the gate has only flagged.     *)
Review ==
    /\ phase = "generated"
    /\ approved' \in SUBSET DOMAIN scenarios
    /\ phase' = "reviewed"
    /\ UNCHANGED <<kbvars, fetchvars, scenarios, chains, input, stamp, candidates, stub,
                   consulted>>

Threats ==
    LET order == Ordered(approved, LAMBDA i, j : i < j)
    IN  [n \in DOMAIN order |-> scenarios[order[n]].item]
Surfaces == [a \in DOMAIN input |-> input[a].flows \cup input[a].interfaces]

Propose ==
    /\ phase = "reviewed"
    /\ chains' = ProposeChains(Threats, Surfaces)
    /\ phase' = "done"
    /\ UNCHANGED <<kbvars, fetchvars, scenarios, approved, input, stamp, candidates, stub,
                   consulted>>
----------------------------------------------------------------------------
(* The world around the analysis.                                          *)
Build ==
    /\ BuildSeed \/ BuildFull
    /\ UNCHANGED <<fetchvars, outvars, input, phase, stamp, candidates, stub, consulted>>

(* An outage ends the connections that are open; after the fetch no step   *)
(* of an analysis opens one.                                               *)
LoseDatabase ==
    /\ phase \in {"idle", "open", "pool", "stride", "fetched"}
    /\ Outage
    /\ connected' = FALSE
    /\ UNCHANGED <<outvars, tagged, at, hits, cats, lists, input, phase, stamp, candidates,
                   stub, consulted>>

Probe ==
    /\ Ready \/ Recover
    /\ UNCHANGED <<fetchvars, outvars, input, phase, stamp, candidates, stub, consulted>>

(* The analysis ends with the process; before it begins, nothing is lost.  *)
Restart ==
    /\ phase \in {"idle", "open", "pool", "stride", "fetched", "paths"}
    /\ Count("restarts", MaxRestarts)
    /\ ForgetVersion
    /\ phase' = IF phase = "idle" THEN phase ELSE "failed"
    /\ connected' = FALSE
    /\ candidates' = <<>>
    /\ UNCHANGED <<kb, database, reachable, tagged, at, hits, cats, lists, outvars, input,
                   stamp, stub, consulted>>

Ended == phase \in {"done", "failed"}
Terminated == Ended /\ UNCHANGED vars

Analysis ==
    \/ Begin \/ OpenFetch \/ QueryPool \/ QueryStride \/ NextAsset \/ BuildPaths
    \/ FallBackToStubs \/ Generate \/ GenerateFails \/ Review \/ Propose

Next == Analysis \/ Build \/ LoseDatabase \/ Probe \/ Restart \/ Terminated

Spec == Init /\ [][Next]_vars
----------------------------------------------------------------------------
(* Types; the candidates of an asset are TopK at most, each pattern once.  *)
TypeOK ==
    /\ phase \in Phases
    /\ {reachable, connected, tagged, stub} \subseteq BOOLEAN
    /\ \A p \in DOMAIN kb : kb[p].source \in Sources /\ kb[p].stride \in Stride \cup {NoStride}
    /\ at \in 0..Len(AssetOrder) /\ ToSet(cats) \subseteq Stride
    /\ \A i \in DOMAIN candidates :
        /\ candidates[i].asset \in DOMAIN input /\ candidates[i].score \in 0..200
        /\ candidates[i].key \in Int /\ candidates[i].stride \in Stride \cup {NoStride}
    /\ \A a \in DOMAIN input :
        LET own == {i \in DOMAIN candidates : candidates[i].asset = a}
        IN  /\ Cardinality(own) <= TopK
            /\ \A i, j \in own : candidates[i].pid = candidates[j].pid => i = j
    /\ \A i \in DOMAIN scenarios :
        /\ scenarios[i].path \in DOMAIN candidates
        /\ scenarios[i].passed \in BOOLEAN
    /\ approved \subseteq DOMAIN scenarios

(* Every STRIDE category that the attributes of an asset imply, and for    *)
(* which the searched sources have a pattern, has a candidate for that     *)
(* asset, when slots are reserved, there are places for all categories, the*)
(* pool holds some tagged row, and no build came between the queries       *)
(* (select_top, the extra queries of fetch_candidates).                    *)
StrideReachesReview ==
    \A table \in consulted :
        consulted = {table} /\ ~stub /\ candidates # <<>> =>
          \A a \in DOMAIN input :
            LET implied == ImpliedStride(input[a])
                sources == QuerySources(input[a], tagged)
                own == {candidates[i] : i \in {j \in DOMAIN candidates : candidates[j].asset = a}}
            IN  /\ StrideSlots > 0 /\ Len(implied) <= TopK
                /\ UseRerank(PoolQuery(table, a, sources))
                => \A category \in ToSet(implied) :
                     (\E p \in DOMAIN table : table[p].source \in sources
                                              /\ table[p].stride = category)
                     => \E c \in own : c.stride = category

(* The deterministic fallback passes the whole gate, as its docstring      *)
(* guarantees, for every pattern and stub it can be asked about, if some   *)
(* interface of the asset or its trust zone is a word that the grounding   *)
(* check does not drop.                                                    *)
FallbackPasses ==
    \A i \in DOMAIN scenarios :
        LET s == scenarios[i]
            asset == input[candidates[s.path].asset]
        IN  s.by = "down" /\ Words(asset.interfaces \cup {asset.trust_zone}) # {} => s.passed

(* kb_snapshot_version is the "KB snapshot version used for retrieval"     *)
(* (schemas.py): unless the candidates are the orchestrator's own, the     *)
(* version stamped on the scenarios, if it is known, is the version of     *)
(* what the queries read. The code does not keep it: the version is looked *)
(* up first, and a build may commit before the queries or between them.    *)
StampsAreTrue ==
    scenarios # <<>> /\ ~stub /\ stamp # Unknown
        => {Version(table) : table \in consulted} = {stamp}

(* The two tolerances agree: a scenario that passes the gate and whose     *)
(* reference resolves in the knowledge base (kb_reference_exists) resolves *)
(* to the pattern retrieved for its path, to no other.                     *)
GroundedIsRetrieved ==
    \A i \in DOMAIN scenarios :
        LET s == scenarios[i]
        IN  s.passed => Variants(s.item.ref) \cap DOMAIN kb
                            \subseteq {candidates[s.path].pid}

(* What an approved scenario cites stays in the knowledge base whatever is *)
(* built into it later, if it was retrieved from there and cited in full.  *)
CitedStaysKnown ==
    \A i \in approved :
        ~stub /\ scenarios[i].item.ref = candidates[scenarios[i].path].pid
            => KbReferenceExists(kb, scenarios[i].item.ref)

(* Every pair of approved threats of which one can enable the other is a   *)
(* step of some proposed chain: walk() and _drop_contained lose none.      *)
ChainsCoverEveryLink ==
    phase = "done" =>
        \A i \in DOMAIN Threats : \A j \in Following(Threats, Surfaces, i) :
            \E c \in chains : \E n \in 1..(Len(c) - 1) : c[n] = i /\ c[n + 1] = j
=============================================================================
