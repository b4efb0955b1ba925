--------------------------- MODULE KnowledgeBase ----------------------------
(***************************************************************************)
(* The table threat_patterns: how the two build scripts of kb/scripts fill *)
(* it from the data files, and how a process names the content it has      *)
(* (common/kb_version.py).                                                 *)
(*                                                                         *)
(* A pattern id is a sequence of tokens, <<"CWE", "-", "306">>, and holds  *)
(* its source: a row is found by its id.  A row keeps what retrieval reads:*)
(* source, STRIDE hint, domain tags, and the similarity of its embedding   *)
(* to each asset.                                                          *)
(***************************************************************************)
EXTENDS Selections, FiniteSetsExt

CONSTANTS
    SeedData,    \* kb/data/*_seed.json, in the order of _LOADER_MAP: raw entries
    FullData,    \* the MITRE catalogues and the STRIDE seed, in loading order
    Databases,   \* names DATABASE_URL may end in
    MaxBuilds,   \* bound: builds
    MaxOutages,  \* bound: times the database becomes unreachable
    MaxRestarts  \* bound: restarts of the process

VARIABLES
    kb,          \* threat_patterns: id -> row
    database,    \* the database that DATABASE_URL names
    reachable,   \* a connection can be opened
    cached,      \* what lru_cache holds of kb_fingerprint
    used         \* how much of the bounds is used

kbvars == <<kb, database, reachable, cached, used>>

EmptyKb == [p \in {} |-> 0]
NotCached == [known |-> FALSE, version |-> EmptyKb]   \* kb_fingerprint not called yet
Unknown == EmptyKb                                    \* kb_fingerprint returned None
----------------------------------------------------------------------------
(* Loading.  A raw entry: id, source, hint (seed) or hits, the score of    *)
(* each STRIDE keyword rule (catalogue), the tags of its text, and form,   *)
(* what is wrong with it.                                                  *)
Forms == {"good", "malformed", "deprecated", "empty", "ics"}
StrideOrder == <<"Spoofing", "Tampering", "Repudiation", "InformationDisclosure",
                 "DenialOfService", "ElevationOfPrivilege">>

(* The first category with the highest score, of 2 at least.               *)
InferStride(hits) ==
    LET best == Max({hits[c] : c \in DOMAIN hits})
    IN  IF best < 2 THEN "None"
        ELSE StrideOrder[Min({i \in DOMAIN StrideOrder : hits[StrideOrder[i]] = best})]

(* A seed entry that does not validate raises: the whole build ends.       *)
SeedRaises(data) == \E i \in DOMAIN data : data[i].form \in {"malformed", "empty"}

SeedRow(entry) ==
    [source |-> entry.source, stride |-> entry.hint, tags |-> {}, sim |-> entry.sim]

(* Catalogue entries that are deprecated, or lack a title or text, are     *)
(* passed over; a tag that all ICS techniques get is added.                *)
CatalogueEntries(data) ==
    Picked(data, {i \in DOMAIN data : \/ data[i].source = "STRIDE"
                                       \/ data[i].form \notin {"deprecated", "empty"}})

IcsIds(data) == {data[i].pid : i \in {j \in DOMAIN data : data[j].form = "ics"}}

FullRow(data, entry) ==
    [source |-> entry.source,
     stride |-> IF entry.source = "STRIDE" THEN entry.hint ELSE InferStride(entry.hits),
     tags |-> entry.tags \cup {t \in {"ics"} : entry.pid \in IcsIds(data)},
     sim |-> entry.sim]

(* Entries with an id seen before are dropped.                             *)
Ids(data) == {data[i].pid : i \in DOMAIN data}
FirstWith(data, p) == data[Min({i \in DOMAIN data : data[i].pid = p})]

SeedEntries == [p \in Ids(SeedData) |-> SeedRow(FirstWith(SeedData, p))]
FullEntries == LET data == CatalogueEntries(FullData)
               IN  [p \in Ids(data) |-> FullRow(data, FirstWith(data, p))]

(* Mutant: the table is emptied before the entries are written.            *)
MutantUpsert(table, entries) == entries

(* INSERT ... ON CONFLICT DO UPDATE, committed once for all entries.       *)
Upsert(table, entries) ==
    [p \in DOMAIN table \cup DOMAIN entries |->
        IF p \in DOMAIN entries THEN entries[p] ELSE table[p]]
----------------------------------------------------------------------------
(* The version of a content: its rows without their embeddings.  The       *)
(* number of rows is part of the version, their order follows from it.     *)
Version(table) ==
    [p \in DOMAIN table |->
        [source |-> table[p].source, stride |-> table[p].stride, tags |-> table[p].tags]]

(* The fingerprint that a call returns now, the cached one if there is one *)
(* (None is cached as well).                                               *)
Fingerprint ==
    IF cached.known THEN cached.version
    ELSE IF reachable THEN Version(kb) ELSE Unknown

LookUp == cached' = [known |-> TRUE, version |-> Fingerprint]

KbInit(table) ==
    /\ kb = table
    /\ database \in Databases
    /\ reachable = TRUE
    /\ cached = NotCached
    /\ used = [builds |-> 0, outages |-> 0, restarts |-> 0]

Count(what, max) ==
    /\ used[what] < max
    /\ used' = [used EXCEPT ![what] = @ + 1]

(* python -m kb.scripts.build_index: not into a database named fullkb.     *)
BuildSeed ==
    /\ Count("builds", MaxBuilds)
    /\ reachable
    /\ database # "trc_engine_fullkb"
    /\ kb' = IF SeedRaises(SeedData) \/ SeedData = <<>> THEN kb ELSE Upsert(kb, SeedEntries)
    /\ UNCHANGED <<database, reachable, cached>>

(* python -m kb.scripts.build_full_index: not into the seed database; the  *)
(* STRIDE entries are seed entries and raise as those do.                  *)
BuildFull ==
    /\ Count("builds", MaxBuilds)
    /\ reachable
    /\ database # "trc_engine"
    /\ kb' = IF SeedRaises(SelectSeq(FullData, LAMBDA e : e.source = "STRIDE"))
             THEN kb ELSE Upsert(kb, FullEntries)
    /\ UNCHANGED <<database, reachable, cached>>

(* /ready asks for the fingerprint: the first call fills the cache.        *)
Ready == LookUp /\ UNCHANGED <<kb, database, reachable, used>>

Outage ==
    /\ Count("outages", MaxOutages)
    /\ reachable
    /\ reachable' = FALSE
    /\ UNCHANGED <<kb, database, cached>>

Recover ==
    /\ ~reachable
    /\ reachable' = TRUE
    /\ UNCHANGED <<kb, database, cached, used>>

ForgetVersion == cached' = NotCached
----------------------------------------------------------------------------
(* kb_reference_exists: a reference is looked up as it is, with the prefix *)
(* of ATT&CK if it has none, and with that prefix written properly, without*)
(* the dashes at both ends of the rest.                                    *)
HasPrefix(ref) ==
    Len(ref) > 1 /\ ref[1] \in {"ATT&CK", "CAPEC", "CWE", "STRIDE"} /\ ref[2] = "-"

Stripped(s) ==
    Picked(s, {i \in DOMAIN s : /\ \E j \in 1..i : s[j] # "-"
                                /\ \E j \in i..Len(s) : s[j] # "-"})

Variants(ref) ==
    LET attck == <<"ATT&CK", "-">>
    IN  {ref} \cup (IF HasPrefix(ref) THEN {} ELSE {attck \o ref})
              \cup (IF ref # <<>> /\ ref[1] = "ATT&CK"
                    THEN {attck \o Stripped(Tail(ref))} ELSE {})

KbReferenceExists(table, ref) == Variants(ref) \cap DOMAIN table # {}
=============================================================================
