# TLA+ models of the TRC engine

The TRC engine is a FastAPI service in which three agents work on one shared
state: the *threat agent* proposes threat scenarios for a product and a person
approves, edits or rejects them; the *risk agent* rates approved threats; the
*compliance agent* maps rated risks to attack-resistance requirements. What
people approved must never be lost, overwritten unseen, or stored without its
history. The hard part is who does what when: requests in several worker
processes, a JSON file shared by all of them, a run registry in Postgres, a
language model that answers slowly, wrongly or not at all, and processes that
stop half way. On top of it are chains of derived decisions, where a record has
to be redone when what it was derived from changes.

This directory holds TLA+ modules of that part, TLC configurations that check
them on small instances, and proofs for every size where we have them.
`PROJECT.json` names, per definition, the source lines it stands for.

Run from this directory:

    tlc -config ScrsStore.cfg MCScrsStore.tla      # any run of the table below
    tlapm Scrs_proofs.tla                          # the proofs
    tlapm LlmClient_proofs.tla
    tlapm Assessment_proofs.tla
    tlapm ReviewTools_proofs.tla
    tlapm RunRegistry_proofs.tla
    tlapm Selections_proofs.tla
    tlapm Orchestrator_proofs.tla
    tlapm Pipeline_proofs.tla                      # several minutes, as ReviewTools_proofs

## 1. Inventory

| Component (source) | State it keeps | Operations | Hard behaviour | What makes it correct |
|---|---|---|---|---|
| SCRS save protocol (`scrp/state_manager.py` `_load`, `_persist`, `_lock`) | `SCRS_state.json`, `.tmp`, `.bak`, `.json.lock`; one in-memory copy per `StateManager` | load, stage, lock, check version, write, back up, rename, release | processes interleave at each file-system call, crash, meet stale locks, disk full | one saver at a time; no returned save is lost; file never torn; backup at most one save behind; saves end |
| SCRS records (`state_manager.py` public methods; risk and compliance routers; `*/staleness.py`; `scrp/trace.py`) | approved threats, risks, mappings; revision history; audit log with content hashes | commit run, approve risks, confirm mappings, reject, retire stale, verify, trace | outdated copies; one request with several items; order of supersede, retire, approve | audit consistent; approved content is active or in the history; a gap in the trace opens only for a reason the file shows |
| Run registry and review handlers (`threat_agent/run_store.py`, `router.py`) | one Postgres row per run: status, scenarios, counts, rejection and edit history | analyze, approve, reject (regenerate or escalate), prune, add, restore | each handler is several steps across two stores and a model call; several reviewers | one approval wins; pruned scenarios stay out; the documented life of a run |
| Orchestrator (`threat_agent/orchestrator.py`, ids from `generator.py`, `grounding.py`) | the scenario list of one call, verdicts by tid, paths to retry | generate, validate, retry all or only failed paths, merge | answers of any length; ids made again in a partial retry | the stamp of a scenario is true of it; ids unique; no threat of another path lost |
| LLM client (`common/llm_client.py`) | two failure counters, loop variable | one call with retries | rate limits, 5xx, dropped connections, timeouts in any mixture | budgets separate; bounded waiting; always returns or raises |
| Validator, grounding, fallback (`validator.py`, `grounding.py`, `generator.py`) | none | four checks of a scenario; the scenario made without the model | word lists of three modules have to agree | the fallback passes the gate; what passes is about the pattern retrieved |
| Attack paths, chains, scorer (`attack_chain.py`, `chains.py`, `scorer.py`) | none (cached rule table) | build, link, score | graph walk, dropping of contained chains | every link between approved threats is in some chain |
| Threat staleness, projects (`staleness.py`, `project.py`) | none | compare fingerprints, expand a project | the same threat under two use cases | what changed is stale, nothing else |
| Retrieval, reranking (`retrieval.py`, `rerank.py`) | Postgres/pgvector tables (read) | pool and category queries, reranking, reserved places | many statements over a table that a build changes; cuts after cuts | an implied STRIDE category that has a pattern reaches the reviewer |
| Risk engine, suggester, report (`risk_agent/engine.py` ...) | rating tables; a risk per threat | score, rank, treat, retire | thresholds, ties, an adjusted risk | no less risk for more impact or an easier attack; ranks 1..n by effective risk; Retain keeps the risk |
| Compliance engine, explainer (`compliance_agent/engine.py` ...) | rule table; a mapping per risk | propose, confirm, retire, protection targets | precedence of rules; what a mapping depends on and what its fingerprint holds | class meets every rule that applies or says it is overridden; a mapping is stale when its risk changed |
| Integrity chain, read API (`scrp/integrity.py`, `scrp/router.py`) | hashes in the audit log | seal, verify, diff | - | a changed entry is found |
| Start-up, readiness, KB version (`common/startup.py`, `kb_version.py`, `db.py`) | cached fingerprint per process | check, `/ready` | cache against a knowledge base that changes | a stamp names the content that was read (it need not, section 4) |
| Authentication, redaction, logging, settings (`common/*`, `config/`) | configuration | look-ups, string processing | - | - |
| KB loaders (`kb/`, `kb_package/`) | table `threat_patterns` | seed build, full build | two builds that share rows and never delete | what approved scenarios cite stays known |
| Review in a terminal (`scripts/scrp_demo.py`) | `SCRS_demo.json`; a session in memory | staleness, retire, generate, review, add, write | interruption anywhere; several saves per session; a project that is edited between sessions | only what the reviewer let through is saved; nothing approved disappears; nothing is proposed twice; no asset is left out |
| Guided demo (`scripts/demo_cli.py`) | one scenario on show and its siblings | menu, expert scenario, gate | batches replace each other under one variable | only the scenario shown last is saved |

How they interact: a request handler makes one `StateManager` (dependency
`get_state_manager`), which loads the whole file; the handler calls the run
store, the orchestrator (which calls the generator, which calls the LLM
client) and methods of its `StateManager`, each of which saves the whole copy.
Handlers share nothing but the Postgres row and the JSON file. The threat
handlers are `async def` without an `await` before their effects, so within one
process they run one after the other from their first statement on, but their
dependencies run in a thread pool, risk and compliance handlers are plain `def`
(thread pool), and the deployment allows several worker processes
(docs/threat_agent.md:340). The models therefore interleave handlers at every
step on shared data.

## 2. Modules

    DecisionLog  <--refined by--  ScrsStore  <--EXTENDS--  Scrs_proofs
                                     |
              (its saves are one step in) ScrsRecords, RunRegistry
    ScrsRecords  <--EXTENDS--  Scrs_proofs
    ReviewCycle  <--refined by--  RunRegistry  <--EXTENDS--  RunRegistry_proofs
                                     |
             (its generator calls are)  Orchestrator --> LlmClient <-- LlmClient_proofs
    Selections  <--EXTENDS--  Orchestrator  <--EXTENDS--  Orchestrator_proofs
    Selections  <--EXTENDS--  Selections_proofs
              (lemmas for Scrs_proofs and for the proofs about the modules that use Selections)
    RiskRules  <--EXTENDS--  Assessment  <--EXTENDS--  Assessment_proofs
              (what the records of ScrsRecords say, one request after another)
    Selections  <--EXTENDS--  Retrieval, KnowledgeBase, Grounding
    Retrieval, KnowledgeBase, Grounding, Chains
              <--EXTENDS--  Pipeline  <--EXTENDS--  Pipeline_proofs
              (where the candidates and the verdicts of Orchestrator come from)
    Selections  <--EXTENDS--  ScrpDemo
    ScrpDemo, DemoCli  <--EXTENDS--  ReviewTools  <--EXTENDS--  ReviewTools_proofs
              (terminal clients of the same pipeline and store)
    MC*  instantiate each of them for TLC

**`ScrsStore`** - one save, call by call. `file`, `tmp`, `bak`, `lock` are the
four paths (a missing state file reads as version 0, as in `_load`); `pc[w]` is
the place of manager `w` in `_persist`; `mem[w]` its copy. A document is its
version and the set of decisions in it. `Denied`/`SeeStale`/`Unlink`/`Sleep`/
`GiveUp` are the turns of the loop in `_lock`; `CheckVersion`, `WriteTmp`,
`Backup`, `Rename`, `Release` the body of `_persist`; write, copy and rename may
fail; `Crash` stops a process anywhere, leaving a torn temp or backup file and
its lock. Two constants state timing: `MayStall` (a live holder may exceed the
60 s after which others call its lock stale) and `AtomicBreak` (nothing happens
between a waiter's `stat` and its `unlink`).

**`DecisionLog`** - what the file promises: a log, and a save appends one change
or does nothing. `ScrsStore!ImplementsDecisionLog` is the refinement.

**`ScrsRecords`** - the content. `doc` is the file, `copy[m]` the copy of the
request `m`; a save is one step, refused if the file is newer. Records are
compared as the code compares them (the rank of a risk is volatile). A hash is
its content. `ApproveRisks`, `ConfirmMappings`, `CommitRun`, the three
`Retire...` and `RejectRisk` are whole requests including `_persist`.

**`RunRegistry`** - one run: the row, the shared state as far as it concerns the
run, and review requests that are a few steps each (`Start` loads the shared
state, then for example `RejectRead`, `RejectLog`, `Regenerate`). `Abort` is an
early answer, an exception or a killed process at any point. `Resubmit` and
`OneReviewer` switch two uses on and off that the documentation does not
foresee; what then goes wrong is in section 4.

**`ReviewCycle`** - the documented life of a run, without requests: open a run,
edit its list, reject it (the last rejection ends it), approve it, store the
approved list. Terminal states stay.

**`Orchestrator`** - the generate-validate-retry loop of one call. The model's
answer is any list of scenarios per path, each with the verdict the checks would
give it; tids are numbered through the call as `generate_scenarios` does, and
`MergeRetried` is `_merge_retried`.

**`Selections`** - no component, but what five of them are written with: a set
listed in an order (`Ordered`, for `sorted`), the elements at given positions
(`Picked`, for a comprehension with a condition), and a slice (`First`). All are
told by ranks, because nothing can be proved about `SelectSeq` and `SortSeq`.

**`LlmClient`** - one call of the language model: its answers are one of eight
kinds, 429 with any `Retry-After`; two counters, a loop range and sleeps.

**`RiskRules`** - the pure part of the risk and compliance engines: how ratings
become a score (`Score`), what a decision makes of it (`Treated`, refused unless
`Treatable`), the order of risks (`RanksBefore`), the class the rules suggest
(`SuggestedClass`), the confirmation (`Confirmed`). The tables of `ratings.json`
and `rules.json` are constants, constrained only by what `Ratings` and `Rules`
check when they load them; `MCAssessment` gives them the values of the files.

**`Assessment`** - those rules at work. `design` is the asset table as the
caller has it; `threats` keeps for each approved threat the asset facts it was
made from, `risks` the score and decision, `mappings` the confirmed compliance
record. Its actions are the requests `/approve` and `/retire-stale` of the
three agents and `/confirm`; `StaleThreats`, `StaleRisks`, `Unscored`,
`StaleMappings` and `Unmapped` are the staleness reports. `ScrsRecords` has the
interleaving of these requests and their outdated copies; here each request is
one step and what the records say is exact.

**`KnowledgeBase`** - the table `threat_patterns`, the two builds that fill it
(`BuildSeed`, `BuildFull`: which entries each drops, tags, infers a STRIDE
category for or raises on; one upsert, one commit, no delete), the cached
fingerprint, outages and restarts. `Variants` is how a reference is looked up.

**`Retrieval`** - operators: the sources searched for an asset, the pool query,
the query of each STRIDE category its attributes imply, reranking by domain
tags, the reserved places (`Reserved`, in turns) and the cuts at `TopK`.

**`Grounding`** - operators: the four checks of the validator and those of the
grounding module on what they look at, and `Fallback`, the scenario that
`generator.py` makes when the model is down.

**`Chains`** - the rule table, `Following` (which threat can enable which) and
`ProposeChains`: the walk to maximal chains and the dropping of those contained
in others.

**`Pipeline`** - one analysis: start (stamp), open, one statement per step, build
the paths, generate, gate, review, chains; or `FallBackToStubs` when the
connection cannot be opened or is lost before it is given back. `Build`, `LoseDatabase`, `Probe` and `Restart`
may come between any two of these steps.

**`ScrpDemo`** - `scrp_demo.py` over several sessions: `Begin` (with `--fresh` or
not, live or from recordings), `AcceptStaleness`/`KeepStale`, one `Retire` per
reason, `RunPipeline`, the answers of `review_one` and `review_all` (`Approve`,
`Discard`, `ApproveAll`, `Quit`, `Regenerate`, `RegenerateNone`, `RejectLast`),
`AddExpert`, `WriteResults`. `EditProject` changes the input between sessions,
`Interrupt` ends a session anywhere. The gate is one outcome per path, the save
one step.

**`DemoCli`** - `demo_cli.py`: the menu over the siblings of a batch, the expert's
scenario, and the gate that asks for a new batch after each rejection.
**`ReviewTools`** puts the two side by side: a behaviour runs one of them.

### Assumptions, per module

* `ScrsStore`: a manager is not used after an exception (all callers drop it);
  writing the temp file is one step, torn if it fails or the process stops;
  `unlink` succeeds; a rename is atomic (POSIX `rename`; the retry on Windows in
  `_replace` is one step).
* `ScrsRecords`: the asset criticality a mapping uses is in `Assessment`;
  `/confirm` does not test `applies()`, and neither does either model. The levels
  in `Reduced` are those whose treatment is Reduce. There is one product, so the
  project and use-case filters of the retire-stale requests are left out.
  `RepeatTids` lets a request name a threat twice.
* `RiskRules`, `Assessment`: an asset is its number of required security
  properties, the part of its facts the rules read; the other facts and the
  use-case text change the fingerprints in the same way. Replacing an approved
  record has its `supersede_reason`. The stored rank of a risk is left out, as
  every reader ranks again (`RanksFollowRisk` is about that ranking). A tid
  holds a random path id, so the service does not bring one twice, but the
  store and the staleness code provide for it; `ReuseTids` switches it.
* `RunRegistry`: path ids and expert ids are random, so new scenarios are new;
  `Restore` (`set_run` in `_get_run_or_404`) is one step; an `edit_history`
  survives `create_run` as in the Postgres store (the in-memory store drops it).
* `Orchestrator`: a path id is the attempt that retrieved it and a number. The
  three digits `tid` allows (999) are `LastSeq`, shrunk to 3 so that TLC goes
  past it. A list the model leaves empty on every path "passes" with no scenario,
  as in the code. `validator_retry_count` is `MaxAttempts` on exhaustion although
  one retry fewer was made, as in the code.
* `Retrieval`, `Pipeline`: an embedding is what it is used for, a similarity of a
  pattern to an asset; the fingerprint leaves embeddings out, as in the code. Ids
  are more than dashes, and rows are as the schema of the table has them
  (`EntryAssumption`, `TableAssumption`). No two patterns are at the same distance
  from an asset (`DistanceAssumption`): it stands for the order, which SQL leaves
  open, of rows that `ORDER BY` does not tell apart. No id ends in another one, or
  in a technique of ATT&CK without its prefix (`IdAssumption`): each id of the data
  files begins with its source, and that occurs nowhere else in an id. TLC evaluates it all
  for the data of the run. A text is the set of words the code looks for in it. The
  answers of the model are of five kinds (`Items`), of which at most `MaxOdd` are
  other than the fallback's; an empty answer is accepted as in the code.
* `ScrpDemo`: the order in which assets come first is any order (it depends on
  scores); new scenarios get new ids (path ids are random). Retrieval lists a
  pattern once per asset, and there are finitely many assets. One approved
  scenario may cite its pattern by a part of the id (`ref = "part"`).
* `DemoCli`: a failed write or log entry is only printed, so each may or may not
  take effect. Scenarios are numbers.
* `LlmClient`: the client library's own retries are inside one answer. An answer
  without content raises `ValueError`, which nothing in the loop takes.

## 3. Runs that pass

| Run | Bounds | Shows |
|---|---|---|
| `scrs_store` | 3 managers, 3 changes, 2 crashes, 1 poll | nothing saved is lost, backup one behind at most, refinement of `DecisionLog` |
| `scrs_store_live` | 2 managers | every save ends; an orphaned lock is cleared |
| `scrs_records` | 2 requests at a time, 2 threats, 5 saves, 2 items per risk request, 1 per other | integrity, history, each new gap of the trace has its cause in the file, decisions are made on current data |
| `run_registry` | 3 requests, 3 scenarios, 2 rejections (3 in the code), 2 saves | pruned stays out, nothing dropped, refinement of `ReviewCycle` |
| `orchestrator` | the code's 3 attempts, 3 paths, 2 scenarios per path | true stamps, all tries made, other paths kept |
| `assessment` | 1 asset, 2 threats, 6 saves, 1 item per risk or mapping request, 3 ratings (13 and 20 points, and an expert's feasibility), 4 decisions, the code's tables | fresh mappings follow the rules, ranks follow the effective risk, quiet reports mean complete work |
| `llm_client` | the code's 3 attempts and 8 rate-limit retries, 5 values of `Retry-After` | separate budgets, bounded waits, return |
| `pipeline` | 2 assets (3 shapes), 4 seed and 8 catalogue entries, 2 places per asset, 2 builds, 1 outage, 1 restart, 1 answer other than the fallback's | implied categories reach the reviewer, the fallback passes the gate, short references resolve to what was retrieved, citations survive builds, chains keep every link |
| `review_tools` | 2 sessions, 1 edit, 2 assets with 2 and 1 patterns, 2 paths, 2 rejections (`MAX_REJECTIONS` is 3), 4 generations of which 1 is not "passed"; batches of 0 to 2, 3 refusals, 1 expert scenario | decisions stand, nothing approved is lost or proposed again, no asset left out, only the scenario on show is written |

*Why the bounds are enough.* A lock race needs a holder, a waiter that breaks
the lock and a waiter that breaks it again: three managers, and three changes
give each one save; two crashes give an orphan and a crash of the manager that
cleared it. Five saves take a threat and its risk through approve, supersede,
retire and approve again, or along threat, risk, mapping, an upstream change
and the retirement that follows; two requests at once are what an outdated copy
needs. The items of one request are independent of each other unless they name
one threat, so two of them in a risk request, where ranks differ, are enough.
Three requests let a rejection, an edit and an approval overlap, and with a cap
of two rejections three scenarios reach the cap and leave one more to generate
beyond it; `MaxVersion` 2 lets somebody else's save come before or after a
commit. With two scenarios per path and three paths the lists pass `LastSeq`.
Six saves take an asset's threat through approval, rating, mapping, an upstream
change, a retirement and a new decision; the items of a request touch one
threat each, and the proofs have requests of any size; two threats are what
ranks and comparisons of risks need; the three ratings hit both sides of both
thresholds, and the decisions adjust a risk, keep it, adjust it to itself, and
are refused.

In `pipeline`, two builds make a table that is first seed and then full content,
or change it between the queries of one analysis; the catalogue has an entry
listed twice, one that is deprecated and was a seed entry, an ICS technique, and
ids of which one ends another (`CWE-6`, `CWE-306`); with two places per asset and
up to four implied categories the cut at `TopK` bites, and the outage can come at
any statement. In `review_tools`, a session, an edit and a second session are
what staleness, the skip list and the choice of assets need; two rejections
reach the cap with one regeneration before it; two paths let one be refused and
the other waved through, and four generations give both sessions proposals and
one a regeneration. A third session would repeat the second. The proofs have any
number of sessions, paths, rejections and edits.

*Fairness.* `ScrsStore` assumes weak fairness of each manager inside a save and
of `Age` (time passes). No manager has to start a save or load, and nothing is
assumed of `Crash`. A process that is not killed is scheduled by the operating
system, so each of its steps happens; strong fairness of `Acquire` is not
needed, because waiters give up at a deadline. `LlmClient` assumes that a step
that can happen does: each request has a timeout, each sleep ends.

`CHECK_DEADLOCK FALSE` is used where the modelled thing ends: one call of the
orchestrator or of the LLM client, or when every bounded counter is used up.

## 4. Runs that end in a counterexample

Each of them checks one sentence of the repository; `PROJECT.json` quotes it.

* `scrs_store_race` (`NoLostUpdate`): with `AtomicBreak` false, two waiters see
  the same stale lock; the second removes the lock the first has taken. Both are
  then inside the save and one returned save is overwritten. "Safe for several
  processes on one host" needs `PromptLocks`.
* `run_registry_two_reviewers` (`CapHolds`): rejections in flight together.
* `orchestrator_retry` (`PassedOrFlagged`): a retried path that gets more
  scenarios than it had takes a number twice; a scenario that failed is stamped
  passed with the verdict of its namesake.

Further sentences that do not hold are kept as definitions and repeated by no run;
each is seen by naming it as an invariant of a run or by flipping a switch:

* `ApprovedIsStored` as an invariant of `RunRegistry.cfg`: approve, then the
  shared state cannot be saved; approved in the registry, stored nowhere, and
  nothing retries (router.py:667).
* `MappingFollowsAsset` as an invariant of `Assessment.cfg`: `risk_fingerprint`
  leaves out the criticality of the asset. A mapping confirmed while the asset
  was described with two security properties is reported fresh once it is back
  at three, with a class below the floor of a High asset.
* `RepeatTids = TRUE` in `ScrsRecords.cfg`: `ApprovedIsKept` fails. A risk or
  compliance request that lists a threat twice compares both items with the
  store before the request (state_manager.py:311), so the second replaces the
  first, whose approved content is in the audit log and in no history.
* `Resubmit = TRUE` in `RunRegistry.cfg`: `NothingDropped` fails. `/analyze` with
  a used run id overwrites the row of a finished run (router.py:525), where
  docs/technical_architecture_and_evolution.md:341 calls terminal states
  immutable.
* `StampsAreTrue` as an invariant of `Pipeline.cfg`: schemas.py:368 calls
  `kb_snapshot_version` the "KB snapshot version used for retrieval". It is looked
  up before the queries (orchestrator.py:176) and cached for the life of the
  process (kb_version.py:13), while each query reads the table as it is. A build
  that commits after the look-up gives scenarios of another content under the old
  version. The trace has a process that starts, looks up the version and queries
  the pool for the first asset; then a build commits, and the second asset is
  queried from the new table.
* `ApprovedOnceLive` without its condition `new.mode = "live"` fails: with
  recordings, the alternative for a rejected scenario is chosen without the skip
  list (scrp_demo.py:510-520), so a pattern approved in an earlier session can be
  approved again. Without `old.ref = "id"` it fails as well: the skip list holds
  the reference as the scenario cites it, and a pattern cited by a part of its id
  is proposed again, contrary to the message at scrp_demo.py:411-414.

Facts of the code that the models show and that no property of a run is about:
`all` in `scrp_demo.py` approves scenarios that were never displayed, flagged ones
too (`DecisionsStand` counts them as let through); an expert's scenario in
`demo_cli.py` takes the place of the generated one, which is then neither logged
nor reviewed, and its siblings are dropped with it; the orchestrator's stub
candidates, which `StampsAreTrue` leaves out, get the cached stamp though they
come from no knowledge base (orchestrator.py:62); `/ready` turns a missing fingerprint
into "ok" (startup.py:71).

## 5. Proofs

`Scrs_proofs`, second part (any set of managers and changes, any number of crashes
and polls; the save protocol of `ScrsStore`):

* `StoreTypeCorrect`: `StoreSpec => []StoreTypeOK`, whatever the timing.
* Under `PromptLocks` (`~MayStall /\ AtomicBreak`): `MutualExclusionHolds`,
  `SavedIsKeptHolds`, `BackupIsLastGoodHolds`, and `Refinement`
  (`StoreSpec => Log!Spec`). The run `scrs_store_race` shows that the assumption
  cannot be dropped.

None of the three properties is inductive. `IInv` adds: whoever is past the lock
is named in it and it is not stale (`LockInv`); a change is staged once
(`FreshInv`); a copy with the file's version differs from the file by its own
change at most, and what a manager has written to the temp file is the file plus
that change (`CopyInv`); the backup trails by at most one save, and between
backup and rename by none (`BackupInv`). Mutual exclusion is what makes `CopyInv`
stable: nobody else renames between the version check and the rename. Each of
`LockPreserved`, `FreshPreserved`, `CopyPreserved`, `BackupPreserved` and
`AckedPreserved` has one step per action; the refinement follows because every
action leaves the file alone except `Rename`, which by `CopyInv` appends.

`LlmClient_proofs` (any budgets, waits and behaviour of the service, assuming the
backoff doubles from 1): `TypeCorrect`, `NeverFallsThroughHolds`,
`GivesUpOnlyWhenSpentHolds`, `WaitBoundedHolds`. The invariant `Loop` relates
three counters the code keeps apart: while the call goes on, the turn is one more
than the failures so far and neither budget is spent, so the range of the `for`
loop, the sum of both budgets, is never used up. `WaitBounded` needs that the
backoffs before the n-th sum to less than twice the n-th (`BackoffPaidFor`).

`Assessment_proofs` (any assets, threats, inputs and decisions, any tables that
load): `TypeCorrect`, `FreshMappingFollowsRulesHolds`, `RetainKeepsTheRiskHolds`,
`QuietMeansCompleteHolds`, `RanksFollowRiskHolds`, and, for `TablesMonotone`
tables, `HarmlessIsNotRiskierHolds`. `IInv` adds to `TypeOK` where each record
comes from: a risk is `Derived` (overall impact, points, feasibility and risk
are those of its ratings by the tables) and `Retained` (Retain has its effective
risk as residual risk); a mapping `FollowsRules` for the risk, feasibility and
criticality it recorded. A mapping need not fit the risk of the same threat
now, which is why the invariant is about its own fingerprint: that the
fingerprint equals the current one is what the staleness report adds. The risk
comparison needs that totals that grow never find an earlier threshold
(`TablesMonotone`, which `MCAssessment` has TLC evaluate for the tables of the
repository). Ranks are 1..n because the sort key is a strict total order, by the
theorems on finite sets.

The suggested class is a fold over the lists of floors, and what a fold computes
needs induction over data, which is out of the prover's reach. The proofs take
from it the assumption `SuggestedIsAClass`, which TLC evaluates.

Three results are stated by theorems alone and by no run, since each is about one
state or one step (`ApprovedIsKept` is a fourth: for single items it follows from
`OverwritesAreKept`): `MutualExclusion`, `NeverFallsThrough`,
`RetainKeepsTheRisk`, and with them the operator theorem `HarmlessIsNotRiskier`.

`ReviewTools_proofs` (any projects, patterns, recordings, batches and limits; any
number of edits and sessions; all six properties of its run):

* `TypeCorrect`. The types of a state rest on facts about lists: that the proposals
  are a list of scenarios needs that what `Picked`, `First` and `Ordered` return is a
  list of what they were given (`LeftProperties`, `ChosenProperties`). `TypesInv` adds
  that a session that has begun has a use case, a mode and assets of the project, that
  the facts a scenario was made from are no newer than the project's edits
  (`ProjectTypes`), and that nothing is due for retirement once the review begins.

* `OnlyTheShownIsWrittenHolds`. `DemoInv` adds that the scenarios still in the
  batch are distinct, differ from the one on show and are in no log entry, and
  that the program is over once the last refusal is spent.
* `ApprovedIsNeverLostHolds`. `ClientInv` adds that every id in the store was given
  out and that nothing in the session's list or among its approvals bears an id
  of the store (`NewIds`); so the save at the end adds and never replaces. A
  regeneration keeps the id and changes the content, which is why the invariant
  speaks of ids and not of revisions.
* `DecisionsStandHolds`. `ReviewInv` adds that what is still to come in the list
  was not shown and is there once (`ToCome`), that refused and approved revisions
  were shown and are disjoint, and that what lies behind the place in the list is
  decided (`Decided`).
* `LeftOutIsCoveredHolds`. An asset is left out when some approved threat of it
  matches its facts (`Affected`); `LeftInv` adds that what is due when the user is
  asked is all that is stale (`Stale`). Then no retirement takes a threat that
  matches (`FreshIsKept`), and a save replaces none.
* `ApprovedOnceLiveHolds`. Three places of the code have to work together: the skip
  list read from the store, the choice of paths from the patterns that are left,
  and the rejected scenario's alternative. `OnceInv` says that the proposals of a
  session are of different patterns or assets (`ChosenProperties`: turns are listed
  once, and `LeftProperties`: a pattern is retrieved once per asset), that none of
  them is of a pattern approved in an earlier session by its whole id
  (`NotApprovedYet`), and that what earlier sessions approved stays as it was
  (`OldRuns`). In a live session what replaces a rejected scenario keeps its asset and
  pattern, and the store is as it was when the skip list was read until the save.

`RunPipeline` chooses the paths that gave a scenario as an ascending function
(`Ascending`), because nothing can be proved about `SelectSeq`.

`Scrs_proofs`, first part (any managers, threats, saves and batches, `RepeatTids` or
not; the requests of `ScrsRecords`): `RecordsTypeCorrect`, `IntegrityOkHolds`, `GapsHaveACauseHolds`,
`NothingForgottenHolds`, `DecisionsAreCurrentHolds` and `OverwritesAreKeptHolds`, all
six properties of its run, and `ApprovedIsKeptHolds`. A request works on a copy of the file, so none of them
can be proved one action at a time. `CopiesInv` says that a copy with the version of
the file is the file; `Serial` concludes that every step leaves the file alone or
saves what one request (`Effect`) makes of the file itself, and `Changed` says in
four forms what that leaves: a batch put into one kind of records, records taken
out of one kind, a rejection counted, nothing. Each property is then shown for
these forms; for `GapsHaveACause` the third says in addition that what is taken out is
exactly what the file itself reports stale (`MayRetire`). `OverwritesAreKept` covers batches that name a threat several times:
the first item that differs from the stored scenario finds it still there
(`SupersededHasOld`). That an index is the first or last in a batch comes from
the library's theorem on well-founded relations. `ApprovedIsKeptHolds` assumes
`RepeatTids = FALSE`, without which it is false (section 4).

`RunRegistry_proofs` (any number of requests, scenarios and saves, any cap):

* `TypeCorrect` and `PrunedStaysOutHolds`, whatever `Resubmit` and `OneReviewer`
  are. A commit stores what its approval took earlier, so `PruneInv` adds that
  nothing taken or stored is up for review (`Apart`) and nothing pruned is up for
  review or taken (`PrunedIsGone`).
* `NothingDroppedHolds` and `Refinement` (`Spec => Cycle!Spec`) under
  `AsDocumented` (the run id is used once, one `/reject` at a time). `LifeInv`
  says that what a handler read still describes the row when it is used: the list
  a rejection read covers the row's list but for later additions and its count is
  the row's (`RejectsWhatItRead`, which needs `OneRejects`), and what an approval
  took is the row's list (`ApprovesWhatItTook`). Section 4 has the
  counterexamples without the assumption.

`Pipeline_proofs` (any inputs and assets, tables, builds, entries, slots, sizes and
answers; any number of outages and restarts): `PipelineTypes`,
`StrideAlwaysReachesReview`, `FallbackAlwaysPasses`,
`GroundedResolves`, `CitedPatternsRemain` and `ChainsCoverLinks`, all that its run checks.
A result of a late stage rests on every stage before it, so the invariants say what
each hands to the next:

* `DataInv`: rows that were read are of patterns that some build knows, one row per
  pattern (`FetchInv`); every list ends with at most `TopK` candidates of its asset
  and no pattern twice (`CandidateInv`). It is the types and the bound of
  `TypeOK`, and what lets a candidate be traced to an entry.
* `ConsultInv`: what was fetched was read from some table; before the queries there
  are no candidates. `StrideInv` rests on it.
* `StrideInv` follows a category through the stages: in the queue still to be
  asked for, or among the hits, then among the candidates of its asset, then among
  those of the analysis. The step from hits to candidates is `SelectTopCovers` and
  `ReservedCovers`: of the places reserved in turns each category that has a match
  gets one in the first turn, before the cut, and the sort that follows only
  reorders. The last cut (`FinalListProperties`) takes nothing, since each list is
  within it. Both need that what a sort returns is known exactly.
* `OutInv`: a scenario belongs to a candidate, cites its pattern if the gate passed
  it, and carries the verdict of the gate if it was made without the model. The gate
  accepts that one (`FallbackPassesGate`), since the
  words of the fallback are in the vocabulary of the validator for each of the six
  categories and the id it cites is the candidate's own, if the asset has a word
  that the grounding check does not drop.
  The gate is satisfied when of two ids one ends in the other, dashes apart; the
  lookup wants the whole id, with the prefix of ATT&CK put before it or written
  properly. So what a passed reference resolves to would end in the pattern of its
  path, with or without that prefix, or contain it at its end (`VariantsAgree`),
  which `IdAssumption` leaves to that pattern alone. Putting the prefix there and
  stripping dashes change nothing else that is compared (`AttckForm`,
  `NormOfStripped`).
* `ChainsInv`: what is proposed is `ProposeChains` of the approved threats. Of the
  walks that begin with a link there is a longest, it ends where `Ends` says, and
  what contains it contains the link (`LinkCovered`).

`Orchestrator_proofs` (any number of attempts, paths and scenarios per path, any
answers): `OrchestratorTypes`, `FlagsAfterAllTries` and `RetryKeepsTheRestHolds`, and
`VerdictsAreTheScenarios` under `MoreOnRetry = FALSE`, without which it is false
(section 4).

* `LoopInv` has the types and that each scenario of the list has a verdict and a
  path that was asked for.
* `TryInv` counts: a path to be tried again was asked for in every attempt since it
  was retrieved, and so was the path of every scenario that failed. It holds because
  `FailedPaths` lists the path of every failed scenario, once
  (`FailedPathsProperties`), and a partial retry leaves alone what passed.
* `VerdictInv`: tids are unique, so a verdict is about the scenario that is in the
  list now. A merge keeps this because the new scenarios of a path take over the
  tids the path had (`MergeProperties`), which needs that there are no more of
  them, and each path is asked for once (`GeneratedScenarios`).
* `Grouped`: the scenarios of a path stand together (`PathsStandTogether`). The
  action property needs it: a merge puts the new scenarios of a path where the first
  of the old ones stands, which would change the order of the paths if they were
  spread over the list. With it, each place of the merged list comes from a place of
  the old one, in order, of the same path (`MergeKeepsOrder`, `MergedPaths`), so both
  lists name their paths in the same order (`EarlierIsAnOrder`, `SamePathOrder`), and
  what is not retried is picked from both alike (`OthersAreKept`).

What `FlattenSeq`, a fold, returns is told by offsets: the n-th part of the list
stands after the parts before it (`FlattenSeqOffsets`, `FlattenSeqPlaces`). That was
to be shown by induction over the list, which the library's operator theorems
cannot be used for; `BoundedInduction` does it with a set in the place of the
predicate. These lemmas, those on the ranks of an ordered set (`Ranks`, `RankOrder`),
that such a set has one listing (`OneListing`), what a part picked from a list is
(`PickedIs`) and when two lists have the same one (`SamePicked`), and those on `Picked` and `First` stand in `Selections_proofs`,
which four of the proof modules extend.

Only model-checked: both liveness properties of `ScrsStore` and `CallReturns`
(liveness is out of the prover's reach).

## 6. Not modelled, and why

* Embeddings, the encoder, prompts, redaction and the parsing of the model's JSON
  work on text and numbers and keep no state; what they decide is a number or a
  kind of answer in the models.
* Authentication, settings, request limits, logging: look-ups and output.
* Parsing of XML, STIX and PDF, downloads, and the standards index, which only
  the compliance explainer reads.
* `risk_demo.py`, `compliance_demo.py` and `verify_audit.py`: terminal forms of
  handlers that `ScrsRecords` and `Assessment` have.
* `retry_with_context` of the validator, the helpers of `attack_chain.py` that
  nothing calls, the scorer, the order in which chains are displayed.
* `protection_targets`, class table rows, reports: views that change nothing.
* The chain of HMACs over audit entries: represented by what is read out of it.

Some hazards in `PROJECT.json` have no property; each says why.

## 7. Plan

Done, in this order: `ScrsStore` (everything rests on the file), `ScrsRecords`,
`RunRegistry`, `Orchestrator`, `LlmClient`, `RiskRules` and `Assessment`, the
analysis with its knowledge base (`Pipeline`), the terminal clients
(`ReviewTools`); `ScrsStore`, `LlmClient`, `Assessment`, `ReviewTools`,
`RunRegistry`, `ScrsRecords`, `Pipeline` and `Orchestrator` proved.

Left:

1. Compositions: `RunRegistry` with the managers of `ScrsStore` in place of
   `CanSave`; a request of `ScrsRecords` as a client of `DecisionLog`; the gate of
   `Pipeline` in place of the verdicts of `Orchestrator`.
2. `protection_targets` and `rank_per_asset` over several projects: targets are
   grouped by asset id alone, ranks by project, use case and asset.
3. The remaining demos and the standards index.
