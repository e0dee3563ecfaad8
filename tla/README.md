# FinTwinOS: formal models of the governed financial twin

TLA+ models, TLC configurations and TLAPS proofs for `fintwinos/` (a "federated
financial twin" with governed tool execution). Every module is translated from
the source; the code lines each definition stands for are in `PROJECT.json`
(`map`).

## 1. The system

| Part | Source | State it keeps | Operations | Talks to |
|---|---|---|---|---|
| Role matrix | `policy/rbac.py` | none | `can`, `RbacGate.check_tool_call` | every governance component |
| Approval workflow | `policy/approvals.py` | `_requests`, `_lock` | `request`, `approve`, `reject`, `escalate`, `_grant` | audit trail, role matrix; mints the tokens the registry checks |
| Break-glass | `policy/breakglass.py` | `_activations` | `activate`, `countersign`, `revoke`, `activations` | audit trail; mints wildcard tokens |
| Kill switch | `policy/killswitch.py` | `killswitch.json`, shared by processes | `engage`, `release`, `is_engaged`, `guard`, `unguard` | wraps the registry's `call` |
| Policy gate and packs | `policy/gates.py`, `policy/rules.py`, `policy/packs/` | ordered rules | `check_tool_call`, `check_decision`, `add_rule`, `gate_from_packs` | called by the registry and the agents |
| Tool registry | `tools/registry.py`, `tools/server.py` | specs, handlers, idempotency cache | `register`, `call` (async) | policy gate, audit trail, tool handlers |
| Tool domains | `tools/domains/` | outbox and case ledger (files) | 23 observe, simulate, propose and execute tools | twin core, simulators, audit trail |
| Audit trail | `core/audit.py` | hash chain in memory and a JSONL file | `append`, `verify`, `_load` | everybody |
| LLM routing | `models/llm_routing/` | budget ledger, response cache (files) | `complete`, `charge`, `get`/`put` | provider APIs |
| Connectors | `connectors/` | offsets, queues | `pump`, `stream`, webhook delivery, batch jobs | twin ingestion |
| Twin core | `twin_core/` | graph, time series, documents, replay log | `ingest`, `replay`, `take_snapshot`, entity resolution | connectors, tools |
| Agents | `agents/` | a case | planner, waves of desks, critic, decision | registry, policy gate, LLM routing |
| Evaluation | `evals/` | reports | suites, release gates | registry, simulators, agents |
| Simulators, RL | `twin_sim/`, `rl/` | policies, episodes | Monte Carlo and discrete-event simulations, training | tools |
| Models, datasets, demos, CLI | `models/{graph,tabular,time_series}`, `datasets/`, `demos/`, `cli.py` | fitted models | fit/predict, generators, scripts | all of the above |

### What is hard in it

* **Threads without the lock.** `ApprovalWorkflow.approve` runs under the
  workflow's lock; `reject`, `escalate` and everything in `BreakGlass` read a
  status, decide, and write it later without it.
* **Processes without any lock.** The kill switch's file and the audit trail's
  file are shared by every process on one data directory, guarded by locks that
  live in one process.
* **Coroutines.** `ToolRegistry.call` is atomic up to the `await` of an
  asynchronous handler, and its cache is read before it and written after it;
  `LLMClient.complete` checks the budget before its `await` and charges after it;
  the desks of a wave run concurrently under `gather`.
* **Crashes and failing writes.** Memory is changed before the file (audit
  trail, a signature before its grant); a file is emptied before it is filled; a
  cache entry is written before its index; an offset is saved only when the
  consumer comes back; a tool writes the ledger, the twin and the trail in turn.
* **Half effects.** A handler of the ingestor may refuse an envelope after it
  has updated the graph.
* **Clocks.** Calls read `utcnow()` once and may then wait; deadlines and windows
  are checked with that time.
* **Lists edited while they are consulted.** The policy gate's verdict comes
  from an early-returning loop over rules added at either end.
* **Defaults.** Minima, maxima and rates over cases that may raise or not be
  measured decide the release gates.

### What makes each part correct

| Part | It is correct when |
|---|---|
| Approval workflow | tokens have a quorum of different people behind them, never the requester, and die in time; a quorum always gets its tokens; grants leave evidence; a resolution settles; the lock is given back |
| Break-glass | every wildcard token has two people behind it and dies with its window; a revoke kills it at once and for good; one token per activation |
| Kill switch | a halt lasts until its own release, across crashes; no call made under a halt runs; an unreadable file fails closed |
| Tool registry | nothing in the execute band is reached past the gates, not even from the cache; a key runs a handler at most once; an answer is the answer of its own tool |
| Policy gate and packs | the order of rules never lets a denied call through; a freeze cannot be undone by adding rules; limits hold whatever is added |
| Audit trail | tampering shows; crashes lose at most what was not acknowledged; no acknowledged record is lost silently |
| LLM routing | spend passes the ceiling by no more than the calls in flight; the cache keeps the prompts used last, through crashes; every call returns |
| Connectors | no line is passed over before it was received; every line arrives at last; an accepted event is not dropped |
| Twin core | the episodes rebuild the twin, half effects included; a redelivery adds no facts; entities keep their identity and duplicates get no nodes |
| Tool domains | the trail, the ledger and the twin agree after any failure; a plan covers what it claims; a hedge never adds to the exposure; an alert reaches its case |
| Agents | every step of a plan runs once and after what it depends on; a concern is never lost on the way to the decision; every case ends or its exception is seen |
| Evaluation | a gate opens only on evidence from a suite that ran |

`PROJECT.json` lists every hazard at its line, with the properties that cover it.

## 2. The modules

| Module | Models | State | Extends |
|---|---|---|---|
| `Rbac` | `policy/rbac.py`: the permission matrix, `can` | none | |
| `Approvals` | `policy/approvals.py` | `requests` = `_requests`, `lock` = `_lock`, `call` = how far each thread's call is, `audit` = the events appended, `clock` | `Rbac` |
| `BreakGlass` | `policy/breakglass.py` | `activations` = `_activations`, `issued` = the token objects, `call`, `clock` | `Rbac` |
| `KillSwitch` | `policy/killswitch.py` | `disk` = the state file and its temporary file, `lock` = each process's lock, `guarded`, `call`; history: `halted` | `Rbac` |
| `PolicyGate` | `policy/gates.py` with `RbacGate` | `rules` = the ordered rule list | `Rbac` |
| `PolicyPacks` | `policy/rules.py`, the four YAML packs, `gate_from_packs` | none (the initial rules) | `PolicyGate` |
| `ToolRegistry` | `tools/registry.py` | `registered`, `settings`, `token` = the token objects callers hold, `cache`, `call`; history: `ran` | `PolicyGate`: the rules are a variable of the registry, and the verdict a step of `call` |
| `AuditTrail` | `core/audit.py` | `running` = the processes that are up, `memory` = `_records` of each, `writing`, `file`; history: `appended`, `returned`, `edits` | |
| `LlmClient` | `models/llm_routing/{client,budget,cache}.py` | `spent`, the cache's `file`s, `index`, `counter` and `saved` index file, `call` of each task | |
| `AtLeastOnce` | abstract: at-least-once delivery with a resume point | `written`, `received`, `excused`, `passed` | |
| `Cdc` | `connectors/jsonl_cdc.py` with `pump` of `connectors/base.py` | `size` and `source` = the files, `offset` = the offset file, `reader` = stream and consumer, `received`; history: `garbled`, `missed` | instantiates `AtLeastOnce` |
| `Twin` | `twin_core/`: `TwinIngestor`, `EntityResolver`, the replay log, `take_snapshot` | `twin` = what ingestion produced, `log` = `_episodes`, a list for each episode, `disk` = their files; history: `base`, `restarted`, `spoiled`, `settled` | |
| `Feeds` | `connectors/{webhook,ingest,csv_batch,edgar,market_synth}.py`, the server's pump | `queue`, `consumer` (in a process that runs batches there is none), `cached` filings, `job`; history: `accepted` | `Twin`: what a source delivers is ingested in the same step |
| `Desks` | the tools of `tools/domains/`, pure functions of the twin and the arguments | none | |
| `Workbench` | work over the catalogue: events, direct writes, tool calls through the gate, the steps of the execute tools | `twin`, `hand` = the last answer, `doing` = the execute tool under way, `outbox`, `trail`, `rules` | `Desks`, `PolicyPacks` |
| `Cases` | `agents/`: `handle_case` with planner, sensing, desks, critic, aggregation, `check_decision` | `objective`, `plan`, `waves`, `desk` = how far each step is, `outputs`, `status` | |
| `Evaluation` | `evals/{runner,harness,function_calls,consistency,domain_metrics}.py` | `suites`, `built`, `results`, `runs`, `summaries` | `Cases`: the consistency suite calls `handle_case` |
| `MC...` | the instances TLC checks: values of the constants, symmetry, history variables | | the module |
| `...Proofs` | the theorems | | the module |

**Steps.** An action is what the program does without another thread, task or
process being able to interfere: everything up to a lock, an unlocked read
followed by a write, an `await`, or a system call on a shared file. So
`approve` is `Enter`, then one of the refusals or `ApproveAcquire`,
`ApproveSign`, `ApproveMint`, `ApprovePublish`; `reject` is `Enter`, `Lookup`,
`CheckOpen`, `RejectWrite`; `countersign` is `Enter`, `CountersignAccepted`,
`CountersignStatus`, `CountersignToken`; `engage` is `Request`, `Load`,
`OpenTmp`, `FillTmp`, `Replace`; a registry call is `Submit`, then `Refuse`,
`Replay`, `Preview`, `Shadow`, or `Invoke` and one of the handler's ends;
`append` is `AppendRecord`, `Write`; `complete` is `Complete`, then `Answer` or
`Fail` and `Retry`; the change log's stream is `Open`, `Yield` or `Skip`, `End`,
its consumer `Deliver`, `Advance`; an execute tool is `invoke`, `WriteOutbox`,
`MarkClosed`, `Record`; a desk is `Observe`, `Simulate`, `Propose`; a case is
`Plan`, `Sense`, the desks of each wave and `Fold`, then `Close`. Ingesting an
envelope never awaits and is one step, although it may stop in the middle:
`Handler` gives the steps it took until then.

**What is abstracted.** Identifiers, reasons, scopes, banners and texts are
model values; token signatures are the kind of the token (only the approval
workflow signs); a rule's globs and conditions are the sets they accept; a hash
is the tuple it covers, so it is collision-free; the audit trail seen from the
other components is the set of its events. In `KillSwitch` a write is three
steps (open, which empties; fill; replace), and in `AuditTrail` a failed write
leaves nothing, a part of a line, or a line without its end; a process that dies in
the middle of a line is one whose write failed and who then died. `ReadBack` is what
a body is after a round trip through JSON. In `Cdc` a line
is written in three parts, so that a reader can meet a line with a part of its
record, or its record without the newline. In `Twin` a payload says for each
field whether it is a number, a text, `None` or missing, which is what handlers test;
attributes of nodes and edges, of which the last one written stays, are left out. In
`Desks` amounts are integers in units that make each rounding of the code exact,
and the results of simulators are the inputs of what is decided from them. In
`Cases` and `Evaluation` metrics are kept up to the thresholds they are compared
with. Payloads are values: that an audit record keeps its caller's dictionary by
reference is not modelled.

**Mutants.** An operator `Bug_x` is the form a plausible bug would give `x`; no
specification mentions it. `PROJECT.json` (`mutants`) says which property finds
it: every property of every passing run is violated when its mutant takes the
place of the real definition.

## 3. The runs

Passing runs (every property holds in every reachable state of the instance):

| Run | Instance | Shows |
|---|---|---|
| `approvals` | 2 threads, 3 people, 1 request of high or low tier, permitted and unpermitted roles, deadlines and tokens of 1, time to 2, audit writes may fail | tokens only with a quorum (`TokensNeedQuorum`), in time although a call's clock is stale (`TokensExpireInTime`), with evidence (`GrantsAreAudited`); no quorum is stranded but by a failed write (`QuorumIsGranted`); the lock is given back on every path (`LockIsReleased`); only calls already past their checks can overwrite a resolution (`ResolutionSettles`) |
| `breakglass` | 2 threads, 3 people, 1 activation, window 1, time to 3 | two people behind every wildcard and no life beyond the window, whatever interleaves (`OverrideIsBounded`); a revoke kills for good and there is one token (`RevokeKills`), ends are final (`EndHolds`), with exactly the overlaps excluded under which each fails |
| `killswitch` | 2 processes, one with 2 threads, 1 band and the global flag, crashes and failing writes | the file is whole and the flags are those asked for (`FlagsHold`) and no halted call runs (`HaltsStopCalls`) until writers of two processes overlap; a halt everybody agrees on stops calls even then, because unreadable files fail closed (`SameHaltStopsCalls`) |
| `registry` | 1 caller, an execute tool and a proposal, 1 key, 1 token object of every kind, the gate of roles before the gate of rules (`registry_overlap`: of roles only), changing rules, settings and restarts | execute is governed, cached results included (`ExecuteIsGoverned`); a `done` means this tool ran (`DoneMeansRan`); retries do not run a handler again (`OneRunPerKey`) |
| `audit` | 2 processes on one file, 3 appends of 2 bodies, one of which JSON does not give back, 1 edit, failing writes, crashes | crashes alone are harmless and lose one unacknowledged record at most (`OneRecordAtRisk`); what verifies was appended (`TamperEvident`); an anchored hash pins its chain (`AnchorsDetectTruncation`); no acknowledged record disappears silently (`NoSilentLoss`) |
| `llm` | 2 tasks, 3 prompts and calls without a key, ceiling 2, answers that cost 0 or 1, 2 attempts, a cache of 2 entries, 3 ticks, crashes inside a cache write, files deleted | spending passes the ceiling by the calls in flight at most (`OverspendIsBounded`); the cache holds the prompts used last, across restarts (`CacheKeepsRecent`); every call returns (`CallsReturn`) |
| `cdc` | 2 lines in each of 2 files, one of them malformed and one not UTF-8, every configuration of following, with an idle timeout or without, strictness, resuming and limits (tried with resuming) of none, 1 and 2, a crash at any step, rotation, resets | the connector implements `AtLeastOnce` (`DeliversAtLeastOnce`); every line that stays in the source arrives at last, unless a line before it blocks the stream (`EveryLineArrives`) |
| `feeds` | 14 events of every kind, whole and with each defect a handler meets, 4 batches, 5 episodes, a queue of 2, 2 events recorded besides a demo book of 2 or none, failing log writes, a restart anywhere | all episodes together rebuild the twin in any order of them, with the writes of refused envelopes, unless names can be mistaken (`EpisodesRebuild`); a redelivery adds no facts (`RedeliveryAddsNoFacts`); duplicates get no nodes (`DuplicatesGetNoNodes`); identities are stable (`IdentityIsStable`); what was accepted is recorded or in the queue, once and in order (`AcceptedIsKept`) |
| `workbench` | each of the 23 tools, 35 calls, 4 events and 7 direct writes of which 2 happen, 4 rules to add, 2 documents, 1 failure or restart | the gate's verdict is the documented one (`VerdictsAreAsDocumented`) and a freeze holds (`FreezeHolds`); outbox, trail and twin agree (`TrailMatchesOutbox`); limits hold whatever rules are added (`LimitsHold`); a funding plan covers what it claims (`PlansCover`); hedges offset (`HedgesOffset`) |
| `agents` | 16 objectives of 0 to 3 desks, 7 refinements of the plan by the model (cyclic and dangling dependencies, steps with urgent or acting words), every outcome and crash of the desks, exceptions between them; evaluations of 4 requests of suites, with 5 scenarios, 3 presets, 20 benchmark calls, 3 objectives run 3 times | a case that closes without a human raised no concern (`CompleteMeansClear`); plans are followed however desks interleave (`RunsFollowThePlan`); gates open on evidence only (`UnlockedOnEvidence`); every case is closed or its exception reaches the caller (`EveryCaseCloses`) |

Violation runs: the code does something else than its documentation says.
`PROJECT.json` (`findings`) quotes both.

| Run | What happens |
|---|---|
| `registry_overlap` | two overlapping calls with one idempotency key both execute (`AtMostOnce`) |
| `workbench_alerts` | an ingested alert never touches a case, because the desk reads an attribute that only direct writes set, and the case is proposed for closure (`SeriousAlertsAreHeard`) |

**Why the conditions of some passing properties are stated with history
variables.** Several promises of the documentation fail under particular
overlaps. Instead of checking them on a single thread only, the `MC` modules
record the overlap that happened (`together`, `raced`, `asked`, `lost`,
`disturbed`, `stranded`) and claim the promise in all other behaviours of the
concurrent instance; `Cdc` does so with `garbled` and `missed`, `Twin` with
`restarted` and `spoiled`. So these properties say that nothing but the named
overlap breaks the promise; the overlap itself does, as the list below says and the
notes of the hazards in `PROJECT.json` repeat. Without the condition `disturbed`, for one, `ChainSurvives` fails after
a failed write (the record stays in memory and later ones are chained to it), with
two processes on one file (two interleaved chains), and after a restart if a body
was appended that JSON does not give back.

**Other disagreements between code and documentation** met while modelling; the
conditions above, or the model itself, show them, and no run is spent on each:

* `escalate`, having checked a request before another thread rejects or grants
  it, reopens it (`approvals.py:314`), though resolved statuses are terminal.
* A `revoke` that overlaps a `countersign` leaves a live wildcard token
  (`breakglass.py:276`), though it is said to take effect immediately.
* A `release` in one process erases the halt engaged in another between its
  load and its save (`killswitch.py:212`).
* With an approval secret configured, break-glass tokens, which nobody signs,
  are refused (`registry.py:320`).
* A desk that crashed contributes a degraded output without the tier its
  objective called for, so an urgent objective whose desks crash can still be
  closed as complete (`agents/runtime.py:177`); the confidence, which does fall,
  is only recorded.
* Presets that raised, or came without the metric, drop out of the minimum or
  maximum a gate reads, although the gate "sees the worst typology"
  (`evals/domain_metrics.py:308`).
* A fallback of the treasury desk only reads series named `<prefix>.cash.<CCY>`.
* No valid call of `execute_close_case` meets the conditions of the compliance
  pack's allow rules together with the registry's schema, so it is always denied
  there. Called without the pack it neither checks the case's status nor remembers
  an earlier closure, and after a restart the case is open again.
* Hedge candidates of one asset class each offset the whole exposure: taken
  together they would turn it over. `HedgesOffset` is about each of them.
* `replay` feeds one episode (`twin_core/replay.py:85-96`), and no one episode
  rebuilds a twin that was fed by several, although episodes "can be replayed
  through an empty twin to reconstruct state exactly" (`twin_core/ingestion.py:6-7`,
  `twin_core/replay.py:8-10`). All of them do, in any order, as `EpisodesRebuild` says;
  but only while no two names are similar, for who came first decides who is the
  duplicate of whom, and order across episodes is not recorded; only in the process
  that found the directory empty, for a restart loads episodes of which the new twin
  has seen nothing and records the demo book a second time; and only for a caller who
  catches, because `replay` stops at the first refused envelope, although refused
  envelopes are recorded on purpose. A torn line in an episode's file stops the
  process that loads it (`_load_existing`; not modelled).
* Delivery is at least once, and a transfer that is delivered twice counts twice, as
  does every point of a series: `RedeliveryAddsNoFacts` is about the rest.
* `JsonlCdcConnector` says of `strict=False` that malformed lines are skipped
  (`connectors/jsonl_cdc.py:70-72`), but a line that is not UTF-8 is decoded outside of
  the `try` (`:256`): it ends the stream, its offset is not saved, and each start
  stops there again. A pump with a limit of 1 never saves the offset of a record. A
  follower without an idle timeout never leaves a file that was renamed away.
  `Blocks` and `EveryLineArrives` name these.
* Payloads that JSON does not give back (dates, which are hashed and written with
  `str`, NaN) make `verify` fail once the file is loaded (`core/audit.py:43`). The
  registry puts tool arguments into the trail unconverted (`tools/registry.py:237-241`);
  other callers convert first.
* The verdict of the default gates is the one of roles and rules, but a registry may
  have no gate (`tools/registry.py:199`) and `RbacGate` none behind it: the constant
  `Gates` is the chain, and the theorems hold for every chain.
* Where a currency has two liquidity ladders, a funding plan only ever looks at the
  first by identifier; `PlansCover` says that some ladder of the currency is covered.
* An exception of planner, sensing, critic or trail leaves `handle_case`, and the case
  open in the trail: nothing records that it ended (`Abandon`).

**Why the bounds are enough.** Dual control needs three people (maker, two
checkers); two threads show every pair of overlapping operations, and the steps
of a pair are all interleaved; one request, activation or key suffices because the
code never relates two of them, except through the cache key, for which there are
two tools. Times run past the deadline and past the tokens' life. A lost update
of the kill switch needs two writers, and contention within one process a third
thread. Three records are the shortest chain with a first, an inner and a last
one, so that reorderings, removals and repetitions differ; one edit may do any of
them, or alter a body. An editor who computes the hashes anew is not modelled: the
chain has no key and cannot show it, an anchored hash does. Three prompts overflow a cache of two, and a ceiling of two
is passed by two tasks that both saw one unit left. Two lines have a first and a
next one, one of them malformed or garbled, and a second file makes an offset
stale and has a line that is not UTF-8. Two events after the demo book form every
pair: a reference before and after its entity, a name before and after a like one;
one restart is enough, since all that a process takes over is its directory.
`MaxLog` does not count the demo book. In `Workbench` the two
changes of the twin or the rules put every pair of a rule, an event and a direct
write before a call. Three desks give plans with a chain, a fork and two waves;
three runs of an objective can agree, differ in one and differ in all. The
benchmark of the evaluation is cut from its full size to 20 requests, of which 19
are the required 95 %. `CONSTRAINT Promised` of `KillSwitch.cfg` stops exploring
where neither history condition holds any longer, so no property claims anything
there.

**Symmetry** is used where threads, people, trails and bodies are compared for
equality only, and in safety runs only.

**Deadlock** is checked except where the system or a bound stops it: `audit` (a
torn file refuses every process that starts), `llm`, `feeds`, `workbench` (their
counters reach their bounds), `agents` (an evaluation or a case is over).

**Fairness.**

* `llm`: a request of the provider ends (the client has a timeout) and a sleep
  is over at some time (`WF` of `Returns` and `Retry`). Nothing is assumed about
  anybody calling, about crashes, or about requests succeeding.
* `cdc`: a stream that is up takes its steps and one that is down is started
  again (`WF` of `Stream`: pipelines run in a loop), and crashes do not always
  come before the same step (`SF` of `Skip`, `Yield`, `Deliver`, `Advance`): without
  that nothing can be delivered. Nobody makes a follower without an idle timeout end:
  for it `End` is not enabled. Growth, rotation and resets are not fair.
* `agents`: `handle_case` and `run_suites` are awaited until they return, so
  their next step is taken (`WF` of `Proceed` and `EvalProceed`). Desks may raise
  at any step but not hang: every tool call and model call under them has a
  timeout or is synchronous and taken to return. `Abandon` and `Crash` are not fair.

## 4. The proofs

All theorems hold for every value of the constants that satisfies the named
`ASSUME`s of the modules (roles and tiers are the code's, bounds are naturals,
the values standing for "none" are none of the others). TLC evaluates those
assumptions on each run.

* **`ApprovalsProofs`**: `TypeCorrect`, `QuorumBehindTokens`, `TokenLifetime`,
  `ResolutionIsSettled`, `LockIsHeldAtWork`, `GrantsLeaveEvidence`, `QuorumCounts`.
  `TokensNeedQuorum` is not inductive: a mint copies the signatures, so their being
  distinct (`Signatures`) must be known before; a signature is added on the
  strength of a check made earlier, so what was checked must still be true
  (`Checked`); that in turn needs that nobody else is inside the lock (`Holder`),
  and that the request still exists (`InFlight`). `IInv` is the conjunction of
  these with `TypeOK` and `TokensOK`; one lemma per kind of step shows it is
  preserved. `reject` and `escalate` write outside the lock, and preserve it
  because they touch the status only (`SetStatusEffect`). `ResolutionIsSettled` is
  an action property: from a settled state each step either works on another
  request or finds this one closed. The evidence follows the lock holder: between
  the mint and its audit record somebody stands at `publish`, between the last
  signature and the mint at `mint` (`Evidence`, `Counted`). All other steps are
  quiet (`QuietSteps`): they leave signatures, tokens and those points alone.
* **`BreakGlassProofs`**: `TypeCorrect`, `BoundedOverride`, `RevocationKills`,
  `EndsHold`. What a countersign checked must still hold two unlocked steps later:
  nobody ever changes an activation's requester or window, so the conditions
  recorded for calls past their check are preserved by every step of every other
  thread. The two properties about overlaps rest on what the history recorded
  (`OverlapsSeen`): two calls in flight on one activation are an overlap, so under
  the exclusions a call that is past its check knows what no other call can have
  changed (`Once`, `Killed`, `Ends`).
* **`KillSwitchProofs`**: `TypeCorrect`, `FlagsAreThoseAskedFor`,
  `NoHaltedCallRuns`, `SameHaltHolds`, about `MCKillSwitch` with its history. A
  writer holds its process's lock (`LockOK`), so while the writers are those of
  one process there is only one; what it is about to put in place is then the
  state in force with its own flag changed, and the temporary file is its own
  (`Draft`); a call that is due for refusal will meet a halt that covers it
  (`Met`). Crashes and failed writes only ever touch the temporary file.
  `SameHaltHolds` has no lock to lean on: writers of several processes interleave.
  Its invariant (`Uniform`) is about contents: whatever is in either file or in a
  writer's hands is unreadable or sets the halt, and the state file never
  disappears again.
* **`ToolsProofs`**: about the policy gate `VerdictsAreDocumented` and
  `FreezesHold`, about the registry `TypeCorrect`, `DoneIsTrue`,
  `ExecuteAlwaysGoverned`, `OneRunPerKeyInTurn`. The gate's loop is a function
  defined by recursion along the rule list; that it exists is shown by
  approximations for the first n rules (`WalkExists`), and what it has seen after n
  rules by induction on n (`WalkTells`). The verdict then depends on which rules
  match (`VerdictOfRules`), so rules that `add_rule` puts at either end cannot undo
  a freeze. For the registry, `DoneMeansRan` needs that whatever a cache entry
  calls done has run (`CachedRan`) and that no call under way has an answer yet
  (`Unanswered`). `ExecuteAlwaysGoverned` is an action property: what the gates
  looked at is looked at in the very step that reaches handler, shadow or cache.
  `OneRunPerKeyInTurn` assumes `OneCaller`, one task calling at a time, as the run
  `registry` does; with two the property fails (run `registry_overlap`). It needs
  that a key which ran has a cached result or lost it with an exception
  (`KeptOrLost`), and that a handler only runs for a key without one
  (`RunningIsNew`). About `Workbench`: `PacksAreDocumented` is the gate's theorem
  for the shipped packs and whatever is added to them, since every step leaves a
  list of rules (`RulesOK`). `TransfersStayInLimits` needs that what the gate saw
  is what the handler has in hand: the document under way and all in
  the outbox were permitted in the step that called the tool (`Permitted`). The limit
  on the amount is a denial, so it survives every added rule; the one on the currency
  is an allowance, and survives as long as no rule is added. `TrailIsBacked` ties
  the order in which a tool writes the outbox, the twin and the trail to what a
  failure or a restart between two writes may leave behind, one document each; its
  hypothesis `CasesComeOpen` says that events and direct writes never bring a
  case that is closed already, for which there would be no line in the ledger.
  `FundingPlansCover` and `HedgesMakeSmaller` are about what two handlers compute.
  The loop over the sources keeps what was raised and what remains equal to the
  target, and goes on to a source only when those before it are exhausted
  (`FundingCovers`); the trough is the least balance of the ladder (`TroughIsLeast`),
  so what covers it covers every day, and the rounding of the buffer never takes the
  target below the shortfall (`TargetIsEnough`). For the hedges, a percentage of a
  percentage is less than the whole (`PartIsLess`), so what is left has the side of
  the whole (`RestKeepsSide`), provided the sign is taken from the same net exposure;
  scores are compared by cross-multiplication and order the hedges of the universe,
  no two of which tie (`ScoresOrder`). The code's sorted lists are `Ranked`, the
  elements by the number of those ahead of them, which is the sorted list when no
  two have the same key (`RankedIsSorted`); its totals are sums of functions, taken
  apart by `SumRemove`. The invariant is that all amounts in the twin are
  numbers (`MeasuredInv`); the hypothesis `AmountsAreNumbers` says that of what the
  process starts with, of the events and of the direct writes, and that hedge ratio,
  number of candidates, buffer and horizon are in the ranges of the tools' schemas.
  The instance of the run `workbench` satisfies it.
* **`AuditTrailProofs`**: `TypeCorrect`, `TamperEvidence`, `LossIsNeverSilent`,
  `AnchorsPin`, `CrashesLoseOneRecord`. Everything in a chain or a file is a record
  that was appended or such a record with another body; a hash covers the body, so
  of these only the records appended are intact (`IntactVariantsAreMade`). For the
  loss, `Kept` is inductive: a line is only ever swallowed by a broken line, and a
  broken line stays until somebody edits the file. `AnchorsPin` is an induction
  along the chain: a hash determines the record and with it the hash before it
  (`HashDetermines`), no record has the hash of none (`NoRecordHasGenesis`), so
  chains that verify and end in the same hash are the same (`SameEndSameChain`).
  `CrashesLoseOneRecord`: until something else happens the file is the chain of the
  one process that runs, but for the record it is writing (`Quiet`).
* **`LlmClientProofs`**: `BoundedOverspend`, `TypeCorrect`, `RecentIsKept`. The
  bound is not inductive; that the spending *and* what the calls in flight may yet
  cost stay under it is (`BudgetInv`): a call begins only below the ceiling, when
  all tasks together can still be afforded, and a charge moves its cost from one
  side to the other. For the cache the history is the set of prompts used since
  each prompt's last use; it orders the prompts (`HistoryOK`), the ticks of the
  index follow that order and none is ahead of the counter (`Ordered`), in memory
  and in the saved index. So the entries of least tick, which `put` evicts, are
  those of the longest history (`EvictionFollowsHistory`).
* **`ConnectorsProofs`**, about `Cdc`: `IInvHolds`, `CdcKeepsItsPromise`, the
  refinement of `AtLeastOnce`. Every line of which a part is before a position was
  received, is malformed or was garbled, or is in the consumer's hands if the
  position is the reader's (`ReaderAccounts`, `OffsetAccounts`), unless an offset
  was applied to another file (`missed`). The step that matters is `RestIsNext`: reading on
  touches one line more at most. Each step of the stream then is a `Write`, a
  `Receive`, a `Pass` or a stutter of the abstract specification.
  About `Feeds` with its twin, for any events, batches, names and similarities:
  `AcceptedAreKept`, `IdentitiesAreStable`, `DuplicatesHaveNoNodes`,
  `RedeliveriesAddNoFacts`. What was accepted is what the default episode has
  recorded since the process began, followed by the queue (`SinceAppend`,
  `AcceptedStep`). Replay and resolution are recursive functions over an episode and
  the known entities; that they exist is shown by approximations (`ReplaysExists`,
  `ResolvesExists`). The resolver's names and duplicates lead to known entities and
  duplicates are none of them (`Settled`), and it keeps what it knew (`Keeping`). What
  a handler writes, wherever it stops, lies within what the resolver makes of the
  envelope's entities and what the payload names (`HandlerWithin`), so no duplicate
  gets a node (`AddsNoDuplicates`); this needs similarities that can be compared
  (`ScoresAreNumbers`). Ingesting an envelope teaches the resolver everything it has
  to learn from it (`TeachesOnce`), so ingesting it again adds nothing (`Absorbed`),
  and `Twinned` keeps that for all envelopes of `settled`.
* **`CasesProofs`**, about `Evaluation` with its cases: `TypeCorrect`,
  `ClearWhenComplete`, `PlansAreFollowed`, `GatesNeedEvidence`. The waves are defined by recursion on the
  steps that are left (`WavesExist`), and in a plan whose steps refer to earlier ones
  only the first step that is left is always ready (`WaveIsReady`). So the waves to
  come are a function of the steps that have run, and the desks at work are those
  of the next wave (`Scheduled`); folding a wave adds each of its steps once
  (`InOrderFacts`), behind all it depends on (`OutputsInOrder`). The model's
  refinement is an arbitrary plan over arbitrary owners: `PlanOK` is what
  `_validate_refined` and the rule-based plan guarantee. A case that is abandoned, like
  one that has not begun, has no plan. `CompleteMeansClear` then
  follows from aggregation and critic in the step that closes the case.
  For the gates, results are bags of answers of the suite that is running and a suite
  is only ok with as many results as it has cases (`EvalInv`). What a gate compares
  are sums over such bags, folds that take their elements in an order nobody knows:
  that any element may be taken out of a sum (`SumRemove`) is an induction on the
  size of the set, and from it follow that a part sums up to less than the whole
  (`SumOfPart`) and what scores add up to (`SumBound`). Runs of an objective that do
  not agree score ten twelfths at most (`OddRunsScoreLess`), so a mean of 0.9 needs
  two objectives in three that agree; the hypothesis `CodeSizes` says that there are
  three of each, as in `consistency.py`. The other gates hold for suites of any size.

**Inductions over data** (along a chain, a rule list, a log, the waves of a plan, a sum) are
proved without the library's induction theorems, which take an operator as a
parameter: the set of numbers for which a statement holds contains 0 and the
successors of its members, so it is `Nat` (lemma `Inductive`, from the least
element that well-foundedness gives).

Only model-checked: liveness (`CallsReturn`, `EveryLineArrives`,
`EveryCaseCloses`), which needs fairness and `ENABLED`, beyond
this prover, and `EpisodesRebuild`, which compares recursions in two orders. Every
other invariant and action property of a passing run is stated by a theorem.

## 5. What is not modelled

* The simulators, the learning code, the predictive models (but for the
  volatility regime a desk reads) and the dataset generators: sequential
  numerical programs whose correctness is statistical. What they return is an
  input of the modules that decide something from it.
* The HTTP and JSON-RPC wrapping of the tool server: what a request may assert of
  itself is an input of `ToolRegistry`, and its webhook pump is in `Feeds`.
* The suites of the evaluation that no gate reads, the written reports, demos and
  the command line: scripts that print what the parts above return.
* Within the modelled parts: read-only queries no decision rests on, wording of
  records and messages, latencies, the audit records of refusals, prices and the
  router's table of models, point-in-time queries and ranking of the document
  search, fetching of filings over HTTP, caller dictionaries kept by reference.

`components` in `PROJECT.json` has the reason for each part.

## 6. The plan

*Done:* the governance components, the audit trail, LLM routing, connectors with
their abstract specification, the twin, the tool domains under the shipped packs,
agents and evaluation.

What is left, in this order:

1. Abstract specifications: `Quorum` (a request is open, granted by enough
   people, or closed) implemented by `Approvals` under a refinement mapping; an
   append-only log implemented by `AuditTrail`.
2. Compositions: approvals and break-glass minting the tokens the registry
   checks, and the kill switch's guard around the registry's call.
