# magi-core in TLA+

magi-core asks three "mages" (Melchior, Balthasar, Caspar) for a verdict on the same input,
each through its own LLM provider, and combines the verdicts. This directory holds TLA+
models of that program, the TLC configurations that check them on small instances, and
proofs checked by TLAPS. Line references are to the sources under `src/src/`, or `src/smoke/src/` for the smoke
harness.

## 1. Inventory of the system

| Component | State it keeps | Operations | Correct when |
|---|---|---|---|
| Builder (`orchestrator.rs`, `MagiBuilder`) | providers, lineages, probes, prompts, pool | `with_*`, `build` | a probe measures the model it is filed under; no unguarded prompt is run |
| Analyze entry (`Magi::analyze`) | none | size check, gate, measure, dispatch | the announced threshold is the real one |
| Warn-once gate (`WarnOnce`, `warn_once`) | a bit mask | tell once | a standing warning is told once, and is told |
| Preflight (`rotation.rs`, `run_preflight*`) | model -> (window, digest) | probe every model once, 4 at a time, one deadline each | a slow or broken probe costs its own answer only |
| Eligibility snapshot (`pool_eligibility_snapshot`) | none | restate the claim filter | it agrees with the filter and explains every loss |
| Lineage registry (`rotation.rs`, `LineageRegistry`) | who holds which lineage, condemned lineages, two latches | claim, release, register a transport failure, latch a crate defect | no two mages meet on a lineage or on the same weights; only transport condemns |
| Mage loop (`dispatch_one_agent_rotating`) | its provider, lineage, chain, failed lineages | attempt, classify, rotate, end | it ends, never returns to a lineage, and its slot is given back |
| Model attempt (`attempt_model`, `dispatch_one_agent`) | attempt number, records, failures | call, parse, one corrective retry | one record per call, at most one retry per model |
| Run with rotation (`dispatch_with_rotation`) | successful, failed, joined | spawn, join in order, abort checks, quorum | its outcome is justified by what the mages did |
| Run without rotation (`dispatch_no_rotation`) | the same without registry | spawn, join in order, quorum | as above |
| Retrying provider (`provider.rs`, `RetryProvider`; `backoff.rs`) | attempt, elapsed budget | call, classify, wait, retry, abandon | bounded calls and bounded time |
| Consensus engine (`consensus.rs`) | none | score, classify, merge findings | the verdict follows the votes, no finding is lost |
| Verdict location (`verdict_markers.rs`, `validate.rs`, `schema.rs`) | none | locate the block, strip the fence, decode, validate | an ambiguous answer, or an echo of the prompt, is refused |
| Prompt building (`user_prompt.rs`, `prompts/`) | none | normalise, strip, neutralise, fence, cut, nonce | input cannot pose as structure |
| Claude CLI provider (`claude_cli.rs`) | a child process and its pipes | write stdin, drain stdout and stderr, wait | no pipe deadlock, failures classified once |
| HTTP providers (`claude.rs`, `openai_compat.rs`, `ollama*.rs`, `provider_url.rs`) | none | one request | pure I/O behind `LlmProvider` |
| Reporting (`reporting.rs`, `error.rs`) | none | render | formatting |
| Spy proxy (`smoke`, `proxy.rs`) | injection rule, drop counters, registry of records, `degraded` | accept, answer, forward, drop, push | what is read of it is complete, or it says it is not |
| Smoke runner (`smoke`, `runner.rs`, `main.rs`, `scenarios/e1.rs`) | the current attempt, its result | arm, start, collect, retry, conclude, evaluate | a red row accuses the crate only of what the crate did |
| Rest of the smoke harness (`config.rs`, `preflight.rs`, `report.rs`, ...) | a cost ledger | check, assert, render | sequential |

How they interact. `MagiBuilder::build` freezes the settings. `Magi::analyze` gates the
input, builds one prompt, and, when a pool is configured, runs the preflight and reports the
pool's eligibility. It then spawns one tokio task per mage. The tasks share nothing but the
`LineageRegistry`, one mutex that is never held across an await. A mage calls its provider
(usually wrapped in `RetryProvider`), parses the answer, and either ends or, under rotation,
reports to the registry and claims another model. The analysing task awaits the three handles
in a fixed order; after each it reads the two latches of the registry and may abandon the
run, in which case `AbortGuard` aborts whoever still runs. The verdicts go to the consensus
engine and the report. The smoke harness stands outside: its runner executes whole analyses
one after the other, through a proxy whose tasks outlive them.

What is hard: mages interleave at every critical section; a panicked, aborted or cancelled
mage must still free its slot, and its release may be delayed to a detached task; the
latches are read by another task than the ones that set them, at join time only; retries are
bounded by three clocks at once; two places restate one filter; layers of a sanitizer undo one
another; the verdict rules have numeric boundaries; a handler of the proxy goes on when the run it
served is gone. `PROJECT.json` lists each of these at its line under `hazards`.

## 2. Plan

The order follows weight: first what mages share, then the loop that joins them, then what
each does alone, then what surrounds a run, then the harness.

| # | Module | Models | Uses | Status |
|---|---|---|---|---|
| 1 | `Rotation` | registry and mage loop | | checked, proved |
| 2 | `Ensemble` | abstract promise of `analyze` | | stated |
| 3 | `MagiRun` | `dispatch_with_rotation` | EXTENDS `Rotation`; implements `Ensemble` | checked, proved |
| 4 | `DirectRun` | `dispatch_no_rotation` | implements `Ensemble` | checked, proved |
| 5 | `Eligibility` | `pool_eligibility_snapshot` | EXTENDS `Rotation` | checked, proved |
| 6 | `ClaimLoop` | the loop inside `claim_next` | what `Rotation` takes in one step | checked, proved |
| 7 | `Preflight` | `run_preflight_within` | gives `Rotation` its `capabilities` | checked, proved |
| 8 | `Retry` | `RetryProvider::complete` | what a call costs in `SeatAttempts` | checked, proved |
| 9 | `SeatAttempts` | `attempt_model`, `dispatch_one_agent` | what an attempt is in `Rotation` | checked, proved |
| 10 | `ClaudeCli` | `ClaudeCliProvider::complete` | | checked, proved |
| 11 | `VerdictText`, `UserPrompt` | what is read and what is sent | | checked, proved |
| 12 | `Findings`, `Consensus` | `ConsensusEngine` | `Consensus` EXTENDS `Findings` | checked, proved |
| 13 | `Builder`, `Analyze` | the life of a `Magi`: build, then concurrent analyses | | checked, proved |
| 14 | `SpyProxy`, `Harness` | the smoke harness's proxy and runner | `Harness` EXTENDS `SpyProxy` | checked, proved |

Worth doing next: the step of the claim in `Rotation` as a refinement by `ClaimLoop`, that of an
attempt by `SeatAttempts`, and the transparency and erosion probes of the smoke harness.

## 3. Modules and the code

Each module says at its head what it stands for, and `PROJECT.json` gives the lines of every
definition. What follows is what a reader of the code should know of each abstraction.

**`Rotation`.** One tokio task per member of `Seat`; `pc` is the await point or critical
section it is at, and every critical section of the registry's mutex is one action:
`RegisterTransportFailure`, `ClaimsNext`/`FindsNoCandidate` (one `claim_next`),
`ReleaseExhausted`, `ReleaseDefective`, `LatchCrateDefect`. `Attempt` is a whole
`attempt_model`, which shares nothing, reduced to its outcome. `active`, `runFailed`,
`connectionFailed`, `endpointDown` and `crateDefect` are the fields of `RegistryInner`;
`current`, `failedLineages`, `used`, `rotationsDone`, `chain`, `degenerate` are the locals of
`dispatch_one_agent_rotating`. `AgentSlotGuard::drop` is `DropGuard`: the slot is freed
at once, or, when the mutex is contended, by a detached task (`DetachedRelease`). The
preflight result is `capabilities`, chosen once from the constant `Capabilities`; a window is
reduced to what the run's prompt makes of it. A mage may be aborted anywhere it yields.

A remark on diversity. The comment at rotation.rs:74-75 speaks of two live mages that never
share a lineage. `build` accepts two primaries of one lineage and only warns
(orchestrator.rs:795-808), so what the registry keeps, and `RotationKeepsDiversity` says, is
that no *rotation* brings two mages together.

**`MagiRun`** extends `Rotation` with the analysing task. `join` is where it stands: awaiting
the next handle, before the read of the defect latch, before the read of the endpoint latch,
before the read of the lineages to name. Those are critical sections of their own and mages step in
between. A decided or dropped call lets `AbortLeftOver` end the mages.

**`DirectRun`** is the same loop without a registry: a task brings its own defect record home.

**`Ensemble`** has two variables, what every mage came to and how the call ended, and says
when each way of ending is allowed. `MagiRun` and `DirectRun` implement it under the mapping
`Promise` at the end of each: an abort, a panic and a defect all settle a mage without a
verdict, and the decision is the kind of the outcome.

**`Eligibility`** extends `Rotation` with the report made of the pool at dispatch. `Causes`
lists every condition that rules a candidate out, as the snapshot does; `Rotation!Admits` is
the filter with its short circuit. They are written apart, as in the code, and compared in
every state (`SnapshotIsTheFilter`). `LossIsExplained` relates the forecast to what mages then
do.

**`ClaimLoop`** opens the step that `Rotation` takes atomically. The other mages cannot move
meanwhile, so what they hold is folded into two sets: the admitted positions and the models
that collide. `Rotation!Claimable` and `Rotation!DegeneratePool` are what it computes.

**`Preflight`** has one task per probe behind a semaphore. A task takes its permit, fixes the
deadline that its two halves share, and hands its answer over when both are settled. A probe
is known by the task that made it, so the map says *who* measured each half of a model. Time
is abstract; what is due or ready runs before the clock moves.

**`Retry`** counts time in seconds. `now` is the time since `started`; a call takes a duration
of `CallTimes`, a sleep ends at `wake`. An error is a class, the one bit its class leaves open and
its `Retry-After` values, each a list of comma-separated segments. `deadline` is the timeout
the caller wraps the chain in and cuts calls and sleeps alike (`CutShort`). The random source
may draw any of `Waits` within the formula's bound.

**`SeatAttempts`** records every call with its reply in `calls`, a history no code keeps, and
beside it the telemetry the code does keep: `failures`, `records`, `retried`. All twelve
variants of `ProviderError` are replies. With `MaxRotations = 0` it is `dispatch_one_agent`.

**`VerdictText`** writes an answer line by line; a line is a kind of marker, a marker followed by
other text (prose to the parser), a fence, a payload, blank or prose. The output budget cuts an answer
within a line as a rule: `Beginnings` says what a line may become when its end is missing, a quoted
marker the marker alone for one, and `Cut` puts that in place of the rest. `Parse` is
`parse_validate_and_check`, `ValidatesPrompt` the guard on prompts; the two share `Locate` as the code
does, with the strict and the permissive markers. The rules of `Validator` are one class of
rejected payload.

**`UserPrompt`** writes a text token by token. A reserved word, the nonce and a structural token can
come in two parts that an invisible character separates and that stripping joins, which is why
the order of the sanitizing layers matters. `MaxError` stands for `MAX_ERROR_CHARS`. Removing
and inserting are written by where each token goes (`Rank`, `Moved`) and not by recursion over
the text, so that they can be reasoned about.

**`Findings`** folds the findings one by one, as the two nested loops of
`deduplicate_findings` do; `feed` is the order of those loops. A title or detail is the
index of the finding it was cloned from. `finding_id` is taken to be injective on normalised
places (it is a hash), and folding a title is the constant function `Folded`. The stable sort
puts each group at its `Position`, the number of groups that do not come after it.
**`Consensus`** wraps it as `determine` does: refuse, deduplicate, put the result together.
The score sums over the three values of `Verdict` by how many voted for each. Scores are integers in units of 1/24, which represents every sum of halves over one to three mages
exactly; `Epsilon` is in the same unit and is the smallest positive one in the run. The
code's `f64` rounding is therefore not modelled.

**`ClaudeCli`** has a child process that commits to one blocking operation at a time, three
bounded pipes, and the parent's two halves, written by hand into one `poll_fn` in the code.
The child is arbitrary apart from writing a bounded amount.

**`Builder`** keeps the history of the setter calls. A probe is known by the provider it came
beside, so `ProbeTargets` tells whether a probe is filed under the model it measures. A
directory of prompts is a function from agent and mode to a prompt or to "no such file".

**`Analyze`** has several calls of `analyze` on one instance. `fetch_or` and the emission are two
steps, so that a call may be cancelled at an await, and only there, and another may find the bit set
between them. Arithmetic on lengths saturates at `MaxWord`.

**`SpyProxy`** keeps a request in `flight` while its handler runs and its response is on the
way. The injection rule and the registry are locked for one step each; `Push` and the
departure of the response are two. A handler whose client hung up may go on (`HangUp`), or be dropped by
hyper wherever it stands (`Abandon`). Each request is a connection of its own: that a kept-alive
connection carries the next request as well is not modelled. A `ReplayBody` rule is a `FailModel`
whose status and body were captured; a client without faults takes either for a failure of that
model. **`Harness`** is the runner in front of it, and a client that stands for
a crate without faults: every seat probes, then asks the models of its chain until one answers.
`pc` follows `execute_one` and `run_once`; `TimesOut` is the cap, `Retry` the one retry of an
inconclusive attempt. `NothingInjectedRow`, `InjectedFailureRow` and `BlipRow` are the rows of
scenarios S2, S4 and S-R5a; each takes the first of its conditions that holds. A failure is injected
for the model of a configured seat (`HarnessAssumption`), as `stage_e1` does.

**MC modules.** `MCSeat`, `MCDirectRun` and `MCMagi` each put several models side by side that
meet in their inputs only. A behaviour moves one of them and leaves the others at their
start, so the state space is a sum and not a product; the fairness of each is stated over the whole.

## 4. The runs

| Run | Instance | Shows |
|---|---|---|
| `rotation` | 2 mages, 2 rotations, 4 candidates, a strict guard, 6 preflight results | what the registry promises of diversity, condemned lineages and slots; slots settle; the snapshot is the filter, and a seat's loss is explained by what happened since |
| `run` | 3 mages, 1 rotation, 1 candidate on a primary's lineage, quorum 2 | every ending is justified; implements `Ensemble`, its fairness included; `AbortGuard` ends every mage |
| `run_defect_race` | 3 mages, no pool | *violation*: see Findings |
| `retry` | 3 retries, 1 for limited classes, all classes, seven headers | no unearned or early call, no lost scope |
| `retry_budget` | the shipped values in seconds | *violation*: see Findings |
| `seat` | every pool of up to 3 entries over 3 models; 12 errors; a prompt of 3 chunks against pipes of 1; texts of 5 lines, cut anywhere; prompts of 4 tokens of 16 | a claim takes the first candidate nobody forbids; telemetry tells the calls; a CLI call ends with the right diagnosis; echo, cut and foreign structure are not taken for a verdict or a header; a cut is laid to the budget, but behind a quoted marker |
| `direct_run` | 3 mages, quorum 2; up to 3 outputs; up to 3 findings | implements `Ensemble`, its fairness included; merging loses and misattributes nothing; only a tie overrules the count |
| `preflight` | 3 probes, 2 of one model, 2 permits, budgets 0 and 1 | the last probe of a model wins, half by half; the preflight returns |
| `magi` | chains of 3 setters on 2 seats; all limits on words of 12 values; 2 concurrent calls | probes and prompts are the right ones; the announcement is exact; each warning is told exactly once |
| `harness` | 2 seats, plans `<<blip>>` and `<<rotation, happy>>`, one failure of anything outside, one handler that outlives its client, quorum 2 | a clean window is complete; a row accuses no crate that works, with one exception that the property states; injections stay their run's; every run is resolved |
| `harness_cap` | the same plans, no failure of anything outside | *violation*: see Findings |
| `harness_window` | as above | *violation*: see Findings |

Why the bounds are enough.

- *Two mages in `rotation`.* Every property of the registry relates at most two mages, or
  two lineages. Two rotations with four candidates (one model under two lineages, one lineage
  twice, a mage's primary under another lineage) make a mage pass its primary, rotate, be
  refused on every condition of `next_model`, and exhaust the pool at the cap or before it. The
  preflight results give unresolved, unmeasured and too small models, a degenerate pool and
  collisions with one or both primaries. Three mages are what the proofs are for.
- *`run`* needs three mages, the number the factory makes, so that a quorum of two can
  survive one failure; the one candidate lies on a primary's lineage so that diversity decides.
- *`retry`*. The counts 3 and 1 make a limited class stop where an unlimited one goes on. The
  budget of 5 against calls of 0, 1 and 3 is passed in a call, in a wait, and not at all. The
  deadline 7 is exactly `(1 + 1) * 3 + 1`, the floor of the layering rule; 40 never
  cuts. The headers are absent, zero, honoured, two equal segments, two unequal, garbage before a
  number, and beyond the cap.
- *`seat`*. Three chunks against pipes of one block the parent and let the child block in turn. Five
  lines hold two markers, two fences and a payload, or any smaller repetition of them; three make a
  block, so they also hold a block with a quoted marker behind it and what precedes both. Four
  tokens hold a word in two parts with a separator between them and one before. `MaxError = 3` cuts
  inside what the layers added.
- *`direct_run`* bounds confidences to four values, 0 and 100 among them. Three mages are the
  assumption of `Consensus` (`AgentName` has three values). Findings are checked with unanimous
  outputs only: the merge does not look at verdicts, nor the verdict at findings. Up to two findings
  of every kind, and three of which an unlocated one may be a race.
- *`preflight`*. Three probes on two permits make one queue; two of one model make one overwrite
  the other. Budget 0 expires at once, budget 1 after a tick; `Latest = 50` is never reached in this run, and the overflow
  of the deadline is left to the proof (`FullBudget`), which has it.
- *`magi`*. Chains of three reach every pair of setters on one seat with a third between or
  after. Words 0..11 with a divisor of 4 have limits below, at and above each multiple, and saturate.
  Concurrent calls are explored for two settings, the threshold reachable in one.
- *`harness`*. One fault (a broken accept, body, stream, backend or timeout) per invocation:
  plans of a single run were also checked with two. `GivesUp` happens at `"forwarding"` only,
  since nothing but the backend makes a request wait. The drop rule's budget is one connection of one
  seat; a second run after `rotation` is what could see a rule or a record that was left behind. A
  quorum of both seats lets `analyze` end without a report before the seat whose model is injected
  was told anything, so the exception of `RedIsTheCrates` and the case beside it (no report, but told)
  both occur.

Deadlock is not checked (`CHECK_DEADLOCK FALSE`): every one of these systems ends and stays
ended. That they end, where the code owes it, is said by `SlotsSettle`, `ImplementsEnsemble`,
`NothingOutlivesRun`, `CallEnds`, `PreflightReturns`, `ToldExactlyOnce` and
`EveryRunIsResolved`.

## 5. Fairness

- `Rotation!Fairness` (`rotation`): weak fairness of each mage's own steps and of each detached
  release. Every call is wrapped in `tokio::time::timeout` (orchestrator.rs:2407) so an attempt ends, a
  mutex of tokio is fair, and the runtime polls a woken task again. Which way an attempt ends is
  never assumed, and an abort is never owed.
- `MagiRun!RunFairness` (`run`): the joining task, the detached releases and the carrying out of
  aborts. It does **not** assume that mages go on, so `NothingOutlivesRun` holds of a run
  whose providers hang. `MagesGoOn` adds the timeouts, and `ImplementsEnsemble` has it as its
  hypothesis.
- `DirectRun!Fairness` (`direct_run`): attempts end by their timeouts and the joining task is polled.
- `ClaudeCli!CliFairness` (`seat`): the parent is polled when it can go on, the child runs when it
  is not blocked. A failing reap and the caller's timeout are possible but never owed, so the
  end of the call does not rest on them.
- `Preflight!Fairness`: ready tasks run, the caller joins, the clock moves. No probe owes an answer.
- `Analyze!Fairness` (`magi`): a call that is ready is polled; nobody owes a cancellation.
- `Harness!HarnessFairness`: the runner's own task and the timer of its cap, nothing else. Neither backend, proxy
  nor crate owes anything, which is the case the cap is for.

`ClaimLoop`, `SeatAttempts`, `Retry`, `VerdictText`, `UserPrompt`, `Builder`, `Findings` and
`Consensus` are checked for safety only; their loops are bounded by what is checked or by the
length of their input.

## 6. What is proved

Eight modules hold proofs, all checked to the last leaf. They assume nothing but the named
ASSUMEs of the modules: finite sets of mages and probes, a join order that lists every mage
once, types of the pool and of the numbers, at most three agents (`AgentName`), a failure
injected for the model of a configured seat. Every result holds for any
number of mages, any pool, any quorum, any budget, any text.

- `RotationProofs`. Most properties are inductive once `TypeOK` is known. `DiversityIsKept`
  and `NoCollapseIsKept` go through `ActiveStep`: a step adds to `active` only in a claim,
  and a claim took a candidate that `Admits` and does not collide. `NobodyReturns` strengthens
  `NeverReturns` by what the two sets remember: every lineage the chain left is condemned,
  or failed by that mage, so the next claim cannot be on it. `CondemnedIsAvoided` is an action property.
  The report of `Eligibility` only watches (`ReportWatchesRun`). That its conditions are the filter
  (`SnapshotFollowsFilter`) needs one fact about the run, `UsedInv`: a mage has used its
  configured model, without which an unresolved candidate would be judged differently.
  `EveryLossIsExplained` compares two states: a mage releases its slot only when nothing
  is claimable, the report still reads as at dispatch (`ReportInv`), so one of the
  conditions has changed since, and each way it can is an explanation.
- `MagiRunProofs`. `RunRunsMages` makes every run a run of `Rotation`. The invariant is
  `RunInv == JoinTypes /\ Counted /\ DefectSeen /\ OutageSeen /\ Decided`. `Counted`: the two sets
  are exactly what the joined mages ended as; `DefectSeen`: the mage that latched has ended, and past the check after the last join
  no defect is latched; `OutageSeen`: at the last await the endpoint latch was read after the last
  mage could set it; `Decided`: the outcome is still justified. `DefectSeen` is the heart of
  `ReportsAreComplete`: a mage latches before it ends, so once all are joined nothing can
  latch any more, and the check after the last join has seen it. `RunKeepsPromise` maps each step to a
  step of `Ensemble` or a stutter.
- `DirectRunProofs`: `DirectInv`, with `StillClean` (a running loop has passed by no
  record and aborted nobody). It also holds what is made of the outputs. `FindingsInv ==
  FindingsTypeOK /\ Keyed /\ Covered /\ Grounded`; `Keyed` ties a group's key to the finding that
  opened it, which makes keys and issues the same thing. `ReportsAreHonest` adds `SourcesInv` (the
  sources of a group are the agents of the findings read so far of its issue, in the order of
  their first one), and shows that positions of a stable sort are a permutation that follows
  the order (`PositionsAre`, by counting what comes before). `DetermineFolds` carries the results to
  `Consensus`. `OnlyTiesOverrule`: no agent votes twice (`VerdictInv`), so at most three votes
  are counted (`AtMostThree`), the scaled score is their exact sum (`Tally`), and away from a tie its sign
  is that of the majority (`ScoreDecides`).
- `SeatProofs` has a section for each thing that one seat does.
  - `ClaimLoop`: `LoopInv`. Only admitted candidates that collide are ever recorded, so what
    is still eligible contains every claimable candidate. `DegenerateIsExact` adds `Exhausted`
    and a counting argument: as many models collided as there are entries exactly when every
    entry did, if no two name one model.
  - `SeatAttempts`: `AttemptInv == AttemptTypeOK /\ CallsInv /\ TelemetryTellsTheCalls`. `CallsInv` says
    which calls of the current model there are at each stage (none before the first, exactly one before the
    second), so the next one is numbered right and `records` owes nothing while the mage goes
    on. `WorstCaseBounds` has `SpentInv`, the bound by stage and model.
  - `VerdictText`: about operators, for texts of any length. `TrimIsOne` and `BlockIsVerdict`
    characterise what trimming and stripping make of a stretch, `LocateFinds` says that a block is found exactly
    between the only two markers; the theorems follow from `AcceptedIs`. For a cut within a line, `MarkersLeft` and
    `ShapeIs` say which markers are left: none or one kind, which is laid to the budget; the whole
    pair, with the block untouched (`KeptBlock`); or the pair and one more, which is the quoted marker.
  - `UserPrompt`: likewise. `PrefixSpreads` and `KeepPicks` say where each token goes. Then a
    word, and a line that begins with one, is read after spreading only where it was read
    before (`WordsBack`, `HeadersBack`): two tokens that touch were neighbours, and no gap was put
    between a reserved word and a letter (`Apart`). `VisibleBack` recovers the
    material from what was sent, `ReadsInside` excludes words across the seams of the frame.
  - `ClaudeCli`: `CliInv == CliTypeOK /\ Written /\ Gone /\ Justified`. A result is what the
    precedence makes of the two halves, and stays so because what a finished half looked at
    no longer changes.
- `PreflightProofs`: permits are conserved over answers, deadlines, panics and aborts
  (`PermitsAreConserved`); a half is late only after its whole budget, or when the clock cannot represent the sum (`FullBudget`); the map
  holds what the last joined probe of each model measured (`LastProbeWins`), for any tasks and
  any number of permits.
- `RetryProofs`: `RetryInv == TypeOK /\ Counted /\ Timed /\ RetriesAreEarned /\ ScopeIsKept /\
  Floored`. `Timed` bounds `now` and `wake` by phase, which is where the extra wait of the bound comes
  from; `Floored` bounds the time of a first attempt. `LayeringIsEnough` is a second invariant,
  `Layered`: under the layering rule of `RetryConfig`, a chain that met limited classes only is within
  `Allowance`, what its calls and flat backoffs can cost, and so is never cut.
- `MagiProofs`. `ProbesInv` (an agent with a probe has the provider that came with it)
  survives every setter because `register_seat` writes or clears both. `GuardedInv`: what is built passed
  the guard, which looks at every agent and mode. `AnnouncementHolds` is division and
  saturation (`UnreachableMeans`). `GateInv`: a warning is emitted only by the call whose
  `fetch_or` found its bit clear, the bit is never cleared, and that call emits once; so no warning is told twice.
- `HarnessProofs`: `HarnessInv`, thirteen conjuncts over the proxy, the runner and the crate. The core
  is `PendingInv`, what holds of the one request a seat waits for: a failure was made by the rule in force,
  within the budget *not yet heard*; and a reply on its way is already in the registry unless the proxy is degraded.
  A request of an earlier attempt may be in flight for ever; `FlightIds` keeps its identity apart from
  those of this attempt, so its record disturbs no fact about them. When the seat hears the reply,
  `Pending` becomes `WindowInv` (every status heard is in the window) and `MadeInv` (every failure heard is
  the rule's, and within the budget). An attempt that did not run to its end has no window, so its
  rows have no records to judge by. For one that did, `RedRowsAreTheCrates` needs that somebody was told of the injection:
  with a report that is `PrimaryInv`, whoever was heard at all asked its primary first (`ReportMeansTold`).

Proving changed the model where it was loose. The rows of the harness were first written as a
CASE with overlapping guards, which leaves open the arm taken; the code returns at the first, and so
do they now. A failure injected for no seat's model would turn a row red with no fault anywhere: the assumption
that excludes it is what `stage_e1` does.

Some invariants are proved and in no run, because a run adds nothing to them: the type
invariants, `Rotation!LatchIsExact`, `Rotation!NeverReturns`, `MagiRun!OutageMeansNoQuorum`,
`DirectRun!OutcomeIsHonest`, `DirectRun!FirstDefectIsBlamed`, `ClaudeCli!NothingIsFabricated`,
`Retry!TotalBounded`, `Retry!SecondAttemptRuns`, `Retry!LimitedChainFits`,
`Preflight!PermitsAreConserved`, `Preflight!FullBudget`, `Findings!NothingIsInvented`,
`Consensus!SidesArePartitioned`, `Analyze!ToldOnce`.

Every invariant that a passing run checks is proved, and every property of steps. Only
model-checked is what the prover cannot do, liveness under fairness: `SlotsSettle`,
`NothingOutlivesRun`, the fairness half of `ImplementsEnsemble` (its safety half is `RunKeepsPromise` and
`DirectKeepsPromise`), `CallEnds`, `PreflightReturns`, `EveryRunIsResolved`, and that a warning is told at all
(`ToldExactlyOnce`, whose other half is `WarningsAreToldOnce`).

## 7. Findings

1. *A defect can lose to an outage* (`run_defect_race`). orchestrator.rs:2694-2697 says that a
   defect of the crate is raised before endpoint-down when both are latched.
   `resolve_run_abort` reads the two latches in two critical sections, and a mage may latch
   its defect in between; the run then returns `EndpointDown` though a defect is latched.
   What does hold is proved: no *report* hides a defect.
2. *The documented bound of a retry chain* (`retry_budget`). provider.rs:1081-1087 gives
   `operation_budget + max(client_timeout, retry_after_cap + jitter)`. The budget is read between
   attempts only, so a call begun just within it runs to its timeout and the wait after it runs
   too. The bound that holds, `TotalBounded`, has both terms, and is proved.
3. *A cap that becomes a verdict* (`harness_cap`). smoke config.rs:497 says that a run that reaches its cap
   reports a time failure, never a verdict about the crate. The injection is put in force once,
   before the first attempt, and its drop budget is shared by every clone; an attempt that is
   cut after its connections were dropped leaves nothing for the retry to meet, and the row
   that wants evidence of the blip turns red.
4. *A window with another run's record* (`harness_window`). smoke runner.rs:1376 says the mark makes
   the records those of this run only. Handlers are tasks of their own, and one that waited
   for the backend when its run was cut pushes its record after the next mark. What does hold
   is proved (`RedIsTheCrates`): such a record never turns the row of a run that injects nothing red over a
   working crate, nor the row of an injected failure once there is a report or a seat was told of the
   injection.

Smaller differences between words and code, seen while modelling:

- orchestrator.rs:270 and :284: with `max_input_len` at `usize::MAX` no threshold is ever announced
  unreachable, as the product saturates at the limit itself; `AnnouncementIsExact` is stated
  for smaller limits.
- verdict_markers.rs:190: a marker after U+2028 is said not to be one; `str::trim` removes
  U+2028, so it is recognised (`open_separated` in `VerdictText`).
- orchestrator.rs:3249: an agent name in the wrong case is said to fail as invalid JSON; the text
  is JSON and fails as a malformed object, which is another cause and another retry wording.
- claude_cli.rs:223-225: `Process` is called mage-local; `provider_err_outcome` makes it a
  transport failure, which condemns the lineage run-wide.
- user_prompt.rs: the cut of the feedback may turn the beginning of a longer word into a
  reserved one; `FeedbackIsInert` excepts the last word before the mark of the cut.
- smoke scenarios/e1.rs:509-511: an injection that failed to fire is said always to leave completion
  records, so that the records tell a row that must fail from one that must be skipped. The rule is
  sound one way only: any completion record decides (e1.rs:536-548), and the other seats leave them
  too. When they exhaust and `analyze` ends without a report before the injected seat was told of a
  completion, the row is red over a crate that works; `RedIsTheCrates` excepts exactly that.
- user_prompt.rs:352: "BOTH shapes a budget cut produces". There is a third. An answer may quote a
  marker at the head of a line after its block, which is prose (verdict_markers.rs:156-158); cut right
  behind the marker it becomes a marker line, the answer is `Ambiguous`
  (verdict_markers.rs:383), and the model is told that it wrote the markers more than once
  (user_prompt.rs:404-408). `OnlyCutQuoteIsBlamed` excepts exactly that.

## 8. What is not modelled

- *HTTP providers*: one request each, on wire formats. Their results, every `ProviderError`
  included, are inputs of `Retry` and `SeatAttempts`.
- *Reporting and errors*: rendering of a finished result; no state.
- *Rest of the smoke harness* (configuration, its own preflight, payloads, the transparency and
  erosion probes, other scenarios, report): sequential checks of files and assertions over one
  result. A run without the proxy and poisoned locks are left out of `Harness`.
- *Scalar settings* of the builder (timeouts, limits) and its warnings: parameters of the other
  modules.
- *Title folding*, the finding hash, the wording of prompts: tables and formats over
  characters. `Folded` and `Place` are what the merge sees of them.
- *Floating point* in the consensus score: replaced by exact fractions.
- *Text of results* (summaries, conditions, recommendations): copied by the code from the
  outputs; only who contributes is modelled.
- *Tests, examples, CI scripts, the generated graph*: not part of the program. They are most of
  the repository's lines, which is why the share of it that a definition stands for is small.
