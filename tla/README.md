# A TLA+ verification of the RippleGuard Agent Runtime

The Runtime is a FastAPI process that answers *Loan Decision Agent Requests* with
*Agent Results*. Its hard part is not the model but what surrounds it: the same
request is delivered several times, concurrently, with changed inputs, before and
after failures, by a process that is restarted, while the files the answer depends on
are trained, released and replaced. This directory models that part and the rules that
turn numbers into an answer, checks them with TLC and proves the core with TLAPS.

Paths below are relative to the repository; `.../` stands for
`src/rippleguard_agent_runtime/`.

## 1. Inventory

| component | state | operations | modelled in |
| --- | --- | --- | --- |
| Agent Run state repository, `.../loan_decision/run_state.py` | `_attempts`, `_identities`, `_entries` under one lock; an `Event` per entry | `begin`, `complete`, `abort`, `allocate_attempt` | `AgentRunState` |
| Loan Decision Agent service, `.../loan_decision/service.py` | locals of each request's thread | `run`, `readiness`, `_threshold`, the time bounds | `AgentRunState`, `ModelPipeline`, `LoanDecisionService` |
| Manifest and artifact verification, `.../loan_decision/manifest.py` | none; reads the mounted files | `load_manifest`, `verify_runtime_compatibility`, `verify_manifest_request` | `ModelPipeline` |
| Feature validation, `.../loan_decision/features.py` | none | `validate_and_prepare_features`, `feature_payload_digest` | `Inference`; the checks of versions and shape in `ModelPipeline` |
| XGBoost/SHAP adapter, `.../adapters/xgboost_model.py` | booster, explainer, threshold | load, `predict`, `explain` | `ModelPipeline` (load and failures), `Inference` (rounding, cut to eight) |
| Contract validation, `.../adapters/contracts.py` | schemas read at start | `validate` | its effect, in `AgentRunState`, `ModelPipeline` and `AgentRuntime` |
| Result builder, `.../loan_decision/result_builder.py` | none | completed and failed results | the fields that matter, in `AgentRunState` and `Inference` |
| Proposal reason policy, `.../loan_decision/proposal_reason_policy.py` | none | `reason_codes` | `Inference` |
| Preprocessing, digests, `.../loan_decision/preprocessing.py`, `.../adapters/digest.py` | none | scaling and clipping, canonical JSON | what they clip and refuse, in `Inference` |
| REST adapter, `.../app/api.py` | the cached service, the server's worker threads | `/runs`, `/ready`, `/health` | `AgentRuntime` |
| Settings, `.../config/settings.py` | none | `from_env`, `validate` | `AgentRuntime` |
| Release materializer, `scripts/materialize_release_model_manifest.py` | files | template to manifest, temporary file and rename | `ReleaseManifest` |
| Training script, `scripts/train_baseline_model.py` | files | writes artifact, template, thresholds | `ReleaseManifest` (its writes) |
| Readiness command, `.../app/readiness.py` | none | `readiness()` in a process of its own | a probe of `ModelPipeline` |
| Errors, logging, `verify_artifact.py`, build and image | none | | not modelled (section 8) |

**How they interact.** A delivery runs in a thread of the server. `run()` validates
the request, checks its times and its payload digest, computes the *input identity*
and asks the repository (`begin`). The repository answers under its lock with one of:
*you execute* (first, or again after a failure that is not kept), *here is the kept
Result*, *conflict* (another identity owns the run), or it lets the thread wait for
the executing one's `Event` and start over. The executing thread reads manifest,
thresholds and artifact from disk, one by one, runs the model, and reports to the
repository with `complete` or `abort`, which wakes the waiting threads. `readiness()`
goes through the same files with a request made of the manifest. Infra replaces the
files; nothing tells the process. The process itself is a pool of worker threads and one
`lru_cache`: a request that finds the cache empty builds a service, with a repository of
its own. The files come from two scripts: training writes three of them in place, the
materializer verifies template and artifact and renames a manifest into its place.

**What is hard.** Threads act on a decision of `begin()` after the lock is gone; one
`Event` is set, tested and cleared by different threads in any order; one attempt
counter is drawn on by four paths; exceptions leave `run()` by four `except` clauses
and past them; the clock is looked at twice by an executing delivery and once by a
waiting one; a failure may be the input's or the deployment's, and only the first may
be kept. `lru_cache` is not single-flight; waiting duplicates hold threads of a bounded
pool; outcome and reasons are decided by two comparisons in two files, from an
explanation that was cut. `PROJECT.json` lists each such hazard at its line, with the properties that
watch it.

**What makes each component correct.**

* Repository: one execution of a run at a time, one final answer per run, one Result
  per attempt number, no Result for another input, only valid Results kept, no lost
  wake-up; every delivery is answered.
* Service: releases a run on every path out of its execution, refuses late deliveries
  before the cache is asked, recovers when its deployment is repaired.
* Verification and model: nothing is inferred that was not checked against manifest and
  request; readiness and execution judge a deployment alike.
* Features and reason policy: only clean payloads are scored; outcome, score and reasons
  agree; an adverse fact is reported.
* REST adapter: after a successful `/ready` a process has one repository; bounded threads do
  not wait for each other for ever; a restart leaves nothing unanswered, and nothing of a dead
  process is in the way of a delivery.
* Release: what is published is whole, of one complete model, and accepted by the Runtime.

## 2. Modules

| module | what it is |
| --- | --- |
| `AgentRunState` | the repository and the threads of `run()`; the pipeline is open: an execution ends with any outcome |
| `IdempotentRun` | the abstract promise to the caller: no locks, entries, events or sleeping threads |
| `ModelPipeline` | executions and readiness probes against the mounted files, which may be replaced between any two reads |
| `LoanDecisionService` | `run()` as a whole: `AgentRunState` with `ModelPipeline` filled in, request times and a clock |
| `AgentRuntime` | the process: `AgentRunState` once per service that was built, worker pool, cache, settings, endpoints, restarts |
| `Inference` | what an execution does with the numbers: payload, scaling, score, explanation, reasons |
| `ReleaseManifest` | training and materializer scripts with their deaths, and `ModelPipeline`'s probes reading what they left |
| `AgentRunStateProofs` | inductive invariant and theorems about `AgentRunState` |
| `AgentRunStateRefinement` | `AgentRunState` implements `IdempotentRun`, so what is proved of the promise holds of it |
| `IdempotentRunProofs` | inductive invariant and theorems about the promise alone |
| `LoanDecisionServiceProofs` | inductive invariant and theorems about the service |
| `ModelPipelineProofs` | the list of checks, inductive invariant and theorems about `ModelPipeline` |
| `AgentRuntimeProofs` | inductive invariant and theorems about the process |
| `ReleaseManifestProofs` | inductive invariant; `ReleaseManifest` implements the deployments of `ModelPipeline`; what is published is accepted |
| `InferenceProofs` | inductive invariant and theorems about `Inference`; lemmas on its checks, its cut and its lists of reasons |
| `MC...` | constants for TLC |

### AgentRunState

`attempts`, `identities` and `entries` are `_attempts`, `_identities` and `_entries`;
an entry's `done` is its Event's flag. `pc`, `request`, `attempt_id` and `result` are
where each delivery's thread is in `run()` and its locals:

```
idle -> received -> begin -> execute -> complete -> returned
           |         |  ^       |  `---> abort ---> raised
           |         v  |       `----------------> raised   (service.py:85, 94)
           |        wait -> asleep
           `-> returned | raised
```

Everything done under `self._lock` is one action, one per way out of the critical
section: `BeginFirst`, `BeginConflict`, `BeginWait`, `BeginCached`, `BeginRetry`,
`Complete`, `Abort`, and `AllocateAttempt` as part of `RejectEarly`. `Event.wait()` is two
actions, the test of the flag (`WaitPass`) and going to sleep (`WaitSleep`); `set()`
moves every sleeper of the entry to `begin`, where each must take the lock again.
CPython's `Event.wait` tests the flag under the condition's own lock, so no `set()`
falls between the test and the sleep; the model has them in one action.

A Result is reduced to what properties tell apart: the request it echoes, its status
and reason, its attempt, its Proposal (named after the delivery whose execution made
it, the code draws a `uuid4`), and whether the mounted result schema accepts it. That
last field is where `rippleguard-contracts`, which is not in this repository, enters:
`ContractReasons` are the failure codes its schema accepts.

### ModelPipeline

`manifest`, `thresholds` and `artifact` are what is on disk; `threads[t]` are the locals
of one `run()` or `readiness()`. Each read of a file is an action (`LoadManifest`,
`Threshold`, `Verify`, and `LoadModel`, which reads the artifact a second time), with the
checks that follow the read in the code's order: `FirstFault` takes the first
check that fails. `Deploy` replaces a file at any moment, at most `MaxDeploys` times.
File contents are records of what the checks tell apart: a `form` (missing, unreadable,
not JSON, not an object, not the contract's, placeholder digest, published) and the compared
fields. The test that a file is there and its opening are one read: a file that vanishes between
the two is, to the thread, an unreadable one, which the models have. `LoadFault` is what becomes
of an artifact: booster and explainer, an `XGBoostError`, which becomes a reason code, or another exception
of either, which does not. An execution may fail in inference with a reason code or with any other
exception (`InferenceFaults` has `raises`).

### LoanDecisionService

Extends `AgentRunState` and instantiates `ModelPipeline` with the deliveries as its
executions; each action is a conjunction of one of each, or one of them with the
other unchanged. It adds `delivery` (the times and the form of each request), `now`, and
the checks before `begin()` (`EarlyFault`). `Conclude` is inference and the second look at the
clock: a fault of inference, an exception included, comes before that look and hides it. The input identity is the pipeline's
input, since it pins everything of the request that the pipeline reads.

### AgentRuntime

Extends `AgentRunState` with `handler` (where each request is, the process it reached, the
service it got), `cached` (what `lru_cache` holds), `process` (which start is alive) and
`environment`. All repositories of all services are one `AgentRunState` whose runs are pairs
of a service, named after the request that built it, and an `agentRunId`; a request is given
the run of its own service, so nothing else about repositories has to be said twice.
`CacheMiss` and `BuildSucceeds` are two actions since `lru_cache` calls the function
without a lock; it keeps the first value, and who built another one uses that.
`Take` gives a queued request a worker if fewer than `Workers` are held; a
handler holds its worker until it answers, asleep or not. `Restart` kills whatever the
process was doing: its threads stay where they were for good. `Accepted` is
`Settings.validate()` on an environment; a path that does not exist is one way of `BuildFails`.

### Inference

One execution, step by step: `Identify` (digest), `Prepare` (types, bounds, scaling),
`Predict`, `Explain`, `Decide`. Numbers are integers in units of their own (hundredths,
tenths of the sixth decimal), a feature value is a type and a number. What the booster
and SHAP compute is any member of `RawScores` and `Contributions`. `NotFinite` stands for
contributions with a NaN or an infinity among the eight explained, whose digest raises; `Rounded` rounds half to
even, as Python's `round` does.
The constants of features.py, preprocessing.py and the reason policy are the code's.

### ReleaseManifest

`files` are the artifact, the template and the thresholds under `artifacts/`, `published`
what is at MODEL_MANIFEST_PATH. A model value stands for an artifact and for its digest,
`Torn` for a file that was opened for writing and not completed. `TrainerStep` is the script's six
openings and writes in order; `Check`, `Verify`, `WriteTemporary` and `Replace` are the
materializer's reads and writes; `TrainerDies` and `ReleaseDies` may come between any two.
`ManifestSeen`, `ThresholdsSeen` and `ArtifactSeen` are these files as the Runtime sees them,
which makes `ModelPipeline`'s probes part of this module.

## 3. Runs

| run | configuration | result |
| --- | --- | --- |
| `run_state` | 3 deliveries, 2 runs, 2 identities, a kept and a retried failure code, weak fairness; about 185,000 states | type invariant, 6 invariants, 2 action properties, refinement of `IdempotentRun` hold; every delivery is answered |
| `pipeline` | 1 probe, 1 execution; 14 manifests x 7 threshold files x 6 artifacts x 9 inputs, 1 replacement; about 1,817,000 states | `ReadinessAgrees`, `InferenceIsVerified` hold |
| `service` | 2 deliveries of 1 run, 6 kinds of delivery, 2 inputs, 3 manifests, 3 artifacts, 1 replacement, 1 tick, reason codes and exceptions of inference; about 186,000 states | `InProgressMeansExecuting`, `LateIsRefused`, `LateExecutionFails` hold |
| `recovery` | 2 deliveries, weak fairness, 2 replacements among missing and good files; about 38,000 states | `RecoversAfterRepair` holds |
| `runtime` | 2 deliveries of 1 run, 1 probe, 1 health check, 2 workers, a good and a rejected environment, 1 restart, weak fairness; about 502,000 states | `RuntimeTypeOK`, `LiveRunsAreExecuted`, `GatedRunsAgree`, `PoolNeverAllAsleep` hold; every request is answered or its process dies |
| `inference` | 322 payloads, 5 scores, 648 rows of contributions, non-finite ones or an exception; about 352,000 states | `OnlyCleanIsScored`, `ReasonsFitOutcome`, `AdverseFactsReported` hold |
| `release` | 2 models, 2 flaws, 2 runs of the materializer, 5 arguments, 1 probe, 4 visible changes; about 628,000 states | `OnlySoundManifests`, `PublishedIsAccepted`, refinement of `ModelPipeline` hold |
| `waiter_result`, `rejected_failure`, `malformed_manifest`, `kept_mismatch`, `waiter_deadline` | small instances | violated: section 6 |

**Why the bounds are enough.** An execution, a waiter, and a delivery that overtakes both
between `set()` and the waiter's return to the lock, or one of another identity: three
deliveries give every role; with a second run they show that runs do not disturb each
other. The safety properties of this run are theorems for any number of deliveries; its
liveness needs the third delivery, behind which a waiter finds the next execution in progress.
Failure codes matter only as kept or not. Retries are bounded by the deliveries, since a
delivery that executes is then answered. In the pipeline the
threads share nothing but files they only read, so one probe and one execution are the
general case, and one replacement splits any pair of reads. The clock needs to pass one
deadline. For the process, a probe and two deliveries on two workers give a builder that
wins the cache, one that loses it, one that finds it, and a queue with a health check in
it; with one restart a run can be redelivered to the next process, which may have settings
that are rejected (all rejected settings act alike). Its safety properties, too, are theorems
for any number of requests, workers and restarts. The payloads take every feature below, at and
above each of its bounds in every type, and applicants on both sides of every threshold of
the reason policy; the rows let each feature of the policy support, oppose or fall out of the
eight. Two runs of the materializer and one of training cover any overlap of the three;
four visible changes are all that one training makes, or two publications with a new artifact
between them. Deadlock checking is on in every run.

**Fairness.** `FairSpec`, `FairServiceSpec` and `FairRuntimeSpec` ask weak fairness of each thread's step: the
operating system schedules runnable threads, a lock that is released is acquired (each critical
section is a few dictionary operations), and inference is a finite computation. No
fairness is assumed of callers, the clock, deployments or restarts. A request waits for a worker
that others take too, yet weak fairness is enough there: the requests are finitely many, each releases its
worker once, so a queued one is enabled for good in the end, which is what the server's
first-in-first-out queue gives it in any case. Strong fairness is not
needed: a thread enabled in `begin` stays enabled until it moves, whatever others do to the entry.

## 4. What is proved

Everything below holds for all values of the constants that satisfy the named
assumptions. **Of `AgentRunState` and the service**, for any sets of deliveries, runs,
identities and failure codes, from `NoneIsNoRecord` (`None` is not one of the values it
stands in for):

* `Spec => []Inv` for `TypeOK`, `SingleFlight`, `OneCompletedResult`,
  `AttemptNamesOneResult`, `AnswerEchoesRequest`, `OnlyValidResultsKept`;
* the action properties `AnswerIsFinal` and `OnlyOwnerEndsExecution`;
* `NoSleeperForgotten`, under the hypothesis that the mounted schema accepts every
  failure code the pipeline has (`PipelineReasons \subseteq ContractReasons`), which is exactly
  what run `rejected_failure` drops;
* `Refinement`: `Spec => KeepsPromise`, every behaviour is one `IdempotentRun` allows;
* of the promise itself, if `None` is no request and no answer (`NoneApart`): all COMPLETED answers of a run are one, an attempt number
  is on one answer, refusals included, and a kept answer is never replaced; through the refinement
  they hold of the repository (`RepositoryKeepsItsAnswers`);
* all of it for the whole service with its files, deployments and clock, since a behaviour of the service
  is one of the repository by construction (lemma `ServiceIsRunState`): `ServiceSingleFlight`,
  `ServiceOneCompletedResult` and `ServiceKeepsPromise` draw the conclusion for three of them;
* `InProgressMeansExecuting`, under the hypothesis of `NoSleeperForgotten`: wherever a check, an
  exception or the clock ends an execution, the run is in progress exactly while one thread executes
  it, under the number and the identity of its entry;
* of the service itself, from `ServiceAssumption` (`None` is no delivery and no fault, contents of
  files and requests are of the kinds the checks know): `ServiceTypeOK`, by which a thread is in
  the pipeline exactly while it executes; the action properties over two moments `LateIsRefused` and `LateExecutionFails`;
  and `ServiceInferenceIsVerified`, the pipeline's `InferenceIsVerified` in the service.

**Of `AgentRuntime`**, for any number of requests, workers and restarts, from
`RuntimeAssumption` (kinds of requests are disjoint, a run is a service and an id):
`RuntimeTypeOK`; `GatedRunsAgree`; under the hypothesis of `NoSleeperForgotten`, `PoolNeverAllAsleep`
and `LiveRunsAreExecuted`, which extend that theorem's conclusion and its reason to the process; and every
theorem above of each service's repository, again by construction (lemma `RuntimeIsRunState`), as
`RuntimeKeepsPromise`: a second service or a restart breaks the promise between services only.

**Of `ModelPipeline`**, for any contents of the three files, any requests and any
deployments, from `PipelineAssumption` (executions are no probes, `None` is no fault, files and
values are of the kinds the checks know): `TypeOK`, `InferenceIsVerified`, `ReadinessAgrees`.

**Of `ReleaseManifest`**, for any models, template flaws, arguments, materializer runs and probes,
from `ReleaseAssumption` (`None` and `Torn` are no content, the runs are given known digests) and
`FaultAssumption` (`None` is no fault): `TypeOK`, `OnlySoundManifests`, `PublishedIsAccepted`, and
`KeepsPipeline`: to the Runtime the scripts are deployments of `ModelPipeline`, one file at a time.

**Of `Inference`**, for any payloads, any predictions and contributions and any threshold, from
`InferenceAssumption` (a value is a type and an integer, a bool is 0 or 1; predictions and
contributions are integers, `None` or `NotFinite`, which are no rows, and `None` no number or fault): `TypeOK`, `OnlyCleanIsScored`,
`ReasonsFitOutcome`, `AdverseFactsReported`. The run has 322 payloads and 648 rows; the theorems
have every one.

**The argument for `AgentRunState`.** None of the invariants is inductive alone: that two threads never
execute one run depends on the entry being IN_PROGRESS exactly while somebody does, that
depends on attempts being numbered without repetition, and so on. `IInv` is `TypeOK`
and `Coherent`, which says of every entry and thread how they fit:

* `EntriesOK`: an entry belongs to its run's identity; it is IN_PROGRESS with no Result
  and its flag down, or settled with a valid Result or none and its flag up; its number is
  at most the run's counter;
* `OwnersOK`: a thread that executes has the entry's identity and number, and the entry is IN_PROGRESS;
* `CompletersOK`, `WaitersOK`, `ReturnedOK`: the locals of a thread about to complete, of one
  that waits, and the Results of those that returned (a returned COMPLETED Result is
  the kept one; every number handed out is at most the counter);
* `SingleFlight` and `AttemptNamesOneResult` themselves.

`CoherentStep` shows that each action preserves it, one lemma per kind of write to the
repository (`StartStep`, `SettleStep`, `RefuseStep`), all others changing one thread only
(`ThreadStep`). The refinement maps an entry and the positions of the threads to what
the promise knows of a run; its proof adds that a Proposal in a thread's hand is its
own (`OwnProposal`) and maps each action to an action or a stutter of the promise. The promise's own
invariant says that an execution has its run and its number to itself (`RunningOK`), that nothing is executed
once an answer is kept (`KeptOK`), and that whoever was told COMPLETED was told the kept one (`AnswersOK`).
`NoSleeperForgotten` needs one fact more, that an entry in progress has a thread that executes it (`Owned`).
It is kept by every step (`OwnedStep`) only under the hypothesis on the schema: without it a rejected failed
Result ends the thread and not the execution. With `OwnersOK` and `SingleFlight` it gives
`InProgressMeansExecuting`.

**The argument for `LoanDecisionService`.** `Facts` instantiates `ModelPipelineProofs` for the service's
pipeline, whose assumptions follow from the service's (`PipelineMet`), so that the lemmas on the checks and
the preservation of that module's invariant are used and not proved again. `ServiceInv`
adds `DeliveriesOK`: a delivery that was admitted has its times in order, and a thread
is in the pipeline exactly while it executes. For the two properties of deadlines a state predicate is found that
holds from the first moment on and excludes COMPLETED: `Refusing` (still before `begin` and late, or
refused) and `Failing` (an execution that has not concluded and is late, one that ended with a
fault, or its failed answer). The clock never goes back and every step preserves each predicate
(`RefusingStays`, `FailingStays`); a waiter that was in time and becomes late is in neither, which is
what `waiter_deadline` shows.

**The argument for `AgentRuntime`.** That gated
deliveries share a repository is not inductive: it needs that who is served lives in the
process of whoever built its service (`BuilderOK`), that the cache holds a service of this
process and holds one as soon as anybody is served (`CachedOK`), and hence that nobody who
arrives after "ready" ever builds (`GatedOK`). With one repository, `OneCompletedResult`
gives `GatedRunsAgree`. `PoolNeverAllAsleep` is `NoSleeperForgotten` plus `BuilderOK`: the execution a
sleeper waits for is in its own process, so its thread holds a worker and is awake. `LiveRunsAreExecuted` is `Owned` plus `BuilderOK`: a run
belongs to a service and a service to the process of its builder, so what a dead process began is in progress in
repositories that no live delivery asks.

**The argument for `ModelPipeline`.** `FirstFault` takes the first failing check; the lemma
`FirstFaultIs` (from the well-foundedness of `<` on `Nat`) says that a list passes only if no check fails and
else fails with a fault of its own. One lemma per list says what passing it means. The
invariant says of each thread that what it read was fit for use (`ThreadOK`) and, if no file
was replaced since it started, that the checks it has behind it hold of the files as they
are, and that its fault, if any, is the deployment's or its own request's (`Undisturbed`).
`ReadinessAgrees` is then immediate: a probe's success means that the deployment passes all checks, its failure that
it does not, and both say so of the same files.

**The argument for `ReleaseManifest`.** A digest enters a template only after the artifact
was completed (`TrainerOK`), so a readable template names a complete model (`FilesOK`);
a materializer run holds such a template, without flaws once it is past its checks (`RunOK`),
and nothing else is renamed into place. For the refinement, each write changes what the Runtime sees
of at most one file. `PublishedIsAccepted` uses `ModelPipeline`'s `Undisturbed` for the probes
(`ProbesInvariance`, through the refinement): an undisturbed probe's fault is one the present
files have (`DeploymentFaults`), and a published manifest has none but that of the thresholds
(`PublishedPasses`).

**The argument for `Inference`.** `OnlyCleanPasses` shows that digest and checks together accept exactly the
clean payloads: the check that reports is the first that fails, so no fault is reported only if
none is there, and NaN, which every bound lets pass, was refused by the digest. `ScaleIsBound` says
that no scale of preprocessing.py is below a bound of features.py. The cut to eight is proved by
ranks: sorting by weight and then by position is a strict total order (`AboveIs`), so a feature's rank,
the number of features above it, is a number of 0..11 that no other feature has (`RankIs`); the rank is then a bijection,
eight features have one below eight, and what ranks lower weighs no more (`LargestIs`). A list of reasons
holds every code that applies (`DeclineListIs`), and only the last of four can be cut. `IInv` ties the end of an
execution to what `ReasonCodes` makes of its payload, score and explanation.

## 5. What is only model-checked

Liveness: `EveryCallAnswered`, `RecoversAfterRepair`, `EveryRequestAnswered`. Under fairness and with ENABLED
they are outside what the provers here can do. Every safety invariant and every action property that a
passing run checks is a theorem; `NoSleeperForgotten`, `PoolNeverAllAsleep`, `InProgressMeansExecuting` and
`LiveRunsAreExecuted` under the hypothesis on the schema that their runs' constants satisfy.

What the booster, SHAP and the digests compute is any value, in the runs as in the theorems.

## 6. Where code and documents disagree

| run | the code | the document |
| --- | --- | --- |
| `waiter_result` | a duplicate that waited for a failing execution executes the run itself (`run_state.py:75-82`) | `docs/phase-2-runtime-scope.md:39`: it "waits for the in-progress execution and returns the same Result" |
| `rejected_failure` | a failed Result that the schema rejects raises inside `except AgentFailure` (`service.py:85`, `:94`); the entry stays IN_PROGRESS and duplicates sleep for ever | `tests/contract/test_contracts.py:164`: an unexpected exception "releases waiting duplicate request" |
| `malformed_manifest` | a manifest that is not an object gives MODEL_MANIFEST_NOT_FOUND, one that breaks the contract an exception and HTTP 422 (`manifest.py:23-25`) | `docs/failure-handling.md:8`: "malformed manifest ...: `VALIDATION_REQUIRED / CONTRACT_VALIDATION_FAILED`" |
| `kept_mismatch` | a digest mismatch of the mounted artifact is kept and outlives the repair (`run_state.py:126`) | `tests/contract/test_contracts.py:225`: "recoverable blocked failure is not cached" |
| `waiter_deadline` | a waiting duplicate is not checked again before a cached COMPLETED is returned (`service.py:52`) | `README.md:105`: deadlines are "checked before execution and again before returning `COMPLETED`" |

Further behaviour of the code that a reader of the documents may not expect. The models have
it, no run states it as a property of its own:

* Overlapping first requests of a process each build a service and use it (`api.py:15`), so a run
  can be executed twice and answered with two Proposals; `docs/phase-2-runtime-scope.md:40` says a
  duplicate "does not create a new Proposal after the first accepted execution starts".
  After a successful `/ready` this cannot happen (`GatedRunsAgree`).
* A decline reason is given for a negative contribution alone (`proposal_reason_policy.py:49`),
  as RECENT_DELINQUENCY of an applicant without any; the message at `:52` calls reasons truthful.
* An approval fails although a true, supported reason exists, if its contribution is the ninth
  (`xgboost_model.py:61`); the message at `proposal_reason_policy.py:31` says none is available.
* The thresholds are looked for beside the manifest (`service.py:32`), where nothing puts them when
  the manifest is materialized to or mounted at a directory of its own (`ThresholdsBeside`).
* The published manifest keeps mode 0600 of its temporary file
  (`materialize_release_model_manifest.py:153`), so a Runtime that is another user, as in the
  image, cannot open it (`SameUser`).

The properties of the passing runs are stated so that they hold in spite of these:
`AttemptNamesOneResult` allows a waiter a Result of its own under a number of its own,
`NoSleeperForgotten` is checked with a schema that knows all codes, `RecoversAfterRepair` with files
that are missing or invalid rather than mismatched. `GatedRunsAgree` is about deliveries
after a successful `/ready`, `AdverseFactsReported` about facts rather than reasons, and
`PublishedIsAccepted` leaves the thresholds, which no script checks, to themselves.

## 7. Plan

Done: the core (`AgentRunState`, its promise, proofs and refinement), the pipeline and its
proofs, the composed service, the process, the numbers, and the release of a model, each with
its invariants as theorems. Left, in this order:

1. The service with its files inside the process: `LoanDecisionService` in place of
   `AgentRunState` in `AgentRuntime`, so that a restart can meet a deployment.
2. There, `ReadinessAgrees` and `GatedRunsAgree` in one theorem: a delivery after "ready",
   with no file replaced since, fails for its own request only.

## 8. Not modelled

* The text of requests, Results and schemas, timestamps in Results, HTTP status codes beyond answered
  or failed, logging. The schemas are in `rippleguard-contracts`, which is not in this
  repository: what they accept is a constant.
* Numeric code: `log1p` and float32 in preprocessing, XGBoost, SHAP, digests, training. They are
  deterministic functions; the models keep their failures, clipping, rounding and order. A contribution
  that is NaN and ends outside the eight explained would leave the order of the others undefined; the models
  have no such row.
* Durability: the repository is process-local by design, a restart forgets it
  (`docs/phase-2-runtime-scope.md:45`); `Restart` models that and no recovery.
* Growth of the repository's maps: nothing bounds them, so there is no bound to check.
* `verify_artifact.py`, which only reads and compares, Dockerfile and Makefile: no state of
  the running system.

## 9. Running it

```
tlc -workers 2 -config MCAgentRunState.cfg MCAgentRunState.tla
tlapm AgentRunStateProofs.tla
```

and likewise for the other configurations, each named after its module, and the other
`...Proofs` and `...Refinement` modules. `PROJECT.json` maps each definition to its
source lines, and names for each property a mutated definition (marked *Mutant* in
the modules) that breaks it.
