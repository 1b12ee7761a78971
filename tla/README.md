# SSTW: formal models

This directory holds TLA+ models of SSTW: the programs that move results between
a Colab machine and Google Drive and hand packages from notebook to notebook, the
runners of long commands, the scopes that patch a live video pipeline, the
diagnostics that end in one decision file, and the chain from measured scores to
the statements of the paper. What the tests of the repository check is mostly one
call with one outcome. What is modelled here is what they hardly reach: an
exception between two assignments, a session that is cut, a file an earlier run
left, a second run in one directory, a threshold that meets a tie.

Run `tlc -config X.cfg M` for a run of section 3, `tlapm M.tla` for a proof module
of section 5. Line numbers are those of the files of the repository.

## 1. Inventory

`PROJECT.json` lists the components with their sources and status; this is the map
of the system. "Hard" names what a unit test would hardly reach, "correct" the
properties that say so.

### 1.1 Programs around the experiments

| Component | State | Hard | Correct when |
|---|---|---|---|
| **Colab test requests** `workflows/colab_test_request.py` | output root, bootstrap JSON, decision JSON; on Drive staging, result and recovery directories | interrupts, kills and lost machines at any step, Drive writes that store other bytes, paths shared by consecutive runs | visible results are verified, acknowledged ones stay, failed runs stay recoverable, runs are not mixed |
| **Stage package hand-off** `workflows/stage_package_sync.py` | Drive: time-stamped ZIPs and manifests per stage; local: the restored workspace | several notebooks at once, copies in progress or cut off, failed gates, pruning | stages run on passed, complete inputs; packages do not disappear |
| **Streaming command** `workflows/streaming_command.py` | process group, pipe, queue, reader thread, main loop | exit against end of output, helpers that keep the pipe, interrupts during clean-up | no line lost, true return code, no survivor, ends |
| **Official runtime runner** `external_baseline/official_runtime_progress.py` | child, two streams, queue, deadline | end of streams against exit and time-out | true code, complete output, a deadline ends the call |
| **Model load preflight** `wan_model_load_cache_preflight.py` | worker process, state file, cache, two limits | a limit against a finished worker, a killed supervisor whose worker lives on | PASS only for a worker that finished by itself and in time; no worker left |
| **Server workflow** `run_generative_video_server_workflow.py`, `generative_video_paper.py`, `run_timing.py` | local run root, timing report, decision file, packages on Drive | one failure among several, go-on flags, reset and restore | PASS means published; stages read their packages; a package carries its own report |
| **Baseline reference** `modern_external_baseline_reference.py` | bundle, videos, manifest, decision, package | partial generation, leftovers, kills | decisions are about their own run, packages of one run |
| **Baseline commands** (environment part of `generative_video_paper.py`) | process environment, templates, decisions | empty against unset, two cells in one process | passed children find a command, user commands win |
| **Official baseline setup** `source_intake.py`, `official_resource_bootstrap.py`, `official_runtime_closure.py` | source tree, resource, decisions | cuts, outages, refused checkouts | synced means pinned; bundles are made from whole trees |
| **Official scoring** `modern_command_adapter.py`, bridge and adapters | result bundles, raw and normalised outputs | three nested deadlines, orphans, old outputs | measured records are formal and keep their evidence |
| **Runtime environment preflight** `runtime_environment_preflight.py`, `extract_minimal_paper_package.py` | package tree, extraction manifest, record of code and model | edits, extractions that are cut, over earlier ones or below the repository, moving model branches | the record names the model that ran, and the code that ran where it can |

### 1.2 Experiments on a live pipeline

| Component | State | Hard | Correct when |
|---|---|---|---|
| **Velocity runtime** `flow_velocity_runtime.py`, `velocity_field_constraint.py` | patched `scheduler.step`, cumulative energies | exceptions in and around a video, budgets projected ahead | step restored, formal records complete, budget kept where it can be |
| **Patch-relation Gate 0** `patch_relation_gate0_construction.py`, `patch_relation_wan_runtime.py` | four nested slots of transformer and scheduler, record files | an exception between two replacements, a restore that raises | no probe on a changed model, budget kept, verdict covers the plan |
| **Response preflights** (phase, block attention) | patched methods, sentinel, batch | a pipeline that catches, replaces and repeats calls | batch is as planned, failures restore |
| **Result promotion** of the phase preflight | staging directory by descriptor, output, failure decision | every operation and clean-up raising, later runs | complete results only, never beside a failure |
| **Frozen feedback**, **Gate A construction**, **frame-state gate**, **root-cause** and **six-video** diagnostics | record files, videos, manifest, decision | rows without videos, second runs, damaged or replaced files | what a decision stands on is on disk and of one run |
| **Public atom** of the frame-state experiment | five nested scopes with clean-ups | clean-ups that fail, interrupts | what returns is restored; first error is seen |
| **Signed response, impulse exposure and projection** (contracts) | none between calls | thresholds, budgets and audits that compute the same thing twice | both computations agree; verdicts depend on the carrier alone |
| **Protocol contracts** `evaluation/protocol` | frozen JSON, digests in the code | Python `==` against canonical digests, files read twice | runs are frozen |

### 1.3 From evidence to the paper

| Component | State | Hard | Correct when |
|---|---|---|---|
| **Evidence chain** generation, attack, replay, sketch | record files of one run root | generation run again under old records | verified sketches are of their own run |
| **Formal flow evidence**, **detector calibration** | evidence records, folds, frozen threshold | replays that raise half-way, clusters of both hypotheses | passing decisions are whole; scores are held out |
| **Motion threshold** calibration (reuse: not modelled) | scores, decision | quantiles on ties, contaminated static prompts | thresholds near their rate; no filter takes all, or raises a threshold below its cutoff |
| **Fair comparison** calibration, differences, intervals, low FPR | eight record files of one run root | stages that raise, re-measurement between notebooks | thresholds from calibration data alone, matched comparisons |
| **Adaptive attacks** search and execution | candidates, query rows, files | budgets, units that raise after their queries | no query wasted, files agree |
| **Split guard** (not modelled) | none between calls | spellings of splits, missing identities | a single pass over its input files |
| **Profile gates** probe, pilot, full | files of three run roots | sessions cut between stages, stale verdicts | no profile skipped, transitions of one gate run |

How they interact. A notebook is a sequence of cells. `prepare_colab_stage_layout`
restores the packages the stage requires from Drive, the stage runs through
`run_streaming_command` (the server workflow in a process group of its own), and
`publish_colab_stage_package` writes the stage's package for the notebooks after
it. Inside, the server workflow runs roles and baselines through stage commands;
those of a baseline set up official code, run it through
`run_official_subprocess_with_heartbeat` and bundle what it writes. Generation,
attack, replay, scoring, calibration and gates communicate by files of one run root.
Notebooks share nothing but Drive. The diagnostic notebook `colab_test_runner.ipynb`
is separate: cell 5 runs a request, cell 6, by hand, asks for a recovery bundle; the
two meet at the kill, because the way `_terminate_streaming_process` ends a process
is what the recovery has to cope with.

## 2. Modules

Every module names its source in its header. One action stands for one effect on
a file, one call into another party, or one check the code branches on. An exception
that may happen at several places is one action whose guard lists the places.
Counters that grow with the environment (runs, kills, faults, edits) are bounded by
constants whose name begins with `Max` or says what is counted.

| Module | Models | Checked by | Proved in |
|---|---|---|---|
| `ColabTestSession` | one server process of a Colab request, from bootstrap to decision; consecutive processes, recovery, kills, lost machines | itself | `ColabTestProofs` |
| `ResultStore` | abstract: what a store of results promises a reader | | |
| `StagePackageSync` | hand-off of stage packages between concurrent sessions | itself | `StagePackageProofs` |
| `CommandRunner` | abstract: what a runner of an external command promises its caller | | |
| `StreamingCommand` | `run_streaming_command` | itself | `StreamingProofs` |
| `OfficialRuntime` | `run_official_subprocess_with_heartbeat` | `MCPrograms!Runtime` | `ProgramsProofs` |
| `ModelLoadPreflight` | supervisor and worker of the model load | `MCPrograms!Preflight` | `ProgramsProofs` |
| `SuccessPromotion` | publication of the phase preflight's result by staging and rename | `MCPrograms!Promotion` | `ProgramsProofs` |
| `OfficialSetup` | source intake, resource bootstrap, closure, attempt | `MCPrograms!Setup` | `ProgramsProofs` |
| `BaselineCommands` | where outer and inner commands of baselines come from | `MCPrograms!Commands` | `ProgramsProofs` |
| `RuntimeProvenance` | extraction, preflight record, stages that carry it | `MCPrograms!Provenance` | `ProgramsProofs` |
| `ServerWorkflow` | `main`, role and baseline loops, stage plan, run timer | `MCPrograms!Server` | `ServerProofs` |
| `BaselineReference` | one official reference run for each of five kinds of method | `MCPrograms!OfficialReference` | `ServerProofs` |
| `PatchRelationProbe` | Gate 0 run with nested scopes and phase search | `MCPrograms` | `ExperimentProofs` |
| `OfficialScoring` | command adapter, bridge, official commands, result bundles | `MCPrograms!Scoring` | `ExperimentProofs` |
| `FrameStateGate` | the eight probes of the frame-state gate | `MCPrograms!Frames` | `ExperimentProofs` |
| `PublicAtom` | construction of the atom inside five scopes | `MCPrograms!Atom` | `ExperimentProofs` |
| `ProfileGate` | gate notebooks of the profiles | `MCEvidence` | `EvidenceProofs` |
| `EvidenceChain` | files of one run root from video to verified sketch | `MCEvidence!Chain` | `EvidenceProofs` |
| `FlowEvidence` | replay of sources into evidence and the decision on it | `MCEvidence!Flow` | `EvidenceProofs` |
| `AdaptiveExecution` | execution of the attacks over videos and protocols | `MCEvidence!Adaptive` | `EvidenceProofs` |
| `AdaptiveSearch` | two-coordinate and one-coordinate search with checkpoints | `MCEvidence!Search` | `EvidenceProofs` |
| `FairComparison` | scores to thresholds, comparison, differences, low-FPR claim | `MCEvidence!Fairness` | `EvidenceProofs` |
| `DetectorCalibration` | nested folds and the fixed-FPR threshold | `MCEvidence!Detector` | `EvidenceProofs` |
| `MotionCalibration` | the motion threshold | `MCEvidence!Motion` | `EvidenceProofs` |
| `FlowVelocityRuntime` | wrapper of `scheduler.step` with seven carriers and energy accounting | `MCMechanisms` | `MechanismProofs` |
| `ResponsePreflight` | phase and block-attention preflight | `MCMechanisms!Preflight` | `MechanismProofs` |
| `FrozenFeedback` | one trajectory, counterfactual branches, rows and arrays | `MCMechanisms!Feedback` | `MechanismProofs` |
| `ImpulseConstruction` | runs of the Gate A construction in one directory | `MCMechanisms!Impulse` | `MechanismProofs` |
| `ImpulseExposure` | the steps of a trajectory under two budgets, audit of them | `MCMechanisms!Exposure` | `MechanismProofs` |
| `ImpulseProjection` | search for the largest feasible scale, audit of it | `MCMechanisms!Projection` | `MechanismProofs` |
| `ProtocolContract` | loading, comparing, authorising and re-reading nine contracts | `MCMechanisms!Contract` | `MechanismProofs` |
| `RootCauseDiagnostic` | half-amplitude diagnostic and its candidate explanations | `MCMechanisms!Cause` | `MechanismProofs` |
| `SignedResponse` | statistics and gates of a signed pair, exactly | `MCMechanisms!Response` | `MechanismProofs` |
| `SixVideoDiagnostic` | calls of the six-video analysis on one output root | `MCMechanisms!SixVideo` | `MechanismProofs` |

`MCPrograms`, `MCEvidence` and `MCMechanisms` put together the programs that share
neither memory nor, while they run, files. Each of their instances has variables of its
own; a behaviour is of one of them, chosen by `program` in the initial state, and
`Rest` keeps the others where they started. So one run of TLC explores the sum of their
state spaces and not the product, every disjunct of each `Next` is a disjunct of the
step, and a conjunct of a property applies where its program runs. The
constants of the instances are constants of the MC module, under the assumptions that
their modules state (`InstancesAssumption`), and the cfg gives them small values. The
proofs are about the same instances, for all values that satisfy the assumptions.

The subsections say what the state and the actions stand for where the header of
the module does not.

### 2.1 Colab test requests

    prepare -> write_bootstrap -> make_output -> runner            run_colab_test_request
    -> stage -> enter_try -> copy_zip -> copy_manifest -> verify_staging
    -> mark_publishing -> rename -> set_promoted -> readback       _publish_result_pair_transactionally
    -> close -> unlink -> rmdir                                    _best_effort_close_published_bootstrap
    -> decide -> idle                                              main

- *Exceptions.* `Raise` and `CopyRaises` may happen at each of these steps. An
  `"error"` is an `Exception`, an `"interrupt"` a `KeyboardInterrupt`. Inside the
  publication they go through `except BaseException` (`Rollback...`) and `finally`
  (`RemoveStaging`), which may fail themselves; `main` turns only an error into a
  FAIL decision. Closing swallows errors and not interrupts.
- *Before the `try`.* `mkdtemp` and the two flags come before the `try` statement
  (`colab_test_request.py:828-836`). An interrupt there (`InterruptedBeforeTry`) goes
  past `except` and `finally` and leaves an empty staging directory; `unguarded`
  remembers the run.
- *`promoted`.* The rename and the assignment to `promoted` are two steps: an
  interrupt between them leaves the verified result visible and unacknowledged.
- *`rmtree`* of a promoted directory removes file after file, so that a reader
  sees a torn pair in between.
- *Files* are `absent`, `partial` (a copy was cut off), `damaged` (stored bytes
  differ although the write succeeded, at most `MaxFaults` times) or `ok`. SHA-256
  is taken to tell them apart.
- *Kill* ends the process anywhere. A copy keeps a prefix; a decision that was
  being written is torn; the bootstrap is not, `_atomic_write_json` writes a
  temporary file and renames it (the leftover temporary file is not modelled).
- *Recovery* collects what it finds in the output root, the bootstrap and the
  decision, then copies two files without staging. Cell 6 passes the decision file
  if it exists, and a decision that is not a readable FAIL makes the recovery refuse.
- The allow-list (`ACTIVE_COLAB_TEST_IDS`, `colab_test_request.py:85`) has one active
  request with a frozen series identifier, so that all runs share the paths of
  output root and bootstrap. Run identifiers are fresh.

### 2.2 Stage package hand-off

`phase[n]` of a session follows `prepare_colab_stage_layout` (`restore`,
`extract`), the stage (`publish` is reached when it has written its decision) and
`publish_colab_stage_package` (`manifest_only`, or `prune`, `copy`, `copying`,
`manifest`). Choosing a package and copying it are two steps; so are the
beginning and the end of the copy of a ZIP, which other sessions can list while
it grows.

- `Requires` is the table of `_default_required_stage_packages`; its order is the
  order of the restores. `Gated` are the stages with a publish blocker, `Baselines`
  those whose manifest is also read by the restore
  (`_stage_package_zip_allowed_for_restore`).
- Names are time stamps; they are modelled by a clock that hands out one number per
  publication. `paper_workflow/colab_notebooks/README.md:470` forbids two instances
  of one stage at a time, which `StageMayStart` takes as a guard: the theorems
  hold under that rule only.
- The content of a ZIP is "complete" or "a prefix", and a prefix cannot be opened. A
  manifest cut off in its copy is not JSON, and such a package is refused.

### 2.3 Runners of commands

`CommandRunner` states what a normal return means: the command has ended, nobody can
add to its output, every line was handed over. `StreamingCommand` and
`OfficialRuntime` implement it by a mapping of their processes, pipes and queues; the
first allows for a drain grace that cuts the output of a helper, the second for a
time-out.

- The queue is unbounded as in the code. Lines carry numbers. Time is left out: a
  `get` may time out whenever the queue is empty, a grace period or a deadline that
  is running may expire, so that every ratio of their lengths is covered.
- `killpg(pid, 0)` still finds a leader that has exited and was not reaped, which is
  why the interrupt path of the streaming command waits for the whole grace. An
  interrupt may come in the loop, in the drain's own termination, in the clean-up of
  another interrupt (where it is recorded and dropped) and in the final join.
- `OfficialRuntime` kills the child alone, on a deadline; its helper may hold both
  pipes for ever.

`ModelLoadPreflight` has one worker per call, so that a worker of a killed supervisor
still writes to the state file while the next call runs. The state file is replaced
by `os.replace`, one step. `SIGTERM` may be handled by the worker or not.

### 2.4 Server workflow

One command after another on one machine, or on a new one (`local` is emptied, `drive`
stays). A role restores packages, runs its stages under a timer and publishes; the
baselines of a pipeline are units like roles. `local[u]` is the set of runs whose files
of a unit are mixed in the run root, because nothing removes old files: properties
speak of that set. What the stages do is a choice of outcome; what happens inside a
publication is `StagePackageSync`.

### 2.5 Official baselines

`BaselineReference` has five kinds, which differ in the order of generation and
scoring and in what they write over. `OfficialSetup` takes source, resource and
decisions as files that outlive a run. `BaselineCommands` distinguishes unset, empty,
blank and given commands as the code does. `OfficialScoring` has the layers adapter,
bridge and official command with a deadline each; a layer kills its own child only, so
an official command may outlive its bridge (`orphans`) and write later.

### 2.6 Scopes on a live pipeline

Python objects that are patched are shared by all probes of a run. `PatchRelationProbe`
keeps which slots hold our value (`host`, `rope`), what was captured as the original,
and whether an exception is on its way. Every assignment of enter, rollback and exit
is a step and may raise; so may the pipeline. `ResponsePreflight` has the same shape
with the sentinel exception that ends the pipeline. `PublicAtom` nests five scopes,
each with a clean-up that may fail, `FlowVelocityRuntime` one.

Energies are integers. Where a budget is compared by the code in floating point, the
model compares exactly, in a common unit of numerator and denominator; tolerances of
the code that matter (the audit of `ImpulseExposure`) are modelled as a unit of slack.
Of a search only the order of its scales and the feasibility of each is kept.

### 2.7 Diagnostics that end in a decision

`FrozenFeedback`, `ImpulseConstruction`, `FrameStateGate`, `RootCauseDiagnostic` and
`SixVideoDiagnostic` keep their output directory: record files with the run that
wrote each, arrays or videos that storage may damage or another process may replace,
manifest and decision. `SignedResponse` evaluates the gates exactly on small integer
vectors: centred vectors are taken twice so that the mean of two clean outputs stays
whole, and norms are compared by their squares.

`ProtocolContract` distinguishes, for each section of a file, values that are
identical, equal for Python but of another canonical text (`1` and `1.0`, `True` and
`1`), hidden beside a duplicated key, or different. Each of nine loaders is the
conjunction of comparisons it makes.

### 2.8 Evidence and statistics

`EvidenceChain`, `FairComparison`, `ProfileGate` and `FlowEvidence` model a run root as
files written whole by stages of sessions that may end between any two of them, each
stage reading what it finds. Bytes and digests are named by the run that made them.
`DetectorCalibration`, `MotionCalibration` and `AdaptiveSearch` are algorithms,
explored over all inputs of a bounded size.

- *Detector.* A session fits one outer fold after the other, any of which may raise,
  before it freezes. `trials` keeps the trials of a cluster, of which the
  highest is its score, and the threshold is chosen among the scores observed. Twice the
  threshold is kept, so that one above every score is a whole number.
- *Motion.* A list of scores is a function of the videos they are of: a video is a prompt
  and a seed, and those with no usable score are outside the domain. Nothing is sorted;
  the k-th score (`Ranked`) is the one that at least k scores do not exceed and fewer than k
  are below, which is all that the median, the quartiles, the deviation and the quantile
  of the code depend on.
- *Search.* Each answer of the detector to a candidate is any of the answers of the cfg.
  Refinements (`FreshMoves`) are taken from the best parent so far, in the order of the
  code, and skip the points that were asked before.

Bootstrap intervals are exact for two or three clusters and otherwise left out.

## 3. Runs

Every passing run explores its whole state space; its size is in the second column. The
constants are in the cfg. A run that is marked *violation* is discussed in section 6.

| Run (cfg) | States | Properties | What it shows |
|---|---|---|---|
| `session` (`ColabTestSession.cfg`) | 717k | `TypeOK`, `ReturnedIsDurable`, `StagingLeaksAreKnown`, `RecoveryIsSound`, `ImplementsResultStore` | Three runs with a damaged Drive write, a recovery bundle and a lost machine, interrupted and killed anywhere: what is on Drive is verified and stays, and recovery loses and mixes nothing. |
| `live` (`ColabTestLive.cfg`) | 12k | `DamagedIsWithdrawn` | A promoted pair that fails its final readback is taken away again, provided a started process keeps running. |
| `published_recovery` (`ColabTestPublishedRecovery.cfg`) | *violation* | `PublishedNeverRecovered` | A run killed after its bootstrap was removed and before its decision was written is packed by the recovery although it is published. |
| `stage_retain` (`StageRetain.cfg`) | 1.3M | `TypeOK`, `InputsPassed`, `BaselineCandidatesComplete`, `CompletePackagesRetained` | Two sessions run a four-stage slice of the pipeline with the default retention (and the prune switch set as well): no stage runs on inputs that did not pass, and no complete package disappears. |
| `stage_prune` (`StagePrune.cfg`) | 1.3M | `PruningLeavesOne` | With pruning, a failed gate never takes the package of an earlier pass away, and a published stage stays restorable. |
| `stage_latest` (`StageLatest.cfg`) | *violation* | `PicksLatestComplete` | A ZIP whose copy was cut off is picked in place of the older complete one. |
| `streaming` (`StreamingCommand.cfg`) | 33k | `TypeOK`, `ReturnCodeIsReal`, `EveryLineForwarded`, `NoSurvivors`, `CommandFinishes`, `ImplementsRunner` | Command, helper, reader and main thread interleaved with two interrupts: no line is lost, no process survives, the cell ends, and a normal return is one the abstract command runner allows. |
| `streaming_undecodable` (`StreamingUndecodable.cfg`) | *violation* | `EveryLineForwarded` | A line that does not decode ends the reader, and the command returns normally with its remaining output lost. |
| `programs` (`Programs.cfg`) | 931k | `CleanModel`, `GenerationIsSound`, `RuntimeIsSafe`, `PreflightIsSafe`, `ScoringIsSafe`, `PromotionIsSafe`, `FramesAreSafe`, `AtomIsSafe`, `EnvironmentIsRecorded`, `StagesArePublished`, `ImplementsRunner`, `StepsAreSafe` | Every interleaving, failure and cut-off of the programs with a life cycle, each on a small instance: workers and official commands, pipelines that are patched and restored, results that are staged and promoted, sources, commands and provenance. |
| `programs_live` (`ProgramsLive.cfg`) | 122k | `CallsEnd` | Under fairness of the programs' own threads, of time limits and of SIGKILL the calls that wait for somebody else come to an end, and a reachable source is pinned. |
| `evidence` (`Evidence.cfg`) | 1.0M | `GateIsSafe`, `EvidenceIsOneRun`, `SelectionsAreExact`, `ThresholdsAreHeld`, `ThresholdIsFrozen` | From the videos of a run to a claim, with sessions cut anywhere and notebooks run again: gates, evidence chain, flow evidence, adaptive attacks, comparison and calibrations. |
| `mechanisms` (`Mechanisms.cfg`) | 385k | `VelocityIsSafe`, `PipelinesAreGivenBack`, `BudgetsAreKept`, `VerdictsAreBound`, `StepsAreSafe` | The watermark mechanisms with their energy accounts and the mechanism diagnostics, with exceptions anywhere, files that are edited and measured responses of every kind. |

Why the bounds are enough. *Sessions and directories:* two runs are needed for one to
meet the leftovers of another, the third of `session` shows what the second left; kills,
faults and edits are bounded by one or two, so that a clean-up can fail while an
earlier failure is being handled. *Stages:* a stage must be published twice for
pruning or for choosing the latest to matter, and another has to consume it; four
packages allow two of one stage or one of each of the four kinds. *Commands:* more
lines than the pipe holds, so that writers block; a helper beside the command; two
interrupts, one of which can hit the clean-up of the other. *Scopes:* one clean and
one signed probe show a scope to its successor; two or three scheduler steps give a
first and a last one. *Statistics:* the smallest instances at which every threshold
can be met, missed and tied: five clusters in four folds, three methods of which one may
be blocked, three prompts with two seeds for both contamination filters, four
checkpoints of a search up to a budget of seven. *Gates:* two profiles, one that
starts the chain and one that follows. The theorems of section 5 hold for all values.

Symmetry is used for the sessions of `stage_...`, which no definition tells apart; the
properties of these runs are symmetric as well.

`CHECK_DEADLOCK FALSE` stands in the cfgs because these systems really stop: sessions
that nobody starts again, a command or a diagnostic that has ended, bounds that are
used up. That a program ends only where it should is said by the liveness properties
and by invariants about what it has left.

Fairness. Always that of a single thread, or of a process that the operating system
schedules, never of the environment:

- `ColabTestSession!FairSpec`: a started server process keeps taking steps until it
  ends or is killed; nothing makes anyone start a run or a recovery.
- `StreamingCommand!FairSpec`: main and reader thread are scheduled, a grace that is
  running expires (the loop polls twice a second), SIGKILL works in the end, and the
  command itself writes its lines and ends while its output is taken, which is a
  statement about the command. Nothing is assumed of the helper.
- `MCPrograms!FairSpecification`: `GoesOn`, the caller, supervisor, adapter or notebook
  under study executes its next statement; `LimitPasses`, a time limit that was given
  passes; `KilledDies`, a process that was sent SIGKILL dies. Nothing is expected of
  workers, children, helpers and official commands, which may hang in every phase; the
  clause of `CallsEnd` about a source has the network as its premise.

Each property is backed by at least one mutant, an operator beside the definition that
it replaces, marked `Mutation` or `Mutant` in its comment: a plausible mistake, under
which the run finds the property violated.

## 4. Properties worth a remark

- `ReturnedIsDurable` is about `PairOk` for ever after, across later runs,
  recoveries and lost machines, while `VisibleOnlyVerified` is about the single step
  that exposes a directory.
- `RecoveryIsSound` has two sides of the decision the recovery takes from files
  alone, `NothingStranded` and `RecoveredBootstrapUnpublished`. The state
  `PUBLISHING_VERIFIED_LOCAL_PACKAGE`, written *before* the rename, is what makes both
  possible. The exception of a torn decision is real: the recovery refuses it, the
  user has to delete the file.
- `CompletePackagesRetained` is checked with both switches set, the one configuration
  in which it could be wrong. `PruningLeavesOne` excepts publishers cut off after
  their gate: the code removes the old snapshots before it copies the new one.
- `StagingLeaksAreKnown` is as much as the code gives: a kill, a clean-up that fails, and
  the window between `mkdtemp` and the `try` leave a staging directory, the last an empty
  one. Nothing removes it later.
- `NoSurvivors` says "exited or was sent SIGKILL"; a process in an uninterruptible
  wait dies when the kernel lets it. It speaks of a termination that was started. An
  interrupt between `Popen` and the `try` (`streaming_command.py:170-200`) starts none
  and leaves the command running; it is not modelled.
- `ProvenanceIsOfTheCode` goes as far as the code does. `target` says whether a package is
  below the repository, was extracted over an earlier one, and is whole. In the
  repository the record is of the very tree, as it is for a package extracted whole into
  an empty directory; a package extracted whole over another carries every file of its
  commit. Nothing is claimed of a package below the repository whose manifest is not that
  of HEAD, nor of one cut over an older package; see section 6.
- `PackageIsComplete` does not say that packages grow: a later run over fewer records
  replaces the package by one with fewer units, each with its score.
- `NoWorkerLeft` excepts a supervisor that was killed and one that raised in the four
  assignments before its `try` (`unguarded`).
- `BatchIsClean` and `PhaseFailureRestores` are about the phase preflight and not about
  the block version (`kind`), whose attention scope clears its flag also when it could not
  give the processor back; see section 6.
- `GrowingIsCovered` and `WeakIsCovered` are what the look-ahead of the velocity budget
  is worth: it projects the energy of the step at hand, so a trajectory keeps its
  budget if reference energies do not fall or the strength is inside the share. That
  the guard means more is the disagreement `GuardMeansCovered`.
- `OrderedChainIsSound` holds for a chain whose stages ran in order; what a generation
  run again does to old records is `SketchIsOfReplayedVideo`.
- `ResidualDecides` and `NormDecides` say that a bound of the code can never bind: the
  cosine gate is implied by the residual gate, the energy budget by the norm budget at
  the registered ratios.
- `EvidenceIsOneRun` collects the run root, the replay of sources and the attacks,
  `SelectionsAreExact` the search and the motion threshold, `ThresholdsAreHeld` comparison
  and detector; each conjunct applies where its program runs.
- `FilterNeverRaises` has a premise. If the threshold of all static videos is over the
  first cutoff, the filters may raise it: a prompt that stays can have one seed of three
  over the cutoff, and when the scores left out lie below that one, the quantile of the
  rest may land on it. That the threshold is not itself over the cutoff, and a target rate
  of at most a quarter, are what the proof needs.
- Both `ThresholdIsLowest` say that the code's threshold is the least that keeps the target
  rate; the rate counts videos with any trial above it (`RateIsOfVideos`), not trials.
- `RateIsNear` states what the nearest rank really promises: the rate over the
  threshold exceeds its target by at most half a record. `FailMeansInseparable` is where
  that is not enough.

## 5. Proofs

Every invariant and every action property that a passing run checks is also proved, for
arbitrary constants under the named assumptions of the modules. Each module
proves one or more inductive invariants, action by action, and derives the listed
theorems from them. Each invariant was first checked by TLC on an instance.

**`ColabTestProofs`.** `IInv` adds to types and `ReturnedIsDurable` three facts:
`CurrentRun` (the running process has an identifier that was never used before and is
not acknowledged), `BootstrapBound` (from the bootstrap's creation to its removal it
names this run) and `Verified` (after each readback the directory it looked at is a
complete pair). It is needed because a rollback of an acknowledged run is excluded only
by the identity of the running process, not by any guard. From it `TypeCorrect`,
`CompletedRunsAreDurable`, `VisibleResultsWereVerified` (the rename is the only step
that makes a directory appear) and `SessionImplementsStore`: with `StoreInv` every step
maps to a step of `ResultStore` or to a stutter.

`EndInv`, on top of `IInv`, says what is left when a process ends, in whatever way.
`LocalFacts`: output root and bootstrap are of one run, which the create-only checks at
the start enforce, and a PASS decision beside an output root is that of an acknowledged
run. `StagingFacts`: a staging directory is being worked on,
was given up by a run that is known, or was left empty before the `try` statement.
`DriveFacts`: a bootstrap still `INITIALIZED_PENDING_RUNNER` has no result directory.
`BundleFacts`: the run of a packed bootstrap is over and unpublished. The properties
alone are not inductive: they speak of moments at which no process runs. From it
`StagingLeaksStayKnown`, `NoRunIsStranded`, `PackedBootstrapsAreUnpublished`,
`BundlesAreOfOneRun` and, of all three, `RecoveriesAreSound`.

**`StagePackageProofs`.** `IInv` has `OwnName` (two publishers never write under one
name), `OwnFiles` (what is there under that name at each step of the publisher),
`DriveOrder` (a growing ZIP has no manifest, a gated stage has no ZIP but of a
pass), `InputsKnown`, `Progress` and `ChosenFits`. From it `HandOffTypeCorrect`,
`StagesRunOnPassedInputs`, `BaselinesRestoreComplete` (when the legacy switch is off)
and `KeptPackagesRemain` (when KEEP is set). A second invariant, `Leaves`, adds
`Exclusive` (no two sessions are busy with one stage) and `OwnPackage` (a session
publishes a package of its own stage, complete when it comes to the manifest) to
`PruningLeavesOne`: a pruning publisher takes only packages of its own stage, is alone
on it, and stays busy with it until its own ZIP is complete or it is cut off. From it
`PublishedStaysRestorable`.

**`StreamingProofs`.** `QueueOrder` says that the queue holds exactly the lines that
were read and not printed, with the end mark last and only after the reader has
ended; `OutputEnded` that the reader ends, if every line decodes, only when nobody can
write; `Stage` and `Killed` relate the step of the main thread to why it stops and to
who was killed; `HelperShare` bounds the counters. From it `StreamingTypeCorrect`,
`ReturnCodesAreReal`, `AllLinesAreForwarded` (for `BadLines = {}`), `NothingSurvives`
and `StreamingImplementsRunner`, again for `BadLines = {}`: with an undecodable line
the refinement is as wrong as the run `streaming_undecodable` says.

**`ProgramsProofs`, `ExperimentProofs`, `ServerProofs`** are about `MCPrograms`. One
lemma per program (`RuntimeProjects` and the like) says that a step of the composition is
one of the program's own or leaves its variables alone; everything after it is about
the program's own `Next`.

- *Official runtime.* `RuntimeInv`: `KeptInOrder` accounts, for each stream, for every
  line between the pipe and the caller, with the end mark behind the last one;
  `ReadToTheEnd` says when a reader may have stopped; `CodeFacts` what a code rests
  on. From it `RuntimeStaysSafe` and, with the mapping of streams and queue to the
  abstract runner, `RuntimeImplementsRunner`.
- *Result promotion.* `PromotionInv`: `MarksHold` ties the flags `named`, `promoted` and
  `safe` to the place of the program and of the staging directory, `OutputIsOurs`
  says what may lie at the output while this run works, `NothingLeft` what is left
  behind without an error that says so. From it `PromotionStaysSafe` and
  `PromotionImplementsStore`, the second refinement of `ResultStore`.
- *Model load.* `PreflightInv`: `WorkerKnown` relates the step of the supervisor to the
  life of its own worker, `SuccessKnown` a state file to the worker that wrote it, an
  older worker that lives on included. From it `PreflightStaysSafe`, `PreflightRecordStays`.
- *Environment.* `SetupInv` (a readiness decided earlier holds until the source or the
  resource changes), `ProvenanceInv` (how far the copy is and
  which commit it was taken from, what a whole package and a package over another hold) and
  `CommandsInv` (a second application finds every value as it is) give
  `EnvironmentStaysRecorded` and `ApplyingAgainIsTheSame`.
- *Gate 0.* `CInv` says what the scopes have left behind at every point of a run:
  nothing of ours was captured as an original, and nothing is left on the model where a
  probe starts or a run returns. `ModelIsClean` follows although every restore may
  raise: a run whose restore failed never starts another probe. `BInv` is about
  energies. `BudgetIsKept`: a step spends only what its guard allows, a clean probe
  spends nothing, and the guard of the last step knows the reference energy of the
  whole video. `GInv` adds `SearchKnown` (the scale the scheduler is about to be given
  is one that both signs accepted) and `RecordsKnown`, for `GenerationStaysSound`.
- *Frame state.* `FramesInv`: `Steering` says which atom a patched scheduler carries,
  `Written` and `Decided` what is on the disk at each stage. From it `FramesStaySafe`
  and `FrameDecisionOnlyFalls`.
- *Public atom.* `AtomInv`: while no clean-up fails, all that is held is what open
  scopes hold; the notes are the errors after the first one. From it `AtomStaysSafe`
  and `AtomHooksComeLast`.
- *Scoring.* `ScoringInv`: the files of a unit hold only payloads of that unit, whoever
  wrote them and however late, and every record that is done is either unsupported or
  backed by its evidence file. From it `ScoringStaysSafe`.
- *Official references.* `ReferenceInv`: what the run has counted is what the bundle
  holds of it, and the videos scored are its own. From it the second half of
  `StagesStayPublished` and `PackagesAreReplacedWhole`.
- *Server.* `ServerInv`: `QueueKnown` (units no longer in the queue are delivered),
  `UnitStepKnown`, `ServerReportsKnown`, `WorkspaceKnown` (after a reset the run root
  holds files of this run alone) and `InputsKnown` (each input is absent or what
  Drive has). The last two are needed since the properties speak of a moment, the
  publication, that is many steps after the restore. From it the first half of
  `StagesStayPublished` and `ResetPublishesOwn`; `StepsStaySafe` collects the action
  properties of the programs.

**`EvidenceProofs`** is about `MCEvidence`; the gates stand first, as the module that one
extends. Each of the other programs has a projection lemma as above.

- *Gates.* The invariant says how far the plan that runs has come: which files are already
  of its gate run (`PlanIsFresh`), what a gate passed on (`GateIsBacked`,
  `GateIsRemembered`) and what the report speaks of (`ReportIsCurrent`). `NothingIsSkipped`
  is part of it, so that a passing gate inherits the profiles before it from the transition
  it read. From it `NoProfileIsSkipped`, `TransitionsAreOneRun`, `StaleReplayIsBlocked`,
  `CleanEvidenceRecovers`, `TypeCorrect` and, for the composition, `GatesAreSafe`.
- *Run root.* `ChainInv` says for every unit how far the newest generation was carried:
  what is made, recorded, replayed and sketched for it, and of which run, at each stage
  that is reached; a verified verdict compares two of these. The property speaks of
  sessions whose stages ran in order, and the bookkeeping of `fresh` is what makes that an
  induction.
- *Flow evidence.* `FlowInv`: matched pairs are of the plan, nothing is scored before
  every source was replayed, and the files of this run are a prefix of the order in which
  they are written, with the decision that the records support.
- *Attacks.* `AttackInv`: units are taken up in the order of the plan (`TakenUp`), the
  query rows of a unit are those that its record accounts for (`QueriesAreLogged`),
  and a decision is earned before the first file is written. With run root and flow
  evidence, `EvidenceStaysOneRun`.
- *Search.* `SearchInv`: no point is asked twice, the first rows are the ends or corners the
  code starts from, and every later row is one move of one coordinate from the best parent
  *of its time*. The last is about a prefix of the candidates, which no step changes. That
  the search never runs out of new points needs the grid to be fine enough for the budget
  (`StepsSuffice`); the audit recomputes what the search did by the same rule.
- *Motion.* `MotionInv` only says that what is frozen is `Clean(static)` and
  `ThresholdOf` of it. The rest is about these two, for any number of prompts and seeds:
  `Ranked(f, k)` is at most t iff at least k scores are. `RateOf`: rounding moves the
  rank by at most a half. `PromptsLeft`: if every prompt were contaminated, the upper
  middle score would be over the cutoff, and so would half of the deviations be over
  three times their own median. `TailLeaves`: the video at the third quartile stays.
  `PromptsTogether`: as half or more of each contaminated prompt is over the cutoff, an
  injection per prompt shows that no more is left out below the cutoff than above it,
  and `RankFalls` that the rank of the quantile then falls by at least as much as was
  left out below it. This proof refuted the first, unconditional form of
  `FilterNeverRaises`. With the search, `SelectionsStayExact`.
- *Comparison.* `FairnessInv`: at each step of a notebook the files before it are what this
  notebook makes of the score files it found (`StagesAreFresh`), and the thresholds are
  those of the files that were calibrated on (`basis`), whatever was measured since. That
  a threshold is the least one uses that finitely many scores have a greatest and a least.
- *Detector.* `DetectorInv`: a group's model is fitted on groups that are not it and
  that contain both hypotheses, and a session raises only if a fold lacks one
  (`FitIsSound`). The folds take the groups of each hypothesis in turn (`MemberOfRank`),
  so that three videos with controlled negatives always fit. With the comparison,
  `ThresholdsStayHeld`; `ThresholdStaysFrozen` is the action property, that a threshold
  changes only with the clean scores of its calibration split.

**`MechanismProofs`** is about `MCMechanisms`; the velocity runtime stands first, as the
module that one extends.

- *Velocity.* The budget is a promise about a future the runtime does not know.
  `CoveredAhead`: while reference energies grow, the control spent is at most the
  share of the reference that has passed plus that of the steps left at the energy of
  the last one; at the end no step is left. `WeakSoFar` is the analogue for strengths
  inside the share. `CountedSoFar` and `ReferenceIsPassed` tie the runtime's own counters
  to what was really spent. From it `GrowingAreCovered`, `WeakAreCovered`,
  `FormalIsAccounted`, `RestoredAlways`, `TypesAreKept`, and together `VelocityStaysSafe`.
- *Exposure.* `ExposureInv` keeps every row (`Traced`: it follows from the sums before
  it) and the ratio of the sums. The energy budget never decides because the control so
  far is within the share of the reference so far, which makes the square of the norm
  limit at most the energy left: a comparison of products, for every share and ratio
  (`NormLimitDecides`).
- *Projection.* `ProjectionInv`: until the direct attempt has failed nothing smaller was
  tried; in the backoff all that was seen has failed; in the refinement the best scale
  passed, `upper` failed, and nothing between them has been seen. With the exposure,
  `BudgetsStayKept`.
- *Preflights.* `PreflightInv`: `CountedAsPlanned` (the forwards counted are the first of
  the plan), `FlaggedIfLeft` (in the phase version a method left behind refuses the next
  forward, so all that was counted was clean) and `WindsUp` (what holds from the exit of
  the scope on). Also from it `ForeignErrorsAreRaised`.
- *Frozen feedback.* `FeedbackInv`: the wrapper compares sums of calls, and that each
  step made its own two follows because every earlier step was found even (`Even`,
  `CallsAddUp`); `Undecided` and `Staged` say what each stage has left on disk.
- *Impulse.* The properties speak of files of several runs in one directory, and a
  reader who accepts them is not protected by any lock. `RunsInOrder`: full checkpoints
  are of no later run than the generation records, the manifest of no later run than
  the checkpoints. Since acceptance asks that generation records and manifest are of
  one run, all three are (`AcceptedFollows`). `ImpulseStaged` and `ResultsWritten` say
  how far a series of writes has come, `ManifestsInOrder` when a manifest may be there.
  With preflights and feedback, `PipelinesStayGivenBack`.
- *Contract readers.* `ContractInv`: whatever edits came between, a configuration that
  was accepted, and one that was read again, had passed the digests of the code
  (`StaysChecked`). What a digest fixes differs per profile; sections under a
  digest are pinned exactly (`DigestedIsExact`), others at least equal the frozen ones for
  Python (`AuthorizationIsFrozen`, `WholeIsFrozen`).
- *Root cause.* `CauseInv` says what is on disk at each stage. That a linear response
  excludes the floor, and a late one that is the early one in scale a feedback, is
  arithmetic on three responses, for every size and amplitude (`Products`, `Cancelled`,
  `Proportional`).
- *Signed response.* The properties are about inner products of vectors of any
  dimension. `SumsExist` and `SumsAgree` give the sum over a dimension by its prefixes;
  from it the product is symmetric and bilinear, squares are at least 0, and `Cauchy` is
  the Cauchy-Schwarz inequality in integers. `GramIsDirect`: the gates taken from the
  Gram matrix and from the vectors agree. `ResidualFollows`: the cosine gate can never
  decide. `ReadyFollows`: a pair that is ready has a sign that can be read.
  `SameVerdict`: an offset on all outputs, the carrier's sign turned round and another
  order of the clean outputs leave the verdict as it was, which is the action property
  `VerdictIsOfCarrier`.
- *Six videos.* `SixVideoInv`: one call at a time is inside the output root, the files
  it has written are those of its stage (`PublishedBy`), what it read was validated
  unless a directory was edited (`ReadsValidated`), and a candidate on disk is of a call
  that has decided (`Decided`). The four together, `VerdictsStayBound`; the two action
  properties, `StepsStaySafe`.

`CallsAddUp`, the sums of the signed response and the count of the ranks are about
recursive functions and sizes. Induction as a rule is out of the prover's reach; it is
replaced by the least number at which a claim would fail, which the well-foundedness of the
natural numbers provides (`LeastNumber`).

Only model-checked, and for good, are the liveness properties `DamagedIsWithdrawn`,
`CommandFinishes` and `CallsEnd`: the prover does neither liveness under fairness nor
ENABLED. The formulas of section 6 in brackets are in no run and not proved; they do not
hold.

## 6. Disagreements between code and documents

The first three are runs that find the promise of a document, comment or test violated by
what the code does; `PROJECT.json` quotes the lines.

1. *A published run can be recovered* (`published_recovery`). `docs/field_registry.md:3665`
   says a published state must not enter recovery; the recovery looks only at the
   bootstrap (`colab_test_request.py:936`), which
   `_best_effort_close_published_bootstrap` (:802) removes before the server writes its
   decision. A kill in between leaves neither.
2. *The latest ZIP is not the latest complete one* (`stage_latest`).
   `latest_stage_package_zip` (docstring, `stage_package_sync.py:480`; notebook
   README:128) takes the greatest name. A copy cut off at :1536 shadows the complete
   package, and the stages after it stop with BadZipFile until the file is removed.
   External baselines are protected by their manifest, which is copied last.
3. *Not every line is forwarded* (`streaming_undecodable`). A line that is not valid
   text ends the reader of `run_streaming_command`; the rest of the output is dropped
   and the command is reported with its normal return code.

The others stand as formulas in the modules, named in brackets, beside what does hold;
they have no run of their own.

- *Output before a time-out is lost* (`OutputSaved`). The runner of official commands
  neither drains the queue nor waits for its readers
  (`official_runtime_progress.py:185`), although its docstring (:130) says both streams
  are kept completely.
- *A stage that fails leaves no decision* (`DecisionIsOfThisRun`). `SystemExit` passes
  `main`'s `except Exception` (`run_generative_video_server_workflow.py:718`): the file
  at `--decision-output` is missing or an earlier command's.
- *An old raw output is normalised* (`RawIsOfThisCommand`). The bridge asks only whether
  the raw output exists after the command returned 0 (`official_command_bridge.py:168`);
  nothing removes the file of an earlier comparison.
- *The recorded commit need not be the one used* (`RecordedCommitIsUsed`). The VideoMark
  runtime writes a literal commit (`videomark_official_runtime.py:601`), also for a
  checkout that failed.
- *A missing resource does not block* (`MissingResourceBlocks`). `ready_to_attempt` takes
  an alternative that is true for all six baselines (`official_runtime_closure.py:500`).
- *The record of a package need not be of the package.* Below the repository, where
  the extractor recommends its output (`extract_minimal_paper_package.py:224`), Git is
  asked before the manifest (`runtime_environment_preflight.py:89`): the record names HEAD
  (`PreflightReadsManifest`). An extraction over an earlier one removes nothing
  (`extract_minimal_paper_package.py:180`): leftovers stay, and one that is cut keeps the
  manifest of the older package (`RecordIsOfThePackage`). All of this is in the model
  (`target`); `ProvenanceIsOfTheCode` is what holds in spite of it.
- *The block-attention scope that fails to enter leaves `transformer.forward` patched*
  (`ScopeFailureRestores`), against `scope_failure_must_restore_original_binding` of its
  contract.
- *The velocity guard does not mean that the budget was kept* (`GuardMeansCovered`): it
  looks ahead with the energy of the step at hand (`velocity_field_constraint.py:137-185`).
- *The one-dimensional search does not follow its best candidate* (`LineFollowsBest`): it
  always halves the widest interval (`adaptive_video_optimizer.py:456`).
- *A sketch verifies for evidence measured on an older video* (`SketchIsOfReplayedVideo`):
  the trace identifier is the same for every generation run
  (`replay_and_sketch_gate.py:171`).
- *FAIL_NOT_SEPARABLE does not mean inseparable* (`FailMeansInseparable`): the nearest rank
  may miss its own target rate (`motion_threshold_calibration.py:174`).
- *The difference is not that of the two rates in its row* (`DifferenceIsOfRates`): videos
  weigh the same, whatever attacks they have (`formal_baseline_difference_interval.py:116`).
- *The low-FPR claim leaves out a blocked method* (`LowFprIsBacked`,
  `low_fpr_formal_statistics.py:63`).
- *The formality guard refuses a field that says there is no proxy*
  (`GuardFailsForWeakEvidence`, `paper_result_formality_guard.py:51`).

## 7. Not modelled, and what the plan has left

Left out for good: tensor arithmetic and floating-point statistics (out of TLC's
reach; energies, norms and small integer vectors stand for tensors where control
depends on them), third-party networks, schemas and single-pass validators without
state, packaging scripts and static audits of the repository, notebooks and
configuration, the Windows branch of the streaming command, progress output and wording.
The one-off measurement programs under `experiments/` that are not named in section 1
run once, alone and in order, and most are paused in the request allow-list. The split
guard, the reuse of the motion threshold, the output-feature gate and the arithmetic of
the frame-state control compute their result in one pass from their inputs.

In the modelled parts: the parsing of requests, which happens before any file is
written; the source build of a Colab request, which the allow-list has paused and `main`
refuses (`colab_test_request.py`); an interrupt of the streaming command between `Popen`
and its `try` (`streaming_command.py:170-200`); the rounding of thresholds to twelve digits
(`fair_detection_calibration.py:413`), which changes nothing because the scores arrive
rounded to six; the temporary file of `_atomic_write_json`; what is
inside a package; clocks; symbolic links that others put in place; two processes on one
output directory, which no caller starts, except in the Drive hand-off, where they are
modelled, and in the frame-state gate, where another process may replace a video. The
notes of `PROJECT.json` say per component what is abstracted.

Some hazards have no property. For each, `PROJECT.json` says why: mostly the code makes no
promise (a decision of an earlier run that stays when a later one was cut does not say
whose it is), and a property would be an invention.

Of the properties that the runs check nothing is left to prove but liveness. Of the plan,
the components that section 1 calls not modelled are left.
