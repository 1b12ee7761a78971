----------------------------- MODULE MCPrograms -----------------------------
(*****************************************************************************)
(* The programs whose life cycle matters most: they start workers and        *)
(* official commands, patch a live pipeline, stage and promote results, and  *)
(* must come to an end whatever fails.  They share no state, so a behaviour  *)
(* is of one of them, chosen at the start; the others stay as they were.     *)
(* One run of TLC checks them all on small instances.                        *)
(*****************************************************************************)
EXTENDS PatchRelationProbe

CONSTANT Programs   \* those to check
CONSTANTS   \* sizes and bounds of the instances
    ChildLines, HelperLines, PipeCapacity, BadLines, Attempts, CacheChanges, Ledger,
    MaxExceptions, ScoringUnits, ScoringRoots, ScoringKinds, ScoringRounds,
    PromotionRuns, SetupFaults, FrameFaults, AtomIterations, AtomFaults, ServerRuns,
    ReferenceUnits, ProvenanceEvents

VARIABLES
    program,
    (* of Runtime *)
    child, exitCode, helper, holders, killed, left, runtimeWritten, taken, reading,
    queue, runtimePc, timed, runtimeLate, kept, closed, rc,
    (* of Preflight *)
    proc, code, marks, signals, stateFile, cache, call, preflightPc, seen, stalled,
    preflightLate, outcome, final, preflightDecision, preflightManifest, exceptions,
    unguarded,
    (* of Scoring *)
    round, command, scoringPc, scoringTodo, unit, scoringBundle, output, raw,
    orphans, records,
    (* of Promotion *)
    promotionPc, promotionRun, out, place, content, fd, named, promoted, safe, dirty,
    returned, withdrawn,
    (* of Setup *)
    setupSource, resource, setupDecision, closure, bound, setupPc, setupRun, git,
    status, setupBundle, setupManifest, online, setupFaults,
    (* of Frames *)
    stage, at, patched, atom, trace, atomOf, disk, altered, verdict, framesFaults,
    lost,
    (* of Atom *)
    open, phase, held, iteration, atomFaults, error, notes, cut,
    (* of Server *)
    serverRun, serverArgs, serverPc, serverTodo, step, report, finished, local,
    drive, serverDecision, exit, kills,
    (* of OfficialReference *)
    kind, referenceRun, referencePc, selected, generated, failed, pairs, pairFailed,
    referenceWritten, referenceSource, attacked, referenceBundle, referenceManifest,
    referenceDecision, referencePackage,
    (* of Commands *)
    given, env, flags, required, templates, session, commandsSource,
    commandsDecision, starts,
    (* of Provenance *)
    head, work, provenancePackage, provenanceManifest, target, copy, branch,
    provenanceArgs, ran, artifact, events

runtimeVars == <<child, exitCode, helper, holders, killed, left, runtimeWritten,
                 taken, reading, queue, runtimePc, timed, runtimeLate, kept, closed,
                 rc>>
preflightVars == <<proc, code, marks, signals, stateFile, cache, call, preflightPc,
                   seen, stalled, preflightLate, outcome, final, preflightDecision,
                   preflightManifest, exceptions, unguarded>>
scoringVars == <<round, command, scoringPc, scoringTodo, unit, scoringBundle, output,
                 raw, orphans, records>>
promotionVars == <<promotionPc, promotionRun, out, place, content, fd, named,
                   promoted, safe, dirty, returned, withdrawn>>
setupVars == <<setupSource, resource, setupDecision, closure, bound, setupPc,
               setupRun, git, status, setupBundle, setupManifest, online,
               setupFaults>>
framesVars == <<stage, at, patched, atom, trace, atomOf, disk, altered, verdict,
                framesFaults, lost>>
atomVars == <<open, phase, held, iteration, atomFaults, error, notes, cut>>
serverVars == <<serverRun, serverArgs, serverPc, serverTodo, step, report, finished,
                local, drive, serverDecision, exit, kills>>
referenceVars == <<kind, referenceRun, referencePc, selected, generated, failed,
                   pairs, pairFailed, referenceWritten, referenceSource, attacked,
                   referenceBundle, referenceManifest, referenceDecision,
                   referencePackage>>
commandsVars == <<given, env, flags, required, templates, session, commandsSource,
                  commandsDecision, starts>>
provenanceVars == <<head, work, provenancePackage, provenanceManifest, target, copy,
                    branch, provenanceArgs, ran, artifact, events>>

MCPlan == <<0, 1>>
MCBadLines == {<<"stderr", 2>>}
MCRoots == <<"current">>

(* Two ordinary roles, a baseline and the gate, and the pipelines that run  *)
(* the baseline and the comparison alone.                                   *)
MCPipelines == [complete |-> <<"gen", "base1", "cmp", "gate">>,
                references |-> <<"base1">>, comparison |-> <<"cmp">>]
MCRequires == [gen |-> << >>, base1 |-> <<"gen">>,
               cmp |-> <<"gen", "base1">>, gate |-> <<"gen", "cmp">>]
MCStagePlan ==
    [gen |-> <<"generation", "drive_packaging">>, base1 |-> <<"reference">>,
     cmp |-> <<"comparison", "quick_tests_and_harness", "drive_packaging">>,
     gate |-> <<"motion_threshold_reuse_check", "drive_packaging">>]

(* Two attacks on one pair of prompt and seed, and one on another. *)
MCGroup == [u \in ReferenceUnits |-> IF u = "b1" THEN "b" ELSE "a"]

-----------------------------------------------------------------------------
Runtime == INSTANCE OfficialRuntime WITH
    written <- runtimeWritten, pc <- runtimePc, late <- runtimeLate

Preflight == INSTANCE ModelLoadPreflight WITH
    pc <- preflightPc, late <- preflightLate, decision <- preflightDecision,
    manifest <- preflightManifest

Scoring == INSTANCE OfficialScoring WITH
    Units <- ScoringUnits, Roots <- ScoringRoots, Kinds <- ScoringKinds,
    MaxRounds <- ScoringRounds, pc <- scoringPc, todo <- scoringTodo,
    bundle <- scoringBundle

Promotion == INSTANCE SuccessPromotion WITH
    MaxRuns <- PromotionRuns, pc <- promotionPc, run <- promotionRun

Setup == INSTANCE OfficialSetup WITH
    Pin <- "pin", Tip <- "tip", Fitting <- {"pin"}, NeedsResource <- TRUE,
    AutoSupported <- TRUE, MaxFaults <- SetupFaults, source <- setupSource,
    decision <- setupDecision, pc <- setupPc, run <- setupRun, bundle <- setupBundle,
    manifest <- setupManifest, faults <- setupFaults

Frames == INSTANCE FrameStateGate WITH
    MaxFaults <- FrameFaults, faults <- framesFaults

Atom == INSTANCE PublicAtom WITH
    Iterations <- AtomIterations, MaxFaults <- AtomFaults, faults <- atomFaults

Server == INSTANCE ServerWorkflow WITH
    Pipelines <- MCPipelines, Baselines <- {"base1"}, Gated <- {"gate"},
    Requires <- MCRequires, StagePlan <- MCStagePlan,
    Helpers <- {"reference", "motion_threshold_reuse_check"},
    ExtractedPackage <- TRUE, MaxRuns <- ServerRuns, MaxKills <- 1, run <- serverRun,
    args <- serverArgs, pc <- serverPc, todo <- serverTodo,
    decision <- serverDecision

OfficialReference == INSTANCE BaselineReference WITH
    Units <- ReferenceUnits, Groups <- {"a", "b"}, Group <- MCGroup, MaxRuns <- 2,
    run <- referenceRun, pc <- referencePc, written <- referenceWritten,
    source <- referenceSource, bundle <- referenceBundle,
    manifest <- referenceManifest, decision <- referenceDecision,
    package <- referencePackage

Commands == INSTANCE BaselineCommands WITH
    Baselines <- {"b1", "b2"}, Root <- "root", Older <- {"older"}, Starts <- 2,
    source <- commandsSource, decision <- commandsDecision

Provenance == INSTANCE RuntimeProvenance WITH
    MaxEvents <- ProvenanceEvents, package <- provenancePackage,
    manifest <- provenanceManifest, args <- provenanceArgs

ASSUME InstancesAssumption ==
    /\ Runtime!RuntimeAssumption
    /\ Preflight!PreflightAssumption
    /\ Scoring!OfficialScoringAssumption
    /\ Promotion!RunsAssumption
    /\ Setup!SetupAssumption
    /\ Frames!GateConstants
    /\ Atom!AtomConstants
    /\ Server!UnitsAssumption
    /\ Server!ServerBoundsAssumption
    /\ OfficialReference!ReferenceAssumption
    /\ Commands!BaselineCommandsAssumption
    /\ Provenance!ProvenanceAssumption

-----------------------------------------------------------------------------
(* A program that is not the one under study is in a state it starts from. *)
Start ==
    /\ program \in Programs
    /\ Init
    /\ Runtime!Init /\ (program # "runtime" => ~timed)
    /\ Preflight!Init
    /\ Scoring!Init /\ (program # "scoring" => unit = "u1"
           /\ scoringBundle = <<[u \in ScoringUnits |-> Scoring!NoFile]>>)
    /\ Promotion!Init
    /\ Setup!Init /\ (program # "setup" => setupSource = "absent" /\ online)
    /\ Frames!Init
    /\ Atom!Init
    /\ Server!Init
    /\ OfficialReference!Init /\ (program # "reference" => kind = "vidsig")
    /\ IF program = "commands" THEN Commands!Init
       ELSE /\ env = [outer |-> [b \in {"b1", "b2"} |-> "empty"],
                     inner |-> [b \in {"b1", "b2"} |-> "unset"], roots |-> <<>>]
            /\ given = env /\ flags = [n \in Commands!Names |-> TRUE]
            /\ required = {"b1"} /\ templates = [bridge |-> {}, adapter |-> {}]
            /\ session = "idle" /\ commandsSource = env.inner
            /\ commandsDecision = [d \in {"bridge", "commands", "environment"} |-> "earlier"]
            /\ starts = 0
    /\ program = "commands" => /\ env.outer["b2"] = "bridge"
                              /\ env.inner["b2"] = "unset" /\ "b2" \in required
    /\ Provenance!Init

(* All the programs but one stand still. *)
Rest ==
    /\ UNCHANGED program
    /\ IF program = "probe" THEN TRUE ELSE UNCHANGED vars
    /\ IF program = "runtime" THEN TRUE ELSE UNCHANGED runtimeVars
    /\ IF program = "preflight" THEN TRUE ELSE UNCHANGED preflightVars
    /\ IF program = "scoring" THEN TRUE ELSE UNCHANGED scoringVars
    /\ IF program = "promotion" THEN TRUE ELSE UNCHANGED promotionVars
    /\ IF program = "setup" THEN TRUE ELSE UNCHANGED setupVars
    /\ IF program = "frames" THEN TRUE ELSE UNCHANGED framesVars
    /\ IF program = "atom" THEN TRUE ELSE UNCHANGED atomVars
    /\ IF program = "server" THEN TRUE ELSE UNCHANGED serverVars
    /\ IF program = "reference" THEN TRUE ELSE UNCHANGED referenceVars
    /\ IF program = "commands" THEN TRUE ELSE UNCHANGED commandsVars
    /\ IF program = "provenance" THEN TRUE ELSE UNCHANGED provenanceVars

ProbeStep == program = "probe" /\ Next /\ Rest
RuntimeStep == program = "runtime" /\ Runtime!Next /\ Rest
PreflightStep == program = "preflight" /\ Preflight!Next /\ Rest
ScoringStep == program = "scoring" /\ Scoring!Next /\ Rest
PromotionStep == program = "promotion" /\ Promotion!Next /\ Rest
SetupStep == program = "setup" /\ Setup!Next /\ Rest
FramesStep == program = "frames" /\ Frames!Next /\ Rest
AtomStep == program = "atom" /\ Atom!Next /\ Rest
ServerStep == program = "server" /\ Server!Next /\ Rest
OfficialReferenceStep == program = "reference" /\ OfficialReference!Next /\ Rest
CommandsStep == program = "commands" /\ Commands!Next /\ Rest
ProvenanceStep == program = "provenance" /\ Provenance!Next /\ Rest

SomeStep ==
    \/ ProbeStep \/ RuntimeStep \/ PreflightStep \/ ScoringStep \/ PromotionStep
    \/ SetupStep \/ FramesStep \/ AtomStep \/ ServerStep \/ OfficialReferenceStep
    \/ CommandsStep \/ ProvenanceStep

allVars == <<program, vars, runtimeVars, preflightVars, scoringVars, promotionVars, setupVars,
             framesVars, atomVars, serverVars, referenceVars, commandsVars,
             provenanceVars>>

AllSpec == Start /\ [][SomeStep]_allVars

(* The program's own thread goes on: a caller, a supervisor, an adapter, a  *)
(* notebook.  Kills, interrupts, outages, and what   *)
(* workers and official commands do belong to the environment.              *)
GoesOn ==
    /\ \/ program = "runtime" /\ Runtime!CallerStep
       \/ program = "preflight" /\ Preflight!SupervisorStep
       \/ program = "scoring" /\ Scoring!Adapter
       \/ program = "setup" /\ (Setup!Begin \/ Setup!Intake \/ Setup!Bootstrap \/ Setup!Attempt)
    /\ Rest

(* A time limit that was given passes. *)
LimitPasses ==
    /\ \/ program = "runtime" /\ Runtime!DeadlinePasses
       \/ program = "preflight" /\ Preflight!OverallTimeoutPasses
    /\ Rest

(* SIGKILL works in the end. *)
KilledDies ==
    /\ \/ program = "runtime" /\ killed /\ Runtime!ChildExits
       \/ /\ program = "preflight"
          /\ \E c \in Preflight!Calls : "KILL" \in signals[c] /\ Preflight!WorkerDies(c)
    /\ Rest

FairSpecification ==
    AllSpec /\ WF_allVars(GoesOn) /\ WF_allVars(LimitPasses) /\ WF_allVars(KilledDies)

-----------------------------------------------------------------------------
(* An official command.  A reported return code is the command's own, never *)
(* that of one that still runs, and only a passed deadline replaces it; and  *)
(* a command that returned has had all its output kept, on both streams, its *)
(* helpers' lines included (run_official_subprocess_with_heartbeat).         *)
RuntimeIsSafe == program = "runtime" =>
    /\ Runtime!TypeOK
    /\ Runtime!CodeIsReal
    /\ Runtime!OutputComplete

(* A normal return of run_official_subprocess_with_heartbeat is one that     *)
(* the abstract command runner allows.                                       *)
ImplementsRunner == Runtime!ImplementsRunner

(* A supervised model load.  Its PASS is that of the call's own worker, with *)
(* its whole ledger, reaped with 0, and never of one that was told to stop;  *)
(* a call that is over has left no worker on the GPU, unless an exception    *)
(* struck before its try block or in its clean-up.                           *)
PreflightIsSafe == program = "preflight" =>
    /\ Preflight!TypeOK
    /\ Preflight!PassIsReal
    /\ Preflight!NoPassAfterTimeout
    /\ Preflight!NoWorkerLeft

(* A formal comparison.  A measured score rests on a payload of its own unit *)
(* that lacks nothing and that its evidence file still holds, late writers   *)
(* included; a comparison that ends has one verdict for every unit.          *)
ScoringIsSafe == program = "scoring" =>
    /\ Scoring!TypeOK
    /\ Scoring!MeasuredIsFormal
    /\ Scoring!EvidenceBacksRecord
    /\ Scoring!EndHasAllRecords

(* The published phase response.  No reader finds a failure decision beside  *)
(* artifacts of a success, though a roll-back may raise half-way; and a run  *)
(* that raised has left exactly its failure decision.                        *)
PromotionIsSafe == program = "promotion" =>
    /\ Promotion!TypeOK
    /\ Promotion!NeverBoth
    /\ Promotion!FailureIsAlone

(* The frame state experiment.  No measured video was steered along the      *)
(* placeholder, the scheduler is patched only while a video is generated, a  *)
(* decision that passes stands on the complete experiment, a manifest agrees *)
(* with the decision beside it, and a run that raised leaves no PASS.        *)
FramesAreSafe == program = "frames" =>
    /\ Frames!TypeOK
    /\ Frames!SteeredByPublicAtom
    /\ Frames!SchedulerIsBack
    /\ Frames!PassIsBacked
    /\ Frames!ManifestAgrees
    /\ Frames!RaisedDoesNotPass

(* The construction of the public atom.  One that is returned is complete    *)
(* and has left the pipeline as it was; no clean-up covers up why it failed, *)
(* no error is lost, and every decode starts with an empty causal cache.     *)
AtomIsSafe == program = "atom" =>
    /\ Atom!TypeOK
    /\ Atom!ReturnedIsRestored
    /\ Atom!FirstErrorIsSeen
    /\ Atom!NothingIsLost
    /\ Atom!DecodesStartClean
    /\ Atom!ReturnedIsComplete

(* What an official run starts from.  A source reported as synced is at its  *)
(* frozen commit, a bound resource is a file, no bundle is of a tree without *)
(* its source files; children find the commands a PASS speaks of and a user's *)
(* command wins; the model revision on record is the one that ran, in the    *)
(* record of the same call, and so is the commit of the repository and of a  *)
(* whole package that is outside it or has a manifest that names the commit; *)
(* a package extracted over an earlier one may hold leftovers besides.       *)
EnvironmentIsRecorded ==
    /\ program = "setup" =>
           /\ Setup!TypeOK
           /\ Setup!SyncedIsPinned
           /\ Setup!BoundIsThere
           /\ Setup!MadeFromWholeTree
    /\ program = "commands" =>
           /\ Commands!TypeOK
           /\ Commands!PassedChildrenRun
           /\ Commands!FailedChildrenDoNot
           /\ Commands!UserCommandWins
           /\ Commands!FailureIsRecorded
           /\ Commands!RootsAreKept
    /\ program = "provenance" =>
           /\ Provenance!TypeOK
           /\ Provenance!ProvenanceIsOfTheCode
           /\ Provenance!ModelIsTheRecorded
           /\ Provenance!OnlyPassedRuns
           /\ Provenance!RecordIsOfThisCall

(* A server run.  A PASS means that every unit of the pipeline was published, *)
(* each made from the packages it restored, with the timing report of its    *)
(* own run; no report says running once its command has ended; and the       *)
(* decision and the package of a reference are of one run.                   *)
StagesArePublished ==
    /\ program = "server" =>
           /\ Server!TypeOK
           /\ Server!PassMeansPublished
           /\ Server!InputsAreThePackages
           /\ Server!PackagedReportIsOwn
           /\ Server!ReportSettles
    /\ program = "reference" =>
           /\ OfficialReference!TypeOK
           /\ OfficialReference!DecisionIsExact
           /\ OfficialReference!PackageIsOneRun

(* What a step may not do: rewrite the record a decision was taken from,     *)
(* publish a result otherwise than the result store does, give the offload   *)
(* hooks back before the VAE, publish files older than a reset, replace the   *)
(* package of a reference by one that lacks the bundle of a unit it names,   *)
(* or change anything by a repeated cell.                                    *)
StepsAreSafe ==
    /\ Preflight!RecordStays
    /\ Promotion!ImplementsResultStore
    /\ Atom!HooksComeLast
    /\ Server!ResetPublishesOwnFiles
    /\ OfficialReference!PackageIsComplete
    /\ Commands!RepeatedIsTheSame

(* What waits for somebody else comes to an end: a command with a deadline,  *)
(* whatever its child and helpers do; a supervised load, however the worker  *)
(* hangs; a comparison, whatever the official command does; and a source     *)
(* that can be reached is pinned, however earlier runs were cut.             *)
CallsEnd ==
    /\ program = "runtime" => Runtime!DeadlineEndsTheCall
    /\ program = "preflight" => Preflight!SupervisionEnds
    /\ program = "scoring" => Scoring!ComparisonEnds
    /\ program = "setup" => Setup!ReachableIsPinned
=============================================================================
