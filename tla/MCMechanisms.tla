---------------------------- MODULE MCMechanisms ----------------------------
(*****************************************************************************)
(* The watermark mechanisms and the mechanism diagnostics: the velocity      *)
(* control, the response preflights, the frozen feedback, the output-feature *)
(* impulse with its exposure and its projection, the protocol contracts and  *)
(* the offline diagnostics.  They run one at a time on a pipeline or on an   *)
(* output directory of their own, so a behaviour is of one of them, chosen   *)
(* at the start, and the others stay as they were.                           *)
(*****************************************************************************)
EXTENDS FlowVelocityRuntime

CONSTANT Programs   \* those to check
CONSTANTS   \* sizes and bounds of the instances
    ResponsePairs, ResponseCalls, FeedbackSteps, FeedbackBranches, FeedbackRuns,
    Probes, Clean, ImpulseRuns, ImpulseSteps, Active, Positive, Descending, Share,
    EnergyRatio, Speeds, Losses, Grid, Backoffs, Refinements, Rounding, EnergyNorms,
    ContractEdits, Latents, LaterStages, HalfOutputs, FullOutputs, HalfAmplitudes,
    FullAmplitude, CauseStages, Dim, FirstClean, SecondClean, Driven, Predictions,
    Offsets, NoiseFloor, Calls, Intervals, SixVideoEdits, SixVideoFaults

VARIABLES
    program,
    (* of Preflight *)
    kind, preflightPc, calls, log, branches, base, todo, patched, inner, exc, record,
    completed, stuck, result,
    (* of Feedback *)
    feedbackPc, feedbackRun, feedbackCalls, steps, installed, latents, saved,
    feedbackDisk,
    (* of Impulse *)
    impulsePc, impulseRun, at, wrapped, done, failed, gate, video, impulseDisk,
    (* of Exposure *)
    status, exposureReference, exposureControl, rows,
    (* of Projection *)
    norm, direction, energy, phase, scale, upper, best, attempts, backoffs, rounds,
    seen,
    (* of Contract *)
    profile, code, file, stated, earlier, contractBase, config, runtime, again,
    stage, contractEdits,
    (* of Cause *)
    causePc, causeSource, polluted, latent, later, half, full, amplitude, working,
    written, decision, manifest,
    (* of Response *)
    out, predicted,
    (* of SixVideo *)
    sixvideoKind, sixvideoSource, copy, sixvideoPc, frames, found, sixvideoDisk,
    sixvideoEdits, faults

preflightVars == <<kind, preflightPc, calls, log, branches, base, todo, patched,
                   inner, exc, record, completed, stuck, result>>
feedbackVars == <<feedbackPc, feedbackRun, feedbackCalls, steps, installed, latents,
                  saved, feedbackDisk>>
impulseVars == <<impulsePc, impulseRun, at, wrapped, done, failed, gate, video,
                 impulseDisk>>
exposureVars == <<status, exposureReference, exposureControl, rows>>
projectionVars == <<norm, direction, energy, phase, scale, upper, best, attempts,
                    backoffs, rounds, seen>>
contractVars == <<profile, code, file, stated, earlier, contractBase, config,
                  runtime, again, stage, contractEdits>>
causeVars == <<causePc, causeSource, polluted, latent, later, half, full, amplitude,
               working, written, decision, manifest>>
responseVars == <<out, predicted>>
sixvideoVars == <<sixvideoKind, sixvideoSource, copy, sixvideoPc, frames, found,
                  sixvideoDisk, sixvideoEdits, faults>>

(* A strength beyond the energy budget, and one inside it as the default is. *)
MCStrengths == {[norm |-> 6, energy |-> 1], [norm |-> 1, energy |-> 2]}

(* Measured responses: the odd part, the common part and the size. *)
R(o, c, s) == [odd |-> o, common |-> c, size |-> s]
MCLatents == {R(40, 9, 41), R(80, 18, 82), R(24, 7, 25), R(3, 4, 5)}
MCLaterStages == {R(40, 9, 41), R(3, 4, 5)}
MCHalfOutputs == {R(12, 5, 13), R(24, 32, 40), R(3, 4, 5)}
MCFullOutputs == {R(24, 32, 40), R(0, 0, 0)}
MCHalfAmplitudes == [early |-> {5, 6}, late |-> {10, 12}]
MCFullAmplitude == [early |-> 10, late |-> 20]

(* Outputs of two dimensions. *)
MCFirstClean == {<<0, 0>>}
MCSecondClean == {<<0, 0>>, <<0, 1>>, <<2, 0>>, <<-1, 1>>}
MCDriven == {<<x, y>> : x \in {-3, -2, 0, 2, 3}, y \in {-1, 0, 1}}
MCPredictions == {<<2, 0>>, <<6, 0>>, <<5, 2>>, <<3, -1>>}
MCOffsets == {<<-2, 5>>}

-----------------------------------------------------------------------------
Preflight == INSTANCE ResponsePreflight WITH
    Pairs <- ResponsePairs, MaxCalls <- ResponseCalls, pc <- preflightPc

Feedback == INSTANCE FrozenFeedback WITH
    Steps <- FeedbackSteps, Branches <- FeedbackBranches, MaxRuns <- FeedbackRuns,
    pc <- feedbackPc, run <- feedbackRun, calls <- feedbackCalls, disk <- feedbackDisk

Impulse == INSTANCE ImpulseConstruction WITH
    MaxRuns <- ImpulseRuns, pc <- impulsePc, run <- impulseRun, disk <- impulseDisk

Exposure == INSTANCE ImpulseExposure WITH
    Steps <- ImpulseSteps, reference <- exposureReference, control <- exposureControl

Projection == INSTANCE ImpulseProjection

Contract == INSTANCE ProtocolContract WITH
    Edits <- ContractEdits, base <- contractBase, edits <- contractEdits

Cause == INSTANCE RootCauseDiagnostic WITH
    Stages <- CauseStages, pc <- causePc, source <- causeSource

Response == INSTANCE SignedResponse

SixVideo == INSTANCE SixVideoDiagnostic WITH
    MaxEdits <- SixVideoEdits, MaxFaults <- SixVideoFaults, kind <- sixvideoKind,
    source <- sixvideoSource, pc <- sixvideoPc, disk <- sixvideoDisk,
    edits <- sixvideoEdits

ASSUME InstancesAssumption ==
    /\ Preflight!PreflightAssumption
    /\ Feedback!CountsAssumption
    /\ Impulse!PlanAssumption
    /\ Exposure!StepAssumption
    /\ Exposure!SpeedAssumption
    /\ Exposure!BudgetAssumption
    /\ Projection!SearchAssumption
    /\ Contract!ProtocolContractAssumption
    /\ Cause!ResponseAssumption
    /\ Cause!AmplitudeAssumption
    /\ Response!VectorsAssumption
    /\ SixVideo!SixVideoAssumption

-----------------------------------------------------------------------------
(* A program that is not the one under study is in a state it starts from. *)
Start ==
    /\ program \in Programs
    /\ Init /\ (program # "velocity" =>
           carrier = "endpoint" /\ strength = CHOOSE s \in Strengths : TRUE)
    /\ Preflight!Init /\ (program # "preflight" => kind = "phase")
    /\ Feedback!Init
    /\ Impulse!Init
    /\ Exposure!Init
    /\ IF program = "projection" THEN Projection!Init
       ELSE /\ norm = [k \in 1 .. Grid |-> k] /\ direction = [k \in 1 .. Grid |-> TRUE]
            /\ energy = Grid /\ phase = "direct" /\ scale = Grid /\ upper = Grid
            /\ best = 0 /\ attempts = 1 /\ backoffs = 0 /\ rounds = 0 /\ seen = {Grid}
    /\ IF program = "contract" THEN Contract!Init
       ELSE /\ profile = "frame_state" /\ code = Contract!Frozen /\ file = code
            /\ stated = code /\ earlier = Contract!NoKey /\ contractBase = "frozen"
            /\ config = Contract!NoFile /\ runtime = "none" /\ again = Contract!NoFile
            /\ stage = "load" /\ contractEdits = 0
    /\ IF program = "cause" THEN Cause!Init
       ELSE /\ causePc = "validate" /\ causeSource = {}
            /\ latent = [p \in Cause!Pairs |-> Cause!Zero]
            /\ later = [s \in CauseStages |-> Cause!Zero]
            /\ half = [p \in Cause!Pairs |-> Cause!Zero]
            /\ full = [p \in Cause!Pairs |-> Cause!Zero]
            /\ amplitude = [p \in Cause!Pairs |-> 0] /\ polluted = FALSE /\ working = TRUE
            /\ written = "none" /\ decision = Cause!NoDecision /\ manifest = FALSE
    /\ IF program = "response" THEN Response!Init
       ELSE /\ predicted = [k \in 1 .. Dim |-> 0] /\ out = [i \in Response!Ids |-> predicted]
    /\ IF program = "sixvideo" THEN SixVideo!Init
       ELSE /\ sixvideoKind = "zip" /\ sixvideoSource = [p \in SixVideo!Parts |-> "frozen"]
            /\ copy = [c \in Calls |-> [p \in SixVideo!Parts |-> SixVideo!Nothing]]
            /\ sixvideoPc = [c \in Calls |-> "start"]
            /\ frames = [c \in Calls |-> [v \in SixVideo!Videos |-> SixVideo!Nothing]]
            /\ found = [c \in Calls |-> SixVideo!NoRecords]
            /\ sixvideoDisk = SixVideo!NoRoot /\ sixvideoEdits = 0 /\ faults = 0

(* All the programs but one stand still. *)
Rest ==
    /\ UNCHANGED program
    /\ IF program = "velocity" THEN TRUE ELSE UNCHANGED vars
    /\ IF program = "preflight" THEN TRUE ELSE UNCHANGED preflightVars
    /\ IF program = "feedback" THEN TRUE ELSE UNCHANGED feedbackVars
    /\ IF program = "impulse" THEN TRUE ELSE UNCHANGED impulseVars
    /\ IF program = "exposure" THEN TRUE ELSE UNCHANGED exposureVars
    /\ IF program = "projection" THEN TRUE ELSE UNCHANGED projectionVars
    /\ IF program = "contract" THEN TRUE ELSE UNCHANGED contractVars
    /\ IF program = "cause" THEN TRUE ELSE UNCHANGED causeVars
    /\ IF program = "response" THEN TRUE ELSE UNCHANGED responseVars
    /\ IF program = "sixvideo" THEN TRUE ELSE UNCHANGED sixvideoVars

VelocityStep == program = "velocity" /\ Next /\ Rest
PreflightStep == program = "preflight" /\ Preflight!Next /\ Rest
FeedbackStep == program = "feedback" /\ Feedback!Next /\ Rest
ImpulseStep == program = "impulse" /\ Impulse!Next /\ Rest
ExposureStep == program = "exposure" /\ Exposure!Next /\ Rest
ProjectionStep == program = "projection" /\ Projection!Next /\ Rest
ContractStep == program = "contract" /\ Contract!Next /\ Rest
CauseStep == program = "cause" /\ Cause!Next /\ Rest
ResponseStep == program = "response" /\ Response!Next /\ Rest
SixVideoStep == program = "sixvideo" /\ SixVideo!Next /\ Rest

SomeStep ==
    \/ VelocityStep \/ PreflightStep \/ FeedbackStep \/ ImpulseStep
    \/ ExposureStep \/ ProjectionStep \/ ContractStep \/ CauseStep
    \/ ResponseStep \/ SixVideoStep

allVars == <<program, vars, preflightVars, feedbackVars, impulseVars, exposureVars,
             projectionVars, contractVars, causeVars, responseVars, sixvideoVars>>

AllSpec == Start /\ [][SomeStep]_allVars

-----------------------------------------------------------------------------
(* What a diagnostic does to the shared pipeline.  A batch of responses has  *)
(* exactly its planned forwards and leaves nothing of a candidate behind; a  *)
(* scope that fails has restored the pipeline or says so; feedback and       *)
(* impulse runs record a video, an array or a manifest only with all that it *)
(* speaks of, of one run, and a failure beside no result.                    *)
PipelinesAreGivenBack ==
    /\ program = "preflight" =>
           /\ Preflight!TypeOK
           /\ Preflight!BatchIsPlanned
           /\ Preflight!BatchIsClean
           /\ Preflight!PhaseFailureRestores
    /\ program = "feedback" =>
           /\ Feedback!TypeOK
           /\ Feedback!StepOwnsItsCalls
           /\ Feedback!RowsAreSaved
           /\ Feedback!RecordedIsWhole
           /\ Feedback!FailureStandsAlone
    /\ program = "impulse" =>
           /\ Impulse!TypeOK
           /\ Impulse!SchedulerIsGivenBack
           /\ Impulse!RowsHaveTheirVideo
           /\ Impulse!ManifestIsLast
           /\ Impulse!AcceptedIsOneRun

(* The impulse.  The norm budget decides and never the energy budget, what   *)
(* is spent is covered, the audit finds what the run found and every active  *)
(* step drives the planned way; the scale selected is the largest seen to    *)
(* pass, with the next larger one refused, and passes the guards it is later *)
(* held to.                                                                  *)
BudgetsAreKept ==
    /\ program = "exposure" =>
           /\ Exposure!TypeOK
           /\ Exposure!NormDecides
           /\ Exposure!SpentIsCovered
           /\ Exposure!AuditAgrees
           /\ Exposure!ScheduleIsDriven
    /\ program = "projection" =>
           /\ Projection!TypeOK
           /\ Projection!SelectedIsBestSeen
           /\ Projection!SelectedIsTight
           /\ Projection!SelectionIsAccepted

(* The contracts and the offline diagnostics.  A run holds a configuration   *)
(* that means the frozen one, which no new digest opens and on which all     *)
(* readers agree; a classification stands on the result it speaks of and on  *)
(* statistics that exclude its alternatives; both ways to a norm agree and a *)
(* response that is ready stands out from the noise; an output root is of    *)
(* one call, and its outcome is of what that call validated.                 *)
VerdictsAreBound ==
    /\ program = "contract" =>
           /\ Contract!TypeOK
           /\ Contract!RunsAreFrozen
           /\ Contract!NewDigestOpensNothing
           /\ Contract!ReadersAgree
    /\ program = "cause" =>
           /\ Cause!DecisionIsBound
           /\ Cause!LinearExcludesFloor
           /\ Cause!ScaleIsNoFeedback
           /\ Cause!PollutedAllowsNothing
    /\ program = "response" =>
           /\ Response!GramAgrees
           /\ Response!ResidualDecides
           /\ Response!ReadyIsReadable
    /\ program = "sixvideo" =>
           /\ SixVideo!TypeOK
           /\ SixVideo!OneCallPerRoot
           /\ SixVideo!AnalysedIsValidated
           /\ SixVideo!CandidateIsBacked
           /\ SixVideo!OutcomeIsOnDisk

(* What a step may not do: end a preflight without raising the foreign       *)
(* exception on its way out, or give another verdict on the same outputs     *)
(* reversed, reordered or shifted.                                           *)
StepsAreSafe ==
    /\ Preflight!ErrorIsRaised
    /\ Response!VerdictIsOfCarrier
=============================================================================
