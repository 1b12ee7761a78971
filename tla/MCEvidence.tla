----------------------------- MODULE MCEvidence -----------------------------
(*****************************************************************************)
(* From the videos of a run to a claim: the gates of the result profiles,    *)
(* the chain of evidence of one run root, the flow evidence, the adaptive    *)
(* attacks with their search, the fair comparison and the calibrations.      *)
(* They meet only in the files one leaves and the next reads, which each     *)
(* module has as its input; so a behaviour is of one of them, chosen at the  *)
(* start, and the others stay as they were.                                  *)
(*****************************************************************************)
EXTENDS ProfileGate, Sequences, FiniteSets

CONSTANTS
    Programs,   \* those to check
    (* of Chain; revisions by whether the profile is a mechanism validation *)
    ChainUnits, ChainRuns, Revisions, ChainRevisions,
    (* of Flow *)
    Tests, Calibrations, Maximum, TrialCount, NeededClusters, Losses, FlowFailures,
    (* of Adaptive *)
    Retention, Spoof, AttackRuns, AttackFailures, Late, Accepted,
    (* of Search *)
    Grid, Halves, Budget, Checkpoints, Bases, Answers,
    (* of Fairness *)
    Sstw, Baselines, Paired, Cells, Split, Attacks, Measurements, TargetNum, TargetDen,
    MinClean, MinCalibration, MinHeldout, MinPositive, GenerationNegatives,
    (* of Detector *)
    Clusters, MaximumFolds, Levels, Share,
    (* of Motion *)
    Prompts, SeedCount, PositiveCount, Unit, ScoreSteps, FprNum, FprDen, MotionDeltaMin,
    MinNegative, MinMotion, MinPasses, EnoughSeeds, EnoughRecords

VARIABLES
    program,
    (* of Chain *)
    failFast, stage, left, made, chainRun, revision, video, chainRecords, sketches,
    chainDecision, attacked, attacks, chainEvidence, verdicts, fresh,
    (* of Flow *)
    generated, revisionsAgree, flowOutcome, flowSession, result, flowDisk,
    (* of Adaptive *)
    attacksRun, phase, todo, attacksRecords, queries, failures, faults,
    attacksDecision, attacksDisk,
    (* of Search *)
    kind, objective, base, candidates, searchOutcome,
    (* of Fairness *)
    upstream, scores, fair, comparison, difference, confidence, lowFpr, notebook, pc,
    basis,
    (* of Detector *)
    labels, fold, model, inner, trials, detectorSession,
    (* of Motion *)
    static, motion, ready, audit

chainVars == <<failFast, stage, left, made, chainRun, revision, video, chainRecords,
               sketches, chainDecision, attacked, attacks, chainEvidence, verdicts,
               fresh>>
flowVars == <<generated, revisionsAgree, flowOutcome, flowSession, result, flowDisk>>
attacksVars == <<attacksRun, phase, todo, attacksRecords, queries, failures, faults,
                 attacksDecision, attacksDisk>>
searchVars == <<kind, objective, base, candidates, searchOutcome>>
fairnessVars == <<upstream, scores, fair, comparison, difference, confidence, lowFpr,
                  notebook, pc, basis>>
detectorVars == <<labels, fold, model, inner, trials, detectorSession>>
motionVars == <<static, motion, ready, audit>>

(* Evidence that supports every claim, and evidence with a proxy ablation. *)
Supported == [scores |-> "older", ablation |-> "formal", claims |-> "PASS",
              posterior |-> "PASS", replay |-> "PASS", complete |-> "PASS"]
StartingEvidence == {Supported, [Supported EXCEPT !.ablation = "proxy"]}

(* The model changes between two runs of a mechanism validation. *)
MCRevisions == [b \in BOOLEAN |-> {IF b THEN <<"r1", "r2">> ELSE <<"r1", "r1">>}]

(* Units whose first candidate may not be acceptable. *)
MCLate == {<<2, "search">>, <<3, "probe">>}

(* Halves of a grid of 32, and the budgets that are reported.             *)
MCHalves == <<16, 8, 4, 2, 1>>
MCCheckpoints == <<1, 3, 5, 7>>

(* What a detector may answer to a query of the search. *)
MCAnswers == {[detector |-> 0, path |-> 1, admissible |-> TRUE],
              [detector |-> 1, path |-> 0, admissible |-> TRUE],
              [detector |-> 0, path |-> 0, admissible |-> FALSE]}

(* Two calibration videos and two held-out ones, under two attacks; one     *)
(* baseline marks the videos of SSTW, the other its own.                    *)
MCBaselines == {"videoseal", "videomark"}
MCCells == {"c1", "c2", "h1", "h2"}
MCSplit == [c \in MCCells |-> IF c \in {"c1", "c2"} THEN "calibration" ELSE "heldout_test"]

Row(c, a, s, n, u, split) == [cell |-> c, attack |-> a, score |-> s, clean |-> n,
                              unit |-> u, formal |-> TRUE, split |-> split]
Positive(c, a, s) == Row(c, a, s, -1, "", MCSplit[c])
Clean(c, n, u) == Row(c, "", -1, n, u, MCSplit[c])
(* A baseline writes its clean score with every attacked record and no split. *)
Scored(c, a, s, n) == Row(c, a, s, n, "", "")
Informal(r) == [r EXCEPT !.formal = FALSE]

SstwNegatives(x, y) == <<Clean("c1", 1, "key"), Clean("c1", x, "wrong_key"),
    Clean("c2", 1, "key"), Clean("h1", 1, "key"), Clean("h2", y, "key")>>
SstwPositives == <<Positive("c1", "crop", 3), Positive("h1", "crop", 3),
                   Positive("h1", "noise", 3), Positive("h2", "noise", 3)>>
Balanced == SstwNegatives(2, 1) \o SstwPositives \o <<Positive("h2", "crop", 2)>>
Unbalanced == SstwNegatives(2, 0) \o SstwPositives
                \o <<Informal(Positive("h2", "crop", 3))>>
FalsePositive == SstwNegatives(0, 2) \o SstwPositives \o <<Positive("h2", "crop", 3)>>

CleanOnly(r) == [r EXCEPT !.attack = "", !.score = -1]
(* The anchors of Unbalanced; with H2 those of Balanced; Extra and OneVideo *)
(* have others.                                                             *)
Aligned(n) == <<Scored("c1", "crop", 2, n), CleanOnly(Scored("c2", "crop", 0, 1)),
    Scored("h1", "crop", 1, 0), Scored("h1", "noise", 1, 0), Scored("h2", "noise", 2, 0)>>
H2(s) == <<Scored("h2", "crop", s, 0)>>
Extra == <<Scored("c2", "noise", 2, 1)>> \o Aligned(2) \o H2(3)
OneVideo == <<Scored("c1", "crop", 2, 2), CleanOnly(Scored("c2", "crop", 0, 1)),
              Scored("h1", "crop", 2, 0), Scored("h1", "noise", 2, 0)>>
Both(p, q) == [b \in MCBaselines |-> IF b = "videoseal" THEN p ELSE q]
Measurement(d, o, g) == [detection |-> d, official |-> o, generation |-> g]
MCMeasurements == {
    Measurement(Balanced, Both(Aligned(2) \o H2(2), Aligned(1) \o H2(3)), TRUE),
    Measurement(Unbalanced, Both(Aligned(2), Aligned(1)), TRUE),
    Measurement(FalsePositive, Both(Aligned(2) \o H2(2), Aligned(1) \o H2(2)), TRUE),
    Measurement(Balanced, Both(OneVideo, Extra), TRUE),
    Measurement(Unbalanced, Both(Aligned(2) \o H2(2), Aligned(1) \o H2(2)), TRUE),
    Measurement(Unbalanced, Both(<<Scored("h1", "crop", 1, 0)>>,
                  Aligned(1) \o <<Informal(Scored("h2", "crop", 2, 0))>>), FALSE)}

-----------------------------------------------------------------------------
Chain == INSTANCE EvidenceChain WITH
    Units <- ChainUnits, MaxRuns <- ChainRuns, run <- chainRun,
    records <- chainRecords, decision <- chainDecision, evidence <- chainEvidence

Flow == INSTANCE FlowEvidence WITH
    Failures <- FlowFailures, outcome <- flowOutcome, session <- flowSession,
    disk <- flowDisk

Adaptive == INSTANCE AdaptiveExecution WITH
    Runs <- AttackRuns, Failures <- AttackFailures, run <- attacksRun,
    records <- attacksRecords, decision <- attacksDecision, disk <- attacksDisk

Search == INSTANCE AdaptiveSearch WITH
    Scores <- Answers, outcome <- searchOutcome

Fairness == INSTANCE FairComparison

Detector == INSTANCE DetectorCalibration WITH session <- detectorSession

Motion == INSTANCE MotionCalibration WITH MinPositive <- MinMotion

ASSUME InstancesAssumption ==
    /\ Chain!ChainAssumption
    /\ Flow!FlowEvidenceAssumption
    /\ Adaptive!CountsNested
    /\ Search!SearchConstants
    /\ Search!CheckpointsNested
    /\ Search!StepsSuffice
    /\ Fairness!ComparisonAssumption
    /\ Detector!CalibrationAssumption
    /\ Motion!MotionCalibrationAssumption

-----------------------------------------------------------------------------
(* A program that is not the one under study is in a state it starts from. *)
Start ==
    /\ program \in Programs
    /\ Init /\ (program # "gate" => evidence = [p \in Profiles |-> Supported])
    /\ Chain!Init /\ (program # "chain" => ~failFast) /\ revision \in ChainRevisions[failFast]
    /\ IF program = "flow" THEN Flow!Init
       ELSE /\ generated = {} /\ revisionsAgree = TRUE /\ flowSession = "select"
            /\ flowOutcome = [s \in {} |-> [records |-> 0, raised |-> FALSE]]
            /\ result = [matched |-> {}, velocityGain |-> FALSE, pathGain |-> FALSE,
                              posterior |-> FALSE]
            /\ flowDisk = [f \in Flow!Names |-> [by |-> "nobody", pass |-> FALSE]]
    /\ Adaptive!Init
    /\ Search!Init /\ (program # "search" => kind = "line")
    /\ Fairness!Init /\ (program # "fairness" => ~upstream.generation)
    /\ IF program = "detector" THEN Detector!Init
       ELSE /\ labels = [g \in Detector!Groups |-> {0}] /\ fold = 0
            /\ model = [g \in Detector!Groups |-> {}] /\ inner = MaximumFolds
            /\ trials = [g \in {} |-> <<0, 0>>] /\ detectorSession = "fit"
    /\ IF program = "motion" THEN Motion!Init
       ELSE /\ static = Motion!NoScores /\ motion = Motion!NoScores /\ ready = TRUE
            /\ audit = [decision |-> "none", threshold |-> MotionDeltaMin,
                        clean |-> Motion!NoScores]

(* All the programs but one stand still. *)
Rest ==
    /\ UNCHANGED program
    /\ IF program = "gate" THEN TRUE ELSE UNCHANGED vars
    /\ IF program = "chain" THEN TRUE ELSE UNCHANGED chainVars
    /\ IF program = "flow" THEN TRUE ELSE UNCHANGED flowVars
    /\ IF program = "attacks" THEN TRUE ELSE UNCHANGED attacksVars
    /\ IF program = "search" THEN TRUE ELSE UNCHANGED searchVars
    /\ IF program = "fairness" THEN TRUE ELSE UNCHANGED fairnessVars
    /\ IF program = "detector" THEN TRUE ELSE UNCHANGED detectorVars
    /\ IF program = "motion" THEN TRUE ELSE UNCHANGED motionVars

GatesStep == program = "gate" /\ Next /\ Rest
ChainStep == program = "chain" /\ Chain!Next /\ Rest
FlowStep == program = "flow" /\ Flow!Next /\ Rest
AdaptiveStep == program = "attacks" /\ Adaptive!Next /\ Rest
SearchStep == program = "search" /\ Search!Next /\ Rest
FairnessStep == program = "fairness" /\ Fairness!Next /\ Rest
DetectorStep == program = "detector" /\ Detector!Next /\ Rest
MotionStep == program = "motion" /\ Motion!Next /\ Rest

SomeStep ==
    \/ GatesStep \/ ChainStep \/ FlowStep \/ AdaptiveStep \/ SearchStep
    \/ FairnessStep \/ DetectorStep \/ MotionStep

allVars == <<program, vars, chainVars, flowVars, attacksVars, searchVars, fairnessVars,
             detectorVars, motionVars>>

AllSpec == Start /\ [][SomeStep]_allVars

-----------------------------------------------------------------------------
(* One run root, its flow evidence and its adaptive attacks.  A verified     *)
(* trajectory is of one run from the sketch to the bytes, evidence carried   *)
(* on in order is of one run, and a decision that passes covers the whole    *)
(* plan and is of the records and pairs beside it.  A complete execution of  *)
(* the attacks has every unit once, every checkpoint in its curve and four   *)
(* files of one run.                                                         *)
EvidenceIsOneRun ==
    /\ program = "chain" =>
           /\ Chain!TypeOK
           /\ Chain!VerifiedIsOneRun
           /\ Chain!OrderedChainIsSound
           /\ Chain!PassIsWholePlan
    /\ program = "flow" =>
           /\ Flow!TypeOK
           /\ Flow!PassIsWhole
           /\ Flow!PairsArePlanned
           /\ Flow!DecisionIsOfRecords
    /\ program = "attacks" =>
           /\ Adaptive!TypeOK
           /\ Adaptive!CompleteIsWhole
           /\ Adaptive!CurveIsComplete
           /\ Adaptive!FilesAgree

(* What is selected.  A search pays for no point twice, refines around the   *)
(* best answer it has seen, and its audit is what a replay of it finds; and  *)
(* no filter of static videos takes all of them or raises their threshold.   *)
SelectionsAreExact ==
    /\ program = "search" =>
           /\ Search!TypeOK
           /\ Search!BudgetIsSpentOnNewPoints
           /\ Search!RefinementFollowsBest
           /\ Search!AuditIsExact
    /\ program = "motion" =>
           /\ Motion!TypeOK
           /\ Motion!SomethingIsLeft
           /\ Motion!RateIsNear
           /\ Motion!FilterNeverRaises

(* The calibrations.  A threshold is the lowest that keeps the rate, and the *)
(* rate is one of videos; methods are compared on the same videos, with the  *)
(* scores on the disk; a score is of a model that has not seen the video,    *)
(* and a calibration that ends well is accepted and can be told again.       *)
ThresholdsAreHeld ==
    /\ program = "fairness" =>
           /\ Fairness!TypeOK
           /\ Fairness!ThresholdIsLowest
           /\ Fairness!PassHoldsForVideos
           /\ Fairness!ComparisonIsMatched
           /\ Fairness!FinishedIsFresh
    /\ program = "detector" =>
           /\ Detector!TypeOK
           /\ Detector!ScoresAreHeldOut
           /\ Detector!SuccessIsAccepted
           /\ Detector!ReplayedVideosFit
           /\ Detector!RateIsOfVideos
           /\ Detector!ThresholdIsLowest

(* Scores that do not decide a threshold do not move it: those of held-out   *)
(* videos stay out of the calibration.                                       *)
ThresholdIsFrozen == Fairness!ThresholdIsFrozen
=============================================================================
