---------------------------- MODULE FrameStateGate ----------------------------
(******************************************************************************)
(* The frame state experiment of gate 0: eight videos on one pipeline, two    *)
(* identities of two clean, one positive and one negative probe each.  The    *)
(* first clean video gives the public atom every later probe is steered       *)
(* with.  The videos are then decoded and measured, the batch is validated,   *)
(* evaluated, and a decision and a manifest are written.  Any exception       *)
(* replaces the decision with a failure; a kill leaves the files as they are. *)
(*                                                                            *)
(* Source: experiments/generative_video_model_probe/                          *)
(*         frame_state_signed_observability_construction.py                   *)
(******************************************************************************)
EXTENDS Naturals, Sequences, FiniteSets

CONSTANTS MaxFaults   \* bound on the calls that raise

GateConstants == MaxFaults \in Nat

(* The plan: the signed coefficient of every probe, first identity first. *)
ProbePlan == <<"clean", "clean", "positive", "negative",
               "clean", "clean", "positive", "negative">>
Probes == 1..Len(ProbePlan)
Signed == {p \in Probes : ProbePlan[p] # "clean"}

VARIABLES stage,      \* what the run does next
          at,         \* the probe under way
          patched,    \* the scheduler's step is the adapter's
          atom,       \* the public atom exists in memory
          trace,      \* per probe: what its eight step results look like
          atomOf,     \* per probe: the atom its steps were steered with
          disk,       \* the files, see Disk
          altered,    \* videos that are no longer what was exported
          verdict,    \* what the evaluation decided
          faults,     \* calls that raised
          lost        \* the failure decision could not be written

vars == <<stage, at, patched, atom, trace, atomOf, disk, altered, verdict, faults,
          lost>>

Traces == {"none", "complete", "band", "short"}

(* plan, atom, contexts, statistics and transfer: whether the file is whole; videos:
   how many are exported; generations, steps and checkpoints: for how many
   videos rows can be read; decision and manifest: what they say. *)
Disk == [plan : BOOLEAN, atom : BOOLEAN, contexts : BOOLEAN,
         statistics : BOOLEAN, transfer : BOOLEAN, videos : 0..8, generations : 0..8, steps : 0..8, checkpoints : 0..8,
         decision : {"none", "torn", "pass", "stop", "failure"},
         manifest : {"none", "torn", "pass", "stop"}]

Init == /\ stage = "start"
        /\ at = 1
        /\ patched = FALSE
        /\ atom = FALSE
        /\ trace = [p \in Probes |-> "none"]
        /\ atomOf = [p \in Probes |-> "none"]
        /\ disk = [plan |-> FALSE, atom |-> FALSE, contexts |-> FALSE,
                   statistics |-> FALSE, transfer |-> FALSE, videos |-> 0, generations |-> 0,
                   steps |-> 0, checkpoints |-> 0, decision |-> "none", manifest |-> "none"]
        /\ altered = {}
        /\ verdict = "none"
        /\ faults = 0
        /\ lost = FALSE

\* Mutant of Fails: the exception is not caught.
FailsUncaught == faults < MaxFaults /\ faults' = faults + 1 /\ stage' = "raised"

(* An exception anywhere in the guarded part of the run. *)
Fails == faults < MaxFaults /\ faults' = faults + 1 /\ stage' = "failing"

(* A refusal: the code raises because of what it has seen. *)
Refuses == faults' = faults /\ stage' = "failing"

-----------------------------------------------------------------------------
(* An output directory that is not empty, a configuration that has drifted or
   a runner that is not authorised is refused before anything is written; the
   plan is written before the commit of the repository is asked for, which
   may fail too.  None of this reaches the handler. *)
Start ==
    /\ stage = "start"
    /\ \/ stage' = "refused" /\ UNCHANGED disk
       \/ stage' = "refused" /\ disk' = [disk EXCEPT !.plan = TRUE]
       \/ stage' = "generate" /\ disk' = [disk EXCEPT !.plan = TRUE]
    /\ UNCHANGED <<at, patched, atom, trace, atomOf, altered, verdict, faults, lost>>

(* No GPU, another library, model or scheduler than the frozen ones, or two
   identities with one nonce. *)
LoadFails ==
    /\ stage = "generate"
    /\ at = 1
    /\ ~patched
    /\ Fails
    /\ UNCHANGED <<at, patched, atom, trace, atomOf, disk, altered, verdict, lost>>

(* Generation.  The adapter takes the scheduler's step for one pipeline call. *)

(* A signed probe before the atom is refused. *)
NoAtomYet(p) == p \in Signed /\ ~atom

PatchScheduler ==
    /\ stage = "generate"
    /\ ~patched
    /\ IF NoAtomYet(at)
       THEN Refuses /\ UNCHANGED <<patched, atomOf>>
       ELSE /\ patched' = TRUE
            /\ atomOf' = [atomOf EXCEPT ![at] = IF atom THEN "public" ELSE "bootstrap"]
            /\ UNCHANGED <<stage, faults>>
    /\ UNCHANGED <<at, atom, trace, disk, altered, verdict, lost>>

(* Where a probe leads once its latent is there: the first makes the atom. *)
AfterGeneration(p) ==
    IF p = 1 THEN "atom" ELSE IF p = Len(ProbePlan) THEN "decode" ELSE "generate"

(* The pipeline has ended and the step is the scheduler's again.  A signed
   probe's projection may have kept its direction only within the tolerance
   of the runtime; a pipeline may have stopped short of eight steps. *)
Generate ==
    /\ stage = "generate"
    /\ patched
    /\ \E t \in Traces \ {"none"} :
          /\ t = "band" => at \in Signed
          /\ trace' = [trace EXCEPT ![at] = t]
    /\ patched' = FALSE
    /\ stage' = AfterGeneration(at)
    /\ at' = IF at = 1 THEN 1 ELSE IF at = Len(ProbePlan) THEN 1 ELSE at + 1
    /\ UNCHANGED <<atom, atomOf, disk, altered, verdict, faults, lost>>

(* The pipeline, the control of a step, a ninth step or a latent that differs
   from the scheduler's last one raises; the step is put back all the same. *)
GenerationFails ==
    /\ stage = "generate"
    /\ patched
    /\ patched' = FALSE
    /\ Fails
    /\ UNCHANGED <<at, atom, trace, atomOf, disk, altered, verdict, lost>>

(* The atom is constructed (PublicAtom) and written; its file may be cut. *)
MakeAtom ==
    /\ stage = "atom"
    /\ \/ /\ atom' = TRUE
          /\ disk' = [disk EXCEPT !.atom = TRUE]
          /\ stage' = "generate"
          /\ at' = 2
          /\ UNCHANGED faults
       \/ Fails /\ UNCHANGED <<atom, disk, at>>
    /\ UNCHANGED <<patched, trace, atomOf, altered, verdict, lost>>

-----------------------------------------------------------------------------
(* Measurement.  A video is exported and read back, and its exposure computed
   from the step results, which refuses fewer than eight steps and a direction
   under the minimum; then the three record files are written anew. *)
Exposed(p) == trace[p] = "complete"

Measure ==
    /\ stage = "decode"
    /\ disk.videos < at
    /\ \/ /\ disk' = [disk EXCEPT !.videos = at]
          /\ IF Exposed(at) THEN UNCHANGED <<stage, faults>> ELSE Refuses
       \/ Fails /\ \E n \in {at - 1, at} : disk' = [disk EXCEPT !.videos = n]
    /\ UNCHANGED <<at, patched, atom, trace, atomOf, altered, verdict, lost>>

(* A file that is written anew is truncated first: a write that fails leaves
   any number of its rows. *)
RecordFiles == {"generations", "steps", "checkpoints"}

RowsOf(file, p) == IF file = "steps" THEN Len(ProbePlan) ELSE p
Order == <<"generations", "steps", "checkpoints">>

WriteRows ==
    /\ stage = "decode"
    /\ disk.videos = at
    /\ \/ /\ disk' = [f \in DOMAIN disk |->
                        IF f \in RecordFiles THEN RowsOf(f, at) ELSE disk[f]]
          /\ at' = IF at = Len(ProbePlan) THEN 1 ELSE at + 1
          /\ stage' = IF at = Len(ProbePlan) THEN "validate" ELSE "decode"
          /\ UNCHANGED faults
       \/ /\ Fails
          /\ \E n \in 1..3, rows \in 0..Len(ProbePlan) :
                /\ rows <= RowsOf(Order[n], at)
                /\ disk' = [f \in DOMAIN disk |->
                     IF \E k \in 1..n - 1 : Order[k] = f THEN RowsOf(f, at)
                     ELSE IF f = Order[n] THEN rows ELSE disk[f]]
          /\ UNCHANGED at
    /\ UNCHANGED <<patched, atom, trace, atomOf, altered, verdict, lost>>

(* Another process replaces a video in the output directory.  Later changes are
   left out: once the batch is validated nothing reads the videos again. *)
VideoChanges ==
    /\ stage \in {"decode", "validate"}
    /\ altered = {}
    /\ \E p \in Probes : p <= disk.videos /\ altered' = {p}
    /\ UNCHANGED <<stage, at, patched, atom, trace, atomOf, disk, verdict, faults, lost>>

-----------------------------------------------------------------------------
(* The batch is checked against the plan: the atom is read again, every video
   hashed again, every exposure and every record computed again. *)

BatchValid == disk.atom /\ altered = {} /\ \A p \in Probes : Exposed(p)

Validate ==
    /\ stage = "validate"
    /\ \/ BatchValid /\ stage' = "evaluate" /\ UNCHANGED faults
       \/ ~BatchValid /\ Refuses
       \/ Fails
    /\ UNCHANGED <<at, patched, atom, trace, atomOf, disk, altered, verdict, lost>>

(* What the statistics of an identity's three checkpoints come to: every gate
   is met, one is not, or a statistic is not finite. *)
Outcomes == {"ready", "short", "infinite"}

(* The second identity's gate and transfer are evaluated only when everything
   is finite. *)
Verdict(c0, a, transfer) ==
    IF c0 = "ready" /\ a = "ready" /\ transfer THEN "pass" ELSE "stop"

(* The context records, the statistics and the transfer are written before
   anything is decided; a degenerate exposure difference raises in between. *)
Evaluate ==
    /\ stage = "evaluate"
    /\ \/ /\ disk' = [disk EXCEPT !.contexts = TRUE, !.statistics = TRUE, !.transfer = TRUE]
          /\ \E c0 \in Outcomes, a \in Outcomes, transfer \in BOOLEAN :
                verdict' = Verdict(c0, a, transfer)
          /\ stage' = "decide"
          /\ UNCHANGED faults
       \/ /\ Fails
          /\ \E n \in 0..2 :
                disk' = [disk EXCEPT !.contexts = n >= 1, !.statistics = n >= 2]
          /\ UNCHANGED verdict
    /\ UNCHANGED <<at, patched, atom, trace, atomOf, altered, lost>>

(* A JSON file is truncated and then written. *)
Decide ==
    /\ stage = "decide"
    /\ \/ /\ disk' = [disk EXCEPT !.decision = verdict]
          /\ stage' = "manifest"
          /\ UNCHANGED faults
       \/ Fails /\ \E d \in {"none", "torn"} : disk' = [disk EXCEPT !.decision = d]
    /\ UNCHANGED <<at, patched, atom, trace, atomOf, altered, verdict, lost>>

WriteManifest ==
    /\ stage = "manifest"
    /\ \/ /\ disk' = [disk EXCEPT !.manifest = verdict]
          /\ stage' = "returned"
          /\ UNCHANGED faults
       \/ Fails /\ \E m \in {"none", "torn"} : disk' = [disk EXCEPT !.manifest = m]
    /\ UNCHANGED <<at, patched, atom, trace, atomOf, altered, verdict, lost>>

(* The handler writes the failure over whatever decision there is and raises
   again; the write itself may fail before or after it truncates. *)
RecordFailure ==
    /\ stage = "failing"
    /\ stage' = "raised"
    /\ \/ disk' = [disk EXCEPT !.decision = "failure"] /\ UNCHANGED <<faults, lost>>
       \/ /\ faults < MaxFaults
          /\ faults' = faults + 1
          /\ lost' = TRUE
          /\ \/ UNCHANGED disk
             \/ disk' = [disk EXCEPT !.decision = "torn"]
    /\ UNCHANGED <<at, patched, atom, trace, atomOf, altered, verdict>>

Ended == stage \in {"refused", "returned", "raised", "killed"}

(* The process is killed or interrupted: no handler runs. *)
Kill ==
    /\ ~Ended
    /\ faults < MaxFaults
    /\ faults' = faults + 1
    /\ stage' = "killed"
    /\ patched' = FALSE
    /\ UNCHANGED <<at, atom, trace, atomOf, disk, altered, verdict, lost>>

Rest == Ended /\ UNCHANGED vars

Run == \/ Start \/ LoadFails \/ PatchScheduler \/ Generate \/ GenerationFails \/ MakeAtom
       \/ Measure \/ WriteRows \/ Validate \/ Evaluate \/ Decide \/ WriteManifest \/ RecordFailure

Next == Run \/ VideoChanges \/ Kill \/ Rest

(* One thread runs the experiment from start to end. *)
Spec == Init /\ [][Next]_vars /\ WF_vars(Run)

-----------------------------------------------------------------------------
TypeOK == /\ stage \in {"start", "refused", "generate", "atom", "decode", "validate", "evaluate",
                        "decide", "manifest", "failing", "returned", "raised", "killed"}
          /\ at \in Probes
          /\ patched \in BOOLEAN /\ atom \in BOOLEAN /\ lost \in BOOLEAN
          /\ trace \in [Probes -> Traces]
          /\ atomOf \in [Probes -> {"none", "bootstrap", "public"}]
          /\ disk \in Disk
          /\ altered \subseteq Probes
          /\ verdict \in {"none", "pass", "stop"}
          /\ faults \in 0..MaxFaults

(* Only the video the atom is built from was made without it: no measured
   response was steered along the placeholder direction. *)
SteeredByPublicAtom ==
    \A p \in Probes : trace[p] # "none" /\ p # 1 => atomOf[p] = "public"

(* The adapter's step is on the scheduler only while a video is generated; the
   atom's construction and every decode see the scheduler as it was. *)
SchedulerIsBack == patched => stage = "generate"

(* A decision that passes stands on a complete experiment: the atom, eight
   videos that were the exported ones when they were validated, the rows of
   all of them, eight whole step traces, the contexts, statistics, transfer. *)
PassIsBacked ==
    disk.decision = "pass" =>
        /\ disk.plan /\ disk.atom /\ disk.contexts /\ disk.statistics /\ disk.transfer
        /\ disk.videos = 8 /\ disk.generations = 8 /\ disk.steps = 8 /\ disk.checkpoints = 8
        /\ altered = {}
        /\ \A p \in Probes : trace[p] = "complete"

(* A manifest that can be read says what the decision beside it says. *)
ManifestAgrees == disk.manifest \in {"pass", "stop"} => disk.decision = disk.manifest

(* A run that raised leaves no decision that passes, unless the disk refused
   the failure decision too. *)
RaisedDoesNotPass == stage = "raised" /\ ~lost => disk.decision = "failure"

(* A decision on disk is never turned into another result: what replaces it
   is a failure or a cut file. *)
DecisionOnlyFalls ==
    [][disk.decision # "none" /\ disk'.decision # disk.decision
       => disk'.decision \in {"failure", "torn"}]_vars

(* Every run ends and says how. *)
Ends == <>Ended
=============================================================================
