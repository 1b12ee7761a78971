--------------------------- MODULE FrozenFeedback ---------------------------
(*****************************************************************************)
(* One run of the frozen-feedback diagnostic                                 *)
(* (run_frozen_feedback_signed_response_diagnostic) on an output directory:  *)
(* a single clean denoising trajectory is recorded through wrappers on the   *)
(* pipeline's transformer and scheduler, counterfactual branches replay its  *)
(* velocities on scheduler clones without the model, every output is decoded *)
(* and saved, features are taken from the saved videos, and one decision is  *)
(* published.  The pipeline, the decoder, the storage and every write may    *)
(* fail, the storage may damage an array, and the process may be killed.     *)
(*****************************************************************************)
EXTENDS Naturals, FiniteSets

CONSTANTS
    Steps,      \* scheduler steps of the clean trajectory (8)
    Branches,   \* counterfactual branches (4); output 0 is the clean one
    MaxRuns     \* bound: runs on one output directory

CountsAssumption == Steps \in Nat \ {0} /\ Branches \in Nat /\ MaxRuns \in Nat \ {0}

VARIABLES
    pc, run,
    calls,      \* transformer calls the pipeline made before each step's end
    steps,      \* scheduler steps recorded
    installed,  \* forward and step of the pipeline are wrapped
    latents,    \* final latents computed, in the plan's order
    saved,      \* per output, the arrays and the video on disk
    disk        \* the records and artifacts of the output directory

vars == <<pc, run, calls, steps, installed, latents, saved, disk>>

Outputs == 0 .. Branches
Ended == {"returned", "raised", "killed"}
MaxCalls == 3   \* bound: transformer calls in one step
Trailing == Steps

\* plan: the generation plan; rows: generation records in the last snapshot; traced,
\* branches: clean and counterfactual step records in it; legacy: the feature records
\* under their impulse name; results: result record files written (of five).
EmptyDisk == [plan |-> FALSE, rows |-> 0, traced |-> 0, branches |-> 0,
              working |-> FALSE, legacy |-> FALSE, results |-> 0,
              decision |-> "none", manifest |-> FALSE]

Results == 5

Init ==
    /\ pc = "begin" /\ run = 1
    /\ calls = [i \in 0 .. Trailing |-> 0] /\ steps = 0 /\ installed = FALSE
    /\ latents = 0 /\ saved = [o \in Outputs |-> "none"] /\ disk = EmptyDisk

engine == <<calls, steps, installed, latents>>

TotalCalls == LET Sum[i \in 0 .. Trailing] ==
                    calls[i] + IF i = 0 THEN 0 ELSE Sum[i - 1]
              IN Sum[Trailing]

----------------------------------------------------------------------------
(* Before the try block                                                     *)

\* A directory that holds anything is refused, and so is one inside the source or
\* around it.
Begin ==
    /\ pc = "begin"
    /\ IF disk = EmptyDisk
       THEN disk' = [disk EXCEPT !.plan = TRUE] /\ pc' = "load"
       ELSE disk' = disk /\ pc' = "raised"
    /\ UNCHANGED <<run, engine, saved>>

\* Config, historical source, prompt, key and basis are checked before anything is
\* written.
Refuse ==
    /\ pc = "begin"
    /\ pc' = "raised"
    /\ UNCHANGED <<run, engine, saved, disk>>

----------------------------------------------------------------------------
(* The clean trajectory                                                     *)

\* The pipeline is loaded at its frozen revision and wrapped.
Load ==
    /\ pc = "load"
    /\ \/ /\ disk' = [disk EXCEPT !.working = TRUE]
          /\ installed' = TRUE /\ pc' = "clean"
       \/ disk' = disk /\ installed' = FALSE /\ pc' = "failed"
    /\ UNCHANGED <<run, calls, steps, latents, saved>>

\* traced_forward: the pipeline calls the transformer as often as it likes; the record
\* takes the step from the number of the call alone.
Forward ==
    /\ pc = "clean" /\ calls[steps] < MaxCalls
    /\ calls' = [calls EXCEPT ![steps] = @ + 1]
    /\ UNCHANGED <<pc, run, steps, installed, latents, saved, disk>>

Paired == TotalCalls = 2 * (steps + 1)

RunCleanStep ==
    /\ pc = "clean" /\ steps < Steps
    /\ IF Paired
       THEN steps' = steps + 1 /\ pc' = "clean"
       ELSE steps' = steps /\ pc' = "unwind"
    /\ UNCHANGED <<run, calls, installed, latents, saved, disk>>

Covered == steps = Steps /\ TotalCalls = 2 * Steps

\* The pipeline returns and the trace must be whole.
BuildTrace ==
    /\ pc = "clean"
    /\ IF Covered
       THEN latents' = 1 /\ pc' = "branch"
       ELSE latents' = latents /\ pc' = "unwind"
    /\ UNCHANGED <<run, calls, steps, installed, saved, disk>>

\* The pipeline raises, its latent is not the trace's last, or a scheduler clone does
\* not replay the trace exactly.
TraceFails ==
    /\ pc = "clean"
    /\ pc' = "unwind"
    /\ UNCHANGED <<run, engine, saved, disk>>

----------------------------------------------------------------------------
(* Branches and outputs                                                     *)

\* Every step's clean velocity and its impulse go through a scheduler clone; no model
\* is called.
RunBranch ==
    /\ pc = "branch" /\ latents <= Branches
    /\ latents' = latents + 1
    /\ UNCHANGED <<pc, run, calls, steps, installed, saved, disk>>

\* A step record of the branch does not add up.
BranchFails ==
    /\ pc = "branch" /\ latents <= Branches
    /\ pc' = "unwind"
    /\ UNCHANGED <<run, engine, saved, disk>>

Snapshot(rows) ==
    disk' = [disk EXCEPT !.rows = rows, !.traced = steps, !.branches = latents]

FirstSnapshot ==
    /\ pc = "branch" /\ latents = Branches + 1
    /\ Snapshot(0) /\ pc' = "decode"
    /\ UNCHANGED <<run, engine, saved>>

\* Latent, decoded array, video and its readback of the next output, then all records
\* again.
Save ==
    /\ pc = "decode" /\ disk.rows <= Branches
    /\ saved' = [saved EXCEPT ![disk.rows] = "whole"]
    /\ Snapshot(disk.rows + 1)
    /\ UNCHANGED <<pc, run, engine>>

\* The decoder raises (its offload hooks are freed all the same), or a write does; the
\* decoder may also call the transformer, which the wrapper sees.
SaveFails ==
    /\ pc = "decode" /\ disk.rows <= Branches
    /\ \E left \in {"none", "partial"} : saved' = [saved EXCEPT ![disk.rows] = left]
    /\ pc' = "unwind"
    /\ UNCHANGED <<run, engine, disk>>

DecoderCalls ==
    /\ pc = "decode" /\ calls[Trailing] < MaxCalls
    /\ calls' = [calls EXCEPT ![Trailing] = @ + 1]
    /\ UNCHANGED <<pc, run, steps, installed, latents, saved, disk>>

\* The storage loses a bit.
Damage(o) ==
    /\ pc \in {"decode", "validate"} /\ saved[o] = "whole"
    /\ saved' = [saved EXCEPT ![o] = "damaged"]
    /\ UNCHANGED <<pc, run, engine, disk>>

\* The wrappers are taken off; a call too many in the decode path raises before that.
Leave ==
    /\ pc = "decode" /\ disk.rows = Branches + 1 /\ Covered
    /\ installed' = FALSE /\ pc' = "validate"
    /\ UNCHANGED <<run, calls, steps, latents, saved, disk>>

CallTooMany ==
    /\ pc = "decode" /\ disk.rows = Branches + 1 /\ ~Covered
    /\ pc' = "unwind"
    /\ UNCHANGED <<run, engine, saved, disk>>

\* The context exits, then the handler of the generation writes what there is.
Unwind ==
    /\ pc = "unwind"
    /\ installed' = FALSE /\ pc' = "failed"
    /\ \/ Snapshot(disk.rows)
       \/ disk' = disk
    /\ UNCHANGED <<run, calls, steps, latents, saved>>

----------------------------------------------------------------------------
(* Validation, features, gates                                              *)

\* Every array and video is read again and compared with its record.
Bound == \A o \in Outputs : saved[o] = "whole"

Validate ==
    /\ pc = "validate"
    /\ pc' = IF Bound /\ steps = Steps /\ latents = Branches + 1
             THEN "features" ELSE "failed"
    /\ UNCHANGED <<run, engine, saved, disk>>

\* extract_real_output_features leaves a file under the impulse name, also when it
\* raises.
ExtractFeatures ==
    /\ pc = "features"
    /\ disk' = [disk EXCEPT !.legacy = TRUE]
    /\ pc' \in {"relabel", "failed"}
    /\ UNCHANGED <<run, engine, saved>>

\* The records are relabelled and the file of the old name removed.
Relabel ==
    /\ pc = "relabel"
    /\ disk' = [disk EXCEPT !.legacy = FALSE]
    /\ pc' = "gates"
    /\ UNCHANGED <<run, engine, saved>>

\* The feature batch is not the one the plan asks for.
FeaturesFail ==
    /\ pc = "gates"
    /\ pc' = "failed"
    /\ UNCHANGED <<run, engine, saved, disk>>

\* The gate of each pair at each checkpoint, and the classification of them.
Classify ==
    /\ pc = "gates"
    /\ pc' = "results"
    /\ UNCHANGED <<run, engine, saved, disk>>

----------------------------------------------------------------------------
(* Ends                                                                     *)

\* except Exception: the working arrays go, and the failure decision is written.
Fail ==
    /\ pc = "failed"
    /\ disk' = [disk EXCEPT !.working = FALSE, !.decision = "failure"]
    /\ pc' = "raised"
    /\ UNCHANGED <<run, engine, saved>>

\* The result records come after the try block: a write that raises here leaves no
\* decision.
WriteResults ==
    /\ pc = "results" /\ disk.results < Results
    /\ \/ disk' = [disk EXCEPT !.results = @ + 1] /\ pc' = "results"
       \/ disk' = disk /\ pc' = "raised"
    /\ UNCHANGED <<run, engine, saved>>

Decide ==
    /\ pc = "results" /\ disk.results = Results
    /\ disk' = [disk EXCEPT !.working = FALSE, !.decision = "recorded"]
    /\ pc' = "manifest"
    /\ UNCHANGED <<run, engine, saved>>

WriteManifest ==
    /\ pc = "manifest"
    /\ \/ disk' = [disk EXCEPT !.manifest = TRUE] /\ pc' = "returned"
       \/ disk' = disk /\ pc' = "raised"
    /\ UNCHANGED <<run, engine, saved>>

Kill ==
    /\ pc \notin Ended /\ pc' = "killed" /\ installed' = FALSE
    /\ UNCHANGED <<run, calls, steps, latents, saved, disk>>

NextRun ==
    /\ pc \in Ended /\ run < MaxRuns
    /\ run' = run + 1 /\ pc' = "begin"
    /\ calls' = [i \in 0 .. Trailing |-> 0] /\ steps' = 0 /\ latents' = 0
    /\ UNCHANGED <<installed, saved, disk>>

Next ==
    \/ Begin \/ Refuse \/ Load \/ Forward \/ RunCleanStep \/ BuildTrace \/ TraceFails
    \/ RunBranch \/ BranchFails \/ FirstSnapshot \/ Save \/ SaveFails \/ DecoderCalls
    \/ \E o \in Outputs : Damage(o)
    \/ Leave \/ CallTooMany \/ Unwind \/ Validate \/ ExtractFeatures
    \/ Relabel \/ FeaturesFail \/ Classify
    \/ Fail \/ WriteResults \/ Decide \/ WriteManifest \/ Kill \/ NextRun

Spec == Init /\ [][Next]_vars

----------------------------------------------------------------------------
TypeOK ==
    /\ pc \in Ended \cup {"begin", "load", "clean", "branch", "decode", "unwind",
                          "validate", "features", "relabel", "gates", "failed", "results",
                          "manifest"}
    /\ run \in 1 .. MaxRuns /\ steps \in 0 .. Steps /\ latents \in 0 .. Branches + 1
    /\ calls \in [0 .. Trailing -> 0 .. MaxCalls]
    /\ saved \in [Outputs -> {"none", "partial", "whole", "damaged"}]
    /\ disk.decision \in {"none", "failure", "recorded"}
    /\ installed <=> pc \in {"clean", "branch", "decode", "unwind"}

\* A trace that came out whole gives every step exactly the two transformer calls made
\* for it.  The records number the calls through, so a step with one call and a step
\* with three would look the same.
StepOwnsItsCalls ==
    pc \in {"branch", "validate", "features", "relabel", "gates", "results", "manifest",
           "returned"}
        => \A i \in 0 .. Steps - 1 : calls[i] = 2

\* A generation record in a snapshot is of an output that was saved to its end.
RowsAreSaved ==
    \A o \in Outputs : o < disk.rows => saved[o] \in {"whole", "damaged"}

\* A recorded classification stands on a whole trace, all outputs as they were saved,
\* the five result files, and no scratch or mislabelled file; the manifest is written
\* only beside one.
RecordedIsWhole ==
    /\ disk.decision = "recorded" =>
          /\ disk.rows = Branches + 1 /\ disk.branches = Branches + 1
          /\ disk.traced = Steps /\ disk.results = Results
          /\ \A o \in Outputs : saved[o] = "whole"
          /\ ~disk.working /\ ~disk.legacy
    /\ disk.manifest => disk.decision = "recorded"

\* A failure decision stands alone: no result, manifest or scratch array of the same
\* directory can be taken for a recorded classification.
FailureStandsAlone ==
    disk.decision = "failure" => disk.results = 0 /\ ~disk.manifest /\ ~disk.working
=============================================================================
