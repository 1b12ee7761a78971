------------------------- MODULE ImpulseConstruction -------------------------
(*******************************************************************************)
(* Runs of the output-feature impulse construction (Gate A,                    *)
(* run_output_feature_impulse_observability_construction) in one output        *)
(* directory, which a later run may use again.  Every video of the plan is     *)
(* generated by one cached pipeline under a wrapped scheduler, recorded in     *)
(* four files rewritten after each video, re-encoded into features, and one    *)
(* decision and one manifest are published.  The root-cause diagnostic later   *)
(* reads such a directory (Accepted).  Any step may raise, a write may leave a *)
(* torn file, a stored video may be damaged, and the process may be killed.    *)
(*******************************************************************************)
EXTENDS Naturals, FiniteSets

CONSTANTS
    Probes,     \* videos of the plan (14), clean ones first
    Clean,      \* how many of them are clean repeats (2)
    MaxRuns     \* bound: runs in one output directory

PlanAssumption ==
    Probes \in Nat /\ Clean \in 1 .. Probes - 1 /\ MaxRuns \in Nat

VARIABLES
    pc, run,
    at,        \* the write under way in a series of writes, or the probe to encode
    wrapped,   \* the pipeline's scheduler has the runtime's step
    done,      \* probes with success records, in memory
    failed,    \* a failure record has been appended to the generation records
    gate,      \* the gate's verdict
    video,     \* the run each saved video is of; 0: missing, cut or damaged
    disk

vars == <<pc, run, at, wrapped, done, failed, gate, video, disk>>

Snapshots == <<"generation", "steps", "traces", "checkpoints">>
Results == <<"checkpoints", "features", "design", "decision", "manifest">>
Failures == <<"decision", "failure">>
Names == {"plan", "generation", "steps", "traces", "checkpoints", "features", "design",
          "decision", "manifest", "failure"}
Ended == {"returned", "raised", "killed"}

\* A file: the run that wrote it last, the probes it has rows of, and what kind it is.
\* A file cut while it was written is of no run.
NoFile == [of |-> 0, rows |-> 0, kind |-> "none"]
Torn == [of |-> 0, rows |-> 0, kind |-> "torn"]
File(rows, kind) == [of |-> run, rows |-> rows, kind |-> kind]

Init ==
    /\ pc = "raised" /\ run = 0 /\ at = 0 /\ wrapped = FALSE
    /\ done = 0 /\ failed = FALSE /\ gate = "none"
    /\ video = [p \in 1 .. Probes |-> 0] /\ disk = [n \in Names |-> NoFile]

----------------------------------------------------------------------------
(* Before the try block: configuration, authorisation, prompt source, key     *)
(* and basis are checked; then the plan is written.  The directory may exist. *)

Begin ==
    /\ pc \in Ended /\ run < MaxRuns
    /\ run' = run + 1
    /\ \/ /\ pc' = "enter"
          /\ disk' = [disk EXCEPT !["plan"] = [of |-> run', rows |-> Probes, kind |-> "rows"]]
       \/ pc' = "raised" /\ disk' = disk
    /\ at' = 0 /\ wrapped' = FALSE /\ done' = 0 /\ failed' = FALSE /\ gate' = "none"
    /\ UNCHANGED video

----------------------------------------------------------------------------
(* One video after the other                                                *)

Enter ==
    /\ pc = "enter"
    /\ wrapped' = TRUE /\ pc' = "denoise"
    /\ UNCHANGED <<run, at, done, failed, gate, video, disk>>

\* The context is left, by its end or by an exception.
Leave(ok) == wrapped' = FALSE

\* The pipeline denoises under the runtime's step, or raises: a guard of a step, a
\* control that collapsed to nothing, a grid that is not the frozen one.
Denoise ==
    /\ pc = "denoise"
    /\ \E ok \in BOOLEAN :
          /\ Leave(ok)
          /\ pc' = IF ok THEN "export" ELSE "except"
    /\ UNCHANGED <<run, at, done, failed, gate, video, disk>>

\* The video is written, hashed and read back.
Export ==
    /\ pc = "export"
    /\ \/ video' = [video EXCEPT ![done + 1] = run] /\ pc' = "append"
       \/ video' = [video EXCEPT ![done + 1] = 0] /\ pc' = "except"
    /\ UNCHANGED <<run, at, wrapped, done, failed, gate, disk>>

\* The summaries and the exposure trace are built, then all four kinds of records are
\* appended at once.
Append ==
    /\ pc = "append"
    /\ \/ done' = done + 1 /\ at' = 1 /\ pc' = "snapshot"
       \/ done' = done /\ at' = at /\ pc' = "except"
    /\ UNCHANGED <<run, wrapped, failed, gate, video, disk>>

\* except: a failure record for the probe, which already has its success record when
\* it was the snapshot that raised.
Except ==
    /\ pc = "except"
    /\ failed' = TRUE /\ at' = 1 /\ pc' = "snapshot"
    /\ UNCHANGED <<run, wrapped, done, gate, video, disk>>

Content(name) ==
    CASE name = "generation" -> File(done, IF failed THEN "failed" ELSE "rows")
      [] name = "traces" -> File(IF done > Clean THEN done - Clean ELSE 0, "rows")
      [] OTHER -> File(done, "rows")

AfterSnapshots == IF failed THEN "fail" ELSE IF done = Probes THEN "validate" ELSE "enter"

Order == Snapshots

\* _write_generation_snapshots, inside the try of the probe or in its handler.
Snapshot ==
    /\ pc = "snapshot"
    /\ \/ /\ disk' = [disk EXCEPT ![Order[at]] = Content(Order[at])]
          /\ IF at < 4 THEN at' = at + 1 /\ pc' = pc ELSE at' = 0 /\ pc' = AfterSnapshots
       \/ /\ disk' = [disk EXCEPT ![Order[at]] = Torn]
          /\ at' = 0 /\ pc' = IF failed THEN "fail" ELSE "except"
    /\ UNCHANGED <<run, wrapped, done, failed, gate, video>>

\* A stored video changes; the process does not see it.
Damage(p) ==
    /\ pc \notin Ended /\ video[p] = run
    /\ video' = [video EXCEPT ![p] = 0]
    /\ UNCHANGED <<pc, run, at, wrapped, done, failed, gate, disk>>

----------------------------------------------------------------------------
(* Validation, design, features, gate                                       *)

\* _validate_generation_batch: every probe, in order, once, a success, from one
\* generator state, and its video is the one hashed.
BatchReady == \A p \in 1 .. Probes : video[p] = run

Validate ==
    /\ pc = "validate"
    /\ IF BatchReady THEN at' = 1 /\ pc' = "again" ELSE at' = 0 /\ pc' = "fail"
    /\ UNCHANGED <<run, wrapped, done, failed, gate, video, disk>>

\* The snapshots are written again; then the actual design is assembled, or refused.
Again ==
    /\ pc = "again"
    /\ \/ /\ disk' = [disk EXCEPT ![Order[at]] = Content(Order[at])]
          /\ IF at < 4 THEN at' = at + 1 /\ pc' = pc ELSE at' = 1 /\ pc' = "encode"
       \/ /\ disk' = [disk EXCEPT ![Order[at]] = Torn]
          /\ at' = 0 /\ pc' = "fail"
    /\ UNCHANGED <<run, wrapped, done, failed, gate, video>>

RefuseDesign ==
    /\ pc = "encode" /\ at = 1
    /\ at' = 0 /\ pc' = "fail"
    /\ UNCHANGED <<run, wrapped, done, failed, gate, video, disk>>

\* Each saved video is encoded as it is now and the feature records are rewritten; a
\* damaged one may still decode.
Encode ==
    /\ pc = "encode" /\ at <= Probes
    /\ \/ /\ disk' = [disk EXCEPT !["features"] = File(at, "rows")]
          /\ at' = at + 1 /\ pc' = pc
       \/ disk' = [disk EXCEPT !["features"] = Torn] /\ at' = 0 /\ pc' = "fail"
       \/ disk' = disk /\ at' = 0 /\ pc' = "fail"
    /\ UNCHANGED <<run, wrapped, done, failed, gate, video>>

\* Checkpoints and features are validated against the plan and the gate's statistics
\* computed.
Evaluate ==
    /\ pc = "encode" /\ at = Probes + 1
    /\ \/ gate' \in {"pass", "stop"} /\ at' = 1 /\ pc' = "publish"
       \/ gate' = gate /\ at' = 0 /\ pc' = "fail"
    /\ UNCHANGED <<run, wrapped, done, failed, video, disk>>

----------------------------------------------------------------------------
(* The failure decision, and the results                                    *)

Fail ==
    /\ pc = "fail"
    /\ \E cut \in {FALSE, TRUE} :
          /\ disk' = [disk EXCEPT ![Failures[at + 1]] =
                        IF cut THEN Torn ELSE File(0, "failure")]
          /\ IF at = 0 /\ ~cut THEN at' = 1 /\ pc' = pc ELSE at' = 0 /\ pc' = "raised"
    /\ UNCHANGED <<run, wrapped, done, failed, gate, video>>

Result(name) ==
    CASE name = "checkpoints" -> File(Probes, "full")
      [] name = "features" -> File(Probes, "rows")
      [] name = "design" -> File(Probes - Clean, "rows")
      [] name = "decision" -> File(0, gate)
      [] name = "manifest" -> File(Probes, "rows")

Publication == Results

\* After the try block: what raises here leaves no failure decision.
Publish ==
    /\ pc = "publish"
    /\ \E cut \in {FALSE, TRUE} :
          /\ disk' = [disk EXCEPT ![Publication[at]] =
                        IF cut THEN Torn ELSE Result(Publication[at])]
          /\ CASE cut -> at' = 0 /\ pc' = "raised"
               [] ~cut /\ at < 5 -> at' = at + 1 /\ pc' = pc
               [] OTHER -> at' = 0 /\ pc' = "returned"
    /\ UNCHANGED <<run, wrapped, done, failed, gate, video>>

\* A kill in the middle of a write leaves what the cut alternatives above leave.
Kill ==
    /\ pc \notin Ended
    /\ pc' = "killed" /\ at' = 0 /\ wrapped' = FALSE
    /\ UNCHANGED <<run, done, failed, gate, video, disk>>

Next ==
    \/ Begin \/ Enter \/ Denoise \/ Export \/ Append \/ Except \/ Snapshot
    \/ Validate \/ Again \/ RefuseDesign \/ Encode \/ Evaluate \/ Fail \/ Publish \/ Kill
    \/ \E p \in 1 .. Probes : Damage(p)

Spec == Init /\ [][Next]_vars

----------------------------------------------------------------------------
(* What the root-cause diagnostic accepts as the historical failure          *)

Whole ==
    /\ \A n \in Names \ {"decision", "failure", "traces", "design"} : disk[n].rows = Probes
    /\ disk["traces"].rows = Probes - Clean /\ disk["design"].rows = Probes - Clean
    /\ disk["generation"].kind = "rows" /\ disk["checkpoints"].kind = "full"
    /\ disk["decision"].kind = "stop"

\* The manifest lists the generation records' videos, whose bytes have their digests;
\* steps are the traces' steps, the design is their design, features are the output
\* checkpoints, and the decision's statistics are those of features and design.
Bound ==
    /\ \A p \in 1 .. Probes : video[p] = disk["generation"].of
    /\ disk["manifest"].of = disk["generation"].of
    /\ disk["steps"].of = disk["traces"].of
    /\ disk["design"].of = disk["traces"].of
    /\ disk["features"].of = disk["checkpoints"].of
    /\ disk["decision"].of = disk["features"].of /\ disk["decision"].of = disk["design"].of

Accepted == Whole /\ Bound

----------------------------------------------------------------------------
TypeOK ==
    /\ pc \in Ended \cup {"enter", "denoise", "export", "append", "except", "snapshot",
                          "validate", "again", "encode", "fail", "publish"}
    /\ run \in 0 .. MaxRuns /\ at \in 0 .. Probes + 5 /\ wrapped \in BOOLEAN
    /\ done \in 0 .. Probes /\ failed \in BOOLEAN /\ gate \in {"none", "pass", "stop"}
    /\ video \in [1 .. Probes -> 0 .. MaxRuns]
    /\ \A n \in Names : disk[n].of \in 0 .. MaxRuns /\ disk[n].rows \in 0 .. Probes

\* The pipeline outlives a video: its scheduler is the runtime's only while the video
\* is denoised, so no control is added to the next one twice.
SchedulerIsGivenBack == wrapped => pc = "denoise"

\* Step, trace and checkpoint records of this run on disk have their generation record
\* there, wherever the run was cut.
RowsHaveTheirVideo ==
    \A n \in {"steps", "traces", "checkpoints"} :
        disk[n].of = run /\ run > 0 /\ disk[n].rows > 0 =>
            \/ disk["generation"].of = run /\ disk["generation"].rows >= disk[n].rows
            \/ disk["generation"] = Torn

\* A manifest of the run stands beside the complete results of the run, and a first
\* run's failure decision beside no manifest and no design.
ManifestIsLast ==
    /\ disk["manifest"].of = run /\ run > 0 =>
          /\ \A n \in Names \ {"failure"} : disk[n].of = run
          /\ Whole \/ disk["decision"].kind = "pass"
    /\ run = 1 /\ disk["decision"].kind = "failure" =>
          disk["manifest"] = NoFile /\ disk["design"] = NoFile

\* Whatever mixture of two runs a directory holds, what the later reader takes for one
\* failed Gate A is one run's, videos and manifest included.
AcceptedIsOneRun ==
    Accepted => \E r \in 1 .. MaxRuns :
        /\ \A n \in Names \ {"failure", "plan"} : disk[n].of = r
        /\ \A p \in 1 .. Probes : video[p] = r
=============================================================================
