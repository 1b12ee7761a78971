---------------------------- MODULE ServerWorkflow ----------------------------
(***************************************************************************)
(* The server workflow (scripts/run_generative_video_server_workflow.py).  *)
(*                                                                         *)
(* One command runs a pipeline: a sequence of roles, each of which         *)
(* restores the packages it requires from Drive, runs its stages under a   *)
(* timer and publishes its own package.  The role of the external          *)
(* baselines runs every baseline in turn, in the same way; here a pipeline *)
(* is the sequence of its UNITS, the baselines standing for their role.    *)
(*                                                                         *)
(* All units of one machine share one local run root.  Neither a restore   *)
(* nor a stage removes a file an earlier run left there, so the local      *)
(* files of a unit are modelled by the set of runs they come from.  What   *)
(* happens inside a publication is in StagePackageSync.                    *)
(***************************************************************************)
EXTENDS Naturals, Sequences, SequencesExt

CONSTANTS
  Pipelines,       \* the units of every pipeline that has roles
  Baselines,       \* units that are external baselines
  Gated,           \* units whose package may be withheld (the probe gate)
  Requires,        \* the packages each unit restores, in that order
  StagePlan,       \* the stage plan of each unit
  Helpers,         \* stages that are Python helpers and not commands
  ExtractedPackage,\* package_execution_mode: the rebuild package?
  MaxRuns,         \* bound on the commands that are given
  MaxKills         \* bound on the commands that are cut off

Units == DOMAIN StagePlan
Colab == "colab_test"
Runs == 1 .. MaxRuns
NoRun == 0

UnitsAssumption ==
  /\ Colab \notin DOMAIN Pipelines /\ "none" \notin Units
  /\ \A p \in DOMAIN Pipelines : Pipelines[p] \in Seq(Units)
  /\ Baselines \union Gated \subseteq Units
  /\ Requires \in [Units -> Seq(Units)]

ServerBoundsAssumption ==
  /\ MaxRuns \in Nat /\ MaxKills \in Nat /\ ExtractedPackage \in BOOLEAN

VARIABLES
  run,       \* number of the command being executed
  args,      \* its arguments
  pc,        \* what it is doing
  todo,      \* the units it has still to run, the current one first
  step,      \* inputs restored, then stages executed, of the current unit
  report,    \* notebook_runtime_report.json in the local run root
  finished,  \* the timer of the current unit has finished
  local,     \* the runs whose files of each unit are in the local run root
  drive,     \* the latest package of each unit on Drive
  decision,  \* the file at --decision-output
  exit,      \* how the last command ended
  kills      \* commands cut off so far

vars == <<run, args, pc, todo, step, report, finished, local, drive,
          decision, exit, kills>>

Args == [pipeline : DOMAIN Pipelines \union {Colab},
         recover : BOOLEAN, dry : BOOLEAN, reset : BOOLEAN, goOn : BOOLEAN]

NoReport == [unit |-> "none", run |-> NoRun, status |-> "none"]
NoPackage == [run |-> NoRun, files |-> {}, report |-> NoReport]

Init ==
  /\ run = NoRun /\ pc = "idle" /\ todo = << >> /\ step = 0
  /\ args \in {a \in Args : a.pipeline = Colab /\ ~a.recover /\ ~a.dry
                              /\ ~a.reset /\ ~a.goOn}
  /\ report = NoReport /\ finished = TRUE
  /\ local = [u \in Units |-> {}]
  /\ drive = [u \in Units |-> NoPackage]
  /\ decision = [run |-> NoRun, value |-> "none"]
  /\ exit = "none" /\ kills = 0

-----------------------------------------------------------------------------
(* main: arguments, reset, recovery, preflight.                            *)

(* parser.error: profile and pipeline must agree (one field stands for both *)
(* here), recovery is for colab_test alone and excludes dry run and reset.  *)
Accepted(a) == a.recover => a.pipeline = Colab /\ ~a.dry /\ ~a.reset

Begin(a, at) ==
  /\ pc = "idle" /\ run < MaxRuns /\ Accepted(a)
  /\ run' = run + 1 /\ args' = a /\ pc' = at /\ exit' = "running"
  /\ UNCHANGED <<todo, step, report, finished, drive, decision, kills>>

AfterReset(a) == IF a.recover THEN "recovery"
                 ELSE IF a.dry THEN "plan" ELSE "preflight"

Start(a) ==
  /\ Begin(a, AfterReset(a))
  /\ local' = IF a.reset THEN [u \in Units |-> {}] ELSE local

(* A directory outside the project root, or one that cannot be removed: the  *)
(* exception leaves main, outside of its try block.                          *)
ResetRaises(a) ==
  /\ a.reset /\ Begin(a, "raised")
  /\ \E gone \in SUBSET Units :
       local' = [u \in Units |-> IF u \in gone THEN {} ELSE local[u]]

FilesStay == UNCHANGED <<report, finished, local, drive>>

End(how) == pc' = "idle" /\ exit' = how /\ todo' = << >> /\ step' = 0
            /\ UNCHANGED <<run, args, kills>>

Decide(value) == decision' = [run |-> run, value |-> value]

(* except Exception: the command ends with 1 and a FAIL decision. *)
Fail == End("failed") /\ Decide("FAIL")

LeaveMain == pc = "raised" /\ End("traceback") /\ UNCHANGED decision
             /\ FilesStay

RecoveryPackage ==
  /\ pc = "recovery" /\ FilesStay
  /\ \/ End("ok") /\ Decide("RECOVERED")
     \/ Fail

DryRun == pc = "plan" /\ FilesStay
          /\ (Fail \/ (End("ok") /\ Decide("DRY_RUN")))

Preflight ==
  /\ pc = "preflight"
  /\ \/ Fail
     \/ /\ pc' = IF args.pipeline = Colab THEN "colab" ELSE "next"
        /\ todo' = IF args.pipeline = Colab THEN << >>
                   ELSE Pipelines[args.pipeline]
        /\ UNCHANGED <<run, args, step, decision, exit, kills>>
  /\ FilesStay

(* run_colab_test_request returns or raises (ColabTestSession). *)
RunColabTest == pc = "colab" /\ FilesStay
                /\ (Fail \/ (End("ok") /\ Decide("PASS")))

-----------------------------------------------------------------------------
(* One unit: restore, time, execute, publish.                              *)
unit == Head(todo)

(* Nobody looks at external_baseline_reference_decision: PASS it is. *)
PipelineEnds == pc = "next" /\ todo = << >> /\ End("ok") /\ Decide("PASS")
                /\ FilesStay

BeginUnit ==
  /\ pc = "next" /\ todo # << >> /\ pc' = "restore" /\ step' = 0
  /\ UNCHANGED <<run, args, todo, decision, exit, kills>> /\ FilesStay

(* Mutation: the last of the required packages is not restored. *)
AllRestoredButOne == step + 1 >= Len(Requires[unit])

AllRestored == step = Len(Requires[unit])
NextInput == Requires[unit][step + 1]

(* The archive is unpacked over whatever the run root holds. *)
RestoreInput ==
  /\ pc = "restore" /\ ~AllRestored /\ drive[NextInput].run # NoRun
  /\ local' = [local EXCEPT ![NextInput] = @ \union drive[NextInput].files]
  /\ report' = drive[NextInput].report
  /\ step' = step + 1
  /\ UNCHANGED <<run, args, pc, todo, finished, drive, decision, exit, kills>>

InputMissing ==
  /\ pc = "restore" /\ ~AllRestored /\ drive[NextInput].run = NoRun
  /\ Fail /\ FilesStay

(* Mutation: the timer goes on with the report it finds. *)
ReportResumed(status) == [report EXCEPT !.status = status]

Report(status) == [unit |-> unit, run |-> run, status |-> status]

StartTimer ==
  /\ pc = "restore" /\ AllRestored
  /\ report' = Report("running") /\ finished' = FALSE
  /\ pc' = "stages" /\ step' = 0
  /\ UNCHANGED <<run, args, todo, local, drive, decision, exit, kills>>

(* The stages of the plan that are really executed. *)
Executed(name) ==
  CASE name = "quick_tests_and_harness" ->
         IF ExtractedPackage THEN << >>
         ELSE <<"quick_tests", "harness_audits">>
    [] OTHER -> <<name>>

Stages == FlattenSeq([i \in DOMAIN StagePlan[unit] |->
                        Executed(StagePlan[unit][i])])

AtStage == pc = "stages" /\ step < Len(Stages)
stage == Stages[step + 1]

WritesFiles == local' = [local EXCEPT ![unit] = @ \union {run}]

(* run_stage rewrites the report as running; the packaging stage is          *)
(* followed by the end of the timer and the publication.                     *)
StageCompletes ==
  /\ AtStage /\ WritesFiles /\ step' = step + 1
  /\ IF stage = "drive_packaging"
     THEN /\ pc' = "publish" /\ finished' = TRUE
          /\ report' = Report("completed_before_stage_package_publish")
     ELSE /\ report' = Report("running")
          /\ UNCHANGED <<pc, finished>>
  /\ UNCHANGED <<run, args, todo, drive, decision, exit, kills>>

FinishFailed == finished' = TRUE /\ report' =
                  IF finished THEN report ELSE Report("failed")

(* An exception of a helper, or while a command is being built. *)
HelperRaises ==
  /\ AtStage /\ (WritesFiles \/ UNCHANGED local) /\ UNCHANGED drive
  /\ FinishFailed /\ Fail

(* _run_stage_command_or_raise raises SystemExit, which is no Exception. *)
CommandFails ==
  /\ AtStage /\ stage \notin Helpers /\ WritesFiles /\ UNCHANGED drive
  /\ FinishFailed /\ End("stage") /\ UNCHANGED decision

StagesEnd ==
  /\ pc = "stages" /\ step = Len(Stages)
  /\ IF unit \in Baselines
     THEN /\ pc' = "publish"
          /\ report' = Report("completed_before_stage_package_publish")
          /\ UNCHANGED todo
     ELSE /\ pc' = "next" /\ todo' = Tail(todo)
          /\ report' = IF finished THEN report ELSE Report("completed")
  /\ finished' = TRUE
  /\ UNCHANGED <<run, args, step, local, drive, decision, exit, kills>>

(* finalize_notebook_runtime_report_for_package keeps a report that ended. *)
FinalReport ==
  IF report.status # "running" THEN report
  ELSE [report EXCEPT !.status = "completed_before_stage_package_publish"]

AfterPublish == IF unit \in Baselines THEN pc' = "next" /\ todo' = Tail(todo)
                ELSE pc' = "stages" /\ UNCHANGED todo

PublishPackage ==
  /\ pc = "publish" /\ AfterPublish
  /\ report' = FinalReport
  /\ drive' = [drive EXCEPT ![unit] =
       [run |-> run, files |-> local[unit], report |-> FinalReport]]
  /\ UNCHANGED <<run, args, step, finished, local, decision, exit, kills>>

(* A baseline or a gate that did not pass leaves a manifest only. *)
PublishBlocked(u) == u \in Baselines \union Gated

Blocked ==
  /\ pc = "publish" /\ PublishBlocked(unit)
  /\ report' = FinalReport /\ UNCHANGED <<finished, local, drive>>
  /\ IF unit \in Baselines /\ ~args.goOn THEN Fail
     ELSE /\ AfterPublish
          /\ UNCHANGED <<run, args, step, decision, exit, kills>>

PublishRaises == pc = "publish" /\ Fail /\ UNCHANGED <<local, drive, finished>>
                 /\ report' \in {report, FinalReport}

-----------------------------------------------------------------------------
(* The command is cut off; the next one may run on another machine, where  *)
(* there is no run root and no decision file.                              *)
Kill ==
  /\ pc # "idle" /\ kills < MaxKills
  /\ kills' = kills + 1
  /\ pc' = "idle" /\ exit' = "killed" /\ todo' = << >> /\ step' = 0
  /\ UNCHANGED <<run, args, decision>> /\ FilesStay

NewMachine ==
  /\ pc = "idle"
  /\ local' = [u \in Units |-> {}] /\ report' = NoReport
  /\ decision' = [run |-> NoRun, value |-> "none"] /\ exit' = "none"
  /\ UNCHANGED <<run, args, pc, todo, step, finished, drive, kills>>

RunUnit == \/ BeginUnit \/ RestoreInput \/ InputMissing \/ StartTimer
           \/ StageCompletes \/ HelperRaises \/ CommandFails \/ StagesEnd
           \/ PublishPackage \/ Blocked \/ PublishRaises

Next ==
  \/ \E a \in Args : Start(a) \/ ResetRaises(a)
  \/ LeaveMain \/ RecoveryPackage \/ DryRun \/ Preflight \/ RunColabTest
  \/ RunUnit \/ PipelineEnds \/ Kill \/ NewMachine

Spec == Init /\ [][Next]_vars
-----------------------------------------------------------------------------
ReportTypes == [unit : Units \union {"none"}, run : 0 .. MaxRuns,
                status : {"none", "running", "failed", "completed",
                          "completed_before_stage_package_publish"}]

(* Type invariant; a report, a file or a package is never of a later run. *)
TypeOK ==
  /\ run \in 0 .. MaxRuns /\ args \in Args /\ kills \in 0 .. MaxKills
  /\ pc \in {"idle", "raised", "recovery", "plan", "preflight", "colab",
             "next", "restore", "stages", "publish"}
  /\ exit \in {"none", "running", "ok", "failed", "stage", "traceback",
               "killed"}
  /\ todo \in Seq(Units) /\ step \in Nat /\ finished \in BOOLEAN
  /\ report \in ReportTypes
  /\ local \in [Units -> SUBSET Runs]
  /\ drive \in [Units -> [run : 0 .. MaxRuns, files : SUBSET Runs,
                          report : ReportTypes]]
  /\ decision \in [run : 0 .. MaxRuns, value : {"none", "PASS", "FAIL",
                                                "DRY_RUN", "RECOVERED"}]
  /\ decision.run <= run /\ report.run <= run
  /\ \A u \in Units : drive[u].run <= run

(* A pipeline that ends well has published every unit in that very run,     *)
(* except a gate that did not pass and, only if it was told to go on after  *)
(* a failed baseline, baselines (main, _run_external_baseline_references).  *)
PassMeansPublished ==
  pc = "idle" /\ exit = "ok" /\ decision.value = "PASS"
      /\ args.pipeline # Colab =>
    \A u \in Range(Pipelines[args.pipeline]) :
      \/ drive[u].run = run
      \/ u \in Gated
      \/ u \in Baselines /\ args.goOn

(* After --reset-local-workspace a unit reads exactly what is in the        *)
(* packages it restored: no file of another run is left among its inputs.   *)
(* With --continue-on-baseline-failure it may read a mixture: the failed    *)
(* attempt's files under the restored package of an earlier success.        *)
InputsAreThePackages ==
  pc = "stages" /\ args.reset /\ ~args.goOn =>
    \A u \in Range(Requires[unit]) : local[u] = drive[u].files

(* A command that reset the workspace publishes files of its own run only.  *)
ResetPublishesOwnFiles ==
  [][\A u \in Units : drive'[u] # drive[u] /\ args.reset =>
       drive'[u].files = {run}]_vars

(* Every package carries the finished timing report of the unit and the run *)
(* that made it, although all units write and restore the same file         *)
(* (finalize_notebook_runtime_report_for_package keeps an ended report).    *)
PackagedReportIsOwn ==
  \A u \in Units : drive[u].run # NoRun =>
    drive[u].report = [unit |-> u, run |-> drive[u].run,
                       status |-> "completed_before_stage_package_publish"]

(* However a command ends, short of being cut off, the timer's report does  *)
(* not say that it is still running (run_stage, the except clauses of the   *)
(* two stage plans).                                                        *)
ReportSettles ==
  pc = "idle" /\ exit \notin {"none", "killed"} /\ report.run = run =>
    report.status # "running"

(* scripts/README.md:85 has the next run read its model commit from the     *)
(* previous server decision: what is at --decision-output after a command   *)
(* that got as far as its pipeline is the decision of that command.         *)
DecisionIsOfThisRun ==
  pc = "idle" /\ exit \in {"ok", "failed", "stage"} => decision.run = run
=============================================================================
