-------------------------- MODULE ColabTestSession --------------------------
(***************************************************************************)
(* A Colab test request (workflows/colab_test_request.py, entered from     *)
(* scripts/run_generative_video_server_workflow.py) and the Colab session  *)
(* around its runs.                                                        *)
(*                                                                         *)
(* A run works on two file systems.  The virtual machine's own one holds   *)
(* the runner's output root, the validation directory with the bootstrap   *)
(* JSON that makes a failed run recoverable, and the decision JSON.  The   *)
(* mounted Drive holds the result: a directory with a ZIP and a manifest,  *)
(* prepared in a hidden staging directory and promoted by one rename.      *)
(*                                                                         *)
(* The allow-list has one active request (ACTIVE_COLAB_TEST_IDS) whose     *)
(* series identifier is frozen, so the output root and the bootstrap have  *)
(* one path each, while every run has a result directory of its own: run   *)
(* identifiers are microsecond timestamps plus a commit, modelled as       *)
(* increasing numbers.                                                     *)
(*                                                                         *)
(* The notebook runs one server process at a time.  Its fifth cell starts  *)
(* a run; its sixth cell, run by hand after the fifth was interrupted,     *)
(* asks the server for a recovery bundle of what the run left behind.  The *)
(* streaming wrapper ends an interrupted process with SIGTERM or SIGKILL,  *)
(* which no handler of the server survives, and Colab may take the whole   *)
(* machine away: the local files are gone then, Drive stays.               *)
(***************************************************************************)
EXTENDS Naturals

CONSTANTS
  MaxRuns,      \* bound on the number of runs
  MaxFaults,    \* bound on silently damaged Drive writes
  MaxRecoveries,\* bound on the number of recovery bundles
  MaxResets     \* bound on the number of lost machines

ASSUME BoundsAssumption == MaxRuns \in Nat \ {0} /\ MaxFaults \in Nat
ASSUME SessionAssumption == MaxRecoveries \in Nat /\ MaxResets \in Nat

VARIABLES
  (* files of the virtual machine *)
  outputRun,      \* run whose output root exists, or NoRun
  outputFiles,    \* does the output root hold files yet
  validationDir,  \* does validation/<series> exist
  bootstrap,      \* the bootstrap JSON: the run it names and its state
  decision,       \* the server decision JSON of the last run
  (* the server process *)
  pc,             \* its next step; "idle" when no process runs
  run,            \* identifier of the run of this process
  promoted,       \* local variable of the publish function
  exc,            \* the exception being propagated
  (* files on Drive *)
  staging,        \* hidden staging directory of each run
  final,          \* result directory of each run
  (* history and bounds *)
  nextRun, faults,
  returned,       \* runs whose process reported completed
  withdrawn,      \* runs whose promoted directory a rollback began to remove
  cutShort,       \* runs that were killed or whose cleanup failed
  unguarded,      \* runs interrupted between mkdtemp and the try statement
  (* the session *)
  recovery,       \* recovery bundles on Drive, with the runs they hold facts of
  bundles,        \* number of bundles begun
  resets          \* number of machines lost

NoRun == 0
Runs == 1 .. MaxRuns

(* What a copy on Drive can hold: nothing, the prefix an interrupted copy   *)
(* left, bytes that differ from the source, or the source's bytes.          *)
FileState == {"absent", "partial", "damaged", "ok"}
PairDir == [dir : BOOLEAN, zip : FileState, manifest : FileState]
NoDir == [dir |-> FALSE, zip |-> "absent", manifest |-> "absent"]
EmptyDir == [NoDir EXCEPT !.dir = TRUE]

WithZip(d, content) == [d EXCEPT !.zip = content]
WithManifest(d, content) == [d EXCEPT !.manifest = content]

(* A complete result: what a reader of Drive may rely on. *)
PairOk(d) == d.dir /\ d.zip = "ok" /\ d.manifest = "ok"

(* Mutation: the manifest is not read back. *)
ReadbackOfZipOnly(d) == d.zip = "ok"

(* The SHA-256 readback of both files against the local package. *)
ReadbackMatches(d) == d.zip = "ok" /\ d.manifest = "ok"

NoBootstrap == [run |-> NoRun, state |-> "absent"]
PublishedStates == {"PUBLISHING_VERIFIED_LOCAL_PACKAGE",
                    "PUBLISHED_RESULT_VERIFIED"}

localVars == <<outputRun, outputFiles, validationDir, bootstrap, decision>>
procVars == <<pc, run, promoted, exc>>
driveVars == <<staging, final>>
histVars == <<nextRun, faults, returned, withdrawn, cutShort, unguarded>>

RunInit ==
  /\ outputRun = NoRun /\ outputFiles = FALSE /\ validationDir = FALSE
  /\ bootstrap = NoBootstrap /\ decision = "none"
  /\ pc = "idle" /\ run = NoRun /\ promoted = FALSE /\ exc = "none"
  /\ staging = [r \in Runs |-> NoDir] /\ final = [r \in Runs |-> NoDir]
  /\ nextRun = 1 /\ faults = 0 /\ returned = {}
  /\ withdrawn = {} /\ cutShort = {} /\ unguarded = {}

Goto(from, to) == pc = from /\ pc' = to

-----------------------------------------------------------------------------
(* Start: Cell 5 removes the old decision file and launches the server.    *)
StartRun ==
  /\ Goto("idle", "prepare")
  /\ nextRun \in Runs
  /\ run' = nextRun /\ nextRun' = nextRun + 1
  /\ promoted' = FALSE /\ exc' = "none" /\ decision' = "none"
  /\ UNCHANGED <<outputRun, outputFiles, validationDir, bootstrap>>
  /\ UNCHANGED <<driveVars, faults, returned, withdrawn, cutShort, unguarded>>

(* The bootstrap is create-only: the old output root, then the old          *)
(* validation directory, make the run fail before anything is written.      *)
OldRunFacts == outputRun # NoRun \/ validationDir

RefuseOldRunFacts ==
  /\ Goto("prepare", "fail")
  /\ OldRunFacts
  /\ exc' = "error"
  /\ UNCHANGED <<localVars, run, promoted, driveVars, histVars>>

CreateValidationDir ==
  /\ Goto("prepare", "write_bootstrap")
  /\ ~OldRunFacts
  /\ validationDir' = TRUE
  /\ UNCHANGED <<outputRun, outputFiles, bootstrap, decision>>
  /\ UNCHANGED <<run, promoted, exc, driveVars, histVars>>

WriteBootstrap ==
  /\ Goto("write_bootstrap", "make_output")
  /\ bootstrap' = [run |-> run, state |-> "INITIALIZED_PENDING_RUNNER"]
  /\ UNCHANGED <<outputRun, outputFiles, validationDir, decision>>
  /\ UNCHANGED <<run, promoted, exc, driveVars, histVars>>

CreateOutputRoot ==
  /\ Goto("make_output", "runner")
  /\ outputRun = NoRun
  /\ outputRun' = run /\ outputFiles' = FALSE
  /\ UNCHANGED <<validationDir, bootstrap, decision>>
  /\ UNCHANGED <<run, promoted, exc, driveVars, histVars>>

(* The runner writes records for hours before it returns its decision. *)
RunnerWrites ==
  /\ pc = "runner" /\ ~outputFiles
  /\ outputFiles' = TRUE
  /\ UNCHANGED <<outputRun, validationDir, bootstrap, decision>>
  /\ UNCHANGED <<procVars, driveVars, histVars>>

(* The runner returns; ZIP and manifest are written to the local cache. *)
RunnerReturns ==
  /\ Goto("runner", "stage") /\ outputFiles
  /\ UNCHANGED <<localVars, run, promoted, exc, driveVars, histVars>>

-----------------------------------------------------------------------------
(* The transactional publication of the pair. *)

(* The run identifier is fresh, so the existence check cannot fail here. *)
MakeStaging ==
  /\ Goto("stage", "enter_try")
  /\ ~final[run].dir
  /\ staging' = [staging EXCEPT ![run] = EmptyDir]
  /\ UNCHANGED <<localVars, run, promoted, exc, final, histVars>>

(* The directory exists; from here on except and finally look after it. *)
EnterTry ==
  /\ Goto("enter_try", "copy_zip")
  /\ UNCHANGED <<localVars, run, promoted, exc, driveVars, histVars>>

(* An interrupt before the try statement unwinds past both of them. *)
InterruptedBeforeTry ==
  /\ Goto("enter_try", "fail")
  /\ exc' = "interrupt"
  /\ unguarded' = unguarded \union {run}
  /\ UNCHANGED <<localVars, run, promoted, driveVars>>
  /\ UNCHANGED <<nextRun, faults, returned, withdrawn, cutShort>>

(* A Drive write that reports success may still have stored other bytes. *)
DriveWrites(content) ==
  \/ content = "ok" /\ UNCHANGED faults
  \/ content = "damaged" /\ faults < MaxFaults /\ faults' = faults + 1

CopyZip ==
  /\ Goto("copy_zip", "copy_manifest")
  /\ \E content \in FileState :
       /\ DriveWrites(content)
       /\ staging' = [staging EXCEPT ![run] = WithZip(@, content)]
  /\ UNCHANGED <<localVars, run, promoted, exc, final>>
  /\ UNCHANGED <<nextRun, returned, withdrawn, cutShort, unguarded>>

CopyManifest ==
  /\ Goto("copy_manifest", "verify_staging")
  /\ \E content \in FileState :
       /\ DriveWrites(content)
       /\ staging' = [staging EXCEPT ![run] = WithManifest(@, content)]
  /\ UNCHANGED <<localVars, run, promoted, exc, final>>
  /\ UNCHANGED <<nextRun, returned, withdrawn, cutShort, unguarded>>

VerifyStaging ==
  /\ Goto("verify_staging", "mark_publishing")
  /\ ReadbackMatches(staging[run])
  /\ UNCHANGED <<localVars, run, promoted, exc, driveVars, histVars>>

StagingReadbackFails ==
  /\ Goto("verify_staging", "rollback")
  /\ ~ReadbackMatches(staging[run])
  /\ exc' = "error"
  /\ UNCHANGED <<localVars, run, promoted, driveVars, histVars>>

(* The bootstrap learns the digests of the pair before it can be visible. *)
MarkPublishing ==
  /\ Goto("mark_publishing", "rename")
  /\ bootstrap.run = run
  /\ bootstrap' = [run |-> run,
                    state |-> "PUBLISHING_VERIFIED_LOCAL_PACKAGE"]
  /\ UNCHANGED <<outputRun, outputFiles, validationDir, decision>>
  /\ UNCHANGED <<run, promoted, exc, driveVars, histVars>>

(* One rename makes the pair visible; Drive may damage a file on the way. *)
Rename ==
  /\ Goto("rename", "set_promoted")
  /\ \/ /\ final' = [final EXCEPT ![run] = staging[run]]
        /\ UNCHANGED faults
     \/ /\ faults < MaxFaults /\ faults' = faults + 1
        /\ \E d \in {WithZip(staging[run], "damaged"),
                     WithManifest(staging[run], "damaged")} :
             final' = [final EXCEPT ![run] = d]
  /\ staging' = [staging EXCEPT ![run] = NoDir]
  /\ UNCHANGED <<localVars, run, promoted, exc>>
  /\ UNCHANGED <<nextRun, returned, withdrawn, cutShort, unguarded>>

SetPromoted ==
  /\ Goto("set_promoted", "readback")
  /\ promoted' = TRUE
  /\ UNCHANGED <<localVars, run, exc, driveVars, histVars>>

Readback ==
  /\ Goto("readback", "close")
  /\ ReadbackMatches(final[run])
  /\ UNCHANGED <<localVars, run, promoted, exc, driveVars, histVars>>

(* Mutation: the promoted directory is not rolled back. *)
FinalReadbackFailsButStays ==
  /\ Goto("readback", "cleanup")
  /\ ~ReadbackMatches(final[run])
  /\ exc' = "error"
  /\ UNCHANGED <<localVars, run, promoted, driveVars, histVars>>

FinalReadbackFails ==
  /\ Goto("readback", "rollback")
  /\ ~ReadbackMatches(final[run])
  /\ exc' = "error"
  /\ UNCHANGED <<localVars, run, promoted, driveVars, histVars>>

-----------------------------------------------------------------------------
(* Closing the bootstrap of a published run, each part best effort. *)

UpdateToPublished ==
  /\ Goto("close", "unlink")
  /\ \/ /\ bootstrap.run = run
        /\ bootstrap' = [run |-> run, state |-> "PUBLISHED_RESULT_VERIFIED"]
     \/ UNCHANGED bootstrap
  /\ UNCHANGED <<outputRun, outputFiles, validationDir, decision>>
  /\ UNCHANGED <<run, promoted, exc, driveVars, histVars>>

(* Mutation: the bootstrap is emptied, not removed. *)
ForgetToClearRun ==
  /\ Goto("unlink", "rmdir")
  /\ bootstrap' = [bootstrap EXCEPT !.state = "absent"]
  /\ UNCHANGED <<outputRun, outputFiles, validationDir, decision>>
  /\ UNCHANGED <<run, promoted, exc, driveVars, histVars>>

UnlinkBootstrap ==
  /\ Goto("unlink", "rmdir")
  /\ bootstrap' = NoBootstrap
  /\ UNCHANGED <<outputRun, outputFiles, validationDir, decision>>
  /\ UNCHANGED <<run, promoted, exc, driveVars, histVars>>

UnlinkFails ==
  /\ Goto("unlink", "decide")
  /\ UNCHANGED <<localVars, run, promoted, exc, driveVars, histVars>>

RemoveValidationDir ==
  /\ Goto("rmdir", "decide")
  /\ validationDir' \in {FALSE, validationDir}
  /\ UNCHANGED <<outputRun, outputFiles, bootstrap, decision>>
  /\ UNCHANGED <<run, promoted, exc, driveVars, histVars>>

(* main writes the decision and the process ends. *)
WriteDecision ==
  /\ Goto("decide", "idle")
  /\ decision' = "PASS"
  /\ returned' = returned \union {run}
  /\ UNCHANGED <<outputRun, outputFiles, validationDir, bootstrap>>
  /\ UNCHANGED <<run, promoted, exc, driveVars>>
  /\ UNCHANGED <<nextRun, faults, withdrawn, cutShort, unguarded>>

-----------------------------------------------------------------------------
(* Exceptions.  Inside the try statement of the publish function they run    *)
(* its except and finally blocks; anywhere else they unwind to main, also    *)
(* from InterruptedBeforeTry above.  An "error" is an Exception,             *)
(* which main turns into a FAIL decision; an "interrupt" is a                *)
(* KeyboardInterrupt, which no handler turns into a decision.                *)

BeforePublish == {"prepare", "write_bootstrap", "make_output", "runner",
                  "stage"}
InPublish == {"copy_zip", "copy_manifest", "verify_staging",
              "mark_publishing", "rename", "set_promoted", "readback"}
AfterPublish == {"close", "unlink", "rmdir"}

Raise ==
  /\ \/ pc \in BeforePublish \union InPublish /\ exc' \in {"error", "interrupt"}
     \* the close helper swallows every Exception, never an interrupt
     \/ pc \in AfterPublish /\ exc' = "interrupt"
  /\ pc' = IF pc \in InPublish THEN "rollback" ELSE "fail"
  /\ UNCHANGED <<localVars, run, promoted, driveVars, histVars>>

(* A copy that raises leaves the prefix it had written. *)
CopyRaises ==
  /\ pc \in {"copy_zip", "copy_manifest"}
  /\ exc' \in {"error", "interrupt"} /\ pc' = "rollback"
  /\ staging' = IF pc = "copy_zip"
                THEN [staging EXCEPT ![run] = WithZip(@, "partial")]
                ELSE [staging EXCEPT ![run] = WithManifest(@, "partial")]
  /\ UNCHANGED <<localVars, run, promoted, final, histVars>>

(* except BaseException: remove a promoted directory, file after file. *)
RollbackRemovesFile ==
  /\ pc = "rollback"
  /\ promoted /\ final[run].dir
  /\ \/ /\ final[run].zip # "absent"
        /\ final' = [final EXCEPT ![run] = WithZip(@, "absent")]
     \/ /\ final[run].manifest # "absent"
        /\ final' = [final EXCEPT ![run] = WithManifest(@, "absent")]
  /\ withdrawn' = withdrawn \union {run}
  /\ UNCHANGED <<localVars, procVars, staging>>
  /\ UNCHANGED <<nextRun, faults, returned, cutShort, unguarded>>

RollbackRemovesDir ==
  /\ Goto("rollback", "cleanup")
  /\ promoted /\ final[run] = EmptyDir
  /\ final' = [final EXCEPT ![run] = NoDir]
  /\ UNCHANGED <<localVars, run, promoted, exc, staging, histVars>>

(* rmtree itself may fail, or there is nothing promoted to remove. *)
RollbackEnds ==
  /\ Goto("rollback", "cleanup")
  /\ IF promoted THEN exc' \in {"error", "interrupt"} ELSE UNCHANGED exc
  /\ cutShort' = IF promoted THEN cutShort \union {run} ELSE cutShort
  /\ UNCHANGED <<localVars, run, promoted, driveVars>>
  /\ UNCHANGED <<nextRun, faults, returned, withdrawn, unguarded>>

(* Mutation: an interrupt leaves the staging directory behind. *)
RemoveStagingAfterErrors ==
  /\ Goto("cleanup", "fail")
  /\ staging' = IF exc = "error" THEN [staging EXCEPT ![run] = NoDir]
                ELSE staging
  /\ UNCHANGED <<localVars, run, promoted, exc, final, histVars>>

(* finally: a staging directory that is still there is removed. *)
RemoveStaging ==
  /\ Goto("cleanup", "fail")
  /\ staging' = [staging EXCEPT ![run] = NoDir]
  /\ UNCHANGED <<localVars, run, promoted, exc, final, histVars>>

RemoveStagingFails ==
  /\ Goto("cleanup", "fail")
  /\ staging[run].dir
  /\ exc' \in {"error", "interrupt"}
  /\ cutShort' = cutShort \union {run}
  /\ UNCHANGED <<localVars, run, promoted, driveVars>>
  /\ UNCHANGED <<nextRun, faults, returned, withdrawn, unguarded>>

WriteFailDecision ==
  /\ Goto("fail", "idle")
  /\ decision' = IF exc = "error" THEN "FAIL" ELSE decision
  /\ UNCHANGED <<outputRun, outputFiles, validationDir, bootstrap>>
  /\ UNCHANGED <<run, promoted, exc, driveVars, histVars>>

-----------------------------------------------------------------------------
Publish ==
  \/ MakeStaging \/ EnterTry \/ CopyZip \/ CopyManifest \/ VerifyStaging
  \/ MarkPublishing \/ Rename \/ SetPromoted \/ Readback

Close == UpdateToPublished \/ UnlinkBootstrap \/ UnlinkFails
         \/ RemoveValidationDir \/ WriteDecision

Unwind == RollbackRemovesFile \/ RollbackRemovesDir \/ RollbackEnds
          \/ RemoveStaging \/ RemoveStagingFails \/ WriteFailDecision

Faulty == \/ RefuseOldRunFacts
          \/ StagingReadbackFails \/ FinalReadbackFails
          \/ Raise \/ CopyRaises \/ InterruptedBeforeTry

(* The steps the server process takes by itself once it was started. *)
RunStep ==
  \/ CreateValidationDir \/ WriteBootstrap \/ CreateOutputRoot
  \/ RunnerWrites \/ RunnerReturns
  \/ Publish \/ Close \/ Unwind \/ Faulty

-----------------------------------------------------------------------------
(* The session: recovery, kills and lost machines.                         *)

sessionVars == <<recovery, bundles, resets>>
vars == <<localVars, procVars, driveVars, histVars, sessionVars>>

Bundles == 1 .. MaxRecoveries
NoBundle == [pair |-> NoDir, output |-> NoRun, boot |-> NoRun]

Init ==
  /\ RunInit
  /\ recovery = [b \in Bundles |-> NoBundle]
  /\ bundles = 0 /\ resets = 0

-----------------------------------------------------------------------------

(* Mutation: the state alone is believed, the files are not read. *)
PublishedBootstrap == bootstrap.state \in PublishedStates

(* The bootstrap names digests only once the pair was verified in staging; *)
(* both files of the result directory must match them.                     *)
PublishedBootstrapMatchesDrive ==
  /\ bootstrap.state \in PublishedStates
  /\ ReadbackMatches(final[bootstrap.run])

(* A decision handed to the recovery must be a readable FAIL. *)
DecisionAccepted == decision \in {"none", "FAIL"}

Recoverable == \/ outputRun # NoRun /\ outputFiles
               \/ bootstrap # NoBootstrap
               \/ decision = "FAIL"

RecoveryAccepts ==
  /\ ~PublishedBootstrapMatchesDrive
  /\ DecisionAccepted
  /\ Recoverable

StartRecovery ==
  /\ Goto("idle", "recover_check")
  /\ nextRun > 1 /\ bundles < MaxRecoveries
  /\ UNCHANGED <<localVars, run, promoted, exc, driveVars, histVars>>
  /\ UNCHANGED sessionVars

RecoveryRefused ==
  /\ Goto("recover_check", "idle")
  /\ ~RecoveryAccepts
  /\ UNCHANGED <<localVars, run, promoted, exc, driveVars, histVars>>
  /\ UNCHANGED sessionVars

(* The files found now go into a local ZIP; then the directory on Drive is  *)
(* made and the two files are copied one after the other, with no staging.  *)
CollectRecoverable ==
  /\ Goto("recover_check", "recover_zip")
  /\ RecoveryAccepts
  /\ bundles' = bundles + 1
  /\ recovery' = [recovery EXCEPT ![bundles + 1] =
       [pair |-> EmptyDir,
        output |-> IF outputFiles THEN outputRun ELSE NoRun,
        boot |-> bootstrap.run]]
  /\ UNCHANGED <<localVars, run, promoted, exc, driveVars, histVars, resets>>

BundleWith(pair) == [recovery[bundles] EXCEPT !.pair = pair]

RecoveryCopyZip ==
  /\ Goto("recover_zip", "recover_manifest")
  /\ recovery' = [recovery EXCEPT
       ![bundles] = BundleWith(WithZip(@.pair, "ok"))]
  /\ UNCHANGED <<localVars, run, promoted, exc, driveVars, histVars>>
  /\ UNCHANGED <<bundles, resets>>

RecoveryCopyManifest ==
  /\ Goto("recover_manifest", "idle")
  /\ recovery' = [recovery EXCEPT
       ![bundles] = BundleWith(WithManifest(@.pair, "ok"))]
  /\ UNCHANGED <<localVars, run, promoted, exc, driveVars, histVars>>
  /\ UNCHANGED <<bundles, resets>>

(* An exception or a kill ends the recovery and leaves what was written. *)
RecoveryRaises ==
  /\ \/ Goto("recover_check", "idle") /\ UNCHANGED recovery
     \/ /\ Goto("recover_zip", "idle")
        /\ \E content \in {"absent", "partial"} :
             recovery' = [recovery EXCEPT
               ![bundles] = BundleWith(WithZip(@.pair, content))]
     \/ /\ Goto("recover_manifest", "idle")
        /\ \E content \in {"absent", "partial"} :
             recovery' = [recovery EXCEPT
               ![bundles] = BundleWith(WithManifest(@.pair, content))]
  /\ UNCHANGED <<localVars, run, promoted, exc, driveVars, histVars>>
  /\ UNCHANGED <<bundles, resets>>

-----------------------------------------------------------------------------
RunSteps == {"prepare", "enter_try", "decide", "fail", "rollback", "cleanup"}
            \union BeforePublish \union InPublish \union AfterPublish

(* The process is killed.  The file it was writing is cut short: a staged   *)
(* copy keeps a prefix, a decision that was being written is not JSON.      *)
Kill ==
  /\ pc \in RunSteps /\ pc' = "idle"
  /\ cutShort' = cutShort \union {run}
  /\ \/ UNCHANGED <<staging, decision>>
     \/ /\ pc = "copy_zip"
        /\ staging' = [staging EXCEPT ![run] = WithZip(@, "partial")]
        /\ UNCHANGED decision
     \/ /\ pc = "copy_manifest"
        /\ staging' = [staging EXCEPT ![run] = WithManifest(@, "partial")]
        /\ UNCHANGED decision
     \/ /\ pc = "decide" \/ (pc = "fail" /\ exc = "error")
        /\ decision' = "torn"
        /\ UNCHANGED staging
  /\ UNCHANGED <<outputRun, outputFiles, validationDir, bootstrap>>
  /\ UNCHANGED <<run, promoted, exc, final>>
  /\ UNCHANGED <<nextRun, faults, returned, withdrawn, unguarded, sessionVars>>

(* The machine is lost with its files and with the process it ran. *)
ResetMachine ==
  /\ nextRun > 1 /\ resets < MaxResets /\ resets' = resets + 1
  /\ outputRun' = NoRun /\ outputFiles' = FALSE /\ validationDir' = FALSE
  /\ bootstrap' = NoBootstrap /\ decision' = "none"
  /\ pc' = "idle"
  /\ cutShort' = IF pc \in RunSteps THEN cutShort \union {run} ELSE cutShort
  /\ UNCHANGED <<run, promoted, exc, driveVars>>
  /\ UNCHANGED <<nextRun, faults, returned, withdrawn, unguarded>>
  /\ UNCHANGED <<recovery, bundles>>

-----------------------------------------------------------------------------
Recover == \/ RecoveryRefused \/ CollectRecoverable
           \/ RecoveryCopyZip \/ RecoveryCopyManifest \/ RecoveryRaises

ProcessStep == (RunStep /\ UNCHANGED sessionVars) \/ Recover

Next ==
  \/ StartRun /\ UNCHANGED sessionVars
  \/ RunStep /\ UNCHANGED sessionVars
  \/ StartRecovery
  \/ Recover
  \/ Kill
  \/ ResetMachine

(* A started process keeps running; nobody has to start or kill one. *)
Spec == Init /\ [][Next]_vars
FairSpec == Spec /\ WF_vars(ProcessStep)
-----------------------------------------------------------------------------
(* Type invariant; a bootstrap names a run as long as it exists, and only an *)
(* output root has files.                                                    *)
Bundle == [pair : PairDir, output : Runs \union {NoRun},
           boot : Runs \union {NoRun}]
BootstrapStates == {"INITIALIZED_PENDING_RUNNER"} \union PublishedStates

LocalTypes ==
  /\ outputRun \in Runs \union {NoRun} /\ outputFiles \in BOOLEAN
  /\ outputFiles => outputRun # NoRun
  /\ validationDir \in BOOLEAN
  /\ bootstrap \in [run : Runs, state : BootstrapStates] \union {NoBootstrap}
  /\ decision \in {"none", "PASS", "FAIL", "torn"}

ProcTypes ==
  /\ pc \in RunSteps \union {"idle", "recover_check", "recover_zip",
                             "recover_manifest"}
  /\ run \in Runs \union {NoRun}
  /\ promoted \in BOOLEAN /\ exc \in {"none", "error", "interrupt"}

DriveTypes == staging \in [Runs -> PairDir] /\ final \in [Runs -> PairDir]

HistTypes ==
  /\ nextRun \in 1 .. MaxRuns + 1 /\ faults \in 0 .. MaxFaults
  /\ returned \subseteq Runs /\ withdrawn \subseteq Runs
  /\ cutShort \subseteq Runs /\ unguarded \subseteq Runs

SessionTypes ==
  /\ recovery \in [Bundles -> Bundle]
  /\ bundles \in 0 .. MaxRecoveries /\ resets \in 0 .. MaxResets

TypeOK ==
  LocalTypes /\ ProcTypes /\ DriveTypes /\ HistTypes /\ SessionTypes

(* A run that reported "completed" has its verified ZIP and manifest on     *)
(* Drive for ever: no rollback, later run, recovery, kill or lost machine   *)
(* takes them away (run_colab_test_request returns only after the readback, *)
(* and only an exception before it rolls back).                             *)
ReturnedIsDurable == \A r \in returned : PairOk(final[r])

VisibleStep ==
  \A r \in Runs : ~final[r].dir /\ final'[r].dir => PairOk(staging[r])

(* A result directory becomes visible only by promoting a pair whose two    *)
(* digests were read back from staging: no exception, interrupt or kill     *)
(* between the copies exposes a partial or a wrong file                     *)
(* (_publish_result_pair_transactionally).                                  *)
VisibleOnlyVerified == [][VisibleStep]_vars

(* Between two processes a hidden staging directory is left only by a run   *)
(* that was killed, whose cleanup failed, or that an interrupt met between  *)
(* mkdtemp and the try statement, and then it is empty: every exception and *)
(* every interrupt after that removes it (the finally block of the publish  *)
(* function).                                                               *)
StagingLeaksAreKnown ==
  pc = "idle" =>
    \A r \in Runs : staging[r].dir =>
      r \in cutShort \/ (r \in unguarded /\ staging[r] = EmptyDir)

(* Whatever ended a run, when no process runs its records are either in the *)
(* verified result on Drive or will be accepted by the recovery; the one    *)
(* exception is a decision file cut off while it was written, which the     *)
(* recovery refuses to read.                                                *)
NothingStranded ==
  pc = "idle" /\ outputFiles =>
    PairOk(final[outputRun]) \/ RecoveryAccepts \/ decision = "torn"

(* A bootstrap packed by the recovery is never the one of a published run:  *)
(* the state that is written before the rename, together with the digests,  *)
(* covers the time between the rename and the removal of the file.          *)
RecoveredBootstrapUnpublished ==
  \A b \in Bundles :
    recovery[b].boot # NoRun => ~PairOk(final[recovery[b].boot])

(* A recovery bundle never mixes the records of one run with the bootstrap  *)
(* of another, although both live at paths all runs share.                  *)
NoCrossRunMix ==
  \A b \in Bundles :
    recovery[b].output # NoRun /\ recovery[b].boot # NoRun =>
      recovery[b].output = recovery[b].boot

(* A recovery works on files alone, after any number of runs: it is offered *)
(* all that is not published, packs nothing that is, and keeps runs apart.  *)
RecoveryIsSound ==
  NothingStranded /\ RecoveredBootstrapUnpublished /\ NoCrossRunMix

(* What docs/field_registry.md:3665 says: a published run does not enter    *)
(* recovery.  The code checks it through the bootstrap only, which closing  *)
(* the run has removed.                                                     *)
PublishedNeverRecovered ==
  \A b \in Bundles :
    recovery[b].output # NoRun => ~PairOk(final[recovery[b].output])

(* A promoted pair that fails the final readback is removed again, unless   *)
(* the process is killed or the removal itself fails.                       *)
DamagedIsWithdrawn ==
  \A r \in Runs :
    (pc = "readback" /\ run = r /\ ~PairOk(final[r]))
      ~> (~final[r].dir \/ r \in cutShort)

-----------------------------------------------------------------------------
(* The Colab session implements the result store: what a reader of Drive    *)
(* sees of each run, as a function of the session's state.                  *)
(* A withdrawn run has lost a file of its pair before its directory goes. *)
StoredResult ==
  [r \in Runs |->
     IF ~final[r].dir THEN IF r \in withdrawn THEN "gone" ELSE "none"
     ELSE IF PairOk(final[r]) THEN "pair" ELSE "torn"]

Store == INSTANCE ResultStore WITH result <- StoredResult, acked <- returned

(* The session keeps the promises of the result store: a result appears at  *)
(* once, is acknowledged only complete, stays once acknowledged, and is     *)
(* never published a second time.                                           *)
ImplementsResultStore == Store!Spec
=============================================================================
