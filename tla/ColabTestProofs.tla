-------------------------- MODULE ColabTestProofs --------------------------
(***************************************************************************)
(* Safety of the Colab session, for any number of runs, damaged writes,    *)
(* recovery bundles and lost machines.                                     *)
(***************************************************************************)
EXTENDS ColabTestSession, TLAPS

(* The process that runs has an identifier of its own, and a recovery has   *)
(* room for its bundle.                                                     *)
CurrentRun ==
  /\ pc = "recover_check" => bundles < MaxRecoveries
  /\ pc \in {"recover_zip", "recover_manifest"} => bundles \in Bundles
  /\ pc \in RunSteps => run \in Runs /\ run < nextRun /\ run \notin returned
  /\ \A r \in returned : r < nextRun

(* Until it removes the bootstrap, the bootstrap is its own as well. *)
BootstrapBound ==
  /\ pc \in {"make_output", "runner", "stage", "enter_try", "close", "unlink"}
            \union InPublish => bootstrap.run = run
  /\ pc = "runner" => outputRun = run

(* Each readback is passed only with the right bytes, and looks at the      *)
(* directory the process works on.                                          *)
Verified ==
  /\ pc = "enter_try" => staging[run] = EmptyDir
  /\ pc \in InPublish \ {"set_promoted", "readback"} => staging[run].dir
  /\ pc \in {"set_promoted", "readback"} => final[run].dir
  /\ pc \in {"mark_publishing", "rename"} => PairOk(staging[run])
  /\ pc \in {"close", "unlink", "rmdir", "decide"} => PairOk(final[run])

IInv == TypeOK /\ CurrentRun /\ BootstrapBound /\ Verified /\ ReturnedIsDurable

USE DEF RunSteps, BeforePublish, InPublish, AfterPublish, localVars, procVars,
        driveVars, histVars, sessionVars, vars, NoRun, Goto

(* Replacing a file of a result directory keeps its type and its existence. *)
LEMMA PairTypes ==
  /\ NoDir \in PairDir /\ EmptyDir \in PairDir /\ EmptyDir.dir
  /\ \A d \in PairDir, f \in FileState :
       /\ WithZip(d, f) \in PairDir /\ WithZip(d, f).dir = d.dir
       /\ WithManifest(d, f) \in PairDir /\ WithManifest(d, f).dir = d.dir
BY DEF NoDir, EmptyDir, PairDir, FileState, WithZip, WithManifest

(* Replacing the pair of the current recovery bundle keeps its type. *)
LEMMA BundleTypes ==
  ASSUME recovery \in [Bundles -> Bundle], bundles \in Bundles
  PROVE  /\ recovery[bundles].pair \in PairDir
         /\ \A d \in PairDir : BundleWith(d) \in Bundle
BY DEF Bundle, BundleWith

(* The invariant holds before the first run. *)
LEMMA InitIInv == Init => IInv
<1> SUFFICES ASSUME Init PROVE IInv
  OBVIOUS
<1> USE BoundsAssumption, SessionAssumption, PairTypes DEF Init, RunInit, Runs
<1>1. recovery \in [Bundles -> Bundle] BY DEF NoBundle, Bundle
<1>2. LocalTypes BY DEF LocalTypes, NoBootstrap
<1>3. ProcTypes BY DEF ProcTypes
<1>4. HistTypes BY DEF HistTypes
<1>5. SessionTypes BY <1>1 DEF SessionTypes
<1>6. TypeOK BY <1>2, <1>3, <1>4, <1>5 DEF TypeOK, DriveTypes
<1>7. CurrentRun /\ BootstrapBound /\ Verified /\ ReturnedIsDurable
  BY DEF CurrentRun, BootstrapBound, Verified, ReturnedIsDurable
<1>8. QED BY <1>6, <1>7 DEF IInv

(* The steps before the publication keep the invariant. *)
LEMMA RunnerSteps ==
  ASSUME IInv, UNCHANGED sessionVars,
         StartRun \/ CreateValidationDir \/ WriteBootstrap \/ CreateOutputRoot
         \/ RunnerWrites \/ RunnerReturns
  PROVE  IInv'
<1> USE BoundsAssumption, SessionAssumption
    DEF IInv, TypeOK, LocalTypes, ProcTypes, DriveTypes, HistTypes, SessionTypes,
        CurrentRun, BootstrapBound, Verified, ReturnedIsDurable, PairOk, Runs,
        NoBootstrap, BootstrapStates
<1>1. CASE StartRun
  <2> USE <1>1 DEF StartRun
  <2>1. TypeOK'
    <3>1. (LocalTypes /\ ProcTypes)' OBVIOUS
    <3>2. (HistTypes /\ SessionTypes)' OBVIOUS
    <3>3. DriveTypes' OBVIOUS
    <3>4. QED BY <3>1, <3>2, <3>3
  <2>2. (CurrentRun /\ BootstrapBound)' OBVIOUS
  <2>3. (Verified /\ ReturnedIsDurable)' OBVIOUS
  <2>4. QED BY <2>1, <2>2, <2>3
<1>2. CASE CreateValidationDir BY <1>2 DEF CreateValidationDir
<1>3. CASE WriteBootstrap BY <1>3 DEF WriteBootstrap
<1>4. CASE CreateOutputRoot BY <1>4 DEF CreateOutputRoot
<1>5. CASE RunnerWrites BY <1>5 DEF RunnerWrites
<1>6. CASE RunnerReturns BY <1>6 DEF RunnerReturns
<1>7. QED BY <1>1, <1>2, <1>3, <1>4, <1>5, <1>6

(* The steps of the transactional publication keep the invariant. *)
LEMMA PublishSteps ==
  ASSUME IInv, UNCHANGED sessionVars, Publish
  PROVE  IInv'
<1> USE BoundsAssumption, SessionAssumption
    DEF IInv, TypeOK, LocalTypes, ProcTypes, DriveTypes, HistTypes, SessionTypes,
        CurrentRun, BootstrapBound, Verified, ReturnedIsDurable, PairOk, Runs,
        NoBootstrap, BootstrapStates, ReadbackMatches
<1>1. CASE MakeStaging BY <1>1, PairTypes DEF MakeStaging
<1>10. CASE EnterTry BY <1>10, PairTypes DEF EnterTry
<1>2. CASE CopyZip
  <2> PICK content \in FileState :
           DriveWrites(content) /\ staging' = [staging EXCEPT ![run] = WithZip(@, content)]
    BY <1>2 DEF CopyZip
  <2> faults' \in 0 .. MaxFaults BY DEF DriveWrites
  <2> USE <1>2, PairTypes DEF CopyZip
  <2>1. TypeOK'
    <3>1. (LocalTypes /\ ProcTypes)' OBVIOUS
    <3>2. (HistTypes /\ SessionTypes)' OBVIOUS
    <3>3. DriveTypes' OBVIOUS
    <3>4. QED BY <3>1, <3>2, <3>3
  <2>2. (CurrentRun /\ BootstrapBound)' OBVIOUS
  <2>3. (Verified /\ ReturnedIsDurable)' OBVIOUS
  <2>4. QED BY <2>1, <2>2, <2>3
<1>3. CASE CopyManifest
  <2> PICK content \in FileState :
           DriveWrites(content) /\ staging' = [staging EXCEPT ![run] = WithManifest(@, content)]
    BY <1>3 DEF CopyManifest
  <2> faults' \in 0 .. MaxFaults BY DEF DriveWrites
  <2> USE <1>3, PairTypes DEF CopyManifest
  <2>1. TypeOK'
    <3>1. (LocalTypes /\ ProcTypes)' OBVIOUS
    <3>2. (HistTypes /\ SessionTypes)' OBVIOUS
    <3>3. DriveTypes' OBVIOUS
    <3>4. QED BY <3>1, <3>2, <3>3
  <2>2. (CurrentRun /\ BootstrapBound)' OBVIOUS
  <2>3. (Verified /\ ReturnedIsDurable)' OBVIOUS
  <2>4. QED BY <2>1, <2>2, <2>3
<1>4. CASE VerifyStaging
  <2> USE <1>4 DEF VerifyStaging
  <2>1. TypeOK'
    <3>1. (LocalTypes /\ ProcTypes)' OBVIOUS
    <3>2. (HistTypes /\ SessionTypes)' OBVIOUS
    <3>3. DriveTypes' OBVIOUS
    <3>4. QED BY <3>1, <3>2, <3>3
  <2>2. (CurrentRun /\ BootstrapBound)' OBVIOUS
  <2>3. (Verified /\ ReturnedIsDurable)' OBVIOUS
  <2>4. QED BY <2>1, <2>2, <2>3
<1>5. CASE MarkPublishing BY <1>5 DEF MarkPublishing, PublishedStates
<1>6. CASE Rename
  <2> staging[run] \in PairDir /\ staging[run].dir BY <1>6 DEF Rename
  <2> DEFINE damaged == {WithZip(staging[run], "damaged"),
                         WithManifest(staging[run], "damaged")}
  <2> \A d \in damaged : d \in PairDir /\ d.dir BY PairTypes DEF FileState
  <2> HIDE DEF damaged
  <2> PICK d \in PairDir : final' = [final EXCEPT ![run] = d] /\ d.dir
    BY <1>6 DEF Rename, damaged
  <2> USE <1>6, PairTypes DEF Rename
  <2>1. TypeOK'
    <3>1. (LocalTypes /\ ProcTypes)' OBVIOUS
    <3>2. (HistTypes /\ SessionTypes)' OBVIOUS
    <3>3. DriveTypes' OBVIOUS
    <3>4. QED BY <3>1, <3>2, <3>3
  <2>2. (CurrentRun /\ BootstrapBound)' OBVIOUS
  <2>3. (Verified /\ ReturnedIsDurable)' OBVIOUS
  <2>4. QED BY <2>1, <2>2, <2>3
<1>7. CASE SetPromoted BY <1>7 DEF SetPromoted
<1>8. CASE Readback BY <1>8 DEF Readback
<1>9. QED
  BY <1>1, <1>2, <1>3, <1>4, <1>5, <1>6, <1>7, <1>8, <1>10 DEF Publish

(* Closing the bootstrap and reporting the run keep the invariant. *)
LEMMA CloseSteps ==
  ASSUME IInv, UNCHANGED sessionVars, Close
  PROVE  IInv'
<1> USE BoundsAssumption, SessionAssumption
    DEF IInv, TypeOK, LocalTypes, ProcTypes, DriveTypes, HistTypes, SessionTypes,
        CurrentRun, BootstrapBound, Verified, ReturnedIsDurable, PairOk, Runs,
        NoBootstrap, BootstrapStates
<1>1. CASE UpdateToPublished
  <2> USE <1>1 DEF UpdateToPublished, PublishedStates
  <2>1. TypeOK'
    <3>1. (LocalTypes /\ ProcTypes)' OBVIOUS
    <3>2. (HistTypes /\ SessionTypes)' OBVIOUS
    <3>3. DriveTypes' OBVIOUS
    <3>4. QED BY <3>1, <3>2, <3>3
  <2>2. (CurrentRun /\ BootstrapBound)' OBVIOUS
  <2>3. (Verified /\ ReturnedIsDurable)' OBVIOUS
  <2>4. QED BY <2>1, <2>2, <2>3
<1>2. CASE UnlinkBootstrap BY <1>2 DEF UnlinkBootstrap
<1>3. CASE UnlinkFails BY <1>3 DEF UnlinkFails
<1>4. CASE RemoveValidationDir
  <2> validationDir' \in BOOLEAN BY <1>4 DEF RemoveValidationDir
  <2> USE <1>4 DEF RemoveValidationDir
  <2>1. TypeOK'
    <3>1. (LocalTypes /\ ProcTypes)' OBVIOUS
    <3>2. (HistTypes /\ SessionTypes)' OBVIOUS
    <3>3. DriveTypes' OBVIOUS
    <3>4. QED BY <3>1, <3>2, <3>3
  <2>2. (CurrentRun /\ BootstrapBound)' OBVIOUS
  <2>3. (Verified /\ ReturnedIsDurable)' OBVIOUS
  <2>4. QED BY <2>1, <2>2, <2>3
<1>5. CASE WriteDecision BY <1>5 DEF WriteDecision
<1>6. QED BY <1>1, <1>2, <1>3, <1>4, <1>5 DEF Close

(* Rollback, cleanup and the FAIL decision keep the invariant. *)
LEMMA UnwindSteps ==
  ASSUME IInv, UNCHANGED sessionVars, Unwind
  PROVE  IInv'
<1> USE BoundsAssumption, SessionAssumption
    DEF IInv, TypeOK, LocalTypes, ProcTypes, DriveTypes, HistTypes, SessionTypes,
        CurrentRun, BootstrapBound, Verified, ReturnedIsDurable, PairOk, Runs,
        NoBootstrap, BootstrapStates
<1>1. CASE RollbackRemovesFile
  <2> USE <1>1, PairTypes DEF RollbackRemovesFile, FileState
  <2>1. TypeOK'
    <3>1. (LocalTypes /\ ProcTypes)' OBVIOUS
    <3>2. (HistTypes /\ SessionTypes)' OBVIOUS
    <3>3. DriveTypes' OBVIOUS
    <3>4. QED BY <3>1, <3>2, <3>3
  <2>2. (CurrentRun /\ BootstrapBound)' OBVIOUS
  <2>3. (Verified /\ ReturnedIsDurable)' OBVIOUS
  <2>4. QED BY <2>1, <2>2, <2>3
<1>2. CASE RollbackRemovesDir BY <1>2, PairTypes DEF RollbackRemovesDir
<1>3. CASE RollbackEnds BY <1>3 DEF RollbackEnds
<1>4. CASE RemoveStaging BY <1>4, PairTypes DEF RemoveStaging
<1>5. CASE RemoveStagingFails BY <1>5 DEF RemoveStagingFails
<1>6. CASE WriteFailDecision BY <1>6 DEF WriteFailDecision
<1>7. QED BY <1>1, <1>2, <1>3, <1>4, <1>5, <1>6 DEF Unwind

(* Refused runs, failed readbacks and exceptions keep the invariant. *)
LEMMA FaultySteps ==
  ASSUME IInv, UNCHANGED sessionVars, Faulty
  PROVE  IInv'
<1> USE BoundsAssumption, SessionAssumption
    DEF IInv, TypeOK, LocalTypes, ProcTypes, DriveTypes, HistTypes, SessionTypes,
        CurrentRun, BootstrapBound, Verified, ReturnedIsDurable, PairOk, Runs,
        NoBootstrap, BootstrapStates
<1>1. CASE RefuseOldRunFacts BY <1>1 DEF RefuseOldRunFacts
<1>2. CASE StagingReadbackFails BY <1>2 DEF StagingReadbackFails
<1>3. CASE FinalReadbackFails BY <1>3 DEF FinalReadbackFails
<1>4. CASE Raise BY <1>4 DEF Raise
<1>5. CASE CopyRaises BY <1>5, PairTypes DEF CopyRaises, FileState
<1>6. CASE InterruptedBeforeTry BY <1>6 DEF InterruptedBeforeTry
<1>7. QED BY <1>1, <1>2, <1>3, <1>4, <1>5, <1>6 DEF Faulty

(* Recoveries, kills and lost machines keep the invariant. *)
LEMMA SessionSteps ==
  ASSUME IInv, StartRecovery \/ Recover \/ Kill \/ ResetMachine
  PROVE  IInv'
<1> USE BoundsAssumption, SessionAssumption
    DEF IInv, TypeOK, LocalTypes, ProcTypes, DriveTypes, HistTypes, SessionTypes,
        CurrentRun, BootstrapBound, Verified, ReturnedIsDurable, PairOk, Runs,
        NoBootstrap, BootstrapStates
<1>1. CASE StartRecovery BY <1>1 DEF StartRecovery, Bundles
<1>2. CASE RecoveryRefused BY <1>2 DEF RecoveryRefused
<1>3. CASE CollectRecoverable
  <2> USE <1>3, PairTypes DEF CollectRecoverable, Bundles
  <2>1. TypeOK'
    <3>1. LocalTypes' OBVIOUS
    <3>2. ProcTypes' OBVIOUS
    <3>3. HistTypes' OBVIOUS
    <3>4. SessionTypes'
      <4>1. bundles + 1 \in Bundles /\ bundles' \in 0 .. MaxRecoveries
        BY <1>3 DEF CollectRecoverable, Bundles
      <4>2. recovery'[bundles + 1] \in Bundle
        <5>1. bootstrap.run \in Runs \union {NoRun} OBVIOUS
        <5>2. QED BY <1>3, <4>1, <5>1, PairTypes DEF CollectRecoverable, Bundle
      <4>3. recovery' = [recovery EXCEPT ![bundles + 1] = recovery'[bundles + 1]]
        BY <1>3, <4>1 DEF CollectRecoverable
      <4>4. recovery' \in [Bundles -> Bundle] BY <4>2, <4>3
      <4>5. QED BY <1>3, <4>1, <4>4 DEF CollectRecoverable
    <3>5. DriveTypes' OBVIOUS
    <3>6. QED BY <3>1, <3>2, <3>3, <3>4, <3>5
  <2>2. CurrentRun' BY <1>3 DEF CollectRecoverable, Bundles
  <2>3. BootstrapBound' OBVIOUS
  <2>4. Verified' OBVIOUS
  <2>5. ReturnedIsDurable' OBVIOUS
  <2>6. QED BY <2>1, <2>2, <2>3, <2>4, <2>5
<1>4. CASE RecoveryCopyZip
  <2> USE <1>4, PairTypes, BundleTypes DEF RecoveryCopyZip, Bundles, FileState
  <2>1. TypeOK'
    <3>1. (LocalTypes /\ ProcTypes)' OBVIOUS
    <3>2. (HistTypes /\ SessionTypes)' OBVIOUS
    <3>3. DriveTypes' OBVIOUS
    <3>4. QED BY <3>1, <3>2, <3>3
  <2>2. (CurrentRun /\ BootstrapBound)' OBVIOUS
  <2>3. (Verified /\ ReturnedIsDurable)' OBVIOUS
  <2>4. QED BY <2>1, <2>2, <2>3
<1>5. CASE RecoveryCopyManifest
  <2> USE <1>5, PairTypes, BundleTypes DEF RecoveryCopyManifest, Bundles, FileState
  <2>1. TypeOK'
    <3>1. (LocalTypes /\ ProcTypes)' OBVIOUS
    <3>2. (HistTypes /\ SessionTypes)' OBVIOUS
    <3>3. DriveTypes' OBVIOUS
    <3>4. QED BY <3>1, <3>2, <3>3
  <2>2. (CurrentRun /\ BootstrapBound)' OBVIOUS
  <2>3. (Verified /\ ReturnedIsDurable)' OBVIOUS
  <2>4. QED BY <2>1, <2>2, <2>3
<1>6. CASE RecoveryRaises
  <2> USE <1>6, PairTypes, BundleTypes DEF RecoveryRaises, Bundles, FileState
  <2>1. TypeOK'
    <3>1. LocalTypes' OBVIOUS
    <3>2. ProcTypes' OBVIOUS
    <3>3. HistTypes' OBVIOUS
    <3>4. SessionTypes'
      <4>1. CASE UNCHANGED recovery BY <1>6, <4>1 DEF RecoveryRaises
      <4>2. CASE pc = "recover_zip" /\ \E content \in {"absent", "partial"} :
                   recovery' = [recovery EXCEPT
                     ![bundles] = BundleWith(WithZip(@.pair, content))]
        <5>1. bundles \in Bundles BY <1>6, <4>2 DEF RecoveryRaises
        <5>2. QED
          BY <1>6, <4>2, <5>1, PairTypes, BundleTypes DEF RecoveryRaises, FileState
      <4>3. CASE pc = "recover_manifest" /\ \E content \in {"absent", "partial"} :
                   recovery' = [recovery EXCEPT
                     ![bundles] = BundleWith(WithManifest(@.pair, content))]
        <5>1. bundles \in Bundles BY <1>6, <4>3 DEF RecoveryRaises
        <5>2. QED
          BY <1>6, <4>3, <5>1, PairTypes, BundleTypes DEF RecoveryRaises, FileState
      <4>4. QED BY <1>6, <4>1, <4>2, <4>3 DEF RecoveryRaises
    <3>5. DriveTypes' OBVIOUS
    <3>6. QED BY <3>1, <3>2, <3>3, <3>4, <3>5
  <2>2. (CurrentRun /\ BootstrapBound)' OBVIOUS
  <2>3. (Verified /\ ReturnedIsDurable)' OBVIOUS
  <2>4. QED BY <2>1, <2>2, <2>3
<1>7. CASE Kill BY <1>7, PairTypes DEF Kill, FileState
<1>8. CASE ResetMachine
  <2> USE <1>8 DEF ResetMachine
  <2>1. TypeOK'
    <3>1. (LocalTypes /\ ProcTypes)' OBVIOUS
    <3>2. (HistTypes /\ SessionTypes)' OBVIOUS
    <3>3. DriveTypes' OBVIOUS
    <3>4. QED BY <3>1, <3>2, <3>3
  <2>2. (CurrentRun /\ BootstrapBound)' OBVIOUS
  <2>3. (Verified /\ ReturnedIsDurable)' OBVIOUS
  <2>4. QED BY <2>1, <2>2, <2>3
<1>9. QED BY <1>1, <1>2, <1>3, <1>4, <1>5, <1>6, <1>7, <1>8 DEF Recover

(* Every step of the session keeps the invariant. *)
LEMMA NextIInv == IInv /\ [Next]_vars => IInv'
<1>1. SUFFICES ASSUME IInv, [Next]_vars PROVE IInv'
  OBVIOUS
<1>2. CASE UNCHANGED vars
  BY <1>1, <1>2
  DEF IInv, TypeOK, LocalTypes, ProcTypes, DriveTypes, HistTypes, SessionTypes,
      CurrentRun, BootstrapBound, Verified, ReturnedIsDurable, PairOk
<1>3. CASE Next
  BY <1>1, <1>3, RunnerSteps, PublishSteps, CloseSteps, UnwindSteps,
     FaultySteps, SessionSteps DEF Next, RunStep
<1>4. QED BY <1>1, <1>2, <1>3

(* Every reachable state has the types the model gives it: bootstrap,       *)
(* decision and process facts of colab_test_request.py never disagree.      *)
THEOREM TypeCorrect == Spec => []TypeOK
<1>1. IInv => TypeOK BY DEF IInv
<1>2. QED BY InitIInv, NextIInv, <1>1, PTL DEF Spec

(* However many runs, damaged writes, kills, recoveries and lost machines   *)
(* there are, a run reported completed keeps its verified pair on Drive     *)
(* (_publish_result_pair_transactionally, run_colab_test_request).          *)
THEOREM CompletedRunsAreDurable == Spec => []ReturnedIsDurable
<1>1. IInv => ReturnedIsDurable BY DEF IInv
<1>2. QED BY InitIInv, NextIInv, <1>1, PTL DEF Spec

(* From a state with the invariant only the verified rename exposes a pair. *)
LEMMA OnlyRenamePublishes == IInv /\ [Next]_vars => VisibleStep
<1> SUFFICES ASSUME IInv, [Next]_vars PROVE VisibleStep
  OBVIOUS
<1>1. CASE UNCHANGED final BY <1>1 DEF VisibleStep
<1>2. CASE Rename
  <2>1. PairOk(staging[run]) BY <1>2 DEF IInv, Verified, Rename
  <2>2. \A r \in Runs : r # run => final'[r] = final[r]
    BY <1>2 DEF Rename, IInv, TypeOK, DriveTypes
  <2>3. QED BY <2>1, <2>2 DEF VisibleStep
<1>3. CASE RollbackRemovesFile
  BY <1>3, PairTypes DEF RollbackRemovesFile, IInv, TypeOK, DriveTypes, VisibleStep, FileState
<1>4. CASE RollbackRemovesDir
  BY <1>4 DEF RollbackRemovesDir, IInv, TypeOK, DriveTypes, VisibleStep, NoDir
<1>5. QED
  BY <1>1, <1>2, <1>3, <1>4
  DEF Next, StartRun, RunStep, Publish, Close, Unwind, Faulty, StartRecovery,
      Recover, Kill, ResetMachine, CreateValidationDir, WriteBootstrap,
      CreateOutputRoot, RunnerWrites, RunnerReturns, MakeStaging, EnterTry,
      CopyZip, CopyManifest, VerifyStaging, MarkPublishing, SetPromoted, Readback,
      UpdateToPublished, UnlinkBootstrap, UnlinkFails, RemoveValidationDir,
      WriteDecision, RollbackEnds, RemoveStaging, RemoveStagingFails,
      WriteFailDecision, RefuseOldRunFacts, StagingReadbackFails,
      FinalReadbackFails, Raise, CopyRaises, InterruptedBeforeTry,
      RecoveryRefused, CollectRecoverable, RecoveryCopyZip, RecoveryCopyManifest, RecoveryRaises

(* A result directory is promoted only with the two digests read back from  *)
(* staging, whatever exceptions, interrupts and kills come in between       *)
(* (_publish_result_pair_transactionally).                                  *)
THEOREM VisibleResultsWereVerified == Spec => VisibleOnlyVerified
<1>1. IInv /\ [Next]_vars => [VisibleStep]_vars BY OnlyRenamePublishes
<1>2. QED BY InitIInv, NextIInv, <1>1, PTL DEF Spec, VisibleOnlyVerified

-----------------------------------------------------------------------------
(* Refinement.  A run that may still publish was never withdrawn and shows  *)
(* nothing yet; a visible directory lacks a file only after a withdrawal.   *)
StoreInv ==
  /\ \A r \in withdrawn : r < nextRun
  /\ pc \in {"enter_try"} \union BeforePublish \union InPublish =>
       run \notin withdrawn
  /\ pc \in {"enter_try"} \union (InPublish \ {"set_promoted", "readback"}) =>
       ~final[run].dir
  /\ \A r \in Runs \ withdrawn :
       final[r].dir => final[r].zip # "absent" /\ final[r].manifest # "absent"

(* The refinement invariant holds before the first run. *)
LEMMA InitStoreInv == Init => StoreInv
BY DEF Init, RunInit, StoreInv, NoDir

(* Replacing one file of a pair sets it and leaves the other one alone. *)
LEMMA FileTypes ==
  \A d \in PairDir, f \in FileState :
    /\ WithZip(d, f).zip = f /\ WithZip(d, f).manifest = d.manifest
    /\ WithManifest(d, f).manifest = f /\ WithManifest(d, f).zip = d.zip
BY DEF PairDir, WithZip, WithManifest

(* Steps that neither publish nor withdraw leave the directories alone. *)
Quiet ==
  /\ UNCHANGED <<final, withdrawn, nextRun, run, returned>>
     \/ WriteDecision
  /\ pc' \in {"enter_try"} \union BeforePublish \union InPublish =>
       pc \in {"enter_try"} \union BeforePublish \union InPublish
  /\ pc' \in {"enter_try"} \union (InPublish \ {"set_promoted", "readback"}) =>
       \/ pc \in {"enter_try"} \union (InPublish \ {"set_promoted", "readback"})
       \/ MakeStaging

(* Every step is one of the kinds the refinement tells apart. *)
LEMMA StepKinds ==
  ASSUME [Next]_vars
  PROVE  StartRun \/ Rename \/ RollbackRemovesFile \/ RollbackRemovesDir \/ Quiet
<1>1. CASE UNCHANGED vars BY <1>1 DEF Quiet
<1>2. CASE CreateValidationDir \/ WriteBootstrap \/ CreateOutputRoot
           \/ RunnerWrites \/ RunnerReturns
  BY <1>2 DEF Quiet, CreateValidationDir, WriteBootstrap, CreateOutputRoot,
              RunnerWrites, RunnerReturns
<1>3. CASE Publish /\ ~Rename
  BY <1>3 DEF Quiet, Publish, MakeStaging, EnterTry, CopyZip, CopyManifest,
              VerifyStaging, MarkPublishing, SetPromoted, Readback
<1>4. CASE Close
  BY <1>4 DEF Quiet, Close, UpdateToPublished, UnlinkBootstrap, UnlinkFails,
              RemoveValidationDir, WriteDecision
<1>5. CASE RollbackEnds \/ RemoveStaging \/ RemoveStagingFails \/ WriteFailDecision
  BY <1>5 DEF Quiet, RollbackEnds, RemoveStaging, RemoveStagingFails,
              WriteFailDecision
<1>6. CASE Faulty
  BY <1>6 DEF Quiet, Faulty, RefuseOldRunFacts, StagingReadbackFails,
              FinalReadbackFails, Raise, CopyRaises, InterruptedBeforeTry
<1>7. CASE StartRecovery \/ Recover \/ Kill \/ ResetMachine
  BY <1>7 DEF Quiet, StartRecovery, Recover, RecoveryRefused, CollectRecoverable,
              RecoveryCopyZip, RecoveryCopyManifest, RecoveryRaises, Kill,
              ResetMachine
<1>8. QED
  BY <1>1, <1>2, <1>3, <1>4, <1>5, <1>6, <1>7
  DEF Next, RunStep, Publish, Unwind

(* Every step keeps the refinement invariant. *)
LEMMA NextStoreInv == IInv /\ StoreInv /\ [Next]_vars => StoreInv'
<1> SUFFICES ASSUME IInv, StoreInv, [Next]_vars PROVE StoreInv'
  OBVIOUS
<1> USE DEF IInv, StoreInv, TypeOK, DriveTypes, HistTypes, CurrentRun, Runs
<1>1. CASE StartRun BY <1>1, BoundsAssumption DEF StartRun
<1>2. CASE Rename
  <2>1. /\ staging[run] \in PairDir
        /\ staging[run].zip = "ok" /\ staging[run].manifest = "ok"
    BY <1>2 DEF Rename, Verified, PairOk
  <2>2. WithZip(staging[run], "damaged").zip = "damaged"
        /\ WithZip(staging[run], "damaged").manifest = "ok"
    BY <2>1, FileTypes DEF FileState
  <2>3. WithManifest(staging[run], "damaged").zip = "ok"
        /\ WithManifest(staging[run], "damaged").manifest = "damaged"
    BY <2>1, FileTypes DEF FileState
  <2>4. PICK d : /\ final' = [final EXCEPT ![run] = d]
                 /\ d.zip # "absent" /\ d.manifest # "absent"
    BY <1>2, <2>1, <2>2, <2>3 DEF Rename
  <2>5. QED BY <1>2, <2>4 DEF Rename
<1>3. CASE RollbackRemovesFile BY <1>3 DEF RollbackRemovesFile
<1>4. CASE RollbackRemovesDir BY <1>4 DEF RollbackRemovesDir, NoDir
<1>5. CASE Quiet
  BY <1>5 DEF Quiet, MakeStaging, WriteDecision
<1>6. QED BY <1>1, <1>2, <1>3, <1>4, <1>5, StepKinds

(* Every step is a step of the result store or leaves it alone. *)
LEMMA StepRefines ==
  ASSUME IInv, StoreInv, StoreInv', [Next]_vars
  PROVE  [Store!Next]_(Store!vars)
<1> USE DEF IInv, StoreInv, TypeOK, DriveTypes, HistTypes, CurrentRun
<1>1. CASE StartRun BY <1>1 DEF StartRun, Store!vars, StoredResult
<1>2. CASE Rename
  <2>1. run \in Runs /\ run \notin withdrawn /\ ~final[run].dir
    BY <1>2 DEF Rename
  <2>2. final' = [final EXCEPT ![run] = final'[run]] /\ UNCHANGED <<returned, withdrawn>>
    BY <1>2 DEF Rename
  <2>3. final'[run].dir
    BY <1>2, PairTypes DEF Rename, Verified, FileState
  <2>4. StoredResult[run] = "none" BY <2>1 DEF StoredResult
  <2>5. StoredResult'[run] \in {"pair", "torn"}
    BY <2>1, <2>3 DEF StoredResult
  <2>6. StoredResult' = [StoredResult EXCEPT ![run] = StoredResult'[run]]
    BY <2>1, <2>2 DEF StoredResult, PairOk
  <2>7. Store!Publish(run) BY <2>2, <2>4, <2>5, <2>6 DEF Store!Publish
  <2>8. QED BY <2>1, <2>7 DEF Store!Next
<1>3. CASE RollbackRemovesFile \/ RollbackRemovesDir
  <2>1. run \in Runs /\ run \notin returned /\ UNCHANGED returned
    BY <1>3 DEF RollbackRemovesFile, RollbackRemovesDir
  <2>2. final' = [final EXCEPT ![run] = final'[run]] /\ final[run].dir
    BY <1>3 DEF RollbackRemovesFile, RollbackRemovesDir, EmptyDir, NoDir
  <2>3. withdrawn' \ {run} = withdrawn \ {run}
    BY <1>3 DEF RollbackRemovesFile, RollbackRemovesDir
  <2>4. StoredResult' = [StoredResult EXCEPT ![run] = StoredResult'[run]]
    BY <2>1, <2>2, <2>3 DEF StoredResult, PairOk
  <2>5. StoredResult[run] \in {"pair", "torn"} BY <2>1, <2>2 DEF StoredResult
  <2>6. CASE RollbackRemovesFile
    <3>1. PICK d \in {WithZip(final[run], "absent"),
                      WithManifest(final[run], "absent")} :
            final' = [final EXCEPT ![run] = d]
      BY <2>6 DEF RollbackRemovesFile
    <3>2. d.dir /\ ~PairOk(d)
      <4>1. final[run] \in PairDir /\ final[run].dir BY <2>1, <2>2
      <4>2. d.dir BY <4>1, PairTypes DEF FileState
      <4>3. d.zip = "absent" \/ d.manifest = "absent"
        BY <4>1, FileTypes DEF FileState
      <4>4. QED BY <4>2, <4>3 DEF PairOk
    <3>3. StoredResult'[run] = "torn" BY <2>1, <3>1, <3>2 DEF StoredResult
    <3>4. QED BY <2>1, <2>4, <2>5, <3>3 DEF Store!Next, Store!Withdraw
  <2>7. CASE RollbackRemovesDir
    <3>1. run \in withdrawn /\ ~PairOk(final[run])
      BY <2>1, <2>2, <2>7 DEF RollbackRemovesDir, EmptyDir, NoDir, PairOk
    <3>2. StoredResult[run] = "torn" BY <2>1, <2>2, <3>1 DEF StoredResult
    <3>3. StoredResult'[run] = "gone"
      BY <2>1, <2>7, <3>1 DEF RollbackRemovesDir, NoDir, StoredResult
    <3>4. QED BY <2>1, <2>4, <3>2, <3>3 DEF Store!Next, Store!Withdraw
  <2>8. QED BY <1>3, <2>6, <2>7
<1>4. CASE WriteDecision
  <2>1. run \in Runs /\ PairOk(final[run]) /\ StoredResult' = StoredResult
    BY <1>4 DEF WriteDecision, Verified, StoredResult, PairOk
  <2>2. StoredResult[run] = "pair" BY <2>1 DEF StoredResult, PairOk
  <2>3. QED BY <1>4, <2>1, <2>2 DEF WriteDecision, Store!Next, Store!Acknowledge
<1>5. CASE Quiet /\ ~WriteDecision
  BY <1>5 DEF Quiet, Store!vars, StoredResult, PairOk
<1>6. QED BY <1>1, <1>2, <1>3, <1>4, <1>5, StepKinds

(* What a reader of Drive sees of the runs is what the result store         *)
(* promises, for any number of runs, faults, kills and lost machines: the   *)
(* publication of colab_test_request.py implements ResultStore.             *)
THEOREM SessionImplementsStore == Spec => ImplementsResultStore
<1>1. Init => Store!Init
  BY DEF Init, RunInit, Store!Init, StoredResult, NoDir
<1>2. IInv /\ StoreInv /\ StoreInv' /\ [Next]_vars => [Store!Next]_(Store!vars)
  BY StepRefines
<1>3. QED
  BY InitIInv, NextIInv, InitStoreInv, NextStoreInv, <1>1, <1>2, PTL
  DEF Spec, ImplementsResultStore, Store!Spec

-----------------------------------------------------------------------------
(* What an ended run leaves behind, and what the recovery makes of it, for  *)
(* any number of runs, damaged writes, recovery bundles and lost machines.  *)

(* Output root and bootstrap are those of one run.  A decision PASS belongs *)
(* to a run that was acknowledged.                                          *)
LocalFacts ==
  /\ bootstrap # NoBootstrap => validationDir /\ bootstrap.run < nextRun
  /\ bootstrap # NoBootstrap /\ outputRun # NoRun => bootstrap.run = outputRun
  /\ pc = "write_bootstrap" => outputRun = NoRun /\ bootstrap = NoBootstrap
  /\ pc \in {"write_bootstrap", "make_output", "runner", "stage", "enter_try"} =>
       validationDir
  /\ pc = "rmdir" => bootstrap = NoBootstrap
  /\ pc \in {"runner", "stage", "enter_try", "decide"}
            \union InPublish \union AfterPublish => outputRun = run
  /\ pc \in RunSteps => decision = "none"
  /\ decision = "PASS" => outputRun \in returned \union {NoRun}

(* A staging directory that is there is being worked on, was given up, or   *)
(* was left empty before the try statement.                                 *)
StagingFacts ==
  \A r \in Runs : staging[r].dir =>
    \/ r \in cutShort
    \/ r \in unguarded /\ staging[r] = EmptyDir
    \/ r = run /\ pc = "enter_try"
    \/ r = run /\ pc \in (InPublish \ {"set_promoted", "readback"})
                         \union {"rollback", "cleanup"}

(* A result directory is made by a run whose bootstrap says so before. *)
DriveFacts ==
  /\ \A r \in Runs : ~final[r].dir => final[r] = NoDir
  /\ \A r \in Runs : final[r].dir => r < nextRun
  /\ pc \in BeforePublish => ~final[run].dir
  /\ pc = "rename" => bootstrap.state \in PublishedStates
  /\ bootstrap.state = "INITIALIZED_PENDING_RUNNER" => ~final[bootstrap.run].dir

(* The run of a packed bootstrap is over and did not publish. *)
Unpublished(b) ==
  recovery[b].boot # NoRun =>
    /\ recovery[b].boot \in Runs /\ recovery[b].boot < nextRun
    /\ pc \in RunSteps => recovery[b].boot # run
    /\ ~PairOk(final[recovery[b].boot])

NotMixed(b) ==
  recovery[b].output # NoRun /\ recovery[b].boot # NoRun =>
    recovery[b].output = recovery[b].boot

BundleFacts == \A b \in Bundles : Unpublished(b) /\ NotMixed(b)

EndInv == LocalFacts /\ StagingFacts /\ DriveFacts /\ BundleFacts

USE BoundsAssumption, SessionAssumption DEF Runs, NoBootstrap

(* The facts hold before the first run. *)
LEMMA InitEndInv == Init => EndInv
<1> SUFFICES ASSUME Init PROVE EndInv
  OBVIOUS
<1> USE DEF Init, RunInit, NoDir
<1>1. LocalFacts BY DEF LocalFacts
<1>2. StagingFacts /\ DriveFacts BY DEF StagingFacts, DriveFacts
<1>3. BundleFacts BY DEF BundleFacts, Unpublished, NotMixed, NoBundle
<1>4. QED BY <1>1, <1>2, <1>3 DEF EndInv

(* The types of what the lemmas below look at. *)
LEMMA TypesOfFacts ==
  ASSUME IInv
  PROVE  /\ bootstrap \in [run : Runs, state : BootstrapStates]
                            \union {NoBootstrap}
         /\ outputRun \in Runs \union {NoRun} /\ validationDir \in BOOLEAN
         /\ nextRun \in 1 .. MaxRuns + 1 /\ returned \subseteq Runs
         /\ pc \in RunSteps => run \in Runs /\ run < nextRun
         /\ staging \in [Runs -> PairDir] /\ final \in [Runs -> PairDir]
         /\ recovery \in [Bundles -> Bundle] /\ cutShort \subseteq Runs
         /\ run \in Runs \union {NoRun}
BY DEF IInv, TypeOK, LocalTypes, ProcTypes, DriveTypes, HistTypes, SessionTypes,
       CurrentRun

-----------------------------------------------------------------------------
(* Every step keeps what is known of the local files. *)
LEMMA LocalFactsKept ==
  ASSUME IInv, LocalFacts, Next
  PROVE  LocalFacts'
<1> USE TypesOfFacts DEF LocalFacts, BootstrapStates
<1>1. CASE StartRun BY <1>1 DEF StartRun
<1>2. CASE CreateValidationDir BY <1>2 DEF CreateValidationDir, OldRunFacts
<1>3. CASE WriteBootstrap BY <1>3 DEF WriteBootstrap
<1>4. CASE CreateOutputRoot
  BY <1>4 DEF CreateOutputRoot, IInv, BootstrapBound
<1>5. CASE RunnerWrites \/ RunnerReturns
  BY <1>5 DEF RunnerWrites, RunnerReturns
<1>6. CASE Publish /\ ~MarkPublishing
  BY <1>6 DEF Publish, MakeStaging, EnterTry, CopyZip, CopyManifest, VerifyStaging,
              Rename, SetPromoted, Readback
<1>7. CASE MarkPublishing BY <1>7 DEF MarkPublishing
<1>8. CASE UpdateToPublished BY <1>8 DEF UpdateToPublished
<1>9. CASE UnlinkBootstrap \/ UnlinkFails
  BY <1>9 DEF UnlinkBootstrap, UnlinkFails
<1>10. CASE RemoveValidationDir BY <1>10 DEF RemoveValidationDir
<1>11. CASE WriteDecision BY <1>11 DEF WriteDecision
<1>12. CASE Unwind
  BY <1>12 DEF Unwind, RollbackRemovesFile, RollbackRemovesDir, RollbackEnds,
               RemoveStaging, RemoveStagingFails, WriteFailDecision
<1>13. CASE Faulty
  BY <1>13 DEF Faulty, RefuseOldRunFacts, StagingReadbackFails,
               FinalReadbackFails, Raise, CopyRaises, InterruptedBeforeTry
<1>14. CASE StartRecovery \/ Recover
  BY <1>14 DEF StartRecovery, Recover, RecoveryRefused, CollectRecoverable,
               RecoveryCopyZip, RecoveryCopyManifest, RecoveryRaises
<1>15. CASE Kill BY <1>15 DEF Kill
<1>16. CASE ResetMachine BY <1>16 DEF ResetMachine
<1>17. QED
  BY <1>1, <1>2, <1>3, <1>4, <1>5, <1>6, <1>7, <1>8, <1>9, <1>10, <1>11, <1>12,
     <1>13, <1>14, <1>15, <1>16 DEF Next, RunStep, Close

(* Every step keeps what is known of the staging directories. *)
LEMMA StagingFactsKept ==
  ASSUME IInv, StagingFacts, Next
  PROVE  StagingFacts'
<1> USE TypesOfFacts, PairTypes DEF StagingFacts, NoDir
<1>1. CASE StartRun BY <1>1 DEF StartRun
<1>2. CASE CreateValidationDir \/ WriteBootstrap \/ CreateOutputRoot
           \/ RunnerWrites \/ RunnerReturns
  BY <1>2 DEF CreateValidationDir, WriteBootstrap, CreateOutputRoot,
              RunnerWrites, RunnerReturns
<1>3. CASE Publish
  <2>1. CASE MakeStaging BY <1>3, <2>1 DEF MakeStaging
  <2>9. CASE EnterTry BY <2>9 DEF EnterTry
  <2>2. CASE CopyZip BY <2>2 DEF CopyZip
  <2>3. CASE CopyManifest BY <2>3 DEF CopyManifest
  <2>4. CASE Rename
    <3>1. /\ staging' = [staging EXCEPT ![run] = NoDir]
          /\ run \in Runs /\ UNCHANGED <<run, cutShort>>
      BY <2>4 DEF Rename
    <3>2. QED BY <3>1, <2>4 DEF Rename
  <2>5. CASE VerifyStaging \/ MarkPublishing
    BY <2>5 DEF VerifyStaging, MarkPublishing
  <2>6. CASE SetPromoted BY <2>6 DEF SetPromoted
  <2>7. CASE Readback BY <2>7 DEF Readback
  <2>8. QED BY <1>3, <2>1, <2>2, <2>3, <2>4, <2>5, <2>6, <2>7, <2>9 DEF Publish
<1>4. CASE Close
  BY <1>4 DEF Close, UpdateToPublished, UnlinkBootstrap, UnlinkFails,
              RemoveValidationDir, WriteDecision
<1>5. CASE Unwind
  <2>1. CASE RollbackRemovesFile BY <2>1 DEF RollbackRemovesFile
  <2>2. CASE RollbackRemovesDir BY <2>2 DEF RollbackRemovesDir
  <2>3. CASE RollbackEnds BY <2>3 DEF RollbackEnds
  <2>4. CASE RemoveStaging BY <2>4 DEF RemoveStaging
  <2>5. CASE RemoveStagingFails BY <2>5 DEF RemoveStagingFails
  <2>6. CASE WriteFailDecision BY <2>6 DEF WriteFailDecision
  <2>7. QED BY <1>5, <2>1, <2>2, <2>3, <2>4, <2>5, <2>6 DEF Unwind
<1>6. CASE Faulty
  <2>1. CASE InterruptedBeforeTry
    BY <2>1 DEF InterruptedBeforeTry, IInv, Verified
  <2>2. CASE CopyRaises
    <3>1. run \in Runs /\ UNCHANGED <<run, cutShort, unguarded>>
      BY <2>2 DEF CopyRaises
    <3>2. \A r \in Runs \ {run} : staging'[r] = staging[r]
      BY <2>2, <3>1 DEF CopyRaises
    <3>3. pc # "enter_try" /\ pc' = "rollback" BY <2>2 DEF CopyRaises
    <3>4. QED BY <3>1, <3>2, <3>3
  <2>3. CASE RefuseOldRunFacts \/ StagingReadbackFails \/ FinalReadbackFails
             \/ Raise
    BY <2>3 DEF RefuseOldRunFacts, StagingReadbackFails, FinalReadbackFails,
                Raise
  <2>4. QED BY <1>6, <2>1, <2>2, <2>3 DEF Faulty
<1>7. CASE StartRecovery \/ Recover
  BY <1>7 DEF StartRecovery, Recover, RecoveryRefused, CollectRecoverable,
              RecoveryCopyZip, RecoveryCopyManifest, RecoveryRaises
<1>8. CASE Kill BY <1>8 DEF Kill
<1>9. CASE ResetMachine BY <1>9 DEF ResetMachine
<1>10. QED
  BY <1>1, <1>2, <1>3, <1>4, <1>5, <1>6, <1>7, <1>8, <1>9 DEF Next, RunStep

(* Every step keeps what is known of the result directories. *)
LEMMA DriveFactsKept ==
  ASSUME IInv, DriveFacts, Next
  PROVE  DriveFacts'
<1> USE TypesOfFacts, PairTypes
    DEF DriveFacts, NoDir, BootstrapStates, PublishedStates
<1>1. CASE StartRun BY <1>1 DEF StartRun
<1>2. CASE CreateValidationDir \/ CreateOutputRoot
           \/ RunnerWrites \/ RunnerReturns
  BY <1>2 DEF CreateValidationDir, CreateOutputRoot, RunnerWrites, RunnerReturns
<1>3. CASE WriteBootstrap BY <1>3 DEF WriteBootstrap
<1>4. CASE Publish /\ ~Rename /\ ~MarkPublishing
  BY <1>4 DEF Publish, MakeStaging, EnterTry, CopyZip, CopyManifest, VerifyStaging,
              SetPromoted, Readback
<1>5. CASE MarkPublishing BY <1>5 DEF MarkPublishing
<1>6. CASE Rename
  <2>1. staging[run].dir /\ run \in Runs /\ run < nextRun /\ bootstrap.run = run
    BY <1>6 DEF Rename, IInv, Verified, BootstrapBound
  <2>2. PICK d \in PairDir : d.dir /\ final' = [final EXCEPT ![run] = d]
    BY <1>6, <2>1 DEF Rename, FileState
  <2>3. bootstrap.state \in PublishedStates BY <1>6 DEF Rename
  <2>4. QED BY <1>6, <2>1, <2>2, <2>3 DEF Rename
<1>7. CASE Close
  <2>1. CASE UpdateToPublished BY <2>1 DEF UpdateToPublished
  <2>2. CASE UnlinkBootstrap BY <2>2 DEF UnlinkBootstrap
  <2>3. CASE UnlinkFails \/ RemoveValidationDir \/ WriteDecision
    BY <2>3 DEF UnlinkFails, RemoveValidationDir, WriteDecision
  <2>4. QED BY <1>7, <2>1, <2>2, <2>3 DEF Close
<1>8. CASE RollbackRemovesFile
  <2>1. run \in Runs /\ run < nextRun /\ final[run].dir
        /\ UNCHANGED <<pc, run, nextRun, bootstrap>>
    BY <1>8 DEF RollbackRemovesFile
  <2>2. PICK d \in PairDir : d.dir /\ final' = [final EXCEPT ![run] = d]
    BY <1>8, <2>1 DEF RollbackRemovesFile, FileState
  <2>3. /\ \A r \in Runs : final'[r].dir = final[r].dir
        /\ \A r \in Runs : ~final'[r].dir => final'[r] = final[r]
    BY <2>1, <2>2
  <2>4. pc = "rollback" BY <1>8 DEF RollbackRemovesFile
  <2>5. bootstrap.state = "INITIALIZED_PENDING_RUNNER" =>
          bootstrap.run \in Runs
    OBVIOUS
  <2>6. (\A r \in Runs : ~final[r].dir => final[r] = NoDir)'
        /\ (\A r \in Runs : final[r].dir => r < nextRun)'
    BY <2>1, <2>3
  <2>7. (bootstrap.state = "INITIALIZED_PENDING_RUNNER"
           => ~final[bootstrap.run].dir)'
    BY <2>1, <2>3, <2>5
  <2>8. QED BY <2>1, <2>4, <2>6, <2>7
<1>9. CASE Unwind /\ ~RollbackRemovesFile
  <2>1. CASE RollbackRemovesDir
    <3>1. /\ run \in Runs /\ pc' = "cleanup"
          /\ UNCHANGED <<nextRun, bootstrap>>
          /\ final' = [final EXCEPT ![run] = NoDir]
      BY <2>1 DEF RollbackRemovesDir
    <3>2. \A r \in Runs : final'[r] = NoDir \/ final'[r] = final[r]
      BY <3>1
    <3>3. bootstrap.state = "INITIALIZED_PENDING_RUNNER" =>
            bootstrap.run \in Runs
      OBVIOUS
    <3>4. QED BY <3>1, <3>2, <3>3
  <2>2. CASE RollbackEnds \/ RemoveStaging \/ RemoveStagingFails
             \/ WriteFailDecision
    BY <2>2 DEF RollbackEnds, RemoveStaging, RemoveStagingFails,
                WriteFailDecision
  <2>3. QED BY <1>9, <2>1, <2>2 DEF Unwind
<1>10. CASE Faulty
  BY <1>10 DEF Faulty, RefuseOldRunFacts, StagingReadbackFails,
               FinalReadbackFails, Raise, CopyRaises, InterruptedBeforeTry
<1>11. CASE StartRecovery \/ Recover
  BY <1>11 DEF StartRecovery, Recover, RecoveryRefused, CollectRecoverable,
               RecoveryCopyZip, RecoveryCopyManifest, RecoveryRaises
<1>12. CASE Kill BY <1>12 DEF Kill
<1>13. CASE ResetMachine BY <1>13 DEF ResetMachine
<1>14. QED
  BY <1>1, <1>2, <1>3, <1>4, <1>5, <1>6, <1>7, <1>8, <1>9, <1>10, <1>11, <1>12,
     <1>13 DEF Next, RunStep

-----------------------------------------------------------------------------
(* Copying the files of a bundle does not change what it holds facts of. *)
LEMMA CopiesKeepBundles ==
  ASSUME IInv, BundleFacts,
         RecoveryCopyZip \/ RecoveryCopyManifest \/ RecoveryRaises
  PROVE  BundleFacts'
<1> USE TypesOfFacts DEF BundleFacts
<1>1. UNCHANGED <<final, run, nextRun>> /\ pc' \notin RunSteps
  BY DEF RecoveryCopyZip, RecoveryCopyManifest, RecoveryRaises
<1>2. \/ recovery' = recovery
      \/ /\ bundles \in Bundles
         /\ \E p : recovery' = [recovery EXCEPT ![bundles] = BundleWith(p)]
  <2>1. pc \in {"recover_zip", "recover_manifest"} => bundles \in Bundles
    BY DEF IInv, CurrentRun
  <2>2. CASE RecoveryCopyZip BY <2>1, <2>2 DEF RecoveryCopyZip
  <2>3. CASE RecoveryCopyManifest BY <2>1, <2>3 DEF RecoveryCopyManifest
  <2>4. CASE RecoveryRaises
    <3>1. CASE recovery' = recovery BY <3>1
    <3>2. CASE \E content \in {"absent", "partial"} :
                 /\ pc \in {"recover_zip", "recover_manifest"}
                 /\ \/ recovery' = [recovery EXCEPT
                         ![bundles] = BundleWith(WithZip(@.pair, content))]
                    \/ recovery' = [recovery EXCEPT
                         ![bundles] = BundleWith(WithManifest(@.pair, content))]
      BY <2>1, <3>2
    <3>3. QED BY <2>4, <3>1, <3>2 DEF RecoveryRaises
  <2>5. QED BY <2>2, <2>3, <2>4
<1>3. \A b \in Bundles : recovery'[b].boot = recovery[b].boot
                         /\ recovery'[b].output = recovery[b].output
  <2>1. CASE recovery' = recovery BY <2>1
  <2>2. CASE /\ bundles \in Bundles
             /\ \E p : recovery' = [recovery EXCEPT ![bundles] = BundleWith(p)]
    <3>1. PICK p : recovery' = [recovery EXCEPT ![bundles] = BundleWith(p)]
      BY <2>2
    <3>2. BundleWith(p).boot = recovery[bundles].boot
          /\ BundleWith(p).output = recovery[bundles].output
      BY <2>2 DEF BundleWith, Bundle
    <3>3. QED BY <2>2, <3>1, <3>2
  <2>3. QED BY <1>2, <2>1, <2>2
<1>4. QED BY <1>1, <1>3 DEF Unpublished, NotMixed

(* What a recovery packs is of one run, and that run is not published. *)
LEMMA CollectKeepsBundles ==
  ASSUME IInv, LocalFacts, DriveFacts, BundleFacts, CollectRecoverable
  PROVE  BundleFacts'
<1> USE TypesOfFacts DEF BundleFacts, CollectRecoverable
<1>1. UNCHANGED <<final, run, nextRun>> /\ pc' \notin RunSteps
  OBVIOUS
<1>2. PICK c \in Bundles : c = bundles + 1
  BY DEF IInv, CurrentRun, TypeOK, SessionTypes, Bundles
<1>3. /\ recovery'[c].boot = bootstrap.run
      /\ recovery'[c].output \in {NoRun, outputRun}
  BY <1>2
<1>4. bootstrap # NoBootstrap => ~PairOk(final[bootstrap.run])
  BY DEF RecoveryAccepts, PublishedBootstrapMatchesDrive, ReadbackMatches,
         PairOk, BootstrapStates, DriveFacts
<1>5. Unpublished(c)'
  BY <1>1, <1>3, <1>4 DEF Unpublished, LocalFacts, PairOk
<1>6. NotMixed(c)'
  BY <1>3 DEF NotMixed, LocalFacts
<1>7. \A b \in Bundles \ {c} : recovery'[b] = recovery[b]
  BY <1>2
<1>8. \A b \in Bundles \ {c} : Unpublished(b)' /\ NotMixed(b)'
  BY <1>1, <1>7 DEF Unpublished, NotMixed, PairOk
<1>9. QED BY <1>5, <1>6, <1>8

(* A step that makes no bundle leaves the runs of the bundles unpublished:  *)
(* only the run that publishes makes a result directory.                    *)
LEMMA OthersKeepBundles ==
  ASSUME IInv, BundleFacts, Next, UNCHANGED recovery
  PROVE  BundleFacts'
<1> USE TypesOfFacts DEF BundleFacts
<1>1. CASE StartRun
  BY <1>1 DEF StartRun, Unpublished, NotMixed, PairOk
<1>2. CASE ~StartRun
  <2>1. UNCHANGED <<nextRun, run>> /\ (pc' \in RunSteps => pc \in RunSteps)
    BY <1>2 DEF Next, RunStep, CreateValidationDir, WriteBootstrap,
       CreateOutputRoot, RunnerWrites, RunnerReturns, Publish, MakeStaging,
       EnterTry, CopyZip, CopyManifest, VerifyStaging, MarkPublishing, Rename,
       SetPromoted, Readback, Close, UpdateToPublished, UnlinkBootstrap, UnlinkFails,
       RemoveValidationDir, WriteDecision, Unwind, RollbackRemovesFile,
       RollbackRemovesDir, RollbackEnds, RemoveStaging, RemoveStagingFails,
       WriteFailDecision, Faulty, RefuseOldRunFacts, StagingReadbackFails,
       FinalReadbackFails, Raise, CopyRaises, InterruptedBeforeTry, StartRecovery,
       Recover, RecoveryRefused, CollectRecoverable, RecoveryCopyZip,
       RecoveryCopyManifest, RecoveryRaises, Kill, ResetMachine
  <2>2. \/ UNCHANGED final
        \/ /\ pc \in RunSteps
           /\ \A r \in Runs \ {run} : final'[r] = final[r]
    BY <1>2 DEF Next, RunStep, CreateValidationDir, WriteBootstrap,
       CreateOutputRoot, RunnerWrites, RunnerReturns, Publish, MakeStaging,
       EnterTry, CopyZip, CopyManifest, VerifyStaging, MarkPublishing, Rename,
       SetPromoted, Readback, Close, UpdateToPublished, UnlinkBootstrap, UnlinkFails,
       RemoveValidationDir, WriteDecision, Unwind, RollbackRemovesFile,
       RollbackRemovesDir, RollbackEnds, RemoveStaging, RemoveStagingFails,
       WriteFailDecision, Faulty, RefuseOldRunFacts, StagingReadbackFails,
       FinalReadbackFails, Raise, CopyRaises, InterruptedBeforeTry, StartRecovery,
       Recover, RecoveryRefused, CollectRecoverable, RecoveryCopyZip,
       RecoveryCopyManifest, RecoveryRaises, Kill, ResetMachine
  <2>3. QED BY <2>1, <2>2 DEF Unpublished, NotMixed, PairOk
<1>3. QED BY <1>1, <1>2

(* Every step keeps the facts about what ended runs leave behind. *)
LEMMA NextEndInv == IInv /\ EndInv /\ [Next]_vars => EndInv'
<1> SUFFICES ASSUME IInv, EndInv, [Next]_vars PROVE EndInv'
  OBVIOUS
<1>1. CASE UNCHANGED vars
  BY <1>1 DEF EndInv, LocalFacts, StagingFacts, DriveFacts, BundleFacts,
         Unpublished, NotMixed, PairOk
<1>2. CASE Next
  <2>1. LocalFacts' BY <1>2, LocalFactsKept DEF EndInv
  <2>2. StagingFacts' BY <1>2, StagingFactsKept DEF EndInv
  <2>3. DriveFacts' BY <1>2, DriveFactsKept DEF EndInv
  <2>4. UNCHANGED recovery \/ CollectRecoverable
        \/ RecoveryCopyZip \/ RecoveryCopyManifest \/ RecoveryRaises
    BY <1>2 DEF Next, StartRecovery, Recover, RecoveryRefused, Kill,
                ResetMachine
  <2>5. BundleFacts'
    BY <1>2, <2>4, CopiesKeepBundles, CollectKeepsBundles, OthersKeepBundles
    DEF EndInv
  <2>6. QED BY <2>1, <2>2, <2>3, <2>5 DEF EndInv
<1>3. QED BY <1>1, <1>2

(* The facts the theorems below rest on hold throughout. *)
THEOREM EndedRunsInvariant == Spec => [](IInv /\ EndInv)
BY InitIInv, NextIInv, InitEndInv, NextEndInv, PTL DEF Spec

-----------------------------------------------------------------------------
(* A staging directory is left behind only by a run that was killed, whose  *)
(* cleanup failed, or that was interrupted between mkdtemp and the try      *)
(* statement, which leaves an empty one (finally in                         *)
(* _publish_result_pair_transactionally).                                   *)
THEOREM StagingLeaksStayKnown == Spec => []StagingLeaksAreKnown
<1>1. IInv /\ EndInv => StagingLeaksAreKnown
  BY DEF EndInv, StagingFacts, StagingLeaksAreKnown
<1>2. QED BY <1>1, EndedRunsInvariant, PTL

(* What a run has written is in its published result or can be recovered,   *)
(* unless its decision file is torn: however the run ended and whatever ran *)
(* before it (package_colab_test_recovery_bundle).                          *)
THEOREM NoRunIsStranded == Spec => []NothingStranded
<1>1. IInv /\ EndInv => NothingStranded
  <2> SUFFICES ASSUME IInv, EndInv, outputFiles, decision # "torn",
                      ~PairOk(final[outputRun])
               PROVE  RecoveryAccepts
    BY DEF NothingStranded
  <2>1. outputRun \in Runs
    BY DEF IInv, TypeOK, LocalTypes
  <2>2. decision \in {"none", "FAIL"}
    BY <2>1 DEF IInv, TypeOK, LocalTypes, EndInv, LocalFacts, ReturnedIsDurable
  <2>3. ~PublishedBootstrapMatchesDrive
    BY <2>1, TypesOfFacts DEF EndInv, LocalFacts, DriveFacts, NoDir, PairOk,
       PublishedBootstrapMatchesDrive, PublishedStates, ReadbackMatches
  <2>4. QED BY <2>1, <2>2, <2>3 DEF RecoveryAccepts, DecisionAccepted, Recoverable
<1>2. QED BY <1>1, EndedRunsInvariant, PTL

(* The recovery never packs the bootstrap of a run that is published, then  *)
(* or later (_published_bootstrap_matches_drive).                           *)
THEOREM PackedBootstrapsAreUnpublished ==
  Spec => []RecoveredBootstrapUnpublished
<1>1. IInv /\ EndInv => RecoveredBootstrapUnpublished
  BY DEF EndInv, BundleFacts, Unpublished, RecoveredBootstrapUnpublished
<1>2. QED BY <1>1, EndedRunsInvariant, PTL

(* A bundle never holds the records of one run and the bootstrap of another *)
(* (the create-only checks of _prepare_runtime_initialization_bootstrap).   *)
THEOREM BundlesAreOfOneRun == Spec => []NoCrossRunMix
<1>1. IInv /\ EndInv => NoCrossRunMix
  BY DEF EndInv, BundleFacts, NotMixed, NoCrossRunMix
<1>2. QED BY <1>1, EndedRunsInvariant, PTL

(* What a recovery may do, as one statement: whatever a run has written can *)
(* be recovered or is published, and a bundle is of one unpublished run     *)
(* (package_colab_test_recovery_bundle).                                    *)
THEOREM RecoveriesAreSound == Spec => []RecoveryIsSound
<1>1. NothingStranded /\ RecoveredBootstrapUnpublished /\ NoCrossRunMix
        => RecoveryIsSound
  BY DEF RecoveryIsSound
<1>2. QED
  BY <1>1, NoRunIsStranded, PackedBootstrapsAreUnpublished, BundlesAreOfOneRun, PTL
=============================================================================
