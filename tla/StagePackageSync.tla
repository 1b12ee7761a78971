--------------------------- MODULE StagePackageSync ---------------------------
(*****************************************************************************)
(* The stage ZIP hand-off between notebooks (workflows/stage_package_sync).  *)
(*                                                                           *)
(* Each notebook session runs one stage of the paper pipeline on a machine   *)
(* of its own.  It first restores the packages the stage requires from       *)
(* Drive, runs the stage on local files, and publishes the stage's package   *)
(* as a time-stamped ZIP followed by a manifest.  Several sessions run at    *)
(* once and share nothing but the Drive directories; any of them can be      *)
(* cut off at any point.                                                     *)
(*                                                                           *)
(* Packages are named by the UTC second at which their publication began.    *)
(* paper_workflow/colab_notebooks/README.md:470 forbids two instances of     *)
(* one stage at a time, so the names of a stage never collide and grow; a    *)
(* name is modelled as the next number of one global clock.                  *)
(*****************************************************************************)
EXTENDS Naturals, Sequences, FiniteSetsExt, TLC

CONSTANTS
  Sessions,        \* notebook sessions
  Stages,          \* stage packages
  Requires,        \* the packages a stage restores, in that order
  Gated,           \* stages that publish a ZIP only after a PASS decision
  Baselines,       \* external baselines: also checked when restored
  KeepSnapshots,   \* SSTW_STAGE_PACKAGE_KEEP_TIMESTAMP_SNAPSHOT
  PruneSnapshots,  \* SSTW_STAGE_PACKAGE_PRUNE_TIMESTAMP_SNAPSHOTS
  LegacyRestore,   \* SSTW_ALLOW_LEGACY_EXTERNAL_BASELINE_STAGE_PACKAGE_RESTORE
  MaxPackages,     \* bound on the publications that are begun
  MaxKills         \* bound on the sessions that are cut off

NoStage == "none"

ASSUME StagesAssumption ==
  /\ Requires \in [Stages -> Seq(Stages)]
  /\ NoStage \notin Stages
  /\ Gated \subseteq Stages /\ Baselines \subseteq Gated

ASSUME FlagsAssumption ==
  {KeepSnapshots, PruneSnapshots, LegacyRestore} \subseteq BOOLEAN

ASSUME PackageBoundsAssumption == MaxPackages \in Nat /\ MaxKills \in Nat

VARIABLES
  phase,     \* what each session is doing
  stage,     \* the stage it runs
  restored,  \* how many of the required packages it has restored
  chosen,    \* the package it is about to copy and extract
  inputs,    \* the packages its local files come from
  verdict,   \* the decision its stage wrote
  name,      \* the name of the package it publishes
  pkg,       \* Drive: the ZIP and the manifest of every name
  clock,     \* names handed out so far
  kills,     \* sessions cut off so far
  finished,  \* stages of which a package was ever published completely
  cutShort   \* stages that lost a publisher after its gate had passed

vars == <<phase, stage, restored, chosen, inputs, verdict, name,
          pkg, clock, kills, finished, cutShort>>

Names == 1 .. MaxPackages
NoName == 0

Package == [stage : Stages \union {NoStage},
            zip : {"absent", "partial", "complete"},
            manifest : {"absent", "partial", "blocked", "published"},
            verdict : {"PASS", "FAIL"}]
NoPackage == [stage |-> NoStage, zip |-> "absent", manifest |-> "absent",
              verdict |-> "FAIL"]

PackagesOf(s) == {v \in Names : pkg[v].stage = s}
CompleteOf(s) == {v \in PackagesOf(s) : pkg[v].zip = "complete"}

AtRest == {"idle", "missing", "bad_zip"}
Publishing == {"prune", "copy", "copying", "manifest"}

Init ==
  /\ phase = [n \in Sessions |-> "idle"]
  /\ stage = [n \in Sessions |-> NoStage]
  /\ restored = [n \in Sessions |-> 0]
  /\ chosen = [n \in Sessions |-> NoName]
  /\ inputs = [n \in Sessions |-> [s \in Stages |-> NoName]]
  /\ verdict = [n \in Sessions |-> "FAIL"]
  /\ name = [n \in Sessions |-> NoName]
  /\ pkg = [v \in Names |-> NoPackage]
  /\ clock = 0 /\ kills = 0 /\ finished = {} /\ cutShort = {}

Goto(n, from, to) == phase[n] = from /\ phase' = [phase EXCEPT ![n] = to]

-----------------------------------------------------------------------------
(* Restoring the required packages.  The stages before it have finished     *)
(* (colab_notebooks/README.md:468), or the session stops at a missing one.  *)
StageMayStart(n, s) ==
  /\ phase[n] \in AtRest /\ phase' = [phase EXCEPT ![n] = "restore"]
  /\ \A m \in Sessions : phase[m] \notin AtRest => stage[m] # s
  /\ stage' = [stage EXCEPT ![n] = s]

(* Mutation: the list of what has been restored is carried over. *)
StartStageAgain(n, s) ==
  /\ StageMayStart(n, s)
  /\ UNCHANGED <<restored, inputs, chosen, verdict, name>>
  /\ UNCHANGED <<pkg, clock, kills, finished, cutShort>>

StartStage(n, s) ==
  /\ StageMayStart(n, s)
  /\ restored' = [restored EXCEPT ![n] = 0]
  /\ inputs' = [inputs EXCEPT ![n] = [i \in Stages |-> NoName]]
  /\ UNCHANGED <<chosen, verdict, name, pkg, clock, kills, finished, cutShort>>

Required(n) == Requires[stage[n]]
AllRestored(n) == restored[n] = Len(Required(n))
NextInput(n) == Required(n)[restored[n] + 1]

(* Mutation: a baseline ZIP without a manifest is believed. *)
AllowedUnlessRefuted(v) ==
  pkg[v].stage \in Baselines /\ pkg[v].manifest # "absent" =>
    pkg[v].manifest = "published" /\ pkg[v].verdict = "PASS"

(* Any ZIP will do, except that a baseline's needs the manifest beside it   *)
(* to be readable JSON that says published and PASS.                        *)
AllowedForRestore(v) ==
  pkg[v].stage \in Baselines =>
    \/ pkg[v].manifest = "absent" /\ LegacyRestore
    \/ pkg[v].manifest = "published" /\ pkg[v].verdict = "PASS"

Candidates(s) ==
  {v \in PackagesOf(s) : pkg[v].zip # "absent" /\ AllowedForRestore(v)}

(* The names in descending order; whether the ZIP is complete is not known. *)
SelectLatest(n) ==
  /\ Goto(n, "restore", "extract")
  /\ ~AllRestored(n) /\ Candidates(NextInput(n)) # {}
  /\ chosen' = [chosen EXCEPT ![n] = Max(Candidates(NextInput(n)))]
  /\ UNCHANGED <<stage, restored, inputs, verdict, name>>
  /\ UNCHANGED <<pkg, clock, kills, finished, cutShort>>

RequiredPackageMissing(n) ==
  /\ Goto(n, "restore", "missing")
  /\ ~AllRestored(n) /\ Candidates(NextInput(n)) = {}
  /\ UNCHANGED <<stage, restored, chosen, inputs, verdict, name>>
  /\ UNCHANGED <<pkg, clock, kills, finished, cutShort>>

(* The ZIP is copied to the local cache and unpacked into the workspace. *)
ExtractPackage(n) ==
  /\ Goto(n, "extract", "restore")
  /\ pkg[chosen[n]].zip = "complete"
  /\ inputs' = [inputs EXCEPT ![n][NextInput(n)] = chosen[n]]
  /\ restored' = [restored EXCEPT ![n] = @ + 1]
  /\ chosen' = [chosen EXCEPT ![n] = NoName]
  /\ UNCHANGED <<stage, verdict, name, pkg, clock, kills, finished, cutShort>>

(* A prefix of a ZIP has no central directory; a pruned one is gone. *)
ExtractRaises(n) ==
  /\ \/ Goto(n, "extract", "bad_zip") /\ pkg[chosen[n]].zip = "partial"
     \/ Goto(n, "extract", "missing") /\ pkg[chosen[n]].zip = "absent"
  /\ chosen' = [chosen EXCEPT ![n] = NoName]
  /\ UNCHANGED <<stage, restored, inputs, verdict, name>>
  /\ UNCHANGED <<pkg, clock, kills, finished, cutShort>>

(* The stage itself; only a gated one may end with a decision not to pass. *)
RunStage(n) ==
  /\ Goto(n, "restore", "publish")
  /\ AllRestored(n)
  /\ \E d \in {"PASS", "FAIL"} :
       /\ stage[n] \in Gated \/ d = "PASS"
       /\ verdict' = [verdict EXCEPT ![n] = d]
  /\ UNCHANGED <<stage, restored, chosen, inputs, name>>
  /\ UNCHANGED <<pkg, clock, kills, finished, cutShort>>

-----------------------------------------------------------------------------
(* Publishing the stage's own package. *)

(* Mutation: the gate package of a profile is published whatever it says. *)
BaselineNotPassed(n) == stage[n] \in Baselines /\ verdict[n] # "PASS"

PublishBlocked(n) == stage[n] \in Gated /\ verdict[n] # "PASS"

(* Mutation: the opposite switch is not looked at. *)
PruningWhenAsked == PruneSnapshots

Pruning == PruneSnapshots /\ ~KeepSnapshots

NamePackage(n) ==
  /\ Goto(n, "publish",
          IF PublishBlocked(n) THEN "manifest_only"
          ELSE IF Pruning THEN "prune" ELSE "copy")
  /\ clock < MaxPackages /\ clock' = clock + 1
  /\ name' = [name EXCEPT ![n] = clock + 1]
  /\ pkg' = [pkg EXCEPT ![clock + 1] =
               [stage |-> stage[n], zip |-> "absent", manifest |-> "absent",
                verdict |-> verdict[n]]]
  /\ UNCHANGED <<stage, restored, chosen, inputs, verdict>>
  /\ UNCHANGED <<kills, finished, cutShort>>

(* Mutation: earlier snapshots are removed before the decision is read. *)
PruneThenWriteManifestOnly(n) ==
  /\ Goto(n, "manifest_only", "idle")
  /\ pkg' = [v \in Names |->
       IF pkg[v].stage # stage[n] THEN pkg[v]
       ELSE [pkg[v] EXCEPT !.zip = IF Pruning THEN "absent" ELSE @,
                           !.manifest = IF v = name[n] THEN "blocked" ELSE @]]
  /\ UNCHANGED <<stage, restored, chosen, inputs, verdict, name>>
  /\ UNCHANGED <<clock, kills, finished, cutShort>>

(* A stage that did not pass leaves a manifest and no ZIP. *)
WriteManifestOnly(n) ==
  /\ Goto(n, "manifest_only", "idle")
  /\ pkg' = [pkg EXCEPT ![name[n]].manifest = "blocked"]
  /\ UNCHANGED <<stage, restored, chosen, inputs, verdict, name>>
  /\ UNCHANGED <<clock, kills, finished, cutShort>>

ZipsOf(s) == {v \in PackagesOf(s) : pkg[v].zip # "absent"}
ManifestsOf(s) == {v \in PackagesOf(s) : pkg[v].manifest # "absent"}

(* The ZIPs go first, then the manifests, each in the order of the names. *)
PruneFile(n) ==
  /\ phase[n] = "prune"
  /\ \/ /\ ZipsOf(stage[n]) # {}
        /\ pkg' = [pkg EXCEPT ![Min(ZipsOf(stage[n]))].zip = "absent"]
     \/ /\ ZipsOf(stage[n]) = {} /\ ManifestsOf(stage[n]) # {}
        /\ pkg' = [pkg EXCEPT
                     ![Min(ManifestsOf(stage[n]))].manifest = "absent"]
  /\ UNCHANGED <<phase, stage, restored, chosen, inputs, verdict, name>>
  /\ UNCHANGED <<clock, kills, finished, cutShort>>

PruneEnds(n) ==
  /\ Goto(n, "prune", "copy")
  /\ ZipsOf(stage[n]) = {} /\ ManifestsOf(stage[n]) = {}
  /\ UNCHANGED <<stage, restored, chosen, inputs, verdict, name>>
  /\ UNCHANGED <<pkg, clock, kills, finished, cutShort>>

(* The copy writes under the final name: readers see it while it grows. *)
BeginCopyZip(n) ==
  /\ Goto(n, "copy", "copying")
  /\ pkg' = [pkg EXCEPT ![name[n]].zip = "partial"]
  /\ UNCHANGED <<stage, restored, chosen, inputs, verdict, name>>
  /\ UNCHANGED <<clock, kills, finished, cutShort>>

EndCopyZip(n) ==
  /\ Goto(n, "copying", "manifest")
  /\ pkg' = [pkg EXCEPT ![name[n]].zip = "complete"]
  /\ UNCHANGED <<stage, restored, chosen, inputs, verdict, name>>
  /\ UNCHANGED <<clock, kills, finished, cutShort>>

CopyManifest(n) ==
  /\ Goto(n, "manifest", "idle")
  /\ pkg' = [pkg EXCEPT ![name[n]].manifest = "published"]
  /\ finished' = finished \union {stage[n]}
  /\ UNCHANGED <<stage, restored, chosen, inputs, verdict, name>>
  /\ UNCHANGED <<clock, kills, cutShort>>

(* The session is cut off, by Colab, by the user or by an exception.  What  *)
(* it was copying stays on Drive as far as it got.                          *)
Kill(n) ==
  /\ kills < MaxKills /\ kills' = kills + 1
  /\ phase[n] \notin AtRest /\ phase' = [phase EXCEPT ![n] = "idle"]
  /\ cutShort' = IF phase[n] \in Publishing THEN cutShort \union {stage[n]}
                 ELSE cutShort
  /\ \/ UNCHANGED pkg
     \/ /\ phase[n] \in {"manifest", "manifest_only"}
        /\ pkg' = [pkg EXCEPT ![name[n]].manifest = "partial"]
  /\ UNCHANGED <<stage, restored, chosen, inputs, verdict, name>>
  /\ UNCHANGED <<clock, finished>>

-----------------------------------------------------------------------------
Restore(n) == \/ \E s \in Stages : StartStage(n, s)
              \/ SelectLatest(n) \/ RequiredPackageMissing(n)
              \/ ExtractPackage(n) \/ ExtractRaises(n) \/ RunStage(n)

Publish(n) == \/ NamePackage(n) \/ WriteManifestOnly(n)
              \/ PruneFile(n) \/ PruneEnds(n)
              \/ BeginCopyZip(n) \/ EndCopyZip(n) \/ CopyManifest(n)

Next == \E n \in Sessions : Restore(n) \/ Publish(n) \/ Kill(n)

Spec == Init /\ [][Next]_vars
-----------------------------------------------------------------------------
(* Type invariant; a name is on Drive only after it was handed out, and no  *)
(* more packages are restored than the stage requires.                      *)
SessionTypes ==
  /\ phase \in [Sessions -> AtRest \union Publishing \union
                 {"restore", "extract", "publish", "manifest_only"}]
  /\ stage \in [Sessions -> Stages \union {NoStage}]
  /\ chosen \in [Sessions -> Names \union {NoName}]
  /\ inputs \in [Sessions -> [Stages -> Names \union {NoName}]]
  /\ verdict \in [Sessions -> {"PASS", "FAIL"}]
  /\ name \in [Sessions -> Names \union {NoName}]

CountTypes ==
  /\ restored \in [Sessions -> Nat]
  /\ \A n \in Sessions : IF stage[n] = NoStage THEN phase[n] = "idle"
                         ELSE restored[n] <= Len(Required(n))

DriveTypes ==
  /\ pkg \in [Names -> Package]
  /\ \A v \in Names : v > clock => pkg[v] = NoPackage
  /\ clock \in 0 .. MaxPackages /\ kills \in 0 .. MaxKills
  /\ finished \subseteq Stages /\ cutShort \subseteq Stages

TypeOK == SessionTypes /\ CountTypes /\ DriveTypes

Passed(v) == pkg[v].stage \in Gated => pkg[v].verdict = "PASS"

(* A stage runs only on packages of stages that passed their own gate, all  *)
(* the required ones, whatever failed, was republished or was cut off       *)
(* between (hydrate_stage_packages_for_notebook with the publish blockers). *)
InputsPassed ==
  \A n \in Sessions : phase[n] \in Publishing \union {"publish"} =>
    \A i \in DOMAIN Required(n) :
      /\ inputs[n][Required(n)[i]] \in PackagesOf(Required(n)[i])
      /\ Passed(inputs[n][Required(n)[i]])

(* The manifest is copied after the ZIP, so a baseline package that the     *)
(* restore accepts is never one whose copy was cut off or is in progress.   *)
(* Its ZIP may have been pruned since.                                      *)
BaselineCandidatesComplete ==
  \A s \in Baselines : Candidates(s) \subseteq CompleteOf(s)

(* Time stamps are retained by default: no session, not even one that       *)
(* prunes and keeps at once, removes a complete package of any stage.       *)
CompletePackagesRetained ==
  [][\A s \in Stages : CompleteOf(s) \subseteq CompleteOf(s)']_vars

(* Where snapshots are pruned, a stage that has been published can be       *)
(* restored again as soon as nobody is publishing it, unless a publisher    *)
(* was cut off after it had begun: a stage that fails its gate does not     *)
(* take the package of an earlier pass away.                                *)
PruningLeavesOne ==
  \A s \in finished :
    \/ CompleteOf(s) # {}
    \/ s \in cutShort
    \/ \E n \in Sessions : stage[n] = s /\ phase[n] \in Publishing

(* What paper_workflow/colab_notebooks/README.md:128 says: a later notebook *)
(* picks the latest complete ZIP.  While nobody is publishing the stage and *)
(* a complete package of it exists, the one that is picked is complete.     *)
PicksLatestComplete ==
  \A n \in Sessions :
    phase[n] = "extract" /\ CompleteOf(NextInput(n)) # {}
      /\ (\A m \in Sessions :
            stage[m] = NextInput(n) => phase[m] \notin Publishing)
    => chosen[n] \in CompleteOf(NextInput(n))

-----------------------------------------------------------------------------
(* A slice of the pipeline that the table in                                 *)
(* paper_workflow/colab_notebooks/README.md:442-456 lists, for TLC:          *)
(* generation, one external baseline, a gate that needs both, and the next   *)
(* profile, which needs the gate's package.                                  *)
PipelineStages == {"generation", "baseline", "gate", "next_profile"}
PipelineRequires ==
  [s \in PipelineStages |->
     CASE s = "generation" -> <<>>
       [] s = "baseline" -> <<"generation">>
       [] s = "gate" -> <<"generation", "baseline">>
       [] s = "next_profile" -> <<"gate">>]
PipelineGated == {"baseline", "gate"}
PipelineBaselines == {"baseline"}

(* The sessions differ in nothing but their names. *)
SessionSymmetry == Permutations(Sessions)
=============================================================================
