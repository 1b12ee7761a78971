-------------------------- MODULE StagePackageProofs --------------------------
(***************************************************************************)
(* Safety of the stage hand-off for any pipeline, any number of sessions,  *)
(* packages and sessions that are cut off.                                 *)
(***************************************************************************)
EXTENDS StagePackageSync, Integers, WellFoundedInduction, TLAPS

Named == Publishing \union {"manifest_only"}

(* A name belongs to one session, which alone writes under it. *)
OwnName ==
  /\ \A n \in Sessions : phase[n] \in Named => name[n] \in 1 .. clock
  /\ \A m, n \in Sessions :
       phase[m] \in Named /\ phase[n] \in Named /\ name[m] = name[n] => m = n

(* What is on Drive under that name, by the step of the publisher. *)
OwnFiles ==
  \A n \in Sessions : phase[n] \in Named =>
    /\ pkg[name[n]].manifest = "absent"
    /\ phase[n] \in {"manifest_only", "prune", "copy"} =>
         pkg[name[n]].zip = "absent"
    /\ phase[n] = "manifest" => pkg[name[n]].zip # "partial"
    /\ phase[n] # "manifest_only" => Passed(name[n])

(* A growing ZIP has no manifest, and a gated stage has no ZIP but of a pass. *)
DriveOrder ==
  \A v \in Names :
    /\ pkg[v].zip = "partial" => pkg[v].manifest = "absent"
    /\ pkg[v].zip # "absent" => Passed(v)

(* Local files come from packages of the right stage that had passed. *)
InputsKnown ==
  \A n \in Sessions : \A s \in Stages :
    inputs[n][s] # NoName =>
      pkg[inputs[n][s]].stage = s /\ Passed(inputs[n][s])

(* A session that is not idle runs a stage; its inputs are those it has     *)
(* counted, and all of them once it has run.                                *)
Progress ==
  \A n \in Sessions :
    /\ phase[n] # "idle" => stage[n] \in Stages
    /\ stage[n] \in Stages =>
         \A i \in 1 .. restored[n] : inputs[n][Required(n)[i]] # NoName
    /\ phase[n] \in Named \union {"publish"} => restored[n] = Len(Required(n))

(* The package about to be extracted is one of the stage asked for. *)
ChosenFits ==
  \A n \in Sessions : phase[n] = "extract" =>
    /\ restored[n] < Len(Required(n))
    /\ chosen[n] \in PackagesOf(NextInput(n))

IInv == /\ TypeOK /\ OwnName /\ OwnFiles /\ DriveOrder
        /\ InputsKnown /\ Progress /\ ChosenFits

USE DEF Named, AtRest, Publishing, NoName, Names, Goto

(* A set of natural numbers has a least element. *)
LEMMA LeastNatural ==
  ASSUME NEW T \in SUBSET Nat, T # {}
  PROVE  \E x \in T : \A y \in T : x <= y
<1> DEFINE R == OpToRel(<, Nat)
<1>1. IsWellFoundedOn(R, Nat)
  BY NatLessThanWellFounded
<1>2. PICK x \in T : \A y \in T : ~ (<<y, x>> \in R)
  <2> HIDE DEF R
  <2> QED BY <1>1, WFMin
<1>3. ASSUME NEW y \in T PROVE x <= y
  <2>1. ~ (y < x)
    BY <1>2 DEF OpToRel
  <2>2. QED BY <2>1
<1>4. QED BY <1>3

(* The greatest of some package names is one of them. *)
LEMMA MaxOfNames ==
  ASSUME NEW S \in SUBSET Names, S # {}
  PROVE  Max(S) \in S
<1> DEFINE Below == {MaxPackages - v : v \in S}
<1>1. Below \in SUBSET Nat
  BY PackageBoundsAssumption
<1>2. Below # {}
  BY Zenon
<1>3. PICK d \in Below : \A e \in Below : d <= e
  <2> HIDE DEF Below
  <2> QED BY <1>1, <1>2, LeastNatural
<1>4. PICK v \in S : d = MaxPackages - v
  OBVIOUS
<1>5. \A w \in S : MaxPackages - v <= MaxPackages - w
  BY <1>3, <1>4, Zenon
<1>6. \A w \in S : v >= w
  BY <1>5, PackageBoundsAssumption
<1>7. QED BY <1>6, Zenon DEF Max

(* The least of some package names is one of them. *)
LEMMA MinOfNames ==
  ASSUME NEW S \in SUBSET Names, S # {}
  PROVE  Min(S) \in S
<1>1. S \in SUBSET Nat
  BY PackageBoundsAssumption
<1>2. PICK v \in S : \A w \in S : v =< w
  BY <1>1, LeastNatural
<1>3. QED BY <1>2, Zenon DEF Min

(* The packages a stage requires are stages. *)
LEMMA RequiresTypes ==
  \A s \in Stages :
    /\ Len(Requires[s]) \in Nat
    /\ \A i \in 1 .. Len(Requires[s]) : Requires[s][i] \in Stages
<1> TAKE s \in Stages
<1>1. Requires[s] \in Seq(Stages)
  BY StagesAssumption
<1>2. QED BY <1>1

(* Replacing the ZIP or the manifest of a package keeps its type. *)
LEMMA PackageUpdates ==
  \A p \in Package :
    /\ \A z \in {"absent", "partial", "complete"} :
         [p EXCEPT !.zip = z] \in Package
    /\ \A c \in {"absent", "partial", "blocked", "published"} :
         [p EXCEPT !.manifest = c] \in Package
BY DEF Package

(* The invariant holds before the first session. *)
LEMMA InitIInv == Init => IInv
<1> SUFFICES ASSUME Init PROVE IInv
  OBVIOUS
<1> USE StagesAssumption, PackageBoundsAssumption DEF Init, NoPackage
<1>1. SessionTypes BY DEF SessionTypes
<1>2. CountTypes BY DEF CountTypes
<1>3. DriveTypes BY DEF DriveTypes, Package
<1>4. OwnName BY DEF OwnName
<1>5. OwnFiles BY DEF OwnFiles
<1>6. DriveOrder BY DEF DriveOrder
<1>7. InputsKnown BY DEF InputsKnown
<1>8. Progress BY DEF Progress
<1>9. ChosenFits BY DEF ChosenFits
<1>10. QED
  BY <1>1, <1>2, <1>3, <1>4, <1>5, <1>6, <1>7, <1>8, <1>9 DEF IInv, TypeOK

(* The action StartStage keeps the invariant. *)
LEMMA StartStageKeeps ==
  ASSUME IInv, NEW n \in Sessions, NEW s \in Stages, StartStage(n, s)
  PROVE  IInv'
<1> USE StagesAssumption, PackageBoundsAssumption, RequiresTypes
<1> USE DEF IInv, TypeOK, StartStage, StageMayStart
<1>1. SessionTypes'
  BY DEF SessionTypes, DriveTypes
<1>2. CountTypes'
  BY DEF CountTypes, SessionTypes, Progress, ChosenFits, Required
<1>3. DriveTypes'
  BY DEF DriveTypes, SessionTypes, Package, NoPackage, Progress
<1>4. OwnName'
  BY DEF OwnName, SessionTypes, DriveTypes
<1>5. OwnFiles'
  BY DEF OwnFiles, OwnName, SessionTypes, DriveTypes, Package, NoPackage, Passed
<1>6. DriveOrder'
  BY DEF DriveOrder, OwnFiles, OwnName, SessionTypes, DriveTypes, Package,
     NoPackage, Passed
<1>7. InputsKnown'
  BY DEF InputsKnown, DriveOrder, ChosenFits, Progress, SessionTypes,
     DriveTypes, CountTypes, Package, NoPackage, Passed, PackagesOf,
     Required, NextInput
<1>8. Progress'
  BY DEF Progress, ChosenFits, SessionTypes, CountTypes, DriveTypes,
     Required, NextInput, PackagesOf, AllRestored
<1>9. ChosenFits'
  BY DEF ChosenFits, Progress, SessionTypes, CountTypes, DriveTypes,
     Required, NextInput, PackagesOf, AllRestored, NoPackage
<1>10. QED
  BY <1>1, <1>2, <1>3, <1>4, <1>5, <1>6, <1>7, <1>8, <1>9

(* The action SelectLatest keeps the invariant. *)
LEMMA SelectLatestKeeps ==
  ASSUME IInv, NEW n \in Sessions, SelectLatest(n)
  PROVE  IInv'
<1> USE StagesAssumption, PackageBoundsAssumption, RequiresTypes
<1> USE DEF IInv, TypeOK, SelectLatest
<1> DEFINE C == Candidates(NextInput(n))
<1>0. Max(C) \in C
  <2>1. C \in SUBSET Names /\ C # {}
    BY DEF Candidates, PackagesOf
  <2> HIDE DEF C
  <2>2. QED BY <2>1, MaxOfNames
<1>00. /\ chosen' = [chosen EXCEPT ![n] = Max(C)]
       /\ Max(C) \in PackagesOf(NextInput(n))
  BY <1>0 DEF Candidates
<1> HIDE DEF C
<1>1. SessionTypes'
  BY <1>00 DEF SessionTypes, DriveTypes, PackagesOf
<1>2. CountTypes'
  BY DEF CountTypes, SessionTypes, Progress, ChosenFits, Required
<1>3. DriveTypes'
  BY DEF DriveTypes, SessionTypes, Package, NoPackage, Progress
<1>4. OwnName'
  BY DEF OwnName, SessionTypes, DriveTypes
<1>5. OwnFiles'
  BY DEF OwnFiles, OwnName, SessionTypes, DriveTypes, Package, NoPackage, Passed
<1>6. DriveOrder'
  BY DEF DriveOrder, OwnFiles, OwnName, SessionTypes, DriveTypes, Package,
     NoPackage, Passed
<1>7. InputsKnown'
  BY DEF InputsKnown, DriveOrder, ChosenFits, Progress, SessionTypes,
     DriveTypes, CountTypes, Package, NoPackage, Passed, PackagesOf,
     Required, NextInput
<1>8. Progress'
  BY DEF Progress, ChosenFits, SessionTypes, CountTypes, DriveTypes,
     Required, NextInput, PackagesOf, AllRestored
<1>9. ChosenFits'
  <2> SUFFICES ASSUME NEW m \in Sessions, phase'[m] = "extract"
      PROVE  /\ restored[m] < Len(Required(m))
             /\ chosen'[m] \in PackagesOf(NextInput(m))
    BY DEF ChosenFits, Required, NextInput, PackagesOf
  <2>1. CASE m # n
    <3>1. phase[m] = "extract" /\ chosen'[m] = chosen[m]
      BY <2>1 DEF SessionTypes
    <3>2. QED BY <3>1 DEF ChosenFits
  <2>2. CASE m = n
    <3>1. chosen'[n] = Max(C)
      BY <1>00 DEF SessionTypes
    <3>2. restored[n] < Len(Required(n))
      <4>1. stage[n] \in Stages /\ restored[n] \in Nat
        BY DEF Progress, CountTypes
      <4>2. restored[n] <= Len(Required(n)) /\ Len(Required(n)) \in Nat
        BY <4>1 DEF CountTypes, Required
      <4>3. QED BY <4>1, <4>2 DEF AllRestored
    <3>3. QED BY <1>00, <2>2, <3>1, <3>2
  <2>3. QED BY <2>1, <2>2
<1>10. QED
  BY <1>1, <1>2, <1>3, <1>4, <1>5, <1>6, <1>7, <1>8, <1>9

(* The action RequiredPackageMissing keeps the invariant. *)
LEMMA RequiredPackageMissingKeeps ==
  ASSUME IInv, NEW n \in Sessions, RequiredPackageMissing(n)
  PROVE  IInv'
<1> USE StagesAssumption, PackageBoundsAssumption, RequiresTypes
<1> USE DEF IInv, TypeOK, RequiredPackageMissing
<1>1. SessionTypes'
  BY DEF SessionTypes, DriveTypes
<1>2. CountTypes'
  BY DEF CountTypes, SessionTypes, Progress, ChosenFits, Required
<1>3. DriveTypes'
  BY DEF DriveTypes, SessionTypes, Package, NoPackage, Progress
<1>4. OwnName'
  BY DEF OwnName, SessionTypes, DriveTypes
<1>5. OwnFiles'
  BY DEF OwnFiles, OwnName, SessionTypes, DriveTypes, Package, NoPackage, Passed
<1>6. DriveOrder'
  BY DEF DriveOrder, OwnFiles, OwnName, SessionTypes, DriveTypes, Package,
     NoPackage, Passed
<1>7. InputsKnown'
  BY DEF InputsKnown, DriveOrder, ChosenFits, Progress, SessionTypes,
     DriveTypes, CountTypes, Package, NoPackage, Passed, PackagesOf,
     Required, NextInput
<1>8. Progress'
  BY DEF Progress, ChosenFits, SessionTypes, CountTypes, DriveTypes,
     Required, NextInput, PackagesOf, AllRestored
<1>9. ChosenFits'
  BY DEF ChosenFits, Progress, SessionTypes, CountTypes, DriveTypes,
     Required, NextInput, PackagesOf, AllRestored, NoPackage
<1>10. QED
  BY <1>1, <1>2, <1>3, <1>4, <1>5, <1>6, <1>7, <1>8, <1>9

(* The action ExtractPackage keeps the invariant. *)
LEMMA ExtractPackageKeeps ==
  ASSUME IInv, NEW n \in Sessions, ExtractPackage(n)
  PROVE  IInv'
<1> USE StagesAssumption, PackageBoundsAssumption, RequiresTypes
<1> USE DEF IInv, TypeOK, ExtractPackage
<1>1. SessionTypes'
  BY DEF SessionTypes, DriveTypes
<1>2. CountTypes'
  BY DEF CountTypes, SessionTypes, Progress, ChosenFits, Required
<1>3. DriveTypes'
  BY DEF DriveTypes, SessionTypes, Package, NoPackage, Progress
<1>4. OwnName'
  BY DEF OwnName, SessionTypes, DriveTypes
<1>5. OwnFiles'
  BY DEF OwnFiles, OwnName, SessionTypes, DriveTypes, Package, NoPackage, Passed
<1>6. DriveOrder'
  BY DEF DriveOrder, OwnFiles, OwnName, SessionTypes, DriveTypes, Package,
     NoPackage, Passed
<1>7. InputsKnown'
  BY DEF InputsKnown, DriveOrder, ChosenFits, Progress, SessionTypes,
     DriveTypes, CountTypes, Package, NoPackage, Passed, PackagesOf,
     Required, NextInput
<1>8. Progress'
  BY DEF Progress, ChosenFits, SessionTypes, CountTypes, DriveTypes,
     Required, NextInput, PackagesOf, AllRestored
<1>9. ChosenFits'
  BY DEF ChosenFits, Progress, SessionTypes, CountTypes, DriveTypes,
     Required, NextInput, PackagesOf, AllRestored, NoPackage
<1>10. QED
  BY <1>1, <1>2, <1>3, <1>4, <1>5, <1>6, <1>7, <1>8, <1>9

(* The action ExtractRaises keeps the invariant. *)
LEMMA ExtractRaisesKeeps ==
  ASSUME IInv, NEW n \in Sessions, ExtractRaises(n)
  PROVE  IInv'
<1> USE StagesAssumption, PackageBoundsAssumption, RequiresTypes
<1> USE DEF IInv, TypeOK, ExtractRaises
<1>1. SessionTypes'
  BY DEF SessionTypes, DriveTypes
<1>2. CountTypes'
  BY DEF CountTypes, SessionTypes, Progress, ChosenFits, Required
<1>3. DriveTypes'
  BY DEF DriveTypes, SessionTypes, Package, NoPackage, Progress
<1>0. \A m \in Sessions : phase'[m] \in Named => phase[m] \in Named
  BY DEF SessionTypes
<1>4. OwnName'
  BY <1>0 DEF OwnName, SessionTypes, DriveTypes
<1>5. OwnFiles'
  BY DEF OwnFiles, OwnName, SessionTypes, DriveTypes, Package, NoPackage, Passed
<1>6. DriveOrder'
  BY DEF DriveOrder, OwnFiles, OwnName, SessionTypes, DriveTypes, Package,
     NoPackage, Passed
<1>7. InputsKnown'
  BY DEF InputsKnown, DriveOrder, ChosenFits, Progress, SessionTypes,
     DriveTypes, CountTypes, Package, NoPackage, Passed, PackagesOf,
     Required, NextInput
<1>8. Progress'
  BY DEF Progress, ChosenFits, SessionTypes, CountTypes, DriveTypes,
     Required, NextInput, PackagesOf, AllRestored
<1>9. ChosenFits'
  BY DEF ChosenFits, Progress, SessionTypes, CountTypes, DriveTypes,
     Required, NextInput, PackagesOf, AllRestored, NoPackage
<1>10. QED
  BY <1>1, <1>2, <1>3, <1>4, <1>5, <1>6, <1>7, <1>8, <1>9

(* The action RunStage keeps the invariant. *)
LEMMA RunStageKeeps ==
  ASSUME IInv, NEW n \in Sessions, RunStage(n)
  PROVE  IInv'
<1> USE StagesAssumption, PackageBoundsAssumption, RequiresTypes
<1> USE DEF IInv, TypeOK, RunStage
<1>1. SessionTypes'
  BY DEF SessionTypes, DriveTypes
<1>2. CountTypes'
  BY DEF CountTypes, SessionTypes, Progress, ChosenFits, Required
<1>3. DriveTypes'
  BY DEF DriveTypes, SessionTypes, Package, NoPackage, Progress
<1>4. OwnName'
  BY DEF OwnName, SessionTypes, DriveTypes
<1>5. OwnFiles'
  BY DEF OwnFiles, OwnName, SessionTypes, DriveTypes, Package, NoPackage, Passed
<1>6. DriveOrder'
  BY DEF DriveOrder, OwnFiles, OwnName, SessionTypes, DriveTypes, Package,
     NoPackage, Passed
<1>7. InputsKnown'
  BY DEF InputsKnown, DriveOrder, ChosenFits, Progress, SessionTypes,
     DriveTypes, CountTypes, Package, NoPackage, Passed, PackagesOf,
     Required, NextInput
<1>8. Progress'
  BY DEF Progress, ChosenFits, SessionTypes, CountTypes, DriveTypes,
     Required, NextInput, PackagesOf, AllRestored
<1>9. ChosenFits'
  BY DEF ChosenFits, Progress, SessionTypes, CountTypes, DriveTypes,
     Required, NextInput, PackagesOf, AllRestored, NoPackage
<1>10. QED
  BY <1>1, <1>2, <1>3, <1>4, <1>5, <1>6, <1>7, <1>8, <1>9

(* The action NamePackage keeps the invariant. *)
LEMMA NamePackageKeeps ==
  ASSUME IInv, NEW n \in Sessions, NamePackage(n)
  PROVE  IInv'
<1> USE StagesAssumption, PackageBoundsAssumption, RequiresTypes
<1> USE DEF IInv, TypeOK, NamePackage
<1>0. /\ clock + 1 \in Names /\ pkg[clock + 1] = NoPackage
      /\ stage[n] \in Stages /\ verdict[n] \in {"PASS", "FAIL"}
  BY DEF DriveTypes, SessionTypes, Progress
<1> DEFINE fresh == [stage |-> stage[n], zip |-> "absent",
                     manifest |-> "absent", verdict |-> verdict[n]]
<1>00. /\ pkg' \in [Names -> Package]
       /\ \A w \in Names : w # clock + 1 => pkg'[w] = pkg[w]
       /\ pkg'[clock + 1] = fresh
  <2>1. fresh \in Package
    BY <1>0 DEF Package
  <2>2. pkg' = [pkg EXCEPT ![clock + 1] = fresh]
    OBVIOUS
  <2> HIDE DEF fresh
  <2>3. QED BY <1>0, <2>1, <2>2 DEF DriveTypes
<1>1. SessionTypes'
  BY DEF SessionTypes, DriveTypes
<1>2. CountTypes'
  BY DEF CountTypes, SessionTypes, Progress, ChosenFits, Required
<1>3. DriveTypes'
  <2>1. clock' = clock + 1 /\ clock' \in 0 .. MaxPackages
    BY DEF DriveTypes
  <2>2. \A w \in Names : w > clock + 1 => pkg'[w] = NoPackage
    BY <1>00 DEF DriveTypes
  <2>3. QED BY <1>00, <2>1, <2>2 DEF DriveTypes
<1>4. OwnName'
  BY DEF OwnName, SessionTypes, DriveTypes
<1>5. OwnFiles'
  <2>1. ASSUME NEW m \in Sessions, m # n, phase'[m] \in Named
        PROVE  phase[m] \in Named /\ name'[m] = name[m] /\ phase'[m] = phase[m]
               /\ name[m] # clock + 1 /\ name[m] \in Names
    BY <2>1 DEF SessionTypes, OwnName, DriveTypes
  <2>2. name'[n] = clock + 1
        /\ phase'[n] \in {"manifest_only", "prune", "copy"}
        /\ (phase'[n] # "manifest_only" => ~PublishBlocked(n))
    BY DEF SessionTypes
  <2>3. /\ pkg'[clock + 1].zip = "absent" /\ pkg'[clock + 1].manifest = "absent"
        /\ pkg'[clock + 1].stage = stage[n]
        /\ pkg'[clock + 1].verdict = verdict[n]
    BY <1>00
  <2>4. QED
    BY <1>00, <2>1, <2>2, <2>3 DEF OwnFiles, Passed, PublishBlocked
<1>6. DriveOrder'
  BY DEF DriveOrder, OwnFiles, OwnName, SessionTypes, DriveTypes, Package,
     NoPackage, Passed
<1>7. InputsKnown'
  BY DEF InputsKnown, DriveOrder, ChosenFits, Progress, SessionTypes,
     DriveTypes, CountTypes, Package, NoPackage, Passed, PackagesOf,
     Required, NextInput
<1>8. Progress'
  BY DEF Progress, ChosenFits, SessionTypes, CountTypes, DriveTypes,
     Required, NextInput, PackagesOf, AllRestored
<1>9. ChosenFits'
  BY DEF ChosenFits, Progress, SessionTypes, CountTypes, DriveTypes,
     Required, NextInput, PackagesOf, AllRestored, NoPackage
<1>10. QED
  BY <1>1, <1>2, <1>3, <1>4, <1>5, <1>6, <1>7, <1>8, <1>9

(* The action WriteManifestOnly keeps the invariant. *)
LEMMA WriteManifestOnlyKeeps ==
  ASSUME IInv, NEW n \in Sessions, WriteManifestOnly(n)
  PROVE  IInv'
<1> USE StagesAssumption, PackageBoundsAssumption, RequiresTypes
<1> USE DEF IInv, TypeOK, WriteManifestOnly
<1>1. SessionTypes'
  BY DEF SessionTypes, DriveTypes
<1>2. CountTypes'
  BY DEF CountTypes, SessionTypes, Progress, ChosenFits, Required
<1>3. DriveTypes'
  <2>1. pkg' \in [Names -> Package]
    BY PackageUpdates DEF DriveTypes, SessionTypes
  <2>2. QED
    BY <2>1 DEF DriveTypes, SessionTypes, OwnName, Progress
<1>4. OwnName'
  BY DEF OwnName, SessionTypes, DriveTypes
<1>5. OwnFiles'
  BY DEF OwnFiles, OwnName, SessionTypes, DriveTypes, Package, NoPackage, Passed
<1>6. DriveOrder'
  BY DEF DriveOrder, OwnFiles, OwnName, SessionTypes, DriveTypes, Package,
     NoPackage, Passed
<1>7. InputsKnown'
  BY DEF InputsKnown, DriveOrder, ChosenFits, Progress, SessionTypes,
     DriveTypes, CountTypes, Package, NoPackage, Passed, PackagesOf,
     Required, NextInput
<1>8. Progress'
  BY DEF Progress, ChosenFits, SessionTypes, CountTypes, DriveTypes,
     Required, NextInput, PackagesOf, AllRestored
<1>9. ChosenFits'
  BY DEF ChosenFits, Progress, SessionTypes, CountTypes, DriveTypes,
     Required, NextInput, PackagesOf, AllRestored, NoPackage
<1>10. QED
  BY <1>1, <1>2, <1>3, <1>4, <1>5, <1>6, <1>7, <1>8, <1>9

(* The action PruneFile keeps the invariant. *)
LEMMA PruneFileKeeps ==
  ASSUME IInv, NEW n \in Sessions, PruneFile(n)
  PROVE  IInv'
<1> USE StagesAssumption, PackageBoundsAssumption, RequiresTypes
<1> USE DEF IInv, TypeOK, PruneFile
<1>0. PICK v \in Names :
        /\ pkg[v].stage = stage[n] /\ stage[n] \in Stages
        /\ \/ pkg' = [pkg EXCEPT ![v].zip = "absent"]
           \/ pkg' = [pkg EXCEPT ![v].manifest = "absent"]
  <2>1. stage[n] \in Stages
    BY DEF Progress
  <2>2. CASE ZipsOf(stage[n]) # {}
    <3>1. ZipsOf(stage[n]) \in SUBSET Names
      BY DEF ZipsOf, PackagesOf
    <3>2. Min(ZipsOf(stage[n])) \in ZipsOf(stage[n])
      BY <2>2, <3>1, MinOfNames
    <3>3. QED BY <2>1, <2>2, <3>2 DEF ZipsOf, PackagesOf
  <2>3. CASE ZipsOf(stage[n]) = {}
    <3>1. ManifestsOf(stage[n]) \in SUBSET Names /\ ManifestsOf(stage[n]) # {}
      BY <2>3 DEF ManifestsOf, PackagesOf
    <3>2. Min(ManifestsOf(stage[n])) \in ManifestsOf(stage[n])
      BY <3>1, MinOfNames
    <3>3. QED BY <2>1, <2>3, <3>2 DEF ManifestsOf, PackagesOf
  <2>4. QED BY <2>2, <2>3
<1>00. /\ pkg' \in [Names -> Package]
       /\ \A w \in Names :
            /\ pkg'[w].stage = pkg[w].stage /\ pkg'[w].verdict = pkg[w].verdict
            /\ pkg'[w].zip \in {pkg[w].zip, "absent"}
            /\ pkg'[w].manifest \in {pkg[w].manifest, "absent"}
            /\ w # v => pkg'[w] = pkg[w]
  <2>1. CASE pkg' = [pkg EXCEPT ![v].zip = "absent"]
    <3>1. pkg' \in [Names -> Package]
      BY <2>1, PackageUpdates DEF DriveTypes
    <3>2. QED BY <2>1, <3>1 DEF DriveTypes, Package
  <2>2. CASE pkg' = [pkg EXCEPT ![v].manifest = "absent"]
    <3>1. pkg' \in [Names -> Package]
      BY <2>2, PackageUpdates DEF DriveTypes
    <3>2. QED BY <2>2, <3>1 DEF DriveTypes, Package
  <2>3. QED BY <1>0, <2>1, <2>2
<1> HIDE DEF PruneFile
<1>000. UNCHANGED <<phase, stage, restored, chosen, inputs, verdict, name,
                    clock, kills, finished, cutShort>> /\ phase[n] = "prune"
  BY DEF PruneFile
<1>1. SessionTypes'
  BY <1>00, <1>000 DEF SessionTypes, DriveTypes
<1>2. CountTypes'
  BY <1>00, <1>000 DEF CountTypes, SessionTypes, Progress, ChosenFits, Required
<1>3. DriveTypes'
  <2>1. v <= clock
    BY <1>0, StagesAssumption DEF DriveTypes, NoPackage
  <2>2. QED BY <1>00, <1>000, <2>1 DEF DriveTypes
<1>4. OwnName'
  BY <1>00, <1>000 DEF OwnName, SessionTypes, DriveTypes
<1>5. OwnFiles'
  BY <1>00, <1>000 DEF OwnFiles, OwnName, SessionTypes, DriveTypes, Package,
     NoPackage, Passed
<1>6. DriveOrder'
  BY <1>00, <1>000 DEF DriveOrder, OwnFiles, OwnName, SessionTypes,
     DriveTypes, Package, NoPackage, Passed
<1>7. InputsKnown'
  BY <1>00, <1>000 DEF InputsKnown, DriveOrder, ChosenFits, Progress,
     SessionTypes, DriveTypes, CountTypes, Package, NoPackage, Passed,
     PackagesOf, Required, NextInput
<1>8. Progress'
  BY <1>00, <1>000 DEF Progress, ChosenFits, SessionTypes, CountTypes,
     DriveTypes, Required, NextInput, PackagesOf, AllRestored
<1>9. ChosenFits'
  BY <1>00, <1>000 DEF ChosenFits, Progress, SessionTypes, CountTypes,
     DriveTypes, Required, NextInput, PackagesOf, AllRestored, NoPackage
<1>10. QED
  BY <1>1, <1>2, <1>3, <1>4, <1>5, <1>6, <1>7, <1>8, <1>9

(* The action PruneEnds keeps the invariant. *)
LEMMA PruneEndsKeeps ==
  ASSUME IInv, NEW n \in Sessions, PruneEnds(n)
  PROVE  IInv'
<1> USE StagesAssumption, PackageBoundsAssumption, RequiresTypes
<1> USE DEF IInv, TypeOK, PruneEnds
<1>1. SessionTypes'
  BY DEF SessionTypes, DriveTypes
<1>2. CountTypes'
  BY DEF CountTypes, SessionTypes, Progress, ChosenFits, Required
<1>3. DriveTypes'
  BY DEF DriveTypes, SessionTypes, Package, NoPackage, Progress
<1>4. OwnName'
  BY DEF OwnName, SessionTypes, DriveTypes
<1>5. OwnFiles'
  BY DEF OwnFiles, OwnName, SessionTypes, DriveTypes, Package, NoPackage, Passed
<1>6. DriveOrder'
  BY DEF DriveOrder, OwnFiles, OwnName, SessionTypes, DriveTypes, Package,
     NoPackage, Passed
<1>7. InputsKnown'
  BY DEF InputsKnown, DriveOrder, ChosenFits, Progress, SessionTypes,
     DriveTypes, CountTypes, Package, NoPackage, Passed, PackagesOf,
     Required, NextInput
<1>8. Progress'
  BY DEF Progress, ChosenFits, SessionTypes, CountTypes, DriveTypes,
     Required, NextInput, PackagesOf, AllRestored
<1>9. ChosenFits'
  BY DEF ChosenFits, Progress, SessionTypes, CountTypes, DriveTypes,
     Required, NextInput, PackagesOf, AllRestored, NoPackage
<1>10. QED
  BY <1>1, <1>2, <1>3, <1>4, <1>5, <1>6, <1>7, <1>8, <1>9

(* The action BeginCopyZip keeps the invariant. *)
LEMMA BeginCopyZipKeeps ==
  ASSUME IInv, NEW n \in Sessions, BeginCopyZip(n)
  PROVE  IInv'
<1> USE StagesAssumption, PackageBoundsAssumption, RequiresTypes
<1> USE DEF IInv, TypeOK, BeginCopyZip
<1>1. SessionTypes'
  BY DEF SessionTypes, DriveTypes
<1>2. CountTypes'
  BY DEF CountTypes, SessionTypes, Progress, ChosenFits, Required
<1>3. DriveTypes'
  <2>1. pkg' \in [Names -> Package]
    BY PackageUpdates DEF DriveTypes, SessionTypes
  <2>2. QED
    BY <2>1 DEF DriveTypes, SessionTypes, OwnName, Progress
<1>4. OwnName'
  BY DEF OwnName, SessionTypes, DriveTypes
<1>5. OwnFiles'
  BY DEF OwnFiles, OwnName, SessionTypes, DriveTypes, Package, NoPackage, Passed
<1>6. DriveOrder'
  BY DEF DriveOrder, OwnFiles, OwnName, SessionTypes, DriveTypes, Package,
     NoPackage, Passed
<1>7. InputsKnown'
  BY DEF InputsKnown, DriveOrder, ChosenFits, Progress, SessionTypes,
     DriveTypes, CountTypes, Package, NoPackage, Passed, PackagesOf,
     Required, NextInput
<1>8. Progress'
  BY DEF Progress, ChosenFits, SessionTypes, CountTypes, DriveTypes,
     Required, NextInput, PackagesOf, AllRestored
<1>9. ChosenFits'
  BY DEF ChosenFits, Progress, SessionTypes, CountTypes, DriveTypes,
     Required, NextInput, PackagesOf, AllRestored, NoPackage
<1>10. QED
  BY <1>1, <1>2, <1>3, <1>4, <1>5, <1>6, <1>7, <1>8, <1>9

(* The action EndCopyZip keeps the invariant. *)
LEMMA EndCopyZipKeeps ==
  ASSUME IInv, NEW n \in Sessions, EndCopyZip(n)
  PROVE  IInv'
<1> USE StagesAssumption, PackageBoundsAssumption, RequiresTypes
<1> USE DEF IInv, TypeOK, EndCopyZip
<1>1. SessionTypes'
  BY DEF SessionTypes, DriveTypes
<1>2. CountTypes'
  BY DEF CountTypes, SessionTypes, Progress, ChosenFits, Required
<1>3. DriveTypes'
  <2>1. pkg' \in [Names -> Package]
    BY PackageUpdates DEF DriveTypes, SessionTypes
  <2>2. QED
    BY <2>1 DEF DriveTypes, SessionTypes, OwnName, Progress
<1>4. OwnName'
  BY DEF OwnName, SessionTypes, DriveTypes
<1>5. OwnFiles'
  BY DEF OwnFiles, OwnName, SessionTypes, DriveTypes, Package, NoPackage, Passed
<1>6. DriveOrder'
  BY DEF DriveOrder, OwnFiles, OwnName, SessionTypes, DriveTypes, Package,
     NoPackage, Passed
<1>7. InputsKnown'
  BY DEF InputsKnown, DriveOrder, ChosenFits, Progress, SessionTypes,
     DriveTypes, CountTypes, Package, NoPackage, Passed, PackagesOf,
     Required, NextInput
<1>8. Progress'
  BY DEF Progress, ChosenFits, SessionTypes, CountTypes, DriveTypes,
     Required, NextInput, PackagesOf, AllRestored
<1>9. ChosenFits'
  BY DEF ChosenFits, Progress, SessionTypes, CountTypes, DriveTypes,
     Required, NextInput, PackagesOf, AllRestored, NoPackage
<1>10. QED
  BY <1>1, <1>2, <1>3, <1>4, <1>5, <1>6, <1>7, <1>8, <1>9

(* The action CopyManifest keeps the invariant. *)
LEMMA CopyManifestKeeps ==
  ASSUME IInv, NEW n \in Sessions, CopyManifest(n)
  PROVE  IInv'
<1> USE StagesAssumption, PackageBoundsAssumption, RequiresTypes
<1> USE DEF IInv, TypeOK, CopyManifest
<1>1. SessionTypes'
  BY DEF SessionTypes, DriveTypes
<1>2. CountTypes'
  BY DEF CountTypes, SessionTypes, Progress, ChosenFits, Required
<1>3. DriveTypes'
  <2>1. pkg' \in [Names -> Package]
    BY PackageUpdates DEF DriveTypes, SessionTypes
  <2>2. QED
    BY <2>1 DEF DriveTypes, SessionTypes, OwnName, Progress
<1>4. OwnName'
  BY DEF OwnName, SessionTypes, DriveTypes
<1>5. OwnFiles'
  BY DEF OwnFiles, OwnName, SessionTypes, DriveTypes, Package, NoPackage, Passed
<1>6. DriveOrder'
  BY DEF DriveOrder, OwnFiles, OwnName, SessionTypes, DriveTypes, Package,
     NoPackage, Passed
<1>7. InputsKnown'
  BY DEF InputsKnown, DriveOrder, ChosenFits, Progress, SessionTypes,
     DriveTypes, CountTypes, Package, NoPackage, Passed, PackagesOf,
     Required, NextInput
<1>8. Progress'
  BY DEF Progress, ChosenFits, SessionTypes, CountTypes, DriveTypes,
     Required, NextInput, PackagesOf, AllRestored
<1>9. ChosenFits'
  BY DEF ChosenFits, Progress, SessionTypes, CountTypes, DriveTypes,
     Required, NextInput, PackagesOf, AllRestored, NoPackage
<1>10. QED
  BY <1>1, <1>2, <1>3, <1>4, <1>5, <1>6, <1>7, <1>8, <1>9

(* The action Kill keeps the invariant. *)
LEMMA KillKeeps ==
  ASSUME IInv, NEW n \in Sessions, Kill(n)
  PROVE  IInv'
<1> USE StagesAssumption, PackageBoundsAssumption, RequiresTypes
<1> USE DEF IInv, TypeOK, Kill
<1>0. /\ pkg' \in [Names -> Package]
      /\ \A w \in Names :
           /\ pkg'[w].stage = pkg[w].stage /\ pkg'[w].verdict = pkg[w].verdict
           /\ pkg'[w].zip = pkg[w].zip
           /\ \/ pkg'[w] = pkg[w]
              \/ phase[n] \in {"manifest", "manifest_only"} /\ w = name[n]
  <2>1. CASE UNCHANGED pkg
    BY <2>1 DEF DriveTypes
  <2>2. CASE /\ phase[n] \in {"manifest", "manifest_only"}
            /\ pkg' = [pkg EXCEPT ![name[n]].manifest = "partial"]
    <3>1. name[n] \in Names
      BY <2>2 DEF OwnName, DriveTypes
    <3>2. pkg' \in [Names -> Package]
      BY <2>2, <3>1, PackageUpdates DEF DriveTypes
    <3>3. QED BY <2>2, <3>1, <3>2 DEF DriveTypes, Package
  <2>3. QED BY <2>1, <2>2
<1>1. SessionTypes'
  BY DEF SessionTypes, DriveTypes
<1>2. CountTypes'
  BY DEF CountTypes, SessionTypes, Progress, ChosenFits, Required
<1>3. DriveTypes'
  BY <1>0 DEF DriveTypes, OwnName, SessionTypes, Package, NoPackage, Progress
<1>4. OwnName'
  BY <1>0 DEF OwnName, SessionTypes, DriveTypes
<1>5. OwnFiles'
  BY <1>0 DEF OwnFiles, OwnName, SessionTypes, DriveTypes, Package,
     NoPackage, Passed
<1>6. DriveOrder'
  BY <1>0 DEF DriveOrder, OwnFiles, OwnName, SessionTypes, DriveTypes,
     Package, NoPackage, Passed
<1>7. InputsKnown'
  BY <1>0 DEF InputsKnown, DriveOrder, ChosenFits, Progress, SessionTypes,
     DriveTypes, CountTypes, Package, NoPackage, Passed, PackagesOf,
     Required, NextInput
<1>8. Progress'
  BY <1>0 DEF Progress, ChosenFits, SessionTypes, CountTypes, DriveTypes,
     Required, NextInput, PackagesOf, AllRestored
<1>9. ChosenFits'
  BY <1>0 DEF ChosenFits, Progress, SessionTypes, CountTypes, DriveTypes,
     Required, NextInput, PackagesOf, AllRestored, NoPackage
<1>10. QED
  BY <1>1, <1>2, <1>3, <1>4, <1>5, <1>6, <1>7, <1>8, <1>9

(* Every step of every session keeps the invariant. *)
LEMMA NextIInv == IInv /\ [Next]_vars => IInv'
<1> SUFFICES ASSUME IInv, [Next]_vars PROVE IInv'
  OBVIOUS
<1>1. CASE UNCHANGED vars
  BY <1>1 DEF vars, IInv, TypeOK, SessionTypes, CountTypes, DriveTypes,
     OwnName, OwnFiles, DriveOrder, InputsKnown, Progress, ChosenFits,
     Passed, PackagesOf, NextInput, Required
<1>2. ASSUME NEW n \in Sessions, Restore(n) PROVE IInv'
  BY <1>2, StartStageKeeps, SelectLatestKeeps, RequiredPackageMissingKeeps,
     ExtractPackageKeeps, ExtractRaisesKeeps, RunStageKeeps DEF Restore
<1>3. ASSUME NEW n \in Sessions, Publish(n) PROVE IInv'
  BY <1>3, NamePackageKeeps, WriteManifestOnlyKeeps, PruneFileKeeps,
     PruneEndsKeeps, BeginCopyZipKeeps, EndCopyZipKeeps, CopyManifestKeeps
     DEF Publish
<1>4. ASSUME NEW n \in Sessions, Kill(n) PROVE IInv'
  BY <1>4, KillKeeps
<1>5. QED BY <1>1, <1>2, <1>3, <1>4 DEF Next

(* The inductive invariant the theorems below rest on holds throughout. *)
THEOREM HandOffInvariant == Spec => []IInv
<1>1. Init => IInv BY InitIInv
<1>2. IInv /\ [Next]_vars => IInv' BY NextIInv
<1>3. QED BY <1>1, <1>2, PTL DEF Spec

(* Every session, local file and package on Drive has its type. *)
THEOREM HandOffTypeCorrect == Spec => []TypeOK
<1>1. IInv => TypeOK BY DEF IInv
<1>2. QED BY <1>1, HandOffInvariant, PTL

(* A stage only ever runs on packages whose own gate had passed. *)
THEOREM StagesRunOnPassedInputs == Spec => []InputsPassed
<1>1. IInv => InputsPassed
  <2> SUFFICES ASSUME IInv, NEW n \in Sessions,
                      phase[n] \in Publishing \union {"publish"},
                      NEW i \in DOMAIN Required(n)
      PROVE  /\ inputs[n][Required(n)[i]] \in PackagesOf(Required(n)[i])
             /\ Passed(inputs[n][Required(n)[i]])
    BY DEF InputsPassed
  <2>1. stage[n] \in Stages /\ restored[n] = Len(Required(n))
    BY DEF IInv, Progress
  <2>2. i \in 1 .. restored[n] /\ Required(n)[i] \in Stages
    BY <2>1, RequiresTypes, StagesAssumption DEF Required
  <2>3. inputs[n][Required(n)[i]] # NoName
    BY <2>1, <2>2 DEF IInv, Progress
  <2>4. inputs[n][Required(n)[i]] \in Names
    BY <2>2, <2>3 DEF IInv, TypeOK, SessionTypes
  <2>5. QED
    BY <2>2, <2>3, <2>4 DEF IInv, InputsKnown, PackagesOf
<1>2. QED BY <1>1, HandOffInvariant, PTL

(* Without the legacy switch, the baseline packages a restore accepts are    *)
(* complete, whoever is cut off and whatever is pruned.                      *)
THEOREM BaselinesRestoreComplete ==
  ~LegacyRestore => (Spec => []BaselineCandidatesComplete)
<1> SUFFICES ASSUME ~LegacyRestore PROVE Spec => []BaselineCandidatesComplete
  OBVIOUS
<1>1. IInv => BaselineCandidatesComplete
  BY DEF IInv, TypeOK, DriveTypes, Package, DriveOrder, Candidates, CompleteOf,
     PackagesOf, AllowedForRestore, BaselineCandidatesComplete
<1>2. QED BY <1>1, HandOffInvariant, PTL

(* As long as KEEP is set, which it is by default, no step of any session   *)
(* makes a complete package disappear, whatever PRUNE says.                 *)
THEOREM KeptPackagesRemain == KeepSnapshots => (Spec => CompletePackagesRetained)
<1> SUFFICES ASSUME KeepSnapshots PROVE Spec => CompletePackagesRetained
  OBVIOUS
<1> DEFINE NobodyPrunes == \A n \in Sessions : phase[n] # "prune"
<1>1. Init => NobodyPrunes
  BY DEF Init
<1>2. IInv /\ NobodyPrunes /\ [Next]_vars => NobodyPrunes'
  <2> SUFFICES ASSUME IInv, NobodyPrunes, [Next]_vars PROVE NobodyPrunes'
    OBVIOUS
  <2> USE DEF IInv, TypeOK, SessionTypes
  <2>1. CASE UNCHANGED vars
    BY <2>1 DEF vars
  <2>2. ASSUME NEW n \in Sessions, Restore(n) PROVE NobodyPrunes'
    BY <2>2 DEF Restore, StartStage, StageMayStart, SelectLatest,
       RequiredPackageMissing, ExtractPackage, ExtractRaises, RunStage
  <2>3. ASSUME NEW n \in Sessions, Publish(n) PROVE NobodyPrunes'
    BY <2>3 DEF Publish, NamePackage, Pruning, WriteManifestOnly, PruneFile,
       PruneEnds, BeginCopyZip, EndCopyZip, CopyManifest
  <2>4. ASSUME NEW n \in Sessions, Kill(n) PROVE NobodyPrunes'
    BY <2>4 DEF Kill
  <2>5. QED BY <2>1, <2>2, <2>3, <2>4 DEF Next
<1>3. IInv /\ NobodyPrunes /\ [Next]_vars =>
        \A s \in Stages : CompleteOf(s) \subseteq CompleteOf(s)'
  <2> SUFFICES ASSUME IInv, NobodyPrunes, [Next]_vars, NEW s \in Stages
               PROVE  CompleteOf(s) \subseteq CompleteOf(s)'
    OBVIOUS
  <2> SUFFICES ASSUME NEW v \in Names,
                      pkg[v].zip = "complete", pkg[v].stage = s
               PROVE  pkg'[v].zip = "complete" /\ pkg'[v].stage = s
    BY DEF CompleteOf, PackagesOf
  <2> HIDE DEF NobodyPrunes
  <2>1. CASE UNCHANGED vars
    BY <2>1 DEF vars
  <2>2. ASSUME NEW n \in Sessions, Restore(n)
        PROVE  pkg'[v].zip = "complete" /\ pkg'[v].stage = s
    BY <2>2 DEF Restore, StartStage, SelectLatest,
       RequiredPackageMissing, ExtractPackage, ExtractRaises, RunStage
  <2>3. ASSUME NEW n \in Sessions, Publish(n)
        PROVE  pkg'[v].zip = "complete" /\ pkg'[v].stage = s
    <3>1. pkg \in [Names -> Package]
      BY DEF IInv, TypeOK, DriveTypes
    <3>2. CASE NamePackage(n)
      <4>1. v # clock + 1
        <5>1. ~(v > clock)
          BY DEF IInv, TypeOK, DriveTypes, NoPackage
        <5>2. QED BY <5>1 DEF IInv, TypeOK, DriveTypes
      <4>2. QED BY <3>1, <3>2, <4>1 DEF NamePackage
    <3>3. CASE WriteManifestOnly(n)
      BY <3>1, <3>3 DEF WriteManifestOnly, Package
    <3>4. CASE PruneFile(n)
      BY <3>4 DEF NobodyPrunes, PruneFile
    <3>5. CASE PruneEnds(n)
      BY <3>5 DEF PruneEnds
    <3>6. CASE BeginCopyZip(n)
      <4>1. v # name[n]
        BY <3>6 DEF BeginCopyZip, IInv, OwnFiles
      <4>2. QED BY <3>1, <3>6, <4>1 DEF BeginCopyZip
    <3>7. CASE EndCopyZip(n)
      BY <3>1, <3>7 DEF EndCopyZip, Package
    <3>8. CASE CopyManifest(n)
      BY <3>1, <3>8 DEF CopyManifest, Package
    <3>9. QED
      BY <2>3, <3>2, <3>3, <3>4, <3>5, <3>6, <3>7, <3>8 DEF Publish
  <2>4. ASSUME NEW n \in Sessions, Kill(n)
        PROVE  pkg'[v].zip = "complete" /\ pkg'[v].stage = s
    <3>1. pkg \in [Names -> Package]
      BY DEF IInv, TypeOK, DriveTypes
    <3>2. \/ UNCHANGED pkg
          \/ pkg' = [pkg EXCEPT ![name[n]].manifest = "partial"]
      BY <2>4 DEF Kill
    <3>3. CASE pkg' = [pkg EXCEPT ![name[n]].manifest = "partial"]
      BY <3>1, <3>3 DEF Package
    <3>4. QED BY <3>2, <3>3
  <2>5. QED BY <2>1, <2>2, <2>3, <2>4 DEF Next
<1>4. QED
  BY <1>1, <1>2, <1>3, HandOffInvariant, PTL DEF Spec, CompletePackagesRetained

-----------------------------------------------------------------------------
(* What a publisher that prunes relies on: it is alone on its stage.         *)

(* No two sessions are busy with one stage. *)
Exclusive ==
  \A m, n \in Sessions :
    phase[m] \notin AtRest /\ phase[n] \notin AtRest /\ stage[m] = stage[n]
      => m = n

(* A session publishes a package of its own stage, and the ZIP it has copied *)
(* is still complete when it comes to the manifest.                          *)
OwnPackage ==
  \A n \in Sessions :
    /\ phase[n] \in Named => pkg[name[n]].stage = stage[n]
    /\ phase[n] = "manifest" => pkg[name[n]].zip = "complete"

Leaves == Exclusive /\ OwnPackage /\ PruningLeavesOne

(* A step that hands out no name, makes no publisher fall out and takes no   *)
(* complete package away leaves a package of every stage that has finished.  *)
LEMMA LeftAfter ==
  ASSUME PruningLeavesOne, finished' = finished, cutShort \subseteq cutShort',
         \A s \in finished : CompleteOf(s) # {} =>
           \/ CompleteOf(s)' # {}
           \/ \E n \in Sessions : stage'[n] = s /\ phase'[n] \in Publishing,
         \A n \in Sessions : phase[n] \in Publishing =>
           \/ phase'[n] \in Publishing /\ stage'[n] = stage[n]
           \/ stage[n] \in cutShort'
  PROVE  PruningLeavesOne'
<1> SUFFICES ASSUME NEW s \in finished
             PROVE  \/ CompleteOf(s)' # {}
                    \/ s \in cutShort'
                    \/ \E n \in Sessions :
                         stage'[n] = s /\ phase'[n] \in Publishing
  BY DEF PruningLeavesOne
<1>1. CASE CompleteOf(s) # {}
  BY <1>1
<1>2. CASE s \in cutShort
  BY <1>2
<1>3. CASE \E n \in Sessions : stage[n] = s /\ phase[n] \in Publishing
  <2>1. PICK n \in Sessions : stage[n] = s /\ phase[n] \in Publishing
    BY <1>3
  <2>2. CASE phase'[n] \in Publishing /\ stage'[n] = stage[n]
    BY <2>1, <2>2
  <2>3. CASE stage[n] \in cutShort'
    BY <2>1, <2>3
  <2>4. QED BY <2>1, <2>2, <2>3
<1>4. QED BY <1>1, <1>2, <1>3 DEF PruningLeavesOne

(* A session that restores or runs its stage does not touch Drive. *)
LEMMA RestoreLeaves ==
  ASSUME IInv, Leaves, NEW n \in Sessions, Restore(n)
  PROVE  Leaves'
<1> USE DEF IInv, TypeOK, SessionTypes, Leaves
<1>1. /\ pkg' = pkg /\ name' = name
      /\ finished' = finished /\ cutShort' = cutShort
      /\ \A m \in Sessions \ {n} : phase'[m] = phase[m] /\ stage'[m] = stage[m]
      /\ phase[n] \notin Publishing /\ phase'[n] \notin Named
  BY DEF Restore, StartStage, StageMayStart, SelectLatest,
     RequiredPackageMissing, ExtractPackage, ExtractRaises, RunStage
<1>2. \/ phase[n] \notin AtRest /\ stage'[n] = stage[n]
      \/ \A m \in Sessions : phase[m] \notin AtRest => stage[m] # stage'[n]
  BY DEF Restore, StartStage, StageMayStart, SelectLatest,
     RequiredPackageMissing, ExtractPackage, ExtractRaises, RunStage
<1>3. Exclusive'
  BY <1>1, <1>2 DEF Exclusive
<1>4. OwnPackage'
  BY <1>1 DEF OwnPackage
<1>5. PruningLeavesOne'
  BY <1>1, LeftAfter DEF CompleteOf, PackagesOf
<1>6. QED BY <1>3, <1>4, <1>5

(* A publication begins under a name that nobody has used. *)
LEMMA NamePackageLeaves ==
  ASSUME IInv, Leaves, NEW n \in Sessions, NamePackage(n)
  PROVE  Leaves'
<1> USE DEF IInv, TypeOK, SessionTypes, Leaves, NamePackage
<1>1. /\ clock + 1 \in Names /\ pkg[clock + 1] = NoPackage
      /\ \A v \in Names : v # clock + 1 => pkg'[v] = pkg[v]
      /\ pkg'[clock + 1].stage = stage[n]
  BY PackageBoundsAssumption DEF DriveTypes
<1>2. \A m \in Sessions \ {n} :
        /\ phase'[m] = phase[m] /\ name'[m] = name[m]
        /\ phase[m] \in Named => name[m] \in Names /\ name[m] # clock + 1
  BY PackageBoundsAssumption DEF OwnName, DriveTypes
<1>3. /\ name'[n] = clock + 1 /\ stage' = stage
      /\ phase[n] = "publish"
      /\ phase'[n] \in {"manifest_only", "prune", "copy"}
  OBVIOUS
<1>4. Exclusive'
  BY <1>2, <1>3 DEF Exclusive
<1>5. OwnPackage'
  BY <1>1, <1>2, <1>3 DEF OwnPackage
<1>6. PruningLeavesOne'
  <2>1. \A s \in Stages : CompleteOf(s) \subseteq CompleteOf(s)'
    BY <1>1 DEF CompleteOf, PackagesOf, NoPackage
  <2>2. finished \subseteq Stages
    BY DEF DriveTypes
  <2>3. \A m \in Sessions : phase[m] \in Publishing =>
          phase'[m] \in Publishing /\ stage'[m] = stage[m]
    BY <1>2, <1>3
  <2>4. QED BY <2>1, <2>2, <2>3, LeftAfter
<1>7. QED BY <1>4, <1>5, <1>6

(* A stage that did not pass writes beside the packages of earlier passes. *)
LEMMA WriteManifestOnlyLeaves ==
  ASSUME IInv, Leaves, NEW n \in Sessions, WriteManifestOnly(n)
  PROVE  Leaves'
<1> USE DEF IInv, TypeOK, SessionTypes, Leaves, WriteManifestOnly
<1>1. \A v \in Names :
        pkg'[v].stage = pkg[v].stage /\ pkg'[v].zip = pkg[v].zip
  BY DEF DriveTypes, Package
<1>2. \A m \in Sessions : phase'[m] \notin AtRest => phase'[m] = phase[m] /\ m # n
  OBVIOUS
<1>3. \A m \in Sessions : phase[m] \in Named => name[m] \in Names
  BY PackageBoundsAssumption DEF OwnName, DriveTypes
<1>4. Exclusive'
  BY <1>2 DEF Exclusive
<1>5. OwnPackage'
  BY <1>1, <1>2, <1>3 DEF OwnPackage
<1>6. PruningLeavesOne'
  <2>1. \A s \in Stages : CompleteOf(s) \subseteq CompleteOf(s)'
    BY <1>1 DEF CompleteOf, PackagesOf
  <2>2. finished \subseteq Stages
    BY DEF DriveTypes
  <2>3. \A m \in Sessions : phase[m] \in Publishing =>
          phase'[m] \in Publishing /\ stage'[m] = stage[m]
    OBVIOUS
  <2>4. QED BY <2>1, <2>2, <2>3, LeftAfter
<1>7. QED BY <1>4, <1>5, <1>6

(* A publisher removes files of its own stage only, and stays busy with it. *)
LEMMA PruneFileLeaves ==
  ASSUME IInv, Leaves, NEW n \in Sessions, PruneFile(n)
  PROVE  Leaves'
<1> USE DEF IInv, TypeOK, SessionTypes, Leaves
<1>1. /\ phase' = phase /\ stage' = stage /\ name' = name
      /\ finished' = finished /\ cutShort' = cutShort
      /\ phase[n] = "prune"
  BY DEF PruneFile
<1>2. /\ \A v \in Names : pkg'[v].stage = pkg[v].stage
      /\ \A v \in Names : pkg[v].stage # stage[n] => pkg'[v] = pkg[v]
  <2>1. PICK v \in Names :
          /\ pkg[v].stage = stage[n]
          /\ \/ pkg' = [pkg EXCEPT ![v].zip = "absent"]
             \/ pkg' = [pkg EXCEPT ![v].manifest = "absent"]
    <3>1. CASE ZipsOf(stage[n]) # {}
      <4>1. ZipsOf(stage[n]) \in SUBSET Names
        BY DEF ZipsOf, PackagesOf
      <4>2. Min(ZipsOf(stage[n])) \in ZipsOf(stage[n])
        BY <3>1, <4>1, MinOfNames
      <4>3. QED BY <3>1, <4>2 DEF PruneFile, ZipsOf, PackagesOf
    <3>2. CASE ZipsOf(stage[n]) = {}
      <4>1. ManifestsOf(stage[n]) \in SUBSET Names /\ ManifestsOf(stage[n]) # {}
        BY <3>2 DEF PruneFile, ManifestsOf, PackagesOf
      <4>2. Min(ManifestsOf(stage[n])) \in ManifestsOf(stage[n])
        BY <4>1, MinOfNames
      <4>3. QED BY <3>2, <4>2 DEF PruneFile, ManifestsOf, PackagesOf
    <3>3. QED BY <3>1, <3>2
  <2>2. CASE pkg' = [pkg EXCEPT ![v].zip = "absent"]
    BY <2>1, <2>2 DEF DriveTypes, Package
  <2>3. CASE pkg' = [pkg EXCEPT ![v].manifest = "absent"]
    BY <2>1, <2>3 DEF DriveTypes, Package
  <2>4. QED BY <2>1, <2>2, <2>3
<1>3. \A m \in Sessions : phase[m] \in Named => name[m] \in Names
  BY PackageBoundsAssumption DEF OwnName, DriveTypes
<1>4. Exclusive'
  BY <1>1 DEF Exclusive
<1>5. OwnPackage'
  <2>1. \A m \in Sessions : phase[m] = "manifest" => stage[m] # stage[n]
    BY <1>1 DEF Exclusive
  <2>2. QED BY <1>1, <1>2, <1>3, <2>1 DEF OwnPackage
<1>6. PruningLeavesOne'
  <2>1. ASSUME NEW s \in finished, CompleteOf(s) # {}, s # stage[n]
        PROVE  CompleteOf(s)' # {}
    BY <1>2, <2>1 DEF CompleteOf, PackagesOf
  <2>2. \A s \in finished : CompleteOf(s) # {} =>
          \/ CompleteOf(s)' # {}
          \/ \E m \in Sessions : stage'[m] = s /\ phase'[m] \in Publishing
    BY <1>1, <2>1
  <2>3. QED BY <1>1, <2>2, LeftAfter
<1>7. QED BY <1>4, <1>5, <1>6

(* When nothing is left to prune the publisher goes on to the copy. *)
LEMMA PruneEndsLeaves ==
  ASSUME IInv, Leaves, NEW n \in Sessions, PruneEnds(n)
  PROVE  Leaves'
<1> USE DEF IInv, TypeOK, SessionTypes, Leaves, PruneEnds
<1>1. Exclusive'
  BY DEF Exclusive
<1>2. OwnPackage'
  BY DEF OwnPackage
<1>3. PruningLeavesOne'
  BY LeftAfter DEF CompleteOf, PackagesOf
<1>4. QED BY <1>1, <1>2, <1>3

(* The copy writes under the publisher's own name, where no ZIP was. *)
LEMMA CopyZipLeaves ==
  ASSUME IInv, Leaves, NEW n \in Sessions, BeginCopyZip(n) \/ EndCopyZip(n)
  PROVE  Leaves'
<1> USE DEF IInv, TypeOK, SessionTypes, Leaves
<1>1. /\ stage' = stage /\ name' = name
      /\ finished' = finished /\ cutShort' = cutShort
      /\ phase[n] \in {"copy", "copying"}
      /\ \A m \in Sessions \ {n} : phase'[m] = phase[m]
  BY DEF BeginCopyZip, EndCopyZip
<1>2. /\ \A m \in Sessions : phase[m] \in Named => name[m] \in Names
      /\ \A m \in Sessions \ {n} : phase[m] \in Named => name[m] # name[n]
  BY <1>1, PackageBoundsAssumption DEF OwnName, DriveTypes
<1>3. /\ \A v \in Names : pkg'[v].stage = pkg[v].stage
      /\ \A v \in Names : v # name[n] => pkg'[v] = pkg[v]
  <2>1. name[n] \in Names /\ pkg \in [Names -> Package]
    BY <1>1, <1>2 DEF DriveTypes
  <2>2. CASE BeginCopyZip(n)
    BY <2>1, <2>2 DEF BeginCopyZip, Package
  <2>3. CASE EndCopyZip(n)
    BY <2>1, <2>3 DEF EndCopyZip, Package
  <2>4. QED BY <2>2, <2>3
<1>4. \/ /\ phase[n] = "copy" /\ phase'[n] = "copying"
         /\ pkg[name[n]].zip = "absent"
      \/ phase'[n] = "manifest" /\ pkg'[name[n]].zip = "complete"
  <2>1. CASE BeginCopyZip(n)
    BY <2>1 DEF BeginCopyZip, OwnFiles
  <2>2. CASE EndCopyZip(n)
    BY <1>1, <1>2, <2>2 DEF EndCopyZip, DriveTypes, Package
  <2>3. QED BY <2>1, <2>2
<1>5. Exclusive'
  BY <1>1, <1>4 DEF Exclusive
<1>6. OwnPackage'
  BY <1>1, <1>2, <1>3, <1>4 DEF OwnPackage
<1>7. PruningLeavesOne'
  <2>1. \A v \in Names : pkg[v].zip = "complete" => pkg'[v].zip = "complete"
    BY <1>3, <1>4
  <2>2. \A s \in finished : CompleteOf(s) # {} => CompleteOf(s)' # {}
    BY <1>3, <2>1 DEF CompleteOf, PackagesOf
  <2>3. \A m \in Sessions : phase[m] \in Publishing =>
          phase'[m] \in Publishing /\ stage'[m] = stage[m]
    BY <1>1, <1>4
  <2>4. QED BY <1>1, <2>2, <2>3, LeftAfter
<1>8. QED BY <1>5, <1>6, <1>7

(* The stage has finished once its manifest is copied beside its ZIP. *)
LEMMA CopyManifestLeaves ==
  ASSUME IInv, Leaves, NEW n \in Sessions, CopyManifest(n)
  PROVE  Leaves'
<1> USE DEF IInv, TypeOK, SessionTypes, Leaves, CopyManifest
<1>1. \A v \in Names :
        pkg'[v].stage = pkg[v].stage /\ pkg'[v].zip = pkg[v].zip
  BY DEF DriveTypes, Package
<1>2. \A m \in Sessions : phase'[m] \notin AtRest => phase'[m] = phase[m] /\ m # n
  OBVIOUS
<1>3. \A m \in Sessions : phase[m] \in Named => name[m] \in Names
  BY PackageBoundsAssumption DEF OwnName, DriveTypes
<1>4. Exclusive'
  BY <1>2 DEF Exclusive
<1>5. OwnPackage'
  BY <1>1, <1>2, <1>3 DEF OwnPackage
<1>6. \A s : CompleteOf(s)' = CompleteOf(s)
  BY <1>1 DEF CompleteOf, PackagesOf
<1>7. CompleteOf(stage[n])' # {}
  <2>1. name[n] \in CompleteOf(stage[n])
    BY <1>3 DEF OwnPackage, CompleteOf, PackagesOf
  <2>2. QED BY <1>6, <2>1
<1>8. PruningLeavesOne'
  <2> SUFFICES ASSUME NEW s \in finished'
               PROVE  \/ CompleteOf(s)' # {}
                      \/ s \in cutShort'
                      \/ \E m \in Sessions :
                           stage'[m] = s /\ phase'[m] \in Publishing
    BY DEF PruningLeavesOne
  <2>1. CASE s = stage[n]
    BY <1>6, <1>7, <2>1
  <2>2. CASE s \in finished /\ s # stage[n]
    <3>1. \A m \in Sessions : m # n => phase'[m] = phase[m]
      OBVIOUS
    <3>2. QED BY <1>6, <2>2, <3>1 DEF PruningLeavesOne
  <2>3. QED BY <2>1, <2>2
<1>9. QED BY <1>4, <1>5, <1>8

(* A cut removes nothing, and is remembered when it hits a publisher. *)
LEMMA KillLeaves ==
  ASSUME IInv, Leaves, NEW n \in Sessions, Kill(n)
  PROVE  Leaves'
<1> USE DEF IInv, TypeOK, SessionTypes, Leaves
<1>1. /\ stage' = stage /\ name' = name /\ finished' = finished
      /\ phase'[n] = "idle"
      /\ \A m \in Sessions \ {n} : phase'[m] = phase[m]
      /\ cutShort \subseteq cutShort'
      /\ phase[n] \in Publishing => stage[n] \in cutShort'
  BY DEF Kill
<1>2. \A m \in Sessions : phase[m] \in Named => name[m] \in Names
  BY PackageBoundsAssumption DEF OwnName, DriveTypes
<1>3. \A v \in Names :
        pkg'[v].stage = pkg[v].stage /\ pkg'[v].zip = pkg[v].zip
  <2>1. \/ UNCHANGED pkg
        \/ pkg' = [pkg EXCEPT ![name[n]].manifest = "partial"]
    BY DEF Kill
  <2>2. CASE pkg' = [pkg EXCEPT ![name[n]].manifest = "partial"]
    BY <2>2 DEF DriveTypes, Package
  <2>3. QED BY <2>1, <2>2
<1>4. Exclusive'
  BY <1>1 DEF Exclusive
<1>5. OwnPackage'
  BY <1>1, <1>2, <1>3 DEF OwnPackage
<1>6. PruningLeavesOne'
  <2>1. \A s \in finished : CompleteOf(s) # {} => CompleteOf(s)' # {}
    BY <1>3 DEF CompleteOf, PackagesOf
  <2>2. \A m \in Sessions : phase[m] \in Publishing =>
          \/ phase'[m] \in Publishing /\ stage'[m] = stage[m]
          \/ stage[m] \in cutShort'
    BY <1>1
  <2>3. QED BY <1>1, <2>1, <2>2, LeftAfter
<1>7. QED BY <1>4, <1>5, <1>6

(* Every step of every session keeps it. *)
LEMMA NextLeaves == IInv /\ Leaves /\ [Next]_vars => Leaves'
<1> SUFFICES ASSUME IInv, Leaves, [Next]_vars PROVE Leaves'
  OBVIOUS
<1>1. CASE UNCHANGED vars
  BY <1>1 DEF vars, Leaves, Exclusive, OwnPackage, PruningLeavesOne,
     CompleteOf, PackagesOf
<1>2. ASSUME NEW n \in Sessions, Restore(n) PROVE Leaves'
  BY <1>2, RestoreLeaves
<1>3. ASSUME NEW n \in Sessions, Publish(n) PROVE Leaves'
  BY <1>3, NamePackageLeaves, WriteManifestOnlyLeaves, PruneFileLeaves,
     PruneEndsLeaves, CopyZipLeaves, CopyManifestLeaves DEF Publish
<1>4. ASSUME NEW n \in Sessions, Kill(n) PROVE Leaves'
  BY <1>4, KillLeaves
<1>5. QED BY <1>1, <1>2, <1>3, <1>4 DEF Next

(* A stage that has once been published stays restorable while nobody is     *)
(* publishing it, however many snapshots are pruned, unless a publisher of   *)
(* that stage was cut off: a failed gate takes nothing away.                 *)
THEOREM PublishedStaysRestorable == Spec => []PruningLeavesOne
<1>1. Init => Leaves
  BY DEF Init, Leaves, Exclusive, OwnPackage, PruningLeavesOne
<1>2. IInv /\ Leaves /\ [Next]_vars => Leaves'
  BY NextLeaves
<1>3. Leaves => PruningLeavesOne
  BY DEF Leaves
<1>4. QED BY <1>1, <1>2, <1>3, HandOffInvariant, PTL DEF Spec
=============================================================================
