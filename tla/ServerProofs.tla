----------------------------- MODULE ServerProofs -----------------------------
(*****************************************************************************)
(* Proofs about the server workflow and the official references it restores, *)
(* for every number of runs and every set of compared units; and, from these *)
(* and the other programs' theorems, what no step of any program may do.     *)
(*****************************************************************************)
EXTENDS ProgramsProofs, ExperimentProofs

-----------------------------------------------------------------------------
(* The official reference of a baseline.                                    *)

LEMMA ReferenceSets ==
  \A S : /\ OfficialReference!IsFiniteSet(S) <=> IsFiniteSet(S)
         /\ OfficialReference!Cardinality(S) = Cardinality(S)
BY DEF OfficialReference!IsFiniteSet, IsFiniteSet, OfficialReference!Cardinality, Cardinality

LEMMA ReferenceConstants ==
  /\ IsFiniteSet(ReferenceUnits)
  /\ \A u \in ReferenceUnits : /\ u \in OfficialReference!Sources
                               /\ MCGroup[u] \in {"a", "b"}
                               /\ MCGroup[u] \in OfficialReference!Sources
                               /\ OfficialReference!SourceOf(u) \in OfficialReference!Sources
<1>1. IsFiniteSet(ReferenceUnits) /\ MCGroup \in [ReferenceUnits -> {"a", "b"}]
  BY InstancesAssumption, ReferenceSets DEF OfficialReference!ReferenceAssumption
<1>2. \A u \in ReferenceUnits :
        /\ u \in OfficialReference!Sources
        /\ MCGroup[u] \in {"a", "b"} /\ MCGroup[u] \in OfficialReference!Sources
  BY <1>1 DEF OfficialReference!Sources
<1>3. \A u \in ReferenceUnits : OfficialReference!SourceOf(u) \in {u, MCGroup[u]}
  BY DEF OfficialReference!SourceOf
<1>4. QED BY <1>1, <1>2, <1>3

(* Nothing is counted before the records; only pairs of videoshield fail.   *)
PhaseKnown ==
  /\ referencePc # "idle" => referenceRun # 0
  /\ referenceRun = 0 => generated = {}
  /\ referencePc \in {"closure", "generate"} => generated = {}
  /\ pairFailed => generated = {} /\ kind = "videoshield"
                   /\ referencePc # "records" /\ referencePc # "closure"

(* A unit that was counted as generated has a score, and, but for the       *)
(* repository's adapter, a score and videos of this run; and a score of     *)
(* this run has been counted.                                               *)
ScoresAreCounted ==
  /\ \A u \in generated :
       /\ referenceBundle[u] # 0
       /\ kind # "adapter" => OfficialReference!Fresh(u)
  /\ referenceRun # 0 =>
       \A u \in ReferenceUnits : referenceBundle[u] = referenceRun => u \in generated

(* The videos of the pairs are of this run before the records are scored.   *)
PairsAreNew ==
  /\ kind = "videomark" => \A g \in referenceWritten : referenceSource[g] = referenceRun
  /\ kind = "videoshield" /\ ~pairFailed =>
       \A g \in pairs : referenceSource[g] = referenceRun
  /\ kind \in {"vidsig", "videoshield"} /\ referencePc = "records" =>
       \A g \in OfficialReference!Needed : referenceSource[g] = referenceRun

(* What was reported, decided and packaged.                                 *)
DecisionKnown ==
  /\ referencePc \in {"decide", "publish"} =>
       (OfficialReference!Passes <=> selected # {} /\ generated = selected)
  /\ referencePc = "publish" => (referenceDecision.value = "PASS" <=> OfficialReference!Passes)
  /\ referencePc # "idle" => referencePackage.run < referenceRun
  /\ OfficialReference!PackageIsOneRun

ReferenceTypes ==
  /\ OfficialReference!TypeOK
  /\ referenceManifest.run \in Nat /\ referenceDecision.run \in Nat
  /\ referencePackage.run \in Nat

ReferenceInv ==
  ReferenceTypes /\ PhaseKnown /\ ScoresAreCounted /\ PairsAreNew /\ DecisionKnown

LEMMA ReferenceStarts == OfficialReference!Init => ReferenceInv
<1> SUFFICES ASSUME OfficialReference!Init PROVE ReferenceInv
  OBVIOUS
<1> USE DEF OfficialReference!Init, OfficialReference!Never
<1>1. ReferenceTypes
  <2>1. /\ referenceSource \in [OfficialReference!Sources -> 0 .. referenceRun]
        /\ attacked \in [ReferenceUnits -> 0 .. referenceRun]
        /\ referenceBundle \in [ReferenceUnits -> 0 .. referenceRun]
    OBVIOUS
  <2>2. /\ referenceManifest.run = 0 /\ referenceDecision.run = 0 /\ referencePackage.run = 0
    BY DEF OfficialReference!NoManifest, OfficialReference!NoDecision,
       OfficialReference!NoPackage
  <2>3. pairFailed \in BOOLEAN OBVIOUS
  <2>4. QED BY <2>1, <2>2, <2>3 DEF ReferenceTypes, OfficialReference!TypeOK
<1>2. PhaseKnown /\ ScoresAreCounted BY DEF PhaseKnown, ScoresAreCounted
<1>3. PairsAreNew BY DEF PairsAreNew
<1>4. DecisionKnown
  BY DEF DecisionKnown, OfficialReference!PackageIsOneRun, OfficialReference!NoPackage
<1>5. QED BY <1>1, <1>2, <1>3, <1>4 DEF ReferenceInv

LEMMA ReferenceTyped ==
  ASSUME ReferenceInv
  PROVE  /\ ReferenceTypes /\ OfficialReference!TypeOK /\ PhaseKnown /\ ScoresAreCounted
         /\ PairsAreNew /\ DecisionKnown
         /\ referenceRun \in 0 .. 2 /\ referenceRun \in Nat
         /\ selected \subseteq ReferenceUnits /\ generated \subseteq selected
         /\ failed \subseteq selected /\ generated \cap failed = {}
         /\ IsFiniteSet(selected) /\ IsFiniteSet(generated) /\ IsFiniteSet(failed)
         /\ referenceSource \in [OfficialReference!Sources -> 0 .. referenceRun]
         /\ attacked \in [ReferenceUnits -> 0 .. referenceRun]
         /\ referenceBundle \in [ReferenceUnits -> 0 .. referenceRun]
         /\ pairs \subseteq {"a", "b"} /\ referenceWritten \subseteq pairs
         /\ OfficialReference!Needed \subseteq {"a", "b"}
         /\ {"a", "b"} \subseteq OfficialReference!Sources
<1>1. /\ ReferenceTypes /\ OfficialReference!TypeOK /\ PhaseKnown /\ ScoresAreCounted
      /\ PairsAreNew /\ DecisionKnown
  BY DEF ReferenceInv, ReferenceTypes
<1>2. /\ referenceRun \in 0 .. 2
      /\ selected \subseteq ReferenceUnits /\ generated \subseteq selected
      /\ failed \subseteq selected /\ generated \cap failed = {}
      /\ referenceSource \in [OfficialReference!Sources -> 0 .. referenceRun]
      /\ attacked \in [ReferenceUnits -> 0 .. referenceRun]
      /\ referenceBundle \in [ReferenceUnits -> 0 .. referenceRun]
      /\ pairs \subseteq {"a", "b"} /\ referenceWritten \subseteq pairs
  BY <1>1 DEF OfficialReference!TypeOK
<1>3. IsFiniteSet(selected) BY <1>2, ReferenceConstants, FS_Subset
<1>4. IsFiniteSet(generated) /\ IsFiniteSet(failed) BY <1>2, <1>3, FS_Subset
<1>5. OfficialReference!Needed \subseteq {"a", "b"}
  BY <1>2, ReferenceConstants DEF OfficialReference!Needed
<1>6. {"a", "b"} \subseteq OfficialReference!Sources BY DEF OfficialReference!Sources
<1>7. QED BY <1>1, <1>2, <1>3, <1>4, <1>5, <1>6

(* A run starts, or is interrupted.                                         *)
LEMMA ReferenceRunSteps ==
  ASSUME ReferenceInv, OfficialReference!Start \/ OfficialReference!Interrupted
                       \/ UNCHANGED OfficialReference!vars
  PROVE  ReferenceInv'
<1>1. /\ ReferenceTypes /\ OfficialReference!TypeOK /\ PhaseKnown /\ ScoresAreCounted
      /\ PairsAreNew /\ DecisionKnown /\ referenceRun \in Nat
      /\ referenceSource \in [OfficialReference!Sources -> 0 .. referenceRun]
      /\ attacked \in [ReferenceUnits -> 0 .. referenceRun]
      /\ referenceBundle \in [ReferenceUnits -> 0 .. referenceRun]
  BY ReferenceTyped
<1> USE DEF OfficialReference!locals, OfficialReference!disk
<1>2. CASE OfficialReference!Start
  <2>1. /\ referencePc = "idle" /\ referenceRun < 2 /\ referenceRun' = referenceRun + 1
        /\ selected' \in SUBSET ReferenceUnits /\ generated' = {} /\ failed' = {}
        /\ pairs' = {} /\ pairFailed' = FALSE /\ referenceWritten' = {}
        /\ referencePc' = "closure"
        /\ UNCHANGED <<kind, referenceSource, attacked, referenceBundle, referenceManifest,
                       referenceDecision, referencePackage>>
    BY <1>2 DEF OfficialReference!Start
  <2>2. /\ referenceSource' \in [OfficialReference!Sources -> 0 .. referenceRun']
        /\ attacked' \in [ReferenceUnits -> 0 .. referenceRun']
        /\ referenceBundle' \in [ReferenceUnits -> 0 .. referenceRun']
        /\ \A u \in ReferenceUnits : referenceBundle'[u] # referenceRun'
    <3>1. 0 .. referenceRun \subseteq 0 .. referenceRun' /\ referenceRun' \notin 0 .. referenceRun
      BY <1>1, <2>1
    <3>2. QED BY <1>1, <2>1, <3>1
  <2>3. pairFailed' \in BOOLEAN BY <2>1
  <2>4. /\ referenceManifest'.run <= referenceRun' /\ referenceDecision'.run <= referenceRun'
        /\ referencePackage'.run <= referenceRun' /\ referenceRun' \in 0 .. 2
        /\ referencePackage'.run < referenceRun' /\ referenceRun' # 0
    BY <1>1, <2>1 DEF ReferenceTypes, OfficialReference!TypeOK
  <2>5. ReferenceTypes'
    BY <1>1, <2>1, <2>2, <2>3, <2>4 DEF ReferenceTypes, OfficialReference!TypeOK
  <2>6. PhaseKnown' /\ ScoresAreCounted'
    BY <2>1, <2>2, <2>4 DEF PhaseKnown, ScoresAreCounted
  <2>7. PairsAreNew' BY <2>1 DEF PairsAreNew
  <2>8. DecisionKnown'
    BY <1>1, <2>1, <2>4 DEF DecisionKnown, OfficialReference!PackageIsOneRun
  <2>9. QED BY <2>5, <2>6, <2>7, <2>8 DEF ReferenceInv
<1>3. CASE OfficialReference!Interrupted \/ UNCHANGED OfficialReference!vars
  <2>1. /\ referencePc' \in {"idle", referencePc}
        /\ UNCHANGED <<kind, referenceRun, selected, generated, failed, pairs, pairFailed,
                       referenceWritten, referenceSource, attacked, referenceBundle,
                       referenceManifest, referenceDecision, referencePackage>>
    BY <1>3 DEF OfficialReference!Interrupted, OfficialReference!vars
  <2>2. ReferenceTypes' BY <1>1, <2>1 DEF ReferenceTypes, OfficialReference!TypeOK
  <2>3. PhaseKnown' /\ ScoresAreCounted'
    BY <1>1, <2>1
    DEF PhaseKnown, ScoresAreCounted, OfficialReference!Fresh, OfficialReference!SourceOf
  <2>4. PairsAreNew'
    BY <1>1, <2>1 DEF PairsAreNew, OfficialReference!Needed
  <2>5. DecisionKnown'
    BY <1>1, <2>1 DEF DecisionKnown, OfficialReference!PackageIsOneRun, OfficialReference!Passes
  <2>6. QED BY <2>2, <2>3, <2>4, <2>5 DEF ReferenceInv
<1>4. QED BY <1>2, <1>3

(* Videos only ever become those of this run.                               *)
VideosStayNew ==
  /\ referenceSource' \in [OfficialReference!Sources -> 0 .. referenceRun]
  /\ \A s \in OfficialReference!Sources :
       referenceSource[s] = referenceRun => referenceSource'[s] = referenceRun

LEMMA OverwriteIsNew ==
  ASSUME ReferenceInv, NEW S, OfficialReference!Overwrite(S)
  PROVE  /\ VideosStayNew
         /\ \A s \in OfficialReference!Sources : s \in S => referenceSource'[s] = referenceRun
<1>1. /\ referenceSource \in [OfficialReference!Sources -> 0 .. referenceRun]
      /\ referenceRun \in 0 .. referenceRun
  BY ReferenceTyped
<1>2. QED BY <1>1 DEF OfficialReference!Overwrite, VideosStayNew

LEMMA KeptIsNew ==
  ASSUME ReferenceInv, referenceSource' = referenceSource
  PROVE  VideosStayNew
BY ReferenceTyped DEF VideosStayNew

(* Before the records: the decision to attempt, and the generation.         *)
LEMMA ReferenceGenerationSteps ==
  ASSUME ReferenceInv, OfficialReference!Attempt \/ OfficialReference!GenerateAll
                       \/ OfficialReference!GenerateAllFails
                       \/ OfficialReference!GeneratePair \/ OfficialReference!PairsDone
  PROVE  ReferenceInv'
<1>1. /\ ReferenceTypes /\ OfficialReference!TypeOK /\ PhaseKnown /\ ScoresAreCounted
      /\ PairsAreNew /\ DecisionKnown /\ pairFailed \in BOOLEAN
      /\ OfficialReference!Needed \subseteq {"a", "b"}
      /\ {"a", "b"} \subseteq OfficialReference!Sources
      /\ pairs \subseteq {"a", "b"} /\ referenceWritten \subseteq pairs
  BY ReferenceTyped DEF OfficialReference!TypeOK
<1> USE DEF OfficialReference!locals, OfficialReference!disk
<1>2. /\ referencePc \in {"closure", "generate"}
      /\ referencePc' \in {"generate", "records", "manifest"}
      /\ UNCHANGED <<kind, referenceRun, selected, generated, referenceWritten, attacked,
                     referenceBundle, referenceManifest, referenceDecision, referencePackage>>
      /\ failed' \in {failed, selected}
  BY DEF OfficialReference!Attempt, OfficialReference!GenerateAll,
     OfficialReference!GenerateAllFails, OfficialReference!GeneratePair,
     OfficialReference!PairsDone
<1>3. generated = {} /\ OfficialReference!Needed' = OfficialReference!Needed
  BY <1>1, <1>2 DEF PhaseKnown, OfficialReference!Needed
<1>4. /\ VideosStayNew /\ pairs \subseteq pairs' /\ pairs' \subseteq {"a", "b"}
      /\ pairFailed' \in BOOLEAN
      /\ pairFailed' => kind = "videoshield" /\ referencePc' # "records"
      /\ PairsAreNew'
  <2>1. CASE OfficialReference!Attempt
    <3>1. /\ UNCHANGED <<referenceSource, pairs, pairFailed>> /\ referencePc = "closure"
          /\ referencePc' = IF kind \in {"vidsig", "videoshield"} THEN "generate" ELSE "records"
      BY <2>1 DEF OfficialReference!Attempt, OfficialReference!NeedsRecords
    <3>2. ~pairFailed BY <1>1, <3>1 DEF PhaseKnown
    <3>3. VideosStayNew BY <3>1, KeptIsNew
    <3>4. PairsAreNew' BY <1>1, <1>2, <3>1, <3>2 DEF PairsAreNew
    <3>5. QED BY <1>1, <3>1, <3>2, <3>3, <3>4
  <2>2. CASE OfficialReference!GenerateAll
    <3>1. /\ kind = "vidsig" /\ OfficialReference!Overwrite(OfficialReference!Needed)
          /\ UNCHANGED <<pairs, pairFailed>> /\ referencePc' = "records"
      BY <2>2 DEF OfficialReference!GenerateAll
    <3>2. /\ VideosStayNew /\ ~pairFailed
          /\ \A g \in OfficialReference!Needed : referenceSource'[g] = referenceRun
      BY <1>1, <3>1, OverwriteIsNew DEF PhaseKnown
    <3>3. PairsAreNew' BY <1>2, <1>3, <3>1, <3>2 DEF PairsAreNew
    <3>4. QED BY <1>1, <3>1, <3>2, <3>3
  <2>3. CASE OfficialReference!GenerateAllFails
    <3>1. /\ kind = "vidsig" /\ UNCHANGED <<pairs, pairFailed>> /\ referencePc' = "manifest"
          /\ \E S \in SUBSET OfficialReference!Needed : OfficialReference!Overwrite(S)
      BY <2>3 DEF OfficialReference!GenerateAllFails
    <3>2. VideosStayNew /\ ~pairFailed BY <1>1, <3>1, OverwriteIsNew DEF PhaseKnown
    <3>3. PairsAreNew' BY <1>2, <3>1 DEF PairsAreNew
    <3>4. QED BY <1>1, <3>1, <3>2, <3>3
  <2>4. CASE OfficialReference!GeneratePair
    <3>1. PICK g \in OfficialReference!Needed \ pairs, good \in BOOLEAN :
            /\ pairs' = pairs \cup {g}
            /\ pairFailed' = (pairFailed \/ ~good)
            /\ \/ OfficialReference!Overwrite({g})
               \/ ~good /\ referenceSource' = referenceSource
      BY <2>4 DEF OfficialReference!GeneratePair
    <3>2. kind = "videoshield" /\ referencePc' = "generate"
      BY <2>4 DEF OfficialReference!GeneratePair
    <3>3. VideosStayNew BY <3>1, OverwriteIsNew, KeptIsNew
    <3>4. ~pairFailed' => /\ ~pairFailed
                          /\ \A h \in pairs' : referenceSource'[h] = referenceRun
      <4>1. CASE good
        <5>1. referenceSource'[g] = referenceRun
          BY <1>1, <3>1, <4>1, OverwriteIsNew
        <5>2. ~pairFailed => \A h \in pairs : referenceSource'[h] = referenceRun
          BY <1>1, <3>2, <3>3 DEF PairsAreNew, VideosStayNew
        <5>3. QED BY <3>1, <4>1, <5>1, <5>2
      <4>2. CASE ~good BY <3>1, <4>2
      <4>3. QED BY <4>1, <4>2
    <3>5. PairsAreNew' BY <1>2, <3>2, <3>4 DEF PairsAreNew
    <3>6. pairFailed' \in BOOLEAN BY <3>1
    <3>7. QED BY <1>1, <3>1, <3>2, <3>3, <3>5, <3>6
  <2>5. CASE OfficialReference!PairsDone
    <3>1. /\ UNCHANGED <<referenceSource, pairs, pairFailed>> /\ kind = "videoshield"
          /\ OfficialReference!Needed \subseteq pairs
          /\ referencePc' = IF ~pairFailed THEN "records" ELSE "manifest"
      BY <2>5 DEF OfficialReference!PairsDone, OfficialReference!PairsGood
    <3>2. VideosStayNew BY <3>1, KeptIsNew
    <3>3. PairsAreNew' BY <1>1, <1>2, <1>3, <3>1 DEF PairsAreNew
    <3>4. QED BY <1>1, <3>1, <3>2, <3>3
  <2>6. QED BY <2>1, <2>2, <2>3, <2>4, <2>5
<1>5. ReferenceTypes'
  <2>1. referenceWritten' \subseteq pairs' BY <1>1, <1>2, <1>4
  <2>2. failed' \subseteq selected' /\ generated' \cap failed' = {}
    BY <1>1, <1>2, <1>3 DEF OfficialReference!TypeOK
  <2>3. QED
    BY <1>1, <1>2, <1>4, <2>1, <2>2
    DEF ReferenceTypes, OfficialReference!TypeOK, VideosStayNew
<1>6. PhaseKnown'
  BY <1>1, <1>2, <1>3, <1>4 DEF PhaseKnown
<1>7. ScoresAreCounted' BY <1>1, <1>2, <1>3 DEF ScoresAreCounted
<1>8. DecisionKnown'
  BY <1>1, <1>2 DEF DecisionKnown, OfficialReference!PackageIsOneRun
<1>9. QED BY <1>4, <1>5, <1>6, <1>7, <1>8 DEF ReferenceInv

(* When the videos of a record are ready they are of this run.              *)
LEMMA ReadyIsNew ==
  ASSUME ReferenceInv, referencePc = "records", NEW u \in selected,
         OfficialReference!SourceReady(u), referencePc' = referencePc,
         UNCHANGED <<kind, referenceRun, selected, pairFailed>>
  PROVE  /\ VideosStayNew /\ PairsAreNew'
         /\ referenceSource'[OfficialReference!SourceOf(u)] = referenceRun
         /\ pairs' \subseteq {"a", "b"} /\ referenceWritten' \subseteq pairs'
<1>1. /\ PairsAreNew /\ u \in ReferenceUnits
      /\ MCGroup[u] \in {"a", "b"} /\ MCGroup[u] \in OfficialReference!Sources
      /\ u \in OfficialReference!Sources
      /\ {"a", "b"} \subseteq OfficialReference!Sources
      /\ pairs \subseteq {"a", "b"} /\ referenceWritten \subseteq pairs
      /\ OfficialReference!Needed \subseteq {"a", "b"}
      /\ OfficialReference!Needed' = OfficialReference!Needed
  BY ReferenceTyped, ReferenceConstants DEF OfficialReference!Needed
<1>2. CASE OfficialReference!PairReady(u)
  <2>1. /\ kind = "videomark" /\ pairs' = pairs \cup {MCGroup[u]}
        /\ referenceWritten' = referenceWritten \cup {MCGroup[u]}
        /\ OfficialReference!Overwrite({MCGroup[u]} \ referenceWritten)
    BY <1>2 DEF OfficialReference!PairReady
  <2>2. OfficialReference!SourceOf(u) = MCGroup[u] BY <2>1 DEF OfficialReference!SourceOf
  <2>3. /\ VideosStayNew
        /\ \A s \in OfficialReference!Sources :
             s \in {MCGroup[u]} \ referenceWritten => referenceSource'[s] = referenceRun
    BY <2>1, OverwriteIsNew
  <2>4. \A g \in referenceWritten' : referenceSource'[g] = referenceRun
    BY <1>1, <2>1, <2>3 DEF PairsAreNew, VideosStayNew
  <2>5. PairsAreNew' BY <2>1, <2>4 DEF PairsAreNew
  <2>6. QED BY <1>1, <2>1, <2>2, <2>3, <2>4, <2>5
<1>3. CASE OfficialReference!OwnReady(u)
  <2>1. /\ kind \in {"posthoc", "adapter"} /\ OfficialReference!Overwrite({u})
        /\ UNCHANGED <<pairs, referenceWritten>>
    BY <1>3 DEF OfficialReference!OwnReady
  <2>2. OfficialReference!SourceOf(u) = u BY <2>1 DEF OfficialReference!SourceOf
  <2>3. VideosStayNew /\ referenceSource'[u] = referenceRun
    BY <1>1, <2>1, OverwriteIsNew
  <2>4. PairsAreNew' BY <2>1 DEF PairsAreNew
  <2>5. QED BY <1>1, <2>1, <2>2, <2>3, <2>4
<1>4. CASE OfficialReference!PoolReady(u)
  <2>1. /\ kind \in {"vidsig", "videoshield"}
        /\ UNCHANGED <<referenceSource, pairs, referenceWritten>>
    BY <1>4 DEF OfficialReference!PoolReady, OfficialReference!NeedsRecords
  <2>2. /\ OfficialReference!SourceOf(u) = MCGroup[u]
        /\ MCGroup[u] \in OfficialReference!Needed
    BY <2>1 DEF OfficialReference!SourceOf, OfficialReference!Needed
  <2>3. referenceSource[MCGroup[u]] = referenceRun BY <1>1, <2>1, <2>2 DEF PairsAreNew
  <2>4. VideosStayNew BY <2>1, KeptIsNew
  <2>5. PairsAreNew' BY <1>1, <2>1 DEF PairsAreNew
  <2>6. QED BY <1>1, <2>1, <2>2, <2>3, <2>4, <2>5
<1>5. QED BY <1>2, <1>3, <1>4 DEF OfficialReference!SourceReady

(* A record is counted: what earlier ones were counted for stays.           *)
LEMMA CountedStaysNew ==
  ASSUME ReferenceInv, VideosStayNew, NEW u \in selected, UNCHANGED <<kind, referenceRun>>,
         attacked' = attacked \/ OfficialReference!PutAttacked(u),
         referenceBundle' = referenceBundle \/ OfficialReference!PutScore(u)
  PROVE  /\ attacked' \in [ReferenceUnits -> 0 .. referenceRun]
         /\ referenceBundle' \in [ReferenceUnits -> 0 .. referenceRun]
         /\ \A v \in generated :
              /\ referenceRun # 0 => referenceBundle'[v] # 0
              /\ kind # "adapter" => OfficialReference!Fresh(v)'
<1>1. /\ u \in ReferenceUnits /\ generated \subseteq ReferenceUnits /\ ScoresAreCounted
      /\ attacked \in [ReferenceUnits -> 0 .. referenceRun]
      /\ referenceBundle \in [ReferenceUnits -> 0 .. referenceRun]
      /\ referenceRun \in 0 .. referenceRun
  BY ReferenceTyped
<1>2. /\ attacked' \in [ReferenceUnits -> 0 .. referenceRun]
      /\ \A v \in ReferenceUnits :
           attacked[v] = referenceRun => attacked'[v] = referenceRun
  BY <1>1 DEF OfficialReference!PutAttacked
<1>3. /\ referenceBundle' \in [ReferenceUnits -> 0 .. referenceRun]
      /\ \A v \in ReferenceUnits : referenceBundle'[v] \in {referenceBundle[v], referenceRun}
  BY <1>1 DEF OfficialReference!PutScore
<1>4. ASSUME NEW v \in generated
      PROVE  /\ referenceRun # 0 => referenceBundle'[v] # 0
             /\ kind # "adapter" => OfficialReference!Fresh(v)'
  <2>1. v \in ReferenceUnits /\ referenceBundle[v] # 0
        /\ (kind # "adapter" => OfficialReference!Fresh(v))
    BY <1>1, <1>4 DEF ScoresAreCounted
  <2>2. /\ OfficialReference!SourceOf(v) \in OfficialReference!Sources
        /\ OfficialReference!SourceOf(v)' = OfficialReference!SourceOf(v)
    BY <2>1, ReferenceConstants DEF OfficialReference!SourceOf
  <2>3. kind # "adapter" => OfficialReference!Fresh(v)'
    BY <1>2, <1>3, <2>1, <2>2 DEF OfficialReference!Fresh, VideosStayNew
  <2>4. QED BY <1>3, <2>1, <2>3
<1>5. QED BY <1>2, <1>3, <1>4

LEMMA ReferenceRecordSteps ==
  ASSUME ReferenceInv, OfficialReference!ScoreRecord \/ OfficialReference!FailRecord
                       \/ OfficialReference!KeepRecord
  PROVE  ReferenceInv'
<1>1. /\ ReferenceTypes /\ OfficialReference!TypeOK /\ PhaseKnown /\ ScoresAreCounted
      /\ PairsAreNew /\ DecisionKnown /\ selected \subseteq ReferenceUnits
      /\ generated \subseteq selected
      /\ pairs \subseteq {"a", "b"} /\ referenceWritten \subseteq pairs
      /\ {"a", "b"} \subseteq OfficialReference!Sources
      /\ attacked \in [ReferenceUnits -> 0 .. referenceRun]
      /\ referenceBundle \in [ReferenceUnits -> 0 .. referenceRun]
  BY ReferenceTyped
<1>2. /\ referencePc = "records" /\ referencePc' = referencePc /\ referenceRun # 0
      /\ UNCHANGED <<kind, referenceRun, selected, pairFailed, referenceManifest,
                     referenceDecision, referencePackage>>
  BY <1>1
  DEF OfficialReference!ScoreRecord, OfficialReference!FailRecord,
      OfficialReference!KeepRecord, OfficialReference!disk, PhaseKnown
<1>3. ASSUME NEW u \in OfficialReference!Todo, VideosStayNew, PairsAreNew',
             pairs' \subseteq {"a", "b"}, referenceWritten' \subseteq pairs',
             attacked' = attacked \/ OfficialReference!PutAttacked(u),
             \/ /\ OfficialReference!CountGenerated(u)
                /\ referenceBundle'[u] # 0
                /\ kind # "adapter" => OfficialReference!Fresh(u)'
             \/ OfficialReference!CountFailed(u) /\ referenceBundle' = referenceBundle,
             referenceBundle' = referenceBundle \/ OfficialReference!PutScore(u)
      PROVE  ReferenceInv'
  <2>1. /\ u \in selected /\ u \notin generated /\ u \notin failed
    BY <1>3 DEF OfficialReference!Todo
  <2>2. /\ attacked' \in [ReferenceUnits -> 0 .. referenceRun]
        /\ referenceBundle' \in [ReferenceUnits -> 0 .. referenceRun]
        /\ \A v \in generated :
              /\ referenceBundle'[v] # 0
              /\ kind # "adapter" => OfficialReference!Fresh(v)'
    BY <1>2, <1>3, <2>1, CountedStaysNew
  <2>3. /\ generated' \in {generated, generated \cup {u}}
        /\ failed' \subseteq selected /\ generated' \subseteq selected
        /\ generated' \cap failed' = {}
    BY <1>1, <1>3, <2>1
    DEF OfficialReference!CountGenerated, OfficialReference!CountFailed,
        OfficialReference!TypeOK
  <2>4. \A v \in generated' : /\ referenceBundle'[v] # 0
                              /\ kind # "adapter" => OfficialReference!Fresh(v)'
    BY <1>3, <2>2
    DEF OfficialReference!CountGenerated, OfficialReference!CountFailed
  <2>5. \A v \in ReferenceUnits : referenceBundle'[v] = referenceRun => v \in generated'
    <3>1. \A v \in ReferenceUnits : v # u => referenceBundle'[v] = referenceBundle[v]
      BY <1>1, <1>3 DEF OfficialReference!PutScore
    <3>2. \A v \in ReferenceUnits : referenceBundle[v] = referenceRun => v \in generated
      BY <1>1, <1>2 DEF ScoresAreCounted
    <3>3. QED
      BY <1>3, <2>1, <2>3, <3>1, <3>2
      DEF OfficialReference!CountGenerated, OfficialReference!CountFailed
  <2>6. ReferenceTypes'
    BY <1>1, <1>2, <1>3, <2>2, <2>3 DEF ReferenceTypes, OfficialReference!TypeOK, VideosStayNew
  <2>7. PhaseKnown' BY <1>1, <1>2 DEF PhaseKnown
  <2>8. ScoresAreCounted' BY <1>2, <2>4, <2>5 DEF ScoresAreCounted
  <2>9. DecisionKnown'
    BY <1>1, <1>2 DEF DecisionKnown, OfficialReference!PackageIsOneRun
  <2>10. QED BY <1>3, <2>6, <2>7, <2>8, <2>9 DEF ReferenceInv
<1>4. CASE OfficialReference!ScoreRecord
  <2>1. PICK u \in OfficialReference!Todo :
          /\ OfficialReference!SourceReady(u) /\ OfficialReference!PutAttacked(u)
          /\ OfficialReference!PutScore(u) /\ OfficialReference!CountGenerated(u)
    BY <1>4 DEF OfficialReference!ScoreRecord
  <2>2. u \in selected /\ u \in ReferenceUnits BY <1>1, <2>1 DEF OfficialReference!Todo
  <2>3. /\ VideosStayNew /\ PairsAreNew'
        /\ referenceSource'[OfficialReference!SourceOf(u)] = referenceRun
        /\ pairs' \subseteq {"a", "b"} /\ referenceWritten' \subseteq pairs'
    BY <1>2, <2>1, <2>2, ReadyIsNew
  <2>4. referenceBundle'[u] = referenceRun /\ attacked'[u] = referenceRun
    BY <1>1, <2>1, <2>2 DEF OfficialReference!PutScore, OfficialReference!PutAttacked
  <2>5. OfficialReference!SourceOf(u)' = OfficialReference!SourceOf(u)
    BY <1>2 DEF OfficialReference!SourceOf
  <2>6. OfficialReference!Fresh(u)' BY <1>2, <2>3, <2>4, <2>5 DEF OfficialReference!Fresh
  <2>7. QED BY <1>2, <1>3, <2>1, <2>3, <2>4, <2>6
<1>5. CASE OfficialReference!FailRecord
  <2>1. PICK u \in OfficialReference!Todo :
          /\ OfficialReference!CountFailed(u)
          /\ \/ /\ OfficialReference!SourceReady(u)
                /\ OfficialReference!PutAttacked(u) \/ attacked' = attacked
             \/ attacked' = attacked /\ UNCHANGED <<referenceSource, pairs, referenceWritten>>
             \/ /\ kind = "videomark" /\ attacked' = attacked
                /\ pairs' = pairs \cup {MCGroup[u]} /\ referenceWritten' = referenceWritten
                /\ \/ referenceSource' = referenceSource
                   \/ OfficialReference!Overwrite({MCGroup[u]} \ referenceWritten)
    BY <1>5 DEF OfficialReference!FailRecord
  <2>2. referenceBundle' = referenceBundle BY <1>5 DEF OfficialReference!FailRecord
  <2>3. /\ u \in selected /\ u \in ReferenceUnits /\ MCGroup[u] \in {"a", "b"}
        /\ OfficialReference!Needed' = OfficialReference!Needed
        /\ OfficialReference!Needed \subseteq OfficialReference!Sources
    BY <1>1, <1>2, <2>1, ReferenceConstants, ReferenceTyped
    DEF OfficialReference!Todo, OfficialReference!Needed
  <2>4. /\ VideosStayNew /\ PairsAreNew'
        /\ pairs' \subseteq {"a", "b"} /\ referenceWritten' \subseteq pairs'
        /\ attacked' = attacked \/ OfficialReference!PutAttacked(u)
    <3>1. CASE OfficialReference!SourceReady(u) /\
               (OfficialReference!PutAttacked(u) \/ attacked' = attacked)
      BY <1>2, <2>3, <3>1, ReadyIsNew
    <3>2. CASE attacked' = attacked /\ UNCHANGED <<referenceSource, pairs, referenceWritten>>
      <4>1. VideosStayNew BY <3>2, KeptIsNew
      <4>2. PairsAreNew' BY <1>1, <1>2, <2>3, <3>2 DEF PairsAreNew
      <4>3. QED BY <1>1, <3>2, <4>1, <4>2
    <3>3. CASE /\ kind = "videomark" /\ attacked' = attacked
               /\ pairs' = pairs \cup {MCGroup[u]} /\ referenceWritten' = referenceWritten
               /\ \/ referenceSource' = referenceSource
                  \/ OfficialReference!Overwrite({MCGroup[u]} \ referenceWritten)
      <4>1. VideosStayNew BY <3>3, KeptIsNew, OverwriteIsNew
      <4>2. \A g \in referenceWritten' : referenceSource'[g] = referenceRun
        BY <1>1, <3>3, <4>1 DEF PairsAreNew, VideosStayNew
      <4>3. PairsAreNew' BY <1>2, <3>3, <4>2 DEF PairsAreNew
      <4>4. QED BY <1>1, <2>3, <3>3, <4>1, <4>3
    <3>4. QED BY <2>1, <3>1, <3>2, <3>3
  <2>5. QED BY <1>3, <2>1, <2>2, <2>4
<1>6. CASE OfficialReference!KeepRecord
  <2>1. PICK u \in OfficialReference!Todo :
          referenceBundle[u] # 0 /\ OfficialReference!CountGenerated(u)
    BY <1>6 DEF OfficialReference!KeepRecord, OfficialReference!Never
  <2>2. /\ kind = "adapter"
        /\ UNCHANGED <<pairs, referenceWritten, referenceSource, attacked, referenceBundle>>
    BY <1>6 DEF OfficialReference!KeepRecord, OfficialReference!disk
  <2>3. VideosStayNew BY <2>2, KeptIsNew
  <2>4. PairsAreNew' BY <1>2, <2>2 DEF PairsAreNew
  <2>5. QED BY <1>1, <1>3, <2>1, <2>2, <2>3, <2>4
<1>7. QED BY <1>4, <1>5, <1>6

(* The counts of the report tell whether every selected unit has a score.   *)
LEMMA AllGenerated ==
  ASSUME ReferenceInv, referencePc \in {"manifest", "records"},
         NEW m, m.generated = Cardinality(generated),
         m.failed = OfficialReference!FailedCount
  PROVE  (selected # {} /\ m.generated = Cardinality(selected) /\ m.failed = 0) <=>
         (selected # {} /\ generated = selected)
<1>1. /\ generated \subseteq selected /\ failed \subseteq selected /\ generated \cap failed = {}
      /\ IsFiniteSet(selected) /\ IsFiniteSet(generated) /\ IsFiniteSet(failed)
      /\ PhaseKnown
  BY ReferenceTyped
<1>2. Cardinality(generated) = Cardinality(selected) => generated = selected
  BY <1>1, FS_Subset
<1>3. generated = selected /\ selected # {} => m.failed = 0
  <2> SUFFICES ASSUME generated = selected, selected # {} PROVE m.failed = 0
    OBVIOUS
  <2>1. ~pairFailed BY <1>1 DEF PhaseKnown
  <2>2. failed = {} BY <1>1
  <2>3. Cardinality({}) = 0 BY FS_EmptySet
  <2>4. QED BY <2>1, <2>2, <2>3, ReferenceSets DEF OfficialReference!FailedCount
<1>4. QED BY <1>2, <1>3

(* The report, the decision and the package.                                *)
LEMMA ReferenceReportSteps ==
  ASSUME ReferenceInv, OfficialReference!Blocked \/ OfficialReference!Skipped
                       \/ OfficialReference!RecordsDone \/ OfficialReference!WriteManifest
                       \/ OfficialReference!Decide
                       \/ OfficialReference!Publish \/ OfficialReference!PublishRefused
  PROVE  ReferenceInv'
<1>1. /\ ReferenceTypes /\ OfficialReference!TypeOK /\ PhaseKnown /\ ScoresAreCounted
      /\ PairsAreNew /\ DecisionKnown /\ referenceRun \in Nat
      /\ IsFiniteSet(selected)
  BY ReferenceTyped
<1> USE DEF OfficialReference!locals, OfficialReference!disk
<1>2. /\ referencePc \in {"closure", "records", "manifest", "decide", "publish"}
      /\ referencePc' \in {"manifest", "decide", "publish", "idle"}
      /\ UNCHANGED <<kind, referenceRun, selected, generated, failed, pairs, pairFailed,
                     referenceWritten, referenceSource, attacked, referenceBundle>>
  BY DEF OfficialReference!Blocked, OfficialReference!Skipped, OfficialReference!RecordsDone,
     OfficialReference!WriteManifest, OfficialReference!Decide, OfficialReference!Publish,
     OfficialReference!PublishRefused
<1>3. PhaseKnown' /\ ScoresAreCounted' /\ PairsAreNew'
  <2>1. PhaseKnown' BY <1>1, <1>2 DEF PhaseKnown
  <2>2. ScoresAreCounted'
    BY <1>1, <1>2 DEF ScoresAreCounted, OfficialReference!Fresh, OfficialReference!SourceOf
  <2>3. PairsAreNew' BY <1>1, <1>2 DEF PairsAreNew
  <2>4. QED BY <2>1, <2>2, <2>3
<1>4. CASE OfficialReference!Blocked \/ OfficialReference!Skipped
           \/ OfficialReference!WriteManifest
  <2>1. /\ referencePc' = "decide" /\ referencePc # "idle"
        /\ UNCHANGED <<referenceDecision, referencePackage>>
    BY <1>4
    DEF OfficialReference!Blocked, OfficialReference!Skipped, OfficialReference!WriteManifest
  <2>2. PICK g, f : referenceManifest' = [run |-> referenceRun, generated |-> g, failed |-> f]
    BY <1>4
    DEF OfficialReference!Blocked, OfficialReference!Skipped,
        OfficialReference!WriteManifest, OfficialReference!Report
  <2>3. referenceManifest'.run = referenceRun BY <2>2
  <2>4. OfficialReference!Passes' <=> selected # {} /\ generated = selected
    <3>1. CASE OfficialReference!Blocked \/ OfficialReference!Skipped
      <4>1. referenceManifest'.generated = 0 /\ referencePc = "closure"
        BY <3>1 DEF OfficialReference!Blocked, OfficialReference!Skipped,
                    OfficialReference!Report
      <4>2. selected # {} => Cardinality(selected) # 0 BY <1>1, FS_EmptySet
      <4>3. generated = {} BY <1>1, <4>1 DEF PhaseKnown
      <4>4. QED BY <1>2, <4>1, <4>2, <4>3, ReferenceSets DEF OfficialReference!Passes
    <3>2. CASE OfficialReference!WriteManifest
      <4>1. /\ referencePc = "manifest"
            /\ referenceManifest'.generated = Cardinality(generated)
            /\ referenceManifest'.failed = OfficialReference!FailedCount
        BY <3>2, ReferenceSets DEF OfficialReference!WriteManifest, OfficialReference!Report
      <4>2. (selected # {} /\ referenceManifest'.generated = Cardinality(selected)
             /\ referenceManifest'.failed = 0) <=> (selected # {} /\ generated = selected)
        BY <4>1, AllGenerated
      <4>3. QED BY <1>2, <4>2, ReferenceSets DEF OfficialReference!Passes
    <3>3. QED BY <1>4, <3>1, <3>2
  <2>5. ReferenceTypes'
    BY <1>1, <1>2, <2>1, <2>3 DEF ReferenceTypes, OfficialReference!TypeOK
  <2>6. DecisionKnown'
    BY <1>1, <1>2, <2>1, <2>4 DEF DecisionKnown, OfficialReference!PackageIsOneRun
  <2>7. QED BY <1>3, <2>5, <2>6 DEF ReferenceInv
<1>5. CASE OfficialReference!RecordsDone \/ OfficialReference!PublishRefused
  <2>1. /\ referencePc' \in {"manifest", "idle"} /\ referencePc # "idle"
        /\ UNCHANGED <<referenceManifest, referenceDecision, referencePackage>>
    BY <1>5 DEF OfficialReference!RecordsDone, OfficialReference!PublishRefused
  <2>2. ReferenceTypes' BY <1>1, <1>2, <2>1 DEF ReferenceTypes, OfficialReference!TypeOK
  <2>3. DecisionKnown'
    BY <1>1, <1>2, <2>1 DEF DecisionKnown, OfficialReference!PackageIsOneRun
  <2>4. QED BY <1>3, <2>2, <2>3 DEF ReferenceInv
<1>6. CASE OfficialReference!Decide
  <2>1. /\ referencePc = "decide" /\ referencePc' = "publish"
        /\ referenceDecision' = [run |-> referenceRun,
                                 value |-> IF OfficialReference!Passes THEN "PASS" ELSE "FAIL"]
        /\ UNCHANGED <<referenceManifest, referencePackage>>
    BY <1>6 DEF OfficialReference!Decide
  <2>2. /\ referenceDecision'.run = referenceRun
        /\ referenceDecision'.value = "PASS" <=> OfficialReference!Passes
    BY <2>1
  <2>3. OfficialReference!Passes' = OfficialReference!Passes
    BY <1>2, <2>1 DEF OfficialReference!Passes
  <2>4. ReferenceTypes' BY <1>1, <1>2, <2>1, <2>2 DEF ReferenceTypes, OfficialReference!TypeOK
  <2>5. DecisionKnown'
    BY <1>1, <1>2, <2>1, <2>2, <2>3 DEF DecisionKnown, OfficialReference!PackageIsOneRun
  <2>6. QED BY <1>3, <2>4, <2>5 DEF ReferenceInv
<1>7. CASE OfficialReference!Publish
  <2>1. /\ referencePc = "publish" /\ referencePc' = "idle" /\ referenceDecision.value = "PASS"
        /\ referencePackage' = [run |-> referenceRun, units |-> selected,
                                bundle |-> referenceBundle, attacked |-> attacked]
        /\ UNCHANGED <<referenceManifest, referenceDecision>>
    BY <1>7 DEF OfficialReference!Publish, OfficialReference!Publishable
  <2>2. /\ referencePackage'.run = referenceRun /\ referencePackage'.units = selected
        /\ referencePackage'.bundle = referenceBundle
        /\ referencePackage'.attacked = attacked
    BY <2>1
  <2>3. selected # {} /\ generated = selected BY <1>1, <2>1 DEF DecisionKnown
  <2>4. kind # "adapter" => \A u \in selected : /\ referenceBundle[u] = referenceRun
                                                /\ attacked[u] = referenceRun
    BY <1>1, <2>3 DEF ScoresAreCounted, OfficialReference!Fresh
  <2>5. ReferenceTypes' BY <1>1, <1>2, <2>1, <2>2 DEF ReferenceTypes, OfficialReference!TypeOK
  <2>6. DecisionKnown'
    BY <1>2, <2>1, <2>2, <2>4 DEF DecisionKnown, OfficialReference!PackageIsOneRun
  <2>7. QED BY <1>3, <2>5, <2>6 DEF ReferenceInv
<1>8. QED BY <1>4, <1>5, <1>6, <1>7

LEMMA NextReferenceInv ==
  ReferenceInv /\ [OfficialReference!Next]_(OfficialReference!vars) => ReferenceInv'
BY ReferenceRunSteps, ReferenceGenerationSteps, ReferenceRecordSteps, ReferenceReportSteps
DEF OfficialReference!Next

LEMMA ReferenceIsAsPromised ==
  ASSUME ReferenceInv
  PROVE  /\ OfficialReference!TypeOK /\ OfficialReference!DecisionIsExact
         /\ OfficialReference!PackageIsOneRun
<1>1. /\ OfficialReference!TypeOK /\ PhaseKnown /\ ScoresAreCounted /\ DecisionKnown
      /\ selected \subseteq ReferenceUnits /\ generated \subseteq selected
  BY ReferenceTyped
<1>2. ASSUME referencePc = "publish", kind # "adapter"
      PROVE  referenceDecision.value = "PASS" <=>
               (selected # {} /\ \A u \in selected : OfficialReference!Fresh(u))
  <2>1. referenceDecision.value = "PASS" <=> selected # {} /\ generated = selected
    BY <1>1, <1>2 DEF DecisionKnown
  <2>2. \A u \in generated : OfficialReference!Fresh(u)
    BY <1>1, <1>2 DEF ScoresAreCounted
  <2>3. \A u \in selected : OfficialReference!Fresh(u) => u \in generated
    BY <1>1, <1>2 DEF ScoresAreCounted, PhaseKnown, OfficialReference!Fresh
  <2>4. QED BY <1>1, <2>1, <2>2, <2>3
<1>3. QED BY <1>1, <1>2 DEF OfficialReference!DecisionIsExact, DecisionKnown

LEMMA PackageIsReplaced ==
  ASSUME ReferenceInv, [OfficialReference!Next]_(OfficialReference!vars),
         referencePackage' # referencePackage
  PROVE  /\ referencePackage'.run > referencePackage.run /\ referencePackage'.units # {}
         /\ \A u \in referencePackage'.units : referencePackage'.bundle[u] # 0
<1>1. OfficialReference!Publish
  BY DEF OfficialReference!Next, OfficialReference!vars, OfficialReference!Start,
     OfficialReference!Blocked, OfficialReference!Skipped, OfficialReference!Attempt,
     OfficialReference!GenerateAll, OfficialReference!GenerateAllFails,
     OfficialReference!GeneratePair, OfficialReference!PairsDone,
     OfficialReference!ScoreRecord, OfficialReference!FailRecord,
     OfficialReference!KeepRecord, OfficialReference!RecordsDone,
     OfficialReference!WriteManifest, OfficialReference!Decide,
     OfficialReference!PublishRefused, OfficialReference!Interrupted
<1>2. /\ referencePc = "publish" /\ referenceDecision.value = "PASS"
      /\ referencePackage' = [run |-> referenceRun, units |-> selected,
                              bundle |-> referenceBundle, attacked |-> attacked]
  BY <1>1 DEF OfficialReference!Publish, OfficialReference!Publishable
<1>3. ScoresAreCounted /\ DecisionKnown /\ ReferenceTypes /\ referenceRun \in Nat
  BY ReferenceTyped
<1>4. /\ referencePackage'.run = referenceRun /\ referencePackage'.units = selected
      /\ referencePackage'.bundle = referenceBundle
  BY <1>2
<1>5. selected # {} /\ generated = selected /\ referencePackage.run < referenceRun
  BY <1>2, <1>3 DEF DecisionKnown
<1>6. QED BY <1>3, <1>4, <1>5 DEF ScoresAreCounted, ReferenceTypes
LEMMA OfficialReferenceProjects == [SomeStep]_allVars => [OfficialReference!Next]_(OfficialReference!vars)
<1> SUFFICES ASSUME [SomeStep]_allVars PROVE [OfficialReference!Next]_(OfficialReference!vars)
  OBVIOUS
<1> USE DEF referenceVars, OfficialReference!vars, OfficialReference!locals, OfficialReference!disk
<1>1. CASE OfficialReferenceStep BY <1>1 DEF OfficialReferenceStep
<1>2. CASE Rest /\ program # "reference"
  BY <1>2 DEF Rest
<1>3. CASE UNCHANGED allVars BY <1>3 DEF allVars
<1>4. QED
  BY <1>1, <1>2, <1>3
  DEF SomeStep, ProbeStep, RuntimeStep, PreflightStep, ScoringStep,
      PromotionStep, SetupStep, FramesStep, AtomStep, ServerStep,
      CommandsStep, ProvenanceStep

-----------------------------------------------------------------------------
(* The server workflow.                                                     *)

ServerUnits == {"gen", "base1", "cmp", "gate"}

(* What may be left of a pipeline.                                          *)
Queues == {<<"gen", "base1", "cmp", "gate">>, <<"base1", "cmp", "gate">>, <<"cmp", "gate">>,
           <<"gate">>, <<"base1">>, <<"cmp">>, <<>>}

LEMMA ServerConstants ==
  /\ ServerRuns \in Nat /\ Server!Units = ServerUnits
  /\ DOMAIN MCPipelines = {"complete", "references", "comparison"}
  /\ MCPipelines.complete = <<"gen", "base1", "cmp", "gate">>
  /\ MCPipelines.references = <<"base1">> /\ MCPipelines.comparison = <<"cmp">>
BY InstancesAssumption
DEF Server!ServerBoundsAssumption, Server!Units, MCStagePlan, MCPipelines, ServerUnits

LEMMA TailIs ==
  ASSUME NEW S, NEW s \in Seq(S), NEW t \in Seq(S), Len(s) = Len(t) + 1,
         \A i \in 1 .. Len(t) : s[i + 1] = t[i]
  PROVE  Tail(s) = t
<1>1. Tail(s) \in Seq(S) /\ Len(Tail(s)) = Len(t) OBVIOUS
<1>2. \A i \in 1 .. Len(t) : Tail(s)[i] = t[i] OBVIOUS
<1>3. QED BY <1>1, <1>2, SameSequence

(* The next unit is a unit of its own: it does not come again, and neither  *)
(* what is left nor the gate is among the packages it requires.             *)
QueueFacts(q) ==
  /\ q \in Seq(ServerUnits)
  /\ q # <<>> =>
       /\ Head(q) \in ServerUnits /\ Tail(q) \in Queues
       /\ Server!Range(q) = {Head(q)} \cup Server!Range(Tail(q))
       /\ Head(q) \notin Server!Range(Tail(q))
       /\ MCRequires[Head(q)] \in Seq(ServerUnits)
       /\ \A i \in 1 .. Len(MCRequires[Head(q)]) :
            /\ MCRequires[Head(q)][i] \notin Server!Range(q)
            /\ MCRequires[Head(q)][i] # "gate"

LEMMA RangeIs ==
  ASSUME NEW s
  PROVE  /\ DOMAIN s = 1 .. 0 => Server!Range(s) = {}
         /\ DOMAIN s = 1 .. 1 => Server!Range(s) = {s[1]}
         /\ DOMAIN s = 1 .. 2 => Server!Range(s) = {s[1], s[2]}
         /\ DOMAIN s = 1 .. 3 => Server!Range(s) = {s[1], s[2], s[3]}
         /\ DOMAIN s = 1 .. 4 => Server!Range(s) = {s[1], s[2], s[3], s[4]}
<1>1. /\ 1 .. 0 = {} /\ 1 .. 1 = {1} /\ 1 .. 2 = {1, 2} /\ 1 .. 3 = {1, 2, 3}
      /\ 1 .. 4 = {1, 2, 3, 4}
  OBVIOUS
<1>2. QED BY <1>1 DEF Server!Range

LEMMA QueueRanges ==
  /\ Server!Range(<<"gen", "base1", "cmp", "gate">>) = {"gen", "base1", "cmp", "gate"}
  /\ Server!Range(<<"base1", "cmp", "gate">>) = {"base1", "cmp", "gate"}
  /\ Server!Range(<<"cmp", "gate">>) = {"cmp", "gate"}
  /\ Server!Range(<<"gate">>) = {"gate"}
  /\ Server!Range(<<"base1">>) = {"base1"}
  /\ Server!Range(<<"cmp">>) = {"cmp"}
  /\ Server!Range(<<>>) = {}
<1>1. Server!Range(<<"gen", "base1", "cmp", "gate">>) = {"gen", "base1", "cmp", "gate"}
  <2> DEFINE s == <<"gen", "base1", "cmp", "gate">>
  <2>1. DOMAIN s = 1 .. 4 /\ s[1] = "gen" /\ s[2] = "base1" /\ s[3] = "cmp" /\ s[4] = "gate" OBVIOUS
  <2> HIDE DEF s
  <2>2. Server!Range(s) = {"gen", "base1", "cmp", "gate"} BY <2>1, RangeIs
  <2>3. QED BY <2>2 DEF s
<1>2. Server!Range(<<"base1", "cmp", "gate">>) = {"base1", "cmp", "gate"}
  <2> DEFINE s == <<"base1", "cmp", "gate">>
  <2>1. DOMAIN s = 1 .. 3 /\ s[1] = "base1" /\ s[2] = "cmp" /\ s[3] = "gate" OBVIOUS
  <2> HIDE DEF s
  <2>2. Server!Range(s) = {"base1", "cmp", "gate"} BY <2>1, RangeIs
  <2>3. QED BY <2>2 DEF s
<1>3. Server!Range(<<"cmp", "gate">>) = {"cmp", "gate"}
  <2> DEFINE s == <<"cmp", "gate">>
  <2>1. DOMAIN s = 1 .. 2 /\ s[1] = "cmp" /\ s[2] = "gate" OBVIOUS
  <2> HIDE DEF s
  <2>2. Server!Range(s) = {"cmp", "gate"} BY <2>1, RangeIs
  <2>3. QED BY <2>2 DEF s
<1>4. Server!Range(<<"gate">>) = {"gate"}
  <2> DEFINE s == <<"gate">>
  <2>1. DOMAIN s = 1 .. 1 /\ s[1] = "gate" OBVIOUS
  <2> HIDE DEF s
  <2>2. Server!Range(s) = {"gate"} BY <2>1, RangeIs
  <2>3. QED BY <2>2 DEF s
<1>5. Server!Range(<<"base1">>) = {"base1"}
  <2> DEFINE s == <<"base1">>
  <2>1. DOMAIN s = 1 .. 1 /\ s[1] = "base1" OBVIOUS
  <2> HIDE DEF s
  <2>2. Server!Range(s) = {"base1"} BY <2>1, RangeIs
  <2>3. QED BY <2>2 DEF s
<1>6. Server!Range(<<"cmp">>) = {"cmp"}
  <2> DEFINE s == <<"cmp">>
  <2>1. DOMAIN s = 1 .. 1 /\ s[1] = "cmp" OBVIOUS
  <2> HIDE DEF s
  <2>2. Server!Range(s) = {"cmp"} BY <2>1, RangeIs
  <2>3. QED BY <2>2 DEF s
<1>7. Server!Range(<<>>) = {}
  <2> DEFINE s == <<>>
  <2>1. DOMAIN s = 1 .. 0 OBVIOUS
  <2> HIDE DEF s
  <2>2. Server!Range(s) = {} BY <2>1, RangeIs
  <2>3. QED BY <2>2 DEF s
<1>8. QED BY <1>1, <1>2, <1>3, <1>4, <1>5, <1>6, <1>7

LEMMA RequiredPackages ==
  /\ MCRequires["gen"] = <<>> /\ MCRequires["base1"] = <<"gen">>
  /\ MCRequires["cmp"] = <<"gen", "base1">> /\ MCRequires["gate"] = <<"gen", "cmp">>
BY DEF MCRequires

LEMMA QueuesKnown == \A q \in Queues : QueueFacts(q)
<1>1. QueueFacts(<<"gen", "base1", "cmp", "gate">>)
  <2> DEFINE s == <<"gen", "base1", "cmp", "gate">>
             t == <<"base1", "cmp", "gate">>
             r == <<>>
  <2>1. /\ s \in Seq(ServerUnits) /\ Len(s) = 4 /\ s # <<>> /\ Head(s) = s[1]
        /\ s[1] = "gen" /\ s[2] = "base1" /\ s[3] = "cmp" /\ s[4] = "gate"
    BY DEF ServerUnits
  <2>2. t \in Seq(ServerUnits) /\ Len(t) = 3 /\ t[1] = "base1" /\ t[2] = "cmp" /\ t[3] = "gate"
    BY DEF ServerUnits
  <2>3. r \in Seq(ServerUnits) /\ Len(r) = 0
    BY DEF ServerUnits
  <2>4. Server!Range(s) = {"gen", "base1", "cmp", "gate"} /\ Server!Range(t) = {"base1", "cmp", "gate"} BY QueueRanges
  <2>5. t \in Queues /\ MCRequires["gen"] = r BY RequiredPackages DEF Queues
  <2> HIDE DEF s, t, r
  <2>6. Tail(s) = t
    <3>1. \A i \in 1 .. Len(t) : s[i + 1] = t[i] BY <2>1, <2>2
    <3>2. Len(s) = Len(t) + 1 BY <2>1, <2>2
    <3>3. QED BY <2>1, <2>2, <3>1, <3>2, TailIs
  <2>7. \A i \in 1 .. Len(r) : r[i] \notin {"gen", "base1", "cmp", "gate"} /\ r[i] # "gate" BY <2>3
  <2>8. QueueFacts(s)
    BY <2>1, <2>3, <2>4, <2>5, <2>6, <2>7 DEF QueueFacts, ServerUnits
  <2>9. QED BY <2>8 DEF s
<1>2. QueueFacts(<<"base1", "cmp", "gate">>)
  <2> DEFINE s == <<"base1", "cmp", "gate">>
             t == <<"cmp", "gate">>
             r == <<"gen">>
  <2>1. /\ s \in Seq(ServerUnits) /\ Len(s) = 3 /\ s # <<>> /\ Head(s) = s[1]
        /\ s[1] = "base1" /\ s[2] = "cmp" /\ s[3] = "gate"
    BY DEF ServerUnits
  <2>2. t \in Seq(ServerUnits) /\ Len(t) = 2 /\ t[1] = "cmp" /\ t[2] = "gate"
    BY DEF ServerUnits
  <2>3. r \in Seq(ServerUnits) /\ Len(r) = 1 /\ r[1] = "gen"
    BY DEF ServerUnits
  <2>4. Server!Range(s) = {"base1", "cmp", "gate"} /\ Server!Range(t) = {"cmp", "gate"} BY QueueRanges
  <2>5. t \in Queues /\ MCRequires["base1"] = r BY RequiredPackages DEF Queues
  <2> HIDE DEF s, t, r
  <2>6. Tail(s) = t
    <3>1. \A i \in 1 .. Len(t) : s[i + 1] = t[i] BY <2>1, <2>2
    <3>2. Len(s) = Len(t) + 1 BY <2>1, <2>2
    <3>3. QED BY <2>1, <2>2, <3>1, <3>2, TailIs
  <2>7. \A i \in 1 .. Len(r) : r[i] \notin {"base1", "cmp", "gate"} /\ r[i] # "gate" BY <2>3
  <2>8. QueueFacts(s)
    BY <2>1, <2>3, <2>4, <2>5, <2>6, <2>7 DEF QueueFacts, ServerUnits
  <2>9. QED BY <2>8 DEF s
<1>3. QueueFacts(<<"cmp", "gate">>)
  <2> DEFINE s == <<"cmp", "gate">>
             t == <<"gate">>
             r == <<"gen", "base1">>
  <2>1. /\ s \in Seq(ServerUnits) /\ Len(s) = 2 /\ s # <<>> /\ Head(s) = s[1]
        /\ s[1] = "cmp" /\ s[2] = "gate"
    BY DEF ServerUnits
  <2>2. t \in Seq(ServerUnits) /\ Len(t) = 1 /\ t[1] = "gate"
    BY DEF ServerUnits
  <2>3. r \in Seq(ServerUnits) /\ Len(r) = 2 /\ r[1] = "gen" /\ r[2] = "base1"
    BY DEF ServerUnits
  <2>4. Server!Range(s) = {"cmp", "gate"} /\ Server!Range(t) = {"gate"} BY QueueRanges
  <2>5. t \in Queues /\ MCRequires["cmp"] = r BY RequiredPackages DEF Queues
  <2> HIDE DEF s, t, r
  <2>6. Tail(s) = t
    <3>1. \A i \in 1 .. Len(t) : s[i + 1] = t[i] BY <2>1, <2>2
    <3>2. Len(s) = Len(t) + 1 BY <2>1, <2>2
    <3>3. QED BY <2>1, <2>2, <3>1, <3>2, TailIs
  <2>7. \A i \in 1 .. Len(r) : r[i] \notin {"cmp", "gate"} /\ r[i] # "gate" BY <2>3
  <2>8. QueueFacts(s)
    BY <2>1, <2>3, <2>4, <2>5, <2>6, <2>7 DEF QueueFacts, ServerUnits
  <2>9. QED BY <2>8 DEF s
<1>4. QueueFacts(<<"gate">>)
  <2> DEFINE s == <<"gate">>
             t == <<>>
             r == <<"gen", "cmp">>
  <2>1. /\ s \in Seq(ServerUnits) /\ Len(s) = 1 /\ s # <<>> /\ Head(s) = s[1]
        /\ s[1] = "gate"
    BY DEF ServerUnits
  <2>2. t \in Seq(ServerUnits) /\ Len(t) = 0
    BY DEF ServerUnits
  <2>3. r \in Seq(ServerUnits) /\ Len(r) = 2 /\ r[1] = "gen" /\ r[2] = "cmp"
    BY DEF ServerUnits
  <2>4. Server!Range(s) = {"gate"} /\ Server!Range(t) = {} BY QueueRanges
  <2>5. t \in Queues /\ MCRequires["gate"] = r BY RequiredPackages DEF Queues
  <2> HIDE DEF s, t, r
  <2>6. Tail(s) = t
    <3>1. \A i \in 1 .. Len(t) : s[i + 1] = t[i] BY <2>1, <2>2
    <3>2. Len(s) = Len(t) + 1 BY <2>1, <2>2
    <3>3. QED BY <2>1, <2>2, <3>1, <3>2, TailIs
  <2>7. \A i \in 1 .. Len(r) : r[i] \notin {"gate"} /\ r[i] # "gate" BY <2>3
  <2>8. QueueFacts(s)
    BY <2>1, <2>3, <2>4, <2>5, <2>6, <2>7 DEF QueueFacts, ServerUnits
  <2>9. QED BY <2>8 DEF s
<1>5. QueueFacts(<<"base1">>)
  <2> DEFINE s == <<"base1">>
             t == <<>>
             r == <<"gen">>
  <2>1. /\ s \in Seq(ServerUnits) /\ Len(s) = 1 /\ s # <<>> /\ Head(s) = s[1]
        /\ s[1] = "base1"
    BY DEF ServerUnits
  <2>2. t \in Seq(ServerUnits) /\ Len(t) = 0
    BY DEF ServerUnits
  <2>3. r \in Seq(ServerUnits) /\ Len(r) = 1 /\ r[1] = "gen"
    BY DEF ServerUnits
  <2>4. Server!Range(s) = {"base1"} /\ Server!Range(t) = {} BY QueueRanges
  <2>5. t \in Queues /\ MCRequires["base1"] = r BY RequiredPackages DEF Queues
  <2> HIDE DEF s, t, r
  <2>6. Tail(s) = t
    <3>1. \A i \in 1 .. Len(t) : s[i + 1] = t[i] BY <2>1, <2>2
    <3>2. Len(s) = Len(t) + 1 BY <2>1, <2>2
    <3>3. QED BY <2>1, <2>2, <3>1, <3>2, TailIs
  <2>7. \A i \in 1 .. Len(r) : r[i] \notin {"base1"} /\ r[i] # "gate" BY <2>3
  <2>8. QueueFacts(s)
    BY <2>1, <2>3, <2>4, <2>5, <2>6, <2>7 DEF QueueFacts, ServerUnits
  <2>9. QED BY <2>8 DEF s
<1>6. QueueFacts(<<"cmp">>)
  <2> DEFINE s == <<"cmp">>
             t == <<>>
             r == <<"gen", "base1">>
  <2>1. /\ s \in Seq(ServerUnits) /\ Len(s) = 1 /\ s # <<>> /\ Head(s) = s[1]
        /\ s[1] = "cmp"
    BY DEF ServerUnits
  <2>2. t \in Seq(ServerUnits) /\ Len(t) = 0
    BY DEF ServerUnits
  <2>3. r \in Seq(ServerUnits) /\ Len(r) = 2 /\ r[1] = "gen" /\ r[2] = "base1"
    BY DEF ServerUnits
  <2>4. Server!Range(s) = {"cmp"} /\ Server!Range(t) = {} BY QueueRanges
  <2>5. t \in Queues /\ MCRequires["cmp"] = r BY RequiredPackages DEF Queues
  <2> HIDE DEF s, t, r
  <2>6. Tail(s) = t
    <3>1. \A i \in 1 .. Len(t) : s[i + 1] = t[i] BY <2>1, <2>2
    <3>2. Len(s) = Len(t) + 1 BY <2>1, <2>2
    <3>3. QED BY <2>1, <2>2, <3>1, <3>2, TailIs
  <2>7. \A i \in 1 .. Len(r) : r[i] \notin {"cmp"} /\ r[i] # "gate" BY <2>3
  <2>8. QueueFacts(s)
    BY <2>1, <2>3, <2>4, <2>5, <2>6, <2>7 DEF QueueFacts, ServerUnits
  <2>9. QED BY <2>8 DEF s
<1>7. QueueFacts(<<>>)
  BY DEF QueueFacts
<1>8. QED BY <1>1, <1>2, <1>3, <1>4, <1>5, <1>6, <1>7 DEF Queues

(* A plan is executed one after the other.                                  *)
FlatFunction(ss, f) ==
  f = [i \in 1 .. Len(ss) |-> IF i = 1 THEN ss[i] ELSE f[i - 1] \o ss[i]]

LEMMA FlatIs ==
  ASSUME NEW ss, Len(ss) # 0, NEW r, \E f : FlatFunction(ss, f),
         \A f : FlatFunction(ss, f) => f[Len(ss)] = r
  PROVE  Server!FlattenSeq(ss) = r
<1> DEFINE g == CHOOSE f : FlatFunction(ss, f)
<1>1. FlatFunction(ss, g) OBVIOUS
<1>2. Server!FlattenSeq(ss) = g[Len(ss)] BY DEF Server!FlattenSeq, FlatFunction
<1>3. QED BY <1>1, <1>2

LEMMA FlatOfOne ==
  ASSUME NEW ss, Len(ss) = 1
  PROVE  Server!FlattenSeq(ss) = ss[1]
<1>1. FlatFunction(ss, [i \in 1 .. 1 |-> ss[i]]) BY DEF FlatFunction
<1>2. \A f : FlatFunction(ss, f) => f[Len(ss)] = ss[1] BY DEF FlatFunction
<1>3. (\E f : FlatFunction(ss, f)) /\ Len(ss) # 0 BY <1>1
<1>4. QED BY <1>2, <1>3, FlatIs

LEMMA FlatOfTwo ==
  ASSUME NEW ss, Len(ss) = 2
  PROVE  Server!FlattenSeq(ss) = ss[1] \o ss[2]
<1> DEFINE e == [i \in 1 .. 2 |-> IF i = 1 THEN ss[1] ELSE ss[1] \o ss[2]]
<1>1. FlatFunction(ss, e)
  <2>1. e[1] = ss[1] /\ e[2] = ss[1] \o ss[2] OBVIOUS
  <2>2. \A i \in 1 .. 2 : i = 1 \/ i = 2 OBVIOUS
  <2>3. \A i \in 1 .. 2 : e[i] = IF i = 1 THEN ss[i] ELSE e[i - 1] \o ss[i]
    BY <2>1, <2>2
  <2>4. e = [i \in 1 .. 2 |-> e[i]] OBVIOUS
  <2> HIDE DEF e
  <2>5. e = [i \in 1 .. 2 |-> IF i = 1 THEN ss[i] ELSE e[i - 1] \o ss[i]] BY <2>3, <2>4
  <2>6. QED BY <2>5 DEF FlatFunction
<1>2. ASSUME NEW f, FlatFunction(ss, f) PROVE f[2] = ss[1] \o ss[2]
  <2>1. \A i \in 1 .. 2 : f[i] = IF i = 1 THEN ss[i] ELSE f[i - 1] \o ss[i]
    BY <1>2 DEF FlatFunction
  <2>2. f[1] = ss[1] BY <2>1
  <2>3. QED BY <2>1, <2>2
<1> DEFINE r == ss[1] \o ss[2]
<1>3. \A f : FlatFunction(ss, f) => f[Len(ss)] = r BY <1>2
<1>4. (\E f : FlatFunction(ss, f)) /\ Len(ss) # 0 BY <1>1
<1> HIDE DEF r, e
<1>5. Server!FlattenSeq(ss) = r BY <1>3, <1>4, FlatIs
<1>6. QED BY <1>5 DEF r

LEMMA FlatOfThree ==
  ASSUME NEW ss, Len(ss) = 3
  PROVE  Server!FlattenSeq(ss) = (ss[1] \o ss[2]) \o ss[3]
<1> DEFINE e == [i \in 1 .. 3 |-> IF i = 1 THEN ss[1] ELSE IF i = 2 THEN ss[1] \o ss[2]
                                  ELSE (ss[1] \o ss[2]) \o ss[3]]
<1>1. FlatFunction(ss, e)
  <2>1. /\ e[1] = ss[1] /\ e[2] = ss[1] \o ss[2] /\ e[3] = (ss[1] \o ss[2]) \o ss[3]
    OBVIOUS
  <2>2. \A i \in 1 .. 3 : i = 1 \/ i = 2 \/ i = 3 OBVIOUS
  <2>3. \A i \in 1 .. 3 : e[i] = IF i = 1 THEN ss[i] ELSE e[i - 1] \o ss[i]
    BY <2>1, <2>2
  <2>4. e = [i \in 1 .. 3 |-> e[i]] OBVIOUS
  <2> HIDE DEF e
  <2>5. e = [i \in 1 .. 3 |-> IF i = 1 THEN ss[i] ELSE e[i - 1] \o ss[i]] BY <2>3, <2>4
  <2>6. QED BY <2>5 DEF FlatFunction
<1>2. ASSUME NEW f, FlatFunction(ss, f) PROVE f[3] = (ss[1] \o ss[2]) \o ss[3]
  <2>1. \A i \in 1 .. 3 : f[i] = IF i = 1 THEN ss[i] ELSE f[i - 1] \o ss[i]
    BY <1>2 DEF FlatFunction
  <2>2. /\ f[1] = (IF 1 = 1 THEN ss[1] ELSE f[1 - 1] \o ss[1])
        /\ f[2] = (IF 2 = 1 THEN ss[2] ELSE f[2 - 1] \o ss[2])
        /\ f[3] = (IF 3 = 1 THEN ss[3] ELSE f[3 - 1] \o ss[3])
    BY <2>1
  <2>9. 2 - 1 = 1 /\ 3 - 1 = 2 /\ 2 # 1 /\ 3 # 1 OBVIOUS
  <2>3. f[1] = ss[1] BY <2>2
  <2>4. f[2] = ss[1] \o ss[2] BY <2>2, <2>3, <2>9, Zenon
  <2>5. f[3] = f[2] \o ss[3] BY <2>2, <2>9, Zenon
  <2>6. QED BY <2>4, <2>5
<1> DEFINE r == (ss[1] \o ss[2]) \o ss[3]
<1>3. \A f : FlatFunction(ss, f) => f[Len(ss)] = r BY <1>2
<1>4. (\E f : FlatFunction(ss, f)) /\ Len(ss) # 0 BY <1>1
<1> HIDE DEF r, e
<1>5. Server!FlattenSeq(ss) = r BY <1>3, <1>4, FlatIs
<1>6. QED BY <1>5 DEF r

(* A role executes its work and then packs it; a baseline only works.       *)
PlanFacts ==
  IF Server!unit = "base1"
  THEN Len(Server!Stages) = 1 /\ Server!Stages[1] # "drive_packaging"
  ELSE /\ Len(Server!Stages) = 2 /\ Server!Stages[1] # "drive_packaging"
       /\ Server!Stages[2] = "drive_packaging"

LEMMA PlansKnown ==
  ASSUME Server!unit \in ServerUnits
  PROVE  PlanFacts
<1> DEFINE plan == MCStagePlan[Server!unit]
           ss == [i \in DOMAIN plan |-> Server!Executed(plan[i])]
<1>1. Server!Stages = Server!FlattenSeq(ss) BY DEF Server!Stages
<1>2. \A name : name # "quick_tests_and_harness" => Server!Executed(name) = <<name>>
  BY DEF Server!Executed
<1>3. Server!Executed("quick_tests_and_harness") = <<>> BY DEF Server!Executed
<1>4. \A x, y : Len(<<x>> \o <<y>>) = 2 /\ (<<x>> \o <<y>>)[1] = x /\ (<<x>> \o <<y>>)[2] = y
  OBVIOUS
<1>5. CASE Server!unit = "base1"
  <2>1. plan = <<"reference">> BY <1>5 DEF MCStagePlan
  <2>2. DOMAIN <<"reference">> = 1 .. 1 /\ <<"reference">>[1] = "reference" OBVIOUS
  <2> HIDE DEF plan
  <2>3. Len(ss) = 1 /\ ss[1] = <<"reference">> BY <1>2, <2>1, <2>2
  <2> HIDE DEF ss
  <2>4. Server!Stages = <<"reference">> BY <1>1, <2>3, FlatOfOne
  <2>5. Len(<<"reference">>) = 1 OBVIOUS
  <2>6. QED BY <1>5, <2>2, <2>4, <2>5 DEF PlanFacts
<1>6. ASSUME NEW x, x # "quick_tests_and_harness", x # "drive_packaging",
             plan = <<x, "drive_packaging">>, Server!unit # "base1"
      PROVE  PlanFacts
  <2>1. /\ DOMAIN <<x, "drive_packaging">> = 1 .. 2 /\ <<x, "drive_packaging">>[1] = x
        /\ <<x, "drive_packaging">>[2] = "drive_packaging" OBVIOUS
  <2> HIDE DEF plan
  <2>2. Len(ss) = 2 /\ ss[1] = <<x>> /\ ss[2] = <<"drive_packaging">> BY <1>2, <1>6, <2>1
  <2> HIDE DEF ss
  <2>3. Server!Stages = <<x>> \o <<"drive_packaging">> BY <1>1, <2>2, FlatOfTwo
  <2>4. QED BY <1>4, <1>6, <2>3 DEF PlanFacts
<1>7. CASE Server!unit = "gen"
  <2>1. plan = <<"generation", "drive_packaging">> BY <1>7 DEF MCStagePlan
  <2>2. QED BY <1>6, <1>7, <2>1
<1>8. CASE Server!unit = "gate"
  <2>1. plan = <<"motion_threshold_reuse_check", "drive_packaging">> BY <1>8 DEF MCStagePlan
  <2>2. QED BY <1>6, <1>8, <2>1
<1>9. CASE Server!unit = "cmp"
  <2> DEFINE p == <<"comparison", "quick_tests_and_harness", "drive_packaging">>
  <2>1. plan = p BY <1>9 DEF MCStagePlan
  <2>2. /\ DOMAIN p = 1 .. 3 /\ p[1] = "comparison" /\ p[2] = "quick_tests_and_harness"
        /\ p[3] = "drive_packaging" OBVIOUS
  <2> HIDE DEF plan, p
  <2>3. /\ Len(ss) = 3 /\ ss[1] = <<"comparison">> /\ ss[2] = <<>>
        /\ ss[3] = <<"drive_packaging">>
    BY <1>2, <1>3, <2>1, <2>2
  <2> HIDE DEF ss
  <2>4. Server!Stages = (<<"comparison">> \o <<>>) \o <<"drive_packaging">>
    BY <1>1, <2>3, FlatOfThree
  <2>5. <<"comparison">> \o <<>> = <<"comparison">> OBVIOUS
  <2>6. QED BY <1>4, <1>9, <2>4, <2>5 DEF PlanFacts
<1>10. QED BY <1>5, <1>7, <1>8, <1>9 DEF ServerUnits

(* What the invariant says of the units that are done: published by this    *)
(* command, or excused from it.                                             *)
Delivered(u) == \/ drive[u].run = serverRun
                \/ u = "gate"
                \/ u = "base1" /\ serverArgs.goOn

AtUnit == serverPc \in {"restore", "stages", "publish"}
InPipeline == serverPc = "next" \/ AtUnit

QueueKnown ==
  /\ serverTodo \in Queues /\ (serverPc # "idle" => serverRun > 0)
  /\ AtUnit => serverTodo # <<>>
  /\ serverPc = "colab" => serverArgs.pipeline = Server!Colab
  /\ InPipeline =>
       /\ serverArgs.pipeline \in DOMAIN MCPipelines
       /\ \A u \in Server!Range(MCPipelines[serverArgs.pipeline]) :
            u \notin Server!Range(serverTodo) => Delivered(u)

(* Where the current unit is: a role has published once it is past its last *)
(* stage, and its timer has stopped by then.                                *)
UnitStepKnown ==
  /\ serverPc = "restore" => step <= Len(MCRequires[Server!unit])
  /\ serverPc = "stages" => step <= Len(Server!Stages)
  /\ serverPc = "stages" /\ Server!unit # "base1" /\ step = 2 => Delivered(Server!unit)
  /\ serverPc = "publish" => step = Len(Server!Stages)

UnitReport == Server!Report("completed_before_stage_package_publish")

ServerReportsKnown ==
  /\ serverPc = "publish" => report = UnitReport /\ finished
  /\ serverPc = "stages" /\ finished =>
       report.status # "running" /\ step = Len(Server!Stages)
  /\ report.run = serverRun /\ report.status = "running" =>
       serverPc = "stages" \/ (serverPc = "idle" /\ exit \in {"none", "killed"})
  /\ Server!PassMeansPublished /\ Server!PackagedReportIsOwn

(* After a reset the run root holds the packages that were restored, what   *)
(* the current unit has written, and nothing of the units still to come.    *)
OwnWork(u) == serverPc \in {"stages", "publish"} /\ u = Server!unit
WorkspaceKnown ==
  serverArgs.reset =>
    /\ serverPc \in {"recovery", "plan", "preflight", "colab"} =>
         \A u \in ServerUnits : local[u] = {}
    /\ InPipeline => \A u \in Server!Range(serverTodo) : ~OwnWork(u) => local[u] = {}
    /\ serverPc \in {"stages", "publish"} =>
         /\ local[Server!unit] \in {{}, {serverRun}}
         /\ step > 0 => local[Server!unit] = {serverRun}

InputsRestored(n) == \A i \in 1 .. n :
  local[MCRequires[Server!unit][i]] = drive[MCRequires[Server!unit][i]].files

InputsKnown ==
  serverArgs.reset /\ ~serverArgs.goOn =>
    /\ InPipeline => \A u \in ServerUnits : u \notin Server!Range(serverTodo) /\ u # "gate" =>
                       local[u] \in {{}, drive[u].files}
    /\ serverPc = "restore" => InputsRestored(step)
    /\ serverPc \in {"stages", "publish"} => InputsRestored(Len(MCRequires[Server!unit]))
    /\ serverPc = "stages" /\ Server!unit \notin {"base1", "gate"} /\ step = 2 =>
         drive[Server!unit].files = local[Server!unit]

ServerInv == Server!TypeOK /\ QueueKnown /\ UnitStepKnown /\ ServerReportsKnown
             /\ WorkspaceKnown /\ InputsKnown

LEMMA UnitKnown ==
  ASSUME QueueKnown, serverTodo # <<>>
  PROVE  /\ Server!unit \in ServerUnits /\ Tail(serverTodo) \in Queues
         /\ Server!Range(serverTodo) = {Server!unit} \cup Server!Range(Tail(serverTodo))
         /\ Server!unit \notin Server!Range(Tail(serverTodo))
         /\ MCRequires[Server!unit] \in Seq(ServerUnits)
         /\ \A i \in 1 .. Len(MCRequires[Server!unit]) :
              /\ MCRequires[Server!unit][i] \in ServerUnits
              /\ MCRequires[Server!unit][i] \notin Server!Range(serverTodo)
              /\ MCRequires[Server!unit][i] \notin {"gate", Server!unit}
<1>1. QueueFacts(serverTodo) BY QueuesKnown DEF QueueKnown
<1> DEFINE r == MCRequires[Server!unit]
<1>2. /\ Server!unit \in ServerUnits /\ Tail(serverTodo) \in Queues
      /\ Server!Range(serverTodo) = {Server!unit} \cup Server!Range(Tail(serverTodo))
      /\ Server!unit \notin Server!Range(Tail(serverTodo))
      /\ r \in Seq(ServerUnits)
      /\ \A i \in 1 .. Len(r) : r[i] \notin Server!Range(serverTodo) /\ r[i] # "gate"
  BY <1>1 DEF QueueFacts, Server!unit
<1> HIDE DEF r
<1>3. \A i \in 1 .. Len(r) : r[i] \in ServerUnits BY <1>2
<1>4. QED BY <1>2, <1>3 DEF r

LEMMA SameUnit ==
  ASSUME serverTodo' = serverTodo
  PROVE  Server!unit' = Server!unit /\ Server!Stages' = Server!Stages /\ PlanFacts' = PlanFacts
<1>1. Server!unit' = Server!unit BY DEF Server!unit
<1>2. Server!Stages' = Server!Stages BY <1>1 DEF Server!Stages
<1>3. QED BY <1>1, <1>2 DEF PlanFacts

LEMMA PlanOfUnit ==
  ASSUME QueueKnown, serverTodo # <<>>
  PROVE  /\ Len(Server!Stages) \in Nat
         /\ Server!unit = "base1" => Len(Server!Stages) = 1 /\ Server!Stages[1] # "drive_packaging"
         /\ Server!unit # "base1" => /\ Len(Server!Stages) = 2 /\ Server!Stages[1] # "drive_packaging"
                                     /\ Server!Stages[2] = "drive_packaging"
BY UnitKnown, PlansKnown DEF PlanFacts

(* The fields of the reports, as sets of their own.                         *)
ServerStatuses == {"none", "running", "failed", "completed",
                   "completed_before_stage_package_publish"}
ServerPhases == {"idle", "raised", "recovery", "plan", "preflight", "colab",
                 "next", "restore", "stages", "publish"}
ServerExits == {"none", "running", "ok", "failed", "stage", "traceback", "killed"}
ServerDecisions == [run : 0 .. ServerRuns, value : {"none", "PASS", "FAIL", "DRY_RUN", "RECOVERED"}]
ServerReports == [unit : ServerUnits \cup {"none"}, run : 0 .. ServerRuns, status : ServerStatuses]
ServerPackages == [run : 0 .. ServerRuns, files : SUBSET (1 .. ServerRuns), report : ServerReports]

LEMMA ServerTypes ==
  Server!TypeOK <=>
    /\ serverRun \in 0 .. ServerRuns /\ serverArgs \in Server!Args /\ kills \in 0 .. 1
    /\ serverPc \in ServerPhases /\ exit \in ServerExits
    /\ serverTodo \in Seq(ServerUnits) /\ step \in Nat /\ finished \in BOOLEAN
    /\ report \in ServerReports
    /\ local \in [ServerUnits -> SUBSET (1 .. ServerRuns)]
    /\ drive \in [ServerUnits -> ServerPackages]
    /\ serverDecision \in ServerDecisions
    /\ serverDecision.run <= serverRun /\ report.run <= serverRun
    /\ \A u \in ServerUnits : drive[u].run <= serverRun
BY ServerConstants, Zenon
DEF Server!TypeOK, Server!Runs, Server!ReportTypes, ServerStatuses, ServerPhases, ServerExits,
    ServerDecisions, ServerReports, ServerPackages

LEMMA ServerTypesNext ==
  Server!TypeOK' <=>
    /\ serverRun' \in 0 .. ServerRuns /\ serverArgs' \in Server!Args /\ kills' \in 0 .. 1
    /\ serverPc' \in ServerPhases /\ exit' \in ServerExits
    /\ serverTodo' \in Seq(ServerUnits) /\ step' \in Nat /\ finished' \in BOOLEAN
    /\ report' \in ServerReports
    /\ local' \in [ServerUnits -> SUBSET (1 .. ServerRuns)]
    /\ drive' \in [ServerUnits -> ServerPackages]
    /\ serverDecision' \in ServerDecisions
    /\ serverDecision'.run <= serverRun' /\ report'.run <= serverRun'
    /\ \A u \in ServerUnits : drive'[u].run <= serverRun'
BY ServerConstants, Zenon
DEF Server!TypeOK, Server!Runs, Server!ReportTypes, ServerStatuses, ServerPhases, ServerExits,
    ServerDecisions, ServerReports, ServerPackages

LEMMA QueuesAreSequences ==
  ASSUME NEW q \in Queues
  PROVE  q \in Seq(ServerUnits)
BY QueuesKnown DEF QueueFacts

LEMMA DeliveredStays ==
  ASSUME UNCHANGED <<serverRun, serverArgs, drive>>
  PROVE  \A u : Delivered(u)' <=> Delivered(u)
BY DEF Delivered

(* However a command ends, what it leaves is consistent.                    *)
LEMMA CommandEnds ==
  ASSUME ServerInv, serverPc' = "idle", serverTodo' = <<>>, step' = 0,
         UNCHANGED <<serverRun, serverArgs, drive>>,
         local' \in [ServerUnits -> SUBSET (1 .. ServerRuns)], finished' \in BOOLEAN,
         report' \in ServerReports, report'.run <= serverRun,
         kills' \in 0 .. 1, exit' \in ServerExits,
         serverDecision' \in ServerDecisions, serverDecision'.run <= serverRun,
         report'.run = serverRun /\ report'.status = "running" => exit' \in {"none", "killed"},
         exit' = "ok" /\ serverDecision'.value = "PASS" /\ serverArgs.pipeline # Server!Colab =>
           \A u \in Server!Range(MCPipelines[serverArgs.pipeline]) : Delivered(u)
  PROVE  ServerInv'
<1>1. Server!TypeOK'
  <2>1. <<>> \in Seq(ServerUnits) /\ 0 \in Nat /\ "idle" \in ServerPhases BY DEF ServerPhases
  <2>2. Server!TypeOK BY DEF ServerInv
  <2>3. QED BY <2>1, <2>2, ServerTypes, ServerTypesNext
<1>2. QueueKnown' BY DEF QueueKnown, Queues, AtUnit, InPipeline
<1>3. UnitStepKnown' BY DEF UnitStepKnown
<1>4. ServerReportsKnown'
  <2>1. Server!PassMeansPublished' BY DEF Server!PassMeansPublished, Delivered
  <2>2. Server!PackagedReportIsOwn'
    BY DEF ServerInv, ServerReportsKnown, Server!PackagedReportIsOwn
  <2>3. QED BY <2>1, <2>2 DEF ServerReportsKnown
<1>5. WorkspaceKnown' BY DEF WorkspaceKnown, InPipeline, AtUnit
<1>6. InputsKnown' BY DEF InputsKnown, InPipeline, AtUnit
<1>7. QED BY <1>1, <1>2, <1>3, <1>4, <1>5, <1>6 DEF ServerInv

LEMMA ServerEndings ==
  ASSUME ServerInv,
         \/ Server!LeaveMain \/ Server!RecoveryPackage \/ Server!DryRun
         \/ Server!RunColabTest \/ Server!PipelineEnds \/ Server!Kill
  PROVE  ServerInv'
<1>1. /\ serverPc # "idle" /\ serverPc' = "idle" /\ serverTodo' = <<>> /\ step' = 0
      /\ UNCHANGED <<serverRun, serverArgs, drive, local, report, finished>>
      /\ kills' \in 0 .. 1 /\ exit' \in {"traceback", "ok", "failed", "killed"}
      /\ exit' # "killed" => serverPc # "stages"
      /\ \/ serverDecision' = serverDecision /\ exit' # "ok"
         \/ exit' = "failed" /\ serverDecision' = [run |-> serverRun, value |-> "FAIL"]
         \/ exit' = "ok" /\ serverDecision' = [run |-> serverRun, value |-> "RECOVERED"]
         \/ exit' = "ok" /\ serverDecision' = [run |-> serverRun, value |-> "DRY_RUN"]
         \/ exit' = "ok" /\ serverDecision' = [run |-> serverRun, value |-> "PASS"]
              /\ (serverPc = "colab" \/ (serverPc = "next" /\ serverTodo = <<>>))
  <2>1. kills \in 0 .. 1 BY ServerTypes DEF ServerInv
  <2>2. CASE Server!LeaveMain
    BY <2>1, <2>2 DEF Server!LeaveMain, Server!End, Server!FilesStay
  <2>3. CASE Server!RecoveryPackage
    BY <2>1, <2>3 DEF Server!RecoveryPackage, Server!End, Server!FilesStay, Server!Fail, Server!Decide
  <2>4. CASE Server!DryRun
    BY <2>1, <2>4 DEF Server!DryRun, Server!End, Server!FilesStay, Server!Fail, Server!Decide
  <2>5. CASE Server!RunColabTest
    BY <2>1, <2>5 DEF Server!RunColabTest, Server!End, Server!FilesStay, Server!Fail, Server!Decide
  <2>6. CASE Server!PipelineEnds
    BY <2>1, <2>6 DEF Server!PipelineEnds, Server!End, Server!FilesStay, Server!Decide
  <2>7. CASE Server!Kill
    BY <2>1, <2>7 DEF Server!Kill, Server!FilesStay
  <2>8. QED BY <2>2, <2>3, <2>4, <2>5, <2>6, <2>7
<1>2. /\ local \in [ServerUnits -> SUBSET (1 .. ServerRuns)] /\ finished \in BOOLEAN
      /\ report \in ServerReports /\ report.run <= serverRun /\ serverRun \in 0 .. ServerRuns
      /\ serverDecision \in ServerDecisions /\ serverDecision.run <= serverRun
  BY ServerTypes DEF ServerInv
<1>3. serverDecision' \in ServerDecisions /\ serverDecision'.run <= serverRun
  BY <1>1, <1>2 DEF ServerDecisions
<1>4. exit' \in ServerExits BY <1>1 DEF ServerExits
<1>5. report'.run = serverRun /\ report'.status = "running" => exit' \in {"none", "killed"}
  BY <1>1 DEF ServerInv, ServerReportsKnown
<1>6. exit' = "ok" /\ serverDecision'.value = "PASS" /\ serverArgs.pipeline # Server!Colab =>
        \A u \in Server!Range(MCPipelines[serverArgs.pipeline]) : Delivered(u)
  <2>1. CASE serverPc = "colab" BY <2>1 DEF ServerInv, QueueKnown
  <2>2. CASE serverPc = "next" /\ serverTodo = <<>>
    BY <2>2, QueueRanges DEF ServerInv, QueueKnown, InPipeline
  <2>3. QED BY <1>1, <2>1, <2>2
<1>7. QED BY <1>1, <1>2, <1>3, <1>4, <1>5, <1>6, CommandEnds

LEMMA UnitFailures ==
  ASSUME ServerInv,
         \/ Server!InputMissing \/ Server!HelperRaises \/ Server!CommandFails
         \/ Server!PublishRaises
         \/ serverPc = "preflight" /\ Server!Fail /\ Server!FilesStay
         \/ /\ serverPc = "publish" /\ Server!Fail /\ report' = Server!FinalReport
            /\ UNCHANGED <<finished, local, drive>>
  PROVE  ServerInv'
<1>1. /\ local \in [ServerUnits -> SUBSET (1 .. ServerRuns)] /\ finished \in BOOLEAN
      /\ report \in ServerReports /\ report.run <= serverRun /\ serverRun \in 0 .. ServerRuns
      /\ serverDecision \in ServerDecisions /\ serverDecision.run <= serverRun /\ kills \in 0 .. 1
      /\ (serverPc # "idle" => serverRun \in 1 .. ServerRuns)
  BY ServerTypes DEF ServerInv, QueueKnown
<1>2. AtUnit => Server!unit \in ServerUnits BY UnitKnown DEF ServerInv, QueueKnown
<1>3. \A s \in ServerStatuses : Server!unit \in ServerUnits => Server!Report(s) \in ServerReports
  BY <1>1 DEF Server!Report, ServerReports
<1>4. Server!WritesFiles /\ Server!unit \in ServerUnits /\ serverPc # "idle" =>
        local' \in [ServerUnits -> SUBSET (1 .. ServerRuns)]
  BY <1>1 DEF Server!WritesFiles
<1>5. /\ serverPc # "idle" /\ (Server!End("failed") \/ Server!End("stage"))
      /\ drive' = drive /\ local' \in [ServerUnits -> SUBSET (1 .. ServerRuns)]
      /\ serverDecision' \in {serverDecision, [run |-> serverRun, value |-> "FAIL"]}
  <2>1. CASE Server!InputMissing
    BY <1>1, <2>1 DEF Server!InputMissing, Server!FilesStay, Server!Fail, Server!Decide
  <2>2. CASE Server!HelperRaises
    <3>1. serverPc = "stages" BY <2>2 DEF Server!HelperRaises, Server!AtStage
    <3>2. local' \in [ServerUnits -> SUBSET (1 .. ServerRuns)]
      BY <1>1, <1>2, <1>4, <2>2, <3>1 DEF Server!HelperRaises, AtUnit
    <3>3. QED BY <2>2, <3>1, <3>2 DEF Server!HelperRaises, Server!Fail, Server!Decide
  <2>3. CASE Server!CommandFails
    <3>1. serverPc = "stages" BY <2>3 DEF Server!CommandFails, Server!AtStage
    <3>2. local' \in [ServerUnits -> SUBSET (1 .. ServerRuns)]
      BY <1>1, <1>2, <1>4, <2>3, <3>1 DEF Server!CommandFails, AtUnit
    <3>3. QED BY <2>3, <3>1, <3>2 DEF Server!CommandFails
  <2>4. CASE Server!PublishRaises
    BY <1>1, <2>4 DEF Server!PublishRaises, Server!Fail, Server!Decide
  <2>5. CASE serverPc = "preflight" /\ Server!Fail /\ Server!FilesStay
    BY <1>1, <2>5 DEF Server!FilesStay, Server!Fail, Server!Decide
  <2>6. CASE /\ serverPc = "publish" /\ Server!Fail /\ report' = Server!FinalReport
             /\ UNCHANGED <<finished, local, drive>>
    BY <1>1, <2>6 DEF Server!Fail, Server!Decide
  <2>7. QED BY <2>1, <2>2, <2>3, <2>4, <2>5, <2>6
<1>6. /\ serverPc' = "idle" /\ serverTodo' = <<>> /\ step' = 0 /\ kills' = kills
      /\ UNCHANGED <<serverRun, serverArgs>> /\ exit' \in {"failed", "stage"}
  BY <1>5 DEF Server!End
<1>7. serverPc = "publish" => Server!FinalReport = report
  BY DEF ServerInv, ServerReportsKnown, UnitReport, Server!Report, Server!FinalReport
<1>8. /\ report' = report \/ report' = Server!Report("failed")
      /\ report'.status = "running" /\ report'.run = serverRun => FALSE
      /\ report' \in ServerReports /\ report'.run <= serverRun /\ finished' \in BOOLEAN
  <2>1. Server!Report("failed").status = "failed" /\ Server!Report("failed").run = serverRun
    BY DEF Server!Report
  <2>2. CASE Server!HelperRaises \/ Server!CommandFails
    <3>1. serverPc = "stages" /\ Server!FinishFailed
      BY <2>2 DEF Server!HelperRaises, Server!CommandFails, Server!AtStage
    <3>2. finished => report.status # "running"
      BY <3>1 DEF ServerInv, ServerReportsKnown
    <3>3. Server!Report("failed") \in ServerReports
      BY <1>2, <1>3, <3>1 DEF AtUnit, ServerStatuses
    <3>4. QED BY <1>1, <2>1, <3>1, <3>2, <3>3 DEF Server!FinishFailed
  <2>3. CASE UNCHANGED <<report, finished>> /\ serverPc \in {"restore", "preflight", "publish"}
    BY <1>1, <2>3 DEF ServerInv, ServerReportsKnown
  <2>4. Server!InputMissing => UNCHANGED <<report, finished>> /\ serverPc = "restore"
    BY DEF Server!InputMissing, Server!FilesStay
  <2>5. Server!PublishRaises => UNCHANGED <<report, finished>> /\ serverPc = "publish"
    BY <1>7 DEF Server!PublishRaises
  <2>6. QED BY <1>7, <2>2, <2>3, <2>4, <2>5 DEF Server!FilesStay
<1>9. serverDecision' \in ServerDecisions /\ serverDecision'.run <= serverRun
  BY <1>1, <1>5 DEF ServerDecisions
<1>10. exit' \in ServerExits BY <1>6 DEF ServerExits
<1>11. QED BY <1>1, <1>5, <1>6, <1>8, <1>9, <1>10, CommandEnds

LEMMA CommandStarts ==
  ASSUME ServerInv, NEW a \in Server!Args, Server!Start(a) \/ Server!ResetRaises(a)
  PROVE  ServerInv'
<1>1. /\ serverPc = "idle" /\ serverRun < ServerRuns /\ serverRun' = serverRun + 1
      /\ serverArgs' = a /\ exit' = "running"
      /\ serverPc' \in {"raised", "recovery", "plan", "preflight"}
      /\ UNCHANGED <<serverTodo, step, report, finished, drive, serverDecision, kills>>
  BY ServerConstants DEF Server!Start, Server!ResetRaises, Server!Begin, Server!AfterReset
<1>2. /\ local' \in [ServerUnits -> SUBSET (1 .. ServerRuns)]
      /\ serverPc' # "raised" /\ a.reset => \A u \in ServerUnits : local'[u] = {}
  <2>1. local \in [ServerUnits -> SUBSET (1 .. ServerRuns)] BY ServerTypes DEF ServerInv
  <2>2. CASE Server!Start(a)
    BY <2>1, <2>2, ServerConstants DEF Server!Start
  <2>3. CASE Server!ResetRaises(a)
    <3>1. serverPc' = "raised" BY <2>3 DEF Server!ResetRaises, Server!Begin
    <3>2. PICK gone : local' = [u \in ServerUnits |-> IF u \in gone THEN {} ELSE local[u]]
      BY <2>3, ServerConstants DEF Server!ResetRaises
    <3>3. QED BY <2>1, <3>1, <3>2
  <2>4. QED BY <2>2, <2>3
<1>3. Server!TypeOK'
  <2>1. /\ serverRun \in 0 .. ServerRuns /\ serverDecision.run <= serverRun /\ report.run <= serverRun
        /\ drive \in [ServerUnits -> ServerPackages] /\ serverDecision \in ServerDecisions
        /\ report \in ServerReports /\ \A u \in ServerUnits : drive[u].run <= serverRun
        /\ kills \in 0 .. 1 /\ serverTodo \in Seq(ServerUnits) /\ step \in Nat /\ finished \in BOOLEAN
    BY ServerTypes DEF ServerInv
  <2>2. /\ serverDecision.run \in Nat /\ report.run \in Nat
        /\ \A u \in ServerUnits : drive[u].run \in Nat
    BY <2>1, ServerConstants DEF ServerDecisions, ServerReports, ServerPackages
  <2>3. serverRun' \in 0 .. ServerRuns BY <1>1, <2>1, ServerConstants
  <2>4. serverPc' \in ServerPhases /\ exit' \in ServerExits BY <1>1 DEF ServerPhases, ServerExits
  <2>5. /\ serverDecision.run <= serverRun' /\ report.run <= serverRun'
        /\ \A u \in ServerUnits : drive[u].run <= serverRun'
    BY <1>1, <2>1, <2>2
  <2>6. QED BY <1>1, <1>2, <2>1, <2>3, <2>4, <2>5, ServerTypesNext
<1>4. QueueKnown'
  <2>1. serverRun' > 0 BY <1>1, ServerTypes DEF ServerInv
  <2>2. QED BY <1>1, <2>1 DEF QueueKnown, AtUnit, InPipeline, ServerInv
<1>5. UnitStepKnown' BY <1>1 DEF UnitStepKnown
<1>6. ServerReportsKnown'
  <2>1. report.run # serverRun'
    <3>1. report.run <= serverRun /\ report.run \in Nat /\ serverRun \in Nat
      BY ServerTypes, ServerConstants DEF ServerInv, ServerReports
    <3>2. QED BY <1>1, <3>1
  <2>2. Server!PassMeansPublished' BY <1>1 DEF Server!PassMeansPublished
  <2>3. Server!PackagedReportIsOwn'
    BY <1>1 DEF ServerInv, ServerReportsKnown, Server!PackagedReportIsOwn
  <2>4. QED BY <1>1, <2>1, <2>2, <2>3 DEF ServerReportsKnown
<1>7. WorkspaceKnown' BY <1>1, <1>2 DEF WorkspaceKnown, InPipeline, AtUnit
<1>8. InputsKnown' BY <1>1 DEF InputsKnown, InPipeline, AtUnit
<1>9. QED BY <1>3, <1>4, <1>5, <1>6, <1>7, <1>8 DEF ServerInv

LEMMA MachineChanges ==
  ASSUME ServerInv, Server!NewMachine
  PROVE  ServerInv'
<1>1. /\ serverPc' = "idle" /\ exit' = "none" /\ report' = Server!NoReport
      /\ serverDecision' = [run |-> 0, value |-> "none"]
      /\ local' = [u \in ServerUnits |-> {}]
      /\ UNCHANGED <<serverRun, serverArgs, serverPc, serverTodo, step, finished, drive, kills>>
  BY ServerConstants DEF Server!NewMachine, Server!NoRun
<1>2. Server!NoReport = [unit |-> "none", run |-> 0, status |-> "none"]
  BY DEF Server!NoReport, Server!NoRun
<1>3. Server!TypeOK'
  <2>1. Server!TypeOK BY DEF ServerInv
  <2>2. serverRun \in 0 .. ServerRuns /\ ServerRuns \in Nat BY <2>1, ServerTypes, ServerConstants
  <2>3. serverDecision' \in ServerDecisions /\ serverDecision'.run <= serverRun
    BY <1>1, <2>2 DEF ServerDecisions
  <2>4. report' \in ServerReports /\ report'.run <= serverRun
    BY <1>1, <1>2, <2>2 DEF ServerReports, ServerStatuses
  <2>5. exit' \in ServerExits /\ serverPc' \in ServerPhases BY <1>1 DEF ServerExits, ServerPhases
  <2>6. local' \in [ServerUnits -> SUBSET (1 .. ServerRuns)] BY <1>1
  <2>7. QED BY <1>1, <2>1, <2>3, <2>4, <2>5, <2>6, ServerTypes, ServerTypesNext
<1>4. QueueKnown' BY <1>1 DEF QueueKnown, AtUnit, InPipeline, ServerInv
<1>5. UnitStepKnown' BY <1>1 DEF UnitStepKnown
<1>6. ServerReportsKnown'
  <2>1. Server!PassMeansPublished' BY <1>1 DEF Server!PassMeansPublished
  <2>2. Server!PackagedReportIsOwn'
    BY <1>1 DEF ServerInv, ServerReportsKnown, Server!PackagedReportIsOwn
  <2>3. QED BY <1>1, <1>2, <2>1, <2>2 DEF ServerReportsKnown
<1>7. WorkspaceKnown' BY <1>1 DEF WorkspaceKnown, InPipeline, AtUnit
<1>8. InputsKnown' BY <1>1 DEF InputsKnown, InPipeline, AtUnit
<1>9. QED BY <1>3, <1>4, <1>5, <1>6, <1>7, <1>8 DEF ServerInv

LEMMA PipelineStarts ==
  ASSUME ServerInv, serverPc = "preflight", Server!Preflight, ~Server!Fail
  PROVE  ServerInv'
<1>1. /\ serverPc' = IF serverArgs.pipeline = Server!Colab THEN "colab" ELSE "next"
      /\ serverTodo' = IF serverArgs.pipeline = Server!Colab THEN <<>>
                       ELSE MCPipelines[serverArgs.pipeline]
      /\ UNCHANGED <<serverRun, serverArgs, step, serverDecision, exit, kills,
                     report, finished, local, drive>>
  BY DEF Server!Preflight, Server!FilesStay
<1>2. serverArgs.pipeline \in DOMAIN MCPipelines \cup {Server!Colab}
  BY ServerTypes DEF ServerInv, Server!Args
<1>3. serverTodo' \in Queues BY <1>1, <1>2, ServerConstants DEF Queues
<1>4. Server!TypeOK'
  <2>1. serverPc' \in ServerPhases BY <1>1 DEF ServerPhases
  <2>2. serverTodo' \in Seq(ServerUnits) BY <1>3, QueuesAreSequences
  <2>3. Server!TypeOK BY DEF ServerInv
  <2>4. QED BY <1>1, <2>1, <2>2, <2>3, ServerTypes, ServerTypesNext
<1>5. QueueKnown'
  <2>1. serverRun > 0 BY DEF ServerInv, QueueKnown
  <2>2. serverPc' = "next" =>
          /\ serverArgs.pipeline \in DOMAIN MCPipelines
          /\ serverTodo' = MCPipelines[serverArgs.pipeline]
    BY <1>1, <1>2
  <2>3. QED BY <1>1, <1>3, <2>1, <2>2 DEF QueueKnown, AtUnit, InPipeline
<1>6. UnitStepKnown' BY <1>1 DEF UnitStepKnown
<1>7. ServerReportsKnown'
  <2>1. Server!PassMeansPublished' BY <1>1 DEF Server!PassMeansPublished
  <2>2. Server!PackagedReportIsOwn'
    BY <1>1 DEF ServerInv, ServerReportsKnown, Server!PackagedReportIsOwn
  <2>3. ~(report.run = serverRun /\ report.status = "running")
    BY DEF ServerInv, ServerReportsKnown
  <2>4. QED BY <1>1, <2>1, <2>2, <2>3 DEF ServerReportsKnown
<1>8. serverArgs.reset => \A u \in ServerUnits : local[u] = {}
  BY DEF ServerInv, WorkspaceKnown
<1>9. \A u \in Server!Range(serverTodo)' : u \in ServerUnits
  <2>1. Server!Range(serverTodo)' = Server!Range(serverTodo') BY DEF Server!Range
  <2>2. \A q \in Queues : \A u \in Server!Range(q) : u \in ServerUnits
    BY QueueRanges DEF Queues, ServerUnits
  <2>3. QED BY <1>3, <2>1, <2>2
<1>10. WorkspaceKnown'
  BY <1>1, <1>8, <1>9 DEF WorkspaceKnown, InPipeline, AtUnit
<1>11. InputsKnown' BY <1>1, <1>8 DEF InputsKnown, InPipeline, AtUnit
<1>12. QED BY <1>4, <1>5, <1>6, <1>7, <1>10, <1>11 DEF ServerInv

LEMMA UnitBegins ==
  ASSUME ServerInv, Server!BeginUnit
  PROVE  ServerInv'
<1>1. /\ serverPc = "next" /\ serverTodo # <<>> /\ serverPc' = "restore" /\ step' = 0
      /\ UNCHANGED <<serverRun, serverArgs, serverTodo, serverDecision, exit, kills,
                     report, finished, local, drive>>
  BY DEF Server!BeginUnit, Server!FilesStay
<1>2. Server!TypeOK'
  <2>1. serverPc' \in ServerPhases /\ step' \in Nat BY <1>1 DEF ServerPhases
  <2>2. Server!TypeOK BY DEF ServerInv
  <2>3. QED BY <1>1, <2>1, <2>2, ServerTypes, ServerTypesNext
<1>3. QueueKnown'
  BY <1>1, DeliveredStays DEF ServerInv, QueueKnown, AtUnit, InPipeline
<1>4. UnitStepKnown'
  <2>1. MCRequires[Server!unit] \in Seq(ServerUnits) BY <1>1, UnitKnown DEF ServerInv
  <2>2. 0 <= Len(MCRequires[Server!unit]) /\ Server!unit' = Server!unit BY <1>1, <2>1, SameUnit
  <2>3. QED BY <1>1, <2>2 DEF UnitStepKnown
<1>5. ServerReportsKnown'
  <2>1. Server!PassMeansPublished' BY <1>1 DEF Server!PassMeansPublished
  <2>2. Server!PackagedReportIsOwn'
    BY <1>1 DEF ServerInv, ServerReportsKnown, Server!PackagedReportIsOwn
  <2>3. ~(report.run = serverRun /\ report.status = "running")
    BY <1>1 DEF ServerInv, ServerReportsKnown
  <2>4. QED BY <1>1, <2>1, <2>2, <2>3 DEF ServerReportsKnown
<1>6. WorkspaceKnown'
  <2>1. \A u : ~OwnWork(u) BY <1>1 DEF OwnWork
  <2>2. QED BY <1>1, <2>1 DEF ServerInv, WorkspaceKnown, InPipeline, AtUnit
<1>7. InputsKnown'
  <2>1. Server!unit' = Server!unit BY <1>1, SameUnit
  <2>2. 0 <= Len(MCRequires[Server!unit]) /\ 1 .. 0 = {}
    <3>1. MCRequires[Server!unit] \in Seq(ServerUnits) BY <1>1, UnitKnown DEF ServerInv
    <3>2. QED BY <3>1
  <2>3. QED BY <1>1, <2>1, <2>2 DEF ServerInv, InputsKnown, InputsRestored, InPipeline, AtUnit
<1>8. QED BY <1>2, <1>3, <1>4, <1>5, <1>6, <1>7 DEF ServerInv

LEMMA RangeOfQueue ==
  ASSUME serverTodo' = serverTodo
  PROVE  Server!Range(serverTodo)' = Server!Range(serverTodo)
BY DEF Server!Range

LEMMA InputIsRestored ==
  ASSUME ServerInv, Server!RestoreInput
  PROVE  ServerInv'
<1> DEFINE r == MCRequires[Server!unit]
           v == Server!NextInput
<1>1. /\ serverPc = "restore" /\ step # Len(r) /\ v = r[step + 1] /\ drive[v].run # 0
      /\ local' = [local EXCEPT ![v] = local[v] \cup drive[v].files]
      /\ report' = drive[v].report /\ step' = step + 1
      /\ UNCHANGED <<serverRun, serverArgs, serverPc, serverTodo, finished, drive,
                     serverDecision, exit, kills>>
  BY DEF Server!RestoreInput, Server!AllRestored, Server!NextInput, Server!NoRun
<1>2. serverTodo # <<>> /\ step \in Nat /\ step <= Len(r)
  BY <1>1, ServerTypes DEF ServerInv, QueueKnown, AtUnit, UnitStepKnown
<1>3. /\ r \in Seq(ServerUnits) /\ Server!unit \in Server!Range(serverTodo)
      /\ \A i \in 1 .. Len(r) : /\ r[i] \in ServerUnits /\ r[i] \notin Server!Range(serverTodo)
                                /\ r[i] # "gate" /\ r[i] # Server!unit
  BY <1>2, UnitKnown DEF ServerInv
<1>4. Server!unit' = Server!unit /\ Server!Range(serverTodo)' = Server!Range(serverTodo)
  BY <1>1, SameUnit, RangeOfQueue
<1> HIDE DEF v
<1>5. step + 1 \in 1 .. Len(r) /\ \A i \in 1 .. step + 1 : i \in 1 .. step \/ i = step + 1
  BY <1>1, <1>2, <1>3
<1>6. v \in ServerUnits /\ v \notin Server!Range(serverTodo) /\ v # "gate" /\ v # Server!unit
  BY <1>1, <1>3, <1>5
<1>7. /\ local \in [ServerUnits -> SUBSET (1 .. ServerRuns)]
      /\ drive \in [ServerUnits -> ServerPackages] /\ \A u \in ServerUnits : drive[u].run <= serverRun
      /\ Server!TypeOK
  BY ServerTypes DEF ServerInv
<1>8. /\ local'[v] = local[v] \cup drive[v].files
      /\ \A u \in ServerUnits : u # v => local'[u] = local[u]
      /\ local' \in [ServerUnits -> SUBSET (1 .. ServerRuns)]
  BY <1>1, <1>6, <1>7 DEF ServerPackages
<1>9. /\ report' \in ServerReports /\ report'.run <= serverRun
      /\ report'.status = "completed_before_stage_package_publish"
  <2>1. drive[v].report = [unit |-> v, run |-> drive[v].run,
                           status |-> "completed_before_stage_package_publish"]
    BY <1>1, <1>6, ServerConstants
    DEF ServerInv, ServerReportsKnown, Server!PackagedReportIsOwn, Server!NoRun
  <2>2. drive[v].report \in ServerReports /\ drive[v].run <= serverRun
    BY <1>6, <1>7 DEF ServerPackages
  <2>3. QED BY <1>1, <2>1, <2>2
<1>10. Server!TypeOK'
  <2>1. step' \in Nat BY <1>1, <1>2
  <2>2. QED BY <1>1, <1>7, <1>8, <1>9, <2>1, ServerTypes, ServerTypesNext
<1>11. QueueKnown'
  BY <1>1, <1>4, DeliveredStays DEF ServerInv, QueueKnown, AtUnit, InPipeline
<1>12. UnitStepKnown'
  <2>1. step + 1 <= Len(r) BY <1>2, <1>3, <1>5
  <2>2. QED BY <1>1, <1>4, <2>1 DEF UnitStepKnown
<1>13. ServerReportsKnown'
  <2>1. Server!PassMeansPublished' BY <1>1 DEF Server!PassMeansPublished
  <2>2. Server!PackagedReportIsOwn'
    BY <1>1 DEF ServerInv, ServerReportsKnown, Server!PackagedReportIsOwn
  <2>3. QED BY <1>1, <1>9, <2>1, <2>2 DEF ServerReportsKnown
<1>14. WorkspaceKnown'
  <2>1. \A u : ~OwnWork(u) BY <1>1 DEF OwnWork
  <2>2. \A u \in Server!Range(serverTodo) : u \in ServerUnits
    <3>1. \A q \in Queues : \A u \in Server!Range(q) : u \in ServerUnits
      BY QueueRanges DEF Queues, ServerUnits
    <3>2. QED BY <3>1 DEF ServerInv, QueueKnown
  <2>3. serverArgs.reset => \A u \in Server!Range(serverTodo) : local'[u] = {}
    BY <1>1, <1>6, <1>8, <2>1, <2>2 DEF ServerInv, WorkspaceKnown, InPipeline, AtUnit
  <2>4. QED BY <1>1, <1>4, <2>3 DEF WorkspaceKnown
<1>15. InputsKnown'
  <2> SUFFICES ASSUME serverArgs.reset, ~serverArgs.goOn PROVE InputsKnown'
    BY <1>1 DEF InputsKnown
  <2>1. /\ \A u \in ServerUnits : u \notin Server!Range(serverTodo) /\ u # "gate" =>
                       local[u] \in {{}, drive[u].files}
        /\ \A i \in 1 .. step : local[r[i]] = drive[r[i]].files
    BY <1>1 DEF ServerInv, InputsKnown, InPipeline, AtUnit, InputsRestored
  <2>2. local'[v] = drive[v].files BY <1>6, <1>8, <2>1
  <2>3. \A u \in ServerUnits : u \notin Server!Range(serverTodo) /\ u # "gate" =>
                       local'[u] \in {{}, drive[u].files}
    BY <1>8, <2>1, <2>2
  <2>4. \A i \in 1 .. step + 1 : local'[r[i]] = drive[r[i]].files
    <3> SUFFICES ASSUME NEW i \in 1 .. step + 1 PROVE local'[r[i]] = drive[r[i]].files
      OBVIOUS
    <3>1. CASE i = step + 1 BY <1>1, <2>2, <3>1
    <3>2. CASE i \in 1 .. step
      <4>1. i \in 1 .. Len(r) BY <1>2, <1>3, <3>2
      <4>2. r[i] \in ServerUnits BY <1>3, <4>1
      <4>3. local[r[i]] = drive[r[i]].files BY <2>1, <3>2
      <4>4. QED BY <1>8, <2>2, <4>2, <4>3
    <3>3. QED BY <1>5, <3>1, <3>2
  <2> HIDE DEF r
  <2>5. InputsRestored(step)' BY <1>1, <1>4, <2>4 DEF InputsRestored, r
  <2>6. QED BY <1>1, <1>4, <2>3, <2>5 DEF InputsKnown
<1>16. QED BY <1>10, <1>11, <1>12, <1>13, <1>14, <1>15 DEF ServerInv

LEMMA TimerStarts ==
  ASSUME ServerInv, Server!StartTimer
  PROVE  ServerInv'
<1>1. /\ serverPc = "restore" /\ step = Len(MCRequires[Server!unit])
      /\ report' = Server!Report("running") /\ finished' = FALSE
      /\ serverPc' = "stages" /\ step' = 0
      /\ UNCHANGED <<serverRun, serverArgs, serverTodo, local, drive, serverDecision, exit, kills>>
  BY DEF Server!StartTimer, Server!AllRestored
<1>2. serverTodo # <<>> BY <1>1 DEF ServerInv, QueueKnown, AtUnit
<1>3. Server!unit \in ServerUnits BY <1>2, UnitKnown DEF ServerInv
<1>4. Server!unit' = Server!unit /\ Server!Stages' = Server!Stages BY <1>1, SameUnit
<1>5. Server!TypeOK /\ serverRun \in 0 .. ServerRuns /\ ServerRuns \in Nat
  BY ServerTypes, ServerConstants DEF ServerInv
<1>6. Server!TypeOK'
  <2>1. report' \in ServerReports /\ report'.run <= serverRun
    BY <1>1, <1>3, <1>5 DEF Server!Report, ServerReports, ServerStatuses
  <2>2. serverPc' \in ServerPhases /\ step' \in Nat /\ finished' \in BOOLEAN
    BY <1>1 DEF ServerPhases
  <2>3. QED BY <1>1, <1>5, <2>1, <2>2, ServerTypes, ServerTypesNext
<1>7. QueueKnown'
  BY <1>1, RangeOfQueue, DeliveredStays DEF ServerInv, QueueKnown, AtUnit, InPipeline
<1>8. UnitStepKnown'
  <2>1. Len(Server!Stages) \in Nat BY <1>2, PlanOfUnit DEF ServerInv
  <2>2. 0 <= Len(Server!Stages) BY <2>1
  <2>3. QED BY <1>1, <1>4, <2>2 DEF UnitStepKnown
<1>9. ServerReportsKnown'
  <2>1. Server!PassMeansPublished' BY <1>1 DEF Server!PassMeansPublished
  <2>2. Server!PackagedReportIsOwn'
    BY <1>1 DEF ServerInv, ServerReportsKnown, Server!PackagedReportIsOwn
  <2>3. QED BY <1>1, <2>1, <2>2 DEF ServerReportsKnown
<1>10. WorkspaceKnown'
  <2>1. \A u : ~OwnWork(u) BY <1>1 DEF OwnWork
  <2>2. Server!unit \in Server!Range(serverTodo) BY <1>2, UnitKnown DEF ServerInv
  <2>3. serverArgs.reset => \A u \in Server!Range(serverTodo) : local[u] = {}
    BY <1>1, <2>1 DEF ServerInv, WorkspaceKnown, InPipeline, AtUnit
  <2>4. QED BY <1>1, <1>4, <2>2, <2>3, RangeOfQueue DEF WorkspaceKnown, InPipeline, AtUnit
<1>11. InputsKnown'
  BY <1>1, <1>4, RangeOfQueue DEF ServerInv, InputsKnown, InputsRestored, InPipeline, AtUnit
<1>12. QED BY <1>6, <1>7, <1>8, <1>9, <1>10, <1>11 DEF ServerInv

LEMMA FilesAreWritten ==
  ASSUME ServerInv, serverPc = "stages", Server!WritesFiles
  PROVE  /\ local' \in [ServerUnits -> SUBSET (1 .. ServerRuns)]
         /\ local'[Server!unit] = local[Server!unit] \cup {serverRun}
         /\ \A u \in ServerUnits : u # Server!unit => local'[u] = local[u]
<1>1. Server!unit \in ServerUnits BY UnitKnown DEF ServerInv, QueueKnown, AtUnit
<1>2. serverRun \in 1 .. ServerRuns BY ServerTypes DEF ServerInv, QueueKnown
<1>3. local \in [ServerUnits -> SUBSET (1 .. ServerRuns)] BY ServerTypes DEF ServerInv
<1>4. QED BY <1>1, <1>2, <1>3 DEF Server!WritesFiles

LEMMA StageIsDone ==
  ASSUME ServerInv, Server!StageCompletes
  PROVE  ServerInv'
<1>1. /\ serverPc = "stages" /\ step < Len(Server!Stages) /\ step' = step + 1
      /\ \/ /\ Server!Stages[step + 1] = "drive_packaging"
            /\ serverPc' = "publish" /\ finished' = TRUE /\ report' = UnitReport
         \/ /\ Server!Stages[step + 1] # "drive_packaging"
            /\ serverPc' = "stages" /\ finished' = finished /\ report' = Server!Report("running")
      /\ UNCHANGED <<serverRun, serverArgs, serverTodo, drive, serverDecision, exit, kills>>
  BY DEF Server!StageCompletes, Server!AtStage, Server!stage, UnitReport
<1>2. /\ local' \in [ServerUnits -> SUBSET (1 .. ServerRuns)]
      /\ local'[Server!unit] = local[Server!unit] \cup {serverRun}
      /\ \A u \in ServerUnits : u # Server!unit => local'[u] = local[u]
  BY <1>1, FilesAreWritten DEF Server!StageCompletes
<1>3. serverTodo # <<>> BY <1>1 DEF ServerInv, QueueKnown, AtUnit
<1>4. /\ Server!unit \in ServerUnits /\ Server!unit \in Server!Range(serverTodo)
      /\ Len(Server!Stages) \in Nat /\ step \in Nat
      /\ \A i \in 1 .. Len(MCRequires[Server!unit]) :
           /\ MCRequires[Server!unit][i] \in ServerUnits
           /\ MCRequires[Server!unit][i] # Server!unit
  BY <1>3, UnitKnown, PlanOfUnit, ServerTypes DEF ServerInv
<1>5. /\ Server!unit' = Server!unit /\ Server!Stages' = Server!Stages
      /\ Server!Range(serverTodo)' = Server!Range(serverTodo)
  BY <1>1, SameUnit, RangeOfQueue
<1>6. /\ serverPc' = "publish" => Server!unit # "base1" /\ step + 1 = Len(Server!Stages)
      /\ serverPc' = "stages" /\ Server!unit # "base1" => step + 1 # 2
  <2>1. CASE Server!unit = "base1"
    <3>1. Len(Server!Stages) = 1 /\ Server!Stages[1] # "drive_packaging"
      BY <1>3, <2>1, PlanOfUnit DEF ServerInv
    <3>2. step = 0 BY <1>1, <1>4, <3>1
    <3>3. QED BY <1>1, <2>1, <3>1, <3>2
  <2>2. CASE Server!unit # "base1"
    <3>1. /\ Len(Server!Stages) = 2 /\ Server!Stages[1] # "drive_packaging"
          /\ Server!Stages[2] = "drive_packaging"
      BY <1>3, <2>2, PlanOfUnit DEF ServerInv
    <3>2. (step = 0 /\ step + 1 = 1) \/ (step = 1 /\ step + 1 = 2) BY <1>1, <1>4, <3>1
    <3>3. QED BY <1>1, <2>2, <3>1, <3>2
  <2>3. QED BY <2>1, <2>2
<1>7. ~finished
  <2>1. step # Len(Server!Stages) BY <1>1, <1>4
  <2>2. QED BY <1>1, <2>1 DEF ServerInv, ServerReportsKnown
<1>8. Server!TypeOK /\ serverRun \in 0 .. ServerRuns /\ ServerRuns \in Nat
  BY ServerTypes, ServerConstants DEF ServerInv
<1>9. UnitReport' = UnitReport BY <1>1, <1>5 DEF UnitReport, Server!Report
<1>10. Server!TypeOK'
  <2>1. report' \in ServerReports /\ report'.run <= serverRun
    BY <1>1, <1>4, <1>8 DEF UnitReport, Server!Report, ServerReports, ServerStatuses
  <2>4. serverPc' \in ServerPhases /\ step' \in Nat BY <1>1, <1>4 DEF ServerPhases
  <2>5. finished \in BOOLEAN BY ServerTypes DEF ServerInv
  <2>2. finished' \in BOOLEAN BY <1>1, <2>5
  <2>3. QED BY <1>1, <1>2, <1>8, <2>1, <2>2, <2>4, ServerTypes, ServerTypesNext
<1>11. QueueKnown'
  BY <1>1, <1>5, DeliveredStays DEF ServerInv, QueueKnown, AtUnit, InPipeline
<1>12. UnitStepKnown'
  <2>1. step + 1 <= Len(Server!Stages) BY <1>1, <1>4
  <2>2. QED BY <1>1, <1>5, <1>6, <2>1 DEF UnitStepKnown
<1>13. ServerReportsKnown'
  <2>1. Server!PassMeansPublished' BY <1>1 DEF Server!PassMeansPublished
  <2>2. Server!PackagedReportIsOwn'
    BY <1>1 DEF ServerInv, ServerReportsKnown, Server!PackagedReportIsOwn
  <2>3. UnitReport.status # "running" BY DEF UnitReport, Server!Report
  <2>4. QED BY <1>1, <1>7, <1>9, <2>1, <2>2, <2>3 DEF ServerReportsKnown
<1>14. WorkspaceKnown'
  <2> SUFFICES ASSUME serverArgs.reset PROVE WorkspaceKnown'
    BY <1>1 DEF WorkspaceKnown
  <2>1. /\ \A u \in Server!Range(serverTodo) : u # Server!unit => local[u] = {}
        /\ local[Server!unit] \in {{}, {serverRun}}
    BY <1>1 DEF ServerInv, WorkspaceKnown, InPipeline, AtUnit, OwnWork
  <2>2. \A u \in Server!Range(serverTodo) : u \in ServerUnits
    <3>1. \A q \in Queues : \A u \in Server!Range(q) : u \in ServerUnits
      BY QueueRanges DEF Queues, ServerUnits
    <3>2. QED BY <3>1 DEF ServerInv, QueueKnown
  <2>3. /\ \A u \in Server!Range(serverTodo) : u # Server!unit => local'[u] = {}
        /\ local'[Server!unit] = {serverRun}
    BY <1>2, <2>1, <2>2
  <2>4. serverPc' \in {"stages", "publish"} BY <1>1
  <2>5. QED BY <1>1, <1>5, <2>3, <2>4 DEF WorkspaceKnown, OwnWork
<1>15. InputsKnown'
  <2> SUFFICES ASSUME serverArgs.reset, ~serverArgs.goOn PROVE InputsKnown'
    BY <1>1 DEF InputsKnown
  <2>1. /\ \A u \in ServerUnits : u \notin Server!Range(serverTodo) /\ u # "gate" =>
                       local[u] \in {{}, drive[u].files}
        /\ InputsRestored(Len(MCRequires[Server!unit]))
    BY <1>1 DEF ServerInv, InputsKnown, InPipeline, AtUnit
  <2>2. \A u \in ServerUnits : u \notin Server!Range(serverTodo) /\ u # "gate" =>
                       local'[u] \in {{}, drive[u].files}
    BY <1>2, <1>4, <2>1
  <2>3. InputsRestored(Len(MCRequires[Server!unit]))'
    BY <1>1, <1>2, <1>4, <1>5, <2>1 DEF InputsRestored
  <2>4. ~(serverPc' = "stages" /\ Server!unit \notin {"base1", "gate"} /\ step' = 2)
    BY <1>1, <1>6
  <2>5. serverPc' \in {"stages", "publish"} BY <1>1
  <2>6. QED BY <1>1, <1>5, <2>2, <2>3, <2>4, <2>5 DEF InputsKnown
<1>16. QED BY <1>10, <1>11, <1>12, <1>13, <1>14, <1>15 DEF ServerInv

(* A unit that is over: the next one finds its package, or its excuse.      *)
LEMMA UnitEnds ==
  ASSUME ServerInv, AtUnit, serverPc' = "next", serverTodo' = Tail(serverTodo),
         UNCHANGED <<serverRun, serverArgs, step, serverDecision, exit, kills, local>>,
         finished' \in BOOLEAN, report' \in ServerReports, report'.run <= serverRun,
         report'.run = serverRun => report'.status # "running",
         drive' \in [ServerUnits -> ServerPackages], Server!PackagedReportIsOwn',
         \A u \in ServerUnits : drive'[u].run <= serverRun,
         \A u \in ServerUnits : u # Server!unit => drive'[u] = drive[u],
         \A u : u = Server!unit => Delivered(u)',
         serverArgs.reset /\ ~serverArgs.goOn /\ Server!unit # "gate" =>
           drive'[Server!unit].files = local[Server!unit]
  PROVE  ServerInv'
<1>1. serverTodo # <<>> BY DEF ServerInv, QueueKnown
<1>2. /\ Server!unit \in ServerUnits /\ Tail(serverTodo) \in Queues
      /\ Server!Range(serverTodo) = {Server!unit} \cup Server!Range(Tail(serverTodo))
      /\ Server!unit \notin Server!Range(Tail(serverTodo))
  BY <1>1, UnitKnown DEF ServerInv
<1>3. Server!Range(serverTodo)' = Server!Range(Tail(serverTodo)) BY DEF Server!Range
<1>4. Server!TypeOK'
  <2>1. serverPc' \in ServerPhases BY DEF ServerPhases
  <2>2. serverTodo' \in Seq(ServerUnits) BY <1>2, QueuesAreSequences
  <2>3. Server!TypeOK BY DEF ServerInv
  <2>4. QED BY <2>1, <2>2, <2>3, ServerTypes, ServerTypesNext
<1>5. \A u \in ServerUnits : Delivered(u) => Delivered(u)'
  <2> SUFFICES ASSUME NEW u \in ServerUnits, Delivered(u) PROVE Delivered(u)' OBVIOUS
  <2>1. CASE u = Server!unit BY <2>1
  <2>2. CASE u # Server!unit BY <2>2 DEF Delivered
  <2>3. QED BY <2>1, <2>2
<1>6. QueueKnown'
  <2>1. /\ serverArgs.pipeline \in DOMAIN MCPipelines /\ serverRun > 0
        /\ \A u \in Server!Range(MCPipelines[serverArgs.pipeline]) :
            u \notin Server!Range(serverTodo) => Delivered(u)
    BY DEF ServerInv, QueueKnown, InPipeline, AtUnit
  <2>2. \A u \in Server!Range(MCPipelines[serverArgs.pipeline]) : u \in ServerUnits
    <3>1. MCPipelines[serverArgs.pipeline] \in Queues BY <2>1, ServerConstants DEF Queues
    <3>2. \A q \in Queues : \A u \in Server!Range(q) : u \in ServerUnits
      BY QueueRanges DEF Queues, ServerUnits
    <3>3. QED BY <3>1, <3>2
  <2>3. Server!Range(MCPipelines[serverArgs.pipeline])' = Server!Range(MCPipelines[serverArgs.pipeline])
    BY DEF Server!Range
  <2>4. \A u \in Server!Range(MCPipelines[serverArgs.pipeline]) :
            u \notin Server!Range(serverTodo)' => Delivered(u)'
    <3> SUFFICES ASSUME NEW u \in Server!Range(MCPipelines[serverArgs.pipeline]),
                        u \notin Server!Range(serverTodo)'
                 PROVE  Delivered(u)' OBVIOUS
    <3>1. CASE u = Server!unit BY <3>1
    <3>2. CASE u # Server!unit BY <1>2, <1>3, <1>5, <2>1, <2>2, <3>2
    <3>3. QED BY <3>1, <3>2
  <2>5. QED BY <1>2, <2>1, <2>3, <2>4 DEF QueueKnown, AtUnit, InPipeline
<1>7. UnitStepKnown' BY DEF UnitStepKnown
<1>8. ServerReportsKnown'
  <2>1. Server!PassMeansPublished' BY DEF Server!PassMeansPublished
  <2>2. QED BY <2>1 DEF ServerReportsKnown
<1>9. WorkspaceKnown'
  <2> SUFFICES ASSUME serverArgs.reset PROVE WorkspaceKnown' BY DEF WorkspaceKnown
  <2>1. \A u \in Server!Range(serverTodo) : u # Server!unit => local[u] = {}
    BY DEF ServerInv, WorkspaceKnown, InPipeline, OwnWork
  <2>2. \A u \in Server!Range(serverTodo)' : local'[u] = {} BY <1>2, <1>3, <2>1
  <2>3. QED BY <2>2 DEF WorkspaceKnown
<1>10. InputsKnown'
  <2> SUFFICES ASSUME serverArgs.reset, ~serverArgs.goOn PROVE InputsKnown'
    BY DEF InputsKnown
  <2>1. \A u \in ServerUnits : u \notin Server!Range(serverTodo) /\ u # "gate" =>
                       local[u] \in {{}, drive[u].files}
    BY DEF ServerInv, InputsKnown, InPipeline
  <2>2. \A u \in ServerUnits : u \notin Server!Range(serverTodo)' /\ u # "gate" =>
                       local'[u] \in {{}, drive'[u].files}
    <3> SUFFICES ASSUME NEW u \in ServerUnits, u \notin Server!Range(serverTodo)', u # "gate"
                 PROVE  local'[u] \in {{}, drive'[u].files} OBVIOUS
    <3>1. CASE u = Server!unit BY <3>1
    <3>2. CASE u # Server!unit BY <1>2, <1>3, <2>1, <3>2
    <3>3. QED BY <3>1, <3>2
  <2>3. QED BY <2>2 DEF InputsKnown
<1>11. QED BY <1>4, <1>6, <1>7, <1>8, <1>9, <1>10 DEF ServerInv

LEMMA StagesAreOver ==
  ASSUME ServerInv, Server!StagesEnd
  PROVE  ServerInv'
<1>1. /\ serverPc = "stages" /\ step = Len(Server!Stages) /\ finished' = TRUE
      /\ UNCHANGED <<serverRun, serverArgs, step, local, drive, serverDecision, exit, kills>>
      /\ Server!unit = "base1" => serverPc' = "publish" /\ report' = UnitReport
                                  /\ serverTodo' = serverTodo
      /\ Server!unit # "base1" =>
           /\ serverPc' = "next" /\ serverTodo' = Tail(serverTodo)
           /\ report' = IF finished THEN report ELSE Server!Report("completed")
  BY DEF Server!StagesEnd, UnitReport
<1>2. serverTodo # <<>> /\ AtUnit BY <1>1 DEF ServerInv, QueueKnown, AtUnit
<1>3. Server!unit \in ServerUnits BY <1>2, UnitKnown DEF ServerInv
<1>4. /\ Server!TypeOK /\ serverRun \in 0 .. ServerRuns /\ ServerRuns \in Nat
      /\ drive \in [ServerUnits -> ServerPackages] /\ report \in ServerReports
      /\ report.run <= serverRun /\ \A u \in ServerUnits : drive[u].run <= serverRun
      /\ local \in [ServerUnits -> SUBSET (1 .. ServerRuns)]
  BY ServerTypes, ServerConstants DEF ServerInv
<1>5. Server!PackagedReportIsOwn'
  BY <1>1 DEF ServerInv, ServerReportsKnown, Server!PackagedReportIsOwn
<1>6. \A s \in ServerStatuses : /\ Server!Report(s) \in ServerReports
                                /\ Server!Report(s).run = serverRun /\ Server!Report(s).status = s
  BY <1>3, <1>4 DEF Server!Report, ServerReports
<1>7. CASE Server!unit = "base1"
  <2>1. /\ Server!unit' = Server!unit /\ Server!Stages' = Server!Stages
        /\ Server!Range(serverTodo)' = Server!Range(serverTodo)
    BY <1>1, <1>7, SameUnit, RangeOfQueue
  <2>2. Len(Server!Stages) = 1 BY <1>2, <1>7, PlanOfUnit DEF ServerInv
  <2>3. UnitReport' = UnitReport BY <1>1, <2>1 DEF UnitReport, Server!Report
  <2>4. Server!TypeOK'
    <3>1. report' \in ServerReports /\ report'.run <= serverRun
      BY <1>1, <1>4, <1>6, <1>7 DEF UnitReport, ServerStatuses
    <3>2. serverPc' \in ServerPhases /\ finished' \in BOOLEAN BY <1>1, <1>7 DEF ServerPhases
    <3>3. QED BY <1>1, <1>4, <1>7, <3>1, <3>2, ServerTypes, ServerTypesNext
  <2>5. QueueKnown'
    BY <1>1, <1>7, <2>1, DeliveredStays DEF ServerInv, QueueKnown, AtUnit, InPipeline
  <2>6. UnitStepKnown' BY <1>1, <1>7, <2>1 DEF UnitStepKnown
  <2>7. ServerReportsKnown'
    <3>1. Server!PassMeansPublished' BY <1>1, <1>7 DEF Server!PassMeansPublished
    <3>2. UnitReport.status # "running" BY DEF UnitReport, Server!Report
    <3>3. QED BY <1>1, <1>5, <1>7, <2>3, <3>1, <3>2 DEF ServerReportsKnown
  <2>8. WorkspaceKnown'
    <3> SUFFICES ASSUME serverArgs.reset PROVE WorkspaceKnown' BY <1>1 DEF WorkspaceKnown
    <3>1. /\ \A u \in Server!Range(serverTodo) : u # Server!unit => local[u] = {}
          /\ local[Server!unit] \in {{}, {serverRun}}
          /\ local[Server!unit] = {serverRun}
      BY <1>1, <2>2 DEF ServerInv, WorkspaceKnown, InPipeline, AtUnit, OwnWork
    <3>2. QED BY <1>1, <1>7, <2>1, <3>1 DEF WorkspaceKnown, OwnWork
  <2>9. InputsKnown'
    BY <1>1, <1>7, <2>1 DEF ServerInv, InputsKnown, InputsRestored, InPipeline, AtUnit
  <2>10. QED BY <2>4, <2>5, <2>6, <2>7, <2>8, <2>9 DEF ServerInv
<1>8. CASE Server!unit # "base1"
  <2>1. step = 2 BY <1>1, <1>2, <1>8, PlanOfUnit DEF ServerInv
  <2>2. Delivered(Server!unit) BY <1>1, <1>8, <2>1 DEF ServerInv, UnitStepKnown
  <2>3. \A u : u = Server!unit => Delivered(u)' BY <1>1, <2>2 DEF Delivered
  <2>4. report' \in ServerReports /\ report'.run <= serverRun /\ report'.status # "running"
    <3>1. finished => report.status # "running" BY <1>1 DEF ServerInv, ServerReportsKnown
    <3>2. QED BY <1>1, <1>4, <1>6, <1>8, <3>1 DEF ServerStatuses
  <2>5. serverArgs.reset /\ ~serverArgs.goOn /\ Server!unit # "gate" =>
           drive'[Server!unit].files = local[Server!unit]
    BY <1>1, <1>8, <2>1 DEF ServerInv, InputsKnown
  <2>6. finished' \in BOOLEAN BY <1>1
  <2>7. /\ drive' \in [ServerUnits -> ServerPackages]
        /\ \A u \in ServerUnits : drive'[u].run <= serverRun
        /\ \A u \in ServerUnits : u # Server!unit => drive'[u] = drive[u]
    BY <1>1, <1>4
  <2>8. QED BY <1>1, <1>2, <1>5, <1>8, <2>3, <2>4, <2>5, <2>6, <2>7, UnitEnds
<1>9. QED BY <1>7, <1>8

(* A role goes on after its publication, whatever it found on Drive.        *)
LEMMA RoleGoesOn ==
  ASSUME ServerInv, serverPc = "publish", serverPc' = "stages", Server!unit # "base1",
         report' = report, finished' = finished,
         UNCHANGED <<serverRun, serverArgs, serverTodo, step, serverDecision, exit, kills, local>>,
         drive' \in [ServerUnits -> ServerPackages], Server!PackagedReportIsOwn',
         \A u \in ServerUnits : drive'[u].run <= serverRun,
         \A u \in ServerUnits : u # Server!unit => drive'[u] = drive[u],
         \A u : u = Server!unit => Delivered(u)',
         Server!unit # "gate" => drive'[Server!unit].files = local[Server!unit]
  PROVE  ServerInv'
<1>1. serverTodo # <<>> BY DEF ServerInv, QueueKnown, AtUnit
<1>2. /\ Server!unit \in ServerUnits /\ Server!unit \in Server!Range(serverTodo)
      /\ \A i \in 1 .. Len(MCRequires[Server!unit]) :
           /\ MCRequires[Server!unit][i] \in ServerUnits
           /\ MCRequires[Server!unit][i] # Server!unit
  BY <1>1, UnitKnown DEF ServerInv
<1>3. /\ Server!unit' = Server!unit /\ Server!Stages' = Server!Stages
      /\ Server!Range(serverTodo)' = Server!Range(serverTodo)
  BY SameUnit, RangeOfQueue
<1>4. step = Len(Server!Stages) /\ Len(Server!Stages) \in Nat
  BY <1>1, PlanOfUnit DEF ServerInv, UnitStepKnown
<1>5. \A u \in ServerUnits : Delivered(u) => Delivered(u)'
  <2> SUFFICES ASSUME NEW u \in ServerUnits, Delivered(u) PROVE Delivered(u)' OBVIOUS
  <2>1. CASE u = Server!unit BY <2>1
  <2>2. CASE u # Server!unit BY <2>2 DEF Delivered
  <2>3. QED BY <2>1, <2>2
<1>6. Server!TypeOK'
  <2>1. serverPc' \in ServerPhases BY DEF ServerPhases
  <2>2. Server!TypeOK BY DEF ServerInv
  <2>3. QED BY <2>1, <2>2, ServerTypes, ServerTypesNext
<1>7. QueueKnown'
  <2>1. /\ serverArgs.pipeline \in DOMAIN MCPipelines /\ serverRun > 0 /\ serverTodo \in Queues
        /\ \A u \in Server!Range(MCPipelines[serverArgs.pipeline]) :
            u \notin Server!Range(serverTodo) => Delivered(u)
    BY DEF ServerInv, QueueKnown, InPipeline, AtUnit
  <2>2. \A u \in Server!Range(MCPipelines[serverArgs.pipeline]) : u \in ServerUnits
    <3>1. MCPipelines[serverArgs.pipeline] \in Queues BY <2>1, ServerConstants DEF Queues
    <3>2. \A q \in Queues : \A u \in Server!Range(q) : u \in ServerUnits
      BY QueueRanges DEF Queues, ServerUnits
    <3>3. QED BY <3>1, <3>2
  <2>3. Server!Range(MCPipelines[serverArgs.pipeline])' = Server!Range(MCPipelines[serverArgs.pipeline])
    BY DEF Server!Range
  <2>4. QED BY <1>1, <1>3, <1>5, <2>1, <2>2, <2>3 DEF QueueKnown, AtUnit, InPipeline
<1>8. UnitStepKnown'
  <2>1. Delivered(Server!unit)' BY <1>3
  <2>2. step <= Len(Server!Stages) BY <1>4
  <2>3. QED BY <1>3, <2>1, <2>2 DEF UnitStepKnown
<1>9. ServerReportsKnown'
  <2>1. Server!PassMeansPublished' BY DEF Server!PassMeansPublished
  <2>2. report.status # "running"
    BY DEF ServerInv, ServerReportsKnown, UnitReport, Server!Report
  <2>3. QED BY <1>3, <1>4, <2>1, <2>2 DEF ServerReportsKnown
<1>10. WorkspaceKnown'
  BY <1>3 DEF ServerInv, WorkspaceKnown, InPipeline, AtUnit, OwnWork
<1>11. InputsKnown'
  <2> SUFFICES ASSUME serverArgs.reset, ~serverArgs.goOn PROVE InputsKnown'
    BY DEF InputsKnown
  <2>1. /\ \A u \in ServerUnits : u \notin Server!Range(serverTodo) /\ u # "gate" =>
                       local[u] \in {{}, drive[u].files}
        /\ InputsRestored(Len(MCRequires[Server!unit]))
    BY DEF ServerInv, InputsKnown, InPipeline, AtUnit
  <2>2. \A u \in ServerUnits : u \notin Server!Range(serverTodo) /\ u # "gate" =>
                       local'[u] \in {{}, drive'[u].files}
    BY <1>2, <2>1
  <2>3. InputsRestored(Len(MCRequires[Server!unit]))'
    BY <1>2, <1>3, <2>1 DEF InputsRestored
  <2>4. Server!unit # "gate" => drive'[Server!unit].files = local'[Server!unit] OBVIOUS
  <2>5. QED BY <1>3, <2>2, <2>3, <2>4 DEF InputsKnown
<1>12. QED BY <1>6, <1>7, <1>8, <1>9, <1>10, <1>11 DEF ServerInv

LEMMA NothingToFinish ==
  ASSUME ServerInv, serverPc = "publish"
  PROVE  Server!FinalReport = report /\ report = UnitReport
BY DEF ServerInv, ServerReportsKnown, UnitReport, Server!Report, Server!FinalReport

LEMMA PackageIsPublished ==
  ASSUME ServerInv, Server!PublishPackage
  PROVE  /\ ServerInv'
         /\ serverArgs.reset => \A u \in ServerUnits : drive'[u] # drive[u] =>
              drive'[u].files = {serverRun}
<1> DEFINE package == [run |-> serverRun, files |-> local[Server!unit], report |-> UnitReport]
<1>1. /\ serverPc = "publish" /\ report' = report /\ report = UnitReport
      /\ drive' = [drive EXCEPT ![Server!unit] = package]
      /\ UNCHANGED <<serverRun, serverArgs, step, finished, local, serverDecision, exit, kills>>
      /\ Server!unit = "base1" => serverPc' = "next" /\ serverTodo' = Tail(serverTodo)
      /\ Server!unit # "base1" => serverPc' = "stages" /\ serverTodo' = serverTodo
  BY NothingToFinish DEF Server!PublishPackage, Server!AfterPublish
<1>2. serverTodo # <<>> /\ AtUnit BY <1>1 DEF ServerInv, QueueKnown, AtUnit
<1>3. Server!unit \in ServerUnits /\ Len(Server!Stages) > 0
  BY <1>2, UnitKnown, PlanOfUnit DEF ServerInv
<1>4. /\ Server!TypeOK /\ serverRun \in 0 .. ServerRuns /\ ServerRuns \in Nat
      /\ drive \in [ServerUnits -> ServerPackages] /\ report \in ServerReports
      /\ report.run <= serverRun /\ \A u \in ServerUnits : drive[u].run <= serverRun
      /\ local \in [ServerUnits -> SUBSET (1 .. ServerRuns)] /\ finished \in BOOLEAN
  BY ServerTypes, ServerConstants DEF ServerInv
<1>5. package \in ServerPackages BY <1>1, <1>3, <1>4 DEF ServerPackages
<1>6. package.run = serverRun /\ package.files = local[Server!unit] /\ package.report = UnitReport
  OBVIOUS
<1> HIDE DEF package
<1>7. /\ drive'[Server!unit] = package /\ drive' \in [ServerUnits -> ServerPackages]
      /\ \A u \in ServerUnits : u # Server!unit => drive'[u] = drive[u]
  BY <1>1, <1>3, <1>4, <1>5
<1>8. \A u \in ServerUnits : drive'[u].run <= serverRun
  BY <1>3, <1>4, <1>6, <1>7
<1>9. Server!PackagedReportIsOwn'
  <2>1. UnitReport = [unit |-> Server!unit, run |-> serverRun,
                      status |-> "completed_before_stage_package_publish"]
    BY DEF UnitReport, Server!Report
  <2>2. \A u \in ServerUnits : drive'[u].run # 0 =>
          drive'[u].report = [unit |-> u, run |-> drive'[u].run,
                              status |-> "completed_before_stage_package_publish"]
    <3> SUFFICES ASSUME NEW u \in ServerUnits, drive'[u].run # 0
                 PROVE  drive'[u].report = [unit |-> u, run |-> drive'[u].run,
                              status |-> "completed_before_stage_package_publish"]
      OBVIOUS
    <3>1. CASE u = Server!unit BY <1>6, <1>7, <2>1, <3>1
    <3>2. CASE u # Server!unit
      BY <1>7, <3>2, ServerConstants
      DEF ServerInv, ServerReportsKnown, Server!PackagedReportIsOwn, Server!NoRun
    <3>3. QED BY <3>1, <3>2
  <2>3. QED BY <2>2, ServerConstants DEF Server!PackagedReportIsOwn, Server!NoRun
<1>10. \A u : u = Server!unit => Delivered(u)' BY <1>1, <1>6, <1>7 DEF Delivered
<1>11. drive'[Server!unit].files = local[Server!unit] BY <1>6, <1>7
<1>12. ServerInv'
  <2>1. CASE Server!unit = "base1"
    <3>1. report'.status # "running" BY <1>1 DEF UnitReport, Server!Report
    <3>2. QED BY <1>1, <1>2, <1>4, <1>7, <1>8, <1>9, <1>10, <1>11, <2>1, <3>1, UnitEnds
  <2>2. CASE Server!unit # "base1"
    BY <1>1, <1>4, <1>7, <1>8, <1>9, <1>10, <1>11, <2>2, RoleGoesOn
  <2>3. QED BY <2>1, <2>2
<1>13. serverArgs.reset => local[Server!unit] = {serverRun}
  BY <1>1, <1>3 DEF ServerInv, UnitStepKnown, WorkspaceKnown
<1>14. QED BY <1>7, <1>11, <1>12, <1>13

LEMMA PackageIsBlocked ==
  ASSUME ServerInv, Server!Blocked
  PROVE  ServerInv'
<1>1. /\ serverPc = "publish" /\ Server!unit \in {"base1", "gate"}
      /\ report' = Server!FinalReport /\ UNCHANGED <<finished, local, drive>>
      /\ \/ Server!unit = "base1" /\ Server!Fail
         \/ /\ Server!unit = "base1" /\ serverArgs.goOn
            /\ serverPc' = "next" /\ serverTodo' = Tail(serverTodo)
            /\ UNCHANGED <<serverRun, serverArgs, step, serverDecision, exit, kills>>
         \/ /\ Server!unit # "base1" /\ serverPc' = "stages" /\ serverTodo' = serverTodo
            /\ UNCHANGED <<serverRun, serverArgs, step, serverDecision, exit, kills>>
  BY DEF Server!Blocked, Server!PublishBlocked, Server!AfterPublish
<1>2. report' = report /\ report = UnitReport /\ AtUnit BY <1>1, NothingToFinish DEF AtUnit
<1>3. /\ drive' \in [ServerUnits -> ServerPackages] /\ report' \in ServerReports
      /\ report'.run <= serverRun /\ \A u \in ServerUnits : drive'[u].run <= serverRun
      /\ finished' \in BOOLEAN /\ \A u \in ServerUnits : u # Server!unit => drive'[u] = drive[u]
  BY <1>1, <1>2, ServerTypes DEF ServerInv
<1>4. Server!PackagedReportIsOwn'
  BY <1>1 DEF ServerInv, ServerReportsKnown, Server!PackagedReportIsOwn
<1>5. CASE Server!unit = "base1" /\ Server!Fail
  BY <1>1, <1>5, UnitFailures
<1>6. CASE /\ Server!unit = "base1" /\ serverArgs.goOn
           /\ serverPc' = "next" /\ serverTodo' = Tail(serverTodo)
           /\ UNCHANGED <<serverRun, serverArgs, step, serverDecision, exit, kills>>
  <2>1. report'.status # "running" BY <1>2 DEF UnitReport, Server!Report
  <2>2. \A u : u = Server!unit => Delivered(u)' BY <1>6 DEF Delivered
  <2>3. QED BY <1>1, <1>2, <1>3, <1>4, <1>6, <2>1, <2>2, UnitEnds
<1>7. CASE /\ Server!unit # "base1" /\ serverPc' = "stages" /\ serverTodo' = serverTodo
           /\ UNCHANGED <<serverRun, serverArgs, step, serverDecision, exit, kills>>
  <2>1. Server!unit = "gate" BY <1>1, <1>7
  <2>2. \A u : u = Server!unit => Delivered(u)' BY <2>1 DEF Delivered
  <2>3. QED BY <1>1, <1>2, <1>3, <1>4, <1>7, <2>1, <2>2, RoleGoesOn
<1>8. QED BY <1>1, <1>5, <1>6, <1>7

LEMMA NextServerInv ==
  ASSUME ServerInv, Server!Next
  PROVE  ServerInv'
<1>1. ASSUME NEW a \in Server!Args, Server!Start(a) \/ Server!ResetRaises(a) PROVE ServerInv'
  BY <1>1, CommandStarts
<1>2. CASE Server!Preflight
  <2>1. serverPc = "preflight" /\ Server!FilesStay BY <1>2 DEF Server!Preflight
  <2>2. CASE Server!Fail BY <2>1, <2>2, UnitFailures
  <2>3. CASE ~Server!Fail BY <1>2, <2>1, <2>3, PipelineStarts
  <2>4. QED BY <2>2, <2>3
<1>3. CASE \/ Server!LeaveMain \/ Server!RecoveryPackage \/ Server!DryRun
           \/ Server!RunColabTest \/ Server!PipelineEnds \/ Server!Kill
  BY <1>3, ServerEndings
<1>4. CASE Server!RunUnit
  BY <1>4, UnitBegins, InputIsRestored, TimerStarts, StageIsDone, StagesAreOver,
     PackageIsPublished, PackageIsBlocked, UnitFailures
  DEF Server!RunUnit
<1>5. CASE Server!NewMachine BY <1>5, MachineChanges
<1>6. QED BY <1>1, <1>2, <1>3, <1>4, <1>5 DEF Server!Next

(* Only a publication touches Drive.                                        *)
LEMMA ResetPublishesItsOwn ==
  ASSUME ServerInv, Server!Next, serverArgs.reset, NEW u \in ServerUnits, drive'[u] # drive[u]
  PROVE  drive'[u].files = {serverRun}
<1>1. CASE Server!PublishPackage BY <1>1, PackageIsPublished
<1>2. CASE ~Server!PublishPackage
  <2>1. drive' = drive
    BY <1>2 DEF Server!Next, Server!Start, Server!ResetRaises, Server!Begin, Server!LeaveMain,
       Server!RecoveryPackage, Server!DryRun, Server!Preflight, Server!RunColabTest,
       Server!RunUnit, Server!BeginUnit, Server!RestoreInput, Server!InputMissing,
       Server!StartTimer, Server!StageCompletes, Server!HelperRaises, Server!CommandFails,
       Server!StagesEnd, Server!Blocked, Server!PublishRaises, Server!PipelineEnds,
       Server!Kill, Server!NewMachine, Server!FilesStay
  <2>2. QED BY <2>1
<1>3. QED BY <1>1, <1>2

LEMMA ServerIsAsPromised ==
  ASSUME ServerInv
  PROVE  /\ Server!TypeOK /\ Server!PassMeansPublished /\ Server!InputsAreThePackages
         /\ Server!PackagedReportIsOwn /\ Server!ReportSettles
<1>1. Server!TypeOK /\ Server!PassMeansPublished /\ Server!PackagedReportIsOwn
  BY DEF ServerInv, ServerReportsKnown
<1>2. Server!ReportSettles BY DEF ServerInv, ServerReportsKnown, Server!ReportSettles
<1>3. Server!InputsAreThePackages
  <2> SUFFICES ASSUME serverPc = "stages", serverArgs.reset, ~serverArgs.goOn,
                      NEW u \in Server!Range(MCRequires[Server!unit])
               PROVE  local[u] = drive[u].files
    BY DEF Server!InputsAreThePackages
  <2>1. InputsRestored(Len(MCRequires[Server!unit])) BY DEF ServerInv, InputsKnown
  <2>2. MCRequires[Server!unit] \in Seq(ServerUnits)
    BY UnitKnown DEF ServerInv, QueueKnown, AtUnit
  <2>3. PICK i \in 1 .. Len(MCRequires[Server!unit]) : u = MCRequires[Server!unit][i]
    BY <2>2 DEF Server!Range
  <2>4. QED BY <2>1, <2>3 DEF InputsRestored
<1>4. QED BY <1>1, <1>2, <1>3

LEMMA ServerInvStart ==
  ASSUME Server!Init
  PROVE  ServerInv
<1>1. /\ serverRun = 0 /\ serverPc = "idle" /\ serverTodo = <<>> /\ step = 0
      /\ serverArgs \in Server!Args /\ report = Server!NoReport /\ finished = TRUE
      /\ local = [u \in ServerUnits |-> {}] /\ drive = [u \in ServerUnits |-> Server!NoPackage]
      /\ serverDecision = [run |-> 0, value |-> "none"] /\ exit = "none" /\ kills = 0
  BY ServerConstants DEF Server!Init, Server!NoRun
<1>2. /\ Server!NoReport = [unit |-> "none", run |-> 0, status |-> "none"]
      /\ Server!NoPackage = [run |-> 0, files |-> {}, report |-> Server!NoReport]
  BY DEF Server!NoReport, Server!NoPackage, Server!NoRun
<1>3. Server!TypeOK
  <2>1. ServerRuns \in Nat BY ServerConstants
  <2>2. Server!NoReport \in ServerReports BY <1>2, <2>1 DEF ServerReports, ServerStatuses
  <2>3. Server!NoPackage \in ServerPackages /\ Server!NoPackage.run = 0
    BY <1>2, <2>1, <2>2 DEF ServerPackages
  <2>4. serverDecision \in ServerDecisions /\ serverDecision.run <= 0
    BY <1>1, <2>1 DEF ServerDecisions
  <2>5. <<>> \in Seq(ServerUnits) /\ 0 \in Nat /\ 0 \in 0 .. ServerRuns /\ 0 \in 0 .. 1
    BY <2>1
  <2>6. serverPc \in ServerPhases /\ exit \in ServerExits BY <1>1 DEF ServerPhases, ServerExits
  <2>7. /\ local \in [ServerUnits -> SUBSET (1 .. ServerRuns)]
        /\ drive \in [ServerUnits -> ServerPackages]
        /\ \A u \in ServerUnits : drive[u].run <= 0
    BY <1>1, <2>3
  <2>8. report.run <= 0 BY <1>1, <1>2
  <2>9. QED BY <1>1, <2>2, <2>4, <2>5, <2>6, <2>7, <2>8, ServerTypes
<1>4. QueueKnown BY <1>1 DEF QueueKnown, Queues, AtUnit, InPipeline
<1>5. UnitStepKnown BY <1>1 DEF UnitStepKnown
<1>6. ServerReportsKnown
  <2>1. Server!PassMeansPublished BY <1>1 DEF Server!PassMeansPublished
  <2>2. Server!PackagedReportIsOwn
    BY <1>1, <1>2, ServerConstants DEF Server!PackagedReportIsOwn, Server!NoRun
  <2>3. QED BY <1>1, <1>2, <2>1, <2>2 DEF ServerReportsKnown
<1>7. WorkspaceKnown BY <1>1 DEF WorkspaceKnown, InPipeline, AtUnit
<1>8. InputsKnown BY <1>1 DEF InputsKnown, InPipeline, AtUnit
<1>9. QED BY <1>3, <1>4, <1>5, <1>6, <1>7, <1>8 DEF ServerInv

LEMMA ServerStutters ==
  ASSUME ServerInv, UNCHANGED Server!vars
  PROVE  ServerInv'
<1>1. UNCHANGED <<serverRun, serverArgs, serverPc, serverTodo, step, report, finished, local,
                  drive, serverDecision, exit, kills>>
  BY DEF Server!vars
<1>2. /\ Server!unit' = Server!unit /\ Server!Stages' = Server!Stages
      /\ Server!Range(serverTodo)' = Server!Range(serverTodo)
      /\ UnitReport' = UnitReport
  <2>1. Server!unit' = Server!unit BY <1>1, SameUnit
  <2>2. QED BY <1>1, <2>1, SameUnit, RangeOfQueue DEF UnitReport, Server!Report
<1>3. Server!TypeOK'
  BY <1>1, ServerTypes, ServerTypesNext DEF ServerInv
<1>4. QueueKnown'
  BY <1>1, <1>2, DeliveredStays DEF ServerInv, QueueKnown, InPipeline, AtUnit
<1>5. UnitStepKnown' BY <1>1, <1>2, DeliveredStays DEF ServerInv, UnitStepKnown, Delivered
<1>6. ServerReportsKnown'
  <2>1. Server!PassMeansPublished'
    BY <1>1 DEF ServerInv, ServerReportsKnown, Server!PassMeansPublished, Server!Range
  <2>2. Server!PackagedReportIsOwn'
    BY <1>1 DEF ServerInv, ServerReportsKnown, Server!PackagedReportIsOwn
  <2>3. QED BY <1>1, <1>2, <2>1, <2>2 DEF ServerInv, ServerReportsKnown
<1>7. WorkspaceKnown'
  BY <1>1, <1>2 DEF ServerInv, WorkspaceKnown, InPipeline, AtUnit, OwnWork
<1>8. InputsKnown'
  BY <1>1, <1>2 DEF ServerInv, InputsKnown, InputsRestored, InPipeline, AtUnit
<1>9. QED BY <1>3, <1>4, <1>5, <1>6, <1>7, <1>8 DEF ServerInv

LEMMA ServerProjects == [SomeStep]_allVars => [Server!Next]_(Server!vars)
<1> SUFFICES ASSUME [SomeStep]_allVars PROVE [Server!Next]_(Server!vars)
  OBVIOUS
<1> USE DEF serverVars, Server!vars
<1>1. CASE ServerStep BY <1>1 DEF ServerStep
<1>2. CASE Rest /\ program # "server"
  BY <1>2 DEF Rest
<1>3. CASE UNCHANGED allVars BY <1>3 DEF allVars
<1>4. QED
  BY <1>1, <1>2, <1>3
  DEF SomeStep, ProbeStep, RuntimeStep, PreflightStep, ScoringStep,
      PromotionStep, SetupStep, FramesStep, AtomStep, OfficialReferenceStep,
      CommandsStep, ProvenanceStep

LEMMA NextServer ==
  ServerInv /\ [Server!Next]_(Server!vars) => ServerInv'
BY NextServerInv, ServerStutters

(* For every number of runs: a pipeline that ends well has published each of *)
(* its units in that run, each from the packages it restored, with its own   *)
(* settled timing report; and for every set of compared units, a reference's *)
(* decision counts what is there and its package is of one run.              *)
THEOREM StagesStayPublished == AllSpec => []StagesArePublished
<1>1. Start => ServerInv /\ ReferenceInv BY ServerInvStart, ReferenceStarts DEF Start
<1>2. ServerInv /\ ReferenceInv /\ [SomeStep]_allVars => (ServerInv /\ ReferenceInv)'
  <2>1. ServerInv /\ [SomeStep]_allVars => ServerInv' BY ServerProjects, NextServer
  <2>2. ReferenceInv /\ [SomeStep]_allVars => ReferenceInv'
    BY OfficialReferenceProjects, NextReferenceInv
  <2>3. QED BY <2>1, <2>2
<1>3. ServerInv /\ ReferenceInv => StagesArePublished
  BY ServerIsAsPromised, ReferenceIsAsPromised DEF StagesArePublished
<1>4. QED BY <1>1, <1>2, <1>3, PTL DEF AllSpec

(* A package on Drive is replaced only by that of a later run with a         *)
(* non-empty set of units, each of them with a score in its bundle.  The     *)
(* later run may have fewer units than the earlier one.                      *)
THEOREM PackagesAreReplacedWhole == AllSpec => OfficialReference!PackageIsComplete
<1> DEFINE Whole == referencePackage' # referencePackage =>
         /\ referencePackage'.run > referencePackage.run /\ referencePackage'.units # {}
         /\ \A u \in referencePackage'.units :
              referencePackage'.bundle[u] # OfficialReference!Never
<1>1. Start => ReferenceInv BY ReferenceStarts DEF Start
<1>2. ReferenceInv /\ [SomeStep]_allVars => ReferenceInv'
  BY OfficialReferenceProjects, NextReferenceInv
<1>3. ReferenceInv /\ [SomeStep]_allVars => [Whole]_(OfficialReference!vars)
  BY OfficialReferenceProjects, PackageIsReplaced DEF OfficialReference!Never
<1>4. QED BY <1>1, <1>2, <1>3, PTL DEF AllSpec, OfficialReference!PackageIsComplete

(* A command that reset the workspace publishes files of its own run only,   *)
(* whatever earlier commands were cut off and left on Drive.                 *)
THEOREM ResetPublishesOwn == AllSpec => Server!ResetPublishesOwnFiles
<1> DEFINE Own == \A u \in Server!Units : drive'[u] # drive[u] /\ serverArgs.reset =>
                    drive'[u].files = {serverRun}
<1>1. Start => ServerInv BY ServerInvStart DEF Start
<1>2. ServerInv /\ [SomeStep]_allVars => ServerInv' BY ServerProjects, NextServer
<1>3. ServerInv /\ [SomeStep]_allVars => [Own]_(Server!vars)
  BY ServerProjects, ResetPublishesItsOwn, ServerConstants
<1>4. QED BY <1>1, <1>2, <1>3, PTL DEF AllSpec, Server!ResetPublishesOwnFiles

(* StepsAreSafe: no step rewrites the record a decision was taken from,      *)
(* publishes otherwise than the result store does, gives the offload hooks   *)
(* back before the VAE, publishes files older than a reset, replaces the     *)
(* package of a reference by one that lacks the bundle of a unit it names,   *)
(* or changes anything by a repeated cell.                                   *)
THEOREM StepsStaySafe == AllSpec => StepsAreSafe
BY PreflightRecordStays, PromotionImplementsStore, AtomHooksComeLast, ResetPublishesOwn,
   PackagesAreReplacedWhole, ApplyingAgainIsTheSame, PTL
DEF StepsAreSafe
=============================================================================
