--------------------------- MODULE EvidenceProofs ---------------------------
(*****************************************************************************)
(* What holds of the evidence programs for all values of their constants:    *)
(* the gate notebooks, the chain of one run root, its flow evidence and its  *)
(* adaptive attacks, the calibration of the detector and the comparison of   *)
(* the methods.  Each has an inductive invariant, a lemma that no step of    *)
(* the composition breaks it and one that it implies the properties; the     *)
(* theorems of the whole are at the end.                                     *)
(*****************************************************************************)
EXTENDS MCEvidence, Integers, FunctionTheorems, FiniteSetTheorems, NaturalsInduction,
        WellFoundedInduction, TLAPS

-----------------------------------------------------------------------------
(* The gates.  The invariant adds to the properties how far the plan that    *)
(* runs has come: which files are already of its gate run.                   *)

\* A gate run is counted by the plan that ran it.
RunsAreCounted ==
    \A p \in Profiles : /\ gate[p].run <= plans
                        /\ At(p, "gate") => gate[p].run < plans

\* The files the plan has written since its gate are of that gate run.
PlanIsFresh ==
    \A p \in Profiles :
        /\ At(p, "figure") \/ At(p, "manifest") \/ At(p, "transition") => index[p].run = gate[p].run
        /\ At(p, "manifest") \/ At(p, "transition") => figure[p].run = gate[p].run
        /\ At(p, "transition") => manifest[p].run = gate[p].run

\* While its plan goes on, the evidence a gate passed on is what lies there.
GateIsBacked ==
    \A p \in Profiles :
        (session.profile = p /\ session.stage \in Stages \ {"gate"})
            => (gate[p].decision = "PASS" => evidence[p].posterior = "PASS")

GateIsRemembered == \A p \in Profiles : gate[p].decision = "PASS" => p \in passed

\* After one gate run the report speaks of the evidence that lies there.
ReportIsCurrent ==
    \A p \in Profiles :
        /\ At(p, "replay") => clean[p] = 0
        /\ clean[p] \in {1, 2} => words[p] = (evidence[p].ablation = "proxy")

IndInv ==
    /\ TypeOK /\ RunsAreCounted /\ PlanIsFresh /\ GateIsBacked /\ GateIsRemembered /\ ReportIsCurrent
    /\ NothingIsSkipped /\ TransitionIsOneRun /\ StaleReplayBlocks /\ CleanEvidencePasses

GateRecord == [decision : Decisions, run : 0 .. MaxPlans, guard : Decisions, weak : BOOLEAN]
TransitionRecord == [decision : Decisions, run : 0 .. MaxPlans,
                     rests : SUBSET (0 .. MaxPlans), posterior : Decisions]
-----------------------------------------------------------------------------
(* The invariant holds over the evidence the run roots start with. *)
LEMMA InitInv == Init => IndInv
  <1> SUFFICES ASSUME Init PROVE IndInv
    OBVIOUS
  <1> USE DEF Init
  <1>1. TypeOK
    <2>1. evidence \in [Profiles -> Evidence] BY GateAssumption
    <2>2. plans \in 0 .. MaxPlans /\ changes \in 0 .. MaxEvidence /\ 0 \in 0 .. MaxPlans /\ 0 \in 0 .. N
      BY GateAssumption DEF Profiles
    <2> QED BY <2>1, <2>2 DEF TypeOK, Decisions, NoFile, Idle, Stages, Follows
  <1>2. RunsAreCounted BY DEF RunsAreCounted, At, Idle
  <1>3. PlanIsFresh BY DEF PlanIsFresh, At, Idle
  <1>4. GateIsBacked /\ GateIsRemembered BY DEF GateIsBacked, GateIsRemembered
  <1>5. ReportIsCurrent BY DEF ReportIsCurrent
  <1>6. NothingIsSkipped /\ TransitionIsOneRun /\ StaleReplayBlocks
    BY DEF NothingIsSkipped, TransitionIsOneRun, StaleReplayBlocks
  <1>7. CleanEvidencePasses BY DEF CleanEvidencePasses
  <1> QED BY <1>1, <1>2, <1>3, <1>4, <1>5, <1>6, <1>7 DEF IndInv

\* Where the plan goes after each of its stages.
LEMMA AdvanceSteps ==
    ASSUME NEW p
    PROVE  /\ Advance(p, "gate") => session' = [profile |-> p, stage |-> "index"]
           /\ Advance(p, "index") => session' = [profile |-> p, stage |-> "figure"]
           /\ Advance(p, "figure") => session' = [profile |-> p, stage |-> "manifest"]
           /\ Advance(p, "manifest") => session' = [profile |-> p, stage |-> "transition"]
           /\ Advance(p, "transition") => session' = Idle
  BY DEF Advance, Follows

(* The stages of a gate notebook, named one by one. *)
LEMMA StagesAre == Stages = {"gate", "index", "figure", "manifest", "transition"}
  BY DEF Stages, Follows

\* The gate: the only stage that reads all of the evidence.
LEMMA GateStep ==
    ASSUME IndInv, NEW p \in Profiles, Gate(p)
    PROVE  IndInv'
  <1> USE GateAssumption
  <1> DEFINE e == evidence[p]
             guard == FormalityGuard(e, words[p])
             new == [decision |-> Pass(guard /\ EvidenceReady(e)), run |-> gate[p].run + 1,
                     guard |-> Pass(guard), weak |-> (e.ablation = "proxy" \/ words[p])]
  <1>1. /\ session = [profile |-> p, stage |-> "gate"] /\ session' = [profile |-> p, stage |-> "index"]
        /\ gate' = [gate EXCEPT ![p] = new]
        /\ words' = [words EXCEPT ![p] = (e.ablation = "proxy")]
        /\ passed' = IF guard /\ EvidenceReady(e) THEN passed \cup {p} ELSE passed
        /\ clean' = [clean EXCEPT ![p] = IF @ < 2 THEN @ + 1 ELSE @]
        /\ evidence' = evidence /\ index' = index /\ figure' = figure /\ manifest' = manifest
        /\ transition' = transition /\ plans' = plans /\ changes' = changes
    BY AdvanceSteps DEF Gate, At, ReportWords
  <1>2. TypeOK /\ gate \in [Profiles -> GateRecord] /\ plans \in 0 .. MaxPlans
        /\ evidence \in [Profiles -> Evidence] /\ words \in [Profiles -> BOOLEAN]
        /\ clean \in [Profiles -> 0 .. 2] /\ passed \subseteq Profiles
    BY DEF IndInv, TypeOK, GateRecord
  <1>3. gate[p].run \in Nat /\ gate[p].run < plans
    BY <1>1, <1>2 DEF IndInv, RunsAreCounted, At, GateRecord
  <1>4. new \in GateRecord /\ new.run <= plans
    <2>1. new.run \in 0 .. MaxPlans /\ new.run <= plans BY <1>2, <1>3
    <2> HIDE DEF guard
    <2>2. Pass(guard) \in Decisions /\ Pass(guard /\ EvidenceReady(e)) \in Decisions BY DEF Pass, Decisions
    <2>3. (e.ablation = "proxy" \/ words[p]) \in BOOLEAN BY <1>2
    <2> QED BY <2>1, <2>2, <2>3 DEF GateRecord
  <1>5. \A q \in Profiles : gate'[q] = IF q = p THEN new ELSE gate[q]
    <2> HIDE DEF new
    <2> QED BY <1>1, <1>2
  <1>6. gate' \in [Profiles -> GateRecord]
    <2> HIDE DEF new
    <2> QED BY <1>1, <1>2, <1>4
  <1>7. \A q \in Profiles : /\ words'[q] = IF q = p THEN (e.ablation = "proxy") ELSE words[q]
                            /\ clean'[q] = IF q = p THEN (IF clean[p] < 2 THEN clean[p] + 1 ELSE clean[p]) ELSE clean[q]
    BY <1>1, <1>2
  <1>8. words' \in [Profiles -> BOOLEAN] /\ clean' \in [Profiles -> 0 .. 2] /\ passed' \subseteq Profiles
    <2>1. words' \in [Profiles -> BOOLEAN] BY <1>1, <1>2
    <2>2. (IF clean[p] < 2 THEN clean[p] + 1 ELSE clean[p]) \in 0 .. 2 BY <1>2
    <2>3. clean' \in [Profiles -> 0 .. 2] BY <1>1, <1>2, <2>2
    <2>4. passed' \subseteq Profiles BY <1>1, <1>2
    <2> QED BY <2>1, <2>3, <2>4
  <1>9. TypeOK'
    <2>1. session' \in [profile : 0 .. N, stage : {"none", "replay"} \cup Stages]
      BY <1>1, StagesAre DEF Profiles
    <2>2. gate' \in [Profiles -> [decision : Decisions, run : 0 .. MaxPlans, guard : Decisions, weak : BOOLEAN]]
      BY <1>6 DEF GateRecord
    <2> QED BY <2>1, <2>2, <1>1, <1>2, <1>8 DEF TypeOK
  <1>10. RunsAreCounted' BY <1>1, <1>4, <1>5 DEF IndInv, RunsAreCounted, At
  <1>11. PlanIsFresh' BY <1>1 DEF PlanIsFresh, At
  <1>12. new.decision = "PASS" => (guard /\ EvidenceReady(e))
    <2> HIDE DEF guard
    <2> QED BY DEF Pass
  <1>13. GateIsBacked'
    <2>1. EvidenceReady(e) => e.posterior = "PASS" BY DEF EvidenceReady
    <2> HIDE DEF new, guard
    <2> QED BY <1>1, <1>5, <1>12, <2>1 DEF GateIsBacked
  <1>14. GateIsRemembered'
    <2> HIDE DEF new, guard
    <2> QED BY <1>1, <1>5, <1>12 DEF IndInv, GateIsRemembered
  <1>15. ReportIsCurrent'
    <2>1. \A q \in Profiles : ~At(q, "replay")' BY <1>1 DEF At
    <2> QED BY <2>1, <1>1, <1>7 DEF IndInv, ReportIsCurrent
  <1>16. passed \subseteq passed' BY <1>1
  <1>17. NothingIsSkipped' BY <1>1, <1>16 DEF IndInv, NothingIsSkipped
  <1>18. TransitionIsOneRun' /\ StaleReplayBlocks'
    BY <1>1 DEF IndInv, TransitionIsOneRun, StaleReplayBlocks
  <1>19. CleanEvidencePasses'
    <2> SUFFICES ASSUME NEW q \in Profiles, clean'[q] = 2, EvidenceReady(evidence[q]),
                        evidence[q].scores = "older"
                 PROVE  gate'[q].decision = "PASS"
      BY <1>1 DEF CleanEvidencePasses
    <2>1. CASE q # p
      <3>1. gate'[q] = gate[q] /\ clean'[q] = clean[q] BY <2>1, <1>5, <1>7
      <3> QED BY <3>1 DEF IndInv, CleanEvidencePasses
    <2>2. CASE q = p
      <3>1. clean[p] \in {1, 2} BY <2>2, <1>7, <1>2
      <3>2. words[p] = (e.ablation = "proxy") BY <3>1 DEF IndInv, ReportIsCurrent
      <3>3. e.ablation = "formal" BY <2>2 DEF EvidenceReady
      <3>4. guard BY <3>2, <3>3, <2>2 DEF FormalityGuard, FieldsClean
      <3>5. new.decision = "PASS"
        <4> HIDE DEF guard
        <4> QED BY <3>4, <2>2 DEF Pass
      <3> QED BY <2>2, <3>5, <1>5
    <2> QED BY <2>1, <2>2
  <1> QED BY <1>9, <1>10, <1>11, <1>13, <1>14, <1>15, <1>17, <1>18, <1>19 DEF IndInv

\* What every stage after the gate leaves alone, and what follows from it.
LEMMA FrameKept ==
    ASSUME IndInv, evidence' = evidence, words' = words, gate' = gate, clean' = clean,
           passed' = passed, plans' = plans,
           NEW p \in Profiles, session.profile = p, session.stage \in Stages \ {"gate"},
           \/ session' = Idle
           \/ session' \in [profile : {p}, stage : Stages \ {"gate"}]
    PROVE  /\ RunsAreCounted' /\ GateIsBacked' /\ GateIsRemembered' /\ ReportIsCurrent'
           /\ CleanEvidencePasses'
           /\ session' \in [profile : 0 .. N, stage : {"none", "replay"} \cup Stages]
  <1> USE GateAssumption
  <1>1. \A q \in Profiles : ~At(q, "gate")' /\ ~At(q, "replay")' BY StagesAre DEF At, Idle
  <1>2. RunsAreCounted' BY <1>1 DEF IndInv, RunsAreCounted
  <1>3. GateIsBacked' BY StagesAre DEF IndInv, GateIsBacked, Idle
  <1>4. GateIsRemembered' /\ CleanEvidencePasses' BY DEF IndInv, GateIsRemembered, CleanEvidencePasses
  <1>5. ReportIsCurrent' BY <1>1 DEF IndInv, ReportIsCurrent
  <1>6. session' \in [profile : 0 .. N, stage : {"none", "replay"} \cup Stages]
    BY StagesAre DEF Idle, Profiles
  <1> QED BY <1>2, <1>3, <1>4, <1>5, <1>6

(* The reviewer index keeps the invariant. *)
LEMMA IndexStep ==
    ASSUME IndInv, NEW p \in Profiles, ReviewerIndex(p)
    PROVE  IndInv'
  <1> DEFINE new == [decision |-> Pass(gate[p].decision = "PASS" /\ evidence[p].complete = "PASS"),
                     run |-> gate[p].run]
  <1>1. /\ session = [profile |-> p, stage |-> "index"] /\ session' = [profile |-> p, stage |-> "figure"]
        /\ index' = [index EXCEPT ![p] = new]
        /\ evidence' = evidence /\ words' = words /\ gate' = gate /\ figure' = figure
        /\ manifest' = manifest /\ transition' = transition /\ plans' = plans
        /\ changes' = changes /\ clean' = clean /\ passed' = passed
    BY AdvanceSteps DEF ReviewerIndex, At
  <1>2. TypeOK BY DEF IndInv
  <1>3. new \in [decision : Decisions, run : 0 .. MaxPlans] BY <1>2 DEF TypeOK, Pass, Decisions
  <1>4. index' \in [Profiles -> [decision : Decisions, run : 0 .. MaxPlans]] /\ index'[p] = new
    <2> HIDE DEF new
    <2> QED BY <1>1, <1>2, <1>3 DEF TypeOK
  <1>5. /\ RunsAreCounted' /\ GateIsBacked' /\ GateIsRemembered' /\ ReportIsCurrent'
        /\ CleanEvidencePasses'
        /\ session' \in [profile : 0 .. N, stage : {"none", "replay"} \cup Stages]
    <2>1. session.profile = p /\ session.stage \in Stages \ {"gate"}
          /\ session' \in [profile : {p}, stage : Stages \ {"gate"}]
      BY <1>1, StagesAre
    <2> QED BY <2>1, <1>1, FrameKept
  <1>6. TypeOK' BY <1>1, <1>2, <1>4, <1>5 DEF TypeOK
  <1>7. PlanIsFresh' BY <1>1, <1>4 DEF PlanIsFresh, At
  <1>8. NothingIsSkipped' /\ TransitionIsOneRun' /\ StaleReplayBlocks'
    BY <1>1 DEF IndInv, NothingIsSkipped, TransitionIsOneRun, StaleReplayBlocks
  <1> QED BY <1>5, <1>6, <1>7, <1>8 DEF IndInv

(* The figure keeps the invariant. *)
LEMMA FigureStep ==
    ASSUME IndInv, NEW p \in Profiles, GateFigure(p)
    PROVE  IndInv'
  <1> DEFINE new == [decision |-> gate[p].decision, run |-> gate[p].run]
  <1>1. /\ session = [profile |-> p, stage |-> "figure"] /\ session' = [profile |-> p, stage |-> "manifest"]
        /\ figure' = [figure EXCEPT ![p] = new]
        /\ evidence' = evidence /\ words' = words /\ gate' = gate /\ index' = index
        /\ manifest' = manifest /\ transition' = transition /\ plans' = plans
        /\ changes' = changes /\ clean' = clean /\ passed' = passed
    BY AdvanceSteps DEF GateFigure, At
  <1>2. TypeOK BY DEF IndInv
  <1>3. new \in [decision : Decisions, run : 0 .. MaxPlans] BY <1>2 DEF TypeOK
  <1>4. figure' \in [Profiles -> [decision : Decisions, run : 0 .. MaxPlans]] /\ figure'[p] = new
    <2> HIDE DEF new
    <2> QED BY <1>1, <1>2, <1>3 DEF TypeOK
  <1>5. /\ RunsAreCounted' /\ GateIsBacked' /\ GateIsRemembered' /\ ReportIsCurrent'
        /\ CleanEvidencePasses'
        /\ session' \in [profile : 0 .. N, stage : {"none", "replay"} \cup Stages]
    <2>1. session.profile = p /\ session.stage \in Stages \ {"gate"}
          /\ session' \in [profile : {p}, stage : Stages \ {"gate"}]
      BY <1>1, StagesAre
    <2> QED BY <2>1, <1>1, FrameKept
  <1>6. TypeOK' BY <1>1, <1>2, <1>4, <1>5 DEF TypeOK
  <1>7. index[p].run = gate[p].run BY <1>1 DEF IndInv, PlanIsFresh, At
  <1>8. PlanIsFresh' BY <1>1, <1>4, <1>7 DEF PlanIsFresh, At
  <1>9. NothingIsSkipped' /\ TransitionIsOneRun' /\ StaleReplayBlocks'
    BY <1>1 DEF IndInv, NothingIsSkipped, TransitionIsOneRun, StaleReplayBlocks
  <1> QED BY <1>5, <1>6, <1>8, <1>9 DEF IndInv

(* The package manifest keeps the invariant. *)
LEMMA ManifestStep ==
    ASSUME IndInv, NEW p \in Profiles, PackageManifest(p)
    PROVE  IndInv'
  <1> DEFINE passes == /\ gate[p].decision = "PASS" /\ evidence[p].ablation = "formal"
                       /\ index[p].decision = "PASS" /\ figure[p].decision # "missing"
             new == [decision |-> Pass(passes), run |-> gate[p].run, index |-> index[p].decision]
  <1>1. /\ session = [profile |-> p, stage |-> "manifest"] /\ session' = [profile |-> p, stage |-> "transition"]
        /\ manifest' = [manifest EXCEPT ![p] = new]
        /\ evidence' = evidence /\ words' = words /\ gate' = gate /\ index' = index
        /\ figure' = figure /\ transition' = transition /\ plans' = plans
        /\ changes' = changes /\ clean' = clean /\ passed' = passed
    BY AdvanceSteps DEF PackageManifest, At
  <1>2. TypeOK BY DEF IndInv
  <1>3. new \in [decision : Decisions, run : 0 .. MaxPlans, index : Decisions]
    <2> HIDE DEF passes
    <2> QED BY <1>2 DEF TypeOK, Pass, Decisions
  <1>4. /\ manifest' \in [Profiles -> [decision : Decisions, run : 0 .. MaxPlans, index : Decisions]]
        /\ manifest'[p].run = gate[p].run
    <2>1. new.run = gate[p].run OBVIOUS
    <2> HIDE DEF new
    <2> QED BY <1>1, <1>2, <1>3, <2>1 DEF TypeOK
  <1>5. /\ RunsAreCounted' /\ GateIsBacked' /\ GateIsRemembered' /\ ReportIsCurrent'
        /\ CleanEvidencePasses'
        /\ session' \in [profile : 0 .. N, stage : {"none", "replay"} \cup Stages]
    <2>1. session.profile = p /\ session.stage \in Stages \ {"gate"}
          /\ session' \in [profile : {p}, stage : Stages \ {"gate"}]
      BY <1>1, StagesAre
    <2> QED BY <2>1, <1>1, FrameKept
  <1>6. TypeOK' BY <1>1, <1>2, <1>4, <1>5 DEF TypeOK
  <1>7. index[p].run = gate[p].run /\ figure[p].run = gate[p].run
    BY <1>1 DEF IndInv, PlanIsFresh, At
  <1>8. PlanIsFresh' BY <1>1, <1>4, <1>7 DEF PlanIsFresh, At
  <1>9. NothingIsSkipped' /\ TransitionIsOneRun' /\ StaleReplayBlocks'
    BY <1>1 DEF IndInv, NothingIsSkipped, TransitionIsOneRun, StaleReplayBlocks
  <1> QED BY <1>5, <1>6, <1>8, <1>9 DEF IndInv

\* The transition: the one file whose PASS speaks for other profiles too.
LEMMA TransitionStep ==
    ASSUME IndInv, NEW p \in Profiles, StageTransition(p)
    PROVE  IndInv'
  <1> USE GateAssumption
  <1> DEFINE passes == /\ gate[p].decision = "PASS" /\ gate[p].guard = "PASS"
                       /\ SourcePackagePassed(p) /\ UpstreamPassed(p)
             new == [decision |-> Pass(passes), run |-> gate[p].run,
                     rests |-> {gate[p].run, index[p].run, figure[p].run, manifest[p].run},
                     posterior |-> evidence[p].posterior]
  <1>1. /\ session = [profile |-> p, stage |-> "transition"] /\ session' = Idle
        /\ transition' = [transition EXCEPT ![p] = new]
        /\ evidence' = evidence /\ words' = words /\ gate' = gate /\ index' = index
        /\ figure' = figure /\ manifest' = manifest /\ plans' = plans
        /\ changes' = changes /\ clean' = clean /\ passed' = passed
    BY AdvanceSteps DEF StageTransition, At
  <1>2. TypeOK BY DEF IndInv
  <1>3. new \in TransitionRecord
    <2>1. Pass(passes) \in Decisions
      <3> HIDE DEF passes
      <3> QED BY DEF Pass, Decisions
    <2>2. /\ gate[p].run \in 0 .. MaxPlans /\ index[p].run \in 0 .. MaxPlans
          /\ figure[p].run \in 0 .. MaxPlans /\ manifest[p].run \in 0 .. MaxPlans
          /\ evidence[p].posterior \in Decisions
      BY <1>2 DEF TypeOK, Evidence
    <2> HIDE DEF passes
    <2> QED BY <2>1, <2>2 DEF TransitionRecord
  <1>4. /\ transition' \in [Profiles -> TransitionRecord]
        /\ \A q \in Profiles : transition'[q] = IF q = p THEN new ELSE transition[q]
    <2> HIDE DEF new
    <2>1. transition \in [Profiles -> TransitionRecord] BY <1>2 DEF TypeOK, TransitionRecord
    <2> QED BY <1>1, <1>3, <2>1
  <1>5. /\ RunsAreCounted' /\ GateIsBacked' /\ GateIsRemembered' /\ ReportIsCurrent'
        /\ CleanEvidencePasses'
        /\ session' \in [profile : 0 .. N, stage : {"none", "replay"} \cup Stages]
    <2>1. session.profile = p /\ session.stage \in Stages \ {"gate"} BY <1>1, StagesAre
    <2> QED BY <2>1, <1>1, FrameKept
  <1>6. TypeOK'
    <2>1. transition' \in [Profiles -> [decision : Decisions, run : 0 .. MaxPlans,
                                        rests : SUBSET (0 .. MaxPlans), posterior : Decisions]]
      BY <1>4 DEF TransitionRecord
    <2> QED BY <2>1, <1>1, <1>2, <1>5 DEF TypeOK
  <1>7. PlanIsFresh' BY <1>1 DEF PlanIsFresh, At, Idle
  <1>8. /\ new.rests = {gate[p].run} /\ new.run = gate[p].run /\ new.posterior = evidence[p].posterior
    <2>1. index[p].run = gate[p].run /\ figure[p].run = gate[p].run /\ manifest[p].run = gate[p].run
      BY <1>1 DEF IndInv, PlanIsFresh, At
    <2> HIDE DEF passes
    <2> QED BY <2>1
  <1>9. new.decision = "PASS" => (gate[p].decision = "PASS" /\ UpstreamPassed(p))
    <2>1. new.decision = "PASS" => passes
      <3> HIDE DEF passes
      <3> QED BY DEF Pass
    <2> QED BY <2>1
  <1>10. new.decision = "PASS" => new.posterior = "PASS"
    <2> HIDE DEF new
    <2> QED BY <1>1, <1>8, <1>9, StagesAre DEF IndInv, GateIsBacked
  <1>11. new.decision = "PASS" => 1 .. p \subseteq passed
    <2> HIDE DEF new
    <2> SUFFICES ASSUME new.decision = "PASS" PROVE 1 .. p \subseteq passed
      OBVIOUS
    <2>1. p \in passed BY <1>9 DEF IndInv, GateIsRemembered
    <2>2. CASE p = 1 BY <2>1, <2>2
    <2>3. CASE p # 1
      <3>1. p - 1 \in Profiles /\ transition[p - 1].decision = "PASS"
        BY <1>9, <2>3 DEF UpstreamPassed, Profiles
      <3>2. 1 .. (p - 1) \subseteq passed BY <3>1 DEF IndInv, NothingIsSkipped
      <3>3. \A k \in 1 .. p : k = p \/ k \in 1 .. (p - 1) BY DEF Profiles
      <3> QED BY <2>1, <3>2, <3>3
    <2> QED BY <2>2, <2>3
  <1>12. NothingIsSkipped'
    <2> HIDE DEF new
    <2> QED BY <1>1, <1>4, <1>11 DEF IndInv, NothingIsSkipped
  <1>13. TransitionIsOneRun'
    <2> HIDE DEF new
    <2> QED BY <1>4, <1>8 DEF IndInv, TransitionIsOneRun
  <1>14. StaleReplayBlocks'
    <2> HIDE DEF new
    <2> QED BY <1>4, <1>10 DEF IndInv, StaleReplayBlocks
  <1> QED BY <1>5, <1>6, <1>7, <1>12, <1>13, <1>14 DEF IndInv
-----------------------------------------------------------------------------
(* A notebook that starts keeps the invariant. *)
LEMMA StartStep ==
    ASSUME IndInv, NEW p \in Profiles, StartPlan(p)
    PROVE  IndInv'
  <1> USE GateAssumption
  <1>1. /\ session = Idle /\ plans < MaxPlans /\ plans' = plans + 1
        /\ session' = [profile |-> p, stage |-> "gate"]
        /\ evidence' = evidence /\ words' = words /\ gate' = gate /\ index' = index
        /\ figure' = figure /\ manifest' = manifest /\ transition' = transition
        /\ changes' = changes /\ clean' = clean /\ passed' = passed
    BY DEF StartPlan, files
  <1>2. TypeOK BY DEF IndInv
  <1>3. plans \in Nat /\ \A q \in Profiles : gate[q].run \in Nat BY <1>2 DEF TypeOK
  <1>4. TypeOK'
    <2>1. plans' \in 0 .. MaxPlans BY <1>1, <1>2 DEF TypeOK
    <2>2. session' \in [profile : 0 .. N, stage : {"none", "replay"} \cup Stages]
      BY <1>1, StagesAre DEF Profiles
    <2> QED BY <2>1, <2>2, <1>1, <1>2 DEF TypeOK
  <1>5. RunsAreCounted' BY <1>1, <1>3 DEF IndInv, RunsAreCounted
  <1>6. PlanIsFresh' /\ GateIsBacked' BY <1>1 DEF PlanIsFresh, GateIsBacked, At
  <1>7. ReportIsCurrent' BY <1>1 DEF IndInv, ReportIsCurrent, At
  <1>8. GateIsRemembered' /\ NothingIsSkipped' /\ TransitionIsOneRun' /\ StaleReplayBlocks' /\ CleanEvidencePasses'
    BY <1>1 DEF IndInv, GateIsRemembered, NothingIsSkipped, TransitionIsOneRun, StaleReplayBlocks, CleanEvidencePasses
  <1> QED BY <1>4, <1>5, <1>6, <1>7, <1>8 DEF IndInv

\* The measurement and the detection notebooks only change what lies in one run
\* root, and forget how often its gate has seen it.
LEMMA EvidenceChanged ==
    ASSUME IndInv, NEW p \in Profiles, NEW e \in Evidence,
           session = Idle, changes < MaxEvidence, changes' = changes + 1,
           evidence' = [evidence EXCEPT ![p] = e], clean' = [clean EXCEPT ![p] = 0],
           session' = Idle \/ session' = [profile |-> p, stage |-> "replay"],
           words' = words, gate' = gate, index' = index, figure' = figure,
           manifest' = manifest, transition' = transition, plans' = plans, passed' = passed
    PROVE  IndInv'
  <1> USE GateAssumption
  <1>1. TypeOK /\ evidence \in [Profiles -> Evidence] /\ clean \in [Profiles -> 0 .. 2]
    BY DEF IndInv, TypeOK
  <1>2. \A q \in Profiles : /\ evidence'[q] = IF q = p THEN e ELSE evidence[q]
                            /\ clean'[q] = IF q = p THEN 0 ELSE clean[q]
    BY <1>1
  <1>3. TypeOK'
    <2>1. evidence' \in [Profiles -> Evidence] /\ clean' \in [Profiles -> 0 .. 2] BY <1>1
    <2>2. changes' \in 0 .. MaxEvidence BY <1>1 DEF TypeOK
    <2>3. session' \in [profile : 0 .. N, stage : {"none", "replay"} \cup Stages] BY DEF Idle, Profiles
    <2> QED BY <2>1, <2>2, <2>3, <1>1 DEF TypeOK
  <1>4. \A q \in Profiles : /\ ~At(q, "gate")' /\ ~At(q, "figure")' /\ ~At(q, "manifest")'
                            /\ ~At(q, "transition")' /\ (At(q, "replay")' => q = p)
    <2>1. CASE session' = Idle BY <2>1 DEF At, Idle
    <2>2. CASE session' = [profile |-> p, stage |-> "replay"] BY <2>2 DEF At
    <2> QED BY <2>1, <2>2
  <1>9. RunsAreCounted' /\ PlanIsFresh' BY <1>4 DEF IndInv, RunsAreCounted, PlanIsFresh
  <1>5. GateIsBacked' BY StagesAre DEF GateIsBacked, Idle
  <1>6. ReportIsCurrent'
    <2> SUFFICES ASSUME NEW q \in Profiles
                 PROVE  /\ At(q, "replay")' => clean'[q] = 0
                        /\ clean'[q] \in {1, 2} => words'[q] = (evidence'[q].ablation = "proxy")
      BY DEF ReportIsCurrent
    <2>1. CASE q = p BY <2>1, <1>2
    <2>2. CASE q # p
      <3>1. evidence'[q] = evidence[q] /\ clean'[q] = clean[q] /\ words'[q] = words[q] BY <2>2, <1>2
      <3> QED BY <3>1, <2>2, <1>4 DEF IndInv, ReportIsCurrent
    <2> QED BY <2>1, <2>2
  <1>7. CleanEvidencePasses' BY <1>2 DEF IndInv, CleanEvidencePasses
  <1>8. GateIsRemembered' /\ NothingIsSkipped' /\ TransitionIsOneRun' /\ StaleReplayBlocks'
    BY DEF IndInv, GateIsRemembered, NothingIsSkipped, TransitionIsOneRun, StaleReplayBlocks
  <1> QED BY <1>3, <1>5, <1>6, <1>7, <1>8, <1>9 DEF IndInv

(* New evidence under the old files keeps the invariant. *)
LEMMA MeasureStep ==
    ASSUME IndInv, NEW p \in Profiles, Measure(p)
    PROVE  IndInv'
  <1>1. PICK s \in Scores, a \in Ablations :
            evidence' = [evidence EXCEPT ![p].scores = s, ![p].ablation = a]
    BY DEF Measure
  <1>2. evidence \in [Profiles -> Evidence] BY DEF IndInv, TypeOK
  <1> DEFINE e == [evidence[p] EXCEPT !.scores = s, !.ablation = a]
  <1>3. e \in Evidence BY <1>2 DEF Evidence
  <1>4. evidence' = [evidence EXCEPT ![p] = e] BY <1>1, <1>2
  <1>5. /\ session = Idle /\ changes < MaxEvidence /\ changes' = changes + 1
        /\ clean' = [clean EXCEPT ![p] = 0] /\ session' = Idle
        /\ words' = words /\ gate' = gate /\ index' = index /\ figure' = figure
        /\ manifest' = manifest /\ transition' = transition /\ plans' = plans /\ passed' = passed
    BY DEF Measure, files
  <1> HIDE DEF e
  <1> QED BY <1>3, <1>4, <1>5, EvidenceChanged

(* A detection stage keeps the invariant. *)
LEMMA DetectStep ==
    ASSUME IndInv, NEW p \in Profiles, FlowEvidence(p)
    PROVE  IndInv'
  <1>1. PICK c \in {"PASS", "FAIL"}, h \in {"PASS", "FAIL"} :
            evidence' = [evidence EXCEPT ![p].claims = c, ![p].posterior = h]
    BY DEF FlowEvidence
  <1>2. evidence \in [Profiles -> Evidence] BY DEF IndInv, TypeOK
  <1> DEFINE e == [evidence[p] EXCEPT !.claims = c, !.posterior = h]
  <1>3. e \in Evidence BY <1>2 DEF Evidence, Decisions
  <1>4. evidence' = [evidence EXCEPT ![p] = e] BY <1>1, <1>2
  <1>5. /\ session = Idle /\ changes < MaxEvidence /\ changes' = changes + 1
        /\ clean' = [clean EXCEPT ![p] = 0] /\ session' = [profile |-> p, stage |-> "replay"]
        /\ words' = words /\ gate' = gate /\ index' = index /\ figure' = figure
        /\ manifest' = manifest /\ transition' = transition /\ plans' = plans /\ passed' = passed
    BY DEF FlowEvidence, files
  <1> HIDE DEF e
  <1> QED BY <1>3, <1>4, <1>5, EvidenceChanged

\* The replay stage follows a detection stage, so no gate run is counted yet.
LEMMA ReplayStep ==
    ASSUME IndInv, NEW p \in Profiles, ReplayGate(p)
    PROVE  IndInv'
  <1> USE GateAssumption
  <1>1. PICK controls \in BOOLEAN :
        evidence' = [evidence EXCEPT ![p].replay = Pass(controls /\ evidence[p].posterior = "PASS"),
            ![p].complete = Pass(evidence[p].claims = "PASS"
                                 /\ Pass(controls /\ evidence[p].posterior = "PASS") = "PASS")]
    BY DEF ReplayGate
  <1> DEFINE r == Pass(controls /\ evidence[p].posterior = "PASS")
             k == Pass(evidence[p].claims = "PASS" /\ r = "PASS")
             e == [evidence[p] EXCEPT !.replay = r, !.complete = k]
  <1>2. /\ session = [profile |-> p, stage |-> "replay"] /\ session' = Idle
        /\ words' = words /\ gate' = gate /\ index' = index /\ figure' = figure
        /\ manifest' = manifest /\ transition' = transition /\ plans' = plans
        /\ changes' = changes /\ clean' = clean /\ passed' = passed
    BY DEF ReplayGate, At, files
  <1>3. TypeOK /\ evidence \in [Profiles -> Evidence] BY DEF IndInv, TypeOK
  <1>4. r \in Decisions /\ k \in Decisions BY DEF Pass, Decisions
  <1>5. evidence' = [evidence EXCEPT ![p] = e]
    <2> HIDE DEF r, k
    <2>1. evidence' = [evidence EXCEPT ![p].replay = r, ![p].complete = k] BY <1>1 DEF r, k
    <2> QED BY <2>1, <1>3
  <1>6. e \in Evidence
    <2> HIDE DEF r, k
    <2> QED BY <1>3, <1>4 DEF Evidence
  <1> HIDE DEF e
  <1>7. \A q \in Profiles : evidence'[q] = IF q = p THEN e ELSE evidence[q] BY <1>5, <1>3
  <1>8. clean[p] = 0 BY <1>2 DEF IndInv, ReportIsCurrent, At
  <1>9. TypeOK'
    <2>1. evidence' \in [Profiles -> Evidence] BY <1>3, <1>5, <1>6
    <2>2. session' \in [profile : 0 .. N, stage : {"none", "replay"} \cup Stages] BY <1>2 DEF Idle
    <2> QED BY <2>1, <2>2, <1>2, <1>3 DEF TypeOK
  <1>10. RunsAreCounted' /\ PlanIsFresh' BY <1>2 DEF IndInv, RunsAreCounted, PlanIsFresh, At, Idle
  <1>11. GateIsBacked' BY <1>2, StagesAre DEF GateIsBacked, Idle
  <1>12. ReportIsCurrent'
    <2> SUFFICES ASSUME NEW q \in Profiles
                 PROVE  /\ At(q, "replay")' => clean'[q] = 0
                        /\ clean'[q] \in {1, 2} => words'[q] = (evidence'[q].ablation = "proxy")
      BY DEF ReportIsCurrent
    <2>1. ~At(q, "replay")' BY <1>2 DEF At, Idle
    <2>2. CASE q = p BY <2>1, <2>2, <1>2, <1>8
    <2>3. CASE q # p
      <3>1. evidence'[q] = evidence[q] /\ clean'[q] = clean[q] /\ words'[q] = words[q] BY <2>3, <1>2, <1>7
      <3> QED BY <3>1, <2>1 DEF IndInv, ReportIsCurrent
    <2> QED BY <2>2, <2>3
  <1>13. CleanEvidencePasses' BY <1>2, <1>7, <1>8 DEF IndInv, CleanEvidencePasses
  <1>14. GateIsRemembered' /\ NothingIsSkipped' /\ TransitionIsOneRun' /\ StaleReplayBlocks'
    BY <1>2 DEF IndInv, GateIsRemembered, NothingIsSkipped, TransitionIsOneRun, StaleReplayBlocks
  <1> QED BY <1>9, <1>10, <1>11, <1>12, <1>13, <1>14 DEF IndInv

(* A session that is cut keeps the invariant. *)
LEMMA CutStep ==
    ASSUME IndInv, SessionCut
    PROVE  IndInv'
  <1> USE GateAssumption
  <1>1. /\ session' = Idle /\ evidence' = evidence
        /\ words' = words /\ gate' = gate /\ index' = index /\ figure' = figure
        /\ manifest' = manifest /\ transition' = transition /\ plans' = plans
        /\ changes' = changes /\ clean' = clean /\ passed' = passed
    BY DEF SessionCut, files
  <1>2. TypeOK'
    <2>1. session' \in [profile : 0 .. N, stage : {"none", "replay"} \cup Stages] BY <1>1 DEF Idle
    <2> QED BY <2>1, <1>1 DEF IndInv, TypeOK
  <1>3. RunsAreCounted' /\ PlanIsFresh' BY <1>1 DEF IndInv, RunsAreCounted, PlanIsFresh, At, Idle
  <1>4. GateIsBacked' BY <1>1, StagesAre DEF GateIsBacked, Idle
  <1>5. ReportIsCurrent' BY <1>1 DEF IndInv, ReportIsCurrent, At, Idle
  <1>6. GateIsRemembered' /\ NothingIsSkipped' /\ TransitionIsOneRun' /\ StaleReplayBlocks' /\ CleanEvidencePasses'
    BY <1>1 DEF IndInv, GateIsRemembered, NothingIsSkipped, TransitionIsOneRun, StaleReplayBlocks, CleanEvidencePasses
  <1> QED BY <1>2, <1>3, <1>4, <1>5, <1>6 DEF IndInv

(* A step that changes nothing keeps the invariant. *)
LEMMA StutterStep ==
    ASSUME IndInv, UNCHANGED vars
    PROVE  IndInv'
  <1>1. /\ session' = session /\ evidence' = evidence
        /\ words' = words /\ gate' = gate /\ index' = index /\ figure' = figure
        /\ manifest' = manifest /\ transition' = transition /\ plans' = plans
        /\ changes' = changes /\ clean' = clean /\ passed' = passed
    BY DEF vars, files
  <1>2. TypeOK' BY <1>1 DEF IndInv, TypeOK
  <1>3. RunsAreCounted' /\ PlanIsFresh' /\ GateIsBacked' /\ ReportIsCurrent'
    BY <1>1 DEF IndInv, RunsAreCounted, PlanIsFresh, GateIsBacked, ReportIsCurrent, At
  <1>4. GateIsRemembered' /\ NothingIsSkipped' /\ TransitionIsOneRun' /\ StaleReplayBlocks' /\ CleanEvidencePasses'
    BY <1>1 DEF IndInv, GateIsRemembered, NothingIsSkipped, TransitionIsOneRun, StaleReplayBlocks, CleanEvidencePasses
  <1> QED BY <1>2, <1>3, <1>4 DEF IndInv
-----------------------------------------------------------------------------
\* Every step of every notebook keeps the invariant.
LEMMA NextInv == IndInv /\ [Next]_vars => IndInv'
  <1> SUFFICES ASSUME IndInv, [Next]_vars PROVE IndInv'
    OBVIOUS
  <1>1. CASE SessionCut BY <1>1, CutStep
  <1>2. CASE Finished BY <1>2, StutterStep DEF Finished
  <1>3. CASE UNCHANGED vars BY <1>3, StutterStep
  <1>4. ASSUME NEW p \in Profiles,
               \/ StartPlan(p) \/ Gate(p) \/ ReviewerIndex(p) \/ GateFigure(p)
               \/ PackageManifest(p) \/ StageTransition(p)
               \/ Measure(p) \/ FlowEvidence(p) \/ ReplayGate(p)
        PROVE  IndInv'
    BY <1>4, StartStep, GateStep, IndexStep, FigureStep, ManifestStep, TransitionStep,
       MeasureStep, DetectStep, ReplayStep
  <1> QED BY <1>1, <1>2, <1>3, <1>4 DEF Next

(* The inductive invariant the theorems below rest on holds throughout. *)
THEOREM InvHolds == Spec => []IndInv
  BY InitInv, NextInv, PTL DEF Spec

\* Type correctness of the files of every run root.
THEOREM TypeCorrect == Spec => []TypeOK
  <1>1. IndInv => TypeOK BY DEF IndInv
  <1> QED BY <1>1, InvHolds, PTL

\* A transition never passes for a profile before the gates of all the profiles
\* up to it have passed.
THEOREM NoProfileIsSkipped == Spec => []NothingIsSkipped
  <1>1. IndInv => NothingIsSkipped BY DEF IndInv
  <1> QED BY <1>1, InvHolds, PTL

\* A passing transition read gate, index, figure and manifest of one gate run,
\* wherever earlier sessions were cut.
THEOREM TransitionsAreOneRun == Spec => []TransitionIsOneRun
  <1>1. IndInv => TransitionIsOneRun BY DEF IndInv
  <1> QED BY <1>1, InvHolds, PTL

\* A replay verdict that outlived its posterior lets nobody through.
THEOREM StaleReplayIsBlocked == Spec => []StaleReplayBlocks
  <1>1. IndInv => StaleReplayBlocks BY DEF IndInv
  <1> QED BY <1>1, InvHolds, PTL

\* The report of an earlier gate run costs clean evidence one run at most.
THEOREM CleanEvidenceRecovers == Spec => []CleanEvidencePasses
  <1>1. IndInv => CleanEvidencePasses BY DEF IndInv
  <1> QED BY <1>1, InvHolds, PTL

-----------------------------------------------------------------------------
(* Facts about finite sets of numbers.                                       *)

(* A set of natural numbers has a least one. *)
LEMMA LeastNumber ==
  ASSUME NEW T, T \subseteq Nat, T # {}
  PROVE  \E x \in T : \A y \in T : x <= y
  <1>1. PICK x \in T : \A y \in T : ~(<<y, x>> \in OpToRel(<, Nat))
    BY NatLessThanWellFounded, WFMin
  <1>2. \A a, b \in Nat : a < b => <<a, b>> \in OpToRel(<, Nat) BY DEF OpToRel
  <1>3. ASSUME NEW y \in T PROVE x <= y
    <2>1. x \in Nat /\ y \in Nat OBVIOUS
    <2>2. ~(y < x) BY <2>1, <1>1, <1>2
    <2> QED BY <2>1, <2>2
  <1> QED BY <1>3

(* A finite set of integers that is not empty has a greatest element: the    *)
(* one with the fewest above it.                                             *)
LEMMA FiniteHasGreatest ==
  ASSUME NEW S \in SUBSET Int, IsFiniteSet(S), S # {}
  PROVE  \E m \in S : \A x \in S : x <= m
  <1> DEFINE Above(m) == {x \in S : x > m}
             Counts == {Cardinality(Above(m)) : m \in S}
  <1>1. \A m \in S : IsFiniteSet(Above(m)) /\ Cardinality(Above(m)) \in Nat
    BY FS_Subset, FS_CardinalityType
  <1>2. PICK n \in Counts : \A k \in Counts : n <= k
    <2>1. Counts \subseteq Nat /\ Counts # {} BY <1>1
    <2> HIDE DEF Counts
    <2> QED BY <2>1, LeastNumber
  <1>3. PICK m \in S : n = Cardinality(Above(m)) BY <1>2
  <1>4. ASSUME NEW x \in S, x > m PROVE FALSE
    <2>0. x \in Int /\ m \in Int /\ \A y \in S : y \in Int BY <1>3
    <2>1. Above(x) \subseteq Above(m) /\ x \in Above(m) /\ x \notin Above(x)
      <3>1. \A y \in S : y > x => y > m BY <1>4, <2>0
      <3>2. Above(x) \subseteq Above(m) BY <3>1
      <3>3. x \in Above(m) BY <1>4
      <3>4. x \notin Above(x) BY <2>0
      <3> QED BY <3>2, <3>3, <3>4
    <2>2. IsFiniteSet(Above(m)) BY <1>1
    <2>3. Cardinality(Above(x)) \in Counts /\ Cardinality(Above(x)) \in Nat
          /\ Cardinality(Above(m)) \in Nat
      BY <1>1
    <2> HIDE DEF Above, Counts
    <2>4. Cardinality(Above(x)) < Cardinality(Above(m))
      <3>1. Above(x) # Above(m) BY <2>1
      <3>2. Cardinality(Above(x)) <= Cardinality(Above(m)) BY <2>1, <2>2, FS_Subset
      <3>3. Cardinality(Above(x)) # Cardinality(Above(m)) BY <2>1, <2>2, <3>1, FS_Subset
      <3> QED BY <2>3, <3>2, <3>3
    <2> QED BY <1>2, <1>3, <2>3, <2>4
  <1> QED BY <1>4

-----------------------------------------------------------------------------
(* The files of one run root.  The invariant says of every unit how far the  *)
(* newest generation has been carried to it.                                 *)

Generating == stage \in {"generate", "sketch", "decide"}

Verdicts == [verified : BOOLEAN, sketch : 0 .. ChainRuns, record : 0 .. ChainRuns,
             bytes : 0 .. ChainRuns, ordered : BOOLEAN]

ChainTypes ==
    /\ failFast \in BOOLEAN /\ chainRun \in 0 .. ChainRuns /\ fresh \in 0 .. 3
    /\ stage \in {"idle", "generate", "sketch", "decide", "attack", "replay"}
    /\ left \subseteq ChainUnits
    /\ made \in [ChainUnits -> Chain!Row] /\ chainRecords \in [ChainUnits -> Chain!Row]
    /\ attacks \in [ChainUnits -> Chain!Row] /\ chainEvidence \in [ChainUnits -> Chain!Row]
    /\ video \in [ChainUnits -> -ChainRuns .. ChainRuns]
    /\ attacked \in [ChainUnits -> 0 .. ChainRuns]
    /\ sketches \in [ChainUnits -> 0 .. ChainRuns]
    /\ chainDecision \in [run : 0 .. ChainRuns, passed : BOOLEAN]
    /\ verdicts \in [ChainUnits -> Verdicts]

\* What a session of the generation holds and has written of a unit.
MadeByRun(u) ==
    /\ Generating /\ made[u].ok => made[u].digest = chainRun /\ video[u] = chainRun
    /\ stage \in {"sketch", "decide"} => chainRecords[u] = made[u]

\* The rows on the disk name a run, and the newest one as far as it was carried.
CarriedByRun(u) ==
    /\ chainRecords[u].ok =>
         chainRecords[u].digest > 0
           /\ (fresh >= 1 => chainRecords[u].digest = chainRun /\ video[u] = chainRun)
    /\ attacks[u].ok => attacked[u] > 0 /\ (fresh >= 2 => attacked[u] = chainRun)
    /\ chainEvidence[u].ok =>
         chainEvidence[u].bytes > 0 /\ (fresh = 3 => chainEvidence[u].bytes = chainRun)

\* What the sessions behind it have taken up and hold.
TakenByRun(u) ==
    /\ stage = "attack" =>
         /\ u \in left \/ made[u].ok => chainRecords[u].ok
         /\ made[u].ok => attacked[u] > 0 /\ (fresh = 1 => attacked[u] = chainRun)
    /\ stage = "replay" =>
         /\ u \in left => attacks[u].ok
         /\ made[u].ok => made[u].bytes > 0 /\ (fresh = 2 => made[u].bytes = chainRun)

VerdictIsOfRun(u) ==
    verdicts[u].verified =>
        /\ verdicts[u].sketch = verdicts[u].record /\ verdicts[u].sketch > 0
        /\ verdicts[u].ordered => verdicts[u].bytes = verdicts[u].sketch

OfUnit(u) == MadeByRun(u) /\ CarriedByRun(u) /\ TakenByRun(u) /\ VerdictIsOfRun(u)

StagesFollow ==
    /\ Generating => fresh = 0 /\ chainRun > 0 /\ chainDecision.run < chainRun
    /\ stage = "attack" => fresh <= 1
    /\ stage = "replay" => fresh <= 2
    /\ chainDecision.run <= chainRun

ChainInv ==
    /\ ChainTypes /\ StagesFollow /\ Chain!PassIsWholePlan
    /\ \A u \in ChainUnits : OfUnit(u)

(* A step of the programs is one of the run root or leaves it alone. *)
LEMMA ChainProjects == [SomeStep]_allVars => [Chain!Next]_(Chain!vars)
  <1> SUFFICES ASSUME [SomeStep]_allVars PROVE [Chain!Next]_(Chain!vars)
    OBVIOUS
  <1> USE DEF chainVars, Chain!vars
  <1>1. CASE ChainStep BY <1>1 DEF ChainStep
  <1>2. CASE Rest /\ program # "chain" BY <1>2 DEF Rest
  <1>3. CASE UNCHANGED allVars BY <1>3 DEF allVars
  <1> QED
    BY <1>1, <1>2, <1>3
    DEF SomeStep, GatesStep, FlowStep, AdaptiveStep, SearchStep, FairnessStep,
        DetectorStep, MotionStep

LEMMA ChainConstants == ChainRuns \in Nat /\ IsFiniteSet(ChainUnits)
  BY InstancesAssumption DEF Chain!ChainAssumption, Chain!IsFiniteSet, IsFiniteSet

(* Rows are typed. *)
LEMMA ChainRowTypes ==
  /\ Chain!NoRow \in Chain!Row /\ Chain!NoRows \in [ChainUnits -> Chain!Row]
  /\ ~Chain!NoRow.ok /\ \A u \in ChainUnits : Chain!NoRows[u] = Chain!NoRow
  /\ \A d, b \in 0 .. ChainRuns, o \in BOOLEAN :
       [digest |-> d, bytes |-> b, ok |-> o] \in Chain!Row
  /\ \A r \in Chain!Row : r.digest \in 0 .. ChainRuns /\ r.bytes \in 0 .. ChainRuns
                            /\ r.ok \in BOOLEAN
  <1>1. 0 \in 0 .. ChainRuns BY ChainConstants
  <1> QED BY <1>1 DEF Chain!NoRow, Chain!NoRows, Chain!Row

LEMMA ChainStarts == Start => ChainInv
  <1> SUFFICES ASSUME Start PROVE ChainInv
    OBVIOUS
  <1>1. Chain!Init BY DEF Start
  <1>2. 0 \in 0 .. ChainRuns /\ 0 \in -ChainRuns .. ChainRuns BY ChainConstants
  <1>3. /\ failFast \in BOOLEAN /\ stage = "idle" /\ left = {} /\ made = Chain!NoRows
        /\ chainRun = 0 /\ video = [u \in ChainUnits |-> 0]
        /\ attacked = [u \in ChainUnits |-> 0] /\ sketches = [u \in ChainUnits |-> 0]
        /\ chainRecords = Chain!NoRows /\ attacks = Chain!NoRows
        /\ chainEvidence = Chain!NoRows
        /\ chainDecision = [run |-> 0, passed |-> FALSE]
        /\ verdicts = [u \in ChainUnits |-> [verified |-> FALSE, sketch |-> 0, record |-> 0,
                                             bytes |-> 0, ordered |-> FALSE]]
        /\ fresh = 0
    BY <1>1 DEF Chain!Init
  <1>4. ChainTypes BY <1>2, <1>3, ChainRowTypes DEF ChainTypes, Verdicts
  <1>5. StagesFollow BY <1>3 DEF StagesFollow, Generating
  <1>6. Chain!PassIsWholePlan BY <1>3 DEF Chain!PassIsWholePlan
  <1>7. ASSUME NEW u \in ChainUnits PROVE OfUnit(u)
    BY <1>3, ChainRowTypes
    DEF OfUnit, MadeByRun, CarriedByRun, TakenByRun, VerdictIsOfRun, Generating
  <1> QED BY <1>4, <1>5, <1>6, <1>7 DEF ChainInv

(* A session of any of the three kinds begins; fresh is what is kept.        *)
LEMMA BeginKeeps ==
  ASSUME ChainInv, Chain!BeginGeneration \/ Chain!BeginAttacks \/ Chain!BeginReplay
  PROVE  ChainInv'
  <1>0. /\ ChainTypes /\ StagesFollow /\ Chain!PassIsWholePlan
        /\ \A u \in ChainUnits : OfUnit(u)
    BY DEF ChainInv
  <1>1. /\ made' = Chain!NoRows /\ stage = "idle"
        /\ stage' \in {"generate", "attack", "replay"}
        /\ UNCHANGED <<failFast, video, chainRecords, sketches, chainDecision, attacked,
                       attacks, chainEvidence, verdicts>>
    BY DEF Chain!BeginGeneration, Chain!BeginAttacks, Chain!BeginReplay, Chain!Begin, Chain!files
  <1>2. CASE Chain!BeginGeneration
    <2>1. /\ chainRun < ChainRuns /\ chainRun' = chainRun + 1 /\ fresh' = 0
          /\ left' = ChainUnits /\ stage' = "generate"
      BY <1>2 DEF Chain!BeginGeneration, Chain!Begin
    <2>2. chainRun' \in 0 .. ChainRuns /\ chainRun \in Int
      BY <1>0, <2>1, ChainConstants DEF ChainTypes
    <2>3. ChainTypes' BY <1>0, <1>1, <2>1, <2>2, ChainRowTypes DEF ChainTypes
    <2>4. chainDecision.run \in Int /\ chainDecision.run <= chainRun
      BY <1>0, ChainConstants DEF ChainTypes, StagesFollow
    <2>5. StagesFollow' BY <1>0, <1>1, <2>1, <2>2, <2>4 DEF ChainTypes, StagesFollow, Generating
    <2>6. Chain!PassIsWholePlan' BY <1>1, <2>1, <2>2, <2>4 DEF Chain!PassIsWholePlan
    <2>7. ASSUME NEW u \in ChainUnits PROVE OfUnit(u)'
      BY <1>0, <1>1, <2>1, ChainRowTypes
      DEF OfUnit, MadeByRun, CarriedByRun, TakenByRun, VerdictIsOfRun, Generating
    <2> QED BY <2>3, <2>5, <2>6, <2>7 DEF ChainInv
  <1>3. CASE Chain!BeginAttacks \/ Chain!BeginReplay
    <2>1. /\ chainRun' = chainRun
          /\ \/ stage' = "attack" /\ left' = Chain!Ready(chainRecords) /\ fresh' = Chain!AtMost(1)
             \/ stage' = "replay" /\ left' = Chain!Ready(attacks) /\ fresh' = Chain!AtMost(2)
      BY <1>3 DEF Chain!BeginAttacks, Chain!BeginReplay, Chain!Begin
    <2>2. /\ fresh' \in 0 .. 3 /\ fresh' <= fresh
          /\ stage' = "attack" => fresh' <= 1
          /\ stage' = "replay" => fresh' <= 2
      BY <1>0, <2>1 DEF ChainTypes, Chain!AtMost
    <2>3. left' \subseteq ChainUnits BY <2>1 DEF Chain!Ready
    <2>4. ChainTypes' BY <1>0, <1>1, <2>1, <2>2, <2>3, ChainRowTypes DEF ChainTypes
    <2>5. StagesFollow' BY <1>0, <1>1, <2>1, <2>2 DEF StagesFollow, Generating
    <2>6. Chain!PassIsWholePlan' BY <1>0, <1>1, <2>1 DEF Chain!PassIsWholePlan
    <2>7. ASSUME NEW u \in ChainUnits PROVE OfUnit(u)'
      <3>1. MadeByRun(u)' /\ VerdictIsOfRun(u)'
        BY <1>0, <1>1, <2>1 DEF OfUnit, MadeByRun, VerdictIsOfRun, Generating
      <3>2. CarriedByRun(u)'
        BY <1>0, <1>1, <2>1, <2>2 DEF OfUnit, CarriedByRun, ChainTypes
      <3>3. TakenByRun(u)'
        BY <1>1, <2>1, ChainRowTypes DEF TakenByRun, Chain!Ready
      <3> QED BY <3>1, <3>2, <3>3 DEF OfUnit
    <2> QED BY <2>4, <2>5, <2>6, <2>7 DEF ChainInv
  <1> QED BY <1>2, <1>3

(* A unit is done: the session holds its row. *)
LEMMA DoneIs ==
  ASSUME ChainTypes, NEW u \in ChainUnits, NEW r \in Chain!Row, Chain!Done(u, r)
  PROVE  /\ made' \in [ChainUnits -> Chain!Row] /\ made'[u] = r
         /\ left' = left \ {u} /\ left' \subseteq ChainUnits
         /\ \A v \in ChainUnits : v # u => made'[v] = made[v]
  BY DEF ChainTypes, Chain!Done

LEMMA GenerationKeeps ==
  ASSUME ChainInv, NEW u \in ChainUnits, Chain!Exported(u) \/ Chain!GenerationFails(u)
  PROVE  ChainInv'
  <1>0. /\ ChainTypes /\ StagesFollow /\ Chain!PassIsWholePlan
        /\ \A v \in ChainUnits : OfUnit(v)
    BY DEF ChainInv
  <1>1. /\ stage = "generate" /\ u \in left
        /\ UNCHANGED <<stage, failFast, chainRun, revision, fresh, chainRecords, sketches,
                       chainDecision, attacked, attacks, chainEvidence, verdicts>>
    BY DEF Chain!Exported, Chain!GenerationFails, Chain!memory
  <1>2. /\ chainRun \in 0 .. ChainRuns /\ -chainRun \in -ChainRuns .. ChainRuns
        /\ chainRun \in -ChainRuns .. ChainRuns /\ 0 \in 0 .. ChainRuns
    BY <1>0, ChainConstants DEF ChainTypes
  <1>3. /\ video' \in [ChainUnits -> -ChainRuns .. ChainRuns]
        /\ \A v \in ChainUnits : v # u => video'[v] = video[v]
        /\ made' \in [ChainUnits -> Chain!Row]
        /\ \A v \in ChainUnits : v # u => made'[v] = made[v]
        /\ left' \subseteq ChainUnits
        /\ made'[u].ok => made'[u].digest = chainRun /\ video'[u] = chainRun
    <2>1. CASE Chain!Exported(u)
      <3> DEFINE r == [digest |-> chainRun, bytes |-> chainRun, ok |-> TRUE]
      <3>1. r \in Chain!Row BY <1>2, ChainRowTypes
      <3>2. Chain!Done(u, r) /\ video' = [video EXCEPT ![u] = chainRun]
        BY <2>1 DEF Chain!Exported
      <3>3. r.digest = chainRun OBVIOUS
      <3> HIDE DEF r
      <3>4. /\ made' \in [ChainUnits -> Chain!Row] /\ made'[u] = r /\ left' \subseteq ChainUnits
            /\ \A v \in ChainUnits : v # u => made'[v] = made[v]
        BY <1>0, <3>1, <3>2, DoneIs
      <3> QED BY <1>0, <1>2, <3>2, <3>3, <3>4 DEF ChainTypes
    <2>2. CASE Chain!GenerationFails(u)
      <3>1. /\ video' = video \/ video' = [video EXCEPT ![u] = -chainRun]
            /\ made' = [made EXCEPT ![u] = [digest |-> chainRun, bytes |-> 0, ok |-> FALSE]]
            /\ left' = IF failFast THEN {} ELSE left \ {u}
        BY <2>2 DEF Chain!GenerationFails
      <3>2. [digest |-> chainRun, bytes |-> 0, ok |-> FALSE] \in Chain!Row
        BY <1>2, ChainRowTypes
      <3>3. video' \in [ChainUnits -> -ChainRuns .. ChainRuns]
            /\ \A v \in ChainUnits : v # u => video'[v] = video[v]
        BY <1>0, <1>2, <3>1 DEF ChainTypes
      <3>4. made' \in [ChainUnits -> Chain!Row] /\ ~made'[u].ok
            /\ \A v \in ChainUnits : v # u => made'[v] = made[v]
        BY <1>0, <3>1, <3>2 DEF ChainTypes
      <3> QED BY <1>0, <3>1, <3>3, <3>4 DEF ChainTypes
    <2> QED BY <2>1, <2>2
  <1>4. ChainTypes' BY <1>0, <1>1, <1>3 DEF ChainTypes
  <1>5. StagesFollow' BY <1>0, <1>1 DEF StagesFollow, Generating
  <1>6. chainDecision.run # chainRun /\ fresh = 0
    BY <1>0, <1>1, ChainConstants DEF StagesFollow, Generating, ChainTypes
  <1>7. Chain!PassIsWholePlan' BY <1>1, <1>6 DEF Chain!PassIsWholePlan
  <1>8. ASSUME NEW v \in ChainUnits PROVE OfUnit(v)'
    <2>1. OfUnit(v) BY <1>0
    <2>2. MadeByRun(v)' BY <1>1, <1>3, <2>1 DEF OfUnit, MadeByRun, Generating
    <2>3. CarriedByRun(v)' BY <1>1, <1>6, <2>1 DEF OfUnit, CarriedByRun
    <2>4. TakenByRun(v)' BY <1>1 DEF TakenByRun
    <2>5. VerdictIsOfRun(v)' BY <1>1, <2>1 DEF OfUnit, VerdictIsOfRun
    <2> QED BY <2>2, <2>3, <2>4, <2>5 DEF OfUnit
  <1> QED BY <1>4, <1>5, <1>7, <1>8 DEF ChainInv

(* The files of a generation, the decision last. *)
LEMMA WritingKeeps ==
  ASSUME ChainInv, Chain!WriteRecords \/ Chain!WriteSketches PROVE ChainInv'
  <1>0. /\ ChainTypes /\ StagesFollow /\ Chain!PassIsWholePlan
        /\ \A v \in ChainUnits : OfUnit(v)
    BY DEF ChainInv
  <1>1. /\ stage \in {"generate", "sketch"} /\ stage' \in {"sketch", "decide"}
        /\ stage = "sketch" => chainRecords' = chainRecords
        /\ stage = "generate" => chainRecords' = made
        /\ UNCHANGED <<left, made, failFast, chainRun, fresh, video, chainDecision, attacked,
                       attacks, chainEvidence, verdicts>>
    BY DEF Chain!WriteRecords, Chain!WriteSketches, Chain!memory
  <1>2. sketches' \in [ChainUnits -> 0 .. ChainRuns]
    <2>1. CASE Chain!WriteRecords BY <1>0, <2>1 DEF ChainTypes, Chain!WriteRecords
    <2>2. CASE Chain!WriteSketches
      <3>1. 0 \in 0 .. ChainRuns BY ChainConstants
      <3> QED BY <1>0, <2>2, <3>1 DEF ChainTypes, Chain!WriteSketches
    <2> QED BY <2>1, <2>2
  <1>3. ChainTypes' BY <1>0, <1>1, <1>2 DEF ChainTypes
  <1>4. StagesFollow' BY <1>0, <1>1 DEF StagesFollow, Generating
  <1>5. chainDecision.run # chainRun /\ fresh = 0 /\ chainRun > 0
    BY <1>0, <1>1, ChainConstants DEF StagesFollow, Generating, ChainTypes
  <1>6. Chain!PassIsWholePlan' BY <1>1, <1>5 DEF Chain!PassIsWholePlan
  <1>7. ASSUME NEW v \in ChainUnits PROVE OfUnit(v)'
    <2>1. OfUnit(v) BY <1>0
    <2>2. MadeByRun(v)' BY <1>1, <2>1 DEF OfUnit, MadeByRun, Generating
    <2>3. CarriedByRun(v)'
      <3>1. chainRecords'[v].ok => chainRecords'[v].digest > 0
        BY <1>1, <1>5, <2>1 DEF OfUnit, MadeByRun, CarriedByRun, Generating
      <3> QED BY <1>1, <1>5, <2>1, <3>1 DEF OfUnit, CarriedByRun
    <2>4. TakenByRun(v)' BY <1>1 DEF TakenByRun
    <2>5. VerdictIsOfRun(v)' BY <1>1, <2>1 DEF OfUnit, VerdictIsOfRun
    <2> QED BY <2>2, <2>3, <2>4, <2>5 DEF OfUnit
  <1> QED BY <1>3, <1>4, <1>6, <1>7 DEF ChainInv

LEMMA DecisionKeeps == ASSUME ChainInv, Chain!WriteDecision PROVE ChainInv'
  <1>0. /\ ChainTypes /\ StagesFollow /\ Chain!PassIsWholePlan
        /\ \A v \in ChainUnits : OfUnit(v)
    BY DEF ChainInv
  <1>1. /\ stage = "decide" /\ stage' = "idle" /\ made' = Chain!NoRows /\ fresh' = 1
        /\ chainDecision' = [run |-> chainRun, passed |-> Chain!Succeeds]
        /\ UNCHANGED <<left, failFast, chainRun, video, chainRecords, sketches, attacked,
                       attacks, chainEvidence, verdicts>>
    BY DEF Chain!WriteDecision, Chain!memory
  <1>2. Chain!Succeeds \in BOOLEAN BY <1>0 DEF Chain!Succeeds, ChainTypes
  <1>3. /\ chainDecision' \in [run : 0 .. ChainRuns, passed : BOOLEAN]
        /\ chainDecision'.run = chainRun /\ chainDecision'.passed = Chain!Succeeds
    BY <1>0, <1>1, <1>2 DEF ChainTypes
  <1>4. ChainTypes' BY <1>0, <1>1, <1>3, ChainRowTypes DEF ChainTypes
  <1>5. chainRun > 0 /\ chainRun \in Int /\ fresh = 0
    BY <1>0, <1>1, ChainConstants DEF StagesFollow, Generating, ChainTypes
  <1>6. StagesFollow' BY <1>1, <1>3, <1>5 DEF StagesFollow, Generating
  <1>7. ASSUME NEW v \in ChainUnits
        PROVE  chainRecords[v].ok => chainRecords[v].digest = chainRun /\ video[v] = chainRun
    BY <1>0, <1>1 DEF OfUnit, MadeByRun, Generating
  <1>8. Chain!PassIsWholePlan'
    <2>1. ASSUME failFast, Chain!Succeeds, NEW v \in ChainUnits PROVE chainRecords[v].ok
      <3>1. made[v].ok BY <2>1 DEF Chain!Succeeds, Chain!Ready
      <3> QED BY <1>0, <1>1, <3>1 DEF OfUnit, MadeByRun
    <2> QED BY <1>1, <1>3, <1>7, <2>1 DEF Chain!PassIsWholePlan
  <1>9. ASSUME NEW v \in ChainUnits PROVE OfUnit(v)'
    <2>1. OfUnit(v) BY <1>0
    <2>2. MadeByRun(v)' /\ TakenByRun(v)' BY <1>1 DEF MadeByRun, TakenByRun, Generating
    <2>3. CarriedByRun(v)' BY <1>1, <1>7, <2>1 DEF OfUnit, CarriedByRun
    <2>4. VerdictIsOfRun(v)' BY <1>1, <2>1 DEF OfUnit, VerdictIsOfRun
    <2> QED BY <2>2, <2>3, <2>4 DEF OfUnit
  <1> QED BY <1>4, <1>6, <1>8, <1>9 DEF ChainInv

(* A video is attacked, or a record of an attack replayed, or either fails. *)
LEMMA TakingKeeps ==
  ASSUME ChainInv, NEW u \in ChainUnits,
         Chain!Attack(u) \/ Chain!AttackFails(u) \/ Chain!Replay(u) \/ Chain!ReplayFails(u)
  PROVE  ChainInv'
  <1>0. /\ ChainTypes /\ StagesFollow /\ Chain!PassIsWholePlan
        /\ \A v \in ChainUnits : OfUnit(v)
    BY DEF ChainInv
  <1>1. /\ stage \in {"attack", "replay"} /\ u \in left
        /\ UNCHANGED <<stage, failFast, chainRun, fresh, video, chainRecords, sketches,
                       chainDecision, attacks, chainEvidence, verdicts>>
    BY DEF Chain!Attack, Chain!AttackFails, Chain!Replay, Chain!ReplayFails, Chain!memory,
           Chain!files
  <1>2. /\ \A w \in 0 .. ChainRuns : w \in Int
        /\ 0 \in 0 .. ChainRuns /\ chainRecords[u] \in Chain!Row /\ attacks[u] \in Chain!Row
        /\ chainRecords[u].digest \in 0 .. ChainRuns /\ attacks[u].digest \in 0 .. ChainRuns
        /\ attacked[u] \in 0 .. ChainRuns /\ video[u] \in -ChainRuns .. ChainRuns
    BY <1>0, ChainConstants, ChainRowTypes DEF ChainTypes
  <1>3. PICK r \in Chain!Row :
          /\ Chain!Done(u, r)
          /\ attacked' \in [ChainUnits -> 0 .. ChainRuns]
          /\ \A v \in ChainUnits : v # u => attacked'[v] = attacked[v]
          /\ stage = "replay" => attacked' = attacked
          /\ attacked'[u] = attacked[u] \/ (attacked'[u] = video[u] /\ video[u] > 0)
          /\ r.ok /\ stage = "attack" => attacked'[u] = video[u] /\ video[u] > 0
          /\ r.ok /\ stage = "replay" => r.bytes = attacked[u]
    <2>1. CASE Chain!Attack(u)
      <3> DEFINE r == [digest |-> chainRecords[u].digest, bytes |-> video[u], ok |-> TRUE]
      <3>1. /\ stage = "attack" /\ video[u] > 0 /\ Chain!Done(u, r)
            /\ attacked' = [attacked EXCEPT ![u] = video[u]]
        BY <2>1 DEF Chain!Attack
      <3>2. video[u] \in 0 .. ChainRuns BY <1>2, <3>1, ChainConstants
      <3>3. r \in Chain!Row BY <1>2, <3>2, ChainRowTypes
      <3> QED BY <1>0, <3>1, <3>2, <3>3 DEF ChainTypes
    <2>2. CASE Chain!AttackFails(u)
      <3> DEFINE r == [digest |-> chainRecords[u].digest, bytes |-> 0, ok |-> FALSE]
      <3>1. stage = "attack" /\ Chain!Done(u, r) /\ attacked' = attacked
        BY <2>2 DEF Chain!AttackFails, Chain!files
      <3>2. r \in Chain!Row BY <1>2, ChainRowTypes
      <3>3. ~r.ok OBVIOUS
      <3> QED BY <1>0, <3>1, <3>2, <3>3 DEF ChainTypes
    <2>3. CASE Chain!Replay(u)
      <3> DEFINE r == [digest |-> attacks[u].digest, bytes |-> attacked[u], ok |-> TRUE]
      <3>1. stage = "replay" /\ Chain!Done(u, r) /\ attacked' = attacked
        BY <2>3 DEF Chain!Replay, Chain!files
      <3>2. r \in Chain!Row BY <1>2, ChainRowTypes
      <3>3. r.bytes = attacked[u] OBVIOUS
      <3> QED BY <1>0, <3>1, <3>2, <3>3 DEF ChainTypes
    <2>4. CASE Chain!ReplayFails(u)
      <3>1. stage = "replay" /\ Chain!Done(u, Chain!NoRow) /\ attacked' = attacked
        BY <2>4 DEF Chain!ReplayFails, Chain!files
      <3> QED BY <1>0, <3>1, ChainRowTypes DEF ChainTypes
    <2> QED BY <2>1, <2>2, <2>3, <2>4
  <1>4. /\ made' \in [ChainUnits -> Chain!Row] /\ made'[u] = r
        /\ left' = left \ {u} /\ left' \subseteq ChainUnits
        /\ \A v \in ChainUnits : v # u => made'[v] = made[v]
    BY <1>0, <1>3, DoneIs
  <1>5. ChainTypes' BY <1>0, <1>1, <1>3, <1>4 DEF ChainTypes
  <1>6. StagesFollow' BY <1>0, <1>1 DEF StagesFollow, Generating
  <1>7. Chain!PassIsWholePlan' BY <1>0, <1>1 DEF Chain!PassIsWholePlan
  <1>8. /\ fresh \in Int /\ stage = "attack" => fresh <= 1
        /\ fresh \in Int /\ stage = "replay" => fresh <= 2
        /\ fresh \in 0 .. 3
    BY <1>0 DEF StagesFollow, ChainTypes
  <1>9. ASSUME NEW v \in ChainUnits PROVE OfUnit(v)'
    <2>1. OfUnit(v) BY <1>0
    <2>2. MadeByRun(v)' BY <1>1 DEF MadeByRun, Generating
    <2>3. VerdictIsOfRun(v)' BY <1>1, <2>1 DEF OfUnit, VerdictIsOfRun
    <2>4. CASE v # u
      <3>1. CarriedByRun(v)' BY <1>1, <1>3, <2>1, <2>4 DEF OfUnit, CarriedByRun
      <3>2. TakenByRun(v)' BY <1>1, <1>3, <1>4, <2>1, <2>4 DEF OfUnit, TakenByRun
      <3> QED BY <2>2, <2>3, <3>1, <3>2 DEF OfUnit
    <2>5. CASE v = u
      <3>1. /\ stage = "attack" => chainRecords[u].ok
            /\ stage = "replay" => attacks[u].ok
        BY <1>0, <1>1 DEF OfUnit, TakenByRun
      <3>2. stage = "attack" /\ fresh = 1 => video[u] = chainRun
        BY <1>0, <3>1, <1>8 DEF OfUnit, CarriedByRun
      <3>3. CarriedByRun(u)'
        BY <1>0, <1>1, <1>2, <1>3, <1>8 DEF OfUnit, CarriedByRun
      <3>4. stage = "replay" => attacked[u] > 0 /\ (fresh = 2 => attacked[u] = chainRun)
        BY <1>0, <3>1, <1>8 DEF OfUnit, CarriedByRun
      <3>5. TakenByRun(u)'
        BY <1>1, <1>3, <1>4, <3>1, <3>2, <3>4 DEF TakenByRun
      <3> QED BY <2>2, <2>3, <2>5, <3>3, <3>5 DEF OfUnit
    <2> QED BY <2>4, <2>5
  <1> QED BY <1>5, <1>6, <1>7, <1>9 DEF ChainInv

(* The attack records and the evidence replace those of earlier sessions. *)
LEMMA TakenKeeps ==
  ASSUME ChainInv, Chain!WriteAttacks \/ Chain!WriteEvidence PROVE ChainInv'
  <1>0. /\ ChainTypes /\ StagesFollow /\ Chain!PassIsWholePlan
        /\ \A v \in ChainUnits : OfUnit(v)
    BY DEF ChainInv
  <1>1. /\ stage' = "idle" /\ made' = Chain!NoRows
        /\ \/ /\ stage = "attack" /\ attacks' = made /\ chainEvidence' = chainEvidence
              /\ fresh' = IF fresh = 1 THEN 2 ELSE fresh
           \/ /\ stage = "replay" /\ chainEvidence' = made /\ attacks' = attacks
              /\ fresh' = IF fresh = 2 THEN 3 ELSE fresh
        /\ UNCHANGED <<left, failFast, chainRun, video, chainRecords, sketches,
                       chainDecision, attacked, verdicts>>
    BY DEF Chain!WriteAttacks, Chain!WriteEvidence, Chain!memory
  <1>2. fresh \in 0 .. 3 /\ (stage = "attack" => fresh <= 1) /\ (stage = "replay" => fresh <= 2)
    BY <1>0 DEF ChainTypes, StagesFollow
  <1>3. /\ fresh' \in 0 .. 3 /\ (fresh' >= 1 => fresh >= 1)
        /\ stage = "attack" => (fresh' >= 2 => fresh = 1) /\ fresh' # 3
        /\ stage = "replay" => (fresh' >= 2 => fresh = 2) /\ (fresh' = 3 => fresh = 2)
    BY <1>1, <1>2
  <1>4. ChainTypes' BY <1>0, <1>1, <1>3, ChainRowTypes DEF ChainTypes
  <1>5. StagesFollow' BY <1>0, <1>1 DEF StagesFollow, Generating
  <1>6. Chain!PassIsWholePlan' BY <1>0, <1>1 DEF Chain!PassIsWholePlan
  <1>7. ASSUME NEW v \in ChainUnits PROVE OfUnit(v)'
    <2>1. OfUnit(v) BY <1>0
    <2>2. MadeByRun(v)' /\ TakenByRun(v)' BY <1>1 DEF MadeByRun, TakenByRun, Generating
    <2>3. VerdictIsOfRun(v)' BY <1>1, <2>1 DEF OfUnit, VerdictIsOfRun
    <2>4. CarriedByRun(v)'
      BY <1>1, <1>2, <1>3, <2>1 DEF OfUnit, CarriedByRun, TakenByRun
    <2> QED BY <2>2, <2>3, <2>4 DEF OfUnit
  <1> QED BY <1>4, <1>5, <1>6, <1>7 DEF ChainInv

(* The sketch gate. *)
LEMMA GateKeeps == ASSUME ChainInv, Chain!Gate PROVE ChainInv'
  <1>0. /\ ChainTypes /\ StagesFollow /\ Chain!PassIsWholePlan
        /\ \A v \in ChainUnits : OfUnit(v)
    BY DEF ChainInv
  <1>1. /\ verdicts' = [v \in ChainUnits |-> Chain!Verdict(v)]
        /\ UNCHANGED <<stage, left, made, failFast, chainRun, fresh, video, chainRecords,
                       sketches, chainDecision, attacked, attacks, chainEvidence>>
    BY DEF Chain!Gate, Chain!memory
  <1>2. ASSUME NEW v \in ChainUnits
        PROVE  /\ Chain!Verdict(v) \in Verdicts
               /\ Chain!Verdict(v).verified =>
                    /\ Chain!Verdict(v).sketch = Chain!Verdict(v).record
                    /\ Chain!Verdict(v).sketch > 0
                    /\ Chain!Verdict(v).ordered =>
                         Chain!Verdict(v).bytes = Chain!Verdict(v).sketch
    <2>1. /\ chainRecords[v] \in Chain!Row /\ chainEvidence[v] \in Chain!Row
          /\ sketches[v] \in 0 .. ChainRuns /\ 0 \in 0 .. ChainRuns
      BY <1>0, ChainConstants DEF ChainTypes
    <2>2. /\ chainRecords[v].digest \in 0 .. ChainRuns /\ chainRecords[v].ok \in BOOLEAN
          /\ chainEvidence[v].bytes \in 0 .. ChainRuns
      BY <2>1, ChainRowTypes
    <2>3. OfUnit(v) /\ fresh \in 0 .. 3 BY <1>0 DEF ChainTypes
    <2>4. Chain!Verified(v) \in BOOLEAN /\ (fresh = 3) \in BOOLEAN
      BY <2>2 DEF Chain!Verified
    <2>5. CASE chainEvidence[v].ok
      <3>1. Chain!Verdict(v) = [verified |-> Chain!Verified(v), sketch |-> sketches[v],
                record |-> chainRecords[v].digest, bytes |-> chainEvidence[v].bytes,
                ordered |-> fresh = 3]
        BY <2>5 DEF Chain!Verdict
      <3>2. Chain!Verdict(v) \in Verdicts BY <2>1, <2>2, <2>4, <3>1 DEF Verdicts
      <3>3. Chain!Verified(v) =>
              /\ sketches[v] = chainRecords[v].digest /\ chainRecords[v].digest > 0
              /\ fresh = 3 => chainRecords[v].digest = chainRun
        BY <2>3 DEF Chain!Verified, OfUnit, CarriedByRun
      <3>4. fresh = 3 => chainEvidence[v].bytes = chainRun
        BY <2>3, <2>5 DEF OfUnit, CarriedByRun
      <3>5. /\ Chain!Verdict(v).sketch = sketches[v]
            /\ Chain!Verdict(v).record = chainRecords[v].digest
            /\ Chain!Verdict(v).bytes = chainEvidence[v].bytes
        BY <3>1
      <3>6. Chain!Verdict(v).verified => Chain!Verified(v) BY <3>1
      <3>7. Chain!Verdict(v).ordered => fresh = 3
        <4> DEFINE o == fresh = 3
        <4>1. o \in BOOLEAN /\ (o => fresh = 3) OBVIOUS
        <4>2. Chain!Verdict(v) = [verified |-> Chain!Verified(v), sketch |-> sketches[v],
                record |-> chainRecords[v].digest, bytes |-> chainEvidence[v].bytes,
                ordered |-> o]
          BY <3>1
        <4> HIDE DEF o
        <4> QED BY <4>1, <4>2
      <3> QED BY <3>2, <3>3, <3>4, <3>5, <3>6, <3>7
    <2>6. CASE ~chainEvidence[v].ok BY <2>1, <2>6 DEF Chain!Verdict, Verdicts
    <2> QED BY <2>5, <2>6
  <1>3. verdicts' \in [ChainUnits -> Verdicts] /\ \A v \in ChainUnits : verdicts'[v] = Chain!Verdict(v)
    BY <1>1, <1>2
  <1>4. ChainTypes' BY <1>0, <1>1, <1>3 DEF ChainTypes
  <1>5. StagesFollow' BY <1>0, <1>1 DEF StagesFollow, Generating
  <1>6. Chain!PassIsWholePlan' BY <1>0, <1>1 DEF Chain!PassIsWholePlan
  <1>7. ASSUME NEW v \in ChainUnits PROVE OfUnit(v)'
    <2>1. OfUnit(v) BY <1>0
    <2>2. MadeByRun(v)' /\ TakenByRun(v)' /\ CarriedByRun(v)'
      BY <1>1, <2>1 DEF OfUnit, MadeByRun, TakenByRun, CarriedByRun, Generating
    <2>3. VerdictIsOfRun(v)' BY <1>2, <1>3 DEF VerdictIsOfRun
    <2> QED BY <2>2, <2>3 DEF OfUnit
  <1> QED BY <1>4, <1>5, <1>6, <1>7 DEF ChainInv

(* A cut loses what the session held; a stutter nothing. *)
LEMMA CutKeeps == ASSUME ChainInv, Chain!Cut \/ UNCHANGED Chain!vars PROVE ChainInv'
  <1>0. /\ ChainTypes /\ StagesFollow /\ Chain!PassIsWholePlan
        /\ \A v \in ChainUnits : OfUnit(v)
    BY DEF ChainInv
  <1>1. /\ \/ stage' = "idle" /\ left' = {} /\ made' = Chain!NoRows
           \/ UNCHANGED <<stage, left, made>>
        /\ UNCHANGED <<failFast, chainRun, fresh, video, chainRecords, sketches,
                       chainDecision, attacked, attacks, chainEvidence, verdicts>>
    BY DEF Chain!Cut, Chain!memory, Chain!files, Chain!vars
  <1>2. ChainTypes' BY <1>0, <1>1, ChainRowTypes DEF ChainTypes
  <1>3. StagesFollow' BY <1>0, <1>1 DEF StagesFollow, Generating
  <1>4. Chain!PassIsWholePlan' BY <1>0, <1>1 DEF Chain!PassIsWholePlan
  <1>5. ASSUME NEW v \in ChainUnits PROVE OfUnit(v)'
    BY <1>0, <1>1
    DEF OfUnit, MadeByRun, TakenByRun, CarriedByRun, VerdictIsOfRun, Generating
  <1> QED BY <1>2, <1>3, <1>4, <1>5 DEF ChainInv

LEMMA NextChainInv == ChainInv /\ [Chain!Next]_(Chain!vars) => ChainInv'
  <1> SUFFICES ASSUME ChainInv, [Chain!Next]_(Chain!vars) PROVE ChainInv'
    OBVIOUS
  <1> QED
    BY BeginKeeps, GenerationKeeps, WritingKeeps, DecisionKeeps, TakingKeeps, TakenKeeps,
       GateKeeps, CutKeeps
    DEF Chain!Next

(* The promises of the run root, from its invariant. *)
LEMMA ChainIsAsPromised ==
  ChainInv => /\ Chain!TypeOK /\ Chain!VerifiedIsOneRun /\ Chain!OrderedChainIsSound
              /\ Chain!PassIsWholePlan
  <1> SUFFICES ASSUME ChainInv
               PROVE  /\ Chain!TypeOK /\ Chain!VerifiedIsOneRun /\ Chain!OrderedChainIsSound
                      /\ Chain!PassIsWholePlan
    OBVIOUS
  <1>1. ChainTypes /\ Chain!PassIsWholePlan /\ \A u \in ChainUnits : OfUnit(u) BY DEF ChainInv
  <1>2. stage = "attack" => left \cup Chain!Ready(made) \subseteq Chain!Ready(chainRecords)
    BY <1>1 DEF ChainTypes, OfUnit, TakenByRun, Chain!Ready
  <1>3. \A u \in ChainUnits : chainEvidence[u].ok => chainEvidence[u].bytes > 0
    BY <1>1 DEF OfUnit, CarriedByRun
  <1>4. Chain!TypeOK BY <1>1, <1>2, <1>3 DEF Chain!TypeOK, ChainTypes
  <1>5. Chain!VerifiedIsOneRun /\ Chain!OrderedChainIsSound
    BY <1>1 DEF OfUnit, VerdictIsOfRun, Chain!VerifiedIsOneRun, Chain!OrderedChainIsSound
  <1> QED BY <1>1, <1>4, <1>5

-----------------------------------------------------------------------------
(* The flow evidence.  Every outcome that did not raise is whole, nothing is *)
(* pending once the records are scored, and the files written so far are the *)
(* first of their list, each with the decision that holds now.               *)

FlowTypes ==
    /\ generated \subseteq Flow!Identities \X Flow!Variants /\ revisionsAgree \in BOOLEAN
    /\ DOMAIN flowOutcome \subseteq Flow!Sources
    /\ \A s \in DOMAIN flowOutcome :
         /\ flowOutcome[s].records \in 0 .. Flow!FullCount(s)
         /\ ~flowOutcome[s].raised => flowOutcome[s].records = Flow!FullCount(s)
    /\ flowSession \in {"select", "noise", "replay", "write", "done", "raised", "killed"}
    /\ flowDisk \in [Flow!Names -> Flow!Entry]

Scoring == flowSession \in {"write", "done", "killed"}

ResultIsOfPairs ==
    /\ result.matched \subseteq Flow!Pairs
    /\ flowSession \in {"select", "noise", "replay"} => result.matched = {}
    /\ Scoring => Flow!Pending = {}

\* The first n files are of this run, with its decision.
WrittenUpTo(n) ==
    \A k \in 1 .. 6 :
        /\ flowDisk[Flow!Files[k]].by = "this" <=> k <= n
        /\ k <= n => flowDisk[Flow!Files[k]] = [by |-> "this", pass |-> Flow!Passes]

FilesInOrder ==
    /\ \E n \in 0 .. 6 : WrittenUpTo(n) /\ (flowSession = "done" => n = 6)
    /\ ~Scoring => \A f, g \in Flow!Names : flowDisk[f] = flowDisk[g] /\ flowDisk[f].by # "this"

FlowInv == FlowTypes /\ ResultIsOfPairs /\ FilesInOrder

LEMMA FlowProjects == [SomeStep]_allVars => [Flow!Next]_(Flow!vars)
  <1> SUFFICES ASSUME [SomeStep]_allVars PROVE [Flow!Next]_(Flow!vars)
    OBVIOUS
  <1> USE DEF flowVars, Flow!vars
  <1>1. CASE FlowStep BY <1>1 DEF FlowStep
  <1>2. CASE Rest /\ program # "flow" BY <1>2 DEF Rest
  <1>3. CASE UNCHANGED allVars BY <1>3 DEF allVars
  <1> QED
    BY <1>1, <1>2, <1>3
    DEF SomeStep, GatesStep, ChainStep, AdaptiveStep, SearchStep, FairnessStep,
        DetectorStep, MotionStep

LEMMA FlowConstants ==
  /\ Tests \cup Calibrations \subseteq Nat /\ Tests \cap Calibrations = {} /\ IsFiniteSet(Tests)
  /\ Maximum \in Nat \ {0} /\ TrialCount \in Nat \ {0} /\ NeededClusters \in Nat \ {0}
  BY InstancesAssumption DEF Flow!FlowEvidenceAssumption, Flow!IsFiniteSet, IsFiniteSet

(* A source leaves a record at least, and a clean video some of each variant. *)
LEMMA FullCounts ==
  /\ Flow!Units = 2 * TrialCount /\ Flow!Units \in Nat /\ Flow!Units > TrialCount
  /\ \A s : Flow!FullCount(s) \in Nat /\ Flow!FullCount(s) >= 1
              /\ (s[1] = "clean" => Flow!FullCount(s) = Flow!Units)
              /\ (s[1] # "clean" /\ s[3] = "full" => Flow!FullCount(s) = 2)
  <1>1. Cardinality({"full", "no_velocity"}) = 2
    <2>1. IsFiniteSet({"full"}) /\ Cardinality({"full"}) = 1 BY FS_Singleton
    <2>2. {"full", "no_velocity"} = {"full"} \cup {"no_velocity"} /\ "no_velocity" \notin {"full"}
      OBVIOUS
    <2>3. Cardinality({"full"} \cup {"no_velocity"}) = 2
      BY <2>1, <2>2, FS_AddElement
    <2> QED BY <2>2, <2>3
  <1>2. Flow!Cardinality(Flow!Variants) = 2
    BY <1>1 DEF Flow!Variants, Flow!Cardinality, Cardinality
  <1>3. Flow!Units = 2 * TrialCount BY <1>2 DEF Flow!Units
  <1>4. Flow!Units \in Nat /\ Flow!Units > TrialCount /\ Flow!Units >= 1
    BY <1>3, FlowConstants
  <1>5. ASSUME NEW s
        PROVE  /\ Flow!FullCount(s) \in Nat /\ Flow!FullCount(s) >= 1
               /\ s[1] = "clean" => Flow!FullCount(s) = Flow!Units
               /\ s[1] # "clean" /\ s[3] = "full" => Flow!FullCount(s) = 2
    <2>1. CASE s[1] = "clean" BY <1>4, <2>1 DEF Flow!FullCount
    <2>2. CASE s[1] # "clean" /\ s[3] = "full" BY <2>2 DEF Flow!FullCount
    <2>3. CASE s[1] # "clean" /\ s[3] # "full" BY <2>3 DEF Flow!FullCount
    <2> QED BY <2>1, <2>2, <2>3
  <1> QED BY <1>3, <1>4, <1>5

(* The files by name. *)
LEMMA FilesAre ==
  /\ DOMAIN Flow!Files = 1 .. 6 /\ Flow!Names = {Flow!Files[k] : k \in 1 .. 6}
  /\ \A j, k \in 1 .. 6 : Flow!Files[j] = Flow!Files[k] => j = k
  /\ Flow!Files[1] = "records" /\ Flow!Files[2] = "failures" /\ Flow!Files[3] = "thresholds"
  /\ Flow!Files[4] = "detection" /\ Flow!Files[5] = "formal" /\ Flow!Files[6] = "mechanism"
  <1>1. DOMAIN Flow!Files = 1 .. 6 BY DEF Flow!Files
  <1> QED BY <1>1 DEF Flow!Files, Flow!Names

(* What rests on the videos and the outcomes, and on what the statistics say. *)
LEMMA FlowFrame ==
  ASSUME UNCHANGED <<generated, flowOutcome>>
  PROVE  /\ Flow!Sources' = Flow!Sources /\ Flow!Pairs' = Flow!Pairs
         /\ Flow!Pending' = Flow!Pending
         /\ result' = result => (Flow!Passes' = Flow!Passes)
  <1>1. Flow!Positives' = Flow!Positives
    BY DEF Flow!Positives, Flow!AttackSources, Flow!BlockSources, Flow!Selected, Flow!Complete
  <1>2. Flow!Sources' = Flow!Sources BY <1>1 DEF Flow!Sources, Flow!CleanSources
  <1>3. \A v : Flow!PositivesOf(v)' = Flow!PositivesOf(v) BY <1>1 DEF Flow!PositivesOf
  <1>4. Flow!Controlled' = Flow!Controlled BY <1>1 DEF Flow!Controlled
  <1>5. \A v : Flow!CleanOf(v)' = Flow!CleanOf(v)
    BY DEF Flow!CleanOf, Flow!CleanSources, Flow!Before
  <1>6. \A v : Flow!NegativesOf(v)' = Flow!NegativesOf(v) BY <1>4, <1>5 DEF Flow!NegativesOf
  <1>7. Flow!Pairs' = Flow!Pairs BY <1>3 DEF Flow!Pairs
  <1>8. Flow!Pending' = Flow!Pending BY <1>2 DEF Flow!Pending, Flow!Replayed
  <1>9. Flow!FailureRecords' = Flow!FailureRecords BY DEF Flow!FailureRecords
  <1>10. Flow!Families' = Flow!Families BY <1>4, <1>5 DEF Flow!Families, Flow!VideosOf
  <1>11. ASSUME result' = result PROVE Flow!Passes' = Flow!Passes
    <2>1. Flow!VelocityClaim' = Flow!VelocityClaim
      BY <1>3, <1>6, <1>7, <1>11 DEF Flow!VelocityClaim, Flow!Unmatched
    <2>2. Flow!PathClaim' = Flow!PathClaim BY <1>3, <1>11 DEF Flow!PathClaim
    <2> QED BY <1>3, <1>4, <1>9, <1>10, <1>11, <2>1, <2>2 DEF Flow!Passes
  <1> QED BY <1>2, <1>7, <1>8, <1>11

LEMMA FlowStarts == Start => FlowInv
  <1> SUFFICES ASSUME Start PROVE FlowInv
    OBVIOUS
  <1>1. /\ generated \subseteq Flow!Identities \X Flow!Variants /\ revisionsAgree \in BOOLEAN
        /\ flowOutcome = [s \in {} |-> [records |-> 0, raised |-> FALSE]]
        /\ flowSession = "select" /\ result.matched = {}
        /\ \E b \in {"nobody", "earlier"}, p \in BOOLEAN :
              flowDisk = [f \in Flow!Names |-> [by |-> b, pass |-> p]]
    <2>1. CASE program = "flow"
      <3>1. Flow!Init BY <2>1 DEF Start
      <3> QED BY <3>1 DEF Flow!Init
    <2>2. CASE program # "flow"
      <3>1. /\ generated = {} /\ revisionsAgree = TRUE /\ flowSession = "select"
            /\ flowOutcome = [s \in {} |-> [records |-> 0, raised |-> FALSE]]
            /\ result = [matched |-> {}, velocityGain |-> FALSE, pathGain |-> FALSE,
                              posterior |-> FALSE]
            /\ flowDisk = [f \in Flow!Names |-> [by |-> "nobody", pass |-> FALSE]]
        BY <2>2 DEF Start
      <3>2. result.matched = {} BY <3>1
      <3> QED BY <3>1, <3>2
    <2> QED BY <2>1, <2>2
  <1>2. FlowTypes BY <1>1 DEF FlowTypes, Flow!Entry
  <1>3. ResultIsOfPairs BY <1>1 DEF ResultIsOfPairs, Scoring
  <1>4. \A f \in Flow!Names : flowDisk[f].by # "this" BY <1>1
  <1>5. WrittenUpTo(0) BY <1>4, FilesAre DEF WrittenUpTo
  <1>6. \A f, g \in Flow!Names : flowDisk[f] = flowDisk[g] BY <1>1
  <1>7. 0 \in 0 .. 6 OBVIOUS
  <1>8. FilesInOrder BY <1>1, <1>4, <1>5, <1>6, <1>7 DEF FilesInOrder, Scoring
  <1> QED BY <1>2, <1>3, <1>8 DEF FlowInv

(* Before the files are written none is of this run. *)
LEMMA UnwrittenKept ==
  ASSUME FlowInv, ~Scoring, flowDisk' = flowDisk, flowSession' # "done"
  PROVE  FilesInOrder'
  <1>1. \A f, g \in Flow!Names : flowDisk[f] = flowDisk[g] /\ flowDisk[f].by # "this"
    BY DEF FlowInv, FilesInOrder
  <1>2. \A f, g \in Flow!Names : flowDisk'[f] = flowDisk'[g] /\ flowDisk'[f].by # "this"
    BY <1>1
  <1>3. WrittenUpTo(0)' BY <1>2, FilesAre DEF WrittenUpTo
  <1>4. 0 \in 0 .. 6 OBVIOUS
  <1> QED BY <1>2, <1>3, <1>4 DEF FilesInOrder

LEMMA SelectKeeps == ASSUME FlowInv, Flow!Select \/ Flow!FitNoise PROVE FlowInv'
  <1>1. /\ flowSession \in {"select", "noise"} /\ flowSession' \in {"noise", "replay", "raised"}
        /\ UNCHANGED <<generated, revisionsAgree, flowOutcome, result, flowDisk>>
    BY DEF Flow!Select, Flow!FitNoise
  <1>2. FlowTypes' BY <1>1, FlowFrame DEF FlowInv, FlowTypes, Flow!FullCount
  <1>3. ResultIsOfPairs' BY <1>1, FlowFrame DEF FlowInv, ResultIsOfPairs, Scoring
  <1>4. FilesInOrder' BY <1>1, UnwrittenKept DEF Scoring
  <1> QED BY <1>2, <1>3, <1>4 DEF FlowInv

LEMMA ReplayKeeps == ASSUME FlowInv, Flow!Replay PROVE FlowInv'
  <1> DEFINE s == Flow!NextSource
  <1>1. /\ flowSession = "replay" /\ Flow!Pending # {}
        /\ UNCHANGED <<generated, revisionsAgree, flowSession, result, flowDisk>>
    BY DEF Flow!Replay
  <1>2. s \in Flow!Pending
    <2>1. CASE Flow!Pending \cap Flow!Positives # {} BY <2>1 DEF Flow!NextSource
    <2>2. CASE Flow!Pending \cap Flow!Positives = {} BY <2>2, <1>1 DEF Flow!NextSource
    <2> QED BY <2>1, <2>2
  <1>3. s \in Flow!Sources BY <1>2 DEF Flow!Pending
  <1>4. PICK n \in 0 .. Flow!FullCount(s), raised \in BOOLEAN :
          /\ ~raised => n = Flow!FullCount(s)
          /\ flowOutcome' = [t \in DOMAIN flowOutcome \cup {s} |->
                               IF t = s THEN [records |-> n, raised |-> raised]
                               ELSE flowOutcome[t]]
    BY DEF Flow!Replay
  <1> HIDE DEF s
  <1>5. /\ DOMAIN flowOutcome' = DOMAIN flowOutcome \cup {s}
        /\ flowOutcome'[s] = [records |-> n, raised |-> raised]
        /\ \A t \in DOMAIN flowOutcome : t # s => flowOutcome'[t] = flowOutcome[t]
    BY <1>4
  <1>6. flowOutcome'[s].records = n /\ (~flowOutcome'[s].raised => ~raised) BY <1>5
  <1>7. Flow!Sources' = Flow!Sources
    BY <1>1 DEF Flow!Sources, Flow!Positives, Flow!AttackSources, Flow!BlockSources,
                Flow!CleanSources, Flow!Selected, Flow!Complete
  <1>8. \A t \in DOMAIN flowOutcome' :
          /\ flowOutcome'[t].records \in 0 .. Flow!FullCount(t)
          /\ ~flowOutcome'[t].raised => flowOutcome'[t].records = Flow!FullCount(t)
    BY <1>4, <1>5, <1>6 DEF FlowInv, FlowTypes
  <1>9. \A t : Flow!FullCount(t)' = Flow!FullCount(t) BY DEF Flow!FullCount, Flow!Units, Flow!Variants
  <1>10. FlowTypes' BY <1>1, <1>3, <1>5, <1>7, <1>8, <1>9 DEF FlowInv, FlowTypes
  <1>11. ResultIsOfPairs' BY <1>1 DEF FlowInv, ResultIsOfPairs, Scoring
  <1>12. FilesInOrder' BY <1>1, UnwrittenKept DEF Scoring
  <1> QED BY <1>10, <1>11, <1>12 DEF FlowInv

LEMMA ScoreKeeps == ASSUME FlowInv, Flow!Score PROVE FlowInv'
  <1>1. /\ flowSession = "replay" /\ Flow!Pending = {}
        /\ \/ flowSession' = "raised" /\ result' = result
           \/ /\ flowSession' = "write"
              /\ \E matched \in SUBSET Flow!Pairs : result'.matched = matched
        /\ UNCHANGED <<generated, revisionsAgree, flowOutcome, flowDisk>>
    BY DEF Flow!Score
  <1>2. FlowTypes' BY <1>1, FlowFrame DEF FlowInv, FlowTypes, Flow!FullCount
  <1>3. ResultIsOfPairs' BY <1>1, FlowFrame DEF FlowInv, ResultIsOfPairs, Scoring
  <1>4. FilesInOrder' BY <1>1, UnwrittenKept DEF Scoring
  <1> QED BY <1>2, <1>3, <1>4 DEF FlowInv

(* The next file is written, or there is none left. *)
LEMMA WriteKeeps == ASSUME FlowInv, Flow!Write PROVE FlowInv'
  <1>1. /\ flowSession = "write"
        /\ UNCHANGED <<generated, revisionsAgree, flowOutcome, result>>
    BY DEF Flow!Write
  <1>2. PICK n \in 0 .. 6 : WrittenUpTo(n) BY DEF FlowInv, FilesInOrder
  <1>3. Flow!Written = 1 .. n BY <1>2, FilesAre DEF Flow!Written, WrittenUpTo
  <1>4. Flow!Cardinality(Flow!Written) = n
    <2>0. 1 \in Int /\ n \in Int /\ n >= 0 BY <1>2
    <2>1. Cardinality(1 .. n) = IF 1 > n THEN 0 ELSE n - 1 + 1 BY <2>0, FS_Interval
    <2>2. Cardinality(1 .. n) = n BY <2>0, <2>1
    <2> QED BY <1>3, <2>2 DEF Flow!Cardinality, Cardinality
  <1>5. /\ Flow!Sources' = Flow!Sources /\ Flow!Pairs' = Flow!Pairs
        /\ Flow!Pending' = Flow!Pending /\ Flow!Passes' = Flow!Passes
    BY <1>1, FlowFrame
  <1>6. Flow!Passes \in BOOLEAN BY DEF Flow!Passes
  <1>7. CASE n = 6
    <2>1. flowSession' = "done" /\ flowDisk' = flowDisk
      BY <1>3, <1>7, FilesAre DEF Flow!Write
    <2>2. FlowTypes' BY <1>1, <1>5, <2>1 DEF FlowInv, FlowTypes, Flow!FullCount
    <2>3. ResultIsOfPairs' BY <1>1, <1>5, <2>1 DEF FlowInv, ResultIsOfPairs, Scoring
    <2>4. WrittenUpTo(n)' BY <1>2, <1>5, <2>1 DEF WrittenUpTo
    <2>5. FilesInOrder' BY <1>2, <1>7, <2>1, <2>4 DEF FilesInOrder, Scoring
    <2> QED BY <2>2, <2>3, <2>5 DEF FlowInv
  <1>8. CASE n # 6
    <2>1. n + 1 \in 1 .. 6 /\ 6 \notin 1 .. n BY <1>2, <1>8
    <2>2. /\ flowDisk' = [flowDisk EXCEPT ![Flow!Files[n + 1]] =
                            [by |-> "this", pass |-> Flow!Passes]]
          /\ flowSession' = flowSession
      <3>1. Flow!Written # DOMAIN Flow!Files BY <1>3, <2>1, FilesAre
      <3> QED BY <1>4, <3>1 DEF Flow!Write
    <2>3. [by |-> "this", pass |-> Flow!Passes] \in Flow!Entry BY <1>6 DEF Flow!Entry
    <2>4. flowDisk \in [Flow!Names -> Flow!Entry] BY DEF FlowInv, FlowTypes
    <2>5. flowDisk' \in [Flow!Names -> Flow!Entry] BY <2>2, <2>3, <2>4
    <2>6. FlowTypes' BY <1>1, <1>5, <2>2, <2>5 DEF FlowInv, FlowTypes, Flow!FullCount
    <2>7. ResultIsOfPairs' BY <1>1, <1>5, <2>2 DEF FlowInv, ResultIsOfPairs, Scoring
    <2>8. \A k \in 1 .. 6 : flowDisk'[Flow!Files[k]] =
            IF k = n + 1 THEN [by |-> "this", pass |-> Flow!Passes] ELSE flowDisk[Flow!Files[k]]
      BY <2>1, <2>2, <2>4, FilesAre
    <2>9. WrittenUpTo(n + 1)' BY <1>2, <1>5, <2>1, <2>8 DEF WrittenUpTo
    <2>10. n + 1 \in 0 .. 6 BY <2>1
    <2>11. FilesInOrder' BY <1>1, <2>2, <2>9, <2>10 DEF FilesInOrder, Scoring
    <2> QED BY <2>6, <2>7, <2>11 DEF FlowInv
  <1> QED BY <1>7, <1>8

LEMMA KillKeeps ==
  ASSUME FlowInv, Flow!Kill \/ Flow!Done \/ UNCHANGED Flow!vars PROVE FlowInv'
  <1>1. /\ flowSession' = flowSession \/ (flowSession = "write" /\ flowSession' = "killed")
        /\ UNCHANGED <<generated, revisionsAgree, flowOutcome, result, flowDisk>>
    BY DEF Flow!Kill, Flow!Done, Flow!vars
  <1>2. /\ Flow!Sources' = Flow!Sources /\ Flow!Pairs' = Flow!Pairs
        /\ Flow!Pending' = Flow!Pending /\ Flow!Passes' = Flow!Passes
    BY <1>1, FlowFrame
  <1>3. FlowTypes' BY <1>1, <1>2 DEF FlowInv, FlowTypes, Flow!FullCount
  <1>4. ResultIsOfPairs' BY <1>1, <1>2 DEF FlowInv, ResultIsOfPairs, Scoring
  <1>5. \A n \in 0 .. 6 : WrittenUpTo(n) => WrittenUpTo(n)' BY <1>1, <1>2 DEF WrittenUpTo
  <1>6. FilesInOrder' BY <1>1, <1>5 DEF FlowInv, FilesInOrder, Scoring
  <1> QED BY <1>3, <1>4, <1>6 DEF FlowInv

LEMMA NextFlowInv == FlowInv /\ [Flow!Next]_(Flow!vars) => FlowInv'
  BY SelectKeeps, ReplayKeeps, ScoreKeeps, WriteKeeps, KillKeeps DEF Flow!Next

(* A passing formal decision is one that holds, over outcomes that are whole. *)
LEMMA PassedPasses ==
  ASSUME FlowInv, Flow!Passed
  PROVE  /\ Flow!Passes /\ Scoring
         /\ \A s \in Flow!Sources : s \in DOMAIN flowOutcome
              /\ flowOutcome[s].records = Flow!FullCount(s)
  <1>1. PICK n \in 0 .. 6 : WrittenUpTo(n) BY DEF FlowInv, FilesInOrder
  <1>2. flowDisk["formal"] = [by |-> "this", pass |-> TRUE] BY DEF Flow!Passed
  <1>3. flowDisk["formal"].by = "this" /\ flowDisk["formal"].pass BY <1>2
  <1>4. 5 \in 1 .. 6 OBVIOUS
  <1>5. flowDisk["formal"] = [by |-> "this", pass |-> Flow!Passes]
    BY <1>1, <1>3, <1>4, FilesAre DEF WrittenUpTo
  <1>6. Flow!Passes
    <2>1. Flow!Passes \in BOOLEAN BY DEF Flow!Passes
    <2> QED BY <1>3, <1>5, <2>1
  <1>7. Scoring BY <1>3, <1>4, FilesAre DEF FlowInv, FilesInOrder
  <1>8. Flow!Pending = {} BY <1>7 DEF FlowInv, ResultIsOfPairs
  <1>9. \A s \in Flow!Sources : s \in DOMAIN flowOutcome
    BY <1>8 DEF Flow!Pending, Flow!Replayed
  <1>10. \A s \in DOMAIN flowOutcome : ~flowOutcome[s].raised
    BY <1>6 DEF Flow!Passes, Flow!FailureRecords
  <1> QED BY <1>6, <1>7, <1>9, <1>10 DEF FlowInv, FlowTypes

(* No more identities are selected of a split than the maximum. *)
LEMMA SelectedAreFew ==
  /\ IsFiniteSet(Flow!Selected \cap Tests)
  /\ Cardinality(Flow!Selected \cap Tests) <= Maximum
  <1> DEFINE T == Flow!Selected \cap Tests
             Lower(m) == {j \in Tests : Flow!Complete(j) /\ j < m}
  <1>1. IsFiniteSet(T) BY FlowConstants, FS_Subset
  <1>2. \A m \in T : m \in Tests /\ m \in Nat /\ Flow!Complete(m)
    BY FlowConstants DEF Flow!Selected
  <1>5. \A m \in T : Flow!Cardinality(Lower(m)) < Maximum
    BY DEF Flow!Selected, Flow!SplitOf
  <1>3. CASE T = {}
    <2>1. Cardinality(T) = 0 BY <1>3, FS_EmptySet
    <2> QED BY <1>1, <2>1, FlowConstants
  <1>4. CASE T # {}
    <2>1. \E m \in T : \A x \in T : x <= m
      <3> HIDE DEF T
      <3>1. T \in SUBSET Int BY <1>2
      <3> QED BY <1>1, <1>4, <3>1, FiniteHasGreatest
    <2>2. PICK m \in T : \A x \in T : x <= m BY <2>1
    <2>3. IsFiniteSet(Lower(m)) BY FlowConstants, FS_Subset
    <2>4. Cardinality(Lower(m)) < Maximum
      BY <1>5, <2>2 DEF Flow!Cardinality, Cardinality
    <2>5. T \subseteq Lower(m) \cup {m}
      <3>1. ASSUME NEW x \in T, x # m PROVE x \in Lower(m)
        <4>1. x \in Tests /\ Flow!Complete(x) /\ x \in Nat /\ m \in Nat /\ x <= m
          BY <1>2, <2>2
        <4> QED BY <3>1, <4>1
      <3> QED BY <3>1
    <2>6. m \notin Lower(m)
      <3>1. m \in Nat BY <1>2
      <3> QED BY <3>1
    <2> HIDE DEF T, Lower
    <2>7. /\ IsFiniteSet(Lower(m) \cup {m})
          /\ Cardinality(Lower(m) \cup {m}) = Cardinality(Lower(m)) + 1
      BY <2>3, <2>6, FS_AddElement
    <2>8. Cardinality(T) <= Cardinality(Lower(m) \cup {m}) BY <2>5, <2>7, FS_Subset
    <2>9. Cardinality(T) \in Nat /\ Cardinality(Lower(m)) \in Nat BY <1>1, <2>3, FS_CardinalityType
    <2> QED BY <1>1, <2>4, <2>7, <2>8, <2>9, FlowConstants DEF T
  <1> QED BY <1>3, <1>4

(* The promises of the flow evidence, from its invariant. *)
LEMMA FlowIsAsPromised ==
  FlowInv => /\ Flow!TypeOK /\ Flow!PassIsWhole /\ Flow!PairsArePlanned
             /\ Flow!DecisionIsOfRecords
  <1> SUFFICES ASSUME FlowInv
               PROVE  /\ Flow!TypeOK /\ Flow!PassIsWhole /\ Flow!PairsArePlanned
                      /\ Flow!DecisionIsOfRecords
    OBVIOUS
  <1>1. Flow!TypeOK BY DEF FlowInv, FlowTypes, ResultIsOfPairs, Flow!TypeOK
  <1>2. Flow!PassIsWhole
    <2> SUFFICES ASSUME Flow!Passed
                 PROVE  /\ \A s \in Flow!Sources : Flow!Replayed(s)
                              /\ flowOutcome[s].records = Flow!FullCount(s)
                        /\ \A v \in Flow!Variants : Flow!CleanOf(v) = Flow!CleanSources
      BY DEF Flow!PassIsWhole
    <2>1. \A s \in Flow!Sources : s \in DOMAIN flowOutcome
              /\ flowOutcome[s].records = Flow!FullCount(s)
      BY PassedPasses
    <2>2. ASSUME NEW v \in Flow!Variants PROVE Flow!CleanOf(v) = Flow!CleanSources
      <3>1. Flow!Before(v) <= TrialCount /\ Flow!Before(v) \in Nat
        BY FlowConstants DEF Flow!Before
      <3>2. ASSUME NEW s \in Flow!CleanSources
            PROVE  s \in DOMAIN flowOutcome /\ flowOutcome[s].records > Flow!Before(v)
        <4>1. s \in Flow!Sources /\ s[1] = "clean" BY DEF Flow!Sources, Flow!CleanSources
        <4> QED BY <2>1, <3>1, <4>1, FullCounts, FlowConstants
      <3> QED BY <3>2 DEF Flow!CleanOf
    <2> QED BY <2>1, <2>2 DEF Flow!Replayed
  <1>3. Flow!PairsArePlanned
    <2> SUFFICES ASSUME Flow!Passed
                 PROVE  /\ Flow!Pairs \cap result.matched = Flow!Selected \cap Tests
                        /\ Flow!Cardinality(Flow!Selected \cap Tests) = Maximum
      BY DEF Flow!PairsArePlanned
    <2>1. /\ Flow!VelocityClaim
          /\ \A s \in Flow!Sources : s \in DOMAIN flowOutcome
                /\ flowOutcome[s].records = Flow!FullCount(s)
      BY PassedPasses DEF Flow!Passes
    <2>2. Flow!Pairs \cap result.matched = Flow!Pairs
          /\ Flow!Cardinality(Flow!Pairs) >= Maximum
      BY <2>1 DEF Flow!VelocityClaim, Flow!Unmatched
    <2>3. ASSUME NEW i \in Tests, i \in Flow!Selected PROVE i \in Flow!Pairs
      <3>1. Flow!Complete(i) BY <2>3 DEF Flow!Selected
      <3>2. ASSUME NEW v \in Flow!Variants PROVE <<"block", i, v>> \in Flow!PositivesOf(v)
        <4> DEFINE s == <<"block", i, v>>
        <4>1. <<i, v>> \in generated BY <3>1 DEF Flow!Complete
        <4>2. s \in {<<"block", g[1], g[2]>> : g \in generated} BY <4>1
        <4>3. s \in {<<"block", j, w>> : j \in Flow!Selected, w \in Flow!Variants} BY <2>3
        <4>4. s \in Flow!Positives BY <4>2, <4>3 DEF Flow!Positives, Flow!BlockSources
        <4>5. s \in DOMAIN flowOutcome /\ flowOutcome[s].records = Flow!FullCount(s)
          BY <2>1, <4>4 DEF Flow!Sources
        <4>6. s[3] = v OBVIOUS
        <4> HIDE DEF s
        <4>7. flowOutcome[s].records >= 1 BY <4>5, FullCounts
        <4>8. s \in Flow!PositivesOf(v) BY <4>4, <4>5, <4>6, <4>7 DEF Flow!PositivesOf
        <4> QED BY <4>8 DEF s
      <3> QED BY <3>2 DEF Flow!Pairs
    <2>4. ASSUME NEW i \in Flow!Pairs PROVE i \in Tests /\ i \in Flow!Selected
      <3>1. i \in Tests /\ "full" \in Flow!Variants BY DEF Flow!Pairs, Flow!Variants
      <3>2. <<"block", i, "full">> \in Flow!Positives
        BY <3>1 DEF Flow!Pairs, Flow!PositivesOf
      <3>3. <<"block", i, "full">> \in Flow!BlockSources
        BY <3>2 DEF Flow!Positives, Flow!AttackSources
      <3>4. PICK j \in Flow!Selected, w \in Flow!Variants :
              <<"block", i, "full">> = <<"block", j, w>>
        BY <3>3 DEF Flow!BlockSources
      <3> QED BY <3>1, <3>4
    <2>5. Flow!Pairs = Flow!Selected \cap Tests BY <2>3, <2>4
    <2>6. Flow!Cardinality(Flow!Selected \cap Tests) <= Maximum
          /\ Flow!Cardinality(Flow!Selected \cap Tests) \in Nat
      <3>1. Flow!Cardinality(Flow!Selected \cap Tests) = Cardinality(Flow!Selected \cap Tests)
        BY DEF Flow!Cardinality, Cardinality
      <3> QED BY <3>1, SelectedAreFew, FS_CardinalityType
    <2> QED BY <2>2, <2>5, <2>6, FlowConstants
  <1>4. Flow!DecisionIsOfRecords
    <2>1. PICK n \in 0 .. 6 : WrittenUpTo(n) /\ (flowSession = "done" => n = 6)
      BY DEF FlowInv, FilesInOrder
    <2>2. ASSUME flowDisk["formal"].by = "this",
                 NEW f \in {"records", "failures", "thresholds", "detection"}
          PROVE  flowDisk[f].by = "this"
      <3>1. 5 <= n BY <2>1, <2>2, FilesAre DEF WrittenUpTo
      <3> QED BY <2>1, <3>1, FilesAre DEF WrittenUpTo
    <2>3. ASSUME flowSession # "killed", flowSession # "write",
                 NEW f \in Flow!Names, NEW g \in Flow!Names
          PROVE  flowDisk[f] = flowDisk[g]
      <3>1. CASE flowSession = "done" BY <2>1, <3>1, FilesAre DEF WrittenUpTo
      <3>2. CASE ~Scoring BY <3>2 DEF FlowInv, FilesInOrder
      <3> QED BY <2>3, <3>1, <3>2 DEF Scoring
    <2> QED BY <2>2, <2>3 DEF Flow!DecisionIsOfRecords
  <1> QED BY <1>1, <1>2, <1>3, <1>4

-----------------------------------------------------------------------------
(* The adaptive attacks.  The units taken up so far are the first of the     *)
(* list; each has a record or a failure, and its query rows are those its    *)
(* record accounts for.                                                      *)

UnitCount == Len(Adaptive!Units)
UnitsUpTo(n) == {Adaptive!Units[i] : i \in 1 .. n}

AttackTypes ==
    /\ attacksRun \in 1 .. AttackRuns
    /\ phase \in {"ready", "attacking", "writing", "ended", "killed"}
    /\ attacksDecision \in {"none", "FAIL", "PASS", "ROBUST"}
    /\ DOMAIN attacksDisk = {Adaptive!Files[i] : i \in 1 .. 4}
    /\ \A f \in DOMAIN attacksDisk : attacksDisk[f].run \in 0 .. attacksRun
    /\ IsFiniteSet(attacksRecords) /\ IsFiniteSet(failures)

TakenUp(n) ==
    /\ Adaptive!Recorded \cup failures = UnitsUpTo(n)
    /\ Adaptive!Recorded \cap failures = {}
    /\ Cardinality(attacksRecords) + Cardinality(failures) = n
    /\ phase = "ready" => n = 0
    /\ phase = "attacking" =>
         /\ todo \in Seq(Adaptive!AllUnits) /\ n + Len(todo) = UnitCount
         /\ \A i \in 1 .. Len(todo) : todo[i] = Adaptive!Units[n + i]
    /\ attacksDecision # "none" => n = UnitCount

QueriesAreLogged ==
    /\ DOMAIN queries \subseteq Adaptive!Recorded \cup failures
    /\ \A u \in Adaptive!Recorded :
         /\ u \in DOMAIN queries <=> Adaptive!AllQueries(u) > 0
         /\ u \in DOMAIN queries => queries[u] = Adaptive!AllQueries(u)

DecisionIsEarned ==
    /\ attacksDecision \in {"PASS", "ROBUST"} =>
         failures = {} /\ Adaptive!OptimizerEvidenceReady
    /\ attacksDecision # "none" => phase \in {"writing", "ended", "killed"}
    /\ phase = "writing" => attacksDecision # "none"

\* The first n files are of this run.
FilesUpTo(n) ==
    /\ \A i \in 1 .. 4 :
         /\ attacksDisk[Adaptive!Files[i]].run = attacksRun <=> i <= n
         /\ i <= n => attacksDisk[Adaptive!Files[i]].value = Adaptive!Contents(Adaptive!Files[i])
    /\ n > 0 => attacksDecision # "none"
    /\ phase = "writing" => n < 4
    /\ phase = "ended" => n \in {0, 4}

AttackInv ==
    /\ AttackTypes /\ QueriesAreLogged /\ DecisionIsEarned
    /\ \E n \in 0 .. UnitCount : TakenUp(n)
    /\ \E n \in 0 .. 4 : FilesUpTo(n)

LEMMA AttackConstants ==
  /\ Retention \in Nat /\ Spoof \in Nat /\ AttackRuns \in Nat \ {0}
  /\ AttackFailures \in Nat /\ Retention % 2 = 0
  BY InstancesAssumption DEF Adaptive!CountsNested

(* The protocols, and how the units of the retention videos are counted. *)
LEMMA ProtocolsAre ==
  /\ Len(Adaptive!Protocols) = 4 /\ Adaptive!PairUnits = 7
  /\ Adaptive!Protocols[1] = "search" /\ Adaptive!Protocols[2] = "probe"
  /\ Adaptive!Protocols[3] = "control" /\ Adaptive!Protocols[4] = "collusion"
  /\ \A i, j \in 1 .. 4 : Adaptive!Protocols[i] = Adaptive!Protocols[j] => i = j
  /\ \A i \in 1 .. 4 : Adaptive!Protocols[i] # "spoof"
  <1>1. Len(Adaptive!Protocols) = 4 BY DEF Adaptive!Protocols
  <1>2. Adaptive!PairUnits = 7 BY <1>1 DEF Adaptive!PairUnits
  <1>3. /\ Adaptive!Protocols[1] = "search" /\ Adaptive!Protocols[2] = "probe"
        /\ Adaptive!Protocols[3] = "control" /\ Adaptive!Protocols[4] = "collusion"
    BY DEF Adaptive!Protocols
  <1>4. \A i \in 1 .. 4 : i = 1 \/ i = 2 \/ i = 3 \/ i = 4 OBVIOUS
  <1> QED BY <1>1, <1>2, <1>3, <1>4

(* The place of a retention unit says which video and protocol it is of, and *)
(* two places never the same.                                                *)
VideoAt(k) == 2 * ((k - 1) \div 7) + 1 + (((k - 1) % 7) \div 4)
ProtocolAt(k) == 1 + (((k - 1) % 7) % 4)

LEMMA PlacesDiffer ==
  ASSUME NEW j \in Nat \ {0}, NEW k \in Nat \ {0},
         VideoAt(j) = VideoAt(k), ProtocolAt(j) = ProtocolAt(k)
  PROVE  j = k
  <1>1. ASSUME NEW a \in Nat
        PROVE  a \div 7 \in Nat /\ a % 7 \in 0 .. 6 /\ a = 7 * (a \div 7) + (a % 7)
    OBVIOUS
  <1>2. ASSUME NEW a \in 0 .. 6
        PROVE  a \div 4 \in {0, 1} /\ a % 4 \in 0 .. 3 /\ a = 4 * (a \div 4) + (a % 4)
    OBVIOUS
  <1> DEFINE p == (j - 1) \div 7  q == (k - 1) \div 7
             r == (j - 1) % 7     s == (k - 1) % 7
             x == r \div 4        y == s \div 4
             u == r % 4           v == s % 4
  <1>3. j - 1 \in Nat /\ k - 1 \in Nat OBVIOUS
  <1>4. /\ p \in Nat /\ q \in Nat /\ r \in 0 .. 6 /\ s \in 0 .. 6
        /\ j - 1 = 7 * p + r /\ k - 1 = 7 * q + s
    BY <1>1, <1>3
  <1>5. /\ x \in {0, 1} /\ y \in {0, 1} /\ u \in 0 .. 3 /\ v \in 0 .. 3
        /\ r = 4 * x + u /\ s = 4 * y + v
    BY <1>2, <1>4
  <1>6. 2 * p + 1 + x = 2 * q + 1 + y /\ 1 + u = 1 + v BY DEF VideoAt, ProtocolAt
  <1> HIDE DEF p, q, r, s, x, y, u, v
  <1>7. p = q /\ x = y /\ u = v BY <1>4, <1>5, <1>6
  <1> QED BY <1>4, <1>5, <1>7

LEMMA PlaceTypes ==
  ASSUME NEW k \in Nat \ {0} PROVE VideoAt(k) \in Nat /\ ProtocolAt(k) \in 1 .. 4
  <1>1. k - 1 \in Nat OBVIOUS
  <1>2. (k - 1) \div 7 \in Nat /\ (k - 1) % 7 \in Nat BY <1>1
  <1>3. ((k - 1) % 7) \div 4 \in Nat /\ ((k - 1) % 7) % 4 \in 0 .. 3 BY <1>2
  <1> QED BY <1>2, <1>3 DEF VideoAt, ProtocolAt

(* The list of the units: every one once, as many as are expected. *)
LEMMA UnitsAre ==
  /\ Adaptive!Units \in Seq(Adaptive!AllUnits)
  /\ UnitCount \in Nat /\ UnitCount = Adaptive!expected_count
  /\ \A i, j \in 1 .. UnitCount : Adaptive!Units[i] = Adaptive!Units[j] => i = j
  /\ Adaptive!AllUnits = UnitsUpTo(UnitCount)
  <1> DEFINE half == Retention \div 2
             n == 7 * half
             A == Adaptive!RetentionUnits
             B == [v \in 1 .. Spoof |-> <<v, "spoof">>]
  <1>1. half \in Nat /\ Retention = 2 * half /\ n \in Nat BY AttackConstants
  <1>2. /\ DOMAIN A = 1 .. n
        /\ \A k \in 1 .. n : A[k] = <<VideoAt(k), Adaptive!Protocols[ProtocolAt(k)]>>
    BY <1>1, ProtocolsAre DEF Adaptive!RetentionUnits, VideoAt, ProtocolAt
  <1>3. A = [k \in 1 .. n |-> A[k]] BY <1>2 DEF Adaptive!RetentionUnits
  <1>4. DOMAIN B = 1 .. Spoof /\ \A v \in 1 .. Spoof : B[v] = <<v, "spoof">> OBVIOUS
  <1> DEFINE T == {A[k] : k \in 1 .. n} \cup {B[v] : v \in 1 .. Spoof}
  <1>5. A \in Seq(T) /\ Len(A) = n
    <2>1. A \in [1 .. n -> T] BY <1>3
    <2> HIDE DEF A, T, n
    <2> QED BY <1>1, <2>1, <1>2
  <1>6. B \in Seq(T) /\ Len(B) = Spoof
    <2>1. B \in [1 .. Spoof -> T] OBVIOUS
    <2> HIDE DEF B, T
    <2> QED BY <2>1, <1>4, AttackConstants
  <1>7. Adaptive!Units = A \o B BY DEF Adaptive!Units
  <1> HIDE DEF A, B, T, n, half
  <1>8. /\ A \o B \in Seq(T) /\ Len(A \o B) = n + Spoof
        /\ \A i \in 1 .. n + Spoof : (A \o B)[i] = IF i <= n THEN A[i] ELSE B[i - n]
    BY <1>1, <1>5, <1>6, AttackConstants
  <1>9. /\ UnitCount = n + Spoof /\ UnitCount \in Nat
        /\ \A i \in 1 .. UnitCount : Adaptive!Units[i] = IF i <= n THEN A[i] ELSE B[i - n]
    BY <1>1, <1>7, <1>8, AttackConstants DEF UnitCount
  <1>10. Adaptive!expected_count = n + Spoof
    BY <1>1, AttackConstants, ProtocolsAre DEF Adaptive!expected_count, n, half
  <1>11. ASSUME NEW i \in 1 .. UnitCount, NEW j \in 1 .. UnitCount,
                Adaptive!Units[i] = Adaptive!Units[j]
         PROVE  i = j
    <2>1. CASE i <= n /\ j <= n
      <3>1. i \in 1 .. n /\ j \in 1 .. n /\ i \in Nat \ {0} /\ j \in Nat \ {0}
        BY <1>1, <1>9, <2>1
      <3>2. A[i] = A[j] BY <1>9, <1>11, <2>1
      <3>3. /\ VideoAt(i) = VideoAt(j)
            /\ Adaptive!Protocols[ProtocolAt(i)] = Adaptive!Protocols[ProtocolAt(j)]
        BY <1>2, <3>1, <3>2
      <3>4. ProtocolAt(i) = ProtocolAt(j) BY <3>1, <3>3, PlaceTypes, ProtocolsAre
      <3> QED BY <3>1, <3>3, <3>4, PlacesDiffer
    <2>2. CASE i > n /\ j > n
      <3>1. i - n \in 1 .. Spoof /\ j - n \in 1 .. Spoof BY <1>1, <1>9, <2>2, AttackConstants
      <3>2. B[i - n] = B[j - n] BY <1>1, <1>9, <1>11, <2>2
      <3>3. i - n = j - n BY <1>4, <3>1, <3>2
      <3> QED BY <1>1, <1>9, <3>3
    <2>3. ASSUME NEW a \in 1 .. UnitCount, NEW b \in 1 .. UnitCount, a <= n, b > n
          PROVE  Adaptive!Units[a] # Adaptive!Units[b]
      <3>1. a \in 1 .. n /\ a \in Nat \ {0} /\ b - n \in 1 .. Spoof
        BY <1>1, <1>9, <2>3, AttackConstants
      <3>2. Adaptive!Units[a] = <<VideoAt(a), Adaptive!Protocols[ProtocolAt(a)]>>
        BY <1>2, <1>9, <2>3, <3>1
      <3>3. Adaptive!Units[b] = <<b - n, "spoof">> BY <1>1, <1>4, <1>9, <2>3, <3>1
      <3>4. Adaptive!Protocols[ProtocolAt(a)] # "spoof" BY <3>1, PlaceTypes, ProtocolsAre
      <3> QED BY <3>2, <3>3, <3>4
    <2> QED BY <1>1, <1>9, <1>11, <2>1, <2>2, <2>3
  <1>12. DOMAIN Adaptive!Units = 1 .. UnitCount BY <1>7, <1>8, <1>9 DEF UnitCount
  <1>13. Adaptive!AllUnits = UnitsUpTo(UnitCount)
    BY <1>12 DEF Adaptive!AllUnits, UnitsUpTo
  <1>14. Adaptive!Units \in Seq(Adaptive!AllUnits)
    <2>1. Adaptive!Units \in Seq(T) BY <1>7, <1>8
    <2>2. \A i \in 1 .. UnitCount : Adaptive!Units[i] \in Adaptive!AllUnits
      BY <1>13 DEF UnitsUpTo
    <2> QED BY <2>1, <2>2, <1>9 DEF UnitCount
  <1> QED BY <1>9, <1>10, <1>11, <1>13, <1>14

LEMMA AttackProjects == [SomeStep]_allVars => [Adaptive!Next]_(Adaptive!vars)
  <1> SUFFICES ASSUME [SomeStep]_allVars PROVE [Adaptive!Next]_(Adaptive!vars)
    OBVIOUS
  <1> USE DEF attacksVars, Adaptive!vars
  <1>1. CASE AdaptiveStep BY <1>1 DEF AdaptiveStep
  <1>2. CASE Rest /\ program # "attacks" BY <1>2 DEF Rest
  <1>3. CASE UNCHANGED allVars BY <1>3 DEF allVars
  <1> QED
    BY <1>1, <1>2, <1>3
    DEF SomeStep, GatesStep, ChainStep, FlowStep, SearchStep, FairnessStep,
        DetectorStep, MotionStep

LEMMA AttackFilesAre ==
  /\ Adaptive!Files[1] = "records" /\ Adaptive!Files[2] = "queries"
  /\ Adaptive!Files[3] = "failures" /\ Adaptive!Files[4] = "decision"
  /\ \A i \in 1 .. 4 : i = 1 \/ i = 2 \/ i = 3 \/ i = 4
  /\ \A i, j \in 1 .. 4 : Adaptive!Files[i] = Adaptive!Files[j] => i = j
  /\ Adaptive!Contents("records") = Adaptive!Recorded
  /\ Adaptive!Contents("failures") = failures
  /\ Adaptive!Contents("decision") = {attacksDecision}
  <1>1. /\ Adaptive!Files[1] = "records" /\ Adaptive!Files[2] = "queries"
        /\ Adaptive!Files[3] = "failures" /\ Adaptive!Files[4] = "decision"
    BY DEF Adaptive!Files
  <1>2. \A i \in 1 .. 4 : i = 1 \/ i = 2 \/ i = 3 \/ i = 4 OBVIOUS
  <1>3. /\ Adaptive!Contents("records") = Adaptive!Recorded
        /\ Adaptive!Contents("failures") = failures
        /\ Adaptive!Contents("decision") = {attacksDecision}
    BY DEF Adaptive!Contents
  <1> QED BY <1>1, <1>2, <1>3

LEMMA QueriesAreCounted == \A u : Adaptive!AllQueries(u) \in Nat
  <1> SUFFICES ASSUME NEW u PROVE Adaptive!AllQueries(u) \in Nat
    OBVIOUS
  <1>1. Adaptive!TargetQueries(u) \in Nat
    <2>1. CASE u[2] \in Adaptive!Searches BY <2>1 DEF Adaptive!TargetQueries, Adaptive!Searches
    <2>2. CASE u[2] = "control" BY <2>2 DEF Adaptive!TargetQueries, Adaptive!Searches
    <2>3. CASE u[2] \notin Adaptive!Searches /\ u[2] # "control"
      BY <2>3 DEF Adaptive!TargetQueries
    <2> QED BY <2>1, <2>2, <2>3
  <1> QED BY <1>1 DEF Adaptive!AllQueries, Adaptive!ProbeQueries

(* Nothing is taken up at first, and no file is of the run. *)
LEMMA NothingTakenUp ==
  /\ UnitsUpTo(0) = {} /\ IsFiniteSet({}) /\ Cardinality({}) = 0
  /\ 0 \in 0 .. UnitCount /\ 0 \in 0 .. 4 /\ 0 + 0 = 0
  /\ DOMAIN <<>> = {}
  BY UnitsAre, FS_EmptySet DEF UnitsUpTo

LEMMA AttackStarts == Start => AttackInv
  <1> SUFFICES ASSUME Start PROVE AttackInv
    OBVIOUS
  <1>1. /\ attacksRun = 1 /\ phase = "ready" /\ todo = <<>>
        /\ attacksRecords = {} /\ queries = <<>> /\ failures = {} /\ faults = 0
        /\ attacksDecision = "none"
        /\ attacksDisk = [f \in {Adaptive!Files[i] : i \in 1..4} |-> Adaptive!Nothing]
    BY DEF Start, Adaptive!Init
  <1>2. Adaptive!Recorded = {} BY <1>1 DEF Adaptive!Recorded
  <1>3. \A i \in 1 .. 4 : attacksDisk[Adaptive!Files[i]].run = 0
    BY <1>1 DEF Adaptive!Nothing
  <1>4. AttackTypes
    BY <1>1, <1>3, AttackConstants, NothingTakenUp DEF AttackTypes
  <1>5. QueriesAreLogged BY <1>1, <1>2, NothingTakenUp DEF QueriesAreLogged
  <1>6. DecisionIsEarned BY <1>1 DEF DecisionIsEarned
  <1>7. TakenUp(0) BY <1>1, <1>2, NothingTakenUp DEF TakenUp
  <1>8. FilesUpTo(0) BY <1>1, <1>3 DEF FilesUpTo
  <1> QED BY <1>4, <1>5, <1>6, <1>7, <1>8, NothingTakenUp DEF AttackInv

(* Before there is a decision no file is of the run. *)
LEMMA UndecidedFiles ==
  ASSUME AttackInv, attacksDecision = "none",
         UNCHANGED <<attacksRun, attacksDisk>>, phase' # "writing" \/ attacksDecision' # "none"
  PROVE  FilesUpTo(0)'
  <1>1. PICK n \in 0 .. 4 : FilesUpTo(n) BY DEF AttackInv
  <1>2. n = 0 BY <1>1 DEF FilesUpTo
  <1> QED BY <1>1, <1>2 DEF FilesUpTo

LEMMA SelectsKeep == ASSUME AttackInv, Adaptive!Select \/ Adaptive!SelectRaises PROVE AttackInv'
  <1>0. AttackTypes /\ QueriesAreLogged /\ DecisionIsEarned BY DEF AttackInv
  <1>1. /\ phase = "ready"
        /\ \/ phase' = "attacking" /\ todo' = Adaptive!Units
           \/ phase' = "ended" /\ todo' = todo
        /\ UNCHANGED <<attacksRun, attacksRecords, queries, failures, faults,
                       attacksDecision, attacksDisk>>
    BY DEF Adaptive!Select, Adaptive!SelectRaises
  <1>2. Adaptive!Recorded' = Adaptive!Recorded BY <1>1 DEF Adaptive!Recorded
  <1>3. attacksDecision = "none" BY <1>0, <1>1 DEF DecisionIsEarned
  <1>4. AttackTypes' BY <1>0, <1>1 DEF AttackTypes
  <1>5. QueriesAreLogged' BY <1>0, <1>1, <1>2 DEF QueriesAreLogged, Adaptive!AllQueries, Adaptive!TargetQueries
  <1>6. DecisionIsEarned' BY <1>1, <1>3 DEF DecisionIsEarned
  <1>7. PICK n \in 0 .. UnitCount : TakenUp(n) BY DEF AttackInv
  <1>8. n = 0 BY <1>1, <1>7 DEF TakenUp
  <1>9. todo' = Adaptive!Units =>
          /\ todo' \in Seq(Adaptive!AllUnits) /\ 0 + Len(todo') = UnitCount
          /\ \A i \in 1 .. Len(todo') : todo'[i] = Adaptive!Units[0 + i]
    BY UnitsAre DEF UnitCount
  <1>10. TakenUp(0)' BY <1>1, <1>2, <1>3, <1>7, <1>8, <1>9 DEF TakenUp, UnitsUpTo, UnitCount
  <1>11. FilesUpTo(0)' BY <1>1, <1>3, UndecidedFiles
  <1>12. 0 \in 0 .. UnitCount' /\ 0 \in 0 .. 4 BY NothingTakenUp DEF UnitCount
  <1> QED BY <1>4, <1>5, <1>6, <1>10, <1>11, <1>12 DEF AttackInv

(* The next unit is one that was not taken up yet. *)
LEMMA NextUnit ==
  ASSUME AttackInv, phase = "attacking", todo # <<>>,
         NEW n \in 0 .. UnitCount, TakenUp(n), todo' = Tail(todo)
  PROVE  /\ n + 1 \in 0 .. UnitCount
         /\ todo[1] \notin Adaptive!Recorded \cup failures
         /\ UnitsUpTo(n + 1) = UnitsUpTo(n) \cup {todo[1]}
         /\ todo' \in Seq(Adaptive!AllUnits) /\ n + 1 + Len(todo') = UnitCount
         /\ \A i \in 1 .. Len(todo') : todo'[i] = Adaptive!Units[n + 1 + i]
  <1>1. /\ todo \in Seq(Adaptive!AllUnits) /\ n + Len(todo) = UnitCount
        /\ \A i \in 1 .. Len(todo) : todo[i] = Adaptive!Units[n + i]
        /\ Adaptive!Recorded \cup failures = UnitsUpTo(n)
    BY DEF TakenUp
  <1>2. Len(todo) \in Nat /\ Len(todo) >= 1 /\ n \in Nat /\ UnitCount \in Nat
    BY <1>1, UnitsAre
  <1>3. n + 1 \in 0 .. UnitCount /\ n + 1 \in 1 .. UnitCount BY <1>1, <1>2
  <1>4. todo[1] = Adaptive!Units[n + 1] BY <1>1, <1>2
  <1>5. todo[1] \notin UnitsUpTo(n)
    <2>1. ASSUME NEW i \in 1 .. n, todo[1] = Adaptive!Units[i] PROVE FALSE
      <3>1. i \in 1 .. UnitCount /\ i # n + 1 BY <1>2, <1>3
      <3> QED BY <1>3, <1>4, <2>1, <3>1, UnitsAre
    <2> QED BY <2>1 DEF UnitsUpTo
  <1>6. UnitsUpTo(n + 1) = UnitsUpTo(n) \cup {todo[1]}
    <2>1. 1 .. n + 1 = (1 .. n) \cup {n + 1} BY <1>2
    <2> QED BY <1>4, <2>1 DEF UnitsUpTo
  <1>7. /\ todo' \in Seq(Adaptive!AllUnits) /\ Len(todo') = Len(todo) - 1
        /\ \A i \in 1 .. Len(todo') : todo'[i] = todo[i + 1]
    BY <1>1, <1>2
  <1>8. \A i \in 1 .. Len(todo') : todo'[i] = Adaptive!Units[n + 1 + i]
    <2>1. ASSUME NEW i \in 1 .. Len(todo') PROVE todo'[i] = Adaptive!Units[n + 1 + i]
      <3>1. i + 1 \in 1 .. Len(todo) /\ n + (i + 1) = n + 1 + i BY <1>2, <1>7
      <3> QED BY <1>1, <1>7, <3>1
    <2> QED BY <2>1
  <1>9. n + 1 + Len(todo') = UnitCount BY <1>1, <1>2, <1>7
  <1>10. todo[1] \notin Adaptive!Recorded \cup failures BY <1>1, <1>5
  <1> QED BY <1>3, <1>6, <1>7, <1>8, <1>9, <1>10

(* The rows of a unit that has none yet. *)
LEMMA LoggedIs ==
  ASSUME QueriesAreLogged, NEW u, u \notin Adaptive!Recorded \cup failures, NEW m \in Nat
  PROVE  /\ DOMAIN Adaptive!Logged(u, m) = DOMAIN queries \cup {u}
         /\ Adaptive!Logged(u, m)[u] = m
         /\ \A v \in Adaptive!Recorded :
              /\ v # u
              /\ v \in DOMAIN queries => Adaptive!Logged(u, m)[v] = queries[v]
  <1>1. DOMAIN Adaptive!Logged(u, m) = DOMAIN queries \cup {u} BY DEF Adaptive!Logged
  <1>2. u \notin DOMAIN queries BY DEF QueriesAreLogged
  <1>3. Adaptive!Logged(u, m)[u] = m BY <1>2 DEF Adaptive!Logged
  <1>4. ASSUME NEW v \in Adaptive!Recorded, v \in DOMAIN queries
        PROVE  Adaptive!Logged(u, m)[v] = queries[v]
    <2>1. v # u OBVIOUS
    <2>2. queries[v] \in Nat BY <1>4, QueriesAreCounted DEF QueriesAreLogged
    <2>3. Adaptive!Logged(u, m)[v] = queries[v] + 0 BY <1>4, <2>1 DEF Adaptive!Logged
    <2> QED BY <2>2, <2>3
  <1> QED BY <1>1, <1>3, <1>4

LEMMA AttacksKeep == ASSUME AttackInv, Adaptive!Attack PROVE AttackInv'
  <1> DEFINE u == todo[1]
  <1>0. AttackTypes /\ QueriesAreLogged /\ DecisionIsEarned BY DEF AttackInv
  <1>1. /\ phase = "attacking" /\ todo # <<>> /\ todo' = Tail(todo)
        /\ queries' = IF Adaptive!AllQueries(u) = 0 THEN queries
                      ELSE Adaptive!Logged(u, Adaptive!AllQueries(u))
        /\ UNCHANGED <<attacksRun, phase, failures, faults, attacksDecision, attacksDisk>>
    BY DEF Adaptive!Attack
  <1>2. PICK r : r.unit = u /\ attacksRecords' = attacksRecords \cup {r}
    <2>1. PICK early, detected :
            attacksRecords' = attacksRecords \cup
               {[unit |-> u, queries |-> Adaptive!TargetQueries(u), early |-> early,
                 detected |-> detected]}
      BY DEF Adaptive!Attack
    <2> QED BY <2>1
  <1>3. PICK n \in 0 .. UnitCount : TakenUp(n) BY DEF AttackInv
  <1> HIDE DEF u
  <1>4. /\ n + 1 \in 0 .. UnitCount /\ u \notin Adaptive!Recorded \cup failures
        /\ UnitsUpTo(n + 1) = UnitsUpTo(n) \cup {u}
        /\ todo' \in Seq(Adaptive!AllUnits) /\ n + 1 + Len(todo') = UnitCount
        /\ \A i \in 1 .. Len(todo') : todo'[i] = Adaptive!Units[n + 1 + i]
    BY <1>1, <1>3, NextUnit DEF u
  <1>5. attacksDecision = "none" BY <1>0, <1>1 DEF DecisionIsEarned
  <1>6. Adaptive!Recorded' = Adaptive!Recorded \cup {u} BY <1>2 DEF Adaptive!Recorded
  <1>7. r \notin attacksRecords BY <1>2, <1>4 DEF Adaptive!Recorded
  <1>8. /\ IsFiniteSet(attacksRecords') /\ IsFiniteSet(failures)
        /\ Cardinality(attacksRecords') = Cardinality(attacksRecords) + 1
        /\ Cardinality(attacksRecords) \in Nat /\ Cardinality(failures) \in Nat
    BY <1>0, <1>2, <1>7, FS_AddElement, FS_CardinalityType DEF AttackTypes
  <1>9. AttackTypes' BY <1>0, <1>1, <1>8 DEF AttackTypes
  <1>10. QueriesAreLogged'
    <2>1. Adaptive!AllQueries(u) \in Nat BY QueriesAreCounted
    <2>2. \A v : Adaptive!AllQueries(v)' = Adaptive!AllQueries(v)
      BY DEF Adaptive!AllQueries, Adaptive!TargetQueries
    <2>3. CASE Adaptive!AllQueries(u) = 0
      <3>1. queries' = queries /\ u \notin DOMAIN queries
        BY <1>0, <1>1, <1>4, <2>3 DEF QueriesAreLogged
      <3> QED BY <1>0, <1>1, <1>6, <2>2, <2>3, <3>1 DEF QueriesAreLogged
    <2>4. CASE Adaptive!AllQueries(u) # 0
      <3>1. queries' = Adaptive!Logged(u, Adaptive!AllQueries(u)) BY <1>1, <2>4
      <3>2. /\ DOMAIN queries' = DOMAIN queries \cup {u}
            /\ queries'[u] = Adaptive!AllQueries(u)
            /\ \A v \in Adaptive!Recorded :
                 /\ v # u
                 /\ v \in DOMAIN queries => queries'[v] = queries[v]
        <4> DEFINE log == Adaptive!Logged(u, Adaptive!AllQueries(u))
        <4>1. /\ DOMAIN log = DOMAIN queries \cup {u}
              /\ log[u] = Adaptive!AllQueries(u)
              /\ \A v \in Adaptive!Recorded :
                   /\ v # u
                   /\ v \in DOMAIN queries => log[v] = queries[v]
          BY <1>0, <1>4, <2>1, LoggedIs
        <4> HIDE DEF log
        <4> QED BY <3>1, <4>1 DEF log
      <3>3. Adaptive!AllQueries(u) > 0 BY <2>1, <2>4
      <3> QED BY <1>0, <1>1, <1>6, <2>2, <3>2, <3>3 DEF QueriesAreLogged
    <2> QED BY <2>3, <2>4
  <1>11. DecisionIsEarned' BY <1>1, <1>5 DEF DecisionIsEarned
  <1>12. TakenUp(n + 1)'
    <2>1. Cardinality(attacksRecords') + Cardinality(failures) = n + 1
      BY <1>3, <1>8 DEF TakenUp
    <2>2. (Adaptive!Recorded \cup failures)' = UnitsUpTo(n + 1)
      BY <1>1, <1>3, <1>4, <1>6 DEF TakenUp
    <2>3. (Adaptive!Recorded \cap failures)' = {} BY <1>1, <1>3, <1>4, <1>6 DEF TakenUp
    <2> QED BY <1>1, <1>4, <1>5, <2>1, <2>2, <2>3 DEF TakenUp, UnitsUpTo, UnitCount
  <1>13. FilesUpTo(0)' BY <1>1, <1>5, UndecidedFiles
  <1>14. n + 1 \in 0 .. UnitCount' BY <1>4 DEF UnitCount
  <1> QED BY <1>9, <1>10, <1>11, <1>12, <1>13, <1>14, NothingTakenUp DEF AttackInv

(* A unit raises, after some of its rows or none. *)
LEMMA RaisesKeep == ASSUME AttackInv, Adaptive!AttackRaises PROVE AttackInv'
  <1> DEFINE u == todo[1]
  <1>0. AttackTypes /\ QueriesAreLogged /\ DecisionIsEarned BY DEF AttackInv
  <1>1. /\ phase = "attacking" /\ todo # <<>> /\ todo' = Tail(todo)
        /\ failures' = failures \cup {u}
        /\ UNCHANGED <<attacksRun, phase, attacksRecords, attacksDecision, attacksDisk>>
    BY DEF Adaptive!AttackRaises
  <1>3. PICK k \in Nat : queries' = IF k = 0 THEN queries ELSE Adaptive!Logged(u, k)
    <2>1. PICK m \in {0, Adaptive!AllQueries(u)}
                       \cup (IF u[2] = "probe" THEN {Adaptive!ProbeQueries} ELSE {}) :
            queries' = IF m = 0 THEN queries ELSE Adaptive!Logged(u, m)
      BY DEF Adaptive!AttackRaises
    <2>2. m \in Nat BY <2>1, QueriesAreCounted DEF Adaptive!ProbeQueries
    <2> QED BY <2>1, <2>2
  <1>4. PICK n \in 0 .. UnitCount : TakenUp(n) BY DEF AttackInv
  <1> HIDE DEF u
  <1>5. /\ n + 1 \in 0 .. UnitCount /\ u \notin Adaptive!Recorded \cup failures
        /\ UnitsUpTo(n + 1) = UnitsUpTo(n) \cup {u}
        /\ todo' \in Seq(Adaptive!AllUnits) /\ n + 1 + Len(todo') = UnitCount
        /\ \A i \in 1 .. Len(todo') : todo'[i] = Adaptive!Units[n + 1 + i]
    BY <1>1, <1>4, NextUnit DEF u
  <1>6. attacksDecision = "none" BY <1>0, <1>1 DEF DecisionIsEarned
  <1>7. Adaptive!Recorded' = Adaptive!Recorded BY <1>1 DEF Adaptive!Recorded
  <1>8. /\ IsFiniteSet(failures') /\ IsFiniteSet(attacksRecords)
        /\ Cardinality(failures') = Cardinality(failures) + 1
        /\ Cardinality(attacksRecords) \in Nat /\ Cardinality(failures) \in Nat
    BY <1>0, <1>1, <1>5, FS_AddElement, FS_CardinalityType DEF AttackTypes
  <1>9. AttackTypes' BY <1>0, <1>1, <1>8 DEF AttackTypes
  <1>10. QueriesAreLogged'
    <2>1. \A v : Adaptive!AllQueries(v)' = Adaptive!AllQueries(v)
      BY DEF Adaptive!AllQueries, Adaptive!TargetQueries
    <2>2. CASE k = 0
      <3>1. queries' = queries BY <1>3, <2>2
      <3> QED BY <1>0, <1>1, <1>7, <2>1, <3>1 DEF QueriesAreLogged
    <2>3. CASE k # 0
      <3>1. queries' = Adaptive!Logged(u, k) BY <1>3, <2>3
      <3>2. /\ DOMAIN queries' = DOMAIN queries \cup {u}
            /\ \A v \in Adaptive!Recorded :
                 /\ v # u
                 /\ v \in DOMAIN queries => queries'[v] = queries[v]
        <4>0. u \notin Adaptive!Recorded \cup failures BY <1>5
        <4>1. QueriesAreLogged BY <1>0
        <4>2. /\ DOMAIN Adaptive!Logged(u, k) = DOMAIN queries \cup {u}
              /\ Adaptive!Logged(u, k)[u] = k
              /\ \A v \in Adaptive!Recorded :
                   /\ v # u
                   /\ v \in DOMAIN queries => Adaptive!Logged(u, k)[v] = queries[v]
          BY <4>0, <4>1, LoggedIs
        <4> QED BY <3>1, <4>2, Zenon
      <3> QED BY <1>0, <1>1, <1>7, <2>1, <3>2 DEF QueriesAreLogged
    <2> QED BY <2>2, <2>3
  <1>11. DecisionIsEarned' BY <1>1, <1>6 DEF DecisionIsEarned
  <1>12. TakenUp(n + 1)'
    <2>1. Cardinality(attacksRecords) + Cardinality(failures') = n + 1
      BY <1>4, <1>8 DEF TakenUp
    <2>2. (Adaptive!Recorded \cup failures)' = UnitsUpTo(n + 1)
      BY <1>1, <1>4, <1>5, <1>7 DEF TakenUp
    <2>3. (Adaptive!Recorded \cap failures)' = {} BY <1>1, <1>4, <1>5, <1>7 DEF TakenUp
    <2> QED BY <1>1, <1>5, <1>6, <2>1, <2>2, <2>3 DEF TakenUp, UnitsUpTo, UnitCount
  <1>13. FilesUpTo(0)' BY <1>1, <1>6, UndecidedFiles
  <1>14. n + 1 \in 0 .. UnitCount' BY <1>5 DEF UnitCount
  <1> QED BY <1>9, <1>10, <1>11, <1>12, <1>13, <1>14, NothingTakenUp DEF AttackInv

(* The decision, when every unit has been taken up. *)
LEMMA DecideKeeps == ASSUME AttackInv, Adaptive!Decide PROVE AttackInv'
  <1>0. AttackTypes /\ QueriesAreLogged /\ DecisionIsEarned BY DEF AttackInv
  <1>1. /\ phase = "attacking" /\ todo = <<>> /\ phase' = "writing"
        /\ attacksDecision' \in {"FAIL", "PASS", "ROBUST"}
        /\ attacksDecision' # "FAIL" => Adaptive!adaptive_execution_complete
        /\ UNCHANGED <<attacksRun, todo, attacksRecords, queries, failures, faults,
                       attacksDisk>>
    BY DEF Adaptive!Decide
  <1>2. Adaptive!Recorded' = Adaptive!Recorded BY <1>1 DEF Adaptive!Recorded
  <1>3. PICK n \in 0 .. UnitCount : TakenUp(n) BY DEF AttackInv
  <1>4. n = UnitCount
    <2>1. Len(todo) = 0 BY <1>1
    <2> QED BY <1>1, <1>3, <2>1 DEF TakenUp
  <1>5. attacksDecision = "none" BY <1>0, <1>1 DEF DecisionIsEarned
  <1>6. AttackTypes' BY <1>0, <1>1 DEF AttackTypes
  <1>7. QueriesAreLogged'
    BY <1>0, <1>1, <1>2 DEF QueriesAreLogged, Adaptive!AllQueries, Adaptive!TargetQueries
  <1>8. DecisionIsEarned'
    <2>1. Adaptive!OptimizerEvidenceReady' = Adaptive!OptimizerEvidenceReady
      BY <1>1 DEF Adaptive!OptimizerEvidenceReady, Adaptive!Of
    <2> QED BY <1>1, <2>1 DEF DecisionIsEarned, Adaptive!adaptive_execution_complete
  <1>9. TakenUp(n)' BY <1>1, <1>2, <1>3, <1>4 DEF TakenUp, UnitsUpTo, UnitCount
  <1>10. FilesUpTo(0)' BY <1>1, <1>5, UndecidedFiles
  <1>11. n \in 0 .. UnitCount' BY DEF UnitCount
  <1> QED BY <1>6, <1>7, <1>8, <1>9, <1>10, <1>11, NothingTakenUp DEF AttackInv

(* What a step leaves alone when it touches the files or the phase only. *)
LEMMA MemoryKept ==
  ASSUME AttackInv,
         UNCHANGED <<attacksRun, attacksRecords, queries, failures, attacksDecision>>,
         \/ phase' = phase /\ todo' = todo
         \/ phase' \in {"writing", "ended", "killed"}
              /\ (phase' = "writing" => phase = "writing")
         
  PROVE  /\ QueriesAreLogged' /\ DecisionIsEarned'
         /\ \E n \in 0 .. UnitCount' : TakenUp(n)'
         /\ \A f : Adaptive!Contents(f)' = Adaptive!Contents(f)
  <1>0. QueriesAreLogged /\ DecisionIsEarned BY DEF AttackInv
  <1>1. Adaptive!Recorded' = Adaptive!Recorded BY DEF Adaptive!Recorded
  <1>2. QueriesAreLogged'
    BY <1>0, <1>1 DEF QueriesAreLogged, Adaptive!AllQueries, Adaptive!TargetQueries
  <1>3. Adaptive!OptimizerEvidenceReady' = Adaptive!OptimizerEvidenceReady
    BY DEF Adaptive!OptimizerEvidenceReady, Adaptive!Of
  <1>4. DecisionIsEarned' BY <1>0, <1>3 DEF DecisionIsEarned
  <1>5. PICK n \in 0 .. UnitCount : TakenUp(n) BY DEF AttackInv
  <1>6. TakenUp(n)' BY <1>1, <1>5 DEF TakenUp, UnitsUpTo, UnitCount
  <1>7. n \in 0 .. UnitCount' BY DEF UnitCount
  <1>8. \A f : Adaptive!Contents(f)' = Adaptive!Contents(f)
    BY <1>1 DEF Adaptive!Contents
  <1> QED BY <1>2, <1>4, <1>6, <1>7, <1>8

LEMMA EndsKeep ==
  ASSUME AttackInv,
         Adaptive!SourceRaises \/ Adaptive!Kill \/ Adaptive!Done \/ UNCHANGED Adaptive!vars
  PROVE  AttackInv'
  <1>1. /\ \/ phase' = phase /\ todo' = todo
           \/ phase = "attacking" /\ phase' = "ended"
           \/ phase' = "killed"
        /\ UNCHANGED <<attacksRun, attacksRecords, queries, failures, attacksDecision,
                       attacksDisk>>
    BY DEF Adaptive!SourceRaises, Adaptive!Kill, Adaptive!Done, Adaptive!vars
  <1>2. /\ QueriesAreLogged' /\ DecisionIsEarned'
        /\ \E n \in 0 .. UnitCount' : TakenUp(n)'
        /\ \A f : Adaptive!Contents(f)' = Adaptive!Contents(f)
    BY <1>1, MemoryKept
  <1>3. AttackTypes' BY <1>1 DEF AttackInv, AttackTypes
  <1>4. PICK n \in 0 .. 4 : FilesUpTo(n) BY DEF AttackInv
  <1>5. phase = "attacking" => n = 0 BY <1>4 DEF AttackInv, DecisionIsEarned, FilesUpTo
  <1>6. FilesUpTo(n)' BY <1>1, <1>2, <1>4, <1>5 DEF FilesUpTo
  <1> QED BY <1>2, <1>3, <1>6 DEF AttackInv

(* The next file is written; after the last the run has ended. *)
LEMMA WritesKeep == ASSUME AttackInv, Adaptive!Write PROVE AttackInv'
  <1>1. /\ phase = "writing" /\ phase' \in {"writing", "ended"}
        /\ UNCHANGED <<attacksRun, todo, attacksRecords, queries, failures, faults,
                       attacksDecision>>
    BY DEF Adaptive!Write
  <1>2. /\ QueriesAreLogged' /\ DecisionIsEarned'
        /\ \E n \in 0 .. UnitCount' : TakenUp(n)'
        /\ \A f : Adaptive!Contents(f)' = Adaptive!Contents(f)
    BY <1>1, MemoryKept
  <1>3. PICK n \in 0 .. 4 : FilesUpTo(n) BY DEF AttackInv
  <1>4. n < 4 /\ attacksDecision # "none"
    BY <1>1, <1>3 DEF FilesUpTo, AttackInv, DecisionIsEarned
  <1>5. Adaptive!Written = 1 .. n BY <1>3 DEF Adaptive!Written, FilesUpTo
  <1>6. Adaptive!Cardinality(Adaptive!Written) + 1 = n + 1
    <2>1. 1 \in Int /\ n \in Int /\ n >= 0 BY <1>3
    <2>2. Cardinality(1 .. n) = IF 1 > n THEN 0 ELSE n - 1 + 1 BY <2>1, FS_Interval
    <2>3. Cardinality(1 .. n) = n BY <2>1, <2>2
    <2> QED BY <1>5, <2>3 DEF Adaptive!Cardinality, Cardinality
  <1> DEFINE f == Adaptive!Files[n + 1]
  <1>7. /\ attacksDisk' = [attacksDisk EXCEPT ![f] =
                             [run |-> attacksRun, value |-> Adaptive!Contents(f)]]
        /\ phase' = IF n + 1 = 4 THEN "ended" ELSE "writing"
    BY <1>6 DEF Adaptive!Write
  <1>8. n + 1 \in 1 .. 4 BY <1>4
  <1>9. f \in DOMAIN attacksDisk BY <1>8 DEF AttackInv, AttackTypes
  <1>10. /\ DOMAIN attacksDisk' = DOMAIN attacksDisk
         /\ attacksDisk'[f].run = attacksRun
         /\ attacksDisk'[f].value = Adaptive!Contents(f)
         /\ \A g \in DOMAIN attacksDisk : g # f => attacksDisk'[g] = attacksDisk[g]
    <2> HIDE DEF f
    <2> QED BY <1>7, <1>9
  <1>11. AttackTypes'
    <2>1. attacksRun \in 0 .. attacksRun BY DEF AttackInv, AttackTypes
    <2> HIDE DEF f
    <2> QED BY <1>1, <1>10, <2>1 DEF AttackInv, AttackTypes
  <1>12. \A i \in 1 .. 4 : i # n + 1 =>
           Adaptive!Files[i] # f /\ Adaptive!Files[i] \in DOMAIN attacksDisk
    BY <1>8, AttackFilesAre DEF AttackInv, AttackTypes
  <1>13. \A i \in 1 .. 4 : i # n + 1 => attacksDisk'[Adaptive!Files[i]] = attacksDisk[Adaptive!Files[i]]
    BY <1>10, <1>12
  <1>14. FilesUpTo(n + 1)'
    <2>1. ASSUME NEW i \in 1 .. 4
          PROVE  /\ attacksDisk'[Adaptive!Files[i]].run = attacksRun' <=> i <= n + 1
                 /\ i <= n + 1 => attacksDisk'[Adaptive!Files[i]].value =
                                    Adaptive!Contents(Adaptive!Files[i])'
      <3>1. CASE i = n + 1 BY <1>1, <1>2, <1>10, <3>1
      <3>2. CASE i # n + 1
        <4>1. i <= n + 1 <=> i <= n BY <3>2
        <4> QED BY <1>1, <1>2, <1>3, <1>13, <3>2, <4>1 DEF FilesUpTo
      <3> QED BY <3>1, <3>2
    <2>2. /\ phase' = "writing" => n + 1 < 4
          /\ phase' = "ended" => n + 1 \in {0, 4}
      BY <1>4, <1>7
    <2> QED BY <1>1, <1>4, <2>1, <2>2 DEF FilesUpTo
  <1>15. n + 1 \in 0 .. 4 BY <1>8
  <1> QED BY <1>2, <1>11, <1>14, <1>15 DEF AttackInv

(* A later run of the directory: nothing is of it yet. *)
LEMMA NextRunKeeps == ASSUME AttackInv, Adaptive!NextRun PROVE AttackInv'
  <1>0. AttackTypes BY DEF AttackInv
  <1>1. /\ attacksRun < AttackRuns /\ attacksRun' = attacksRun + 1 /\ phase' = "ready"
        /\ todo' = <<>> /\ attacksRecords' = {} /\ queries' = <<>> /\ failures' = {}
        /\ attacksDecision' = "none" /\ attacksDisk' = attacksDisk
    BY DEF Adaptive!NextRun
  <1>2. Adaptive!Recorded' = {} BY <1>1 DEF Adaptive!Recorded
  <1>3. /\ attacksRun' \in 1 .. AttackRuns
        /\ \A f \in DOMAIN attacksDisk : /\ attacksDisk[f].run \in 0 .. attacksRun'
                                         /\ attacksDisk[f].run # attacksRun'
    BY <1>0, <1>1, AttackConstants DEF AttackTypes
  <1>4. AttackTypes' BY <1>0, <1>1, <1>3, NothingTakenUp DEF AttackTypes
  <1>5. QueriesAreLogged' BY <1>1, <1>2, NothingTakenUp DEF QueriesAreLogged
  <1>6. DecisionIsEarned' BY <1>1 DEF DecisionIsEarned
  <1>7. UnitsUpTo(0)' = {} /\ 0 \in 0 .. UnitCount' BY NothingTakenUp DEF UnitsUpTo, UnitCount
  <1>8. TakenUp(0)' BY <1>1, <1>2, <1>7, NothingTakenUp DEF TakenUp
  <1>9. \A i \in 1 .. 4 : Adaptive!Files[i] \in DOMAIN attacksDisk BY <1>0 DEF AttackTypes
  <1>10. FilesUpTo(0)' BY <1>1, <1>3, <1>9 DEF FilesUpTo
  <1> QED BY <1>4, <1>5, <1>6, <1>7, <1>8, <1>10, NothingTakenUp DEF AttackInv

LEMMA NextAttackInv == AttackInv /\ [Adaptive!Next]_(Adaptive!vars) => AttackInv'
  BY SelectsKeep, AttacksKeep, RaisesKeep, DecideKeeps, EndsKeep, WritesKeep, NextRunKeeps
  DEF Adaptive!Next

(* The promises of the attacks, from their invariant. *)
LEMMA AttackIsAsPromised ==
  AttackInv => /\ Adaptive!TypeOK /\ Adaptive!CompleteIsWhole /\ Adaptive!CurveIsComplete
               /\ Adaptive!FilesAgree
  <1> SUFFICES ASSUME AttackInv
               PROVE  /\ Adaptive!TypeOK /\ Adaptive!CompleteIsWhole
                      /\ Adaptive!CurveIsComplete /\ Adaptive!FilesAgree
    OBVIOUS
  <1>0. AttackTypes /\ QueriesAreLogged /\ DecisionIsEarned BY DEF AttackInv
  <1>1. PICK n \in 0 .. UnitCount : TakenUp(n) BY DEF AttackInv
  <1>2. PICK k \in 0 .. 4 : FilesUpTo(k) BY DEF AttackInv
  <1>3. attacksDecision # "none" =>
          /\ Adaptive!Recorded \cup failures = Adaptive!AllUnits
          /\ Adaptive!Recorded \cap failures = {}
    BY <1>1, UnitsAre DEF TakenUp
  <1>4. Adaptive!TypeOK
    <2>1. /\ Adaptive!Cardinality(attacksRecords) = Cardinality(attacksRecords)
          /\ Adaptive!Cardinality(failures) = Cardinality(failures)
      BY DEF Adaptive!Cardinality, Cardinality
    <2>2. Adaptive!Cardinality(attacksRecords) + Adaptive!Cardinality(failures)
            <= Adaptive!expected_count
      BY <1>1, <2>1, UnitsAre DEF TakenUp
    <2> QED BY <1>0, <1>1, <2>2 DEF AttackTypes, TakenUp, Adaptive!TypeOK
  <1>5. Adaptive!CompleteIsWhole
    <2> SUFFICES ASSUME attacksDecision \in {"PASS", "ROBUST"}
                 PROVE  /\ Adaptive!Recorded = Adaptive!AllUnits
                        /\ \A u \in DOMAIN queries : queries[u] = Adaptive!AllQueries(u)
                        /\ \A u \in Adaptive!AllUnits :
                             Adaptive!AllQueries(u) > 0 => u \in DOMAIN queries
      BY DEF Adaptive!CompleteIsWhole
    <2>1. failures = {} BY <1>0 DEF DecisionIsEarned
    <2>2. Adaptive!Recorded = Adaptive!AllUnits BY <1>3, <2>1
    <2> QED BY <1>0, <2>1, <2>2 DEF QueriesAreLogged
  <1>6. Adaptive!CurveIsComplete
    BY <1>0 DEF DecisionIsEarned, Adaptive!CurveIsComplete, Adaptive!OptimizerEvidenceReady,
                Adaptive!Of
  <1>7. Adaptive!FilesAgree
    <2> SUFFICES ASSUME phase = "ended", attacksDisk["decision"].run = attacksRun
                 PROVE  /\ \A f \in DOMAIN attacksDisk : attacksDisk[f].run = attacksRun
                        /\ attacksDisk["records"].value \cup attacksDisk["failures"].value
                             = Adaptive!AllUnits
                        /\ attacksDisk["records"].value \cap attacksDisk["failures"].value = {}
                        /\ attacksDisk["decision"].value # {"FAIL"} =>
                             attacksDisk["failures"].value = {}
      BY DEF Adaptive!FilesAgree
    <2>1. 4 \in 1 .. 4 /\ 1 \in 1 .. 4 /\ 3 \in 1 .. 4 OBVIOUS
    <2>2. k = 4 BY <1>2, <2>1, AttackFilesAre DEF FilesUpTo
    <2>3. \A i \in 1 .. 4 :
            /\ attacksDisk[Adaptive!Files[i]].run = attacksRun
            /\ attacksDisk[Adaptive!Files[i]].value = Adaptive!Contents(Adaptive!Files[i])
      BY <1>2, <2>2 DEF FilesUpTo
    <2>4. /\ attacksDisk["records"].value = Adaptive!Recorded
          /\ attacksDisk["failures"].value = failures
          /\ attacksDisk["decision"].value = {attacksDecision}
      BY <2>1, <2>3, AttackFilesAre
    <2>5. attacksDecision # "none" BY <1>2, <2>2 DEF FilesUpTo
    <2>6. attacksDecision # "FAIL" => failures = {}
      BY <1>0, <2>5 DEF AttackTypes, DecisionIsEarned
    <2>7. \A f \in DOMAIN attacksDisk : attacksDisk[f].run = attacksRun
      BY <1>0, <2>3 DEF AttackTypes
    <2> QED BY <1>3, <2>4, <2>5, <2>6, <2>7
  <1> QED BY <1>4, <1>5, <1>6, <1>7

-----------------------------------------------------------------------------
(* The calibration.  A fold that has been fitted gave each of its clusters a *)
(* model of others; a fit that raised had a fold that does not fit.          *)

FoldsOf(S) == 0 .. Detector!FoldCount(S) - 1

FitIsSound ==
    /\ detectorSession = "fit" =>
         /\ fold > 0 => Detector!Enough(Detector!Groups)
                          /\ fold <= Detector!FoldCount(Detector!Groups)
         /\ \A f \in 0 .. fold - 1 :
              /\ Detector!OuterFits(f)
              /\ \A g \in Detector!FoldIn(Detector!Groups, f) : model[g] # {}
    /\ detectorSession \in {"freeze", "done"} =>
         /\ Detector!Enough(Detector!Groups)
         /\ \A f \in FoldsOf(Detector!Groups) : Detector!OuterFits(f)
         /\ \A g \in Detector!Groups : model[g] # {}
    /\ detectorSession = "raised" =>
         \/ ~Detector!Enough(Detector!Groups)
         \/ \E f \in FoldsOf(Detector!Groups) : ~Detector!OuterFits(f)

DetectorInv ==
    /\ Detector!TypeOK /\ FitIsSound /\ inner >= 2
    /\ \A g \in Detector!Groups : model[g] # {} => g \notin model[g] /\ Detector!BothIn(model[g])

LEMMA DetectorConstants ==
  /\ Clusters \in Nat \ {0} /\ MaximumFolds \in Nat \ {0} /\ Levels \in Nat \ {0}
  /\ Share \in Nat \ {0} /\ MaximumFolds >= 3
  BY InstancesAssumption DEF Detector!CalibrationAssumption

LEMMA DetectorProjects == [SomeStep]_allVars => [Detector!Next]_(Detector!vars)
  <1> SUFFICES ASSUME [SomeStep]_allVars PROVE [Detector!Next]_(Detector!vars)
    OBVIOUS
  <1> USE DEF detectorVars, Detector!vars
  <1>1. CASE DetectorStep BY <1>1 DEF DetectorStep
  <1>2. CASE Rest /\ program # "detector" BY <1>2 DEF Rest
  <1>3. CASE UNCHANGED allVars BY <1>3 DEF allVars
  <1> QED
    BY <1>1, <1>2, <1>3
    DEF SomeStep, GatesStep, ChainStep, FlowStep, AdaptiveStep, SearchStep, FairnessStep,
        MotionStep

(* A set of the clusters is finite, and its numbers of hypotheses count it.  *)
LEMMA GroupsAre ==
  /\ Detector!Groups \subseteq Nat /\ IsFiniteSet(Detector!Groups)
  /\ Cardinality(Detector!Groups) = Clusters
  /\ \A S : Detector!Cardinality(S) = Cardinality(S)
  <1>1. 1 \in Int /\ Clusters \in Int /\ Clusters >= 1 BY DetectorConstants
  <1>2. IsFiniteSet(1 .. Clusters)
        /\ Cardinality(1 .. Clusters) = IF 1 > Clusters THEN 0 ELSE Clusters - 1 + 1
    BY <1>1, FS_Interval
  <1>3. Cardinality(1 .. Clusters) = Clusters BY <1>1, <1>2
  <1>4. \A S : Detector!Cardinality(S) = Cardinality(S)
    BY DEF Detector!Cardinality, Cardinality
  <1> QED BY <1>2, <1>3, <1>4 DEF Detector!Groups

LEMMA HypothesesAreCounted ==
  ASSUME NEW S \in SUBSET Detector!Groups, NEW l
  PROVE  /\ Detector!Of(S, l) \in SUBSET S /\ IsFiniteSet(Detector!Of(S, l))
         /\ Detector!Cardinality(Detector!Of(S, l)) = Cardinality(Detector!Of(S, l))
         /\ Cardinality(Detector!Of(S, l)) \in Nat
  <1>1. Detector!Of(S, l) \in SUBSET S BY DEF Detector!Of
  <1>2. Detector!Of(S, l) \in SUBSET Detector!Groups BY <1>1
  <1>3. IsFiniteSet(Detector!Of(S, l)) BY <1>2, GroupsAre, FS_Subset
  <1> QED BY <1>1, <1>3, GroupsAre, FS_CardinalityType

(* With enough clusters there are two folds at least, and every cluster is   *)
(* in one of them.                                                           *)
LEMMA FoldsAre ==
  ASSUME NEW S \in SUBSET Detector!Groups, Detector!Enough(S)
  PROVE  /\ Detector!FoldCount(S) \in 2 .. MaximumFolds
         /\ Detector!FoldCount(S) <= Cardinality(Detector!Of(S, 0))
         /\ Detector!FoldCount(S) <= Cardinality(Detector!Of(S, 1))
         /\ \A g : Detector!FoldOf(S, g) \in FoldsOf(S)
  <1>1. /\ Cardinality(Detector!Of(S, 0)) \in Nat /\ Cardinality(Detector!Of(S, 1)) \in Nat
        /\ Cardinality(Detector!Of(S, 0)) >= 2 /\ Cardinality(Detector!Of(S, 1)) >= 2
    BY HypothesesAreCounted DEF Detector!Enough
  <1>2. /\ Detector!FoldCount(S) \in 2 .. MaximumFolds
        /\ Detector!FoldCount(S) <= Cardinality(Detector!Of(S, 0))
        /\ Detector!FoldCount(S) <= Cardinality(Detector!Of(S, 1))
    BY <1>1, HypothesesAreCounted, DetectorConstants DEF Detector!FoldCount, Detector!Least
  <1>3. ASSUME NEW g PROVE Detector!FoldOf(S, g) \in FoldsOf(S)
    <2> DEFINE R == {h \in S : h < g /\ labels[h] = labels[g]}
               k == Detector!FoldCount(S)
    <2>1. R \in SUBSET Detector!Groups OBVIOUS
    <2>2. Cardinality(R) \in Nat BY <2>1, GroupsAre, FS_Subset, FS_CardinalityType
    <2>3. Detector!FoldOf(S, g) = Cardinality(R) % k BY GroupsAre DEF Detector!FoldOf
    <2> HIDE DEF R, k
    <2>4. k \in Nat \ {0} BY <1>2 DEF k
    <2>5. Cardinality(R) % k \in 0 .. k - 1 BY <2>2, <2>4
    <2> QED BY <2>3, <2>5 DEF FoldsOf, k
  <1> QED BY <1>2, <1>3

(* What is left for training is what is not in the fold. *)
LEMMA TrainingIs ==
  ASSUME NEW S \in SUBSET Detector!Groups, NEW f
  PROVE  /\ Detector!Training(S, f) \in SUBSET S
         /\ Detector!Training(S, f) \in SUBSET Detector!Groups
         /\ \A g \in S : g \in Detector!Training(S, f) <=> Detector!FoldOf(S, g) # f
         /\ \A g : g \in Detector!FoldIn(S, f) <=> g \in S /\ Detector!FoldOf(S, g) = f
  BY DEF Detector!Training, Detector!FoldIn

(* The hypotheses of a run do not change, nor what rests on them. *)
LEMMA DetectorFrame ==
  ASSUME labels' = labels
  PROVE  /\ \A S : (Detector!Enough(S))' = Detector!Enough(S)
         /\ \A S : (Detector!BothIn(S))' = Detector!BothIn(S)
         /\ \A S : (Detector!FoldCount(S))' = Detector!FoldCount(S)
         /\ \A S, f : (Detector!FoldIn(S, f))' = Detector!FoldIn(S, f)
         /\ \A S, f : (Detector!Training(S, f))' = Detector!Training(S, f)
         /\ \A f : (Detector!OuterFits(f))' = Detector!OuterFits(f)
         /\ \A l : (Detector!Of(Detector!Groups, l))' = Detector!Of(Detector!Groups, l)
  <1>1. \A S, l : (Detector!Of(S, l))' = Detector!Of(S, l) BY DEF Detector!Of
  <1>2. \A S : (Detector!Enough(S))' = Detector!Enough(S) BY <1>1 DEF Detector!Enough
  <1>3. \A S : (Detector!BothIn(S))' = Detector!BothIn(S) BY <1>1 DEF Detector!BothIn
  <1>4. \A S : (Detector!FoldCount(S))' = Detector!FoldCount(S) BY <1>1 DEF Detector!FoldCount
  <1>5. \A S, g : (Detector!FoldOf(S, g))' = Detector!FoldOf(S, g)
    BY <1>4 DEF Detector!FoldOf
  <1>6. \A S, f : (Detector!FoldIn(S, f))' = Detector!FoldIn(S, f)
    BY <1>5 DEF Detector!FoldIn
  <1>7. \A S, f : (Detector!Training(S, f))' = Detector!Training(S, f)
    BY <1>6 DEF Detector!Training
  <1>8. \A S : (Detector!InnerFits(S))' = Detector!InnerFits(S)
    BY <1>2, <1>3, <1>4, <1>7 DEF Detector!InnerFits
  <1>9. Detector!Groups' = Detector!Groups BY DEF Detector!Groups
  <1>10. \A f : (Detector!OuterFits(f))' = Detector!OuterFits(f)
    BY <1>3, <1>6, <1>7, <1>8, <1>9 DEF Detector!OuterFits
  <1> QED BY <1>1, <1>2, <1>3, <1>4, <1>6, <1>7, <1>9, <1>10

LEMMA DetectorStarts == Start => DetectorInv
  <1> SUFFICES ASSUME Start PROVE DetectorInv
    OBVIOUS
  <1>1. /\ labels \in [Detector!Groups -> {{0}, {1}, {0, 1}}] /\ fold = 0
        /\ model = [g \in Detector!Groups |-> {}] /\ inner = MaximumFolds
        /\ trials = [g \in {} |-> <<0, 0>>] /\ detectorSession = "fit"
    <2>1. CASE program = "detector"
      <3>1. Detector!Init BY <2>1 DEF Start
      <3> QED BY <3>1 DEF Detector!Init, Detector!NoModel
    <2>2. CASE program # "detector"
      <3>1. /\ labels = [g \in Detector!Groups |-> {0}] /\ fold = 0
            /\ model = [g \in Detector!Groups |-> {}] /\ inner = MaximumFolds
            /\ trials = [g \in {} |-> <<0, 0>>] /\ detectorSession = "fit"
        BY <2>2 DEF Start
      <3> QED BY <3>1
    <2> QED BY <2>1, <2>2
  <1>2. DOMAIN trials = {} BY <1>1
  <1>3. trials \in [DOMAIN trials -> Detector!Trials] BY <1>1, <1>2
  <1>4. 0 \in 0 .. MaximumFolds /\ MaximumFolds \in 1 .. MaximumFolds BY DetectorConstants
  <1>5. Detector!TypeOK BY <1>1, <1>2, <1>3, <1>4 DEF Detector!TypeOK, Detector!Scored
  <1>6. FitIsSound BY <1>1 DEF FitIsSound
  <1>7. inner >= 2 BY <1>1, DetectorConstants
  <1> QED BY <1>1, <1>5, <1>6, <1>7 DEF DetectorInv

(* A fold is fitted, or raises. *)
LEMMA OuterFoldKeeps == ASSUME DetectorInv, Detector!OuterFold PROVE DetectorInv'
  <1> DEFINE G == Detector!Groups
             K == Detector!FoldCount(G)
             T == Detector!Training(G, fold)
  <1>0. /\ Detector!TypeOK /\ FitIsSound /\ inner >= 2
        /\ \A g \in G : model[g] # {} => g \notin model[g] /\ Detector!BothIn(model[g])
    BY DEF DetectorInv
  <1>1. /\ detectorSession = "fit" /\ Detector!Enough(G) /\ fold < K /\ fold' = fold + 1
        /\ labels' = labels /\ trials' = trials
    BY DEF Detector!OuterFold
  <1>2. /\ K \in 2 .. MaximumFolds /\ \A g : Detector!FoldOf(G, g) \in FoldsOf(G)
        /\ MaximumFolds \in Nat
    BY <1>1, FoldsAre, DetectorConstants
  <1>3. fold \in Nat /\ inner \in 1 .. MaximumFolds /\ model \in [G -> SUBSET G]
    BY <1>0 DEF Detector!TypeOK
  <1>4. /\ T \in SUBSET G /\ \A g \in Detector!FoldIn(G, fold) : g \in G /\ g \notin T
    BY TrainingIs
  <1>5. fold' \in 0 .. MaximumFolds /\ fold \in FoldsOf(G) BY <1>1, <1>2, <1>3 DEF FoldsOf
  <1>6. /\ \A S : (Detector!BothIn(S))' = Detector!BothIn(S)
        /\ Detector!Enough(G)' = Detector!Enough(G) /\ K' = K /\ FoldsOf(G)' = FoldsOf(G)
        /\ \A f : (Detector!OuterFits(f))' = Detector!OuterFits(f)
        /\ \A f : Detector!FoldIn(G, f)' = Detector!FoldIn(G, f)
        /\ (Detector!Of(G, 0))' = Detector!Of(G, 0)
        /\ G' = G
    BY <1>1, DetectorFrame DEF FoldsOf, Detector!Groups
  <1>7. CASE Detector!OuterFits(fold)
    <2>1. /\ model' = [g \in G |-> IF g \in Detector!FoldIn(G, fold) THEN T ELSE model[g]]
          /\ inner' = Detector!Least(inner, Detector!FoldCount(T))
          /\ detectorSession' = detectorSession
      BY <1>7 DEF Detector!OuterFold
    <2>2. Detector!BothIn(T) /\ Detector!Enough(T)
      BY <1>7 DEF Detector!OuterFits, Detector!InnerFits
    <2>3. Detector!FoldCount(T) \in 2 .. MaximumFolds BY <1>4, <2>2, FoldsAre
    <2>4. inner' \in 1 .. MaximumFolds /\ inner' >= 2
      BY <1>0, <1>2, <1>3, <2>1, <2>3 DEF Detector!Least
    <2>5. T # {} BY <2>2 DEF Detector!BothIn, Detector!Of
    <2> HIDE DEF G, K, T
    <2>6. /\ model' \in [G -> SUBSET G]
          /\ \A g \in G : g \in Detector!FoldIn(G, fold) => model'[g] = T
          /\ \A g \in G : g \notin Detector!FoldIn(G, fold) => model'[g] = model[g]
      BY <1>3, <1>4, <2>1
    <2>7. Detector!TypeOK'
      BY <1>0, <1>1, <1>5, <1>6, <2>1, <2>4, <2>6 DEF Detector!TypeOK, Detector!Scored, G
    <2>8. \A g \in G : model'[g] # {} => g \notin model'[g] /\ (Detector!BothIn(model'[g]))
      BY <1>0, <1>4, <2>2, <2>6 DEF G
    <2>9. \A S : (labels' = labels) => Detector!BothIn(S)' = Detector!BothIn(S)
      BY <1>6
    <2>10. \A g \in G : Detector!BothIn(model[g])' = Detector!BothIn(model'[g])
      BY <1>1 DEF Detector!BothIn, Detector!Of
    <2>11. FitIsSound'
      <3>1. \A f \in 0 .. fold : Detector!OuterFits(f)
             /\ \A g \in Detector!FoldIn(G, f) : model'[g] # {}
        <4>1. ASSUME NEW f \in 0 .. fold PROVE Detector!OuterFits(f)
                /\ \A g \in Detector!FoldIn(G, f) : model'[g] # {}
          <5>0. \A g \in Detector!FoldIn(G, f) : g \in G BY DEF Detector!FoldIn
          <5>1. CASE f = fold BY <1>7, <2>5, <2>6, <5>0, <5>1
          <5>2. CASE f # fold
            <6>1. f \in 0 .. fold - 1 BY <1>3, <5>2
            <6>2. Detector!OuterFits(f) /\ \A g \in Detector!FoldIn(G, f) : model[g] # {}
              BY <1>0, <1>1, <6>1 DEF FitIsSound, G
            <6> QED BY <2>5, <2>6, <5>0, <6>2
          <5> QED BY <5>1, <5>2
        <4> QED BY <4>1
      <3>2. fold' - 1 = fold /\ fold' <= K BY <1>1, <1>2, <1>3
      <3>3. detectorSession' = "fit" BY <1>1, <2>1
      <3> QED BY <1>1, <1>6, <3>1, <3>2, <3>3 DEF FitIsSound, G, K
    <2> QED BY <1>6, <2>4, <2>7, <2>8, <2>10, <2>11 DEF DetectorInv, G
  <1>8. CASE ~Detector!OuterFits(fold)
    <2>1. detectorSession' = "raised" /\ model' = model /\ inner' = inner
      BY <1>8 DEF Detector!OuterFold
    <2> HIDE DEF G, K, T
    <2>2. Detector!TypeOK'
      BY <1>0, <1>1, <1>5, <1>6, <2>1 DEF Detector!TypeOK, Detector!Scored, G
    <2>3. FitIsSound' BY <1>5, <1>6, <1>8, <2>1 DEF FitIsSound, G
    <2> QED BY <1>0, <1>6, <2>1, <2>2, <2>3 DEF DetectorInv, G
  <1> QED BY <1>7, <1>8

(* The fit ends, one way or the other. *)
LEMMA FitEnds ==
  ASSUME DetectorInv, Detector!TooFew \/ Detector!FinalModel PROVE DetectorInv'
  <1> DEFINE G == Detector!Groups
  <1>0. /\ Detector!TypeOK /\ FitIsSound /\ inner >= 2
        /\ \A g \in G : model[g] # {} => g \notin model[g] /\ Detector!BothIn(model[g])
    BY DEF DetectorInv
  <1>1. /\ detectorSession = "fit" /\ UNCHANGED <<labels, fold, model, inner, trials>>
        /\ detectorSession' \in {"freeze", "raised"}
    BY DEF Detector!TooFew, Detector!FinalModel
  <1>2. Detector!TypeOK'
    <2>1. (Detector!Of(G, 0))' = Detector!Of(G, 0) /\ G' = G
      BY <1>1, DetectorFrame DEF Detector!Groups
    <2> QED BY <1>0, <1>1, <2>1 DEF Detector!TypeOK, Detector!Scored
  <1>3. /\ \A S : (Detector!BothIn(S))' = Detector!BothIn(S)
        /\ Detector!Enough(G)' = Detector!Enough(G) /\ FoldsOf(G)' = FoldsOf(G)
        /\ \A f : (Detector!OuterFits(f))' = Detector!OuterFits(f)
        /\ G' = G
    BY <1>1, DetectorFrame DEF FoldsOf, Detector!Groups
  <1>4. \A g \in G : Detector!BothIn(model[g])' = Detector!BothIn(model[g])
    BY <1>1 DEF Detector!BothIn, Detector!Of
  <1>5. FitIsSound'
    <2>1. CASE Detector!TooFew
      <3>1. ~Detector!Enough(G) /\ detectorSession' = "raised" BY <2>1 DEF Detector!TooFew
      <3> QED BY <1>3, <3>1 DEF FitIsSound
    <2>2. CASE Detector!FinalModel
      <3>1. /\ Detector!Enough(G) /\ fold = Detector!FoldCount(G)
            /\ detectorSession' = IF \A g \in G : model[g] # {} THEN "freeze" ELSE "raised"
        BY <2>2 DEF Detector!FinalModel, Detector!NoModel
      <3>2. \A f \in FoldsOf(G) : /\ Detector!OuterFits(f)
                                  /\ \A g \in Detector!FoldIn(G, f) : model[g] # {}
        BY <1>0, <1>1, <3>1 DEF FitIsSound, FoldsOf
      <3>3. ASSUME NEW g \in G PROVE model[g] # {}
        <4>1. Detector!FoldOf(G, g) \in FoldsOf(G) BY <3>1, FoldsAre
        <4>2. g \in Detector!FoldIn(G, Detector!FoldOf(G, g)) BY DEF Detector!FoldIn
        <4> QED BY <3>2, <4>1, <4>2
      <3>4. detectorSession' = "freeze" BY <3>1, <3>3
      <3> QED BY <1>1, <1>3, <3>1, <3>2, <3>3, <3>4 DEF FitIsSound
    <2> QED BY <2>1, <2>2
  <1> HIDE DEF G
  <1> QED BY <1>0, <1>1, <1>2, <1>3, <1>4, <1>5 DEF DetectorInv, G

(* A cluster is scored, the calibration frozen, or nothing happens. *)
LEMMA ScoringKeeps ==
  ASSUME DetectorInv,
         \/ Detector!ScoreCluster \/ Detector!Freeze \/ Detector!Done
         \/ UNCHANGED Detector!vars
  PROVE  DetectorInv'
  <1> DEFINE G == Detector!Groups
  <1>0. /\ Detector!TypeOK /\ FitIsSound /\ inner >= 2
        /\ \A g \in G : model[g] # {} => g \notin model[g] /\ Detector!BothIn(model[g])
    BY DEF DetectorInv
  <1>1. /\ UNCHANGED <<labels, fold, model, inner>>
        /\ \/ detectorSession' = detectorSession
           \/ detectorSession = "freeze" /\ detectorSession' = "done"
    BY DEF Detector!ScoreCluster, Detector!Freeze, Detector!Done, Detector!vars
  <1>2. DOMAIN trials' \subseteq Detector!Of(G, 0) /\ trials' \in [DOMAIN trials' -> Detector!Trials]
    <2>1. CASE Detector!ScoreCluster
      <3>0. PICK g \in Detector!Unscored, p \in 0 .. Levels, q \in 0 .. Levels,
                 a \in BOOLEAN, b \in BOOLEAN :
              /\ \A h \in Detector!Unscored : g <= h
              /\ LET u == Detector!Conservative(p, a)
                     v == Detector!Conservative(q, b)
                     t == IF u <= v THEN <<u, v>> ELSE <<v, u>>
                 IN trials' = [h \in Detector!Scored \cup {g} |-> IF h = g THEN t ELSE trials[h]]
        BY <2>1, Zenon DEF Detector!ScoreCluster
      <3>1. trials' = [h \in Detector!Scored \cup {g} |->
                         IF h = g
                         THEN IF Detector!Conservative(p, a) <= Detector!Conservative(q, b)
                              THEN <<Detector!Conservative(p, a), Detector!Conservative(q, b)>>
                              ELSE <<Detector!Conservative(q, b), Detector!Conservative(p, a)>>
                         ELSE trials[h]]
        BY <3>0, Zenon
      <3> DEFINE u == Detector!Conservative(p, a)
                 v == Detector!Conservative(q, b)
                 t == IF u <= v THEN <<u, v>> ELSE <<v, u>>
      <3>2. u \in 0 .. Levels /\ v \in 0 .. Levels
        BY DetectorConstants DEF Detector!Conservative
      <3>3. t \in Detector!Trials
        <4> HIDE DEF u, v
        <4> QED BY <3>2, DetectorConstants DEF Detector!Trials
      <3> HIDE DEF t
      <3>4. trials' = [h \in Detector!Scored \cup {g} |-> IF h = g THEN t ELSE trials[h]]
        BY <3>1 DEF t
      <3>5. g \in Detector!Of(G, 0) BY DEF Detector!Unscored
      <3>6. Detector!Scored \subseteq Detector!Of(G, 0)
            /\ trials \in [Detector!Scored -> Detector!Trials]
        BY <1>0 DEF Detector!TypeOK
      <3> QED BY <3>3, <3>4, <3>5, <3>6
    <2>2. CASE trials' = trials BY <1>0, <2>2 DEF Detector!TypeOK, Detector!Scored
    <2> QED BY <2>1, <2>2 DEF Detector!Freeze, Detector!Done, Detector!vars
  <1>3. /\ \A S : (Detector!BothIn(S))' = Detector!BothIn(S)
        /\ Detector!Enough(G)' = Detector!Enough(G) /\ FoldsOf(G)' = FoldsOf(G)
        /\ Detector!FoldCount(G)' = Detector!FoldCount(G)
        /\ \A f : (Detector!OuterFits(f))' = Detector!OuterFits(f)
        /\ \A f : Detector!FoldIn(G, f)' = Detector!FoldIn(G, f)
        /\ (Detector!Of(G, 0))' = Detector!Of(G, 0)
        /\ G' = G
    BY <1>1, DetectorFrame DEF FoldsOf, Detector!Groups
  <1>4. \A g \in G : Detector!BothIn(model[g])' = Detector!BothIn(model[g])
    BY <1>1 DEF Detector!BothIn, Detector!Of
  <1> HIDE DEF G
  <1>5. Detector!TypeOK'
    BY <1>0, <1>1, <1>2, <1>3 DEF Detector!TypeOK, Detector!Scored, G
  <1>6. FitIsSound' BY <1>0, <1>1, <1>3 DEF FitIsSound, G
  <1> QED BY <1>0, <1>1, <1>3, <1>4, <1>5, <1>6 DEF DetectorInv, G

LEMMA NextDetectorInv == DetectorInv /\ [Detector!Next]_(Detector!vars) => DetectorInv'
  BY OuterFoldKeeps, FitEnds, ScoringKeeps DEF Detector!Next

(* A finite set of numbers has a member with any smaller number of members   *)
(* below it.                                                                 *)
LEMMA MemberOfRank ==
  ASSUME NEW B \in SUBSET Nat, IsFiniteSet(B), NEW r \in Nat, r < Cardinality(B)
  PROVE  \E g \in B : Cardinality({h \in B : h < g}) = r
  <1> DEFINE Below(x) == {h \in B : h < x}
             T == {x \in Nat : Cardinality(Below(x)) > r}
  <1>1. \A x : IsFiniteSet(Below(x)) /\ Cardinality(Below(x)) \in Nat
    BY FS_Subset, FS_CardinalityType
  <1>2. T # {}
    <2>1. B # {} /\ B \in SUBSET Int
      <3>1. Cardinality({}) = 0 BY FS_EmptySet
      <3> QED BY <3>1
    <2>2. PICK m \in B : \A x \in B : x <= m BY <2>1, FiniteHasGreatest
    <2>3. Below(m + 1) = B
      <3>1. m \in Nat BY <2>2
      <3>2. ASSUME NEW x \in B PROVE x < m + 1
        <4>1. x \in Nat /\ x <= m BY <2>2
        <4> QED BY <3>1, <4>1
      <3> QED BY <3>2
    <2>4. m + 1 \in T BY <2>2, <2>3
    <2> QED BY <2>4
  <1>3. PICK x \in T : \A y \in T : x <= y
    <2>1. T \subseteq Nat OBVIOUS
    <2> HIDE DEF T
    <2> QED BY <1>2, <2>1, LeastNumber
  <1>4. x \in Nat /\ Cardinality(Below(x)) > r BY <1>3
  <1>5. x # 0
    <2>1. Below(0) = {}
      <3>1. ASSUME NEW h \in B PROVE ~(h < 0)
        <4>1. h \in Nat OBVIOUS
        <4> QED BY <4>1
      <3> QED BY <3>1
    <2>2. Cardinality({}) = 0 BY FS_EmptySet
    <2> QED BY <1>4, <2>1, <2>2
  <1>6. x - 1 \in Nat /\ x - 1 \notin T
    <2>1. x - 1 \in Nat BY <1>4, <1>5
    <2>2. ~(x <= x - 1) BY <1>4
    <2> HIDE DEF T
    <2> QED BY <1>3, <2>1, <2>2
  <1>7. Cardinality(Below(x - 1)) <= r BY <1>1, <1>6
  <1>8. Below(x) = Below(x - 1) \cup (IF x - 1 \in B THEN {x - 1} ELSE {})
    <2>1. \A h \in B : h < x <=> h < x - 1 \/ h = x - 1 BY <1>4
    <2> QED BY <2>1
  <1>9. x - 1 \in B
    <2>1. CASE x - 1 \notin B
      <3>1. Below(x) = Below(x - 1) BY <1>8, <2>1
      <3>2. Cardinality(Below(x)) = Cardinality(Below(x - 1)) BY <3>1
      <3> HIDE DEF Below
      <3> QED BY <1>1, <1>4, <1>7, <3>2
    <2> QED BY <2>1
  <1>10. x - 1 \notin Below(x - 1) BY <1>6
  <1>11. Below(x) = Below(x - 1) \cup {x - 1} BY <1>8, <1>9
  <1> HIDE DEF Below
  <1>12. Cardinality(Below(x)) = Cardinality(Below(x - 1)) + 1
    BY <1>1, <1>10, <1>11, FS_AddElement
  <1>13. Cardinality(Below(x - 1)) = r BY <1>1, <1>4, <1>7, <1>12
  <1> QED BY <1>9, <1>13 DEF Below

(* A finite set with two members has two at least. *)
LEMMA TwoMembers ==
  ASSUME NEW S, IsFiniteSet(S), NEW a \in S, NEW b \in S, a # b
  PROVE  Cardinality(S) >= 2
  <1>1. IsFiniteSet({}) /\ Cardinality({}) = 0 BY FS_EmptySet
  <1>2. IsFiniteSet({a}) /\ Cardinality({a}) = 1 BY FS_Singleton
  <1>3. {a} \cup {b} = {a, b} /\ b \notin {a} OBVIOUS
  <1>4. Cardinality({a} \cup {b}) = Cardinality({a}) + 1 BY <1>2, <1>3, FS_AddElement
  <1>5. {a, b} \subseteq S OBVIOUS
  <1>6. Cardinality({a, b}) <= Cardinality(S) BY <1>5, FS_Subset
  <1>7. Cardinality({a, b}) = 2 BY <1>2, <1>3, <1>4
  <1>8. Cardinality(S) \in Nat BY FS_CardinalityType
  <1> QED BY <1>6, <1>7, <1>8

(* Where every cluster has records without a watermark, those of both        *)
(* hypotheses are dealt out one to a fold, from the first.                   *)
NoneAlone == \A g \in Detector!Groups : labels[g] \in {{0}, {0, 1}}

LEMMA NoneAloneAre ==
  ASSUME NoneAlone, NEW S \in SUBSET Detector!Groups
  PROVE  /\ Detector!Of(S, 0) = S
         /\ Detector!Of(S, 1) = {g \in S : labels[g] = {0, 1}}
         /\ Detector!Of(S, 1) # {} => Detector!BothIn(S)
  <1>1. \A g \in S : 0 \in labels[g] BY DEF NoneAlone
  <1>2. \A g \in S : 1 \in labels[g] <=> labels[g] = {0, 1} BY DEF NoneAlone
  <1>3. Detector!Of(S, 0) = S BY <1>1 DEF Detector!Of
  <1>4. Detector!Of(S, 1) = {g \in S : labels[g] = {0, 1}} BY <1>2 DEF Detector!Of
  <1>5. Detector!Of(S, 1) \subseteq S BY <1>4
  <1> QED BY <1>3, <1>4, <1>5 DEF Detector!BothIn

LEMMA FoldsAreFilled ==
  ASSUME NoneAlone, NEW S \in SUBSET Detector!Groups, Detector!Enough(S),
         NEW f \in FoldsOf(S)
  PROVE  \E g \in Detector!Of(S, 1) : Detector!FoldOf(S, g) = f
  <1> DEFINE B == Detector!Of(S, 1)
  <1>1. /\ Detector!FoldCount(S) \in 2 .. MaximumFolds
        /\ Detector!FoldCount(S) <= Cardinality(B)
    BY FoldsAre
  <1>2. B \in SUBSET Nat /\ IsFiniteSet(B) /\ Cardinality(B) \in Nat
    BY HypothesesAreCounted, GroupsAre
  <1>3. f \in Nat /\ f < Cardinality(B) /\ f < Detector!FoldCount(S)
    BY <1>1, <1>2, DetectorConstants DEF FoldsOf
  <1>4. PICK g \in B : Cardinality({h \in B : h < g}) = f
    <2> HIDE DEF B
    <2> QED BY <1>2, <1>3, MemberOfRank
  <1>5. {h \in S : h < g /\ labels[h] = labels[g]} = {h \in B : h < g}
    <2>1. B = {h \in S : labels[h] = {0, 1}} BY NoneAloneAre
    <2>2. labels[g] = {0, 1} BY <1>4, <2>1
    <2> HIDE DEF B
    <2> QED BY <2>1, <2>2
  <1>6. Detector!FoldOf(S, g) = f % Detector!FoldCount(S)
    BY <1>4, <1>5, GroupsAre DEF Detector!FoldOf
  <1>7. f % Detector!FoldCount(S) = f BY <1>1, <1>3, DetectorConstants
  <1> QED BY <1>4, <1>6, <1>7

(* Three clusters of both hypotheses are then enough at either level. *)
LEMMA FoldsFit ==
  ASSUME NoneAlone, Cardinality(Detector!Of(Detector!Groups, 1)) >= 3
  PROVE  /\ Detector!Enough(Detector!Groups)
         /\ \A f \in FoldsOf(Detector!Groups) : Detector!OuterFits(f)
  <1> DEFINE G == Detector!Groups
             B == Detector!Of(G, 1)
  <1>0. G \in SUBSET Detector!Groups OBVIOUS
  <1>1. /\ Detector!Of(G, 0) = G /\ B \subseteq G
        /\ IsFiniteSet(G) /\ Cardinality(B) \in Nat /\ Cardinality(G) \in Nat
        /\ Detector!Cardinality(B) = Cardinality(B) /\ Detector!Cardinality(G) = Cardinality(G)
    BY <1>0, NoneAloneAre, HypothesesAreCounted, GroupsAre, FS_CardinalityType
  <1>2. Cardinality(B) <= Cardinality(G) BY <1>1, FS_Subset
  <1>3. Detector!Enough(G) BY <1>1, <1>2 DEF Detector!Enough
  <1>4. Detector!FoldCount(G) >= 3 /\ Detector!FoldCount(G) \in Nat
    BY <1>1, <1>2, DetectorConstants DEF Detector!FoldCount, Detector!Least
  <1>5. ASSUME NEW f \in FoldsOf(G) PROVE Detector!OuterFits(f)
    <2> DEFINE T == Detector!Training(G, f)
    <2>1. /\ T \in SUBSET G
          /\ \A g \in G : g \in T <=> Detector!FoldOf(G, g) # f
          /\ \A g : g \in Detector!FoldIn(G, f) <=> g \in G /\ Detector!FoldOf(G, g) = f
      BY TrainingIs
    <2>2. \A k \in FoldsOf(G) : \E g \in B : Detector!FoldOf(G, g) = k
      BY <1>3, FoldsAreFilled
    <2>3. Detector!FoldIn(G, f) # {} BY <1>1, <2>1, <2>2
    <2>4. PICK i \in FoldsOf(G), j \in FoldsOf(G) : i # j /\ i # f /\ j # f
      <3>1. 0 \in FoldsOf(G) /\ 1 \in FoldsOf(G) /\ 2 \in FoldsOf(G)
        BY <1>4 DEF FoldsOf
      <3> QED BY <3>1
    <2>5. PICK a \in B : Detector!FoldOf(G, a) = i BY <2>2, <2>4
    <2>6. PICK b \in B : Detector!FoldOf(G, b) = j BY <2>2, <2>4
    <2>7. a # b BY <2>4, <2>5, <2>6
    <2>8. a \in Detector!Of(T, 1) /\ b \in Detector!Of(T, 1)
      <3>1. a \in T /\ b \in T BY <1>1, <2>1, <2>4, <2>5, <2>6
      <3> QED BY <2>5, <2>6, <3>1 DEF Detector!Of
    <2>9. T \in SUBSET Detector!Groups BY <2>1
    <2> HIDE DEF T
    <2>10. Cardinality(Detector!Of(T, 1)) >= 2 /\ Cardinality(Detector!Of(T, 0)) >= 2
      <3>1. Detector!Of(T, 1) \subseteq T /\ Detector!Of(T, 0) = T
            /\ IsFiniteSet(Detector!Of(T, 1)) /\ IsFiniteSet(T)
        BY <2>9, NoneAloneAre, HypothesesAreCounted, GroupsAre, FS_Subset
      <3>2. Cardinality(Detector!Of(T, 1)) >= 2 BY <2>7, <2>8, <3>1, TwoMembers
      <3>3. Cardinality(T) >= 2 BY <2>7, <2>8, <3>1, TwoMembers
      <3> QED BY <3>1, <3>2, <3>3
    <2>11. Detector!Enough(T) BY <2>9, <2>10, HypothesesAreCounted DEF Detector!Enough
    <2>12. Detector!BothIn(T) BY <2>8, <2>9, NoneAloneAre
    <2>13. ASSUME NEW k \in FoldsOf(T) PROVE Detector!BothIn(Detector!Training(T, k))
      <3>1. Detector!FoldCount(T) \in 2 .. MaximumFolds BY <2>9, <2>11, FoldsAre
      <3>2. PICK m \in FoldsOf(T) : m # k
        <4>1. 0 \in FoldsOf(T) /\ 1 \in FoldsOf(T) BY <3>1, DetectorConstants DEF FoldsOf
        <4> QED BY <4>1
      <3>3. PICK g \in Detector!Of(T, 1) : Detector!FoldOf(T, g) = m
        BY <2>9, <2>11, FoldsAreFilled
      <3>4. g \in T BY <3>3 DEF Detector!Of
      <3>5. g \in Detector!Training(T, k) /\ Detector!Training(T, k) \in SUBSET Detector!Groups
        BY <2>9, <3>2, <3>3, <3>4, TrainingIs
      <3>6. g \in Detector!Of(Detector!Training(T, k), 1)
        BY <3>3, <3>5 DEF Detector!Of
      <3> QED BY <3>5, <3>6, NoneAloneAre
    <2>14. Detector!InnerFits(T) BY <2>11, <2>13 DEF Detector!InnerFits, FoldsOf
    <2> QED BY <2>3, <2>12, <2>14 DEF Detector!OuterFits, T
  <1> QED BY <1>3, <1>5

(* A fit that succeeds had three clusters of each hypothesis: one left out   *)
(* of a model, and two it was fitted on.                                     *)
LEMMA SuccessHolds == ASSUME DetectorInv PROVE Detector!SuccessIsAccepted
  <1> SUFFICES ASSUME detectorSession \in {"freeze", "done"}
      PROVE  /\ Detector!ArtifactAccepted
             /\ \A g \in Detector!Groups : Detector!BothIn(model[g])
             /\ Detector!Cardinality(Detector!Of(Detector!Groups, 0)) >= 3
             /\ Detector!Cardinality(Detector!Of(Detector!Groups, 1)) >= 3
    BY DEF Detector!SuccessIsAccepted
  <1> DEFINE G == Detector!Groups
  <1>0. G \in SUBSET Detector!Groups OBVIOUS
  <1>1. /\ Detector!Enough(G) /\ \A f \in FoldsOf(G) : Detector!OuterFits(f)
        /\ \A g \in G : model[g] # {} /\ Detector!BothIn(model[g])
        /\ inner >= 2
    BY DEF DetectorInv, FitIsSound
  <1>2. /\ Detector!FoldCount(G) >= 2 /\ Detector!FoldCount(G) \in Nat
        /\ \A g : Detector!FoldOf(G, g) \in FoldsOf(G)
    BY <1>1, FoldsAre, DetectorConstants
  <1>3. /\ Detector!Cardinality(Detector!Of(G, 0)) >= 2
        /\ Detector!Cardinality(Detector!Of(G, 1)) >= 2
    BY <1>1 DEF Detector!Enough
  <1>4. ASSUME NEW l \in {0, 1} PROVE Cardinality(Detector!Of(G, l)) >= 3
    <2>1. /\ IsFiniteSet(Detector!Of(G, l)) /\ Cardinality(Detector!Of(G, l)) \in Nat
          /\ Cardinality(Detector!Of(G, l)) >= 2 /\ Detector!Of(G, l) \in SUBSET G
      BY <1>3, HypothesesAreCounted
    <2>2. PICK g \in Detector!Of(G, l) : TRUE
      <3>1. Detector!Of(G, l) # {} BY <2>1, FS_EmptySet
      <3> QED BY <3>1
    <2> DEFINE T == Detector!Training(G, Detector!FoldOf(G, g))
    <2>3. T \in SUBSET G /\ g \notin T
      <3>1. g \in G BY <2>1, <2>2
      <3> QED BY <3>1, TrainingIs
    <2>4. Detector!Enough(T)
      BY <1>1, <1>2 DEF Detector!OuterFits, Detector!InnerFits
    <2> HIDE DEF T
    <2>5. Cardinality(Detector!Of(T, l)) >= 2 /\ Cardinality(Detector!Of(T, l)) \in Nat
      BY <2>3, <2>4, HypothesesAreCounted DEF Detector!Enough
    <2>6. Detector!Of(T, l) \in SUBSET (Detector!Of(G, l) \ {g})
      BY <2>3 DEF Detector!Of
    <2>7. /\ IsFiniteSet(Detector!Of(G, l) \ {g})
          /\ Cardinality(Detector!Of(G, l) \ {g}) = Cardinality(Detector!Of(G, l)) - 1
      BY <2>1, <2>2, FS_RemoveElement
    <2>8. Cardinality(Detector!Of(T, l)) <= Cardinality(Detector!Of(G, l) \ {g})
      BY <2>6, <2>7, FS_Subset
    <2> QED BY <2>1, <2>5, <2>7, <2>8
  <1>5. Clusters >= 2
    <2>1. /\ Detector!Of(G, 0) \in SUBSET G /\ IsFiniteSet(G) /\ Cardinality(G) = Clusters
          /\ Cardinality(Detector!Of(G, 0)) >= 2 /\ Cardinality(Detector!Of(G, 0)) \in Nat
      BY <1>3, HypothesesAreCounted, GroupsAre
    <2>2. Cardinality(Detector!Of(G, 0)) <= Cardinality(G) BY <2>1, FS_Subset
    <2> QED BY <2>1, <2>2, DetectorConstants
  <1>6. Detector!ArtifactAccepted BY <1>1, <1>2, <1>3, <1>5 DEF Detector!ArtifactAccepted
  <1>7. /\ Detector!Cardinality(Detector!Of(G, 0)) >= 3
        /\ Detector!Cardinality(Detector!Of(G, 1)) >= 3
    BY <1>4, HypothesesAreCounted
  <1> QED BY <1>1, <1>6, <1>7

(* A fit that raised had clusters that only a watermark marks, or too few.   *)
LEMMA ReplaysHold == ASSUME DetectorInv PROVE Detector!ReplayedVideosFit
  <1> SUFFICES ASSUME detectorSession = "raised",
                      \A g \in Detector!Groups : labels[g] # {1},
                      ~(Detector!Cardinality(Detector!Of(Detector!Groups, 1)) < 3)
      PROVE  FALSE
    BY DEF Detector!ReplayedVideosFit
  <1>1. Detector!TypeOK /\ FitIsSound BY DEF DetectorInv
  <1>2. labels \in [Detector!Groups -> {{0}, {1}, {0, 1}}] BY <1>1 DEF Detector!TypeOK
  <1>3. NoneAlone BY <1>2 DEF NoneAlone
  <1>4. Cardinality(Detector!Of(Detector!Groups, 1)) >= 3
    <2>1. Detector!Groups \in SUBSET Detector!Groups OBVIOUS
    <2> QED BY <2>1, HypothesesAreCounted
  <1>5. /\ Detector!Enough(Detector!Groups)
        /\ \A f \in FoldsOf(Detector!Groups) : Detector!OuterFits(f)
    BY <1>3, <1>4, FoldsFit
  <1> QED BY <1>1, <1>5 DEF FitIsSound

(* The target rate, one in so many, of a number of videos. *)
LEMMA ShareOfRate ==
  ASSUME NEW n \in Nat, NEW s \in Nat \ {0}, NEW c \in Nat
  PROVE  /\ c <= n \div s => c * s <= n
         /\ c > n \div s => c * s > n
  <1> DEFINE q == n \div s
             r == n % s
  <1>1. q \in Nat /\ r \in 0 .. s - 1 /\ n = s * q + r OBVIOUS
  <1> HIDE DEF q, r
  <1>2. \A a, b, k \in Nat : a <= b => a * k <= b * k OBVIOUS
  <1>3. s * q = q * s /\ (q + 1) * s = q * s + s BY <1>1
  <1>4. c <= q => c * s <= n
    <2> SUFFICES ASSUME c <= q PROVE c * s <= n OBVIOUS
    <2>1. c * s <= q * s BY <1>1, <1>2
    <2>2. c * s \in Nat /\ q * s \in Nat BY <1>1
    <2> QED BY <1>1, <1>3, <2>1, <2>2
  <1>5. c > q => c * s > n
    <2> SUFFICES ASSUME c > q PROVE c * s > n OBVIOUS
    <2>1. q + 1 <= c /\ q + 1 \in Nat BY <1>1
    <2>2. (q + 1) * s <= c * s BY <1>1, <1>2, <2>1
    <2>3. c * s \in Nat /\ q * s \in Nat BY <1>1
    <2> QED BY <1>1, <1>3, <2>2, <2>3
  <1> QED BY <1>4, <1>5 DEF q

(* The scores observed, and those a threshold may be. *)
LEMMA ScoresAre ==
  ASSUME DetectorInv
  PROVE  /\ IsFiniteSet(Detector!Scored) /\ Cardinality(Detector!Scored) \in Nat
         /\ Detector!Cardinality(Detector!Scored) = Cardinality(Detector!Scored)
         /\ Detector!Observed \in SUBSET Nat /\ IsFiniteSet(Detector!Observed)
         /\ \A g \in Detector!Scored : Detector!ClusterScore(trials[g]) \in Detector!Observed
         /\ \A v : Detector!AtLeast(v) \in Nat
         /\ Detector!Allowed \in Nat
         /\ Detector!Allowed = Cardinality(Detector!Scored) \div Share
  <1>1. Detector!Scored \subseteq Detector!Of(Detector!Groups, 0)
        /\ trials \in [Detector!Scored -> Detector!Trials]
    BY DEF DetectorInv, Detector!TypeOK
  <1>2. Detector!Scored \in SUBSET Detector!Groups BY <1>1 DEF Detector!Of
  <1>3. IsFiniteSet(Detector!Scored) /\ Cardinality(Detector!Scored) \in Nat
        /\ \A S : Detector!Cardinality(S) = Cardinality(S)
    BY <1>2, GroupsAre, FS_Subset, FS_CardinalityType
  <1>4. ASSUME NEW g \in Detector!Scored PROVE Detector!ClusterScore(trials[g]) \in 0 .. Levels
    <2>1. trials[g] \in Detector!Trials BY <1>1
    <2> QED BY <2>1 DEF Detector!Trials, Detector!ClusterScore
  <1>5. Detector!Observed \in SUBSET (0 .. Levels) BY <1>4 DEF Detector!Observed
  <1>6. IsFiniteSet(0 .. Levels) /\ 0 .. Levels \subseteq Nat
    BY DetectorConstants, FS_Interval
  <1>7. IsFiniteSet(Detector!Observed) BY <1>5, <1>6, FS_Subset
  <1>8. ASSUME NEW v PROVE Detector!AtLeast(v) \in Nat
    <2> DEFINE S == {g \in Detector!Scored : Detector!ClusterScore(trials[g]) >= v}
    <2>1. S \in SUBSET Detector!Scored OBVIOUS
    <2>2. Cardinality(S) \in Nat BY <1>3, <2>1, FS_Subset, FS_CardinalityType
    <2> QED BY <1>3, <2>2 DEF Detector!AtLeast
  <1>9. \A g \in Detector!Scored : Detector!ClusterScore(trials[g]) \in Detector!Observed
    BY DEF Detector!Observed
  <1>10. Detector!Allowed = Cardinality(Detector!Scored) \div Share
    BY <1>3 DEF Detector!Allowed
  <1>11. Detector!Allowed \in Nat BY <1>3, <1>10, DetectorConstants
  <1> QED BY <1>3, <1>5, <1>6, <1>7, <1>8, <1>9, <1>10, <1>11

(* The threshold is above every score, or the lowest of those that keep the  *)
(* rate; and a score below it does not keep it.                              *)
LEMMA ThresholdIs ==
  ASSUME DetectorInv, Detector!Scored # {}
  PROVE  /\ Detector!Threshold \in Nat
         /\ \/ \A v \in Detector!Observed : 2 * v < Detector!Threshold
            \/ \E c \in Detector!Observed :
                  Detector!Threshold = 2 * c /\ Detector!AtLeast(c) <= Detector!Allowed
         /\ \A v \in Detector!Observed :
               2 * v < Detector!Threshold => Detector!AtLeast(v) > Detector!Allowed
  <1>0. /\ IsFiniteSet(Detector!Scored)
        /\ Detector!Observed \in SUBSET Nat /\ IsFiniteSet(Detector!Observed)
        /\ \A v : Detector!AtLeast(v) \in Nat
        /\ Detector!Allowed \in Nat
        /\ \A g \in Detector!Scored : Detector!ClusterScore(trials[g]) \in Detector!Observed
    BY ScoresAre
  <1>1. Detector!Observed # {} BY <1>0
  <1>2. \A v \in Detector!Observed : v \in Nat BY <1>0
  <1>3. CASE Detector!Allowed = 0 \/ Detector!Candidates = {}
    <2>1. \E v \in Detector!Observed : \A w \in Detector!Observed : w <= v
      <3>1. Detector!Observed \in SUBSET Int BY <1>0
      <3> QED BY <1>0, <1>1, <3>1, FiniteHasGreatest
    <2>2. /\ Detector!Highest \in Detector!Observed
          /\ \A w \in Detector!Observed : w <= Detector!Highest
      BY <2>1 DEF Detector!Highest
    <2>3. Detector!Threshold = 2 * Detector!Highest + 1 BY <1>3 DEF Detector!Threshold
    <2>4. ASSUME NEW v \in Detector!Observed PROVE 2 * v < Detector!Threshold
      <3>1. v \in Nat /\ Detector!Highest \in Nat /\ v <= Detector!Highest BY <1>2, <2>2
      <3> QED BY <2>3, <3>1
    <2>5. ASSUME NEW v \in Detector!Observed PROVE Detector!AtLeast(v) > Detector!Allowed
      <3>1. CASE Detector!Candidates = {}
        <4>1. ~(Detector!AtLeast(v) <= Detector!Allowed) BY <3>1 DEF Detector!Candidates
        <4> QED BY <1>0, <4>1
      <3>2. CASE Detector!Allowed = 0
        <4> DEFINE S == {g \in Detector!Scored : Detector!ClusterScore(trials[g]) >= v}
        <4>1. PICK g \in Detector!Scored : v = Detector!ClusterScore(trials[g])
          BY DEF Detector!Observed
        <4>2. g \in S BY <1>2, <4>1
        <4>3. S \in SUBSET Detector!Scored OBVIOUS
        <4>4. IsFiniteSet(S) BY <1>0, <4>3, FS_Subset
        <4> HIDE DEF S
        <4>5. Cardinality(S) # 0 BY <4>2, <4>4, FS_EmptySet
        <4>6. Detector!AtLeast(v) = Cardinality(S) BY GroupsAre DEF Detector!AtLeast, S
        <4> QED BY <1>0, <3>2, <4>5, <4>6
      <3> QED BY <1>3, <3>1, <3>2
    <2>6. Detector!Threshold \in Nat BY <1>2, <2>2, <2>3
    <2> QED BY <2>4, <2>5, <2>6
  <1>4. CASE ~(Detector!Allowed = 0 \/ Detector!Candidates = {})
    <2> DEFINE c == CHOOSE v \in Detector!Candidates : \A w \in Detector!Candidates : v <= w
    <2>1. Detector!Candidates \subseteq Nat /\ Detector!Candidates # {}
      BY <1>0, <1>4 DEF Detector!Candidates
    <2>2. \E v \in Detector!Candidates : \A w \in Detector!Candidates : v <= w
      BY <2>1, LeastNumber
    <2>3. c \in Detector!Candidates /\ \A w \in Detector!Candidates : c <= w BY <2>2
    <2>4. Detector!Threshold = 2 * c BY <1>4 DEF Detector!Threshold
    <2> HIDE DEF c
    <2>5. c \in Detector!Observed /\ Detector!AtLeast(c) <= Detector!Allowed
      BY <2>3 DEF Detector!Candidates
    <2>6. ASSUME NEW v \in Detector!Observed, 2 * v < Detector!Threshold
          PROVE Detector!AtLeast(v) > Detector!Allowed
      <3>1. v \in Nat /\ c \in Nat BY <1>2, <2>5
      <3>2. ~(c <= v) BY <2>4, <2>6, <3>1
      <3>3. v \notin Detector!Candidates BY <2>3, <3>2
      <3>4. ~(Detector!AtLeast(v) <= Detector!Allowed) BY <3>3 DEF Detector!Candidates
      <3> QED BY <1>0, <3>4
    <2>7. Detector!Threshold \in Nat BY <1>2, <2>4, <2>5
    <2> QED BY <2>4, <2>5, <2>6, <2>7
  <1> QED BY <1>3, <1>4

LEMMA RateHolds == ASSUME DetectorInv PROVE Detector!RateIsOfVideos
  <1> DEFINE D == {g \in Detector!Scored : Detector!Detects(trials[g][2])}
             n == Cardinality(Detector!Scored)
  <1>0. /\ IsFiniteSet(Detector!Scored) /\ n \in Nat
        /\ Detector!Cardinality(Detector!Scored) = n
        /\ Detector!Observed \in SUBSET Nat
        /\ \A g \in Detector!Scored : Detector!ClusterScore(trials[g]) \in Detector!Observed
        /\ \A v : Detector!AtLeast(v) \in Nat
        /\ Detector!Allowed = n \div Share /\ Detector!Allowed \in Nat
    BY ScoresAre
  <1>1. Detector!Cardinality(D) = Cardinality(D) /\ Share \in Nat \ {0}
    BY GroupsAre, DetectorConstants
  <1>2. \A g \in Detector!Scored : trials[g][2] \in Nat
    BY <1>0 DEF Detector!ClusterScore
  <1>3. Cardinality(D) * Share <= n
    <2>1. CASE D = {}
      <3>1. Cardinality(D) = 0 BY <2>1, FS_EmptySet
      <3>2. 0 * Share = 0 BY <1>1
      <3> HIDE DEF D, n
      <3> QED BY <1>0, <3>1, <3>2
    <2>2. CASE D # {}
      <3>1. Detector!Scored # {} BY <2>2
      <3>2. PICK g \in D : TRUE BY <2>2
      <3>3. ~(2 * trials[g][2] < Detector!Threshold) /\ trials[g][2] \in Detector!Observed
        <4>0. 2 * trials[g][2] >= Detector!Threshold /\ g \in Detector!Scored
          BY <3>2 DEF Detector!Detects
        <4>1. trials[g][2] \in Detector!Observed BY <1>0, <4>0 DEF Detector!ClusterScore
        <4>2. Detector!Threshold \in Nat BY <3>1, ThresholdIs
        <4>3. trials[g][2] \in Nat BY <1>2, <4>0
        <4> QED BY <4>0, <4>1, <4>2, <4>3
      <3>4. PICK c \in Detector!Observed :
                Detector!Threshold = 2 * c /\ Detector!AtLeast(c) <= Detector!Allowed
        BY <3>1, <3>3, ThresholdIs
      <3>5. D = {h \in Detector!Scored : Detector!ClusterScore(trials[h]) >= c}
        <4>1. c \in Nat BY <1>0, <3>4
        <4>2. ASSUME NEW h \in Detector!Scored
              PROVE Detector!Detects(trials[h][2]) <=> Detector!ClusterScore(trials[h]) >= c
          <5>1. trials[h][2] \in Nat BY <1>2
          <5> QED BY <3>4, <4>1, <5>1 DEF Detector!Detects, Detector!ClusterScore
        <4> QED BY <4>2
      <3>6. Cardinality(D) = Detector!AtLeast(c) BY <3>5, GroupsAre DEF Detector!AtLeast
      <3> HIDE DEF D, n
      <3>7. Cardinality(D) \in Nat /\ Cardinality(D) <= n \div Share BY <1>0, <3>4, <3>6
      <3> QED BY <1>0, <1>1, <3>7, ShareOfRate
    <2> QED BY <2>1, <2>2
  <1> QED BY <1>0, <1>1, <1>3 DEF Detector!RateIsOfVideos

LEMMA LowestHolds == ASSUME DetectorInv PROVE Detector!ThresholdIsLowest
  <1> SUFFICES ASSUME NEW v \in Detector!Observed, 2 * v < Detector!Threshold
      PROVE  Detector!AtLeast(v) * Share > Detector!Cardinality(Detector!Scored)
    BY DEF Detector!ThresholdIsLowest
  <1>1. Detector!Scored # {} BY DEF Detector!Observed
  <1>2. Detector!AtLeast(v) > Detector!Allowed BY <1>1, ThresholdIs
  <1>3. /\ Cardinality(Detector!Scored) \in Nat
        /\ Detector!Cardinality(Detector!Scored) = Cardinality(Detector!Scored)
        /\ Detector!AtLeast(v) \in Nat
        /\ Detector!Allowed = Cardinality(Detector!Scored) \div Share
    BY ScoresAre
  <1> QED BY <1>2, <1>3, DetectorConstants, ShareOfRate

LEMMA DetectorIsAsPromised ==
  DetectorInv => /\ Detector!TypeOK
                 /\ Detector!ScoresAreHeldOut
                 /\ Detector!SuccessIsAccepted
                 /\ Detector!ReplayedVideosFit
                 /\ Detector!RateIsOfVideos
                 /\ Detector!ThresholdIsLowest
  <1> SUFFICES ASSUME DetectorInv
      PROVE  /\ Detector!TypeOK
             /\ Detector!ScoresAreHeldOut
             /\ Detector!SuccessIsAccepted
             /\ Detector!ReplayedVideosFit
             /\ Detector!RateIsOfVideos
             /\ Detector!ThresholdIsLowest
    OBVIOUS
  <1>1. Detector!TypeOK BY DEF DetectorInv
  <1>2. Detector!ScoresAreHeldOut BY DEF DetectorInv, Detector!ScoresAreHeldOut
  <1> QED BY <1>1, <1>2, SuccessHolds, ReplaysHold, RateHolds, LowestHolds

-----------------------------------------------------------------------------
(* The comparison.  What is calibrated is what the calibration read, and a   *)
(* notebook that has come so far has written what its stages so far make of  *)
(* the upstream results.                                                     *)

FileOf(m) ==
    IF m = Sstw THEN Fairness!Formal(upstream.detection) ELSE upstream.official[m]

CalibratedFrom(recs, gen) ==
    [m \in Fairness!Methods |-> Fairness!CalibratedMethodRecord(recs[m], gen)]

FilesAreScores ==
    /\ scores = [m \in Fairness!Methods |-> scores[m]]
    /\ \A m \in Fairness!Methods : Fairness!IsScoreFile(scores[m])
    /\ \A m \in Fairness!Methods : Fairness!IsScoreFile(basis.scores[m])
    /\ basis.generation \in BOOLEAN

StagesAreFresh ==
    /\ notebook = "comparison" =>
         /\ pc \in 1 .. 6
         /\ pc >= 2 => scores[Sstw] = FileOf(Sstw)
         /\ pc >= 3 => \A m \in Fairness!Methods : scores[m] = FileOf(m)
         /\ pc >= 4 => fair = CalibratedFrom(scores, upstream.generation)
         /\ pc >= 5 => comparison = Fairness!Compared(fair)
         /\ pc >= 6 => difference = Fairness!Differences(fair)
    /\ notebook = "evidence" => pc \in 1 .. 3
    /\ notebook = "none" => pc = 0

FairnessInv ==
    /\ Fairness!TypeOK /\ FilesAreScores /\ StagesAreFresh
    /\ DOMAIN fair # {} => fair = CalibratedFrom(basis.scores, basis.generation)

LEMMA ComparisonConstants ==
  /\ Sstw \notin Baselines /\ IsFiniteSet(Cells)
  /\ Split \in [Cells -> Fairness!Splits]
  /\ TargetNum \in Nat /\ TargetDen \in Nat \ {0}
  /\ {MinClean, MinCalibration, MinHeldout, MinPositive} \subseteq Nat
  /\ \A x \in Measurements :
       /\ Fairness!IsScoreFile(x.detection) /\ x.generation \in BOOLEAN
       /\ \A b \in Baselines : Fairness!IsScoreFile(x.official[b])
  <1>1. Fairness!IsFiniteSet(Cells) = IsFiniteSet(Cells)
    BY DEF Fairness!IsFiniteSet, IsFiniteSet
  <1> QED BY <1>1, InstancesAssumption DEF Fairness!ComparisonAssumption

LEMMA FairnessProjects == [SomeStep]_allVars => [Fairness!Next]_(Fairness!vars)
  <1> SUFFICES ASSUME [SomeStep]_allVars PROVE [Fairness!Next]_(Fairness!vars)
    OBVIOUS
  <1> USE DEF fairnessVars, Fairness!vars, Fairness!outputs
  <1>1. CASE FairnessStep BY <1>1 DEF FairnessStep
  <1>2. CASE Rest /\ program # "fairness" BY <1>2 DEF Rest
  <1>3. CASE UNCHANGED allVars BY <1>3 DEF allVars
  <1> QED
    BY <1>1, <1>2, <1>3
    DEF SomeStep, GatesStep, ChainStep, FlowStep, AdaptiveStep, SearchStep, DetectorStep,
        MotionStep

(* No rows, and the formal ones among the rows of a score file, are those of *)
(* a score file.                                                             *)
LEMMA NoRowsAreScores == Fairness!IsScoreFile(<<>>)
  <1>1. DOMAIN <<>> = {} OBVIOUS
  <1>2. Fairness!IsFiniteSet({})
    <2>1. IsFiniteSet({}) BY FS_EmptySet
    <2> QED BY <2>1 DEF Fairness!IsFiniteSet, IsFiniteSet
  <1> QED BY <1>1, <1>2 DEF Fairness!IsScoreFile

LEMMA FormalRowsAreScores ==
  ASSUME NEW recs, Fairness!IsScoreFile(recs) PROVE Fairness!IsScoreFile(Fairness!Formal(recs))
  <1> DEFINE F == Fairness!Formal(recs)
  <1>1. DOMAIN F \in SUBSET DOMAIN recs /\ \A i \in DOMAIN F : F[i] = recs[i]
    BY DEF Fairness!Formal
  <1> HIDE DEF F
  <1>2. Fairness!IsFiniteSet(DOMAIN F)
    <2>1. \A S : Fairness!IsFiniteSet(S) = IsFiniteSet(S)
      BY DEF Fairness!IsFiniteSet, IsFiniteSet
    <2>2. IsFiniteSet(DOMAIN recs) BY <2>1 DEF Fairness!IsScoreFile
    <2>3. IsFiniteSet(DOMAIN F) BY <1>1, <2>2, FS_Subset
    <2> QED BY <2>1, <2>3
  <1>3. DOMAIN F \subseteq Nat BY <1>1 DEF Fairness!IsScoreFile
  <1>0. PICK origin \in {Split, [c \in Cells |-> ""]} :
           \A i \in DOMAIN recs : recs[i].split = origin[recs[i].cell]
    BY DEF Fairness!IsScoreFile
  <1>4. \A i \in DOMAIN F :
          /\ F[i].cell \in Cells /\ F[i].formal \in BOOLEAN
          /\ {F[i].score, F[i].clean} \subseteq Nat \cup {Fairness!NoScore}
    <2>1. \A i \in DOMAIN recs :
             /\ recs[i].cell \in Cells /\ recs[i].formal \in BOOLEAN
             /\ {recs[i].score, recs[i].clean} \subseteq Nat \cup {Fairness!NoScore}
      BY DEF Fairness!IsScoreFile
    <2> QED BY <1>1, <2>1
  <1>5. \E s \in {Split, [c \in Cells |-> ""]} :
           \A i \in DOMAIN F : F[i].split = s[F[i].cell]
    BY <1>0, <1>1
  <1>6. \A i, j \in DOMAIN F :
           /\ F[i].cell = F[j].cell /\ F[i].unit = F[j].unit
           /\ Fairness!NoScore \notin {F[i].clean, F[j].clean}
           => F[i].clean = F[j].clean
    <2>1. \A i, j \in DOMAIN recs :
             /\ recs[i].cell = recs[j].cell /\ recs[i].unit = recs[j].unit
             /\ Fairness!NoScore \notin {recs[i].clean, recs[j].clean}
             => recs[i].clean = recs[j].clean
      BY DEF Fairness!IsScoreFile
    <2>2. ASSUME NEW i \in DOMAIN F, NEW j \in DOMAIN F,
                 F[i].cell = F[j].cell /\ F[i].unit = F[j].unit,
                 Fairness!NoScore \notin {F[i].clean, F[j].clean}
          PROVE  F[i].clean = F[j].clean
      <3>1. F[i] = recs[i] /\ F[j] = recs[j] /\ i \in DOMAIN recs /\ j \in DOMAIN recs
        BY <1>1
      <3>2. recs[i].cell = recs[j].cell /\ recs[i].unit = recs[j].unit
            /\ Fairness!NoScore \notin {recs[i].clean, recs[j].clean}
        BY <2>2, <3>1
      <3>3. recs[i].clean = recs[j].clean BY <2>1, <3>1, <3>2
      <3> QED BY <3>1, <3>3
    <2> QED BY <2>2
  <1> QED BY <1>2, <1>3, <1>4, <1>5, <1>6 DEF Fairness!IsScoreFile, F

(* What the upstream notebooks left is a score file for every method. *)
LEMMA UpstreamIsScores ==
  ASSUME Fairness!TypeOK
  PROVE  /\ Fairness!IsScoreFile(FileOf(Sstw))
         /\ \A m \in Fairness!Methods : Fairness!IsScoreFile(FileOf(m))
         /\ upstream.generation \in BOOLEAN
  <1>1. upstream \in Measurements BY DEF Fairness!TypeOK
  <1>2. Fairness!IsScoreFile(FileOf(Sstw))
    BY <1>1, ComparisonConstants, FormalRowsAreScores DEF FileOf
  <1>3. \A m \in Baselines : Fairness!IsScoreFile(FileOf(m))
    BY <1>1, ComparisonConstants DEF FileOf
  <1> QED BY <1>1, <1>2, <1>3, ComparisonConstants DEF Fairness!Methods

LEMMA FairnessStarts == Start => FairnessInv
  <1> SUFFICES ASSUME Start PROVE FairnessInv
    OBVIOUS
  <1>1. Fairness!Init BY DEF Start
  <1>2. /\ upstream \in Measurements
        /\ scores = [m \in Fairness!Methods |-> <<>>] /\ fair = [m \in {} |-> <<>>]
        /\ notebook = "none" /\ pc = 0
        /\ comparison = [decision |-> "missing"] /\ difference = [decision |-> "missing"]
        /\ confidence = [decision |-> "missing"] /\ lowFpr = [decision |-> "missing"]
        /\ basis = [scores |-> [m \in Fairness!Methods |-> <<>>], generation |-> FALSE]
    BY <1>1 DEF Fairness!Init, Fairness!NoRecords, Fairness!NoFair, Fairness!NoFile
  <1>3. DOMAIN scores = Fairness!Methods /\ DOMAIN fair = {} BY <1>2
  <1>4. Fairness!TypeOK BY <1>2, <1>3 DEF Fairness!TypeOK, Fairness!Decisions
  <1>5. FilesAreScores
    <2>1. \A m \in Fairness!Methods : scores[m] = <<>> /\ basis.scores[m] = <<>>
      BY <1>2
    <2>2. basis.generation \in BOOLEAN BY <1>2
    <2>3. scores = [m \in Fairness!Methods |-> scores[m]] BY <1>2
    <2> QED BY <2>1, <2>2, <2>3, NoRowsAreScores DEF FilesAreScores
  <1>6. StagesAreFresh BY <1>2 DEF StagesAreFresh
  <1> QED BY <1>3, <1>4, <1>5, <1>6 DEF FairnessInv

(* Where a notebook is. *)
LEMMA StageIs ==
  ASSUME NEW s, Fairness!At(s), Fairness!TypeOK, StagesAreFresh
  PROVE  \/ notebook = "comparison" /\ pc \in 1 .. 5
              /\ s = <<"sstw", "external", "calibrate", "compare", "difference">>[pc]
         \/ notebook = "evidence" /\ pc \in 1 .. 2 /\ s = <<"confidence", "lowfpr">>[pc]
  <1>1. notebook \in {"comparison", "evidence"} /\ pc \in 0 .. 6
    BY DEF Fairness!At, Fairness!TypeOK, Fairness!Plan
  <1>0. (notebook = "comparison" => pc \in 1 .. 6) /\ (notebook = "evidence" => pc \in 1 .. 3)
    BY DEF StagesAreFresh
  <1>2. CASE notebook = "comparison"
    <2>1. Fairness!Plan[notebook] = <<"sstw", "external", "calibrate", "compare", "difference">>
      BY <1>2 DEF Fairness!Plan
    <2> QED BY <1>0, <1>1, <1>2, <2>1 DEF Fairness!At
  <1>3. CASE notebook = "evidence"
    <2>1. Fairness!Plan[notebook] = <<"confidence", "lowfpr">> BY <1>3 DEF Fairness!Plan
    <2> QED BY <1>0, <1>1, <1>3, <2>1 DEF Fairness!At
  <1> QED BY <1>1, <1>2, <1>3

(* What is made of the same scores and of the same split is the same. *)
LEMMA ComparisonFrame ==
  /\ upstream' = upstream => \A m : FileOf(m)' = FileOf(m)
  /\ \A recs, gen : CalibratedFrom(recs, gen)' = CalibratedFrom(recs, gen)
  /\ fair' = fair => /\ Fairness!Compared(fair)' = Fairness!Compared(fair)
                     /\ Fairness!Differences(fair)' = Fairness!Differences(fair)
  BY DEF FileOf

(* Between two runs of a notebook. *)
LEMMA BetweenKeeps ==
  ASSUME FairnessInv,
         \/ Fairness!Remeasure \/ Fairness!StartNotebook \/ Fairness!EndNotebook
         \/ Fairness!Disconnect
  PROVE  FairnessInv'
  <1> USE DEF Fairness!outputs
  <1>1. /\ scores' = scores /\ fair' = fair /\ comparison' = comparison
        /\ difference' = difference /\ confidence' = confidence /\ lowFpr' = lowFpr
        /\ basis' = basis
        /\ upstream' \in Measurements
        /\ \/ notebook' = "none" /\ pc' = 0
           \/ notebook' \in {"comparison", "evidence"} /\ pc' = 1
    <2>1. upstream \in Measurements BY DEF FairnessInv, Fairness!TypeOK
    <2>2. Fairness!Remeasure => notebook' = "none" /\ pc' = pc BY DEF Fairness!Remeasure
    <2>3. notebook = "none" => pc = 0 BY DEF FairnessInv, StagesAreFresh
    <2>4. Fairness!StartNotebook => notebook' \in {"comparison", "evidence"} /\ pc' = 1
      BY DEF Fairness!StartNotebook, Fairness!Plan
    <2> QED
      BY <2>1, <2>2, <2>3, <2>4
      DEF Fairness!Remeasure, Fairness!StartNotebook, Fairness!EndNotebook,
          Fairness!Disconnect
  <1>2. Fairness!TypeOK'
    BY <1>1 DEF FairnessInv, Fairness!TypeOK, Fairness!Decisions, Fairness!Plan
  <1>3. FilesAreScores' BY <1>1 DEF FairnessInv, FilesAreScores
  <1>4. StagesAreFresh' BY <1>1 DEF StagesAreFresh
  <1> QED BY <1>1, <1>2, <1>3, <1>4 DEF FairnessInv, CalibratedFrom

(* The scores of SSTW, and then those of the baselines, are written. *)
LEMMA CollectKeeps ==
  ASSUME FairnessInv, Fairness!ConvertSstw \/ Fairness!CollectExternal PROVE FairnessInv'
  <1> USE DEF Fairness!outputs
  <1> DEFINE M == Fairness!Methods
  <1>0. Fairness!TypeOK /\ FilesAreScores /\ StagesAreFresh BY DEF FairnessInv
  <1>1. /\ upstream' = upstream /\ fair' = fair /\ comparison' = comparison
        /\ difference' = difference /\ confidence' = confidence /\ lowFpr' = lowFpr
        /\ basis' = basis /\ notebook' = notebook /\ pc' = pc + 1
    BY DEF Fairness!ConvertSstw, Fairness!CollectExternal, Fairness!Advance
  <1>2. /\ notebook = "comparison"
        /\ scores' = [m \in M |-> scores'[m]]
        /\ \/ pc = 1 /\ \A m \in M : scores'[m] = IF m = Sstw THEN FileOf(Sstw) ELSE scores[m]
           \/ pc = 2 /\ \A m \in M : scores'[m] = FileOf(m)
    <2>1. CASE Fairness!ConvertSstw
      <3>1. notebook = "comparison" /\ pc = 1
        BY <1>0, <2>1, StageIs DEF Fairness!ConvertSstw
      <3>2. scores' = [scores EXCEPT ![Sstw] = Fairness!Formal(upstream.detection)]
        BY <2>1 DEF Fairness!ConvertSstw
      <3>3. scores = [m \in M |-> scores[m]] BY <1>0 DEF FilesAreScores
      <3> QED BY <3>1, <3>2, <3>3 DEF FileOf
    <2>2. CASE Fairness!CollectExternal
      <3>1. notebook = "comparison" /\ pc = 2
        BY <1>0, <2>2, StageIs DEF Fairness!CollectExternal
      <3>2. scores' = [m \in M |-> IF m = Sstw THEN scores[Sstw] ELSE upstream.official[m]]
        BY <2>2 DEF Fairness!CollectExternal
      <3>3. scores[Sstw] = FileOf(Sstw) BY <1>0, <3>1 DEF StagesAreFresh
      <3> QED BY <3>1, <3>2, <3>3 DEF FileOf
    <2> QED BY <2>1, <2>2
  <1>3. /\ \A m \in M : Fairness!IsScoreFile(FileOf(m))
        /\ Sstw \in M
    BY <1>0, UpstreamIsScores DEF Fairness!Methods
  <1>4. \A m : FileOf(m)' = FileOf(m) BY <1>1 DEF FileOf
  <1>5. M' = M BY DEF Fairness!Methods
  <1> HIDE DEF M
  <1>6. Fairness!TypeOK'
    <2>1. DOMAIN scores' = M BY <1>2
    <2>2. pc' \in 0 .. 6 BY <1>1, <1>2
    <2> QED BY <1>0, <1>1, <2>1, <2>2 DEF Fairness!TypeOK, Fairness!Decisions, M
  <1>7. FilesAreScores'
    <2>1. \A m \in M : Fairness!IsScoreFile(scores'[m]) BY <1>0, <1>2, <1>3 DEF FilesAreScores, M
    <2> QED BY <1>0, <1>1, <1>2, <2>1 DEF FilesAreScores, M
  <1>8. StagesAreFresh'
    <2>1. /\ pc' \in {2, 3} /\ notebook' = "comparison" /\ scores'[Sstw] = FileOf(Sstw)
          /\ pc' = 3 => \A m \in M : scores'[m] = FileOf(m)
      BY <1>1, <1>2, <1>3
    <2> QED BY <1>4, <2>1 DEF StagesAreFresh, M
  <1> QED BY <1>0, <1>1, <1>6, <1>7, <1>8 DEF FairnessInv, CalibratedFrom

(* Every method is calibrated. *)
LEMMA CalibrateKeeps == ASSUME FairnessInv, Fairness!Calibrate PROVE FairnessInv'
  <1> USE DEF Fairness!outputs
  <1>0. Fairness!TypeOK /\ FilesAreScores /\ StagesAreFresh BY DEF FairnessInv
  <1>1. /\ upstream' = upstream /\ scores' = scores /\ comparison' = comparison
        /\ difference' = difference /\ confidence' = confidence /\ lowFpr' = lowFpr
        /\ notebook' = notebook /\ pc' = pc + 1
        /\ basis' = [scores |-> scores, generation |-> upstream.generation]
        /\ fair' = CalibratedFrom(scores, upstream.generation)
    BY DEF Fairness!Calibrate, Fairness!Advance, CalibratedFrom
  <1>2. notebook = "comparison" /\ pc = 3
    BY <1>0, StageIs DEF Fairness!Calibrate
  <1>3. basis'.scores = scores /\ basis'.generation = upstream.generation BY <1>1
  <1>4. DOMAIN fair' = Fairness!Methods BY <1>1 DEF CalibratedFrom
  <1>5. Fairness!TypeOK'
    BY <1>0, <1>1, <1>2, <1>4 DEF Fairness!TypeOK, Fairness!Decisions
  <1>6. FilesAreScores' BY <1>0, <1>1, <1>3, UpstreamIsScores DEF FilesAreScores
  <1>7. StagesAreFresh' BY <1>0, <1>1, <1>2, ComparisonFrame DEF StagesAreFresh
  <1>8. fair' = CalibratedFrom(basis.scores, basis.generation)'
    <2>1. CalibratedFrom(basis.scores, basis.generation)'
            = CalibratedFrom(basis'.scores, basis'.generation)
      BY DEF CalibratedFrom
    <2> QED BY <1>1, <1>3, <2>1
  <1> QED BY <1>5, <1>6, <1>7, <1>8 DEF FairnessInv

(* A stage reads the calibration and writes its own file, or raises. *)
LEMMA ReportsKeep ==
  ASSUME FairnessInv,
         \/ Fairness!Compare \/ Fairness!Subtract \/ Fairness!Estimate
         \/ Fairness!StateLowFpr
  PROVE  FairnessInv'
  <1> USE DEF Fairness!outputs
  <1>0. Fairness!TypeOK /\ FilesAreScores /\ StagesAreFresh BY DEF FairnessInv
  <1>1. upstream' = upstream /\ scores' = scores /\ fair' = fair /\ basis' = basis
    BY DEF Fairness!Compare, Fairness!Subtract, Fairness!Estimate, Fairness!StateLowFpr
  <1>2. FilesAreScores' BY <1>0, <1>1 DEF FilesAreScores
  <1>3. (DOMAIN fair # {} => fair = CalibratedFrom(basis.scores, basis.generation))'
    BY <1>1, ComparisonFrame DEF FairnessInv, CalibratedFrom
  <1>4. Fairness!TypeOK' /\ StagesAreFresh'
    <2>1. CASE Fairness!Compare
      <3>1. /\ comparison' = Fairness!Compared(fair) /\ difference' = difference
            /\ confidence' = confidence /\ lowFpr' = lowFpr
            /\ notebook' = notebook /\ pc' = pc + 1
        BY <2>1 DEF Fairness!Compare, Fairness!Advance
      <3>2. notebook = "comparison" /\ pc = 4
        BY <1>0, <2>1, StageIs DEF Fairness!Compare
      <3>3. comparison'.decision \in {"PASS", "FAIL"} BY <3>1 DEF Fairness!Compared
      <3>4. Fairness!TypeOK'
        BY <1>0, <1>1, <3>1, <3>2, <3>3 DEF Fairness!TypeOK, Fairness!Decisions
      <3>5. StagesAreFresh' BY <1>0, <1>1, <3>1, <3>2, ComparisonFrame DEF StagesAreFresh
      <3> QED BY <3>4, <3>5
    <2>2. CASE Fairness!Subtract
      <3>1. /\ difference' = Fairness!Differences(fair) /\ comparison' = comparison
            /\ confidence' = confidence /\ lowFpr' = lowFpr
            /\ notebook' = notebook /\ pc' = pc + 1
        BY <2>2 DEF Fairness!Subtract, Fairness!Advance
      <3>2. notebook = "comparison" /\ pc = 5
        BY <1>0, <2>2, StageIs DEF Fairness!Subtract
      <3>3. difference'.decision \in {"PASS", "FAIL"} BY <3>1 DEF Fairness!Differences
      <3>4. Fairness!TypeOK'
        BY <1>0, <1>1, <3>1, <3>2, <3>3 DEF Fairness!TypeOK, Fairness!Decisions
      <3>5. StagesAreFresh' BY <1>0, <1>1, <3>1, <3>2, ComparisonFrame DEF StagesAreFresh
      <3> QED BY <3>4, <3>5
    <2>3. CASE Fairness!Estimate
      <3>1. /\ comparison' = comparison /\ difference' = difference /\ lowFpr' = lowFpr
            /\ \/ notebook' = "none" /\ pc' = 0 /\ confidence' = confidence
               \/ /\ confidence' = Fairness!ConfidenceOf(fair)
                  /\ notebook' = notebook /\ pc' = pc + 1
        BY <2>3 DEF Fairness!Estimate, Fairness!Advance
      <3>2. notebook = "evidence" /\ pc = 1
        BY <1>0, <2>3, StageIs DEF Fairness!Estimate
      <3>3. Fairness!ConfidenceOf(fair).decision \in {"PASS", "FAIL"}
        BY DEF Fairness!ConfidenceOf
      <3>4. Fairness!TypeOK'
        BY <1>0, <1>1, <3>1, <3>2, <3>3 DEF Fairness!TypeOK, Fairness!Decisions
      <3>5. StagesAreFresh' BY <3>1, <3>2 DEF StagesAreFresh
      <3> QED BY <3>4, <3>5
    <2>4. CASE Fairness!StateLowFpr
      <3>1. /\ comparison' = comparison /\ difference' = difference
            /\ confidence' = confidence
            /\ lowFpr' = Fairness!LowFprOf(fair, upstream.generation)
            /\ notebook' = notebook /\ pc' = pc + 1
        BY <2>4 DEF Fairness!StateLowFpr, Fairness!Advance
      <3>2. notebook = "evidence" /\ pc = 2
        BY <1>0, <2>4, StageIs DEF Fairness!StateLowFpr
      <3>3. lowFpr'.decision = "PASS" BY <3>1 DEF Fairness!LowFprOf
      <3>4. Fairness!TypeOK'
        BY <1>0, <1>1, <3>1, <3>2, <3>3 DEF Fairness!TypeOK, Fairness!Decisions
      <3>5. StagesAreFresh' BY <3>1, <3>2 DEF StagesAreFresh
      <3> QED BY <3>4, <3>5
    <2> QED BY <2>1, <2>2, <2>3, <2>4
  <1> QED BY <1>2, <1>3, <1>4 DEF FairnessInv

LEMMA NextFairnessInv == FairnessInv /\ [Fairness!Next]_(Fairness!vars) => FairnessInv'
  <1> SUFFICES ASSUME FairnessInv, [Fairness!Next]_(Fairness!vars) PROVE FairnessInv'
    OBVIOUS
  <1>1. CASE UNCHANGED Fairness!vars
    BY <1>1
    DEF Fairness!vars, Fairness!outputs, FairnessInv, Fairness!TypeOK, FilesAreScores,
        StagesAreFresh, CalibratedFrom, FileOf
  <1> QED
    BY <1>1, BetweenKeeps, CollectKeeps, CalibrateKeeps, ReportsKeep DEF Fairness!Next

(* The values of a function on a finite set are finitely many. *)
LEMMA ValuesAreFinite ==
  ASSUME NEW f, IsFiniteSet(DOMAIN f) PROVE IsFiniteSet({f[x] : x \in DOMAIN f})
  <1> DEFINE T == {f[x] : x \in DOMAIN f}
             g == [x \in DOMAIN f |-> f[x]]
  <1>1. g \in Surjection(DOMAIN f, T) BY DEF Surjection
  <1> HIDE DEF T, g
  <1>2. IsFiniteSet(T) BY <1>1, FS_Surjection
  <1> QED BY <1>2 DEF T

LEMMA FairnessCounts ==
  /\ \A S : Fairness!Cardinality(S) = Cardinality(S)
  /\ \A S : Fairness!IsFiniteSet(S) = IsFiniteSet(S)
  BY DEF Fairness!Cardinality, Cardinality, Fairness!IsFiniteSet, IsFiniteSet

(* All the rows of a video are of one split. *)
LEMMA SplitIsOfCell ==
  ASSUME NEW recs, Fairness!IsScoreFile(recs), NEW gen,
         NEW i \in DOMAIN recs, NEW j \in DOMAIN recs, recs[i].cell = recs[j].cell
  PROVE  Fairness!SplitOf(recs[i], gen) = Fairness!SplitOf(recs[j], gen)
  <1>1. recs[i].split = recs[j].split BY DEF Fairness!IsScoreFile
  <1> QED BY <1>1 DEF Fairness!SplitOf

(* A clean score is written once at least: with the first row of its unit. *)
LEMMA FirstOfUnit ==
  ASSUME NEW recs, Fairness!IsScoreFile(recs), NEW i \in DOMAIN recs,
         Fairness!CleanReady(recs[i])
  PROVE  \E j \in Fairness!NegativeRows(recs) :
            recs[j].cell = recs[i].cell /\ recs[j].clean = recs[i].clean
  <1> DEFINE T == {j \in DOMAIN recs :
                     Fairness!CleanReady(recs[j]) /\ Fairness!SameUnit(recs[i], recs[j])}
  <1>1. T \subseteq Nat /\ i \in T BY DEF Fairness!IsScoreFile, Fairness!SameUnit
  <1>2. PICK j \in T : \A k \in T : j <= k
    <2> HIDE DEF T
    <2> QED BY <1>1, LeastNumber
  <1>3. /\ j \in DOMAIN recs /\ Fairness!CleanReady(recs[j])
        /\ recs[i].cell = recs[j].cell /\ recs[i].unit = recs[j].unit
    BY <1>2 DEF Fairness!SameUnit
  <1>4. ASSUME NEW k \in DOMAIN recs, k < j, Fairness!CleanReady(recs[k]),
               Fairness!SameUnit(recs[j], recs[k])
        PROVE  FALSE
    <2>1. k \in T BY <1>3, <1>4 DEF Fairness!SameUnit
    <2>2. j <= k BY <1>2, <2>1
    <2>3. j \in Nat /\ k \in Nat BY <1>1, <1>2, <2>1
    <2> QED BY <1>4, <2>2, <2>3
  <1>5. j \in Fairness!NegativeRows(recs) BY <1>3, <1>4 DEF Fairness!NegativeRows
  <1>6. recs[i].clean # Fairness!NoScore /\ recs[j].clean # Fairness!NoScore
    BY <1>3 DEF Fairness!CleanReady
  <1>7. recs[j].clean = recs[i].clean
    <2>1. \A a, b \in DOMAIN recs :
             /\ recs[a].cell = recs[b].cell /\ recs[a].unit = recs[b].unit
             /\ Fairness!NoScore \notin {recs[a].clean, recs[b].clean}
             => recs[a].clean = recs[b].clean
      BY DEF Fairness!IsScoreFile
    <2> QED BY <1>3, <1>6, <2>1
  <1> QED BY <1>3, <1>5, <1>7

(* The videos of a split with a clean score, and the highest of each one.    *)
CleanVideos(recs, gen, split) ==
    {c \in Cells : \E i \in DOMAIN recs :
        /\ recs[i].cell = c /\ Fairness!CleanReady(recs[i])
        /\ Fairness!SplitOf(recs[i], gen) = split}

PassingVideos(recs, gen, split, t) ==
    {c \in CleanVideos(recs, gen, split) : \E i \in DOMAIN recs :
        recs[i].cell = c /\ Fairness!CleanReady(recs[i]) /\ recs[i].clean >= t}

ClustersOf(recs, gen, split) ==
    Fairness!ClusterScores(recs, Fairness!RowsOf(recs, gen, split))

LEMMA ClustersAreVideos ==
  ASSUME NEW recs, Fairness!IsScoreFile(recs), NEW gen, NEW split
  PROVE  /\ DOMAIN ClustersOf(recs, gen, split) = CleanVideos(recs, gen, split)
         /\ IsFiniteSet(CleanVideos(recs, gen, split))
         /\ \A c \in CleanVideos(recs, gen, split) : ClustersOf(recs, gen, split)[c] \in Nat
         /\ \A t \in Nat : Fairness!Above(ClustersOf(recs, gen, split), t)
                             = PassingVideos(recs, gen, split, t)
  <1> DEFINE R == Fairness!RowsOf(recs, gen, split)
             V(c) == {recs[i].clean : i \in {k \in R : recs[k].cell = c}}
             cl == ClustersOf(recs, gen, split)
             D == CleanVideos(recs, gen, split)
  <1>1. cl = [c \in {recs[i].cell : i \in R} |-> Fairness!Max(V(c))]
    BY DEF ClustersOf, Fairness!ClusterScores
  <1>2. \A i \in R : /\ i \in DOMAIN recs /\ Fairness!CleanReady(recs[i])
                     /\ Fairness!SplitOf(recs[i], gen) = split
    BY DEF Fairness!RowsOf, Fairness!NegativeRows
  <1>3. \A i \in DOMAIN recs : /\ recs[i].cell \in Cells
                               /\ Fairness!CleanReady(recs[i]) => recs[i].clean \in Nat
    <2>1. ASSUME NEW i \in DOMAIN recs
          PROVE recs[i].cell \in Cells
                /\ (Fairness!CleanReady(recs[i]) => recs[i].clean \in Nat)
      <3>1. recs[i].cell \in Cells /\ recs[i].clean \in Nat \cup {Fairness!NoScore}
        BY DEF Fairness!IsScoreFile
      <3> QED BY <3>1 DEF Fairness!CleanReady
    <2> QED BY <2>1
  <1>4. ASSUME NEW c \in Cells, NEW i \in DOMAIN recs, recs[i].cell = c,
               Fairness!CleanReady(recs[i]), c \in D
        PROVE  \E j \in R : recs[j].cell = c /\ recs[j].clean = recs[i].clean
    <2>1. PICK j \in Fairness!NegativeRows(recs) :
            recs[j].cell = recs[i].cell /\ recs[j].clean = recs[i].clean
      BY <1>4, FirstOfUnit
    <2>2. PICK k \in DOMAIN recs : recs[k].cell = c /\ Fairness!SplitOf(recs[k], gen) = split
      BY <1>4 DEF CleanVideos
    <2>3. j \in DOMAIN recs BY DEF Fairness!NegativeRows
    <2>4. Fairness!SplitOf(recs[j], gen) = split BY <1>4, <2>1, <2>2, <2>3, SplitIsOfCell
    <2>5. j \in R BY <2>4 DEF Fairness!RowsOf
    <2> QED BY <1>4, <2>1, <2>5
  <1>5. DOMAIN cl = D
    <2>1. DOMAIN cl = {recs[i].cell : i \in R} BY <1>1
    <2>2. \A i \in R : recs[i].cell \in D BY <1>2, <1>3 DEF CleanVideos
    <2>3. \A c \in D : \E i \in R : recs[i].cell = c
      <3>1. ASSUME NEW c \in D PROVE \E i \in R : recs[i].cell = c
        <4>1. PICK k \in DOMAIN recs : recs[k].cell = c /\ Fairness!CleanReady(recs[k])
          BY DEF CleanVideos
        <4>2. c \in Cells BY DEF CleanVideos
        <4> HIDE DEF R, D
        <4> QED BY <1>4, <4>1, <4>2
      <3> QED BY <3>1
    <2> HIDE DEF cl, D, R
    <2> QED BY <2>1, <2>2, <2>3
  <1>6. IsFiniteSet(D)
    <2>1. D \in SUBSET Cells BY DEF CleanVideos
    <2> HIDE DEF D
    <2> QED BY <2>1, ComparisonConstants, FS_Subset
  <1>7. ASSUME NEW c \in D
        PROVE  /\ cl[c] \in V(c) /\ \A v \in V(c) : v <= cl[c]
               /\ V(c) \subseteq Nat
    <2> DEFINE S == {k \in R : recs[k].cell = c}
               f == [i \in S |-> recs[i].clean]
    <2>1. S \in SUBSET DOMAIN recs BY <1>2
    <2>2. IsFiniteSet(DOMAIN recs) BY FairnessCounts DEF Fairness!IsScoreFile
    <2>3. IsFiniteSet(S) BY <2>1, <2>2, FS_Subset
    <2>4. V(c) \subseteq Nat BY <1>2, <1>3
    <2>5. V(c) # {}
      <3>1. c \in {recs[i].cell : i \in R} BY <1>1, <1>5
      <3> QED BY <3>1
    <2>6. IsFiniteSet(V(c))
      <3>1. DOMAIN f = S /\ V(c) = {f[x] : x \in DOMAIN f} OBVIOUS
      <3> HIDE DEF S, f, V
      <3> QED BY <2>3, <3>1, ValuesAreFinite
    <2>7. cl[c] = Fairness!Max(V(c)) BY <1>1, <1>5
    <2> HIDE DEF V
    <2>8. PICK m \in V(c) : \A x \in V(c) : x <= m
      <3>1. V(c) \in SUBSET Int BY <2>4
      <3> QED BY <2>5, <2>6, <3>1, FiniteHasGreatest
    <2>9. \E x \in V(c) : \A y \in V(c) : x >= y
      <3>1. \A x \in V(c) : m >= x
        <4>1. ASSUME NEW x \in V(c) PROVE m >= x
          <5>1. x \in Nat /\ m \in Nat /\ x <= m BY <2>4, <2>8
          <5> QED BY <5>1
        <4> QED BY <4>1
      <3> QED BY <3>1
    <2>10. Fairness!Max(V(c)) \in V(c) /\ \A y \in V(c) : Fairness!Max(V(c)) >= y
      BY <2>9 DEF Fairness!Max
    <2>11. \A y \in V(c) : y <= cl[c]
      <3>1. ASSUME NEW y \in V(c) PROVE y <= cl[c]
        <4>1. y \in Nat /\ cl[c] \in Nat /\ cl[c] >= y BY <2>4, <2>7, <2>10
        <4> QED BY <4>1
      <3> QED BY <3>1
    <2> QED BY <2>4, <2>7, <2>10, <2>11
  <1>8. \A c \in D : cl[c] \in Nat BY <1>7
  <1>9. ASSUME NEW t \in Nat PROVE Fairness!Above(cl, t) = PassingVideos(recs, gen, split, t)
    <2>1. ASSUME NEW c \in D
          PROVE  cl[c] >= t <=> \E i \in DOMAIN recs :
                    recs[i].cell = c /\ Fairness!CleanReady(recs[i]) /\ recs[i].clean >= t
      <3>1. ASSUME cl[c] >= t
            PROVE \E i \in DOMAIN recs :
                    recs[i].cell = c /\ Fairness!CleanReady(recs[i]) /\ recs[i].clean >= t
        <4>1. PICK i \in R : recs[i].cell = c /\ recs[i].clean = cl[c] BY <1>7
        <4> QED BY <1>2, <3>1, <4>1
      <3>2. ASSUME NEW i \in DOMAIN recs, recs[i].cell = c, Fairness!CleanReady(recs[i]),
                   recs[i].clean >= t
            PROVE  cl[c] >= t
        <4>1. PICK j \in R : recs[j].cell = c /\ recs[j].clean = recs[i].clean
          <5>1. c \in Cells BY DEF CleanVideos
          <5> HIDE DEF R, D
          <5> QED BY <1>4, <3>2, <5>1
        <4>2. recs[j].clean \in V(c) BY <4>1
        <4> HIDE DEF V, cl
        <4>3. recs[j].clean <= cl[c] /\ cl[c] \in Nat /\ recs[j].clean \in Nat
          BY <1>7, <4>2
        <4> QED BY <3>2, <4>1, <4>3
      <3> QED BY <3>1, <3>2
    <2>2. Fairness!Above(cl, t) = {c \in D : cl[c] >= t} BY <1>5 DEF Fairness!Above
    <2> HIDE DEF cl
    <2> QED BY <2>1, <2>2 DEF PassingVideos
  <1> QED BY <1>5, <1>6, <1>8, <1>9

(* The threshold of measured videos is one that keeps the target rate, and   *)
(* the lowest of the scores that do.                                         *)
LEMMA ThresholdOfVideos ==
  ASSUME NEW cl, IsFiniteSet(DOMAIN cl), \A c \in DOMAIN cl : cl[c] \in Nat,
         Fairness!ThresholdFor(cl) # Fairness!NoScore
  PROVE  /\ Fairness!ThresholdFor(cl) \in Nat
         /\ Fairness!WithinTarget(cl, Fairness!ThresholdFor(cl))
         /\ \A c \in DOMAIN cl : Fairness!WithinTarget(cl, cl[c])
                                   => Fairness!ThresholdFor(cl) <= cl[c]
  <1> DEFINE V == {cl[c] : c \in DOMAIN cl}
             T == {t \in Fairness!Candidates(cl) : Fairness!WithinTarget(cl, t)}
  <1>1. DOMAIN cl # {} /\ Fairness!ThresholdFor(cl) = Fairness!Min(T)
    BY DEF Fairness!ThresholdFor
  <1>2. V \subseteq Nat /\ V # {} /\ IsFiniteSet(V) BY <1>1, ValuesAreFinite
  <1>3. Fairness!Candidates(cl) = V \cup {Fairness!Max(V) + 1}
    BY DEF Fairness!Candidates
  <1>4. Fairness!Max(V) \in V /\ \A v \in V : v <= Fairness!Max(V)
    <2> HIDE DEF V
    <2>1. PICK m \in V : \A x \in V : x <= m
      <3>1. V \in SUBSET Int BY <1>2
      <3> QED BY <1>2, <3>1, FiniteHasGreatest
    <2>2. \A x \in V : m >= x
      <3>1. ASSUME NEW x \in V PROVE m >= x
        <4>1. x \in Nat /\ m \in Nat /\ x <= m BY <1>2, <2>1
        <4> QED BY <4>1
      <3> QED BY <3>1
    <2>3. Fairness!Max(V) \in V /\ \A y \in V : Fairness!Max(V) >= y
      BY <2>2 DEF Fairness!Max
    <2>4. ASSUME NEW y \in V PROVE y <= Fairness!Max(V)
      <3>1. y \in Nat /\ Fairness!Max(V) \in Nat /\ Fairness!Max(V) >= y BY <1>2, <2>3
      <3> QED BY <3>1
    <2> QED BY <2>3, <2>4
  <1>5. Fairness!WithinTarget(cl, Fairness!Max(V) + 1)
    <2>1. Fairness!Above(cl, Fairness!Max(V) + 1) = {}
      <3>1. ASSUME NEW c \in DOMAIN cl PROVE ~(cl[c] >= Fairness!Max(V) + 1)
        <4>1. cl[c] \in V OBVIOUS
        <4>2. cl[c] \in Nat /\ Fairness!Max(V) \in Nat /\ cl[c] <= Fairness!Max(V)
          BY <1>2, <1>4, <4>1
        <4> QED BY <4>2
      <3> QED BY <3>1 DEF Fairness!Above
    <2>2. Fairness!Cardinality({}) = 0 BY FairnessCounts, FS_EmptySet
    <2>3. Fairness!Cardinality(DOMAIN cl) \in Nat BY FairnessCounts, FS_CardinalityType
    <2>4. \A n \in Nat : 0 * TargetDen <= TargetNum * n
      <3>1. TargetNum \in Nat /\ TargetDen \in Nat BY ComparisonConstants
      <3>2. \A n \in Nat : TargetNum * n \in Nat BY <3>1
      <3>3. 0 * TargetDen = 0 BY <3>1
      <3> QED BY <3>2, <3>3
    <2> QED BY <2>1, <2>2, <2>3, <2>4 DEF Fairness!WithinTarget
  <1>6. T \subseteq Nat /\ T # {}
    <2>1. Fairness!Max(V) + 1 \in T BY <1>3, <1>5
    <2>2. Fairness!Candidates(cl) \subseteq Nat
      <3>1. Fairness!Max(V) + 1 \in Nat BY <1>2, <1>4
      <3> HIDE DEF V
      <3> QED BY <1>2, <1>3, <3>1
    <2> QED BY <2>1, <2>2
  <1>7. /\ Fairness!Min(T) \in T /\ \A t \in T : Fairness!Min(T) <= t
    <2> HIDE DEF T
    <2>1. \E x \in T : \A y \in T : x <= y BY <1>6, LeastNumber
    <2> QED BY <2>1 DEF Fairness!Min
  <1>8. \A c \in DOMAIN cl : Fairness!WithinTarget(cl, cl[c]) => cl[c] \in T
    BY <1>3
  <1>9. Fairness!Min(T) \in Nat /\ Fairness!WithinTarget(cl, Fairness!Min(T))
    BY <1>6, <1>7
  <1> HIDE DEF T
  <1> QED BY <1>1, <1>7, <1>8, <1>9

(* A lower threshold takes in the same videos or too many. *)
LEMMA LowerTakesTooMany ==
  ASSUME NEW cl, IsFiniteSet(DOMAIN cl), \A c \in DOMAIN cl : cl[c] \in Nat,
         Fairness!ThresholdFor(cl) # Fairness!NoScore,
         NEW t \in Nat, t < Fairness!ThresholdFor(cl)
  PROVE  \/ Fairness!Above(cl, t) = Fairness!Above(cl, Fairness!ThresholdFor(cl))
         \/ ~Fairness!WithinTarget(cl, t)
  <1> DEFINE h == Fairness!ThresholdFor(cl)
             A == Fairness!Above(cl, t)
             V == {cl[c] : c \in A}
  <1>1. /\ h \in Nat
        /\ \A c \in DOMAIN cl : Fairness!WithinTarget(cl, cl[c]) => h <= cl[c]
    BY ThresholdOfVideos
  <1>2. Fairness!Above(cl, h) \subseteq A
    <2>1. ASSUME NEW c \in DOMAIN cl, cl[c] >= h PROVE cl[c] >= t
      BY <1>1, <2>1
    <2> QED BY <2>1 DEF Fairness!Above
  <1>3. SUFFICES ASSUME Fairness!WithinTarget(cl, t) PROVE A \subseteq Fairness!Above(cl, h)
    BY <1>2
  <1>4. CASE A = {} BY <1>4
  <1>5. CASE A # {}
    <2>1. V \subseteq Nat /\ V # {} BY <1>5 DEF Fairness!Above
    <2>2. PICK v \in V : \A w \in V : v <= w
      <3> HIDE DEF V
      <3> QED BY <2>1, LeastNumber
    <2>3. PICK d \in A : v = cl[d] BY <2>2
    <2>4. d \in DOMAIN cl /\ cl[d] \in Nat /\ cl[d] >= t BY <2>3 DEF Fairness!Above
    <2>5. \A c \in A : c \in DOMAIN cl /\ cl[c] >= cl[d]
      <3>1. ASSUME NEW c \in A PROVE c \in DOMAIN cl /\ cl[c] >= cl[d]
        <4>1. c \in DOMAIN cl /\ cl[c] \in V BY DEF Fairness!Above
        <4>2. cl[d] <= cl[c] /\ cl[c] \in Nat BY <2>2, <2>3, <4>1
        <4> QED BY <2>4, <4>1, <4>2
      <3> QED BY <3>1
    <2>6. Fairness!Above(cl, cl[d]) = A
      <3>1. ASSUME NEW c \in DOMAIN cl, cl[c] >= cl[d] PROVE cl[c] >= t
        BY <2>4, <3>1
      <3> QED BY <2>5, <3>1 DEF Fairness!Above
    <2>7. Fairness!WithinTarget(cl, cl[d]) BY <1>3, <2>6 DEF Fairness!WithinTarget
    <2>8. h <= cl[d] BY <1>1, <2>4, <2>7
    <2>9. \A c \in A : cl[c] >= h
      <3>1. ASSUME NEW c \in A PROVE cl[c] >= h
        <4>1. cl[c] >= cl[d] /\ cl[c] \in Nat BY <2>5
        <4> HIDE DEF h, A
        <4> QED BY <1>1, <2>4, <2>8, <4>1
      <3> QED BY <3>1
    <2> QED BY <2>5, <2>9 DEF Fairness!Above
  <1> QED BY <1>4, <1>5

(* What a calibrated method holds of its scores. *)
HeldOut(recs, gen) ==
    {i \in {j \in Fairness!PositiveRows(recs) : recs[j].formal} :
        Fairness!SplitOf(recs[i], gen) = "heldout_test"}

LEMMA CalibrationIs ==
  ASSUME NEW recs, NEW gen
  PROVE  LET r == Fairness!CalibratedMethodRecord(recs, gen)
             held == ClustersOf(recs, gen, "heldout_test")
         IN  /\ r.threshold = Fairness!ThresholdFor(ClustersOf(recs, gen, "calibration"))
             /\ r.ready => /\ r.threshold # Fairness!NoScore /\ HeldOut(recs, gen) # {}
                           /\ ~(Fairness!Cardinality(DOMAIN held) < MinHeldout)
             /\ r.anchors = {<<recs[i].cell, recs[i].attack>> :
                               i \in {j \in Fairness!PositiveRows(recs) : recs[j].formal}}
             /\ r.attacks = {recs[i].attack : i \in HeldOut(recs, gen)}
             /\ r.threshold # Fairness!NoScore =>
                  /\ r.units = {[anchor |-> <<recs[i].cell, recs[i].attack>>,
                                 detected |-> recs[i].score >= r.threshold] :
                                  i \in HeldOut(recs, gen)}
                  /\ r.negatives = {[cell |-> c, positive |-> held[c] >= r.threshold] :
                                      c \in DOMAIN held}
  BY DEF Fairness!CalibratedMethodRecord, Fairness!CalibrationClusters, Fairness!ThresholdRows,
         ClustersOf, HeldOut

(* The measures the properties name are those of the calibrated clusters. *)
LEMMA MeasuresAre ==
  ASSUME FairnessInv, DOMAIN fair # {}, NEW m \in Fairness!Methods, NEW split
  PROVE  LET recs == basis.scores[m]
             gen == basis.generation
             cl == ClustersOf(recs, gen, split)
         IN  /\ Fairness!IsScoreFile(recs) /\ gen \in BOOLEAN
             /\ fair[m] = Fairness!CalibratedMethodRecord(recs, gen)
             /\ Fairness!MeasuredNegatives(m, split) = DOMAIN cl
             /\ IsFiniteSet(DOMAIN cl) /\ \A c \in DOMAIN cl : cl[c] \in Nat
             /\ \A t \in Nat : Fairness!FalseVideos(m, split, t) = Fairness!Above(cl, t)
  <1> DEFINE recs == basis.scores[m]
             gen == basis.generation
             cl == ClustersOf(recs, gen, split)
  <1>1. Fairness!IsScoreFile(recs) /\ gen \in BOOLEAN BY DEF FairnessInv, FilesAreScores
  <1>2. fair[m] = Fairness!CalibratedMethodRecord(recs, gen)
    BY DEF FairnessInv, CalibratedFrom
  <1>3. /\ DOMAIN cl = CleanVideos(recs, gen, split)
        /\ IsFiniteSet(DOMAIN cl) /\ \A c \in DOMAIN cl : cl[c] \in Nat
        /\ \A t \in Nat : Fairness!Above(cl, t) = PassingVideos(recs, gen, split, t)
    BY <1>1, ClustersAreVideos
  <1>4. Fairness!MeasuredNegatives(m, split) = CleanVideos(recs, gen, split)
    BY DEF Fairness!MeasuredNegatives, CleanVideos
  <1>5. \A t : Fairness!FalseVideos(m, split, t) = PassingVideos(recs, gen, split, t)
    BY <1>4 DEF Fairness!FalseVideos, Fairness!PassesAt, PassingVideos
  <1> HIDE DEF recs, gen, cl
  <1>6. Fairness!MeasuredNegatives(m, split) = DOMAIN cl BY <1>3, <1>4
  <1>7. \A t \in Nat : Fairness!FalseVideos(m, split, t) = Fairness!Above(cl, t)
    BY <1>3, <1>5
  <1> QED BY <1>1, <1>2, <1>3, <1>6, <1>7 DEF recs, gen, cl

LEMMA CalibratedAll ==
  ASSUME FairnessInv, DOMAIN fair # {} PROVE DOMAIN fair = Fairness!Methods
  BY DEF FairnessInv, Fairness!TypeOK

LEMMA FairThresholdHolds == ASSUME FairnessInv PROVE Fairness!ThresholdIsLowest
  <1> SUFFICES ASSUME NEW m \in DOMAIN fair, fair[m].threshold # Fairness!NoScore
      PROVE  LET n == Fairness!Cardinality(Fairness!MeasuredNegatives(m, "calibration"))
                 above(t) == Fairness!FalseVideos(m, "calibration", t)
                 within(set) == Fairness!Cardinality(set) * TargetDen <= TargetNum * n
                 held == above(fair[m].threshold)
             IN  /\ within(held)
                 /\ \A t \in 0 .. fair[m].threshold - 1 :
                       above(t) = held \/ ~within(above(t))
    BY DEF Fairness!ThresholdIsLowest
  <1> DEFINE recs == basis.scores[m]
             gen == basis.generation
             cl == ClustersOf(recs, gen, "calibration")
             h == Fairness!ThresholdFor(cl)
             n == Fairness!Cardinality(Fairness!MeasuredNegatives(m, "calibration"))
             above(t) == Fairness!FalseVideos(m, "calibration", t)
             within(set) == Fairness!Cardinality(set) * TargetDen <= TargetNum * n
  <1>1. m \in Fairness!Methods /\ DOMAIN fair # {} BY CalibratedAll
  <1>2. /\ fair[m] = Fairness!CalibratedMethodRecord(recs, gen)
        /\ Fairness!MeasuredNegatives(m, "calibration") = DOMAIN cl
        /\ IsFiniteSet(DOMAIN cl) /\ \A c \in DOMAIN cl : cl[c] \in Nat
        /\ \A t \in Nat : above(t) = Fairness!Above(cl, t)
    BY <1>1, MeasuresAre
  <1>3. fair[m].threshold = h BY <1>2, CalibrationIs
  <1>4. \A t \in Nat : within(above(t)) <=> Fairness!WithinTarget(cl, t)
    BY <1>2 DEF Fairness!WithinTarget
  <1>5. h # Fairness!NoScore BY <1>3
  <1> HIDE DEF recs, gen, cl, h, n, above, within
  <1>6. h \in Nat /\ Fairness!WithinTarget(cl, h)
    BY <1>2, <1>5, ThresholdOfVideos DEF h
  <1>7. within(above(h)) BY <1>4, <1>6
  <1>8. ASSUME NEW t \in 0 .. h - 1 PROVE above(t) = above(h) \/ ~within(above(t))
    <2>1. t \in Nat /\ t < h BY <1>6
    <2>2. Fairness!Above(cl, t) = Fairness!Above(cl, h) \/ ~Fairness!WithinTarget(cl, t)
      BY <1>2, <1>5, <2>1, LowerTakesTooMany DEF h
    <2> QED BY <1>2, <1>4, <1>6, <2>1, <2>2
  <1> QED BY <1>3, <1>7, <1>8 DEF within, above, n

(* A set of pairs of a video and a mark has as many as there are videos.     *)
LEMMA MarkedVideos ==
  ASSUME NEW D, IsFiniteSet(D), NEW p
  PROVE  Cardinality({[cell |-> c, positive |-> p[c]] : c \in D}) = Cardinality(D)
  <1> DEFINE f == [c \in D |-> [cell |-> c, positive |-> p[c]]]
             T == {[cell |-> c, positive |-> p[c]] : c \in D}
  <1>1. f \in Surjection(D, T) BY DEF Surjection
  <1>2. f \in [D -> T] BY <1>1 DEF Surjection
  <1>3. \A a, b \in D : f[a] = f[b] => a = b
    <2>1. ASSUME NEW a \in D, NEW b \in D, f[a] = f[b] PROVE a = b
      <3>1. f[a].cell = a /\ f[b].cell = b OBVIOUS
      <3> HIDE DEF f
      <3> QED BY <2>1, <3>1
    <2> QED BY <2>1
  <1>4. f \in Injection(D, T)
    <2> HIDE DEF f, T
    <2> QED BY <1>2, <1>3 DEF Injection, IsInjective
  <1> HIDE DEF f, T
  <1>5. Cardinality(T) = Cardinality(D) BY <1>1, <1>4, FS_Surjection
  <1> QED BY <1>5 DEF T

LEMMA FairPassHolds == ASSUME FairnessInv PROVE Fairness!PassHoldsForVideos
  <1> SUFFICES ASSUME DOMAIN fair = Fairness!Methods, Fairness!AllReady(fair),
                      confidence = Fairness!ConfidenceOf(fair),
                      confidence.decision = "PASS",
                      NEW m \in Fairness!Methods
      PROVE  LET n == Fairness!Cardinality(Fairness!MeasuredNegatives(m, "heldout_test"))
                 k == Fairness!Cardinality(
                        Fairness!FalseVideos(m, "heldout_test", fair[m].threshold))
             IN  /\ n >= MinHeldout /\ k * TargetDen <= TargetNum * n
                 /\ Fairness!UpperWithinTarget(k, n)
    BY DEF Fairness!PassHoldsForVideos
  <1> DEFINE recs == basis.scores[m]
             gen == basis.generation
             cl == ClustersOf(recs, gen, "heldout_test")
             D == DOMAIN cl
             h == fair[m].threshold
             negatives == fair[m].negatives
  <1>1. /\ fair[m] = Fairness!CalibratedMethodRecord(recs, gen)
        /\ Fairness!MeasuredNegatives(m, "heldout_test") = D
        /\ IsFiniteSet(D) /\ \A c \in D : cl[c] \in Nat
        /\ \A t \in Nat : Fairness!FalseVideos(m, "heldout_test", t) = Fairness!Above(cl, t)
    BY MeasuresAre
  <1>2. fair[m].ready /\ Fairness!FprClosed(negatives)
    <2>1. fair[m].ready BY DEF Fairness!AllReady
    <2>2. m \in Fairness!ReadyMethods(fair) BY <2>1 DEF Fairness!ReadyMethods
    <2>3. Fairness!ConfidenceOf(fair).decision = "PASS" OBVIOUS
    <2>4. \A x \in Fairness!ReadyMethods(fair) : Fairness!FprClosed(fair[x].negatives)
      BY <2>3 DEF Fairness!ConfidenceOf
    <2> QED BY <2>1, <2>2, <2>4
  <1>3. /\ h # Fairness!NoScore /\ ~(Fairness!Cardinality(D) < MinHeldout)
        /\ h = Fairness!ThresholdFor(ClustersOf(recs, gen, "calibration"))
        /\ negatives = {[cell |-> c, positive |-> cl[c] >= h] : c \in D}
    BY <1>1, <1>2, CalibrationIs
  <1>4. h \in Nat
    <2> DEFINE cal == ClustersOf(recs, gen, "calibration")
    <2>1. IsFiniteSet(DOMAIN cal) /\ \A c \in DOMAIN cal : cal[c] \in Nat BY MeasuresAre
    <2> HIDE DEF cal
    <2>2. Fairness!ThresholdFor(cal) # Fairness!NoScore BY <1>3 DEF cal
    <2>3. Fairness!ThresholdFor(cal) \in Nat BY <2>1, <2>2, ThresholdOfVideos
    <2> QED BY <1>3, <2>3 DEF cal
  <1>5. Fairness!FalseVideos(m, "heldout_test", h) = Fairness!Above(cl, h) BY <1>1, <1>4
  <1>6. Fairness!Above(cl, h) \in SUBSET D BY DEF Fairness!Above
  <1> HIDE DEF recs, gen, h
  <1>7. /\ Fairness!Cardinality(negatives) = Fairness!Cardinality(D)
        /\ Fairness!Cardinality(Fairness!FalsePositives(negatives))
             = Fairness!Cardinality(Fairness!Above(cl, h))
    <2> DEFINE p == [c \in D |-> cl[c] >= h]
               A == Fairness!Above(cl, h)
    <2>1. negatives = {[cell |-> c, positive |-> p[c]] : c \in D} BY <1>3
    <2>2. IsFiniteSet(A) BY <1>1, <1>6, FS_Subset
    <2>3. Fairness!FalsePositives(negatives) = {[cell |-> c, positive |-> p[c]] : c \in A}
      <3>1. Fairness!FalsePositives(negatives) = {x \in negatives : x.positive}
        BY DEF Fairness!FalsePositives
      <3>2. A = {c \in D : p[c]} BY DEF Fairness!Above
      <3>3. \A c \in D : [cell |-> c, positive |-> p[c]].positive = p[c] OBVIOUS
      <3> HIDE DEF p, A, D, negatives
      <3> QED BY <2>1, <3>1, <3>2, <3>3
    <2> HIDE DEF p, A, D, negatives
    <2>4. Cardinality(negatives) = Cardinality(D)
      BY <1>1, <2>1, MarkedVideos
    <2>5. Cardinality(Fairness!FalsePositives(negatives)) = Cardinality(A)
      BY <2>2, <2>3, MarkedVideos
    <2> QED BY <2>4, <2>5, FairnessCounts DEF A
  <1>8. /\ Fairness!Cardinality(D) \in Nat /\ MinHeldout \in Nat
    BY <1>1, FairnessCounts, FS_CardinalityType, ComparisonConstants
  <1> HIDE DEF D, cl, negatives
  <1>9. /\ Fairness!Cardinality(Fairness!Above(cl, h)) * TargetDen
             <= TargetNum * Fairness!Cardinality(D)
        /\ Fairness!UpperWithinTarget(Fairness!Cardinality(Fairness!Above(cl, h)),
                                      Fairness!Cardinality(D))
    BY <1>2, <1>7 DEF Fairness!FprClosed
  <1>10. Fairness!Cardinality(D) >= MinHeldout BY <1>3, <1>8
  <1> QED BY <1>1, <1>5, <1>9, <1>10 DEF h

(* A method that is ready knows the split of each of its videos.             *)
LEMMA ReadyKnowsSplit ==
  ASSUME NEW recs, Fairness!IsScoreFile(recs), NEW gen \in BOOLEAN, HeldOut(recs, gen) # {}
  PROVE  \A i \in DOMAIN recs : Fairness!SplitOf(recs[i], gen) = Split[recs[i].cell]
  <1>1. PICK j \in DOMAIN recs : Fairness!SplitOf(recs[j], gen) = "heldout_test"
    BY DEF HeldOut, Fairness!PositiveRows
  <1>2. \A i \in DOMAIN recs : recs[i].cell \in Cells BY DEF Fairness!IsScoreFile
  <1>3. \/ \A i \in DOMAIN recs : recs[i].split = Split[recs[i].cell]
        \/ \A i \in DOMAIN recs : recs[i].split = ""
    <2>1. PICK origin \in {Split, [c \in Cells |-> ""]} :
             \A i \in DOMAIN recs : recs[i].split = origin[recs[i].cell]
      BY DEF Fairness!IsScoreFile
    <2>2. CASE origin = Split BY <2>1, <2>2
    <2>3. CASE origin = [c \in Cells |-> ""] BY <1>2, <2>1, <2>3
    <2> QED BY <2>1, <2>2, <2>3
  <1>4. ASSUME NEW i \in DOMAIN recs
        PROVE Fairness!SplitOf(recs[i], gen) = Split[recs[i].cell]
    <2>1. CASE \A k \in DOMAIN recs : recs[k].split = Split[recs[k].cell]
      <3>1. recs[i].split = Split[recs[i].cell] BY <2>1
      <3> QED BY <3>1 DEF Fairness!SplitOf
    <2>2. CASE \A k \in DOMAIN recs : recs[k].split = ""
      <3>1. recs[i].split = "" /\ recs[j].split = "" BY <1>1, <2>2
      <3>2. gen = TRUE BY <1>1, <3>1 DEF Fairness!SplitOf
      <3> QED BY <3>1, <3>2 DEF Fairness!SplitOf
    <2> QED BY <1>3, <2>1, <2>2
  <1> QED BY <1>4

(* The anchors of the held-out detections are the calibrated anchors whose   *)
(* videos are held out.                                                      *)
LEMMA AnchorsAreHeldOut ==
  ASSUME NEW recs, Fairness!IsScoreFile(recs), NEW gen \in BOOLEAN,
         Fairness!CalibratedMethodRecord(recs, gen).ready
  PROVE  LET r == Fairness!CalibratedMethodRecord(recs, gen)
         IN  /\ Fairness!Anchors(r.units) = {a \in r.anchors : Split[a[1]] = "heldout_test"}
             /\ r.attacks = {a[2] : a \in Fairness!Anchors(r.units)}
             /\ Fairness!Videos(r.units) = {a[1] : a \in Fairness!Anchors(r.units)}
             /\ \A i \in DOMAIN recs : Fairness!SplitOf(recs[i], gen) = Split[recs[i].cell]
  <1> DEFINE r == Fairness!CalibratedMethodRecord(recs, gen)
             F == {j \in Fairness!PositiveRows(recs) : recs[j].formal}
             H == HeldOut(recs, gen)
             anchor(i) == <<recs[i].cell, recs[i].attack>>
  <1>1. /\ r.threshold # Fairness!NoScore /\ H # {}
        /\ r.anchors = {anchor(i) : i \in F}
        /\ r.attacks = {recs[i].attack : i \in H}
        /\ r.units = {[anchor |-> anchor(i), detected |-> recs[i].score >= r.threshold] :
                        i \in H}
    BY CalibrationIs
  <1>2. \A i \in DOMAIN recs : Fairness!SplitOf(recs[i], gen) = Split[recs[i].cell]
    BY <1>1, ReadyKnowsSplit
  <1>3. H = {i \in F : Split[recs[i].cell] = "heldout_test"}
    <2>1. \A i \in F : i \in DOMAIN recs BY DEF Fairness!PositiveRows
    <2> QED BY <1>2, <2>1 DEF HeldOut
  <1>4. Fairness!Anchors(r.units) = {anchor(i) : i \in H}
    <2> DEFINE u(i) == [anchor |-> anchor(i), detected |-> recs[i].score >= r.threshold]
    <2>1. r.units = {u(i) : i \in H} BY <1>1
    <2>2. \A i : u(i).anchor = anchor(i) OBVIOUS
    <2> HIDE DEF u, anchor, H, r
    <2>3. {x.anchor : x \in r.units} = {anchor(i) : i \in H} BY <2>1, <2>2
    <2> QED BY <2>3 DEF Fairness!Anchors
  <1>5. \A i : anchor(i)[1] = recs[i].cell /\ anchor(i)[2] = recs[i].attack OBVIOUS
  <1>6. Fairness!Videos(r.units) = {a[1] : a \in Fairness!Anchors(r.units)}
    BY DEF Fairness!Videos, Fairness!Anchors
  <1> HIDE DEF r, F, H, anchor
  <1>7. Fairness!Anchors(r.units) = {a \in r.anchors : Split[a[1]] = "heldout_test"}
    BY <1>1, <1>3, <1>4, <1>5
  <1>8. r.attacks = {a[2] : a \in Fairness!Anchors(r.units)}
    <2> DEFINE B == Fairness!Anchors(r.units)
    <2>1. (\A a \in B : \E i \in H : a = anchor(i)) /\ \A i \in H : anchor(i) \in B
      BY <1>4
    <2> HIDE DEF B
    <2>2. ASSUME NEW x \in r.attacks PROVE x \in {a[2] : a \in B}
      <3>1. PICK i \in H : x = recs[i].attack BY <1>1
      <3>2. anchor(i) \in B /\ x = anchor(i)[2] BY <1>5, <2>1, <3>1
      <3> QED BY <3>2
    <2>3. ASSUME NEW a \in B PROVE a[2] \in r.attacks
      <3>1. PICK i \in H : a = anchor(i) BY <2>1
      <3>2. a[2] = recs[i].attack BY <1>5, <3>1
      <3> QED BY <1>1, <3>2
    <2>4. r.attacks = {a[2] : a \in B} BY <2>2, <2>3
    <2> QED BY <2>4 DEF B
  <1> QED BY <1>2, <1>6, <1>7, <1>8 DEF r

LEMMA FairMatchHolds == ASSUME FairnessInv PROVE Fairness!ComparisonIsMatched
  <1> SUFFICES ASSUME comparison.decision = "PASS", comparison = Fairness!Compared(fair),
                      NEW m \in Fairness!Methods
      PROVE  /\ Fairness!Anchors(fair[m].units) = Fairness!Anchors(fair[Sstw].units)
             /\ Attacks \subseteq {a[2] : a \in Fairness!Anchors(fair[m].units)}
             /\ \A c \in Fairness!Videos(fair[m].units) :
                   c \notin Fairness!MeasuredNegatives(m, "calibration")
    BY DEF Fairness!ComparisonIsMatched
  <1>1. \A x \in Fairness!Methods : Fairness!Measured(fair, x)
    <2>1. Fairness!Compared(fair).decision = "PASS" OBVIOUS
    <2> QED BY <2>1 DEF Fairness!Compared
  <1>2. Sstw \in Fairness!Methods BY DEF Fairness!Methods
  <1>3. DOMAIN fair # {} BY <1>1, <1>2 DEF Fairness!Measured
  <1>4. \A x \in Fairness!Methods :
          /\ fair[x].ready /\ Attacks \subseteq fair[x].attacks
          /\ fair[x].anchors = fair[Sstw].anchors
    BY <1>1 DEF Fairness!Measured
  <1>5. ASSUME NEW x \in Fairness!Methods
        PROVE  /\ Fairness!Anchors(fair[x].units)
                    = {a \in fair[x].anchors : Split[a[1]] = "heldout_test"}
               /\ fair[x].attacks = {a[2] : a \in Fairness!Anchors(fair[x].units)}
               /\ Fairness!Videos(fair[x].units)
                    = {a[1] : a \in Fairness!Anchors(fair[x].units)}
               /\ \A i \in DOMAIN basis.scores[x] :
                    Fairness!SplitOf(basis.scores[x][i], basis.generation)
                      = Split[basis.scores[x][i].cell]
    <2>1. /\ Fairness!IsScoreFile(basis.scores[x]) /\ basis.generation \in BOOLEAN
          /\ fair[x] = Fairness!CalibratedMethodRecord(basis.scores[x], basis.generation)
      BY <1>3, MeasuresAre
    <2>2. Fairness!CalibratedMethodRecord(basis.scores[x], basis.generation).ready
      BY <1>4, <2>1
    <2> QED BY <2>1, <2>2, AnchorsAreHeldOut
  <1>6. Fairness!Anchors(fair[m].units) = Fairness!Anchors(fair[Sstw].units)
    BY <1>2, <1>4, <1>5
  <1>7. ASSUME NEW c \in Fairness!Videos(fair[m].units),
               c \in Fairness!MeasuredNegatives(m, "calibration")
        PROVE  FALSE
    <2>1. Split[c] = "heldout_test" BY <1>5, <1>7
    <2>2. PICK i \in DOMAIN basis.scores[m] :
            /\ basis.scores[m][i].cell = c
            /\ Fairness!SplitOf(basis.scores[m][i], basis.generation) = "calibration"
      BY <1>7 DEF Fairness!MeasuredNegatives
    <2> QED BY <1>5, <2>1, <2>2
  <1> QED BY <1>4, <1>5, <1>6, <1>7

LEMMA FinishHolds == ASSUME FairnessInv PROVE Fairness!FinishedIsFresh
  <1> SUFFICES ASSUME notebook = "comparison", pc > Len(Fairness!Plan.comparison)
      PROVE  /\ scores = [m \in Fairness!Methods |->
                            IF m = Sstw THEN Fairness!Formal(upstream.detection)
                            ELSE upstream.official[m]]
             /\ fair = [m \in Fairness!Methods |->
                          Fairness!CalibratedMethodRecord(scores[m], upstream.generation)]
             /\ comparison = Fairness!Compared(fair)
             /\ difference = Fairness!Differences(fair)
    BY DEF Fairness!FinishedIsFresh
  <1>1. Len(Fairness!Plan.comparison) = 5
    <2>1. Fairness!Plan.comparison
            = <<"sstw", "external", "calibrate", "compare", "difference">>
      BY DEF Fairness!Plan
    <2>2. Len(<<"sstw", "external", "calibrate", "compare", "difference">>) = 5 OBVIOUS
    <2> QED BY <2>1, <2>2
  <1>2. pc = 6 BY <1>1 DEF FairnessInv, StagesAreFresh
  <1>3. /\ \A m \in Fairness!Methods : scores[m] = FileOf(m)
        /\ fair = CalibratedFrom(scores, upstream.generation)
        /\ comparison = Fairness!Compared(fair) /\ difference = Fairness!Differences(fair)
    BY <1>2 DEF FairnessInv, StagesAreFresh
  <1>4. scores = [m \in Fairness!Methods |-> FileOf(m)]
    BY <1>3 DEF FairnessInv, FilesAreScores
  <1> QED BY <1>3, <1>4 DEF FileOf, CalibratedFrom

LEMMA FairnessIsAsPromised ==
  FairnessInv => /\ Fairness!TypeOK
                 /\ Fairness!ThresholdIsLowest
                 /\ Fairness!PassHoldsForVideos
                 /\ Fairness!ComparisonIsMatched
                 /\ Fairness!FinishedIsFresh
  BY FairThresholdHolds, FairPassHolds, FairMatchHolds, FinishHolds DEF FairnessInv

(* What a step of the comparison may do to the thresholds. *)
ThresholdsStay ==
    \A m \in DOMAIN fair : fair'[m].threshold # fair[m].threshold =>
        Fairness!DecidingScores(basis'.scores[m], basis'.generation)
            # Fairness!DecidingScores(basis.scores[m], basis.generation)

LEMMA DecidingScoresDecide ==
  ASSUME NEW recs, NEW gen
  PROVE  Fairness!CalibratedMethodRecord(recs, gen).threshold
           = Fairness!ThresholdFor(Fairness!DecidingScores(recs, gen))
  BY CalibrationIs DEF ClustersOf, Fairness!DecidingScores

LEMMA NextThresholdsStay ==
  FairnessInv /\ [Fairness!Next]_(Fairness!vars) => [ThresholdsStay]_fair
  <1> SUFFICES ASSUME FairnessInv, [Fairness!Next]_(Fairness!vars), fair' # fair,
                      NEW m \in DOMAIN fair, fair'[m].threshold # fair[m].threshold
      PROVE  Fairness!DecidingScores(basis'.scores[m], basis'.generation)
               # Fairness!DecidingScores(basis.scores[m], basis.generation)
    BY DEF ThresholdsStay
  <1>1. Fairness!Calibrate
    BY DEF Fairness!Next, Fairness!vars, Fairness!outputs, Fairness!Remeasure,
           Fairness!StartNotebook, Fairness!ConvertSstw, Fairness!CollectExternal,
           Fairness!Compare, Fairness!Subtract, Fairness!Estimate, Fairness!StateLowFpr,
           Fairness!EndNotebook, Fairness!Disconnect
  <1>2. m \in Fairness!Methods /\ DOMAIN fair # {} BY CalibratedAll
  <1>3. fair[m] = Fairness!CalibratedMethodRecord(basis.scores[m], basis.generation)
    BY <1>2 DEF FairnessInv, CalibratedFrom
  <1>4. fair'[m] = Fairness!CalibratedMethodRecord(basis'.scores[m], basis'.generation)
    <2>1. /\ fair' = [x \in Fairness!Methods |->
                        Fairness!CalibratedMethodRecord(scores[x], upstream.generation)]
          /\ basis' = [scores |-> scores, generation |-> upstream.generation]
      BY <1>1 DEF Fairness!Calibrate
    <2>2. basis'.scores = scores /\ basis'.generation = upstream.generation BY <2>1
    <2> QED BY <1>2, <2>1, <2>2
  <1> QED BY <1>3, <1>4, DecidingScoresDecide

-----------------------------------------------------------------------------
(* The search.  Every query was of a point that was new, the third of a line *)
(* and later ones lie between its two ends, and a refinement is of the best  *)
(* parent there was.                                                         *)

Queried == Search!Asked
Square == (0 .. Grid) \X (0 .. Grid)

PhaseNames == {"base_point", "coordinate_1_probe", "coordinate_2_probe", "refinement", "line"}

CandidateRows == [index : Nat, at : Square, phase : PhaseNames, parent : Int,
                  detector : Int, path : Int, admissible : BOOLEAN]

RowIsSound(i) == candidates[i].index = i - 1 /\ candidates[i].parent \in -1 .. i - 2

RowOfPlane(n) ==
    /\ n <= 3 => /\ candidates[n].phase = Search!Phases[n]
                 /\ candidates[n].at = Search!Seeds(base)[n]
    /\ n > 3 => candidates[n].phase = "refinement" /\ candidates[n].parent >= 0

RowOfLine(n) ==
    /\ candidates[n].at[2] = 0
    /\ n = 1 => candidates[n].at[1] = 0
    /\ n = 2 => candidates[n].at[1] = Grid

RowFollowsBest(n) ==
    LET parent == candidates[candidates[n].parent + 1]
    IN  n > 3 => /\ parent = Search!Best(Search!Parents(n - 1))
                 /\ \E i \in 1 .. 2 : candidates[n].at[i] = parent.at[i]

SearchInv ==
    /\ kind \in {"plane", "line"} /\ base \in 0 .. Grid
    /\ candidates \in Seq(CandidateRows) /\ Len(candidates) <= Budget
    /\ \A i \in 1 .. Len(candidates) : RowIsSound(i)
    /\ \A i, j \in 1 .. Len(candidates) : candidates[i].at = candidates[j].at => i = j
    /\ \A n \in 1 .. Len(candidates) :
           IF kind = "plane" THEN RowOfPlane(n) /\ RowFollowsBest(n) ELSE RowOfLine(n)
    /\ searchOutcome \in {"searching", "selected", "infeasible"}
    /\ searchOutcome = "selected" => Len(candidates) = Budget /\ Search!Admissible(Budget) # {}

LEMMA SearchConstantsAre ==
  /\ Grid \in Nat /\ Halves \in Seq(Nat \ {0}) /\ Halves # <<>> /\ Grid = 2 * Halves[1]
  /\ \A i, j \in 1 .. Len(Halves) : i < j => Halves[j] < Halves[i]
  /\ Budget \in 3 .. Grid /\ Bases \subseteq 0 .. Grid
  /\ \A s \in Answers : s.detector \in Int /\ s.path \in Int /\ s.admissible \in BOOLEAN
  BY InstancesAssumption DEF Search!SearchConstants

LEMMA CheckpointsAre ==
  /\ Checkpoints \in Seq(1 .. Budget) /\ Len(Checkpoints) > 0
  /\ Checkpoints[Len(Checkpoints)] = Budget
  BY InstancesAssumption DEF Search!CheckpointsNested

LEMMA SearchProjects == [SomeStep]_allVars => [Search!Next]_(Search!vars)
  <1> SUFFICES ASSUME [SomeStep]_allVars PROVE [Search!Next]_(Search!vars)
    OBVIOUS
  <1> USE DEF searchVars, Search!vars
  <1>1. CASE SearchStep BY <1>1 DEF SearchStep
  <1>2. CASE Rest /\ program # "search" BY <1>2 DEF Rest
  <1>3. CASE UNCHANGED allVars BY <1>3 DEF allVars
  <1> QED
    BY <1>1, <1>2, <1>3
    DEF SomeStep, GatesStep, ChainStep, FlowStep, AdaptiveStep, FairnessStep,
        DetectorStep, MotionStep

LEMMA SearchStarts == Start => SearchInv
  <1> SUFFICES ASSUME Start PROVE SearchInv
    OBVIOUS
  <1>1. /\ kind \in {"plane", "line"} /\ base \in IF kind = "line" THEN {0} ELSE Bases
        /\ candidates = <<>> /\ searchOutcome = "searching"
    BY DEF Start, Search!Init
  <1>2. base \in 0 .. Grid BY <1>1, SearchConstantsAre
  <1>3. Len(candidates) = 0 /\ candidates \in Seq(CandidateRows) BY <1>1
  <1>4. 0 <= Budget /\ 1 .. Len(candidates) = {} BY <1>3, SearchConstantsAre
  <1> QED BY <1>1, <1>2, <1>3, <1>4 DEF SearchInv

(* Finitely many rows have a best one: the order is total. *)
LEMMA LeastOfFinite ==
  ASSUME NEW S \in SUBSET Int, IsFiniteSet(S), S # {}
  PROVE  \E m \in S : \A x \in S : m <= x
  <1> DEFINE M == {0 - x : x \in S}
             f == [x \in S |-> 0 - x]
  <1>1. f \in Surjection(S, M) BY DEF Surjection
  <1>2. IsFiniteSet(M) BY <1>1, FS_Surjection
  <1>3. M \in SUBSET Int /\ M # {}
    <2>1. \A x \in S : 0 - x \in Int OBVIOUS
    <2> QED BY <2>1
  <1> HIDE DEF f
  <1>4. PICK m \in M : \A y \in M : y <= m BY <1>2, <1>3, FiniteHasGreatest
  <1>5. PICK z \in S : m = 0 - z BY <1>4
  <1>6. ASSUME NEW x \in S PROVE z <= x
    <2>1. 0 - x \in M /\ x \in Int /\ z \in Int OBVIOUS
    <2> QED BY <2>1, <1>4, <1>5
  <1> QED BY <1>6


First(c) == IF objective = "path" THEN c.path ELSE c.detector
Second(c) == IF objective = "path" THEN c.detector ELSE c.path

LEMMA PrecedesIs ==
  ASSUME NEW c, NEW d
  PROVE  Search!Precedes(c, d) <=>
            \/ First(c) < First(d)
            \/ First(c) = First(d) /\ Second(c) < Second(d)
            \/ First(c) = First(d) /\ Second(c) = Second(d) /\ c.index < d.index
  BY DEF Search!Precedes, First, Second

(* A finite set is not empty after its least figures are kept. *)
LEMMA KeepLeast ==
  ASSUME NEW S, IsFiniteSet(S), S # {}, NEW f \in [S -> Int]
  PROVE  \E m \in Int : LET K == {c \in S : f[c] = m}
                        IN  K # {} /\ IsFiniteSet(K) /\ \A c \in S : m <= f[c]
  <1> DEFINE V == {f[c] : c \in S}
  <1>1. f \in Surjection(S, V) BY DEF Surjection
  <1>2. IsFiniteSet(V) BY <1>1, FS_Surjection
  <1>3. V \in SUBSET Int /\ V # {} OBVIOUS
  <1> HIDE DEF V
  <1>4. PICK m \in V : \A y \in V : m <= y BY <1>2, <1>3, LeastOfFinite
  <1> USE DEF V
  <1>5. {c \in S : f[c] = m} # {} BY <1>4
  <1>6. IsFiniteSet({c \in S : f[c] = m}) BY FS_Subset
  <1>7. \A c \in S : m <= f[c] BY <1>4
  <1> QED BY <1>3, <1>4, <1>5, <1>6, <1>7

LEMMA BestIs ==
  ASSUME NEW S, IsFiniteSet(S), S # {},
         \A c \in S : c.index \in Int /\ c.detector \in Int /\ c.path \in Int,
         \A c, d \in S : c.index = d.index => c = d
  PROVE  /\ Search!Best(S) \in S
         /\ \A d \in S \ {Search!Best(S)} : Search!Precedes(Search!Best(S), d)
  <1> DEFINE f == [c \in S |-> First(c)]
             g == [c \in S |-> Second(c)]
             h == [c \in S |-> c.index]
  <1>0. f \in [S -> Int] /\ g \in [S -> Int] /\ h \in [S -> Int] BY DEF First, Second
  <1> HIDE DEF f, g, h
  <1>1. PICK m \in Int : LET K == {c \in S : f[c] = m}
                         IN  K # {} /\ IsFiniteSet(K) /\ \A c \in S : m <= f[c]
    BY <1>0, KeepLeast, Zenon
  <1> DEFINE K == {c \in S : f[c] = m}
             gK == [c \in K |-> g[c]]
  <1>2. K # {} /\ IsFiniteSet(K) /\ gK \in [K -> Int] /\ \A c \in S : m <= f[c]
    BY <1>0, <1>1
  <1> HIDE DEF K, gK
  <1>3. PICK n \in Int : LET L == {c \in K : gK[c] = n}
                         IN  L # {} /\ IsFiniteSet(L) /\ \A c \in K : n <= gK[c]
    BY <1>2, KeepLeast, Zenon
  <1> DEFINE L == {c \in K : gK[c] = n}
             hL == [c \in L |-> h[c]]
  <1>4. L # {} /\ IsFiniteSet(L) /\ hL \in [L -> Int] /\ \A c \in K : n <= gK[c]
    BY <1>0, <1>3 DEF K
  <1> HIDE DEF L, hL
  <1>5. PICK k \in Int : LET O == {c \in L : hL[c] = k}
                         IN  O # {} /\ IsFiniteSet(O) /\ \A c \in L : k <= hL[c]
    BY <1>4, KeepLeast, Zenon
  <1>6. PICK b \in L : hL[b] = k BY <1>5
  <1>7. \A c \in L : k <= hL[c] BY <1>5
  <1>8. b \in S /\ \A d \in S \ {b} : Search!Precedes(b, d)
    <2>1. b \in K /\ b \in S /\ First(b) = m /\ Second(b) = n /\ b.index = k
      BY <1>6 DEF L, K, f, gK, g, hL, h
    <2>2. ASSUME NEW d \in S, d # b PROVE Search!Precedes(b, d)
      <3>1. First(d) \in Int /\ Second(d) \in Int /\ d.index \in Int BY DEF First, Second
      <3>2. m <= First(d) BY <1>2 DEF f
      <3>3. First(d) = m => n <= Second(d) BY <1>4 DEF K, f, gK, g
      <3>4. First(d) = m /\ Second(d) = n => k <= d.index
        BY <1>7 DEF L, K, f, gK, g, hL, h
      <3>5. d.index # k BY <2>1, <2>2
      <3> QED BY <2>1, <3>1, <3>2, <3>3, <3>4, <3>5, PrecedesIs
    <2> QED BY <2>1, <2>2
  <1>9. \E c \in S : \A d \in S \ {c} : Search!Precedes(c, d) BY <1>8
  <1> QED BY <1>9 DEF Search!Best


LEMMA AskedAre ==
  ASSUME SearchInv
  PROVE  /\ Len(candidates) \in 0 .. Budget /\ DOMAIN candidates = 1 .. Len(candidates)
         /\ Queried = {candidates[i].at : i \in 1 .. Len(candidates)}
         /\ IsFiniteSet(Queried) /\ Cardinality(Queried) = Len(candidates)
  <1>1. /\ Len(candidates) \in 0 .. Budget /\ DOMAIN candidates = 1 .. Len(candidates)
        /\ \A i, j \in 1 .. Len(candidates) : candidates[i].at = candidates[j].at => i = j
    BY SearchConstantsAre DEF SearchInv
  <1>2. Queried = {candidates[i].at : i \in 1 .. Len(candidates)}
    BY <1>1 DEF Search!Asked, Queried
  <1> DEFINE n == Len(candidates)
             f == [i \in 1 .. n |-> candidates[i].at]
  <1>3. IsFiniteSet(1 .. n) /\ Cardinality(1 .. n) = n
    BY <1>1, FS_Interval
  <1>4. f \in Bijection(1 .. n, Queried)
    <2>1. f \in Surjection(1 .. n, Queried) BY <1>2 DEF Surjection
    <2>2. f \in [1 .. n -> Queried] BY <1>2
    <2>3. \A i, j \in 1 .. n : f[i] = f[j] => i = j BY <1>1
    <2>4. f \in Injection(1 .. n, Queried) BY <2>2, <2>3 DEF Injection, IsInjective
    <2> QED BY <2>1, <2>4 DEF Bijection
  <1> HIDE DEF f, n
  <1>5. IsFiniteSet(Queried) /\ Cardinality(Queried) = Cardinality(1 .. n)
    BY <1>3, <1>4, FS_Bijection DEF ExistsBijection
  <1> QED BY <1>1, <1>2, <1>3, <1>5 DEF n

LEMMA RowsAre ==
  ASSUME SearchInv, NEW n \in 1 .. Len(candidates)
  PROVE  /\ IsFiniteSet(Search!Parents(n)) /\ Search!Parents(n) # {}
         /\ IsFiniteSet(Search!Admissible(n))
         /\ Search!Admissible(n) \subseteq Search!Rows(n)
         /\ Search!Parents(n) \subseteq Search!Rows(n)
         /\ \A c \in Search!Rows(n) :
              /\ c.index \in 0 .. n - 1 /\ c = candidates[c.index + 1]
              /\ c.at \in Square
              /\ c.detector \in Int /\ c.path \in Int /\ c.at \in Queried
  <1>0. /\ Len(candidates) \in Nat
        /\ \A i \in 1 .. Len(candidates) : RowIsSound(i) /\ candidates[i] \in CandidateRows
        /\ Queried = {candidates[i].at : i \in 1 .. Len(candidates)}
    BY AskedAre DEF SearchInv
  <1> DEFINE f == [i \in 1 .. n |-> candidates[i]]
  <1>1. f \in Surjection(1 .. n, Search!Rows(n)) BY DEF Surjection, Search!Rows
  <1>2. IsFiniteSet(1 .. n) BY FS_Interval
  <1> HIDE DEF f
  <1>3. IsFiniteSet(Search!Rows(n)) BY <1>1, <1>2, FS_Surjection
  <1>4. Search!Rows(n) # {}
    <2>1. 1 \in 1 .. n BY <1>0
    <2> QED BY <2>1 DEF Search!Rows
  <1>5. Search!Admissible(n) \subseteq Search!Rows(n) BY DEF Search!Admissible
  <1>6. IsFiniteSet(Search!Admissible(n)) BY <1>3, <1>5, FS_Subset
  <1>7. ASSUME NEW c \in Search!Rows(n)
        PROVE  /\ c.index \in 0 .. n - 1 /\ c = candidates[c.index + 1]
               /\ c.at \in Square
               /\ c.detector \in Int /\ c.path \in Int /\ c.at \in Queried
    <2>1. PICK i \in 1 .. n : c = candidates[i] BY DEF Search!Rows
    <2>2. i \in 1 .. Len(candidates) /\ RowIsSound(i) /\ c \in CandidateRows BY <1>0, <2>1
    <2>3. c.index = i - 1 /\ c.at \in Square /\ c.detector \in Int /\ c.path \in Int
      BY <2>1, <2>2 DEF RowIsSound, CandidateRows
    <2> QED BY <1>0, <2>1, <2>2, <2>3
  <1> QED BY <1>3, <1>4, <1>5, <1>6, <1>7 DEF Search!Parents

LEMMA StepsAre ==
  ASSUME NEW n \in 3 .. Budget - 1
  PROVE  LET s == Search!Steps(n)
         IN  /\ Len(s) \in Nat /\ 2 * Len(s) >= n /\ DOMAIN s = 1 .. Len(s)
             /\ \A k \in 1 .. Len(s) : s[k] \in Nat \ {0} /\ 2 * s[k] <= Grid
             /\ \A k, l \in 1 .. Len(s) : s[k] = s[l] => k = l
  <1> DEFINE skipped == (n - 3) \div 2
             top == Search!Least(12, Len(Halves) - skipped)
             s == Search!Steps(n)
  <1>1. /\ Len(Halves) \in Nat /\ Len(Halves) >= 1 /\ Grid = 2 * Halves[1]
        /\ \A i \in 1 .. Len(Halves) : Halves[i] \in Nat \ {0}
        /\ \A i, j \in 1 .. Len(Halves) : i < j => Halves[j] < Halves[i]
        /\ n \in Nat
    BY SearchConstantsAre
  <1>2. skipped \in Nat BY <1>1
  <1>3. s = [level \in 1 .. top |-> Halves[skipped + level]] BY DEF Search!Steps
  <1>4. 2 * Len(s) >= n
    BY InstancesAssumption DEF Search!StepsSuffice
  <1>5. top \in Int /\ top <= Len(Halves) - skipped
    <2>1. \A b \in Int : Search!Least(12, b) \in Int /\ Search!Least(12, b) <= b
      BY DEF Search!Least
    <2>2. Len(Halves) - skipped \in Int BY <1>1, <1>2
    <2> QED BY <2>1, <2>2
  <1>6. top >= 0
    <2>1. CASE top < 0
      <3>1. 1 .. top = {} BY <2>1, <1>5
      <3>2. s = <<>> BY <1>3, <3>1
      <3>3. Len(s) = 0 BY <3>2
      <3> QED BY <1>1, <1>4, <3>3
    <2> QED BY <2>1, <1>5
  <1>7. Len(s) = top /\ DOMAIN s = 1 .. top BY <1>3, <1>5, <1>6
  <1>8. ASSUME NEW k \in 1 .. top
        PROVE  /\ skipped + k \in 1 .. Len(Halves) /\ s[k] = Halves[skipped + k]
               /\ s[k] \in Nat \ {0} /\ s[k] <= Halves[1]
    <2>1. skipped + k \in 1 .. Len(Halves) BY <1>2, <1>5
    <2>2. s[k] = Halves[skipped + k] BY <1>3
    <2>3. Halves[skipped + k] <= Halves[1]
      <3>1. 1 \in 1 .. Len(Halves) /\ (skipped + k = 1 \/ 1 < skipped + k) BY <1>1, <2>1
      <3> HIDE DEF skipped
      <3>2. CASE skipped + k = 1 BY <3>2, <1>1
      <3>3. CASE 1 < skipped + k BY <3>1, <3>3, <2>1, <1>1
      <3> QED BY <3>1, <3>2, <3>3
    <2> QED BY <1>1, <2>1, <2>2, <2>3
  <1>9. ASSUME NEW k \in 1 .. top, NEW l \in 1 .. top, s[k] = s[l] PROVE k = l
    <2>1. skipped + k \in 1 .. Len(Halves) /\ skipped + l \in 1 .. Len(Halves)
          /\ Halves[skipped + k] = Halves[skipped + l]
      BY <1>8, <1>9
    <2> HIDE DEF skipped
    <2>2. ~(skipped + k < skipped + l) /\ ~(skipped + l < skipped + k)
      BY <1>1, <2>1
    <2> QED BY <2>2, <1>2, <1>5
  <1> HIDE DEF s, top, skipped
  <1>10. \A k \in 1 .. top : 2 * s[k] <= Grid BY <1>1, <1>8
  <1> QED BY <1>4, <1>5, <1>6, <1>7, <1>8, <1>9, <1>10 DEF s

LEMMA AwayIs ==
  ASSUME NEW z \in 0 .. Grid, NEW d \in Nat \ {0}, 2 * d <= Grid
  PROVE  /\ Search!Clamp(z + d) \in 0 .. Grid /\ Search!Clamp(z - d) \in 0 .. Grid
         /\ 2 * z <= Grid => Search!Clamp(z + d) = z + d
         /\ ~(2 * z <= Grid) => Search!Clamp(z - d) = z - d
  <1>1. Grid \in Nat /\ z \in Nat /\ z <= Grid BY SearchConstantsAre
  <1>2. \A w \in Int : Search!Clamp(w) = IF w < 0 THEN 0 ELSE IF w > Grid THEN Grid ELSE w
    BY DEF Search!Clamp
  <1>3. z + d \in Int /\ z - d \in Int BY <1>1
  <1>4. Search!Clamp(z + d) = (IF z + d < 0 THEN 0 ELSE IF z + d > Grid THEN Grid ELSE z + d)
        /\ Search!Clamp(z - d) = (IF z - d < 0 THEN 0 ELSE IF z - d > Grid THEN Grid ELSE z - d)
    BY <1>2, <1>3
  <1> QED BY <1>1, <1>4

(* A refinement can always be made: away from the nearer ends every step of  *)
(* the list leads to another point, and there are more than were asked.      *)
LEMMA ParentsAreOpen ==
  ASSUME SearchInv, Len(candidates) \in 3 .. Budget - 1,
         NEW c \in Search!Parents(Len(candidates))
  PROVE  Search!FreshMoves(c) # {}
  <1> DEFINE n == Len(candidates)
             s == Search!Steps(n)
             K == Len(s)
             x == c.at[1]
             y == c.at[2]
             away(z, d) == IF 2 * z <= Grid THEN z + d ELSE z - d
             f == [k \in 1 .. 2 * K |->
                     IF k <= K THEN <<x, away(y, s[k])>> ELSE <<away(x, s[k - K]), y>>]
  <1>1. /\ K \in Nat /\ 2 * K >= n /\ DOMAIN s = 1 .. K
        /\ \A k \in 1 .. K : s[k] \in Nat \ {0} /\ 2 * s[k] <= Grid
        /\ \A k, l \in 1 .. K : s[k] = s[l] => k = l
    BY StepsAre
  <1>2. x \in 0 .. Grid /\ y \in 0 .. Grid /\ c.at = <<x, y>> /\ c.at \in Queried
    <2>1. c.at \in Square /\ c.at \in Queried BY RowsAre
    <2> QED BY <2>1 DEF Square
  <1>3. IsFiniteSet(Queried) /\ Cardinality(Queried) = n /\ n \in Nat BY AskedAre
  <1>4. ASSUME Search!FreshMoves(c) = {} PROVE FALSE
    <2>1. ASSUME NEW k \in 1 .. K
          PROVE  <<x, away(y, s[k])>> \in Queried /\ <<away(x, s[k]), y>> \in Queried
      <3>1. <<k, 1>> \in (1 .. K) \X (1 .. 4) /\ <<k, 3>> \in (1 .. K) \X (1 .. 4) OBVIOUS
      <3>2. \A m \in (1 .. K) \X (1 .. 4) : Search!Moves(c.at, s[m[1]])[m[2]] \in Queried
        BY <1>4 DEF Search!FreshMoves, Search!Fresh, Queried
      <3>3. Search!Moves(c.at, s[k])[1] \in Queried /\ Search!Moves(c.at, s[k])[3] \in Queried
        BY <3>1, <3>2
      <3>4. \A z \in 0 .. Grid :
                (IF 2 * z <= Grid THEN Search!Clamp(z + s[k]) ELSE Search!Clamp(z - s[k]))
                    = away(z, s[k])
        <4>1. s[k] \in Nat \ {0} /\ 2 * s[k] <= Grid BY <1>1
        <4> HIDE DEF s
        <4> QED BY <4>1, AwayIs
      <3> HIDE DEF away, s
      <3>5. Search!Moves(c.at, s[k])[1] = <<x, away(y, s[k])>>
            /\ Search!Moves(c.at, s[k])[3] = <<away(x, s[k]), y>>
        BY <1>2, <3>4 DEF Search!Moves
      <3> QED BY <3>3, <3>5
    <2>2. ASSUME NEW k \in 1 .. K, NEW z \in 0 .. Grid
          PROVE  away(z, s[k]) # z /\ away(z, s[k]) \in Int
      <3>1. s[k] \in Nat \ {0} /\ z \in Int BY <1>1, SearchConstantsAre
      <3> HIDE DEF s
      <3> QED BY <3>1
    <2>3. ASSUME NEW k \in 1 .. K, NEW l \in 1 .. K, NEW z \in 0 .. Grid,
                 away(z, s[k]) = away(z, s[l])
          PROVE  k = l
      <3>0. s[k] \in Nat \ {0} /\ s[l] \in Nat \ {0} /\ z \in Int BY <1>1, SearchConstantsAre
      <3> HIDE DEF s
      <3>1. s[k] = s[l] BY <3>0, <2>3
      <3> QED BY <3>1, <1>1
    <2> HIDE DEF away, s, K, n, x, y
    <2>0. /\ DOMAIN f = 1 .. 2 * K
          /\ \A k \in 1 .. 2 * K :
               f[k] = IF k <= K THEN <<x, away(y, s[k])>> ELSE <<away(x, s[k - K]), y>>
          /\ f = [k \in 1 .. 2 * K |-> f[k]]
      OBVIOUS
    <2> HIDE DEF f
    <2>4. f \in [1 .. 2 * K -> Queried \ {c.at}]
      <3>1. ASSUME NEW k \in 1 .. 2 * K PROVE f[k] \in Queried \ {c.at}
        <4>1. CASE k <= K
          <5>1. k \in 1 .. K BY <4>1, <1>1
          <5>2. f[k] = <<x, away(y, s[k])>> BY <4>1, <2>0
          <5>3. away(y, s[k]) # y /\ f[k] \in Queried BY <5>1, <5>2, <2>1, <2>2, <1>2
          <5> QED BY <5>2, <5>3, <1>2
        <4>2. CASE ~(k <= K)
          <5>1. k - K \in 1 .. K BY <4>2, <1>1
          <5>2. f[k] = <<away(x, s[k - K]), y>> BY <4>2, <2>0
          <5>3. away(x, s[k - K]) # x /\ f[k] \in Queried BY <5>1, <5>2, <2>1, <2>2, <1>2
          <5> QED BY <5>2, <5>3, <1>2
        <4> QED BY <4>1, <4>2
      <3> QED BY <3>1, <2>0
    <2>5. ASSUME NEW k \in 1 .. 2 * K, NEW l \in 1 .. 2 * K, f[k] = f[l] PROVE k = l
      <3>1. f[k] = IF k <= K THEN <<x, away(y, s[k])>> ELSE <<away(x, s[k - K]), y>> BY <2>0
      <3>2. f[l] = IF l <= K THEN <<x, away(y, s[l])>> ELSE <<away(x, s[l - K]), y>> BY <2>0
      <3>3. CASE k <= K /\ l <= K
        <4>1. k \in 1 .. K /\ l \in 1 .. K /\ away(y, s[k]) = away(y, s[l])
          BY <3>1, <3>2, <3>3, <2>5, <1>1
        <4> QED BY <4>1, <2>3, <1>2
      <3>4. CASE ~(k <= K) /\ ~(l <= K)
        <4>1. k - K \in 1 .. K /\ l - K \in 1 .. K /\ away(x, s[k - K]) = away(x, s[l - K])
          BY <3>1, <3>2, <3>4, <2>5, <1>1
        <4>2. k - K = l - K BY <4>1, <2>3, <1>2
        <4> QED BY <4>2, <1>1
      <3>5. CASE k <= K /\ ~(l <= K)
        <4>1. l - K \in 1 .. K /\ x = away(x, s[l - K]) BY <3>1, <3>2, <3>5, <2>5, <1>1
        <4> QED BY <4>1, <2>2, <1>2
      <3>6. CASE ~(k <= K) /\ l <= K
        <4>1. k - K \in 1 .. K /\ x = away(x, s[k - K]) BY <3>1, <3>2, <3>6, <2>5, <1>1
        <4> QED BY <4>1, <2>2, <1>2
      <3> QED BY <3>3, <3>4, <3>5, <3>6
    <2>6. IsFiniteSet(1 .. 2 * K) /\ Cardinality(1 .. 2 * K) = 2 * K
      <3>1. 1 \in Int /\ 2 * K \in Int /\ 2 * K >= 0 BY <1>1
      <3>2. IsFiniteSet(1 .. 2 * K)
            /\ Cardinality(1 .. 2 * K) = IF 1 > 2 * K THEN 0 ELSE 2 * K - 1 + 1
        BY <3>1, FS_Interval
      <3> QED BY <3>1, <3>2
    <2>7. IsFiniteSet(Queried \ {c.at}) /\ Cardinality(Queried \ {c.at}) = n - 1
      BY <1>2, <1>3, FS_RemoveElement
    <2>8. Cardinality(Queried \ {c.at}) < Cardinality(1 .. 2 * K)
      <3>1. n - 1 < 2 * K BY <1>1, <1>3
      <3> QED BY <3>1, <2>6, <2>7
    <2>9. PICK k \in 1 .. 2 * K, l \in 1 .. 2 * K : k # l /\ f[k] = f[l]
      <3> DEFINE from == 1 .. 2 * K
                 to == Queried \ {c.at}
      <3>1. IsFiniteSet(from) /\ IsFiniteSet(to) /\ Cardinality(to) < Cardinality(from)
            /\ f \in [from -> to]
        BY <2>4, <2>6, <2>7, <2>8
      <3> HIDE DEF from, to
      <3>2. \E k, l \in from : k # l /\ f[k] = f[l] BY <3>1, FS_PigeonHole
      <3> QED BY <3>2 DEF from
    <2> QED BY <2>5, <2>9
  <1> QED BY <1>4


(* The line is not used up: fewer points were asked than the grid has, so    *)
(* an interval between two of them holds a third, and its middle is new.     *)
LEMMA PointsAre ==
  ASSUME SearchInv, kind = "line", Len(candidates) \in 2 .. Budget - 1
  PROVE  /\ Search!Points \subseteq 0 .. Grid /\ {0, Grid} \subseteq Search!Points
         /\ IsFiniteSet(Search!Points) /\ Cardinality(Search!Points) \in Nat
         /\ Cardinality(Search!Points) <= Grid
         /\ Search!Points = {candidates[i].at[1] : i \in 1 .. Len(candidates)}
  <1> DEFINE n == Len(candidates)
             P == {candidates[i].at[1] : i \in 1 .. n}
             f == [i \in 1 .. n |-> candidates[i].at[1]]
  <1>1. /\ n \in Nat /\ n >= 2 /\ n < Grid /\ DOMAIN candidates = 1 .. n
        /\ Grid \in Nat
    BY AskedAre, SearchConstantsAre
  <1>2. \A i \in 1 .. n : candidates[i].at[1] \in 0 .. Grid
    <2>0. candidates \in Seq(CandidateRows) BY DEF SearchInv
    <2>1. ASSUME NEW i \in 1 .. n PROVE candidates[i].at \in Square
      <3>1. candidates[i] \in CandidateRows BY <2>0
      <3> QED BY <3>1 DEF CandidateRows
    <2> QED BY <2>1 DEF Square
  <1>3. candidates[1].at[1] = 0 /\ candidates[2].at[1] = Grid
    <2>1. 1 \in 1 .. n /\ 2 \in 1 .. n BY <1>1
    <2>2. \A i \in 1 .. n : RowOfLine(i) BY DEF SearchInv
    <2> QED BY <2>1, <2>2 DEF RowOfLine
  <1>4. 0 \in P /\ Grid \in P BY <1>1, <1>3
  <1>5. Search!Points = P BY <1>1, <1>4 DEF Search!Points
  <1>6. f \in Surjection(1 .. n, P) BY DEF Surjection
  <1>7. IsFiniteSet(1 .. n) /\ Cardinality(1 .. n) = n
    <2>1. 1 \in Int /\ n \in Int BY <1>1
    <2>2. IsFiniteSet(1 .. n) /\ Cardinality(1 .. n) = IF 1 > n THEN 0 ELSE n - 1 + 1
      BY <2>1, FS_Interval
    <2> QED BY <1>1, <2>2
  <1> HIDE DEF f, P, n
  <1>8. IsFiniteSet(P) /\ Cardinality(P) <= Cardinality(1 .. n) BY <1>6, <1>7, FS_Surjection
  <1>9. Cardinality(P) \in Nat BY <1>8, FS_CardinalityType
  <1>10. P \subseteq 0 .. Grid BY <1>2 DEF P
  <1>11. Search!Points = {candidates[i].at[1] : i \in 1 .. Len(candidates)} BY <1>5 DEF P, n
  <1> QED BY <1>1, <1>4, <1>5, <1>7, <1>8, <1>9, <1>10, <1>11

LEMMA GapHolds ==
  ASSUME SearchInv, kind = "line", Len(candidates) \in 2 .. Budget - 1
  PROVE  \E i \in Search!Intervals : i[2] - i[1] > 1
  <1> DEFINE P == Search!Points
  <1>1. /\ P \subseteq 0 .. Grid /\ 0 \in P /\ Grid \in P
        /\ IsFiniteSet(P) /\ Cardinality(P) \in Nat /\ Cardinality(P) <= Grid
        /\ Grid \in Nat
    BY PointsAre, SearchConstantsAre
  <1> HIDE DEF P
  <1>2. PICK x \in 0 .. Grid : x \notin P
    <2>1. SUFFICES ASSUME 0 .. Grid \subseteq P PROVE FALSE
      OBVIOUS
    <2>2. 0 \in Int /\ Grid \in Int BY <1>1
    <2>3. Cardinality(0 .. Grid) = IF 0 > Grid THEN 0 ELSE Grid - 0 + 1 BY <2>2, FS_Interval
    <2>4. Cardinality(0 .. Grid) <= Cardinality(P) BY <1>1, <2>1, FS_Subset
    <2> QED BY <1>1, <2>3, <2>4
  <1> DEFINE B == {p \in P : p < x}
             T == {p \in P : p > x}
  <1>3. /\ B \in SUBSET Int /\ T \in SUBSET Int /\ IsFiniteSet(B) /\ IsFiniteSet(T)
        /\ 0 \in B /\ Grid \in T
    <2>1. IsFiniteSet(B) /\ IsFiniteSet(T) BY <1>1, FS_Subset
    <2>2. 0 < x /\ x < Grid BY <1>1, <1>2
    <2>3. 0 \in B /\ Grid \in T BY <1>1, <2>2
    <2>4. B \subseteq 0 .. Grid /\ T \subseteq 0 .. Grid BY <1>1
    <2>5. 0 .. Grid \subseteq Int OBVIOUS
    <2>6. B \in SUBSET Int /\ T \in SUBSET Int BY <2>4, <2>5
    <2> QED BY <2>1, <2>3, <2>6
  <1> HIDE DEF B, T
  <1>4. PICK a \in B : \A p \in B : p <= a BY <1>3, FiniteHasGreatest
  <1>5. PICK b \in T : \A p \in T : b <= p BY <1>3, LeastOfFinite
  <1> USE DEF B, T
  <1>6. a \in P /\ b \in P /\ a \in Int /\ b \in Int /\ x \in Int /\ a < x /\ x < b
    BY <1>1
  <1>7. \A p \in P : p <= a \/ p >= b
    <2>1. ASSUME NEW p \in P PROVE p <= a \/ p >= b
      <3>1. p \in Int /\ p # x BY <1>1, <1>2
      <3>2. CASE p < x BY <3>2, <1>4
      <3>3. CASE p > x BY <3>3, <1>5, <1>6, <3>1
      <3> QED BY <3>1, <3>2, <3>3, <1>6
    <2> QED BY <2>1
  <1>8. <<a, b>> \in Search!Intervals
    <2>1. a < b BY <1>6
    <2> QED BY <2>1, <1>6, <1>7 DEF Search!Intervals, P
  <1>9. <<a, b>>[2] - <<a, b>>[1] > 1 BY <1>6
  <1> QED BY <1>8, <1>9

LEMMA WidestIs ==
  ASSUME SearchInv, kind = "line", Len(candidates) \in 2 .. Budget - 1
  PROVE  LET w == Search!Widest
         IN  /\ w[1] \in 0 .. Grid /\ w[2] \in 0 .. Grid /\ w[2] - w[1] > 1
             /\ \A p \in Search!Points : p <= w[1] \/ p >= w[2]
  <1> DEFINE I == Search!Intervals
             f == [i \in I |-> i[1] - i[2]]
             g == [i \in I |-> i[1]]
  <1>1. /\ Search!Points \subseteq 0 .. Grid /\ IsFiniteSet(Search!Points) BY PointsAre
  <1>2. I \subseteq Search!Points \X Search!Points BY DEF Search!Intervals
  <1>3. IsFiniteSet(I)
    <2>1. IsFiniteSet(Search!Points \X Search!Points) BY <1>1, FS_Product
    <2> QED BY <1>2, <2>1, FS_Subset
  <1>4. I # {} /\ \E i \in I : i[2] - i[1] > 1 BY GapHolds
  <1>5. \A i \in I : i[1] \in 0 .. Grid /\ i[2] \in 0 .. Grid /\ i[1] \in Int /\ i[2] \in Int
    <2>1. ASSUME NEW i \in I PROVE i[1] \in 0 .. Grid /\ i[2] \in 0 .. Grid
      <3>1. i \in Search!Points \X Search!Points BY <1>2
      <3>2. i[1] \in Search!Points /\ i[2] \in Search!Points BY <3>1
      <3> QED BY <1>1, <3>2
    <2> HIDE DEF I
    <2>2. 0 .. Grid \subseteq Int OBVIOUS
    <2> QED BY <2>1, <2>2
  <1>6. f \in [I -> Int] /\ g \in [I -> Int] BY <1>5
  <1>7. \A i \in I : f[i] = i[1] - i[2] /\ g[i] = i[1] OBVIOUS
  <1> HIDE DEF f, g
  <1>8. PICK m \in Int : LET K == {i \in I : f[i] = m}
                         IN  K # {} /\ IsFiniteSet(K) /\ \A i \in I : m <= f[i]
    BY <1>3, <1>4, <1>6, KeepLeast, Zenon
  <1> DEFINE K == {i \in I : f[i] = m}
             gK == [i \in K |-> g[i]]
  <1>9. K # {} /\ IsFiniteSet(K) /\ gK \in [K -> Int] /\ \A i \in I : m <= f[i]
    BY <1>6, <1>8
  <1>10. \A i \in K : gK[i] = i[1] /\ i \in I /\ f[i] = m BY <1>7
  <1> HIDE DEF K, gK
  <1>11. PICK l \in Int : LET L == {i \in K : gK[i] = l}
                          IN  L # {} /\ IsFiniteSet(L) /\ \A i \in K : l <= gK[i]
    BY <1>9, KeepLeast, Zenon
  <1>12. PICK w \in K : gK[w] = l /\ \A i \in K : l <= gK[i] BY <1>11
  <1>13. ASSUME NEW j \in I
         PROVE  \/ w[2] - w[1] > j[2] - j[1]
                \/ w[2] - w[1] = j[2] - j[1] /\ w[1] <= j[1]
    <2>1. w \in I /\ w[1] - w[2] = m /\ w[1] = l BY <1>7, <1>10, <1>12
    <2>2. m <= j[1] - j[2] BY <1>7, <1>9
    <2>3. j[1] - j[2] = m => l <= j[1] BY <1>7, <1>10, <1>12 DEF K
    <2>4. j[1] \in Int /\ j[2] \in Int /\ w[1] \in Int /\ w[2] \in Int BY <1>5, <2>1
    <2> QED BY <2>1, <2>2, <2>3, <2>4
  <1>14. w \in I BY <1>10, <1>12
  <1>15. \E i \in I : \A j \in I : \/ i[2] - i[1] > j[2] - j[1]
                                   \/ i[2] - i[1] = j[2] - j[1] /\ i[1] <= j[1]
    BY <1>13, <1>14
  <1>16. /\ Search!Widest \in I
         /\ \A j \in I : \/ Search!Widest[2] - Search!Widest[1] > j[2] - j[1]
                         \/ /\ Search!Widest[2] - Search!Widest[1] = j[2] - j[1]
                            /\ Search!Widest[1] <= j[1]
    BY <1>15 DEF Search!Widest
  <1>17. Search!Widest[2] - Search!Widest[1] > 1
    <2>1. PICK j \in I : j[2] - j[1] > 1 BY <1>4
    <2> HIDE DEF I
    <2>2. j[1] \in Int /\ j[2] \in Int /\ Search!Widest[1] \in Int /\ Search!Widest[2] \in Int
      BY <1>5, <1>16
    <2> QED BY <2>1, <2>2, <1>16
  <1>18. \A p \in Search!Points : p <= Search!Widest[1] \/ p >= Search!Widest[2]
    BY <1>16 DEF Search!Intervals
  <1>19. Search!Widest[1] \in 0 .. Grid /\ Search!Widest[2] \in 0 .. Grid BY <1>5, <1>16
  <1> QED BY <1>17, <1>18, <1>19


(* A query that goes through adds one row, of a point that was not asked.    *)
LEMMA RowAdded ==
  ASSUME SearchInv, NEW r \in CandidateRows, candidates' = Append(candidates, r)
  PROVE  /\ candidates' \in Seq(CandidateRows) /\ Len(candidates') = Len(candidates) + 1
         /\ candidates'[Len(candidates) + 1] = r
         /\ \A i \in 1 .. Len(candidates) : candidates'[i] = candidates[i]
  <1>1. candidates \in Seq(CandidateRows) BY DEF SearchInv
  <1> QED BY <1>1

LEMMA SearchFrame ==
  ASSUME objective' = objective
  PROVE  \A S : (Search!Best(S))' = Search!Best(S)
  <1>1. \A c, d : (Search!Precedes(c, d))' <=> Search!Precedes(c, d)
    BY DEF Search!Precedes
  <1> QED BY <1>1 DEF Search!Best

LEMMA ParentsStay ==
  ASSUME SearchInv, NEW r \in CandidateRows, candidates' = Append(candidates, r), NEW n \in 1 .. Len(candidates)
  PROVE  Search!Parents(n)' = Search!Parents(n)
  <1>1. \A i \in 1 .. n : candidates'[i] = candidates[i]
    BY RowAdded, AskedAre
  <1>2. Search!Rows(n)' = Search!Rows(n) BY <1>1 DEF Search!Rows
  <1>3. Search!Admissible(n)' = Search!Admissible(n) BY <1>2 DEF Search!Admissible
  <1> QED BY <1>2, <1>3 DEF Search!Parents

LEMMA RefinementIs ==
  ASSUME SearchInv, Len(candidates) \in 3 .. Budget - 1
  PROVE  LET best == Search!Best(Search!Parents(Len(candidates)))
             next == Search!Refinement
         IN  /\ next # <<>> /\ next[1].phase = "refinement" /\ next[1].parent = best.index
             /\ best.index \in 0 .. Len(candidates) - 1 /\ best = candidates[best.index + 1]
             /\ next[1].at \in Square /\ next[1].at \notin Queried
             /\ \E i \in 1 .. 2 : next[1].at[i] = best.at[i]
  <1> DEFINE n == Len(candidates)
             P == Search!Parents(n)
             best == Search!Best(P)
             s == Search!Steps(n)
             first == CHOOSE k \in Search!FreshMoves(best) :
                          \A j \in Search!FreshMoves(best) : Search!Earlier(k, j)
  <1>0. n \in 1 .. Len(candidates) /\ n \in Nat BY AskedAre
  <1>1. {c \in P : Search!FreshMoves(c) # {}} = P BY ParentsAreOpen
  <1>2. /\ IsFiniteSet(P) /\ P # {} /\ P \subseteq Search!Rows(n)
        /\ \A c \in Search!Rows(n) :
              /\ c.index \in 0 .. n - 1 /\ c = candidates[c.index + 1]
              /\ c.at \in Square /\ c.detector \in Int /\ c.path \in Int
    BY <1>0, RowsAre
  <1>3. best \in P
    <2>1. \A c \in P : c.index \in Int /\ c.detector \in Int /\ c.path \in Int BY <1>2
    <2>2. \A c, d \in P : c.index = d.index => c = d BY <1>2
    <2> HIDE DEF P
    <2> QED BY <1>2, <2>1, <2>2, BestIs
  <1>4. Search!FreshMoves(best) # {} BY <1>3, ParentsAreOpen
  <1>5. /\ Len(s) \in Nat /\ DOMAIN s = 1 .. Len(s)
        /\ \A k \in 1 .. Len(s) : s[k] \in Nat \ {0} /\ 2 * s[k] <= Grid
    BY StepsAre
  <1>6. Search!FreshMoves(best) \subseteq (1 .. Len(s)) \X (1 .. 4)
        /\ \A k \in Search!FreshMoves(best) : Search!Moves(best.at, s[k[1]])[k[2]] \notin Queried
    BY DEF Search!FreshMoves, Search!Fresh, Queried
  <1>7. first \in Search!FreshMoves(best)
    <2> DEFINE F == Search!FreshMoves(best)
               S == {k[1] : k \in F}
    <2>1. S \subseteq Nat /\ S # {} BY <1>4, <1>5, <1>6
    <2>2. PICK a \in S : \A b \in S : a <= b
      <3> HIDE DEF S
      <3> QED BY <2>1, LeastNumber
    <2> DEFINE U == {k[2] : k \in {j \in F : j[1] = a}}
    <2>3. U \subseteq Nat /\ U # {} BY <1>6, <2>2
    <2>4. PICK u \in U : \A b \in U : u <= b
      <3> HIDE DEF U
      <3> QED BY <2>3, LeastNumber
    <2>5. PICK k \in F : k[1] = a /\ k[2] = u BY <2>4
    <2>6. ASSUME NEW j \in F PROVE Search!Earlier(k, j)
      <3>1. a <= j[1] /\ j[1] \in Nat /\ a \in Nat BY <2>1, <2>2
      <3>2. j[1] = a => u <= j[2] BY <2>4
      <3> QED BY <2>5, <3>1, <3>2 DEF Search!Earlier
    <2> QED BY <2>5, <2>6
  <1>8. first[1] \in 1 .. Len(s) /\ first[2] \in 1 .. 4 BY <1>6, <1>7
  <1> DEFINE d == s[first[1]]
             x == best.at[1]
             y == best.at[2]
             moved == Search!Moves(best.at, d)[first[2]]
  <1>9. Search!Refinement = <<[phase |-> "refinement", parent |-> best.index, at |-> moved]>>
    BY <1>1, <1>2 DEF Search!Refinement
  <1>10. moved \notin Queried BY <1>6, <1>7
  <1>11. d \in Nat \ {0} /\ 2 * d <= Grid BY <1>5, <1>8
  <1>12. best.at \in Square /\ best \in Search!Rows(n) BY <1>2, <1>3
  <1>13. x \in 0 .. Grid /\ y \in 0 .. Grid BY <1>12 DEF Square
  <1> HIDE DEF d, first, best, s
  <1>14. moved \in Square /\ \E i \in 1 .. 2 : moved[i] = best.at[i]
    <2>1. /\ Search!Clamp(x + d) \in 0 .. Grid /\ Search!Clamp(x - d) \in 0 .. Grid
          /\ Search!Clamp(y + d) \in 0 .. Grid /\ Search!Clamp(y - d) \in 0 .. Grid
      BY <1>11, <1>13, AwayIs
    <2>2. \/ \E v \in 0 .. Grid : moved = <<x, v>>
          \/ \E v \in 0 .. Grid : moved = <<v, y>>
      <3> HIDE DEF x, y
      <3>1. first[2] \in {1, 2, 3, 4} BY <1>8
      <3>2. Search!Moves(best.at, d) =
               <<<<x, IF 2 * y <= Grid THEN Search!Clamp(y + d) ELSE Search!Clamp(y - d)>>,
                 <<x, IF 2 * y <= Grid THEN Search!Clamp(y - d) ELSE Search!Clamp(y + d)>>,
                 <<IF 2 * x <= Grid THEN Search!Clamp(x + d) ELSE Search!Clamp(x - d), y>>,
                 <<IF 2 * x <= Grid THEN Search!Clamp(x - d) ELSE Search!Clamp(x + d), y>>>>
        BY DEF Search!Moves, x, y
      <3> HIDE DEF moved
      <3>3. moved = Search!Moves(best.at, d)[first[2]] BY DEF moved
      <3>4. CASE first[2] \in {1, 2}
        <4>1. moved[1] = x /\ moved = <<x, moved[2]>> /\ moved[2] \in 0 .. Grid
          BY <3>2, <3>3, <3>4, <2>1
        <4> QED BY <4>1
      <3>5. CASE first[2] \in {3, 4}
        <4>1. moved[2] = y /\ moved = <<moved[1], y>> /\ moved[1] \in 0 .. Grid
          BY <3>2, <3>3, <3>5, <2>1
        <4> QED BY <4>1
      <3> QED BY <3>1, <3>4, <3>5
    <2> HIDE DEF moved
    <2>3. CASE \E v \in 0 .. Grid : moved = <<x, v>>
      <3>1. moved[1] = best.at[1] /\ moved \in Square BY <2>3, <1>13 DEF Square
      <3> QED BY <3>1
    <2>4. CASE \E v \in 0 .. Grid : moved = <<v, y>>
      <3>1. moved[2] = best.at[2] /\ moved \in Square BY <2>4, <1>13 DEF Square
      <3> QED BY <3>1
    <2> QED BY <2>2, <2>3, <2>4
  <1>15. best.index \in 0 .. n - 1 /\ best = candidates[best.index + 1] BY <1>2, <1>12
  <1> HIDE DEF moved
  <1>16. /\ Search!Refinement # <<>> /\ Search!Refinement[1].phase = "refinement"
         /\ Search!Refinement[1].parent = best.index /\ Search!Refinement[1].at = moved
    BY <1>9
  <1> QED BY <1>10, <1>14, <1>15, <1>16 DEF best


(* What a point of the next query is like, whatever the kind of the search.  *)
LEMMA NextPointIs ==
  ASSUME SearchInv, Len(candidates) < Budget
  PROVE  LET next == Search!NextPoint
             p == next[1]
             n == Len(candidates)
             best == Search!Best(Search!Parents(n))
         IN  /\ next # <<>> /\ p.at \in Square /\ p.at \notin Queried
             /\ p.phase \in PhaseNames /\ p.parent \in -1 .. n - 1
             /\ kind = "plane" =>
                  /\ n < 3 => /\ p.phase = Search!Phases[n + 1]
                              /\ p.at = Search!Seeds(base)[n + 1]
                  /\ n >= 3 => /\ p.phase = "refinement" /\ p.parent >= 0
                               /\ best = candidates[p.parent + 1]
                               /\ \E i \in 1 .. 2 : p.at[i] = best.at[i]
             /\ kind = "line" => /\ p.at[2] = 0
                                 /\ n = 0 => p.at[1] = 0
                                 /\ n = 1 => p.at[1] = Grid
  <1> DEFINE n == Len(candidates)
             next == Search!NextPoint
  <1>1. /\ n \in Nat /\ n < Budget /\ Budget \in Nat /\ base \in 0 .. Grid
        /\ kind \in {"plane", "line"} /\ Grid \in Nat /\ Grid > 0
        /\ Queried = {candidates[i].at : i \in 1 .. n}
    <2>1. Grid \in Nat /\ Budget \in Nat /\ Grid > 0 BY SearchConstantsAre
    <2>2. n \in Nat /\ Queried = {candidates[i].at : i \in 1 .. n} BY AskedAre
    <2> QED BY <2>1, <2>2 DEF SearchInv
  <1>2. CASE kind = "plane" /\ n < 3
    <2> DEFINE point == [phase |-> Search!Phases[n + 1], at |-> Search!Seeds(base)[n + 1],
                         parent |-> -1]
    <2>1. next = <<point>> BY <1>2 DEF Search!NextPoint, Search!NextPlane
    <2>2. n \in {0, 1, 2}
      <3>1. n \in Nat /\ n < 3 BY <1>1, <1>2
      <3> HIDE DEF n
      <3> QED BY <3>1
    <2>3. Search!Phases[n + 1] \in PhaseNames
      <3> HIDE DEF n
      <3> QED BY <2>2 DEF Search!Phases, PhaseNames
    <2>4. PICK t \in {0, Grid} : Search!Seeds(base) = <<<<base, base>>, <<t, base>>, <<base, t>>>>
                                 /\ t # base
      <3>1. CASE 2 * base < Grid
        <4>1. Search!Seeds(base) = <<<<base, base>>, <<Grid, base>>, <<base, Grid>>>>
          BY <3>1 DEF Search!Seeds
        <4> QED BY <4>1, <3>1, <1>1
      <3>2. CASE ~(2 * base < Grid)
        <4>1. Search!Seeds(base) = <<<<base, base>>, <<0, base>>, <<base, 0>>>>
          BY <3>2 DEF Search!Seeds
        <4> QED BY <4>1, <3>2, <1>1
      <3> QED BY <3>1, <3>2
    <2>5. Search!Seeds(base)[n + 1] \in Square
      <3> HIDE DEF n
      <3>1. {base, t} \subseteq 0 .. Grid BY <1>1, <2>4
      <3>2. Search!Seeds(base)[n + 1] \in {<<base, base>>, <<t, base>>, <<base, t>>}
        BY <2>2, <2>4
      <3> QED BY <3>1, <3>2 DEF Square
    <2>6. Search!Seeds(base)[n + 1] \notin Queried
      <3>1. ASSUME NEW i \in 1 .. n PROVE candidates[i].at = Search!Seeds(base)[i]
        <4>1. RowOfPlane(i) BY <1>2 DEF SearchInv
        <4>2. i <= 3 BY <1>1, <1>2
        <4> QED BY <4>1, <4>2 DEF RowOfPlane
      <3>2. \A i \in 1 .. n : Search!Seeds(base)[n + 1] # Search!Seeds(base)[i]
        <4>1. CASE n = 0 BY <4>1
        <4>2. CASE n = 1
          <5>1. 1 .. n = {1} BY <4>2
          <5> QED BY <5>1, <4>2, <2>4
        <4>3. CASE n = 2
          <5>1. 1 .. n = {1, 2} BY <4>3
          <5> QED BY <5>1, <4>3, <2>4
        <4> QED BY <2>2, <4>1, <4>2, <4>3
      <3> QED BY <1>1, <3>1, <3>2
    <2> QED BY <1>1, <1>2, <2>1, <2>3, <2>5, <2>6
  <1>3. CASE kind = "plane" /\ n >= 3
    <2>1. next = Search!Refinement BY <1>1, <1>3 DEF Search!NextPoint, Search!NextPlane
    <2>2. n \in 3 .. Budget - 1 BY <1>1, <1>3
    <2> DEFINE best == Search!Best(Search!Parents(n))
    <2>3. /\ next # <<>> /\ next[1].phase = "refinement" /\ next[1].parent = best.index
          /\ best.index \in 0 .. n - 1 /\ best = candidates[best.index + 1]
          /\ next[1].at \in Square /\ next[1].at \notin Queried
          /\ \E i \in 1 .. 2 : next[1].at[i] = best.at[i]
      BY <2>1, <2>2, RefinementIs
    <2> HIDE DEF next, best, n
    <2>4. next[1].parent \in -1 .. n - 1 /\ next[1].parent >= 0 BY <1>1, <2>3
    <2>5. best = candidates[next[1].parent + 1] /\ ~(n < 3) /\ kind # "line"
          /\ next[1].phase \in PhaseNames
      BY <1>1, <1>3, <2>3 DEF PhaseNames
    <2> QED BY <1>3, <2>3, <2>4, <2>5 DEF next, best, n
  <1>4. CASE kind = "line"
    <2> DEFINE point(x) == [phase |-> "line", at |-> <<x, 0>>, parent |-> -1]
    <2>1. \A i \in 1 .. n : RowOfLine(i) BY <1>4 DEF SearchInv
    <2>2. next = Search!NextLine BY <1>4 DEF Search!NextPoint
    <2>3. \E x \in 0 .. Grid : /\ next = <<point(x)>> /\ <<x, 0>> \notin Queried
                               /\ n = 0 => x = 0
                               /\ n = 1 => x = Grid
      <3>1. CASE n = 0
        <4>1. next = <<point(0)>> BY <2>2, <3>1 DEF Search!NextLine
        <4>2. Queried = {} BY <1>1, <3>1
        <4> QED BY <1>1, <3>1, <4>1, <4>2
      <3>2. CASE n = 1
        <4>1. next = <<point(Grid)>> BY <2>2, <3>2 DEF Search!NextLine
        <4>2. 1 .. n = {1} /\ RowOfLine(1) BY <2>1, <3>2
        <4>3. \A q \in Queried : q[1] = 0 BY <1>1, <4>2 DEF RowOfLine
        <4>4. <<Grid, 0>> \notin Queried BY <1>1, <4>3
        <4> QED BY <1>1, <3>2, <4>1, <4>4
      <3>3. CASE n >= 2
        <4> DEFINE w == Search!Widest
                   x == (w[1] + w[2]) \div 2
        <4>1. n \in 2 .. Budget - 1 BY <1>1, <3>3
        <4>2. /\ w[1] \in 0 .. Grid /\ w[2] \in 0 .. Grid /\ w[2] - w[1] > 1
              /\ \A p \in Search!Points : p <= w[1] \/ p >= w[2]
          BY <4>1, <1>4, WidestIs
        <4>3. Search!Points = {candidates[i].at[1] : i \in 1 .. n}
              /\ Search!Points \subseteq 0 .. Grid
          BY <4>1, <1>4, PointsAre
        <4>4. next = <<point(x)>>
          BY <2>2, <3>3, <4>1, <4>2 DEF Search!NextLine
        <4> HIDE DEF w
        <4>5. w[1] < x /\ x < w[2] /\ x \in 0 .. Grid BY <4>2, <1>1
        <4> HIDE DEF x
        <4>6. x \notin Search!Points BY <4>2, <4>3, <4>5
        <4>7. <<x, 0>> \notin Queried
          <5>1. SUFFICES ASSUME NEW i \in 1 .. n, candidates[i].at = <<x, 0>> PROVE FALSE
            BY <1>1
          <5>2. candidates[i].at[1] = x BY <5>1
          <5> QED BY <5>2, <4>3, <4>6
        <4>8. n # 0 /\ n # 1 BY <3>3, <1>1
        <4> QED BY <4>4, <4>5, <4>7, <4>8
      <3>4. n = 0 \/ n = 1 \/ n >= 2
        <4>1. n \in Nat BY <1>1
        <4> HIDE DEF n
        <4> QED BY <4>1
      <3> QED BY <3>1, <3>2, <3>3, <3>4
    <2>4. PICK x \in 0 .. Grid : /\ next = <<point(x)>> /\ <<x, 0>> \notin Queried
                                 /\ n = 0 => x = 0
                                 /\ n = 1 => x = Grid
      BY <2>3
    <2>5. next # <<>> /\ next[1].at = <<x, 0>> /\ next[1].phase = "line" /\ next[1].parent = -1
      BY <2>4
    <2>6. <<x, 0>> \in Square /\ -1 \in -1 .. n - 1 BY <1>1 DEF Square
    <2>7. <<x, 0>>[1] = x /\ <<x, 0>>[2] = 0 /\ "line" \in PhaseNames /\ kind # "plane"
      BY <1>4 DEF PhaseNames
    <2> HIDE DEF next, point, n
    <2> QED BY <2>4, <2>5, <2>6, <2>7 DEF next, n
  <1> QED BY <1>1, <1>2, <1>3, <1>4


LEMMA QueryKeeps == ASSUME SearchInv, Search!Query PROVE SearchInv'
  <1> DEFINE n == Len(candidates)
             p == Search!NextPoint[1]
             best == Search!Best(Search!Parents(n))
  <1>1. /\ searchOutcome = "searching" /\ n < Budget
        /\ kind' = kind /\ objective' = objective /\ base' = base
    BY DEF Search!Query
  <1>2. /\ Search!NextPoint # <<>> /\ p.at \in Square /\ p.at \notin Queried
        /\ p.phase \in PhaseNames /\ p.parent \in -1 .. n - 1
        /\ kind = "plane" =>
             /\ n < 3 => p.phase = Search!Phases[n + 1] /\ p.at = Search!Seeds(base)[n + 1]
             /\ n >= 3 => /\ p.phase = "refinement" /\ p.parent >= 0
                          /\ best = candidates[p.parent + 1]
                          /\ \E i \in 1 .. 2 : p.at[i] = best.at[i]
        /\ kind = "line" => /\ p.at[2] = 0
                            /\ n = 0 => p.at[1] = 0
                            /\ n = 1 => p.at[1] = Grid
    BY <1>1, NextPointIs
  <1>3. PICK s \in Answers : candidates' = Append(candidates, Search!Answered(p, s))
    BY <1>2 DEF Search!Query
  <1>4. searchOutcome' = searchOutcome BY <1>2 DEF Search!Query
  <1> DEFINE r == Search!Answered(p, s)
  <1>5. /\ r.index = n /\ r.at = p.at /\ r.phase = p.phase /\ r.parent = p.parent
        /\ r.detector = s.detector /\ r.path = s.path /\ r.admissible = s.admissible
        /\ r = [index |-> n, at |-> p.at, phase |-> p.phase, parent |-> p.parent,
                detector |-> s.detector, path |-> s.path, admissible |-> s.admissible]
    BY DEF Search!Answered
  <1>6. n \in Nat /\ Queried = {candidates[i].at : i \in 1 .. n} BY AskedAre
  <1>7. s.detector \in Int /\ s.path \in Int /\ s.admissible \in BOOLEAN
    BY SearchConstantsAre
  <1> HIDE DEF n, p, best
  <1>8. r \in CandidateRows
    <2>1. p.parent \in Int BY <1>2, <1>6
    <2> QED BY <1>2, <1>5, <1>6, <1>7, <2>1 DEF CandidateRows
  <1> HIDE DEF r
  <1>9. /\ candidates' \in Seq(CandidateRows) /\ Len(candidates') = n + 1
        /\ candidates'[n + 1] = r
        /\ \A i \in 1 .. n : candidates'[i] = candidates[i]
    BY <1>3, <1>8, RowAdded DEF n, r
  <1>10. Len(candidates') <= Budget BY <1>1, <1>6, <1>9, SearchConstantsAre
  <1>11. 1 .. Len(candidates') = 1 .. n \cup {n + 1} /\ n + 1 \notin 1 .. n BY <1>6, <1>9
  <1>12. /\ \A i \in 1 .. n : RowIsSound(i)
         /\ \A i, j \in 1 .. n : candidates[i].at = candidates[j].at => i = j
         /\ \A k \in 1 .. n :
               IF kind = "plane" THEN RowOfPlane(k) /\ RowFollowsBest(k) ELSE RowOfLine(k)
         /\ kind \in {"plane", "line"} /\ base \in 0 .. Grid
    BY DEF SearchInv, n
  <1>13. ASSUME NEW i \in 1 .. Len(candidates') PROVE RowIsSound(i)'
    <2>1. CASE i = n + 1
      <3>1. candidates'[i].index = i - 1 /\ candidates'[i].parent \in -1 .. i - 2
        BY <1>2, <1>5, <1>6, <1>9, <2>1
      <3> QED BY <3>1 DEF RowIsSound
    <2>2. CASE i # n + 1
      <3>1. i \in 1 .. n /\ candidates'[i] = candidates[i] BY <1>9, <1>11, <2>2
      <3> QED BY <3>1, <1>12 DEF RowIsSound
    <2> QED BY <2>1, <2>2
  <1>14. ASSUME NEW i \in 1 .. Len(candidates'), NEW j \in 1 .. Len(candidates'),
                candidates'[i].at = candidates'[j].at
         PROVE  i = j
    <2>1. \A k \in 1 .. n : candidates'[k].at # candidates'[n + 1].at
      BY <1>2, <1>5, <1>6, <1>9
    <2>2. CASE i = n + 1 BY <1>11, <1>14, <2>1, <2>2
    <2>3. CASE j = n + 1 BY <1>11, <1>14, <2>1, <2>3
    <2>4. CASE i # n + 1 /\ j # n + 1
      <3>1. i \in 1 .. n /\ j \in 1 .. n BY <1>11, <2>4
      <3> QED BY <3>1, <1>9, <1>12, <1>14
    <2> QED BY <2>2, <2>3, <2>4
  <1>15. ASSUME NEW k \in 1 .. Len(candidates'), kind = "plane"
         PROVE  RowOfPlane(k)' /\ RowFollowsBest(k)'
    <2>0. Search!Phases' = Search!Phases /\ Search!Seeds(base)' = Search!Seeds(base)
      BY <1>1 DEF Search!Phases, Search!Seeds
    <2>1. CASE k = n + 1
      <3>1. RowOfPlane(k)'
        BY <1>1, <1>2, <1>5, <1>6, <1>9, <1>15, <2>0, <2>1 DEF RowOfPlane
      <3>2. RowFollowsBest(k)'
        <4>1. SUFFICES ASSUME k > 3
              PROVE  /\ (candidates[candidates[k].parent + 1])'
                            = (Search!Best(Search!Parents(k - 1)))'
                     /\ \E i \in 1 .. 2 :
                            candidates'[k].at[i]
                                = (candidates[candidates[k].parent + 1])'.at[i]
          BY DEF RowFollowsBest
        <4>2. n >= 3 /\ k - 1 = n /\ n \in 1 .. n BY <2>1, <4>1, <1>6
        <4>3. candidates'[k].parent + 1 \in 1 .. n /\ candidates'[k].parent = p.parent
          BY <1>2, <1>5, <1>6, <1>9, <1>15, <2>1, <4>2
        <4>4. candidates'[candidates'[k].parent + 1] = best
          BY <4>2, <4>3, <1>2, <1>9, <1>15
        <4>5. Search!Parents(k - 1)' = Search!Parents(k - 1)
          <5>1. k - 1 \in 1 .. Len(candidates) BY <4>2 DEF n
          <5> QED BY <1>3, <1>8, <5>1, ParentsStay DEF r
        <4>6. (Search!Best(Search!Parents(k - 1)))' = Search!Best(Search!Parents(k - 1))
          BY <1>1, <4>5, SearchFrame
        <4>8. Search!Best(Search!Parents(k - 1)) = best BY <4>2 DEF best
        <4>7. \E i \in 1 .. 2 : candidates'[k].at[i] = best.at[i]
          BY <1>2, <1>5, <1>9, <1>15, <2>1, <4>2
        <4> QED BY <4>4, <4>6, <4>7, <4>8
      <3> QED BY <3>1, <3>2
    <2>2. CASE k # n + 1
      <3>1. k \in 1 .. n /\ candidates'[k] = candidates[k] BY <1>9, <1>11, <2>2
      <3>2. RowOfPlane(k) /\ RowFollowsBest(k) BY <3>1, <1>12, <1>15
      <3>3. RowOfPlane(k)' BY <2>0, <3>1, <3>2, <1>1 DEF RowOfPlane
      <3>4. RowFollowsBest(k)'
        <4>1. SUFFICES ASSUME k > 3
              PROVE  /\ (candidates[candidates[k].parent + 1])'
                            = (Search!Best(Search!Parents(k - 1)))'
                     /\ \E i \in 1 .. 2 :
                            candidates'[k].at[i]
                                = (candidates[candidates[k].parent + 1])'.at[i]
          BY DEF RowFollowsBest
        <4>2. candidates'[k].parent + 1 \in 1 .. n /\ k - 1 \in 1 .. n
          <5>1. candidates[k].parent \in -1 .. k - 2 /\ candidates[k].parent >= 0
            BY <3>1, <3>2, <4>1, <1>12 DEF RowIsSound, RowOfPlane
          <5>2. k \in Int /\ k <= n /\ n \in Int BY <3>1, <1>6
          <5>3. candidates[k].parent + 1 \in 1 .. n /\ k - 1 \in 1 .. n BY <4>1, <5>1, <5>2
          <5> QED BY <3>1, <5>3
        <4>3. candidates'[candidates'[k].parent + 1] = candidates[candidates[k].parent + 1]
          BY <3>1, <4>2, <1>9
        <4>4. Search!Parents(k - 1)' = Search!Parents(k - 1)
          BY <1>3, <1>8, <4>2, ParentsStay DEF r, n
        <4>5. (Search!Best(Search!Parents(k - 1)))' = Search!Best(Search!Parents(k - 1))
          BY <1>1, <4>4, SearchFrame
        <4> QED BY <3>1, <3>2, <4>1, <4>3, <4>5 DEF RowFollowsBest
      <3> QED BY <3>3, <3>4
    <2> QED BY <2>1, <2>2
  <1>16. ASSUME NEW k \in 1 .. Len(candidates'), kind = "line" PROVE RowOfLine(k)'
    <2>1. CASE k = n + 1
      <3>1. candidates'[k].at = p.at /\ p.at[2] = 0 BY <1>2, <1>5, <1>9, <1>16, <2>1
      <3>2. (k = 1 => n = 0) /\ (k = 2 => n = 1) BY <2>1, <1>6
      <3>3. (k = 1 => p.at[1] = 0) /\ (k = 2 => p.at[1] = Grid) BY <3>2, <1>2, <1>16
      <3> QED BY <3>1, <3>3 DEF RowOfLine
    <2>2. CASE k # n + 1
      <3>1. k \in 1 .. n /\ candidates'[k] = candidates[k] BY <1>9, <1>11, <2>2
      <3>2. RowOfLine(k) BY <3>1, <1>12, <1>16
      <3> QED BY <3>1, <3>2 DEF RowOfLine
    <2> QED BY <2>1, <2>2
  <1>17. ASSUME NEW k \in 1 .. Len(candidates')
         PROVE  IF kind' = "plane" THEN RowOfPlane(k)' /\ RowFollowsBest(k)' ELSE RowOfLine(k)'
    BY <1>1, <1>12, <1>15, <1>16
  <1> QED BY <1>1, <1>4, <1>9, <1>10, <1>12, <1>13, <1>14, <1>17 DEF SearchInv

LEMMA OtherSearchStepKeeps ==
  ASSUME SearchInv, Search!Finish \/ Search!Ended \/ UNCHANGED Search!vars
  PROVE  SearchInv'
  <1>1. UNCHANGED <<kind, objective, base, candidates>>
    BY DEF Search!Finish, Search!Ended, Search!vars
  <1>2. /\ searchOutcome' \in {"searching", "selected", "infeasible"}
        /\ searchOutcome' = "selected" =>
              Len(candidates) = Budget /\ Search!Admissible(Budget) # {}
    BY DEF SearchInv, Search!Finish, Search!Ended, Search!vars
  <1>3. Search!Phases' = Search!Phases /\ Search!Seeds(base)' = Search!Seeds(base)
    BY <1>1 DEF Search!Phases, Search!Seeds
  <1>4. \A k : /\ Search!Parents(k)' = Search!Parents(k)
               /\ Search!Admissible(k)' = Search!Admissible(k)
    BY <1>1 DEF Search!Parents, Search!Admissible, Search!Rows
  <1>5. \A k : (Search!Best(Search!Parents(k)))' = Search!Best(Search!Parents(k))
    BY <1>1, <1>4, SearchFrame
  <1>6. \A k : /\ RowIsSound(k) => RowIsSound(k)'
               /\ RowOfPlane(k) => RowOfPlane(k)'
               /\ RowOfLine(k) => RowOfLine(k)'
    BY <1>1, <1>3 DEF RowIsSound, RowOfPlane, RowOfLine
  <1>7. \A k : RowFollowsBest(k) => RowFollowsBest(k)' BY <1>1, <1>5 DEF RowFollowsBest
  <1> QED BY <1>1, <1>2, <1>4, <1>6, <1>7 DEF SearchInv

LEMMA NextSearchInv == SearchInv /\ [Search!Next]_(Search!vars) => SearchInv'
  BY QueryKeeps, OtherSearchStepKeeps DEF Search!Next


LEMMA RefinementsFollow == ASSUME SearchInv PROVE Search!RefinementFollowsBest
  <1>1. ASSUME NEW n \in 4 .. Len(candidates), kind = "plane"
        PROVE  LET parent == candidates[candidates[n].parent + 1]
               IN  /\ parent = Search!Best(Search!Parents(n - 1))
                   /\ \E i \in 1 .. 2 : candidates[n].at[i] = parent.at[i]
    <2>1. n \in 1 .. Len(candidates) /\ n > 3 OBVIOUS
    <2>2. RowFollowsBest(n) BY <2>1, <1>1 DEF SearchInv
    <2> QED BY <2>1, <2>2 DEF RowFollowsBest
  <1> QED BY <1>1 DEF Search!RefinementFollowsBest

LEMMA AuditsAgree == ASSUME SearchInv PROVE Search!AuditIsExact
  <1> SUFFICES ASSUME searchOutcome = "selected"
      PROVE  /\ Search!AuditAccepts <=> \A i \in DOMAIN Checkpoints :
                   \E n \in 1 .. Checkpoints[i] : candidates[n].admissible
             /\ Search!Checkpoint(Budget).index = Search!selected.index
    BY DEF Search!AuditIsExact
  <1>1. /\ Len(candidates) = Budget /\ Budget \in Nat /\ Budget >= 3
        /\ \A i \in 1 .. Budget : candidates[i].index = i - 1
        /\ \A n \in 1 .. Budget : kind = "plane" => RowOfPlane(n)
        /\ IsFiniteSet(Queried) /\ Cardinality(Queried) = Budget
    BY SearchConstantsAre, AskedAre DEF SearchInv, RowIsSound
  <1>2. /\ DOMAIN Checkpoints = 1 .. Len(Checkpoints) /\ Len(Checkpoints) \in Nat \ {0}
        /\ \A i \in DOMAIN Checkpoints : Checkpoints[i] \in 1 .. Budget
        /\ Checkpoints[Len(Checkpoints)] = Budget
    <2> DEFINE S == 1 .. Budget
    <2>1. Checkpoints \in Seq(S) /\ Len(Checkpoints) > 0
          /\ Checkpoints[Len(Checkpoints)] = Budget
      BY CheckpointsAre
    <2> HIDE DEF S
    <2>2. /\ DOMAIN Checkpoints = 1 .. Len(Checkpoints) /\ Len(Checkpoints) \in Nat
          /\ \A i \in DOMAIN Checkpoints : Checkpoints[i] \in S
      BY <2>1
    <2> QED BY <2>1, <2>2 DEF S
  <1>3. ASSUME NEW n \in 1 .. Budget
        PROVE  {c \in Search!Rows(Budget) : c.index < n /\ c.admissible}
                  = Search!Admissible(n)
    <2>1. ASSUME NEW c \in Search!Rows(Budget), c.index < n, c.admissible
          PROVE  c \in Search!Admissible(n)
      <3>1. PICK i \in 1 .. Budget : c = candidates[i] BY DEF Search!Rows
      <3>2. i \in 1 .. n BY <1>1, <2>1, <3>1
      <3> QED BY <2>1, <3>1, <3>2 DEF Search!Rows, Search!Admissible
    <2>2. ASSUME NEW c \in Search!Admissible(n)
          PROVE  c \in Search!Rows(Budget) /\ c.index < n /\ c.admissible
      <3>1. PICK i \in 1 .. n : c = candidates[i] /\ c.admissible
        BY DEF Search!Rows, Search!Admissible
      <3>2. i \in 1 .. Budget /\ c.index = i - 1 BY <1>1, <3>1
      <3> QED BY <3>1, <3>2 DEF Search!Rows
    <2> QED BY <2>1, <2>2
  <1>4. ASSUME NEW n \in 1 .. Budget
        PROVE  Search!Admissible(n) # {} <=> \E m \in 1 .. n : candidates[m].admissible
    BY DEF Search!Admissible, Search!Rows
  <1>5. ASSUME NEW i \in DOMAIN Checkpoints
        PROVE  LET n == Checkpoints[i]
                   feasible == {c \in Search!Rows(Budget) : c.index < n /\ c.admissible}
               IN  (/\ feasible # {}
                    /\ Search!Checkpoint(n).count = Search!Cardinality(feasible)
                    /\ Search!Checkpoint(n).index = Search!Best(feasible).index)
                   <=> \E m \in 1 .. Checkpoints[i] : candidates[m].admissible
    <2> DEFINE n == Checkpoints[i]
    <2>1. n \in 1 .. Budget BY <1>2
    <2>2. {c \in Search!Rows(Budget) : c.index < n /\ c.admissible} = Search!Admissible(n)
      BY <1>3, <2>1
    <2>3. Search!Admissible(n) # {} =>
              /\ Search!Checkpoint(n).count = Search!Cardinality(Search!Admissible(n))
              /\ Search!Checkpoint(n).index = Search!Best(Search!Admissible(n)).index
      BY DEF Search!Checkpoint
    <2>4. Search!Admissible(n) # {} <=> \E m \in 1 .. n : candidates[m].admissible
      BY <1>4, <2>1
    <2> QED BY <2>2, <2>3, <2>4
  <1>6. Search!CheckpointEvidenceReady
          <=> \A i \in DOMAIN Checkpoints : \E m \in 1 .. Checkpoints[i] : candidates[m].admissible
    BY <1>5 DEF Search!CheckpointEvidenceReady
  <1>7. Search!common_search_evidence_ready <=> Search!CheckpointEvidenceReady
    <2>1. Search!Cardinality(Queried) = Cardinality(Queried)
      BY DEF Search!Cardinality, Cardinality
    <2> QED BY <1>1, <2>1 DEF Search!common_search_evidence_ready, Queried
  <1>8. kind = "plane" => Search!two_coordinate_search_evidence_ready
    <2> SUFFICES ASSUME kind = "plane" PROVE Search!two_coordinate_search_evidence_ready
      OBVIOUS
    <2>1. \A n \in 1 .. Budget : RowOfPlane(n) BY <1>1
    <2>2. ASSUME NEW n \in 1 .. 3 PROVE candidates[n].phase = Search!Phases[n]
      <3>1. n \in 1 .. Budget BY <1>1
      <3> QED BY <3>1, <2>1 DEF RowOfPlane
    <2>3. ASSUME NEW n \in 4 .. Len(candidates)
          PROVE candidates[n].phase = "refinement" /\ candidates[n].parent >= 0
      <3>1. n \in 1 .. Budget /\ n > 3 BY <1>1
      <3> QED BY <3>1, <2>1 DEF RowOfPlane
    <2> QED BY <2>2, <2>3 DEF Search!two_coordinate_search_evidence_ready
  <1>9. Search!AuditAccepts <=> Search!CheckpointEvidenceReady
    BY <1>7, <1>8 DEF Search!AuditAccepts
  <1>10. Search!Checkpoint(Budget).index = Search!selected.index
    <2>1. Search!Admissible(Budget) # {} BY DEF SearchInv
    <2> QED BY <2>1 DEF Search!Checkpoint, Search!selected
  <1> QED BY <1>6, <1>9, <1>10

LEMMA SearchIsAsPromised ==
  SearchInv => /\ Search!TypeOK
               /\ Search!BudgetIsSpentOnNewPoints
               /\ Search!RefinementFollowsBest
               /\ Search!AuditIsExact
  <1> SUFFICES ASSUME SearchInv
      PROVE  /\ Search!TypeOK
             /\ Search!BudgetIsSpentOnNewPoints
             /\ Search!RefinementFollowsBest
             /\ Search!AuditIsExact
    OBVIOUS
  <1>1. Search!TypeOK
    <2>1. /\ Len(candidates) <= Budget /\ candidates \in Seq(CandidateRows)
          /\ \A i \in 1 .. Len(candidates) : RowIsSound(i)
          /\ DOMAIN candidates = 1 .. Len(candidates)
          /\ searchOutcome \in {"searching", "selected", "infeasible"}
      BY AskedAre DEF SearchInv
    <2>2. ASSUME NEW i \in DOMAIN candidates
          PROVE  /\ candidates[i].index = i - 1 /\ candidates[i].parent \in -1 .. i - 2
                 /\ candidates[i].at \in (0 .. Grid) \X (0 .. Grid)
      <3>1. candidates[i] \in CandidateRows /\ RowIsSound(i) BY <2>1
      <3> QED BY <3>1 DEF CandidateRows, Square, RowIsSound
    <2> QED BY <2>1, <2>2 DEF Search!TypeOK
  <1>2. Search!BudgetIsSpentOnNewPoints
    <2>1. Cardinality(Queried) = Len(candidates) BY AskedAre
    <2>2. Search!Cardinality(Queried) = Cardinality(Queried)
      BY DEF Search!Cardinality, Cardinality
    <2>3. searchOutcome # "exhausted" BY DEF SearchInv
    <2> QED BY <2>1, <2>2, <2>3 DEF Search!BudgetIsSpentOnNewPoints, Queried
  <1> QED BY <1>1, <1>2, RefinementsFollow, AuditsAgree

-----------------------------------------------------------------------------
(* The motion threshold.  The invariant says that what is frozen is what the *)
(* filters and the quantile make of the scores; the rest is about those.     *)

MotionInv ==
    /\ DOMAIN static \subseteq Motion!Videos /\ static \in [DOMAIN static -> Motion!Scores]
    /\ ready \in BOOLEAN
    /\ audit.decision \in {"none", "frozen"} \cup Motion!Decisions
    /\ audit = [decision |-> audit.decision, threshold |-> audit.threshold,
                clean |-> audit.clean]
    /\ IF audit.decision = "none"
       THEN audit.threshold = MotionDeltaMin /\ audit.clean = Motion!NoScores
       ELSE /\ audit.clean = Motion!Clean(static)
            /\ audit.threshold = Motion!ThresholdOf(Motion!Clean(static))

IsScored(f) == IsFiniteSet(DOMAIN f) /\ f \in [DOMAIN f -> Int]

LEMMA MotionConstantsAre ==
  /\ IsFiniteSet(Prompts) /\ Unit \in Nat \ {0} /\ FprDen \in Nat \ {0}
  /\ FprNum \in 0 .. FprDen /\ MotionDeltaMin \in Nat /\ SeedCount \in Nat /\ ScoreSteps \in Nat
  BY InstancesAssumption
  DEF Motion!MotionCalibrationAssumption, Motion!IsFiniteSet, IsFiniteSet

LEMMA MotionProjects == [SomeStep]_allVars => [Motion!Next]_(Motion!vars)
  <1> SUFFICES ASSUME [SomeStep]_allVars PROVE [Motion!Next]_(Motion!vars)
    OBVIOUS
  <1> USE DEF motionVars, Motion!vars
  <1>1. CASE MotionStep BY <1>1 DEF MotionStep
  <1>2. CASE Rest /\ program # "motion" BY <1>2 DEF Rest
  <1>3. CASE UNCHANGED allVars BY <1>3 DEF allVars
  <1> QED
    BY <1>1, <1>2, <1>3
    DEF SomeStep, GatesStep, ChainStep, FlowStep, AdaptiveStep, SearchStep,
        FairnessStep, DetectorStep

LEMMA MotionStarts == Start => MotionInv
  <1> SUFFICES ASSUME Start PROVE MotionInv
    OBVIOUS
  <1>1. CASE program = "motion"
    <2>1. Motion!Init BY <1>1 DEF Start
    <2>2. PICK usable \in SUBSET Motion!Videos : static \in [usable -> Motion!Scores]
      BY <2>1 DEF Motion!Init
    <2> QED BY <2>1, <2>2 DEF Motion!Init, MotionInv
  <1>2. CASE program # "motion"
    <2>1. /\ static = Motion!NoScores /\ ready = TRUE
          /\ audit = [decision |-> "none", threshold |-> MotionDeltaMin,
                      clean |-> Motion!NoScores]
      BY <1>2 DEF Start
    <2>2. DOMAIN static = {} /\ static \in [DOMAIN static -> Motion!Scores]
      BY <2>1 DEF Motion!NoScores
    <2> QED BY <2>1, <2>2 DEF MotionInv
  <1> QED BY <1>1, <1>2

LEMMA NextMotionInv == MotionInv /\ [Motion!Next]_(Motion!vars) => MotionInv'
  <1> SUFFICES ASSUME MotionInv, [Motion!Next]_(Motion!vars) PROVE MotionInv'
    OBVIOUS
  <1> USE DEF MotionInv
  <1>1. CASE Motion!Freeze
    <2>1. /\ audit' = [decision |-> "frozen",
                       threshold |-> Motion!ThresholdOf(Motion!Clean(static)),
                       clean |-> Motion!Clean(static)]
          /\ static' = static /\ ready' \in BOOLEAN
      BY <1>1 DEF Motion!Freeze
    <2> QED BY <2>1
  <1>2. CASE Motion!Decide
    <2>1. /\ audit.decision = "frozen" /\ static' = static /\ ready' = ready
          /\ audit' = [audit EXCEPT !.decision = Motion!CalibrationDecision]
      BY <1>2 DEF Motion!Decide
    <2>2. Motion!CalibrationDecision \in Motion!Decisions
      BY DEF Motion!CalibrationDecision, Motion!Decisions
    <2>3. "none" \notin Motion!Decisions BY DEF Motion!Decisions
    <2> QED BY <2>1, <2>2, <2>3
  <1>3. CASE UNCHANGED Motion!vars BY <1>3 DEF Motion!vars
  <1> QED BY <1>1, <1>2, <1>3 DEF Motion!Next, Motion!Done

LEMMA CountsAre ==
  ASSUME NEW f, IsScored(f), NEW t \in Int
  PROVE  /\ Motion!Count(f) = Cardinality(DOMAIN f) /\ Motion!Count(f) \in Nat
         /\ IsFiniteSet(Motion!AtMost(f, t)) /\ IsFiniteSet(Motion!Above(f, t))
         /\ Cardinality(Motion!AtMost(f, t)) \in 0 .. Motion!Count(f)
         /\ Cardinality(Motion!Above(f, t))
              = Motion!Count(f) - Cardinality(Motion!AtMost(f, t))
         /\ DOMAIN f # {} => Motion!Count(f) > 0
  <1> DEFINE D == DOMAIN f  A == Motion!AtMost(f, t)  B == Motion!Above(f, t)
  <1>1. Motion!Count(f) = Cardinality(D)
    BY DEF Motion!Count, Motion!Cardinality, Cardinality
  <1>2. A \subseteq D /\ B = D \ A /\ D \cap A = A
    BY DEF IsScored, Motion!AtMost, Motion!Above
  <1>3. IsFiniteSet(D) BY DEF IsScored
  <1> HIDE DEF D, A, B
  <1>4. IsFiniteSet(A) /\ Cardinality(A) <= Cardinality(D) BY <1>2, <1>3, FS_Subset
  <1>5. IsFiniteSet(B) /\ Cardinality(B) = Cardinality(D) - Cardinality(A)
    BY <1>2, <1>3, FS_Difference
  <1>6. Cardinality(D) \in Nat /\ Cardinality(A) \in Nat BY <1>3, <1>4, FS_CardinalityType
  <1>7. D # {} => Cardinality(D) > 0 BY <1>3, <1>6, FS_EmptySet
  <1> QED BY <1>1, <1>4, <1>5, <1>6, <1>7 DEF D, A, B

(* The k-th score is at most t when at least k scores are.                   *)
LEMMA RankedIs ==
  ASSUME NEW f, IsScored(f), NEW k \in 1 .. Motion!Count(f)
  PROVE  /\ Motion!Ranked(f, k) \in {f[v] : v \in DOMAIN f}
         /\ Motion!Ranked(f, k) \in Int
         /\ \A t \in Int :
               Motion!Ranked(f, k) <= t <=> k <= Cardinality(Motion!AtMost(f, t))
  <1> DEFINE D == DOMAIN f
             V == {f[v] : v \in D}
             Below(x) == {v \in D : f[v] < x}
             Fits(x) == Cardinality(Motion!AtMost(f, x)) >= k /\ Cardinality(Below(x)) < k
             G == {x \in V : Cardinality(Motion!AtMost(f, x)) >= k}
  <1>0. IsFiniteSet(D) /\ \A v \in D : f[v] \in Int BY DEF IsScored
  <1>1. V \subseteq Int /\ IsFiniteSet(V)
    <2>1. f \in Surjection(D, V) BY <1>0 DEF IsScored, Surjection
    <2> QED BY <1>0, <2>1, FS_Surjection
  <1>2. k \in Nat \ {0} /\ k <= Cardinality(D) /\ Cardinality(D) \in Nat
    <2>1. Motion!Count(f) = Cardinality(D) /\ Motion!Count(f) \in Nat BY CountsAre, 0 \in Int
    <2> QED BY <2>1
  <1>3. D # {} /\ V # {} BY <1>2, FS_EmptySet
  <1>4. G \subseteq Int /\ IsFiniteSet(G) /\ G # {}
    <2>1. PICK m \in V : \A x \in V : x <= m BY <1>1, <1>3, FiniteHasGreatest
    <2>2. Motion!AtMost(f, m) = D BY <2>1 DEF Motion!AtMost
    <2>3. m \in G BY <1>2, <2>2
    <2> QED BY <1>1, <2>3, FS_Subset
  <1>5. PICK x \in G : \A y \in G : x <= y BY <1>4, LeastOfFinite
  <1>6. x \in V /\ x \in Int /\ Cardinality(Motion!AtMost(f, x)) >= k BY <1>1, <1>5
  <1>7. IsFiniteSet(Below(x)) /\ Cardinality(Below(x)) \in Nat
    BY <1>0, FS_Subset, FS_CardinalityType
  <1>8. Cardinality(Below(x)) < k
    <2>1. CASE Below(x) = {} BY <2>1, <1>2, FS_EmptySet
    <2>2. CASE Below(x) # {}
      <3> DEFINE W == {y \in V : y < x}
      <3>1. W \subseteq Int /\ W # {} BY <2>2, <1>1
      <3>2. IsFiniteSet(W) BY <1>1, FS_Subset
      <3>3. PICK m \in W : \A y \in W : y <= m
        <4> HIDE DEF W
        <4> QED BY <3>1, <3>2, FiniteHasGreatest
      <3>4. m \in V /\ m < x /\ m \in Int BY <1>1, <3>3
      <3>5. \A v \in D : f[v] < x => f[v] <= m BY <3>3
      <3>6. \A v \in D : f[v] <= m => f[v] < x BY <3>4, <1>0, <1>6
      <3>7. Below(x) = Motion!AtMost(f, m) BY <3>5, <3>6 DEF Motion!AtMost
      <3>8. m \notin G BY <3>4, <1>5, <1>6
      <3>9. ~(Cardinality(Motion!AtMost(f, m)) >= k) BY <3>4, <3>8
      <3> QED BY <3>7, <3>9, <1>2, <1>7
    <2> QED BY <2>1, <2>2
  <1>9. Motion!Ranked(f, k) = CHOOSE y \in V : Fits(y)
    BY DEF Motion!Ranked, Motion!Cardinality, Cardinality
  <1>10. \E y \in V : Fits(y) BY <1>6, <1>8
  <1>11. Motion!Ranked(f, k) \in V /\ Fits(Motion!Ranked(f, k))
    <2> HIDE DEF V, Fits
    <2> QED BY <1>9, <1>10
  <1> DEFINE r == Motion!Ranked(f, k)
  <1>12. r \in V /\ r \in Int /\ Cardinality(Motion!AtMost(f, r)) >= k
         /\ Cardinality(Below(r)) < k
    BY <1>1, <1>11
  <1>13. ASSUME NEW t \in Int PROVE r <= t <=> k <= Cardinality(Motion!AtMost(f, t))
    <2> HIDE DEF r
    <2>0. /\ IsFiniteSet(Motion!AtMost(f, t)) /\ Cardinality(Motion!AtMost(f, t)) \in Nat
          /\ Cardinality(Motion!AtMost(f, r)) \in Nat
      <3>1. /\ Cardinality(Motion!AtMost(f, t)) \in 0 .. Motion!Count(f)
            /\ Cardinality(Motion!AtMost(f, r)) \in 0 .. Motion!Count(f)
            /\ Motion!Count(f) \in Nat /\ IsFiniteSet(Motion!AtMost(f, t))
        BY <1>12, CountsAre
      <3> QED BY <3>1
    <2>1. CASE r <= t
      <3>1. Motion!AtMost(f, r) \subseteq Motion!AtMost(f, t)
        BY <2>1, <1>0, <1>12 DEF Motion!AtMost
      <3>2. Cardinality(Motion!AtMost(f, r)) <= Cardinality(Motion!AtMost(f, t))
        BY <3>1, <2>0, FS_Subset
      <3> QED BY <3>2, <2>0, <2>1, <1>2, <1>12
    <2>2. CASE ~(r <= t)
      <3>1. Motion!AtMost(f, t) \subseteq Below(r)
        BY <2>2, <1>0, <1>12 DEF Motion!AtMost
      <3>2. IsFiniteSet(Below(r)) /\ Cardinality(Below(r)) \in Nat
        BY <1>0, FS_Subset, FS_CardinalityType
      <3>3. Cardinality(Motion!AtMost(f, t)) <= Cardinality(Below(r))
        <4> HIDE DEF Below
        <4> QED BY <3>1, <3>2, FS_Subset
      <3> QED BY <3>2, <3>3, <2>0, <2>2, <1>2, <1>12
    <2> QED BY <2>1, <2>2
  <1> QED BY <1>12, <1>13


(* A quotient is rounded to within a half, and a greater one to no less.     *)
LEMMA DivisionIs ==
  ASSUME NEW a \in Nat, NEW d \in Nat \ {0}
  PROVE  /\ a \div d \in Nat /\ a % d \in 0 .. d - 1
         /\ a = d * (a \div d) + (a % d)
  <1>1. a \div d \in Int /\ a % d \in 0 .. d - 1 OBVIOUS
  <1>2. a = d * (a \div d) + (a % d) OBVIOUS
  <1>3. a \div d >= 0
    <2> DEFINE q == a \div d
    <2>1. q \in Int /\ a = d * q + (a % d) BY <1>1, <1>2
    <2> HIDE DEF q
    <2>2. ASSUME q < 0 PROVE FALSE
      <3>1. (0 - q) - 1 \in Nat BY <2>1, <2>2
      <3>2. d * ((0 - q) - 1) \in Nat BY <3>1
      <3>3. d * ((0 - q) - 1) = 0 - (d * q) - d BY <2>1
      <3> QED BY <3>2, <3>3, <2>1, <1>1
    <2>3. q >= 0 BY <2>1, <2>2
    <2> QED BY <2>3 DEF q
  <1> QED BY <1>1, <1>2, <1>3

LEMMA Multiplied ==
  ASSUME NEW d \in Nat \ {0}, NEW x \in Int, NEW y \in Int
  PROVE  /\ d * x \in Int
         /\ d * (x + 1) = d * x + d
         /\ x <= y => d * x <= d * y
         /\ x < y => d * x + d <= d * y
  <1>1. d * x \in Int /\ d * y \in Int /\ d * (x + 1) = d * x + d OBVIOUS
  <1>2. ASSUME x <= y PROVE d * x <= d * y
    <2>1. d * y - d * x = d * (y - x) OBVIOUS
    <2>2. y - x \in Nat BY <1>2
    <2>3. d * (y - x) \in Nat BY <2>2
    <2> QED BY <1>1, <2>1, <2>3
  <1>3. ASSUME x < y PROVE d * x + d <= d * y
    <2>1. d * y - (d * x + d) = d * (y - (x + 1)) OBVIOUS
    <2>2. y - (x + 1) \in Nat BY <1>3
    <2>3. d * (y - (x + 1)) \in Nat BY <2>2
    <2> QED BY <1>1, <2>1, <2>3
  <1> QED BY <1>1, <1>2, <1>3

LEMMA RoundedIs ==
  ASSUME NEW a \in Nat, NEW d \in Nat \ {0}
  PROVE  LET r == Motion!Rounded(a, d)
         IN  r \in Nat /\ 2 * (d * r) <= 2 * a + d /\ 2 * a - d <= 2 * (d * r)
  <1> DEFINE q == a \div d  m == a % d  r == Motion!Rounded(a, d)
  <1>1. q \in Nat /\ m \in 0 .. d - 1 /\ a = d * q + m BY DivisionIs
  <1>2. r = IF 2 * m < d \/ (2 * m = d /\ q % 2 = 0) THEN q ELSE q + 1
    BY DEF Motion!Rounded
  <1> HIDE DEF q, m, r
  <1>3. d * (q + 1) = d * q + d /\ d * q \in Int BY <1>1, Multiplied
  <1>4. (r = q /\ 2 * m <= d) \/ (r = q + 1 /\ 2 * m >= d) BY <1>1, <1>2
  <1>5. r \in Nat BY <1>1, <1>4
  <1> DEFINE x == d * q  y == d * r
  <1>6. x \in Int /\ y \in Int BY <1>3, <1>5
  <1>7. (y = x /\ 2 * m <= d) \/ (y = x + d /\ 2 * m >= d) BY <1>3, <1>4
  <1>8. a = x + m /\ m \in Int /\ 0 <= m /\ m < d BY <1>1
  <1> HIDE DEF x, y
  <1>9. 2 * y <= 2 * a + d /\ 2 * a - d <= 2 * y BY <1>6, <1>7, <1>8
  <1> QED BY <1>5, <1>9 DEF r, y

LEMMA RoundedRises ==
  ASSUME NEW a \in Nat, NEW b \in Nat, NEW d \in Nat \ {0}, a <= b
  PROVE  Motion!Rounded(a, d) <= Motion!Rounded(b, d)
  <1> DEFINE p == a \div d  m == a % d  q == b \div d  n == b % d
             r == Motion!Rounded(a, d)  s == Motion!Rounded(b, d)
  <1>1. /\ p \in Nat /\ m \in 0 .. d - 1 /\ a = d * p + m
        /\ q \in Nat /\ n \in 0 .. d - 1 /\ b = d * q + n
    BY DivisionIs
  <1>2. /\ r = IF 2 * m < d \/ (2 * m = d /\ p % 2 = 0) THEN p ELSE p + 1
        /\ s = IF 2 * n < d \/ (2 * n = d /\ q % 2 = 0) THEN q ELSE q + 1
    BY DEF Motion!Rounded
  <1> HIDE DEF p, m, q, n, r, s
  <1>3. d * p \in Int /\ d * q \in Int BY <1>1
  <1>4. p <= q
    <2>1. q < p => d * q + d <= d * p BY <1>1, Multiplied
    <2> QED BY <2>1, <1>1, <1>3
  <1>5. CASE p < q
    <2>1. r <= p + 1 /\ q <= s BY <1>1, <1>2
    <2>2. r \in Int /\ s \in Int BY <1>1, <1>2
    <2> QED BY <2>1, <2>2, <1>1, <1>5 DEF r, s
  <1>6. CASE p = q
    <2>1. m <= n BY <1>1, <1>3, <1>6
    <2>2. r <= s BY <2>1, <1>1, <1>2, <1>6
    <2> QED BY <2>2 DEF r, s
  <1> QED BY <1>1, <1>4, <1>5, <1>6

LEMMA RoundedWithin ==
  ASSUME NEW a \in Nat, NEW d \in Nat \ {0}, NEW m \in Nat, a <= d * m
  PROVE  Motion!Rounded(a, d) \in 0 .. m
  <1> DEFINE r == Motion!Rounded(a, d)
  <1>1. r \in Nat /\ 2 * (d * r) <= 2 * a + d BY RoundedIs
  <1> HIDE DEF r
  <1>2. m < r => d * m + d <= d * r BY <1>1, Multiplied
  <1>3. d * m \in Int /\ d * r \in Int BY <1>1
  <1>4. r <= m BY <1>1, <1>2, <1>3
  <1> QED BY <1>1, <1>4 DEF r

(* Order statistics.  A quantile is of a rank there is; a score of a lower   *)
(* rank is no greater.                                                       *)
LEMMA RankedRises ==
  ASSUME NEW f, IsScored(f), NEW k \in 1 .. Motion!Count(f), NEW l \in 1 .. Motion!Count(f),
         k <= l
  PROVE  Motion!Ranked(f, k) <= Motion!Ranked(f, l)
  <1> DEFINE s == Motion!Ranked(f, l)
  <1>1. s \in Int /\ (s <= s <=> l <= Cardinality(Motion!AtMost(f, s))) BY RankedIs
  <1>2. Cardinality(Motion!AtMost(f, s)) \in 0 .. Motion!Count(f) /\ Motion!Count(f) \in Nat
    BY <1>1, CountsAre
  <1>3. k <= Cardinality(Motion!AtMost(f, s)) BY <1>1, <1>2
  <1> QED BY <1>1, <1>3, RankedIs

QuantileRank(n, num, den) == 1 + Motion!Rounded((n - 1) * num, den)

LEMMA QuantileRankIs ==
  ASSUME NEW n \in Nat \ {0}, NEW den \in Nat \ {0}, NEW num \in 0 .. den
  PROVE  QuantileRank(n, num, den) \in 1 .. n
  <1>1. n - 1 \in Nat /\ (n - 1) * num \in Nat OBVIOUS
  <1>2. (n - 1) * num <= den * (n - 1)
    <2>1. den * (n - 1) - (n - 1) * num = (n - 1) * (den - num) OBVIOUS
    <2>2. (n - 1) * (den - num) \in Nat OBVIOUS
    <2>3. (n - 1) * num \in Int /\ den * (n - 1) \in Int OBVIOUS
    <2> QED BY <2>1, <2>2, <2>3
  <1>3. Motion!Rounded((n - 1) * num, den) \in 0 .. (n - 1) BY <1>1, <1>2, RoundedWithin
  <1> QED BY <1>3 DEF QuantileRank

LEMMA QuantileIs ==
  ASSUME NEW f, IsScored(f), DOMAIN f # {}, NEW den \in Nat \ {0}, NEW num \in 0 .. den
  PROVE  /\ QuantileRank(Motion!Count(f), num, den) \in 1 .. Motion!Count(f)
         /\ Motion!Quantile(f, num, den)
              = Motion!Ranked(f, QuantileRank(Motion!Count(f), num, den))
  <1>1. Motion!Count(f) \in Nat \ {0} BY CountsAre, 0 \in Int
  <1> QED BY <1>1, QuantileRankIs DEF Motion!Quantile, QuantileRank


LEMMA MedianIs ==
  ASSUME NEW f, IsScored(f), DOMAIN f # {}
  PROVE  LET n == Motion!Count(f)
             k == 1 + ((n - 1) \div 2)
             l == 1 + (n \div 2)
             a == Motion!Ranked(f, k)
             b == Motion!Ranked(f, l)
         IN  /\ n \in Nat \ {0} /\ k \in 1 .. n /\ l \in 1 .. n /\ k <= l
             /\ a \in Int /\ b \in Int /\ a <= b
             /\ Motion!Median(f) = (a + b) \div 2
             /\ \A t \in Int : a <= t <=> k <= Cardinality(Motion!AtMost(f, t))
             /\ \A t \in Int : b <= t <=> l <= Cardinality(Motion!AtMost(f, t))
  <1> DEFINE n == Motion!Count(f)
             k == 1 + ((n - 1) \div 2)
             l == 1 + (n \div 2)
             a == Motion!Ranked(f, k)
             b == Motion!Ranked(f, l)
  <1>1. n \in Nat \ {0} BY CountsAre, 0 \in Int
  <1>2. k \in 1 .. n /\ l \in 1 .. n /\ k <= l
    <2> HIDE DEF n
    <2> QED BY <1>1
  <1>3. Motion!Median(f) = (a + b) \div 2 BY DEF Motion!Median
  <1> HIDE DEF n, k, l
  <1>4. a \in Int /\ \A t \in Int : a <= t <=> k <= Cardinality(Motion!AtMost(f, t))
    BY <1>2, RankedIs DEF n
  <1>5. b \in Int /\ \A t \in Int : b <= t <=> l <= Cardinality(Motion!AtMost(f, t))
    BY <1>2, RankedIs DEF n
  <1>6. a <= b BY <1>2, RankedRises DEF n
  <1> HIDE DEF a, b
  <1>7. n \in Nat \ {0} /\ k \in 1 .. n /\ l \in 1 .. n /\ k <= l
        /\ a \in Int /\ b \in Int /\ a <= b
        /\ Motion!Median(f) = (a + b) \div 2
        /\ (\A t \in Int : a <= t <=> k <= Cardinality(Motion!AtMost(f, t)))
        /\ (\A t \in Int : b <= t <=> l <= Cardinality(Motion!AtMost(f, t)))
    BY <1>1, <1>2, <1>3, <1>4, <1>5, <1>6
  <1> QED BY <1>7 DEF n, k, l, a, b

(* Of two finite sets, the smaller can be mapped into the other.             *)
LEMMA MapsInto ==
  ASSUME NEW S, NEW T, IsFiniteSet(S), IsFiniteSet(T), Cardinality(S) <= Cardinality(T)
  PROVE  \E h : h \in Injection(S, T)
  <1> DEFINE m == Cardinality(S)  n == Cardinality(T)
  <1>1. m \in Nat /\ n \in Nat /\ ExistsBijection(1 .. m, S) /\ ExistsBijection(1 .. n, T)
    BY FS_CardinalityType
  <1>2. PICK b : b \in Bijection(1 .. m, S) BY <1>1 DEF ExistsBijection
  <1>3. PICK c : c \in Bijection(1 .. n, T) BY <1>1 DEF ExistsBijection
  <1>4. m <= n OBVIOUS
  <1> HIDE DEF m, n
  <1>5. 1 .. m \subseteq 1 .. n BY <1>1, <1>4
  <1>6. b \in [1 .. m -> S] /\ \A x \in S : \E i \in 1 .. m : b[i] = x
    BY <1>2 DEF Bijection, Surjection
  <1>7. c \in [1 .. n -> T] /\ \A i, j \in 1 .. n : c[i] = c[j] => i = j
    BY <1>3 DEF Bijection, Injection, IsInjective
  <1> DEFINE at(x) == CHOOSE i \in 1 .. m : b[i] = x
             h == [x \in S |-> c[at(x)]]
  <1>8. \A x \in S : at(x) \in 1 .. m /\ b[at(x)] = x BY <1>6
  <1> HIDE DEF at
  <1>9. h \in [S -> T]
    <2>1. \A x \in S : c[at(x)] \in T BY <1>5, <1>7, <1>8
    <2> QED BY <2>1
  <1>10. \A x, y \in S : h[x] = h[y] => x = y
    <2>1. ASSUME NEW x \in S, NEW y \in S, h[x] = h[y] PROVE x = y
      <3>1. c[at(x)] = c[at(y)] BY <2>1
      <3>2. at(x) = at(y) BY <3>1, <1>5, <1>7, <1>8
      <3> QED BY <3>2, <1>8
    <2> QED BY <2>1
  <1> QED BY <1>9, <1>10 DEF Injection, IsInjective

(* If no prompt of a set has more scores at the cutoff or below than above,  *)
(* the prompts together have not.                                            *)
LEMMA PromptsTogether ==
  ASSUME NEW f, IsScored(f), NEW t \in Int, NEW P,
         \A p \in P : Cardinality(Motion!AtMost(Motion!OfPrompt(f, p), t))
                        <= Cardinality(Motion!Above(Motion!OfPrompt(f, p), t)),
         \A p \in P : IsScored(Motion!OfPrompt(f, p))
  PROVE  Cardinality({v \in DOMAIN f : v[1] \in P /\ f[v] <= t})
           <= Cardinality({v \in DOMAIN f : v[1] \in P /\ f[v] > t})
  <1> DEFINE low(p) == Motion!AtMost(Motion!OfPrompt(f, p), t)
             high(p) == Motion!Above(Motion!OfPrompt(f, p), t)
             Low == {v \in DOMAIN f : v[1] \in P /\ f[v] <= t}
             High == {v \in DOMAIN f : v[1] \in P /\ f[v] > t}
             into(p) == CHOOSE h : h \in Injection(low(p), high(p))
             g == [v \in Low |-> into(v[1])[v]]
  <1>1. \A p \in P : IsFiniteSet(low(p)) /\ IsFiniteSet(high(p)) BY CountsAre
  <1>2. \A p \in P : Cardinality(low(p)) <= Cardinality(high(p)) OBVIOUS
  <1>3. ASSUME NEW p
        PROVE  /\ low(p) = {v \in DOMAIN f : v[1] = p /\ f[v] <= t}
               /\ high(p) = {v \in DOMAIN f : v[1] = p /\ f[v] > t}
    BY DEF Motion!AtMost, Motion!Above, Motion!OfPrompt, Motion!Only
  <1> HIDE DEF low, high
  <1>4. ASSUME NEW p \in P PROVE into(p) \in Injection(low(p), high(p))
    <2>1. \E h : h \in Injection(low(p), high(p)) BY <1>1, <1>2, MapsInto
    <2> QED BY <2>1
  <1> HIDE DEF into
  <1>5. ASSUME NEW v \in Low
        PROVE  v[1] \in P /\ v \in low(v[1]) /\ into(v[1])[v] \in high(v[1])
    <2>1. v[1] \in P /\ v \in low(v[1]) BY <1>3
    <2>2. into(v[1]) \in [low(v[1]) -> high(v[1])] BY <2>1, <1>4 DEF Injection
    <2> QED BY <2>1, <2>2
  <1>6. \A p \in P : high(p) \subseteq High BY <1>3
  <1>7. g \in [Low -> High] BY <1>5, <1>6
  <1>8. ASSUME NEW v \in Low, NEW w \in Low, g[v] = g[w] PROVE v = w
    <2>1. into(v[1])[v] = into(w[1])[w] BY <1>8
    <2>2. v[1] = w[1]
      <3>1. into(v[1])[v] \in high(v[1]) /\ into(w[1])[w] \in high(w[1]) BY <1>5
      <3> QED BY <2>1, <3>1, <1>3
    <2>3. v \in low(v[1]) /\ w \in low(v[1]) BY <2>2, <1>5
    <2>4. \A x, y \in low(v[1]) : into(v[1])[x] = into(v[1])[y] => x = y
      BY <1>4, <1>5 DEF Injection, IsInjective
    <2> QED BY <2>1, <2>2, <2>3, <2>4
  <1>9. g \in Injection(Low, High)
    <2> HIDE DEF g, Low, High
    <2> QED BY <1>7, <1>8 DEF Injection, IsInjective
  <1>10. IsFiniteSet(High) BY FS_Subset DEF IsScored
  <1> HIDE DEF g, Low, High
  <1>11. Cardinality(Low) <= Cardinality(High) BY <1>9, <1>10, FS_Injection
  <1> QED BY <1>11 DEF Low, High


LEMMA OnlyIs ==
  ASSUME NEW f, IsScored(f), NEW S \in SUBSET (DOMAIN f)
  PROVE  /\ IsScored(Motion!Only(f, S)) /\ DOMAIN Motion!Only(f, S) = S
         /\ Motion!Count(Motion!Only(f, S)) = Cardinality(S)
         /\ \A v \in S : Motion!Only(f, S)[v] = f[v]
  <1>1. Motion!Only(f, S) = [v \in S |-> f[v]] BY DEF Motion!Only
  <1>2. IsFiniteSet(S) BY FS_Subset DEF IsScored
  <1>3. \A v \in S : f[v] \in Int BY DEF IsScored
  <1>4. IsScored(Motion!Only(f, S)) BY <1>1, <1>2, <1>3 DEF IsScored
  <1>5. DOMAIN Motion!Only(f, S) = S BY <1>1
  <1>6. Motion!Count(Motion!Only(f, S)) = Cardinality(S)
    BY <1>5 DEF Motion!Count, Motion!Cardinality, Cardinality
  <1> QED BY <1>1, <1>4, <1>5, <1>6

Deviations(f) == [v \in DOMAIN f |-> Motion!Distance(f[v], Motion!Median(f))]

LEMMA DeviationsAre ==
  ASSUME NEW f, IsScored(f), DOMAIN f # {}
  PROVE  /\ Motion!Median(f) \in Int
         /\ Motion!MedianAbsDeviation(f) \in Nat
         /\ \A z \in Int : (\A v \in DOMAIN f : Deviations(f)[v] >= z)
                              => Motion!MedianAbsDeviation(f) >= z
  <1> DEFINE m == Motion!Median(f)  d == Deviations(f)
             n == Motion!Count(d)
             a == Motion!Ranked(d, 1 + ((n - 1) \div 2))
             b == Motion!Ranked(d, 1 + (n \div 2))
  <1>1. m \in Int
    <2> DEFINE x == Motion!Ranked(f, 1 + ((Motion!Count(f) - 1) \div 2))
               y == Motion!Ranked(f, 1 + (Motion!Count(f) \div 2))
    <2>1. x \in Int /\ y \in Int /\ m = (x + y) \div 2 BY MedianIs
    <2> HIDE DEF x, y, m
    <2> QED BY <2>1
  <1> HIDE DEF m
  <1>2. \A v \in DOMAIN f : f[v] \in Int BY DEF IsScored
  <1>3. \A v \in DOMAIN f : Motion!Distance(f[v], m) \in Nat
    BY <1>1, <1>2 DEF Motion!Distance
  <1>4. d = [v \in DOMAIN f |-> Motion!Distance(f[v], m)] BY DEF Deviations, m
  <1>5. DOMAIN d = DOMAIN f /\ IsScored(d) /\ \A v \in DOMAIN d : d[v] \in Nat
    <2> HIDE DEF d
    <2>1. DOMAIN d = DOMAIN f /\ \A v \in DOMAIN d : d[v] \in Nat BY <1>3, <1>4
    <2>2. IsFiniteSet(DOMAIN d) BY <2>1 DEF IsScored
    <2>3. d \in [DOMAIN d -> Int] BY <1>3, <1>4
    <2> QED BY <2>1, <2>2, <2>3 DEF IsScored
  <1>6. Motion!MedianAbsDeviation(f) = Motion!Median(d)
    BY DEF Motion!MedianAbsDeviation, Deviations
  <1> HIDE DEF d
  <1>7. n \in Nat \ {0} /\ 1 + ((n - 1) \div 2) \in 1 .. n /\ 1 + (n \div 2) \in 1 .. n
        /\ Motion!Median(d) = (a + b) \div 2
    BY <1>5, MedianIs
  <1>8. a \in {d[v] : v \in DOMAIN d} /\ b \in {d[v] : v \in DOMAIN d}
    BY <1>5, <1>7, RankedIs
  <1> HIDE DEF n, a, b
  <1>9. a \in Nat /\ b \in Nat BY <1>5, <1>8
  <1>10. Motion!MedianAbsDeviation(f) \in Nat BY <1>6, <1>7, <1>9
  <1>11. ASSUME NEW z \in Int, \A v \in DOMAIN f : d[v] >= z
         PROVE  Motion!MedianAbsDeviation(f) >= z
    <2>1. a >= z /\ b >= z BY <1>5, <1>8, <1>11
    <2>2. (a + b) \div 2 >= z BY <2>1, <1>9
    <2> QED BY <2>2, <1>6, <1>7
  <1> QED BY <1>1, <1>10, <1>11 DEF m, d

LEMMA CutoffIs ==
  ASSUME NEW f, IsScored(f), DOMAIN f # {}
  PROVE  /\ Motion!PreliminaryCutoff(f) \in Int
         /\ Motion!PreliminaryCutoff(f)
              = Motion!Median(f) + (IF Motion!MedianAbsDeviation(f) = 0 THEN 1
                                    ELSE 3 * Motion!MedianAbsDeviation(f))
  <1>1. Motion!PreliminaryCutoff(f)
          = Motion!Median(f) + (IF Motion!MedianAbsDeviation(f) = 0 THEN 1
                                ELSE 3 * Motion!MedianAbsDeviation(f))
    BY DEF Motion!PreliminaryCutoff
  <1>2. Motion!Median(f) \in Int /\ Motion!MedianAbsDeviation(f) \in Nat BY DeviationsAre
  <1> QED BY <1>1, <1>2

(* Half of a contaminated prompt, or more, is over the cutoff.               *)
LEMMA ContaminatedHalf ==
  ASSUME NEW f, IsScored(f), DOMAIN f # {}, NEW p \in Motion!Contaminated(f)
  PROVE  /\ IsScored(Motion!OfPrompt(f, p))
         /\ Cardinality(Motion!AtMost(Motion!OfPrompt(f, p), Motion!PreliminaryCutoff(f)))
              <= Cardinality(Motion!Above(Motion!OfPrompt(f, p), Motion!PreliminaryCutoff(f)))
  <1> DEFINE g == Motion!OfPrompt(f, p)  c == Motion!PreliminaryCutoff(f)
             n == Motion!Count(g)
             k == 1 + ((n - 1) \div 2)
             l == 1 + (n \div 2)
             a == Motion!Ranked(g, k)
             b == Motion!Ranked(g, l)
             low == Cardinality(Motion!AtMost(g, c))
             high == Cardinality(Motion!Above(g, c))
  <1>1. Motion!Count(g) > 0
        /\ (Motion!Median(g) > c \/ 2 * high >= Motion!Count(g))
    BY DEF Motion!Contaminated, Motion!Cardinality, Cardinality
  <1>2. {v \in DOMAIN f : v[1] = p} \in SUBSET (DOMAIN f) OBVIOUS
  <1>3. IsScored(g) BY <1>2, OnlyIs DEF Motion!OfPrompt
  <1>4. c \in Int BY CutoffIs
  <1> HIDE DEF g, c
  <1>5. Motion!Count(g) = Cardinality(DOMAIN g) /\ n \in Nat
        /\ low \in 0 .. n /\ high = n - low
    BY <1>3, <1>4, CountsAre
  <1>6. DOMAIN g # {}
    <2>1. DOMAIN g = {} => Cardinality(DOMAIN g) = 0 BY FS_EmptySet
    <2>2. Motion!Count(g) > 0 BY <1>1
    <2>3. Motion!Count(g) = Cardinality(DOMAIN g) BY <1>5
    <2>4. Cardinality(DOMAIN g) # 0 BY <2>2, <2>3
    <2> QED BY <2>1, <2>4
  <1>7. /\ n \in Nat \ {0} /\ l \in 1 .. n
        /\ a \in Int /\ b \in Int /\ a <= b
        /\ Motion!Median(g) = (a + b) \div 2
        /\ (b <= c <=> l <= low)
    BY <1>3, <1>4, <1>6, MedianIs
  <1>8. l = 1 + (n \div 2) OBVIOUS
  <1> HIDE DEF n, l, a, b, low, high
  <1>9. CASE Motion!Median(g) > c
    <2>1. ~(b <= c) BY <1>4, <1>7, <1>9
    <2>2. low < 1 + (n \div 2) BY <2>1, <1>5, <1>7, <1>8
    <2> QED BY <2>2, <1>3, <1>5, <1>7 DEF low, high, g, c
  <1>10. CASE 2 * high >= n
    BY <1>3, <1>5, <1>7, <1>10 DEF low, high, g, c
  <1> QED BY <1>1, <1>9, <1>10 DEF n

LEMMA ContaminatedTogether ==
  ASSUME NEW f, IsScored(f), DOMAIN f # {}
  PROVE  Cardinality({v \in DOMAIN f :
                        v[1] \in Motion!Contaminated(f) /\ f[v] <= Motion!PreliminaryCutoff(f)})
           <= Cardinality({v \in DOMAIN f :
                        v[1] \in Motion!Contaminated(f) /\ f[v] > Motion!PreliminaryCutoff(f)})
  <1> DEFINE P == Motion!Contaminated(f)  c == Motion!PreliminaryCutoff(f)
  <1>1. c \in Int BY CutoffIs
  <1>2. \A p \in P : /\ IsScored(Motion!OfPrompt(f, p))
                     /\ Cardinality(Motion!AtMost(Motion!OfPrompt(f, p), c))
                          <= Cardinality(Motion!Above(Motion!OfPrompt(f, p), c))
    BY ContaminatedHalf
  <1> HIDE DEF P, c
  <1>3. Cardinality({v \in DOMAIN f : v[1] \in P /\ f[v] <= c})
          <= Cardinality({v \in DOMAIN f : v[1] \in P /\ f[v] > c})
    BY <1>1, <1>2, PromptsTogether
  <1> QED BY <1>3 DEF P, c


(* Not every video is in a contaminated prompt.  Otherwise the upper of the  *)
(* two middle scores is over the cutoff; the cutoff is over the median, so   *)
(* the lower one is as far below it, and no score is between them.  Then     *)
(* every deviation is nearly that large, and with them the median deviation, *)
(* which the cutoff is three of.                                             *)
LEMMA PromptsLeft ==
  ASSUME NEW f, IsScored(f), DOMAIN f # {}
  PROVE  \E v \in DOMAIN f : v[1] \notin Motion!Contaminated(f)
  <1> SUFFICES ASSUME \A v \in DOMAIN f : v[1] \in Motion!Contaminated(f) PROVE FALSE
    OBVIOUS
  <1> DEFINE n == Motion!Count(f)
             k == 1 + ((n - 1) \div 2)
             l == 1 + (n \div 2)
             a == Motion!Ranked(f, k)
             b == Motion!Ranked(f, l)
             m == Motion!Median(f)
             mad == Motion!MedianAbsDeviation(f)
             c == Motion!PreliminaryCutoff(f)
             size(t) == Cardinality(Motion!AtMost(f, t))
  <1>1. /\ n \in Nat \ {0} /\ k \in 1 .. n /\ l \in 1 .. n /\ k <= l
        /\ a \in Int /\ b \in Int /\ a <= b
        /\ m = (a + b) \div 2
        /\ \A t \in Int : a <= t <=> k <= size(t)
        /\ \A t \in Int : b <= t <=> l <= size(t)
    BY MedianIs
  <1>2. k = 1 + ((n - 1) \div 2) /\ l = 1 + (n \div 2) /\ (k = l => a = b) OBVIOUS
  <1>3. mad \in Nat
        /\ \A z \in Int : (\A v \in DOMAIN f : Deviations(f)[v] >= z) => mad >= z
    BY DeviationsAre
  <1>4. c \in Int /\ c = m + (IF mad = 0 THEN 1 ELSE 3 * mad) BY CutoffIs
  <1>5. 2 * size(c) <= n
    <2>1. /\ {v \in DOMAIN f : v[1] \in Motion!Contaminated(f) /\ f[v] <= c}
               = Motion!AtMost(f, c)
          /\ {v \in DOMAIN f : v[1] \in Motion!Contaminated(f) /\ f[v] > c}
               = Motion!Above(f, c)
      BY DEF Motion!AtMost, Motion!Above
    <2>2. Cardinality(Motion!AtMost(f, c)) <= Cardinality(Motion!Above(f, c))
      BY <2>1, ContaminatedTogether
    <2>3. /\ Cardinality(Motion!AtMost(f, c)) \in 0 .. n
          /\ Cardinality(Motion!Above(f, c)) = n - Cardinality(Motion!AtMost(f, c))
      BY <1>4, CountsAre
    <2> HIDE DEF n, c
    <2> QED BY <2>2, <2>3, <1>1
  <1>6. \A t \in Int : size(t) \in 0 .. n BY CountsAre
  <1>7. \A v \in DOMAIN f : f[v] \in Int
                            /\ Deviations(f)[v] = IF f[v] > m THEN f[v] - m ELSE m - f[v]
    BY DEF IsScored, Deviations, Motion!Distance
  <1>8. \A v \in DOMAIN f : f[v] <= a \/ f[v] >= b
    <2>1. SUFFICES ASSUME NEW v \in DOMAIN f, a < f[v], f[v] < b PROVE FALSE
      BY <1>1, <1>7
    <2> DEFINE S == Motion!AtMost(f, a)  T == Motion!AtMost(f, f[v])
    <2>2. S \subseteq T /\ v \in T /\ v \notin S
      BY <2>1, <1>1, <1>7 DEF Motion!AtMost
    <2>3. IsFiniteSet(T) /\ Cardinality(S) = size(a) /\ Cardinality(T) = size(f[v])
      BY <1>7, CountsAre
    <2> HIDE DEF S, T
    <2>4. Cardinality(S) <= Cardinality(T) /\ Cardinality(S) # Cardinality(T)
      BY <2>2, <2>3, FS_Subset
    <2>5. k <= size(a) /\ ~(l <= size(f[v])) BY <2>1, <1>1, <1>7
    <2>6. size(a) \in Int /\ size(f[v]) \in Int BY <1>1, <1>6, <1>7
    <2> HIDE DEF size, a, b, n, k, l
    <2>7. size(a) + 1 < l BY <2>3, <2>4, <2>5, <2>6, <1>1
    <2>8. k + 1 >= l BY <1>1, <1>2
    <2> QED BY <2>5, <2>6, <2>7, <2>8, <1>1
  <1> HIDE DEF n, k, l, a, b, m, mad, c, size
  <1>9. b > c
    <2>1. ~(l <= size(c)) BY <1>1, <1>2, <1>4, <1>5, <1>6
    <2> QED BY <2>1, <1>1, <1>4
  <1>10. a # b
    <2>1. a = b => m = b BY <1>1
    <2> QED BY <2>1, <1>1, <1>3, <1>4, <1>9
  <1>11. 2 * m <= a + b /\ a + b <= 2 * m + 1 BY <1>1
  <1>12. CASE mad = 0
    <2>1. b >= m + 2 /\ a <= m - 1 BY <1>1, <1>4, <1>9, <1>11, <1>12
    <2>2. \A v \in DOMAIN f : Deviations(f)[v] >= 1 BY <2>1, <1>1, <1>4, <1>7, <1>8
    <2>3. mad >= 1 BY <2>2, <1>3
    <2> QED BY <2>3, <1>12
  <1>13. CASE mad # 0
    <2>1. b >= m + 3 * mad + 1 /\ a <= m - 3 * mad BY <1>1, <1>3, <1>4, <1>9, <1>11, <1>13
    <2>2. m \in Int BY <1>1
    <2>3. \A v \in DOMAIN f : Deviations(f)[v] >= 3 * mad
      BY <2>1, <2>2, <1>1, <1>3, <1>7, <1>8
    <2>4. mad >= 3 * mad
      <3> DEFINE z == 3 * mad
      <3>1. z \in Int BY <1>3
      <3>2. \A v \in DOMAIN f : Deviations(f)[v] >= z BY <2>3
      <3> HIDE DEF z
      <3>3. mad >= z BY <3>1, <3>2, <1>3
      <3> QED BY <3>3 DEF z
    <2> QED BY <2>4, <1>3, <1>13
  <1> QED BY <1>12, <1>13


(* The rank of a quantile of three quarters or more falls by as many scores  *)
(* as half of those that are left out, at least.                             *)
LEMMA RankFalls ==
  ASSUME NEW n \in Nat \ {0}, NEW m \in Nat \ {0}, NEW low \in Nat, m <= n - 2 * low,
         NEW d \in Nat \ {0}, NEW q \in 0 .. d, 3 * d <= 4 * q
  PROVE  QuantileRank(m, q, d) + low <= QuantileRank(n, q, d)
  <1> DEFINE a == (n - 1) * q  b == (m - 1) * q
             r == Motion!Rounded(a, d)  s == Motion!Rounded(b, d)
  <1>1. a \in Nat /\ b \in Nat OBVIOUS
  <1>2. b + 2 * (low * q) <= a
    <2>1. a - b - 2 * (low * q) = ((n - m) - 2 * low) * q OBVIOUS
    <2>2. ((n - m) - 2 * low) \in Nat /\ q \in Nat OBVIOUS
    <2>3. ((n - m) - 2 * low) * q \in Nat BY <2>2
    <2>4. low * q \in Nat BY <2>2
    <2> HIDE DEF a, b
    <2> QED BY <2>1, <2>3, <2>4, <1>1
  <1>3. 3 * (low * d) <= 4 * (low * q) /\ low * d \in Nat /\ low * q \in Nat
    <2>1. 4 * (low * q) - 3 * (low * d) = low * (4 * q - 3 * d) OBVIOUS
    <2>2. 4 * q - 3 * d \in Nat OBVIOUS
    <2>3. low * (4 * q - 3 * d) \in Nat BY <2>2
    <2>4. low * d \in Nat /\ low * q \in Nat OBVIOUS
    <2> QED BY <2>1, <2>3, <2>4
  <1>4. /\ r \in Nat /\ 2 * (d * r) <= 2 * a + d /\ 2 * a - d <= 2 * (d * r)
        /\ s \in Nat /\ 2 * (d * s) <= 2 * b + d /\ 2 * b - d <= 2 * (d * s)
    <2> HIDE DEF a, b
    <2> QED BY <1>1, RoundedIs
  <1>5. s <= r
    <2>1. b <= a
      <3> HIDE DEF a, b
      <3> QED BY <1>1, <1>2, <1>3
    <2> HIDE DEF a, b
    <2> QED BY <2>1, <1>1, RoundedRises
  <1> HIDE DEF a, b, r, s
  <1>6. s + low <= r
    <2>1. CASE low = 0 BY <2>1, <1>4, <1>5
    <2>2. CASE low # 0
      <3> DEFINE x == d * r  y == d * s  z == low * d  w == low * q
      <3>1. x \in Nat /\ y \in Nat /\ z \in Nat /\ w \in Nat BY <1>3, <1>4
      <3>2. z >= d
        <4>1. z - d = (low - 1) * d OBVIOUS
        <4>2. low - 1 \in Nat BY <2>2
        <4>3. (low - 1) * d \in Nat BY <4>2
        <4> HIDE DEF z
        <4> QED BY <4>1, <4>3, <3>1
      <3>3. r < s + low => x + d <= y + z
        <4>1. s + low \in Nat /\ r < s + low => d * r + d <= d * (s + low)
          BY <1>4, Multiplied
        <4>2. d * (s + low) = y + z BY <1>4
        <4> QED BY <4>1, <4>2, <1>4
      <3>4. /\ 2 * y <= 2 * b + d /\ 2 * a - d <= 2 * x
            /\ b + 2 * w <= a /\ 3 * z <= 4 * w
        BY <1>2, <1>3, <1>4
      <3> HIDE DEF x, y, z, w
      <3>5. 2 * y + 3 * z <= 2 * x + 2 * d BY <3>1, <3>4, <1>1
      <3>6. ~(x + d <= y + z) BY <3>1, <3>2, <3>5
      <3> QED BY <3>3, <3>6, <1>4
    <2> QED BY <2>1, <2>2
  <1> QED BY <1>4, <1>6 DEF QuantileRank, r, s, a, b

Kept(f) == {v \in DOMAIN f : v[1] \notin Motion!Contaminated(f)}

LEMMA PromptCleanIs ==
  ASSUME NEW f, IsScored(f)
  PROVE  /\ IsScored(Motion!PromptClean(f)) /\ DOMAIN Motion!PromptClean(f) = Kept(f)
         /\ \A v \in Kept(f) : Motion!PromptClean(f)[v] = f[v]
         /\ Motion!Count(Motion!PromptClean(f)) = Cardinality(Kept(f))
         /\ DOMAIN f # {} => Kept(f) # {}
  <1>1. Kept(f) \in SUBSET (DOMAIN f) BY DEF Kept
  <1>2. Motion!PromptClean(f) = Motion!Only(f, Kept(f)) BY DEF Motion!PromptClean, Kept
  <1>3. DOMAIN f # {} => Kept(f) # {} BY PromptsLeft DEF Kept
  <1> QED BY <1>1, <1>2, <1>3, OnlyIs

(* What the tail filter leaves: everything, or what is at most a cutoff that *)
(* the third quartile does not exceed.                                       *)
LEMMA TailLeaves ==
  ASSUME NEW g, IsScored(g), DOMAIN g # {}
  PROVE  /\ Motion!TailCutoff(g) \in Int
         /\ Motion!AtMost(g, Motion!TailCutoff(g)) # {}
  <1> DEFINE n == Motion!Count(g)
             k == QuantileRank(n, 1, 4)  l == QuantileRank(n, 3, 4)
             a == Motion!Ranked(g, k)  b == Motion!Ranked(g, l)
  <1>1. /\ k \in 1 .. n /\ l \in 1 .. n
        /\ Motion!Quantile(g, 1, 4) = a /\ Motion!Quantile(g, 3, 4) = b
    <2>1. 4 \in Nat \ {0} /\ 1 \in 0 .. 4 /\ 3 \in 0 .. 4 OBVIOUS
    <2> QED BY <2>1, QuantileIs
  <1>2. n \in Nat \ {0} BY CountsAre, 0 \in Int
  <1>3. k <= l
    <2> DEFINE x == (n - 1) * 1  y == (n - 1) * 3
    <2>1. x \in Nat /\ y \in Nat /\ x <= y /\ 4 \in Nat \ {0}
      <3> HIDE DEF n
      <3> QED BY <1>2
    <2> HIDE DEF x, y
    <2>2. Motion!Rounded(x, 4) <= Motion!Rounded(y, 4) BY <2>1, RoundedRises
    <2>3. Motion!Rounded(x, 4) \in Nat /\ Motion!Rounded(y, 4) \in Nat BY <2>1, RoundedIs
    <2>4. k = 1 + Motion!Rounded(x, 4) /\ l = 1 + Motion!Rounded(y, 4)
      BY DEF QuantileRank, x, y
    <2> QED BY <2>2, <2>3, <2>4
  <1> HIDE DEF k, l
  <1>4. a \in Int /\ b \in Int /\ b \in {g[v] : v \in DOMAIN g} BY <1>1, RankedIs
  <1>5. a <= b BY <1>1, <1>3, RankedRises
  <1>6. Motion!TailCutoff(g) = IF MotionDeltaMin > b + 3 * (b - a) THEN MotionDeltaMin
                               ELSE b + 3 * (b - a)
    BY <1>1 DEF Motion!TailCutoff, Motion!Larger
  <1> HIDE DEF n, a, b
  <1>7. Motion!TailCutoff(g) \in Int /\ b <= Motion!TailCutoff(g)
    BY <1>4, <1>5, <1>6, MotionConstantsAre
  <1>8. PICK v \in DOMAIN g : g[v] = b BY <1>4
  <1>9. v \in Motion!AtMost(g, Motion!TailCutoff(g)) BY <1>7, <1>8 DEF Motion!AtMost
  <1> QED BY <1>7, <1>9


LEMMA CleanIs ==
  ASSUME NEW f, IsScored(f)
  PROVE  /\ IsScored(Motion!Clean(f)) /\ DOMAIN Motion!Clean(f) \subseteq Kept(f)
         /\ \A v \in DOMAIN Motion!Clean(f) : Motion!Clean(f)[v] = f[v]
         /\ DOMAIN f # {} => DOMAIN Motion!Clean(f) # {}
         /\ \/ DOMAIN Motion!Clean(f) = Kept(f)
            \/ \E t \in Int : DOMAIN Motion!Clean(f) = {v \in Kept(f) : f[v] <= t}
  <1> DEFINE g == Motion!PromptClean(f)  t == Motion!TailCutoff(g)
             h == Motion!Clean(f)
  <1>1. /\ IsScored(g) /\ DOMAIN g = Kept(f) /\ \A v \in Kept(f) : g[v] = f[v]
        /\ DOMAIN f # {} => DOMAIN g # {}
    BY PromptCleanIs
  <1>2. h = IF Motion!Count(g) < EnoughRecords THEN g
            ELSE Motion!Only(g, Motion!AtMost(g, t))
    BY DEF Motion!Clean
  <1> HIDE DEF g, t, h
  <1>3. CASE h = g BY <1>1, <1>3 DEF h
  <1>4. CASE h = Motion!Only(g, Motion!AtMost(g, t)) /\ DOMAIN g # {}
    <2>1. t \in Int /\ Motion!AtMost(g, t) # {} BY <1>1, <1>4, TailLeaves DEF t
    <2>2. Motion!AtMost(g, t) = {v \in Kept(f) : f[v] <= t}
      BY <1>1 DEF Motion!AtMost
    <2>3. Motion!AtMost(g, t) \in SUBSET (DOMAIN g) BY DEF Motion!AtMost
    <2>4. /\ IsScored(h) /\ DOMAIN h = Motion!AtMost(g, t)
          /\ \A v \in Motion!AtMost(g, t) : h[v] = g[v]
      BY <1>1, <1>4, <2>3, OnlyIs
    <2>5. /\ IsScored(h) /\ DOMAIN h \subseteq Kept(f) /\ DOMAIN h # {}
          /\ \A v \in DOMAIN h : h[v] = f[v]
          /\ DOMAIN h = {v \in Kept(f) : f[v] <= t}
      BY <2>1, <2>2, <2>4, <1>1
    <2> QED BY <2>1, <2>5 DEF h
  <1>5. CASE h = Motion!Only(g, Motion!AtMost(g, t)) /\ DOMAIN g = {}
    <2>1. Motion!AtMost(g, t) = {} /\ Motion!AtMost(g, t) \in SUBSET (DOMAIN g)
      BY <1>5 DEF Motion!AtMost
    <2>2. IsScored(h) /\ DOMAIN h = {} BY <1>1, <1>5, <2>1, OnlyIs
    <2> QED BY <2>2, <1>1, <1>5 DEF h
  <1> QED BY <1>2, <1>3, <1>4, <1>5

Rate == FprDen - FprNum

LEMMA StaticThresholdIs ==
  ASSUME NEW f, IsScored(f)
  PROVE  /\ DOMAIN f = {} => Motion!ThresholdOf(f) = MotionDeltaMin
         /\ DOMAIN f # {} =>
               /\ QuantileRank(Motion!Count(f), Rate, FprDen) \in 1 .. Motion!Count(f)
               /\ Motion!ThresholdOf(f) \in {f[v] : v \in DOMAIN f}
               /\ Motion!ThresholdOf(f) \in Int
               /\ \A t \in Int :
                     Motion!ThresholdOf(f) <= t
                       <=> QuantileRank(Motion!Count(f), Rate, FprDen)
                             <= Cardinality(Motion!AtMost(f, t))
  <1>1. ASSUME DOMAIN f # {}
        PROVE  LET k == QuantileRank(Motion!Count(f), Rate, FprDen)
               IN  k \in 1 .. Motion!Count(f)
                   /\ Motion!ThresholdOf(f) = Motion!Ranked(f, k)
    <2>1. FprDen \in Nat \ {0} /\ Rate \in 0 .. FprDen BY MotionConstantsAre DEF Rate
    <2>2. Motion!ThresholdOf(f) = Motion!Quantile(f, Rate, FprDen)
      BY <1>1 DEF Motion!ThresholdOf, Rate
    <2> QED BY <1>1, <2>1, <2>2, QuantileIs
  <1>2. DOMAIN f = {} => Motion!ThresholdOf(f) = MotionDeltaMin
    BY DEF Motion!ThresholdOf
  <1> QED BY <1>1, <1>2, RankedIs

LEMMA RateOf ==
  ASSUME NEW f, IsScored(f), DOMAIN f # {}
  PROVE  2 * FprDen * Cardinality(Motion!Above(f, Motion!ThresholdOf(f)))
           <= 2 * FprNum * (Motion!Count(f) - 1) + FprDen
  <1> DEFINE n == Motion!Count(f)  t == Motion!ThresholdOf(f)
             r == Motion!Rounded((n - 1) * Rate, FprDen)
             high == Cardinality(Motion!Above(f, t))
             size == Cardinality(Motion!AtMost(f, t))
  <1>1. t \in Int /\ (t <= t <=> 1 + r <= size)
    BY StaticThresholdIs DEF QuantileRank
  <1>2. n \in Nat \ {0} /\ size \in 0 .. n /\ high = n - size
    <2>1. n \in Nat /\ n > 0 BY CountsAre, 0 \in Int
    <2>2. size \in 0 .. n /\ high = n - size BY <1>1, CountsAre
    <2> QED BY <2>1, <2>2
  <1>3. FprDen \in Nat \ {0} /\ FprNum \in 0 .. FprDen /\ Rate = FprDen - FprNum
    BY MotionConstantsAre DEF Rate
  <1> HIDE DEF n, t, high, size
  <1>4. /\ (n - 1) * Rate \in Nat
        /\ (n - 1) * Rate = (n - 1) * FprDen - (n - 1) * FprNum
    BY <1>2, <1>3
  <1>5. r \in Nat /\ 2 * ((n - 1) * Rate) - FprDen <= 2 * (FprDen * r)
    BY <1>3, <1>4, RoundedIs
  <1> HIDE DEF r
  <1>6. high <= n - 1 - r /\ high \in Nat BY <1>1, <1>2, <1>5
  <1>7. FprDen * high <= FprDen * (n - 1 - r)
    <2>1. n - 1 - r \in Int BY <1>2, <1>5
    <2> QED BY <2>1, <1>3, <1>6, Multiplied
  <1>8. FprDen * (n - 1 - r) = (n - 1) * FprDen - FprDen * r BY <1>2, <1>3, <1>5
  <1> DEFINE x == FprDen * high  y == FprDen * r  z == (n - 1) * FprDen
             w == (n - 1) * FprNum  u == (n - 1) * Rate
  <1>9. x \in Int /\ y \in Int /\ z \in Int /\ w \in Int /\ u \in Int
    BY <1>2, <1>3, <1>5, <1>6
  <1>10. x <= z - y /\ u = z - w /\ 2 * u - FprDen <= 2 * y
    BY <1>4, <1>5, <1>7, <1>8
  <1>11. 2 * FprDen * high = 2 * x /\ 2 * FprNum * (n - 1) = 2 * w BY <1>2, <1>3, <1>6
  <1> HIDE DEF x, y, z, w, u
  <1>12. 2 * x <= 2 * w + FprDen BY <1>3, <1>9, <1>10
  <1> QED BY <1>11, <1>12 DEF n, t, high

(* If the threshold of all videos is not over the first cutoff, at most half *)
(* of what the prompts left out held was at that threshold or below; so the  *)
(* rank falls by at least as many, and the clean videos reach it.            *)
LEMMA FiltersLower ==
  ASSUME NEW f, IsScored(f), DOMAIN f # {}, 4 * FprNum <= FprDen,
         Motion!ThresholdOf(f) <= Motion!PreliminaryCutoff(f)
  PROVE  Motion!ThresholdOf(Motion!Clean(f)) <= Motion!ThresholdOf(f)
  <1> DEFINE x == Motion!ThresholdOf(f)
             c == Motion!PreliminaryCutoff(f)
             g == Motion!Clean(f)
             D == DOMAIN f
             A == {v \in D : f[v] <= x}
             P == Motion!Contaminated(f)
             L == {v \in D : v[1] \in P /\ f[v] <= x}
             M == {v \in D : v[1] \in P /\ f[v] <= c}
             H == {v \in D : v[1] \in P /\ f[v] > c}
             k == QuantileRank(Motion!Count(f), Rate, FprDen)
             l == QuantileRank(Motion!Count(g), Rate, FprDen)
  <1>1. x \in Int /\ (x <= x <=> k <= Cardinality(Motion!AtMost(f, x))) BY StaticThresholdIs
  <1>2. c \in Int /\ x <= c BY CutoffIs
  <1>3. /\ IsScored(g) /\ DOMAIN g \subseteq Kept(f) /\ DOMAIN g # {}
        /\ \A v \in DOMAIN g : g[v] = f[v]
        /\ \/ DOMAIN g = Kept(f)
           \/ \E t \in Int : DOMAIN g = {v \in Kept(f) : f[v] <= t}
    BY CleanIs
  <1>4. /\ Motion!ThresholdOf(g) \in {g[v] : v \in DOMAIN g}
        /\ Motion!ThresholdOf(g) <= x <=> l <= Cardinality(Motion!AtMost(g, x))
    BY <1>1, <1>3, StaticThresholdIs
  <1>5. Motion!Count(f) = Cardinality(D) /\ Cardinality(D) \in Nat \ {0}
        /\ Motion!Count(g) = Cardinality(DOMAIN g) /\ Cardinality(DOMAIN g) \in Nat \ {0}
    <2>1. Motion!Count(f) \in Nat /\ Motion!Count(f) > 0
          /\ Motion!Count(g) \in Nat /\ Motion!Count(g) > 0
      BY <1>1, <1>3, CountsAre
    <2>2. Motion!Count(f) = Cardinality(D) /\ Motion!Count(g) = Cardinality(DOMAIN g)
      BY <1>1, <1>3, CountsAre
    <2> QED BY <2>1, <2>2
  <1>6. Motion!AtMost(f, x) = A BY DEF Motion!AtMost
  <1>7. IsFiniteSet(D) /\ \A v \in D : f[v] \in Int BY DEF IsScored
  <1>8. Kept(f) = D \ (M \cup H) /\ M \cap H = {} /\ D \cap (M \cup H) = M \cup H
    <2>1. \A v \in D : f[v] <= c \/ f[v] > c BY <1>2, <1>7
    <2>2. \A v \in D : ~(f[v] <= c /\ f[v] > c) BY <1>2, <1>7
    <2> QED BY <2>1, <2>2 DEF Kept
  <1>9. L \subseteq M /\ L \subseteq A /\ A \subseteq D /\ A \cap L = L
    BY <1>1, <1>2, <1>7
  <1>10. Cardinality(M) <= Cardinality(H) BY ContaminatedTogether
  <1> HIDE DEF D, A, P, L, M, H, x, c, g, k, l
  <1>11. IsFiniteSet(M) /\ IsFiniteSet(H) /\ IsFiniteSet(A) /\ IsFiniteSet(L)
    BY <1>7, FS_Subset DEF M, H, A, L
  <1>12. Cardinality(M) \in Nat /\ Cardinality(H) \in Nat /\ Cardinality(A) \in Nat
         /\ Cardinality(L) \in Nat /\ Cardinality(L) <= Cardinality(M)
    BY <1>9, <1>11, FS_Subset, FS_CardinalityType
  <1>13. /\ IsFiniteSet(Kept(f))
         /\ Cardinality(Kept(f)) = Cardinality(D) - Cardinality(M) - Cardinality(H)
    <2>1. IsFiniteSet(M \cup H) /\ Cardinality(M \cup H) = Cardinality(M) + Cardinality(H)
      <3>1. Cardinality(M \cup H)
              = Cardinality(M) + Cardinality(H) - Cardinality(M \cap H)
            /\ IsFiniteSet(M \cup H)
        BY <1>11, FS_Union
      <3>2. Cardinality(M \cap H) = 0 BY <1>8, FS_EmptySet
      <3> QED BY <3>1, <3>2, <1>12
    <2>2. IsFiniteSet(D \ (M \cup H))
          /\ Cardinality(D \ (M \cup H)) = Cardinality(D) - Cardinality(D \cap (M \cup H))
      BY <1>7, FS_Difference
    <2>3. Cardinality(D \cap (M \cup H)) = Cardinality(M) + Cardinality(H)
      BY <2>1, <1>8
    <2>4. IsFiniteSet(Kept(f)) /\ Cardinality(Kept(f)) = Cardinality(D \ (M \cup H))
      BY <2>2, <1>8
    <2> QED BY <2>2, <2>3, <2>4, <1>5, <1>12
  <1>14. Cardinality(DOMAIN g) <= Cardinality(Kept(f)) BY <1>3, <1>13, FS_Subset
  <1>15. IsFiniteSet(A \ L) /\ Cardinality(A \ L) = Cardinality(A) - Cardinality(L)
    BY <1>9, <1>11, FS_Difference
  <1>16. l + Cardinality(L) <= k
    <2>1. FprDen \in Nat \ {0} /\ Rate \in 0 .. FprDen /\ 3 * FprDen <= 4 * Rate
      BY MotionConstantsAre DEF Rate
    <2>2. Cardinality(DOMAIN g) <= Cardinality(D) - 2 * Cardinality(L)
      BY <1>5, <1>10, <1>12, <1>13, <1>14
    <2>3. QuantileRank(Cardinality(DOMAIN g), Rate, FprDen) + Cardinality(L)
            <= QuantileRank(Cardinality(D), Rate, FprDen)
      BY <2>1, <2>2, <1>5, <1>12, RankFalls
    <2> QED BY <2>3, <1>5 DEF k, l
  <1>17. k \in Int /\ l \in Int
    <2>1. FprDen \in Nat \ {0} /\ Rate \in 0 .. FprDen BY MotionConstantsAre DEF Rate
    <2>2. QuantileRank(Motion!Count(f), Rate, FprDen) \in 1 .. Motion!Count(f)
      BY <2>1, <1>5, QuantileRankIs
    <2>3. QuantileRank(Motion!Count(g), Rate, FprDen) \in 1 .. Motion!Count(g)
      BY <2>1, <1>5, QuantileRankIs
    <2> QED BY <2>2, <2>3 DEF k, l
  <1>18. l <= Cardinality(A \ L) BY <1>1, <1>6, <1>12, <1>15, <1>16, <1>17
  <1>19. A \ L = {v \in Kept(f) : f[v] <= x} BY DEF A, L, P, D, Kept
  <1>20. CASE A \ L \subseteq DOMAIN g
    <2>1. Motion!AtMost(g, x) = A \ L
      BY <1>3, <1>19, <1>20 DEF Motion!AtMost
    <2> QED BY <2>1, <1>4, <1>18 DEF g, x
  <1>21. CASE ~(A \ L \subseteq DOMAIN g)
    <2>1. PICK v \in A \ L : v \notin DOMAIN g BY <1>21
    <2>2. PICK t \in Int : DOMAIN g = {w \in Kept(f) : f[w] <= t} BY <1>3, <1>19, <2>1
    <2>3. ~(f[v] <= t) /\ f[v] <= x /\ f[v] \in Int
      BY <2>1, <2>2, <1>7, <1>19 DEF Kept, D
    <2>4. PICK w \in DOMAIN g : Motion!ThresholdOf(g) = g[w] BY <1>4
    <2>5. g[w] = f[w] /\ f[w] <= t /\ f[w] \in Int
      BY <2>2, <2>4, <1>3, <1>7 DEF Kept, D
    <2>6. Motion!ThresholdOf(g) <= x BY <2>3, <2>4, <2>5, <1>1
    <2> QED BY <2>6 DEF g, x
  <1> QED BY <1>20, <1>21

LEMMA MotionIsAsPromised ==
  MotionInv => /\ Motion!TypeOK /\ Motion!SomethingIsLeft
               /\ Motion!RateIsNear /\ Motion!FilterNeverRaises
  <1> SUFFICES ASSUME MotionInv
               PROVE  /\ Motion!TypeOK /\ Motion!SomethingIsLeft
                      /\ Motion!RateIsNear /\ Motion!FilterNeverRaises
    OBVIOUS
  <1>1. IsFiniteSet(Motion!Videos)
    <2>1. IsFiniteSet(1 .. SeedCount) BY MotionConstantsAre, FS_Interval, 1 \in Int
    <2> QED BY <2>1, MotionConstantsAre, FS_Product DEF Motion!Videos
  <1>2. \A s \in Motion!Scores : s \in Int BY MotionConstantsAre DEF Motion!Scores
  <1>3. IsScored(static)
    <2>1. IsFiniteSet(DOMAIN static) BY <1>1, FS_Subset DEF MotionInv
    <2>2. static \in [DOMAIN static -> Motion!Scores] BY DEF MotionInv
    <2>3. static \in [DOMAIN static -> Int] BY <1>2, <2>2
    <2> QED BY <2>1, <2>3 DEF IsScored
  <1> DEFINE g == Motion!Clean(static)
  <1>4. /\ IsScored(g) /\ DOMAIN g \subseteq Kept(static)
        /\ \A v \in DOMAIN g : g[v] = static[v]
        /\ DOMAIN static # {} => DOMAIN g # {}
    BY <1>3, CleanIs
  <1>5. Motion!ThresholdOf(g) \in {MotionDeltaMin} \cup {g[v] : v \in DOMAIN g}
    BY <1>4, StaticThresholdIs
  <1>6. DOMAIN g # {} =>
           2 * FprDen * Cardinality(Motion!Above(g, Motion!ThresholdOf(g)))
             <= 2 * FprNum * (Motion!Count(g) - 1) + FprDen
    BY <1>4, RateOf
  <1>7. g \in [DOMAIN g -> Motion!Scores] /\ DOMAIN g \subseteq Motion!Videos
    <2>1. DOMAIN g \subseteq DOMAIN static BY <1>4 DEF Kept
    <2>2. \A v \in DOMAIN static : static[v] \in Motion!Scores BY DEF MotionInv
    <2>3. \A v \in DOMAIN g : g[v] \in Motion!Scores BY <2>1, <2>2, <1>4
    <2>4. g \in [DOMAIN g -> Int] BY <1>4 DEF IsScored
    <2>5. g \in [DOMAIN g -> Motion!Scores] BY <2>3, <2>4
    <2>6. DOMAIN static \subseteq Motion!Videos BY DEF MotionInv
    <2> QED BY <2>1, <2>5, <2>6
  <1> HIDE DEF g
  <1>8. CASE audit.decision = "none"
    <2>1. audit.threshold = MotionDeltaMin /\ audit.clean = [v \in {} |-> 0]
      BY <1>8 DEF MotionInv, Motion!NoScores
    <2>2. Motion!TypeOK BY <2>1 DEF MotionInv, Motion!TypeOK
    <2>3. ~Motion!Frozen BY <1>8 DEF Motion!Frozen
    <2> QED
      BY <2>2, <2>3
      DEF Motion!SomethingIsLeft, Motion!RateIsNear, Motion!FilterNeverRaises
  <1>9. CASE audit.decision # "none"
    <2>1. audit.clean = g /\ audit.threshold = Motion!ThresholdOf(g)
      BY <1>9 DEF MotionInv, g
    <2>2. Motion!TypeOK BY <2>1, <1>5, <1>7 DEF MotionInv, Motion!TypeOK
    <2>3. Motion!SomethingIsLeft BY <2>1, <1>4 DEF Motion!SomethingIsLeft
    <2>4. Motion!RateIsNear
      BY <2>1, <1>6 DEF Motion!RateIsNear, Motion!Cardinality, Cardinality
    <2>5. Motion!FilterNeverRaises
      BY <2>1, <1>3, FiltersLower DEF Motion!FilterNeverRaises, g
    <2> QED BY <2>2, <2>3, <2>4, <2>5
  <1> QED BY <1>8, <1>9

-----------------------------------------------------------------------------
(* The theorems of the whole. *)

LEMMA GatesProject == (Start => Init) /\ ([SomeStep]_allVars => [Next]_vars)
  <1>1. Start => Init BY DEF Start
  <1>2. ASSUME [SomeStep]_allVars PROVE [Next]_vars
    <2>1. CASE GatesStep BY <2>1 DEF GatesStep
    <2>2. CASE Rest /\ program # "gate" BY <2>2 DEF Rest
    <2>3. CASE UNCHANGED allVars BY <2>3 DEF allVars
    <2> QED
      BY <1>2, <2>1, <2>2, <2>3
      DEF SomeStep, ChainStep, FlowStep, AdaptiveStep, SearchStep, FairnessStep,
          DetectorStep, MotionStep
  <1> QED BY <1>1, <1>2

(* What the run checks of the gates, for any number of profiles and gate     *)
(* runs: no transition passes over an earlier profile or mixes gate runs,    *)
(* and neither a stale replay nor a stale report decides.                    *)
THEOREM GatesAreSafe == AllSpec => []GateIsSafe
  <1>1. Start => IndInv BY GatesProject, InitInv
  <1>2. IndInv /\ [SomeStep]_allVars => IndInv' BY GatesProject, NextInv
  <1>3. IndInv => GateIsSafe BY DEF IndInv, GateIsSafe
  <1> QED BY <1>1, <1>2, <1>3, PTL DEF AllSpec

(* One run root, its flow evidence and its adaptive attacks, for any units,  *)
(* runs, revisions, videos and queries: a verified trajectory is of one run  *)
(* and a passing decision of the whole plan; flow evidence that passes is    *)
(* whole and its decision that of the records beside it; a complete          *)
(* execution of the attacks has every unit once and four files of one run.   *)
THEOREM EvidenceStaysOneRun == AllSpec => []EvidenceIsOneRun
  <1>1. Start => ChainInv /\ FlowInv /\ AttackInv
    BY ChainStarts, FlowStarts, AttackStarts
  <1>2. ChainInv /\ FlowInv /\ AttackInv /\ [SomeStep]_allVars
        => ChainInv' /\ FlowInv' /\ AttackInv'
    BY ChainProjects, FlowProjects, AttackProjects, NextChainInv, NextFlowInv,
       NextAttackInv
  <1>3. ChainInv /\ FlowInv /\ AttackInv => EvidenceIsOneRun
    BY ChainIsAsPromised, FlowIsAsPromised, AttackIsAsPromised DEF EvidenceIsOneRun
  <1> QED BY <1>1, <1>2, <1>3, PTL DEF AllSpec

(* The calibrations, for any score files, clusters, folds, levels and rates: *)
(* a threshold keeps the rate over videos and is the lowest that does, a     *)
(* comparison that passes is of the same held-out anchors, a finished        *)
(* notebook leaves files of one evidence, and no cluster is behind its own   *)
(* score.                                                                    *)
THEOREM ThresholdsStayHeld == AllSpec => []ThresholdsAreHeld
  <1>1. Start => FairnessInv /\ DetectorInv BY FairnessStarts, DetectorStarts
  <1>2. FairnessInv /\ DetectorInv /\ [SomeStep]_allVars => FairnessInv' /\ DetectorInv'
    BY FairnessProjects, DetectorProjects, NextFairnessInv, NextDetectorInv
  <1>3. FairnessInv /\ DetectorInv => ThresholdsAreHeld
    BY FairnessIsAsPromised, DetectorIsAsPromised DEF ThresholdsAreHeld
  <1> QED BY <1>1, <1>2, <1>3, PTL DEF AllSpec

(* A calibration moves the threshold of a method only when a clean negative  *)
(* of its calibration split has changed, whatever was measured on the        *)
(* held-out split.                                                           *)
THEOREM ThresholdStaysFrozen == AllSpec => ThresholdIsFrozen
  <1>1. Start => FairnessInv BY FairnessStarts
  <1>2. FairnessInv /\ [SomeStep]_allVars => FairnessInv'
    BY FairnessProjects, NextFairnessInv
  <1>3. FairnessInv /\ [SomeStep]_allVars => [ThresholdsStay]_fair
    BY FairnessProjects, NextThresholdsStay
  <1> QED
    BY <1>1, <1>2, <1>3, PTL
    DEF AllSpec, ThresholdIsFrozen, Fairness!ThresholdIsFrozen, ThresholdsStay

(* What is selected, for any grid, budget and answers of a search and any    *)
(* scores of static videos: no point is paid for twice, a refinement is of   *)
(* the best candidate that can still be refined, the audit is what a replay  *)
(* finds; the two filters never take every video, the frozen threshold keeps *)
(* the target rate to within half a video, and the filters do not raise a    *)
(* threshold that the first cutoff does not put in doubt.                    *)
THEOREM SelectionsStayExact == AllSpec => []SelectionsAreExact
  <1>1. Start => SearchInv /\ MotionInv BY SearchStarts, MotionStarts
  <1>2. SearchInv /\ MotionInv /\ [SomeStep]_allVars => SearchInv' /\ MotionInv'
    BY SearchProjects, MotionProjects, NextSearchInv, NextMotionInv
  <1>3. SearchInv /\ MotionInv => SelectionsAreExact
    BY SearchIsAsPromised, MotionIsAsPromised DEF SelectionsAreExact
  <1> QED BY <1>1, <1>2, <1>3, PTL DEF AllSpec
=============================================================================
