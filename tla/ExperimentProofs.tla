--------------------------- MODULE ExperimentProofs ---------------------------
(*****************************************************************************)
(* Proofs about the programs that generate and measure videos: the           *)
(* patch-relation probe, the frame state experiment, the construction of the *)
(* public atom and the formal comparison, for every plan, every size and     *)
(* every number of faults.                                                   *)
(*****************************************************************************)
EXTENDS MCPrograms, WellFoundedInduction, TLAPS

-----------------------------------------------------------------------------
(* The patch-relation probe: no video is generated on a changed model, and a *)
(* completed video stays within the flow energy budget.                      *)

InScope == {"pipe", "search", "judge", "consume"}

\* What the scopes have left behind, at every point of a run.
CInv ==
    /\ pc \in InScope => captured = {} /\ rope = {}
    /\ pc = "exit" => captured = {} /\ (raised = FALSE => rope = {})
    /\ pc \in {"enter", "returned"} \cup Working => host = {} /\ rope = {}
    /\ pc \notin {"exit", "failed", "raised"} => raised = FALSE

\* CleanModel: a probe captures the original methods, and nothing is left on
\* the rope (both scopes' __exit__).  Nor is anything left when the run returns.
THEOREM ModelIsClean == Spec => []CleanModel
<1>1. Init => CInv
  BY DEF Init, CInv, InScope, Working
<1>2. CInv /\ [Next]_vars => CInv'
  <2> SUFFICES ASSUME CInv, [Next]_vars PROVE CInv'
    OBVIOUS
  <2> USE DEF CInv, InScope, Working
  <2>1. CASE EnterRefuses \/ Enter \/ EnterFails
    BY <2>1 DEF EnterRefuses, Enter, EnterFails, Fresh
  <2>2. CASE ExternalForward \/ ExternalForwardFails \/ PipelineRaises \/ PipelineReturns
    BY <2>2 DEF ExternalForward, ExternalForwardFails, PipelineRaises, PipelineReturns,
       ForwardSucceeds, ForwardRaises, PipeFails
  <2>3. CASE SchedulerStepRefuses \/ StartCleanStep \/ StartSearch
    BY <2>3 DEF SchedulerStepRefuses, StartCleanStep, StartSearch, PipeFails
  <2>4. CASE SearchAttempt \/ SearchRaises \/ Select \/ BackOff \/ NoScale
    BY <2>4 DEF SearchAttempt, SearchRaises, Select, BackOff, NoScale, ForwardSucceeds,
       ForwardRaises, PipeFails
  <2>5. CASE Consume \/ ConsumeRaises
    BY <2>5 DEF Consume, ConsumeRaises
  <2>6. CASE ExitCompletes \/ ExitRaises
    BY <2>6 DEF ExitCompletes, ExitRaises
  <2>7. CASE WriteGeneration \/ WriteSteps \/ WriteFeatures
    BY <2>7 DEF WriteGeneration, WriteSteps, WriteFeatures
  <2>8. CASE Decide \/ WriteManifest \/ WorkRaises \/ DecideFailure
    BY <2>8 DEF Decide, WriteManifest, WorkRaises, DecideFailure
  <2>9. CASE UNCHANGED vars
    BY <2>9 DEF vars
  <2> QED
    BY <2>1, <2>2, <2>3, <2>4, <2>5, <2>6, <2>7, <2>8, <2>9
       DEF Next, Run, PipeStep, Ended
<1>3. CInv => CleanModel
  BY DEF CInv, CleanModel, InScope, Working
<1> QED
  BY <1>1, <1>2, <1>3, PTL DEF Spec

----------------------------------------------------------------------------
(* The energy budget                                                        *)

BudgetHolds == BudgetDen * spent.control <= BudgetNum * spent.reference

\* A step spends only what its guard allows, a clean probe spends nothing, and
\* the guard of the last step knows the reference energy of the whole video.
BInv ==
    /\ probe \in 1 .. Len(Plan)
    /\ sched \in 0 .. Steps
    /\ spent \in [reference : Nat, control : Nat]
    /\ search \in [attempt : Int, scale : Int, reference : Nat, energy : Nat,
                   feasible : SUBSET {-1, 1}]
    /\ pc \in {"search", "judge"} => Sign # 0
    /\ pc # "enter" /\ Sign = 0 => spent.control = 0 /\ search.energy = 0
    /\ pc \in {"judge", "consume"} /\ Sign # 0 => search.energy \in Energy
    /\ pc # "enter" /\ sched = Steps => BudgetHolds
    /\ pc \in Working => sched = Steps
    /\ pc \in {"search", "judge", "consume"} => sched # Steps

\* The guard of the last step bounds the energy of the whole video: e is what it
\* spends, c what was spent, m what the projected reference energy allows.
LEMMA LastStepKeeps ==
    ASSUME NEW e \in Nat, NEW c \in Nat, NEW m \in Nat, NEW d \in Nat \ {0}, e > 0,
           d * e <= (IF m - d * c > 0 THEN m - d * c ELSE 0)
    PROVE  d * (c + e) <= m
<1>1. d * e > 0
  OBVIOUS
<1>2. d * e \in Int /\ d * c \in Int
  OBVIOUS
<1>3. d * e <= m - d * c
  BY <1>1, <1>2
<1>4. d * (c + e) = d * c + d * e
  OBVIOUS
<1> QED
  BY <1>2, <1>3, <1>4

\* One scheduler step keeps the budget when it is the last.
LEMMA ConsumeKeeps == ASSUME BInv, Consume PROVE BInv'
<1> USE BoundsAssumption, PlanAssumption
<1>0. /\ pc = "consume" /\ pc' = "pipe" /\ probe' = probe /\ sched' = sched + 1
      /\ spent' = [reference |-> spent.reference + search.reference,
                   control |-> spent.control + search.energy]
      /\ search' = NoSearch
      /\ Sign # 0 => WithinBudget(search.energy, search.reference)
  BY DEF Consume, MeasuredStep
<1>1. sched \in 0 .. Steps /\ spent.reference \in Nat /\ spent.control \in Nat
      /\ search.reference \in Nat /\ search.energy \in Nat
  BY DEF BInv
<1>2. /\ spent' \in [reference : Nat, control : Nat]
      /\ spent'.reference = spent.reference + search.reference
      /\ spent'.control = spent.control + search.energy
      /\ search' \in [attempt : Int, scale : Int, reference : Nat, energy : Nat,
                     feasible : SUBSET {-1, 1}]
      /\ search'.energy = 0
  BY <1>0, <1>1 DEF NoSearch
<1>3. sched # Steps
  BY <1>0 DEF BInv
<1>4. Sign' = 0 => spent'.control = 0
  BY <1>0, <1>1, <1>2 DEF BInv, Sign
<1>5. ASSUME sched' = Steps PROVE BudgetHolds'
  <2>1. Steps - sched = 1
    BY <1>5, <1>0, <1>1
  <2>2. CASE Sign = 0
    <3>1. spent'.control = 0
      BY <2>2, <1>4, <1>0 DEF Sign
    <3> QED
      BY <3>1, <1>1, <1>2 DEF BudgetHolds
  <2>3. CASE Sign # 0
    <3>1. search.energy \in Energy
      BY <2>3, <1>0 DEF BInv
    <3>2. search.energy > 0
      <4>1. search.energy \in Nat \ {0}
        BY <3>1, BoundsAssumption
      <4> QED
        BY <4>1
    <3>3. Projected(search.reference) = spent.reference + search.reference
      BY <2>1, <1>1 DEF Projected
    <3> DEFINE m == BudgetNum * (spent.reference + search.reference)
    <3>4. m \in Nat
      BY <1>1
    <3>5. BudgetDen * search.energy <=
            (IF m - BudgetDen * spent.control > 0 THEN m - BudgetDen * spent.control ELSE 0)
      BY <2>3, <1>0, <3>3 DEF WithinBudget, Remaining
    <3> HIDE DEF m
    <3>6. BudgetDen * (spent.control + search.energy) <= m
      BY <1>1, <3>2, <3>4, <3>5, LastStepKeeps
    <3> QED
      BY <3>6, <1>2 DEF BudgetHolds, m
  <2> QED
    BY <2>2, <2>3
<1>6. sched' \in 0 .. Steps
  BY <1>0, <1>1, <1>3
<1>7. probe' \in 1 .. Len(Plan)
  BY <1>0 DEF BInv
<1> QED
  BY <1>0, <1>2, <1>4, <1>5, <1>6, <1>7 DEF BInv, Working

\* BudgetKept: whatever a probe's steps measured, when its scope completed the
\* control energy it spent is within the ratio of its reference energy
\* (measure_cfg_state_update_numpy).
THEOREM BudgetIsKept == Spec => []BudgetKept
<1> USE BoundsAssumption, PlanAssumption
<1>1. Init => BInv
  <2> SUFFICES ASSUME Init PROVE BInv
    OBVIOUS
  <2>1. Len(Plan) \in Nat /\ Len(Plan) >= 1
    OBVIOUS
  <2> QED
    BY <2>1 DEF Init, BInv, NoSearch, Working
<1>2. BInv /\ [Next]_vars => BInv'
  <2> SUFFICES ASSUME BInv, [Next]_vars PROVE BInv'
    OBVIOUS
  <2>1. CASE EnterRefuses \/ Enter \/ EnterFails
    <3>1. /\ probe' = probe /\ sched' = 0 /\ search' = NoSearch
          /\ spent' = [reference |-> 0, control |-> 0]
          /\ pc' \in {"pipe", "failed"}
      BY <2>1 DEF EnterRefuses, Enter, EnterFails, Fresh
    <3>2. search' \in [attempt : Int, scale : Int, reference : Nat, energy : Nat,
                       feasible : SUBSET {-1, 1}] /\ search'.energy = 0
      BY <3>1 DEF NoSearch
    <3>3. spent' \in [reference : Nat, control : Nat] /\ spent'.control = 0
      BY <3>1
    <3>4. sched' \in 0 .. Steps /\ sched' # Steps
      BY <3>1, BoundsAssumption
    <3> QED
      BY <3>1, <3>2, <3>3, <3>4 DEF BInv, Working
  <2>2. CASE ExternalForward \/ PipelineReturns
    BY <2>2 DEF ExternalForward, PipelineReturns, BInv, Working, BudgetHolds, Sign
  <2>3. CASE ExternalForwardFails \/ PipelineRaises \/ SchedulerStepRefuses \/ SearchRaises \/ NoScale
    <3>1. pc # "enter" /\ pc' = "exit" /\ UNCHANGED <<probe, sched, spent, search>>
      BY <2>3 DEF ExternalForwardFails, PipelineRaises, SchedulerStepRefuses, SearchRaises,
         NoScale, PipeFails
    <3> QED
      BY <3>1 DEF BInv, Working, BudgetHolds, Sign
  <2>4. CASE StartCleanStep \/ StartSearch
    <3>1. /\ pc = "pipe" /\ sched < Steps /\ UNCHANGED <<probe, sched, spent>>
          /\ (pc' = "consume" /\ Sign = 0) \/ pc' = "search"
          /\ probe' = probe /\ sched' = sched /\ spent' = spent
      BY <2>4 DEF StartCleanStep, StartSearch, StepAllowed
    <3>2. PICK r \in Reference :
            \/ search' = [attempt |-> 0, scale |-> 0, reference |-> r, energy |-> 0,
                          feasible |-> {}]
            \/ search' = [attempt |-> 1, scale |-> FullScale, reference |-> r, energy |-> 0,
                          feasible |-> {}]
      BY <2>4 DEF StartCleanStep, StartSearch, NoSearch
    <3>3. r \in Nat /\ FullScale \in Int
      <4> HIDE <3>2
      <4>1. r \in Reference OBVIOUS
      <4>2. QED BY <4>1, BoundsAssumption
    <3>4. search' \in [attempt : Int, scale : Int, reference : Nat, energy : Nat,
                       feasible : SUBSET {-1, 1}] /\ search'.energy = 0
      BY <3>2, <3>3
    <3>5. pc' = "search" => Sign # 0
      BY <2>4 DEF StartCleanStep, StartSearch
    <3>6. sched # Steps
      <4>1. sched \in Int /\ Steps \in Int
        BY BoundsAssumption DEF BInv
      <4> QED
        BY <3>1, <4>1
    <3> QED
      BY <3>1, <3>4, <3>5, <3>6 DEF BInv, Working, BudgetHolds, Sign
  <2>5. CASE SearchAttempt
    <3>1. PICK energy \in [{-1, 1} -> Energy], normOk \in [{-1, 1} -> BOOLEAN] :
            Evaluate(energy, normOk)
      BY <2>5 DEF SearchAttempt
    <3>2. /\ pc = "search" /\ pc' = "judge" /\ probe' = probe /\ sched' = sched
          /\ spent' = spent
      BY <2>5 DEF SearchAttempt
    <3>3. Plan[probe] \in {-1, 0, 1}
      BY PlanAssumption DEF BInv
    <3>4. Sign \in {-1, 1}
      BY <3>2, <3>3 DEF BInv, Sign
    <3>5. energy[Sign] \in Energy /\ energy[Sign] \in Nat
      BY <3>4, BoundsAssumption
    <3>6. search' \in [attempt : Int, scale : Int, reference : Nat, energy : Nat,
                       feasible : SUBSET {-1, 1}] /\ search'.energy = energy[Sign]
      BY <3>1, <3>5 DEF Evaluate, BInv
    <3> QED
      BY <3>2, <3>4, <3>5, <3>6 DEF BInv, Working, BudgetHolds, Sign
  <2>6. CASE Select
    BY <2>6 DEF Select, BInv, Working, BudgetHolds, Sign
  <2>6b. CASE BackOff
    <3>1. PICK scale \in 1 .. search.scale - 1 :
            search' = [search EXCEPT !.scale = scale, !.attempt = @ + 1]
      BY <2>6b DEF BackOff
    <3>2. /\ pc = "judge" /\ pc' = "search" /\ probe' = probe /\ sched' = sched
          /\ spent' = spent
      BY <2>6b DEF BackOff
    <3>3. search' \in [attempt : Int, scale : Int, reference : Nat, energy : Nat,
                       feasible : SUBSET {-1, 1}] /\ search'.energy = search.energy
      <4>1. search \in [attempt : Int, scale : Int, reference : Nat, energy : Nat,
                        feasible : SUBSET {-1, 1}]
        BY DEF BInv
      <4>2. scale \in Int /\ search.attempt + 1 \in Int
        BY <4>1
      <4> QED
        BY <3>1, <4>1, <4>2
    <3> QED
      BY <3>2, <3>3 DEF BInv, Working, BudgetHolds, Sign
  <2>7. CASE Consume
    BY <2>7, ConsumeKeeps
  <2>8. CASE ConsumeRaises
    BY <2>8 DEF ConsumeRaises, BInv, Working, BudgetHolds, Sign
  <2>9. CASE ExitCompletes \/ ExitRaises
    BY <2>9 DEF ExitCompletes, ExitRaises, BInv, Working, BudgetHolds, Sign, Covered
  <2>10. CASE WriteGeneration \/ WriteSteps
    BY <2>10 DEF WriteGeneration, WriteSteps, BInv, Working, BudgetHolds, Sign
  <2>10b. CASE WriteFeatures
    <3>1. /\ pc = "write features" /\ sched' = sched /\ spent' = spent /\ search' = search
          /\ (probe < Len(Plan) /\ probe' = probe + 1 /\ pc' = "enter")
             \/ (probe' = probe /\ pc' = "decide")
      BY <2>10b DEF WriteFeatures
    <3>2. probe' \in 1 .. Len(Plan)
      <4>1. Len(Plan) \in Nat
        BY PlanAssumption
      <4>2. probe \in 1 .. Len(Plan)
        BY DEF BInv
      <4>3. (probe < Len(Plan) /\ probe' = probe + 1) \/ probe' = probe
        BY <3>1
      <4> HIDE PlanAssumption, BoundsAssumption
      <4> QED
        BY <4>1, <4>2, <4>3
    <3> QED
      BY <3>1, <3>2 DEF BInv, Working, BudgetHolds, Sign
  <2>11. CASE Decide \/ WriteManifest \/ WorkRaises \/ DecideFailure
    BY <2>11 DEF Decide, WriteManifest, WorkRaises, DecideFailure, BInv, Working,
       BudgetHolds, Sign
  <2>12. CASE UNCHANGED vars
    BY <2>12 DEF vars, BInv, Working, BudgetHolds, Sign
  <2> QED
    BY <2>1, <2>2, <2>3, <2>4, <2>5, <2>6, <2>6b, <2>7, <2>8, <2>9, <2>10, <2>10b, <2>11, <2>12
       DEF Next, Run, PipeStep, Ended
<1>3. BInv => BudgetKept
  BY DEF BInv, BudgetKept, BudgetHolds, Working
<1> QED
  BY <1>1, <1>2, <1>3, PTL DEF Spec

----------------------------------------------------------------------------
(* What the verdict and the steps of a generation stand on                  *)

Searches == [attempt : 0 .. MaxAttempts, scale : 0 .. FullScale,
             reference : Reference \cup {0}, energy : Energy \cup {0},
             feasible : SUBSET {-1, 1}]
Accepted(s) ==
    /\ s.feasible = {-1, 1} /\ s.attempt \in 1 .. MaxAttempts
    /\ s.scale <= FullScale - s.attempt + 1

\* The candidate under evaluation has backed off once per attempt, and what the
\* scheduler is about to be given is one that both signs accepted.
SearchKnown ==
    /\ consumed \in Seq(Searches)
    /\ pc \in {"search", "judge", "consume"} => index = sched /\ sched < Steps
    /\ pc \in {"search", "judge"} =>
         Sign # 0 /\ search.attempt >= 1 /\ search.scale <= FullScale - search.attempt + 1
    /\ pc = "consume" /\ Sign # 0 => Accepted(search)
    /\ Sign # 0 /\ pc # "enter" => \A i \in 1 .. Len(consumed) : Accepted(consumed[i])

\* The scopes that completed, the rows that are written and the verdict keep
\* step with the probe.
RecordsKnown ==
    /\ pc \in {"enter", "exit"} \cup InScope => completed = probe - 1
    /\ pc \in Working => completed = probe
    /\ pc \in {"decide", "manifest"} => probe = Len(Plan)
    /\ pc \in {"write steps", "write features", "decide", "manifest"} =>
         files["generation"] = probe
    /\ pc \in {"write features", "decide", "manifest"} => files["step"] = probe
    /\ pc \in {"decide", "manifest"} => files["feature"] = probe
    /\ pc \notin {"manifest", "returned", "failed", "raised"} => decision = "none"
    /\ pc = "manifest" => decision \in {"pass", "fail"}
    /\ VerdictCovers

GInv == TypeOK /\ SearchKnown /\ RecordsKnown

LEMMA PlanIsSigned == /\ Len(Plan) \in Nat /\ Len(Plan) >= 1
                      /\ \A p \in 1 .. Len(Plan) : Plan[p] \in {-1, 0, 1}
BY PlanAssumption

LEMMA GenerationStarts == Init => GInv
<1> SUFFICES ASSUME Init PROVE GInv
  OBVIOUS
<1> USE BoundsAssumption, PlanIsSigned DEF Init
<1>1. search \in Searches BY DEF NoSearch, Searches
<1>2. TypeOK
  <2>1. /\ probe \in 1 .. Len(Plan) /\ completed \in 0 .. Len(Plan)
        /\ calls \in 0 .. 2 * Steps /\ sched \in 0 .. Steps /\ index \in 0 .. Steps
    OBVIOUS
  <2>2. files \in [{"generation", "step", "feature"} -> 0 .. Len(Plan)]
    <3>1. 0 \in 0 .. Len(Plan) OBVIOUS
    <3> QED BY <3>1
  <2>3. spent \in [reference : Nat, control : Nat] OBVIOUS
  <2>4. Len(consumed) = sched OBVIOUS
  <2> QED BY <1>1, <2>1, <2>2, <2>3, <2>4 DEF TypeOK, Searches
<1>3. SearchKnown BY DEF SearchKnown
<1>4. RecordsKnown BY DEF RecordsKnown, VerdictCovers, InScope, Working
<1> QED BY <1>2, <1>3, <1>4 DEF GInv

\* Nothing of the search moves: what a step may do to the rest.
LEMMA SearchStays ==
    ASSUME SearchKnown, UNCHANGED <<probe, index, sched, search, consumed>>,
           pc' \in {"search", "judge", "consume"} => pc' = pc,
           pc = "enter" => pc' = "enter"
    PROVE  SearchKnown'
BY DEF SearchKnown, Accepted, Sign

\* A fresh search, of a scope that is entered.
LEMMA FreshSearch ==
    ASSUME Fresh, pc' \notin {"search", "judge", "consume"}
    PROVE  SearchKnown'
BY DEF Fresh, SearchKnown, Accepted

LEMMA ScopeSteps ==
    ASSUME GInv, EnterRefuses \/ Enter \/ EnterFails
    PROVE  GInv'
<1>1. TypeOK /\ SearchKnown /\ RecordsKnown BY DEF GInv
<1>2. /\ Fresh /\ pc = "enter" /\ pc' \in {"pipe", "failed"} /\ raised' \in {raised, TRUE}
      /\ UNCHANGED <<probe, rope, completed, files, decision, manifest>>
      /\ index' \in {0, index}
  BY DEF EnterRefuses, Enter, EnterFails
<1>3. host' \in SUBSET HostSlots /\ captured' \in SUBSET HostSlots
  <2>1. CASE EnterRefuses BY <1>1, <2>1 DEF EnterRefuses, TypeOK
  <2>2. CASE Enter BY <1>1, <2>2 DEF Enter, TypeOK
  <2>3. CASE EnterFails
    <3>1. Installed(0) \subseteq HostSlots /\ Installed(1) \subseteq HostSlots
          /\ Installed(2) \subseteq HostSlots /\ Installed(3) \subseteq HostSlots
      <4> /\ Order[1] \in HostSlots /\ Order[2] \in HostSlots
          /\ Order[3] \in HostSlots /\ Order[4] \in HostSlots
        BY DEF Order, HostSlots
      <4> HIDE DEF Order, HostSlots
      <4>1. \A i \in 1 .. 4 : Order[i] \in HostSlots OBVIOUS
      <4> QED BY <4>1 DEF Installed
    <3>2. \A n \in 0 .. 3 : Installed(n) \subseteq HostSlots
      BY <3>1
    <3> QED BY <1>1, <2>3, <3>2 DEF EnterFails, TypeOK
  <2> QED BY <2>1, <2>2, <2>3
<1>4. TypeOK'
  <2>1. search' \in Searches /\ spent' \in [reference : Nat, control : Nat]
    BY <1>2, BoundsAssumption DEF Fresh, NoSearch, Searches
  <2>2. /\ calls' \in 0 .. 2 * Steps /\ sched' \in 0 .. Steps /\ index' \in 0 .. Steps
        /\ pending' = None /\ Len(consumed') = sched'
    BY <1>1, <1>2, BoundsAssumption DEF Fresh, TypeOK
  <2> QED BY <1>1, <1>2, <1>3, <2>1, <2>2 DEF TypeOK, Searches
<1>5. SearchKnown' BY <1>2, FreshSearch
<1>6. RecordsKnown' BY <1>1, <1>2 DEF RecordsKnown, VerdictCovers, InScope, Working
<1> QED BY <1>4, <1>5, <1>6 DEF GInv

\* The pipeline's forwards, and every way a step of it fails.
LEMMA ForwardSteps ==
    ASSUME GInv, ExternalForward \/ ExternalForwardFails \/ PipelineRaises
                 \/ PipelineReturns \/ SchedulerStepRefuses \/ SearchRaises \/ NoScale
    PROVE  GInv'
<1>1. TypeOK /\ SearchKnown /\ RecordsKnown BY DEF GInv
<1>2. /\ UNCHANGED <<probe, host, captured, sched, index, search, spent, consumed,
                     completed, files, decision, manifest>>
      /\ pc \in {"pipe", "search", "judge"} /\ raised' \in {raised, TRUE}
      /\ rope' \in SUBSET RopeSlots
      /\ \/ pc' = "exit" /\ UNCHANGED <<calls, pending>>
         \/ /\ pc' = "pipe" /\ pc = "pipe" /\ calls < 2 * Steps /\ calls' = calls + 1
            /\ pending' = IF calls % 2 = 1 THEN calls \div 2 ELSE pending
  BY <1>1
  DEF ExternalForward, ExternalForwardFails, PipelineRaises, PipelineReturns,
      SchedulerStepRefuses, SearchRaises, NoScale, PipeFails, ForwardSucceeds,
      ForwardRaises, RopeLeftovers, RopeSlots, TypeOK
<1>3. calls' \in 0 .. 2 * Steps /\ pending' \in {None} \cup 0 .. Steps - 1
  <2>1. calls \in Nat /\ calls <= 2 * Steps /\ Steps \in Nat
    BY <1>1, BoundsAssumption DEF TypeOK
  <2>2. calls' \in 0 .. 2 * Steps BY <1>1, <1>2, <2>1 DEF TypeOK
  <2>3. calls < 2 * Steps => calls \div 2 \in 0 .. Steps - 1 BY <2>1
  <2> QED BY <1>1, <1>2, <2>2, <2>3 DEF TypeOK
<1>4. TypeOK' BY <1>1, <1>2, <1>3 DEF TypeOK
<1>5. SearchKnown' BY <1>1, <1>2, SearchStays
<1>6. RecordsKnown' BY <1>1, <1>2 DEF RecordsKnown, VerdictCovers, InScope, Working
<1> QED BY <1>4, <1>5, <1>6 DEF GInv

LEMMA SearchSteps ==
    ASSUME GInv, StartCleanStep \/ StartSearch \/ SearchAttempt \/ Select \/ BackOff
    PROVE  GInv'
<1> USE BoundsAssumption
<1>1. TypeOK /\ SearchKnown /\ RecordsKnown BY DEF GInv
<1>2. /\ UNCHANGED <<probe, host, captured, raised, calls, sched, index, pending, spent,
                     consumed, completed, files, decision, manifest>>
      /\ rope' \in {rope, {}} /\ pc \in InScope /\ pc' \in InScope \ {"pipe"}
  BY DEF StartCleanStep, StartSearch, SearchAttempt, Select, BackOff, ForwardSucceeds,
     InScope
<1>3. search \in Searches /\ sched \in 0 .. Steps /\ Sign \in {-1, 0, 1}
  BY <1>1, PlanIsSigned DEF TypeOK, Searches, Sign
<1>4. Sign' = Sign BY <1>2 DEF Sign
<1>5. /\ search' \in Searches /\ index = sched /\ sched < Steps
      /\ pc' \in {"search", "judge"} =>
           Sign # 0 /\ search'.attempt >= 1
           /\ search'.scale <= FullScale - search'.attempt + 1
      /\ pc' = "consume" /\ Sign # 0 => Accepted(search')
  <2>1. CASE StartCleanStep
    <3>1. PICK r \in Reference : search' = [NoSearch EXCEPT !.reference = r]
      BY <2>1 DEF StartCleanStep
    <3> QED BY <2>1, <3>1 DEF StartCleanStep, StepAllowed, NoSearch, Searches
  <2>2. CASE StartSearch
    <3>1. PICK r \in Reference :
            search' = [NoSearch EXCEPT !.reference = r, !.scale = FullScale, !.attempt = 1]
      BY <2>2 DEF StartSearch
    <3>2. search' = [attempt |-> 1, scale |-> FullScale, reference |-> r, energy |-> 0,
                     feasible |-> {}]
      BY <3>1 DEF NoSearch
    <3>3. search' \in Searches /\ search'.attempt = 1 /\ search'.scale = FullScale
      BY <3>2 DEF Searches
    <3>4. search'.scale <= FullScale - search'.attempt + 1 BY <3>3
    <3>5. pc' = "search" /\ Sign # 0 /\ index = sched /\ sched < Steps
      BY <2>2 DEF StartSearch, StepAllowed
    <3> QED BY <3>3, <3>4, <3>5
  <2>3. CASE SearchAttempt
    <3>1. PICK energy \in [{-1, 1} -> Energy], normOk \in [{-1, 1} -> BOOLEAN] :
            Evaluate(energy, normOk)
      BY <2>3 DEF SearchAttempt
    <3>2. Sign \in {-1, 1} /\ pc = "search" /\ pc' = "judge"
      BY <1>1, <1>3, <2>3 DEF SearchAttempt, SearchKnown
    <3>3. /\ energy[Sign] \in Energy
          /\ {s \in {-1, 1} : normOk[s] /\ WithinBudget(energy[s], search.reference)}
               \in SUBSET {-1, 1}
      BY <3>2
    <3>4. search' \in Searches /\ search'.attempt = search.attempt
          /\ search'.scale = search.scale
      BY <1>3, <3>1, <3>3 DEF Evaluate, Searches
    <3> QED BY <1>1, <3>2, <3>4 DEF SearchKnown
  <2>4. CASE Select
    <3>1. pc = "judge" /\ pc' = "consume" /\ search' = search /\ search.feasible = {-1, 1}
      BY <2>4 DEF Select, Feasible
    <3> QED BY <1>1, <1>3, <3>1 DEF SearchKnown, Accepted, Searches
  <2>5. CASE BackOff
    <3>1. PICK scale \in 1 .. search.scale - 1 :
            search' = [search EXCEPT !.scale = scale, !.attempt = @ + 1]
      BY <2>5 DEF BackOff
    <3>2. /\ search.attempt \in 0 .. MaxAttempts /\ search.scale \in 0 .. FullScale
          /\ search.attempt < MaxAttempts /\ pc = "judge" /\ pc' = "search"
      BY <1>3, <2>5 DEF BackOff, Searches
    <3>3. scale \in 0 .. FullScale /\ search.attempt + 1 \in 1 .. MaxAttempts
          /\ scale <= search.scale - 1
      BY <3>2
    <3>4. search' \in Searches /\ search'.attempt = search.attempt + 1
          /\ search'.scale = scale
      <4>1. search.attempt + 1 \in 0 .. MaxAttempts BY <3>3
      <4>2. search' = [attempt |-> search.attempt + 1, scale |-> scale,
                       reference |-> search.reference, energy |-> search.energy,
                       feasible |-> search.feasible]
        BY <1>3, <3>1 DEF Searches
      <4>3. search.reference \in Reference \cup {0} /\ search.energy \in Energy \cup {0}
            /\ search.feasible \in SUBSET {-1, 1}
        BY <1>3 DEF Searches
      <4> QED BY <3>3, <4>1, <4>2, <4>3 DEF Searches
    <3>5. scale <= FullScale - (search.attempt + 1) + 1
      BY <1>1, <3>2, <3>3 DEF SearchKnown
    <3> QED BY <1>1, <3>2, <3>4, <3>5 DEF SearchKnown
  <2> QED BY <2>1, <2>2, <2>3, <2>4, <2>5
<1>6. TypeOK' BY <1>1, <1>2, <1>5 DEF TypeOK, Searches, InScope
<1>7. SearchKnown'
  <2>1. pc # "enter" BY <1>2 DEF InScope
  <2> QED BY <1>1, <1>2, <1>4, <1>5, <2>1 DEF SearchKnown, Accepted
<1>8. RecordsKnown' BY <1>1, <1>2 DEF RecordsKnown, VerdictCovers, InScope, Working
<1> QED BY <1>6, <1>7, <1>8 DEF GInv

LEMMA ConsumeSteps == ASSUME GInv, Consume \/ ConsumeRaises PROVE GInv'
<1> USE BoundsAssumption
<1>1. TypeOK /\ SearchKnown /\ RecordsKnown BY DEF GInv
<1>2. /\ index = sched /\ sched < Steps /\ sched \in 0 .. Steps /\ index \in 0 .. Steps
      /\ search \in Searches /\ consumed \in Seq(Searches) /\ Len(consumed) = sched
      /\ pc = "consume"
  BY <1>1 DEF TypeOK, Searches, SearchKnown, Consume, ConsumeRaises
<1>3. CASE Consume
  <2>1. /\ UNCHANGED <<probe, host, rope, captured, raised, calls, completed, files,
                       decision, manifest>>
        /\ index' = index + 1 /\ sched' = sched + 1 /\ pending' = None
        /\ spent' = [reference |-> spent.reference + search.reference,
                     control |-> spent.control + search.energy]
        /\ consumed' = Append(consumed, search) /\ search' = NoSearch /\ pc' = "pipe"
    BY <1>3 DEF Consume
  <2>2. spent' \in [reference : Nat, control : Nat]
    <3>1. /\ spent.reference \in Nat /\ spent.control \in Nat
          /\ search.reference \in Nat /\ search.energy \in Nat
      <4>1. search.reference \in Reference \cup {0} /\ search.energy \in Energy \cup {0}
        BY <1>2 DEF Searches
      <4>2. Reference \cup {0} \subseteq Nat /\ Energy \cup {0} \subseteq Nat OBVIOUS
      <4>3. spent.reference \in Nat /\ spent.control \in Nat BY <1>1 DEF TypeOK
      <4> QED BY <4>1, <4>2, <4>3
    <3> QED BY <2>1, <3>1
  <2>3. search' \in Searches BY <2>1 DEF NoSearch, Searches
  <2>4. consumed' \in Seq(Searches) /\ Len(consumed') = sched + 1
        /\ \A i \in 1 .. Len(consumed') :
             consumed'[i] = IF i = sched + 1 THEN search ELSE consumed[i]
    BY <1>2, <2>1
  <2>5. TypeOK'
    <3>1. index' \in 0 .. Steps /\ sched' \in 0 .. Steps BY <1>2, <2>1
    <3>2. Len(consumed') = sched' BY <2>1, <2>4
    <3> QED BY <1>1, <2>1, <2>2, <2>3, <3>1, <3>2 DEF TypeOK, Searches
  <2>6. Sign # 0 => \A i \in 1 .. Len(consumed') : Accepted(consumed'[i])
    BY <1>1, <1>2, <2>4 DEF SearchKnown
  <2>7. SearchKnown' BY <2>1, <2>4, <2>6 DEF SearchKnown, Accepted, Sign
  <2>8. RecordsKnown' BY <1>1, <1>2, <2>1 DEF RecordsKnown, VerdictCovers, InScope, Working
  <2> QED BY <2>5, <2>7, <2>8 DEF GInv
<1>4. CASE ConsumeRaises
  <2>1. /\ UNCHANGED <<probe, host, rope, captured, calls, sched, pending, search, spent,
                       consumed, completed, files, decision, manifest>>
        /\ index' \in {index, index + 1} /\ raised' = TRUE /\ pc' = "exit"
    BY <1>4 DEF ConsumeRaises
  <2>2. TypeOK' BY <1>1, <1>2, <2>1 DEF TypeOK
  <2>3. SearchKnown' BY <1>1, <1>2, <2>1 DEF SearchKnown, Accepted, Sign
  <2>4. RecordsKnown' BY <1>1, <1>2, <2>1 DEF RecordsKnown, VerdictCovers, InScope, Working
  <2> QED BY <2>2, <2>3, <2>4 DEF GInv
<1> QED BY <1>3, <1>4

LEMMA RecordSteps ==
    ASSUME GInv, ExitCompletes \/ ExitRaises \/ WriteGeneration \/ WriteSteps
                 \/ WriteFeatures \/ Decide \/ WriteManifest \/ WorkRaises \/ DecideFailure
    PROVE  GInv'
<1>1. TypeOK /\ SearchKnown /\ RecordsKnown BY DEF GInv
<1>2. /\ UNCHANGED <<rope, captured, calls, sched, index, pending, search, spent, consumed>>
      /\ pc' \notin InScope /\ pc \notin InScope \cup {"enter"}
  BY DEF ExitCompletes, ExitRaises, WriteGeneration, WriteSteps, WriteFeatures, Decide,
     WriteManifest, WorkRaises, DecideFailure, InScope, Working
<1>3. probe \in 1 .. Len(Plan) /\ completed \in 0 .. Len(Plan) /\ Len(Plan) \in Nat
      /\ files \in [{"generation", "step", "feature"} -> 0 .. Len(Plan)]
      /\ DOMAIN files = {"generation", "step", "feature"}
  BY <1>1, PlanIsSigned DEF TypeOK
<1>4. CASE WriteGeneration \/ WriteSteps \/ WriteFeatures
  <2>1. /\ UNCHANGED <<host, raised, completed, decision, manifest>>
        /\ \E f \in {"generation", "step", "feature"} : files' = [files EXCEPT ![f] = probe]
        /\ \/ /\ pc = "video" /\ pc' = "write steps" /\ probe' = probe
              /\ files' = [files EXCEPT !["generation"] = probe]
           \/ /\ pc = "write steps" /\ pc' = "write features" /\ probe' = probe
              /\ files' = [files EXCEPT !["step"] = probe]
           \/ /\ pc = "write features" /\ files' = [files EXCEPT !["feature"] = probe]
              /\ \/ probe < Len(Plan) /\ probe' = probe + 1 /\ pc' = "enter"
                 \/ ~(probe < Len(Plan)) /\ probe' = probe /\ pc' = "decide"
    BY <1>4 DEF WriteGeneration, WriteSteps, WriteFeatures, WriteFile
  <2>2. /\ files' \in [{"generation", "step", "feature"} -> 0 .. Len(Plan)]
        /\ probe' \in 1 .. Len(Plan)
        /\ pc' = "decide" => probe = Len(Plan)
    <3>1. probe \in 0 .. Len(Plan) BY <1>3
    <3>2. files' \in [{"generation", "step", "feature"} -> 0 .. Len(Plan)]
      BY <1>3, <2>1, <3>1
    <3>3. \/ probe' = probe /\ pc' # "decide"
          \/ probe' = probe /\ ~(probe < Len(Plan))
          \/ probe < Len(Plan) /\ probe' = probe + 1 /\ pc' # "decide"
      BY <2>1
    <3>4. probe' \in 1 .. Len(Plan) /\ (pc' = "decide" => probe = Len(Plan))
      BY <1>3, <3>3
    <3> QED BY <3>2, <3>4
  <2>3. /\ pc = "video" => files'["generation"] = probe
        /\ pc = "write steps" =>
             files'["generation"] = files["generation"] /\ files'["step"] = probe
        /\ pc = "write features" =>
             /\ files'["generation"] = files["generation"]
             /\ files'["step"] = files["step"] /\ files'["feature"] = probe
    BY <1>3, <2>1
  <2>4. TypeOK' BY <1>1, <1>2, <2>1, <2>2 DEF TypeOK, Working
  <2>5. SearchKnown'
    <3>1. CASE probe' = probe
      BY <1>1, <1>2, <3>1, SearchStays DEF InScope
    <3>2. CASE pc' = "enter"
      BY <1>1, <1>2, <3>2 DEF SearchKnown
    <3> QED BY <2>1, <3>1, <3>2
  <2>6. RecordsKnown'
    <3>1. decision = "none" BY <1>1, <2>1 DEF RecordsKnown
    <3>2. completed = probe BY <1>1, <2>1 DEF RecordsKnown, Working
    <3>3. CASE pc = "video"
      BY <1>3, <2>1, <2>3, <3>1, <3>2, <3>3
      DEF RecordsKnown, VerdictCovers, InScope, Working
    <3>4. CASE pc = "write steps"
      BY <1>1, <1>3, <2>1, <2>3, <3>1, <3>2, <3>4
      DEF RecordsKnown, VerdictCovers, InScope, Working
    <3>5. CASE pc = "write features"
      <4>1. CASE pc' = "enter"
        <5>1. probe' = probe + 1 /\ completed' = probe
          BY <2>1, <3>2, <3>5, <4>1
        <5>2. completed' = probe' - 1 BY <1>3, <5>1
        <5> QED BY <2>1, <3>1, <4>1, <5>2 DEF RecordsKnown, VerdictCovers, InScope, Working
      <4>2. CASE pc' = "decide"
        BY <1>1, <2>1, <2>2, <2>3, <3>1, <3>2, <3>5, <4>2
        DEF RecordsKnown, VerdictCovers, InScope, Working
      <4> QED BY <2>1, <3>5, <4>1, <4>2
    <3> QED BY <2>1, <3>3, <3>4, <3>5
  <2> QED BY <2>4, <2>5, <2>6 DEF GInv
<1>5. CASE ExitCompletes \/ ExitRaises
  <2>1. /\ UNCHANGED <<probe, files, decision, manifest>> /\ pc = "exit"
        /\ host' \in SUBSET HostSlots /\ raised' \in {raised, TRUE}
        /\ \/ pc' = "video" /\ completed' = completed + 1
           \/ pc' = "failed" /\ completed' = completed
    BY <1>1, <1>5 DEF ExitCompletes, ExitRaises, TypeOK
  <2>2. completed = probe - 1 /\ completed + 1 = probe
        /\ completed' \in {completed, probe} /\ probe \in 0 .. Len(Plan)
    <3>1. completed = probe - 1 BY <1>1, <2>1 DEF RecordsKnown
    <3>2. completed + 1 = probe BY <1>3, <3>1
    <3> QED BY <1>3, <2>1, <3>1, <3>2
  <2>3. TypeOK' BY <1>1, <1>2, <1>3, <2>1, <2>2 DEF TypeOK, Working
  <2>4. SearchKnown' BY <1>1, <1>2, <2>1, SearchStays DEF InScope
  <2>5. decision = "none" BY <1>1, <2>1 DEF RecordsKnown
  <2>6. RecordsKnown'
    BY <1>3, <2>1, <2>2, <2>5 DEF RecordsKnown, VerdictCovers, InScope, Working
  <2> QED BY <2>3, <2>4, <2>6 DEF GInv
<1>6. CASE Decide \/ WriteManifest \/ WorkRaises \/ DecideFailure
  <2>1. /\ UNCHANGED <<probe, host, completed, files>> /\ raised' \in {raised, TRUE}
        /\ \/ /\ pc = "decide" /\ pc' = "manifest" /\ decision' \in {"pass", "fail"}
              /\ manifest' = manifest
           \/ /\ pc = "manifest" /\ pc' = "returned" /\ decision' = decision
              /\ manifest' = decision
           \/ /\ pc \in Working /\ pc' = "failed" /\ UNCHANGED <<decision, manifest>>
           \/ pc = "failed" /\ pc' = "raised" /\ decision' = "recovery" /\ manifest' = manifest
    BY <1>6 DEF Decide, WriteManifest, WorkRaises, DecideFailure
  <2>2. TypeOK' BY <1>1, <1>2, <1>3, <2>1 DEF TypeOK, Working, RecordsKnown
  <2>3. SearchKnown' BY <1>1, <1>2, <2>1, SearchStays DEF InScope
  <2>4. RecordsKnown'
    BY <1>1, <1>3, <2>1 DEF RecordsKnown, VerdictCovers, InScope, Working
  <2> QED BY <2>2, <2>3, <2>4 DEF GInv
<1> QED BY <1>4, <1>5, <1>6

\* GenerationIsSound: the types, BudgetKept, and for every plan a step is taken
\* only with a candidate both signs accepted (select_symmetric_phase_projection)
\* and a verdict only once every probe's scope completed and all three record
\* files cover the plan (execute_real_patch_relation_gate0).
THEOREM GenerationStaysSound == Spec => []GenerationIsSound
<1>1. Init => GInv
  BY GenerationStarts
<1>2. GInv /\ [Next]_vars => GInv'
  <2> SUFFICES ASSUME GInv, [Next]_vars PROVE GInv'
    OBVIOUS
  <2>1. CASE UNCHANGED vars
    <3>1. TypeOK /\ SearchKnown /\ RecordsKnown BY DEF GInv
    <3>2. TypeOK' BY <2>1, <3>1 DEF vars, TypeOK
    <3>3. SearchKnown' BY <2>1, <3>1 DEF vars, SearchKnown, Accepted, Sign
    <3>4. RecordsKnown' BY <2>1, <3>1 DEF vars, RecordsKnown, VerdictCovers
    <3> QED BY <3>2, <3>3, <3>4 DEF GInv
  <2> QED
    BY <2>1, ScopeSteps, ForwardSteps, SearchSteps, ConsumeSteps, RecordSteps
    DEF Next, Run, PipeStep, Ended
<1>3. GInv /\ BudgetKept => GenerationIsSound
  <2> SUFFICES ASSUME GInv, BudgetKept PROVE GenerationIsSound
    OBVIOUS
  <2>1. TypeOK /\ VerdictCovers BY DEF GInv, RecordsKnown
  <2>2. ConsumedIsFeasible BY DEF GInv, SearchKnown, Accepted, ConsumedIsFeasible
  <2> QED BY <2>1, <2>2 DEF GenerationIsSound
<1> QED
  BY <1>1, <1>2, <1>3, BudgetIsKept, PTL DEF Spec

-----------------------------------------------------------------------------
(* The frame state experiment.                                              *)

LEMMA FramesConstants == FrameFaults \in Nat
BY InstancesAssumption DEF Frames!GateConstants

LEMMA FramesPlan == Len(Frames!ProbePlan) = 8 /\ Frames!Probes = 1 .. 8
BY DEF Frames!ProbePlan, Frames!Probes

DiskFiles == {"plan", "atom", "contexts", "statistics", "transfer", "videos",
              "generations", "steps", "checkpoints", "decision", "manifest"}

(* What a decision that passes needs besides whole traces and videos.       *)
Recorded == /\ disk.videos = 8 /\ disk.generations = 8 /\ disk.steps = 8
            /\ disk.checkpoints = 8
Validated == /\ disk.atom /\ altered = {}
             /\ \A p \in Frames!Probes : trace[p] = "complete"
Evaluated == disk.contexts /\ disk.statistics /\ disk.transfer

(* The scheduler is taken over for a probe that the public atom steers, the *)
(* first one apart.                                                         *)
Steering ==
  /\ patched => stage = "generate"
  /\ stage = "start" => at = 1
  /\ stage = "generate" /\ at # 1 => atom
  /\ patched /\ at # 1 => atomOf[at] = "public"
  /\ Frames!SteeredByPublicAtom

(* What is on the disk at each stage of the run.                            *)
Written ==
  /\ stage \in {"generate", "atom", "decode", "validate", "evaluate", "decide",
                "manifest"} => disk.plan
  /\ stage \in {"validate", "evaluate", "decide", "manifest"} => Recorded
  /\ stage \in {"evaluate", "decide", "manifest"} => Validated
  /\ stage \in {"decide", "manifest"} => Evaluated

(* No decision before its stage, no manifest but of a run that returned.    *)
Decided ==
  /\ stage \in {"start", "generate", "atom", "decode", "validate", "evaluate",
                "decide"} => disk.decision = "none"
  /\ stage \in {"decide", "manifest"} => verdict \in {"pass", "stop"}
  /\ stage = "manifest" => disk.decision = verdict
  /\ Frames!PassIsBacked /\ Frames!ManifestAgrees /\ Frames!RaisedDoesNotPass
  /\ disk.manifest \in {"pass", "stop"} => stage = "returned"

FramesInv == Frames!TypeOK /\ Steering /\ Written /\ Decided

LEMMA FramesStart == Frames!Init => FramesInv
<1> SUFFICES ASSUME Frames!Init PROVE FramesInv
  OBVIOUS
<1> USE FramesPlan, FramesConstants DEF Frames!Init
<1>1. disk \in Frames!Disk BY DEF Frames!Disk
<1>2. Frames!TypeOK
  <2>1. 0 \in 0 .. FrameFaults /\ 1 \in 1 .. 8 OBVIOUS
  <2>2. /\ trace \in [Frames!Probes -> Frames!Traces]
        /\ atomOf \in [Frames!Probes -> {"none", "bootstrap", "public"}]
    BY DEF Frames!Traces
  <2>3. QED BY <1>1, <2>1, <2>2 DEF Frames!TypeOK
<1>3. Steering BY DEF Steering, Frames!SteeredByPublicAtom
<1>4. Written BY DEF Written
<1>5. Decided
  BY DEF Decided, Frames!PassIsBacked, Frames!ManifestAgrees, Frames!RaisedDoesNotPass
<1>6. QED BY <1>2, <1>3, <1>4, <1>5 DEF FramesInv

LEMMA FramesTyped ==
  ASSUME FramesInv
  PROVE  /\ Frames!TypeOK /\ Steering /\ Written /\ Decided
         /\ disk \in Frames!Disk /\ at \in 1 .. 8
         /\ disk.videos \in 0 .. 8 /\ disk.generations \in 0 .. 8
         /\ disk.steps \in 0 .. 8 /\ disk.checkpoints \in 0 .. 8
         /\ trace \in [Frames!Probes -> Frames!Traces]
         /\ atomOf \in [Frames!Probes -> {"none", "bootstrap", "public"}]
         /\ framesFaults \in 0 .. FrameFaults
         /\ framesFaults < FrameFaults => framesFaults + 1 \in 0 .. FrameFaults
<1>1. Frames!TypeOK /\ Steering /\ Written /\ Decided BY DEF FramesInv
<1>2. /\ disk \in Frames!Disk /\ at \in 1 .. 8
      /\ trace \in [Frames!Probes -> Frames!Traces]
      /\ atomOf \in [Frames!Probes -> {"none", "bootstrap", "public"}]
      /\ framesFaults \in 0 .. FrameFaults
  BY <1>1, FramesPlan DEF Frames!TypeOK
<1>3. framesFaults < FrameFaults => framesFaults + 1 \in 0 .. FrameFaults
  BY <1>2, FramesConstants
<1>4. /\ disk.videos \in 0 .. 8 /\ disk.generations \in 0 .. 8
      /\ disk.steps \in 0 .. 8 /\ disk.checkpoints \in 0 .. 8
  BY <1>2 DEF Frames!Disk
<1>5. QED BY <1>1, <1>2, <1>3, <1>4

(* A step that touches neither the disk nor the videos: it may only go on   *)
(* to a stage that asks nothing new of them.                                *)
LEMMA DiskUntouched ==
  ASSUME FramesInv, UNCHANGED <<disk, altered, verdict, lost>>,
         \/ trace' = trace
         \/ stage \notin {"evaluate", "decide", "manifest"} /\ disk.decision = "none"
            /\ stage' \notin {"evaluate", "decide", "manifest"},
         \/ stage' = stage
         \/ stage' \in {"failing", "killed", "refused"}
            /\ disk.manifest \notin {"pass", "stop"}
         \/ stage \in {"generate", "atom"} /\ stage' \in {"generate", "atom", "decode"}
  PROVE  Written' /\ Decided'
<1>1. Written /\ Decided BY DEF FramesInv
<1>2. Written'
  BY <1>1 DEF Written, Recorded, Validated, Evaluated
<1>3. Decided'
  BY <1>1 DEF Decided, Frames!PassIsBacked, Frames!ManifestAgrees, Frames!RaisedDoesNotPass
<1>4. QED BY <1>2, <1>3

LEMMA NoManifestYet ==
  ASSUME FramesInv, stage # "returned"
  PROVE  disk.manifest \notin {"pass", "stop"}
BY DEF FramesInv, Decided

(* The generation of the eight videos.                                      *)
LEMMA GenerationSteps ==
  ASSUME FramesInv, Frames!LoadFails \/ Frames!PatchScheduler \/ Frames!Generate
                    \/ Frames!GenerationFails
  PROVE  FramesInv'
<1>1. /\ Frames!TypeOK /\ Steering /\ Written /\ Decided /\ at \in 1 .. 8
      /\ trace \in [Frames!Probes -> Frames!Traces]
      /\ atomOf \in [Frames!Probes -> {"none", "bootstrap", "public"}]
      /\ framesFaults < FrameFaults => framesFaults + 1 \in 0 .. FrameFaults
  BY FramesTyped
<1>2. /\ stage = "generate" /\ UNCHANGED <<atom, disk, altered, verdict, lost>>
      /\ framesFaults' \in {framesFaults}
           \union (IF framesFaults < FrameFaults THEN {framesFaults + 1} ELSE {})
  BY DEF Frames!LoadFails, Frames!PatchScheduler, Frames!Generate,
     Frames!GenerationFails, Frames!Fails, Frames!Refuses
<1>3. \/ /\ UNCHANGED <<at, trace, atomOf>> /\ patched' = FALSE /\ stage' = "failing"
      \/ /\ UNCHANGED <<at, trace, stage>> /\ patched' = TRUE /\ ~patched
         /\ atomOf' = [atomOf EXCEPT ![at] = IF atom THEN "public" ELSE "bootstrap"]
      \/ /\ patched /\ patched' = FALSE /\ atomOf' = atomOf
         /\ \E t \in Frames!Traces : trace' = [trace EXCEPT ![at] = t]
         /\ \/ at = 1 /\ at' = 1 /\ stage' = "atom"
            \/ at = 8 /\ at' = 1 /\ stage' = "decode"
            \/ at # 8 /\ at # 1 /\ at' = at + 1 /\ stage' = "generate"
  <2>1. CASE Frames!LoadFails
    BY <1>1, <2>1 DEF Frames!LoadFails, Frames!Fails, Frames!TypeOK
  <2>2. CASE Frames!PatchScheduler
    BY <1>1, <2>2 DEF Frames!PatchScheduler, Frames!Refuses, Frames!TypeOK
  <2>3. CASE Frames!Generate
    BY <2>3, FramesPlan DEF Frames!Generate, Frames!AfterGeneration
  <2>4. CASE Frames!GenerationFails
    BY <2>4 DEF Frames!GenerationFails, Frames!Fails
  <2>5. QED BY <2>1, <2>2, <2>3, <2>4
<1>4. /\ at' \in 1 .. 8 /\ trace' \in [Frames!Probes -> Frames!Traces]
      /\ atomOf' \in [Frames!Probes -> {"none", "bootstrap", "public"}]
      /\ stage' \in {"failing", "generate", "atom", "decode"} /\ patched' \in BOOLEAN
  <2>1. at' \in 1 .. 8
    <3>1. at' \in {1, at} \/ (at # 8 /\ at' = at + 1) BY <1>3
    <3>2. QED BY <1>1, <3>1
  <2>2. trace' \in [Frames!Probes -> Frames!Traces] BY <1>1, <1>3
  <2>3. atomOf' \in [Frames!Probes -> {"none", "bootstrap", "public"}] BY <1>1, <1>3
  <2>4. patched' \in BOOLEAN /\ stage' \in {"failing", "generate", "atom", "decode"}
    BY <1>2, <1>3
  <2>5. QED BY <2>1, <2>2, <2>3, <2>4
<1>5. Frames!TypeOK'
  BY <1>1, <1>2, <1>4, FramesPlan DEF Frames!TypeOK
<1>6. Steering'
  <2>1. CASE UNCHANGED <<at, trace, atomOf>> /\ patched' = FALSE /\ stage' = "failing"
    BY <1>1, <1>2, <2>1 DEF Steering, Frames!SteeredByPublicAtom
  <2>2. CASE /\ UNCHANGED <<at, trace, stage>> /\ ~patched
             /\ atomOf' = [atomOf EXCEPT ![at] = IF atom THEN "public" ELSE "bootstrap"]
    BY <1>1, <1>2, <2>2, FramesPlan DEF Steering, Frames!SteeredByPublicAtom
  <2>3. CASE /\ patched /\ patched' = FALSE /\ atomOf' = atomOf
             /\ \E t \in Frames!Traces : trace' = [trace EXCEPT ![at] = t]
    <3>1. \A p \in Frames!Probes : p # at => trace'[p] = trace[p]
      BY <1>1, <2>3
    <3>2. stage' = "generate" /\ at' # 1 => at # 1
      BY <1>3, <2>3
    <3>3. stage' # "start" /\ patched' = FALSE BY <1>3, <2>3
    <3>4. \A p \in Frames!Probes : p # 1 /\ trace'[p] # "none" => atomOf'[p] = "public"
      <4>1. at # 1 => atomOf[at] = "public" BY <1>1, <2>3 DEF Steering
      <4>2. \A p \in Frames!Probes : p # 1 /\ trace[p] # "none" => atomOf[p] = "public"
        BY <1>1 DEF Steering, Frames!SteeredByPublicAtom
      <4>3. QED BY <2>3, <3>1, <4>1, <4>2
    <3>5. stage' = "generate" /\ at' # 1 => atom'
      BY <1>1, <1>2, <1>3, <2>3, <3>2 DEF Steering
    <3>6. QED BY <3>3, <3>4, <3>5 DEF Steering, Frames!SteeredByPublicAtom
  <2>4. QED BY <1>3, <2>1, <2>2, <2>3
<1>7. Written' /\ Decided'
  <2>1. disk.decision = "none" BY <1>1, <1>2 DEF Decided
  <2>2. disk.manifest \notin {"pass", "stop"} BY <1>2, NoManifestYet
  <2>3. QED BY <1>2, <1>4, <2>1, <2>2, DiskUntouched
<1>8. QED BY <1>1, <1>5, <1>6, <1>7 DEF FramesInv

(* The atom, and what else does not touch the traces.                       *)
LEMMA MakeAtomStep ==
  ASSUME FramesInv, Frames!MakeAtom
  PROVE  FramesInv'
<1>1. /\ Frames!TypeOK /\ Steering /\ Written /\ Decided /\ disk \in Frames!Disk
      /\ framesFaults < FrameFaults => framesFaults + 1 \in 0 .. FrameFaults
  BY FramesTyped
<1>2. /\ stage = "atom" /\ UNCHANGED <<patched, trace, atomOf, altered, verdict, lost>>
      /\ framesFaults' \in {framesFaults}
           \union (IF framesFaults < FrameFaults THEN {framesFaults + 1} ELSE {})
      /\ \/ /\ atom' = TRUE /\ disk' = [disk EXCEPT !.atom = TRUE]
            /\ stage' = "generate" /\ at' = 2
         \/ UNCHANGED <<atom, disk, at>> /\ stage' = "failing"
  BY DEF Frames!MakeAtom, Frames!Fails
<1>3. /\ disk' \in Frames!Disk /\ disk'.plan = disk.plan
      /\ disk'.decision = disk.decision /\ disk'.manifest = disk.manifest
  BY <1>1, <1>2 DEF Frames!Disk
<1>4. Frames!TypeOK'
  <2>0. at \in 1 .. 8 /\ atom \in BOOLEAN BY FramesTyped DEF Frames!TypeOK
  <2>1. at' \in 1 .. 8 BY <1>2, <2>0
  <2>2. atom' \in BOOLEAN BY <1>2, <2>0
  <2>3. QED BY <1>1, <1>2, <1>3, <2>1, <2>2, FramesPlan DEF Frames!TypeOK
<1>5. Steering' BY <1>1, <1>2 DEF Steering, Frames!SteeredByPublicAtom
<1>6. Written' BY <1>1, <1>2, <1>3 DEF Written
<1>7. Decided'
  BY <1>1, <1>2, <1>3
  DEF Decided, Frames!PassIsBacked, Frames!ManifestAgrees, Frames!RaisedDoesNotPass
<1>8. QED BY <1>4, <1>5, <1>6, <1>7 DEF FramesInv

(* Measurement: the videos and the rows.                                    *)
LEMMA MeasurementSteps ==
  ASSUME FramesInv, Frames!Measure \/ Frames!WriteRows
  PROVE  FramesInv'
<1>1. /\ Frames!TypeOK /\ Steering /\ Written /\ Decided /\ disk \in Frames!Disk
      /\ at \in 1 .. 8
      /\ framesFaults < FrameFaults => framesFaults + 1 \in 0 .. FrameFaults
  BY FramesTyped
<1>2. /\ stage = "decode" /\ UNCHANGED <<patched, atom, trace, atomOf, altered, verdict, lost>>
      /\ framesFaults' \in {framesFaults}
           \union (IF framesFaults < FrameFaults THEN {framesFaults + 1} ELSE {})
  BY DEF Frames!Measure, Frames!WriteRows, Frames!Fails, Frames!Refuses
<1>3. /\ disk' \in Frames!Disk /\ disk'.plan = disk.plan
      /\ disk'.decision = disk.decision /\ disk'.manifest = disk.manifest
      /\ at' \in 1 .. 8 /\ stage' \in {"failing", "decode", "validate"}
      /\ stage' = "validate" => Recorded'
  <2>1. CASE Frames!Measure
    <3>1. /\ at' = at /\ stage' \in {"failing", "decode"}
          /\ \E n \in {at - 1, at} : disk' = [disk EXCEPT !.videos = n]
      BY <1>2, <2>1 DEF Frames!Measure, Frames!Fails, Frames!Refuses
    <3>2. at - 1 \in 0 .. 8 /\ at \in 0 .. 8 BY <1>1
    <3>3. PICK n \in 0 .. 8 : disk' = [disk EXCEPT !.videos = n]
      BY <3>1, <3>2
    <3>4. QED BY <1>1, <3>1, <3>3 DEF Frames!Disk
  <2>2. CASE Frames!WriteRows
    <3>1. DOMAIN disk = DiskFiles BY <1>1 DEF Frames!Disk, DiskFiles
    <3>2. /\ Frames!Order[1] = "generations" /\ Frames!Order[2] = "steps"
          /\ Frames!Order[3] = "checkpoints"
      BY DEF Frames!Order
    <3>3. \A f \in Frames!RecordFiles : Frames!RowsOf(f, at) \in 0 .. 8
      BY <1>1, FramesPlan DEF Frames!RowsOf, Frames!RecordFiles
    <3>4. /\ at' \in {1, at, at + 1} /\ stage' \in {"failing", "decode", "validate"}
          /\ stage' = "validate" => at = 8 /\ disk.videos = 8
          /\ at' # at => stage' # "failing"
          /\ at' = at + 1 => at # 8
      BY <1>1, <1>2, <2>2, FramesPlan DEF Frames!WriteRows, Frames!Fails
    <3>5. /\ DOMAIN disk' = DiskFiles /\ disk' = [f \in DiskFiles |-> disk'[f]]
          /\ \A f \in DiskFiles \ Frames!RecordFiles : disk'[f] = disk[f]
          /\ \A f \in Frames!RecordFiles : disk'[f] \in 0 .. 8
          /\ stage' # "failing" =>
               \A f \in Frames!RecordFiles : disk'[f] = Frames!RowsOf(f, at)
      <4>1. CASE /\ disk' = [f \in DOMAIN disk |-> IF f \in Frames!RecordFiles
                                THEN Frames!RowsOf(f, at) ELSE disk[f]]
        BY <3>1, <3>3, <4>1 DEF Frames!RecordFiles, DiskFiles
      <4>2. ASSUME stage' = "failing", NEW n \in 1 .. 3, NEW rows \in 0 .. 8,
                   disk' = [f \in DOMAIN disk |->
                     IF \E k \in 1 .. n - 1 : Frames!Order[k] = f THEN Frames!RowsOf(f, at)
                     ELSE IF f = Frames!Order[n] THEN rows ELSE disk[f]]
            PROVE  /\ DOMAIN disk' = DiskFiles /\ disk' = [f \in DiskFiles |-> disk'[f]]
                   /\ \A f \in DiskFiles \ Frames!RecordFiles : disk'[f] = disk[f]
                   /\ \A f \in Frames!RecordFiles : disk'[f] \in 0 .. 8
        <5>1. \A k \in 1 .. 3 : Frames!Order[k] \in Frames!RecordFiles
          <6>1. 1 .. 3 = {1, 2, 3} OBVIOUS
          <6>2. QED BY <3>2, <6>1 DEF Frames!RecordFiles
        <5>2. \A k \in 1 .. n - 1 : k \in 1 .. 3 BY <4>2
        <5>3. \A f \in Frames!RecordFiles : f \in DiskFiles /\ disk[f] \in 0 .. 8
          BY <1>1 DEF Frames!RecordFiles, DiskFiles, Frames!Disk
        <5>4. ASSUME NEW f \in DiskFiles
              PROVE  /\ f \notin Frames!RecordFiles => disk'[f] = disk[f]
                     /\ f \in Frames!RecordFiles => disk'[f] \in 0 .. 8
          BY <3>1, <3>3, <4>2, <5>1, <5>2, <5>3
        <5>5. DOMAIN disk' = DiskFiles /\ disk' = [f \in DiskFiles |-> disk'[f]]
          BY <3>1, <4>2
        <5>6. QED BY <5>3, <5>4, <5>5
      <4>3. QED
        BY <2>2, <4>1, <4>2, FramesPlan DEF Frames!WriteRows, Frames!Fails
    <3>6. disk' \in Frames!Disk /\ disk'.plan = disk.plan
          /\ disk'.decision = disk.decision /\ disk'.manifest = disk.manifest
          /\ disk'.videos = disk.videos
      BY <1>1, <3>5 DEF Frames!Disk, DiskFiles, Frames!RecordFiles
    <3>7. at' \in 1 .. 8 BY <1>1, <3>4
    <3>8. stage' = "validate" => Recorded'
      BY <3>4, <3>5, <3>6, FramesPlan DEF Recorded, Frames!RecordFiles, Frames!RowsOf
    <3>9. QED BY <3>4, <3>6, <3>7, <3>8
  <2>3. QED BY <2>1, <2>2
<1>4. Frames!TypeOK'
  BY <1>1, <1>2, <1>3, FramesPlan DEF Frames!TypeOK
<1>5. Steering' BY <1>1, <1>2, <1>3 DEF Steering, Frames!SteeredByPublicAtom
<1>6. Written' BY <1>1, <1>2, <1>3 DEF Written
<1>7. Decided'
  BY <1>1, <1>2, <1>3
  DEF Decided, Frames!PassIsBacked, Frames!ManifestAgrees, Frames!RaisedDoesNotPass
<1>8. QED BY <1>4, <1>5, <1>6, <1>7 DEF FramesInv

(* Start, validation, another process's change, and a kill.                 *)
LEMMA PlainSteps ==
  ASSUME FramesInv, Frames!Start \/ Frames!Validate \/ Frames!VideoChanges \/ Frames!Kill
  PROVE  FramesInv'
<1>1. /\ Frames!TypeOK /\ Steering /\ Written /\ Decided /\ disk \in Frames!Disk
      /\ framesFaults < FrameFaults => framesFaults + 1 \in 0 .. FrameFaults
      /\ disk.videos \in 0 .. 8
  BY FramesTyped
<1>2. /\ UNCHANGED <<at, atom, trace, atomOf, verdict, lost>>
      /\ framesFaults' \in {framesFaults}
           \union (IF framesFaults < FrameFaults THEN {framesFaults + 1} ELSE {})
      /\ patched' \in {patched, FALSE}
  BY <1>1
  DEF Frames!Start, Frames!Validate, Frames!VideoChanges, Frames!Kill, Frames!Fails,
      Frames!Refuses, Frames!TypeOK
<1>3. CASE Frames!Start
  <2>1. /\ stage = "start" /\ patched' = patched /\ altered' = altered
        /\ \/ stage' = "refused" /\ disk' = disk
           \/ stage' \in {"refused", "generate"} /\ disk' = [disk EXCEPT !.plan = TRUE]
    BY <1>3 DEF Frames!Start
  <2>2. /\ disk' \in Frames!Disk /\ disk'.decision = disk.decision
        /\ disk'.manifest = disk.manifest /\ (stage' = "generate" => disk'.plan)
    BY <1>1, <2>1 DEF Frames!Disk
  <2>3. Frames!TypeOK' BY <1>1, <1>2, <2>1, <2>2 DEF Frames!TypeOK
  <2>4. at = 1 BY <1>1, <2>1 DEF Steering
  <2>5. QED
  BY <1>1, <1>2, <2>1, <2>2, <2>3, <2>4
  DEF FramesInv, Steering, Frames!SteeredByPublicAtom, Written, Decided,
      Frames!PassIsBacked, Frames!ManifestAgrees, Frames!RaisedDoesNotPass
<1>4. CASE Frames!Validate
  <2>1. /\ stage = "validate" /\ patched' = patched /\ UNCHANGED <<altered, disk>>
        /\ stage' \in {"failing", "evaluate"} /\ (stage' = "evaluate" => Validated)
    BY <1>4
    DEF Frames!Validate, Frames!Refuses, Frames!Fails, Frames!BatchValid, Validated,
        Frames!Exposed
  <2>2. Frames!TypeOK' BY <1>1, <1>2, <2>1 DEF Frames!TypeOK
  <2>3. Steering' BY <1>1, <1>2, <2>1 DEF Steering, Frames!SteeredByPublicAtom
  <2>4. Written' BY <1>1, <1>2, <2>1 DEF Written, Recorded, Validated
  <2>5. Decided'
    BY <1>1, <1>2, <2>1
    DEF Decided, Frames!PassIsBacked, Frames!ManifestAgrees, Frames!RaisedDoesNotPass
  <2>6. QED BY <2>2, <2>3, <2>4, <2>5 DEF FramesInv
<1>5. CASE Frames!VideoChanges
  <2>1. /\ stage \in {"decode", "validate"} /\ UNCHANGED <<stage, disk, patched>>
        /\ altered' \subseteq Frames!Probes
    BY <1>5 DEF Frames!VideoChanges
  <2>2. Frames!TypeOK' BY <1>1, <1>2, <2>1 DEF Frames!TypeOK
  <2>3. Steering' BY <1>1, <1>2, <2>1 DEF Steering, Frames!SteeredByPublicAtom
  <2>4. Written' BY <1>1, <1>2, <2>1 DEF Written, Recorded
  <2>5. Decided'
    BY <1>1, <1>2, <2>1
    DEF Decided, Frames!PassIsBacked, Frames!ManifestAgrees, Frames!RaisedDoesNotPass
  <2>6. QED BY <2>2, <2>3, <2>4, <2>5 DEF FramesInv
<1>6. CASE Frames!Kill
  <2>1. /\ stage \notin {"returned", "raised"} /\ stage' = "killed" /\ patched' = FALSE
        /\ UNCHANGED <<disk, altered>>
    BY <1>6 DEF Frames!Kill, Frames!Ended
  <2>2. Frames!TypeOK' BY <1>1, <1>2, <2>1 DEF Frames!TypeOK
  <2>3. Steering' BY <1>1, <1>2, <2>1 DEF Steering, Frames!SteeredByPublicAtom
  <2>4. Written' /\ Decided' BY <1>2, <2>1, NoManifestYet, DiskUntouched
  <2>5. QED BY <2>2, <2>3, <2>4 DEF FramesInv
<1>7. QED BY <1>3, <1>4, <1>5, <1>6

(* Evaluation, decision, manifest and failure.                              *)
LEMMA DecisionSteps ==
  ASSUME FramesInv, Frames!Evaluate \/ Frames!Decide \/ Frames!WriteManifest
                    \/ Frames!RecordFailure
  PROVE  FramesInv'
<1>1. /\ Frames!TypeOK /\ Steering /\ Written /\ Decided /\ disk \in Frames!Disk
      /\ framesFaults < FrameFaults => framesFaults + 1 \in 0 .. FrameFaults
      /\ verdict \in {"none", "pass", "stop"}
  BY FramesTyped DEF Frames!TypeOK
<1>2. /\ UNCHANGED <<at, patched, atom, trace, atomOf, altered>>
      /\ framesFaults' \in {framesFaults}
           \union (IF framesFaults < FrameFaults THEN {framesFaults + 1} ELSE {})
      /\ stage \notin {"start", "generate"}
      /\ stage' \in {"decide", "manifest", "returned", "failing", "raised"}
  BY DEF Frames!Evaluate, Frames!Decide, Frames!WriteManifest, Frames!RecordFailure,
     Frames!Fails
<1>3. Steering' BY <1>1, <1>2 DEF Steering, Frames!SteeredByPublicAtom
<1>4. CASE Frames!Evaluate
  <2>1. /\ stage = "evaluate" /\ lost' = lost
        /\ \/ /\ stage' = "decide" /\ verdict' \in {"pass", "stop"}
              /\ disk' = [disk EXCEPT !.contexts = TRUE, !.statistics = TRUE, !.transfer = TRUE]
           \/ /\ stage' = "failing" /\ verdict' = verdict
              /\ \E c \in BOOLEAN, s \in BOOLEAN :
                    disk' = [disk EXCEPT !.contexts = c, !.statistics = s]
    <3>1. /\ stage = "evaluate" /\ lost' = lost
          /\ \/ /\ stage' = "decide" /\ verdict' \in {"pass", "stop"}
                /\ disk' = [disk EXCEPT !.contexts = TRUE, !.statistics = TRUE,
                                        !.transfer = TRUE]
             \/ /\ stage' = "failing" /\ verdict' = verdict
                /\ \E n \in 0 .. 2 :
                      disk' = [disk EXCEPT !.contexts = n >= 1, !.statistics = n >= 2]
      BY <1>4 DEF Frames!Evaluate, Frames!Fails, Frames!Verdict
    <3>2. \A n \in 0 .. 2 : (n >= 1) \in BOOLEAN /\ (n >= 2) \in BOOLEAN
      OBVIOUS
    <3>3. QED BY <3>1, <3>2
  <2>2. /\ disk' \in Frames!Disk /\ disk'.plan = disk.plan /\ disk'.atom = disk.atom
        /\ disk'.videos = disk.videos /\ disk'.generations = disk.generations
        /\ disk'.steps = disk.steps /\ disk'.checkpoints = disk.checkpoints
        /\ disk'.decision = disk.decision /\ disk'.manifest = disk.manifest
        /\ stage' = "decide" => disk'.contexts /\ disk'.statistics /\ disk'.transfer
    BY <1>1, <2>1 DEF Frames!Disk
  <2>3. Frames!TypeOK' BY <1>1, <1>2, <2>1, <2>2 DEF Frames!TypeOK
  <2>4. Written'
    BY <1>1, <1>2, <2>1, <2>2 DEF Written, Recorded, Validated, Evaluated
  <2>5. Decided'
    BY <1>1, <1>2, <2>1, <2>2
    DEF Decided, Frames!PassIsBacked, Frames!ManifestAgrees, Frames!RaisedDoesNotPass
  <2>6. QED BY <1>3, <2>3, <2>4, <2>5 DEF FramesInv
<1>5. CASE Frames!Decide \/ Frames!WriteManifest \/ Frames!RecordFailure
  <2>1. /\ verdict' = verdict /\ lost' \in BOOLEAN
        /\ \E d \in {"none", "torn", "pass", "stop", "failure"},
              m \in {"none", "torn", "pass", "stop"} :
              /\ disk' = [disk EXCEPT !.decision = d, !.manifest = m]
              /\ \/ /\ stage = "decide" /\ stage' = "manifest" /\ d = verdict
                    /\ m = disk.manifest /\ lost' = lost
                 \/ /\ stage = "decide" /\ stage' = "failing" /\ d \in {"none", "torn"}
                    /\ m = disk.manifest /\ lost' = lost
                 \/ /\ stage = "manifest" /\ stage' = "returned" /\ d = disk.decision
                    /\ m = verdict /\ lost' = lost
                 \/ /\ stage = "manifest" /\ stage' = "failing" /\ d = disk.decision
                    /\ m \in {"none", "torn"} /\ lost' = lost
                 \/ /\ stage = "failing" /\ stage' = "raised" /\ m = disk.manifest
                    /\ \/ d = "failure"
                       \/ d \in {disk.decision, "torn"} /\ lost' = TRUE
    <3>0. /\ disk.decision \in {"none", "torn", "pass", "stop", "failure"}
          /\ disk.manifest \in {"none", "torn", "pass", "stop"} /\ lost \in BOOLEAN
          /\ disk = [disk EXCEPT !.decision = disk.decision, !.manifest = disk.manifest]
          /\ \A d : [disk EXCEPT !.decision = d] =
                      [disk EXCEPT !.decision = d, !.manifest = disk.manifest]
          /\ \A m : [disk EXCEPT !.manifest = m] =
                      [disk EXCEPT !.decision = disk.decision, !.manifest = m]
      BY <1>1 DEF Frames!Disk, Frames!TypeOK
    <3>1. CASE Frames!Decide
      BY <1>1, <3>0, <3>1 DEF Frames!Decide, Frames!Fails, Decided
    <3>2. CASE Frames!WriteManifest
      BY <1>1, <3>0, <3>2 DEF Frames!WriteManifest, Frames!Fails, Decided
    <3>3. CASE Frames!RecordFailure
      BY <1>1, <3>0, <3>3 DEF Frames!RecordFailure
    <3>4. QED BY <1>5, <3>1, <3>2, <3>3
  <2>2. /\ disk' \in Frames!Disk /\ disk'.plan = disk.plan /\ disk'.atom = disk.atom
        /\ disk'.videos = disk.videos /\ disk'.generations = disk.generations
        /\ disk'.steps = disk.steps /\ disk'.checkpoints = disk.checkpoints
        /\ disk'.contexts = disk.contexts /\ disk'.statistics = disk.statistics
        /\ disk'.transfer = disk.transfer
    BY <1>1, <2>1 DEF Frames!Disk
  <2>3. \/ /\ stage = "decide" /\ stage' = "manifest" /\ disk'.decision = verdict
           /\ disk'.manifest = disk.manifest /\ lost' = lost
        \/ /\ stage = "decide" /\ stage' = "failing" /\ disk'.decision \in {"none", "torn"}
           /\ disk'.manifest = disk.manifest /\ lost' = lost
        \/ /\ stage = "manifest" /\ stage' = "returned" /\ disk'.decision = disk.decision
           /\ disk'.manifest = verdict /\ lost' = lost
        \/ /\ stage = "manifest" /\ stage' = "failing" /\ disk'.decision = disk.decision
           /\ disk'.manifest \in {"none", "torn"} /\ lost' = lost
        \/ /\ stage = "failing" /\ stage' = "raised" /\ disk'.manifest = disk.manifest
           /\ \/ disk'.decision = "failure"
              \/ disk'.decision \in {disk.decision, "torn"} /\ lost' = TRUE
    <3>1. \A d, m : /\ [disk EXCEPT !.decision = d, !.manifest = m].decision = d
                    /\ [disk EXCEPT !.decision = d, !.manifest = m].manifest = m
      BY <1>1 DEF Frames!Disk
    <3>2. QED BY <2>1, <3>1
  <2>4. Frames!TypeOK' BY <1>1, <1>2, <2>1, <2>2 DEF Frames!TypeOK
  <2>5. Written'
    BY <1>1, <1>2, <2>2, <2>3 DEF Written, Recorded, Validated, Evaluated
  <2>6. Frames!PassIsBacked'
    <3>1. disk'.decision = "pass" => disk.decision = "pass" \/ stage = "decide"
      BY <2>3
    <3>2. QED
      BY <1>1, <1>2, <2>2, <3>1
      DEF Decided, Frames!PassIsBacked, Written, Recorded, Validated, Evaluated
  <2>7. Decided'
    BY <1>1, <1>2, <2>1, <2>3, <2>6
    DEF Decided, Frames!ManifestAgrees, Frames!RaisedDoesNotPass
  <2>8. QED BY <1>3, <2>4, <2>5, <2>7 DEF FramesInv
<1>6. QED BY <1>4, <1>5

LEMMA NextFramesInv == FramesInv /\ [Frames!Next]_(Frames!vars) => FramesInv'
<1> SUFFICES ASSUME FramesInv, [Frames!Next]_(Frames!vars) PROVE FramesInv'
  OBVIOUS
<1>1. CASE UNCHANGED Frames!vars
  <2>1. Frames!TypeOK' /\ Steering'
    BY <1>1
    DEF Frames!vars, FramesInv, Frames!TypeOK, Steering, Frames!SteeredByPublicAtom
  <2>2. Written' /\ Decided' BY <1>1, DiskUntouched DEF Frames!vars
  <2>3. QED BY <2>1, <2>2 DEF FramesInv
<1>2. QED
  BY <1>1, GenerationSteps, MakeAtomStep, MeasurementSteps, PlainSteps, DecisionSteps
  DEF Frames!Next, Frames!Run, Frames!Rest

(* What replaces a decision is a failure or a cut file.                     *)
LEMMA DecisionFalls ==
  ASSUME FramesInv, [Frames!Next]_(Frames!vars), disk.decision # "none",
         disk'.decision # disk.decision
  PROVE  disk'.decision \in {"failure", "torn"}
<1>1. Decided /\ disk \in Frames!Disk BY FramesTyped
<1>2. stage \notin {"start", "atom", "decode", "evaluate", "decide"} BY <1>1 DEF Decided
<1>3. Frames!WriteManifest \/ Frames!RecordFailure
  BY <1>2
  DEF Frames!Next, Frames!Run, Frames!Rest, Frames!vars, Frames!Start, Frames!LoadFails,
      Frames!PatchScheduler, Frames!Generate, Frames!GenerationFails, Frames!MakeAtom,
      Frames!Measure, Frames!WriteRows, Frames!Validate, Frames!Evaluate, Frames!Decide,
      Frames!VideoChanges, Frames!Kill
<1>4. \A d, m : /\ [disk EXCEPT !.decision = d].decision = d
                /\ [disk EXCEPT !.manifest = m].decision = disk.decision
  BY <1>1 DEF Frames!Disk
<1>5. QED BY <1>3, <1>4 DEF Frames!WriteManifest, Frames!RecordFailure

LEMMA FramesProjects == [SomeStep]_allVars => [Frames!Next]_(Frames!vars)
<1> SUFFICES ASSUME [SomeStep]_allVars PROVE [Frames!Next]_(Frames!vars)
  OBVIOUS
<1> USE DEF framesVars, Frames!vars
<1>1. CASE FramesStep BY <1>1 DEF FramesStep
<1>2. CASE Rest /\ program # "frames"
  BY <1>2 DEF Rest
<1>3. CASE UNCHANGED allVars BY <1>3 DEF allVars
<1>4. QED
  BY <1>1, <1>2, <1>3
  DEF SomeStep, ProbeStep, RuntimeStep, PreflightStep, PromotionStep, ScoringStep,
      SetupStep, AtomStep, ServerStep, OfficialReferenceStep, CommandsStep,
      ProvenanceStep

(* For every number of faults: no video is steered along the placeholder,    *)
(* the scheduler is taken over only while a video is generated, and a        *)
(* decision that passes stands on the complete experiment.                   *)
THEOREM FramesStaySafe == AllSpec => []FramesAreSafe
<1>1. Start => FramesInv BY FramesStart DEF Start
<1>2. FramesInv /\ [SomeStep]_allVars => FramesInv'
  BY FramesProjects, NextFramesInv
<1>3. FramesInv => FramesAreSafe
  BY DEF FramesInv, Steering, Decided, FramesAreSafe, Frames!SchedulerIsBack
<1>4. QED BY <1>1, <1>2, <1>3, PTL DEF AllSpec

(* A decision on the disk is never replaced by a better one: only a failure  *)
(* or a cut file takes its place.                                            *)
THEOREM FrameDecisionOnlyFalls == AllSpec => Frames!DecisionOnlyFalls
<1>1. Start => FramesInv BY FramesStart DEF Start
<1>2. FramesInv /\ [SomeStep]_allVars => FramesInv'
  BY FramesProjects, NextFramesInv
<1> DEFINE Falls == disk.decision # "none" /\ disk'.decision # disk.decision
                      => disk'.decision \in {"failure", "torn"}
<1>3. FramesInv /\ [SomeStep]_allVars => [Falls]_(Frames!vars)
  BY FramesProjects, DecisionFalls
<1>4. QED BY <1>1, <1>2, <1>3, PTL DEF AllSpec, Frames!DecisionOnlyFalls

-----------------------------------------------------------------------------
(* The construction of the public atom.                                     *)

LEMMA AtomConstants == AtomIterations \in Nat \ {0} /\ AtomFaults \in Nat
BY InstancesAssumption DEF Atom!AtomConstants

LEMMA AtomScopes ==
  /\ Len(Atom!Scopes) = 5
  /\ Atom!Scopes[1] = "hooks" /\ Atom!Scopes[2] = "device" /\ Atom!Scopes[3] = "frozen"
  /\ Atom!Scopes[4] = "untiled" /\ Atom!Scopes[5] = "sdpa"
  /\ Atom!Changes = {"hooks", "device", "frozen", "untiled", "sdpa", "cache"}
<1>1. /\ Len(Atom!Scopes) = 5
      /\ Atom!Scopes[1] = "hooks" /\ Atom!Scopes[2] = "device"
      /\ Atom!Scopes[3] = "frozen" /\ Atom!Scopes[4] = "untiled"
      /\ Atom!Scopes[5] = "sdpa"
  BY DEF Atom!Scopes
<1> HIDE DEF Atom!Scopes
<1>2. 1 .. Len(Atom!Scopes) = {1, 2, 3, 4, 5} BY <1>1
<1>3. QED BY <1>1, <1>2 DEF Atom!Changes

(* What the scopes that are open may hold: each its own change, and the     *)
(* cache only inside the device scope.                                      *)
Opened(n) == (IF n >= 1 THEN {"hooks"} ELSE {})
             \union (IF n >= 2 THEN {"device", "cache"} ELSE {})
             \union (IF n >= 3 THEN {"frozen"} ELSE {})
             \union (IF n >= 4 THEN {"untiled"} ELSE {})
             \union (IF n >= 5 THEN {"sdpa"} ELSE {})

LEMMA OpenedAt ==
  /\ Opened(0) = {} /\ Opened(1) = {"hooks"}
  /\ Opened(2) = {"hooks", "device", "cache"}
  /\ Opened(3) = {"hooks", "device", "cache", "frozen"}
  /\ Opened(4) = {"hooks", "device", "cache", "frozen", "untiled"}
  /\ Opened(5) = {"hooks", "device", "cache", "frozen", "untiled", "sdpa"}
BY DEF Opened

(* Nothing has failed before a clean-up is under way, and until then, and   *)
(* while no clean-up fails, all that is held is what open scopes hold.      *)
HeldByScopes ==
  /\ error = 0 => held \subseteq Opened(open)
  /\ phase \in {"jvp", "vjp"} => "cache" \notin held
  /\ phase \in Atom!Decodes \union Atom!Clears => open = 5
  /\ phase = "done" => open = 0

(* The first error propagates and the later ones are noted on it, until an  *)
(* interrupt of the outermost clean-up.                                     *)
ErrorsKept ==
  /\ phase \in {"enter", "jvp_pre", "jvp", "vjp_pre", "vjp"} => error = 0
  /\ error = 0 <=> atomFaults = 0
  /\ ~cut => error \in {0, 1} /\ notes = 2 .. atomFaults
  /\ cut => open <= 1 /\ phase \in {"leave", "done"}

(* A callback is counted when it starts, and none is left out.              *)
CallbacksCounted ==
  /\ phase = "enter" => iteration = 0
  /\ phase \notin {"enter", "leave", "done"} => iteration >= 1
  /\ phase \in {"leave", "done"} /\ error = 0 => iteration = AtomIterations

AtomInv == Atom!TypeOK /\ HeldByScopes /\ ErrorsKept /\ CallbacksCounted

LEMMA AtomStarts == Atom!Init => AtomInv
<1> SUFFICES ASSUME Atom!Init PROVE AtomInv
  OBVIOUS
<1> USE AtomScopes, AtomConstants DEF Atom!Init
<1>1. Atom!TypeOK
  <2>1. 0 \in 0 .. 5 /\ 0 \in 0 .. AtomIterations /\ 0 \in 0 .. AtomFaults OBVIOUS
  <2>2. QED BY <2>1 DEF Atom!TypeOK
<1>2. HeldByScopes /\ CallbacksCounted
  BY DEF HeldByScopes, CallbacksCounted, Atom!Decodes, Atom!Clears
<1>3. ErrorsKept
  <2>1. 2 .. 0 = {} OBVIOUS
  <2>2. QED BY <2>1 DEF ErrorsKept
<1>4. QED BY <1>1, <1>2, <1>3 DEF AtomInv

(* What becomes of the error and its notes in a step.                       *)
Quiet == UNCHANGED <<atomFaults, error, notes>>
Raises == /\ atomFaults < AtomFaults /\ atomFaults' = atomFaults + 1
          /\ error' = atomFaults + 1 /\ notes' = notes
Notes == /\ atomFaults < AtomFaults /\ atomFaults' = atomFaults + 1
         /\ error' = (IF error = 0 THEN atomFaults + 1 ELSE error)
         /\ notes' = (IF error = 0 THEN notes ELSE notes \union {atomFaults + 1})

LEMMA ErrorSteps ==
  ASSUME AtomInv, Quiet \/ (Raises /\ error = 0) \/ Notes, cut' = cut, open' \in Nat,
         cut => open' <= open /\ phase' \in {"leave", "done"},
         phase' \in {"enter", "jvp_pre", "jvp", "vjp_pre", "vjp"} => error' = 0
  PROVE  /\ ErrorsKept'
         /\ atomFaults' \in 0 .. AtomFaults /\ error' \in 0 .. AtomFaults
         /\ notes' \subseteq 1 .. AtomFaults
         /\ ~Quiet => error' # 0
         /\ error' = 0 => error = 0
<1>1. /\ atomFaults \in 0 .. AtomFaults /\ error \in 0 .. AtomFaults
      /\ notes \subseteq 1 .. AtomFaults /\ open \in 0 .. 5 /\ cut \in BOOLEAN
      /\ ErrorsKept /\ AtomFaults \in Nat
  BY AtomScopes, AtomConstants DEF AtomInv, Atom!TypeOK
<1>2. CASE Quiet
  BY <1>1, <1>2 DEF Quiet, ErrorsKept
<1>3. CASE (Raises /\ error = 0) \/ Notes
  <2>1. /\ atomFaults + 1 \in 1 .. AtomFaults /\ atomFaults' = atomFaults + 1
        /\ error' = (IF error = 0 THEN atomFaults + 1 ELSE error)
        /\ notes' = (IF error = 0 THEN notes ELSE notes \union {atomFaults + 1})
    BY <1>1, <1>3 DEF Raises, Notes
  <2>2. ~cut => notes' = 2 .. atomFaults'
    <3>1. CASE error = 0
      BY <1>1, <2>1, <3>1 DEF ErrorsKept
    <3>2. CASE error # 0
      <4>1. ASSUME ~cut PROVE /\ notes = 2 .. atomFaults /\ atomFaults >= 1
                              /\ atomFaults \in Nat
        BY <1>1, <3>2, <4>1 DEF ErrorsKept
      <4>2. ~cut => (2 .. atomFaults) \union {atomFaults + 1} = 2 .. (atomFaults + 1)
        BY <4>1
      <4>3. QED BY <2>1, <3>2, <4>1, <4>2
    <3>3. QED BY <3>1, <3>2
  <2>3. error' # 0 BY <1>1, <2>1
  <2>4. ErrorsKept' BY <1>1, <2>1, <2>2, <2>3 DEF ErrorsKept
  <2>5. notes' \subseteq 1 .. AtomFaults BY <1>1, <2>1
  <2>6. QED BY <1>1, <2>1, <2>3, <2>4, <2>5
<1>4. QED BY <1>2, <1>3

(* Entering the scopes.                                                     *)
LEMMA EnteringSteps ==
  ASSUME AtomInv, Atom!EnterInOrder \/ Atom!EnterFailsInOrder \/ Atom!ToDevice
                  \/ Atom!StartCallback
  PROVE  AtomInv'
<1>1. /\ Atom!TypeOK /\ HeldByScopes /\ ErrorsKept /\ CallbacksCounted
      /\ open \in 0 .. 5 /\ held \subseteq Atom!Changes
  BY AtomScopes DEF AtomInv, Atom!TypeOK
<1>2. phase = "enter" /\ error = 0 /\ iteration = 0 /\ held \subseteq Opened(open) /\ cut' = cut
  BY <1>1
  DEF Atom!EnterInOrder, Atom!EnterFailsInOrder, Atom!ToDevice, Atom!StartCallback,
      Atom!Enter, Atom!EnterFails, ErrorsKept, CallbacksCounted, HeldByScopes
<1>3. /\ \/ /\ Quiet /\ phase' = "enter" /\ iteration' = iteration
            /\ \/ open < 5 /\ open' = open + 1 /\ held' = held \union ({Atom!Scopes[open + 1]} \ {"device"})
               \/ open = 2 /\ open' = open /\ held' = held \union {"device"}
         \/ /\ Raises /\ phase' = "leave" /\ iteration' = iteration /\ open' = open
            /\ held' \in {held} \union {held \union {Atom!Scopes[n]} : n \in 1 .. 5}
         \/ /\ Quiet /\ phase' = "jvp_pre" /\ iteration' = iteration + 1 /\ open = 5
            /\ UNCHANGED <<open, held>>
  <2>1. CASE Atom!EnterInOrder
    BY <2>1, AtomScopes DEF Atom!EnterInOrder, Atom!Enter, Atom!NoFault, Quiet
  <2>2. CASE Atom!EnterFailsInOrder
    <3>1. open + 1 \in 1 .. 5
      BY <1>1, <2>2, AtomScopes DEF Atom!EnterFailsInOrder, Atom!EnterFails
    <3>2. QED
      BY <2>2, <3>1, AtomScopes
      DEF Atom!EnterFailsInOrder, Atom!EnterFails, Atom!Raise, Atom!MayFail, Raises
  <2>3. CASE Atom!ToDevice
    <3>1. 2 \in 1 .. 5 /\ Atom!Scopes[2] = "device" BY AtomScopes
    <3>2. QED
      BY <2>3, <3>1
      DEF Atom!ToDevice, Atom!NoFault, Quiet, Atom!Raise, Atom!MayFail, Raises
  <2>4. CASE Atom!StartCallback
    BY <2>4, AtomScopes DEF Atom!StartCallback, Atom!NoFault, Quiet
  <2>5. QED BY <2>1, <2>2, <2>3, <2>4
<1>4. \A n \in 1 .. 5 : Atom!Scopes[n] \in Atom!Changes
  <2>1. 1 .. 5 = {1, 2, 3, 4, 5} OBVIOUS
  <2>2. QED BY <2>1, AtomScopes
<1>5. /\ open' \in 0 .. 5 /\ held' \subseteq Atom!Changes
      /\ phase' \in {"enter", "leave", "jvp_pre"} /\ iteration' \in 0 .. AtomIterations
  <2>1. open < 5 => open + 1 \in 1 .. 5 BY <1>1
  <2>2. "device" \in Atom!Changes BY AtomScopes
  <2>3. held' \subseteq Atom!Changes BY <1>1, <1>3, <1>4, <2>1, <2>2
  <2>4. QED BY <1>1, <1>2, <1>3, <2>3, AtomConstants
<1>6. /\ ErrorsKept' /\ atomFaults' \in 0 .. AtomFaults /\ error' \in 0 .. AtomFaults
      /\ notes' \subseteq 1 .. AtomFaults /\ (~Quiet => error' # 0)
  <2>1. ~cut BY <1>1, <1>2 DEF ErrorsKept
  <2>2. open' \in Nat /\ (phase' \in {"enter", "jvp_pre", "jvp", "vjp_pre", "vjp"} => Quiet)
    BY <1>3, <1>5
  <2>3. Quiet \/ (Raises /\ error = 0) \/ Notes BY <1>2, <1>3
  <2>4. Quiet => error' = 0 BY <1>2 DEF Quiet
  <2>5. QED BY <1>2, <2>1, <2>2, <2>3, <2>4, ErrorSteps
<1>7. Atom!TypeOK'
  BY <1>1, <1>2, <1>5, <1>6, AtomScopes DEF Atom!TypeOK, Atom!Clears
<1>8. error' = 0 => held' \subseteq Opened(open')
  <2>1. ASSUME Quiet, open < 5, open' = open + 1,
               held' = held \union ({Atom!Scopes[open + 1]} \ {"device"})
        PROVE  held' \subseteq Opened(open')
    <3>1. open \in {0, 1, 2, 3, 4} BY <1>1, <2>1
    <3>2. CASE open = 0
      <4>1. open' = 1 /\ held' = held \union {"hooks"} BY <2>1, <3>2, AtomScopes
      <4>2. QED BY <1>2, <3>2, <4>1, OpenedAt
    <3>3. CASE open = 1
      <4>1. open' = 2 /\ held' = held BY <2>1, <3>3, AtomScopes
      <4>2. QED BY <1>2, <3>3, <4>1, OpenedAt
    <3>4. CASE open = 2
      <4>1. open' = 3 /\ held' = held \union {"frozen"} BY <2>1, <3>4, AtomScopes
      <4>2. QED BY <1>2, <3>4, <4>1, OpenedAt
    <3>5. CASE open = 3
      <4>1. open' = 4 /\ held' = held \union {"untiled"} BY <2>1, <3>5, AtomScopes
      <4>2. QED BY <1>2, <3>5, <4>1, OpenedAt
    <3>6. CASE open = 4
      <4>1. open' = 5 /\ held' = held \union {"sdpa"} BY <2>1, <3>6, AtomScopes
      <4>2. QED BY <1>2, <3>6, <4>1, OpenedAt
    <3>7. QED BY <3>1, <3>2, <3>3, <3>4, <3>5, <3>6
  <2>2. ASSUME open = 2, open' = open, held' = held \union {"device"}
        PROVE  held' \subseteq Opened(open')
    BY <1>2, <2>2 DEF Opened
  <2>3. QED BY <1>2, <1>3, <1>6, <2>1, <2>2 DEF Raises, Quiet
<1>9. HeldByScopes'
  BY <1>3, <1>8 DEF HeldByScopes, Atom!Decodes, Atom!Clears
<1>10. CallbacksCounted'
  BY <1>2, <1>3, <1>6, AtomConstants DEF CallbacksCounted, Raises, Quiet
<1>11. QED BY <1>6, <1>7, <1>9, <1>10 DEF AtomInv

(* The callbacks.                                                           *)
LEMMA CallbackSteps ==
  ASSUME AtomInv, Atom!Decode \/ Atom!Clear \/ Atom!CandidateRefused
  PROVE  AtomInv'
<1>1. /\ Atom!TypeOK /\ HeldByScopes /\ ErrorsKept /\ CallbacksCounted
      /\ held \subseteq Atom!Changes /\ iteration \in 0 .. AtomIterations
  BY DEF AtomInv, Atom!TypeOK
<1>2. phase \in Atom!Decodes \union Atom!Clears /\ open = 5 /\ cut' = cut /\ open' = open
  BY <1>1 DEF Atom!Decode, Atom!Clear, Atom!CandidateRefused, HeldByScopes, Atom!Clears
<1>3. ~cut /\ iteration >= 1
  BY <1>1, <1>2 DEF ErrorsKept, CallbacksCounted, Atom!Decodes, Atom!Clears
<1>4. /\ held' \subseteq held \union {"cache"}
      /\ Quiet \/ (Raises /\ error = 0) \/ Notes
      /\ \/ /\ phase \in {"jvp", "vjp"} /\ iteration' = iteration
            /\ phase' \in {"jvp_post", "vjp_post"}
         \/ /\ phase \in {"jvp_pre", "vjp_pre"} /\ iteration' = iteration
            /\ phase' \in {"jvp", "vjp"} /\ error' = 0 /\ "cache" \notin held'
         \/ /\ phase \in {"jvp_pre", "vjp_pre", "jvp_post"} /\ iteration' = iteration
            /\ phase' = "iteration"
         \/ /\ phase = "jvp_post" /\ iteration' = iteration /\ phase' = "vjp_pre" /\ error' = 0
         \/ /\ phase = "vjp_post" /\ iteration' = iteration /\ phase' = "iteration"
         \/ /\ phase = "iteration" /\ iteration' = iteration /\ phase' = "leave"
            /\ error' # 0 \/ iteration = AtomIterations
         \/ /\ phase = "iteration" /\ iteration' = iteration + 1 /\ phase' = "jvp_pre"
            /\ error' = 0 /\ iteration # AtomIterations
         \/ /\ phase = "jvp_pre" /\ iteration > 1 /\ iteration' = iteration - 1
            /\ phase' = "leave" /\ Raises
  <2>1. CASE Atom!Decode
    <3>1. error = 0 BY <1>1, <2>1 DEF Atom!Decode, Atom!Decodes, ErrorsKept
    <3>2. QED
      BY <2>1, <3>1
      DEF Atom!Decode, Atom!Decodes, Atom!NoFault, Quiet, Atom!Raise, Atom!MayFail,
          Raises, Atom!After, Atom!OnError
  <2>2. CASE Atom!Clear
    <3>1. /\ phase \in Atom!Clears /\ phase' = Atom!NextPhase(error')
          /\ iteration' = (IF phase' = "jvp_pre" THEN iteration + 1 ELSE iteration)
          /\ held' \in {held, held \ {"cache"}}
          /\ (Quiet /\ held' = held \ {"cache"}) \/ Notes
      BY <2>2
      DEF Atom!Clear, Atom!NoFault, Quiet, Atom!NoteOrRaise, Atom!MayFail, Notes
    <3>2. /\ phase = "iteration" =>
               phase' = (IF error' # 0 \/ iteration = AtomIterations THEN "leave" ELSE "jvp_pre")
          /\ phase = "jvp_pre" => phase' = (IF error' # 0 THEN "iteration" ELSE "jvp")
          /\ phase = "jvp_post" => phase' = (IF error' # 0 THEN "iteration" ELSE "vjp_pre")
          /\ phase = "vjp_pre" => phase' = (IF error' # 0 THEN "iteration" ELSE "vjp")
          /\ phase = "vjp_post" => phase' = "iteration"
      BY <3>1 DEF Atom!NextPhase, Atom!After, Atom!OnError
    <3>3. Notes => error' # 0
      BY <1>1, AtomConstants DEF Notes, Atom!TypeOK
    <3>4. QED BY <3>1, <3>2, <3>3 DEF Atom!Clears
  <2>3. CASE Atom!CandidateRefused
    <3>1. error = 0 BY <1>1, <2>3 DEF Atom!CandidateRefused, ErrorsKept
    <3>2. QED BY <2>3, <3>1 DEF Atom!CandidateRefused, Atom!Raise, Atom!MayFail, Raises
  <2>4. QED BY <2>1, <2>2, <2>3
<1>5. /\ ErrorsKept' /\ atomFaults' \in 0 .. AtomFaults /\ error' \in 0 .. AtomFaults
      /\ notes' \subseteq 1 .. AtomFaults /\ (error' = 0 => error = 0)
  BY <1>2, <1>3, <1>4, ErrorSteps
<1>6. /\ phase' \in Atom!Decodes \union Atom!Clears \union {"leave"}
      /\ iteration' \in 0 .. AtomIterations /\ held' \subseteq Atom!Changes
  <2>1. "cache" \in Atom!Changes BY AtomScopes
  <2>2. iteration' \in 0 .. AtomIterations
    BY <1>1, <1>4, AtomConstants
  <2>3. QED BY <1>1, <1>4, <2>1, <2>2 DEF Atom!Decodes, Atom!Clears
<1>7. Atom!TypeOK'
  BY <1>1, <1>2, <1>5, <1>6 DEF Atom!TypeOK
<1>8. HeldByScopes'
  <2>1. "cache" \in Opened(open) BY <1>2 DEF Opened
  <2>2. error' = 0 => held' \subseteq Opened(open')
    BY <1>1, <1>2, <1>4, <1>5, <2>1 DEF HeldByScopes
  <2>3. phase' \in {"jvp", "vjp"} => "cache" \notin held' BY <1>4
  <2>4. QED BY <1>2, <1>4, <2>2, <2>3 DEF HeldByScopes
<1>9. CallbacksCounted'
  <2>1. Raises => error' # 0
    BY <1>1, AtomConstants DEF Raises, Atom!TypeOK
  <2>2. QED BY <1>1, <1>3, <1>4, <2>1 DEF CallbacksCounted
<1>10. QED BY <1>5, <1>7, <1>8, <1>9 DEF AtomInv

(* Leaving the scopes.                                                      *)
LEMMA LeavingSteps ==
  ASSUME AtomInv, Atom!AtomRefused \/ Atom!LeaveScope \/ Atom!LeaveDevice \/ Atom!Finish
  PROVE  AtomInv'
<1>1. /\ Atom!TypeOK /\ HeldByScopes /\ ErrorsKept /\ CallbacksCounted
      /\ held \subseteq Atom!Changes /\ open \in 0 .. 5
  BY AtomScopes DEF AtomInv, Atom!TypeOK
<1>2. /\ phase = "leave" /\ phase' \in {"leave", "done"} /\ UNCHANGED <<iteration, cut>>
      /\ phase' = "done" => open = 0 /\ open' = 0
      /\ held' \subseteq held /\ open' \in {open, open - 1} /\ open' \in 0 .. 5
      /\ Quiet \/ (Raises /\ error = 0) \/ Notes
      /\ Quiet /\ open' # open =>
           IF open = 2 THEN held' = held \ {"cache", "device"}
           ELSE held' = held \ {Atom!Scopes[open]} /\ open \in {1, 3, 4, 5}
  <2>1. CASE Atom!AtomRefused
    BY <1>1, <2>1, AtomScopes
    DEF Atom!AtomRefused, Atom!Raise, Atom!MayFail, Raises
  <2>2. CASE Atom!LeaveScope
    <3>1. open \in {1, 3, 4, 5}
      BY <1>1, <2>2, AtomScopes DEF Atom!LeaveScope
    <3>2. Notes => ~Quiet
      BY <1>1, AtomConstants DEF Notes, Quiet, Atom!TypeOK
    <3>3. QED
      BY <2>2, <3>1, <3>2
      DEF Atom!LeaveScope, Atom!NoFault, Quiet, Atom!NoteOrRaise, Atom!MayFail, Notes
  <2>3. CASE Atom!LeaveDevice
    <3>1. Notes => ~Quiet
      BY <1>1, AtomConstants DEF Notes, Quiet, Atom!TypeOK
    <3>2. QED
      BY <2>3, <3>1
      DEF Atom!LeaveDevice, Atom!NoFault, Quiet, Atom!NoteOrRaise, Atom!MayFail, Notes
  <2>4. CASE Atom!Finish
    BY <1>1, <2>4 DEF Atom!Finish, Quiet
  <2>5. QED BY <2>1, <2>2, <2>3, <2>4
<1>3. /\ ErrorsKept' /\ atomFaults' \in 0 .. AtomFaults /\ error' \in 0 .. AtomFaults
      /\ notes' \subseteq 1 .. AtomFaults /\ (error' = 0 => error = 0)
      /\ (~Quiet => error' # 0)
  <2>1. open' \in Nat /\ (cut => open' <= open) BY <1>1, <1>2
  <2>2. QED BY <1>2, <2>1, ErrorSteps
<1>4. Atom!TypeOK'
  BY <1>1, <1>2, <1>3, AtomScopes DEF Atom!TypeOK
<1>5. error' = 0 => held' \subseteq Opened(open')
  <2> SUFFICES ASSUME error' = 0, open' # open PROVE held' \subseteq Opened(open')
    BY <1>1, <1>2, <1>3 DEF HeldByScopes
  <2>1. Quiet /\ held \subseteq Opened(open) /\ open' = open - 1
    BY <1>1, <1>2, <1>3 DEF HeldByScopes
  <2>2. open \in {1, 2, 3, 4, 5} /\ open' = open - 1
        /\ held' = (IF open = 2 THEN held \ {"cache", "device"} ELSE held \ {Atom!Scopes[open]})
    BY <1>2, <2>1
  <2>3. CASE open = 1
    <3>1. open' = 0 /\ held' = held \ {"hooks"} BY <2>2, <2>3, AtomScopes
    <3>2. QED BY <2>1, <2>3, <3>1, OpenedAt
  <2>4. CASE open = 2
    <3>1. open' = 1 /\ held' = held \ {"cache", "device"} BY <2>2, <2>4
    <3>2. QED BY <2>1, <2>4, <3>1, OpenedAt
  <2>5. CASE open = 3
    <3>1. open' = 2 /\ held' = held \ {"frozen"} BY <2>2, <2>5, AtomScopes
    <3>2. QED BY <2>1, <2>5, <3>1, OpenedAt
  <2>6. CASE open = 4
    <3>1. open' = 3 /\ held' = held \ {"untiled"} BY <2>2, <2>6, AtomScopes
    <3>2. QED BY <2>1, <2>6, <3>1, OpenedAt
  <2>7. CASE open = 5
    <3>1. open' = 4 /\ held' = held \ {"sdpa"} BY <2>2, <2>7, AtomScopes
    <3>2. QED BY <2>1, <2>7, <3>1, OpenedAt
  <2>8. QED BY <2>2, <2>3, <2>4, <2>5, <2>6, <2>7
<1>6. HeldByScopes'
  BY <1>2, <1>5 DEF HeldByScopes, Atom!Decodes, Atom!Clears
<1>7. CallbacksCounted'
  BY <1>1, <1>2, <1>3 DEF CallbacksCounted
<1>8. QED BY <1>3, <1>4, <1>6, <1>7 DEF AtomInv

(* The interrupt that replaces the error.                                   *)
LEMMA InterruptSteps == ASSUME AtomInv, Atom!InterruptDevice PROVE AtomInv'
<1>1. /\ Atom!TypeOK /\ HeldByScopes /\ ErrorsKept /\ CallbacksCounted
      /\ held \subseteq Atom!Changes /\ atomFaults \in 0 .. AtomFaults /\ AtomFaults \in Nat
  BY AtomConstants DEF AtomInv, Atom!TypeOK
<1>2. /\ phase = "leave" /\ phase' = "leave" /\ iteration' = iteration /\ cut' = TRUE
      /\ open' = 1 /\ held' \subseteq held
      /\ atomFaults < AtomFaults /\ atomFaults' = atomFaults + 1
      /\ error' = atomFaults + 1 /\ notes' = notes
  BY DEF Atom!InterruptDevice, Atom!Raise, Atom!MayFail
<1>3. atomFaults' \in 1 .. AtomFaults /\ error' \in 1 .. AtomFaults
  BY <1>1, <1>2
<1>4. Atom!TypeOK' BY <1>1, <1>2, <1>3, AtomScopes DEF Atom!TypeOK
<1>5. HeldByScopes' BY <1>2, <1>3 DEF HeldByScopes, Atom!Decodes, Atom!Clears
<1>6. ErrorsKept' BY <1>2, <1>3 DEF ErrorsKept
<1>7. CallbacksCounted' BY <1>2, <1>3 DEF CallbacksCounted
<1>8. QED BY <1>4, <1>5, <1>6, <1>7 DEF AtomInv

LEMMA NextAtomInv == AtomInv /\ [Atom!Next]_(Atom!vars) => AtomInv'
<1> SUFFICES ASSUME AtomInv, [Atom!Next]_(Atom!vars) PROVE AtomInv'
  OBVIOUS
<1>1. CASE UNCHANGED Atom!vars
  BY <1>1
  DEF Atom!vars, AtomInv, Atom!TypeOK, HeldByScopes, ErrorsKept, CallbacksCounted
<1>2. QED
  BY <1>1, EnteringSteps, CallbackSteps, LeavingSteps, InterruptSteps
  DEF Atom!Next, Atom!Done

LEMMA AtomIsAsPromised ==
  ASSUME AtomInv
  PROVE  /\ Atom!TypeOK /\ Atom!ReturnedIsRestored /\ Atom!FirstErrorIsSeen
         /\ Atom!NothingIsLost /\ Atom!DecodesStartClean /\ Atom!ReturnedIsComplete
<1>1. /\ Atom!TypeOK /\ HeldByScopes /\ ErrorsKept /\ CallbacksCounted
      /\ atomFaults \in 0 .. AtomFaults /\ error \in Nat
  BY AtomConstants DEF AtomInv, Atom!TypeOK
<1>2. Opened(0) = {} BY DEF Opened
<1>3. Atom!ReturnedIsRestored
  BY <1>1, <1>2 DEF Atom!ReturnedIsRestored, HeldByScopes
<1>4. Atom!FirstErrorIsSeen /\ Atom!NothingIsLost
  <2>1. ASSUME ~cut PROVE 1 .. atomFaults = notes \union ({error} \ {0})
    <3>1. CASE atomFaults = 0 BY <1>1, <2>1, <3>1 DEF ErrorsKept
    <3>2. CASE atomFaults # 0
      <4>1. error = 1 /\ notes = 2 .. atomFaults /\ atomFaults >= 1 /\ atomFaults \in Nat
        BY <1>1, <2>1, <3>2, AtomConstants DEF ErrorsKept
      <4>2. 1 .. atomFaults = (2 .. atomFaults) \union {1} BY <4>1
      <4>3. QED BY <4>1, <4>2
    <3>3. QED BY <3>1, <3>2
  <2>2. QED
    BY <1>1, <2>1 DEF Atom!FirstErrorIsSeen, Atom!NothingIsLost, ErrorsKept
<1>5. Atom!DecodesStartClean /\ Atom!ReturnedIsComplete
  BY <1>1
  DEF Atom!DecodesStartClean, Atom!ReturnedIsComplete, Atom!Decodes, HeldByScopes,
      CallbacksCounted
<1>6. QED BY <1>1, <1>3, <1>4, <1>5

(* The hooks leave what is held only with the outermost scope, where nothing *)
(* else is held unless something has failed.                                *)
LEMMA HooksGoLast ==
  ASSUME AtomInv, [Atom!Next]_(Atom!vars), "hooks" \in held, "hooks" \notin held',
         "device" \in held
  PROVE  error # 0
<1> SUFFICES ASSUME error = 0 PROVE FALSE
  OBVIOUS
<1>1. HeldByScopes /\ open \in 0 .. 5 BY AtomScopes DEF AtomInv, Atom!TypeOK
<1>2. Atom!LeaveScope
  BY DEF Atom!Next, Atom!Done, Atom!vars, Atom!EnterInOrder, Atom!Enter,
     Atom!EnterFailsInOrder, Atom!EnterFails, Atom!ToDevice, Atom!StartCallback,
     Atom!Decode, Atom!Clear, Atom!CandidateRefused, Atom!AtomRefused, Atom!LeaveDevice,
     Atom!InterruptDevice, Atom!Finish
<1>3. open \in {1, 3, 4, 5} /\ (held' = held \/ held' = held \ {Atom!Scopes[open]})
  BY <1>1, <1>2, AtomScopes DEF Atom!LeaveScope
<1>4. open = 1 BY <1>3, AtomScopes
<1>5. "device" \notin Opened(1) BY DEF Opened
<1>6. QED BY <1>1, <1>4, <1>5 DEF HeldByScopes

LEMMA AtomProjects == [SomeStep]_allVars => [Atom!Next]_(Atom!vars)
<1> SUFFICES ASSUME [SomeStep]_allVars PROVE [Atom!Next]_(Atom!vars)
  OBVIOUS
<1> USE DEF atomVars, Atom!vars
<1>1. CASE AtomStep BY <1>1 DEF AtomStep
<1>2. CASE Rest /\ program # "atom"
  BY <1>2 DEF Rest
<1>3. CASE UNCHANGED allVars BY <1>3 DEF allVars
<1>4. QED
  BY <1>1, <1>2, <1>3
  DEF SomeStep, ProbeStep, RuntimeStep, PreflightStep, PromotionStep, ScoringStep,
      SetupStep, FramesStep, ServerStep, OfficialReferenceStep, CommandsStep,
      ProvenanceStep

(* For every number of iterations and of faults: an atom that is returned is *)
(* complete and has left the pipeline as it was, no clean-up covers up why   *)
(* it failed, and every decode starts with an empty causal cache.            *)
THEOREM AtomStaysSafe == AllSpec => []AtomIsSafe
<1>1. Start => AtomInv BY AtomStarts DEF Start
<1>2. AtomInv /\ [SomeStep]_allVars => AtomInv'
  BY AtomProjects, NextAtomInv
<1>3. AtomInv => AtomIsSafe
  BY AtomIsAsPromised DEF AtomIsSafe
<1>4. QED BY <1>1, <1>2, <1>3, PTL DEF AllSpec

(* The offload hooks are given back to the pipeline only after the VAE left  *)
(* the device, unless the construction is failing.                           *)
THEOREM AtomHooksComeLast == AllSpec => Atom!HooksComeLast
<1>1. Start => AtomInv BY AtomStarts DEF Start
<1>2. AtomInv /\ [SomeStep]_allVars => AtomInv'
  BY AtomProjects, NextAtomInv
<1> DEFINE Last == "hooks" \in held /\ "hooks" \notin held' /\ "device" \in held
                     => error # 0
<1>3. AtomInv /\ [SomeStep]_allVars => [Last]_(Atom!vars)
  BY AtomProjects, HooksGoLast
<1>4. QED BY <1>1, <1>2, <1>3, PTL DEF AllSpec, Atom!HooksComeLast

-----------------------------------------------------------------------------
(* The formal comparison.                                                   *)

LEMMA ScoringConstants ==
  /\ ScoringRounds \in Nat
  /\ "formal" \in ScoringKinds
  /\ ScoringKinds \subseteq {"formal", "foreign", "oneSided", "unproven", "unattacked"}
  /\ Len(ScoringRoots) \in Nat /\ DOMAIN ScoringRoots = 1 .. Len(ScoringRoots)
BY InstancesAssumption DEF Scoring!OfficialScoringAssumption

(* A payload of the unit whose evidence directory it is in.                 *)
OwnPayloads(u) == [unit : {u}, round : Scoring!Rounds, kind : ScoringKinds]

ScoreRecords(u) == {Scoring!NoRecord, Scoring!Unsupported}
                   \union {Scoring!Measured(from, payload) :
                             from \in {"bundle", "command"}, payload \in OwnPayloads(u)}

ScoringTypes ==
  /\ round \in Scoring!Rounds /\ command \in {"none", "direct", "bridge"}
  /\ scoringPc \in {"idle", "units", "official", "bridge", "read"}
  /\ scoringTodo \subseteq ScoringUnits /\ unit \in ScoringUnits
  /\ orphans \subseteq [unit : ScoringUnits, round : Scoring!Rounds]

(* What a unit's files hold is its own, whoever wrote it.                   *)
FilesAreOwn ==
  /\ DOMAIN output = ScoringUnits /\ DOMAIN raw = ScoringUnits
  /\ output = [u \in ScoringUnits |-> output[u]]
  /\ raw = [u \in ScoringUnits |-> raw[u]]
  /\ \A u \in ScoringUnits :
       /\ output[u] \in OwnPayloads(u) \union {Scoring!NoFile}
       /\ raw[u] \in OwnPayloads(u) \union {Scoring!NoFile}
  /\ \A r \in DOMAIN ScoringRoots, u \in ScoringUnits :
       scoringBundle[r][u] \in Scoring!Bundles(u)

(* A unit has its verdict once it is no longer to be done, and a measured   *)
(* one is backed by the evidence file.                                      *)
RecordsStand ==
  /\ DOMAIN records = ScoringUnits /\ records = [u \in ScoringUnits |-> records[u]]
  /\ \A u \in ScoringUnits :
       /\ u \in scoringTodo => records[u] = Scoring!NoRecord
       /\ u \notin scoringTodo =>
            \/ records[u] = Scoring!Unsupported
            \/ scoringPc = "idle" /\ round = 0 /\ records[u] = Scoring!NoRecord
            \/ \E from \in {"bundle", "command"} :
                 /\ records[u] = Scoring!Measured(from, output[u])
                 /\ output[u] \in OwnPayloads(u) /\ output[u].kind = "formal"

UnitsLeft ==
  /\ scoringPc = "idle" => scoringTodo = {}
  /\ scoringPc \in {"official", "bridge", "read"} => unit \in scoringTodo

ScoringInv == ScoringTypes /\ FilesAreOwn /\ RecordsStand /\ UnitsLeft

LEMMA BundlesAreOwn ==
  ASSUME NEW u \in ScoringUnits
  PROVE  Scoring!Bundles(u) \subseteq OwnPayloads(u) \union {Scoring!NoFile}
BY ScoringConstants DEF Scoring!Bundles, OwnPayloads, Scoring!Rounds

(* A set of natural numbers has a least element. *)
LEMMA LeastNatural ==
  ASSUME NEW T \in SUBSET Nat, T # {}
  PROVE  \E x \in T : \A y \in T : x <= y
<1> DEFINE R == OpToRel(<, Nat)
<1>1. IsWellFoundedOn(R, Nat)
  BY NatLessThanWellFounded
<1>2. PICK x \in T : \A y \in T : ~ (<<y, x>> \in R)
  <2> HIDE DEF R
  <2> QED BY <1>1, WFMin
<1>3. ASSUME NEW y \in T PROVE x <= y
  <2>1. ~ (y < x)
    BY <1>2 DEF OpToRel
  <2>2. QED BY <2>1
<1>4. QED BY <1>3

(* The reader finds the first root's bundle of the unit.                    *)
LEMMA FoundIsOwn ==
  ASSUME FilesAreOwn, NEW u \in ScoringUnits
  PROVE  Scoring!Found(u) \in OwnPayloads(u) \union {Scoring!NoFile}
<1> DEFINE having == {r \in DOMAIN ScoringRoots : scoringBundle[r][u] # Scoring!NoFile}
<1>1. CASE having = {}
  BY <1>1 DEF Scoring!Found
<1>2. CASE having # {}
  <2>1. \E r \in having : \A s \in having : r <= s
    <3>1. having \in SUBSET Nat /\ having # {} BY <1>2, ScoringConstants
    <3> HIDE DEF having
    <3>2. QED BY <3>1, LeastNatural
  <2> DEFINE first == CHOOSE r \in having : \A s \in having : r <= s
  <2>2. first \in having BY <2>1
  <2>3. Scoring!Found(u) = scoringBundle[first][u] BY <1>2 DEF Scoring!Found
  <2>4. first \in DOMAIN ScoringRoots BY <2>2
  <2> HIDE DEF first, having
  <2>5. scoringBundle[first][u] \in Scoring!Bundles(u) BY <2>4 DEF FilesAreOwn
  <2>6. QED BY <2>3, <2>5, BundlesAreOwn
<1>3. QED BY <1>1, <1>2

(* A verdict is given to a unit that was to be done.                        *)
LEMMA VerdictGiven ==
  ASSUME ScoringInv, NEW u \in scoringTodo, NEW record, Scoring!Record(u, record),
         UNCHANGED <<round, unit>>,
         \A v \in ScoringUnits : v # u => output'[v] = output[v],
         \/ record = Scoring!Unsupported
         \/ \E from \in {"bundle", "command"} :
              /\ record = Scoring!Measured(from, output'[u])
              /\ output'[u] \in OwnPayloads(u) /\ output'[u].kind = "formal"
  PROVE  RecordsStand' /\ UnitsLeft' /\ scoringPc' = "units" /\ scoringTodo' \subseteq ScoringUnits
<1>1. /\ RecordsStand /\ UnitsLeft /\ u \in ScoringUnits /\ scoringTodo \subseteq ScoringUnits
  BY DEF ScoringInv, ScoringTypes
<1>2. /\ records' = [records EXCEPT ![u] = record] /\ scoringTodo' = scoringTodo \ {u}
      /\ scoringPc' = "units"
  BY DEF Scoring!Record
<1>3. /\ DOMAIN records' = ScoringUnits /\ records'[u] = record
      /\ records' = [v \in ScoringUnits |-> records'[v]]
      /\ \A v \in ScoringUnits : v # u => records'[v] = records[v]
  BY <1>1, <1>2 DEF RecordsStand
<1>4. scoringPc # "idle" BY <1>1 DEF UnitsLeft
<1>5. RecordsStand'
  BY <1>1, <1>2, <1>3, <1>4 DEF RecordsStand
<1>6. QED BY <1>1, <1>2, <1>5 DEF UnitsLeft

LEMMA ScoreIsJust ==
  ASSUME NEW u \in ScoringUnits, NEW from \in {"bundle", "command"},
         NEW payload \in OwnPayloads(u)
  PROVE  \/ Scoring!Score(from, payload) = Scoring!Unsupported
         \/ /\ Scoring!Score(from, payload) = Scoring!Measured(from, payload)
            /\ payload.kind = "formal"
<1>1. payload.kind \in ScoringKinds BY DEF OwnPayloads
<1>2. QED
  BY <1>1, ScoringConstants
  DEF Scoring!Score, Scoring!AdapterRefuses, Scoring!ReaderRefuses, Scoring!BridgeRefuses

LEMMA ScoringStarts == Scoring!Init => ScoringInv
<1> SUFFICES ASSUME Scoring!Init PROVE ScoringInv
  OBVIOUS
<1> USE DEF Scoring!Init
<1>1. ScoringTypes BY ScoringConstants DEF ScoringTypes, Scoring!Rounds
<1>2. FilesAreOwn BY DEF FilesAreOwn
<1>3. RecordsStand BY DEF RecordsStand
<1>4. UnitsLeft BY DEF UnitsLeft
<1>5. QED BY <1>1, <1>2, <1>3, <1>4 DEF ScoringInv

(* An action that touches neither the files of a unit nor its record.       *)
LEMMA UnitsUntouched ==
  ASSUME ScoringInv, UNCHANGED <<scoringTodo, scoringBundle, records, round>>,
         \A u \in ScoringUnits \ scoringTodo : output'[u] = output[u],
         scoringPc' = "idle" => scoringPc = "idle" \/ scoringTodo = {},
         scoringPc = "idle" => scoringPc' = "idle"
  PROVE  RecordsStand'
BY DEF ScoringInv, RecordsStand

(* The comparison begins and ends.                                          *)
LEMMA RoundSteps ==
  ASSUME ScoringInv,
         \/ \E own \in {"none", "direct"} : Scoring!Configure(own)
         \/ Scoring!Begin \/ Scoring!End \/ UNCHANGED Scoring!vars
  PROVE  ScoringInv'
<1>1. ScoringTypes /\ FilesAreOwn /\ RecordsStand /\ UnitsLeft BY DEF ScoringInv
<1>2. CASE \E own \in {"none", "direct"} : Scoring!Configure(own)
  <2>1. /\ command' \in {"bridge", "direct"}
        /\ UNCHANGED <<round, scoringPc, scoringTodo, unit, scoringBundle, output, raw,
                       orphans, records>>
    BY <1>2 DEF Scoring!Configure
  <2>2. QED
    BY <1>1, <2>1 DEF ScoringInv, ScoringTypes, FilesAreOwn, RecordsStand, UnitsLeft
<1>3. CASE Scoring!Begin
  <2>1. /\ scoringPc = "idle" /\ round' = round + 1 /\ round < ScoringRounds
        /\ UNCHANGED <<command, unit, scoringBundle, output, raw, orphans>>
        /\ \/ /\ records' = [u \in ScoringUnits |-> Scoring!Unsupported]
              /\ scoringPc' = scoringPc /\ scoringTodo' = scoringTodo
           \/ /\ records' = [u \in ScoringUnits |-> Scoring!NoRecord]
              /\ scoringPc' = "units" /\ scoringTodo' = ScoringUnits
    BY <1>3 DEF Scoring!Begin
  <2>2. round' \in Scoring!Rounds
    BY <1>1, <2>1, ScoringConstants DEF ScoringTypes, Scoring!Rounds
  <2>3. scoringTodo = {} BY <1>1, <2>1 DEF UnitsLeft
  <2>4. ScoringTypes' BY <1>1, <2>1, <2>2 DEF ScoringTypes
  <2>5. FilesAreOwn' BY <1>1, <2>1 DEF FilesAreOwn
  <2>6. RecordsStand' BY <2>1, <2>3 DEF RecordsStand
  <2>7. UnitsLeft' BY <2>1, <2>3 DEF UnitsLeft
  <2>8. QED BY <2>4, <2>5, <2>6, <2>7 DEF ScoringInv
<1>4. CASE Scoring!End
  <2>1. /\ scoringPc = "units" /\ scoringTodo = {} /\ scoringPc' = "idle"
        /\ UNCHANGED <<round, command, scoringTodo, unit, scoringBundle, output, raw,
                       orphans, records>>
    BY <1>4 DEF Scoring!End, Scoring!Stays
  <2>2. RecordsStand' BY <2>1, UnitsUntouched
  <2>3. QED BY <1>1, <2>1, <2>2 DEF ScoringInv, ScoringTypes, FilesAreOwn, UnitsLeft
<1>5. CASE UNCHANGED Scoring!vars
  BY <1>1, <1>5
  DEF Scoring!vars, ScoringInv, ScoringTypes, FilesAreOwn, RecordsStand, UnitsLeft
<1>6. QED BY <1>2, <1>3, <1>4, <1>5

(* A bundle is read, a unit is given up, or its command is started.         *)
LEMMA UnitSteps ==
  ASSUME ScoringInv, NEW u \in ScoringUnits,
         Scoring!ReadBundle(u) \/ Scoring!CannotStart(u) \/ Scoring!StartCommand(u)
  PROVE  ScoringInv'
<1>1. ScoringTypes /\ FilesAreOwn /\ RecordsStand /\ UnitsLeft BY DEF ScoringInv
<1>2. CASE Scoring!ReadBundle(u) /\ Scoring!Found(u).kind \notin Scoring!ReaderRefuses
  <2> DEFINE found == Scoring!Found(u)
  <2>1. /\ u \in scoringTodo /\ output' = [output EXCEPT ![u] = found]
        /\ Scoring!Record(u, Scoring!Score("bundle", found))
        /\ UNCHANGED <<round, command, unit, scoringBundle, raw, orphans>>
        /\ found # Scoring!NoFile
    BY <1>2 DEF Scoring!ReadBundle, Scoring!EvidenceOf
  <2>2. found \in OwnPayloads(u) BY <1>1, <2>1, FoundIsOwn
  <2> HIDE DEF found
  <2>3. /\ DOMAIN output' = ScoringUnits /\ output'[u] = found
        /\ output' = [v \in ScoringUnits |-> output'[v]]
        /\ \A v \in ScoringUnits : v # u => output'[v] = output[v]
    BY <1>1, <2>1 DEF FilesAreOwn
  <2>4. FilesAreOwn'
    BY <1>1, <2>1, <2>2, <2>3 DEF FilesAreOwn
  <2>5. \/ Scoring!Score("bundle", found) = Scoring!Unsupported
        \/ /\ Scoring!Score("bundle", found) = Scoring!Measured("bundle", found)
           /\ found.kind = "formal"
    BY <2>2, ScoreIsJust
  <2>6. RecordsStand' /\ UnitsLeft' /\ scoringPc' = "units" /\ scoringTodo' \subseteq ScoringUnits
    <3> DEFINE record == Scoring!Score("bundle", found)
    <3>1. \/ record = Scoring!Unsupported
          \/ \E from \in {"bundle", "command"} :
               /\ record = Scoring!Measured(from, output'[u])
               /\ output'[u] \in OwnPayloads(u) /\ output'[u].kind = "formal"
      BY <2>2, <2>3, <2>5
    <3>2. Scoring!Record(u, record) BY <2>1
    <3> HIDE DEF record
    <3>3. QED BY <2>1, <2>3, <3>1, <3>2, VerdictGiven
  <2>7. ScoringTypes' BY <1>1, <2>1, <2>6 DEF ScoringTypes
  <2>8. QED BY <2>4, <2>6, <2>7 DEF ScoringInv
<1>3. CASE \/ Scoring!CannotStart(u)
           \/ Scoring!ReadBundle(u) /\ Scoring!Found(u).kind \in Scoring!ReaderRefuses
  <2>1. /\ u \in scoringTodo /\ Scoring!Record(u, Scoring!Unsupported)
        /\ UNCHANGED <<round, command, unit, scoringBundle, output, raw, orphans>>
    BY <1>3 DEF Scoring!ReadBundle, Scoring!CannotStart
  <2>2. RecordsStand' /\ UnitsLeft' /\ scoringPc' = "units" /\ scoringTodo' \subseteq ScoringUnits
    BY <2>1, VerdictGiven
  <2>3. QED BY <1>1, <2>1, <2>2 DEF ScoringInv, ScoringTypes, FilesAreOwn
<1>4. CASE Scoring!StartCommand(u)
  <2>1. /\ u \in scoringTodo /\ unit' = u /\ scoringPc = "units" /\ scoringPc' = "official"
        /\ UNCHANGED <<round, command, scoringTodo, scoringBundle, output, raw, orphans,
                       records>>
    BY <1>4 DEF Scoring!StartCommand
  <2>2. RecordsStand' BY <2>1, UnitsUntouched
  <2>3. QED BY <1>1, <2>1, <2>2 DEF ScoringInv, ScoringTypes, FilesAreOwn, UnitsLeft
<1>5. QED BY <1>2, <1>3, <1>4

(* A payload is written to the evidence directory of its own unit.          *)
LEMMA OwnFileWritten ==
  ASSUME FilesAreOwn, NEW u \in ScoringUnits, NEW file \in OwnPayloads(u),
         scoringBundle' = scoringBundle,
         \/ output' = [output EXCEPT ![u] = file] /\ raw' = raw
         \/ raw' = [raw EXCEPT ![u] = file] /\ output' = output
  PROVE  FilesAreOwn' /\ \A v \in ScoringUnits : v # u => output'[v] = output[v]
<1>1. CASE output' = [output EXCEPT ![u] = file] /\ raw' = raw
  <2>1. /\ DOMAIN output' = ScoringUnits /\ output'[u] = file
        /\ output' = [v \in ScoringUnits |-> output'[v]]
        /\ \A v \in ScoringUnits : v # u => output'[v] = output[v]
    BY <1>1 DEF FilesAreOwn
  <2>2. QED BY <1>1, <2>1 DEF FilesAreOwn
<1>2. CASE raw' = [raw EXCEPT ![u] = file] /\ output' = output
  <2>1. /\ DOMAIN raw' = ScoringUnits /\ raw'[u] = file
        /\ raw' = [v \in ScoringUnits |-> raw'[v]]
        /\ \A v \in ScoringUnits : v # u => raw'[v] = raw[v]
    BY <1>2 DEF FilesAreOwn
  <2>2. QED BY <1>2, <2>1 DEF FilesAreOwn
<1>3. QED BY <1>1, <1>2

(* What an official command writes, and how it ends.                        *)
LEMMA OfficialSteps ==
  ASSUME ScoringInv,
         \/ \E k \in ScoringKinds : Scoring!OfficialWrites(k)
         \/ Scoring!OfficialEnds \/ Scoring!OfficialFails
         \/ \E o \in orphans, k \in ScoringKinds : Scoring!OrphanEnds(o, k)
  PROVE  ScoringInv'
<1>1. ScoringTypes /\ FilesAreOwn /\ RecordsStand /\ UnitsLeft BY DEF ScoringInv
<1>2. CASE \E k \in ScoringKinds : Scoring!OfficialWrites(k)
  <2>1. PICK k \in ScoringKinds : Scoring!OfficialWrites(k) BY <1>2
  <2> DEFINE own == [unit |-> unit, round |-> round, kind |-> k]
  <2>2. /\ scoringPc = "official"
        /\ UNCHANGED <<round, command, scoringPc, scoringTodo, unit, scoringBundle, orphans,
                       records>>
        /\ \/ output' = [output EXCEPT ![unit] = own] /\ raw' = raw
           \/ raw' = [raw EXCEPT ![unit] = own] /\ output' = output
    BY <2>1 DEF Scoring!OfficialWrites, Scoring!EvidenceOf
  <2>3. own \in OwnPayloads(unit) /\ unit \in ScoringUnits
    BY <1>1 DEF ScoringTypes, OwnPayloads
  <2> HIDE DEF own
  <2>4. FilesAreOwn' /\ \A v \in ScoringUnits : v # unit => output'[v] = output[v]
    BY <1>1, <2>2, <2>3, OwnFileWritten
  <2>5. unit \in scoringTodo BY <1>1, <2>2 DEF UnitsLeft
  <2>6. RecordsStand' BY <2>2, <2>4, <2>5, UnitsUntouched
  <2>7. ScoringTypes' /\ UnitsLeft' BY <1>1, <2>2 DEF ScoringTypes, UnitsLeft
  <2>8. QED BY <2>4, <2>6, <2>7 DEF ScoringInv
<1>3. CASE Scoring!OfficialEnds
  <2>1. /\ scoringPc = "official" /\ scoringPc' \in {"read", "bridge"}
        /\ UNCHANGED <<round, command, scoringTodo, unit, scoringBundle, output, raw,
                       orphans, records>>
    BY <1>3 DEF Scoring!OfficialEnds
  <2>2. RecordsStand' BY <2>1, UnitsUntouched
  <2>3. QED BY <1>1, <2>1, <2>2 DEF ScoringInv, ScoringTypes, FilesAreOwn, UnitsLeft
<1>4. CASE Scoring!OfficialFails
  <2>1. /\ unit \in scoringTodo /\ Scoring!Record(unit, Scoring!Unsupported)
        /\ UNCHANGED <<round, command, unit, scoringBundle, output, raw, orphans>>
    BY <1>1, <1>4 DEF Scoring!OfficialFails, Scoring!Stays, UnitsLeft
  <2>2. RecordsStand' /\ UnitsLeft' /\ scoringPc' = "units" /\ scoringTodo' \subseteq ScoringUnits
    BY <2>1, VerdictGiven
  <2>3. QED BY <1>1, <2>1, <2>2 DEF ScoringInv, ScoringTypes, FilesAreOwn
<1>5. CASE \E o \in orphans, k \in ScoringKinds : Scoring!OrphanEnds(o, k)
  <2>1. PICK o \in orphans, k \in ScoringKinds : Scoring!OrphanEnds(o, k) BY <1>5
  <2> DEFINE own == [unit |-> o.unit, round |-> o.round, kind |-> k]
  <2>2. /\ raw' = [raw EXCEPT ![o.unit] = own] /\ orphans' = orphans \ {o}
        /\ UNCHANGED <<round, command, scoringPc, scoringTodo, unit, scoringBundle, output,
                       records>>
    BY <2>1 DEF Scoring!OrphanEnds, Scoring!EvidenceOf
  <2>3. o.unit \in ScoringUnits /\ own \in OwnPayloads(o.unit)
    BY <1>1 DEF ScoringTypes, OwnPayloads
  <2> HIDE DEF own
  <2>4. FilesAreOwn' BY <1>1, <2>2, <2>3, OwnFileWritten
  <2>5. RecordsStand' BY <2>2, UnitsUntouched
  <2>6. ScoringTypes' /\ UnitsLeft' BY <1>1, <2>2 DEF ScoringTypes, UnitsLeft
  <2>7. QED BY <2>4, <2>5, <2>6 DEF ScoringInv
<1>6. QED BY <1>2, <1>3, <1>4, <1>5

(* The bridge, the reading of its output, and the deadlines.                *)
LEMMA CommandSteps ==
  ASSUME ScoringInv, Scoring!BridgeNormalises \/ Scoring!ReadOutput \/ Scoring!TimesOut
  PROVE  ScoringInv'
<1>1. ScoringTypes /\ FilesAreOwn /\ RecordsStand /\ UnitsLeft BY DEF ScoringInv
<1>2. unit \in scoringTodo /\ unit \in ScoringUnits
  BY <1>1
  DEF Scoring!BridgeNormalises, Scoring!ReadOutput, Scoring!TimesOut, UnitsLeft,
      ScoringTypes
<1>3. CASE Scoring!BridgeNormalises /\ Scoring!BridgeAccepts
  <2>1. /\ output' = [output EXCEPT ![unit] = raw[unit]] /\ scoringPc = "bridge"
        /\ scoringPc' = "read"
        /\ UNCHANGED <<round, command, scoringTodo, unit, scoringBundle, raw, orphans,
                       records>>
        /\ raw[unit] # Scoring!NoFile
    BY <1>3 DEF Scoring!BridgeNormalises, Scoring!BridgeAccepts, Scoring!EvidenceOf
  <2>2. raw[unit] \in OwnPayloads(unit) BY <1>1, <1>2, <2>1 DEF FilesAreOwn
  <2>3. FilesAreOwn' /\ \A v \in ScoringUnits : v # unit => output'[v] = output[v]
    BY <1>1, <1>2, <2>1, <2>2, OwnFileWritten
  <2>4. RecordsStand' BY <1>2, <2>1, <2>3, UnitsUntouched
  <2>5. ScoringTypes' /\ UnitsLeft' BY <1>1, <1>2, <2>1 DEF ScoringTypes, UnitsLeft
  <2>6. QED BY <2>3, <2>4, <2>5 DEF ScoringInv
<1>4. CASE \/ Scoring!BridgeNormalises /\ ~Scoring!BridgeAccepts
           \/ Scoring!TimesOut \/ Scoring!ReadOutput
  <2>1. /\ UNCHANGED <<round, command, unit, scoringBundle, output, raw>>
        /\ \/ orphans' = orphans
           \/ orphans' = orphans \union {[unit |-> unit, round |-> round]}
    BY <1>4
    DEF Scoring!BridgeNormalises, Scoring!TimesOut, Scoring!ReadOutput, Scoring!Stays
  <2>2. PICK record : /\ Scoring!Record(unit, record)
                      /\ \/ record = Scoring!Unsupported
                         \/ \E from \in {"bundle", "command"} :
                              /\ record = Scoring!Measured(from, output[unit])
                              /\ output[unit] \in OwnPayloads(unit)
                              /\ output[unit].kind = "formal"
    <3>1. CASE Scoring!ReadOutput /\ output[unit] # Scoring!NoFile
      <4>1. output[unit] \in OwnPayloads(unit) BY <1>1, <1>2, <3>1 DEF FilesAreOwn
      <4>2. Scoring!Record(unit, Scoring!Score("command", output[unit]))
        BY <3>1 DEF Scoring!ReadOutput, Scoring!EvidenceOf
      <4>3. QED BY <1>2, <4>1, <4>2, ScoreIsJust
    <3>2. CASE \/ Scoring!BridgeNormalises /\ ~Scoring!BridgeAccepts
               \/ Scoring!TimesOut
               \/ Scoring!ReadOutput /\ output[unit] = Scoring!NoFile
      <4>1. Scoring!Record(unit, Scoring!Unsupported)
        BY <3>2
        DEF Scoring!BridgeNormalises, Scoring!TimesOut, Scoring!ReadOutput,
            Scoring!EvidenceOf
      <4>2. QED BY <4>1
    <3>3. QED BY <1>4, <3>1, <3>2
  <2>3. RecordsStand' /\ UnitsLeft' /\ scoringPc' = "units" /\ scoringTodo' \subseteq ScoringUnits
    BY <1>2, <2>1, <2>2, VerdictGiven
  <2>4. orphans' \subseteq [unit : ScoringUnits, round : Scoring!Rounds]
    <3>1. [unit |-> unit, round |-> round] \in [unit : ScoringUnits, round : Scoring!Rounds]
      BY <1>1 DEF ScoringTypes
    <3>2. QED BY <1>1, <2>1, <3>1 DEF ScoringTypes
  <2>5. ScoringTypes' BY <1>1, <2>1, <2>3, <2>4 DEF ScoringTypes
  <2>6. FilesAreOwn' BY <1>1, <2>1 DEF FilesAreOwn
  <2>7. QED BY <2>3, <2>5, <2>6 DEF ScoringInv
<1>5. QED BY <1>3, <1>4

LEMMA NextScoringInv == ScoringInv /\ [Scoring!Next]_(Scoring!vars) => ScoringInv'
BY RoundSteps, UnitSteps, OfficialSteps, CommandSteps DEF Scoring!Next, Scoring!Adapter

LEMMA ScoringIsAsPromised ==
  ASSUME ScoringInv
  PROVE  /\ Scoring!TypeOK /\ Scoring!MeasuredIsFormal /\ Scoring!EvidenceBacksRecord
         /\ Scoring!EndHasAllRecords
<1>1. ScoringTypes /\ FilesAreOwn /\ RecordsStand /\ UnitsLeft BY DEF ScoringInv
<1>2. ASSUME NEW u \in ScoringUnits, NEW from, NEW payload
      PROVE  /\ Scoring!Measured(from, payload).status = "measured_formal"
             /\ Scoring!Measured(from, payload).payload = payload
             /\ Scoring!Unsupported.status = "unsupported"
             /\ Scoring!NoRecord.status = "none"
  BY DEF Scoring!Measured, Scoring!Unsupported, Scoring!NoRecord
<1>3. \A u \in ScoringUnits : OwnPayloads(u) \subseteq Scoring!Payloads
  BY DEF OwnPayloads, Scoring!Payloads
<1>4. ASSUME NEW u \in ScoringUnits
      PROVE  /\ records[u].status \in {"none", "measured_formal", "unsupported"}
             /\ records[u].status = "none" => scoringPc # "idle" \/ round = 0
             /\ records[u].status = "measured_formal" =>
                  /\ records[u].payload = output[u] /\ output[u] \in OwnPayloads(u)
                  /\ output[u].kind = "formal"
  BY <1>1, <1>2 DEF RecordsStand, UnitsLeft
<1>5. Scoring!TypeOK
  BY <1>1, <1>3, <1>4 DEF Scoring!TypeOK, ScoringTypes, FilesAreOwn, RecordsStand
<1>6. Scoring!MeasuredIsFormal
  BY <1>4 DEF Scoring!MeasuredIsFormal, OwnPayloads
<1>7. Scoring!EvidenceBacksRecord
  BY <1>4 DEF Scoring!EvidenceBacksRecord, Scoring!EvidenceOf
<1>8. Scoring!EndHasAllRecords
  BY <1>1, <1>4, ScoringConstants
  DEF Scoring!EndHasAllRecords, ScoringTypes, Scoring!Rounds
<1>9. QED BY <1>5, <1>6, <1>7, <1>8

LEMMA ScoringProjects == [SomeStep]_allVars => [Scoring!Next]_(Scoring!vars)
<1> SUFFICES ASSUME [SomeStep]_allVars PROVE [Scoring!Next]_(Scoring!vars)
  OBVIOUS
<1> USE DEF scoringVars, Scoring!vars
<1>1. CASE ScoringStep BY <1>1 DEF ScoringStep
<1>2. CASE Rest /\ program # "scoring"
  BY <1>2 DEF Rest
<1>3. CASE UNCHANGED allVars BY <1>3 DEF allVars
<1>4. QED
  BY <1>1, <1>2, <1>3
  DEF SomeStep, ProbeStep, RuntimeStep, PreflightStep, PromotionStep,
      SetupStep, FramesStep, AtomStep, ServerStep, OfficialReferenceStep,
      CommandsStep, ProvenanceStep

(* For every set of units, of bundles and of comparisons: a measured score   *)
(* rests on a formal payload of its own unit that its evidence file still    *)
(* holds, and a comparison that ends has a verdict for every unit.           *)
THEOREM ScoringStaysSafe == AllSpec => []ScoringIsSafe
<1>1. Start => ScoringInv BY ScoringStarts DEF Start
<1>2. ScoringInv /\ [SomeStep]_allVars => ScoringInv'
  BY ScoringProjects, NextScoringInv
<1>3. ScoringInv => ScoringIsSafe
  BY ScoringIsAsPromised DEF ScoringIsSafe
<1>4. QED BY <1>1, <1>2, <1>3, PTL DEF AllSpec
=============================================================================
