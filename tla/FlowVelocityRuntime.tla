-------------------------- MODULE FlowVelocityRuntime --------------------------
(***************************************************************************)
(* The runtime that wraps scheduler.step of a video pipeline while one     *)
(* video is generated: it perturbs the velocity before the scheduler       *)
(* consumes it, keeps cumulative control and reference energies, and puts  *)
(* the original step back on the way out                                   *)
(* (main/methods/state_space_watermark/flow_velocity_runtime.py), with     *)
(* the endpoint controller, the signed and the predictive carrier and the  *)
(* prompt-orthogonal injection it dispatches to.                           *)
(*                                                                         *)
(* Tensors are abstracted to their energies, as integers.  A velocity of   *)
(* reference energy inc (delta_sigma^2 |v|^2) may receive at most          *)
(* NormShare * inc from the norm budget, and the trajectory at most        *)
(* EnergyShare times its reference energy from the flow energy budget.     *)
(***************************************************************************)
EXTENDS Integers

CONSTANTS Carriers,      \* the mechanisms of the runs, see Kinds
          TotalSteps,    \* steps of the generation schedule
          References,    \* reference energies a step's velocity can have
          Strengths,     \* of the runtimes, see strength
          Generations    \* bound: videos generated with one pipeline

Kinds == {"endpoint", "agnostic", "signed", "predictive", "orthogonal",
          "disabled", "terminal"}

ASSUME CarriersAssumption == Carriers \subseteq Kinds
ASSUME StepsAssumption == TotalSteps \in Nat \ {0}
ASSUME ReferencesAssumption == References \subseteq Nat \ {0}
ASSUME StrengthsAssumption == Strengths \subseteq [norm : Nat \ {0}, energy : Nat \ {0}]

VARIABLES
  pc,          \* "outside" or "inside" the context manager
  carrier,     \* the mechanism of this runtime
  strength,    \* its (velocity_norm_ratio_budget * lambda_max)^2 and flow_energy_budget_ratio
  context,     \* a key context was given
  wraps,       \* wrappers around the scheduler's own step
  index,       \* _step_index
  control,     \* _cumulative_control_energy
  reference,   \* _cumulative_reference_energy
  spent,       \* history: control energy the scheduler really consumed
  passed,      \* history: reference energy of the velocities it consumed
  last,        \* history: reference energy of the previous step
  growing,     \* history: that energy has never decreased
  controlled,  \* some record has endpoint control enabled
  guarded,     \* every such record passed its energy guard
  formal,      \* every record has a complete formal context
  outcome,     \* how the generation ended
  generation   \* bound: generations begun

energies == <<control, reference, spent, passed>>
history == <<last, growing>>
summary == <<controlled, guarded, formal>>
vars == <<pc, carrier, strength, context, wraps, index, energies, history, summary,
          outcome, generation>>

NormShare == strength.norm
EnergyShare == strength.energy

Smaller(a, b) == IF a < b THEN a ELSE b

(***************************************************************************)
(* The budget of a step: the cumulative reference plus this velocity taken *)
(* for all the steps left, less what the carrier has spent.                *)
(***************************************************************************)
Budget(inc) == EnergyShare * (reference + inc * (TotalSteps - index))

Remaining(inc) ==
  IF Budget(inc) > control THEN Budget(inc) - control ELSE 0

NormLimit(inc, active) == IF active THEN NormShare * inc ELSE 0

Admissible(inc, active) == Smaller(NormLimit(inc, active), Remaining(inc))

(* What a step adds to the velocity and what it writes to its record:      *)
(*   energy     consumed by the scheduler                                  *)
(*   accounted  the cumulative energies were advanced                      *)
(*   enabled    the record has endpoint control enabled                    *)
(*   guard      endpoint_quality_energy_guard_passed                       *)
(*   formal     carrier_context_complete                                   *)
Effect(energy, accounted, enabled, guard, complete) ==
  [energy |-> energy, accounted |-> accounted, enabled |-> enabled,
   guard |-> guard, formal |-> complete]

NoEffect == Effect(0, FALSE, FALSE, TRUE, FALSE)

(* The endpoint controller: the energy it asks for may be anything, a      *)
(* direction that is almost parallel to the velocity is dropped, and       *)
(* without a key context it falls back on its old heuristic, up to 1.5     *)
(* times the norm budget.                                                  *)
RejectedIsFormal(inc, active) ==  \* mutant: a dropped direction is formal
  IF context
  THEN {Effect(e, TRUE, TRUE, TRUE, TRUE) : e \in 0..Admissible(inc, active)}
         \cup {Effect(0, FALSE, TRUE, FALSE, TRUE)}
  ELSE {Effect(e, FALSE, TRUE, FALSE, FALSE) :
          e \in 0..((9 * NormLimit(inc, active)) \div 4)}

EndpointEffects(inc, active) ==
  IF context
  THEN {Effect(e, TRUE, TRUE, TRUE, TRUE) : e \in 0..Admissible(inc, active)}
         \cup {Effect(0, FALSE, TRUE, FALSE, FALSE)}
  ELSE {Effect(e, FALSE, TRUE, FALSE, FALSE) :
          e \in 0..((9 * NormLimit(inc, active)) \div 4)}

(* Without endpoint awareness the whole norm budget is used, uncounted.    *)
AgnosticEffects(inc, active) ==
  {NoEffect, Effect(NormLimit(inc, active), FALSE, FALSE, TRUE, FALSE)}

(* Signed carrier: the AC increment must be identifiable; when no energy   *)
(* is left the joint delta is zero and its direction guard fails.          *)
SignedEffects(inc, active) ==
  IF ~active THEN {Effect(0, TRUE, TRUE, TRUE, TRUE)}
  ELSE IF Remaining(inc) = 0 THEN {Effect(0, TRUE, TRUE, TRUE, FALSE)}
  ELSE {Effect(e, TRUE, TRUE, TRUE, TRUE) : e \in 1..Admissible(inc, active)}

PredictiveEffects(inc, active) ==
  {Effect(e, TRUE, FALSE, TRUE, TRUE) : e \in 0..Admissible(inc, active)}

(* The finite-precision search keeps some representable delta that is not  *)
(* zero and inside both budgets; when it finds none the guard raises.      *)
Representable(inc) == 1..Admissible(inc, TRUE)

(* Prompt-orthogonal carrier.                                              *)
OrthogonalEffects(inc, active) ==
  IF active
  THEN {Effect(e, TRUE, FALSE, TRUE, TRUE) : e \in Representable(inc)}
  ELSE {Effect(0, TRUE, FALSE, TRUE, TRUE)}

Effects(inc, active) ==
  CASE carrier = "endpoint"   -> EndpointEffects(inc, active)
    [] carrier = "agnostic"   -> AgnosticEffects(inc, active)
    [] carrier = "signed"     -> SignedEffects(inc, active)
    [] carrier = "predictive" -> PredictiveEffects(inc, active)
    [] carrier = "orthogonal" -> OrthogonalEffects(inc, active)
    [] OTHER                  -> {NoEffect}

NeedsContext == {"signed", "predictive", "orthogonal"}

Init ==
  /\ pc = "outside" /\ carrier \in Carriers /\ strength \in Strengths
  /\ context = FALSE /\ wraps = 0
  /\ index = 0
  /\ control = 0 /\ reference = 0 /\ spent = 0 /\ passed = 0
  /\ last = 0 /\ growing = TRUE
  /\ controlled = FALSE /\ guarded = TRUE /\ formal = TRUE
  /\ outcome = "none" /\ generation = 0

(* __enter__ of a new runtime: a carrier without its key context is        *)
(* refused before the scheduler is touched.                                *)
Enter(kind, given, share) ==
  /\ pc = "outside" /\ generation < Generations
  /\ carrier' = kind /\ context' = given /\ strength' = share
  /\ IF kind \in NeedsContext /\ ~given
     THEN /\ outcome' = "refused" /\ UNCHANGED <<pc, wraps>>
     ELSE /\ outcome' = "none" /\ pc' = "inside" /\ wraps' = wraps + 1
  /\ index' = 0
  /\ control' = 0 /\ reference' = 0 /\ spent' = 0 /\ passed' = 0
  /\ last' = 0 /\ growing' = TRUE
  /\ controlled' = FALSE /\ guarded' = TRUE /\ formal' = TRUE
  /\ generation' = generation + 1

(* _run_step: choose the effect, advance the energies it accounts for, let *)
(* the scheduler consume the velocity and append the record.               *)
RunStep(inc, active) ==
  /\ pc = "inside" /\ index < TotalSteps
  /\ \E effect \in Effects(inc, active) :
       /\ control' = IF effect.accounted THEN control + effect.energy ELSE control
       /\ reference' = IF effect.accounted THEN reference + inc ELSE reference
       /\ spent' = spent + effect.energy
       /\ controlled' = (controlled \/ effect.enabled)
       /\ guarded' = (guarded /\ (effect.enabled => effect.guard))
       /\ formal' = (formal /\ context /\ effect.formal)
  /\ passed' = passed + inc
  /\ growing' = (growing /\ last <= inc) /\ last' = inc
  /\ index' = index + 1
  /\ UNCHANGED <<pc, carrier, strength, context, wraps, outcome, generation>>

(* __exit__ restores the step whether the pipeline returned or raised.     *)
Exit(result) ==
  /\ pc = "inside"
  /\ result = "finished" => index = TotalSteps
  /\ pc' = "outside" /\ wraps' = wraps - 1 /\ outcome' = result
  /\ UNCHANGED <<carrier, strength, context, index, energies, history, summary,
                 generation>>

Done == pc = "outside" /\ generation = Generations /\ UNCHANGED vars

Next ==
  \/ \E kind \in Carriers, given \in BOOLEAN, share \in Strengths : Enter(kind, given, share)
  \/ \E inc \in References, active \in BOOLEAN : RunStep(inc, active)
  \/ \E result \in {"finished", "raised"} : Exit(result)
  \/ Done

Spec == Init /\ [][Next]_vars

(* flow_runtime_formal_context_complete of the generation record.          *)
FormalComplete == index > 0 /\ formal

(* generation_endpoint_quality_energy_guard_passed of the record.          *)
GuardPassed == controlled /\ guarded
-----------------------------------------------------------------------------
(* Types of the runtime's state.                                           *)
TypeOK ==
  /\ pc \in {"outside", "inside"} /\ carrier \in Carriers /\ strength \in Strengths
  /\ context \in BOOLEAN /\ wraps \in Nat /\ index \in 0..TotalSteps
  /\ control \in Nat /\ reference \in Nat /\ spent \in Nat /\ passed \in Nat
  /\ last \in Nat /\ growing \in BOOLEAN
  /\ controlled \in BOOLEAN /\ guarded \in BOOLEAN /\ formal \in BOOLEAN
  /\ outcome \in {"none", "refused", "raised", "finished"}
  /\ generation \in Nat

(* Between two videos the pipeline has its own scheduler step and inside   *)
(* one there is one wrapper, whatever failed before: a wrapper left behind *)
(* would add the next video's control twice (flow_velocity_runtime.py      *)
(* __enter__ and __exit__).                                                *)
StepIsRestored == wraps = IF pc = "inside" THEN 1 ELSE 0

(* A record whose formal context is complete has counted all the control   *)
(* the scheduler consumed and all the reference it is a share of.          *)
FormalMeansAccounted ==
  FormalComplete => spent = control /\ passed = reference

(* The projection of each step's velocity over the steps left is enough to *)
(* keep the whole trajectory's budget as long as the reference energies do *)
(* not decrease (velocity_field_constraint.py, the remaining budget).      *)
GrowingIsCovered ==
  growing /\ index = TotalSteps => control <= EnergyShare * passed

(* A strength whose norm budget is inside the flow energy budget keeps the *)
(* trajectory's budget whatever the reference energies do; the default     *)
(* lambda_max of 0.12 is such a strength.                                  *)
WeakIsCovered ==
  NormShare <= EnergyShare /\ context => spent <= EnergyShare * passed

(* A generated video leaves the scheduler as it was, its formal record has *)
(* counted all of its control, and that control is covered wherever the    *)
(* projection of the budget promises it.                                   *)
VelocityIsSafe ==
  /\ TypeOK /\ StepIsRestored /\ FormalMeansAccounted
  /\ GrowingIsCovered /\ WeakIsCovered

(* What docs/field_registry.md:2511 says of the recorded guard: the        *)
(* trajectory's cumulative control energy has stayed inside its budget.    *)
GuardMeansCovered ==
  outcome = "finished" /\ GuardPassed => control <= EnergyShare * reference
=============================================================================
