--------------------------- MODULE ImpulseExposure ---------------------------
(********************************************************************************)
(* The eight steps of one signed impulse under the scheduler runtime            *)
(* (ImpulseObservabilitySchedulerRuntime._run_step), which limits the control   *)
(* of every step by its own velocity and by what is left of an energy budget,   *)
(* and the audit of the recorded steps by the contract, which computes the      *)
(* same limits again from the record alone (_validate_trace_schedule_and_budget *)
(* in assemble_actual_design_matrix).  A speed is |delta sigma| times the norm  *)
(* of the model's velocity, so that all norms are of state updates; Share and   *)
(* EnergyRatio are velocity_norm_ratio_budget * lambda_max and                  *)
(* flow_energy_budget_ratio in common integer units.                            *)
(********************************************************************************)
EXTENDS Integers, Sequences

CONSTANTS
    Steps,        \* 8
    Active,       \* the steps of the impulse's stage: its waveform is 1 there, else 0
    Positive,     \* the polarity of the state update
    Descending,   \* delta sigma is negative, as on the frozen grid
    Share,        \* norm limit of a step per unit of speed
    EnergyRatio,  \* energy budget per unit of reference energy
    Speeds,       \* what the model may answer with
    Losses        \* what projection and FP32 rounding may take from an intended norm

StepAssumption ==
    /\ Steps \in Nat \ {0} /\ Active \subseteq 1 .. Steps
    /\ Positive \in BOOLEAN /\ Descending \in BOOLEAN

SpeedAssumption == Speeds \subseteq Nat /\ Losses \subseteq Nat

\* 0.02 * 0.12 squared is 5.76e-6, below 1.5e-5.
BudgetAssumption ==
    Share \in Nat /\ EnergyRatio \in Nat /\ Share * Share <= EnergyRatio

VARIABLES
    status,      \* running, raised, complete
    reference,   \* cumulative reference energy
    control,     \* cumulative control energy
    rows         \* the step records

vars == <<status, reference, control, rows>>

Init == status = "running" /\ reference = 0 /\ control = 0 /\ rows = <<>>

----------------------------------------------------------------------------
(* compute_intended_impulse_control                                         *)

Least(a, b) == IF a <= b THEN a ELSE b
Most(a, b) == IF a >= b THEN a ELSE b

Wave(step) == IF step \in Active THEN 1 ELSE 0

\* The reference energy at the end if every step left were as fast as this one.
Projected(step, speed, ref) == ref + (Steps - step + 1) * (speed * speed)

Remaining(step, speed, ref, ctl) ==
    Most(0, EnergyRatio * Projected(step, speed, ref) - ctl)

NormLimit(step, speed) == Share * speed * Wave(step)

\* The largest norm whose energy is left.
Root(n, limit) ==
    IF limit * limit <= n THEN limit
    ELSE CHOOSE r \in 0 .. limit : r * r <= n /\ (r + 1) * (r + 1) > n

Intended(step, speed, ref, ctl) ==
    Root(Remaining(step, speed, ref, ctl), NormLimit(step, speed))

Polarity == IF Positive THEN 1 ELSE -1
SigmaSign == IF Descending THEN -1 ELSE 1

\* The velocity's sign undoes the sign of delta sigma, which the scheduler applies.
StateUpdate(norm) == SigmaSign * ((Polarity * SigmaSign) * norm)

----------------------------------------------------------------------------
(* One step                                                                 *)

\* Where the direction of an actual delta lies: at least the minimum cosine, within
\* the runtime's tolerance of 1e-12 under it, or lower.
Directions == {"kept", "band", "lost"}

Row(step, speed, remaining, intended, actual, direction) ==
    [step |-> step, speed |-> speed, remaining |-> remaining, intended |-> intended,
     actual |-> actual, exposure |-> StateUpdate(actual), direction |-> direction,
     reference |-> reference + speed * speed, control |-> control + actual * actual]

\* _require_active_control_feasible: an active step that has nothing to give.
MustRaise(step, speed, intended, remaining) ==
    step \in Active /\ (intended = 0 \/ remaining = 0 \/ speed = 0)

GridIsOver == Len(rows) >= Steps

\* The pipeline calls the scheduler once more than the grid has steps.
StepTooMany ==
    /\ status = "running" /\ GridIsOver
    /\ status' = "raised"
    /\ UNCHANGED <<reference, control, rows>>

\* The projection raises (ImpulseProjection), or its selection keeps norm, energy and,
\* within the tolerance, direction; a step that is not scheduled changes nothing.
Step ==
    /\ status = "running" /\ ~GridIsOver
    /\ \E speed \in Speeds :
          LET step == Len(rows) + 1
              remaining == Remaining(step, speed, reference, control)
              intended == Intended(step, speed, reference, control)
          IN IF MustRaise(step, speed, intended, remaining)
             THEN status' = "raised" /\ UNCHANGED <<reference, control, rows>>
             ELSE \E loss \in Losses, direction \in Directions :
                /\ step \notin Active => loss = 0 /\ direction = "kept"
                /\ LET actual == intended - loss
                   IN IF step \in Active /\ (direction = "lost" \/ actual <= 0)
                      THEN status' = "raised" /\ UNCHANGED <<reference, control, rows>>
                      ELSE /\ rows' = Append(rows, Row(step, speed, remaining, intended,
                                                       actual, direction))
                           /\ reference' = reference + speed * speed
                           /\ control' = control + actual * actual
                           /\ status' = status

\* The original scheduler step raises after the record was appended.
SchedulerRaises ==
    /\ status = "running" /\ rows # <<>>
    /\ status' = "raised"
    /\ UNCHANGED <<reference, control, rows>>

\* build_exposure_trace: the record covers every step.
Complete ==
    /\ status = "running" /\ Len(rows) = Steps
    /\ status' = "complete"
    /\ UNCHANGED <<reference, control, rows>>

Next == Step \/ StepTooMany \/ SchedulerRaises \/ Complete

Spec == Init /\ [][Next]_vars

----------------------------------------------------------------------------
(* The audit, from the rows alone                                           *)

\* The recorded sums before step i.
Before(i, field) == IF i = 1 THEN 0 ELSE rows[i - 1][field]

RowAudited(i) ==
    LET row == rows[i]
        ref == Before(i, "reference")
        ctl == Before(i, "control")
    IN /\ row.step = i
       /\ row.reference = ref + row.speed * row.speed
       /\ row.remaining = Remaining(i, row.speed, ref, ctl)
       /\ row.intended = Intended(i, row.speed, ref, ctl)
       /\ row.control = ctl + row.actual * row.actual
       /\ row.actual <= row.intended /\ row.actual * row.actual <= row.remaining
       /\ IF i \in Active
          THEN row.intended > 0 /\ row.actual > 0 /\ row.direction = "kept"
          ELSE row.actual = 0

Audited == \A i \in 1 .. Steps : RowAudited(i)

----------------------------------------------------------------------------
TypeOK ==
    /\ status \in {"running", "raised", "complete"}
    /\ reference \in Nat /\ control \in Nat
    /\ Len(rows) <= Steps
    /\ \A i \in 1 .. Len(rows) :
          /\ rows[i].speed \in Speeds /\ rows[i].direction \in {"kept", "band"}
          /\ rows[i].intended \in Nat /\ rows[i].actual \in 0 .. rows[i].intended

\* The energy budget never cuts a control below its norm limit, whatever the speeds of
\* the steps are: amplitudes follow the velocity alone, and a pair's two polarities
\* are limited alike.
NormDecides ==
    \A i \in 1 .. Len(rows) : rows[i].intended = NormLimit(i, rows[i].speed)

\* After every step the control energy is within its share of the reference energy
\* spent so far, not only of a projected one.
SpentIsCovered == control <= Share * Share * reference

\* A recorded trajectory is refused by the audit only where the runtime's tolerance
\* let a direction pass.
AuditAgrees ==
    status = "complete" => (Audited <=> \A i \in Active : rows[i].direction = "kept")

\* A complete trajectory moved the state in the impulse's polarity at every scheduled
\* step and at no other.
ScheduleIsDriven ==
    status = "complete" =>
        \A i \in 1 .. Steps : IF i \in Active THEN Polarity * rows[i].exposure > 0
                                              ELSE rows[i].exposure = 0
=============================================================================
