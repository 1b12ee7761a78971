-------------------------- MODULE ImpulseProjection --------------------------
(*******************************************************************************)
(* The search for the largest scale of an intended impulse whose actual        *)
(* FP32 delta keeps all guards (_select_largest_feasible_projection).          *)
(* Scales are multiples of 1/Grid; the intended delta has norm Grid at scale   *)
(* Grid, and rounding adds to the norm at each scale, so that a scale may fail *)
(* although a larger one passes.  What a step records of the search is later   *)
(* checked by the reader of the records (Provenance).                          *)
(*******************************************************************************)
EXTENDS Naturals, FiniteSets

CONSTANTS
    Grid,          \* scale 1
    Backoffs,      \* at most so many backoffs (16)
    Refinements,   \* and so many bisections (12)
    Rounding,      \* what rounding adds to the norm, plus one
    EnergyNorms    \* norms at which the remaining energy is used up

SearchAssumption ==
    /\ Grid \in Nat \ {0} /\ Backoffs \in Nat /\ Refinements \in Nat
    /\ Rounding \subseteq Nat /\ EnergyNorms \subseteq Nat

VARIABLES
    norm, direction, energy,   \* the evaluator: actual norm and direction guard by scale
    phase,
    scale, upper, best,        \* last trial, smallest failed scale above, best passing one
    attempts, backoffs, rounds,
    seen                       \* scales evaluated

evaluator == <<norm, direction, energy>>
vars == <<evaluator, phase, scale, upper, best, attempts, backoffs, rounds, seen>>

Scales == 1 .. Grid

NormGuard(k) == norm[k] <= Grid
EnergyGuard(k) == norm[k] <= energy
Feasible(k) == NormGuard(k) /\ EnergyGuard(k) /\ direction[k] /\ norm[k] > 0

\* An actual delta of norm zero has no cosine.
Init ==
    /\ \E e \in [Scales -> Rounding] : norm = [k \in Scales |-> k + e[k] - 1]
    /\ direction \in [Scales -> BOOLEAN] /\ energy \in EnergyNorms
    /\ \A k \in Scales : norm[k] = 0 => ~direction[k]
    /\ phase = "direct" /\ scale = Grid /\ upper = Grid /\ best = 0
    /\ attempts = 1 /\ backoffs = 0 /\ rounds = 0 /\ seen = {Grid}

\* Scale 1: it passes, its direction already fails, or it is scaled down.
Direct ==
    /\ phase = "direct"
    /\ phase' = CASE Feasible(Grid) -> "selected"
                  [] ~direction[Grid] -> "raised"
                  [] OTHER -> "backoff"
    /\ best' = IF Feasible(Grid) THEN Grid ELSE 0
    /\ UNCHANGED <<evaluator, scale, upper, attempts, backoffs, rounds, seen>>

Least(a, b) == IF a <= b THEN a ELSE b

\* The scale at which the trial's excess over a budget would be gone, less a thousandth.
Hint(k, budget) == (k * budget * 999) \div (norm[k] * 1000)

NextScale(k) ==
    LET hints == (IF NormGuard(k) THEN {} ELSE {Hint(k, Grid)})
                 \cup (IF EnergyGuard(k) THEN {} ELSE {Hint(k, energy)})
        below == (k * 999) \div 1000
    IN Least(below, CHOOSE h \in hints : \A g \in hints : h <= g)

Count == attempts' = attempts + 1 /\ backoffs' = backoffs + 1

MayBackOff == backoffs < Backoffs

\* A smaller trial: it passes, its direction fails, or the search goes on below it.
Backoff ==
    /\ phase = "backoff"
    /\ LET k == NextScale(scale)
       IN IF ~MayBackOff \/ k = 0 \/ k >= scale
          THEN phase' = "raised" /\ UNCHANGED <<scale, upper, best, attempts, backoffs, seen>>
          ELSE /\ upper' = scale /\ Count /\ seen' = seen \cup {k}
               /\ scale' = k
               /\ best' = IF Feasible(k) THEN k ELSE 0
               /\ phase' = CASE Feasible(k) -> "refine"
                             [] ~direction[k] -> "raised"
                             [] OTHER -> "backoff"
    /\ UNCHANGED <<evaluator, rounds>>

\* Mutant of Narrow: a failed middle ends the search.
NarrowToBest(middle) ==
    IF Feasible(middle) THEN best' = middle /\ upper' = upper
    ELSE best' = best /\ upper' = best

Narrow(middle) ==
    IF Feasible(middle) THEN best' = middle /\ upper' = upper
    ELSE best' = best /\ upper' = middle

\* Bisection between the best passing scale and the smallest failed one above it.
Refine ==
    /\ phase = "refine"
    /\ LET middle == (best + upper) \div 2
       IN IF rounds >= Refinements \/ middle <= best
          THEN phase' = "selected" /\ UNCHANGED <<upper, best, attempts, rounds, seen>>
          ELSE /\ Narrow(middle)
               /\ attempts' = attempts + 1 /\ rounds' = rounds + 1
               /\ seen' = seen \cup {middle} /\ phase' = phase
    /\ UNCHANGED <<evaluator, scale, backoffs>>

Next == Direct \/ Backoff \/ Refine

Spec == Init /\ [][Next]_vars

----------------------------------------------------------------------------
\* What the reader of the historical records asks of an active step.
Provenance ==
    \/ best = Grid /\ attempts = 1 /\ backoffs = 0
    \/ /\ best \in 1 .. Grid - 1 /\ backoffs \in 1 .. Backoffs
       /\ attempts >= 1 + backoffs /\ attempts <= 1 + backoffs + Refinements

TypeOK ==
    /\ phase \in {"direct", "backoff", "refine", "selected", "raised"}
    /\ scale \in Scales /\ upper \in Scales /\ best \in 0 .. Grid
    /\ attempts \in 1 .. 1 + Backoffs + Refinements /\ seen \subseteq Scales
    /\ backoffs \in 0 .. Backoffs /\ rounds \in 0 .. Refinements

\* What is injected passes all guards, and no larger trial did: a pass that a later
\* bisection refused again is never taken.
SelectedIsBestSeen ==
    phase = "selected" => Feasible(best) /\ \A k \in seen : Feasible(k) => k <= best

\* A scaled-down selection lies right under a scale that failed, unless the
\* bisections ran out: nothing is given away that the guards allow there.
SelectedIsTight ==
    phase = "selected" /\ best < Grid /\ rounds < Refinements =>
        upper = best + 1 /\ upper \in seen /\ ~Feasible(upper)

\* Every selection is recorded with counts the later reader accepts.
SelectionIsAccepted == phase = "selected" => Provenance
=============================================================================
