--------------------------- MODULE MechanismProofs ---------------------------
(*****************************************************************************)
(* Proofs about the watermark mechanisms and the mechanism diagnostics.  The *)
(* velocity runtime comes first, for every schedule length, every set of     *)
(* reference energies, every strength and every energy budget.  Then come    *)
(* the mechanisms as MCMechanisms puts them together: a step of all is one   *)
(* of the mechanism's own or leaves it alone (...Projects), its invariant    *)
(* holds at the start (...Starts) and after every step of its own            *)
(* (Next...Inv), and gives what it promises (...IsAsPromised).  In order:    *)
(* the impulse budgets, the pipelines of the preflights and of the feedback  *)
(* runs, and the verdicts: the contract readers, the root-cause search, the  *)
(* signed-response statistics and the output root of the six videos.         *)
(*****************************************************************************)
EXTENDS MCMechanisms, Integers, Sequences, WellFoundedInduction, FiniteSetTheorems, TLAPS

-----------------------------------------------------------------------------
(* The velocity runtime.  The budget is a promise about a future the runtime *)
(* does not know: the inductive invariant says what it is worth at every     *)
(* step, that the control spent would be covered if every step left had the  *)
(* reference energy of the last one.                                         *)

\* A formal record so far has counted everything.
CountedSoFar == formal => spent = control /\ passed = reference

\* Only what the scheduler consumed is counted as reference.
ReferenceIsPassed == reference <= passed

\* As long as the energies grow, the control is covered by those passed and the steps left.
CoveredAhead == growing => control <= EnergyShare * (passed + last * (TotalSteps - index))

\* At a weak strength every step is covered by its own reference energy.
WeakSoFar == NormShare <= EnergyShare /\ context => spent <= EnergyShare * passed

IndInv ==
  TypeOK /\ StepIsRestored /\ CountedSoFar /\ ReferenceIsPassed /\ CoveredAhead /\ WeakSoFar
-----------------------------------------------------------------------------
(* A product of natural numbers is one. *)
LEMMA TimesNat == ASSUME NEW a \in Nat, NEW b \in Nat PROVE a * b \in Nat
  OBVIOUS

(* A product does not fall when a factor grows. *)
LEMMA TimesMonotone ==
  ASSUME NEW a \in Nat, NEW b \in Nat, NEW c \in Nat, b <= c
  PROVE  a * b <= a * c /\ b * a <= c * a
  <1>1. PICK d \in Nat : c = b + d BY SMT
  <1>2. a * c = a * b + a * d /\ c * a = b * a + d * a BY <1>1, SMT
  <1>3. a * d \in Nat /\ d * a \in Nat BY TimesNat
  <1> QED BY <1>2, <1>3, TimesNat, SMT

(* A product distributes over a sum. *)
LEMMA TimesSum ==
  ASSUME NEW a \in Nat, NEW b \in Nat, NEW c \in Nat
  PROVE  a * (b + c) = a * b + a * c
  OBVIOUS

(* The shares and the length of the schedule are natural numbers. *)
LEMMA ConstantsNat == strength \in Strengths =>
  /\ NormShare \in Nat /\ EnergyShare \in Nat /\ TotalSteps \in Nat
  /\ \A inc \in References : inc \in Nat /\ NormShare * inc \in Nat /\ EnergyShare * inc \in Nat
  <1> SUFFICES ASSUME strength \in Strengths
        PROVE /\ NormShare \in Nat /\ EnergyShare \in Nat /\ TotalSteps \in Nat
              /\ \A inc \in References :
                   inc \in Nat /\ NormShare * inc \in Nat /\ EnergyShare * inc \in Nat
    OBVIOUS
  <1>1. NormShare \in Nat /\ EnergyShare \in Nat /\ TotalSteps \in Nat
    BY StrengthsAssumption, StepsAssumption DEF NormShare, EnergyShare
  <1>2. ASSUME NEW inc \in References
        PROVE inc \in Nat /\ NormShare * inc \in Nat /\ EnergyShare * inc \in Nat
    BY <1>1, <1>2, ReferencesAssumption, TimesNat
  <1> QED BY <1>1, <1>2

\* The budget of a step is a natural number.
LEMMA BudgetNat ==
  ASSUME strength \in Strengths, reference \in Nat, index \in 0 .. TotalSteps, index < TotalSteps, NEW inc \in References
  PROVE  Budget(inc) \in Nat
  <1>1. inc \in Nat /\ EnergyShare \in Nat /\ TotalSteps - index \in Nat BY ConstantsNat, SMT
  <1>2. inc * (TotalSteps - index) \in Nat BY <1>1, TimesNat
  <1> QED BY <1>1, <1>2, TimesNat DEF Budget

\* What a step may add, of whatever carrier: an energy that was accounted for fits into
\* what is left, with a key context it fits into the norm budget, and a formal record
\* is an accounted one.
LEMMA EffectBounds ==
  ASSUME TypeOK, index < TotalSteps, NEW inc \in References, NEW active \in BOOLEAN,
         NEW effect \in Effects(inc, active)
  PROVE  /\ effect.energy \in Nat
         /\ effect.accounted \in BOOLEAN /\ effect.enabled \in BOOLEAN
         /\ effect.guard \in BOOLEAN /\ effect.formal \in BOOLEAN
         /\ effect.accounted => control + effect.energy <= control \/ control + effect.energy <= Budget(inc)
         /\ context => effect.energy <= NormShare * inc
         /\ effect.formal => effect.accounted
  <1> DEFINE Good(f) ==
        /\ f.energy \in Nat
        /\ f.accounted \in BOOLEAN /\ f.enabled \in BOOLEAN
        /\ f.guard \in BOOLEAN /\ f.formal \in BOOLEAN
        /\ f.accounted => control + f.energy <= control \/ control + f.energy <= Budget(inc)
        /\ context => f.energy <= NormShare * inc
        /\ f.formal => f.accounted
  <1>1. /\ control \in Nat /\ reference \in Nat /\ index \in 0 .. TotalSteps
        /\ context \in BOOLEAN /\ strength \in Strengths BY DEF TypeOK
  <1>2. Budget(inc) \in Nat BY <1>1, BudgetNat
  <1>3. NormShare * inc \in Nat BY <1>1, ConstantsNat
  <1>4. NormLimit(inc, active) \in Nat /\ NormLimit(inc, active) <= NormShare * inc
    BY <1>3 DEF NormLimit
  <1>5. Remaining(inc) \in Nat /\ (Remaining(inc) = 0 \/ control + Remaining(inc) = Budget(inc))
    BY <1>1, <1>2 DEF Remaining
  <1>6. /\ Admissible(inc, active) \in Nat
        /\ Admissible(inc, active) <= NormShare * inc
        /\ Admissible(inc, active) <= Remaining(inc)
    <2> HIDE DEF Good
    <2>1. Smaller(NormLimit(inc, active), Remaining(inc)) \in Nat
      BY <1>4, <1>5 DEF Smaller
    <2> QED BY <2>1, <1>3, <1>4, <1>5 DEF Admissible, Smaller
  <1>7. \A e \in 0 .. Admissible(inc, active) :
           e \in Nat /\ (control + e <= control \/ control + e <= Budget(inc)) /\ e <= NormShare * inc
    BY <1>1, <1>2, <1>3, <1>5, <1>6
  <1>8. ASSUME NEW e \in 0 .. Admissible(inc, active), NEW en \in BOOLEAN, NEW g \in BOOLEAN, NEW c \in BOOLEAN
        PROVE Good(Effect(e, TRUE, en, g, c))
    BY <1>7, <1>8 DEF Effect
  <1>9. 0 \in 0 .. Admissible(inc, active) BY <1>6
  <1>10. Good(NoEffect) BY <1>3, <1>1 DEF NoEffect, Effect
  <1>11. CASE carrier = "endpoint"
    <2>1. effect \in EndpointEffects(inc, active) BY <1>11 DEF Effects
    <2>2. CASE context
      <3>1. \/ \E e \in 0 .. Admissible(inc, active) : effect = Effect(e, TRUE, TRUE, TRUE, TRUE)
            \/ effect = Effect(0, FALSE, TRUE, FALSE, FALSE)
        BY <2>1, <2>2 DEF EndpointEffects
      <3>2. CASE effect = Effect(0, FALSE, TRUE, FALSE, FALSE) BY <3>2, <1>3 DEF Effect
      <3>3. CASE \E e \in 0 .. Admissible(inc, active) : effect = Effect(e, TRUE, TRUE, TRUE, TRUE)
        <4>1. PICK e \in 0 .. Admissible(inc, active) : effect = Effect(e, TRUE, TRUE, TRUE, TRUE)
          BY <3>3
        <4>2. Good(Effect(e, TRUE, TRUE, TRUE, TRUE)) BY <1>8
        <4> QED BY <4>1, <4>2
      <3> QED BY <3>1, <3>2, <3>3
    <2>3. CASE ~context
      <3>1. PICK e \in 0 .. ((9 * NormLimit(inc, active)) \div 4) :
               effect = Effect(e, FALSE, TRUE, FALSE, FALSE)
        BY <2>1, <2>3 DEF EndpointEffects
      <3>2. e \in Nat BY <1>4
      <3> QED BY <3>1, <3>2, <2>3 DEF Effect
    <2> QED BY <2>2, <2>3, <1>1
  <1>12. CASE carrier = "agnostic"
    <2>1. effect = NoEffect \/ effect = Effect(NormLimit(inc, active), FALSE, FALSE, TRUE, FALSE)
      BY <1>12 DEF Effects, AgnosticEffects
    <2>2. Good(Effect(NormLimit(inc, active), FALSE, FALSE, TRUE, FALSE)) BY <1>4 DEF Effect
    <2> QED BY <2>1, <2>2, <1>10
  <1>13. CASE carrier = "signed"
    <2>1. effect \in SignedEffects(inc, active) BY <1>13 DEF Effects
    <2>2. \E e \in 0 .. Admissible(inc, active), c \in BOOLEAN : effect = Effect(e, TRUE, TRUE, TRUE, c)
      <3>1. CASE ~active \/ Remaining(inc) = 0
        <4>1. effect = Effect(0, TRUE, TRUE, TRUE, TRUE) \/ effect = Effect(0, TRUE, TRUE, TRUE, FALSE)
          BY <2>1, <3>1 DEF SignedEffects
        <4> QED BY <4>1, <1>9
      <3>2. CASE active /\ Remaining(inc) # 0
        <4>1. PICK e \in 1 .. Admissible(inc, active) : effect = Effect(e, TRUE, TRUE, TRUE, TRUE)
          BY <2>1, <3>2 DEF SignedEffects
        <4>2. e \in 0 .. Admissible(inc, active) BY <1>6
        <4> QED BY <4>1, <4>2
      <3> QED BY <3>1, <3>2
    <2>3. PICK e \in 0 .. Admissible(inc, active), c \in BOOLEAN : effect = Effect(e, TRUE, TRUE, TRUE, c)
      BY <2>2
    <2>4. Good(Effect(e, TRUE, TRUE, TRUE, c)) BY <1>8
    <2> QED BY <2>3, <2>4
  <1>14. CASE carrier = "predictive" \/ carrier = "orthogonal"
    <2>1. \E e \in 0 .. Admissible(inc, active) : effect = Effect(e, TRUE, FALSE, TRUE, TRUE)
      <3>1. CASE carrier = "predictive" BY <3>1 DEF Effects, PredictiveEffects
      <3>2. CASE carrier = "orthogonal"
        <4>1. effect \in OrthogonalEffects(inc, active) BY <3>2 DEF Effects
        <4>2. CASE active
          <5>1. active = TRUE BY <4>2
          <5>2. PICK e \in 1 .. Admissible(inc, active) : effect = Effect(e, TRUE, FALSE, TRUE, TRUE)
            BY <4>1, <5>1 DEF OrthogonalEffects, Representable
          <5>3. e \in 0 .. Admissible(inc, active) BY <1>6
          <5> QED BY <5>2, <5>3
        <4>3. CASE ~active BY <4>1, <4>3, <1>9 DEF OrthogonalEffects
        <4> QED BY <4>2, <4>3
      <3> QED BY <1>14, <3>1, <3>2
    <2>2. PICK e \in 0 .. Admissible(inc, active) : effect = Effect(e, TRUE, FALSE, TRUE, TRUE)
      BY <2>1
    <2>3. Good(Effect(e, TRUE, FALSE, TRUE, TRUE)) BY <1>8
    <2> QED BY <2>2, <2>3
  <1>15. CASE carrier \notin {"endpoint", "agnostic", "signed", "predictive", "orthogonal"}
    <2>1. effect = NoEffect BY <1>15 DEF Effects
    <2> QED BY <2>1, <1>10
  <1> QED BY <1>11, <1>12, <1>13, <1>14, <1>15
-----------------------------------------------------------------------------
(* The invariant holds before the first video. *)
LEMMA InitInv == Init => IndInv
  <1> SUFFICES ASSUME Init PROVE IndInv
    OBVIOUS
  <1> USE DEF Init
  <1>1. TypeOK
    <2>1. 0 \in 0 .. TotalSteps BY StepsAssumption
    <2> QED BY <2>1 DEF TypeOK
  <1>2. CoveredAhead
    <2>1. last * (TotalSteps - index) = 0 BY ConstantsNat
    <2>2. EnergyShare * (passed + last * (TotalSteps - index)) = 0 BY <2>1, ConstantsNat
    <2> QED BY <2>2 DEF CoveredAhead
  <1>3. WeakSoFar BY ConstantsNat DEF WeakSoFar
  <1> QED BY <1>1, <1>2, <1>3 DEF IndInv, StepIsRestored, CountedSoFar, ReferenceIsPassed

\* A new video: nothing is counted, and the scheduler's own step is the one wrapped.
LEMMA EnterStep ==
  ASSUME IndInv, NEW mechanism \in Carriers, NEW given \in BOOLEAN,
         NEW share \in Strengths, Enter(mechanism, given, share)
  PROVE  IndInv'
  <1> USE DEF Enter
  <1>1. wraps = 0 BY DEF IndInv, StepIsRestored
  <1>2. StepIsRestored' BY <1>1 DEF StepIsRestored
  <1>3. TypeOK'
    <2>1. index' \in 0 .. TotalSteps BY StepsAssumption
    <2>2. pc' \in {"outside", "inside"} /\ wraps' \in Nat
          /\ outcome' \in {"none", "refused", "raised", "finished"}
      BY <1>1
    <2>3. generation' \in Nat BY DEF IndInv, TypeOK
    <2> QED BY <2>1, <2>2, <2>3 DEF TypeOK
  <1>6. EnergyShare' \in Nat BY StrengthsAssumption DEF EnergyShare
  <1>4. CoveredAhead'
    <2>1. (last * (TotalSteps - index) = 0)' BY StepsAssumption
    <2>2. (EnergyShare * (passed + last * (TotalSteps - index)) = 0)' BY <2>1, <1>6
    <2> QED BY <2>2 DEF CoveredAhead
  <1>5. WeakSoFar'
    <2>1. \A n \in Nat : n * 0 = 0 OBVIOUS
    <2>2. EnergyShare' * 0 = 0 BY <1>6, <2>1, Zenon
    <2>3. spent' = 0 /\ passed' = 0 OBVIOUS
    <2> QED BY <2>2, <2>3 DEF WeakSoFar, EnergyShare
  <1> QED BY <1>2, <1>3, <1>4, <1>5 DEF IndInv, CountedSoFar, ReferenceIsPassed

(* A step of the scheduler keeps the invariant, whatever carrier acts on it. *)
LEMMA RunStepStep ==
  ASSUME IndInv, NEW inc \in References, NEW active \in BOOLEAN, RunStep(inc, active)
  PROVE  IndInv'
  <1>1. PICK effect \in Effects(inc, active) :
          /\ control' = IF effect.accounted THEN control + effect.energy ELSE control
          /\ reference' = IF effect.accounted THEN reference + inc ELSE reference
          /\ spent' = spent + effect.energy
          /\ controlled' = (controlled \/ effect.enabled)
          /\ guarded' = (guarded /\ (effect.enabled => effect.guard))
          /\ formal' = (formal /\ context /\ effect.formal)
    BY DEF RunStep
  <1>2. /\ pc = "inside" /\ index < TotalSteps /\ index' = index + 1
        /\ passed' = passed + inc /\ growing' = (growing /\ last <= inc) /\ last' = inc
        /\ pc' = pc /\ carrier' = carrier /\ strength' = strength /\ context' = context /\ wraps' = wraps
        /\ outcome' = outcome /\ generation' = generation
    BY DEF RunStep
  <1>3. TypeOK BY DEF IndInv
  <1>4. /\ effect.energy \in Nat
        /\ effect.accounted \in BOOLEAN /\ effect.enabled \in BOOLEAN
        /\ effect.guard \in BOOLEAN /\ effect.formal \in BOOLEAN
        /\ effect.accounted => control + effect.energy <= control \/ control + effect.energy <= Budget(inc)
        /\ context => effect.energy <= NormShare * inc
        /\ effect.formal => effect.accounted
    BY <1>2, <1>3, EffectBounds
  <1>5. /\ inc \in Nat /\ NormShare * inc \in Nat /\ EnergyShare * inc \in Nat
        /\ NormShare \in Nat /\ EnergyShare \in Nat /\ TotalSteps \in Nat
    BY <1>3, ConstantsNat DEF TypeOK
  <1>12. NormShare' = NormShare /\ EnergyShare' = EnergyShare BY <1>2 DEF NormShare, EnergyShare
  <1>6. TypeOK' BY <1>1, <1>2, <1>3, <1>4, <1>5 DEF TypeOK
  <1>7. StepIsRestored' BY <1>2 DEF IndInv, StepIsRestored
  <1>8. CountedSoFar' BY <1>1, <1>2, <1>4 DEF IndInv, CountedSoFar
  <1>9. ReferenceIsPassed' BY <1>1, <1>2, <1>3, <1>4, <1>5 DEF IndInv, ReferenceIsPassed, TypeOK
  <1>10. CoveredAhead'
    <2> SUFFICES ASSUME growing, last <= inc
                 PROVE  control' <= EnergyShare * (passed' + last' * (TotalSteps - index'))
      BY <1>2, <1>12 DEF CoveredAhead
    <2> DEFINE left == TotalSteps - index
    <2>1. /\ left \in Nat /\ TotalSteps - index' \in Nat /\ left = (TotalSteps - index') + 1
          /\ passed \in Nat /\ reference \in Nat /\ control \in Nat /\ last \in Nat
      BY <1>2, <1>3, <1>5 DEF TypeOK
    <2>2. passed' + last' * (TotalSteps - index') = passed + inc * left
      <3>1. inc * left = inc * (TotalSteps - index') + inc BY <1>5, <2>1, TimesSum
      <3>2. inc * (TotalSteps - index') \in Nat BY <1>5, <2>1, TimesNat
      <3> HIDE DEF left
      <3> QED BY <3>1, <3>2, <1>2, <1>5, <2>1
    <2>3. /\ inc * left \in Nat /\ last * left \in Nat /\ last * left <= inc * left
      <3> HIDE DEF left
      <3> QED BY <2>1, <1>5, TimesNat, TimesMonotone
    <2>4. control <= EnergyShare * (passed + inc * left)
      <3>1. control <= EnergyShare * (passed + last * left) BY DEF IndInv, CoveredAhead
      <3>2. EnergyShare * (passed + last * left) <= EnergyShare * (passed + inc * left)
        <4> HIDE DEF left
        <4>1. passed + last * left \in Nat /\ passed + inc * left \in Nat
              /\ passed + last * left <= passed + inc * left
          BY <2>1, <2>3
        <4> QED BY <4>1, <1>5, TimesMonotone
      <3>3. /\ EnergyShare * (passed + last * left) \in Nat
            /\ EnergyShare * (passed + inc * left) \in Nat
        <4> HIDE DEF left
        <4> QED BY <2>1, <2>3, <1>5, TimesNat
      <3> HIDE DEF left
      <3> QED BY <3>1, <3>2, <3>3, <2>1
    <2>5. Budget(inc) <= EnergyShare * (passed + inc * left)
      <3>1. Budget(inc) = EnergyShare * (reference + inc * left) BY DEF Budget
      <3>2. reference <= passed BY DEF IndInv, ReferenceIsPassed
      <3> HIDE DEF left
      <3>3. reference + inc * left \in Nat /\ passed + inc * left \in Nat
            /\ reference + inc * left <= passed + inc * left
        BY <2>1, <2>3, <3>2
      <3> QED BY <3>1, <3>3, <1>5, TimesMonotone
    <2>6. Budget(inc) \in Nat /\ EnergyShare * (passed + inc * left) \in Nat
      <3>1. Budget(inc) \in Nat BY <1>2, <1>3, BudgetNat DEF TypeOK
      <3> HIDE DEF left
      <3> QED BY <3>1, <2>1, <2>3, <1>5, TimesNat
    <2>7. control' <= control \/ control' <= Budget(inc) BY <1>1, <1>4, <2>1
    <2>8. control' \in Nat BY <1>6 DEF TypeOK
    <2>9. control' <= EnergyShare * (passed + inc * left)
      <3> HIDE DEF left
      <3> QED BY <2>1, <2>4, <2>5, <2>6, <2>7, <2>8
    <2> HIDE DEF left
    <2> QED BY <2>2, <2>9
  <1>11. WeakSoFar'
    <2> SUFFICES ASSUME NormShare <= EnergyShare, context
                 PROVE  spent' <= EnergyShare * passed'
      BY <1>2, <1>12 DEF WeakSoFar
    <2>1. spent <= EnergyShare * passed BY DEF IndInv, WeakSoFar
    <2>2. effect.energy <= EnergyShare * inc
      <3>1. NormShare * inc <= EnergyShare * inc BY <1>5, TimesMonotone
      <3> QED BY <3>1, <1>4, <1>5
    <2>3. EnergyShare * passed' = EnergyShare * passed + EnergyShare * inc
      BY <1>2, <1>3, <1>5, TimesSum DEF TypeOK
    <2>4. EnergyShare * passed \in Nat /\ spent \in Nat BY <1>3, <1>5, TimesNat DEF TypeOK
    <2> QED BY <2>1, <2>2, <2>3, <2>4, <1>1, <1>4, <1>5
  <1> QED BY <1>6, <1>7, <1>8, <1>9, <1>10, <1>11 DEF IndInv

\* The runtime ends or nothing happens.
LEMMA OtherSteps ==
  ASSUME IndInv, (\E ending \in {"finished", "raised"} : Exit(ending)) \/ Done \/ UNCHANGED vars
  PROVE  IndInv'
  <1>1. /\ index' = index /\ carrier' = carrier /\ strength' = strength /\ context' = context
        /\ control' = control /\ reference' = reference /\ spent' = spent /\ passed' = passed
        /\ last' = last /\ growing' = growing /\ controlled' = controlled
        /\ guarded' = guarded /\ formal' = formal /\ generation' = generation
    BY DEF Exit, Done, vars, energies, history, summary
  <1>2. /\ outcome' \in {"none", "refused", "raised", "finished"}
        /\ \/ pc' = pc /\ wraps' = wraps
           \/ pc = "inside" /\ pc' = "outside" /\ wraps' = wraps - 1
    BY DEF Exit, Done, vars, IndInv, TypeOK
  <1>3. StepIsRestored' BY <1>2 DEF IndInv, StepIsRestored
  <1>4. TypeOK'
    <2>1. wraps' \in Nat BY <1>2, <1>3 DEF StepIsRestored
    <2> QED BY <1>1, <1>2, <2>1 DEF IndInv, TypeOK
  <1>5. (CountedSoFar /\ ReferenceIsPassed /\ CoveredAhead /\ WeakSoFar)'
    BY <1>1 DEF IndInv, CountedSoFar, ReferenceIsPassed, CoveredAhead, WeakSoFar, NormShare,
       EnergyShare
  <1> QED BY <1>3, <1>4, <1>5 DEF IndInv

(* Every step of the runtime and of the pipeline around it keeps the invariant. *)
LEMMA StepInv == IndInv /\ [Next]_vars => IndInv'
  <1> SUFFICES ASSUME IndInv, [Next]_vars PROVE IndInv'
    OBVIOUS
  <1>1. ASSUME NEW mechanism \in Carriers, NEW given \in BOOLEAN, NEW share \in Strengths,
               Enter(mechanism, given, share)
        PROVE IndInv'
    BY <1>1, EnterStep
  <1>2. ASSUME NEW inc \in References, NEW active \in BOOLEAN, RunStep(inc, active) PROVE IndInv'
    BY <1>2, RunStepStep
  <1>3. CASE (\E ending \in {"finished", "raised"} : Exit(ending)) \/ Done \/ UNCHANGED vars
    BY <1>3, OtherSteps
  <1> QED BY <1>1, <1>2, <1>3 DEF Next

(* The inductive invariant the theorems below rest on holds throughout. *)
LEMMA Invariance == Spec => []IndInv
  BY InitInv, StepInv, PTL DEF Spec
-----------------------------------------------------------------------------
\* The variables have their types, the records and the energies of the runtime among them.
THEOREM TypesAreKept == Spec => []TypeOK
  <1>1. IndInv => TypeOK BY DEF IndInv
  <1> QED BY <1>1, Invariance, PTL

\* The pipeline has its own scheduler step back after every video, however it ended
\* (__enter__ and __exit__).
THEOREM RestoredAlways == Spec => []StepIsRestored
  <1>1. IndInv => StepIsRestored BY DEF IndInv
  <1> QED BY <1>1, Invariance, PTL

\* A record with a complete formal context has counted all control and all reference
\* (_run_step and the summary of the records).
THEOREM FormalIsAccounted == Spec => []FormalMeansAccounted
  <1>1. IndInv => FormalMeansAccounted
    BY DEF IndInv, CountedSoFar, FormalMeansAccounted, FormalComplete
  <1> QED BY <1>1, Invariance, PTL

\* The look-ahead of the budget suffices for the whole trajectory when the reference
\* energies do not decrease (the remaining budget of velocity_field_constraint.py).
THEOREM GrowingAreCovered == Spec => []GrowingIsCovered
  <1>1. IndInv => GrowingIsCovered
    <2> SUFFICES ASSUME IndInv, growing, index = TotalSteps PROVE control <= EnergyShare * passed
      BY DEF GrowingIsCovered
    <2>1. last * (TotalSteps - index) = 0 /\ passed \in Nat
      BY ConstantsNat DEF IndInv, TypeOK
    <2>2. passed + last * (TotalSteps - index) = passed BY <2>1
    <2> QED BY <2>2 DEF IndInv, CoveredAhead
  <1> QED BY <1>1, Invariance, PTL

\* A strength inside the energy budget needs no look-ahead: with a key context the
\* trajectory keeps its budget whatever its energies do.
THEOREM WeakAreCovered == Spec => []WeakIsCovered
  <1>1. IndInv => WeakIsCovered BY DEF IndInv, WeakSoFar, WeakIsCovered
  <1> QED BY <1>1, Invariance, PTL

\* All of these together, for any video length, any energies and any number of videos.
THEOREM VelocityStaysSafe == Spec => []VelocityIsSafe
  <1>1. TypeOK /\ StepIsRestored /\ FormalMeansAccounted /\ GrowingIsCovered
          /\ WeakIsCovered => VelocityIsSafe
    BY DEF VelocityIsSafe
  <1> QED
    BY <1>1, TypesAreKept, RestoredAlways, FormalIsAccounted, GrowingAreCovered,
       WeakAreCovered, PTL
-----------------------------------------------------------------------------
(* The impulse's exposure.  Every row is what the step computed from the     *)
(* sums before it, and the control so far is within the norm share of the    *)
(* reference so far: with the norm share below the energy ratio, the energy  *)
(* left is then never less than the square of the norm limit.                *)

\* The step records.
Records == [step : Nat, speed : Nat, remaining : Nat, intended : Nat, actual : Nat,
            exposure : Int, direction : {"kept", "band"}, reference : Nat, control : Nat]

\* A sum of the records before the i-th.
Earlier(records, i, field) == IF i = 1 THEN 0 ELSE records[i - 1][field]

\* The numbers of a row follow from the row and the sums before it.
Traced(records, i) ==
  LET row == records[i]
      ref == Earlier(records, i, "reference")
      ctl == Earlier(records, i, "control")
  IN /\ row.step = i /\ row.speed \in Speeds
     /\ row.reference = ref + row.speed * row.speed
     /\ row.control = ctl + row.actual * row.actual
     /\ row.remaining = Exposure!Remaining(i, row.speed, ref, ctl)
     /\ row.intended = Exposure!Intended(i, row.speed, ref, ctl)

\* What a row gives: the norm limit decides, the actual norm is within it and its square
\* within the energy left, and it is positive in the polarity just where the step is active.
Given(records, i) ==
  LET row == records[i]
  IN /\ row.intended = Exposure!NormLimit(i, row.speed)
     /\ row.actual <= row.intended
     /\ row.actual * row.actual <= row.remaining
     /\ i \in Active => row.intended > 0 /\ row.actual > 0
     /\ i \notin Active => row.actual = 0 /\ row.direction = "kept"
     /\ row.exposure = Exposure!StateUpdate(row.actual)

\* The sums are those of the last row.
SumsAreOfRows ==
  /\ exposureReference = Earlier(rows, Len(rows) + 1, "reference")
  /\ exposureControl = Earlier(rows, Len(rows) + 1, "control")

ExposureInv ==
  /\ status \in {"running", "raised", "complete"}
  /\ exposureReference \in Nat /\ exposureControl \in Nat
  /\ rows \in Seq(Records) /\ Len(rows) <= ImpulseSteps
  /\ SumsAreOfRows
  /\ \A i \in 1 .. Len(rows) : Traced(rows, i) /\ Given(rows, i)
  /\ Exposure!SpentIsCovered
  /\ status = "complete" => Len(rows) = ImpulseSteps

LEMMA ExposureProjects == [SomeStep]_allVars => [Exposure!Next]_(Exposure!vars)
  <1> SUFFICES ASSUME [SomeStep]_allVars PROVE [Exposure!Next]_(Exposure!vars)
    OBVIOUS
  <1> USE DEF exposureVars, Exposure!vars
  <1>1. CASE ExposureStep BY <1>1 DEF ExposureStep
  <1>2. CASE Rest /\ program # "exposure" BY <1>2 DEF Rest
  <1>3. CASE UNCHANGED allVars BY <1>3 DEF allVars
  <1> QED
    BY <1>1, <1>2, <1>3
    DEF SomeStep, VelocityStep, PreflightStep, FeedbackStep, ImpulseStep, ProjectionStep,
        ContractStep, CauseStep, ResponseStep, SixVideoStep

\* The constants of the impulse.
LEMMA ImpulseConstants ==
  /\ ImpulseSteps \in Nat /\ ImpulseSteps # 0 /\ Active \subseteq 1 .. ImpulseSteps
  /\ Positive \in BOOLEAN /\ Descending \in BOOLEAN
  /\ Speeds \subseteq Nat /\ Losses \subseteq Nat
  /\ Share \in Nat /\ EnergyRatio \in Nat /\ Share * Share <= EnergyRatio
  BY InstancesAssumption
  DEF Exposure!StepAssumption, Exposure!SpeedAssumption, Exposure!BudgetAssumption

(* The energy left covers the square of the norm limit, when the control so far is
   covered by the reference so far: the norm limit decides. *)
LEMMA NormLimitDecides ==
  ASSUME NEW step \in 1 .. ImpulseSteps, NEW speed \in Nat, NEW ref \in Nat, NEW ctl \in Nat,
         ctl <= Share * Share * ref
  PROVE  /\ Exposure!NormLimit(step, speed) \in Nat
         /\ Exposure!Remaining(step, speed, ref, ctl) \in Nat
         /\ Exposure!Intended(step, speed, ref, ctl) = Exposure!NormLimit(step, speed)
         /\ Exposure!NormLimit(step, speed) * Exposure!NormLimit(step, speed)
              <= Exposure!Remaining(step, speed, ref, ctl)
         /\ Exposure!NormLimit(step, speed) * Exposure!NormLimit(step, speed)
              <= Share * Share * (speed * speed)
         /\ step \notin Active => Exposure!NormLimit(step, speed) = 0
  <1> DEFINE sq == Share * Share
             q == speed * speed
             n == ImpulseSteps - step + 1
             limit == Exposure!NormLimit(step, speed)
             left == Exposure!Remaining(step, speed, ref, ctl)
  <1>1. sq \in Nat /\ q \in Nat /\ n \in Nat /\ 1 <= n /\ EnergyRatio \in Nat /\ sq <= EnergyRatio
    BY ImpulseConstants, TimesNat
  <1>2. limit \in Nat /\ limit * limit \in Nat /\ limit * limit <= sq * q
        /\ (step \notin Active => limit = 0)
    <2>1. CASE step \in Active
      <3>1. limit = Share * speed
        <4>1. limit = Share * speed * 1 BY <2>1 DEF Exposure!NormLimit, Exposure!Wave
        <4>2. Share * speed \in Nat BY ImpulseConstants, TimesNat
        <4> QED BY <4>1, <4>2
      <3>2. (Share * speed) * (Share * speed) = (Share * Share) * (speed * speed)
        BY ImpulseConstants
      <3>3. Share * speed \in Nat BY ImpulseConstants, TimesNat
      <3>4. (Share * speed) * (Share * speed) \in Nat BY <3>3, TimesNat
      <3> HIDE DEF limit
      <3>5. limit * limit = sq * q BY <3>1, <3>2
      <3> QED BY <3>1, <3>3, <3>4, <3>5, <2>1
    <2>2. CASE step \notin Active
      <3>1. limit = 0
        <4>1. limit = Share * speed * 0 BY <2>2 DEF Exposure!NormLimit, Exposure!Wave
        <4>2. Share * speed \in Nat BY ImpulseConstants, TimesNat
        <4> QED BY <4>1, <4>2
      <3>2. sq * q \in Nat BY <1>1, TimesNat
      <3> HIDE DEF limit, sq, q
      <3> QED BY <3>1, <3>2
    <2> QED BY <2>1, <2>2
  <1>3. left \in Nat /\ sq * q <= left
    <2> DEFINE all == ref + n * q
    <2>1. n * q \in Nat /\ q <= n * q
      <3> HIDE DEF n, q
      <3>1. 1 * q <= n * q BY <1>1, TimesMonotone
      <3> QED BY <3>1, <1>1, TimesNat
    <2>2. all \in Nat /\ ref + q <= all
      <3> HIDE DEF n, q
      <3> QED BY <2>1, <1>1
    <2>3. sq * (ref + q) <= sq * all
      <3> HIDE DEF all, sq
      <3>1. ref + q \in Nat BY <1>1
      <3> QED BY <3>1, <2>2, <1>1, TimesMonotone
    <2>4. sq * (ref + q) = sq * ref + sq * q
      <3> HIDE DEF sq, q
      <3> QED BY <1>1, TimesSum
    <2>5. sq * all <= EnergyRatio * all
      <3> HIDE DEF sq, all
      <3> QED BY <1>1, <2>2, TimesMonotone
    <2>6. EnergyRatio * all \in Nat /\ sq * ref \in Nat /\ sq * q \in Nat /\ sq * all \in Nat
      <3> HIDE DEF sq, all, q
      <3> QED BY <1>1, <2>2, TimesNat
    <2>7. left = IF 0 >= EnergyRatio * all - ctl THEN 0 ELSE EnergyRatio * all - ctl
      BY DEF Exposure!Remaining, Exposure!Projected, Exposure!Most
    <2>8. ctl <= sq * ref OBVIOUS
    <2> HIDE DEF sq, all, q, left
    <2> QED BY <2>3, <2>4, <2>5, <2>6, <2>7, <2>8
  <1>4. sq * q \in Nat BY <1>1, TimesNat
  <1>5. limit * limit <= left
    <2> HIDE DEF limit, left, sq, q
    <2> QED BY <1>2, <1>3, <1>4
  <1>6. Exposure!Intended(step, speed, ref, ctl) = limit
    <2>1. Exposure!Intended(step, speed, ref, ctl) = Exposure!Root(left, limit)
      BY DEF Exposure!Intended
    <2> HIDE DEF limit, left
    <2> QED BY <2>1, <1>5 DEF Exposure!Root
  <1> QED BY <1>2, <1>3, <1>5, <1>6

\* A row that is appended leaves the others and the sums before them as they were.
LEMMA EarlierRowsStay ==
  ASSUME NEW old \in Seq(Records), NEW new \in Records
  PROVE  /\ Append(old, new) \in Seq(Records) /\ Len(Append(old, new)) = Len(old) + 1
         /\ Append(old, new)[Len(old) + 1] = new
         /\ \A i \in 1 .. Len(old) : Append(old, new)[i] = old[i]
         /\ \A i \in 1 .. Len(old) + 1, field \in {"reference", "control"} :
               Earlier(Append(old, new), i, field) = Earlier(old, i, field)
         /\ \A field \in {"reference", "control"} :
               Earlier(Append(old, new), Len(old) + 2, field) = new[field]
  <1>1. /\ Append(old, new) \in Seq(Records) /\ Len(Append(old, new)) = Len(old) + 1
        /\ Append(old, new)[Len(old) + 1] = new
        /\ \A i \in 1 .. Len(old) : Append(old, new)[i] = old[i]
    OBVIOUS
  <1>2. Len(old) \in Nat OBVIOUS
  <1>3. ASSUME NEW i \in 1 .. Len(old) + 1, NEW field \in {"reference", "control"}
        PROVE  Earlier(Append(old, new), i, field) = Earlier(old, i, field)
    <2>1. CASE i = 1 BY <2>1 DEF Earlier
    <2>2. CASE i # 1
      <3>1. i - 1 \in 1 .. Len(old) BY <2>2, <1>2
      <3>2. Append(old, new)[i - 1] = old[i - 1] BY <3>1, <1>1
      <3> QED BY <2>2, <3>2, Zenon DEF Earlier
    <2> QED BY <2>1, <2>2
  <1>4. ASSUME NEW field \in {"reference", "control"}
        PROVE  Earlier(Append(old, new), Len(old) + 2, field) = new[field]
    <2>1. Len(old) + 2 # 1 /\ Len(old) + 2 - 1 = Len(old) + 1 BY <1>2
    <2>2. Earlier(Append(old, new), Len(old) + 2, field)
            = Append(old, new)[Len(old) + 2 - 1][field]
      BY <2>1 DEF Earlier
    <2> QED BY <2>1, <2>2, <1>1
  <1> QED BY <1>1, <1>3, <1>4

\* The limits depend on the row and on the sums alone.
LEMMA RowStays ==
  ASSUME NEW old, NEW new, NEW i, new[i] = old[i],
         Earlier(new, i, "reference") = Earlier(old, i, "reference"),
         Earlier(new, i, "control") = Earlier(old, i, "control"),
         Traced(old, i), Given(old, i)
  PROVE  Traced(new, i) /\ Given(new, i)
  BY DEF Traced, Given

LEMMA ExposureStarts == Exposure!Init => ExposureInv
  <1> SUFFICES ASSUME Exposure!Init PROVE ExposureInv
    OBVIOUS
  <1>1. status = "running" /\ exposureReference = 0 /\ exposureControl = 0 /\ rows = <<>>
    BY DEF Exposure!Init
  <1>2. rows \in Seq(Records) /\ Len(rows) = 0 BY <1>1
  <1>3. SumsAreOfRows BY <1>1, <1>2 DEF SumsAreOfRows, Earlier
  <1>4. Exposure!SpentIsCovered
    <2>1. Share * Share \in Nat BY ImpulseConstants, TimesNat
    <2>2. Share * Share * 0 = 0 BY <2>1
    <2> QED BY <1>1, <2>2 DEF Exposure!SpentIsCovered
  <1>5. Len(rows) <= ImpulseSteps BY <1>2, ImpulseConstants
  <1> QED BY <1>1, <1>2, <1>3, <1>4, <1>5 DEF ExposureInv

(* A step that is recorded: its row follows from the sums before it, and what it gives is
   covered by what it refers to. *)
LEMMA RecordedStep ==
  ASSUME ExposureInv, NEW speed \in Speeds, NEW loss \in Losses,
         NEW remaining, NEW intended, NEW actual, NEW direction_ \in {"kept", "band"},
         Len(rows) < ImpulseSteps,
         remaining = Exposure!Remaining(Len(rows) + 1, speed, exposureReference, exposureControl),
         intended = Exposure!Intended(Len(rows) + 1, speed, exposureReference, exposureControl),
         actual = intended - loss,
         Len(rows) + 1 \notin Active => loss = 0 /\ direction_ = "kept",
         Len(rows) + 1 \in Active => intended # 0 /\ actual > 0,
         rows' = Append(rows, Exposure!Row(Len(rows) + 1, speed, remaining, intended, actual,
                                           direction_)),
         exposureReference' = exposureReference + speed * speed,
         exposureControl' = exposureControl + actual * actual,
         status' = status, status = "running"
  PROVE  ExposureInv'
  <1> DEFINE step == Len(rows) + 1
             new == Exposure!Row(step, speed, remaining, intended, actual, direction_)
             limit == Exposure!NormLimit(step, speed)
  <1>1. /\ rows \in Seq(Records) /\ exposureReference \in Nat /\ exposureControl \in Nat
        /\ Len(rows) \in Nat /\ SumsAreOfRows
        /\ \A i \in 1 .. Len(rows) : Traced(rows, i) /\ Given(rows, i)
        /\ exposureControl <= Share * Share * exposureReference
    BY DEF ExposureInv, Exposure!SpentIsCovered
  <1>2. step \in 1 .. ImpulseSteps /\ speed \in Nat /\ loss \in Nat
    BY <1>1, ImpulseConstants
  <1>3. /\ limit \in Nat /\ remaining \in Nat /\ intended = limit
        /\ limit * limit <= remaining /\ limit * limit <= Share * Share * (speed * speed)
        /\ step \notin Active => limit = 0
    <2> HIDE DEF step, limit
    <2> QED BY <1>1, <1>2, NormLimitDecides DEF step, limit
  <1>4. actual \in Nat /\ actual <= intended
    <2>1. CASE step \in Active BY <2>1, <1>2, <1>3
    <2>2. CASE step \notin Active BY <2>2, <1>2, <1>3
    <2> QED BY <2>1, <2>2
  <1>5. actual * actual \in Nat /\ limit * limit \in Nat /\ actual * actual <= limit * limit
    <2> HIDE DEF limit
    <2>1. actual * actual <= actual * limit /\ actual * limit <= limit * limit
      BY <1>3, <1>4, TimesMonotone
    <2>2. actual * actual \in Nat /\ actual * limit \in Nat /\ limit * limit \in Nat
      BY <1>3, <1>4, TimesNat
    <2> QED BY <2>1, <2>2
  <1>6. speed * speed \in Nat /\ Exposure!StateUpdate(actual) \in Int
    <2>1. speed * speed \in Nat BY <1>2, TimesNat
    <2>2. Exposure!Polarity \in {-1, 1} /\ Exposure!SigmaSign \in {-1, 1}
      BY DEF Exposure!Polarity, Exposure!SigmaSign
    <2>3. Exposure!StateUpdate(actual) \in Int
      BY <2>2, <1>4 DEF Exposure!StateUpdate
    <2> QED BY <2>1, <2>3
  <1>7. /\ new.step = step /\ new.speed = speed /\ new.remaining = remaining
        /\ new.intended = intended /\ new.actual = actual /\ new.direction = direction_
        /\ new.exposure = Exposure!StateUpdate(actual)
        /\ new.reference = exposureReference + speed * speed
        /\ new.control = exposureControl + actual * actual
    BY DEF Exposure!Row
  <1>8. new \in Records
    <2>1. step \in Nat /\ intended \in Nat BY <1>1, <1>3
    <2>2. \A a, b \in Nat : a + b \in Nat OBVIOUS
    <2>3. exposureReference + speed * speed \in Nat /\ exposureControl + actual * actual \in Nat
      BY <2>2, <1>1, <1>5, <1>6, Zenon
    <2> QED BY <2>1, <2>3, <1>2, <1>3, <1>4, <1>6 DEF Exposure!Row, Records
  <1> HIDE DEF new
  <1>9. rows' = Append(rows, new) BY DEF new
  <1>10. /\ rows' \in Seq(Records) /\ Len(rows') = Len(rows) + 1 /\ rows'[step] = new
         /\ \A i \in 1 .. Len(rows) : rows'[i] = rows[i]
         /\ \A i \in 1 .. Len(rows) + 1, field \in {"reference", "control"} :
               Earlier(rows', i, field) = Earlier(rows, i, field)
         /\ \A field \in {"reference", "control"} : Earlier(rows', Len(rows) + 2, field) = new[field]
    BY <1>1, <1>8, <1>9, EarlierRowsStay
  <1>11. SumsAreOfRows'
    <2>1. Len(rows') + 1 = Len(rows) + 2 BY <1>1, <1>10
    <2>2. new["reference"] = exposureReference' /\ new["control"] = exposureControl'
      BY <1>7
    <2> QED BY <2>1, <2>2, <1>10 DEF SumsAreOfRows
  <1>12. /\ Earlier(rows', step, "reference") = exposureReference
         /\ Earlier(rows', step, "control") = exposureControl
    <2>1. step \in 1 .. Len(rows) + 1 BY <1>1
    <2>2. /\ Earlier(rows, step, "reference") = exposureReference
          /\ Earlier(rows, step, "control") = exposureControl
      BY <1>1 DEF SumsAreOfRows
    <2> QED BY <2>1, <2>2, <1>10
  <1>13. Traced(rows', step)
    BY <1>7, <1>10, <1>12 DEF Traced
  <1>14. Given(rows', step)
    <2>1. actual * actual <= remaining
      <3> HIDE DEF limit
      <3> QED BY <1>3, <1>5
    <2>2. step \in Active => intended > 0 /\ actual > 0 BY <1>3, <1>4
    <2>3. step \notin Active => actual = 0 BY <1>3, <1>4
    <2> QED BY <2>1, <2>2, <2>3, <1>3, <1>4, <1>7, <1>10 DEF Given
  <1>15. \A i \in 1 .. Len(rows') : Traced(rows', i) /\ Given(rows', i)
    <2> SUFFICES ASSUME NEW i \in 1 .. Len(rows') PROVE Traced(rows', i) /\ Given(rows', i)
      OBVIOUS
    <2>1. CASE i = step BY <2>1, <1>13, <1>14
    <2>2. CASE i # step
      <3>1. i \in 1 .. Len(rows) /\ i \in 1 .. Len(rows) + 1 BY <2>2, <1>1, <1>10
      <3>2. /\ rows'[i] = rows[i]
            /\ Earlier(rows', i, "reference") = Earlier(rows, i, "reference")
            /\ Earlier(rows', i, "control") = Earlier(rows, i, "control")
        BY <3>1, <1>10
      <3>3. Traced(rows, i) /\ Given(rows, i) BY <3>1, <1>1
      <3> QED BY <3>2, <3>3, RowStays
    <2> QED BY <2>1, <2>2
  <1>16. exposureControl' <= Share * Share * exposureReference'
    <2> DEFINE sq == Share * Share
    <2>1. sq \in Nat BY ImpulseConstants, TimesNat
    <2>2. sq * (exposureReference + speed * speed) = sq * exposureReference + sq * (speed * speed)
      <3> HIDE DEF sq
      <3> QED BY <2>1, <1>1, <1>6, TimesSum
    <2>3. sq * exposureReference \in Nat /\ sq * (speed * speed) \in Nat
      <3> HIDE DEF sq
      <3> QED BY <2>1, <1>1, <1>6, TimesNat
    <2>4. exposureControl <= sq * exposureReference /\ limit * limit <= sq * (speed * speed)
      BY <1>1, <1>3
    <2>5. exposureControl' <= sq * exposureReference'
      <3> HIDE DEF sq, limit
      <3> QED BY <2>2, <2>3, <2>4, <1>1, <1>5
    <2> QED BY <2>5
  <1>17. exposureReference' \in Nat /\ exposureControl' \in Nat BY <1>1, <1>5, <1>6
  <1>18. Len(rows') <= ImpulseSteps BY <1>1, <1>10, ImpulseConstants
  <1> QED
    BY <1>10, <1>11, <1>15, <1>16, <1>17, <1>18 DEF ExposureInv, Exposure!SpentIsCovered

\* Nothing is recorded: the run raises, ends with all its rows, or stands still.
LEMMA UnrecordedStep ==
  ASSUME ExposureInv,
         rows' = rows, exposureReference' = exposureReference, exposureControl' = exposureControl,
         status' = "raised" \/ status' = status \/ (status' = "complete" /\ Len(rows) = ImpulseSteps)
  PROVE  ExposureInv'
  <1>1. /\ rows \in Seq(Records) /\ Len(rows) <= ImpulseSteps
        /\ exposureReference \in Nat /\ exposureControl \in Nat
        /\ status \in {"running", "raised", "complete"} /\ SumsAreOfRows
        /\ \A i \in 1 .. Len(rows) : Traced(rows, i) /\ Given(rows, i)
        /\ exposureControl <= Share * Share * exposureReference
        /\ status = "complete" => Len(rows) = ImpulseSteps
    BY DEF ExposureInv, Exposure!SpentIsCovered
  <1>2. SumsAreOfRows' BY <1>1 DEF SumsAreOfRows
  <1>3. \A i \in 1 .. Len(rows') : Traced(rows', i) /\ Given(rows', i) BY <1>1
  <1> QED BY <1>1, <1>2, <1>3 DEF ExposureInv, Exposure!SpentIsCovered

LEMMA NextExposureInv == ExposureInv /\ [Exposure!Next]_(Exposure!vars) => ExposureInv'
  <1> SUFFICES ASSUME ExposureInv, [Exposure!Next]_(Exposure!vars) PROVE ExposureInv'
    OBVIOUS
  <1>1. CASE Exposure!Step
    <2>1. /\ status = "running" /\ ~(Len(rows) >= ImpulseSteps)
      BY <1>1 DEF Exposure!Step, Exposure!GridIsOver
    <2>2. PICK speed \in Speeds :
            LET step == Len(rows) + 1
                remaining == Exposure!Remaining(step, speed, exposureReference, exposureControl)
                intended == Exposure!Intended(step, speed, exposureReference, exposureControl)
            IN IF Exposure!MustRaise(step, speed, intended, remaining)
               THEN status' = "raised" /\ UNCHANGED <<exposureReference, exposureControl, rows>>
               ELSE \E loss \in Losses, heading \in Exposure!Directions :
                  /\ step \notin Active => loss = 0 /\ heading = "kept"
                  /\ LET actual == intended - loss
                     IN IF step \in Active /\ (heading = "lost" \/ actual <= 0)
                        THEN status' = "raised" /\ UNCHANGED <<exposureReference, exposureControl, rows>>
                        ELSE /\ rows' = Append(rows, Exposure!Row(step, speed, remaining, intended,
                                                                  actual, heading))
                             /\ exposureReference' = exposureReference + speed * speed
                             /\ exposureControl' = exposureControl + actual * actual
                             /\ status' = status
      BY <1>1 DEF Exposure!Step
    <2> DEFINE step == Len(rows) + 1
               remaining == Exposure!Remaining(step, speed, exposureReference, exposureControl)
               intended == Exposure!Intended(step, speed, exposureReference, exposureControl)
    <2>3. CASE Exposure!MustRaise(step, speed, intended, remaining)
      BY <2>2, <2>3, UnrecordedStep
    <2>4. CASE ~Exposure!MustRaise(step, speed, intended, remaining)
      <3>1. PICK loss \in Losses, heading \in Exposure!Directions :
              /\ step \notin Active => loss = 0 /\ heading = "kept"
              /\ IF step \in Active /\ (heading = "lost" \/ intended - loss <= 0)
                 THEN status' = "raised" /\ UNCHANGED <<exposureReference, exposureControl, rows>>
                 ELSE /\ rows' = Append(rows, Exposure!Row(step, speed, remaining, intended,
                                                           intended - loss, heading))
                      /\ exposureReference' = exposureReference + speed * speed
                      /\ exposureControl' = exposureControl
                                              + (intended - loss) * (intended - loss)
                      /\ status' = status
        BY <2>2, <2>4
      <3>2. CASE step \in Active /\ (heading = "lost" \/ intended - loss <= 0)
        BY <3>1, <3>2, UnrecordedStep
      <3>3. CASE ~(step \in Active /\ (heading = "lost" \/ intended - loss <= 0))
        <4>1. heading \in {"kept", "band"} BY <3>1, <3>3 DEF Exposure!Directions
        <4>2. rows \in Seq(Records) /\ Len(rows) \in Nat /\ Len(rows) < ImpulseSteps
          BY <2>1, ImpulseConstants DEF ExposureInv
        <4>3. intended \in Int /\ loss \in Int
          <5>1. step \in 1 .. ImpulseSteps /\ speed \in Nat /\ exposureReference \in Nat
                /\ exposureControl \in Nat
                /\ exposureControl <= Share * Share * exposureReference
            BY <4>2, ImpulseConstants DEF ExposureInv, Exposure!SpentIsCovered
          <5>2. Exposure!NormLimit(step, speed) \in Nat
                /\ intended = Exposure!NormLimit(step, speed)
            <6> HIDE DEF step
            <6> QED BY <5>1, NormLimitDecides
          <5> QED BY <5>2, ImpulseConstants
        <4>4. step \in Active => intended # 0 BY <2>4 DEF Exposure!MustRaise
        <4> HIDE DEF remaining, intended
        <4>5. step \in Active => intended - loss > 0 BY <3>3, <4>3
        <4> QED
          BY <2>1, <3>1, <3>3, <4>1, <4>2, <4>4, <4>5, RecordedStep DEF remaining, intended
      <3> QED BY <3>2, <3>3
    <2> QED BY <2>3, <2>4
  <1>2. CASE Exposure!StepTooMany \/ Exposure!SchedulerRaises
    BY <1>2, UnrecordedStep DEF Exposure!StepTooMany, Exposure!SchedulerRaises
  <1>3. CASE Exposure!Complete BY <1>3, UnrecordedStep DEF Exposure!Complete
  <1>4. CASE UNCHANGED Exposure!vars BY <1>4, UnrecordedStep DEF Exposure!vars
  <1> QED BY <1>1, <1>2, <1>3, <1>4 DEF Exposure!Next

(* The promises of the exposure, from its invariant. *)
LEMMA ExposureIsAsPromised ==
  ExposureInv => /\ Exposure!TypeOK /\ Exposure!NormDecides /\ Exposure!SpentIsCovered
                 /\ Exposure!AuditAgrees /\ Exposure!ScheduleIsDriven
  <1> SUFFICES ASSUME ExposureInv
               PROVE /\ Exposure!TypeOK /\ Exposure!NormDecides /\ Exposure!SpentIsCovered
                     /\ Exposure!AuditAgrees /\ Exposure!ScheduleIsDriven
    OBVIOUS
  <1>1. /\ rows \in Seq(Records) /\ Len(rows) \in Nat
        /\ \A i \in 1 .. Len(rows) : rows[i] \in Records /\ Traced(rows, i) /\ Given(rows, i)
    BY DEF ExposureInv
  <1>2. Exposure!TypeOK
    <2>1. ASSUME NEW i \in 1 .. Len(rows)
          PROVE /\ rows[i].speed \in Speeds /\ rows[i].direction \in {"kept", "band"}
                /\ rows[i].intended \in Nat /\ rows[i].actual \in 0 .. rows[i].intended
      <3>1. rows[i] \in Records /\ Traced(rows, i) /\ Given(rows, i) BY <1>1
      <3>2. /\ rows[i].speed \in Speeds /\ rows[i].actual <= rows[i].intended
        BY <3>1 DEF Traced, Given
      <3>3. /\ rows[i].direction \in {"kept", "band"}
            /\ rows[i].intended \in Nat /\ rows[i].actual \in Nat
        BY <3>1 DEF Records
      <3> QED BY <3>2, <3>3
    <2> QED BY <2>1 DEF ExposureInv, Exposure!TypeOK
  <1>3. Exposure!NormDecides BY <1>1 DEF Exposure!NormDecides, Given
  <1>4. Exposure!SpentIsCovered BY DEF ExposureInv
  <1>5. Exposure!AuditAgrees
    <2> SUFFICES ASSUME status = "complete"
                 PROVE  Exposure!Audited <=> \A i \in Active : rows[i].direction = "kept"
      BY DEF Exposure!AuditAgrees
    <2>1. Len(rows) = ImpulseSteps /\ Active \subseteq 1 .. ImpulseSteps
      BY ImpulseConstants DEF ExposureInv
    <2>2. ASSUME NEW i \in 1 .. ImpulseSteps
          PROVE  Exposure!RowAudited(i) <=> (i \in Active => rows[i].direction = "kept")
      <3>1. Traced(rows, i) /\ Given(rows, i) BY <1>1, <2>1
      <3>2. /\ Exposure!Before(i, "reference") = Earlier(rows, i, "reference")
            /\ Exposure!Before(i, "control") = Earlier(rows, i, "control")
        BY DEF Exposure!Before, Earlier
      <3> QED BY <3>1, <3>2 DEF Traced, Given, Exposure!RowAudited
    <2> QED BY <2>1, <2>2 DEF Exposure!Audited
  <1>6. Exposure!ScheduleIsDriven
    <2> SUFFICES ASSUME status = "complete", NEW i \in 1 .. ImpulseSteps
                 PROVE  IF i \in Active THEN Exposure!Polarity * rows[i].exposure > 0
                                        ELSE rows[i].exposure = 0
      BY DEF Exposure!ScheduleIsDriven
    <2>1. i \in 1 .. Len(rows) BY DEF ExposureInv
    <2>2. /\ rows[i].exposure = Exposure!StateUpdate(rows[i].actual) /\ rows[i].actual \in Nat
          /\ i \in Active => rows[i].actual > 0
          /\ i \notin Active => rows[i].actual = 0
      BY <1>1, <2>1 DEF Given, Records
    <2>3. Exposure!Polarity \in {-1, 1} /\ Exposure!SigmaSign \in {-1, 1}
      BY DEF Exposure!Polarity, Exposure!SigmaSign
    <2>4. rows[i].exposure = Exposure!Polarity * rows[i].actual
      BY <2>2, <2>3 DEF Exposure!StateUpdate
    <2>5. Exposure!Polarity * rows[i].exposure = rows[i].actual /\ (rows[i].actual = 0 => rows[i].exposure = 0)
      BY <2>2, <2>3, <2>4
    <2> QED BY <2>2, <2>5
  <1> QED BY <1>2, <1>3, <1>4, <1>5, <1>6

-----------------------------------------------------------------------------
(* The projection's search.  Until a trial passes every trial has failed, the *)
(* last one by its norm and not by its direction; from then on the best trial *)
(* passes, the scale above it failed, and none that passed is larger.         *)

\* The evaluator is a function of the scale: no rounding makes a norm negative, and
\* without an actual delta there is no direction to keep.
EvaluatorIsTotal ==
  /\ norm \in [1 .. Grid -> Nat] /\ direction \in [1 .. Grid -> BOOLEAN] /\ energy \in Nat
  /\ \A k \in 1 .. Grid : norm[k] = 0 => ~direction[k]

NothingTried ==
  scale = Grid /\ upper = Grid /\ best = 0 /\ attempts = 1 /\ backoffs = 0 /\ rounds = 0
  /\ seen = {Grid}

AllFailed ==
  /\ scale \in seen /\ ~Projection!Feasible(scale) /\ direction[scale] /\ best = 0
  /\ attempts = 1 + backoffs /\ rounds = 0
  /\ \A k \in seen : ~Projection!Feasible(k)

Bracketed ==
  /\ best \in 1 .. Grid /\ best < upper /\ upper \in seen
  /\ Projection!Feasible(best) /\ ~Projection!Feasible(upper)
  /\ backoffs \in 1 .. Backoffs /\ attempts = 1 + backoffs + rounds
  /\ \A k \in seen : Projection!Feasible(k) => k <= best

ProjectionInv ==
  /\ Projection!TypeOK /\ EvaluatorIsTotal
  /\ phase = "direct" => NothingTried
  /\ phase = "backoff" => AllFailed
  /\ phase = "refine" => Bracketed
  /\ phase = "selected" =>
       \/ best = Grid /\ attempts = 1 /\ backoffs = 0 /\ seen = {Grid} /\ Projection!Feasible(Grid)
       \/ Bracketed /\ (rounds >= Refinements \/ upper = best + 1)

LEMMA ProjectionProjects == [SomeStep]_allVars => [Projection!Next]_(Projection!vars)
  <1> SUFFICES ASSUME [SomeStep]_allVars PROVE [Projection!Next]_(Projection!vars)
    OBVIOUS
  <1> USE DEF projectionVars, Projection!vars, Projection!evaluator
  <1>1. CASE ProjectionStep BY <1>1 DEF ProjectionStep
  <1>2. CASE Rest /\ program # "projection" BY <1>2 DEF Rest
  <1>3. CASE UNCHANGED allVars BY <1>3 DEF allVars
  <1> QED
    BY <1>1, <1>2, <1>3
    DEF SomeStep, VelocityStep, PreflightStep, FeedbackStep, ImpulseStep, ExposureStep,
        ContractStep, CauseStep, ResponseStep, SixVideoStep

\* The constants of the search.
LEMMA SearchConstants ==
  /\ Grid \in Nat /\ Grid # 0 /\ Backoffs \in Nat /\ Refinements \in Nat
  /\ Rounding \subseteq Nat /\ EnergyNorms \subseteq Nat
  BY InstancesAssumption DEF Projection!SearchAssumption

\* A quotient of natural numbers is one.
LEMMA QuotientNat == ASSUME NEW a \in Nat, NEW b \in Nat, b # 0 PROVE a \div b \in Nat
  OBVIOUS

\* A trial that failed by its norm has a natural number as the scale to try next.
LEMMA NextScaleNat ==
  ASSUME EvaluatorIsTotal, NEW k \in 1 .. Grid, ~Projection!Feasible(k), direction[k]
  PROVE  Projection!NextScale(k) \in Nat
  <1>1. /\ norm[k] \in Nat /\ norm[k] # 0 /\ energy \in Nat /\ k \in Nat
        /\ ~Projection!NormGuard(k) \/ ~Projection!EnergyGuard(k)
    BY SearchConstants DEF EvaluatorIsTotal, Projection!Feasible
  <1>2. ASSUME NEW b \in Nat PROVE Projection!Hint(k, b) \in Nat
    <2>1. k * b * 999 \in Nat
      <3>1. k * b \in Nat BY <1>1, TimesNat
      <3> QED BY <3>1
    <2>2. norm[k] * 1000 \in Nat /\ norm[k] * 1000 # 0 BY <1>1
    <2> QED BY <2>1, <2>2, QuotientNat DEF Projection!Hint
  <1> DEFINE hints == (IF Projection!NormGuard(k) THEN {} ELSE {Projection!Hint(k, Grid)})
                      \cup (IF Projection!EnergyGuard(k) THEN {} ELSE {Projection!Hint(k, energy)})
             below == (k * 999) \div 1000
             least == CHOOSE h \in hints : \A g \in hints : h <= g
  <1>3. hints \subseteq Nat /\ \E h \in hints : \A g \in hints : h <= g
    <2>1. Projection!Hint(k, Grid) \in Nat /\ Projection!Hint(k, energy) \in Nat
      BY <1>1, <1>2, SearchConstants
    <2>2. \/ hints = {Projection!Hint(k, Grid)} \/ hints = {Projection!Hint(k, energy)}
          \/ hints = {Projection!Hint(k, Grid), Projection!Hint(k, energy)}
      BY <1>1
    <2> HIDE DEF hints
    <2>3. \A a, b \in Nat : a <= a /\ (a <= b \/ b <= a) OBVIOUS
    <2> QED BY <2>1, <2>2, <2>3, Zenon
  <1>4. least \in Nat
    <2>1. least \in hints
      <3> HIDE DEF hints
      <3> QED BY <1>3, Zenon
    <2> QED BY <2>1, <1>3, Zenon
  <1>5. below \in Nat BY <1>1
  <1>6. Projection!NextScale(k) = Projection!Least(below, least) BY DEF Projection!NextScale
  <1> HIDE DEF below, least
  <1> QED BY <1>4, <1>5, <1>6 DEF Projection!Least

\* Before the first trial is judged.
LEMMA NothingTriedTypes ==
  phase = "direct" /\ NothingTried => Projection!TypeOK
  BY SearchConstants DEF NothingTried, Projection!TypeOK, Projection!Scales

LEMMA ProjectionStarts == Projection!Init => ProjectionInv
  <1> SUFFICES ASSUME Projection!Init PROVE ProjectionInv
    OBVIOUS
  <1>1. phase = "direct" /\ NothingTried BY DEF Projection!Init, NothingTried
  <1>2. EvaluatorIsTotal
    <2>1. PICK e \in [1 .. Grid -> Rounding] : norm = [k \in 1 .. Grid |-> k + e[k] - 1]
      BY DEF Projection!Init, Projection!Scales
    <2>2. ASSUME NEW k \in 1 .. Grid PROVE k + e[k] - 1 \in Nat
      <3>1. e[k] \in Rounding BY <2>1
      <3>2. k \in Nat /\ k >= 1 BY SearchConstants
      <3>3. e[k] \in Nat BY <3>1, SearchConstants, Zenon
      <3> QED BY <3>2, <3>3
    <2>3. norm \in [1 .. Grid -> Nat] BY <2>1, <2>2
    <2>4. /\ direction \in [1 .. Grid -> BOOLEAN] /\ energy \in Nat
          /\ \A k \in 1 .. Grid : norm[k] = 0 => ~direction[k]
      BY SearchConstants DEF Projection!Init, Projection!Scales
    <2> QED BY <2>3, <2>4 DEF EvaluatorIsTotal
  <1> QED BY <1>1, <1>2, NothingTriedTypes DEF ProjectionInv

\* The search leaves the evaluator, and with it what passes, as it is.
LEMMA EvaluatorStays ==
  ASSUME norm' = norm, direction' = direction, energy' = energy
  PROVE  /\ \A k : Projection!Feasible(k)' = Projection!Feasible(k)
         /\ EvaluatorIsTotal' = EvaluatorIsTotal
  BY DEF Projection!Feasible, Projection!NormGuard, Projection!EnergyGuard, EvaluatorIsTotal

\* Scale 1 is tried first: it is taken, refused for its direction, or scaled down.
LEMMA DirectStep == ASSUME ProjectionInv, Projection!Direct PROVE ProjectionInv'
  <1>1. /\ phase = "direct" /\ norm' = norm /\ direction' = direction /\ energy' = energy
        /\ scale' = scale /\ upper' = upper /\ attempts' = attempts /\ backoffs' = backoffs
        /\ rounds' = rounds /\ seen' = seen
        /\ best' = IF Projection!Feasible(Grid) THEN Grid ELSE 0
    BY DEF Projection!Direct, Projection!evaluator
  <1>2. /\ Projection!TypeOK /\ EvaluatorIsTotal /\ NothingTried
        /\ Grid \in Nat /\ Grid # 0 /\ Refinements \in Nat
    BY <1>1, SearchConstants DEF ProjectionInv
  <1>3. EvaluatorIsTotal' /\ \A k : Projection!Feasible(k)' = Projection!Feasible(k)
    BY <1>1, <1>2, EvaluatorStays
  <1>4. Projection!Feasible(Grid) => direction[Grid] BY DEF Projection!Feasible
  <1>5. \/ Projection!Feasible(Grid) /\ phase' = "selected"
        \/ ~Projection!Feasible(Grid) /\ ~direction[Grid] /\ phase' = "raised"
        \/ ~Projection!Feasible(Grid) /\ direction[Grid] /\ phase' = "backoff"
    BY <1>4 DEF Projection!Direct
  <1>6. Projection!TypeOK'
    <2>1. best' \in 0 .. Grid BY <1>1, <1>2
    <2> QED BY <1>1, <1>2, <1>5, <2>1 DEF Projection!TypeOK, Projection!Scales
  <1>7. CASE phase' = "selected"
    <2>1. Projection!Feasible(Grid) BY <1>5, <1>7
    <2>2. best' = Grid /\ attempts' = 1 /\ backoffs' = 0 /\ seen' = {Grid}
      BY <1>1, <1>2, <2>1 DEF NothingTried
    <2>3. Projection!Feasible(Grid)' BY <1>3, <2>1, Zenon
    <2> QED BY <2>2, <2>3, <1>3, <1>6, <1>7 DEF ProjectionInv
  <1>8. CASE phase' = "backoff"
    <2>1. /\ ~Projection!Feasible(scale) /\ direction[scale] /\ seen = {scale}
          /\ best' = 0 /\ attempts = 1 + backoffs /\ rounds = 0
      BY <1>1, <1>2, <1>5, <1>8 DEF NothingTried
    <2>2. \A k \in seen : ~Projection!Feasible(k) BY <2>1
    <2>3. AllFailed' BY <1>1, <1>3, <2>1, <2>2 DEF AllFailed
    <2> QED BY <2>3, <1>3, <1>6, <1>8 DEF ProjectionInv
  <1>9. CASE phase' = "raised" BY <1>3, <1>6, <1>9 DEF ProjectionInv
  <1> QED BY <1>5, <1>7, <1>8, <1>9

\* A smaller trial: the first that passes has the failed one above it.
LEMMA BackoffStep == ASSUME ProjectionInv, Projection!Backoff PROVE ProjectionInv'
  <1> DEFINE k == Projection!NextScale(scale)
  <1>1. /\ phase = "backoff" /\ norm' = norm /\ direction' = direction /\ energy' = energy
        /\ rounds' = rounds
    BY DEF Projection!Backoff, Projection!evaluator
  <1>2. /\ Projection!TypeOK /\ EvaluatorIsTotal /\ AllFailed
        /\ Grid \in Nat /\ Grid # 0 /\ Refinements \in Nat /\ Backoffs \in Nat
    BY <1>1, SearchConstants DEF ProjectionInv
  <1>3. EvaluatorIsTotal' /\ \A j : Projection!Feasible(j)' = Projection!Feasible(j)
    BY <1>1, <1>2, EvaluatorStays
  <1>4. /\ scale \in 1 .. Grid /\ upper \in 1 .. Grid /\ seen \subseteq 1 .. Grid
        /\ backoffs \in 0 .. Backoffs /\ rounds \in 0 .. Refinements
        /\ attempts \in 1 .. 1 + Backoffs + Refinements /\ best \in 0 .. Grid
    BY <1>2 DEF Projection!TypeOK, Projection!Scales
  <1>5. ~Projection!Feasible(scale) /\ direction[scale] /\ best = 0 /\ rounds = 0
        /\ attempts = 1 + backoffs /\ \A j \in seen : ~Projection!Feasible(j)
    BY <1>2 DEF AllFailed
  <1>6. k \in Nat BY <1>2, <1>4, <1>5, NextScaleNat
  <1>7. CASE ~Projection!MayBackOff \/ k = 0 \/ k >= scale
    <2>1. /\ phase' = "raised" /\ scale' = scale /\ upper' = upper /\ best' = best
          /\ attempts' = attempts /\ backoffs' = backoffs /\ seen' = seen
      BY <1>7 DEF Projection!Backoff
    <2>2. Projection!TypeOK' BY <2>1, <1>1, <1>4 DEF Projection!TypeOK, Projection!Scales
    <2> QED BY <2>1, <2>2, <1>3 DEF ProjectionInv
  <1>8. CASE ~(~Projection!MayBackOff \/ k = 0 \/ k >= scale)
    <2>1. /\ upper' = scale /\ attempts' = attempts + 1 /\ backoffs' = backoffs + 1
          /\ seen' = seen \cup {k} /\ scale' = k
          /\ best' = IF Projection!Feasible(k) THEN k ELSE 0
      BY <1>8 DEF Projection!Backoff, Projection!Count
    <2>2. Projection!Feasible(k) => direction[k] BY DEF Projection!Feasible
    <2>3. \/ Projection!Feasible(k) /\ phase' = "refine"
          \/ ~Projection!Feasible(k) /\ ~direction[k] /\ phase' = "raised"
          \/ ~Projection!Feasible(k) /\ direction[k] /\ phase' = "backoff"
      BY <1>8, <2>2 DEF Projection!Backoff
    <2> HIDE DEF k
    <2>4. k \in 1 .. Grid /\ k < scale /\ backoffs < Backoffs
      BY <1>2, <1>4, <1>6, <1>8 DEF Projection!MayBackOff
    <2>5. Projection!TypeOK'
      <3>1. /\ scale' \in 1 .. Grid /\ upper' \in 1 .. Grid /\ best' \in 0 .. Grid
            /\ seen' \subseteq 1 .. Grid
        BY <2>1, <2>4, <1>2, <1>4
      <3>2. backoffs' \in 0 .. Backoffs /\ attempts' \in 1 .. 1 + Backoffs + Refinements
            /\ rounds' \in 0 .. Refinements
        BY <2>1, <2>4, <1>1, <1>2, <1>4, <1>5
      <3> QED BY <3>1, <3>2, <2>3 DEF Projection!TypeOK, Projection!Scales
    <2>6. CASE phase' = "refine"
      <3>1. Projection!Feasible(k) /\ best' = k BY <2>1, <2>3, <2>6
      <3>2. \A j \in seen' : Projection!Feasible(j) => j <= best'
        BY <3>1, <2>1, <2>4, <1>5
      <3>3. upper' \in seen' /\ best' < upper' /\ best' \in 1 .. Grid
        BY <3>1, <2>1, <2>4, <1>2 DEF AllFailed
      <3>4. backoffs' \in 1 .. Backoffs /\ attempts' = 1 + backoffs' + rounds'
        BY <2>1, <2>4, <1>1, <1>2, <1>4, <1>5
      <3>5. (Projection!Feasible(best) /\ ~Projection!Feasible(upper))'
        <4>1. Projection!Feasible(best') /\ ~Projection!Feasible(upper')
          BY <3>1, <2>1, <1>5
        <4> QED
          BY <4>1, <1>1
          DEF Projection!Feasible, Projection!NormGuard, Projection!EnergyGuard
      <3>6. (\A j \in seen : Projection!Feasible(j) => j <= best)' BY <3>2, <1>3
      <3>7. Bracketed' BY <3>3, <3>4, <3>5, <3>6 DEF Bracketed
      <3> QED BY <3>7, <2>5, <2>6, <1>3 DEF ProjectionInv
    <2>7. CASE phase' = "backoff"
      <3>1. ~Projection!Feasible(k) /\ direction[k] /\ best' = 0 BY <2>1, <2>3, <2>7
      <3>2. \A j \in seen' : ~Projection!Feasible(j) BY <3>1, <2>1, <1>5
      <3>3. (\A j \in seen : ~Projection!Feasible(j))' BY <3>2, <1>3
      <3>4. scale' \in seen' /\ attempts' = 1 + backoffs' /\ rounds' = 0
        BY <2>1, <1>1, <1>2, <1>4, <1>5
      <3>5. direction'[scale'] BY <3>1, <2>1, <1>1
      <3>6. ~Projection!Feasible(scale)' BY <3>3, <3>4
      <3>7. AllFailed' BY <3>1, <3>3, <3>4, <3>5, <3>6 DEF AllFailed
      <3> QED BY <3>7, <2>5, <2>7, <1>3 DEF ProjectionInv
    <2>8. CASE phase' = "raised" BY <2>5, <2>8, <1>3 DEF ProjectionInv
    <2> QED BY <2>3, <2>6, <2>7, <2>8
  <1> QED BY <1>7, <1>8

\* A bisection narrows the bracket, and ends when it is tight or the rounds are used up.
LEMMA RefineStep == ASSUME ProjectionInv, Projection!Refine PROVE ProjectionInv'
  <1> DEFINE middle == (best + upper) \div 2
  <1>1. /\ phase = "refine" /\ norm' = norm /\ direction' = direction /\ energy' = energy
        /\ scale' = scale /\ backoffs' = backoffs
    BY DEF Projection!Refine, Projection!evaluator
  <1>2. /\ Projection!TypeOK /\ EvaluatorIsTotal /\ Bracketed
        /\ Grid \in Nat /\ Grid # 0 /\ Refinements \in Nat /\ Backoffs \in Nat
    BY <1>1, SearchConstants DEF ProjectionInv
  <1>3. EvaluatorIsTotal' /\ \A j : Projection!Feasible(j)' = Projection!Feasible(j)
    BY <1>1, <1>2, EvaluatorStays
  <1>4. /\ scale \in 1 .. Grid /\ upper \in 1 .. Grid /\ seen \subseteq 1 .. Grid
        /\ rounds \in 0 .. Refinements
    BY <1>2 DEF Projection!TypeOK, Projection!Scales
  <1>5. /\ best \in 1 .. Grid /\ best < upper /\ upper \in seen
        /\ Projection!Feasible(best) /\ ~Projection!Feasible(upper)
        /\ backoffs \in 1 .. Backoffs /\ attempts = 1 + backoffs + rounds
        /\ \A j \in seen : Projection!Feasible(j) => j <= best
    BY <1>2 DEF Bracketed
  <1>6. middle \in Nat /\ middle < upper /\ (middle <= best => upper = best + 1)
    BY <1>2, <1>4, <1>5
  <1>7. CASE rounds >= Refinements \/ middle <= best
    <2>1. /\ phase' = "selected" /\ upper' = upper /\ best' = best /\ attempts' = attempts
          /\ rounds' = rounds /\ seen' = seen
      BY <1>7 DEF Projection!Refine
    <2>2. Projection!TypeOK' BY <2>1, <1>1, <1>2 DEF Projection!TypeOK, Projection!Scales
    <2>3. (Projection!Feasible(best) /\ ~Projection!Feasible(upper))'
      BY <2>1, <1>1, <1>5 DEF Projection!Feasible, Projection!NormGuard, Projection!EnergyGuard
    <2>4. (\A j \in seen : Projection!Feasible(j) => j <= best)' BY <2>1, <1>3, <1>5
    <2>5. Bracketed' BY <2>1, <2>3, <2>4, <1>1, <1>5 DEF Bracketed
    <2>6. rounds' >= Refinements \/ upper' = best' + 1 BY <2>1, <1>6, <1>7
    <2> QED BY <2>1, <2>2, <2>5, <2>6, <1>3 DEF ProjectionInv
  <1>8. CASE ~(rounds >= Refinements \/ middle <= best)
    <2>1. /\ Projection!Narrow(middle) /\ attempts' = attempts + 1 /\ rounds' = rounds + 1
          /\ seen' = seen \cup {middle} /\ phase' = phase
      BY <1>8 DEF Projection!Refine
    <2>2. middle \in 1 .. Grid /\ best < middle /\ rounds < Refinements
      BY <1>2, <1>4, <1>5, <1>6, <1>8
    <2> HIDE DEF middle
    <2>3. \/ Projection!Feasible(middle) /\ best' = middle /\ upper' = upper
          \/ ~Projection!Feasible(middle) /\ best' = best /\ upper' = middle
      BY <2>1 DEF Projection!Narrow
    <2>4. /\ best' \in 1 .. Grid /\ upper' \in 1 .. Grid /\ best' < upper' /\ upper' \in seen'
          /\ Projection!Feasible(best') /\ ~Projection!Feasible(upper')
      BY <2>1, <2>2, <2>3, <1>4, <1>5, <1>6
    <2>5. \A j \in seen' : Projection!Feasible(j) => j <= best'
      <3> SUFFICES ASSUME NEW j \in seen', Projection!Feasible(j) PROVE j <= best'
        OBVIOUS
      <3>1. CASE j = middle BY <3>1, <2>2, <2>3
      <3>2. CASE j \in seen BY <3>2, <2>2, <2>3, <1>4, <1>5
      <3> QED BY <3>1, <3>2, <2>1
    <2>6. attempts' = 1 + backoffs' + rounds' /\ backoffs' \in 1 .. Backoffs
          /\ rounds' \in 0 .. Refinements /\ attempts' \in 1 .. 1 + Backoffs + Refinements
      BY <2>1, <2>2, <1>1, <1>2, <1>4, <1>5
    <2>7. Projection!TypeOK'
      <3>1. seen' \subseteq 1 .. Grid /\ best' \in 0 .. Grid /\ backoffs' \in 0 .. Backoffs
        BY <2>1, <2>2, <2>4, <2>6, <1>2, <1>4
      <3> QED BY <3>1, <2>1, <2>4, <2>6, <1>1, <1>4 DEF Projection!TypeOK, Projection!Scales
    <2>8. (Projection!Feasible(best) /\ ~Projection!Feasible(upper))'
      BY <2>4, <1>1 DEF Projection!Feasible, Projection!NormGuard, Projection!EnergyGuard
    <2>9. (\A j \in seen : Projection!Feasible(j) => j <= best)' BY <2>5, <1>3
    <2>10. Bracketed' BY <2>4, <2>6, <2>8, <2>9 DEF Bracketed
    <2> QED BY <2>1, <2>7, <2>10, <1>1, <1>3 DEF ProjectionInv
  <1> QED BY <1>7, <1>8

LEMMA NextProjectionInv ==
  ProjectionInv /\ [Projection!Next]_(Projection!vars) => ProjectionInv'
  <1> SUFFICES ASSUME ProjectionInv, [Projection!Next]_(Projection!vars) PROVE ProjectionInv'
    OBVIOUS
  <1>1. CASE Projection!Next BY <1>1, DirectStep, BackoffStep, RefineStep DEF Projection!Next
  <1>2. CASE UNCHANGED Projection!vars
    <2>1. /\ norm' = norm /\ direction' = direction /\ energy' = energy /\ phase' = phase
          /\ scale' = scale /\ upper' = upper /\ best' = best /\ attempts' = attempts
          /\ backoffs' = backoffs /\ rounds' = rounds /\ seen' = seen
      BY <1>2 DEF Projection!vars, Projection!evaluator
    <2> QED
      BY <2>1
      DEF ProjectionInv, Projection!TypeOK, EvaluatorIsTotal, NothingTried, AllFailed, Bracketed,
          Projection!Feasible, Projection!NormGuard, Projection!EnergyGuard, Projection!Scales
  <1> QED BY <1>1, <1>2

(* The promises of the projection, from its invariant. *)
LEMMA ProjectionIsAsPromised ==
  ProjectionInv => /\ Projection!TypeOK /\ Projection!SelectedIsBestSeen
                   /\ Projection!SelectedIsTight /\ Projection!SelectionIsAccepted
  <1> SUFFICES ASSUME ProjectionInv
               PROVE /\ Projection!TypeOK /\ Projection!SelectedIsBestSeen
                     /\ Projection!SelectedIsTight /\ Projection!SelectionIsAccepted
    OBVIOUS
  <1>1. Projection!TypeOK BY DEF ProjectionInv
  <1>2. CASE phase # "selected"
    BY <1>1, <1>2
    DEF Projection!SelectedIsBestSeen, Projection!SelectedIsTight, Projection!SelectionIsAccepted
  <1>3. CASE phase = "selected" /\ best = Grid /\ attempts = 1 /\ backoffs = 0
             /\ seen = {Grid} /\ Projection!Feasible(Grid)
    BY <1>1, <1>3, SearchConstants
    DEF Projection!SelectedIsBestSeen, Projection!SelectedIsTight, Projection!SelectionIsAccepted,
        Projection!Provenance
  <1>4. CASE phase = "selected" /\ Bracketed /\ (rounds >= Refinements \/ upper = best + 1)
    <2>1. Projection!SelectedIsBestSeen BY <1>4 DEF Bracketed, Projection!SelectedIsBestSeen
    <2>2. rounds \in 0 .. Refinements /\ upper \in 1 .. Grid
      BY <1>1 DEF Projection!TypeOK, Projection!Scales
    <2>3. Projection!SelectedIsTight
      BY <1>4, <2>2, SearchConstants DEF Bracketed, Projection!SelectedIsTight
    <2>4. best \in 1 .. Grid - 1 /\ attempts >= 1 + backoffs
          /\ attempts <= 1 + backoffs + Refinements /\ backoffs \in 1 .. Backoffs
      BY <1>4, <2>2, SearchConstants DEF Bracketed
    <2> QED
      BY <1>1, <2>1, <2>3, <2>4 DEF Projection!SelectionIsAccepted, Projection!Provenance
  <1> QED BY <1>2, <1>3, <1>4 DEF ProjectionInv

\* Where the composition does not study the projection, its search has not begun.
LEMMA ProjectionStartsAnyhow == Start => ProjectionInv
  <1> SUFFICES ASSUME Start PROVE ProjectionInv
    OBVIOUS
  <1>1. CASE program = "projection" BY <1>1, ProjectionStarts DEF Start
  <1>2. CASE program # "projection"
    <2>1. /\ norm = [k \in 1 .. Grid |-> k] /\ direction = [k \in 1 .. Grid |-> TRUE]
          /\ energy = Grid /\ phase = "direct" /\ NothingTried
      BY <1>2 DEF Start, NothingTried
    <2>2. Grid \in Nat /\ \A k \in 1 .. Grid : k \in Nat /\ k # 0 BY SearchConstants
    <2>3. EvaluatorIsTotal BY <2>1, <2>2 DEF EvaluatorIsTotal
    <2> QED BY <2>1, <2>3, NothingTriedTypes DEF ProjectionInv
  <1> QED BY <1>1, <1>2

\* The impulse's budgets for every grid, number of steps, speed and rounding: the norm
\* decides and the control is covered (_run_step), the audit agrees with the run
\* (_validate_trace_schedule_and_budget), and the scale selected is the largest seen to
\* pass, right under one that failed (_select_largest_feasible_projection).
THEOREM BudgetsStayKept == AllSpec => []BudgetsAreKept
  <1> DEFINE Inv == ExposureInv /\ ProjectionInv
  <1>1. Start => Inv BY ExposureStarts, ProjectionStartsAnyhow DEF Start
  <1>2. Inv /\ [SomeStep]_allVars => Inv'
    BY ExposureProjects, ProjectionProjects, NextExposureInv, NextProjectionInv
  <1>3. Inv => BudgetsAreKept
    BY ExposureIsAsPromised, ProjectionIsAsPromised DEF BudgetsAreKept
  <1> QED BY <1>1, <1>2, <1>3, PTL DEF AllSpec

-----------------------------------------------------------------------------
(* The response preflights.  The forwards are counted in the planned order    *)
(* whatever the pipeline does; in the phase version a scope that left our     *)
(* method behind refuses the next one, so that what was counted was clean.    *)

Forwards == [branch : Preflight!Branches, pair : Nat, clean : BOOLEAN]

\* The forwards counted are the first of the plan, and the second of a pair follows the
\* first at once.
CountedAsPlanned ==
  /\ \A n \in 1 .. Len(log) : log[n].branch = Preflight!Planned(n).branch
                             /\ log[n].pair = Preflight!Planned(n).pair
  /\ preflightPc = "repeat" =>
       \/ Len(log) = 1 /\ "conditional" \in branches
       \/ Len(log) = 3 /\ "unconditional" \in branches

\* In the phase version a method of ours that stayed is flagged.
FlaggedIfLeft ==
  kind = "phase" =>
    /\ "method" \in inner => "active" \in inner
    /\ \A n \in 1 .. Len(log) : log[n].clean

\* What holds while the caller winds up: a measurement that goes on to its batch is
\* complete and has given both methods back, and in the phase version methods stay
\* only where giving them back raised.
WindsUp ==
  /\ preflightPc = "enter" => patched = {}
  /\ preflightPc \in {"batch", "release", "done"} /\ patched # {} =>
       (kind = "phase" => stuck) /\ preflightPc # "batch"
  /\ preflightPc = "release" /\ exc = "none" => Preflight!AllCounted /\ patched = {}
  /\ preflightPc # "done" => result = "none"
  /\ result = "batch" => Preflight!AllCounted /\ patched = {}

PreflightInv == Preflight!TypeOK /\ CountedAsPlanned /\ FlaggedIfLeft /\ WindsUp

LEMMA PreflightProjects == [SomeStep]_allVars => [Preflight!Next]_(Preflight!vars)
  <1> SUFFICES ASSUME [SomeStep]_allVars PROVE [Preflight!Next]_(Preflight!vars)
    OBVIOUS
  <1> USE DEF preflightVars, Preflight!vars
  <1>1. CASE PreflightStep BY <1>1 DEF PreflightStep
  <1>2. CASE Rest /\ program # "preflight" BY <1>2 DEF Rest
  <1>3. CASE UNCHANGED allVars BY <1>3 DEF allVars
  <1> QED
    BY <1>1, <1>2, <1>3
    DEF SomeStep, VelocityStep, ProjectionStep, FeedbackStep, ImpulseStep, ExposureStep,
        ContractStep, CauseStep, ResponseStep, SixVideoStep

\* The number of pairs and of the pipeline's calls.
LEMMA PairsNat == ResponsePairs \in Nat /\ ResponsePairs # 0 /\ ResponseCalls \in Nat
  BY InstancesAssumption DEF Preflight!PreflightAssumption

LEMMA PreflightStarts == Preflight!Init => PreflightInv
  <1> SUFFICES ASSUME Preflight!Init PROVE PreflightInv
    OBVIOUS
  <1> USE DEF Preflight!Init
  <1>1. Preflight!TypeOK
    <2>1. 0 \in 0 .. ResponseCalls /\ 0 \in 0 .. 2 * ResponsePairs BY PairsNat
    <2>2. log \in Seq(Forwards) OBVIOUS
    <2> QED
      BY <2>1, <2>2
      DEF Preflight!TypeOK, Preflight!Branches, Preflight!Methods, Forwards
  <1>2. CountedAsPlanned BY DEF CountedAsPlanned
  <1>3. FlaggedIfLeft BY DEF FlaggedIfLeft
  <1>4. WindsUp BY DEF WindsUp
  <1> QED BY <1>1, <1>2, <1>3, <1>4 DEF PreflightInv

\* A forward that runs is the next of the plan, and it is clean where the scopes flag
\* what they left behind.
LEMMA ForwardCounted ==
  ASSUME PreflightInv, Preflight!ForwardRuns(Len(log) + 1), kind' = kind
  PROVE  /\ inner' = inner /\ log' \in Seq(Forwards) /\ Len(log') = Len(log) + 1
         /\ \A n \in 1 .. Len(log') : log'[n].branch = Preflight!Planned(n).branch
                                     /\ log'[n].pair = Preflight!Planned(n).pair
         /\ FlaggedIfLeft'
  <1> DEFINE next == Preflight!Planned(Len(log) + 1)
             new == [branch |-> next.branch, pair |-> next.pair, clean |-> inner = {}]
  <1>1. log' = Append(log, new) /\ inner' = inner /\ "active" \notin inner
    BY DEF Preflight!ForwardRuns, Preflight!Counted
  <1>2. log \in Seq(Forwards) /\ Len(log) \in Nat /\ inner \subseteq {"active", "method"}
    BY DEF PreflightInv, Preflight!TypeOK, Forwards
  <1>3. next.branch \in Preflight!Branches /\ next.pair \in Nat
    BY <1>2 DEF Preflight!Planned, Preflight!Branches
  <1>4. /\ new.branch = next.branch /\ new.pair = next.pair /\ new.clean = (inner = {})
        /\ new \in Forwards
    BY <1>3 DEF Forwards
  <1> HIDE DEF new
  <1>5. /\ log' \in Seq(Forwards) /\ Len(log') = Len(log) + 1 /\ log'[Len(log) + 1] = new
        /\ \A n \in 1 .. Len(log) : log'[n] = log[n]
    BY <1>1, <1>2, <1>4
  <1>6. \A n \in 1 .. Len(log) : log[n].branch = Preflight!Planned(n).branch
                                /\ log[n].pair = Preflight!Planned(n).pair
    BY DEF PreflightInv, CountedAsPlanned
  <1>7. ASSUME NEW n \in 1 .. Len(log')
        PROVE  log'[n].branch = Preflight!Planned(n).branch
               /\ log'[n].pair = Preflight!Planned(n).pair
    <2>1. CASE n = Len(log) + 1 BY <2>1, <1>4, <1>5
    <2>2. CASE n \in 1 .. Len(log) BY <2>2, <1>5, <1>6
    <2> QED BY <2>1, <2>2, <1>2, <1>5
  <1>8. FlaggedIfLeft'
    <2> SUFFICES ASSUME kind = "phase"
                 PROVE  /\ "method" \in inner' => "active" \in inner'
                        /\ \A n \in 1 .. Len(log') : log'[n].clean
      BY DEF FlaggedIfLeft
    <2>1. ("method" \in inner => "active" \in inner) /\ \A n \in 1 .. Len(log) : log[n].clean
      BY DEF PreflightInv, FlaggedIfLeft
    <2>2. inner = {} BY <2>1, <1>1, <1>2
    <2>3. new.clean BY <2>2, <1>4
    <2>4. ASSUME NEW n \in 1 .. Len(log') PROVE log'[n].clean
      <3>1. CASE n = Len(log) + 1 BY <3>1, <2>3, <1>5
      <3>2. CASE n \in 1 .. Len(log) BY <3>2, <2>1, <1>5
      <3> QED BY <3>1, <3>2, <1>2, <1>5
    <2> QED BY <2>1, <2>4, <1>1
  <1> QED BY <1>1, <1>5, <1>7, <1>8

\* A forward that fails leaves nothing of ours behind that the phase version does not flag.
LEMMA ForwardFailed ==
  ASSUME PreflightInv, Preflight!ForwardFails \/ inner' = inner, kind' = kind, log' = log
  PROVE  inner' \subseteq {"active", "method"} /\ FlaggedIfLeft'
  <1>1. /\ inner \subseteq {"active", "method"} /\ FlaggedIfLeft /\ kind \in {"phase", "block"}
    BY DEF PreflightInv, Preflight!TypeOK
  <1>2. CASE inner' = inner BY <1>1, <1>2 DEF FlaggedIfLeft
  <1>3. CASE Preflight!ForwardFails /\ inner' # inner
    <2>1. PICK left \in Preflight!Leftovers : inner' = inner \cup left
      BY <1>3 DEF Preflight!ForwardFails
    <2>2. left \subseteq {"active", "method"} /\ (kind = "phase" /\ "method" \in left => "active" \in left)
      BY <1>1 DEF Preflight!Leftovers
    <2> QED BY <2>1, <2>2, <1>1 DEF FlaggedIfLeft
  <1> QED BY <1>2, <1>3

\* A step that neither counts a forward nor touches what the scopes left.
LEMMA NoForward ==
  ASSUME PreflightInv, kind' = kind, log' = log, branches' = branches, inner' = inner,
         preflightPc' # "repeat" \/ preflightPc' = preflightPc
  PROVE  CountedAsPlanned' /\ FlaggedIfLeft'
  BY DEF PreflightInv, CountedAsPlanned, FlaggedIfLeft

\* The methods are installed, or not both of them.
LEMMA EntersInv ==
  ASSUME PreflightInv, Preflight!Enter \/ Preflight!EnterFails
  PROVE  PreflightInv'
  <1> USE DEF Preflight!Enter, Preflight!EnterFails
  <1>1. CountedAsPlanned' /\ FlaggedIfLeft'
    <2>1. preflightPc' # "repeat" /\ kind' = kind /\ log' = log /\ branches' = branches
          /\ inner' = inner
      OBVIOUS
    <2> QED BY <2>1, NoForward
  <1>2. CASE Preflight!Enter
    BY <1>1, <1>2
    DEF PreflightInv, Preflight!TypeOK, WindsUp, Preflight!Methods, Preflight!AllCounted
  <1>3. CASE Preflight!EnterFails
    <2>1. PICK got \in {{}, {"forward"}} : Preflight!Rollback(got) BY <1>3
    <2>2. /\ patched' \subseteq Preflight!Methods /\ stuck' \in BOOLEAN
          /\ patched' # {} /\ kind = "phase" => stuck'
      BY <2>1 DEF Preflight!Rollback, Preflight!Methods, PreflightInv, Preflight!TypeOK
    <2> QED
      BY <1>1, <1>3, <2>2
      DEF PreflightInv, Preflight!TypeOK, WindsUp, Preflight!AllCounted
  <1> QED BY <1>2, <1>3

\* One of the forwards of the measurement runs.
LEMMA ForwardsInv ==
  ASSUME PreflightInv,
         Preflight!ExternalForward \/ Preflight!Repeat \/ Preflight!StepForward
  PROVE  PreflightInv'
  <1> USE DEF Preflight!ExternalForward, Preflight!Repeat, Preflight!StepForward
  <1>1. Preflight!ForwardRuns(Len(log) + 1) /\ kind' = kind
    OBVIOUS
  <1>2. /\ inner' = inner /\ log' \in Seq(Forwards) /\ Len(log') = Len(log) + 1
        /\ \A n \in 1 .. Len(log') : log'[n].branch = Preflight!Planned(n).branch
                                    /\ log'[n].pair = Preflight!Planned(n).pair
        /\ FlaggedIfLeft'
    BY <1>1, ForwardCounted
  <1>3. /\ Preflight!TypeOK /\ CountedAsPlanned /\ WindsUp /\ Len(log) \in Nat
    BY DEF PreflightInv, Preflight!TypeOK
  <1>4. CASE Preflight!ExternalForward
    <2>1. /\ preflightPc = "pipe" /\ preflightPc' = "repeat" /\ calls' = calls + 1
          /\ calls < ResponseCalls /\ Len(log) \in {0, 2}
          /\ branches' = branches \cup {Preflight!Branch}
          /\ base' = base /\ todo' = todo /\ patched' = patched /\ exc' = exc
          /\ record' = record /\ completed' = completed /\ stuck' = stuck /\ result' = result
      BY <1>4 DEF Preflight!Called, Preflight!Admitted
    <2>2. /\ Preflight!Branch \in Preflight!Branches
          /\ Len(log) = 0 => Preflight!Branch = "conditional"
          /\ Len(log) = 2 => Preflight!Branch = "unconditional"
      BY DEF Preflight!Branch, Preflight!Branches
    <2>3. CountedAsPlanned'
      <3>1. \/ Len(log') = 1 /\ "conditional" \in branches'
            \/ Len(log') = 3 /\ "unconditional" \in branches'
        <4>1. CASE Len(log) = 0 BY <4>1, <2>1, <2>2, <1>2
        <4>2. CASE Len(log) = 2 BY <4>2, <2>1, <2>2, <1>2
        <4> QED BY <4>1, <4>2, <2>1
      <3> QED BY <3>1, <1>2 DEF CountedAsPlanned
    <2>4. WindsUp' BY <2>1, <1>3 DEF WindsUp
    <2>5. Preflight!TypeOK'
      BY <2>1, <2>2, <1>2, <1>3, PairsNat DEF Preflight!TypeOK, Forwards
    <2> QED BY <2>3, <2>4, <2>5, <1>2 DEF PreflightInv
  <1>5. CASE Preflight!Repeat
    <2>1. /\ preflightPc = "repeat" /\ preflightPc' = "pipe" /\ calls' = calls
          /\ branches' = branches
          /\ base' = base \cup {IF Len(log) = 1 THEN "conditional" ELSE "unconditional"}
          /\ todo' = todo /\ patched' = patched /\ exc' = exc
          /\ record' = record /\ completed' = completed /\ stuck' = stuck /\ result' = result
      BY <1>5
    <2>2. IF Len(log) = 1 THEN "conditional" \in branches ELSE "unconditional" \in branches
      <3>1. \/ Len(log) = 1 /\ "conditional" \in branches
            \/ Len(log) = 3 /\ "unconditional" \in branches
        BY <2>1, <1>3 DEF CountedAsPlanned
      <3>2. 3 # 1 OBVIOUS
      <3> QED BY <3>1, <3>2, Zenon
    <2>3. CountedAsPlanned' BY <2>1, <1>2 DEF CountedAsPlanned
    <2>4. WindsUp' BY <2>1, <1>3 DEF WindsUp
    <2>5. base' \subseteq branches' BY <2>1, <2>2, <1>3 DEF Preflight!TypeOK
    <2>6. Preflight!TypeOK' BY <2>1, <2>5, <1>2, <1>3 DEF Preflight!TypeOK, Forwards
    <2> QED BY <2>3, <2>4, <2>6, <1>2 DEF PreflightInv
  <1>6. CASE Preflight!StepForward
    <2>1. /\ preflightPc = "step" /\ preflightPc' = preflightPc /\ calls' = calls
          /\ branches' = branches /\ base' = base /\ todo > 0 /\ todo' = todo - 1
          /\ patched' = patched /\ exc' = exc
          /\ record' = record /\ completed' = completed /\ stuck' = stuck /\ result' = result
      BY <1>6
    <2>2. CountedAsPlanned' BY <2>1, <1>2 DEF CountedAsPlanned
    <2>3. WindsUp' BY <2>1, <1>3 DEF WindsUp
    <2>4. todo' \in 0 .. 2 * ResponsePairs BY <2>1, <1>3, PairsNat DEF Preflight!TypeOK
    <2>5. Preflight!TypeOK' BY <2>1, <2>4, <1>2, <1>3 DEF Preflight!TypeOK, Forwards
    <2> QED BY <2>2, <2>3, <2>5, <1>2 DEF PreflightInv
  <1> QED BY <1>4, <1>5, <1>6

\* A forward, or the step around it, raises.
LEMMA ForwardsRaiseInv ==
  ASSUME PreflightInv,
         Preflight!ForwardRaises \/ Preflight!RepeatRaises \/ Preflight!StepRaises
  PROVE  PreflightInv'
  <1> USE DEF Preflight!ForwardRaises, Preflight!RepeatRaises, Preflight!StepRaises,
              Preflight!Raises, Preflight!Called
  <1>1. /\ preflightPc \in {"pipe", "repeat", "step"} /\ preflightPc' = "raised"
        /\ exc' = "foreign" /\ kind' = kind /\ log' = log /\ base' = base /\ todo' = todo
        /\ patched' = patched /\ record' = record /\ completed' = completed /\ stuck' = stuck
        /\ result' = result
        /\ Preflight!ForwardFails \/ inner' = inner
    OBVIOUS
  <1>2. calls' = calls \/ (calls < ResponseCalls /\ calls' = calls + 1)
    OBVIOUS
  <1>3. branches' = branches \/ branches' = branches \cup {Preflight!Branch}
    <2>1. CASE Preflight!ForwardRaises BY <2>1
    <2>2. CASE Preflight!RepeatRaises BY <2>2
    <2>3. CASE Preflight!StepRaises BY <2>3
    <2> QED BY <2>1, <2>2, <2>3
  <1>4. Preflight!TypeOK /\ CountedAsPlanned /\ WindsUp BY DEF PreflightInv
  <1>5. inner' \subseteq {"active", "method"} /\ FlaggedIfLeft' BY <1>1, ForwardFailed
  <1>6. CountedAsPlanned' BY <1>1, <1>4 DEF CountedAsPlanned
  <1>7. WindsUp' BY <1>1, <1>4 DEF WindsUp
  <1>8. calls' \in 0 .. ResponseCalls BY <1>2, <1>4, PairsNat DEF Preflight!TypeOK
  <1>9. base' \subseteq branches' /\ branches' \subseteq Preflight!Branches
    BY <1>1, <1>3, <1>4 DEF Preflight!TypeOK, Preflight!Branch, Preflight!Branches
  <1>10. Preflight!TypeOK' BY <1>1, <1>4, <1>5, <1>8, <1>9 DEF Preflight!TypeOK
  <1> QED BY <1>5, <1>6, <1>7, <1>10 DEF PreflightInv

\* No forward is made: the step begins, is refused or completes, and the pipeline does
\* with what it is thrown whatever it likes.
LEMMA PipelineInv ==
  ASSUME PreflightInv,
         \/ Preflight!ForwardRefused \/ Preflight!StepStarts \/ Preflight!StepRefused
         \/ Preflight!StepCompletes \/ Preflight!PipelineLetsPass \/ Preflight!PipelineCatches
         \/ Preflight!PipelineRaises \/ Preflight!PipelineRaisesOwn
         \/ Preflight!PipelineReturns
  PROVE  PreflightInv'
  <1> USE DEF Preflight!ForwardRefused, Preflight!StepStarts, Preflight!StepRefused,
              Preflight!StepCompletes, Preflight!PipelineLetsPass, Preflight!PipelineCatches,
              Preflight!PipelineRaises, Preflight!PipelineRaisesOwn,
              Preflight!PipelineReturns, Preflight!Raises, Preflight!Called
  <1>1. /\ preflightPc \in {"pipe", "step", "raised"}
        /\ preflightPc' \in {"pipe", "step", "raised", "exit"}
        /\ kind' = kind /\ log' = log /\ branches' = branches /\ base' = base
        /\ inner' = inner /\ patched' = patched
        /\ completed' = completed /\ stuck' = stuck /\ result' = result
    OBVIOUS
  <1>2. exc' = exc \/ exc' = "none" \/ exc' = "own" \/ exc' = "foreign"
    OBVIOUS
  <1>3. calls' = calls \/ (calls < ResponseCalls /\ calls' = calls + 1)
    OBVIOUS
  <1>4. todo' = todo \/ todo' = 2 * ResponsePairs
    OBVIOUS
  <1>5. record' = record \/ record' = TRUE
    <2>1. CASE Preflight!StepCompletes BY <2>1
    <2>2. CASE ~Preflight!StepCompletes BY <2>2
    <2> QED BY <2>1, <2>2
  <1>6. Preflight!TypeOK /\ WindsUp BY DEF PreflightInv
  <1>7. CountedAsPlanned' /\ FlaggedIfLeft' BY <1>1, NoForward
  <1>8. WindsUp' BY <1>1, <1>6 DEF WindsUp
  <1>9. /\ calls' \in 0 .. ResponseCalls /\ todo' \in 0 .. 2 * ResponsePairs
        /\ record' \in BOOLEAN /\ exc' \in {"none", "own", "foreign"}
    <2>1. /\ calls \in 0 .. ResponseCalls /\ todo \in 0 .. 2 * ResponsePairs
          /\ record \in BOOLEAN /\ exc \in {"none", "own", "foreign"}
      BY <1>6 DEF Preflight!TypeOK
    <2>2. calls' \in 0 .. ResponseCalls BY <2>1, <1>3, PairsNat
    <2>3. todo' \in 0 .. 2 * ResponsePairs BY <2>1, <1>4, PairsNat
    <2>4. record' \in BOOLEAN BY <2>1, <1>5
    <2>5. exc' \in {"none", "own", "foreign"} BY <2>1, <1>2
    <2> QED BY <2>2, <2>3, <2>4, <2>5
  <1>10. Preflight!TypeOK' BY <1>1, <1>6, <1>9 DEF Preflight!TypeOK
  <1> QED BY <1>7, <1>8, <1>10 DEF PreflightInv

\* The scope is left, the batch is judged, and everything is released.
LEMMA EndsInv ==
  ASSUME PreflightInv,
         \/ Preflight!RestoresBoth \/ Preflight!RestoreRaises \/ Preflight!Batch
         \/ Preflight!Release
  PROVE  PreflightInv'
  <1> USE DEF Preflight!RestoresBoth, Preflight!RestoreRaises, Preflight!Batch,
              Preflight!Release
  <1>1. /\ preflightPc \in {"exit", "batch", "release"}
        /\ preflightPc' \in {"batch", "release", "done"}
        /\ kind' = kind /\ log' = log /\ branches' = branches /\ base' = base
        /\ inner' = inner /\ calls' = calls /\ todo' = todo
    OBVIOUS
  <1>2. Preflight!TypeOK /\ WindsUp BY DEF PreflightInv
  <1>3. CountedAsPlanned' /\ FlaggedIfLeft' BY <1>1, NoForward
  <1>4. Preflight!AllCounted' = Preflight!AllCounted BY <1>1 DEF Preflight!AllCounted
  <1>5. CASE Preflight!RestoresBoth
    <2>1. /\ patched' = {} /\ stuck' = stuck /\ result' = result /\ preflightPc = "exit"
          /\ completed' = Preflight!Exact /\ record' = (record /\ Preflight!Exact)
          /\ exc' = IF Preflight!Exact THEN "none" ELSE exc
          /\ preflightPc' = IF exc' = "none" THEN "batch" ELSE "release"
      BY <1>5
    <2>2. completed' \in BOOLEAN /\ record' \in BOOLEAN BY <2>1 DEF Preflight!Exact
    <2>3. exc' \in {"none", "own", "foreign"} BY <2>1, <1>2 DEF Preflight!TypeOK
    <2>4. Preflight!TypeOK' BY <1>1, <1>2, <2>1, <2>2, <2>3 DEF Preflight!TypeOK
    <2>5. WindsUp' BY <1>2, <2>1 DEF WindsUp
    <2> QED BY <2>4, <2>5, <1>3 DEF PreflightInv
  <1>6. CASE Preflight!RestoreRaises
    <2>1. /\ patched' \subseteq patched /\ stuck' = TRUE /\ result' = result
          /\ preflightPc = "exit" /\ completed' = completed /\ record' = FALSE
          /\ exc' = "foreign" /\ preflightPc' = "release"
      BY <1>6
    <2>2. Preflight!TypeOK' BY <1>1, <1>2, <2>1 DEF Preflight!TypeOK
    <2>3. WindsUp' BY <1>2, <2>1 DEF WindsUp
    <2> QED BY <2>2, <2>3, <1>3 DEF PreflightInv
  <1>7. CASE Preflight!Batch
    <2>1. /\ patched' = patched /\ stuck' = stuck /\ result' = result /\ record' = record
          /\ completed' = completed /\ preflightPc = "batch" /\ preflightPc' = "release"
          /\ exc' = IF completed /\ record /\ Preflight!AllCounted THEN "none" ELSE "foreign"
      BY <1>7
    <2>2. Preflight!TypeOK' BY <1>1, <1>2, <2>1 DEF Preflight!TypeOK
    <2>3. exc' = "none" => Preflight!AllCounted BY <2>1
    <2>4. WindsUp' BY <1>2, <1>1, <1>4, <2>1, <2>3 DEF WindsUp
    <2> QED BY <2>2, <2>4, <1>3 DEF PreflightInv
  <1>8. CASE Preflight!Release
    <2>1. /\ patched' = patched /\ stuck' = stuck /\ record' = FALSE
          /\ completed' = completed /\ preflightPc = "release" /\ preflightPc' = "done"
          /\ result' = IF exc' = "none" THEN "batch" ELSE "raised"
          /\ exc' = exc \/ exc' = "foreign"
      BY <1>8
    <2>2. Preflight!TypeOK' BY <1>1, <1>2, <2>1 DEF Preflight!TypeOK
    <2>3. WindsUp' BY <1>2, <1>1, <1>4, <2>1 DEF WindsUp
    <2> QED BY <2>2, <2>3, <1>3 DEF PreflightInv
  <1> QED BY <1>5, <1>6, <1>7, <1>8

LEMMA NextPreflightInv == PreflightInv /\ [Preflight!Next]_(Preflight!vars) => PreflightInv'
  <1> SUFFICES ASSUME PreflightInv, [Preflight!Next]_(Preflight!vars) PROVE PreflightInv'
    OBVIOUS
  <1>1. CASE Preflight!Next
    BY <1>1, EntersInv, ForwardsInv, ForwardsRaiseInv, PipelineInv, EndsInv
    DEF Preflight!Next
  <1>2. CASE UNCHANGED Preflight!vars
    BY <1>2
    DEF Preflight!vars, PreflightInv, Preflight!TypeOK, CountedAsPlanned, FlaggedIfLeft, WindsUp,
        Preflight!AllCounted
  <1> QED BY <1>1, <1>2

(* The promises of the preflights, from the invariant. *)
LEMMA PreflightIsAsPromised ==
  PreflightInv => /\ Preflight!TypeOK /\ Preflight!BatchIsPlanned
                  /\ Preflight!BatchIsClean /\ Preflight!PhaseFailureRestores
  <1> SUFFICES ASSUME PreflightInv
               PROVE /\ Preflight!TypeOK /\ Preflight!BatchIsPlanned
                     /\ Preflight!BatchIsClean /\ Preflight!PhaseFailureRestores
    OBVIOUS
  <1>1. Preflight!TypeOK BY DEF PreflightInv
  <1>2. Preflight!BatchIsPlanned
    BY DEF PreflightInv, CountedAsPlanned, WindsUp, Preflight!BatchIsPlanned, Preflight!AllCounted
  <1>3. Preflight!BatchIsClean
    BY DEF PreflightInv, FlaggedIfLeft, WindsUp, Preflight!BatchIsClean
  <1>4. Preflight!PhaseFailureRestores
    BY DEF PreflightInv, WindsUp, Preflight!PhaseFailureRestores, Preflight!ScopeFailureRestores
  <1> QED BY <1>1, <1>2, <1>3, <1>4

\* A foreign exception on its way out is what the caller of a preflight gets: no restore
\* and no release turns it into a batch (__exit__ and the finally block).
THEOREM ForeignErrorsAreRaised == AllSpec => Preflight!ErrorIsRaised
  <1> DEFINE raised == exc = "foreign" /\ preflightPc \in {"exit", "release"} =>
                         exc' = "foreign" /\ result' # "batch"
  <1>1. PreflightInv /\ [SomeStep]_allVars => [raised]_(Preflight!vars)
    <2> SUFFICES ASSUME PreflightInv, [Preflight!Next]_(Preflight!vars), Preflight!vars' # Preflight!vars,
                        exc = "foreign", preflightPc \in {"exit", "release"}
                 PROVE  exc' = "foreign" /\ result' # "batch"
      BY PreflightProjects
    <2>1. result = "none" BY DEF PreflightInv, WindsUp
    <2>2. Preflight!RestoresBoth \/ Preflight!RestoreRaises \/ Preflight!Release
      BY DEF Preflight!Next, Preflight!Enter, Preflight!EnterFails, Preflight!ExternalForward,
             Preflight!Repeat, Preflight!ForwardRefused, Preflight!ForwardRaises,
             Preflight!RepeatRaises, Preflight!StepStarts, Preflight!StepRefused,
             Preflight!StepForward, Preflight!StepRaises, Preflight!StepCompletes,
             Preflight!PipelineLetsPass, Preflight!PipelineCatches, Preflight!PipelineRaises,
             Preflight!PipelineRaisesOwn, Preflight!PipelineReturns, Preflight!Batch,
             Preflight!Called
    <2>3. CASE Preflight!RestoresBoth
      BY <2>1, <2>3 DEF Preflight!RestoresBoth, Preflight!Exact
    <2>4. CASE Preflight!RestoreRaises BY <2>1, <2>4 DEF Preflight!RestoreRaises
    <2>5. CASE Preflight!Release BY <2>5 DEF Preflight!Release
    <2> QED BY <2>2, <2>3, <2>4, <2>5
  <1>2. Start => PreflightInv BY PreflightStarts DEF Start
  <1>3. PreflightInv /\ [SomeStep]_allVars => PreflightInv'
    BY PreflightProjects, NextPreflightInv
  <1> QED BY <1>1, <1>2, <1>3, PTL DEF AllSpec, Preflight!ErrorIsRaised

-----------------------------------------------------------------------------
(* The frozen feedback.  The wrapper compares sums of calls only; that every *)
(* step made its own two follows because each earlier step has been found    *)
(* even.  A decision is of the records that the stages before it left.       *)

Even(n) == \A i \in 0 .. n - 1 : feedbackCalls[i] = 2

\* The transformer calls: none before the trajectory, and during it none beyond the
\* step under way.
CallsFollowSteps ==
  /\ feedbackPc \in {"begin", "load"} =>
       steps = 0 /\ latents = 0 /\ \A i \in 0 .. FeedbackSteps : feedbackCalls[i] = 0
  /\ feedbackPc = "clean" =>
       /\ Even(steps) /\ latents = 0
       /\ \A i \in 0 .. FeedbackSteps : i > steps => feedbackCalls[i] = 0
  /\ feedbackPc \in {"branch", "decode", "validate", "features", "relabel", "gates",
                     "results", "manifest", "returned"} =>
       steps = FeedbackSteps /\ Even(FeedbackSteps)

\* No decision while the run is on its way to one, and no result file before its stage.
Undecided ==
  /\ feedbackPc \in {"load", "clean", "branch", "decode", "unwind", "validate", "features",
                     "relabel", "gates", "failed", "results"} =>
       feedbackDisk.decision = "none" /\ ~feedbackDisk.manifest
  /\ feedbackPc \in {"load", "clean", "branch", "decode", "unwind", "validate", "features",
                     "relabel", "gates", "failed"} => feedbackDisk.results = 0
  /\ feedbackPc = "manifest" => feedbackDisk.decision = "recorded"

\* What a stage hands to the next one.
Staged ==
  /\ feedbackPc \in {"decode", "validate", "features", "relabel", "gates", "results"} =>
       /\ latents = FeedbackBranches + 1
       /\ feedbackDisk.branches = FeedbackBranches + 1 /\ feedbackDisk.traced = FeedbackSteps
  /\ feedbackPc \in {"validate", "features", "relabel", "gates", "results"} =>
       feedbackDisk.rows = FeedbackBranches + 1
  /\ feedbackPc \in {"features", "relabel", "gates", "results"} =>
       \A o \in Feedback!Outputs : saved[o] = "whole"
  /\ feedbackPc \in {"gates", "results"} => ~feedbackDisk.legacy

FeedbackDisks ==
  [plan : BOOLEAN, rows : 0 .. FeedbackBranches + 1, traced : 0 .. FeedbackSteps,
   branches : 0 .. FeedbackBranches + 1, working : BOOLEAN, legacy : BOOLEAN,
   results : 0 .. 5, decision : {"none", "failure", "recorded"}, manifest : BOOLEAN]

FeedbackInv ==
  /\ Feedback!TypeOK /\ feedbackDisk \in FeedbackDisks
  /\ CallsFollowSteps /\ Undecided /\ Staged
  /\ Feedback!RowsAreSaved /\ Feedback!RecordedIsWhole /\ Feedback!FailureStandsAlone

LEMMA FeedbackProjects == [SomeStep]_allVars => [Feedback!Next]_(Feedback!vars)
  <1> SUFFICES ASSUME [SomeStep]_allVars PROVE [Feedback!Next]_(Feedback!vars)
    OBVIOUS
  <1> USE DEF feedbackVars, Feedback!vars
  <1>1. CASE FeedbackStep BY <1>1 DEF FeedbackStep
  <1>2. CASE Rest /\ program # "feedback" BY <1>2 DEF Rest
  <1>3. CASE UNCHANGED allVars BY <1>3 DEF allVars
  <1> QED
    BY <1>1, <1>2, <1>3
    DEF SomeStep, VelocityStep, ProjectionStep, PreflightStep, ImpulseStep, ExposureStep,
        ContractStep, CauseStep, ResponseStep, SixVideoStep

LEMMA FeedbackConstants ==
  /\ FeedbackSteps \in Nat /\ FeedbackSteps # 0 /\ FeedbackBranches \in Nat
  /\ FeedbackRuns \in Nat /\ FeedbackRuns # 0
  BY InstancesAssumption DEF Feedback!CountsAssumption

(* A set of natural numbers has a least one. *)
LEMMA LeastNumber ==
  ASSUME NEW T, T \subseteq Nat, T # {}
  PROVE  \E x \in T : \A y \in T : x <= y
  <1>1. PICK x \in T : \A y \in T : ~(<<y, x>> \in OpToRel(<, Nat))
    BY NatLessThanWellFounded, WFMin
  <1>2. \A a, b \in Nat : a < b => <<a, b>> \in OpToRel(<, Nat) BY DEF OpToRel
  <1>3. ASSUME NEW y \in T PROVE x <= y
    <2>1. x \in Nat /\ y \in Nat OBVIOUS
    <2>2. ~(y < x) BY <2>1, <1>1, <1>2
    <2> QED BY <2>1, <2>2
  <1> QED BY <1>3

\* The partial sums of the calls.
SumsOf(f) ==
  f = [i \in 0 .. FeedbackSteps |-> feedbackCalls[i] + IF i = 0 THEN 0 ELSE f[i - 1]]

(* The sum of the calls where every step before the n-th made two and none was made
   after it. *)
LEMMA CallsAddUp ==
  ASSUME NEW n \in 0 .. FeedbackSteps, feedbackCalls \in [0 .. FeedbackSteps -> Nat], Even(n),
         \A i \in 0 .. FeedbackSteps : i > n => feedbackCalls[i] = 0
  PROVE  Feedback!TotalCalls = 2 * n + feedbackCalls[n]
  <1> DEFINE e == [i \in 0 .. FeedbackSteps |->
                     IF i < n THEN 2 * (i + 1) ELSE 2 * n + feedbackCalls[n]]
  <1>1. n \in Nat /\ FeedbackSteps \in Nat /\ feedbackCalls[n] \in Nat /\ n <= FeedbackSteps
    BY FeedbackConstants
  <1>2. ASSUME NEW i \in 0 .. FeedbackSteps
        PROVE  e[i] = feedbackCalls[i] + IF i = 0 THEN 0 ELSE e[i - 1]
    <2>1. i \in Nat /\ i <= FeedbackSteps BY <1>1
    <2>2. e[i] = IF i < n THEN 2 * (i + 1) ELSE 2 * n + feedbackCalls[n] OBVIOUS
    <2>3. i # 0 => e[i - 1] = IF i - 1 < n THEN 2 * ((i - 1) + 1) ELSE 2 * n + feedbackCalls[n]
      BY <2>1, <1>1
    <2>4. /\ i < n => feedbackCalls[i] = 2
          /\ i > n => feedbackCalls[i] = 0
      BY <2>1, <1>1 DEF Even
    <2> HIDE DEF e
    <2>5. CASE i < n BY <2>1, <2>2, <2>3, <2>4, <2>5, <1>1
    <2>6. CASE i = n BY <2>1, <2>2, <2>3, <2>6, <1>1
    <2>7. CASE i > n BY <2>1, <2>2, <2>3, <2>4, <2>7, <1>1
    <2> QED BY <2>1, <2>5, <2>6, <2>7, <1>1
  <1>3. e = [i \in 0 .. FeedbackSteps |-> e[i]] OBVIOUS
  <1>4. e[FeedbackSteps] = 2 * n + feedbackCalls[n]
    <2>1. FeedbackSteps \in 0 .. FeedbackSteps /\ ~(FeedbackSteps < n) BY <1>1
    <2> QED BY <2>1
  <1> HIDE DEF e
  <1>5. SumsOf(e) BY <1>2, <1>3 DEF SumsOf
  <1>6. ASSUME NEW f, SumsOf(f) PROVE f[FeedbackSteps] = e[FeedbackSteps]
    <2> DEFINE Wrong == {i \in 0 .. FeedbackSteps : f[i] # e[i]}
    <2>1. \A i \in 0 .. FeedbackSteps : f[i] = feedbackCalls[i] + IF i = 0 THEN 0 ELSE f[i - 1]
      BY <1>6 DEF SumsOf
    <2>2. CASE Wrong = {} BY <2>2, <1>1
    <2>3. CASE Wrong # {}
      <3>1. Wrong \subseteq Nat BY <1>1
      <3>2. PICK i \in Wrong : \A j \in Wrong : i <= j
        <4> HIDE DEF Wrong
        <4> QED BY <2>3, <3>1, LeastNumber
      <3>3. i \in 0 .. FeedbackSteps /\ f[i] # e[i] OBVIOUS
      <3>4. i # 0 BY <3>3, <2>1, <1>2
      <3>5. i - 1 \in 0 .. FeedbackSteps /\ i - 1 \notin Wrong BY <3>2, <3>3, <3>4, <1>1
      <3>6. f[i - 1] = e[i - 1] BY <3>5
      <3> QED BY <3>3, <3>4, <3>6, <2>1, <1>2
    <2> QED BY <2>2, <2>3
  <1> DEFINE g == CHOOSE f : SumsOf(f)
  <1>7. SumsOf(g) BY <1>5
  <1>8. Feedback!TotalCalls = g[FeedbackSteps]
    BY DEF Feedback!TotalCalls, Feedback!Trailing, SumsOf
  <1>9. g[FeedbackSteps] = e[FeedbackSteps]
    <2> HIDE DEF g
    <2> QED BY <1>6, <1>7
  <1> QED BY <1>4, <1>8, <1>9

\* The stages, in the order in which each hands to the next.
Stages == {"begin", "load", "clean", "branch", "decode", "unwind", "validate", "features",
           "relabel", "gates", "failed", "results", "manifest", "returned", "raised", "killed"}

\* The records of a run that has not decided anything cannot contradict its decision.
LEMMA UndecidedRecords ==
  ASSUME feedbackDisk'.decision = "none", feedbackDisk'.manifest = FALSE
  PROVE  Feedback!RecordedIsWhole' /\ Feedback!FailureStandsAlone'
  BY DEF Feedback!RecordedIsWhole, Feedback!FailureStandsAlone

\* What no step of the disk or of the outputs can disturb.
LEMMA RecordsStay ==
  ASSUME FeedbackInv, feedbackDisk' = feedbackDisk, saved' = saved
  PROVE  /\ feedbackDisk' \in FeedbackDisks /\ Feedback!RowsAreSaved'
         /\ Feedback!RecordedIsWhole' /\ Feedback!FailureStandsAlone'
         /\ saved' \in [Feedback!Outputs -> {"none", "partial", "whole", "damaged"}]
  BY DEF FeedbackInv, Feedback!TypeOK, Feedback!RowsAreSaved, Feedback!RecordedIsWhole,
         Feedback!FailureStandsAlone

\* The invariant's parts.
LEMMA FeedbackParts ==
  ASSUME FeedbackInv
  PROVE  /\ feedbackPc \in Stages /\ feedbackRun \in 1 .. FeedbackRuns
         /\ steps \in 0 .. FeedbackSteps /\ latents \in 0 .. FeedbackBranches + 1
         /\ feedbackCalls \in [0 .. FeedbackSteps -> 0 .. 3]
         /\ saved \in [Feedback!Outputs -> {"none", "partial", "whole", "damaged"}]
         /\ installed <=> feedbackPc \in {"clean", "branch", "decode", "unwind"}
         /\ feedbackDisk \in FeedbackDisks
         /\ CallsFollowSteps /\ Undecided /\ Staged
         /\ Feedback!RowsAreSaved /\ Feedback!RecordedIsWhole /\ Feedback!FailureStandsAlone
  BY DEF FeedbackInv, Feedback!TypeOK, Stages, Feedback!Ended, Feedback!Trailing,
         Feedback!MaxCalls

\* ... from which it is put together again.
LEMMA FeedbackWhole ==
  ASSUME feedbackPc' \in Stages, feedbackRun' \in 1 .. FeedbackRuns,
         steps' \in 0 .. FeedbackSteps, latents' \in 0 .. FeedbackBranches + 1,
         feedbackCalls' \in [0 .. FeedbackSteps -> 0 .. 3],
         saved' \in [Feedback!Outputs -> {"none", "partial", "whole", "damaged"}],
         installed' <=> feedbackPc' \in {"clean", "branch", "decode", "unwind"},
         feedbackDisk' \in FeedbackDisks,
         CallsFollowSteps', Undecided', Staged',
         Feedback!RowsAreSaved', Feedback!RecordedIsWhole', Feedback!FailureStandsAlone'
  PROVE  FeedbackInv'
  <1>1. feedbackDisk'.decision \in {"none", "failure", "recorded"} BY DEF FeedbackDisks
  <1>2. Feedback!TypeOK'
    BY <1>1 DEF Feedback!TypeOK, Stages, Feedback!Ended, Feedback!Trailing, Feedback!MaxCalls
  <1> QED BY <1>2 DEF FeedbackInv

LEMMA FeedbackStarts == Feedback!Init => FeedbackInv
  <1> SUFFICES ASSUME Feedback!Init PROVE FeedbackInv
    OBVIOUS
  <1> USE DEF Feedback!Init, Feedback!Trailing
  <1>1. Feedback!TypeOK
    <2>1. 1 \in 1 .. FeedbackRuns /\ 0 \in 0 .. FeedbackSteps /\ 0 \in 0 .. FeedbackBranches + 1
      BY FeedbackConstants
    <2>2. feedbackCalls \in [0 .. FeedbackSteps -> 0 .. 3] OBVIOUS
    <2>3. saved \in [Feedback!Outputs -> {"none", "partial", "whole", "damaged"}] OBVIOUS
    <2> QED
      BY <2>1, <2>2, <2>3
      DEF Feedback!TypeOK, Feedback!EmptyDisk, Feedback!Ended, Feedback!MaxCalls
  <1>2. feedbackDisk \in FeedbackDisks
    BY FeedbackConstants DEF FeedbackDisks, Feedback!EmptyDisk
  <1>3. CallsFollowSteps /\ Undecided /\ Staged
    BY DEF CallsFollowSteps, Undecided, Staged
  <1>4. Feedback!RowsAreSaved /\ Feedback!RecordedIsWhole /\ Feedback!FailureStandsAlone
    BY DEF Feedback!RowsAreSaved, Feedback!RecordedIsWhole, Feedback!FailureStandsAlone,
           Feedback!EmptyDisk, Feedback!Outputs
  <1> QED BY <1>1, <1>2, <1>3, <1>4 DEF FeedbackInv

\* The start of a run: a new one, a directory that is refused or taken, the pipeline.
LEMMA OpeningInv ==
  ASSUME FeedbackInv,
         Feedback!Begin \/ Feedback!Refuse \/ Feedback!Load \/ Feedback!NextRun
  PROVE  FeedbackInv'
  <1>0. /\ feedbackPc \in Stages /\ feedbackRun \in 1 .. FeedbackRuns
        /\ steps \in 0 .. FeedbackSteps /\ latents \in 0 .. FeedbackBranches + 1
        /\ feedbackCalls \in [0 .. FeedbackSteps -> 0 .. 3]
        /\ saved \in [Feedback!Outputs -> {"none", "partial", "whole", "damaged"}]
        /\ installed <=> feedbackPc \in {"clean", "branch", "decode", "unwind"}
        /\ feedbackDisk \in FeedbackDisks
        /\ CallsFollowSteps /\ Undecided /\ Staged
        /\ Feedback!RowsAreSaved /\ Feedback!RecordedIsWhole /\ Feedback!FailureStandsAlone
    BY FeedbackParts
  <1>1. CASE Feedback!Begin /\ feedbackDisk = Feedback!EmptyDisk
    <2>1. /\ feedbackPc = "begin" /\ feedbackPc' = "load" /\ feedbackRun' = feedbackRun
          /\ feedbackCalls' = feedbackCalls /\ steps' = steps /\ installed' = installed
          /\ latents' = latents /\ saved' = saved
          /\ feedbackDisk' = [Feedback!EmptyDisk EXCEPT !.plan = TRUE]
      BY <1>1 DEF Feedback!Begin, Feedback!engine
    <2>2. /\ feedbackDisk' \in FeedbackDisks /\ feedbackDisk'.decision = "none"
          /\ feedbackDisk'.manifest = FALSE /\ feedbackDisk'.results = 0
          /\ feedbackDisk'.rows = 0
      <3>1. feedbackDisk' =
              [plan |-> TRUE, rows |-> 0, traced |-> 0, branches |-> 0, working |-> FALSE,
               legacy |-> FALSE, results |-> 0, decision |-> "none", manifest |-> FALSE]
        BY <2>1 DEF Feedback!EmptyDisk
      <3>2. 0 \in 0 .. FeedbackBranches + 1 /\ 0 \in 0 .. FeedbackSteps BY FeedbackConstants
      <3> QED BY <3>1, <3>2 DEF FeedbackDisks
    <2>3. CallsFollowSteps' BY <1>0, <2>1 DEF CallsFollowSteps
    <2>4. Undecided' /\ Staged' BY <2>1, <2>2 DEF Undecided, Staged
    <2>5. Feedback!RowsAreSaved' BY <2>2 DEF Feedback!RowsAreSaved, Feedback!Outputs
    <2>6. Feedback!RecordedIsWhole' /\ Feedback!FailureStandsAlone' BY <2>2, UndecidedRecords
    <2>7. feedbackPc' \in Stages BY <2>1 DEF Stages
    <2> QED BY <1>0, <2>1, <2>2, <2>3, <2>4, <2>5, <2>6, <2>7, FeedbackWhole
  <1>2. CASE (Feedback!Begin /\ feedbackDisk # Feedback!EmptyDisk) \/ Feedback!Refuse
    <2>1. /\ feedbackPc = "begin" /\ feedbackPc' = "raised" /\ feedbackRun' = feedbackRun
          /\ feedbackCalls' = feedbackCalls /\ steps' = steps /\ installed' = installed
          /\ latents' = latents /\ saved' = saved /\ feedbackDisk' = feedbackDisk
      BY <1>2 DEF Feedback!Begin, Feedback!Refuse, Feedback!engine
    <2>2. CallsFollowSteps' /\ Undecided' /\ Staged'
      BY <2>1 DEF CallsFollowSteps, Undecided, Staged
    <2>3. feedbackPc' \in Stages BY <2>1 DEF Stages
    <2> QED BY <1>0, <2>1, <2>2, <2>3, RecordsStay, FeedbackWhole
  <1>3. CASE Feedback!Load
    <2>1. /\ feedbackPc = "load" /\ feedbackRun' = feedbackRun
          /\ feedbackCalls' = feedbackCalls /\ steps' = steps
          /\ latents' = latents /\ saved' = saved
          /\ \/ /\ feedbackDisk' = [feedbackDisk EXCEPT !.working = TRUE]
                /\ installed' = TRUE /\ feedbackPc' = "clean"
             \/ feedbackDisk' = feedbackDisk /\ installed' = FALSE /\ feedbackPc' = "failed"
      BY <1>3 DEF Feedback!Load
    <2>2. /\ feedbackDisk.decision = "none" /\ ~feedbackDisk.manifest /\ feedbackDisk.results = 0
      BY <1>0, <2>1 DEF Undecided
    <2>3. /\ feedbackDisk' \in FeedbackDisks /\ feedbackDisk'.decision = "none"
          /\ feedbackDisk'.manifest = FALSE /\ feedbackDisk'.results = 0
          /\ feedbackDisk'.rows = feedbackDisk.rows
      BY <1>0, <2>1, <2>2 DEF FeedbackDisks
    <2>4. steps = 0 /\ latents = 0 /\ \A i \in 0 .. FeedbackSteps : feedbackCalls[i] = 0
      BY <1>0, <2>1 DEF CallsFollowSteps
    <2>5. CallsFollowSteps' BY <2>1, <2>4 DEF CallsFollowSteps, Even
    <2>6. Undecided' /\ Staged' BY <2>1, <2>3 DEF Undecided, Staged
    <2>7. Feedback!RowsAreSaved' BY <1>0, <2>1, <2>3 DEF Feedback!RowsAreSaved
    <2>8. Feedback!RecordedIsWhole' /\ Feedback!FailureStandsAlone' BY <2>3, UndecidedRecords
    <2>9. /\ feedbackPc' \in Stages
          /\ installed' <=> feedbackPc' \in {"clean", "branch", "decode", "unwind"}
      BY <2>1 DEF Stages
    <2> QED BY <1>0, <2>1, <2>3, <2>5, <2>6, <2>7, <2>8, <2>9, FeedbackWhole
  <1>4. CASE Feedback!NextRun
    <2>1. /\ feedbackPc \in {"returned", "raised", "killed"} /\ feedbackPc' = "begin"
          /\ feedbackRun < FeedbackRuns /\ feedbackRun' = feedbackRun + 1
          /\ feedbackCalls' = [i \in 0 .. FeedbackSteps |-> 0] /\ steps' = 0 /\ latents' = 0
          /\ installed' = installed /\ saved' = saved /\ feedbackDisk' = feedbackDisk
      BY <1>4 DEF Feedback!NextRun, Feedback!Ended, Feedback!Trailing
    <2>2. CallsFollowSteps' BY <2>1 DEF CallsFollowSteps
    <2>3. Undecided' /\ Staged' BY <2>1 DEF Undecided, Staged
    <2>4. /\ feedbackRun' \in 1 .. FeedbackRuns /\ steps' \in 0 .. FeedbackSteps
          /\ latents' \in 0 .. FeedbackBranches + 1
      BY <1>0, <2>1, FeedbackConstants
    <2>5. feedbackCalls' \in [0 .. FeedbackSteps -> 0 .. 3] BY <2>1
    <2>6. /\ feedbackPc' \in Stages
          /\ installed' <=> feedbackPc' \in {"clean", "branch", "decode", "unwind"}
      BY <1>0, <2>1 DEF Stages
    <2> QED BY <2>1, <2>2, <2>3, <2>4, <2>5, <2>6, RecordsStay, FeedbackWhole
  <1> QED BY <1>1, <1>2, <1>3, <1>4

\* The clean trajectory: a step is recorded only where the calls so far are even, and so
\* made by the steps they are counted for.
LEMMA TraceInv ==
  ASSUME FeedbackInv,
         Feedback!Forward \/ Feedback!RunCleanStep \/ Feedback!BuildTrace
           \/ Feedback!TraceFails
  PROVE  FeedbackInv'
  <1>0. /\ feedbackPc \in Stages /\ feedbackRun \in 1 .. FeedbackRuns
        /\ steps \in 0 .. FeedbackSteps /\ latents \in 0 .. FeedbackBranches + 1
        /\ feedbackCalls \in [0 .. FeedbackSteps -> 0 .. 3]
        /\ installed <=> feedbackPc \in {"clean", "branch", "decode", "unwind"}
        /\ CallsFollowSteps /\ Undecided /\ Staged
    BY FeedbackParts
  <1>1. /\ feedbackPc = "clean" /\ feedbackRun' = feedbackRun
        /\ installed' = installed /\ saved' = saved /\ feedbackDisk' = feedbackDisk
    BY DEF Feedback!Forward, Feedback!RunCleanStep, Feedback!BuildTrace, Feedback!TraceFails,
           Feedback!engine
  <1>2. /\ Even(steps) /\ latents = 0
        /\ \A i \in 0 .. FeedbackSteps : i > steps => feedbackCalls[i] = 0
    BY <1>0, <1>1 DEF CallsFollowSteps
  <1>3. Feedback!TotalCalls = 2 * steps + feedbackCalls[steps] /\ feedbackCalls[steps] \in 0 .. 3
    <2>1. feedbackCalls \in [0 .. FeedbackSteps -> Nat] BY <1>0
    <2>2. Feedback!TotalCalls = 2 * steps + feedbackCalls[steps] BY <1>0, <1>2, <2>1, CallsAddUp
    <2> QED BY <2>2, <1>0
  <1>4. CASE Feedback!Forward
    <2>1. /\ feedbackCalls' = [feedbackCalls EXCEPT ![steps] = @ + 1] /\ feedbackCalls[steps] < 3
          /\ feedbackPc' = feedbackPc /\ steps' = steps /\ latents' = latents
      BY <1>4 DEF Feedback!Forward, Feedback!MaxCalls
    <2>2. /\ feedbackCalls' \in [0 .. FeedbackSteps -> 0 .. 3]
          /\ \A i \in 0 .. FeedbackSteps : i # steps => feedbackCalls'[i] = feedbackCalls[i]
      BY <2>1, <1>0, <1>3
    <2>3. Even(steps)'
      <3>1. \A i \in 0 .. steps - 1 : i \in 0 .. FeedbackSteps /\ i # steps
        BY <1>0, FeedbackConstants
      <3> QED BY <3>1, <2>1, <2>2, <1>2 DEF Even
    <2>4. CallsFollowSteps'
      <3>1. \A i \in 0 .. FeedbackSteps : i > steps => i # steps BY <1>0
      <3> QED BY <3>1, <2>1, <2>2, <2>3, <1>1, <1>2 DEF CallsFollowSteps
    <2>5. Undecided' /\ Staged' BY <1>0, <1>1, <2>1 DEF Undecided, Staged
    <2> QED BY <1>0, <1>1, <2>1, <2>2, <2>4, <2>5, RecordsStay, FeedbackWhole
  <1>5. CASE Feedback!RunCleanStep /\ Feedback!Paired
    <2>1. /\ feedbackCalls' = feedbackCalls /\ feedbackPc' = "clean" /\ steps' = steps + 1
          /\ latents' = latents /\ steps < FeedbackSteps
          /\ Feedback!TotalCalls = 2 * (steps + 1)
      BY <1>5 DEF Feedback!RunCleanStep, Feedback!Paired
    <2>2. feedbackCalls[steps] = 2 BY <1>0, <1>3, <2>1
    <2>3. Even(steps)'
      <3>1. \A i \in 0 .. steps : i = steps \/ i \in 0 .. steps - 1 BY <1>0
      <3>2. (steps + 1) - 1 = steps BY <1>0
      <3>3. \A i \in 0 .. steps : feedbackCalls[i] = 2 BY <3>1, <2>2, <1>2 DEF Even
      <3> QED BY <3>2, <3>3, <2>1 DEF Even
    <2>4. CallsFollowSteps'
      <3>1. \A i \in 0 .. FeedbackSteps : i > steps + 1 => i > steps BY <1>0
      <3> QED BY <3>1, <2>1, <2>3, <1>2 DEF CallsFollowSteps
    <2>5. Undecided' /\ Staged' BY <1>0, <1>1, <2>1 DEF Undecided, Staged
    <2>6. steps' \in 0 .. FeedbackSteps BY <1>0, <2>1, FeedbackConstants
    <2> QED BY <1>0, <1>1, <2>1, <2>4, <2>5, <2>6, RecordsStay, FeedbackWhole
  <1>6. CASE Feedback!BuildTrace /\ Feedback!Covered
    <2>1. /\ feedbackCalls' = feedbackCalls /\ feedbackPc' = "branch" /\ steps' = steps
          /\ latents' = 1 /\ steps = FeedbackSteps
      BY <1>6 DEF Feedback!BuildTrace, Feedback!Covered
    <2>2. CallsFollowSteps' BY <2>1, <1>2 DEF CallsFollowSteps, Even
    <2>3. Undecided' /\ Staged' BY <1>0, <1>1, <2>1 DEF Undecided, Staged
    <2>4. latents' \in 0 .. FeedbackBranches + 1 BY <2>1, FeedbackConstants
    <2>5. feedbackPc' \in Stages BY <2>1 DEF Stages
    <2> QED BY <1>0, <1>1, <2>1, <2>2, <2>3, <2>4, <2>5, RecordsStay, FeedbackWhole
  <1>7. CASE \/ Feedback!RunCleanStep /\ ~Feedback!Paired
             \/ Feedback!BuildTrace /\ ~Feedback!Covered
             \/ Feedback!TraceFails
    <2>1. /\ feedbackCalls' = feedbackCalls /\ feedbackPc' = "unwind" /\ steps' = steps
          /\ latents' = latents
      BY <1>7 DEF Feedback!RunCleanStep, Feedback!BuildTrace, Feedback!TraceFails,
                  Feedback!engine
    <2>2. CallsFollowSteps' BY <2>1 DEF CallsFollowSteps
    <2>3. Undecided' /\ Staged' BY <1>0, <1>1, <2>1 DEF Undecided, Staged
    <2>4. feedbackPc' \in Stages BY <2>1 DEF Stages
    <2> QED BY <1>0, <1>1, <2>1, <2>2, <2>3, <2>4, RecordsStay, FeedbackWhole
  <1> QED BY <1>4, <1>5, <1>6, <1>7

\* The branches, and the first records of them.
LEMMA BranchesInv ==
  ASSUME FeedbackInv,
         Feedback!RunBranch \/ Feedback!BranchFails \/ Feedback!FirstSnapshot
  PROVE  FeedbackInv'
  <1>0. /\ feedbackPc \in Stages /\ feedbackRun \in 1 .. FeedbackRuns
        /\ steps \in 0 .. FeedbackSteps /\ latents \in 0 .. FeedbackBranches + 1
        /\ feedbackCalls \in [0 .. FeedbackSteps -> 0 .. 3]
        /\ saved \in [Feedback!Outputs -> {"none", "partial", "whole", "damaged"}]
        /\ installed <=> feedbackPc \in {"clean", "branch", "decode", "unwind"}
        /\ feedbackDisk \in FeedbackDisks
        /\ CallsFollowSteps /\ Undecided /\ Staged
    BY FeedbackParts
  <1>1. /\ feedbackPc = "branch" /\ feedbackRun' = feedbackRun
        /\ feedbackCalls' = feedbackCalls /\ steps' = steps
        /\ installed' = installed /\ saved' = saved
    BY DEF Feedback!RunBranch, Feedback!BranchFails, Feedback!FirstSnapshot, Feedback!engine
  <1>2. steps = FeedbackSteps /\ Even(FeedbackSteps) BY <1>0, <1>1 DEF CallsFollowSteps
  <1>3. Even(FeedbackSteps)' BY <1>1, <1>2 DEF Even
  <1>4. CASE Feedback!RunBranch \/ Feedback!BranchFails
    <2>1. /\ feedbackDisk' = feedbackDisk /\ latents <= FeedbackBranches
          /\ \/ feedbackPc' = feedbackPc /\ latents' = latents + 1
             \/ feedbackPc' = "unwind" /\ latents' = latents
      BY <1>4 DEF Feedback!RunBranch, Feedback!BranchFails, Feedback!engine
    <2>2. CallsFollowSteps' BY <2>1, <1>1, <1>2, <1>3 DEF CallsFollowSteps
    <2>3. Undecided' /\ Staged' BY <1>0, <1>1, <2>1 DEF Undecided, Staged
    <2>4. latents' \in 0 .. FeedbackBranches + 1 BY <1>0, <2>1, FeedbackConstants
    <2>5. /\ feedbackPc' \in Stages
          /\ installed' <=> feedbackPc' \in {"clean", "branch", "decode", "unwind"}
      BY <1>0, <1>1, <2>1 DEF Stages
    <2> QED BY <1>0, <1>1, <2>1, <2>2, <2>3, <2>4, <2>5, RecordsStay, FeedbackWhole
  <1>5. CASE Feedback!FirstSnapshot
    <2>1. /\ feedbackPc' = "decode" /\ latents = FeedbackBranches + 1 /\ latents' = latents
          /\ feedbackDisk' = [feedbackDisk EXCEPT !.rows = 0, !.traced = steps,
                                                  !.branches = latents]
      BY <1>5 DEF Feedback!FirstSnapshot, Feedback!Snapshot, Feedback!engine
    <2>2. /\ feedbackDisk' \in FeedbackDisks /\ feedbackDisk'.rows = 0
          /\ feedbackDisk'.traced = steps /\ feedbackDisk'.branches = latents
          /\ feedbackDisk'.decision = feedbackDisk.decision
          /\ feedbackDisk'.manifest = feedbackDisk.manifest
          /\ feedbackDisk'.results = feedbackDisk.results
      <3>1. 0 \in 0 .. FeedbackBranches + 1 BY FeedbackConstants
      <3> QED BY <3>1, <1>0, <2>1 DEF FeedbackDisks
    <2>3. /\ feedbackDisk.decision = "none" /\ feedbackDisk.manifest = FALSE
          /\ feedbackDisk.results = 0
      BY <1>0, <1>1 DEF Undecided, FeedbackDisks
    <2>4. CallsFollowSteps' BY <2>1, <1>1, <1>2, <1>3 DEF CallsFollowSteps
    <2>5. Undecided' BY <2>1, <2>2, <2>3 DEF Undecided
    <2>6. Staged' BY <2>1, <2>2, <1>2 DEF Staged
    <2>7. Feedback!RowsAreSaved' BY <2>2 DEF Feedback!RowsAreSaved, Feedback!Outputs
    <2>8. Feedback!RecordedIsWhole' /\ Feedback!FailureStandsAlone'
      BY <2>2, <2>3, UndecidedRecords
    <2>9. /\ feedbackPc' \in Stages
          /\ installed' <=> feedbackPc' \in {"clean", "branch", "decode", "unwind"}
      BY <1>0, <1>1, <2>1 DEF Stages
    <2> QED BY <1>0, <1>1, <2>1, <2>2, <2>4, <2>5, <2>6, <2>7, <2>8, <2>9, FeedbackWhole
  <1> QED BY <1>4, <1>5

\* The outputs: a record is written when the output is saved to its end, and what fails,
\* or what the decoder calls besides, is no output's record.
LEMMA OutputsInv ==
  ASSUME FeedbackInv,
         \/ Feedback!Save \/ Feedback!SaveFails \/ Feedback!DecoderCalls
         \/ \E o \in Feedback!Outputs : Feedback!Damage(o)
         \/ Feedback!Leave \/ Feedback!CallTooMany
  PROVE  FeedbackInv'
  <1>0. /\ feedbackPc \in Stages /\ feedbackRun \in 1 .. FeedbackRuns
        /\ steps \in 0 .. FeedbackSteps /\ latents \in 0 .. FeedbackBranches + 1
        /\ feedbackCalls \in [0 .. FeedbackSteps -> 0 .. 3]
        /\ saved \in [Feedback!Outputs -> {"none", "partial", "whole", "damaged"}]
        /\ installed <=> feedbackPc \in {"clean", "branch", "decode", "unwind"}
        /\ feedbackDisk \in FeedbackDisks
        /\ CallsFollowSteps /\ Undecided /\ Staged /\ Feedback!RowsAreSaved
    BY FeedbackParts
  <1>1. /\ feedbackPc \in {"decode", "validate"} /\ feedbackRun' = feedbackRun
        /\ steps' = steps /\ latents' = latents
    BY DEF Feedback!Save, Feedback!SaveFails, Feedback!DecoderCalls, Feedback!Damage,
           Feedback!Leave, Feedback!CallTooMany, Feedback!engine
  <1>2. steps = FeedbackSteps /\ Even(FeedbackSteps) BY <1>0, <1>1 DEF CallsFollowSteps
  <1>3. /\ latents = FeedbackBranches + 1 /\ feedbackDisk.branches = FeedbackBranches + 1
        /\ feedbackDisk.traced = FeedbackSteps
        /\ feedbackPc = "validate" => feedbackDisk.rows = FeedbackBranches + 1
    BY <1>0, <1>1 DEF Staged
  <1>4. /\ feedbackDisk.decision = "none" /\ feedbackDisk.manifest = FALSE
        /\ feedbackDisk.results = 0 /\ feedbackDisk.rows \in 0 .. FeedbackBranches + 1
    BY <1>0, <1>1 DEF Undecided, FeedbackDisks
  <1>5. CASE Feedback!Save
    <2>1. /\ feedbackPc = "decode" /\ feedbackPc' = feedbackPc /\ feedbackCalls' = feedbackCalls
          /\ installed' = installed /\ feedbackDisk.rows <= FeedbackBranches
          /\ saved' = [saved EXCEPT ![feedbackDisk.rows] = "whole"]
          /\ feedbackDisk' = [feedbackDisk EXCEPT !.rows = feedbackDisk.rows + 1,
                                                  !.traced = steps, !.branches = latents]
      BY <1>5 DEF Feedback!Save, Feedback!Snapshot, Feedback!engine
    <2>2. /\ feedbackDisk' \in FeedbackDisks /\ feedbackDisk'.rows = feedbackDisk.rows + 1
          /\ feedbackDisk'.traced = steps /\ feedbackDisk'.branches = latents
          /\ feedbackDisk'.decision = "none" /\ feedbackDisk'.manifest = FALSE
          /\ feedbackDisk'.results = 0
      <3>1. feedbackDisk.rows + 1 \in 0 .. FeedbackBranches + 1
        BY <1>4, <2>1, FeedbackConstants
      <3> QED BY <3>1, <1>0, <1>4, <2>1 DEF FeedbackDisks
    <2>3. saved' \in [Feedback!Outputs -> {"none", "partial", "whole", "damaged"}]
      BY <1>0, <2>1
    <2>4. Feedback!RowsAreSaved'
      <3> SUFFICES ASSUME NEW o \in Feedback!Outputs, o < feedbackDisk.rows + 1
                   PROVE  saved'[o] \in {"whole", "damaged"}
        BY <2>2 DEF Feedback!RowsAreSaved, Feedback!Outputs
      <3>1. CASE o = feedbackDisk.rows BY <3>1, <1>0, <2>1
      <3>2. CASE o # feedbackDisk.rows
        <4>1. o \in Int BY DEF Feedback!Outputs
        <4>2. o < feedbackDisk.rows BY <4>1, <3>2, <1>4
        <4> QED BY <4>2, <3>2, <1>0, <2>1 DEF Feedback!RowsAreSaved
      <3> QED BY <3>1, <3>2
    <2>5. CallsFollowSteps' BY <2>1, <1>1, <1>2 DEF CallsFollowSteps, Even
    <2>6. Undecided' BY <2>1, <2>2 DEF Undecided
    <2>7. Staged' BY <2>1, <2>2, <1>1, <1>2, <1>3 DEF Staged
    <2>8. Feedback!RecordedIsWhole' /\ Feedback!FailureStandsAlone'
      BY <2>2, UndecidedRecords
    <2> QED BY <1>0, <1>1, <2>1, <2>2, <2>3, <2>4, <2>5, <2>6, <2>7, <2>8, FeedbackWhole
  <1>6. CASE Feedback!SaveFails \/ Feedback!CallTooMany
    <2>1. /\ feedbackPc = "decode" /\ feedbackPc' = "unwind" /\ feedbackCalls' = feedbackCalls
          /\ installed' = installed /\ feedbackDisk' = feedbackDisk
          /\ \/ saved' = saved
             \/ \E left \in {"none", "partial"} :
                   saved' = [saved EXCEPT ![feedbackDisk.rows] = left]
      BY <1>6 DEF Feedback!SaveFails, Feedback!CallTooMany, Feedback!engine
    <2>2. /\ saved' \in [Feedback!Outputs -> {"none", "partial", "whole", "damaged"}]
          /\ \A o \in Feedback!Outputs : o # feedbackDisk.rows => saved'[o] = saved[o]
      BY <1>0, <2>1
    <2>3. Feedback!RowsAreSaved'
      <3>1. \A o \in Feedback!Outputs : o < feedbackDisk.rows => o # feedbackDisk.rows
        BY <1>4 DEF Feedback!Outputs
      <3> QED BY <3>1, <2>1, <2>2, <1>0 DEF Feedback!RowsAreSaved, Feedback!Outputs
    <2>4. CallsFollowSteps' BY <2>1 DEF CallsFollowSteps
    <2>5. Undecided' BY <2>1, <1>4 DEF Undecided
    <2>6. Staged' BY <2>1 DEF Staged
    <2>7. Feedback!RecordedIsWhole' /\ Feedback!FailureStandsAlone'
      BY <2>1, <1>4, UndecidedRecords
    <2>8. /\ feedbackPc' \in Stages
          /\ installed' <=> feedbackPc' \in {"clean", "branch", "decode", "unwind"}
      BY <1>0, <2>1 DEF Stages
    <2> QED BY <1>0, <1>1, <2>1, <2>2, <2>3, <2>4, <2>5, <2>6, <2>7, <2>8, FeedbackWhole
  <1>7. CASE Feedback!DecoderCalls
    <2>1. /\ feedbackPc' = feedbackPc /\ installed' = installed /\ feedbackDisk' = feedbackDisk
          /\ saved' = saved /\ feedbackCalls[FeedbackSteps] < 3
          /\ feedbackCalls' = [feedbackCalls EXCEPT ![FeedbackSteps] = @ + 1]
      BY <1>7 DEF Feedback!DecoderCalls, Feedback!Trailing, Feedback!MaxCalls
    <2>2. FeedbackSteps \in 0 .. FeedbackSteps BY FeedbackConstants
    <2>3. /\ feedbackCalls' \in [0 .. FeedbackSteps -> 0 .. 3]
          /\ \A i \in 0 .. FeedbackSteps : i # FeedbackSteps => feedbackCalls'[i] = feedbackCalls[i]
      BY <1>0, <2>1, <2>2
    <2>4. Even(FeedbackSteps)'
      <3>1. \A i \in 0 .. FeedbackSteps - 1 : i \in 0 .. FeedbackSteps /\ i # FeedbackSteps
        BY FeedbackConstants
      <3> QED BY <3>1, <2>3, <1>2 DEF Even
    <2>5. CallsFollowSteps' BY <2>1, <2>4, <1>1, <1>2 DEF CallsFollowSteps
    <2>6. Undecided' /\ Staged' BY <1>0, <1>1, <2>1 DEF Undecided, Staged
    <2> QED BY <1>0, <1>1, <2>1, <2>3, <2>5, <2>6, RecordsStay, FeedbackWhole
  <1>8. CASE \E o \in Feedback!Outputs : Feedback!Damage(o)
    <2>1. PICK o \in Feedback!Outputs :
            /\ saved[o] = "whole" /\ saved' = [saved EXCEPT ![o] = "damaged"]
            /\ feedbackPc' = feedbackPc /\ feedbackCalls' = feedbackCalls
            /\ installed' = installed /\ feedbackDisk' = feedbackDisk
      BY <1>8 DEF Feedback!Damage, Feedback!engine
    <2>2. saved' \in [Feedback!Outputs -> {"none", "partial", "whole", "damaged"}]
      BY <1>0, <2>1
    <2>3. Feedback!RowsAreSaved'
      <3>1. \A p \in Feedback!Outputs : saved'[p] = saved[p] \/ saved'[p] = "damaged"
        BY <1>0, <2>1
      <3> QED BY <3>1, <2>1, <1>0 DEF Feedback!RowsAreSaved, Feedback!Outputs
    <2>4. CallsFollowSteps' BY <2>1, <1>1, <1>2 DEF CallsFollowSteps, Even
    <2>5. Undecided' /\ Staged' BY <1>0, <1>1, <2>1 DEF Undecided, Staged
    <2>6. Feedback!RecordedIsWhole' /\ Feedback!FailureStandsAlone'
      BY <2>1, <1>4, UndecidedRecords
    <2> QED BY <1>0, <1>1, <2>1, <2>2, <2>3, <2>4, <2>5, <2>6, FeedbackWhole
  <1>9. CASE Feedback!Leave
    <2>1. /\ feedbackPc' = "validate" /\ installed' = FALSE /\ feedbackCalls' = feedbackCalls
          /\ feedbackDisk' = feedbackDisk /\ saved' = saved
          /\ feedbackDisk.rows = FeedbackBranches + 1
      BY <1>9 DEF Feedback!Leave
    <2>2. CallsFollowSteps' BY <2>1, <1>1, <1>2 DEF CallsFollowSteps, Even
    <2>3. Undecided' BY <2>1, <1>4 DEF Undecided
    <2>4. Staged' BY <2>1, <1>1, <1>3 DEF Staged
    <2>5. /\ feedbackPc' \in Stages
          /\ installed' <=> feedbackPc' \in {"clean", "branch", "decode", "unwind"}
      BY <2>1 DEF Stages
    <2> QED BY <1>0, <1>1, <2>1, <2>2, <2>3, <2>4, <2>5, RecordsStay, FeedbackWhole
  <1> QED BY <1>5, <1>6, <1>7, <1>8, <1>9

\* The context is left for the handler, which may write what there is.
LEMMA UnwindInv == ASSUME FeedbackInv, Feedback!Unwind PROVE FeedbackInv'
  <1>0. /\ feedbackPc \in Stages /\ feedbackRun \in 1 .. FeedbackRuns
        /\ steps \in 0 .. FeedbackSteps /\ latents \in 0 .. FeedbackBranches + 1
        /\ feedbackCalls \in [0 .. FeedbackSteps -> 0 .. 3]
        /\ saved \in [Feedback!Outputs -> {"none", "partial", "whole", "damaged"}]
        /\ feedbackDisk \in FeedbackDisks
        /\ Undecided /\ Feedback!RowsAreSaved
    BY FeedbackParts
  <1>1. /\ feedbackPc = "unwind" /\ feedbackPc' = "failed" /\ installed' = FALSE
        /\ feedbackRun' = feedbackRun /\ feedbackCalls' = feedbackCalls /\ steps' = steps
        /\ latents' = latents /\ saved' = saved
        /\ \/ feedbackDisk' = [feedbackDisk EXCEPT !.rows = feedbackDisk.rows,
                                                   !.traced = steps, !.branches = latents]
           \/ feedbackDisk' = feedbackDisk
    BY DEF Feedback!Unwind, Feedback!Snapshot
  <1>2. /\ feedbackDisk.decision = "none" /\ feedbackDisk.manifest = FALSE
        /\ feedbackDisk.results = 0 /\ feedbackDisk.rows \in 0 .. FeedbackBranches + 1
    BY <1>0, <1>1 DEF Undecided, FeedbackDisks
  <1>3. /\ feedbackDisk' \in FeedbackDisks /\ feedbackDisk'.rows = feedbackDisk.rows
        /\ feedbackDisk'.decision = "none" /\ feedbackDisk'.manifest = FALSE
        /\ feedbackDisk'.results = 0
    <2>1. CASE feedbackDisk' = feedbackDisk BY <2>1, <1>0, <1>2
    <2>2. CASE feedbackDisk' = [feedbackDisk EXCEPT !.rows = feedbackDisk.rows,
                                                    !.traced = steps, !.branches = latents]
      BY <2>2, <1>0, <1>2 DEF FeedbackDisks
    <2> QED BY <2>1, <2>2, <1>1
  <1>4. Feedback!RowsAreSaved' BY <1>0, <1>1, <1>3 DEF Feedback!RowsAreSaved
  <1>5. CallsFollowSteps' BY <1>1 DEF CallsFollowSteps
  <1>6. Undecided' BY <1>1, <1>3 DEF Undecided
  <1>7. Staged' BY <1>1 DEF Staged
  <1>8. Feedback!RecordedIsWhole' /\ Feedback!FailureStandsAlone' BY <1>3, UndecidedRecords
  <1>9. /\ feedbackPc' \in Stages
        /\ installed' <=> feedbackPc' \in {"clean", "branch", "decode", "unwind"}
    BY <1>1 DEF Stages
  <1> QED BY <1>0, <1>1, <1>3, <1>4, <1>5, <1>6, <1>7, <1>8, <1>9, FeedbackWhole

\* Validation, features and gates: each stage goes on from what the one before it found.
LEMMA AnalysisInv ==
  ASSUME FeedbackInv,
         \/ Feedback!Validate \/ Feedback!ExtractFeatures \/ Feedback!Relabel
         \/ Feedback!FeaturesFail \/ Feedback!Classify
  PROVE  FeedbackInv'
  <1>0. /\ feedbackPc \in Stages /\ feedbackRun \in 1 .. FeedbackRuns
        /\ steps \in 0 .. FeedbackSteps /\ latents \in 0 .. FeedbackBranches + 1
        /\ feedbackCalls \in [0 .. FeedbackSteps -> 0 .. 3]
        /\ saved \in [Feedback!Outputs -> {"none", "partial", "whole", "damaged"}]
        /\ installed <=> feedbackPc \in {"clean", "branch", "decode", "unwind"}
        /\ feedbackDisk \in FeedbackDisks
        /\ CallsFollowSteps /\ Undecided /\ Staged /\ Feedback!RowsAreSaved
    BY FeedbackParts
  <1>1. /\ feedbackPc \in {"validate", "features", "relabel", "gates"}
        /\ feedbackRun' = feedbackRun /\ feedbackCalls' = feedbackCalls /\ steps' = steps
        /\ latents' = latents /\ installed' = installed /\ saved' = saved
        /\ \/ feedbackDisk' = feedbackDisk
           \/ feedbackDisk' = [feedbackDisk EXCEPT !.legacy = TRUE]
           \/ feedbackDisk' = [feedbackDisk EXCEPT !.legacy = FALSE]
    BY DEF Feedback!Validate, Feedback!ExtractFeatures, Feedback!Relabel,
           Feedback!FeaturesFail, Feedback!Classify, Feedback!engine
  <1>2. /\ steps = FeedbackSteps /\ Even(FeedbackSteps) /\ latents = FeedbackBranches + 1
        /\ feedbackDisk.branches = FeedbackBranches + 1 /\ feedbackDisk.traced = FeedbackSteps
        /\ feedbackDisk.rows = FeedbackBranches + 1
        /\ feedbackDisk.decision = "none" /\ feedbackDisk.manifest = FALSE
        /\ feedbackDisk.results = 0
    BY <1>0, <1>1 DEF CallsFollowSteps, Staged, Undecided, FeedbackDisks
  <1>3. feedbackPc # "validate" => \A o \in Feedback!Outputs : saved[o] = "whole"
    BY <1>0, <1>1 DEF Staged
  <1>4. /\ feedbackDisk' \in FeedbackDisks /\ feedbackDisk'.branches = feedbackDisk.branches
        /\ feedbackDisk'.traced = feedbackDisk.traced /\ feedbackDisk'.rows = feedbackDisk.rows
        /\ feedbackDisk'.decision = "none" /\ feedbackDisk'.manifest = FALSE
        /\ feedbackDisk'.results = 0
    <2>1. CASE feedbackDisk' = feedbackDisk BY <2>1, <1>0, <1>2
    <2>2. CASE feedbackDisk' = [feedbackDisk EXCEPT !.legacy = TRUE]
      BY <2>2, <1>0, <1>2 DEF FeedbackDisks
    <2>3. CASE feedbackDisk' = [feedbackDisk EXCEPT !.legacy = FALSE]
      BY <2>3, <1>0, <1>2 DEF FeedbackDisks
    <2> QED BY <2>1, <2>2, <2>3, <1>1
  <1>5. Feedback!RecordedIsWhole' /\ Feedback!FailureStandsAlone' BY <1>4, UndecidedRecords
  <1>6. Feedback!RowsAreSaved' BY <1>0, <1>1, <1>4 DEF Feedback!RowsAreSaved
  <1>7. /\ feedbackPc' \in {"features", "relabel", "gates", "results", "failed"}
        /\ feedbackPc' # "failed" => \A o \in Feedback!Outputs : saved'[o] = "whole"
        /\ feedbackPc' \in {"gates", "results"} => ~feedbackDisk'.legacy
    <2>1. CASE Feedback!Validate
      BY <2>1, <1>1 DEF Feedback!Validate, Feedback!Bound
    <2>2. CASE Feedback!ExtractFeatures BY <2>2, <1>1, <1>3 DEF Feedback!ExtractFeatures
    <2>3. CASE Feedback!Relabel
      <3>1. /\ feedbackDisk' = [feedbackDisk EXCEPT !.legacy = FALSE] /\ feedbackPc = "relabel"
            /\ feedbackPc' = "gates"
        BY <2>3 DEF Feedback!Relabel
      <3>2. feedbackDisk'.legacy = FALSE BY <3>1, <1>0 DEF FeedbackDisks
      <3> QED BY <3>1, <3>2, <1>1, <1>3
    <2>4. CASE Feedback!FeaturesFail BY <2>4 DEF Feedback!FeaturesFail
    <2>5. CASE Feedback!Classify
      <3>1. /\ feedbackDisk' = feedbackDisk /\ feedbackPc = "gates" /\ feedbackPc' = "results"
        BY <2>5 DEF Feedback!Classify
      <3>2. ~feedbackDisk.legacy BY <3>1, <1>0 DEF Staged
      <3> QED BY <3>1, <3>2, <1>1, <1>3
    <2> QED BY <2>1, <2>2, <2>3, <2>4, <2>5
  <1>8. CallsFollowSteps' BY <1>1, <1>2, <1>7 DEF CallsFollowSteps, Even
  <1>9. Undecided' BY <1>4, <1>7 DEF Undecided
  <1>10. Staged' BY <1>1, <1>2, <1>4, <1>7 DEF Staged
  <1>11. /\ feedbackPc' \in Stages
         /\ installed' <=> feedbackPc' \in {"clean", "branch", "decode", "unwind"}
    BY <1>0, <1>1, <1>7 DEF Stages
  <1> QED BY <1>0, <1>1, <1>4, <1>5, <1>6, <1>8, <1>9, <1>10, <1>11, FeedbackWhole

\* The ends: a failure is decided before any result file, a classification after all of
\* them, and a kill decides nothing.
LEMMA EndingInv ==
  ASSUME FeedbackInv,
         \/ Feedback!Fail \/ Feedback!WriteResults \/ Feedback!Decide
         \/ Feedback!WriteManifest \/ Feedback!Kill
  PROVE  FeedbackInv'
  <1>0. /\ feedbackPc \in Stages /\ feedbackRun \in 1 .. FeedbackRuns
        /\ steps \in 0 .. FeedbackSteps /\ latents \in 0 .. FeedbackBranches + 1
        /\ feedbackCalls \in [0 .. FeedbackSteps -> 0 .. 3]
        /\ saved \in [Feedback!Outputs -> {"none", "partial", "whole", "damaged"}]
        /\ installed <=> feedbackPc \in {"clean", "branch", "decode", "unwind"}
        /\ feedbackDisk \in FeedbackDisks
        /\ CallsFollowSteps /\ Undecided /\ Staged /\ Feedback!RowsAreSaved
        /\ Feedback!RecordedIsWhole /\ Feedback!FailureStandsAlone
    BY FeedbackParts
  <1>1. /\ feedbackRun' = feedbackRun /\ feedbackCalls' = feedbackCalls /\ steps' = steps
        /\ latents' = latents /\ saved' = saved
    BY DEF Feedback!Fail, Feedback!WriteResults, Feedback!Decide, Feedback!WriteManifest,
           Feedback!Kill, Feedback!engine
  <1>2. CASE Feedback!Fail
    <2>1. /\ feedbackPc = "failed" /\ feedbackPc' = "raised" /\ installed' = installed
          /\ feedbackDisk' = [feedbackDisk EXCEPT !.working = FALSE, !.decision = "failure"]
      BY <1>2 DEF Feedback!Fail, Feedback!engine
    <2>2. feedbackDisk.manifest = FALSE /\ feedbackDisk.results = 0
      BY <1>0, <2>1 DEF Undecided, FeedbackDisks
    <2>3. /\ feedbackDisk' \in FeedbackDisks /\ feedbackDisk'.rows = feedbackDisk.rows
          /\ feedbackDisk'.decision = "failure" /\ feedbackDisk'.manifest = FALSE
          /\ feedbackDisk'.results = 0 /\ feedbackDisk'.working = FALSE
      BY <1>0, <2>1, <2>2 DEF FeedbackDisks
    <2>4. Feedback!RowsAreSaved' BY <1>0, <1>1, <2>3 DEF Feedback!RowsAreSaved
    <2>5. Feedback!RecordedIsWhole' /\ Feedback!FailureStandsAlone'
      BY <2>3 DEF Feedback!RecordedIsWhole, Feedback!FailureStandsAlone
    <2>6. CallsFollowSteps' /\ Undecided' /\ Staged'
      BY <2>1 DEF CallsFollowSteps, Undecided, Staged
    <2>7. /\ feedbackPc' \in Stages
          /\ installed' <=> feedbackPc' \in {"clean", "branch", "decode", "unwind"}
      BY <1>0, <2>1 DEF Stages
    <2> QED BY <1>0, <1>1, <2>3, <2>4, <2>5, <2>6, <2>7, FeedbackWhole
  <1>3. CASE Feedback!WriteResults
    <2>1. /\ feedbackPc = "results" /\ feedbackDisk.results < 5 /\ installed' = installed
          /\ \/ feedbackDisk' = [feedbackDisk EXCEPT !.results = @ + 1] /\ feedbackPc' = "results"
             \/ feedbackDisk' = feedbackDisk /\ feedbackPc' = "raised"
      BY <1>3 DEF Feedback!WriteResults, Feedback!Results, Feedback!engine
    <2>2. CASE feedbackDisk' = feedbackDisk /\ feedbackPc' = "raised"
      <3>1. CallsFollowSteps' /\ Undecided' /\ Staged'
        BY <2>2 DEF CallsFollowSteps, Undecided, Staged
      <3>2. /\ feedbackPc' \in Stages
            /\ installed' <=> feedbackPc' \in {"clean", "branch", "decode", "unwind"}
        BY <1>0, <2>1, <2>2 DEF Stages
      <3> QED BY <1>0, <1>1, <2>2, <3>1, <3>2, RecordsStay, FeedbackWhole
    <2>3. CASE feedbackDisk' = [feedbackDisk EXCEPT !.results = @ + 1] /\ feedbackPc' = "results"
      <3>1. feedbackDisk.decision = "none" /\ feedbackDisk.manifest = FALSE
            /\ feedbackDisk.results \in 0 .. 5
        BY <1>0, <2>1 DEF Undecided, FeedbackDisks
      <3>2. /\ feedbackDisk' \in FeedbackDisks /\ feedbackDisk'.rows = feedbackDisk.rows
            /\ feedbackDisk'.branches = feedbackDisk.branches
            /\ feedbackDisk'.traced = feedbackDisk.traced
            /\ feedbackDisk'.legacy = feedbackDisk.legacy
            /\ feedbackDisk'.decision = "none" /\ feedbackDisk'.manifest = FALSE
        <4>1. feedbackDisk.results + 1 \in 0 .. 5 BY <2>1, <3>1
        <4>2. feedbackDisk' = [feedbackDisk EXCEPT !.results = feedbackDisk.results + 1]
          BY <2>3
        <4> QED BY <4>1, <4>2, <1>0, <3>1 DEF FeedbackDisks
      <3>3. Feedback!RowsAreSaved' BY <1>0, <1>1, <3>2 DEF Feedback!RowsAreSaved
      <3>4. Feedback!RecordedIsWhole' /\ Feedback!FailureStandsAlone' BY <3>2, UndecidedRecords
      <3>5. CallsFollowSteps' BY <1>0, <1>1, <2>1, <2>3 DEF CallsFollowSteps, Even
      <3>6. Undecided' BY <2>3, <3>2 DEF Undecided
      <3>7. Staged' BY <1>0, <1>1, <2>1, <2>3, <3>2 DEF Staged
      <3> QED BY <1>0, <1>1, <2>1, <2>3, <3>2, <3>3, <3>4, <3>5, <3>6, <3>7, FeedbackWhole
    <2> QED BY <2>1, <2>2, <2>3
  <1>4. CASE Feedback!Decide
    <2>1. /\ feedbackPc = "results" /\ feedbackPc' = "manifest" /\ installed' = installed
          /\ feedbackDisk.results = 5
          /\ feedbackDisk' = [feedbackDisk EXCEPT !.working = FALSE, !.decision = "recorded"]
      BY <1>4 DEF Feedback!Decide, Feedback!Results, Feedback!engine
    <2>2. /\ feedbackDisk.branches = FeedbackBranches + 1
          /\ feedbackDisk.traced = FeedbackSteps /\ feedbackDisk.rows = FeedbackBranches + 1
          /\ feedbackDisk.legacy = FALSE /\ feedbackDisk.manifest = FALSE
          /\ \A o \in Feedback!Outputs : saved[o] = "whole"
      BY <1>0, <2>1 DEF Staged, Undecided, FeedbackDisks
    <2>3. /\ feedbackDisk' \in FeedbackDisks /\ feedbackDisk'.rows = feedbackDisk.rows
          /\ feedbackDisk'.branches = feedbackDisk.branches
          /\ feedbackDisk'.traced = feedbackDisk.traced /\ feedbackDisk'.legacy = FALSE
          /\ feedbackDisk'.decision = "recorded" /\ feedbackDisk'.manifest = FALSE
          /\ feedbackDisk'.results = 5 /\ feedbackDisk'.working = FALSE
      BY <1>0, <2>1, <2>2 DEF FeedbackDisks
    <2>4. Feedback!RowsAreSaved' BY <1>0, <1>1, <2>3 DEF Feedback!RowsAreSaved
    <2>5. Feedback!RecordedIsWhole' /\ Feedback!FailureStandsAlone'
      BY <1>1, <2>2, <2>3
      DEF Feedback!RecordedIsWhole, Feedback!FailureStandsAlone, Feedback!Results
    <2>6. CallsFollowSteps' BY <1>0, <1>1, <2>1 DEF CallsFollowSteps, Even
    <2>7. Undecided' /\ Staged' BY <2>1, <2>3 DEF Undecided, Staged
    <2>8. /\ feedbackPc' \in Stages
          /\ installed' <=> feedbackPc' \in {"clean", "branch", "decode", "unwind"}
      BY <1>0, <2>1 DEF Stages
    <2> QED BY <1>0, <1>1, <2>3, <2>4, <2>5, <2>6, <2>7, <2>8, FeedbackWhole
  <1>5. CASE Feedback!WriteManifest
    <2>1. /\ feedbackPc = "manifest" /\ installed' = installed
          /\ \/ feedbackDisk' = [feedbackDisk EXCEPT !.manifest = TRUE] /\ feedbackPc' = "returned"
             \/ feedbackDisk' = feedbackDisk /\ feedbackPc' = "raised"
      BY <1>5 DEF Feedback!WriteManifest, Feedback!engine
    <2>2. CallsFollowSteps' BY <1>0, <1>1, <2>1 DEF CallsFollowSteps, Even
    <2>3. Undecided' /\ Staged' BY <2>1 DEF Undecided, Staged
    <2>4. /\ feedbackPc' \in Stages
          /\ installed' <=> feedbackPc' \in {"clean", "branch", "decode", "unwind"}
      BY <1>0, <2>1 DEF Stages
    <2>5. CASE feedbackDisk' = feedbackDisk
      BY <1>0, <1>1, <2>2, <2>3, <2>4, <2>5, RecordsStay, FeedbackWhole
    <2>6. CASE feedbackDisk' = [feedbackDisk EXCEPT !.manifest = TRUE]
      <3>1. feedbackDisk.decision = "recorded" BY <1>0, <2>1 DEF Undecided
      <3>2. /\ feedbackDisk' \in FeedbackDisks /\ feedbackDisk'.rows = feedbackDisk.rows
            /\ feedbackDisk'.branches = feedbackDisk.branches
            /\ feedbackDisk'.traced = feedbackDisk.traced
            /\ feedbackDisk'.legacy = feedbackDisk.legacy
            /\ feedbackDisk'.decision = "recorded"
            /\ feedbackDisk'.results = feedbackDisk.results
            /\ feedbackDisk'.working = feedbackDisk.working
        BY <1>0, <2>6, <3>1 DEF FeedbackDisks
      <3>3. Feedback!RowsAreSaved' BY <1>0, <1>1, <3>2 DEF Feedback!RowsAreSaved
      <3>4. Feedback!RecordedIsWhole' /\ Feedback!FailureStandsAlone'
        BY <1>0, <1>1, <3>1, <3>2
        DEF Feedback!RecordedIsWhole, Feedback!FailureStandsAlone
      <3> QED BY <1>0, <1>1, <2>2, <2>3, <2>4, <3>2, <3>3, <3>4, FeedbackWhole
    <2> QED BY <2>1, <2>5, <2>6
  <1>6. CASE Feedback!Kill
    <2>1. feedbackPc' = "killed" /\ installed' = FALSE /\ feedbackDisk' = feedbackDisk
      BY <1>6 DEF Feedback!Kill
    <2>2. CallsFollowSteps' /\ Undecided' /\ Staged'
      BY <2>1 DEF CallsFollowSteps, Undecided, Staged
    <2>3. /\ feedbackPc' \in Stages
          /\ installed' <=> feedbackPc' \in {"clean", "branch", "decode", "unwind"}
      BY <2>1 DEF Stages
    <2> QED BY <1>0, <1>1, <2>1, <2>2, <2>3, RecordsStay, FeedbackWhole
  <1> QED BY <1>2, <1>3, <1>4, <1>5, <1>6

LEMMA NextFeedbackInv == FeedbackInv /\ [Feedback!Next]_(Feedback!vars) => FeedbackInv'
  <1> SUFFICES ASSUME FeedbackInv, [Feedback!Next]_(Feedback!vars) PROVE FeedbackInv'
    OBVIOUS
  <1>1. CASE Feedback!Next
    BY <1>1, OpeningInv, TraceInv, BranchesInv, OutputsInv, UnwindInv, AnalysisInv, EndingInv
    DEF Feedback!Next
  <1>2. CASE UNCHANGED Feedback!vars
    <2>1. /\ feedbackPc' = feedbackPc /\ feedbackRun' = feedbackRun
          /\ feedbackCalls' = feedbackCalls /\ steps' = steps /\ latents' = latents
          /\ installed' = installed /\ saved' = saved /\ feedbackDisk' = feedbackDisk
      BY <1>2 DEF Feedback!vars
    <2>2. CallsFollowSteps' /\ Undecided' /\ Staged'
      BY <2>1, FeedbackParts DEF CallsFollowSteps, Even, Undecided, Staged
    <2>3. /\ feedbackPc' \in Stages
          /\ installed' <=> feedbackPc' \in {"clean", "branch", "decode", "unwind"}
      BY <2>1, FeedbackParts
    <2> QED BY <2>1, <2>2, <2>3, FeedbackParts, RecordsStay, FeedbackWhole
  <1> QED BY <1>1, <1>2

(* The promises of the frozen feedback, from its invariant. *)
LEMMA FeedbackIsAsPromised ==
  FeedbackInv => /\ Feedback!TypeOK /\ Feedback!StepOwnsItsCalls /\ Feedback!RowsAreSaved
                 /\ Feedback!RecordedIsWhole /\ Feedback!FailureStandsAlone
  <1>1. FeedbackInv => Feedback!StepOwnsItsCalls
    BY DEF FeedbackInv, CallsFollowSteps, Even, Feedback!StepOwnsItsCalls
  <1> QED BY <1>1 DEF FeedbackInv

-----------------------------------------------------------------------------
(* The impulse construction.  A directory that several runs have used holds  *)
(* files of several of them; what keeps a reader from taking the mixture for *)
(* one run is the order of the writes.  Checkpoints are full only after the  *)
(* run's generation records, a manifest comes only after the run's           *)
(* checkpoints, and runs follow one another: so where full checkpoints meet  *)
(* a manifest of the run of the generation records, all three are of it.     *)

ImpulseFiles ==
  [of : 0 .. ImpulseRuns, rows : 0 .. Probes,
   kind : {"none", "torn", "rows", "failed", "full", "failure", "pass", "stop"}]

\* What every file and video is of.
OfRuns ==
  /\ \A n \in Impulse!Names :
       impulseDisk[n].of <= impulseRun /\ (impulseDisk[n].rows > 0 => impulseDisk[n].of > 0)
  /\ \A p \in 1 .. Probes : video[p] <= impulseRun

\* The order in which the runs wrote.
RunsInOrder ==
  /\ impulseDisk["checkpoints"].kind = "full" /\ impulseDisk["generation"].rows > 0 =>
       impulseDisk["checkpoints"].of <= impulseDisk["generation"].of
  /\ impulseDisk["manifest"].rows > 0 /\ impulseDisk["checkpoints"].rows > 0 =>
       impulseDisk["manifest"].of <= impulseDisk["checkpoints"].of

\* The records of the run on disk are of probes it has done.
RowsAreDone ==
  \A n \in {"steps", "traces", "checkpoints"} :
    impulseDisk[n].of = impulseRun /\ impulseRun > 0 => impulseDisk[n].rows <= done

\* The first k files of a series of snapshots are written.
SeriesWritten(k) ==
  \A i \in 1 .. k : impulseDisk[Impulse!Snapshots[i]] = Impulse!Content(Impulse!Snapshots[i])

\* What a stage of the run hands to the next one.
ImpulseStaged ==
  /\ wrapped => impulsePc = "denoise"
  /\ impulsePc \notin Impulse!Ended =>
       /\ impulseRun > 0
       /\ impulseDisk["plan"] = Impulse!File(Probes, "rows")
  /\ impulsePc \in {"enter", "denoise", "export", "append"} => ~failed /\ done < Probes
  /\ impulsePc \in {"validate", "again", "encode", "publish"} => ~failed /\ done = Probes
  /\ impulsePc \in {"snapshot", "again"} => at \in 1 .. 4 /\ SeriesWritten(at - 1)
  /\ impulsePc = "encode" =>
       /\ at \in 1 .. Probes + 1 /\ SeriesWritten(4)
       /\ at > 1 => impulseDisk["features"] = Impulse!File(at - 1, "rows")
  /\ impulsePc = "fail" => at \in 0 .. 1

\* The results before the one under way are written.
ResultsWritten ==
  impulsePc = "publish" =>
    /\ at \in 1 .. 5 /\ gate \in {"pass", "stop"} /\ SeriesWritten(3)
    /\ impulseDisk["features"] = Impulse!File(Probes, "rows")
    /\ \A i \in 1 .. at - 1 :
         impulseDisk[Impulse!Results[i]] = Impulse!Result(Impulse!Results[i])

\* A run has its manifest only when it has returned; the first one has no result before
\* it publishes and no failure decision after.
ManifestsInOrder ==
  /\ impulseRun > 0 /\ impulseDisk["manifest"].of = impulseRun =>
       /\ impulsePc = "returned"
       /\ \A n \in Impulse!Names \ {"failure"} : impulseDisk[n].of = impulseRun
       /\ Impulse!Whole \/ impulseDisk["decision"].kind = "pass"
  /\ impulseRun = 0 => /\ impulsePc = "raised"
                       /\ impulseDisk["manifest"] = Impulse!NoFile
                       /\ impulseDisk["design"] = Impulse!NoFile
                       /\ impulseDisk["decision"] = Impulse!NoFile
  /\ impulseRun = 1 /\ impulsePc \notin {"publish", "returned", "raised", "killed"} =>
       impulseDisk["manifest"] = Impulse!NoFile /\ impulseDisk["design"] = Impulse!NoFile
  /\ impulseRun = 1 /\ impulseDisk["decision"].kind = "failure" =>
       /\ impulsePc \in {"fail", "raised", "killed"}
       /\ impulseDisk["manifest"] = Impulse!NoFile /\ impulseDisk["design"] = Impulse!NoFile

ImpulseStages ==
  {"enter", "denoise", "export", "append", "except", "snapshot", "validate", "again",
   "encode", "fail", "publish", "returned", "raised", "killed"}

ImpulseTyped ==
  /\ impulsePc \in ImpulseStages /\ impulseRun \in 0 .. ImpulseRuns
  /\ at \in 0 .. Probes + 5 /\ wrapped \in BOOLEAN /\ done \in 0 .. Probes
  /\ failed \in BOOLEAN /\ gate \in {"none", "pass", "stop"}
  /\ video \in [1 .. Probes -> 0 .. ImpulseRuns]

\* What the files say of the runs that wrote them.
Histories ==
  /\ impulseDisk \in [Impulse!Names -> ImpulseFiles]
  /\ OfRuns /\ RunsInOrder /\ RowsAreDone /\ Impulse!RowsHaveTheirVideo

ImpulseInv ==
  ImpulseTyped /\ Histories /\ ImpulseStaged /\ ResultsWritten /\ ManifestsInOrder

LEMMA ImpulseProjects == [SomeStep]_allVars => [Impulse!Next]_(Impulse!vars)
  <1> SUFFICES ASSUME [SomeStep]_allVars PROVE [Impulse!Next]_(Impulse!vars)
    OBVIOUS
  <1> USE DEF impulseVars, Impulse!vars
  <1>1. CASE ImpulseStep BY <1>1 DEF ImpulseStep
  <1>2. CASE Rest /\ program # "impulse" BY <1>2 DEF Rest
  <1>3. CASE UNCHANGED allVars BY <1>3 DEF allVars
  <1> QED
    BY <1>1, <1>2, <1>3
    DEF SomeStep, VelocityStep, ProjectionStep, PreflightStep, FeedbackStep, ExposureStep,
        ContractStep, CauseStep, ResponseStep, SixVideoStep

LEMMA PlanConstants ==
  /\ Probes \in Nat /\ Clean \in Nat /\ ImpulseRuns \in Nat
  /\ Clean >= 1 /\ Clean < Probes
  BY InstancesAssumption DEF Impulse!PlanAssumption

LEMMA ImpulseStarts == Impulse!Init => ImpulseInv
  <1> SUFFICES ASSUME Impulse!Init PROVE ImpulseInv
    OBVIOUS
  <1> USE DEF Impulse!Init
  <1>1. ImpulseTyped
    <2>1. 0 \in 0 .. ImpulseRuns /\ 0 \in 0 .. Probes + 5 /\ 0 \in 0 .. Probes
      BY PlanConstants
    <2>2. video \in [1 .. Probes -> 0 .. ImpulseRuns] BY <2>1
    <2> QED BY <2>1, <2>2 DEF ImpulseTyped, ImpulseStages
  <1>2. Impulse!NoFile \in ImpulseFiles
    BY PlanConstants DEF Impulse!NoFile, ImpulseFiles
  <1>3. impulseDisk \in [Impulse!Names -> ImpulseFiles] BY <1>2
  <1>4. \A n \in Impulse!Names : impulseDisk[n] = Impulse!NoFile OBVIOUS
  <1>5. OfRuns BY <1>4 DEF OfRuns, Impulse!NoFile
  <1>6. RunsInOrder /\ RowsAreDone /\ Impulse!RowsHaveTheirVideo
    BY <1>4
    DEF RunsInOrder, RowsAreDone, Impulse!RowsHaveTheirVideo, Impulse!NoFile, Impulse!Names
  <1>7. ImpulseStaged /\ ResultsWritten
    BY DEF ImpulseStaged, ResultsWritten, Impulse!Ended
  <1>8. ManifestsInOrder BY <1>4 DEF ManifestsInOrder, Impulse!NoFile, Impulse!Names
  <1> QED BY <1>1, <1>3, <1>5, <1>6, <1>7, <1>8 DEF ImpulseInv, Histories

\* A step that writes no file.
LEMMA HistoriesStay ==
  ASSUME ImpulseInv, impulseDisk' = impulseDisk, impulseRun' = impulseRun,
         done' \in 0 .. Probes, done <= done',
         \A p \in 1 .. Probes : video'[p] <= impulseRun
  PROVE  Histories'
  <1>1. OfRuns' BY DEF ImpulseInv, Histories, OfRuns
  <1>2. RunsInOrder' /\ Impulse!RowsHaveTheirVideo'
    BY DEF ImpulseInv, Histories, RunsInOrder, Impulse!RowsHaveTheirVideo
  <1>3. RowsAreDone'
    <2>1. RowsAreDone /\ impulseDisk \in [Impulse!Names -> ImpulseFiles] BY DEF ImpulseInv, Histories
    <2>2. \A n \in Impulse!Names : impulseDisk[n].rows \in Nat
      BY <2>1, PlanConstants DEF ImpulseFiles
    <2>3. done \in Nat /\ done' \in Nat BY PlanConstants DEF ImpulseInv, ImpulseTyped
    <2> QED BY <2>1, <2>2, <2>3 DEF RowsAreDone, Impulse!Names
  <1> QED BY <1>1, <1>2, <1>3 DEF ImpulseInv, Histories

\* One file written, by the run or torn: full checkpoints and records of probes with the
\* generation records, a manifest with the checkpoints.
LEMMA FileWritten ==
  ASSUME ImpulseInv, impulseRun > 0, impulseRun' = impulseRun, done' = done, video' = video,
         NEW n \in Impulse!Names, NEW f \in ImpulseFiles,
         impulseDisk' = [impulseDisk EXCEPT ![n] = f],
         f = Impulse!Torn \/ f.of = impulseRun,
         n = "checkpoints" /\ f.kind = "full" => impulseDisk["generation"].of = impulseRun,
         n = "manifest" /\ f.rows > 0 => impulseDisk["checkpoints"].of = impulseRun,
         n \in {"steps", "traces", "checkpoints"} /\ f.rows > 0 =>
           /\ f.rows <= done /\ impulseDisk["generation"].of = impulseRun
           /\ impulseDisk["generation"].rows >= f.rows,
         n = "generation" /\ f # Impulse!Torn => f.rows = done
  PROVE  Histories'
  <1>0. /\ impulseDisk \in [Impulse!Names -> ImpulseFiles]
        /\ OfRuns /\ RunsInOrder /\ RowsAreDone /\ Impulse!RowsHaveTheirVideo
        /\ done \in Nat /\ impulseRun \in Nat
    BY PlanConstants DEF ImpulseInv, Histories, ImpulseTyped
  <1>1. impulseDisk' \in [Impulse!Names -> ImpulseFiles] BY <1>0
  <1>2. impulseDisk'[n] = f BY <1>0
  <1>3. \A m \in Impulse!Names : m # n => impulseDisk'[m] = impulseDisk[m] BY <1>0
  <1>4. /\ f.of \in Nat /\ f.rows \in Nat
        /\ \A m \in Impulse!Names : impulseDisk[m].of \in Nat /\ impulseDisk[m].rows \in Nat
    BY <1>0, PlanConstants DEF ImpulseFiles
  <1>5. f = Impulse!Torn => f.of = 0 /\ f.rows = 0 /\ f.kind = "torn" BY DEF Impulse!Torn
  <1>6. OfRuns'
    <2>1. ASSUME NEW m \in Impulse!Names
          PROVE  /\ impulseDisk'[m].of <= impulseRun
                 /\ impulseDisk'[m].rows > 0 => impulseDisk'[m].of > 0
      <3>1. CASE m = n BY <3>1, <1>0, <1>2, <1>4, <1>5
      <3>2. CASE m # n BY <3>2, <1>0, <1>3 DEF OfRuns
      <3> QED BY <3>1, <3>2
    <2> QED BY <2>1, <1>0 DEF OfRuns
  <1> USE DEF Impulse!Names
  <1>7. \A m \in Impulse!Names : impulseDisk[m].of <= impulseRun BY <1>0 DEF OfRuns
  <1>8. RunsInOrder'
    <2>1. CASE n = "checkpoints"
      BY <2>1, <1>0, <1>2, <1>3, <1>4, <1>5, <1>7 DEF RunsInOrder
    <2>2. CASE n = "generation"
      BY <2>2, <1>0, <1>2, <1>3, <1>4, <1>5, <1>7 DEF RunsInOrder
    <2>3. CASE n = "manifest"
      BY <2>3, <1>0, <1>2, <1>3, <1>4, <1>5, <1>7 DEF RunsInOrder
    <2>4. CASE n \notin {"checkpoints", "generation", "manifest"}
      BY <2>4, <1>0, <1>3 DEF RunsInOrder
    <2> QED BY <2>1, <2>2, <2>3, <2>4
  <1>9. RowsAreDone'
    <2> SUFFICES ASSUME NEW m \in {"steps", "traces", "checkpoints"},
                        impulseDisk'[m].of = impulseRun
                 PROVE  impulseDisk'[m].rows <= done
      BY DEF RowsAreDone
    <2>1. CASE m = n BY <2>1, <1>0, <1>2, <1>4, <1>5
    <2>2. CASE m # n BY <2>2, <1>0, <1>3 DEF RowsAreDone
    <2> QED BY <2>1, <2>2
  <1>10. Impulse!RowsHaveTheirVideo'
    <2> SUFFICES ASSUME NEW m \in {"steps", "traces", "checkpoints"},
                        impulseDisk'[m].of = impulseRun, impulseDisk'[m].rows > 0
                 PROVE  \/ impulseDisk'["generation"].of = impulseRun
                           /\ impulseDisk'["generation"].rows >= impulseDisk'[m].rows
                        \/ impulseDisk'["generation"] = Impulse!Torn
      BY DEF Impulse!RowsHaveTheirVideo, Impulse!Torn
    <2>1. CASE m = n BY <2>1, <1>0, <1>2, <1>3, <1>4, <1>5
    <2>2. CASE n = "generation"
      BY <2>2, <1>0, <1>2, <1>3, <1>4, <1>5 DEF RowsAreDone
    <2>3. CASE m # n /\ n # "generation"
      BY <2>3, <1>0, <1>3 DEF Impulse!RowsHaveTheirVideo
    <2> QED BY <2>1, <2>2, <2>3
  <1> QED BY <1>1, <1>6, <1>8, <1>9, <1>10 DEF Histories

\* The plan is the only file that a run writes before its first video.
LEMMA Begins == ASSUME ImpulseInv, Impulse!Begin PROVE ImpulseInv'
  <1>0. /\ ImpulseTyped /\ impulseDisk \in [Impulse!Names -> ImpulseFiles]
        /\ OfRuns /\ RunsInOrder /\ RowsAreDone /\ Impulse!RowsHaveTheirVideo
        /\ ManifestsInOrder
    BY DEF ImpulseInv, Histories
  <1>1. /\ impulseRun < ImpulseRuns /\ impulseRun' = impulseRun + 1
        /\ at' = 0 /\ wrapped' = FALSE /\ done' = 0 /\ failed' = FALSE /\ gate' = "none"
        /\ video' = video
    BY DEF Impulse!Begin
  <1>2. impulseRun \in Nat /\ ImpulseRuns \in Nat /\ impulseRun' \in 1 .. ImpulseRuns
    BY <1>0, <1>1, PlanConstants DEF ImpulseTyped
  <1> DEFINE plan == [of |-> impulseRun', rows |-> Probes, kind |-> "rows"]
  <1>3. \/ /\ impulsePc' = "enter" /\ impulseDisk' = [impulseDisk EXCEPT !["plan"] = plan]
        \/ impulsePc' = "raised" /\ impulseDisk' = impulseDisk
    BY DEF Impulse!Begin
  <1>4. /\ plan \in ImpulseFiles /\ plan.of = impulseRun' /\ plan.rows = Probes
    BY <1>2, PlanConstants DEF ImpulseFiles
  <1> HIDE DEF plan
  <1>5. /\ impulseDisk' \in [Impulse!Names -> ImpulseFiles]
        /\ \A n \in Impulse!Names : n # "plan" => impulseDisk'[n] = impulseDisk[n]
        /\ impulseDisk'["plan"] \in {plan, impulseDisk["plan"]}
        /\ impulsePc' = "enter" => impulseDisk'["plan"] = plan
    BY <1>0, <1>3, <1>4 DEF Impulse!Names
  <1>6. /\ \A n \in Impulse!Names : impulseDisk[n].of \in Nat /\ impulseDisk[n].of < impulseRun'
        /\ \A p \in 1 .. Probes : video'[p] <= impulseRun'
    <2>1. \A n \in Impulse!Names : impulseDisk[n].of \in Nat
      BY <1>0, PlanConstants DEF ImpulseFiles
    <2>2. \A p \in 1 .. Probes : video[p] \in Nat
      BY <1>0, PlanConstants DEF ImpulseTyped
    <2> QED BY <2>1, <2>2, <1>0, <1>1, <1>2 DEF OfRuns
  <1>7. ImpulseTyped'
    <2>1. 0 \in 0 .. Probes + 5 /\ 0 \in 0 .. Probes BY PlanConstants
    <2>2. impulseRun' \in 0 .. ImpulseRuns BY <1>2
    <2>3. impulsePc' \in ImpulseStages BY <1>3 DEF ImpulseStages
    <2> QED BY <2>1, <2>2, <2>3, <1>0, <1>1 DEF ImpulseTyped
  <1>8. Histories'
    <2>1. OfRuns'
      <3>1. ASSUME NEW n \in Impulse!Names
            PROVE  /\ impulseDisk'[n].of <= impulseRun'
                   /\ impulseDisk'[n].rows > 0 => impulseDisk'[n].of > 0
        <4>1. CASE impulseDisk'[n] = plan BY <4>1, <1>2, <1>4
        <4>2. CASE impulseDisk'[n] = impulseDisk[n] BY <4>2, <1>0, <1>2, <1>6 DEF OfRuns
        <4> QED BY <4>1, <4>2, <1>5
      <3> QED BY <3>1, <1>6 DEF OfRuns
    <2>2. RunsInOrder' BY <1>0, <1>5 DEF RunsInOrder, Impulse!Names
    <2>3. RowsAreDone' /\ Impulse!RowsHaveTheirVideo'
      BY <1>5, <1>6 DEF RowsAreDone, Impulse!RowsHaveTheirVideo, Impulse!Names
    <2> QED BY <2>1, <2>2, <2>3, <1>5 DEF Histories
  <1>9. ImpulseStaged'
    BY <1>1, <1>2, <1>3, <1>5, <1>7, PlanConstants
    DEF ImpulseStaged, Impulse!Ended, Impulse!File, ImpulseTyped, plan
  <1>10. ResultsWritten' BY <1>3 DEF ResultsWritten
  <1>11. ManifestsInOrder'
    <2>1. /\ impulseDisk'["manifest"] = impulseDisk["manifest"]
          /\ impulseDisk'["design"] = impulseDisk["design"]
          /\ impulseDisk'["decision"] = impulseDisk["decision"]
          /\ impulseDisk["manifest"].of # impulseRun'
      BY <1>5, <1>6 DEF Impulse!Names
    <2>2. impulseRun' # 0 BY <1>2
    <2>3. impulseRun' = 1 => /\ impulseDisk["manifest"] = Impulse!NoFile
                             /\ impulseDisk["design"] = Impulse!NoFile
                             /\ impulseDisk["decision"] = Impulse!NoFile
      BY <1>0, <1>1, <1>2 DEF ManifestsInOrder
    <2>4. impulseDisk["decision"] = Impulse!NoFile => impulseDisk["decision"].kind # "failure"
      BY DEF Impulse!NoFile
    <2>5. Impulse!NoFile' = Impulse!NoFile BY DEF Impulse!NoFile
    <2> QED BY <2>1, <2>2, <2>3, <2>4, <2>5 DEF ManifestsInOrder
  <1> QED BY <1>7, <1>8, <1>9, <1>10, <1>11 DEF ImpulseInv

\* While a run is under way and before it writes its design, the manifest and the design
\* are what they were.
LEMMA ManifestsStay ==
  ASSUME ImpulseInv, impulsePc \notin Impulse!Ended, impulseRun' = impulseRun,
         impulseDisk'["manifest"] = impulseDisk["manifest"],
         impulseDisk'["design"] = impulseDisk["design"],
         impulseDisk'["decision"] = impulseDisk["decision"] \/ impulsePc = "fail",
         impulsePc = "publish" => impulsePc' \in {"publish", "raised", "killed"},
         impulsePc = "fail" => impulsePc' \in {"fail", "raised", "killed"}
  PROVE  ManifestsInOrder'
  <1>0. ManifestsInOrder /\ impulseRun > 0 /\ impulseRun \in Nat
    BY PlanConstants DEF ImpulseInv, ImpulseTyped, ImpulseStaged
  <1>1. impulseDisk["manifest"].of # impulseRun
    BY <1>0 DEF ManifestsInOrder, Impulse!Ended
  <1>2. impulseRun' # 0 /\ impulseDisk'["manifest"].of # impulseRun' BY <1>0, <1>1
  <1>3. Impulse!NoFile' = Impulse!NoFile BY DEF Impulse!NoFile
  <1>4. impulseRun = 1 /\ impulsePc # "publish" =>
          impulseDisk["manifest"] = Impulse!NoFile /\ impulseDisk["design"] = Impulse!NoFile
    BY <1>0 DEF ManifestsInOrder, Impulse!Ended
  <1>5. impulseRun = 1 /\ impulseDisk["decision"].kind = "failure" => impulsePc = "fail"
    BY <1>0 DEF ManifestsInOrder, Impulse!Ended
  <1> QED BY <1>2, <1>3, <1>4, <1>5 DEF ManifestsInOrder

\* A step that changes no more than a video.
LEMMA StagesStay ==
  ASSUME ImpulseInv, impulsePc' = impulsePc, impulseRun' = impulseRun, at' = at,
         wrapped' = wrapped, done' = done, failed' = failed, gate' = gate,
         impulseDisk' = impulseDisk
  PROVE  ImpulseStaged' /\ ResultsWritten' /\ ManifestsInOrder'
  <1>1. ImpulseStaged'
    BY DEF ImpulseInv, ImpulseStaged, SeriesWritten, Impulse!Content, Impulse!File,
           Impulse!Snapshots, Impulse!Ended
  <1>2. ResultsWritten'
    BY DEF ImpulseInv, ResultsWritten, SeriesWritten, Impulse!Content, Impulse!Result,
           Impulse!File, Impulse!Snapshots, Impulse!Results
  <1>3. ManifestsInOrder'
    BY DEF ImpulseInv, ManifestsInOrder, Impulse!Whole, Impulse!NoFile, Impulse!Names
  <1> QED BY <1>1, <1>2, <1>3

\* The steps that write no file, from the entry into the pipeline to the evaluation.
LEMMA QuietInv ==
  ASSUME ImpulseInv,
         \/ Impulse!Enter \/ Impulse!Denoise \/ Impulse!Export \/ Impulse!Append
         \/ Impulse!Except \/ Impulse!Validate \/ Impulse!RefuseDesign \/ Impulse!Evaluate
         \/ Impulse!Kill
  PROVE  ImpulseInv'
  <1>0. /\ ImpulseTyped /\ Histories /\ ImpulseStaged /\ ResultsWritten
        /\ Probes \in Nat /\ impulseRun \in Nat /\ ImpulseRuns \in Nat
    BY PlanConstants DEF ImpulseInv, ImpulseTyped
  <1>1. /\ impulsePc \notin Impulse!Ended
        /\ impulseRun' = impulseRun /\ impulseDisk' = impulseDisk
    BY DEF Impulse!Enter, Impulse!Denoise, Impulse!Export, Impulse!Append, Impulse!Except,
           Impulse!Validate, Impulse!RefuseDesign, Impulse!Evaluate, Impulse!Kill,
           Impulse!Ended
  <1>2. impulseRun > 0 /\ impulseDisk["plan"] = Impulse!File(Probes, "rows")
    BY <1>0, <1>1 DEF ImpulseStaged
  <1>3. impulseDisk'["plan"] = Impulse!File(Probes, "rows")'
    BY <1>1, <1>2 DEF Impulse!File
  <1>4. \A p \in 1 .. Probes : video[p] <= impulseRun BY <1>0 DEF Histories, OfRuns
  <1>5. done \in 0 .. Probes /\ at \in 0 .. Probes + 5 BY <1>0 DEF ImpulseTyped
  <1>6. CASE Impulse!Enter \/ Impulse!Denoise
    <2>1. /\ impulsePc \in {"enter", "denoise"} /\ done' = done /\ video' = video /\ at' = at
          /\ failed' = failed /\ gate' = gate
          /\ impulsePc' \in {"denoise", "export", "except"} /\ wrapped' \in BOOLEAN
          /\ wrapped' => impulsePc' = "denoise"
      BY <1>6 DEF Impulse!Enter, Impulse!Denoise, Impulse!Leave
    <2>2. ImpulseTyped' BY <1>0, <1>1, <2>1 DEF ImpulseTyped, ImpulseStages
    <2>3. Histories' BY <1>1, <1>4, <1>5, <2>1, HistoriesStay
    <2>4. ManifestsInOrder' BY <1>1, <2>1, ManifestsStay
    <2>5. ImpulseStaged' /\ ResultsWritten'
      BY <1>0, <1>1, <1>2, <1>3, <2>1 DEF ImpulseStaged, ResultsWritten
    <2> QED BY <2>2, <2>3, <2>4, <2>5 DEF ImpulseInv
  <1>7. CASE Impulse!Export
    <2>1. /\ impulsePc = "export" /\ impulsePc' \in {"append", "except"} /\ done' = done
          /\ wrapped' = wrapped /\ at' = at /\ failed' = failed /\ gate' = gate
          /\ video' = [video EXCEPT ![done + 1] = impulseRun]
             \/ video' = [video EXCEPT ![done + 1] = 0]
      BY <1>7 DEF Impulse!Export
    <2>2. wrapped = FALSE /\ ~failed /\ done < Probes BY <1>0, <2>1 DEF ImpulseStaged, ImpulseTyped
    <2>3. /\ video' \in [1 .. Probes -> 0 .. ImpulseRuns]
          /\ \A p \in 1 .. Probes : video'[p] <= impulseRun
      <3>1. video \in [1 .. Probes -> 0 .. ImpulseRuns] /\ impulseRun \in 0 .. ImpulseRuns
            /\ 0 \in 0 .. ImpulseRuns
        BY <1>0 DEF ImpulseTyped
      <3>2. \A p \in 1 .. Probes : video'[p] \in {video[p], impulseRun, 0} BY <3>1, <2>1
      <3>3. video' \in [1 .. Probes -> 0 .. ImpulseRuns] BY <3>1, <2>1
      <3> QED BY <3>2, <3>3, <1>0, <1>4
    <2>4. ImpulseTyped' BY <1>0, <1>1, <2>1, <2>3 DEF ImpulseTyped, ImpulseStages
    <2>5. Histories' BY <1>1, <1>5, <2>1, <2>3, HistoriesStay
    <2>6. ManifestsInOrder' BY <1>1, <2>1, ManifestsStay
    <2>7. ImpulseStaged' /\ ResultsWritten'
      BY <1>1, <1>2, <1>3, <2>1, <2>2 DEF ImpulseStaged, ResultsWritten
    <2> QED BY <2>4, <2>5, <2>6, <2>7 DEF ImpulseInv
  <1>8. CASE Impulse!Append \/ Impulse!Except
    <2>1. /\ impulsePc \in {"append", "except"} /\ video' = video
          /\ wrapped' = wrapped /\ gate' = gate
          /\ \/ impulsePc = "append" /\ done' = done + 1 /\ at' = 1 /\ impulsePc' = "snapshot"
                /\ failed' = failed
             \/ done' = done /\ at' = at /\ impulsePc' = "except" /\ failed' = failed
             \/ done' = done /\ at' = 1 /\ impulsePc' = "snapshot" /\ failed' = TRUE
      BY <1>8 DEF Impulse!Append, Impulse!Except
    <2>2. wrapped = FALSE /\ (impulsePc = "append" => done < Probes)
      BY <1>0, <2>1 DEF ImpulseStaged, ImpulseTyped
    <2>3. done' \in 0 .. Probes /\ done <= done' /\ at' \in 0 .. Probes + 5
      BY <1>0, <1>5, <2>1, <2>2
    <2>4. ImpulseTyped'
      <3>1. failed' \in BOOLEAN /\ impulsePc' \in ImpulseStages
        BY <1>0, <2>1 DEF ImpulseTyped, ImpulseStages
      <3> QED BY <3>1, <1>0, <1>1, <2>1, <2>3 DEF ImpulseTyped
    <2>5. Histories' BY <1>1, <1>4, <2>1, <2>3, HistoriesStay
    <2>6. ManifestsInOrder' BY <1>1, <2>1, ManifestsStay
    <2>7. ImpulseStaged' /\ ResultsWritten'
      BY <1>1, <1>2, <1>3, <2>1, <2>2 DEF ImpulseStaged, ResultsWritten, SeriesWritten
    <2> QED BY <2>4, <2>5, <2>6, <2>7 DEF ImpulseInv
  <1>9. CASE Impulse!Validate \/ Impulse!RefuseDesign
    <2>1. /\ impulsePc \in {"validate", "encode"} /\ video' = video /\ done' = done
          /\ wrapped' = wrapped /\ gate' = gate /\ failed' = failed
          /\ \/ at' = 1 /\ impulsePc' = "again"
             \/ at' = 0 /\ impulsePc' = "fail"
      BY <1>9 DEF Impulse!Validate, Impulse!RefuseDesign
    <2>2. wrapped = FALSE /\ ~failed /\ done = Probes BY <1>0, <2>1 DEF ImpulseStaged, ImpulseTyped
    <2>3. at' \in 0 .. Probes + 5 BY <1>0, <2>1
    <2>4. ImpulseTyped' BY <1>0, <1>1, <2>1, <2>3 DEF ImpulseTyped, ImpulseStages
    <2>5. Histories' BY <1>1, <1>4, <1>5, <2>1, HistoriesStay
    <2>6. ManifestsInOrder' BY <1>1, <2>1, ManifestsStay
    <2>7. ImpulseStaged' /\ ResultsWritten'
      BY <1>1, <1>2, <1>3, <2>1, <2>2 DEF ImpulseStaged, ResultsWritten, SeriesWritten
    <2> QED BY <2>4, <2>5, <2>6, <2>7 DEF ImpulseInv
  <1>10. CASE Impulse!Evaluate
    <2>1. /\ impulsePc = "encode" /\ at = Probes + 1 /\ video' = video /\ done' = done
          /\ wrapped' = wrapped /\ failed' = failed
          /\ \/ gate' \in {"pass", "stop"} /\ at' = 1 /\ impulsePc' = "publish"
             \/ gate' = gate /\ at' = 0 /\ impulsePc' = "fail"
      BY <1>10 DEF Impulse!Evaluate
    <2>2. /\ wrapped = FALSE /\ ~failed /\ done = Probes /\ SeriesWritten(4)
          /\ impulseDisk["features"] = Impulse!File(at - 1, "rows")
      BY <1>0, <2>1, PlanConstants DEF ImpulseStaged, ImpulseTyped
    <2>3. at' \in 0 .. Probes + 5 BY <1>0, <2>1
    <2>4. ImpulseTyped' BY <1>0, <1>1, <2>1, <2>3 DEF ImpulseTyped, ImpulseStages
    <2>5. Histories' BY <1>1, <1>4, <1>5, <2>1, HistoriesStay
    <2>6. ManifestsInOrder' BY <1>1, <2>1, ManifestsStay
    <2>7. ImpulseStaged'
      BY <1>1, <1>2, <1>3, <2>1, <2>2 DEF ImpulseStaged
    <2>8. ResultsWritten'
      <3>1. SeriesWritten(3)'
        BY <1>1, <2>1, <2>2 DEF SeriesWritten, Impulse!Content, Impulse!File, Impulse!Snapshots
      <3>2. impulseDisk'["features"] = Impulse!File(Probes, "rows")'
        <4>1. at - 1 = Probes BY <1>0, <2>1
        <4> QED BY <4>1, <1>1, <2>2 DEF Impulse!File
      <3> QED BY <3>1, <3>2, <2>1 DEF ResultsWritten
    <2> QED BY <2>4, <2>5, <2>6, <2>7, <2>8 DEF ImpulseInv
  <1>11. CASE Impulse!Kill
    <2>1. /\ impulsePc' = "killed" /\ at' = 0 /\ wrapped' = FALSE /\ video' = video
          /\ done' = done /\ failed' = failed /\ gate' = gate
      BY <1>11 DEF Impulse!Kill
    <2>2. at' \in 0 .. Probes + 5 BY <1>0, <2>1
    <2>3. ImpulseTyped' BY <1>0, <1>1, <2>1, <2>2 DEF ImpulseTyped, ImpulseStages
    <2>4. Histories' BY <1>1, <1>4, <1>5, <2>1, HistoriesStay
    <2>5. ManifestsInOrder' BY <1>1, <2>1, ManifestsStay
    <2>6. ImpulseStaged' /\ ResultsWritten'
      BY <2>1 DEF ImpulseStaged, ResultsWritten, Impulse!Ended
    <2> QED BY <2>3, <2>4, <2>5, <2>6 DEF ImpulseInv
  <1> QED BY <1>6, <1>7, <1>8, <1>9, <1>10, <1>11

\* A stored video that changes is of no run.
LEMMA DamageInv ==
  ASSUME ImpulseInv, NEW p \in 1 .. Probes, Impulse!Damage(p) PROVE ImpulseInv'
  <1>1. /\ impulsePc' = impulsePc /\ impulseRun' = impulseRun /\ at' = at
        /\ wrapped' = wrapped /\ done' = done /\ failed' = failed /\ gate' = gate
        /\ impulseDisk' = impulseDisk /\ video' = [video EXCEPT ![p] = 0]
    BY DEF Impulse!Damage
  <1>2. /\ video \in [1 .. Probes -> 0 .. ImpulseRuns] /\ impulseRun \in 0 .. ImpulseRuns
        /\ ImpulseRuns \in Nat /\ done \in 0 .. Probes /\ Probes \in Nat
        /\ \A q \in 1 .. Probes : video[q] <= impulseRun
    BY PlanConstants DEF ImpulseInv, ImpulseTyped, Histories, OfRuns
  <1>3. /\ video' \in [1 .. Probes -> 0 .. ImpulseRuns]
        /\ \A q \in 1 .. Probes : video'[q] <= impulseRun
    <2>1. 0 \in 0 .. ImpulseRuns /\ 0 <= impulseRun BY <1>2
    <2> QED BY <2>1, <1>1, <1>2
  <1>4. ImpulseTyped' BY <1>1, <1>3 DEF ImpulseInv, ImpulseTyped
  <1>5. Histories' BY <1>1, <1>2, <1>3, HistoriesStay
  <1> QED BY <1>1, <1>4, <1>5, StagesStay DEF ImpulseInv

Recorded == {"generation", "steps", "traces", "checkpoints"}

\* What a snapshot writes.
LEMMA ContentIs ==
  ASSUME ImpulseInv, impulseRun > 0, NEW n \in Recorded
  PROVE  /\ Impulse!Content(n) \in ImpulseFiles /\ Impulse!Content(n).of = impulseRun
         /\ Impulse!Content(n).rows <= done /\ Impulse!Content(n).kind # "full"
         /\ n = "generation" => Impulse!Content(n).rows = done
  <1>1. /\ done \in 0 .. Probes /\ impulseRun \in 0 .. ImpulseRuns
        /\ Probes \in Nat /\ Clean \in Nat
    BY PlanConstants DEF ImpulseInv, ImpulseTyped
  <1>2. (IF done > Clean THEN done - Clean ELSE 0) \in 0 .. Probes
        /\ (IF done > Clean THEN done - Clean ELSE 0) <= done
    BY <1>1
  <1>3. CASE n = "generation"
    <2>1. Impulse!Content(n) = [of |-> impulseRun, rows |-> done,
                                kind |-> IF failed THEN "failed" ELSE "rows"]
      BY <1>3 DEF Impulse!Content, Impulse!File
    <2> QED BY <2>1, <1>1, <1>3 DEF ImpulseFiles
  <1>4. CASE n = "traces"
    <2>1. Impulse!Content(n) = [of |-> impulseRun,
                                rows |-> IF done > Clean THEN done - Clean ELSE 0,
                                kind |-> "rows"]
      BY <1>4 DEF Impulse!Content, Impulse!File
    <2> QED BY <2>1, <1>1, <1>2, <1>4 DEF ImpulseFiles
  <1>5. CASE n \in {"steps", "checkpoints"}
    <2>1. Impulse!Content(n) = [of |-> impulseRun, rows |-> done, kind |-> "rows"]
      BY <1>5 DEF Impulse!Content, Impulse!File
    <2> QED BY <2>1, <1>1, <1>5 DEF ImpulseFiles
  <1> QED BY <1>3, <1>4, <1>5 DEF Recorded

LEMMA SeriesGrows ==
  ASSUME ImpulseInv, NEW k \in 1 .. 4, SeriesWritten(k - 1),
         impulseDisk' = [impulseDisk EXCEPT ![Impulse!Snapshots[k]] =
                           Impulse!Content(Impulse!Snapshots[k])],
         impulseRun' = impulseRun, done' = done, failed' = failed
  PROVE  SeriesWritten(k)'
  <1>1. impulseDisk \in [Impulse!Names -> ImpulseFiles] BY DEF ImpulseInv, Histories
  <1>2. \A n \in Recorded : Impulse!Content(n)' = Impulse!Content(n)
    BY DEF Impulse!Content, Impulse!File
  <1>3. \A i \in 1 .. 4 : Impulse!Snapshots[i] \in Recorded
    BY DEF Impulse!Snapshots, Recorded
  <1>4. \A i, j \in 1 .. 4 : i # j => Impulse!Snapshots[i] # Impulse!Snapshots[j]
    BY DEF Impulse!Snapshots
  <1>5. Recorded \subseteq Impulse!Names BY DEF Recorded, Impulse!Names
  <1>6. ASSUME NEW i \in 1 .. k
        PROVE  impulseDisk'[Impulse!Snapshots[i]] = Impulse!Content(Impulse!Snapshots[i])
    <2>1. i \in 1 .. 4 OBVIOUS
    <2>2. CASE i = k BY <2>1, <2>2, <1>1, <1>3, <1>5
    <2>3. CASE i # k
      <3>1. i \in 1 .. k - 1 BY <2>3
      <3>2. impulseDisk[Impulse!Snapshots[i]] = Impulse!Content(Impulse!Snapshots[i])
        BY <3>1 DEF SeriesWritten
      <3> QED BY <3>2, <2>1, <2>3, <1>1, <1>3, <1>4, <1>5
    <2> QED BY <2>2, <2>3
  <1>7. Impulse!Snapshots' = Impulse!Snapshots BY DEF Impulse!Snapshots
  <1>8. \A i \in 1 .. k :
          impulseDisk'[Impulse!Snapshots[i]] = Impulse!Content(Impulse!Snapshots[i])'
    BY <1>2, <1>3, <1>6
  <1> QED BY <1>7, <1>8 DEF SeriesWritten

\* The series of snapshots after a video and before the features.
LEMMA SeriesInv ==
  ASSUME ImpulseInv, Impulse!Snapshot \/ Impulse!Again
  PROVE  ImpulseInv'
  <1>0. /\ ImpulseTyped /\ Histories /\ ImpulseStaged
        /\ impulseDisk \in [Impulse!Names -> ImpulseFiles]
        /\ Probes \in Nat /\ impulseRun \in Nat /\ done \in 0 .. Probes
    BY PlanConstants DEF ImpulseInv, ImpulseTyped, Histories
  <1>1. /\ impulsePc \in {"snapshot", "again"} /\ impulseRun' = impulseRun
        /\ wrapped' = wrapped /\ done' = done /\ failed' = failed /\ gate' = gate
        /\ video' = video
    BY DEF Impulse!Snapshot, Impulse!Again
  <1>2. impulseRun > 0 /\ impulseDisk["plan"] = Impulse!File(Probes, "rows")
        /\ wrapped = FALSE /\ (impulsePc = "again" => ~failed /\ done = Probes)
    BY <1>0, <1>1 DEF ImpulseStaged, ImpulseTyped, Impulse!Ended
  <1>3. PICK k \in 1 .. 4 : at = k /\ SeriesWritten(k - 1) BY <1>0, <1>1 DEF ImpulseStaged
  <1> DEFINE n == Impulse!Snapshots[k]
  <1>4. n \in Recorded /\ n \in Impulse!Names /\ (k = 1 <=> n = "generation")
    BY DEF Impulse!Snapshots, Recorded, Impulse!Names
  <1> DEFINE Onward ==
               \/ k < 4 /\ at' = k + 1 /\ impulsePc' = impulsePc
               \/ k = 4 /\ impulsePc = "snapshot" /\ at' = 0
                  /\ impulsePc' = Impulse!AfterSnapshots
               \/ k = 4 /\ impulsePc = "again" /\ at' = 1 /\ impulsePc' = "encode"
  <1>5. PICK f \in {Impulse!Content(n), Impulse!Torn} :
          /\ impulseDisk' = [impulseDisk EXCEPT ![n] = f]
          /\ \/ f = Impulse!Content(n) /\ Onward
             \/ f = Impulse!Torn /\ at' = 0 /\ impulsePc' \in {"fail", "except"}
    BY <1>3 DEF Impulse!Snapshot, Impulse!Again, Impulse!Order
  <1>6. /\ Impulse!Content(n) \in ImpulseFiles /\ Impulse!Content(n).of = impulseRun
        /\ Impulse!Content(n).rows <= done /\ Impulse!Content(n).kind # "full"
        /\ n = "generation" => Impulse!Content(n).rows = done
    BY <1>2, <1>4, ContentIs
  <1>7. k # 1 => /\ impulseDisk["generation"].of = impulseRun
                 /\ impulseDisk["generation"].rows = done
    <2> SUFFICES ASSUME k # 1 PROVE impulseDisk["generation"].of = impulseRun
                                    /\ impulseDisk["generation"].rows = done
      OBVIOUS
    <2>1. 1 \in 1 .. k - 1 OBVIOUS
    <2>2. Impulse!Snapshots[1] = "generation" BY DEF Impulse!Snapshots
    <2>3. impulseDisk["generation"] = Impulse!Content("generation")
      BY <1>3, <2>1, <2>2 DEF SeriesWritten
    <2>4. "generation" \in Recorded BY DEF Recorded
    <2> QED BY <1>2, <2>3, <2>4, ContentIs
  <1>8. Impulse!Torn \in ImpulseFiles /\ Impulse!Torn.rows = 0 /\ Impulse!Torn.kind = "torn"
    BY PlanConstants DEF Impulse!Torn, ImpulseFiles
  <1> HIDE DEF n
  <1>9. Histories'
    <2>1. f \in ImpulseFiles /\ (f = Impulse!Torn \/ f.of = impulseRun) BY <1>5, <1>6, <1>8
    <2>2. n = "checkpoints" /\ f.kind = "full" => impulseDisk["generation"].of = impulseRun
      BY <1>5, <1>6, <1>8
    <2>3. n # "manifest" BY <1>4 DEF Recorded
    <2>4. n \in {"steps", "traces", "checkpoints"} /\ f.rows > 0 =>
             /\ f.rows <= done /\ impulseDisk["generation"].of = impulseRun
             /\ impulseDisk["generation"].rows >= f.rows
      <3>1. CASE f = Impulse!Torn BY <3>1, <1>8
      <3>2. CASE f = Impulse!Content(n) BY <3>2, <1>4, <1>6, <1>7
      <3> QED BY <3>1, <3>2, <1>5
    <2>5. n = "generation" /\ f # Impulse!Torn => f.rows = done BY <1>5, <1>6
    <2>6. impulseDisk' = [impulseDisk EXCEPT ![n] = f] BY <1>5
    <2> QED BY <1>1, <1>2, <1>4, <2>1, <2>2, <2>3, <2>4, <2>5, <2>6, FileWritten
  <1>10. \A m \in Impulse!Names : m # n => impulseDisk'[m] = impulseDisk[m] BY <1>0, <1>5
  <1>11. /\ impulseDisk'["manifest"] = impulseDisk["manifest"]
         /\ impulseDisk'["design"] = impulseDisk["design"]
         /\ impulseDisk'["decision"] = impulseDisk["decision"]
         /\ impulseDisk'["plan"] = Impulse!File(Probes, "rows")'
    <2>1. impulseDisk'["plan"] = impulseDisk["plan"]
      BY <1>4, <1>10 DEF Recorded, Impulse!Names
    <2>2. Impulse!File(Probes, "rows")' = Impulse!File(Probes, "rows")
      BY <1>1 DEF Impulse!File
    <2> QED BY <2>1, <2>2, <1>2, <1>4, <1>10 DEF Recorded, Impulse!Names
  <1>12. ManifestsInOrder'
    BY <1>1, <1>11, ManifestsStay DEF Impulse!Ended
  <1>13. /\ impulsePc' \in ImpulseStages /\ impulsePc' # "publish" /\ impulsePc' # "denoise"
         /\ at' \in 0 .. 5
    BY <1>0, <1>1, <1>5 DEF ImpulseStages, Impulse!AfterSnapshots
  <1>14. ImpulseTyped'
    <2>1. at' \in 0 .. Probes + 5 BY <1>0, <1>13
    <2> QED BY <2>1, <1>0, <1>1, <1>13 DEF ImpulseTyped
  <1>15. ResultsWritten' BY <1>13 DEF ResultsWritten
  <1>16. ImpulseStaged'
    <2>1. CASE f = Impulse!Torn /\ at' = 0 /\ impulsePc' \in {"fail", "except"}
      BY <2>1, <1>1, <1>2, <1>11 DEF ImpulseStaged
    <2>2. CASE f = Impulse!Content(n) /\ Onward
      <3>1. SeriesWritten(k)'
        BY <2>2, <1>1, <1>3, <1>5, SeriesGrows DEF n
      <3>2. CASE k < 4 /\ at' = k + 1 /\ impulsePc' = impulsePc
        <4>1. at' - 1 = k /\ at' \in 1 .. 4 BY <3>2
        <4>2. (SeriesWritten(at - 1))' BY <3>1, <4>1 DEF SeriesWritten
        <4> QED BY <4>1, <4>2, <3>2, <1>1, <1>2, <1>11 DEF ImpulseStaged
      <3>3. CASE k = 4 /\ impulsePc = "snapshot" /\ at' = 0
                 /\ impulsePc' = Impulse!AfterSnapshots
        <4>1. \/ impulsePc' = "fail"
              \/ impulsePc' = "validate" /\ ~failed /\ done = Probes
              \/ impulsePc' = "enter" /\ ~failed /\ done < Probes
          BY <3>3, <1>0 DEF Impulse!AfterSnapshots
        <4> QED BY <4>1, <3>3, <1>1, <1>2, <1>11 DEF ImpulseStaged
      <3>4. CASE k = 4 /\ impulsePc = "again" /\ at' = 1 /\ impulsePc' = "encode"
        <4>1. SeriesWritten(4)' BY <3>1, <3>4
        <4>2. at' \in 1 .. Probes + 1 BY <3>4, <1>0
        <4> QED BY <4>1, <4>2, <3>4, <1>1, <1>2, <1>11 DEF ImpulseStaged
      <3> QED BY <3>2, <3>3, <3>4, <2>2, <1>5
    <2> QED BY <2>1, <2>2, <1>5
  <1> QED BY <1>9, <1>12, <1>14, <1>15, <1>16 DEF ImpulseInv

ImpulseKinds == {"rows", "full", "failure", "pass", "stop"}

\* What the other steps write.
LEMMA FilesAre ==
  ASSUME impulseRun \in 0 .. ImpulseRuns, NEW x \in 0 .. Probes, NEW k \in ImpulseKinds
  PROVE  /\ Impulse!File(x, k) \in ImpulseFiles /\ Impulse!File(x, k).of = impulseRun
         /\ Impulse!File(x, k).rows = x /\ Impulse!File(x, k).kind = k
         /\ Impulse!Torn \in ImpulseFiles /\ Impulse!Torn.kind = "torn"
         /\ Impulse!Torn.rows = 0
  <1>1. Impulse!File(x, k) = [of |-> impulseRun, rows |-> x, kind |-> k]
    BY DEF Impulse!File
  <1>2. Impulse!Torn = [of |-> 0, rows |-> 0, kind |-> "torn"] BY DEF Impulse!Torn
  <1>3. 0 \in 0 .. Probes /\ 0 \in 0 .. ImpulseRuns BY PlanConstants
  <1>4. [of |-> impulseRun, rows |-> x, kind |-> k] \in ImpulseFiles
    BY DEF ImpulseFiles, ImpulseKinds
  <1>5. [of |-> 0, rows |-> 0, kind |-> "torn"] \in ImpulseFiles
    BY <1>3 DEF ImpulseFiles
  <1> QED BY <1>1, <1>2, <1>4, <1>5

\* The features, rewritten after each probe.
LEMMA EncodeInv == ASSUME ImpulseInv, Impulse!Encode PROVE ImpulseInv'
  <1>0. /\ ImpulseTyped /\ Histories /\ ImpulseStaged
        /\ impulseDisk \in [Impulse!Names -> ImpulseFiles]
        /\ Probes \in Nat /\ impulseRun \in 0 .. ImpulseRuns /\ at \in 0 .. Probes + 5
    BY PlanConstants DEF ImpulseInv, ImpulseTyped, Histories
  <1>1. /\ impulsePc = "encode" /\ at <= Probes /\ impulseRun' = impulseRun
        /\ wrapped' = wrapped /\ done' = done /\ failed' = failed /\ gate' = gate
        /\ video' = video
    BY DEF Impulse!Encode
  <1>2. /\ impulseRun > 0 /\ impulseDisk["plan"] = Impulse!File(Probes, "rows")
        /\ wrapped = FALSE /\ ~failed /\ done = Probes /\ SeriesWritten(4)
        /\ at \in 1 .. Probes + 1
    BY <1>0, <1>1 DEF ImpulseStaged, ImpulseTyped, Impulse!Ended
  <1> DEFINE feature == Impulse!File(at, "rows")
  <1>3. /\ feature \in ImpulseFiles /\ feature.of = impulseRun
        /\ Impulse!Torn \in ImpulseFiles
    <2>1. at \in 0 .. Probes BY <1>0, <1>1
    <2> QED BY <2>1, <1>0, FilesAre DEF ImpulseKinds
  <1>4. \/ /\ impulseDisk' = [impulseDisk EXCEPT !["features"] = feature]
           /\ at' = at + 1 /\ impulsePc' = "encode"
        \/ /\ \/ impulseDisk' = [impulseDisk EXCEPT !["features"] = Impulse!Torn]
              \/ impulseDisk' = impulseDisk
           /\ at' = 0 /\ impulsePc' = "fail"
    BY <1>1 DEF Impulse!Encode
  <1>5. "features" \in Impulse!Names BY DEF Impulse!Names
  <1>6. Histories'
    <2>1. CASE impulseDisk' = impulseDisk
      <3>1. done' \in 0 .. Probes /\ done <= done' BY <1>0, <1>1, <1>2
      <3>2. \A p \in 1 .. Probes : video'[p] <= impulseRun
        BY <1>0, <1>1 DEF Histories, OfRuns
      <3> QED BY <2>1, <3>1, <3>2, <1>1, HistoriesStay
    <2>2. CASE impulseDisk' = [impulseDisk EXCEPT !["features"] = feature]
      <3> HIDE DEF feature
      <3> QED BY <2>2, <1>1, <1>2, <1>3, <1>5, FileWritten
    <2>3. CASE impulseDisk' = [impulseDisk EXCEPT !["features"] = Impulse!Torn]
      BY <2>3, <1>1, <1>2, <1>3, <1>5, FileWritten
    <2> QED BY <2>1, <2>2, <2>3, <1>4
  <1>7. \A m \in Impulse!Names : m # "features" => impulseDisk'[m] = impulseDisk[m]
    BY <1>0, <1>4
  <1>8. ManifestsInOrder'
    BY <1>1, <1>7, ManifestsStay DEF Impulse!Ended, Impulse!Names
  <1>9. ImpulseTyped'
    <2>1. at' \in 0 .. Probes + 5 BY <1>0, <1>1, <1>4
    <2> QED BY <2>1, <1>0, <1>1, <1>4 DEF ImpulseTyped, ImpulseStages
  <1>10. ResultsWritten' BY <1>4 DEF ResultsWritten
  <1>11. ImpulseStaged'
    <2>1. impulseDisk'["plan"] = Impulse!File(Probes, "rows")'
      BY <1>1, <1>2, <1>7 DEF Impulse!Names, Impulse!File
    <2>2. SeriesWritten(4)'
      BY <1>1, <1>2, <1>7
      DEF SeriesWritten, Impulse!Content, Impulse!File, Impulse!Snapshots, Impulse!Names
    <2>3. CASE at' = 0 /\ impulsePc' = "fail"
      BY <2>1, <2>3, <1>1, <1>2 DEF ImpulseStaged
    <2>4. CASE /\ impulseDisk' = [impulseDisk EXCEPT !["features"] = feature]
               /\ at' = at + 1 /\ impulsePc' = "encode"
      <3>1. at' - 1 = at /\ at' \in 1 .. Probes + 1 BY <2>4, <1>0, <1>1, <1>2
      <3>2. impulseDisk'["features"] = feature BY <2>4, <1>0, <1>5
      <3>3. feature = Impulse!File(at - 1, "rows")' BY <3>1, <1>1 DEF Impulse!File
      <3> HIDE DEF feature
      <3> QED BY <2>1, <2>2, <2>4, <3>1, <3>2, <3>3, <1>1, <1>2 DEF ImpulseStaged
    <2> QED BY <2>3, <2>4, <1>4
  <1> QED BY <1>6, <1>8, <1>9, <1>10, <1>11 DEF ImpulseInv

\* The failure decision and the failure record.
LEMMA FailInv == ASSUME ImpulseInv, Impulse!Fail PROVE ImpulseInv'
  <1>0. /\ ImpulseTyped /\ Histories /\ ImpulseStaged
        /\ impulseDisk \in [Impulse!Names -> ImpulseFiles]
        /\ Probes \in Nat /\ impulseRun \in 0 .. ImpulseRuns /\ at \in 0 .. Probes + 5
    BY PlanConstants DEF ImpulseInv, ImpulseTyped, Histories
  <1>1. /\ impulsePc = "fail" /\ impulseRun' = impulseRun
        /\ wrapped' = wrapped /\ done' = done /\ failed' = failed /\ gate' = gate
        /\ video' = video /\ at' \in 0 .. 1 /\ impulsePc' \in {"fail", "raised"}
    BY DEF Impulse!Fail
  <1>2. /\ impulseRun > 0 /\ impulseDisk["plan"] = Impulse!File(Probes, "rows")
        /\ wrapped = FALSE /\ at \in 0 .. 1
    BY <1>0, <1>1 DEF ImpulseStaged, ImpulseTyped, Impulse!Ended
  <1>3. PICK n \in {"decision", "failure"}, f \in {Impulse!Torn, Impulse!File(0, "failure")} :
          impulseDisk' = [impulseDisk EXCEPT ![n] = f]
    <2>1. Impulse!Failures[at + 1] \in {"decision", "failure"}
      BY <1>2 DEF Impulse!Failures
    <2> QED BY <2>1 DEF Impulse!Fail
  <1>4. f \in ImpulseFiles /\ (f = Impulse!Torn \/ f.of = impulseRun)
    <2>1. 0 \in 0 .. Probes BY <1>0
    <2> QED BY <2>1, <1>0, <1>3, FilesAre DEF ImpulseKinds
  <1>5. n \in Impulse!Names BY <1>3 DEF Impulse!Names
  <1>6. Histories' BY <1>1, <1>2, <1>3, <1>4, <1>5, FileWritten
  <1>7. \A m \in Impulse!Names : m # n => impulseDisk'[m] = impulseDisk[m] BY <1>0, <1>3
  <1>8. ManifestsInOrder'
    BY <1>1, <1>3, <1>7, ManifestsStay DEF Impulse!Ended, Impulse!Names
  <1>9. ImpulseTyped'
    <2>1. at' \in 0 .. Probes + 5 BY <1>0, <1>1
    <2> QED BY <2>1, <1>0, <1>1 DEF ImpulseTyped, ImpulseStages
  <1>10. ResultsWritten' BY <1>1 DEF ResultsWritten
  <1>11. ImpulseStaged'
    <2>1. impulseDisk'["plan"] = Impulse!File(Probes, "rows")'
      BY <1>1, <1>2, <1>3, <1>7 DEF Impulse!Names, Impulse!File
    <2> QED BY <2>1, <1>1, <1>2 DEF ImpulseStaged
  <1> QED BY <1>6, <1>8, <1>9, <1>10, <1>11 DEF ImpulseInv

\* What publication finds on disk of the snapshots.
LEMMA SnapshotsAre ==
  ASSUME SeriesWritten(3), ~failed, done = Probes
  PROVE  /\ impulseDisk["generation"] = Impulse!File(Probes, "rows")
         /\ impulseDisk["steps"] = Impulse!File(Probes, "rows")
         /\ impulseDisk["traces"] = Impulse!File(Probes - Clean, "rows")
  <1>1. /\ Impulse!Snapshots[1] = "generation" /\ Impulse!Snapshots[2] = "steps"
        /\ Impulse!Snapshots[3] = "traces"
    BY DEF Impulse!Snapshots
  <1>2. \A i \in {1, 2, 3} : impulseDisk[Impulse!Snapshots[i]]
                               = Impulse!Content(Impulse!Snapshots[i])
    BY DEF SeriesWritten
  <1>3. done > Clean BY PlanConstants
  <1>4. /\ Impulse!Content("generation") = Impulse!File(Probes, "rows")
        /\ Impulse!Content("steps") = Impulse!File(Probes, "rows")
        /\ Impulse!Content("traces") = Impulse!File(Probes - Clean, "rows")
    BY <1>3 DEF Impulse!Content, Impulse!File
  <1> QED BY <1>1, <1>2, <1>4

Published == {"checkpoints", "features", "design", "decision", "manifest"}

\* What publication writes.
LEMMA ResultIs ==
  /\ Impulse!Result("checkpoints") = Impulse!File(Probes, "full")
  /\ Impulse!Result("features") = Impulse!File(Probes, "rows")
  /\ Impulse!Result("design") = Impulse!File(Probes - Clean, "rows")
  /\ Impulse!Result("decision") = Impulse!File(0, gate)
  /\ Impulse!Result("manifest") = Impulse!File(Probes, "rows")
  BY DEF Impulse!Result

LEMMA ResultWritten ==
  ASSUME impulseRun \in 0 .. ImpulseRuns, gate \in {"pass", "stop"}, NEW n \in Published
  PROVE  /\ Impulse!Result(n) \in ImpulseFiles /\ Impulse!Result(n).of = impulseRun
         /\ Impulse!Result(n).kind # "failure"
  <1>1. 0 \in 0 .. Probes /\ Probes \in 0 .. Probes /\ Probes - Clean \in 0 .. Probes
    BY PlanConstants
  <1>2. gate \in ImpulseKinds /\ {"full", "rows"} \subseteq ImpulseKinds BY DEF ImpulseKinds
  <1>3. CASE n = "checkpoints" BY <1>1, <1>2, <1>3, FilesAre, ResultIs
  <1>4. CASE n \in {"features", "manifest"} BY <1>1, <1>2, <1>4, FilesAre, ResultIs
  <1>5. CASE n = "design" BY <1>1, <1>2, <1>5, FilesAre, ResultIs
  <1>6. CASE n = "decision" BY <1>1, <1>2, <1>6, FilesAre, ResultIs
  <1> QED BY <1>3, <1>4, <1>5, <1>6 DEF Published

\* The results, the manifest last.
LEMMA PublishInv == ASSUME ImpulseInv, Impulse!Publish PROVE ImpulseInv'
  <1>0. /\ ImpulseTyped /\ Histories /\ ImpulseStaged /\ ResultsWritten /\ ManifestsInOrder
        /\ impulseDisk \in [Impulse!Names -> ImpulseFiles]
        /\ Probes \in Nat /\ impulseRun \in 0 .. ImpulseRuns
    BY PlanConstants DEF ImpulseInv, ImpulseTyped, Histories
  <1>1. /\ impulsePc = "publish" /\ impulseRun' = impulseRun
        /\ wrapped' = wrapped /\ done' = done /\ failed' = failed /\ gate' = gate
        /\ video' = video
    BY DEF Impulse!Publish
  <1>2. /\ impulseRun > 0 /\ impulseDisk["plan"] = Impulse!File(Probes, "rows")
        /\ wrapped = FALSE /\ ~failed /\ done = Probes
    BY <1>0, <1>1 DEF ImpulseStaged, ImpulseTyped, Impulse!Ended
  <1>3. /\ at \in 1 .. 5 /\ gate \in {"pass", "stop"} /\ SeriesWritten(3)
        /\ impulseDisk["features"] = Impulse!File(Probes, "rows")
        /\ \A i \in 1 .. at - 1 :
             impulseDisk[Impulse!Results[i]] = Impulse!Result(Impulse!Results[i])
    BY <1>0, <1>1 DEF ResultsWritten
  <1>4. PICK k \in 1 .. 5 : at = k BY <1>3
  <1>5. PICK n \in Published : n = Impulse!Results[k]
    BY DEF Impulse!Results, Published
  <1>6. PICK f \in {Impulse!Torn, Impulse!Result(n)} :
          /\ impulseDisk' = [impulseDisk EXCEPT ![n] = f]
          /\ \/ f = Impulse!Torn /\ at' = 0 /\ impulsePc' = "raised"
             \/ f = Impulse!Result(n) /\ k < 5 /\ at' = k + 1 /\ impulsePc' = "publish"
             \/ f = Impulse!Result(n) /\ k = 5 /\ at' = 0 /\ impulsePc' = "returned"
    <2>1. PICK cut \in BOOLEAN :
            /\ impulseDisk' = [impulseDisk EXCEPT ![n] =
                                 IF cut THEN Impulse!Torn ELSE Impulse!Result(n)]
            /\ CASE cut -> at' = 0 /\ impulsePc' = "raised"
                 [] ~cut /\ k < 5 -> at' = k + 1 /\ impulsePc' = impulsePc
                 [] OTHER -> at' = 0 /\ impulsePc' = "returned"
      BY <1>4, <1>5 DEF Impulse!Publish, Impulse!Publication
    <2>2. CASE cut BY <2>1, <2>2
    <2>3. CASE ~cut /\ k < 5 BY <2>1, <2>3, <1>1
    <2>4. CASE ~cut /\ k = 5 BY <2>1, <2>4
    <2> QED BY <2>2, <2>3, <2>4
  <1>7. /\ n \in Impulse!Names
        /\ n = "manifest" <=> k = 5
        /\ n = "decision" <=> k = 4
        /\ n = "design" <=> k = 3
        /\ n = "features" <=> k = 2
        /\ n = "checkpoints" <=> k = 1
    BY <1>5 DEF Impulse!Results, Impulse!Names, Published
  <1>8. \A m \in Impulse!Names : m # n => impulseDisk'[m] = impulseDisk[m] BY <1>0, <1>6
  <1>9. impulseDisk'[n] = f BY <1>0, <1>6, <1>7
  <1>10. /\ f \in ImpulseFiles /\ (f = Impulse!Torn \/ f.of = impulseRun)
         /\ f.kind # "failure" /\ Impulse!Torn.rows = 0
    <2>1. 0 \in 0 .. Probes /\ "rows" \in ImpulseKinds BY <1>0 DEF ImpulseKinds
    <2>2. Impulse!Torn \in ImpulseFiles /\ Impulse!Torn.kind = "torn" /\ Impulse!Torn.rows = 0
      BY <2>1, <1>0, FilesAre
    <2>3. /\ Impulse!Result(n) \in ImpulseFiles /\ Impulse!Result(n).of = impulseRun
          /\ Impulse!Result(n).kind # "failure"
      BY <1>0, <1>3, ResultWritten
    <2> QED BY <2>2, <2>3, <1>6
  <1>11. /\ impulseDisk["generation"] = Impulse!File(Probes, "rows")
         /\ impulseDisk["steps"] = Impulse!File(Probes, "rows")
         /\ impulseDisk["traces"] = Impulse!File(Probes - Clean, "rows")
    BY <1>2, <1>3, SnapshotsAre
  <1>12. \A x \in 0 .. Probes : \A c \in ImpulseKinds :
           /\ Impulse!File(x, c).of = impulseRun
           /\ Impulse!File(x, c).rows = x /\ Impulse!File(x, c).kind = c
    BY <1>0, FilesAre
  <1>13. /\ 0 \in 0 .. Probes /\ Probes \in 0 .. Probes /\ Probes - Clean \in 0 .. Probes
         /\ {"rows", "full", "pass", "stop"} \subseteq ImpulseKinds
    BY PlanConstants DEF ImpulseKinds
  <1>14. Histories'
    <2>1. impulseDisk["generation"].of = impulseRun /\ impulseDisk["generation"].rows = Probes
      BY <1>11, <1>12, <1>13
    <2>2. n = "checkpoints" => f.rows <= done
      BY <1>0, <1>2, <1>10, PlanConstants DEF ImpulseFiles
    <2>3. n = "manifest" => impulseDisk["checkpoints"].of = impulseRun
      <3>1. SUFFICES ASSUME k = 5 PROVE impulseDisk["checkpoints"].of = impulseRun
        BY <1>7
      <3>2. 1 \in 1 .. at - 1 /\ Impulse!Results[1] = "checkpoints"
        BY <3>1, <1>4 DEF Impulse!Results
      <3>3. impulseDisk["checkpoints"] = Impulse!File(Probes, "full")
        BY <3>2, <1>3, ResultIs
      <3> QED BY <3>3, <1>12, <1>13
    <2>4. n \notin {"steps", "traces", "generation"} BY DEF Published
    <2>5. f.rows <= done /\ n = "checkpoints" => impulseDisk["generation"].rows >= f.rows
      BY <2>1, <1>2, <1>10, PlanConstants DEF ImpulseFiles
    <2> QED BY <1>1, <1>2, <1>6, <1>7, <1>10, <2>1, <2>2, <2>3, <2>4, <2>5, FileWritten
  <1>15. ImpulseTyped'
    <2>1. at' \in 0 .. Probes + 5 BY <1>0, <1>6
    <2> QED BY <2>1, <1>0, <1>1, <1>6 DEF ImpulseTyped, ImpulseStages
  <1>16. ImpulseStaged'
    <2>1. impulseDisk'["plan"] = Impulse!File(Probes, "rows")'
      BY <1>1, <1>2, <1>8 DEF Impulse!Names, Impulse!File, Published
    <2> QED BY <2>1, <1>1, <1>2, <1>6 DEF ImpulseStaged, Impulse!Ended
  <1>17. ResultsWritten'
    <2> SUFFICES ASSUME impulsePc' = "publish" PROVE ResultsWritten'
      BY DEF ResultsWritten
    <2>1. f = Impulse!Result(n) /\ k < 5 /\ at' = k + 1 BY <1>6
    <2>2. SeriesWritten(3)'
      BY <1>1, <1>3, <1>8
      DEF SeriesWritten, Impulse!Content, Impulse!File, Impulse!Snapshots, Impulse!Names,
          Published
    <2>3. impulseDisk'["features"] = Impulse!File(Probes, "rows")'
      <3>1. Impulse!File(Probes, "rows")' = Impulse!File(Probes, "rows")
        BY <1>1 DEF Impulse!File
      <3>2. CASE n = "features" BY <3>1, <3>2, <2>1, <1>9, ResultIs
      <3>3. CASE n # "features" BY <3>1, <3>3, <1>3, <1>8 DEF Impulse!Names
      <3> QED BY <3>2, <3>3
    <2>4. ASSUME NEW i \in 1 .. k
          PROVE  impulseDisk'[Impulse!Results[i]] = Impulse!Result(Impulse!Results[i])
      <3>1. CASE i = k BY <3>1, <2>1, <1>5, <1>9
      <3>2. CASE i # k
        <4>1. i \in 1 .. at - 1 BY <3>2, <1>4
        <4>2. Impulse!Results[i] # n /\ Impulse!Results[i] \in Impulse!Names
          BY <3>2, <2>1, <1>5 DEF Impulse!Results, Impulse!Names
        <4> QED BY <4>1, <4>2, <1>3, <1>8
      <3> QED BY <3>1, <3>2
    <2>5. \A m \in Published : Impulse!Result(m)' = Impulse!Result(m)
      BY <1>1 DEF Impulse!Result, Impulse!File
    <2>6. Impulse!Results' = Impulse!Results /\ \A i \in 1 .. k : Impulse!Results[i] \in Published
      BY <2>1 DEF Impulse!Results, Published
    <2>7. at' \in 1 .. 5 /\ at' - 1 = k BY <2>1
    <2> QED BY <1>1, <1>3, <2>2, <2>3, <2>4, <2>5, <2>6, <2>7 DEF ResultsWritten
  <1>18. ManifestsInOrder'
    <2>1. CASE n \in {"checkpoints", "features"}
      <3>1. impulsePc' \in {"publish", "raised"} BY <2>1, <1>6, <1>7
      <3> QED BY <3>1, <2>1, <1>1, <1>8, ManifestsStay DEF Impulse!Names, Impulse!Ended
    <2>2. CASE n \in {"design", "decision"} \/ (f = Impulse!Torn /\ n = "manifest")
      <3>1. impulseDisk'["manifest"].of # impulseRun
        <4>1. impulseDisk["manifest"].of # impulseRun
          BY <1>0, <1>1, <1>2 DEF ManifestsInOrder
        <4>2. Impulse!Torn.of = 0 BY DEF Impulse!Torn
        <4> QED BY <4>1, <4>2, <2>2, <1>2, <1>8, <1>9, <1>0 DEF Impulse!Names
      <3>2. impulseRun = 1 => impulseDisk'["decision"].kind # "failure"
        <4>1. impulseRun = 1 => impulseDisk["decision"].kind # "failure"
          BY <1>0, <1>1 DEF ManifestsInOrder
        <4> QED BY <4>1, <1>8, <1>9, <1>10 DEF Impulse!Names
      <3>3. impulsePc' \in {"publish", "returned", "raised"} BY <1>6
      <3>4. impulseRun' # 0 BY <1>0, <1>1, <1>2
      <3> QED BY <3>1, <3>2, <3>3, <3>4, <1>1 DEF ManifestsInOrder
    <2>3. CASE f = Impulse!Result(n) /\ n = "manifest"
      <3>1. k = 5 /\ impulsePc' = "returned"
        <4>1. k = 5 BY <2>3, <1>7
        <4>2. Impulse!Result(n) # Impulse!Torn
          <5>1. Impulse!Torn.kind = "torn" BY DEF Impulse!Torn
          <5>2. Impulse!Result(n).kind = "rows" BY <2>3, <1>12, <1>13, ResultIs
          <5> QED BY <5>1, <5>2
        <4> QED BY <4>1, <4>2, <2>3, <1>6
      <3>2. /\ impulseDisk["checkpoints"] = Impulse!File(Probes, "full")
            /\ impulseDisk["design"] = Impulse!File(Probes - Clean, "rows")
            /\ impulseDisk["decision"] = Impulse!File(0, gate)
        <4>1. \A i \in {1, 3, 4} : i \in 1 .. at - 1 BY <3>1, <1>4
        <4>2. /\ Impulse!Results[1] = "checkpoints" /\ Impulse!Results[3] = "design"
              /\ Impulse!Results[4] = "decision"
          BY DEF Impulse!Results
        <4> QED BY <4>1, <4>2, <1>3, ResultIs
      <3>3. /\ impulseDisk'["manifest"] = Impulse!File(Probes, "rows")
            /\ impulseDisk'["plan"] = Impulse!File(Probes, "rows")
            /\ impulseDisk'["generation"] = Impulse!File(Probes, "rows")
            /\ impulseDisk'["steps"] = Impulse!File(Probes, "rows")
            /\ impulseDisk'["features"] = Impulse!File(Probes, "rows")
            /\ impulseDisk'["traces"] = Impulse!File(Probes - Clean, "rows")
            /\ impulseDisk'["design"] = Impulse!File(Probes - Clean, "rows")
            /\ impulseDisk'["checkpoints"] = Impulse!File(Probes, "full")
            /\ impulseDisk'["decision"] = Impulse!File(0, gate)
        BY <2>3, <3>2, <1>2, <1>3, <1>8, <1>9, <1>11, ResultIs DEF Impulse!Names
      <3>4. \A m \in Impulse!Names \ {"failure"} : impulseDisk'[m].of = impulseRun
        BY <3>3, <1>3, <1>12, <1>13 DEF Impulse!Names
      <3>5. Impulse!Whole' \/ impulseDisk'["decision"].kind = "pass"
        <4>1. /\ \A m \in Impulse!Names \ {"decision", "failure", "traces", "design"} :
                   impulseDisk'[m].rows = Probes
              /\ impulseDisk'["traces"].rows = Probes - Clean
              /\ impulseDisk'["design"].rows = Probes - Clean
              /\ impulseDisk'["generation"].kind = "rows"
              /\ impulseDisk'["checkpoints"].kind = "full"
          BY <3>3, <1>12, <1>13 DEF Impulse!Names
        <4>2. impulseDisk'["decision"].kind = gate BY <3>3, <1>3, <1>12, <1>13
        <4> QED BY <4>1, <4>2, <1>3 DEF Impulse!Whole, Impulse!Names
      <3>6. impulseRun' # 0 BY <1>0, <1>1, <1>2
      <3>7. impulseDisk'["decision"].kind # "failure" BY <3>3, <1>3, <1>12, <1>13
      <3> QED BY <3>1, <3>4, <3>5, <3>6, <3>7, <1>1 DEF ManifestsInOrder, Impulse!Names
    <2> QED BY <2>1, <2>2, <2>3, <1>6 DEF Published
  <1> QED BY <1>14, <1>15, <1>16, <1>17, <1>18 DEF ImpulseInv

LEMMA NextImpulseInv == ImpulseInv /\ [Impulse!Next]_(Impulse!vars) => ImpulseInv'
  <1> SUFFICES ASSUME ImpulseInv, [Impulse!Next]_(Impulse!vars) PROVE ImpulseInv'
    OBVIOUS
  <1>1. CASE Impulse!Next
    BY <1>1, Begins, QuietInv, DamageInv, SeriesInv, EncodeInv, FailInv, PublishInv
    DEF Impulse!Next
  <1>2. CASE UNCHANGED Impulse!vars
    <2>1. /\ impulsePc' = impulsePc /\ impulseRun' = impulseRun /\ at' = at
          /\ wrapped' = wrapped /\ done' = done /\ failed' = failed /\ gate' = gate
          /\ video' = video /\ impulseDisk' = impulseDisk
      BY <1>2 DEF Impulse!vars
    <2>2. done' \in 0 .. Probes /\ done <= done' /\ \A p \in 1 .. Probes : video'[p] <= impulseRun
      BY <2>1, PlanConstants DEF ImpulseInv, ImpulseTyped, Histories, OfRuns
    <2>3. ImpulseTyped' BY <2>1 DEF ImpulseInv, ImpulseTyped
    <2> QED BY <2>1, <2>2, <2>3, HistoriesStay, StagesStay DEF ImpulseInv
  <1> QED BY <1>1, <1>2

(* What the later reader accepts is of one run: the generation records are of the       *)
(* manifest's run, which is no later than the checkpoints', which is no later than the  *)
(* generation records'.                                                                 *)
LEMMA AcceptedFollows == ImpulseInv => Impulse!AcceptedIsOneRun
  <1> SUFFICES ASSUME ImpulseInv, Impulse!Accepted PROVE Impulse!AcceptedIsOneRun
    BY DEF Impulse!AcceptedIsOneRun
  <1>1. Impulse!Whole /\ Impulse!Bound BY DEF Impulse!Accepted
  <1>2. /\ impulseDisk \in [Impulse!Names -> ImpulseFiles] /\ OfRuns /\ RunsInOrder
        /\ Probes \in Nat /\ Probes > 0 /\ impulseRun \in 0 .. ImpulseRuns
    BY PlanConstants DEF ImpulseInv, ImpulseTyped, Histories
  <1> DEFINE g == impulseDisk["generation"].of
  <1>3. /\ impulseDisk["generation"].rows = Probes /\ impulseDisk["manifest"].rows = Probes
        /\ impulseDisk["checkpoints"].rows = Probes
        /\ impulseDisk["checkpoints"].kind = "full"
    BY <1>1 DEF Impulse!Whole, Impulse!Names
  <1>4. g \in 1 .. ImpulseRuns
    <2>1. g \in Nat /\ g > 0 /\ g <= impulseRun
      BY <1>2, <1>3 DEF OfRuns, Impulse!Names, ImpulseFiles
    <2> QED BY <2>1, <1>2, PlanConstants
  <1>5. impulseDisk["manifest"].of = g BY <1>1 DEF Impulse!Bound
  <1>6. impulseDisk["checkpoints"].of = g
    <2>1. impulseDisk["checkpoints"].of \in Nat
      BY <1>2, PlanConstants DEF ImpulseFiles, Impulse!Names
    <2>2. impulseDisk["checkpoints"].of <= g BY <1>2, <1>3 DEF RunsInOrder
    <2>3. g <= impulseDisk["checkpoints"].of BY <1>2, <1>3, <1>5 DEF RunsInOrder
    <2> QED BY <2>1, <2>2, <2>3, <1>4
  <1>7. /\ impulseDisk["features"].of = g /\ impulseDisk["decision"].of = g
        /\ impulseDisk["design"].of = g /\ impulseDisk["traces"].of = g
        /\ impulseDisk["steps"].of = g
    BY <1>1, <1>6 DEF Impulse!Bound
  <1>8. \A p \in 1 .. Probes : video[p] = g BY <1>1 DEF Impulse!Bound
  <1>9. \A n \in Impulse!Names \ {"failure", "plan"} : impulseDisk[n].of = g
    BY <1>5, <1>6, <1>7 DEF Impulse!Names
  <1> HIDE DEF g
  <1> QED BY <1>4, <1>8, <1>9 DEF Impulse!AcceptedIsOneRun

(* The promises of the impulse construction, from its invariant. *)
LEMMA ImpulseIsAsPromised ==
  ImpulseInv => /\ Impulse!TypeOK /\ Impulse!SchedulerIsGivenBack
                /\ Impulse!RowsHaveTheirVideo /\ Impulse!ManifestIsLast
                /\ Impulse!AcceptedIsOneRun
  <1> SUFFICES ASSUME ImpulseInv
               PROVE  /\ Impulse!TypeOK /\ Impulse!SchedulerIsGivenBack
                      /\ Impulse!RowsHaveTheirVideo /\ Impulse!ManifestIsLast
                      /\ Impulse!AcceptedIsOneRun
    OBVIOUS
  <1>1. Impulse!TypeOK
    <2>1. \A n \in Impulse!Names :
            impulseDisk[n].of \in 0 .. ImpulseRuns /\ impulseDisk[n].rows \in 0 .. Probes
      BY DEF ImpulseInv, Histories, ImpulseFiles
    <2> QED BY <2>1 DEF ImpulseInv, ImpulseTyped, ImpulseStages, Impulse!TypeOK, Impulse!Ended
  <1>2. Impulse!SchedulerIsGivenBack
    BY DEF ImpulseInv, ImpulseStaged, Impulse!SchedulerIsGivenBack
  <1>3. Impulse!RowsHaveTheirVideo BY DEF ImpulseInv, Histories
  <1>4. Impulse!ManifestIsLast BY DEF ImpulseInv, ManifestsInOrder, Impulse!ManifestIsLast
  <1> QED BY <1>1, <1>2, <1>3, <1>4, AcceptedFollows

-----------------------------------------------------------------------------
(* The response preflights give the pipeline back, the frozen feedback       *)
(* records only what it saved and the impulse construction publishes only    *)
(* what is of one run, whatever the sizes.                                   *)
THEOREM PipelinesStayGivenBack == AllSpec => []PipelinesAreGivenBack
  <1>1. Start => PreflightInv /\ FeedbackInv /\ ImpulseInv
    BY PreflightStarts, FeedbackStarts, ImpulseStarts DEF Start
  <1>2. /\ PreflightInv /\ FeedbackInv /\ ImpulseInv
        /\ [SomeStep]_allVars
        => PreflightInv' /\ FeedbackInv' /\ ImpulseInv'
    BY PreflightProjects, FeedbackProjects, ImpulseProjects, NextPreflightInv,
       NextFeedbackInv, NextImpulseInv
  <1>3. PreflightInv /\ FeedbackInv /\ ImpulseInv => PipelinesAreGivenBack
    BY PreflightIsAsPromised, FeedbackIsAsPromised, ImpulseIsAsPromised
    DEF PipelinesAreGivenBack
  <1> QED BY <1>1, <1>2, <1>3, PTL DEF AllSpec

-----------------------------------------------------------------------------
(* The protocol contracts.  What a reader accepted stays what it was, whatever *)
(* is edited afterwards: the inductive invariant keeps, for the configuration *)
(* of a run and for what a later step read, every check but that of the digest *)
(* the file states.                                                            *)

Configurations == [Contract!Sections -> Contract!Values]

\* What the loader checked of a file whose statement may have changed since.
StaysChecked(f) ==
  /\ f \in Configurations /\ Contract!Unambiguous(profile)
  /\ Contract!AuthorizationHolds(profile, f) /\ Contract!SemanticsHold(profile, f)
  /\ Contract!CodeDigestHolds(profile, f)

ContractTyped ==
  /\ profile \in Contract!Profiles /\ code \in Configurations /\ file \in Configurations
  /\ stated \in Configurations /\ earlier \in {Contract!NoKey} \cup Contract!Key
  /\ contractBase \in Contract!Values /\ runtime \in {"none"} \cup Contract!Values
  /\ stage \in {"load", "authorize", "run", "refused"}
  /\ contractEdits \in 0 .. ContractEdits

\* A run has a configuration, and a file was read again only by a run that had one.
ReadInOrder ==
  /\ stage \in {"authorize", "run"} => config # Contract!NoFile
  /\ again # Contract!NoFile => config # Contract!NoFile

ReadingsAreChecked ==
  /\ config # Contract!NoFile => StaysChecked(config)
  /\ again # Contract!NoFile => StaysChecked(again)

\* The second look of the frame state's runner.
FlagsAreRead ==
  stage = "run" /\ profile = "frame_state" => Contract!Identical(config.authorization)

BaseIsAccepted ==
  runtime # "none" => /\ Contract!PyEqual(runtime)
                      /\ profile = "frozen_feedback" => Contract!Identical(runtime)

ContractInv ==
  ContractTyped /\ ReadInOrder /\ ReadingsAreChecked /\ FlagsAreRead /\ BaseIsAccepted

(* A step of the programs is one of the contract readers or leaves them alone. *)
LEMMA ContractProjects == [SomeStep]_allVars => [Contract!Next]_(Contract!vars)
  <1> SUFFICES ASSUME [SomeStep]_allVars PROVE [Contract!Next]_(Contract!vars)
    OBVIOUS
  <1> USE DEF contractVars, Contract!vars
  <1>1. CASE ContractStep BY <1>1 DEF ContractStep
  <1>2. CASE Rest /\ program # "contract" BY <1>2 DEF Rest
  <1>3. CASE UNCHANGED allVars BY <1>3 DEF allVars
  <1> QED
    BY <1>1, <1>2, <1>3
    DEF SomeStep, VelocityStep, ProjectionStep, PreflightStep, ImpulseStep, ExposureStep,
        FeedbackStep, CauseStep, ResponseStep, SixVideoStep

(* A file is not the lack of one. *)
LEMMA FileIsThere == \A f \in Configurations : f # Contract!NoFile
  <1> SUFFICES ASSUME NEW f \in Configurations, f = Contract!NoFile PROVE FALSE
    OBVIOUS
  <1>1. "gate" \in Contract!Sections BY DEF Contract!Sections
  <1>2. f["gate"] \in Contract!Values BY <1>1 DEF Configurations
  <1>3. f["gate"] = "none" BY <1>1 DEF Contract!NoFile
  <1> QED BY <1>2, <1>3 DEF Contract!Values

(* Canonical values are values. *)
LEMMA CanonIsValue == \A v \in Contract!Values : Contract!Canon(v) \in Contract!Values
  BY DEF Contract!Values, Contract!Canon

LEMMA FrozenIsConfiguration == Contract!Frozen \in Configurations
  BY DEF Contract!Frozen, Configurations, Contract!Values

(* The first state, that of a program under study and that of one that is not. *)
LEMMA ContractStarts == Start => ContractInv
  <1> SUFFICES ASSUME Start PROVE ContractInv
    OBVIOUS
  <1> DEFINE f == [s \in Contract!Sections |-> Contract!Canon(file[s])]
  <1>0. /\ config = Contract!NoFile /\ runtime = "none" /\ again = Contract!NoFile
        /\ stage = "load" /\ contractEdits = 0
    BY DEF Start, Contract!Init
  <1>1. ContractEdits \in Nat
    BY InstancesAssumption DEF Contract!ProtocolContractAssumption
  <1>2. 0 \in 0 .. ContractEdits BY <1>1
  <1>3. CASE program = "contract"
    <2>1. Contract!Init BY <1>3 DEF Start
    <2>2. file \in Configurations /\ code \in Configurations
      BY <2>1, FrozenIsConfiguration DEF Contract!Init, Configurations
    <2>3. f \in Configurations BY <2>2, CanonIsValue DEF Configurations
    <2>4. stated \in Configurations
      BY <2>1, <2>3, FrozenIsConfiguration DEF Contract!Init
    <2>5. contractBase \in Contract!Values
      BY <2>1 DEF Contract!Init, Contract!Bases, Contract!Values
    <2>6. profile \in Contract!Profiles /\ earlier \in {Contract!NoKey} \cup Contract!Key
      BY <2>1 DEF Contract!Init
    <2> QED BY <1>0, <1>2, <2>2, <2>4, <2>5, <2>6
            DEF ContractInv, ContractTyped, ReadInOrder, ReadingsAreChecked, FlagsAreRead,
                BaseIsAccepted
  <1>4. CASE program # "contract"
    <2>1. /\ profile = "frame_state" /\ code = Contract!Frozen /\ file = code
          /\ stated = code /\ earlier = Contract!NoKey /\ contractBase = "frozen"
      BY <1>4 DEF Start
    <2>2. profile \in Contract!Profiles /\ contractBase \in Contract!Values
      BY <2>1 DEF Contract!Profiles, Contract!Values
    <2> QED BY <1>0, <1>2, <2>1, <2>2, FrozenIsConfiguration
            DEF ContractInv, ContractTyped, ReadInOrder, ReadingsAreChecked, FlagsAreRead,
                BaseIsAccepted
  <1> QED BY <1>3, <1>4

(* What the loader accepts it has checked. *)
LEMMA AcceptedIsChecked ==
  ASSUME ContractInv, Contract!Accepts(profile, file) PROVE StaysChecked(file)
  BY DEF ContractInv, ContractTyped, Contract!Accepts, StaysChecked

(* What was checked stays so, in a step that changes neither the code nor the profile. *)
LEMMA CheckedStays ==
  ASSUME profile' = profile, code' = code, earlier' = earlier, NEW f, StaysChecked(f)
  PROVE  StaysChecked(f)'
  BY DEF StaysChecked, Contract!Unambiguous, Contract!AuthorizationHolds,
         Contract!SemanticsHold, Contract!CodeDigestHolds

(* Every step of a reader keeps the invariant. *)
LEMMA NextContractInv == ContractInv /\ [Contract!Next]_(Contract!vars) => ContractInv'
  <1> SUFFICES ASSUME ContractInv, [Contract!Next]_(Contract!vars) PROVE ContractInv'
    OBVIOUS
  <1>0. profile' = profile /\ code' = code /\ earlier' = earlier
    BY DEF Contract!Next, Contract!Load, Contract!Authorize, Contract!ReadBase,
           Contract!ReadAgain, Contract!EditFile, Contract!EditBase, Contract!Refuse,
           Contract!vars
  <1>1. \A f : StaysChecked(f) => StaysChecked(f)' BY <1>0, CheckedStays
  <1> USE DEF ContractInv, ReadInOrder, ReadingsAreChecked, FlagsAreRead, BaseIsAccepted
  <1>2. CASE Contract!Refuse
    <2>1. ContractTyped' BY <1>2 DEF ContractTyped, Contract!Refuse
    <2> QED BY <1>1, <1>2, <2>1 DEF Contract!Refuse
  <1>3. CASE Contract!Load /\ ~Contract!Refuse
    <2>1. /\ Contract!Accepts(profile, file) /\ config' = file /\ stage' = "authorize"
          /\ stage = "load"
          /\ UNCHANGED <<profile, code, file, stated, earlier, contractBase, runtime, again,
                         contractEdits>>
      BY <1>3 DEF Contract!Load
    <2>2. StaysChecked(file) BY <2>1, AcceptedIsChecked
    <2>3. file # Contract!NoFile BY <2>2, FileIsThere DEF StaysChecked
    <2>4. ContractTyped' BY <2>1 DEF ContractTyped
    <2> QED BY <1>1, <2>1, <2>2, <2>3, <2>4
  <1>4. CASE Contract!Authorize /\ ~Contract!Refuse
    <2>1. /\ stage = "authorize" /\ stage' = "run"
          /\ profile = "frame_state" => Contract!Identical(config.authorization)
          /\ UNCHANGED <<profile, code, file, stated, earlier, contractBase, config, runtime,
                         again, contractEdits>>
      BY <1>4 DEF Contract!Authorize
    <2>2. ContractTyped' BY <2>1 DEF ContractTyped
    <2> QED BY <1>1, <2>1, <2>2
  <1>5. CASE Contract!ReadBase /\ ~Contract!Refuse
    <2>1. /\ Contract!BaseAccepted(profile) /\ runtime' = contractBase
          /\ UNCHANGED <<profile, code, file, stated, earlier, contractBase, config, again,
                         stage, contractEdits>>
      BY <1>5 DEF Contract!ReadBase
    <2>2. ContractTyped' BY <2>1 DEF ContractTyped
    <2>3. /\ Contract!PyEqual(contractBase)
          /\ profile = "frozen_feedback" => Contract!Identical(contractBase)
      BY <2>1 DEF Contract!BaseAccepted, Contract!PyEqual, Contract!Canon, Contract!Identical
    <2> QED BY <1>1, <2>1, <2>2, <2>3
  <1>6. CASE Contract!ReadAgain /\ ~Contract!Refuse
    <2>1. /\ Contract!Accepts(profile, file) /\ again' = file /\ stage = "run"
          /\ UNCHANGED <<profile, code, file, stated, earlier, contractBase, config, runtime,
                         stage, contractEdits>>
      BY <1>6 DEF Contract!ReadAgain
    <2>2. StaysChecked(file) BY <2>1, AcceptedIsChecked
    <2>3. ContractTyped' BY <2>1 DEF ContractTyped
    <2> QED BY <1>1, <2>1, <2>2, <2>3
  <1>7. CASE Contract!EditFile
    <2>1. /\ file' \in Contract!Near(file)
          /\ stated' \in {stated, [s \in Contract!Sections |-> Contract!Canon(file'[s])]}
          /\ contractEdits < ContractEdits /\ contractEdits' = contractEdits + 1
          /\ UNCHANGED <<profile, code, earlier, contractBase, config, runtime, again, stage>>
      BY <1>7 DEF Contract!EditFile
    <2>2. file' \in Configurations
      <3>1. file \in Configurations BY DEF ContractTyped
      <3> QED BY <2>1, <3>1 DEF Contract!Near, Configurations
    <2>3. [s \in Contract!Sections |-> Contract!Canon(file'[s])] \in Configurations
      BY <2>2, CanonIsValue DEF Configurations
    <2>4. contractEdits' \in 0 .. ContractEdits
      <3>1. ContractEdits \in Nat /\ contractEdits \in 0 .. ContractEdits
        BY InstancesAssumption DEF Contract!ProtocolContractAssumption, ContractTyped
      <3> QED BY <2>1, <3>1
    <2>5. ContractTyped' BY <2>1, <2>2, <2>3, <2>4 DEF ContractTyped
    <2> QED BY <1>1, <2>1, <2>5
  <1>8. CASE Contract!EditBase
    <2>1. /\ contractBase' \in Contract!Bases
          /\ contractEdits < ContractEdits /\ contractEdits' = contractEdits + 1
          /\ UNCHANGED <<profile, code, file, stated, earlier, config, runtime, again, stage>>
      BY <1>8 DEF Contract!EditBase
    <2>2. contractBase' \in Contract!Values
      BY <2>1 DEF Contract!Bases, Contract!Values
    <2>3. contractEdits' \in 0 .. ContractEdits
      <3>1. ContractEdits \in Nat /\ contractEdits \in 0 .. ContractEdits
        BY InstancesAssumption DEF Contract!ProtocolContractAssumption, ContractTyped
      <3> QED BY <2>1, <3>1
    <2>4. ContractTyped' BY <2>1, <2>2, <2>3 DEF ContractTyped
    <2> QED BY <1>1, <2>1, <2>4
  <1>9. CASE UNCHANGED Contract!vars
    <2>1. ContractTyped' BY <1>9 DEF ContractTyped, Contract!vars
    <2> QED BY <1>1, <1>9, <2>1 DEF Contract!vars
  <1> QED BY <1>2, <1>3, <1>4, <1>5, <1>6, <1>7, <1>8, <1>9 DEF Contract!Next

(* A section whose digest the code holds is what was frozen, up to its spelling. *)
LEMMA DigestedIsExact ==
  ASSUME ContractTyped, NEW f, StaysChecked(f), code = Contract!Frozen,
         NEW s \in Contract!Digested(profile), s \in Contract!Sections
  PROVE  Contract!Identical(f[s])
  <1>1. Contract!Canon(f[s]) = "frozen"
    BY DEF StaysChecked, Contract!CodeDigestHolds, Contract!Frozen
  <1> QED BY <1>1 DEF Contract!Canon, Contract!Identical

LEMMA DigestedAreSections ==
  \A p \in Contract!Profiles : Contract!Digested(p) \subseteq Contract!Sections
  BY DEF Contract!Profiles, Contract!Digested, Contract!Sections, Contract!Protocol

(* A value that equals the frozen one is neither opened nor changed. *)
LEMMA EqualIsNamed ==
  \A v : /\ Contract!Identical(v) => Contract!PyEqual(v)
         /\ Contract!PyEqual(v) => Contract!Named(v) /\ v # "hidden"
  BY DEF Contract!Identical, Contract!PyEqual, Contract!Named

(* The authorization that was accepted equals the frozen one. *)
LEMMA AuthorizationIsFrozen ==
  ASSUME NEW f, StaysChecked(f) PROVE Contract!PyEqual(f.authorization)
  BY EqualIsNamed DEF StaysChecked, Contract!AuthorizationHolds

(* In the frame state's and the impulse contract every section equals the frozen one. *)
LEMMA WholeIsFrozen ==
  ASSUME ContractTyped, NEW f, StaysChecked(f), code = Contract!Frozen,
         profile \in {"frame_state", "impulse"}, NEW s \in Contract!Sections
  PROVE  Contract!PyEqual(f[s])
  <1>1. Contract!PyEqual(f.authorization) BY AuthorizationIsFrozen
  <1>2. CASE profile = "impulse"
    <2>1. Contract!Impulse(f) BY <1>2 DEF StaysChecked, Contract!SemanticsHold
    <2> QED
      BY <1>1, <2>1
      DEF Contract!Sections, Contract!Impulse, Contract!ImpulseFeature,
          Contract!ImpulseExecution, Contract!ImpulseSchedule, Contract!ImpulseGates
  <1>3. CASE profile = "frame_state"
    <2>1. Contract!FrameState(f) BY <1>3 DEF StaysChecked, Contract!SemanticsHold
    <2>2. Contract!PyEqual(f.execution)
      BY <2>1 DEF Contract!FrameState, Contract!FrameStateExecution
    <2>3. CASE s \in Contract!Protocol
      BY <1>3, <2>3, DigestedIsExact, EqualIsNamed DEF Contract!Digested
    <2> QED BY <1>1, <2>2, <2>3 DEF Contract!Sections, Contract!Protocol
  <1> QED BY <1>2, <1>3

(* While the code holds the digest that was frozen, a run has the frozen contract. *)
LEMMA FrozenFollows == ContractInv => Contract!RunsAreFrozen
  <1> SUFFICES ASSUME ContractInv, stage = "run", code = Contract!Frozen
               PROVE  Contract!RunsAreFrozen
    BY DEF Contract!RunsAreFrozen
  <1>1. StaysChecked(config) /\ ContractTyped
    BY DEF ContractInv, ReadInOrder, ReadingsAreChecked
  <1>2. \A s \in Contract!Sections : Contract!Reads(profile, s) = {config[s]}
    BY <1>1 DEF Contract!Reads, StaysChecked, Contract!Unambiguous, Contract!NoKey,
                Contract!Sections
  <1>3. \A s \in Contract!Digested(profile) : \A v \in Contract!Reads(profile, s) :
           Contract!Identical(v)
    BY <1>1, <1>2, DigestedIsExact, DigestedAreSections DEF ContractTyped
  <1>4. \A v \in Contract!Reads(profile, "authorization") : Contract!PyEqual(v)
    BY <1>1, <1>2, AuthorizationIsFrozen DEF Contract!Sections
  <1>5. profile \in {"frame_state", "gate_a", "six_video"}
          => Contract!Identical(config.authorization)
    BY <1>1 DEF ContractInv, FlagsAreRead, StaysChecked, Contract!AuthorizationHolds
  <1>6. profile \in {"frame_state", "impulse"} =>
          \A s \in Contract!Sections : \A v \in Contract!Reads(profile, s) :
             Contract!PyEqual(v)
    BY <1>1, <1>2, WholeIsFrozen
  <1> QED BY <1>3, <1>4, <1>5, <1>6 DEF Contract!RunsAreFrozen

(* What the code names of a contract keeps its meaning under any digest. *)
LEMMA NamedFollows == ContractInv => Contract!NewDigestOpensNothing
  <1> SUFFICES ASSUME ContractInv, stage = "run" PROVE Contract!NewDigestOpensNothing
    BY DEF Contract!NewDigestOpensNothing
  <1>1. StaysChecked(config) /\ profile \in Contract!Profiles
    BY DEF ContractInv, ReadInOrder, ReadingsAreChecked, ContractTyped
  <1>2. Contract!SemanticsHold(profile, config) BY <1>1 DEF StaysChecked
  <1>3. Contract!PyEqual(config.authorization) BY <1>1, AuthorizationIsFrozen
  <1> DEFINE C == config.carrier
             G == config.gate
             Opens ==
               /\ Contract!Named(config.schedule)
               /\ profile # "frozen_feedback" => Contract!Named(C) /\ G # "opened"
               /\ profile \notin {"gate_a", "frozen_feedback"} => Contract!Named(G)
  <1> USE DEF Contract!SemanticsHold
  <1>4. Contract!Named("hidden") BY DEF Contract!Named
  <1>5. \A v : Contract!Named(v) => v # "opened" BY DEF Contract!Named
  <1>6. ASSUME profile = "frame_state" PROVE Opens
    BY <1>2, <1>5, <1>6, EqualIsNamed
    DEF Contract!FrameState, Contract!FrameStateCarrier, Contract!FrameStateTransfer,
        Contract!FrameStateSchedule
  <1>7. ASSUME profile = "patch_gate0" PROVE Opens
    BY <1>2, <1>5, <1>7, EqualIsNamed
    DEF Contract!GateZero, Contract!GateZeroRelation, Contract!GateZeroGate,
        Contract!GateZeroSchedule
  <1>8. ASSUME profile = "phase_response" PROVE Opens
    BY <1>2, <1>5, <1>8, EqualIsNamed DEF Contract!PhaseResponse
  <1>9. ASSUME profile = "block_attention" PROVE Opens
    BY <1>2, <1>5, <1>9, EqualIsNamed
    DEF Contract!BlockAttention, Contract!BlockControl, Contract!BlockResponse
  <1>10. ASSUME profile = "wan_model_load" PROVE Opens
    BY <1>2, <1>5, <1>10, EqualIsNamed DEF Contract!ModelLoad, Contract!ModelLoadWorker
  <1>11. ASSUME profile = "impulse" PROVE Opens
    BY <1>2, <1>5, <1>11, EqualIsNamed
    DEF Contract!Impulse, Contract!ImpulseFeature, Contract!ImpulseSchedule,
        Contract!ImpulseGates
  <1>12. ASSUME profile = "gate_a" PROVE Opens
    BY <1>2, <1>5, <1>12, EqualIsNamed DEF Contract!RootCause, Contract!RootCausePlan
  <1>13. ASSUME profile = "six_video" PROVE Opens
    BY <1>2, <1>5, <1>13, EqualIsNamed DEF Contract!SixVideo
  <1>14. ASSUME profile = "frozen_feedback" PROVE Opens
    BY <1>2, <1>5, <1>14, EqualIsNamed DEF Contract!FrozenFeedback
  <1>15. Opens
    BY <1>1, <1>6, <1>7, <1>8, <1>9, <1>10, <1>11, <1>12, <1>13, <1>14
    DEF Contract!Profiles
  <1>16. ASSUME profile = "frame_state", NEW s \in Contract!Sections
         PROVE  config[s] # "hidden"
    <2>1. Contract!FrameState(config) BY <1>2, <1>16
    <2>2. Contract!PyEqual(config.execution)
      BY <2>1 DEF Contract!FrameState, Contract!FrameStateExecution
    <2>3. \A t \in Contract!Protocol : config[t] # "hidden"
      BY <2>1 DEF Contract!FrameState, Contract!FrameStateGrants
    <2> QED
      BY <1>3, <2>2, <2>3, EqualIsNamed DEF Contract!Sections, Contract!Protocol
  <1> QED BY <1>3, <1>15, <1>16, EqualIsNamed DEF Contract!NewDigestOpensNothing

(* All readers of a run agree. *)
LEMMA ReadersFollow == ContractInv => Contract!ReadersAgree
  <1> SUFFICES ASSUME ContractInv PROVE Contract!ReadersAgree
    OBVIOUS
  <1>1. ASSUME again # Contract!NoFile
        PROVE  /\ \A s \in Contract!Digested(profile) :
                    Contract!Canon(again[s]) = Contract!Canon(config[s])
               /\ Contract!PyEqual(again.authorization)
    <2>1. StaysChecked(config) /\ StaysChecked(again)
      BY <1>1 DEF ContractInv, ReadInOrder, ReadingsAreChecked
    <2> QED
      BY <2>1, AuthorizationIsFrozen DEF StaysChecked, Contract!CodeDigestHolds
  <1> QED BY <1>1 DEF ContractInv, BaseIsAccepted, Contract!ReadersAgree

(* The promises of the contract readers, from their invariant. *)
LEMMA ContractIsAsPromised ==
  ContractInv => /\ Contract!TypeOK /\ Contract!RunsAreFrozen
                 /\ Contract!NewDigestOpensNothing /\ Contract!ReadersAgree
  <1> SUFFICES ASSUME ContractInv PROVE Contract!TypeOK
    BY FrozenFollows, NamedFollows, ReadersFollow
  <1> USE DEF ContractInv
  <1>1. /\ config # Contract!NoFile => config \in Configurations
        /\ again # Contract!NoFile => again \in Configurations
    BY DEF ReadingsAreChecked, StaysChecked
  <1> QED BY <1>1 DEF ContractTyped, ReadInOrder, Configurations, Contract!TypeOK

-----------------------------------------------------------------------------
(* The diagnostic of a failed Gate A.  Stage by stage, what is on the disk and *)
(* what the run knows; the statistics are responses, and what the candidates   *)
(* exclude is arithmetic on them.                                              *)

Measured == [Cause!Pairs -> Cause!Response]

CauseTyped ==
  /\ causePc \in {"validate", "measure", "classify", "failed", "results", "decide", "manifest"}
                 \cup Cause!Ended
  /\ latent \in Measured /\ half \in Measured /\ full \in Measured
  /\ amplitude \in [Cause!Pairs -> Nat]
  /\ causeSource \in SUBSET Cause!Checks

\* A run measures only on a complete source, records only without scratch arrays.
CauseStaged ==
  /\ causePc \in {"measure", "classify", "results", "decide", "manifest", "returned"} =>
       causeSource = Cause!Checks
  /\ causePc \in {"validate", "measure", "classify", "failed", "results", "decide"} =>
       decision = Cause!NoDecision /\ ~manifest
  /\ causePc \in {"validate", "measure", "classify", "failed", "results"} => written = "none"
  /\ causePc \in {"results", "decide", "manifest", "returned"} => ~working
  /\ causePc \in {"decide", "manifest", "returned"} => written = "all"
  /\ causePc = "manifest" => decision.kind = "recorded"

CauseInv ==
  CauseTyped /\ CauseStaged /\ Cause!DecisionIsBound /\ Cause!PollutedAllowsNothing

(* A step of the programs is one of the diagnostic or leaves it alone. *)
LEMMA CauseProjects == [SomeStep]_allVars => [Cause!Next]_(Cause!vars)
  <1> SUFFICES ASSUME [SomeStep]_allVars PROVE [Cause!Next]_(Cause!vars)
    OBVIOUS
  <1> USE DEF causeVars, Cause!vars, Cause!measured
  <1>1. CASE CauseStep BY <1>1 DEF CauseStep
  <1>2. CASE Rest /\ program # "cause" BY <1>2 DEF Rest
  <1>3. CASE UNCHANGED allVars BY <1>3 DEF allVars
  <1> QED
    BY <1>1, <1>2, <1>3
    DEF SomeStep, VelocityStep, ProjectionStep, PreflightStep, ImpulseStep, ExposureStep,
        FeedbackStep, SixVideoStep, ResponseStep, ContractStep

(* What is measured are responses, and amplitudes are numbers. *)
LEMMA CauseConstants ==
  /\ Latents \subseteq Cause!Response /\ HalfOutputs \subseteq Cause!Response
  /\ FullOutputs \subseteq Cause!Response
  /\ HalfAmplitudes["early"] \subseteq Nat /\ HalfAmplitudes["late"] \subseteq Nat
  /\ FullAmplitude \in [Cause!Pairs -> Nat \ {0}]
  <1>1. \A r \in Latents \cup LaterStages \cup HalfOutputs \cup FullOutputs :
           r \in Cause!Response
    BY InstancesAssumption DEF Cause!ResponseAssumption
  <1>2. HalfAmplitudes \in [Cause!Pairs -> SUBSET Nat] /\ FullAmplitude \in [Cause!Pairs -> Nat \ {0}]
    BY InstancesAssumption DEF Cause!AmplitudeAssumption
  <1>3. "early" \in Cause!Pairs /\ "late" \in Cause!Pairs BY DEF Cause!Pairs
  <1> QED BY <1>1, <1>2, <1>3

LEMMA CauseStarts == Start => CauseInv
  <1> SUFFICES ASSUME Start PROVE CauseInv
    OBVIOUS
  <1>1. /\ causePc = "validate" /\ written = "none" /\ decision = Cause!NoDecision
        /\ manifest = FALSE
        /\ latent = [p \in Cause!Pairs |-> Cause!Zero]
        /\ half = [p \in Cause!Pairs |-> Cause!Zero]
        /\ full = [p \in Cause!Pairs |-> Cause!Zero]
        /\ amplitude = [p \in Cause!Pairs |-> 0]
        /\ causeSource \in SUBSET Cause!Checks
    BY DEF Start, Cause!Init
  <1>2. Cause!Zero \in Cause!Response BY DEF Cause!Zero, Cause!Response
  <1>3. CauseTyped BY <1>1, <1>2 DEF CauseTyped, Measured
  <1>4. CauseStaged BY <1>1 DEF CauseStaged
  <1>5. Cause!DecisionIsBound /\ Cause!PollutedAllowsNothing
    BY <1>1 DEF Cause!DecisionIsBound, Cause!PollutedAllowsNothing, Cause!NoDecision
  <1> QED BY <1>3, <1>4, <1>5 DEF CauseInv

(* Every step of the diagnostic keeps the invariant. *)
LEMMA NextCauseInv == CauseInv /\ [Cause!Next]_(Cause!vars) => CauseInv'
  <1> SUFFICES ASSUME CauseInv, [Cause!Next]_(Cause!vars) PROVE CauseInv'
    OBVIOUS
  <1>0. CauseTyped /\ CauseStaged /\ Cause!DecisionIsBound /\ Cause!PollutedAllowsNothing
    BY DEF CauseInv
  <1> USE DEF Cause!measured, CauseStaged, Cause!DecisionIsBound, Cause!PollutedAllowsNothing
  <1> DEFINE Still == UNCHANGED <<causeSource, latent, later, half, full, amplitude, polluted>>
  <1>1. CASE Cause!Validate
    <2>1. /\ Cause!FilesComplete /\ Cause!StepsBound /\ Cause!FeaturesBound
          /\ Cause!GateFailed /\ Cause!VideosBound /\ "basis" \in causeSource
          => causeSource = Cause!Checks
      BY <1>0 DEF Cause!FilesComplete, Cause!StepsBound, Cause!FeaturesBound, Cause!GateFailed,
                  Cause!VideosBound, Cause!Checks, CauseTyped
    <2>2. /\ causePc = "validate" /\ Still
          /\ UNCHANGED <<working, written, decision, manifest>>
          /\ causePc' = "failed" \/ (causePc' = "measure" /\ causeSource = Cause!Checks)
      BY <1>1, <2>1 DEF Cause!Validate
    <2>3. CauseTyped' BY <1>0, <2>2 DEF CauseTyped
    <2> QED BY <1>0, <2>2, <2>3 DEF CauseInv
  <1>2. CASE Cause!Measure
    <2>1. /\ causePc = "measure" /\ causePc' = "classify"
          /\ UNCHANGED <<causeSource, working, written, decision, manifest>>
          /\ latent' \in [Cause!Pairs -> Latents] /\ half' \in [Cause!Pairs -> HalfOutputs]
          /\ full' \in [Cause!Pairs -> FullOutputs]
      BY <1>2 DEF Cause!Measure
    <2>2. PICK e \in HalfAmplitudes["early"], l \in HalfAmplitudes["late"] :
            amplitude' = [p \in Cause!Pairs |-> IF p = "early" THEN e ELSE l]
      BY <1>2 DEF Cause!Measure
    <2>3. amplitude' \in [Cause!Pairs -> Nat] BY <2>2, CauseConstants
    <2>4. latent' \in Measured /\ half' \in Measured /\ full' \in Measured
      BY <2>1, CauseConstants DEF Measured
    <2>5. CauseTyped' BY <1>0, <2>1, <2>3, <2>4 DEF CauseTyped
    <2>6. decision' = Cause!NoDecision BY <1>0, <2>1
    <2> QED BY <1>0, <2>1, <2>5, <2>6 DEF CauseInv, Cause!NoDecision
  <1>3. CASE Cause!Classify
    <2>1. /\ causePc = "classify" /\ causePc' = "results" /\ Still /\ working' = FALSE
          /\ UNCHANGED <<written, decision, manifest>>
      BY <1>3 DEF Cause!Classify
    <2>2. CauseTyped' BY <1>0, <2>1 DEF CauseTyped
    <2> QED BY <1>0, <2>1, <2>2 DEF CauseInv
  <1>4. CASE Cause!Raise
    <2>1. /\ causePc \in {"measure", "classify"} /\ causePc' = "failed" /\ Still
          /\ UNCHANGED <<working, written, decision, manifest>>
      BY <1>4 DEF Cause!Raise
    <2>2. CauseTyped' BY <1>0, <2>1 DEF CauseTyped
    <2> QED BY <1>0, <2>1, <2>2 DEF CauseInv
  <1>5. CASE Cause!Fail
    <2>1. /\ causePc = "failed" /\ causePc' = "raised" /\ Still /\ working' = FALSE
          /\ decision' = [Cause!NoDecision EXCEPT !.kind = "failure"]
          /\ UNCHANGED <<written, manifest>>
      BY <1>5 DEF Cause!Fail
    <2>2. decision'.kind = "failure" BY <2>1 DEF Cause!NoDecision
    <2>3. CauseTyped' BY <1>0, <2>1 DEF CauseTyped, Cause!Ended
    <2> QED BY <1>0, <2>1, <2>2, <2>3 DEF CauseInv
  <1>6. CASE Cause!WriteResults
    <2>1. /\ causePc = "results" /\ causePc' = "decide" /\ Still /\ written' = "all"
          /\ UNCHANGED <<working, decision, manifest>>
      BY <1>6 DEF Cause!WriteResults
    <2>2. CauseTyped' BY <1>0, <2>1 DEF CauseTyped
    <2>3. decision' = Cause!NoDecision BY <1>0, <2>1
    <2> QED BY <1>0, <2>1, <2>2, <2>3 DEF CauseInv, Cause!NoDecision
  <1>7. CASE Cause!Decide
    <2>1. /\ causePc = "decide" /\ causePc' = "manifest" /\ Still
          /\ decision' = Cause!Authorised(Cause!Classification)
          /\ UNCHANGED <<working, written, manifest>>
      BY <1>7 DEF Cause!Decide
    <2>2. decision'.kind = "recorded" BY <2>1 DEF Cause!Authorised
    <2>3. polluted => ~decision'.feedbackDesign /\ ~decision'.redesign
      BY <2>1 DEF Cause!Authorised, Cause!Classification
    <2>4. CauseTyped' BY <1>0, <2>1 DEF CauseTyped
    <2> QED BY <1>0, <2>1, <2>2, <2>3, <2>4 DEF CauseInv
  <1>8. CASE Cause!WriteManifest
    <2>1. /\ causePc = "manifest" /\ causePc' = "returned" /\ Still /\ manifest' = TRUE
          /\ UNCHANGED <<working, written, decision>>
      BY <1>8 DEF Cause!WriteManifest
    <2>2. CauseTyped' BY <1>0, <2>1 DEF CauseTyped, Cause!Ended
    <2> QED BY <1>0, <2>1, <2>2 DEF CauseInv
  <1>9. CASE Cause!PublishFails
    <2>1. /\ causePc \in {"results", "decide", "manifest"} /\ causePc' = "raised" /\ Still
          /\ written' = (IF causePc = "results" THEN "some" ELSE written)
          /\ UNCHANGED <<working, decision, manifest>>
      BY <1>9 DEF Cause!PublishFails
    <2>2. CauseTyped' BY <1>0, <2>1 DEF CauseTyped, Cause!Ended
    <2>3. causePc = "results" => decision.kind = "none" BY <1>0 DEF Cause!NoDecision
    <2> QED BY <1>0, <2>1, <2>2, <2>3 DEF CauseInv
  <1>10. CASE Cause!Kill
    <2>1. /\ causePc' = "killed" /\ Still /\ UNCHANGED <<working, written, decision, manifest>>
      BY <1>10 DEF Cause!Kill
    <2>2. CauseTyped' BY <1>0, <2>1 DEF CauseTyped, Cause!Ended
    <2> QED BY <1>0, <2>1, <2>2 DEF CauseInv
  <1>11. CASE UNCHANGED Cause!vars
    <2>1. Still /\ UNCHANGED <<causePc, working, written, decision, manifest>>
      BY <1>11 DEF Cause!vars
    <2>2. CauseTyped' BY <1>0, <2>1 DEF CauseTyped
    <2> QED BY <1>0, <2>1, <2>2 DEF CauseInv
  <1> QED
    BY <1>1, <1>2, <1>3, <1>4, <1>5, <1>6, <1>7, <1>8, <1>9, <1>10, <1>11 DEF Cause!Next

(* A response that shrank with the amplitude neither collapsed nor stayed. *)
LEMMA LinearFollows == CauseTyped => Cause!LinearExcludesFloor
  <1> SUFFICES ASSUME CauseTyped, Cause!LocalLinear, Cause!Floor PROVE FALSE
    BY DEF Cause!LinearExcludesFloor
  <1>1. PICK p \in Cause!Pairs :
          /\ full[p].odd > 0
          /\ 4 * half[p].odd <= full[p].odd \/ 4 * half[p].odd >= 3 * full[p].odd
    BY DEF Cause!Floor
  <1>2. 35 * full[p].odd <= 100 * half[p].odd /\ 100 * half[p].odd <= 65 * full[p].odd
    BY DEF Cause!LocalLinear, Cause!LinearScaling
  <1>3. half[p].odd \in Nat /\ full[p].odd \in Nat
    BY DEF CauseTyped, Measured, Cause!Response
  <1> QED BY <1>1, <1>2, <1>3

(* Products of numbers: order of the factors, and a factor cancelled. *)
LEMMA Products ==
  ASSUME NEW a \in Nat, NEW b \in Nat, NEW c \in Nat, NEW d \in Nat
  PROVE  /\ (a * b) * (c * d) = (a * d) * (c * b)
         /\ (a * b) * (c * d) = (a * c) * (b * d)
         /\ a * b = b * a /\ a * b \in Nat /\ (a * b) * c = (a * c) * b
         /\ a * (b * c) = (a * b) * c
  OBVIOUS

LEMMA Cancelled ==
  ASSUME NEW a \in Nat, NEW b \in Nat, NEW c \in Nat, c > 0
  PROVE  /\ a * c = b * c => a = b
         /\ a > 0 => a * c > 0
  OBVIOUS

(* Two pairs in the ratio of the same two numbers are in the same ratio. *)
LEMMA Proportional ==
  ASSUME NEW a \in Nat, NEW b \in Nat, NEW c \in Nat, NEW d \in Nat,
         NEW s \in Nat, NEW t \in Nat, s > 0, a * s = b * t, c * s = d * t
  PROVE  c * b = d * a
  <1>1. (c * b) * s = (c * s) * b BY Products
  <1>2. (c * s) * b = (d * t) * b OBVIOUS
  <1>3. (d * t) * b = d * (b * t) BY Products
  <1>4. d * (b * t) = d * (a * s) OBVIOUS
  <1>5. d * (a * s) = (d * a) * s BY Products
  <1>6. (c * b) * s = (d * a) * s BY <1>1, <1>2, <1>3, <1>4, <1>5
  <1>7. c * b \in Nat /\ d * a \in Nat BY Products
  <1> QED BY <1>6, <1>7, Cancelled

LEMMA Exchanged ==
  ASSUME NEW a \in Nat, NEW b \in Nat, NEW c \in Nat, NEW d \in Nat,
         NEW s \in Nat, NEW t \in Nat, s > 0, a * s = b * t, t * d = s * c
  PROVE  a * d = b * c
  <1>1. c * s = d * t BY Products
  <1>2. c * b = d * a BY <1>1, Proportional
  <1> QED BY <1>2, Products

InRatio(a, s, b, t) == a * s = b * t

LEMMA Carried ==
  ASSUME NEW a \in Nat, NEW b \in Nat, NEW c \in Nat, NEW d \in Nat,
         NEW s \in Nat, NEW t \in Nat, s > 0, InRatio(a, s, b, t), InRatio(c, s, d, t)
  PROVE  InRatio(c, b, d, a)
  BY Proportional DEF InRatio

(* An early response that is the late one, scaled as its exposure is, is no feedback. *)
LEMMA ScaleFollows == CauseTyped => Cause!ScaleIsNoFeedback
  <1> DEFINE e == latent["early"]
             l == latent["late"]
             ea == amplitude["early"]
             la == amplitude["late"]
  <1> SUFFICES ASSUME CauseTyped, e.size > 0, l.size > 0, l.odd > 0, ea > 0, la > 0,
                      e.odd * l.size = l.odd * e.size, e.common * l.size = l.common * e.size,
                      e.size * la = l.size * ea, Cause!Feedback
               PROVE  FALSE
    BY DEF Cause!ScaleIsNoFeedback
  <1>1. /\ e.odd \in Nat /\ e.common \in Nat /\ e.size \in Nat
        /\ l.odd \in Nat /\ l.common \in Nat /\ l.size \in Nat
        /\ ea \in Nat /\ la \in Nat
    BY DEF CauseTyped, Measured, Cause!Response, Cause!Pairs
  <1>2. CASE Cause!CosineAbove(l, e, 2)
    <2> DEFINE x == Cause!Inner(l)
               y == Cause!Inner(e)
    <2>1. /\ x.up = l.odd * l.odd /\ x.down = l.common * l.common /\ x.of = l.size * l.size
          /\ y.up = e.odd * e.odd /\ y.down = e.common * e.common /\ y.of = e.size * e.size
      BY DEF Cause!Inner
    <2>2. y.up * x.of = (e.odd * l.size) * (e.odd * l.size) BY <1>1, <2>1, Products
    <2>3. x.up * y.of = (l.odd * e.size) * (l.odd * e.size) BY <1>1, <2>1, Products
    <2>4. y.down * x.of = (e.common * l.size) * (e.common * l.size)
      BY <1>1, <2>1, Products
    <2>5. x.down * y.of = (l.common * e.size) * (l.common * e.size)
      BY <1>1, <2>1, Products
    <2>6. y.up * x.of = x.up * y.of /\ y.down * x.of = x.down * y.of
      BY <2>2, <2>3, <2>4, <2>5
    <2>7. /\ x.up * y.of \in Nat /\ x.down * y.of \in Nat
          /\ x.of \in Nat /\ y.of \in Nat /\ x.of > 0 /\ y.of > 0
      BY <1>1, <2>1, Products, Cancelled
    <2>8. 10 * (x.up * y.of + y.down * x.of)
            >= 2 * x.of * y.of + 10 * (x.down * y.of + y.up * x.of)
      BY <1>2 DEF Cause!CosineAbove
    <2>9. 2 * x.of * y.of = 2 * (x.of * y.of) /\ x.of * y.of > 0 /\ x.of * y.of \in Nat
      BY <2>7
    <2> HIDE DEF x, y
    <2>10. 10 * (x.up * y.of + x.down * y.of)
             >= 2 * (x.of * y.of) + 10 * (x.down * y.of + x.up * y.of)
      BY <2>6, <2>8, <2>9
    <2> DEFINE A == x.up * y.of
               B == x.down * y.of
               C == x.of * y.of
    <2>11. 10 * (A + B) >= 2 * C + 10 * (B + A) /\ A \in Nat /\ B \in Nat /\ C \in Nat /\ C > 0
      BY <2>7, <2>9, <2>10
    <2> HIDE DEF A, B, C
    <2> QED BY <2>11
  <1>3. CASE /\ e.odd > 0 /\ l.common > 0
             /\ 2 * e.common * l.odd >= 3 * l.common * e.odd
    <2> DEFINE X == l.common * e.odd
    <2>5. e.common * l.odd \in Nat /\ X \in Nat /\ X > 0 BY <1>1, <1>3, Products, Cancelled
    <2>6. e.common * l.odd = X
      <3>1. InRatio(e.odd, l.size, l.odd, e.size) /\ InRatio(e.common, l.size, l.common, e.size)
        BY DEF InRatio
      <3>2. InRatio(e.common, l.odd, l.common, e.odd)
        <4> HIDE DEF e, l
        <4> QED BY <1>1, <3>1, Carried
      <3> QED BY <3>2 DEF InRatio
    <2>7. 2 * e.common * l.odd = 2 * (e.common * l.odd) /\ 3 * l.common * e.odd = 3 * X
      BY <1>1
    <2>8. 2 * X >= 3 * X BY <1>3, <2>6, <2>7
    <2> HIDE DEF X
    <2> QED BY <2>5, <2>8
  <1>4. CASE Cause!OddTransferSmall
    <2> DEFINE X == l.odd * ea
    <2>5. e.odd * la \in Nat /\ X \in Nat /\ X > 0 BY <1>1, Products, Cancelled
    <2>1. e.odd * l.size = l.odd * e.size /\ l.size > 0 OBVIOUS
    <2>2. ea * l.size = la * e.size BY <1>1, Products
    <2>3. InRatio(e.odd, l.size, l.odd, e.size) /\ InRatio(ea, l.size, la, e.size)
      BY <2>1, <2>2 DEF InRatio
    <2>4. InRatio(ea, l.odd, la, e.odd)
      <3> HIDE DEF e, l, ea, la
      <3> QED BY <1>1, <2>1, <2>3, Carried
    <2> ea * l.odd = la * e.odd BY <2>4 DEF InRatio
    <2>6. e.odd * la = X BY <1>1, Products
    <2>7. 2 * e.odd * la <= X BY <1>4 DEF Cause!OddTransferSmall
    <2>8. 2 * e.odd * la = 2 * (e.odd * la) BY <1>1
    <2>9. 2 * X <= X BY <2>6, <2>7, <2>8
    <2> HIDE DEF X
    <2> QED BY <2>5, <2>9
  <1> QED BY <1>2, <1>3, <1>4 DEF Cause!Feedback

(* The promises of the diagnostic, from its invariant. *)
LEMMA CauseIsAsPromised ==
  CauseInv => /\ Cause!DecisionIsBound /\ Cause!LinearExcludesFloor
              /\ Cause!ScaleIsNoFeedback /\ Cause!PollutedAllowsNothing
  BY LinearFollows, ScaleFollows DEF CauseInv

-----------------------------------------------------------------------------
(* The signed-response statistics.  A scalar product is a sum over the axes;   *)
(* that it is symmetric, linear and positive is all the gates rest on, for     *)
(* every dimension.                                                            *)

\* s holds the partial sums of the product of two vectors.
PartialSums(s, u, v) ==
  s = [i \in 0 .. Dim |-> IF i = 0 THEN 0 ELSE s[i - 1] + u[i] * v[i]]

\* The same for the first n axes.
SumsUpTo(n, s, u, v) ==
  /\ s \in [0 .. n -> Int] /\ s[0] = 0
  /\ \A i \in 1 .. n : s[i] = s[i - 1] + u[i] * v[i]

LEMMA DimIsNat == Dim \in Nat
  BY InstancesAssumption DEF Response!VectorsAssumption

LEMMA SumsReach ==
  ASSUME NEW u \in Response!Vector, NEW v \in Response!Vector, NEW n \in 0 .. Dim, n # 0,
         NEW s, SumsUpTo(n - 1, s, u, v)
  PROVE  \E t : SumsUpTo(n, t, u, v)
  <1>1. n \in Nat /\ n >= 1 /\ n <= Dim /\ n \in 1 .. Dim BY DimIsNat
  <1>2. u[n] \in Int /\ v[n] \in Int BY <1>1 DEF Response!Vector, Response!Axis
  <1>3. u[n] * v[n] \in Int BY <1>2
  <1>4. s \in [0 .. (n - 1) -> Int] /\ s[0] = 0
        /\ \A i \in 1 .. (n - 1) : s[i] = s[i - 1] + u[i] * v[i]
    BY DEF SumsUpTo
  <1> DEFINE t == [i \in 0 .. n |-> IF i = n THEN s[n - 1] + u[n] * v[n] ELSE s[i]]
  <1>5. n - 1 \in 0 .. (n - 1) /\ s[n - 1] \in Int BY <1>1, <1>4
  <1>6. \A i \in 0 .. n : i # n => i \in 0 .. (n - 1) /\ s[i] \in Int BY <1>1, <1>4
  <1>7. t \in [0 .. n -> Int]
    <2>1. s[n - 1] + u[n] * v[n] \in Int BY <1>3, <1>5
    <2> QED BY <2>1, <1>6
  <1>8. t[0] = 0 BY <1>1, <1>4
  <1>9. ASSUME NEW i \in 1 .. n PROVE t[i] = t[i - 1] + u[i] * v[i]
    <2>1. i \in 0 .. n /\ i - 1 \in 0 .. n /\ i - 1 # n BY <1>1
    <2>2. t[i - 1] = s[i - 1] BY <2>1
    <2>3. CASE i = n BY <2>1, <2>2, <2>3
    <2>4. CASE i # n
      <3>1. i \in 1 .. (n - 1) BY <2>4, <1>1
      <3>2. t[i] = s[i] BY <2>1, <2>4
      <3> QED BY <3>1, <3>2, <2>2, <1>4
    <2> QED BY <2>3, <2>4
  <1> HIDE DEF t
  <1> QED BY <1>7, <1>8, <1>9 DEF SumsUpTo

LEMMA SumsExist ==
  ASSUME NEW u \in Response!Vector, NEW v \in Response!Vector
  PROVE  \E s \in [0 .. Dim -> Int] : PartialSums(s, u, v)
  <1> DEFINE Short == {n \in 0 .. Dim : ~(\E s : SumsUpTo(n, s, u, v))}
  <1>1. CASE Short # {}
    <2>1. Short \subseteq Nat BY DimIsNat
    <2>2. PICK n \in Short : \A m \in Short : n <= m
      <3> HIDE DEF Short
      <3> QED BY <1>1, <2>1, LeastNumber
    <2>3. n \in 0 .. Dim /\ ~(\E s : SumsUpTo(n, s, u, v)) OBVIOUS
    <2>4. n # 0
      <3>1. SumsUpTo(0, [i \in 0 .. 0 |-> 0], u, v) BY DEF SumsUpTo
      <3> QED BY <3>1, <2>3
    <2>5. n - 1 \in 0 .. Dim /\ ~(n <= n - 1) BY <2>3, <2>4, DimIsNat
    <2>6. \E s : SumsUpTo(n - 1, s, u, v) BY <2>2, <2>5
    <2> QED BY <2>3, <2>4, <2>6, SumsReach
  <1>2. CASE Short = {}
    <2>1. Dim \in 0 .. Dim BY DimIsNat
    <2>2. PICK s : SumsUpTo(Dim, s, u, v) BY <1>2, <2>1
    <2>3. /\ s \in [0 .. Dim -> Int] /\ s[0] = 0
          /\ \A i \in 1 .. Dim : s[i] = s[i - 1] + u[i] * v[i]
      BY <2>2 DEF SumsUpTo
    <2>4. ASSUME NEW i \in 0 .. Dim
          PROVE s[i] = IF i = 0 THEN 0 ELSE s[i - 1] + u[i] * v[i]
      BY <2>3, DimIsNat
    <2>5. PartialSums(s, u, v) BY <2>3, <2>4 DEF PartialSums
    <2> QED BY <2>3, <2>5
  <1> QED BY <1>1, <1>2

LEMMA SumsAgree ==
  ASSUME NEW u, NEW v, NEW f, NEW e, PartialSums(f, u, v), PartialSums(e, u, v)
  PROVE  f[Dim] = e[Dim]
  <1> DEFINE Wrong == {i \in 0 .. Dim : f[i] # e[i]}
  <1>1. \A i \in 0 .. Dim : /\ f[i] = IF i = 0 THEN 0 ELSE f[i - 1] + u[i] * v[i]
                            /\ e[i] = IF i = 0 THEN 0 ELSE e[i - 1] + u[i] * v[i]
    BY DEF PartialSums
  <1>2. CASE Wrong = {}
    <2>1. Dim \in 0 .. Dim BY DimIsNat
    <2> QED BY <1>2, <2>1
  <1>3. CASE Wrong # {}
    <2>1. Wrong \subseteq Nat BY DimIsNat
    <2>2. PICK i \in Wrong : \A j \in Wrong : i <= j
      <3> HIDE DEF Wrong
      <3> QED BY <1>3, <2>1, LeastNumber
    <2>3. i \in 0 .. Dim /\ f[i] # e[i] OBVIOUS
    <2>4. i # 0 BY <2>3, <1>1
    <2>5. i - 1 \in 0 .. Dim /\ ~(i <= i - 1) BY <2>3, <2>4, DimIsNat
    <2>6. f[i - 1] = e[i - 1] BY <2>2, <2>5
    <2> QED BY <2>3, <2>4, <2>6, <1>1
  <1> QED BY <1>2, <1>3

(* The product of two vectors is the last of the partial sums. *)
LEMMA DotIs ==
  ASSUME NEW u, NEW v, NEW s, PartialSums(s, u, v)
  PROVE  Response!Dot(u, v) = s[Dim]
  <1> DEFINE f == CHOOSE f : PartialSums(f, u, v)
  <1>1. PartialSums(f, u, v) BY Zenon
  <1>2. Response!Dot(u, v) = f[Dim] BY DEF Response!Dot, PartialSums
  <1> HIDE DEF f
  <1> QED BY <1>1, <1>2, SumsAgree

LEMMA DotIsInt ==
  ASSUME NEW u \in Response!Vector, NEW v \in Response!Vector
  PROVE  Response!Dot(u, v) \in Int
  <1>1. PICK s \in [0 .. Dim -> Int] : PartialSums(s, u, v) BY SumsExist
  <1>2. Dim \in 0 .. Dim BY DimIsNat
  <1> QED BY <1>1, <1>2, DotIs

(* Symmetric. *)
LEMMA DotCommutes ==
  ASSUME NEW u \in Response!Vector, NEW v \in Response!Vector
  PROVE  Response!Dot(u, v) = Response!Dot(v, u)
  <1>1. PICK s \in [0 .. Dim -> Int] : PartialSums(s, u, v) BY SumsExist
  <1>2. ASSUME NEW i \in 0 .. Dim, i # 0 PROVE u[i] * v[i] = v[i] * u[i]
    <2>1. i \in 1 .. Dim BY <1>2, DimIsNat
    <2>2. u[i] \in Int /\ v[i] \in Int BY <2>1 DEF Response!Vector, Response!Axis
    <2> QED BY <2>2
  <1>3. [i \in 0 .. Dim |-> IF i = 0 THEN 0 ELSE s[i - 1] + u[i] * v[i]]
          = [i \in 0 .. Dim |-> IF i = 0 THEN 0 ELSE s[i - 1] + v[i] * u[i]]
    BY <1>2
  <1>4. PartialSums(s, v, u) BY <1>1, <1>3 DEF PartialSums
  <1> QED BY <1>1, <1>4, DotIs

(* Sums and multiples of vectors are vectors, and the product is linear in the first. *)
LEMMA PlusIs ==
  ASSUME NEW u \in Response!Vector, NEW v \in Response!Vector
  PROVE  /\ Response!Plus(u, v) \in Response!Vector
         /\ \A i \in 1 .. Dim : /\ Response!Plus(u, v)[i] = u[i] + v[i]
                                /\ u[i] \in Int /\ v[i] \in Int
  BY DEF Response!Plus, Response!Vector, Response!Axis

LEMMA ScaleIs ==
  ASSUME NEW k \in Int, NEW v \in Response!Vector
  PROVE  /\ Response!Scale(k, v) \in Response!Vector
         /\ \A i \in 1 .. Dim : Response!Scale(k, v)[i] = k * v[i] /\ v[i] \in Int
  <1>1. \A i \in 1 .. Dim : v[i] \in Int BY DEF Response!Vector, Response!Axis
  <1>2. \A i \in 1 .. Dim : k * v[i] \in Int BY <1>1
  <1> QED BY <1>1, <1>2 DEF Response!Scale, Response!Vector, Response!Axis

LEMMA MinusIs ==
  ASSUME NEW u \in Response!Vector, NEW v \in Response!Vector
  PROVE  /\ Response!Minus(u, v) \in Response!Vector
         /\ \A i \in 1 .. Dim : /\ Response!Minus(u, v)[i] = u[i] - v[i]
                                /\ u[i] \in Int /\ v[i] \in Int
  <1> DEFINE w == Response!Scale(-1, v)
  <1>1. w \in Response!Vector /\ \A i \in 1 .. Dim : w[i] = (-1) * v[i] /\ v[i] \in Int
    BY ScaleIs
  <1>2. Response!Minus(u, v) = Response!Plus(u, w) BY DEF Response!Minus
  <1> HIDE DEF w
  <1>3. /\ Response!Plus(u, w) \in Response!Vector
        /\ \A i \in 1 .. Dim : Response!Plus(u, w)[i] = u[i] + w[i] /\ u[i] \in Int
    BY <1>1, PlusIs
  <1> QED BY <1>1, <1>2, <1>3

LEMMA DistributesInt ==
  ASSUME NEW a \in Int, NEW b \in Int, NEW c \in Int
  PROVE  (a + b) * c = a * c + b * c /\ (a * b) * c = a * (b * c)
         /\ a * (b + c) = a * b + a * c /\ a * b = b * a /\ a * b \in Int
  OBVIOUS

LEMMA DotOfPlus ==
  ASSUME NEW u \in Response!Vector, NEW w \in Response!Vector, NEW v \in Response!Vector
  PROVE  Response!Dot(Response!Plus(u, w), v) = Response!Dot(u, v) + Response!Dot(w, v)
  <1>1. PICK s \in [0 .. Dim -> Int] : PartialSums(s, u, v) BY SumsExist
  <1>2. PICK t \in [0 .. Dim -> Int] : PartialSums(t, w, v) BY SumsExist
  <1> DEFINE x == Response!Plus(u, w)
             r == [i \in 0 .. Dim |-> s[i] + t[i]]
  <1>3. ASSUME NEW i \in 0 .. Dim
        PROVE  r[i] = IF i = 0 THEN 0 ELSE r[i - 1] + x[i] * v[i]
    <2>1. s[i] = IF i = 0 THEN 0 ELSE s[i - 1] + u[i] * v[i] BY <1>1 DEF PartialSums
    <2>2. t[i] = IF i = 0 THEN 0 ELSE t[i - 1] + w[i] * v[i] BY <1>2 DEF PartialSums
    <2>3. r[i] = s[i] + t[i] /\ s[i] \in Int /\ t[i] \in Int OBVIOUS
    <2>4. CASE i = 0 BY <2>1, <2>2, <2>3, <2>4
    <2>5. CASE i # 0
      <3>1. i \in 1 .. Dim /\ i - 1 \in 0 .. Dim BY <2>5, DimIsNat
      <3>2. x[i] = u[i] + w[i] /\ u[i] \in Int /\ w[i] \in Int BY <3>1, PlusIs
      <3>3. v[i] \in Int BY <3>1 DEF Response!Vector, Response!Axis
      <3>4. r[i - 1] = s[i - 1] + t[i - 1] /\ s[i - 1] \in Int /\ t[i - 1] \in Int BY <3>1
      <3> HIDE DEF x, r
      <3>5. x[i] * v[i] = u[i] * v[i] + w[i] * v[i] BY <3>2, <3>3, DistributesInt
      <3>6. u[i] * v[i] \in Int /\ w[i] * v[i] \in Int BY <3>2, <3>3, DistributesInt
      <3> QED BY <2>1, <2>2, <2>3, <2>5, <3>4, <3>5, <3>6
    <2> QED BY <2>4, <2>5
  <1>4. r = [i \in 0 .. Dim |-> r[i]] OBVIOUS
  <1>5. Dim \in 0 .. Dim BY DimIsNat
  <1>6. r[Dim] = s[Dim] + t[Dim] BY <1>5
  <1> HIDE DEF r, x
  <1>7. PartialSums(r, x, v) BY <1>3, <1>4 DEF PartialSums
  <1>8. Response!Dot(x, v) = r[Dim] BY <1>7, DotIs
  <1>9. Response!Dot(u, v) = s[Dim] /\ Response!Dot(w, v) = t[Dim] BY <1>1, <1>2, DotIs
  <1> QED BY <1>6, <1>8, <1>9 DEF x

LEMMA DotOfScale ==
  ASSUME NEW k \in Int, NEW u \in Response!Vector, NEW v \in Response!Vector
  PROVE  Response!Dot(Response!Scale(k, u), v) = k * Response!Dot(u, v)
  <1>1. PICK s \in [0 .. Dim -> Int] : PartialSums(s, u, v) BY SumsExist
  <1> DEFINE x == Response!Scale(k, u)
             r == [i \in 0 .. Dim |-> k * s[i]]
  <1>3. ASSUME NEW i \in 0 .. Dim
        PROVE  r[i] = IF i = 0 THEN 0 ELSE r[i - 1] + x[i] * v[i]
    <2>1. s[i] = IF i = 0 THEN 0 ELSE s[i - 1] + u[i] * v[i] BY <1>1 DEF PartialSums
    <2>3. r[i] = k * s[i] /\ s[i] \in Int OBVIOUS
    <2>4. CASE i = 0 BY <2>1, <2>3, <2>4
    <2>5. CASE i # 0
      <3>1. i \in 1 .. Dim /\ i - 1 \in 0 .. Dim BY <2>5, DimIsNat
      <3>2. x[i] = k * u[i] /\ u[i] \in Int BY <3>1, ScaleIs
      <3>3. v[i] \in Int BY <3>1 DEF Response!Vector, Response!Axis
      <3>4. r[i - 1] = k * s[i - 1] /\ s[i - 1] \in Int BY <3>1
      <3> HIDE DEF x, r
      <3>5. x[i] * v[i] = k * (u[i] * v[i]) /\ u[i] * v[i] \in Int
        BY <3>2, <3>3, DistributesInt
      <3>6. k * (s[i - 1] + u[i] * v[i]) = k * s[i - 1] + k * (u[i] * v[i])
        BY <3>4, <3>5, DistributesInt
      <3> QED BY <2>1, <2>3, <2>5, <3>4, <3>5, <3>6
    <2> QED BY <2>4, <2>5
  <1>4. r = [i \in 0 .. Dim |-> r[i]] OBVIOUS
  <1>5. Dim \in 0 .. Dim BY DimIsNat
  <1>6. r[Dim] = k * s[Dim] BY <1>5
  <1> HIDE DEF r, x
  <1>7. PartialSums(r, x, v) BY <1>3, <1>4 DEF PartialSums
  <1>8. Response!Dot(x, v) = r[Dim] BY <1>7, DotIs
  <1>9. Response!Dot(u, v) = s[Dim] BY <1>1, DotIs
  <1> QED BY <1>6, <1>8, <1>9 DEF x

(* A product with itself is not negative. *)
LEMMA SquareIsNat == ASSUME NEW v \in Response!Vector PROVE Response!Dot(v, v) \in Nat
  <1>1. PICK s \in [0 .. Dim -> Int] : PartialSums(s, v, v) BY SumsExist
  <1> DEFINE Low == {i \in 0 .. Dim : s[i] < 0}
  <1>2. CASE Low # {}
    <2>1. Low \subseteq Nat BY DimIsNat
    <2>2. PICK i \in Low : \A j \in Low : i <= j
      <3> HIDE DEF Low
      <3> QED BY <1>2, <2>1, LeastNumber
    <2>3. i \in 0 .. Dim /\ s[i] < 0 OBVIOUS
    <2>4. s[i] = IF i = 0 THEN 0 ELSE s[i - 1] + v[i] * v[i] BY <1>1, <2>3 DEF PartialSums
    <2>5. i # 0 BY <2>3, <2>4
    <2>6. i - 1 \in 0 .. Dim /\ ~(i <= i - 1) /\ i \in 1 .. Dim BY <2>3, <2>5, DimIsNat
    <2>7. ~(s[i - 1] < 0) /\ s[i - 1] \in Int BY <2>2, <2>6
    <2>8. v[i] \in Int BY <2>6 DEF Response!Vector, Response!Axis
    <2>9. \A a \in Int : a * a >= 0 OBVIOUS
    <2>10. v[i] * v[i] >= 0 /\ v[i] * v[i] \in Int BY <2>8, <2>9
    <2> QED BY <2>3, <2>4, <2>5, <2>7, <2>10
  <1>3. CASE Low = {}
    <2>1. Dim \in 0 .. Dim BY DimIsNat
    <2>2. s[Dim] \in Int /\ ~(s[Dim] < 0) BY <1>3, <2>1
    <2>3. s[Dim] \in Nat BY <2>2
    <2> QED BY <1>1, <2>3, DotIs
  <1> QED BY <1>2, <1>3

(* Linear in the second too. *)
LEMMA DotWithPlus ==
  ASSUME NEW u \in Response!Vector, NEW w \in Response!Vector, NEW v \in Response!Vector
  PROVE  Response!Dot(v, Response!Plus(u, w)) = Response!Dot(v, u) + Response!Dot(v, w)
  BY DotOfPlus, DotCommutes, PlusIs

LEMMA DotWithScale ==
  ASSUME NEW k \in Int, NEW u \in Response!Vector, NEW v \in Response!Vector
  PROVE  Response!Dot(v, Response!Scale(k, u)) = k * Response!Dot(v, u)
  BY DotOfScale, DotCommutes, ScaleIs

LEMMA DotOfMinus ==
  ASSUME NEW u \in Response!Vector, NEW w \in Response!Vector, NEW v \in Response!Vector
  PROVE  /\ Response!Dot(Response!Minus(u, w), v) = Response!Dot(u, v) - Response!Dot(w, v)
         /\ Response!Dot(v, Response!Minus(u, w)) = Response!Dot(v, u) - Response!Dot(v, w)
  <1> DEFINE x == Response!Scale(-1, w)
  <1>1. x \in Response!Vector BY ScaleIs
  <1>2. Response!Minus(u, w) = Response!Plus(u, x) BY DEF Response!Minus
  <1>3. Response!Dot(x, v) = (-1) * Response!Dot(w, v) BY DotOfScale
  <1>4. Response!Dot(v, x) = (-1) * Response!Dot(v, w) BY DotWithScale
  <1> HIDE DEF x
  <1>5. Response!Dot(Response!Plus(u, x), v) = Response!Dot(u, v) + Response!Dot(x, v)
    BY <1>1, DotOfPlus
  <1>6. Response!Dot(v, Response!Plus(u, x)) = Response!Dot(v, u) + Response!Dot(v, x)
    BY <1>1, DotWithPlus
  <1>7. /\ Response!Dot(u, v) \in Int /\ Response!Dot(w, v) \in Int
        /\ Response!Dot(v, u) \in Int /\ Response!Dot(v, w) \in Int
    BY DotIsInt
  <1> QED BY <1>2, <1>3, <1>4, <1>5, <1>6, <1>7

(* The square of a product is at most the product of the squares. *)
LEMMA SquareGrows == ASSUME NEW g \in Int, NEW d \in Int, g > 0, g * d >= 0 PROVE d >= 0
  OBVIOUS

LEMMA TooFarBack ==
  ASSUME NEW u \in Nat, NEW y \in Int, u + (-((u + 1) * y)) * y + (-((u + 1) * y)) * y >= 0
  PROVE  y * y <= 0
  <1>1. y * y \in Int /\ y * y >= 0 OBVIOUS
  <1>2. (-((u + 1) * y)) * y = -((u + 1) * (y * y)) OBVIOUS
  <1>3. (u + 1) * (y * y) = u * (y * y) + y * y OBVIOUS
  <1>4. CASE y * y >= 1
    <2>1. u * (y * y) >= u BY <1>1, <1>4
    <2>2. u * (y * y) \in Int BY <1>1
    <2> QED BY <2>1, <2>2, <1>1, <1>2, <1>3, <1>4
  <1> QED BY <1>1, <1>4

LEMMA Cauchy ==
  ASSUME NEW u \in Response!Vector, NEW g \in Response!Vector
  PROVE  Response!Dot(g, u) * Response!Dot(g, u) <= Response!Dot(g, g) * Response!Dot(u, u)
  <1> DEFINE y == Response!Dot(g, u)
             G == Response!Dot(g, g)
             U == Response!Dot(u, u)
  <1>1. y \in Int /\ G \in Nat /\ U \in Nat BY DotIsInt, SquareIsNat
  <1>2. Response!Dot(u, g) = y BY DotCommutes
  <1> HIDE DEF y, G, U
  <1>3. CASE G > 0
    <2> DEFINE a == Response!Scale(G, u)
               b == Response!Scale(y, g)
               v == Response!Minus(a, b)
    <2>1. a \in Response!Vector /\ b \in Response!Vector BY <1>1, ScaleIs
    <2>2. /\ Response!Dot(u, a) = G * U /\ Response!Dot(u, b) = y * y
          /\ Response!Dot(g, a) = G * y /\ Response!Dot(g, b) = y * G
      BY <1>1, <1>2, DotWithScale DEF y, G, U
    <2>3. \A x \in Response!Vector : /\ Response!Dot(a, x) = G * Response!Dot(u, x)
                                     /\ Response!Dot(b, x) = y * Response!Dot(g, x)
      BY <1>1, DotOfScale
    <2> HIDE DEF a, b
    <2>4. v \in Response!Vector BY <2>1, MinusIs
    <2>5. /\ Response!Dot(u, v) = G * U - y * y
          /\ Response!Dot(g, v) = G * y - y * G
      BY <2>1, <2>2, DotOfMinus
    <2>6. Response!Dot(v, v) = Response!Dot(a, v) - Response!Dot(b, v)
      BY <2>1, <2>4, DotOfMinus
    <2>7. Response!Dot(v, v) >= 0 BY <2>4, SquareIsNat
    <2>8. Response!Dot(a, v) = G * Response!Dot(u, v) /\ Response!Dot(b, v) = y * Response!Dot(g, v)
      BY <2>3, <2>4
    <2> HIDE DEF v
    <2>9. Response!Dot(g, v) = 0 BY <1>1, <2>5
    <2>10. G * (G * U - y * y) >= 0 BY <1>1, <2>5, <2>6, <2>7, <2>8, <2>9
    <2>11. G * U - y * y \in Int /\ G * U \in Int /\ y * y \in Int BY <1>1
    <2>12. G * U - y * y >= 0 BY <1>1, <1>3, <2>10, <2>11, SquareGrows
    <2> QED BY <2>11, <2>12 DEF y, G, U
  <1>4. CASE G = 0
    <2> DEFINE t == -((U + 1) * y)
               b == Response!Scale(t, g)
               w == Response!Plus(u, b)
    <2>1. t \in Int BY <1>1
    <2>2. b \in Response!Vector BY <2>1, ScaleIs
    <2>3. /\ Response!Dot(u, b) = t * y /\ Response!Dot(g, b) = t * G
      BY <2>1, <1>2, DotWithScale DEF G
    <2>4. \A x \in Response!Vector : Response!Dot(b, x) = t * Response!Dot(g, x)
      BY <2>1, DotOfScale
    <2> HIDE DEF b
    <2>5. w \in Response!Vector BY <2>2, PlusIs
    <2>6. Response!Dot(u, w) = U + t * y /\ Response!Dot(g, w) = y + t * G
      BY <2>2, <2>3, DotWithPlus DEF U, y
    <2>7. Response!Dot(w, w) = Response!Dot(u, w) + Response!Dot(b, w)
      BY <2>2, <2>5, DotOfPlus
    <2>8. Response!Dot(b, w) = t * Response!Dot(g, w) BY <2>4, <2>5
    <2>9. Response!Dot(w, w) >= 0 BY <2>5, SquareIsNat
    <2> HIDE DEF w
    <2>10. U + t * y + t * y >= 0
      <3> HIDE DEF t
      <3>1. t * G = 0 BY <2>1, <1>4
      <3>2. Response!Dot(g, w) = y BY <2>6, <3>1, <1>1
      <3> QED BY <2>6, <2>7, <2>8, <2>9, <3>2
    <2>11. y * y <= 0 BY <1>1, <2>10, TooFarBack
    <2>12. G * U = 0 BY <1>1, <1>4
    <2> QED BY <2>11, <2>12 DEF y, G, U
  <1> QED BY <1>1, <1>3, <1>4

-----------------------------------------------------------------------------
(* The Gram matrix: a form in it is the product of the two combinations of the *)
(* outputs its coefficients make.                                              *)
Outputs == [Response!Ids -> Response!Vector]

Coefficients == [Response!Ids -> Int]

Combined(c, o) ==
  Response!Plus(Response!Plus(Response!Scale(c["clean_a"], o["clean_a"]),
                              Response!Scale(c["clean_b"], o["clean_b"])),
                Response!Plus(Response!Scale(c["positive"], o["positive"]),
                              Response!Scale(c["negative"], o["negative"])))

LEMMA CombinedIs ==
  ASSUME NEW o \in Outputs, NEW c \in Coefficients
  PROVE  /\ Combined(c, o) \in Response!Vector
         /\ \A i \in 1 .. Dim :
               Combined(c, o)[i] =
                 (c["clean_a"] * o["clean_a"][i] + c["clean_b"] * o["clean_b"][i])
                   + (c["positive"] * o["positive"][i] + c["negative"] * o["negative"][i])
         /\ \A x \in Response!Vector :
              /\ Response!Dot(Combined(c, o), x) =
                   (c["clean_a"] * Response!Dot(o["clean_a"], x)
                      + c["clean_b"] * Response!Dot(o["clean_b"], x))
                     + (c["positive"] * Response!Dot(o["positive"], x)
                          + c["negative"] * Response!Dot(o["negative"], x))
              /\ Response!Dot(x, Combined(c, o)) =
                   (c["clean_a"] * Response!Dot(x, o["clean_a"])
                      + c["clean_b"] * Response!Dot(x, o["clean_b"]))
                     + (c["positive"] * Response!Dot(x, o["positive"])
                          + c["negative"] * Response!Dot(x, o["negative"]))
  <1> DEFINE a == Response!Scale(c["clean_a"], o["clean_a"])
             b == Response!Scale(c["clean_b"], o["clean_b"])
             p == Response!Scale(c["positive"], o["positive"])
             n == Response!Scale(c["negative"], o["negative"])
  <1>1. \A i \in Response!Ids : o[i] \in Response!Vector /\ c[i] \in Int
    BY DEF Outputs, Coefficients
  <1>2. /\ "clean_a" \in Response!Ids /\ "clean_b" \in Response!Ids
        /\ "positive" \in Response!Ids /\ "negative" \in Response!Ids
    BY DEF Response!Ids
  <1>3. /\ a \in Response!Vector /\ b \in Response!Vector
        /\ p \in Response!Vector /\ n \in Response!Vector
    BY <1>1, <1>2, ScaleIs
  <1>4. \A i \in 1 .. Dim : /\ a[i] = c["clean_a"] * o["clean_a"][i]
                            /\ b[i] = c["clean_b"] * o["clean_b"][i]
                            /\ p[i] = c["positive"] * o["positive"][i]
                            /\ n[i] = c["negative"] * o["negative"][i]
    BY <1>1, <1>2, ScaleIs
  <1>5. \A x \in Response!Vector :
          /\ Response!Dot(a, x) = c["clean_a"] * Response!Dot(o["clean_a"], x)
          /\ Response!Dot(b, x) = c["clean_b"] * Response!Dot(o["clean_b"], x)
          /\ Response!Dot(p, x) = c["positive"] * Response!Dot(o["positive"], x)
          /\ Response!Dot(n, x) = c["negative"] * Response!Dot(o["negative"], x)
    BY <1>1, <1>2, DotOfScale
  <1>6. \A x \in Response!Vector :
          /\ Response!Dot(x, a) = c["clean_a"] * Response!Dot(x, o["clean_a"])
          /\ Response!Dot(x, b) = c["clean_b"] * Response!Dot(x, o["clean_b"])
          /\ Response!Dot(x, p) = c["positive"] * Response!Dot(x, o["positive"])
          /\ Response!Dot(x, n) = c["negative"] * Response!Dot(x, o["negative"])
    BY <1>1, <1>2, DotWithScale
  <1>7. Combined(c, o) = Response!Plus(Response!Plus(a, b), Response!Plus(p, n))
    BY DEF Combined
  <1> HIDE DEF a, b, p, n
  <1> DEFINE q == Response!Plus(a, b)
             r == Response!Plus(p, n)
  <1>8. /\ q \in Response!Vector /\ \A i \in 1 .. Dim : q[i] = a[i] + b[i]
        /\ \A x \in Response!Vector :
              /\ Response!Dot(q, x) = Response!Dot(a, x) + Response!Dot(b, x)
              /\ Response!Dot(x, q) = Response!Dot(x, a) + Response!Dot(x, b)
    <2>1. q \in Response!Vector /\ \A i \in 1 .. Dim : q[i] = a[i] + b[i] BY <1>3, PlusIs
    <2>2. \A x \in Response!Vector : Response!Dot(q, x) = Response!Dot(a, x) + Response!Dot(b, x)
      BY <1>3, DotOfPlus
    <2>3. \A x \in Response!Vector : Response!Dot(x, q) = Response!Dot(x, a) + Response!Dot(x, b)
      BY <1>3, DotWithPlus
    <2> QED BY <2>1, <2>2, <2>3
  <1>9. /\ r \in Response!Vector /\ \A i \in 1 .. Dim : r[i] = p[i] + n[i]
        /\ \A x \in Response!Vector :
              /\ Response!Dot(r, x) = Response!Dot(p, x) + Response!Dot(n, x)
              /\ Response!Dot(x, r) = Response!Dot(x, p) + Response!Dot(x, n)
    <2>1. r \in Response!Vector /\ \A i \in 1 .. Dim : r[i] = p[i] + n[i] BY <1>3, PlusIs
    <2>2. \A x \in Response!Vector : Response!Dot(r, x) = Response!Dot(p, x) + Response!Dot(n, x)
      BY <1>3, DotOfPlus
    <2>3. \A x \in Response!Vector : Response!Dot(x, r) = Response!Dot(x, p) + Response!Dot(x, n)
      BY <1>3, DotWithPlus
    <2> QED BY <2>1, <2>2, <2>3
  <1>10. Combined(c, o) = Response!Plus(q, r) BY <1>7
  <1> HIDE DEF q, r
  <1>11. /\ Response!Plus(q, r) \in Response!Vector
         /\ \A i \in 1 .. Dim : Response!Plus(q, r)[i] = q[i] + r[i]
    BY <1>8, <1>9, PlusIs
  <1>12. \A x \in Response!Vector :
           /\ Response!Dot(Response!Plus(q, r), x) = Response!Dot(q, x) + Response!Dot(r, x)
           /\ Response!Dot(x, Response!Plus(q, r)) = Response!Dot(x, q) + Response!Dot(x, r)
    BY <1>8, <1>9, DotOfPlus, DotWithPlus
  <1>13. Combined(c, o) \in Response!Vector BY <1>10, <1>11
  <1>14. ASSUME NEW i \in 1 .. Dim
         PROVE  Combined(c, o)[i] =
                  (c["clean_a"] * o["clean_a"][i] + c["clean_b"] * o["clean_b"][i])
                    + (c["positive"] * o["positive"][i] + c["negative"] * o["negative"][i])
    BY <1>4, <1>8, <1>9, <1>10, <1>11
  <1>15. ASSUME NEW x \in Response!Vector
         PROVE  /\ Response!Dot(Combined(c, o), x) =
                     (c["clean_a"] * Response!Dot(o["clean_a"], x)
                        + c["clean_b"] * Response!Dot(o["clean_b"], x))
                       + (c["positive"] * Response!Dot(o["positive"], x)
                            + c["negative"] * Response!Dot(o["negative"], x))
                /\ Response!Dot(x, Combined(c, o)) =
                     (c["clean_a"] * Response!Dot(x, o["clean_a"])
                        + c["clean_b"] * Response!Dot(x, o["clean_b"]))
                       + (c["positive"] * Response!Dot(x, o["positive"])
                            + c["negative"] * Response!Dot(x, o["negative"]))
    BY <1>5, <1>6, <1>8, <1>9, <1>10, <1>12
  <1> QED BY <1>13, <1>14, <1>15

LEMMA Spread ==
  ASSUME NEW c \in Int, NEW g1 \in Int, NEW g2 \in Int, NEW g3 \in Int, NEW g4 \in Int,
         NEW d1 \in Int, NEW d2 \in Int, NEW d3 \in Int, NEW d4 \in Int
  PROVE  c * g1 * d1 + c * g2 * d2 + c * g3 * d3 + c * g4 * d4
           = c * ((d1 * g1 + d2 * g2) + (d3 * g3 + d4 * g4))
  OBVIOUS

LEMMA FormIs ==
  ASSUME NEW o \in Outputs, NEW c \in Coefficients, NEW d \in Coefficients
  PROVE  Response!Form(c, Response!Gram(o), d)
           = Response!Dot(Combined(c, o), Combined(d, o))
  <1>1. \A i \in Response!Ids : o[i] \in Response!Vector /\ c[i] \in Int /\ d[i] \in Int
    BY DEF Outputs, Coefficients
  <1>2. /\ "clean_a" \in Response!Ids /\ "clean_b" \in Response!Ids
        /\ "positive" \in Response!Ids /\ "negative" \in Response!Ids
    BY DEF Response!Ids
  <1> DEFINE gram == Response!Gram(o)
             w == Combined(d, o)
             row == [i \in Response!Ids |->
                       Response!Sum4([j \in Response!Ids |-> c[i] * gram[i][j] * d[j]])]
  <1>3. \A i, j \in Response!Ids : gram[i][j] = Response!Dot(o[i], o[j]) BY DEF Response!Gram
  <1>4. \A i, j \in Response!Ids : gram[i][j] \in Int BY <1>1, <1>3, DotIsInt
  <1>5. w \in Response!Vector BY CombinedIs
  <1>6. Response!Form(c, Response!Gram(o), d) = Response!Sum4(row) BY DEF Response!Form
  <1>7. ASSUME NEW i \in Response!Ids PROVE row[i] = c[i] * Response!Dot(o[i], w)
    <2>1. row[i] = Response!Sum4([j \in Response!Ids |-> c[i] * gram[i][j] * d[j]])
      OBVIOUS
    <2>2. Response!Dot(o[i], w) =
            (d["clean_a"] * Response!Dot(o[i], o["clean_a"])
               + d["clean_b"] * Response!Dot(o[i], o["clean_b"]))
              + (d["positive"] * Response!Dot(o[i], o["positive"])
                   + d["negative"] * Response!Dot(o[i], o["negative"]))
      BY <1>1, CombinedIs
    <2> HIDE DEF gram, w, row
    <2>3. row[i] = c[i] * gram[i]["clean_a"] * d["clean_a"]
                     + c[i] * gram[i]["clean_b"] * d["clean_b"]
                     + c[i] * gram[i]["positive"] * d["positive"]
                     + c[i] * gram[i]["negative"] * d["negative"]
      BY <2>1, <1>2 DEF Response!Sum4
    <2>4. /\ gram[i]["clean_a"] \in Int /\ gram[i]["clean_b"] \in Int
          /\ gram[i]["positive"] \in Int /\ gram[i]["negative"] \in Int
      BY <1>2, <1>4
    <2>5. row[i] = c[i] * ((d["clean_a"] * gram[i]["clean_a"]
                              + d["clean_b"] * gram[i]["clean_b"])
                             + (d["positive"] * gram[i]["positive"]
                                  + d["negative"] * gram[i]["negative"]))
      BY <2>3, <2>4, <1>1, <1>2, Spread
    <2>6. /\ gram[i]["clean_a"] = Response!Dot(o[i], o["clean_a"])
          /\ gram[i]["clean_b"] = Response!Dot(o[i], o["clean_b"])
          /\ gram[i]["positive"] = Response!Dot(o[i], o["positive"])
          /\ gram[i]["negative"] = Response!Dot(o[i], o["negative"])
      BY <1>2, <1>3
    <2> QED BY <2>2, <2>5, <2>6
  <1>8. Response!Dot(Combined(c, o), w) =
          (c["clean_a"] * Response!Dot(o["clean_a"], w)
             + c["clean_b"] * Response!Dot(o["clean_b"], w))
            + (c["positive"] * Response!Dot(o["positive"], w)
                 + c["negative"] * Response!Dot(o["negative"], w))
    <2> HIDE DEF w
    <2> QED BY <1>5, CombinedIs
  <1>9. \A i \in Response!Ids : c[i] * Response!Dot(o[i], w) \in Int
    <2> HIDE DEF w
    <2>1. \A i \in Response!Ids : Response!Dot(o[i], w) \in Int BY <1>1, <1>5, DotIsInt
    <2> QED BY <1>1, <2>1
  <1> HIDE DEF gram, w, row
  <1>10. Response!Sum4(row) = row["clean_a"] + row["clean_b"] + row["positive"]
                                + row["negative"]
    BY DEF Response!Sum4
  <1>11. Response!Sum4(row) = Response!Dot(Combined(c, o), w)
    BY <1>2, <1>7, <1>8, <1>9, <1>10
  <1> QED BY <1>6, <1>11 DEF w

LEMMA SameVector ==
  ASSUME NEW u \in Response!Vector, NEW v \in Response!Vector, \A i \in 1 .. Dim : u[i] = v[i]
  PROVE  u = v
  <1>1. u = [i \in 1 .. Dim |-> u[i]] /\ v = [i \in 1 .. Dim |-> v[i]]
    BY DEF Response!Vector, Response!Axis
  <1> QED BY <1>1

LEMMA OutputsAre ==
  ASSUME NEW o \in Outputs
  PROVE  /\ o["clean_a"] \in Response!Vector /\ o["clean_b"] \in Response!Vector
         /\ o["positive"] \in Response!Vector /\ o["negative"] \in Response!Vector
         /\ \A i \in 1 .. Dim : /\ o["clean_a"][i] \in Int /\ o["clean_b"][i] \in Int
                                /\ o["positive"][i] \in Int /\ o["negative"][i] \in Int
  <1>1. /\ o["clean_a"] \in Response!Vector /\ o["clean_b"] \in Response!Vector
        /\ o["positive"] \in Response!Vector /\ o["negative"] \in Response!Vector
    BY DEF Outputs, Response!Ids
  <1> QED BY <1>1 DEF Response!Vector, Response!Axis

(* The centred outputs, coordinate by coordinate. *)
LEMMA CentredIs ==
  ASSUME NEW o \in Outputs
  PROVE  /\ Response!PlusCentred(o) \in Response!Vector
         /\ Response!MinusCentred(o) \in Response!Vector
         /\ \A i \in 1 .. Dim :
              /\ Response!PlusCentred(o)[i]
                   = 2 * o["positive"][i] - (o["clean_a"][i] + o["clean_b"][i])
              /\ Response!MinusCentred(o)[i]
                   = 2 * o["negative"][i] - (o["clean_a"][i] + o["clean_b"][i])
              /\ Response!PlusCentred(o)[i] \in Int /\ Response!MinusCentred(o)[i] \in Int
  <1> DEFINE m == Response!Intercept(o)
             x == Response!Scale(2, o["positive"])
             y == Response!Scale(2, o["negative"])
  <1>1. /\ m \in Response!Vector
        /\ \A i \in 1 .. Dim : m[i] = o["clean_a"][i] + o["clean_b"][i]
    BY OutputsAre, PlusIs DEF Response!Intercept
  <1>2. /\ x \in Response!Vector /\ y \in Response!Vector
        /\ \A i \in 1 .. Dim : x[i] = 2 * o["positive"][i] /\ y[i] = 2 * o["negative"][i]
    BY OutputsAre, ScaleIs
  <1>3. /\ Response!PlusCentred(o) = Response!Minus(x, m)
        /\ Response!MinusCentred(o) = Response!Minus(y, m)
    BY DEF Response!PlusCentred, Response!MinusCentred
  <1> HIDE DEF m, x, y
  <1>4. /\ Response!Minus(x, m) \in Response!Vector /\ Response!Minus(y, m) \in Response!Vector
        /\ \A i \in 1 .. Dim : /\ Response!Minus(x, m)[i] = x[i] - m[i]
                               /\ Response!Minus(y, m)[i] = y[i] - m[i]
                               /\ x[i] \in Int /\ y[i] \in Int /\ m[i] \in Int
    BY <1>1, <1>2, MinusIs
  <1> QED BY <1>1, <1>2, <1>3, <1>4

LEMMA CombinedWith ==
  ASSUME NEW o \in Outputs, NEW c \in Coefficients, NEW v \in Response!Vector,
         \A i \in 1 .. Dim :
            v[i] = (c["clean_a"] * o["clean_a"][i] + c["clean_b"] * o["clean_b"][i])
                     + (c["positive"] * o["positive"][i] + c["negative"] * o["negative"][i])
  PROVE  Combined(c, o) = v
  <1>1. Combined(c, o) \in Response!Vector
        /\ \A i \in 1 .. Dim : Combined(c, o)[i] = v[i]
    BY CombinedIs
  <1> QED BY <1>1, SameVector

(* The statistics from the Gram matrix are those from the arrays. *)
LEMMA GramIsDirect ==
  ASSUME NEW o \in Outputs
  PROVE  Response!FromGram(Response!Gram(o)) = Response!Direct(o)
  <1> DEFINE p == Response!Coefficient("positive")
             n == Response!Coefficient("negative")
             odd == [i \in Response!Ids |-> p[i] - n[i]]
             common == [i \in Response!Ids |-> p[i] + n[i]]
             clean == [i \in Response!Ids |-> CASE i = "clean_a" -> 1 [] i = "clean_b" -> -1
                                                [] OTHER -> 0]
             gram == Response!Gram(o)
             x == Response!PlusCentred(o)
             y == Response!MinusCentred(o)
             z == Response!Minus(o["clean_a"], o["clean_b"])
  <1>1. /\ p["clean_a"] = -1 /\ p["clean_b"] = -1 /\ p["positive"] = 2 /\ p["negative"] = 0
        /\ n["clean_a"] = -1 /\ n["clean_b"] = -1 /\ n["positive"] = 0 /\ n["negative"] = 2
        /\ p \in Coefficients /\ n \in Coefficients
    BY DEF Response!Coefficient, Response!Ids, Coefficients
  <1> HIDE DEF p, n
  <1>2. /\ odd["clean_a"] = 0 /\ odd["clean_b"] = 0
        /\ odd["positive"] = 2 /\ odd["negative"] = -2
        /\ common["clean_a"] = -2 /\ common["clean_b"] = -2
        /\ common["positive"] = 2 /\ common["negative"] = 2
    BY <1>1 DEF Response!Ids
  <1>3. odd \in Coefficients /\ common \in Coefficients
    <2>1. \A i \in Response!Ids : p[i] \in Int /\ n[i] \in Int BY <1>1 DEF Coefficients
    <2> QED BY <2>1 DEF Coefficients
  <1>4. /\ clean["clean_a"] = 1 /\ clean["clean_b"] = -1
        /\ clean["positive"] = 0 /\ clean["negative"] = 0
        /\ clean \in Coefficients
    BY DEF Response!Ids, Coefficients
  <1>5. /\ Response!FromGram(gram).plus = Response!Form(p, gram, p)
        /\ Response!FromGram(gram).minus = Response!Form(n, gram, n)
        /\ Response!FromGram(gram).odd = Response!Form(odd, gram, odd)
        /\ Response!FromGram(gram).common = Response!Form(common, gram, common)
        /\ Response!FromGram(gram).inner = -Response!Form(p, gram, n)
        /\ Response!FromGram(gram).noise = Response!Form(clean, gram, clean)
        /\ Response!FromGram(gram) =
             [plus |-> Response!FromGram(gram).plus, minus |-> Response!FromGram(gram).minus,
              odd |-> Response!FromGram(gram).odd, common |-> Response!FromGram(gram).common,
              inner |-> Response!FromGram(gram).inner, noise |-> Response!FromGram(gram).noise]
    BY DEF Response!FromGram, p, n
  <1> HIDE DEF odd, common, clean
  <1>6. x \in Response!Vector /\ y \in Response!Vector BY CentredIs
  <1>7. /\ z \in Response!Vector
        /\ \A i \in 1 .. Dim : z[i] = o["clean_a"][i] - o["clean_b"][i]
    BY OutputsAre, MinusIs
  <1>8. Combined(p, o) = x
    <2>1. \A i \in 1 .. Dim :
            x[i] = (p["clean_a"] * o["clean_a"][i] + p["clean_b"] * o["clean_b"][i])
                     + (p["positive"] * o["positive"][i] + p["negative"] * o["negative"][i])
      BY <1>1, CentredIs, OutputsAre
    <2> HIDE DEF x
    <2> QED BY <1>1, <1>6, <2>1, CombinedWith
  <1>9. Combined(n, o) = y
    <2>1. \A i \in 1 .. Dim :
            y[i] = (n["clean_a"] * o["clean_a"][i] + n["clean_b"] * o["clean_b"][i])
                     + (n["positive"] * o["positive"][i] + n["negative"] * o["negative"][i])
      BY <1>1, CentredIs, OutputsAre
    <2> HIDE DEF y
    <2> QED BY <1>1, <1>6, <2>1, CombinedWith
  <1>10. Combined(odd, o) = Response!Minus(x, y)
    <2>1. /\ Response!Minus(x, y) \in Response!Vector
          /\ \A i \in 1 .. Dim : Response!Minus(x, y)[i] = x[i] - y[i]
      BY <1>6, MinusIs
    <2>2. \A i \in 1 .. Dim :
            Response!Minus(x, y)[i]
              = (odd["clean_a"] * o["clean_a"][i] + odd["clean_b"] * o["clean_b"][i])
                  + (odd["positive"] * o["positive"][i] + odd["negative"] * o["negative"][i])
      BY <1>2, <2>1, CentredIs, OutputsAre
    <2> HIDE DEF x, y
    <2> QED BY <1>3, <2>1, <2>2, CombinedWith
  <1>11. Combined(common, o) = Response!Plus(x, y)
    <2>1. /\ Response!Plus(x, y) \in Response!Vector
          /\ \A i \in 1 .. Dim : Response!Plus(x, y)[i] = x[i] + y[i]
      BY <1>6, PlusIs
    <2>2. \A i \in 1 .. Dim :
            Response!Plus(x, y)[i]
              = (common["clean_a"] * o["clean_a"][i] + common["clean_b"] * o["clean_b"][i])
                  + (common["positive"] * o["positive"][i]
                       + common["negative"] * o["negative"][i])
      BY <1>2, <2>1, CentredIs, OutputsAre
    <2> HIDE DEF x, y
    <2> QED BY <1>3, <2>1, <2>2, CombinedWith
  <1>12. Combined(clean, o) = z
    <2>1. \A i \in 1 .. Dim :
            z[i] = (clean["clean_a"] * o["clean_a"][i] + clean["clean_b"] * o["clean_b"][i])
                     + (clean["positive"] * o["positive"][i]
                          + clean["negative"] * o["negative"][i])
      BY <1>4, <1>7, OutputsAre
    <2> HIDE DEF z
    <2> QED BY <1>4, <1>7, <2>1, CombinedWith
  <1>13. /\ Response!Form(p, gram, p) = Response!Dot(x, x)
         /\ Response!Form(n, gram, n) = Response!Dot(y, y)
         /\ Response!Form(odd, gram, odd)
              = Response!Dot(Response!Minus(x, y), Response!Minus(x, y))
         /\ Response!Form(common, gram, common)
              = Response!Dot(Response!Plus(x, y), Response!Plus(x, y))
         /\ Response!Form(p, gram, n) = Response!Dot(x, y)
         /\ Response!Form(clean, gram, clean) = Response!Dot(z, z)
    <2> HIDE DEF x, y, z
    <2> QED BY <1>1, <1>3, <1>4, <1>8, <1>9, <1>10, <1>11, <1>12, FormIs
  <1>14. Response!Direct(o) =
           [plus |-> Response!Dot(x, x), minus |-> Response!Dot(y, y),
            odd |-> Response!Dot(Response!Minus(x, y), Response!Minus(x, y)),
            common |-> Response!Dot(Response!Plus(x, y), Response!Plus(x, y)),
            inner |-> -Response!Dot(x, y), noise |-> Response!Dot(z, z)]
    BY DEF Response!Direct, Response!Square
  <1> HIDE DEF gram, x, y, z
  <1>15. Response!FromGram(gram) = Response!Direct(o) BY <1>5, <1>13, <1>14
  <1> QED BY <1>15 DEF gram

-----------------------------------------------------------------------------
(* The gates.  What they compare are squares, and all follows from products of *)
(* vectors that are bounded by squares.                                        *)
LEMMA DirectIs ==
  ASSUME NEW o \in Outputs
  PROVE  LET x == Response!PlusCentred(o)
             y == Response!MinusCentred(o)
             z == Response!Minus(o["clean_a"], o["clean_b"])
             s == Response!Direct(o)
         IN /\ x \in Response!Vector /\ y \in Response!Vector /\ z \in Response!Vector
            /\ s.plus = Response!Dot(x, x) /\ s.minus = Response!Dot(y, y)
            /\ s.odd = Response!Dot(Response!Minus(x, y), Response!Minus(x, y))
            /\ s.common = Response!Dot(Response!Plus(x, y), Response!Plus(x, y))
            /\ s.inner = -Response!Dot(x, y) /\ s.noise = Response!Dot(z, z)
            /\ s.plus \in Nat /\ s.minus \in Nat /\ s.odd \in Nat /\ s.common \in Nat
            /\ s.inner \in Int /\ s.noise \in Nat
            /\ s.odd + s.common = 2 * (s.plus + s.minus)
  <1> DEFINE x == Response!PlusCentred(o)
             y == Response!MinusCentred(o)
             z == Response!Minus(o["clean_a"], o["clean_b"])
             s == Response!Direct(o)
             d == Response!Minus(x, y)
             c == Response!Plus(x, y)
  <1>1. /\ s.plus = Response!Dot(x, x) /\ s.minus = Response!Dot(y, y)
        /\ s.odd = Response!Dot(d, d) /\ s.common = Response!Dot(c, c)
        /\ s.inner = -Response!Dot(x, y) /\ s.noise = Response!Dot(z, z)
    BY DEF Response!Direct, Response!Square
  <1>2. x \in Response!Vector /\ y \in Response!Vector BY CentredIs
  <1>3. z \in Response!Vector BY OutputsAre, MinusIs
  <1>4. d \in Response!Vector /\ c \in Response!Vector
    <2> HIDE DEF x, y
    <2> QED BY <1>2, MinusIs, PlusIs
  <1>5. /\ Response!Dot(x, x) \in Nat /\ Response!Dot(y, y) \in Nat
        /\ Response!Dot(z, z) \in Nat /\ Response!Dot(d, d) \in Nat
        /\ Response!Dot(c, c) \in Nat /\ Response!Dot(x, y) \in Int
    <2> HIDE DEF x, y, z, d, c
    <2> QED BY <1>2, <1>3, <1>4, SquareIsNat, DotIsInt
  <1>6. Response!Dot(d, d) + Response!Dot(c, c)
          = 2 * (Response!Dot(x, x) + Response!Dot(y, y))
    <2>1. \A v \in Response!Vector :
            /\ Response!Dot(d, v) = Response!Dot(x, v) - Response!Dot(y, v)
            /\ Response!Dot(v, d) = Response!Dot(v, x) - Response!Dot(v, y)
      <3> HIDE DEF x, y
      <3> QED BY <1>2, DotOfMinus
    <2>2. \A v \in Response!Vector :
            /\ Response!Dot(c, v) = Response!Dot(x, v) + Response!Dot(y, v)
            /\ Response!Dot(v, c) = Response!Dot(v, x) + Response!Dot(v, y)
      <3> HIDE DEF x, y
      <3> QED BY <1>2, DotOfPlus, DotWithPlus
    <2> HIDE DEF x, y, d, c
    <2>3. Response!Dot(y, x) = Response!Dot(x, y) BY <1>2, DotCommutes
    <2> QED BY <1>2, <1>4, <1>5, <2>1, <2>2, <2>3
  <1> HIDE DEF x, y, z, s, d, c
  <1>7. /\ x \in Response!Vector /\ y \in Response!Vector /\ z \in Response!Vector
        /\ s.plus = Response!Dot(x, x) /\ s.minus = Response!Dot(y, y)
        /\ s.odd = Response!Dot(d, d) /\ s.common = Response!Dot(c, c)
        /\ s.inner = -Response!Dot(x, y) /\ s.noise = Response!Dot(z, z)
        /\ s.plus \in Nat /\ s.minus \in Nat /\ s.odd \in Nat /\ s.common \in Nat
        /\ s.inner \in Int /\ s.noise \in Nat
        /\ s.odd + s.common = 2 * (s.plus + s.minus)
    BY <1>1, <1>2, <1>3, <1>5, <1>6
  <1> QED BY <1>7 DEF x, y, z, s, d, c

LEMMA RootIsBounded ==
  ASSUME NEW p \in Nat, NEW m \in Nat, NEW r \in Int, r * r <= 4 * p * m
  PROVE  r <= p + m
  <1>1. p + m \in Nat /\ (p - m) * (p - m) >= 0 OBVIOUS
  <1>2. (p + m) * (p + m) = (p - m) * (p - m) + 4 * p * m OBVIOUS
  <1>3. (p + m) * (p + m) \in Nat /\ (p - m) * (p - m) \in Int /\ 4 * p * m \in Nat OBVIOUS
  <1>4. r * r <= (p + m) * (p + m) BY <1>1, <1>2, <1>3
  <1>5. \A a \in Nat : \A b \in Int : b > a => b * b > a * a OBVIOUS
  <1> QED BY <1>1, <1>4, <1>5

(* A residual in its bound leaves an odd response of which the common one is a part. *)
LEMMA ResidualFollows ==
  ASSUME NEW o \in Outputs, Response!SmallResidual(Response!Direct(o))
  PROVE  Response!OddDominates(Response!Direct(o))
  <1> DEFINE s == Response!Direct(o)
             r == 16 * s.common - s.plus - s.minus
  <1>1. /\ s.plus \in Nat /\ s.minus \in Nat /\ s.odd \in Nat /\ s.common \in Nat
        /\ s.odd + s.common = 2 * (s.plus + s.minus)
    BY DirectIs
  <1>2. /\ s.plus + s.minus > 0
        /\ r <= 0 \/ r * r <= 4 * s.plus * s.minus
    BY DEF Response!SmallResidual
  <1> HIDE DEF s
  <1>3. r \in Int BY <1>1
  <1>4. r <= s.plus + s.minus
    <2> HIDE DEF r
    <2>1. CASE r <= 0 BY <2>1, <1>1, <1>3
    <2>2. CASE r * r <= 4 * s.plus * s.minus BY <2>2, <1>1, <1>3, RootIsBounded
    <2> QED BY <1>2, <2>1, <2>2
  <1>5. s.odd > 0 /\ 4 * s.common <= s.odd BY <1>1, <1>2, <1>4
  <1> QED BY <1>5 DEF Response!OddDominates, s

-----------------------------------------------------------------------------
(* A response that is ready can be read against either clean output.           *)
LEMMA Within ==
  ASSUME NEW a \in Int, NEW b \in Int, b >= 0, a * a <= b * b
  PROVE  a <= b /\ -a <= b
  <1>1. \A c, d \in Int : d >= 0 /\ c > d => c * c > d * d OBVIOUS
  <1>2. (-a) * (-a) = a * a /\ -a \in Int OBVIOUS
  <1> QED BY <1>1, <1>2

\* x, y, z: products of the direction g with the odd response, the common one, and the
\* distance of the clean outputs, whose squares are D, C and N.
LEMMA SidesAreClear ==
  ASSUME NEW x \in Int, NEW y \in Int, NEW z \in Int,
         NEW G \in Nat, NEW D \in Nat, NEW C \in Nat, NEW N \in Nat,
         x > 0, 100 * (x * x) >= 81 * (D * G), C <= D, 9 * N <= D,
         y * y <= G * C, z * z <= G * N
  PROVE  /\ 2 * x + y + 2 * z > 0 /\ 2 * x + y - 2 * z > 0
         /\ 2 * x - y + 2 * z > 0 /\ 2 * x - y - 2 * z > 0
  <1>1. G * C <= G * D /\ G * (9 * N) <= G * D
    <2>1. \A a, b \in Nat : a <= b => G * a <= G * b OBVIOUS
    <2> QED BY <2>1
  <1>2. /\ x * x \in Int /\ y * y \in Int /\ z * z \in Int
        /\ G * C \in Nat /\ G * D \in Nat /\ G * N \in Nat /\ G * D = D * G
        /\ G * (9 * N) = 9 * (G * N)
    OBVIOUS
  <1>3. 81 * (y * y) <= 100 * (x * x) BY <1>1, <1>2
  <1>4. 729 * (z * z) <= 100 * (x * x) BY <1>1, <1>2
  <1>5. /\ (9 * y) * (9 * y) = 81 * (y * y) /\ (27 * z) * (27 * z) = 729 * (z * z)
        /\ (10 * x) * (10 * x) = 100 * (x * x)
    OBVIOUS
  <1>6. 9 * y <= 10 * x /\ -(9 * y) <= 10 * x
    <2>1. (9 * y) * (9 * y) <= (10 * x) * (10 * x) BY <1>3, <1>5
    <2>2. 9 * y \in Int /\ 10 * x \in Int /\ 10 * x >= 0 OBVIOUS
    <2> QED BY <2>1, <2>2, Within
  <1>7. 27 * z <= 10 * x /\ -(27 * z) <= 10 * x
    <2>1. (27 * z) * (27 * z) <= (10 * x) * (10 * x) BY <1>4, <1>5
    <2>2. 27 * z \in Int /\ 10 * x \in Int /\ 10 * x >= 0 OBVIOUS
    <2> QED BY <2>1, <2>2, Within
  <1> QED BY <1>6, <1>7

(* The odd response is twice the distance of the driven outputs. *)
LEMMA OddIsTwice ==
  ASSUME NEW o \in Outputs
  PROVE  LET d == Response!Minus(o["positive"], o["negative"])
         IN /\ d \in Response!Vector
            /\ Response!Minus(Response!PlusCentred(o), Response!MinusCentred(o))
                 = Response!Scale(2, d)
            /\ Response!Direct(o).odd = 4 * Response!Dot(d, d)
  <1> DEFINE d == Response!Minus(o["positive"], o["negative"])
             x == Response!PlusCentred(o)
             y == Response!MinusCentred(o)
             e == Response!Scale(2, d)
  <1>1. /\ d \in Response!Vector
        /\ \A i \in 1 .. Dim : d[i] = o["positive"][i] - o["negative"][i]
    BY OutputsAre, MinusIs
  <1>2. /\ x \in Response!Vector /\ y \in Response!Vector
        /\ \A i \in 1 .. Dim : x[i] - y[i] = 2 * (o["positive"][i] - o["negative"][i])
    BY CentredIs, OutputsAre
  <1>3. Response!Direct(o).odd = Response!Dot(Response!Minus(x, y), Response!Minus(x, y))
    BY DirectIs
  <1>4. e \in Response!Vector /\ \A i \in 1 .. Dim : e[i] = 2 * d[i]
    <2>1. d \in Response!Vector /\ 2 \in Int BY <1>1
    <2> HIDE DEF d
    <2> QED BY <2>1, ScaleIs
  <1>5. Response!Minus(x, y) = e
    <2> HIDE DEF x, y, d, e
    <2>1. /\ Response!Minus(x, y) \in Response!Vector
          /\ \A i \in 1 .. Dim : Response!Minus(x, y)[i] = x[i] - y[i]
      BY <1>2, MinusIs
    <2> QED BY <2>1, <1>1, <1>2, <1>4, SameVector
  <1>6. Response!Dot(e, e) = 4 * Response!Dot(d, d)
    <2> HIDE DEF d
    <2>1. Response!Dot(e, e) = 2 * Response!Dot(d, e) BY <1>1, <1>4, DotOfScale
    <2>2. Response!Dot(d, e) = 2 * Response!Dot(d, d) BY <1>1, DotWithScale
    <2>3. Response!Dot(d, d) \in Int BY <1>1, DotIsInt
    <2> QED BY <2>1, <2>2, <2>3
  <1> HIDE DEF d, x, y, e
  <1>7. /\ d \in Response!Vector /\ Response!Minus(x, y) = Response!Scale(2, d)
        /\ Response!Direct(o).odd = 4 * Response!Dot(d, d)
    BY <1>1, <1>3, <1>5, <1>6 DEF e
  <1> QED BY <1>7 DEF d, x, y

(* Products of a direction with the distances of the outputs. *)
LEMMA DistancesAre ==
  ASSUME NEW o \in Outputs, NEW g \in Response!Vector
  PROVE  LET d == Response!Minus(o["positive"], o["negative"])
             z == Response!Minus(o["clean_a"], o["clean_b"])
             c == Response!Plus(Response!PlusCentred(o), Response!MinusCentred(o))
             X == Response!Dot(g, d)
             Y == Response!Dot(g, c)
             Z == Response!Dot(g, z)
         IN /\ 4 * Response!Dot(g, Response!Minus(o["positive"], o["clean_a"]))
                 = 2 * X + Y - 2 * Z
            /\ 4 * Response!Dot(g, Response!Minus(o["positive"], o["clean_b"]))
                 = 2 * X + Y + 2 * Z
            /\ 4 * Response!Dot(g, Response!Minus(o["negative"], o["clean_a"]))
                 = Y - 2 * X - 2 * Z
            /\ 4 * Response!Dot(g, Response!Minus(o["negative"], o["clean_b"]))
                 = Y - 2 * X + 2 * Z
            /\ X \in Int /\ Y \in Int /\ Z \in Int
            /\ \A i, j \in Response!Ids :
                  Response!Dot(g, Response!Minus(o[i], o[j])) \in Int
  <1> DEFINE a == o["clean_a"]
             b == o["clean_b"]
             p == o["positive"]
             n == o["negative"]
             x == Response!PlusCentred(o)
             y == Response!MinusCentred(o)
             m == Response!Plus(a, b)
             ga == Response!Dot(g, a)
             gb == Response!Dot(g, b)
             gp == Response!Dot(g, p)
             gn == Response!Dot(g, n)
  <1>1. /\ a \in Response!Vector /\ b \in Response!Vector
        /\ p \in Response!Vector /\ n \in Response!Vector
    BY OutputsAre
  <1>2. x \in Response!Vector /\ y \in Response!Vector BY CentredIs
  <1>3. /\ x = Response!Minus(Response!Scale(2, p), m)
        /\ y = Response!Minus(Response!Scale(2, n), m)
    BY DEF Response!PlusCentred, Response!MinusCentred, Response!Intercept
  <1>4. \A i, j \in Response!Ids : Response!Dot(g, Response!Minus(o[i], o[j])) \in Int
    BY MinusIs, DotIsInt DEF Outputs
  <1> HIDE DEF a, b, p, n, x, y
  <1>5. m \in Response!Vector /\ Response!Dot(g, m) = ga + gb BY <1>1, PlusIs, DotWithPlus
  <1> HIDE DEF m
  <1>6. ga \in Int /\ gb \in Int /\ gp \in Int /\ gn \in Int BY <1>1, DotIsInt
  <1>7. Response!Dot(g, x) = 2 * gp - (ga + gb)
    <2>1. Response!Scale(2, p) \in Response!Vector
          /\ Response!Dot(g, Response!Scale(2, p)) = 2 * gp
      BY <1>1, ScaleIs, DotWithScale
    <2> QED BY <2>1, <1>3, <1>5, DotOfMinus
  <1>8. Response!Dot(g, y) = 2 * gn - (ga + gb)
    <2>1. Response!Scale(2, n) \in Response!Vector
          /\ Response!Dot(g, Response!Scale(2, n)) = 2 * gn
      BY <1>1, ScaleIs, DotWithScale
    <2> QED BY <2>1, <1>3, <1>5, DotOfMinus
  <1>9. Response!Dot(g, Response!Plus(x, y)) = 2 * gp + 2 * gn - 2 * ga - 2 * gb
    <2>1. Response!Dot(g, Response!Plus(x, y)) = Response!Dot(g, x) + Response!Dot(g, y)
      BY <1>2, DotWithPlus
    <2> QED BY <2>1, <1>6, <1>7, <1>8
  <1>10. /\ Response!Dot(g, Response!Minus(p, n)) = gp - gn
         /\ Response!Dot(g, Response!Minus(a, b)) = ga - gb
         /\ Response!Dot(g, Response!Minus(p, a)) = gp - ga
         /\ Response!Dot(g, Response!Minus(p, b)) = gp - gb
         /\ Response!Dot(g, Response!Minus(n, a)) = gn - ga
         /\ Response!Dot(g, Response!Minus(n, b)) = gn - gb
    BY <1>1, DotOfMinus
  <1> DEFINE X == Response!Dot(g, Response!Minus(p, n))
             Y == Response!Dot(g, Response!Plus(x, y))
             Z == Response!Dot(g, Response!Minus(a, b))
  <1> HIDE DEF ga, gb, gp, gn
  <1>11. /\ 4 * Response!Dot(g, Response!Minus(p, a)) = 2 * X + Y - 2 * Z
         /\ 4 * Response!Dot(g, Response!Minus(p, b)) = 2 * X + Y + 2 * Z
         /\ 4 * Response!Dot(g, Response!Minus(n, a)) = Y - 2 * X - 2 * Z
         /\ 4 * Response!Dot(g, Response!Minus(n, b)) = Y - 2 * X + 2 * Z
         /\ X \in Int /\ Y \in Int /\ Z \in Int
    BY <1>6, <1>9, <1>10
  <1> HIDE DEF X, Y, Z
  <1> QED BY <1>4, <1>11 DEF X, Y, Z, a, b, p, n, x, y

(* What is ready tells every driven output from every clean one. *)
LEMMA ReadyFollows ==
  ASSUME NEW o \in Outputs, NEW g \in Response!Vector, Response!GateZero(o, g) = "ready"
  PROVE  \A c \in {"clean_a", "clean_b"} :
            /\ Response!Dot(g, Response!Minus(o["positive"], o[c])) > 0
            /\ Response!Dot(g, Response!Minus(o["negative"], o[c])) < 0
  <1> DEFINE s == Response!Direct(o)
             d == Response!Minus(o["positive"], o["negative"])
             z == Response!Minus(o["clean_a"], o["clean_b"])
             c == Response!Plus(Response!PlusCentred(o), Response!MinusCentred(o))
             X == Response!Dot(g, d)
             Y == Response!Dot(g, c)
             Z == Response!Dot(g, z)
             G == Response!Dot(g, g)
             D == Response!Dot(d, d)
             C == Response!Dot(c, c)
             N == Response!Dot(z, z)
  <1>1. /\ Response!OddDominates(s) /\ Response!AboveNoise(s) /\ Response!TransferReady(d, g)
    BY DEF Response!GateZero, Response!SignedReady
  <1>2. d \in Response!Vector /\ z \in Response!Vector /\ c \in Response!Vector
    <2>1. d \in Response!Vector /\ z \in Response!Vector BY OddIsTwice, DirectIs
    <2>2. c \in Response!Vector BY CentredIs, PlusIs
    <2> QED BY <2>1, <2>2
  <1>3. /\ s.odd = 4 * D /\ s.common = C /\ s.noise = N
        /\ s.odd \in Nat /\ s.common \in Nat /\ s.noise \in Nat
    BY OddIsTwice, DirectIs
  <1>4. 4 * s.common <= s.odd BY <1>1 DEF Response!OddDominates
  <1>5. s.odd >= 36 * s.noise
    <2>1. NoiseFloor \in Nat BY InstancesAssumption DEF Response!VectorsAssumption
    <2>2. s.odd >= 36 * Response!LargestOf(s.noise, NoiseFloor) BY <1>1 DEF Response!AboveNoise
    <2> HIDE DEF s
    <2>3. Response!LargestOf(s.noise, NoiseFloor) >= s.noise
          /\ Response!LargestOf(s.noise, NoiseFloor) \in Nat
      BY <1>3, <2>1 DEF Response!LargestOf
    <2> QED BY <1>3, <2>2, <2>3
  <1>6. /\ Response!Dot(d, g) > 0
        /\ 100 * Response!Dot(d, g) * Response!Dot(d, g) >= 81 * D * G
    BY <1>1 DEF Response!TransferReady, Response!Square
  <1>7. /\ 4 * Response!Dot(g, Response!Minus(o["positive"], o["clean_a"])) = 2 * X + Y - 2 * Z
        /\ 4 * Response!Dot(g, Response!Minus(o["positive"], o["clean_b"])) = 2 * X + Y + 2 * Z
        /\ 4 * Response!Dot(g, Response!Minus(o["negative"], o["clean_a"])) = Y - 2 * X - 2 * Z
        /\ 4 * Response!Dot(g, Response!Minus(o["negative"], o["clean_b"])) = Y - 2 * X + 2 * Z
        /\ X \in Int /\ Y \in Int /\ Z \in Int
    BY DistancesAre
  <1>8. /\ Response!Dot(g, Response!Minus(o["positive"], o["clean_a"])) \in Int
        /\ Response!Dot(g, Response!Minus(o["positive"], o["clean_b"])) \in Int
        /\ Response!Dot(g, Response!Minus(o["negative"], o["clean_a"])) \in Int
        /\ Response!Dot(g, Response!Minus(o["negative"], o["clean_b"])) \in Int
    <2>1. \A i, j \in Response!Ids : Response!Dot(g, Response!Minus(o[i], o[j])) \in Int
      BY DistancesAre
    <2> QED BY <2>1 DEF Response!Ids
  <1> HIDE DEF s, d, z, c
  <1>9. X > 0 /\ 100 * X * X >= 81 * D * G BY <1>2, <1>6, DotCommutes
  <1>10. Y * Y <= G * C /\ Z * Z <= G * N BY <1>2, Cauchy
  <1>11. G \in Nat /\ D \in Nat /\ C \in Nat /\ N \in Nat BY <1>2, SquareIsNat
  <1> HIDE DEF X, Y, Z, G, D, C, N
  <1>12. C <= D /\ 9 * N <= D BY <1>3, <1>4, <1>5, <1>11
  <1>13. 100 * (X * X) >= 81 * (D * G) BY <1>7, <1>9, <1>11
  <1>14. /\ 2 * X + Y + 2 * Z > 0 /\ 2 * X + Y - 2 * Z > 0
         /\ 2 * X - Y + 2 * Z > 0 /\ 2 * X - Y - 2 * Z > 0
    BY <1>7, <1>9, <1>10, <1>11, <1>12, <1>13, SidesAreClear
  <1> QED BY <1>7, <1>8, <1>14

-----------------------------------------------------------------------------
(* What no gate may notice: an offset all outputs share, the sign convention,  *)
(* the order of the clean outputs.                                             *)
LEMMA NegatedIs ==
  ASSUME NEW u \in Response!Vector, NEW v \in Response!Vector
  PROVE  /\ Response!Scale(-1, u) \in Response!Vector
         /\ Response!Dot(Response!Scale(-1, u), Response!Scale(-1, v)) = Response!Dot(u, v)
         /\ Response!Minus(Response!Scale(-1, u), Response!Scale(-1, v))
              = Response!Scale(-1, Response!Minus(u, v))
         /\ Response!Minus(v, u) = Response!Scale(-1, Response!Minus(u, v))
  <1> DEFINE a == Response!Scale(-1, u)
             b == Response!Scale(-1, v)
             d == Response!Minus(u, v)
             e == Response!Scale(-1, d)
  <1>1. /\ a \in Response!Vector /\ b \in Response!Vector
        /\ \A i \in 1 .. Dim : /\ a[i] = (-1) * u[i] /\ b[i] = (-1) * v[i]
                               /\ u[i] \in Int /\ v[i] \in Int
    <2>1. -1 \in Int OBVIOUS
    <2> QED BY <2>1, ScaleIs
  <1>2. d \in Response!Vector /\ \A i \in 1 .. Dim : d[i] = u[i] - v[i] BY MinusIs
  <1>3. e \in Response!Vector /\ \A i \in 1 .. Dim : e[i] = (-1) * d[i]
    <2>1. -1 \in Int OBVIOUS
    <2> HIDE DEF d
    <2> QED BY <1>2, <2>1, ScaleIs
  <1>4. Response!Dot(a, b) = Response!Dot(u, v)
    <2>1. Response!Dot(a, b) = (-1) * Response!Dot(u, b) BY <1>1, DotOfScale
    <2>2. Response!Dot(u, b) = (-1) * Response!Dot(u, v) BY DotWithScale
    <2>3. Response!Dot(u, v) \in Int BY DotIsInt
    <2> HIDE DEF a, b
    <2> QED BY <2>1, <2>2, <2>3
  <1> HIDE DEF a, b, d, e
  <1>5. Response!Minus(a, b) = e
    <2>1. /\ Response!Minus(a, b) \in Response!Vector
          /\ \A i \in 1 .. Dim : Response!Minus(a, b)[i] = a[i] - b[i]
      BY <1>1, MinusIs
    <2> QED BY <2>1, <1>1, <1>2, <1>3, SameVector
  <1>6. Response!Minus(v, u) = e
    <2>1. /\ Response!Minus(v, u) \in Response!Vector
          /\ \A i \in 1 .. Dim : Response!Minus(v, u)[i] = v[i] - u[i]
      BY MinusIs
    <2> QED BY <2>1, <1>1, <1>2, <1>3, SameVector
  <1> QED BY <1>1, <1>4, <1>5, <1>6 DEF a, b, d, e

LEMMA ShiftKeeps ==
  ASSUME NEW o \in Outputs, NEW w \in Outputs, NEW v \in Response!Vector,
         \A i \in Response!Ids : w[i] = Response!Plus(o[i], v)
  PROVE  /\ Response!Direct(w) = Response!Direct(o)
         /\ Response!Minus(w["positive"], w["negative"])
              = Response!Minus(o["positive"], o["negative"])
  <1>1. \A k \in {"clean_a", "clean_b", "positive", "negative"} :
          /\ w[k] = Response!Plus(o[k], v) /\ o[k] \in Response!Vector
          /\ w[k] \in Response!Vector
    BY DEF Response!Ids, Outputs
  <1>2. \A k \in {"clean_a", "clean_b", "positive", "negative"} : \A i \in 1 .. Dim :
          w[k][i] = o[k][i] + v[i] /\ o[k][i] \in Int /\ v[i] \in Int
    BY <1>1, PlusIs
  <1>3. Response!PlusCentred(w) = Response!PlusCentred(o)
    <2>1. \A i \in 1 .. Dim : Response!PlusCentred(w)[i] = Response!PlusCentred(o)[i]
      BY <1>2, CentredIs
    <2> QED BY <2>1, CentredIs, SameVector
  <1>4. Response!MinusCentred(w) = Response!MinusCentred(o)
    <2>1. \A i \in 1 .. Dim : Response!MinusCentred(w)[i] = Response!MinusCentred(o)[i]
      BY <1>2, CentredIs
    <2> QED BY <2>1, CentredIs, SameVector
  <1>5. \A k, l \in {"clean_a", "clean_b", "positive", "negative"} :
          Response!Minus(w[k], w[l]) = Response!Minus(o[k], o[l])
    <2> SUFFICES ASSUME NEW k \in {"clean_a", "clean_b", "positive", "negative"},
                        NEW l \in {"clean_a", "clean_b", "positive", "negative"}
                 PROVE  Response!Minus(w[k], w[l]) = Response!Minus(o[k], o[l])
      OBVIOUS
    <2>1. /\ Response!Minus(w[k], w[l]) \in Response!Vector
          /\ \A i \in 1 .. Dim : Response!Minus(w[k], w[l])[i] = w[k][i] - w[l][i]
      BY <1>1, MinusIs
    <2>2. /\ Response!Minus(o[k], o[l]) \in Response!Vector
          /\ \A i \in 1 .. Dim : Response!Minus(o[k], o[l])[i] = o[k][i] - o[l][i]
      BY <1>1, MinusIs
    <2>3. \A i \in 1 .. Dim : Response!Minus(w[k], w[l])[i] = Response!Minus(o[k], o[l])[i]
      BY <1>2, <2>1, <2>2
    <2> QED BY <2>1, <2>2, <2>3, SameVector
  <1>6. Response!Direct(w) = Response!Direct(o) BY <1>3, <1>4, <1>5 DEF Response!Direct
  <1> QED BY <1>5, <1>6

LEMMA ReorderKeeps ==
  ASSUME NEW o \in Outputs, NEW w \in Outputs,
         w["clean_a"] = o["clean_b"], w["clean_b"] = o["clean_a"],
         w["positive"] = o["positive"], w["negative"] = o["negative"]
  PROVE  Response!Direct(w) = Response!Direct(o)
  <1>1. Response!PlusCentred(w) = Response!PlusCentred(o)
    <2>1. \A i \in 1 .. Dim : Response!PlusCentred(w)[i] = Response!PlusCentred(o)[i]
      BY CentredIs, OutputsAre
    <2> QED BY <2>1, CentredIs, SameVector
  <1>2. Response!MinusCentred(w) = Response!MinusCentred(o)
    <2>1. \A i \in 1 .. Dim : Response!MinusCentred(w)[i] = Response!MinusCentred(o)[i]
      BY CentredIs, OutputsAre
    <2> QED BY <2>1, CentredIs, SameVector
  <1> DEFINE z == Response!Minus(o["clean_a"], o["clean_b"])
             y == Response!Minus(w["clean_a"], w["clean_b"])
  <1>3. y = Response!Scale(-1, z)
    <2>1. o["clean_a"] \in Response!Vector /\ o["clean_b"] \in Response!Vector BY OutputsAre
    <2>2. y = Response!Minus(o["clean_b"], o["clean_a"]) OBVIOUS
    <2> QED BY <2>1, <2>2, NegatedIs
  <1>4. z \in Response!Vector BY OutputsAre, MinusIs
  <1>5. Response!Dot(y, y) = Response!Dot(z, z)
    <2> HIDE DEF y, z
    <2> QED BY <1>3, <1>4, NegatedIs
  <1> QED BY <1>1, <1>2, <1>5 DEF Response!Direct, Response!Square

LEMMA ReverseKeeps ==
  ASSUME NEW o \in Outputs, NEW w \in Outputs,
         w["clean_a"] = o["clean_a"], w["clean_b"] = o["clean_b"],
         w["positive"] = o["negative"], w["negative"] = o["positive"]
  PROVE  /\ Response!Direct(w).plus = Response!Direct(o).minus
         /\ Response!Direct(w).minus = Response!Direct(o).plus
         /\ Response!Direct(w).odd = Response!Direct(o).odd
         /\ Response!Direct(w).common = Response!Direct(o).common
         /\ Response!Direct(w).inner = Response!Direct(o).inner
         /\ Response!Direct(w).noise = Response!Direct(o).noise
  <1> DEFINE x == Response!PlusCentred(o)
             y == Response!MinusCentred(o)
  <1>1. Response!PlusCentred(w) = y /\ Response!MinusCentred(w) = x
    BY DEF Response!PlusCentred, Response!MinusCentred, Response!Intercept
  <1>2. x \in Response!Vector /\ y \in Response!Vector BY CentredIs
  <1>3. /\ Response!Direct(w).plus = Response!Dot(y, y)
        /\ Response!Direct(w).minus = Response!Dot(x, x)
        /\ Response!Direct(w).odd = Response!Dot(Response!Minus(y, x), Response!Minus(y, x))
        /\ Response!Direct(w).common = Response!Dot(Response!Plus(y, x), Response!Plus(y, x))
        /\ Response!Direct(w).inner = -Response!Dot(y, x)
        /\ Response!Direct(w).noise = Response!Direct(o).noise
        /\ Response!Direct(o).plus = Response!Dot(x, x)
        /\ Response!Direct(o).minus = Response!Dot(y, y)
        /\ Response!Direct(o).odd = Response!Dot(Response!Minus(x, y), Response!Minus(x, y))
        /\ Response!Direct(o).common = Response!Dot(Response!Plus(x, y), Response!Plus(x, y))
        /\ Response!Direct(o).inner = -Response!Dot(x, y)
    <2> HIDE DEF x, y
    <2>1. Response!PlusCentred(o) = x /\ Response!MinusCentred(o) = y BY DEF x, y
    <2> QED BY <1>1, <2>1 DEF Response!Direct, Response!Square
  <1> HIDE DEF x, y
  <1>4. Response!Dot(y, x) = Response!Dot(x, y) BY <1>2, DotCommutes
  <1>5. Response!Plus(y, x) = Response!Plus(x, y)
    <2>1. \A i \in 1 .. Dim : Response!Plus(y, x)[i] = Response!Plus(x, y)[i] BY <1>2, PlusIs
    <2> QED BY <1>2, <2>1, PlusIs, SameVector
  <1>6. Response!Dot(Response!Minus(y, x), Response!Minus(y, x))
          = Response!Dot(Response!Minus(x, y), Response!Minus(x, y))
    <2> DEFINE d == Response!Minus(x, y)
    <2>1. d \in Response!Vector BY <1>2, MinusIs
    <2>2. Response!Minus(y, x) = Response!Scale(-1, d) BY <1>2, NegatedIs
    <2> HIDE DEF d
    <2>3. Response!Dot(Response!Scale(-1, d), Response!Scale(-1, d)) = Response!Dot(d, d)
      BY <2>1, NegatedIs
    <2> QED BY <2>2, <2>3 DEF d
  <1> QED BY <1>3, <1>4, <1>5, <1>6

\* What the gates read of the statistics, with the signs turned round or not.
SameStatistics(t, s) ==
  /\ t.odd = s.odd /\ t.common = s.common /\ t.inner = s.inner /\ t.noise = s.noise
  /\ \/ t.plus = s.plus /\ t.minus = s.minus
     \/ t.plus = s.minus /\ t.minus = s.plus
  /\ s.plus \in Nat /\ s.minus \in Nat /\ s.common \in Nat

LEMMA SameGates ==
  ASSUME NEW s, NEW t, SameStatistics(t, s)
  PROVE  /\ Response!SignedReady(t) <=> Response!SignedReady(s)
         /\ Response!AboveNoise(t) <=> Response!AboveNoise(s)
         /\ t.plus = 0 \/ t.minus = 0 \/ t.odd = 0 <=> s.plus = 0 \/ s.minus = 0 \/ s.odd = 0
  <1>1. /\ t.odd = s.odd /\ t.common = s.common /\ t.inner = s.inner /\ t.noise = s.noise
        /\ s.plus \in Nat /\ s.minus \in Nat /\ s.common \in Nat
    BY DEF SameStatistics
  <1>2. CASE t.plus = s.plus /\ t.minus = s.minus
    BY <1>1, <1>2
    DEF Response!SignedReady, Response!Antisymmetric, Response!SmallResidual,
        Response!OddDominates, Response!AboveNoise
  <1>3. CASE t.plus = s.minus /\ t.minus = s.plus
    <2>1. /\ t.plus * t.minus = s.plus * s.minus
          /\ 81 * t.plus * t.minus = 81 * s.plus * s.minus
          /\ 4 * t.plus * t.minus = 4 * s.plus * s.minus
          /\ t.plus + t.minus = s.plus + s.minus
      BY <1>1, <1>3
    <2>2. Response!Antisymmetric(t) <=> Response!Antisymmetric(s)
      BY <1>1, <2>1 DEF Response!Antisymmetric
    <2>3. Response!OddDominates(t) <=> Response!OddDominates(s)
      BY <1>1 DEF Response!OddDominates
    <2>4. Response!AboveNoise(t) <=> Response!AboveNoise(s) BY <1>1 DEF Response!AboveNoise
    <2>5. Response!SmallResidual(t) <=> Response!SmallResidual(s)
      <3>1. 16 * t.common - t.plus - t.minus = 16 * s.common - s.plus - s.minus
        BY <1>1, <1>3
      <3> QED BY <2>1, <3>1 DEF Response!SmallResidual
    <2> QED BY <1>1, <1>3, <2>2, <2>3, <2>4, <2>5 DEF Response!SignedReady
  <1> QED BY <1>2, <1>3 DEF SameStatistics

(* The same gates open, the same transfer or both sides of it turned round. *)
LEMMA SameVerdict ==
  ASSUME NEW o \in Outputs, NEW w \in Outputs, NEW g \in Response!Vector, NEW h,
         SameStatistics(Response!Direct(w), Response!Direct(o)),
         \/ /\ Response!Minus(w["positive"], w["negative"])
                 = Response!Minus(o["positive"], o["negative"])
            /\ h = g
         \/ /\ w["positive"] = o["negative"] /\ w["negative"] = o["positive"]
            /\ h = Response!Scale(-1, g)
  PROVE  /\ Response!SignedReady(Response!Direct(w)) = Response!SignedReady(Response!Direct(o))
         /\ Response!GateZero(w, h) = Response!GateZero(o, g)
  <1> DEFINE d == Response!Minus(o["positive"], o["negative"])
             e == Response!Minus(w["positive"], w["negative"])
             s == Response!Direct(o)
             t == Response!Direct(w)
  <1>1. d \in Response!Vector BY OddIsTwice
  <1>2. Response!TransferReady(e, h) <=> Response!TransferReady(d, g)
    <2>1. CASE e = d /\ h = g BY <2>1
    <2>2. CASE /\ w["positive"] = o["negative"] /\ w["negative"] = o["positive"]
               /\ h = Response!Scale(-1, g)
      <3>1. o["positive"] \in Response!Vector /\ o["negative"] \in Response!Vector
        BY OutputsAre
      <3>2. e = Response!Minus(o["negative"], o["positive"]) BY <2>2
      <3>3. e = Response!Scale(-1, d) BY <3>1, <3>2, NegatedIs
      <3> HIDE DEF d, e
      <3>4. Response!Dot(e, h) = Response!Dot(d, g) BY <1>1, <2>2, <3>3, NegatedIs
      <3>5. Response!Dot(e, e) = Response!Dot(d, d) BY <1>1, <3>3, NegatedIs
      <3>6. Response!Dot(h, h) = Response!Dot(g, g) BY <2>2, NegatedIs
      <3>7. Response!Minus(e, h) = Response!Scale(-1, Response!Minus(d, g))
        BY <1>1, <2>2, <3>3, NegatedIs
      <3>8. Response!Minus(d, g) \in Response!Vector BY <1>1, MinusIs
      <3>9. Response!Dot(Response!Minus(e, h), Response!Minus(e, h))
              = Response!Dot(Response!Minus(d, g), Response!Minus(d, g))
        BY <3>7, <3>8, NegatedIs
      <3> QED BY <3>4, <3>5, <3>6, <3>9 DEF Response!TransferReady, Response!Square
    <2> QED BY <2>1, <2>2
  <1>3. /\ Response!SignedReady(t) <=> Response!SignedReady(s)
        /\ Response!AboveNoise(t) <=> Response!AboveNoise(s)
        /\ t.plus = 0 \/ t.minus = 0 \/ t.odd = 0 <=> s.plus = 0 \/ s.minus = 0 \/ s.odd = 0
    <2> HIDE DEF s, t
    <2>1. SameStatistics(t, s) BY DEF s, t
    <2> QED BY <2>1, SameGates
  <1>4. Response!SignedReady(t) \in BOOLEAN /\ Response!SignedReady(s) \in BOOLEAN
    BY DEF Response!SignedReady
  <1>5. Response!GateZero(w, h) =
          IF t.plus = 0 \/ t.minus = 0 \/ t.odd = 0
          THEN "raises"
          ELSE IF Response!SignedReady(t) /\ Response!AboveNoise(t)
                  /\ Response!TransferReady(e, h)
               THEN "ready" ELSE "not_ready"
    BY DEF Response!GateZero
  <1>6. Response!GateZero(o, g) =
          IF s.plus = 0 \/ s.minus = 0 \/ s.odd = 0
          THEN "raises"
          ELSE IF Response!SignedReady(s) /\ Response!AboveNoise(s)
                  /\ Response!TransferReady(d, g)
               THEN "ready" ELSE "not_ready"
    BY DEF Response!GateZero
  <1> HIDE DEF d, e, s, t
  <1>7. Response!GateZero(w, h) = Response!GateZero(o, g) BY <1>2, <1>3, <1>5, <1>6
  <1>8. Response!SignedReady(t) = Response!SignedReady(s) BY <1>3, <1>4
  <1> QED BY <1>7, <1>8 DEF s, t

-----------------------------------------------------------------------------
(* The outputs of a run are vectors, whichever change was made to them.        *)
ResponseInv == out \in Outputs /\ predicted \in Response!Vector

(* A step of the programs is one of the responses or leaves them alone. *)
LEMMA ResponseProjects == [SomeStep]_allVars => [Response!Next]_(Response!vars)
  <1> SUFFICES ASSUME [SomeStep]_allVars PROVE [Response!Next]_(Response!vars)
    OBVIOUS
  <1> USE DEF responseVars, Response!vars
  <1>1. CASE ResponseStep BY <1>1 DEF ResponseStep
  <1>2. CASE Rest /\ program # "response" BY <1>2 DEF Rest
  <1>3. CASE UNCHANGED allVars BY <1>3 DEF allVars
  <1> QED
    BY <1>1, <1>2, <1>3
    DEF SomeStep, VelocityStep, ProjectionStep, PreflightStep, ImpulseStep, ExposureStep,
        FeedbackStep, SixVideoStep, CauseStep, ContractStep

LEMMA ResponseStarts == Start => ResponseInv
  <1> SUFFICES ASSUME Start PROVE ResponseInv
    OBVIOUS
  <1>1. CASE Response!Init
    <2>1. PICK a \in FirstClean, b \in SecondClean, p \in Driven, n \in Driven :
            out = [i \in Response!Ids |-> CASE i = "clean_a" -> a [] i = "clean_b" -> b
                                            [] i = "positive" -> p [] i = "negative" -> n]
      BY <1>1 DEF Response!Init
    <2>2. /\ a \in Response!Vector /\ b \in Response!Vector
          /\ p \in Response!Vector /\ n \in Response!Vector
      BY InstancesAssumption DEF Response!VectorsAssumption
    <2>3. out \in Outputs BY <2>1, <2>2 DEF Outputs, Response!Ids
    <2>4. predicted \in Response!Vector
      BY <1>1, InstancesAssumption DEF Response!Init, Response!VectorsAssumption
    <2> QED BY <2>3, <2>4 DEF ResponseInv
  <1>2. CASE predicted = [k \in 1 .. Dim |-> 0] /\ out = [i \in Response!Ids |-> predicted]
    <2>1. predicted \in Response!Vector BY <1>2 DEF Response!Vector, Response!Axis
    <2> QED BY <1>2, <2>1 DEF ResponseInv, Outputs
  <1> QED BY <1>1, <1>2 DEF Start

\* What one step keeps: vectors stay vectors, and no gate notices it.
Unnoticed ==
  /\ out' \in Outputs /\ predicted' \in Response!Vector
  /\ Response!SignedReady(Response!Direct(out')) = Response!SignedReady(Response!Direct(out))
  /\ Response!GateZero(out', predicted') = Response!GateZero(out, predicted)

LEMMA ReverseUnnoticed == ASSUME ResponseInv, Response!Reverse PROVE Unnoticed
  <1>1. out \in Outputs /\ predicted \in Response!Vector BY DEF ResponseInv
  <1>2. /\ out' = [out EXCEPT !["positive"] = out["negative"],
                              !["negative"] = out["positive"]]
        /\ predicted' = Response!Scale(-1, predicted)
    BY DEF Response!Reverse
  <1>3. out' \in Outputs BY <1>1, <1>2 DEF Outputs, Response!Ids
  <1>4. predicted' \in Response!Vector
    <2>1. -1 \in Int OBVIOUS
    <2> QED BY <2>1, <1>1, <1>2, ScaleIs
  <1>5. /\ out'["clean_a"] = out["clean_a"] /\ out'["clean_b"] = out["clean_b"]
        /\ out'["positive"] = out["negative"] /\ out'["negative"] = out["positive"]
    BY <1>1, <1>2 DEF Outputs, Response!Ids
  <1>6. SameStatistics(Response!Direct(out'), Response!Direct(out))
    BY <1>1, <1>3, <1>5, ReverseKeeps, DirectIs DEF SameStatistics
  <1>7. /\ Response!SignedReady(Response!Direct(out')) = Response!SignedReady(Response!Direct(out))
        /\ Response!GateZero(out', predicted') = Response!GateZero(out, predicted)
    <2> DEFINE w == out'
               h == predicted'
    <2>1. w \in Outputs /\ h = Response!Scale(-1, predicted) /\ w["positive"] = out["negative"]
          /\ w["negative"] = out["positive"]
          /\ SameStatistics(Response!Direct(w), Response!Direct(out))
      BY <1>2, <1>3, <1>5, <1>6
    <2> HIDE DEF w, h
    <2>2. /\ Response!SignedReady(Response!Direct(w)) = Response!SignedReady(Response!Direct(out))
          /\ Response!GateZero(w, h) = Response!GateZero(out, predicted)
      BY <1>1, <2>1, SameVerdict
    <2> QED BY <2>2 DEF w, h
  <1> QED BY <1>3, <1>4, <1>7 DEF Unnoticed

LEMMA ReorderUnnoticed == ASSUME ResponseInv, Response!Reorder PROVE Unnoticed
  <1>1. out \in Outputs /\ predicted \in Response!Vector BY DEF ResponseInv
  <1>2. /\ out' = [out EXCEPT !["clean_a"] = out["clean_b"], !["clean_b"] = out["clean_a"]]
        /\ predicted' = predicted
    BY DEF Response!Reorder
  <1>3. out' \in Outputs BY <1>1, <1>2 DEF Outputs, Response!Ids
  <1>4. /\ out'["clean_a"] = out["clean_b"] /\ out'["clean_b"] = out["clean_a"]
        /\ out'["positive"] = out["positive"] /\ out'["negative"] = out["negative"]
    BY <1>1, <1>2 DEF Outputs, Response!Ids
  <1>5. Response!Direct(out') = Response!Direct(out) BY <1>1, <1>3, <1>4, ReorderKeeps
  <1>6. SameStatistics(Response!Direct(out'), Response!Direct(out))
    BY <1>1, <1>5, DirectIs DEF SameStatistics
  <1> QED BY <1>1, <1>2, <1>3, <1>4, <1>6, SameVerdict DEF Unnoticed

LEMMA ShiftUnnoticed ==
  ASSUME ResponseInv, NEW v \in Offsets, Response!Shift(v) PROVE Unnoticed
  <1>1. out \in Outputs /\ predicted \in Response!Vector BY DEF ResponseInv
  <1>2. v \in Response!Vector BY InstancesAssumption DEF Response!VectorsAssumption
  <1>3. /\ out' = [i \in Response!Ids |-> Response!Plus(out[i], v)]
        /\ predicted' = predicted
    BY DEF Response!Shift
  <1>4. out' \in Outputs
    <2>1. \A i \in Response!Ids : Response!Plus(out[i], v) \in Response!Vector
      BY <1>1, <1>2, PlusIs DEF Outputs
    <2> QED BY <1>3, <2>1 DEF Outputs
  <1>5. \A i \in Response!Ids : out'[i] = Response!Plus(out[i], v) BY <1>3
  <1>6. /\ Response!Direct(out') = Response!Direct(out)
        /\ Response!Minus(out'["positive"], out'["negative"])
             = Response!Minus(out["positive"], out["negative"])
    BY <1>1, <1>2, <1>4, <1>5, ShiftKeeps
  <1>7. SameStatistics(Response!Direct(out'), Response!Direct(out))
    BY <1>1, <1>6, DirectIs DEF SameStatistics
  <1> QED BY <1>1, <1>3, <1>4, <1>6, <1>7, SameVerdict DEF Unnoticed

LEMMA NextUnnoticed == ResponseInv /\ [Response!Next]_(Response!vars) => Unnoticed
  <1> SUFFICES ASSUME ResponseInv, [Response!Next]_(Response!vars) PROVE Unnoticed
    OBVIOUS
  <1>1. CASE UNCHANGED Response!vars
    BY <1>1 DEF Response!vars, Unnoticed, ResponseInv
  <1>2. CASE Response!Next
    BY <1>2, ReverseUnnoticed, ReorderUnnoticed, ShiftUnnoticed DEF Response!Next
  <1> QED BY <1>1, <1>2

LEMMA NextResponseInv == ResponseInv /\ [Response!Next]_(Response!vars) => ResponseInv'
  BY NextUnnoticed DEF Unnoticed, ResponseInv

(* The promises of the statistics, from their being vectors. *)
LEMMA ResponseIsAsPromised ==
  ResponseInv => /\ Response!GramAgrees /\ Response!ResidualDecides /\ Response!ReadyIsReadable
  <1> SUFFICES ASSUME ResponseInv
               PROVE  /\ Response!GramAgrees /\ Response!ResidualDecides
                      /\ Response!ReadyIsReadable
    OBVIOUS
  <1>1. out \in Outputs /\ predicted \in Response!Vector BY DEF ResponseInv
  <1>2. [out EXCEPT !["clean_b"] = out["clean_a"]] \in Outputs
    BY <1>1 DEF Outputs, Response!Ids
  <1>3. Response!GramAgrees
    BY <1>1, <1>2, GramIsDirect DEF Response!GramAgrees, Response!Single
  <1>4. Response!ResidualDecides BY <1>1, ResidualFollows DEF Response!ResidualDecides
  <1>5. Response!ReadyIsReadable BY <1>1, ReadyFollows DEF Response!ReadyIsReadable
  <1> QED BY <1>3, <1>4, <1>5

-----------------------------------------------------------------------------
(* The six saved videos.  Only the call that made the root is ever inside, so *)
(* every file is of one call; what that call has put on the disk is, stage by *)
(* stage, what it has validated, read and computed.                           *)

\* The call has made the root, or found it free and made it.
Inside(c) == sixvideoPc[c] \notin {"start", "mkdir", "refused"}

OneInside ==
  \A c \in Calls : Inside(c) => sixvideoDisk.root /\ \A d \in Calls : Inside(d) => d = c

\* A file that is there is of a call inside.
OfCall(x) ==
  /\ x.by # "nobody" => Inside(x.by)
  /\ x.by = "nobody" => x.says = "nothing"

FilesAreOfCall ==
  OfCall(sixvideoDisk.stats) /\ OfCall(sixvideoDisk.decision) /\ OfCall(sixvideoDisk.manifest)

\* A directory that was edited may be other than it was when it was validated.
Loose == sixvideoKind = "directory" /\ sixvideoEdits > 0

ReadsValidated(c) ==
  /\ \A v \in SixVideo!Videos : frames[c][v] = "other" => Loose
  /\ sixvideoPc[c] = "read" /\ ~Loose =>
       \A v \in SixVideo!Videos : SixVideo!View(c)[v] = "frozen"

\* What a call has written when it is at a stage.
PublishedBy(c) ==
  /\ sixvideoPc[c] \in {"stats", "decision", "manifest", "cleanup", "returned"} =>
       SixVideo!CleansEqual(c)
  /\ sixvideoPc[c] \in {"decision", "manifest", "cleanup", "returned"} =>
       sixvideoDisk.stats = SixVideo!File(c, "records") /\ sixvideoDisk.rows = found[c]
  /\ sixvideoPc[c] \in {"manifest", "cleanup", "returned"} =>
       sixvideoDisk.decision = SixVideo!File(c, SixVideo!Classification(found[c]))
  /\ sixvideoPc[c] \in {"cleanup", "returned"} =>
       sixvideoDisk.manifest = SixVideo!File(c, "manifest")
  /\ sixvideoPc[c] = "raised" => sixvideoDisk.decision = SixVideo!File(c, "failure")

AfterDecision == {"manifest", "cleanup", "returned", "failing", "killed"}

\* A candidate on the disk is of a call that has decided, and backed.
Decided ==
  sixvideoDisk.decision.says \in SixVideo!Classes =>
    /\ sixvideoPc[sixvideoDisk.decision.by] \in AfterDecision
    /\ SixVideo!CandidateIsBacked

SixVideoInv ==
  /\ SixVideo!TypeOK /\ OneInside /\ FilesAreOfCall
  /\ \A c \in Calls : ReadsValidated(c) /\ PublishedBy(c)
  /\ Decided

(* A step of the programs is one of the calls or leaves them alone. *)
LEMMA SixVideoProjects == [SomeStep]_allVars => [SixVideo!Next]_(SixVideo!vars)
  <1> SUFFICES ASSUME [SomeStep]_allVars PROVE [SixVideo!Next]_(SixVideo!vars)
    OBVIOUS
  <1> USE DEF sixvideoVars, SixVideo!vars
  <1>1. CASE SixVideoStep BY <1>1 DEF SixVideoStep
  <1>2. CASE Rest /\ program # "sixvideo" BY <1>2 DEF Rest
  <1>3. CASE UNCHANGED allVars BY <1>3 DEF allVars
  <1> QED
    BY <1>1, <1>2, <1>3
    DEF SomeStep, VelocityStep, ProjectionStep, PreflightStep, ImpulseStep, ExposureStep,
        FeedbackStep, CauseStep, ResponseStep, ContractStep

LEMMA SixVideoConstants ==
  /\ IsFiniteSet(Calls) /\ "nobody" \notin Calls
  /\ Intervals \in Nat /\ Intervals # 0 /\ SixVideoEdits \in Nat /\ SixVideoFaults \in Nat
  BY InstancesAssumption DEF SixVideo!SixVideoAssumption, SixVideo!IsFiniteSet, IsFiniteSet

(* No result so far is a record, and no file a file. *)
LEMMA NothingTypes ==
  /\ SixVideo!NoRecords \in SixVideo!Records
  /\ SixVideo!Absent \in SixVideo!FileType
  <1>1. 0 \in 0 .. Intervals BY SixVideoConstants
  <1> QED BY <1>1 DEF SixVideo!NoRecords, SixVideo!Records, SixVideo!Absent, SixVideo!FileType,
                      SixVideo!Nothing

(* The first state, that of a program under study and that of one that is not. *)
LEMMA SixVideoStarts == Start => SixVideoInv
  <1> SUFFICES ASSUME Start PROVE SixVideoInv
    OBVIOUS
  <1>1. /\ sixvideoKind \in {"zip", "directory"}
        /\ sixvideoSource \in [SixVideo!Parts -> SixVideo!Bytes]
        /\ copy = [c \in Calls |-> [p \in SixVideo!Parts |-> SixVideo!Nothing]]
        /\ sixvideoPc = [c \in Calls |-> "start"]
        /\ frames = [c \in Calls |-> [v \in SixVideo!Videos |-> SixVideo!Nothing]]
        /\ found = [c \in Calls |-> SixVideo!NoRecords]
        /\ sixvideoDisk = SixVideo!NoRoot /\ sixvideoEdits = 0 /\ faults = 0
    BY DEF Start, SixVideo!Init, SixVideo!Bytes
  <1>2. 0 \in 0 .. SixVideoEdits /\ 0 \in 0 .. SixVideoFaults BY SixVideoConstants
  <1>3. SixVideo!NoRoot \in [root : BOOLEAN, stats : SixVideo!FileType,
            decision : SixVideo!FileType, manifest : SixVideo!FileType,
            rows : SixVideo!Records]
    BY NothingTypes DEF SixVideo!NoRoot
  <1>4. SixVideo!TypeOK BY <1>1, <1>2, <1>3, NothingTypes DEF SixVideo!TypeOK
  <1>5. OneInside /\ \A c \in Calls : ReadsValidated(c) /\ PublishedBy(c)
    BY <1>1 DEF OneInside, Inside, ReadsValidated, PublishedBy, SixVideo!Nothing
  <1>6. FilesAreOfCall
    BY <1>1 DEF FilesAreOfCall, OfCall, SixVideo!NoRoot, SixVideo!Absent, SixVideo!Nothing
  <1>7. Decided
    BY <1>1 DEF Decided, SixVideo!NoRoot, SixVideo!Absent, SixVideo!Nothing, SixVideo!Classes
  <1> QED BY <1>4, <1>5, <1>6, <1>7 DEF SixVideoInv

SixVideoStages == SixVideo!Guarded \cup SixVideo!Ended \cup {"start", "mkdir", "failing"}

DiskType == [root : BOOLEAN, stats : SixVideo!FileType, decision : SixVideo!FileType,
             manifest : SixVideo!FileType, rows : SixVideo!Records]

(* A candidate is of the call inside, and that call has decided. *)
LEMMA CandidateIsOfCall ==
  ASSUME SixVideoInv, NEW c \in Calls, Inside(c),
         sixvideoDisk.decision.says \in SixVideo!Classes
  PROVE  sixvideoDisk.decision.by = c /\ sixvideoPc[c] \in AfterDecision
  <1>1. sixvideoDisk.decision.by \in Calls \cup {"nobody"}
    BY DEF SixVideoInv, SixVideo!TypeOK, SixVideo!FileType
  <1>2. sixvideoDisk.decision.by # "nobody"
    BY DEF SixVideoInv, FilesAreOfCall, OfCall, SixVideo!Classes
  <1>3. Inside(sixvideoDisk.decision.by) BY <1>2 DEF SixVideoInv, FilesAreOfCall, OfCall
  <1>4. sixvideoDisk.decision.by = c BY <1>1, <1>2, <1>3 DEF SixVideoInv, OneInside
  <1> QED BY <1>4 DEF SixVideoInv, Decided

(* What a call inside has to show after a step of its own. *)
LEMMA InsideMoves ==
  ASSUME SixVideoInv, NEW c \in Calls, Inside(c), NEW w \in SixVideoStages,
         w \notin {"start", "mkdir", "refused"},
         sixvideoPc' = [sixvideoPc EXCEPT ![c] = w],
         UNCHANGED <<sixvideoKind, sixvideoSource, sixvideoEdits>>,
         \A d \in Calls : d # c => frames'[d] = frames[d] /\ copy'[d] = copy[d],
         sixvideoDisk'.root = sixvideoDisk.root,
         sixvideoDisk'.stats = sixvideoDisk.stats \/ sixvideoDisk'.stats.by = c,
         sixvideoDisk'.decision = sixvideoDisk.decision \/ sixvideoDisk'.decision.by = c,
         sixvideoDisk'.manifest = sixvideoDisk.manifest \/ sixvideoDisk'.manifest.by = c,
         SixVideo!TypeOK', ReadsValidated(c)', PublishedBy(c)', Decided'
  PROVE  SixVideoInv'
  <1>0. /\ SixVideo!TypeOK /\ OneInside /\ FilesAreOfCall
        /\ \A d \in Calls : ReadsValidated(d) /\ PublishedBy(d)
    BY DEF SixVideoInv
  <1>1. sixvideoPc \in [Calls -> SixVideoStages] BY <1>0 DEF SixVideo!TypeOK, SixVideoStages
  <1>2. /\ sixvideoPc'[c] = w
        /\ \A d \in Calls : d # c => sixvideoPc'[d] = sixvideoPc[d]
    BY <1>1
  <1>3. \A d \in Calls : d # c => ~Inside(d) BY <1>0 DEF OneInside
  <1>4. \A d \in Calls : Inside(d)' <=> d = c BY <1>2, <1>3 DEF Inside
  <1>5. OneInside' BY <1>0, <1>4 DEF OneInside
  <1>6. Inside(c)' BY <1>4
  <1>7. /\ "nobody" # c
        /\ \A f \in {sixvideoDisk.stats, sixvideoDisk.decision, sixvideoDisk.manifest} :
             f.by \in Calls \cup {"nobody"}
    BY <1>0, SixVideoConstants DEF SixVideo!TypeOK, SixVideo!FileType
  <1>8. \A f \in {sixvideoDisk.stats, sixvideoDisk.decision, sixvideoDisk.manifest} :
           /\ f.by # "nobody" => f.by = c
           /\ f.by = "nobody" => f.says = "nothing"
    BY <1>0, <1>3, <1>7 DEF FilesAreOfCall, OfCall
  <1>9. FilesAreOfCall' BY <1>6, <1>7, <1>8 DEF FilesAreOfCall, OfCall
  <1>10. ASSUME NEW d \in Calls, d # c PROVE ReadsValidated(d)' /\ PublishedBy(d)'
    <2>1. ~Inside(d) /\ sixvideoPc'[d] = sixvideoPc[d] BY <1>2, <1>3, <1>10
    <2>2. ReadsValidated(d) BY <1>0
    <2> QED BY <2>1, <2>2, <1>10 DEF Inside, PublishedBy, ReadsValidated, Loose
  <1>11. \A d \in Calls : ReadsValidated(d)' /\ PublishedBy(d)' BY <1>10
  <1> QED BY <1>5, <1>9, <1>11 DEF SixVideoInv

(* A step of a call inside that writes nothing keeps the candidate there is. *)
LEMMA QuietMoves ==
  ASSUME SixVideoInv, NEW c \in Calls, Inside(c), NEW w \in SixVideoStages,
         w \notin {"start", "mkdir", "refused"},
         sixvideoPc' = [sixvideoPc EXCEPT ![c] = w],
         UNCHANGED <<sixvideoKind, sixvideoSource, sixvideoEdits, sixvideoDisk>>,
         \A d \in Calls : d # c => frames'[d] = frames[d] /\ copy'[d] = copy[d],
         SixVideo!TypeOK', ReadsValidated(c)', PublishedBy(c)',
         sixvideoPc[c] \notin AfterDecision \/ (w \in AfterDecision /\ frames' = frames)
  PROVE  SixVideoInv'
  <1>1. Decided'
    <2>1. SUFFICES ASSUME sixvideoDisk.decision.says \in SixVideo!Classes PROVE Decided'
      BY DEF Decided
    <2>2. sixvideoDisk.decision.by = c /\ sixvideoPc[c] \in AfterDecision
      BY <2>1, CandidateIsOfCall
    <2>3. sixvideoPc'[c] = w BY DEF SixVideoInv, SixVideo!TypeOK
    <2>4. SixVideo!CandidateIsBacked BY <2>1 DEF SixVideoInv, Decided
    <2>5. SixVideo!CandidateIsBacked' BY <2>2, <2>4 DEF SixVideo!CandidateIsBacked
    <2> QED BY <2>2, <2>3, <2>5 DEF Decided
  <1> QED BY <1>1, InsideMoves

(* What is outside: a call comes to the root and makes it or is refused. *)
LEMMA OutsideInv ==
  ASSUME SixVideoInv, NEW c \in Calls, SixVideo!Start(c) \/ SixVideo!MakeRoot(c)
  PROVE  SixVideoInv'
  <1>0. /\ SixVideo!TypeOK /\ OneInside /\ FilesAreOfCall /\ Decided
        /\ \A d \in Calls : ReadsValidated(d) /\ PublishedBy(d)
    BY DEF SixVideoInv
  <1>1. PICK w \in {"refused", "mkdir", "unpack", "snapshot"} :
          /\ sixvideoPc' = [sixvideoPc EXCEPT ![c] = w]
          /\ w \in {"unpack", "snapshot"} => ~sixvideoDisk.root /\ sixvideoDisk'.root
    <2>1. CASE SixVideo!Start(c) BY <2>1 DEF SixVideo!Start, SixVideo!Become
    <2>2. CASE SixVideo!MakeRoot(c)
      <3>1. sixvideoDisk'.root = TRUE
        BY <2>2, <1>0 DEF SixVideo!MakeRoot, SixVideo!TypeOK
      <3> QED BY <2>2, <3>1 DEF SixVideo!MakeRoot, SixVideo!Become, SixVideo!Opened
    <2> QED BY <2>1, <2>2
  <1>2. /\ UNCHANGED <<sixvideoKind, sixvideoSource, copy, frames, found, sixvideoEdits, faults>>
        /\ sixvideoPc[c] \in {"start", "mkdir"}
    BY DEF SixVideo!Start, SixVideo!MakeRoot
  <1>3. /\ sixvideoDisk' \in DiskType /\ (sixvideoDisk.root => sixvideoDisk'.root)
        /\ sixvideoDisk'.stats = sixvideoDisk.stats
        /\ sixvideoDisk'.decision = sixvideoDisk.decision
        /\ sixvideoDisk'.manifest = sixvideoDisk.manifest
        /\ sixvideoDisk'.rows = sixvideoDisk.rows
    BY <1>0 DEF SixVideo!Start, SixVideo!MakeRoot, SixVideo!TypeOK, DiskType
  <1>4. sixvideoPc \in [Calls -> SixVideoStages] BY <1>0 DEF SixVideo!TypeOK, SixVideoStages
  <1>5. sixvideoPc' \in [Calls -> SixVideoStages]
    <2>1. w \in SixVideoStages
      BY <1>1 DEF SixVideoStages, SixVideo!Guarded, SixVideo!Ended
    <2> QED BY <1>1, <1>4, <2>1
  <1>6. SixVideo!TypeOK' BY <1>0, <1>2, <1>3, <1>5 DEF SixVideo!TypeOK, SixVideoStages, DiskType
  <1>7. /\ sixvideoPc'[c] = w /\ \A d \in Calls : d # c => sixvideoPc'[d] = sixvideoPc[d]
    BY <1>1, <1>4
  <1>8. ~Inside(c) BY <1>2 DEF Inside
  <1>9. OneInside'
    <2>1. CASE w \in {"unpack", "snapshot"}
      <3>1. \A d \in Calls : ~Inside(d) BY <2>1, <1>0, <1>1 DEF OneInside
      <3>2. \A d \in Calls : Inside(d)' => d = c BY <3>1, <1>7 DEF Inside
      <3> QED BY <2>1, <3>2, <1>1 DEF OneInside
    <2>2. CASE w \in {"refused", "mkdir"}
      <3>1. \A d \in Calls : Inside(d)' <=> Inside(d) BY <2>2, <1>7, <1>8 DEF Inside
      <3> QED BY <3>1, <1>0, <1>3 DEF OneInside
    <2> QED BY <2>1, <2>2
  <1>10. \A f \in {sixvideoDisk.stats, sixvideoDisk.decision, sixvideoDisk.manifest} :
            /\ f.by \in Calls \cup {"nobody"}
            /\ f.by # "nobody" => Inside(f.by) /\ f.by # c /\ sixvideoPc'[f.by] = sixvideoPc[f.by]
    BY <1>0, <1>7, <1>8 DEF SixVideo!TypeOK, SixVideo!FileType, FilesAreOfCall, OfCall
  <1>11. FilesAreOfCall' BY <1>0, <1>3, <1>10 DEF FilesAreOfCall, OfCall, Inside
  <1>12. ASSUME NEW d \in Calls PROVE ReadsValidated(d)' /\ PublishedBy(d)'
    <2>1. ReadsValidated(d) /\ PublishedBy(d) BY <1>0
    <2>2. CASE d # c
      <3>1. sixvideoPc'[d] = sixvideoPc[d] BY <2>2, <1>7
      <3>2. ReadsValidated(d)' BY <1>2, <2>1, <3>1 DEF ReadsValidated, Loose, SixVideo!View
      <3>3. PublishedBy(d)' BY <1>2, <1>3, <2>1, <3>1 DEF PublishedBy, SixVideo!CleansEqual
      <3> QED BY <3>2, <3>3
    <2>3. CASE d = c
      <3>1. sixvideoPc'[c] \notin {"read", "stats", "decision", "manifest", "cleanup",
                                   "returned", "raised"}
        BY <1>1, <1>7
      <3>2. Loose' = Loose BY <1>2 DEF Loose
      <3> QED BY <1>2, <2>1, <2>3, <3>1, <3>2 DEF ReadsValidated, PublishedBy
    <2> QED BY <2>2, <2>3
  <1>13. Decided'
    <2>1. SUFFICES ASSUME sixvideoDisk.decision.says \in SixVideo!Classes PROVE Decided'
      BY <1>3 DEF Decided
    <2>2. sixvideoDisk.decision.by # "nobody"
      BY <2>1, <1>0 DEF FilesAreOfCall, OfCall, SixVideo!Classes
    <2>3. sixvideoPc'[sixvideoDisk.decision.by] = sixvideoPc[sixvideoDisk.decision.by]
      BY <2>2, <1>10
    <2>4. SixVideo!CandidateIsBacked' BY <2>1, <1>0, <1>2, <1>3 DEF Decided, SixVideo!CandidateIsBacked
    <2> QED BY <2>1, <2>3, <2>4, <1>0, <1>3 DEF Decided
  <1>14. \A d \in Calls : ReadsValidated(d)' /\ PublishedBy(d)' BY <1>12
  <1> QED BY <1>6, <1>9, <1>11, <1>13, <1>14 DEF SixVideoInv

(* The source is unpacked, validated and read. *)
LEMMA SourceInv ==
  ASSUME SixVideoInv, NEW c \in Calls,
         \/ SixVideo!Unpack(c) \/ SixVideo!Snapshot(c) \/ SixVideo!ReadRecords(c)
         \/ SixVideo!HashVideos(c)
  PROVE  SixVideoInv'
  <1>0. SixVideo!TypeOK /\ ReadsValidated(c) BY DEF SixVideoInv
  <1>1. PICK w \in {"unpack", "snapshot", "records", "videos", "read", "failing"} :
          sixvideoPc' = [sixvideoPc EXCEPT ![c] = w]
    BY DEF SixVideo!Unpack, SixVideo!Snapshot, SixVideo!ReadRecords, SixVideo!HashVideos,
           SixVideo!Become, SixVideo!Verdict
  <1>2. /\ UNCHANGED <<sixvideoKind, sixvideoSource, frames, found, sixvideoDisk, sixvideoEdits,
                       faults>>
        /\ sixvideoPc[c] \in {"unpack", "snapshot", "records", "videos"}
    BY DEF SixVideo!Unpack, SixVideo!Snapshot, SixVideo!ReadRecords, SixVideo!HashVideos
  <1>3. w \in SixVideoStages BY <1>1 DEF SixVideoStages, SixVideo!Guarded
  <1>4. sixvideoPc \in [Calls -> SixVideoStages] BY <1>0 DEF SixVideo!TypeOK, SixVideoStages
  <1>5. sixvideoPc'[c] = w /\ sixvideoPc' \in [Calls -> SixVideoStages] BY <1>1, <1>3, <1>4
  <1>6. /\ copy' \in [Calls -> [SixVideo!Parts -> SixVideo!Bytes \cup {SixVideo!Nothing}]]
        /\ \A d \in Calls : d # c => copy'[d] = copy[d]
    <2>1. CASE SixVideo!Unpack(c)
      <3>1. PICK p \in SixVideo!Parts : copy' = [copy EXCEPT ![c][p] = sixvideoSource[p]]
        BY <2>1 DEF SixVideo!Unpack
      <3> QED BY <3>1, <1>0 DEF SixVideo!TypeOK
    <2>2. CASE copy' = copy BY <2>2, <1>0 DEF SixVideo!TypeOK
    <2> QED BY <2>1, <2>2 DEF SixVideo!Snapshot, SixVideo!ReadRecords, SixVideo!HashVideos
  <1>7. SixVideo!TypeOK' BY <1>0, <1>2, <1>5, <1>6 DEF SixVideo!TypeOK, SixVideoStages
  <1>8. w = "read" => copy' = copy /\ \A v \in SixVideo!Videos : SixVideo!View(c)[v] = "frozen"
    <2> SUFFICES ASSUME w = "read"
                 PROVE  copy' = copy /\ \A v \in SixVideo!Videos : SixVideo!View(c)[v] = "frozen"
      OBVIOUS
    <2>1. sixvideoPc'[c] = "read" BY <1>5
    <2>2. ~SixVideo!Unpack(c) /\ ~SixVideo!Snapshot(c) /\ ~SixVideo!ReadRecords(c)
      BY <2>1, <1>4
      DEF SixVideo!Unpack, SixVideo!Snapshot, SixVideo!ReadRecords, SixVideo!Become,
          SixVideo!Verdict
    <2> QED BY <2>1, <2>2, <1>4 DEF SixVideo!HashVideos, SixVideo!Become, SixVideo!Verdict
  <1>9. ReadsValidated(c)'
    BY <1>0, <1>2, <1>5, <1>8 DEF ReadsValidated, Loose, SixVideo!View
  <1>10. PublishedBy(c)' BY <1>1, <1>5 DEF PublishedBy
  <1>11. Inside(c) /\ sixvideoPc[c] \notin AfterDecision BY <1>2 DEF Inside, AfterDecision
  <1> QED BY <1>1, <1>2, <1>3, <1>6, <1>7, <1>9, <1>10, <1>11, QuietMoves

(* A video is decoded from what was validated. *)
LEMMA FramesInv == ASSUME SixVideoInv, NEW c \in Calls, SixVideo!ReadFrames(c) PROVE SixVideoInv'
  <1>0. SixVideo!TypeOK /\ ReadsValidated(c) BY DEF SixVideoInv
  <1>1. PICK v \in SixVideo!Videos, w \in {"read", "compute"} :
          /\ sixvideoPc' = [sixvideoPc EXCEPT ![c] = w]
          /\ frames' = [frames EXCEPT ![c][v] = SixVideo!View(c)[v]]
    BY DEF SixVideo!ReadFrames, SixVideo!Become
  <1>2. /\ UNCHANGED <<sixvideoKind, sixvideoSource, copy, found, sixvideoDisk, sixvideoEdits,
                       faults>>
        /\ sixvideoPc[c] = "read"
    BY DEF SixVideo!ReadFrames
  <1>3. w \in SixVideoStages BY <1>1 DEF SixVideoStages, SixVideo!Guarded
  <1>4. sixvideoPc \in [Calls -> SixVideoStages] BY <1>0 DEF SixVideo!TypeOK, SixVideoStages
  <1>5. sixvideoPc'[c] = w /\ sixvideoPc' \in [Calls -> SixVideoStages] BY <1>1, <1>3, <1>4
  <1>6. SixVideo!View(c)[v] \in SixVideo!Bytes \cup {SixVideo!Nothing}
    BY <1>0 DEF SixVideo!TypeOK, SixVideo!View, SixVideo!Parts
  <1>7. /\ frames' \in [Calls -> [SixVideo!Videos -> SixVideo!Bytes \cup {SixVideo!Nothing}]]
        /\ \A d \in Calls : d # c => frames'[d] = frames[d]
        /\ \A u \in SixVideo!Videos :
             frames'[c][u] = IF u = v THEN SixVideo!View(c)[v] ELSE frames[c][u]
    BY <1>0, <1>1, <1>6 DEF SixVideo!TypeOK
  <1>8. SixVideo!TypeOK' BY <1>0, <1>2, <1>5, <1>7 DEF SixVideo!TypeOK, SixVideoStages
  <1>9. ~Loose => SixVideo!View(c)[v] = "frozen" BY <1>0, <1>2 DEF ReadsValidated
  <1>10. ReadsValidated(c)'
    BY <1>0, <1>2, <1>7, <1>9 DEF ReadsValidated, Loose, SixVideo!View
  <1>11. PublishedBy(c)' BY <1>1, <1>5 DEF PublishedBy
  <1>12. Inside(c) /\ sixvideoPc[c] \notin AfterDecision BY <1>2 DEF Inside, AfterDecision
  <1> QED BY <1>1, <1>2, <1>3, <1>7, <1>8, <1>10, <1>11, <1>12, QuietMoves

(* Statistics are computed only from two clean videos of the same frames. *)
LEMMA ComputeInv == ASSUME SixVideoInv, NEW c \in Calls, SixVideo!Compute(c) PROVE SixVideoInv'
  <1>0. SixVideo!TypeOK /\ ReadsValidated(c) BY DEF SixVideoInv
  <1>1. PICK w \in {"stats", "failing"} :
          /\ sixvideoPc' = [sixvideoPc EXCEPT ![c] = w]
          /\ w = "stats" => SixVideo!CleansEqual(c)
    BY DEF SixVideo!Compute, SixVideo!Become, SixVideo!Verdict
  <1>2. /\ UNCHANGED <<sixvideoKind, sixvideoSource, copy, frames, sixvideoDisk, sixvideoEdits,
                       faults>>
        /\ sixvideoPc[c] = "compute"
    BY DEF SixVideo!Compute
  <1>3. w \in SixVideoStages BY <1>1 DEF SixVideoStages, SixVideo!Guarded, SixVideo!Ended
  <1>4. sixvideoPc \in [Calls -> SixVideoStages] BY <1>0 DEF SixVideo!TypeOK, SixVideoStages
  <1>5. sixvideoPc'[c] = w /\ sixvideoPc' \in [Calls -> SixVideoStages] BY <1>1, <1>3, <1>4
  <1>6. found' \in [Calls -> SixVideo!Records]
    <2>1. PICK pass \in [SixVideo!Families -> [SixVideo!Pairs -> {Intervals - 1, Intervals}]],
               finite \in BOOLEAN :
            found' = [found EXCEPT ![c] = IF SixVideo!CleansEqual(c)
                        THEN [passed |-> pass, finite |-> finite] ELSE @]
      BY DEF SixVideo!Compute
    <2>2. {Intervals - 1, Intervals} \subseteq 0 .. Intervals BY SixVideoConstants
    <2>3. [passed |-> pass, finite |-> finite] \in SixVideo!Records
      BY <2>2 DEF SixVideo!Records
    <2>4. found \in [Calls -> SixVideo!Records] BY <1>0 DEF SixVideo!TypeOK
    <2> QED BY <2>1, <2>3, <2>4
  <1>7. SixVideo!TypeOK' BY <1>0, <1>2, <1>5, <1>6 DEF SixVideo!TypeOK, SixVideoStages
  <1>8. ReadsValidated(c)' BY <1>0, <1>1, <1>2, <1>5 DEF ReadsValidated, Loose
  <1>9. PublishedBy(c)' BY <1>1, <1>2, <1>5 DEF PublishedBy, SixVideo!CleansEqual
  <1>10. Inside(c) /\ sixvideoPc[c] \notin AfterDecision BY <1>2 DEF Inside, AfterDecision
  <1> QED BY <1>1, <1>2, <1>3, <1>7, <1>8, <1>9, <1>10, QuietMoves

(* What a call writes, whole or torn, has the type of a file. *)
LEMMA FileTypes ==
  ASSUME NEW c \in Calls
  PROVE  /\ \A what \in SixVideo!Classes \cup {"records", "manifest", "failure"} :
              SixVideo!File(c, what) \in SixVideo!FileType
         /\ SixVideo!Torn(c) \in SixVideo!FileType
  BY DEF SixVideo!File, SixVideo!Torn, SixVideo!FileType

LEMMA ClassesAre == \A r : SixVideo!Classification(r) \in SixVideo!Classes
  BY DEF SixVideo!Classification, SixVideo!Classes

(* The three files, one after the other, and the temporary directory removed. *)
LEMMA WriteInv ==
  ASSUME SixVideoInv, NEW c \in Calls,
         SixVideo!WriteStats(c) \/ SixVideo!WriteDecision(c) \/ SixVideo!WriteManifest(c)
  PROVE  SixVideoInv'
  <1>0. SixVideo!TypeOK /\ ReadsValidated(c) /\ PublishedBy(c) BY DEF SixVideoInv
  <1>1. /\ UNCHANGED <<sixvideoKind, sixvideoSource, copy, frames, found, sixvideoEdits, faults>>
        /\ sixvideoPc[c] \in {"stats", "decision", "manifest"}
    BY DEF SixVideo!WriteStats, SixVideo!WriteDecision, SixVideo!WriteManifest
  <1>2. Inside(c) BY <1>1 DEF Inside
  <1>3. sixvideoPc \in [Calls -> SixVideoStages] /\ sixvideoDisk \in DiskType
    BY <1>0 DEF SixVideo!TypeOK, SixVideoStages, DiskType
  <1>4. found[c] \in SixVideo!Records BY <1>0 DEF SixVideo!TypeOK
  <1> DEFINE Written(w) ==
        /\ w \notin {"start", "mkdir", "refused"} /\ w \in SixVideoStages
        /\ sixvideoPc' = [sixvideoPc EXCEPT ![c] = w]
        /\ sixvideoDisk' \in DiskType
        /\ sixvideoDisk'.root = sixvideoDisk.root
        /\ sixvideoDisk'.stats = sixvideoDisk.stats \/ sixvideoDisk'.stats.by = c
        /\ sixvideoDisk'.decision = sixvideoDisk.decision \/ sixvideoDisk'.decision.by = c
        /\ sixvideoDisk'.manifest = sixvideoDisk.manifest \/ sixvideoDisk'.manifest.by = c
        /\ PublishedBy(c)' /\ Decided' /\ w # "read"
  <1>5. ASSUME SixVideo!WriteStats(c) PROVE \E w : Written(w)
    <2>1. /\ sixvideoPc[c] = "stats" /\ sixvideoPc' = [sixvideoPc EXCEPT ![c] = "decision"]
          /\ sixvideoDisk' = [sixvideoDisk EXCEPT !.stats = SixVideo!File(c, "records"),
                                                !.rows = found[c]]
      BY <1>5 DEF SixVideo!WriteStats, SixVideo!Become
    <2>2. /\ sixvideoDisk' \in DiskType /\ sixvideoDisk'.root = sixvideoDisk.root
          /\ sixvideoDisk'.stats = SixVideo!File(c, "records")
          /\ sixvideoDisk'.rows = found[c]
          /\ sixvideoDisk'.decision = sixvideoDisk.decision
          /\ sixvideoDisk'.manifest = sixvideoDisk.manifest
      BY <2>1, <1>3, <1>4, FileTypes DEF DiskType
    <2>3. sixvideoPc'[c] = "decision" BY <2>1, <1>3
    <2>4. PublishedBy(c)'
      BY <1>0, <1>1, <2>1, <2>2, <2>3 DEF PublishedBy, SixVideo!CleansEqual
    <2>5. sixvideoDisk.decision.says \notin SixVideo!Classes
      BY <1>2, <2>1, CandidateIsOfCall DEF AfterDecision
    <2>6. Decided' BY <2>2, <2>5 DEF Decided
    <2>7. Written("decision")
      BY <2>1, <2>2, <2>4, <2>6 DEF SixVideo!File, SixVideoStages, SixVideo!Guarded
    <2> HIDE DEF Written
    <2> QED BY <2>7
  <1>6. ASSUME SixVideo!WriteDecision(c) PROVE \E w : Written(w)
    <2> DEFINE class == SixVideo!Classification(found[c])
    <2>1. /\ sixvideoPc[c] = "decision" /\ sixvideoPc' = [sixvideoPc EXCEPT ![c] = "manifest"]
          /\ sixvideoDisk' = [sixvideoDisk EXCEPT !.decision = SixVideo!File(c, class)]
      BY <1>6 DEF SixVideo!WriteDecision, SixVideo!Become
    <2>2. class \in SixVideo!Classes BY ClassesAre
    <2>3. /\ sixvideoDisk' \in DiskType /\ sixvideoDisk'.root = sixvideoDisk.root
          /\ sixvideoDisk'.stats = sixvideoDisk.stats
          /\ sixvideoDisk'.rows = sixvideoDisk.rows
          /\ sixvideoDisk'.decision = SixVideo!File(c, class)
          /\ sixvideoDisk'.manifest = sixvideoDisk.manifest
      BY <2>1, <2>2, <1>3, FileTypes DEF DiskType
    <2>4. sixvideoPc'[c] = "manifest" BY <2>1, <1>3
    <2>5. PublishedBy(c)'
      BY <1>0, <1>1, <2>1, <2>3, <2>4 DEF PublishedBy, SixVideo!CleansEqual
    <2>6. /\ sixvideoDisk'.stats = SixVideo!File(c, "records")
          /\ sixvideoDisk'.rows = found[c] /\ SixVideo!CleansEqual(c)
      BY <1>0, <2>1, <2>3 DEF PublishedBy
    <2>7. class # "indeterminate" => (class = "salvage" <=>
            \E f \in SixVideo!Families : \A p \in SixVideo!Pairs :
               found[c].passed[f][p] = Intervals)
      BY DEF SixVideo!Classification, SixVideo!Stable
    <2>8. SixVideo!CandidateIsBacked'
      BY <1>1, <2>3, <2>6, <2>7
      DEF SixVideo!CandidateIsBacked, SixVideo!File, SixVideo!CleansEqual
    <2>9. Decided' BY <2>3, <2>4, <2>8 DEF Decided, AfterDecision, SixVideo!File
    <2>10. Written("manifest")
      BY <2>1, <2>3, <2>5, <2>9 DEF SixVideo!File, SixVideoStages, SixVideo!Guarded
    <2> HIDE DEF Written
    <2> QED BY <2>10
  <1>7. ASSUME SixVideo!WriteManifest(c) PROVE \E w : Written(w)
    <2>1. PICK w \in {"cleanup", "returned"} :
            /\ sixvideoPc[c] = "manifest" /\ sixvideoPc' = [sixvideoPc EXCEPT ![c] = w]
            /\ sixvideoDisk' = [sixvideoDisk EXCEPT !.manifest = SixVideo!File(c, "manifest")]
      BY <1>7 DEF SixVideo!WriteManifest, SixVideo!Become
    <2>2. /\ sixvideoDisk' \in DiskType /\ sixvideoDisk'.root = sixvideoDisk.root
          /\ sixvideoDisk'.stats = sixvideoDisk.stats
          /\ sixvideoDisk'.rows = sixvideoDisk.rows
          /\ sixvideoDisk'.decision = sixvideoDisk.decision
          /\ sixvideoDisk'.manifest = SixVideo!File(c, "manifest")
      BY <2>1, <1>3, FileTypes DEF DiskType
    <2>3. sixvideoPc'[c] = w BY <2>1, <1>3
    <2>4. PublishedBy(c)'
      BY <1>0, <1>1, <2>1, <2>2, <2>3 DEF PublishedBy, SixVideo!CleansEqual
    <2>5. Decided'
      <3>1. SUFFICES ASSUME sixvideoDisk.decision.says \in SixVideo!Classes PROVE Decided'
        BY <2>2 DEF Decided
      <3>2. sixvideoDisk.decision.by = c BY <3>1, <1>2, CandidateIsOfCall
      <3>3. SixVideo!CandidateIsBacked BY <3>1 DEF SixVideoInv, Decided
      <3>4. SixVideo!CandidateIsBacked' BY <3>3, <1>1, <2>2 DEF SixVideo!CandidateIsBacked
      <3> QED BY <2>1, <2>2, <2>3, <3>2, <3>4 DEF Decided, AfterDecision
    <2>6. w \in SixVideoStages /\ w \notin {"start", "mkdir", "refused", "read"}
      BY <2>1 DEF SixVideoStages, SixVideo!Guarded, SixVideo!Ended
    <2>7. Written(w) BY <2>1, <2>2, <2>4, <2>5, <2>6 DEF SixVideo!File
    <2> HIDE DEF Written
    <2> QED BY <2>7
  <1> HIDE DEF Written
  <1>8. PICK w : Written(w) BY <1>5, <1>6, <1>7
  <1> USE DEF Written
  <1>9. sixvideoPc'[c] = w /\ sixvideoPc' \in [Calls -> SixVideoStages] BY <1>3, <1>8
  <1>10. SixVideo!TypeOK'
    BY <1>0, <1>1, <1>8, <1>9 DEF SixVideo!TypeOK, SixVideoStages, DiskType
  <1>11. ReadsValidated(c)' BY <1>0, <1>1, <1>8, <1>9 DEF ReadsValidated, Loose
  <1> HIDE DEF Written
  <1>12. /\ w \notin {"start", "mkdir", "refused"} /\ w \in SixVideoStages
         /\ sixvideoPc' = [sixvideoPc EXCEPT ![c] = w]
         /\ sixvideoDisk'.root = sixvideoDisk.root
         /\ sixvideoDisk'.stats = sixvideoDisk.stats \/ sixvideoDisk'.stats.by = c
         /\ sixvideoDisk'.decision = sixvideoDisk.decision \/ sixvideoDisk'.decision.by = c
         /\ sixvideoDisk'.manifest = sixvideoDisk.manifest \/ sixvideoDisk'.manifest.by = c
         /\ PublishedBy(c)' /\ Decided'
    BY <1>8 DEF Written
  <1> QED BY <1>1, <1>2, <1>10, <1>11, <1>12, InsideMoves

LEMMA CleanupInv == ASSUME SixVideoInv, NEW c \in Calls, SixVideo!Cleanup(c) PROVE SixVideoInv'
  <1>0. SixVideo!TypeOK /\ ReadsValidated(c) /\ PublishedBy(c) BY DEF SixVideoInv
  <1>1. /\ sixvideoPc[c] = "cleanup" /\ sixvideoPc' = [sixvideoPc EXCEPT ![c] = "returned"]
        /\ copy' = [copy EXCEPT ![c] = [p \in SixVideo!Parts |-> SixVideo!Nothing]]
        /\ UNCHANGED <<sixvideoKind, sixvideoSource, frames, found, sixvideoDisk, sixvideoEdits,
                       faults>>
    BY DEF SixVideo!Cleanup, SixVideo!Become
  <1>2. sixvideoPc \in [Calls -> SixVideoStages] BY <1>0 DEF SixVideo!TypeOK, SixVideoStages
  <1>3. "returned" \in SixVideoStages BY DEF SixVideoStages, SixVideo!Ended
  <1>4. sixvideoPc'[c] = "returned" /\ sixvideoPc' \in [Calls -> SixVideoStages]
    BY <1>1, <1>2, <1>3
  <1>5. SixVideo!TypeOK' BY <1>0, <1>1, <1>4 DEF SixVideo!TypeOK, SixVideoStages
  <1>6. \A d \in Calls : d # c => copy'[d] = copy[d] BY <1>0, <1>1 DEF SixVideo!TypeOK
  <1>7. ReadsValidated(c)' BY <1>0, <1>1, <1>4 DEF ReadsValidated, Loose
  <1>8. PublishedBy(c)' BY <1>0, <1>1, <1>4 DEF PublishedBy, SixVideo!CleansEqual
  <1>9. Inside(c) /\ "returned" \in AfterDecision BY <1>1 DEF Inside, AfterDecision
  <1> QED BY <1>1, <1>3, <1>5, <1>6, <1>7, <1>8, <1>9, QuietMoves

(* Whatever an operation that stops leaves behind, it is no other candidate. *)
LEMMA LeftBehind ==
  ASSUME SixVideoInv, NEW c \in Calls, Inside(c), sixvideoDisk' = SixVideo!Left(c),
         UNCHANGED <<frames, found>>
  PROVE  /\ sixvideoDisk' \in DiskType /\ sixvideoDisk'.root = sixvideoDisk.root
         /\ sixvideoDisk'.stats = sixvideoDisk.stats \/ sixvideoDisk'.stats.by = c
         /\ sixvideoDisk'.decision = sixvideoDisk.decision \/ sixvideoDisk'.decision.by = c
         /\ sixvideoDisk'.manifest = sixvideoDisk.manifest \/ sixvideoDisk'.manifest.by = c
         /\ sixvideoDisk'.decision.says \in SixVideo!Classes =>
              /\ sixvideoDisk'.decision.by = c /\ sixvideoPc[c] \in AfterDecision
              /\ SixVideo!CandidateIsBacked'
  <1>0. sixvideoDisk \in DiskType BY DEF SixVideoInv, SixVideo!TypeOK, DiskType
  <1>1. /\ SixVideo!Torn(c) \in SixVideo!FileType /\ SixVideo!Torn(c).by = c
        /\ SixVideo!Torn(c).says \notin SixVideo!Classes
    BY FileTypes DEF SixVideo!Torn, SixVideo!Nothing, SixVideo!Classes
  <1>2. sixvideoDisk.decision.says \in SixVideo!Classes =>
          /\ sixvideoDisk.decision.by = c /\ sixvideoPc[c] \in AfterDecision
          /\ SixVideo!CandidateIsBacked
    BY CandidateIsOfCall DEF SixVideoInv, Decided
  <1> DEFINE Kept(stats, dec, man) ==
        sixvideoDisk' \in DiskType /\ sixvideoDisk'.root = sixvideoDisk.root
        /\ sixvideoDisk'.rows = sixvideoDisk.rows /\ sixvideoDisk'.stats = stats
        /\ sixvideoDisk'.decision = dec /\ sixvideoDisk'.manifest = man
  <1>3. CASE sixvideoPc[c] = "stats"
    <2>1. sixvideoDisk' = [sixvideoDisk EXCEPT !.stats = SixVideo!Torn(c)]
      BY <1>3 DEF SixVideo!Left
    <2>2. Kept(SixVideo!Torn(c), sixvideoDisk.decision, sixvideoDisk.manifest)
      BY <2>1, <1>0, <1>1 DEF DiskType
    <2>3. sixvideoDisk.decision.says \notin SixVideo!Classes BY <1>2, <1>3 DEF AfterDecision
    <2> QED BY <1>1, <2>2, <2>3
  <1>4. CASE sixvideoPc[c] \in {"decision", "failing"}
    <2>1. sixvideoDisk' = [sixvideoDisk EXCEPT !.decision = SixVideo!Torn(c)]
      BY <1>4 DEF SixVideo!Left
    <2>2. Kept(sixvideoDisk.stats, SixVideo!Torn(c), sixvideoDisk.manifest)
      BY <2>1, <1>0, <1>1 DEF DiskType
    <2> QED BY <1>1, <2>2
  <1>5. CASE sixvideoPc[c] = "manifest"
    <2>1. sixvideoDisk' = [sixvideoDisk EXCEPT !.manifest = SixVideo!Torn(c)]
      BY <1>5 DEF SixVideo!Left
    <2>2. Kept(sixvideoDisk.stats, sixvideoDisk.decision, SixVideo!Torn(c))
      BY <2>1, <1>0, <1>1 DEF DiskType
    <2>3. sixvideoDisk.decision.says \in SixVideo!Classes => SixVideo!CandidateIsBacked'
      BY <1>2, <2>2 DEF SixVideo!CandidateIsBacked
    <2> QED BY <1>1, <1>2, <2>2, <2>3
  <1>6. CASE sixvideoPc[c] \notin {"stats", "decision", "manifest", "failing"}
    <2>1. sixvideoDisk' = sixvideoDisk BY <1>6 DEF SixVideo!Left
    <2>2. sixvideoDisk.decision.says \in SixVideo!Classes => SixVideo!CandidateIsBacked'
      BY <1>2, <2>1 DEF SixVideo!CandidateIsBacked
    <2> QED BY <1>0, <1>2, <2>1, <2>2
  <1> QED BY <1>3, <1>4, <1>5, <1>6

(* An operation fails, or the process dies. *)
LEMMA FaultInv ==
  ASSUME SixVideoInv, NEW c \in Calls, SixVideo!Fails(c) \/ SixVideo!Dies(c) PROVE SixVideoInv'
  <1>0. SixVideo!TypeOK /\ ReadsValidated(c) BY DEF SixVideoInv
  <1>1. PICK w \in {"failing", "killed"} : sixvideoPc' = [sixvideoPc EXCEPT ![c] = w]
    BY DEF SixVideo!Fails, SixVideo!Dies, SixVideo!Become
  <1>2. /\ sixvideoPc[c] \in SixVideo!Guarded \cup {"failing"} /\ faults < SixVideoFaults
        /\ faults' = faults + 1 /\ sixvideoDisk' = SixVideo!Left(c)
        /\ UNCHANGED <<sixvideoKind, sixvideoSource, copy, frames, found, sixvideoEdits>>
    BY DEF SixVideo!Fails, SixVideo!Dies
  <1>3. Inside(c) BY <1>2 DEF Inside, SixVideo!Guarded
  <1>4. w \in SixVideoStages /\ w \notin {"start", "mkdir", "refused"}
    BY <1>1 DEF SixVideoStages, SixVideo!Ended
  <1>5. sixvideoPc \in [Calls -> SixVideoStages] BY <1>0 DEF SixVideo!TypeOK, SixVideoStages
  <1>6. sixvideoPc'[c] = w /\ sixvideoPc' \in [Calls -> SixVideoStages] BY <1>1, <1>4, <1>5
  <1>7. faults' \in 0 .. SixVideoFaults
    <2>1. faults \in 0 .. SixVideoFaults BY <1>0 DEF SixVideo!TypeOK
    <2> QED BY <1>2, <2>1, SixVideoConstants
  <1>8. /\ sixvideoDisk' \in DiskType /\ sixvideoDisk'.root = sixvideoDisk.root
        /\ sixvideoDisk'.stats = sixvideoDisk.stats \/ sixvideoDisk'.stats.by = c
        /\ sixvideoDisk'.decision = sixvideoDisk.decision \/ sixvideoDisk'.decision.by = c
        /\ sixvideoDisk'.manifest = sixvideoDisk.manifest \/ sixvideoDisk'.manifest.by = c
        /\ sixvideoDisk'.decision.says \in SixVideo!Classes =>
             sixvideoDisk'.decision.by = c /\ SixVideo!CandidateIsBacked'
    BY <1>2, <1>3, LeftBehind
  <1>9. SixVideo!TypeOK'
    BY <1>0, <1>2, <1>6, <1>7, <1>8 DEF SixVideo!TypeOK, SixVideoStages, DiskType
  <1>10. ReadsValidated(c)' BY <1>0, <1>1, <1>2, <1>6 DEF ReadsValidated, Loose
  <1>11. PublishedBy(c)' BY <1>1, <1>6 DEF PublishedBy
  <1>12. Decided' BY <1>1, <1>6, <1>8 DEF Decided, AfterDecision
  <1> QED BY <1>1, <1>2, <1>3, <1>4, <1>8, <1>9, <1>10, <1>11, <1>12, InsideMoves

(* The failure is written over whatever the decision said. *)
LEMMA RecordInv ==
  ASSUME SixVideoInv, NEW c \in Calls, SixVideo!RecordFailure(c) PROVE SixVideoInv'
  <1>0. SixVideo!TypeOK /\ ReadsValidated(c) BY DEF SixVideoInv
  <1>1. /\ sixvideoPc[c] = "failing" /\ sixvideoPc' = [sixvideoPc EXCEPT ![c] = "raised"]
        /\ sixvideoDisk' = [sixvideoDisk EXCEPT !.decision = SixVideo!File(c, "failure")]
        /\ UNCHANGED <<sixvideoKind, sixvideoSource, copy, frames, found, sixvideoEdits, faults>>
    BY DEF SixVideo!RecordFailure, SixVideo!Become
  <1>2. Inside(c) BY <1>1 DEF Inside
  <1>3. sixvideoPc \in [Calls -> SixVideoStages] /\ sixvideoDisk \in DiskType
    BY <1>0 DEF SixVideo!TypeOK, SixVideoStages, DiskType
  <1>4. "raised" \in SixVideoStages BY DEF SixVideoStages, SixVideo!Ended
  <1>5. sixvideoPc'[c] = "raised" /\ sixvideoPc' \in [Calls -> SixVideoStages]
    BY <1>1, <1>3, <1>4
  <1>6. /\ sixvideoDisk' \in DiskType /\ sixvideoDisk'.root = sixvideoDisk.root
        /\ sixvideoDisk'.stats = sixvideoDisk.stats
        /\ sixvideoDisk'.decision = SixVideo!File(c, "failure")
        /\ sixvideoDisk'.manifest = sixvideoDisk.manifest
    BY <1>1, <1>3, FileTypes DEF DiskType
  <1>7. SixVideo!TypeOK' BY <1>0, <1>1, <1>5, <1>6 DEF SixVideo!TypeOK, SixVideoStages, DiskType
  <1>8. ReadsValidated(c)' BY <1>0, <1>1, <1>5 DEF ReadsValidated, Loose
  <1>9. PublishedBy(c)' BY <1>5, <1>6 DEF PublishedBy
  <1>10. Decided' BY <1>6 DEF Decided, SixVideo!File, SixVideo!Classes
  <1>11. sixvideoDisk'.decision.by = c BY <1>6 DEF SixVideo!File
  <1> QED BY <1>1, <1>2, <1>4, <1>6, <1>7, <1>8, <1>9, <1>10, <1>11, InsideMoves

(* An edit of the source: a directory is read in place, a ZIP was unpacked. *)
LEMMA EditInv ==
  ASSUME SixVideoInv, NEW p \in SixVideo!Parts, SixVideo!Edit(p) PROVE SixVideoInv'
  <1>0. /\ SixVideo!TypeOK /\ OneInside /\ FilesAreOfCall /\ Decided
        /\ \A d \in Calls : ReadsValidated(d) /\ PublishedBy(d)
    BY DEF SixVideoInv
  <1>1. /\ sixvideoEdits < SixVideoEdits /\ sixvideoEdits' = sixvideoEdits + 1
        /\ sixvideoSource' = [sixvideoSource EXCEPT ![p] =
                                IF @ = "frozen" THEN "other" ELSE "frozen"]
        /\ UNCHANGED <<sixvideoKind, copy, sixvideoPc, frames, found, sixvideoDisk, faults>>
    BY DEF SixVideo!Edit
  <1>2. sixvideoEdits \in 0 .. SixVideoEdits BY <1>0 DEF SixVideo!TypeOK
  <1>3. sixvideoEdits' \in 0 .. SixVideoEdits /\ sixvideoEdits' > 0
    BY <1>1, <1>2, SixVideoConstants
  <1>4. sixvideoSource' \in [SixVideo!Parts -> SixVideo!Bytes]
    BY <1>0, <1>1 DEF SixVideo!TypeOK, SixVideo!Bytes
  <1>5. SixVideo!TypeOK' BY <1>0, <1>1, <1>3, <1>4 DEF SixVideo!TypeOK
  <1>6. OneInside' BY <1>0, <1>1 DEF OneInside, Inside
  <1>7. FilesAreOfCall' BY <1>0, <1>1 DEF FilesAreOfCall, OfCall, Inside
  <1>8. Decided' BY <1>0, <1>1 DEF Decided, SixVideo!CandidateIsBacked
  <1>9. ASSUME NEW d \in Calls PROVE ReadsValidated(d)' /\ PublishedBy(d)'
    <2>1. ReadsValidated(d) /\ PublishedBy(d) BY <1>0
    <2>2. PublishedBy(d)' BY <1>1, <2>1 DEF PublishedBy, SixVideo!CleansEqual
    <2>3. CASE sixvideoKind = "directory"
      <3>1. Loose' BY <2>3, <1>1, <1>3 DEF Loose
      <3> QED BY <2>2, <3>1 DEF ReadsValidated
    <2>4. CASE sixvideoKind = "zip"
      <3>1. ~Loose BY <2>4 DEF Loose
      <3>2. SixVideo!View(d)' = SixVideo!View(d) BY <2>4, <1>1 DEF SixVideo!View
      <3> QED BY <1>1, <2>1, <2>2, <3>1, <3>2 DEF ReadsValidated
    <2> QED BY <2>3, <2>4, <1>0 DEF SixVideo!TypeOK
  <1>10. \A d \in Calls : ReadsValidated(d)' /\ PublishedBy(d)' BY <1>9
  <1> QED BY <1>5, <1>6, <1>7, <1>8, <1>10 DEF SixVideoInv

(* Every step of a call keeps the invariant. *)
LEMMA NextSixVideoInv == SixVideoInv /\ [SixVideo!Next]_(SixVideo!vars) => SixVideoInv'
  <1> SUFFICES ASSUME SixVideoInv, [SixVideo!Next]_(SixVideo!vars) PROVE SixVideoInv'
    OBVIOUS
  <1>1. ASSUME NEW c \in Calls, SixVideo!Run(c) \/ SixVideo!Fails(c) \/ SixVideo!Dies(c)
        PROVE  SixVideoInv'
    BY <1>1, OutsideInv, SourceInv, FramesInv, ComputeInv, WriteInv, CleanupInv, RecordInv,
       FaultInv
    DEF SixVideo!Run
  <1>2. CASE UNCHANGED SixVideo!vars
    <2>1. UNCHANGED <<sixvideoKind, sixvideoSource, copy, sixvideoPc, frames, found,
                      sixvideoDisk, sixvideoEdits, faults>>
      BY <1>2 DEF SixVideo!vars
    <2>2. SixVideo!TypeOK' BY <2>1 DEF SixVideoInv, SixVideo!TypeOK
    <2>3. (OneInside /\ FilesAreOfCall /\ Decided)'
      BY <2>1
      DEF SixVideoInv, OneInside, FilesAreOfCall, Decided, OfCall, Inside,
          SixVideo!CandidateIsBacked
    <2>4. \A d \in Calls : (ReadsValidated(d) /\ PublishedBy(d))'
      BY <2>1 DEF SixVideoInv, ReadsValidated, PublishedBy, Loose, SixVideo!View,
                  SixVideo!CleansEqual
    <2> QED BY <2>2, <2>3, <2>4 DEF SixVideoInv
  <1> QED BY <1>1, <1>2, EditInv DEF SixVideo!Next

(* The promises of the calls, from their invariant. *)
LEMMA SixVideoIsAsPromised ==
  SixVideoInv => /\ SixVideo!TypeOK /\ SixVideo!OneCallPerRoot /\ SixVideo!AnalysedIsValidated
                 /\ SixVideo!CandidateIsBacked /\ SixVideo!OutcomeIsOnDisk
  <1> SUFFICES ASSUME SixVideoInv
               PROVE  /\ SixVideo!TypeOK /\ SixVideo!OneCallPerRoot
                      /\ SixVideo!AnalysedIsValidated
                      /\ SixVideo!CandidateIsBacked /\ SixVideo!OutcomeIsOnDisk
    OBVIOUS
  <1>1. SixVideo!TypeOK /\ OneInside /\ FilesAreOfCall BY DEF SixVideoInv
  <1>2. SixVideo!AnalysedIsValidated
    BY DEF SixVideoInv, ReadsValidated, Loose, SixVideo!AnalysedIsValidated
  <1>3. SixVideo!CandidateIsBacked BY DEF SixVideoInv, Decided, SixVideo!CandidateIsBacked
  <1>4. SixVideo!OutcomeIsOnDisk
    <2>1. ASSUME NEW c \in Calls, sixvideoPc[c] = "returned"
          PROVE  /\ sixvideoDisk.stats = SixVideo!File(c, "records")
                 /\ sixvideoDisk.decision =
                      SixVideo!File(c, SixVideo!Classification(found[c]))
                 /\ sixvideoDisk.manifest = SixVideo!File(c, "manifest")
      BY <2>1 DEF SixVideoInv, PublishedBy
    <2>2. ASSUME NEW c \in Calls, sixvideoPc[c] = "raised"
          PROVE  sixvideoDisk.decision = SixVideo!File(c, "failure")
      BY <2>2 DEF SixVideoInv, PublishedBy
    <2>3. \A c, w : /\ SixVideo!File(c, w).by = c /\ SixVideo!File(c, w).whole
                    /\ SixVideo!File(c, w).says = w
      BY DEF SixVideo!File
    <2>4. ASSUME NEW c \in Calls, sixvideoPc[c] = "returned"
          PROVE  /\ sixvideoDisk.decision.by = c
                 /\ sixvideoDisk.decision.says = SixVideo!Classification(found[c])
                 /\ sixvideoDisk.stats.whole
                 /\ sixvideoDisk.manifest.by = c /\ sixvideoDisk.manifest.whole
      BY <2>1, <2>3, <2>4
    <2>5. ASSUME NEW c \in Calls, sixvideoPc[c] = "raised"
          PROVE  sixvideoDisk.decision.by = c /\ sixvideoDisk.decision.says = "failure"
      BY <2>2, <2>3, <2>5
    <2> QED BY <2>4, <2>5 DEF SixVideo!OutcomeIsOnDisk
  <1>5. SixVideo!OneCallPerRoot
    <2> DEFINE S == {sixvideoDisk.stats.by, sixvideoDisk.decision.by, sixvideoDisk.manifest.by}
                      \ {"nobody"}
    <2>1. \A c \in S : c \in Calls /\ Inside(c)
      BY <1>1 DEF SixVideo!TypeOK, SixVideo!FileType, FilesAreOfCall, OfCall
    <2>2. \A c, d \in S : c = d BY <2>1, <1>1 DEF OneInside
    <2>3. Cardinality(S) <= 1
      <3>1. CASE S = {} BY <3>1, FS_EmptySet
      <3>2. CASE S # {}
        <4>1. PICK c : c \in S BY <3>2
        <4>2. S = {c} BY <4>1, <2>2
        <4>3. Cardinality({c}) = 1 BY FS_Singleton
        <4> HIDE DEF S
        <4> QED BY <4>2, <4>3
      <3> QED BY <3>1, <3>2
    <2>4. SixVideo!Cardinality(S) = Cardinality(S) BY DEF SixVideo!Cardinality, Cardinality
    <2> HIDE DEF S
    <2>5. SixVideo!Cardinality(S) <= 1 BY <2>3, <2>4
    <2> QED BY <2>5 DEF SixVideo!OneCallPerRoot, S
  <1> QED BY <1>1, <1>2, <1>3, <1>4, <1>5

-----------------------------------------------------------------------------
(* The contracts and the offline diagnostics, for all of their sizes: a run    *)
(* holds a configuration that means the frozen one, whatever is edited; a      *)
(* classification stands on what it speaks of; both ways to a norm agree and a *)
(* ready response tells the outputs apart, in every dimension; an output root  *)
(* is of one call, whose outcome is of what it validated.                      *)
THEOREM VerdictsStayBound == AllSpec => []VerdictsAreBound
  <1>1. Start => ContractInv /\ CauseInv /\ ResponseInv /\ SixVideoInv
    BY ContractStarts, CauseStarts, ResponseStarts, SixVideoStarts
  <1>2. /\ ContractInv /\ CauseInv /\ ResponseInv /\ SixVideoInv
        /\ [SomeStep]_allVars
        => ContractInv' /\ CauseInv' /\ ResponseInv' /\ SixVideoInv'
    BY ContractProjects, CauseProjects, ResponseProjects, SixVideoProjects,
       NextContractInv, NextCauseInv, NextResponseInv, NextSixVideoInv
  <1>3. ContractInv /\ CauseInv /\ ResponseInv /\ SixVideoInv => VerdictsAreBound
    BY ContractIsAsPromised, CauseIsAsPromised, ResponseIsAsPromised, SixVideoIsAsPromised
    DEF VerdictsAreBound
  <1> QED BY <1>1, <1>2, <1>3, PTL DEF AllSpec

(* No step gives another verdict on the same outputs reversed, reordered or    *)
(* shifted, in every dimension.                                                *)
LEMMA VerdictsAreOfCarrier == AllSpec => Response!VerdictIsOfCarrier
  <1> DEFINE same ==
        /\ Response!SignedReady(Response!Direct(out')) = Response!SignedReady(Response!Direct(out))
        /\ Response!GateZero(out', predicted') = Response!GateZero(out, predicted)
  <1>1. ResponseInv /\ [SomeStep]_allVars => [same]_(Response!vars)
    BY ResponseProjects, NextUnnoticed DEF Unnoticed
  <1>2. Start => ResponseInv BY ResponseStarts
  <1>3. ResponseInv /\ [SomeStep]_allVars => ResponseInv'
    BY ResponseProjects, NextResponseInv
  <1> QED BY <1>1, <1>2, <1>3, PTL DEF AllSpec, Response!VerdictIsOfCarrier

(* What a step of the mechanisms may not do: swallow a foreign exception, or   *)
(* give another verdict on the same outputs changed in what no gate is about.  *)
THEOREM StepsStaySafe == AllSpec => StepsAreSafe
  BY ForeignErrorsAreRaised, VerdictsAreOfCarrier DEF StepsAreSafe

=============================================================================
