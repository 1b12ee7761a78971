------------------------- MODULE PatchRelationProbe -------------------------
(*****************************************************************************)
(* The Gate 0 run of the patch-relation carrier                              *)
(* (experiments/.../patch_relation_gate0_construction.py): one Wan pipeline  *)
(* is loaded and generates a video per probe of the plan.  While a probe     *)
(* runs, ScopedPatchRelationWanProbeAdapter has put its own methods in       *)
(* place of transformer.forward and scheduler.step; each of its forwards     *)
(* puts, for its own duration, a transform in place of rope.forward          *)
(* (ScopedWanRopeOutputAdapter).  At each scheduler step of a signed probe   *)
(* the largest common phase is searched at which both signs stay within the  *)
(* norm and energy budgets.  Python objects, and so everything that is       *)
(* patched here, are shared by all the probes of the run.                    *)
(*                                                                           *)
(* Any operation may raise, those that restore included.                     *)
(*****************************************************************************)
EXTENDS Integers, Sequences

CONSTANTS
    Plan,           \* the signed coefficient of each probe, in order
    Steps,          \* scheduler steps of one video (8 in the code)
    BudgetNum, BudgetDen,  \* FLOW_ENERGY_BUDGET_RATIO
    Reference,      \* energies a base state update may have
    Energy,         \* energies a controlled state update may have
    FullScale,      \* the phase scales 1..FullScale, FullScale standing for 1.0
    MaxAttempts     \* PHASE_PROJECTION_MAX_ATTEMPTS

ASSUME PlanAssumption == Plan \in Seq({-1, 0, 1}) /\ Plan # <<>>
ASSUME BoundsAssumption ==
    /\ Steps \in Nat \ {0}
    /\ BudgetNum \in Nat /\ BudgetDen \in Nat \ {0}
    /\ Reference \subseteq Nat /\ Energy \subseteq Nat \ {0}
    /\ FullScale \in Nat \ {0} /\ MaxAttempts \in Nat \ {0}

VARIABLES
    pc,         \* where the run is
    probe,      \* index of the current probe in Plan
    host,       \* slots of transformer and scheduler that hold our value
    rope,       \* slots of transformer.rope that hold our value
    captured,   \* slots that held our value when the originals were captured
    raised,     \* an exception is on its way out
    calls,      \* _transformer_calls
    sched,      \* _scheduler_calls
    index,      \* the scheduler's own step_index
    pending,    \* _pending_step: the step it was measured for, or None
    search,     \* the phase projection under way
    spent,      \* cumulative reference and control energy of the probe
    consumed,   \* what the scheduler was given, step by step
    completed,  \* probes whose scope said it completed
    files,      \* rows of the three record files
    decision,   \* the decision file
    manifest    \* the manifest file

vars == <<pc, probe, host, rope, captured, raised, calls, sched, index, pending,
          search, spent, consumed, completed, files, decision, manifest>>

None == -1
HostSlots == {"transformer active", "scheduler active", "forward", "step"}
RopeSlots == {"active", "forward"}
Sign == Plan[probe]
NoSearch == [attempt |-> 0, scale |-> 0, reference |-> 0, energy |-> 0,
             feasible |-> {}]

Init ==
    /\ pc = "enter" /\ probe = 1 /\ host = {} /\ rope = {} /\ captured = {}
    /\ raised = FALSE
    /\ calls = 0 /\ sched = 0 /\ index = 0 /\ pending = None
    /\ search = NoSearch /\ spent = [reference |-> 0, control |-> 0]
    /\ consumed = <<>> /\ completed = 0
    /\ files = [generation |-> 0, step |-> 0, feature |-> 0]
    /\ decision = "none" /\ manifest = "none"

----------------------------------------------------------------------------
(* ScopedPatchRelationWanProbeAdapter.__enter__                             *)

Order == <<"transformer active", "scheduler active", "forward", "step">>
Installed(n) == {Order[i] : i \in 1 .. n}

Fresh ==
    /\ calls' = 0 /\ sched' = 0 /\ pending' = None /\ search' = NoSearch
    /\ spent' = [reference |-> 0, control |-> 0] /\ consumed' = <<>>

Nested == {"transformer active", "scheduler active"} \cap host # {}

\* A leftover flag, or a cache that is on, refuses the scope.
EnterRefuses ==
    /\ pc = "enter"
    /\ Fresh
    /\ raised' = TRUE /\ pc' = "failed"
    /\ UNCHANGED <<probe, host, rope, captured, index, completed, files, decision, manifest>>

\* pipe() then starts with set_timesteps, which resets the step index.
Enter ==
    /\ pc = "enter" /\ ~Nested
    /\ Fresh
    /\ captured' = host /\ host' = HostSlots
    /\ index' = 0 /\ pc' = "pipe"
    /\ UNCHANGED <<probe, rope, raised, completed, files, decision, manifest>>

\* The (n+1)-th assignment raises; what was installed is taken back, except
\* where taking back raises too.
EnterFails ==
    /\ pc = "enter" /\ ~Nested
    /\ Fresh
    /\ captured' = host
    /\ \E n \in 0 .. 3 : \E stuck \in SUBSET Installed(n) :
         host' = (host \ Installed(n)) \cup stuck
    /\ raised' = TRUE /\ pc' = "failed"
    /\ UNCHANGED <<probe, rope, index, completed, files, decision, manifest>>

----------------------------------------------------------------------------
(* One forward of the transformer under its own rope scope.                 *)

\* What the scope may leave of the rope when it does not succeed: the active
\* flag goes only after forward was restored, both in one try.
RopeLeftovers == {{}, {"active"}, RopeSlots}

ForwardSucceeds == "active" \notin rope /\ rope' = {}
ForwardRaises == IF "active" \in rope THEN rope' = rope ELSE rope' \in RopeLeftovers

PipeFails ==
    /\ raised' = TRUE /\ pc' = "exit"
    /\ UNCHANGED <<probe, host, captured, calls, sched, index, pending, search, spent,
                   consumed, completed, files, decision, manifest>>

\* The pipeline calls transformer.forward: base and controlled forwards run,
\* and the second call of a step leaves a pending measurement.
ExternalForward ==
    /\ pc = "pipe" /\ calls < 2 * Steps
    /\ ForwardSucceeds
    /\ calls' = calls + 1
    /\ pending' = IF calls % 2 = 1 THEN calls \div 2 ELSE pending
    /\ UNCHANGED <<pc, probe, host, captured, raised, sched, index, search, spent,
                   consumed, completed, files, decision, manifest>>

ExternalForwardFails == pc = "pipe" /\ ForwardRaises /\ PipeFails

\* The pipeline raises by itself.
PipelineRaises == pc = "pipe" /\ rope' = rope /\ PipeFails

\* The pipeline returns, having made all its calls or not.
PipelineReturns ==
    /\ pc = "pipe"
    /\ pc' = "exit"
    /\ UNCHANGED <<probe, host, rope, captured, raised, calls, sched, index, pending,
                   search, spent, consumed, completed, files, decision, manifest>>

----------------------------------------------------------------------------
(* _wrapped_scheduler_step                                                  *)

StepAllowed == sched < Steps /\ pending # None /\ index = sched

SchedulerStepRefuses == pc = "pipe" /\ ~StepAllowed /\ rope' = rope /\ PipeFails

\* A clean probe's controlled velocity is the base velocity.
StartCleanStep ==
    /\ pc = "pipe" /\ StepAllowed /\ Sign = 0
    /\ \E r \in Reference :
         search' = [NoSearch EXCEPT !.reference = r]
    /\ pc' = "consume"
    /\ UNCHANGED <<probe, host, rope, captured, raised, calls, sched, index, pending,
                   spent, consumed, completed, files, decision, manifest>>

StartSearch ==
    /\ pc = "pipe" /\ StepAllowed /\ Sign # 0
    /\ \E r \in Reference :
         search' = [NoSearch EXCEPT !.reference = r, !.scale = FullScale, !.attempt = 1]
    /\ pc' = "search"
    /\ UNCHANGED <<probe, host, rope, captured, raised, calls, sched, index, pending,
                   spent, consumed, completed, files, decision, manifest>>

\* The control energy that may still be spent, in units of 1/BudgetDen.
Projected(r) == spent.reference + r * (Steps - sched)
\* Mutant of Remaining: each step may spend the budget anew.
RemainingAnew(r) == BudgetNum * Projected(r)
Remaining(r) ==
    LET left == BudgetNum * Projected(r) - BudgetDen * spent.control
    IN  IF left > 0 THEN left ELSE 0
WithinBudget(e, r) == BudgetDen * e <= Remaining(r)

\* Both signs are run at one scale.  Each has an energy and a norm that is
\* within its budget or not; a candidate is feasible when both are.
Evaluate(energy, normOk) ==
    search' = [search EXCEPT
        !.energy = energy[Sign],
        !.feasible = {s \in {-1, 1} : normOk[s] /\ WithinBudget(energy[s], search.reference)}]

SearchAttempt ==
    /\ pc = "search"
    /\ ForwardSucceeds
    /\ \E energy \in [{-1, 1} -> Energy], normOk \in [{-1, 1} -> BOOLEAN] :
         Evaluate(energy, normOk)
    /\ pc' = "judge"
    /\ UNCHANGED <<probe, host, captured, raised, calls, sched, index, pending, spent,
                   consumed, completed, files, decision, manifest>>

\* A forward raises, or a candidate turns against its direction.
SearchRaises == pc = "search" /\ ForwardRaises /\ PipeFails

Feasible == search.feasible = {-1, 1}

Select ==
    /\ pc = "judge" /\ Feasible
    /\ pc' = "consume"
    /\ UNCHANGED <<probe, host, rope, captured, raised, calls, sched, index, pending,
                   search, spent, consumed, completed, files, decision, manifest>>

\* The proposed scale follows from the worst ratios; it must be smaller, and
\* not below the smallest.
BackOff ==
    /\ pc = "judge" /\ ~Feasible /\ search.attempt < MaxAttempts
    /\ \E scale \in 1 .. search.scale - 1 :
         search' = [search EXCEPT !.scale = scale, !.attempt = @ + 1]
    /\ pc' = "search"
    /\ UNCHANGED <<probe, host, rope, captured, raised, calls, sched, index, pending,
                   spent, consumed, completed, files, decision, manifest>>

NoScale == pc = "judge" /\ ~Feasible /\ rope' = rope /\ PipeFails

\* The real scheduler advances, the transition is measured against the budgets
\* once more, and the step is recorded.
MeasuredStep == Sign # 0 => WithinBudget(search.energy, search.reference)

\* The measurement was made for this step, and of the selected candidate.
TransitionBound == pending = sched

Consume ==
    /\ pc = "consume" /\ MeasuredStep /\ TransitionBound
    /\ index' = index + 1 /\ sched' = sched + 1 /\ pending' = None
    /\ spent' = [reference |-> spent.reference + search.reference,
                 control |-> spent.control + search.energy]
    /\ consumed' = Append(consumed, search)
    /\ search' = NoSearch
    /\ pc' = "pipe"
    /\ UNCHANGED <<probe, host, rope, captured, raised, calls, completed, files,
                   decision, manifest>>

\* What raises here raises after the scheduler has moved on, or before.
ConsumeRaises ==
    /\ pc = "consume"
    /\ index' \in {index, index + 1}
    /\ raised' = TRUE /\ pc' = "exit"
    /\ UNCHANGED <<probe, host, rope, captured, calls, sched, pending, search, spent,
                   consumed, completed, files, decision, manifest>>

----------------------------------------------------------------------------
(* ScopedPatchRelationWanProbeAdapter.__exit__: all four operations are     *)
(* tried, whatever the others do.                                           *)

Covered == calls = 2 * Steps /\ sched = Steps /\ pending = None /\ Len(consumed) = Steps

ExitCompletes ==
    /\ pc = "exit" /\ raised = FALSE /\ Covered
    /\ host' = captured
    /\ completed' = completed + 1
    /\ pc' = "video"
    /\ UNCHANGED <<probe, rope, captured, raised, calls, sched, index, pending, search,
                   spent, consumed, files, decision, manifest>>

\* Mutant of ExitRaises: an error of the clean-up alone is only noted.
ExitNotes ==
    /\ pc = "exit"
    /\ \E stuck \in SUBSET HostSlots : host' = captured \cup stuck
    /\ IF raised \/ ~Covered
       THEN raised' = TRUE /\ pc' = "failed" /\ completed' = completed
       ELSE raised' = FALSE /\ pc' = "video" /\ completed' = completed + 1
    /\ UNCHANGED <<probe, rope, captured, calls, sched, index, pending, search, spent,
                   consumed, files, decision, manifest>>

ExitRaises ==
    /\ pc = "exit"
    /\ \E stuck \in SUBSET HostSlots :
         /\ raised = TRUE \/ ~Covered \/ stuck # {}
         /\ host' = captured \cup stuck
    /\ raised' = TRUE /\ pc' = "failed"
    /\ UNCHANGED <<probe, rope, captured, calls, sched, index, pending, search, spent,
                   consumed, completed, files, decision, manifest>>

----------------------------------------------------------------------------
(* The loop of execute_real_patch_relation_gate0 and the decision.          *)

WriteFile(f, n) == files' = [files EXCEPT ![f] = n]

\* Video decoded, saved and read back, then three record files rewritten.
WriteGeneration ==
    /\ pc = "video" /\ WriteFile("generation", probe) /\ pc' = "write steps"
    /\ UNCHANGED <<probe, host, rope, captured, raised, calls, sched, index, pending,
                   search, spent, consumed, completed, decision, manifest>>

WriteSteps ==
    /\ pc = "write steps" /\ WriteFile("step", probe) /\ pc' = "write features"
    /\ UNCHANGED <<probe, host, rope, captured, raised, calls, sched, index, pending,
                   search, spent, consumed, completed, decision, manifest>>

WriteFeatures ==
    /\ pc = "write features" /\ WriteFile("feature", probe)
    /\ IF probe < Len(Plan)
       THEN probe' = probe + 1 /\ pc' = "enter"
       ELSE probe' = probe /\ pc' = "decide"
    /\ UNCHANGED <<host, rope, captured, raised, calls, sched, index, pending,
                   search, spent, consumed, completed, decision, manifest>>

\* All that the run measured is recomputed from the records and the videos.
BatchValid == completed = Len(Plan)

Decide ==
    /\ pc = "decide" /\ BatchValid
    /\ decision' \in {"pass", "fail"}
    /\ pc' = "manifest"
    /\ UNCHANGED <<probe, host, rope, captured, raised, calls, sched, index, pending,
                   search, spent, consumed, completed, files, manifest>>

WriteManifest ==
    /\ pc = "manifest"
    /\ manifest' = decision /\ pc' = "returned"
    /\ UNCHANGED <<probe, host, rope, captured, raised, calls, sched, index, pending,
                   search, spent, consumed, completed, files, decision>>

Working == {"video", "write steps", "write features", "decide", "manifest"}

\* Anything else of the run raises: decoding, a full disk, a record that is
\* read back differently, the construction of the transfer.
WorkRaises ==
    /\ pc \in Working
    /\ raised' = TRUE /\ pc' = "failed"
    /\ UNCHANGED <<probe, host, rope, captured, calls, sched, index, pending, search,
                   spent, consumed, completed, files, decision, manifest>>

\* except Exception of the run: the failure decision replaces the file.
DecideFailure ==
    /\ pc = "failed"
    /\ decision' = "recovery" /\ pc' = "raised"
    /\ UNCHANGED <<probe, host, rope, captured, raised, calls, sched, index, pending,
                   search, spent, consumed, completed, files, manifest>>

Ended == pc \in {"returned", "raised"} /\ UNCHANGED vars

PipeStep ==
    \/ ExternalForward \/ ExternalForwardFails \/ PipelineRaises \/ PipelineReturns
    \/ SchedulerStepRefuses \/ StartCleanStep \/ StartSearch
    \/ SearchAttempt \/ SearchRaises \/ Select \/ BackOff \/ NoScale
    \/ Consume \/ ConsumeRaises

Run ==
    \/ EnterRefuses \/ Enter \/ EnterFails
    \/ PipeStep
    \/ ExitCompletes \/ ExitRaises
    \/ WriteGeneration \/ WriteSteps \/ WriteFeatures
    \/ Decide \/ WriteManifest \/ WorkRaises \/ DecideFailure

Next == Run \/ Ended

Spec == Init /\ [][Next]_vars

----------------------------------------------------------------------------
(* Properties                                                               *)

TypeOK ==
    /\ pc \in {"enter", "pipe", "search", "judge", "consume", "exit", "failed",
               "returned", "raised"} \cup Working
    /\ probe \in 1 .. Len(Plan) /\ raised \in BOOLEAN
    /\ host \in SUBSET HostSlots /\ captured \in SUBSET HostSlots
    /\ rope \in SUBSET RopeSlots
    /\ calls \in 0 .. 2 * Steps /\ sched \in 0 .. Steps /\ index \in 0 .. Steps
    /\ pending \in {None} \cup 0 .. Steps - 1
    /\ search \in [attempt : 0 .. MaxAttempts, scale : 0 .. FullScale,
                   reference : Reference \cup {0}, energy : Energy \cup {0},
                   feasible : SUBSET {-1, 1}]
    /\ spent \in [reference : Nat, control : Nat]
    /\ Len(consumed) = sched
    /\ completed \in 0 .. Len(Plan)
    /\ files \in [{"generation", "step", "feature"} -> 0 .. Len(Plan)]
    /\ decision \in {"none", "pass", "fail", "recovery"}
    /\ manifest \in {"none", "pass", "fail"}

\* No video is generated on a model that an earlier scope left changed: what a
\* probe captures as the original methods is the original, and no transform is
\* left on the rope, although any restore may raise
\* (ScopedPatchRelationWanProbeAdapter.__exit__, ScopedWanRopeOutputAdapter.__exit__).
\* What a leftover is never: silent.  A run that returns leaves the pipeline as
\* it was (the finally block of execute_real_patch_relation_gate0 frees it).
CleanModel ==
    /\ pc \in {"pipe", "search", "judge", "consume"} => captured = {} /\ rope = {}
    /\ pc \in {"enter"} \cup Working => host = {} /\ rope = {}
    /\ pc = "returned" => host = {} /\ rope = {} /\ raised = FALSE

\* The step-by-step guard, taken with an extrapolated budget, keeps the whole
\* video within the flow energy budget: a probe that completes has spent at most
\* the ratio of what its own base updates add up to
\* (measure_cfg_state_update_numpy, select_symmetric_phase_projection).
BudgetKept ==
    pc \in Working /\ completed = probe =>
        BudgetDen * spent.control <= BudgetNum * spent.reference

\* The scheduler is only ever given a candidate that was feasible in both signs,
\* at the scale that was evaluated last, never the rejected full-phase forward
\* that the pipeline itself combined.
ConsumedIsFeasible ==
    Sign # 0 /\ pc # "enter" => \A i \in 1 .. Len(consumed) :
        /\ consumed[i].feasible = {-1, 1}
        /\ consumed[i].attempt \in 1 .. MaxAttempts
        /\ consumed[i].scale <= FullScale - consumed[i].attempt + 1

\* A verdict of the gate, and so a manifest, speaks of all the probes: every
\* scope completed and all three record files cover the plan.
VerdictCovers ==
    decision \in {"pass", "fail"} =>
        /\ completed = Len(Plan)
        /\ \A f \in DOMAIN files : files[f] = Len(Plan)

\* What a generation that goes through is worth: its records and its verdict
\* speak of every probe, each video kept its budget, and each step was taken
\* with a candidate that both signs had accepted.
GenerationIsSound == TypeOK /\ BudgetKept /\ ConsumedIsFeasible /\ VerdictCovers

\* The run ends: the search is bounded, and no exception leaves it waiting.
RunEnds == <>(pc \in {"returned", "raised"})

\* Python executes the next statement of the single thread.  A pipeline that
\* calls forever is cut by the call limit of the wrapper.
FairSpec == Spec /\ WF_vars(Run)
=============================================================================
