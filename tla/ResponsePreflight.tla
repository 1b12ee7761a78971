-------------------------- MODULE ResponsePreflight --------------------------
(*****************************************************************************)
(* One response preflight of the patch-relation carrier: the pipeline is     *)
(* started with our methods in place of transformer.forward and              *)
(* scheduler.step, is measured at step 0 and is then stopped by an exception *)
(* of our own (the sentinel), which the scope swallows.  Two of them share   *)
(* this shape:                                                               *)
(*   "phase"  experiments/.../patch_relation_phase_response_preflight.py,    *)
(*            each forward in a ScopedWanRopeOutputAdapter;                  *)
(*   "block"  experiments/.../patch_relation_block_attention_response_       *)
(*            preflight.py, each forward in a                                *)
(*            ScopedWanBlockLocalAttentionBiasAdapter.                       *)
(* The pipeline is external: it calls the two methods in any order, catches  *)
(* or replaces what they raise, returns or raises.                           *)
(*****************************************************************************)
EXTENDS Naturals, Sequences, FiniteSets

CONSTANTS
    Pairs,      \* candidates, one pair of forwards each (phase 4, block 6)
    MaxCalls    \* bound: calls the pipeline makes

PreflightAssumption ==
    Pairs \in Nat \ {0} /\ MaxCalls \in Nat

VARIABLES
    kind,       \* "phase" or "block"
    pc,         \* where the run is
    calls,      \* calls the pipeline made
    log,        \* the forwards counted by _forward_calls, each with its model
    branches,   \* the branches seen by the wrapped forward
    base,       \* the branches whose two clean forwards are kept
    todo,       \* forwards of the scheduler step under way
    patched,    \* the methods of the pipeline that are ours
    inner,      \* what the scopes of the single forwards left behind
    exc,        \* the exception on its way out
    record,     \* _record is set
    completed,  \* _completed
    stuck,      \* an operation that restores a method raised
    result

vars == <<kind, pc, calls, log, branches, base, todo, patched, inner, exc, record, completed,
          stuck, result>>

Branches == {"conditional", "unconditional"}
Methods == {"forward", "step"}
Total == 4 + 2 * Pairs

\* The n-th forward of the measurement: each branch twice without control, then
\* both branches for each candidate.
Planned(n) ==
    [branch |-> IF n \in 1 .. 2 \/ (n > 4 /\ n % 2 = 1) THEN "conditional"
                ELSE "unconditional",
     pair |-> IF n <= 4 THEN 0 ELSE (n - 3) \div 2]

Init ==
    /\ kind \in {"phase", "block"}
    /\ pc = "enter" /\ calls = 0 /\ log = <<>> /\ branches = {} /\ base = {} /\ todo = 0
    /\ patched = {} /\ inner = {} /\ exc = "none" /\ record = FALSE
    /\ completed = FALSE /\ stuck = FALSE /\ result = "none"

----------------------------------------------------------------------------
(* __enter__                                                                *)

Enter ==
    /\ pc = "enter"
    /\ patched' = Methods /\ pc' = "pipe"
    /\ UNCHANGED <<kind, calls, log, branches, base, todo, inner, exc, record,
                   completed, stuck, result>>

\* The phase version takes back what it installed, whichever of the two
\* assignments raised; the block version has no handler.
Rollback(installed) ==
    IF kind = "block" THEN patched' = installed /\ stuck' = stuck
    ELSE /\ patched' \in SUBSET installed
         /\ stuck' \in {e \in BOOLEAN : patched' # {} => e}

EnterFails ==
    /\ pc = "enter"
    /\ \E installed \in {{}, {"forward"}} : Rollback(installed)
    /\ exc' = "foreign" /\ pc' = "release"
    /\ UNCHANGED <<kind, calls, log, branches, base, todo, inner, record, completed,
                   result>>

----------------------------------------------------------------------------
(* One forward in its own scope (_run_forward).                             *)

\* Mutant of Leftovers: the rope scope clears its flag in any case, too.
LeftoversUnflagged == SUBSET {"active", "method"}

\* "active" is the flag that refuses a second scope; "method" is our method.
\* The rope scope clears the flag after it restored the method, the attention
\* scope clears it in any case.
Leftovers == IF kind = "phase" THEN {{}, {"active"}, {"active", "method"}}
             ELSE SUBSET {"active", "method"}

Counted(n) == Append(log, [branch |-> Planned(n).branch, pair |-> Planned(n).pair,
                           clean |-> inner = {}])

\* The new scope restores what it found.
ForwardRuns(n) == "active" \notin inner /\ inner' = inner /\ log' = Counted(n)

ForwardFails ==
    IF "active" \in inner THEN inner' = inner
    ELSE \E left \in Leftovers : inner' = inner \cup left

----------------------------------------------------------------------------
(* _wrapped_forward                                                         *)

Raises == exc' = "foreign" /\ pc' = "raised"

Called == pc = "pipe" /\ calls < MaxCalls /\ calls' = calls + 1

Branch == IF Len(log) = 0 THEN "conditional" ELSE "unconditional"

\* The phase version refuses a branch that was already called.
Admitted == Len(log) \in {0, 2} /\ (kind = "phase" => Branch \notin branches)

\* The first of the two clean forwards; the second follows at pc = "repeat".
ExternalForward ==
    /\ Called /\ Admitted
    /\ branches' = branches \cup {Branch}
    /\ ForwardRuns(Len(log) + 1) /\ pc' = "repeat"
    /\ UNCHANGED <<kind, base, todo, patched, exc, record, completed, stuck, result>>

Repeat ==
    /\ pc = "repeat"
    /\ ForwardRuns(Len(log) + 1)
    /\ base' = base \cup {IF Len(log) = 1 THEN "conditional" ELSE "unconditional"}
    /\ pc' = "pipe"
    /\ UNCHANGED <<kind, calls, branches, todo, patched, exc, record, completed, stuck,
                   result>>

ForwardRefused ==
    /\ Called /\ Raises
    /\ UNCHANGED <<kind, log, branches, base, todo, patched, inner, record, completed,
                   stuck, result>>

\* The first clean forward raises, with the branch already noted.
ForwardRaises ==
    /\ Called /\ Admitted
    /\ branches' = branches \cup {Branch}
    /\ ForwardFails /\ Raises
    /\ UNCHANGED <<kind, log, base, todo, patched, record, completed, stuck, result>>

RepeatRaises ==
    /\ pc = "repeat" /\ ForwardFails /\ Raises
    /\ UNCHANGED <<kind, calls, log, branches, base, todo, patched, record, completed,
                   stuck, result>>

----------------------------------------------------------------------------
(* _wrapped_scheduler_step                                                  *)

\* _scheduler_calls stays 0, so a second call is as good as the first.
StepStarts ==
    /\ Called /\ branches = Branches /\ base = Branches
    /\ todo' = 2 * Pairs /\ pc' = "step"
    /\ UNCHANGED <<kind, log, branches, base, patched, inner, exc, record, completed,
                   stuck, result>>

\* A boundary, context or pipeline value that differs, or a missing base row.
StepRefused ==
    /\ Called /\ Raises
    /\ UNCHANGED <<kind, log, branches, base, todo, patched, inner, record, completed,
                   stuck, result>>

StepForward ==
    /\ pc = "step" /\ todo > 0
    /\ ForwardRuns(Len(log) + 1) /\ todo' = todo - 1
    /\ UNCHANGED <<kind, pc, calls, branches, base, patched, exc, record, completed,
                   stuck, result>>

StepRaises ==
    /\ pc = "step" /\ Raises
    /\ IF todo > 0 THEN ForwardFails ELSE inner' = inner
    /\ UNCHANGED <<kind, calls, log, branches, base, todo, patched, record, completed,
                   stuck, result>>

\* The record is kept and the sentinel raised.
StepCompletes ==
    /\ pc = "step" /\ todo = 0
    /\ record' = TRUE /\ exc' = "own" /\ pc' = "raised"
    /\ UNCHANGED <<kind, calls, log, branches, base, todo, patched, inner, completed,
                   stuck, result>>

----------------------------------------------------------------------------
(* The pipeline.                                                            *)

PipelineLetsPass ==
    /\ pc = "raised" /\ pc' = "exit"
    /\ UNCHANGED <<kind, calls, log, branches, base, todo, patched, inner, exc, record,
                   completed, stuck, result>>

PipelineCatches ==
    /\ pc = "raised"
    /\ exc' = "none" /\ pc' = "pipe"
    /\ UNCHANGED <<kind, calls, log, branches, base, todo, patched, inner, record,
                   completed, stuck, result>>

PipelineRaises ==
    /\ pc \in {"pipe", "raised"}
    /\ exc' = "foreign" /\ pc' = "exit"
    /\ UNCHANGED <<kind, calls, log, branches, base, todo, patched, inner, record,
                   completed, stuck, result>>

\* A sentinel that was caught earlier is raised after all.
PipelineRaisesOwn ==
    /\ pc = "pipe" /\ record
    /\ exc' = "own" /\ pc' = "exit"
    /\ UNCHANGED <<kind, calls, log, branches, base, todo, patched, inner, record,
                   completed, stuck, result>>

PipelineReturns ==
    /\ pc = "pipe" /\ pc' = "exit"
    /\ UNCHANGED <<kind, calls, log, branches, base, todo, patched, inner, exc, record,
                   completed, stuck, result>>

----------------------------------------------------------------------------
(* __exit__, batch and the finally block of the caller                      *)

AllCounted == Len(log) = Total

\* Mutant of Exact: any exception.
ExactByRecord == exc # "none" /\ record /\ AllCounted

Exact == exc = "own" /\ record /\ AllCounted

\* Both methods are given back, the second also when the first raised.
RestoresBoth ==
    /\ pc = "exit" /\ patched' = {}
    /\ completed' = Exact /\ record' = (record /\ Exact)
    /\ exc' = IF Exact THEN "none" ELSE exc
    /\ pc' = IF exc' = "none" THEN "batch" ELSE "release"
    /\ UNCHANGED <<kind, calls, log, branches, base, todo, inner, stuck, result>>

RestoreRaises ==
    /\ pc = "exit"
    /\ patched' \in SUBSET patched /\ stuck' = TRUE
    /\ record' = FALSE /\ exc' = "foreign" /\ pc' = "release"
    /\ UNCHANGED <<kind, calls, log, branches, base, todo, inner, completed, result>>

Batch ==
    /\ pc = "batch"
    /\ exc' = IF completed /\ record /\ AllCounted THEN "none" ELSE "foreign"
    /\ pc' = "release"
    /\ UNCHANGED <<kind, calls, log, branches, base, todo, patched, inner, record,
                   completed, stuck, result>>

\* The references are dropped and the model hooks, the heap and the GPU cache
\* freed; an error there raises when no other one is active.
Release ==
    /\ pc = "release" /\ pc' = "done"
    /\ record' = FALSE
    /\ \E error \in {"none", "foreign"} : exc' = IF exc = "none" THEN error ELSE exc
    /\ result' = IF exc' = "none" THEN "batch" ELSE "raised"
    /\ UNCHANGED <<kind, calls, log, branches, base, todo, patched, inner, completed,
                   stuck>>

Next ==
    \/ Enter \/ EnterFails
    \/ ExternalForward \/ Repeat \/ ForwardRefused \/ ForwardRaises \/ RepeatRaises
    \/ StepStarts \/ StepRefused \/ StepForward \/ StepRaises \/ StepCompletes
    \/ PipelineLetsPass \/ PipelineCatches \/ PipelineRaises \/ PipelineRaisesOwn
    \/ PipelineReturns
    \/ RestoresBoth \/ RestoreRaises \/ Batch \/ Release

Spec == Init /\ [][Next]_vars

----------------------------------------------------------------------------
TypeOK ==
    /\ kind \in {"phase", "block"}
    /\ pc \in {"enter", "pipe", "repeat", "step", "raised", "exit", "batch", "release",
               "done"}
    /\ calls \in 0 .. MaxCalls /\ todo \in 0 .. 2 * Pairs
    /\ log \in Seq([branch : Branches, pair : Nat, clean : BOOLEAN])
    /\ base \subseteq branches /\ branches \subseteq Branches
    /\ patched \subseteq Methods /\ inner \subseteq {"active", "method"}
    /\ exc \in {"none", "own", "foreign"} /\ record \in BOOLEAN
    /\ completed \in BOOLEAN /\ stuck \in BOOLEAN
    /\ result \in {"none", "batch", "raised"}

\* A batch is the measurement that was planned: every forward once and in its
\* order, although the pipeline may call again, catch the sentinel and go on,
\* or try again after a failure (_forward_calls compared in __exit__ and batch).
BatchIsPlanned ==
    result = "batch" =>
        /\ Len(log) = Total
        /\ \A n \in 1 .. Total : /\ log[n].branch = Planned(n).branch
                                /\ log[n].pair = Planned(n).pair

\* ... each of its forwards ran on a model no earlier scope had left changed, and
\* the methods are given back.  The phase version only: the attention scope
\* clears its flag where it could not give the processor back, and a branch that
\* failed may be called again (_run_forward, ScopedWanRopeOutputAdapter).
BatchIsClean ==
    kind = "phase" /\ result = "batch" =>
        /\ \A n \in 1 .. Len(log) : log[n].clean
        /\ patched = {}

\* The pipeline is given back as it was found, however the run failed, unless
\* giving it back raised (config key scope_failure_must_restore_original_binding).
ScopeFailureRestores == pc = "done" /\ patched # {} => stuck

\* The phase version keeps that; the block version has no handler in __enter__.
PhaseFailureRestores == kind = "phase" => ScopeFailureRestores

\* An exception other than the sentinel, once it has left the pipeline, is what
\* the caller gets: the scope never swallows it.
ErrorIsRaised ==
    [][exc = "foreign" /\ pc \in {"exit", "release"} => exc' = "foreign" /\ result' # "batch"]_vars
=============================================================================
