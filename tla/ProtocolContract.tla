---------------------------- MODULE ProtocolContract ----------------------------
(*********************************************************************************)
(* How the runners read their frozen contracts (evaluation/protocol): a JSON     *)
(* file is compared with what the code holds, partly by Python's ==, partly by   *)
(* the digest of its canonical text, and read again by later steps of the same   *)
(* run.  The file may be edited between two readings, and a commit may put a new *)
(* digest in the code.                                                           *)
(*********************************************************************************)
EXTENDS Naturals

CONSTANTS Edits   \* bound on the edits during a run

ProtocolContractAssumption == Edits \in Nat

Profiles == {"frame_state", "patch_gate0", "phase_response", "block_attention",
             "wan_model_load", "impulse", "gate_a", "frozen_feedback", "six_video"}

Sections == {"authorization", "execution", "carrier", "schedule", "gate"}

\* What a section holds: the frozen value, the same value with other spacing or key
\* order, a number for one of its Booleans, a number with a point for an integer; a
\* named flag opened, a named value changed; a flag no check names, opened.
Values == {"frozen", "respelt", "integer", "decimal", "opened", "loosened", "hidden"}

\* The canonical text of a value sorts its keys: the digest does not tell "respelt".
Canon(v) == IF v = "respelt" THEN "frozen" ELSE v

\* Python's ==: 1 is True and 5.0 is 5.
PyEqual(v) == v \in {"frozen", "respelt", "integer", "decimal"}

\* The identity test (is True, is not False).
Identical(v) == v \in {"frozen", "respelt"}

\* Fields compared one by one leave the others alone.
Named(v) == v \notin {"opened", "loosened"}

(*****************************************************************************)
(* What each loader does.                                                    *)
(*****************************************************************************)
\* json.loads with a hook that refuses a key that occurs twice; the others keep the last.
Strict == {"frame_state", "patch_gate0"}

\* Only text, integers, Booleans, lists and objects have a canonical form here.
NoFloat == {"frame_state", "patch_gate0"}

\* The sections under the digest that the code holds.
Protocol == {"carrier", "schedule", "gate"}

Digested(p) ==
    CASE p = "frame_state" -> Protocol
      [] p \in {"patch_gate0", "phase_response", "block_attention", "wan_model_load"}
             -> Protocol \cup {"execution"}
      [] p = "impulse" -> {}
      [] OTHER -> Sections

\* The file states the digest too.
StatesDigest == {"frame_state", "patch_gate0", "phase_response", "block_attention",
                 "wan_model_load"}

\* These bind the impulse contract by the digest of its file.
HasBase == {"gate_a", "frozen_feedback"}

Key == [section : Sections, value : {"frozen", "opened", "loosened"}]
NoKey == [section |-> "none", value |-> "frozen"]

VARIABLES profile,
          code,     \* section -> the canonical value whose digest the code holds
          file,     \* section -> what it holds
          stated,   \* section -> the canonical value whose digest the file states
          earlier,  \* an earlier occurrence of a key, which a later one replaces, or NoKey
          base,     \* the impulse contract's file
          config,   \* what the loader returned, or NoFile
          runtime,  \* the base as the run uses it, or "none"
          again,    \* what a later step of the run read from the same file, or NoFile
          stage, edits

vars == <<profile, code, file, stated, earlier, base, config, runtime, again, stage, edits>>

Frozen == [s \in Sections |-> "frozen"]
NoFile == [s \in Sections |-> "none"]
Bases == {"frozen", "respelt", "integer", "loosened"}

\* The functions that differ from f in at most one section.
Near(f) == {f} \cup {[f EXCEPT ![s] = v] : s \in Sections, v \in Values}

Init ==
    /\ profile \in Profiles
    /\ \E s \in Sections, v, w \in Values :
           file = [Frozen EXCEPT ![s] = v] /\ code = [Frozen EXCEPT ![s] = w]
    /\ stated \in {Frozen, [s \in Sections |-> Canon(file[s])]}
    /\ earlier \in {NoKey} \cup Key /\ (earlier # NoKey => file = Frozen)
    /\ base \in IF profile \in HasBase THEN Bases ELSE {"frozen"}
    /\ config = NoFile /\ runtime = "none" /\ again = NoFile
    /\ stage = "load" /\ edits = 0

(*****************************************************************************)
(* The checks of one reading.                                                *)
(*****************************************************************************)
\* Mutant of Unambiguous: the plain json.loads everywhere.
UnambiguousPlain(p) == TRUE

Unambiguous(p) == p \in Strict => earlier = NoKey

\* The boundary against the constant of the code, by ==; by identity in the two diagnostics.
AuthorizationHolds(p, f) ==
    IF p \in {"gate_a", "six_video"} THEN Identical(f.authorization) ELSE PyEqual(f.authorization)

CodeDigestHolds(p, f) == \A s \in Digested(p) : Canon(f[s]) = code[s]

StatedDigestHolds(p, f) == p \in StatesDigest => \A s \in Digested(p) : stated[s] = Canon(f[s])

CanonicalHolds(p, f) == p \in NoFloat => \A s \in Digested(p) : f[s] # "decimal"

(*****************************************************************************)
(* The values the code names, each against its constant: field by field, or  *)
(* whole sections by ==.                                                     *)
(*****************************************************************************)
FrameStateExecution(f) == PyEqual(f.execution)
FrameStateSeparate(f) == Named(f.execution)
FrameStateCarrier(f) == Named(f.carrier)
FrameStateCheckpoints(f) == Named(f.gate)
FrameStateIdentities(f) == Named(f.gate)
FrameStateSchedule(f) == PyEqual(f.schedule)
FrameStateTransfer(f) == Named(f.gate)

\* The search through the whole protocol for a flag that is True.
FrameStateGrants(f) == \A s \in Protocol : f[s] \notin {"opened", "hidden"}

FrameState(f) ==
    /\ FrameStateExecution(f) /\ FrameStateSeparate(f) /\ FrameStateCarrier(f)
    /\ FrameStateCheckpoints(f) /\ FrameStateIdentities(f) /\ FrameStateSchedule(f)
    /\ FrameStateTransfer(f) /\ FrameStateGrants(f)

GateZeroAdapter(f) == PyEqual(f.carrier) \/ f.carrier = "hidden"
GateZeroRelation(f) == Named(f.carrier)
GateZeroFormulas(f) == Named(f.gate)
GateZeroGate(f) == Named(f.gate)
GateZeroExecution(f) == PyEqual(f.execution)
GateZeroSeparate(f) == Named(f.execution)
GateZeroSchedule(f) == PyEqual(f.schedule)
GateZeroScope(f) == Named(f.gate)

GateZero(f) ==
    /\ GateZeroAdapter(f) /\ GateZeroRelation(f) /\ GateZeroFormulas(f) /\ GateZeroGate(f)
    /\ GateZeroExecution(f) /\ GateZeroSeparate(f) /\ GateZeroSchedule(f) /\ GateZeroScope(f)

PhaseClassification(f) == PyEqual(f.gate) \/ f.gate = "hidden"
PhaseResponse(f) == Named(f.carrier) /\ PyEqual(f.schedule) /\ PhaseClassification(f) /\ Named(f.gate)

BlockControl(f) == PyEqual(f.carrier)
BlockResponse(f) == PyEqual(f.gate)
BlockAttention(f) ==
    BlockControl(f) /\ BlockResponse(f) /\ PyEqual(f.schedule) /\ PyEqual(f.execution)

ModelLoadWorker(f) == Named(f.schedule)
ModelLoad(f) ==
    PyEqual(f.execution) /\ PyEqual(f.carrier) /\ ModelLoadWorker(f) /\ PyEqual(f.gate)

ImpulseBoundary(f) == PyEqual(f.authorization)
ImpulseFeature(f) == PyEqual(f.carrier)
ImpulseExecution(f) == PyEqual(f.execution)
ImpulseSchedule(f) == PyEqual(f.schedule)
ImpulseAdapter(f) == PyEqual(f.carrier)
ImpulseGates(f) == PyEqual(f.gate)
ImpulseStates(f) == PyEqual(f.authorization)

Impulse(f) ==
    /\ ImpulseBoundary(f) /\ ImpulseFeature(f) /\ ImpulseExecution(f) /\ ImpulseSchedule(f)
    /\ ImpulseAdapter(f) /\ ImpulseGates(f) /\ ImpulseStates(f)

\* The thresholds of the root cause diagnostic only have to be ordered.
RootCausePlan(f) == Named(f.carrier) /\ Named(f.schedule) /\ f.gate # "opened"
RootCause(f) == RootCausePlan(f) /\ PyEqual(f.execution)

FrozenFeedback(f) == Named(f.schedule)

SixVideo(f) == Named(f.carrier) /\ Named(f.schedule) /\ Named(f.gate)

SemanticsHold(p, f) ==
    CASE p = "frame_state" -> FrameState(f)
      [] p = "patch_gate0" -> GateZero(f)
      [] p = "phase_response" -> PhaseResponse(f)
      [] p = "block_attention" -> BlockAttention(f)
      [] p = "wan_model_load" -> ModelLoad(f)
      [] p = "impulse" -> Impulse(f)
      [] p = "gate_a" -> RootCause(f)
      [] p = "six_video" -> SixVideo(f)
      [] p = "frozen_feedback" -> FrozenFeedback(f)

BaseHolds(p) == p = "gate_a" => Canon(base) = "frozen"

Accepts(p, f) ==
    /\ Unambiguous(p) /\ AuthorizationHolds(p, f)
    /\ CanonicalHolds(p, f) /\ StatedDigestHolds(p, f) /\ SemanticsHold(p, f)
    /\ CodeDigestHolds(p, f)

Refuse == stage' = "refused" /\ UNCHANGED <<profile, code, file, stated, earlier, base, config, runtime, again, edits>>

Load ==
    /\ stage = "load"
    /\ IF Accepts(profile, file) /\ BaseHolds(profile)
       THEN /\ config' = file /\ stage' = "authorize"
            /\ UNCHANGED <<profile, code, file, stated, earlier, base, runtime, again, edits>>
       ELSE Refuse

\* The frame state's runner reads its flags once more; the others go on.
Authorize ==
    /\ stage = "authorize"
    /\ IF profile = "frame_state" /\ ~Identical(config.authorization)
       THEN Refuse
       ELSE /\ stage' = "run"
            /\ UNCHANGED <<profile, code, file, stated, earlier, base, config, runtime, again, edits>>

\* The feedback compares the digest of the base it runs with; Gate A's diagnostic only
\* validates it once more.
BaseAccepted(p) == PyEqual(base) /\ (p = "frozen_feedback" => Canon(base) = "frozen")

ReadBase ==
    /\ stage = "run" /\ profile \in HasBase /\ runtime = "none"
    /\ IF BaseAccepted(profile)
       THEN /\ runtime' = base
            /\ UNCHANGED <<profile, code, file, stated, earlier, base, config, again, stage, edits>>
       ELSE Refuse

\* The worker of the model load and the replay of the phase evidence load their files again.
ReadAgain ==
    /\ stage = "run" /\ profile \in {"wan_model_load", "patch_gate0"} /\ again = NoFile
    /\ IF Accepts(profile, file)
       THEN /\ again' = file
            /\ UNCHANGED <<profile, code, file, stated, earlier, base, config, runtime, stage, edits>>
       ELSE Refuse

\* Environment: the checkout is edited while the run goes on.
EditFile ==
    /\ stage = "run" /\ again = NoFile /\ edits < Edits /\ profile \in {"wan_model_load", "patch_gate0"}
    /\ file' \in Near(file) \ {file}
    /\ stated' \in {stated, [s \in Sections |-> Canon(file'[s])]}
    /\ edits' = edits + 1
    /\ UNCHANGED <<profile, code, earlier, base, config, runtime, again, stage>>

EditBase ==
    /\ stage = "run" /\ runtime = "none" /\ profile \in HasBase /\ edits < Edits
    /\ base' \in Bases
    /\ edits' = edits + 1
    /\ UNCHANGED <<profile, code, file, stated, earlier, config, runtime, again, stage>>

Next == Load \/ Authorize \/ ReadBase \/ ReadAgain \/ EditFile \/ EditBase

Spec == Init /\ [][Next]_vars

-----------------------------------------------------------------------------
TypeOK ==
    /\ profile \in Profiles /\ {code, file, stated} \subseteq [Sections -> Values]
    /\ earlier \in {NoKey} \cup Key /\ base \in Values
    /\ config \in IF stage \in {"authorize", "run"} THEN [Sections -> Values]
                 ELSE {NoFile} \cup [Sections -> Values]
    /\ again \in {NoFile} \cup [Sections -> Values]
    /\ runtime \in {"none"} \cup Values
    /\ stage \in {"load", "authorize", "run", "refused"} /\ edits \in 0 .. Edits

\* Every value that the text of the file gives for a section, a replaced one included.
Reads(p, s) ==
    {config[s]} \cup (IF p \in Strict /\ earlier.section = s THEN {earlier.value} ELSE {})

\* While the code holds the digest that was frozen, what a run goes on with is the frozen
\* contract: the digested sections exactly, the authorization and what else is compared up to
\* Python's ==, with Booleans where the runner reads its flags by identity, and in the strict
\* profiles whichever of two equal keys a reader looks at.
RunsAreFrozen ==
    (stage = "run" /\ code = Frozen) =>
        /\ \A s \in Digested(profile) : \A v \in Reads(profile, s) : Identical(v)
        /\ \A v \in Reads(profile, "authorization") : PyEqual(v)
        /\ profile \in {"frame_state", "gate_a", "six_video"} => Identical(config.authorization)
        /\ profile \in {"frame_state", "impulse"} =>
               \A s \in Sections : \A v \in Reads(profile, s) : PyEqual(v)

\* A new digest in the code opens nothing: the flags and values the code names keep their
\* meaning in every contract a run goes on with, and no grant hides in the frame state's.
NewDigestOpensNothing ==
    stage = "run" =>
        /\ Named(config.authorization) /\ Named(config.schedule)
        /\ profile # "frozen_feedback" => Named(config.carrier) /\ config.gate # "opened"
        /\ profile \notin {"gate_a", "frozen_feedback"} => Named(config.gate)
        /\ profile = "frame_state" => \A s \in Sections : config[s] # "hidden"

\* What a later step reads from an edited file stays what the run began with: the digested
\* sections exactly, the rest up to Python's ==; the base of a diagnostic keeps its values.
ReadersAgree ==
    /\ again # NoFile =>
          /\ \A s \in Digested(profile) : Canon(again[s]) = Canon(config[s])
          /\ PyEqual(again.authorization)
    /\ runtime # "none" => PyEqual(runtime) /\ (profile = "frozen_feedback" => Identical(runtime))
=============================================================================
