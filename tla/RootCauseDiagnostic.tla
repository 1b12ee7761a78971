------------------------ MODULE RootCauseDiagnostic ------------------------
(*******************************************************************************)
(* The half-amplitude diagnostic of a failed Gate A                            *)
(* (run_gate_a_root_cause_amplitude_feedback_diagnostic): the historical       *)
(* result is bound, six outputs are generated at half the amplitude, their     *)
(* responses are compared with the historical ones, and overlapping candidate  *)
(* explanations are recorded.  A response is the triple of its odd norm, its   *)
(* common norm and the norm of one centred output, for responses whose odd and *)
(* common parts are orthogonal and whose outputs are equally far from clean:   *)
(* cosine, residual and ratio are then quotients of whole numbers and every    *)
(* threshold is compared exactly.                                              *)
(*******************************************************************************)
EXTENDS Naturals

CONSTANTS
    Latents,      \* sets of responses: half amplitude, at the final latent
    LaterStages,  \*   behind the late pair's latent: decoded, saved, feature
    HalfOutputs,  \*   half amplitude, output feature
    FullOutputs,  \*   historical, output feature
    HalfAmplitudes,  \* actual half amplitudes, per pair
    FullAmplitude,   \* historical amplitude, per pair
    Stages           \* what comes behind the latent (decoded, saved, feature)

Pairs == {"early", "late"}
Response == [odd : Nat, common : Nat, size : Nat]

ResponseAssumption ==
    \A r \in Latents \cup LaterStages \cup HalfOutputs \cup FullOutputs :
        /\ r \in Response
        /\ r.odd * r.odd + r.common * r.common = r.size * r.size

AmplitudeAssumption ==
    /\ HalfAmplitudes \in [Pairs -> SUBSET Nat] /\ FullAmplitude \in [Pairs -> Nat \ {0}]

VARIABLES
    pc,
    source,    \* what holds of the historical result
    polluted,  \* the clean outputs at the start and the end differ
    latent, later, half, full, amplitude,   \* what was measured
    working,   \* scratch arrays are on disk
    written,   \* the result records are on disk: none, some or all
    decision, manifest

measured == <<latent, later, half, full, amplitude, polluted>>
vars == <<pc, source, measured, working, written, decision, manifest>>

Checks == {"files", "steps", "features", "gate_failed", "videos", "basis"}
Ended == {"returned", "raised", "killed"}
NoDecision == [kind |-> "none", candidates |-> {}, feedbackDesign |-> FALSE,
               redesign |-> FALSE]

----------------------------------------------------------------------------
(* Statistics of a response: None is a denominator of zero                   *)

HasCosine(r) == r.size > 0
Inner(r) == [up |-> r.odd * r.odd, down |-> r.common * r.common, of |-> r.size * r.size]

\* cosine(a) - cosine(b) >= n/10
CosineAbove(a, b, n) ==
    LET x == Inner(a) y == Inner(b)
    IN 10 * (x.up * y.of + y.down * x.of) >= n * x.of * y.of + 10 * (x.down * y.of + y.up * x.of)

Signed(r) ==
    /\ HasCosine(r) /\ r.odd > 0
    /\ 10 * r.odd * r.odd >= 9 * r.size * r.size + 10 * r.common * r.common
    /\ 4 * r.common <= r.size /\ 2 * r.common <= r.odd

----------------------------------------------------------------------------
(* Half against full                                                        *)

AmplitudeReady(p) ==
    /\ 45 * FullAmplitude[p] <= 100 * amplitude[p]
    /\ 100 * amplitude[p] <= 55 * FullAmplitude[p]

ResidualFraction(h, f) ==
    /\ HasCosine(h) /\ HasCosine(f)
    /\ \/ f.common > 0 /\ 4 * h.common * f.size <= 3 * f.common * h.size
       \/ f.common = 0 /\ h.common = 0

LinearScaling(h, f) ==
    /\ f.odd > 0 /\ 35 * f.odd <= 100 * h.odd /\ 100 * h.odd <= 65 * f.odd
    /\ f.common > 0 /\ f.common <= 8 * h.common /\ 8 * h.common <= 3 * f.common
    /\ HasCosine(h) /\ HasCosine(f) /\ CosineAbove(h, f, 1)
    /\ 10 * f.common * h.size >= 10 * h.common * f.size + f.size * h.size
    /\ ResidualFraction(h, f)

LocalLinear == \A p \in Pairs : AmplitudeReady(p) /\ LinearScaling(half[p], full[p])

\* The odd response collapses, or does not shrink with the amplitude.
Floor ==
    \E p \in Pairs :
        /\ AmplitudeReady(p) /\ full[p].odd > 0
        /\ \/ 4 * half[p].odd <= full[p].odd \/ 4 * half[p].odd >= 3 * full[p].odd

\* Mutant of OddTransferSmall: not normalised by the exposures.
OddTransferRaw ==
    latent["late"].odd > 0 /\ 2 * latent["early"].odd <= latent["late"].odd

\* The odd response per exposure of the early pair is at most half the late one's.
OddTransferSmall ==
    /\ amplitude["early"] > 0 /\ amplitude["late"] > 0 /\ latent["late"].odd > 0
    /\ 2 * latent["early"].odd * amplitude["late"] <= latent["late"].odd * amplitude["early"]

Feedback ==
    LET e == latent["early"]
        l == latent["late"]
    IN \/ HasCosine(e) /\ HasCosine(l) /\ CosineAbove(l, e, 2)
       \/ /\ e.odd > 0 /\ l.odd > 0 /\ l.common > 0
          /\ 2 * e.common * l.odd >= 3 * l.common * e.odd
       \/ OddTransferSmall

\* The late latent is signed and something behind it is not.
Mismatch ==
    /\ Signed(latent["late"])
    /\ \E s \in Stages :
          LET r == later[s]
          IN \/ r.odd = 0 \/ r.common >= r.odd
             \/ 10 * r.odd * r.odd < 9 * r.size * r.size + 10 * r.common * r.common

Explanations ==
    {c \in {"local_linear", "floor", "feedback", "mismatch"} :
        \/ c = "local_linear" /\ LocalLinear
        \/ c = "floor" /\ Floor
        \/ c = "feedback" /\ Feedback
        \/ c = "mismatch" /\ Mismatch}

\* _apply_clean_pollution_fail_closed: a clean output that changed confounds them all.
Classification == IF polluted THEN {"pollution"} ELSE Explanations

\* Status "indeterminate" also allows the design of a feedback diagnostic; the status
\* of a polluted run is another one.
Authorised(candidates) ==
    [kind |-> "recorded", candidates |-> candidates,
     feedbackDesign |-> "feedback" \in candidates \/ candidates = {},
     redesign |-> "mismatch" \in candidates]

----------------------------------------------------------------------------
(* One run                                                                   *)

Zero == [odd |-> 0, common |-> 0, size |-> 0]

Init ==
    /\ pc = "validate" /\ source \in SUBSET Checks
    /\ latent = [p \in Pairs |-> Zero] /\ later = [s \in Stages |-> Zero]
    /\ half = [p \in Pairs |-> Zero] /\ full = [p \in Pairs |-> Zero]
    /\ amplitude = [p \in Pairs |-> 0] /\ polluted = FALSE
    /\ working = TRUE /\ written = "none" /\ decision = NoDecision /\ manifest = FALSE

\* Every file once, none of a recovery or partial package, decision and manifest exact.
FilesComplete == "files" \in source

\* Each step record agrees with the exposure trace of its probe.
StepsBound == "steps" \in source

\* Checkpoints and features agree with the plan and with each other.
FeaturesBound == "features" \in source

\* The statistics, computed again from the features, are those of the decision, and do
\* not pass.
GateFailed == "gate_failed" \in source

VideosBound == "videos" \in source

\* The complete package of a Gate A that failed, recomputed from its own records, and
\* the basis of the same owner key.
Validate ==
    /\ pc = "validate"
    /\ pc' = IF /\ FilesComplete /\ StepsBound /\ FeaturesBound /\ GateFailed
                /\ VideosBound /\ "basis" \in source
             THEN "measure" ELSE "failed"
    /\ UNCHANGED <<source, measured, working, written, decision, manifest>>

\* Generation, features and the statistics of both amplitudes.
Measure ==
    /\ pc = "measure"
    /\ latent' \in [Pairs -> Latents] /\ later' \in [Stages -> LaterStages]
    /\ half' \in [Pairs -> HalfOutputs] /\ full' \in [Pairs -> FullOutputs]
    /\ \E e \in HalfAmplitudes["early"], l \in HalfAmplitudes["late"] :
          amplitude' = [p \in Pairs |-> IF p = "early" THEN e ELSE l]
    /\ polluted' \in BOOLEAN
    /\ pc' = "classify"
    /\ UNCHANGED <<source, working, written, decision, manifest>>

\* Classified, and the scratch arrays removed.
Classify ==
    /\ pc = "classify"
    /\ working' = FALSE /\ pc' = "results"
    /\ UNCHANGED <<source, measured, written, decision, manifest>>

Raise ==
    /\ pc \in {"measure", "classify"}
    /\ pc' = "failed"
    /\ UNCHANGED <<source, measured, working, written, decision, manifest>>

Fail ==
    /\ pc = "failed"
    /\ working' = FALSE /\ decision' = [NoDecision EXCEPT !.kind = "failure"]
    /\ pc' = "raised"
    /\ UNCHANGED <<source, measured, written, manifest>>

WriteResults ==
    /\ pc = "results"
    /\ written' = "all" /\ pc' = "decide"
    /\ UNCHANGED <<source, measured, working, decision, manifest>>

Decide ==
    /\ pc = "decide"
    /\ decision' = Authorised(Classification) /\ pc' = "manifest"
    /\ UNCHANGED <<source, measured, working, written, manifest>>

WriteManifest ==
    /\ pc = "manifest"
    /\ manifest' = TRUE /\ pc' = "returned"
    /\ UNCHANGED <<source, measured, working, written, decision>>

\* Mutant of PublishFails: the handler covers the publication as well.
PublishFailsInTry ==
    /\ pc \in {"results", "decide", "manifest"}
    /\ written' = IF pc = "results" THEN "some" ELSE written
    /\ pc' = "failed"
    /\ UNCHANGED <<source, measured, working, decision, manifest>>

\* A write that raises after the try block.
PublishFails ==
    /\ pc \in {"results", "decide", "manifest"}
    /\ written' = IF pc = "results" THEN "some" ELSE written
    /\ pc' = "raised"
    /\ UNCHANGED <<source, measured, working, decision, manifest>>

Kill ==
    /\ pc \notin Ended
    /\ pc' = "killed"
    /\ UNCHANGED <<source, measured, working, written, decision, manifest>>

Next ==
    \/ Validate \/ Measure \/ Classify \/ Raise \/ Fail
    \/ WriteResults \/ Decide \/ WriteManifest \/ PublishFails \/ Kill

Spec == Init /\ [][Next]_vars

----------------------------------------------------------------------------
\* A recorded explanation stands on a complete result of a Gate A that failed, with
\* all its records and no scratch array left; a failure decision stands alone.
DecisionIsBound ==
    /\ decision.kind = "recorded" => source = Checks /\ written = "all" /\ ~working
    /\ decision.kind = "failure" => written = "none" /\ ~manifest /\ ~working

\* Overlapping candidates do not contradict each other: a response that shrank with the
\* amplitude neither collapsed nor stayed.
LinearExcludesFloor == ~(LocalLinear /\ Floor)

\* An early response that is the late one, scaled as its exposure is, is no sign of
\* feedback.
ScaleIsNoFeedback ==
    LET e == latent["early"]
        l == latent["late"]
    IN /\ pc = "classify" /\ e.size > 0 /\ l.size > 0 /\ l.odd > 0
       /\ amplitude["early"] > 0 /\ amplitude["late"] > 0
       /\ e.odd * l.size = l.odd * e.size /\ e.common * l.size = l.common * e.size
       /\ e.size * amplitude["late"] = l.size * amplitude["early"]
       => ~Feedback

\* Clean outputs that differ confound every pair: such a run allows no design.
PollutedAllowsNothing ==
    decision.kind = "recorded" /\ polluted =>
        ~decision.feedbackDesign /\ ~decision.redesign
=============================================================================
