----------------------------- MODULE ProfileGate -----------------------------
(*****************************************************************************)
(* The last notebook of a result profile and what it rests on.  Every        *)
(* profile (probe_paper, pilot_paper, full_paper) has a run root of its own. *)
(* The evidence notebooks leave score records, ablation records and the      *)
(* decisions of the three mechanism claims there; paper_gate_and_package     *)
(* then runs the gate, the reviewer index, the figure, the package manifest  *)
(* and the transition to the next profile, each from the files the earlier   *)
(* ones left.  No stage of it fails on a FAIL decision.  A session ends      *)
(* between two stages whenever the runtime is taken away.                    *)
(*                                                                           *)
(* A file is the decision it holds and `run`, the gate run it rests on.      *)
(* The two names a gate run is written under are one file here: the next     *)
(* plan starts with the gate, and nothing reads one before that.             *)
(*****************************************************************************)
EXTENDS Integers

CONSTANTS N,             \* result profiles, in their order
          InitialEvidence, \* what a run root may hold when the story starts
          MaxPlans, MaxEvidence  \* gate notebooks and evidence notebooks that are run

Profiles == 1 .. N

\* External baseline records: none usable; measured_formal with the statements
\* on the clean negatives that the adapter adds; the same, of an older package.
Scores == {"unsupported", "formal", "older"}
Ablations == {"formal", "proxy"}
Decisions == {"missing", "PASS", "FAIL"}
Evidence == [scores : Scores, ablation : Ablations, claims : Decisions,
             posterior : Decisions, replay : Decisions, complete : Decisions]

ASSUME GateAssumption ==
    /\ N \in Nat \ {0} /\ MaxPlans \in Nat /\ MaxEvidence \in Nat
    /\ InitialEvidence \subseteq Evidence

VARIABLES
    evidence,   \* records and claim decisions of every run root
    words,      \* the gate report on the disk holds a banned term
    gate, index, figure, manifest, transition,      \* the decision files
    session,    \* the notebook that runs: its profile and its next stage
    plans, changes,
    clean,      \* history: complete gate runs since the evidence changed
    passed      \* history: profiles whose gate has passed

files == <<gate, index, figure, manifest, transition>>
vars == <<evidence, words, files, session, plans, changes, clean, passed>>

Pass(b) == IF b THEN "PASS" ELSE "FAIL"
Idle == [profile |-> 0, stage |-> "none"]
\* paper_gate_and_package, stage by stage; a profile leaves out the transitions
\* of the other two.
FollowsSwapped == [gate |-> "index", index |-> "figure", figure |-> "transition",
                   transition |-> "manifest", manifest |-> "none"]
Follows == [gate |-> "index", index |-> "figure", figure |-> "manifest",
            manifest |-> "transition", transition |-> "none"]
Stages == DOMAIN Follows
Advance(p, s) == session' = IF Follows[s] = "none" THEN Idle ELSE [profile |-> p, stage |-> Follows[s]]
At(p, s) == session = [profile |-> p, stage |-> s]
NoFile == [decision |-> "missing", run |-> 0]
-----------------------------------------------------------------------------
\* The formality guard: no field, value or report line with a banned term.
\* The one exempt field name is runtime_attack_proxy_free; the adapter's
\* clean_negative_runtime_attack_proxy_free is not exempt.
FieldsClean(e) == e.scores # "formal" /\ e.ablation # "proxy"
FormalityGuard(e, w) == FieldsClean(e) /\ ~w

\* The other requirements of the gate; the posterior is read for itself.
EvidenceReady(e) ==
    /\ e.scores # "unsupported" /\ e.ablation = "formal"
    /\ {e.posterior, e.replay, e.complete} = {"PASS"}

\* The report of a gate run names the status of the ablation summary.
ReportWords(e, w) == e.ablation = "proxy"

Gate(p) ==
    /\ At(p, "gate")
    /\ LET e == evidence[p]
           guard == FormalityGuard(e, words[p])
       IN  /\ gate' = [gate EXCEPT ![p] =
                [decision |-> Pass(guard /\ EvidenceReady(e)), run |-> @.run + 1,
                 guard |-> Pass(guard),
                 weak |-> e.ablation = "proxy" \/ words[p]]]
           /\ words' = [words EXCEPT ![p] = ReportWords(e, @)]
           /\ passed' = IF guard /\ EvidenceReady(e) THEN passed \cup {p} ELSE passed
    /\ clean' = [clean EXCEPT ![p] = IF @ < 2 THEN @ + 1 ELSE @]
    /\ Advance(p, "gate")
    /\ UNCHANGED <<evidence, index, figure, manifest, transition, plans, changes>>

ReviewerIndex(p) ==
    /\ At(p, "index")
    /\ index' = [index EXCEPT ![p] =
            [decision |-> Pass(gate[p].decision = "PASS" /\ evidence[p].complete = "PASS"),
             run |-> gate[p].run]]
    /\ Advance(p, "index")
    /\ UNCHANGED <<evidence, words, gate, figure, manifest, transition, plans, changes, clean, passed>>

GateFigure(p) ==
    /\ At(p, "figure")
    /\ figure' = [figure EXCEPT ![p] = [decision |-> gate[p].decision, run |-> gate[p].run]]
    /\ Advance(p, "figure")
    /\ UNCHANGED <<evidence, words, gate, index, manifest, transition, plans, changes, clean, passed>>

PackageManifest(p) ==
    /\ At(p, "manifest")
    /\ manifest' = [manifest EXCEPT ![p] =
            [decision |-> Pass(/\ gate[p].decision = "PASS" /\ evidence[p].ablation = "formal"
                               /\ index[p].decision = "PASS" /\ figure[p].decision # "missing"),
             run |-> gate[p].run, index |-> index[p].decision]]
    /\ Advance(p, "manifest")
    /\ UNCHANGED <<evidence, words, gate, index, figure, transition, plans, changes, clean, passed>>

SourcePackagePassed(p) ==
    /\ manifest[p].decision = "PASS" /\ manifest[p].index = "PASS"
    /\ index[p].decision = "PASS" /\ figure[p].decision # "missing"

\* The transition into p itself; a run root holds no copy of its sibling's file.
UpstreamPassed(p) == p = 1 \/ transition[p - 1].decision = "PASS"

StageTransition(p) ==
    /\ At(p, "transition")
    /\ transition' = [transition EXCEPT ![p] =
            [decision |-> Pass(/\ gate[p].decision = "PASS" /\ gate[p].guard = "PASS"
                               /\ SourcePackagePassed(p) /\ UpstreamPassed(p)),
             run |-> gate[p].run,
             rests |-> {gate[p].run, index[p].run, figure[p].run, manifest[p].run},
             posterior |-> evidence[p].posterior]]
    /\ Advance(p, "transition")
    /\ UNCHANGED <<evidence, words, gate, index, figure, manifest, plans, changes, clean, passed>>
-----------------------------------------------------------------------------
StartPlan(p) ==
    /\ session = Idle /\ plans < MaxPlans
    /\ session' = [profile |-> p, stage |-> "gate"] /\ plans' = plans + 1
    /\ UNCHANGED <<evidence, words, files, changes, clean, passed>>

\* The measurement notebooks: the records of the baselines and of the ablation.
Measure(p) ==
    /\ session = Idle /\ changes < MaxEvidence
    /\ \E s \in Scores, a \in Ablations :
            evidence' = [evidence EXCEPT ![p].scores = s, ![p].ablation = a]
    /\ changes' = changes + 1 /\ clean' = [clean EXCEPT ![p] = 0]
    /\ UNCHANGED <<words, files, session, plans, passed>>

\* The detection stage: claims 1 and 2 and the held-out posterior.
FlowEvidence(p) ==
    /\ session = Idle /\ changes < MaxEvidence
    /\ \E c, h \in {"PASS", "FAIL"} :
            evidence' = [evidence EXCEPT ![p].claims = c, ![p].posterior = h]
    /\ session' = [profile |-> p, stage |-> "replay"]
    /\ changes' = changes + 1 /\ clean' = [clean EXCEPT ![p] = 0]
    /\ UNCHANGED <<words, files, plans, passed>>

\* The replay stage of the postprocess notebook: claim 3 and the complete claim.
ReplayGate(p) ==
    /\ At(p, "replay")
    /\ \E controls \in BOOLEAN :
        LET r == Pass(controls /\ evidence[p].posterior = "PASS")
        IN  evidence' = [evidence EXCEPT ![p].replay = r,
                ![p].complete = Pass(evidence[p].claims = "PASS" /\ r = "PASS")]
    /\ session' = Idle
    /\ UNCHANGED <<words, files, plans, changes, clean, passed>>

\* The runtime is taken away; everything on the disk stays.
SessionCut ==
    /\ session # Idle
    /\ session' = Idle
    /\ UNCHANGED <<evidence, words, files, plans, changes, clean, passed>>

Finished == session = Idle /\ plans = MaxPlans /\ changes = MaxEvidence /\ UNCHANGED vars

Init ==
    /\ evidence \in [Profiles -> InitialEvidence]
    /\ words = [p \in Profiles |-> FALSE]
    /\ gate = [p \in Profiles |-> [decision |-> "missing", run |-> 0, guard |-> "missing", weak |-> FALSE]]
    /\ index = [p \in Profiles |-> NoFile] /\ figure = [p \in Profiles |-> NoFile]
    /\ manifest = [p \in Profiles |-> [decision |-> "missing", run |-> 0, index |-> "missing"]]
    /\ transition = [p \in Profiles |-> [decision |-> "missing", run |-> 0, rests |-> {}, posterior |-> "missing"]]
    /\ session = Idle /\ plans = 0 /\ changes = 0
    /\ clean = [p \in Profiles |-> 0] /\ passed = {}

Next ==
    \/ SessionCut \/ Finished
    \/ \E p \in Profiles :
        \/ StartPlan(p) \/ Gate(p) \/ ReviewerIndex(p) \/ GateFigure(p)
        \/ PackageManifest(p) \/ StageTransition(p)
        \/ Measure(p) \/ FlowEvidence(p) \/ ReplayGate(p)

Spec == Init /\ [][Next]_vars
-----------------------------------------------------------------------------
TypeOK ==
    /\ evidence \in [Profiles -> Evidence] /\ words \in [Profiles -> BOOLEAN]
    /\ gate \in [Profiles -> [decision : Decisions, run : 0 .. MaxPlans, guard : Decisions, weak : BOOLEAN]]
    /\ index \in [Profiles -> [decision : Decisions, run : 0 .. MaxPlans]]
    /\ figure \in [Profiles -> [decision : Decisions, run : 0 .. MaxPlans]]
    /\ manifest \in [Profiles -> [decision : Decisions, run : 0 .. MaxPlans, index : Decisions]]
    /\ transition \in [Profiles -> [decision : Decisions, run : 0 .. MaxPlans,
                                    rests : SUBSET (0 .. MaxPlans), posterior : Decisions]]
    /\ session \in [profile : 0 .. N, stage : {"none", "replay"} \cup Stages]
    /\ plans \in 0 .. MaxPlans /\ changes \in 0 .. MaxEvidence /\ clean \in [Profiles -> 0 .. 2]
    /\ passed \subseteq Profiles

\* No profile is skipped: when the transition out of a profile passes, its gate
\* and the gates of all the profiles before it have passed at some time.
NothingIsSkipped ==
    \A p \in Profiles : transition[p].decision = "PASS" => 1 .. p \subseteq passed

\* A PASS lets the next profile start on the files of one gate run, whatever was
\* cut before: never on the manifest or the index of an earlier verdict.
TransitionIsOneRun ==
    \A p \in Profiles : transition[p].decision = "PASS" =>
        transition[p].rests = {transition[p].run}

\* Nobody goes on to the next profile on a replay verdict that outlived its
\* posterior: a detection stage that was re-run and failed, and was cut before
\* the replay stage, blocks the transition.
StaleReplayBlocks ==
    \A p \in Profiles : transition[p].decision = "PASS" => transition[p].posterior = "PASS"

\* The gate reads its own report among the files it scans, so one bad verdict
\* may taint the next; evidence that is clean passes at the second run.
CleanEvidencePasses ==
    \A p \in Profiles :
        (clean[p] = 2 /\ EvidenceReady(evidence[p]) /\ evidence[p].scores = "older")
            => gate[p].decision = "PASS"

\* A profile lets the next one start only on what passed, in one run, in order.
GateIsSafe ==
    TypeOK /\ NothingIsSkipped /\ TransitionIsOneRun /\ StaleReplayBlocks /\ CleanEvidencePasses

\* The comment of _scan_mapping: a field that says an attack is no proxy is told
\* apart from a proxy result, so the guard fails for weak evidence only.
GuardFailsForWeakEvidence ==
    \A p \in Profiles : gate[p].guard = "FAIL" => gate[p].weak
=============================================================================
