----------------------------- MODULE FlowEvidence -----------------------------
(*********************************************************************************)
(* The replay of attacked and clean videos into flow evidence and the decision   *)
(* on it (run_formal_flow_evidence).  A source is replayed by itself; one that   *)
(* raises may leave part of its records among the evidence.  Variants stand for  *)
(* the generation variants, of which "full" has controls and detector ablations; *)
(* what the statistics say is chosen once every record is scored.                *)
(*********************************************************************************)
EXTENDS Integers, FiniteSets

CONSTANTS
    Tests, Calibrations,   \* identities (prompt and seed) of the two splits, numbered
    Maximum,               \* of identities in the causal block, and pairs the claim needs
    TrialCount,            \* of candidate keys per variant and clean video
    NeededClusters,        \* with either hypothesis, for a calibration that can be fitted
    Losses, Failures       \* bounds: videos not generated, and sources that raise

Variants == {"full", "no_velocity"}
Identities == Tests \cup Calibrations
SplitOf(i) == IF i \in Tests THEN Tests ELSE Calibrations

FlowEvidenceAssumption ==
    /\ Tests \cup Calibrations \subseteq Nat /\ Tests \cap Calibrations = {}
    /\ IsFiniteSet(Tests)
    /\ {Maximum, TrialCount, NeededClusters} \subseteq Nat \ {0}
    /\ {Losses, Failures} \subseteq Nat

VARIABLES generated,   \* the videos of the earlier stage
          revisionsAgree,   \* every model has one revision in its records
          outcome,     \* of a source that has been replayed: its records, and whether it raised
          session,     \* "select", "noise", "replay", "score", "write" or an end
          result,      \* what the statistics say, and the designs that match
          disk         \* per file, who wrote it and which decision it holds

vars == <<generated, revisionsAgree, outcome, session, result, disk>>

----------------------------------------------------------------------------
(* Sources                                                                  *)

\* An identity whose every variant was generated.
Complete(i) == \A v \in Variants : <<i, v>> \in generated

\* The first ones of each split, in an order fixed before anything is detected.
Selected == {i \in Identities :
    Complete(i) /\ Cardinality({j \in SplitOf(i) : Complete(j) /\ j < i}) < Maximum}

AttackSources == {<<"attack", i, "full">> : i \in {j \in Identities : <<j, "full">> \in generated}}
BlockSources == {<<"block", i, v>> : i \in Selected, v \in Variants} \cap
                {<<"block", g[1], g[2]>> : g \in generated}
CleanSources == {<<"clean", i, "all">> : i \in Identities}
Positives == AttackSources \cup BlockSources
Sources == Positives \cup CleanSources

Units == Cardinality(Variants) * TrialCount

\* The records a source leaves, in the order they are added.  A positive of the full method
\* is followed by its three controlled negatives at once.
FullCount(s) == IF s[1] = "clean" THEN Units ELSE IF s[3] = "full" THEN 2 ELSE 1

\* Whether a source that raised has left n records: a clean one any number, a full
\* positive itself when its controls cannot be made, any source nothing.
PartlyReplayed(s, n) ==
    IF s[1] = "clean" THEN n \in 0 .. Units - 1 ELSE n < FullCount(s)

Replayed(s) == s \in DOMAIN outcome
FailureRecords == {s \in DOMAIN outcome : outcome[s].raised}

Pending == {s \in Sources : ~Replayed(s)}
NextSource == IF Pending \cap Positives # {} THEN CHOOSE s \in Pending \cap Positives : TRUE
              ELSE CHOOSE s \in Pending : TRUE

----------------------------------------------------------------------------
(* Evidence                                                                 *)

\* Attacked positives of a variant, and videos with a negative of it: full positives give
\* controlled ones, clean videos their trials, variant after variant.
PositivesOf(v) == {s \in Positives \cap DOMAIN outcome : s[3] = v /\ outcome[s].records >= 1}

Controlled == {s \in Positives \cap DOMAIN outcome : s[3] = "full" /\ outcome[s].records = 2}

Before(v) == IF v = "full" THEN 0 ELSE TrialCount

CleanOf(v) == {s \in CleanSources \cap DOMAIN outcome : outcome[s].records > Before(v)}

NegativesOf(v) == CleanOf(v) \cup (IF v = "full" THEN Controlled ELSE {})

VideosOf(S, identities) == {<<s[1] = "clean", s[2]>> : s \in {t \in S : t[2] \in identities}}

\* Every variant has a calibration of its own split and hypotheses, or scoring raises.
Fitted == \A v \in Variants :
    /\ Cardinality(VideosOf(PositivesOf(v), Calibrations)) >= NeededClusters
    /\ Cardinality(VideosOf(NegativesOf(v), Calibrations)) >= NeededClusters

\* A pair has both halves among the positives of the block, of the test split.
Pairs == {i \in Tests : \A v \in Variants : <<"block", i, v>> \in PositivesOf(v)}

Unmatched == Pairs \ result.matched

VelocityClaim ==
    /\ {s \in PositivesOf("full") : s[2] \in Tests} # {}
    /\ {s \in NegativesOf("full") : s[2] \in Tests} # {}
    /\ Cardinality(Pairs \cap result.matched) >= Maximum
    /\ Unmatched = {}
    /\ result.velocityGain

PathClaim == {s \in PositivesOf("full") : s[2] \in Tests} # {} /\ result.pathGain

Families == \A identities \in {Tests, Calibrations} :
    /\ VideosOf(CleanOf("full"), identities) # {}
    /\ VideosOf(Controlled, identities) # {}

Passes ==
    /\ FailureRecords = {}
    /\ \A v \in Variants : PositivesOf(v) # {}
    /\ Controlled # {}
    /\ result.posterior
    /\ Families
    /\ VelocityClaim /\ PathClaim

----------------------------------------------------------------------------
(* Files, in the order they are written                                     *)

Files == <<"records", "failures", "thresholds", "detection", "formal", "mechanism">>

Names == {Files[k] : k \in DOMAIN Files}
Entry == [by : {"nobody", "earlier", "this"}, pass : BOOLEAN]

Init ==
    /\ \E lost \in SUBSET (Identities \X Variants) :
           Cardinality(lost) <= Losses /\ generated = (Identities \X Variants) \ lost
    /\ revisionsAgree \in BOOLEAN
    /\ outcome = [s \in {} |-> [records |-> 0, raised |-> FALSE]]
    /\ session = "select"
    /\ result = [matched |-> {}, velocityGain |-> FALSE, pathGain |-> FALSE, posterior |-> FALSE]
    /\ \/ disk = [f \in Names |-> [by |-> "nobody", pass |-> FALSE]]
       \/ \E p \in BOOLEAN : disk = [f \in Names |-> [by |-> "earlier", pass |-> p]]

----------------------------------------------------------------------------
(* The run                                                                  *)

Select ==
    /\ session = "select"
    /\ session' = IF Positives # {} /\ revisionsAgree THEN "noise" ELSE "raised"
    /\ UNCHANGED <<generated, revisionsAgree, outcome, result, disk>>

\* The observation noise is fitted on the clean videos of the calibration split; all are
\* tried, then one that failed raises.
FitNoise ==
    /\ session = "noise"
    /\ \E failed \in SUBSET Calibrations :
           session' = IF failed = {} /\ Calibrations # {} THEN "replay" ELSE "raised"
    /\ UNCHANGED <<generated, revisionsAgree, outcome, result, disk>>

Replay ==
    /\ session = "replay" /\ Pending # {}
    /\ LET s == NextSource IN
       \E n \in 0 .. FullCount(s), raised \in BOOLEAN :
           /\ IF raised THEN PartlyReplayed(s, n) /\ Cardinality(FailureRecords) < Failures
              ELSE n = FullCount(s)
           /\ outcome' = [t \in DOMAIN outcome \cup {s} |->
                              IF t = s THEN [records |-> n, raised |-> raised]
                              ELSE outcome[t]]
    /\ UNCHANGED <<generated, revisionsAgree, session, result, disk>>

Score ==
    /\ session = "replay" /\ Pending = {}
    /\ \/ ~Fitted /\ session' = "raised" /\ UNCHANGED result
       \/ /\ Fitted /\ session' = "write"
          /\ \E matched \in SUBSET Pairs, v, p, q \in BOOLEAN :
                 result' = [matched |-> matched, velocityGain |-> v,
                            pathGain |-> p, posterior |-> q]
    /\ UNCHANGED <<generated, revisionsAgree, outcome, disk>>

Written == {k \in DOMAIN Files : disk[Files[k]].by = "this"}

Write ==
    /\ session = "write"
    /\ IF Written = DOMAIN Files
       THEN session' = "done" /\ UNCHANGED disk
       ELSE /\ disk' = [disk EXCEPT ![Files[Cardinality(Written) + 1]] =
                            [by |-> "this", pass |-> Passes]]
            /\ UNCHANGED session
    /\ UNCHANGED <<generated, revisionsAgree, outcome, result>>

Kill ==
    /\ session = "write" /\ session' = "killed"
    /\ UNCHANGED <<generated, revisionsAgree, outcome, result, disk>>

Done == session \in {"done", "raised", "killed"} /\ UNCHANGED vars

Next == Select \/ FitNoise \/ Replay \/ Score \/ Write \/ Kill \/ Done

Spec == Init /\ [][Next]_vars

----------------------------------------------------------------------------
(* Properties                                                               *)

\* An outcome is of a source there is, and only clean ones stop in the middle.
TypeOK ==
    /\ generated \subseteq Identities \X Variants
    /\ revisionsAgree \in BOOLEAN
    /\ DOMAIN outcome \subseteq Sources
    /\ \A s \in DOMAIN outcome : outcome[s].records \in 0 .. FullCount(s)
    /\ session \in {"select", "noise", "replay", "write", "done", "raised", "killed"}
    /\ result.matched \subseteq Pairs
    /\ disk \in [Names -> Entry]

Passed == disk["formal"] = [by |-> "this", pass |-> TRUE]

\* A decision that passes is about every video: no positive without its controls, no clean
\* video with a part of its trials, so that all variants are calibrated on the same videos.
PassIsWhole ==
    Passed =>
        /\ \A s \in Sources : Replayed(s) /\ outcome[s].records = FullCount(s)
        /\ \A v \in Variants : CleanOf(v) = CleanSources

\* And its velocity claim rests on every identity that was selected before detection: none
\* is dropped because its replay or its pairing failed, and there are as many as planned.
PairsArePlanned ==
    Passed =>
        /\ Pairs \cap result.matched = Selected \cap Tests
        /\ Cardinality(Selected \cap Tests) = Maximum

\* The decision is never newer than the records and thresholds it is about, and the reader
\* of one decision finds the other one saying the same unless the run was cut.
DecisionIsOfRecords ==
    /\ disk["formal"].by = "this" =>
           \A f \in {"records", "failures", "thresholds", "detection"} : disk[f].by = "this"
    /\ session # "killed" /\ session # "write" => \A f, g \in Names : disk[f] = disk[g]

=============================================================================
