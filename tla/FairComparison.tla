--------------------------- MODULE FairComparison ---------------------------
(*****************************************************************************)
(* From measured scores to the numbers of the paper, over one run root: two  *)
(* notebooks turn the score records of SSTW and of the baselines into a      *)
(* threshold per method (run_fair_detection_calibration), a comparison at    *)
(* that threshold, difference intervals, confidence intervals and the low-   *)
(* FPR statement.  Each stage reads the files the earlier ones left and      *)
(* writes its own whole; an upstream notebook may replace the scores at any  *)
(* time, a stage may raise, and a session may end between two stages.        *)
(*                                                                           *)
(* Scores are integers; "just above the highest score" is one more than it.  *)
(* A record is formal when its readiness predicate accepts it (evidence,     *)
(* anchor and orientation).  Bootstrap intervals are exact for two or three  *)
(* clusters: their lower end is the mean of the lowest cluster.              *)
(*****************************************************************************)
EXTENDS Integers, Sequences, FiniteSets, FiniteSetsExt, Combinatorics

CONSTANTS
    Sstw, Baselines,        \* the proposed method; the required baselines
    Paired,                 \* baselines that mark the same source videos
    Cells,                  \* source videos (prompt, seed)
    Split,                  \* what generation_records.jsonl says of a cell
    Attacks,                \* required runtime attacks
    Measurements,           \* what the upstream notebooks may have left on the disk
    TargetNum, TargetDen,   \* target_fpr
    MinClean, MinCalibration, MinHeldout, MinPositive,
    GenerationNegatives     \* generation records with a negative role

Methods == {Sstw} \cup Baselines
NoScore == -1
Splits == {"calibration", "heldout_test", ""}

\* The score rows of a method, by their places in its file: each has the split of its
\* cell or none has any, and a clean video has one score wherever it is repeated.
IsScoreFile(recs) ==
    /\ DOMAIN recs \subseteq Nat /\ IsFiniteSet(DOMAIN recs)
    /\ \A i \in DOMAIN recs :
         /\ recs[i].cell \in Cells /\ recs[i].formal \in BOOLEAN
         /\ {recs[i].score, recs[i].clean} \subseteq Nat \cup {NoScore}
    /\ \E s \in {Split, [c \in Cells |-> ""]} :
           \A i \in DOMAIN recs : recs[i].split = s[recs[i].cell]
    /\ \A i, j \in DOMAIN recs :
           /\ recs[i].cell = recs[j].cell /\ recs[i].unit = recs[j].unit
           /\ NoScore \notin {recs[i].clean, recs[j].clean}
           => recs[i].clean = recs[j].clean

ComparisonAssumption ==
    /\ Sstw \notin Baselines /\ Paired \subseteq Baselines /\ IsFiniteSet(Cells)
    /\ Split \in [Cells -> Splits]
    /\ TargetNum \in Nat /\ TargetDen \in Nat \ {0} /\ TargetNum < TargetDen
    /\ {MinClean, MinCalibration, MinHeldout, MinPositive, GenerationNegatives} \subseteq Nat
    /\ \A x \in Measurements :
         /\ IsScoreFile(x.detection) /\ x.generation \in BOOLEAN
         /\ DOMAIN x.official = Baselines /\ \A b \in Baselines : IsScoreFile(x.official[b])

VARIABLES
    upstream,       \* detection and official records, generation: the split file is there
    scores,         \* the two score files, as one function of the method
    fair,           \* fair_detection_calibration_records.jsonl
    comparison, difference, confidence, lowFpr,
    notebook, pc,   \* the notebook that runs and its next stage
    basis           \* history: what the last calibration read

outputs == <<comparison, difference, confidence, lowFpr>>
vars == <<upstream, scores, fair, outputs, notebook, pc, basis>>

Plan == [comparison |-> <<"sstw", "external", "calibrate", "compare", "difference">>,
         evidence |-> <<"confidence", "lowfpr">>]

Formal(recs) == [i \in {j \in DOMAIN recs : recs[j].formal} |-> recs[i]]
NoRecords == [m \in Methods |-> <<>>]
NoFair == [m \in {} |-> <<>>]
NoFile == [decision |-> "missing"]
-----------------------------------------------------------------------------
\* The split of a record: its own, or that of its cell.
SplitOf(r, gen) == IF r.split # "" THEN r.split ELSE IF gen THEN Split[r.cell] ELSE ""

IsNegative(r) == r.attack = ""
CleanReady(r) == r.clean # NoScore /\ r.formal
\* One clean video repeated with every attack of a baseline counts once.
SameUnit(r, s) == r.cell = s.cell /\ r.unit = s.unit

NegativeRows(recs) ==
    {i \in DOMAIN recs :
        /\ CleanReady(recs[i])
        /\ \A j \in DOMAIN recs : j < i /\ CleanReady(recs[j]) => ~SameUnit(recs[i], recs[j])}

\* Several key trials of one video count once, with their highest score.
ClusterScores(recs, rows) ==
    [c \in {recs[i].cell : i \in rows} |-> Max({recs[i].clean : i \in {k \in rows : recs[k].cell = c}})]

PositiveRows(recs) == {i \in DOMAIN recs : ~IsNegative(recs[i]) /\ recs[i].score # NoScore}

Above(clusters, t) == {c \in DOMAIN clusters : clusters[c] >= t}
WithinTarget(clusters, t) ==
    Cardinality(Above(clusters, t)) * TargetDen <= TargetNum * Cardinality(DOMAIN clusters)

Candidates(clusters) ==
    LET values == {clusters[c] : c \in DOMAIN clusters} IN values \cup {Max(values) + 1}

ThresholdFor(clusters) ==
    IF DOMAIN clusters = {} THEN NoScore
    ELSE Min({t \in Candidates(clusters) : WithinTarget(clusters, t)})

RowsOf(recs, gen, split) == {i \in NegativeRows(recs) : SplitOf(recs[i], gen) = split}
\* What decides the threshold: the clean negatives of the calibration split.
ThresholdRowsAll(recs, gen) == NegativeRows(recs)
ThresholdRows(recs, gen) == RowsOf(recs, gen, "calibration")
CalibrationClusters(recs, gen) == ClusterScores(recs, ThresholdRows(recs, gen))

CalibratedMethodRecord(recs, gen) ==
    LET negatives == NegativeRows(recs)
        heldNegatives == RowsOf(recs, gen, "heldout_test")
        positives == {i \in PositiveRows(recs) : recs[i].formal}
        held == {i \in positives : SplitOf(recs[i], gen) = "heldout_test"}
        calibration == CalibrationClusters(recs, gen)
        heldClusters == ClusterScores(recs, heldNegatives)
        threshold == ThresholdFor(calibration)
        anchor(i) == <<recs[i].cell, recs[i].attack>>
        attacks == {recs[i].attack : i \in held}
        missing == \/ Cardinality({recs[i].cell : i \in negatives}) < MinClean
                   \/ Cardinality(DOMAIN calibration) < MinCalibration
                   \/ Cardinality(DOMAIN heldClusters) < MinHeldout
                   \/ Cardinality(held) < MinPositive
                   \/ held = {}
                   \/ \E i \in PositiveRows(recs) : ~recs[i].formal
                   \/ \E i \in DOMAIN recs : recs[i].clean # NoScore /\ ~recs[i].formal
                   \/ ~(Attacks \subseteq attacks)
    IN [ready |-> ~missing /\ threshold # NoScore,
        threshold |-> threshold,
        anchors |-> {anchor(i) : i \in positives},
        attacks |-> attacks,
        units |-> IF threshold = NoScore THEN {}
                  ELSE {[anchor |-> anchor(i), detected |-> recs[i].score >= threshold] : i \in held},
        negatives |-> IF threshold = NoScore THEN {}
                      ELSE {[cell |-> c, positive |-> heldClusters[c] >= threshold] : c \in DOMAIN heldClusters},
        cleanCount |-> Cardinality({recs[i].cell : i \in negatives})]
-----------------------------------------------------------------------------
AllReady(f) == DOMAIN f = Methods /\ \A m \in Methods : f[m].ready

\* A method is compared when it is calibrated and measured at SSTW's anchors, no fewer
\* and no more.
Measured(f, m) ==
    /\ m \in DOMAIN f
    /\ f[m].ready
    /\ IF m = Sstw THEN f[m].anchors # {} ELSE f[m].anchors = f[Sstw].anchors
    /\ Attacks \subseteq f[m].attacks

Compared(f) == [decision |-> IF \A m \in Methods : Measured(f, m) THEN "PASS" ELSE "FAIL"]

Anchors(units) == {u.anchor : u \in units}
Videos(units) == {u.anchor[1] : u \in units}
Detected(units) == {u \in units : u.detected}
OfVideo(units, c) == {u \in units : u.anchor[1] = c}

Sum(S, f(_)) == MapThenSumSet(f, S)
\* Every video weighs the same, whatever the number of its attacks: the mean over the
\* videos of the share detected, over a common denominator.
Common == factorial[Cardinality(Attacks)]
VideoShare(units, c) ==
    (Cardinality(Detected(OfVideo(units, c))) * Common) \div Cardinality(OfVideo(units, c))
MeanOfVideos(units) ==
    [num |-> Sum(Videos(units), LAMBDA c : VideoShare(units, c)), den |-> Common * Cardinality(Videos(units))]
Rate(units) == [num |-> Cardinality(Detected(units)), den |-> Cardinality(units)]

Minus(a, b) == [num |-> a.num * b.den - b.num * a.den, den |-> a.den * b.den]
SameNumber(a, b) == a.num * b.den = b.num * a.den

\* One row of the difference intervals.
DifferenceRow(f, b) ==
    LET reference == f[Sstw].units
        units == f[b].units
        shared == Anchors(reference) \cap Anchors(units)
        both(us) == {u \in us : u.anchor \in shared}
        paired == b \in Paired
        estimated == IF paired THEN Cardinality({a[1] : a \in shared}) >= 2
                     ELSE Cardinality(Videos(reference)) >= 2 /\ Cardinality(Videos(units)) >= 2
        aligned == /\ reference # {}
                   /\ Anchors(reference) = Anchors(units)
                   /\ Attacks \subseteq {a[2] : a \in shared}
    IN [ready |-> estimated /\ aligned,
        delta |-> CASE estimated /\ paired -> Minus(MeanOfVideos(both(reference)), MeanOfVideos(both(units)))
                    [] estimated /\ ~paired -> Minus(MeanOfVideos(reference), MeanOfVideos(units))
                    [] OTHER -> [num |-> 0, den |-> 0]]

Differences(f) ==
    IF Methods \subseteq DOMAIN f
      THEN LET rows == [b \in Baselines |-> DifferenceRow(f, b)]
           IN [decision |-> IF \A b \in Baselines : rows[b].ready THEN "PASS" ELSE "FAIL", rows |-> rows]
      ELSE [decision |-> "FAIL"]

\* Clopper-Pearson: the upper bound is within the target when so few false positives
\* have probability at most 5% at the target.
UpperWithinTarget(k, n) ==
    20 * Sum(0 .. k, LAMBDA i : choose(n, i) * TargetNum^i * (TargetDen - TargetNum)^(n - i)) <= TargetDen^n

FalsePositives(negatives) == {n \in negatives : n.positive}
FprClosed(negatives) ==
    LET k == Cardinality(FalsePositives(negatives))
        n == Cardinality(negatives)
    IN n > 0 /\ k * TargetDen <= TargetNum * n /\ UpperWithinTarget(k, n)

OfAttack(units, a) == {u \in units : u.anchor[2] = a}
\* clustered_mean_interval refuses fewer than two clusters.
Refused(units) ==
    \/ Cardinality(Videos(units)) < 2
    \/ \E a \in Attacks : OfAttack(units, a) # {} /\ Cardinality(Videos(OfAttack(units, a))) < 2
ReadyMethods(f) == {m \in DOMAIN f : f[m].ready}
ConfidenceRaises(f) == \E m \in ReadyMethods(f) : Refused(f[m].units)

\* minimum_sstw_worst_attack_tpr_ci_lower is a half: with so few clusters the lower end
\* reaches it only when every one of them is detected.
WorstAttackReady(f) ==
    /\ Sstw \in ReadyMethods(f)
    /\ \A a \in Attacks : OfAttack(f[Sstw].units, a) # {} /\ \A u \in OfAttack(f[Sstw].units, a) : u.detected

ConfidenceOf(f) ==
    [decision |-> IF /\ ReadyMethods(f) # {}
                     /\ \A m \in ReadyMethods(f) :
                            /\ FprClosed(f[m].negatives)
                            /\ \A a \in Attacks : OfAttack(f[m].units, a) # {}
                     /\ WorstAttackReady(f)
                  THEN "PASS" ELSE "FAIL"]

NegativeEventCount(f, gen) ==
    LET counts == {f[m].cleanCount : m \in ReadyMethods(f)}
        generated == IF gen THEN GenerationNegatives ELSE 0
        calibrated == IF counts = {} THEN 0 ELSE Min(counts)
    IN Max({generated, calibrated})
\* The decision is PASS whether the claim is allowed or recorded as blocked.
LowFprOf(f, gen) == [decision |-> "PASS", allowed |-> NegativeEventCount(f, gen) >= MinHeldout]
-----------------------------------------------------------------------------
Init ==
    /\ upstream \in Measurements
    /\ scores = NoRecords /\ fair = NoFair
    /\ comparison = NoFile /\ difference = NoFile /\ confidence = NoFile /\ lowFpr = NoFile
    /\ notebook = "none" /\ pc = 0
    /\ basis = [scores |-> NoRecords, generation |-> FALSE]

\* Another notebook replaces what these two read.
Remeasure ==
    /\ notebook = "none"
    /\ upstream' \in Measurements
    /\ UNCHANGED <<scores, fair, outputs, notebook, pc, basis>>

StartNotebook ==
    /\ notebook = "none"
    /\ notebook' \in DOMAIN Plan /\ pc' = 1
    /\ UNCHANGED <<upstream, scores, fair, outputs, basis>>

At(stage) == notebook # "none" /\ pc <= Len(Plan[notebook]) /\ Plan[notebook][pc] = stage
Advance == pc' = pc + 1 /\ UNCHANGED notebook

\* run_sstw_measured_formal_result: only formal records are converted.
ConvertSstw ==
    /\ At("sstw")
    /\ scores' = [scores EXCEPT ![Sstw] = Formal(upstream.detection)]
    /\ Advance /\ UNCHANGED <<upstream, fair, outputs, basis>>

\* run_external_baseline_comparison: every measured record is written, formal or not.
CollectExternal ==
    /\ At("external")
    /\ scores' = [m \in Methods |-> IF m = Sstw THEN scores[Sstw] ELSE upstream.official[m]]
    /\ Advance /\ UNCHANGED <<upstream, fair, outputs, basis>>

Calibrate ==
    /\ At("calibrate")
    /\ fair' = [m \in Methods |-> CalibratedMethodRecord(scores[m], upstream.generation)]
    /\ basis' = [scores |-> scores, generation |-> upstream.generation]
    /\ Advance /\ UNCHANGED <<upstream, scores, outputs>>

Compare ==
    /\ At("compare")
    /\ comparison' = Compared(fair)
    /\ Advance /\ UNCHANGED <<upstream, scores, fair, difference, confidence, lowFpr, basis>>

Subtract ==
    /\ At("difference")
    /\ difference' = Differences(fair)
    /\ Advance /\ UNCHANGED <<upstream, scores, fair, comparison, confidence, lowFpr, basis>>

Estimate ==
    /\ At("confidence")
    /\ IF ConfidenceRaises(fair)
         THEN notebook' = "none" /\ pc' = 0 /\ UNCHANGED confidence
         ELSE confidence' = ConfidenceOf(fair) /\ Advance
    /\ UNCHANGED <<upstream, scores, fair, comparison, difference, lowFpr, basis>>

StateLowFpr ==
    /\ At("lowfpr")
    /\ lowFpr' = LowFprOf(fair, upstream.generation)
    /\ Advance /\ UNCHANGED <<upstream, scores, fair, comparison, difference, confidence, basis>>

EndNotebook ==
    /\ notebook # "none" /\ pc > Len(Plan[notebook])
    /\ notebook' = "none" /\ pc' = 0
    /\ UNCHANGED <<upstream, scores, fair, outputs, basis>>

\* The session ends between two stages; the files stay.
Disconnect ==
    /\ notebook # "none" /\ pc <= Len(Plan[notebook])
    /\ notebook' = "none" /\ pc' = 0
    /\ UNCHANGED <<upstream, scores, fair, outputs, basis>>

Next ==
    \/ Remeasure \/ StartNotebook \/ ConvertSstw \/ CollectExternal \/ Calibrate
    \/ Compare \/ Subtract \/ Estimate \/ StateLowFpr \/ EndNotebook \/ Disconnect

Spec == Init /\ [][Next]_vars
-----------------------------------------------------------------------------
Decisions == {"missing", "PASS", "FAIL"}
TypeOK ==
    /\ upstream \in Measurements
    /\ DOMAIN scores = Methods /\ DOMAIN fair \in {{}, Methods}
    /\ {comparison.decision, difference.decision, confidence.decision, lowFpr.decision} \subseteq Decisions
    /\ notebook \in {"none"} \cup DOMAIN Plan
    /\ pc \in 0 .. 6

\* What the last calibration read, by definition and without its helpers.
MeasuredNegatives(m, split) ==
    {c \in Cells : \E i \in DOMAIN basis.scores[m] :
        LET r == basis.scores[m][i]
        IN r.cell = c /\ CleanReady(r) /\ SplitOf(r, basis.generation) = split}
PassesAt(m, c, t) ==
    \E i \in DOMAIN basis.scores[m] :
        LET r == basis.scores[m][i] IN r.cell = c /\ CleanReady(r) /\ r.clean >= t
FalseVideos(m, split, t) == {c \in MeasuredNegatives(m, split) : PassesAt(m, c, t)}

\* At every threshold the share of the calibration videos with a trial at or above it is
\* within the target, and any lower one that takes in one more video takes in too many
\* (_threshold_for_target_fpr).
ThresholdIsLowest ==
    \A m \in DOMAIN fair : fair[m].threshold # NoScore =>
        LET n == Cardinality(MeasuredNegatives(m, "calibration"))
            above(t) == FalseVideos(m, "calibration", t)
            within(set) == Cardinality(set) * TargetDen <= TargetNum * n
            held == above(fair[m].threshold)
        IN  /\ within(held)
            /\ \A t \in 0 .. fair[m].threshold - 1 : above(t) = held \/ ~within(above(t))

DecidingScores(recs, gen) == ClusterScores(recs, RowsOf(recs, gen, "calibration"))
\* A calibration moves the threshold of a method only when a clean negative of its
\* calibration split has changed: nothing measured on the held-out split reaches it
\* (test_time_threshold_update_blocked).
ThresholdIsFrozen ==
    [][\A m \in DOMAIN fair : fair'[m].threshold # fair[m].threshold =>
        DecidingScores(basis'.scores[m], basis'.generation)
            # DecidingScores(basis.scores[m], basis.generation)]_fair

\* When all methods are calibrated and the confidence of this calibration passed, the
\* held-out false positive rate of every method, counted over videos from its records,
\* is within the target with its upper bound (audit_statistical_confidence_interval).
PassHoldsForVideos ==
    DOMAIN fair = Methods /\ AllReady(fair) /\ confidence = ConfidenceOf(fair) /\ confidence.decision = "PASS" =>
        \A m \in Methods :
            LET n == Cardinality(MeasuredNegatives(m, "heldout_test"))
                k == Cardinality(FalseVideos(m, "heldout_test", fair[m].threshold))
            IN n >= MinHeldout /\ k * TargetDen <= TargetNum * n /\ UpperWithinTarget(k, n)

\* A comparison that passed compares detection rates over the same held-out anchors and
\* all required attacks, and each rate counts the records at or above the threshold of
\* its own method (formal_method_baseline_comparison).
ComparisonIsMatched ==
    comparison.decision = "PASS" /\ comparison = Compared(fair) =>
        \A m \in Methods :
            /\ Anchors(fair[m].units) = Anchors(fair[Sstw].units)
            /\ Attacks \subseteq {a[2] : a \in Anchors(fair[m].units)}
            /\ \A c \in Videos(fair[m].units) : c \notin MeasuredNegatives(m, "calibration")

\* A comparison notebook that ran to its end leaves files of one evidence: what is on
\* the disk is what its stages make of the upstream results.
FinishedIsFresh ==
    notebook = "comparison" /\ pc > Len(Plan.comparison) =>
        /\ scores = [m \in Methods |-> IF m = Sstw THEN Formal(upstream.detection) ELSE upstream.official[m]]
        /\ fair = [m \in Methods |-> CalibratedMethodRecord(scores[m], upstream.generation)]
        /\ comparison = Compared(fair) /\ difference = Differences(fair)

\* Expected to fail: the report of the difference intervals says the estimate is the
\* difference of the two detection rates (formal_baseline_difference_interval.py).
DifferenceIsOfRates ==
    difference.decision = "PASS" /\ difference = Differences(fair) =>
        \A b \in Baselines :
            SameNumber(difference.rows[b].delta, Minus(Rate(fair[Sstw].units), Rate(fair[b].units)))

\* Expected to fail: the count behind an allowed low-FPR claim is a lower bound of the
\* clean negatives every method has (low_fpr_formal_statistics.py).
LowFprIsBacked ==
    lowFpr.decision = "PASS" /\ lowFpr = LowFprOf(fair, upstream.generation) /\ DOMAIN fair = Methods /\ lowFpr.allowed =>
        \A m \in Methods : fair[m].cleanCount >= MinHeldout
=============================================================================
