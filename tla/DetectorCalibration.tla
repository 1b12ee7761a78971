------------------------- MODULE DetectorCalibration -------------------------
(*********************************************************************************)
(* Freezing the detector on the calibration split (fit_flow_detector_            *)
(* calibration): nested cross-fitting over source-video clusters, then the       *)
(* threshold of a fixed false positive rate over the clusters without a          *)
(* watermark.  A cluster holds records of one hypothesis or of both, and a model *)
(* is the set of clusters it was fitted on: what a record's score depends on.    *)
(*********************************************************************************)
EXTENDS Integers, FiniteSets

CONSTANTS
    Clusters,      \* how many source-video clusters; their names in order are 1 ..
    MaximumFolds,
    Levels,        \* the largest probability
    Share          \* the target false positive rate is one in Share

CalibrationAssumption ==
    /\ {Clusters, MaximumFolds, Levels, Share} \subseteq Nat \ {0}
    /\ MaximumFolds >= 3   \* no caller gives another than five

Groups == 1 .. Clusters
NoModel == {}

VARIABLES labels,      \* the hypotheses of which a cluster has records
          fold,        \* the next outer fold
          model,       \* the clusters behind the nested score of a cluster
          inner,       \* the least number of inner folds so far
          trials,      \* of a cluster of H0 that has been scored, its two trials
          session      \* "fit", "freeze", "done" or "raised"

vars == <<labels, fold, model, inner, trials, session>>

Trials == {t \in (0 .. Levels) \X (0 .. Levels) : t[1] <= t[2]}

Init ==
    /\ labels \in [Groups -> {{0}, {1}, {0, 1}}]
    /\ fold = 0
    /\ model = [g \in Groups |-> NoModel]
    /\ inner = MaximumFolds
    /\ trials = [g \in {} |-> <<0, 0>>]
    /\ session = "fit"

----------------------------------------------------------------------------
(* Folds of a set of clusters                                               *)

Least(a, b) == IF a <= b THEN a ELSE b

Of(S, label) == {g \in S : label \in labels[g]}

BothIn(S) == Of(S, 0) # {} /\ Of(S, 1) # {}

Enough(S) == Cardinality(Of(S, 0)) >= 2 /\ Cardinality(Of(S, 1)) >= 2

FoldCount(S) ==
    Least(MaximumFolds, Least(Cardinality(Of(S, 0)), Cardinality(Of(S, 1))))

\* Clusters are dealt out in the order of their names, those with the same hypotheses
\* by themselves.
FoldOf(S, g) ==
    Cardinality({h \in S : h < g /\ labels[h] = labels[g]}) % FoldCount(S)

FoldIn(S, f) == {g \in S : FoldOf(S, g) = f}

\* Mutant of Training: the models are fitted once, on everything.
TrainingOnAll(S, f) == S

Training(S, f) == S \ FoldIn(S, f)

\* The inner folds of the clusters an outer model is fitted on.
InnerFits(S) == Enough(S) /\ \A f \in 0 .. FoldCount(S) - 1 : BothIn(Training(S, f))

OuterFits(f) ==
    /\ FoldIn(Groups, f) # {}
    /\ BothIn(Training(Groups, f))
    /\ InnerFits(Training(Groups, f))

----------------------------------------------------------------------------
(* The fit                                                                  *)

\* The models and the mapping of one outer fold score the clusters left out of them.
OuterFold ==
    /\ session = "fit" /\ Enough(Groups) /\ fold < FoldCount(Groups)
    /\ IF OuterFits(fold)
       THEN /\ model' = [g \in Groups |-> IF g \in FoldIn(Groups, fold)
                                          THEN Training(Groups, fold) ELSE model[g]]
            /\ inner' = Least(inner, FoldCount(Training(Groups, fold)))
            /\ UNCHANGED session
       ELSE session' = "raised" /\ UNCHANGED <<model, inner>>
    /\ fold' = fold + 1
    /\ UNCHANGED <<labels, trials>>

TooFew ==
    /\ session = "fit" /\ ~Enough(Groups)
    /\ session' = "raised"
    /\ UNCHANGED <<labels, fold, model, inner, trials>>

\* The metrics, the final mapping and the final thresholds need every record scored.
FinalModel ==
    /\ session = "fit" /\ Enough(Groups) /\ fold = FoldCount(Groups)
    /\ session' = IF \A g \in Groups : model[g] # NoModel THEN "freeze" ELSE "raised"
    /\ UNCHANGED <<labels, fold, model, inner, trials>>

Scored == DOMAIN trials
Unscored == Of(Groups, 0) \ Scored

\* A trial keeps its probability only when it is admitted by the fold's thresholds.
Conservative(probability, admitted) == IF admitted THEN probability ELSE 0

\* The clusters are scored in the order of their names.
ScoreCluster ==
    /\ session = "freeze"
    /\ \E g \in Unscored, p, q \in 0 .. Levels, a, b \in BOOLEAN :
           /\ \A h \in Unscored : g <= h
           /\ LET u == Conservative(p, a)
                  v == Conservative(q, b)
                  t == IF u <= v THEN <<u, v>> ELSE <<v, u>>
              IN trials' = [h \in Scored \cup {g} |-> IF h = g THEN t ELSE trials[h]]
    /\ UNCHANGED <<labels, fold, model, inner, session>>

Freeze ==
    /\ session = "freeze" /\ Unscored = {}
    /\ session' = "done"
    /\ UNCHANGED <<labels, fold, model, inner, trials>>

Done == session \in {"done", "raised"} /\ UNCHANGED vars

Next == OuterFold \/ TooFew \/ FinalModel \/ ScoreCluster \/ Freeze \/ Done

Spec == Init /\ [][Next]_vars

----------------------------------------------------------------------------
(* The threshold, doubled: between two levels there is room for the next float. *)

\* Repeated trials of one video are one event, as high as the highest.
ClusterScore(t) == t[2]

AtLeast(v) == Cardinality({g \in Scored : ClusterScore(trials[g]) >= v})

Allowed == Cardinality(Scored) \div Share

Observed == {ClusterScore(trials[g]) : g \in Scored}

Highest == CHOOSE v \in Observed : \A w \in Observed : w <= v

Candidates == {v \in Observed : AtLeast(v) <= Allowed}

Threshold ==
    IF Allowed = 0 \/ Candidates = {} THEN 2 * Highest + 1
    ELSE 2 * (CHOOSE v \in Candidates : \A w \in Candidates : v <= w)

Detects(score) == 2 * score >= Threshold

\* What frozen_flow_detector_calibration_from_dict asks of a frozen artifact.
ArtifactAccepted ==
    /\ Cardinality(Of(Groups, 0)) >= 2 /\ Cardinality(Of(Groups, 1)) >= 2
    /\ Clusters >= 2
    /\ FoldCount(Groups) >= 2 /\ inner >= 2

----------------------------------------------------------------------------
(* Properties                                                               *)

\* Every cluster has a score of models that saw other clusters, and nothing is left over.
TypeOK ==
    /\ labels \in [Groups -> {{0}, {1}, {0, 1}}]
    /\ fold \in 0 .. MaximumFolds
    /\ model \in [Groups -> SUBSET Groups]
    /\ inner \in 1 .. MaximumFolds
    /\ Scored \subseteq Of(Groups, 0) /\ trials \in [Scored -> Trials]
    /\ session \in {"fit", "freeze", "done", "raised"}

\* No cluster's own records are behind its score, at either level of the nesting, so the
\* threshold and the metrics are of videos the models have not seen.
ScoresAreHeldOut == \A g \in Groups : g \notin model[g]

\* The guards at the top ask for two clusters of each hypothesis; a fit that succeeds had
\* three, and its artifact is one the later reader accepts.
SuccessIsAccepted ==
    session \in {"freeze", "done"} =>
        /\ ArtifactAccepted
        /\ \A g \in Groups : BothIn(model[g])
        /\ Cardinality(Of(Groups, 0)) >= 3 /\ Cardinality(Of(Groups, 1)) >= 3

\* The replay runner gives clusters with an attacked positive and its controlled
\* negatives, and clusters of clean trials: three of the first kind are always enough,
\* whatever the number of the second.
ReplayedVideosFit ==
    session = "raised" =>
        \/ \E g \in Groups : labels[g] = {1}
        \/ Cardinality(Of(Groups, 1)) < 3

\* Of the clusters without a watermark no more than the target rate have a trial that is
\* detected.
RateIsOfVideos ==
    session = "done" =>
        Cardinality({g \in Scored : Detects(trials[g][2])}) * Share <= Cardinality(Scored)

\* And the threshold is no higher than that takes: one level lower the rate is exceeded.
ThresholdIsLowest ==
    session = "done" =>
        \A v \in Observed : 2 * v < Threshold => AtLeast(v) * Share > Cardinality(Scored)

=============================================================================
