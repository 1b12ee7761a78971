---------------------------- MODULE MotionCalibration ----------------------------
(**********************************************************************************)
(* The motion threshold (motion_threshold_calibration).  Scores of videos with    *)
(* no motion are cleaned of contaminated prompts and of a tail, a quantile of the *)
(* rest is frozen, and videos with motion must pass it.  Scores are integers and  *)
(* multiples of Unit, so that medians and deviations are exact; a list of scores  *)
(* is a function of the videos they are of, as only its order statistics matter.  *)
(**********************************************************************************)
EXTENDS Integers, FiniteSets

CONSTANTS
    Prompts, SeedCount,    \* static prompts, and how many seeds each has
    PositiveCount,         \* how many videos with motion there are
    Unit, ScoreSteps,      \* scores are Unit * (0 .. ScoreSteps)
    FprNum, FprDen,        \* the target rate of static videos over the threshold
    MotionDeltaMin,        \* the heuristic threshold
    MinNegative, MinPositive, MinPasses,   \* counts; the last stands for both pass rates
    EnoughSeeds, EnoughRecords   \* for a verdict on a prompt, and for a tail

Videos == Prompts \X (1 .. SeedCount)
Scores == {Unit * k : k \in 0 .. ScoreSteps}

MotionCalibrationAssumption ==
    /\ IsFiniteSet(Prompts)
    /\ {Unit, FprDen, MinPositive, MinPasses, EnoughRecords} \subseteq Nat \ {0}
    /\ Unit % 4 = 0
    /\ FprNum \in 0 .. FprDen
    /\ {SeedCount, PositiveCount, ScoreSteps, MotionDeltaMin} \subseteq Nat
    /\ {MinNegative, EnoughSeeds} \subseteq Nat

VARIABLES
    static,    \* the scores of the static videos that could be used
    motion,    \* and those of the videos with motion
    ready,     \* enough of all usable videos have good quality
    audit      \* what the calibration froze, once it has run

vars == <<static, motion, ready, audit>>

Decisions == {"PASS", "INSUFFICIENT_SAMPLE", "FAIL_NOT_SEPARABLE"}
NoScores == [v \in {} |-> 0]

----------------------------------------------------------------------------
(* Order statistics                                                         *)

Count(f) == Cardinality(DOMAIN f)
Only(f, S) == [v \in S |-> f[v]]
AtMost(f, t) == {v \in DOMAIN f : f[v] <= t}
Above(f, t) == {v \in DOMAIN f : f[v] > t}

\* The k-th of the scores in ascending order.
Ranked(f, k) ==
    CHOOSE x \in {f[v] : v \in DOMAIN f} :
        /\ Cardinality(AtMost(f, x)) >= k
        /\ Cardinality({v \in DOMAIN f : f[v] < x}) < k

\* round(), to the even neighbour of a half.
Rounded(num, den) ==
    LET q == num \div den  rest == 2 * (num % den)
    IN IF rest < den \/ (rest = den /\ q % 2 = 0) THEN q ELSE q + 1

\* Mutant of Quantile: the fraction is cut, not rounded.
QuantileCut(f, num, den) == Ranked(f, 1 + ((Count(f) - 1) * num) \div den)

Quantile(f, num, den) == Ranked(f, 1 + Rounded((Count(f) - 1) * num, den))

Median(f) ==
    (Ranked(f, 1 + ((Count(f) - 1) \div 2)) + Ranked(f, 1 + (Count(f) \div 2))) \div 2

Distance(a, b) == IF a > b THEN a - b ELSE b - a

MedianAbsDeviation(f) == Median([v \in DOMAIN f |-> Distance(f[v], Median(f))])

----------------------------------------------------------------------------
(* Contamination                                                            *)

OfPrompt(f, p) == Only(f, {v \in DOMAIN f : v[1] = p})

\* The margin is smaller than any distance of a score to a median.
PreliminaryCutoff(f) ==
    LET mad == MedianAbsDeviation(f)
    IN Median(f) + (IF mad = 0 THEN 1 ELSE 3 * mad)

\* A prompt with enough seeds whose median, or half of whose scores, are over the cutoff.
Contaminated(f) ==
    LET cutoff == PreliminaryCutoff(f)
        bad(g) == \/ Median(g) > cutoff
                  \/ 2 * Cardinality(Above(g, cutoff)) >= Count(g)
    IN {p \in Prompts : /\ Count(OfPrompt(f, p)) > 0 /\ Count(OfPrompt(f, p)) >= EnoughSeeds
                        /\ bad(OfPrompt(f, p))}

Larger(a, b) == IF a > b THEN a ELSE b

\* The tail of what is left: three interquartile ranges over the third quartile.
TailCutoff(f) ==
    LET q1 == Quantile(f, 1, 4)  q3 == Quantile(f, 3, 4)
    IN Larger(MotionDeltaMin, q3 + 3 * (q3 - q1))

PromptClean(f) == Only(f, {v \in DOMAIN f : v[1] \notin Contaminated(f)})

Clean(f) ==
    LET kept == PromptClean(f)
    IN IF Count(kept) < EnoughRecords THEN kept
       ELSE Only(kept, AtMost(kept, TailCutoff(kept)))

----------------------------------------------------------------------------
(* Threshold and decision                                                   *)

\* The quantile that leaves the target rate above it; the heuristic one of no scores.
ThresholdOf(f) ==
    IF DOMAIN f = {} THEN MotionDeltaMin ELSE Quantile(f, FprDen - FprNum, FprDen)

Passing(t) == {k \in DOMAIN motion : motion[k] >= t}

Missing ==
    {x \in {"negative_count", "positive_count", "pass_rate", "quality"} :
        \/ x = "negative_count" /\ Count(static) < MinNegative
        \/ x = "positive_count" /\ Count(motion) < MinPositive
        \/ /\ x = "pass_rate" /\ DOMAIN motion # {}
           /\ Cardinality(Passing(audit.threshold)) < MinPasses
        \/ x = "quality" /\ (DOMAIN static # {} \/ DOMAIN motion # {}) /\ ~ready}

RateKept ==
    FprDen * Cardinality(Above(audit.clean, audit.threshold)) <= FprNum * Count(audit.clean)

\* A calibration that misses nothing may still not be ready.
CalibrationDecision ==
    CASE Missing = {} /\ DOMAIN audit.clean # {} /\ RateKept -> "PASS"
      [] Missing \cap {"negative_count", "positive_count"} # {} -> "INSUFFICIENT_SAMPLE"
      [] OTHER -> "FAIL_NOT_SEPARABLE"

----------------------------------------------------------------------------
\* Any usable static videos with any scores.  The seeds of a prompt can be exchanged: those
\* that could be used come first, and the lower scores before the higher.
Init ==
    /\ \E usable \in SUBSET Videos :
           /\ \A v \in usable : v[2] > 1 => <<v[1], v[2] - 1>> \in usable
           /\ static \in [usable -> Scores]
           /\ \A v \in usable : v[2] > 1 => static[<<v[1], v[2] - 1>>] <= static[v]
    /\ motion = NoScores /\ ready = TRUE
    /\ audit = [decision |-> "none", threshold |-> MotionDeltaMin, clean |-> NoScores]

Freeze ==
    /\ audit.decision = "none"
    /\ audit' = [decision |-> "frozen", threshold |-> ThresholdOf(Clean(static)),
                 clean |-> Clean(static)]
    /\ UNCHANGED static
    \* Any videos with motion, and good quality or not.
    /\ \E n \in {0, PositiveCount}, low \in Scores :
           motion' = [k \in 1 .. n |-> IF k = 1 THEN low ELSE Unit * ScoreSteps]
    /\ ready' \in BOOLEAN

Decide ==
    /\ audit.decision = "frozen"
    /\ audit' = [audit EXCEPT !.decision = CalibrationDecision]
    /\ UNCHANGED <<static, motion, ready>>

Done == audit.decision \in Decisions /\ UNCHANGED vars

Next == Freeze \/ Decide \/ Done

Spec == Init /\ [][Next]_vars

----------------------------------------------------------------------------
(* Properties                                                               *)

Frozen == audit.decision # "none"

\* The threshold is a score of a clean static video, or the heuristic one when there is none.
TypeOK ==
    /\ ready \in BOOLEAN
    /\ audit.decision \in {"none", "frozen"} \cup Decisions
    /\ DOMAIN audit.clean \subseteq Videos /\ audit.clean \in [DOMAIN audit.clean -> Scores]
    /\ audit.threshold \in {MotionDeltaMin} \cup {audit.clean[v] : v \in DOMAIN audit.clean}

\* Whatever the scores, the two filters together never throw every static video away: the
\* heuristic threshold stands in only when there was none to begin with.
SomethingIsLeft == Frozen /\ DOMAIN static # {} => DOMAIN audit.clean # {}

\* Nearest rank lets at most half a video more over the threshold than the rate allows.
RateIsNear ==
    Frozen /\ DOMAIN audit.clean # {} =>
        2 * FprDen * Cardinality(Above(audit.clean, audit.threshold))
            <= 2 * FprNum * (Count(audit.clean) - 1) + FprDen

\* While the threshold of all videos is not itself over the first cutoff, the filters make it
\* lower, never higher (for target rates to a quarter): of a prompt that is left out, at least
\* half is over the cutoff.  A threshold over the cutoff they may raise.
FilterNeverRaises ==
    /\ Frozen /\ 4 * FprNum <= FprDen
    /\ DOMAIN static # {} /\ ThresholdOf(static) <= PreliminaryCutoff(static)
    => audit.threshold <= ThresholdOf(static)

\* A calibration with enough good videos, every one with motion above every clean static one,
\* is not called inseparable (docs/builds/phases/motion_threshold_calibration_build.md:97).
FailMeansInseparable ==
    audit.decision = "FAIL_NOT_SEPARABLE" /\ ready =>
        \E k \in DOMAIN motion, v \in DOMAIN audit.clean : motion[k] <= audit.clean[v]

=============================================================================
