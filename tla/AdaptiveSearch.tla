--------------------------- MODULE AdaptiveSearch ---------------------------
(*****************************************************************************)
(* The sequential searches of the adaptive attacks                           *)
(* (evaluation/attacks/adaptive_video_optimizer.py) and the audit of the     *)
(* evidence they leave (formal_adaptive_attack_executor.py).                 *)
(*                                                                           *)
(* A search asks the frozen detector Budget times about one video.  The      *)
(* "plane" search moves in the unit square: a base point, one probe per      *)
(* coordinate, then pattern moves from the best candidate so far.  The       *)
(* "line" search (model VAE regeneration) halves intervals of [0, 1].        *)
(* Coordinates are counted in 1/Grid; the detector, the video quality and    *)
(* the endpoint may answer anything of Scores.                               *)
(*****************************************************************************)
EXTENDS Integers, Sequences, FiniteSets

CONSTANTS Grid,         \* the unit of a coordinate is 1/Grid
          Halves,       \* 1/2, 1/4, ... in that unit, as far as the grid goes
          Budget,       \* queries of one search
          Checkpoints,  \* the preregistered prefixes, a sequence of numbers
          Bases,        \* possible initial strengths
          Scores        \* possible answers: [detector, path, admissible]

SearchConstants ==
    /\ Grid \in Nat /\ Halves \in Seq(Nat \ {0})
    /\ Halves # <<>> /\ Grid = 2 * Halves[1]
    /\ \A i \in 2..Len(Halves) : Halves[i - 1] = 2 * Halves[i]
    /\ \A i, j \in 1..Len(Halves) : i < j => Halves[j] < Halves[i]
    /\ Budget \in 3..Grid
    /\ Bases \subseteq 0..Grid
    /\ \A s \in Scores : /\ s.detector \in Int /\ s.path \in Int
                         /\ s.admissible \in BOOLEAN

\* _normalize_query_budget_checkpoints refuses every other list.
CheckpointsNested ==
    /\ Checkpoints \in Seq(1..Budget) /\ Len(Checkpoints) > 0
    /\ \A i \in 2..Len(Checkpoints) : Checkpoints[i - 1] < Checkpoints[i]
    /\ Checkpoints[Len(Checkpoints)] = Budget

VARIABLES kind,        \* "plane" or "line"
          objective,   \* "detector" or "path"
          base,        \* initial_strength
          candidates,  \* what was asked and answered, in order
          outcome      \* "searching", "selected", "exhausted" or "infeasible"

vars == <<kind, objective, base, candidates, outcome>>

-----------------------------------------------------------------------------
(* The order of candidates. *)

\* _candidate_order_key, as the order it induces.
Precedes(c, d) ==
    LET key(x) == IF objective = "path" THEN <<x.path, x.detector>> ELSE <<x.detector, x.path>>
    IN  \/ key(c)[1] < key(d)[1]
        \/ key(c)[1] = key(d)[1] /\ key(c)[2] < key(d)[2]
        \/ key(c) = key(d) /\ c.index < d.index

\* The first n candidates, and those of them that are acceptable.
Rows(n) == {candidates[i] : i \in 1..n}

Admissible(n) == {c \in Rows(n) : c.admissible}

Best(set) == CHOOSE c \in set : \A d \in set \ {c} : Precedes(c, d)

\* The candidates a next point may start from.
Parents(n) == IF Admissible(n) # {} THEN Admissible(n) ELSE Rows(n)

-----------------------------------------------------------------------------
(* The next point of the plane search. *)

\* _bounded_coordinate
Clamp(x) == IF x < 0 THEN 0 ELSE IF x > Grid THEN Grid ELSE x

\* The base point and one probe along each coordinate.
Seeds(b) ==
    LET target == IF 2 * b < Grid THEN Grid ELSE 0
    IN  <<<<b, b>>, <<target, b>>, <<b, target>>>>

Phases == <<"base_point", "coordinate_1_probe", "coordinate_2_probe">>

Least(a, b) == IF a <= b THEN a ELSE b

\* Each step is half of the one before; every second refinement leaves out the largest.
Steps(n) ==
    LET skipped == (n - 3) \div 2
    IN  [level \in 1..Least(12, Len(Halves) - skipped) |-> Halves[skipped + level]]

\* The grid is fine enough for as many steps, up or down, as there are queries (the twelve
\* of the code are for budgets to 25; the profiles have 5 to 9).
StepsSuffice == \A n \in 3..(Budget - 1) : 2 * Len(Steps(n)) >= n

\* Coordinate 2 before coordinate 1, and away from the nearer end first.
Moves(at, step) ==
    LET away(x) == IF 2 * x <= Grid THEN Clamp(x + step) ELSE Clamp(x - step)
        back(x) == IF 2 * x <= Grid THEN Clamp(x - step) ELSE Clamp(x + step)
    IN  <<<<at[1], away(at[2])>>, <<at[1], back(at[2])>>,
          <<away(at[1]), at[2]>>, <<back(at[1]), at[2]>>>>

Asked == {candidates[i].at : i \in DOMAIN candidates}

\* Mutant of Fresh: only the last query is remembered.
FreshFromLast(at) == at # candidates[Len(candidates)].at

Fresh(at) == at \notin Asked

\* The moves from a candidate, by step and direction, in the order the loops try them.
FreshMoves(c) ==
    LET steps == Steps(Len(candidates))
    IN  {k \in (1..Len(steps)) \X (1..4) : Fresh(Moves(c.at, steps[k[1]])[k[2]])}

Earlier(k, j) == k[1] < j[1] \/ (k[1] = j[1] /\ k[2] <= j[2])

\* The best parent that has one makes its first fresh move.
Refinement ==
    LET open == {c \in Parents(Len(candidates)) : FreshMoves(c) # {}}
        parent == Best(open)
        first == CHOOSE k \in FreshMoves(parent) : \A j \in FreshMoves(parent) : Earlier(k, j)
    IN  IF open = {} THEN <<>>
        ELSE <<[phase |-> "refinement", parent |-> parent.index,
                at |-> Moves(parent.at, Steps(Len(candidates))[first[1]])[first[2]]]>>

\* _next_two_coordinate_parameters: no next point is the empty sequence.
NextPlane ==
    LET n == Len(candidates)
    IN  IF n < 3
        THEN <<[phase |-> Phases[n + 1], at |-> Seeds(base)[n + 1], parent |-> -1]>>
        ELSE Refinement

-----------------------------------------------------------------------------
(* The next point of the line search; it uses the first coordinate. *)

Points == {0, Grid} \cup {candidates[i].at[1] : i \in DOMAIN candidates}

Intervals ==
    {i \in Points \X Points : i[1] < i[2] /\ \A p \in Points : p <= i[1] \/ p >= i[2]}

\* The neighbours of the best candidate are put in front of all intervals,
\* but the list is then sorted by width, wide first, and from the left.
Widest ==
    CHOOSE i \in Intervals : \A j \in Intervals :
        \/ i[2] - i[1] > j[2] - j[1]
        \/ i[2] - i[1] = j[2] - j[1] /\ i[1] <= j[1]

\* _next_bounded_parameter
NextLine ==
    LET n == Len(candidates)
        point(x) == <<[phase |-> "line", at |-> <<x, 0>>, parent |-> -1]>>
    IN  CASE n = 0 -> point(0)
          [] n = 1 -> point(Grid)
          [] n > 1 -> IF Widest[2] - Widest[1] > 1
                      THEN point((Widest[1] + Widest[2]) \div 2) ELSE <<>>

NextPoint == IF kind = "plane" THEN NextPlane ELSE NextLine

-----------------------------------------------------------------------------
Init ==
    /\ kind \in {"plane", "line"}
    /\ objective \in IF kind = "line" THEN {"detector"} ELSE {"detector", "path"}
    /\ base \in IF kind = "line" THEN {0} ELSE Bases
    /\ candidates = <<>> /\ outcome = "searching"

Answered(point, s) ==
    [index |-> Len(candidates), at |-> point.at, phase |-> point.phase,
     parent |-> point.parent, detector |-> s.detector, path |-> s.path,
     admissible |-> s.admissible]

\* One query: next point, candidate video, frozen score, quality, endpoint; or
\* RuntimeError when no distinguishable point is left.
Query ==
    /\ outcome = "searching" /\ Len(candidates) < Budget
    /\ LET next == NextPoint
       IN  IF next = <<>>
           THEN outcome' = "exhausted" /\ candidates' = candidates
           ELSE /\ \E s \in Scores : candidates' = Append(candidates, Answered(next[1], s))
                /\ outcome' = outcome
    /\ UNCHANGED <<kind, objective, base>>

\* The result, or RuntimeError when no candidate is admissible.
Finish ==
    /\ outcome = "searching" /\ Len(candidates) = Budget
    /\ outcome' = IF Admissible(Budget) # {} THEN "selected" ELSE "infeasible"
    /\ UNCHANGED <<kind, objective, base, candidates>>

Ended == outcome # "searching" /\ UNCHANGED vars

Next == Query \/ Finish \/ Ended

Spec == Init /\ [][Next]_vars

-----------------------------------------------------------------------------
(* The evidence of a search, and its audit. *)

selected == Best(Admissible(Budget))

\* checkpoint_records: the best of a prefix, -1 when it has none.
Checkpoint(n) ==
    [count |-> Cardinality(Admissible(n)),
     index |-> IF Admissible(n) = {} THEN -1 ELSE Best(Admissible(n)).index]

\* checkpoint_evidence_ready
CheckpointEvidenceReady ==
    \A i \in DOMAIN Checkpoints :
        LET n == Checkpoints[i]
            feasible == {c \in Rows(Budget) : c.index < n /\ c.admissible}
        IN  /\ feasible # {}
            /\ Checkpoint(n).count = Cardinality(feasible)
            /\ Checkpoint(n).index = Best(feasible).index

\* The scalar of a point (_legacy_attack_strength) has irrational weights, so
\* that it tells apart what the coordinates tell apart.
common_search_evidence_ready ==
    /\ Len(candidates) = Budget
    /\ Cardinality(Asked) = Budget
    /\ CheckpointEvidenceReady

two_coordinate_search_evidence_ready ==
    /\ \A n \in 1..3 : candidates[n].phase = Phases[n]
    /\ \A n \in 4..Len(candidates) : /\ candidates[n].phase = "refinement"
                                     /\ candidates[n].parent >= 0

AuditAccepts ==
    /\ common_search_evidence_ready
    /\ kind = "plane" => two_coordinate_search_evidence_ready

-----------------------------------------------------------------------------
TypeOK ==
    /\ Len(candidates) <= Budget
    /\ \A i \in DOMAIN candidates :
         LET c == candidates[i]
         IN  c.index = i - 1 /\ c.at \in (0..Grid) \X (0..Grid) /\ c.parent \in -1..(i - 2)
    /\ outcome \in {"searching", "selected", "exhausted", "infeasible"}

\* No search pays for one point twice, and none runs out of points before its
\* budget is spent: every query of the budget is new information.
BudgetIsSpentOnNewPoints ==
    /\ outcome # "exhausted"
    /\ Cardinality(Asked) = Len(candidates)

\* Every refinement of the plane search is a move along one coordinate from the
\* candidate that was the best acceptable one when it was chosen, whatever the
\* detector has answered until then.
RefinementFollowsBest ==
    \A n \in 4..Len(candidates) :
        kind = "plane" =>
            LET parent == candidates[candidates[n].parent + 1]
            IN  /\ parent = Best(Parents(n - 1))
                /\ \E i \in 1..2 : candidates[n].at[i] = parent.at[i]

\* The audit of the executor, which computes everything again, accepts the
\* evidence of a finished search exactly when each preregistered prefix holds
\* an acceptable candidate; and then the last checkpoint is the result.
AuditIsExact ==
    outcome = "selected" =>
        /\ AuditAccepts <=> \A i \in DOMAIN Checkpoints :
                               \E n \in 1..Checkpoints[i] : candidates[n].admissible
        /\ Checkpoint(Budget).index = selected.index

\* The docstring of _next_bounded_parameter: after the two ends, a query halves
\* an interval next to the best acceptable candidate.
LineFollowsBest ==
    \A n \in 3..Len(candidates) :
        kind = "line" =>
            LET best == Best(Parents(n - 1)).at[1]
                here == candidates[n].at[1]
            IN  ~ \E c \in Rows(n - 1) :
                    (best < c.at[1] /\ c.at[1] < here) \/ (here < c.at[1] /\ c.at[1] < best)
=============================================================================
