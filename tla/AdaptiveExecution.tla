------------------------- MODULE AdaptiveExecution -------------------------
(*****************************************************************************)
(* The formal adaptive attack execution over one result directory            *)
(* (formal_adaptive_attack_executor.py, run_formal_adaptive_attack_          *)
(* execution).  A run selects its videos, attacks each with every            *)
(* registered protocol, collects records, query rows and failures in         *)
(* memory, decides, and writes its result files at the end.  Any step may    *)
(* raise, a run may be killed, and a later run uses the same directory.      *)
(*                                                                           *)
(* Videos are numbers: the retention videos 1..Retention are the first of    *)
(* the videos 1..Spoof, as the nesting check of the code demands.            *)
(*****************************************************************************)
EXTENDS Integers, Sequences, FiniteSets, Functions

CONSTANTS Retention,   \* number of videos every protocol but copy/spoof needs
          Spoof,       \* number of videos the copy/spoof protocol needs
          Runs,        \* number of runs on the directory
          Failures,    \* bound: number of units that raise, over all runs
          Late,        \* bound: units whose first candidate may be unacceptable
          Accepted     \* bound: videos whose spoof the detector may accept

\* _disjoint_collusion_peer_index demands an even number of at least four.
CountsNested ==
    /\ Retention \in Nat /\ Spoof \in Nat /\ Runs \in Nat \ {0} /\ Failures \in Nat
    /\ Retention >= 4 /\ Retention % 2 = 0 /\ Spoof >= Retention

\* One protocol of each kind; "probe" is the search that first asks about a
\* public calibration negative, "search" stands for the four others.
Protocols == <<"search", "probe", "control", "collusion">>
Searches == {"search", "probe"}

VARIABLES run,        \* number of the current run
          phase,      \* "ready", "attacking", "writing", "ended" or "killed"
          todo,       \* the units still to attack, a sequence of <<video, protocol>>
          records,    \* results in memory: [unit, queries, early, detected]
          queries,    \* query rows in memory: how many of each unit
          failures,   \* units that raised
          faults,     \* number of units that raised so far, in all runs
          decision,   \* what this run decided
          disk        \* the four files as [run, what]

vars == <<run, phase, todo, records, queries, failures, faults, decision, disk>>

Files == <<"records", "queries", "failures", "decision">>
Nothing == [run |-> 0, value |-> {}]

-----------------------------------------------------------------------------
(* The units of a run. *)

\* Video after video, and of each every protocol; but a pair of colluding videos is
\* attacked once, at its even member (counted from 0), so that two videos have seven.
PairUnits == 2 * Len(Protocols) - 1

RetentionUnits ==
    [k \in 1..(PairUnits * (Retention \div 2)) |->
        LET pair == (k - 1) \div PairUnits
            rest == (k - 1) % PairUnits
        IN  <<2 * pair + 1 + (rest \div Len(Protocols)),
              Protocols[1 + (rest % Len(Protocols))]>>]

Units == RetentionUnits \o [v \in 1..Spoof |-> <<v, "spoof">>]

expected_count ==
    Retention * Len(Protocols) - Retention \div 2 + Spoof

\* Query rows a unit that succeeds leaves; the budgets are told apart, not counted.
TargetQueries(u) == CASE u[2] \in Searches -> 3 [] u[2] = "control" -> 0 [] OTHER -> 1
ProbeQueries == 2
AllQueries(u) == TargetQueries(u) + IF u[2] = "probe" THEN ProbeQueries ELSE 0

Recorded == {r.unit : r \in records}

QueryCount == SumFunction(queries)

-----------------------------------------------------------------------------
Init ==
    /\ run = 1 /\ phase = "ready" /\ todo = <<>>
    /\ records = {} /\ queries = <<>> /\ failures = {} /\ faults = 0
    /\ decision = "none"
    /\ disk = [f \in {Files[i] : i \in 1..4} |-> Nothing]

\* Every check before the loop has passed: sources, nesting, detectors,
\* revisions, pipelines.
Select ==
    /\ phase = "ready"
    /\ phase' = "attacking" /\ todo' = Units
    /\ UNCHANGED <<run, records, queries, failures, faults, decision, disk>>

\* One of them raises: the run ends and no file is touched.
SelectRaises ==
    /\ phase = "ready"
    /\ phase' = "ended"
    /\ UNCHANGED <<run, todo, records, queries, failures, faults, decision, disk>>

Logged(u, n) == [x \in DOMAIN queries \cup {u} |->
                    (IF x \in DOMAIN queries THEN queries[x] ELSE 0) + IF x = u THEN n ELSE 0]

\* A unit ends with a record.  "early" says that a search had an acceptable
\* candidate in its first checkpoint already.
Attack ==
    /\ phase = "attacking" /\ todo # <<>>
    /\ LET u == todo[1]
       IN  \E early \in IF u \in Late THEN BOOLEAN ELSE {TRUE},
             detected \in IF u[2] = "spoof" /\ u[1] \in Accepted THEN BOOLEAN ELSE {FALSE} :
             /\ records' = records \cup {[unit |-> u, queries |-> TargetQueries(u),
                                          early |-> early, detected |-> detected]}
             /\ queries' = IF AllQueries(u) = 0 THEN queries ELSE Logged(u, AllQueries(u))
    /\ todo' = Tail(todo)
    /\ UNCHANGED <<run, phase, failures, faults, decision, disk>>

\* A unit raises, after none of its query rows or after those it had appended:
\* the probe's before the search on the target, all of them before the record
\* is finalised.  It becomes a failure row, the rows stay, the loop goes on.
AttackRaises ==
    /\ phase = "attacking" /\ todo # <<>> /\ faults < Failures
    /\ LET u == todo[1]
       IN  \E n \in {0, AllQueries(u)} \cup (IF u[2] = "probe" THEN {ProbeQueries} ELSE {}) :
             queries' = IF n = 0 THEN queries ELSE Logged(u, n)
    /\ failures' = failures \cup {todo[1]}
    /\ faults' = faults + 1 /\ todo' = Tail(todo)
    /\ UNCHANGED <<run, phase, records, decision, disk>>

\* The prompt or the video of a source is missing: that is outside the handler.
SourceRaises ==
    /\ phase = "attacking" /\ todo # <<>> /\ faults < Failures
    /\ phase' = "ended" /\ faults' = faults + 1
    /\ UNCHANGED <<run, todo, records, queries, failures, decision, disk>>

-----------------------------------------------------------------------------
(* The decision. *)

Of(protocol) == {r \in records : r.unit[2] = protocol}

\* audit_adaptive_source_cluster_coverage, without the checkpoints
CoverageReady ==
    /\ \A p \in Searches \cup {"control"} :
         /\ Cardinality(Of(p)) = Retention
         /\ {r.unit[1] : r \in Of(p)} = 1..Retention
    /\ Cardinality(Of("collusion")) = Retention \div 2
    /\ UNION {{r.unit[1], r.unit[1] + 1} : r \in Of("collusion")} = 1..Retention
    /\ Cardinality(Of("spoof")) = Spoof /\ {r.unit[1] : r \in Of("spoof")} = 1..Spoof

\* audit_adaptive_optimizer_evidence: there are searches of each kind and every
\* checkpoint of every one has an acceptable candidate.
OptimizerEvidenceReady ==
    \A p \in Searches : Of(p) # {} /\ \A r \in Of(p) : r.early

\* Rows that are logged against rows that the records account for.
expected_query_count ==
    LET counted == {r \in records : r.unit[2] # "control"}
    IN  SumFunction([r \in counted |->
            r.queries + IF r.unit[2] = "probe" THEN ProbeQueries ELSE 0])

\* A mutant: enough records are enough.
CompleteByCount == Cardinality(records) + Cardinality(failures) = expected_count
                   /\ OptimizerEvidenceReady

adaptive_execution_complete ==
    /\ Cardinality(records) = expected_count
    /\ failures = {}
    /\ QueryCount > 0
    /\ OptimizerEvidenceReady
    /\ QueryCount = expected_query_count
    /\ CoverageReady

\* The retention, spoof and control statistics ride on the complete execution;
\* the spoof statistic is the one that is told apart here.
Decide ==
    /\ phase = "attacking" /\ todo = <<>>
    /\ decision' = IF ~adaptive_execution_complete THEN "FAIL"
                   ELSE IF \E r \in Of("spoof") : r.detected THEN "PASS" ELSE "ROBUST"
    /\ phase' = "writing"
    /\ UNCHANGED <<run, todo, records, queries, failures, faults, disk>>

-----------------------------------------------------------------------------
(* The files, each written whole, the decision last. *)

Contents(f) == CASE f = "records"  -> Recorded
                 [] f = "queries"  -> DOMAIN queries
                 [] f = "failures" -> failures
                 [] f = "decision" -> {decision}

Written == {i \in 1..4 : disk[Files[i]].run = run}

Write ==
    /\ phase = "writing"
    /\ LET i == Cardinality(Written) + 1
       IN  /\ disk' = [disk EXCEPT ![Files[i]] = [run |-> run, value |-> Contents(Files[i])]]
           /\ phase' = IF i = 4 THEN "ended" ELSE "writing"
    /\ UNCHANGED <<run, todo, records, queries, failures, faults, decision>>

Kill ==
    /\ phase \in {"attacking", "writing"}
    /\ phase' = "killed"
    /\ UNCHANGED <<run, todo, records, queries, failures, faults, decision, disk>>

NextRun ==
    /\ phase \in {"ended", "killed"} /\ run < Runs
    /\ run' = run + 1 /\ phase' = "ready"
    /\ todo' = <<>> /\ records' = {} /\ queries' = <<>> /\ failures' = {}
    /\ decision' = "none"
    /\ UNCHANGED <<faults, disk>>

Done == phase \in {"ended", "killed"} /\ run = Runs /\ UNCHANGED vars

Next == \/ Select \/ SelectRaises \/ Attack \/ AttackRaises \/ SourceRaises
        \/ Decide \/ Write \/ Kill \/ NextRun \/ Done

Spec == Init /\ [][Next]_vars

-----------------------------------------------------------------------------
TypeOK ==
    /\ run \in 1..Runs /\ phase \in {"ready", "attacking", "writing", "ended", "killed"}
    /\ Recorded \cap failures = {}
    /\ Cardinality(records) + Cardinality(failures) <= expected_count
    /\ decision \in {"none", "FAIL", "PASS", "ROBUST"}
    /\ \A f \in DOMAIN disk : disk[f].run \in 0..run

AllUnits == {Units[i] : i \in DOMAIN Units}

\* An execution is complete only when every registered unit, each colluding
\* pair once, has its one record, and when no query was asked that a record
\* does not account for: an attack that failed half-way cannot hide queries.
CompleteIsWhole ==
    decision \in {"PASS", "ROBUST"} =>
        /\ Recorded = AllUnits
        /\ \A u \in DOMAIN queries : queries[u] = AllQueries(u)
        /\ \A u \in AllUnits : AllQueries(u) > 0 => u \in DOMAIN queries

\* A complete execution lets no search pass whose first checkpoint had nothing
\* acceptable: the curve of the paper has a value at every budget and video.
CurveIsComplete ==
    decision \in {"PASS", "ROBUST"} =>
        \A r \in records : r.unit[2] \in Searches => r.early

\* A run that came to its end leaves four files of its own, and they agree: a
\* failed unit is in the failure file and not in the records, and the decision
\* is not PASS beside a failure.
FilesAgree ==
    (phase = "ended" /\ disk["decision"].run = run) =>
        /\ \A f \in DOMAIN disk : disk[f].run = run
        /\ disk["records"].value \cup disk["failures"].value = AllUnits
        /\ disk["records"].value \cap disk["failures"].value = {}
        /\ disk["decision"].value # {"FAIL"} => disk["failures"].value = {}
=============================================================================
