--------------------------- MODULE EvidenceChain ---------------------------
(*****************************************************************************)
(* The files of one run root from a generated video to its verified sketch:  *)
(* run_colab_probe exports the videos and writes records, sketches and its   *)
(* decision; run_runtime_attacks transforms the videos;                      *)
(* run_formal_flow_evidence replays the transformed ones; and                *)
(* run_replay_and_sketch_gate checks each replayed unit's sketch against     *)
(* its generation record.  Every stage is a notebook session of its own,     *)
(* writes its files at its end and may be cut anywhere; a generation may be  *)
(* run again in the same root.                                               *)
(*                                                                           *)
(* Bytes and digests are named by the generation run that made them.         *)
(*****************************************************************************)
EXTENDS Integers, FiniteSets

CONSTANTS
    Units,      \* planned generations (prompt, seed and method variant)
    MaxRuns,    \* bound: generation runs in one root
    Revisions   \* immutable revisions of the generation model

ChainAssumption == MaxRuns \in Nat /\ IsFiniteSet(Units)

VARIABLES
    failFast,   \* the profile is a mechanism validation or a smoke
    stage,      \* what the session is doing
    left,       \* units the stage has still to do
    made,       \* what the session holds in memory, per unit
    run,        \* generation runs begun
    revision,   \* per run, the revision its pipeline was loaded at
    video,      \* videos/<unit>: its run, or its negative when the export broke
    records,    \* generation_records.jsonl
    sketches,   \* trajectory_sketch_records.jsonl: run of the signed sketch, or 0
    decision,   \* generative_video_colab_runtime_decision.json
    attacked,   \* attacked_videos/<unit>: the run of its source bytes, or 0
    attacks,    \* runtime_attack_records.jsonl
    evidence,   \* formal_flow_evidence_records.jsonl
    verdicts,   \* trajectory_sketch_verification_records.jsonl
    fresh       \* history: how far the newest generation has been carried whole

vars == <<failFast, stage, left, made, run, revision, video, records, sketches,
          decision, attacked, attacks, evidence, verdicts, fresh>>

files == <<video, records, sketches, decision, attacked, attacks, evidence, verdicts>>
memory == <<failFast, run, revision>>

\* A row of a file: the run of the generation record it carries, the run whose bytes
\* it is of, and its status.
Row == [digest : 0 .. MaxRuns, bytes : 0 .. MaxRuns, ok : BOOLEAN]
NoRow == [digest |-> 0, bytes |-> 0, ok |-> FALSE]
NoRows == [u \in Units |-> NoRow]
Ready(rows) == {u \in Units : rows[u].ok}
AtMost(n) == IF fresh > n THEN n ELSE fresh

Init ==
    /\ failFast \in BOOLEAN
    /\ stage = "idle" /\ left = {} /\ made = NoRows /\ run = 0
    /\ revision \in [1 .. MaxRuns -> Revisions]
    /\ video = [u \in Units |-> 0] /\ attacked = [u \in Units |-> 0]
    /\ sketches = [u \in Units |-> 0]
    /\ records = NoRows /\ attacks = NoRows /\ evidence = NoRows
    /\ decision = [run |-> 0, passed |-> FALSE]
    /\ verdicts = [u \in Units |-> [verified |-> FALSE, sketch |-> 0, record |-> 0,
                                    bytes |-> 0, ordered |-> FALSE]]
    /\ fresh = 0

----------------------------------------------------------------------------
(* Generation                                                               *)

Begin(name, units, kept) ==
    /\ stage = "idle" /\ stage' = name
    /\ left' = units /\ made' = NoRows /\ fresh' = kept
    /\ UNCHANGED <<failFast, revision, files>>

BeginGeneration ==
    /\ run < MaxRuns /\ run' = run + 1
    /\ Begin("generate", Units, 0)

Done(u, row) ==
    /\ made' = [made EXCEPT ![u] = row]
    /\ left' = left \ {u}

Exported(u) ==
    /\ stage = "generate" /\ u \in left
    /\ video' = [video EXCEPT ![u] = run]
    /\ Done(u, [digest |-> run, bytes |-> run, ok |-> TRUE])
    /\ UNCHANGED <<stage, memory, fresh, records, sketches, decision, attacked, attacks,
                   evidence, verdicts>>

\* The pipeline raises, or the export does half-way.  A mechanism validation does not
\* go on to the units behind.
GenerationFails(u) ==
    /\ stage = "generate" /\ u \in left
    /\ \/ video' = video
       \/ video' = [video EXCEPT ![u] = -run]
    /\ made' = [made EXCEPT ![u] = [digest |-> run, bytes |-> 0, ok |-> FALSE]]
    /\ left' = IF failFast THEN {} ELSE left \ {u}
    /\ UNCHANGED <<stage, memory, fresh, records, sketches, decision, attacked, attacks,
                   evidence, verdicts>>

\* Mutant of WriteRecords: the session's rows are added to the old ones.
WriteRecordsMerged ==
    /\ stage = "generate" /\ left = {} /\ stage' = "sketch"
    /\ records' = [u \in Units |-> IF made[u].ok THEN made[u] ELSE records[u]]
    /\ UNCHANGED <<left, made, memory, fresh, video, sketches, decision, attacked,
                   attacks, evidence, verdicts>>

WriteRecords ==
    /\ stage = "generate" /\ left = {} /\ stage' = "sketch"
    /\ records' = made
    /\ UNCHANGED <<left, made, memory, fresh, video, sketches, decision, attacked,
                   attacks, evidence, verdicts>>

\* Paper profiles sign; a unit that failed gets no sketch of this run, and none of an
\* older one.
WriteSketches ==
    /\ stage = "sketch" /\ stage' = "decide"
    /\ sketches' = [u \in Units |-> IF made[u].ok /\ ~failFast THEN run ELSE 0]
    /\ UNCHANGED <<left, made, memory, fresh, video, records, decision, attacked,
                   attacks, evidence, verdicts>>

Succeeds == IF failFast THEN Ready(made) = Units ELSE Ready(made) # {}

WriteDecision ==
    /\ stage = "decide" /\ stage' = "idle"
    /\ decision' = [run |-> run, passed |-> Succeeds]
    /\ made' = NoRows /\ fresh' = 1
    /\ UNCHANGED <<left, memory, video, records, sketches, attacked, attacks, evidence,
                   verdicts>>

----------------------------------------------------------------------------
(* Attacks                                                                  *)

BeginAttacks ==
    /\ Begin("attack", Ready(records), AtMost(1)) /\ UNCHANGED run

\* The hash of the source file is recorded, the record's own video_sha256 is not
\* compared with it.
Attack(u) ==
    /\ stage = "attack" /\ u \in left /\ video[u] > 0
    /\ attacked' = [attacked EXCEPT ![u] = video[u]]
    /\ Done(u, [digest |-> records[u].digest, bytes |-> video[u], ok |-> TRUE])
    /\ UNCHANGED <<stage, memory, fresh, video, records, sketches, decision, attacks,
                   evidence, verdicts>>

AttackFails(u) ==
    /\ stage = "attack" /\ u \in left
    /\ Done(u, [digest |-> records[u].digest, bytes |-> 0, ok |-> FALSE])
    /\ UNCHANGED <<stage, memory, fresh, files>>

\* Mutant of WriteAttacks: what failed keeps its old row.
WriteAttacksMerged ==
    /\ stage = "attack" /\ left = {} /\ stage' = "idle"
    /\ attacks' = [u \in Units |-> IF made[u].ok THEN made[u] ELSE attacks[u]]
    /\ made' = NoRows /\ fresh' = IF fresh = 1 THEN 2 ELSE fresh
    /\ UNCHANGED <<left, memory, video, records, sketches, decision, attacked, evidence,
                   verdicts>>

WriteAttacks ==
    /\ stage = "attack" /\ left = {} /\ stage' = "idle"
    /\ attacks' = made
    /\ made' = NoRows /\ fresh' = IF fresh = 1 THEN 2 ELSE fresh
    /\ UNCHANGED <<left, memory, video, records, sketches, decision, attacked, evidence,
                   verdicts>>

----------------------------------------------------------------------------
(* Replay                                                                   *)

\* Attack records and generation records must name one revision of the model.
OneRevision ==
    \A n, m \in {attacks[u].digest : u \in Ready(attacks)}
                    \cup {records[u].digest : u \in Ready(records)} :
        revision[n] = revision[m]

\* Where it raises instead, the evidence of an earlier session stays.
BeginReplay ==
    /\ Ready(attacks) # {} /\ OneRevision
    /\ Begin("replay", Ready(attacks), AtMost(2)) /\ UNCHANGED run

Replay(u) ==
    /\ stage = "replay" /\ u \in left
    /\ Done(u, [digest |-> attacks[u].digest, bytes |-> attacked[u], ok |-> TRUE])
    /\ UNCHANGED <<stage, memory, fresh, files>>

ReplayFails(u) ==
    /\ stage = "replay" /\ u \in left /\ Done(u, NoRow)
    /\ UNCHANGED <<stage, memory, fresh, files>>

WriteEvidence ==
    /\ stage = "replay" /\ left = {} /\ stage' = "idle"
    /\ evidence' = made
    /\ made' = NoRows /\ fresh' = IF fresh = 2 THEN 3 ELSE fresh
    /\ UNCHANGED <<left, memory, video, records, sketches, decision, attacked, attacks,
                   verdicts>>

----------------------------------------------------------------------------
(* The sketch gate                                                          *)

\* verify_authenticated_trajectory_sketch_once: the signed digest is the one
\* recomputed from the generation record of the same trace.
Verified(u) == records[u].ok /\ sketches[u] = records[u].digest

Verdict(u) ==
    IF evidence[u].ok
    THEN [verified |-> Verified(u), sketch |-> sketches[u],
          record |-> records[u].digest, bytes |-> evidence[u].bytes,
          ordered |-> fresh = 3]
    ELSE [verified |-> FALSE, sketch |-> 0, record |-> 0, bytes |-> 0, ordered |-> FALSE]

Gate ==
    /\ stage = "idle" /\ Ready(evidence) # {}
    /\ verdicts' = [u \in Units |-> Verdict(u)]
    /\ UNCHANGED <<stage, left, made, memory, fresh, video, records, sketches, decision,
                   attacked, attacks, evidence>>

\* The runtime of the session is taken away.
Cut ==
    /\ stage # "idle" /\ stage' = "idle"
    /\ left' = {} /\ made' = NoRows
    /\ UNCHANGED <<memory, fresh, files>>

\* Every stage works through the plan in the plan's order.
Turn == CHOOSE u \in Units : left # {} => u \in left

Next ==
    \/ BeginGeneration \/ BeginAttacks \/ BeginReplay
    \/ \E u \in Units :
         /\ u = Turn
         /\ \/ Exported(u) \/ GenerationFails(u)
            \/ Attack(u) \/ AttackFails(u)
            \/ Replay(u) \/ ReplayFails(u)
    \/ WriteRecords \/ WriteSketches \/ WriteDecision
    \/ WriteAttacks \/ WriteEvidence
    \/ Gate \/ Cut

Spec == Init /\ [][Next]_vars

----------------------------------------------------------------------------
TypeOK ==
    /\ failFast \in BOOLEAN /\ run \in 0 .. MaxRuns /\ fresh \in 0 .. 3
    /\ stage \in {"idle", "generate", "sketch", "decide", "attack", "replay"}
    /\ left \subseteq Units
    /\ made \in [Units -> Row] /\ records \in [Units -> Row]
    /\ attacks \in [Units -> Row] /\ evidence \in [Units -> Row]
    /\ video \in [Units -> -MaxRuns .. MaxRuns]
    /\ attacked \in [Units -> 0 .. MaxRuns] /\ sketches \in [Units -> 0 .. MaxRuns]
    /\ decision \in [run : 0 .. MaxRuns, passed : BOOLEAN]
    /\ \A u \in Units :
         /\ stage = "attack" => left \cup Ready(made) \subseteq Ready(records)
         /\ evidence[u].ok => evidence[u].bytes > 0

\* A sketch that verified is of the run its generation record is of, although records
\* and sketches are two files and a session may be cut between them.
VerifiedIsOneRun ==
    \A u \in Units : verdicts[u].verified =>
        verdicts[u].sketch = verdicts[u].record /\ verdicts[u].sketch > 0

\* When generation, attacks and replay each ran to their end after one another, what
\* was replayed is the video the verified sketch was signed for.
OrderedChainIsSound ==
    \A u \in Units : verdicts[u].verified /\ verdicts[u].ordered =>
        verdicts[u].bytes = verdicts[u].sketch

\* A passing decision of a mechanism validation, the newest run's, stands beside the
\* whole plan: every video and record of that run (the decision is the last file
\* written).
PassIsWholePlan ==
    failFast /\ decision.passed /\ decision.run = run =>
        \A u \in Units : video[u] = run /\ records[u].ok
                            /\ records[u].digest = run

\* What the docs say of a verified sketch: it belongs to the video that was replayed.
\* The chain does not keep it when a generation was run again.
SketchIsOfReplayedVideo ==
    \A u \in Units : verdicts[u].verified => verdicts[u].bytes = verdicts[u].sketch
=============================================================================
