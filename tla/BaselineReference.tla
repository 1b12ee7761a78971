-------------------------- MODULE BaselineReference --------------------------
(*****************************************************************************)
(* The official reference of one modern baseline                             *)
(* (run_modern_external_baseline_formal_reference_plan and the runtimes it   *)
(* calls): every comparison unit is scored on the baseline's own videos, the *)
(* score goes to a file of its own in the bundle, then come the execution    *)
(* manifest, the decision and, if it is PASS, the stage package that formal  *)
(* scoring reads.  Nothing of an earlier run is removed first: the bundle,   *)
(* its videos, the manifest and the decision stay on the disk until they are *)
(* written over, and a run may raise or be killed at any point.              *)
(*****************************************************************************)
EXTENDS Naturals, FiniteSets

CONSTANTS
    Units,      \* comparison units (prompt, seed, attack) of the detection records
    Groups,     \* prompt and seed pairs
    Group,      \* the pair of a unit
    MaxRuns     \* bound: runs of the notebook in one workspace

ReferenceAssumption ==
    /\ IsFiniteSet(Units) /\ MaxRuns \in Nat \ {0}
    /\ Group \in [Units -> Groups]
    /\ Units \cap Groups = {}

\* vidsig generates everything with one command; videoshield pair by pair, and scores
\* nothing unless all are good; videomark generates a pair when a record first needs it;
\* posthoc (videoseal, revmark, wam_frame) marks the video of each record; adapter calls
\* the repository's adapter for each record.
Kinds == {"vidsig", "videoshield", "videomark", "posthoc", "adapter"}

VARIABLES
    kind, run, pc,
    selected,               \* the units of this run: max_records may cut them
    generated, failed,      \* units the run has counted so far
    pairs,                  \* videoshield: pairs done; videomark: pairs in the cache
    pairFailed,             \* a pair could not be generated
    written,                \* videomark: pairs in source_paths_by_group
    source, attacked,       \* the run whose video is at a path
    bundle,                 \* the run whose score is in the file of a unit
    manifest, decision,     \* the run that wrote them last, and what they say
    package                 \* the last published package

locals == <<selected, generated, failed, pairs, pairFailed, written>>
disk == <<source, attacked, bundle>>
vars == <<kind, run, pc, locals, disk, manifest, decision, package>>

Runs == 1 .. MaxRuns
Never == 0
Sources == Units \cup Groups
NoDecision == [run |-> Never, value |-> "FAIL"]
NoPackage == [run |-> Never, units |-> {}, bundle |-> [u \in Units |-> Never],
              attacked |-> [u \in Units |-> Never]]
NoManifest == [run |-> Never, generated |-> 0, failed |-> 0]

\* Where the marked video of a unit is.
SourceOf(u) == IF kind \in {"posthoc", "adapter"} THEN u ELSE Group[u]

Init ==
    /\ kind \in Kinds /\ run = 0 /\ pc = "idle"
    /\ selected = {} /\ generated = {} /\ failed = {}
    /\ pairs = {} /\ pairFailed = FALSE /\ written = {}
    /\ source = [s \in Sources |-> Never]
    /\ attacked = [u \in Units |-> Never]
    /\ bundle = [u \in Units |-> Never]
    /\ manifest = NoManifest /\ decision = NoDecision /\ package = NoPackage

----------------------------------------------------------------------------
(* Start and generation                                                     *)

\* The plan is started again in the same workspace, perhaps with another max_records.
\* Without records two of the runtimes raise, the others come to an empty bundle.
Start ==
    /\ pc = "idle" /\ run < MaxRuns
    /\ run' = run + 1
    /\ selected' \in SUBSET Units
    /\ generated' = {} /\ failed' = {}
    /\ pairs' = {} /\ pairFailed' = FALSE /\ written' = {}
    /\ pc' = "closure"
    /\ UNCHANGED <<kind, disk, manifest, decision, package>>

Report(g, f) == manifest' = [run |-> run, generated |-> g, failed |-> f]

\* The closure preflight named this baseline: no attempt is made, every record is failed.
Blocked ==
    /\ pc = "closure"
    /\ Report(0, Cardinality(selected)) /\ pc' = "decide"
    /\ UNCHANGED <<kind, run, locals, disk, decision, package>>

\* SSTW_GENERATE_AUTO_SUPPORTED_OFFICIAL_BUNDLES is off: no record is tried or failed.
Skipped ==
    /\ pc = "closure" /\ kind = "posthoc"
    /\ Report(0, 0) /\ pc' = "decide"
    /\ UNCHANGED <<kind, run, locals, disk, decision, package>>

NeedsRecords == kind \in {"vidsig", "videoshield"}

Attempt ==
    /\ pc = "closure" /\ (NeedsRecords => selected # {})
    /\ pc' = IF NeedsRecords THEN "generate" ELSE "records"
    /\ UNCHANGED <<kind, run, locals, disk, manifest, decision, package>>

Needed == {Group[u] : u \in selected}

Overwrite(S) == source' = [s \in Sources |-> IF s \in S THEN run ELSE source[s]]

\* generate_ms returned 0 and the video bit accuracy in its log is good enough.
GenerateAll ==
    /\ pc = "generate" /\ kind = "vidsig"
    /\ Overwrite(Needed) /\ pc' = "records"
    /\ UNCHANGED <<kind, run, locals, attacked, bundle, manifest, decision, package>>

\* It failed, or the positive control did: some videos are new all the same.
GenerateAllFails ==
    /\ pc = "generate" /\ kind = "vidsig"
    /\ \E S \in SUBSET Needed : Overwrite(S)
    /\ failed' = selected /\ pc' = "manifest"
    /\ UNCHANGED <<kind, run, selected, generated, pairs, pairFailed, written, attacked,
                   bundle, manifest, decision, package>>

\* One pair of videoshield; a failed one does not end the loop.
GeneratePair ==
    /\ pc = "generate" /\ kind = "videoshield"
    /\ \E g \in Needed \ pairs, good \in BOOLEAN :
         /\ pairs' = pairs \cup {g}
         /\ pairFailed' = (pairFailed \/ ~good)
         /\ \/ Overwrite({g})
            \/ ~good /\ source' = source
    /\ UNCHANGED <<kind, run, pc, selected, generated, failed, written, attacked, bundle,
                   manifest, decision, package>>

PairsGood == ~pairFailed

PairsDone ==
    /\ pc = "generate" /\ kind = "videoshield" /\ Needed \subseteq pairs
    /\ pc' = IF PairsGood THEN "records" ELSE "manifest"
    /\ UNCHANGED <<kind, run, locals, disk, manifest, decision, package>>

----------------------------------------------------------------------------
(* Records: each is counted once, as generated or as failed                 *)

Todo == selected \ (generated \cup failed)

CountGenerated(u) == generated' = generated \cup {u} /\ failed' = failed
CountFailed(u) == failed' = failed \cup {u} /\ generated' = generated

PutAttacked(u) == attacked' = [attacked EXCEPT ![u] = run]
PutScore(u) == bundle' = [bundle EXCEPT ![u] = run]

\* The pair of a videomark record is taken from the cache, or generated and kept; its
\* two source videos are written once in a run.
PairReady(u) ==
    /\ kind = "videomark"
    /\ pairs' = pairs \cup {Group[u]}
    /\ written' = written \cup {Group[u]}
    /\ Overwrite({Group[u]} \ written)

\* posthoc and adapter write the marked video of the record itself.
OwnReady(u) ==
    /\ kind \in {"posthoc", "adapter"} /\ Overwrite({u})
    /\ UNCHANGED <<pairs, written>>

PoolReady(u) ==
    /\ NeedsRecords /\ source[SourceOf(u)] # Never
    /\ UNCHANGED <<source, pairs, written>>

SourceReady(u) == PairReady(u) \/ OwnReady(u) \/ PoolReady(u)

\* Attack, detection on the decoded file, clean negative, and only then the score.
ScoreRecord ==
    /\ pc = "records"
    /\ \E u \in Todo : SourceReady(u) /\ PutAttacked(u) /\ PutScore(u) /\ CountGenerated(u)
    /\ UNCHANGED <<kind, run, pc, selected, pairFailed, manifest, decision, package>>

\* It raises, with or without its videos written: the score file of an earlier run stays.
FailRecord ==
    /\ pc = "records"
    /\ \E u \in Todo :
         /\ CountFailed(u)
         /\ \/ SourceReady(u) /\ (PutAttacked(u) \/ attacked' = attacked)
            \/ attacked' = attacked /\ UNCHANGED <<source, pairs, written>>
            \/ /\ kind = "videomark" /\ attacked' = attacked
               /\ pairs' = pairs \cup {Group[u]} /\ written' = written
               /\ source' = source \/ Overwrite({Group[u]} \ written)
    /\ UNCHANGED <<kind, run, pc, selected, pairFailed, bundle, manifest, decision, package>>

\* The adapter returned 0 and a file is there: a native command that wrote nothing, or
\* an adapter told to read the bundle, leaves the earlier score, which is counted.
KeepRecord ==
    /\ pc = "records" /\ kind = "adapter"
    /\ \E u \in Todo : bundle[u] # Never /\ CountGenerated(u)
    /\ UNCHANGED <<kind, run, pc, selected, pairs, pairFailed, written, disk, manifest,
                   decision, package>>

RecordsDone ==
    /\ pc = "records" /\ Todo = {}
    /\ pc' = "manifest"
    /\ UNCHANGED <<kind, run, locals, disk, manifest, decision, package>>

\* videoshield counts failed pairs, not records, when it never came to the records; that
\* there is one is all the decision can tell.
FailedCount ==
    IF pairFailed THEN Cardinality(failed) + 1 ELSE Cardinality(failed)

WriteManifest ==
    /\ pc = "manifest"
    /\ Report(Cardinality(generated), FailedCount) /\ pc' = "decide"
    /\ UNCHANGED <<kind, run, locals, disk, decision, package>>

----------------------------------------------------------------------------
(* Decision and package                                                     *)

Passes ==
    /\ selected # {}
    /\ manifest.generated = Cardinality(selected)
    /\ manifest.failed = 0

Decide ==
    /\ pc = "decide"
    /\ decision' = [run |-> run, value |-> IF Passes THEN "PASS" ELSE "FAIL"]
    /\ pc' = "publish"
    /\ UNCHANGED <<kind, run, locals, disk, manifest, package>>

Publishable == decision.value = "PASS"

\* The whole bundle directory goes into the package, with what earlier runs left in it.
Publish ==
    /\ pc = "publish" /\ Publishable
    /\ package' = [run |-> run, units |-> selected, bundle |-> bundle, attacked |-> attacked]
    /\ pc' = "idle"
    /\ UNCHANGED <<kind, run, locals, disk, manifest, decision>>

PublishRefused ==
    /\ pc = "publish" /\ ~Publishable /\ pc' = "idle"
    /\ UNCHANGED <<kind, run, locals, disk, manifest, decision, package>>

\* A stage raises (no records, no model, an invalid record at the second enrichment, a
\* full disk at the decision), or the runtime is gone; what is on the disk stays.
Interrupted ==
    /\ pc # "idle" /\ pc' = "idle"
    /\ UNCHANGED <<kind, run, locals, disk, manifest, decision, package>>

Next ==
    \/ Start \/ Blocked \/ Skipped \/ Attempt
    \/ GenerateAll \/ GenerateAllFails \/ GeneratePair \/ PairsDone
    \/ ScoreRecord \/ FailRecord \/ KeepRecord \/ RecordsDone \/ WriteManifest
    \/ Decide \/ Publish \/ PublishRefused \/ Interrupted

Spec == Init /\ [][Next]_vars

----------------------------------------------------------------------------
(* Properties                                                               *)

\* The variables have their types.
TypeOK ==
    /\ kind \in Kinds /\ run \in 0 .. MaxRuns
    /\ pc \in {"idle", "closure", "generate", "records", "manifest", "decide", "publish"}
    /\ selected \subseteq Units /\ generated \subseteq selected /\ failed \subseteq selected
    /\ generated \cap failed = {}
    /\ pairs \subseteq Groups /\ written \subseteq pairs /\ pairFailed \in BOOLEAN
    /\ source \in [Sources -> 0 .. run] /\ attacked \in [Units -> 0 .. run]
    /\ bundle \in [Units -> 0 .. run]
    /\ manifest.run <= run /\ decision.run <= run /\ package.run <= run

Fresh(u) == bundle[u] = run /\ attacked[u] = run /\ source[SourceOf(u)] = run

\* The decision is about this run and nothing else: it is PASS exactly when every
\* selected unit has a score, an attacked video and a marked video that this run wrote,
\* whatever earlier runs left at the same paths and whatever the counts went through
\* (generated_bundle_record_count and failed_bundle_record_count against the files).
\* The repository adapter is excepted: it takes an earlier file for its own.
DecisionIsExact ==
    (pc = "publish" /\ kind # "adapter") =>
        (decision.value = "PASS" <=> (selected # {} /\ \A u \in selected : Fresh(u)))

\* A published package is of one run for the units it was made for: no score of an
\* earlier run, no score computed on a video that has been written over since.
PackageIsOneRun ==
    kind # "adapter" =>
        \A u \in package.units : package.bundle[u] = package.run
                                 /\ package.attacked[u] = package.run

\* A package has a score for every unit it names: no later failure, kill or blocked
\* attempt replaces it by an incomplete one, and the order of the runs is that of the
\* packages.  A later run may have fewer units, and its package then has fewer.
PackageIsComplete ==
    [][package' # package =>
         /\ package'.run > package.run /\ package'.units # {}
         /\ \A u \in package'.units : package'.bundle[u] # Never]_vars
=============================================================================
