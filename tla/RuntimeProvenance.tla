-------------------------- MODULE RuntimeProvenance --------------------------
(***************************************************************************)
(* Which code and which model a paper run can say it used: extraction of   *)
(* the server package (scripts/extract_minimal_paper_package.py), the      *)
(* environment preflight with the provenance of code and model             *)
(* (workflows/runtime_environment_preflight.py), and the stages that carry *)
(* its record (scripts/run_generative_video_server_workflow.py).           *)
(* A tree maps a file to its version, 0 when it is not there; version 3 is *)
(* an edit that no commit has.  The second commit changes one file and     *)
(* deletes another.                                                        *)
(* The target of an extraction is any directory: empty or one that holds   *)
(* an earlier extraction, outside the repository or below it, as the help  *)
(* of --output advises (release_packages, a directory Git ignores).  Only  *)
(* the last target is followed.                                            *)
(***************************************************************************)
EXTENDS Naturals, Sequences

CONSTANT
    MaxEvents   \* bound on edits, commits, revisions and kills

ProvenanceAssumption == MaxEvents \in Nat

Files == {"a", "b", "c"}
CopyOrder == <<"a", "b", "c">>
TreeOf == << [a |-> 1, b |-> 1, c |-> 1], [a |-> 1, b |-> 2, c |-> 0] >>
NoTree == [f \in Files |-> 0]
None == [none |-> TRUE]
InstallFailures == {"python", "dependency"}
GpuFailures == {"gpu"}
Failures == InstallFailures \cup GpuFailures

VARIABLES
    head,     \* HEAD of the development repository
    work,     \* its work tree
    package,  \* the tree of the extracted package
    manifest, \* its extraction_manifest.json
    target,   \* its directory: is it below the repository; did the last extraction
              \* find files there; did that extraction come to its end
    copy,     \* the extraction: files copied and the provenance it read
    branch,   \* the revision the model's branch names on the hub
    args,     \* the server call: its root, model revision and preflight decision
    ran,      \* what a stage used: tree and model revision
    artifact, \* the preflight record in the stage's run root
    events

vars == <<head, work, package, manifest, target, copy, branch, args, ran, artifact, events>>
NewTarget == [inside |-> FALSE, over |-> FALSE, whole |-> FALSE]
Idle == [at |-> 0, commit |-> 1, clean |-> FALSE]
NoCall == [root |-> "none", request |-> "none", decision |-> None, written |-> FALSE]

Decisions == [commit : {0, 1, 2}, clean : BOOLEAN, failures : SUBSET (Failures \cup {"commit",
              "tree", "model"}), model : {0, 1, 2}]
TypeOK ==
    /\ head \in 1..2 /\ work \in [Files -> 0..3] /\ package \in [Files -> 0..3]
    /\ manifest \in {None} \cup [commit : 1..2, clean : BOOLEAN]
    /\ target \in [inside : BOOLEAN, over : BOOLEAN, whole : BOOLEAN]
    /\ copy \in [at : 0..4, commit : 1..2, clean : BOOLEAN]
    /\ branch \in 1..2 /\ events \in 0..MaxEvents
    /\ args.root \in {"none", "repository", "package"}
    /\ args.request \in {"none", "branch", "commit"} /\ args.written \in BOOLEAN
    /\ args.decision \in {None} \cup Decisions /\ artifact \in {None} \cup Decisions
    /\ ran \in {None} \cup [tree : [Files -> 0..3], model : 1..2]

Init ==
    /\ head = 1 /\ work = TreeOf[1] /\ package = NoTree /\ manifest = None
    /\ target = NewTarget /\ copy = Idle
    /\ branch = 1 /\ args = NoCall /\ ran = None /\ artifact = None /\ events = 0

Happens == events < MaxEvents /\ events' = events + 1

-----------------------------------------------------------------------------
(* Others: the developer and the hub.  Nobody edits during an extraction or *)
(* a server call.                                                           *)
Quiet == copy.at = 0 /\ args.root = "none"

Edit ==
    /\ Quiet /\ Happens
    /\ \E f \in Files : work' = [work EXCEPT ![f] = 3]
    /\ UNCHANGED <<head, package, manifest, target, copy, branch, args, ran, artifact>>

CheckOut ==
    /\ Quiet /\ Happens
    /\ head' \in 1..2 /\ work' = TreeOf[head']
    /\ UNCHANGED <<package, manifest, target, copy, branch, args, ran, artifact>>

BranchMoves ==
    /\ branch = 1 /\ branch' = 2 /\ Happens
    /\ UNCHANGED <<head, work, package, manifest, target, copy, args, ran, artifact>>

-----------------------------------------------------------------------------
(* extract_profile: provenance first, then file by file in the order of the *)
(* profile, then the manifest.  Nothing at the target is removed: neither   *)
(* files the profile has no more nor an earlier manifest.                   *)
WorkIsClean == work = TreeOf[head]

IntoSameDirectory ==
    /\ target' = [target EXCEPT !.over = package # NoTree, !.whole = FALSE]
    /\ UNCHANGED <<package, manifest>>

IntoNewDirectory ==
    /\ \E inside \in BOOLEAN : target' = [NewTarget EXCEPT !.inside = inside]
    /\ package' = NoTree /\ manifest' = None

StartExtract ==
    /\ Quiet /\ (IntoSameDirectory \/ IntoNewDirectory)
    /\ copy' = [at |-> 1, commit |-> head, clean |-> WorkIsClean]
    /\ UNCHANGED <<head, work, branch, args, ran, artifact, events>>

CopyFile ==
    /\ copy.at \in 1..3
    /\ LET f == CopyOrder[copy.at] IN
         package' = IF work[f] = 0 THEN package ELSE [package EXCEPT ![f] = work[f]]
    /\ copy' = [copy EXCEPT !.at = @ + 1]
    /\ UNCHANGED <<head, work, manifest, target, branch, args, ran, artifact, events>>

WriteManifest ==
    /\ copy.at = 4 /\ copy' = Idle
    /\ manifest' = [commit |-> copy.commit, clean |-> copy.clean]
    /\ target' = [target EXCEPT !.whole = TRUE]
    /\ UNCHANGED <<head, work, package, branch, args, ran, artifact, events>>

KillExtract ==
    /\ copy.at # 0 /\ Happens /\ copy' = Idle
    /\ UNCHANGED <<head, work, package, manifest, target, branch, args, ran, artifact>>

-----------------------------------------------------------------------------
(* The server call. *)
Call ==
    /\ Quiet /\ ran' = None
    /\ \E r \in {"repository", "package"}, q \in {"branch", "commit"} :
          /\ r = "package" => package # NoTree
          /\ args' = [NoCall EXCEPT !.root = r, !.request = q]
    /\ UNCHANGED <<head, work, package, manifest, target, copy, branch, artifact, events>>

Tree(r) == IF r = "repository" THEN work ELSE package

(* _repository_provenance: Git answers in the repository and anywhere below *)
(* it, else the manifest, else nobody.                                      *)
GitAnswers(r) == r = "repository" \/ target.inside
Provenance(r) ==
    IF GitAnswers(r) THEN [commit |-> head, clean |-> WorkIsClean]
    ELSE IF manifest = None THEN [commit |-> 0, clean |-> FALSE]
    ELSE [commit |-> manifest.commit, clean |-> manifest.clean]

(* resolve_huggingface_model_commit, only reached without other failures:   *)
(* a commit is taken as it is, a branch is asked for and may not answer.    *)
Resolved(q, failures) ==
    IF failures # {} THEN {0} ELSE IF q = "commit" THEN {1} ELSE {branch, 0}

ProvenanceFailures(p) ==
    {x \in {"commit", "tree"} : (x = "commit" /\ p.commit = 0) \/ (x = "tree" /\ ~p.clean)}

Preflight ==
    /\ args.root # "none" /\ args.decision = None
    /\ \E seen \in SUBSET Failures :
         LET p == Provenance(args.root)
             f == seen \cup ProvenanceFailures(p)
         IN \E m \in Resolved(args.request, f) :
              args' = [args EXCEPT !.decision =
                         [commit |-> p.commit, clean |-> p.clean, model |-> m,
                          failures |-> IF f = {} /\ m = 0 THEN {"model"} ELSE f]]
    /\ UNCHANGED <<head, work, package, manifest, target, copy, branch, ran, artifact, events>>

Passed(d) == d # None /\ d.failures = {}
Permits(d) == Passed(d)

Refuse ==
    /\ args.decision # None /\ ~Permits(args.decision)
    /\ args' = NoCall
    /\ UNCHANGED <<head, work, package, manifest, target, copy, branch, ran, artifact, events>>

(* A stage writes the record into its run root, then works with the frozen  *)
(* revision, which replaced the requested one.                              *)
WriteArtifact ==
    /\ Permits(args.decision) /\ ~args.written
    /\ artifact' = args.decision /\ args' = [args EXCEPT !.written = TRUE]
    /\ UNCHANGED <<head, work, package, manifest, target, copy, branch, ran, events>>

Loads == args.decision.model
RunStage ==
    /\ args.written /\ ran = None
    /\ ran' = [tree |-> Tree(args.root), model |-> IF Loads = 0 THEN branch ELSE Loads]
    /\ UNCHANGED <<head, work, package, manifest, target, copy, branch, args, artifact, events>>

Return ==
    /\ ran # None /\ args # NoCall /\ args' = NoCall
    /\ UNCHANGED <<head, work, package, manifest, target, copy, branch, ran, artifact, events>>

Extract == StartExtract \/ CopyFile \/ WriteManifest \/ KillExtract
Server == Call \/ Preflight \/ Refuse \/ WriteArtifact \/ RunStage \/ Return
Next == Edit \/ CheckOut \/ BranchMoves \/ Extract \/ Server
Spec == Init /\ [][Next]_vars

-----------------------------------------------------------------------------
(* A record speaks of a package when it is the manifest's; below the        *)
(* repository it is Git's, which need not name the commit of the package.   *)
SpeaksOfPackage(commit) ==
    ~target.inside \/ manifest = [commit |-> commit, clean |-> TRUE]

Carries(tree, commit) ==
    \A f \in Files : TreeOf[commit][f] # 0 => tree[f] = TreeOf[commit][f]

(* While a call lasts, the commit in its record is that of the code that    *)
(* ran.  In the repository this is its very tree.  A package whose first    *)
(* extraction was cut is refused; one that was extracted to the end into an *)
(* empty directory is that commit's very tree; one extracted to the end     *)
(* over an earlier one carries every file of the commit, but may hold files *)
(* the commit has not.  Nothing is said of an extraction cut over an older  *)
(* package, whose manifest stays, nor of a package below the repository     *)
(* whose commit is not HEAD: see RecordIsOfThePackage.                      *)
NamesTheCode(commit, tree) ==
    /\ args.root = "repository" => tree = TreeOf[commit]
    /\ args.root = "package" /\ SpeaksOfPackage(commit) =>
          /\ target.whole \/ target.over
          /\ target.whole => Carries(tree, commit)
          /\ ~target.over => tree = TreeOf[commit]

ProvenanceIsOfTheCode ==
    (ran # None /\ args.written) => NamesTheCode(artifact.commit, ran.tree)

(* The model a stage loaded is the one its record names, although the       *)
(* branch may have moved since the preflight.                               *)
ModelIsTheRecorded == ran # None => ran.model = artifact.model

(* No stage runs, and no record is left in a run root, after a preflight    *)
(* that found anything wrong.                                               *)
OnlyPassedRuns == artifact # None => Passed(artifact)

(* What a stage did and the record beside it are of one call, although an   *)
(* earlier call left its record in the same run root.                       *)
RecordIsOfThisCall == (ran # None /\ args.written) => artifact = args.decision

(* The text of _source_git_provenance: commit and state are written to the  *)
(* manifest for the preflight of the server.  Not so below the repository,  *)
(* where Git answers before the manifest is looked at.                      *)
PreflightReadsManifest ==
    (args.root = "package" /\ manifest # None /\ Passed(args.decision))
        => args.decision.commit = manifest.commit /\ manifest.clean

(* What the record is for, without exception: the package that ran is the   *)
(* tree of its commit.  Not so below the repository, nor over an earlier    *)
(* extraction.                                                              *)
RecordIsOfThePackage ==
    (ran # None /\ args.written /\ args.root = "package")
        => ran.tree = TreeOf[artifact.commit]
=============================================================================
