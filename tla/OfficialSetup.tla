--------------------------- MODULE OfficialSetup ---------------------------
(***************************************************************************)
(* What the notebook of one external baseline does before it runs the      *)
(* official code: intake of the pinned source repository                   *)
(* (external_baseline/source_intake.py), the bootstrap of public resources *)
(* (official_resource_bootstrap.py), the closure of the requirements       *)
(* (official_runtime_closure.py) and the decision whether to attempt the   *)
(* official run (workflows/modern_external_baseline_reference.py).  The    *)
(* source directory and the resource outlive a run: a run may be killed    *)
(* between any two commands and the next one starts from what it left.     *)
(***************************************************************************)
EXTENDS Naturals, Sequences

CONSTANTS
    Pin,           \* the commit the registry freezes
    Tip,           \* what the registry's branch names
    Fitting,       \* the commits whose tree has the required source files
    NeedsResource, \* the configuration requires a resource of the default adapter
    AutoSupported, \* automatic_bundle_generation_supported_by_sstw
    MaxFaults      \* bound on kills, failing checkouts and raising commands

SetupAssumption ==
    /\ Pin # Tip /\ Fitting \subseteq {Pin, Tip}
    /\ {Pin, Tip} \cap {"absent", "plain", "empty"} = {}
    /\ NeedsResource \in BOOLEAN /\ AutoSupported \in BOOLEAN
    /\ MaxFaults \in Nat

Commits == {Pin, Tip}

VARIABLES
    source,    \* the source directory: absent, without .git, an empty clone, or a checkout
    resource,  \* the file the resource's path names
    decision,  \* the bootstrap decision in the run root
    closure,   \* the closure artifact of the run root
    bound,     \* the process has the path of the resource in its environment
    pc,        \* the stage of the notebook
    run,       \* its switches: execute_source_clone and allow_network
    git,       \* the commands of this intake: fresh clone, one failed
    status,    \* clone_operation_status of this run
    bundle,    \* the last official bundle: the commit it names, the one it used
    manifest,  \* execution_status of the last reference stage
    online,    \* the network answers
    faults

vars == <<source, resource, decision, closure, bound, pc, run, git, status, bundle,
          manifest, online, faults>>
Kept == <<online, faults>>

None == [none |-> TRUE]
Stages == {"idle", "intake", "checkout1", "checkout2", "bootstrap", "download", "decide",
           "closure", "reference"}

TypeOK ==
    /\ source \in {"absent", "plain", "empty"} \cup Commits
    /\ resource \in {"absent", "partial", "whole"}
    /\ decision \in {None} \cup [ready : BOOLEAN, path : BOOLEAN]
    /\ closure \in {None} \cup [ready : BOOLEAN, missing : SUBSET {"source", "resource", "inputs"}]
    /\ pc \in Stages /\ bound \in BOOLEAN /\ online \in BOOLEAN
    /\ run \in [clone : BOOLEAN, network : BOOLEAN, inputs : BOOLEAN]
    /\ git \in [fresh : BOOLEAN, failed : BOOLEAN]
    /\ status \in {"none", "planned_not_executed", "cloned", "updated", "failed"}
    /\ bundle \in {None} \cup [names : Commits, made : Commits]
    /\ manifest \in {"none", "blocked", "generated", "failed"}
    /\ faults \in 0..MaxFaults

Init ==
    /\ source \in {"absent", "plain", Tip}
    /\ resource = "absent" /\ decision = None /\ closure = None /\ bound = FALSE
    /\ pc = "idle" /\ run = [clone |-> TRUE, network |-> TRUE, inputs |-> TRUE]
    /\ git = [fresh |-> FALSE, failed |-> FALSE] /\ status = "none"
    /\ bundle = None /\ manifest = "none" /\ online \in BOOLEAN /\ faults = 0

(* A run of the notebook; its runtime inputs may be incomplete. *)
Begin ==
    /\ pc = "idle" /\ pc' = "intake" /\ status' = "none"
    /\ run' \in [clone : BOOLEAN, network : BOOLEAN, inputs : BOOLEAN]
    /\ UNCHANGED <<source, resource, decision, closure, bound, git, bundle, manifest, Kept>>

-----------------------------------------------------------------------------
(* Source intake. *)

(* What is checked out, in this order: the branch, then the commit. *)
RefsCommitFirst == <<Pin, Tip>>
Refs == <<Tip, Pin>>

(* _clone_or_update_one up to its first Git command. *)
Skip == run.clone = FALSE
PlanOnly ==
    /\ pc = "intake" /\ Skip
    /\ status' = "planned_not_executed" /\ pc' = "bootstrap"
    /\ UNCHANGED <<source, resource, decision, closure, bound, run, git, bundle, manifest, Kept>>

NotARepository ==
    /\ pc = "intake" /\ ~Skip /\ source = "plain"
    /\ status' = "failed" /\ pc' = "bootstrap"
    /\ UNCHANGED <<source, resource, decision, closure, bound, run, git, bundle, manifest, Kept>>

Fetch ==
    /\ pc = "intake" /\ ~Skip /\ source \in {"empty"} \cup Commits
    /\ git' = [fresh |-> FALSE, failed |-> ~online] /\ pc' = "checkout1"
    /\ UNCHANGED <<source, resource, decision, closure, bound, run, status, bundle, manifest, Kept>>

CloneSource ==
    /\ pc = "intake" /\ ~Skip /\ source = "absent"
    /\ \/ online /\ source' = Tip /\ pc' = "checkout1" /\ status' = status
       \/ ~online /\ source' = source /\ pc' = "bootstrap" /\ status' = "failed"
    /\ git' = [fresh |-> TRUE, failed |-> ~online]
    /\ UNCHANGED <<resource, decision, closure, bound, run, bundle, manifest, Kept>>

SyncStatus(g) ==
    IF g.failed THEN "failed" ELSE IF g.fresh THEN "cloned" ELSE "updated"

(* One checkout.  An empty clone has nothing to check out unless it was     *)
(* fetched, and any checkout may be refused, for instance by a dirty tree.  *)
Checkout(i) ==
    /\ pc = <<"checkout1", "checkout2">>[i]
    /\ \E ok \in BOOLEAN :
          /\ IF source = "empty" /\ git.failed THEN ~ok ELSE ok \/ faults < MaxFaults
          /\ source' = IF ok THEN Refs[i] ELSE source
          /\ git' = [git EXCEPT !.failed = @ \/ ~ok]
          /\ faults' = IF ok \/ (source = "empty" /\ git.failed) THEN faults ELSE faults + 1
    /\ pc' = <<"checkout2", "bootstrap">>[i]
    /\ status' = IF i = 2 THEN SyncStatus(git') ELSE status
    /\ UNCHANGED <<resource, decision, closure, bound, run, bundle, manifest, online>>

-----------------------------------------------------------------------------
(* Resources.  A download writes to the final path, and an existing file is *)
(* taken as it is; without network an installation is only planned.         *)
HasResource == resource # "absent"

ReuseOrSkip ==
    /\ pc = "bootstrap" /\ (~NeedsResource \/ HasResource \/ ~run.network \/ ~online)
    /\ pc' = "decide"
    /\ UNCHANGED <<source, resource, decision, closure, bound, run, git, status, bundle, manifest, Kept>>

StartDownload ==
    /\ pc = "bootstrap" /\ NeedsResource /\ ~HasResource /\ run.network /\ online
    /\ resource' = "partial" /\ pc' = "download"
    /\ UNCHANGED <<source, decision, closure, bound, run, git, status, bundle, manifest, Kept>>

EndDownload ==
    /\ pc = "download" /\ pc' = "decide"
    /\ resource' = IF online THEN "whole" ELSE resource
    /\ UNCHANGED <<source, decision, closure, bound, run, git, status, bundle, manifest, Kept>>

Installed == ~run.network \/ online
RowPath == HasResource
FilesThere == source \in Fitting
Row == [ready |-> Installed /\ FilesThere /\ (NeedsResource => HasResource),
        path |-> RowPath]

(* The environment takes the paths of whatever decision is in the run root. *)
Bind(d) == bound' = (bound \/ (d # None /\ d.path))

Decide ==
    /\ pc = "decide" /\ decision' = Row /\ Bind(decision') /\ pc' = "closure"
    /\ UNCHANGED <<source, resource, closure, run, git, status, bundle, manifest, Kept>>

(* The command raised: its stage fails, and the earlier decision is applied. *)
BootstrapRaises ==
    /\ pc \in {"bootstrap", "download"} /\ faults < MaxFaults /\ faults' = faults + 1
    /\ Bind(decision) /\ pc' = "closure"
    /\ UNCHANGED <<source, resource, decision, closure, run, git, status, bundle, manifest, online>>

-----------------------------------------------------------------------------
(* Closure and reference. *)

Missing ==
    {m \in {"source", "resource", "inputs"} :
        \/ m = "source" /\ source \notin Fitting
        \/ m = "resource" /\ NeedsResource /\ ~HasResource
        \/ m = "inputs" /\ ~run.inputs}

CanAttempt == AutoSupported \/ (NeedsResource /\ HasResource)
ReadyToAttempt == {"source", "inputs"} \cap Missing = {} /\ CanAttempt

Close ==
    /\ pc = "closure" /\ pc' = "reference"
    /\ closure' = [ready |-> ReadyToAttempt, missing |-> Missing]
    /\ bound' = (bound \/ HasResource)
    /\ UNCHANGED <<source, resource, decision, run, git, status, bundle, manifest, Kept>>

Blocked ==
    /\ pc = "reference" /\ ~closure.ready
    /\ manifest' = "blocked" /\ pc' = "idle"
    /\ UNCHANGED <<source, resource, decision, closure, bound, run, git, status, bundle, Kept>>

(* The official code runs from the source directory; the bundle names the   *)
(* commit that is written in the runtime's code.                            *)
Works == source \in Commits /\ (NeedsResource => resource = "whole" /\ bound)
Generate ==
    /\ pc = "reference" /\ closure.ready /\ Works
    /\ bundle' = [names |-> Pin, made |-> source]
    /\ manifest' = "generated" /\ pc' = "idle"
    /\ UNCHANGED <<source, resource, decision, closure, bound, run, git, status, Kept>>

Fails ==
    /\ pc = "reference" /\ closure.ready /\ ~Works
    /\ manifest' = "failed" /\ pc' = "idle"
    /\ UNCHANGED <<source, resource, decision, closure, bound, run, git, status, bundle, Kept>>

-----------------------------------------------------------------------------
(* The environment. *)

(* The process dies.  A clone that is cut leaves a repository without a tree. *)
Kill ==
    /\ pc # "idle" /\ faults < MaxFaults /\ faults' = faults + 1
    /\ pc' = "idle" /\ bound' = FALSE
    /\ \/ source' = source
       \/ pc = "intake" /\ ~Skip /\ source = "absent" /\ online /\ source' = "empty"
    /\ UNCHANGED <<resource, decision, closure, run, git, status, bundle, manifest, online>>

Network ==
    /\ online' = ~online
    /\ UNCHANGED <<source, resource, decision, closure, bound, pc, run, git, status, bundle, manifest, faults>>

Intake == PlanOnly \/ NotARepository \/ Fetch \/ CloneSource \/ Checkout(1) \/ Checkout(2)
Bootstrap == ReuseOrSkip \/ StartDownload \/ EndDownload \/ Decide
Attempt == Close \/ Blocked \/ Generate \/ Fails
Next == Begin \/ Intake \/ Bootstrap \/ BootstrapRaises \/ Attempt \/ Kill \/ Network

Spec == Init /\ [][Next]_vars
(* The notebook goes on; kills, refusals and outages are the environment's. *)
FairSpec == Spec /\ WF_vars(Begin \/ Intake \/ Bootstrap \/ Attempt)

-----------------------------------------------------------------------------
(* A clone or update that is reported as done leaves the frozen commit      *)
(* checked out for the whole of that run, whatever failed in earlier runs.  *)
SyncedIsPinned == status \in {"cloned", "updated"} => source = Pin

(* A path that the process took from a decision, its own or one an earlier  *)
(* run left when the bootstrap raised, names a file that is there.          *)
BoundIsThere == bound => HasResource

(* No run makes a bundle from a tree without the required source files: the *)
(* closure looked at the tree that the official code then runs from.        *)
MadeFromWholeTree == bundle # None => bundle.made \in Fitting

(* A directory without .git apart, a source that can be reached is pinned   *)
(* again and again, however runs before were cut.                           *)
ReachableIsPinned ==
    (<>[]online /\ <>[](run.clone = TRUE))
        => []<>(source = "plain" \/ status \in {"cloned", "updated"})

(* The text of source_intake.py: the baselines must be able to record the   *)
(* exact upstream commit.  A bundle would name the commit it was made from. *)
RecordedCommitIsUsed == bundle # None => bundle.names = bundle.made

(* The text of _runtime_closure_blocks_reference_attempt: a baseline whose  *)
(* preflight found a resource missing is not attempted.                     *)
MissingResourceBlocks ==
    (pc = "reference" /\ "resource" \in closure.missing) => ~closure.ready
=============================================================================
