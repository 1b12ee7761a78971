-------------------------- MODULE SuccessPromotion --------------------------
(*****************************************************************************)
(* How the phase-response preflight publishes its result                     *)
(* (run_patch_relation_phase_response_preflight): three artifacts are        *)
(* written into a staging directory of the run's own, read back, and the     *)
(* directory is renamed over the emptied output; whatever fails is cleaned   *)
(* up through the directory's descriptor and its identity, and a failure     *)
(* decision is written instead.  Every operation may raise, those that clean *)
(* up included, the process may be killed anywhere, and a later run is given *)
(* the same output.                                                          *)
(*****************************************************************************)
EXTENDS Naturals, FiniteSets

CONSTANT MaxRuns    \* bound: runs on one output, one after the other

RunsAssumption == MaxRuns \in Nat \ {0}

VARIABLES
    pc, run,
    out,        \* the directory at the output path: Absent, Plain or a run's own
    place,      \* where the staging directory of each run is
    content,    \* per directory, what each artifact name holds
    fd,         \* success_staging_directory_fd is set
    named,      \* success_staging is set
    promoted,   \* success_promoted
    safe,       \* recovery_output_safe
    dirty,      \* a clean-up operation of this run raised
    returned,   \* runs that returned their decision
    withdrawn   \* runs whose promoted directory was taken back

vars == <<pc, run, out, place, content, fd, named, promoted, safe, dirty, returned,
          withdrawn>>

Runs == 1 .. MaxRuns
Plain == 0
Absent == MaxRuns + 1
Artifacts == {"record", "decision", "manifest"}
Empty == [a \in Artifacts |-> "none"]
Whole == [a \in Artifacts |-> "success"]
Failure == [Empty EXCEPT !["decision"] = "failure"]
Ended == {"returned", "raised", "refused", "killed"}

Init ==
    /\ pc = "begin" /\ run = 1 /\ out = Absent
    /\ place = [r \in Runs |-> "none"]
    /\ content = [d \in {Plain} \cup Runs |-> Empty]
    /\ fd = FALSE /\ named = FALSE /\ promoted = FALSE /\ safe = TRUE /\ dirty = FALSE
    /\ returned = {} /\ withdrawn = {}

disk == <<out, place, content>>
marks == <<fd, named, promoted>>
ends == <<returned, withdrawn>>

----------------------------------------------------------------------------
(* The try block                                                            *)

OutputEmpty == out = Absent \/ content[out] = Empty

\* Mutant of Refuses: the output is not looked into.
RefusesNever == FALSE

Refuses == ~OutputEmpty

Refuse ==
    /\ pc = "begin" /\ Refuses /\ pc' = "refused"
    /\ UNCHANGED <<run, disk, marks, safe, dirty, ends>>

Begin ==
    /\ pc = "begin" /\ ~Refuses
    /\ out' = IF out = Absent THEN Plain ELSE out
    /\ content' = IF out = Absent THEN [content EXCEPT ![Plain] = Empty] ELSE content
    /\ pc' = "execute"
    /\ UNCHANGED <<run, place, marks, safe, dirty, ends>>

\* The preflight ran and its batch was found valid; the staging directory is made
\* and opened.
CreateStaging ==
    /\ pc = "execute"
    /\ place' = [place EXCEPT ![run] = "staging"]
    /\ fd' = TRUE /\ named' = TRUE /\ pc' = "write"
    /\ UNCHANGED <<run, out, content, promoted, safe, dirty, ends>>

\* Made but not opened: it is removed again where that does not raise.
CreateStagingFails ==
    /\ pc = "execute"
    /\ \E left \in BOOLEAN :
         /\ place' = IF left THEN [place EXCEPT ![run] = "staging"] ELSE place
         /\ dirty' = left
    /\ pc' = "clean"
    /\ UNCHANGED <<run, out, content, marks, safe, ends>>

Order == <<"record", "decision", "manifest">>
Unwritten == {a \in Artifacts : content[run][a] = "none"}
First(S) == Order[CHOOSE i \in 1 .. 3 : Order[i] \in S /\ \A j \in 1 .. i - 1 : Order[j] \notin S]

Put(d, a, value) == content' = [content EXCEPT ![d][a] = value]

WriteArtifact ==
    /\ pc = "write" /\ Unwritten # {}
    /\ Put(run, First(Unwritten), "success")
    /\ UNCHANGED <<pc, run, out, place, marks, safe, dirty, ends>>

\* The write stops short.
WriteRaises ==
    /\ pc = "write" /\ Unwritten # {}
    /\ \E value \in {"none", "partial"} : Put(run, First(Unwritten), value)
    /\ pc' = "clean"
    /\ UNCHANGED <<run, out, place, marks, safe, dirty, ends>>

Readback ==
    /\ pc = "write" /\ Unwritten = {}
    /\ pc' = "remove"
    /\ UNCHANGED <<run, disk, marks, safe, dirty, ends>>

\* rmdir takes an empty directory only; it may be what is left of a promoted one.
RemoveOutput ==
    /\ pc = "remove" /\ out # Absent /\ content[out] = Empty
    /\ out' = Absent /\ pc' = "promote"
    /\ place' = [r \in Runs |-> IF r = out THEN "gone" ELSE place[r]]
    /\ withdrawn' = withdrawn \cup ({out} \cap Runs)
    /\ UNCHANGED <<run, content, marks, safe, dirty, returned>>

\* One rename; the storage may have damaged an artifact since it was read back.
Promote ==
    /\ pc = "promote"
    /\ out' = run /\ place' = [place EXCEPT ![run] = "output"]
    /\ \/ content' = content
       \/ \E a \in Artifacts : Put(run, a, "partial")
    /\ promoted' = TRUE /\ pc' = "verify"
    /\ UNCHANGED <<run, fd, named, safe, dirty, ends>>

Verified == out = run /\ content[run] = Whole

Verify ==
    /\ pc = "verify" /\ Verified
    /\ pc' = "close"
    /\ UNCHANGED <<run, disk, marks, safe, dirty, ends>>

VerifyRaises ==
    /\ pc = "verify" /\ pc' = "clean"
    /\ UNCHANGED <<run, disk, marks, safe, dirty, ends>>

Return ==
    /\ pc = "close"
    /\ fd' = FALSE /\ named' = FALSE /\ promoted' = FALSE
    /\ returned' = returned \cup {run} /\ pc' = "returned"
    /\ UNCHANGED <<run, disk, safe, dirty, withdrawn>>

Raises ==
    /\ pc \in {"execute", "write", "remove", "promote", "close"}
    /\ pc' = "clean"
    /\ UNCHANGED <<run, disk, marks, safe, dirty, ends>>

----------------------------------------------------------------------------
(* except Exception                                                         *)

Held(d) == {a \in Artifacts : content[d][a] # "none"}

\* _cleanup_success_artifacts_by_directory_fd, wherever the directory is.
CleanByDescriptor ==
    /\ pc = "clean" /\ fd /\ Held(run) # {}
    /\ Put(run, First(Held(run)), "none")
    /\ UNCHANGED <<pc, run, out, place, marks, safe, dirty, ends>>

DescriptorDone ==
    /\ pc = "clean"
    /\ \/ (~fd \/ Held(run) = {}) /\ dirty' = dirty
       \/ fd /\ dirty' = TRUE
    /\ pc' = "rollback"
    /\ UNCHANGED <<run, disk, marks, safe, ends>>

\* _cleanup_owned_success_staging: the children in any order, then the directory.
RemoveChild ==
    /\ pc = "rollback" /\ (promoted => out = run) /\ named
    /\ \E a \in Held(run) : Put(run, a, "none")
    /\ UNCHANGED <<pc, run, out, place, marks, safe, dirty, ends>>

RemoveOwned ==
    /\ pc = "rollback" /\ (promoted => out = run) /\ named /\ Held(run) = {}
    /\ place' = [place EXCEPT ![run] = "gone"]
    /\ out' = IF promoted THEN Absent ELSE out
    /\ withdrawn' = IF promoted THEN withdrawn \cup {run} ELSE withdrawn
    /\ pc' = "recover"
    /\ UNCHANGED <<run, content, marks, safe, dirty, returned>>

NothingOwned ==
    /\ pc = "rollback" /\ ~named
    /\ pc' = "recover"
    /\ UNCHANGED <<run, disk, marks, safe, dirty, ends>>

\* Mutant of RollbackRaises: the output is taken for safe.
RollbackRaisesSafe ==
    /\ pc = "rollback" /\ named
    /\ dirty' = TRUE /\ safe' = safe /\ pc' = "recover"
    /\ UNCHANGED <<run, disk, marks, ends>>

RollbackRaises ==
    /\ pc = "rollback" /\ named
    /\ dirty' = TRUE /\ safe' = (safe /\ ~promoted) /\ pc' = "recover"
    /\ UNCHANGED <<run, disk, marks, ends>>

\* The descriptor is closed; what is at the output path then takes the failure
\* decision, if it is ours to use.
MakeOutput ==
    /\ pc = "recover" /\ safe /\ out = Absent
    /\ out' = Plain /\ content' = [content EXCEPT ![Plain] = Empty]
    /\ fd' = FALSE /\ pc' = "unlink"
    /\ UNCHANGED <<run, place, named, promoted, safe, dirty, ends>>

KeepOutput ==
    /\ pc = "recover" /\ safe /\ out # Absent
    /\ fd' = FALSE /\ pc' = "unlink"
    /\ UNCHANGED <<run, disk, named, promoted, safe, dirty, ends>>

LeaveOutput ==
    /\ pc = "recover" /\ ~safe
    /\ fd' = FALSE /\ pc' = "raised"
    /\ UNCHANGED <<run, disk, named, promoted, safe, dirty, ends>>

Unlink ==
    /\ pc = "unlink"
    /\ \E failed \in SUBSET Held(out) :
         /\ content' = [content EXCEPT ![out] =
                          [a \in Artifacts |-> IF a \in failed THEN @[a] ELSE "none"]]
         /\ dirty' = (dirty \/ failed # {})
    /\ pc' = "decide"
    /\ UNCHANGED <<run, out, place, marks, safe, ends>>

WriteFailure ==
    /\ pc = "decide"
    /\ Put(out, "decision", "failure") /\ pc' = "raised"
    /\ UNCHANGED <<run, out, place, marks, safe, dirty, ends>>

\* The handler itself raises: making the output or writing into it.
HandlerRaises ==
    /\ pc \in {"recover", "unlink", "decide"} /\ safe
    /\ dirty' = TRUE /\ pc' = "raised"
    /\ UNCHANGED <<run, disk, marks, safe, ends>>

----------------------------------------------------------------------------
Kill ==
    /\ pc \notin Ended /\ pc' = "killed"
    /\ UNCHANGED <<run, disk, marks, safe, dirty, ends>>

NextRun ==
    /\ pc \in Ended /\ run < MaxRuns
    /\ run' = run + 1 /\ pc' = "begin"
    /\ fd' = FALSE /\ named' = FALSE /\ promoted' = FALSE /\ safe' = TRUE /\ dirty' = FALSE
    /\ UNCHANGED <<disk, ends>>

Next ==
    \/ Refuse \/ Begin \/ CreateStaging \/ CreateStagingFails
    \/ WriteArtifact \/ WriteRaises \/ Readback \/ RemoveOutput \/ Promote
    \/ Verify \/ VerifyRaises \/ Return \/ Raises
    \/ CleanByDescriptor \/ DescriptorDone \/ RemoveChild \/ RemoveOwned
    \/ NothingOwned \/ RollbackRaises \/ MakeOutput \/ KeepOutput \/ LeaveOutput
    \/ Unlink \/ WriteFailure \/ HandlerRaises
    \/ Kill \/ NextRun

Spec == Init /\ [][Next]_vars

----------------------------------------------------------------------------
TypeOK ==
    /\ pc \in Ended \cup {"begin", "execute", "write", "remove", "promote", "verify",
                          "close", "clean", "rollback", "recover", "unlink", "decide"}
    /\ run \in Runs /\ out \in {Plain, Absent} \cup Runs
    /\ place \in [Runs -> {"none", "staging", "output", "gone"}]
    /\ content \in [{Plain} \cup Runs ->
                      [Artifacts -> {"none", "success", "partial", "failure"}]]
    /\ fd \in BOOLEAN /\ named \in BOOLEAN /\ promoted \in BOOLEAN
    /\ safe \in BOOLEAN /\ dirty \in BOOLEAN
    /\ returned \subseteq Runs /\ withdrawn \subseteq Runs
    /\ \A r \in Runs : place[r] = "output" <=> out = r

\* A reader never finds a failure decision next to a record or a manifest, not
\* even when the roll-back of a promoted output raises half-way
\* (recovery_output_safe).
NeverBoth ==
    \A d \in {Plain} \cup Runs :
        content[d]["decision"] = "failure" => content[d] = Failure

\* A run that raised, with no clean-up raising too, has left exactly its failure
\* decision: no artifact of a success and no staging directory.
FailureIsAlone ==
    pc = "raised" /\ ~dirty =>
        out # Absent /\ content[out] = Failure /\ place[run] # "staging"

\* What a reader of the output sees of each run.
StoredResult ==
    [r \in Runs |->
       IF r \in withdrawn THEN "gone"
       ELSE IF out # r THEN "none"
       ELSE IF content[r] = Whole THEN "pair" ELSE "torn"]

Store == INSTANCE ResultStore WITH result <- StoredResult, acked <- returned

\* The promotion keeps the promises of the result store: a result appears at once,
\* is acknowledged only whole, stays once acknowledged whatever later runs on the
\* same output do, and a withdrawn one never comes back.
ImplementsResultStore == Store!Spec
=============================================================================
