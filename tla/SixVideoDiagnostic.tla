------------------------- MODULE SixVideoDiagnostic -------------------------
(*******************************************************************************)
(* The analysis of the six saved videos                                        *)
(* (run_existing_six_video_spatiotemporal_signed_response_diagnostic): several *)
(* calls on one output root, from a result ZIP, which is unpacked first, or    *)
(* from a result directory, which is read in place while others may edit it.   *)
(* A read or a write may fail and a process may be killed anywhere.            *)
(*******************************************************************************)
EXTENDS Naturals, FiniteSets

CONSTANTS
    Calls,      \* calls on the output root
    Intervals,  \* intervals of the video time (3 in the frozen plan)
    MaxEdits,   \* bound: edits of the source
    MaxFaults   \* bound: failing operations and kills

SixVideoAssumption ==
    /\ IsFiniteSet(Calls) /\ "nobody" \notin Calls
    /\ Intervals \in Nat \ {0} /\ MaxEdits \in Nat /\ MaxFaults \in Nat

Videos == {"clean_start", "clean_end", "marked"}   \* the four marked ones as one
Parts == Videos \cup {"records"}
Bytes == {"frozen", "other"}
Families == {"frame_interval", "adjacent_difference"}
Pairs == {"early", "late"}

VARIABLES
    kind,    \* the source is a "zip" or a "directory"
    source,  \* its parts
    copy,    \* what a call has unpacked
    pc,      \* where each call is
    frames,  \* the videos as a call has read them
    found,   \* the statistics a call has computed
    disk,    \* the output root
    edits, faults

vars == <<kind, source, copy, pc, frames, found, disk, edits, faults>>

Nothing == "nothing"
NoRecords == [passed |-> [f \in Families |-> [p \in Pairs |-> 0]], finite |-> FALSE]

Records == [passed : [Families -> [Pairs -> 0 .. Intervals]], finite : BOOLEAN]

\* A file: who wrote it last, whether all of it is there, and what it says.
Absent == [by |-> "nobody", whole |-> FALSE, says |-> Nothing]
NoRoot == [root |-> FALSE, stats |-> Absent, decision |-> Absent, manifest |-> Absent,
           rows |-> NoRecords]

Init ==
    /\ kind \in {"zip", "directory"}
    /\ source \in [Parts -> Bytes]
    /\ copy = [c \in Calls |-> [p \in Parts |-> Nothing]]
    /\ pc = [c \in Calls |-> "start"]
    /\ frames = [c \in Calls |-> [v \in Videos |-> Nothing]]
    /\ found = [c \in Calls |-> NoRecords]
    /\ disk = NoRoot /\ edits = 0 /\ faults = 0

Ended == {"refused", "returned", "raised", "killed"}

\* Inside the try block, before the handler.
Guarded == {"unpack", "snapshot", "records", "videos", "read", "compute", "stats",
            "decision", "manifest", "cleanup"}

Become(c, where) == pc' = [pc EXCEPT ![c] = where]

\* What the analysis of a call reads.
View(c) == IF kind = "zip" THEN copy[c] ELSE source

Edit(p) ==
    /\ edits < MaxEdits /\ edits' = edits + 1
    /\ source' = [source EXCEPT ![p] = IF @ = "frozen" THEN "other" ELSE "frozen"]
    /\ UNCHANGED <<kind, copy, pc, frames, found, disk, faults>>

----------------------------------------------------------------------------
(* The output root                                                          *)

\* FileExistsError, before anything is written.
Start(c) ==
    /\ pc[c] = "start"
    /\ Become(c, IF disk.root THEN "refused" ELSE "mkdir")
    /\ UNCHANGED <<kind, source, copy, frames, found, disk, edits, faults>>

Opened(c) == IF kind = "zip" THEN "unpack" ELSE "snapshot"

\* The configuration has been loaded meanwhile; mkdir refuses a root that exists.
MakeRoot(c) ==
    /\ pc[c] = "mkdir"
    /\ disk' = [disk EXCEPT !.root = TRUE]
    /\ Become(c, IF disk.root THEN "refused" ELSE Opened(c))
    /\ UNCHANGED <<kind, source, copy, frames, found, edits, faults>>

----------------------------------------------------------------------------
(* The source                                                               *)

\* One member after the other goes to a private temporary directory.
Unpack(c) ==
    /\ pc[c] = "unpack"
    /\ \E p \in Parts :
          /\ copy[c][p] = Nothing
          /\ copy' = [copy EXCEPT ![c][p] = source[p]]
          /\ Become(c, IF \E q \in Parts \ {p} : copy[c][q] = Nothing
                       THEN "unpack" ELSE "snapshot")
    /\ UNCHANGED <<kind, source, frames, found, disk, edits, faults>>

\* A check that fails raises.
Verdict(ok, next) == IF ok THEN next ELSE "failing"

\* The file set and the digest of all files against the frozen one.
Snapshot(c) ==
    /\ pc[c] = "snapshot"
    /\ Become(c, Verdict(\A p \in Parts : View(c)[p] = "frozen", "records"))
    /\ UNCHANGED <<kind, source, copy, frames, found, disk, edits, faults>>

\* Decision, manifest and record counts are read again; an edit may pass these checks.
ReadRecords(c) ==
    /\ pc[c] = "records"
    /\ \E ok \in BOOLEAN :
          /\ View(c)["records"] = "frozen" => ok
          /\ Become(c, Verdict(ok, "videos"))
    /\ UNCHANGED <<kind, source, copy, frames, found, disk, edits, faults>>

HashVideos(c) ==
    /\ pc[c] = "videos"
    /\ Become(c, Verdict(\A v \in Videos : View(c)[v] = "frozen", "read"))
    /\ UNCHANGED <<kind, source, copy, frames, found, disk, edits, faults>>

\* The videos are decoded from their files once more, after all of them were hashed.
ReadFrames(c) ==
    /\ pc[c] = "read"
    /\ \E v \in Videos :
          /\ frames[c][v] = Nothing
          /\ frames' = [frames EXCEPT ![c][v] = View(c)[v]]
          /\ Become(c, IF \E w \in Videos \ {v} : frames[c][w] = Nothing
                       THEN "read" ELSE "compute")
    /\ UNCHANGED <<kind, source, copy, found, disk, edits, faults>>

----------------------------------------------------------------------------
(* The analysis                                                             *)

\* Mutant of CleansEqual: the drift of the clean video is averaged away.
CleansAny(c) == TRUE

CleansEqual(c) == frames[c]["clean_start"] = frames[c]["clean_end"]

\* Per family and pair, how many intervals pass the signed gate: all or one less.
Compute(c) ==
    /\ pc[c] = "compute"
    /\ Become(c, Verdict(CleansEqual(c), "stats"))
    /\ \E passed \in [Families -> [Pairs -> {Intervals - 1, Intervals}]], finite \in BOOLEAN :
          found' = [found EXCEPT ![c] = IF CleansEqual(c)
                       THEN [passed |-> passed, finite |-> finite] ELSE @]
    /\ UNCHANGED <<kind, source, copy, frames, disk, edits, faults>>

Stable(r, f) == \A p \in Pairs : r.passed[f][p] = Intervals

Classification(r) ==
    IF ~r.finite THEN "indeterminate"
    ELSE IF \E f \in Families : Stable(r, f) THEN "salvage" ELSE "redesign"

Classes == {"indeterminate", "salvage", "redesign"}

----------------------------------------------------------------------------
(* The files                                                                *)

File(c, what) == [by |-> c, whole |-> TRUE, says |-> what]
Torn(c) == [by |-> c, whole |-> FALSE, says |-> Nothing]

WriteStats(c) ==
    /\ pc[c] = "stats"
    /\ disk' = [disk EXCEPT !.stats = File(c, "records"), !.rows = found[c]]
    /\ Become(c, "decision")
    /\ UNCHANGED <<kind, source, copy, frames, found, edits, faults>>

WriteDecision(c) ==
    /\ pc[c] = "decision"
    /\ disk' = [disk EXCEPT !.decision = File(c, Classification(found[c]))]
    /\ Become(c, "manifest")
    /\ UNCHANGED <<kind, source, copy, frames, found, edits, faults>>

WriteManifest(c) ==
    /\ pc[c] = "manifest"
    /\ disk' = [disk EXCEPT !.manifest = File(c, "manifest")]
    /\ Become(c, IF kind = "zip" THEN "cleanup" ELSE "returned")
    /\ UNCHANGED <<kind, source, copy, frames, found, edits, faults>>

\* The temporary directory is removed before the call returns.
Cleanup(c) ==
    /\ pc[c] = "cleanup"
    /\ copy' = [copy EXCEPT ![c] = [p \in Parts |-> Nothing]]
    /\ Become(c, "returned")
    /\ UNCHANGED <<kind, source, frames, found, disk, edits, faults>>

\* A write that stops leaves a file that is not whole: none of them is staged.
Left(c) ==
    CASE pc[c] = "stats" -> [disk EXCEPT !.stats = Torn(c)]
      [] pc[c] = "decision" -> [disk EXCEPT !.decision = Torn(c)]
      [] pc[c] = "manifest" -> [disk EXCEPT !.manifest = Torn(c)]
      [] pc[c] = "failing" -> [disk EXCEPT !.decision = Torn(c)]
      [] OTHER -> disk

\* An operation of the try block fails.
Fails(c) ==
    /\ pc[c] \in Guarded /\ faults < MaxFaults /\ faults' = faults + 1
    /\ disk' = Left(c)
    /\ Become(c, "failing")
    /\ UNCHANGED <<kind, source, copy, frames, found, edits>>

\* The handler writes over the decision, whatever it says, and raises again.
RecordFailure(c) ==
    /\ pc[c] = "failing"
    /\ disk' = [disk EXCEPT !.decision = File(c, "failure")]
    /\ Become(c, "raised")
    /\ UNCHANGED <<kind, source, copy, frames, found, edits, faults>>

\* The write of the failure fails too, or the process is killed.
Dies(c) ==
    /\ pc[c] \in Guarded \cup {"failing"} /\ faults < MaxFaults /\ faults' = faults + 1
    /\ disk' = Left(c)
    /\ Become(c, "killed")
    /\ UNCHANGED <<kind, source, copy, frames, found, edits>>

Run(c) ==
    \/ Start(c) \/ MakeRoot(c) \/ Unpack(c) \/ Snapshot(c) \/ ReadRecords(c)
    \/ HashVideos(c) \/ ReadFrames(c) \/ Compute(c)
    \/ WriteStats(c) \/ WriteDecision(c) \/ WriteManifest(c) \/ Cleanup(c)
    \/ RecordFailure(c)

Next ==
    \/ \E c \in Calls : Run(c) \/ Fails(c) \/ Dies(c)
    \/ \E p \in Parts : Edit(p)

Spec == Init /\ [][Next]_vars

----------------------------------------------------------------------------
(* Properties                                                               *)

FileType == [by : Calls \cup {"nobody"}, whole : BOOLEAN,
             says : Classes \cup {"records", "manifest", "failure", Nothing}]

\* Types of the variables.
TypeOK ==
    /\ kind \in {"zip", "directory"} /\ source \in [Parts -> Bytes]
    /\ copy \in [Calls -> [Parts -> Bytes \cup {Nothing}]]
    /\ pc \in [Calls -> Guarded \cup Ended \cup {"start", "mkdir", "failing"}]
    /\ frames \in [Calls -> [Videos -> Bytes \cup {Nothing}]]
    /\ found \in [Calls -> Records]
    /\ disk \in [root : BOOLEAN, stats : FileType, decision : FileType,
                 manifest : FileType, rows : Records]
    /\ edits \in 0 .. MaxEdits /\ faults \in 0 .. MaxFaults

\* One root holds the files of one call, also when two calls found it free at the same
\* time: the loser of mkdir writes nothing, not even its failure.
OneCallPerRoot ==
    Cardinality({disk.stats.by, disk.decision.by, disk.manifest.by} \ {"nobody"}) <= 1

\* What is analysed is what was validated, byte for byte, when the source is a ZIP: it
\* is unpacked once and validated as unpacked.  A directory is as good as its quiet.
AnalysedIsValidated ==
    \A c \in Calls : \A v \in Videos :
        frames[c][v] = "other" => kind = "directory" /\ edits > 0

\* A recorded candidate rests on the statistics beside it: salvage on one family that
\* passes all intervals of both flow stages, redesign on none; the two clean videos
\* that gave the intercept had the same frames.
CandidateIsBacked ==
    disk.decision.says \in Classes =>
       /\ disk.stats.whole /\ disk.stats.by = disk.decision.by
       /\ disk.decision.says # "indeterminate" =>
             (disk.decision.says = "salvage" <=>
                \E f \in Families : \A p \in Pairs : disk.rows.passed[f][p] = Intervals)
       /\ frames[disk.decision.by]["clean_start"] = frames[disk.decision.by]["clean_end"]

\* A call that returned leaves statistics, candidate and manifest, all whole; one that
\* raised leaves the failure as its decision, also when the failure came after the
\* manifest.
OutcomeIsOnDisk ==
    \A c \in Calls :
       /\ pc[c] = "returned" =>
             /\ disk.decision.by = c /\ disk.decision.says = Classification(found[c])
             /\ disk.stats.whole /\ disk.manifest.by = c /\ disk.manifest.whole
       /\ pc[c] = "raised" => disk.decision.by = c /\ disk.decision.says = "failure"
=============================================================================
