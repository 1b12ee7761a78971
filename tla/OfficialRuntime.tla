--------------------------- MODULE OfficialRuntime ---------------------------
(***************************************************************************)
(* run_official_subprocess_with_heartbeat                                  *)
(* (external_baseline/official_runtime_progress.py): how the official code *)
(* of a baseline is run, with its two output streams kept for the caller   *)
(* and with an optional deadline.                                          *)
(*                                                                         *)
(* It differs from StreamingCommand in what it does at its ends: there is  *)
(* no process group and no drain grace, only the child itself is killed,   *)
(* and only when the deadline passes.                                      *)
(*                                                                         *)
(* Lines are numbered per stream.  Time is left out: a deadline that was   *)
(* given may pass at any moment.                                           *)
(***************************************************************************)
EXTENDS Integers, Sequences

CONSTANTS
  ChildLines,    \* bound on the lines the command writes, on both streams
  HelperLines,   \* bound on those of a process it leaves behind
  PipeCapacity,  \* lines a pipe holds before a writer blocks
  BadLines       \* <<stream, number>> of lines that are not valid text

Streams == {"stdout", "stderr"}

RuntimeAssumption ==
  /\ ChildLines \in Nat /\ HelperLines \in Nat /\ PipeCapacity \in Nat \ {0}
  /\ BadLines \subseteq Streams \X (Nat \ {0})

VARIABLES
  (* the processes *)
  child,      \* "none", "running", "exited" (a zombie) or "reaped"
  exitCode,   \* its own return code once it has exited
  helper,     \* "none", "running" or "gone"
  holders,    \* for each stream the processes that hold its write end
  killed,     \* was the child sent SIGKILL
  left,       \* lines child and helper may still write
  written,    \* lines written to each pipe
  (* the two reader threads *)
  taken, reading,
  queue,      \* output_queue: <<stream, line>>, line 0 for None
  (* the calling thread *)
  pc,         \* ends in "returned", "timed_out", "not_launched" or "raised"
  timed,      \* was a positive timeout_seconds given
  late,       \* has it passed
  kept,       \* lines appended to stdout_chunks, stderr_chunks
  closed,     \* closed_streams
  rc          \* the return code that was reported, or NoCode

childVars == <<child, exitCode, helper, holders, killed, left, written>>
readerVars == <<taken, reading>>
callerVars == <<pc, timed, late, kept, closed, rc>>
vars == <<childVars, readerVars, queue, callerVars>>

End == 0
NoCode == 99
Killed == -9
LaunchError == -1

Init ==
  /\ child = "none" /\ exitCode = NoCode /\ helper = "none"
  /\ holders = [s \in Streams |-> {}] /\ killed = FALSE
  /\ left = [child |-> ChildLines, helper |-> HelperLines]
  /\ written = [s \in Streams |-> 0] /\ taken = [s \in Streams |-> 0]
  /\ reading = [s \in Streams |-> FALSE] /\ queue = <<>>
  /\ pc = "launch" /\ timed \in BOOLEAN /\ late = FALSE
  /\ kept = [s \in Streams |-> 0] /\ closed = {} /\ rc = NoCode

-----------------------------------------------------------------------------
(* The child and a process it may leave behind. *)
Runs(p) == \/ p = "child" /\ child = "running" /\ ~killed
           \/ p = "helper" /\ helper = "running"

Writes(p, s) ==
  /\ Runs(p) /\ p \in holders[s] /\ left[p] > 0
  /\ written[s] - taken[s] < PipeCapacity
  /\ left' = [left EXCEPT ![p] = @ - 1]
  /\ written' = [written EXCEPT ![s] = @ + 1]
  /\ UNCHANGED <<child, exitCode, helper, holders, killed>>
  /\ UNCHANGED <<readerVars, queue, callerVars>>

(* A helper inherits the streams the child still has. *)
ChildStartsHelper ==
  /\ Runs("child") /\ helper = "none" /\ helper' = "running"
  /\ holders' = [s \in Streams |->
       IF "child" \in holders[s] THEN {"child", "helper"} ELSE holders[s]]
  /\ UNCHANGED <<child, exitCode, killed, left, written>>
  /\ UNCHANGED <<readerVars, queue, callerVars>>

ClosesStream(p, s) ==
  /\ Runs(p) /\ p \in holders[s]
  /\ holders' = [holders EXCEPT ![s] = @ \ {p}]
  /\ UNCHANGED <<child, exitCode, helper, killed, left, written>>
  /\ UNCHANGED <<readerVars, queue, callerVars>>

Without(p) == [s \in Streams |-> holders[s] \ {p}]

ChildExits ==
  /\ child = "running" /\ child' = "exited"
  /\ exitCode' \in IF killed THEN {Killed} ELSE {0, 1}
  /\ holders' = Without("child")
  /\ UNCHANGED <<helper, killed, left, written, readerVars, queue, callerVars>>

HelperExits ==
  /\ helper = "running" /\ helper' = "gone"
  /\ holders' = Without("helper")
  /\ UNCHANGED <<child, exitCode, killed, left, written>>
  /\ UNCHANGED <<readerVars, queue, callerVars>>

-----------------------------------------------------------------------------

(* _read_pipe, one thread for each stream.                                   *)
ReadLine(s) ==
  /\ reading[s] /\ taken[s] < written[s] /\ <<s, taken[s] + 1>> \notin BadLines
  /\ taken' = [taken EXCEPT ![s] = @ + 1]
  /\ queue' = Append(queue, <<s, taken[s] + 1>>)
  /\ UNCHANGED <<childVars, reading, callerVars>>

(* Mutation: a reader that is behind when the child ends gives up. *)
ReaderStopsEarly(s) ==
  /\ reading[s] /\ holders[s] = {}
  /\ reading' = [reading EXCEPT ![s] = FALSE]
  /\ queue' = Append(queue, <<s, End>>)
  /\ UNCHANGED <<childVars, taken, callerVars>>

(* End of file, or a line that does not decode: finally puts the None. *)
ReaderEnds(s) ==
  /\ reading[s]
  /\ \/ taken[s] = written[s] /\ holders[s] = {}
     \/ taken[s] < written[s] /\ <<s, taken[s] + 1>> \in BadLines
  /\ reading' = [reading EXCEPT ![s] = FALSE]
  /\ queue' = Append(queue, <<s, End>>)
  /\ UNCHANGED <<childVars, taken, callerVars>>

-----------------------------------------------------------------------------
(* The calling thread. *)
Launch ==
  /\ pc = "launch" /\ pc' = "check"
  /\ child' = "running" /\ holders' = [s \in Streams |-> {"child"}]
  /\ reading' = [s \in Streams |-> TRUE]
  /\ UNCHANGED <<exitCode, helper, killed, left, written, taken, queue>>
  /\ UNCHANGED <<timed, late, kept, closed, rc>>

LaunchFails ==
  /\ pc = "launch" /\ pc' = "not_launched" /\ rc' = LaunchError
  /\ UNCHANGED <<childVars, readerVars, queue, timed, late, kept, closed>>

(* The deadline is looked at first in every round, and kill() comes before   *)
(* any look at the child: one that has exited already is not asked.          *)
CheckOnTime ==
  /\ pc = "check" /\ ~late /\ pc' = "get"
  /\ UNCHANGED <<childVars, readerVars, queue, timed, late, kept, closed, rc>>

DeadlinePassed ==
  /\ pc = "check" /\ late /\ pc' = "wait"
  /\ killed' = (killed \/ child = "running")
  /\ UNCHANGED <<child, exitCode, helper, holders, left, written, readerVars>>
  /\ UNCHANGED <<queue, timed, late, kept, closed, rc>>

(* process.wait() reaps; whatever is still queued is left there. *)
ReportTimeout ==
  /\ pc = "wait" /\ child \in {"exited", "reaped"} /\ pc' = "timed_out"
  /\ child' = "reaped" /\ rc' = Killed
  /\ UNCHANGED <<exitCode, helper, holders, killed, left, written, readerVars>>
  /\ UNCHANGED <<queue, timed, late, kept, closed>>

GetItem ==
  /\ pc = "get" /\ pc' = "poll"
  /\ queue # <<>> /\ queue' = Tail(queue)
  /\ LET s == Head(queue)[1] IN
       IF Head(queue)[2] = End
       THEN closed' = closed \union {s} /\ UNCHANGED kept
       ELSE kept' = [kept EXCEPT ![s] = @ + 1] /\ UNCHANGED closed
  /\ UNCHANGED <<childVars, readerVars, timed, late, rc>>

(* Mutation: any line that arrives makes a closed stream of it. *)
GetItemCloses ==
  /\ pc = "get" /\ pc' = "poll"
  /\ queue # <<>> /\ queue' = Tail(queue)
  /\ closed' = closed \union {Head(queue)[1]}
  /\ kept' = IF Head(queue)[2] = End THEN kept
             ELSE [kept EXCEPT ![Head(queue)[1]] = @ + 1]
  /\ UNCHANGED <<childVars, readerVars, timed, late, rc>>

GetTimesOut ==
  /\ pc = "get" /\ queue = <<>> /\ pc' = "poll"
  /\ UNCHANGED <<childVars, readerVars, queue, timed, late, kept, closed, rc>>

Polled == IF child = "exited" THEN "reaped" ELSE child

(* Mutation: the end of one stream is enough. *)
FinishedOnOneStream == child # "running" /\ closed # {}

(* Mutation: the streams are closed, so the command has ended. *)
FinishedOnClose == closed = Streams

Finished == child # "running" /\ closed = Streams

PollContinues ==
  /\ pc = "poll" /\ ~Finished /\ pc' = "check"
  /\ child' = Polled
  /\ UNCHANGED <<exitCode, helper, holders, killed, left, written, readerVars>>
  /\ UNCHANGED <<queue, timed, late, kept, closed, rc>>

(* int(process.returncode or 0) *)
PollFinishes ==
  /\ pc = "poll" /\ Finished /\ pc' = "returned"
  /\ child' = Polled
  /\ rc' = IF exitCode = NoCode THEN 0 ELSE exitCode
  /\ UNCHANGED <<exitCode, helper, holders, killed, left, written, readerVars>>
  /\ UNCHANGED <<queue, timed, late, kept, closed>>

InCall == {"launch", "check", "get", "poll", "wait"}

(* No handler: an exception of the caller leaves the child as it is. *)
Interrupted ==
  /\ pc \in InCall \ {"launch"} /\ pc' = "raised"
  /\ UNCHANGED <<childVars, readerVars, queue, timed, late, kept, closed, rc>>

DeadlinePasses ==
  /\ timed /\ ~late /\ pc \in InCall /\ late' = TRUE
  /\ UNCHANGED <<childVars, readerVars, queue, pc, timed, kept, closed, rc>>

-----------------------------------------------------------------------------
ChildStep ==
  \/ \E p \in {"child", "helper"}, s \in Streams :
       Writes(p, s) \/ ClosesStream(p, s)
  \/ ChildStartsHelper \/ ChildExits \/ HelperExits

ReaderStep(s) == ReadLine(s) \/ ReaderEnds(s)

CallerStep ==
  \/ Launch \/ LaunchFails \/ CheckOnTime \/ DeadlinePassed \/ ReportTimeout
  \/ GetItem \/ GetTimesOut \/ PollContinues \/ PollFinishes

Next == \/ ChildStep \/ \E s \in Streams : ReaderStep(s)
        \/ CallerStep \/ Interrupted \/ DeadlinePasses

Spec == Init /\ [][Next]_vars

(* The caller's thread runs, a deadline that was given passes, and SIGKILL  *)
(* works in the end.  Nothing is assumed of the child or its helper.        *)
FairSpec == /\ Spec
            /\ WF_vars(CallerStep) /\ WF_vars(DeadlinePasses)
            /\ WF_vars(killed /\ ChildExits)
-----------------------------------------------------------------------------
(* Type invariant; what is kept was read, and what is read was written. *)
ChildTypes ==
  /\ child \in {"none", "running", "exited", "reaped"}
  /\ exitCode \in {NoCode, Killed, 0, 1}
  /\ exitCode = NoCode <=> child \in {"none", "running"}
  /\ helper \in {"none", "running", "gone"}
  /\ holders \in [Streams -> SUBSET {"child", "helper"}]
  /\ killed \in BOOLEAN
  /\ left \in [{"child", "helper"} -> Nat]

OutputTypes ==
  /\ written \in [Streams -> Nat] /\ taken \in [Streams -> Nat]
  /\ kept \in [Streams -> Nat]
  /\ \A s \in Streams : kept[s] <= taken[s] /\ taken[s] <= written[s]
  /\ reading \in [Streams -> BOOLEAN]
  /\ queue \in Seq(Streams \X Nat)

CallerTypes ==
  /\ pc \in InCall \union {"returned", "timed_out", "not_launched", "raised"}
  /\ timed \in BOOLEAN /\ late \in BOOLEAN /\ late => timed
  /\ closed \subseteq Streams
  /\ rc \in {NoCode, LaunchError, Killed, 0, 1}

TypeOK == ChildTypes /\ OutputTypes /\ CallerTypes

(* A reported return code is the command's own, and never that of a command *)
(* that still runs: only a passed deadline replaces it by -9, and only      *)
(* after the child was reaped (process.wait and the two poll calls).        *)
CodeIsReal ==
  /\ pc = "returned" => child = "reaped" /\ rc = exitCode
  /\ pc = "timed_out" => child = "reaped" /\ rc = Killed /\ late

Undecodable == \E b \in BadLines : b[2] <= written[b[1]]

(* A command that is reported with a return code of its own has left        *)
(* nothing behind in the pipes, on either stream, its helpers' output       *)
(* included, unless a line did not decode: the loop's condition that both   *)
(* None marks have come and the child has ended.                            *)
OutputComplete == pc = "returned" /\ ~Undecodable => kept = written

(* The docstring (official_runtime_progress.py:130) says that stdout and    *)
(* stderr are kept completely for the caller to save.                       *)
OutputSaved == pc \in {"returned", "timed_out"} => kept = written

(* With a timeout_seconds the call ends, whatever child and helpers do: the *)
(* deadline is looked at in every round, and get() waits 0.2 seconds only.  *)
DeadlineEndsTheCall == timed ~> pc \notin InCall

(* Mapped to what every command runner promises. *)
Outcome ==
  IF pc \in InCall THEN "none"
  ELSE IF pc = "returned" /\ ~Undecodable THEN "returned" ELSE "gave_up"

Runner == INSTANCE CommandRunner WITH
  produced <- written, delivered <- kept,
  open <- {s \in Streams : child = "none" \/ holders[s] # {}},
  alive <- child \in {"none", "running"}, outcome <- Outcome

(* A normal return of run_official_subprocess_with_heartbeat is one that    *)
(* CommandRunner allows: the command has ended, nobody can write any more,  *)
(* and every line of both streams was handed over.                          *)
ImplementsRunner == Runner!RunnerSpec
=============================================================================
