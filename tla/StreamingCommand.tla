--------------------------- MODULE StreamingCommand ---------------------------
(***************************************************************************)
(* run_streaming_command (workflows/streaming_command.py): how a notebook  *)
(* cell runs a server script, forwards its output and cleans up after it.  *)
(*                                                                         *)
(* Four parties run concurrently: the command (the leader of a process     *)
(* group of its own), a helper process it may leave behind in the group,   *)
(* the reader thread that moves lines from the pipe to a queue, and the    *)
(* main thread that prints them, polls the leader and decides when to      *)
(* stop.  A KeyboardInterrupt may reach the main thread once it is in its   *)
(* try statement, and in the clean-up after it.                            *)
(*                                                                         *)
(* Lines are numbered in the order in which they enter the pipe.  Time is  *)
(* left out: a timeout or a grace period that is running may expire.       *)
(***************************************************************************)
EXTENDS Naturals, Sequences

CONSTANTS
  LeaderLines,    \* lines the command writes before it ends by itself
  HelperLines,    \* bound on the lines of the helper
  PipeCapacity,   \* lines the pipe holds before a writer blocks
  BadLines,       \* lines that are not valid text
  MaxInterrupts   \* bound on the interrupts

ASSUME LinesAssumption ==
  /\ LeaderLines \in Nat /\ HelperLines \in Nat /\ PipeCapacity \in Nat \ {0}
  /\ BadLines \subseteq 1 .. LeaderLines + HelperLines
  /\ MaxInterrupts \in Nat

VARIABLES
  (* the process group *)
  leader,      \* "running", "exited" (a zombie) or "reaped"
  helper,      \* "none", "running" or "gone"
  holders,     \* the processes that hold the write end of the pipe
  killed,      \* the processes that were sent SIGKILL
  leaderLeft,  \* lines the leader has still to write
  written,     \* lines written to the pipe so far
  (* the reader thread *)
  taken,       \* lines it has read
  reading,     \* has it not ended yet
  queue,       \* output_queue
  (* the main thread *)
  pc, printed, stdoutClosed, exitSeen, graceOver,
  stopping,    \* why it terminates the group: "no", "drain" or "interrupt"
  result,      \* "none", "returned" or "raised"
  interrupts,
  cleanupCut   \* was the clean-up of an interrupt interrupted itself

groupVars == <<leader, helper, holders, killed, leaderLeft, written>>
readerVars == <<taken, reading>>
loopVars == <<printed, stdoutClosed, exitSeen, graceOver>>
endVars == <<stopping, result, interrupts, cleanupCut>>
vars == <<groupVars, readerVars, queue, pc, loopVars, endVars>>

Lines == 1 .. LeaderLines + HelperLines
End == 0                      \* the None the reader puts last

Init ==
  /\ leader = "running" /\ helper = "none" /\ holders = {"leader"}
  /\ killed = {} /\ leaderLeft = LeaderLines /\ written = 0
  /\ taken = 0 /\ reading = TRUE /\ queue = <<>>
  /\ pc = "get" /\ printed = 0 /\ stdoutClosed = FALSE
  /\ exitSeen = FALSE /\ graceOver = FALSE
  /\ stopping = "no" /\ result = "none"
  /\ interrupts = 0 /\ cleanupCut = FALSE

mainVars == <<pc, loopVars, endVars>>

-----------------------------------------------------------------------------
(* The command and its helper. *)
Members == {p \in {"leader", "helper"} :
              \/ p = "leader" /\ leader = "running"
              \/ p = "helper" /\ helper = "running"}

(* A process that was sent SIGKILL does nothing more, it only dies. *)
Runs(p) == p \in Members \ killed

PipeHasRoom == written - taken < PipeCapacity

LeaderWrites ==
  /\ Runs("leader") /\ "leader" \in holders
  /\ leaderLeft > 0 /\ PipeHasRoom
  /\ leaderLeft' = leaderLeft - 1 /\ written' = written + 1
  /\ UNCHANGED <<leader, helper, holders, killed, readerVars, queue, mainVars>>

HelperWrites ==
  /\ Runs("helper") /\ "helper" \in holders /\ PipeHasRoom
  /\ written - (LeaderLines - leaderLeft) < HelperLines
  /\ written' = written + 1
  /\ UNCHANGED <<leader, helper, holders, killed, leaderLeft>>
  /\ UNCHANGED <<readerVars, queue, mainVars>>

LeaderStartsHelper ==
  /\ Runs("leader") /\ helper = "none" /\ helper' = "running"
  /\ holders' = holders \union (IF "leader" \in holders THEN {"helper"} ELSE {})
  /\ UNCHANGED <<leader, killed, leaderLeft, written>>
  /\ UNCHANGED <<readerVars, queue, mainVars>>

(* A process redirects its output elsewhere and goes on. *)
ClosesStdout(p) ==
  /\ Runs(p) /\ p \in holders /\ holders' = holders \ {p}
  /\ leaderLeft' = IF p = "leader" THEN 0 ELSE leaderLeft
  /\ UNCHANGED <<leader, helper, killed, written, readerVars, queue, mainVars>>

LeaderExits ==
  /\ leader = "running" /\ leader' = "exited"
  /\ holders' = holders \ {"leader"}
  /\ UNCHANGED <<helper, killed, leaderLeft, written>>
  /\ UNCHANGED <<readerVars, queue, mainVars>>

HelperExits ==
  /\ helper = "running" /\ helper' = "gone"
  /\ holders' = holders \ {"helper"}
  /\ UNCHANGED <<leader, killed, leaderLeft, written>>
  /\ UNCHANGED <<readerVars, queue, mainVars>>

-----------------------------------------------------------------------------
(* The reader thread. *)
ReadLine ==
  /\ reading /\ taken < written /\ taken + 1 \notin BadLines
  /\ taken' = taken + 1 /\ queue' = Append(queue, taken + 1)
  /\ UNCHANGED <<groupVars, reading, mainVars>>

(* End of file, or a line that does not decode: finally puts the None. *)
ReaderEnds ==
  /\ reading
  /\ \/ taken = written /\ holders = {}
     \/ taken < written /\ taken + 1 \in BadLines
  /\ reading' = FALSE /\ queue' = Append(queue, End)
  /\ UNCHANGED <<groupVars, taken, mainVars>>

-----------------------------------------------------------------------------
(* The main thread: one round of the loop is a get and a poll. *)
ItemArrives ==
  pc = "get" /\ pc' = "poll" /\ queue # <<>> /\ queue' = Tail(queue)

(* Mutation: the None at the end is printed as a line too. *)
GetItemPrintsNone ==
  /\ ItemArrives
  /\ printed' = printed + 1
  /\ stdoutClosed' = (Head(queue) = End)
  /\ UNCHANGED <<groupVars, readerVars, exitSeen, graceOver, endVars>>

GetItem ==
  /\ ItemArrives
  /\ IF Head(queue) = End
     THEN stdoutClosed' = TRUE /\ UNCHANGED printed
     ELSE printed' = printed + 1 /\ UNCHANGED stdoutClosed
  /\ UNCHANGED <<groupVars, readerVars, exitSeen, graceOver, endVars>>

GetTimesOut ==
  /\ pc = "get" /\ queue = <<>> /\ pc' = "poll"
  /\ UNCHANGED <<groupVars, readerVars, queue, loopVars, endVars>>

Exited == leader # "running"

(* Mutation: whoever holds the pipe is waited for. *)
DrainedNever == FALSE

Drained == Exited /\ graceOver

(* Mutation: the end of the output is not waited for. *)
FinishedOnExit == Exited

(* Mutation: the end of the output is taken for the end of the command. *)
FinishedOnClose == stdoutClosed

Finished == Exited /\ stdoutClosed

(* poll() reaps a leader that has exited. *)
PollReaps ==
  /\ leader' = IF Exited THEN "reaped" ELSE leader
  /\ exitSeen' = Exited
  /\ UNCHANGED <<helper, holders, killed, leaderLeft, written>>
  /\ UNCHANGED <<readerVars, queue, printed, stdoutClosed, graceOver>>
  /\ UNCHANGED <<result, interrupts, cleanupCut>>

PollContinues ==
  /\ pc = "poll" /\ ~Finished /\ ~Drained /\ pc' = "get"
  /\ PollReaps /\ UNCHANGED stopping

PollFinds ==
  /\ pc = "poll" /\ Finished /\ pc' = "join"
  /\ PollReaps /\ UNCHANGED stopping

PollDrains ==
  /\ pc = "poll" /\ ~Finished /\ Drained /\ pc' = "term"
  /\ PollReaps /\ stopping' = "drain"

(* The drain grace runs from the poll that saw the leader gone. *)
DrainGraceExpires ==
  /\ exitSeen /\ ~graceOver /\ graceOver' = TRUE
  /\ pc \in {"get", "poll"}
  /\ UNCHANGED <<groupVars, readerVars, queue, pc, endVars>>
  /\ UNCHANGED <<printed, stdoutClosed, exitSeen>>

-----------------------------------------------------------------------------
(* _terminate_streaming_process on POSIX. *)
(* A zombie is still a member for killpg. *)
GroupIsGone == leader = "reaped" /\ helper # "running"

restOfMain == <<loopVars, endVars>>

(* SIGTERM may be handled: what it does is that a process may exit. *)
SendTerm ==
  /\ pc = "term" /\ pc' = "watch"
  /\ UNCHANGED <<groupVars, readerVars, queue, restOfMain>>

GroupVanishes ==
  /\ pc = "watch" /\ GroupIsGone /\ pc' = "wait"
  /\ UNCHANGED <<groupVars, readerVars, queue, restOfMain>>

(* Mutation: only the command itself is killed. *)
LeaderOnly == Members \ {"helper"}

KillTargets == Members

KillGroup ==
  /\ pc = "watch" /\ pc' = "wait"
  /\ killed' = killed \union KillTargets
  /\ UNCHANGED <<leader, helper, holders, leaderLeft, written>>
  /\ UNCHANGED <<readerVars, queue, restOfMain>>

(* wait(timeout), or the wait() without one after a second kill. *)
Reap ==
  /\ pc \in {"wait", "wait_forever"} /\ leader # "running" /\ pc' = "join"
  /\ leader' = "reaped"
  /\ UNCHANGED <<helper, holders, killed, leaderLeft, written>>
  /\ UNCHANGED <<readerVars, queue, restOfMain>>

WaitTimesOut ==
  /\ pc = "wait" /\ leader = "running" /\ pc' = "wait_forever"
  /\ killed' = killed \union {"leader"}
  /\ UNCHANGED <<leader, helper, holders, leaderLeft, written>>
  /\ UNCHANGED <<readerVars, queue, restOfMain>>

(* A process that was sent SIGKILL dies when the kernel lets it. *)
Dies ==
  \/ "leader" \in killed /\ LeaderExits
  \/ "helper" \in killed /\ HelperExits

(* reader.join gives up after a second whether the reader has ended or not. *)
Join ==
  /\ pc = "join" /\ pc' = "end"
  /\ result' = IF stopping = "interrupt" THEN "raised" ELSE "returned"
  /\ UNCHANGED <<groupVars, readerVars, queue, loopVars>>
  /\ UNCHANGED <<stopping, interrupts, cleanupCut>>

InTry == {"get", "poll"}
InTerminate == {"term", "watch", "wait", "wait_forever"}

(* Inside the try, the drain's own terminate included, an interrupt makes  *)
(* the group be terminated from the beginning; inside that clean-up it is  *)
(* noted and dropped; while joining it simply propagates.                  *)
Interrupt ==
  /\ interrupts < MaxInterrupts /\ interrupts' = interrupts + 1
  /\ \/ /\ pc \in InTry \/ (pc \in InTerminate /\ stopping = "drain")
        /\ pc' = "term" /\ stopping' = "interrupt"
        /\ UNCHANGED <<result, cleanupCut>>
     \/ /\ pc \in InTerminate /\ stopping = "interrupt"
        /\ pc' = "join" /\ cleanupCut' = TRUE
        /\ UNCHANGED <<stopping, result>>
     \/ /\ pc = "join" /\ pc' = "end" /\ result' = "raised"
        /\ UNCHANGED <<stopping, cleanupCut>>
  /\ UNCHANGED <<groupVars, readerVars, queue, loopVars>>

-----------------------------------------------------------------------------
MainStep == \/ GetItem \/ GetTimesOut
            \/ PollContinues \/ PollFinds \/ PollDrains
            \/ SendTerm \/ GroupVanishes \/ KillGroup
            \/ Reap \/ WaitTimesOut \/ Join

ReaderStep == ReadLine \/ ReaderEnds

GroupStep == \/ LeaderWrites \/ HelperWrites \/ LeaderStartsHelper
             \/ \E p \in {"leader", "helper"} : ClosesStdout(p)
             \/ LeaderExits \/ HelperExits

Next == MainStep \/ ReaderStep \/ GroupStep \/ DrainGraceExpires \/ Interrupt

Spec == Init /\ [][Next]_vars

(* Threads run and grace periods pass; SIGKILL works in the end; the       *)
(* command does its work and ends as long as its output is taken.  Nothing *)
(* is assumed of the helper, nor of an interrupt.                          *)
FairSpec ==
  /\ Spec
  /\ WF_vars(MainStep) /\ WF_vars(ReaderStep) /\ WF_vars(DrainGraceExpires)
  /\ WF_vars(Dies) /\ WF_vars(LeaderWrites)
  /\ WF_vars(leaderLeft = 0 /\ LeaderExits)
-----------------------------------------------------------------------------
(* Type invariant; what was printed was read, and what was read written.    *)
GroupTypes ==
  /\ leader \in {"running", "exited", "reaped"}
  /\ helper \in {"none", "running", "gone"}
  /\ holders \subseteq Members /\ killed \subseteq {"leader", "helper"}
  /\ leaderLeft \in 0 .. LeaderLines
  /\ written \in 0 .. LeaderLines + HelperLines

OutputTypes ==
  /\ taken \in 0 .. written /\ printed \in 0 .. taken
  /\ queue \in Seq(Lines \union {End})

MainTypes ==
  /\ pc \in InTry \union InTerminate \union {"join", "end"}
  /\ stopping \in {"no", "drain", "interrupt"}
  /\ result \in {"none", "returned", "raised"}
  /\ interrupts \in 0 .. MaxInterrupts

FlagTypes ==
  /\ reading \in BOOLEAN /\ stdoutClosed \in BOOLEAN
  /\ exitSeen \in BOOLEAN /\ graceOver \in BOOLEAN /\ cleanupCut \in BOOLEAN

TypeOK == GroupTypes /\ OutputTypes /\ MainTypes /\ FlagTypes

(* A command that is reported to have ended has ended: the return code is   *)
(* the leader's own, never the 0 that int(None or 0) makes of a process     *)
(* that only closed its output.                                             *)
ReturnCodeIsReal == result = "returned" => leader = "reaped"

(* Unless the drain grace cut it short, a command that returned has had     *)
(* every line of its group printed, those of a helper that outlived it too  *)
(* (docstring of run_streaming_command; colab_notebooks/README.md:1119).    *)
EveryLineForwarded ==
  result = "returned" /\ stopping = "no" => printed = written

(* Once a termination was started, because the drain grace was over or an   *)
(* interrupt came inside the try statement, nothing of the group is left to *)
(* hold the GPU: every member has exited or was sent SIGKILL, unless the    *)
(* clean-up itself was interrupted.  An interrupt between Popen and the try *)
(* (streaming_command.py:170-200) starts none: it is not modelled, and      *)
(* nothing is said of it here.                                              *)
NoSurvivors ==
  result # "none" /\ stopping # "no" /\ ~cleanupCut => Members \subseteq killed

(* Mapped to what every command runner promises: a normal return is one      *)
(* that CommandRunner allows, provided every line decodes.                   *)
Runner == INSTANCE CommandRunner WITH
  Streams <- {"stdout"}, produced <- [s \in {"stdout"} |-> written],
  delivered <- [s \in {"stdout"} |-> printed],
  open <- IF holders = {} THEN {} ELSE {"stdout"},
  alive <- leader = "running",
  outcome <- IF result = "none" THEN "none"
             ELSE IF result = "returned" /\ stopping = "no" THEN "returned"
             ELSE "gave_up"

ImplementsRunner == Runner!RunnerSpec

(* The cell ends once the command has done its work, whatever a helper that *)
(* inherited the output does and however the threads are scheduled.         *)
CommandFinishes == <>(result # "none")
=============================================================================
