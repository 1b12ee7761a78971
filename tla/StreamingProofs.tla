-------------------------- MODULE StreamingProofs --------------------------
(***************************************************************************)
(* Safety of run_streaming_command for any amount of output, any pipe and  *)
(* any number of interrupts.                                               *)
(***************************************************************************)
EXTENDS StreamingCommand, TLAPS

(* The helper keeps to its share, whatever the leader gives up. *)
HelperShare == written - (LeaderLines - leaderLeft) <= HelperLines

(* The queue holds the lines that were read and not printed, and after them *)
(* the end mark, once the reader has ended and until it is taken out.       *)
EndQueued == ~reading /\ ~stdoutClosed

QueueOrder ==
  /\ Len(queue) = taken - printed + (IF EndQueued THEN 1 ELSE 0)
  /\ \A i \in 1 .. Len(queue) : queue[i] = End <=> EndQueued /\ i = Len(queue)
  /\ stdoutClosed => ~reading /\ queue = <<>>

(* If every line decodes, the reader ends only when nobody can write. *)
OutputEnded == BadLines = {} /\ ~reading => taken = written /\ holders = {}

(* Why and how far the main thread has stopped the group. *)
Stage ==
  /\ pc \in InTry => stopping = "no"
  /\ pc \in InTerminate => stopping # "no"
  /\ result = "none" <=> pc # "end"
  /\ pc \in {"join", "end"} /\ stopping = "no" => stdoutClosed
  /\ pc = "join" /\ stopping # "interrupt" => leader = "reaped"
  /\ ReturnCodeIsReal

AllKilled == Members \subseteq killed

Killed ==
  /\ pc \in {"wait", "wait_forever"} => AllKilled
  /\ pc \in {"join", "end"} /\ stopping # "no" /\ ~cleanupCut => AllKilled

IInv == TypeOK /\ HelperShare /\ QueueOrder /\ OutputEnded /\ Stage /\ Killed

USE LinesAssumption
    DEF groupVars, readerVars, loopVars, endVars, restOfMain, mainVars, vars,
        Lines, End, Members, InTry, InTerminate,
        GroupTypes, OutputTypes, MainTypes, FlagTypes

(* The invariant holds when the command has been started. *)
LEMMA InitIInv == Init => IInv
<1> SUFFICES ASSUME Init PROVE IInv
  OBVIOUS
<1> USE DEF Init
<1>1. TypeOK
  <2>1. GroupTypes OBVIOUS
  <2>2. OutputTypes OBVIOUS
  <2>3. MainTypes OBVIOUS
  <2>4. FlagTypes BY Zenon
  <2>5. QED BY <2>1, <2>2, <2>3, <2>4 DEF TypeOK
<1>2. HelperShare /\ QueueOrder /\ OutputEnded
  BY DEF HelperShare, QueueOrder, EndQueued, OutputEnded
<1>3. Stage /\ Killed BY DEF Stage, ReturnCodeIsReal, Killed, AllKilled
<1>4. QED BY <1>1, <1>2, <1>3 DEF IInv

(* What the processes of the group do keeps the invariant. *)
LEMMA GroupSteps ==
  ASSUME IInv, GroupStep
  PROVE  IInv'
<1> USE DEF IInv, Runs, PipeHasRoom
<1>0. UNCHANGED <<readerVars, queue, mainVars>>
  BY DEF GroupStep, LeaderWrites, HelperWrites, LeaderStartsHelper,
         ClosesStdout, LeaderExits, HelperExits
<1>1. TypeOK' /\ HelperShare'
  <2> USE <1>0 DEF TypeOK, HelperShare
  <2>1. CASE LeaderWrites BY <2>1 DEF LeaderWrites
  <2>2. CASE HelperWrites BY <2>2 DEF HelperWrites
  <2>3. CASE LeaderStartsHelper BY <2>3 DEF LeaderStartsHelper
  <2>4. ASSUME NEW p \in {"leader", "helper"}, ClosesStdout(p)
        PROVE  TypeOK' /\ HelperShare'
    BY <2>4 DEF ClosesStdout
  <2>5. CASE LeaderExits BY <2>5 DEF LeaderExits
  <2>6. CASE HelperExits BY <2>6 DEF HelperExits
  <2>7. QED BY <2>1, <2>2, <2>3, <2>4, <2>5, <2>6 DEF GroupStep
<1>2. QueueOrder'
  BY <1>0 DEF QueueOrder, EndQueued
<1>3. OutputEnded'
  BY <1>0 DEF OutputEnded, TypeOK, GroupStep, LeaderWrites, HelperWrites,
         LeaderStartsHelper, ClosesStdout, LeaderExits, HelperExits
<1>4. leader = "reaped" => leader' = "reaped"
  BY DEF TypeOK, GroupStep, LeaderWrites, HelperWrites, LeaderStartsHelper,
         ClosesStdout, LeaderExits, HelperExits
<1>5. AllKilled => AllKilled'
  BY DEF AllKilled, TypeOK, GroupStep, LeaderWrites, HelperWrites,
         LeaderStartsHelper, ClosesStdout, LeaderExits, HelperExits
<1>6. (Stage /\ Killed)'
  BY <1>0, <1>4, <1>5 DEF Stage, ReturnCodeIsReal, Killed
<1>7. QED BY <1>1, <1>2, <1>3, <1>6

(* Reading a line and ending the output keep the invariant. *)
LEMMA ReaderSteps ==
  ASSUME IInv, ReaderStep
  PROVE  IInv'
<1> USE DEF IInv
<1>0. UNCHANGED <<groupVars, mainVars>>
  BY DEF ReaderStep, ReadLine, ReaderEnds
<1>1. TypeOK'
  <2>1. (GroupTypes /\ MainTypes)'
    BY <1>0 DEF TypeOK
  <2>2. OutputTypes'
    <3>1. CASE ReadLine
      <4>1. taken + 1 \in Lines /\ taken' \in 0 .. written' /\ printed' \in 0 .. taken'
        BY <1>0, <3>1 DEF ReadLine, TypeOK
      <4>2. QED BY <1>0, <3>1, <4>1 DEF ReadLine, TypeOK
    <3>2. CASE ReaderEnds
      BY <1>0, <3>2 DEF ReaderEnds, TypeOK
    <3>3. QED BY <3>1, <3>2 DEF ReaderStep
  <2>3. FlagTypes'
    BY <1>0, Zenon DEF TypeOK, ReaderStep, ReadLine, ReaderEnds
  <2>4. QED BY <2>1, <2>2, <2>3 DEF TypeOK
<1>2. QueueOrder'
  <2>1. CASE ReadLine
    BY <2>1 DEF ReadLine, QueueOrder, EndQueued, TypeOK
  <2>2. CASE ReaderEnds
    BY <2>2 DEF ReaderEnds, QueueOrder, EndQueued, TypeOK
  <2>3. QED BY <2>1, <2>2 DEF ReaderStep
<1>3. OutputEnded'
  BY <1>0 DEF OutputEnded, ReaderStep, ReadLine, ReaderEnds
<1>4. (HelperShare /\ Killed)'
  BY <1>0 DEF HelperShare, Killed, AllKilled
<1>5. Stage'
  BY <1>0 DEF Stage, ReturnCodeIsReal
<1>6. QED BY <1>1, <1>2, <1>3, <1>4, <1>5

(* Taking an item out of the queue keeps the invariant. *)
LEMMA GetItemKeeps ==
  ASSUME IInv, GetItem
  PROVE  IInv'
<1> USE DEF IInv, GetItem, ItemArrives
<1>1. queue \in Seq(Lines \union {End}) /\ Len(queue) \in Nat \ {0}
  BY DEF TypeOK
<1>2. Head(queue) = queue[1] /\ Len(Tail(queue)) = Len(queue) - 1
  BY <1>1
<1>3. \A i \in 1 .. Len(Tail(queue)) : Tail(queue)[i] = queue[i + 1]
  BY <1>1
<1>4. Tail(queue) \in Seq(Lines \union {End})
  BY <1>1
<1>5. Head(queue) = End <=> EndQueued /\ Len(queue) = 1
  BY <1>1, <1>2 DEF QueueOrder
<1>6. ~stdoutClosed
  BY <1>1 DEF QueueOrder
<1>7. printed' \in 0 .. taken
  <2>1. printed \in 0 .. taken /\ taken \in Nat
    BY <1>6 DEF TypeOK
  <2>2. CASE Head(queue) = End BY <2>1, <2>2
  <2>3. CASE Head(queue) # End
    <3>1. printed < taken
      BY <1>1, <1>5, <2>1, <2>3 DEF QueueOrder
    <3>2. QED BY <2>1, <2>3, <3>1
  <2>4. QED BY <2>2, <2>3
<1>8. TypeOK'
  <2>1. FlagTypes' BY Zenon DEF TypeOK
  <2>2. (GroupTypes /\ OutputTypes /\ MainTypes)' BY <1>4, <1>7 DEF TypeOK
  <2>3. QED BY <2>1, <2>2 DEF TypeOK
<1>9. QueueOrder'
  <2>1. CASE Head(queue) = End
    <3>1. Tail(queue) = <<>>
      BY <1>1, <1>2, <1>5, <2>1
    <3>2. QED BY <1>1, <1>5, <2>1, <3>1 DEF QueueOrder, EndQueued, TypeOK
  <2>2. CASE Head(queue) # End
    <3>1. UNCHANGED <<stdoutClosed, reading, taken>> /\ printed' = printed + 1
      BY <2>2
    <3>2. Len(queue') = taken' - printed' + (IF EndQueued' THEN 1 ELSE 0)
      BY <1>1, <1>2, <3>1 DEF QueueOrder, EndQueued, TypeOK
    <3>3. \A i \in 1 .. Len(queue') :
            queue'[i] = End <=> EndQueued' /\ i = Len(queue')
      BY <1>1, <1>2, <1>3, <3>1 DEF QueueOrder, EndQueued
    <3>4. QED BY <1>6, <3>1, <3>2, <3>3 DEF QueueOrder
  <2>3. QED BY <2>1, <2>2
<1>10. (HelperShare /\ OutputEnded)'
  BY DEF HelperShare, OutputEnded
<1>11. (Stage /\ Killed)'
  BY DEF Stage, ReturnCodeIsReal, Killed, AllKilled
<1>12. QED BY <1>8, <1>9, <1>10, <1>11

(* The other steps of the loop keep the invariant. *)
LEMMA LoopSteps ==
  ASSUME IInv,
         GetTimesOut \/ PollContinues \/ PollFinds \/ PollDrains
         \/ DrainGraceExpires
  PROVE  IInv'
<1> USE DEF IInv, Exited, Drained, Finished
<1>0. /\ UNCHANGED <<helper, holders, killed, leaderLeft, written, readerVars,
                     queue, printed, stdoutClosed, result, interrupts, cleanupCut>>
      /\ leader' = leader \/ (leader # "running" /\ leader' = "reaped")
  BY DEF GetTimesOut, PollContinues, PollFinds, PollDrains, PollReaps,
         DrainGraceExpires
<1>1. TypeOK'
  <2>1. (GroupTypes /\ OutputTypes /\ MainTypes)'
    BY <1>0 DEF TypeOK, GetTimesOut, PollContinues, PollFinds, PollDrains,
           PollReaps, DrainGraceExpires
  <2>2. FlagTypes'
    BY Zenon DEF TypeOK, GetTimesOut, PollContinues, PollFinds, PollDrains,
           PollReaps, DrainGraceExpires
  <2>3. QED BY <2>1, <2>2 DEF TypeOK
<1>2. (HelperShare /\ QueueOrder /\ OutputEnded)'
  BY <1>0 DEF HelperShare, QueueOrder, EndQueued, OutputEnded
<1>3. Stage'
  BY <1>0 DEF Stage, ReturnCodeIsReal, TypeOK, GetTimesOut, PollContinues,
         PollFinds, PollDrains, PollReaps, DrainGraceExpires
<1>4. Killed'
  BY <1>0 DEF Killed, Stage, TypeOK, GetTimesOut, PollContinues, PollFinds,
         PollDrains, PollReaps, DrainGraceExpires
<1>5. QED BY <1>1, <1>2, <1>3, <1>4

(* Terminating the group and joining the reader keep the invariant. *)
LEMMA TerminateSteps ==
  ASSUME IInv,
         SendTerm \/ GroupVanishes \/ KillGroup \/ Reap \/ WaitTimesOut \/ Join
  PROVE  IInv'
<1> USE DEF IInv, GroupIsGone, KillTargets
<1>0. /\ UNCHANGED <<helper, holders, leaderLeft, written, readerVars, queue,
                     loopVars, stopping, interrupts, cleanupCut>>
      /\ leader' = leader \/ (leader # "running" /\ leader' = "reaped")
  BY DEF SendTerm, GroupVanishes, KillGroup, Reap, WaitTimesOut, Join
<1>1. TypeOK'
  <2>1. GroupTypes'
    BY <1>0 DEF TypeOK, SendTerm, GroupVanishes, KillGroup, Reap, WaitTimesOut,
           Join
  <2>2. (OutputTypes /\ MainTypes)'
    BY <1>0 DEF TypeOK, SendTerm, GroupVanishes, KillGroup, Reap, WaitTimesOut,
           Join
  <2>3. FlagTypes' BY <1>0 DEF TypeOK
  <2>4. QED BY <2>1, <2>2, <2>3 DEF TypeOK
<1>2. (HelperShare /\ QueueOrder /\ OutputEnded)'
  BY <1>0 DEF HelperShare, QueueOrder, EndQueued, OutputEnded
<1>3. Stage'
  BY <1>0 DEF Stage, ReturnCodeIsReal, TypeOK, SendTerm, GroupVanishes,
         KillGroup, Reap, WaitTimesOut, Join
<1>4. Killed'
  BY <1>0 DEF Killed, AllKilled, TypeOK, SendTerm, GroupVanishes, KillGroup,
         Reap, WaitTimesOut, Join
<1>5. QED BY <1>1, <1>2, <1>3, <1>4

(* An interrupt, wherever it arrives, keeps the invariant. *)
LEMMA InterruptKeeps ==
  ASSUME IInv, Interrupt
  PROVE  IInv'
<1> USE DEF IInv, Interrupt
<1>1. TypeOK'
  <2>1. (GroupTypes /\ OutputTypes /\ MainTypes)' BY DEF TypeOK
  <2>2. FlagTypes' BY Zenon DEF TypeOK
  <2>3. QED BY <2>1, <2>2 DEF TypeOK
<1>2. (HelperShare /\ QueueOrder /\ OutputEnded)'
  BY DEF HelperShare, QueueOrder, EndQueued, OutputEnded
<1>3. Stage' BY DEF Stage, ReturnCodeIsReal, TypeOK
<1>4. Killed' BY DEF Killed, AllKilled, TypeOK
<1>5. QED BY <1>1, <1>2, <1>3, <1>4

(* Every step of every party keeps the invariant. *)
LEMMA NextIInv == IInv /\ [Next]_vars => IInv'
<1> SUFFICES ASSUME IInv, [Next]_vars PROVE IInv'
  OBVIOUS
<1>1. CASE UNCHANGED vars
  BY <1>1 DEF IInv, TypeOK, HelperShare, QueueOrder, EndQueued, OutputEnded,
         Stage, ReturnCodeIsReal, Killed, AllKilled
<1>2. CASE Next
  BY <1>2, GroupSteps, ReaderSteps, GetItemKeeps, LoopSteps, TerminateSteps,
     InterruptKeeps DEF Next, MainStep
<1>3. QED BY <1>1, <1>2

(* The inductive invariant the theorems below rest on holds throughout. *)
THEOREM StreamingInvariant == Spec => []IInv
BY InitIInv, NextIInv, PTL DEF Spec

(* Every variable has its type; no more is printed than was read, nor read  *)
(* than was written.                                                        *)
THEOREM StreamingTypeCorrect == Spec => []TypeOK
<1>1. IInv => TypeOK BY DEF IInv
<1>2. QED BY <1>1, StreamingInvariant, PTL

(* run_streaming_command returns only with the return code of a command     *)
(* that has ended, whatever its helpers do and whenever it is interrupted.  *)
THEOREM ReturnCodesAreReal == Spec => []ReturnCodeIsReal
<1>1. IInv => ReturnCodeIsReal BY DEF IInv, Stage
<1>2. QED BY <1>1, StreamingInvariant, PTL

(* If every line decodes, a command that returns without a drain has had    *)
(* every line printed, for any amount of output and any pipe.               *)
THEOREM AllLinesAreForwarded == BadLines = {} => (Spec => []EveryLineForwarded)
<1> SUFFICES ASSUME BadLines = {} PROVE Spec => []EveryLineForwarded
  OBVIOUS
<1>1. IInv => EveryLineForwarded
  BY DEF IInv, EveryLineForwarded, Stage, QueueOrder, EndQueued, OutputEnded,
         TypeOK
<1>2. QED BY <1>1, StreamingInvariant, PTL

(* Once a termination was started (drain grace over, or interrupt inside    *)
(* the try statement) every process of the group has exited or was sent     *)
(* SIGKILL, however often it is interrupted before the clean-up.            *)
THEOREM NothingSurvives == Spec => []NoSurvivors
<1>1. IInv => NoSurvivors
  BY DEF IInv, TypeOK, NoSurvivors, Stage, Killed, AllKilled
<1>2. QED BY <1>1, StreamingInvariant, PTL
-----------------------------------------------------------------------------
(* Refinement, for commands whose lines all decode.  First what the         *)
(* processes do: they write to an open output, or close it, or end.         *)
LEMMA GroupStepRefines ==
  ASSUME IInv, GroupStep
  PROVE  Runner!Produce("stdout") \/ Runner!Wanes
<1> USE DEF IInv, TypeOK, Runs
<1>0. UNCHANGED <<readerVars, queue, mainVars>>
  BY DEF GroupStep, LeaderWrites, HelperWrites, LeaderStartsHelper,
         ClosesStdout, LeaderExits, HelperExits
<1>1. CASE LeaderWrites \/ HelperWrites
  <2>1. /\ holders # {} /\ written' = written + 1
        /\ UNCHANGED <<leader, holders>>
    BY <1>1 DEF LeaderWrites, HelperWrites
  <2>2. QED BY <1>0, <2>1 DEF Runner!Produce
<1>2. CASE \/ LeaderStartsHelper \/ LeaderExits \/ HelperExits
           \/ \E p \in {"leader", "helper"} : ClosesStdout(p)
  <2>1. /\ holders = {} => holders' = {}
        /\ leader' = leader \/ leader' = "exited"
        /\ UNCHANGED written
    BY <1>2 DEF LeaderStartsHelper, LeaderExits, HelperExits, ClosesStdout
  <2>2. QED BY <1>0, <2>1 DEF Runner!Wanes
<1>3. QED BY <1>1, <1>2 DEF GroupStep

(* An item of the queue is a line to deliver, or its end, which delivers    *)
(* nothing.                                                                 *)
LEMMA GetItemRefines ==
  ASSUME IInv, IInv', GetItem
  PROVE  Runner!Deliver("stdout") \/ UNCHANGED Runner!runnerVars
<1> USE DEF IInv, TypeOK, GetItem, ItemArrives
<1>1. CASE Head(queue) = End
  BY <1>1 DEF Runner!runnerVars
<1>2. CASE Head(queue) # End
  <2>1. result = "none" /\ printed' = printed + 1 /\ UNCHANGED written
    BY <1>2 DEF Stage
  <2>2. printed < written
    BY <2>1
  <2>3. QED BY <2>1, <2>2 DEF Runner!Deliver
<1>3. QED BY <1>1, <1>2

(* What the clean-up does to the command is no more than its end, and a     *)
(* return is one of a command that has ended and given all its lines.       *)
LEMMA EndRefines ==
  ASSUME BadLines = {}, IInv, IInv', MainStep \/ Interrupt, ~GetItem
  PROVE  \/ Runner!Return \/ Runner!GiveUp \/ UNCHANGED Runner!runnerVars
<1> USE DEF IInv, TypeOK
<1>1. UNCHANGED <<written, printed, holders>>
      /\ (leader = "running" <=> leader' = "running")
  BY DEF MainStep, GetTimesOut, PollContinues, PollFinds, PollDrains, PollReaps,
         SendTerm, GroupVanishes, KillGroup, Reap, WaitTimesOut, Join, Interrupt,
         Exited
<1>2. CASE result' = result
  <2>1. result # "none" => stopping' = stopping
    BY <1>2 DEF Stage, MainStep, GetTimesOut, PollContinues, PollFinds,
         PollDrains, PollReaps, SendTerm, GroupVanishes, KillGroup, Reap,
         WaitTimesOut, Join, Interrupt
  <2>2. QED BY <1>1, <1>2, <2>1 DEF Runner!runnerVars
<1>3. CASE result' # result
  <2>1. /\ pc = "join" /\ result = "none" /\ result' # "none"
        /\ UNCHANGED stopping
    BY <1>3 DEF Stage, MainStep, GetTimesOut, PollContinues, PollFinds,
         PollDrains, PollReaps, SendTerm, GroupVanishes, KillGroup, Reap,
         WaitTimesOut, Join, Interrupt
  <2>2. CASE result' = "returned" /\ stopping = "no"
    <3>1. stdoutClosed /\ leader = "reaped"
      BY <2>1, <2>2 DEF Stage
    <3>2. holders = {} /\ printed = written
      BY <3>1 DEF QueueOrder, EndQueued, OutputEnded
    <3>3. QED BY <1>1, <2>1, <2>2, <3>1, <3>2 DEF Runner!Return
  <2>3. CASE ~(result' = "returned" /\ stopping = "no")
    BY <1>1, <2>1, <2>3 DEF Runner!GiveUp
  <2>4. QED BY <2>2, <2>3
<1>4. QED BY <1>2, <1>3

(* Every step is one the abstract runner may take, or none of its business. *)
LEMMA StepRefines ==
  ASSUME BadLines = {}, IInv, IInv', [Next]_vars
  PROVE  [Runner!RunnerNext]_(Runner!runnerVars)
<1>1. CASE UNCHANGED vars
  BY <1>1 DEF Runner!runnerVars
<1>2. CASE GroupStep
  BY <1>2, GroupStepRefines DEF Runner!RunnerNext
<1>3. CASE ReaderStep \/ DrainGraceExpires
  BY <1>3 DEF ReaderStep, ReadLine, ReaderEnds, DrainGraceExpires,
     Runner!runnerVars
<1>4. CASE GetItem
  BY <1>4, GetItemRefines DEF Runner!RunnerNext
<1>5. CASE (MainStep \/ Interrupt) /\ ~GetItem
  BY <1>5, EndRefines DEF Runner!RunnerNext
<1>6. QED BY <1>1, <1>2, <1>3, <1>4, <1>5 DEF Next

(* A normal return of run_streaming_command is one that the abstract        *)
(* command runner allows: the command has ended, nobody can write to its    *)
(* output any more and every line of it was printed, whatever its helpers,  *)
(* the pipe, the threads and the interrupts did.                            *)
THEOREM StreamingImplementsRunner ==
  BadLines = {} => (Spec => ImplementsRunner)
<1> SUFFICES ASSUME BadLines = {} PROVE Spec => ImplementsRunner
  OBVIOUS
<1>1. Init => Runner!RunnerInit
  BY DEF Init, Runner!RunnerInit
<1>2. IInv /\ IInv' /\ [Next]_vars => [Runner!RunnerNext]_(Runner!runnerVars)
  BY StepRefines
<1>3. QED
  BY <1>1, <1>2, StreamingInvariant, PTL DEF Spec, ImplementsRunner, Runner!RunnerSpec
=============================================================================
