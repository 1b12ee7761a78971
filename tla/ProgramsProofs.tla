--------------------------- MODULE ProgramsProofs ---------------------------
(***************************************************************************)
(* Safety of the programs MCPrograms composes, for every value of their    *)
(* constants.  A behaviour of the composition is, for each program, one of *)
(* its own specification: the others leave its variables alone.            *)
(***************************************************************************)
EXTENDS MCPrograms, FiniteSetTheorems, TLAPS

-----------------------------------------------------------------------------
(* The runner of official commands.                                         *)

LEMMA RuntimeConstants == Runtime!RuntimeAssumption
BY InstancesAssumption

(* A step of the composition is one of the runner's, or leaves it alone.    *)
LEMMA RuntimeProjects == [SomeStep]_allVars => [Runtime!Next]_(Runtime!vars)
<1> SUFFICES ASSUME [SomeStep]_allVars PROVE [Runtime!Next]_(Runtime!vars)
  OBVIOUS
<1> USE DEF runtimeVars, Runtime!vars, Runtime!childVars, Runtime!readerVars,
        Runtime!callerVars
<1>1. CASE RuntimeStep BY <1>1 DEF RuntimeStep
<1>2. CASE Rest /\ program # "runtime"
  BY <1>2 DEF Rest
<1>3. CASE UNCHANGED allVars BY <1>3 DEF allVars
<1>4. QED
  BY <1>1, <1>2, <1>3
  DEF SomeStep, ProbeStep, PreflightStep, ScoringStep, PromotionStep, SetupStep,
      FramesStep, AtomStep, ServerStep, OfficialReferenceStep, CommandsStep,
      ProvenanceStep

(* The streams are held by processes that run, and nothing happens before   *)
(* the launch.                                                              *)
Holding ==
  /\ \A s \in Runtime!Streams :
       /\ "child" \in holders[s] => child = "running"
       /\ "helper" \in holders[s] => helper = "running"
  /\ child = "none" <=> runtimePc \in {"launch", "not_launched"}
  /\ child = "none" =>
       /\ holders = [s \in Runtime!Streams |-> {}]
       /\ reading = [s \in Runtime!Streams |-> FALSE]
       /\ runtimeWritten = [s \in Runtime!Streams |-> 0]
       /\ closed = {} /\ queue = <<>> /\ helper = "none"

(* The queue as it concerns a stream: item i is line Which(q)[i] of stream   *)
(* Whose(q)[i].  It holds the lines that were read and not yet kept, in      *)
(* order, and the end mark behind them once the reader has ended and until   *)
(* the stream is closed.                                                     *)
Whose(q) == [i \in 1 .. Len(q) |-> q[i][1]]
Which(q) == [i \in 1 .. Len(q) |-> q[i][2]]

InOrder(s, q, cl, rd, kp, tk) ==
  /\ s \in cl => ~rd[s]
  /\ \A i \in 1 .. Len(q) : Whose(q)[i] = s =>
       /\ s \notin cl
       /\ Which(q)[i] = Runtime!End => ~rd[s]
       /\ Which(q)[i] # Runtime!End => kp[s] < Which(q)[i] /\ Which(q)[i] <= tk[s]
  /\ \A i, j \in 1 .. Len(q) : i < j /\ Whose(q)[i] = s /\ Whose(q)[j] = s =>
       /\ Which(q)[i] # Runtime!End
       /\ Which(q)[j] = Runtime!End \/ Which(q)[i] < Which(q)[j]
  /\ \A n \in Nat : kp[s] < n /\ n <= tk[s] =>
       \E i \in 1 .. Len(q) : Whose(q)[i] = s /\ Which(q)[i] = n

KeptInOrder ==
  \A s \in Runtime!Streams : InOrder(s, queue, closed, reading, kept, taken)

(* A reader that has ended has read everything there will ever be, unless a *)
(* line did not decode.                                                     *)
ReadToTheEnd ==
  \A s \in Runtime!Streams :
    child # "none" /\ ~reading[s] /\ ~Runtime!Undecodable
      => taken[s] = runtimeWritten[s] /\ holders[s] = {}

(* What a reported code rests on. *)
CodeFacts ==
  /\ Runtime!CodeIsReal
  /\ runtimePc = "wait" => runtimeLate
  /\ runtimePc = "returned" => closed = Runtime!Streams

RuntimeInv ==
  Runtime!TypeOK /\ Holding /\ KeptInOrder /\ ReadToTheEnd /\ CodeFacts

USE DEF Runtime!Streams, Runtime!End, Runtime!NoCode, Runtime!Killed,
    Runtime!LaunchError, Runtime!InCall

LEMMA RuntimeStarts == Runtime!Init => RuntimeInv
<1> SUFFICES ASSUME Runtime!Init PROVE RuntimeInv
  OBVIOUS
<1> USE RuntimeConstants DEF Runtime!Init, Runtime!RuntimeAssumption
<1>1. Runtime!ChildTypes
  <2>1. left = [p \in {"child", "helper"} |->
                  IF p = "child" THEN ChildLines ELSE HelperLines]
    OBVIOUS
  <2>2. left \in [{"child", "helper"} -> Nat] BY <2>1
  <2>3. QED BY <2>2 DEF Runtime!ChildTypes
<1>2. Runtime!OutputTypes BY DEF Runtime!OutputTypes
<1>3. Runtime!CallerTypes BY DEF Runtime!CallerTypes
<1>4. Holding /\ KeptInOrder
  BY DEF Holding, KeptInOrder, InOrder
<1>5. ReadToTheEnd /\ CodeFacts
  BY DEF ReadToTheEnd, CodeFacts, Runtime!CodeIsReal
<1>6. QED
  BY <1>1, <1>2, <1>3, <1>4, <1>5 DEF RuntimeInv, Runtime!TypeOK

(* What the command and its helper do keeps the invariant. *)
LEMMA ChildSteps ==
  ASSUME RuntimeInv, Runtime!ChildStep
  PROVE  RuntimeInv'
<1> USE DEF RuntimeInv, Runtime!TypeOK, Runtime!Runs, Runtime!Without
<1>0. UNCHANGED <<taken, reading, queue, runtimePc, timed, runtimeLate, kept,
                  closed, rc>>
  BY DEF Runtime!ChildStep, Runtime!Writes, Runtime!ClosesStream,
         Runtime!ChildStartsHelper, Runtime!ChildExits, Runtime!HelperExits,
         Runtime!readerVars, Runtime!callerVars
<1>k. KeptInOrder'
  BY <1>0 DEF KeptInOrder
<1>a. ASSUME NEW p \in {"child", "helper"}, NEW s \in Runtime!Streams,
             Runtime!Writes(p, s)
      PROVE  RuntimeInv'
  <2> USE <1>0, <1>a DEF Runtime!Writes
  <2>1. Runtime!ChildTypes' BY DEF Runtime!ChildTypes
  <2>2. Runtime!OutputTypes' BY DEF Runtime!OutputTypes
  <2>3. Runtime!CallerTypes' BY DEF Runtime!CallerTypes
  <2>4. Holding' BY DEF Holding, Runtime!OutputTypes
  <2>6. Runtime!Undecodable => Runtime!Undecodable'
    BY RuntimeConstants
    DEF Runtime!Undecodable, Runtime!OutputTypes, Runtime!RuntimeAssumption
  <2>7. ReadToTheEnd' BY <2>6 DEF ReadToTheEnd, Runtime!OutputTypes
  <2>8. CodeFacts' BY DEF CodeFacts, Runtime!CodeIsReal
  <2>9. QED BY <2>1, <2>2, <2>3, <2>4, <1>k, <2>7, <2>8
<1>b. ASSUME \/ Runtime!ChildStartsHelper \/ Runtime!ChildExits
             \/ Runtime!HelperExits
             \/ \E p \in {"child", "helper"}, s \in Runtime!Streams :
                  Runtime!ClosesStream(p, s)
      PROVE  RuntimeInv'
  <2> USE <1>0, <1>b
      DEF Runtime!ChildStartsHelper, Runtime!ChildExits, Runtime!HelperExits,
          Runtime!ClosesStream
  <2>1. Runtime!ChildTypes' BY DEF Runtime!ChildTypes
  <2>2. Runtime!OutputTypes' BY DEF Runtime!OutputTypes
  <2>3. Runtime!CallerTypes' BY DEF Runtime!CallerTypes
  <2>4. Holding' BY DEF Holding, Runtime!ChildTypes
  <2>5. /\ UNCHANGED runtimeWritten /\ child # "none"
        /\ \A s \in Runtime!Streams : holders[s] = {} => holders'[s] = {}
    BY DEF Runtime!ChildTypes, Holding
  <2>6. UNCHANGED Runtime!Undecodable BY <2>5 DEF Runtime!Undecodable
  <2>7. ReadToTheEnd' BY <1>0, <2>5, <2>6 DEF ReadToTheEnd
  <2>8. CodeFacts' BY DEF CodeFacts, Runtime!CodeIsReal, Runtime!ChildTypes
  <2>9. QED BY <2>1, <2>2, <2>3, <2>4, <1>k, <2>7, <2>8
<1>1. QED BY <1>a, <1>b DEF Runtime!ChildStep


(* What stands at place i of the queue: an item of another stream, the next *)
(* line of s, or its end mark.                                              *)
NextItem(s, q, i, rd, tk, rr, tt) ==
  \/ /\ Whose(q)[i] # s
     /\ rr[s] = rd[s] /\ tt[s] = tk[s]
  \/ /\ Whose(q)[i] = s /\ Which(q)[i] = tk[s] + 1
     /\ rd[s] /\ rr[s] = rd[s] /\ tt[s] = tk[s] + 1
  \/ /\ Whose(q)[i] = s /\ Which(q)[i] = Runtime!End
     /\ rd[s] /\ rr[s] = FALSE /\ tt[s] = tk[s]

(* One more item behind the others keeps them in order.                     *)
LEMMA AppendInOrder ==
  ASSUME NEW s, NEW q, NEW cl, NEW rd, NEW kp, NEW tk,
         InOrder(s, q, cl, rd, kp, tk),
         kp[s] \in Nat, tk[s] \in Nat, kp[s] <= tk[s],
         Len(q) \in Nat, \A i \in 1 .. Len(q) : Which(q)[i] \in Nat,
         NEW qq, NEW rr, NEW tt,
         Len(qq) = Len(q) + 1,
         \A i \in 1 .. Len(q) :
           Whose(qq)[i] = Whose(q)[i] /\ Which(qq)[i] = Which(q)[i],
         NextItem(s, qq, Len(q) + 1, rd, tk, rr, tt)
  PROVE  InOrder(s, qq, cl, rr, kp, tt)
<1> USE DEF NextItem
<1>0. \A i \in 1 .. Len(qq) : i \in 1 .. Len(q) \/ i = Len(q) + 1
  OBVIOUS
<1>1. 1 .. Len(q) \subseteq 1 .. Len(qq) /\ Len(q) + 1 \in 1 .. Len(qq)
  OBVIOUS
<1>2. s \in cl => ~rr[s]
  BY DEF InOrder
<1>3. \A i \in 1 .. Len(qq) : Whose(qq)[i] = s =>
        /\ s \notin cl
        /\ Which(qq)[i] = Runtime!End => ~rr[s]
        /\ Which(qq)[i] # Runtime!End => kp[s] < Which(qq)[i] /\ Which(qq)[i] <= tt[s]
  BY <1>0 DEF InOrder
<1>4. ASSUME NEW i \in 1 .. Len(qq), NEW j \in 1 .. Len(qq), i < j,
             Whose(qq)[i] = s, Whose(qq)[j] = s
      PROVE  /\ Which(qq)[i] # Runtime!End
             /\ Which(qq)[j] = Runtime!End \/ Which(qq)[i] < Which(qq)[j]
  <2>1. i \in 1 .. Len(q) BY <1>4
  <2>2. CASE j \in 1 .. Len(q) BY <1>4, <2>1, <2>2 DEF InOrder
  <2>3. CASE j = Len(q) + 1 BY <1>4, <2>1, <2>3 DEF InOrder
  <2>4. QED BY <1>0, <2>2, <2>3
<1>5. ASSUME NEW n \in Nat, kp[s] < n, n <= tt[s]
      PROVE  \E i \in 1 .. Len(qq) : Whose(qq)[i] = s /\ Which(qq)[i] = n
  <2>1. CASE n <= tk[s]
    <3>1. PICK i \in 1 .. Len(q) : Whose(q)[i] = s /\ Which(q)[i] = n
      BY <1>5, <2>1 DEF InOrder
    <3>2. i \in 1 .. Len(qq) /\ Whose(qq)[i] = s /\ Which(qq)[i] = n BY <1>1, <3>1
    <3>3. QED BY <3>2
  <2>2. CASE n > tk[s]
    <3>1. tt[s] = tk[s] + 1 /\ n = tk[s] + 1 BY <1>5, <2>2
    <3>2. Whose(qq)[Len(q) + 1] = s /\ Which(qq)[Len(q) + 1] = n BY <3>1
    <3>3. QED BY <1>1, <3>2
  <2>3. QED BY <1>5, <2>1, <2>2
<1>6. QED BY <1>2, <1>3, <1>4, <1>5 DEF InOrder

(* The first item is the next line of its stream, or its end mark once all *)
(* its lines were kept.                                                    *)
LEMMA TakeInOrder ==
  ASSUME NEW s, NEW q, NEW cl, NEW rd, NEW kp, NEW tk,
         InOrder(s, q, cl, rd, kp, tk),
         kp[s] \in Nat, tk[s] \in Nat, kp[s] <= tk[s],
         Len(q) \in Nat, \A i \in 1 .. Len(q) : Which(q)[i] \in Nat,
         NEW qq, NEW cc, NEW kk,
         Len(qq) \in Nat, Len(q) = Len(qq) + 1,
         \A i \in 1 .. Len(qq) :
           Whose(qq)[i] = Whose(q)[i + 1] /\ Which(qq)[i] = Which(q)[i + 1],
         \/ /\ Whose(q)[1] # s
            /\ s \in cc <=> s \in cl
            /\ kk[s] = kp[s]
         \/ /\ Whose(q)[1] = s /\ Which(q)[1] = Runtime!End
            /\ s \in cc /\ kk[s] = kp[s]
         \/ /\ Whose(q)[1] = s /\ Which(q)[1] # Runtime!End
            /\ s \in cc <=> s \in cl
            /\ kk[s] = kp[s] + 1
  PROVE  InOrder(s, qq, cc, rd, kk, tk) /\ kk[s] <= tk[s]
<1>0. /\ 1 \in 1 .. Len(q)
      /\ \A i \in 1 .. Len(qq) : i + 1 \in 1 .. Len(q) /\ 1 < i + 1
      /\ \A i, j \in 1 .. Len(qq) : i < j => i + 1 < j + 1
  OBVIOUS
<1>1. ASSUME NEW i \in 1 .. Len(q), i # 1
      PROVE  /\ i - 1 \in 1 .. Len(qq)
             /\ Whose(qq)[i - 1] = Whose(q)[i] /\ Which(qq)[i - 1] = Which(q)[i]
  <2>1. i - 1 \in 1 .. Len(qq) /\ (i - 1) + 1 = i BY <1>1
  <2>2. QED BY <2>1
<1>2. \A i \in 1 .. Len(qq) : Whose(qq)[i] = s =>
        /\ s \notin cl
        /\ Which(qq)[i] = Runtime!End => ~rd[s]
        /\ Which(qq)[i] # Runtime!End => kp[s] < Which(qq)[i] /\ Which(qq)[i] <= tk[s]
        /\ Whose(q)[1] = s =>
             /\ Which(q)[1] # Runtime!End
             /\ Which(qq)[i] = Runtime!End \/ Which(q)[1] < Which(qq)[i]
  BY <1>0 DEF InOrder
<1>3. ASSUME NEW i \in 1 .. Len(qq), NEW j \in 1 .. Len(qq), i < j,
             Whose(qq)[i] = s, Whose(qq)[j] = s
      PROVE  /\ Which(qq)[i] # Runtime!End
             /\ Which(qq)[j] = Runtime!End \/ Which(qq)[i] < Which(qq)[j]
  <2>1. /\ i + 1 \in 1 .. Len(q) /\ j + 1 \in 1 .. Len(q) /\ i + 1 < j + 1
        /\ Whose(q)[i + 1] = s /\ Whose(q)[j + 1] = s
    BY <1>0, <1>3
  <2>2. QED BY <2>1 DEF InOrder
<1>4. ASSUME NEW n \in Nat, kp[s] < n, n <= tk[s],
             Whose(q)[1] # s \/ Which(q)[1] # n
      PROVE  \E i \in 1 .. Len(qq) : Whose(qq)[i] = s /\ Which(qq)[i] = n
  <2>1. PICK i \in 1 .. Len(q) : Whose(q)[i] = s /\ Which(q)[i] = n
    BY <1>4 DEF InOrder
  <2>2. QED BY <1>1, <1>4, <2>1
<1>5. CASE Whose(q)[1] # s
  BY <1>2, <1>3, <1>4, <1>5 DEF InOrder
<1>6. CASE Whose(q)[1] = s /\ Which(q)[1] = Runtime!End
  <2>1. ~rd[s] BY <1>0, <1>6 DEF InOrder
  <2>2. kp[s] = tk[s]
    <3> SUFFICES ASSUME kp[s] < tk[s] PROVE FALSE OBVIOUS
    <3>1. Which(q)[1] # tk[s] BY <1>6
    <3>2. \E i \in 1 .. Len(qq) : Whose(qq)[i] = s /\ Which(qq)[i] = tk[s]
      BY <1>4, <3>1
    <3>3. QED BY <1>2, <1>6, <3>2
  <2>3. \A i \in 1 .. Len(qq) : Whose(qq)[i] # s BY <1>2, <1>6
  <2>4. QED BY <1>6, <2>1, <2>2, <2>3 DEF InOrder
<1>7. CASE Whose(q)[1] = s /\ Which(q)[1] # Runtime!End
  <2>1. /\ kp[s] < Which(q)[1] /\ Which(q)[1] <= tk[s] /\ s \notin cl
        /\ Which(q)[1] \in Nat /\ kk[s] = kp[s] + 1 /\ s \notin cc
    BY <1>0, <1>7 DEF InOrder
  <2>2. Which(q)[1] = kp[s] + 1
    <3> SUFFICES ASSUME kp[s] + 1 < Which(q)[1] PROVE FALSE BY <2>1
    <3>1. \E i \in 1 .. Len(qq) : Whose(qq)[i] = s /\ Which(qq)[i] = kp[s] + 1
      BY <1>4, <2>1
    <3>2. QED BY <1>2, <1>7, <2>1, <3>1
  <2>3. \A i \in 1 .. Len(qq) : Whose(qq)[i] = s =>
          /\ Which(qq)[i] = Runtime!End => ~rd[s]
          /\ Which(qq)[i] # Runtime!End => kk[s] < Which(qq)[i] /\ Which(qq)[i] <= tk[s]
    BY <1>2, <1>7, <2>1, <2>2
  <2>4. \A n \in Nat : kk[s] < n /\ n <= tk[s] =>
          \E i \in 1 .. Len(qq) : Whose(qq)[i] = s /\ Which(qq)[i] = n
    <3> SUFFICES ASSUME NEW n \in Nat, kk[s] < n, n <= tk[s]
                 PROVE  \E i \in 1 .. Len(qq) : Whose(qq)[i] = s /\ Which(qq)[i] = n
      OBVIOUS
    <3>1. kp[s] < n /\ Which(q)[1] # n BY <2>1, <2>2
    <3>2. QED BY <1>4, <3>1
  <2>5. InOrder(s, qq, cc, rd, kk, tk)
    BY <1>3, <2>1, <2>3, <2>4 DEF InOrder
  <2>6. QED BY <2>1, <2>5
<1>8. QED BY <1>5, <1>6, <1>7

(* What appending does to the two views of the queue, and taking the first. *)
LEMMA AppendViews ==
  ASSUME NEW q \in Seq(Runtime!Streams \X Nat), NEW r \in Runtime!Streams,
         NEW n \in Nat
  PROVE  LET qq == Append(q, <<r, n>>)
         IN /\ qq \in Seq(Runtime!Streams \X Nat)
            /\ Len(q) \in Nat /\ Len(qq) = Len(q) + 1
            /\ Whose(qq)[Len(q) + 1] = r /\ Which(qq)[Len(q) + 1] = n
            /\ \A i \in 1 .. Len(q) :
                 Whose(qq)[i] = Whose(q)[i] /\ Which(qq)[i] = Which(q)[i]
<1> DEFINE qq == Append(q, <<r, n>>)
<1>1. /\ qq \in Seq(Runtime!Streams \X Nat) /\ Len(q) \in Nat
      /\ Len(qq) = Len(q) + 1 /\ qq[Len(q) + 1] = <<r, n>>
      /\ \A i \in 1 .. Len(q) : qq[i] = q[i]
  <2>1. <<r, n>> \in Runtime!Streams \X Nat OBVIOUS
  <2>2. QED BY <2>1
<1>2. Len(q) + 1 \in 1 .. Len(qq) /\ \A i \in 1 .. Len(q) : i \in 1 .. Len(qq)
  BY <1>1
<1>3. Whose(qq)[Len(q) + 1] = r /\ Which(qq)[Len(q) + 1] = n
  BY <1>1, <1>2 DEF Whose, Which
<1>4. \A i \in 1 .. Len(q) :
        Whose(qq)[i] = Whose(q)[i] /\ Which(qq)[i] = Which(q)[i]
  BY <1>1, <1>2 DEF Whose, Which
<1>5. QED BY <1>1, <1>3, <1>4

LEMMA TailViews ==
  ASSUME NEW q \in Seq(Runtime!Streams \X Nat), q # <<>>
  PROVE  LET t == Tail(q)
         IN /\ t \in Seq(Runtime!Streams \X Nat)
            /\ Len(t) \in Nat /\ Len(q) = Len(t) + 1
            /\ Whose(q)[1] = Head(q)[1] /\ Which(q)[1] = Head(q)[2]
            /\ \A i \in 1 .. Len(t) :
                 Whose(t)[i] = Whose(q)[i + 1] /\ Which(t)[i] = Which(q)[i + 1]
<1> DEFINE t == Tail(q)
<1>1. /\ t \in Seq(Runtime!Streams \X Nat) /\ Len(t) \in Nat
      /\ Len(q) = Len(t) + 1 /\ Head(q) = q[1]
      /\ \A i \in 1 .. Len(t) : t[i] = q[i + 1]
  OBVIOUS
<1>2. 1 \in 1 .. Len(q) /\ \A i \in 1 .. Len(t) : i + 1 \in 1 .. Len(q)
  BY <1>1
<1>3. Whose(q)[1] = Head(q)[1] /\ Which(q)[1] = Head(q)[2]
  BY <1>1, <1>2 DEF Whose, Which
<1>4. \A i \in 1 .. Len(t) :
        Whose(t)[i] = Whose(q)[i + 1] /\ Which(t)[i] = Which(q)[i + 1]
  BY <1>1, <1>2 DEF Whose, Which
<1>5. QED BY <1>1, <1>3, <1>4

LEMMA ViewTypes ==
  ASSUME NEW q \in Seq(Runtime!Streams \X Nat)
  PROVE  /\ \A i \in 1 .. Len(q) : Which(q)[i] \in Nat
         /\ q # <<>> => Head(q)[1] \in Runtime!Streams /\ Head(q)[2] \in Nat
<1>1. \A i \in 1 .. Len(q) : q[i] \in Runtime!Streams \X Nat
  OBVIOUS
<1>2. QED BY <1>1 DEF Which

(* A reader keeps the invariant. *)
LEMMA ReaderSteps ==
  ASSUME RuntimeInv, NEW s \in Runtime!Streams, Runtime!ReaderStep(s)
  PROVE  RuntimeInv'
<1> USE DEF RuntimeInv, Runtime!TypeOK
<1>0. /\ UNCHANGED <<Runtime!childVars, Runtime!callerVars>>
      /\ reading[s]
  BY DEF Runtime!ReaderStep, Runtime!ReadLine, Runtime!ReaderEnds
<1>1. Runtime!ChildTypes' /\ Runtime!CallerTypes' /\ CodeFacts'
  BY <1>0 DEF Runtime!ChildTypes, Runtime!CallerTypes, CodeFacts,
         Runtime!CodeIsReal, Runtime!childVars, Runtime!callerVars
<1>3. Holding'
  BY <1>0 DEF Holding, Runtime!childVars, Runtime!callerVars, Runtime!ReaderStep,
         Runtime!ReadLine, Runtime!ReaderEnds
<1>4. UNCHANGED Runtime!Undecodable
  BY <1>0 DEF Runtime!Undecodable, Runtime!childVars
<1>5. /\ queue \in Seq(Runtime!Streams \X Nat)
      /\ reading \in [Runtime!Streams -> BOOLEAN]
      /\ kept \in [Runtime!Streams -> Nat] /\ taken \in [Runtime!Streams -> Nat]
      /\ \A r \in Runtime!Streams : kept[r] <= taken[r]
      /\ UNCHANGED <<kept, closed>>
  BY <1>0 DEF Runtime!OutputTypes, Runtime!CallerTypes, Runtime!callerVars
<1>6. ASSUME NEW n \in Nat, queue' = Append(queue, <<s, n>>)
      PROVE  /\ queue' \in Seq(Runtime!Streams \X Nat)
             /\ Len(queue) \in Nat /\ Len(queue') = Len(queue) + 1
             /\ Whose(queue')[Len(queue) + 1] = s /\ Which(queue')[Len(queue) + 1] = n
             /\ \A i \in 1 .. Len(queue) :
                  /\ Whose(queue')[i] = Whose(queue)[i]
                  /\ Which(queue')[i] = Which(queue)[i]
                  /\ Which(queue)[i] \in Nat
  BY <1>5, <1>6, AppendViews, ViewTypes
<1>7. CASE Runtime!ReadLine(s)
  <2>1. /\ queue' = Append(queue, <<s, taken[s] + 1>>) /\ taken[s] + 1 \in Nat
        /\ taken' = [taken EXCEPT ![s] = taken[s] + 1]
        /\ taken[s] < runtimeWritten[s] /\ UNCHANGED reading
    BY <1>5, <1>7 DEF Runtime!ReadLine
  <2>2. Runtime!OutputTypes'
    <3>1. queue' \in Seq(Runtime!Streams \X Nat) BY <1>6, <2>1
    <3>2. QED
      BY <1>0, <2>1, <3>1 DEF Runtime!OutputTypes, Runtime!childVars,
             Runtime!callerVars
  <2>3. ReadToTheEnd'
    BY <1>0, <1>4, <2>1 DEF ReadToTheEnd, Runtime!childVars, Runtime!OutputTypes
  <2>4. KeptInOrder'
    <3> SUFFICES ASSUME NEW r \in Runtime!Streams
                 PROVE  InOrder(r, queue', closed, reading, kept, taken')
      BY <1>5, <2>1 DEF KeptInOrder
    <3>1. InOrder(r, queue, closed, reading, kept, taken)
      BY DEF KeptInOrder
    <3>2. /\ kept[r] \in Nat /\ taken[r] \in Nat /\ kept[r] <= taken[r]
          /\ s = r => reading[r]
          /\ taken'[r] = IF s = r THEN taken[r] + 1 ELSE taken[r]
      BY <1>0, <1>5, <2>1
    <3>3. /\ Len(queue) \in Nat /\ Len(queue') = Len(queue) + 1
          /\ Whose(queue')[Len(queue) + 1] = s
          /\ Which(queue')[Len(queue) + 1] = taken[s] + 1
          /\ \A i \in 1 .. Len(queue) : Which(queue)[i] \in Nat
          /\ \A i \in 1 .. Len(queue) :
               /\ Whose(queue')[i] = Whose(queue)[i]
               /\ Which(queue')[i] = Which(queue)[i]
      BY <1>6, <2>1
    <3>4. CASE s = r
      <4>1. Which(queue')[Len(queue) + 1] = taken[r] + 1 BY <3>3, <3>4
      <4>2. Whose(queue')[Len(queue) + 1] = r BY <3>3, <3>4
      <4>3. reading[r] /\ taken'[r] = taken[r] + 1 BY <3>2, <3>4
      <4>4. NextItem(r, queue', Len(queue) + 1, reading, taken, reading, taken')
        BY <4>1, <4>2, <4>3 DEF NextItem
      <4>5. QED BY <3>1, <3>2, <3>3, <4>4, AppendInOrder
    <3>5. CASE s # r
      <4>1. Whose(queue')[Len(queue) + 1] # r BY <3>3, <3>5
      <4>2. taken'[r] = taken[r] BY <3>2, <3>5
      <4>3. NextItem(r, queue', Len(queue) + 1, reading, taken, reading, taken')
        BY <4>1, <4>2 DEF NextItem
      <4>4. QED BY <3>1, <3>2, <3>3, <4>3, AppendInOrder
    <3>6. QED BY <3>4, <3>5
  <2>5. QED BY <1>1, <1>3, <2>2, <2>3, <2>4
<1>8. CASE Runtime!ReaderEnds(s)
  <2>1. /\ queue' = Append(queue, <<s, Runtime!End>>) /\ UNCHANGED taken
        /\ reading' = [reading EXCEPT ![s] = FALSE]
    BY <1>8 DEF Runtime!ReaderEnds
  <2>2. Runtime!OutputTypes'
    <3>1. queue' \in Seq(Runtime!Streams \X Nat) BY <1>6, <2>1
    <3>2. QED
      BY <1>0, <2>1, <3>1 DEF Runtime!OutputTypes, Runtime!childVars,
             Runtime!callerVars
  <2>3. ReadToTheEnd'
    <3>1. ASSUME taken[s] < runtimeWritten[s], <<s, taken[s] + 1>> \in BadLines
          PROVE  Runtime!Undecodable
      BY <3>1 DEF Runtime!Undecodable, Runtime!OutputTypes
    <3>2. Runtime!Undecodable \/ (taken[s] = runtimeWritten[s] /\ holders[s] = {})
      BY <1>8, <3>1 DEF Runtime!ReaderEnds
    <3>3. QED
      BY <1>0, <1>4, <1>5, <2>1, <3>2 DEF ReadToTheEnd, Runtime!childVars
  <2>4. KeptInOrder'
    <3> SUFFICES ASSUME NEW r \in Runtime!Streams
                 PROVE  InOrder(r, queue', closed, reading', kept, taken)
      BY <1>5, <2>1 DEF KeptInOrder
    <3>1. InOrder(r, queue, closed, reading, kept, taken)
      BY DEF KeptInOrder
    <3>2. /\ kept[r] \in Nat /\ taken[r] \in Nat /\ kept[r] <= taken[r]
          /\ s = r => reading[r]
          /\ reading'[r] = IF s = r THEN FALSE ELSE reading[r]
      BY <1>0, <1>5, <2>1
    <3>3. /\ Len(queue) \in Nat /\ Len(queue') = Len(queue) + 1
          /\ Whose(queue')[Len(queue) + 1] = s
          /\ Which(queue')[Len(queue) + 1] = Runtime!End
          /\ \A i \in 1 .. Len(queue) : Which(queue)[i] \in Nat
          /\ \A i \in 1 .. Len(queue) :
               /\ Whose(queue')[i] = Whose(queue)[i]
               /\ Which(queue')[i] = Which(queue)[i]
      BY <1>6, <2>1
    <3>4. NextItem(r, queue', Len(queue) + 1, reading, taken, reading', taken)
      BY <3>2, <3>3 DEF NextItem
    <3>5. QED BY <3>1, <3>2, <3>3, <3>4, AppendInOrder
  <2>5. QED BY <1>1, <1>3, <2>2, <2>3, <2>4
<1>9. QED BY <1>7, <1>8 DEF Runtime!ReaderStep

(* The caller takes the next item of the queue. *)
LEMMA GetItemStep ==
  ASSUME RuntimeInv, Runtime!GetItem
  PROVE  RuntimeInv'
<1> DEFINE s == Head(queue)[1]
           n == Head(queue)[2]
<1>0. /\ UNCHANGED <<Runtime!childVars, Runtime!readerVars, timed, runtimeLate, rc>>
      /\ runtimePc = "get" /\ runtimePc' = "poll"
      /\ queue # <<>> /\ queue' = Tail(queue)
      /\ IF n = Runtime!End THEN closed' = closed \union {s} /\ kept' = kept
         ELSE kept' = [kept EXCEPT ![s] = @ + 1] /\ closed' = closed
  BY DEF Runtime!GetItem
<1>1. /\ queue \in Seq(Runtime!Streams \X Nat) /\ closed \subseteq Runtime!Streams
      /\ kept \in [Runtime!Streams -> Nat] /\ taken \in [Runtime!Streams -> Nat]
      /\ \A r \in Runtime!Streams : kept[r] <= taken[r]
      /\ KeptInOrder /\ Holding /\ ReadToTheEnd /\ CodeFacts
      /\ Runtime!ChildTypes /\ Runtime!OutputTypes /\ Runtime!CallerTypes
  BY DEF RuntimeInv, Runtime!TypeOK, Runtime!OutputTypes, Runtime!CallerTypes
<1>2. s \in Runtime!Streams /\ n \in Nat
  BY <1>0, <1>1, ViewTypes
<1>3. /\ queue' \in Seq(Runtime!Streams \X Nat)
      /\ Len(queue) \in Nat /\ \A i \in 1 .. Len(queue) : Which(queue)[i] \in Nat
      /\ Len(queue') \in Nat /\ Len(queue) = Len(queue') + 1
      /\ Whose(queue)[1] = s /\ Which(queue)[1] = n
      /\ \A i \in 1 .. Len(queue') :
           /\ Whose(queue')[i] = Whose(queue)[i + 1]
           /\ Which(queue')[i] = Which(queue)[i + 1]
  BY <1>0, <1>1, TailViews, ViewTypes
<1> HIDE DEF s, n
<1>4. ASSUME NEW r \in Runtime!Streams
      PROVE  InOrder(r, queue', closed', reading, kept', taken) /\ kept'[r] <= taken[r]
  <2>1. InOrder(r, queue, closed, reading, kept, taken)
    BY <1>1 DEF KeptInOrder
  <2>2. kept[r] \in Nat /\ taken[r] \in Nat /\ kept[r] <= taken[r]
    BY <1>1
  <2>3. CASE s # r
    <3>1. kept'[r] = kept[r] /\ (r \in closed' <=> r \in closed)
      <4>1. CASE n = Runtime!End
        BY <1>0, <1>2, <2>3, <4>1
      <4>2. CASE n # Runtime!End
        <5>1. kept' = [kept EXCEPT ![s] = @ + 1] /\ closed' = closed BY <1>0, <4>2
        <5>2. QED BY <1>1, <1>2, <2>3, <5>1
      <4>3. QED BY <4>1, <4>2
    <3>2. Whose(queue)[1] # r BY <1>3, <2>3
    <3>3. QED BY <1>3, <2>1, <2>2, <3>1, <3>2, TakeInOrder
  <2>4. CASE s = r /\ n = Runtime!End
    <3>1. kept'[r] = kept[r] /\ r \in closed'
      <4>1. kept' = kept /\ closed' = closed \union {s} BY <1>0, <2>4
      <4>2. QED BY <1>1, <1>2, <2>4, <4>1
    <3>2. Whose(queue)[1] = r /\ Which(queue)[1] = Runtime!End BY <1>3, <2>4
    <3>3. QED BY <1>3, <2>1, <2>2, <3>1, <3>2, TakeInOrder
  <2>5. CASE s = r /\ n # Runtime!End
    <3>1. kept'[r] = kept[r] + 1 /\ (r \in closed' <=> r \in closed)
      <4>1. kept' = [kept EXCEPT ![s] = @ + 1] /\ closed' = closed BY <1>0, <2>5
      <4>2. QED BY <1>1, <1>2, <2>5, <4>1
    <3>2. Whose(queue)[1] = r /\ Which(queue)[1] # Runtime!End BY <1>3, <2>5
    <3>3. QED BY <1>3, <2>1, <2>2, <3>1, <3>2, TakeInOrder
  <2>6. QED BY <2>3, <2>4, <2>5
<1>5. KeptInOrder'
  BY <1>0, <1>4 DEF KeptInOrder, Runtime!readerVars
<1>6. kept' \in [Runtime!Streams -> Nat] /\ closed' \subseteq Runtime!Streams
  <2>1. CASE n = Runtime!End BY <1>0, <1>1, <1>2, <2>1
  <2>2. CASE n # Runtime!End
    <3>1. kept' = [kept EXCEPT ![s] = @ + 1] /\ closed' = closed BY <1>0, <2>2
    <3>2. kept[s] + 1 \in Nat BY <1>1, <1>2
    <3>3. kept' \in [Runtime!Streams -> Nat] BY <1>1, <3>1, <3>2, Zenon
    <3>4. QED BY <1>1, <3>1, <3>3
  <2>3. QED BY <2>1, <2>2
<1>7. Runtime!OutputTypes'
  BY <1>0, <1>1, <1>3, <1>4, <1>6
  DEF Runtime!OutputTypes, Runtime!childVars, Runtime!readerVars
<1>8. Runtime!ChildTypes' /\ Runtime!CallerTypes'
  BY <1>0, <1>1, <1>6
  DEF Runtime!ChildTypes, Runtime!CallerTypes, Runtime!childVars
<1>9. Holding'
  <2>1. child # "none" BY <1>0, <1>1 DEF Holding
  <2>2. QED BY <1>0, <1>1, <2>1 DEF Holding, Runtime!childVars
<1>10. ReadToTheEnd'
  BY <1>0, <1>1
  DEF ReadToTheEnd, Runtime!Undecodable, Runtime!childVars, Runtime!readerVars
<1>11. CodeFacts'
  BY <1>0, <1>1 DEF CodeFacts, Runtime!CodeIsReal
<1>12. QED
  BY <1>5, <1>7, <1>8, <1>9, <1>10, <1>11 DEF RuntimeInv, Runtime!TypeOK

(* The other steps of the caller, and what happens to it. *)
LEMMA CallerSteps ==
  ASSUME RuntimeInv,
         \/ Runtime!Launch \/ Runtime!LaunchFails \/ Runtime!CheckOnTime
         \/ Runtime!DeadlinePassed \/ Runtime!ReportTimeout \/ Runtime!GetTimesOut
         \/ Runtime!PollContinues \/ Runtime!PollFinishes \/ Runtime!Interrupted
         \/ Runtime!DeadlinePasses
  PROVE  RuntimeInv'
<1>1. /\ Runtime!ChildTypes /\ Runtime!OutputTypes /\ Runtime!CallerTypes
      /\ Holding /\ KeptInOrder /\ ReadToTheEnd /\ CodeFacts
  BY DEF RuntimeInv, Runtime!TypeOK
<1>2. Runtime!ChildTypes'
  <2>1. CASE Runtime!Launch BY <1>1, <2>1
    DEF Runtime!ChildTypes, Holding, Runtime!Launch, Runtime!childVars, Runtime!readerVars
  <2>2. CASE Runtime!DeadlinePassed BY <1>1, <2>2
    DEF Runtime!ChildTypes, Holding, Runtime!DeadlinePassed, Runtime!childVars, Runtime!readerVars
  <2>3. CASE Runtime!ReportTimeout BY <1>1, <2>3
    DEF Runtime!ChildTypes, Holding, Runtime!ReportTimeout, Runtime!childVars, Runtime!readerVars
  <2>4. CASE Runtime!PollContinues BY <1>1, <2>4
    DEF Runtime!ChildTypes, Holding, Runtime!PollContinues, Runtime!childVars, Runtime!readerVars, Runtime!Polled, Runtime!Finished
  <2>5. CASE Runtime!PollFinishes BY <1>1, <2>5
    DEF Runtime!ChildTypes, Holding, Runtime!PollFinishes, Runtime!childVars, Runtime!readerVars, Runtime!Polled, Runtime!Finished
  <2>6. CASE Runtime!LaunchFails BY <1>1, <2>6
    DEF Runtime!ChildTypes, Holding, Runtime!LaunchFails, Runtime!childVars, Runtime!readerVars
  <2>7. CASE Runtime!CheckOnTime BY <1>1, <2>7
    DEF Runtime!ChildTypes, Holding, Runtime!CheckOnTime, Runtime!childVars, Runtime!readerVars
  <2>8. CASE Runtime!GetTimesOut BY <1>1, <2>8
    DEF Runtime!ChildTypes, Holding, Runtime!GetTimesOut, Runtime!childVars, Runtime!readerVars
  <2>9. CASE Runtime!Interrupted BY <1>1, <2>9
    DEF Runtime!ChildTypes, Holding, Runtime!Interrupted, Runtime!childVars, Runtime!readerVars
  <2>10. CASE Runtime!DeadlinePasses BY <1>1, <2>10
    DEF Runtime!ChildTypes, Holding, Runtime!DeadlinePasses, Runtime!childVars, Runtime!readerVars
  <2>11. QED BY <2>1, <2>2, <2>3, <2>4, <2>5, <2>6, <2>7, <2>8, <2>9, <2>10
<1>3. Runtime!OutputTypes'
  BY <1>1 DEF Runtime!OutputTypes, Runtime!childVars, Runtime!readerVars,
      Runtime!Launch, Runtime!LaunchFails, Runtime!CheckOnTime, Runtime!DeadlinePassed,
      Runtime!ReportTimeout, Runtime!GetTimesOut, Runtime!PollContinues,
      Runtime!PollFinishes, Runtime!Interrupted, Runtime!DeadlinePasses
<1>4. Runtime!CallerTypes'
  <2>1. CASE Runtime!Launch BY <1>1, <2>1
    DEF Runtime!CallerTypes, Runtime!ChildTypes, Runtime!Launch, Runtime!childVars, Runtime!readerVars
  <2>2. CASE Runtime!DeadlinePassed BY <1>1, <2>2
    DEF Runtime!CallerTypes, Runtime!ChildTypes, Runtime!DeadlinePassed, Runtime!childVars, Runtime!readerVars
  <2>3. CASE Runtime!ReportTimeout BY <1>1, <2>3
    DEF Runtime!CallerTypes, Runtime!ChildTypes, Runtime!ReportTimeout, Runtime!childVars, Runtime!readerVars
  <2>4. CASE Runtime!PollContinues BY <1>1, <2>4
    DEF Runtime!CallerTypes, Runtime!ChildTypes, Runtime!PollContinues, Runtime!childVars, Runtime!readerVars, Runtime!Polled, Runtime!Finished
  <2>5. CASE Runtime!PollFinishes BY <1>1, <2>5
    DEF Runtime!CallerTypes, Runtime!ChildTypes, Runtime!PollFinishes, Runtime!childVars, Runtime!readerVars, Runtime!Polled, Runtime!Finished
  <2>6. CASE Runtime!LaunchFails BY <1>1, <2>6
    DEF Runtime!CallerTypes, Runtime!ChildTypes, Runtime!LaunchFails, Runtime!childVars, Runtime!readerVars
  <2>7. CASE Runtime!CheckOnTime BY <1>1, <2>7
    DEF Runtime!CallerTypes, Runtime!ChildTypes, Runtime!CheckOnTime, Runtime!childVars, Runtime!readerVars
  <2>8. CASE Runtime!GetTimesOut BY <1>1, <2>8
    DEF Runtime!CallerTypes, Runtime!ChildTypes, Runtime!GetTimesOut, Runtime!childVars, Runtime!readerVars
  <2>9. CASE Runtime!Interrupted BY <1>1, <2>9
    DEF Runtime!CallerTypes, Runtime!ChildTypes, Runtime!Interrupted, Runtime!childVars, Runtime!readerVars
  <2>10. CASE Runtime!DeadlinePasses BY <1>1, <2>10
    DEF Runtime!CallerTypes, Runtime!ChildTypes, Runtime!DeadlinePasses, Runtime!childVars, Runtime!readerVars
  <2>11. QED BY <2>1, <2>2, <2>3, <2>4, <2>5, <2>6, <2>7, <2>8, <2>9, <2>10
<1>5. Holding'
  <2>1. CASE Runtime!Launch BY <1>1, <2>1
    DEF Holding, Runtime!ChildTypes, Runtime!CallerTypes, Runtime!Launch, Runtime!childVars, Runtime!readerVars
  <2>2. CASE Runtime!DeadlinePassed BY <1>1, <2>2
    DEF Holding, Runtime!ChildTypes, Runtime!CallerTypes, Runtime!DeadlinePassed, Runtime!childVars, Runtime!readerVars
  <2>3. CASE Runtime!ReportTimeout BY <1>1, <2>3
    DEF Holding, Runtime!ChildTypes, Runtime!CallerTypes, Runtime!ReportTimeout, Runtime!childVars, Runtime!readerVars
  <2>4. CASE Runtime!PollContinues BY <1>1, <2>4
    DEF Holding, Runtime!ChildTypes, Runtime!CallerTypes, Runtime!PollContinues, Runtime!childVars, Runtime!readerVars, Runtime!Polled, Runtime!Finished
  <2>5. CASE Runtime!PollFinishes BY <1>1, <2>5
    DEF Holding, Runtime!ChildTypes, Runtime!CallerTypes, Runtime!PollFinishes, Runtime!childVars, Runtime!readerVars, Runtime!Polled, Runtime!Finished
  <2>6. CASE Runtime!LaunchFails BY <1>1, <2>6
    DEF Holding, Runtime!ChildTypes, Runtime!CallerTypes, Runtime!LaunchFails, Runtime!childVars, Runtime!readerVars
  <2>7. CASE Runtime!CheckOnTime BY <1>1, <2>7
    DEF Holding, Runtime!ChildTypes, Runtime!CallerTypes, Runtime!CheckOnTime, Runtime!childVars, Runtime!readerVars
  <2>8. CASE Runtime!GetTimesOut BY <1>1, <2>8
    DEF Holding, Runtime!ChildTypes, Runtime!CallerTypes, Runtime!GetTimesOut, Runtime!childVars, Runtime!readerVars
  <2>9. CASE Runtime!Interrupted BY <1>1, <2>9
    DEF Holding, Runtime!ChildTypes, Runtime!CallerTypes, Runtime!Interrupted, Runtime!childVars, Runtime!readerVars
  <2>10. CASE Runtime!DeadlinePasses BY <1>1, <2>10
    DEF Holding, Runtime!ChildTypes, Runtime!CallerTypes, Runtime!DeadlinePasses, Runtime!childVars, Runtime!readerVars
  <2>11. QED BY <2>1, <2>2, <2>3, <2>4, <2>5, <2>6, <2>7, <2>8, <2>9, <2>10
<1>6. /\ UNCHANGED <<queue, closed, kept, taken, runtimeWritten>>
      /\ UNCHANGED <<reading, holders>> \/ Runtime!Launch
  BY DEF Runtime!childVars, Runtime!readerVars,
      Runtime!Launch, Runtime!LaunchFails, Runtime!CheckOnTime, Runtime!DeadlinePassed,
      Runtime!ReportTimeout, Runtime!GetTimesOut, Runtime!PollContinues,
      Runtime!PollFinishes, Runtime!Interrupted, Runtime!DeadlinePasses
<1>7. KeptInOrder'
  <2>1. CASE Runtime!Launch
    <3>1. queue = <<>> /\ closed = {} /\ runtimeWritten = [s \in Runtime!Streams |-> 0]
      BY <1>1, <2>1 DEF Holding, Runtime!Launch, Runtime!CallerTypes
    <3>2. \A s \in Runtime!Streams : kept[s] = 0 /\ taken[s] = 0
      BY <1>1, <3>1 DEF Runtime!OutputTypes
    <3>3. QED BY <1>6, <3>1, <3>2 DEF KeptInOrder, InOrder
  <2>2. CASE UNCHANGED reading BY <1>1, <1>6, <2>2 DEF KeptInOrder
  <2>3. QED BY <1>6, <2>1, <2>2
<1>8. ReadToTheEnd'
  <2>1. CASE Runtime!Launch BY <2>1 DEF ReadToTheEnd, Runtime!Launch
  <2>2. CASE ~Runtime!Launch
    <3>1. child' # "none" => child # "none"
      BY <1>1, <2>2 DEF Runtime!childVars, Holding, Runtime!Polled,
         Runtime!Launch, Runtime!LaunchFails, Runtime!CheckOnTime, Runtime!DeadlinePassed,
         Runtime!ReportTimeout, Runtime!GetTimesOut, Runtime!PollContinues,
         Runtime!PollFinishes, Runtime!Interrupted, Runtime!DeadlinePasses
    <3>2. QED BY <1>1, <1>6, <2>2, <3>1 DEF ReadToTheEnd, Runtime!Undecodable
  <2>3. QED BY <2>1, <2>2
<1>9. CodeFacts'
  BY <1>1 DEF CodeFacts, Runtime!CodeIsReal, Runtime!ChildTypes, Runtime!CallerTypes,
         Holding, Runtime!Polled, Runtime!Finished, Runtime!childVars,
      Runtime!Launch, Runtime!LaunchFails, Runtime!CheckOnTime, Runtime!DeadlinePassed,
      Runtime!ReportTimeout, Runtime!GetTimesOut, Runtime!PollContinues,
      Runtime!PollFinishes, Runtime!Interrupted, Runtime!DeadlinePasses
<1>10. QED
  BY <1>2, <1>3, <1>4, <1>5, <1>7, <1>8, <1>9 DEF RuntimeInv, Runtime!TypeOK

LEMMA NextRuntimeInv ==
  ASSUME RuntimeInv, [Runtime!Next]_(Runtime!vars)
  PROVE  RuntimeInv'
<1>1. CASE Runtime!Next
  BY <1>1, ChildSteps, ReaderSteps, GetItemStep, CallerSteps
  DEF Runtime!Next, Runtime!CallerStep
<1>2. CASE UNCHANGED Runtime!vars
  BY <1>2
  DEF Runtime!vars, Runtime!childVars, Runtime!readerVars, Runtime!callerVars,
      RuntimeInv, Runtime!TypeOK, Runtime!ChildTypes, Runtime!OutputTypes,
      Runtime!CallerTypes, Holding, KeptInOrder, ReadToTheEnd, Runtime!Undecodable,
      CodeFacts, Runtime!CodeIsReal
<1>3. QED BY <1>1, <1>2

LEMMA OutputIsComplete == RuntimeInv => Runtime!OutputComplete
<1> SUFFICES ASSUME RuntimeInv, runtimePc = "returned", ~Runtime!Undecodable
             PROVE  kept = runtimeWritten
  BY DEF Runtime!OutputComplete
<1>1. /\ closed = Runtime!Streams /\ child # "none"
      /\ kept \in [Runtime!Streams -> Nat] /\ taken \in [Runtime!Streams -> Nat]
      /\ runtimeWritten \in [Runtime!Streams -> Nat]
      /\ \A s \in Runtime!Streams : kept[s] <= taken[s]
  BY DEF RuntimeInv, Runtime!TypeOK, CodeFacts, Holding, Runtime!OutputTypes
<1>2. ASSUME NEW s \in Runtime!Streams PROVE kept[s] = runtimeWritten[s]
  <2>1. InOrder(s, queue, closed, reading, kept, taken)
    BY DEF RuntimeInv, KeptInOrder
  <2>2. kept[s] \in Nat /\ taken[s] \in Nat /\ s \in closed BY <1>1
  <2>3. kept[s] = taken[s]
    <3> SUFFICES ASSUME kept[s] < taken[s] PROVE FALSE
      BY <1>1, <2>2
    <3>1. PICK i \in 1 .. Len(queue) : Whose(queue)[i] = s
      BY <2>1, <2>2 DEF InOrder
    <3>2. QED BY <2>1, <2>2, <3>1 DEF InOrder
  <2>4. ~reading[s] BY <2>1, <2>2 DEF InOrder
  <2>5. QED BY <1>1, <2>3, <2>4 DEF RuntimeInv, ReadToTheEnd
<1>3. QED BY <1>1, <1>2

(* For every size of the pipes, every number of lines, and every set of lines *)
(* that do not decode: a reported code is the command's own, and a command   *)
(* that returned has had all its output kept.                                *)
THEOREM RuntimeStaysSafe == AllSpec => []RuntimeIsSafe
<1>1. Start => RuntimeInv
  BY RuntimeStarts DEF Start
<1>2. RuntimeInv /\ [SomeStep]_allVars => RuntimeInv'
  BY RuntimeProjects, NextRuntimeInv
<1>3. RuntimeInv => RuntimeIsSafe
  BY OutputIsComplete DEF RuntimeInv, RuntimeIsSafe, CodeFacts
<1>4. QED BY <1>1, <1>2, <1>3, PTL DEF AllSpec

(* What the promise of CommandRunner speaks of. *)
LEMMA ChildStepRefines ==
  ASSUME RuntimeInv, RuntimeInv', Runtime!ChildStep
  PROVE  [Runtime!Runner!RunnerNext]_(Runtime!Runner!runnerVars)
<1>0. UNCHANGED <<taken, reading, queue, runtimePc, timed, runtimeLate, kept,
                  closed, rc>>
  BY DEF Runtime!ChildStep, Runtime!Writes, Runtime!ClosesStream,
         Runtime!ChildStartsHelper, Runtime!ChildExits, Runtime!HelperExits,
         Runtime!readerVars, Runtime!callerVars
<1>1. /\ Runtime!OutputTypes /\ Runtime!ChildTypes /\ Holding
  BY DEF RuntimeInv, Runtime!TypeOK
<1>a. ASSUME NEW p \in {"child", "helper"}, NEW s \in Runtime!Streams,
             Runtime!Writes(p, s)
      PROVE  Runtime!Runner!Produce(s)
  <2>1. /\ p \in holders[s] /\ UNCHANGED <<child, holders>>
        /\ runtimeWritten' = [runtimeWritten EXCEPT ![s] = @ + 1]
    BY <1>a DEF Runtime!Writes
  <2>2. Runtime!Undecodable => Runtime!Undecodable'
    BY <1>1, <2>1, RuntimeConstants
    DEF Runtime!Undecodable, Runtime!OutputTypes, Runtime!RuntimeAssumption
  <2>3. runtimePc = "returned" => Runtime!Undecodable
    BY <1>1, <2>1 DEF RuntimeInv, ReadToTheEnd, CodeFacts, Holding, KeptInOrder, InOrder
  <2>4. UNCHANGED Runtime!Outcome
    BY <1>0, <2>2, <2>3 DEF Runtime!Outcome
  <2>5. QED BY <1>0, <2>1, <2>4 DEF Runtime!Runner!Produce
<1>b. ASSUME \/ Runtime!ChildStartsHelper \/ Runtime!ChildExits
             \/ Runtime!HelperExits
             \/ \E p \in {"child", "helper"}, s \in Runtime!Streams :
                  Runtime!ClosesStream(p, s)
      PROVE  Runtime!Runner!Wanes
  <2>1. /\ UNCHANGED runtimeWritten /\ child # "none" /\ child' # "none"
        /\ \A s \in Runtime!Streams : holders[s] = {} => holders'[s] = {}
        /\ child' = child \/ child' = "exited"
    BY <1>0, <1>1, <1>b
    DEF Runtime!ChildTypes, Holding, Runtime!ChildStartsHelper, Runtime!ChildExits,
        Runtime!HelperExits, Runtime!ClosesStream, Runtime!Without, Runtime!Runs
  <2>2. UNCHANGED Runtime!Outcome
    BY <1>0, <2>1 DEF Runtime!Outcome, Runtime!Undecodable
  <2>3. (child \in {"none", "running"})' \in {(child \in {"none", "running"}), FALSE}
    <3>1. CASE child' = child BY <3>1
    <3>2. CASE child' = "exited"
      <4>1. (child \in {"none", "running"})' = FALSE BY <3>2
      <4>2. QED BY <4>1, Zenon
    <3>3. QED BY <2>1, <3>1, <3>2
  <2>4. {s \in Runtime!Streams : child = "none" \/ holders[s] # {}}'
          \in SUBSET {s \in Runtime!Streams : child = "none" \/ holders[s] # {}}
    BY <2>1
  <2>5. QED BY <1>0, <2>1, <2>2, <2>3, <2>4, Zenon DEF Runtime!Runner!Wanes
<1>2. QED
  BY <1>a, <1>b DEF Runtime!ChildStep, Runtime!Runner!RunnerNext

LEMMA CallerStepRefines ==
  ASSUME RuntimeInv, RuntimeInv', Runtime!Next, ~Runtime!ChildStep
  PROVE  [Runtime!Runner!RunnerNext]_(Runtime!Runner!runnerVars)
<1>0. /\ Runtime!OutputTypes /\ Runtime!ChildTypes /\ Holding /\ CodeFacts
      /\ Runtime!CallerTypes
  BY DEF RuntimeInv, Runtime!TypeOK
<1>1. ASSUME UNCHANGED <<child, holders, runtimeWritten, runtimePc, kept>>
      PROVE  UNCHANGED Runtime!Runner!runnerVars
  BY <1>1 DEF Runtime!Runner!runnerVars, Runtime!Outcome, Runtime!Undecodable
<1>2. ASSUME UNCHANGED <<holders, runtimeWritten>>, child # "none", child' # "none",
             child \in {"none", "running"} <=> child' \in {"none", "running"}
      PROVE  UNCHANGED <<runtimeWritten,
                         {s \in Runtime!Streams : child = "none" \/ holders[s] # {}},
                         child \in {"none", "running"}, Runtime!Undecodable>>
  BY <1>2 DEF Runtime!Undecodable
<1>a. ASSUME NEW s \in Runtime!Streams, Runtime!ReaderStep(s)
      PROVE  UNCHANGED Runtime!Runner!runnerVars
  BY <1>1, <1>a DEF Runtime!ReaderStep, Runtime!ReadLine, Runtime!ReaderEnds,
     Runtime!childVars, Runtime!callerVars
<1>b. CASE Runtime!Launch
  <2>1. /\ Runtime!Outcome = "none" /\ UNCHANGED Runtime!Outcome
        /\ child = "none" /\ child' = "running" /\ UNCHANGED <<kept, runtimeWritten>>
        /\ \A s \in Runtime!Streams : holders'[s] # {}
    BY <1>0, <1>b DEF Runtime!Launch, Runtime!Outcome, Holding
  <2>2. QED BY <2>1 DEF Runtime!Runner!runnerVars
<1>c. CASE Runtime!LaunchFails \/ Runtime!Interrupted
  BY <1>c DEF Runtime!LaunchFails, Runtime!Interrupted, Runtime!Runner!RunnerNext,
     Runtime!Runner!GiveUp, Runtime!Outcome, Runtime!childVars
<1>d. CASE \/ Runtime!CheckOnTime \/ Runtime!DeadlinePassed \/ Runtime!GetTimesOut
           \/ Runtime!DeadlinePasses
  <2>1. /\ UNCHANGED <<child, holders, runtimeWritten, kept>>
        /\ UNCHANGED Runtime!Outcome
    BY <1>d DEF Runtime!CheckOnTime, Runtime!DeadlinePassed, Runtime!GetTimesOut,
       Runtime!DeadlinePasses, Runtime!childVars, Runtime!Outcome
  <2>2. QED BY <2>1 DEF Runtime!Runner!runnerVars
<1>e. CASE Runtime!GetItem
  <2>1. /\ UNCHANGED <<child, holders, runtimeWritten>>
        /\ Runtime!Outcome = "none" /\ UNCHANGED Runtime!Outcome
    BY <1>e DEF Runtime!GetItem, Runtime!childVars, Runtime!Outcome
  <2>2. CASE Head(queue)[2] = Runtime!End
    <3>1. UNCHANGED kept BY <1>e, <2>2 DEF Runtime!GetItem
    <3>2. QED BY <2>1, <3>1 DEF Runtime!Runner!runnerVars
  <2>3. CASE Head(queue)[2] # Runtime!End
    <3> DEFINE s == Head(queue)[1]
    <3>1. /\ s \in Runtime!Streams /\ kept' = [kept EXCEPT ![s] = @ + 1]
      BY <1>0, <1>e, <2>3, ViewTypes DEF Runtime!GetItem, Runtime!OutputTypes
    <3> HIDE DEF s
    <3>2. kept[s] < runtimeWritten[s]
      <4>1. kept'[s] <= taken'[s] /\ taken'[s] <= runtimeWritten[s] /\ kept'[s] = kept[s] + 1
        BY <1>0, <2>1, <3>1 DEF RuntimeInv, Runtime!TypeOK, Runtime!OutputTypes
      <4>2. kept[s] \in Nat /\ runtimeWritten[s] \in Nat /\ taken'[s] \in Nat
        BY <1>0, <3>1 DEF RuntimeInv, Runtime!TypeOK, Runtime!OutputTypes
      <4>3. QED BY <4>1, <4>2
    <3>3. Runtime!Runner!Deliver(s)
      BY <2>1, <3>1, <3>2 DEF Runtime!Runner!Deliver
    <3>4. QED BY <3>1, <3>3 DEF Runtime!Runner!RunnerNext
  <2>4. QED BY <2>2, <2>3
<1>f. CASE Runtime!ReportTimeout
  <2>1. /\ UNCHANGED <<holders, runtimeWritten, kept>> /\ child # "none"
        /\ child' # "none"
        /\ child \in {"none", "running"} <=> child' \in {"none", "running"}
        /\ Runtime!Outcome = "none" /\ Runtime!Outcome' = "gave_up"
    BY <1>f DEF Runtime!ReportTimeout, Runtime!Outcome
  <2>2. QED BY <1>2, <2>1 DEF Runtime!Runner!RunnerNext, Runtime!Runner!GiveUp
<1>g. CASE Runtime!PollContinues
  <2>1. /\ UNCHANGED <<holders, runtimeWritten, kept>> /\ child # "none"
        /\ child' # "none"
        /\ child \in {"none", "running"} <=> child' \in {"none", "running"}
        /\ UNCHANGED Runtime!Outcome
    BY <1>0, <1>g DEF Runtime!PollContinues, Runtime!Outcome, Runtime!Polled, Holding
  <2>2. QED BY <1>2, <2>1 DEF Runtime!Runner!runnerVars
<1>h. CASE Runtime!PollFinishes
  <2>1. /\ UNCHANGED <<holders, runtimeWritten, kept>> /\ child \notin {"none", "running"}
        /\ child' \notin {"none", "running"} /\ Runtime!Outcome = "none"
        /\ runtimePc' = "returned"
    BY <1>0, <1>h DEF Runtime!PollFinishes, Runtime!Outcome, Runtime!Polled,
       Runtime!Finished, Holding
  <2>2. CASE Runtime!Undecodable'
    <3>1. Runtime!Outcome' = "gave_up" BY <2>1, <2>2 DEF Runtime!Outcome
    <3>2. QED
      BY <1>2, <2>1, <3>1 DEF Runtime!Runner!RunnerNext, Runtime!Runner!GiveUp
  <2>3. CASE ~Runtime!Undecodable'
    <3>1. Runtime!Outcome' = "returned" BY <2>1, <2>3 DEF Runtime!Outcome
    <3>2. kept = runtimeWritten
      <4>1. Runtime!OutputComplete' BY OutputIsComplete, PTL
      <4>2. QED BY <2>1, <2>3, <4>1 DEF Runtime!OutputComplete
    <3>3. \A s \in Runtime!Streams : holders[s] = {}
      BY <2>1, <2>3
      DEF RuntimeInv, ReadToTheEnd, CodeFacts, KeptInOrder, InOrder, Runtime!TypeOK
    <3>4. QED
      BY <1>2, <2>1, <3>1, <3>2, <3>3 DEF Runtime!Runner!RunnerNext, Runtime!Runner!Return
  <2>4. QED BY <2>2, <2>3
<1>i. QED
  BY <1>a, <1>b, <1>c, <1>d, <1>e, <1>f, <1>g, <1>h
  DEF Runtime!Next, Runtime!CallerStep

(* A return of the runner is one that CommandRunner allows, whatever the    *)
(* command, its helper, the readers and the deadline do.                    *)
THEOREM RuntimeImplementsRunner == AllSpec => ImplementsRunner
<1>1. Start => RuntimeInv
  BY RuntimeStarts DEF Start
<1>2. RuntimeInv /\ [SomeStep]_allVars => RuntimeInv'
  BY RuntimeProjects, NextRuntimeInv
<1>3. Start => Runtime!Runner!RunnerInit
  BY DEF Start, Runtime!Init, Runtime!Runner!RunnerInit, Runtime!Outcome
<1>4. RuntimeInv /\ RuntimeInv' /\ [SomeStep]_allVars
        => [Runtime!Runner!RunnerNext]_(Runtime!Runner!runnerVars)
  <2> SUFFICES ASSUME RuntimeInv, RuntimeInv', [SomeStep]_allVars
               PROVE  [Runtime!Runner!RunnerNext]_(Runtime!Runner!runnerVars)
    OBVIOUS
  <2>1. CASE Runtime!Next
    BY <2>1, ChildStepRefines, CallerStepRefines
  <2>2. CASE UNCHANGED Runtime!vars
    BY <2>2 DEF Runtime!vars, Runtime!childVars, Runtime!callerVars,
       Runtime!Runner!runnerVars, Runtime!Outcome, Runtime!Undecodable
  <2>3. QED BY <2>1, <2>2, RuntimeProjects
<1>5. QED
  BY <1>1, <1>2, <1>3, <1>4, PTL
  DEF AllSpec, ImplementsRunner, Runtime!ImplementsRunner, Runtime!Runner!RunnerSpec

-----------------------------------------------------------------------------
(* The promotion of a result.                                               *)

LEMMA PromotionConstants == Promotion!RunsAssumption
BY InstancesAssumption

LEMMA PromotionProjects == [SomeStep]_allVars => [Promotion!Next]_(Promotion!vars)
<1> SUFFICES ASSUME [SomeStep]_allVars PROVE [Promotion!Next]_(Promotion!vars)
  OBVIOUS
<1> USE DEF promotionVars, Promotion!vars
<1>1. CASE PromotionStep BY <1>1 DEF PromotionStep
<1>2. CASE Rest /\ program # "promotion"
  BY <1>2 DEF Rest
<1>3. CASE UNCHANGED allVars BY <1>3 DEF allVars
<1>4. QED
  BY <1>1, <1>2, <1>3
  DEF SomeStep, ProbeStep, RuntimeStep, PreflightStep, ScoringStep, SetupStep,
      FramesStep, AtomStep, ServerStep, OfficialReferenceStep, CommandsStep,
      ProvenanceStep

Handler == {"clean", "rollback", "recover", "unlink", "decide"}
Active == {"execute", "write", "remove", "promote", "verify", "close"} \cup Handler

(* A run that has not begun has touched nothing, and the current one not    *)
(* before its staging directory is made.                                    *)
NotYet ==
  \A r \in Promotion!Runs :
    r > promotionRun \/ (r = promotionRun /\ promotionPc \in {"begin", "execute"})
      => place[r] = "none" /\ content[r] = Promotion!Empty

(* What each place of the program knows of the staging directory.           *)
MarksHold ==
  /\ promotionPc \in {"begin", "execute"} => ~named /\ ~promoted
  /\ promotionPc \in {"write", "remove", "promote"} =>
       named /\ ~promoted /\ place[promotionRun] = "staging"
  /\ promotionPc \in {"verify", "close"} => named /\ promoted /\ out = promotionRun
  /\ promotionPc \in {"clean", "rollback"} /\ promoted => named /\ out = promotionRun
  /\ promotionPc \in {"begin"} \cup (Active \ {"recover"}) => safe
  /\ promotionPc = "close" => content[promotionRun] = Promotion!Whole
  /\ promotionPc \in Active => content[promotionRun]["decision"] # "failure"
  /\ promotionPc = "promote" => out = Promotion!Absent

(* The output belongs to the run, or is an empty directory of somebody else *)
(* that it may use, or its promoted one that could not be taken back.       *)
OutputIsOurs ==
  /\ promotionPc \in Active /\ ~promoted =>
       out = Promotion!Absent \/ (out # promotionRun /\ content[out] = Promotion!Empty)
  /\ promotionPc = "recover" /\ promoted /\ safe => out = Promotion!Absent
  /\ promotionPc \in {"unlink", "decide"} =>
       out # Promotion!Absent /\ out # promotionRun /\ content[out] = Promotion!Empty

(* What is left behind without an error that says so.                       *)
NothingLeft ==
  /\ ~safe => dirty
  /\ promotionPc \in {"clean", "rollback"} /\ ~named /\ ~dirty =>
       place[promotionRun] # "staging"
  /\ promotionPc \in {"recover", "unlink", "decide", "raised"} /\ ~dirty =>
       place[promotionRun] # "staging"
  /\ promotionPc = "raised" /\ ~dirty =>
       out # Promotion!Absent /\ content[out] = Promotion!Failure

(* An acknowledged result stays, and a withdrawn one does not come back.     *)
ResultsStay ==
  /\ \A r \in returned : out = r /\ content[r] = Promotion!Whole
  /\ promotionPc \in Active => returned = {}
  /\ \A r \in withdrawn : place[r] = "gone"

PromotionInv ==
  /\ Promotion!TypeOK /\ Promotion!NeverBoth
  /\ NotYet /\ MarksHold /\ OutputIsOurs /\ NothingLeft /\ ResultsStay

(* The three contents that matter, name by name. *)
LEMMA Contents ==
  ASSUME NEW f \in [Promotion!Artifacts -> {"none", "success", "partial", "failure"}]
  PROVE  /\ f = Promotion!Empty <=> \A a \in Promotion!Artifacts : f[a] = "none"
         /\ f = Promotion!Whole <=> \A a \in Promotion!Artifacts : f[a] = "success"
         /\ f = Promotion!Failure <=>
              \A a \in Promotion!Artifacts :
                f[a] = IF a = "decision" THEN "failure" ELSE "none"
<1>1. f = Promotion!Empty <=> \A a \in Promotion!Artifacts : f[a] = "none"
  BY DEF Promotion!Empty
<1>2. f = Promotion!Whole <=> \A a \in Promotion!Artifacts : f[a] = "success"
  BY DEF Promotion!Whole
<1>3. Promotion!Failure = [a \in Promotion!Artifacts |->
                             IF a = "decision" THEN "failure" ELSE "none"]
  BY DEF Promotion!Failure, Promotion!Empty, Promotion!Artifacts
<1>4. f = Promotion!Failure <=>
        \A a \in Promotion!Artifacts : f[a] = IF a = "decision" THEN "failure" ELSE "none"
  BY <1>3
<1>5. QED BY <1>1, <1>2, <1>4

LEMMA PromotionStarts == Promotion!Init => PromotionInv
<1> SUFFICES ASSUME Promotion!Init PROVE PromotionInv
  OBVIOUS
<1> USE PromotionConstants
    DEF Promotion!Init, Promotion!RunsAssumption, Promotion!Runs, Promotion!Plain,
        Promotion!Absent, Promotion!Artifacts
<1>1. Promotion!Empty \in [Promotion!Artifacts -> {"none", "success", "partial", "failure"}]
      /\ Promotion!Empty["decision"] = "none"
  BY DEF Promotion!Empty
<1>2. Promotion!TypeOK
  <2>1. content \in [{Promotion!Plain} \cup Promotion!Runs ->
                       [Promotion!Artifacts -> {"none", "success", "partial", "failure"}]]
    BY <1>1
  <2>2. /\ place \in [Promotion!Runs -> {"none", "staging", "output", "gone"}]
        /\ \A r \in Promotion!Runs : place[r] = "output" <=> out = r
    OBVIOUS
  <2>3. promotionRun \in Promotion!Runs
    OBVIOUS
  <2>4. QED BY <2>1, <2>2, <2>3, Zenon DEF Promotion!TypeOK, Promotion!Ended
<1>3. Promotion!NeverBoth /\ NotYet /\ ResultsStay
  BY <1>1 DEF Promotion!NeverBoth, NotYet, ResultsStay, Active, Handler
<1>4. MarksHold /\ OutputIsOurs /\ NothingLeft
  BY DEF MarksHold, OutputIsOurs, NothingLeft, Active, Handler
<1>5. QED BY <1>2, <1>3, <1>4 DEF PromotionInv

(* Steps that leave the disk alone. *)
LEMMA QuietPromotion ==
  ASSUME PromotionInv,
         \/ Promotion!Refuse \/ Promotion!Readback \/ Promotion!Verify
         \/ Promotion!VerifyRaises \/ Promotion!Return \/ Promotion!Raises
         \/ Promotion!DescriptorDone \/ Promotion!NothingOwned
         \/ Promotion!RollbackRaises \/ Promotion!KeepOutput \/ Promotion!LeaveOutput
         \/ Promotion!HandlerRaises \/ Promotion!Kill \/ Promotion!NextRun
  PROVE  PromotionInv'
<1> USE PromotionConstants
    DEF Promotion!RunsAssumption, Promotion!Runs, Promotion!Plain, Promotion!Absent
<1>1. /\ Promotion!TypeOK /\ Promotion!NeverBoth /\ NotYet /\ MarksHold
      /\ OutputIsOurs /\ NothingLeft /\ ResultsStay
  BY DEF PromotionInv
<1> USE DEF Promotion!Refuse, Promotion!Readback, Promotion!Verify,
      Promotion!VerifyRaises, Promotion!Return, Promotion!Raises,
      Promotion!DescriptorDone, Promotion!NothingOwned, Promotion!RollbackRaises,
      Promotion!KeepOutput, Promotion!LeaveOutput, Promotion!HandlerRaises,
      Promotion!Kill, Promotion!NextRun, Promotion!disk, Promotion!marks,
      Promotion!ends, Promotion!Ended, Active, Handler
<1>2. UNCHANGED <<out, place, content, withdrawn>>
  OBVIOUS
<1>3. Promotion!TypeOK'
  <2>1. promotionRun' \in Promotion!Runs
    BY <1>1 DEF Promotion!TypeOK
  <2>2. promotionPc' \in Promotion!Ended \cup
           {"begin", "execute", "write", "remove", "promote", "verify", "close",
            "clean", "rollback", "recover", "unlink", "decide"}
    BY <1>1 DEF Promotion!TypeOK
  <2>3. /\ fd' \in BOOLEAN /\ named' \in BOOLEAN /\ promoted' \in BOOLEAN
        /\ safe' \in BOOLEAN /\ dirty' \in BOOLEAN /\ returned' \subseteq Promotion!Runs
    BY <1>1 DEF Promotion!TypeOK
  <2>4. QED BY <1>1, <1>2, <2>1, <2>2, <2>3 DEF Promotion!TypeOK
<1>4. Promotion!NeverBoth' BY <1>1, <1>2 DEF Promotion!NeverBoth
<1>5. NotYet' BY <1>1, <1>2 DEF NotYet, Promotion!TypeOK
<1>6. MarksHold'
  <2>1. CASE \/ Promotion!Readback \/ Promotion!Verify \/ Promotion!VerifyRaises
             \/ Promotion!Raises
    BY <1>1, <1>2, <2>1 DEF MarksHold, NotYet, Promotion!Verified, Promotion!TypeOK
  <2>2. CASE \/ Promotion!DescriptorDone \/ Promotion!NothingOwned
             \/ Promotion!RollbackRaises \/ Promotion!KeepOutput \/ Promotion!LeaveOutput
    BY <1>1, <1>2, <2>2 DEF MarksHold, Promotion!TypeOK
  <2>3. CASE \/ Promotion!Refuse \/ Promotion!Return \/ Promotion!HandlerRaises
             \/ Promotion!Kill
    BY <1>1, <1>2, <2>3 DEF MarksHold, Promotion!TypeOK
  <2>4. CASE Promotion!NextRun
    BY <1>1, <1>2, <2>4 DEF MarksHold, Promotion!TypeOK
  <2>5. QED BY <2>1, <2>2, <2>3, <2>4
<1>7. OutputIsOurs'
  <2>1. CASE \/ Promotion!Readback \/ Promotion!Verify \/ Promotion!VerifyRaises
             \/ Promotion!Raises \/ Promotion!DescriptorDone
    BY <1>1, <1>2, <2>1 DEF OutputIsOurs
  <2>0. CASE Promotion!NothingOwned \/ Promotion!RollbackRaises
    <3>1. /\ promotionPc = "rollback" /\ promotionPc' = "recover"
          /\ UNCHANGED <<promoted, promotionRun>>
          /\ safe' => ~named \/ ~promoted
      BY <2>0
    <3>2. ~(safe' /\ promoted') BY <1>1, <3>1 DEF MarksHold
    <3>3. QED BY <1>1, <1>2, <3>1, <3>2 DEF OutputIsOurs
  <2>2. CASE Promotion!KeepOutput
    BY <1>1, <1>2, <2>2 DEF OutputIsOurs
  <2>3. CASE \/ Promotion!Refuse \/ Promotion!Return \/ Promotion!HandlerRaises
             \/ Promotion!Kill \/ Promotion!NextRun \/ Promotion!LeaveOutput
    BY <1>1, <1>2, <2>3 DEF OutputIsOurs, MarksHold, Promotion!TypeOK
  <2>4. QED BY <2>0, <2>1, <2>2, <2>3
<1>8. NothingLeft' BY <1>1, <1>2 DEF NothingLeft, MarksHold, Promotion!TypeOK, NotYet
<1>9. ResultsStay' BY <1>1, <1>2 DEF ResultsStay, Promotion!Verified, MarksHold
<1>10. QED
  BY <1>3, <1>4, <1>5, <1>6, <1>7, <1>8, <1>9 DEF PromotionInv

(* What writing or removing one artifact of a directory does. *)
LEMMA PutOne ==
  ASSUME Promotion!TypeOK, NEW d \in {Promotion!Plain} \cup Promotion!Runs,
         NEW a \in Promotion!Artifacts, NEW v \in {"none", "success", "partial", "failure"},
         Promotion!Put(d, a, v)
  PROVE  /\ content' \in [{Promotion!Plain} \cup Promotion!Runs ->
                 [Promotion!Artifacts -> {"none", "success", "partial", "failure"}]]
         /\ \A e \in {Promotion!Plain} \cup Promotion!Runs : e # d => content'[e] = content[e]
         /\ \A b \in Promotion!Artifacts :
              content'[d][b] = IF b = a THEN v ELSE content[d][b]
<1>1. content \in [{Promotion!Plain} \cup Promotion!Runs ->
                 [Promotion!Artifacts -> {"none", "success", "partial", "failure"}]]
  BY DEF Promotion!TypeOK
<1>2. content' = [content EXCEPT ![d] = [content[d] EXCEPT ![a] = v]]
  BY DEF Promotion!Put
<1>3. [content[d] EXCEPT ![a] = v]
        \in [Promotion!Artifacts -> {"none", "success", "partial", "failure"}]
  BY <1>1
<1>4. QED BY <1>1, <1>2, <1>3

(* Artifacts are written, and removed, in a fixed order. *)
LEMMA FirstIsOne ==
  ASSUME NEW S \in SUBSET Promotion!Artifacts, S # {}
  PROVE  Promotion!First(S) \in S
<1>1. \E i \in 1 .. 3 : Promotion!Order[i] \in S
                        /\ \A j \in 1 .. i - 1 : Promotion!Order[j] \notin S
  <2>1. CASE "record" \in S
    BY <2>1 DEF Promotion!Order
  <2>2. CASE "record" \notin S /\ "decision" \in S
    <3>1. \A j \in 1 .. 2 - 1 : j = 1 OBVIOUS
    <3>2. QED BY <2>2, <3>1 DEF Promotion!Order
  <2>3. CASE "record" \notin S /\ "decision" \notin S /\ "manifest" \in S
    <3>1. \A j \in 1 .. 3 - 1 : j = 1 \/ j = 2 OBVIOUS
    <3>2. QED BY <2>3, <3>1 DEF Promotion!Order
  <2>4. QED BY <2>1, <2>2, <2>3 DEF Promotion!Artifacts
<1>2. QED BY <1>1 DEF Promotion!First

(* The run writes into its staging directory, or removes what it wrote,     *)
(* there or in the output it has become.                                    *)
LEMMA OwnDirectory ==
  ASSUME PromotionInv,
         promotionPc \in {"write", "clean", "rollback"},
         promotionPc' \in {promotionPc, "clean"},
         NEW a \in Promotion!Artifacts, NEW v \in {"none", "success", "partial"},
         Promotion!Put(promotionRun, a, v),
         UNCHANGED <<promotionRun, out, place, fd, named, promoted, safe, dirty,
                     returned, withdrawn>>,
         promotionPc' # promotionPc => promotionPc = "write"
  PROVE  PromotionInv'
<1>1. /\ Promotion!TypeOK /\ Promotion!NeverBoth /\ NotYet /\ MarksHold
      /\ OutputIsOurs /\ NothingLeft /\ ResultsStay
  BY DEF PromotionInv
<1>2. promotionRun \in Promotion!Runs /\ "decision" \in Promotion!Artifacts
  BY <1>1 DEF Promotion!TypeOK, Promotion!Artifacts
<1>3. /\ content' \in [{Promotion!Plain} \cup Promotion!Runs ->
              [Promotion!Artifacts -> {"none", "success", "partial", "failure"}]]
      /\ \A e \in {Promotion!Plain} \cup Promotion!Runs :
           e # promotionRun => content'[e] = content[e]
      /\ \A b \in Promotion!Artifacts :
           content'[promotionRun][b] = IF b = a THEN v ELSE content[promotionRun][b]
  <2>1. /\ promotionRun \in {Promotion!Plain} \cup Promotion!Runs
        /\ v \in {"none", "success", "partial", "failure"}
    BY <1>2
  <2>2. QED BY <1>1, <2>1, PutOne
<1> USE PromotionConstants
    DEF Promotion!RunsAssumption, Promotion!Runs, Promotion!Plain, Promotion!Absent,
        Active, Handler
<1>4. Promotion!TypeOK'
  BY <1>1, <1>3 DEF Promotion!TypeOK, Promotion!Ended
<1>5. content'[promotionRun]["decision"] # "failure"
  BY <1>1, <1>2, <1>3 DEF MarksHold
<1>6. Promotion!NeverBoth'
  BY <1>1, <1>3, <1>5 DEF Promotion!NeverBoth
<1>7. NotYet' BY <1>1, <1>2, <1>3 DEF NotYet
<1>8. MarksHold' BY <1>1, <1>5 DEF MarksHold
<1>9. OutputIsOurs' BY <1>1, <1>2, <1>3 DEF OutputIsOurs, Promotion!TypeOK
<1>10. NothingLeft' BY <1>1, <1>2, <1>3 DEF NothingLeft, MarksHold
<1>11. ResultsStay' BY <1>1 DEF ResultsStay
<1>12. QED
  BY <1>4, <1>6, <1>7, <1>8, <1>9, <1>10, <1>11 DEF PromotionInv

LEMMA WritesAndRemovals ==
  ASSUME PromotionInv,
         \/ Promotion!WriteArtifact \/ Promotion!WriteRaises
         \/ Promotion!CleanByDescriptor \/ Promotion!RemoveChild
  PROVE  PromotionInv'
<1> USE DEF Promotion!disk, Promotion!marks, Promotion!ends
<1>1. CASE Promotion!WriteArtifact
  <2>1. Promotion!First(Promotion!Unwritten) \in Promotion!Artifacts
    BY <1>1, FirstIsOne DEF Promotion!WriteArtifact, Promotion!Unwritten
  <2>2. QED BY <1>1, <2>1, OwnDirectory DEF Promotion!WriteArtifact
<1>2. CASE Promotion!WriteRaises
  <2>1. Promotion!First(Promotion!Unwritten) \in Promotion!Artifacts
    BY <1>2, FirstIsOne DEF Promotion!WriteRaises, Promotion!Unwritten
  <2>2. PICK v \in {"none", "partial"} :
          Promotion!Put(promotionRun, Promotion!First(Promotion!Unwritten), v)
    BY <1>2 DEF Promotion!WriteRaises
  <2>3. QED BY <1>2, <2>1, <2>2, OwnDirectory DEF Promotion!WriteRaises
<1>3. CASE Promotion!CleanByDescriptor
  <2>1. Promotion!First(Promotion!Held(promotionRun)) \in Promotion!Artifacts
    BY <1>3, FirstIsOne DEF Promotion!CleanByDescriptor, Promotion!Held
  <2>2. QED BY <1>3, <2>1, OwnDirectory DEF Promotion!CleanByDescriptor
<1>4. CASE Promotion!RemoveChild
  <2>1. PICK a \in Promotion!Held(promotionRun) : Promotion!Put(promotionRun, a, "none")
    BY <1>4 DEF Promotion!RemoveChild
  <2>2. a \in Promotion!Artifacts BY DEF Promotion!Held
  <2>3. QED BY <1>4, <2>1, <2>2, OwnDirectory DEF Promotion!RemoveChild
<1>5. QED BY <1>1, <1>2, <1>3, <1>4

(* The steps that make, move or remove a directory. *)
LEMMA DirectorySteps ==
  ASSUME PromotionInv,
         \/ Promotion!CreateStaging \/ Promotion!CreateStagingFails
         \/ Promotion!RemoveOutput \/ Promotion!RemoveOwned
  PROVE  PromotionInv'
<1> USE PromotionConstants
    DEF Promotion!RunsAssumption, Promotion!Runs, Promotion!Plain, Promotion!Absent,
        Active, Handler
<1>1. /\ Promotion!TypeOK /\ Promotion!NeverBoth /\ NotYet /\ MarksHold
      /\ OutputIsOurs /\ NothingLeft /\ ResultsStay
  BY DEF PromotionInv
<1>2. /\ promotionRun \in Promotion!Runs /\ Promotion!Empty["decision"] = "none"
      /\ place \in [Promotion!Runs -> {"none", "staging", "output", "gone"}]
      /\ \A r \in Promotion!Runs : place[r] = "output" <=> out = r
      /\ out \in {Promotion!Plain, Promotion!Absent} \cup Promotion!Runs
      /\ withdrawn \subseteq Promotion!Runs
  BY <1>1 DEF Promotion!TypeOK, Promotion!Artifacts, Promotion!Empty
<1>a. CASE Promotion!CreateStaging \/ Promotion!CreateStagingFails
  <2>1. /\ promotionPc = "execute" /\ UNCHANGED <<promotionRun, out, content, promoted>>
        /\ UNCHANGED <<safe, returned, withdrawn>>
        /\ \/ place' = place \/ place' = [place EXCEPT ![promotionRun] = "staging"]
        /\ \/ promotionPc' = "clean" /\ UNCHANGED <<named, fd>>
              /\ dirty' \in BOOLEAN /\ (dirty' \/ place' = place)
           \/ promotionPc' = "write" /\ named' = TRUE /\ fd' = TRUE /\ dirty' = dirty
              /\ place' = [place EXCEPT ![promotionRun] = "staging"]
    <3>1. CASE Promotion!CreateStaging
      BY <3>1 DEF Promotion!CreateStaging, Promotion!ends
    <3>2. CASE Promotion!CreateStagingFails
      <4>1. place[promotionRun] = "none" BY <1>1, <1>2, <3>2 DEF NotYet, Promotion!CreateStagingFails
      <4>2. [place EXCEPT ![promotionRun] = "staging"] # place BY <1>2, <4>1
      <4>3. QED
        BY <3>2, <4>2
        DEF Promotion!CreateStagingFails, Promotion!ends, Promotion!marks
    <3>3. QED BY <1>a, <3>1, <3>2
  <2>2. /\ place[promotionRun] = "none" /\ content[promotionRun] = Promotion!Empty
        /\ out # promotionRun /\ ~named /\ ~promoted
        /\ \A r \in Promotion!Runs : r # promotionRun => place'[r] = place[r]
        /\ place'[promotionRun] \in {"none", "staging"}
        /\ place' \in [Promotion!Runs -> {"none", "staging", "output", "gone"}]
    BY <1>1, <1>2, <2>1 DEF NotYet, MarksHold
  <2>3. Promotion!TypeOK'
    BY <1>1, <1>2, <2>1, <2>2 DEF Promotion!TypeOK, Promotion!Ended
  <2>4. Promotion!NeverBoth' BY <1>1, <2>1 DEF Promotion!NeverBoth
  <2>5. NotYet' BY <1>1, <1>2, <2>1, <2>2 DEF NotYet
  <2>6. MarksHold' BY <1>1, <1>2, <2>1, <2>2 DEF MarksHold
  <2>7. OutputIsOurs' BY <1>1, <2>1, <2>2 DEF OutputIsOurs
  <2>8. NothingLeft' BY <1>1, <1>2, <2>1, <2>2 DEF NothingLeft, MarksHold
  <2>9. ResultsStay' BY <1>1, <1>2, <2>1, <2>2 DEF ResultsStay
  <2>10. QED
    BY <2>3, <2>4, <2>5, <2>6, <2>7, <2>8, <2>9 DEF PromotionInv
<1>b. CASE Promotion!RemoveOutput
  <2>1. /\ promotionPc = "remove" /\ promotionPc' = "promote"
        /\ out # Promotion!Absent /\ out' = Promotion!Absent
        /\ place' = [r \in Promotion!Runs |-> IF r = out THEN "gone" ELSE place[r]]
        /\ withdrawn' = withdrawn \cup ({out} \cap Promotion!Runs)
        /\ UNCHANGED <<promotionRun, content, fd, named, promoted, safe, dirty, returned>>
    BY <1>b DEF Promotion!RemoveOutput, Promotion!marks
  <2>2. /\ out # promotionRun /\ place[promotionRun] = "staging"
        /\ place' \in [Promotion!Runs -> {"none", "staging", "output", "gone"}]
        /\ \A r \in Promotion!Runs : place'[r] = IF r = out THEN "gone" ELSE place[r]
        /\ withdrawn' \subseteq Promotion!Runs
    BY <1>1, <1>2, <2>1 DEF MarksHold
  <2>3. Promotion!TypeOK'
    BY <1>1, <1>2, <2>1, <2>2 DEF Promotion!TypeOK, Promotion!Ended
  <2>4. Promotion!NeverBoth' BY <1>1, <2>1 DEF Promotion!NeverBoth
  <2>5. NotYet' BY <1>1, <1>2, <2>1, <2>2 DEF NotYet
  <2>6. MarksHold' BY <1>1, <1>2, <2>1, <2>2 DEF MarksHold
  <2>7. OutputIsOurs' BY <1>1, <2>1, <2>2 DEF OutputIsOurs, MarksHold
  <2>8. NothingLeft' BY <1>1, <2>1, <2>2 DEF NothingLeft
  <2>9. ResultsStay' BY <1>1, <1>2, <2>1, <2>2 DEF ResultsStay
  <2>10. QED
    BY <2>3, <2>4, <2>5, <2>6, <2>7, <2>8, <2>9 DEF PromotionInv
<1>c. CASE Promotion!RemoveOwned
  <2>1. /\ promotionPc = "rollback" /\ promotionPc' = "recover" /\ named
        /\ place' = [place EXCEPT ![promotionRun] = "gone"]
        /\ out' = IF promoted THEN Promotion!Absent ELSE out
        /\ withdrawn' = IF promoted THEN withdrawn \cup {promotionRun} ELSE withdrawn
        /\ UNCHANGED <<promotionRun, content, fd, named, promoted, safe, dirty, returned>>
    BY <1>c DEF Promotion!RemoveOwned, Promotion!marks
  <2>2. /\ promoted => out = promotionRun
        /\ place' \in [Promotion!Runs -> {"none", "staging", "output", "gone"}]
        /\ \A r \in Promotion!Runs :
             place'[r] = IF r = promotionRun THEN "gone" ELSE place[r]
        /\ withdrawn' \subseteq Promotion!Runs /\ returned = {}
        /\ ~promoted => out # promotionRun
    <3>1. promoted => out = promotionRun BY <1>1, <2>1 DEF MarksHold
    <3>2. returned = {} BY <1>1, <2>1 DEF ResultsStay
    <3>3. ~promoted => out # promotionRun BY <1>1, <1>2, <2>1 DEF OutputIsOurs
    <3>4. QED BY <1>2, <2>1, <3>1, <3>2, <3>3
  <2>3. Promotion!TypeOK'
    BY <1>1, <1>2, <2>1, <2>2 DEF Promotion!TypeOK, Promotion!Ended
  <2>4. Promotion!NeverBoth' BY <1>1, <2>1 DEF Promotion!NeverBoth
  <2>5. NotYet' BY <1>1, <1>2, <2>1, <2>2 DEF NotYet
  <2>6. MarksHold' BY <1>1, <1>2, <2>1, <2>2 DEF MarksHold
  <2>7. OutputIsOurs' BY <1>1, <2>1, <2>2 DEF OutputIsOurs, MarksHold
  <2>8. NothingLeft' BY <1>1, <1>2, <2>1, <2>2 DEF NothingLeft
  <2>9. ResultsStay' BY <1>1, <1>2, <2>1, <2>2 DEF ResultsStay
  <2>10. QED
    BY <2>3, <2>4, <2>5, <2>6, <2>7, <2>8, <2>9 DEF PromotionInv
<1>d. QED BY <1>a, <1>b, <1>c

(* The steps that work on what is at the output path. *)
LEMMA OutputSteps ==
  ASSUME PromotionInv,
         \/ Promotion!Begin \/ Promotion!MakeOutput \/ Promotion!Unlink
         \/ Promotion!WriteFailure \/ Promotion!Promote
  PROVE  PromotionInv'
<1> USE PromotionConstants
    DEF Promotion!RunsAssumption, Promotion!Runs, Promotion!Plain, Promotion!Absent,
        Active, Handler
<1>1. /\ Promotion!TypeOK /\ Promotion!NeverBoth /\ NotYet /\ MarksHold
      /\ OutputIsOurs /\ NothingLeft /\ ResultsStay
  BY DEF PromotionInv
<1>2. /\ promotionRun \in Promotion!Runs /\ Promotion!Empty["decision"] = "none"
      /\ place \in [Promotion!Runs -> {"none", "staging", "output", "gone"}]
      /\ \A r \in Promotion!Runs : place[r] = "output" <=> out = r
      /\ out \in {Promotion!Plain, Promotion!Absent} \cup Promotion!Runs
      /\ "decision" \in Promotion!Artifacts
      /\ content \in [{Promotion!Plain} \cup Promotion!Runs ->
              [Promotion!Artifacts -> {"none", "success", "partial", "failure"}]]
      /\ Promotion!Empty \in [Promotion!Artifacts -> {"none", "success", "partial", "failure"}]
      /\ Promotion!Whole # Promotion!Empty
  BY <1>1 DEF Promotion!TypeOK, Promotion!Artifacts, Promotion!Empty, Promotion!Whole
<1>a. CASE Promotion!Begin \/ Promotion!MakeOutput
  <2>1. /\ \/ /\ promotionPc = "begin" /\ promotionPc' = "execute" /\ fd' = fd
              /\ Promotion!OutputEmpty
           \/ /\ promotionPc = "recover" /\ promotionPc' = "unlink" /\ fd' = FALSE
              /\ out = Promotion!Absent /\ safe
        /\ \/ out = Promotion!Absent /\ out' = Promotion!Plain
              /\ content' = [content EXCEPT ![Promotion!Plain] = Promotion!Empty]
           \/ out # Promotion!Absent /\ out' = out /\ content' = content
        /\ UNCHANGED <<promotionRun, place, named, promoted, safe, dirty, returned, withdrawn>>
    BY <1>a DEF Promotion!Begin, Promotion!Refuses, Promotion!MakeOutput, Promotion!marks,
       Promotion!ends
  <2>2. /\ content' \in [{Promotion!Plain} \cup Promotion!Runs ->
              [Promotion!Artifacts -> {"none", "success", "partial", "failure"}]]
        /\ \A r \in Promotion!Runs : content'[r] = content[r]
        /\ content'[Promotion!Plain] \in {content[Promotion!Plain], Promotion!Empty}
        /\ out' # Promotion!Absent /\ content'[out'] = Promotion!Empty
        /\ \A r \in Promotion!Runs : out' = r <=> out = r
        /\ out' \in {Promotion!Plain, Promotion!Absent} \cup Promotion!Runs
    BY <1>2, <2>1 DEF Promotion!OutputEmpty
  <2>3. Promotion!TypeOK'
    BY <1>1, <2>1, <2>2 DEF Promotion!TypeOK, Promotion!Ended
  <2>4. Promotion!NeverBoth' BY <1>1, <1>2, <2>2 DEF Promotion!NeverBoth
  <2>5. NotYet' BY <1>1, <2>1, <2>2 DEF NotYet
  <2>6. returned = {}
    BY <1>1, <1>2, <2>1, <2>2 DEF ResultsStay, Promotion!TypeOK
  <2>7. place[promotionRun] = "none" \/ promotionPc = "recover"
    BY <1>1, <1>2, <2>1 DEF NotYet
  <2>8. out' # promotionRun
    BY <1>2, <2>1, <2>7
  <2>9. MarksHold'
    <3>1. CASE promotionPc = "begin"
      <4>1. content[promotionRun] = Promotion!Empty BY <1>1, <1>2, <3>1 DEF NotYet
      <4>2. QED BY <1>1, <1>2, <2>1, <2>2, <3>1, <4>1 DEF MarksHold
    <3>2. CASE promotionPc = "recover"
      BY <1>1, <1>2, <2>1, <2>2, <3>2 DEF MarksHold
    <3>3. QED BY <2>1, <3>1, <3>2
  <2>10. OutputIsOurs' BY <1>1, <2>1, <2>2, <2>8 DEF OutputIsOurs
  <2>11. NothingLeft' BY <1>1, <2>1 DEF NothingLeft
  <2>12. ResultsStay' BY <1>1, <2>1, <2>6 DEF ResultsStay
  <2>13. QED
    BY <2>3, <2>4, <2>5, <2>9, <2>10, <2>11, <2>12 DEF PromotionInv
<1>b. CASE Promotion!Unlink
  <2>1. /\ promotionPc = "unlink" /\ promotionPc' = "decide"
        /\ out \in {Promotion!Plain} \cup Promotion!Runs
        /\ content[out] = Promotion!Empty
        /\ UNCHANGED <<promotionRun, out, place, fd, named, promoted, safe, returned,
                       withdrawn>>
    BY <1>1, <1>2, <1>b DEF Promotion!Unlink, OutputIsOurs, Promotion!marks, Promotion!ends
  <2>2. PICK stuck \in SUBSET Promotion!Held(out) :
          /\ content' = [content EXCEPT ![out] =
               [a \in Promotion!Artifacts |-> IF a \in stuck THEN @[a] ELSE "none"]]
          /\ dirty' = (dirty \/ stuck # {})
    BY <1>b DEF Promotion!Unlink
  <2>3. stuck = {}
    BY <2>1 DEF Promotion!Held, Promotion!Empty
  <2>4. content' = content
    <3>1. content' = [content EXCEPT ![out] = Promotion!Empty]
      BY <2>2, <2>3 DEF Promotion!Empty
    <3>2. QED BY <1>2, <2>1, <3>1
  <2>5. dirty' = dirty
    BY <1>1, <2>2, <2>3 DEF Promotion!TypeOK
  <2>6. Promotion!TypeOK' /\ Promotion!NeverBoth' /\ NotYet' /\ ResultsStay'
    BY <1>1, <2>1, <2>4, <2>5
    DEF Promotion!TypeOK, Promotion!Ended, Promotion!NeverBoth, NotYet, ResultsStay
  <2>7. MarksHold' /\ OutputIsOurs' /\ NothingLeft'
    BY <1>1, <2>1, <2>4, <2>5 DEF MarksHold, OutputIsOurs, NothingLeft
  <2>8. QED BY <2>6, <2>7 DEF PromotionInv
<1>c. CASE Promotion!WriteFailure
  <2>1. /\ promotionPc = "decide" /\ promotionPc' = "raised"
        /\ out \in {Promotion!Plain} \cup Promotion!Runs /\ out # promotionRun
        /\ content[out] = Promotion!Empty /\ Promotion!Put(out, "decision", "failure")
        /\ UNCHANGED <<promotionRun, out, place, fd, named, promoted, safe, dirty,
                       returned, withdrawn>>
    BY <1>1, <1>2, <1>c
    DEF Promotion!WriteFailure, OutputIsOurs, Promotion!marks, Promotion!ends
  <2>2. /\ content'[out] = Promotion!Failure
        /\ \A e \in {Promotion!Plain} \cup Promotion!Runs : e # out => content'[e] = content[e]
        /\ content' \in [{Promotion!Plain} \cup Promotion!Runs ->
              [Promotion!Artifacts -> {"none", "success", "partial", "failure"}]]
    <3>1. content' = [content EXCEPT ![out] = Promotion!Failure]
      BY <2>1 DEF Promotion!Put, Promotion!Failure
    <3>2. Promotion!Failure \in [Promotion!Artifacts -> {"none", "success", "partial", "failure"}]
      BY <1>2 DEF Promotion!Failure
    <3>3. QED BY <1>2, <2>1, <3>1, <3>2
  <2>3. returned = {} BY <1>1, <2>1 DEF ResultsStay
  <2>4. Promotion!TypeOK'
    BY <1>1, <2>1, <2>2 DEF Promotion!TypeOK, Promotion!Ended
  <2>5. Promotion!NeverBoth' BY <1>1, <2>1, <2>2 DEF Promotion!NeverBoth
  <2>6. NotYet'
    <3>1. \A r \in Promotion!Runs : r > promotionRun => out # r
      BY <1>1, <1>2 DEF NotYet
    <3>2. QED BY <1>1, <2>1, <2>2, <3>1 DEF NotYet
  <2>7. MarksHold' /\ OutputIsOurs' BY <2>1 DEF MarksHold, OutputIsOurs
  <2>8. NothingLeft' BY <1>1, <2>1, <2>2 DEF NothingLeft
  <2>9. ResultsStay' BY <1>1, <2>1, <2>3 DEF ResultsStay
  <2>10. QED
    BY <2>4, <2>5, <2>6, <2>7, <2>8, <2>9 DEF PromotionInv
<1>d. CASE Promotion!Promote
  <2>1. /\ promotionPc = "promote" /\ promotionPc' = "verify"
        /\ out = Promotion!Absent /\ out' = promotionRun /\ named /\ promoted' = TRUE
        /\ place' = [place EXCEPT ![promotionRun] = "output"]
        /\ UNCHANGED <<promotionRun, fd, named, safe, dirty, returned, withdrawn>>
        /\ returned = {} /\ place[promotionRun] = "staging" /\ safe
    BY <1>1, <1>d DEF Promotion!Promote, MarksHold, ResultsStay, Promotion!ends
  <2>2. /\ place' \in [Promotion!Runs -> {"none", "staging", "output", "gone"}]
        /\ \A r \in Promotion!Runs :
             place'[r] = IF r = promotionRun THEN "output" ELSE place[r]
    BY <1>2, <2>1
  <2>3. /\ content'[promotionRun]["decision"] # "failure"
        /\ \A e \in {Promotion!Plain} \cup Promotion!Runs :
             e # promotionRun => content'[e] = content[e]
        /\ content' \in [{Promotion!Plain} \cup Promotion!Runs ->
              [Promotion!Artifacts -> {"none", "success", "partial", "failure"}]]
    <3>1. content[promotionRun]["decision"] # "failure"
      BY <1>1, <2>1 DEF MarksHold
    <3>2. CASE content' = content BY <1>2, <3>1, <3>2
    <3>3. ASSUME NEW a \in Promotion!Artifacts, Promotion!Put(promotionRun, a, "partial")
          PROVE  <2>3!1 /\ <2>3!2 /\ <2>3!3
      <4>1. promotionRun \in {Promotion!Plain} \cup Promotion!Runs BY <1>2
      <4>2. QED BY <1>1, <1>2, <3>1, <3>3, <4>1, PutOne
    <3>4. QED BY <1>d, <3>2, <3>3 DEF Promotion!Promote
  <2>4. Promotion!TypeOK'
    <3>1. \A r \in Promotion!Runs : place'[r] = "output" <=> out' = r
      BY <1>2, <2>1, <2>2
    <3>2. QED
      BY <1>1, <1>2, <2>1, <2>2, <2>3, <3>1 DEF Promotion!TypeOK, Promotion!Ended
  <2>5. Promotion!NeverBoth' BY <1>1, <2>3 DEF Promotion!NeverBoth
  <2>6. NotYet' BY <1>1, <1>2, <2>1, <2>2, <2>3 DEF NotYet
  <2>7. MarksHold' BY <1>1, <2>1, <2>3 DEF MarksHold
  <2>8. OutputIsOurs' /\ NothingLeft' BY <1>1, <2>1 DEF OutputIsOurs, NothingLeft
  <2>9. ResultsStay'
    <3>1. \A r \in withdrawn : place'[r] = "gone"
      BY <1>1, <2>1, <2>2 DEF ResultsStay, Promotion!TypeOK
    <3>2. QED BY <2>1, <3>1 DEF ResultsStay
  <2>10. QED
    BY <2>4, <2>5, <2>6, <2>7, <2>8, <2>9 DEF PromotionInv
<1>e. QED BY <1>a, <1>b, <1>c, <1>d

LEMMA NextPromotionInv ==
  ASSUME PromotionInv, [Promotion!Next]_(Promotion!vars)
  PROVE  PromotionInv'
<1>1. CASE Promotion!Next
  BY <1>1, QuietPromotion, WritesAndRemovals, DirectorySteps, OutputSteps
  DEF Promotion!Next
<1>2. CASE UNCHANGED Promotion!vars
  BY <1>2
  DEF Promotion!vars, PromotionInv, Promotion!TypeOK, Promotion!NeverBoth, NotYet,
      MarksHold, OutputIsOurs, NothingLeft, ResultsStay
<1>3. QED BY <1>1, <1>2

(* For every number of runs on one output: no reader finds a failure        *)
(* decision beside artifacts of a success, and a run that raised, with no   *)
(* clean-up raising too, has left exactly its failure decision.             *)
THEOREM PromotionStaysSafe == AllSpec => []PromotionIsSafe
<1>1. Start => PromotionInv
  BY PromotionStarts DEF Start
<1>2. PromotionInv /\ [SomeStep]_allVars => PromotionInv'
  BY PromotionProjects, NextPromotionInv
<1>3. PromotionInv => PromotionIsSafe
  BY DEF PromotionInv, PromotionIsSafe, NothingLeft, Promotion!FailureIsAlone
<1>4. QED BY <1>1, <1>2, <1>3, PTL DEF AllSpec

(* What a reader finds of a run changes only where the output, the run's own *)
(* content or the record of what was taken back does.                        *)
LEMMA SameResult ==
  ASSUME NEW r \in Promotion!Runs,
         r \in withdrawn' <=> r \in withdrawn,
         out' = r <=> out = r,
         out = r => (content'[r] = Promotion!Whole <=> content[r] = Promotion!Whole)
  PROVE  Promotion!StoredResult'[r] = Promotion!StoredResult[r]
<1>1. Promotion!StoredResult[r] =
        IF r \in withdrawn THEN "gone" ELSE IF out # r THEN "none"
        ELSE IF content[r] = Promotion!Whole THEN "pair" ELSE "torn"
  BY DEF Promotion!StoredResult
<1>2. Promotion!StoredResult'[r] =
        IF r \in withdrawn' THEN "gone" ELSE IF out' # r THEN "none"
        ELSE IF content'[r] = Promotion!Whole THEN "pair" ELSE "torn"
  BY DEF Promotion!StoredResult
<1>3. QED BY <1>1, <1>2

LEMMA OneResult ==
  ASSUME NEW r \in Promotion!Runs, NEW x,
         \A q \in Promotion!Runs : q # r =>
            Promotion!StoredResult'[q] = Promotion!StoredResult[q],
         Promotion!StoredResult'[r] = x
  PROVE  Promotion!StoredResult' = [Promotion!StoredResult EXCEPT ![r] = x]
<1>1. /\ Promotion!StoredResult = [q \in Promotion!Runs |-> Promotion!StoredResult[q]]
      /\ Promotion!StoredResult' = [q \in Promotion!Runs |-> Promotion!StoredResult'[q]]
  BY DEF Promotion!StoredResult
<1>2. QED BY <1>1

LEMMA AllResults ==
  ASSUME \A q \in Promotion!Runs : Promotion!StoredResult'[q] = Promotion!StoredResult[q]
  PROVE  Promotion!StoredResult' = Promotion!StoredResult
<1>1. /\ Promotion!StoredResult = [q \in Promotion!Runs |-> Promotion!StoredResult[q]]
      /\ Promotion!StoredResult' = [q \in Promotion!Runs |-> Promotion!StoredResult'[q]]
  BY DEF Promotion!StoredResult
<1>2. QED BY <1>1

(* Steps no reader of a promoted result can tell. *)
LEMMA UnseenSteps ==
  ASSUME PromotionInv, returned' = returned, withdrawn' = withdrawn,
         \/ out' = out
         \/ out = Promotion!Absent /\ out' = Promotion!Plain,
         \A r \in Promotion!Runs : out = r =>
            (content'[r] = Promotion!Whole <=> content[r] = Promotion!Whole)
  PROVE  UNCHANGED Promotion!Store!vars
<1>1. \A r \in Promotion!Runs : out' = r <=> out = r
  BY PromotionConstants
  DEF Promotion!RunsAssumption, Promotion!Runs, Promotion!Plain, Promotion!Absent
<1>2. \A r \in Promotion!Runs : Promotion!StoredResult'[r] = Promotion!StoredResult[r]
  BY <1>1, SameResult
<1>3. QED BY <1>2, AllResults DEF Promotion!Store!vars

LEMMA PromotionStepRefines ==
  ASSUME PromotionInv, Promotion!Next
  PROVE  [Promotion!Store!Next]_(Promotion!Store!vars)
<1>1. /\ Promotion!TypeOK /\ NotYet /\ MarksHold /\ OutputIsOurs /\ ResultsStay
      /\ promotionRun \in Promotion!Runs
      /\ content \in [{Promotion!Plain} \cup Promotion!Runs ->
              [Promotion!Artifacts -> {"none", "success", "partial", "failure"}]]
      /\ place \in [Promotion!Runs -> {"none", "staging", "output", "gone"}]
  BY DEF PromotionInv, Promotion!TypeOK
<1>2. /\ Promotion!Whole # Promotion!Empty /\ Promotion!Whole # Promotion!Failure
      /\ Promotion!Whole["decision"] = "success" /\ "decision" \in Promotion!Artifacts
      /\ \A a \in Promotion!Artifacts : Promotion!Whole[a] = "success"
  BY DEF Promotion!Whole, Promotion!Empty, Promotion!Failure, Promotion!Artifacts
<1>3. \A r \in Promotion!Runs : r # Promotion!Absent /\ r # Promotion!Plain
  BY PromotionConstants
  DEF Promotion!RunsAssumption, Promotion!Runs, Promotion!Plain, Promotion!Absent
<1>4. \A r \in Promotion!Runs : r \in withdrawn => out # r
  BY <1>1 DEF ResultsStay, Promotion!TypeOK
<1>a. CASE \/ Promotion!Refuse \/ Promotion!Readback \/ Promotion!Verify
           \/ Promotion!VerifyRaises \/ Promotion!Raises \/ Promotion!DescriptorDone
           \/ Promotion!NothingOwned \/ Promotion!RollbackRaises
           \/ Promotion!KeepOutput \/ Promotion!LeaveOutput \/ Promotion!HandlerRaises
           \/ Promotion!Kill \/ Promotion!NextRun \/ Promotion!CreateStaging
           \/ Promotion!CreateStagingFails
  <2>1. UNCHANGED <<out, content, returned, withdrawn>>
    BY <1>a
    DEF Promotion!Refuse, Promotion!Readback, Promotion!Verify,
        Promotion!VerifyRaises, Promotion!Raises, Promotion!DescriptorDone,
        Promotion!NothingOwned, Promotion!RollbackRaises, Promotion!KeepOutput,
        Promotion!LeaveOutput, Promotion!HandlerRaises, Promotion!Kill,
        Promotion!NextRun, Promotion!CreateStaging, Promotion!CreateStagingFails,
        Promotion!disk, Promotion!ends
  <2>2. QED BY <2>1, UnseenSteps
<1>b. CASE Promotion!Begin \/ Promotion!MakeOutput
  <2>1. /\ UNCHANGED <<returned, withdrawn>>
        /\ \/ out' = out /\ content' = content
           \/ out = Promotion!Absent /\ out' = Promotion!Plain
    BY <1>b DEF Promotion!Begin, Promotion!MakeOutput, Promotion!ends
  <2>2. QED BY <1>3, <2>1, UnseenSteps
<1>c. CASE Promotion!WriteArtifact \/ Promotion!WriteRaises
  <2>1. /\ UNCHANGED <<out, returned, withdrawn>> /\ promotionPc = "write"
        /\ \E a, v : content' = [content EXCEPT ![promotionRun][a] = v]
    BY <1>c DEF Promotion!WriteArtifact, Promotion!WriteRaises, Promotion!ends,
       Promotion!Put
  <2>2. out # promotionRun BY <1>1, <1>3, <2>1 DEF MarksHold, OutputIsOurs, Active
  <2>3. \A r \in Promotion!Runs : out = r => content'[r] = content[r]
    BY <1>1, <2>1, <2>2
  <2>4. QED BY <2>1, <2>3, UnseenSteps
<1>d. CASE Promotion!Unlink \/ Promotion!WriteFailure
  <2>1. /\ UNCHANGED <<out, returned, withdrawn>>
        /\ out \in {Promotion!Plain} \cup Promotion!Runs
        /\ content[out] = Promotion!Empty /\ content'[out]["decision"] # "success"
    <3>1. /\ UNCHANGED <<out, returned, withdrawn>>
          /\ promotionPc \in {"unlink", "decide"}
      BY <1>d DEF Promotion!Unlink, Promotion!WriteFailure, Promotion!ends
    <3>2. /\ out \in {Promotion!Plain} \cup Promotion!Runs
          /\ content[out] = Promotion!Empty
      BY <1>1, <3>1 DEF OutputIsOurs, Promotion!TypeOK
    <3>3. CASE Promotion!Unlink
      <4>1. PICK stuck \in SUBSET Promotion!Held(out) :
              content' = [content EXCEPT ![out] =
                   [a \in Promotion!Artifacts |-> IF a \in stuck THEN @[a] ELSE "none"]]
        BY <3>3 DEF Promotion!Unlink
      <4>2. content'[out]["decision"] \in {content[out]["decision"], "none"}
        BY <1>1, <1>2, <3>2, <4>1
      <4>3. content[out]["decision"] = "none" BY <1>2, <3>2 DEF Promotion!Empty
      <4>4. QED BY <3>1, <3>2, <4>2, <4>3
    <3>4. CASE Promotion!WriteFailure
      <4>1. content' = [content EXCEPT ![out]["decision"] = "failure"]
        BY <3>4 DEF Promotion!WriteFailure, Promotion!Put
      <4>2. content'[out]["decision"] = "failure" BY <1>1, <1>2, <3>2, <4>1
      <4>3. QED BY <3>1, <3>2, <4>2
    <3>5. QED BY <1>d, <3>3, <3>4
  <2>2. QED BY <1>2, <2>1, UnseenSteps
<1>e. CASE Promotion!CleanByDescriptor \/ Promotion!RemoveChild
  <2>1. /\ UNCHANGED <<out, returned, withdrawn>> /\ promotionPc \in {"clean", "rollback"}
        /\ \E a \in Promotion!Artifacts : Promotion!Put(promotionRun, a, "none")
    BY <1>e, FirstIsOne DEF Promotion!CleanByDescriptor, Promotion!RemoveChild,
       Promotion!ends, Promotion!Held
  <2>2. /\ content'[promotionRun] # Promotion!Whole
        /\ \A r \in Promotion!Runs : r # promotionRun => content'[r] = content[r]
    <3>1. PICK a \in Promotion!Artifacts : Promotion!Put(promotionRun, a, "none")
      BY <2>1
    <3>2. promotionRun \in {Promotion!Plain} \cup Promotion!Runs BY <1>1
    <3>3. /\ content'[promotionRun][a] = "none"
          /\ \A e \in {Promotion!Plain} \cup Promotion!Runs :
               e # promotionRun => content'[e] = content[e]
      BY <1>1, <3>1, <3>2, PutOne
    <3>4. QED BY <1>2, <3>3
  <2>3. CASE out # promotionRun
    BY <2>1, <2>2, <2>3, UnseenSteps
  <2>4. CASE out = promotionRun
    <3>1. promotionRun \notin withdrawn /\ promotionRun \notin returned
      BY <1>1, <1>4, <2>1, <2>4 DEF ResultsStay, Active, Handler
    <3>2. /\ Promotion!StoredResult'[promotionRun] = "torn"
          /\ Promotion!StoredResult[promotionRun] \in {"pair", "torn"}
      BY <1>1, <2>1, <2>2, <2>4, <3>1 DEF Promotion!StoredResult
    <3>3. \A r \in Promotion!Runs : r # promotionRun =>
            Promotion!StoredResult'[r] = Promotion!StoredResult[r]
      BY <2>1, <2>2, SameResult
    <3>4. Promotion!Store!Withdraw(promotionRun)
      BY <1>1, <2>1, <3>1, <3>2, <3>3, OneResult DEF Promotion!Store!Withdraw
    <3>5. QED BY <1>1, <3>4 DEF Promotion!Store!Next
  <2>5. QED BY <2>3, <2>4
<1>f. CASE Promotion!RemoveOutput \/ (Promotion!RemoveOwned /\ promoted)
  <2>1. /\ UNCHANGED <<content, returned>> /\ out' = Promotion!Absent
        /\ withdrawn' = withdrawn \cup ({out} \cap Promotion!Runs)
        /\ promotionPc \in Active
        /\ out \in {Promotion!Plain} \cup Promotion!Runs /\ content[out] # Promotion!Whole
    <3>1. CASE Promotion!RemoveOutput
      BY <1>1, <1>2, <3>1 DEF Promotion!RemoveOutput, Active, Promotion!TypeOK
    <3>2. CASE Promotion!RemoveOwned /\ promoted
      <4>1. /\ UNCHANGED <<content, returned>> /\ out' = Promotion!Absent
            /\ promotionPc = "rollback" /\ out = promotionRun
            /\ Promotion!Held(promotionRun) = {}
            /\ withdrawn' = withdrawn \cup {promotionRun}
        BY <1>1, <3>2 DEF Promotion!RemoveOwned, MarksHold
      <4>2. content[promotionRun]["decision"] = "none"
        BY <1>2, <4>1 DEF Promotion!Held
      <4>3. QED BY <1>1, <1>2, <4>1, <4>2 DEF Active, Handler
    <3>3. QED BY <1>f, <3>1, <3>2
  <2>2. \A r \in Promotion!Runs : r # out =>
          Promotion!StoredResult'[r] = Promotion!StoredResult[r]
    BY <1>3, <2>1, SameResult
  <2>3. CASE out \in Promotion!Runs
    <3>1. out \notin withdrawn /\ out \notin returned
      BY <1>1, <1>4, <2>1, <2>3 DEF ResultsStay
    <3>2. Promotion!StoredResult'[out] = "gone" /\ Promotion!StoredResult[out] = "torn"
      BY <2>1, <2>3, <3>1 DEF Promotion!StoredResult
    <3>3. Promotion!Store!Withdraw(out)
      BY <2>1, <2>2, <2>3, <3>1, <3>2, OneResult DEF Promotion!Store!Withdraw
    <3>4. QED BY <2>3, <3>3 DEF Promotion!Store!Next
  <2>4. CASE out \notin Promotion!Runs
    BY <2>1, <2>2, <2>4, AllResults DEF Promotion!Store!vars
  <2>5. QED BY <2>3, <2>4
<1>g. CASE Promotion!RemoveOwned /\ ~promoted
  <2>1. UNCHANGED <<out, content, returned, withdrawn>>
    BY <1>g DEF Promotion!RemoveOwned
  <2>2. QED BY <2>1, UnseenSteps
<1>h. CASE Promotion!Promote
  <2>1. /\ out = Promotion!Absent /\ out' = promotionRun /\ UNCHANGED <<returned, withdrawn>>
        /\ place[promotionRun] = "staging" /\ promotionRun \notin withdrawn
    BY <1>1, <1>h DEF Promotion!Promote, MarksHold, Promotion!ends, ResultsStay
  <2>2. \A r \in Promotion!Runs : r # promotionRun =>
          Promotion!StoredResult'[r] = Promotion!StoredResult[r]
    BY <1>3, <2>1, SameResult
  <2>3. /\ Promotion!StoredResult[promotionRun] = "none"
        /\ Promotion!StoredResult'[promotionRun] \in {"pair", "torn"}
    BY <1>1, <1>3, <2>1 DEF Promotion!StoredResult
  <2>4. Promotion!Store!Publish(promotionRun)
    BY <1>1, <2>1, <2>2, <2>3, OneResult DEF Promotion!Store!Publish
  <2>5. QED BY <1>1, <2>4 DEF Promotion!Store!Next
<1>i. CASE Promotion!Return
  <2>1. /\ UNCHANGED <<out, content, withdrawn>> /\ out = promotionRun
        /\ content[promotionRun] = Promotion!Whole
        /\ returned' = returned \cup {promotionRun}
    BY <1>1, <1>i DEF Promotion!Return, MarksHold, Promotion!disk
  <2>2. UNCHANGED Promotion!StoredResult BY <2>1 DEF Promotion!StoredResult
  <2>3. Promotion!StoredResult[promotionRun] = "pair"
    BY <1>1, <1>4, <2>1 DEF Promotion!StoredResult
  <2>4. Promotion!Store!Acknowledge(promotionRun)
    BY <2>1, <2>2, <2>3 DEF Promotion!Store!Acknowledge
  <2>5. QED BY <1>1, <2>4 DEF Promotion!Store!Next
<1>j. QED
  BY <1>a, <1>b, <1>c, <1>d, <1>e, <1>f, <1>g, <1>h, <1>i DEF Promotion!Next

(* A published phase response is one the result store allows: it appears at *)
(* once, is acknowledged only whole, and stays once it is, whatever later   *)
(* runs on the same output do.                                              *)
THEOREM PromotionImplementsStore == AllSpec => Promotion!ImplementsResultStore
<1>1. Start => PromotionInv
  BY PromotionStarts DEF Start
<1>2. PromotionInv /\ [SomeStep]_allVars => PromotionInv'
  BY PromotionProjects, NextPromotionInv
<1>3. Start => Promotion!Store!Init
  <2> SUFFICES ASSUME Start PROVE Promotion!Store!Init
    OBVIOUS
  <2>1. /\ out = Promotion!Absent /\ withdrawn = {} /\ returned = {}
        /\ \A r \in Promotion!Runs : out # r
    BY PromotionConstants DEF Start, Promotion!Init, Promotion!Absent, Promotion!Runs,
       Promotion!RunsAssumption
  <2>2. QED BY <2>1 DEF Promotion!Store!Init, Promotion!StoredResult
<1>4. PromotionInv /\ [SomeStep]_allVars => [Promotion!Store!Next]_(Promotion!Store!vars)
  <2> SUFFICES ASSUME PromotionInv, [SomeStep]_allVars
               PROVE  [Promotion!Store!Next]_(Promotion!Store!vars)
    OBVIOUS
  <2>1. CASE Promotion!Next
    BY <2>1, PromotionStepRefines
  <2>2. CASE UNCHANGED Promotion!vars
    BY <2>2 DEF Promotion!vars, Promotion!Store!vars, Promotion!StoredResult
  <2>3. QED BY <2>1, <2>2, PromotionProjects
<1>5. QED
  BY <1>1, <1>2, <1>3, <1>4, PTL
  DEF AllSpec, Promotion!ImplementsResultStore, Promotion!Store!Spec

-----------------------------------------------------------------------------
(* The supervised load of the model.                                        *)

LEMMA PreflightConstants == Preflight!PreflightAssumption
BY InstancesAssumption

LEMMA PreflightProjects == [SomeStep]_allVars => [Preflight!Next]_(Preflight!vars)
<1> SUFFICES ASSUME [SomeStep]_allVars PROVE [Preflight!Next]_(Preflight!vars)
  OBVIOUS
<1> USE DEF preflightVars, Preflight!vars, Preflight!workerVars, Preflight!clockVars,
        Preflight!resultVars
<1>1. CASE PreflightStep BY <1>1 DEF PreflightStep
<1>2. CASE Rest /\ program # "preflight"
  BY <1>2 DEF Rest
<1>3. CASE UNCHANGED allVars BY <1>3 DEF allVars
<1>4. QED
  BY <1>1, <1>2, <1>3
  DEF SomeStep, ProbeStep, RuntimeStep, PromotionStep, ScoringStep, SetupStep,
      FramesStep, AtomStep, ServerStep, OfficialReferenceStep, CommandsStep,
      ProvenanceStep

(* What each place of the supervisor knows of its worker and its results. *)
WorkerKnown ==
  /\ preflightPc \in {"start", "launch"} => proc[call] = "none"
  /\ preflightPc \in {"launched", "look", "poll", "term", "grace", "reap", "c_term",
                      "c_grace", "c_reap"} => proc[call] # "none"
  /\ preflightPc \in {"final", "decide", "manifest", "returned"} =>
       proc[call] = "reaped"
  /\ preflightPc \in {"start", "launch", "launched", "look", "poll"} =>
       signals[call] = {}
  /\ \A c \in Preflight!Calls : c > call => signals[c] = {}
  /\ Preflight!NoWorkerLeft

ResultsKnown ==
  /\ preflightPc \notin {"decide", "manifest", "returned", "raised", "dead"} =>
       final = Preflight!Absent
  /\ preflightPc \notin {"manifest", "returned", "raised", "dead"} =>
       preflightDecision = "none"
  /\ preflightPc \notin Preflight!Ended => preflightManifest = "none"

(* Once the worker was reaped with 0 it stays so, and a record of a success *)
(* is of a worker that went through the whole ledger.                       *)
SuccessKnown ==
  /\ final # Preflight!Absent => proc[call] = "reaped"
  /\ outcome = "success" =>
       proc[call] = "reaped" /\ code[call] = 0 /\ signals[call] = {}
  /\ preflightDecision = "PASS" =>
       outcome = "success" /\ final = Preflight!Record(call, Ledger, "success")
  /\ stateFile.status = "success" => marks[stateFile.by] = Ledger
  /\ final.status = "success" => marks[final.by] = Ledger

PreflightInv ==
  Preflight!TypeOK /\ WorkerKnown /\ ResultsKnown /\ SuccessKnown

LEMMA PreflightStarts == Preflight!Init => PreflightInv
<1> SUFFICES ASSUME Preflight!Init PROVE PreflightInv
  OBVIOUS
<1> USE PreflightConstants DEF Preflight!Init, Preflight!PreflightAssumption, Preflight!Calls
<1>1. Preflight!WorkerTypes BY DEF Preflight!WorkerTypes, Preflight!NoCode
<1>2. Preflight!SupervisorTypes
  <2>1. stateFile \in Preflight!Records /\ final \in Preflight!Records
    BY DEF Preflight!Records
  <2>2. cache \in 0 .. CacheChanges /\ seen \in -1 .. CacheChanges /\ call \in 1 .. Attempts
        /\ exceptions \in 0 .. MaxExceptions
    OBVIOUS
  <2>3. QED BY <2>1, <2>2 DEF Preflight!SupervisorTypes
<1>3. WorkerKnown BY DEF WorkerKnown, Preflight!NoWorkerLeft
<1>4. ResultsKnown BY DEF ResultsKnown
<1>5. SuccessKnown BY DEF SuccessKnown, Preflight!Absent
<1>6. QED BY <1>1, <1>2, <1>3, <1>4, <1>5 DEF PreflightInv, Preflight!TypeOK

(* Steps that touch neither a worker nor the state file. *)
LEMMA QuietSupervision ==
  ASSUME PreflightInv,
         \/ Preflight!OutputNotEmpty \/ Preflight!EnterLoop \/ Preflight!Look
         \/ Preflight!PollFindsTimeout \/ Preflight!PollContinues
         \/ Preflight!NothingToTerminate \/ Preflight!EndsInGrace
         \/ Preflight!ReadFinalState \/ Preflight!WriteDecision
         \/ Preflight!WriteManifest \/ Preflight!RaisesInTry
         \/ Preflight!RaisesOutside \/ Preflight!Kill
         \/ Preflight!OverallTimeoutPasses \/ Preflight!NoProgressTimeoutPasses
  PROVE  PreflightInv'
<1>1. /\ Preflight!WorkerTypes /\ Preflight!SupervisorTypes
      /\ WorkerKnown /\ ResultsKnown /\ SuccessKnown
  BY DEF PreflightInv, Preflight!TypeOK
<1> USE DEF Preflight!workerVars, Preflight!clockVars, Preflight!resultVars, Preflight!Goto
<1>2. UNCHANGED <<proc, code, marks, signals, stateFile, cache, call>>
  BY DEF Preflight!OutputNotEmpty, Preflight!EnterLoop, Preflight!Look,
     Preflight!PollFindsTimeout, Preflight!PollContinues, Preflight!NothingToTerminate,
     Preflight!EndsInGrace, Preflight!ReadFinalState, Preflight!WriteDecision,
     Preflight!WriteManifest, Preflight!RaisesInTry, Preflight!RaisesOutside,
     Preflight!Kill, Preflight!OverallTimeoutPasses, Preflight!NoProgressTimeoutPasses
<1>3. Preflight!WorkerTypes' BY <1>1, <1>2 DEF Preflight!WorkerTypes, Preflight!Calls
<1>a. CASE \/ Preflight!OutputNotEmpty \/ Preflight!EnterLoop
           \/ Preflight!PollFindsTimeout \/ Preflight!PollContinues
           \/ Preflight!NothingToTerminate \/ Preflight!EndsInGrace
  <2> USE DEF Preflight!OutputNotEmpty, Preflight!EnterLoop,
      Preflight!PollFindsTimeout, Preflight!PollContinues,
      Preflight!NothingToTerminate, Preflight!EndsInGrace, Preflight!After,
      Preflight!InClean, Preflight!Grace, Preflight!Terminate, Preflight!Alive
  <2>1. /\ UNCHANGED <<seen, stalled, preflightLate, final, preflightDecision,
                       preflightManifest, exceptions, unguarded>>
        /\ outcome' \in {outcome, "overall_timeout", "no_progress_timeout"}
        /\ \/ preflightPc = "start" /\ preflightPc' = "raised"
           \/ preflightPc = "launched" /\ preflightPc' = "look"
           \/ preflightPc = "poll" /\ preflightPc' \in {"look", "term"}
           \/ preflightPc \in {"term", "c_term", "grace", "c_grace"}
              /\ preflightPc' \in {"reap", "c_reap"}
    BY <1>a
  <2> HIDE DEF Preflight!OutputNotEmpty, Preflight!EnterLoop,
      Preflight!PollFindsTimeout, Preflight!PollContinues,
      Preflight!NothingToTerminate, Preflight!EndsInGrace
  <2>2. Preflight!SupervisorTypes'
    BY <1>1, <1>2, <2>1 DEF Preflight!SupervisorTypes, Preflight!Ended
  <2>3. WorkerKnown' BY <1>1, <1>2, <2>1 DEF WorkerKnown, Preflight!NoWorkerLeft
  <2>4. ResultsKnown' BY <1>1, <2>1 DEF ResultsKnown, Preflight!Ended
  <2>5. SuccessKnown' BY <1>1, <1>2, <2>1 DEF SuccessKnown, ResultsKnown
  <2>6. QED BY <1>3, <2>2, <2>3, <2>4, <2>5 DEF PreflightInv, Preflight!TypeOK
<1>b. CASE Preflight!Look \/ Preflight!OverallTimeoutPasses
           \/ Preflight!NoProgressTimeoutPasses
  <2>1. /\ UNCHANGED <<outcome, final, preflightDecision, preflightManifest,
                       exceptions, unguarded>>
        /\ preflightPc \in {"look", "poll"} /\ preflightPc' \in {"look", "poll"}
        /\ seen' \in {seen, cache}
        /\ stalled' \in BOOLEAN /\ preflightLate' \in BOOLEAN
    BY <1>1, <1>b
    DEF Preflight!Look, Preflight!OverallTimeoutPasses,
        Preflight!NoProgressTimeoutPasses, Preflight!InLoop, Preflight!SupervisorTypes
  <2>2. Preflight!SupervisorTypes'
    BY <1>1, <1>2, <2>1, PreflightConstants
    DEF Preflight!SupervisorTypes, Preflight!Ended, Preflight!PreflightAssumption
  <2>3. WorkerKnown' BY <1>1, <1>2, <2>1 DEF WorkerKnown, Preflight!NoWorkerLeft
  <2>4. ResultsKnown' BY <1>1, <2>1 DEF ResultsKnown, Preflight!Ended
  <2>5. SuccessKnown' BY <1>1, <1>2, <2>1 DEF SuccessKnown
  <2>6. QED BY <1>3, <2>2, <2>3, <2>4, <2>5 DEF PreflightInv, Preflight!TypeOK
<1>c. CASE Preflight!ReadFinalState \/ Preflight!WriteDecision \/ Preflight!WriteManifest
  <2>1. /\ UNCHANGED <<seen, stalled, preflightLate, outcome, exceptions, unguarded>>
        /\ \/ /\ preflightPc = "final" /\ preflightPc' = "decide" /\ final' = stateFile
              /\ UNCHANGED <<preflightDecision, preflightManifest>>
           \/ /\ preflightPc = "decide" /\ preflightPc' = "manifest"
              /\ UNCHANGED <<final, preflightManifest>>
              /\ preflightDecision' \in {"PASS", "FAIL"}
              /\ preflightDecision' = "PASS" =>
                   outcome = "success" /\ final = Preflight!Record(call, Ledger, "success")
           \/ /\ preflightPc = "manifest" /\ preflightPc' = "returned"
              /\ UNCHANGED <<final, preflightDecision>>
              /\ preflightManifest' = preflightDecision
    BY <1>c
    DEF Preflight!ReadFinalState, Preflight!WriteDecision, Preflight!WriteManifest,
        Preflight!Passes, Preflight!Valid
  <2>2. Preflight!SupervisorTypes'
    BY <1>1, <1>2, <2>1 DEF Preflight!SupervisorTypes, Preflight!Ended, ResultsKnown
  <2>3. WorkerKnown' BY <1>1, <1>2, <2>1 DEF WorkerKnown, Preflight!NoWorkerLeft
  <2>4. ResultsKnown' BY <1>1, <2>1 DEF ResultsKnown, Preflight!Ended
  <2>5. SuccessKnown' BY <1>1, <1>2, <2>1 DEF SuccessKnown, WorkerKnown, ResultsKnown
  <2>6. QED BY <1>3, <2>2, <2>3, <2>4, <2>5 DEF PreflightInv, Preflight!TypeOK
<1>d. CASE Preflight!RaisesInTry \/ Preflight!RaisesOutside \/ Preflight!Kill
  <2>1. /\ UNCHANGED <<seen, stalled, preflightLate, outcome, final,
                       preflightDecision, preflightManifest>>
        /\ exceptions' \in 0 .. MaxExceptions /\ unguarded' \in BOOLEAN
        /\ preflightPc \notin Preflight!Ended
        /\ \/ /\ preflightPc \in Preflight!InTry /\ preflightPc' = "c_term"
              /\ unguarded' = unguarded
           \/ /\ preflightPc \notin Preflight!InTry /\ preflightPc' = "raised"
              /\ ~unguarded' => preflightPc \notin {"launched", "c_term", "c_grace", "c_reap"}
           \/ preflightPc' = "dead" /\ unguarded' = unguarded
    <3>1. CASE Preflight!RaisesInTry
      BY <1>1, <3>1, PreflightConstants
      DEF Preflight!RaisesInTry, Preflight!InTry, Preflight!Ended,
          Preflight!SupervisorTypes, Preflight!PreflightAssumption
    <3>2. CASE Preflight!RaisesOutside
      <4>1. exceptions' \in 0 .. MaxExceptions
        BY <1>1, <3>2, PreflightConstants
        DEF Preflight!RaisesOutside, Preflight!SupervisorTypes,
            Preflight!PreflightAssumption
      <4>2. unguarded' \in BOOLEAN
        BY <1>1, <3>2 DEF Preflight!RaisesOutside, Preflight!SupervisorTypes,
           Preflight!InClean
      <4>3. QED
        BY <3>2, <4>1, <4>2
        DEF Preflight!RaisesOutside, Preflight!InClean, Preflight!Ended
    <3>3. CASE Preflight!Kill
      BY <1>1, <3>3 DEF Preflight!Kill, Preflight!SupervisorTypes
    <3>4. QED BY <1>d, <3>1, <3>2, <3>3
  <2>2. Preflight!SupervisorTypes'
    BY <1>1, <1>2, <2>1 DEF Preflight!SupervisorTypes, Preflight!Ended
  <2>3. WorkerKnown'
    <3>1. preflightPc \in {"start", "launch", "launched", "look", "poll", "term", "grace",
             "reap", "c_term", "c_grace", "c_reap", "final", "decide", "manifest"}
      BY <1>1, <2>1 DEF Preflight!SupervisorTypes
    <3>2. QED
      BY <1>1, <1>2, <2>1, <3>1 DEF WorkerKnown, Preflight!NoWorkerLeft, Preflight!InTry
  <2>4. ResultsKnown'
    BY <1>1, <2>1 DEF ResultsKnown, Preflight!Ended, Preflight!InTry
  <2>5. SuccessKnown' BY <1>1, <1>2, <2>1 DEF SuccessKnown
  <2>6. QED BY <1>3, <2>2, <2>3, <2>4, <2>5 DEF PreflightInv, Preflight!TypeOK
<1>e. QED BY <1>a, <1>b, <1>c, <1>d

(* The steps of the supervisor on its worker, and the next call. *)
LEMMA LoudSupervision ==
  ASSUME PreflightInv,
         \/ Preflight!CreateState \/ Preflight!Launch \/ Preflight!PollFindsExit
         \/ Preflight!SendTerm \/ Preflight!GraceExpires \/ Preflight!WaitReaps
         \/ Preflight!NextCall
  PROVE  PreflightInv'
<1>1. /\ Preflight!WorkerTypes /\ Preflight!SupervisorTypes
      /\ WorkerKnown /\ ResultsKnown /\ SuccessKnown /\ call \in Preflight!Calls
      /\ proc \in [Preflight!Calls -> {"none", "working", "completed", "failed",
                                       "exited", "reaped"}]
      /\ signals \in [Preflight!Calls -> SUBSET {"TERM", "KILL"}]
      /\ \A c \in Preflight!Calls : c \in Nat
  BY PreflightConstants
  DEF PreflightInv, Preflight!TypeOK, Preflight!WorkerTypes, Preflight!SupervisorTypes,
      Preflight!Calls, Preflight!PreflightAssumption
<1> USE DEF Preflight!workerVars, Preflight!clockVars, Preflight!resultVars, Preflight!Goto
<1>a. CASE Preflight!CreateState
  <2>1. /\ UNCHANGED <<proc, code, marks, signals, cache, call, seen, stalled,
                       preflightLate, outcome, final, preflightDecision,
                       preflightManifest, exceptions, unguarded>>
        /\ preflightPc = "start" /\ preflightPc' = "launch"
        /\ stateFile' = Preflight!Starting
    BY <1>a DEF Preflight!CreateState
  <2>2. Preflight!WorkerTypes' BY <1>1, <2>1 DEF Preflight!WorkerTypes
  <2>3. Preflight!SupervisorTypes'
    BY <1>1, <2>1 DEF Preflight!SupervisorTypes, Preflight!Ended, Preflight!Records
  <2>4. WorkerKnown' BY <1>1, <2>1 DEF WorkerKnown, Preflight!NoWorkerLeft
  <2>5. ResultsKnown' BY <1>1, <2>1 DEF ResultsKnown, Preflight!Ended
  <2>6. SuccessKnown' BY <1>1, <2>1 DEF SuccessKnown, Preflight!Starting
  <2>7. QED BY <2>2, <2>3, <2>4, <2>5, <2>6 DEF PreflightInv, Preflight!TypeOK
<1>b. CASE Preflight!Launch \/ Preflight!PollFindsExit \/ Preflight!WaitReaps
  <2> DEFINE S == {"exited", "reaped"}
  <2>1. /\ UNCHANGED <<code, marks, signals, stateFile, cache, call, seen, stalled,
                       preflightLate, final, preflightDecision, preflightManifest,
                       exceptions, unguarded>>
        /\ \/ /\ preflightPc = "launch" /\ preflightPc' = "launched"
              /\ proc' = [proc EXCEPT ![call] = "working"] /\ outcome' = outcome
           \/ /\ preflightPc = "poll" /\ preflightPc' = "final" /\ proc[call] = "exited"
              /\ proc' = [proc EXCEPT ![call] = "reaped"]
              /\ outcome' \in {"success", "worker_error"}
              /\ outcome' = "success" => code[call] = 0
           \/ /\ preflightPc \in {"reap", "c_reap"} /\ preflightPc' \in {"final", "raised"}
              /\ proc' = [proc EXCEPT ![call] = "reaped"] /\ outcome' = outcome
              /\ proc[call] \in {"exited", "reaped"}
    <3>1. proc[call] \in {"none", "working", "completed", "failed", "exited", "reaped"}
      BY <1>1
    <3>2. CASE Preflight!Launch BY <3>2 DEF Preflight!Launch
    <3>3. CASE Preflight!PollFindsExit BY <3>3 DEF Preflight!PollFindsExit, Preflight!Reaped
    <3>4. CASE Preflight!WaitReaps
      BY <1>1, <3>1, <3>4
      DEF Preflight!WaitReaps, Preflight!Reaped, Preflight!Reap, Preflight!Alive,
          Preflight!After, Preflight!InClean, WorkerKnown
    <3>5. QED BY <1>b, <3>2, <3>3, <3>4
  <2>2. /\ proc' \in [Preflight!Calls -> {"none", "working", "completed", "failed",
                                          "exited", "reaped"}]
        /\ \A c \in Preflight!Calls : c # call => proc'[c] = proc[c]
        /\ preflightPc = "launch" => proc'[call] = "working" /\ proc[call] = "none"
        /\ preflightPc # "launch" => proc'[call] = "reaped" /\ proc[call] \in S
    BY <1>1, <2>1 DEF WorkerKnown
  <2>3. Preflight!WorkerTypes'
    BY <1>1, <2>1, <2>2 DEF Preflight!WorkerTypes
  <2>4. Preflight!SupervisorTypes'
    BY <1>1, <2>1 DEF Preflight!SupervisorTypes, Preflight!Ended
  <2>5. WorkerKnown' BY <1>1, <2>1, <2>2 DEF WorkerKnown, Preflight!NoWorkerLeft
  <2>6. ResultsKnown' BY <1>1, <2>1 DEF ResultsKnown, Preflight!Ended
  <2>7. SuccessKnown'
    BY <1>1, <2>1, <2>2 DEF SuccessKnown, ResultsKnown, WorkerKnown
  <2>8. QED BY <2>3, <2>4, <2>5, <2>6, <2>7 DEF PreflightInv, Preflight!TypeOK
<1>c. CASE Preflight!SendTerm \/ Preflight!GraceExpires
  <2>1. /\ UNCHANGED <<proc, code, marks, stateFile, cache, call, seen, stalled,
                       preflightLate, outcome, final, preflightDecision,
                       preflightManifest, exceptions, unguarded>>
        /\ preflightPc \in {"term", "c_term", "grace", "c_grace"}
        /\ preflightPc' \in {"grace", "c_grace", "reap", "c_reap"}
        /\ proc[call] \in {"working", "completed", "failed"}
        /\ \E s \in {"TERM", "KILL"} : signals' = [signals EXCEPT ![call] = @ \union {s}]
    BY <1>c DEF Preflight!SendTerm, Preflight!GraceExpires, Preflight!Alive,
       Preflight!Terminate, Preflight!Grace, Preflight!After, Preflight!InClean
  <2>2. /\ signals' \in [Preflight!Calls -> SUBSET {"TERM", "KILL"}]
        /\ \A c \in Preflight!Calls : c # call => signals'[c] = signals[c]
    BY <1>1, <2>1
  <2>3. Preflight!WorkerTypes' BY <1>1, <2>1, <2>2 DEF Preflight!WorkerTypes
  <2>4. Preflight!SupervisorTypes'
    BY <1>1, <2>1 DEF Preflight!SupervisorTypes, Preflight!Ended
  <2>5. WorkerKnown'
    <3>1. \A c \in Preflight!Calls : c > call => c # call BY <1>1
    <3>2. QED BY <1>1, <2>1, <2>2, <3>1 DEF WorkerKnown, Preflight!NoWorkerLeft
  <2>6. ResultsKnown' BY <1>1, <2>1 DEF ResultsKnown, Preflight!Ended
  <2>7. SuccessKnown' BY <1>1, <2>1 DEF SuccessKnown
  <2>8. QED BY <2>3, <2>4, <2>5, <2>6, <2>7 DEF PreflightInv, Preflight!TypeOK
<1>d. CASE Preflight!NextCall
  <2>1. /\ UNCHANGED <<proc, code, marks, signals, cache, exceptions>>
        /\ call' = call + 1 /\ call' \in Preflight!Calls /\ preflightPc' = "start"
        /\ stateFile' = Preflight!Absent /\ seen' = -1 /\ stalled' = FALSE
        /\ preflightLate' = FALSE /\ outcome' = "none" /\ final' = Preflight!Absent
        /\ preflightDecision' = "none" /\ preflightManifest' = "none"
        /\ unguarded' = FALSE
    BY <1>1, <1>d, PreflightConstants
    DEF Preflight!NextCall, Preflight!Calls, Preflight!PreflightAssumption
  <2>2. Preflight!WorkerTypes' BY <1>1, <2>1 DEF Preflight!WorkerTypes
  <2>3. Preflight!SupervisorTypes'
    <3>1. stateFile' \in Preflight!Records /\ final' \in Preflight!Records
      BY <2>1 DEF Preflight!Records
    <3>2. cache' \in 0 .. CacheChanges /\ seen' \in -1 .. CacheChanges
          /\ exceptions' \in 0 .. MaxExceptions
      BY <1>1, <2>1, PreflightConstants
      DEF Preflight!SupervisorTypes, Preflight!PreflightAssumption
    <3>3. QED BY <2>1, <3>1, <3>2 DEF Preflight!SupervisorTypes
  <2>4. /\ proc[call'] = "none" /\ signals[call'] = {}
        /\ \A c \in Preflight!Calls : c > call' => signals[c] = {}
    BY <1>1, <2>1 DEF WorkerKnown, Preflight!WorkerTypes
  <2>5. WorkerKnown' BY <1>1, <2>1, <2>4 DEF WorkerKnown, Preflight!NoWorkerLeft
  <2>6. ResultsKnown' /\ SuccessKnown'
    BY <2>1 DEF ResultsKnown, SuccessKnown, Preflight!Absent
  <2>7. QED BY <2>2, <2>3, <2>5, <2>6 DEF PreflightInv, Preflight!TypeOK
<1>e. QED BY <1>a, <1>b, <1>c, <1>d

(* The worker of this call, or of an earlier one that nobody supervises. *)
LEMMA WorkerSteps ==
  ASSUME PreflightInv, NEW c \in Preflight!Calls, Preflight!WorkerStep(c)
  PROVE  PreflightInv'
<1>1. /\ Preflight!WorkerTypes /\ Preflight!SupervisorTypes
      /\ WorkerKnown /\ ResultsKnown /\ SuccessKnown /\ call \in Preflight!Calls
      /\ proc \in [Preflight!Calls -> {"none", "working", "completed", "failed",
                                       "exited", "reaped"}]
      /\ code \in [Preflight!Calls -> {Preflight!NoCode, 0, 1, -1}]
      /\ marks \in [Preflight!Calls -> 0 .. Ledger]
      /\ Ledger \in Nat \ {0} /\ Preflight!NoCode = 99 /\ Preflight!Calls \subseteq Nat \ {0}
  BY PreflightConstants
  DEF PreflightInv, Preflight!TypeOK, Preflight!WorkerTypes, Preflight!SupervisorTypes,
      Preflight!PreflightAssumption, Preflight!NoCode, Preflight!Calls
<1> USE DEF Preflight!supervisorVars, Preflight!workerVars, Preflight!clockVars,
        Preflight!resultVars, Preflight!Record
<1>2. /\ UNCHANGED <<call, preflightPc, seen, stalled, preflightLate, outcome, final,
                     preflightDecision, preflightManifest, exceptions, unguarded, signals>>
      /\ proc[c] \in {"working", "completed", "failed"}
      /\ \/ /\ proc' = proc /\ code' = code /\ marks[c] < Ledger /\ cache' = cache
            /\ marks' = [marks EXCEPT ![c] = @ + 1]
            /\ stateFile' = [by |-> c, marks |-> marks[c] + 1, status |-> "running"]
         \/ /\ UNCHANGED <<proc, code, marks, stateFile>>
            /\ cache < CacheChanges /\ cache' = cache + 1
         \/ /\ proc' = [proc EXCEPT ![c] = "completed"] /\ UNCHANGED <<code, marks, cache>>
            /\ marks[c] = Ledger
            /\ stateFile' = [by |-> c, marks |-> Ledger, status |-> "success"]
         \/ /\ proc' = [proc EXCEPT ![c] = "failed"] /\ UNCHANGED <<code, marks, cache>>
            /\ stateFile' \in {stateFile,
                               [by |-> c, marks |-> marks[c], status |-> "failure"]}
         \/ /\ proc' = [proc EXCEPT ![c] = "exited"] /\ UNCHANGED <<marks, stateFile, cache>>
            /\ \E k \in {0, 1, -1} : code' = [code EXCEPT ![c] = k]
  BY DEF Preflight!WorkerStep, Preflight!WorkerMarksPhase, Preflight!CacheChangesBy,
     Preflight!WorkerCompletes, Preflight!WorkerFails, Preflight!WorkerExits,
     Preflight!WorkerDies, Preflight!Alive
<1>3. /\ proc' \in [Preflight!Calls -> {"none", "working", "completed", "failed",
                                       "exited", "reaped"}]
      /\ \A d \in Preflight!Calls : d # c => proc'[d] = proc[d] /\ code'[d] = code[d]
                                             /\ marks'[d] = marks[d]
      /\ proc'[c] \in {"working", "completed", "failed", "exited"}
      /\ code' \in [Preflight!Calls -> {Preflight!NoCode, 0, 1, -1}]
      /\ marks' \in [Preflight!Calls -> 0 .. Ledger]
      /\ marks'[c] >= marks[c]
  BY <1>1, <1>2
<1>4. Preflight!WorkerTypes'
  <2>1. code'[c] = Preflight!NoCode <=> proc'[c] \notin {"exited", "reaped"}
    BY <1>1, <1>2 DEF Preflight!WorkerTypes
  <2>2. QED BY <1>1, <1>2, <1>3, <2>1 DEF Preflight!WorkerTypes
<1>5. Preflight!SupervisorTypes'
  <2>1. stateFile' \in Preflight!Records
    BY <1>1, <1>2, <1>3 DEF Preflight!SupervisorTypes, Preflight!Records
  <2>2. cache' \in 0 .. CacheChanges
    BY <1>1, <1>2, PreflightConstants
    DEF Preflight!SupervisorTypes, Preflight!PreflightAssumption
  <2>3. QED BY <1>1, <1>2, <2>1, <2>2 DEF Preflight!SupervisorTypes
<1>6. WorkerKnown'
  BY <1>1, <1>2, <1>3 DEF WorkerKnown, Preflight!NoWorkerLeft
<1>7. ResultsKnown' BY <1>1, <1>2 DEF ResultsKnown
<1>8. SuccessKnown'
  <2>1. c = call => final = Preflight!Absent /\ outcome # "success"
    BY <1>1, <1>2 DEF SuccessKnown
  <2>2. \A d \in Preflight!Calls : marks[d] = Ledger => marks'[d] = Ledger
    BY <1>1, <1>3
  <2>3. \A x \in {stateFile, final} : x.status = "success" => x.by \in Preflight!Calls
    BY <1>1
    DEF Preflight!SupervisorTypes, Preflight!Records, Preflight!Absent, Preflight!Starting
  <2>4. stateFile'.status = "success" => marks'[stateFile'.by] = Ledger
    BY <1>1, <1>2, <1>3, <2>2, <2>3 DEF SuccessKnown
  <2>5. QED
    BY <1>1, <1>2, <1>3, <2>1, <2>2, <2>3, <2>4 DEF SuccessKnown
<1>9. QED BY <1>4, <1>5, <1>6, <1>7, <1>8 DEF PreflightInv, Preflight!TypeOK

LEMMA NextPreflightInv ==
  ASSUME PreflightInv, [Preflight!Next]_(Preflight!vars)
  PROVE  PreflightInv'
<1>1. CASE Preflight!Next
  BY <1>1, QuietSupervision, LoudSupervision, WorkerSteps
  DEF Preflight!Next, Preflight!SupervisorStep
<1>2. CASE UNCHANGED Preflight!vars
  BY <1>2
  DEF Preflight!vars, Preflight!workerVars, Preflight!clockVars, Preflight!resultVars,
      PreflightInv, Preflight!TypeOK, Preflight!WorkerTypes, Preflight!SupervisorTypes,
      WorkerKnown, ResultsKnown, SuccessKnown, Preflight!NoWorkerLeft
<1>3. QED BY <1>1, <1>2

(* For every ledger, every number of calls on a machine and of exceptions:   *)
(* a PASS is that of the call's own worker, and no worker is left behind.    *)
THEOREM PreflightStaysSafe == AllSpec => []PreflightIsSafe
<1>1. Start => PreflightInv
  BY PreflightStarts DEF Start
<1>2. PreflightInv /\ [SomeStep]_allVars => PreflightInv'
  BY PreflightProjects, NextPreflightInv
<1>3. PreflightInv => PreflightIsSafe
  <2> SUFFICES ASSUME PreflightInv PROVE PreflightIsSafe
    OBVIOUS
  <2>1. Preflight!NoWorkerLeft /\ Preflight!NoPassAfterTimeout
    BY DEF PreflightInv, WorkerKnown, SuccessKnown, Preflight!NoPassAfterTimeout
  <2>2. Preflight!PassIsReal
    BY DEF PreflightInv, SuccessKnown, Preflight!PassIsReal, Preflight!Record
  <2>3. QED BY <2>1, <2>2 DEF PreflightInv, PreflightIsSafe
<1>4. QED BY <1>1, <1>2, <1>3, PTL DEF AllSpec

(* The published record is rewritten by nobody but a worker that an earlier, *)
(* killed or interrupted supervisor left behind.                             *)
THEOREM PreflightRecordStays == AllSpec => Preflight!RecordStays
<1>1. Start => PreflightInv
  BY PreflightStarts DEF Start
<1>2. PreflightInv /\ [SomeStep]_allVars => PreflightInv'
  BY PreflightProjects, NextPreflightInv
<1> DEFINE Stays == final # Preflight!Absent /\ final' = final /\ stateFile' # stateFile
                      => \E c \in 1 .. call - 1 : Preflight!Alive(c)
<1>3. PreflightInv /\ [SomeStep]_allVars => [Stays]_(Preflight!vars)
  <2> SUFFICES ASSUME PreflightInv, [SomeStep]_allVars, final # Preflight!Absent,
                      final' = final, stateFile' # stateFile
               PROVE  \E c \in 1 .. call - 1 : Preflight!Alive(c)
    OBVIOUS
  <2>1. Preflight!Next
    BY PreflightProjects DEF Preflight!vars
  <2>2. proc[call] = "reaped" /\ preflightPc # "start"
    BY DEF PreflightInv, SuccessKnown, ResultsKnown
  <2>3. PICK c \in Preflight!Calls : Preflight!WorkerStep(c)
    BY <2>1, <2>2
    DEF Preflight!Next, Preflight!SupervisorStep, Preflight!OutputNotEmpty,
        Preflight!CreateState, Preflight!Launch, Preflight!EnterLoop, Preflight!Look,
        Preflight!PollFindsExit, Preflight!PollFindsTimeout, Preflight!PollContinues,
        Preflight!SendTerm, Preflight!NothingToTerminate, Preflight!EndsInGrace,
        Preflight!GraceExpires, Preflight!WaitReaps, Preflight!ReadFinalState,
        Preflight!WriteDecision, Preflight!WriteManifest, Preflight!RaisesInTry,
        Preflight!RaisesOutside, Preflight!Kill, Preflight!NextCall,
        Preflight!OverallTimeoutPasses, Preflight!NoProgressTimeoutPasses, Preflight!Goto
  <2>4. Preflight!Alive(c)
    BY <2>3
    DEF Preflight!WorkerStep, Preflight!WorkerMarksPhase, Preflight!CacheChangesBy,
        Preflight!WorkerCompletes, Preflight!WorkerFails, Preflight!WorkerExits,
        Preflight!WorkerDies, Preflight!Alive
  <2>5. c <= call /\ c # call /\ c \in Nat \ {0} /\ call \in Nat
    BY <2>2, <2>4, PreflightConstants
    DEF PreflightInv, Preflight!TypeOK, Preflight!WorkerTypes,
        Preflight!SupervisorTypes, Preflight!Alive, Preflight!Calls,
        Preflight!PreflightAssumption
  <2>6. QED BY <2>4, <2>5
<1>4. QED
  BY <1>1, <1>2, <1>3, PTL DEF AllSpec, Preflight!RecordStays

-----------------------------------------------------------------------------
(* The setup of an official baseline.                                       *)

LEMMA SetupConstants == SetupFaults \in Nat
BY InstancesAssumption DEF Setup!SetupAssumption

(* A sync is under way as long as no status says how it ended, and what the *)
(* stages decided holds until the source or the resource changes.           *)
SourceKnown ==
  /\ setupPc \in {"intake", "checkout1", "checkout2"} => status = "none"
  /\ Setup!SyncedIsPinned
  /\ setupPc = "reference" /\ closure.ready => setupSource = "pin"
  /\ Setup!MadeFromWholeTree

ResourceKnown ==
  /\ bound => resource # "absent"
  /\ setupDecision # Setup!None /\ setupDecision.path => resource # "absent"

SetupInv == Setup!TypeOK /\ SourceKnown /\ ResourceKnown

LEMMA SetupStarts == Setup!Init => SetupInv
<1> SUFFICES ASSUME Setup!Init PROVE SetupInv
  OBVIOUS
<1> USE SetupConstants DEF Setup!Init
<1>1. Setup!TypeOK
  <2>1. setupRun \in [clone : BOOLEAN, network : BOOLEAN, inputs : BOOLEAN]
    OBVIOUS
  <2>2. git \in [fresh : BOOLEAN, failed : BOOLEAN] OBVIOUS
  <2>3. bound \in BOOLEAN OBVIOUS
  <2>4. setupFaults \in 0 .. SetupFaults OBVIOUS
  <2>5. QED BY <2>1, <2>2, <2>3, <2>4 DEF Setup!TypeOK, Setup!Stages, Setup!Commits
<1>2. SourceKnown BY DEF SourceKnown, Setup!SyncedIsPinned, Setup!MadeFromWholeTree
<1>3. ResourceKnown BY DEF ResourceKnown
<1>4. QED BY <1>1, <1>2, <1>3 DEF SetupInv

LEMMA SetupTyped ==
  ASSUME SetupInv
  PROVE  /\ Setup!TypeOK /\ SourceKnown /\ ResourceKnown
         /\ setupFaults \in 0 .. SetupFaults /\ bound \in BOOLEAN
         /\ setupFaults < SetupFaults => setupFaults + 1 \in 0 .. SetupFaults
         /\ setupSource \in {"absent", "plain", "empty", "pin", "tip"}
         /\ git \in [fresh : BOOLEAN, failed : BOOLEAN]
BY SetupConstants DEF SetupInv, Setup!TypeOK, Setup!Commits

(* The intake of the source.                                                *)
LEMMA IntakeSteps == ASSUME SetupInv, Setup!Intake PROVE SetupInv'
<1>1. /\ Setup!TypeOK /\ SourceKnown /\ ResourceKnown
      /\ setupSource \in {"absent", "plain", "empty", "pin", "tip"}
      /\ git \in [fresh : BOOLEAN, failed : BOOLEAN]
  BY SetupTyped
<1>2. UNCHANGED <<resource, setupDecision, closure, bound, setupRun, setupBundle,
                  setupManifest, online>>
  BY DEF Setup!Intake, Setup!PlanOnly, Setup!NotARepository, Setup!Fetch,
     Setup!CloneSource, Setup!Checkout, Setup!Kept
<1>3. /\ setupPc \in {"intake", "checkout1", "checkout2"}
      /\ setupPc' \in {"checkout1", "checkout2", "bootstrap"}
      /\ setupSource' \in {"absent", "plain", "empty", "pin", "tip"}
      /\ git' \in [fresh : BOOLEAN, failed : BOOLEAN]
      /\ setupFaults' \in 0 .. SetupFaults
      /\ status' \in {"none", "planned_not_executed", "cloned", "updated", "failed"}
      /\ setupPc' \in {"checkout1", "checkout2"} => status' = "none"
      /\ status' \in {"cloned", "updated"} => setupSource' = "pin"
  <2>1. CASE Setup!PlanOnly \/ Setup!NotARepository \/ Setup!Fetch \/ Setup!CloneSource
    <3>1. /\ setupPc = "intake" /\ setupFaults' = setupFaults
          /\ setupPc' \in {"checkout1", "bootstrap"}
          /\ setupSource' \in {setupSource, "tip"}
          /\ \/ git' = git
             \/ \E b \in BOOLEAN : git' = [fresh |-> b, failed |-> ~online]
          /\ \/ status' \in {"planned_not_executed", "failed"} /\ setupPc' = "bootstrap"
             \/ status' = status
      BY <2>1
      DEF Setup!PlanOnly, Setup!NotARepository, Setup!Fetch, Setup!CloneSource, Setup!Kept
    <3>2. git' \in [fresh : BOOLEAN, failed : BOOLEAN]
      <4>1. ASSUME NEW b \in BOOLEAN, NEW f \in BOOLEAN
            PROVE  [fresh |-> b, failed |-> f] \in [fresh : BOOLEAN, failed : BOOLEAN]
        OBVIOUS
      <4>2. (~online) \in BOOLEAN OBVIOUS
      <4>3. \A b \in BOOLEAN :
               [fresh |-> b, failed |-> ~online] \in [fresh : BOOLEAN, failed : BOOLEAN]
        BY <4>1, <4>2
      <4>4. QED BY <1>1, <3>1, <4>3
    <3>3. status = "none" BY <1>1, <3>1 DEF SourceKnown
    <3>4. QED BY <1>1, <3>1, <3>2, <3>3, SetupTyped
  <2>2. ASSUME NEW i \in {1, 2}, Setup!Checkout(i)
        PROVE  /\ setupPc = (IF i = 1 THEN "checkout1" ELSE "checkout2")
               /\ setupPc' = (IF i = 1 THEN "checkout2" ELSE "bootstrap")
               /\ \E ok \in BOOLEAN :
                    /\ setupSource' = IF ok THEN (IF i = 1 THEN "tip" ELSE "pin")
                                      ELSE setupSource
                    /\ git' = [fresh |-> git.fresh, failed |-> git.failed \/ ~ok]
               /\ setupFaults' \in 0 .. SetupFaults
               /\ status' = IF i = 2 THEN Setup!SyncStatus(git') ELSE status
    <3>1. /\ setupPc = <<"checkout1", "checkout2">>[i]
          /\ setupPc' = <<"checkout2", "bootstrap">>[i]
          /\ status' = IF i = 2 THEN Setup!SyncStatus(git') ELSE status
      BY <2>2 DEF Setup!Checkout
    <3>2. PICK ok \in BOOLEAN :
             /\ IF setupSource = "empty" /\ git.failed THEN ~ok
                ELSE ok \/ setupFaults < SetupFaults
             /\ setupSource' = IF ok THEN Setup!Refs[i] ELSE setupSource
             /\ git' = [git EXCEPT !.failed = @ \/ ~ok]
             /\ setupFaults' = IF ok \/ (setupSource = "empty" /\ git.failed)
                               THEN setupFaults ELSE setupFaults + 1
      BY <2>2 DEF Setup!Checkout
    <3>3. git' = [fresh |-> git.fresh, failed |-> git.failed \/ ~ok]
      BY <1>1, <3>2
    <3>4. setupFaults' \in 0 .. SetupFaults BY <3>2, SetupTyped
    <3>5. CASE i = 1 BY <3>1, <3>2, <3>3, <3>4, <3>5 DEF Setup!Refs
    <3>6. CASE i = 2
      <4>1. /\ setupPc = "checkout2" /\ setupPc' = "bootstrap"
            /\ status' = Setup!SyncStatus(git')
        BY <3>1, <3>6
      <4>2. setupSource' = IF ok THEN "pin" ELSE setupSource
        BY <3>2, <3>6 DEF Setup!Refs
      <4>3. QED BY <3>3, <3>4, <3>6, <4>1, <4>2
    <3>7. QED BY <3>5, <3>6
  <2>3. ASSUME NEW i \in {1, 2}, Setup!Checkout(i)
        PROVE  /\ git' \in [fresh : BOOLEAN, failed : BOOLEAN]
               /\ i = 2 /\ ~git'.failed => setupSource' = "pin"
    <3>1. PICK ok \in BOOLEAN :
            /\ setupSource' = IF ok THEN (IF i = 1 THEN "tip" ELSE "pin")
                              ELSE setupSource
            /\ git' = [fresh |-> git.fresh, failed |-> git.failed \/ ~ok]
      BY <2>2, <2>3
    <3> DEFINE f == git.failed \/ ~ok
    <3>2. f \in BOOLEAN /\ git.fresh \in BOOLEAN BY <1>1
    <3>3. ~f => ok OBVIOUS
    <3>4. git' = [fresh |-> git.fresh, failed |-> f] BY <3>1
    <3> HIDE DEF f
    <3>5. git' \in [fresh : BOOLEAN, failed : BOOLEAN] /\ git'.failed = f
      BY <3>2, <3>4
    <3>6. QED BY <3>1, <3>3, <3>5
  <2>4. CASE Setup!Checkout(1)
    <3>1. status = "none" BY <1>1, <2>2, <2>4 DEF SourceKnown
    <3>2. QED BY <1>1, <2>2, <2>3, <2>4, <3>1
  <2>5. CASE Setup!Checkout(2)
    BY <1>1, <2>2, <2>3, <2>5 DEF Setup!SyncStatus
  <2>6. QED BY <2>1, <2>4, <2>5 DEF Setup!Intake
<1>4. Setup!TypeOK' BY <1>1, <1>2, <1>3 DEF Setup!TypeOK, Setup!Stages, Setup!Commits
<1>5. SourceKnown'
  BY <1>1, <1>2, <1>3 DEF SourceKnown, Setup!SyncedIsPinned, Setup!MadeFromWholeTree
<1>6. ResourceKnown' BY <1>1, <1>2 DEF ResourceKnown
<1>7. QED BY <1>4, <1>5, <1>6 DEF SetupInv

(* The resources: a file that is there stays there.                         *)
LEMMA ResourceSteps == ASSUME SetupInv, Setup!Bootstrap \/ Setup!BootstrapRaises PROVE SetupInv'
<1>1. Setup!TypeOK /\ SourceKnown /\ ResourceKnown BY SetupTyped
<1>2. /\ UNCHANGED <<setupSource, closure, setupRun, git, status, setupBundle,
                     setupManifest, online>>
      /\ setupPc' \in {"decide", "download", "closure"}
      /\ \/ resource' = resource
         \/ resource' \in {"partial", "whole"}
      /\ setupFaults' \in 0 .. SetupFaults
  BY SetupTyped
  DEF Setup!Bootstrap, Setup!BootstrapRaises, Setup!ReuseOrSkip, Setup!StartDownload,
      Setup!EndDownload, Setup!Decide, Setup!Kept
<1>3. /\ bound' \in BOOLEAN
      /\ setupDecision' \in {Setup!None} \cup [ready : BOOLEAN, path : BOOLEAN]
      /\ ResourceKnown'
  <2>1. CASE Setup!ReuseOrSkip \/ Setup!StartDownload \/ Setup!EndDownload
    <3>1. bound' = bound /\ setupDecision' = setupDecision
      BY <2>1 DEF Setup!ReuseOrSkip, Setup!StartDownload, Setup!EndDownload
    <3>2. QED BY <1>1, <1>2, <3>1 DEF Setup!TypeOK, ResourceKnown
  <2>2. CASE Setup!BootstrapRaises
    <3>1. /\ resource' = resource /\ setupDecision' = setupDecision
          /\ bound' = (bound \/ (setupDecision # Setup!None /\ setupDecision.path))
      BY <2>2 DEF Setup!BootstrapRaises, Setup!Bind
    <3>2. (bound \/ (setupDecision # Setup!None /\ setupDecision.path)) \in BOOLEAN
      OBVIOUS
    <3>3. QED BY <1>1, <3>1, <3>2 DEF Setup!TypeOK, ResourceKnown
  <2>3. CASE Setup!Decide
    <3>1. /\ resource' = resource /\ setupDecision' = Setup!Row
          /\ bound' = (bound \/ (setupDecision' # Setup!None /\ setupDecision'.path))
      BY <2>3 DEF Setup!Decide, Setup!Bind
    <3>2. /\ (bound \/ (setupDecision' # Setup!None /\ setupDecision'.path)) \in BOOLEAN
          /\ (Setup!Installed /\ Setup!FilesThere /\ (TRUE => Setup!HasResource)) \in BOOLEAN
          /\ (resource # "absent") \in BOOLEAN
      OBVIOUS
    <3>3. /\ setupDecision' \in [ready : BOOLEAN, path : BOOLEAN]
          /\ setupDecision'.path = (resource # "absent")
      BY <3>1, <3>2 DEF Setup!Row, Setup!RowPath, Setup!HasResource
    <3>4. QED BY <1>1, <3>1, <3>2, <3>3 DEF ResourceKnown
  <2>4. QED BY <2>1, <2>2, <2>3 DEF Setup!Bootstrap
<1>4. Setup!TypeOK' BY <1>1, <1>2, <1>3 DEF Setup!TypeOK, Setup!Stages
<1>5. SourceKnown'
  BY <1>1, <1>2 DEF SourceKnown, Setup!SyncedIsPinned, Setup!MadeFromWholeTree
<1>6. QED BY <1>3, <1>4, <1>5 DEF SetupInv

(* The closure, and the attempt it allows.                                  *)
LEMMA AttemptSteps == ASSUME SetupInv, Setup!Attempt PROVE SetupInv'
<1>1. Setup!TypeOK /\ SourceKnown /\ ResourceKnown BY SetupTyped
<1>2. /\ UNCHANGED <<setupSource, resource, setupDecision, setupRun, git, status, online,
                     setupFaults>>
      /\ setupPc \notin {"intake", "checkout1", "checkout2"}
  BY DEF Setup!Attempt, Setup!Close, Setup!Blocked, Setup!Generate, Setup!Fails, Setup!Kept
<1>3. CASE Setup!Close
  <2>1. /\ setupPc' = "reference" /\ setupBundle' = setupBundle
        /\ setupManifest' = setupManifest
        /\ closure' = [ready |-> Setup!ReadyToAttempt, missing |-> Setup!Missing]
        /\ bound' = (bound \/ resource # "absent")
    BY <1>3 DEF Setup!Close, Setup!HasResource
  <2>2. Setup!ReadyToAttempt \in BOOLEAN /\ (bound \/ resource # "absent") \in BOOLEAN
    BY DEF Setup!ReadyToAttempt
  <2>3. Setup!Missing \in SUBSET {"source", "resource", "inputs"}
    BY DEF Setup!Missing
  <2>4. closure' \in [ready : BOOLEAN, missing : SUBSET {"source", "resource", "inputs"}]
    BY <2>1, <2>2, <2>3
  <2>5. closure'.ready => setupSource = "pin"
    BY <2>1 DEF Setup!ReadyToAttempt, Setup!Missing
  <2>6. Setup!TypeOK' BY <1>1, <1>2, <2>1, <2>2, <2>4 DEF Setup!TypeOK, Setup!Stages
  <2>7. SourceKnown'
    BY <1>1, <1>2, <2>1, <2>5 DEF SourceKnown, Setup!SyncedIsPinned, Setup!MadeFromWholeTree
  <2>8. ResourceKnown' BY <1>1, <1>2, <2>1 DEF ResourceKnown
  <2>9. QED BY <2>6, <2>7, <2>8 DEF SetupInv
<1>4. CASE Setup!Blocked \/ Setup!Generate \/ Setup!Fails
  <2>1. /\ setupPc' = "idle" /\ UNCHANGED <<closure, bound>>
        /\ setupManifest' \in {"blocked", "generated", "failed"}
        /\ \/ setupBundle' = setupBundle
           \/ /\ setupBundle' = [names |-> "pin", made |-> setupSource]
              /\ setupSource \in {"pin", "tip"} /\ setupSource = "pin"
    BY <1>1, <1>4
    DEF Setup!Blocked, Setup!Generate, Setup!Fails, Setup!Works, Setup!Commits, SourceKnown
  <2>2. Setup!TypeOK' BY <1>1, <1>2, <2>1 DEF Setup!TypeOK, Setup!Stages, Setup!Commits
  <2>3. SourceKnown'
    BY <1>1, <1>2, <2>1 DEF SourceKnown, Setup!SyncedIsPinned, Setup!MadeFromWholeTree
  <2>4. ResourceKnown' BY <1>1, <1>2, <2>1 DEF ResourceKnown
  <2>5. QED BY <2>2, <2>3, <2>4 DEF SetupInv
<1>5. QED BY <1>3, <1>4 DEF Setup!Attempt

(* A run begins, is killed, or the network comes and goes.                  *)
LEMMA OutsideSteps ==
  ASSUME SetupInv, Setup!Begin \/ Setup!Kill \/ Setup!Network \/ UNCHANGED Setup!vars
  PROVE  SetupInv'
<1>1. /\ Setup!TypeOK /\ SourceKnown /\ ResourceKnown
      /\ setupFaults < SetupFaults => setupFaults + 1 \in 0 .. SetupFaults
      /\ setupFaults \in 0 .. SetupFaults
  BY SetupTyped
<1>2. /\ UNCHANGED <<resource, setupDecision, closure, git, setupBundle, setupManifest>>
      /\ \/ setupSource' = setupSource
         \/ setupSource' = "empty" /\ setupPc = "intake" /\ setupPc' = "idle" /\ status' = status
      /\ \/ setupPc' = setupPc
         \/ setupPc' = "intake" /\ status' = "none"
         \/ setupPc' = "idle"
      /\ status' \in {status, "none"}
      /\ bound' = bound \/ bound' = FALSE
      /\ online' \in BOOLEAN
      /\ setupRun' \in [clone : BOOLEAN, network : BOOLEAN, inputs : BOOLEAN]
      /\ setupFaults' \in 0 .. SetupFaults
  <2>1. (~online) \in BOOLEAN OBVIOUS
  <2>2. QED
    BY <1>1, <2>1
    DEF Setup!Begin, Setup!Kill, Setup!Network, Setup!vars, Setup!Kept, Setup!TypeOK
<1>3. Setup!TypeOK'
  <2>1. bound \in BOOLEAN BY <1>1 DEF Setup!TypeOK
  <2>2. bound' \in BOOLEAN BY <1>2, <2>1
  <2>3. QED BY <1>1, <1>2, <2>2 DEF Setup!TypeOK, Setup!Stages, Setup!Commits
<1>4. SourceKnown'
  BY <1>1, <1>2 DEF SourceKnown, Setup!SyncedIsPinned, Setup!MadeFromWholeTree
<1>5. ResourceKnown' BY <1>1, <1>2 DEF ResourceKnown
<1>6. QED BY <1>3, <1>4, <1>5 DEF SetupInv

LEMMA NextSetupInv == SetupInv /\ [Setup!Next]_(Setup!vars) => SetupInv'
BY IntakeSteps, ResourceSteps, AttemptSteps, OutsideSteps DEF Setup!Next

LEMMA SetupIsAsPromised ==
  ASSUME SetupInv
  PROVE  /\ Setup!TypeOK /\ Setup!SyncedIsPinned /\ Setup!BoundIsThere
         /\ Setup!MadeFromWholeTree
BY DEF SetupInv, SourceKnown, ResourceKnown, Setup!BoundIsThere, Setup!HasResource

LEMMA SetupProjects == [SomeStep]_allVars => [Setup!Next]_(Setup!vars)
<1> SUFFICES ASSUME [SomeStep]_allVars PROVE [Setup!Next]_(Setup!vars)
  OBVIOUS
<1> USE DEF setupVars, Setup!vars, Setup!Kept
<1>1. CASE SetupStep BY <1>1 DEF SetupStep
<1>2. CASE Rest /\ program # "setup"
  BY <1>2 DEF Rest
<1>3. CASE UNCHANGED allVars BY <1>3 DEF allVars
<1>4. QED
  BY <1>1, <1>2, <1>3
  DEF SomeStep, ProbeStep, RuntimeStep, PreflightStep, ScoringStep,
      PromotionStep, FramesStep, AtomStep, ServerStep, OfficialReferenceStep,
      CommandsStep, ProvenanceStep

-----------------------------------------------------------------------------
(* The provenance of code and model.                                        *)

LEMMA ProvenanceConstants == ProvenanceEvents \in Nat
BY InstancesAssumption DEF Provenance!ProvenanceAssumption

Trees == [Provenance!Files -> 0 .. 3]
ServerCalls == [root : {"none", "repository", "package"},
                request : {"none", "branch", "commit"},
                decision : {Provenance!None} \cup Provenance!Decisions,
                written : BOOLEAN]

LEMMA TreesOfCommits ==
  /\ Provenance!TreeOf[1] \in Trees /\ Provenance!TreeOf[2] \in Trees
  /\ Provenance!TreeOf[1]["a"] = 1 /\ Provenance!TreeOf[2]["a"] = 1
  /\ Provenance!NoTree \in Trees /\ Provenance!NoTree["a"] = 0
BY DEF Provenance!TreeOf, Trees, Provenance!Files, Provenance!NoTree

(* A file of the work tree is in the package; where the directory was empty *)
(* a file that is not there is not in the package either.                   *)
Copied(f) ==
  /\ work[f] # 0 => provenancePackage[f] = work[f]
  /\ ~target.over => provenancePackage[f] = work[f]

(* An extraction holds the repository still and copies it file by file.  In *)
(* an empty directory there is no manifest before its own; over an earlier  *)
(* extraction files and manifest of that one stay until they are replaced.  *)
PackageKnown ==
  /\ work["a"] # 0
  /\ copy.at # 0 => /\ provenanceArgs.root = "none" /\ ~target.whole
                    /\ copy.commit = head /\ (copy.clean <=> work = Provenance!TreeOf[head])
                    /\ ~target.over => provenanceManifest = Provenance!None
  /\ copy.at = 1 /\ ~target.over => provenancePackage = Provenance!NoTree
  /\ copy.at \in {2, 3, 4} => Copied("a")
  /\ copy.at \in {3, 4} => Copied("b")
  /\ copy.at = 4 => Copied("c")
  /\ copy.at = 2 /\ ~target.over => provenancePackage["b"] = 0
  /\ copy.at \in {2, 3} /\ ~target.over => provenancePackage["c"] = 0
  /\ provenanceManifest # Provenance!None =>
       provenancePackage # Provenance!NoTree /\ (target.whole \/ target.over)
  /\ target.whole =>
       /\ provenanceManifest # Provenance!None
       /\ provenanceManifest.clean =>
            /\ Provenance!Carries(provenancePackage, provenanceManifest.commit)
            /\ ~target.over =>
                 provenancePackage = Provenance!TreeOf[provenanceManifest.commit]

(* A preflight that found nothing wrong named the code and the model that   *)
(* the call goes on to run.                                                 *)
CallKnown ==
  /\ provenanceArgs \in ServerCalls
  /\ provenanceArgs.root = "none" => provenanceArgs = Provenance!NoCall
  /\ Provenance!Passed(provenanceArgs.decision) =>
       /\ provenanceArgs.decision.commit \in {1, 2} /\ provenanceArgs.decision.model \in {1, 2}
       /\ Provenance!NamesTheCode(provenanceArgs.decision.commit,
                                   Provenance!Tree(provenanceArgs.root))
  /\ provenanceArgs.written =>
       artifact = provenanceArgs.decision /\ Provenance!Passed(provenanceArgs.decision)

(* What ran is what the record beside it names.                             *)
RecordKnown ==
  /\ Provenance!OnlyPassedRuns
  /\ ran # Provenance!None =>
       /\ ran.model = artifact.model
       /\ provenanceArgs.root = "none" \/ provenanceArgs.written
       /\ provenanceArgs.written => Provenance!NamesTheCode(artifact.commit, ran.tree)

ProvenanceInv == Provenance!TypeOK /\ PackageKnown /\ CallKnown /\ RecordKnown

LEMMA ProvenanceTyped ==
  ASSUME ProvenanceInv
  PROVE  /\ Provenance!TypeOK /\ PackageKnown /\ CallKnown /\ RecordKnown
         /\ head \in {1, 2} /\ work \in Trees /\ provenancePackage \in Trees
         /\ copy \in [at : 0 .. 4, commit : 1 .. 2, clean : BOOLEAN]
         /\ target \in [inside : BOOLEAN, over : BOOLEAN, whole : BOOLEAN]
         /\ events < ProvenanceEvents => events + 1 \in 0 .. ProvenanceEvents
         /\ provenanceArgs \in ServerCalls
<1>1. Provenance!TypeOK /\ PackageKnown /\ CallKnown /\ RecordKnown BY DEF ProvenanceInv
<1>2. head \in {1, 2} /\ work \in Trees /\ provenancePackage \in Trees
  BY <1>1 DEF Provenance!TypeOK, Trees
<1>3. events < ProvenanceEvents => events + 1 \in 0 .. ProvenanceEvents
  BY <1>1, ProvenanceConstants DEF Provenance!TypeOK
<1>4. /\ copy \in [at : 0 .. 4, commit : 1 .. 2, clean : BOOLEAN]
      /\ target \in [inside : BOOLEAN, over : BOOLEAN, whole : BOOLEAN]
  BY <1>1 DEF Provenance!TypeOK
<1>5. QED BY <1>1, <1>2, <1>3, <1>4 DEF CallKnown

LEMMA ProvenanceStarts == Provenance!Init => ProvenanceInv
<1> SUFFICES ASSUME Provenance!Init PROVE ProvenanceInv
  OBVIOUS
<1> USE TreesOfCommits
    DEF Provenance!Init, Provenance!NoCall, Provenance!Idle, Provenance!NewTarget
<1>1. provenanceArgs \in ServerCalls BY DEF ServerCalls
<1>2. copy \in [at : 0 .. 4, commit : 1 .. 2, clean : BOOLEAN] OBVIOUS
<1>3. work \in Trees /\ provenancePackage \in Trees /\ work["a"] # 0 OBVIOUS
<1>4. events \in 0 .. ProvenanceEvents BY ProvenanceConstants
<1>5. Provenance!TypeOK BY <1>1, <1>2, <1>3, <1>4 DEF Provenance!TypeOK, Trees, ServerCalls
<1>6. PackageKnown BY <1>3 DEF PackageKnown
<1>7. CallKnown BY <1>1 DEF CallKnown, Provenance!Passed
<1>8. RecordKnown BY DEF RecordKnown, Provenance!OnlyPassedRuns
<1>9. QED BY <1>5, <1>6, <1>7, <1>8 DEF ProvenanceInv

(* The developer and the hub.                                               *)
LEMMA OthersSteps ==
  ASSUME ProvenanceInv, Provenance!Edit \/ Provenance!CheckOut \/ Provenance!BranchMoves
                        \/ UNCHANGED Provenance!vars
  PROVE  ProvenanceInv'
<1>1. /\ Provenance!TypeOK /\ PackageKnown /\ CallKnown /\ RecordKnown
      /\ head \in {1, 2} /\ work \in Trees
      /\ events < ProvenanceEvents => events + 1 \in 0 .. ProvenanceEvents
  BY ProvenanceTyped
<1>2. /\ UNCHANGED <<provenancePackage, provenanceManifest, target, copy,
                     provenanceArgs, ran, artifact>>
      /\ branch' \in {branch, 2} /\ events' \in 0 .. ProvenanceEvents
      /\ \/ head' = head /\ work' = work
         \/ copy.at = 0 /\ provenanceArgs.root = "none" /\ head' \in {1, 2}
            /\ \/ work' = Provenance!TreeOf[head']
               \/ \E f \in Provenance!Files : work' = [work EXCEPT ![f] = 3]
  BY <1>1
  DEF Provenance!Edit, Provenance!CheckOut, Provenance!BranchMoves, Provenance!vars,
      Provenance!Happens, Provenance!Quiet, Provenance!TypeOK
<1>3. head' \in {1, 2} BY <1>1, <1>2
<1>4. work' \in Trees /\ work'["a"] # 0
  <2>1. CASE head' = head /\ work' = work BY <1>1, <2>1 DEF PackageKnown
  <2>2. CASE work' = Provenance!TreeOf[head'] BY <1>3, <2>2, TreesOfCommits
  <2>3. CASE \E f \in Provenance!Files : work' = [work EXCEPT ![f] = 3]
    BY <1>1, <2>3 DEF PackageKnown, Trees, Provenance!Files
  <2>4. QED BY <1>2, <2>1, <2>2, <2>3
<1>5. Provenance!TypeOK' BY <1>1, <1>2, <1>3, <1>4 DEF Provenance!TypeOK, Trees
<1>6. PackageKnown' BY <1>1, <1>2, <1>4 DEF PackageKnown, Copied, Provenance!Carries
<1>10. \A c, t : Provenance!NamesTheCode(c, t)' <=> Provenance!NamesTheCode(c, t)
  BY <1>2 DEF Provenance!NamesTheCode, Provenance!SpeaksOfPackage, Provenance!Carries
<1>7. CallKnown'
  <2>1. CASE head' = head /\ work' = work
    <3>1. Provenance!Tree(provenanceArgs.root)' = Provenance!Tree(provenanceArgs.root)
      BY <1>2, <2>1 DEF Provenance!Tree
    <3>2. UNCHANGED <<provenanceArgs, artifact>> BY <1>2
    <3>3. QED BY <1>1, <1>10, <3>1, <3>2 DEF CallKnown, Provenance!Passed
  <2>2. CASE provenanceArgs.root = "none"
    <3>1. provenanceArgs = Provenance!NoCall BY <1>1, <2>2 DEF CallKnown
    <3>2. provenanceArgs.decision = Provenance!None BY <3>1 DEF Provenance!NoCall
    <3>3. ~Provenance!Passed(provenanceArgs.decision) BY <3>2 DEF Provenance!Passed
    <3>4. QED BY <1>1, <1>2, <3>3 DEF CallKnown, Provenance!Passed
  <2>3. QED BY <1>2, <2>1, <2>2
<1>8. RecordKnown'
  BY <1>1, <1>2, <1>10 DEF RecordKnown, Provenance!OnlyPassedRuns, Provenance!Passed
<1>9. QED BY <1>5, <1>6, <1>7, <1>8 DEF ProvenanceInv

(* The extraction of a package.                                             *)
LEMMA ExtractSteps == ASSUME ProvenanceInv, Provenance!Extract PROVE ProvenanceInv'
<1>1. /\ Provenance!TypeOK /\ PackageKnown /\ CallKnown /\ RecordKnown
      /\ head \in {1, 2} /\ work \in Trees /\ provenancePackage \in Trees
      /\ copy \in [at : 0 .. 4, commit : 1 .. 2, clean : BOOLEAN]
      /\ target \in [inside : BOOLEAN, over : BOOLEAN, whole : BOOLEAN]
      /\ events < ProvenanceEvents => events + 1 \in 0 .. ProvenanceEvents
  BY ProvenanceTyped
<1>2. /\ UNCHANGED <<head, work, branch, provenanceArgs, ran, artifact>>
      /\ events' \in 0 .. ProvenanceEvents
      /\ provenanceArgs.root = "none"
  BY <1>1
  DEF Provenance!Extract, Provenance!StartExtract, Provenance!CopyFile,
      Provenance!WriteManifest, Provenance!KillExtract, Provenance!Happens,
      Provenance!Quiet, Provenance!TypeOK, PackageKnown
<1>11. /\ provenanceArgs.decision = Provenance!None /\ ~provenanceArgs.written
  <2>1. provenanceArgs = Provenance!NoCall BY <1>1, <1>2 DEF CallKnown
  <2>2. QED BY <2>1 DEF Provenance!NoCall
<1>3. CallKnown' BY <1>1, <1>2, <1>11 DEF CallKnown, Provenance!Passed
<1>4. RecordKnown'
  BY <1>1, <1>2, <1>11 DEF RecordKnown, Provenance!OnlyPassedRuns, Provenance!Passed
<1>5. SUFFICES /\ copy' \in [at : 0 .. 4, commit : 1 .. 2, clean : BOOLEAN]
               /\ target' \in [inside : BOOLEAN, over : BOOLEAN, whole : BOOLEAN]
               /\ provenancePackage' \in Trees
               /\ provenanceManifest' \in {Provenance!None}
                                            \cup [commit : 1 .. 2, clean : BOOLEAN]
               /\ PackageKnown'
  BY <1>1, <1>2, <1>3, <1>4 DEF ProvenanceInv, Provenance!TypeOK, Trees
<1>6. CASE Provenance!StartExtract
  <2>1. copy' = [at |-> 1, commit |-> head, clean |-> Provenance!WorkIsClean]
    BY <1>6 DEF Provenance!StartExtract
  <2>2. \/ /\ target' = [target EXCEPT !.over = provenancePackage # Provenance!NoTree,
                                       !.whole = FALSE]
           /\ provenancePackage' = provenancePackage
           /\ provenanceManifest' = provenanceManifest
        \/ /\ \E inside \in BOOLEAN :
                target' = [inside |-> inside, over |-> FALSE, whole |-> FALSE]
           /\ provenancePackage' = Provenance!NoTree
           /\ provenanceManifest' = Provenance!None
    BY <1>6
    DEF Provenance!StartExtract, Provenance!IntoSameDirectory,
        Provenance!IntoNewDirectory, Provenance!NewTarget
  <2>3. /\ copy' \in [at : 0 .. 4, commit : 1 .. 2, clean : BOOLEAN]
        /\ copy'.at = 1 /\ copy'.commit = head
        /\ copy'.clean <=> work = Provenance!TreeOf[head]
    <3>1. Provenance!WorkIsClean \in BOOLEAN BY DEF Provenance!WorkIsClean
    <3>2. Provenance!WorkIsClean <=> work = Provenance!TreeOf[head]
      BY DEF Provenance!WorkIsClean
    <3>3. QED BY <1>1, <2>1, <3>1, <3>2
  <2>4. /\ target' \in [inside : BOOLEAN, over : BOOLEAN, whole : BOOLEAN]
        /\ ~target'.whole
        /\ target'.over <=> provenancePackage' # Provenance!NoTree
    <3> DEFINE found == provenancePackage # Provenance!NoTree
    <3>1. found \in BOOLEAN OBVIOUS
    <3>2. CASE /\ target' = [target EXCEPT !.over = found, !.whole = FALSE]
               /\ provenancePackage' = provenancePackage
      <4>1. found <=> provenancePackage' # Provenance!NoTree BY <3>2
      <4> HIDE DEF found
      <4>2. /\ target' \in [inside : BOOLEAN, over : BOOLEAN, whole : BOOLEAN]
            /\ ~target'.whole /\ target'.over = found
        BY <1>1, <3>1, <3>2
      <4>3. QED BY <4>1, <4>2
    <3>3. CASE /\ \E inside \in BOOLEAN :
                    target' = [inside |-> inside, over |-> FALSE, whole |-> FALSE]
               /\ provenancePackage' = Provenance!NoTree
      BY <3>3
    <3>4. QED BY <2>2, <3>2, <3>3
  <2>5. /\ ~target'.over =>
             /\ provenancePackage' = Provenance!NoTree
             /\ provenanceManifest' = Provenance!None
        /\ provenanceManifest' # Provenance!None =>
             provenancePackage' # Provenance!NoTree /\ target'.over
    BY <1>1, <2>2, <2>4 DEF PackageKnown
  <2>6. PackageKnown' BY <1>1, <1>2, <2>3, <2>4, <2>5 DEF PackageKnown
  <2>7. QED BY <1>1, <2>2, <2>3, <2>4, <2>6, TreesOfCommits DEF Provenance!TypeOK
<1>7. CASE Provenance!CopyFile
  <2>1. /\ copy.at \in {1, 2, 3} /\ copy' = [copy EXCEPT !.at = copy.at + 1]
        /\ provenanceManifest' = provenanceManifest /\ target' = target
    BY <1>7 DEF Provenance!CopyFile
  <2>2. /\ copy' \in [at : 0 .. 4, commit : 1 .. 2, clean : BOOLEAN]
        /\ copy'.commit = copy.commit /\ copy'.clean = copy.clean
        /\ copy'.at = copy.at + 1
    BY <1>1, <2>1
  <2>3. PICK f \in Provenance!Files :
          /\ f = Provenance!CopyOrder[copy.at]
          /\ provenancePackage' = IF work[f] = 0 THEN provenancePackage
                                  ELSE [provenancePackage EXCEPT ![f] = work[f]]
    <3>1. Provenance!CopyOrder[copy.at] \in Provenance!Files
      BY <2>1 DEF Provenance!CopyOrder, Provenance!Files
    <3>2. QED BY <1>7, <3>1 DEF Provenance!CopyFile
  <2>4. provenancePackage' \in Trees
    BY <1>1, <2>3 DEF Trees
  <2>5. /\ work[f] # 0 => provenancePackage'[f] = work[f]
        /\ work[f] = 0 => provenancePackage'[f] = provenancePackage[f]
        /\ \A g \in Provenance!Files \ {f} :
             provenancePackage'[g] = provenancePackage[g]
    BY <1>1, <2>3 DEF Trees
  <2>6. \A g \in Provenance!Files \ {f} : Copied(g)' <=> Copied(g)
    BY <1>2, <2>1, <2>5 DEF Copied
  <2>7. provenancePackage # Provenance!NoTree => provenancePackage' # Provenance!NoTree
    <3>1. ASSUME provenancePackage' = Provenance!NoTree
          PROVE  \A g \in Provenance!Files : provenancePackage[g] = 0
      BY <2>5, <3>1 DEF Provenance!NoTree
    <3>2. QED BY <1>1, <3>1 DEF Trees, Provenance!NoTree
  <2>8. Provenance!NoTree["a"] = 0 /\ Provenance!NoTree["b"] = 0
        /\ Provenance!NoTree["c"] = 0
    BY DEF Provenance!NoTree, Provenance!Files
  <2>9. provenanceManifest # Provenance!None =>
          provenancePackage' # Provenance!NoTree /\ target.over
    BY <1>1, <2>1, <2>7 DEF PackageKnown
  <2>10. /\ ~target.whole /\ provenanceArgs.root = "none"
         /\ copy.commit = head /\ (copy.clean <=> work = Provenance!TreeOf[head])
         /\ ~target.over => provenanceManifest = Provenance!None
    BY <1>1, <2>1 DEF PackageKnown
  <2>11. CASE copy.at = 1
    <3>1. f = "a" BY <2>3, <2>11 DEF Provenance!CopyOrder
    <3>2. copy'.at = 2 BY <2>2, <2>11
    <3>3. ~target.over => /\ provenancePackage["a"] = 0 /\ provenancePackage["b"] = 0
                          /\ provenancePackage["c"] = 0
      BY <1>1, <2>8, <2>11 DEF PackageKnown
    <3>4. Copied("a")' BY <1>2, <2>1, <2>5, <3>1, <3>3 DEF Copied
    <3>5. ~target.over => provenancePackage'["b"] = 0 /\ provenancePackage'["c"] = 0
      BY <2>5, <3>1, <3>3 DEF Provenance!Files
    <3>6. PackageKnown'
      BY <1>1, <1>2, <2>1, <2>2, <2>9, <2>10, <3>2, <3>4, <3>5 DEF PackageKnown
    <3>7. QED BY <1>1, <2>1, <2>2, <2>4, <3>6 DEF Provenance!TypeOK
  <2>12. CASE copy.at = 2
    <3>1. f = "b" BY <2>3, <2>12 DEF Provenance!CopyOrder
    <3>2. copy'.at = 3 BY <2>2, <2>12
    <3>3. /\ Copied("a")
          /\ ~target.over => provenancePackage["b"] = 0 /\ provenancePackage["c"] = 0
      BY <1>1, <2>12 DEF PackageKnown
    <3>4. Copied("a")' BY <2>6, <3>1, <3>3 DEF Provenance!Files
    <3>5. Copied("b")' BY <1>2, <2>1, <2>5, <3>1, <3>3 DEF Copied
    <3>6. ~target.over => provenancePackage'["c"] = 0
      BY <2>5, <3>1, <3>3 DEF Provenance!Files
    <3>7. PackageKnown'
      BY <1>1, <1>2, <2>1, <2>2, <2>9, <2>10, <3>2, <3>4, <3>5, <3>6 DEF PackageKnown
    <3>8. QED BY <1>1, <2>1, <2>2, <2>4, <3>7 DEF Provenance!TypeOK
  <2>13. CASE copy.at = 3
    <3>1. f = "c" BY <2>3, <2>13 DEF Provenance!CopyOrder
    <3>2. copy'.at = 4 BY <2>2, <2>13
    <3>3. /\ Copied("a") /\ Copied("b")
          /\ ~target.over => provenancePackage["c"] = 0
      BY <1>1, <2>13 DEF PackageKnown
    <3>4. Copied("a")' /\ Copied("b")' BY <2>6, <3>1, <3>3 DEF Provenance!Files
    <3>5. Copied("c")' BY <1>2, <2>1, <2>5, <3>1, <3>3 DEF Copied
    <3>6. PackageKnown'
      BY <1>1, <1>2, <2>1, <2>2, <2>9, <2>10, <3>2, <3>4, <3>5 DEF PackageKnown
    <3>7. QED BY <1>1, <2>1, <2>2, <2>4, <3>6 DEF Provenance!TypeOK
  <2>14. QED BY <2>1, <2>11, <2>12, <2>13
<1>8. CASE Provenance!WriteManifest
  <2>1. /\ copy.at = 4 /\ copy' = Provenance!Idle /\ provenancePackage' = provenancePackage
        /\ provenanceManifest' = [commit |-> copy.commit, clean |-> copy.clean]
        /\ target' = [target EXCEPT !.whole = TRUE]
    BY <1>8 DEF Provenance!WriteManifest
  <2>2. /\ copy' \in [at : 0 .. 4, commit : 1 .. 2, clean : BOOLEAN] /\ copy'.at = 0
    BY <2>1 DEF Provenance!Idle
  <2>3. /\ provenanceManifest' \in [commit : 1 .. 2, clean : BOOLEAN]
        /\ provenanceManifest'.commit = head
        /\ provenanceManifest'.clean <=> work = Provenance!TreeOf[head]
    BY <1>1, <2>1 DEF PackageKnown
  <2>4. /\ target' \in [inside : BOOLEAN, over : BOOLEAN, whole : BOOLEAN]
        /\ target'.whole /\ target'.over = target.over
    BY <1>1, <2>1
  <2>5. \A f \in Provenance!Files : Copied(f)
    BY <1>1, <2>1 DEF PackageKnown, Provenance!Files
  <2>6. ~target.over => provenancePackage = work
    BY <1>1, <2>5 DEF Trees, Copied
  <2>7. work = Provenance!TreeOf[head] => Provenance!Carries(provenancePackage, head)
    BY <2>5 DEF Provenance!Carries, Copied
  <2>8. provenancePackage # Provenance!NoTree
    BY <1>1, <2>5, TreesOfCommits DEF PackageKnown, Copied, Provenance!Files
  <2>9. (provenanceManifest # Provenance!None)'
    <3>1. [commit |-> copy.commit, clean |-> copy.clean] # [none |-> TRUE]
      <4>1. DOMAIN [commit |-> copy.commit, clean |-> copy.clean] # DOMAIN [none |-> TRUE]
        OBVIOUS
      <4>2. QED BY <4>1
    <3>2. QED BY <2>1, <3>1 DEF Provenance!None
  <2>10. (provenanceManifest.clean =>
           /\ Provenance!Carries(provenancePackage, provenanceManifest.commit)
           /\ ~target.over =>
                provenancePackage = Provenance!TreeOf[provenanceManifest.commit])'
    BY <1>2, <2>1, <2>3, <2>4, <2>6, <2>7 DEF Provenance!Carries
  <2>11. PackageKnown'
    BY <1>1, <1>2, <2>1, <2>2, <2>4, <2>8, <2>9, <2>10 DEF PackageKnown
  <2>12. QED BY <1>1, <2>1, <2>2, <2>3, <2>4, <2>11
<1>9. CASE Provenance!KillExtract
  <2>1. /\ copy' = Provenance!Idle
        /\ UNCHANGED <<provenancePackage, provenanceManifest, target>>
    BY <1>9 DEF Provenance!KillExtract
  <2>2. /\ copy' \in [at : 0 .. 4, commit : 1 .. 2, clean : BOOLEAN] /\ copy'.at = 0
    BY <2>1 DEF Provenance!Idle
  <2>3. PackageKnown'
    BY <1>1, <1>2, <2>1, <2>2 DEF PackageKnown, Provenance!Carries
  <2>4. QED BY <1>1, <2>1, <2>2, <2>3 DEF Provenance!TypeOK
<1>10. QED BY <1>6, <1>7, <1>8, <1>9 DEF Provenance!Extract

(* The server's call.                                                       *)
LEMMA ServerCallSteps == ASSUME ProvenanceInv, Provenance!Server PROVE ProvenanceInv'
<1>1. /\ Provenance!TypeOK /\ PackageKnown /\ CallKnown /\ RecordKnown
      /\ head \in {1, 2} /\ work \in Trees /\ provenancePackage \in Trees
      /\ copy \in [at : 0 .. 4, commit : 1 .. 2, clean : BOOLEAN]
      /\ provenanceArgs \in ServerCalls
  BY ProvenanceTyped
<1>2. /\ UNCHANGED <<head, work, provenancePackage, provenanceManifest, target, copy,
                     branch, events>>
      /\ copy.at = 0
  <2>1. provenanceArgs.root # "none" => copy.at = 0 BY <1>1 DEF PackageKnown
  <2>2. CASE Provenance!Call BY <2>2 DEF Provenance!Call, Provenance!Quiet
  <2>3. CASE provenanceArgs.root # "none"
    BY <2>1, <2>3
    DEF Provenance!Server, Provenance!Call, Provenance!Preflight, Provenance!Refuse,
        Provenance!WriteArtifact, Provenance!RunStage, Provenance!Return
  <2>4. CASE ~Provenance!Call /\ provenanceArgs.root = "none"
    <3>1. provenanceArgs = Provenance!NoCall BY <1>1, <2>4 DEF CallKnown
    <3>2. provenanceArgs.decision = Provenance!None /\ ~provenanceArgs.written
      BY <3>1 DEF Provenance!NoCall
    <3>3. FALSE
      BY <2>4, <3>1, <3>2
      DEF Provenance!Server, Provenance!Preflight, Provenance!Refuse, Provenance!Passed,
          Provenance!WriteArtifact, Provenance!RunStage, Provenance!Permits,
          Provenance!Return
    <3>4. QED BY <3>3
  <2>5. QED BY <2>2, <2>3, <2>4
<1>3. SUFFICES /\ artifact' \in {Provenance!None} \cup Provenance!Decisions
               /\ ran' \in {Provenance!None} \cup [tree : Trees, model : 1 .. 2]
               /\ CallKnown' /\ RecordKnown'
  <2>1. PackageKnown' BY <1>1, <1>2 DEF PackageKnown, Copied, Provenance!Carries
  <2>2. ASSUME CallKnown',
               artifact' \in {Provenance!None} \cup Provenance!Decisions,
               ran' \in {Provenance!None} \cup [tree : Trees, model : 1 .. 2]
        PROVE  Provenance!TypeOK'
    <3>1. provenanceArgs' \in ServerCalls BY <2>2 DEF CallKnown
    <3>2. /\ provenanceArgs'.root \in {"none", "repository", "package"}
          /\ provenanceArgs'.request \in {"none", "branch", "commit"}
          /\ provenanceArgs'.decision \in {Provenance!None} \cup Provenance!Decisions
          /\ provenanceArgs'.written \in BOOLEAN
      BY <3>1 DEF ServerCalls
    <3>3. QED BY <1>1, <1>2, <2>2, <3>2 DEF Provenance!TypeOK, Trees
  <2>3. QED BY <2>1, <2>2 DEF ProvenanceInv
<1>4. CASE Provenance!Call
  <2>1. /\ ran' = Provenance!None /\ artifact' = artifact
        /\ \E r \in {"repository", "package"}, q \in {"branch", "commit"} :
              provenanceArgs' = [root |-> r, request |-> q, decision |-> Provenance!None,
                                 written |-> FALSE]
    BY <1>4 DEF Provenance!Call, Provenance!NoCall
  <2>2. /\ provenanceArgs' \in ServerCalls /\ provenanceArgs'.root # "none"
        /\ provenanceArgs'.decision = Provenance!None /\ ~provenanceArgs'.written
    BY <2>1 DEF ServerCalls
  <2>3. CallKnown' BY <2>2 DEF CallKnown, Provenance!Passed
  <2>4. RecordKnown' BY <1>1, <2>1 DEF RecordKnown, Provenance!OnlyPassedRuns, Provenance!Passed
  <2>5. QED BY <1>1, <2>1, <2>3, <2>4 DEF Provenance!TypeOK
<1>5. CASE Provenance!Preflight
  <2>1. /\ provenanceArgs.root # "none" /\ provenanceArgs.decision = Provenance!None
        /\ UNCHANGED <<ran, artifact>>
    BY <1>5 DEF Provenance!Preflight
  <2> DEFINE p == Provenance!Provenance(provenanceArgs.root)
  <2>2. PICK found \in SUBSET Provenance!Failures :
          LET f == found \cup Provenance!ProvenanceFailures(p)
          IN \E m \in Provenance!Resolved(provenanceArgs.request, f) :
               provenanceArgs' = [provenanceArgs EXCEPT !.decision =
                  [commit |-> p.commit, clean |-> p.clean, model |-> m,
                   failures |-> IF f = {} /\ m = 0 THEN {"model"} ELSE f]]
    BY <1>5 DEF Provenance!Preflight
  <2> DEFINE f == found \cup Provenance!ProvenanceFailures(p)
  <2>3. PICK m \in Provenance!Resolved(provenanceArgs.request, f) :
               provenanceArgs' = [provenanceArgs EXCEPT !.decision =
                  [commit |-> p.commit, clean |-> p.clean, model |-> m,
                   failures |-> IF f = {} /\ m = 0 THEN {"model"} ELSE f]]
    BY <2>2
  <2> DEFINE decided == [commit |-> p.commit, clean |-> p.clean, model |-> m,
                         failures |-> IF f = {} /\ m = 0 THEN {"model"} ELSE f]
  <2>4. p.commit \in {0, 1, 2} /\ p.clean \in BOOLEAN
    <3>1. Provenance!WorkIsClean \in BOOLEAN BY DEF Provenance!WorkIsClean
    <3>2. provenanceManifest \in {Provenance!None} \cup [commit : 1 .. 2, clean : BOOLEAN]
      BY <1>1 DEF Provenance!TypeOK
    <3>3. \/ p = [commit |-> head, clean |-> Provenance!WorkIsClean]
          \/ p = [commit |-> 0, clean |-> FALSE]
          \/ /\ provenanceManifest # Provenance!None
             /\ p = [commit |-> provenanceManifest.commit, clean |-> provenanceManifest.clean]
      BY DEF Provenance!Provenance
    <3> HIDE DEF p
    <3>4. CASE p = [commit |-> head, clean |-> Provenance!WorkIsClean]
      BY <1>1, <3>1, <3>4
    <3>5. CASE p = [commit |-> 0, clean |-> FALSE] BY <3>5
    <3>6. CASE /\ provenanceManifest # Provenance!None
               /\ p = [commit |-> provenanceManifest.commit,
                       clean |-> provenanceManifest.clean]
      BY <3>2, <3>6
    <3>7. QED BY <3>3, <3>4, <3>5, <3>6
  <2>5. p.commit # 0 /\ p.clean =>
          Provenance!NamesTheCode(p.commit, Provenance!Tree(provenanceArgs.root))
    <3>1. CASE provenanceArgs.root = "repository"
      BY <3>1
      DEF Provenance!Provenance, Provenance!GitAnswers, Provenance!Tree,
          Provenance!WorkIsClean, Provenance!NamesTheCode
    <3>2. CASE provenanceArgs.root = "package"
      <4>1. ~target.inside =>
            p = IF provenanceManifest = Provenance!None THEN [commit |-> 0, clean |-> FALSE]
                ELSE [commit |-> provenanceManifest.commit, clean |-> provenanceManifest.clean]
        BY <3>2 DEF Provenance!Provenance, Provenance!GitAnswers
      <4>2. Provenance!Tree(provenanceArgs.root) = provenancePackage
        BY <3>2 DEF Provenance!Tree
      <4>3. SUFFICES ASSUME p.commit # 0, p.clean, Provenance!SpeaksOfPackage(p.commit)
                     PROVE  /\ target.whole \/ target.over
                            /\ target.whole =>
                                 Provenance!Carries(provenancePackage, p.commit)
                            /\ ~target.over =>
                                 provenancePackage = Provenance!TreeOf[p.commit]
        BY <3>2, <4>2 DEF Provenance!NamesTheCode
      <4>4. /\ provenanceManifest # Provenance!None
            /\ provenanceManifest.commit = p.commit /\ provenanceManifest.clean
        <5>1. CASE target.inside
          <6>1. provenanceManifest = [commit |-> p.commit, clean |-> TRUE]
            BY <4>3, <5>1 DEF Provenance!SpeaksOfPackage
          <6> HIDE DEF p
          <6>2. provenanceManifest.clean BY <6>1
          <6>3. [commit |-> p.commit, clean |-> TRUE] # [none |-> TRUE]
            <7>1. DOMAIN [commit |-> p.commit, clean |-> TRUE] # DOMAIN [none |-> TRUE]
              OBVIOUS
            <7>2. QED BY <7>1
          <6>4. QED BY <6>1, <6>2, <6>3 DEF Provenance!None
        <5>2. CASE ~target.inside BY <4>1, <4>3, <5>2
        <5>3. QED BY <5>1, <5>2
      <4>5. QED BY <1>1, <4>4 DEF PackageKnown
    <3>3. QED BY <1>1, <2>1, <3>1, <3>2 DEF ServerCalls
  <2>6. m \in {0, 1, 2}
    BY <1>1, <2>3 DEF Provenance!Resolved, Provenance!TypeOK
  <2>7. decided.failures \in SUBSET (Provenance!Failures \cup {"commit", "tree", "model"})
    BY <2>2 DEF Provenance!ProvenanceFailures
  <2>8. decided.failures = {} => p.commit # 0 /\ p.clean /\ m # 0
    BY DEF Provenance!ProvenanceFailures
  <2> HIDE DEF f, p
  <2>9. decided \in Provenance!Decisions
    BY <2>4, <2>6, <2>7 DEF Provenance!Decisions
  <2>10. decided.commit = p.commit /\ decided.model = m OBVIOUS
  <2> HIDE DEF decided
  <2>11. provenanceArgs' = [provenanceArgs EXCEPT !.decision = decided]
    BY <2>3 DEF decided
  <2>12. /\ provenanceArgs' \in ServerCalls /\ provenanceArgs'.root = provenanceArgs.root
         /\ provenanceArgs'.decision = decided
         /\ provenanceArgs'.written = provenanceArgs.written
    BY <1>1, <2>9, <2>11 DEF ServerCalls
  <2>13. ~provenanceArgs.written
    BY <1>1, <2>1 DEF CallKnown, Provenance!Passed
  <2>14. CallKnown'
    <3>1. Provenance!Tree(provenanceArgs.root)' = Provenance!Tree(provenanceArgs.root)
      BY <1>2, <2>12 DEF Provenance!Tree
    <3>2. \A c, t : Provenance!NamesTheCode(c, t)' <=> Provenance!NamesTheCode(c, t)
      BY <1>2, <2>12
      DEF Provenance!NamesTheCode, Provenance!SpeaksOfPackage, Provenance!Carries
    <3>3. QED
      BY <2>1, <2>4, <2>5, <2>6, <2>8, <2>10, <2>12, <2>13, <3>1, <3>2
      DEF CallKnown, Provenance!Passed
  <2>15. ran = Provenance!None BY <1>1, <2>1, <2>13 DEF RecordKnown
  <2>16. RecordKnown'
    BY <1>1, <2>1, <2>15 DEF RecordKnown, Provenance!OnlyPassedRuns, Provenance!Passed
  <2>17. QED BY <1>1, <2>1, <2>14, <2>16 DEF Provenance!TypeOK, Trees
<1>6. CASE Provenance!Refuse \/ Provenance!Return
  <2>1. provenanceArgs' = Provenance!NoCall /\ UNCHANGED <<ran, artifact>>
    BY <1>6 DEF Provenance!Refuse, Provenance!Return
  <2>2. CallKnown'
    BY <2>1 DEF CallKnown, Provenance!NoCall, ServerCalls, Provenance!Passed
  <2>3. RecordKnown'
    BY <1>1, <2>1
    DEF RecordKnown, Provenance!OnlyPassedRuns, Provenance!Passed, Provenance!NoCall
  <2>4. QED BY <1>1, <2>1, <2>2, <2>3 DEF Provenance!TypeOK, Trees
<1>7. CASE Provenance!WriteArtifact
  <2>1. /\ Provenance!Passed(provenanceArgs.decision) /\ ~provenanceArgs.written
        /\ artifact' = provenanceArgs.decision /\ ran' = ran
        /\ provenanceArgs' = [provenanceArgs EXCEPT !.written = TRUE]
    BY <1>7 DEF Provenance!WriteArtifact, Provenance!Permits
  <2>2. /\ provenanceArgs' \in ServerCalls /\ provenanceArgs'.root = provenanceArgs.root
        /\ provenanceArgs'.decision = provenanceArgs.decision /\ provenanceArgs'.written
    BY <1>1, <2>1 DEF ServerCalls
  <2>3. provenanceArgs.root # "none"
    BY <1>1, <2>1 DEF CallKnown, Provenance!NoCall, Provenance!Passed
  <2>4. CallKnown'
    <3>1. \A c, t : Provenance!NamesTheCode(c, t)' <=> Provenance!NamesTheCode(c, t)
      BY <1>2, <2>2
      DEF Provenance!NamesTheCode, Provenance!SpeaksOfPackage, Provenance!Carries
    <3>2. Provenance!Tree(provenanceArgs.root)' = Provenance!Tree(provenanceArgs.root)
      BY <1>2, <2>2 DEF Provenance!Tree
    <3>3. QED
      BY <1>1, <2>1, <2>2, <2>3, <3>1, <3>2 DEF CallKnown, Provenance!Passed
  <2>5. ran = Provenance!None BY <1>1, <2>1, <2>3 DEF RecordKnown
  <2>6. RecordKnown'
    BY <2>1, <2>5 DEF RecordKnown, Provenance!OnlyPassedRuns, Provenance!Passed
  <2>7. artifact' \in {Provenance!None} \cup Provenance!Decisions
    BY <1>1, <2>1 DEF ServerCalls
  <2>8. QED BY <1>1, <2>1, <2>4, <2>6, <2>7 DEF Provenance!TypeOK, Trees
<1>8. CASE Provenance!RunStage
  <2>1. /\ provenanceArgs.written /\ UNCHANGED <<provenanceArgs, artifact>>
        /\ ran' = [tree |-> Provenance!Tree(provenanceArgs.root),
                   model |-> IF Provenance!Loads = 0 THEN branch ELSE Provenance!Loads]
    BY <1>8 DEF Provenance!RunStage
  <2>2. /\ artifact = provenanceArgs.decision /\ provenanceArgs.decision.model \in {1, 2}
        /\ Provenance!NamesTheCode(artifact.commit, Provenance!Tree(provenanceArgs.root))
    BY <1>1, <2>1 DEF CallKnown
  <2>3. ran' = [tree |-> Provenance!Tree(provenanceArgs.root), model |-> artifact.model]
    BY <2>1, <2>2 DEF Provenance!Loads
  <2>4. Provenance!Tree(provenanceArgs.root) \in Trees
    BY <1>1 DEF Provenance!Tree
  <2>5. ran' \in [tree : Trees, model : 1 .. 2] BY <2>2, <2>3, <2>4
  <2>9. \A c, t : Provenance!NamesTheCode(c, t)' <=> Provenance!NamesTheCode(c, t)
    BY <1>2, <2>1
    DEF Provenance!NamesTheCode, Provenance!SpeaksOfPackage, Provenance!Carries
  <2>6. CallKnown'
    BY <1>1, <1>2, <2>1, <2>9 DEF CallKnown, Provenance!Passed, Provenance!Tree
  <2>7. RecordKnown'
    BY <1>1, <2>1, <2>2, <2>3, <2>9
    DEF RecordKnown, Provenance!OnlyPassedRuns, Provenance!Passed
  <2>8. QED BY <1>1, <2>1, <2>5, <2>6, <2>7 DEF Provenance!TypeOK
<1>9. QED BY <1>4, <1>5, <1>6, <1>7, <1>8 DEF Provenance!Server

LEMMA NextProvenanceInv ==
  ProvenanceInv /\ [Provenance!Next]_(Provenance!vars) => ProvenanceInv'
BY OthersSteps, ExtractSteps, ServerCallSteps DEF Provenance!Next

LEMMA ProvenanceIsAsPromised ==
  ASSUME ProvenanceInv
  PROVE  /\ Provenance!TypeOK /\ Provenance!ProvenanceIsOfTheCode
         /\ Provenance!ModelIsTheRecorded /\ Provenance!OnlyPassedRuns
         /\ Provenance!RecordIsOfThisCall
BY DEF ProvenanceInv, RecordKnown, CallKnown, Provenance!ProvenanceIsOfTheCode,
   Provenance!ModelIsTheRecorded, Provenance!RecordIsOfThisCall

LEMMA ProvenanceProjects == [SomeStep]_allVars => [Provenance!Next]_(Provenance!vars)
<1> SUFFICES ASSUME [SomeStep]_allVars PROVE [Provenance!Next]_(Provenance!vars)
  OBVIOUS
<1> USE DEF provenanceVars, Provenance!vars
<1>1. CASE ProvenanceStep BY <1>1 DEF ProvenanceStep
<1>2. CASE Rest /\ program # "provenance"
  BY <1>2 DEF Rest
<1>3. CASE UNCHANGED allVars BY <1>3 DEF allVars
<1>4. QED
  BY <1>1, <1>2, <1>3
  DEF SomeStep, ProbeStep, RuntimeStep, PreflightStep, ScoringStep,
      PromotionStep, SetupStep, FramesStep, AtomStep, ServerStep,
      OfficialReferenceStep, CommandsStep

-----------------------------------------------------------------------------
(* The commands of the baselines.                                           *)

BundleRoots == {<<>>, <<"older", "older">>}
WithLayoutRoot(roots) == IF roots = <<>> THEN <<"root">> ELSE <<"root", "older">>

(* The children's roots are the layout's and those given, each once; what   *)
(* was decided is of the environment that was put; and putting it again     *)
(* would find every value as it is.                                         *)
RootsKnown ==
  /\ given.roots \in BundleRoots
  /\ env.roots = IF session = "applied" THEN WithLayoutRoot(given.roots) ELSE given.roots

DecidedOfThis ==
  /\ session = "commands" => commandsDecision.bridge = "PASS"
  /\ Commands!FailureIsRecorded
  /\ session = "applied" =>
       /\ commandsDecision.bridge =
            Commands!BridgeDecision(env.outer, env.inner, Commands!ApplyFlags)
       /\ commandsDecision.commands =
            Commands!CommandsDecision(env.outer, Commands!ApplyFlags)
       /\ commandsDecision.environment =
            IF commandsDecision.bridge = "PASS" /\ commandsDecision.commands = "PASS"
            THEN "PASS" ELSE "FAIL"

Settled ==
  session = "applied" => \A b \in {"b1", "b2"} :
    /\ \/ Commands!Truthy(env.inner[b]) \/ b \notin required \/ b \notin templates.adapter
    /\ \/ Commands!Truthy(env.outer[b]) \/ b \notin required \/ b \notin templates.bridge

CommandsTypes ==
  /\ given = [outer |-> given.outer, inner |-> given.inner, roots |-> given.roots]
  /\ env = [outer |-> env.outer, inner |-> env.inner, roots |-> env.roots]
  /\ given.outer \in [{"b1", "b2"} -> Commands!Outer]
  /\ given.inner \in [{"b1", "b2"} -> Commands!Inner]
  /\ env.outer \in [{"b1", "b2"} -> Commands!Outer]
  /\ env.inner \in [{"b1", "b2"} -> Commands!Inner]
  /\ commandsSource \in [{"b1", "b2"} -> Commands!Inner]
  /\ flags \in Commands!Flags /\ required \subseteq {"b1", "b2"}
  /\ session \in {"idle", "bridge", "commands", "export", "raised", "applied"}
  /\ commandsDecision \in [{"bridge", "commands", "environment"} -> Commands!Decision]

CommandsInv ==
  /\ CommandsTypes /\ RootsKnown /\ DecidedOfThis /\ Settled /\ Commands!UserCommandWins

LEMMA CommandsStart == Commands!Init => CommandsInv
<1> SUFFICES ASSUME Commands!Init PROVE CommandsInv
  OBVIOUS
<1> USE DEF Commands!Init
<1>1. CommandsTypes /\ RootsKnown
  <2>1. PICK o \in [{"b1", "b2"} -> Commands!Outer], i \in [{"b1", "b2"} -> Commands!Inner],
             r \in {<<>>} \cup {<<x, x>> : x \in {"older"}} :
          env = [outer |-> o, inner |-> i, roots |-> r]
    OBVIOUS
  <2>2. r \in BundleRoots BY DEF BundleRoots
  <2>3. /\ env.outer = o /\ env.inner = i /\ env.roots = r BY <2>1
  <2>4. given = env /\ session = "idle" OBVIOUS
  <2>5. /\ flags \in Commands!Flags /\ required \subseteq {"b1", "b2"}
        /\ commandsDecision \in [{"bridge", "commands", "environment"} -> Commands!Decision]
        /\ commandsSource = env.inner
    BY DEF Commands!Decision
  <2> HIDE DEF Commands!Init
  <2>6. RootsKnown BY <2>2, <2>3, <2>4 DEF RootsKnown
  <2>7. QED BY <2>1, <2>3, <2>4, <2>5, <2>6 DEF CommandsTypes
<1>2. DecidedOfThis /\ Settled /\ Commands!UserCommandWins
  BY DEF DecidedOfThis, Settled, Commands!FailureIsRecorded, Commands!UserCommandWins
<1>3. QED BY <1>1, <1>2 DEF CommandsInv

LEMMA CommandValues ==
  /\ \A v : Commands!Command(v) => Commands!Truthy(v)
  /\ \A b : Commands!BridgeTemplate(b) \in Commands!Outer
  /\ \A b : Commands!BridgeTemplate(b) = IF b \in templates.bridge THEN "bridge" ELSE "empty"
  /\ \A b : Commands!AdapterTemplate(b) \in Commands!Inner
  /\ ~Commands!Truthy("empty") /\ ~Commands!Truthy("unset")
  /\ Commands!Truthy("bridge") /\ Commands!Truthy("adapter")
BY DEF Commands!Command, Commands!Truthy, Commands!BridgeTemplate, Commands!AdapterTemplate,
   Commands!Outer, Commands!Inner

(* The first of equal roots is kept, one root after the other.              *)
Added(r, x) == IF Commands!Contains(r, x) THEN r ELSE Append(r, x)

FirstsOf(s, f) == f = [n \in 0 .. Len(s) |-> IF n = 0 THEN <<>> ELSE Added(f[n - 1], s[n])]

KeptOf(s, r) ==
  (\E f : FirstsOf(s, f)) /\ (\A f : FirstsOf(s, f) => f[Len(s)] = r)

LEMMA DeduplicatedIsKept ==
  ASSUME NEW s, NEW r, KeptOf(s, r)
  PROVE  Commands!Deduplicated(s) = r
<1> DEFINE g == CHOOSE g : FirstsOf(s, g)
<1>1. FirstsOf(s, g) BY DEF KeptOf
<1>2. g[Len(s)] = r BY <1>1 DEF KeptOf
<1>3. Commands!Deduplicated(s) = g[Len(s)]
  BY DEF Commands!Deduplicated, FirstsOf, Added
<1>4. QED BY <1>2, <1>3

LEMMA KeptOfNone == KeptOf(<<>>, <<>>)
<1>1. Len(<<>>) = 0 OBVIOUS
<1>2. FirstsOf(<<>>, [n \in 0 .. 0 |-> <<>>]) BY <1>1 DEF FirstsOf
<1>3. ASSUME NEW f, FirstsOf(<<>>, f) PROVE f[0] = <<>>
  BY <1>1, <1>3 DEF FirstsOf
<1>4. QED BY <1>1, <1>2, <1>3 DEF KeptOf

LEMMA KeptOfMore ==
  ASSUME NEW S, NEW s \in Seq(S), NEW x \in S, NEW r, KeptOf(s, r)
  PROVE  KeptOf(Append(s, x), Added(r, x))
<1> DEFINE t == Append(s, x)
<1>1. /\ Len(s) \in Nat /\ Len(t) = Len(s) + 1 /\ t[Len(t)] = x
      /\ \A n \in 1 .. Len(s) : t[n] = s[n]
  OBVIOUS
<1> HIDE DEF t
<1>2. \E f : FirstsOf(t, f)
  <2>1. PICK f : FirstsOf(s, f) BY DEF KeptOf
  <2> DEFINE e == [n \in 0 .. Len(t) |-> IF n <= Len(s) THEN f[n] ELSE Added(r, x)]
  <2>2. f[Len(s)] = r BY <2>1 DEF KeptOf
  <2>3. /\ f[0] = <<>> /\ \A n \in 1 .. Len(s) : f[n] = Added(f[n - 1], s[n])
    BY <1>1, <2>1 DEF FirstsOf
  <2>4. ASSUME NEW n \in 0 .. Len(t)
        PROVE  e[n] = IF n = 0 THEN <<>> ELSE Added(e[n - 1], t[n])
    <3>1. CASE n = 0 BY <1>1, <2>3, <3>1
    <3>2. CASE n \in 1 .. Len(s)
      <4>1. e[n] = f[n] /\ e[n - 1] = f[n - 1] BY <1>1, <3>2
      <4>2. QED BY <1>1, <2>3, <3>2, <4>1
    <3>3. CASE n = Len(t)
      <4>1. e[n] = Added(r, x) /\ e[n - 1] = f[Len(s)] BY <1>1, <3>3
      <4>2. QED BY <1>1, <2>2, <3>3, <4>1
    <3>4. QED BY <1>1, <3>1, <3>2, <3>3
  <2>5. e = [n \in 0 .. Len(t) |-> e[n]] OBVIOUS
  <2> HIDE DEF e
  <2>6. e = [n \in 0 .. Len(t) |-> IF n = 0 THEN <<>> ELSE Added(e[n - 1], t[n])]
    BY <2>4, <2>5
  <2>7. QED BY <2>6 DEF FirstsOf
<1>3. ASSUME NEW f, FirstsOf(t, f) PROVE f[Len(t)] = Added(r, x)
  <2> DEFINE e == [n \in 0 .. Len(s) |-> f[n]]
  <2>1. /\ f[0] = <<>> /\ \A n \in 1 .. Len(t) : f[n] = Added(f[n - 1], t[n])
    BY <1>1, <1>3 DEF FirstsOf
  <2>2. ASSUME NEW n \in 0 .. Len(s)
        PROVE  e[n] = IF n = 0 THEN <<>> ELSE Added(e[n - 1], s[n])
    <3>1. CASE n = 0 BY <1>1, <2>1, <3>1
    <3>2. CASE n \in 1 .. Len(s)
      <4>1. e[n] = f[n] /\ e[n - 1] = f[n - 1] /\ n \in 1 .. Len(t) BY <1>1, <3>2
      <4>2. QED BY <1>1, <2>1, <3>2, <4>1
    <3>3. QED BY <1>1, <3>1, <3>2
  <2>3. e = [n \in 0 .. Len(s) |-> e[n]] /\ e[Len(s)] = f[Len(s)] BY <1>1
  <2> HIDE DEF e
  <2>4. e = [n \in 0 .. Len(s) |-> IF n = 0 THEN <<>> ELSE Added(e[n - 1], s[n])]
    BY <2>2, <2>3
  <2>5. e[Len(s)] = r BY <2>4 DEF FirstsOf, KeptOf
  <2>6. Len(t) \in 1 .. Len(t) /\ Len(t) - 1 = Len(s) BY <1>1
  <2>7. QED BY <1>1, <2>1, <2>3, <2>5, <2>6
<1>4. QED BY <1>2, <1>3 DEF KeptOf, t

(* Short lists, written out.                                                *)

LEMMA SameSequence ==
  ASSUME NEW S, NEW s \in Seq(S), NEW t \in Seq(S), Len(s) = Len(t),
         \A i \in 1 .. Len(s) : s[i] = t[i]
  PROVE  s = t
OBVIOUS

LEMMA AppendIs ==
  ASSUME NEW S, NEW s \in Seq(S), NEW x \in S, NEW t \in Seq(S), Len(t) = Len(s) + 1,
         \A i \in 1 .. Len(s) : t[i] = s[i], t[Len(t)] = x
  PROVE  Append(s, x) = t
<1>1. Append(s, x) \in Seq(S) OBVIOUS
<1>2. Len(Append(s, x)) = Len(t) OBVIOUS
<1>3. \A i \in 1 .. Len(t) : Append(s, x)[i] = t[i] OBVIOUS
<1>4. QED BY <1>1, <1>2, <1>3, SameSequence

LEMMA ConcatIs ==
  ASSUME NEW S, NEW s \in Seq(S), NEW r \in Seq(S), NEW t \in Seq(S),
         Len(t) = Len(s) + Len(r),
         \A i \in 1 .. Len(s) : t[i] = s[i], 
         \A i \in 1 .. Len(r) : t[Len(s) + i] = r[i]
  PROVE  s \o r = t
<1>1. s \o r \in Seq(S) OBVIOUS
<1>2. Len(s \o r) = Len(t) OBVIOUS
<1>3. \A i \in 1 .. Len(t) : (s \o r)[i] = t[i]
  <2>1. \A i \in 1 .. Len(s) : (s \o r)[i] = s[i] OBVIOUS
  <2>2. \A i \in 1 .. Len(r) : (s \o r)[Len(s) + i] = r[i] OBVIOUS
  <2>3. \A i \in 1 .. Len(t) : i \in 1 .. Len(s) \/ \E j \in 1 .. Len(r) : i = Len(s) + j
    <3>1. \A i \in 1 .. Len(t) : i \notin 1 .. Len(s) => i - Len(s) \in 1 .. Len(r) /\ i = Len(s) + (i - Len(s)) OBVIOUS
    <3>2. QED BY <3>1
  <2>4. QED BY <2>1, <2>2, <2>3
<1>4. QED BY <1>1, <1>2, <1>3, SameSequence

LEMMA AppendToOne ==
  ASSUME NEW S, NEW a \in S, NEW b \in S, NEW c \in S
  PROVE  Append(<<a>>, b) = <<a, b>>
<1> DEFINE p == <<a>>
           t == <<a, b>>
<1>1. p \in Seq(S) /\ Len(p) = 1 /\ t \in Seq(S) /\ Len(t) = 2 OBVIOUS
<1>2. p[1] = a /\ t[1] = a /\ t[2] = b OBVIOUS
<1> HIDE DEF p, t
<1>3. /\ Len(t) = Len(p) + 1 /\ t[Len(t)] = b
      /\ \A i \in 1 .. Len(p) : t[i] = p[i]
  BY <1>1, <1>2
<1>4. Append(p, b) = t BY <1>1, <1>3, AppendIs
<1>5. QED BY <1>4 DEF p, t

LEMMA AppendToTwo ==
  ASSUME NEW S, NEW a \in S, NEW b \in S, NEW c \in S
  PROVE  Append(<<a, b>>, c) = <<a, b, c>>
<1> DEFINE p == <<a, b>>
           t == <<a, b, c>>
<1>1. p \in Seq(S) /\ Len(p) = 2 /\ t \in Seq(S) /\ Len(t) = 3 OBVIOUS
<1>2. p[1] = a /\ p[2] = b /\ t[1] = a /\ t[2] = b /\ t[3] = c OBVIOUS
<1> HIDE DEF p, t
<1>3. /\ Len(t) = Len(p) + 1 /\ t[Len(t)] = c
      /\ \A i \in 1 .. Len(p) : t[i] = p[i]
  BY <1>1, <1>2
<1>4. Append(p, c) = t BY <1>1, <1>3, AppendIs
<1>5. QED BY <1>4 DEF p, t

LEMMA OneAndOne ==
  ASSUME NEW S, NEW a \in S, NEW b \in S, NEW c \in S
  PROVE  <<a>> \o <<b>> = <<a, b>>
<1> DEFINE p == <<a>>
           q == <<b>>
           t == <<a, b>>
<1>1. /\ p \in Seq(S) /\ Len(p) = 1 /\ q \in Seq(S) /\ Len(q) = 1
      /\ t \in Seq(S) /\ Len(t) = 2
  OBVIOUS
<1>2. p[1] = a /\ q[1] = b /\ t[1] = a /\ t[2] = b
  OBVIOUS
<1> HIDE DEF p, q, t
<1>3. /\ Len(t) = Len(p) + Len(q)
      /\ \A i \in 1 .. Len(p) : t[i] = p[i]
      /\ \A i \in 1 .. Len(q) : t[Len(p) + i] = q[i]
  BY <1>1, <1>2
<1>4. p \o q = t BY <1>1, <1>3, ConcatIs
<1>5. QED BY <1>4 DEF p, q, t

LEMMA OneAndTwo ==
  ASSUME NEW S, NEW a \in S, NEW b \in S, NEW c \in S
  PROVE  <<a>> \o <<b, c>> = <<a, b, c>>
<1> DEFINE p == <<a>>
           q == <<b, c>>
           t == <<a, b, c>>
<1>1. /\ p \in Seq(S) /\ Len(p) = 1 /\ q \in Seq(S) /\ Len(q) = 2
      /\ t \in Seq(S) /\ Len(t) = 3
  OBVIOUS
<1>2. p[1] = a /\ q[1] = b /\ q[2] = c /\ t[1] = a /\ t[2] = b /\ t[3] = c
  OBVIOUS
<1> HIDE DEF p, q, t
<1>3. /\ Len(t) = Len(p) + Len(q)
      /\ \A i \in 1 .. Len(p) : t[i] = p[i]
      /\ \A i \in 1 .. Len(q) : t[Len(p) + i] = q[i]
  BY <1>1, <1>2
<1>4. p \o q = t BY <1>1, <1>3, ConcatIs
<1>5. QED BY <1>4 DEF p, q, t

LEMMA OneAndNone ==
  ASSUME NEW S, NEW a \in S, NEW b \in S, NEW c \in S
  PROVE  <<a>> \o <<>> = <<a>>
<1> DEFINE p == <<a>>
           q == <<>>
           t == <<a>>
<1>1. /\ p \in Seq(S) /\ Len(p) = 1 /\ q \in Seq(S) /\ Len(q) = 0
      /\ t \in Seq(S) /\ Len(t) = 1
  OBVIOUS
<1>2. p[1] = a /\ t[1] = a
  OBVIOUS
<1> HIDE DEF p, q, t
<1>3. /\ Len(t) = Len(p) + Len(q)
      /\ \A i \in 1 .. Len(p) : t[i] = p[i]
      /\ \A i \in 1 .. Len(q) : t[Len(p) + i] = q[i]
  BY <1>1, <1>2
<1>4. p \o q = t BY <1>1, <1>3, ConcatIs
<1>5. QED BY <1>4 DEF p, q, t

LEMMA RootsOnce ==
  \A roots \in BundleRoots :
    /\ Commands!Deduplicated(<<"root">> \o roots) = WithLayoutRoot(roots)
    /\ Commands!Deduplicated(<<"root">> \o WithLayoutRoot(roots)) = WithLayoutRoot(roots)
<1> DEFINE S == {"root", "older"}
<1>0. "root" \in S /\ "older" \in S OBVIOUS
<1>1. /\ Added(<<>>, "root") = <<"root">>
      /\ Added(<<"root">>, "root") = <<"root">>
      /\ Added(<<"root">>, "older") = <<"root", "older">>
      /\ Added(<<"root", "older">>, "older") = <<"root", "older">>
  <2>1. \A y : ~Commands!Contains(<<>>, y) BY DEF Commands!Contains
  <2>2. 1 \in 1 .. Len(<<"root">>) /\ Len(<<"root">>) = 1 /\ <<"root">>[1] = "root" OBVIOUS
  <2>3. Commands!Contains(<<"root">>, "root") BY <2>2 DEF Commands!Contains
  <2>4. ~Commands!Contains(<<"root">>, "older") BY <2>2 DEF Commands!Contains
  <2>5. 2 \in 1 .. Len(<<"root", "older">>) /\ <<"root", "older">>[2] = "older" OBVIOUS
  <2>6. Commands!Contains(<<"root", "older">>, "older") BY <2>5 DEF Commands!Contains
  <2>7. Append(<<>>, "root") = <<"root">> OBVIOUS
  <2>8. Append(<<"root">>, "older") = <<"root", "older">> BY <1>0, AppendToOne
  <2>9. QED BY <2>1, <2>3, <2>4, <2>6, <2>7, <2>8 DEF Added
<1>2. KeptOf(<<"root">>, <<"root">>)
  <2>1. Append(<<>>, "root") = <<"root">> /\ <<>> \in Seq(S) /\ "root" \in S OBVIOUS
  <2>2. QED BY <1>1, <2>1, KeptOfNone, KeptOfMore
<1>3. KeptOf(<<"root", "root">>, <<"root">>)
  <2>1. <<"root">> \in Seq(S) /\ "root" \in S OBVIOUS
  <2>2. Append(<<"root">>, "root") = <<"root", "root">> BY <1>0, AppendToOne, AppendToTwo
  <2>3. QED BY <1>1, <1>2, <2>1, KeptOfMore, <2>2
<1>4. KeptOf(<<"root", "older">>, <<"root", "older">>)
  <2>1. <<"root">> \in Seq(S) /\ "older" \in S OBVIOUS
  <2>2. Append(<<"root">>, "older") = <<"root", "older">> BY <1>0, AppendToOne, AppendToTwo
  <2>3. QED BY <1>1, <1>2, <2>1, KeptOfMore, <2>2
<1>5. KeptOf(<<"root", "older", "older">>, <<"root", "older">>)
  <2>1. <<"root", "older">> \in Seq(S) /\ "older" \in S OBVIOUS
  <2>2. Append(<<"root", "older">>, "older") = <<"root", "older", "older">> BY <1>0, AppendToOne, AppendToTwo
  <2>3. QED BY <1>1, <1>4, <2>1, KeptOfMore, <2>2
<1>6. KeptOf(<<"root", "root", "older">>, <<"root", "older">>)
  <2>1. <<"root", "root">> \in Seq(S) /\ "older" \in S OBVIOUS
  <2>2. Append(<<"root", "root">>, "older") = <<"root", "root", "older">> BY <1>0, AppendToOne, AppendToTwo
  <2>3. QED BY <1>1, <1>3, <2>1, KeptOfMore, <2>2
<1>7. /\ <<"root">> \o <<>> = <<"root">>
      /\ <<"root">> \o <<"older", "older">> = <<"root", "older", "older">>
      /\ <<"root">> \o <<"root">> = <<"root", "root">>
      /\ <<"root">> \o <<"root", "older">> = <<"root", "root", "older">>
  BY <1>0, OneAndNone, OneAndOne, OneAndTwo
<1>8. <<"older", "older">> # <<>> OBVIOUS
<1>9. /\ Commands!Deduplicated(<<"root">>) = <<"root">>
      /\ Commands!Deduplicated(<<"root", "root">>) = <<"root">>
      /\ Commands!Deduplicated(<<"root", "older", "older">>) = <<"root", "older">>
      /\ Commands!Deduplicated(<<"root", "root", "older">>) = <<"root", "older">>
  BY <1>2, <1>3, <1>5, <1>6, DeduplicatedIsKept
<1>10. QED BY <1>7, <1>8, <1>9 DEF BundleRoots, WithLayoutRoot

(* What every use of the invariant needs of it.                             *)
LEMMA CommandsTyped ==
  ASSUME CommandsInv
  PROVE  /\ CommandsTypes /\ RootsKnown /\ DecidedOfThis /\ Settled
         /\ Commands!UserCommandWins
         /\ \A b \in {"b1", "b2"} :
              /\ env.outer[b] \in Commands!Outer /\ env.inner[b] \in Commands!Inner
              /\ commandsSource[b] \in Commands!Inner
BY DEF CommandsInv, CommandsTypes

(* The preflight stage up to its decisions: the environment is not touched. *)
LEMMA PreflightStageSteps ==
  ASSUME CommandsInv, Commands!Preflight \/ Commands!CheckBridge \/ Commands!CheckCommands
                      \/ Commands!Stopped \/ UNCHANGED Commands!vars
  PROVE  CommandsInv'
<1>1. /\ CommandsTypes /\ RootsKnown /\ DecidedOfThis /\ Settled
      /\ Commands!UserCommandWins
  BY CommandsTyped
<1>2. CASE Commands!Preflight
  <2>1. /\ session = "idle" /\ session' = "bridge"
        /\ UNCHANGED <<given, env, flags, required, templates, commandsDecision>>
        /\ commandsSource' = [b \in {"b1", "b2"} |->
             IF env.inner[b] # "unset" \/ b \notin required \/ ~flags.useAdapters
             THEN env.inner[b] ELSE Commands!AdapterTemplate(b)]
    BY <1>2 DEF Commands!Preflight, Commands!fixed
  <2>2. commandsSource' \in [{"b1", "b2"} -> Commands!Inner]
    BY <2>1, CommandsTyped, CommandValues
  <2>3. CommandsTypes' BY <1>1, <2>1, <2>2 DEF CommandsTypes
  <2>4. RootsKnown' /\ Settled' BY <1>1, <2>1 DEF RootsKnown, Settled
  <2>5. DecidedOfThis' BY <2>1 DEF DecidedOfThis, Commands!FailureIsRecorded
  <2>6. Commands!UserCommandWins' BY <1>1, <2>1 DEF Commands!UserCommandWins
  <2>7. QED BY <2>3, <2>4, <2>5, <2>6 DEF CommandsInv
<1>3. CASE Commands!CheckBridge \/ Commands!CheckCommands
  <2>1. /\ session \in {"bridge", "commands"} /\ session' \in {"commands", "raised", "export"}
        /\ UNCHANGED <<given, env, flags, required, templates, commandsSource>>
        /\ commandsDecision' \in [{"bridge", "commands", "environment"} -> Commands!Decision]
        /\ session' = "commands" => commandsDecision'.bridge = "PASS"
        /\ session' = "raised" =>
             \/ commandsDecision'.bridge = "FAIL"
             \/ commandsDecision'.bridge = "PASS" /\ commandsDecision'.commands = "FAIL"
    <3>1. commandsDecision \in [{"bridge", "commands", "environment"} -> Commands!Decision]
      BY <1>1 DEF CommandsTypes
    <3>2. CASE Commands!CheckBridge
      <4> DEFINE d == Commands!BridgeDecision(env.outer, commandsSource, flags)
      <4>1. d \in {"PASS", "FAIL"} BY DEF Commands!BridgeDecision
      <4>2. /\ session = "bridge"
            /\ session' = (IF d = "FAIL" THEN "raised" ELSE "commands")
            /\ UNCHANGED <<given, env, flags, required, templates, commandsSource>>
            /\ commandsDecision' = [commandsDecision EXCEPT !.bridge = d]
        BY <3>2 DEF Commands!CheckBridge, Commands!fixed
      <4> HIDE DEF d
      <4>3. commandsDecision'.bridge = d BY <3>1, <4>2
      <4>4. d \in Commands!Decision BY <4>1 DEF Commands!Decision
      <4>5. commandsDecision' \in [{"bridge", "commands", "environment"} -> Commands!Decision]
        BY <3>1, <4>2, <4>4
      <4>6. QED BY <4>1, <4>2, <4>3, <4>5
    <3>3. CASE Commands!CheckCommands
      <4> DEFINE d == Commands!CommandsDecision(Commands!Outers, flags)
      <4>1. d \in {"PASS", "FAIL"} BY DEF Commands!CommandsDecision
      <4>2. /\ session = "commands"
            /\ session' = (IF d = "FAIL" THEN "raised" ELSE "export")
            /\ UNCHANGED <<given, env, flags, required, templates, commandsSource>>
            /\ commandsDecision' = [commandsDecision EXCEPT !.commands = d]
        BY <3>3 DEF Commands!CheckCommands, Commands!fixed
      <4> HIDE DEF d
      <4>3. commandsDecision'.commands = d /\ commandsDecision'.bridge = commandsDecision.bridge
        BY <3>1, <4>2
      <4>4. d \in Commands!Decision BY <4>1 DEF Commands!Decision
      <4>5. commandsDecision' \in [{"bridge", "commands", "environment"} -> Commands!Decision]
        BY <3>1, <4>2, <4>4
      <4>6. commandsDecision.bridge = "PASS" BY <1>1, <4>2 DEF DecidedOfThis
      <4>7. QED BY <4>1, <4>2, <4>3, <4>5, <4>6
    <3>4. QED BY <1>3, <3>2, <3>3
  <2>2. CommandsTypes' BY <1>1, <2>1 DEF CommandsTypes
  <2>3. RootsKnown' /\ Settled' BY <1>1, <2>1 DEF RootsKnown, Settled
  <2>4. DecidedOfThis' BY <2>1 DEF DecidedOfThis, Commands!FailureIsRecorded
  <2>5. Commands!UserCommandWins' BY <1>1, <2>1 DEF Commands!UserCommandWins
  <2>6. QED BY <2>2, <2>3, <2>4, <2>5 DEF CommandsInv
<1>4. CASE Commands!Stopped \/ UNCHANGED Commands!vars
  <2>1. /\ UNCHANGED <<given, env, flags, required, templates, session, commandsSource>>
        /\ UNCHANGED commandsDecision
    BY <1>4 DEF Commands!Stopped, Commands!vars
  <2>2. CommandsTypes' BY <1>1, <2>1 DEF CommandsTypes
  <2>3. RootsKnown' /\ Settled' BY <1>1, <2>1 DEF RootsKnown, Settled
  <2>4. DecidedOfThis'
    BY <1>1, <2>1
    DEF DecidedOfThis, Commands!FailureIsRecorded, Commands!BridgeDecision,
        Commands!CommandsDecision, Commands!MissingInner, Commands!MissingOuter,
        Commands!Effective, Commands!BridgeTemplate, Commands!ApplyFlags
  <2>5. Commands!UserCommandWins' BY <1>1, <2>1 DEF Commands!UserCommandWins
  <2>6. QED BY <2>2, <2>3, <2>4, <2>5 DEF CommandsInv
<1>5. QED BY <1>2, <1>3, <1>4

(* A template takes the place of an empty value only.                       *)
LEMMA ChosenCommand ==
  ASSUME CommandsInv, NEW b \in {"b1", "b2"}, NEW bridge \in BOOLEAN
  PROVE  LET c == Commands!CommandOf(env.outer, b, bridge) IN
         /\ c \in Commands!Outer
         /\ Commands!Truthy(env.outer[b]) => c = env.outer[b]
         /\ bridge /\ ~Commands!Truthy(env.outer[b]) => c = Commands!BridgeTemplate(b)
<1>1. env.outer[b] \in Commands!Outer BY CommandsTyped
<1>2. Commands!BridgeTemplate(b) \in Commands!Outer BY CommandValues
<1>3. "empty" \in Commands!Outer BY DEF Commands!Outer
<1>4. QED BY <1>1, <1>2, <1>3 DEF Commands!CommandOf

(* The bridge preflight's template goes into the environment it was made    *)
(* from, where no command was set.                                          *)
LEMMA ExportStep == ASSUME CommandsInv, Commands!Export PROVE CommandsInv'
<1>1. /\ CommandsTypes /\ RootsKnown /\ Commands!UserCommandWins
      /\ flags.useBridge \in BOOLEAN
  BY CommandsTyped DEF CommandsTypes, Commands!Flags, Commands!Names
<1> DEFINE outer == [b \in {"b1", "b2"} |->
             IF b \in required /\ Commands!Truthy(Commands!Outers[b])
             THEN Commands!Outers[b] ELSE env.outer[b]]
<1>2. /\ session = "export" /\ session' = "idle" /\ env' = [env EXCEPT !.outer = outer]
      /\ UNCHANGED <<given, flags, required, templates, commandsSource, commandsDecision>>
  BY DEF Commands!Export, Commands!fixed
<1>3. \A b \in {"b1", "b2"} :
        /\ outer[b] \in Commands!Outer
        /\ Commands!Truthy(env.outer[b]) => outer[b] = env.outer[b]
  <2>1. \A b \in {"b1", "b2"} :
          Commands!Outers[b] = Commands!CommandOf(env.outer, b, flags.useBridge)
    BY DEF Commands!Outers
  <2>2. \A b \in {"b1", "b2"} : env.outer[b] \in Commands!Outer BY CommandsTyped
  <2>3. ASSUME NEW b \in {"b1", "b2"}
        PROVE  /\ outer[b] \in Commands!Outer
               /\ Commands!Truthy(env.outer[b]) => outer[b] = env.outer[b]
    <3>1. /\ Commands!Outers[b] \in Commands!Outer
          /\ Commands!Truthy(env.outer[b]) => Commands!Outers[b] = env.outer[b]
      BY <1>1, <2>1, ChosenCommand
    <3>2. outer[b] \in {Commands!Outers[b], env.outer[b]} OBVIOUS
    <3>3. QED BY <2>2, <3>1, <3>2
  <2>4. QED BY <2>3
<1>4. outer \in [{"b1", "b2"} -> Commands!Outer] BY <1>3
<1> HIDE DEF outer
<1>5. /\ env'.outer = outer /\ env'.inner = env.inner /\ env'.roots = env.roots
      /\ env' = [outer |-> env'.outer, inner |-> env'.inner, roots |-> env'.roots]
  BY <1>1, <1>2 DEF CommandsTypes
<1>6. CommandsTypes' BY <1>1, <1>2, <1>4, <1>5 DEF CommandsTypes
<1>7. RootsKnown' BY <1>1, <1>2, <1>5 DEF RootsKnown
<1>8. DecidedOfThis' /\ Settled'
  BY <1>2 DEF DecidedOfThis, Settled, Commands!FailureIsRecorded
<1>9. Commands!UserCommandWins'
  <2>1. \A b \in {"b1", "b2"} :
          Commands!Command(given.outer[b]) => outer[b] = given.outer[b]
    BY <1>1, <1>3, CommandValues DEF Commands!UserCommandWins
  <2>2. QED BY <1>1, <1>2, <1>5, <2>1 DEF Commands!UserCommandWins
<1>10. QED BY <1>6, <1>7, <1>8, <1>9 DEF CommandsInv

(* What Apply puts into the environment.                                    *)
Kept(b) ==
  LET c == IF b \in required THEN Commands!CommandOf(env.outer, b, TRUE) ELSE env.outer[b]
  IN  IF Commands!Truthy(c) THEN c ELSE env.outer[b]

LEMMA KeptCommand ==
  ASSUME CommandsInv, NEW b \in {"b1", "b2"}
  PROVE  /\ Kept(b) \in Commands!Outer
         /\ Commands!Truthy(env.outer[b]) => Kept(b) = env.outer[b]
         /\ Commands!Truthy(Kept(b)) \/ b \notin required \/ b \notin templates.bridge
         /\ b \notin required \/ b \notin templates.bridge => Kept(b) = env.outer[b]
<1>1. env.outer[b] \in Commands!Outer BY CommandsTyped
<1> DEFINE c == Commands!CommandOf(env.outer, b, TRUE)
<1>2. /\ c \in Commands!Outer
      /\ Commands!Truthy(env.outer[b]) => c = env.outer[b]
      /\ ~Commands!Truthy(env.outer[b]) => c = Commands!BridgeTemplate(b)
  BY ChosenCommand
<1>3. /\ b \in templates.bridge => Commands!BridgeTemplate(b) = "bridge"
      /\ b \notin templates.bridge => Commands!BridgeTemplate(b) = "empty"
      /\ Commands!Truthy("bridge") /\ ~Commands!Truthy("empty")
  BY CommandValues
<1>4. /\ b \in required /\ Commands!Truthy(c) => Kept(b) = c
      /\ ~(b \in required /\ Commands!Truthy(c)) => Kept(b) = env.outer[b]
  BY DEF Kept
<1> HIDE DEF c
<1>5. QED BY <1>1, <1>2, <1>3, <1>4

LEMMA TemplateInner ==
  ASSUME CommandsInv, NEW b \in {"b1", "b2"}
  PROVE  LET i == Commands!WithTemplates(env.inner)[b] IN
         /\ i \in Commands!Inner
         /\ Commands!Truthy(env.inner[b]) => i = env.inner[b]
         /\ Commands!Truthy(i) \/ b \notin required \/ b \notin templates.adapter
         /\ b \notin required \/ b \notin templates.adapter => i = env.inner[b]
<1>1. env.inner[b] \in Commands!Inner /\ "adapter" \in Commands!Inner
  BY CommandsTyped DEF Commands!Inner
<1>2. Commands!Truthy("adapter") BY CommandValues
<1>3. Commands!WithTemplates(env.inner)[b] =
        IF Commands!Truthy(env.inner[b]) \/ b \notin required THEN env.inner[b]
        ELSE IF b \in templates.adapter THEN "adapter" ELSE env.inner[b]
  BY DEF Commands!WithTemplates
<1>4. QED BY <1>1, <1>2, <1>3

LEMMA ApplyEffect ==
  ASSUME CommandsInv, Commands!Apply
  PROVE  /\ session \in {"idle", "applied"} /\ session' = "applied"
         /\ UNCHANGED <<given, flags, required, templates, commandsSource>>
         /\ env' = [outer |-> [b \in {"b1", "b2"} |-> Kept(b)],
                    inner |-> Commands!WithTemplates(env.inner),
                    roots |-> Commands!Deduplicated(<<"root">> \o env.roots)]
         /\ commandsDecision' =
              [bridge |-> Commands!BridgeDecision(env'.outer, env'.inner, Commands!ApplyFlags),
               commands |-> Commands!CommandsDecision(env'.outer, Commands!ApplyFlags),
               environment |->
                 IF /\ Commands!BridgeDecision(env'.outer, env'.inner, Commands!ApplyFlags) = "PASS"
                    /\ Commands!CommandsDecision(env'.outer, Commands!ApplyFlags) = "PASS"
                 THEN "PASS" ELSE "FAIL"]
<1> DEFINE outer == [b \in {"b1", "b2"} |->
             IF b \in required THEN Commands!CommandOf(env.outer, b, TRUE) ELSE env.outer[b]]
           puts == [b \in {"b1", "b2"} |->
             IF Commands!Truthy(outer[b]) THEN outer[b] ELSE env.outer[b]]
           inner == Commands!WithTemplates(env.inner)
           bridge == Commands!BridgeDecision(puts, inner, Commands!ApplyFlags)
           commands == Commands!CommandsDecision(puts, Commands!ApplyFlags)
<1>1. /\ session \in {"idle", "applied"} /\ session' = "applied"
      /\ UNCHANGED <<given, flags, required, templates, commandsSource>>
      /\ env' = [outer |-> puts, inner |-> inner,
                 roots |-> Commands!Deduplicated(<<"root">> \o env.roots)]
      /\ commandsDecision' = [bridge |-> bridge, commands |-> commands,
                              environment |-> IF bridge = "PASS" /\ commands = "PASS"
                                              THEN "PASS" ELSE "FAIL"]
  BY DEF Commands!Apply, Commands!fixed
<1>2. puts = [b \in {"b1", "b2"} |-> Kept(b)] BY DEF Kept
<1> HIDE DEF puts, inner
<1>3. env'.outer = puts /\ env'.inner = inner BY <1>1
<1>4. QED BY <1>1, <1>2, <1>3 DEF inner

LEMMA ApplyStep == ASSUME CommandsInv, Commands!Apply PROVE CommandsInv'
<1>1. /\ CommandsTypes /\ RootsKnown /\ Commands!UserCommandWins
  BY CommandsTyped
<1> DEFINE bridge == Commands!BridgeDecision(env'.outer, env'.inner, Commands!ApplyFlags)
           commands == Commands!CommandsDecision(env'.outer, Commands!ApplyFlags)
           both == IF bridge = "PASS" /\ commands = "PASS" THEN "PASS" ELSE "FAIL"
<1>2. /\ session \in {"idle", "applied"} /\ session' = "applied"
      /\ UNCHANGED <<given, flags, required, templates, commandsSource>>
      /\ env' = [outer |-> [b \in {"b1", "b2"} |-> Kept(b)],
                 inner |-> Commands!WithTemplates(env.inner),
                 roots |-> Commands!Deduplicated(<<"root">> \o env.roots)]
      /\ commandsDecision' = [bridge |-> bridge, commands |-> commands, environment |-> both]
  BY ApplyEffect
<1>3. /\ env'.outer = [b \in {"b1", "b2"} |-> Kept(b)]
      /\ env'.inner = Commands!WithTemplates(env.inner)
      /\ env'.roots = Commands!Deduplicated(<<"root">> \o env.roots)
      /\ env' = [outer |-> env'.outer, inner |-> env'.inner, roots |-> env'.roots]
  BY <1>2
<1>4. \A b \in {"b1", "b2"} :
        /\ env'.outer[b] = Kept(b) /\ env'.outer[b] \in Commands!Outer
        /\ env'.inner[b] \in Commands!Inner
        /\ Commands!Truthy(env.outer[b]) => env'.outer[b] = env.outer[b]
        /\ Commands!Truthy(env.inner[b]) => env'.inner[b] = env.inner[b]
        /\ Commands!Truthy(env'.outer[b]) \/ b \notin required \/ b \notin templates.bridge
        /\ Commands!Truthy(env'.inner[b]) \/ b \notin required \/ b \notin templates.adapter
  BY <1>3, KeptCommand, TemplateInner
<1>5. /\ bridge \in {"PASS", "FAIL"} /\ commands \in {"PASS", "FAIL"}
      /\ both \in {"PASS", "FAIL"}
  BY DEF Commands!BridgeDecision, Commands!CommandsDecision
<1> HIDE DEF bridge, commands, both
<1>6. /\ commandsDecision'.bridge = bridge /\ commandsDecision'.commands = commands
      /\ commandsDecision'.environment = both
      /\ commandsDecision' \in [{"bridge", "commands", "environment"} -> Commands!Decision]
  BY <1>2, <1>5 DEF Commands!Decision
<1>7. CommandsTypes'
  <2>1. env'.outer \in [{"b1", "b2"} -> Commands!Outer] BY <1>3, <1>4
  <2>2. env'.inner \in [{"b1", "b2"} -> Commands!Inner]
    BY <1>3, <1>4 DEF Commands!WithTemplates
  <2>3. QED BY <1>1, <1>2, <1>3, <1>6, <2>1, <2>2 DEF CommandsTypes
<1>8. RootsKnown'
  <2>1. env.roots = given.roots \/ env.roots = WithLayoutRoot(given.roots)
    BY <1>1 DEF RootsKnown
  <2>2. given.roots \in BundleRoots /\ given' = given BY <1>1, <1>2 DEF RootsKnown
  <2>3. env'.roots = WithLayoutRoot(given.roots) BY <1>3, <2>1, <2>2, RootsOnce
  <2>4. QED BY <1>2, <2>2, <2>3 DEF RootsKnown
<1>9. DecidedOfThis'
  <2>1. /\ Commands!BridgeDecision(env.outer, env.inner, Commands!ApplyFlags)' = bridge
        /\ Commands!CommandsDecision(env.outer, Commands!ApplyFlags)' = commands
    BY <1>2
    DEF bridge, commands, Commands!ApplyFlags, Commands!BridgeDecision,
        Commands!CommandsDecision, Commands!MissingInner, Commands!MissingOuter,
        Commands!Effective, Commands!BridgeTemplate
  <2>2. QED BY <1>2, <1>6, <2>1 DEF DecidedOfThis, Commands!FailureIsRecorded, both
<1>10. Settled' BY <1>2, <1>4 DEF Settled
<1>11. Commands!UserCommandWins'
  BY <1>1, <1>2, <1>4, CommandValues DEF Commands!UserCommandWins
<1>12. QED BY <1>7, <1>8, <1>9, <1>10, <1>11 DEF CommandsInv

LEMMA NextCommandsInv == CommandsInv /\ [Commands!Next]_(Commands!vars) => CommandsInv'
BY PreflightStageSteps, ExportStep, ApplyStep DEF Commands!Next

(* Running the cell again finds every value as it is.                       *)
LEMMA ApplyAgain ==
  ASSUME CommandsInv, [Commands!Next]_(Commands!vars), session = "applied",
         session' = "applied"
  PROVE  env' = env /\ commandsDecision' = commandsDecision
<1>1. CASE Commands!Apply
  <2>1. /\ CommandsTypes /\ RootsKnown /\ DecidedOfThis /\ Settled BY CommandsTyped
  <2>2. CommandsInv' BY ApplyStep, <1>1
  <2>3. /\ env' = [outer |-> [b \in {"b1", "b2"} |-> Kept(b)],
                   inner |-> Commands!WithTemplates(env.inner),
                   roots |-> Commands!Deduplicated(<<"root">> \o env.roots)]
        /\ UNCHANGED <<given, flags, required, templates>>
    BY <1>1, ApplyEffect
  <2>4. [b \in {"b1", "b2"} |-> Kept(b)] = env.outer
    <3>1. \A b \in {"b1", "b2"} : Kept(b) = env.outer[b]
      BY <2>1, KeptCommand DEF Settled
    <3>2. QED BY <2>1, <3>1 DEF CommandsTypes
  <2>5. Commands!WithTemplates(env.inner) = env.inner
    <3>1. \A b \in {"b1", "b2"} : Commands!WithTemplates(env.inner)[b] = env.inner[b]
      BY <2>1, TemplateInner DEF Settled
    <3>2. QED BY <2>1, <3>1 DEF CommandsTypes, Commands!WithTemplates
  <2>6. Commands!Deduplicated(<<"root">> \o env.roots) = env.roots
    BY <2>1, RootsOnce DEF RootsKnown
  <2>7. env' = env BY <2>1, <2>3, <2>4, <2>5, <2>6 DEF CommandsTypes
  <2>8. DecidedOfThis' /\ CommandsTypes' BY <2>2 DEF CommandsInv
  <2>9. /\ commandsDecision'.bridge = commandsDecision.bridge
        /\ commandsDecision'.commands = commandsDecision.commands
        /\ commandsDecision'.environment = commandsDecision.environment
    <3>1. /\ Commands!BridgeDecision(env.outer, env.inner, Commands!ApplyFlags)' =
               Commands!BridgeDecision(env.outer, env.inner, Commands!ApplyFlags)
          /\ Commands!CommandsDecision(env.outer, Commands!ApplyFlags)' =
               Commands!CommandsDecision(env.outer, Commands!ApplyFlags)
      BY <2>3, <2>7
      DEF Commands!ApplyFlags, Commands!BridgeDecision,
          Commands!CommandsDecision, Commands!MissingInner, Commands!MissingOuter,
          Commands!Effective, Commands!BridgeTemplate
    <3>2. QED BY <2>1, <2>8, <3>1 DEF DecidedOfThis
  <2>10. QED BY <2>1, <2>7, <2>8, <2>9 DEF CommandsTypes
<1>2. CASE Commands!Stopped \/ UNCHANGED Commands!vars
  BY <1>2 DEF Commands!Stopped, Commands!vars
<1>3. QED
  BY <1>1, <1>2
  DEF Commands!Next, Commands!Preflight, Commands!CheckBridge, Commands!CheckCommands,
      Commands!Export

(* The children run exactly if the preflight that came with their           *)
(* environment passed.                                                      *)
LEMMA PassedRun ==
  ASSUME CommandsInv
  PROVE  Commands!PassedChildrenRun /\ Commands!FailedChildrenDoNot
<1>1. /\ RootsKnown /\ DecidedOfThis /\ CommandsTypes
      /\ \A b \in {"b1", "b2"} :
           env.outer[b] \in Commands!Outer /\ env.inner[b] \in Commands!Inner
  BY CommandsTyped
<1> SUFFICES ASSUME session = "applied"
             PROVE  Commands!PassedChildrenRun /\ Commands!FailedChildrenDoNot
  BY DEF Commands!PassedChildrenRun, Commands!FailedChildrenDoNot
<1>2. env.roots # <<>>
  <2>1. <<"root">> # <<>> /\ <<"root", "older">> # <<>> OBVIOUS
  <2>2. QED BY <1>1, <2>1 DEF RootsKnown, WithLayoutRoot
<1>3. /\ Commands!ApplyFlags.useBridge = TRUE /\ Commands!ApplyFlags.requireBridge = TRUE
      /\ Commands!ApplyFlags.requireCommands = TRUE
      /\ Commands!ApplyFlags.gate = flags.gate /\ flags.gate \in BOOLEAN
  BY <1>1 DEF Commands!ApplyFlags, CommandsTypes, Commands!Flags, Commands!Names
<1> DEFINE inner == Commands!MissingInner(env.outer, env.inner, TRUE)
           outer == Commands!MissingOuter(env.outer)
<1>4. /\ commandsDecision.environment = "PASS" /\ flags.gate => inner = {} /\ outer = {}
      /\ commandsDecision.environment = "FAIL" => inner # {} \/ outer # {}
  BY <1>1, <1>3 DEF DecidedOfThis, Commands!BridgeDecision, Commands!CommandsDecision
<1>5. \A b \in required :
        /\ b \notin inner /\ b \notin outer =>
             /\ Commands!Outcome(b, TRUE) = "runs"
             /\ env.inner[b] = "adapter" => Commands!Outcome(b, FALSE) = "runs"
        /\ b \in inner \/ b \in outer => Commands!Outcome(b, TRUE) # "runs"
  <2> TAKE b \in required
  <2>1. b \in {"b1", "b2"} /\ env.outer[b] \in Commands!Outer
    BY <1>1 DEF CommandsTypes
  <2>2. b \in outer <=> ~Commands!Command(env.outer[b])
    BY DEF Commands!MissingOuter
  <2>3. b \in inner <=> /\ Commands!Effective(env.outer, b, TRUE) = "bridge"
                        /\ ~Commands!Command(env.inner[b])
    BY DEF Commands!MissingInner
  <2>4. /\ Commands!Command(env.outer[b]) <=> env.outer[b] \in {"bridge", "direct"}
        /\ Commands!Command(env.inner[b]) <=> env.inner[b] \in {"adapter", "native"}
    BY <1>1, <2>1 DEF Commands!Command, Commands!Outer, Commands!Inner
  <2>5. Commands!Command(env.outer[b]) =>
          Commands!Effective(env.outer, b, TRUE) = env.outer[b]
    BY DEF Commands!Effective
  <2>6. CASE ~Commands!Command(env.outer[b])
    <3>1. Commands!Outcome(b, TRUE) = "not_runnable" BY <2>6 DEF Commands!Outcome
    <3>2. QED BY <2>2, <2>6, <3>1
  <2>7. CASE env.outer[b] = "direct"
    <3>1. Commands!Outcome(b, TRUE) = "runs" /\ Commands!Outcome(b, FALSE) = "runs"
      BY <2>4, <2>7 DEF Commands!Outcome
    <3>2. b \notin inner /\ b \notin outer BY <2>2, <2>3, <2>4, <2>5, <2>7
    <3>3. QED BY <3>1, <3>2
  <2>8. CASE env.outer[b] = "bridge"
    <3>1. /\ b \notin outer /\ Commands!Command(env.outer[b])
          /\ b \in inner <=> ~Commands!Command(env.inner[b])
      BY <2>2, <2>3, <2>4, <2>5, <2>8
    <3>2. CASE Commands!Command(env.inner[b])
      <4>1. Commands!Outcome(b, TRUE) = "runs"
        BY <2>8, <3>1, <3>2 DEF Commands!Outcome
      <4>2. env.inner[b] = "adapter" => Commands!Outcome(b, FALSE) = "runs"
        BY <1>2, <2>8, <3>1, <3>2 DEF Commands!Outcome
      <4>3. QED BY <3>1, <3>2, <4>1, <4>2
    <3>3. CASE ~Commands!Command(env.inner[b])
      <4>1. Commands!Outcome(b, TRUE) = "no_official_command"
        BY <2>8, <3>1, <3>3 DEF Commands!Outcome
      <4>2. QED BY <3>1, <3>3, <4>1
    <3>4. QED BY <3>2, <3>3
  <2>9. QED BY <2>1, <2>4, <2>6, <2>7, <2>8
<1>6. inner \subseteq required /\ outer \subseteq required
  BY DEF Commands!MissingInner, Commands!MissingOuter
<1> HIDE DEF inner, outer
<1>7. Commands!PassedChildrenRun BY <1>4, <1>5 DEF Commands!PassedChildrenRun
<1>8. Commands!FailedChildrenDoNot
  BY <1>4, <1>5, <1>6 DEF Commands!FailedChildrenDoNot
<1>9. QED BY <1>7, <1>8

LEMMA SameCardinality == \A S : Commands!Cardinality(S) = Cardinality(S)
BY DEF Commands!Cardinality, Cardinality

LEMMA RootsAreCounted ==
  ASSUME CommandsInv
  PROVE  Commands!RootsAreKept /\ env.roots \in Seq({"older"} \cup {"root"})
<1>1. RootsKnown BY CommandsTyped
<1>2. /\ <<>> \in Seq({"older"} \cup {"root"})
      /\ <<"older", "older">> \in Seq({"older"} \cup {"root"})
      /\ <<"root">> \in Seq({"older"} \cup {"root"})
      /\ <<"root", "older">> \in Seq({"older"} \cup {"root"})
  OBVIOUS
<1>3. env.roots \in Seq({"older"} \cup {"root"})
  BY <1>1, <1>2 DEF RootsKnown, BundleRoots, WithLayoutRoot
<1>4. ASSUME session = "applied"
      PROVE  /\ Head(env.roots) = "root"
             /\ Cardinality(Commands!ToSet(env.roots)) = Len(env.roots)
             /\ Commands!ToSet(given.roots) \subseteq Commands!ToSet(env.roots)
  <2>1. /\ Cardinality({"root"}) = 1 /\ IsFiniteSet({"root"}) BY FS_Singleton
  <2>2. Cardinality({"root"} \cup {"older"}) = 2 BY <2>1, FS_AddElement
  <2>3. CASE given.roots = <<>>
    <3>1. env.roots = <<"root">> BY <1>1, <1>4, <2>3 DEF RootsKnown, WithLayoutRoot
    <3>2. /\ Head(<<"root">>) = "root" /\ Len(<<"root">>) = 1
          /\ Commands!ToSet(<<"root">>) = {"root"} /\ Commands!ToSet(<<>>) = {}
      BY DEF Commands!ToSet
    <3>3. QED BY <2>1, <2>3, <3>1, <3>2
  <2>4. CASE given.roots = <<"older", "older">>
    <3>1. <<"older", "older">> # <<>> OBVIOUS
    <3>2. env.roots = <<"root", "older">>
      BY <1>1, <1>4, <2>4, <3>1 DEF RootsKnown, WithLayoutRoot
    <3>3. DOMAIN <<"root", "older">> = {1, 2} /\ DOMAIN <<"older", "older">> = {1, 2}
      OBVIOUS
    <3>4. /\ Head(<<"root", "older">>) = "root" /\ Len(<<"root", "older">>) = 2
          /\ <<"root", "older">>[1] = "root" /\ <<"root", "older">>[2] = "older"
          /\ <<"older", "older">>[1] = "older" /\ <<"older", "older">>[2] = "older"
      OBVIOUS
    <3>5. /\ Commands!ToSet(<<"root", "older">>) = {"root"} \cup {"older"}
          /\ Commands!ToSet(<<"older", "older">>) = {"older"}
      <4>1. \A s : DOMAIN s = {1, 2} => Commands!ToSet(s) = {s[1], s[2]}
        BY DEF Commands!ToSet
      <4>2. /\ Commands!ToSet(<<"root", "older">>) = {<<"root", "older">>[1], <<"root", "older">>[2]}
            /\ Commands!ToSet(<<"older", "older">>) = {<<"older", "older">>[1], <<"older", "older">>[2]}
        BY <3>3, <4>1
      <4>3. QED BY <3>4, <4>2
    <3>6. QED BY <2>2, <2>4, <3>2, <3>4, <3>5
  <2>5. QED BY <1>1, <2>3, <2>4 DEF RootsKnown, BundleRoots
<1>5. Commands!RootsAreKept
  <2> SUFFICES ASSUME session = "applied"
               PROVE  /\ Head(env.roots) = "root"
                      /\ Commands!Cardinality(Commands!ToSet(env.roots)) = Len(env.roots)
                      /\ Commands!ToSet(given.roots) \subseteq Commands!ToSet(env.roots)
    BY DEF Commands!RootsAreKept
  <2>1. QED BY <1>4, SameCardinality
<1>6. QED BY <1>3, <1>5

LEMMA CommandsAreAsPromised ==
  ASSUME CommandsInv
  PROVE  /\ Commands!TypeOK /\ Commands!PassedChildrenRun /\ Commands!FailedChildrenDoNot
         /\ Commands!UserCommandWins /\ Commands!FailureIsRecorded /\ Commands!RootsAreKept
BY CommandsTyped, PassedRun, RootsAreCounted DEF CommandsTypes, DecidedOfThis, Commands!TypeOK

LEMMA CommandsProjects == [SomeStep]_allVars => [Commands!Next]_(Commands!vars)
<1> SUFFICES ASSUME [SomeStep]_allVars PROVE [Commands!Next]_(Commands!vars)
  OBVIOUS
<1> USE DEF commandsVars, Commands!vars
<1>1. CASE CommandsStep BY <1>1 DEF CommandsStep
<1>2. CASE Rest /\ program # "commands"
  BY <1>2 DEF Rest
<1>3. CASE UNCHANGED allVars BY <1>3 DEF allVars
<1>4. QED
  BY <1>1, <1>2, <1>3
  DEF SomeStep, ProbeStep, RuntimeStep, PreflightStep, ScoringStep,
      PromotionStep, SetupStep, FramesStep, AtomStep, ServerStep,
      OfficialReferenceStep, ProvenanceStep

LEMMA CommandsStartAnyhow == Start => CommandsInv
<1> SUFFICES ASSUME Start PROVE CommandsInv
  OBVIOUS
<1>1. CASE program = "commands" BY <1>1, CommandsStart DEF Start
<1>2. CASE program # "commands"
  <2> DEFINE none == [outer |-> [b \in {"b1", "b2"} |-> "empty"],
                      inner |-> [b \in {"b1", "b2"} |-> "unset"], roots |-> <<>>]
  <2>1. /\ env = none /\ given = env /\ flags = [n \in Commands!Names |-> TRUE]
        /\ required = {"b1"} /\ session = "idle" /\ commandsSource = env.inner
        /\ commandsDecision = [d \in {"bridge", "commands", "environment"} |-> "earlier"]
    BY <1>2 DEF Start
  <2>2. /\ none.outer = [b \in {"b1", "b2"} |-> "empty"]
        /\ none.inner = [b \in {"b1", "b2"} |-> "unset"] /\ none.roots = <<>>
        /\ none = [outer |-> none.outer, inner |-> none.inner, roots |-> none.roots]
    OBVIOUS
  <2>3. /\ none.outer \in [{"b1", "b2"} -> Commands!Outer]
        /\ none.inner \in [{"b1", "b2"} -> Commands!Inner]
    BY <2>2 DEF Commands!Outer, Commands!Inner
  <2>4. flags \in Commands!Flags
    <3>1. TRUE \in BOOLEAN OBVIOUS
    <3>2. QED BY <2>1, <3>1 DEF Commands!Flags
  <2>5. commandsDecision \in [{"bridge", "commands", "environment"} -> Commands!Decision]
    BY <2>1 DEF Commands!Decision
  <2> HIDE DEF none
  <2>6. CommandsTypes BY <2>1, <2>2, <2>3, <2>4, <2>5 DEF CommandsTypes
  <2>7. RootsKnown BY <2>1, <2>2 DEF RootsKnown, BundleRoots
  <2>8. DecidedOfThis /\ Settled /\ Commands!UserCommandWins
    BY <2>1 DEF DecidedOfThis, Settled, Commands!FailureIsRecorded, Commands!UserCommandWins
  <2>9. QED BY <2>6, <2>7, <2>8 DEF CommandsInv
<1>3. QED BY <1>1, <1>2

-----------------------------------------------------------------------------
(* The environment of a run.                                                *)

EnvironmentInv == SetupInv /\ ProvenanceInv /\ CommandsInv

\* EnvironmentIsRecorded for every number of faults and calls: a source that was synced
\* is at its pin (prepare_modern_external_baseline_official_sources), what was bound is
\* there, a passed preflight means children that run (generative_video_paper), and a
\* provenance record is of the model that ran and of the code that ran: of the repository,
\* or of a whole package that is outside it or has a manifest that names the commit, which
\* may hold leftovers if it was extracted over an earlier one
\* (runtime_environment_provenance, extract_minimal_paper_package).
THEOREM EnvironmentStaysRecorded == AllSpec => []EnvironmentIsRecorded
<1>1. Start => EnvironmentInv
  BY SetupStarts, ProvenanceStarts, CommandsStartAnyhow DEF Start, EnvironmentInv
<1>2. EnvironmentInv /\ [SomeStep]_allVars => EnvironmentInv'
  BY SetupProjects, ProvenanceProjects, CommandsProjects, NextSetupInv, NextProvenanceInv,
     NextCommandsInv
  DEF EnvironmentInv
<1>3. EnvironmentInv => EnvironmentIsRecorded
  BY SetupIsAsPromised, ProvenanceIsAsPromised, CommandsAreAsPromised
  DEF EnvironmentInv, EnvironmentIsRecorded
<1>4. QED BY <1>1, <1>2, <1>3, PTL DEF AllSpec

\* Applying the environment of the formal comparison again changes neither a command, nor
\* a root, nor a decision (apply_formal_comparison_external_baseline_environment).
THEOREM ApplyingAgainIsTheSame == AllSpec => Commands!RepeatedIsTheSame
<1>1. Start => CommandsInv BY CommandsStartAnyhow
<1>2. CommandsInv /\ [SomeStep]_allVars => CommandsInv'
  BY CommandsProjects, NextCommandsInv
<1>3. CommandsInv /\ [SomeStep]_allVars =>
        [session = "applied" /\ session' = "applied" =>
           env' = env /\ commandsDecision' = commandsDecision]_(Commands!vars)
  BY CommandsProjects, ApplyAgain
<1>4. QED BY <1>1, <1>2, <1>3, PTL DEF AllSpec, Commands!RepeatedIsTheSame

=============================================================================
