-------------------------- MODULE ModelLoadPreflight --------------------------
(***************************************************************************)
(* run_wan_model_load_cache_preflight                                      *)
(* (experiments/generative_video_model_probe/                              *)
(* wan_model_load_cache_preflight.py): a supervisor starts a worker that   *)
(* downloads and loads the video model, watches the cache and two time     *)
(* limits, stops the worker when one passes, and decides PASS or FAIL from *)
(* the exit code and from the state file the worker rewrites at every      *)
(* phase of the load.                                                      *)
(*                                                                         *)
(* The supervisor may raise anywhere and may be killed; a killed one       *)
(* leaves its worker running, and that worker goes on writing to the path  *)
(* of the state file, which the next attempt on the machine uses as well.  *)
(*                                                                         *)
(* Time is left out: a limit that is running may pass.  The state file is  *)
(* replaced atomically (os.replace), so a write is one step.               *)
(***************************************************************************)
EXTENDS Integers, FiniteSets

CONSTANTS
  Ledger,         \* marks in EXPECTED_LOADER_PHASE_LEDGER
  CacheChanges,   \* bound on the changes of the Hugging Face cache
  Attempts,       \* bound on the calls on one machine
  MaxExceptions   \* bound on the exceptions raised in the supervisor

PreflightAssumption ==
  /\ Ledger \in Nat \ {0} /\ CacheChanges \in Nat
  /\ Attempts \in Nat \ {0} /\ MaxExceptions \in Nat

Calls == 1 .. Attempts
Absent == [by |-> 0, marks |-> 0, status |-> "absent"]
Starting == [by |-> 0, marks |-> 0, status |-> "worker_starting"]
NoCode == 99

VARIABLES
  (* the workers, one for each call *)
  proc,       \* "none", "working", "completed", "failed", "exited", "reaped"
  code,       \* the exit code of one that has exited
  marks,      \* length of its loader_phase_ledger
  signals,    \* the signals it was sent by a supervisor
  (* what they share *)
  stateFile, cache,
  (* the supervisor *)
  call, pc,
  seen,       \* last_signature
  stalled,    \* has no_progress_timeout passed since it changed
  late,       \* has overall_timeout passed
  outcome, final, decision, manifest,
  exceptions,
  unguarded   \* did an exception strike outside the try, or in its clean-up

workerVars == <<proc, code, marks, signals>>
clockVars == <<seen, stalled, late>>
resultVars == <<outcome, final, decision, manifest>>
vars == <<workerVars, stateFile, cache, call, pc, clockVars, resultVars,
          exceptions, unguarded>>

Init ==
  /\ proc = [c \in Calls |-> "none"] /\ code = [c \in Calls |-> NoCode]
  /\ marks = [c \in Calls |-> 0] /\ signals = [c \in Calls |-> {}]
  /\ stateFile = Absent /\ cache = 0
  /\ call = 1 /\ pc = "start"
  /\ seen = -1 /\ stalled = FALSE /\ late = FALSE
  /\ outcome = "none" /\ final = Absent
  /\ decision = "none" /\ manifest = "none"
  /\ exceptions = 0 /\ unguarded = FALSE

supervisorVars == <<call, pc, clockVars, resultVars, exceptions, unguarded>>

-----------------------------------------------------------------------------
(* The worker of call c. *)
Alive(c) == proc[c] \in {"working", "completed", "failed"}

Record(c, n, s) == [by |-> c, marks |-> n, status |-> s]

(* phase_callback: the next mark of the ledger, and the state file. *)
WorkerMarksPhase(c) ==
  /\ proc[c] = "working" /\ marks[c] < Ledger
  /\ marks' = [marks EXCEPT ![c] = @ + 1]
  /\ stateFile' = Record(c, marks[c] + 1, "running")
  /\ UNCHANGED <<proc, code, signals, cache, supervisorVars>>

(* snapshot_download fills the cache. *)
CacheChangesBy(c) ==
  /\ proc[c] = "working" /\ cache < CacheChanges /\ cache' = cache + 1
  /\ UNCHANGED <<workerVars, stateFile, supervisorVars>>

WorkerCompletes(c) ==
  /\ proc[c] = "working" /\ marks[c] = Ledger
  /\ proc' = [proc EXCEPT ![c] = "completed"]
  /\ stateFile' = Record(c, Ledger, "success")
  /\ UNCHANGED <<code, marks, signals, cache, supervisorVars>>

(* Any exception; the write of the failure may fail itself. *)
WorkerFails(c) ==
  /\ proc[c] = "working"
  /\ proc' = [proc EXCEPT ![c] = "failed"]
  /\ stateFile' \in {stateFile, Record(c, marks[c], "failure")}
  /\ UNCHANGED <<code, marks, signals, cache, supervisorVars>>

WorkerExits(c) ==
  /\ proc[c] \in {"completed", "failed"}
  /\ proc' = [proc EXCEPT ![c] = "exited"]
  /\ code' = [code EXCEPT ![c] = IF proc[c] = "completed" THEN 0 ELSE 1]
  /\ UNCHANGED <<marks, signals, stateFile, cache, supervisorVars>>

(* A signal, or the kernel, ends it between any two steps. *)
WorkerDies(c) ==
  /\ Alive(c)
  /\ proc' = [proc EXCEPT ![c] = "exited"]
  /\ code' = [code EXCEPT ![c] = -1]
  /\ UNCHANGED <<marks, signals, stateFile, cache, supervisorVars>>

WorkerStep(c) ==
  \/ "KILL" \notin signals[c]
     /\ \/ WorkerMarksPhase(c) \/ CacheChangesBy(c) \/ WorkerCompletes(c)
        \/ WorkerFails(c) \/ WorkerExits(c)
  \/ WorkerDies(c)

-----------------------------------------------------------------------------
(* The supervisor. *)
Goto(from, to) == pc = from /\ pc' = to

OutputNotEmpty ==
  /\ stateFile # Absent /\ Goto("start", "raised")
  /\ UNCHANGED <<workerVars, stateFile, cache, call, clockVars, resultVars>>
  /\ UNCHANGED <<exceptions, unguarded>>

CreateState ==
  /\ stateFile = Absent /\ stateFile' = Starting /\ Goto("start", "launch")
  /\ UNCHANGED <<workerVars, cache, call, clockVars, resultVars>>
  /\ UNCHANGED <<exceptions, unguarded>>

Launch ==
  /\ Goto("launch", "launched") /\ proc' = [proc EXCEPT ![call] = "working"]
  /\ UNCHANGED <<code, marks, signals, stateFile, cache, call, clockVars>>
  /\ UNCHANGED <<resultVars, exceptions, unguarded>>

EnterLoop ==
  /\ Goto("launched", "look")
  /\ UNCHANGED <<workerVars, stateFile, cache, call, clockVars, resultVars>>
  /\ UNCHANGED <<exceptions, unguarded>>

(* The signature is the cache's file count and bytes, nothing else. *)
Look ==
  /\ Goto("look", "poll")
  /\ seen' = cache /\ stalled' = (stalled /\ seen = cache)
  /\ UNCHANGED <<workerVars, stateFile, cache, call, late, resultVars>>
  /\ UNCHANGED <<exceptions, unguarded>>

Reaped == proc' = [proc EXCEPT ![call] = "reaped"]

PollFindsExit ==
  /\ proc[call] = "exited" /\ Goto("poll", "final") /\ Reaped
  /\ outcome' = IF code[call] = 0 THEN "success" ELSE "worker_error"
  /\ UNCHANGED <<code, marks, signals, stateFile, cache, call, clockVars>>
  /\ UNCHANGED <<final, decision, manifest, exceptions, unguarded>>

(* The overall limit is looked at first. *)
PollFindsTimeout ==
  /\ Alive(call) /\ (late \/ stalled) /\ Goto("poll", "term")
  /\ outcome' = IF late THEN "overall_timeout" ELSE "no_progress_timeout"
  /\ UNCHANGED <<workerVars, stateFile, cache, call, clockVars>>
  /\ UNCHANGED <<final, decision, manifest, exceptions, unguarded>>

(* Mutation: the overall limit is looked at only when nothing moves. *)
PollContinuesWhileMoving ==
  /\ Alive(call) /\ ~stalled /\ Goto("poll", "look")
  /\ UNCHANGED <<workerVars, stateFile, cache, call, clockVars, resultVars>>
  /\ UNCHANGED <<exceptions, unguarded>>

PollContinues ==
  /\ Alive(call) /\ ~late /\ ~stalled /\ Goto("poll", "look")
  /\ UNCHANGED <<workerVars, stateFile, cache, call, clockVars, resultVars>>
  /\ UNCHANGED <<exceptions, unguarded>>

-----------------------------------------------------------------------------
(* _terminate_and_reap_worker, called in the loop (term, grace, reap) and   *)
(* from its except block (c_term, c_grace, c_reap).                         *)
InClean(p) == p \in {"c_term", "c_grace", "c_reap"}
Terminate(p) == p \in {"term", "c_term"}
Grace(p) == p \in {"grace", "c_grace"}
Reap(p) == p \in {"reap", "c_reap"}
After(p, inLoop, inClean) == IF InClean(p) THEN inClean ELSE inLoop

SendTerm ==
  /\ Terminate(pc) /\ Alive(call)
  /\ signals' = [signals EXCEPT ![call] = @ \union {"TERM"}]
  /\ pc' = After(pc, "grace", "c_grace")
  /\ UNCHANGED <<proc, code, marks, stateFile, cache, call, clockVars>>
  /\ UNCHANGED <<resultVars, exceptions, unguarded>>

NothingToTerminate ==
  /\ Terminate(pc) /\ ~Alive(call) /\ pc' = After(pc, "reap", "c_reap")
  /\ UNCHANGED <<workerVars, stateFile, cache, call, clockVars, resultVars>>
  /\ UNCHANGED <<exceptions, unguarded>>

EndsInGrace ==
  /\ Grace(pc) /\ ~Alive(call) /\ pc' = After(pc, "reap", "c_reap")
  /\ UNCHANGED <<workerVars, stateFile, cache, call, clockVars, resultVars>>
  /\ UNCHANGED <<exceptions, unguarded>>

(* Mutation: the grace has passed, and nobody waits any more. *)
GraceExpiresUnkilled ==
  /\ Grace(pc) /\ Alive(call) /\ pc' = After(pc, "final", "raised")
  /\ UNCHANGED <<workerVars, stateFile, cache, call, clockVars, resultVars>>
  /\ UNCHANGED <<exceptions, unguarded>>

GraceExpires ==
  /\ Grace(pc) /\ Alive(call) /\ pc' = After(pc, "reap", "c_reap")
  /\ signals' = [signals EXCEPT ![call] = @ \union {"KILL"}]
  /\ UNCHANGED <<proc, code, marks, stateFile, cache, call, clockVars>>
  /\ UNCHANGED <<resultVars, exceptions, unguarded>>

WaitReaps ==
  /\ Reap(pc) /\ ~Alive(call) /\ Reaped
  /\ pc' = After(pc, "final", "raised")
  /\ UNCHANGED <<code, marks, signals, stateFile, cache, call, clockVars>>
  /\ UNCHANGED <<resultVars, exceptions, unguarded>>

-----------------------------------------------------------------------------
ReadFinalState ==
  /\ Goto("final", "decide") /\ final' = stateFile
  /\ UNCHANGED <<workerVars, stateFile, cache, call, clockVars, outcome>>
  /\ UNCHANGED <<decision, manifest, exceptions, unguarded>>

(* validate_model_load_worker_success_state *)
Valid == final = Record(call, Ledger, "success")

Passes == outcome = "success" /\ Valid

WriteDecision ==
  /\ Goto("decide", "manifest")
  /\ decision' = IF Passes THEN "PASS" ELSE "FAIL"
  /\ UNCHANGED <<workerVars, stateFile, cache, call, clockVars, outcome>>
  /\ UNCHANGED <<final, manifest, exceptions, unguarded>>

WriteManifest ==
  /\ Goto("manifest", "returned") /\ manifest' = decision
  /\ UNCHANGED <<workerVars, stateFile, cache, call, clockVars, outcome>>
  /\ UNCHANGED <<final, decision, exceptions, unguarded>>

-----------------------------------------------------------------------------
InTry == {"look", "poll", "term", "grace", "reap"}
Ended == {"returned", "raised", "dead"}

(* An exception in the try block starts the clean-up, even of a clean-up. *)
RaisesInTry ==
  /\ pc \in InTry /\ pc' = "c_term" /\ exceptions < MaxExceptions
  /\ exceptions' = exceptions + 1
  /\ UNCHANGED <<workerVars, stateFile, cache, call, clockVars, resultVars>>
  /\ UNCHANGED unguarded

(* Elsewhere it leaves the call, and a running worker is left behind. *)
RaisesOutside ==
  /\ pc \notin InTry \union Ended /\ pc' = "raised"
  /\ exceptions < MaxExceptions /\ exceptions' = exceptions + 1
  /\ unguarded' = (unguarded \/ pc = "launched" \/ InClean(pc))
  /\ UNCHANGED <<workerVars, stateFile, cache, call, clockVars, resultVars>>

Kill ==
  /\ pc \notin Ended /\ pc' = "dead"
  /\ UNCHANGED <<workerVars, stateFile, cache, call, clockVars, resultVars>>
  /\ UNCHANGED <<exceptions, unguarded>>

(* The next attempt, on a workspace that was reset. *)
NextCall ==
  /\ pc \in Ended /\ call < Attempts /\ call' = call + 1 /\ pc' = "start"
  /\ stateFile' = Absent
  /\ seen' = -1 /\ stalled' = FALSE /\ late' = FALSE
  /\ outcome' = "none" /\ final' = Absent
  /\ decision' = "none" /\ manifest' = "none" /\ unguarded' = FALSE
  /\ UNCHANGED <<workerVars, cache, exceptions>>

InLoop == pc \in {"look", "poll"}

OverallTimeoutPasses ==
  /\ InLoop /\ ~late /\ late' = TRUE
  /\ UNCHANGED <<workerVars, stateFile, cache, call, pc, seen, stalled>>
  /\ UNCHANGED <<resultVars, exceptions, unguarded>>

NoProgressTimeoutPasses ==
  /\ InLoop /\ seen # -1 /\ ~stalled /\ stalled' = TRUE
  /\ UNCHANGED <<workerVars, stateFile, cache, call, pc, seen, late>>
  /\ UNCHANGED <<resultVars, exceptions, unguarded>>

SupervisorStep ==
  \/ OutputNotEmpty \/ CreateState \/ Launch \/ EnterLoop \/ Look
  \/ PollFindsExit \/ PollFindsTimeout \/ PollContinues
  \/ SendTerm \/ NothingToTerminate \/ EndsInGrace \/ GraceExpires \/ WaitReaps
  \/ ReadFinalState \/ WriteDecision \/ WriteManifest

Next == \/ SupervisorStep \/ RaisesInTry \/ RaisesOutside \/ Kill \/ NextCall
        \/ \E c \in Calls : WorkerStep(c)
        \/ OverallTimeoutPasses \/ NoProgressTimeoutPasses

Spec == Init /\ [][Next]_vars

(* The supervisor runs, its overall limit passes, SIGKILL works in the end. *)
(* Of the worker nothing is assumed: a load may hang for ever.              *)
FairSpec ==
  /\ Spec /\ WF_vars(SupervisorStep) /\ WF_vars(OverallTimeoutPasses)
  /\ WF_vars(\E c \in Calls : "KILL" \in signals[c] /\ WorkerDies(c))
-----------------------------------------------------------------------------
(* Type invariant; the worker of a call the supervisor has not launched     *)
(* does not exist, and the ledger in the file is never ahead of a worker's. *)
WorkerTypes ==
  /\ proc \in [Calls -> {"none", "working", "completed", "failed", "exited",
                         "reaped"}]
  /\ code \in [Calls -> {NoCode, 0, 1, -1}]
  /\ marks \in [Calls -> 0 .. Ledger]
  /\ signals \in [Calls -> SUBSET {"TERM", "KILL"}]
  /\ \A c \in Calls : proc[c] # "none" => c <= call
  /\ \A c \in Calls : code[c] = NoCode <=> proc[c] \notin {"exited", "reaped"}

Records ==
  {Absent, Starting} \union
  [by : Calls, marks : 0 .. Ledger, status : {"running", "success", "failure"}]

SupervisorTypes ==
  /\ stateFile \in Records /\ final \in Records
  /\ cache \in 0 .. CacheChanges /\ seen \in -1 .. CacheChanges
  /\ call \in Calls
  /\ pc \in {"start", "launch", "launched", "look", "poll", "term", "grace",
             "reap", "c_term", "c_grace", "c_reap", "final", "decide",
             "manifest"} \union Ended
  /\ stalled \in BOOLEAN /\ late \in BOOLEAN /\ unguarded \in BOOLEAN
  /\ outcome \in {"none", "success", "worker_error", "overall_timeout",
                  "no_progress_timeout"}
  /\ decision \in {"none", "PASS", "FAIL"} /\ manifest \in {"none", decision}
  /\ exceptions \in 0 .. MaxExceptions

TypeOK == WorkerTypes /\ SupervisorTypes

(* A PASS is that of this call's own worker: it went through the whole      *)
(* ledger, wrote its success record, ended with 0 and was reaped, whatever  *)
(* a worker that an earlier, killed supervisor left behind has written.     *)
PassIsReal ==
  decision = "PASS" =>
    /\ proc[call] = "reaped" /\ code[call] = 0 /\ marks[call] = Ledger
    /\ final = Record(call, Ledger, "success")

(* A limit that passed decides: a worker that was told to stop is never     *)
(* reported as PASS, even if it wrote its success record and ended with 0   *)
(* in the grace period.                                                     *)
NoPassAfterTimeout == decision = "PASS" => signals[call] = {}

(* Whenever the call is over without having been killed, its worker is gone *)
(* and reaped, so that it holds no GPU memory and writes no more; the       *)
(* exceptions are an exception between Popen and the try block and one in   *)
(* the clean-up itself (the except block of supervise_model_load_worker).   *)
NoWorkerLeft ==
  pc \in {"returned", "raised"} /\ ~unguarded =>
    proc[call] \in {"none", "reaped"}

(* The record that is published with a decision is the one the decision was *)
(* taken from: nobody rewrites it, unless the supervisor of an earlier call *)
(* was killed, or left without its clean-up, and its worker still runs or   *)
(* was still running when the record was read.                              *)
RecordStays ==
  [][final # Absent /\ final' = final /\ stateFile' # stateFile =>
       \E c \in 1 .. call - 1 : Alive(c)]_vars

(* A supervised load ends, however the worker hangs. *)
SupervisionEnds == pc = "look" ~> pc \in Ended
=============================================================================
