------------------------------ MODULE PublicAtom ------------------------------
(*****************************************************************************)
(* The public atom of the frame state experiment is built on the live        *)
(* video pipeline.  The construction takes the dispatch hooks off the        *)
(* pipeline, moves the VAE to the GPU, freezes it, turns tiling off,         *)
(* restricts attention to one kernel, runs a fixed number of Jacobian        *)
(* callbacks and undoes all of it: five nested scopes, each with a clean-up  *)
(* that may fail itself.  Eight videos are then decoded on what is left.     *)
(*                                                                           *)
(* Source: experiments/generative_video_model_probe/                         *)
(*         frame_state_signed_observability_construction.py                  *)
(*****************************************************************************)
EXTENDS Naturals, Sequences, FiniteSets

CONSTANTS Iterations,   \* POWER_ITERATION_COUNT, 8 in the code
          MaxFaults     \* bound on the calls that raise

AtomConstants == Iterations \in Nat \ {0} /\ MaxFaults \in Nat

VARIABLES open,       \* how many scopes of Scopes have been entered
          phase,      \* what runs next
          held,       \* what differs from the state before the construction
          iteration,  \* callbacks started
          faults,     \* calls that raised; the n-th one is error n
          error,      \* the error that is propagating, 0 for none
          notes,      \* errors added as notes to the one that propagates
          cut         \* an interrupt ended the outermost clean-up early

vars == <<open, phase, held, iteration, faults, error, notes, cut>>

(* The scopes, outermost first, and what each one changes: the hooks of the
   pipeline, the device of the VAE, its parameters and mode, its tiling, the
   attention kernel. *)
Scopes == <<"hooks", "device", "frozen", "untiled", "sdpa">>
Changes == {Scopes[n] : n \in 1..Len(Scopes)} \cup {"cache"}

(* The phases of a callback.  A "clear" phase empties the causal cache of the
   VAE and releases CUDA storage, the other two decode. *)
Decodes == {"jvp", "vjp"}
Clears == {"jvp_pre", "jvp_post", "vjp_pre", "vjp_post", "iteration"}

After == [jvp_pre |-> "jvp", jvp |-> "jvp_post", jvp_post |-> "vjp_pre",
          vjp_pre |-> "vjp", vjp |-> "vjp_post", vjp_post |-> "iteration"]

(* Where an error goes: the product of the callback has a finally clause of
   its own, and so has the callback. *)
OnError == [jvp_pre |-> "iteration", jvp |-> "jvp_post", jvp_post |-> "iteration",
            vjp_pre |-> "iteration", vjp |-> "vjp_post", vjp_post |-> "iteration"]

Init == /\ open = 0
        /\ phase = "enter"
        /\ held = {}
        /\ iteration = 0
        /\ faults = 0
        /\ error = 0
        /\ notes = {}
        /\ cut = FALSE

MayFail == faults < MaxFaults

(* A call raises outside any clean-up: nothing is propagating yet. *)
Raise == MayFail /\ faults' = faults + 1 /\ error' = faults + 1 /\ UNCHANGED notes

\* Mutant of NoteOrRaise: a failed clean-up always raises.
RaiseAlways ==
    /\ MayFail
    /\ faults' = faults + 1
    /\ error' = faults + 1
    /\ UNCHANGED notes

(* A clean-up fails: its error is noted on the one that propagates, and
   propagates itself when there is none. *)
NoteOrRaise ==
    /\ MayFail
    /\ faults' = faults + 1
    /\ error' = IF error = 0 THEN faults + 1 ELSE error
    /\ notes' = IF error = 0 THEN notes ELSE notes \cup {faults + 1}

NoFault == UNCHANGED <<faults, error, notes>>

-----------------------------------------------------------------------------
(* Entering the scopes.  A scope changes its state before its own try block:
   a call that raises half way leaves the change behind, and only the scopes
   already open undo theirs.  The device scope is a plain try block, and the
   kernel that cannot be entered has changed nothing. *)
Enter ==
    /\ phase = "enter"
    /\ open < Len(Scopes)
    /\ open' = open + 1
    /\ held' = held \cup ({Scopes[open + 1]} \ {"device"})
    /\ NoFault
    /\ UNCHANGED <<phase, iteration, cut>>

EnterFails ==
    /\ phase = "enter"
    /\ open < Len(Scopes)
    /\ Scopes[open + 1] # "device"
    /\ Raise
    /\ \/ held' = held
       \/ Scopes[open + 1] # "sdpa" /\ held' = held \cup {Scopes[open + 1]}
    /\ phase' = "leave"
    /\ UNCHANGED <<open, iteration, cut>>

(* The first thing inside the device scope: the VAE goes to the GPU in single
   precision and the latent of the clean video is read.  *)
ToDevice ==
    /\ phase = "enter"
    /\ open = 2
    /\ "device" \notin held
    /\ held' = held \cup {"device"}
    /\ \/ NoFault /\ phase' = "enter"
       \/ Raise /\ phase' = "leave"
    /\ UNCHANGED <<open, iteration, cut>>

(* The device comes before the parameters are frozen. *)
EnterInOrder == Enter /\ (open >= 2 => "device" \in held)
EnterFailsInOrder == EnterFails /\ (open >= 2 => "device" \in held)

StartCallback ==
    /\ phase = "enter"
    /\ open = Len(Scopes)
    /\ phase' = "jvp_pre"
    /\ iteration' = iteration + 1
    /\ NoFault
    /\ UNCHANGED <<open, held, cut>>

-----------------------------------------------------------------------------
(* One callback.  A decode leaves the cache filled, whether it ends well, with
   a product that is refused or with an exception. *)
Decode ==
    /\ phase \in Decodes
    /\ held' = held \cup {"cache"}
    /\ \/ NoFault /\ phase' = After[phase]
       \/ Raise /\ phase' = OnError[phase]
    /\ UNCHANGED <<open, iteration, cut>>

(* After a clear phase: on as planned, unless an error is propagating. *)
NextPhase(e) ==
    IF phase = "iteration"
    THEN IF e # 0 \/ iteration = Iterations THEN "leave" ELSE "jvp_pre"
    ELSE IF e # 0 THEN OnError[phase] ELSE After[phase]

(* Clearing the cache and releasing the device are both attempted; only the
   first of their errors is kept. *)
Clear ==
    /\ phase \in Clears
    /\ \/ NoFault /\ held' = held \ {"cache"}
       \/ /\ NoteOrRaise
          /\ \/ held' = held \ {"cache"}
             \/ held' = held
    /\ phase' = NextPhase(error')
    /\ iteration' = IF phase' = "jvp_pre" THEN iteration + 1 ELSE iteration
    /\ UNCHANGED <<open, cut>>

(* The candidate direction is checked between two callbacks and the finished
   atom after the last: shape, type, finiteness, norm, sign. *)
CandidateRefused ==
    /\ phase = "jvp_pre"
    /\ iteration > 1
    /\ Raise
    /\ iteration' = iteration - 1
    /\ phase' = "leave"
    /\ UNCHANGED <<open, held, cut>>

AtomRefused ==
    /\ phase = "leave"
    /\ open = Len(Scopes)
    /\ error = 0
    /\ Raise
    /\ UNCHANGED <<open, phase, held, iteration, cut>>

-----------------------------------------------------------------------------
(* Leaving the kernel, the tiling, the parameters and, last, the hooks: the
   earlier state is put back and read again; a failure is noted or raised. *)
LeaveScope ==
    /\ phase = "leave"
    /\ open \in 1..Len(Scopes)
    /\ Scopes[open] # "device"
    /\ \/ NoFault /\ held' = held \ {Scopes[open]}
       \/ NoteOrRaise /\ (held' = held \/ held' = held \ {Scopes[open]})
    /\ open' = open - 1
    /\ UNCHANGED <<phase, iteration, cut>>

(* Leaving the device scope: the cache, the move to the CPU and the release
   are attempted in this order whatever becomes of the others, and the first
   of their errors is noted or raised. *)
LeaveDevice ==
    /\ phase = "leave"
    /\ open = 2
    /\ \/ NoFault /\ held' = held \ {"cache", "device"}
       \/ /\ NoteOrRaise
          /\ \E failed \in {{"cache"}, {"device"}, {"cache", "device"}, {}} :
                held' = (held \ {"cache", "device"}) \cup (held \cap failed)
    /\ open' = 1
    /\ UNCHANGED <<phase, iteration, cut>>

(* The three attempts catch exceptions, not an interrupt of the operator: that
   one ends the clean-up where it arrives and takes the place of the error. *)
InterruptDevice ==
    /\ phase = "leave"
    /\ open = 2
    /\ Raise
    /\ held' \in {held, held \ {"cache"}, held \ {"cache", "device"}}
    /\ cut' = TRUE
    /\ open' = 1
    /\ UNCHANGED <<phase, iteration>>

Finish ==
    /\ phase = "leave"
    /\ open = 0
    /\ phase' = "done"
    /\ UNCHANGED <<open, held, iteration, faults, error, notes, cut>>

Done == phase = "done" /\ UNCHANGED vars

Next == \/ EnterInOrder \/ EnterFailsInOrder \/ ToDevice \/ StartCallback
        \/ Decode \/ Clear \/ CandidateRefused \/ AtomRefused
        \/ LeaveScope \/ LeaveDevice \/ InterruptDevice \/ Finish \/ Done

(* The construction is one call on one thread: it goes on whenever it can. *)
Spec == Init /\ [][Next]_vars /\ WF_vars(Next)

-----------------------------------------------------------------------------
TypeOK == /\ open \in 0..Len(Scopes)
          /\ phase \in Decodes \cup Clears \cup {"enter", "leave", "done"}
          /\ held \subseteq Changes
          /\ iteration \in 0..Iterations
          /\ faults \in 0..MaxFaults
          /\ error \in 0..MaxFaults
          /\ notes \subseteq 1..MaxFaults
          /\ cut \in BOOLEAN

(* An atom that is returned left the pipeline as it was: no clean-up that
   failed is passed over in silence, so the videos are decoded by the VAE the
   experiment fixed (the hooks, the device, the mode, the tiling and the cache
   are all back). *)
ReturnedIsRestored == phase = "done" /\ error = 0 => held = {}

(* The error that is seen is the first one: no clean-up covers up why the
   construction failed.  Only an interrupt of the outermost clean-up does. *)
FirstErrorIsSeen == faults > 0 /\ ~cut => error = 1

(* The error that every failed call or clean-up ends with is either the one
   that is seen or a note on it: none is lost, except what an interrupt
   replaced. *)
NothingIsLost ==
    ~cut /\ phase = "done" => 1..faults = notes \cup ({error} \ {0})

(* A decode starts with an empty cache: neither the first product of a
   callback nor an earlier callback reaches into the next one. *)
DecodesStartClean == phase \in Decodes => "cache" \notin held

(* An atom is returned only after the fixed number of callbacks. *)
ReturnedIsComplete == phase = "done" /\ error = 0 => iteration = Iterations

(* The hooks go back on the pipeline only after the VAE has been told to leave
   the GPU, unless that very move failed or was interrupted: the offload is
   never set up around a VAE that still sits on the device by plan. *)
HooksComeLast ==
    [][("hooks" \in held /\ "hooks" \notin held' /\ "device" \in held) => error # 0]_vars

(* Whatever fails, the construction ends. *)
Ends == <>(phase = "done")
=============================================================================
