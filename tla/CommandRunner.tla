---------------------------- MODULE CommandRunner ----------------------------
(***************************************************************************)
(* What a runner of an external command promises its caller, whatever      *)
(* processes, threads and deadlines it is made of: a normal return tells   *)
(* that the command has ended, that nobody can add to its output and that  *)
(* every line was handed over.  Both run_streaming_command and             *)
(* run_official_subprocess_with_heartbeat implement it.                    *)
(***************************************************************************)
EXTENDS Naturals

CONSTANT Streams     \* the output streams of the command

VARIABLES
  produced,    \* lines written to each stream
  delivered,   \* lines of each stream handed to the caller
  open,        \* the streams somebody can still write to
  alive,       \* does the command run
  outcome      \* "none", "returned", or "gave_up": anything but a return

runnerVars == <<produced, delivered, open, alive, outcome>>

RunnerInit ==
  /\ produced = [s \in Streams |-> 0] /\ delivered = [s \in Streams |-> 0]
  /\ open = Streams /\ alive = TRUE /\ outcome = "none"

Produce(s) ==
  /\ s \in open
  /\ produced' = [produced EXCEPT ![s] = @ + 1]
  /\ UNCHANGED <<delivered, open, alive, outcome>>

Deliver(s) ==
  /\ outcome = "none" /\ delivered[s] < produced[s]
  /\ delivered' = [delivered EXCEPT ![s] = @ + 1]
  /\ UNCHANGED <<produced, open, alive, outcome>>

(* The command ends, or a stream is closed for good, or both. *)
Wanes ==
  /\ alive' \in {alive, FALSE} /\ open' \in SUBSET open
  /\ UNCHANGED <<produced, delivered, outcome>>

Return ==
  /\ outcome = "none" /\ ~alive /\ open = {} /\ delivered = produced
  /\ outcome' = "returned"
  /\ UNCHANGED <<produced, delivered, open, alive>>

GiveUp ==
  /\ outcome = "none" /\ outcome' = "gave_up"
  /\ UNCHANGED <<produced, delivered, open, alive>>

RunnerNext == \/ \E s \in Streams : Produce(s) \/ Deliver(s)
              \/ Wanes \/ Return \/ GiveUp

RunnerSpec == RunnerInit /\ [][RunnerNext]_runnerVars
=============================================================================
