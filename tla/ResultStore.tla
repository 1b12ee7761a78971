---------------------------- MODULE ResultStore ----------------------------
(***************************************************************************)
(* What the diagnostic result store on Drive promises to a reader: the     *)
(* result of a run appears at once, is acknowledged only when it is        *)
(* complete, and an acknowledged result stays.  An unacknowledged one may  *)
(* turn out damaged and be withdrawn, and is not published again.          *)
(* ColabTestSession implements this specification.                         *)
(***************************************************************************)
CONSTANT Runs

VARIABLES
  result,   \* what a reader finds: "none", "pair", "torn" or "gone"
  acked     \* runs reported as completed

vars == <<result, acked>>

Init == result = [r \in Runs |-> "none"] /\ acked = {}

(* One step makes the whole pair visible; storage may have damaged it. *)
Publish(r) ==
  /\ result[r] = "none"
  /\ \E d \in {"pair", "torn"} : result' = [result EXCEPT ![r] = d]
  /\ UNCHANGED acked

(* An unacknowledged result is taken away, file after file. *)
Withdraw(r) ==
  /\ r \notin acked
  /\ \/ /\ result[r] \in {"pair", "torn"}
        /\ result' = [result EXCEPT ![r] = "torn"]
     \/ result[r] = "torn" /\ result' = [result EXCEPT ![r] = "gone"]
  /\ UNCHANGED acked

Acknowledge(r) ==
  /\ result[r] = "pair"
  /\ acked' = acked \union {r}
  /\ UNCHANGED result

Next == \E r \in Runs : Publish(r) \/ Withdraw(r) \/ Acknowledge(r)

Spec == Init /\ [][Next]_vars
=============================================================================
