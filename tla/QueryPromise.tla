---------------------------- MODULE QueryPromise ----------------------------
(***************************************************************************)
(* What LocalScheduler.run_plan promises its caller, whatever tasks fail   *)
(* and whatever blocks are lost: stages become available in dependency     *)
(* order and stay so, the dataset is returned only when every stage is     *)
(* available, and otherwise the caller gets an exception.                  *)
(***************************************************************************)
CONSTANTS
  Stages,       \* the stages of the plan
  Sources       \* the stages each stage reads

VARIABLES
  available,    \* the stages whose whole output can be read
  outcome       \* "running", "success" or "raised"

vars == <<available, outcome>>

Init == available = {} /\ outcome = "running"

Produce(s) ==
  /\ outcome = "running"
  /\ s \notin available
  /\ Sources[s] \subseteq available
  /\ available' = available \union {s}
  /\ UNCHANGED outcome

Return ==
  /\ outcome = "running"
  /\ available = Stages
  /\ outcome' = "success"
  /\ UNCHANGED available

Raise ==
  /\ outcome = "running"
  /\ outcome' = "raised"
  /\ UNCHANGED available

Next == (\E s \in Stages : Produce(s)) \/ Return \/ Raise

Spec == Init /\ [][Next]_vars
=============================================================================
