---------------------------- MODULE ApprovalGate ----------------------------
(***************************************************************************)
(* What the relay promises of one request, whatever its status field says: *)
(* it runs at most once, only after exactly one decider allowed to do so   *)
(* opened its gate while it was pending, and never once its gate has been  *)
(* closed.  Relay is shown to implement this specification.                *)
(***************************************************************************)
CONSTANTS Ids, Deciders, Nobody

VARIABLES gate, by

gateVars == <<gate, by>>

GateState == {"absent", "pending", "closed", "granted", "running", "done"}

Init ==
  /\ gate = [id \in Ids |-> "absent"]
  /\ by = [id \in Ids |-> Nobody]

Move(id, from, to) ==
  /\ gate[id] = from
  /\ gate' = [gate EXCEPT ![id] = to]

Submit(id) == Move(id, "absent", "pending") /\ UNCHANGED by
Close(id)  == Move(id, "pending", "closed") /\ UNCHANGED by
Run(id)    == Move(id, "granted", "running") /\ UNCHANGED by
Finish(id) == Move(id, "running", "done") /\ UNCHANGED by

Grant(id) ==
  /\ Move(id, "pending", "granted")
  /\ \E d \in Deciders : by' = [by EXCEPT ![id] = d]

Next ==
  \E id \in Ids : Submit(id) \/ Close(id) \/ Grant(id) \/ Run(id) \/ Finish(id)

Spec == Init /\ [][Next]_gateVars

=============================================================================
