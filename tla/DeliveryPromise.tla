--------------------------- MODULE DeliveryPromise ---------------------------
(***************************************************************************)
(* What the platform promises of one logical execution of a subscription,  *)
(* whatever happens inside the Scheduler and Publication Service: it is    *)
(* accepted once, delivers at most one artifact, and is closed as          *)
(* succeeded only with a delivery behind it and as skipped or dead only    *)
(* without one.  An operator may reopen a dead execution.                  *)
(***************************************************************************)
EXTENDS Naturals

CONSTANT Executions

VARIABLES outcome,    \* what the scheduler says of an execution
          artifacts   \* artifacts a customer can see because of it

vars == <<outcome, artifacts>>

Init == /\ outcome = [e \in Executions |-> "absent"]
        /\ artifacts = [e \in Executions |-> 0]

Move(e, from, to) ==
  /\ outcome[e] = from
  /\ outcome' = [outcome EXCEPT ![e] = to]
  /\ UNCHANGED artifacts

Accept(e) == Move(e, "absent", "open")

Deliver(e) ==
  /\ outcome[e] = "open"
  /\ artifacts[e] = 0
  /\ artifacts' = [artifacts EXCEPT ![e] = 1]
  /\ UNCHANGED outcome

\* The same Gold data may already have been delivered for another execution.
Succeed(e) ==
  /\ \E d \in Executions : artifacts[d] = 1
  /\ Move(e, "open", "succeeded")

Close(e) ==
  /\ artifacts[e] = 0
  /\ \E closed \in {"skipped", "dead"} : Move(e, "open", closed)

Reopen(e) == Move(e, "dead", "open")

Next == \E e \in Executions :
          Accept(e) \/ Deliver(e) \/ Succeed(e) \/ Close(e) \/ Reopen(e)

Spec == Init /\ [][Next]_vars

=============================================================================
