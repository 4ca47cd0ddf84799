----------------------------- MODULE MCLifecycle -----------------------------
(***************************************************************************)
(* Instances of Lifecycle for TLC, with its fairness and liveness.         *)
(***************************************************************************)
EXTENDS Lifecycle

(* The goroutines of the application run, and their contexts end in time   *)
(* (Server.Close gives each loop closeControlTimeout). Nothing is assumed  *)
(* of the loops: a handler may block one for ever.                         *)
Fairness ==
  /\ WF_vars(SetupStep)
  /\ WF_vars(CloserStep)
  /\ \A i \in Eps : WF_vars(closer[i] = "caller" /\ CloseBody(i))

FairSpec == Spec /\ Fairness

(* Server.Close returns to each of its callers, although a loop may hang.  *)
CloseReturns == \A c \in Callers : callers[c] = "called" ~> callers[c] = "returned"

(* Bind and Dial return, with success or an error, once their context ends *)
(* if not before.                                                          *)
SetupReturns == setup.pc = "listen" ~> setup.pc \in {"ok", "error"}
=============================================================================
