---------------------------- MODULE MCReadiness ----------------------------
(***************************************************************************)
(* Instances of ReadinessEndpoint for TLC; the configurations give the     *)
(* constants their values. The fairness and the liveness properties are    *)
(* stated here because HandlersReturn ranges over the depths of the        *)
(* bounded stack.                                                          *)
(***************************************************************************)
EXTENDS ReadinessEndpoint

(* Liveness. Handlers return, at whatever depth; methods run; the loop     *)
(* polls again after its tasks; a socket that keeps being offered          *)
(* datagrams and keeps being reported writable takes one in the end.       *)

HandlersReturn == \A d \in 1 .. MaxDepth + 2 : SF_vars(Len(stack) = d /\ HandlerReturn)

Fairness ==
  /\ HandlersReturn
  /\ WF_vars(MethodStep)
  /\ SF_vars(\E read \in BOOLEAN : HandleReady(read, TRUE))
  /\ SF_vars(FlushSend /\ wire' # wire)

FairSpec == Spec /\ Fairness

(* No lost wake-up: once flushOutbound has stopped on a full socket and    *)
(* asked for write readiness, the queue is drained or the endpoint closed, *)
(* without another Flush.                                                  *)
BlockedFlushDrains ==
  writeInterest /\ queue # <<>> ~> queue = <<>> \/ closed

(* Back-pressure is released: an endpoint that went unwritable and has     *)
(* asked for write readiness becomes writable again, or is closed.         *)
BackpressureReleased ==
  ~writable /\ writeInterest ~> writable \/ closed
=============================================================================
