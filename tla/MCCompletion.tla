---------------------------- MODULE MCCompletion ----------------------------
(***************************************************************************)
(* Instances of CompletionEndpoint for TLC, with its fairness and its      *)
(* liveness property (see MCReadiness).                                    *)
(***************************************************************************)
EXTENDS CompletionEndpoint

(* Handlers return; methods run; the poller completes what it accepted and *)
(* the loop goes on polling.                                               *)
Fairness ==
  /\ \A d \in 1 .. MaxDepth + 1 : SF_vars(Len(stack) = d /\ HandlerReturn)
  /\ WF_vars(MethodStep)
  /\ SF_vars(\E err \in BOOLEAN : HandleWriteCompletion(err))

FairSpec == Spec /\ Fairness

(* One Flush is enough: completions keep submitting the next datagram      *)
(* until the queue is empty, or the endpoint is closed.                    *)
SubmittedFlushDrains == writePending ~> queue = <<>> \/ closed
=============================================================================
