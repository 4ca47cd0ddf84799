-------------------------- MODULE DatagramChannel --------------------------
(***************************************************************************)
(* What an endpoint promises of the outbound direction, whatever poller it *)
(* runs on: a datagram that Write accepted is handed to the socket at most *)
(* once, in the order of the Write calls, and leaves the channel unsent    *)
(* only after the channel was closed.                                      *)
(*                                                                         *)
(* docs/usage.md, "Write transfers message ownership into the outbound     *)
(* queue; call Flush to submit queued datagrams", states the promise; the  *)
(* endpoint modules implement it.                                          *)
(***************************************************************************)
EXTENDS Integers, Sequences

CONSTANT Ids      \* datagrams, numbered in the order of the Write calls

VARIABLES
  pending,        \* accepted and not yet handed to the socket
  wire,           \* handed to the socket
  open

chanVars == <<pending, wire, open>>

ChanInit == pending = <<>> /\ wire = <<>> /\ open = TRUE

Newest == IF pending # <<>> THEN pending[Len(pending)]
          ELSE IF wire # <<>> THEN wire[Len(wire)] ELSE 0

Accept(d) ==
  /\ open
  /\ d > Newest
  /\ pending' = Append(pending, d)
  /\ UNCHANGED <<wire, open>>

(* The socket takes the k oldest datagrams. *)
Transmit(k) ==
  /\ open
  /\ wire' = wire \o SubSeq(pending, 1, k)
  /\ pending' = SubSeq(pending, k + 1, Len(pending))
  /\ UNCHANGED open

Shut ==
  /\ open' = FALSE
  /\ UNCHANGED <<pending, wire>>

(* A closed channel gives up what it did not send, the oldest first. *)
Discard(k) ==
  /\ ~open
  /\ pending' = SubSeq(pending, k + 1, Len(pending))
  /\ UNCHANGED <<wire, open>>

ChanNext ==
  \/ \E d \in Ids : Accept(d)
  \/ \E k \in 1 .. Len(pending) : Transmit(k) \/ Discard(k)
  \/ Shut

ChanSpec == ChanInit /\ [][ChanNext]_chanVars
=============================================================================
