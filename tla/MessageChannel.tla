---------------------------- MODULE MessageChannel ----------------------------
(***************************************************************************)
(* What one direction of a connection between a client and a server        *)
(* promises: whole messages, each once and in the order they were sent,    *)
(* and a receive that fails only when the other side is gone and all it    *)
(* has sent was received.  The session modules build on this.              *)
(***************************************************************************)
EXTENDS Naturals, Sequences

CONSTANT
  Messages      (* the messages that may be sent                           *)

VARIABLES
  sent,         (* the messages sent                                       *)
  received,     (* the messages received                                   *)
  open,         (* the sender has neither closed the connection nor died   *)
  failed        (* the last receive failed                                 *)

vars == <<sent, received, open, failed>>

Init == sent = <<>> /\ received = <<>> /\ open = TRUE /\ failed = FALSE

Send(m) ==
  /\ open
  /\ sent' = Append(sent, m)
  /\ UNCHANGED <<received, open, failed>>

Receive ==
  /\ Len(received) < Len(sent)
  /\ received' = Append(received, sent[Len(received) + 1])
  /\ UNCHANGED <<sent, open, failed>>

ReceiveNothing ==
  /\ ~ open /\ received = sent
  /\ failed' = TRUE
  /\ UNCHANGED <<sent, received, open>>

TryAgain == failed' = FALSE /\ UNCHANGED <<sent, received, open>>

Close == open' = FALSE /\ UNCHANGED <<sent, received, failed>>

Next == (\E m \in Messages : Send(m)) \/ Receive \/ ReceiveNothing \/ TryAgain \/ Close

Spec == Init /\ [][Next]_vars
=============================================================================
