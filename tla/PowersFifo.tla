----------------------------- MODULE PowersFifo -----------------------------
(***************************************************************************)
(* What a power queue promises to the rest of 3D-ICE: every queue that has *)
(* been built is an unbounded first-in first-out list of power values, and *)
(* copying a queue gives the destination the content of the source,        *)
(* whatever either of them did before.  This is the contract documented in *)
(* include/powers_queue.h; it has no capacity, no memory and no indices.   *)
(***************************************************************************)
EXTENDS Naturals, Sequences

CONSTANTS
  Queues,   (* the power queues of the program                             *)
  Power,    (* the power values                                            *)
  Zero      (* 0.0, the value a failing get returns                        *)

VARIABLES
  fifo,     (* fifo[q]: whether q is built, and the values it holds        *)
  result    (* the value returned by the last get_from_powers_queue        *)

vars == <<fifo, result>>

Unbuilt == [built |-> FALSE, items |-> <<>>]

Holding(items) == [built |-> TRUE, items |-> items]

Init ==
  /\ fifo = [q \in Queues |-> Unbuilt]
  /\ result = Zero

Build(q) ==
  /\ fifo' = [fifo EXCEPT ![q] = Holding(<<>>)]
  /\ UNCHANGED result

Destroy(q) ==
  /\ fifo' = [fifo EXCEPT ![q] = Unbuilt]
  /\ UNCHANGED result

Put(q, p) ==
  /\ fifo[q].built
  /\ fifo' = [fifo EXCEPT ![q] = Holding(Append(fifo[q].items, p))]
  /\ UNCHANGED result

Get(q) ==
  /\ fifo[q].items # <<>>
  /\ result' = Head(fifo[q].items)
  /\ fifo' = [fifo EXCEPT ![q] = Holding(Tail(fifo[q].items))]

GetNothing(q) ==
  /\ fifo[q].items = <<>>
  /\ result' = Zero
  /\ UNCHANGED fifo

Copy(dst, src) ==
  /\ fifo' = [fifo EXCEPT ![dst] = Holding(fifo[src].items)]
  /\ UNCHANGED result

Next ==
  \E q \in Queues :
    \/ Build(q) \/ Destroy(q) \/ Get(q) \/ GetNothing(q)
    \/ \E p \in Power : Put(q, p)
    \/ \E src \in Queues \ {q} : Copy(q, src)

Spec == Init /\ [][Next]_vars
=============================================================================
