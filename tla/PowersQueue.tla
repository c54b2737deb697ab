----------------------------- MODULE PowersQueue -----------------------------
(***************************************************************************)
(* sources/powers_queue.c: the circular buffer of power values attached to *)
(* every floorplan element, and used by the server as the staging queue of *)
(* an INSERT_POWERS request.  A full queue doubles its capacity: the live  *)
(* values are copied from Start into a new memory and the two memories are *)
(* swapped.                                                                *)
(*                                                                         *)
(* A queue is the record PowersQueue_t.  Memory maps the slots             *)
(* 0..Capacity-1 to values; Built says that the pointer is not NULL, which *)
(* a capacity does not tell: calloc of no slots still returns a pointer.   *)
(***************************************************************************)
EXTENDS Naturals, Sequences

CONSTANTS
  Queues,       (* the power queues of the program                         *)
  Power,        (* the power values                                        *)
  Zero,         (* 0.0: what calloc stores and what a failing get returns  *)
  Capacities,   (* the capacities callers pass to powers_queue_build       *)
  MaxCapacity   (* bound on a capacity; 2^32 - 1 for the C type Quantity_t *)

ASSUME QueueAssumption ==
  /\ Zero \in Power
  /\ MaxCapacity \in Nat
  /\ Capacities \subseteq 0 .. MaxCapacity

VARIABLES
  pqueue,       (* pqueue[q]: the structure PowersQueue_t of q             *)
  result        (* the value returned by the last get_from_powers_queue    *)

vars == <<pqueue, result>>

-----------------------------------------------------------------------------
(* The structure and the functions that read or rebuild it                 *)

(* powers_queue_init *)
Initialised ==
  [Built |-> FALSE, Capacity |-> 0, Memory |-> <<>>,
   Size |-> 0, Start |-> 0, End |-> 0]

(* powers_queue_build: destroy, then calloc *)
Fresh(capacity) ==
  [Built |-> TRUE, Capacity |-> capacity,
   Memory |-> [i \in 0 .. capacity - 1 |-> Zero],
   Size |-> 0, Start |-> 0, End |-> 0]

IsEmpty(pq) == pq.Size = 0

IsFull(pq) == pq.Size = pq.Capacity

(* The k-th slot of the queue counting from its Start *)
Slot(pq, k) == (pq.Start + k) % pq.Capacity

(* Seeded fault: a destination that is large enough keeps its End *)
EmptiedKeepingEnd(dst, src) ==
  IF dst.Capacity < src.Capacity \/ ~ dst.Built
  THEN Fresh(src.Capacity)
  ELSE [dst EXCEPT !.Start = 0, !.Size = 0]

(* powers_queue_copy, up to the loop: a destination that is large enough   *)
(* keeps its memory and is emptied, another one is rebuilt                 *)
Emptied(dst, src) ==
  IF dst.Capacity < src.Capacity \/ ~ dst.Built
  THEN Fresh(src.Capacity)
  ELSE [dst EXCEPT !.Start = 0, !.End = 0, !.Size = 0]

(* The state of dst after powers_queue_copy (dst, src).  The loop puts the *)
(* src.Size live values, from src.Start on, in the first slots of dst.     *)
Copied(dst, src) ==
  LET base == Emptied(dst, src) IN
  IF IsEmpty(src)
  THEN base
  ELSE [base EXCEPT
          !.Memory = [i \in 0 .. base.Capacity - 1 |->
                        IF i < src.Size THEN src.Memory[Slot(src, i)]
                                        ELSE base.Memory[i]],
          !.Size = src.Size,
          !.End  = src.Size % base.Capacity]

(* Seeded fault: the growing put copies slots 0.. and forgets where the    *)
(* queue starts.                                                           *)
RoomIgnoringStart(pq) ==
  IF IsFull(pq) THEN Copied(Fresh(2 * pq.Capacity), [pq EXCEPT !.Start = 0]) ELSE pq

(* The queue that put_into_powers_queue writes into: itself, or when full  *)
(* the copy with twice the capacity whose memory it takes over             *)
Room(pq) ==
  IF IsFull(pq) THEN Copied(Fresh(2 * pq.Capacity), pq) ELSE pq

Inserted(pq, power) ==
  [pq EXCEPT !.Memory[pq.End] = power,
             !.End  = (pq.End + 1) % pq.Capacity,
             !.Size = pq.Size + 1]

Removed(pq) ==
  [pq EXCEPT !.Start = (pq.Start + 1) % pq.Capacity,
             !.Size  = pq.Size - 1]

-----------------------------------------------------------------------------
(* The operations                                                          *)

Init ==
  /\ pqueue = [q \in Queues |-> Initialised]
  /\ result = Zero

Build(q, capacity) ==
  /\ pqueue' = [pqueue EXCEPT ![q] = Fresh(capacity)]
  /\ UNCHANGED result

Destroy(q) ==
  /\ pqueue' = [pqueue EXCEPT ![q] = Initialised]
  /\ UNCHANGED result

(* A put into a queue that is not built prints an error and returns.  A    *)
(* put into a queue built without slots divides by zero in C; its callers  *)
(* never do it (the parser builds 10 slots, the server one slot per power).*)
Put(q, power) ==
  LET pq == pqueue[q] IN
  /\ pq.Built
  /\ pq.Capacity > 0
  /\ IsFull(pq) => 2 * pq.Capacity <= MaxCapacity
  /\ pqueue' = [pqueue EXCEPT ![q] = Inserted(Room(pq), power)]
  /\ UNCHANGED result

Get(q) ==
  /\ pqueue[q].Built
  /\ ~ IsEmpty(pqueue[q])
  /\ result' = pqueue[q].Memory[pqueue[q].Start]
  /\ pqueue' = [pqueue EXCEPT ![q] = Removed(pqueue[q])]

(* Both error returns of get_from_powers_queue: not built, empty *)
GetNothing(q) ==
  /\ ~ pqueue[q].Built \/ IsEmpty(pqueue[q])
  /\ result' = Zero
  /\ UNCHANGED pqueue

Copy(dst, src) ==
  /\ pqueue' = [pqueue EXCEPT ![dst] = Copied(pqueue[dst], pqueue[src])]
  /\ UNCHANGED result

Next ==
  \E q \in Queues :
    \/ \E capacity \in Capacities : Build(q, capacity)
    \/ Destroy(q)
    \/ \E power \in Power : Put(q, power)
    \/ Get(q)
    \/ GetNothing(q)
    \/ \E src \in Queues \ {q} : Copy(q, src)

Spec == Init /\ [][Next]_vars

-----------------------------------------------------------------------------
(* Properties                                                              *)

PowersQueueType ==
  [Built : BOOLEAN, Capacity : 0 .. MaxCapacity,
   Memory : UNION { [0 .. c - 1 -> Power] : c \in 0 .. MaxCapacity },
   Size : 0 .. MaxCapacity, Start : 0 .. MaxCapacity, End : 0 .. MaxCapacity]

(* The memory has Capacity slots and both indices stay inside of it *)
WithinMemory(pq) ==
  /\ pq.Memory \in [0 .. pq.Capacity - 1 -> Power]
  /\ pq.Size <= pq.Capacity
  /\ IF pq.Capacity > 0
     THEN pq.Start < pq.Capacity /\ pq.End < pq.Capacity
     ELSE pq.Start = 0 /\ pq.End = 0

(* Every queue is a PowersQueue_t of powers_queue.h, within the bounds.    *)
TypeOK ==
  /\ pqueue \in [Queues -> PowersQueueType]
  /\ result \in Power

(* The fields of one queue agree: End is where Start and Size say it is *)
Ring(pq) ==
  /\ ~ pq.Built => pq.Capacity = 0
  /\ pq.Capacity > 0 => pq.End = Slot(pq, pq.Size)

(* put writes at End, get reads at Start, and only Size tells a full queue *)
(* from an empty one: the three fields are redundant and every operation   *)
(* of powers_queue.c, the copy into a reused memory and the swap of a      *)
(* growing queue included, has to keep them in agreement; and no get or    *)
(* put reads or writes outside of the allocation of powers_queue_build.    *)
RingOK == \A q \in Queues : WithinMemory(pqueue[q]) /\ Ring(pqueue[q])

(* The values a queue holds, oldest first *)
Contents(pq) == [k \in 1 .. pq.Size |-> pq.Memory[Slot(pq, k - 1)]]

Fifo == INSTANCE PowersFifo WITH
  fifo <- [q \in Queues |-> [built |-> pqueue[q].Built,
                             items |-> Contents(pqueue[q])]]

(* The circular buffer is a first-in first-out queue: growing, wrapping    *)
(* around and copying (also into a destination that keeps its larger       *)
(* memory) never lose, duplicate or reorder a power value, which is what   *)
(* include/powers_queue.h promises.                                        *)
ImplementsFifo == Fifo!Spec
=============================================================================
