-------------------------- MODULE PowersQueue_proofs --------------------------
(***************************************************************************)
(* Proofs about the circular buffer of sources/powers_queue.c, for every   *)
(* set of queues and values and every capacity.  The lemmas take one       *)
(* operator of PowersQueue at a time and say what it keeps of the          *)
(* invariant and what it does to Contents; the theorems assemble them.     *)
(***************************************************************************)
EXTENDS PowersQueue, SequenceTheorems, TLAPS

(* The inductive invariant, for one queue *)
Good(pq) == pq \in PowersQueueType /\ WithinMemory(pq) /\ Ring(pq)

(* The structure with these fields *)
Queue(built, capacity, memory, size, start, end) ==
  [Built |-> built, Capacity |-> capacity, Memory |-> memory,
   Size |-> size, Start |-> start, End |-> end]

(* What Good says of a queue given field by field, and back *)
LEMMA QueueGood ==
  ASSUME NEW b \in BOOLEAN, NEW c \in 0 .. MaxCapacity,
         NEW m \in [0 .. c - 1 -> Power],
         NEW n \in 0 .. c, NEW s \in Nat, NEW e \in Nat,
         IF c > 0 THEN s < c /\ e < c ELSE s = 0 /\ e = 0,
         ~ b => c = 0,
         c > 0 => e = (s + n) % c
  PROVE  Good(Queue(b, c, m, n, s, e))
<1>1. MaxCapacity \in Nat
  BY QueueAssumption
<1>2. m \in UNION { [0 .. d - 1 -> Power] : d \in 0 .. MaxCapacity }
  OBVIOUS
<1>3. n \in 0 .. MaxCapacity /\ s \in 0 .. MaxCapacity /\ e \in 0 .. MaxCapacity
  BY <1>1
<1>4. Queue(b, c, m, n, s, e) \in PowersQueueType
  BY <1>2, <1>3 DEF Queue, PowersQueueType
<1>5. WithinMemory(Queue(b, c, m, n, s, e))
  BY DEF Queue, WithinMemory
<1>6. Ring(Queue(b, c, m, n, s, e))
  BY DEF Queue, Ring, Slot
<1> QED BY <1>4, <1>5, <1>6 DEF Good

LEMMA GoodQueue ==
  ASSUME NEW pq, Good(pq)
  PROVE  /\ pq = Queue(pq.Built, pq.Capacity, pq.Memory, pq.Size, pq.Start, pq.End)
         /\ pq.Built \in BOOLEAN
         /\ pq.Capacity \in 0 .. MaxCapacity /\ pq.Capacity \in Nat
         /\ pq.Memory \in [0 .. pq.Capacity - 1 -> Power]
         /\ pq.Size \in 0 .. pq.Capacity
         /\ pq.Start \in Nat /\ pq.End \in Nat
         /\ IF pq.Capacity > 0 THEN pq.Start < pq.Capacity /\ pq.End < pq.Capacity
                               ELSE pq.Start = 0 /\ pq.End = 0
         /\ ~ pq.Built => pq.Capacity = 0
         /\ pq.Capacity > 0 => pq.End = Slot(pq, pq.Size)
<1>1. pq \in PowersQueueType /\ MaxCapacity \in Nat
  BY QueueAssumption DEF Good
<1>2. pq = Queue(pq.Built, pq.Capacity, pq.Memory, pq.Size, pq.Start, pq.End)
  BY <1>1 DEF PowersQueueType, Queue
<1> QED BY <1>1, <1>2 DEF Good, PowersQueueType, WithinMemory, Ring

(* A slot number below twice the capacity wraps around at most once *)
LEMMA WrapOnce ==
  ASSUME NEW c \in Nat, c > 0, NEW x \in 0 .. 2 * c - 1
  PROVE  x % c = IF x < c THEN x ELSE x - c
<1>1. CASE x < c
  BY <1>1, SMT
<1>2. CASE x >= c
  BY <1>2, SMT
<1> QED BY <1>1, <1>2

LEMMA NoWrap ==
  ASSUME NEW c \in Nat, NEW x \in Nat, x < c
  PROVE  x % c = x
BY SMT

LEMMA WrapToZero ==
  ASSUME NEW c \in Nat, c > 0
  PROVE  c % c = 0
BY SMT

(* Two positions of a queue have two slots *)
LEMMA SlotsDiffer ==
  ASSUME NEW c \in Nat, NEW s \in Nat, NEW n \in Nat, NEW i \in Nat,
         s < c, n < c, i < n
  PROVE  (IF s + i < c THEN s + i ELSE s + i - c)
           # (IF s + n < c THEN s + n ELSE s + n - c)
OBVIOUS

LEMMA SlotWraps ==
  ASSUME NEW pq, Good(pq), pq.Capacity > 0, NEW k \in 0 .. pq.Capacity
  PROVE  /\ Slot(pq, k) = IF pq.Start + k < pq.Capacity
                          THEN pq.Start + k ELSE pq.Start + k - pq.Capacity
         /\ Slot(pq, k) \in 0 .. pq.Capacity - 1
<1>1. pq.Capacity \in Nat /\ pq.Start \in Nat /\ pq.Start < pq.Capacity
  BY DEF Good, PowersQueueType, WithinMemory, QueueAssumption
<1> DEFINE c == pq.Capacity
           x == pq.Start + k
<1>2. x \in 0 .. 2 * c - 1 /\ c \in Nat /\ c > 0
  BY <1>1
<1>3. x % c = IF x < c THEN x ELSE x - c
  BY <1>2, WrapOnce
<1>4. Slot(pq, k) = x % c
  BY DEF Slot
<1> HIDE DEF c, x
<1>5. (x % c) \in 0 .. c - 1
  BY <1>2, <1>3
<1> QED BY <1>1, <1>3, <1>4, <1>5 DEF c, x

LEMMA InitialisedGood ==
  /\ Good(Initialised)
  /\ Contents(Initialised) = <<>>
  /\ ~ Initialised.Built
BY QueueAssumption DEF Good, Initialised, PowersQueueType, WithinMemory, Ring, Contents

LEMMA FreshGood ==
  ASSUME NEW c \in 0 .. MaxCapacity
  PROVE  Good(Fresh(c)) /\ Contents(Fresh(c)) = <<>>
BY QueueAssumption DEF Good, Fresh, PowersQueueType, WithinMemory, Ring, Contents, Slot

(* Copying makes the destination hold what the source holds, in a memory   *)
(* at least as large, whether the destination was rebuilt or reused.       *)
LEMMA EmptiedGood ==
  ASSUME NEW dst, Good(dst), NEW src, Good(src)
  PROVE  /\ Good(Emptied(dst, src))
         /\ Emptied(dst, src).Built
         /\ Emptied(dst, src).Size = 0
         /\ Emptied(dst, src).Start = 0
         /\ Emptied(dst, src).End = 0
         /\ Emptied(dst, src).Capacity >= src.Capacity
<1>1. src.Capacity \in 0 .. MaxCapacity /\ dst.Capacity \in Nat /\ src.Capacity \in Nat
  BY GoodQueue
<1>2. CASE dst.Capacity < src.Capacity \/ ~ dst.Built
  <2>1. Emptied(dst, src) = Fresh(src.Capacity)
    BY <1>2 DEF Emptied
  <2> QED BY <1>1, <2>1, FreshGood DEF Fresh
<1>3. CASE ~ (dst.Capacity < src.Capacity \/ ~ dst.Built)
  <2> DEFINE new == Queue(TRUE, dst.Capacity, dst.Memory, 0, 0, 0)
  <2>1. /\ dst = Queue(dst.Built, dst.Capacity, dst.Memory, dst.Size, dst.Start, dst.End)
        /\ dst.Built \in BOOLEAN
    BY GoodQueue
  <2>2. Emptied(dst, src) = [dst EXCEPT !.Start = 0, !.End = 0, !.Size = 0]
    BY <1>3 DEF Emptied
  <2>3. Emptied(dst, src) = new
    BY <1>3, <2>1, <2>2 DEF Queue
  <2>4. dst.Capacity > 0 => 0 = (0 + 0) % dst.Capacity
    BY <1>1, SMT
  <2>5. dst.Capacity \in 0 .. MaxCapacity /\ dst.Memory \in [0 .. dst.Capacity - 1 -> Power]
    BY GoodQueue
  <2>6. Good(new)
    <3>1. /\ TRUE \in BOOLEAN /\ 0 \in Nat /\ 0 \in 0 .. dst.Capacity
          /\ IF dst.Capacity > 0 THEN 0 < dst.Capacity /\ 0 < dst.Capacity
                                 ELSE 0 = 0 /\ 0 = 0
      BY <1>1
    <3> QED BY <3>1, <2>4, <2>5, QueueGood
  <2> QED BY <1>1, <1>3, <2>3, <2>6 DEF Queue
<1> QED BY <1>2, <1>3

LEMMA CopiedGood ==
  ASSUME NEW dst, Good(dst), NEW src, Good(src)
  PROVE  /\ Good(Copied(dst, src))
         /\ Contents(Copied(dst, src)) = Contents(src)
         /\ Copied(dst, src).Built
         /\ Copied(dst, src).Size = src.Size
         /\ Copied(dst, src).Capacity = Emptied(dst, src).Capacity
<1> DEFINE base == Emptied(dst, src)
<1>1. /\ Good(base) /\ base.Built /\ base.Size = 0 /\ base.Start = 0 /\ base.End = 0
      /\ base.Capacity >= src.Capacity
  BY EmptiedGood
<1> HIDE DEF base
<1>2. CASE IsEmpty(src)
  <2>1. Copied(dst, src) = base
    BY <1>2 DEF Copied, base
  <2>2. Contents(base) = Contents(src)
    BY <1>1, <1>2 DEF Contents, IsEmpty
  <2> QED BY <1>1, <1>2, <2>1, <2>2 DEF base, IsEmpty
<1>3. CASE ~ IsEmpty(src)
  <2> DEFINE c == base.Capacity
             mem == [i \in 0 .. c - 1 |->
                       IF i < src.Size THEN src.Memory[Slot(src, i)]
                                       ELSE base.Memory[i]]
             new == Queue(TRUE, c, mem, src.Size, 0, src.Size % c)
  <2>1. /\ src.Size \in 1 .. src.Capacity /\ src.Size <= c
        /\ src.Capacity \in Nat /\ src.Capacity > 0
        /\ c \in 0 .. MaxCapacity /\ c \in Nat /\ c > 0
        /\ src.Memory \in [0 .. src.Capacity - 1 -> Power]
        /\ base.Memory \in [0 .. c - 1 -> Power]
        /\ base = Queue(base.Built, c, base.Memory, base.Size, base.Start, base.End)
    <3>1. src.Size \in 0 .. src.Capacity /\ src.Size # 0
      BY <1>3, GoodQueue DEF IsEmpty
    <3>2. /\ base = Queue(base.Built, c, base.Memory, base.Size, base.Start, base.End)
          /\ c \in 0 .. MaxCapacity /\ c \in Nat
          /\ base.Memory \in [0 .. c - 1 -> Power]
      BY <1>1, GoodQueue
    <3>3. src.Capacity \in Nat /\ src.Memory \in [0 .. src.Capacity - 1 -> Power]
      BY GoodQueue
    <3> DEFINE n == src.Size
               d == src.Capacity
    <3>4. n \in 0 .. d /\ n # 0 /\ d \in Nat /\ c \in Nat /\ c >= d
      BY <1>1, <3>1, <3>2, <3>3
    <3> HIDE DEF n, d, c
    <3>5. n \in 1 .. d /\ n <= c /\ d > 0 /\ c > 0
      BY <3>4
    <3> QED BY <3>2, <3>3, <3>5 DEF n, d, c
  <2>2. Copied(dst, src) = [base EXCEPT !.Memory = mem, !.Size = src.Size,
                                        !.End = src.Size % c]
    BY <1>3 DEF Copied, base
  <2> HIDE DEF c
  <2>3. mem \in [0 .. c - 1 -> Power]
    <3> SUFFICES ASSUME NEW i \in 0 .. c - 1, i < src.Size
                 PROVE  src.Memory[Slot(src, i)] \in Power
      BY <2>1
    <3>1. i \in 0 .. src.Capacity /\ src.Capacity > 0
      BY <2>1
    <3>2. Slot(src, i) \in 0 .. src.Capacity - 1
      BY <3>1, SlotWraps
    <3> QED BY <3>2, <2>1
  <2> HIDE DEF mem
  <2>4. Copied(dst, src) = new
    <3>1. base = [Built |-> TRUE, Capacity |-> c, Memory |-> base.Memory,
                  Size |-> 0, Start |-> 0, End |-> 0]
      BY <1>1, <2>1 DEF Queue
    <3> DEFINE e == src.Size % c
               n == src.Size
               old == base.Memory
    <3>2. /\ base = [Built |-> TRUE, Capacity |-> c, Memory |-> old,
                     Size |-> 0, Start |-> 0, End |-> 0]
          /\ Copied(dst, src) = [base EXCEPT !.Memory = mem, !.Size = n, !.End = e]
          /\ new = [Built |-> TRUE, Capacity |-> c, Memory |-> mem,
                    Size |-> n, Start |-> 0, End |-> e]
      BY <3>1, <2>2 DEF Queue
    <3> HIDE DEF e, n, old, new
    <3> QED BY <3>2
  <2>5. src.Size % c \in 0 .. c - 1 /\ src.Size % c = (0 + src.Size) % c
    <3> DEFINE n == src.Size
    <3>1. n \in Nat /\ n <= c /\ c \in Nat /\ c > 0
      BY <2>1
    <3> HIDE DEF n
    <3>2. n < c => n % c = n
      BY <3>1, NoWrap
    <3>3. n = c => n % c = 0
      BY <3>1, WrapToZero
    <3>4. n % c \in 0 .. c - 1
      BY <3>1, <3>2, <3>3
    <3>5. 0 + n = n
      BY <3>1
    <3> QED BY <3>4, <3>5 DEF n
  <2>6. Good(new)
    <3>1. /\ TRUE \in BOOLEAN /\ 0 \in Nat /\ src.Size \in 0 .. c
          /\ src.Size % c \in Nat
          /\ IF c > 0 THEN 0 < c /\ src.Size % c < c ELSE 0 = 0 /\ src.Size % c = 0
      BY <2>1, <2>5
    <3> QED BY <2>1, <2>3, <2>5, <3>1, QueueGood
  <2>7. Contents(new) = Contents(src)
    <3> SUFFICES ASSUME NEW k \in 1 .. src.Size
                 PROVE  new.Memory[Slot(new, k - 1)] = src.Memory[Slot(src, k - 1)]
      BY DEF Contents, Queue
    <3> DEFINE i == k - 1
    <3>1. i \in 0 .. c - 1 /\ i < src.Size /\ i \in Nat /\ i < c /\ 0 + i = i
      BY <2>1
    <3> HIDE DEF i
    <3>2. Slot(new, i) = (0 + i) % c
      BY DEF Slot, Queue
    <3>3. Slot(new, i) = i
      BY <2>1, <3>1, <3>2, NoWrap
    <3>4. new.Memory = mem
      BY DEF Queue
    <3>5. mem[i] = src.Memory[Slot(src, i)]
      BY <3>1 DEF mem
    <3> QED BY <3>3, <3>4, <3>5 DEF i
  <2> QED BY <1>1, <2>4, <2>6, <2>7 DEF c, base, Queue
<1> QED BY <1>2, <1>3

(* A growing queue keeps its content and has room for one more value *)
LEMMA RoomGood ==
  ASSUME NEW pq, Good(pq), pq.Built, pq.Capacity > 0,
         IsFull(pq) => 2 * pq.Capacity <= MaxCapacity
  PROVE  /\ Good(Room(pq))
         /\ Contents(Room(pq)) = Contents(pq)
         /\ Room(pq).Built
         /\ Room(pq).Capacity \in Nat
         /\ Room(pq).Size \in Nat
         /\ Room(pq).Size < Room(pq).Capacity
<1>1. pq.Capacity \in Nat /\ pq.Size \in 0 .. pq.Capacity /\ MaxCapacity \in Nat
  BY GoodQueue, QueueAssumption
<1>2. CASE ~ IsFull(pq)
  BY <1>1, <1>2 DEF Room, IsFull
<1>3. CASE IsFull(pq)
  <2> DEFINE f == Fresh(2 * pq.Capacity)
             r == Copied(f, pq)
  <2>1. 2 * pq.Capacity \in 0 .. MaxCapacity
    BY <1>1, <1>3
  <2>2. Good(f) /\ f.Capacity = 2 * pq.Capacity /\ f.Built
    BY <2>1, FreshGood DEF Fresh
  <2> HIDE DEF f
  <2>3. /\ Good(r) /\ Contents(r) = Contents(pq) /\ r.Built
        /\ r.Size = pq.Size /\ r.Capacity = Emptied(f, pq).Capacity
    BY <2>2, CopiedGood
  <2>4. Emptied(f, pq) = [f EXCEPT !.Start = 0, !.End = 0, !.Size = 0]
    <3>1. ~ (f.Capacity < pq.Capacity \/ ~ f.Built)
      BY <1>1, <2>2
    <3> QED BY <3>1 DEF Emptied
  <2>5. Emptied(f, pq).Capacity = 2 * pq.Capacity
    BY <2>2, <2>4, GoodQueue DEF Queue
  <2>6. Room(pq) = r
    BY <1>3 DEF Room, f
  <2>7. r.Capacity \in Nat /\ r.Size \in Nat /\ r.Size < r.Capacity
    BY <1>1, <2>3, <2>5
  <2> QED BY <2>3, <2>6, <2>7
<1> QED BY <1>2, <1>3

LEMMA ContentsSeq ==
  ASSUME NEW pq, Good(pq)
  PROVE  Contents(pq) \in Seq(Power) /\ Len(Contents(pq)) = pq.Size
<1>1. /\ pq.Capacity \in Nat /\ pq.Size \in 0 .. pq.Capacity
      /\ pq.Memory \in [0 .. pq.Capacity - 1 -> Power]
  BY GoodQueue
<1>2. ASSUME NEW k \in 1 .. pq.Size PROVE pq.Memory[Slot(pq, k - 1)] \in Power
  <2>1. k - 1 \in 0 .. pq.Capacity /\ pq.Capacity > 0
    BY <1>1
  <2>2. Slot(pq, k - 1) \in 0 .. pq.Capacity - 1
    BY <2>1, SlotWraps
  <2> QED BY <1>1, <2>2
<1> QED BY <1>1, <1>2 DEF Contents

(* Writing at End appends the value to the content *)
LEMMA InsertedGood ==
  ASSUME NEW pq, Good(pq), pq.Built, pq.Size < pq.Capacity, NEW p \in Power
  PROVE  /\ Good(Inserted(pq, p))
         /\ Inserted(pq, p).Built
         /\ Contents(Inserted(pq, p)) = Append(Contents(pq), p)
<1> DEFINE c == pq.Capacity
           n == pq.Size
           s == pq.Start
           e == pq.End
           m == pq.Memory
           new == Queue(TRUE, c, [m EXCEPT ![e] = p], n + 1, s, (e + 1) % c)
<1>1. /\ pq = Queue(TRUE, c, m, n, s, e)
      /\ c \in 0 .. MaxCapacity /\ c \in Nat /\ c > 0
      /\ n \in Nat /\ n < c /\ s \in Nat /\ s < c /\ e \in Nat /\ e < c
      /\ m \in [0 .. c - 1 -> Power]
  <2>1. pq = Queue(pq.Built, c, m, n, s, e)
    BY GoodQueue
  <2>2. n \in 0 .. c /\ c \in Nat
    BY GoodQueue
  <2>3. c > 0
    BY <2>2
  <2>4. /\ IF c > 0 THEN s < c /\ e < c ELSE s = 0 /\ e = 0
        /\ c \in 0 .. MaxCapacity /\ s \in Nat /\ e \in Nat
        /\ m \in [0 .. c - 1 -> Power]
    BY GoodQueue
  <2> HIDE DEF c, n, s, e, m
  <2>5. n \in Nat /\ n < c
    BY <2>2 DEF c, n
  <2>6. pq = Queue(TRUE, c, m, n, s, e)
    BY <2>1
  <2> QED BY <2>2, <2>3, <2>4, <2>5, <2>6
<1>2. ASSUME NEW k \in 0 .. c
      PROVE  /\ Slot(pq, k) = IF s + k < c THEN s + k ELSE s + k - c
             /\ Slot(pq, k) \in 0 .. c - 1
  BY <1>1, SlotWraps
<1>3. e = Slot(pq, n)
  BY <1>1, GoodQueue
<1>4. Inserted(pq, p) = new
  <2>1. Inserted(pq, p) = [pq EXCEPT !.Memory = [m EXCEPT ![e] = p],
                                     !.End = (e + 1) % c, !.Size = n + 1]
    BY <1>1 DEF Inserted, Queue
  <2> DEFINE mem == [m EXCEPT ![e] = p]
             end == (e + 1) % c
             size == n + 1
  <2>2. new = Queue(TRUE, c, mem, size, s, end)
    OBVIOUS
  <2>3. Inserted(pq, p) = [pq EXCEPT !.Memory = mem, !.End = end, !.Size = size]
    BY <2>1
  <2> HIDE DEF mem, end, size, new, c, n, s, e, m
  <2> QED BY <1>1, <2>2, <2>3 DEF Queue
<1> HIDE DEF c, n, s, e, m
<1>5. (e + 1) % c = (s + (n + 1)) % c /\ (e + 1) % c \in 0 .. c - 1
  <2> n \in 0 .. c
    BY <1>1
  <2>1. e = IF s + n < c THEN s + n ELSE s + n - c
    BY <1>2, <1>3
  <2>2. e + 1 \in 0 .. 2 * c - 1 /\ s + (n + 1) \in 0 .. 2 * c - 1
    BY <1>1
  <2>3. (e + 1) % c = IF e + 1 < c THEN e + 1 ELSE e + 1 - c
    BY <1>1, <2>2, WrapOnce
  <2>4. (s + (n + 1)) % c = IF s + (n + 1) < c THEN s + (n + 1) ELSE s + (n + 1) - c
    BY <1>1, <2>2, WrapOnce
  <2> QED BY <1>1, <2>1, <2>3, <2>4
<1>6. [m EXCEPT ![e] = p] \in [0 .. c - 1 -> Power]
  BY <1>1
<1>7. Good(new)
  <2>1. /\ TRUE \in BOOLEAN /\ n + 1 \in 0 .. c /\ (e + 1) % c \in Nat
        /\ IF c > 0 THEN s < c /\ (e + 1) % c < c ELSE s = 0 /\ (e + 1) % c = 0
    BY <1>1, <1>5
  <2> QED BY <1>1, <1>5, <1>6, <2>1, QueueGood
<1>8. ASSUME NEW k \in 1 .. n + 1
      PROVE  new.Memory[Slot(new, k - 1)] = IF k = n + 1 THEN p ELSE m[Slot(pq, k - 1)]
  <2> DEFINE i == k - 1
  <2>1. i \in 0 .. c /\ n \in 0 .. c /\ (k = n + 1 <=> i = n) /\ i <= n
    BY <1>1
  <2>2. new.Memory = [m EXCEPT ![e] = p] /\ Slot(new, i) = Slot(pq, i)
    BY <1>1 DEF Queue, Slot
  <2> HIDE DEF i, new
  <2>3. /\ Slot(pq, i) \in 0 .. c - 1
        /\ Slot(pq, i) = IF s + i < c THEN s + i ELSE s + i - c
        /\ e = IF s + n < c THEN s + n ELSE s + n - c
    BY <1>2, <1>3, <2>1
  <2>4. i = n => Slot(pq, i) = e
    BY <1>3
  <2>5. i # n => Slot(pq, i) # e
    <3>1. i # n => i < n /\ i \in Nat
      BY <1>1, <2>1
    <3>2. i # n => (IF s + i < c THEN s + i ELSE s + i - c)
                     # (IF s + n < c THEN s + n ELSE s + n - c)
      BY <1>1, <3>1, SlotsDiffer
    <3> QED BY <2>3, <3>2
  <2>6. new.Memory[Slot(pq, i)] = IF Slot(pq, i) = e THEN p ELSE m[Slot(pq, i)]
    BY <1>1, <2>2, <2>3
  <2>7. new.Memory[Slot(new, i)] = IF k = n + 1 THEN p ELSE m[Slot(pq, i)]
    BY <2>1, <2>2, <2>4, <2>5, <2>6
  <2> QED BY <2>7 DEF i
<1>9. Contents(new) = Append(Contents(pq), p)
  <2> DEFINE old == Contents(pq)
             now == Contents(new)
  <2>1. old \in Seq(Power) /\ Len(old) = n /\ n \in Nat
    BY <1>1, ContentsSeq DEF n
  <2>2. now \in Seq(Power) /\ Len(now) = n + 1
    BY <1>7, ContentsSeq DEF Queue
  <2>3. ASSUME NEW k \in 1 .. n + 1
        PROVE  now[k] = IF k = n + 1 THEN p ELSE m[Slot(pq, k - 1)]
    BY <1>8 DEF Contents, Queue
  <2>4. ASSUME NEW k \in 1 .. n PROVE old[k] = m[Slot(pq, k - 1)]
    BY DEF Contents, n, m
  <2> HIDE DEF old, now, new
  <2>5. /\ Append(old, p) \in Seq(Power) /\ Len(Append(old, p)) = n + 1
        /\ \A k \in 1 .. n : Append(old, p)[k] = old[k]
        /\ Append(old, p)[n + 1] = p
    BY <2>1, AppendProperties
  <2>6. \A k \in 1 .. n + 1 : now[k] = Append(old, p)[k]
    <3> TAKE k \in 1 .. n + 1
    <3>1. CASE k = n + 1
      BY <2>3, <2>5, <3>1
    <3>2. CASE k # n + 1
      <4>1. k \in 1 .. n
        BY <2>1, <3>2
      <4> QED BY <2>3, <2>4, <2>5, <3>2, <4>1
    <3> QED BY <3>1, <3>2
  <2>7. now = Append(old, p)
    BY <2>2, <2>5, <2>6, SeqEqual
  <2> QED BY <2>7 DEF old, now
<1>10. new.Built
  BY DEF Queue
<1> QED BY <1>4, <1>7, <1>9, <1>10

(* Reading at Start takes the oldest value off the content *)
LEMMA RemovedGood ==
  ASSUME NEW pq, Good(pq), ~ IsEmpty(pq)
  PROVE  /\ Good(Removed(pq))
         /\ pq.Built /\ Removed(pq).Built
         /\ Contents(pq) \in Seq(Power) /\ Contents(pq) # <<>>
         /\ pq.Memory[pq.Start] = Head(Contents(pq))
         /\ Contents(Removed(pq)) = Tail(Contents(pq))
<1> DEFINE c == pq.Capacity
           n == pq.Size
           s == pq.Start
           e == pq.End
           m == pq.Memory
           new == Queue(TRUE, c, m, n - 1, (s + 1) % c, e)
<1>1. /\ pq = Queue(TRUE, c, m, n, s, e)
      /\ c \in 0 .. MaxCapacity /\ c \in Nat /\ c > 0
      /\ n \in 1 .. c /\ s \in Nat /\ s < c /\ e \in Nat /\ e < c
      /\ m \in [0 .. c - 1 -> Power]
      /\ e = (s + n) % c
  <2>1. /\ pq = Queue(pq.Built, c, m, n, s, e)
        /\ ~ pq.Built => c = 0
        /\ pq.Built \in BOOLEAN
    BY GoodQueue
  <2>2. n \in 0 .. c /\ c \in Nat /\ n # 0
    BY GoodQueue DEF IsEmpty
  <2>3. /\ IF c > 0 THEN s < c /\ e < c ELSE s = 0 /\ e = 0
        /\ c \in 0 .. MaxCapacity /\ s \in Nat /\ e \in Nat
        /\ m \in [0 .. c - 1 -> Power]
        /\ c > 0 => e = (s + n) % c
    BY GoodQueue DEF Slot
  <2> HIDE DEF c, n, s, e, m
  <2>4. c > 0 /\ n \in 1 .. c
    BY <2>2
  <2>5. pq.Built = TRUE
    BY <2>1, <2>4
  <2> QED BY <2>1, <2>2, <2>3, <2>4, <2>5
<1>2. ASSUME NEW k \in 0 .. c
      PROVE  /\ Slot(pq, k) = IF s + k < c THEN s + k ELSE s + k - c
             /\ Slot(pq, k) \in 0 .. c - 1
  BY <1>1, SlotWraps
<1>3. Removed(pq) = new
  <2> DEFINE start == (s + 1) % c
             size == n - 1
  <2>1. Removed(pq) = [pq EXCEPT !.Start = start, !.Size = size]
    BY DEF Removed
  <2>2. new = Queue(TRUE, c, m, size, start, e)
    OBVIOUS
  <2> HIDE DEF start, size, new, c, n, s, e, m
  <2> QED BY <1>1, <2>1, <2>2 DEF Queue
<1>4. Contents(pq) \in Seq(Power) /\ Len(Contents(pq)) = n
  BY ContentsSeq
<1> HIDE DEF c, n, s, e, m
<1>5. (s + 1) % c = (IF s + 1 < c THEN s + 1 ELSE s + 1 - c) /\ (s + 1) % c \in 0 .. c - 1
  <2>1. s + 1 \in 0 .. 2 * c - 1
    BY <1>1
  <2>2. (s + 1) % c = IF s + 1 < c THEN s + 1 ELSE s + 1 - c
    BY <1>1, <2>1, WrapOnce
  <2> QED BY <1>1, <2>2
<1>6. ASSUME NEW k \in 0 .. n - 1
      PROVE  (((s + 1) % c) + k) % c = (s + (k + 1)) % c
  <2> DEFINE t == (s + 1) % c
  <2>1. t = (IF s + 1 < c THEN s + 1 ELSE s + 1 - c) /\ t \in 0 .. c - 1
    BY <1>5
  <2> HIDE DEF t
  <2>2. t + k \in 0 .. 2 * c - 1 /\ s + (k + 1) \in 0 .. 2 * c - 1
    BY <1>1, <2>1
  <2>3. (t + k) % c = IF t + k < c THEN t + k ELSE t + k - c
    <3> DEFINE x == t + k
    <3>1. x \in 0 .. 2 * c - 1 /\ c \in Nat /\ c > 0
      BY <1>1, <2>2
    <3> HIDE DEF x
    <3>2. x % c = IF x < c THEN x ELSE x - c
      BY <3>1, WrapOnce
    <3> QED BY <1>1, <2>1, <2>2, <3>2 DEF x
  <2>4. (s + (k + 1)) % c = IF s + (k + 1) < c THEN s + (k + 1) ELSE s + (k + 1) - c
    BY <1>1, <2>2, WrapOnce
  <2>5. (t + k) % c = (s + (k + 1)) % c
    <3> DEFINE a == (t + k) % c
               b == (s + (k + 1)) % c
    <3>1. /\ a = IF t + k < c THEN t + k ELSE t + k - c
          /\ b = IF s + (k + 1) < c THEN s + (k + 1) ELSE s + (k + 1) - c
      BY <2>3, <2>4
    <3> HIDE DEF a, b
    <3>2. a = b
      BY <1>1, <2>1, <3>1
    <3> QED BY <3>2 DEF a, b
  <2> QED BY <2>5 DEF t
<1>7. Good(new)
  <2>1. n - 1 \in 0 .. n - 1 /\ (n - 1) + 1 = n
    BY <1>1
  <2>2. e = (((s + 1) % c) + (n - 1)) % c
    BY <1>1, <1>6, <2>1
  <2>3. /\ TRUE \in BOOLEAN /\ n - 1 \in 0 .. c /\ (s + 1) % c \in Nat
        /\ IF c > 0 THEN (s + 1) % c < c /\ e < c ELSE (s + 1) % c = 0 /\ e = 0
    BY <1>1, <1>5
  <2> QED BY <1>1, <2>2, <2>3, QueueGood
<1>8. Contents(pq) # <<>> /\ m[s] = Head(Contents(pq))
  <2> DEFINE old == Contents(pq)
  <2>1. old[1] = m[Slot(pq, 0)]
    <3>1. 1 \in 1 .. n /\ 1 - 1 = 0
      BY <1>1
    <3> QED BY <3>1 DEF Contents, n, m
  <2>2. Slot(pq, 0) = s
    <3>1. 0 \in 0 .. c /\ s + 0 < c /\ s + 0 = s
      BY <1>1
    <3> QED BY <1>2, <3>1
  <2> HIDE DEF old
  <2>3. old \in Seq(Power) /\ Len(old) > 0
    BY <1>1, <1>4 DEF old
  <2>4. old # <<>> /\ Head(old) = old[1]
    BY <2>3
  <2> QED BY <2>1, <2>2, <2>4 DEF old
<1>9. Contents(new) = Tail(Contents(pq))
  <2> DEFINE old == Contents(pq)
             now == Contents(new)
  <2>1. now \in Seq(Power) /\ Len(now) = n - 1
    BY <1>7, ContentsSeq DEF Queue
  <2>2. ASSUME NEW k \in 1 .. n - 1 PROVE now[k] = m[Slot(new, k - 1)]
    BY DEF Contents, Queue
  <2>3. ASSUME NEW k \in 1 .. n PROVE old[k] = m[Slot(pq, k - 1)]
    BY DEF Contents, n, m
  <2>4. ASSUME NEW k \in 0 .. n - 1 PROVE Slot(new, k) = Slot(pq, k + 1)
    BY <1>6 DEF Slot, Queue, s, c
  <2> HIDE DEF old, now, new
  <2>5. /\ Tail(old) \in Seq(Power) /\ Len(Tail(old)) = n - 1
        /\ \A k \in 1 .. n - 1 : Tail(old)[k] = old[k + 1]
    BY <1>4, <1>8, HeadTailProperties DEF old
  <2>6. \A k \in 1 .. n - 1 : now[k] = Tail(old)[k]
    <3> TAKE k \in 1 .. n - 1
    <3>1. /\ k - 1 \in 0 .. n - 1 /\ k + 1 \in 1 .. n
          /\ (k - 1) + 1 = k /\ (k + 1) - 1 = k
      BY <1>1
    <3>2. now[k] = m[Slot(pq, k)]
      BY <2>2, <2>4, <3>1
    <3>3. old[k + 1] = m[Slot(pq, k)]
      BY <2>3, <3>1
    <3> QED BY <2>5, <3>2, <3>3
  <2>7. now = Tail(old)
    BY <2>1, <2>5, <2>6, SeqEqual
  <2> QED BY <2>7 DEF old, now
<1>10. new.Built /\ pq.Built
  BY <1>1 DEF Queue
<1> QED BY <1>3, <1>4, <1>7, <1>8, <1>9, <1>10 DEF m, s

-----------------------------------------------------------------------------
(* The inductive invariant of the specification *)
IInv ==
  /\ \A q \in Queues : Good(pqueue[q])
  /\ pqueue \in [Queues -> PowersQueueType]
  /\ result \in Power

LEMMA InitIInv == Init => IInv
BY InitialisedGood, QueueAssumption DEF Init, IInv, Good

(* One queue of pqueue changes and is still good *)
LEMMA UpdateIInv ==
  ASSUME IInv, NEW q \in Queues, NEW new, Good(new),
         pqueue' = [pqueue EXCEPT ![q] = new], result' \in Power
  PROVE  IInv'
BY DEF IInv, Good

LEMMA NextIInv == IInv /\ [Next]_vars => IInv'
<1> SUFFICES ASSUME IInv, [Next]_vars PROVE IInv'
  OBVIOUS
<1>1. ASSUME NEW q \in Queues, NEW capacity \in Capacities, Build(q, capacity)
      PROVE  IInv'
  <2>1. Good(Fresh(capacity))
    BY FreshGood, QueueAssumption
  <2> QED BY <1>1, <2>1, UpdateIInv DEF Build, IInv
<1>2. ASSUME NEW q \in Queues, Destroy(q) PROVE IInv'
  BY <1>2, InitialisedGood, UpdateIInv DEF Destroy, IInv
<1>3. ASSUME NEW q \in Queues, NEW power \in Power, Put(q, power) PROVE IInv'
  <2>1. Good(Room(pqueue[q])) /\ Room(pqueue[q]).Built
        /\ Room(pqueue[q]).Size < Room(pqueue[q]).Capacity
    BY <1>3, RoomGood DEF Put, IInv
  <2>2. Good(Inserted(Room(pqueue[q]), power))
    BY <2>1, InsertedGood
  <2> QED BY <1>3, <2>2, UpdateIInv DEF Put, IInv
<1>4. ASSUME NEW q \in Queues, Get(q) PROVE IInv'
  <2>1. Good(pqueue[q]) /\ ~ IsEmpty(pqueue[q])
    BY <1>4 DEF Get, IInv
  <2>2. /\ Good(Removed(pqueue[q]))
        /\ Contents(pqueue[q]) \in Seq(Power) /\ Contents(pqueue[q]) # <<>>
        /\ pqueue[q].Memory[pqueue[q].Start] = Head(Contents(pqueue[q]))
    BY <2>1, RemovedGood
  <2>3. result' \in Power
    BY <1>4, <2>2, HeadTailProperties DEF Get
  <2> QED BY <1>4, <2>2, <2>3, UpdateIInv DEF Get
<1>5. ASSUME NEW q \in Queues, GetNothing(q) PROVE IInv'
  BY <1>5, QueueAssumption DEF GetNothing, IInv
<1>6. ASSUME NEW q \in Queues, NEW src \in Queues \ {q}, Copy(q, src) PROVE IInv'
  <2>1. Good(Copied(pqueue[q], pqueue[src]))
    BY CopiedGood DEF IInv
  <2> QED BY <1>6, <2>1, UpdateIInv DEF Copy, IInv
<1>7. CASE UNCHANGED vars
  BY <1>7 DEF vars, IInv
<1> QED BY <1>1, <1>2, <1>3, <1>4, <1>5, <1>6, <1>7 DEF Next

LEMMA AlwaysIInv == Spec => []IInv
BY InitIInv, NextIInv, PTL DEF Spec

(* Every operation of powers_queue.c leaves a queue with fields of their   *)
(* types.                                                                  *)
THEOREM TypeCorrect == Spec => []TypeOK
<1>1. IInv => TypeOK
  BY DEF IInv, TypeOK, Good
<1> QED BY <1>1, AlwaysIInv, PTL

(* Start, Size and End of every queue always describe the same ring, after *)
(* growing and after copying into a memory that is reused, and no index is *)
(* ever outside of the memory that was allocated for the queue.            *)
THEOREM RingCorrect == Spec => []RingOK
<1>1. IInv => RingOK
  BY DEF IInv, RingOK, Good
<1> QED BY <1>1, AlwaysIInv, PTL

-----------------------------------------------------------------------------
(* What a ring stands for in PowersFifo *)
Abstract(pq) == [built |-> pq.Built, items |-> Contents(pq)]

AbstractFifo == [q \in Queues |-> Abstract(pqueue[q])]

LEMMA InitialisedUnbuilt == Abstract(Initialised) = Fifo!Unbuilt
<1>1. Initialised.Built = FALSE
  BY DEF Initialised
<1> QED BY <1>1, InitialisedGood DEF Abstract, Fifo!Unbuilt

LEMMA InitImplements == Init => Fifo!Init
<1> SUFFICES ASSUME Init PROVE Fifo!Init
  OBVIOUS
<1>1. \A q \in Queues : pqueue[q] = Initialised
  BY DEF Init
<1>2. AbstractFifo = [q \in Queues |-> Fifo!Unbuilt]
  BY <1>1, InitialisedUnbuilt DEF AbstractFifo
<1> QED BY <1>2 DEF Init, Fifo!Init, AbstractFifo, Abstract

LEMMA UpdateImplements ==
  ASSUME IInv, NEW q \in Queues, NEW new,
         pqueue' = [pqueue EXCEPT ![q] = new]
  PROVE  AbstractFifo' = [AbstractFifo EXCEPT ![q] = Abstract(new)]
BY DEF IInv, AbstractFifo

LEMMA NextImplements == IInv /\ [Next]_vars => [Fifo!Next]_(Fifo!vars)
<1> SUFFICES ASSUME IInv, [Next]_vars PROVE [Fifo!Next]_(Fifo!vars)
  OBVIOUS
<1> USE DEF Abstract, AbstractFifo
<1>1. ASSUME NEW q \in Queues, NEW capacity \in Capacities, Build(q, capacity)
      PROVE  Fifo!Build(q)
  <2>1. Contents(Fresh(capacity)) = <<>> /\ Fresh(capacity).Built
    BY FreshGood, QueueAssumption DEF Fresh
  <2>2. Abstract(Fresh(capacity)) = Fifo!Holding(<<>>)
    BY <2>1 DEF Fifo!Holding
  <2>3. AbstractFifo' = [AbstractFifo EXCEPT ![q] = Abstract(Fresh(capacity))]
    BY <1>1, UpdateImplements DEF Build
  <2> QED BY <1>1, <2>2, <2>3 DEF Build, Fifo!Build
<1>2. ASSUME NEW q \in Queues, Destroy(q) PROVE Fifo!Destroy(q)
  <2>1. Abstract(Initialised) = Fifo!Unbuilt
    BY InitialisedUnbuilt
  <2>2. AbstractFifo' = [AbstractFifo EXCEPT ![q] = Abstract(Initialised)]
    BY <1>2, UpdateImplements DEF Destroy
  <2> QED BY <1>2, <2>1, <2>2 DEF Destroy, Fifo!Destroy
<1>3. ASSUME NEW q \in Queues, NEW power \in Power, Put(q, power)
      PROVE  Fifo!Put(q, power)
  <2> DEFINE room == Room(pqueue[q])
             new == Inserted(room, power)
  <2>1. /\ Good(room) /\ room.Built /\ room.Size < room.Capacity
        /\ Contents(room) = Contents(pqueue[q])
    BY <1>3, RoomGood DEF Put, IInv
  <2> HIDE DEF room
  <2>2. new.Built /\ Contents(new) = Append(Contents(pqueue[q]), power)
    BY <2>1, InsertedGood
  <2>3. new.Built = TRUE
    <3>1. Good(new)
      BY <2>1, InsertedGood
    <3> QED BY <2>2, <3>1, GoodQueue
  <2>4. pqueue' = [pqueue EXCEPT ![q] = new] /\ pqueue[q].Built
    BY <1>3 DEF Put, room
  <2> HIDE DEF new
  <2>5. Abstract(new) = Fifo!Holding(Append(Contents(pqueue[q]), power))
    BY <2>2, <2>3 DEF Fifo!Holding
  <2>6. AbstractFifo' = [AbstractFifo EXCEPT ![q] = Abstract(new)]
    BY <2>4, UpdateImplements
  <2> QED BY <1>3, <2>4, <2>5, <2>6 DEF Put, Fifo!Put
<1>4. ASSUME NEW q \in Queues, Get(q) PROVE Fifo!Get(q)
  <2> DEFINE new == Removed(pqueue[q])
  <2>1. /\ Good(new) /\ new.Built
        /\ Contents(pqueue[q]) # <<>>
        /\ pqueue[q].Memory[pqueue[q].Start] = Head(Contents(pqueue[q]))
        /\ Contents(new) = Tail(Contents(pqueue[q]))
    BY <1>4, RemovedGood DEF Get, IInv
  <2>2. new.Built = TRUE
    BY <2>1, GoodQueue
  <2>3. pqueue' = [pqueue EXCEPT ![q] = new]
    BY <1>4 DEF Get
  <2> HIDE DEF new
  <2>4. Abstract(new) = Fifo!Holding(Tail(Contents(pqueue[q])))
    BY <2>1, <2>2 DEF Fifo!Holding
  <2>5. AbstractFifo' = [AbstractFifo EXCEPT ![q] = Abstract(new)]
    BY <2>3, UpdateImplements
  <2> QED BY <1>4, <2>1, <2>4, <2>5 DEF Get, Fifo!Get
<1>5. ASSUME NEW q \in Queues, GetNothing(q) PROVE Fifo!GetNothing(q)
  <2>1. pqueue[q].Size = 0
    <3>1. Good(pqueue[q])
      BY DEF IInv
    <3>2. /\ ~ pqueue[q].Built => pqueue[q].Capacity = 0
          /\ pqueue[q].Size \in 0 .. pqueue[q].Capacity
      BY <3>1, GoodQueue
    <3> QED BY <1>5, <3>2 DEF GetNothing, IsEmpty
  <2>2. Contents(pqueue[q]) = <<>>
    BY <2>1 DEF Contents
  <2> QED BY <1>5, <2>2 DEF GetNothing, Fifo!GetNothing
<1>6. ASSUME NEW q \in Queues, NEW src \in Queues \ {q}, Copy(q, src)
      PROVE  Fifo!Copy(q, src)
  <2> DEFINE new == Copied(pqueue[q], pqueue[src])
  <2>1. Good(new) /\ new.Built /\ Contents(new) = Contents(pqueue[src])
    BY CopiedGood DEF IInv
  <2>2. new.Built = TRUE
    BY <2>1, GoodQueue
  <2>3. pqueue' = [pqueue EXCEPT ![q] = new]
    BY <1>6 DEF Copy
  <2> HIDE DEF new
  <2>4. Abstract(new) = Fifo!Holding(Contents(pqueue[src]))
    BY <2>1, <2>2 DEF Fifo!Holding
  <2>5. AbstractFifo' = [AbstractFifo EXCEPT ![q] = Abstract(new)]
    BY <2>3, UpdateImplements
  <2> QED BY <1>6, <2>4, <2>5 DEF Copy, Fifo!Copy
<1>7. CASE UNCHANGED vars
  BY <1>7 DEF vars, Fifo!vars
<1> QED BY <1>1, <1>2, <1>3, <1>4, <1>5, <1>6, <1>7 DEF Next, Fifo!Next

(* The ring of powers_queue.c, seen through the values it holds, is the    *)
(* first-in first-out list of PowersFifo: every step of every caller maps  *)
(* to a step of the list or leaves it unchanged.                           *)
THEOREM QueueImplementsFifo == Spec => ImplementsFifo
BY InitImplements, NextImplements, AlwaysIInv, PTL DEF Spec, ImplementsFifo, Fifo!Spec
=============================================================================
