-------------------------- MODULE ThermalBuild_proofs --------------------------
(* Proofs about the system matrix of a uniform grid: for every stack that  *)
(* the parser accepts and every size of the grid, what fill_system_matrix  *)
(* writes is the column of the cell with its number, with its rows in      *)
(* order, with one conductance for both sides of every exchange of heat,   *)
(* and with as many coefficients as the parser counted.  And about the     *)
(* search for the connections of a non-uniform one: no thread loses a node *)
(* that it or another one has found.                                       *)
(*                                                                         *)
(* In this order: the layers of a stack as thermal_grid_fill types them;   *)
(* the numbers of the cells; the entries of a column and their rows; the   *)
(* cells that exchange heat; what the layers' types and sinks are; the     *)
(* inductive invariant MatrixKept and what follows from it; the number of  *)
(* coefficients, cell by cell, row by row and layer by layer; the nodes of *)
(* the search, linked lists, the inductive invariant SearchKept.           *)
EXTENDS ThermalBuild, SequenceTheorems, FiniteSetTheorems, WellFoundedInduction, TLAPS

-----------------------------------------------------------------------------
(* Induction, for a set of numbers, and sequences put together from parts. *)

LEMMA Induction ==
  ASSUME NEW S, 0 \in S, \A n \in Nat : n \in S => n + 1 \in S
  PROVE  \A n \in Nat : n \in S
<1> SUFFICES ASSUME NEW m \in Nat \ S PROVE FALSE
  OBVIOUS
<1> DEFINE Missing == Nat \ S
<1>1. PICK x \in Missing : \A y \in Missing : ~ (<<y, x>> \in OpToRel(<, Nat))
  <2>1. Missing \subseteq Nat /\ Missing # {}
    OBVIOUS
  <2> HIDE DEF Missing
  <2> QED BY <2>1, NatLessThanWellFounded, WFMin
<1>2. x \in Nat /\ x # 0 /\ x - 1 \in Nat
  OBVIOUS
<1>3. CASE x - 1 \in S
  BY <1>2, <1>3
<1>4. CASE x - 1 \notin S
  <2>1. x - 1 \in Missing /\ x - 1 < x /\ <<x - 1, x>> \in Nat \X Nat
    BY <1>2, <1>4
  <2> QED BY <1>1, <2>1 DEF OpToRel
<1> QED BY <1>3, <1>4

LEMMA FunctionIsSeq ==
  ASSUME NEW S, NEW n \in Nat, NEW f \in [1 .. n -> S]
  PROVE  f \in Seq(S) /\ Len(f) = n
<1>1. f \in Seq(S)
  BY SeqDef
<1>2. Len(f) \in Nat /\ DOMAIN f = 1 .. Len(f) /\ DOMAIN f = 1 .. n
  BY <1>1
<1> QED BY <1>1, <1>2

Flat(f, parts, n) ==
  f = [i \in 1 .. n |-> IF i = 1 THEN parts[i] ELSE f[i - 1] \o parts[i]]

LEMMA FlatExists ==
  ASSUME NEW parts, NEW n \in Nat
  PROVE  \E f : Flat(f, parts, n)
<1> DEFINE S == {k \in Nat : \E f : Flat(f, parts, k)}
<1>1. 0 \in S
  <2> DEFINE f == [i \in 1 .. 0 |-> parts[i]]
  <2>1. Flat(f, parts, 0)
    BY DEF Flat
  <2> QED BY <2>1
<1>2. ASSUME NEW k \in Nat, k \in S PROVE k + 1 \in S
  <2>1. PICK f : Flat(f, parts, k)
    BY <1>2
  <2> DEFINE last == IF k = 0 THEN parts[1] ELSE f[k] \o parts[k + 1]
             g == [i \in 1 .. k + 1 |-> IF i = k + 1 THEN last ELSE f[i]]
  <2>2. ASSUME NEW i \in 1 .. k + 1
        PROVE  g[i] = IF i = 1 THEN parts[i] ELSE g[i - 1] \o parts[i]
    <3>1. CASE i = k + 1
      <4>1. i # 1 => g[i - 1] = f[k] /\ k # 0
        BY <3>1
      <4>2. g[i] = last
        BY <3>1
      <4> HIDE DEF g
      <4> QED BY <3>1, <4>1, <4>2
    <3>2. CASE i # k + 1
      <4>1. i \in 1 .. k
        BY <3>2
      <4>2. f[i] = IF i = 1 THEN parts[i] ELSE f[i - 1] \o parts[i]
        BY <2>1, <4>1 DEF Flat
      <4>3. g[i] = f[i] /\ (i # 1 => g[i - 1] = f[i - 1])
        BY <4>1
      <4> HIDE DEF g
      <4> QED BY <4>2, <4>3
    <3> QED BY <3>1, <3>2
  <2>3. g = [i \in 1 .. k + 1 |-> IF i = 1 THEN parts[i] ELSE g[i - 1] \o parts[i]]
    <3>1. DOMAIN g = 1 .. k + 1 /\ g = [i \in DOMAIN g |-> g[i]]
      OBVIOUS
    <3> HIDE DEF g
    <3> QED BY <2>2, <3>1
  <2> HIDE DEF g
  <2>4. Flat(g, parts, k + 1)
    BY <2>3 DEF Flat
  <2> QED BY <2>4
<1> HIDE DEF S
<1>3. n \in S
  BY <1>1, <1>2, Induction
<1> QED BY <1>3 DEF S

LEMMA FlattenUnfold ==
  ASSUME NEW parts, Len(parts) \in Nat \ {0}
  PROVE  \E f : Flat(f, parts, Len(parts)) /\ FlattenSeq(parts) = f[Len(parts)]
<1>1. PICK f : Flat(f, parts, Len(parts))
  BY FlatExists
<1> QED BY <1>1 DEF FlattenSeq, Flat

-----------------------------------------------------------------------------
(* The layers of a stack (thermal_grid_fill).                              *)

LayerKinds ==
  Solids \cup {"CHANNEL_4RM", "CHANNEL_2RM"} \cup Walls \cup VirtualWalls \cup Pins

(* What the parser has checked of an element it accepted.                  *)
Checked(e) == e \in Elements /\ (e.type = "CHANNEL" => declared.channel # "NONE")

LEMMA ChannelKinds ==
  ASSUME declared \in Stacks, declared.channel # "NONE"
  PROVE  /\ ChannelLayers \in Seq(LayerKinds \ Solids)
         /\ Len(ChannelLayers) = IF declared.channel = "MC_4RM" THEN 1 ELSE 4
         /\ declared.channel = "MC_4RM" => ChannelLayers[1] = "CHANNEL_4RM"
         /\ is2RM(declared.channel) <=> declared.channel # "MC_4RM"
         /\ is2RM(declared.channel) =>
              /\ ChannelLayers[1] = "BOTTOM_WALL" /\ ChannelLayers[2] \in VirtualWalls
              /\ ChannelLayers[3] \in {"CHANNEL_2RM"} \cup Pins
              /\ ChannelLayers[4] = "TOP_WALL"
<1>1. declared.channel \in ChannelModels \ {"NONE"}
  BY StackAssumption DEF Declaration
<1>2. CASE declared.channel = "MC_4RM"
  <2>1. ChannelLayers = <<"CHANNEL_4RM">>
    BY <1>2 DEF ChannelLayers
  <2> QED BY <1>2, <2>1 DEF LayerKinds, Solids, is2RM
<1>3. CASE declared.channel = "MC_2RM"
  <2>1. ChannelLayers = <<"BOTTOM_WALL", "VWALL_CHANNEL", "CHANNEL_2RM", "TOP_WALL">>
    BY <1>3 DEF ChannelLayers
  <2> QED BY <1>3, <2>1 DEF LayerKinds, Solids, is2RM, Walls, VirtualWalls
<1>4. CASE declared.channel = "PF_INLINE"
  <2>1. ChannelLayers = <<"BOTTOM_WALL", "VWALL_PINFINS", "PINFINS_INLINE", "TOP_WALL">>
    BY <1>4 DEF ChannelLayers
  <2> QED BY <1>4, <2>1 DEF LayerKinds, Solids, is2RM, Walls, VirtualWalls, Pins
<1>5. CASE declared.channel = "PF_STAGGERED"
  <2>1. ChannelLayers = <<"BOTTOM_WALL", "VWALL_PINFINS", "PINFINS_STAGGERED", "TOP_WALL">>
    BY <1>5 DEF ChannelLayers
  <2> QED BY <1>5, <2>1 DEF LayerKinds, Solids, is2RM, Walls, VirtualWalls, Pins
<1> QED BY <1>1, <1>2, <1>3, <1>4, <1>5 DEF ChannelModels

LEMMA KindsOfElement ==
  ASSUME declared \in Stacks, NEW e, Checked(e)
  PROVE  /\ Kinds(e) \in Seq(LayerKinds)
         /\ Len(Kinds(e)) = ElementLayers(e) /\ Len(Kinds(e)) \in Nat \ {0}
         /\ e.type # "CHANNEL" => \A i \in 1 .. Len(Kinds(e)) : Kinds(e)[i] \in Solids
         /\ e.type = "CHANNEL" => Kinds(e) = ChannelLayers
<1>1. StackElement(e)
  BY StackAssumption DEF Checked
<1>2. CASE e.type = "DIE"
  <2>1. /\ Kinds(e) = [i \in 1 .. e.nlayers |-> IF i = e.source + 1 THEN "SOURCE" ELSE "SOLID"]
        /\ ElementLayers(e) = e.nlayers /\ e.nlayers \in Nat \ {0}
    BY <1>1, <1>2 DEF Kinds, ElementLayers, StackElement
  <2>2. Kinds(e) \in [1 .. e.nlayers -> Solids]
    BY <2>1 DEF Solids
  <2>3. Kinds(e) \in Seq(Solids) /\ Len(Kinds(e)) = e.nlayers
    BY <2>1, <2>2, FunctionIsSeq
  <2> QED BY <1>2, <2>1, <2>3, SeqMonotonic DEF LayerKinds
<1>3. CASE e.type = "LAYER"
  <2>1. Kinds(e) = <<"SOLID">> /\ ElementLayers(e) = 1
    BY <1>3 DEF Kinds, ElementLayers
  <2> QED BY <1>3, <2>1 DEF Solids, LayerKinds
<1>4. CASE e.type = "CHANNEL"
  <2>1. Kinds(e) = ChannelLayers
    BY <1>4 DEF Kinds
  <2>2. ElementLayers(e) = IF declared.channel = "MC_4RM" THEN 1 ELSE 4
    BY <1>4 DEF ElementLayers
  <2>3. /\ ChannelLayers \in Seq(LayerKinds \ Solids)
        /\ Len(ChannelLayers) = IF declared.channel = "MC_4RM" THEN 1 ELSE 4
    BY <1>4, ChannelKinds DEF Checked
  <2> QED BY <1>4, <2>1, <2>2, <2>3, SeqMonotonic
<1> QED BY <1>1, <1>2, <1>3, <1>4 DEF StackElement

(* Layer l of a stack, counted from 1, is the k-th of a channel with walls *)
(* that is there as a whole.                                               *)
InChannel(kinds, l, k) ==
  /\ k <= l /\ l - k + 4 <= Len(kinds)
  /\ \A m \in 1 .. 4 : kinds[l - k + m] = ChannelLayers[m]

WholeChannels(kinds) ==
  \A l \in 1 .. Len(kinds) :
    \/ kinds[l] \in Solids
    \/ declared.channel = "MC_4RM" /\ kinds[l] = "CHANNEL_4RM"
    \/ is2RM(declared.channel) /\ \E k \in 1 .. 4 : InChannel(kinds, l, k)

LEMMA WholeElement ==
  ASSUME declared \in Stacks, NEW e, Checked(e)
  PROVE  WholeChannels(Kinds(e))
<1>1. CASE e.type # "CHANNEL"
  BY <1>1, KindsOfElement DEF WholeChannels
<1>2. CASE e.type = "CHANNEL" /\ declared.channel = "MC_4RM"
  <2>1. /\ Kinds(e) = ChannelLayers /\ Len(ChannelLayers) = 1
        /\ ChannelLayers[1] = "CHANNEL_4RM"
    BY <1>2, KindsOfElement, ChannelKinds DEF Checked
  <2> QED BY <1>2, <2>1 DEF WholeChannels
<1>3. CASE e.type = "CHANNEL" /\ declared.channel # "MC_4RM"
  <2>1. /\ Kinds(e) = ChannelLayers /\ Len(ChannelLayers) = 4 /\ is2RM(declared.channel)
    BY <1>3, KindsOfElement, ChannelKinds DEF Checked
  <2>2. ASSUME NEW l \in 1 .. 4 PROVE InChannel(ChannelLayers, l, l)
    BY <2>1 DEF InChannel
  <2> QED BY <2>1, <2>2 DEF WholeChannels
<1> QED BY <1>1, <1>2, <1>3

LEMMA WholeConcat ==
  ASSUME NEW s \in Seq(LayerKinds), NEW t \in Seq(LayerKinds),
         WholeChannels(s), WholeChannels(t)
  PROVE  WholeChannels(s \o t)
<1> DEFINE st == s \o t
<1>0. Len(s) \in Nat /\ Len(t) \in Nat
  OBVIOUS
<1>1. /\ Len(st) = Len(s) + Len(t) /\ Len(s) \in Nat /\ Len(t) \in Nat
      /\ \A i \in 1 .. Len(s) : st[i] = s[i]
      /\ \A i \in 1 .. Len(t) : st[Len(s) + i] = t[i]
  BY ConcatProperties
<1> HIDE DEF st
<1>2. ASSUME NEW l \in 1 .. Len(s)
      PROVE  \/ st[l] \in Solids
             \/ declared.channel = "MC_4RM" /\ st[l] = "CHANNEL_4RM"
             \/ is2RM(declared.channel) /\ \E k \in 1 .. 4 : InChannel(st, l, k)
  <2>1. st[l] = s[l]
    BY <1>1
  <2>2. ASSUME NEW k \in 1 .. 4, InChannel(s, l, k) PROVE InChannel(st, l, k)
    <3>1. ASSUME NEW m \in 1 .. 4
          PROVE  l - k + m \in 1 .. Len(s) /\ s[l - k + m] = ChannelLayers[m]
      <4>1. k <= l /\ l - k + 4 <= Len(s) /\ s[l - k + m] = ChannelLayers[m]
        BY <2>2 DEF InChannel
      <4>2. l \in Nat /\ k \in Nat /\ m \in Nat /\ 1 <= m /\ m <= 4
        OBVIOUS
      <4>3. l - k + m \in 1 .. Len(s)
        BY <1>0, <4>1, <4>2
      <4> QED BY <4>1, <4>3
    <3>2. k <= l /\ l - k + 4 <= Len(st)
      BY <1>1, <2>2 DEF InChannel
    <3> QED BY <1>1, <3>1, <3>2 DEF InChannel
  <2> QED BY <2>1, <2>2 DEF WholeChannels
<1>3. ASSUME NEW j \in 1 .. Len(t)
      PROVE  \/ st[Len(s) + j] \in Solids
             \/ declared.channel = "MC_4RM" /\ st[Len(s) + j] = "CHANNEL_4RM"
             \/ is2RM(declared.channel) /\ \E k \in 1 .. 4 : InChannel(st, Len(s) + j, k)
  <2>1. st[Len(s) + j] = t[j]
    BY <1>1
  <2>2. ASSUME NEW k \in 1 .. 4, InChannel(t, j, k) PROVE InChannel(st, Len(s) + j, k)
    <3>1. ASSUME NEW m \in 1 .. 4 PROVE st[(Len(s) + j) - k + m] = ChannelLayers[m]
      <4>1. k <= j /\ j - k + 4 <= Len(t) /\ t[j - k + m] = ChannelLayers[m]
        BY <2>2 DEF InChannel
      <4>0. j \in Nat /\ k \in Nat /\ m \in Nat /\ 1 <= m /\ m <= 4
        OBVIOUS
      <4>2. j - k + m \in 1 .. Len(t)
        BY <1>0, <4>0, <4>1
      <4>3. (Len(s) + j) - k + m = Len(s) + (j - k + m)
        BY <1>0
      <4> QED BY <1>1, <4>1, <4>2, <4>3
    <3>2. k <= Len(s) + j /\ (Len(s) + j) - k + 4 <= Len(st)
      <4>1. k <= j /\ j - k + 4 <= Len(t)
        BY <2>2 DEF InChannel
      <4>2. j \in Nat /\ k \in Nat
        OBVIOUS
      <4>3. Len(st) = Len(s) + Len(t) /\ Len(s) \in Nat /\ Len(t) \in Nat
        BY <1>1
      <4> QED BY <4>1, <4>2, <4>3
    <3> QED BY <3>1, <3>2 DEF InChannel
  <2> QED BY <2>1, <2>2 DEF WholeChannels
<1>4. ASSUME NEW l \in 1 .. Len(st)
      PROVE  \/ st[l] \in Solids
             \/ declared.channel = "MC_4RM" /\ st[l] = "CHANNEL_4RM"
             \/ is2RM(declared.channel) /\ \E k \in 1 .. 4 : InChannel(st, l, k)
  <2>1. CASE l \in 1 .. Len(s)
    BY <1>2, <2>1
  <2>2. CASE l \notin 1 .. Len(s)
    <3>1. l - Len(s) \in 1 .. Len(t) /\ Len(s) + (l - Len(s)) = l
      BY <1>1, <2>2
    <3> QED BY <1>3, <3>1
  <2> QED BY <2>1, <2>2
<1>5. WholeChannels(st)
  BY <1>4 DEF WholeChannels
<1> QED BY <1>5 DEF st

(* The layers of the first k elements of a list.                           *)
Summed(g, elements, n) ==
  g = [k \in 0 .. n |-> IF k = 0 THEN 0 ELSE g[k - 1] + ElementLayers(elements[k])]

LEMMA SummedExists ==
  ASSUME NEW elements, NEW n \in Nat
  PROVE  \E g : Summed(g, elements, n)
<1> DEFINE S == {k \in Nat : \E g : Summed(g, elements, k)}
<1>1. 0 \in S
  <2> DEFINE g == [k \in 0 .. 0 |-> 0]
  <2>1. g = [k \in 0 .. 0 |-> IF k = 0 THEN 0 ELSE g[k - 1] + ElementLayers(elements[k])]
    OBVIOUS
  <2> HIDE DEF g
  <2>2. Summed(g, elements, 0)
    BY <2>1 DEF Summed
  <2> QED BY <2>2
<1>2. ASSUME NEW k \in Nat, k \in S PROVE k + 1 \in S
  <2>1. PICK f : Summed(f, elements, k)
    BY <1>2
  <2> DEFINE g == [i \in 0 .. k + 1 |-> IF i = k + 1 THEN f[k] + ElementLayers(elements[k + 1])
                                                    ELSE f[i]]
  <2>2. ASSUME NEW i \in 0 .. k + 1
        PROVE  g[i] = IF i = 0 THEN 0 ELSE g[i - 1] + ElementLayers(elements[i])
    <3>1. CASE i = k + 1
      <4>1. i # 0 /\ g[i - 1] = f[k] /\ g[i] = f[k] + ElementLayers(elements[k + 1])
        BY <3>1
      <4> HIDE DEF g
      <4> QED BY <3>1, <4>1
    <3>2. CASE i # k + 1
      <4>1. i \in 0 .. k
        BY <3>2
      <4>2. f[i] = IF i = 0 THEN 0 ELSE f[i - 1] + ElementLayers(elements[i])
        BY <2>1, <4>1 DEF Summed
      <4>3. g[i] = f[i] /\ (i # 0 => g[i - 1] = f[i - 1])
        BY <4>1
      <4> HIDE DEF g
      <4> QED BY <4>2, <4>3
    <3> QED BY <3>1, <3>2
  <2>3. g = [i \in 0 .. k + 1 |-> IF i = 0 THEN 0 ELSE g[i - 1] + ElementLayers(elements[i])]
    <3>1. DOMAIN g = 0 .. k + 1 /\ g = [i \in DOMAIN g |-> g[i]]
      OBVIOUS
    <3> HIDE DEF g
    <3> QED BY <2>2, <3>1
  <2> HIDE DEF g
  <2>4. Summed(g, elements, k + 1)
    BY <2>3 DEF Summed
  <2> QED BY <2>4
<1> HIDE DEF S
<1>3. n \in S
  BY <1>1, <1>2, Induction
<1> QED BY <1>3 DEF S

LEMMA LayersUnfold ==
  ASSUME NEW elements, Len(elements) \in Nat
  PROVE  \E g : Summed(g, elements, Len(elements)) /\ LayersOf(elements) = g[Len(elements)]
<1>1. PICK g : Summed(g, elements, Len(elements))
  BY SummedExists
<1> QED BY <1>1 DEF LayersOf, Summed

(* The stack as the parser leaves it.                                      *)
StackKept ==
  /\ declared \in Stacks /\ stack \in Seq(Elements)
  /\ \A i \in 1 .. Len(stack) : Checked(stack[i])

BottomUp == [i \in DOMAIN stack |-> Kinds(Reverse(stack)[i])]

LEMMA ElementSizes ==
  ASSUME StackKept, NEW g, Summed(g, stack, Len(stack))
  PROVE  /\ \A k \in 0 .. Len(stack) : g[k] \in Nat
         /\ \A k \in 1 .. Len(stack) : g[k] = g[k - 1] + Len(Kinds(stack[k]))
<1>1. g[0] = 0 /\ \A k \in 1 .. Len(stack) : g[k] = g[k - 1] + ElementLayers(stack[k])
  BY DEF Summed, StackKept
<1>2. \A k \in 1 .. Len(stack) : /\ Len(Kinds(stack[k])) = ElementLayers(stack[k])
                                 /\ Len(Kinds(stack[k])) \in Nat
  BY KindsOfElement DEF StackKept
<1> DEFINE S == {k \in Nat : k <= Len(stack) => g[k] \in Nat}
<1>3. 0 \in S
  BY <1>1
<1>4. ASSUME NEW k \in Nat, k \in S PROVE k + 1 \in S
  <2>1. SUFFICES ASSUME k + 1 <= Len(stack) PROVE g[k + 1] \in Nat
    OBVIOUS
  <2>2. g[k] \in Nat
    BY <1>4, <2>1 DEF StackKept
  <2>3. k + 1 \in 1 .. Len(stack) /\ (k + 1) - 1 = k
    BY <2>1 DEF StackKept
  <2>4. g[k + 1] = g[k] + ElementLayers(stack[k + 1]) /\ ElementLayers(stack[k + 1]) \in Nat
    BY <1>1, <1>2, <2>3
  <2> QED BY <2>2, <2>4
<1> HIDE DEF S
<1>5. \A k \in Nat : k \in S
  BY <1>3, <1>4, Induction
<1> QED BY <1>1, <1>2, <1>5 DEF S

(* The kinds of the layers of the k lowest elements.                       *)
LowestLayers(kinds, k, n) ==
  /\ kinds \in Seq(LayerKinds) /\ Len(kinds) = n /\ n >= 1 /\ WholeChannels(kinds)
  /\ kinds[1] = BottomUp[1][1] /\ kinds[n] = BottomUp[k][Len(BottomUp[k])]

LEMMA LowestStep ==
  ASSUME NEW k \in Nat, NEW n \in Nat, NEW kinds, LowestLayers(kinds, k, n),
         BottomUp[k + 1] \in Seq(LayerKinds), WholeChannels(BottomUp[k + 1]),
         Len(BottomUp[k + 1]) \in Nat \ {0}
  PROVE  LowestLayers(kinds \o BottomUp[k + 1], k + 1, n + Len(BottomUp[k + 1]))
<1> DEFINE t == BottomUp[k + 1]
           st == kinds \o t
<1>1. /\ st \in Seq(LayerKinds) /\ Len(st) = Len(kinds) + Len(t)
      /\ \A i \in 1 .. Len(kinds) + Len(t) :
           st[i] = IF i <= Len(kinds) THEN kinds[i] ELSE t[i - Len(kinds)]
  BY ConcatProperties DEF LowestLayers
<1>2. WholeChannels(st)
  BY WholeConcat DEF LowestLayers
<1> HIDE DEF st, t
<1>3. Len(t) \in Nat \ {0} /\ Len(kinds) = n /\ n >= 1
  BY DEF t, LowestLayers
<1>4. st[1] = kinds[1] /\ st[n + Len(t)] = t[Len(t)]
  BY <1>1, <1>3
<1>5. LowestLayers(st, k + 1, n + Len(t))
  BY <1>1, <1>2, <1>3, <1>4 DEF LowestLayers, t
<1> QED BY <1>5 DEF st, t

LEMMA KindsOfStack ==
  ASSUME StackKept, stack # <<>>
  PROVE  LowestLayers(FlattenSeq(BottomUp), Len(stack), LayersOf(stack))
<1> DEFINE n == Len(stack)
<1>1. n \in Nat \ {0} /\ DOMAIN stack = 1 .. n
  BY DEF StackKept
<1>2. PICK g : Summed(g, stack, n) /\ LayersOf(stack) = g[n]
  BY <1>1, LayersUnfold
<1>3. DOMAIN BottomUp = 1 .. n /\ BottomUp \in [1 .. n -> Seq(LayerKinds)]
  <2>1. \A i \in 1 .. n : Reverse(stack)[i] = stack[(n - i) + 1] /\ (n - i) + 1 \in 1 .. n
    BY <1>1 DEF Reverse
  <2>2. \A i \in 1 .. n : Kinds(Reverse(stack)[i]) \in Seq(LayerKinds)
    BY <2>1, KindsOfElement DEF StackKept
  <2> QED BY <1>1, <2>2 DEF BottomUp
<1>4. Len(BottomUp) = n
  BY <1>1, <1>3, FunctionIsSeq
<1>5. PICK f : Flat(f, BottomUp, n) /\ FlattenSeq(BottomUp) = f[n]
  BY <1>1, <1>4, FlattenUnfold
<1>6. ASSUME NEW i \in 1 .. n
      PROVE  /\ BottomUp[i] \in Seq(LayerKinds) /\ WholeChannels(BottomUp[i])
             /\ Len(BottomUp[i]) \in Nat \ {0}
             /\ Len(BottomUp[i]) = g[(n - i) + 1] - g[n - i]
             /\ g[(n - i) + 1] \in Nat /\ g[n - i] \in Nat
  <2>1. BottomUp[i] = Kinds(stack[(n - i) + 1]) /\ (n - i) + 1 \in 1 .. n
    BY <1>1 DEF BottomUp, Reverse
  <2>2. g[(n - i) + 1] = g[n - i] + Len(Kinds(stack[(n - i) + 1]))
    <3>1. ((n - i) + 1) - 1 = n - i
      BY <1>1
    <3> QED BY <1>2, <2>1, <3>1, ElementSizes
  <2>3. /\ g[(n - i) + 1] \in Nat /\ g[n - i] \in Nat
    BY <1>1, <1>2, <2>1, ElementSizes
  <2>4. Checked(stack[(n - i) + 1])
    BY <2>1 DEF StackKept
  <2> QED BY <2>1, <2>2, <2>3, <2>4, KindsOfElement, WholeElement DEF StackKept
<1> DEFINE S == {k \in Nat : k \in 1 .. n => LowestLayers(f[k], k, g[n] - g[n - k])}
<1>7. 0 \in S
  OBVIOUS
<1>8. ASSUME NEW k \in Nat, k \in S PROVE k + 1 \in S
  <2>1. SUFFICES ASSUME k + 1 \in 1 .. n
                 PROVE  LowestLayers(f[k + 1], k + 1, g[n] - g[n - (k + 1)])
    OBVIOUS
  <2>2. CASE k = 0
    <3>1. f[1] = BottomUp[1] /\ (n - 1) + 1 = n
      BY <1>1, <1>5 DEF Flat
    <3>2. LowestLayers(BottomUp[1], 1, Len(BottomUp[1]))
      BY <1>1, <1>6 DEF LowestLayers
    <3>3. Len(BottomUp[1]) = g[n] - g[n - 1]
      BY <1>1, <1>6, <3>1
    <3> HIDE DEF n
    <3> QED BY <2>2, <3>1, <3>2, <3>3
  <2>3. CASE k # 0
    <3>1. LowestLayers(f[k], k, g[n] - g[n - k]) /\ k \in 1 .. n
      BY <1>8, <2>1, <2>3
    <3>2. f[k + 1] = f[k] \o BottomUp[k + 1]
      <4>1. \A i \in 1 .. n : f[i] = IF i = 1 THEN BottomUp[i] ELSE f[i - 1] \o BottomUp[i]
        BY <1>5 DEF Flat
      <4>2. k + 1 \in 1 .. n /\ k + 1 # 1 /\ (k + 1) - 1 = k
        BY <2>1, <2>3
      <4> HIDE DEF n
      <4> QED BY <4>1, <4>2
    <3>3. /\ (n - (k + 1)) + 1 = n - k /\ n - k \in 0 .. n /\ n \in 0 .. n
          /\ n - (k + 1) \in 0 .. n
      BY <1>1, <2>1
    <3> DEFINE a == g[n]  b == g[n - k]  d == g[n - (k + 1)]
    <3>4. a \in Nat /\ b \in Nat /\ d \in Nat /\ Len(BottomUp[k + 1]) = b - d
      BY <1>2, <1>6, <2>1, <3>3, ElementSizes
    <3>5. a - b \in Nat /\ (a - b) + Len(BottomUp[k + 1]) = a - d
      <4>1. a - b >= 1
        BY <3>1 DEF LowestLayers
      <4> HIDE DEF a, b, d
      <4> QED BY <3>4, <4>1
    <3>6. LowestLayers(f[k] \o BottomUp[k + 1], k + 1, (a - b) + Len(BottomUp[k + 1]))
      <4> HIDE DEF n
      <4> QED BY <1>6, <2>1, <3>1, <3>5, LowestStep
    <3> QED BY <3>2, <3>5, <3>6
  <2> QED BY <2>2, <2>3
<1> HIDE DEF S
<1>9. n \in S
  BY <1>1, <1>7, <1>8, Induction
<1>10. LowestLayers(f[n], n, g[n] - g[n - n])
  BY <1>1, <1>9 DEF S
<1>11. g[n - n] = 0 /\ g[n] \in Nat
  BY <1>1, <1>2, ElementSizes DEF Summed
<1> QED BY <1>2, <1>5, <1>10, <1>11

-----------------------------------------------------------------------------
(* The numbers of the cells: the grids of the layers, one after the other. *)

LEMMA ProductMonotonic ==
  ASSUME NEW a \in Int, NEW b \in Int, NEW w \in Nat, a <= b
  PROVE  a * w <= b * w /\ a * w \in Int /\ b * w \in Int
  BY Z3

LEMMA ProductStep ==
  ASSUME NEW a \in Int, NEW w \in Int
  PROVE  (a + 1) * w = a * w + w /\ (a - 1) * w = a * w - w /\ a * w \in Int
  BY Z3

LEMMA GridNumber ==
  ASSUME NEW w \in Nat \ {0}, NEW h \in Nat \ {0}, NEW r \in 0 .. h - 1, NEW c \in 0 .. w - 1
  PROVE  r * w + c \in 0 .. h * w - 1 /\ h * w \in Nat \ {0}
<1>1. 0 * w <= r * w /\ r * w <= (h - 1) * w /\ 0 * w = 0
  BY ProductMonotonic
<1>2. (h - 1) * w = h * w - w /\ r * w \in Int /\ h * w \in Int
  BY ProductStep
<1> QED BY <1>1, <1>2

LEMMA GridInjective ==
  ASSUME NEW w \in Nat \ {0}, NEW r \in Int, NEW r2 \in Int, NEW c \in 0 .. w - 1, NEW c2 \in 0 .. w - 1,
         r * w + c = r2 * w + c2
  PROVE  r = r2 /\ c = c2
<1>1. ASSUME NEW x \in Int, NEW y \in Int, x < y PROVE x * w + w <= y * w
  <2>1. (x + 1) * w <= y * w
    BY <1>1, ProductMonotonic
  <2> QED BY <2>1, ProductStep
<1>2. r * w \in Int /\ r2 * w \in Int
  BY ProductStep
<1>3. ~ (r < r2) /\ ~ (r2 < r)
  BY <1>1, <1>2
<1> QED BY <1>2, <1>3

LEMMA Sizes ==
  ASSUME declared \in Stacks
  PROVE  /\ declared.nrows \in Nat \ {0} /\ declared.ncolumns \in Nat \ {0}
         /\ declared.rowborder \in Nat /\ declared.columnborder \in Nat
         /\ SpreaderRows \in Nat \ {0} /\ SpreaderColumns \in Nat \ {0}
         /\ LayerArea \in Nat \ {0} /\ SpreaderCells \in Nat
         /\ LayerArea >= declared.ncolumns
         /\ declared.nrows # 1 => LayerArea >= 2 * declared.ncolumns
<1>1. /\ declared.nrows \in Nat \ {0} /\ declared.ncolumns \in Nat \ {0}
      /\ declared.rowborder \in Nat /\ declared.columnborder \in Nat
  BY StackAssumption DEF Declaration
<1>2. SpreaderRows \in Nat \ {0} /\ SpreaderColumns \in Nat \ {0}
  BY <1>1 DEF SpreaderRows, SpreaderColumns
<1>3. ASSUME NEW h \in Nat \ {0}, NEW w \in Nat \ {0}
      PROVE  h * w \in Nat \ {0} /\ h * w >= w /\ (h # 1 => h * w >= 2 * w)
  <2>1. 1 * w <= h * w /\ (h # 1 => 2 * w <= h * w) /\ 1 * w = w /\ h * w \in Int
    BY ProductMonotonic
  <2> QED BY <2>1
<1>4. LayerArea \in Nat \ {0} /\ SpreaderCells \in Nat
  BY <1>1, <1>2, <1>3 DEF LayerArea, SpreaderCells
<1> QED BY <1>1, <1>2, <1>3, <1>4 DEF LayerArea

(* The cells of the stack and, if there is one, of the spreader above it.  *)
RowsAt(l) == IF l = NLayers THEN SpreaderRows ELSE declared.nrows

ColumnsAt(l) == IF l = NLayers THEN SpreaderColumns ELSE declared.ncolumns

Position(p) ==
  /\ p = [l |-> p.l, r |-> p.r, c |-> p.c]
  /\ p.l \in 0 .. NLayers /\ (p.l = NLayers => Pluggable)
  /\ p.r \in 0 .. RowsAt(p.l) - 1 /\ p.c \in 0 .. ColumnsAt(p.l) - 1

CellOf(p) == IF p.l = NLayers THEN SpreaderCell(p.r, p.c) ELSE Cell(p.l, p.r, p.c)

(* What the parser has computed of the stack it accepted.                  *)
Sized ==
  /\ declared \in Stacks /\ NLayers \in Nat \ {0}
  /\ NCells = NLayers * LayerArea + SpreaderCells

LEMMA CellBounds ==
  ASSUME Sized, NEW p, Position(p)
  PROVE  /\ CellOf(p) = p.l * LayerArea + (p.r * ColumnsAt(p.l) + p.c)
         /\ p.r * ColumnsAt(p.l) + p.c \in Nat /\ p.l * LayerArea \in Nat
         /\ p.l # NLayers => /\ p.r * ColumnsAt(p.l) + p.c < LayerArea
                             /\ CellOf(p) < NLayers * LayerArea
         /\ p.l = NLayers => p.r * ColumnsAt(p.l) + p.c < SpreaderCells
         /\ CellOf(p) \in 0 .. NCells - 1
<1>1. /\ RowsAt(p.l) \in Nat \ {0} /\ ColumnsAt(p.l) \in Nat \ {0}
      /\ p.l # NLayers => RowsAt(p.l) * ColumnsAt(p.l) = LayerArea
      /\ p.l = NLayers => RowsAt(p.l) * ColumnsAt(p.l) = SpreaderCells
  BY Sizes DEF Sized, Position, RowsAt, ColumnsAt, LayerArea, SpreaderCells
<1>2. p.r * ColumnsAt(p.l) + p.c \in 0 .. RowsAt(p.l) * ColumnsAt(p.l) - 1
  BY <1>1, GridNumber DEF Position
<1>3. p.l \in Nat /\ p.l <= NLayers /\ NLayers \in Nat /\ LayerArea \in Nat \ {0} /\ SpreaderCells \in Nat
  BY Sizes DEF Sized, Position
<1>4. /\ 0 * LayerArea <= p.l * LayerArea /\ p.l * LayerArea <= NLayers * LayerArea
      /\ p.l # NLayers => (p.l + 1) * LayerArea <= NLayers * LayerArea
      /\ p.l * LayerArea \in Int /\ NLayers * LayerArea \in Int /\ 0 * LayerArea = 0
      /\ (p.l + 1) * LayerArea = p.l * LayerArea + LayerArea
  BY <1>3, ProductMonotonic, ProductStep
<1>5. /\ p.r * ColumnsAt(p.l) \in Int /\ p.c \in Int /\ p.l * LayerArea \in Int
  BY <1>1, <1>3, ProductStep DEF Position
<1>6. CellOf(p) = p.l * LayerArea + (p.r * ColumnsAt(p.l) + p.c)
  <2>1. CellOf(p) = p.l * LayerArea + p.r * ColumnsAt(p.l) + p.c
    BY DEF CellOf, Cell, SpreaderCell, ColumnsAt
  <2> QED BY <1>5, <2>1
<1> DEFINE o == p.r * ColumnsAt(p.l) + p.c
           a == p.l * LayerArea
           b == NLayers * LayerArea
<1>7. /\ o \in Nat /\ a \in Nat /\ b \in Nat
      /\ p.l # NLayers => o < LayerArea /\ a + LayerArea <= b
      /\ p.l = NLayers => o < SpreaderCells /\ a = b
  BY <1>1, <1>2, <1>3, <1>4
<1>8. CellOf(p) = a + o /\ NCells = b + SpreaderCells
  BY <1>6 DEF Sized
<1> HIDE DEF o, a, b
<1>9. (p.l # NLayers => a + o < b) /\ a + o \in 0 .. NCells - 1
  BY <1>3, <1>7, <1>8
<1> QED BY <1>7, <1>8, <1>9 DEF o, a, b

LEMMA CellInjective ==
  ASSUME Sized, NEW p, NEW q, Position(p), Position(q), CellOf(p) = CellOf(q)
  PROVE  p = q
<1>1. ASSUME NEW x, NEW y, Position(x), Position(y), CellOf(x) = CellOf(y)
      PROVE  ~ (x.l < y.l)
  <2>1. /\ x.l \in Nat /\ y.l \in Nat /\ LayerArea \in Nat \ {0}
        /\ x.l < y.l => x.l # NLayers
    BY <1>1, Sizes DEF Position, Sized
  <2>2. /\ x.l < y.l => (x.l + 1) * LayerArea <= y.l * LayerArea
        /\ (x.l + 1) * LayerArea = x.l * LayerArea + LayerArea
    BY <2>1, ProductMonotonic, ProductStep
  <2> DEFINE ox == x.r * ColumnsAt(x.l) + x.c  ax == x.l * LayerArea
             oy == y.r * ColumnsAt(y.l) + y.c  ay == y.l * LayerArea
  <2>3. /\ ax + ox = ay + oy /\ ox \in Nat /\ oy \in Nat /\ ax \in Nat /\ ay \in Nat
        /\ x.l < y.l => ox < LayerArea
    BY <1>1, <2>1, CellBounds
  <2>4. x.l < y.l => ax + LayerArea <= ay
    BY <2>2
  <2> HIDE DEF ox, oy, ax, ay
  <2> QED BY <2>1, <2>3, <2>4
<1>2. p.l = q.l
  BY <1>1 DEF Position, Sized
<1>3. p.r * ColumnsAt(p.l) + p.c = q.r * ColumnsAt(p.l) + q.c
  <2> DEFINE a == p.l * LayerArea  o == p.r * ColumnsAt(p.l) + p.c  u == q.r * ColumnsAt(p.l) + q.c
  <2>1. a + o = a + u /\ a \in Nat /\ o \in Nat /\ u \in Nat
    BY <1>2, CellBounds
  <2> HIDE DEF a, o, u
  <2>2. o = u
    BY <2>1
  <2> QED BY <2>2 DEF o, u
<1>4. ColumnsAt(p.l) \in Nat \ {0} /\ p.r \in Int /\ q.r \in Int
  BY <1>2, Sizes DEF Sized, ColumnsAt, RowsAt, Position
<1>5. p.c \in 0 .. ColumnsAt(p.l) - 1 /\ q.c \in 0 .. ColumnsAt(p.l) - 1
  BY <1>2 DEF Position
<1>6. p.r = q.r /\ p.c = q.c
  BY <1>3, <1>4, <1>5, GridInjective
<1> QED BY <1>2, <1>6 DEF Position

LEMMA StartIsFirst ==
  ASSUME Sized
  PROVE  Position(Start) /\ CellOf(Start) = 0
<1>1. NLayers \in Nat \ {0} /\ declared.nrows \in Nat \ {0} /\ declared.ncolumns \in Nat \ {0}
  BY Sizes DEF Sized
<1>2. Position(Start)
  BY <1>1 DEF Position, Start, RowsAt, ColumnsAt
<1>3. 0 * LayerArea = 0 /\ 0 * ColumnsAt(0) = 0
  <2>1. LayerArea \in Int /\ ColumnsAt(0) \in Int
    BY <1>1, Sizes DEF ColumnsAt, Sized
  <2> QED BY <2>1
<1> QED BY <1>2, <1>3, CellBounds DEF Start

(* The loops of fill_system_matrix visit the cells in the order of their   *)
(* numbers.                                                                *)
LEMMA NextIsNext ==
  ASSUME Sized, Position(at)
  PROVE  IF LoopsEnd(NextCell) THEN NCells = CellOf(at) + 1
         ELSE Position(NextCell) /\ CellOf(NextCell) = CellOf(at) + 1
<1> DEFINE H == RowsAt(at.l)  W == ColumnsAt(at.l)  n == NextCell
<1>1. /\ H \in Nat \ {0} /\ W \in Nat \ {0} /\ LayerArea \in Nat \ {0} /\ SpreaderCells \in Nat
      /\ at.l # NLayers => H * W = LayerArea
      /\ at.l = NLayers => H * W = SpreaderCells
      /\ declared.nrows \in Nat \ {0} /\ declared.ncolumns \in Nat \ {0}
      /\ SpreaderRows \in Nat \ {0} /\ SpreaderColumns \in Nat \ {0}
  BY Sizes DEF Sized, Position, RowsAt, ColumnsAt, LayerArea, SpreaderCells
<1>2. LoopRows = H /\ LoopColumns = W
  BY DEF LoopRows, LoopColumns, InSpreader, RowsAt, ColumnsAt
<1>3. /\ at = [l |-> at.l, r |-> at.r, c |-> at.c] /\ NLayers \in Nat \ {0}
      /\ at.l \in 0 .. NLayers /\ (at.l = NLayers => Pluggable)
      /\ at.r \in 0 .. H - 1 /\ at.c \in 0 .. W - 1
  BY DEF Position, Sized
<1>4. CellOf(at) = at.l * LayerArea + (at.r * W + at.c)
  BY CellBounds
<1>5. /\ at.r * W \in Int /\ (at.r + 1) * W = at.r * W + W /\ (H - 1) * W = H * W - W
      /\ at.l * LayerArea \in Int /\ (at.l + 1) * LayerArea = at.l * LayerArea + LayerArea
      /\ H * W \in Int /\ NLayers * LayerArea \in Int
  BY <1>1, <1>3, ProductStep
<1>6. CASE at.c + 1 < W
  <2>1. n = [l |-> at.l, r |-> at.r, c |-> at.c + 1]
    BY <1>2, <1>3, <1>6 DEF NextCell
  <2>0. n.l = at.l /\ n.r = at.r /\ n.c = at.c + 1 /\ n = [l |-> n.l, r |-> n.r, c |-> n.c]
    BY <2>1
  <2> HIDE DEF n
  <2>2. Position(n) /\ ~ LoopsEnd(n)
    <3>1. RowsAt(n.l) = H /\ ColumnsAt(n.l) = W
      BY <2>0
    <3>2. at.c + 1 \in 0 .. W - 1
      BY <1>1, <1>3, <1>6
    <3> HIDE DEF H, W
    <3> QED BY <1>3, <2>0, <3>1, <3>2 DEF Position, LoopsEnd
  <2>3. CellOf(n) = at.l * LayerArea + (at.r * W + (at.c + 1))
    BY <2>0, <2>2, CellBounds
  <2> HIDE DEF W
  <2>4. CellOf(n) = CellOf(at) + 1
    BY <1>3, <1>4, <1>5, <2>3
  <2> QED BY <2>2, <2>4 DEF n
<1>7. CASE ~ (at.c + 1 < W) /\ at.r + 1 < H
  <2>1. n = [l |-> at.l, r |-> at.r + 1, c |-> 0]
    BY <1>2, <1>3, <1>7 DEF NextCell
  <2>2. Position(n) /\ ~ LoopsEnd(n)
    BY <1>1, <1>3, <1>7, <2>1 DEF Position, LoopsEnd
  <2>3. CellOf(n) = at.l * LayerArea + ((at.r + 1) * W + 0)
    BY <2>1, <2>2, CellBounds
  <2>4. at.c = W - 1
    BY <1>1, <1>3, <1>7
  <2>5. CellOf(n) = CellOf(at) + 1
    <3> DEFINE a == at.l * LayerArea  b == at.r * W
    <3>1. /\ CellOf(n) = a + ((b + W) + 0) /\ CellOf(at) = a + (b + (W - 1))
          /\ a \in Int /\ b \in Int /\ W \in Int
      BY <1>1, <1>4, <1>5, <2>3, <2>4
    <3> HIDE DEF n, W, a, b
    <3> QED BY <3>1
  <2> QED BY <2>2, <2>5
<1>8. CASE ~ (at.c + 1 < W) /\ ~ (at.r + 1 < H)
  <2>1. n = [l |-> at.l + 1, r |-> 0, c |-> 0]
    BY <1>2, <1>3, <1>8 DEF NextCell
  <2>2. at.c = W - 1 /\ at.r = H - 1
    BY <1>1, <1>3, <1>8
  <2>3. CellOf(at) + 1 = at.l * LayerArea + H * W
    BY <1>1, <1>4, <1>5, <2>2
  <2>4. CASE LoopsEnd(n)
    <3>1. IF Pluggable THEN at.l = NLayers ELSE at.l + 1 = NLayers
      BY <1>3, <2>1, <2>4 DEF LoopsEnd
    <3>2. CASE Pluggable
      <4>1. at.l = NLayers
        BY <3>1, <3>2
      <4>2. H * W = SpreaderCells
        BY <1>1, <4>1
      <4>3. NCells = at.l * LayerArea + H * W
        BY <4>1, <4>2 DEF Sized
      <4> QED BY <2>3, <2>4, <4>3
    <3>3. CASE ~ Pluggable
      <4>1. SpreaderCells = 0 /\ at.l # NLayers
        BY <1>3, <3>1, <3>3 DEF SpreaderCells
      <4>2. CellOf(at) + 1 = at.l * LayerArea + LayerArea
        BY <1>1, <2>3, <4>1
      <4>3. at.l * LayerArea + LayerArea = NLayers * LayerArea
        <5>1. NLayers = at.l + 1
          BY <3>1, <3>3
        <5>2. NLayers * LayerArea = (at.l + 1) * LayerArea
          BY <5>1
        <5> QED BY <1>5, <5>2
      <4> QED BY <1>5, <2>4, <4>1, <4>2, <4>3 DEF Sized
    <3> QED BY <2>4, <3>2, <3>3
  <2>5. CASE ~ LoopsEnd(n)
    <3>1. at.l # NLayers
      BY <1>3, <2>1, <2>5 DEF LoopsEnd
    <3>2. Position(n)
      BY <1>1, <1>3, <2>1, <2>5, <3>1 DEF Position, LoopsEnd, RowsAt, ColumnsAt
    <3>3. CellOf(n) = (at.l + 1) * LayerArea + (0 * ColumnsAt(at.l + 1) + 0)
      BY <2>1, <3>2, CellBounds
    <3>4. 0 * ColumnsAt(at.l + 1) = 0
      BY <1>1 DEF ColumnsAt
    <3>5. CellOf(n) = CellOf(at) + 1
      <4> HIDE DEF n
      <4> QED BY <1>1, <1>5, <2>3, <3>1, <3>3, <3>4
    <3> QED BY <2>5, <3>2, <3>5
  <2> QED BY <2>4, <2>5
<1> QED BY <1>6, <1>7, <1>8

-----------------------------------------------------------------------------
(* A column that is put together entry by entry: it lists the entries of a *)
(* set in the order of their rows.                                         *)

Opt(condition, entry) == IF condition THEN {entry} ELSE {}

Lists(column, entries) ==
  /\ column \in Seq(entries)
  /\ \A e \in entries : \E k \in 1 .. Len(column) : column[k] = e
  /\ \A k, m \in 1 .. Len(column) : k < m => column[k].row < column[m].row

LEMMA ListsFirst ==
  ASSUME NEW condition, NEW e
  PROVE  Lists(When(condition, e), Opt(condition, e))
<1>1. CASE condition
  BY <1>1 DEF Lists, When, Opt
<1>2. CASE ~ condition
  BY <1>2 DEF Lists, When, Opt
<1> QED BY <1>1, <1>2

LEMMA ListsNext ==
  ASSUME NEW s, NEW E, Lists(s, E), NEW condition, NEW e,
         condition => \A d \in E : d.row < e.row
  PROVE  Lists(s \o When(condition, e), E \cup Opt(condition, e))
<1>1. CASE condition
  <2> DEFINE t == s \o <<e>>  F == E \cup {e}
  <2>1. s \in Seq(F) /\ <<e>> \in Seq(F) /\ Len(s) \in Nat /\ Len(<<e>>) = 1 /\ <<e>>[1] = e
    BY SeqMonotonic DEF Lists
  <2>2. /\ t \in Seq(F) /\ Len(t) = Len(s) + 1
        /\ \A k \in 1 .. Len(s) : t[k] = s[k]
        /\ t[Len(s) + 1] = e
    BY <2>1, ConcatProperties
  <2>3. \A k \in 1 .. Len(s) : s[k] \in E
    BY DEF Lists
  <2> HIDE DEF t
  <2>4. ASSUME NEW d \in F PROVE \E k \in 1 .. Len(t) : t[k] = d
    <3>1. CASE d = e
      <4>1. Len(s) + 1 \in 1 .. Len(t)
        BY <2>1, <2>2
      <4> QED BY <2>2, <3>1, <4>1
    <3>2. CASE d \in E
      <4>1. PICK k \in 1 .. Len(s) : s[k] = d
        BY <3>2 DEF Lists
      <4>2. k \in 1 .. Len(t)
        BY <2>1, <2>2, <4>1
      <4> QED BY <2>2, <4>1, <4>2
    <3> QED BY <3>1, <3>2
  <2>5. ASSUME NEW k \in 1 .. Len(t), NEW m \in 1 .. Len(t), k < m
        PROVE  t[k].row < t[m].row
    <3>1. k \in 1 .. Len(s) /\ t[k] = s[k] /\ s[k] \in E
      BY <2>1, <2>2, <2>3, <2>5
    <3>2. CASE m = Len(s) + 1
      BY <1>1, <2>2, <3>1, <3>2
    <3>3. CASE m # Len(s) + 1
      <4>1. m \in 1 .. Len(s) /\ t[m] = s[m]
        BY <2>1, <2>2, <3>3
      <4> QED BY <2>5, <3>1, <4>1 DEF Lists
    <3> QED BY <3>2, <3>3
  <2>6. Lists(t, F)
    BY <2>2, <2>4, <2>5 DEF Lists
  <2> QED BY <1>1, <2>6 DEF When, Opt, t
<1>2. CASE ~ condition
  <2>1. s \o <<>> = s
    BY ConcatEmptySeq DEF Lists
  <2> QED BY <1>2, <2>1 DEF When, Opt
<1> QED BY <1>1, <1>2

(* The entries of a column, as a set, by the kind of its cell.             *)

AtCell(l, r, c) == [l |-> l, r |-> r, c |-> c]

InStack(l, r, c) ==
  /\ l \in 0 .. NLayers - 1 /\ r \in 0 .. declared.nrows - 1
  /\ c \in 0 .. declared.ncolumns - 1

Coolants == {"CHANNEL_2RM"} \cup Pins

(* A whole channel with its walls on the layers from b up.                 *)
ChannelAt(b) ==
  /\ b \in Nat /\ b + 3 <= NLayers - 1
  /\ Type(b).kind = "BOTTOM_WALL" /\ Type(b + 1).kind \in VirtualWalls
  /\ Type(b + 2).kind \in Coolants /\ Type(b + 3).kind = "TOP_WALL"

(* The types that thermal_grid_fill gives the layers.                      *)
Typed ==
  /\ \A l \in 0 .. NLayers - 1 :
       /\ \/ Type(l).kind \in Solids
          \/ declared.channel = "MC_4RM" /\ Type(l).kind = "CHANNEL_4RM"
          \/ is2RM(declared.channel) /\ \E k \in 0 .. 3 : ChannelAt(l - k)
       /\ Type(l).sink \in {"NONE", "CONNECTED_TO_PCB", "CONNECTED_TO_AMBIENT",
                            "CONNECTED_TO_SPREADER"}
       /\ ToSpreader(l) <=> l = NLayers - 1 /\ Pluggable
  /\ Type(0).kind \in Solids /\ Type(NLayers - 1).kind \in Solids

LEMMA WhichChannel ==
  ASSUME Typed, NEW l \in 0 .. NLayers - 1, Type(l).kind \notin Solids \cup {"CHANNEL_4RM"}
  PROVE  /\ Type(l).kind = "BOTTOM_WALL" => ChannelAt(l)
         /\ Type(l).kind \in VirtualWalls => ChannelAt(l - 1)
         /\ Type(l).kind \in Coolants => ChannelAt(l - 2)
         /\ Type(l).kind = "TOP_WALL" => ChannelAt(l - 3)
         /\ Type(l).kind \in {"BOTTOM_WALL", "TOP_WALL"} \cup VirtualWalls \cup Coolants
<1>1. PICK k \in 0 .. 3 : ChannelAt(l - k)
  BY DEF Typed
<1>2. CASE k = 0
  <2>1. Type(l).kind = "BOTTOM_WALL" /\ ChannelAt(l)
    BY <1>1, <1>2 DEF ChannelAt
  <2> QED BY <2>1 DEF VirtualWalls, Coolants, Pins
<1>3. CASE k = 1
  <2>1. Type(l).kind \in VirtualWalls /\ ChannelAt(l - 1)
    BY <1>1, <1>3 DEF ChannelAt
  <2> QED BY <2>1 DEF VirtualWalls, Coolants, Pins
<1>4. CASE k = 2
  <2>1. Type(l).kind \in Coolants /\ ChannelAt(l - 2)
    BY <1>1, <1>4 DEF ChannelAt
  <2> QED BY <2>1 DEF VirtualWalls, Coolants, Pins
<1>5. CASE k = 3
  <2>1. Type(l).kind = "TOP_WALL" /\ ChannelAt(l - 3)
    BY <1>1, <1>5 DEF ChannelAt
  <2> QED BY <2>1 DEF VirtualWalls, Coolants, Pins
<1> QED BY <1>2, <1>3, <1>4, <1>5

LEMMA StackCell ==
  ASSUME Sized, NEW l, NEW r, NEW c, InStack(l, r, c)
  PROVE  /\ Position(AtCell(l, r, c)) /\ CellOf(AtCell(l, r, c)) = Cell(l, r, c)
         /\ Cell(l, r, c) \in 0 .. NLayers * LayerArea - 1
<1>1. /\ l # NLayers /\ l \in 0 .. NLayers
  BY DEF InStack, Sized
<1>2. Position(AtCell(l, r, c)) /\ CellOf(AtCell(l, r, c)) = Cell(l, r, c)
  BY <1>1 DEF Position, CellOf, AtCell, InStack, RowsAt, ColumnsAt
<1>3. AtCell(l, r, c).l = l
  BY DEF AtCell
<1>4. NLayers * LayerArea \in Int
  BY Sizes DEF Sized
<1> QED BY <1>1, <1>2, <1>3, <1>4, CellBounds

LEMMA CellSteps ==
  ASSUME Sized, NEW l \in Int, NEW r \in Int, NEW c \in Int
  PROVE  /\ Cell(l, r, c) \in Int
         /\ Cell(l - 1, r, c) = Cell(l, r, c) - LayerArea
         /\ Cell(l + 1, r, c) = Cell(l, r, c) + LayerArea
         /\ Cell(l - 2, r, c) = Cell(l, r, c) - 2 * LayerArea
         /\ Cell(l + 2, r, c) = Cell(l, r, c) + 2 * LayerArea
         /\ Cell(l, r - 1, c) = Cell(l, r, c) - declared.ncolumns
         /\ Cell(l, r + 1, c) = Cell(l, r, c) + declared.ncolumns
         /\ Cell(l, r, c - 1) = Cell(l, r, c) - 1 /\ Cell(l, r, c + 1) = Cell(l, r, c) + 1
<1> DEFINE A == LayerArea  w == declared.ncolumns
<1>1. A \in Int /\ w \in Int
  BY Sizes DEF Sized
<1> HIDE DEF A, w
<1>2. /\ (l + 1) * A = l * A + A /\ (l - 1) * A = l * A - A /\ l * A \in Int
      /\ (r + 1) * w = r * w + w /\ (r - 1) * w = r * w - w /\ r * w \in Int
  BY <1>1, ProductStep
<1>3. (l + 2) * A = l * A + 2 * A /\ (l - 2) * A = l * A - 2 * A
  BY <1>1, Z3
<1> DEFINE la == l * A  rw == r * w
<1>4. la \in Int /\ rw \in Int
  BY <1>2
<1>5. /\ Cell(l, r, c) = la + rw + c
      /\ Cell(l - 1, r, c) = (la - A) + rw + c
      /\ Cell(l + 1, r, c) = (la + A) + rw + c
      /\ Cell(l - 2, r, c) = (la - 2 * A) + rw + c
      /\ Cell(l + 2, r, c) = (la + 2 * A) + rw + c
      /\ Cell(l, r - 1, c) = la + (rw - w) + c
      /\ Cell(l, r + 1, c) = la + (rw + w) + c
      /\ Cell(l, r, c - 1) = la + rw + (c - 1)
      /\ Cell(l, r, c + 1) = la + rw + (c + 1)
  BY <1>2, <1>3 DEF Cell, A, w
<1> HIDE DEF la, rw
<1>6. /\ Cell(l, r, c) \in Int
      /\ Cell(l - 1, r, c) = Cell(l, r, c) - A
      /\ Cell(l + 1, r, c) = Cell(l, r, c) + A
      /\ Cell(l - 2, r, c) = Cell(l, r, c) - 2 * A
      /\ Cell(l + 2, r, c) = Cell(l, r, c) + 2 * A
      /\ Cell(l, r - 1, c) = Cell(l, r, c) - w
      /\ Cell(l, r + 1, c) = Cell(l, r, c) + w
      /\ Cell(l, r, c - 1) = Cell(l, r, c) - 1 /\ Cell(l, r, c + 1) = Cell(l, r, c) + 1
  BY <1>1, <1>4, <1>5
<1> QED BY <1>6 DEF A, w

SolidEntries(l, r, c) ==
  Opt(~ first_layer(l), Conducts(Cell(l - 1, r, c),
           Joint(get_conductance_bottom(l, r, c), get_conductance_top(l - 1, r, c))))
    \cup Opt(~ first_row(r), Conducts(Cell(l, r - 1, c),
                  PARALLEL(get_conductance_south(l, r, c), get_conductance_north(l, r - 1, c))))
    \cup Opt(c # 0, Conducts(Cell(l, r, c - 1),
                  PARALLEL(get_conductance_west(l, r, c), get_conductance_east(l, r, c - 1))))
    \cup Opt(TRUE, Own(Cell(l, r, c), get_capacity(l, r, c), SinkTerm(l, r, c)))
    \cup Opt(c # declared.ncolumns - 1, Conducts(Cell(l, r, c + 1),
                  PARALLEL(get_conductance_east(l, r, c), get_conductance_west(l, r, c + 1))))
    \cup Opt(~ last_row(r), Conducts(Cell(l, r + 1, c),
                  PARALLEL(get_conductance_north(l, r, c), get_conductance_south(l, r + 1, c))))
    \cup Opt(~ last_layer(l), Conducts(Cell(l + 1, r, c),
                  Joint(get_conductance_top(l, r, c), get_conductance_bottom(l + 1, r, c))))
    \cup Opt(ToSpreader(l), Conducts(SpreaderCellOver(r, c),
                  PARALLEL(get_spreader_conductance_top_bottom, get_conductance_top(l, r, c))))

Liquid4rmEntries(l, r, c) ==
  Opt(~ first_layer(l), Conducts(Cell(l - 1, r, c),
           PARALLEL(get_conductance_bottom(l, r, c), get_conductance_top(l - 1, r, c))))
    \cup Opt(~ first_row(r), Carries(Cell(l, r - 1, c), get_conductance_north(l, r, c)))
    \cup Opt(c # 0, Conducts(Cell(l, r, c - 1),
                  PARALLEL(get_conductance_west(l, r, c), get_conductance_east(l, r, c - 1))))
    \cup Opt(TRUE, Own(Cell(l, r, c), get_capacity(l, r, c), FlowEnds(l, r, c)))
    \cup Opt(c # declared.ncolumns - 1, Conducts(Cell(l, r, c + 1),
                  PARALLEL(get_conductance_east(l, r, c), get_conductance_west(l, r, c + 1))))
    \cup Opt(~ last_row(r), Carries(Cell(l, r + 1, c), get_conductance_south(l, r, c)))
    \cup Opt(~ last_layer(l), Conducts(Cell(l + 1, r, c),
                  PARALLEL(get_conductance_top(l, r, c), get_conductance_bottom(l + 1, r, c))))

Liquid2rmEntries(l, r, c) ==
  Opt(~ first_layer(l), Conducts(Cell(l - 2, r, c), get_conductance_bottom(l, r, c)))
    \cup Opt(~ first_row(r), Carries(Cell(l, r - 1, c), get_conductance_north(l, r, c)))
    \cup Opt(TRUE, Own(Cell(l, r, c), get_capacity(l, r, c), FlowEnds(l, r, c)))
    \cup Opt(~ last_row(r), Carries(Cell(l, r + 1, c), get_conductance_south(l, r, c)))
    \cup Opt(~ last_layer(l), Conducts(Cell(l + 1, r, c), get_conductance_top(l, r, c)))

BottomWallEntries(l, r, c) ==
  Opt(~ first_layer(l), Conducts(Cell(l - 1, r, c), get_conductance_top(l - 1, r, c)))
    \cup Opt(TRUE, Own(Cell(l, r, c), get_capacity(l, r, c), Nothing))
    \cup Opt(~ last_layer(l), Conducts(Cell(l + 1, r, c), get_conductance_top(l + 1, r, c)))
    \cup Opt(~ last_layer(l), Conducts(Cell(l + 2, r, c),
                  get_conductance_bottom(l + 2, r, c)))

TopWallEntries(l, r, c) ==
  Opt(~ first_layer(l), Conducts(Cell(l - 2, r, c), get_conductance_top(l - 2, r, c)))
    \cup Opt(~ first_layer(l), Conducts(Cell(l - 1, r, c), get_conductance_top(l - 1, r, c)))
    \cup Opt(TRUE, Own(Cell(l, r, c), get_capacity(l, r, c), Nothing))
    \cup Opt(~ last_layer(l), Conducts(Cell(l + 1, r, c),
                  get_conductance_bottom(l + 1, r, c)))

VirtualWallEntries(l, r, c) ==
  Opt(~ first_layer(l), Conducts(Cell(l - 1, r, c), get_conductance_bottom(l, r, c)))
    \cup Opt(declared.channel = "MC_2RM" /\ ~ first_row(r), Conducts(Cell(l, r - 1, c),
                  AlongWall(l, r, c)))
    \cup Opt(TRUE, Own(Cell(l, r, c), get_capacity(l, r, c), Nothing))
    \cup Opt(declared.channel = "MC_2RM" /\ ~ last_row(r), Conducts(Cell(l, r + 1, c),
                  AlongWall(l, r, c)))
    \cup Opt(~ last_layer(l), Conducts(Cell(l + 2, r, c), get_conductance_top(l, r, c)))

NorthSouthJoint == PARALLEL(get_spreader_conductance_north_south, get_spreader_conductance_north_south)

EastWestJoint == PARALLEL(get_spreader_conductance_east_west, get_spreader_conductance_east_west)

SpreaderEntries(r, c) ==
  Opt(has_layer_underneath(r, c), Conducts(CellUnder(r, c),
           PARALLEL(get_spreader_conductance_top_bottom,
                    get_conductance_top(NLayers - 1, r - declared.rowborder,
                                        c - declared.columnborder))))
    \cup Opt(r # 0, Conducts(SpreaderCell(r - 1, c), NorthSouthJoint))
    \cup Opt(c # 0, Conducts(SpreaderCell(r, c - 1), EastWestJoint))
    \cup Opt(TRUE, Own(SpreaderCell(r, c), get_spreader_capacity, Nothing))
    \cup Opt(c # SpreaderColumns - 1, Conducts(SpreaderCell(r, c + 1), EastWestJoint))
    \cup Opt(r # SpreaderRows - 1, Conducts(SpreaderCell(r + 1, c), NorthSouthJoint))

LEMMA SolidLists ==
  ASSUME Sized, NEW l, NEW r, NEW c, InStack(l, r, c)
  PROVE  Lists(SolidColumn(l, r, c), SolidEntries(l, r, c))
<1> DEFINE n == Cell(l, r, c)  A == LayerArea  w == declared.ncolumns  S == SpreaderCellOver(r, c)
           c1 == ~ first_layer(l)
           e1 == Conducts(Cell(l - 1, r, c),
                   Joint(get_conductance_bottom(l, r, c), get_conductance_top(l - 1, r, c)))
           c2 == ~ first_row(r)
           e2 == Conducts(Cell(l, r - 1, c),
                   PARALLEL(get_conductance_south(l, r, c), get_conductance_north(l, r - 1, c)))
           c3 == c # 0
           e3 == Conducts(Cell(l, r, c - 1),
                   PARALLEL(get_conductance_west(l, r, c), get_conductance_east(l, r, c - 1)))
           c4 == TRUE
           e4 == Own(Cell(l, r, c), get_capacity(l, r, c), SinkTerm(l, r, c))
           c5 == c # declared.ncolumns - 1
           e5 == Conducts(Cell(l, r, c + 1),
                   PARALLEL(get_conductance_east(l, r, c), get_conductance_west(l, r, c + 1)))
           c6 == ~ last_row(r)
           e6 == Conducts(Cell(l, r + 1, c),
                   PARALLEL(get_conductance_north(l, r, c), get_conductance_south(l, r + 1, c)))
           c7 == ~ last_layer(l)
           e7 == Conducts(Cell(l + 1, r, c),
                   Joint(get_conductance_top(l, r, c), get_conductance_bottom(l + 1, r, c)))
           c8 == ToSpreader(l)
           e8 == Conducts(SpreaderCellOver(r, c),
                   PARALLEL(get_spreader_conductance_top_bottom, get_conductance_top(l, r, c)))
           F1 == Opt(c1, e1)
           F2 == F1 \cup Opt(c2, e2)
           F3 == F2 \cup Opt(c3, e3)
           F4 == F3 \cup Opt(c4, e4)
           F5 == F4 \cup Opt(c5, e5)
           F6 == F5 \cup Opt(c6, e6)
           F7 == F6 \cup Opt(c7, e7)
           F8 == F7 \cup Opt(c8, e8)
           s1 == When(c1, e1)
           s2 == s1 \o When(c2, e2)
           s3 == s2 \o When(c3, e3)
           s4 == s3 \o When(c4, e4)
           s5 == s4 \o When(c5, e5)
           s6 == s5 \o When(c6, e6)
           s7 == s6 \o When(c7, e7)
           s8 == s7 \o When(c8, e8)
<1>1. /\ n \in Int /\ A \in Nat \ {0} /\ w \in Nat \ {0} /\ A >= w
      /\ c2 \/ c6 => A >= 2 * w
      /\ c3 \/ c5 => w >= 2
      /\ S \in Int /\ S > n /\ (c5 => S > n + 1) /\ (c6 => S > n + w) /\ (c7 => S > n + A)
  <2>1. l \in Int /\ r \in Int /\ c \in Int
    BY DEF InStack
  <2>2. n \in Int /\ A \in Nat \ {0} /\ w \in Nat \ {0} /\ A >= w
    BY <2>1, Sizes, CellSteps DEF Sized
  <2>3. (c2 \/ c6 => A >= 2 * w) /\ (c3 \/ c5 => w >= 2)
    BY Sizes DEF Sized, InStack, first_row, last_row
  <2>4. /\ c5 => InStack(l, r, c + 1)
        /\ c6 => InStack(l, r + 1, c)
        /\ c7 => InStack(l + 1, r, c)
    BY <2>2, Sizes DEF InStack, Sized, last_row, last_layer
  <2>7. /\ c5 => Cell(l, r, c + 1) = n + 1
        /\ c6 => Cell(l, r + 1, c) = n + w
        /\ c7 => Cell(l + 1, r, c) = n + A
    BY <2>1, CellSteps
  <2> DEFINE B == NLayers * LayerArea
  <2>5. /\ n < B /\ (c5 => n + 1 < B) /\ (c6 => n + w < B) /\ (c7 => n + A < B)
        /\ B \in Int
    <3>1. B \in Int
      BY Sizes DEF Sized
    <3>2. \A x \in 0 .. B - 1 : x < B
      BY <3>1
    <3>3. n \in 0 .. B - 1
      BY StackCell
    <3>4. c5 => n + 1 \in 0 .. B - 1
      BY <2>4, <2>7, StackCell
    <3>5. c6 => n + w \in 0 .. B - 1
      BY <2>4, <2>7, StackCell
    <3>6. c7 => n + A \in 0 .. B - 1
      BY <2>4, <2>7, StackCell
    <3> HIDE DEF B, n, w, A, c5, c6, c7
    <3> QED BY <3>1, <3>2, <3>3, <3>4, <3>5, <3>6
  <2>6. S >= B /\ S \in Int
    <3> DEFINE x == r + declared.rowborder  y == c + declared.columnborder
    <3>1. x \in Nat /\ y \in Nat /\ SpreaderColumns \in Nat
      BY Sizes DEF Sized, InStack
    <3>2. 0 * SpreaderColumns <= x * SpreaderColumns /\ x * SpreaderColumns \in Int
          /\ 0 * SpreaderColumns = 0
      BY <3>1, ProductMonotonic
    <3>3. S = B + x * SpreaderColumns + y
      BY DEF SpreaderCellOver, SpreaderCell
    <3> DEFINE z == x * SpreaderColumns
    <3> HIDE DEF x, y, z, B, S
    <3> QED BY <2>5, <3>1, <3>2, <3>3 DEF z
  <2> HIDE DEF n, A, w, S, B, c5, c6, c7, c2, c3
  <2> QED BY <2>2, <2>3, <2>5, <2>6
<1>2. /\ e1.row = n - A /\ e2.row = n - w /\ e3.row = n - 1 /\ e4.row = n
      /\ e5.row = n + 1 /\ e6.row = n + w /\ e7.row = n + A /\ e8.row = S
  <2>1. l \in Int /\ r \in Int /\ c \in Int
    BY DEF InStack
  <2>2. e1.row = n - A
    BY <2>1, CellSteps DEF Conducts, Own
  <2>3. e2.row = n - w
    BY <2>1, CellSteps DEF Conducts, Own
  <2>4. e3.row = n - 1
    BY <2>1, CellSteps DEF Conducts, Own
  <2>5. e4.row = n
    BY <2>1, CellSteps DEF Conducts, Own
  <2>6. e5.row = n + 1
    BY <2>1, CellSteps DEF Conducts, Own
  <2>7. e6.row = n + w
    BY <2>1, CellSteps DEF Conducts, Own
  <2>8. e7.row = n + A
    BY <2>1, CellSteps DEF Conducts, Own
  <2>9. e8.row = S
    BY <2>1, CellSteps DEF Conducts, Own
  <2> QED BY <2>2, <2>3, <2>4, <2>5, <2>6, <2>7, <2>8, <2>9
<1>3. SolidColumn(l, r, c) = s8 /\ SolidEntries(l, r, c) = F8
  BY DEF SolidColumn, SolidEntries, When
<1> HIDE DEF n, A, w, S, e1, e2, e3, e4, e5, e6, e7, e8, c1, c2, c3, c4, c5, c6, c7, c8
<1>4. Lists(s1, F1)
  BY ListsFirst
<1>5. Lists(s2, F2)
  <2>1. c2 => \A d \in F1 : d.row < e2.row
    BY <1>1, <1>2 DEF Opt
  <2> HIDE DEF F1, s1
  <2> QED BY <1>4, <2>1, ListsNext
<1>6. Lists(s3, F3)
  <2>1. c3 => \A d \in F2 : d.row < e3.row
    BY <1>1, <1>2 DEF Opt
  <2> HIDE DEF F2, s2
  <2> QED BY <1>5, <2>1, ListsNext
<1>7. Lists(s4, F4)
  <2>1. c4 => \A d \in F3 : d.row < e4.row
    BY <1>1, <1>2 DEF Opt
  <2> HIDE DEF F3, s3
  <2> QED BY <1>6, <2>1, ListsNext
<1>8. Lists(s5, F5)
  <2>1. c5 => \A d \in F4 : d.row < e5.row
    BY <1>1, <1>2 DEF Opt
  <2> HIDE DEF F4, s4
  <2> QED BY <1>7, <2>1, ListsNext
<1>9. Lists(s6, F6)
  <2>1. c6 => \A d \in F5 : d.row < e6.row
    BY <1>1, <1>2 DEF Opt
  <2> HIDE DEF F5, s5
  <2> QED BY <1>8, <2>1, ListsNext
<1>10. Lists(s7, F7)
  <2>1. c7 => \A d \in F6 : d.row < e7.row
    BY <1>1, <1>2 DEF Opt
  <2> HIDE DEF F6, s6
  <2> QED BY <1>9, <2>1, ListsNext
<1>11. Lists(s8, F8)
  <2>1. c8 => \A d \in F7 : d.row < e8.row
    BY <1>1, <1>2 DEF Opt
  <2> HIDE DEF F7, s7
  <2> QED BY <1>10, <2>1, ListsNext
<1> QED BY <1>3, <1>11

LEMMA Liquid4rmLists ==
  ASSUME Sized, NEW l, NEW r, NEW c, InStack(l, r, c)
  PROVE  Lists(LiquidColumn4rm(l, r, c), Liquid4rmEntries(l, r, c))
<1> DEFINE n == Cell(l, r, c)  A == LayerArea  w == declared.ncolumns
           c1 == ~ first_layer(l)
           e1 == Conducts(Cell(l - 1, r, c),
                   PARALLEL(get_conductance_bottom(l, r, c), get_conductance_top(l - 1, r, c)))
           c2 == ~ first_row(r)
           e2 == Carries(Cell(l, r - 1, c), get_conductance_north(l, r, c))
           c3 == c # 0
           e3 == Conducts(Cell(l, r, c - 1),
                   PARALLEL(get_conductance_west(l, r, c), get_conductance_east(l, r, c - 1)))
           c4 == TRUE
           e4 == Own(Cell(l, r, c), get_capacity(l, r, c), FlowEnds(l, r, c))
           c5 == c # declared.ncolumns - 1
           e5 == Conducts(Cell(l, r, c + 1),
                   PARALLEL(get_conductance_east(l, r, c), get_conductance_west(l, r, c + 1)))
           c6 == ~ last_row(r)
           e6 == Carries(Cell(l, r + 1, c), get_conductance_south(l, r, c))
           c7 == ~ last_layer(l)
           e7 == Conducts(Cell(l + 1, r, c),
                   PARALLEL(get_conductance_top(l, r, c), get_conductance_bottom(l + 1, r, c)))
           F1 == Opt(c1, e1)
           F2 == F1 \cup Opt(c2, e2)
           F3 == F2 \cup Opt(c3, e3)
           F4 == F3 \cup Opt(c4, e4)
           F5 == F4 \cup Opt(c5, e5)
           F6 == F5 \cup Opt(c6, e6)
           F7 == F6 \cup Opt(c7, e7)
           s1 == When(c1, e1)
           s2 == s1 \o When(c2, e2)
           s3 == s2 \o When(c3, e3)
           s4 == s3 \o When(c4, e4)
           s5 == s4 \o When(c5, e5)
           s6 == s5 \o When(c6, e6)
           s7 == s6 \o When(c7, e7)
<1>1. /\ n \in Int /\ A \in Nat \ {0} /\ w \in Nat \ {0} /\ A >= w
      /\ c2 \/ c6 => A >= 2 * w
      /\ c3 \/ c5 => w >= 2
  <2>1. l \in Int /\ r \in Int /\ c \in Int
    BY DEF InStack
  <2>2. n \in Int /\ A \in Nat \ {0} /\ w \in Nat \ {0} /\ A >= w
    BY <2>1, Sizes, CellSteps DEF Sized
  <2>3. (c2 \/ c6 => A >= 2 * w) /\ (c3 \/ c5 => w >= 2)
    BY Sizes DEF Sized, InStack, first_row, last_row
  <2> QED BY <2>2, <2>3
<1>2. /\ e1.row = n - A /\ e2.row = n - w /\ e3.row = n - 1 /\ e4.row = n
      /\ e5.row = n + 1 /\ e6.row = n + w /\ e7.row = n + A
  <2>1. l \in Int /\ r \in Int /\ c \in Int
    BY DEF InStack
  <2>2. e1.row = n - A
    BY <2>1, CellSteps DEF Conducts, Carries, Own
  <2>3. e2.row = n - w
    BY <2>1, CellSteps DEF Conducts, Carries, Own
  <2>4. e3.row = n - 1
    BY <2>1, CellSteps DEF Conducts, Carries, Own
  <2>5. e4.row = n
    BY <2>1, CellSteps DEF Conducts, Carries, Own
  <2>6. e5.row = n + 1
    BY <2>1, CellSteps DEF Conducts, Carries, Own
  <2>7. e6.row = n + w
    BY <2>1, CellSteps DEF Conducts, Carries, Own
  <2>8. e7.row = n + A
    BY <2>1, CellSteps DEF Conducts, Carries, Own
  <2> QED BY <2>2, <2>3, <2>4, <2>5, <2>6, <2>7, <2>8
<1>3. LiquidColumn4rm(l, r, c) = s7 /\ Liquid4rmEntries(l, r, c) = F7
  BY DEF LiquidColumn4rm, Liquid4rmEntries, When
<1> HIDE DEF n, A, w, e1, e2, e3, e4, e5, e6, e7, c1, c2, c3, c4, c5, c6, c7
<1>4. Lists(s1, F1)
  BY ListsFirst
<1>5. Lists(s2, F2)
  <2>1. c2 => \A d \in F1 : d.row < e2.row
    BY <1>1, <1>2 DEF Opt
  <2> HIDE DEF F1, s1
  <2> QED BY <1>4, <2>1, ListsNext
<1>6. Lists(s3, F3)
  <2>1. c3 => \A d \in F2 : d.row < e3.row
    BY <1>1, <1>2 DEF Opt
  <2> HIDE DEF F2, s2
  <2> QED BY <1>5, <2>1, ListsNext
<1>7. Lists(s4, F4)
  <2>1. c4 => \A d \in F3 : d.row < e4.row
    BY <1>1, <1>2 DEF Opt
  <2> HIDE DEF F3, s3
  <2> QED BY <1>6, <2>1, ListsNext
<1>8. Lists(s5, F5)
  <2>1. c5 => \A d \in F4 : d.row < e5.row
    BY <1>1, <1>2 DEF Opt
  <2> HIDE DEF F4, s4
  <2> QED BY <1>7, <2>1, ListsNext
<1>9. Lists(s6, F6)
  <2>1. c6 => \A d \in F5 : d.row < e6.row
    BY <1>1, <1>2 DEF Opt
  <2> HIDE DEF F5, s5
  <2> QED BY <1>8, <2>1, ListsNext
<1>10. Lists(s7, F7)
  <2>1. c7 => \A d \in F6 : d.row < e7.row
    BY <1>1, <1>2 DEF Opt
  <2> HIDE DEF F6, s6
  <2> QED BY <1>9, <2>1, ListsNext
<1> QED BY <1>3, <1>10

LEMMA Liquid2rmLists ==
  ASSUME Sized, NEW l, NEW r, NEW c, InStack(l, r, c)
  PROVE  Lists(LiquidColumn2rm(l, r, c), Liquid2rmEntries(l, r, c))
<1> DEFINE n == Cell(l, r, c)  A == LayerArea  w == declared.ncolumns
           c1 == ~ first_layer(l)
           e1 == Conducts(Cell(l - 2, r, c), get_conductance_bottom(l, r, c))
           c2 == ~ first_row(r)
           e2 == Carries(Cell(l, r - 1, c), get_conductance_north(l, r, c))
           c3 == TRUE
           e3 == Own(Cell(l, r, c), get_capacity(l, r, c), FlowEnds(l, r, c))
           c4 == ~ last_row(r)
           e4 == Carries(Cell(l, r + 1, c), get_conductance_south(l, r, c))
           c5 == ~ last_layer(l)
           e5 == Conducts(Cell(l + 1, r, c), get_conductance_top(l, r, c))
           F1 == Opt(c1, e1)
           F2 == F1 \cup Opt(c2, e2)
           F3 == F2 \cup Opt(c3, e3)
           F4 == F3 \cup Opt(c4, e4)
           F5 == F4 \cup Opt(c5, e5)
           s1 == When(c1, e1)
           s2 == s1 \o When(c2, e2)
           s3 == s2 \o When(c3, e3)
           s4 == s3 \o When(c4, e4)
           s5 == s4 \o When(c5, e5)
<1>1. /\ n \in Int /\ A \in Nat \ {0} /\ w \in Nat \ {0} /\ A >= w
      /\ c2 \/ c4 => A >= 2 * w
  <2>1. l \in Int /\ r \in Int /\ c \in Int
    BY DEF InStack
  <2>2. n \in Int /\ A \in Nat \ {0} /\ w \in Nat \ {0} /\ A >= w
    BY <2>1, Sizes, CellSteps DEF Sized
  <2>3. (c2 \/ c4 => A >= 2 * w)
    BY Sizes DEF Sized, InStack, first_row, last_row
  <2> QED BY <2>2, <2>3
<1>2. /\ e1.row = n - 2 * A /\ e2.row = n - w /\ e3.row = n
      /\ e4.row = n + w /\ e5.row = n + A
  <2>1. l \in Int /\ r \in Int /\ c \in Int
    BY DEF InStack
  <2>2. e1.row = n - 2 * A
    BY <2>1, CellSteps DEF Conducts, Carries, Own
  <2>3. e2.row = n - w
    BY <2>1, CellSteps DEF Conducts, Carries, Own
  <2>4. e3.row = n
    BY <2>1, CellSteps DEF Conducts, Carries, Own
  <2>5. e4.row = n + w
    BY <2>1, CellSteps DEF Conducts, Carries, Own
  <2>6. e5.row = n + A
    BY <2>1, CellSteps DEF Conducts, Carries, Own
  <2> QED BY <2>2, <2>3, <2>4, <2>5, <2>6
<1>3. LiquidColumn2rm(l, r, c) = s5 /\ Liquid2rmEntries(l, r, c) = F5
  BY DEF LiquidColumn2rm, Liquid2rmEntries, When
<1> HIDE DEF n, A, w, e1, e2, e3, e4, e5, c1, c2, c3, c4, c5
<1>4. Lists(s1, F1)
  BY ListsFirst
<1>5. Lists(s2, F2)
  <2>1. c2 => \A d \in F1 : d.row < e2.row
    BY <1>1, <1>2 DEF Opt
  <2> HIDE DEF F1, s1
  <2> QED BY <1>4, <2>1, ListsNext
<1>6. Lists(s3, F3)
  <2>1. c3 => \A d \in F2 : d.row < e3.row
    BY <1>1, <1>2 DEF Opt
  <2> HIDE DEF F2, s2
  <2> QED BY <1>5, <2>1, ListsNext
<1>7. Lists(s4, F4)
  <2>1. c4 => \A d \in F3 : d.row < e4.row
    BY <1>1, <1>2 DEF Opt
  <2> HIDE DEF F3, s3
  <2> QED BY <1>6, <2>1, ListsNext
<1>8. Lists(s5, F5)
  <2>1. c5 => \A d \in F4 : d.row < e5.row
    BY <1>1, <1>2 DEF Opt
  <2> HIDE DEF F4, s4
  <2> QED BY <1>7, <2>1, ListsNext
<1> QED BY <1>3, <1>8

LEMMA BottomWallLists ==
  ASSUME Sized, NEW l, NEW r, NEW c, InStack(l, r, c)
  PROVE  Lists(BottomWallColumn2rm(l, r, c), BottomWallEntries(l, r, c))
<1> DEFINE n == Cell(l, r, c)  A == LayerArea  w == declared.ncolumns
           c1 == ~ first_layer(l)
           e1 == Conducts(Cell(l - 1, r, c), get_conductance_top(l - 1, r, c))
           c2 == TRUE
           e2 == Own(Cell(l, r, c), get_capacity(l, r, c), Nothing)
           c3 == ~ last_layer(l)
           e3 == Conducts(Cell(l + 1, r, c), get_conductance_top(l + 1, r, c))
           c4 == ~ last_layer(l)
           e4 == Conducts(Cell(l + 2, r, c), get_conductance_bottom(l + 2, r, c))
           F1 == Opt(c1, e1)
           F2 == F1 \cup Opt(c2, e2)
           F3 == F2 \cup Opt(c3, e3)
           F4 == F3 \cup Opt(c4, e4)
           s1 == When(c1, e1)
           s2 == s1 \o When(c2, e2)
           s3 == s2 \o When(c3, e3)
           s4 == s3 \o When(c4, e4)
<1>1. n \in Int /\ A \in Nat \ {0} /\ w \in Nat \ {0} /\ A >= w
  <2>1. l \in Int /\ r \in Int /\ c \in Int
    BY DEF InStack
  <2>2. n \in Int /\ A \in Nat \ {0} /\ w \in Nat \ {0} /\ A >= w
    BY <2>1, Sizes, CellSteps DEF Sized
  <2> QED BY <2>2
<1>2. /\ e1.row = n - A /\ e2.row = n
      /\ e3.row = n + A /\ e4.row = n + 2 * A
  <2>1. l \in Int /\ r \in Int /\ c \in Int
    BY DEF InStack
  <2>2. e1.row = n - A
    BY <2>1, CellSteps DEF Conducts, Own
  <2>3. e2.row = n
    BY <2>1, CellSteps DEF Conducts, Own
  <2>4. e3.row = n + A
    BY <2>1, CellSteps DEF Conducts, Own
  <2>5. e4.row = n + 2 * A
    BY <2>1, CellSteps DEF Conducts, Own
  <2> QED BY <2>2, <2>3, <2>4, <2>5
<1>3. BottomWallColumn2rm(l, r, c) = s4 /\ BottomWallEntries(l, r, c) = F4
  BY DEF BottomWallColumn2rm, BottomWallEntries, When
<1> HIDE DEF n, A, w, e1, e2, e3, e4, c1, c2, c3, c4
<1>4. Lists(s1, F1)
  BY ListsFirst
<1>5. Lists(s2, F2)
  <2>1. c2 => \A d \in F1 : d.row < e2.row
    BY <1>1, <1>2 DEF Opt
  <2> HIDE DEF F1, s1
  <2> QED BY <1>4, <2>1, ListsNext
<1>6. Lists(s3, F3)
  <2>1. c3 => \A d \in F2 : d.row < e3.row
    BY <1>1, <1>2 DEF Opt
  <2> HIDE DEF F2, s2
  <2> QED BY <1>5, <2>1, ListsNext
<1>7. Lists(s4, F4)
  <2>1. c4 => \A d \in F3 : d.row < e4.row
    BY <1>1, <1>2 DEF Opt
  <2> HIDE DEF F3, s3
  <2> QED BY <1>6, <2>1, ListsNext
<1> QED BY <1>3, <1>7

LEMMA TopWallLists ==
  ASSUME Sized, NEW l, NEW r, NEW c, InStack(l, r, c)
  PROVE  Lists(TopWallColumn2rm(l, r, c), TopWallEntries(l, r, c))
<1> DEFINE n == Cell(l, r, c)  A == LayerArea  w == declared.ncolumns
           c1 == ~ first_layer(l)
           e1 == Conducts(Cell(l - 2, r, c), get_conductance_top(l - 2, r, c))
           c2 == ~ first_layer(l)
           e2 == Conducts(Cell(l - 1, r, c), get_conductance_top(l - 1, r, c))
           c3 == TRUE
           e3 == Own(Cell(l, r, c), get_capacity(l, r, c), Nothing)
           c4 == ~ last_layer(l)
           e4 == Conducts(Cell(l + 1, r, c), get_conductance_bottom(l + 1, r, c))
           F1 == Opt(c1, e1)
           F2 == F1 \cup Opt(c2, e2)
           F3 == F2 \cup Opt(c3, e3)
           F4 == F3 \cup Opt(c4, e4)
           s1 == When(c1, e1)
           s2 == s1 \o When(c2, e2)
           s3 == s2 \o When(c3, e3)
           s4 == s3 \o When(c4, e4)
<1>1. n \in Int /\ A \in Nat \ {0} /\ w \in Nat \ {0} /\ A >= w
  <2>1. l \in Int /\ r \in Int /\ c \in Int
    BY DEF InStack
  <2>2. n \in Int /\ A \in Nat \ {0} /\ w \in Nat \ {0} /\ A >= w
    BY <2>1, Sizes, CellSteps DEF Sized
  <2> QED BY <2>2
<1>2. /\ e1.row = n - 2 * A /\ e2.row = n - A
      /\ e3.row = n /\ e4.row = n + A
  <2>1. l \in Int /\ r \in Int /\ c \in Int
    BY DEF InStack
  <2>2. e1.row = n - 2 * A
    BY <2>1, CellSteps DEF Conducts, Own
  <2>3. e2.row = n - A
    BY <2>1, CellSteps DEF Conducts, Own
  <2>4. e3.row = n
    BY <2>1, CellSteps DEF Conducts, Own
  <2>5. e4.row = n + A
    BY <2>1, CellSteps DEF Conducts, Own
  <2> QED BY <2>2, <2>3, <2>4, <2>5
<1>3. TopWallColumn2rm(l, r, c) = s4 /\ TopWallEntries(l, r, c) = F4
  BY DEF TopWallColumn2rm, TopWallEntries, When
<1> HIDE DEF n, A, w, e1, e2, e3, e4, c1, c2, c3, c4
<1>4. Lists(s1, F1)
  BY ListsFirst
<1>5. Lists(s2, F2)
  <2>1. c2 => \A d \in F1 : d.row < e2.row
    BY <1>1, <1>2 DEF Opt
  <2> HIDE DEF F1, s1
  <2> QED BY <1>4, <2>1, ListsNext
<1>6. Lists(s3, F3)
  <2>1. c3 => \A d \in F2 : d.row < e3.row
    BY <1>1, <1>2 DEF Opt
  <2> HIDE DEF F2, s2
  <2> QED BY <1>5, <2>1, ListsNext
<1>7. Lists(s4, F4)
  <2>1. c4 => \A d \in F3 : d.row < e4.row
    BY <1>1, <1>2 DEF Opt
  <2> HIDE DEF F3, s3
  <2> QED BY <1>6, <2>1, ListsNext
<1> QED BY <1>3, <1>7

LEMMA VirtualWallLists ==
  ASSUME Sized, NEW l, NEW r, NEW c, InStack(l, r, c)
  PROVE  Lists(VirtualWallColumn2rm(l, r, c), VirtualWallEntries(l, r, c))
<1> DEFINE n == Cell(l, r, c)  A == LayerArea  w == declared.ncolumns
           c1 == ~ first_layer(l)
           e1 == Conducts(Cell(l - 1, r, c), get_conductance_bottom(l, r, c))
           c2 == declared.channel = "MC_2RM" /\ ~ first_row(r)
           e2 == Conducts(Cell(l, r - 1, c), AlongWall(l, r, c))
           c3 == TRUE
           e3 == Own(Cell(l, r, c), get_capacity(l, r, c), Nothing)
           c4 == declared.channel = "MC_2RM" /\ ~ last_row(r)
           e4 == Conducts(Cell(l, r + 1, c), AlongWall(l, r, c))
           c5 == ~ last_layer(l)
           e5 == Conducts(Cell(l + 2, r, c), get_conductance_top(l, r, c))
           F1 == Opt(c1, e1)
           F2 == F1 \cup Opt(c2, e2)
           F3 == F2 \cup Opt(c3, e3)
           F4 == F3 \cup Opt(c4, e4)
           F5 == F4 \cup Opt(c5, e5)
           s1 == When(c1, e1)
           s2 == s1 \o When(c2, e2)
           s3 == s2 \o When(c3, e3)
           s4 == s3 \o When(c4, e4)
           s5 == s4 \o When(c5, e5)
<1>1. /\ n \in Int /\ A \in Nat \ {0} /\ w \in Nat \ {0} /\ A >= w
      /\ c2 \/ c4 => A >= 2 * w
  <2>1. l \in Int /\ r \in Int /\ c \in Int
    BY DEF InStack
  <2>2. n \in Int /\ A \in Nat \ {0} /\ w \in Nat \ {0} /\ A >= w
    BY <2>1, Sizes, CellSteps DEF Sized
  <2>3. (c2 \/ c4 => A >= 2 * w)
    BY Sizes DEF Sized, InStack, first_row, last_row
  <2> QED BY <2>2, <2>3
<1>2. /\ e1.row = n - A /\ e2.row = n - w /\ e3.row = n
      /\ e4.row = n + w /\ e5.row = n + 2 * A
  <2>1. l \in Int /\ r \in Int /\ c \in Int
    BY DEF InStack
  <2>2. e1.row = n - A
    BY <2>1, CellSteps DEF Conducts, Own
  <2>3. e2.row = n - w
    BY <2>1, CellSteps DEF Conducts, Own
  <2>4. e3.row = n
    BY <2>1, CellSteps DEF Conducts, Own
  <2>5. e4.row = n + w
    BY <2>1, CellSteps DEF Conducts, Own
  <2>6. e5.row = n + 2 * A
    BY <2>1, CellSteps DEF Conducts, Own
  <2> QED BY <2>2, <2>3, <2>4, <2>5, <2>6
<1>3. VirtualWallColumn2rm(l, r, c) = s5 /\ VirtualWallEntries(l, r, c) = F5
  BY DEF VirtualWallColumn2rm, VirtualWallEntries, When
<1> HIDE DEF n, A, w, e1, e2, e3, e4, e5, c1, c2, c3, c4, c5
<1>4. Lists(s1, F1)
  BY ListsFirst
<1>5. Lists(s2, F2)
  <2>1. c2 => \A d \in F1 : d.row < e2.row
    BY <1>1, <1>2 DEF Opt
  <2> HIDE DEF F1, s1
  <2> QED BY <1>4, <2>1, ListsNext
<1>6. Lists(s3, F3)
  <2>1. c3 => \A d \in F2 : d.row < e3.row
    BY <1>1, <1>2 DEF Opt
  <2> HIDE DEF F2, s2
  <2> QED BY <1>5, <2>1, ListsNext
<1>7. Lists(s4, F4)
  <2>1. c4 => \A d \in F3 : d.row < e4.row
    BY <1>1, <1>2 DEF Opt
  <2> HIDE DEF F3, s3
  <2> QED BY <1>6, <2>1, ListsNext
<1>8. Lists(s5, F5)
  <2>1. c5 => \A d \in F4 : d.row < e5.row
    BY <1>1, <1>2 DEF Opt
  <2> HIDE DEF F4, s4
  <2> QED BY <1>7, <2>1, ListsNext
<1> QED BY <1>3, <1>8

LEMMA SpreaderSteps ==
  ASSUME Sized, NEW r \in Int, NEW c \in Int
  PROVE  /\ SpreaderCell(r, c) \in Int
         /\ SpreaderCell(r - 1, c) = SpreaderCell(r, c) - SpreaderColumns
         /\ SpreaderCell(r + 1, c) = SpreaderCell(r, c) + SpreaderColumns
         /\ SpreaderCell(r, c - 1) = SpreaderCell(r, c) - 1
         /\ SpreaderCell(r, c + 1) = SpreaderCell(r, c) + 1
<1> DEFINE w == SpreaderColumns  B == NLayers * LayerArea  z == r * w
<1>1. w \in Int /\ B \in Int
  BY Sizes DEF Sized
<1>2. (r + 1) * w = z + w /\ (r - 1) * w = z - w /\ z \in Int
  <2> HIDE DEF w
  <2> QED BY <1>1, ProductStep
<1>3. /\ SpreaderCell(r, c) = B + z + c
      /\ SpreaderCell(r - 1, c) = B + (z - w) + c
      /\ SpreaderCell(r + 1, c) = B + (z + w) + c
      /\ SpreaderCell(r, c - 1) = B + z + (c - 1)
      /\ SpreaderCell(r, c + 1) = B + z + (c + 1)
  BY <1>2 DEF SpreaderCell
<1> HIDE DEF w, B, z
<1>4. /\ SpreaderCell(r, c) \in Int
      /\ SpreaderCell(r - 1, c) = SpreaderCell(r, c) - w
      /\ SpreaderCell(r + 1, c) = SpreaderCell(r, c) + w
      /\ SpreaderCell(r, c - 1) = SpreaderCell(r, c) - 1
      /\ SpreaderCell(r, c + 1) = SpreaderCell(r, c) + 1
  BY <1>1, <1>2, <1>3
<1> QED BY <1>4 DEF w

LEMMA SpreaderLists ==
  ASSUME Sized, NEW r \in 0 .. SpreaderRows - 1, NEW c \in 0 .. SpreaderColumns - 1
  PROVE  Lists(SpreaderColumn(r, c), SpreaderEntries(r, c))
<1> DEFINE n == SpreaderCell(r, c)  w == SpreaderColumns  u == CellUnder(r, c)  B == NLayers * LayerArea
           c1 == has_layer_underneath(r, c)
           e1 == Conducts(CellUnder(r, c),
                   PARALLEL(get_spreader_conductance_top_bottom,
                            get_conductance_top(NLayers - 1, r - declared.rowborder,
                                                c - declared.columnborder)))
           c2 == r # 0
           e2 == Conducts(SpreaderCell(r - 1, c), NorthSouthJoint)
           c3 == c # 0
           e3 == Conducts(SpreaderCell(r, c - 1), EastWestJoint)
           c4 == TRUE
           e4 == Own(SpreaderCell(r, c), get_spreader_capacity, Nothing)
           c5 == c # SpreaderColumns - 1
           e5 == Conducts(SpreaderCell(r, c + 1), EastWestJoint)
           c6 == r # SpreaderRows - 1
           e6 == Conducts(SpreaderCell(r + 1, c), NorthSouthJoint)
           F1 == Opt(c1, e1)
           F2 == F1 \cup Opt(c2, e2)
           F3 == F2 \cup Opt(c3, e3)
           F4 == F3 \cup Opt(c4, e4)
           F5 == F4 \cup Opt(c5, e5)
           F6 == F5 \cup Opt(c6, e6)
           s1 == When(c1, e1)
           s2 == s1 \o When(c2, e2)
           s3 == s2 \o When(c3, e3)
           s4 == s3 \o When(c4, e4)
           s5 == s4 \o When(c5, e5)
           s6 == s5 \o When(c6, e6)
<1>1. /\ n \in Int /\ w \in Nat \ {0} /\ (c3 \/ c5 => w >= 2) /\ u \in Int
      /\ c1 => u < B /\ B \in Int
      /\ n >= B /\ (c2 => n - w >= B) /\ (c3 => n - 1 >= B)
  <2>1. /\ declared.nrows \in Nat \ {0} /\ declared.ncolumns \in Nat \ {0}
        /\ declared.rowborder \in Nat /\ declared.columnborder \in Nat
        /\ w \in Nat \ {0} /\ SpreaderRows \in Nat \ {0} /\ LayerArea \in Nat \ {0}
        /\ NLayers \in Nat \ {0} /\ r \in 0 .. SpreaderRows - 1 /\ c \in 0 .. w - 1
    BY Sizes DEF Sized
  <2>2. c1 => u \in 0 .. B - 1
    <3>1. c1 => InStack(NLayers - 1, r - declared.rowborder, c - declared.columnborder)
      BY <2>1 DEF InStack, has_layer_underneath
    <3> QED BY <3>1, StackCell DEF CellUnder
  <2>3. B \in Int /\ u \in Int
    <3>1. B \in Int
      BY <2>1
    <3>2. /\ NLayers - 1 \in Int /\ r - declared.rowborder \in Int
          /\ c - declared.columnborder \in Int
      BY <2>1
    <3> QED BY <3>1, <3>2, CellSteps DEF CellUnder
  <2>4. /\ 0 * w <= r * w /\ (c2 => 1 * w <= r * w) /\ r * w \in Int /\ 0 * w = 0 /\ 1 * w = w
    BY <2>1, ProductMonotonic
  <2>5. n = B + r * w + c
    BY DEF SpreaderCell
  <2> DEFINE z == r * w
  <2>6. (c3 \/ c5 => w >= 2) /\ (c3 => c >= 1)
    BY <2>1
  <2>7. n \in Int /\ n >= B /\ (c2 => n - w >= B) /\ (c3 => n - 1 >= B)
    <3>1. /\ n = B + z + c /\ 0 <= z /\ (c2 => w <= z) /\ z \in Int /\ B \in Int /\ c \in Nat
          /\ w \in Int /\ (c3 => c >= 1)
      BY <2>1, <2>3, <2>4, <2>5, <2>6
    <3> HIDE DEF n, w, B, z, c2, c3
    <3> QED BY <3>1
  <2> HIDE DEF n, w, B, u, c1, c2, c3, c5, z
  <2>8. c1 => u < B
    BY <2>2, <2>3
  <2> QED BY <2>1, <2>3, <2>6, <2>7, <2>8
<1>2. /\ e1.row = u /\ e2.row = n - w /\ e3.row = n - 1
      /\ e4.row = n /\ e5.row = n + 1 /\ e6.row = n + w
  BY SpreaderSteps DEF Conducts, Own
<1>3. SpreaderColumn(r, c) = s6 /\ SpreaderEntries(r, c) = F6
  BY DEF SpreaderColumn, SpreaderEntries, When, NorthSouthJoint, EastWestJoint
<1> HIDE DEF n, w, u, B, e1, e2, e3, e4, e5, e6, c1, c2, c3, c4, c5, c6
<1>4. Lists(s1, F1)
  BY ListsFirst
<1>5. Lists(s2, F2)
  <2>1. c2 => \A d \in F1 : d.row < e2.row
    BY <1>1, <1>2 DEF Opt
  <2> HIDE DEF F1, s1
  <2> QED BY <1>4, <2>1, ListsNext
<1>6. Lists(s3, F3)
  <2>1. c3 => \A d \in F2 : d.row < e3.row
    BY <1>1, <1>2 DEF Opt
  <2> HIDE DEF F2, s2
  <2> QED BY <1>5, <2>1, ListsNext
<1>7. Lists(s4, F4)
  <2>1. c4 => \A d \in F3 : d.row < e4.row
    BY <1>1, <1>2 DEF Opt
  <2> HIDE DEF F3, s3
  <2> QED BY <1>6, <2>1, ListsNext
<1>8. Lists(s5, F5)
  <2>1. c5 => \A d \in F4 : d.row < e5.row
    BY <1>1, <1>2 DEF Opt
  <2> HIDE DEF F4, s4
  <2> QED BY <1>7, <2>1, ListsNext
<1>9. Lists(s6, F6)
  <2>1. c6 => \A d \in F5 : d.row < e6.row
    BY <1>1, <1>2 DEF Opt
  <2> HIDE DEF F5, s5
  <2> QED BY <1>8, <2>1, ListsNext
<1> QED BY <1>3, <1>9

Entries(l, r, c) ==
  IF l = NLayers THEN SpreaderEntries(r, c)
  ELSE CASE Type(l).kind \in Solids -> SolidEntries(l, r, c)
         [] Type(l).kind = "CHANNEL_4RM" -> IF IsChannelColumn(c) THEN Liquid4rmEntries(l, r, c)
                                                                 ELSE SolidEntries(l, r, c)
         [] Type(l).kind \in Coolants -> Liquid2rmEntries(l, r, c)
         [] Type(l).kind \in VirtualWalls -> VirtualWallEntries(l, r, c)
         [] Type(l).kind = "TOP_WALL" -> TopWallEntries(l, r, c)
         [] Type(l).kind = "BOTTOM_WALL" -> BottomWallEntries(l, r, c)

(* Is the cell made like one of a solid layer?                             *)
SolidLike(l, c) ==
  Type(l).kind \in Solids \/ (Type(l).kind = "CHANNEL_4RM" /\ ~ IsChannelColumn(c))

Liquid4rm(l, c) == Type(l).kind = "CHANNEL_4RM" /\ IsChannelColumn(c)

LEMMA EntriesByKind ==
  ASSUME Typed, NEW l \in 0 .. NLayers - 1, NEW r, NEW c
  PROVE  /\ SolidLike(l, c) => Entries(l, r, c) = SolidEntries(l, r, c)
         /\ Liquid4rm(l, c) => Entries(l, r, c) = Liquid4rmEntries(l, r, c)
         /\ Type(l).kind \in Coolants => Entries(l, r, c) = Liquid2rmEntries(l, r, c)
         /\ Type(l).kind \in VirtualWalls => Entries(l, r, c) = VirtualWallEntries(l, r, c)
         /\ Type(l).kind = "TOP_WALL" => Entries(l, r, c) = TopWallEntries(l, r, c)
         /\ Type(l).kind = "BOTTOM_WALL" => Entries(l, r, c) = BottomWallEntries(l, r, c)
<1>1. l # NLayers
  OBVIOUS
<1> QED BY <1>1 DEF Entries, SolidLike, Liquid4rm, Solids, Coolants, Pins, VirtualWalls

LEMMA ColumnByKind ==
  ASSUME Typed, NEW l \in 0 .. NLayers - 1, NEW r, NEW c
  PROVE  /\ SolidLike(l, c) => UniformColumn(l, r, c) = SolidColumn(l, r, c)
         /\ Liquid4rm(l, c) => UniformColumn(l, r, c) = LiquidColumn4rm(l, r, c)
         /\ Type(l).kind \in Coolants => UniformColumn(l, r, c) = LiquidColumn2rm(l, r, c)
         /\ Type(l).kind \in VirtualWalls => UniformColumn(l, r, c) = VirtualWallColumn2rm(l, r, c)
         /\ Type(l).kind = "TOP_WALL" => UniformColumn(l, r, c) = TopWallColumn2rm(l, r, c)
         /\ Type(l).kind = "BOTTOM_WALL" => UniformColumn(l, r, c) = BottomWallColumn2rm(l, r, c)
<1>1. l # NLayers
  OBVIOUS
<1> QED BY <1>1 DEF UniformColumn, SolidLike, Liquid4rm, Solids, Coolants, Pins, VirtualWalls

LEMMA AllKinds ==
  ASSUME Typed, NEW l \in 0 .. NLayers - 1, NEW c
  PROVE  \/ SolidLike(l, c) \/ Liquid4rm(l, c) \/ Type(l).kind \in Coolants
         \/ Type(l).kind \in VirtualWalls \/ Type(l).kind = "TOP_WALL" \/ Type(l).kind = "BOTTOM_WALL"
  BY WhichChannel DEF SolidLike, Liquid4rm

LEMMA ColumnLists ==
  ASSUME Sized, Typed, NEW p, Position(p)
  PROVE  Lists(UniformColumn(p.l, p.r, p.c), Entries(p.l, p.r, p.c))
<1>1. CASE p.l = NLayers
  <2>1. p.r \in 0 .. SpreaderRows - 1 /\ p.c \in 0 .. SpreaderColumns - 1
    BY <1>1 DEF Position, RowsAt, ColumnsAt
  <2> QED BY <1>1, <2>1, SpreaderLists DEF UniformColumn, Entries
<1>2. CASE p.l # NLayers
  <2>1. InStack(p.l, p.r, p.c) /\ p.l \in 0 .. NLayers - 1
    BY <1>2 DEF Position, RowsAt, ColumnsAt, InStack, Sized
  <2>2. CASE SolidLike(p.l, p.c)
    BY <2>1, <2>2, SolidLists, EntriesByKind, ColumnByKind
  <2>3. CASE Liquid4rm(p.l, p.c)
    BY <2>1, <2>3, Liquid4rmLists, EntriesByKind, ColumnByKind
  <2>4. CASE Type(p.l).kind \in Coolants
    BY <2>1, <2>4, Liquid2rmLists, EntriesByKind, ColumnByKind
  <2>5. CASE Type(p.l).kind \in VirtualWalls
    BY <2>1, <2>5, VirtualWallLists, EntriesByKind, ColumnByKind
  <2>6. CASE Type(p.l).kind = "TOP_WALL"
    BY <2>1, <2>6, TopWallLists, EntriesByKind, ColumnByKind
  <2>7. CASE Type(p.l).kind = "BOTTOM_WALL"
    BY <2>1, <2>7, BottomWallLists, EntriesByKind, ColumnByKind
  <2> QED BY <2>1, <2>2, <2>3, <2>4, <2>5, <2>6, <2>7, AllKinds
<1> QED BY <1>1, <1>2

-----------------------------------------------------------------------------
(* The coefficients of two cells in the equations of each other.           *)

Agree(there, back) ==
  IF Carried(there) THEN Same(Plus(there, back), Nothing) ELSE Same(there, back)

(* A conductance, and nothing that the coolant carries.                    *)
Heat(g) == g = Zero \/ g[1] \notin {"-", "C"}

LEMMA AgreeEqual ==
  ASSUME NEW g, Heat(g)
  PROVE  Agree(Term(-1, g), Term(-1, g))
<1>1. CASE g = Zero
  <2>1. Term(-1, g) = Nothing
    BY <1>1 DEF Term
  <2>2. DOMAIN Nothing = {}
    BY DEF Nothing
  <2>3. DOMAIN Plus(Nothing, Nothing) = {}
    BY <2>2 DEF Plus
  <2> QED BY <2>1, <2>2, <2>3 DEF Agree, Same
<1>2. CASE g # Zero
  <2>1. g[1] # "-" /\ g[1] # "C"
    BY <1>2 DEF Heat
  <2>2. Term(-1, g) = [h \in {g} |-> -1]
    BY <1>2, <2>1 DEF Term
  <2>3. ~ Carried(Term(-1, g))
    BY <2>1, <2>2 DEF Carried
  <2> QED BY <2>3 DEF Agree, Same
<1> QED BY <1>1, <1>2

LEMMA AgreeCarried ==
  ASSUME NEW l, NEW c
  PROVE  LET g == get_convective_term(l, c)
         IN  Agree(Term(1, g), Term(1, Minus(g))) /\ Agree(Term(1, Minus(g)), Term(1, g))
<1> DEFINE g == get_convective_term(l, c)
<1>1. g # Zero /\ g[1] = "C"
  BY DEF get_convective_term, Zero
<1>2. Minus(g) # Zero /\ Minus(g)[1] = "-" /\ Minus(g)[2] = g
  BY DEF Minus, Zero
<1> HIDE DEF g
<1>3. Term(1, g) = [h \in {g} |-> 1]
  BY <1>1 DEF Term
<1>4. Term(1, Minus(g)) = [h \in {g} |-> -1]
  BY <1>2 DEF Term
<1> DEFINE a == [h \in {g} |-> 1]  b == [h \in {g} |-> -1]
<1>5. Carried(a) /\ Carried(b)
  BY <1>1 DEF Carried
<1>6. ASSUME NEW x, NEW y, x \in {a, b}, y \in {a, b}, x # y
      PROVE  Same(Plus(x, y), Nothing)
  <2>1. DOMAIN x = {g} /\ DOMAIN y = {g} /\ x[g] + y[g] = 0
    BY <1>6
  <2>2. DOMAIN Plus(x, y) = {g} /\ Plus(x, y)[g] = 0
    BY <2>1 DEF Plus, Amount
  <2>3. DOMAIN Nothing = {}
    BY DEF Nothing
  <2> QED BY <2>2, <2>3 DEF Same, Amount
<1>7. a # b
  <2>1. a[g] = 1 /\ b[g] = -1
    OBVIOUS
  <2> QED BY <2>1
<1>8. Agree(a, b) /\ Agree(b, a)
  BY <1>5, <1>6, <1>7 DEF Agree
<1> QED BY <1>3, <1>4, <1>8 DEF g

LEMMA HeatOfParallel ==
  ASSUME NEW a, NEW b
  PROVE  Heat(PARALLEL(a, b)) /\ PARALLEL(a, b) = PARALLEL(b, a)
  BY DEF Heat, PARALLEL

LEMMA HeatOf ==
  ASSUME NEW f, f \notin {"-", "C"}, NEW l, NEW r, NEW c
  PROVE  Heat(Of(f, l, r, c)) /\ Of(f, l, r, c) # Zero
  BY DEF Heat, Of, Zero

LEMMA HeatThroughChannel ==
  ASSUME NEW l, NEW c, NEW htc \in {"HTCTop", "HTCBottom"}
  PROVE  /\ Heat(ThroughChannel(l, c, htc))
         /\ Type(l).kind \notin Walls => ThroughChannel(l, c, htc) # Zero
         /\ Type(l).kind \in Walls => ThroughChannel(l, c, htc) = Zero
<1>1. IsCoolant(l, c) => Type(l).kind \notin Walls
  BY DEF IsCoolant, Walls, Pins
<1>2. IsVirtualWall(l) => Type(l).kind \notin Walls
  BY DEF IsVirtualWall, Walls
<1> QED BY <1>1, <1>2 DEF ThroughChannel, Heat, Zero

(* Upwards and downwards: zero only through the wall of a channel and on   *)
(* the outside of the stack.                                               *)
LEMMA HeatUpwards ==
  ASSUME Typed, NEW l \in 0 .. NLayers - 1, NEW r, NEW c
  PROVE  /\ Heat(get_conductance_top(l, r, c)) /\ Heat(get_conductance_bottom(l, r, c))
         /\ Type(l).kind \in Walls => /\ get_conductance_top(l, r, c) = Zero
                                      /\ get_conductance_bottom(l, r, c) = Zero
         /\ Type(l).kind \notin Walls /\ l # NLayers - 1 => get_conductance_top(l, r, c) # Zero
         /\ Type(l).kind \notin Walls /\ l # 0 => get_conductance_bottom(l, r, c) # Zero
         /\ Type(l).kind \in VirtualWalls =>
              get_conductance_top(l, r, c) = get_conductance_bottom(l, r, c)
<1>1. CASE Type(l).kind \notin Solids
  <2>1. /\ get_conductance_top(l, r, c) = ThroughChannel(l, c, "HTCTop")
        /\ get_conductance_bottom(l, r, c) = ThroughChannel(l, c, "HTCBottom")
    BY <1>1 DEF get_conductance_top, get_conductance_bottom
  <2>2. ASSUME Type(l).kind \in VirtualWalls
        PROVE  ThroughChannel(l, c, "HTCTop") = ThroughChannel(l, c, "HTCBottom")
    <3>1. ~ IsCoolant(l, c) /\ IsVirtualWall(l)
      BY <2>2 DEF IsCoolant, IsVirtualWall, VirtualWalls, Pins
    <3> QED BY <3>1 DEF ThroughChannel
  <2> QED BY <2>1, <2>2, HeatThroughChannel
<1>2. CASE Type(l).kind \in Solids
  <2>1. Type(l).sink \in {"NONE", "CONNECTED_TO_PCB", "CONNECTED_TO_AMBIENT", "CONNECTED_TO_SPREADER"}
    BY DEF Typed
  <2>2. Type(l).kind \notin Walls \cup VirtualWalls
    BY <1>2 DEF Solids, Walls, VirtualWalls
  <2>3. /\ \/ get_conductance_top(l, r, c) = Zero /\ l = NLayers - 1
           \/ get_conductance_top(l, r, c) = Of("kA/(h/2)", l, r, c)
           \/ get_conductance_top(l, r, c) = Of("kA/h", l, r, c)
           \/ get_conductance_top(l, r, c) = Of("kA/(h/2), HTC", l, r, c)
    BY <1>2, <2>1 DEF get_conductance_top, last_layer
  <2>4. /\ \/ get_conductance_bottom(l, r, c) = Zero /\ l = 0
           \/ get_conductance_bottom(l, r, c) = Of("kA/(h/2)", l, r, c)
           \/ get_conductance_bottom(l, r, c) = Of("kA/h", l, r, c)
           \/ get_conductance_bottom(l, r, c) = Of("kA/(h/2), HTC", l, r, c)
    BY <1>2, <2>1 DEF get_conductance_bottom, first_layer
  <2>5. Heat(Zero)
    BY DEF Heat
  <2>6. \A f \in {"kA/(h/2)", "kA/h", "kA/(h/2), HTC"} :
          Heat(Of(f, l, r, c)) /\ Of(f, l, r, c) # Zero
    BY HeatOf
  <2> QED BY <2>2, <2>3, <2>4, <2>5, <2>6
<1> QED BY <1>1, <1>2

(* Each of two cells has a coefficient in the equation of the other, and   *)
(* the two agree.                                                          *)
Joins(p, q) ==
  \E e \in Entries(p.l, p.r, p.c), f \in Entries(q.l, q.r, q.c) :
    /\ e.row = CellOf(q) /\ f.row = CellOf(p)
    /\ Agree(e.value, f.value) /\ Agree(f.value, e.value)

LEMMA JoinsByEntries ==
  ASSUME NEW p, NEW q, NEW e \in Entries(p.l, p.r, p.c), NEW f \in Entries(q.l, q.r, q.c),
         e.row = CellOf(q), f.row = CellOf(p), Agree(e.value, f.value), Agree(f.value, e.value)
  PROVE  Joins(p, q) /\ Joins(q, p)
  BY DEF Joins

LEMMA JoinsByHeat ==
  ASSUME NEW p, NEW q, NEW g, Heat(g),
         Conducts(CellOf(q), g) \in Entries(p.l, p.r, p.c),
         Conducts(CellOf(p), g) \in Entries(q.l, q.r, q.c)
  PROVE  Joins(p, q) /\ Joins(q, p)
<1>1. /\ Conducts(CellOf(q), g).row = CellOf(q) /\ Conducts(CellOf(q), g).value = Term(-1, g)
      /\ Conducts(CellOf(p), g).row = CellOf(p) /\ Conducts(CellOf(p), g).value = Term(-1, g)
  BY DEF Conducts
<1>2. Agree(Term(-1, g), Term(-1, g))
  BY AgreeEqual
<1> QED BY <1>1, <1>2, JoinsByEntries

LEMMA JoinsInStack ==
  ASSUME Sized, NEW l, NEW r, NEW c, InStack(l, r, c), NEW m, NEW s, NEW d, InStack(m, s, d),
         NEW g, Heat(g),
         Conducts(Cell(m, s, d), g) \in Entries(l, r, c),
         Conducts(Cell(l, r, c), g) \in Entries(m, s, d)
  PROVE  Joins(AtCell(l, r, c), AtCell(m, s, d)) /\ Joins(AtCell(m, s, d), AtCell(l, r, c))
<1> DEFINE p == AtCell(l, r, c)  q == AtCell(m, s, d)
<1>1. CellOf(p) = Cell(l, r, c) /\ CellOf(q) = Cell(m, s, d)
  BY StackCell
<1>2. p.l = l /\ p.r = r /\ p.c = c /\ q.l = m /\ q.r = s /\ q.c = d
  BY DEF AtCell
<1> HIDE DEF p, q
<1>3. Joins(p, q) /\ Joins(q, p)
  BY <1>1, <1>2, JoinsByHeat
<1> QED BY <1>3 DEF p, q

(* A layer without walls above and below the coolant.                      *)
Plain(l) == Type(l).kind \in Solids \cup {"CHANNEL_4RM"}

LEMMA PlainCell ==
  ASSUME NEW l, NEW c
  PROVE  /\ Plain(l) <=> SolidLike(l, c) \/ Liquid4rm(l, c)
         /\ Plain(l) => Type(l).kind \notin Walls
  BY DEF Plain, SolidLike, Liquid4rm, Solids, Walls

LEMMA NoWalls4rm ==
  ASSUME Typed, NEW l \in 0 .. NLayers - 1, Type(l).kind = "CHANNEL_4RM"
  PROVE  \A m \in 0 .. NLayers - 1 : Plain(m)
<1>1. Type(l).kind \notin Solids
  BY DEF Solids
<1>2. ASSUME is2RM(declared.channel), NEW k \in 0 .. 3, ChannelAt(l - k) PROVE FALSE
  <2>1. k = 0 \/ k = 1 \/ k = 2 \/ k = 3
    OBVIOUS
  <2>2. Type(l).kind \in {"BOTTOM_WALL", "TOP_WALL"} \cup VirtualWalls \cup Coolants
    BY <1>2, <2>1 DEF ChannelAt
  <2> QED BY <2>2 DEF VirtualWalls, Coolants, Pins
<1>3. declared.channel = "MC_4RM"
  BY <1>1, <1>2 DEF Typed
<1>4. ~ is2RM(declared.channel)
  BY <1>3 DEF is2RM
<1> QED BY <1>4 DEF Typed, Plain

LEMMA NextLayers ==
  ASSUME Sized, Typed, NEW l \in 0 .. NLayers - 1
  PROVE  /\ l # NLayers - 1 /\ (Plain(l) \/ Type(l).kind = "TOP_WALL") =>
              Plain(l + 1) \/ Type(l + 1).kind = "BOTTOM_WALL"
         /\ l # 0 /\ (Plain(l) \/ Type(l).kind = "BOTTOM_WALL") =>
              Plain(l - 1) \/ Type(l - 1).kind = "TOP_WALL"
         /\ ~ Plain(l) => l # 0 /\ l # NLayers - 1
<1>0. NLayers \in Nat \ {0}
  BY DEF Sized
<1> DEFINE C2 == Coolants
<1>1. ASSUME NEW m \in 0 .. NLayers - 1, ~ Plain(m)
      PROVE  /\ Type(m).kind = "BOTTOM_WALL" => ChannelAt(m)
             /\ Type(m).kind \in VirtualWalls => ChannelAt(m - 1)
             /\ Type(m).kind \in Coolants => ChannelAt(m - 2)
             /\ Type(m).kind = "TOP_WALL" => ChannelAt(m - 3)
             /\ Type(m).kind \in {"BOTTOM_WALL", "TOP_WALL"} \cup VirtualWalls \cup Coolants
  BY <1>1, WhichChannel DEF Plain
<1>2. ASSUME l # NLayers - 1, Plain(l) \/ Type(l).kind = "TOP_WALL", ~ Plain(l + 1)
      PROVE  Type(l + 1).kind = "BOTTOM_WALL"
  <2>1. l + 1 \in 0 .. NLayers - 1
    BY <1>0, <1>2
  <2>2. Type(l).kind \notin {"BOTTOM_WALL"} \cup VirtualWalls \cup Coolants
    BY <1>2 DEF Plain, Solids, VirtualWalls, Coolants, Pins
  <2>3. Type(l + 1).kind \in VirtualWalls => Type(l).kind = "BOTTOM_WALL"
    <3>1. (l + 1) - 1 = l
      OBVIOUS
    <3> QED BY <1>1, <1>2, <2>1, <3>1 DEF ChannelAt
  <2>4. Type(l + 1).kind \in Coolants => Type(l).kind \in VirtualWalls
    <3>1. ((l + 1) - 2) + 1 = l
      OBVIOUS
    <3> QED BY <1>1, <1>2, <2>1, <3>1 DEF ChannelAt
  <2>5. Type(l + 1).kind = "TOP_WALL" => Type(l).kind \in Coolants
    <3>1. ((l + 1) - 3) + 2 = l
      OBVIOUS
    <3> QED BY <1>1, <1>2, <2>1, <3>1 DEF ChannelAt
  <2> QED BY <1>1, <1>2, <2>1, <2>2, <2>3, <2>4, <2>5
<1>3. ASSUME l # 0, Plain(l) \/ Type(l).kind = "BOTTOM_WALL", ~ Plain(l - 1)
      PROVE  Type(l - 1).kind = "TOP_WALL"
  <2>1. l - 1 \in 0 .. NLayers - 1
    BY <1>0, <1>3
  <2>2. Type(l).kind \notin {"TOP_WALL"} \cup VirtualWalls \cup Coolants
    BY <1>3 DEF Plain, Solids, VirtualWalls, Coolants, Pins
  <2>3. Type(l - 1).kind = "BOTTOM_WALL" => Type(l).kind \in VirtualWalls
    <3>1. (l - 1) + 1 = l
      OBVIOUS
    <3> QED BY <1>1, <1>3, <2>1, <3>1 DEF ChannelAt
  <2>4. Type(l - 1).kind \in VirtualWalls => Type(l).kind \in Coolants
    <3>1. ((l - 1) - 1) + 2 = l
      OBVIOUS
    <3> QED BY <1>1, <1>3, <2>1, <3>1 DEF ChannelAt
  <2>5. Type(l - 1).kind \in Coolants => Type(l).kind = "TOP_WALL"
    <3>1. ((l - 1) - 2) + 3 = l
      OBVIOUS
    <3> QED BY <1>1, <1>3, <2>1, <3>1 DEF ChannelAt
  <2> QED BY <1>1, <1>3, <2>1, <2>2, <2>3, <2>4, <2>5
<1>4. ~ Plain(l) => l # 0 /\ l # NLayers - 1
  BY DEF Typed, Plain
<1> QED BY <1>2, <1>3, <1>4

(* From a layer without walls to the one above, and back.                  *)
LEMMA UpperEntry ==
  ASSUME Sized, Typed, NEW l, NEW r, NEW c, InStack(l, r, c), Plain(l), l # NLayers - 1
  PROVE  Conducts(Cell(l + 1, r, c), Joint(get_conductance_top(l, r, c),
                                           get_conductance_bottom(l + 1, r, c)))
           \in Entries(l, r, c)
<1>1. l \in 0 .. NLayers - 1 /\ ~ last_layer(l) /\ l + 1 \in 0 .. NLayers - 1
  BY DEF InStack, last_layer, Sized
<1>2. CASE SolidLike(l, c)
  BY <1>1, <1>2, EntriesByKind DEF SolidEntries, Opt
<1>3. CASE Liquid4rm(l, c)
  <2>1. Plain(l + 1) /\ l + 1 # 0
    BY <1>1, <1>3, NoWalls4rm DEF Liquid4rm
  <2>2. get_conductance_bottom(l + 1, r, c) # Zero
    BY <1>1, <2>1, PlainCell, HeatUpwards
  <2>3. Conducts(Cell(l + 1, r, c), PARALLEL(get_conductance_top(l, r, c),
                                             get_conductance_bottom(l + 1, r, c)))
          \in Entries(l, r, c)
    BY <1>1, <1>3, EntriesByKind DEF Liquid4rmEntries, Opt
  <2> QED BY <2>2, <2>3 DEF Joint
<1> QED BY <1>2, <1>3, PlainCell

LEMMA LowerEntry ==
  ASSUME Sized, Typed, NEW l, NEW r, NEW c, InStack(l, r, c), Plain(l), l # 0
  PROVE  Conducts(Cell(l - 1, r, c), Joint(get_conductance_bottom(l, r, c),
                                           get_conductance_top(l - 1, r, c)))
           \in Entries(l, r, c)
<1>1. l \in 0 .. NLayers - 1 /\ ~ first_layer(l) /\ l - 1 \in 0 .. NLayers - 1
  BY DEF InStack, first_layer, Sized
<1>2. CASE SolidLike(l, c)
  BY <1>1, <1>2, EntriesByKind DEF SolidEntries, Opt
<1>3. CASE Liquid4rm(l, c)
  <2>1. Plain(l - 1) /\ l - 1 # NLayers - 1
    BY <1>1, <1>3, NoWalls4rm DEF Liquid4rm
  <2>2. get_conductance_top(l - 1, r, c) # Zero
    BY <1>1, <2>1, PlainCell, HeatUpwards
  <2>3. Conducts(Cell(l - 1, r, c), PARALLEL(get_conductance_bottom(l, r, c),
                                             get_conductance_top(l - 1, r, c)))
          \in Entries(l, r, c)
    BY <1>1, <1>3, EntriesByKind DEF Liquid4rmEntries, Opt
  <2> QED BY <2>2, <2>3 DEF Joint
<1> QED BY <1>2, <1>3, PlainCell

(* The cells of two neighbouring layers, of which the lower one is not the *)
(* wall or the coolant of a channel and the upper one not its coolant.     *)
LEMMA JoinsAbove ==
  ASSUME Sized, Typed, NEW l, NEW r, NEW c, InStack(l, r, c), l # NLayers - 1,
         Plain(l) \/ Type(l).kind = "TOP_WALL"
  PROVE  /\ InStack(l + 1, r, c)
         /\ Joins(AtCell(l, r, c), AtCell(l + 1, r, c))
         /\ Joins(AtCell(l + 1, r, c), AtCell(l, r, c))
<1>1. /\ InStack(l + 1, r, c) /\ l \in 0 .. NLayers - 1 /\ l + 1 \in 0 .. NLayers - 1
      /\ l + 1 # 0 /\ (l + 1) - 1 = l /\ l \in Int
  BY DEF InStack, Sized
<1> DEFINE up == get_conductance_top(l, r, c)  down == get_conductance_bottom(l + 1, r, c)
<1>2. Plain(l + 1) \/ Type(l + 1).kind = "BOTTOM_WALL"
  BY <1>1, NextLayers
<1>3. ~ Plain(l + 1) => l + 1 # NLayers - 1
  BY <1>1, NextLayers
<1>4. Plain(l) => Conducts(Cell(l + 1, r, c), Joint(up, down)) \in Entries(l, r, c)
  BY UpperEntry
<1>5. Plain(l + 1) => Conducts(Cell(l, r, c), Joint(down, up)) \in Entries(l + 1, r, c)
  BY <1>1, LowerEntry
<1>6. ~ Plain(l) => Conducts(Cell(l + 1, r, c), down) \in Entries(l, r, c)
  <2>1. ~ Plain(l) => Entries(l, r, c) = TopWallEntries(l, r, c)
    BY <1>1, EntriesByKind
  <2> QED BY <2>1 DEF TopWallEntries, Opt, last_layer
<1>7. ~ Plain(l + 1) => Conducts(Cell(l, r, c), up) \in Entries(l + 1, r, c)
  <2>1. ~ Plain(l + 1) => Entries(l + 1, r, c) = BottomWallEntries(l + 1, r, c)
    BY <1>1, <1>2, EntriesByKind
  <2>2. Conducts(Cell((l + 1) - 1, r, c), get_conductance_top((l + 1) - 1, r, c))
          = Conducts(Cell(l, r, c), up)
    BY <1>1
  <2>3. ~ first_layer(l + 1)
    BY <1>1 DEF first_layer
  <2> HIDE DEF up
  <2> QED BY <2>1, <2>2, <2>3 DEF BottomWallEntries, Opt
<1>8. /\ Heat(up) /\ Heat(down)
      /\ ~ Plain(l) => up = Zero
      /\ ~ Plain(l + 1) => down = Zero
      /\ Plain(l) => up # Zero
      /\ Plain(l + 1) => down # Zero
  BY <1>1, <1>2, PlainCell, HeatUpwards DEF Walls
<1>9. PICK g : /\ Heat(g)
               /\ Conducts(Cell(l + 1, r, c), g) \in Entries(l, r, c)
               /\ Conducts(Cell(l, r, c), g) \in Entries(l + 1, r, c)
  <2> HIDE DEF up, down
  <2>1. CASE Plain(l) /\ Plain(l + 1)
    <3>1. Joint(up, down) = PARALLEL(up, down) /\ Joint(down, up) = PARALLEL(up, down)
      BY <1>8, <2>1, HeatOfParallel DEF Joint
    <3> QED BY <1>4, <1>5, <2>1, <3>1, HeatOfParallel
  <2>2. CASE Plain(l) /\ ~ Plain(l + 1)
    <3>1. Joint(up, down) = up
      BY <1>8, <2>2 DEF Joint
    <3> QED BY <1>4, <1>7, <1>8, <2>2, <3>1
  <2>3. CASE ~ Plain(l) /\ Plain(l + 1)
    <3>1. Joint(down, up) = down
      BY <1>8, <2>3 DEF Joint
    <3> QED BY <1>5, <1>6, <1>8, <2>3, <3>1
  <2>4. CASE ~ Plain(l) /\ ~ Plain(l + 1)
    <3>1. up = down
      BY <1>8, <2>4
    <3> QED BY <1>6, <1>7, <1>8, <2>4, <3>1
  <2> QED BY <2>1, <2>2, <2>3, <2>4
<1> QED BY <1>1, <1>9, JoinsInStack

(* Between the four layers of a channel from b up.                         *)
LEMMA JoinsInChannel ==
  ASSUME Sized, Typed, NEW b, ChannelAt(b), NEW r, NEW c, InStack(b, r, c)
  PROVE  /\ InStack(b + 1, r, c) /\ InStack(b + 2, r, c) /\ InStack(b + 3, r, c)
         /\ Joins(AtCell(b, r, c), AtCell(b + 1, r, c))
         /\ Joins(AtCell(b + 1, r, c), AtCell(b, r, c))
         /\ Joins(AtCell(b, r, c), AtCell(b + 2, r, c))
         /\ Joins(AtCell(b + 2, r, c), AtCell(b, r, c))
         /\ Joins(AtCell(b + 1, r, c), AtCell(b + 3, r, c))
         /\ Joins(AtCell(b + 3, r, c), AtCell(b + 1, r, c))
         /\ Joins(AtCell(b + 2, r, c), AtCell(b + 3, r, c))
         /\ Joins(AtCell(b + 3, r, c), AtCell(b + 2, r, c))
<1>1. /\ b \in 0 .. NLayers - 1 /\ b + 1 \in 0 .. NLayers - 1 /\ b + 2 \in 0 .. NLayers - 1
      /\ b + 3 \in 0 .. NLayers - 1
      /\ b # NLayers - 1 /\ b + 1 # NLayers - 1 /\ b + 2 # NLayers - 1
      /\ b + 1 # 0 /\ b + 2 # 0 /\ b + 3 # 0
      /\ (b + 1) - 1 = b /\ (b + 2) - 2 = b /\ (b + 3) - 1 = b + 2 /\ (b + 3) - 2 = b + 1
      /\ (b + 1) + 2 = b + 3 /\ (b + 2) + 1 = b + 3
      /\ b \in Int
  BY DEF ChannelAt, Sized
<1>2. InStack(b + 1, r, c) /\ InStack(b + 2, r, c) /\ InStack(b + 3, r, c)
  BY <1>1 DEF InStack
<1>3. /\ Entries(b, r, c) = BottomWallEntries(b, r, c)
      /\ Entries(b + 1, r, c) = VirtualWallEntries(b + 1, r, c)
      /\ Entries(b + 2, r, c) = Liquid2rmEntries(b + 2, r, c)
      /\ Entries(b + 3, r, c) = TopWallEntries(b + 3, r, c)
  BY <1>1, EntriesByKind DEF ChannelAt
<1>4. /\ get_conductance_top(b + 1, r, c) = get_conductance_bottom(b + 1, r, c)
      /\ Heat(get_conductance_top(b + 1, r, c))
      /\ Heat(get_conductance_top(b + 2, r, c)) /\ Heat(get_conductance_bottom(b + 2, r, c))
  BY <1>1, HeatUpwards DEF ChannelAt
<1>5. /\ Conducts(Cell(b + 1, r, c), get_conductance_top(b + 1, r, c)) \in Entries(b, r, c)
      /\ Conducts(Cell(b + 2, r, c), get_conductance_bottom(b + 2, r, c)) \in Entries(b, r, c)
  BY <1>1, <1>3 DEF BottomWallEntries, Opt, last_layer
<1>6. /\ Conducts(Cell(b, r, c), get_conductance_bottom(b + 1, r, c)) \in Entries(b + 1, r, c)
      /\ Conducts(Cell(b + 3, r, c), get_conductance_top(b + 1, r, c)) \in Entries(b + 1, r, c)
  BY <1>1, <1>3 DEF VirtualWallEntries, Opt, first_layer, last_layer
<1>7. /\ Conducts(Cell(b, r, c), get_conductance_bottom(b + 2, r, c)) \in Entries(b + 2, r, c)
      /\ Conducts(Cell(b + 3, r, c), get_conductance_top(b + 2, r, c)) \in Entries(b + 2, r, c)
  BY <1>1, <1>3 DEF Liquid2rmEntries, Opt, first_layer, last_layer
<1>8. /\ Conducts(Cell(b + 1, r, c), get_conductance_top(b + 1, r, c)) \in Entries(b + 3, r, c)
      /\ Conducts(Cell(b + 2, r, c), get_conductance_top(b + 2, r, c)) \in Entries(b + 3, r, c)
  BY <1>1, <1>3 DEF TopWallEntries, Opt, first_layer
<1>9. /\ Joins(AtCell(b, r, c), AtCell(b + 1, r, c))
      /\ Joins(AtCell(b + 1, r, c), AtCell(b, r, c))
  BY <1>2, <1>4, <1>5, <1>6, JoinsInStack
<1>10. /\ Joins(AtCell(b, r, c), AtCell(b + 2, r, c))
       /\ Joins(AtCell(b + 2, r, c), AtCell(b, r, c))
  BY <1>2, <1>4, <1>5, <1>7, JoinsInStack
<1>11. /\ Joins(AtCell(b + 1, r, c), AtCell(b + 3, r, c))
       /\ Joins(AtCell(b + 3, r, c), AtCell(b + 1, r, c))
  BY <1>2, <1>4, <1>6, <1>8, JoinsInStack
<1>12. /\ Joins(AtCell(b + 2, r, c), AtCell(b + 3, r, c))
       /\ Joins(AtCell(b + 3, r, c), AtCell(b + 2, r, c))
  BY <1>2, <1>4, <1>7, <1>8, JoinsInStack
<1> QED BY <1>2, <1>9, <1>10, <1>11, <1>12

(* Along the flow and across it.                                           *)
LEMMA JoinsEast ==
  ASSUME Sized, Typed, NEW l, NEW r, NEW c, InStack(l, r, c), InStack(l, r, c + 1), Plain(l)
  PROVE  /\ Joins(AtCell(l, r, c), AtCell(l, r, c + 1))
         /\ Joins(AtCell(l, r, c + 1), AtCell(l, r, c))
<1>1. /\ l \in 0 .. NLayers - 1 /\ c # declared.ncolumns - 1 /\ c + 1 # 0 /\ (c + 1) - 1 = c
  BY Sizes DEF InStack, Sized
<1> DEFINE g == PARALLEL(get_conductance_east(l, r, c), get_conductance_west(l, r, c + 1))
<1>2. /\ Heat(g)
      /\ g = PARALLEL(get_conductance_west(l, r, c + 1), get_conductance_east(l, r, c))
  BY HeatOfParallel
<1>3. Conducts(Cell(l, r, c + 1), g) \in SolidEntries(l, r, c) \cap Liquid4rmEntries(l, r, c)
  BY <1>1 DEF SolidEntries, Liquid4rmEntries, Opt
<1>4. Conducts(Cell(l, r, c), g) \in SolidEntries(l, r, c + 1) \cap Liquid4rmEntries(l, r, c + 1)
  <2> HIDE DEF g
  <2> QED BY <1>1, <1>2 DEF SolidEntries, Liquid4rmEntries, Opt
<1>5. \A d : Entries(l, r, d) = SolidEntries(l, r, d) \/ Entries(l, r, d) = Liquid4rmEntries(l, r, d)
  BY <1>1, PlainCell, EntriesByKind
<1> HIDE DEF g
<1>6. /\ Conducts(Cell(l, r, c + 1), g) \in Entries(l, r, c)
      /\ Conducts(Cell(l, r, c), g) \in Entries(l, r, c + 1)
  BY <1>3, <1>4, <1>5
<1> QED BY <1>2, <1>6, JoinsInStack

LEMMA JoinsNorth ==
  ASSUME Sized, Typed, NEW l, NEW r, NEW c, InStack(l, r, c), InStack(l, r + 1, c),
         \/ Plain(l) \/ Type(l).kind \in Coolants
         \/ Type(l).kind \in VirtualWalls /\ declared.channel = "MC_2RM"
  PROVE  /\ Joins(AtCell(l, r, c), AtCell(l, r + 1, c))
         /\ Joins(AtCell(l, r + 1, c), AtCell(l, r, c))
<1>1. /\ l \in 0 .. NLayers - 1 /\ ~ last_row(r) /\ ~ first_row(r + 1) /\ (r + 1) - 1 = r
  BY Sizes DEF InStack, Sized, last_row, first_row
<1>2. CASE SolidLike(l, c)
  <2> DEFINE g == PARALLEL(get_conductance_north(l, r, c), get_conductance_south(l, r + 1, c))
  <2>1. /\ Heat(g)
        /\ g = PARALLEL(get_conductance_south(l, r + 1, c), get_conductance_north(l, r, c))
    BY HeatOfParallel
  <2>2. \A s : Entries(l, s, c) = SolidEntries(l, s, c)
    BY <1>1, <1>2, EntriesByKind
  <2>3. Conducts(Cell(l, r + 1, c), g) \in Entries(l, r, c)
    BY <1>1, <2>2 DEF SolidEntries, Opt
  <2>4. Conducts(Cell(l, r, c), g) \in Entries(l, r + 1, c)
    <3> HIDE DEF g
    <3> QED BY <1>1, <2>1, <2>2 DEF SolidEntries, Opt
  <2> HIDE DEF g
  <2> QED BY <2>1, <2>3, <2>4, JoinsInStack
<1>3. CASE Liquid4rm(l, c) \/ Type(l).kind \in Coolants
  <2> DEFINE g == get_convective_term(l, c)
             e == Carries(Cell(l, r + 1, c), Minus(g))
             f == Carries(Cell(l, r, c), g)
  <2>1. IsCoolant(l, c)
    BY <1>3 DEF IsCoolant, Liquid4rm, Coolants
  <2>2. \A s : get_conductance_north(l, s, c) = g /\ get_conductance_south(l, s, c) = Minus(g)
    <3>1. ASSUME NEW s, NEW h PROVE AlongFlow(l, s, c, h) = h
      <4>1. Type(l).kind \notin Walls \cup {"VWALL_PINFINS", "VWALL_CHANNEL"}
        BY <2>1 DEF IsCoolant, Walls, Pins
      <4> QED BY <2>1, <4>1 DEF AlongFlow
    <3> QED BY <3>1 DEF get_conductance_north, get_conductance_south
  <2>3. \A s : \/ Entries(l, s, c) = Liquid4rmEntries(l, s, c)
               \/ Entries(l, s, c) = Liquid2rmEntries(l, s, c)
    BY <1>1, <1>3, EntriesByKind
  <2>4. e \in Entries(l, r, c)
    <3> HIDE DEF g
    <3> QED BY <1>1, <2>2, <2>3 DEF Liquid4rmEntries, Liquid2rmEntries, Opt
  <2>5. f \in Entries(l, r + 1, c)
    <3>1. f = Carries(Cell(l, (r + 1) - 1, c), get_conductance_north(l, r + 1, c))
      BY <1>1, <2>2
    <3> HIDE DEF f
    <3> QED BY <1>1, <2>3, <3>1 DEF Liquid4rmEntries, Liquid2rmEntries, Opt
  <2>6. /\ e.row = Cell(l, r + 1, c) /\ e.value = Term(1, Minus(g))
        /\ f.row = Cell(l, r, c) /\ f.value = Term(1, g)
    BY DEF Carries
  <2>7. Agree(e.value, f.value) /\ Agree(f.value, e.value)
    BY <2>6, AgreeCarried
  <2> DEFINE p == AtCell(l, r, c)  q == AtCell(l, r + 1, c)
  <2>8. /\ CellOf(p) = Cell(l, r, c) /\ CellOf(q) = Cell(l, r + 1, c)
        /\ p.l = l /\ p.r = r /\ p.c = c /\ q.l = l /\ q.r = r + 1 /\ q.c = c
    BY StackCell DEF AtCell
  <2> HIDE DEF e, f, p, q
  <2>9. Joins(p, q) /\ Joins(q, p)
    BY <2>4, <2>5, <2>6, <2>7, <2>8, JoinsByEntries
  <2> QED BY <2>9 DEF p, q
<1>4. CASE Type(l).kind \in VirtualWalls /\ declared.channel = "MC_2RM"
  <2> DEFINE g == AlongWall(l, r, c)
  <2>1. Heat(g)
    BY HeatOfParallel DEF AlongWall
  <2>2. AlongWall(l, r + 1, c) = g
    <3>1. Type(l).kind \notin Solids /\ ~ IsCoolant(l, c) /\ IsVirtualWall(l)
      BY <1>4 DEF Solids, IsCoolant, IsVirtualWall, VirtualWalls, Pins
    <3>2. /\ get_conductance_north(l, r + 1, c) = get_conductance_north(l, r, c)
          /\ get_conductance_south(l, r + 1, c) = get_conductance_south(l, r, c)
      BY <3>1 DEF get_conductance_north, get_conductance_south, AlongFlow, IsVirtualWall, Of
    <3> QED BY <3>2 DEF AlongWall
  <2>3. \A s : Entries(l, s, c) = VirtualWallEntries(l, s, c)
    BY <1>1, <1>4, EntriesByKind
  <2> HIDE DEF g
  <2>4. Conducts(Cell(l, r + 1, c), g) \in Entries(l, r, c)
    BY <1>1, <1>4, <2>3 DEF VirtualWallEntries, Opt, g
  <2>5. Conducts(Cell(l, r, c), g) \in Entries(l, r + 1, c)
    BY <1>1, <1>4, <2>2, <2>3 DEF VirtualWallEntries, Opt
  <2> QED BY <2>1, <2>4, <2>5, JoinsInStack
<1> QED BY <1>2, <1>3, <1>4, PlainCell

(* The spreader, which is a layer of its own above the stack.              *)
LEMMA SpreaderPosition ==
  ASSUME Sized, Pluggable, NEW r \in 0 .. SpreaderRows - 1, NEW c \in 0 .. SpreaderColumns - 1
  PROVE  /\ Position(AtCell(NLayers, r, c)) /\ CellOf(AtCell(NLayers, r, c)) = SpreaderCell(r, c)
         /\ Entries(NLayers, r, c) = SpreaderEntries(r, c)
<1>1. NLayers \in 0 .. NLayers
  BY DEF Sized
<1> QED BY <1>1 DEF Position, CellOf, AtCell, RowsAt, ColumnsAt, Entries

LEMMA JoinsSpreader ==
  ASSUME Sized, Typed, Pluggable, NEW r \in 0 .. SpreaderRows - 1, NEW c \in 0 .. SpreaderColumns - 1
  PROVE  /\ c + 1 \in 0 .. SpreaderColumns - 1 =>
              /\ Joins(AtCell(NLayers, r, c), AtCell(NLayers, r, c + 1))
              /\ Joins(AtCell(NLayers, r, c + 1), AtCell(NLayers, r, c))
         /\ r + 1 \in 0 .. SpreaderRows - 1 =>
              /\ Joins(AtCell(NLayers, r, c), AtCell(NLayers, r + 1, c))
              /\ Joins(AtCell(NLayers, r + 1, c), AtCell(NLayers, r, c))
<1>0. SpreaderRows \in Nat \ {0} /\ SpreaderColumns \in Nat \ {0}
  BY Sizes DEF Sized
<1>1. Heat(EastWestJoint) /\ Heat(NorthSouthJoint)
  BY HeatOfParallel DEF EastWestJoint, NorthSouthJoint
<1> DEFINE p == AtCell(NLayers, r, c)
           q == AtCell(NLayers, r, c + 1)
           n == AtCell(NLayers, r + 1, c)
<1>2. /\ CellOf(p) = SpreaderCell(r, c) /\ Entries(p.l, p.r, p.c) = SpreaderEntries(r, c)
  BY SpreaderPosition DEF AtCell
<1>3. ASSUME c + 1 \in 0 .. SpreaderColumns - 1
      PROVE  Joins(p, q) /\ Joins(q, p)
  <2>1. CellOf(q) = SpreaderCell(r, c + 1) /\ Entries(q.l, q.r, q.c) = SpreaderEntries(r, c + 1)
    BY <1>3, SpreaderPosition DEF AtCell
  <2>2. c # SpreaderColumns - 1 /\ c + 1 # 0 /\ (c + 1) - 1 = c
    BY <1>0, <1>3
  <2>3. /\ Conducts(SpreaderCell(r, c + 1), EastWestJoint) \in SpreaderEntries(r, c)
        /\ Conducts(SpreaderCell(r, c), EastWestJoint) \in SpreaderEntries(r, c + 1)
    BY <2>2 DEF SpreaderEntries, Opt
  <2> HIDE DEF p, q
  <2> QED BY <1>1, <1>2, <2>1, <2>3, JoinsByHeat
<1>4. ASSUME r + 1 \in 0 .. SpreaderRows - 1
      PROVE  Joins(p, n) /\ Joins(n, p)
  <2>1. CellOf(n) = SpreaderCell(r + 1, c) /\ Entries(n.l, n.r, n.c) = SpreaderEntries(r + 1, c)
    BY <1>4, SpreaderPosition DEF AtCell
  <2>2. r # SpreaderRows - 1 /\ r + 1 # 0 /\ (r + 1) - 1 = r
    BY <1>0, <1>4
  <2>3. /\ Conducts(SpreaderCell(r + 1, c), NorthSouthJoint) \in SpreaderEntries(r, c)
        /\ Conducts(SpreaderCell(r, c), NorthSouthJoint) \in SpreaderEntries(r + 1, c)
    BY <2>2 DEF SpreaderEntries, Opt
  <2> HIDE DEF p, n
  <2> QED BY <1>1, <1>2, <2>1, <2>3, JoinsByHeat
<1> QED BY <1>3, <1>4

LEMMA JoinsToSpreader ==
  ASSUME Sized, Typed, Pluggable, NEW r, NEW c, InStack(NLayers - 1, r, c)
  PROVE  LET p == AtCell(NLayers - 1, r, c)
             q == AtCell(NLayers, r + declared.rowborder, c + declared.columnborder)
         IN  /\ Position(q) /\ CellOf(q) = SpreaderCellOver(r, c)
             /\ Joins(p, q) /\ Joins(q, p)
<1> DEFINE rb == declared.rowborder  cb == declared.columnborder
           p == AtCell(NLayers - 1, r, c)
           q == AtCell(NLayers, r + rb, c + cb)
           g == PARALLEL(get_spreader_conductance_top_bottom, get_conductance_top(NLayers - 1, r, c))
<1>1. /\ rb \in Nat /\ cb \in Nat /\ r \in 0 .. declared.nrows - 1
      /\ c \in 0 .. declared.ncolumns - 1 /\ NLayers - 1 \in 0 .. NLayers - 1
      /\ declared.nrows \in Nat /\ declared.ncolumns \in Nat
  BY Sizes DEF Sized, InStack
<1>2. /\ r + rb \in 0 .. SpreaderRows - 1 /\ c + cb \in 0 .. SpreaderColumns - 1
      /\ (r + rb) - rb = r /\ (c + cb) - cb = c
  BY <1>1 DEF SpreaderRows, SpreaderColumns
<1>3. /\ Position(q) /\ CellOf(q) = SpreaderCellOver(r, c)
      /\ Entries(q.l, q.r, q.c) = SpreaderEntries(r + rb, c + cb)
  BY <1>2, SpreaderPosition DEF SpreaderCellOver, AtCell
<1>4. /\ CellOf(p) = Cell(NLayers - 1, r, c)
      /\ Entries(p.l, p.r, p.c) = SolidEntries(NLayers - 1, r, c)
  <2>1. SolidLike(NLayers - 1, c)
    BY DEF Typed, SolidLike
  <2>2. Entries(NLayers - 1, r, c) = SolidEntries(NLayers - 1, r, c)
    BY <1>1, <2>1, EntriesByKind
  <2>3. p.l = NLayers - 1 /\ p.r = r /\ p.c = c
    BY DEF AtCell
  <2>4. CellOf(p) = Cell(NLayers - 1, r, c)
    BY StackCell
  <2> HIDE DEF p
  <2> QED BY <2>2, <2>3, <2>4
<1>5. Conducts(SpreaderCellOver(r, c), g) \in SolidEntries(NLayers - 1, r, c)
  <2>1. ToSpreader(NLayers - 1)
    BY <1>1 DEF Typed
  <2> QED BY <2>1 DEF SolidEntries, Opt
<1>6. Conducts(Cell(NLayers - 1, r, c), g) \in SpreaderEntries(r + rb, c + cb)
  <2>1. has_layer_underneath(r + rb, c + cb)
    BY <1>1 DEF has_layer_underneath
  <2>2. Conducts(CellUnder(r + rb, c + cb),
                 PARALLEL(get_spreader_conductance_top_bottom,
                          get_conductance_top(NLayers - 1, (r + rb) - rb, (c + cb) - cb)))
          \in SpreaderEntries(r + rb, c + cb)
    BY <2>1 DEF SpreaderEntries, Opt
  <2>3. CellUnder(r + rb, c + cb) = Cell(NLayers - 1, r, c)
    BY <1>2 DEF CellUnder
  <2> QED BY <1>2, <2>2, <2>3
<1>7. Heat(g)
  BY HeatOfParallel
<1> HIDE DEF p, q, g
<1>8. Joins(p, q) /\ Joins(q, p)
  BY <1>3, <1>4, <1>5, <1>6, <1>7, JoinsByHeat
<1> QED BY <1>3, <1>8 DEF p, q

Linked(p, n) == \E q : Position(q) /\ CellOf(q) = n /\ Joins(p, q)

LEMMA NeighboursLinked ==
  ASSUME Sized, Typed, NEW l, NEW r, NEW c, InStack(l, r, c)
  PROVE  LET p     == AtCell(l, r, c)
             along == \/ Plain(l) \/ Type(l).kind \in Coolants
                      \/ Type(l).kind \in VirtualWalls /\ declared.channel = "MC_2RM"
         IN  /\ l # NLayers - 1 /\ (Plain(l) \/ Type(l).kind = "TOP_WALL") =>
                  Linked(p, Cell(l + 1, r, c))
             /\ l # 0 /\ (Plain(l) \/ Type(l).kind = "BOTTOM_WALL") => Linked(p, Cell(l - 1, r, c))
             /\ ~ last_row(r) /\ along => Linked(p, Cell(l, r + 1, c))
             /\ ~ first_row(r) /\ along => Linked(p, Cell(l, r - 1, c))
             /\ c # declared.ncolumns - 1 /\ Plain(l) => Linked(p, Cell(l, r, c + 1))
             /\ c # 0 /\ Plain(l) => Linked(p, Cell(l, r, c - 1))
<1> DEFINE p == AtCell(l, r, c)
           along == \/ Plain(l) \/ Type(l).kind \in Coolants
                    \/ Type(l).kind \in VirtualWalls /\ declared.channel = "MC_2RM"
<1>0. /\ l \in 0 .. NLayers - 1 /\ r \in 0 .. declared.nrows - 1 /\ c \in 0 .. declared.ncolumns - 1
      /\ NLayers \in Nat /\ declared.nrows \in Nat /\ declared.ncolumns \in Nat
      /\ (l - 1) + 1 = l /\ (r - 1) + 1 = r /\ (c - 1) + 1 = c
  BY Sizes DEF InStack, Sized
<1>1. ASSUME l # NLayers - 1, Plain(l) \/ Type(l).kind = "TOP_WALL"
      PROVE  Linked(p, Cell(l + 1, r, c))
  BY <1>1, JoinsAbove, StackCell DEF Linked
<1>2. ASSUME l # 0, Plain(l) \/ Type(l).kind = "BOTTOM_WALL"
      PROVE  Linked(p, Cell(l - 1, r, c))
  <2>1. InStack(l - 1, r, c) /\ l - 1 # NLayers - 1
    BY <1>0, <1>2 DEF InStack
  <2>2. Plain(l - 1) \/ Type(l - 1).kind = "TOP_WALL"
    BY <1>0, <1>2, NextLayers
  <2>3. Joins(AtCell((l - 1) + 1, r, c), AtCell(l - 1, r, c))
    BY <2>1, <2>2, JoinsAbove
  <2> QED BY <1>0, <2>1, <2>3, StackCell DEF Linked
<1>3. ASSUME ~ last_row(r), along PROVE Linked(p, Cell(l, r + 1, c))
  <2>1. InStack(l, r + 1, c)
    BY <1>0, <1>3 DEF InStack, last_row
  <2> QED BY <1>3, <2>1, JoinsNorth, StackCell DEF Linked
<1>4. ASSUME ~ first_row(r), along PROVE Linked(p, Cell(l, r - 1, c))
  <2>1. InStack(l, r - 1, c)
    BY <1>0, <1>4 DEF InStack, first_row
  <2>2. Joins(AtCell(l, (r - 1) + 1, c), AtCell(l, r - 1, c))
    <3>1. InStack(l, (r - 1) + 1, c)
      BY <1>0
    <3> QED BY <1>4, <2>1, <3>1, JoinsNorth
  <2> QED BY <1>0, <2>1, <2>2, StackCell DEF Linked
<1>5. ASSUME c # declared.ncolumns - 1, Plain(l) PROVE Linked(p, Cell(l, r, c + 1))
  <2>1. InStack(l, r, c + 1)
    BY <1>0, <1>5 DEF InStack
  <2> QED BY <1>5, <2>1, JoinsEast, StackCell DEF Linked
<1>6. ASSUME c # 0, Plain(l) PROVE Linked(p, Cell(l, r, c - 1))
  <2>1. InStack(l, r, c - 1)
    BY <1>0, <1>6 DEF InStack
  <2>2. Joins(AtCell(l, r, (c - 1) + 1), AtCell(l, r, c - 1))
    <3>1. InStack(l, r, (c - 1) + 1)
      BY <1>0
    <3> QED BY <1>6, <2>1, <3>1, JoinsEast
  <2> QED BY <1>0, <2>1, <2>2, StackCell DEF Linked
<1> QED BY <1>1, <1>2, <1>3, <1>4, <1>5, <1>6

(* The rows of a column are its own cell and the cells that it is joined   *)
(* to.                                                                     *)
EntriesLinked(p) ==
  /\ \E e \in Entries(p.l, p.r, p.c) : e.row = CellOf(p)
  /\ \A e \in Entries(p.l, p.r, p.c) : e.row = CellOf(p) \/ Linked(p, e.row)

LEMMA PlainLinked ==
  ASSUME Sized, Typed, NEW l, NEW r, NEW c, InStack(l, r, c), Plain(l)
  PROVE  EntriesLinked(AtCell(l, r, c))
<1> DEFINE p == AtCell(l, r, c)
<1>1. /\ p.l = l /\ p.r = r /\ p.c = c /\ l \in 0 .. NLayers - 1
      /\ CellOf(p) = Cell(l, r, c)
  BY StackCell DEF AtCell, InStack
<1>2. /\ ~ last_layer(l) => Linked(p, Cell(l + 1, r, c))
      /\ ~ first_layer(l) => Linked(p, Cell(l - 1, r, c))
      /\ ~ last_row(r) => Linked(p, Cell(l, r + 1, c))
      /\ ~ first_row(r) => Linked(p, Cell(l, r - 1, c))
      /\ c # declared.ncolumns - 1 => Linked(p, Cell(l, r, c + 1))
      /\ c # 0 => Linked(p, Cell(l, r, c - 1))
  BY NeighboursLinked DEF first_layer, last_layer
<1>3. ToSpreader(l) => Linked(p, SpreaderCellOver(r, c))
  <2>1. ToSpreader(l) => l = NLayers - 1 /\ Pluggable
    BY <1>1 DEF Typed
  <2> QED BY <2>1, JoinsToSpreader DEF Linked
<1> HIDE DEF p
<1>4. CASE SolidLike(l, c)
  <2>1. Entries(l, r, c) = SolidEntries(l, r, c)
    BY <1>1, <1>4, EntriesByKind
  <2>2. Own(Cell(l, r, c), get_capacity(l, r, c), SinkTerm(l, r, c)) \in SolidEntries(l, r, c)
    BY DEF SolidEntries, Opt
  <2>3. \A e \in SolidEntries(l, r, c) : e.row = Cell(l, r, c) \/ Linked(p, e.row)
    BY <1>2, <1>3 DEF SolidEntries, Opt, Conducts, Own
  <2>4. EntriesLinked(p)
    BY <1>1, <2>1, <2>2, <2>3 DEF EntriesLinked, Own
  <2> QED BY <2>4 DEF p
<1>5. CASE Liquid4rm(l, c)
  <2>1. Entries(l, r, c) = Liquid4rmEntries(l, r, c)
    BY <1>1, <1>5, EntriesByKind
  <2>2. Own(Cell(l, r, c), get_capacity(l, r, c), FlowEnds(l, r, c)) \in Liquid4rmEntries(l, r, c)
    BY DEF Liquid4rmEntries, Opt
  <2>3. \A e \in Liquid4rmEntries(l, r, c) : e.row = Cell(l, r, c) \/ Linked(p, e.row)
    BY <1>2 DEF Liquid4rmEntries, Opt, Conducts, Carries, Own
  <2>4. EntriesLinked(p)
    BY <1>1, <2>1, <2>2, <2>3 DEF EntriesLinked, Own
  <2> QED BY <2>4 DEF p
<1> QED BY <1>4, <1>5, PlainCell

LEMMA WallsLinked ==
  ASSUME Sized, Typed, NEW l, NEW r, NEW c, InStack(l, r, c), ~ Plain(l)
  PROVE  EntriesLinked(AtCell(l, r, c))
<1> DEFINE p == AtCell(l, r, c)
<1>1. /\ p.l = l /\ p.r = r /\ p.c = c /\ l \in 0 .. NLayers - 1
      /\ CellOf(p) = Cell(l, r, c) /\ l # 0 /\ l # NLayers - 1
      /\ r \in 0 .. declared.nrows - 1 /\ c \in 0 .. declared.ncolumns - 1
  BY StackCell, NextLayers DEF AtCell, InStack
<1>2. Type(l).kind \notin Solids \cup {"CHANNEL_4RM"}
  BY DEF Plain
<1>3. ASSUME NEW b, ChannelAt(b) PROVE /\ b \in 0 .. NLayers - 1 /\ InStack(b, r, c)
                                       /\ InStack(b + 1, r, c) /\ InStack(b + 2, r, c)
  <2>1. b \in 0 .. NLayers - 1
    BY <1>3 DEF ChannelAt, Sized
  <2>2. InStack(b, r, c)
    BY <1>1, <2>1 DEF InStack
  <2> QED BY <1>3, <2>1, <2>2, JoinsInChannel
<1>4. CASE Type(l).kind = "BOTTOM_WALL"
  <2>1. ChannelAt(l) /\ Entries(l, r, c) = BottomWallEntries(l, r, c)
    BY <1>1, <1>2, <1>4, WhichChannel, EntriesByKind
  <2>2. /\ Linked(p, Cell(l + 1, r, c)) /\ Linked(p, Cell(l + 2, r, c))
    BY <2>1, JoinsInChannel, StackCell DEF Linked
  <2>3. Linked(p, Cell(l - 1, r, c))
    BY <1>1, <1>4, NeighboursLinked
  <2>4. Own(Cell(l, r, c), get_capacity(l, r, c), Nothing) \in BottomWallEntries(l, r, c)
    BY DEF BottomWallEntries, Opt
  <2> HIDE DEF p
  <2>5. \A e \in BottomWallEntries(l, r, c) : e.row = Cell(l, r, c) \/ Linked(p, e.row)
    BY <2>2, <2>3 DEF BottomWallEntries, Opt, Conducts, Own
  <2>6. EntriesLinked(p)
    BY <1>1, <2>1, <2>4, <2>5 DEF EntriesLinked, Own
  <2> QED BY <2>6 DEF p
<1>5. CASE Type(l).kind \in VirtualWalls
  <2>1. ChannelAt(l - 1) /\ Entries(l, r, c) = VirtualWallEntries(l, r, c)
    BY <1>1, <1>2, <1>5, WhichChannel, EntriesByKind
  <2>2. (l - 1) + 1 = l /\ (l - 1) + 3 = l + 2
    BY <1>1
  <2>3. /\ InStack(l - 1, r, c) /\ InStack(l + 2, r, c)
        /\ Joins(AtCell(l, r, c), AtCell(l - 1, r, c))
        /\ Joins(AtCell(l, r, c), AtCell(l + 2, r, c))
    <3>1. InStack(l - 1, r, c)
      BY <1>3, <2>1
    <3>2. /\ InStack((l - 1) + 3, r, c)
          /\ Joins(AtCell((l - 1) + 1, r, c), AtCell(l - 1, r, c))
          /\ Joins(AtCell((l - 1) + 1, r, c), AtCell((l - 1) + 3, r, c))
      BY <2>1, <3>1, JoinsInChannel
    <3> QED BY <2>2, <3>1, <3>2
  <2>4. Linked(p, Cell(l - 1, r, c)) /\ Linked(p, Cell(l + 2, r, c))
    BY <2>3, StackCell DEF Linked
  <2>5. /\ ~ last_row(r) /\ declared.channel = "MC_2RM" => Linked(p, Cell(l, r + 1, c))
        /\ ~ first_row(r) /\ declared.channel = "MC_2RM" => Linked(p, Cell(l, r - 1, c))
    BY <1>5, NeighboursLinked
  <2>6. Own(Cell(l, r, c), get_capacity(l, r, c), Nothing) \in VirtualWallEntries(l, r, c)
    BY DEF VirtualWallEntries, Opt
  <2> HIDE DEF p
  <2>7. \A e \in VirtualWallEntries(l, r, c) : e.row = Cell(l, r, c) \/ Linked(p, e.row)
    BY <2>4, <2>5 DEF VirtualWallEntries, Opt, Conducts, Own
  <2>8. EntriesLinked(p)
    BY <1>1, <2>1, <2>6, <2>7 DEF EntriesLinked, Own
  <2> QED BY <2>8 DEF p
<1>6. CASE Type(l).kind \in Coolants
  <2>1. ChannelAt(l - 2) /\ Entries(l, r, c) = Liquid2rmEntries(l, r, c)
    BY <1>1, <1>2, <1>6, WhichChannel, EntriesByKind
  <2>2. (l - 2) + 2 = l /\ (l - 2) + 3 = l + 1
    BY <1>1
  <2>3. /\ InStack(l - 2, r, c) /\ InStack(l + 1, r, c)
        /\ Joins(AtCell(l, r, c), AtCell(l - 2, r, c))
        /\ Joins(AtCell(l, r, c), AtCell(l + 1, r, c))
    <3>1. InStack(l - 2, r, c)
      BY <1>3, <2>1
    <3>2. /\ InStack((l - 2) + 3, r, c)
          /\ Joins(AtCell((l - 2) + 2, r, c), AtCell(l - 2, r, c))
          /\ Joins(AtCell((l - 2) + 2, r, c), AtCell((l - 2) + 3, r, c))
      BY <2>1, <3>1, JoinsInChannel
    <3> QED BY <2>2, <3>1, <3>2
  <2>4. Linked(p, Cell(l - 2, r, c)) /\ Linked(p, Cell(l + 1, r, c))
    BY <2>3, StackCell DEF Linked
  <2>5. /\ ~ last_row(r) => Linked(p, Cell(l, r + 1, c))
        /\ ~ first_row(r) => Linked(p, Cell(l, r - 1, c))
    BY <1>6, NeighboursLinked
  <2>6. Own(Cell(l, r, c), get_capacity(l, r, c), FlowEnds(l, r, c)) \in Liquid2rmEntries(l, r, c)
    BY DEF Liquid2rmEntries, Opt
  <2> HIDE DEF p
  <2>7. \A e \in Liquid2rmEntries(l, r, c) : e.row = Cell(l, r, c) \/ Linked(p, e.row)
    BY <2>4, <2>5 DEF Liquid2rmEntries, Opt, Conducts, Carries, Own
  <2>8. EntriesLinked(p)
    BY <1>1, <2>1, <2>6, <2>7 DEF EntriesLinked, Own
  <2> QED BY <2>8 DEF p
<1>7. CASE Type(l).kind = "TOP_WALL"
  <2>1. ChannelAt(l - 3) /\ Entries(l, r, c) = TopWallEntries(l, r, c)
    BY <1>1, <1>2, <1>7, WhichChannel, EntriesByKind
  <2>2. (l - 3) + 3 = l /\ (l - 3) + 1 = l - 2 /\ (l - 3) + 2 = l - 1
    BY <1>1
  <2>3. /\ InStack(l - 2, r, c) /\ InStack(l - 1, r, c)
        /\ Joins(AtCell(l, r, c), AtCell(l - 2, r, c))
        /\ Joins(AtCell(l, r, c), AtCell(l - 1, r, c))
    <3>1. /\ InStack(l - 3, r, c) /\ InStack((l - 3) + 1, r, c) /\ InStack((l - 3) + 2, r, c)
      BY <1>3, <2>1
    <3>2. /\ Joins(AtCell((l - 3) + 3, r, c), AtCell((l - 3) + 1, r, c))
          /\ Joins(AtCell((l - 3) + 3, r, c), AtCell((l - 3) + 2, r, c))
      BY <2>1, <3>1, JoinsInChannel
    <3> QED BY <2>2, <3>1, <3>2
  <2>4. Linked(p, Cell(l - 2, r, c)) /\ Linked(p, Cell(l - 1, r, c))
    BY <2>3, StackCell DEF Linked
  <2>5. Linked(p, Cell(l + 1, r, c))
    BY <1>1, <1>7, NeighboursLinked
  <2>6. Own(Cell(l, r, c), get_capacity(l, r, c), Nothing) \in TopWallEntries(l, r, c)
    BY DEF TopWallEntries, Opt
  <2> HIDE DEF p
  <2>7. \A e \in TopWallEntries(l, r, c) : e.row = Cell(l, r, c) \/ Linked(p, e.row)
    BY <2>4, <2>5 DEF TopWallEntries, Opt, Conducts, Own
  <2>8. EntriesLinked(p)
    BY <1>1, <2>1, <2>6, <2>7 DEF EntriesLinked, Own
  <2> QED BY <2>8 DEF p
<1>8. Type(l).kind \in {"BOTTOM_WALL", "TOP_WALL"} \cup VirtualWalls \cup Coolants
  BY <1>1, <1>2, WhichChannel
<1> QED BY <1>4, <1>5, <1>6, <1>7, <1>8

LEMMA SpreaderLinked ==
  ASSUME Sized, Typed, Pluggable, NEW r \in 0 .. SpreaderRows - 1, NEW c \in 0 .. SpreaderColumns - 1
  PROVE  EntriesLinked(AtCell(NLayers, r, c))
<1> DEFINE p == AtCell(NLayers, r, c)
<1>1. /\ p.l = NLayers /\ p.r = r /\ p.c = c /\ CellOf(p) = SpreaderCell(r, c)
      /\ Entries(NLayers, r, c) = SpreaderEntries(r, c)
  BY SpreaderPosition DEF AtCell
<1>2. SpreaderRows \in Nat \ {0} /\ SpreaderColumns \in Nat \ {0} /\ r \in Int /\ c \in Int
  BY Sizes DEF Sized
<1>3. c # SpreaderColumns - 1 => Linked(p, SpreaderCell(r, c + 1))
  <2>1. c # SpreaderColumns - 1 => c + 1 \in 0 .. SpreaderColumns - 1
    BY <1>2
  <2> QED BY <2>1, JoinsSpreader, SpreaderPosition DEF Linked
<1>4. r # SpreaderRows - 1 => Linked(p, SpreaderCell(r + 1, c))
  <2>1. r # SpreaderRows - 1 => r + 1 \in 0 .. SpreaderRows - 1
    BY <1>2
  <2> QED BY <2>1, JoinsSpreader, SpreaderPosition DEF Linked
<1>5. ASSUME c # 0 PROVE Linked(p, SpreaderCell(r, c - 1))
  <2>1. c - 1 \in 0 .. SpreaderColumns - 1 /\ (c - 1) + 1 = c
    BY <1>2, <1>5
  <2>2. Joins(AtCell(NLayers, r, (c - 1) + 1), AtCell(NLayers, r, c - 1))
    BY <2>1, JoinsSpreader
  <2> QED BY <2>1, <2>2, SpreaderPosition DEF Linked
<1>6. ASSUME r # 0 PROVE Linked(p, SpreaderCell(r - 1, c))
  <2>1. r - 1 \in 0 .. SpreaderRows - 1 /\ (r - 1) + 1 = r
    BY <1>2, <1>6
  <2>2. Joins(AtCell(NLayers, (r - 1) + 1, c), AtCell(NLayers, r - 1, c))
    BY <2>1, JoinsSpreader
  <2> QED BY <2>1, <2>2, SpreaderPosition DEF Linked
<1>7. ASSUME has_layer_underneath(r, c) PROVE Linked(p, CellUnder(r, c))
  <2> DEFINE s == r - declared.rowborder  d == c - declared.columnborder
  <2>1. /\ InStack(NLayers - 1, s, d) /\ s + declared.rowborder = r /\ d + declared.columnborder = c
    <3>1. /\ declared.rowborder \in Nat /\ declared.columnborder \in Nat
          /\ declared.nrows \in Nat /\ declared.ncolumns \in Nat /\ NLayers \in Nat \ {0}
      BY Sizes DEF Sized
    <3>2. s \in 0 .. declared.nrows - 1 /\ d \in 0 .. declared.ncolumns - 1
      BY <1>2, <1>7, <3>1 DEF has_layer_underneath
    <3>3. s + declared.rowborder = r /\ d + declared.columnborder = c
      BY <1>2, <3>1
    <3> HIDE DEF s, d
    <3> QED BY <3>1, <3>2, <3>3 DEF InStack
  <2>2. Joins(AtCell(NLayers, s + declared.rowborder, d + declared.columnborder),
              AtCell(NLayers - 1, s, d))
    <3> HIDE DEF s, d
    <3> QED BY <2>1, JoinsToSpreader
  <2>3. Joins(p, AtCell(NLayers - 1, s, d))
    BY <2>1, <2>2
  <2>4. /\ Position(AtCell(NLayers - 1, s, d))
        /\ CellOf(AtCell(NLayers - 1, s, d)) = CellUnder(r, c)
    BY <2>1, StackCell DEF CellUnder
  <2> QED BY <2>3, <2>4 DEF Linked
<1>8. Own(SpreaderCell(r, c), get_spreader_capacity, Nothing) \in SpreaderEntries(r, c)
  BY DEF SpreaderEntries, Opt
<1> HIDE DEF p
<1>9. \A e \in SpreaderEntries(r, c) : e.row = SpreaderCell(r, c) \/ Linked(p, e.row)
  BY <1>3, <1>4, <1>5, <1>6, <1>7 DEF SpreaderEntries, Opt, Conducts, Own
<1>10. EntriesLinked(p)
  BY <1>1, <1>8, <1>9 DEF EntriesLinked, Own
<1> QED BY <1>10 DEF p

LEMMA AllLinked ==
  ASSUME Sized, Typed, NEW p, Position(p)
  PROVE  EntriesLinked(p)
<1>1. p = AtCell(p.l, p.r, p.c)
  BY DEF Position, AtCell
<1>2. CASE p.l = NLayers
  <2>1. /\ Pluggable /\ p.r \in 0 .. SpreaderRows - 1 /\ p.c \in 0 .. SpreaderColumns - 1
    BY <1>2 DEF Position, RowsAt, ColumnsAt
  <2> QED BY <1>1, <1>2, <2>1, SpreaderLinked
<1>3. CASE p.l # NLayers
  <2>1. InStack(p.l, p.r, p.c)
    BY <1>3 DEF Position, RowsAt, ColumnsAt, InStack, Sized
  <2> QED BY <1>1, <2>1, PlainLinked, WallsLinked
<1> QED BY <1>2, <1>3

-----------------------------------------------------------------------------
(* What does not change while the matrix is written.                       *)

StackVars == <<declared, stack, NLayers, NCells, LayersTypeProfile>>

LEMMA SameTypes ==
  ASSUME UNCHANGED StackVars, NEW l
  PROVE  /\ Type(l)' = Type(l) /\ IsVirtualWall(l)' = IsVirtualWall(l)
         /\ ToSpreader(l)' = ToSpreader(l) /\ ChannelAt(l)' = ChannelAt(l)
         /\ first_layer(l)' = first_layer(l) /\ last_layer(l)' = last_layer(l)
  BY DEF StackVars, Type, IsVirtualWall, ToSpreader, ChannelAt, first_layer, last_layer

LEMMA SameFormulas ==
  ASSUME UNCHANGED StackVars, NEW l, NEW r, NEW c
  PROVE  /\ get_conductance_top(l, r, c)' = get_conductance_top(l, r, c)
         /\ get_conductance_bottom(l, r, c)' = get_conductance_bottom(l, r, c)
         /\ get_conductance_north(l, r, c)' = get_conductance_north(l, r, c)
         /\ get_conductance_south(l, r, c)' = get_conductance_south(l, r, c)
         /\ get_conductance_east(l, r, c)' = get_conductance_east(l, r, c)
         /\ get_conductance_west(l, r, c)' = get_conductance_west(l, r, c)
         /\ get_capacity(l, r, c)' = get_capacity(l, r, c)
         /\ SinkTerm(l, r, c)' = SinkTerm(l, r, c) /\ FlowEnds(l, r, c)' = FlowEnds(l, r, c)
         /\ AlongWall(l, r, c)' = AlongWall(l, r, c)
<1>1. Type(l)' = Type(l) /\ declared' = declared /\ NLayers' = NLayers
  BY DEF StackVars, Type
<1>2. IsCoolant(l, c)' = IsCoolant(l, c) /\ IsVirtualWall(l)' = IsVirtualWall(l)
  BY <1>1 DEF IsCoolant, IsVirtualWall, IsChannelColumn
<1>3. /\ get_conductance_top(l, r, c)' = get_conductance_top(l, r, c)
      /\ get_conductance_bottom(l, r, c)' = get_conductance_bottom(l, r, c)
  BY <1>1, <1>2 DEF get_conductance_top, get_conductance_bottom, Of, ThroughChannel,
                    first_layer, last_layer
<1>4. /\ get_conductance_north(l, r, c)' = get_conductance_north(l, r, c)
      /\ get_conductance_south(l, r, c)' = get_conductance_south(l, r, c)
  BY <1>1, <1>2 DEF get_conductance_north, get_conductance_south, AlongFlow, Of, get_convective_term
<1>5. /\ get_conductance_east(l, r, c)' = get_conductance_east(l, r, c)
      /\ get_conductance_west(l, r, c)' = get_conductance_west(l, r, c)
  BY <1>1, <1>2 DEF get_conductance_east, get_conductance_west, Across, Of, IsChannelColumn
<1>6. get_capacity(l, r, c)' = get_capacity(l, r, c)
  BY <1>1, <1>2 DEF get_capacity, Of
<1>7. SinkTerm(l, r, c)' = SinkTerm(l, r, c) /\ FlowEnds(l, r, c)' = FlowEnds(l, r, c)
  BY <1>1, <1>3, <1>4 DEF SinkTerm, FlowEnds, first_row, last_row
<1>8. AlongWall(l, r, c)' = AlongWall(l, r, c)
  BY <1>4 DEF AlongWall
<1> QED BY <1>3, <1>4, <1>5, <1>6, <1>7, <1>8

LEMMA SameNumbers ==
  ASSUME UNCHANGED StackVars, NEW l, NEW r, NEW c, NEW p
  PROVE  /\ Cell(l, r, c)' = Cell(l, r, c) /\ SpreaderCell(r, c)' = SpreaderCell(r, c)
         /\ SpreaderCellOver(r, c)' = SpreaderCellOver(r, c)
         /\ CellUnder(r, c)' = CellUnder(r, c)
         /\ has_layer_underneath(r, c)' = has_layer_underneath(r, c)
         /\ first_row(r)' = first_row(r) /\ last_row(r)' = last_row(r)
         /\ Position(p)' = Position(p) /\ CellOf(p)' = CellOf(p) /\ Sized' = Sized
  BY DEF StackVars, Cell, SpreaderCell, SpreaderCellOver, CellUnder, has_layer_underneath,
         first_row, last_row, Position, CellOf, Sized, LayerArea, SpreaderColumns, SpreaderRows,
         RowsAt, ColumnsAt, SpreaderCells, Pluggable

LEMMA SameTyped ==
  ASSUME UNCHANGED StackVars
  PROVE  Typed' = Typed
<1>1. declared' = declared /\ NLayers' = NLayers /\ \A l : Type(l)' = Type(l)
  BY DEF StackVars, Type
<1>2. \A l : ToSpreader(l)' = ToSpreader(l) /\ ChannelAt(l)' = ChannelAt(l)
  BY SameTypes
<1>3. Pluggable' = Pluggable
  BY <1>1 DEF Pluggable
<1> QED BY <1>1, <1>2, <1>3 DEF Typed

LEMMA SameColumns ==
  ASSUME UNCHANGED StackVars, Sized, Typed, NEW l \in 0 .. NLayers, NEW r, NEW c
  PROVE  UniformColumn(l, r, c)' = UniformColumn(l, r, c)
<1>0. /\ declared' = declared /\ NLayers' = NLayers
      /\ \A m : /\ Type(m)' = Type(m) /\ ToSpreader(m)' = ToSpreader(m)
                /\ first_layer(m)' = first_layer(m) /\ last_layer(m)' = last_layer(m)
  BY SameTypes DEF StackVars
<1>1. SolidColumn(l, r, c)' = SolidColumn(l, r, c)
  <2> DEFINE a1 == When(~ first_layer(l), Conducts(Cell(l - 1, r, c),
                     Joint(get_conductance_bottom(l, r, c), get_conductance_top(l - 1, r, c))))
             a2 == When(~ first_row(r), Conducts(Cell(l, r - 1, c),
                     PARALLEL(get_conductance_south(l, r, c), get_conductance_north(l, r - 1, c))))
             a3 == When(c # 0, Conducts(Cell(l, r, c - 1),
                     PARALLEL(get_conductance_west(l, r, c), get_conductance_east(l, r, c - 1))))
             a4 == <<Own(Cell(l, r, c), get_capacity(l, r, c), SinkTerm(l, r, c))>>
             a5 == When(c # declared.ncolumns - 1, Conducts(Cell(l, r, c + 1),
                     PARALLEL(get_conductance_east(l, r, c), get_conductance_west(l, r, c + 1))))
             a6 == When(~ last_row(r), Conducts(Cell(l, r + 1, c),
                     PARALLEL(get_conductance_north(l, r, c), get_conductance_south(l, r + 1, c))))
             a7 == When(~ last_layer(l), Conducts(Cell(l + 1, r, c),
                     Joint(get_conductance_top(l, r, c), get_conductance_bottom(l + 1, r, c))))
             a8 == When(ToSpreader(l), Conducts(SpreaderCellOver(r, c),
                     PARALLEL(get_spreader_conductance_top_bottom, get_conductance_top(l, r, c))))
  <2>1. a1' = a1
    BY <1>0, SameFormulas, SameNumbers DEF When, Conducts, Joint
  <2>2. a2' = a2
    BY SameFormulas, SameNumbers DEF When, Conducts
  <2>3. a3' = a3
    BY SameFormulas, SameNumbers DEF When, Conducts
  <2>4. a4' = a4
    BY SameFormulas, SameNumbers DEF Own
  <2>5. a5' = a5
    BY <1>0, SameFormulas, SameNumbers DEF When, Conducts
  <2>6. a6' = a6
    BY SameFormulas, SameNumbers DEF When, Conducts
  <2>7. a7' = a7
    BY <1>0, SameFormulas, SameNumbers DEF When, Conducts, Joint
  <2>8. a8' = a8
    BY <1>0, SameFormulas, SameNumbers DEF When, Conducts
  <2>9. SolidColumn(l, r, c) = a1 \o a2 \o a3 \o a4 \o a5 \o a6 \o a7 \o a8
    BY DEF SolidColumn
  <2>10. SolidColumn(l, r, c)' = a1' \o a2' \o a3' \o a4' \o a5' \o a6' \o a7' \o a8'
    BY DEF SolidColumn
  <2> HIDE DEF a1, a2, a3, a4, a5, a6, a7, a8
  <2> QED BY <2>1, <2>2, <2>3, <2>4, <2>5, <2>6, <2>7, <2>8, <2>9, <2>10
<1>2. LiquidColumn4rm(l, r, c)' = LiquidColumn4rm(l, r, c)
  <2> DEFINE b1 == When(~ first_layer(l), Conducts(Cell(l - 1, r, c),
                     PARALLEL(get_conductance_bottom(l, r, c), get_conductance_top(l - 1, r, c))))
             b2 == When(~ first_row(r), Carries(Cell(l, r - 1, c), get_conductance_north(l, r, c)))
             b3 == When(c # 0, Conducts(Cell(l, r, c - 1),
                     PARALLEL(get_conductance_west(l, r, c), get_conductance_east(l, r, c - 1))))
             b4 == <<Own(Cell(l, r, c), get_capacity(l, r, c), FlowEnds(l, r, c))>>
             b5 == When(c # declared.ncolumns - 1, Conducts(Cell(l, r, c + 1),
                     PARALLEL(get_conductance_east(l, r, c), get_conductance_west(l, r, c + 1))))
             b6 == When(~ last_row(r), Carries(Cell(l, r + 1, c), get_conductance_south(l, r, c)))
             b7 == When(~ last_layer(l), Conducts(Cell(l + 1, r, c),
                     PARALLEL(get_conductance_top(l, r, c), get_conductance_bottom(l + 1, r, c))))
  <2>1. b1' = b1
    BY <1>0, SameFormulas, SameNumbers DEF When, Conducts
  <2>2. b2' = b2
    BY SameFormulas, SameNumbers DEF When, Carries
  <2>3. b3' = b3
    BY SameFormulas, SameNumbers DEF When, Conducts
  <2>4. b4' = b4
    BY SameFormulas, SameNumbers DEF Own
  <2>5. b5' = b5
    BY <1>0, SameFormulas, SameNumbers DEF When, Conducts
  <2>6. b6' = b6
    BY SameFormulas, SameNumbers DEF When, Carries
  <2>7. b7' = b7
    BY <1>0, SameFormulas, SameNumbers DEF When, Conducts
  <2>8. LiquidColumn4rm(l, r, c) = b1 \o b2 \o b3 \o b4 \o b5 \o b6 \o b7
    BY DEF LiquidColumn4rm
  <2>9. LiquidColumn4rm(l, r, c)' = b1' \o b2' \o b3' \o b4' \o b5' \o b6' \o b7'
    BY DEF LiquidColumn4rm
  <2> HIDE DEF b1, b2, b3, b4, b5, b6, b7
  <2> QED BY <2>1, <2>2, <2>3, <2>4, <2>5, <2>6, <2>7, <2>8, <2>9
<1>3. LiquidColumn2rm(l, r, c)' = LiquidColumn2rm(l, r, c)
  BY <1>0, SameFormulas, SameNumbers DEF LiquidColumn2rm, When, Conducts, Carries, Own
<1>4. /\ BottomWallColumn2rm(l, r, c)' = BottomWallColumn2rm(l, r, c)
      /\ TopWallColumn2rm(l, r, c)' = TopWallColumn2rm(l, r, c)
      /\ VirtualWallColumn2rm(l, r, c)' = VirtualWallColumn2rm(l, r, c)
  BY <1>0, SameFormulas, SameNumbers
     DEF BottomWallColumn2rm, TopWallColumn2rm, VirtualWallColumn2rm, When, Conducts, Own
<1>5. SpreaderColumn(r, c)' = SpreaderColumn(r, c)
  <2> DEFINE g == get_conductance_top(NLayers - 1, r - declared.rowborder, c - declared.columnborder)
  <2>1. g' = g
    BY DEF StackVars, get_conductance_top, Of, ThroughChannel, first_layer, last_layer, Type,
           IsCoolant, IsVirtualWall, IsChannelColumn
  <2>2. SpreaderColumns' = SpreaderColumns /\ SpreaderRows' = SpreaderRows
    BY <1>0 DEF SpreaderColumns, SpreaderRows
  <2> DEFINE a1 == When(has_layer_underneath(r, c), Conducts(CellUnder(r, c),
                     PARALLEL(get_spreader_conductance_top_bottom, g)))
             a2 == When(r # 0, Conducts(SpreaderCell(r - 1, c), NorthSouthJoint))
             a3 == When(c # 0, Conducts(SpreaderCell(r, c - 1), EastWestJoint))
             a4 == <<Own(SpreaderCell(r, c), get_spreader_capacity, Nothing)>>
             a5 == When(c # SpreaderColumns - 1, Conducts(SpreaderCell(r, c + 1), EastWestJoint))
             a6 == When(r # SpreaderRows - 1, Conducts(SpreaderCell(r + 1, c), NorthSouthJoint))
  <2>3. SpreaderColumn(r, c) = a1 \o a2 \o a3 \o a4 \o a5 \o a6
    BY DEF SpreaderColumn, NorthSouthJoint, EastWestJoint
  <2>4. SpreaderColumn(r, c)' = a1' \o a2' \o a3' \o a4' \o a5' \o a6'
    BY DEF SpreaderColumn, NorthSouthJoint, EastWestJoint
  <2> HIDE DEF g
  <2>5. a1' = a1
    BY <2>1, SameNumbers DEF When, Conducts
  <2>6. a2' = a2 /\ a3' = a3 /\ a4' = a4
    BY SameNumbers DEF When, Conducts, Own
  <2>7. a5' = a5 /\ a6' = a6
    BY <2>2, SameNumbers DEF When, Conducts
  <2> HIDE DEF a1, a2, a3, a4, a5, a6
  <2> QED BY <2>3, <2>4, <2>5, <2>6, <2>7
<1>6. Type(l)' = Type(l) /\ NLayers' = NLayers /\ IsChannelColumn(c)' = IsChannelColumn(c)
  BY <1>0 DEF IsChannelColumn
<1>7. CASE l = NLayers
  BY <1>5, <1>6, <1>7 DEF UniformColumn
<1>8. CASE l # NLayers
  <2>0. l \in 0 .. NLayers - 1
    BY <1>8, Sizes DEF Sized
  <2>1. CASE SolidLike(l, c)
    <3>1. UniformColumn(l, r, c) = SolidColumn(l, r, c)
      BY <2>0, <2>1, ColumnByKind
    <3>2. UniformColumn(l, r, c)' = SolidColumn(l, r, c)'
      BY <1>6, <1>8, <2>1 DEF UniformColumn, SolidLike, Liquid4rm, Solids, Coolants, Pins, VirtualWalls
    <3> QED BY <1>1, <3>1, <3>2
  <2>2. CASE Liquid4rm(l, c)
    <3>1. UniformColumn(l, r, c) = LiquidColumn4rm(l, r, c)
      BY <2>0, <2>2, ColumnByKind
    <3>2. UniformColumn(l, r, c)' = LiquidColumn4rm(l, r, c)'
      BY <1>6, <1>8, <2>2 DEF UniformColumn, SolidLike, Liquid4rm, Solids, Coolants, Pins, VirtualWalls
    <3> QED BY <1>2, <3>1, <3>2
  <2>3. CASE Type(l).kind \in Coolants
    <3>1. UniformColumn(l, r, c) = LiquidColumn2rm(l, r, c)
      BY <2>0, <2>3, ColumnByKind
    <3>2. UniformColumn(l, r, c)' = LiquidColumn2rm(l, r, c)'
      BY <1>6, <1>8, <2>3 DEF UniformColumn, SolidLike, Liquid4rm, Solids, Coolants, Pins, VirtualWalls
    <3> QED BY <1>3, <3>1, <3>2
  <2>4. CASE Type(l).kind \in VirtualWalls
    <3>1. UniformColumn(l, r, c) = VirtualWallColumn2rm(l, r, c)
      BY <2>0, <2>4, ColumnByKind
    <3>2. UniformColumn(l, r, c)' = VirtualWallColumn2rm(l, r, c)'
      BY <1>6, <1>8, <2>4 DEF UniformColumn, SolidLike, Liquid4rm, Solids, Coolants, Pins, VirtualWalls
    <3> QED BY <1>4, <3>1, <3>2
  <2>5. CASE Type(l).kind = "TOP_WALL"
    <3>1. UniformColumn(l, r, c) = TopWallColumn2rm(l, r, c)
      BY <2>0, <2>5, ColumnByKind
    <3>2. UniformColumn(l, r, c)' = TopWallColumn2rm(l, r, c)'
      BY <1>6, <1>8, <2>5 DEF UniformColumn, SolidLike, Liquid4rm, Solids, Coolants, Pins, VirtualWalls
    <3> QED BY <1>4, <3>1, <3>2
  <2>6. CASE Type(l).kind = "BOTTOM_WALL"
    <3>1. UniformColumn(l, r, c) = BottomWallColumn2rm(l, r, c)
      BY <2>0, <2>6, ColumnByKind
    <3>2. UniformColumn(l, r, c)' = BottomWallColumn2rm(l, r, c)'
      BY <1>6, <1>8, <2>6 DEF UniformColumn, SolidLike, Liquid4rm, Solids, Coolants, Pins, VirtualWalls
    <3> QED BY <1>4, <3>1, <3>2
  <2> QED BY <2>0, <2>1, <2>2, <2>3, <2>4, <2>5, <2>6, AllKinds
<1> QED BY <1>7, <1>8

-----------------------------------------------------------------------------
(* From the elements of the stack to the types of the layers.              *)

EndsInSolids == stack[1].type # "CHANNEL" /\ stack[Len(stack)].type # "CHANNEL"

StackKinds == FlattenSeq(BottomUp)

LEMMA KindsAtEnds ==
  ASSUME StackKept, stack # <<>>, EndsInSolids
  PROVE  StackKinds[1] \in Solids /\ StackKinds[LayersOf(stack)] \in Solids
<1> DEFINE n == Len(stack)
<1>1. n \in Nat \ {0} /\ DOMAIN stack = 1 .. n
  BY DEF StackKept
<1>2. /\ StackKinds[1] = BottomUp[1][1]
      /\ StackKinds[LayersOf(stack)] = BottomUp[n][Len(BottomUp[n])]
  BY KindsOfStack DEF LowestLayers, StackKinds
<1>3. BottomUp[1] = Kinds(stack[n]) /\ BottomUp[n] = Kinds(stack[1])
  BY <1>1 DEF BottomUp, Reverse
<1>4. Checked(stack[1]) /\ Checked(stack[n])
  BY <1>1 DEF StackKept
<1>5. /\ Len(Kinds(stack[1])) \in Nat \ {0} /\ Len(Kinds(stack[n])) \in Nat \ {0}
      /\ \A i \in 1 .. Len(Kinds(stack[1])) : Kinds(stack[1])[i] \in Solids
      /\ \A i \in 1 .. Len(Kinds(stack[n])) : Kinds(stack[n])[i] \in Solids
  BY <1>4, KindsOfElement DEF StackKept, EndsInSolids
<1> QED BY <1>2, <1>3, <1>5

LEMMA ProfileTypes ==
  ASSUME StackKept, stack # <<>>, EndsInSolids, NLayers = LayersOf(stack), NLayers \in Nat \ {0},
         ~ SinksClash(WithTopSink(Profile))
  PROVE  LET types == WithBottomSink(WithTopSink(Profile))
         IN  \A l \in 1 .. NLayers :
               /\ types[l].kind = StackKinds[l]
               /\ types[l].sink \in {"NONE", "CONNECTED_TO_PCB", "CONNECTED_TO_AMBIENT",
                                     "CONNECTED_TO_SPREADER"}
               /\ types[l].sink = "CONNECTED_TO_SPREADER" <=> l = NLayers /\ Pluggable
<1> DEFINE top == WithTopSink(Profile)
           types == WithBottomSink(top)
<1>1. /\ DOMAIN StackKinds = 1 .. NLayers /\ StackKinds \in Seq(LayerKinds)
      /\ StackKinds[NLayers] \in Solids
  BY KindsOfStack, KindsAtEnds DEF LowestLayers, StackKinds
<1>2. Profile = [i \in 1 .. NLayers |-> Layer(StackKinds[i])]
  BY <1>1 DEF Profile, StackKinds, BottomUp
<1>3. /\ DOMAIN Profile = 1 .. NLayers /\ Len(Profile) = NLayers
      /\ \A i \in 1 .. NLayers : Profile[i] = [kind |-> StackKinds[i], sink |-> "NONE"]
  <2> DEFINE S == {Layer(StackKinds[i]) : i \in 1 .. NLayers}
  <2>1. Profile \in [1 .. NLayers -> S]
    BY <1>2
  <2>2. Len(Profile) = NLayers
    BY <2>1, FunctionIsSeq
  <2> QED BY <1>2, <2>2 DEF Layer
<1>4. Last(Profile).kind \in Solids
  BY <1>1, <1>3 DEF Last
<1>5. declared.top \in TopSinks
  BY StackAssumption DEF StackKept, Declaration
<1>6. top = IF declared.top # "NONE"
            THEN [Profile EXCEPT ![NLayers].sink = Joined[declared.top]] ELSE Profile
  BY <1>3, <1>4 DEF WithTopSink
<1>7. /\ DOMAIN top = 1 .. NLayers
      /\ \A i \in 1 .. NLayers :
           /\ top[i].kind = StackKinds[i] /\ DOMAIN top[i] = {"kind", "sink"}
           /\ i # NLayers => top[i].sink = "NONE"
           /\ i = NLayers => top[i].sink = IF declared.top = "NONE" THEN "NONE"
                                           ELSE Joined[declared.top]
  <2>1. CASE declared.top = "NONE"
    BY <1>3, <1>6, <2>1
  <2>2. CASE declared.top # "NONE"
    <3>1. top = [Profile EXCEPT ![NLayers].sink = Joined[declared.top]]
      BY <1>6, <2>2
    <3> HIDE DEF top
    <3>2. DOMAIN top = 1 .. NLayers
      BY <1>3, <3>1
    <3>3. ASSUME NEW i \in 1 .. NLayers, i # NLayers PROVE top[i] = Profile[i]
      BY <1>3, <3>1, <3>3
    <3>4. top[NLayers] = [Profile[NLayers] EXCEPT !.sink = Joined[declared.top]]
      BY <1>3, <3>1
    <3>5. Profile[NLayers] = [kind |-> StackKinds[NLayers], sink |-> "NONE"]
      BY <1>3
    <3>6. top[NLayers] = [kind |-> StackKinds[NLayers], sink |-> Joined[declared.top]]
      BY <3>4, <3>5
    <3> QED BY <1>3, <2>2, <3>2, <3>3, <3>6
  <2> QED BY <2>1, <2>2
<1>8. Joined["TOP"] = "CONNECTED_TO_AMBIENT" /\ Joined["TOP_PLUGGABLE"] = "CONNECTED_TO_SPREADER"
  BY DEF Joined
<1>9. declared.bottom => top[1].sink = "NONE"
  BY DEF SinksClash
<1> HIDE DEF top
<1>10. ASSUME NEW l \in 1 .. NLayers
       PROVE  /\ types[l].kind = top[l].kind
              /\ types[l].sink = IF l = 1 /\ declared.bottom THEN "CONNECTED_TO_PCB" ELSE top[l].sink
  <2>1. CASE declared.bottom
    <3>1. types = [top EXCEPT ![1].sink = "CONNECTED_TO_PCB"]
      BY <2>1 DEF WithBottomSink
    <3> HIDE DEF types
    <3>2. CASE l = 1
      <4>1. types[l] = [top[l] EXCEPT !.sink = "CONNECTED_TO_PCB"]
        BY <1>7, <3>1, <3>2
      <4>2. DOMAIN top[l] = {"kind", "sink"}
        BY <1>7
      <4> QED BY <2>1, <3>2, <4>1, <4>2
    <3>3. CASE l # 1
      BY <1>7, <3>1, <3>3
    <3> QED BY <3>2, <3>3
  <2>2. CASE ~ declared.bottom
    BY <2>2 DEF WithBottomSink
  <2> QED BY <2>1, <2>2
<1> HIDE DEF types
<1>11. ASSUME NEW l \in 1 .. NLayers
       PROVE  /\ types[l].kind = StackKinds[l]
              /\ types[l].sink \in {"NONE", "CONNECTED_TO_PCB", "CONNECTED_TO_AMBIENT",
                                    "CONNECTED_TO_SPREADER"}
              /\ types[l].sink = "CONNECTED_TO_SPREADER" <=> l = NLayers /\ Pluggable
  <2>1. top[l].sink = IF l # NLayers \/ declared.top = "NONE" THEN "NONE"
                      ELSE IF declared.top = "TOP" THEN "CONNECTED_TO_AMBIENT"
                      ELSE "CONNECTED_TO_SPREADER"
    BY <1>5, <1>7, <1>8 DEF TopSinks
  <2>2. Pluggable <=> declared.top = "TOP_PLUGGABLE"
    BY DEF Pluggable
  <2>3. types[l].kind = StackKinds[l]
    BY <1>7, <1>10
  <2>4. CASE l = 1 /\ declared.bottom
    <3>1. types[l].sink = "CONNECTED_TO_PCB" /\ top[l].sink = "NONE"
      BY <1>9, <1>10, <2>4
    <3> QED BY <1>5, <2>1, <2>2, <2>3, <3>1 DEF TopSinks
  <2>5. CASE ~ (l = 1 /\ declared.bottom)
    <3>1. types[l].sink = top[l].sink
      BY <1>10, <2>5
    <3> QED BY <1>5, <2>1, <2>2, <2>3, <3>1 DEF TopSinks
  <2> QED BY <2>4, <2>5
<1> QED BY <1>11 DEF types, top

LEMMA ProfileTyped ==
  ASSUME StackKept, stack # <<>>, EndsInSolids, NLayers = LayersOf(stack), Sized,
         ~ SinksClash(WithTopSink(Profile)),
         LayersTypeProfile' = WithBottomSink(WithTopSink(Profile)),
         UNCHANGED parserVars
  PROVE  Typed'
<1>0. declared' = declared /\ NLayers' = NLayers /\ NLayers \in Nat \ {0} /\ declared \in Stacks
  BY DEF parserVars, Sized
<1> DEFINE T(l) == Type(l)'
<1>1. ASSUME NEW l \in 0 .. NLayers - 1
      PROVE  /\ T(l).kind = StackKinds[l + 1]
             /\ T(l).sink \in {"NONE", "CONNECTED_TO_PCB", "CONNECTED_TO_AMBIENT",
                               "CONNECTED_TO_SPREADER"}
             /\ T(l).sink = "CONNECTED_TO_SPREADER" <=> l = NLayers - 1 /\ Pluggable
  <2>1. T(l) = WithBottomSink(WithTopSink(Profile))[l + 1]
    BY DEF Type
  <2>2. l + 1 \in 1 .. NLayers /\ (l + 1 = NLayers <=> l = NLayers - 1)
    BY <1>0
  <2> HIDE DEF T
  <2> QED BY <1>0, <2>1, <2>2, ProfileTypes
<1>2. /\ WholeChannels(StackKinds) /\ Len(StackKinds) = NLayers
      /\ StackKinds[1] \in Solids /\ StackKinds[NLayers] \in Solids
  BY KindsOfStack, KindsAtEnds DEF LowestLayers, StackKinds
<1>3. Pluggable' = Pluggable
  BY <1>0 DEF Pluggable
<1>4. ASSUME NEW b \in Nat, b + 4 <= NLayers, is2RM(declared.channel),
             \A m \in 1 .. 4 : StackKinds[b + m] = ChannelLayers[m]
      PROVE  ChannelAt(b)'
  <2>1. /\ b \in 0 .. NLayers - 1 /\ b + 1 \in 0 .. NLayers - 1 /\ b + 2 \in 0 .. NLayers - 1
        /\ b + 3 \in 0 .. NLayers - 1 /\ (b + 1) + 1 = b + 2 /\ (b + 2) + 1 = b + 3
        /\ (b + 3) + 1 = b + 4
    BY <1>0, <1>4
  <2>2. /\ T(b).kind = ChannelLayers[1] /\ T(b + 1).kind = ChannelLayers[2]
        /\ T(b + 2).kind = ChannelLayers[3] /\ T(b + 3).kind = ChannelLayers[4]
    <3> HIDE DEF T
    <3>1. /\ T(b).kind = StackKinds[b + 1] /\ T(b + 1).kind = StackKinds[b + 2]
          /\ T(b + 2).kind = StackKinds[b + 3] /\ T(b + 3).kind = StackKinds[b + 4]
      BY <1>1, <2>1
    <3> QED BY <1>4, <3>1
  <2>3. declared.channel # "NONE"
    BY <1>4 DEF is2RM
  <2>4. /\ T(b).kind = "BOTTOM_WALL" /\ T(b + 1).kind \in VirtualWalls
        /\ T(b + 2).kind \in Coolants /\ T(b + 3).kind = "TOP_WALL"
    BY <1>0, <1>4, <2>2, <2>3, ChannelKinds DEF Coolants
  <2> QED BY <1>0, <2>1, <2>4 DEF ChannelAt
<1>5. ASSUME NEW l \in 0 .. NLayers - 1
      PROVE  /\ \/ T(l).kind \in Solids
                \/ declared.channel = "MC_4RM" /\ T(l).kind = "CHANNEL_4RM"
                \/ is2RM(declared.channel) /\ \E k \in 0 .. 3 : ChannelAt(l - k)'
             /\ T(l).sink = "CONNECTED_TO_SPREADER" <=> l = NLayers - 1 /\ Pluggable
  <2>1. T(l).kind = StackKinds[l + 1] /\ l + 1 \in 1 .. Len(StackKinds)
    BY <1>0, <1>1, <1>2
  <2> HIDE DEF T
  <2>2. \/ StackKinds[l + 1] \in Solids
        \/ declared.channel = "MC_4RM" /\ StackKinds[l + 1] = "CHANNEL_4RM"
        \/ is2RM(declared.channel) /\ \E k \in 1 .. 4 : InChannel(StackKinds, l + 1, k)
    BY <1>2, <2>1 DEF WholeChannels
  <2>3. ASSUME is2RM(declared.channel), NEW k \in 1 .. 4, InChannel(StackKinds, l + 1, k)
        PROVE  \E i \in 0 .. 3 : ChannelAt(l - i)'
    <3>1. /\ k <= l + 1 /\ (l + 1) - k + 4 <= NLayers
          /\ \A m \in 1 .. 4 : StackKinds[(l + 1) - k + m] = ChannelLayers[m]
      BY <1>2, <2>3 DEF InChannel
    <3>2. /\ l - (k - 1) \in Nat /\ (l - (k - 1)) + 4 <= NLayers /\ k - 1 \in 0 .. 3
          /\ (l + 1) - k = l - (k - 1)
      BY <1>0, <3>1
    <3>3. \A m \in 1 .. 4 : StackKinds[(l - (k - 1)) + m] = ChannelLayers[m]
      BY <3>1, <3>2
    <3>4. ChannelAt(l - (k - 1))'
      BY <1>4, <2>3, <3>2, <3>3
    <3> QED BY <3>2, <3>4
  <2> QED BY <1>1, <2>1, <2>2, <2>3
<1>6. T(0).kind \in Solids /\ T(NLayers - 1).kind \in Solids
  <2> HIDE DEF T
  <2>1. 0 \in 0 .. NLayers - 1 /\ NLayers - 1 \in 0 .. NLayers - 1 /\ (NLayers - 1) + 1 = NLayers
    BY <1>0
  <2> QED BY <1>1, <1>2, <2>1
<1>7. Type(NLayers - 1)' = T(NLayers - 1)
  BY <1>0 DEF Type
<1> QED BY <1>0, <1>1, <1>3, <1>5, <1>6, <1>7 DEF Typed, ToSpreader

-----------------------------------------------------------------------------
(* The inductive invariant of the matrix: what the parser accepted and     *)
(* computed, the types of the layers, and of every column written which    *)
(* cell it is the column of.                                               *)

Phases == {"parsing", "parsed", "filling", "filled", "aborted"}

ParserKept ==
  /\ StackKept /\ phase \in Phases
  /\ phase \notin {"parsing", "aborted"} =>
       stack # <<>> /\ EndsInSolids /\ Sized /\ NLayers = LayersOf(stack)

Arrays ==
  /\ ColumnPointers \in Seq(Nat) /\ Len(ColumnPointers) \in Nat \ {0}
  /\ \E S : RowIndices \in Seq(S) /\ Values \in Seq(S)
  /\ ColumnPointers[Len(ColumnPointers)] = Len(RowIndices)
  /\ Len(Values) = Len(RowIndices)

ColumnHolds(j, p) ==
  LET column == UniformColumn(p.l, p.r, p.c)
      from   == ColumnPointers[j + 1]
  IN  /\ ColumnPointers[j + 2] = from + Len(column)
      /\ from + Len(column) <= Len(RowIndices)
      /\ \A k \in 1 .. Len(column) :
           /\ RowIndices[from + k] = column[k].row
           /\ column[k].row # j => Values[from + k] = column[k].value

ColumnsKept ==
  \A j \in 0 .. Columns - 1 : \E p : Position(p) /\ CellOf(p) = j /\ ColumnHolds(j, p)

MatrixKept ==
  /\ ParserKept /\ Arrays
  /\ phase \notin {"filling", "filled"} => at = Start /\ Columns = 0
  /\ phase \in {"filling", "filled"} => Typed /\ ColumnsKept
  /\ phase = "filling" => Position(at) /\ Columns = CellOf(at)
  /\ phase = "filled" => Columns = NCells

LEMMA MatrixInit ==
  Init => MatrixKept
<1> SUFFICES ASSUME Init PROVE MatrixKept
  OBVIOUS
<1>1. ParserKept
  BY DEF Init, ParserInit, ParserKept, StackKept, Phases
<1>2. /\ ColumnPointers = <<0>> /\ RowIndices = <<>> /\ Values = <<>> /\ phase = "parsing"
      /\ at = Start
  BY DEF Init, ParserInit
<1>3. Arrays
  <2>1. RowIndices \in Seq(Nat) /\ Values \in Seq(Nat)
    BY <1>2
  <2> QED BY <1>2, <2>1 DEF Arrays
<1>4. Columns = 0
  BY <1>2 DEF Columns
<1> QED BY <1>1, <1>2, <1>3, <1>4 DEF MatrixKept

LEMMA ParseKeeps ==
  MatrixKept /\ Parse => MatrixKept'
<1> SUFFICES ASSUME MatrixKept, Parse PROVE MatrixKept'
  OBVIOUS
<1>1. phase = "parsing" /\ StackKept /\ Arrays /\ at = Start /\ Columns = 0
  BY DEF Parse, AddElement, EndStack, MatrixKept, ParserKept
<1>2. UNCHANGED <<at, ColumnPointers, RowIndices, Values>>
  BY DEF Parse, matrixVars
<1>3. Arrays' /\ at' = Start /\ Columns' = 0
  BY <1>1, <1>2 DEF Arrays, Start, Columns
<1>4. phase' \notin {"filling", "filled"} /\ ParserKept'
  <2>1. ASSUME NEW e \in Elements, AddElement(e)
        PROVE  phase' \in {"parsing", "aborted"} /\ StackKept'
    <3>1. CASE Rejected(e)
      BY <1>1, <2>1, <3>1 DEF AddElement, parserVars, StackKept, Checked
    <3>2. CASE ~ Rejected(e)
      <4>1. stack' = Append(stack, e) /\ declared' = declared /\ phase' = phase
        BY <2>1, <3>2 DEF AddElement
      <4>2. Checked(e)
        BY <3>2 DEF Rejected, Checked
      <4>3. \A x : Checked(x)' = Checked(x)
        BY <4>1 DEF Checked
      <4>4. stack \in Seq(Elements) /\ declared \in Stacks /\ \A i \in 1 .. Len(stack) : Checked(stack[i])
        BY <1>1 DEF StackKept
      <4>5. /\ stack' \in Seq(Elements) /\ Len(stack') = Len(stack) + 1 /\ Len(stack) \in Nat
            /\ \A i \in 1 .. Len(stack) : stack'[i] = stack[i]
            /\ stack'[Len(stack) + 1] = e
        BY <4>1, <4>4, AppendProperties
      <4>6. \A i \in 1 .. Len(stack') : Checked(stack'[i])
        BY <4>2, <4>4, <4>5
      <4> QED BY <1>1, <4>1, <4>3, <4>4, <4>5, <4>6 DEF StackKept
    <3> QED BY <3>1, <3>2
  <2>2. ASSUME EndStack PROVE phase' \in {"parsed", "aborted"} /\ ParserKept'
    <3> DEFINE nlayers == LayersOf(stack)
               ncells  == nlayers * LayerArea + SpreaderCells
               gives   == Count("DIE", stack) = 0 \/ EndsInChannel \/ ncells > Word \div 2 - 1
    <3>1. CASE gives
      <4>1. phase' = "aborted" /\ UNCHANGED parserVars
        BY <2>2, <3>1 DEF EndStack
      <4> QED BY <1>1, <4>1 DEF ParserKept, StackKept, Checked, parserVars, Phases
    <3>2. CASE ~ gives
      <4>1. /\ stack # <<>> /\ ~ EndsInChannel /\ phase' = "parsed"
            /\ NLayers' = nlayers /\ NCells' = ncells /\ UNCHANGED <<declared, stack>>
        BY <2>2, <3>2 DEF EndStack
      <4>2. StackKept' /\ stack' = stack /\ declared' = declared
        BY <1>1, <4>1 DEF StackKept, Checked
      <4>3. EndsInSolids'
        BY <1>1, <4>1 DEF EndsInSolids, EndsInChannel, Last, StackKept
      <4>4. nlayers \in Nat \ {0}
        <5>1. LowestLayers(StackKinds, Len(stack), nlayers)
          BY <1>1, <4>1, KindsOfStack DEF StackKinds
        <5>2. StackKinds \in Seq(LayerKinds) /\ nlayers = Len(StackKinds) /\ nlayers >= 1
          BY <5>1 DEF LowestLayers
        <5> HIDE DEF nlayers
        <5> QED BY <5>2
      <4>5. LayersOf(stack)' = LayersOf(stack) /\ LayerArea' = LayerArea
            /\ SpreaderCells' = SpreaderCells
        BY <4>2 DEF LayersOf, ElementLayers, LayerArea, SpreaderCells, SpreaderRows,
                    SpreaderColumns, Pluggable
      <4>6. Sized' /\ NLayers' = LayersOf(stack)'
        BY <1>1, <4>1, <4>2, <4>4, <4>5 DEF Sized, StackKept
      <4> QED BY <4>1, <4>2, <4>3, <4>6 DEF ParserKept, Phases
    <3> QED BY <3>1, <3>2
  <2>3. (\E e \in Elements : AddElement(e)) \/ EndStack
    BY DEF Parse
  <2> QED BY <2>1, <2>2, <2>3 DEF ParserKept, Phases
<1> QED BY <1>3, <1>4 DEF MatrixKept

LEMMA GridFillKeeps ==
  MatrixKept /\ GridFill("parsed") => MatrixKept'
<1> SUFFICES ASSUME MatrixKept, GridFill("parsed") PROVE MatrixKept'
  OBVIOUS
<1>1. /\ phase = "parsed" /\ ParserKept /\ Arrays /\ at = Start /\ Columns = 0
      /\ UNCHANGED <<at, ColumnPointers, RowIndices, Values>> /\ UNCHANGED parserVars
  BY DEF GridFill, MatrixKept
<1>2. Arrays' /\ at' = Start /\ Columns' = 0
  BY <1>1 DEF Arrays, Start, Columns
<1>3. /\ stack # <<>> /\ EndsInSolids /\ Sized /\ NLayers = LayersOf(stack) /\ StackKept
  BY <1>1 DEF ParserKept
<1>4. /\ declared' = declared /\ stack' = stack /\ NLayers' = NLayers /\ NCells' = NCells
  BY <1>1 DEF parserVars
<1>5. StackKept' /\ EndsInSolids' /\ Sized' /\ stack' # <<>> /\ NLayers' = LayersOf(stack)'
  <2>1. StackKept'
    BY <1>3, <1>4 DEF StackKept, Checked
  <2>2. EndsInSolids' /\ stack' # <<>>
    BY <1>3, <1>4 DEF EndsInSolids
  <2>3. LayersOf(stack)' = LayersOf(stack)
    BY <1>4 DEF LayersOf, ElementLayers
  <2>4. /\ LayerArea' = LayerArea /\ SpreaderCells' = SpreaderCells
    BY <1>4 DEF LayerArea, SpreaderCells, SpreaderRows, SpreaderColumns, Pluggable
  <2>5. Sized'
    BY <1>3, <1>4, <2>4 DEF Sized
  <2> QED BY <1>3, <1>4, <2>1, <2>2, <2>3, <2>5
<1> DEFINE profile == WithTopSink(Profile)
<1>6. CASE (Pluggable /\ has_4RM_layers) \/ SinksClash(profile)
  <2>1. phase' = "aborted"
    BY <1>6 DEF GridFill
  <2> QED BY <1>2, <1>5, <2>1 DEF MatrixKept, ParserKept, Phases
<1>7. CASE ~ ((Pluggable /\ has_4RM_layers) \/ SinksClash(profile))
  <2>1. phase' = "filling" /\ LayersTypeProfile' = WithBottomSink(profile)
    BY <1>7 DEF GridFill
  <2>2. Typed'
    BY <1>1, <1>3, <1>7, <2>1, ProfileTyped
  <2>3. Position(Start)' /\ CellOf(Start)' = 0
    <3>1. Position(Start) /\ CellOf(Start) = 0
      BY <1>3, StartIsFirst
    <3> QED BY <1>4, <3>1 DEF Position, CellOf, Start, Cell, SpreaderCell, LayerArea,
                              SpreaderColumns, RowsAt, ColumnsAt, SpreaderRows, Pluggable
  <2>4. Position(at)' /\ Columns' = CellOf(at)'
    BY <1>2, <2>3 DEF Position, CellOf, RowsAt, ColumnsAt, Start
  <2>5. ColumnsKept'
    BY <1>2 DEF ColumnsKept
  <2>6. ParserKept'
    BY <1>5, <2>1 DEF ParserKept, Phases
  <2> QED BY <1>2, <2>1, <2>2, <2>4, <2>5, <2>6 DEF MatrixKept
<1> QED BY <1>6, <1>7

LEMMA RefillKeeps ==
  MatrixKept /\ Refill => MatrixKept'
<1> SUFFICES ASSUME MatrixKept, Refill PROVE MatrixKept'
  OBVIOUS
<1>1. /\ phase = "filled" /\ ParserKept /\ Typed /\ phase' = "filling" /\ at' = Start
      /\ ColumnPointers' = <<0>> /\ RowIndices' = <<>> /\ Values' = <<>>
      /\ UNCHANGED parserVars /\ UNCHANGED StackVars
  BY DEF Refill, MatrixKept, parserVars, StackVars
<1>2. Arrays'
  <2>1. RowIndices' \in Seq(Nat) /\ Values' \in Seq(Nat)
    BY <1>1
  <2> QED BY <1>1, <2>1 DEF Arrays
<1>3. Columns' = 0
  BY <1>1 DEF Columns
<1>4. Sized /\ stack # <<>> /\ EndsInSolids /\ NLayers = LayersOf(stack) /\ StackKept
  BY <1>1 DEF ParserKept
<1>5. ParserKept'
  <2>1. declared' = declared /\ stack' = stack /\ NLayers' = NLayers
    BY <1>1 DEF StackVars
  <2>2. Sized'
    BY <1>1, <1>4, SameNumbers
  <2>3. StackKept' /\ EndsInSolids' /\ NLayers' = LayersOf(stack)'
    BY <1>4, <2>1 DEF StackKept, EndsInSolids, LayersOf, ElementLayers, Checked
  <2> QED BY <1>1, <1>4, <2>1, <2>2, <2>3 DEF ParserKept, Phases
<1>6. Position(at)' /\ CellOf(at)' = 0
  <2> DEFINE p == [l |-> 0, r |-> 0, c |-> 0]
  <2>1. Position(p) /\ CellOf(p) = 0
    BY <1>4, StartIsFirst DEF Start
  <2>2. at' = p
    BY <1>1 DEF Start
  <2> HIDE DEF p
  <2>3. Position(p)' /\ CellOf(p)' = 0 /\ p' = p
    <3>1. PICK s : s = p
      OBVIOUS
    <3>2. Position(s)' = Position(s) /\ CellOf(s)' = CellOf(s)
      BY <1>1, SameNumbers
    <3> QED BY <2>1, <3>1, <3>2 DEF p
  <2> QED BY <2>2, <2>3 DEF Position, CellOf
<1>7. Typed'
  BY <1>1, SameTyped
<1>8. ColumnsKept'
  BY <1>3 DEF ColumnsKept
<1> QED BY <1>1, <1>2, <1>3, <1>5, <1>6, <1>7, <1>8 DEF MatrixKept

(* Every kind of cell writes the column of its cell.                       *)
LEMMA FillsColumn ==
  ASSUME MatrixKept, FillColumn
  PROVE  phase = "filling" /\ WriteColumn(CellOf(at), UniformColumn(at.l, at.r, at.c))
<1>1. phase = "filling"
  BY DEF FillColumn, AddSolidColumn, AddLiquidColumn4rm, AddLiquidColumn2rm,
         AddVirtualWallColumn2rm, AddTopWallColumn2rm, AddBottomWallColumn2rm,
         AddSpreaderColumn, Filling
<1>2. Typed /\ Sized /\ Position(at)
  BY <1>1 DEF MatrixKept, ParserKept
<1>3. CASE AddSpreaderColumn
  BY <1>1, <1>3 DEF AddSpreaderColumn, InSpreader, CellOf, UniformColumn
<1>4. CASE ~ AddSpreaderColumn
  <2>1. ~ InSpreader
    BY <1>4 DEF FillColumn, AddSolidColumn, AddLiquidColumn4rm, AddLiquidColumn2rm,
         AddVirtualWallColumn2rm, AddTopWallColumn2rm, AddBottomWallColumn2rm, Filling
  <2>2. at.l \in 0 .. NLayers - 1 /\ CellOf(at) = Cell(at.l, at.r, at.c)
    BY <1>2, <2>1 DEF InSpreader, Position, CellOf, Sized
  <2>3. ASSUME AddSolidColumn PROVE WriteColumn(CellOf(at), UniformColumn(at.l, at.r, at.c))
    BY <1>2, <2>2, <2>3, ColumnByKind DEF AddSolidColumn, SolidLike, Kind
  <2>4. ASSUME AddLiquidColumn4rm PROVE WriteColumn(CellOf(at), UniformColumn(at.l, at.r, at.c))
    BY <1>2, <2>2, <2>4, ColumnByKind DEF AddLiquidColumn4rm, Liquid4rm, Kind
  <2>5. ASSUME AddLiquidColumn2rm PROVE WriteColumn(CellOf(at), UniformColumn(at.l, at.r, at.c))
    BY <1>2, <2>2, <2>5, ColumnByKind DEF AddLiquidColumn2rm, Coolants, Pins, Kind
  <2>6. ASSUME AddVirtualWallColumn2rm
        PROVE  WriteColumn(CellOf(at), UniformColumn(at.l, at.r, at.c))
    BY <1>2, <2>2, <2>6, ColumnByKind DEF AddVirtualWallColumn2rm, VirtualWalls, Kind
  <2>7. ASSUME AddTopWallColumn2rm PROVE WriteColumn(CellOf(at), UniformColumn(at.l, at.r, at.c))
    BY <1>2, <2>2, <2>7, ColumnByKind DEF AddTopWallColumn2rm, Kind
  <2>8. ASSUME AddBottomWallColumn2rm
        PROVE  WriteColumn(CellOf(at), UniformColumn(at.l, at.r, at.c))
    BY <1>2, <2>2, <2>8, ColumnByKind DEF AddBottomWallColumn2rm, Kind
  <2> QED BY <1>1, <1>4, <2>3, <2>4, <2>5, <2>6, <2>7, <2>8 DEF FillColumn
<1> QED BY <1>3, <1>4

(* The arrays after a column has been written: nothing that was there      *)
(* before has changed.                                                     *)
LEMMA WrittenArrays ==
  ASSUME Arrays, NEW E, NEW column \in Seq(E), NEW own, WriteColumn(own, column)
  PROVE  LET n == Len(RowIndices)  w == Len(column)  m == Len(ColumnPointers)
         IN  /\ Arrays' /\ n \in Nat /\ w \in Nat /\ m \in Nat \ {0}
             /\ Len(ColumnPointers') = m + 1 /\ Len(RowIndices') = n + w
             /\ ColumnPointers'[m] = n /\ ColumnPointers'[m + 1] = n + w
             /\ \A i \in 1 .. m : ColumnPointers'[i] = ColumnPointers[i]
             /\ \A k \in 1 .. n : RowIndices'[k] = RowIndices[k] /\ Values'[k] = Values[k]
             /\ \A k \in 1 .. w : /\ RowIndices'[n + k] = column[k].row
                                  /\ column[k].row # own => Values'[n + k] = column[k].value
<1> DEFINE n == Len(RowIndices)  w == Len(column)  m == Len(ColumnPointers)
           diagonal == Sum([i \in DOMAIN column |-> column[i].share])
           value(i) == IF column[i].row = own THEN Plus(column[i].value, diagonal)
                       ELSE column[i].value
           rows   == [i \in DOMAIN column |-> column[i].row]
           values == [i \in DOMAIN column |-> value(i)]
<1>1. PICK S : RowIndices \in Seq(S) /\ Values \in Seq(S)
  BY DEF Arrays
<1>2. /\ RowIndices' = RowIndices \o rows /\ Values' = Values \o values
      /\ ColumnPointers' = Append(ColumnPointers, Last(ColumnPointers) + w)
  BY DEF WriteColumn
<1>3. DOMAIN column = 1 .. w /\ w \in Nat /\ n \in Nat
  BY <1>1
<1> DEFINE T == S \cup {column[i].row : i \in 1 .. w} \cup {value(i) : i \in 1 .. w}
<1>4. /\ rows \in Seq(T) /\ values \in Seq(T) /\ Len(rows) = w /\ Len(values) = w
      /\ \A i \in 1 .. w : rows[i] = column[i].row /\ values[i] = value(i)
  <2>1. rows \in [1 .. w -> T] /\ values \in [1 .. w -> T]
    <3> HIDE DEF value
    <3> QED BY <1>3
  <2>2. \A i \in 1 .. w : rows[i] = column[i].row /\ values[i] = value(i)
    <3> HIDE DEF value
    <3> QED BY <1>3
  <2> HIDE DEF T, rows, values
  <2> QED BY <1>3, <2>1, <2>2, FunctionIsSeq
<1>5. S \subseteq T
  OBVIOUS
<1> HIDE DEF T, rows, values, diagonal
<1>6. RowIndices \in Seq(T) /\ Values \in Seq(T)
  BY <1>1, <1>5, SeqMonotonic
<1>7. Len(Values) = n
  BY DEF Arrays
<1>8. /\ RowIndices' \in Seq(T) /\ Len(RowIndices') = n + w
      /\ \A k \in 1 .. n + w : RowIndices'[k] = IF k <= n THEN RowIndices[k] ELSE rows[k - n]
  <2>1. /\ RowIndices \o rows \in Seq(T)
        /\ Len(RowIndices \o rows) = Len(RowIndices) + Len(rows)
        /\ \A k \in 1 .. Len(RowIndices) + Len(rows) :
             (RowIndices \o rows)[k] = IF k <= Len(RowIndices) THEN RowIndices[k]
                                       ELSE rows[k - Len(RowIndices)]
    <3>1. RowIndices \in Seq(T) /\ rows \in Seq(T)
      BY <1>4, <1>6
    <3> QED BY <3>1, ConcatProperties, Zenon
  <2>2. Len(RowIndices) = n /\ Len(rows) = w
    BY <1>4
  <2> HIDE DEF n, w
  <2> QED BY <1>2, <2>1, <2>2
<1>9. /\ Values' \in Seq(T) /\ Len(Values') = n + w
      /\ \A k \in 1 .. n + w : Values'[k] = IF k <= n THEN Values[k] ELSE values[k - n]
  <2>1. /\ Values \o values \in Seq(T) /\ Len(Values \o values) = Len(Values) + Len(values)
        /\ \A k \in 1 .. Len(Values) + Len(values) :
             (Values \o values)[k] = IF k <= Len(Values) THEN Values[k]
                                     ELSE values[k - Len(Values)]
    <3>1. Values \in Seq(T) /\ values \in Seq(T)
      BY <1>4, <1>6
    <3> QED BY <3>1, ConcatProperties, Zenon
  <2>2. Len(Values) = n /\ Len(values) = w
    BY <1>4, <1>7
  <2> HIDE DEF n, w
  <2> QED BY <1>2, <2>1, <2>2
<1>10. m \in Nat \ {0} /\ ColumnPointers \in Seq(Nat) /\ Last(ColumnPointers) = n
  BY DEF Arrays, Last
<1>11. /\ ColumnPointers' \in Seq(Nat) /\ Len(ColumnPointers') = m + 1
       /\ \A i \in 1 .. m : ColumnPointers'[i] = ColumnPointers[i]
       /\ ColumnPointers'[m + 1] = n + w
  BY <1>2, <1>3, <1>10, AppendProperties
<1>12. ColumnPointers'[m] = n
  <2>1. m \in 1 .. m /\ ColumnPointers[m] = n
    BY <1>10 DEF Last
  <2>2. ColumnPointers'[m] = ColumnPointers[m]
    BY <1>11, <2>1
  <2> QED BY <2>1, <2>2
<1>13. Arrays'
  BY <1>3, <1>8, <1>9, <1>10, <1>11 DEF Arrays
<1>14. ASSUME NEW k \in 1 .. w
       PROVE  /\ RowIndices'[n + k] = column[k].row
              /\ column[k].row # own => Values'[n + k] = column[k].value
  <2>1. n + k \in 1 .. n + w /\ ~ (n + k <= n) /\ (n + k) - n = k
    BY <1>3
  <2> HIDE DEF n, w
  <2>2. RowIndices'[n + k] = rows[k] /\ Values'[n + k] = values[k]
    BY <1>8, <1>9, <2>1
  <2> QED BY <1>4, <2>2
<1>15. \A k \in 1 .. n : RowIndices'[k] = RowIndices[k] /\ Values'[k] = Values[k]
  <2> HIDE DEF n, w
  <2> QED BY <1>3, <1>8, <1>9
<1> HIDE DEF n, w, m
<1>16. /\ Arrays' /\ n \in Nat /\ w \in Nat /\ m \in Nat \ {0}
       /\ Len(ColumnPointers') = m + 1 /\ Len(RowIndices') = n + w
       /\ ColumnPointers'[m] = n /\ ColumnPointers'[m + 1] = n + w
       /\ \A i \in 1 .. m : ColumnPointers'[i] = ColumnPointers[i]
       /\ \A k \in 1 .. n : RowIndices'[k] = RowIndices[k] /\ Values'[k] = Values[k]
       /\ \A k \in 1 .. w : /\ RowIndices'[n + k] = column[k].row
                            /\ column[k].row # own => Values'[n + k] = column[k].value
  BY <1>3, <1>8, <1>10, <1>11, <1>12, <1>13, <1>14, <1>15
<1> QED BY <1>16 DEF n, w, m

LEMMA WriteKeeps ==
  ASSUME MatrixKept, phase = "filling", WriteColumn(CellOf(at), UniformColumn(at.l, at.r, at.c))
  PROVE  MatrixKept'
<1> DEFINE n == Len(RowIndices)  m == Len(ColumnPointers)
<1>1. /\ ParserKept /\ Arrays /\ Typed /\ ColumnsKept /\ Position(at) /\ Columns = CellOf(at)
      /\ Sized /\ stack # <<>> /\ EndsInSolids /\ NLayers = LayersOf(stack) /\ StackKept
  BY DEF MatrixKept, ParserKept
<1>2. PICK here : here = at
  OBVIOUS
<1>3. PICK column : column = UniformColumn(here.l, here.r, here.c)
  OBVIOUS
<1>4. /\ UNCHANGED StackVars /\ NextIteration
  BY DEF WriteColumn, NextIteration, StackVars, parserVars
<1>5. PICK E : column \in Seq(E)
  BY <1>1, <1>2, <1>3, ColumnLists DEF Lists
<1> DEFINE w == Len(column)
<1>6. /\ Arrays' /\ n \in Nat /\ w \in Nat /\ m \in Nat \ {0}
      /\ Len(ColumnPointers') = m + 1 /\ Len(RowIndices') = n + w
      /\ ColumnPointers'[m] = n /\ ColumnPointers'[m + 1] = n + w
      /\ \A i \in 1 .. m : ColumnPointers'[i] = ColumnPointers[i]
      /\ \A k \in 1 .. n : RowIndices'[k] = RowIndices[k] /\ Values'[k] = Values[k]
      /\ \A k \in 1 .. w : /\ RowIndices'[n + k] = column[k].row
                           /\ column[k].row # CellOf(here) => Values'[n + k] = column[k].value
  <2>1. WriteColumn(CellOf(here), column)
    BY <1>2, <1>3
  <2> QED BY <1>1, <1>5, <2>1, WrittenArrays
<1>7. Columns = m - 1 /\ Columns' = m /\ CellOf(here) = m - 1
  BY <1>1, <1>2, <1>6 DEF Columns
<1>8. ASSUME NEW p, Position(p)
      PROVE  /\ Position(p)' /\ CellOf(p)' = CellOf(p)
             /\ UniformColumn(p.l, p.r, p.c)' = UniformColumn(p.l, p.r, p.c)
  <2>1. p.l \in 0 .. NLayers
    BY <1>8 DEF Position
  <2>2. UniformColumn(p.l, p.r, p.c)' = UniformColumn(p.l, p.r, p.c)
    BY <1>1, <1>4, <2>1, SameColumns
  <2> QED BY <1>4, <1>8, <2>2, SameNumbers
<1>9. ColumnsKept'
  <2>1. ASSUME NEW j \in 0 .. m - 2
        PROVE  \E p : Position(p)' /\ CellOf(p)' = j /\ ColumnHolds(j, p)'
    <3>1. PICK p : Position(p) /\ CellOf(p) = j /\ ColumnHolds(j, p)
      <4>1. ColumnsKept
        BY <1>1
      <4>2. m \in Nat \ {0} /\ Columns = m - 1
        BY <1>6, <1>7
      <4> HIDE DEF m
      <4>3. j \in 0 .. Columns - 1
        BY <4>2
      <4> QED BY <4>1, <4>3 DEF ColumnsKept
    <3>2. PICK old : old = UniformColumn(p.l, p.r, p.c)
      OBVIOUS
    <3> DEFINE from == ColumnPointers[j + 1]
    <3>3. j + 1 \in 1 .. m /\ j + 2 \in 1 .. m
      BY <1>6
    <3>4. /\ ColumnPointers'[j + 1] = from /\ ColumnPointers'[j + 2] = ColumnPointers[j + 2]
      BY <1>6, <3>3
    <3>5. /\ ColumnPointers[j + 2] = from + Len(old) /\ from + Len(old) <= n
          /\ \A k \in 1 .. Len(old) : /\ RowIndices[from + k] = old[k].row
                                      /\ old[k].row # j => Values[from + k] = old[k].value
      BY <3>1, <3>2 DEF ColumnHolds
    <3>6. from \in Nat /\ Len(old) \in Nat
      <4>1. ColumnPointers \in Seq(Nat)
        BY <1>1 DEF Arrays
      <4>2. PICK F : old \in Seq(F)
        BY <1>1, <3>1, <3>2, ColumnLists DEF Lists
      <4> QED BY <3>3, <4>1, <4>2
    <3> HIDE DEF n, w, m, from
    <3>7. \A k \in 1 .. Len(old) : from + k \in 1 .. n
      BY <1>6, <3>5, <3>6
    <3>8. /\ ColumnPointers'[j + 2] = ColumnPointers'[j + 1] + Len(old)
          /\ ColumnPointers'[j + 1] + Len(old) <= Len(RowIndices')
          /\ \A k \in 1 .. Len(old) :
               /\ RowIndices'[ColumnPointers'[j + 1] + k] = old[k].row
               /\ old[k].row # j => Values'[ColumnPointers'[j + 1] + k] = old[k].value
      <4>1. from + Len(old) <= n + w
        BY <1>6, <3>5, <3>6
      <4> QED BY <1>6, <3>4, <3>5, <3>7, <4>1
    <3>9. UniformColumn(p.l, p.r, p.c)' = old /\ Position(p)' /\ CellOf(p)' = j
      BY <1>8, <3>1, <3>2
    <3> QED BY <3>8, <3>9 DEF ColumnHolds
  <2>2. ASSUME NEW j, j = m - 1
        PROVE  Position(here)' /\ CellOf(here)' = j /\ ColumnHolds(j, here)'
    <3>1. /\ Position(here)' /\ CellOf(here)' = m - 1
          /\ UniformColumn(here.l, here.r, here.c)' = column
      BY <1>1, <1>2, <1>3, <1>7, <1>8
    <3>3. j + 1 = m /\ j + 2 = m + 1
      BY <1>6, <2>2
    <3> HIDE DEF n, w, m
    <3>4. /\ ColumnPointers'[j + 2] = ColumnPointers'[j + 1] + Len(column)
          /\ ColumnPointers'[j + 1] + Len(column) <= Len(RowIndices')
          /\ \A k \in 1 .. Len(column) :
               /\ RowIndices'[ColumnPointers'[j + 1] + k] = column[k].row
               /\ column[k].row # j => Values'[ColumnPointers'[j + 1] + k] = column[k].value
      BY <1>6, <1>7, <2>2, <3>3 DEF w
    <3>5. ColumnHolds(j, here)'
      BY <3>1, <3>4 DEF ColumnHolds
    <3> QED BY <2>2, <3>1, <3>5
  <2>3. ASSUME NEW j \in 0 .. Columns' - 1
        PROVE  \E p : Position(p)' /\ CellOf(p)' = j /\ ColumnHolds(j, p)'
    <3>1. CASE j = m - 1
      BY <2>2, <3>1
    <3>2. CASE j # m - 1
      <4>1. j \in 0 .. m - 2
        <5> HIDE DEF m
        <5> QED BY <1>6, <1>7, <3>2
      <4> QED BY <2>1, <4>1
    <3> QED BY <3>1, <3>2
  <2> QED BY <2>3 DEF ColumnsKept
<1>10. ParserKept' /\ Typed'
  <2>1. declared' = declared /\ stack' = stack /\ NLayers' = NLayers
    BY <1>4 DEF StackVars
  <2>2. Sized' /\ Typed'
    BY <1>1, <1>4, SameNumbers, SameTyped
  <2>3. StackKept' /\ EndsInSolids' /\ NLayers' = LayersOf(stack)'
    BY <1>1, <2>1 DEF StackKept, EndsInSolids, LayersOf, ElementLayers, Checked
  <2>4. phase' \in {"filling", "filled"}
    BY <1>4 DEF NextIteration
  <2> QED BY <1>1, <2>1, <2>2, <2>3, <2>4 DEF ParserKept, Phases
<1>11. CASE LoopsEnd(NextCell)
  <2>1. phase' = "filled" /\ NCells = CellOf(at) + 1 /\ NCells' = NCells
    BY <1>1, <1>4, <1>11, NextIsNext DEF NextIteration, StackVars
  <2>2. Columns' = NCells'
    BY <1>2, <1>6, <1>7, <2>1
  <2> QED BY <1>6, <1>9, <1>10, <2>1, <2>2 DEF MatrixKept
<1>12. CASE ~ LoopsEnd(NextCell)
  <2>1. PICK after : after = NextCell
    OBVIOUS
  <2>2. phase' = "filling" /\ at' = after /\ Position(after) /\ CellOf(after) = CellOf(at) + 1
    BY <1>1, <1>4, <1>12, <2>1, NextIsNext DEF NextIteration
  <2>3. Position(after)' /\ CellOf(after)' = CellOf(after)
    BY <1>8, <2>2
  <2>4. Position(at)' /\ CellOf(at)' = CellOf(after)
    BY <2>2, <2>3 DEF Position, CellOf
  <2>5. Columns' = CellOf(at)'
    BY <1>2, <1>6, <1>7, <2>2, <2>4
  <2> QED BY <1>6, <1>9, <1>10, <2>2, <2>4, <2>5 DEF MatrixKept
<1> QED BY <1>11, <1>12

LEMMA StutterKeeps ==
  ASSUME MatrixKept, UNCHANGED vars
  PROVE  MatrixKept'
<1>1. /\ UNCHANGED StackVars
      /\ UNCHANGED <<declared, stack, NLayers, at, ColumnPointers, RowIndices, Values, phase>>
  BY DEF vars, parserVars, matrixVars, StackVars
<1>2. Sized' = Sized /\ Typed' = Typed
  BY <1>1, SameNumbers, SameTyped
<1>3. ParserKept'
  <2>2. LayersOf(stack)' = LayersOf(stack)
    BY <1>1 DEF LayersOf, ElementLayers
  <2>3. phase' = phase /\ stack' = stack /\ NLayers' = NLayers
    BY <1>1
  <2>4. ParserKept
    BY DEF MatrixKept
  <2>5. StackKept' = StackKept /\ EndsInSolids' = EndsInSolids
    BY <1>1 DEF EndsInSolids, StackKept, Checked
  <2> QED BY <1>2, <2>2, <2>3, <2>4, <2>5 DEF ParserKept, Phases
<1>4. Arrays' /\ Columns' = Columns
  BY <1>1 DEF MatrixKept, Arrays, Columns
<1>5. /\ phase \notin {"filling", "filled"} => at' = Start /\ Columns' = 0
      /\ phase = "filling" => Position(at)' /\ Columns' = CellOf(at)'
      /\ phase = "filled" => Columns' = NCells'
  <2>1. PICK here : here = at
    OBVIOUS
  <2>2. Position(here)' = Position(here) /\ CellOf(here)' = CellOf(here)
    BY <1>1, SameNumbers
  <2>3. Position(at)' = Position(at) /\ CellOf(at)' = CellOf(at)
    BY <1>1, <2>1, <2>2 DEF Position, CellOf
  <2> QED BY <1>1, <1>4, <2>3 DEF MatrixKept, StackVars
<1>6. ASSUME phase \in {"filling", "filled"} PROVE ColumnsKept'
  <2>1. Sized /\ Typed /\ ColumnsKept
    BY <1>6 DEF MatrixKept, ParserKept
  <2>2. ASSUME NEW j \in 0 .. Columns' - 1
        PROVE  \E p : Position(p)' /\ CellOf(p)' = j /\ ColumnHolds(j, p)'
    <3>1. PICK p : Position(p) /\ CellOf(p) = j /\ ColumnHolds(j, p)
      BY <1>4, <2>1 DEF ColumnsKept
    <3>2. p.l \in 0 .. NLayers
      BY <3>1 DEF Position
    <3>3. UniformColumn(p.l, p.r, p.c)' = UniformColumn(p.l, p.r, p.c)
      BY <1>1, <2>1, <3>2, SameColumns
    <3>4. ColumnHolds(j, p)'
      BY <1>1, <3>1, <3>3 DEF ColumnHolds
    <3> QED BY <1>1, <3>1, <3>4, SameNumbers
  <2> QED BY <2>2 DEF ColumnsKept
<1> QED BY <1>1, <1>2, <1>3, <1>4, <1>5, <1>6 DEF MatrixKept, Start

(* Whatever the parser accepts, from thermal_grid_fill to the last column  *)
(* and through every refill: each layer has a type that its element gives  *)
(* it, the four of a channel with walls together; and every column written *)
(* so far, the k-th being that of the k-th cell, holds exactly the rows    *)
(* and the conductances of the function for that kind of cell.             *)
THEOREM MatrixInvariant ==
  Spec => []MatrixKept
<1>1. Init => MatrixKept
  BY MatrixInit
<1>2. MatrixKept /\ [Next]_vars => MatrixKept'
  <2> SUFFICES ASSUME MatrixKept, [Next]_vars PROVE MatrixKept'
    OBVIOUS
  <2>1. CASE Parse
    BY <2>1, ParseKeeps
  <2>2. CASE GridFill("parsed")
    BY <2>2, GridFillKeeps
  <2>3. CASE FillColumn
    BY <2>3, FillsColumn, WriteKeeps
  <2>4. CASE Refill
    BY <2>4, RefillKeeps
  <2>5. CASE UNCHANGED vars
    BY <2>5, StutterKeeps
  <2> QED BY <2>1, <2>2, <2>3, <2>4, <2>5 DEF Next
<1> QED BY <1>1, <1>2, PTL DEF Spec

(* What the rows and the coefficients of a written column are.             *)
LEMMA ColumnOf ==
  ASSUME Arrays, Sized, Typed, NEW j \in 0 .. Columns - 1, NEW p, Position(p), ColumnHolds(j, p)
  PROVE  LET column == UniformColumn(p.l, p.r, p.c)
             rows   == RowsOfColumn(j)
         IN  /\ Len(column) \in Nat /\ Len(rows) = Len(column) /\ DOMAIN rows = 1 .. Len(column)
             /\ \A k \in 1 .. Len(column) :
                  /\ rows[k] = column[k].row
                  /\ column[k].row # j => Coefficient(column[k].row, j) = column[k].value
<1>1. PICK column : column = UniformColumn(p.l, p.r, p.c)
  OBVIOUS
<1> DEFINE w == Len(column)  from == ColumnPointers[j + 1]  upto == ColumnPointers[j + 2]
<1>2. PICK rows : rows = RowsOfColumn(j)
  OBVIOUS
<1>3. PICK S : RowIndices \in Seq(S)
  BY DEF Arrays
<1>4. /\ Lists(column, Entries(p.l, p.r, p.c))
  BY <1>1, ColumnLists
<1>5. PICK E : column \in Seq(E)
  BY <1>4 DEF Lists
<1>6. /\ w \in Nat /\ from \in Nat /\ Len(RowIndices) \in Nat
  <2>1. Len(ColumnPointers) \in Nat /\ j + 1 \in 1 .. Len(ColumnPointers)
    BY DEF Columns, Arrays
  <2> QED BY <1>3, <1>5, <2>1 DEF Arrays
<1>7. /\ upto = from + w /\ from + w <= Len(RowIndices)
      /\ \A k \in 1 .. w : /\ RowIndices[from + k] = column[k].row
                           /\ column[k].row # j => Values[from + k] = column[k].value
  BY <1>1 DEF ColumnHolds
<1>8. \A k, m \in 1 .. w : k < m => column[k].row < column[m].row
  BY <1>4 DEF Lists
<1>9. \A k \in 1 .. w : column[k].row \in Int
  <2>1. ASSUME NEW e \in Entries(p.l, p.r, p.c) PROVE e.row \in Int
    <3>1. EntriesLinked(p)
      BY AllLinked
    <3>2. e.row = CellOf(p) \/ Linked(p, e.row)
      BY <3>1 DEF EntriesLinked
    <3>3. CellOf(p) \in Int /\ \A q : Position(q) => CellOf(q) \in Int
      BY CellBounds
    <3> QED BY <3>2, <3>3 DEF Linked
  <2> QED BY <1>4, <2>1 DEF Lists
<1>10. /\ Len(rows) = w /\ DOMAIN rows = 1 .. w
       /\ \A k \in 1 .. w : rows[k] = RowIndices[from + k]
  <2>1. rows = SubSeq(RowIndices, from + 1, from + w)
    BY <1>2, <1>7 DEF RowsOfColumn
  <2> HIDE DEF w, from
  <2>2. \A k \in 1 .. w : k + (from + 1) - 1 = from + k /\ from + k \in 1 .. Len(RowIndices)
    BY <1>6, <1>7
  <2>3. (from + w) - (from + 1) + 1 = w
    BY <1>6
  <2>4. rows \in Seq(S) /\ Len(rows) = w /\ \A k \in 1 .. w : rows[k] = RowIndices[from + k]
    <3>1. from + 1 \in Int /\ from + w \in Int
          /\ \A i \in from + 1 .. from + w : RowIndices[i] \in S
      BY <1>3, <1>6, <1>7
    <3>2. /\ SubSeq(RowIndices, from + 1, from + w) \in Seq(S)
          /\ Len(SubSeq(RowIndices, from + 1, from + w)) =
               IF from + 1 <= from + w THEN (from + w) - (from + 1) + 1 ELSE 0
          /\ \A i \in 1 .. (from + w) - (from + 1) + 1 :
               SubSeq(RowIndices, from + 1, from + w)[i] = RowIndices[(from + 1) + i - 1]
      BY <3>1, SubSeqProperties
    <3>3. (from + 1 <= from + w <=> w # 0) /\ \A i \in 1 .. w : (from + 1) + i - 1 = from + i
      BY <1>6
    <3> QED BY <2>1, <2>3, <3>2, <3>3, Zenon
  <2> QED BY <2>4
<1>11. ASSUME NEW k \in 1 .. w, column[k].row # j
       PROVE  Coefficient(column[k].row, j) = column[k].value
  <2> DEFINE i == column[k].row
             Is(n) == n \in from + 1 .. from + w /\ RowIndices[n] = i
  <2>1. Is(from + k)
    <3>1. from + k \in from + 1 .. from + w
      <4> HIDE DEF from, w
      <4> QED BY <1>6
    <3> QED BY <1>7, <3>1
  <2>2. ASSUME NEW n, Is(n) PROVE n = from + k
    <3> DEFINE m == n - from
    <3>1. m \in 1 .. w /\ n = from + m
      <4> HIDE DEF w, from
      <4> QED BY <1>6, <2>2
    <3> HIDE DEF m
    <3>2. column[m].row = column[k].row
      BY <1>7, <2>2, <3>1
    <3> HIDE DEF w, from
    <3>3. m = k
      BY <1>6, <1>8, <1>9, <3>1, <3>2
    <3> QED BY <3>1, <3>3
  <2>3. (CHOOSE n \in from + 1 .. upto : RowIndices[n] = i) = from + k
    <3>1. (CHOOSE n \in from + 1 .. from + w : RowIndices[n] = i) = from + k
      BY <2>1, <2>2
    <3> QED BY <1>7, <3>1
  <2>4. Coefficient(i, j) = Values[from + k]
    BY <2>3 DEF Coefficient
  <2> QED BY <1>7, <1>11, <2>4
<1> QED BY <1>1, <1>2, <1>6, <1>7, <1>10, <1>11

LEMMA ColumnRows ==
  ASSUME Arrays, Sized, Typed, NEW j \in 0 .. Columns - 1, NEW p, Position(p), CellOf(p) = j,
         ColumnHolds(j, p)
  PROVE  LET rows == RowsOfColumn(j)
         IN  /\ Len(rows) \in Nat
             /\ \A k \in 1 .. Len(rows) - 1 : rows[k] < rows[k + 1]
             /\ Range(rows) = {e.row : e \in Entries(p.l, p.r, p.c)}
             /\ j \in Range(rows) /\ Range(rows) \subseteq 0 .. NCells - 1
<1>1. PICK column : column = UniformColumn(p.l, p.r, p.c)
  OBVIOUS
<1>2. PICK rows : rows = RowsOfColumn(j)
  OBVIOUS
<1> DEFINE w == Len(column)
<1>3. /\ w \in Nat /\ Len(rows) = w /\ DOMAIN rows = 1 .. w
      /\ \A k \in 1 .. w : rows[k] = column[k].row
  BY <1>1, <1>2, ColumnOf
<1>4. PICK E : E = Entries(p.l, p.r, p.c)
  OBVIOUS
<1>5. Lists(column, E)
  BY <1>1, <1>4, ColumnLists
<1>6. \A k \in 1 .. w : column[k] \in E
  BY <1>5 DEF Lists
<1>7. ASSUME NEW k \in 1 .. Len(rows) - 1 PROVE rows[k] < rows[k + 1]
  <2>1. k \in 1 .. w /\ k + 1 \in 1 .. w /\ k < k + 1
    BY <1>3
  <2>2. column[k].row < column[k + 1].row
    BY <1>5, <2>1 DEF Lists
  <2> QED BY <1>3, <2>1, <2>2
<1>8. Range(rows) = {e.row : e \in E}
  <2>1. Range(rows) = {rows[k] : k \in 1 .. w}
    BY <1>3 DEF Range
  <2>2. ASSUME NEW e \in E PROVE \E k \in 1 .. w : rows[k] = e.row
    <3>1. PICK k \in 1 .. w : column[k] = e
      BY <1>5 DEF Lists
    <3> QED BY <1>3, <3>1
  <2>3. \A k \in 1 .. w : \E e \in E : rows[k] = e.row
    BY <1>3, <1>6
  <2> QED BY <2>1, <2>2, <2>3
<1>9. EntriesLinked(p) /\ \A q : Position(q) => CellOf(q) \in 0 .. NCells - 1
  BY AllLinked, CellBounds
<1>10. j \in Range(rows) /\ Range(rows) \subseteq 0 .. NCells - 1
  BY <1>4, <1>8, <1>9 DEF EntriesLinked, Linked
<1> QED BY <1>2, <1>3, <1>4, <1>7, <1>8, <1>10

(* From the invariant: the column just written lists rows of the matrix in *)
(* ascending order, its own among them.                                    *)
LEMMA KeptAscends ==
  MatrixKept => RowsAscend
<1> SUFFICES ASSUME MatrixKept, Columns > 0 PROVE RowsAscend
  BY DEF RowsAscend
<1>1. phase \in {"filling", "filled"}
  BY DEF MatrixKept
<1>2. Arrays /\ Sized /\ Typed /\ ColumnsKept
  BY <1>1 DEF MatrixKept, ParserKept
<1>3. Columns - 1 \in 0 .. Columns - 1
  BY <1>2 DEF Columns, Arrays
<1>4. PICK p : Position(p) /\ CellOf(p) = Columns - 1 /\ ColumnHolds(Columns - 1, p)
  BY <1>2, <1>3 DEF ColumnsKept
<1> DEFINE rows == RowsOfColumn(Columns - 1)
<1>5. /\ \A k \in 1 .. Len(rows) - 1 : rows[k] < rows[k + 1]
      /\ Columns - 1 \in Range(rows) /\ Range(rows) \subseteq 0 .. NCells - 1
  BY <1>2, <1>3, <1>4, ColumnRows
<1> QED BY <1>5 DEF RowsAscend

(* Whatever the stack, its channels and its heat sinks, and for every grid *)
(* the parser accepts: each column that fill_system_matrix writes lists    *)
(* rows of the matrix in ascending order and once each, its own among      *)
(* them, so that the position of a column is the number of its cell.       *)
THEOREM RowsAlwaysAscend ==
  Spec => []RowsAscend
  BY MatrixInvariant, KeptAscends, PTL

(* From the invariant: the coefficients of two cells in the equations of   *)
(* each other.                                                             *)
LEMMA KeptAgrees ==
  MatrixKept => CoefficientsAgree
<1> SUFFICES ASSUME MatrixKept, phase = "filled",
                    NEW j \in 0 .. Columns - 1, NEW i \in Range(RowsOfColumn(j)) \ {j}
             PROVE  j \in Range(RowsOfColumn(i)) /\ Agree(Coefficient(i, j), Coefficient(j, i))
  BY DEF CoefficientsAgree, Agree
<1>1. Arrays /\ Sized /\ Typed /\ ColumnsKept /\ Columns = NCells
  BY DEF MatrixKept, ParserKept
<1>2. PICK p : Position(p) /\ CellOf(p) = j /\ ColumnHolds(j, p)
  BY <1>1 DEF ColumnsKept
<1>3. /\ Range(RowsOfColumn(j)) = {e.row : e \in Entries(p.l, p.r, p.c)}
      /\ Range(RowsOfColumn(j)) \subseteq 0 .. NCells - 1
  BY <1>1, <1>2, ColumnRows
<1>4. i \in 0 .. Columns - 1 /\ i # j
  BY <1>1, <1>3
<1>5. PICK q : Position(q) /\ CellOf(q) = i /\ Joins(p, q)
  <2>1. EntriesLinked(p)
    BY <1>1, <1>2, AllLinked
  <2>2. Linked(p, i)
    BY <1>2, <1>3, <1>4, <2>1 DEF EntriesLinked
  <2> QED BY <2>2 DEF Linked
<1>6. ColumnHolds(i, q)
  <2>1. PICK s : Position(s) /\ CellOf(s) = i /\ ColumnHolds(i, s)
    BY <1>1, <1>4 DEF ColumnsKept
  <2>2. s = q
    BY <1>1, <1>5, <2>1, CellInjective
  <2> QED BY <2>1, <2>2
<1>7. PICK e \in Entries(p.l, p.r, p.c), f \in Entries(q.l, q.r, q.c) :
        /\ e.row = i /\ f.row = j /\ Agree(e.value, f.value)
  BY <1>2, <1>5 DEF Joins
<1>8. Coefficient(i, j) = e.value
  <2>1. PICK k \in 1 .. Len(UniformColumn(p.l, p.r, p.c)) : UniformColumn(p.l, p.r, p.c)[k] = e
    BY <1>1, <1>2, ColumnLists DEF Lists
  <2> QED BY <1>1, <1>2, <1>4, <1>7, <2>1, ColumnOf
<1>9. Coefficient(j, i) = f.value
  <2>1. PICK k \in 1 .. Len(UniformColumn(q.l, q.r, q.c)) : UniformColumn(q.l, q.r, q.c)[k] = f
    BY <1>1, <1>5, ColumnLists DEF Lists
  <2> QED BY <1>1, <1>4, <1>5, <1>6, <1>7, <2>1, ColumnOf
<1>10. j \in Range(RowsOfColumn(i))
  <2>1. Range(RowsOfColumn(i)) = {d.row : d \in Entries(q.l, q.r, q.c)}
    BY <1>1, <1>4, <1>5, <1>6, ColumnRows
  <2> QED BY <1>7, <2>1
<1> QED BY <1>7, <1>8, <1>9, <1>10

(* For every stack and every grid the parser accepts, once the matrix is   *)
(* filled: heat that flows from one cell to another, through the walls of  *)
(* a channel or to the spreader as well, is in the equations of both, each *)
(* written by the function for its kind of cell, with one conductance (or, *)
(* in the coolant, with what one gives being what the other gets).         *)
THEOREM CoefficientsAlwaysAgree ==
  Spec => []CoefficientsAgree
  BY MatrixInvariant, KeptAgrees, PTL

-----------------------------------------------------------------------------
(* How many coefficients the cells of a grid have: K each, one more for    *)
(* every neighbour to the north and south, and to the east and west, if    *)
(* these are joined, and one for every cell of a part of the grid.  The    *)
(* pointers after each column are in t, from b on.                         *)

Bit(b) == IF b THEN 1 ELSE 0

RowSteps(t, b, W, K, ew, c0, w) ==
  \A c \in 0 .. W - 1 :
    t[(b + c) + 1] = t[b + c] + K + Bit(ew /\ c # 0) + Bit(ew /\ c # W - 1)
                       + Bit(c \in c0 .. c0 + w - 1)

LEMMA RowTotal ==
  ASSUME NEW W \in Nat \ {0}, NEW K \in Int, NEW ew \in BOOLEAN, NEW c0 \in Nat, NEW w \in Nat,
         c0 + w <= W, NEW t, NEW b \in Int, t[b] \in Int,
         RowSteps(t, b, W, K, ew, c0, w)
  PROVE  t[b + W] = t[b] + K * W + (IF ew THEN 2 * (W - 1) ELSE 0) + w
<1> DEFINE Ends(c) == IF ~ ew THEN 0 ELSE (IF c = 0 THEN 0 ELSE c - 1) + (IF c = W THEN W - 1 ELSE c)
           Part(c) == IF c <= c0 THEN 0 ELSE IF c <= c0 + w THEN c - c0 ELSE w
           S == {c \in Nat : c <= W => t[b + c] = t[b] + K * c + Ends(c) + Part(c)}
<1>1. 0 \in S
  <2>1. K * 0 = 0 /\ b + 0 = b
    OBVIOUS
  <2> QED BY <2>1
<1>2. ASSUME NEW c \in Nat, c \in S PROVE c + 1 \in S
  <2> SUFFICES ASSUME c + 1 <= W
               PROVE  t[b + (c + 1)] = t[b] + K * (c + 1) + Ends(c + 1) + Part(c + 1)
    OBVIOUS
  <2>1. t[b + c] = t[b] + K * c + Ends(c) + Part(c)
    BY <1>2
  <2>2. /\ b + (c + 1) = (b + c) + 1 /\ c \in 0 .. W - 1
        /\ K * (c + 1) = K * c + K /\ K * c \in Int
    OBVIOUS
  <2>3. t[b + (c + 1)] = t[b + c] + K + Bit(ew /\ c # 0) + Bit(ew /\ c # W - 1)
                              + Bit(c \in c0 .. c0 + w - 1)
    BY <2>2 DEF RowSteps
  <2>4. Ends(c + 1) = Ends(c) + Bit(ew /\ c # 0) + Bit(ew /\ c # W - 1) /\ Ends(c) \in Int
    BY <2>2 DEF Bit
  <2>5. Part(c + 1) = Part(c) + Bit(c \in c0 .. c0 + w - 1) /\ Part(c) \in Int
    BY <2>2 DEF Bit
  <2>6. /\ Bit(ew /\ c # 0) \in Int /\ Bit(ew /\ c # W - 1) \in Int
        /\ Bit(c \in c0 .. c0 + w - 1) \in Int
    BY DEF Bit
  <2> DEFINE x == Bit(ew /\ c # 0)  y == Bit(ew /\ c # W - 1)  z == Bit(c \in c0 .. c0 + w - 1)
             e == Ends(c)  p == Part(c)  e2 == Ends(c + 1)  p2 == Part(c + 1)
             kc == K * c  tb == t[b]  tc == t[b + c]  t2 == t[b + (c + 1)]  kc2 == K * (c + 1)
  <2>7. /\ tc = tb + kc + e + p /\ kc2 = kc + K /\ kc \in Int /\ t2 = tc + K + x + y + z
        /\ e2 = e + x + y /\ p2 = p + z /\ e \in Int /\ p \in Int
        /\ x \in Int /\ y \in Int /\ z \in Int /\ tb \in Int
    BY <2>1, <2>2, <2>3, <2>4, <2>5, <2>6
  <2> HIDE DEF x, y, z, e, p, e2, p2, kc, tb, tc, t2, kc2
  <2>8. t2 = tb + kc2 + e2 + p2
    BY <2>7
  <2> QED BY <2>8 DEF tb, t2, kc2, e2, p2
<1> HIDE DEF S
<1>3. W \in S
  BY <1>1, <1>2, Induction
<1>4. t[b + W] = t[b] + K * W + Ends(W) + Part(W)
  BY <1>3 DEF S
<1>5. Ends(W) = (IF ew THEN 2 * (W - 1) ELSE 0) /\ Part(W) = w
  OBVIOUS
<1> QED BY <1>4, <1>5

GridSteps(t, b, H, W, K, ns, ew, r0, h, c0, w) ==
  \A r \in 0 .. H - 1, c \in 0 .. W - 1 :
    /\ t[b + (r * W + c)] \in Int
    /\ t[(b + (r * W + c)) + 1] =
         t[b + (r * W + c)] + K + Bit(ns /\ r # 0) + Bit(ns /\ r # H - 1)
           + Bit(ew /\ c # 0) + Bit(ew /\ c # W - 1)
           + Bit(r \in r0 .. r0 + h - 1 /\ c \in c0 .. c0 + w - 1)

LEMMA GridTotal ==
  ASSUME NEW H \in Nat \ {0}, NEW W \in Nat \ {0}, NEW K \in Int,
         NEW ns \in BOOLEAN, NEW ew \in BOOLEAN,
         NEW r0 \in Nat, NEW h \in Nat, r0 + h <= H, NEW c0 \in Nat, NEW w \in Nat, c0 + w <= W,
         NEW t, NEW b \in Int, t[b] \in Int,
         GridSteps(t, b, H, W, K, ns, ew, r0, h, c0, w)
  PROVE  t[b + H * W] = t[b] + K * (H * W) + (IF ns THEN 2 * ((H - 1) * W) ELSE 0)
                          + (IF ew THEN 2 * (H * (W - 1)) ELSE 0) + h * w
<1> DEFINE Ends(r) == IF ~ ns THEN 0 ELSE (IF r = 0 THEN 0 ELSE (r - 1) * W)
                                            + (IF r = H THEN (H - 1) * W ELSE r * W)
           Along(r) == IF ew THEN 2 * (r * (W - 1)) ELSE 0
           Part(r) == IF r <= r0 THEN 0 ELSE IF r <= r0 + h THEN (r - r0) * w ELSE h * w
           S == {r \in Nat : r <= H => t[b + r * W] = t[b] + K * (r * W) + Ends(r) + Along(r) + Part(r)}
<1>1. 0 \in S
  <2>1. 0 * W = 0 /\ K * 0 = 0 /\ b + 0 = b /\ 0 * (W - 1) = 0
    OBVIOUS
  <2>2. Ends(0) = 0 /\ Along(0) = 0 /\ Part(0) = 0
    BY <2>1
  <2> HIDE DEF Ends, Along, Part
  <2> QED BY <2>1, <2>2
<1>2. ASSUME NEW r \in Nat, r \in S PROVE r + 1 \in S
  <2> SUFFICES ASSUME r + 1 <= H
               PROVE  t[b + (r + 1) * W] =
                        t[b] + K * ((r + 1) * W) + Ends(r + 1) + Along(r + 1) + Part(r + 1)
    OBVIOUS
  <2> DEFINE k == K + Bit(ns /\ r # 0) + Bit(ns /\ r # H - 1)
             inside == r \in r0 .. r0 + h - 1
             v == IF inside THEN w ELSE 0
             a == b + r * W
  <2>1. t[a] = t[b] + K * (r * W) + Ends(r) + Along(r) + Part(r)
    BY <1>2
  <2>2. r * W \in Int /\ (r + 1) * W = r * W + W /\ r \in 0 .. H - 1
    BY ProductStep
  <2>3. (r - 1) * W \in Int /\ (r - 1) * W = r * W - W /\ H * W \in Int /\ (H - 1) * W = H * W - W
    BY ProductStep
  <2>4. r * (W - 1) \in Int /\ (r + 1) * (W - 1) = r * (W - 1) + (W - 1)
    BY ProductStep
  <2>5. /\ (r - r0) * w \in Int /\ ((r + 1) - r0) * w = (r - r0) * w + w /\ h * w \in Int
    <3>1. (r + 1) - r0 = (r - r0) + 1 /\ r - r0 \in Int
      OBVIOUS
    <3> QED BY <3>1, ProductStep
  <2>6. Ends(r) \in Int /\ Along(r) \in Int /\ Part(r) \in Int
    BY <2>2, <2>3, <2>4, <2>5
  <2>7. Ends(r + 1) = Ends(r) + Bit(ns /\ r # 0) * W + Bit(ns /\ r # H - 1) * W
    <3>1. CASE ~ ns
      BY <3>1 DEF Bit
    <3>2. CASE ns
      <4>1. Bit(ns /\ r # 0) * W = (IF r # 0 THEN W ELSE 0)
        BY <3>2 DEF Bit
      <4>2. Bit(ns /\ r # H - 1) * W = (IF r # H - 1 THEN W ELSE 0)
        BY <3>2 DEF Bit
      <4>3. (r + 1) - 1 = r /\ r # H /\ r + 1 # 0 /\ (r + 1 = H <=> r = H - 1)
        BY <2>2
      <4> DEFINE x == r * W  y == (r - 1) * W  z == (r + 1) * W  q == (H - 1) * W
      <4>4. Ends(r + 1) = x + (IF r = H - 1 THEN q ELSE z)
        BY <3>2, <4>3
      <4>5. Ends(r) = (IF r = 0 THEN 0 ELSE y) + x
        BY <3>2, <4>3
      <4>6. /\ x \in Int /\ y = x - W /\ z = x + W /\ (r = H - 1 => q = x) /\ (r = 0 => x = 0)
        BY <2>2, <2>3
      <4> HIDE DEF x, y, z, q, Ends
      <4> QED BY <4>1, <4>2, <4>4, <4>5, <4>6
    <3> QED BY <3>1, <3>2
  <2>8. Along(r + 1) = Along(r) + (IF ew THEN 2 * (W - 1) ELSE 0)
    BY <2>4
  <2>9. Part(r + 1) = Part(r) + v
    <3> DEFINE x == (r - r0) * w  y == ((r + 1) - r0) * w  z == h * w
    <3>1. /\ x \in Int /\ y = x + w /\ z \in Int /\ (r = r0 => x = 0) /\ (r - r0 = h => x = z)
      BY <2>5
    <3>2. Part(r) = (IF r <= r0 THEN 0 ELSE IF r <= r0 + h THEN x ELSE z)
      OBVIOUS
    <3>3. Part(r + 1) = (IF r + 1 <= r0 THEN 0 ELSE IF r + 1 <= r0 + h THEN y ELSE z)
      OBVIOUS
    <3> HIDE DEF x, y, z, Part
    <3> QED BY <3>1, <3>2, <3>3
  <2>10. k \in Int /\ v \in Nat /\ c0 + v <= W /\ a \in Int
    BY <2>2 DEF Bit
  <2>11. t[a] \in Int
    <3>1. K * (r * W) \in Int
      BY <2>2
    <3> HIDE DEF Ends, Along, Part
    <3> QED BY <2>1, <2>6, <3>1
  <2>12. ASSUME NEW c \in 0 .. W - 1
         PROVE  t[(a + c) + 1] = t[a + c] + k + Bit(ew /\ c # 0) + Bit(ew /\ c # W - 1)
                                   + Bit(c \in c0 .. c0 + v - 1)
    <3>1. b + (r * W + c) = a + c
      BY <2>2
    <3>2. (r \in r0 .. r0 + h - 1 /\ c \in c0 .. c0 + w - 1) <=> c \in c0 .. c0 + v - 1
      OBVIOUS
    <3>3. Bit(r \in r0 .. r0 + h - 1 /\ c \in c0 .. c0 + w - 1) = Bit(c \in c0 .. c0 + v - 1)
      BY <3>2 DEF Bit
    <3>4. t[(b + (r * W + c)) + 1] =
             t[b + (r * W + c)] + K + Bit(ns /\ r # 0) + Bit(ns /\ r # H - 1)
               + Bit(ew /\ c # 0) + Bit(ew /\ c # W - 1)
               + Bit(r \in r0 .. r0 + h - 1 /\ c \in c0 .. c0 + w - 1)
      BY <2>2 DEF GridSteps
    <3> DEFINE x == Bit(ns /\ r # 0)  y == Bit(ns /\ r # H - 1)
               ex == Bit(ew /\ c # 0)  ey == Bit(ew /\ c # W - 1)
               z == Bit(c \in c0 .. c0 + v - 1)
    <3>5. t[(a + c) + 1] = t[a + c] + K + x + y + ex + ey + z
      <4> HIDE DEF a, v
      <4> QED BY <3>1, <3>3, <3>4
    <3>6. x \in Int /\ y \in Int /\ ex \in Int /\ ey \in Int /\ z \in Int
      BY DEF Bit
    <3>7. t[(a + c) + 1] = t[a + c] + (K + x + y) + ex + ey + z
      <4>1. t[a + c] \in Int
        <5>1. t[b + (r * W + c)] \in Int
          BY <2>2 DEF GridSteps
        <5> QED BY <3>1, <5>1
      <4> HIDE DEF x, y, ex, ey, z, a
      <4> QED BY <3>5, <3>6, <4>1
    <3> QED BY <3>7
  <2> HIDE DEF a, v, k
  <2>13. t[a + W] = t[a] + k * W + (IF ew THEN 2 * (W - 1) ELSE 0) + v
    <3>1. ASSUME NEW j \in Int, NEW m \in Nat, NEW i \in Int, j = k, m = v, i = a
          PROVE  t[i + W] = t[i] + j * W + (IF ew THEN 2 * (W - 1) ELSE 0) + m
      <4>1. c0 + m <= W /\ t[i] \in Int /\ RowSteps(t, i, W, j, ew, c0, m)
        BY <2>10, <2>11, <2>12, <3>1 DEF RowSteps
      <4> QED BY <4>1, RowTotal
    <3> QED BY <2>10, <3>1
  <2>14. k * W = K * W + Bit(ns /\ r # 0) * W + Bit(ns /\ r # H - 1) * W
    <3> DEFINE x == Bit(ns /\ r # 0)  y == Bit(ns /\ r # H - 1)
    <3>1. x \in Int /\ y \in Int
      BY DEF Bit
    <3> HIDE DEF x, y
    <3>2. (K + x + y) * W = K * W + x * W + y * W
      BY <3>1
    <3> QED BY <3>2 DEF k, x, y
  <2>15. K * ((r + 1) * W) = K * (r * W) + K * W /\ K * (r * W) \in Int /\ K * W \in Int
    BY <2>2
  <2>16. a + W = b + (r + 1) * W
    BY <2>2 DEF a
  <2>17. Bit(ns /\ r # 0) * W \in Int /\ Bit(ns /\ r # H - 1) * W \in Int
    BY DEF Bit
  <2> DEFINE xw == Bit(ns /\ r # 0) * W  yw == Bit(ns /\ r # H - 1) * W
             e == Ends(r)  e2 == Ends(r + 1)  n == Along(r)  n2 == Along(r + 1)
             p == Part(r)  p2 == Part(r + 1)  f == IF ew THEN 2 * (W - 1) ELSE 0
             ta == t[a]  tb == t[b]  t2 == t[b + (r + 1) * W]
             kr == K * (r * W)  kr2 == K * ((r + 1) * W)  kw == K * W  kk == k * W
  <2>18. ta = tb + kr + e + n + p
    BY <2>1
  <2>20. t2 = ta + kk + f + v
    BY <2>13, <2>16
  <2>21. kk = kw + xw + yw /\ kr2 = kr + kw
    BY <2>14, <2>15
  <2>22. e2 = e + xw + yw /\ n2 = n + f /\ p2 = p + v
    BY <2>7, <2>8, <2>9
  <2>23. /\ tb \in Int /\ kr \in Int /\ e \in Int /\ n \in Int /\ p \in Int /\ kw \in Int
         /\ xw \in Int /\ yw \in Int /\ f \in Int /\ v \in Int
    BY <2>6, <2>10, <2>15, <2>17
  <2> HIDE DEF xw, yw, e, e2, n, n2, p, p2, f, ta, tb, t2, kr, kr2, kw, kk
  <2>19. t2 = tb + kr2 + e2 + n2 + p2
    BY <2>18, <2>20, <2>21, <2>22, <2>23
  <2> QED BY <2>19 DEF t2, tb, kr2, e2, n2, p2
<1> HIDE DEF S
<1>3. H \in S
  BY <1>1, <1>2, Induction
<1>4. t[b + H * W] = t[b] + K * (H * W) + Ends(H) + Along(H) + Part(H)
  BY <1>3 DEF S
<1>5. /\ Ends(H) = (IF ns THEN 2 * ((H - 1) * W) ELSE 0)
      /\ Along(H) = IF ew THEN 2 * (H * (W - 1)) ELSE 0
      /\ Part(H) = h * w
  <2>1. (H - 1) * W \in Int /\ (H - r0) * w \in Int /\ h * w \in Int
    OBVIOUS
  <2>2. Part(H) = h * w
    <3>1. H <= r0 => h = 0 /\ h * w = 0
      OBVIOUS
    <3>2. H <= r0 + h => H - r0 = h
      OBVIOUS
    <3> QED BY <3>1, <3>2
  <2> QED BY <2>1, <2>2
<1> QED BY <1>4, <1>5

(* A column of n entries.                                                  *)
Long(s, n) == (\E S : s \in Seq(S)) /\ Len(s) = n

LEMMA LongWhen ==
  ASSUME NEW condition \in BOOLEAN, NEW e
  PROVE  Long(When(condition, e), Bit(condition))
<1>1. CASE condition
  <2>1. <<e>> \in Seq({e}) /\ Len(<<e>>) = 1
    OBVIOUS
  <2> QED BY <1>1, <2>1 DEF Long, When, Bit
<1>2. CASE ~ condition
  <2>1. <<>> \in Seq({e}) /\ Len(<<>>) = 0
    OBVIOUS
  <2> QED BY <1>2, <2>1 DEF Long, When, Bit
<1> QED BY <1>1, <1>2

LEMMA LongConcat ==
  ASSUME NEW s, NEW t, NEW n, NEW m, Long(s, n), Long(t, m)
  PROVE  Long(s \o t, n + m)
<1>1. PICK S, T : s \in Seq(S) /\ t \in Seq(T)
  BY DEF Long
<1>2. s \in Seq(S \cup T) /\ t \in Seq(S \cup T)
  BY <1>1, SeqMonotonic
<1> QED BY <1>2, ConcatProperties DEF Long

LEMMA LongAnd ==
  ASSUME NEW s, NEW n, Long(s, n), NEW condition \in BOOLEAN, NEW e
  PROVE  Long(s \o When(condition, e), n + Bit(condition))
  BY LongWhen, LongConcat

LEMMA LongOwn ==
  ASSUME NEW s, NEW n, Long(s, n), NEW e
  PROVE  Long(s \o <<e>>, n + 1)
<1>1. <<e>> \in Seq({e}) /\ Len(<<e>>) = 1
  OBVIOUS
<1>2. Long(<<e>>, 1)
  BY <1>1 DEF Long
<1> QED BY <1>2, LongConcat

-----------------------------------------------------------------------------
(* The number of entries of each kind of column.                           *)
LEMMA SolidLength ==
  ASSUME NEW l, NEW r, NEW c, ToSpreader(l) \in BOOLEAN
  PROVE  Long(SolidColumn(l, r, c),
              Bit(~ first_layer(l)) + Bit(~ first_row(r)) + Bit(c # 0) + 1
                + Bit(c # declared.ncolumns - 1) + Bit(~ last_row(r))
                + Bit(~ last_layer(l)) + Bit(ToSpreader(l)))
<1> DEFINE c1 == ~ first_layer(l)
           e1 == Conducts(Cell(l - 1, r, c),
                  Joint(get_conductance_bottom(l, r, c), get_conductance_top(l - 1, r, c)))
           c2 == ~ first_row(r)
           e2 == Conducts(Cell(l, r - 1, c),
                  PARALLEL(get_conductance_south(l, r, c), get_conductance_north(l, r - 1, c)))
           c3 == c # 0
           e3 == Conducts(Cell(l, r, c - 1),
                  PARALLEL(get_conductance_west(l, r, c), get_conductance_east(l, r, c - 1)))
           own == Own(Cell(l, r, c), get_capacity(l, r, c), SinkTerm(l, r, c))
           c4 == c # declared.ncolumns - 1
           e4 == Conducts(Cell(l, r, c + 1),
                  PARALLEL(get_conductance_east(l, r, c), get_conductance_west(l, r, c + 1)))
           c5 == ~ last_row(r)
           e5 == Conducts(Cell(l, r + 1, c),
                  PARALLEL(get_conductance_north(l, r, c), get_conductance_south(l, r + 1, c)))
           c6 == ~ last_layer(l)
           e6 == Conducts(Cell(l + 1, r, c),
                  Joint(get_conductance_top(l, r, c), get_conductance_bottom(l + 1, r, c)))
           c7 == ToSpreader(l)
           e7 == Conducts(SpreaderCellOver(r, c),
                  PARALLEL(get_spreader_conductance_top_bottom, get_conductance_top(l, r, c)))
<1>1. /\ c1 \in BOOLEAN /\ c2 \in BOOLEAN /\ c3 \in BOOLEAN /\ c4 \in BOOLEAN
      /\ c5 \in BOOLEAN /\ c6 \in BOOLEAN /\ c7 \in BOOLEAN
  BY DEF first_layer, last_layer, first_row, last_row, has_layer_underneath
<1>2. SolidColumn(l, r, c) =
        When(c1, e1) \o When(c2, e2) \o When(c3, e3) \o <<own>>
           \o When(c4, e4) \o When(c5, e5) \o When(c6, e6) \o When(c7, e7)
  BY DEF SolidColumn
<1> HIDE DEF c1, c2, c3, c4, c5, c6, c7, e1, e2, e3, own, e4, e5, e6, e7
<1>3. Long(When(c1, e1) \o When(c2, e2),
           Bit(c1) + Bit(c2))
  BY <1>1, LongWhen, LongAnd
<1>4. Long(When(c1, e1) \o When(c2, e2) \o When(c3, e3) \o <<own>>,
           Bit(c1) + Bit(c2) + Bit(c3) + 1)
  BY <1>1, <1>3, LongAnd, LongOwn
<1>5. Long(When(c1, e1) \o When(c2, e2) \o When(c3, e3) \o <<own>>
           \o When(c4, e4) \o When(c5, e5),
           Bit(c1) + Bit(c2) + Bit(c3) + 1 + Bit(c4) + Bit(c5))
  BY <1>1, <1>4, LongAnd
<1>6. Long(SolidColumn(l, r, c),
           Bit(c1) + Bit(c2) + Bit(c3) + 1 + Bit(c4) + Bit(c5) + Bit(c6) + Bit(c7))
  BY <1>1, <1>2, <1>5, LongAnd
<1> QED BY <1>6 DEF c1, c2, c3, c4, c5, c6, c7

LEMMA Liquid4rmLength ==
  ASSUME NEW l, NEW r, NEW c
  PROVE  Long(LiquidColumn4rm(l, r, c),
              Bit(~ first_layer(l)) + Bit(~ first_row(r)) + Bit(c # 0) + 1
                + Bit(c # declared.ncolumns - 1) + Bit(~ last_row(r))
                + Bit(~ last_layer(l)))
<1> DEFINE c1 == ~ first_layer(l)
           e1 == Conducts(Cell(l - 1, r, c),
                  PARALLEL(get_conductance_bottom(l, r, c), get_conductance_top(l - 1, r, c)))
           c2 == ~ first_row(r)
           e2 == Carries(Cell(l, r - 1, c), get_conductance_north(l, r, c))
           c3 == c # 0
           e3 == Conducts(Cell(l, r, c - 1),
                  PARALLEL(get_conductance_west(l, r, c), get_conductance_east(l, r, c - 1)))
           own == Own(Cell(l, r, c), get_capacity(l, r, c), FlowEnds(l, r, c))
           c4 == c # declared.ncolumns - 1
           e4 == Conducts(Cell(l, r, c + 1),
                  PARALLEL(get_conductance_east(l, r, c), get_conductance_west(l, r, c + 1)))
           c5 == ~ last_row(r)
           e5 == Carries(Cell(l, r + 1, c), get_conductance_south(l, r, c))
           c6 == ~ last_layer(l)
           e6 == Conducts(Cell(l + 1, r, c),
                  PARALLEL(get_conductance_top(l, r, c), get_conductance_bottom(l + 1, r, c)))
<1>1. /\ c1 \in BOOLEAN /\ c2 \in BOOLEAN /\ c3 \in BOOLEAN /\ c4 \in BOOLEAN
      /\ c5 \in BOOLEAN /\ c6 \in BOOLEAN
  BY DEF first_layer, last_layer, first_row, last_row, has_layer_underneath
<1>2. LiquidColumn4rm(l, r, c) =
        When(c1, e1) \o When(c2, e2) \o When(c3, e3) \o <<own>>
           \o When(c4, e4) \o When(c5, e5) \o When(c6, e6)
  BY DEF LiquidColumn4rm
<1> HIDE DEF c1, c2, c3, c4, c5, c6, e1, e2, e3, own, e4, e5, e6
<1>3. Long(When(c1, e1) \o When(c2, e2),
           Bit(c1) + Bit(c2))
  BY <1>1, LongWhen, LongAnd
<1>4. Long(When(c1, e1) \o When(c2, e2) \o When(c3, e3) \o <<own>>,
           Bit(c1) + Bit(c2) + Bit(c3) + 1)
  BY <1>1, <1>3, LongAnd, LongOwn
<1>5. Long(When(c1, e1) \o When(c2, e2) \o When(c3, e3) \o <<own>>
           \o When(c4, e4) \o When(c5, e5),
           Bit(c1) + Bit(c2) + Bit(c3) + 1 + Bit(c4) + Bit(c5))
  BY <1>1, <1>4, LongAnd
<1>6. Long(LiquidColumn4rm(l, r, c),
           Bit(c1) + Bit(c2) + Bit(c3) + 1 + Bit(c4) + Bit(c5) + Bit(c6))
  BY <1>1, <1>2, <1>5, LongAnd
<1> QED BY <1>6 DEF c1, c2, c3, c4, c5, c6

LEMMA Liquid2rmLength ==
  ASSUME NEW l, NEW r, NEW c
  PROVE  Long(LiquidColumn2rm(l, r, c),
              Bit(~ first_layer(l)) + Bit(~ first_row(r)) + 1 + Bit(~ last_row(r))
                + Bit(~ last_layer(l)))
<1> DEFINE c1 == ~ first_layer(l)
           e1 == Conducts(Cell(l - 2, r, c), get_conductance_bottom(l, r, c))
           c2 == ~ first_row(r)
           e2 == Carries(Cell(l, r - 1, c), get_conductance_north(l, r, c))
           own == Own(Cell(l, r, c), get_capacity(l, r, c), FlowEnds(l, r, c))
           c3 == ~ last_row(r)
           e3 == Carries(Cell(l, r + 1, c), get_conductance_south(l, r, c))
           c4 == ~ last_layer(l)
           e4 == Conducts(Cell(l + 1, r, c), get_conductance_top(l, r, c))
<1>1. /\ c1 \in BOOLEAN /\ c2 \in BOOLEAN /\ c3 \in BOOLEAN /\ c4 \in BOOLEAN
  BY DEF first_layer, last_layer, first_row, last_row, has_layer_underneath
<1>2. LiquidColumn2rm(l, r, c) =
        When(c1, e1) \o When(c2, e2) \o <<own>> \o When(c3, e3) \o When(c4, e4)
  BY DEF LiquidColumn2rm
<1> HIDE DEF c1, c2, c3, c4, e1, e2, own, e3, e4
<1>3. Long(When(c1, e1) \o When(c2, e2),
           Bit(c1) + Bit(c2))
  BY <1>1, LongWhen, LongAnd
<1>4. Long(When(c1, e1) \o When(c2, e2) \o <<own>> \o When(c3, e3),
           Bit(c1) + Bit(c2) + 1 + Bit(c3))
  BY <1>1, <1>3, LongAnd, LongOwn
<1>5. Long(LiquidColumn2rm(l, r, c),
           Bit(c1) + Bit(c2) + 1 + Bit(c3) + Bit(c4))
  BY <1>1, <1>2, <1>4, LongAnd
<1> QED BY <1>5 DEF c1, c2, c3, c4

LEMMA VirtualWallLength ==
  ASSUME NEW l, NEW r, NEW c
  PROVE  Long(VirtualWallColumn2rm(l, r, c),
              Bit(~ first_layer(l))
                + Bit(declared.channel = "MC_2RM" /\ ~ first_row(r)) + 1
                + Bit(declared.channel = "MC_2RM" /\ ~ last_row(r))
                + Bit(~ last_layer(l)))
<1> DEFINE c1 == ~ first_layer(l)
           e1 == Conducts(Cell(l - 1, r, c), get_conductance_bottom(l, r, c))
           c2 == declared.channel = "MC_2RM" /\ ~ first_row(r)
           e2 == Conducts(Cell(l, r - 1, c), AlongWall(l, r, c))
           own == Own(Cell(l, r, c), get_capacity(l, r, c), Nothing)
           c3 == declared.channel = "MC_2RM" /\ ~ last_row(r)
           e3 == Conducts(Cell(l, r + 1, c), AlongWall(l, r, c))
           c4 == ~ last_layer(l)
           e4 == Conducts(Cell(l + 2, r, c), get_conductance_top(l, r, c))
<1>1. /\ c1 \in BOOLEAN /\ c2 \in BOOLEAN /\ c3 \in BOOLEAN /\ c4 \in BOOLEAN
  BY DEF first_layer, last_layer, first_row, last_row, has_layer_underneath
<1>2. VirtualWallColumn2rm(l, r, c) =
        When(c1, e1) \o When(c2, e2) \o <<own>> \o When(c3, e3) \o When(c4, e4)
  BY DEF VirtualWallColumn2rm
<1> HIDE DEF c1, c2, c3, c4, e1, e2, own, e3, e4
<1>3. Long(When(c1, e1) \o When(c2, e2),
           Bit(c1) + Bit(c2))
  BY <1>1, LongWhen, LongAnd
<1>4. Long(When(c1, e1) \o When(c2, e2) \o <<own>> \o When(c3, e3),
           Bit(c1) + Bit(c2) + 1 + Bit(c3))
  BY <1>1, <1>3, LongAnd, LongOwn
<1>5. Long(VirtualWallColumn2rm(l, r, c),
           Bit(c1) + Bit(c2) + 1 + Bit(c3) + Bit(c4))
  BY <1>1, <1>2, <1>4, LongAnd
<1> QED BY <1>5 DEF c1, c2, c3, c4

LEMMA BottomWallLength ==
  ASSUME NEW l, NEW r, NEW c
  PROVE  Long(BottomWallColumn2rm(l, r, c),
              Bit(~ first_layer(l)) + 1 + Bit(~ last_layer(l)) + Bit(~ last_layer(l)))
<1> DEFINE c1 == ~ first_layer(l)
           e1 == Conducts(Cell(l - 1, r, c), get_conductance_top(l - 1, r, c))
           own == Own(Cell(l, r, c), get_capacity(l, r, c), Nothing)
           c2 == ~ last_layer(l)
           e2 == Conducts(Cell(l + 1, r, c), get_conductance_top(l + 1, r, c))
           c3 == ~ last_layer(l)
           e3 == Conducts(Cell(l + 2, r, c), get_conductance_bottom(l + 2, r, c))
<1>1. /\ c1 \in BOOLEAN /\ c2 \in BOOLEAN /\ c3 \in BOOLEAN
  BY DEF first_layer, last_layer, first_row, last_row, has_layer_underneath
<1>2. BottomWallColumn2rm(l, r, c) =
        When(c1, e1) \o <<own>> \o When(c2, e2) \o When(c3, e3)
  BY DEF BottomWallColumn2rm
<1> HIDE DEF c1, c2, c3, e1, own, e2, e3
<1>3. Long(When(c1, e1) \o <<own>>,
           Bit(c1) + 1)
  BY <1>1, LongWhen, LongOwn
<1>4. Long(BottomWallColumn2rm(l, r, c),
           Bit(c1) + 1 + Bit(c2) + Bit(c3))
  BY <1>1, <1>2, <1>3, LongAnd
<1> QED BY <1>4 DEF c1, c2, c3

LEMMA TopWallLength ==
  ASSUME NEW l, NEW r, NEW c
  PROVE  Long(TopWallColumn2rm(l, r, c),
              Bit(~ first_layer(l)) + Bit(~ first_layer(l)) + 1 + Bit(~ last_layer(l)))
<1> DEFINE c1 == ~ first_layer(l)
           e1 == Conducts(Cell(l - 2, r, c), get_conductance_top(l - 2, r, c))
           c2 == ~ first_layer(l)
           e2 == Conducts(Cell(l - 1, r, c), get_conductance_top(l - 1, r, c))
           own == Own(Cell(l, r, c), get_capacity(l, r, c), Nothing)
           c3 == ~ last_layer(l)
           e3 == Conducts(Cell(l + 1, r, c), get_conductance_bottom(l + 1, r, c))
<1>1. /\ c1 \in BOOLEAN /\ c2 \in BOOLEAN /\ c3 \in BOOLEAN
  BY DEF first_layer, last_layer, first_row, last_row, has_layer_underneath
<1>2. TopWallColumn2rm(l, r, c) =
        When(c1, e1) \o When(c2, e2) \o <<own>> \o When(c3, e3)
  BY DEF TopWallColumn2rm
<1> HIDE DEF c1, c2, c3, e1, e2, own, e3
<1>3. Long(When(c1, e1) \o When(c2, e2),
           Bit(c1) + Bit(c2))
  BY <1>1, LongWhen, LongAnd
<1>4. Long(TopWallColumn2rm(l, r, c),
           Bit(c1) + Bit(c2) + 1 + Bit(c3))
  BY <1>1, <1>2, <1>3, LongAnd, LongOwn
<1> QED BY <1>4 DEF c1, c2, c3

LEMMA SpreaderLength ==
  ASSUME NEW r, NEW c
  PROVE  Long(SpreaderColumn(r, c),
              Bit(has_layer_underneath(r, c)) + Bit(r # 0) + Bit(c # 0) + 1
                + Bit(c # SpreaderColumns - 1) + Bit(r # SpreaderRows - 1))
<1> DEFINE c1 == has_layer_underneath(r, c)
           e1 == Conducts(CellUnder(r, c),
                  PARALLEL(get_spreader_conductance_top_bottom,
                           get_conductance_top(NLayers - 1, r - declared.rowborder,
                                                c - declared.columnborder)))
           c2 == r # 0
           e2 == Conducts(SpreaderCell(r - 1, c), NorthSouthJoint)
           c3 == c # 0
           e3 == Conducts(SpreaderCell(r, c - 1), EastWestJoint)
           own == Own(SpreaderCell(r, c), get_spreader_capacity, Nothing)
           c4 == c # SpreaderColumns - 1
           e4 == Conducts(SpreaderCell(r, c + 1), EastWestJoint)
           c5 == r # SpreaderRows - 1
           e5 == Conducts(SpreaderCell(r + 1, c), NorthSouthJoint)
<1>1. /\ c1 \in BOOLEAN /\ c2 \in BOOLEAN /\ c3 \in BOOLEAN /\ c4 \in BOOLEAN /\ c5 \in BOOLEAN
  BY DEF first_layer, last_layer, first_row, last_row, has_layer_underneath
<1>2. SpreaderColumn(r, c) =
        When(c1, e1) \o When(c2, e2) \o When(c3, e3) \o <<own>>
           \o When(c4, e4) \o When(c5, e5)
  BY DEF SpreaderColumn, NorthSouthJoint, EastWestJoint
<1> HIDE DEF c1, c2, c3, c4, c5, e1, e2, e3, own, e4, e5
<1>3. Long(When(c1, e1) \o When(c2, e2),
           Bit(c1) + Bit(c2))
  BY <1>1, LongWhen, LongAnd
<1>4. Long(When(c1, e1) \o When(c2, e2) \o When(c3, e3) \o <<own>>,
           Bit(c1) + Bit(c2) + Bit(c3) + 1)
  BY <1>1, <1>3, LongAnd, LongOwn
<1>5. Long(SpreaderColumn(r, c),
           Bit(c1) + Bit(c2) + Bit(c3) + 1 + Bit(c4) + Bit(c5))
  BY <1>1, <1>2, <1>4, LongAnd
<1> QED BY <1>5 DEF c1, c2, c3, c4, c5

-----------------------------------------------------------------------------
(* How many coefficients a cell of a layer has for what is above and below *)
(* it and for itself, and whether it has any for its neighbours to the     *)
(* north and south.                                                        *)
UpAndDown(l) ==
  IF Plain(l) THEN 1 + Bit(l # 0) + Bit(l # NLayers - 1) + Bit(ToSpreader(l))
  ELSE IF Type(l).kind \in Walls THEN 4 ELSE 3

Lengthwise(l) ==
  \/ Plain(l) \/ Type(l).kind \in Coolants
  \/ Type(l).kind \in VirtualWalls /\ declared.channel = "MC_2RM"

LEMMA ColumnLength ==
  ASSUME Sized, Typed, NEW l, NEW r, NEW c, InStack(l, r, c)
  PROVE  Len(UniformColumn(l, r, c)) =
           UpAndDown(l) + Bit(Lengthwise(l) /\ r # 0) + Bit(Lengthwise(l) /\ r # declared.nrows - 1)
             + Bit(Plain(l) /\ c # 0) + Bit(Plain(l) /\ c # declared.ncolumns - 1)
<1> DEFINE below == Bit(l # 0)  above == Bit(l # NLayers - 1)  sp == Bit(ToSpreader(l))
           south == Bit(r # 0)  north == Bit(r # declared.nrows - 1)
           west == Bit(c # 0)  east == Bit(c # declared.ncolumns - 1)
           flows == declared.channel = "MC_2RM"
<1>1. /\ ~ first_layer(l) <=> l # 0
      /\ ~ last_layer(l) <=> l # NLayers - 1
      /\ ~ first_row(r) <=> r # 0
      /\ ~ last_row(r) <=> r # declared.nrows - 1
  BY DEF first_layer, last_layer, first_row, last_row
<1>2. /\ Bit(~ first_layer(l)) = below /\ Bit(~ last_layer(l)) = above
      /\ Bit(~ first_row(r)) = south /\ Bit(~ last_row(r)) = north
      /\ Bit(flows /\ ~ first_row(r)) = IF flows THEN south ELSE 0
      /\ Bit(flows /\ ~ last_row(r)) = IF flows THEN north ELSE 0
  BY <1>1 DEF Bit
<1>3. /\ below \in Nat /\ above \in Nat /\ sp \in Nat /\ south \in Nat /\ north \in Nat
      /\ west \in Nat /\ east \in Nat
  BY DEF Bit
<1>4. /\ Bit(Lengthwise(l) /\ r # 0) = (IF Lengthwise(l) THEN south ELSE 0)
      /\ Bit(Lengthwise(l) /\ r # declared.nrows - 1) = (IF Lengthwise(l) THEN north ELSE 0)
      /\ Bit(Plain(l) /\ c # 0) = (IF Plain(l) THEN west ELSE 0)
      /\ Bit(Plain(l) /\ c # declared.ncolumns - 1) = (IF Plain(l) THEN east ELSE 0)
  BY DEF Bit
<1>5. l \in 0 .. NLayers - 1 /\ ToSpreader(l) \in BOOLEAN
  BY DEF InStack, ToSpreader
<1>6. ~ Plain(l) => below = 1 /\ above = 1
  BY <1>5 DEF Typed, Plain, Bit
<1>7. UpAndDown(l) = (IF Plain(l) THEN 1 + below + above + sp
                     ELSE IF Type(l).kind \in Walls THEN 4 ELSE 3)
  BY DEF UpAndDown
<1> HIDE DEF below, above, sp, south, north, west, east
<1> SUFFICES Len(UniformColumn(l, r, c)) =
               UpAndDown(l) + (IF Lengthwise(l) THEN south + north ELSE 0)
                 + (IF Plain(l) THEN west + east ELSE 0)
  <2>1. UpAndDown(l) \in Nat
    BY <1>3, <1>7
  <2>2. ASSUME NEW v \in Nat, NEW x, NEW y, NEW z, NEW u,
               x = (IF Lengthwise(l) THEN south ELSE 0), y = (IF Lengthwise(l) THEN north ELSE 0),
               z = (IF Plain(l) THEN west ELSE 0), u = (IF Plain(l) THEN east ELSE 0)
        PROVE  v + (IF Lengthwise(l) THEN south + north ELSE 0)
                 + (IF Plain(l) THEN west + east ELSE 0) = v + x + y + z + u
    <3> DEFINE p == Plain(l)  q == Lengthwise(l)
    <3> HIDE DEF p, q
    <3>1. v + (IF q THEN south + north ELSE 0) + (IF p THEN west + east ELSE 0)
            = v + (IF q THEN south ELSE 0) + (IF q THEN north ELSE 0) + (IF p THEN west ELSE 0)
                + (IF p THEN east ELSE 0)
      BY <1>3
    <3> QED BY <2>2, <3>1 DEF p, q
  <2> QED BY <1>4, <2>1, <2>2
<1>8. CASE SolidLike(l, c)
  <2>1. Plain(l) /\ Lengthwise(l)
    BY <1>8 DEF Plain, SolidLike, Lengthwise
  <2>2. Len(SolidColumn(l, r, c)) = below + south + west + 1 + east + north + above + sp
    BY <1>2, <1>5, SolidLength DEF Long, west, east, sp
  <2> QED BY <1>3, <1>5, <1>7, <1>8, <2>1, <2>2, ColumnByKind
<1>9. CASE Liquid4rm(l, c)
  <2>1. Plain(l) /\ Lengthwise(l) /\ Type(l).kind \notin Solids
    BY <1>9 DEF Plain, Liquid4rm, Lengthwise, Solids
  <2>2. Len(LiquidColumn4rm(l, r, c)) = below + south + west + 1 + east + north + above
    BY <1>2, Liquid4rmLength DEF Long, west, east
  <2>3. sp = 0
    BY <1>5, <2>1 DEF Typed, Bit, sp
  <2> QED BY <1>3, <1>5, <1>7, <1>9, <2>1, <2>2, <2>3, ColumnByKind
<1>10. CASE Type(l).kind \in Coolants
  <2>1. ~ Plain(l) /\ Lengthwise(l) /\ Type(l).kind \notin Walls
    BY <1>10 DEF Plain, Lengthwise, Solids, Coolants, Pins, Walls
  <2>2. Len(LiquidColumn2rm(l, r, c)) = below + south + 1 + north + above
    BY <1>2, Liquid2rmLength DEF Long
  <2> QED BY <1>3, <1>5, <1>6, <1>7, <1>10, <2>1, <2>2, ColumnByKind
<1>11. CASE Type(l).kind \in VirtualWalls
  <2>1. ~ Plain(l) /\ (Lengthwise(l) <=> flows) /\ Type(l).kind \notin Walls
    BY <1>11 DEF Plain, Lengthwise, Solids, Coolants, Pins, Walls, VirtualWalls
  <2>2. Len(VirtualWallColumn2rm(l, r, c)) =
          below + (IF flows THEN south ELSE 0) + 1 + (IF flows THEN north ELSE 0) + above
    BY <1>2, VirtualWallLength DEF Long
  <2> HIDE DEF flows
  <2> QED BY <1>3, <1>5, <1>6, <1>7, <1>11, <2>1, <2>2, ColumnByKind
<1>12. CASE Type(l).kind = "TOP_WALL"
  <2>1. ~ Plain(l) /\ ~ Lengthwise(l) /\ Type(l).kind \in Walls
    BY <1>12 DEF Plain, Lengthwise, Solids, Coolants, Pins, Walls, VirtualWalls
  <2>2. Len(TopWallColumn2rm(l, r, c)) = below + below + 1 + above
    BY <1>2, TopWallLength DEF Long
  <2> QED BY <1>3, <1>5, <1>6, <1>7, <1>12, <2>1, <2>2, ColumnByKind
<1>13. CASE Type(l).kind = "BOTTOM_WALL"
  <2>1. ~ Plain(l) /\ ~ Lengthwise(l) /\ Type(l).kind \in Walls
    BY <1>13 DEF Plain, Lengthwise, Solids, Coolants, Pins, Walls, VirtualWalls
  <2>2. Len(BottomWallColumn2rm(l, r, c)) = below + 1 + above + above
    BY <1>2, BottomWallLength DEF Long
  <2> QED BY <1>3, <1>5, <1>6, <1>7, <1>13, <2>1, <2>2, ColumnByKind
<1> QED BY <1>5, <1>8, <1>9, <1>10, <1>11, <1>12, <1>13, AllKinds

-----------------------------------------------------------------------------
(* What fill_system_matrix writes, layer after layer.                      *)

LEMMA HoldsColumn ==
  ASSUME MatrixKept, phase = "filled", NEW p, Position(p)
  PROVE  /\ ColumnPointers[CellOf(p) + 1] \in Nat
         /\ ColumnPointers[CellOf(p) + 2] =
              ColumnPointers[CellOf(p) + 1] + Len(UniformColumn(p.l, p.r, p.c))
<1>1. Sized /\ Arrays /\ ColumnsKept /\ Columns = NCells
  BY DEF MatrixKept, ParserKept
<1>2. CellOf(p) \in 0 .. NCells - 1
  BY <1>1, CellBounds
<1>3. PICK q : Position(q) /\ CellOf(q) = CellOf(p) /\ ColumnHolds(CellOf(p), q)
  BY <1>1, <1>2 DEF ColumnsKept
<1>4. q = p
  BY <1>1, <1>3, CellInjective
<1>5. CellOf(p) + 1 \in 1 .. Len(ColumnPointers) /\ ColumnPointers \in Seq(Nat)
  BY <1>1, <1>2 DEF Columns, Arrays
<1>6. ColumnPointers[CellOf(p) + 1] \in Nat
  BY <1>5
<1> QED BY <1>3, <1>4, <1>6 DEF ColumnHolds

(* The number of coefficients before those of layer l.                     *)
Before(l) == ColumnPointers[l * LayerArea + 1]

LEMMA LayerTotal ==
  ASSUME MatrixKept, phase = "filled", NEW l \in 0 .. NLayers - 1
  PROVE  /\ Before(l) \in Int
         /\ Before(l + 1) =
              Before(l) + UpAndDown(l) * LayerArea
                + (IF Lengthwise(l) THEN 2 * NorthSouth(declared.nrows, declared.ncolumns) ELSE 0)
                + (IF Plain(l) THEN 2 * EastWest(declared.nrows, declared.ncolumns) ELSE 0)
<1> DEFINE H == declared.nrows  W == declared.ncolumns  b == l * LayerArea + 1
           K == UpAndDown(l)  ns == Lengthwise(l)  ew == Plain(l)
<1>1. Sized /\ Typed
  BY DEF MatrixKept, ParserKept
<1>2. H \in Nat \ {0} /\ W \in Nat \ {0} /\ LayerArea \in Nat \ {0} /\ NLayers \in Nat
  BY <1>1, Sizes DEF Sized
<1>3. b \in Int /\ K \in Int /\ ns \in BOOLEAN /\ ew \in BOOLEAN
  <2>1. l * LayerArea \in Int
    BY <1>2
  <2> QED BY <2>1 DEF UpAndDown, Bit, Lengthwise, Plain
<1>4. ASSUME NEW r \in 0 .. H - 1, NEW c \in 0 .. W - 1
      PROVE  /\ ColumnPointers[b + (r * W + c)] \in Int
             /\ ColumnPointers[(b + (r * W + c)) + 1] =
                  ColumnPointers[b + (r * W + c)] + K + Bit(ns /\ r # 0) + Bit(ns /\ r # H - 1)
                    + Bit(ew /\ c # 0) + Bit(ew /\ c # W - 1)
                    + Bit(r \in 0 .. 0 + 0 - 1 /\ c \in 0 .. 0 + 0 - 1)
  <2>1. InStack(l, r, c)
    BY DEF InStack
  <2> DEFINE p == AtCell(l, r, c)
  <2>2. Position(p) /\ CellOf(p) = Cell(l, r, c) /\ p.l = l /\ p.r = r /\ p.c = c
    BY <1>1, <2>1, StackCell DEF AtCell
  <2> HIDE DEF p
  <2>3. /\ ColumnPointers[Cell(l, r, c) + 1] \in Nat
        /\ ColumnPointers[Cell(l, r, c) + 2] =
             ColumnPointers[Cell(l, r, c) + 1] + Len(UniformColumn(l, r, c))
    BY <2>2, HoldsColumn
  <2>4. Cell(l, r, c) + 1 = b + (r * W + c) /\ Cell(l, r, c) + 2 = (b + (r * W + c)) + 1
    <3>1. l * LayerArea \in Int /\ r * W \in Int
      BY <1>2
    <3> QED BY <3>1 DEF Cell
  <2>5. Len(UniformColumn(l, r, c)) =
          K + Bit(ns /\ r # 0) + Bit(ns /\ r # H - 1) + Bit(ew /\ c # 0) + Bit(ew /\ c # W - 1)
    BY <1>1, <2>1, ColumnLength
  <2>6. Bit(r \in 0 .. 0 + 0 - 1 /\ c \in 0 .. 0 + 0 - 1) = 0
    BY DEF Bit
  <2> DEFINE x == Bit(ns /\ r # 0)  y == Bit(ns /\ r # H - 1)
             z == Bit(ew /\ c # 0)  u == Bit(ew /\ c # W - 1)
             s == ColumnPointers[b + (r * W + c)]  t == ColumnPointers[(b + (r * W + c)) + 1]
             v == Bit(r \in 0 .. 0 + 0 - 1 /\ c \in 0 .. 0 + 0 - 1)
             n == Len(UniformColumn(l, r, c))
  <2>7. x \in Nat /\ y \in Nat /\ z \in Nat /\ u \in Nat
    BY DEF Bit
  <2>8. s \in Nat /\ t = s + n
    BY <2>3, <2>4
  <2> HIDE DEF x, y, z, u, s, t, v, n, K
  <2>9. t = s + K + x + y + z + u + v
    <3>1. n = K + x + y + z + u /\ v = 0 /\ K \in Int
      BY <1>3, <2>5, <2>6 DEF n, x, y, z, u, v
    <3> QED BY <2>7, <2>8, <3>1
  <2> QED BY <2>8, <2>9 DEF x, y, z, u, s, t, v
<1> HIDE DEF H, W, b, K, ns, ew
<1>5. GridSteps(ColumnPointers, b, H, W, K, ns, ew, 0, 0, 0, 0)
  BY <1>4 DEF GridSteps
<1>6. ColumnPointers[b] \in Int
  <2>1. 0 \in 0 .. H - 1 /\ 0 \in 0 .. W - 1 /\ b + (0 * W + 0) = b
    BY <1>2, <1>3
  <2> QED BY <1>4, <2>1
<1>7. ColumnPointers[b + H * W] =
        ColumnPointers[b] + K * (H * W) + (IF ns THEN 2 * ((H - 1) * W) ELSE 0)
          + (IF ew THEN 2 * (H * (W - 1)) ELSE 0) + 0 * 0
  <2>1. 0 + 0 <= H /\ 0 + 0 <= W /\ 0 \in Nat
    BY <1>2
  <2> QED BY <1>2, <1>3, <1>5, <1>6, <2>1, GridTotal
<1>8. b + H * W = (l + 1) * LayerArea + 1 /\ H * W = LayerArea
  <2>1. H * W = LayerArea
    BY DEF H, W, LayerArea
  <2>2. (l + 1) * LayerArea = l * LayerArea + LayerArea /\ l * LayerArea \in Int
    BY <1>2, ProductStep
  <2> QED BY <1>2, <2>1, <2>2 DEF b
<1> DEFINE s == ColumnPointers[b]  t == ColumnPointers[b + H * W]  kn == K * (H * W)
           x == (H - 1) * W  y == H * (W - 1)
<1>9. s \in Int /\ kn \in Int /\ x \in Int /\ y \in Int
      /\ t = s + kn + (IF ns THEN 2 * x ELSE 0) + (IF ew THEN 2 * y ELSE 0) + 0 * 0
  BY <1>2, <1>3, <1>6, <1>7
<1> HIDE DEF s, t, kn, x, y
<1>10. t = s + kn + (IF ns THEN 2 * x ELSE 0) + (IF ew THEN 2 * y ELSE 0)
  BY <1>3, <1>9
<1> QED BY <1>6, <1>8, <1>10 DEF s, t, kn, x, y, ns, ew, b, H, W, K, Before, NorthSouth, EastWest

(* The spreader's coefficients, with those to and from the layer under it. *)
LEMMA SpreaderTotal ==
  ASSUME MatrixKept, phase = "filled", Pluggable
  PROVE  /\ Before(NLayers) \in Int
         /\ ColumnPointers[NCells + 1] = Before(NLayers) + SpreaderConnections - LayerArea
<1> DEFINE H == SpreaderRows  W == SpreaderColumns  b == NLayers * LayerArea + 1
           r0 == declared.rowborder  h == declared.nrows
           c0 == declared.columnborder  w == declared.ncolumns  joined == TRUE
<1>1. Sized /\ Typed
  BY DEF MatrixKept, ParserKept
<1>2. /\ H \in Nat \ {0} /\ W \in Nat \ {0} /\ LayerArea \in Nat \ {0} /\ NLayers \in Nat
      /\ r0 \in Nat /\ c0 \in Nat /\ h \in Nat /\ w \in Nat
      /\ r0 + h <= H /\ c0 + w <= W
  BY <1>1, Sizes DEF Sized, SpreaderRows, SpreaderColumns
<1>3. b \in Int
  BY <1>2
<1>4. ASSUME NEW r \in 0 .. H - 1, NEW c \in 0 .. W - 1
      PROVE  /\ ColumnPointers[b + (r * W + c)] \in Int
             /\ ColumnPointers[(b + (r * W + c)) + 1] =
                  ColumnPointers[b + (r * W + c)] + 1 + Bit(joined /\ r # 0)
                     + Bit(joined /\ r # H - 1)
                    + Bit(joined /\ c # 0) + Bit(joined /\ c # W - 1)
                    + Bit(r \in r0 .. r0 + h - 1 /\ c \in c0 .. c0 + w - 1)
  <2> DEFINE p == AtCell(NLayers, r, c)
  <2>1. Position(p) /\ CellOf(p) = SpreaderCell(r, c) /\ p.l = NLayers /\ p.r = r /\ p.c = c
    BY <1>2 DEF Position, CellOf, AtCell, RowsAt, ColumnsAt
  <2> HIDE DEF p
  <2>2. /\ ColumnPointers[SpreaderCell(r, c) + 1] \in Nat
        /\ ColumnPointers[SpreaderCell(r, c) + 2] =
             ColumnPointers[SpreaderCell(r, c) + 1] + Len(UniformColumn(NLayers, r, c))
    BY <2>1, HoldsColumn
  <2>3. /\ SpreaderCell(r, c) + 1 = b + (r * W + c)
        /\ SpreaderCell(r, c) + 2 = (b + (r * W + c)) + 1
    <3>1. NLayers * LayerArea \in Int /\ r * W \in Int
      BY <1>2
    <3> QED BY <3>1 DEF SpreaderCell
  <2> DEFINE x == Bit(joined /\ r # 0)  y == Bit(joined /\ r # H - 1)
             z == Bit(joined /\ c # 0)  u == Bit(joined /\ c # W - 1)
             s == ColumnPointers[b + (r * W + c)]  t == ColumnPointers[(b + (r * W + c)) + 1]
             v == Bit(r \in r0 .. r0 + h - 1 /\ c \in c0 .. c0 + w - 1)
             n == Len(UniformColumn(NLayers, r, c))
  <2>4. n = v + x + z + 1 + u + y
    <3>1. UniformColumn(NLayers, r, c) = SpreaderColumn(r, c)
      BY DEF UniformColumn
    <3>2. /\ Bit(has_layer_underneath(r, c)) = v /\ Bit(r # 0) = x /\ Bit(c # 0) = z
          /\ Bit(c # SpreaderColumns - 1) = u /\ Bit(r # SpreaderRows - 1) = y
      BY DEF has_layer_underneath, Bit
    <3> HIDE DEF x, y, z, u, v
    <3> QED BY <3>1, <3>2, SpreaderLength DEF Long
  <2>5. x \in Nat /\ y \in Nat /\ z \in Nat /\ u \in Nat /\ v \in Nat
    BY DEF Bit
  <2>6. s \in Nat /\ t = s + n
    BY <2>2, <2>3
  <2> HIDE DEF x, y, z, u, s, t, v, n
  <2>7. t = s + 1 + x + y + z + u + v
    BY <2>4, <2>5, <2>6
  <2> QED BY <2>6, <2>7 DEF x, y, z, u, s, t, v
<1> HIDE DEF H, W, b, r0, h, c0, w, joined
<1>5. GridSteps(ColumnPointers, b, H, W, 1, joined, joined, r0, h, c0, w)
  BY <1>4 DEF GridSteps
<1>6. ColumnPointers[b] \in Int
  <2>1. 0 \in 0 .. H - 1 /\ 0 \in 0 .. W - 1 /\ b + (0 * W + 0) = b
    BY <1>2, <1>3
  <2> QED BY <1>4, <2>1
<1>7. ColumnPointers[b + H * W] =
        ColumnPointers[b] + 1 * (H * W) + (IF joined THEN 2 * ((H - 1) * W) ELSE 0)
          + (IF joined THEN 2 * (H * (W - 1)) ELSE 0) + h * w
  <2>1. joined \in BOOLEAN /\ 1 \in Int
    BY DEF joined
  <2>2. H \in Nat \ {0} /\ W \in Nat \ {0} /\ r0 \in Nat /\ h \in Nat /\ r0 + h <= H
    BY <1>2
  <2>3. c0 \in Nat /\ w \in Nat /\ c0 + w <= W
    BY <1>2
  <2> DEFINE K == 1
  <2>4. K \in Int /\ GridSteps(ColumnPointers, b, H, W, K, joined, joined, r0, h, c0, w)
    BY <1>5
  <2> HIDE DEF K
  <2>5. ColumnPointers[b + H * W] =
          ColumnPointers[b] + K * (H * W) + (IF joined THEN 2 * ((H - 1) * W) ELSE 0)
            + (IF joined THEN 2 * (H * (W - 1)) ELSE 0) + h * w
    BY <1>3, <1>6, <2>1, <2>2, <2>3, <2>4, GridTotal
  <2> QED BY <2>5 DEF K
<1>8. b + H * W = NCells + 1 /\ h * w = LayerArea
  <2>1. h * w = LayerArea /\ SpreaderCells = H * W
    BY DEF h, w, H, W, LayerArea, SpreaderCells
  <2>2. NLayers * LayerArea \in Int /\ H * W \in Int
    BY <1>2
  <2> QED BY <1>1, <2>1, <2>2 DEF b, Sized
<1>9. /\ SpreaderConnections = H * W + 2 * ((H - 1) * W) + 2 * (H * (W - 1)) + 2 * LayerArea
      /\ Before(NLayers) = ColumnPointers[b]
  BY DEF SpreaderConnections, Plane, NorthSouth, EastWest, H, W, Before, b
<1> DEFINE s == ColumnPointers[b]  t == ColumnPointers[b + H * W]  n == H * W
           x == (H - 1) * W  y == H * (W - 1)
<1>10. /\ s \in Int /\ n \in Int /\ x \in Int /\ y \in Int
       /\ t = s + 1 * n + 2 * x + 2 * y + LayerArea
  BY <1>2, <1>3, <1>6, <1>7, <1>8 DEF joined
<1>11. SpreaderConnections = n + 2 * x + 2 * y + 2 * LayerArea /\ Before(NLayers) = s
       /\ t = ColumnPointers[NCells + 1]
  BY <1>8, <1>9
<1> HIDE DEF s, t, n, x, y
<1> QED BY <1>2, <1>10, <1>11

(* Before(l) with what the lowest and the top-most layer of the stack lack *)
(* and have for the spreader: then every layer of solids adds the same.    *)
Level(l) ==
  Before(l) + (IF l = 0 THEN 0 ELSE LayerArea)
    + (IF l = NLayers THEN LayerArea - (IF Pluggable THEN LayerArea ELSE 0) ELSE 0)

PerLayer == Plane(declared.nrows, declared.ncolumns) + 2 * LayerArea

PerChannel ==
  14 * LayerArea + AlongChannel * NorthSouth(declared.nrows, declared.ncolumns)

LEMMA GridSizes ==
  ASSUME Sized
  PROVE  /\ LayerArea \in Int
         /\ NorthSouth(declared.nrows, declared.ncolumns) \in Int
         /\ EastWest(declared.nrows, declared.ncolumns) \in Int
         /\ Plane(declared.nrows, declared.ncolumns) =
              LayerArea + 2 * NorthSouth(declared.nrows, declared.ncolumns)
                + 2 * EastWest(declared.nrows, declared.ncolumns)
         /\ PerLayer \in Int /\ PerChannel \in Int
<1> DEFINE H == declared.nrows  W == declared.ncolumns
<1>1. H \in Int /\ W \in Int /\ LayerArea \in Int
  BY Sizes DEF Sized
<1>2. NorthSouth(H, W) \in Int /\ EastWest(H, W) \in Int
  BY <1>1 DEF NorthSouth, EastWest
<1>3. Plane(H, W) = LayerArea + 2 * NorthSouth(H, W) + 2 * EastWest(H, W)
  BY DEF Plane, LayerArea
<1>4. AlongChannel \in Int
  BY DEF AlongChannel
<1> QED BY <1>1, <1>2, <1>3, <1>4 DEF PerLayer, PerChannel

LEMMA PlainStep ==
  ASSUME MatrixKept, phase = "filled", NEW l \in 0 .. NLayers - 1, Plain(l)
  PROVE  Level(l) \in Int /\ Level(l + 1) = Level(l) + PerLayer
<1> DEFINE A == LayerArea  v == UpAndDown(l)
           ns == NorthSouth(declared.nrows, declared.ncolumns)
           ew == EastWest(declared.nrows, declared.ncolumns)
           below == Bit(l # 0)  above == Bit(l # NLayers - 1)  sp == Bit(ToSpreader(l))
           s == Before(l)  t == Before(l + 1)
<1>1. Sized /\ Typed /\ NLayers \in Nat
  BY DEF MatrixKept, ParserKept, Sized
<1>2. Lengthwise(l)
  BY DEF Lengthwise
<1>3. s \in Int /\ t = s + v * A + 2 * ns + 2 * ew
  BY <1>2, LayerTotal
<1>4. /\ A \in Int /\ ns \in Int /\ ew \in Int /\ PerLayer = (A + 2 * ns + 2 * ew) + 2 * A
      /\ PerLayer \in Int
  BY <1>1, GridSizes DEF PerLayer
<1>5. v = 1 + below + above + sp
  BY DEF UpAndDown
<1>6. /\ below = (IF l = 0 THEN 0 ELSE 1) /\ above = (IF l = NLayers - 1 THEN 0 ELSE 1)
      /\ sp = (IF l = NLayers - 1 THEN IF Pluggable THEN 1 ELSE 0 ELSE 0)
  BY <1>1 DEF Typed, Bit
<1>7. v * A = A + below * A + above * A + sp * A
  <2>1. below \in Int /\ above \in Int /\ sp \in Int
    BY <1>6
  <2> HIDE DEF below, above, sp, v, A
  <2> QED BY <1>4, <1>5, <2>1, Z3
<1>8. /\ below * A = (IF l = 0 THEN 0 ELSE A)
      /\ above * A = (IF l = NLayers - 1 THEN 0 ELSE A)
      /\ sp * A = (IF l = NLayers - 1 THEN IF Pluggable THEN A ELSE 0 ELSE 0)
  BY <1>4, <1>6
<1>9. /\ Level(l) = s + (IF l = 0 THEN 0 ELSE A)
      /\ Level(l + 1) = t + A + (IF l = NLayers - 1 THEN A - (IF Pluggable THEN A ELSE 0) ELSE 0)
  <2>1. l # NLayers /\ l + 1 # 0 /\ (l + 1 = NLayers <=> l = NLayers - 1)
    BY <1>1
  <2>2. s + (IF l = 0 THEN 0 ELSE A) \in Int
    BY <1>3, <1>4
  <2> HIDE DEF s, t, A
  <2> QED BY <2>1, <2>2 DEF Level, s, t, A
<1> DEFINE va == v * A  ba == below * A  aa == above * A  sa == sp * A
<1>10. t = s + va + 2 * ns + 2 * ew /\ va = A + ba + aa + sa
  BY <1>3, <1>7
<1>11. /\ ba = (IF l = 0 THEN 0 ELSE A) /\ aa = (IF l = NLayers - 1 THEN 0 ELSE A)
       /\ sa = (IF l = NLayers - 1 THEN IF Pluggable THEN A ELSE 0 ELSE 0)
  BY <1>8
<1> HIDE DEF A, v, ns, ew, below, above, sp, s, t, va, ba, aa, sa
<1> QED BY <1>3, <1>4, <1>9, <1>10, <1>11

LEMMA ChannelStep ==
  ASSUME MatrixKept, phase = "filled", NEW b, ChannelAt(b)
  PROVE  Level(b + 4) = Level(b) + PerChannel
<1> DEFINE A == LayerArea
           ns == NorthSouth(declared.nrows, declared.ncolumns)
           flows == declared.channel = "MC_2RM"
           f == IF flows THEN 2 * ns ELSE 0
<1>1. Sized /\ Typed /\ NLayers \in Nat /\ b \in Nat /\ b + 3 <= NLayers - 1
  BY DEF MatrixKept, ParserKept, Sized, ChannelAt
<1>2. /\ Type(b).kind = "BOTTOM_WALL" /\ Type(b + 1).kind \in VirtualWalls
      /\ Type(b + 2).kind \in Coolants /\ Type(b + 3).kind = "TOP_WALL"
  BY DEF ChannelAt
<1>3. b # 0 /\ b + 3 # NLayers - 1
  <2>1. Type(0).kind \in Solids /\ Type(NLayers - 1).kind \in Solids
    BY <1>1 DEF Typed
  <2>2. "BOTTOM_WALL" \notin Solids /\ "TOP_WALL" \notin Solids
    BY DEF Solids
  <2> QED BY <1>2, <2>1, <2>2
<1>4. /\ ~ Plain(b) /\ ~ Plain(b + 1) /\ ~ Plain(b + 2) /\ ~ Plain(b + 3)
      /\ ~ Lengthwise(b) /\ (Lengthwise(b + 1) <=> flows) /\ Lengthwise(b + 2)
      /\ ~ Lengthwise(b + 3)
      /\ UpAndDown(b) = 4 /\ UpAndDown(b + 1) = 3 /\ UpAndDown(b + 2) = 3 /\ UpAndDown(b + 3) = 4
  BY <1>2 DEF Plain, Lengthwise, UpAndDown, Solids, Coolants, Pins, Walls, VirtualWalls
<1>5. /\ A \in Int /\ ns \in Int /\ f \in Int
  BY <1>1, GridSizes
<1>6. PerChannel = 14 * A + 2 * ns + f
  BY <1>5 DEF PerChannel, AlongChannel
<1>7. /\ b \in 0 .. NLayers - 1 /\ b + 1 \in 0 .. NLayers - 1 /\ b + 2 \in 0 .. NLayers - 1
      /\ b + 3 \in 0 .. NLayers - 1 /\ (b + 1) + 1 = b + 2 /\ (b + 2) + 1 = b + 3
      /\ (b + 3) + 1 = b + 4
  BY <1>1
<1> DEFINE s0 == Before(b)  s1 == Before(b + 1)  s2 == Before(b + 2)  s3 == Before(b + 3)
           s4 == Before(b + 4)
<1>8. s0 \in Int /\ s1 = s0 + 4 * A
  <2>1. s0 \in Int /\ s1 = s0 + 4 * A + 0 + 0
    BY <1>4, <1>7, LayerTotal
  <2> QED BY <1>5, <2>1
<1>9. s2 = s1 + 3 * A + f
  <2>1. s1 \in Int /\ s2 = s1 + 3 * A + f + 0
    BY <1>4, <1>7, LayerTotal
  <2> QED BY <1>5, <2>1
<1>10. s3 = s2 + 3 * A + 2 * ns
  <2>1. s2 \in Int /\ s3 = s2 + 3 * A + 2 * ns + 0
    BY <1>4, <1>7, LayerTotal
  <2> QED BY <1>5, <2>1
<1>11. s4 = s3 + 4 * A
  <2>1. s3 \in Int /\ s4 = s3 + 4 * A + 0 + 0
    BY <1>4, <1>7, LayerTotal
  <2> QED BY <1>5, <2>1
<1>12. Level(b) = s0 + A + 0 /\ Level(b + 4) = s4 + A + 0
  <2>1. b # NLayers /\ b + 4 # 0 /\ b + 4 # NLayers
    BY <1>1, <1>3
  <2> QED BY <1>3, <2>1 DEF Level
<1> HIDE DEF A, ns, f, s0, s1, s2, s3, s4
<1> QED BY <1>5, <1>6, <1>8, <1>9, <1>10, <1>11, <1>12

-----------------------------------------------------------------------------
(* The layers of the elements, from the bottom-most: those of the k-th are *)
(* numbered from h[k - 1] on.                                              *)

Lowest(k) == stack[(Len(stack) - k) + 1]

Placed(h) ==
  /\ h[0] = 0 /\ h[Len(stack)] = LayersOf(stack)
  /\ \A k \in 1 .. Len(stack) :
       /\ h[k - 1] \in Nat /\ h[k] = h[k - 1] + Len(Kinds(Lowest(k))) /\ h[k] <= LayersOf(stack)
       /\ \A i \in 1 .. Len(Kinds(Lowest(k))) : StackKinds[h[k - 1] + i] = Kinds(Lowest(k))[i]

LEMMA ElementsPlaced ==
  ASSUME StackKept, stack # <<>>
  PROVE  \E h : Placed(h)
<1> DEFINE n == Len(stack)
<1>1. n \in Nat \ {0} /\ DOMAIN stack = 1 .. n
  BY DEF StackKept
<1>2. DOMAIN BottomUp = 1 .. n /\ BottomUp \in [1 .. n -> Seq(LayerKinds)]
  <2>1. \A i \in 1 .. n : Reverse(stack)[i] = stack[(n - i) + 1] /\ (n - i) + 1 \in 1 .. n
    BY <1>1 DEF Reverse
  <2>2. \A i \in 1 .. n : Kinds(Reverse(stack)[i]) \in Seq(LayerKinds)
    BY <2>1, KindsOfElement DEF StackKept
  <2> QED BY <1>1, <2>2 DEF BottomUp
<1>3. \A k \in 1 .. n : BottomUp[k] = Kinds(Lowest(k))
  BY <1>1 DEF BottomUp, Reverse, Lowest
<1>4. Len(BottomUp) = n
  BY <1>1, <1>2, FunctionIsSeq
<1>5. PICK f : Flat(f, BottomUp, n) /\ StackKinds = f[n]
  BY <1>1, <1>4, FlattenUnfold DEF StackKinds
<1>6. /\ f[1] = BottomUp[1]
      /\ \A k \in 1 .. n : k + 1 \in 1 .. n => f[k + 1] = f[k] \o BottomUp[k + 1]
  <2>1. \A i \in 1 .. n : f[i] = IF i = 1 THEN BottomUp[i] ELSE f[i - 1] \o BottomUp[i]
    BY <1>5 DEF Flat
  <2>2. ASSUME NEW k \in 1 .. n, k + 1 \in 1 .. n PROVE f[k + 1] = f[k] \o BottomUp[k + 1]
    <3>1. k + 1 # 1 /\ (k + 1) - 1 = k
      OBVIOUS
    <3> QED BY <2>1, <2>2, <3>1
  <2>3. 1 \in 1 .. n
    BY <1>1
  <2>4. f[1] = BottomUp[1]
    BY <2>1, <2>3
  <2> QED BY <2>2, <2>4
<1> HIDE DEF n
<1> DEFINE L(k) == Len(f[k])
           S == {k \in Nat : k \in 1 .. n => f[k] \in Seq(LayerKinds) /\ L(k) \in Nat}
<1>7. \A k \in Nat : k \in S
  <2>1. 0 \in S
    OBVIOUS
  <2>2. ASSUME NEW k \in Nat, k \in S PROVE k + 1 \in S
    <3> SUFFICES ASSUME k + 1 \in 1 .. n PROVE f[k + 1] \in Seq(LayerKinds)
      OBVIOUS
    <3>1. CASE k = 0
      BY <1>2, <1>6, <3>1
    <3>2. CASE k # 0
      <4>1. k \in 1 .. n /\ f[k] \in Seq(LayerKinds) /\ BottomUp[k + 1] \in Seq(LayerKinds)
        BY <1>1, <1>2, <2>2, <3>2
      <4>2. f[k + 1] = f[k] \o BottomUp[k + 1]
        BY <1>6, <4>1
      <4> QED BY <4>1, <4>2
    <3> QED BY <3>1, <3>2
  <2> HIDE DEF S
  <2> QED BY <2>1, <2>2, Induction
<1>8. ASSUME NEW k \in 1 .. n, k + 1 \in 1 .. n
      PROVE  /\ L(k) \in Nat /\ Len(BottomUp[k + 1]) \in Nat
             /\ L(k + 1) = L(k) + Len(BottomUp[k + 1])
             /\ \A i \in 1 .. L(k) : f[k + 1][i] = f[k][i]
             /\ \A i \in 1 .. Len(BottomUp[k + 1]) : f[k + 1][L(k) + i] = BottomUp[k + 1][i]
  <2>1. /\ f[k] \in Seq(LayerKinds) /\ BottomUp[k + 1] \in Seq(LayerKinds)
        /\ f[k + 1] = f[k] \o BottomUp[k + 1]
    <3>1. k \in Nat
      OBVIOUS
    <3> QED BY <1>2, <1>6, <1>7, <1>8, <3>1
  <2>2. PICK s \in Seq(LayerKinds), t \in Seq(LayerKinds) : s = f[k] /\ t = BottomUp[k + 1]
    BY <2>1
  <2>3. /\ Len(s) \in Nat /\ Len(t) \in Nat /\ Len(s \o t) = Len(s) + Len(t)
        /\ \A i \in 1 .. Len(s) + Len(t) : (s \o t)[i] = IF i <= Len(s) THEN s[i] ELSE t[i - Len(s)]
    BY ConcatProperties
  <2> DEFINE st == s \o t
  <2>4. /\ \A i \in 1 .. Len(s) : st[i] = s[i]
        /\ \A i \in 1 .. Len(t) : st[Len(s) + i] = t[i]
    <3> HIDE DEF st
    <3>1. /\ Len(s) \in Nat /\ Len(t) \in Nat
          /\ \A i \in 1 .. Len(s) + Len(t) : st[i] = IF i <= Len(s) THEN s[i] ELSE t[i - Len(s)]
      BY <2>3 DEF st
    <3>2. ASSUME NEW i \in 1 .. Len(t) PROVE st[Len(s) + i] = t[i]
      <4>1. /\ Len(s) + i \in 1 .. Len(s) + Len(t) /\ ~ (Len(s) + i <= Len(s))
            /\ (Len(s) + i) - Len(s) = i
        BY <3>1
      <4> QED BY <3>1, <4>1
    <3> QED BY <3>1, <3>2
  <2> QED BY <2>1, <2>2, <2>3, <2>4
<1> HIDE DEF S
<1> DEFINE T == {m \in Nat : m \in 1 .. n =>
                   \A k \in 1 .. m : L(k) <= L(m) /\ \A i \in 1 .. L(k) : f[m][i] = f[k][i]}
<1>9. \A m \in Nat : m \in T
  <2>1. 0 \in T
    OBVIOUS
  <2>2. ASSUME NEW m \in Nat, m \in T PROVE m + 1 \in T
    <3> SUFFICES ASSUME m + 1 \in 1 .. n, NEW k \in 1 .. m + 1
                 PROVE  L(k) <= L(m + 1) /\ \A i \in 1 .. L(k) : f[m + 1][i] = f[k][i]
      OBVIOUS
    <3>1. CASE k = m + 1
      <4>1. L(m + 1) \in Nat
        BY <1>7 DEF S
      <4> QED BY <3>1, <4>1
    <3>2. CASE k # m + 1
      <4>1. m \in 1 .. n /\ k \in 1 .. m /\ k \in 1 .. n
        BY <1>1, <3>2
      <4>2. L(k) <= L(m) /\ \A i \in 1 .. L(k) : f[m][i] = f[k][i]
        BY <2>2, <4>1
      <4>3. /\ L(m) \in Nat /\ L(m + 1) = L(m) + Len(BottomUp[m + 1])
            /\ Len(BottomUp[m + 1]) \in Nat
            /\ \A i \in 1 .. L(m) : f[m + 1][i] = f[m][i]
        BY <1>8, <4>1
      <4>4. L(k) \in Nat
        <5>1. k \in Nat /\ k \in S
          BY <1>7, <4>1
        <5> QED BY <4>1, <5>1 DEF S
      <4> HIDE DEF L
      <4> QED BY <4>2, <4>3, <4>4
    <3> QED BY <3>1, <3>2
  <2> HIDE DEF T
  <2> QED BY <2>1, <2>2, Induction
<1> DEFINE h == [k \in 0 .. n |-> IF k = 0 THEN 0 ELSE L(k)]
<1>10. ASSUME NEW k \in 1 .. n
       PROVE  /\ h[k - 1] \in Nat /\ h[k] = h[k - 1] + Len(BottomUp[k]) /\ h[k] <= L(n)
              /\ \A i \in 1 .. Len(BottomUp[k]) : StackKinds[h[k - 1] + i] = BottomUp[k][i]
  <2>0. /\ k \in Nat /\ h[k] = L(k) /\ L(k) \in Nat /\ n \in Nat /\ n \in 1 .. n
    BY <1>1, <1>7 DEF S
  <2>1. h[k] <= L(n) /\ \A i \in 1 .. L(k) : StackKinds[i] = f[k][i]
    BY <1>5, <1>9, <2>0 DEF T
  <2>2. CASE k = 1
    <3>1. h[k - 1] = 0 /\ f[k] = BottomUp[k]
      BY <1>1, <1>6, <2>2
    <3> HIDE DEF h
    <3> QED BY <2>0, <2>1, <3>1
  <2>3. CASE k # 1
    <3>1. k - 1 \in 1 .. n /\ (k - 1) + 1 = k /\ h[k - 1] = L(k - 1)
      BY <1>1, <2>3
    <3>2. /\ L(k - 1) \in Nat /\ Len(BottomUp[k]) \in Nat /\ L(k) = L(k - 1) + Len(BottomUp[k])
          /\ \A i \in 1 .. Len(BottomUp[k]) : f[k][L(k - 1) + i] = BottomUp[k][i]
      <4>1. L((k - 1) + 1) = L(k) /\ f[(k - 1) + 1] = f[k] /\ BottomUp[(k - 1) + 1] = BottomUp[k]
        BY <3>1
      <4>2. /\ L(k - 1) \in Nat /\ Len(BottomUp[(k - 1) + 1]) \in Nat
            /\ L((k - 1) + 1) = L(k - 1) + Len(BottomUp[(k - 1) + 1])
            /\ \A i \in 1 .. Len(BottomUp[(k - 1) + 1]) :
                 f[(k - 1) + 1][L(k - 1) + i] = BottomUp[(k - 1) + 1][i]
        BY <1>8, <3>1
      <4> HIDE DEF L
      <4> QED BY <4>1, <4>2
    <3> HIDE DEF h, L
    <3>3. /\ h[k - 1] \in Nat /\ h[k] = h[k - 1] + Len(BottomUp[k]) /\ h[k] <= L(n)
      BY <2>0, <2>1, <3>1, <3>2
    <3>4. ASSUME NEW i \in 1 .. Len(BottomUp[k])
          PROVE  StackKinds[h[k - 1] + i] = BottomUp[k][i]
      <4>1. L(k - 1) + i \in 1 .. L(k)
        BY <2>0, <3>2
      <4>2. StackKinds[L(k - 1) + i] = f[k][L(k - 1) + i]
        BY <2>1, <4>1
      <4>3. f[k][L(k - 1) + i] = BottomUp[k][i]
        BY <3>2
      <4> QED BY <3>1, <4>2, <4>3
    <3> QED BY <3>3, <3>4
  <2> QED BY <2>2, <2>3
<1>11. h[0] = 0 /\ h[n] = LayersOf(stack) /\ L(n) = LayersOf(stack)
  <2>1. Len(StackKinds) = LayersOf(stack)
    BY KindsOfStack DEF LowestLayers, StackKinds
  <2> QED BY <1>1, <1>5, <2>1
<1> HIDE DEF h, L
<1>12. ASSUME NEW k \in 1 .. n
       PROVE  /\ h[k - 1] \in Nat /\ h[k] = h[k - 1] + Len(Kinds(Lowest(k)))
              /\ h[k] <= LayersOf(stack)
              /\ \A i \in 1 .. Len(Kinds(Lowest(k))) :
                    StackKinds[h[k - 1] + i] = Kinds(Lowest(k))[i]
  <2>1. BottomUp[k] = Kinds(Lowest(k))
    BY <1>3
  <2>2. h[k] <= LayersOf(stack)
    BY <1>10, <1>11
  <2> QED BY <1>10, <2>1, <2>2
<1>13. Placed(h)
  BY <1>11, <1>12 DEF Placed, n
<1> QED BY <1>13

(* The channels among the k lowest elements.                               *)
ChannelsIn(k) ==
  Cardinality({i \in DOMAIN stack : stack[i].type = "CHANNEL" /\ i > Len(stack) - k})

LEMMA ChannelsCounted ==
  ASSUME StackKept
  PROVE  /\ ChannelsIn(0) = 0 /\ ChannelsIn(Len(stack)) = Count("CHANNEL", stack)
         /\ \A k \in 1 .. Len(stack) :
              /\ ChannelsIn(k - 1) \in Nat
              /\ ChannelsIn(k) = ChannelsIn(k - 1) + Bit(Lowest(k).type = "CHANNEL")
<1> DEFINE n == Len(stack)
           C(k) == {i \in DOMAIN stack : stack[i].type = "CHANNEL" /\ i > n - k}
<1>1. n \in Nat /\ DOMAIN stack = 1 .. n
  BY DEF StackKept
<1>2. ASSUME NEW k PROVE IsFiniteSet(C(k)) /\ Cardinality(C(k)) \in Nat
  <2>1. C(k) \subseteq 1 .. n /\ IsFiniteSet(1 .. n)
    BY <1>1, FS_Interval
  <2>2. IsFiniteSet(C(k))
    <3> HIDE DEF C
    <3> QED BY <2>1, FS_Subset
  <2> HIDE DEF C
  <2> QED BY <2>2, FS_CardinalityType
<1>3. ChannelsIn(0) = 0
  <2>1. C(0) = {}
    BY <1>1
  <2> QED BY <2>1, FS_EmptySet DEF ChannelsIn
<1>4. ChannelsIn(n) = Count("CHANNEL", stack)
  <2>1. C(n) = {i \in DOMAIN stack : stack[i].type = "CHANNEL"}
    BY <1>1
  <2> QED BY <2>1 DEF ChannelsIn, Count, Quantify
<1>5. ASSUME NEW k \in 1 .. n
      PROVE  /\ ChannelsIn(k - 1) \in Nat
             /\ ChannelsIn(k) = ChannelsIn(k - 1) + Bit(Lowest(k).type = "CHANNEL")
  <2> DEFINE m == (n - k) + 1
  <2>1. m \in 1 .. n /\ Lowest(k) = stack[m] /\ n - (k - 1) = m /\ ~ (m > m) /\ m > n - k
    BY <1>1 DEF Lowest
  <2>2. \A i \in 1 .. n : i > n - k <=> i > m \/ i = m
    BY <1>1
  <2>3. C(k - 1) = {i \in 1 .. n : stack[i].type = "CHANNEL" /\ i > m}
    BY <1>1, <2>1
  <2>4. CASE stack[m].type = "CHANNEL"
    <3>1. C(k) = C(k - 1) \cup {m} /\ m \notin C(k - 1)
      <4> HIDE DEF m
      <4> QED BY <1>1, <2>1, <2>2, <2>3, <2>4
    <3>2. Cardinality(C(k)) = Cardinality(C(k - 1)) + 1
      <4> HIDE DEF C, m
      <4> QED BY <1>2, <3>1, FS_AddElement
    <3> QED BY <1>2, <2>1, <2>4, <3>2 DEF ChannelsIn, Bit
  <2>5. CASE stack[m].type # "CHANNEL"
    <3>1. C(k) = C(k - 1)
      <4> HIDE DEF m
      <4> QED BY <1>1, <2>1, <2>2, <2>3, <2>5
    <3>2. Cardinality(C(k)) = Cardinality(C(k - 1)) /\ Cardinality(C(k - 1)) \in Nat
      BY <1>2, <3>1
    <3> QED BY <2>1, <2>5, <3>2 DEF ChannelsIn, Bit
  <2> QED BY <2>4, <2>5
<1> QED BY <1>3, <1>4, <1>5

KindsKept == \A l \in 0 .. NLayers - 1 : Type(l).kind = StackKinds[l + 1]

LEMMA SolidsRise ==
  ASSUME MatrixKept, phase = "filled", NEW a \in Nat, NEW m \in Nat, a + m <= NLayers,
         Level(a) \in Int, \A i \in 0 .. m - 1 : Plain(a + i)
  PROVE  Level(a + m) = Level(a) + m * PerLayer
<1>1. PerLayer \in Int /\ NLayers \in Nat
  BY GridSizes DEF MatrixKept, ParserKept, Sized
<1> DEFINE S == {i \in Nat : i <= m => Level(a + i) = Level(a) + i * PerLayer}
<1>2. 0 \in S
  BY <1>1
<1>3. ASSUME NEW i \in Nat, i \in S PROVE i + 1 \in S
  <2> SUFFICES ASSUME i + 1 <= m PROVE Level(a + (i + 1)) = Level(a) + (i + 1) * PerLayer
    OBVIOUS
  <2>1. PICK l : l = a + i
    OBVIOUS
  <2>2. /\ l \in 0 .. NLayers - 1 /\ i \in 0 .. m - 1 /\ a + (i + 1) = l + 1 /\ i <= m
        /\ Plain(l)
    BY <1>1, <2>1
  <2>3. Level(l + 1) = Level(l) + PerLayer
    BY <2>2, PlainStep
  <2>4. Level(l) = Level(a) + i * PerLayer
    BY <1>3, <2>1, <2>2
  <2>5. (i + 1) * PerLayer = i * PerLayer + PerLayer /\ i * PerLayer \in Int
    BY <1>1, ProductStep
  <2> DEFINE x == i * PerLayer  y == (i + 1) * PerLayer
  <2>6. Level(l + 1) = Level(a) + x + PerLayer /\ y = x + PerLayer /\ x \in Int
    BY <2>3, <2>4, <2>5
  <2> HIDE DEF x, y
  <2>7. Level(l + 1) = Level(a) + y
    BY <1>1, <2>6
  <2> QED BY <2>2, <2>7 DEF y
<1> HIDE DEF S
<1>4. m \in S
  BY <1>2, <1>3, Induction
<1> QED BY <1>4 DEF S

-----------------------------------------------------------------------------
(* What an element adds to the level.                                      *)
LEMMA ElementLevel ==
  ASSUME MatrixKept, phase = "filled", KindsKept, is2RM(declared.channel), NEW h, Placed(h),
         NEW k \in 1 .. Len(stack), Level(h[k - 1]) \in Int
  PROVE  /\ Lowest(k).type = "CHANNEL" =>
              h[k] = h[k - 1] + 4 /\ Level(h[k]) = Level(h[k - 1]) + PerChannel
         /\ Lowest(k).type # "CHANNEL" =>
              Level(h[k]) = Level(h[k - 1]) + (h[k] - h[k - 1]) * PerLayer
<1> DEFINE e == Lowest(k)  a == h[k - 1]  m == Len(Kinds(Lowest(k)))
<1>1. /\ StackKept /\ stack # <<>> /\ NLayers = LayersOf(stack) /\ NLayers \in Nat
  BY DEF MatrixKept, ParserKept, Sized
<1>2. Checked(e) /\ declared \in Stacks
  <2>1. Len(stack) \in Nat /\ (Len(stack) - k) + 1 \in 1 .. Len(stack)
    BY <1>1 DEF StackKept
  <2> QED BY <1>1, <2>1 DEF StackKept, Lowest
<1>3. /\ m \in Nat \ {0}
      /\ e.type # "CHANNEL" => \A i \in 1 .. m : Kinds(e)[i] \in Solids
      /\ e.type = "CHANNEL" => Kinds(e) = ChannelLayers
  BY <1>2, KindsOfElement
<1>4. a \in Nat /\ h[k] = a + m /\ a + m <= NLayers
  BY <1>1 DEF Placed
<1>5. ASSUME NEW i \in 1 .. m PROVE Type(a + (i - 1)).kind = Kinds(e)[i]
  <2>1. StackKinds[a + i] = Kinds(e)[i]
    BY DEF Placed
  <2> DEFINE l == a + (i - 1)
  <2>2. l \in 0 .. NLayers - 1 /\ l + 1 = a + i
    <3> HIDE DEF a, m
    <3> QED BY <1>1, <1>3, <1>4
  <2> HIDE DEF l, a
  <2>3. Type(l).kind = StackKinds[l + 1]
    BY <2>2 DEF KindsKept
  <2> QED BY <2>1, <2>2, <2>3 DEF l
<1>6. CASE e.type = "CHANNEL"
  <2>1. declared.channel # "NONE"
    BY <1>2, <1>6 DEF Checked
  <2>2. /\ m = 4 /\ Kinds(e)[1] = "BOTTOM_WALL" /\ Kinds(e)[2] \in VirtualWalls
        /\ Kinds(e)[3] \in Coolants /\ Kinds(e)[4] = "TOP_WALL"
    BY <1>2, <1>3, <1>6, <2>1, ChannelKinds DEF Coolants
  <2>3. /\ Type(a).kind = Kinds(e)[1] /\ Type(a + 1).kind = Kinds(e)[2]
        /\ Type(a + 2).kind = Kinds(e)[3] /\ Type(a + 3).kind = Kinds(e)[4]
    <3> HIDE DEF a, e
    <3>1. /\ 1 \in 1 .. m /\ 2 \in 1 .. m /\ 3 \in 1 .. m /\ 4 \in 1 .. m
      BY <2>2
    <3>2. /\ a + (1 - 1) = a /\ a + (2 - 1) = a + 1 /\ a + (3 - 1) = a + 2 /\ a + (4 - 1) = a + 3
      BY <1>4
    <3> HIDE DEF m
    <3> QED BY <1>5, <3>1, <3>2
  <2> HIDE DEF a, e
  <2>4. ChannelAt(a)
    <3> HIDE DEF m
    <3> QED BY <1>1, <1>4, <2>2, <2>3 DEF ChannelAt
  <2>5. Level(a + 4) = Level(a) + PerChannel
    BY <2>4, ChannelStep
  <2> HIDE DEF m
  <2> QED BY <1>4, <1>6, <2>2, <2>5 DEF a, e
<1>7. CASE e.type # "CHANNEL"
  <2> HIDE DEF e, m
  <2>1. \A i \in 0 .. m - 1 : Plain(a + i)
    <3> SUFFICES ASSUME NEW i \in 0 .. m - 1 PROVE Plain(a + i)
      OBVIOUS
    <3> HIDE DEF a
    <3>1. i + 1 \in 1 .. m /\ a + ((i + 1) - 1) = a + i
      BY <1>3, <1>4
    <3> DEFINE j == i + 1
    <3>2. j \in 1 .. m /\ a + (j - 1) = a + i
      BY <3>1
    <3> HIDE DEF j
    <3>3. Type(a + (j - 1)).kind = Kinds(e)[j] /\ Kinds(e)[j] \in Solids
      BY <1>3, <1>5, <1>7, <3>2
    <3> QED BY <3>2, <3>3 DEF Plain
  <2> HIDE DEF a
  <2>2. Level(a) \in Int
    BY DEF a
  <2>3. Level(a + m) = Level(a) + m * PerLayer
    BY <1>3, <1>4, <2>1, <2>2, SolidsRise
  <2>4. m = h[k] - a
    BY <1>3, <1>4
  <2> QED BY <1>4, <1>7, <2>3, <2>4 DEF a, e
<1> QED BY <1>6, <1>7

LEMMA ChannelLevels ==
  ASSUME MatrixKept, phase = "filled", KindsKept, is2RM(declared.channel), NEW h, Placed(h),
         Level(0) = 0
  PROVE  \A k \in 0 .. Len(stack) :
           Level(h[k]) = (h[k] - 4 * ChannelsIn(k)) * PerLayer + ChannelsIn(k) * PerChannel
<1> DEFINE n == Len(stack)
           V(k) == (h[k] - 4 * ChannelsIn(k)) * PerLayer + ChannelsIn(k) * PerChannel
           S == {k \in Nat : k <= n => Level(h[k]) = V(k) /\ V(k) \in Int
                                         /\ h[k] \in Int /\ ChannelsIn(k) \in Int}
<1>1. StackKept /\ n \in Nat /\ PerLayer \in Int /\ PerChannel \in Int
  BY GridSizes DEF MatrixKept, ParserKept, StackKept, Sized
<1>2. 0 \in S
  <2>1. h[0] = 0 /\ ChannelsIn(0) = 0
    BY <1>1, ChannelsCounted DEF Placed
  <2>2. V(0) = 0
    BY <1>1, <2>1
  <2> HIDE DEF V
  <2> QED BY <2>1, <2>2
<1>3. ASSUME NEW i \in Nat, i \in S PROVE i + 1 \in S
  <2> SUFFICES ASSUME i + 1 <= n
               PROVE  /\ Level(h[i + 1]) = V(i + 1) /\ V(i + 1) \in Int
                      /\ h[i + 1] \in Int /\ ChannelsIn(i + 1) \in Int
    OBVIOUS
  <2> DEFINE k == i + 1
  <2>1. k \in 1 .. n /\ k - 1 = i /\ i <= n
    BY <1>1
  <2>2. /\ Level(h[i]) = V(i) /\ V(i) \in Int /\ h[i] \in Int /\ ChannelsIn(i) \in Int
    BY <1>3, <2>1
  <2> HIDE DEF k, V, n
  <2>3. /\ Lowest(k).type = "CHANNEL" =>
             h[k] = h[i] + 4 /\ Level(h[k]) = Level(h[i]) + PerChannel
        /\ Lowest(k).type # "CHANNEL" => Level(h[k]) = Level(h[i]) + (h[k] - h[i]) * PerLayer
    <3>1. Level(h[k - 1]) \in Int /\ k \in 1 .. Len(stack)
      BY <2>1, <2>2 DEF n
    <3> QED BY <2>1, <3>1, ElementLevel
  <2>4. ChannelsIn(k) = ChannelsIn(i) + Bit(Lowest(k).type = "CHANNEL")
    BY <1>1, <2>1, ChannelsCounted DEF n
  <2>5. h[k] \in Int
    <3>1. k \in 1 .. Len(stack)
      BY <2>1 DEF n
    <3>2. h[k - 1] \in Nat /\ h[k] = h[k - 1] + Len(Kinds(Lowest(k)))
      BY <3>1 DEF Placed
    <3>3. Checked(Lowest(k)) /\ declared \in Stacks
      <4>1. (Len(stack) - k) + 1 \in 1 .. Len(stack)
        BY <1>1, <3>1 DEF n
      <4> QED BY <1>1, <4>1 DEF StackKept, Lowest
    <3>4. Len(Kinds(Lowest(k))) \in Nat
      BY <3>3, KindsOfElement
    <3> QED BY <3>2, <3>4
  <2> DEFINE c == ChannelsIn(i)  d == ChannelsIn(k)  x == h[i]  y == h[k]  p == PerLayer
             q == PerChannel
  <2>6. CASE Lowest(k).type = "CHANNEL"
    <3>1. y = x + 4 /\ Level(y) = Level(x) + q /\ d = c + 1
      BY <2>2, <2>3, <2>4, <2>6 DEF Bit
    <3>2. Level(x) = (x - 4 * c) * p + c * q
      BY <2>2 DEF V
    <3>3. x \in Int /\ c \in Int /\ p \in Int /\ q \in Int
      BY <1>1, <2>2
    <3>4. (y - 4 * d) * p + d * q = ((x - 4 * c) * p + c * q) + q
      <4> HIDE DEF c, d, x, y, p, q
      <4>1. y - 4 * d = x - 4 * c /\ d * q = c * q + q /\ c * q \in Int
        BY <3>1, <3>3, ProductStep
      <4> DEFINE z == (x - 4 * c) * p  u == c * q  w == d * q
      <4>2. z \in Int /\ u \in Int /\ w = u + q /\ (y - 4 * d) * p = z
        BY <3>3, <4>1
      <4> HIDE DEF z, u, w
      <4>3. z + w = (z + u) + q
        BY <3>3, <4>2
      <4> QED BY <4>2, <4>3 DEF z, u, w
    <3>5. Level(y) = V(k) /\ V(k) \in Int /\ d \in Int
      <4>1. Level(x) \in Int
        BY <2>2
      <4> HIDE DEF c, d, x, y, p, q
      <4>2. (y - 4 * d) * p + d * q = Level(x) + q
        BY <3>2, <3>4
      <4>3. d \in Int /\ Level(x) + q \in Int
        BY <3>1, <3>3, <4>1
      <4> QED BY <3>1, <4>2, <4>3 DEF V, d, y, p, q
    <3> QED BY <2>5, <3>5 DEF k
  <2>7. CASE Lowest(k).type # "CHANNEL"
    <3>1. Level(y) = Level(x) + (y - x) * p /\ d = c
      BY <2>2, <2>3, <2>4, <2>7 DEF Bit
    <3>2. Level(x) = (x - 4 * c) * p + c * q
      BY <2>2 DEF V
    <3>3. x \in Int /\ y \in Int /\ c \in Int /\ p \in Int /\ q \in Int
      BY <1>1, <2>2, <2>5
    <3>4. (y - 4 * d) * p + d * q = ((x - 4 * c) * p + c * q) + (y - x) * p
      <4> HIDE DEF c, d, x, y, p, q
      <4>1. d = c
        BY <3>1
      <4>2. (y - 4 * c) * p = (x - 4 * c) * p + (y - x) * p
        BY <3>3, Z3
      <4> DEFINE z == (x - 4 * c) * p  u == c * q  w == (y - x) * p  v == (y - 4 * c) * p
      <4>3. z \in Int /\ u \in Int /\ w \in Int /\ v = z + w
        BY <3>3, <4>2
      <4> HIDE DEF z, u, w, v
      <4>4. v + u = (z + u) + w
        BY <4>3
      <4> QED BY <4>1, <4>4 DEF z, u, w, v
    <3>5. Level(y) = V(k) /\ V(k) \in Int /\ d \in Int
      <4>1. Level(x) \in Int
        BY <2>2
      <4> HIDE DEF c, d, x, y, p, q
      <4>2. (y - 4 * d) * p + d * q = Level(x) + (y - x) * p
        BY <3>2, <3>4
      <4>3. d \in Int /\ Level(x) + (y - x) * p \in Int
        BY <3>1, <3>3, <4>1
      <4> QED BY <3>1, <4>2, <4>3 DEF V, d, y, p, q
    <3> QED BY <2>5, <3>5 DEF k
  <2> QED BY <2>6, <2>7
<1> HIDE DEF S
<1>4. \A k \in Nat : k \in S
  BY <1>2, <1>3, Induction
<1>5. ASSUME NEW k \in 0 .. n PROVE Level(h[k]) = V(k)
  <2>1. k \in Nat /\ k <= n /\ k \in S
    BY <1>1, <1>4
  <2> QED BY <2>1 DEF S
<1> QED BY <1>5

-----------------------------------------------------------------------------
(* The level of the whole stack is what the parser counts, except for what *)
(* it counts too many with walls.                                          *)
LEMMA WholeLevel ==
  ASSUME MatrixKept, phase = "filled", KindsKept, ColumnPointers[1] = 0
  PROVE  /\ Level(NLayers) \in Int
         /\ StackConnections(NLayers, Count("CHANNEL", stack)) =
              Level(NLayers) - (IF is2RM(declared.channel) THEN 0 ELSE 2 * LayerArea)
<1> DEFINE n == Len(stack)  A == LayerArea  P == Plane(declared.nrows, declared.ncolumns)
           ns == NorthSouth(declared.nrows, declared.ncolumns)
           d == Count("CHANNEL", stack)
<1>1. /\ StackKept /\ stack # <<>> /\ NLayers = LayersOf(stack) /\ NLayers \in Nat \ {0}
      /\ Sized /\ Typed /\ n \in Nat
  BY DEF MatrixKept, ParserKept, Sized, StackKept
<1>2. A \in Int /\ ns \in Int /\ P \in Int /\ PerLayer = P + 2 * A /\ PerChannel \in Int
  <2>1. /\ A \in Int /\ ns \in Int /\ PerLayer \in Int /\ PerChannel \in Int
        /\ EastWest(declared.nrows, declared.ncolumns) \in Int
        /\ P = A + 2 * ns + 2 * EastWest(declared.nrows, declared.ncolumns)
    BY <1>1, GridSizes
  <2>2. P \in Int
    BY <2>1
  <2> QED BY <2>1, <2>2 DEF PerLayer
<1>3. d \in Int
  <2> DEFINE D == {i \in DOMAIN stack : stack[i].type = "CHANNEL"}
  <2>1. DOMAIN stack = 1 .. Len(stack) /\ Len(stack) \in Nat
    BY <1>1 DEF StackKept
  <2>2. IsFiniteSet(1 .. Len(stack)) /\ D \subseteq 1 .. Len(stack)
    BY <2>1, FS_Interval
  <2>3. Cardinality(D) \in Nat
    BY <2>2, FS_Subset, FS_CardinalityType, Zenon
  <2>4. d = Cardinality(D)
    BY DEF Count, Quantify
  <2> QED BY <2>3, <2>4
<1>4. Level(0) = 0
  <2>1. Before(0) = 0
    <3>1. 0 * LayerArea + 1 = 1
      BY <1>2
    <3> QED BY <3>1 DEF Before
  <2>2. 0 # NLayers
    BY <1>1
  <2> QED BY <2>1, <2>2 DEF Level
<1>5. CASE is2RM(declared.channel)
  <2>1. PICK h : Placed(h)
    <3>1. StackKept /\ stack # <<>>
      BY <1>1
    <3> QED BY <3>1, ElementsPlaced
  <2>2. h[n] = NLayers /\ ChannelsIn(n) = d
    BY <1>1, <2>1, ChannelsCounted DEF Placed
  <2>3. n \in 0 .. Len(stack)
    BY <1>1
  <2>4. Level(NLayers) = (NLayers - 4 * d) * PerLayer + d * PerChannel
    BY <1>4, <1>5, <2>1, <2>2, <2>3, ChannelLevels
  <2>5. StackConnections(NLayers, d) =
          (NLayers - 4 * d) * (P + 2 * A) + 4 * d * A + 2 * (4 * d + d) * A
            + AlongChannel * d * ns
    BY <1>5 DEF StackConnections
  <2>6. PerChannel = 14 * A + AlongChannel * ns
    BY DEF PerChannel
  <2>7. AlongChannel \in Int
    BY DEF AlongChannel
  <2> DEFINE z == AlongChannel  x == (NLayers - 4 * d) * PerLayer
  <2>8. 4 * d * A + 2 * (4 * d + d) * A + z * d * ns = d * PerChannel
    <3>1. PerChannel = 14 * A + z * ns /\ z \in Int
      BY <2>6, <2>7
    <3> HIDE DEF d, A, ns, z
    <3>2. /\ 4 * d * A = 4 * (d * A) /\ 2 * (4 * d + d) * A = 10 * (d * A)
          /\ z * d * ns = d * (z * ns)
      BY <1>2, <1>3, <3>1, Z3
    <3>3. d * (14 * A + z * ns) = 14 * (d * A) + d * (z * ns)
      BY <1>2, <1>3, <3>1, Z3
    <3> DEFINE u == d * A  v == d * (z * ns)
    <3>4. u \in Int /\ v \in Int
      <4>1. z * ns \in Int
        BY <1>2, <3>1
      <4> QED BY <1>2, <1>3, <4>1
    <3>5. /\ 4 * d * A = 4 * u /\ 2 * (4 * d + d) * A = 10 * u /\ z * d * ns = v
          /\ d * PerChannel = 14 * u + v
      BY <3>1, <3>2, <3>3
    <3> DEFINE t1 == 4 * d * A  t2 == 2 * (4 * d + d) * A  t3 == z * d * ns
               t4 == d * PerChannel
    <3>6. t1 = 4 * u /\ t2 = 10 * u /\ t3 = v /\ t4 = 14 * u + v
      BY <3>5
    <3> HIDE DEF u, v, t1, t2, t3, t4
    <3>7. t1 + t2 + t3 = t4
      BY <3>4, <3>6
    <3> QED BY <3>7 DEF t1, t2, t3, t4
  <2>9. x \in Int /\ d * PerChannel \in Int
    <3>1. NLayers \in Int /\ PerLayer \in Int /\ NLayers - 4 * d \in Int
      <4> HIDE DEF A, P, d
      <4> QED BY <1>1, <1>2, <1>3
    <3> HIDE DEF d
    <3> QED BY <1>2, <1>3, <3>1
  <2> DEFINE t1 == 4 * d * A  t2 == 2 * (4 * d + d) * A  t3 == z * d * ns
             t4 == d * PerChannel
  <2>10. StackConnections(NLayers, d) = x + t1 + t2 + t3
    BY <1>2, <2>5
  <2>11. t1 \in Int /\ t2 \in Int /\ t3 \in Int /\ t4 \in Int /\ t1 + t2 + t3 = t4
    <3>1. t1 \in Int /\ t2 \in Int
      <4> HIDE DEF d, A
      <4> QED BY <1>2, <1>3
    <3>2. t3 \in Int
      <4>1. z * d \in Int
        <5> HIDE DEF d, z
        <5> QED BY <1>3, <2>7 DEF z
      <4> HIDE DEF d, z, ns
      <4> QED BY <1>2, <4>1
    <3> QED BY <2>8, <2>9, <3>1, <3>2
  <2>12. Level(NLayers) = x + t4
    BY <2>4
  <2> DEFINE X == StackConnections(NLayers, d)
  <2>13. X = Level(NLayers) /\ Level(NLayers) \in Int
    <3>1. X = x + t1 + t2 + t3 /\ x \in Int
      BY <2>9, <2>10
    <3> HIDE DEF x, t1, t2, t3, t4, X
    <3> QED BY <2>11, <2>12, <3>1
  <2> HIDE DEF A
  <2>14. X = Level(NLayers) - 0
    <3> HIDE DEF X
    <3> QED BY <2>13
  <2> QED BY <1>5, <2>13, <2>14
<1>6. CASE ~ is2RM(declared.channel)
  <2>1. \A i \in 0 .. NLayers - 1 : Plain(0 + i)
    <3> SUFFICES ASSUME NEW i \in 0 .. NLayers - 1 PROVE Plain(0 + i)
      OBVIOUS
    <3>1. Type(i).kind \in Solids \cup {"CHANNEL_4RM"}
      BY <1>1, <1>6 DEF Typed
    <3>2. 0 + i = i
      OBVIOUS
    <3> QED BY <3>1, <3>2 DEF Plain
  <2>2. Level(0 + NLayers) = Level(0) + NLayers * PerLayer
    <3>1. 0 \in Nat /\ NLayers \in Nat /\ 0 + NLayers <= NLayers /\ Level(0) \in Int
      BY <1>1, <1>4
    <3> QED BY <2>1, <3>1, SolidsRise
  <2>3. Level(NLayers) = NLayers * (P + 2 * A)
    <3>1. 0 + NLayers = NLayers
      BY <1>1
    <3> DEFINE v == NLayers * PerLayer
    <3>2. v \in Int /\ v = NLayers * (P + 2 * A)
      <4>1. PerLayer \in Int
        <5> HIDE DEF P, A
        <5> QED BY <1>2
      <4> QED BY <1>1, <1>2, <4>1
    <3> HIDE DEF v
    <3>3. Level(NLayers) = v
      BY <1>4, <2>2, <3>1, <3>2 DEF v
    <3> QED BY <3>2, <3>3
  <2>4. StackConnections(NLayers, d) = NLayers * P + 2 * (NLayers - 1) * A
    BY <1>6 DEF StackConnections
  <2> HIDE DEF P, A
  <2>5. /\ NLayers * (P + 2 * A) = NLayers * P + 2 * (NLayers * A)
        /\ 2 * (NLayers - 1) * A = 2 * (NLayers * A) - 2 * A
    BY <1>1, <1>2, Z3
  <2> DEFINE u == NLayers * P  v == NLayers * A  s == NLayers * (P + 2 * A)
             t == 2 * (NLayers - 1) * A  X == StackConnections(NLayers, d)
  <2>6. u \in Int /\ v \in Int /\ s = u + 2 * v /\ t = 2 * v - 2 * A
    <3>1. u \in Int /\ v \in Int
      BY <1>1, <1>2
    <3>2. s = u + 2 * v /\ t = 2 * v - 2 * A
      BY <2>5
    <3> QED BY <3>1, <3>2
  <2>7. Level(NLayers) = s /\ X = u + t
    BY <2>3, <2>4
  <2> HIDE DEF u, v, s, t, X
  <2>8. Level(NLayers) \in Int /\ X = Level(NLayers) - 2 * A
    BY <1>2, <2>6, <2>7
  <2> QED BY <1>6, <2>8 DEF X, A
<1> QED BY <1>5, <1>6

(* And what fill_system_matrix has written is that with the spreader.      *)
LEMMA WholeMatrix ==
  ASSUME MatrixKept, phase = "filled", Level(NLayers) \in Int
  PROVE  /\ Len(RowIndices) = Level(NLayers) - 2 * LayerArea + SpreaderConnections
         /\ SpreaderConnections \in Int /\ LayerArea \in Nat /\ Len(RowIndices) \in Nat
<1>1. Sized /\ Arrays /\ Columns = NCells /\ NLayers \in Nat \ {0} /\ declared \in Stacks
  BY DEF MatrixKept, ParserKept, Sized
<1>2. LayerArea \in Nat /\ Len(RowIndices) \in Nat
  BY <1>1, Sizes DEF Arrays
<1>3. NCells + 1 = Len(ColumnPointers)
  BY <1>1 DEF Columns, Arrays
<1>4. ColumnPointers[NCells + 1] = Len(RowIndices)
  BY <1>1, <1>3 DEF Arrays
<1> DEFINE t == Before(NLayers)  A == LayerArea  s == SpreaderConnections  n == Len(RowIndices)
<1>5. Level(NLayers) = t + A + (A - (IF Pluggable THEN A ELSE 0))
  <2>1. NLayers # 0
    BY <1>1
  <2> QED BY <2>1 DEF Level
<1>6. CASE Pluggable
  <2>1. t \in Int /\ n = t + s - A
    BY <1>4, <1>6, SpreaderTotal
  <2>2. s \in Int
    <3>1. SpreaderRows \in Int /\ SpreaderColumns \in Int
      BY <1>1, Sizes
    <3>2. Plane(SpreaderRows, SpreaderColumns) \in Int
      <4> DEFINE h == SpreaderRows  w == SpreaderColumns
      <4> HIDE DEF h, w
      <4>1. h \in Int /\ w \in Int
        BY <3>1 DEF h, w
      <4>2. h * w \in Int /\ (h - 1) * w \in Int /\ h * (w - 1) \in Int
        BY <4>1
      <4>3. Plane(h, w) \in Int
        BY <4>2 DEF Plane, NorthSouth, EastWest
      <4> QED BY <4>3 DEF h, w
    <3> QED BY <1>2, <1>6, <3>2 DEF SpreaderConnections
  <2> HIDE DEF t, A, s, n
  <2>3. Level(NLayers) = t + A + 0
    BY <1>2, <1>5, <1>6, <2>1 DEF A
  <2>4. n = Level(NLayers) - 2 * A + s
    BY <1>2, <2>1, <2>2, <2>3 DEF A
  <2> QED BY <1>2, <2>2, <2>4 DEF A, s, n
<1>7. CASE ~ Pluggable
  <2>1. s = 0
    BY <1>7 DEF SpreaderConnections
  <2>2. NCells = NLayers * LayerArea
    <3>1. NLayers * LayerArea \in Int
      BY <1>1, <1>2
    <3> QED BY <1>1, <1>7, <3>1 DEF Sized, SpreaderCells
  <2>3. t = n
    BY <1>4, <2>2 DEF Before
  <2> HIDE DEF t, A, s, n
  <2>4. Level(NLayers) = t + A + (A - 0)
    BY <1>5, <1>7
  <2>5. n = Level(NLayers) - 2 * A + s
    BY <1>2, <2>1, <2>3, <2>4 DEF A, n
  <2> QED BY <1>2, <2>1, <2>5 DEF A, s, n
<1> QED BY <1>6, <1>7

-----------------------------------------------------------------------------
(* The second invariant: what the parser counted, of which kinds the       *)
(* layers are, and where the first column begins.                          *)
CountOfStack == NConnections = NumberOfConnections(NLayers, Count("CHANNEL", stack))

CountKept ==
  /\ ColumnPointers[1] = 0
  /\ phase \notin {"parsing", "aborted"} => CountOfStack
  /\ phase \in {"filling", "filled"} => KindsKept

LEMMA SameCount ==
  ASSUME UNCHANGED <<declared, stack>>
  PROVE  /\ NumberOfConnections(NLayers, Count("CHANNEL", stack))' =
              NumberOfConnections(NLayers', Count("CHANNEL", stack))
         /\ StackKinds' = StackKinds
<1>1. declared' = declared /\ stack' = stack
  OBVIOUS
<1>2. Count("CHANNEL", stack)' = Count("CHANNEL", stack)
  BY <1>1 DEF Count, Quantify
<1>3. LayerArea' = LayerArea /\ Pluggable' = Pluggable /\ AlongChannel' = AlongChannel
  BY <1>1 DEF LayerArea, Pluggable, AlongChannel
<1>4. SpreaderConnections' = SpreaderConnections
  BY <1>1, <1>3 DEF SpreaderConnections, Plane, NorthSouth, EastWest, SpreaderRows, SpreaderColumns
<1>5. StackConnections(NLayers, Count("CHANNEL", stack))' =
        StackConnections(NLayers', Count("CHANNEL", stack))
  BY <1>1, <1>2, <1>3 DEF StackConnections
<1>6. StackKinds' = StackKinds
  BY <1>1 DEF StackKinds, BottomUp, Kinds, ChannelLayers
<1> QED BY <1>4, <1>5, <1>6 DEF NumberOfConnections

LEMMA SameKinds ==
  ASSUME UNCHANGED <<declared, stack, NLayers, LayersTypeProfile>>
  PROVE  KindsKept' = KindsKept
<1>1. StackKinds' = StackKinds
  BY SameCount
<1>2. NLayers' = NLayers /\ \A l : Type(l)' = Type(l)
  BY DEF Type
<1> QED BY <1>1, <1>2 DEF KindsKept

LEMMA CountStep ==
  MatrixKept /\ MatrixKept' /\ CountKept /\ [Next]_vars => CountKept'
<1> SUFFICES ASSUME MatrixKept, MatrixKept', CountKept, [Next]_vars PROVE CountKept'
  OBVIOUS
<1>1. CASE Parse
  <2>1. UNCHANGED matrixVars /\ phase = "parsing"
    BY <1>1 DEF Parse, AddElement, EndStack
  <2>2. ColumnPointers'[1] = 0
    BY <2>1 DEF matrixVars, CountKept
  <2>3. ASSUME NEW e, AddElement(e) PROVE phase' \in {"parsing", "aborted"}
    BY <2>1, <2>3 DEF AddElement
  <2>4. ASSUME EndStack PROVE phase' = "aborted" \/ (phase' = "parsed" /\ CountOfStack')
    <3>1. CASE phase' = "aborted"
      BY <3>1
    <3>2. CASE phase' # "aborted"
      <4>1. /\ NLayers' = LayersOf(stack) /\ phase' = "parsed"
            /\ NConnections' = NumberOfConnections(LayersOf(stack), Count("CHANNEL", stack))
            /\ UNCHANGED <<declared, stack>>
        BY <2>4, <3>2 DEF EndStack
      <4> QED BY <4>1, SameCount DEF CountOfStack
    <3> QED BY <3>1, <3>2
  <2> QED BY <1>1, <2>2, <2>3, <2>4 DEF Parse, CountKept
<1>2. CASE GridFill("parsed")
  <2>1. /\ phase = "parsed" /\ UNCHANGED parserVars /\ ColumnPointers' = ColumnPointers
        /\ UNCHANGED <<declared, stack, NLayers, NConnections>>
    BY <1>2 DEF GridFill, parserVars
  <2>2. ColumnPointers'[1] = 0 /\ CountOfStack'
    BY <2>1, SameCount DEF CountKept, CountOfStack
  <2>3. CASE phase' = "aborted"
    BY <2>2, <2>3 DEF CountKept
  <2>4. CASE phase' # "aborted"
    <3>1. /\ ~ SinksClash(WithTopSink(Profile))
          /\ LayersTypeProfile' = WithBottomSink(WithTopSink(Profile))
      BY <1>2, <2>4 DEF GridFill
    <3>2. /\ StackKept /\ stack # <<>> /\ EndsInSolids /\ NLayers = LayersOf(stack)
          /\ NLayers \in Nat \ {0}
      BY <2>1 DEF MatrixKept, ParserKept, Sized
    <3>3. ASSUME NEW l \in 0 .. NLayers - 1 PROVE Type(l)'.kind = StackKinds[l + 1]
      <4>1. Type(l)' = WithBottomSink(WithTopSink(Profile))[l + 1] /\ l + 1 \in 1 .. NLayers
        BY <3>1, <3>2 DEF Type
      <4> QED BY <3>1, <3>2, <4>1, ProfileTypes
    <3>4. KindsKept'
      BY <2>1, <3>3, SameCount DEF KindsKept
    <3> QED BY <2>2, <3>4 DEF CountKept
  <2> QED BY <2>3, <2>4
<1>3. CASE FillColumn
  <2>1. phase = "filling" /\ WriteColumn(CellOf(at), UniformColumn(at.l, at.r, at.c))
    BY <1>3, FillsColumn
  <2>2. UNCHANGED <<declared, stack, NLayers, NConnections, LayersTypeProfile>>
    BY <2>1 DEF WriteColumn, NextIteration, parserVars
  <2>3. CountOfStack' /\ KindsKept'
    BY <2>1, <2>2, SameCount, SameKinds DEF CountKept, CountOfStack
  <2>4. ColumnPointers'[1] = 0
    <3>1. Arrays /\ Sized /\ Typed /\ Position(at)
      BY <2>1 DEF MatrixKept, ParserKept
    <3>2. PICK column, own : column = UniformColumn(at.l, at.r, at.c) /\ own = CellOf(at)
      OBVIOUS
    <3>3. PICK E : column \in Seq(E)
      BY <3>1, <3>2, ColumnLists DEF Lists
    <3>4. WriteColumn(own, column)
      BY <2>1, <3>2
    <3>5. \A i \in 1 .. Len(ColumnPointers) : ColumnPointers'[i] = ColumnPointers[i]
      BY <3>1, <3>3, <3>4, WrittenArrays
    <3>6. 1 \in 1 .. Len(ColumnPointers)
      BY <3>1 DEF Arrays
    <3> QED BY <3>5, <3>6 DEF CountKept
  <2> QED BY <2>3, <2>4 DEF CountKept
<1>4. CASE Refill
  <2>1. /\ phase = "filled" /\ ColumnPointers' = <<0>>
        /\ UNCHANGED <<declared, stack, NLayers, NConnections, LayersTypeProfile>>
    BY <1>4 DEF Refill, parserVars
  <2>2. CountOfStack' /\ KindsKept'
    BY <2>1, SameCount, SameKinds DEF CountKept, CountOfStack
  <2> QED BY <2>1, <2>2 DEF CountKept
<1>5. CASE UNCHANGED vars
  <2>1. /\ phase' = phase /\ ColumnPointers' = ColumnPointers
        /\ UNCHANGED <<declared, stack, NLayers, NConnections, LayersTypeProfile>>
    BY <1>5 DEF vars, parserVars, matrixVars
  <2>2. CountOfStack' = CountOfStack
    BY <2>1, SameCount DEF CountOfStack
  <2>3. KindsKept' = KindsKept
    BY <2>1, SameKinds
  <2> QED BY <2>1, <2>2, <2>3 DEF CountKept
<1> QED BY <1>1, <1>2, <1>3, <1>4, <1>5 DEF Next

(* From both invariants: the count is that of the coefficients written,    *)
(* in the width of a CellIndex_t.                                          *)
LEMMA KeptCounts ==
  MatrixKept /\ CountKept =>
    (Len(RowIndices) + 2 * LayerArea < Word => CountIsExact)
<1> SUFFICES ASSUME MatrixKept, CountKept, phase = "filled",
                    Len(RowIndices) + 2 * LayerArea < Word
             PROVE  /\ Columns = NCells
                    /\ NConnections = Len(RowIndices)
                         + (IF is2RM(declared.channel) THEN 2 * LayerArea ELSE 0)
  BY DEF CountIsExact
<1> DEFINE n == Len(RowIndices)  A == LayerArea  s == SpreaderConnections
           x == StackConnections(NLayers, Count("CHANNEL", stack))  v == Level(NLayers)
           more == IF is2RM(declared.channel) THEN 2 * LayerArea ELSE 0
<1>1. Columns = NCells /\ CountOfStack /\ KindsKept /\ ColumnPointers[1] = 0
  BY DEF MatrixKept, CountKept
<1>2. v \in Int /\ x = v - (IF is2RM(declared.channel) THEN 0 ELSE 2 * LayerArea)
  BY <1>1, WholeLevel
<1>3. n = v - 2 * A + s /\ s \in Int /\ A \in Nat /\ n \in Nat
  BY <1>2, WholeMatrix
<1>4. Word \in Nat \ {0}
  BY StackAssumption
<1>5. NConnections = (x + s) % Word
  BY <1>1 DEF CountOfStack, NumberOfConnections
<1>6. x = v - 2 * A + more /\ more \in Nat /\ more <= 2 * A
  BY <1>2, <1>3
<1>7. n + 2 * A < Word
  OBVIOUS
<1> HIDE DEF n, A, s, x, v, more
<1>8. x + s = n + more /\ n + more \in 0 .. Word - 1
  BY <1>2, <1>3, <1>4, <1>6, <1>7
<1>9. NConnections = n + more
  BY <1>4, <1>5, <1>8
<1> QED BY <1>1, <1>9 DEF n, more

(* For every stack and every grid the parser accepts, with whatever        *)
(* channels, heat sinks and spreader: compute_number_of_connections counts *)
(* the coefficients that fill_system_matrix then writes (with 2RM channels *)
(* two more per cell of a layer), wherever that many fit a CellIndex_t.    *)
(* The parser only sees to it that the number of the cells does.           *)
THEOREM CountAlwaysExact ==
  Spec => [](Len(RowIndices) + 2 * LayerArea < Word => CountIsExact)
<1>1. Init => CountKept
  BY DEF Init, ParserInit, CountKept
<1>2. MatrixKept /\ MatrixKept' /\ CountKept /\ [Next]_vars => CountKept'
  BY CountStep
<1> QED BY <1>1, <1>2, MatrixInvariant, KeptCounts, PTL DEF Spec

-----------------------------------------------------------------------------
(* The search for connections on non-uniform grids.  The cells of every    *)
(* element are a sequence, so those of the grid are.                       *)

LEMMA AnySequence ==
  ASSUME NEW n \in Nat, NEW f, f = [i \in 1 .. n |-> f[i]]
  PROVE  f \in Seq(Range(f)) /\ Len(f) = n
<1>1. f \in [1 .. n -> Range(f)]
  BY DEF Range
<1> QED BY <1>1, FunctionIsSeq

LEMMA FlatIsSeq ==
  ASSUME NEW S, NEW n \in Nat, NEW parts \in [1 .. n -> Seq(S)]
  PROVE  /\ FlattenSeq(parts) \in Seq(S)
         /\ n # 0 /\ parts[1] # <<>> => FlattenSeq(parts) # <<>>
<1>1. Len(parts) = n
  BY FunctionIsSeq
<1>2. CASE n = 0
  <2>1. parts \in [1 .. 0 -> S]
    BY <1>2
  <2>2. parts \in Seq(S)
    BY <2>1, FunctionIsSeq
  <2> QED BY <1>1, <1>2, <2>2 DEF FlattenSeq
<1>3. CASE n # 0
  <2>1. PICK f : Flat(f, parts, n) /\ FlattenSeq(parts) = f[n]
    BY <1>1, <1>3, FlattenUnfold
  <2> DEFINE T == {m \in Nat : m + 1 \in 1 .. n =>
                     f[m + 1] \in Seq(S) /\ (parts[1] # <<>> => f[m + 1] # <<>>)}
  <2>2. 0 \in T
    <3>1. 1 \in 1 .. n
      BY <1>3
    <3>2. f[1] = parts[1]
      BY <2>1, <3>1 DEF Flat
    <3> QED BY <3>1, <3>2
  <2>3. ASSUME NEW m \in Nat, m \in T PROVE m + 1 \in T
    <3> SUFFICES ASSUME (m + 1) + 1 \in 1 .. n
                 PROVE  /\ f[(m + 1) + 1] \in Seq(S)
                        /\ parts[1] # <<>> => f[(m + 1) + 1] # <<>>
      OBVIOUS
    <3>1. m + 1 \in 1 .. n /\ (m + 1) + 1 # 1 /\ ((m + 1) + 1) - 1 = m + 1
      OBVIOUS
    <3>2. f[(m + 1) + 1] = f[m + 1] \o parts[(m + 1) + 1]
      BY <2>1, <3>1 DEF Flat
    <3>3. f[m + 1] \in Seq(S) /\ (parts[1] # <<>> => f[m + 1] # <<>>)
      BY <2>3, <3>1
    <3>4. PICK s \in Seq(S) : s = parts[(m + 1) + 1]
      OBVIOUS
    <3>5. PICK t \in Seq(S) : t = f[m + 1]
      BY <3>3
    <3>6. t \o s \in Seq(S) /\ Len(t \o s) = Len(t) + Len(s)
      BY ConcatProperties
    <3>7. t # <<>> => t \o s # <<>>
      <4>1. Len(t) \in Nat /\ Len(s) \in Nat /\ (t # <<>> => Len(t) # 0)
        BY EmptySeq
      <4>2. Len(<<>>) = 0
        BY EmptySeq
      <4>3. t # <<>> => Len(t \o s) # 0
        BY <3>6, <4>1
      <4> QED BY <4>2, <4>3
    <3> QED BY <3>2, <3>3, <3>4, <3>5, <3>6, <3>7
  <2> HIDE DEF T
  <2>4. \A m \in Nat : m \in T
    BY <2>2, <2>3, Induction
  <2>5. n - 1 \in Nat /\ (n - 1) + 1 = n
    BY <1>3
  <2>6. n - 1 \in T
    BY <2>4, <2>5
  <2> QED BY <1>3, <2>1, <2>5, <2>6 DEF T
<1> QED BY <1>2, <1>3

(* A layer whose cells are a sequence.                                     *)
Listed(layer) == Len(layer.cells) \in Nat

AllListed(layers) ==
  /\ layers \in Seq(Range(layers)) /\ layers # <<>>
  /\ \A layer \in Range(layers) : Listed(layer)

LEMMA SameLayers ==
  ASSUME NEW n \in Nat \ {0}, NEW layers, layers = [i \in 1 .. n |-> layers[i]],
         \A i \in 1 .. n : Len(layers[i].cells) \in Nat
  PROVE  AllListed(layers)
<1>1. layers \in Seq(Range(layers)) /\ Len(layers) = n
  BY AnySequence
<1>2. layers # <<>>
  BY <1>1, EmptySeq
<1> QED BY <1>1, <1>2 DEF AllListed, Listed, Range

LEMMA TilesListed ==
  ASSUME NEW icel, NEW dx \in Nat, NEW dy \in Nat
  PROVE  Tiles(icel, dx, dy) \in Seq(Range(Tiles(icel, dx, dy)))
<1> DEFINE f == Tiles(icel, dx, dy)
<1>1. dx * dy \in Nat
  OBVIOUS
<1>2. f = [k \in 1 .. dx * dy |-> f[k]]
  BY DEF Tiles
<1> HIDE DEF f
<1>3. f \in Seq(Range(f))
  BY <1>1, <1>2, AnySequence
<1> QED BY <1>3 DEF f

LEMMA DieListed ==
  ASSUME declared \in Stacks, NEW e \in Elements, e.type = "DIE"
  PROVE  AllListed(DieCells(e))
<1> DEFINE n == Len(e.floorplan)
           elements == [j \in DOMAIN e.floorplan |-> ElementCells(e.floorplan[j], e)]
           S == UNION {Range(elements[j]) : j \in 1 .. n}
<1>1. n \in Nat /\ DOMAIN e.floorplan = 1 .. n
  BY NonUniformAssumption DEF FloorplanOf
<1>2. ASSUME NEW j \in 1 .. n PROVE elements[j] \in Seq(S)
  <2> DEFINE discr == DiscrOf(e.floorplan[j], e)
  <2>1. discr.x \in Nat /\ discr.y \in Nat
    BY <1>1, NonUniformAssumption DEF DiscrOf, Discr, Discretised
  <2>2. elements[j] = Tiles(e.floorplan[j].rects[1], discr.x, discr.y)
    BY <1>1 DEF ElementCells
  <2> HIDE DEF discr
  <2>3. elements[j] \in Seq(Range(elements[j]))
    BY <2>1, <2>2, TilesListed
  <2> HIDE DEF elements
  <2>4. Range(elements[j]) \subseteq S
    OBVIOUS
  <2> QED BY <2>3, <2>4, SeqMonotonic
<1>3. elements \in [1 .. n -> Seq(S)]
  BY <1>1, <1>2
<1> HIDE DEF elements, S
<1>4. Len(FlattenSeq(elements)) \in Nat
  <2>1. FlattenSeq(elements) \in Seq(S)
    BY <1>1, <1>3, FlatIsSeq
  <2> QED BY <2>1
<1> DEFINE layers == DieCells(e)
<1>5. /\ layers = [i \in 1 .. e.nlayers |-> layers[i]]
      /\ \A i \in 1 .. e.nlayers : layers[i].cells = FlattenSeq(elements)
  BY DEF DieCells, GridLayer, elements
<1>6. e.nlayers \in Nat \ {0}
  BY StackAssumption DEF StackElement
<1> HIDE DEF layers
<1>7. AllListed(layers)
  BY <1>4, <1>5, <1>6, SameLayers
<1> QED BY <1>7 DEF layers

LEMMA ElementListed ==
  ASSUME declared \in Stacks, NEW e \in Elements
  PROVE  AllListed(CellsOfElement(e))
<1>1. CASE e.type = "DIE"
  BY <1>1, DieListed DEF CellsOfElement
<1>2. CASE e.type = "LAYER"
  <2> DEFINE f == Tiles(Chip, Discr(e).x, Discr(e).y)  layers == LayerCells(e)
  <2>1. Discr(e).x \in Nat /\ Discr(e).y \in Nat
    BY <1>2, NonUniformAssumption DEF Discr, Discretised
  <2>2. f \in Seq(Range(f))
    BY <2>1, TilesListed
  <2>3. layers = [i \in 1 .. 1 |-> layers[i]] /\ layers[1].cells = f
    BY DEF LayerCells, GridLayer
  <2> HIDE DEF f, layers
  <2>4. Len(f) \in Nat
    BY <2>2
  <2>5. AllListed(layers)
    <3>1. PICK n \in Nat \ {0} : n = 1
      OBVIOUS
    <3>2. layers = [i \in 1 .. n |-> layers[i]] /\ \A i \in 1 .. n : Len(layers[i].cells) \in Nat
      BY <2>3, <2>4, <3>1
    <3> QED BY <3>2, SameLayers
  <2> QED BY <1>2, <2>5 DEF CellsOfElement, layers
<1>3. CASE e.type = "CHANNEL"
  <2>1. LayerArea \in Nat
    BY StackAssumption DEF LayerArea, Declaration
  <2>2. AllListed(ChannelCells4rm)
    <3> DEFINE layers == ChannelCells4rm
    <3>1. layers = [i \in 1 .. 1 |-> layers[i]]
      BY DEF ChannelCells4rm
    <3> DEFINE f == layers[1].cells
    <3>2. f = [k \in 1 .. LayerArea |-> f[k]]
      BY DEF ChannelCells4rm, GridLayer, ColumnTiles
    <3> HIDE DEF f, layers
    <3>3. Len(f) = LayerArea
      BY <2>1, <3>2, AnySequence
    <3>4. PICK n \in Nat \ {0} : n = 1
      OBVIOUS
    <3>5. layers = [i \in 1 .. n |-> layers[i]] /\ \A i \in 1 .. n : Len(layers[i].cells) \in Nat
      BY <2>1, <3>1, <3>3, <3>4 DEF f
    <3>6. AllListed(layers)
      BY <3>5, SameLayers
    <3> QED BY <3>6 DEF layers
  <2>3. AllListed(ChannelCells2rm)
    <3> DEFINE layers == ChannelCells2rm
    <3>1. layers = [i \in 1 .. 4 |-> layers[i]]
      BY DEF ChannelCells2rm
    <3>2. ASSUME NEW i \in 1 .. 4 PROVE Len(layers[i].cells) = LayerArea
      <4> DEFINE f == layers[i].cells
      <4>1. f = [k \in 1 .. LayerArea |-> f[k]]
        BY DEF ChannelCells2rm, GridLayer, ColumnTiles
      <4> HIDE DEF f
      <4>2. Len(f) = LayerArea
        BY <2>1, <4>1, AnySequence
      <4> QED BY <4>2 DEF f
    <3> HIDE DEF layers
    <3>3. AllListed(layers)
      <4>1. PICK n \in Nat \ {0} : n = 4
        OBVIOUS
      <4>2. layers = [i \in 1 .. n |-> layers[i]] /\ \A i \in 1 .. n : Len(layers[i].cells) \in Nat
        BY <2>1, <3>1, <3>2, <4>1
      <4> QED BY <4>2, SameLayers
    <3> QED BY <3>3 DEF layers
  <2>4. AllListed(PinfinCells)
    <3> DEFINE layers == PinfinCells
    <3>1. layers = [i \in 1 .. 4 |-> layers[i]]
      BY DEF PinfinCells
    <3>2. ASSUME NEW i \in 1 .. 4 PROVE Len(layers[i].cells) = LayerArea
      <4> DEFINE f == layers[i].cells
      <4>1. f = [k \in 1 .. LayerArea |-> f[k]]
        BY DEF PinfinCells, GridLayer, ColumnTiles
      <4> HIDE DEF f
      <4>2. Len(f) = LayerArea
        BY <2>1, <4>1, AnySequence
      <4> QED BY <4>2 DEF f
    <3> HIDE DEF layers
    <3>3. AllListed(layers)
      <4>1. PICK n \in Nat \ {0} : n = 4
        OBVIOUS
      <4>2. layers = [i \in 1 .. n |-> layers[i]] /\ \A i \in 1 .. n : Len(layers[i].cells) \in Nat
        BY <2>1, <3>1, <3>2, <4>1
      <4> QED BY <4>2, SameLayers
    <3> QED BY <3>3 DEF layers
  <2> QED BY <1>3, <2>2, <2>3, <2>4 DEF CellsOfElement
<1> QED BY <1>1, <1>2, <1>3, StackAssumption DEF StackElement

LEMMA GridListed ==
  ASSUME declared \in Stacks, stack \in Seq(Elements), stack # <<>>
  PROVE  AllListed(get_cell_position)
<1> DEFINE n == Len(stack)
           parts == [p \in DOMAIN stack |-> CellsOfElement(Reverse(stack)[p])]
           S == UNION {Range(parts[p]) : p \in 1 .. n}
           flat == FlattenSeq(parts)
           U == S \cup Range(SpreaderTiles)
<1>1. n \in Nat \ {0} /\ DOMAIN stack = 1 .. n
  BY EmptySeq
<1>2. ASSUME NEW p \in 1 .. n PROVE AllListed(parts[p]) /\ parts[p] \in Seq(S)
  <2>1. Reverse(stack)[p] \in Elements
    <3>1. (n - p) + 1 \in 1 .. n /\ Reverse(stack)[p] = stack[(n - p) + 1]
      BY <1>1 DEF Reverse
    <3> QED BY <1>1, <3>1
  <2>2. AllListed(parts[p])
    BY <1>1, <2>1, ElementListed
  <2> HIDE DEF parts
  <2>3. Range(parts[p]) \subseteq S /\ parts[p] \in Seq(Range(parts[p]))
    BY <2>2 DEF AllListed
  <2> QED BY <2>2, <2>3, SeqMonotonic
<1>3. parts \in [1 .. n -> Seq(S)] /\ parts[1] # <<>>
  <2>1. parts = [p \in 1 .. n |-> parts[p]] /\ 1 \in 1 .. n
    BY <1>1
  <2> HIDE DEF parts, S
  <2> QED BY <1>2, <2>1 DEF AllListed
<1>4. \A layer \in S : Listed(layer)
  BY <1>2 DEF AllListed
<1> HIDE DEF parts, S
<1>5. flat \in Seq(S) /\ flat # <<>>
  BY <1>1, <1>3, FlatIsSeq
<1>6. /\ SpreaderTiles \in Seq(Range(SpreaderTiles))
      /\ \A layer \in Range(SpreaderTiles) : Listed(layer)
  <2>1. CASE Pluggable
    <3> DEFINE f == Tiles(Chip, declared.ncolumns, declared.nrows)  layers == SpreaderTiles
    <3>1. layers = [i \in 1 .. 1 |-> layers[i]] /\ layers[1].cells = f
      BY <2>1 DEF SpreaderTiles, GridLayer
    <3>2. f \in Seq(Range(f))
      BY TilesListed, StackAssumption DEF Declaration
    <3> HIDE DEF f, layers
    <3>3. Len(f) \in Nat
      BY <3>2
    <3>4. AllListed(layers)
      <4>1. PICK m \in Nat \ {0} : m = 1
        OBVIOUS
      <4>2. layers = [i \in 1 .. m |-> layers[i]] /\ \A i \in 1 .. m : Len(layers[i].cells) \in Nat
        BY <3>1, <3>3, <4>1
      <4> QED BY <4>2, SameLayers
    <3> QED BY <3>4 DEF AllListed, layers
  <2>2. CASE ~ Pluggable
    <3>1. SpreaderTiles = <<>> /\ Range(<<>>) = {}
      BY <2>2 DEF SpreaderTiles, Range
    <3> QED BY <3>1
  <2> QED BY <2>1, <2>2
<1> DEFINE tiles == SpreaderTiles  all == flat \o tiles
<1>7. flat \in Seq(U) /\ tiles \in Seq(U) /\ \A layer \in U : Listed(layer)
  BY <1>4, <1>5, <1>6, SeqMonotonic
<1>8. get_cell_position = all
  BY DEF get_cell_position, parts
<1> HIDE DEF flat, tiles, U
<1>9. all \in Seq(U) /\ Len(all) = Len(flat) + Len(tiles)
  BY <1>7, ConcatProperties
<1>10. all # <<>>
  <2>1. Len(flat) \in Nat \ {0} /\ Len(tiles) \in Nat
    BY <1>5, <1>7, EmptySeq
  <2>2. Len(all) # 0 /\ Len(<<>>) = 0
    BY <1>9, <2>1
  <2> HIDE DEF all
  <2> QED BY <2>2
<1> HIDE DEF all
<1>11. Range(all) \subseteq U /\ all \in Seq(Range(all))
  <2>1. DOMAIN all = 1 .. Len(all) /\ Len(all) \in Nat /\ all = [i \in 1 .. Len(all) |-> all[i]]
    BY <1>9
  <2>2. Range(all) \subseteq U
    BY <1>9 DEF Range
  <2>3. all \in Seq(Range(all))
    BY <2>1, AnySequence
  <2> QED BY <2>2, <2>3
<1> QED BY <1>7, <1>8, <1>10, <1>11 DEF AllListed

-----------------------------------------------------------------------------
(* So are the regions, and what a part of a region finds.                  *)

AllNodes == [pair : Int \X Int, at : Int \X Int \X Nat]

Pairs == Int \X Int

LEMMA FoundPairs ==
  ASSUME Len(cells) \in Nat, NEW r, NEW k
  PROVE  Found(r, k) \in Seq(Pairs)
<1> DEFINE n == Len(cells)
           row(i) == [m \in 1 .. n |-> IF m - 1 \in Partners(r, i) THEN <<<<i, m - 1>>>> ELSE <<>>]
           part == [m \in 1 .. n |-> IF m - 1 \in CellsOfPart(r, k)
                                     THEN FlattenSeq(row(m - 1)) ELSE <<>>]
<1>1. ASSUME NEW i \in Int PROVE FlattenSeq(row(i)) \in Seq(Pairs)
  <2>1. ASSUME NEW m \in 1 .. n PROVE row(i)[m] \in Seq(Pairs)
    <3>1. <<i, m - 1>> \in Pairs
      BY DEF Pairs
    <3>2. <<<<i, m - 1>>>> \in Seq(Pairs) /\ <<>> \in Seq(Pairs)
      BY <3>1
    <3> QED BY <3>2
  <2> DEFINE f == row(i)
  <2>2. f \in [1 .. n -> Seq(Pairs)]
    <3>1. f = [m \in 1 .. n |-> f[m]]
      OBVIOUS
    <3> HIDE DEF f
    <3> QED BY <2>1, <3>1 DEF f
  <2> HIDE DEF f
  <2>3. FlattenSeq(f) \in Seq(Pairs)
    BY <2>2, FlatIsSeq
  <2> QED BY <2>3 DEF f
<1> HIDE DEF row
<1>2. part \in [1 .. n -> Seq(Pairs)]
  BY <1>1
<1> HIDE DEF part
<1>3. FlattenSeq(part) \in Seq(Pairs)
  BY <1>2, FlatIsSeq
<1> QED BY <1>3 DEF Found, InOrder, part, row

LEMMA AllocatedNodes ==
  ASSUME Len(cells) \in Nat, NEW n \in Int, NEW k \in Int
  PROVE  /\ Allocated(n, k) \in Seq(AllNodes)
         /\ \A m \in 1 .. Len(Allocated(n, k)) : Allocated(n, k)[m].at = <<n, k, m>>
<1> DEFINE found == Found(Regions[n], k)  nodes == Allocated(n, k)
<1>1. found \in Seq(Pairs)
  BY FoundPairs
<1>2. nodes = [m \in 1 .. Len(found) |-> [pair |-> found[m], at |-> <<n, k, m>>]]
  BY <1>1 DEF Allocated
<1> HIDE DEF found, nodes
<1>3. Len(found) \in Nat /\ \A m \in 1 .. Len(found) : found[m] \in Int \X Int
  BY <1>1 DEF Pairs
<1>4. ASSUME NEW m \in 1 .. Len(found)
      PROVE  [pair |-> found[m], at |-> <<n, k, m>>] \in AllNodes
  BY <1>3 DEF AllNodes
<1>5. nodes \in [1 .. Len(found) -> AllNodes]
  BY <1>2, <1>4
<1>6. nodes \in Seq(AllNodes) /\ Len(nodes) = Len(found)
  BY <1>3, <1>5, FunctionIsSeq
<1>7. \A m \in 1 .. Len(nodes) : nodes[m].at = <<n, k, m>>
  BY <1>2, <1>6
<1> QED BY <1>6, <1>7 DEF nodes

LEMMA RegionsListed ==
  ASSUME Len(layer_cell_record) \in Nat \ {0}
  PROVE  Len(Regions) \in Nat \ {0} /\ DOMAIN Regions = 1 .. Len(Regions)
<1> DEFINE n == TopLayer  S == [bottom : Int, top : Int]
           within == [l \in 1 .. n + 1 |-> Within(l - 1)]
           upwards == [l \in 1 .. n |-> Upwards(l)]
<1>1. n \in Nat
  BY DEF TopLayer
<1> HIDE DEF n
<1>2. within \in [1 .. n + 1 -> Seq(S)] /\ within[1] # <<>>
  <2>1. ASSUME NEW l \in 1 .. n + 1 PROVE Within(l - 1) \in Seq(S)
    BY <1>1 DEF Within
  <2>2. Within(0) # <<>>
    BY DEF Within
  <2>3. 1 \in 1 .. n + 1 /\ 1 - 1 = 0
    BY <1>1
  <2> QED BY <2>1, <2>2, <2>3
<1>3. upwards \in [1 .. n -> Seq(S)]
  <2>1. ASSUME NEW l \in 1 .. n PROVE Upwards(l) \in Seq(S)
    <3>1. /\ Between(l - 2, l) \in S /\ Between(l - 1, l + 1) \in S /\ Between(l - 1, l) \in S
      BY DEF Between
    <3>2. /\ <<Between(l - 2, l), Between(l - 1, l + 1)>> \in Seq(S)
          /\ <<Between(l - 1, l)>> \in Seq(S)
      BY <3>1
    <3> QED BY <3>2 DEF Upwards
  <2> QED BY <2>1
<1> HIDE DEF within, upwards, S
<1> DEFINE s == FlattenSeq(within)  t == FlattenSeq(upwards)
<1>4. s \in Seq(S) /\ s # <<>>
  <2>1. n + 1 \in Nat /\ n + 1 # 0
    BY <1>1
  <2> QED BY <1>2, <2>1, FlatIsSeq
<1>5. t \in Seq(S)
  BY <1>1, <1>3, FlatIsSeq
<1>6. Regions = s \o t
  BY DEF Regions, within, upwards, n
<1> HIDE DEF s, t
<1>7. s \o t \in Seq(S) /\ Len(s \o t) = Len(s) + Len(t)
  BY <1>4, <1>5, ConcatProperties
<1>8. Len(s) \in Nat \ {0} /\ Len(t) \in Nat
  BY <1>4, <1>5, EmptySeq
<1> QED BY <1>6, <1>7, <1>8

-----------------------------------------------------------------------------
(* Lists without repetition, and how they are put together.                *)

Has(s, x) == \E i \in 1 .. Len(s) : s[i] = x

Distinct(s) == \A i, j \in 1 .. Len(s) : s[i] = s[j] => i = j

Apart(s, t) == \A x : ~ (Has(s, x) /\ Has(t, x))

LEMMA JoinedLists ==
  ASSUME NEW S, NEW s \in Seq(S), NEW t \in Seq(S)
  PROVE  /\ s \o t \in Seq(S) /\ Len(s \o t) = Len(s) + Len(t)
         /\ \A x : Has(s \o t, x) <=> Has(s, x) \/ Has(t, x)
         /\ Distinct(s) /\ Distinct(t) /\ Apart(s, t) => Distinct(s \o t)
<1> DEFINE u == s \o t  m == Len(s)  n == Len(t)
<1>1. /\ u \in Seq(S) /\ Len(u) = m + n /\ m \in Nat /\ n \in Nat
      /\ \A i \in 1 .. m : u[i] = s[i]
      /\ \A i \in 1 .. n : u[m + i] = t[i]
  BY ConcatProperties
<1> HIDE DEF u, m, n
<1>2. ASSUME NEW i \in 1 .. m + n
      PROVE  \/ i \in 1 .. m /\ u[i] = s[i]
             \/ \E j \in 1 .. n : i = m + j /\ u[i] = t[j]
  <2>1. CASE i <= m
    <3>1. i \in 1 .. m
      BY <1>1, <2>1
    <3> QED BY <1>1, <3>1
  <2>2. CASE ~ (i <= m)
    <3>1. i - m \in 1 .. n /\ i = m + (i - m)
      BY <1>1, <2>2
    <3> QED BY <1>1, <3>1
  <2> QED BY <2>1, <2>2
<1>3. ASSUME NEW x PROVE Has(u, x) <=> Has(s, x) \/ Has(t, x)
  <2>1. ASSUME Has(u, x) PROVE Has(s, x) \/ Has(t, x)
    <3>1. PICK i \in 1 .. m + n : u[i] = x
      BY <1>1, <2>1 DEF Has
    <3> QED BY <1>2, <3>1 DEF Has, m, n
  <2>2. ASSUME Has(s, x) PROVE Has(u, x)
    <3>1. PICK i \in 1 .. m : s[i] = x
      BY <2>2 DEF Has, m
    <3>2. i \in 1 .. Len(u) /\ u[i] = x
      BY <1>1, <3>1
    <3> QED BY <3>2 DEF Has
  <2>3. ASSUME Has(t, x) PROVE Has(u, x)
    <3>1. PICK i \in 1 .. n : t[i] = x
      BY <2>3 DEF Has, n
    <3>2. m + i \in 1 .. Len(u) /\ u[m + i] = x
      BY <1>1, <3>1
    <3> QED BY <3>2 DEF Has
  <2> QED BY <2>1, <2>2, <2>3
<1>4. ASSUME Distinct(s), Distinct(t), Apart(s, t) PROVE Distinct(u)
  <2> SUFFICES ASSUME NEW i \in 1 .. Len(u), NEW j \in 1 .. Len(u), u[i] = u[j]
               PROVE  i = j
    BY DEF Distinct
  <2>0. i \in 1 .. m + n /\ j \in 1 .. m + n
    BY <1>1
  <2>1. CASE i \in 1 .. m /\ j \in 1 .. m
    <3>1. s[i] = s[j]
      BY <1>1, <2>1
    <3> QED BY <1>4, <2>1, <3>1 DEF Distinct, m
  <2>2. CASE i \notin 1 .. m /\ j \notin 1 .. m
    <3>1. PICK a \in 1 .. n : i = m + a /\ u[i] = t[a]
      BY <1>2, <2>0, <2>2
    <3>2. PICK b \in 1 .. n : j = m + b /\ u[j] = t[b]
      BY <1>2, <2>0, <2>2
    <3>3. a = b
      BY <1>4, <3>1, <3>2 DEF Distinct, n
    <3> QED BY <3>1, <3>2, <3>3
  <2>3. ASSUME NEW a \in 1 .. m, NEW b \in 1 .. n, s[a] = t[b] PROVE FALSE
    <3>1. Has(s, s[a]) /\ Has(t, s[a])
      BY <2>3 DEF Has, m, n
    <3> QED BY <1>4, <3>1 DEF Apart
  <2>4. CASE i \in 1 .. m /\ j \notin 1 .. m
    <3>1. PICK b \in 1 .. n : j = m + b /\ u[j] = t[b]
      BY <1>2, <2>0, <2>4
    <3>2. u[i] = s[i]
      BY <1>1, <2>4
    <3> QED BY <2>3, <2>4, <3>1, <3>2
  <2>5. CASE i \notin 1 .. m /\ j \in 1 .. m
    <3>1. PICK b \in 1 .. n : i = m + b /\ u[i] = t[b]
      BY <1>2, <2>0, <2>5
    <3>2. u[j] = s[j]
      BY <1>1, <2>5
    <3> QED BY <2>3, <2>5, <3>1, <3>2
  <2> QED BY <2>1, <2>2, <2>4, <2>5
<1> QED BY <1>1, <1>3, <1>4 DEF u, m, n

LEMMA FreshNodes ==
  ASSUME Len(cells) \in Nat, NEW n \in Int, NEW k \in Int
  PROVE  /\ Distinct(Allocated(n, k))
         /\ \A m \in Int, j \in Int :
              n # m \/ k # j => Apart(Allocated(n, k), Allocated(m, j))
<1>1. ASSUME NEW a \in Int, NEW b \in Int, NEW x, Has(Allocated(a, b), x)
      PROVE  x.at[1] = a /\ x.at[2] = b
  <2>1. PICK i \in 1 .. Len(Allocated(a, b)) : Allocated(a, b)[i] = x
    BY <1>1 DEF Has
  <2>2. x.at = <<a, b, i>>
    BY <2>1, AllocatedNodes
  <2> QED BY <2>2
<1>2. Distinct(Allocated(n, k))
  <2> DEFINE s == Allocated(n, k)
  <2>1. \A m \in 1 .. Len(s) : s[m].at = <<n, k, m>>
    BY AllocatedNodes
  <2> HIDE DEF s
  <2>2. ASSUME NEW i \in 1 .. Len(s), NEW j \in 1 .. Len(s), s[i] = s[j] PROVE i = j
    <3>1. <<n, k, i>> = <<n, k, j>>
      BY <2>1, <2>2
    <3> QED BY <3>1
  <2>3. Distinct(s)
    BY <2>2 DEF Distinct
  <2> QED BY <2>3 DEF s
<1>3. ASSUME NEW m \in Int, NEW j \in Int, n # m \/ k # j
      PROVE  Apart(Allocated(n, k), Allocated(m, j))
  BY <1>1, <1>3 DEF Apart
<1> QED BY <1>2, <1>3

-----------------------------------------------------------------------------
(* Linked lists: the links nx join the nodes of s one after the other.     *)

Chained(s, nx) ==
  /\ DOMAIN nx = {s[k] : k \in 1 .. Len(s) - 1}
  /\ \A k \in 1 .. Len(s) - 1 : nx[s[k]] = s[k + 1]

LEMMA ChainOfList ==
  ASSUME NEW S, NEW s \in Seq(S), Distinct(s)
  PROVE  Chained(s, Chain(s))
<1> DEFINE m == Len(s) - 1
<1>1. ASSUME NEW k \in 1 .. m PROVE Chain(s)[s[k]] = s[k + 1]
  <2>1. PICK c : c = CHOOSE j \in 1 .. m : s[j] = s[k]
    OBVIOUS
  <2>2. c \in 1 .. m /\ s[c] = s[k]
    BY <2>1
  <2>3. c \in 1 .. Len(s) /\ k \in 1 .. Len(s)
    BY <2>2
  <2>4. c = k
    BY <2>2, <2>3 DEF Distinct
  <2>5. Chain(s)[s[k]] = s[1 + c]
    BY <2>1 DEF Chain
  <2>6. 1 + c = k + 1
    BY <2>4
  <2> QED BY <2>5, <2>6
<1>2. DOMAIN Chain(s) = {s[k] : k \in 1 .. m}
  BY DEF Chain
<1> QED BY <1>1, <1>2 DEF Chained

Spliced(nx, ch, end, first) ==
  [x \in DOMAIN nx \cup DOMAIN ch \cup end |->
     IF x \in end THEN first ELSE IF x \in DOMAIN ch THEN ch[x] ELSE nx[x]]

LEMMA LinkedLists ==
  ASSUME NEW S, NEW s \in Seq(S), NEW t \in Seq(S), Len(t) # 0, Distinct(s \o t),
         NEW nx, NEW ch, Chained(s, nx), Chained(t, ch),
         NEW end, end = IF s = <<>> THEN {} ELSE {s[Len(s)]}
  PROVE  Chained(s \o t, Spliced(nx, ch, end, t[1]))
<1> DEFINE u == s \o t  m == Len(s)  n == Len(t)
           both == [x \in DOMAIN nx \cup DOMAIN ch \cup end |->
                      IF x \in end THEN t[1] ELSE IF x \in DOMAIN ch THEN ch[x] ELSE nx[x]]
<1>1. /\ Len(u) = m + n /\ m \in Nat /\ n \in Nat \ {0}
      /\ \A i \in 1 .. m : u[i] = s[i]
      /\ \A i \in 1 .. n : u[m + i] = t[i]
  BY ConcatProperties
<1>2. end = IF m = 0 THEN {} ELSE {s[m]}
  BY EmptySeq
<1>3. \A i, j \in 1 .. m + n : u[i] = u[j] => i = j
  BY <1>1 DEF Distinct
<1>4. /\ DOMAIN nx = {s[k] : k \in 1 .. m - 1} /\ \A k \in 1 .. m - 1 : nx[s[k]] = s[k + 1]
      /\ DOMAIN ch = {t[k] : k \in 1 .. n - 1} /\ \A k \in 1 .. n - 1 : ch[t[k]] = t[k + 1]
  BY DEF Chained
<1> HIDE DEF u, m, n
<1>5. ASSUME NEW k \in 1 .. (m + n) - 1
      PROVE  \/ k \in 1 .. m - 1
             \/ k = m /\ m # 0
             \/ \E j \in 1 .. n - 1 : k = m + j
  <2>1. CASE k < m
    BY <1>1, <2>1
  <2>2. CASE k = m
    BY <1>1, <2>2
  <2>3. CASE k > m
    <3>1. k - m \in 1 .. n - 1 /\ k = m + (k - m)
      BY <1>1, <2>3
    <3> QED BY <3>1
  <2> QED BY <1>1, <2>1, <2>2, <2>3
<1>6. ASSUME NEW k \in 1 .. m - 1
      PROVE  /\ k \in 1 .. (m + n) - 1 /\ u[k] = s[k] /\ u[k + 1] = s[k + 1]
             /\ s[k] \notin end /\ s[k] \notin DOMAIN ch
  <2>1. /\ k \in 1 .. m /\ k + 1 \in 1 .. m /\ k \in 1 .. (m + n) - 1 /\ k \in 1 .. m + n
        /\ m \in 1 .. m /\ m \in 1 .. m + n /\ k # m /\ m # 0
    BY <1>1
  <2>2. u[k] = s[k] /\ u[k + 1] = s[k + 1] /\ u[m] = s[m]
    BY <1>1, <2>1
  <2>3. s[k] # s[m]
    BY <1>3, <2>1, <2>2
  <2>4. ASSUME NEW j \in 1 .. n - 1, s[k] = t[j] PROVE FALSE
    <3>1. j \in 1 .. n /\ m + j \in 1 .. m + n /\ m + j # k
      BY <1>1
    <3>2. u[m + j] = t[j]
      BY <1>1, <3>1
    <3> QED BY <1>3, <2>1, <2>2, <2>4, <3>1, <3>2
  <2> QED BY <1>2, <1>4, <2>1, <2>2, <2>3, <2>4
<1>7. ASSUME m # 0
      PROVE  m \in 1 .. (m + n) - 1 /\ u[m] = s[m] /\ u[m + 1] = t[1] /\ s[m] \in end
  <2>1. m \in 1 .. m /\ 1 \in 1 .. n /\ m \in 1 .. (m + n) - 1
    BY <1>1, <1>7
  <2> QED BY <1>1, <1>2, <1>7, <2>1
<1>8. ASSUME NEW j \in 1 .. n - 1
      PROVE  /\ m + j \in 1 .. (m + n) - 1 /\ u[m + j] = t[j] /\ u[(m + j) + 1] = t[j + 1]
             /\ t[j] \notin end /\ t[j] \in DOMAIN ch
  <2>1. /\ j \in 1 .. n /\ j + 1 \in 1 .. n /\ m + j \in 1 .. (m + n) - 1 /\ m + j \in 1 .. m + n
        /\ (m + j) + 1 = m + (j + 1) /\ m + j # m
    BY <1>1
  <2>2. u[m + j] = t[j] /\ u[m + (j + 1)] = t[j + 1]
    BY <1>1, <2>1
  <2>3. m # 0 => t[j] # s[m]
    <3>1. m # 0 => m \in 1 .. m + n
      BY <1>1
    <3> QED BY <1>3, <1>7, <2>1, <2>2, <3>1
  <2> QED BY <1>2, <1>4, <2>1, <2>2, <2>3
<1>9. DOMAIN both = {u[k] : k \in 1 .. (m + n) - 1}
  <2>1. ASSUME NEW k \in 1 .. (m + n) - 1 PROVE u[k] \in DOMAIN both
    <3>1. CASE k \in 1 .. m - 1
      <4>1. s[k] \in DOMAIN nx /\ u[k] = s[k]
        BY <1>4, <1>6, <3>1
      <4> QED BY <4>1
    <3>2. CASE k = m /\ m # 0
      BY <1>7, <3>2
    <3>3. ASSUME NEW j \in 1 .. n - 1, k = m + j PROVE u[k] \in DOMAIN both
      <4>1. u[k] = t[j] /\ t[j] \in DOMAIN ch
        BY <1>8, <3>3
      <4> QED BY <4>1
    <3> QED BY <1>5, <3>1, <3>2, <3>3
  <2>2. ASSUME NEW x \in DOMAIN both PROVE \E k \in 1 .. (m + n) - 1 : u[k] = x
    <3>1. CASE x \in DOMAIN nx
      <4>1. PICK k \in 1 .. m - 1 : x = s[k]
        BY <1>4, <3>1
      <4> QED BY <1>6, <4>1
    <3>2. CASE x \in DOMAIN ch
      <4>1. PICK j \in 1 .. n - 1 : x = t[j]
        BY <1>4, <3>2
      <4> QED BY <1>8, <4>1
    <3>3. CASE x \in end
      BY <1>2, <1>7, <3>3
    <3> QED BY <3>1, <3>2, <3>3
  <2> HIDE DEF both
  <2> QED BY <2>1, <2>2
<1>10. ASSUME NEW k \in 1 .. (m + n) - 1 PROVE both[u[k]] = u[k + 1]
  <2>1. CASE k \in 1 .. m - 1
    <3>1. s[k] \in DOMAIN nx /\ nx[s[k]] = s[k + 1]
      BY <1>4, <2>1
    <3> QED BY <1>6, <2>1, <3>1
  <2>2. CASE k = m /\ m # 0
    BY <1>7, <2>2
  <2>3. ASSUME NEW j \in 1 .. n - 1, k = m + j PROVE both[u[k]] = u[k + 1]
    <3>1. ch[t[j]] = t[j + 1]
      BY <1>4
    <3> QED BY <1>8, <2>3, <3>1
  <2> QED BY <1>5, <2>1, <2>2, <2>3
<1> HIDE DEF both
<1>11. Chained(u, both)
  BY <1>1, <1>9, <1>10 DEF Chained
<1> QED BY <1>11, Zenon DEF u, both, Spliced

(* What a walk along the links from the first node comes by.               *)
Walk(f, n) ==
  f = [k \in 0 .. n |->
         IF k = 0 THEN <<list.First>>
         ELSE LET nodes == f[k - 1]
              IN  IF Last(nodes) \in DOMAIN next THEN Append(nodes, next[Last(nodes)]) ELSE nodes]

LEMMA NodesOfList ==
  ASSUME NEW S, NEW s \in Seq(S), Distinct(s), Chained(s, next), NULL \notin S,
         list.First = IF s = <<>> THEN NULL ELSE s[1]
  PROVE  Nodes = s
<1> DEFINE m == Len(s)  n == Cardinality(DOMAIN next)
<1>1. CASE s = <<>>
  BY <1>1 DEF Nodes
<1>2. CASE s # <<>>
  <2>1. m \in Nat \ {0} /\ 1 \in 1 .. m /\ s[1] \in S
    BY <1>2, EmptySeq
  <2>2. list.First # NULL /\ list.First = s[1]
    BY <1>2, <2>1
  <2>3. n = m - 1
    <3> DEFINE f == [k \in 1 .. m - 1 |-> s[k]]  T == {s[k] : k \in 1 .. m - 1}
    <3>1. f \in Surjection(1 .. m - 1, T)
      BY DEF Surjection
    <3>2. \A i, j \in 1 .. m - 1 : s[i] = s[j] => i = j
      BY <2>1 DEF Distinct
    <3>3. f \in Injection(1 .. m - 1, T)
      BY <3>2 DEF Injection, IsInjective
    <3>4. IsFiniteSet(1 .. m - 1) /\ Cardinality(1 .. m - 1) = m - 1
      <4>1. PICK b \in Int : b = m - 1 /\ b >= 0
        BY <2>1
      <4>2. PICK a \in Int : a = 1
        OBVIOUS
      <4>3. IsFiniteSet(a .. b) /\ Cardinality(a .. b) = IF a > b THEN 0 ELSE b - a + 1
        BY FS_Interval
      <4>4. (IF a > b THEN 0 ELSE b - a + 1) = m - 1
        BY <4>1, <4>2
      <4> QED BY <4>1, <4>2, <4>3, <4>4
    <3>5. T = DOMAIN next
      BY DEF Chained
    <3> HIDE DEF f, T
    <3>6. Cardinality(T) = Cardinality(1 .. m - 1)
      BY <3>1, <3>3, <3>4, FS_Surjection
    <3> QED BY <3>4, <3>5, <3>6
  <2> HIDE DEF m, n
  <2> DEFINE g == [k \in 0 .. n |-> [i \in 1 .. k + 1 |-> s[i]]]
  <2>4. ASSUME NEW k \in 0 .. n
        PROVE  /\ g[k] \in Seq(S) /\ Len(g[k]) = k + 1 /\ Last(g[k]) = s[k + 1]
               /\ \A i \in 1 .. k + 1 : g[k][i] = s[i]
    <3>1. k + 1 \in Nat /\ \A i \in 1 .. k + 1 : i \in 1 .. m
      BY <2>1, <2>3
    <3>2. g[k] = [i \in 1 .. k + 1 |-> s[i]]
      OBVIOUS
    <3> HIDE DEF g
    <3>3. g[k] \in [1 .. k + 1 -> S]
      BY <3>1, <3>2 DEF m
    <3>4. g[k] \in Seq(S) /\ Len(g[k]) = k + 1
      BY <3>1, <3>3, FunctionIsSeq
    <3>5. k + 1 \in 1 .. k + 1
      BY <3>1
    <3> QED BY <3>2, <3>4, <3>5 DEF Last
  <2>5. g[0] = <<list.First>>
    <3>1. 0 \in 0 .. n /\ 0 + 1 = 1 /\ 1 \in 1 .. 1
      BY <2>1, <2>3
    <3>2. g[0] \in Seq(S) /\ Len(g[0]) = 1 /\ g[0][1] = s[1]
      BY <2>4, <3>1
    <3> HIDE DEF g
    <3> QED BY <2>2, <3>2
  <2>6. ASSUME NEW k \in 1 .. n
        PROVE  /\ k - 1 \in 0 .. n /\ Last(g[k - 1]) \in DOMAIN next
               /\ g[k] = Append(g[k - 1], next[Last(g[k - 1])])
    <3>1. k \in 1 .. m - 1 /\ k - 1 \in 0 .. n /\ k \in 0 .. n /\ (k - 1) + 1 = k /\ k \in Nat
      BY <2>1, <2>3
    <3>2. /\ Len(g[k - 1]) = k /\ g[k - 1] \in Seq(S) /\ Last(g[k - 1]) = s[k]
          /\ \A i \in 1 .. k : g[k - 1][i] = s[i]
      BY <2>4, <3>1
    <3>3. s[k] \in DOMAIN next /\ next[s[k]] = s[k + 1]
      BY <3>1 DEF Chained, m
    <3>4. k + 1 \in 1 .. m
      BY <2>1, <3>1
    <3>5. s[k + 1] \in S
      BY <3>4 DEF m
    <3>6. g[k] \in Seq(S) /\ Len(g[k]) = k + 1 /\ \A i \in 1 .. k + 1 : g[k][i] = s[i]
      BY <2>4, <3>1
    <3> HIDE DEF g
    <3> DEFINE a == Append(g[k - 1], s[k + 1])
    <3>7. /\ a \in Seq(S) /\ Len(a) = k + 1 /\ a[k + 1] = s[k + 1]
          /\ \A i \in 1 .. k : a[i] = g[k - 1][i]
      <4>1. PICK r \in Seq(S) : r = g[k - 1]
        BY <3>2
      <4>2. PICK x \in S : x = s[k + 1]
        BY <3>5
      <4>3. /\ Append(r, x) \in Seq(S) /\ Len(Append(r, x)) = Len(r) + 1
            /\ \A i \in 1 .. Len(r) : Append(r, x)[i] = r[i]
            /\ Append(r, x)[Len(r) + 1] = x
        BY AppendProperties
      <4>4. Len(r) = k /\ a = Append(r, x)
        BY <3>2, <4>1, <4>2
      <4> HIDE DEF a
      <4> QED BY <4>1, <4>2, <4>3, <4>4
    <3> HIDE DEF a
    <3>8. \A i \in 1 .. k + 1 : a[i] = g[k][i]
      <4>1. ASSUME NEW i \in 1 .. k + 1 PROVE i = k + 1 \/ i \in 1 .. k
        BY <3>1
      <4>2. k + 1 \in 1 .. k + 1
        BY <3>1
      <4> QED BY <3>2, <3>6, <3>7, <4>1, <4>2
    <3>9. a = g[k]
      BY <3>6, <3>7, <3>8, SeqEqual
    <3> QED BY <3>1, <3>2, <3>3, <3>9 DEF a
  <2>7. Walk(g, n)
    <3> DEFINE h(k) == IF k = 0 THEN <<list.First>>
                       ELSE LET nodes == g[k - 1]
                            IN  IF Last(nodes) \in DOMAIN next
                                THEN Append(nodes, next[Last(nodes)]) ELSE nodes
    <3>1. ASSUME NEW k \in 0 .. n PROVE g[k] = h(k)
      <4>1. CASE k = 0
        BY <2>5, <4>1
      <4>2. CASE k # 0
        <5>1. k \in 1 .. n
          BY <2>1, <2>3, <4>2
        <5> HIDE DEF g
        <5> QED BY <2>6, <4>2, <5>1
      <4> QED BY <4>1, <4>2
    <3>2. g = [k \in 0 .. n |-> g[k]]
      OBVIOUS
    <3> HIDE DEF g
    <3>3. g = [k \in 0 .. n |-> h(k)]
      BY <3>1, <3>2
    <3> QED BY <3>3 DEF Walk
  <2> DEFINE f == CHOOSE f : Walk(f, n)
  <2>8. Walk(f, n)
    <3> HIDE DEF g
    <3> QED BY <2>7
  <2>9. Nodes = f[n]
    BY <2>2 DEF Nodes, Walk, n
  <2> HIDE DEF f, g
  <2> DEFINE T == {k \in Nat : k \in 0 .. n => f[k] = g[k]}
  <2>10. \A k \in Nat : k \in T
    <3>1. 0 \in T
      <4>1. 0 \in 0 .. n
        BY <2>1, <2>3
      <4>2. f[0] = <<list.First>>
        BY <2>8, <4>1 DEF Walk
      <4> QED BY <2>5, <4>2
    <3>2. ASSUME NEW k \in Nat, k \in T PROVE k + 1 \in T
      <4> SUFFICES ASSUME k + 1 \in 0 .. n PROVE f[k + 1] = g[k + 1]
        OBVIOUS
      <4>1. k + 1 \in 1 .. n /\ (k + 1) - 1 = k /\ k \in 0 .. n /\ k + 1 # 0
        BY <2>1, <2>3
      <4>2. f[k] = g[k]
        BY <3>2, <4>1
      <4>3. f[k + 1] = LET nodes == f[k]
                       IN  IF Last(nodes) \in DOMAIN next
                           THEN Append(nodes, next[Last(nodes)]) ELSE nodes
        BY <2>8, <4>1 DEF Walk
      <4>4. Last(g[k]) \in DOMAIN next /\ g[k + 1] = Append(g[k], next[Last(g[k])])
        BY <2>6, <4>1
      <4> QED BY <4>2, <4>3, <4>4
    <3> HIDE DEF T
    <3> QED BY <3>1, <3>2, Induction
  <2>11. n \in Nat /\ n \in 0 .. n /\ n + 1 = m
    BY <2>1, <2>3
  <2>12. f[n] = g[n]
    BY <2>10, <2>11
  <2>13. g[n] \in Seq(S) /\ Len(g[n]) = m /\ \A i \in 1 .. m : g[n][i] = s[i]
    BY <2>4, <2>11 DEF g
  <2>14. g[n] = s
    BY <2>13, SeqEqual DEF m
  <2> QED BY <2>9, <2>12, <2>14
<1> QED BY <1>1, <1>2

-----------------------------------------------------------------------------
(* The search leaves alone what decides on what it finds.                  *)

gridData == <<declared, cells, layer_cell_record, layer_type_record>>

LEMMA SameSearch ==
  ASSUME UNCHANGED gridData, NEW n, NEW k
  PROVE  /\ Regions' = Regions /\ Threads' = Threads
         /\ Parts(Regions[n])' = Parts(Regions[n])
         /\ Allocated(n, k)' = Allocated(n, k)
<1>1. /\ declared' = declared /\ cells' = cells /\ layer_cell_record' = layer_cell_record
      /\ layer_type_record' = layer_type_record
  BY DEF gridData
<1>2. \A l : CellsOfLayer(l)' = CellsOfLayer(l) /\ LayerType(l)' = LayerType(l)
  BY <1>1 DEF CellsOfLayer, LayerType
<1>3. Regions' = Regions
  BY <1>1 DEF Regions, TopLayer, Upwards, LayerType
<1>4. Threads' = Threads
  BY <1>1 DEF Threads
<1>5. Parts(Regions[n])' = Parts(Regions[n])
  BY <1>1, <1>3, <1>4 DEF Parts, IsWithin, CellsOfLayer
<1>6. \A i, j : /\ Touch(i, j)' = Touch(i, j) /\ Overlap(i, j)' = Overlap(i, j)
                /\ Direction(i, j)' = Direction(i, j)
  BY <1>1 DEF Touch, Overlap, Direction, Diff, CellAt
<1>7. CellsOfPart(Regions[n], k)' = CellsOfPart(Regions[n], k)
  BY <1>1, <1>3 DEF CellsOfPart, IsWithin, CellsOfLayer
<1>8. \A i, j : Connected(Regions[n], i, j)' = Connected(Regions[n], i, j)
  BY <1>1, <1>3, <1>6 DEF Connected, IsWithin, LayerType
<1>9. \A i : Partners(Regions[n], i)' = Partners(Regions[n], i)
  BY <1>1, <1>3, <1>8 DEF Partners, IsWithin, CellsOfLayer
<1>10. Found(Regions[n], k)' = Found(Regions[n], k)
  <2> DEFINE row(i) == [m \in 1 .. Len(cells) |->
                          IF m - 1 \in Partners(Regions[n], i) THEN <<<<i, m - 1>>>> ELSE <<>>]
             part == [m \in 1 .. Len(cells) |-> IF m - 1 \in CellsOfPart(Regions[n], k)
                                               THEN FlattenSeq(row(m - 1)) ELSE <<>>]
  <2>1. \A i : row(i)' = row(i)
    BY <1>1, <1>9
  <2>2. \A i : FlattenSeq(row(i))' = FlattenSeq(row(i))
    BY <2>1
  <2> HIDE DEF row
  <2>3. part' = part
    BY <1>1, <1>7, <2>2
  <2> HIDE DEF part
  <2>4. FlattenSeq(part)' = FlattenSeq(part)
    BY <2>3
  <2>5. Found(Regions[n], k) = FlattenSeq(part) /\ Found(Regions[n], k)' = FlattenSeq(part)'
    BY DEF Found, InOrder, part, row
  <2> QED BY <2>4, <2>5
<1>11. Allocated(n, k)' = Allocated(n, k)
  BY <1>10 DEF Allocated
<1> QED BY <1>3, <1>4, <1>5, <1>11

LEMMA PartNumbers ==
  ASSUME NEW r, NEW k \in Parts(r)
  PROVE  k \in Int
BY DEF Parts, Threads

-----------------------------------------------------------------------------
(* The inductive invariant of the search.  Some sequence s has the nodes   *)
(* of the shared list in the order of the links; while a thread t is in    *)
(* the middle of connection_list_merge, those of its local list are at the *)
(* end of s, but not yet counted.  What the parts that were taken have     *)
(* found is on s or on a local list, and once.                             *)

Done(n, k) ==
  \/ n \in 1 .. region - 1 /\ k \in Parts(Regions[n])
  \/ n = region /\ k \in given

EndOf(s) == IF s = <<>> THEN NULL ELSE s[Len(s)]

ListIs(s, before) ==
  list = [First |-> IF s = <<>> THEN NULL ELSE s[1], Last |-> EndOf(before), Size |-> Len(before)]

Appending(s, t, before) ==
  /\ t \in Threads /\ merging = {t} /\ given = Parts(Region)
  /\ before \in Seq(AllNodes) /\ local[t] # <<>> /\ s = before \o local[t]
  /\ ListIs(s, before)

ListKept(s) ==
  /\ s \in Seq(AllNodes) /\ Distinct(s) /\ Chained(s, next)
  /\ \/ merging = {} /\ ListIs(s, s)
     \/ \E t, before : Appending(s, t, before)

LocalsKept(s) ==
  /\ local \in [Threads -> Seq(AllNodes)]
  /\ \A t \in Threads : Distinct(local[t]) /\ (t \notin merging => Apart(local[t], s))
  /\ \A t, u \in Threads : t # u => Apart(local[t], local[u])

Held(s, x) == Has(s, x) \/ \E t \in Threads : Has(local[t], x)

FoundSoFar(x) == \E n, k \in Int : Done(n, k) /\ Has(Allocated(n, k), x)

NothingMissing(s) == \A x : Held(s, x) <=> FoundSoFar(x)

Searching ==
  /\ region \in DOMAIN Regions /\ given \subseteq Parts(Region)
  /\ \E s : ListKept(s) /\ LocalsKept(s) /\ NothingMissing(s)

GridKnown == Len(cells) \in Nat /\ Len(layer_cell_record) \in Nat \ {0}

EmptyLists ==
  /\ list = [First |-> NULL, Last |-> NULL, Size |-> 0] /\ next = [n \in {} |-> NULL]
  /\ given = {} /\ merging = {}

SearchKept ==
  /\ declared \in Stacks /\ stack \in Seq(Elements)
  /\ phase \in {"parsing", "parsed"} => EmptyLists
  /\ phase = "parsed" => stack # <<>>
  /\ phase \in {"connecting", "connected"} => GridKnown
  /\ phase = "connecting" => Searching
  /\ NoConnectionLost

-----------------------------------------------------------------------------
(* The steps of the threads.                                               *)

LEMMA SearchFacts ==
  ASSUME GridKnown, Searching
  PROVE  /\ region \in Int /\ region >= 1 /\ DOMAIN Regions = 1 .. Len(Regions)
         /\ Len(Regions) \in Nat /\ region <= Len(Regions)
         /\ \A k \in Parts(Region) : k \in Int
         /\ given \subseteq Parts(Region)
<1>1. DOMAIN Regions = 1 .. Len(Regions) /\ Len(Regions) \in Nat
  BY RegionsListed DEF GridKnown
<1>2. region \in DOMAIN Regions /\ given \subseteq Parts(Region)
  BY DEF Searching
<1> QED BY <1>1, <1>2, PartNumbers

LEMMA SameParts ==
  ASSUME UNCHANGED gridData
  PROVE  /\ Regions' = Regions /\ Threads' = Threads
         /\ \A n, k : Parts(Regions[n])' = Parts(Regions[n]) /\ Allocated(n, k)' = Allocated(n, k)
         /\ region' = region => Parts(Region)' = Parts(Region)
         /\ GridKnown' = GridKnown
<1>1. Regions' = Regions /\ Threads' = Threads
  BY SameSearch
<1>2. \A n, k : Parts(Regions[n])' = Parts(Regions[n]) /\ Allocated(n, k)' = Allocated(n, k)
  BY SameSearch
<1>3. ASSUME region' = region PROVE Parts(Region)' = Parts(Region)
  <2>1. PICK n : n = region
    OBVIOUS
  <2>2. Parts(Regions[n])' = Parts(Regions[n])
    BY <1>2
  <2>3. Region = Regions[n] /\ Region' = Regions'[n]
    BY <1>3, <2>1 DEF Region
  <2> QED BY <1>1, <2>2, <2>3 DEF Parts, IsWithin, CellsOfLayer
<1>4. GridKnown' = GridKnown
  BY DEF GridKnown, gridData
<1> QED BY <1>1, <1>2, <1>3, <1>4

LEMMA SearchStep ==
  ASSUME GridKnown, Searching, NEW t, Search(t)
  PROVE  Searching'
<1>1. PICK k \in MayTake(t) : /\ local' = [local EXCEPT ![t] = @ \o Allocated(region, k)]
                              /\ given' = given \cup {k}
  BY DEF Search
<1>2. PICK s : ListKept(s) /\ LocalsKept(s) /\ NothingMissing(s)
  BY DEF Searching
<1>3. /\ t \in Threads /\ region' = region /\ merging' = merging /\ list' = list /\ next' = next
      /\ UNCHANGED gridData
  BY DEF Search, ListUnchanged, gridData, parserVars
<1>4. /\ region \in Int /\ region \in DOMAIN Regions /\ given \subseteq Parts(Region)
      /\ Len(cells) \in Nat
  BY SearchFacts DEF Searching, GridKnown
<1>5. k \in Parts(Region) /\ k \notin given /\ k \in Int
  <2>1. k \in Parts(Region) /\ k \notin given
    BY <1>3 DEF MayTake, Parts
  <2> QED BY <2>1, PartNumbers
<1>6. merging = {} /\ ListIs(s, s)
  <2>1. given # Parts(Region)
    BY <1>5
  <2> QED BY <1>2, <2>1 DEF ListKept, Appending
<1>7. /\ Regions' = Regions /\ Threads' = Threads /\ Parts(Region)' = Parts(Region)
      /\ \A n, j : Parts(Regions[n])' = Parts(Regions[n]) /\ Allocated(n, j)' = Allocated(n, j)
  BY <1>3, SameParts
<1>8. PICK more : more = Allocated(region, k)
  OBVIOUS
<1>9. more \in Seq(AllNodes) /\ Distinct(more)
  BY <1>4, <1>5, <1>8, AllocatedNodes, FreshNodes
<1>10. ASSUME NEW x, Has(more, x) PROVE ~ FoundSoFar(x)
  <2> SUFFICES ASSUME NEW n \in Int, NEW j \in Int, Done(n, j), Has(Allocated(n, j), x)
               PROVE  FALSE
    BY DEF FoundSoFar
  <2>1. n = region /\ k = j
    BY <1>4, <1>5, <1>8, <1>10, FreshNodes DEF Apart
  <2>2. n \notin 1 .. region - 1
    BY <1>4, <2>1
  <2> QED BY <1>5, <2>1, <2>2 DEF Done
<1>11. /\ Apart(more, s) /\ \A u \in Threads : Apart(more, local[u])
  BY <1>2, <1>10 DEF NothingMissing, Held, Apart
<1>12. /\ local \in [Threads -> Seq(AllNodes)]
       /\ \A u \in Threads : Distinct(local[u]) /\ Apart(local[u], s)
       /\ \A u, v \in Threads : u # v => Apart(local[u], local[v])
  BY <1>2, <1>6 DEF LocalsKept
<1>13. PICK mine \in Seq(AllNodes) : mine = local[t]
  BY <1>3, <1>12
<1>14. /\ mine \o more \in Seq(AllNodes)
       /\ \A x : Has(mine \o more, x) <=> Has(mine, x) \/ Has(more, x)
       /\ Distinct(mine) /\ Distinct(more) /\ Apart(mine, more) => Distinct(mine \o more)
  BY <1>9, JoinedLists
<1>15. Distinct(mine \o more)
  BY <1>3, <1>9, <1>11, <1>12, <1>13, <1>14 DEF Apart
<1>16. local'[t] = mine \o more /\ \A u \in Threads \ {t} : local'[u] = local[u]
  BY <1>1, <1>3, <1>8, <1>12, <1>13
<1>17. local' \in [Threads -> Seq(AllNodes)]
  BY <1>1, <1>3, <1>8, <1>12, <1>13, <1>14
<1>18. ListKept(s)'
  <2>1. s \in Seq(AllNodes) /\ Distinct(s) /\ Chained(s, next)
    BY <1>2 DEF ListKept
  <2>2. ListIs(s, s)'
    BY <1>3, <1>6 DEF ListIs
  <2> QED BY <1>3, <1>6, <2>1, <2>2 DEF ListKept
<1>19. LocalsKept(s)'
  <2>1. ASSUME NEW u \in Threads PROVE Distinct(local'[u]) /\ Apart(local'[u], s)
    <3>1. CASE u = t
      BY <1>3, <1>11, <1>12, <1>13, <1>14, <1>15, <1>16, <3>1 DEF Apart
    <3>2. CASE u # t
      BY <1>12, <1>16, <3>2
    <3> QED BY <3>1, <3>2
  <2>2. ASSUME NEW u \in Threads, NEW v \in Threads, u # v PROVE Apart(local'[u], local'[v])
    <3>1. CASE u # t /\ v # t
      BY <1>12, <1>16, <2>2, <3>1
    <3>2. CASE u = t
      <4>1. Apart(mine, local[v]) /\ Apart(more, local[v])
        BY <1>11, <1>12, <1>13, <2>2, <3>2
      <4>2. local'[v] = local[v]
        BY <1>16, <2>2, <3>2
      <4> QED BY <1>14, <1>16, <3>2, <4>1, <4>2 DEF Apart
    <3>3. CASE v = t
      <4>1. Apart(mine, local[u]) /\ Apart(more, local[u])
        BY <1>11, <1>12, <1>13, <2>2, <3>3 DEF Apart
      <4>2. local'[u] = local[u]
        BY <1>16, <2>2, <3>3
      <4> QED BY <1>14, <1>16, <3>3, <4>1, <4>2 DEF Apart
    <3> QED BY <3>1, <3>2, <3>3
  <2> QED BY <1>7, <1>17, <2>1, <2>2 DEF LocalsKept
<1>20. NothingMissing(s)'
  <2>1. ASSUME NEW x PROVE Held(s, x)' <=> Held(s, x) \/ Has(more, x)
    <3>1. ASSUME NEW u \in Threads
          PROVE  Has(local'[u], x) <=> Has(local[u], x) \/ (u = t /\ Has(more, x))
      <4>1. CASE u = t
        BY <1>13, <1>14, <1>16, <4>1
      <4>2. CASE u # t
        BY <1>16, <4>2
      <4> QED BY <4>1, <4>2
    <3>2. Held(s, x)' <=> Has(s, x) \/ \E u \in Threads : Has(local'[u], x)
      BY <1>7 DEF Held
    <3> QED BY <1>3, <3>1, <3>2 DEF Held
  <2>2. ASSUME NEW x PROVE FoundSoFar(x)' <=> FoundSoFar(x) \/ Has(more, x)
    <3>1. ASSUME NEW n \in Int, NEW j \in Int
          PROVE  Done(n, j)' <=> Done(n, j) \/ (n = region /\ j = k)
      BY <1>1, <1>3, <1>7 DEF Done
    <3>2. FoundSoFar(x)' <=> \E n, j \in Int : Done(n, j)' /\ Has(Allocated(n, j), x)
      BY <1>7 DEF FoundSoFar
    <3> QED BY <1>4, <1>5, <1>8, <3>1, <3>2 DEF FoundSoFar
  <2>3. \A x : Held(s, x) <=> FoundSoFar(x)
    BY <1>2 DEF NothingMissing
  <2> QED BY <2>1, <2>2, <2>3 DEF NothingMissing
<1>21. region' \in DOMAIN Regions' /\ given' \subseteq Parts(Region)'
  BY <1>1, <1>3, <1>4, <1>5, <1>7
<1> QED BY <1>18, <1>19, <1>20, <1>21 DEF Searching

(* The first node tells an empty list from another one.                    *)
LEMMA NodesAreNotNull == NULL \notin AllNodes
<1> SUFFICES ASSUME NEW n \in AllNodes, n = NULL PROVE FALSE
  OBVIOUS
<1>1. DOMAIN n = {"pair", "at"}
  BY DEF AllNodes
<1>2. DOMAIN n = {}
  BY EmptySeq DEF NULL
<1> QED BY <1>1, <1>2

LEMMA LinkStep ==
  ASSUME GridKnown, Searching, NEW t, Link(t)
  PROVE  Searching'
<1>1. PICK s : ListKept(s) /\ LocalsKept(s) /\ NothingMissing(s)
  BY DEF Searching
<1>2. /\ t \in Threads /\ given = Parts(Region) /\ local[t] # <<>>
      /\ merging = {} /\ merging' = {t}
      /\ region' = region /\ given' = given /\ local' = local /\ UNCHANGED gridData
  BY DEF Link, AtMerge, MayEnter, gridData, parserVars
<1>3. ListIs(s, s) /\ s \in Seq(AllNodes) /\ Distinct(s) /\ Chained(s, next)
  BY <1>1, <1>2 DEF ListKept, Appending
<1>4. /\ local \in [Threads -> Seq(AllNodes)]
      /\ \A u \in Threads : Distinct(local[u]) /\ Apart(local[u], s)
      /\ \A u, v \in Threads : u # v => Apart(local[u], local[v])
  BY <1>1, <1>2 DEF LocalsKept
<1>5. PICK mine \in Seq(AllNodes) : mine = local[t]
  BY <1>2, <1>4
<1>6. Len(mine) # 0 /\ Head(mine) = mine[1] /\ Distinct(mine)
  BY <1>2, <1>4, <1>5, EmptySeq
<1>7. PICK all : all = s \o mine
  OBVIOUS
<1>8. /\ all \in Seq(AllNodes) /\ Len(all) = Len(s) + Len(mine)
      /\ \A x : Has(all, x) <=> Has(s, x) \/ Has(mine, x)
      /\ Distinct(all)
  <2>1. Apart(s, mine)
    BY <1>2, <1>4, <1>5 DEF Apart
  <2> QED BY <1>3, <1>6, <1>7, <2>1, JoinedLists
<1>9. PICK end : end = IF s = <<>> THEN {} ELSE {s[Len(s)]}
  OBVIOUS
<1>10. s = <<>> <=> list.First = NULL
  <2>1. ASSUME s # <<>> PROVE s[1] \in AllNodes
    BY <1>3, <2>1, EmptySeq
  <2> QED BY <1>3, <2>1, NodesAreNotNull DEF ListIs
<1>11. end = IF list.First = NULL THEN {} ELSE {list.Last}
  BY <1>3, <1>9, <1>10 DEF ListIs, EndOf
<1>12. Chained(mine, Chain(mine))
  BY <1>6, ChainOfList
<1>13. next' = [n \in DOMAIN next \cup DOMAIN Chain(mine) \cup end |->
                  IF n \in end THEN mine[1]
                  ELSE IF n \in DOMAIN Chain(mine) THEN Chain(mine)[n] ELSE next[n]]
  BY <1>5, <1>6, <1>11 DEF Link
<1>14. Chained(all, next')
  <2>1. PICK ch : ch = Chain(mine)
    OBVIOUS
  <2>2. PICK nx : nx = next
    OBVIOUS
  <2>3. Chained(s, nx) /\ Chained(mine, ch)
    BY <1>3, <1>12, <2>1, <2>2
  <2>4. Distinct(s \o mine)
    BY <1>7, <1>8
  <2>5. Chained(s \o mine, Spliced(nx, ch, end, mine[1]))
    <3>1. PICK S : S = AllNodes
      OBVIOUS
    <3>2. s \in Seq(S) /\ mine \in Seq(S) /\ Len(mine) # 0
      BY <1>3, <1>5, <1>6, <3>1
    <3>3. end = IF s = <<>> THEN {} ELSE {s[Len(s)]}
      BY <1>9
    <3> HIDE DEF Distinct, Chained
    <3> QED BY <2>3, <2>4, <3>2, <3>3, LinkedLists
  <2>6. next' = Spliced(nx, ch, end, mine[1])
    BY <1>13, <2>1, <2>2 DEF Spliced
  <2> QED BY <1>7, <2>5, <2>6
<1>15. list' = [First |-> all[1], Last |-> EndOf(s), Size |-> Len(s)] /\ all # <<>>
  <2>1. /\ list = [First |-> IF s = <<>> THEN NULL ELSE s[1], Last |-> EndOf(s), Size |-> Len(s)]
        /\ list' = IF list.First = NULL THEN [list EXCEPT !.First = mine[1]] ELSE list
    BY <1>3, <1>5, <1>6 DEF ListIs, Link
  <2>2. Len(s) \in Nat /\ Len(mine) \in Nat
    BY <1>3
  <2>3. all # <<>>
    BY <1>6, <1>8, <2>2, EmptySeq
  <2>4. CASE s = <<>>
    <3>1. 0 + 1 = 1 /\ 1 \in 1 .. Len(mine) /\ Len(s) = 0
      BY <1>6, <2>2, <2>4, EmptySeq
    <3>2. all[1] = mine[1]
      <4>1. all[Len(s) + 1] = mine[1]
        BY <1>3, <1>7, <3>1, ConcatProperties
      <4> QED BY <3>1, <4>1
    <3> QED BY <1>10, <2>1, <2>3, <2>4, <3>2
  <2>5. CASE s # <<>>
    <3>1. 1 \in 1 .. Len(s)
      BY <1>3, <2>5, EmptySeq
    <3>2. all[1] = s[1]
      BY <1>3, <1>7, <3>1, ConcatProperties
    <3> QED BY <1>10, <2>1, <2>3, <2>5, <3>2
  <2> QED BY <2>4, <2>5
<1>16. /\ Regions' = Regions /\ Threads' = Threads /\ Parts(Region)' = Parts(Region)
       /\ \A n, j : Parts(Regions[n])' = Parts(Regions[n]) /\ Allocated(n, j)' = Allocated(n, j)
  BY <1>2, SameParts
<1>17. ListKept(all)'
  <2>1. ListIs(all, s)'
    BY <1>15 DEF ListIs
  <2>2. Appending(all, t, s)'
    BY <1>2, <1>3, <1>5, <1>7, <1>16, <2>1 DEF Appending
  <2> QED BY <1>8, <1>14, <2>2 DEF ListKept
<1>18. LocalsKept(all)'
  <2>1. ASSUME NEW u \in Threads, u # t PROVE Apart(local[u], all)
    <3>1. Apart(local[u], s) /\ Apart(local[u], mine)
      BY <1>2, <1>4, <1>5, <2>1
    <3> QED BY <1>8, <3>1 DEF Apart
  <2> QED BY <1>2, <1>4, <1>16, <2>1 DEF LocalsKept
<1>19. NothingMissing(all)'
  <2>1. ASSUME NEW x PROVE Held(all, x)' <=> Held(s, x)
    <3>1. Held(all, x)' <=> Has(all, x) \/ \E u \in Threads : Has(local[u], x)
      BY <1>2, <1>16 DEF Held
    <3>2. Has(all, x) <=> Has(s, x) \/ Has(local[t], x)
      BY <1>5, <1>8
    <3> QED BY <1>2, <3>1, <3>2 DEF Held
  <2>2. ASSUME NEW x PROVE FoundSoFar(x)' <=> FoundSoFar(x)
    BY <1>2, <1>16 DEF FoundSoFar, Done
  <2> QED BY <1>1, <2>1, <2>2 DEF NothingMissing
<1>20. region' \in DOMAIN Regions' /\ given' \subseteq Parts(Region)'
  BY <1>2, <1>16 DEF Searching
<1> QED BY <1>17, <1>18, <1>19, <1>20 DEF Searching

LEMMA CloseStep ==
  ASSUME GridKnown, Searching, NEW t, Close(t)
  PROVE  Searching'
<1>1. PICK s : ListKept(s) /\ LocalsKept(s) /\ NothingMissing(s)
  BY DEF Searching
<1>2. /\ t \in merging /\ merging' = merging \ {t}
      /\ list' = [list EXCEPT !.Last = Last(local[t]), !.Size = @ + Len(local[t])]
      /\ local' = [local EXCEPT ![t] = <<>>]
      /\ region' = region /\ given' = given /\ next' = next /\ UNCHANGED gridData
  BY DEF Close, gridData, parserVars
<1>3. PICK before : Appending(s, t, before)
  BY <1>1, <1>2 DEF ListKept, Appending
<1>4. /\ t \in Threads /\ merging = {t} /\ before \in Seq(AllNodes) /\ s = before \o local[t]
      /\ local[t] # <<>> /\ ListIs(s, before)
  BY <1>3 DEF Appending
<1>5. /\ local \in [Threads -> Seq(AllNodes)]
      /\ \A u \in Threads : Distinct(local[u]) /\ (u # t => Apart(local[u], s))
      /\ \A u, v \in Threads : u # v => Apart(local[u], local[v])
  BY <1>1, <1>4 DEF LocalsKept
<1>6. PICK mine \in Seq(AllNodes) : mine = local[t]
  BY <1>4, <1>5
<1>7. /\ Len(s) = Len(before) + Len(mine) /\ s[Len(s)] = mine[Len(mine)] /\ s # <<>>
      /\ Len(mine) \in Nat \ {0}
      /\ \A x : Has(mine, x) => Has(s, x)
  <2>1. Len(mine) \in Nat \ {0} /\ Len(before) \in Nat
    BY <1>4, <1>6, EmptySeq
  <2>2. Len(s) = Len(before) + Len(mine) /\ \A x : Has(s, x) <=> Has(before, x) \/ Has(mine, x)
    BY <1>4, <1>6, JoinedLists
  <2>3. Len(mine) \in 1 .. Len(mine)
    BY <2>1
  <2>4. s[Len(before) + Len(mine)] = mine[Len(mine)]
    BY <1>4, <1>6, <2>3, ConcatProperties
  <2>5. s # <<>>
    BY <2>1, <2>2, EmptySeq
  <2> QED BY <2>1, <2>2, <2>4, <2>5
<1>8. ListIs(s, s)'
  <2>1. list = [First |-> s[1], Last |-> EndOf(before), Size |-> Len(before)]
    BY <1>4, <1>7 DEF ListIs
  <2>2. list' = [First |-> s[1], Last |-> mine[Len(mine)], Size |-> Len(before) + Len(mine)]
    BY <1>2, <1>6, <2>1 DEF Last
  <2> QED BY <1>7, <2>2 DEF ListIs, EndOf
<1>9. local'[t] = <<>> /\ \A u \in Threads \ {t} : local'[u] = local[u]
  BY <1>2, <1>4, <1>5
<1>10. local' \in [Threads -> Seq(AllNodes)]
  BY <1>2, <1>4, <1>5
<1>11. /\ Distinct(<<>>) /\ \A x : ~ Has(<<>>, x)
  <2>1. Len(<<>>) = 0
    BY EmptySeq
  <2> QED BY <2>1 DEF Distinct, Has
<1>12. /\ Regions' = Regions /\ Threads' = Threads /\ Parts(Region)' = Parts(Region)
       /\ \A n, j : Parts(Regions[n])' = Parts(Regions[n]) /\ Allocated(n, j)' = Allocated(n, j)
  BY <1>2, SameParts
<1>13. ListKept(s)'
  <2>1. s \in Seq(AllNodes) /\ Distinct(s) /\ Chained(s, next)
    BY <1>1 DEF ListKept
  <2>2. merging' = {}
    BY <1>2, <1>4
  <2> QED BY <1>2, <1>8, <2>1, <2>2 DEF ListKept
<1>14. LocalsKept(s)'
  <2>1. ASSUME NEW u \in Threads PROVE Distinct(local'[u]) /\ Apart(local'[u], s)
    <3>1. CASE u = t
      BY <1>9, <1>11, <3>1 DEF Apart
    <3>2. CASE u # t
      BY <1>5, <1>9, <3>2
    <3> QED BY <3>1, <3>2
  <2>2. ASSUME NEW u \in Threads, NEW v \in Threads, u # v PROVE Apart(local'[u], local'[v])
    <3>1. CASE u # t /\ v # t
      BY <1>5, <1>9, <2>2, <3>1
    <3>2. CASE u = t \/ v = t
      BY <1>9, <1>11, <3>2 DEF Apart
    <3> QED BY <3>1, <3>2
  <2> QED BY <1>10, <1>12, <2>1, <2>2 DEF LocalsKept
<1>15. NothingMissing(s)'
  <2>1. ASSUME NEW x PROVE Held(s, x)' <=> Held(s, x)
    <3>1. Held(s, x)' <=> Has(s, x) \/ \E u \in Threads : Has(local'[u], x)
      BY <1>12 DEF Held
    <3>2. ASSUME NEW u \in Threads, Has(local'[u], x) PROVE Has(local[u], x)
      <4>1. u # t
        BY <1>9, <1>11, <3>2
      <4> QED BY <1>9, <3>2, <4>1
    <3>3. ASSUME NEW u \in Threads, Has(local[u], x) PROVE Held(s, x)'
      <4>1. CASE u = t
        BY <1>6, <1>7, <3>1, <3>3, <4>1
      <4>2. CASE u # t
        <5>1. Has(local'[u], x)
          BY <1>9, <3>3, <4>2
        <5> QED BY <3>1, <5>1
      <4> QED BY <4>1, <4>2
    <3> QED BY <3>1, <3>2, <3>3 DEF Held
  <2>2. ASSUME NEW x PROVE FoundSoFar(x)' <=> FoundSoFar(x)
    BY <1>2, <1>12 DEF FoundSoFar, Done
  <2> QED BY <1>1, <2>1, <2>2 DEF NothingMissing
<1>16. region' \in DOMAIN Regions' /\ given' \subseteq Parts(Region)'
  BY <1>2, <1>12 DEF Searching
<1> QED BY <1>13, <1>14, <1>15, <1>16 DEF Searching

(* A region ends when the loop is done and every thread has merged.        *)
LEMMA RegionStep ==
  ASSUME GridKnown, Searching, EndRegion
  PROVE  IF region < Len(Regions)
         THEN phase' = phase /\ Searching'
         ELSE phase' = "connected" /\ NoConnectionLost'
<1>1. PICK s : ListKept(s) /\ LocalsKept(s) /\ NothingMissing(s)
  BY DEF Searching
<1>2. /\ given = Parts(Region) /\ given' = {} /\ \A t \in Threads : local[t] = <<>>
      /\ local' = local /\ merging' = merging /\ list' = list /\ next' = next
      /\ UNCHANGED gridData
  BY DEF EndRegion, ListUnchanged, gridData, parserVars
<1>3. merging = {} /\ ListIs(s, s) /\ s \in Seq(AllNodes) /\ Distinct(s) /\ Chained(s, next)
  BY <1>1, <1>2 DEF ListKept, Appending
<1>4. /\ region \in Int /\ region >= 1 /\ DOMAIN Regions = 1 .. Len(Regions)
      /\ Len(Regions) \in Nat /\ region <= Len(Regions)
  BY SearchFacts
<1>5. /\ Regions' = Regions /\ Threads' = Threads
      /\ \A n, j : Parts(Regions[n])' = Parts(Regions[n]) /\ Allocated(n, j)' = Allocated(n, j)
  BY <1>2, SameParts
<1>6. \A x : Held(s, x) <=> Has(s, x)
  <2>1. \A x : ~ Has(<<>>, x)
    BY EmptySeq DEF Has
  <2> QED BY <1>2, <2>1 DEF Held
<1>7. ASSUME NEW n \in Int, NEW k \in Int
      PROVE  Done(n, k) <=> n \in 1 .. region /\ k \in Parts(Regions[n])
  <2>1. n \in 1 .. region <=> n \in 1 .. region - 1 \/ n = region
    BY <1>4
  <2> QED BY <1>2, <2>1 DEF Done, Region
<1>8. \A x : Has(s, x) <=> FoundSoFar(x)
  BY <1>1, <1>6 DEF NothingMissing
<1>9. CASE region < Len(Regions)
  <2>1. region' = region + 1 /\ phase' = phase
    BY <1>9 DEF EndRegion
  <2>2. ListKept(s)'
    <3>1. ListIs(s, s)'
      BY <1>2, <1>3 DEF ListIs
    <3> QED BY <1>2, <1>3, <3>1 DEF ListKept
  <2>3. LocalsKept(s)'
    BY <1>1, <1>2, <1>5 DEF LocalsKept
  <2>4. NothingMissing(s)'
    <3>1. ASSUME NEW n \in Int, NEW k \in Int PROVE Done(n, k)' <=> Done(n, k)
      <4>1. region' - 1 = region
        BY <1>4, <2>1
      <4> QED BY <1>2, <1>5, <1>7, <4>1 DEF Done
    <3>2. ASSUME NEW x PROVE FoundSoFar(x)' <=> FoundSoFar(x)
      BY <1>5, <3>1 DEF FoundSoFar
    <3>3. ASSUME NEW x PROVE Held(s, x)' <=> Held(s, x)
      BY <1>2, <1>5 DEF Held
    <3> QED BY <1>1, <3>2, <3>3 DEF NothingMissing
  <2>5. region' \in DOMAIN Regions' /\ given' \subseteq Parts(Region)'
    BY <1>2, <1>4, <1>5, <1>9, <2>1
  <2> QED BY <1>9, <2>1, <2>2, <2>3, <2>4, <2>5 DEF Searching
<1>10. CASE ~ (region < Len(Regions))
  <2>1. phase' = "connected" /\ region = Len(Regions)
    <3>1. phase' = "connected"
      BY <1>10, Zenon DEF EndRegion
    <3>2. region = Len(Regions)
      <4>1. region \in Int /\ Len(Regions) \in Int /\ region <= Len(Regions)
        BY SearchFacts
      <4> QED BY <1>10, <4>1
    <3> QED BY <3>1, <3>2
  <2>2. Nodes' = s
    <3>1. list'.First = IF s = <<>> THEN NULL ELSE s[1]
      BY <1>2, <1>3 DEF ListIs
    <3>2. Chained(s, next')
      BY <1>2, <1>3
    <3>3. Nodes = s
      BY <1>2, <1>3, <3>1, NodesOfList, NodesAreNotNull
    <3> QED BY <1>2, <3>3 DEF Nodes
  <2>3. Len(s) = list'.Size
    BY <1>2, <1>3 DEF ListIs
  <2>4. IsInjective(s)
    <3>1. DOMAIN s = 1 .. Len(s)
      BY <1>3
    <3> QED BY <1>3, <3>1 DEF IsInjective, Distinct
  <2>5. Range(s) = UNION {UNION {Range(Allocated(n, k)) : k \in Parts(Regions[n])} :
                            n \in DOMAIN Regions}
    <3>1. ASSUME NEW n \in DOMAIN Regions, NEW k \in Parts(Regions[n]), NEW x
          PROVE  x \in Range(Allocated(n, k)) <=> Has(Allocated(n, k), x)
      <4>1. n \in Int /\ k \in Int
        BY <1>4, PartNumbers
      <4>2. Allocated(n, k) \in Seq(AllNodes)
        BY <4>1, AllocatedNodes DEF GridKnown
      <4> QED BY <4>2 DEF Range, Has
    <3>2. ASSUME NEW x
          PROVE  FoundSoFar(x) <=> \E n \in DOMAIN Regions :
                                     \E k \in Parts(Regions[n]) : Has(Allocated(n, k), x)
      <4>1. ASSUME NEW n \in DOMAIN Regions, NEW k \in Parts(Regions[n])
            PROVE  n \in Int /\ k \in Int /\ Done(n, k)
        <5>1. n \in Int /\ k \in Int /\ n \in 1 .. region
          BY <1>4, <2>1, PartNumbers
        <5> QED BY <1>7, <5>1
      <4>2. ASSUME NEW n \in Int, NEW k \in Int, Done(n, k)
            PROVE  n \in DOMAIN Regions /\ k \in Parts(Regions[n])
        BY <1>4, <1>7, <2>1, <4>2
      <4> QED BY <4>1, <4>2 DEF FoundSoFar
    <3>3. \A x : x \in Range(s) <=> Has(s, x)
      BY <1>3 DEF Range, Has
    <3> QED BY <1>8, <3>1, <3>2, <3>3
  <2>6. Range(s) = UNION {UNION {Range(Allocated(n, k)') : k \in Parts(Regions[n])'} :
                            n \in DOMAIN Regions'}
    BY <1>5, <2>5
  <2> QED BY <1>10, <2>1, <2>2, <2>3, <2>4, <2>6 DEF NoConnectionLost
<1> QED BY <1>9, <1>10

-----------------------------------------------------------------------------
(* The steps before and after the search.                                  *)

RegionsKnown ==
  Len(layer_cell_record) \in Nat \ {0} =>
    Len(Regions) \in Nat \ {0} /\ DOMAIN Regions = 1 .. Len(Regions)

LEMMA RegionsStayKnown == RegionsKnown'
<1>1. RegionsKnown
  BY RegionsListed DEF RegionsKnown
<1> QED BY <1>1, PTL

(* A grid of a stack is known before the search, and nothing is found yet. *)
LEMMA CellsStep ==
  ASSUME declared \in Stacks, stack \in Seq(Elements), stack # <<>>, EmptyLists, GenerateCells
  PROVE  phase' = "aborted" \/ (phase' = "connecting" /\ GridKnown' /\ Searching')
<1> DEFINE layers == get_cell_position
           sizes == [l \in DOMAIN layers |-> Len(layers[l].cells)]
           numbered == [l \in DOMAIN layers |->
                          [k \in 1 .. sizes[l] |-> Number(layers[l].cells[k], l - 1)]]
           n == Len(layers)
           S == UNION {Range(numbered[l]) : l \in 1 .. n}
<1>1. AllListed(layers)
  BY GridListed
<1>2. n \in Nat \ {0} /\ DOMAIN layers = 1 .. n
  <2> HIDE DEF layers
  <2> QED BY <1>1, EmptySeq DEF AllListed
<1>3. ASSUME NEW l \in 1 .. n PROVE sizes[l] \in Nat
  <2> HIDE DEF layers
  <2>1. layers[l] \in Range(layers)
    BY <1>2 DEF Range
  <2>2. Len(layers[l].cells) \in Nat
    BY <1>1, <2>1 DEF AllListed, Listed
  <2> QED BY <1>2, <2>2
<1>4. CASE phase' = "aborted"
  BY <1>4
<1>5. CASE phase' # "aborted"
  <2>1. /\ cells' = FlattenSeq(numbered)
        /\ layer_cell_record' = [l \in DOMAIN layers |-> MapThenSumSet(LAMBDA m : sizes[m], 1 .. l)]
        /\ region' = 1 /\ phase' = "connecting"
        /\ local' = [t \in 1 .. declared.cores |-> <<>>]
        /\ UNCHANGED <<declared, list, next, given, merging>>
    BY <1>5 DEF GenerateCells
  <2> HIDE DEF layers
  <2>2. numbered \in [1 .. n -> Seq(S)]
    <3>1. ASSUME NEW l \in 1 .. n PROVE numbered[l] \in Seq(S)
      <4> DEFINE f == [k \in 1 .. sizes[l] |-> Number(layers[l].cells[k], l - 1)]
      <4>1. numbered[l] = f
        BY <1>2
      <4>2. f = [k \in 1 .. sizes[l] |-> f[k]]
        OBVIOUS
      <4> HIDE DEF f, sizes
      <4>3. f \in Seq(Range(f))
        BY <1>3, <4>2, AnySequence
      <4>4. Range(f) \subseteq S
        BY <4>1
      <4>5. PICK own : own = Range(f)
        OBVIOUS
      <4>6. PICK all : all = S
        OBVIOUS
      <4>7. Seq(own) \subseteq Seq(all)
        BY <4>4, <4>5, <4>6, SeqMonotonic
      <4> QED BY <4>1, <4>3, <4>5, <4>6, <4>7
    <3>2. numbered = [l \in 1 .. n |-> numbered[l]]
      BY <1>2
    <3> HIDE DEF numbered
    <3> QED BY <3>1, <3>2
  <2> HIDE DEF numbered, S, n, sizes
  <2>3. Len(cells') \in Nat
    <3>1. FlattenSeq(numbered) \in Seq(S)
      BY <1>2, <2>2, FlatIsSeq
    <3> QED BY <2>1, <3>1
  <2>4. Len(layer_cell_record') \in Nat \ {0}
    <3>1. PICK f : f = layer_cell_record'
      OBVIOUS
    <3>2. f = [l \in 1 .. n |-> f[l]]
      BY <1>2, <2>1, <3>1
    <3>3. Len(f) = n
      BY <1>2, <3>2, AnySequence
    <3> QED BY <1>2, <3>1, <3>3
  <2>5. region' \in DOMAIN Regions'
    <3>1. PICK m \in Nat \ {0} : m = Len(Regions')
      BY <2>4, RegionsStayKnown DEF RegionsKnown
    <3>2. DOMAIN Regions' = 1 .. m
      BY <2>4, <3>1, RegionsStayKnown DEF RegionsKnown
    <3>3. 1 \in 1 .. m
      BY <3>1
    <3> QED BY <2>1, <3>2, <3>3
  <2>6. /\ list' = [First |-> NULL, Last |-> NULL, Size |-> 0] /\ next' = [x \in {} |-> NULL]
        /\ given' = {} /\ merging' = {}
    BY <2>1 DEF EmptyLists
  <2>7. /\ Len(<<>>) = 0 /\ <<>> \in Seq(AllNodes) /\ 1 .. 0 = {} /\ 1 .. 0 - 1 = {}
    BY EmptySeq
  <2>8. Distinct(<<>>) /\ \A x : ~ Has(<<>>, x)
    BY <2>7 DEF Distinct, Has
  <2>9. Threads' = 1 .. declared.cores
    BY <2>1 DEF Threads
  <2>10. ListKept(<<>>)'
    <3>1. Chained(<<>>, next')
      BY <2>6, <2>7 DEF Chained
    <3>2. ListIs(<<>>, <<>>)'
      BY <2>6, <2>7 DEF ListIs, EndOf
    <3> QED BY <2>6, <2>7, <2>8, <3>1, <3>2 DEF ListKept
  <2>11. LocalsKept(<<>>)'
    <3>1. \A t \in Threads' : local'[t] = <<>>
      BY <2>1, <2>9
    <3>2. local' \in [Threads' -> Seq(AllNodes)]
      BY <2>1, <2>7, <2>9
    <3> QED BY <2>8, <3>1, <3>2 DEF LocalsKept, Apart
  <2>12. NothingMissing(<<>>)'
    <3>1. ASSUME NEW x PROVE ~ Held(<<>>, x)'
      BY <2>1, <2>8, <2>9 DEF Held
    <3>2. ASSUME NEW x PROVE ~ FoundSoFar(x)'
      <4>1. 1 .. region' - 1 = {}
        BY <2>1
      <4>2. \A m, k : ~ Done(m, k)'
        BY <2>6, <4>1 DEF Done
      <4> QED BY <4>2 DEF FoundSoFar
    <3> QED BY <3>1, <3>2 DEF NothingMissing
  <2>13. given' \subseteq Parts(Region)'
    BY <2>6
  <2>14. Searching'
    BY <2>5, <2>10, <2>11, <2>12, <2>13 DEF Searching
  <2>15. GridKnown'
    BY <2>3, <2>4 DEF GridKnown
  <2> QED BY <2>1, <2>14, <2>15
<1> QED BY <1>4, <1>5

(* Nothing is lost when nothing of the search changes.                     *)
LEMMA SearchRests ==
  ASSUME SearchKept, UNCHANGED gridVars, UNCHANGED declared,
         stack' \in Seq(Elements), stack # <<>> => stack' # <<>>, phase' = phase
  PROVE  SearchKept'
<1>1. /\ UNCHANGED gridData /\ list' = list /\ next' = next /\ region' = region
      /\ given' = given /\ local' = local /\ merging' = merging
  BY DEF gridVars, gridData
<1>2. /\ Regions' = Regions /\ Threads' = Threads /\ Parts(Region)' = Parts(Region)
      /\ \A n, j : Parts(Regions[n])' = Parts(Regions[n]) /\ Allocated(n, j)' = Allocated(n, j)
      /\ GridKnown' = GridKnown
  BY <1>1, SameParts
<1>3. Searching => Searching'
  <2> SUFFICES ASSUME Searching PROVE Searching'
    OBVIOUS
  <2>1. PICK s : ListKept(s) /\ LocalsKept(s) /\ NothingMissing(s)
    BY DEF Searching
  <2>2. \A before : ListIs(s, before)' <=> ListIs(s, before)
    BY <1>1 DEF ListIs
  <2>3. \A t, before : Appending(s, t, before)' <=> Appending(s, t, before)
    BY <1>1, <1>2, <2>2 DEF Appending
  <2>4. ListKept(s)'
    BY <1>1, <2>1, <2>2, <2>3 DEF ListKept
  <2>5. LocalsKept(s)'
    BY <1>1, <1>2, <2>1 DEF LocalsKept
  <2>6. NothingMissing(s)'
    <3>1. ASSUME NEW x PROVE Held(s, x)' <=> Held(s, x)
      BY <1>1, <1>2 DEF Held
    <3>2. ASSUME NEW x PROVE FoundSoFar(x)' <=> FoundSoFar(x)
      BY <1>1, <1>2 DEF FoundSoFar, Done
    <3> QED BY <2>1, <3>1, <3>2 DEF NothingMissing
  <2>7. region' \in DOMAIN Regions' /\ given' \subseteq Parts(Region)'
    BY <1>1, <1>2 DEF Searching
  <2> QED BY <2>4, <2>5, <2>6, <2>7 DEF Searching
<1>4. NoConnectionLost' = NoConnectionLost
  <2>1. Nodes' = Nodes
    BY <1>1 DEF Nodes
  <2> QED BY <1>1, <1>2, <2>1 DEF NoConnectionLost
<1>5. EmptyLists' = EmptyLists
  BY <1>1 DEF EmptyLists
<1> QED BY <1>2, <1>3, <1>4, <1>5 DEF SearchKept

(* The matrix and the source vector come after the search.                 *)
LEMMA SearchIsOver ==
  ASSUME SearchKept, UNCHANGED <<declared, stack>>,
         phase' \in {"aborted", "filling", "filled", "ready"}
  PROVE  SearchKept'
BY DEF SearchKept, NoConnectionLost

LEMMA ParseStackKeeps ==
  ASSUME SearchKept, ParseStack
  PROVE  SearchKept'
<1>1. UNCHANGED gridVars /\ declared' = declared /\ phase = "parsing"
  BY DEF ParseStack, ParseElement, AddElement, EndStack, parserVars
<1>2. CASE phase' = "aborted"
  <2>1. stack' = stack
    BY <1>2 DEF ParseStack, ParseElement, AddElement, EndStack, parserVars
  <2> QED BY <1>1, <1>2, <2>1, SearchIsOver
<1>3. CASE phase' = "parsed"
  <2>1. stack' = stack /\ stack # <<>>
    BY <1>1, <1>3 DEF ParseStack, ParseElement, AddElement, EndStack, parserVars
  <2>2. EmptyLists' = EmptyLists
    BY <1>1 DEF EmptyLists, gridVars
  <2> QED BY <1>1, <1>3, <2>1, <2>2 DEF SearchKept, NoConnectionLost
<1>4. CASE phase' \notin {"aborted", "parsed"}
  <2>1. PICK e \in Elements : stack' = Append(stack, e) /\ phase' = phase
    BY <1>4 DEF ParseStack, ParseElement, AddElement, EndStack
  <2>2. stack' \in Seq(Elements)
    BY <2>1, AppendProperties DEF SearchKept
  <2>3. stack' # <<>>
    BY <2>1, AppendProperties DEF SearchKept
  <2> QED BY <1>1, <2>1, <2>2, <2>3, SearchRests
<1> QED BY <1>2, <1>3, <1>4

LEMMA BuildGridKeeps ==
  ASSUME SearchKept, BuildGrid
  PROVE  SearchKept'
<1>1. GenerateCells /\ phase = "parsed" /\ UNCHANGED <<declared, stack>>
  BY DEF BuildGrid, GenerateCells, parserVars
<1>2. declared \in Stacks /\ stack \in Seq(Elements) /\ stack # <<>> /\ EmptyLists
  BY <1>1 DEF SearchKept
<1>3. phase' = "aborted" \/ (phase' = "connecting" /\ GridKnown' /\ Searching')
  BY <1>1, <1>2, CellsStep
<1> QED BY <1>1, <1>2, <1>3 DEF SearchKept, NoConnectionLost

LEMMA ConnectCellsKeeps ==
  ASSUME SearchKept, ConnectCells
  PROVE  SearchKept'
<1>1. Connect
  BY DEF ConnectCells
<1>2. /\ phase = "connecting" /\ UNCHANGED <<declared, stack>> /\ UNCHANGED gridData
  BY <1>1 DEF Connect, Search, Link, AtMerge, Close, EndRegion, ListUnchanged, parserVars, gridData
<1>3. GridKnown /\ Searching /\ GridKnown'
  BY <1>2, SameParts DEF SearchKept
<1>4. ASSUME phase' = phase, Searching' PROVE SearchKept'
  BY <1>2, <1>3, <1>4 DEF SearchKept, NoConnectionLost
<1>5. ASSUME NEW t \in Threads, Search(t) \/ Link(t) \/ Close(t) PROVE SearchKept'
  <2>1. phase' = phase
    BY <1>5 DEF Search, Link, Close
  <2>2. Searching'
    BY <1>3, <1>5, SearchStep, LinkStep, CloseStep
  <2> QED BY <1>4, <2>1, <2>2
<1>6. CASE EndRegion
  <2>1. CASE region < Len(Regions)
    BY <1>3, <1>4, <1>6, <2>1, RegionStep
  <2>2. CASE ~ (region < Len(Regions))
    <3>1. phase' = "connected" /\ NoConnectionLost'
      BY <1>3, <1>6, <2>2, RegionStep
    <3> QED BY <1>2, <1>3, <3>1 DEF SearchKept
  <2> QED BY <2>1, <2>2
<1> QED BY <1>1, <1>5, <1>6 DEF Connect

LEMMA LaterStepsKeep ==
  ASSUME SearchKept,
         \/ SetLayerTypes \/ FillMatrix
         \/ UpdateSourceVector \/ ChangeFlow \/ UpdateChannelSources
  PROVE  SearchKept'
<1>1. CASE SetLayerTypes
  <2>1. UNCHANGED <<declared, stack>> /\ phase' \in {"aborted", "filling"}
    BY <1>1 DEF SetLayerTypes, GridFill, parserVars
  <2> QED BY <2>1, SearchIsOver
<1>2. CASE FillMatrix
  <2>1. UNCHANGED <<declared, stack>> /\ phase' \in {"filling", "filled"}
    <3>1. CASE FillColumn
      <4>1. NextIteration
        BY <3>1 DEF FillColumn, AddSolidColumn, AddLiquidColumn4rm, AddLiquidColumn2rm,
          AddVirtualWallColumn2rm, AddTopWallColumn2rm, AddBottomWallColumn2rm,
          AddSpreaderColumn, WriteColumn
      <4> QED BY <4>1 DEF NextIteration, parserVars
    <3>2. CASE FillNonUniform
      BY <3>2 DEF FillNonUniform, parserVars
    <3> QED BY <1>2, <3>1, <3>2 DEF FillMatrix
  <2> QED BY <2>1, SearchIsOver
<1>3. CASE UpdateSourceVector \/ ChangeFlow \/ UpdateChannelSources
  <2>1. UNCHANGED <<declared, stack>> /\ phase' \in {"filling", "ready"}
    BY <1>3 DEF UpdateSourceVector, ChangeFlow, UpdateChannelSources, parserVars
  <2> QED BY <2>1, SearchIsOver
<1> QED BY <1>1, <1>2, <1>3

(* The search never loses what it has to find again: the list is chained   *)
(* in the order of some sequence, and the parts that were taken are on it  *)
(* and on the local lists, once (the parallel regions of thermal_data.c    *)
(* and connection_list_merge).                                             *)
THEOREM SearchInvariant == BuildSpec => []SearchKept
<1>1. BuildInit => SearchKept
  <2> SUFFICES ASSUME BuildInit PROVE SearchKept
    OBVIOUS
  <2>1. phase = "parsing" /\ declared \in Stacks /\ stack = <<>>
    BY DEF BuildInit, Init, ParserInit
  <2>2. stack \in Seq(Elements)
    BY <2>1, EmptySeq
  <2>3. EmptyLists
    BY DEF BuildInit, GridInit, EmptyLists
  <2> QED BY <2>1, <2>2, <2>3 DEF SearchKept, NoConnectionLost
<1>2. SearchKept /\ [BuildNext]_buildVars => SearchKept'
  <2> SUFFICES ASSUME SearchKept, [BuildNext]_buildVars PROVE SearchKept'
    OBVIOUS
  <2>1. CASE UNCHANGED buildVars
    <3>1. UNCHANGED <<gridVars, declared, stack, phase>>
      BY <2>1 DEF buildVars, vars, parserVars
    <3>2. stack' \in Seq(Elements)
      BY <3>1 DEF SearchKept
    <3> QED BY <3>1, <3>2, SearchRests
  <2> QED BY <2>1, ParseStackKeeps, BuildGridKeeps, ConnectCellsKeeps, LaterStepsKeep
      DEF BuildNext
<1> QED BY <1>1, <1>2, PTL DEF BuildSpec

(* However many threads there are and whatever the order in which they     *)
(* take parts of the loops and append their local lists, at the end of the *)
(* search every node that one of them allocated is on the list once.       *)
THEOREM NoConnectionEverLost == BuildSpec => []NoConnectionLost
<1>1. SearchKept => NoConnectionLost
  BY DEF SearchKept
<1> QED BY <1>1, SearchInvariant, PTL
=============================================================================
