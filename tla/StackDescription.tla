---------------------------- MODULE StackDescription ----------------------------
(* The stack section of the parser (stack_description_parser.y) and the    *)
(* sizes it computes (dimensions.c): the elements of the stack are read    *)
(* from the top-most to the bottom-most, checked, given their layers, and  *)
(* the cells and the nonzero coefficients of the system are counted.       *)
(*                                                                         *)
(* What precedes the section (channel, heat sinks, dimensions) is chosen   *)
(* once, in Init.  Identifiers are left out: every element has its own and *)
(* refers to a declared die or layer.                                      *)
EXTENDS Integers, SequencesExt, FiniteSetsExt

CONSTANTS
  Stacks,       \* what may be declared before the stack section
  Elements,     \* the elements a stack is made of
  MaxElements,  \* bound on the number of elements of a stack
  Word          \* 2 ^ the bits of a CellIndex_t

ChannelModels == {"NONE", "MC_4RM", "MC_2RM", "PF_INLINE", "PF_STAGGERED"}

TopSinks == {"NONE", "TOP", "TOP_PLUGGABLE"}

(* Declarations: a channel model, the heat sinks, the grid of a layer and  *)
(* the cells the heat spreader has beyond each border of the chip.  With   *)
(* the 4RM model the columns alternate walls and channels, so their number *)
(* is odd and at least three.                                              *)
Declaration(d) ==
  /\ d.channel \in ChannelModels /\ d.top \in TopSinks /\ d.bottom \in BOOLEAN
  /\ {d.nrows, d.ncolumns} \subseteq Nat \ {0}
  /\ {d.rowborder, d.columnborder} \subseteq Nat

FitsChip(d) == d.channel = "MC_4RM" => d.ncolumns >= 3 /\ d.ncolumns % 2 = 1

(* A die has one layer or more, one of which is its source; a layer and a  *)
(* channel are elements by themselves.                                     *)
StackElement(e) ==
  \/ e.type = "DIE" /\ e.nlayers \in Nat \ {0} /\ e.source \in 0 .. e.nlayers - 1
  \/ e.type \in {"LAYER", "CHANNEL"}

ASSUME StackAssumption ==
  /\ \A d \in Stacks : Declaration(d) /\ FitsChip(d)
  /\ \A e \in Elements : StackElement(e)
  /\ MaxElements \in Nat /\ Word \in Nat \ {0}

VARIABLES
  declared,     \* the declarations of this stack description
  stack,        \* the elements of the stack, the top-most first
  NLayers, NCells, NConnections,
  phase         \* "parsing", "parsed", then the phases of SystemMatrix; "aborted"

parserVars == <<declared, stack, NLayers, NCells, NConnections>>

is2RM(model) == model \in {"MC_2RM", "PF_INLINE", "PF_STAGGERED"}

ElementLayers(e) ==
  CASE e.type = "DIE"     -> e.nlayers
    [] e.type = "LAYER"   -> 1
    [] e.type = "CHANNEL" -> IF declared.channel = "MC_4RM" THEN 1 ELSE 4

LayersOf(elements) ==
  LET upTo[k \in 0 .. Len(elements)] ==
        IF k = 0 THEN 0 ELSE upTo[k - 1] + ElementLayers(elements[k])
  IN  upTo[Len(elements)]

Count(type, elements) == Quantify(DOMAIN elements, LAMBDA i : elements[i].type = type)

Pluggable == declared.top = "TOP_PLUGGABLE"

LayerArea == declared.nrows * declared.ncolumns

(* The spreader extends the grid of the chip by its borders.               *)
SpreaderRows == 2 * declared.rowborder + declared.nrows

SpreaderColumns == 2 * declared.columnborder + declared.ncolumns

(* The pairs of neighbours of a grid in its two directions.                *)
NorthSouth(rows, columns) == (rows - 1) * columns

EastWest(rows, columns) == rows * (columns - 1)

SpreaderCells == IF Pluggable THEN SpreaderRows * SpreaderColumns ELSE 0

(* One coefficient per cell of a grid and two per pair of neighbours.      *)
Plane(rows, columns) ==
  rows * columns + 2 * NorthSouth(rows, columns) + 2 * EastWest(rows, columns)

(* Seeded fault: the spreader is not joined to the layer under it.         *)
SpreaderApart == IF Pluggable THEN Plane(SpreaderRows, SpreaderColumns) ELSE 0

SpreaderConnections ==
  IF Pluggable THEN Plane(SpreaderRows, SpreaderColumns) + 2 * LayerArea ELSE 0

(* Only in microchannels does a virtual wall conduct along the channel, as *)
(* the liquid does.                                                        *)
AlongChannel == IF declared.channel = "MC_2RM" THEN 4 ELSE 2

(* The four layers of a channel with walls are counted apart.              *)
StackConnections(nlayers, nchannels) ==
  LET inChannels == 4 * nchannels
      plane      == Plane(declared.nrows, declared.ncolumns)
  IN  IF is2RM(declared.channel)
      THEN (nlayers - inChannels) * (plane + 2 * LayerArea)
             + inChannels * LayerArea
             + 2 * (inChannels + nchannels) * LayerArea
             + AlongChannel * nchannels * NorthSouth(declared.nrows, declared.ncolumns)
      ELSE nlayers * plane + 2 * (nlayers - 1) * LayerArea

(* compute_number_of_connections counts in the width of a CellIndex_t.     *)
NumberOfConnections(nlayers, nchannels) ==
  (StackConnections(nlayers, nchannels) + SpreaderConnections) % Word

ParserInit ==
  /\ declared \in Stacks
  /\ stack = <<>>
  /\ NLayers = 0 /\ NCells = 0 /\ NConnections = 0
  /\ phase = "parsing"

(* The parser looks for two channels in a row at the beginning of the      *)
(* list, which is the top-most element and not the previous one.           *)
Rejected(e) ==
  /\ e.type = "CHANNEL"
  /\ \/ declared.channel = "NONE"
     \/ stack # <<>> /\ Head(stack).type = "CHANNEL"

AddElement(e) ==
  /\ phase = "parsing" /\ Len(stack) < MaxElements
  /\ IF Rejected(e)
     THEN /\ phase' = "aborted"
          /\ UNCHANGED parserVars
     ELSE /\ stack' = Append(stack, e)
          /\ UNCHANGED <<declared, NLayers, NCells, NConnections, phase>>

(* The end of the section.  Without a die, with a channel at an end of the *)
(* stack or with more cells than an int counts, the parser gives up.       *)
EndsInChannel == Head(stack).type = "CHANNEL" \/ Last(stack).type = "CHANNEL"

EndStack ==
  /\ phase = "parsing" /\ stack # <<>>
  /\ LET nlayers == LayersOf(stack)
         ncells  == nlayers * LayerArea + SpreaderCells
     IN  IF Count("DIE", stack) = 0 \/ EndsInChannel \/ ncells > Word \div 2 - 1
         THEN /\ phase' = "aborted"
              /\ UNCHANGED parserVars
         ELSE /\ NLayers' = nlayers
              /\ NCells' = ncells
              /\ NConnections' = NumberOfConnections(nlayers, Count("CHANNEL", stack))
              /\ phase' = "parsed"
              /\ UNCHANGED <<declared, stack>>

(* "cannot declare two consecutive channels", says the parser: no stack it *)
(* accepts has them.                                                       *)
NoConsecutiveChannels ==
  phase \notin {"parsing", "aborted"} =>
    \A i \in 1 .. Len(stack) - 1 :
      ~ (stack[i].type = "CHANNEL" /\ stack[i + 1].type = "CHANNEL")
=============================================================================
