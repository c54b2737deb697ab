----------------------------- MODULE NonUniformGrid -----------------------------
(* Non-uniform grids (thermal_data.c): the cells of every layer, made from *)
(* the floorplans, and the search for the pairs of cells that touch, which *)
(* the threads of a parallel loop append to one linked list                *)
(* (list_template.c).                                                      *)
(*                                                                         *)
(* A cell is a rectangle of a layer, from (x0, y0) to (x1, y1).  A node of *)
(* the list is the pair of cells it is about and the place where the pair  *)
(* was found, which tells it from every other node that was allocated.     *)
EXTENDS Floorplan

CONSTANT Chunk  \* how many cells a thread takes at a time

(* Numbers of cells in the two directions.                                 *)
Discretised(discr) == discr.x \in Nat /\ discr.y \in Nat

FloorplanOf(e) == e.floorplan \in Seq(Range(e.floorplan))

ASSUME NonUniformAssumption ==
  /\ Chunk \in Nat \ {0}
  /\ \A d \in Stacks : d.cores \in Nat \ {0} /\ Discretised(d.discr)
  /\ \A e \in Elements : e.type # "CHANNEL" => Discretised([x |-> e.dx, y |-> e.dy])
  /\ \A e \in Elements : e.type = "DIE" =>
       /\ FloorplanOf(e)
       /\ \A j \in DOMAIN e.floorplan :
            Discretised([x |-> e.floorplan[j].dx, y |-> e.floorplan[j].dy])

VARIABLES
  cells,              \* Cell_list, in the order of the numbers of the cells
  layer_cell_record,  \* how many cells there are up to and in a layer
  layer_type_record,  \* what is searched for in a layer
  list, next,         \* connections_list: First, Last and Size, and the links
  region,             \* the parallel region that runs
  given,              \* the parts of its loop that threads have taken
  local,              \* local_list of each thread
  merging             \* the threads in the middle of connection_list_merge

gridVars == <<cells, layer_cell_record, layer_type_record,
              list, next, region, given, local, merging>>

NULL == <<>>

-----------------------------------------------------------------------------
(* The cells (get_cell_position).                                          *)

Rectangle(x0, y0, x1, y1, isChannel) ==
  [x0 |-> x0, y0 |-> y0, x1 |-> x1, y1 |-> y1, isChannel |-> isChannel]

(* dx times dy cells, from left to right and from bottom to top.           *)
Tiles(icel, dx, dy) ==
  [k \in 1 .. dx * dy |->
     LET i == (k - 1) % dx
         j == (k - 1) \div dx
     IN  Rectangle(icel.x + (icel.l \div dx) * i, icel.y + (icel.w \div dy) * j,
                   icel.x + (icel.l \div dx) * (i + 1), icel.y + (icel.w \div dy) * (j + 1),
                   FALSE)]

Chip == [x |-> 0, y |-> 0, l |-> declared.chip.Length, w |-> declared.chip.Width]

Discr(e) == IF e.dx = 0 THEN declared.discr ELSE [x |-> e.dx, y |-> e.dy]

DiscrOf(flpel, e) == IF flpel.dx # 0 /\ flpel.dy # 0 THEN [x |-> flpel.dx, y |-> flpel.dy]
                                                    ELSE Discr(e)

(* Only the first rectangle of a floorplan element gets cells.             *)
ElementCells(flpel, e) == Tiles(flpel.rects[1], DiscrOf(flpel, e).x, DiscrOf(flpel, e).y)

GridLayer(type, rectangles) == [type |-> type, cells |-> rectangles]

DieCells(e) ==
  [i \in 1 .. e.nlayers |->
     GridLayer(0, FlattenSeq([j \in DOMAIN e.floorplan |-> ElementCells(e.floorplan[j], e)]))]

LayerCells(e) == <<GridLayer(0, Tiles(Chip, Discr(e).x, Discr(e).y))>>

(* The columns of a channel are walls and channels in turn.                *)
West(c) ==
  LET pair == declared.cell.Wall + declared.cell.Channel
  IN  CASE c = 0 -> 0
        [] c # 0 /\ c = declared.ncolumns - 1 -> declared.chip.Length - declared.cell.LastWall
        [] OTHER -> IF c % 2 = 1
                    THEN declared.cell.FirstWall + ((c - 1) \div 2) * pair
                    ELSE declared.cell.FirstWall + declared.cell.Channel + ((c - 2) \div 2) * pair

East(c) ==
  CASE c = 0 -> declared.cell.FirstWall
    [] c # 0 /\ c = declared.ncolumns - 1 -> declared.chip.Length
    [] OTHER -> West(c) + (IF c % 2 = 1 THEN declared.cell.Channel ELSE declared.cell.Wall)

ColumnTiles(isChannel(_)) ==
  LET width == declared.chip.Width \div declared.nrows
  IN  [k \in 1 .. LayerArea |->
         LET c == (k - 1) % declared.ncolumns
             r == (k - 1) \div declared.ncolumns
         IN  Rectangle(West(c), width * r, East(c), width * (r + 1), isChannel(c))]

ChannelCells4rm ==
  <<GridLayer(0, ColumnTiles(LAMBDA c : c \notin {0, declared.ncolumns - 1} /\ c % 2 = 1))>>

ChannelCells2rm ==
  [i \in 1 .. 4 |-> GridLayer(<<1, 2, 2, 1>>[i], ColumnTiles(LAMBDA c : i = 3))]

PinfinCells ==
  [i \in 1 .. 4 |-> GridLayer(<<1, 3, 2, 1>>[i], ColumnTiles(LAMBDA c : i = 3))]

CellsOfElement(e) ==
  CASE e.type = "DIE"   -> DieCells(e)
    [] e.type = "LAYER" -> LayerCells(e)
    [] e.type = "CHANNEL" -> IF declared.channel = "MC_4RM" THEN ChannelCells4rm
                             ELSE IF declared.channel = "MC_2RM" THEN ChannelCells2rm
                             ELSE PinfinCells

SpreaderTiles == IF Pluggable THEN <<GridLayer(4, Tiles(Chip, declared.ncolumns, declared.nrows))>>
                              ELSE <<>>

(* From the bottom-most layer to the spreader.                             *)
get_cell_position ==
  FlattenSeq([p \in DOMAIN stack |-> CellsOfElement(Reverse(stack)[p])]) \o SpreaderTiles

Number(rectangle, l) == [layer |-> l] @@ rectangle

(* The number of cells is computed apart, before there are any.            *)
DieSize(e) ==
  e.nlayers * MapThenSumSet(LAMBDA j : DiscrOf(e.floorplan[j], e).x * DiscrOf(e.floorplan[j], e).y,
                            DOMAIN e.floorplan)

ElementSize(e) ==
  CASE e.type = "DIE"     -> DieSize(e)
    [] e.type = "LAYER"   -> Discr(e).x * Discr(e).y
    [] e.type = "CHANNEL" -> ElementLayers(e) * LayerArea

update_number_of_cells ==
  MapThenSumSet(LAMBDA p : ElementSize(stack[p]), DOMAIN stack) + (IF Pluggable THEN LayerArea ELSE 0)

(* The top sink of the stack is looked at even if there is none, which     *)
(* ends the program.                                                       *)
GenerateCells ==
  /\ phase = "parsed" /\ declared.nonuniform
  /\ IF declared.top = "NONE"
     THEN /\ phase' = "aborted"
          /\ UNCHANGED <<parserVars, gridVars>>
     ELSE LET layers == get_cell_position
              sizes  == [l \in DOMAIN layers |-> Len(layers[l].cells)]
          IN  /\ cells' = FlattenSeq([l \in DOMAIN layers |->
                            [k \in 1 .. sizes[l] |-> Number(layers[l].cells[k], l - 1)]])
              /\ layer_cell_record' = [l \in DOMAIN layers |->
                            MapThenSumSet(LAMBDA m : sizes[m], 1 .. l)]
              /\ layer_type_record' = [l \in DOMAIN layers |-> layers[l].type]
              /\ NCells' = update_number_of_cells
              /\ region' = 1 /\ phase' = "connecting"
              /\ local' = [t \in 1 .. declared.cores |-> <<>>]
              /\ UNCHANGED <<declared, stack, NLayers, NConnections, list, next, given, merging>>

-----------------------------------------------------------------------------
CellAt(i) == cells[i + 1]

CellsOfLayer(l) ==
  (IF l = 0 THEN 0 ELSE layer_cell_record[l]) .. layer_cell_record[l + 1] - 1

(* Of the cells of the source layer each floorplan element has some of its *)
(* own, in the order of the elements.                                      *)

SizeOf(p, j) ==
  LET discr == DiscrOf(stack[p].floorplan[j], stack[p]) IN discr.x * discr.y

Index_start(p, j) ==
  Min(CellsOfLayer(get_source_layer_offset(p))) + MapThenSumSet(LAMBDA m : SizeOf(p, m), 1 .. j - 1)

Index_end(p, j) == Index_start(p, j) + SizeOf(p, j) - 1

-----------------------------------------------------------------------------
(* The parallel regions: first one for every layer, then those between     *)
(* layers, where the layers of a channel with walls skip one.              *)

LayerType(l) == layer_type_record[l + 1]

Within(l) == <<[bottom |-> l, top |-> l]>>

Between(l, m) == [bottom |-> l, top |-> m]

Upwards(l) ==
  IF LayerType(l - 1) \in {2, 3} /\ LayerType(l) = 2
  THEN <<Between(l - 2, l), Between(l - 1, l + 1)>>
  ELSE <<Between(l - 1, l)>>

TopLayer == Len(layer_cell_record) - 1

Regions ==
  FlattenSeq([l \in 1 .. TopLayer + 1 |-> Within(l - 1)])
    \o FlattenSeq([l \in 1 .. TopLayer |-> Upwards(l)])

Region == Regions[region]

IsWithin(r) == r.bottom = r.top

-----------------------------------------------------------------------------
(* Which cells touch.                                                      *)

Abs(n) == IF n < 0 THEN -n ELSE n

(* The Minkowski difference of two cells.                                  *)
Diff(i, j) ==
  LET a == CellAt(i)  b == CellAt(j)
  IN  <<a.x0 - b.x1, a.y0 - b.y1, a.x1 - b.x0, a.y1 - b.y0>>

Smaller(d, k) == Min({Abs(d[k]), Abs(d[k + 2])})

(* Seeded fault: cells that share a corner touch, too.                     *)
TouchOrMeet(i, j) ==
  LET d == Diff(i, j)
  IN  (\E k \in 1 .. 4 : d[k] = 0) /\ d[1] * d[3] + d[2] * d[4] <= 0

Touch(i, j) ==
  LET d == Diff(i, j)
  IN  (\E k \in 1 .. 4 : d[k] = 0) /\ d[1] * d[3] + d[2] * d[4] < 0

Overlap(i, j) ==
  LET d == Diff(i, j) IN d[1] * d[3] < 0 /\ d[2] * d[4] < 0

Direction(i, j) ==
  IF CellAt(i).layer # CellAt(j).layer THEN "z"
  ELSE IF Diff(i, j)[1] * Diff(i, j)[3] = 0 THEN "x" ELSE "y"

(* In channels with walls heat flows along the channel only, in walls and  *)
(* between pins nowhere but up and down.                                   *)
Blocked(type) == CASE type \in {1, 3} -> {"x", "y"} [] type = 2 -> {"x"} [] OTHER -> {}

Connected(r, i, j) ==
  IF IsWithin(r)
  THEN Touch(i, j) /\ Direction(i, j) \notin Blocked(LayerType(r.bottom))
  ELSE Overlap(i, j)

get_overlap_area(i, j) ==
  LET d == Diff(i, j)  a == CellAt(i)  b == CellAt(j)
  IN  Min({Smaller(d, 1), a.x1 - a.x0, b.x1 - b.x0}) * Min({Smaller(d, 2), a.y1 - a.y0, b.y1 - b.y0})

ConnectionValue(i, j) ==
  CASE Direction(i, j) = "x" -> Smaller(Diff(i, j), 2)
    [] Direction(i, j) = "y" -> Smaller(Diff(i, j), 1)
    [] Direction(i, j) = "z" -> get_overlap_area(i, j)

-----------------------------------------------------------------------------
(* The loop of a region over the cells of its lower layer is divided into  *)
(* parts.  Within a layer a thread that is free takes the next Chunk; in   *)
(* the others every thread has its own part from the start.                *)

Threads == 1 .. declared.cores

Parts(r) ==
  IF IsWithin(r) THEN 1 .. (Cardinality(CellsOfLayer(r.bottom)) + Chunk - 1) \div Chunk
                 ELSE Threads

CellsOfPart(r, k) ==
  LET all == CellsOfLayer(r.bottom)
      n   == Cardinality(all)
      from == IF IsWithin(r) THEN Chunk * (k - 1) ELSE (n * (k - 1)) \div declared.cores
      to   == IF IsWithin(r) THEN Min({Chunk * k, n}) ELSE (n * k) \div declared.cores
  IN  Min(all) + from .. Min(all) + to - 1

Partners(r, i) ==
  {j \in CellsOfLayer(r.top) : (IsWithin(r) => j > i) /\ Connected(r, i, j)}

Ascending(S) == SelectSeq([k \in 1 .. NCells |-> k - 1], LAMBDA i : i \in S)

(* What is found for the cells of a set, one cell after the other.         *)
InOrder(S, found(_)) ==
  FlattenSeq([m \in 1 .. Len(cells) |-> IF m - 1 \in S THEN found(m - 1) ELSE <<>>])

Found(r, k) ==
  InOrder(CellsOfPart(r, k), LAMBDA i : InOrder(Partners(r, i), LAMBDA j : <<<<i, j>>>>))

(* The nodes that are allocated for part k of region n.                    *)
Allocated(n, k) ==
  LET found == Found(Regions[n], k)
  IN  [m \in DOMAIN found |-> [pair |-> found[m], at |-> <<n, k, m>>]]

MayTake(t) ==
  IF IsWithin(Region) THEN {k \in Parts(Region) : \A m \in 1 .. k - 1 : m \in given} \ given
                      ELSE {t} \ given

ListUnchanged == UNCHANGED <<cells, layer_cell_record, layer_type_record, list, next>>

Search(t) ==
  /\ phase = "connecting" /\ t \in Threads
  /\ \E k \in MayTake(t) :
       /\ local' = [local EXCEPT ![t] = @ \o Allocated(region, k)]
       /\ given' = given \cup {k}
  /\ UNCHANGED <<parserVars, phase, region, merging>> /\ ListUnchanged

(* connection_list_merge, in two steps: the links, then the end and the    *)
(* size.  It is in a critical section, which a thread reaches when the     *)
(* whole loop is done.                                                     *)
AtMerge(t) == phase = "connecting" /\ t \in Threads /\ given = Parts(Region) /\ local[t] # <<>>

(* Seeded fault: no critical section.                                      *)
AnyoneMayEnter(t) == t \notin merging

MayEnter(t) == merging = {}

Chain(nodes) == [n \in {nodes[k] : k \in 1 .. Len(nodes) - 1} |->
                   nodes[1 + CHOOSE k \in 1 .. Len(nodes) - 1 : nodes[k] = n]]

Link(t) ==
  /\ AtMerge(t) /\ MayEnter(t)
  /\ merging' = merging \cup {t}
  /\ LET chain == Chain(local[t])
         end   == IF list.First = NULL THEN {} ELSE {list.Last}
     IN  /\ next' = [n \in DOMAIN next \cup DOMAIN chain \cup end |->
                       IF n \in end THEN Head(local[t])
                       ELSE IF n \in DOMAIN chain THEN chain[n] ELSE next[n]]
         /\ list' = IF list.First = NULL THEN [list EXCEPT !.First = Head(local[t])] ELSE list
  /\ UNCHANGED <<parserVars, phase, region, given, local>>
  /\ UNCHANGED <<cells, layer_cell_record, layer_type_record>>

Close(t) ==
  /\ phase = "connecting" /\ t \in merging
  /\ merging' = merging \ {t}
  /\ list' = [list EXCEPT !.Last = Last(local[t]), !.Size = @ + Len(local[t])]
  /\ local' = [local EXCEPT ![t] = <<>>]
  /\ UNCHANGED <<parserVars, phase, region, given, next>>
  /\ UNCHANGED <<cells, layer_cell_record, layer_type_record>>

(* All threads wait for each other at the end of a region.                 *)
EndRegion ==
  /\ phase = "connecting" /\ given = Parts(Region)
  /\ \A t \in Threads : local[t] = <<>>
  /\ given' = {}
  /\ IF region < Len(Regions)
     THEN /\ region' = region + 1
          /\ UNCHANGED <<parserVars, phase>>
     ELSE /\ NConnections' = 2 * list.Size + NCells
          /\ phase' = "connected"
          /\ UNCHANGED <<declared, stack, NLayers, NCells, region>>
  /\ UNCHANGED <<local, merging>> /\ ListUnchanged

Connect == (\E t \in Threads : Search(t) \/ Link(t) \/ Close(t)) \/ EndRegion

GridInit ==
  /\ cells = <<>> /\ layer_cell_record = <<>> /\ layer_type_record = <<>>
  /\ list = [First |-> NULL, Last |-> NULL, Size |-> 0] /\ next = [n \in {} |-> NULL]
  /\ region = 0 /\ given = {} /\ local = <<>> /\ merging = {}

(* The list, from its first node on, and the pairs it is about.            *)
Nodes ==
  LET upTo[k \in 0 .. Cardinality(DOMAIN next)] ==
        IF k = 0 THEN <<list.First>>
        ELSE LET nodes == upTo[k - 1]
             IN  IF Last(nodes) \in DOMAIN next THEN Append(nodes, next[Last(nodes)]) ELSE nodes
  IN  IF list.First = NULL THEN <<>> ELSE upTo[Cardinality(DOMAIN next)]

Connections == LET nodes == Nodes IN [k \in DOMAIN nodes |-> nodes[k].pair]
=============================================================================
