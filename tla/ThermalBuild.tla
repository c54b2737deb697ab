------------------------------ MODULE ThermalBuild ------------------------------
(* thermal_data_build as a whole, on uniform and on non-uniform grids: the *)
(* parsed stack is made a grid, its layers get their types, the system     *)
(* matrix is written and the source vector filled for a slot, after which  *)
(* the inspection points of the stack may be read.                         *)
EXTENDS NonUniformMatrix, InspectionPoint

VARIABLE Sources  \* what each cell gets per unit of power and per degree of
                  \* the ambient or inlet temperature

buildVars == <<vars, gridVars, Sources>>

-----------------------------------------------------------------------------
(* update_source_vector for a non-uniform grid.                            *)

(* The elements of a floorplan take the cells of their layer in turns.     *)
NonUniformFloorplanSource(l, i) ==
  LET p    == ElementOfLayer(l)
      rank == i - Min(CellsOfLayer(l))
      upTo(j) == MapThenSumSet(LAMBDA m : SizeOf(p, m), 1 .. j)
      mine == {j \in DOMAIN stack[p].floorplan : upTo(j - 1) <= rank /\ rank < upTo(j)}
  IN  Sum([j \in DOMAIN stack[p].floorplan |->
             IF j \in mine THEN Power(l, j, 1, SizeOf(p, j)) ELSE Nothing])

InletTerm(l, c) ==
  Term(2, IF declared.nonuniform /\ declared.channel # "MC_4RM" THEN <<"C", l, 0, West(c)>>
          ELSE get_convective_term(l, c))

HasInlets(l) == Type(l).kind \in {"CHANNEL_4RM", "CHANNEL_2RM"} \cup Pins

(* The first cells of a channel layer are those of its first row.          *)
NonUniformInlet(l, i) ==
  LET c == i - Min(CellsOfLayer(l))
  IN  IF c < declared.ncolumns /\ IsChannelColumn(c) THEN InletTerm(l, c) ELSE Nothing

NonUniformTopTcs(i) == Named("kA/(h/2), HTC", i)

NonUniformBottomTcs(i) == Named("kA/(h/2)", i)

NonUniformEnvironment(l, i) ==
  CASE Type(l).sink = "CONNECTED_TO_AMBIENT" -> Term(1, NonUniformTopTcs(i))
    [] Type(l).sink = "CONNECTED_TO_PCB" -> Term(1, NonUniformBottomTcs(i))
    [] HasInlets(l) -> NonUniformInlet(l, i)
    [] OTHER -> Nothing

NonUniformSource(i) ==
  LET l == CellAt(i).layer
  IN  IF InSpreaderLayer(i) THEN Nothing
      ELSE Plus(NonUniformEnvironment(l, i),
                IF Type(l).kind = "SOURCE" THEN NonUniformFloorplanSource(l, i) ELSE Nothing)

(* And for a uniform one.                                                  *)
UniformSource(i) ==
  LET l == i \div LayerArea
      r == (i % LayerArea) \div declared.ncolumns
      c == (i % LayerArea) % declared.ncolumns
  IN  IF l >= NLayers THEN Nothing
      ELSE Plus(EnvironmentSource(l, r, c),
                IF Type(l).kind = "SOURCE" THEN FloorplanSource(l, r, c) ELSE Nothing)

(* At the beginning of every slot.                                         *)
UpdateSourceVector ==
  /\ (phase = "filled" /\ Sources = <<>>) \/ phase = "ready"
  /\ Sources' = [k \in 1 .. NCells |->
                   IF declared.nonuniform THEN NonUniformSource(k - 1) ELSE UniformSource(k - 1)]
  /\ phase' = "ready"
  /\ UNCHANGED <<parserVars, matrixVars, gridVars>>

-----------------------------------------------------------------------------
(* update_coolant_flow_rate: with the new rate the matrix is written again *)
(* and then the inlets get their source.  Until then what the source       *)
(* vector has of the coolant is of the old rate.                           *)

Old(g) == IF g[1] = "C" THEN <<"old C", g[2], g[3], g[4]>> ELSE g

OldRate(sum) ==
  [g \in {Old(h) : h \in DOMAIN sum} |-> sum[CHOOSE h \in DOMAIN sum : Old(h) = g]]

ChangeFlow ==
  /\ phase = "ready" /\ Count("CHANNEL", stack) > 0
  /\ phase' = "filling" /\ at' = Start
  /\ ColumnPointers' = <<0>> /\ RowIndices' = <<>> /\ Values' = <<>>
  /\ Sources' = [k \in DOMAIN Sources |-> OldRate(Sources[k])]
  /\ UNCHANGED <<parserVars, LayersTypeProfile, gridVars>>

(* Seeded fault: the outlets are taken for the inlets.                     *)
AtOutletRow(l, c) == Cell(l, declared.nrows - 1, c)

(* update_channel_sources walks the layers in steps of a layer of the      *)
(* uniform grid, on both grids.                                            *)
InletOf(l, c) == Cell(l, 0, c)

UpdateChannelSources ==
  /\ phase = "filled" /\ Sources # <<>>
  /\ LET inlets == {lc \in (0 .. NLayers - 1) \X (0 .. declared.ncolumns - 1) :
                       HasInlets(lc[1]) /\ IsChannelColumn(lc[2])}
         At(k) == {lc \in inlets : InletOf(lc[1], lc[2]) = k - 1}
     IN  Sources' = [k \in DOMAIN Sources |->
                       IF At(k) = {} THEN Sources[k]
                       ELSE LET lc == CHOOSE lc \in At(k) : TRUE IN InletTerm(lc[1], lc[2])]
  /\ phase' = "ready"
  /\ UNCHANGED <<parserVars, matrixVars, gridVars>>

-----------------------------------------------------------------------------
BuildInit == Init /\ GridInit /\ Sources = <<>>

(* The stack section, now with the floorplans of its dies.                 *)
ParseStack ==
  /\ (\E e \in Elements : ParseElement(e)) \/ EndStack
  /\ UNCHANGED <<matrixVars, gridVars, Sources>>

BuildGrid == GenerateCells /\ UNCHANGED <<matrixVars, Sources>>

ConnectCells == Connect /\ UNCHANGED <<matrixVars, Sources>>

SetLayerTypes ==
  /\ GridFill(IF declared.nonuniform THEN "connected" ELSE "parsed")
  /\ UNCHANGED <<gridVars, Sources>>

FillMatrix ==
  /\ \/ ~ declared.nonuniform /\ FillColumn /\ UNCHANGED gridVars
     \/ FillNonUniform
  /\ UNCHANGED Sources

BuildNext ==
  \/ ParseStack \/ BuildGrid \/ ConnectCells \/ SetLayerTypes \/ FillMatrix
  \/ UpdateSourceVector \/ ChangeFlow \/ UpdateChannelSources

BuildSpec == BuildInit /\ [][BuildNext]_buildVars

-----------------------------------------------------------------------------
(* The geometry that the properties compare with.  A cell of a uniform     *)
(* grid is a rectangle as well.                                            *)

UniformRectangle(r, c) ==
  [x0 |-> get_cell_location_x(c), x1 |-> get_cell_location_x(c) + get_cell_length(c),
   y0 |-> get_cell_location_y(r), y1 |-> get_cell_location_y(r + 1)]

CellRectangle(i) ==
  IF declared.nonuniform THEN CellAt(i)
  ELSE UniformRectangle((i % LayerArea) \div declared.ncolumns,
                        (i % LayerArea) % declared.ncolumns)

LayerOfCell(i) == IF declared.nonuniform THEN CellAt(i).layer ELSE i \div LayerArea

RectangleOf(icel) ==
  [x0 |-> icel.x, x1 |-> icel.x + icel.l, y0 |-> icel.y, y1 |-> icel.y + icel.w]

(* How many units two rectangles share, along one axis and in all.         *)
Common(from1, to1, from2, to2) == Max({0, Min({to1, to2}) - Max({from1, from2})})

CommonX(a, b) == Common(a.x0, a.x1, b.x0, b.x1)

CommonY(a, b) == Common(a.y0, a.y1, b.y0, b.y1)

CommonArea(a, b) == CommonX(a, b) * CommonY(a, b)

-----------------------------------------------------------------------------
(* What has to be joined, from the kinds of the layers.                    *)

KindAt(l) == IF l = NLayers THEN "SPREADER" ELSE Profile[l + 1].kind

VirtualWalls == {"VWALL_CHANNEL", "VWALL_PINFINS"}

Insulated(kind) ==
  CASE kind \in Walls \cup {"VWALL_PINFINS"} -> {"x", "y"}
    [] kind \in {"VWALL_CHANNEL", "CHANNEL_2RM"} \cup Pins -> {"x"}
    [] OTHER -> {}

(* A virtual wall goes past the coolant that is numbered above it.         *)
JoinedLayers(l, m) ==
  \/ m = l + 1 /\ KindAt(l) \notin VirtualWalls
  \/ m = l + 2 /\ KindAt(l) \in VirtualWalls \cup {"BOTTOM_WALL"}

Beside(a, b) ==
  CASE a.x0 = b.x1 \/ a.x1 = b.x0 -> IF CommonY(a, b) > 0 THEN "x" ELSE "none"
    [] a.y0 = b.y1 \/ a.y1 = b.y0 -> IF CommonX(a, b) > 0 THEN "y" ELSE "none"
    [] OTHER -> "none"

Adjacent(i, j) ==
  LET a == CellAt(i)  b == CellAt(j)
  IN  IF a.layer = b.layer THEN Beside(a, b) \notin Insulated(KindAt(a.layer)) \cup {"none"}
      ELSE JoinedLayers(a.layer, b.layer) /\ CommonArea(a, b) > 0

(* The computed length of a border within a layer is too long if the side  *)
(* of one cell ends on either side beyond that of the other: it reaches to *)
(* the nearer end.                                                         *)
Excess(from1, to1, from2, to2) ==
  CASE from1 < from2 /\ to2 < to1 -> Min({from2 - from1, to1 - to2})
    [] from2 < from1 /\ to1 < to2 -> Min({from1 - from2, to2 - to1})
    [] OTHER -> 0

(* Whatever the order in which the threads find and append connections:    *)
(* once the search is over, the list that starts at its first node and     *)
(* follows the links has every pair of cells that touch in a direction in  *)
(* which heat flows, and every pair with a common area in two layers that  *)
(* are joined, once each; there are as many as its size says, none is lost *)
(* when a thread appends to the end another one is about to move.  The     *)
(* value of a connection is the area or the length its cells share (but    *)
(* see Excess), and the cells are as many as were counted before there     *)
(* were any.                                                               *)
ConnectionsComplete ==
  phase = "connected" =>
    LET found == Connections
        pairs == Range(found)
    IN  /\ pairs = {pair \in (0 .. NCells - 1) \X (0 .. NCells - 1) :
                       pair[1] < pair[2] /\ Adjacent(pair[1], pair[2])}
        /\ Len(found) = Cardinality(pairs) /\ Len(found) = list.Size
        /\ \A pair \in pairs :
             LET a == CellAt(pair[1])  b == CellAt(pair[2])
             IN  ConnectionValue(pair[1], pair[2]) =
                   CASE Direction(pair[1], pair[2]) = "z" -> CommonArea(a, b)
                     [] Direction(pair[1], pair[2]) = "x" -> CommonY(a, b) + Excess(a.y0, a.y1, b.y0, b.y1)
                     [] Direction(pair[1], pair[2]) = "y" -> CommonX(a, b) + Excess(a.x0, a.x1, b.x0, b.x1)
        /\ Len(cells) = NCells

(* When the search is over, the list is what all parts of all regions have *)
(* found: every node that was allocated is on it once, and there are as    *)
(* many as its size says.  No order of the threads loses a local list that *)
(* one of them appends while another one does.                             *)
NoConnectionLost ==
  phase = "connected" =>
    LET nodes == Nodes
    IN  /\ Range(nodes) = UNION {UNION {Range(Allocated(n, k)) : k \in Parts(Regions[n])} :
                                   n \in DOMAIN Regions}
        /\ IsInjective(nodes) /\ Len(nodes) = list.Size

(* The solver gets, on either grid, one column per cell, in the order of   *)
(* the cells, with the rows of the cell and of what it is connected to in  *)
(* ascending order and once each; on a non-uniform grid this must come out *)
(* of a list in the order of the threads.                                  *)
SortedColumns ==
  phase = "ready" =>
    /\ Columns = NCells
    /\ \A j \in 0 .. Columns - 1 :
         LET rows == RowsOfColumn(j)
         IN  /\ \A k \in 1 .. Len(rows) - 1 : rows[k] < rows[k + 1]
             /\ j \in Range(rows) /\ Range(rows) \subseteq 0 .. NCells - 1
    /\ declared.nonuniform => Len(RowIndices) = NConnections

-----------------------------------------------------------------------------
CapacityOf(i) ==
  IF declared.nonuniform THEN get_capacity_non_uniform(i)
  ELSE IF i >= NLayers * LayerArea THEN get_spreader_capacity
  ELSE get_capacity(i \div LayerArea, (i % LayerArea) \div declared.ncolumns,
                    (i % LayerArea) % declared.ncolumns)

WithoutPower(sum) == [g \in {h \in DOMAIN sum : h[1] # "P"} |-> sum[g]]

(* The source vector has nothing of an old flow rate.                      *)
OfThisRate == \A i \in DOMAIN Sources : \A g \in DOMAIN Sources[i] : g[1] # "old C"

(* "the source vector will be upadted with the new inlet source value"     *)
(* (thermal_data.h:319), once the flow rate has been changed.              *)
InletFollowsFlow == phase = "ready" => OfThisRate

(* Matrix and source vector are made for the same heat sinks, inlets and   *)
(* flow rate, by different functions, on either grid: without power, a     *)
(* stack at the temperature of ambient and coolant stays there, also after *)
(* a change of the flow rate.  On a non-uniform grid this leaves out       *)
(* stacks on a board, whose matrix has no term for it, and a changed flow  *)
(* rate until the next slot; on a uniform one, grids of one row (see       *)
(* Equilibrium).                                                           *)
SourcesBalance ==
  /\ phase = "ready"
  /\ IF declared.nonuniform THEN ~ declared.bottom /\ OfThisRate ELSE declared.nrows > 1
  => \A i \in 0 .. NCells - 1 :
       Same(RowSum(i), Plus(Term(1, CapacityOf(i)), WithoutPower(Sources[i + 1])))

(* The column of the uniform grid's matrix for a cell.                     *)
UniformColumn(l, r, c) ==
  IF l = NLayers THEN SpreaderColumn(r, c)
  ELSE CASE Type(l).kind \in Solids -> SolidColumn(l, r, c)
         [] Type(l).kind = "CHANNEL_4RM" -> IF IsChannelColumn(c) THEN LiquidColumn4rm(l, r, c)
                                                                 ELSE SolidColumn(l, r, c)
         [] Type(l).kind \in {"CHANNEL_2RM"} \cup Pins -> LiquidColumn2rm(l, r, c)
         [] Type(l).kind \in VirtualWalls -> VirtualWallColumn2rm(l, r, c)
         [] Type(l).kind = "TOP_WALL" -> TopWallColumn2rm(l, r, c)
         [] Type(l).kind = "BOTTOM_WALL" -> BottomWallColumn2rm(l, r, c)

UniformValue(entries, k, own) ==
  IF entries[k].row # own THEN entries[k].value
  ELSE Plus(entries[k].value, Sum([m \in DOMAIN entries |-> entries[m].share]))

Placeless == {"C", "spreader kA/(h/2)", "spreader klh/(w/2)", "spreader kwh/(l/2)",
              "spreader VHC lwh"}

(* A symbol of the uniform grid as it is on the other: with the corner of  *)
(* its cell and, unless it is of the spreader or of the coolant carried    *)
(* along, the place the other code takes the material from.  Along a       *)
(* virtual wall the two formulas differ; they are taken for the same.      *)
Corner(h) ==
  IF h = Zero THEN h
  ELSE <<IF h[1] = "klh/(w/2) (1 - porosity)" THEN "klh/(l/2) (1 - porosity)" ELSE h[1],
         h[2], get_cell_location_y(h[3]), get_cell_location_x(h[4])>>
       \o IF h[1] \in Placeless THEN <<>> ELSE <<MaterialPlace(Type(h[2]).kind)>>

AtCorner(g) == IF g[1] = "PARALLEL" THEN <<"PARALLEL", {Corner(h) : h \in g[2]}>> ELSE Corner(g)

AtCorners(sum) ==
  [g \in {AtCorner(h) : h \in DOMAIN sum} |-> sum[CHOOSE h \in DOMAIN sum : AtCorner(h) = g]]

UniformCells == (0 .. NLayers - (IF Pluggable THEN 0 ELSE 1))
                  \X (0 .. declared.nrows - 1) \X (0 .. declared.ncolumns - 1)

(* Every cell is the one a uniform grid has with the same number.          *)
IsUniform ==
  /\ NCells = Cardinality(UniformCells)
  /\ \A cell \in UniformCells :
       CommonArea(CellAt(Cell(cell[1], cell[2], cell[3])), UniformRectangle(cell[2], cell[3])) =
         declared.cell.Width * get_cell_length(cell[3])

(* Where the floorplans and discretisations ask for the cells of a uniform *)
(* grid, the matrix for non-uniform grids has the coefficients of the one  *)
(* for uniform grids, each made of the same formulas for the same cells:   *)
(* the two are written by different code, cell by cell and connection by   *)
(* connection.  The materials in the formulas are the same only in layers  *)
(* without a material layout under elements without a material: uniform    *)
(* grids look a layout up at the cell (layer.c:186) and know no materials  *)
(* of elements, the others do as MaterialPlace says.  Excepted are also    *)
(* the terms of a board and those along a virtual wall, in which the code  *)
(* differs, and grids of one row.                                          *)
AgreesWithUniform ==
  phase = "ready" /\ declared.nonuniform /\ ~ declared.bottom /\ declared.nrows > 1 /\ IsUniform =>
    \A cell \in UniformCells :
      LET j       == Cell(cell[1], cell[2], cell[3])
          entries == UniformColumn(cell[1], cell[2], cell[3])
      IN  /\ RowsOfColumn(j) = [k \in DOMAIN entries |-> entries[k].row]
          /\ \A k \in DOMAIN entries :
               Same(AtCorners(UniformValue(entries, k, j)), Coefficient(entries[k].row, j))

-----------------------------------------------------------------------------
SourceLayers == {l \in 0 .. NLayers - 1 : Type(l).kind = "SOURCE"}

(* The elements of a floorplan whose rectangles all count.                 *)
Counted(flpel) == declared.nonuniform => Len(flpel.rects) = 1

CoveredArea(flpel, i) ==
  MapThenSumSet(LAMBDA k : CommonArea(CellRectangle(i), RectangleOf(flpel.rects[k])),
                DOMAIN flpel.rects)

PowerSymbols(l, j, i) == {g \in DOMAIN Sources[i + 1] : SubSeq(g, 1, 3) = <<"P", l, j>>}

(* The power of a floorplan element reaches the cells of the source layer  *)
(* of its die that it covers, each in proportion to the area it covers of  *)
(* it, and no other cell; and all of it arrives, nothing is lost beyond    *)
(* the border of the chip, nor by a change of the flow rate (on a uniform  *)
(* grid: on another one the new inlet values replace those of other cells  *)
(* until the next slot).                                                   *)
PowerReachesItsCells ==
  phase = "ready" /\ (declared.nonuniform => OfThisRate) =>
    \A l \in SourceLayers : \A j \in DOMAIN FloorplanOfLayer(l) :
      LET flpel == FloorplanOfLayer(l)[j]
      IN  Counted(flpel) =>
            /\ \A i \in 0 .. NCells - 1 : \A g \in PowerSymbols(l, j, i) :
                 Sources[i + 1][g] * Area(flpel) =
                   (IF LayerOfCell(i) = l THEN CoveredArea(flpel, i) ELSE 0) * g[4]
            /\ MapThenSumSet(LAMBDA i : IF PowerSymbols(l, j, i) = {} THEN 0
                                        ELSE CoveredArea(flpel, i), 0 .. NCells - 1) = Area(flpel)

-----------------------------------------------------------------------------
Point(type, p, x, y, j) == [type |-> type, element |-> p, x |-> x, y |-> y, flpel |-> j]

CellsUnder(l, rectangle) ==
  {i \in 0 .. NCells - 1 : LayerOfCell(i) = l /\ CommonArea(CellRectangle(i), rectangle) > 0}

WholeChip == RectangleOf(Chip)

Written(ip) == generate_inspection_point_output(ip)

Sent(ip) == fill_message_inspection_point(ip)

(* A point on the chip that a cell of the layer has.                       *)
UnitAt(x, y) == [x0 |-> x, x1 |-> x + 1, y0 |-> y, y1 |-> y + 1]

CellOutputs(p) ==
  \A x \in 0 .. declared.chip.Length - 1 : \A y \in 0 .. declared.chip.Width - 1 :
    LET under == CellsUnder(get_source_layer_offset(p), UnitAt(x, y))
        ip    == Point("TCELL", p, x, y, 0)
    IN  under # {} => Written(ip) = <<<<under>>>> /\ Sent(ip).values = Written(ip)

MapOutputs(p) ==
  \A type \in {"TMAP", "PMAP"} :
    LET ip == Point(type, p, 0, 0, 0)
        all == Ascending(CellsUnder(get_source_layer_offset(p), WholeChip))
    IN  /\ Written(ip) = [k \in DOMAIN all |-> One(all[k])]
        /\ Sent(ip).values = Written(ip) /\ Sent(ip).sizes[1] * Sent(ip).sizes[2] = Len(Written(ip))

ElementOutputs(p) ==
  \A j \in {m \in DOMAIN stack[p].floorplan : Counted(stack[p].floorplan[m])} :
    LET rects == stack[p].floorplan[j].rects
        read  == [i \in DOMAIN rects |-> CellsUnder(get_source_layer_offset(p), RectangleOf(rects[i]))]
        ip    == Point("TFLPEL", p, 0, 0, j)
        all   == Point("TFLP", p, 0, 0, 0)
    IN  /\ Accepted(ip) /\ Written(ip) = <<read>> /\ Sent(ip).values = Written(ip)
        /\ Written(all)[j] = read /\ Sent(all) = Message(<<Len(stack[p].floorplan)>>, Written(all))

AtOutlet(l) ==
  {i \in CellsUnder(l, WholeChip) : CellRectangle(i).y1 = declared.chip.Width}

HasCoolant(l, i) ==
  IF declared.nonuniform THEN CellAt(i).isChannel
  ELSE IsCoolant(l, (i % LayerArea) % declared.ncolumns)

CoolantOutputs(p) ==
  LET l  == get_source_layer_offset(p)
      ip == Point("TCOOLANT", p, 0, 0, 0)
  IN  /\ Written(ip) = <<<<{Min(AtOutlet(l))} \cup {i \in AtOutlet(l) : HasCoolant(l, i)}>>>>
      /\ Sent(ip).values = Written(ip)

(* Every output is computed from the cells it is about, on either grid and *)
(* alike in the file and in the message: a cell output from the cell of    *)
(* the source layer that has the point, an element's from the cells its    *)
(* rectangles cover, a map from the layer cell by cell, with as many       *)
(* values as its sizes promise; the outlet of a channel from its coolant   *)
(* at the north border (and the first column, see OutletCells).  Points no *)
(* cell has, and the second rectangle of an element of a non-uniform grid, *)
(* are excepted: for those the program reads cell 0.                       *)
OutputsReadTheirCells ==
  phase = "ready" =>
    \A p \in DOMAIN stack :
      /\ CellOutputs(p) /\ MapOutputs(p)
      /\ stack[p].type = "DIE" => ElementOutputs(p)
      /\ stack[p].type = "CHANNEL" => CoolantOutputs(p)
      /\ \A ip \in {Point(type, p, 0, 0, 1) : type \in {"TFLP", "TCOOLANT"}} :
           Accepted(ip) => stack[p].type = (IF ip.type = "TFLP" THEN "DIE" ELSE "CHANNEL")
=============================================================================
