----------------------------- MODULE InspectionPoint -----------------------------
(* Inspection points (inspection_point.c): which cells of the grid each of *)
(* the outputs a stack file can ask for is computed from, on both kinds of *)
(* grid, in the output files and in the messages of the server.            *)
(*                                                                         *)
(* An inspection point has a type, the position of its stack element from  *)
(* the top, and where they apply a place on the chip and a floorplan       *)
(* element.  A value of an output is the sequence of the sets of cells     *)
(* from which it takes the maximum, minimum, average or gradient: one set  *)
(* per rectangle of a floorplan element, one set for anything else.        *)
EXTENDS NonUniformGrid

OutputTypes == {"TCELL", "TFLP", "TFLPEL", "TMAP", "T3D", "PMAP", "TCOOLANT"}

(* What the parser accepts, of points that name an element of the stack.   *)
Accepted(ip) ==
  LET e == stack[ip.element]
  IN  CASE ip.type = "TFLP"     -> e.type = "DIE"
        [] ip.type = "TFLPEL"   -> e.type = "DIE" /\ ip.flpel \in DOMAIN e.floorplan
        [] ip.type = "TCOOLANT" -> e.type = "CHANNEL"
        [] ip.type \in {"TCELL", "TMAP", "T3D", "PMAP"} -> TRUE

SourceLayer(ip) == get_source_layer_offset(ip.element)

-----------------------------------------------------------------------------
(* A cell.  On a uniform grid its row and column are found when the point  *)
(* is read; a point that is in none of them belongs to the last.           *)

FirstHolding(n, location(_), value) ==
  LET holding == {i \in 0 .. n - 1 : location(i) <= value /\ value < location(i + 1)}
  IN  IF holding = {} THEN n - 1 ELSE Min(holding)

align_tcell(ip) ==
  [row    |-> FirstHolding(declared.nrows, get_cell_location_y, ip.y),
   column |-> FirstHolding(declared.ncolumns, get_cell_location_x, ip.x)]

(* The list of the cells is walked, from the bottom-most layer on.         *)
CellsInLayer(l) == {i \in 0 .. Len(cells) - 1 : CellAt(i).layer = l}

InCell(ip, i) ==
  /\ CellAt(i).x0 <= ip.x /\ ip.x < CellAt(i).x1
  /\ CellAt(i).y0 <= ip.y /\ ip.y < CellAt(i).y1

get_non_uniform_inspection_cell_index(ip) ==
  LET holding == {i \in CellsInLayer(SourceLayer(ip)) : InCell(ip, i)}
  IN  IF holding = {} THEN 0 ELSE Min(holding)

CellRead(ip) ==
  IF declared.nonuniform THEN get_non_uniform_inspection_cell_index(ip)
  ELSE Cell(SourceLayer(ip), align_tcell(ip).row, align_tcell(ip).column)

-----------------------------------------------------------------------------
(* A floorplan element, rectangle by rectangle.  On a non-uniform grid     *)
(* only the first one has been given the numbers of its cells; those of    *)
(* the others are zero.                                                    *)

IcElementCells(p, j, i) ==
  LET l    == get_source_layer_offset(p)
      icel == stack[p].floorplan[j].rects[i]
  IN  IF ~ declared.nonuniform
      THEN {Cell(l, r, c) : r \in RowsOf(icel), c \in ColumnsOf(icel)}
      ELSE IF i = 1 THEN Index_start(p, j) .. Index_end(p, j) ELSE {0}

FloorplanElementCells(p, j) ==
  [i \in DOMAIN stack[p].floorplan[j].rects |-> IcElementCells(p, j, i)]

(* One value per element, in the order of the floorplan.                   *)
FloorplanCells(p) == [j \in DOMAIN stack[p].floorplan |-> FloorplanElementCells(p, j)]

-----------------------------------------------------------------------------
(* Maps.  On a uniform grid they are read as one stretch of cells.         *)

One(i) == <<{i}>>

LayerMap(l) ==
  IF declared.nonuniform
  THEN LET all == Ascending(CellsInLayer(l)) IN [k \in DOMAIN all |-> One(all[k])]
  ELSE [k \in 1 .. LayerArea |-> One(Cell(l, 0, 0) + k - 1)]

(* The map of the whole grid is there for non-uniform grids only.          *)
ThermalMap3D ==
  IF declared.nonuniform THEN [k \in 1 .. NCells |-> One(k - 1)] ELSE <<>>

-----------------------------------------------------------------------------
(* The outlet of a channel: the channel columns of the last row.  The      *)
(* temperature of the first column is what the computation begins with,    *)
(* whether or not it is that of a channel.                                 *)

LayerStart(l) ==
  IF declared.nonuniform THEN Min(CellsInLayer(l)) ELSE Cell(l, 0, 0)

Outlet == {c \in 0 .. declared.ncolumns - 1 : IsChannelColumn(c)}

OutletCells(l) ==
  {LayerStart(l) + (declared.nrows - 1) * declared.ncolumns + c : c \in {0} \cup Outlet}

CoolantOutlet(ip) == <<<<OutletCells(SourceLayer(ip))>>>>

-----------------------------------------------------------------------------
(* generate_inspection_point_output: the values of a line of the file.     *)
generate_inspection_point_output(ip) ==
  CASE ip.type = "TCELL"    -> <<One(CellRead(ip))>>
    [] ip.type = "TFLP"     -> FloorplanCells(ip.element)
    [] ip.type = "TFLPEL"   -> <<FloorplanElementCells(ip.element, ip.flpel)>>
    [] ip.type \in {"TMAP", "PMAP"} -> LayerMap(SourceLayer(ip))
    [] ip.type = "T3D"      -> ThermalMap3D
    [] ip.type = "TCOOLANT" -> CoolantOutlet(ip)

(* fill_message_inspection_point: what the words before the values say,    *)
(* and the values.  Names in the header of TFLP are left out, and there is *)
(* no message for T3D.                                                     *)
Message(sizes, values) == [sizes |-> sizes, values |-> values]

MapSizes(ip) ==
  IF declared.nonuniform THEN <<1, Cardinality(CellsInLayer(SourceLayer(ip)))>>
                         ELSE <<declared.nrows, declared.ncolumns>>

MapMessage(ip) == Message(MapSizes(ip), LayerMap(SourceLayer(ip)))

OutletMessage(ip) == Message(<<>>, CoolantOutlet(ip))

fill_message_inspection_point(ip) ==
  CASE ip.type \in {"TCELL", "TFLPEL"} ->
         Message(<<>>, generate_inspection_point_output(ip))
    [] ip.type = "TFLP" ->
         Message(<<Len(FloorplanCells(ip.element))>>, FloorplanCells(ip.element))
    [] ip.type \in {"TMAP", "PMAP"} -> MapMessage(ip)
    [] ip.type = "TCOOLANT" -> OutletMessage(ip)
    [] ip.type = "T3D" -> Message(<<>>, <<>>)
=============================================================================
