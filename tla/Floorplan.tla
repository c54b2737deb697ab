------------------------------- MODULE Floorplan -------------------------------
(* The geometry of the chip: where the rows and columns of the uniform     *)
(* grid lie (dimensions.c), which of its cells a rectangle of a floorplan  *)
(* covers (ic_element.c), how the power of an element is divided among     *)
(* them (floorplan_matrix.c), and which layer of a stack element a         *)
(* floorplan belongs to.                                                   *)
(*                                                                         *)
(* All lengths are multiples of one unit.  A declaration has, besides what *)
(* StackDescription needs, the size of the chip, those of the cells and    *)
(* the default discretisation; a die has a sequence of floorplan elements. *)
(* Elements, dies and layers may ask for a number of cells (0: they do     *)
(* not).                                                                   *)
EXTENDS ThermalGrid

(* Only the 4RM model has columns of different lengths.                    *)
Columns4rm(d) ==
  LET ratio == (d.chip.Length - d.cell.FirstWall - d.cell.LastWall - d.cell.Channel)
                 \div (d.cell.Channel + d.cell.Wall)
  IN  2 * ratio + 3

FitsLength(d) ==
  (d.chip.Length - d.cell.FirstWall - d.cell.LastWall - d.cell.Channel)
    % (d.cell.Channel + d.cell.Wall) = 0

GridOfChip(d) ==
  /\ d.nrows = d.chip.Width \div d.cell.Width /\ d.discr.y = d.nrows
  /\ IF d.channel = "MC_4RM"
     THEN FitsLength(d) /\ d.ncolumns = Columns4rm(d)
     ELSE /\ {d.cell.FirstWall, d.cell.LastWall, d.cell.Wall} = {d.cell.Channel}
          /\ d.ncolumns = d.chip.Length \div d.cell.Channel

ASSUME FloorplanAssumption == \A d \in Stacks : d.nonuniform \in BOOLEAN /\ GridOfChip(d)

-----------------------------------------------------------------------------
(* Rows and columns of the uniform grid.                                   *)

get_cell_length(c) ==
  IF c = 0 THEN declared.cell.FirstWall
  ELSE IF c = declared.ncolumns - 1 THEN declared.cell.LastWall
  ELSE IF c % 2 = 1 THEN declared.cell.Channel ELSE declared.cell.Wall

get_cell_location_x(c) ==
  IF c = 0 THEN 0
  ELSE declared.cell.FirstWall + declared.cell.Channel * (c \div 2)
         + declared.cell.Wall * ((c - 1) \div 2)

get_cell_location_y(r) == declared.cell.Width * r

-----------------------------------------------------------------------------
(* A rectangle of a floorplan, icel = [x, y, l, w].                        *)

check_location(icel) ==
  \/ icel.x < 0 \/ icel.x + icel.l > declared.chip.Length
  \/ icel.y < 0 \/ icel.y + icel.w > declared.chip.Width

(* The lines of the grid are searched one after the other: south-west of   *)
(* the corner the last one at or before it, north-east the last one before *)
(* it.  The search does not stop at the border of the chip.                *)
FirstOf(after(_), from) ==
  Min({i \in from .. 2 * (declared.nrows + declared.ncolumns) : after(i)})

SW_Column(icel) == FirstOf(LAMBDA c : get_cell_location_x(c + 1) > icel.x, 0)

SW_Row(icel) == FirstOf(LAMBDA r : get_cell_location_y(r + 1) > icel.y, 0)

(* Seeded fault: a rectangle ends in the next cell if it ends on a line.   *)
NE_ColumnBeyond(icel) ==
  FirstOf(LAMBDA c : get_cell_location_x(c + 1) > icel.x + icel.l, SW_Column(icel))

NE_Column(icel) ==
  FirstOf(LAMBDA c : get_cell_location_x(c + 1) >= icel.x + icel.l, SW_Column(icel))

NE_Row(icel) ==
  FirstOf(LAMBDA r : get_cell_location_y(r + 1) >= icel.y + icel.w, SW_Row(icel))

RowsOf(icel) == SW_Row(icel) .. NE_Row(icel)

ColumnsOf(icel) == SW_Column(icel) .. NE_Column(icel)

-----------------------------------------------------------------------------
(* The elements of a floorplan.                                            *)

Area(flpel) == MapThenSumSet(LAMBDA i : flpel.rects[i].l * flpel.rects[i].w, DOMAIN flpel.rects)

(* A rectangle is divided along the lines of the grid (floorplan_matrix_   *)
(* fill): the length of the part in a column, the width of that in a row.  *)
PatchLength(icel, c) ==
  (IF c < NE_Column(icel) THEN get_cell_location_x(c + 1) ELSE icel.x + icel.l)
    - (IF c = SW_Column(icel) THEN icel.x ELSE get_cell_location_x(c))

PatchWidth(icel, r) ==
  (IF r < NE_Row(icel) THEN get_cell_location_y(r + 1) ELSE icel.y + icel.w)
    - (IF r = SW_Row(icel) THEN icel.y ELSE get_cell_location_y(r))

(* The coefficients of an element are the areas of these parts, each of    *)
(* them divided by the area of the element; floorplan_matrix_multiply adds *)
(* up those of one cell.                                                   *)
Surface(flpel, r, c) ==
  LET over == {i \in DOMAIN flpel.rects : r \in RowsOf(flpel.rects[i])
                                            /\ c \in ColumnsOf(flpel.rects[i])}
  IN  MapThenSumSet(LAMBDA i : PatchLength(flpel.rects[i], c) * PatchWidth(flpel.rects[i], r), over)

(* The floorplan of a die is read before the die gets to the stack.        *)
LocalAbort(flpel) == \E i \in DOMAIN flpel.rects : check_location(flpel.rects[i])

FloorplanFails(e) ==
  e.type = "DIE" /\ \E j \in DOMAIN e.floorplan : LocalAbort(e.floorplan[j])

(* Seeded fault: the location of the elements is not looked at.            *)
ParseAnyElement(e) == AddElement(e)

ParseElement(e) ==
  IF FloorplanFails(e)
  THEN /\ phase = "parsing" /\ Len(stack) < MaxElements
       /\ phase' = "aborted"
       /\ UNCHANGED parserVars
  ELSE AddElement(e)

-----------------------------------------------------------------------------
(* The layers of stack element p, which is a position from the top.        *)

Offset(p) == LayersOf(SubSeq(stack, p + 1, Len(stack)))

get_source_layer_offset(p) ==
  Offset(p) + (CASE stack[p].type = "DIE" -> stack[p].source
                 [] stack[p].type = "CHANNEL" -> IF declared.channel = "MC_4RM" THEN 0 ELSE 2
                 [] stack[p].type = "LAYER" -> 0)

ElementOfLayer(l) ==
  CHOOSE p \in DOMAIN stack : l \in Offset(p) .. Offset(p) + ElementLayers(stack[p]) - 1

FloorplanOfLayer(l) == stack[ElementOfLayer(l)].floorplan

(* What element j of the floorplan gives to cell (r, c) of a source layer  *)
(* when it dissipates one unit of power.                                   *)
Power(l, j, share, of) == Term(share, <<"P", l, j, of>>)

FloorplanSource(l, r, c) ==
  Sum([j \in DOMAIN FloorplanOfLayer(l) |->
         Power(l, j, Surface(FloorplanOfLayer(l)[j], r, c), Area(FloorplanOfLayer(l)[j]))])
=============================================================================
