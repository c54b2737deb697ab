---------------------------- MODULE NonUniformMatrix ----------------------------
(* The system matrix of a non-uniform grid: the conductances of the        *)
(* connections that were found (thermal_grid.c), and the matrix that is    *)
(* made of them in one go and sorted (system_matrix.c).                    *)
(*                                                                         *)
(* Symbols are those of ThermalGrid, except that a cell has its south-west *)
(* corner in the place of its row and column, that the place its material  *)
(* comes from is added, which is not where the cell is, and that a formula *)
(* that does not use the whole face of the cell has the part it uses added *)
(* as well.                                                                *)
EXTENDS SystemMatrix, NonUniformGrid

LengthOf(i) == CellAt(i).x1 - CellAt(i).x0

WidthOf(i) == CellAt(i).y1 - CellAt(i).y0

Face(i) == LengthOf(i) * WidthOf(i)

KindOf(i) == Type(CellAt(i).layer).kind

InSpreaderLayer(i) == CellAt(i).layer >= NLayers

Use(symbol, value, whole) == IF value = whole THEN symbol ELSE symbol \o <<value>>

(* A cell of a source layer has the material of its floorplan element or,  *)
(* without one, of the layer, whatever layout of materials the layer has.  *)
(* All other cells have that of the layer at its row 0 and column 0, where *)
(* a layout may have another material than where they are; the formulas of *)
(* the coolant do without.                                                 *)
MaterialPlace(kind) == IF kind = "SOURCE" THEN "element" ELSE "row 0, column 0"

Named(formula, i) ==
  <<formula, CellAt(i).layer, IF KindOf(i) \in Solids THEN CellAt(i).y0 ELSE 0, CellAt(i).x0,
    MaterialPlace(KindOf(i))>>

get_capacity_non_uniform(i) ==
  IF InSpreaderLayer(i) THEN get_spreader_capacity
  ELSE CASE KindOf(i) \in Walls -> Zero
         [] CellAt(i).isChannel -> Named("coolant VHC lwh", i)
         [] IsVirtualWall(CellAt(i).layer) -> Named("VHC lwh (1 - porosity)", i)
         [] OTHER -> Named("VHC lwh", i)

(* Seeded fault: half of the height, in an outermost layer as well.        *)
ThroughHalf(i) == Named("kA/(h/2)", i)

(* Up (1) and down (-1).  That there is something to be connected to is    *)
(* known, so that the whole height counts in an outermost layer.           *)
ThroughSolid(i) ==
  LET l    == CellAt(i).layer
      sink == Type(l).sink
  IN  IF \/ sink = "NONE" /\ (first_layer(l) \/ last_layer(l))
         \/ sink = "CONNECTED_TO_SPREADER" /\ first_layer(l)
      THEN Named("kA/h", i) ELSE Named("kA/(h/2)", i)

ThroughCoolant(i, note) ==
  IF KindOf(i) \in Pins THEN Named("EFFECTIVE_HTC", i)
  ELSE Named(IF note = 1 THEN "HTCTop" ELSE "HTCBottom", i)

get_spreader_conductance_top_bottom_nonuniform(area) ==
  Use(get_spreader_conductance_top_bottom, area, declared.cell.Channel * declared.cell.Width)

get_conductance_non_uniform_z(i, value, note) ==
  IF InSpreaderLayer(i) THEN get_spreader_conductance_top_bottom_nonuniform(value)
  ELSE CASE KindOf(i) \in Solids -> Use(ThroughSolid(i), value, Face(i))
         [] CellAt(i).isChannel -> Use(ThroughCoolant(i, note), value, Face(i))
         [] IsVirtualWall(CellAt(i).layer) ->
              Use(Named("kA/(h/2) (1 - porosity)", i), value, Face(i))
         [] KindOf(i) \in Walls -> Zero
         [] OTHER -> Use(Named("kA/(h/2)", i), value, Face(i))

(* What the coolant carries, for the length of the cell it carries it in.  *)
get_convective_term_nonuniform(i, length) ==
  IF KindOf(i) = "CHANNEL_4RM" THEN <<"C", 0, 0, 0>>
  ELSE Use(<<"C", CellAt(i).layer, 0, CellAt(i).x0>>, length, LengthOf(i))

(* A virtual wall divides by the length of the connection, not by the      *)
(* width of the cell.                                                      *)
get_conductance_non_uniform_y(i, length) ==
  IF InSpreaderLayer(i) THEN get_spreader_conductance_north_south
  ELSE CASE CellAt(i).isChannel -> get_convective_term_nonuniform(i, length)
         [] KindOf(i) = "VWALL_CHANNEL" -> Named("klh/(l/2) (1 - porosity)", i)
         [] KindOf(i) \in Walls \cup {"VWALL_PINFINS"} -> Zero
         [] OTHER -> Use(Named("klh/(w/2)", i), length, LengthOf(i))

get_conductance_non_uniform_x(i, width) ==
  IF InSpreaderLayer(i) THEN get_spreader_conductance_east_west
  ELSE CASE KindOf(i) \in Solids -> Use(Named("kwh/(l/2)", i), width, WidthOf(i))
         [] KindOf(i) = "CHANNEL_4RM" ->
              Use(Named(IF CellAt(i).isChannel THEN "HTCSide" ELSE "kwh/(l/2)", i),
                  width, WidthOf(i))
         [] OTHER -> Zero

(* The coefficient of cell i in the equation of cell j, for the connection *)
(* <<i, j>>.                                                               *)
Vertical(i, j, value) ==
  LET note == IF CellAt(j).layer < CellAt(i).layer THEN 1 ELSE -1
      g1   == get_conductance_non_uniform_z(j, value, note)
      g2   == get_conductance_non_uniform_z(i, value, -note)
  IN  Term(-1, CASE g1 = Zero -> g2
                 [] g1 # Zero /\ g2 = Zero -> g1
                 [] g1 # Zero /\ g2 # Zero -> PARALLEL(g1, g2))

WestEast(i, j, value) ==
  Term(-1, PARALLEL(get_conductance_non_uniform_x(j, value),
                    get_conductance_non_uniform_x(i, value)))

SouthNorth(i, j, value) ==
  IF CellAt(i).isChannel
  THEN Term(IF CellAt(j).y0 < CellAt(i).y0 THEN 1 ELSE -1,
            get_conductance_non_uniform_y(i, value))
  ELSE Term(-1, PARALLEL(get_conductance_non_uniform_y(j, value),
                         get_conductance_non_uniform_y(i, value)))

get_conductance_non_uniform(i, j) ==
  LET value == ConnectionValue(i, j)
  IN  CASE Direction(i, j) = "z" -> Vertical(i, j, value)
        [] Direction(i, j) = "x" -> WestEast(i, j, value)
        [] Direction(i, j) = "y" -> SouthNorth(i, j, value)

Negative(sum) == [g \in DOMAIN sum |-> -sum[g]]

(* The sign of the other coefficient differs only along the coolant.       *)
SignNote(i, j, sum) ==
  IF Direction(i, j) = "y" /\ CellAt(i).isChannel THEN Negative(sum) ELSE sum

-----------------------------------------------------------------------------
(* add_solid_column_non_uniform.                                           *)

Entry(row, column, value) == [row |-> row, column |-> column, value |-> value]

OffDiagonal ==
  LET Both(i, j) ==
        LET g == get_conductance_non_uniform(i, j)
        IN  <<Entry(j, i, g), Entry(i, j, SignNote(i, j, g))>>
      found == Connections
  IN  FlattenSeq([k \in DOMAIN found |-> Both(found[k][1], found[k][2])])

(* The outlet is where a cell of the coolant ends at the border.  There is *)
(* no term for a heat sink at the bottom.                                  *)
Boundary(i) ==
  CASE InSpreaderLayer(i) -> Nothing
    [] ~ InSpreaderLayer(i) /\ CellAt(i).isChannel ->
         IF CellAt(i).y1 = declared.chip.Width
         THEN Term(2, get_convective_term_nonuniform(i, LengthOf(i))) ELSE Nothing
    [] OTHER -> IF Type(CellAt(i).layer).sink = "CONNECTED_TO_AMBIENT"
                THEN Term(1, Named("kA/(h/2), HTC", i)) ELSE Nothing

Diagonal(i, others) ==
  LET column == SelectSeq(others, LAMBDA e : e.column = i)
  IN  Entry(i, i, Plus(Plus(Term(1, get_capacity_non_uniform(i)), Boundary(i)),
                       Negative(Sum([k \in DOMAIN column |-> column[k].value]))))

(* Seeded fault: only the columns are compared.                            *)
compareColumns(a, b) == a.column < b.column

compare(a, b) == a.column < b.column \/ (a.column = b.column /\ a.row < b.row)

SortedEntries ==
  LET others == OffDiagonal
  IN  SortSeq(others \o [k \in 1 .. NCells |-> Diagonal(k - 1, others)], compare)

(* The columns end where the next entry belongs to another one.            *)
FillNonUniform ==
  /\ phase = "filling" /\ declared.nonuniform
  /\ \E sorted \in {SortedEntries} :
       /\ RowIndices' = [k \in DOMAIN sorted |-> sorted[k].row]
       /\ Values' = [k \in DOMAIN sorted |-> sorted[k].value]
       /\ ColumnPointers' = <<0>> \o SelectSeq([k \in DOMAIN sorted |-> k],
            LAMBDA k : k = Len(sorted) \/ sorted[k + 1].column # sorted[k].column)
  /\ phase' = "filled"
  /\ UNCHANGED <<parserVars, gridVars, LayersTypeProfile, at>>
=============================================================================
