------------------------------ MODULE SystemMatrix ------------------------------
(* The sparse matrix of the thermal network, for uniform grids: the types  *)
(* of the layers are set, and fill_system_matrix writes the matrix one     *)
(* column per cell, layer after layer, in the arrays that                  *)
(* system_matrix_build allocates for the connections the parser counted    *)
(* (system_matrix.c), for a transient analysis.                            *)
(*                                                                         *)
(* Coefficients are sums of the symbols of ThermalGrid.  Columns are       *)
(* numbered from 0, as the cells are.                                      *)
EXTENDS ThermalGrid

VARIABLES
  at,                 \* the cell whose column is next: layer, row, column
  ColumnPointers,     \* where each column begins in RowIndices
  RowIndices,         \* the rows of the coefficients, column after column
  Values              \* the coefficients

matrixVars == <<LayersTypeProfile, at, ColumnPointers, RowIndices, Values>>

vars == <<parserVars, matrixVars, phase>>

GridFill(before) ==
  /\ phase = before
  /\ LET profile == WithTopSink(Profile)
     IN  IF (Pluggable /\ has_4RM_layers) \/ SinksClash(profile)
         THEN /\ phase' = "aborted"
              /\ UNCHANGED LayersTypeProfile
         ELSE /\ phase' = "filling"
              /\ LayersTypeProfile' = WithBottomSink(profile)
  /\ UNCHANGED <<parserVars, at, ColumnPointers, RowIndices, Values>>

-----------------------------------------------------------------------------
(* The coefficients of one column, in the order they are written: the row, *)
(* the value, and what is added to the diagonal once all are known.        *)

When(condition, entry) == IF condition THEN <<entry>> ELSE <<>>

Conducts(row, g) == [row |-> row, value |-> Term(-1, g), share |-> Term(1, g)]

Carries(row, g) == [row |-> row, value |-> Term(1, g), share |-> Nothing]

Own(row, capacity, boundary) ==
  [row |-> row, value |-> Plus(Term(1, capacity), boundary), share |-> Nothing]

(* A face that is insulated on the other side has only its own half.       *)
Joint(own, other) == IF other = Zero THEN own ELSE PARALLEL(own, other)

ToSpreader(l) == Type(l).sink = "CONNECTED_TO_SPREADER"

(* Seeded fault: the diagonal of a layer on the board has no heat sink.    *)
TopSinkOnly(l, r, c) ==
  IF Type(l).sink = "CONNECTED_TO_AMBIENT" THEN Term(1, get_conductance_top(l, r, c)) ELSE Nothing

SinkTerm(l, r, c) ==
  CASE Type(l).sink = "CONNECTED_TO_AMBIENT" -> Term(1, get_conductance_top(l, r, c))
    [] Type(l).sink = "CONNECTED_TO_PCB"     -> Term(1, get_conductance_bottom(l, r, c))
    [] OTHER -> Nothing

SolidColumn(l, r, c) ==
  When(~ first_layer(l), Conducts(Cell(l - 1, r, c),
         Joint(get_conductance_bottom(l, r, c), get_conductance_top(l - 1, r, c))))
    \o When(~ first_row(r), Conducts(Cell(l, r - 1, c),
         PARALLEL(get_conductance_south(l, r, c), get_conductance_north(l, r - 1, c))))
    \o When(c # 0, Conducts(Cell(l, r, c - 1),
         PARALLEL(get_conductance_west(l, r, c), get_conductance_east(l, r, c - 1))))
    \o <<Own(Cell(l, r, c), get_capacity(l, r, c), SinkTerm(l, r, c))>>
    \o When(c # declared.ncolumns - 1, Conducts(Cell(l, r, c + 1),
         PARALLEL(get_conductance_east(l, r, c), get_conductance_west(l, r, c + 1))))
    \o When(~ last_row(r), Conducts(Cell(l, r + 1, c),
         PARALLEL(get_conductance_north(l, r, c), get_conductance_south(l, r + 1, c))))
    \o When(~ last_layer(l), Conducts(Cell(l + 1, r, c),
         Joint(get_conductance_top(l, r, c), get_conductance_bottom(l + 1, r, c))))
    \o When(ToSpreader(l), Conducts(SpreaderCellOver(r, c),
         PARALLEL(get_spreader_conductance_top_bottom, get_conductance_top(l, r, c))))

(* What the coolant carries comes from the south and leaves to the north.  *)
(* At the inlet and at the outlet the diagonal has it as well.             *)
FlowEnds(l, r, c) ==
  IF first_row(r) \/ last_row(r) THEN Term(1, get_conductance_north(l, r, c)) ELSE Nothing

LiquidColumn4rm(l, r, c) ==
  When(~ first_layer(l), Conducts(Cell(l - 1, r, c),
         PARALLEL(get_conductance_bottom(l, r, c), get_conductance_top(l - 1, r, c))))
    \o When(~ first_row(r), Carries(Cell(l, r - 1, c), get_conductance_north(l, r, c)))
    \o When(c # 0, Conducts(Cell(l, r, c - 1),
         PARALLEL(get_conductance_west(l, r, c), get_conductance_east(l, r, c - 1))))
    \o <<Own(Cell(l, r, c), get_capacity(l, r, c), FlowEnds(l, r, c))>>
    \o When(c # declared.ncolumns - 1, Conducts(Cell(l, r, c + 1),
         PARALLEL(get_conductance_east(l, r, c), get_conductance_west(l, r, c + 1))))
    \o When(~ last_row(r), Carries(Cell(l, r + 1, c), get_conductance_south(l, r, c)))
    \o When(~ last_layer(l), Conducts(Cell(l + 1, r, c),
         PARALLEL(get_conductance_top(l, r, c), get_conductance_bottom(l + 1, r, c))))

(* The bottom wall is two layers below the liquid.                         *)
LiquidColumn2rm(l, r, c) ==
  When(~ first_layer(l), Conducts(Cell(l - 2, r, c), get_conductance_bottom(l, r, c)))
    \o When(~ first_row(r), Carries(Cell(l, r - 1, c), get_conductance_north(l, r, c)))
    \o <<Own(Cell(l, r, c), get_capacity(l, r, c), FlowEnds(l, r, c))>>
    \o When(~ last_row(r), Carries(Cell(l, r + 1, c), get_conductance_south(l, r, c)))
    \o When(~ last_layer(l), Conducts(Cell(l + 1, r, c), get_conductance_top(l, r, c)))

BottomWallColumn2rm(l, r, c) ==
  When(~ first_layer(l), Conducts(Cell(l - 1, r, c), get_conductance_top(l - 1, r, c)))
    \o <<Own(Cell(l, r, c), get_capacity(l, r, c), Nothing)>>
    \o When(~ last_layer(l), Conducts(Cell(l + 1, r, c), get_conductance_top(l + 1, r, c)))
    \o When(~ last_layer(l), Conducts(Cell(l + 2, r, c), get_conductance_bottom(l + 2, r, c)))

(* Seeded fault: of the two layers below, the nearer one is written first. *)
TopWallColumnSwapped(l, r, c) ==
  When(~ first_layer(l), Conducts(Cell(l - 1, r, c), get_conductance_top(l - 1, r, c)))
    \o When(~ first_layer(l), Conducts(Cell(l - 2, r, c), get_conductance_top(l - 2, r, c)))
    \o <<Own(Cell(l, r, c), get_capacity(l, r, c), Nothing)>>
    \o When(~ last_layer(l), Conducts(Cell(l + 1, r, c), get_conductance_bottom(l + 1, r, c)))

TopWallColumn2rm(l, r, c) ==
  When(~ first_layer(l), Conducts(Cell(l - 2, r, c), get_conductance_top(l - 2, r, c)))
    \o When(~ first_layer(l), Conducts(Cell(l - 1, r, c), get_conductance_top(l - 1, r, c)))
    \o <<Own(Cell(l, r, c), get_capacity(l, r, c), Nothing)>>
    \o When(~ last_layer(l), Conducts(Cell(l + 1, r, c), get_conductance_bottom(l + 1, r, c)))

AlongWall(l, r, c) == PARALLEL(get_conductance_south(l, r, c), get_conductance_north(l, r, c))

(* Seeded fault: the virtual wall is joined to the layer just above it.    *)
VirtualWallColumnToLiquid(l, r, c) ==
  When(~ first_layer(l), Conducts(Cell(l - 1, r, c), get_conductance_bottom(l, r, c)))
    \o When(declared.channel = "MC_2RM" /\ ~ first_row(r),
            Conducts(Cell(l, r - 1, c), AlongWall(l, r, c)))
    \o <<Own(Cell(l, r, c), get_capacity(l, r, c), Nothing)>>
    \o When(declared.channel = "MC_2RM" /\ ~ last_row(r),
            Conducts(Cell(l, r + 1, c), AlongWall(l, r, c)))
    \o When(~ last_layer(l), Conducts(Cell(l + 1, r, c), get_conductance_top(l, r, c)))

(* The top wall is two layers above the virtual wall.                      *)
VirtualWallColumn2rm(l, r, c) ==
  When(~ first_layer(l), Conducts(Cell(l - 1, r, c), get_conductance_bottom(l, r, c)))
    \o When(declared.channel = "MC_2RM" /\ ~ first_row(r),
            Conducts(Cell(l, r - 1, c), AlongWall(l, r, c)))
    \o <<Own(Cell(l, r, c), get_capacity(l, r, c), Nothing)>>
    \o When(declared.channel = "MC_2RM" /\ ~ last_row(r),
            Conducts(Cell(l, r + 1, c), AlongWall(l, r, c)))
    \o When(~ last_layer(l), Conducts(Cell(l + 2, r, c), get_conductance_top(l, r, c)))

(* The rows and columns of the layer underneath begin at the borders.      *)
SpreaderColumn(r, c) ==
  LET ns == PARALLEL(get_spreader_conductance_north_south, get_spreader_conductance_north_south)
      ew == PARALLEL(get_spreader_conductance_east_west, get_spreader_conductance_east_west)
  IN  When(has_layer_underneath(r, c), Conducts(CellUnder(r, c),
             PARALLEL(get_spreader_conductance_top_bottom,
                      get_conductance_top(NLayers - 1, r - declared.rowborder,
                                          c - declared.columnborder))))
        \o When(r # 0, Conducts(SpreaderCell(r - 1, c), ns))
        \o When(c # 0, Conducts(SpreaderCell(r, c - 1), ew))
        \o <<Own(SpreaderCell(r, c), get_spreader_capacity, Nothing)>>
        \o When(c # SpreaderColumns - 1, Conducts(SpreaderCell(r, c + 1), ew))
        \o When(r # SpreaderRows - 1, Conducts(SpreaderCell(r + 1, c), ns))

-----------------------------------------------------------------------------
(* fill_system_matrix: the loops over layers, rows and columns, then over  *)
(* the cells of the spreader, which are layer NLayers of `at`.             *)

Start == [l |-> 0, r |-> 0, c |-> 0]

InSpreader == at.l = NLayers

LoopRows == IF InSpreader THEN SpreaderRows ELSE declared.nrows

LoopColumns == IF InSpreader THEN SpreaderColumns ELSE declared.ncolumns

NextCell ==
  IF at.c + 1 < LoopColumns THEN [at EXCEPT !.c = @ + 1]
  ELSE IF at.r + 1 < LoopRows THEN [at EXCEPT !.r = @ + 1, !.c = 0]
  ELSE [at EXCEPT !.l = @ + 1, !.r = 0, !.c = 0]

LoopsEnd(cell) == cell.l = NLayers + (IF Pluggable THEN 1 ELSE 0)

NextIteration ==
  /\ at' = NextCell
  /\ phase' = IF LoopsEnd(NextCell) THEN "filled" ELSE "filling"
  /\ UNCHANGED <<parserVars, LayersTypeProfile>>

(* What the neighbours add to the diagonal is written there at the end.    *)
WriteColumn(own, entries) ==
  LET diagonal == Sum([i \in DOMAIN entries |-> entries[i].share])
  IN  /\ RowIndices' = RowIndices \o [i \in DOMAIN entries |-> entries[i].row]
      /\ Values' = Values \o
           [i \in DOMAIN entries |-> IF entries[i].row = own
                                     THEN Plus(entries[i].value, diagonal)
                                     ELSE entries[i].value]
      /\ ColumnPointers' = Append(ColumnPointers, Last(ColumnPointers) + Len(entries))
      /\ NextIteration

Kind == Type(at.l).kind

Filling == phase = "filling" /\ ~ InSpreader

AddSolidColumn ==
  /\ Filling
  /\ Kind \in Solids \/ (Kind = "CHANNEL_4RM" /\ ~ IsChannelColumn(at.c))
  /\ WriteColumn(Cell(at.l, at.r, at.c), SolidColumn(at.l, at.r, at.c))

AddLiquidColumn4rm ==
  /\ Filling /\ Kind = "CHANNEL_4RM" /\ IsChannelColumn(at.c)
  /\ WriteColumn(Cell(at.l, at.r, at.c), LiquidColumn4rm(at.l, at.r, at.c))

AddLiquidColumn2rm ==
  /\ Filling /\ Kind \in {"CHANNEL_2RM", "PINFINS_INLINE", "PINFINS_STAGGERED"}
  /\ WriteColumn(Cell(at.l, at.r, at.c), LiquidColumn2rm(at.l, at.r, at.c))

AddVirtualWallColumn2rm ==
  /\ Filling /\ Kind \in {"VWALL_CHANNEL", "VWALL_PINFINS"}
  /\ WriteColumn(Cell(at.l, at.r, at.c), VirtualWallColumn2rm(at.l, at.r, at.c))

AddTopWallColumn2rm ==
  /\ Filling /\ Kind = "TOP_WALL"
  /\ WriteColumn(Cell(at.l, at.r, at.c), TopWallColumn2rm(at.l, at.r, at.c))

AddBottomWallColumn2rm ==
  /\ Filling /\ Kind = "BOTTOM_WALL"
  /\ WriteColumn(Cell(at.l, at.r, at.c), BottomWallColumn2rm(at.l, at.r, at.c))

AddSpreaderColumn ==
  /\ phase = "filling" /\ InSpreader
  /\ WriteColumn(SpreaderCell(at.r, at.c), SpreaderColumn(at.r, at.c))

(* update_coolant_flow_rate writes the whole matrix again in its place.    *)
Refill ==
  /\ phase = "filled"
  /\ phase' = "filling" /\ at' = Start
  /\ ColumnPointers' = <<0>> /\ RowIndices' = <<>> /\ Values' = <<>>
  /\ UNCHANGED <<parserVars, LayersTypeProfile>>

Init ==
  /\ ParserInit
  /\ LayersTypeProfile = <<>> /\ at = Start
  /\ ColumnPointers = <<0>> /\ RowIndices = <<>> /\ Values = <<>>

Parse ==
  /\ (\E e \in Elements : AddElement(e)) \/ EndStack
  /\ UNCHANGED matrixVars

FillColumn ==
  \/ AddSolidColumn \/ AddLiquidColumn4rm \/ AddLiquidColumn2rm
  \/ AddVirtualWallColumn2rm \/ AddTopWallColumn2rm \/ AddBottomWallColumn2rm
  \/ AddSpreaderColumn

Next == Parse \/ GridFill("parsed") \/ FillColumn \/ Refill

Spec == Init /\ [][Next]_vars

-----------------------------------------------------------------------------
Columns == Len(ColumnPointers) - 1

RowsOfColumn(j) == SubSeq(RowIndices, ColumnPointers[j + 1] + 1, ColumnPointers[j + 2])

(* Every column of the matrix lists rows of the matrix, in ascending order *)
(* and once each, among them its own cell: the position of the column in   *)
(* the loops of fill_system_matrix is the number of the cell.              *)
RowsAscend ==
  Columns > 0 =>
    LET j    == Columns - 1
        rows == RowsOfColumn(j)
    IN  /\ \A k \in 1 .. Len(rows) - 1 : rows[k] < rows[k + 1]
        /\ j \in Range(rows)
        /\ Range(rows) \subseteq 0 .. NCells - 1

(* The coefficient of cell j in the equation of cell i: that of row i in   *)
(* column j.                                                               *)
Coefficient(i, j) ==
  Values[CHOOSE k \in ColumnPointers[j + 1] + 1 .. ColumnPointers[j + 2] : RowIndices[k] = i]

Carried(sum) == \A g \in DOMAIN sum : g[1] = "C"

(* Once filled, the matrix has a coefficient for cell j in the equation of *)
(* cell i exactly when it has one for i in that of j, and what flows       *)
(* between the two is the same from both sides: equal conductances, or,    *)
(* between cells of the coolant, opposite convective terms.  This holds    *)
(* also across the walls of a channel and between stack and spreader,      *)
(* whose two sides are written by different functions.                     *)
CoefficientsAgree ==
  phase = "filled" =>
    \A j \in 0 .. Columns - 1 : \A i \in Range(RowsOfColumn(j)) \ {j} :
      /\ j \in Range(RowsOfColumn(i))
      /\ LET there == Coefficient(i, j)
             back  == Coefficient(j, i)
         IN  IF Carried(there) THEN Same(Plus(there, back), Nothing) ELSE Same(there, back)

(* The sum of the coefficients of an equation.                             *)
RowSum(i) ==
  Sum([j \in 1 .. Columns |-> IF i \in Range(RowsOfColumn(j - 1)) THEN Coefficient(i, j - 1)
                                                               ELSE Nothing])

CellsOfStack == (0 .. NLayers - 1) \X (0 .. declared.nrows - 1) \X (0 .. declared.ncolumns - 1)

(* Without power and with the ambient and the coolant at one temperature,  *)
(* a stack at that temperature stays there: what is left of the            *)
(* coefficients of an equation, its heat capacity apart, is what the       *)
(* source vector has for its heat sink or inlet.  Grids of one row are     *)
(* excepted: there a cell of the coolant is inlet and outlet, which the    *)
(* matrix counts once and the source vector twice.                         *)
Equilibrium ==
  phase = "filled" =>
    /\ \A cell \in CellsOfStack :
         LET l == cell[1]  r == cell[2]  c == cell[3]
         IN  (IsCoolant(l, c) => declared.nrows > 1) =>
             Same(RowSum(Cell(l, r, c)),
                  Plus(Term(1, get_capacity(l, r, c)), EnvironmentSource(l, r, c)))
    /\ \A i \in NLayers * LayerArea .. NCells - 1 :
         Same(RowSum(i), Term(1, get_spreader_capacity))

(* A coefficient through which heat flows: with a zero the PARALLEL of two *)
(* conductances is zero.                                                   *)
Conducting(sum) ==
  /\ DOMAIN sum # {}
  /\ \A g \in DOMAIN sum : g[1] = "PARALLEL" => Zero \notin g[2]

(* The cells reached from the first one by the coefficients of the columns *)
(* already reached.                                                        *)
Reached ==
  LET next == [j \in 0 .. Columns - 1 |->
                 {i \in Range(RowsOfColumn(j)) : Conducting(Coefficient(i, j))}]
  IN  FoldSet(LAMBDA k, cells : cells \cup UNION {next[j] : j \in cells}, {0}, 1 .. NCells)

(* Once filled, heat can flow from every cell to every other one: no layer *)
(* of a channel, nor the spreader, is left apart from the stack.  Two      *)
(* channels in a row, which the parser means to refuse, are excepted: the  *)
(* walls between them conduct nothing.                                     *)
HeatFlowsEverywhere ==
  phase = "filled" /\ NoConsecutiveChannels => Reached = 0 .. NCells - 1

(* The parser counts the coefficients that fill_system_matrix writes, no   *)
(* more and no fewer, whatever the channels and sinks, except that with a  *)
(* 2RM or pin fin channel declared it counts one connection between layers *)
(* too many per cell of a layer.  So no column is ever written past the    *)
(* end of the arrays that system_matrix_build allocates from the count.    *)
CountIsExact ==
  phase = "filled" =>
    /\ Columns = NCells
    /\ NConnections =
         Len(RowIndices) + (IF is2RM(declared.channel) THEN 2 * LayerArea ELSE 0)
=============================================================================
