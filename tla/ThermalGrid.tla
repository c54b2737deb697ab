------------------------------ MODULE ThermalGrid ------------------------------
(* The thermal grid (thermal_grid.c): the types of the layers of the stack *)
(* and, cell by cell, the heat capacity and the conductances from the      *)
(* centre of the cell to its six faces; the numbers of the cells           *)
(* (dimensions.c); what the environment adds to the source vector          *)
(* (power_grid.c).                                                         *)
(*                                                                         *)
(* A floating-point formula is a symbol that names it and the cell whose   *)
(* geometry and material it uses, so that two formulas are equal only if   *)
(* they are the same one of the same cell.  Cells are numbered from 0.     *)
EXTENDS StackDescription

VARIABLE LayersTypeProfile  \* types of the layers, the bottom-most first

-----------------------------------------------------------------------------
(* The types of the layers (thermal_grid_fill).                            *)

Joined == [TOP |-> "CONNECTED_TO_AMBIENT", TOP_PLUGGABLE |-> "CONNECTED_TO_SPREADER"]

Solids == {"SOLID", "SOURCE"}

(* A layer is a kind and what a heat sink connects it to, if any.          *)
Layer(kind) == [kind |-> kind, sink |-> "NONE"]

ChannelLayers ==
  CASE declared.channel = "MC_4RM" -> <<"CHANNEL_4RM">>
    [] declared.channel = "MC_2RM" ->
         <<"BOTTOM_WALL", "VWALL_CHANNEL", "CHANNEL_2RM", "TOP_WALL">>
    [] declared.channel = "PF_INLINE" ->
         <<"BOTTOM_WALL", "VWALL_PINFINS", "PINFINS_INLINE", "TOP_WALL">>
    [] declared.channel = "PF_STAGGERED" ->
         <<"BOTTOM_WALL", "VWALL_PINFINS", "PINFINS_STAGGERED", "TOP_WALL">>

Kinds(e) ==
  CASE e.type = "DIE"     -> [i \in 1 .. e.nlayers |->
                                IF i = e.source + 1 THEN "SOURCE" ELSE "SOLID"]
    [] e.type = "LAYER"   -> <<"SOLID">>
    [] e.type = "CHANNEL" -> ChannelLayers

(* From the bottom-most element, that is the last of the list.             *)
Profile ==
  LET kinds == FlattenSeq([i \in DOMAIN stack |-> Kinds(Reverse(stack)[i])])
  IN  [i \in DOMAIN kinds |-> Layer(kinds[i])]

(* Seeded fault: a source as the top-most layer keeps its type.            *)
WithTopSinkOnSolid(profile) ==
  IF declared.top # "NONE" /\ Last(profile).kind = "SOLID"
  THEN [profile EXCEPT ![Len(profile)].sink = Joined[declared.top]]
  ELSE profile

WithTopSink(profile) ==
  IF declared.top # "NONE" /\ Last(profile).kind \in Solids
  THEN [profile EXCEPT ![Len(profile)].sink = Joined[declared.top]]
  ELSE profile

SinksClash(profile) == declared.bottom /\ profile[1].sink # "NONE"

WithBottomSink(profile) ==
  IF declared.bottom THEN [profile EXCEPT ![1].sink = "CONNECTED_TO_PCB"] ELSE profile

(* 4RM channels and a pluggable heat sink do not go together, and the two  *)
(* sinks need two layers: then thermal_data_build fails.                   *)
has_4RM_layers == declared.channel = "MC_4RM" /\ Count("CHANNEL", stack) # 0

-----------------------------------------------------------------------------
(* The numbers of the cells (dimensions.c).                                *)

Cell(l, r, c) == l * LayerArea + r * declared.ncolumns + c

SpreaderCell(r, c) == NLayers * LayerArea + r * SpreaderColumns + c

SpreaderCellOver(r, c) == SpreaderCell(r + declared.rowborder, c + declared.columnborder)

has_layer_underneath(r, c) ==
  /\ r \in declared.rowborder .. declared.rowborder + declared.nrows - 1
  /\ c \in declared.columnborder .. declared.columnborder + declared.ncolumns - 1

CellUnder(r, c) == Cell(NLayers - 1, r - declared.rowborder, c - declared.columnborder)

first_layer(l) == l = 0

last_layer(l) == l = NLayers - 1

first_row(r) == r = 0

last_row(r) == r = declared.nrows - 1

IsChannelColumn(c) == declared.channel = "MC_4RM" => c % 2 = 1

-----------------------------------------------------------------------------
(* Conductances and capacities.                                            *)

Type(l) == LayersTypeProfile[l + 1]

Pins == {"PINFINS_INLINE", "PINFINS_STAGGERED"}

Walls == {"TOP_WALL", "BOTTOM_WALL"}

(* The wall of a 4RM channel and the coolant next to it are two columns of *)
(* one layer.                                                              *)
IsCoolant(l, c) ==
  Type(l).kind \in {"CHANNEL_2RM"} \cup Pins \/ (Type(l).kind = "CHANNEL_4RM" /\ IsChannelColumn(c))

IsVirtualWall(l) == Type(l).kind \in {"VWALL_CHANNEL", "VWALL_PINFINS"}

Zero == <<>>

(* The walls of a channel are of one material, the cells of a layer or die *)
(* may each have their own.  All rows are equally wide.                    *)
Of(formula, l, r, c) == <<formula, l, IF Type(l).kind \in Solids THEN r ELSE 0, c>>

Minus(g) == <<"-", g>>

get_convective_term(l, c) == <<"C", IF declared.channel = "MC_4RM" THEN 0 ELSE l, 0,
                               IF declared.channel = "MC_4RM" THEN 0 ELSE c>>

(* Up and down through a channel, from the coolant or from its walls.      *)
ThroughChannel(l, c, htc) ==
  CASE IsCoolant(l, c) /\ Type(l).kind \in Pins -> <<"EFFECTIVE_HTC", l, 0, c>>
    [] IsCoolant(l, c) /\ Type(l).kind \notin Pins -> <<htc, l, 0, c>>
    [] IsVirtualWall(l) -> <<"kA/(h/2) (1 - porosity)", l, 0, c>>
    [] Type(l).kind \in Walls -> Zero
    [] OTHER -> <<"kA/(h/2)", l, 0, c>>

get_conductance_top(l, r, c) ==
  LET sink == Type(l).sink
      half == Of("kA/(h/2)", l, r, c)
      full == Of("kA/h", l, r, c)
  IN  CASE Type(l).kind \notin Solids -> ThroughChannel(l, c, "HTCTop")
        [] Type(l).kind \in Solids ->
             CASE sink = "CONNECTED_TO_AMBIENT"  -> Of("kA/(h/2), HTC", l, r, c)
               [] sink = "CONNECTED_TO_SPREADER" -> IF first_layer(l) THEN full ELSE half
               [] sink = "CONNECTED_TO_PCB"      -> half
               [] sink = "NONE" -> IF last_layer(l) THEN Zero
                                   ELSE IF first_layer(l) THEN full ELSE half

get_conductance_bottom(l, r, c) ==
  LET sink == Type(l).sink
      half == Of("kA/(h/2)", l, r, c)
  IN  CASE Type(l).kind \notin Solids -> ThroughChannel(l, c, "HTCBottom")
        [] Type(l).kind \in Solids ->
             CASE sink = "CONNECTED_TO_PCB" -> Of("kA/(h/2), HTC", l, r, c)
               [] sink \in {"CONNECTED_TO_AMBIENT", "CONNECTED_TO_SPREADER"} -> half
               [] sink = "NONE" -> IF first_layer(l) THEN Zero
                                   ELSE IF last_layer(l) THEN Of("kA/h", l, r, c) ELSE half

(* Along the flow the coolant carries heat north, walls conduct it.        *)
AlongFlow(l, r, c, carried) ==
  CASE IsCoolant(l, c) -> carried
    [] Type(l).kind \in Walls \cup {"VWALL_PINFINS"} -> Zero
    [] Type(l).kind = "VWALL_CHANNEL" -> <<"klh/(w/2) (1 - porosity)", l, 0, c>>
    [] OTHER -> Of("klh/(w/2)", l, r, c)

get_conductance_north(l, r, c) == AlongFlow(l, r, c, get_convective_term(l, c))

get_conductance_south(l, r, c) == AlongFlow(l, r, c, Minus(get_convective_term(l, c)))

(* Across the flow: only layers without channels and the 4RM model.        *)
Across(l, r, c) ==
  CASE Type(l).kind = "CHANNEL_4RM" /\ IsChannelColumn(c) -> <<"HTCSide", l, 0, c>>
    [] Type(l).kind \in Solids \cup {"CHANNEL_4RM"} /\ ~ IsCoolant(l, c) ->
         Of("kwh/(l/2)", l, r, c)
    [] OTHER -> Zero

get_conductance_east(l, r, c) == Across(l, r, c)

get_conductance_west(l, r, c) == Across(l, r, c)

get_capacity(l, r, c) ==
  CASE Type(l).kind \in Walls -> Zero
    [] IsCoolant(l, c) -> <<"coolant VHC lwh", l, 0, c>>
    [] IsVirtualWall(l) -> <<"VHC lwh (1 - porosity)", l, 0, c>>
    [] OTHER -> Of("VHC lwh", l, r, c)

(* All cells of the spreader are alike.                                    *)
get_spreader_conductance_top_bottom == <<"spreader kA/(h/2)", 0, 0, 0>>

get_spreader_conductance_north_south == <<"spreader klh/(w/2)", 0, 0, 0>>

get_spreader_conductance_east_west == <<"spreader kwh/(l/2)", 0, 0, 0>>

get_spreader_capacity == <<"spreader VHC lwh", 0, 0, 0>>

PARALLEL(a, b) == <<"PARALLEL", {a, b}>>

-----------------------------------------------------------------------------
(* Sums of such symbols: how often each occurs, negative when subtracted.  *)

Nothing == [g \in {} |-> 0]

Amount(sum, g) == IF g \in DOMAIN sum THEN sum[g] ELSE 0

Plus(a, b) == [g \in DOMAIN a \cup DOMAIN b |-> Amount(a, g) + Amount(b, g)]

Sum(terms) == FoldSeq(Plus, Nothing, terms)

Term(n, g) ==
  CASE g = Zero -> Nothing
    [] g # Zero /\ g[1] = "-" -> [h \in {g[2]} |-> -n]
    [] g # Zero /\ g[1] # "-" -> [h \in {g} |-> n]

(* Every symbol occurs equally often in the two sums.                      *)
Same(a, b) == \A g \in DOMAIN a \cup DOMAIN b : Amount(a, g) = Amount(b, g)

-----------------------------------------------------------------------------
(* What the source vector holds besides power values, per degree of the    *)
(* ambient or inlet temperature (power_grid_fill, update_source_vector).   *)

HeatSinkTopTcs(r, c) == get_conductance_top(NLayers - 1, r, c)

HeatSinkBottomTcs(r, c) == get_conductance_bottom(0, r, c)

EnvironmentSource(l, r, c) ==
  CASE Type(l).sink = "CONNECTED_TO_AMBIENT" -> Term(1, HeatSinkTopTcs(r, c))
    [] Type(l).sink = "CONNECTED_TO_PCB" -> Term(1, HeatSinkBottomTcs(r, c))
    [] IsCoolant(l, c) /\ first_row(r) -> Term(2, get_convective_term(l, c))
    [] OTHER -> Nothing
=============================================================================
