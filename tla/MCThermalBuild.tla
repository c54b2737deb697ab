----------------------------- MODULE MCThermalBuild -----------------------------
(* A chip of six by four units.  The grids have three columns and two      *)
(* rows, alike except that a 4RM channel may have uneven walls.  The dies: *)
(* one like the uniform grid; one whose two elements end in the middle of  *)
(* a cell of it, one of them four cells, the other a single one; one with  *)
(* an element of two rectangles; one with an element beyond the border.    *)
(* Two threads look for connections in stacks of at most three layers.     *)
EXTENDS ThermalBuild

Rect(x, y, l, w) == [x |-> x, y |-> y, l |-> l, w |-> w]

El(rects, dx, dy) == [rects |-> rects, dx |-> dx, dy |-> dy]

Die(n, source, floorplan) ==
  [type |-> "DIE", nlayers |-> n, source |-> source, floorplan |-> floorplan, dx |-> 0, dy |-> 0]

ElementsDef ==
  {Die(1, 0, <<El(<<Rect(0, 0, 6, 4)>>, 0, 0)>>),
   Die(2, 1, <<El(<<Rect(0, 0, 3, 4)>>, 1, 1), El(<<Rect(3, 0, 3, 4)>>, 1, 4)>>),
   Die(1, 0, <<El(<<Rect(0, 0, 2, 2), Rect(3, 1, 3, 2)>>, 1, 1)>>),
   Die(1, 0, <<El(<<Rect(4, 0, 3, 4)>>, 1, 1)>>),
   [type |-> "LAYER", dx |-> 0, dy |-> 0],
   [type |-> "CHANNEL"]}

Columns4(first, channel, wall, last) ==
  [FirstWall |-> first, Channel |-> channel, Wall |-> wall, LastWall |-> last, Width |-> 2]

Declared(nonuniform, cores, channel, top, bottom, cell) ==
  [nonuniform |-> nonuniform, cores |-> cores, channel |-> channel, top |-> top,
   bottom |-> bottom, cell |-> cell, chip |-> [Length |-> 6, Width |-> 4],
   discr |-> [x |-> 3, y |-> 2], nrows |-> 2, ncolumns |-> 3, rowborder |-> 0, columnborder |-> 0]

Even == Columns4(2, 2, 2, 2)

Uneven == Columns4(1, 3, 2, 2)

StacksDef ==
  {Declared(TRUE, 2, "NONE", "TOP", FALSE, Even),
   Declared(TRUE, 2, "NONE", "TOP_PLUGGABLE", FALSE, Even),
   Declared(TRUE, 1, "NONE", "NONE", TRUE, Even),
   Declared(TRUE, 1, "MC_4RM", "TOP", FALSE, Even),
   Declared(TRUE, 2, "MC_4RM", "TOP", FALSE, Uneven),
   Declared(TRUE, 1, "MC_2RM", "TOP_PLUGGABLE", FALSE, Even),
   Declared(TRUE, 1, "PF_INLINE", "TOP", TRUE, Even),
   Declared(FALSE, 1, "NONE", "TOP_PLUGGABLE", TRUE, Even),
   Declared(FALSE, 1, "MC_4RM", "TOP", FALSE, Uneven),
   Declared(FALSE, 1, "MC_2RM", "TOP", TRUE, Even)}

FewIfParallel == declared.cores > 1 => LayersOf(stack) <= 3
=============================================================================
