----------------------------- MODULE MCSystemMatrix -----------------------------
(* Stacks of up to four elements, two of which may be channels, on grids   *)
(* of one cell and of two rows by three columns (pin fins: three rows by   *)
(* one), with every channel model and heat sink, the spreader level with   *)
(* the chip on the smaller grid and wider on the other.                    *)
EXTENDS SystemMatrix

Die(n, source) == [type |-> "DIE", nlayers |-> n, source |-> source]

ElementsDef == {Die(1, 0), Die(2, 0), [type |-> "LAYER"], [type |-> "CHANNEL"]}

Pinfins == {"PF_INLINE", "PF_STAGGERED"}

Grids(channel) == {<<1, 1>>, IF channel \in Pinfins THEN <<3, 1>> ELSE <<2, 3>>}

StacksDef ==
  {d \in [channel : ChannelModels, top : TopSinks, bottom : BOOLEAN,
          nrows : 1 .. 3, ncolumns : 1 .. 3, rowborder : {0}, columnborder : 0 .. 1] :
     /\ <<d.nrows, d.ncolumns>> \in Grids(d.channel)
     /\ FitsChip(d)
     /\ d.columnborder = (IF d.top = "TOP_PLUGGABLE" /\ d.nrows > 1 THEN 1 ELSE 0)}
=============================================================================
