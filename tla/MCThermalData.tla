----------------------------- MODULE MCThermalData -----------------------------
(* Three elements on two dies with the channel between them: an update can *)
(* stop inside of a die, between the dies, before or after the channel.    *)
(* On the non-uniform grids, cells of the second element have the numbers  *)
(* that the inlets have on a uniform one.                                  *)
EXTENDS ThermalData

FloorplanDef == <<1, 2, 2>>

ConfigsDef ==
  { [analysis |-> "transient", nonuniform |-> FALSE, pluggable |-> TRUE,
     reached |-> TRUE, struck |-> {}],
    [analysis |-> "transient", nonuniform |-> TRUE, pluggable |-> FALSE,
     reached |-> FALSE, struck |-> {2}],
    [analysis |-> "steady", nonuniform |-> TRUE, pluggable |-> FALSE,
     reached |-> FALSE, struck |-> {2}] }

SuppliesDef == { <<0, 0, 0>>, <<1, 1, 1>>, <<1, 2, 1>>, <<0, 1, 2>> }
=============================================================================
