----------------------------- MODULE MCOpenSession -----------------------------
(* Two elements on two dies and slots of two steps; the stack file has no  *)
(* power values, one per element, or one for the lower element only.       *)
EXTENDS OpenSession

FloorplanDef == <<1, 2>>

ConfigsDef ==
  { [analysis |-> "transient", nonuniform |-> FALSE, pluggable |-> FALSE,
     reached |-> TRUE, struck |-> {}] }

SuppliesDef == { <<0, 0>>, <<1, 1>>, <<1, 0>> }
=============================================================================
