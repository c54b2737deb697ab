--------------------------- MODULE MCConsoleSession ---------------------------
(* Two elements on two dies, slots of two steps; the stack file has no     *)
(* power values, one per element, or one for the upper element only.  The  *)
(* clients ask for two slots with random values, follow a trace until its  *)
(* third row, which is all -1, or ask for three slots from what the trace  *)
(* has at the time, up to that row.                                        *)
EXTENDS ConsoleSession

FloorplanDef == <<1, 2>>

ConfigsDef ==
  { [analysis |-> "transient", nonuniform |-> FALSE, pluggable |-> TRUE,
     reached |-> TRUE, struck |-> {}],
    [analysis |-> "steady", nonuniform |-> FALSE, pluggable |-> FALSE,
     reached |-> TRUE, struck |-> {}] }

SuppliesDef == { <<0, 0>>, <<1, 1>>, <<0, 1>> }

CommandLinesDef ==
  { [nslots |-> 2, trace |-> FALSE, follow |-> FALSE, untilMinusOne |-> FALSE],
    [nslots |-> 0, trace |-> TRUE, follow |-> TRUE, untilMinusOne |-> TRUE],
    [nslots |-> 3, trace |-> TRUE, follow |-> FALSE, untilMinusOne |-> TRUE] }

TraceRowsDef == [start |-> 0, final |-> 3]
=============================================================================
