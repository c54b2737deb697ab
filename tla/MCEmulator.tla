------------------------------ MODULE MCEmulator ------------------------------
(* Three elements on two dies, with every combination of up to three       *)
(* values per element in the floorplan files, and every kind of stack; the *)
(* emulator does not change the flow rate.                                 *)
EXTENDS Emulator

FloorplanDef == <<1, 2, 2>>

ConfigsDef == {config \in Config : config.reached /\ config.struck = {}}

SuppliesDef == [Elements -> 0 .. 3]
=============================================================================
