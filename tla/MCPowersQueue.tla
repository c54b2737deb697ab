---------------------------- MODULE MCPowersQueue ----------------------------
(* Two queues of at most four slots: wrapping, growing 1 -> 2 -> 4, copies *)
(* in both directions, and a queue built without slots.                    *)
EXTENDS PowersQueue

CapacitiesDef == {0, 1, 2}
=============================================================================
