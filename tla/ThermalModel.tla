----------------------------- MODULE ThermalModel -----------------------------
(***************************************************************************)
(* sources/thermal_data.c, power_grid.c and analysis.c as functions on the *)
(* simulation state that the Emulator and the Server drive: the clock, the *)
(* queues of power values, the source vector, the coolant flow rate with   *)
(* the factorised matrix, and the temperatures.  A call that can end in    *)
(* several ways is the set of its outcomes [td, result].                   *)
(*                                                                         *)
(* Numbers stand for numerical data.  The k-th value ever queued for an    *)
(* element is k, so a queue is described by how many values were supplied  *)
(* to it and how many were taken out of it (PowersQueue implements a       *)
(* first-in first-out list); 0 is "no power".  A flow rate is a positive   *)
(* number; 0 stands for the flow rate of no coolant at all.                *)
(***************************************************************************)
EXTENDS Naturals, FiniteSetsExt

CONSTANTS
  N,                (* number of floorplan elements of the stack           *)
  Floorplan,        (* the floorplan (die) of each element                 *)
  ChannelAt,        (* number of elements below the channel layer          *)
  SlotLength,       (* Analysis->SlotLength, in steps                      *)
  Configs,          (* what a stack description can ask for: see Config    *)
  Flows,            (* coolant flow rates                                  *)
  Supplies          (* numbers of values per element in floorplan files    *)

(* The elements in the order update_source_vector visits them: layers from *)
(* the bottom up, and the elements of a floorplan in their order           *)
Elements == 1 .. N

(* The type of the analysis, whether the grid is non-uniform, whether the  *)
(* top heat sink is a plugin, which may fail, and what the cells are that  *)
(* update_channel_sources takes for the inlets of the channel: whether all *)
(* inlets are among them, and of which elements some cells are.  It        *)
(* numbers cells as on a uniform grid (ThermalBuild!InletOf).              *)
Config ==
  [analysis : {"transient", "steady"}, nonuniform : BOOLEAN, pluggable : BOOLEAN,
   reached : BOOLEAN, struck : SUBSET Elements]

ASSUME ThermalAssumption ==
  /\ N \in Nat \ {0}
  /\ Floorplan \in [Elements -> Nat]
  /\ \A e, f \in Elements : e <= f => Floorplan[e] <= Floorplan[f]
  /\ ChannelAt \in 0 .. N
  /\ SlotLength \in Nat \ {0}
  /\ Configs \subseteq Config
  /\ \A config \in Configs : /\ ~ config.nonuniform => config.reached
                             /\ config.reached => config.struck = {}
  /\ Flows \subseteq Nat \ {0}
  /\ Supplies \subseteq [Elements -> Nat]

VARIABLE tdata      (* ThermalData_t with its Analysis_t and floorplans    *)

SimResults == {"END_OF_SIMULATION", "WRONG_CONFIG", "SOLVER_ERROR",
               "STEP_DONE", "SLOT_DONE"}

(* The temperatures and the linear system they were last solved from.      *)
(* good is FALSE when they descend from a right-hand side that a failing   *)
(* solver left in their place.                                             *)
InitialTemperatures ==
  [steps |-> 0, good |-> TRUE,
   power |-> [e \in Elements |-> 0], struck |-> {}, inlet |-> 0, factors |-> 0]

(* thermal_data_build on a parsed stack: supply[e] values in the floorplan *)
(* file for element e, the channel's flow rate in the matrix, factorised.  *)
(* Of the source vector, power is what the last update put into the cells  *)
(* of each element, struck says which elements have lost some of it to     *)
(* terms for inlets since, and inlet is the flow rate of those terms of    *)
(* the inlets that were written first.                                     *)
Built(config, supply, flow) ==
  [config |-> config, supplied |-> supply, taken |-> [e \in Elements |-> 0],
   power |-> [e \in Elements |-> 0], struck |-> {}, inlet |-> 0,
   flow |-> flow, factors |-> flow,
   time |-> 0, temperatures |-> InitialTemperatures]

slot_completed(td) == td.time % SlotLength = 0

-----------------------------------------------------------------------------
(* The sources                                                             *)

is_empty(td, e) == td.taken[e] = td.supplied[e]

(* Seeded fault: only the queue of the lowest element is tested *)
ExhaustedAtFirst(td) == is_empty(td, 1)

Exhausted(td) == \E e \in Elements : is_empty(td, e)

(* The element at which update_source_vector stops; N + 1 if it does not   *)
FirstEmpty(td) ==
  IF Exhausted(td) THEN Min({e \in Elements : is_empty(td, e)}) ELSE N + 1

(* Whether the value taken from e reaches Sources when the update stops at *)
(* m: per element on a non-uniform grid, else per complete floorplan       *)
Added(td, e, m) ==
  /\ e < m
  /\ td.config.nonuniform \/ m > N \/ Floorplan[e] # Floorplan[m]

(* Seeded fault: the update goes on after an empty queue *)
UpdatedSkippingEmpty(td) ==
  LET next == [e \in Elements |-> IF is_empty(td, e) THEN td.taken[e] ELSE td.taken[e] + 1]
  IN [td EXCEPT !.taken = next, !.power = next, !.struck = {}, !.inlet = td.flow]

(* update_source_vector.  It fails iff Exhausted, and then it has already  *)
(* cleared the sources and taken a value from every element before that.   *)
Updated(td) ==
  LET m == FirstEmpty(td) IN
  [td EXCEPT
     !.taken = [e \in Elements |-> IF e < m THEN td.taken[e] + 1 ELSE td.taken[e]],
     !.power = [e \in Elements |-> IF Added(td, e, m) THEN td.taken[e] + 1 ELSE 0],
     !.struck = {},
     !.inlet = IF ChannelAt < m THEN td.flow ELSE 0]

(* insert_power_values with n values: they go to the first n elements, and *)
(* the call fails iff n < N                                                *)
Inserted(td, n) ==
  [td EXCEPT !.supplied = [e \in Elements |-> IF e <= n THEN td.supplied[e] + 1
                                              ELSE td.supplied[e]]]

-----------------------------------------------------------------------------
(* The simulation calls                                                    *)

(* fill_system_vector writes the right-hand side over Temperatures and a   *)
(* successful solve_sparse_linear_system turns it into temperatures, which *)
(* a transient step computes from the old ones                             *)
Solved(td, good) ==
  [td EXCEPT !.temperatures =
     [steps |-> td.temperatures.steps + 1, good |-> good,
      power |-> td.power, struck |-> td.struck, inlet |-> td.inlet,
      factors |-> td.factors]]

Unsolved(td) == [td EXCEPT !.temperatures.good = FALSE]

increase_by_step_time(td) == [td EXCEPT !.time = td.time + 1]

Outcome(td, result) == [td |-> td, result |-> result]

(* A step with the sources in place.  SOLVER_ERROR: the plugin failed      *)
(* before the right-hand side was written, or the solver after it.         *)
Stepped(td) ==
  LET done == increase_by_step_time(Solved(td, td.temperatures.good)) IN
  { Outcome(done, IF slot_completed(done) THEN "SLOT_DONE" ELSE "STEP_DONE"),
    Outcome(Unsolved(td), "SOLVER_ERROR") }
  \cup (IF td.config.pluggable THEN { Outcome(td, "SOLVER_ERROR") } ELSE {})

(* Seeded fault: the sources are updated for every step *)
emulate_step_refilling(td) ==
  IF td.config.analysis # "transient" THEN { Outcome(td, "WRONG_CONFIG") }
  ELSE IF Exhausted(td) THEN { Outcome(Updated(td), "END_OF_SIMULATION") }
  ELSE Stepped(Updated(td))

emulate_step(td) ==
  IF td.config.analysis # "transient" THEN { Outcome(td, "WRONG_CONFIG") }
  ELSE IF ~ slot_completed(td) THEN Stepped(td)
  ELSE IF Exhausted(td) THEN { Outcome(Updated(td), "END_OF_SIMULATION") }
  ELSE Stepped(Updated(td))

(* Seeded fault: a steady solution is reported like a step *)
emulate_steady_stepwise(td) ==
  IF td.config.analysis # "steady" THEN { Outcome(td, "WRONG_CONFIG") }
  ELSE IF Exhausted(td) THEN { Outcome(Updated(td), "END_OF_SIMULATION") }
  ELSE { Outcome(Solved(Updated(td), TRUE), "STEP_DONE") }

emulate_steady(td) ==
  IF td.config.analysis # "steady" THEN { Outcome(td, "WRONG_CONFIG") }
  ELSE IF td.config.pluggable THEN { Outcome(td, "SOLVER_ERROR") }
  ELSE IF Exhausted(td) THEN { Outcome(Updated(td), "END_OF_SIMULATION") }
  ELSE { Outcome(Solved(Updated(td), TRUE), "END_OF_SIMULATION"),
         Outcome(Unsolved(Updated(td)), "SOLVER_ERROR") }

reset_thermal_state(td) == [td EXCEPT !.temperatures = InitialTemperatures]

(* Seeded fault: the terms of the inlets are left to the next slot *)
RefactoredLate(td, flow) ==
  [td EXCEPT !.flow = flow, !.factors = flow, !.struck = td.config.struck]

(* update_coolant_flow_rate.  update_channel_sources sets the terms of the *)
(* inlets on a uniform grid; on a non-uniform one it may write them over   *)
(* the sources of other cells, and the inlets keep theirs.                 *)
Refactored(td, flow) ==
  [td EXCEPT !.flow = flow, !.factors = flow,
             !.inlet = IF td.config.reached THEN flow ELSE td.inlet,
             !.struck = td.config.struck]

(* A failing factorisation leaves no usable factors, and the call returns  *)
(* before update_channel_sources                                           *)
Unfactored(td, flow) == [td EXCEPT !.flow = flow, !.factors = 0]

-----------------------------------------------------------------------------
(* What the properties of the programs speak of                            *)

TemperaturesType ==
  [steps : Nat, good : BOOLEAN, power : [Elements -> Nat], struck : SUBSET Elements,
   inlet : Nat, factors : Nat]

ThermalType ==
  [config : Configs, supplied : [Elements -> Nat], taken : [Elements -> Nat],
   power : [Elements -> Nat], struck : SUBSET Elements, inlet : Nat,
   flow : Flows, factors : Nat,
   time : Nat, temperatures : TemperaturesType]

(* A row of values of the elements in which none is behind one above it,   *)
(* nor ahead of it, unless it has been given more values than that one or  *)
(* one in between                                                          *)
AheadBySupply(td, row) ==
  \A e, f \in Elements : e < f =>
    /\ row[f] <= row[e]
    /\ row[f] < row[e] =>
         \E g \in Elements : e < g /\ g <= f /\ td.supplied[g] < td.supplied[e]

(* The slot that the step ending at time t belongs to, counting from 1 *)
SlotOf(t) == (t + SlotLength - 1) \div SlotLength
=============================================================================
