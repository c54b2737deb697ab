--------------------------- MODULE Simulation_proofs ---------------------------
(***************************************************************************)
(* Proofs about the simulation calls of sources/thermal_data.c, for every  *)
(* stack (elements, floorplans, channel, slot length), every supply of     *)
(* power values and every caller, and about one of the callers, the        *)
(* stand-alone simulator bin/3D-ICE-Emulator.c, whatever becomes of its    *)
(* files and its solver.                                                   *)
(***************************************************************************)
EXTENDS ThermalData, Emulator, SequenceTheorems, ThermalModel_proofs

-----------------------------------------------------------------------------
(* The coolant                                                             *)

(* The inductive invariant.  A steady analysis never leaves time zero, so  *)
(* a slot is complete whenever one of its calls ends.                      *)
CoolantInv ==
  /\ tdata \in ThermalType
  /\ call \in [slot : BOOLEAN, begun : Nat, taken : Nat]
  /\ failed \subseteq {"solver", "flow"}
  /\ tdata.config.analysis # "transient" => tdata.time = 0
  /\ "flow" \notin failed => tdata.factors = tdata.flow /\ InletFollows(tdata)
  /\ InletStays(tdata) /\ PowerReturns(tdata)

LEMMA InitCoolant == Init => CoolantInv
<1> SUFFICES ASSUME Init PROVE CoolantInv
  OBVIOUS
<1>1. PICK config \in Configs, supply \in Supplies, flow \in Flows :
        tdata = Built(config, supply, flow)
  BY DEF Init
<1>2. supply \in [Elements -> Nat] /\ flow \in Nat
  BY ThermalAssumption
<1>3. InitialTemperatures \in TemperaturesType
  BY DEF InitialTemperatures, TemperaturesType
<1>4. tdata \in ThermalType /\ tdata.time = 0 /\ tdata.factors = tdata.flow
  <2> HIDE DEF InitialTemperatures
  <2> QED BY <1>1, <1>2, <1>3 DEF Built, ThermalType
<1>5. 0 % SlotLength = 0 /\ tdata.temperatures.steps = 0
  BY <1>1, ThermalAssumption DEF Built, InitialTemperatures
<1>6. call \in [slot : BOOLEAN, begun : Nat, taken : Nat] /\ failed = {}
  BY DEF Init, Idle
<1> QED BY <1>4, <1>5, <1>6
        DEF CoolantInv, InletFollows, InletStays, PowerReturns, slot_completed

(* What an action that emulates does to the coolant: nothing *)
LEMMA EmulationCoolant ==
  ASSUME CoolantInv, NEW out \in emulate_step(tdata) \cup emulate_steady(tdata),
         tdata' = out.td, Emulated(out.result),
         call' \in [slot : BOOLEAN, begun : Nat, taken : Nat]
  PROVE  CoolantInv'
<1>1. failed' \subseteq {"solver", "flow"} /\ ("flow" \notin failed' => "flow" \notin failed)
  BY DEF Emulated, CoolantInv
<1>2. CASE out \in emulate_step(tdata)
  <2>1. /\ tdata' \in ThermalType /\ tdata'.config = tdata.config
        /\ tdata.config.analysis # "transient" => tdata'.time = tdata.time
        /\ tdata'.flow = tdata.flow /\ tdata'.factors = tdata.factors
    BY <1>2, EmulateStepTyped DEF CoolantInv
  <2>2. KeepsCoolant(tdata', tdata)
    BY <1>2, EmulateStepInlet DEF CoolantInv
  <2>3. /\ InletFollows(tdata) => InletFollows(tdata')
        /\ InletStays(tdata') /\ PowerReturns(tdata')
    BY <2>2 DEF CoolantInv, KeepsCoolant
  <2> QED BY <1>1, <2>1, <2>3 DEF CoolantInv
<1>3. CASE out \in emulate_steady(tdata)
  <2>1. /\ tdata' \in ThermalType /\ tdata'.config = tdata.config
        /\ tdata'.time = tdata.time
        /\ tdata'.flow = tdata.flow /\ tdata'.factors = tdata.factors
        /\ tdata.config.analysis # "steady" => tdata' = tdata
    BY <1>3, EmulateSteadyTyped DEF CoolantInv
  <2>2. tdata.config.analysis # "steady" =>
          /\ InletFollows(tdata) => InletFollows(tdata')
          /\ InletStays(tdata') /\ PowerReturns(tdata')
    BY <2>1 DEF CoolantInv
  <2>3. tdata.config.analysis = "steady" =>
          InletFollows(tdata') /\ InletStays(tdata') /\ PowerReturns(tdata')
    <3>1. 0 % SlotLength = 0
      BY ThermalAssumption
    <3> QED BY <2>1, <3>1
            DEF CoolantInv, InletFollows, InletStays, PowerReturns, slot_completed
  <2> QED BY <1>1, <2>1, <2>2, <2>3 DEF CoolantInv
<1> QED BY <1>2, <1>3

LEMMA NextCoolant == CoolantInv /\ [Next]_vars => CoolantInv'
<1> SUFFICES ASSUME CoolantInv, [Next]_vars PROVE CoolantInv'
  OBVIOUS
<1>0. /\ tdata \in ThermalType /\ tdata.flow \in Flows /\ tdata.time \in Nat
      /\ tdata.supplied \in [Elements -> Nat] /\ tdata.taken \in [Elements -> Nat]
      /\ call \in [slot : BOOLEAN, begun : Nat, taken : Nat]
  BY DEF CoolantInv, ThermalType
<1>1. ASSUME NEW n \in 0 .. N + 1, InsertPowerValues(n) PROVE CoolantInv'
  <2> DEFINE supplied == [e \in Elements |-> IF e <= n THEN tdata.supplied[e] + 1
                                             ELSE tdata.supplied[e]]
  <2>1. supplied \in [Elements -> Nat]
    BY <1>0
  <2>2. tdata' = [tdata EXCEPT !.supplied = supplied] /\ UNCHANGED <<call, failed>>
    BY <1>1 DEF InsertPowerValues, Inserted
  <2> HIDE DEF supplied
  <2> QED BY <2>1, <2>2
          DEF CoolantInv, ThermalType, InletFollows, InletStays, PowerReturns, slot_completed
<1>2. CASE EmulateStep
  BY <1>0, <1>2, EmulationCoolant DEF EmulateStep
<1>3. CASE BeginSlot
  <2>1. 1 \in Elements
    BY ThermalAssumption DEF Elements
  <2> QED BY <1>0, <1>3, <2>1 DEF BeginSlot, CoolantInv
<1>4. CASE SlotIteration
  <2>1. Idle \in [slot : BOOLEAN, begun : Nat, taken : Nat]
    BY DEF Idle
  <2> QED BY <1>0, <1>4, <2>1, EmulationCoolant DEF SlotIteration
<1>5. CASE EmulateSteady
  BY <1>0, <1>5, EmulationCoolant DEF EmulateSteady
<1>6. CASE ResetThermalState
  <2>1. InitialTemperatures \in TemperaturesType
    BY DEF InitialTemperatures, TemperaturesType
  <2>2. tdata' = [tdata EXCEPT !.temperatures = InitialTemperatures]
        /\ UNCHANGED <<call, failed>>
    BY <1>6 DEF ResetThermalState, reset_thermal_state
  <2>3. tdata'.temperatures.steps = 0 /\ tdata'.temperatures.struck = {}
    BY <1>0, <2>2 DEF ThermalType, InitialTemperatures
  <2> HIDE DEF InitialTemperatures
  <2> QED BY <2>1, <2>2, <2>3
          DEF CoolantInv, ThermalType, InletFollows, InletStays, PowerReturns, slot_completed
<1>7. ASSUME NEW flow \in Flows, UpdateCoolantFlowRate(flow) PROVE CoolantInv'
  <2>1. flow \in Nat /\ 0 \in Nat /\ tdata.config.struck \in SUBSET Elements
    BY <1>0, ThermalAssumption DEF ThermalType, Config
  <2>2. UNCHANGED call
    BY <1>7 DEF UpdateCoolantFlowRate
  <2>3. CASE tdata' = Refactored(tdata, flow) /\ failed' = failed \ {"flow"}
    BY <2>1, <2>2, <2>3 DEF Refactored, CoolantInv, ThermalType, InletFollows, InletStays,
                            PowerReturns, slot_completed
  <2>4. CASE tdata' = Unfactored(tdata, flow) /\ failed' = failed \cup {"flow"}
    BY <2>1, <2>2, <2>4 DEF Unfactored, CoolantInv, ThermalType, InletFollows, InletStays,
                            PowerReturns, slot_completed
  <2> QED BY <1>7, <2>3, <2>4 DEF UpdateCoolantFlowRate
<1>8. CASE UNCHANGED vars
  BY <1>8 DEF vars, CoolantInv, InletFollows, InletStays, PowerReturns, slot_completed
<1> QED BY <1>1, <1>2, <1>3, <1>4, <1>5, <1>6, <1>7, <1>8 DEF Next

(* For every stack, with the inlets and elements that a change of the flow *)
(* rate reaches or strikes on its grid: the factors are of the present     *)
(* rate unless the last factorisation failed, and so are the inlet terms   *)
(* that are reached; those that are not stay for the slot, and no first    *)
(* step of a slot lacks power to an earlier change.                        *)
THEOREM FlowAlwaysConsistent == Spec => []FlowConsistent
<1>1. CoolantInv => FlowConsistent
  BY DEF CoolantInv, FlowConsistent, InletFollows, InletStays, PowerReturns
<1> QED BY <1>1, InitCoolant, NextCoolant, PTL DEF Spec

-----------------------------------------------------------------------------
(* The inductive invariant for the queues.  Every supply is level or not   *)
(* from the start on: queueing values never raises an element above one    *)
(* below it that was not above it before.                                  *)
SourcesInv ==
  /\ CoolantInv
  /\ Bounded(tdata)
  /\ Ascending(tdata) => Even(tdata)

LEMMA InitSources == Init => SourcesInv
<1> SUFFICES ASSUME Init PROVE SourcesInv
  OBVIOUS
<1>1. PICK config \in Configs, supply \in Supplies, flow \in Flows :
        tdata = Built(config, supply, flow)
  BY DEF Init
<1>2. supply \in [Elements -> Nat]
  BY ThermalAssumption
<1>3. \A e \in Elements : /\ tdata.taken[e] = 0 /\ tdata.power[e] = 0
                          /\ tdata.temperatures.power[e] = 0
                          /\ tdata.supplied[e] \in Nat
  BY <1>1, <1>2 DEF Built, InitialTemperatures
<1> QED BY <1>3, InitCoolant DEF SourcesInv, Bounded, Even

LEMMA EmulationSources ==
  ASSUME SourcesInv, NEW out \in emulate_step(tdata) \cup emulate_steady(tdata),
         tdata' = out.td
  PROVE  Bounded(tdata') /\ (Ascending(tdata') => Even(tdata'))
<1>1. /\ Bounded(tdata') /\ tdata'.supplied = tdata.supplied
      /\ Ascending(tdata) /\ Even(tdata) => Even(tdata')
  BY EmulatedBounded DEF SourcesInv, CoolantInv
<1>2. Ascending(tdata') => Ascending(tdata)
  BY <1>1 DEF Ascending
<1> QED BY <1>1, <1>2 DEF SourcesInv

LEMMA NextSources == SourcesInv /\ [Next]_vars => SourcesInv'
<1> SUFFICES ASSUME SourcesInv, [Next]_vars
             PROVE  Bounded(tdata') /\ (Ascending(tdata') => Even(tdata'))
  BY NextCoolant DEF SourcesInv, Bounded, Ascending, Even
<1>0. tdata \in ThermalType /\ tdata.supplied \in [Elements -> Nat]
      /\ tdata.taken \in [Elements -> Nat]
  BY DEF SourcesInv, CoolantInv, ThermalType
<1>1. ASSUME NEW n \in 0 .. N + 1, InsertPowerValues(n)
      PROVE  Bounded(tdata') /\ (Ascending(tdata') => Even(tdata'))
  <2>1. /\ tdata'.taken = tdata.taken /\ tdata'.power = tdata.power
        /\ tdata'.temperatures = tdata.temperatures
        /\ \A e \in Elements :
             tdata'.supplied[e] = IF e <= n THEN tdata.supplied[e] + 1 ELSE tdata.supplied[e]
    BY <1>0, <1>1 DEF InsertPowerValues, Inserted, ThermalType
  <2>2. Elements \subseteq Nat /\ n \in Nat
    BY ThermalAssumption DEF Elements
  <2>3. Bounded(tdata')
    BY <1>0, <2>1 DEF Bounded, SourcesInv
  <2>4. Ascending(tdata') => Ascending(tdata)
    <3> SUFFICES ASSUME Ascending(tdata'), NEW e \in Elements, NEW f \in Elements, e < f
                 PROVE  tdata.supplied[e] <= tdata.supplied[f]
      BY DEF Ascending
    <3>1. tdata'.supplied[e] <= tdata'.supplied[f]
      BY DEF Ascending
    <3>2. tdata.supplied[e] \in Nat /\ tdata.supplied[f] \in Nat
      BY <1>0
    <3> QED BY <2>1, <2>2, <3>1, <3>2
  <2> QED BY <2>1, <2>3, <2>4 DEF Even, SourcesInv
<1>2. CASE EmulateStep \/ SlotIteration \/ EmulateSteady
  BY <1>2, EmulationSources DEF EmulateStep, SlotIteration, EmulateSteady
<1>3. CASE BeginSlot
  BY <1>3 DEF BeginSlot, SourcesInv
<1>4. CASE ResetThermalState
  <2>1. /\ tdata'.taken = tdata.taken /\ tdata'.power = tdata.power
        /\ tdata'.supplied = tdata.supplied
        /\ \A e \in Elements : tdata'.temperatures.power[e] = 0
    BY <1>0, <1>4 DEF ResetThermalState, reset_thermal_state, ThermalType, InitialTemperatures
  <2> QED BY <2>1 DEF SourcesInv, Bounded, Ascending, Even
<1>5. ASSUME NEW flow \in Flows, UpdateCoolantFlowRate(flow)
      PROVE  Bounded(tdata') /\ (Ascending(tdata') => Even(tdata'))
  <2>1. /\ tdata'.taken = tdata.taken /\ tdata'.power = tdata.power
        /\ tdata'.supplied = tdata.supplied
        /\ tdata'.temperatures = tdata.temperatures
    BY <1>0, <1>5 DEF UpdateCoolantFlowRate, Refactored, Unfactored, ThermalType
  <2> QED BY <2>1 DEF SourcesInv, Bounded, Ascending, Even
<1>6. CASE UNCHANGED vars
  BY <1>6 DEF vars, SourcesInv
<1> QED BY <1>1, <1>2, <1>3, <1>4, <1>5, <1>6 DEF Next

LEMMA SourcesAlways == Spec => []SourcesInv
BY InitSources, NextSources, PTL DEF Spec

(* No queue is read beyond what was put into it, and the sources hold the  *)
(* value taken last or none, whatever is called in whatever order.         *)
THEOREM TypeCorrect == Spec => []TypeOK
<1>1. SourcesInv => TypeOK
  BY DEF SourcesInv, CoolantInv, Bounded, TypeOK
<1> QED BY <1>1, SourcesAlways, PTL

-----------------------------------------------------------------------------
(* The rows                                                                *)

(* The inductive invariant for values of different rows *)
LeadInv == SourcesInv /\ Leads(tdata)

LEMMA InitLead == Init => LeadInv
<1> SUFFICES ASSUME Init PROVE LeadInv
  OBVIOUS
<1>1. PICK config \in Configs, supply \in Supplies, flow \in Flows :
        tdata = Built(config, supply, flow)
  BY DEF Init
<1>2. /\ tdata.time = 0 /\ tdata.temperatures.steps = 0
      /\ \A e \in Elements : tdata.taken[e] = 0 /\ tdata.temperatures.power[e] = 0
  BY <1>1 DEF Built, InitialTemperatures
<1>3. 0 % SlotLength = 0
  BY ThermalAssumption
<1>4. slot_completed(tdata)
  BY <1>2, <1>3 DEF slot_completed
<1> QED BY <1>2, <1>4, InitSources DEF LeadInv, Leads, AheadBySupply

LEMMA NextLead == LeadInv /\ [Next]_vars => LeadInv'
<1> SUFFICES ASSUME LeadInv, [Next]_vars PROVE Leads(tdata')
  <2>1. LeadInv /\ [Next]_vars => SourcesInv'
    BY NextSources DEF LeadInv
  <2> QED BY <2>1 DEF LeadInv, Leads, FullRow, AheadBySupply, slot_completed
<1>0. /\ tdata \in ThermalType /\ Bounded(tdata) /\ Leads(tdata)
      /\ tdata.supplied \in [Elements -> Nat]
      /\ tdata.config.analysis # "transient" => tdata.time = 0
  BY DEF LeadInv, SourcesInv, CoolantInv, ThermalType
<1>1. ASSUME NEW n \in 0 .. N + 1, InsertPowerValues(n) PROVE Leads(tdata')
  <2>1. /\ tdata'.taken = tdata.taken /\ tdata'.power = tdata.power
        /\ tdata'.temperatures = tdata.temperatures /\ tdata'.time = tdata.time
        /\ \A e \in Elements :
             tdata'.supplied[e] = IF e <= n THEN tdata.supplied[e] + 1 ELSE tdata.supplied[e]
    BY <1>0, <1>1 DEF InsertPowerValues, Inserted, ThermalType
  <2>2. Elements \subseteq Nat /\ n \in Nat
    BY ThermalAssumption DEF Elements
  <2>3. \A e, g \in Elements : e < g /\ tdata.supplied[g] < tdata.supplied[e]
                                => tdata'.supplied[g] < tdata'.supplied[e]
    BY <1>0, <2>1, <2>2
  <2>4. ASSUME NEW row, AheadBySupply(tdata, row) PROVE AheadBySupply(tdata', row)
    BY <2>3, <2>4 DEF AheadBySupply
  <2>5. AheadBySupply(tdata', tdata.taken) /\ AheadBySupply(tdata', tdata.temperatures.power)
    BY <1>0, <2>4 DEF Leads
  <2> QED BY <1>0, <2>1, <2>5 DEF Leads, FullRow, slot_completed
<1>2. CASE EmulateStep \/ SlotIteration
  BY <1>0, <1>2, EmulateStepLeads DEF EmulateStep, SlotIteration
<1>3. CASE BeginSlot
  BY <1>0, <1>3 DEF BeginSlot
<1>4. CASE EmulateSteady
  <2>1. 0 % SlotLength = 0
    BY ThermalAssumption
  <2>2. tdata.config.analysis = "steady" => slot_completed(tdata)
    BY <1>0, <2>1 DEF slot_completed
  <2> QED BY <1>0, <1>4, <2>2, EmulateSteadyLeads DEF EmulateSteady
<1>5. CASE ResetThermalState
  <2>1. /\ tdata'.taken = tdata.taken /\ tdata'.power = tdata.power
        /\ tdata'.supplied = tdata.supplied /\ tdata'.time = tdata.time
        /\ tdata'.temperatures.steps = 0
        /\ \A e \in Elements : tdata'.temperatures.power[e] = 0
    BY <1>0, <1>5 DEF ResetThermalState, reset_thermal_state, ThermalType, InitialTemperatures
  <2> QED BY <1>0, <2>1 DEF Leads, FullRow, AheadBySupply, slot_completed
<1>6. ASSUME NEW flow \in Flows, UpdateCoolantFlowRate(flow) PROVE Leads(tdata')
  <2>1. /\ tdata'.taken = tdata.taken /\ tdata'.power = tdata.power
        /\ tdata'.supplied = tdata.supplied /\ tdata'.time = tdata.time
        /\ tdata'.temperatures = tdata.temperatures
    BY <1>0, <1>6 DEF UpdateCoolantFlowRate, Refactored, Unfactored, ThermalType
  <2> QED BY <1>0, <2>1 DEF Leads, FullRow, AheadBySupply, slot_completed
<1>7. CASE UNCHANGED vars
  BY <1>0, <1>7 DEF vars
<1> QED BY <1>1, <1>2, <1>3, <1>4, <1>5, <1>6, <1>7 DEF Next

(* For every stack, however many elements and floorplans it has, and every *)
(* supply, lopsided ones included: where elements have values of different *)
(* rows, the one that is ahead stands below the other and has been given   *)
(* more than it, or more than one between them; and no step is solved with *)
(* sources that an update left when the values ran out in the middle.      *)
THEOREM RowsAlwaysDifferBySupply == Spec => []RowsDifferBySupply
<1>1. LeadInv => RowsDifferBySupply
  <2> SUFFICES ASSUME LeadInv, ~ slot_completed(tdata) PROVE tdata.power = tdata.taken
    BY DEF LeadInv, Leads, RowsDifferBySupply
  <2>1. tdata.power \in [Elements -> Nat] /\ tdata.taken \in [Elements -> Nat]
    BY DEF LeadInv, SourcesInv, CoolantInv, ThermalType
  <2>2. \A e \in Elements : tdata.power[e] = tdata.taken[e]
    BY DEF LeadInv, Leads, FullRow
  <2> QED BY <2>1, <2>2
<1> QED BY <1>1, InitLead, NextLead, PTL DEF Spec

-----------------------------------------------------------------------------
(* The slots                                                               *)

(* The inductive invariant for the slots.  After a solver error a slot may *)
(* be retried with the next row, and nothing is said.                      *)
SlotInv ==
  /\ SourcesInv
  /\ (tdata.config.analysis = "transient" /\ "solver" \notin failed /\ Ascending(tdata))
       => AtItsRow(tdata)

LEMMA InitSlot == Init => SlotInv
<1> SUFFICES ASSUME Init PROVE AtItsRow(tdata)
  BY InitSources DEF SlotInv
<1>1. PICK config \in Configs, supply \in Supplies, flow \in Flows :
        tdata = Built(config, supply, flow)
  BY DEF Init
<1>2. tdata.time = 0 /\ tdata.temperatures.steps = 0 /\ \A e \in Elements : tdata.taken[e] = 0
  BY <1>1 DEF Built, InitialTemperatures
<1>3. 0 % SlotLength = 0
  BY ThermalAssumption
<1>4. SlotOf(0) = 0
  <2> DEFINE l == SlotLength
  <2>1. l \in Nat \ {0} /\ 0 + l - 1 \in Nat /\ 0 + l - 1 = l * 0 + (l - 1) /\ l - 1 \in Nat /\ l - 1 < l
    BY ThermalAssumption
  <2> HIDE DEF l
  <2>2. (0 + l - 1) \div l = 0
    BY <2>1, DivisionUnique
  <2> QED BY <2>2 DEF SlotOf, l
<1> QED BY <1>2, <1>3, <1>4 DEF AtItsRow, slot_completed

LEMMA EmulationSlot ==
  ASSUME SlotInv, NEW out \in emulate_step(tdata), tdata' = out.td, Emulated(out.result),
         tdata'.config.analysis = "transient", "solver" \notin failed', Ascending(tdata')
  PROVE  AtItsRow(tdata')
<1>1. "solver" \notin failed /\ out.result # "SOLVER_ERROR"
  BY DEF Emulated
<1>2. tdata'.config = tdata.config /\ tdata'.supplied = tdata.supplied
  BY EmulateStepTyped DEF SlotInv, SourcesInv, CoolantInv
<1>3. Ascending(tdata)
  BY <1>2 DEF Ascending
<1> QED BY <1>1, <1>2, <1>3, EmulatedRow DEF SlotInv, SourcesInv, CoolantInv

LEMMA NextSlotInv == SlotInv /\ [Next]_vars => SlotInv'
<1> SUFFICES ASSUME SlotInv, [Next]_vars,
                    tdata'.config.analysis = "transient",
                    "solver" \notin failed', Ascending(tdata')
             PROVE  AtItsRow(tdata')
  <2>1. SlotInv /\ [Next]_vars => SourcesInv'
    BY NextSources DEF SlotInv
  <2> QED BY <2>1 DEF SlotInv, AtItsRow, Ascending, slot_completed
<1>0. /\ tdata \in ThermalType /\ SourcesInv
      /\ (tdata.config.analysis = "transient" /\ "solver" \notin failed /\ Ascending(tdata))
           => AtItsRow(tdata)
      /\ tdata.supplied \in [Elements -> Nat]
  BY DEF SlotInv, SourcesInv, CoolantInv, ThermalType
<1>1. ASSUME NEW n \in 0 .. N + 1, InsertPowerValues(n) PROVE AtItsRow(tdata')
  <2>1. /\ tdata'.config = tdata.config /\ tdata'.taken = tdata.taken
        /\ tdata'.power = tdata.power /\ tdata'.time = tdata.time
        /\ tdata'.temperatures = tdata.temperatures /\ failed' = failed
        /\ \A e \in Elements :
             tdata'.supplied[e] = IF e <= n THEN tdata.supplied[e] + 1 ELSE tdata.supplied[e]
    BY <1>0, <1>1 DEF InsertPowerValues, Inserted, ThermalType
  <2>2. Elements \subseteq Nat /\ n \in Nat
    BY ThermalAssumption DEF Elements
  <2>3. Ascending(tdata)
    <3> SUFFICES ASSUME NEW e \in Elements, NEW f \in Elements, e < f
                 PROVE  tdata.supplied[e] <= tdata.supplied[f]
      BY DEF Ascending
    <3>1. tdata'.supplied[e] <= tdata'.supplied[f]
      BY DEF Ascending
    <3>2. tdata.supplied[e] \in Nat /\ tdata.supplied[f] \in Nat
      BY <1>0
    <3> QED BY <2>1, <2>2, <3>1, <3>2
  <2> QED BY <1>0, <2>1, <2>3 DEF AtItsRow, slot_completed
<1>2. CASE EmulateStep \/ SlotIteration
  BY <1>2, EmulationSlot DEF EmulateStep, SlotIteration
<1>3. CASE BeginSlot
  BY <1>0, <1>3 DEF BeginSlot
<1>4. CASE EmulateSteady
  <2>1. PICK out \in emulate_steady(tdata) : tdata' = out.td /\ Emulated(out.result)
    BY <1>4 DEF EmulateSteady
  <2>2. tdata' = tdata
    BY <1>0, <2>1, EmulateSteadyTyped
  <2> QED BY <1>0, <2>1, <2>2 DEF Emulated
<1>5. CASE ResetThermalState
  <2>1. /\ tdata'.config = tdata.config /\ tdata'.taken = tdata.taken
        /\ tdata'.power = tdata.power /\ tdata'.time = tdata.time
        /\ tdata'.supplied = tdata.supplied /\ failed' = failed
        /\ tdata'.temperatures.steps = 0
    BY <1>0, <1>5 DEF ResetThermalState, reset_thermal_state, ThermalType, InitialTemperatures
  <2> QED BY <1>0, <2>1 DEF AtItsRow, Ascending, slot_completed
<1>6. ASSUME NEW flow \in Flows, UpdateCoolantFlowRate(flow) PROVE AtItsRow(tdata')
  <2>1. /\ tdata'.config = tdata.config /\ tdata'.taken = tdata.taken
        /\ tdata'.power = tdata.power /\ tdata'.time = tdata.time
        /\ tdata'.supplied = tdata.supplied
        /\ tdata'.temperatures = tdata.temperatures
    BY <1>0, <1>6 DEF UpdateCoolantFlowRate, Refactored, Unfactored, ThermalType
  <2>2. "solver" \notin failed
    BY <1>6 DEF UpdateCoolantFlowRate
  <2> QED BY <1>0, <2>1, <2>2 DEF AtItsRow, Ascending, slot_completed
<1>7. CASE UNCHANGED vars
  BY <1>0, <1>7 DEF vars
<1> QED BY <1>1, <1>2, <1>3, <1>4, <1>5, <1>6, <1>7 DEF Next

(* For every stack and slot length: each step of slot k is solved with the *)
(* k-th value of every element, in whichever order power values, steps and *)
(* whole slots come, as long as the solver has not failed.                 *)
THEOREM SlotAlwaysUsesItsRow == Spec => []SlotUsesItsRow
<1>1. SlotInv => SlotUsesItsRow
  <2>1. SlotInv => \A e \in Elements : tdata.supplied[e] \in Nat
    BY DEF SlotInv, SourcesInv, CoolantInv, ThermalType
  <2>2. SlotInv /\ ~ Lopsided => Ascending(tdata)
    BY <2>1 DEF Lopsided, Ascending
  <2> QED BY <2>2 DEF SlotInv, AtItsRow, SlotUsesItsRow
<1> QED BY <1>1, InitSlot, NextSlotInv, PTL DEF Spec

-----------------------------------------------------------------------------
(* emulate_slot                                                            *)

(* A slot call in progress has either not begun its first step or stands   *)
(* in the middle of the slot of that step, with at most one row taken.     *)
CallInv ==
  /\ CoolantInv
  /\ call # Idle =>
       \/ tdata.time = call.begun /\ tdata.taken[1] = call.taken
       \/ /\ ~ slot_completed(tdata)
          /\ SlotOf(tdata.time) = SlotOf(call.begun + 1)
          /\ tdata.taken[1] <= call.taken + 1

LEMMA InitCall == Init => CallInv
BY InitCoolant DEF CallInv, Init

LEMMA NextCall == CallInv /\ [Next]_vars => CallInv'
<1> SUFFICES ASSUME CallInv, [Next]_vars, call' # Idle
             PROVE  \/ tdata'.time = call'.begun /\ tdata'.taken[1] = call'.taken
                    \/ /\ ~ slot_completed(tdata')
                       /\ SlotOf(tdata'.time) = SlotOf(call'.begun + 1)
                       /\ tdata'.taken[1] <= call'.taken + 1
  BY NextCoolant DEF CallInv, SlotOf, slot_completed, Idle
<1>0. /\ tdata \in ThermalType /\ tdata.time \in Nat
      /\ 1 \in Elements /\ tdata.taken[1] \in Nat
      /\ call.taken \in Nat /\ call.begun \in Nat
  <2>1. 1 \in Elements
    BY ThermalAssumption DEF Elements
  <2>2. /\ tdata \in ThermalType /\ tdata.time \in Nat
        /\ tdata.taken \in [Elements -> Nat]
    BY DEF CallInv, CoolantInv, ThermalType
  <2> QED BY <2>1, <2>2 DEF CallInv, CoolantInv
<1>1. CASE BeginSlot
  <2>1. tdata' = tdata /\ call' = [slot |-> TRUE, begun |-> tdata.time, taken |-> tdata.taken[1]]
    BY <1>1 DEF BeginSlot
  <2>2. call'.begun = tdata.time /\ call'.taken = tdata.taken[1]
    BY <2>1
  <2> QED BY <2>1, <2>2
<1>2. CASE SlotIteration
  <2>1. PICK out \in emulate_step(tdata) :
          /\ tdata' = out.td
          /\ call' = IF out.result = "STEP_DONE" THEN call ELSE Idle
    BY <1>2 DEF SlotIteration
  <2>2. out.result = "STEP_DONE" /\ call' = call /\ call # Idle
    BY <2>1
  <2>3. /\ tdata'.time = tdata.time + 1 /\ ~ slot_completed(tdata')
        /\ tdata'.taken[1] = IF slot_completed(tdata) THEN tdata.taken[1] + 1 ELSE tdata.taken[1]
    BY <1>0, <2>1, <2>2, StepDone
  <2>4. CASE tdata.time = call.begun /\ tdata.taken[1] = call.taken
    BY <1>0, <2>2, <2>3, <2>4
  <2>5. CASE /\ ~ slot_completed(tdata)
             /\ SlotOf(tdata.time) = SlotOf(call.begun + 1)
             /\ tdata.taken[1] <= call.taken + 1
    <3>1. SlotOf(tdata'.time) = SlotOf(tdata.time)
      BY <1>0, <2>3, <2>5, SameSlot DEF slot_completed
    <3> QED BY <2>2, <2>3, <2>5, <3>1
  <2> QED BY <2>2, <2>4, <2>5 DEF CallInv
<1>3. CASE UNCHANGED vars
  BY <1>3 DEF vars, CallInv
<1>4. CASE \/ \E n \in 0 .. N + 1 : InsertPowerValues(n)
           \/ EmulateStep \/ EmulateSteady \/ ResetThermalState
           \/ \E flow \in Flows : UpdateCoolantFlowRate(flow)
  <2>1. call' = Idle
    BY <1>4 DEF InsertPowerValues, EmulateStep, EmulateSteady, ResetThermalState,
                UpdateCoolantFlowRate
  <2> QED BY <2>1
<1> QED BY <1>1, <1>2, <1>3, <1>4 DEF Next

(* For every slot length: one emulate_slot stays within the slot of its    *)
(* first step and takes at most one row, wherever in a slot it starts.     *)
THEOREM OneSlotPerCallAlways == Spec => []OneSlotPerCall
<1>1. CallInv => OneSlotPerCall
  <2> SUFFICES ASSUME CallInv, call # Idle
               PROVE  /\ SlotOf(tdata.time) <= SlotOf(call.begun + 1)
                      /\ tdata.time = call.begun \/ ~ slot_completed(tdata)
                      /\ tdata.taken[1] <= call.taken + 1
    BY DEF OneSlotPerCall
  <2>0. tdata.time \in Nat /\ call.taken \in Nat /\ call.begun \in Nat
    BY DEF CallInv, CoolantInv, ThermalType
  <2>1. /\ SlotOf(call.begun) \in Nat /\ SlotOf(call.begun + 1) \in Nat
        /\ SlotOf(call.begun) <= SlotOf(call.begun + 1)
    <3>1. SlotOf(call.begun) \in Nat
      BY <2>0, ThermalAssumption, Z3 DEF SlotOf
    <3>2. SlotOf(call.begun + 1) \in {SlotOf(call.begun), SlotOf(call.begun) + 1}
      BY <2>0, NextSlot, SameSlot
    <3> QED BY <3>1, <3>2
  <2> QED BY <2>0, <2>1 DEF CallInv
<1> QED BY <1>1, InitCall, NextCall, PTL DEF Spec

-----------------------------------------------------------------------------
(* The stand-alone simulator                                               *)

Line == [time : Nat, power : [Elements -> Nat], temperatures : TemperaturesType]

(* Until the loop ends, no step has failed and nothing was reset, so the   *)
(* temperatures follow as many steps as the clock shows.                   *)
Running ==
  /\ InProgress(tdata)
  /\ tdata.temperatures.steps = tdata.time
  /\ sim_result \in {"none"} \cup Done
  /\ tdata.config.analysis = "steady" => tdata.time = 0
  /\ files["FINAL"] = <<>>

(* What the end of the power values means: all slots of a transient        *)
(* simulation, or the first row of a steady one                            *)
AtTheEnd ==
  /\ tdata.config.analysis = "transient" =>
       /\ tdata.time = Shortest * SlotLength
       /\ tdata.temperatures.steps = tdata.time
  /\ tdata.config.analysis = "steady" /\ Shortest > 0 =>
       \A e \in Elements : tdata.power[e] = 1 /\ tdata.temperatures.power[e] = 1

(* The inductive invariant *)
EmulatorInv ==
  /\ tdata \in ThermalType
  /\ files \in [Instants -> Seq(Line)]
  /\ pc \in {"parse", "headers", "build", "emulate", "final", "exit"}
  /\ sim_result # "none" => pc \in {"emulate", "final", "exit"}
  /\ pc \notin {"final", "exit"} => Running
  /\ sim_result = "END_OF_SIMULATION" => AtTheEnd
  /\ OutputsConsistent
  /\ OutputsComplete
  /\ SteadyShowsItsRow

LEMMA InitEmulator == EmulatorInit => EmulatorInv
<1> SUFFICES ASSUME EmulatorInit PROVE EmulatorInv
  OBVIOUS
<1>1. PICK config \in Configs, supply \in Supplies, flow \in Flows :
        tdata = Built(config, supply, flow)
  BY DEF EmulatorInit
<1>2. supply \in [Elements -> Nat]
  BY ThermalAssumption
<1>3. /\ tdata \in ThermalType /\ InProgress(tdata) /\ tdata.time = 0
      /\ tdata.temperatures.steps = 0
  BY <1>1, <1>2, BuiltInProgress DEF InitialTemperatures
<1>4. /\ files \in [Instants -> Seq(Line)]
      /\ \A i \in Instants : files[i] = <<>>
  BY DEF EmulatorInit
<1>5. 0 \div SlotLength = 0
  BY ThermalAssumption, Z3
<1>6. \A i \in Instants : Len(files[i]) = 0
  BY <1>4
<1>7. OutputsConsistent /\ OutputsComplete /\ SteadyShowsItsRow
  BY <1>3, <1>5, <1>6 DEF OutputsConsistent, OutputsComplete, SteadyShowsItsRow, Instants
<1>8. pc = "parse" /\ sim_result = "none"
  BY DEF EmulatorInit
<1> QED BY <1>3, <1>4, <1>7, <1>8 DEF EmulatorInv, Running, Instants

(* What generate_output does to the files *)
LEMMA Generated ==
  ASSUME NEW td \in ThermalType, NEW instants \in SUBSET Instants,
         files \in [Instants -> Seq(Line)], Generate(instants, td)
  PROVE  /\ Snapshot(td) \in Line
         /\ files' \in [Instants -> Seq(Line)]
         /\ lost => lost'
         /\ \A i \in Instants :
              \/ files'[i] = files[i] /\ (i \in instants => lost')
              \/ i \in instants /\ files'[i] = Append(files[i], Snapshot(td))
<1>1. Snapshot(td) \in Line
  BY DEF Snapshot, Line, ThermalType
<1>2. PICK written \in SUBSET instants :
        /\ files' = [i \in Instants |-> IF i \in written
                                        THEN Append(files[i], Snapshot(td))
                                        ELSE files[i]]
        /\ lost' = (lost \/ written # instants)
  BY DEF Generate
<1>3. files' \in [Instants -> Seq(Line)]
  BY <1>1, <1>2, AppendProperties
<1>4. ASSUME NEW i \in Instants
      PROVE  \/ files'[i] = files[i] /\ (i \in instants => lost')
             \/ i \in instants /\ files'[i] = Append(files[i], Snapshot(td))
  <2>1. CASE i \in written
    BY <1>2, <2>1
  <2>2. CASE i \notin written
    BY <1>2, <2>2
  <2> QED BY <2>1, <2>2
<1> QED BY <1>1, <1>2, <1>3, <1>4

(* A line of the step or slot output that a step in progress adds *)
ConsistentLine(line) ==
  /\ line.temperatures.good
  /\ line.temperatures.steps = line.time
  /\ line.temperatures.power = line.power
  /\ \A e \in Elements : line.power[e] = SlotOf(line.time)

LEMMA AppendConsistent ==
  ASSUME NEW file \in Seq(Line), NEW line \in Line, ConsistentLine(line),
         \A k \in 1 .. Len(file) : ConsistentLine(file[k])
  PROVE  \A k \in 1 .. Len(Append(file, line)) : ConsistentLine(Append(file, line)[k])
BY AppendProperties

(* The instants that end at time t, and no other, are in the files *)
Complete(file, t, length) ==
  /\ Len(file) = t \div length
  /\ \A k \in 1 .. Len(file) : file[k].time = k * length

LEMMA DivisionStep ==
  ASSUME NEW t \in Nat, NEW l \in Nat \ {0}
  PROVE  /\ t \div l \in Nat
         /\ (t + 1) % l = 0 => /\ (t + 1) \div l = (t \div l) + 1
                               /\ t + 1 = ((t \div l) + 1) * l
         /\ (t + 1) % l # 0 => (t + 1) \div l = t \div l
<1>1. PICK q \in Nat, r \in 0 .. l - 1 : t = l * q + r
  <2>1. t \div l \in Nat /\ t % l \in 0 .. l - 1 /\ t = l * (t \div l) + (t % l)
    BY Z3
  <2> QED BY <2>1, Zenon
<1>2. t \div l = q
  BY <1>1, DivisionUnique
<1>3. CASE r + 1 < l
  <2>1. t + 1 = l * q + (r + 1) /\ r + 1 \in Nat
    BY <1>1
  <2>2. (t + 1) \div l = q
    BY <1>3, <2>1, DivisionUnique
  <2>3. (t + 1) % l # 0
    <3> SUFFICES ASSUME (t + 1) % l = 0 PROVE FALSE
      OBVIOUS
    <3>1. t + 1 = l * ((t + 1) \div l) + ((t + 1) % l)
      BY Z3
    <3>2. t + 1 = l * q
      BY <2>2, <3>1
    <3> QED BY <2>1, <3>2, <1>1
  <2> QED BY <1>1, <1>2, <2>2, <2>3
<1>4. CASE r + 1 = l
  <2>1. t + 1 = l * (q + 1) + 0 /\ q + 1 \in Nat
    BY <1>1, <1>4
  <2>2. (t + 1) \div l = q + 1
    BY <2>1, DivisionUnique
  <2>3. (t + 1) % l = 0
    <3>1. t + 1 = l * ((t + 1) \div l) + ((t + 1) % l) /\ (t + 1) % l \in Nat
      BY Z3
    <3> QED BY <2>1, <2>2, <3>1
  <2>4. t + 1 = (q + 1) * l
    BY <2>1
  <2> QED BY <1>1, <1>2, <2>2, <2>3, <2>4
<1> QED BY <1>1, <1>3, <1>4

LEMMA AppendComplete ==
  ASSUME NEW file \in Seq(Line), NEW line \in Line, NEW t \in Nat, NEW l \in Nat \ {0},
         Complete(file, t, l), line.time = t + 1, (t + 1) % l = 0
  PROVE  Complete(Append(file, line), t + 1, l)
<1>1. (t + 1) \div l = (t \div l) + 1 /\ t + 1 = ((t \div l) + 1) * l
  BY DivisionStep
<1>2. /\ Len(Append(file, line)) = Len(file) + 1 /\ Len(file) \in Nat
      /\ \A k \in 1 .. Len(file) : Append(file, line)[k] = file[k]
      /\ Append(file, line)[Len(file) + 1] = line
  BY AppendProperties
<1>3. Len(Append(file, line)) = (t + 1) \div l
  BY <1>1, <1>2 DEF Complete
<1>4. ASSUME NEW k \in 1 .. Len(Append(file, line))
      PROVE  Append(file, line)[k].time = k * l
  <2>1. CASE k \in 1 .. Len(file)
    BY <1>2, <2>1 DEF Complete
  <2>2. CASE k = Len(file) + 1
    <3>1. k = (t \div l) + 1
      BY <2>2 DEF Complete
    <3> QED BY <1>1, <1>2, <2>2, <3>1
  <2> QED BY <1>2, <1>4, <2>1, <2>2
<1> QED BY <1>3, <1>4 DEF Complete

(* The two properties of the outputs, in these terms *)
LEMMA OutputsAre ==
  ASSUME tdata.time \in Nat
  PROVE  /\ OutputsConsistent <=>
              \A i \in {"STEP", "SLOT"} : \A k \in 1 .. Len(files[i]) : ConsistentLine(files[i][k])
         /\ (files["STEP"] \in Seq(Line) /\ files["SLOT"] \in Seq(Line)) =>
              (OutputsComplete <=>
                 (~ lost => /\ Complete(files["STEP"], tdata.time, 1)
                            /\ Complete(files["SLOT"], tdata.time, SlotLength)))
<1>1. tdata.time \div 1 = tdata.time /\ \A k \in Nat : k * 1 = k
  BY Z3
<1>2. \A i \in {"STEP", "SLOT"} : files[i] \in Seq(Line) => Len(files[i]) \in Nat
  OBVIOUS
<1> QED BY <1>1, <1>2 DEF OutputsConsistent, OutputsComplete, ConsistentLine, Complete

(* A step that succeeds *)
LEMMA IterateStep ==
  ASSUME EmulatorInv, pc = "emulate", tdata.config.analysis = "transient",
         NEW out \in emulate_step(tdata), out.result \in Done,
         tdata' = out.td, sim_result' = out.result, pc' = pc,
         Generate(Due(out.result, out.td), out.td)
  PROVE  EmulatorInv'
<1> DEFINE line == Snapshot(tdata')
<1>0. /\ tdata \in ThermalType /\ tdata.time \in Nat /\ InProgress(tdata)
      /\ files \in [Instants -> Seq(Line)]
  BY DEF EmulatorInv, Running, ThermalType
<1>1. /\ tdata' \in ThermalType /\ InProgress(tdata')
      /\ tdata'.time = tdata.time + 1
      /\ tdata'.temperatures.steps = tdata'.time
      /\ tdata'.temperatures.power = tdata'.power
      /\ tdata'.config = tdata.config
      /\ out.result = IF slot_completed(tdata') THEN "SLOT_DONE" ELSE "STEP_DONE"
  BY <1>0, EmulatedInProgress, EmulateStepTyped DEF EmulatorInv, Running
<1>2. Due(out.result, out.td) = IF slot_completed(tdata') THEN {"STEP", "SLOT"} ELSE {"STEP"}
  BY <1>1 DEF Due
<1>3. /\ line \in Line
      /\ files' \in [Instants -> Seq(Line)]
      /\ lost => lost'
      /\ \A i \in Instants :
           \/ files'[i] = files[i] /\ (i \in Due(out.result, out.td) => lost')
           \/ i \in Due(out.result, out.td) /\ files'[i] = Append(files[i], line)
  <2>1. Due(out.result, out.td) \in SUBSET Instants
    BY <1>2 DEF Instants
  <2> HIDE DEF Due
  <2> QED BY <1>0, <1>1, <2>1, Generated
<1>4. ConsistentLine(line) /\ line.time = tdata.time + 1
  BY <1>1 DEF ConsistentLine, Snapshot, InProgress
<1> HIDE DEF line
<1>5. OutputsConsistent'
  <2>1. ASSUME NEW i \in {"STEP", "SLOT"}
        PROVE  \A k \in 1 .. Len(files'[i]) : ConsistentLine(files'[i][k])
    <3>1. files[i] \in Seq(Line) /\ \A k \in 1 .. Len(files[i]) : ConsistentLine(files[i][k])
      BY <1>0, OutputsAre DEF EmulatorInv, Instants
    <3>2. files'[i] = files[i] \/ files'[i] = Append(files[i], line)
      BY <1>3 DEF Instants
    <3> QED BY <1>3, <1>4, <3>1, <3>2, AppendConsistent
  <2> QED BY <2>1 DEF OutputsConsistent, ConsistentLine
<1>6. OutputsComplete'
  <2>1. ASSUME ~ lost'
        PROVE  /\ Complete(files'["STEP"], tdata'.time, 1)
               /\ Complete(files'["SLOT"], tdata'.time, SlotLength)
    <3>1. /\ Complete(files["STEP"], tdata.time, 1)
          /\ Complete(files["SLOT"], tdata.time, SlotLength)
          /\ files["STEP"] \in Seq(Line) /\ files["SLOT"] \in Seq(Line)
      BY <1>0, <1>3, <2>1, OutputsAre DEF EmulatorInv, Instants
    <3>2. files'["STEP"] = Append(files["STEP"], line)
      BY <1>2, <1>3, <2>1 DEF Instants
    <3>3. Complete(files'["STEP"], tdata'.time, 1)
      <4>1. (tdata.time + 1) % 1 = 0
        BY <1>0, Z3
      <4> QED BY <1>0, <1>1, <1>3, <1>4, <3>1, <3>2, <4>1, AppendComplete
    <3>4. SlotLength \in Nat \ {0}
      BY ThermalAssumption
    <3>5. CASE slot_completed(tdata')
      <4>1. files'["SLOT"] = Append(files["SLOT"], line)
        BY <1>2, <1>3, <2>1, <3>5 DEF Instants
      <4>2. (tdata.time + 1) % SlotLength = 0
        BY <1>1, <3>5 DEF slot_completed
      <4> QED BY <1>0, <1>1, <1>3, <1>4, <3>1, <3>3, <3>4, <4>1, <4>2, AppendComplete
    <3>6. CASE ~ slot_completed(tdata')
      <4>1. files'["SLOT"] = files["SLOT"]
        BY <1>2, <1>3, <3>6 DEF Instants
      <4>2. tdata'.time \div SlotLength = tdata.time \div SlotLength
        BY <1>0, <1>1, <3>4, <3>6, DivisionStep DEF slot_completed
      <4> QED BY <3>1, <3>3, <4>1, <4>2 DEF Complete
    <3> QED BY <3>5, <3>6
  <2>2. /\ tdata'.time \in Nat /\ tdata'.time \div 1 = tdata'.time
        /\ \A k \in Nat : k * 1 = k
    BY <1>0, <1>1, Z3
  <2>3. Len(files'["STEP"]) \in Nat
    BY <1>3 DEF Instants
  <2> QED BY <2>1, <2>2, <2>3 DEF OutputsComplete, Complete
<1>7. Running'
  <2>1. files'["FINAL"] = files["FINAL"] /\ files["FINAL"] = <<>>
    BY <1>2, <1>3 DEF Instants, EmulatorInv, Running
  <2>2. tdata'.config.analysis # "steady"
    BY <1>1
  <2> QED BY <1>1, <2>1, <2>2 DEF Running, InProgress, slot_completed
<1>8. sim_result' # "END_OF_SIMULATION" /\ pc' = "emulate"
  BY DEF Done
<1> QED BY <1>1, <1>3, <1>5, <1>6, <1>7, <1>8 DEF EmulatorInv, SteadyShowsItsRow

(* The last iteration: the power values are over, or the solver failed *)
LEMMA IterateLast ==
  ASSUME EmulatorInv, pc = "emulate",
         NEW out \in Emulate(tdata), out.result \notin Done,
         tdata' = out.td, sim_result' = out.result, pc' = "final",
         Generate(Due(out.result, out.td), out.td)
  PROVE  EmulatorInv'
<1>0. /\ tdata \in ThermalType /\ tdata.time \in Nat /\ InProgress(tdata)
      /\ files \in [Instants -> Seq(Line)]
      /\ tdata.temperatures.steps = tdata.time
  BY DEF EmulatorInv, Running, ThermalType
<1>1. /\ tdata' \in ThermalType /\ tdata'.time = tdata.time
      /\ tdata'.config = tdata.config /\ tdata'.supplied = tdata.supplied
  BY <1>0, EmulateStepTyped, EmulateSteadyTyped DEF Emulate
<1>2. Due(out.result, out.td) = {}
  BY DEF Due, Done
<1>3. files' = files /\ (lost => lost')
  <2>1. \A i \in Instants : files'[i] = files[i]
    BY <1>0, <1>1, <1>2, Generated
  <2>2. files' \in [Instants -> Seq(Line)] /\ (lost => lost')
    BY <1>0, <1>1, <1>2, Generated
  <2> QED BY <1>0, <2>1, <2>2
<1>4. OutputsConsistent' /\ OutputsComplete'
  BY <1>1, <1>3 DEF EmulatorInv, OutputsConsistent, OutputsComplete
<1>5. ASSUME sim_result' = "END_OF_SIMULATION" PROVE AtTheEnd'
  <2>1. Shortest' = Shortest
    BY <1>1 DEF Shortest
  <2>2. ASSUME tdata.config.analysis = "transient"
        PROVE  tdata'.time = Shortest * SlotLength /\ tdata'.temperatures.steps = tdata'.time
    BY <1>0, <1>5, <2>2, EmulatedToTheEnd DEF Emulate, Shortest
  <2>3. ASSUME tdata.config.analysis = "steady", Shortest > 0
        PROVE  \A e \in Elements : tdata'.power[e] = 1 /\ tdata'.temperatures.power[e] = 1
    <3>1. out \in emulate_steady(tdata)
      BY <2>3 DEF Emulate
    <3>2. \A e \in Elements : tdata.taken[e] = 0
      BY <2>3, SlotZero DEF EmulatorInv, Running, InProgress
    <3>3. ~ Exhausted(tdata)
      <4> SUFFICES ASSUME NEW e \in Elements, tdata.supplied[e] = 0 PROVE FALSE
        BY <3>2 DEF Exhausted, is_empty
      <4> DEFINE S == {tdata.supplied[f] : f \in Elements}
      <4>1. S \in SUBSET Nat /\ tdata.supplied[e] \in S
        BY <1>0 DEF ThermalType
      <4>2. Min(S) \in Nat /\ Min(S) <= 0
        <5> HIDE DEF S
        <5> QED BY <4>1, MinOfNaturals
      <4> QED BY <2>3, <4>2 DEF Shortest
    <3>4. out.td = Solved(Updated(tdata), TRUE)
      BY <1>0, <1>5, <2>3, <3>1, <3>3, SteadyEnd
    <3>5. /\ Updated(tdata) \in ThermalType
          /\ \A e \in Elements : Updated(tdata).power[e] = 1
      BY <1>0, <3>2, <3>3, UpdatedTyped, UpdatedComplete
    <3>6. /\ SameSources(Solved(Updated(tdata), TRUE), Updated(tdata))
          /\ Solved(Updated(tdata), TRUE).temperatures.power = Updated(tdata).power
      BY <3>5, SolvedTyped
    <3> QED BY <3>4, <3>5, <3>6 DEF SameSources
  <2> QED BY <1>1, <2>1, <2>2, <2>3 DEF AtTheEnd
<1>6. SteadyShowsItsRow'
  <2>1. Len(files'["FINAL"]) = 0
    BY <1>3 DEF EmulatorInv, Running
  <2> QED BY <2>1 DEF SteadyShowsItsRow
<1> QED BY <1>0, <1>1, <1>3, <1>4, <1>5, <1>6 DEF EmulatorInv

LEMMA NextEmulator == EmulatorInv /\ [EmulatorNext]_emulatorVars => EmulatorInv'
<1> SUFFICES ASSUME EmulatorInv, [EmulatorNext]_emulatorVars PROVE EmulatorInv'
  OBVIOUS
<1> USE DEF EmulatorInv
<1>1. ASSUME NEW from \in {"parse", "headers", "build"},
             NEW to \in {"headers", "build", "emulate"}, Prepare(from, to)
      PROVE  EmulatorInv'
  <2>1. /\ pc = from /\ pc' \in {to, "exit"}
        /\ UNCHANGED <<tdata, sim_result, files, lost>>
    BY <1>1 DEF Prepare, Exit
  <2> QED BY <2>1 DEF Running, InProgress, AtTheEnd, Shortest,
                      OutputsConsistent, OutputsComplete, SteadyShowsItsRow
<1>2. CASE Iterate
  <2>1. PICK out \in Emulate(tdata) :
          /\ tdata' = out.td /\ sim_result' = out.result
          /\ Generate(Due(out.result, out.td), out.td)
          /\ pc' = IF out.result \in {"END_OF_SIMULATION", "SOLVER_ERROR"}
                   THEN "final" ELSE pc
    BY <1>2 DEF Iterate
  <2>2. pc = "emulate"
    BY <1>2 DEF Iterate
  <2>3. /\ out.result \in Done \cup {"END_OF_SIMULATION", "SOLVER_ERROR"}
        /\ out.result \in Done => tdata.config.analysis = "transient"
    <3>1. tdata.config.analysis \in {"transient", "steady"}
      BY ThermalAssumption DEF ThermalType, Config
    <3>2. CASE tdata.config.analysis = "transient"
      BY <3>2, EmulateStepTyped DEF Emulate, SimResults, Done
    <3>3. CASE tdata.config.analysis = "steady"
      BY <3>3, SteadyResults DEF Emulate, Done
    <3> QED BY <3>1, <3>2, <3>3
  <2>4. CASE out.result \in Done
    BY <2>1, <2>2, <2>3, <2>4, IterateStep DEF Emulate, Done
  <2>5. CASE out.result \notin Done
    BY <2>1, <2>2, <2>3, <2>5, IterateLast
  <2> QED BY <2>4, <2>5
<1>3. CASE Final
  <2>1. /\ pc = "final" /\ pc' = "exit" /\ UNCHANGED <<tdata, sim_result>>
        /\ Generate({"FINAL"}, tdata)
    BY <1>3 DEF Final, Exit
  <2>2. /\ files' \in [Instants -> Seq(Line)]
        /\ lost => lost'
        /\ files'["STEP"] = files["STEP"] /\ files'["SLOT"] = files["SLOT"]
        /\ files'["FINAL"] \in {files["FINAL"], Append(files["FINAL"], Snapshot(tdata))}
    BY <2>1, Generated DEF Instants
  <2>3. OutputsConsistent' /\ OutputsComplete'
    <3>1. \A i \in {"STEP", "SLOT"} : files'[i] = files[i]
      BY <2>2
    <3>2. OutputsConsistent'
      BY <3>1 DEF OutputsConsistent
    <3>3. OutputsComplete'
      BY <2>1, <2>2 DEF OutputsComplete
    <3> QED BY <3>2, <3>3
  <2>4. AtTheEnd <=> AtTheEnd'
    BY <2>1 DEF AtTheEnd, Shortest
  <2>5. SteadyShowsItsRow'
    <3> SUFFICES ASSUME tdata.config.analysis = "steady", Shortest > 0,
                        sim_result = "END_OF_SIMULATION",
                        NEW k \in 1 .. Len(files'["FINAL"]), NEW e \in Elements
                 PROVE  /\ files'["FINAL"][k].power[e] = 1
                        /\ files'["FINAL"][k].temperatures.power[e] = 1
      BY <2>1 DEF SteadyShowsItsRow, Shortest
    <3>1. /\ tdata.power[e] = 1 /\ tdata.temperatures.power[e] = 1
          /\ files["FINAL"] \in Seq(Line)
      BY DEF AtTheEnd, Instants
    <3>2. \A j \in 1 .. Len(files["FINAL"]) : /\ files["FINAL"][j].power[e] = 1
                                            /\ files["FINAL"][j].temperatures.power[e] = 1
      BY DEF SteadyShowsItsRow
    <3>3. CASE files'["FINAL"] = files["FINAL"]
      BY <3>2, <3>3
    <3>4. CASE files'["FINAL"] = Append(files["FINAL"], Snapshot(tdata))
      <4>1. Snapshot(tdata) \in Line
        BY <2>1, Generated DEF Instants
      <4>2. Snapshot(tdata).power[e] = 1 /\ Snapshot(tdata).temperatures.power[e] = 1
        BY <3>1 DEF Snapshot
      <4> HIDE DEF EmulatorInv
      <4> QED BY <3>1, <3>2, <3>4, <4>1, <4>2, AppendProperties
    <3> QED BY <2>2, <3>3, <3>4
  <2> QED BY <2>1, <2>2, <2>3, <2>4, <2>5
<1>4. CASE UNCHANGED emulatorVars
  BY <1>4 DEF emulatorVars, Running, InProgress, AtTheEnd, Shortest,
              OutputsConsistent, OutputsComplete, SteadyShowsItsRow
<1> QED BY <1>1, <1>2, <1>3, <1>4 DEF EmulatorNext

LEMMA EmulatorAlways == EmulatorSpec => []EmulatorInv
BY InitEmulator, NextEmulator, PTL DEF EmulatorSpec

(* Whatever the solver and the files do, a line of the step or the slot    *)
(* output shows a power map, temperatures and a time of one another.       *)
THEOREM OutputsAlwaysConsistent == EmulatorSpec => []OutputsConsistent
<1>1. EmulatorInv => OutputsConsistent
  BY DEF EmulatorInv
<1> QED BY <1>1, EmulatorAlways, PTL

(* For every slot length: unless a file could not be opened, there is a    *)
(* line for each step and one for each slot, at its end.                   *)
THEOREM OutputsAlwaysComplete == EmulatorSpec => []OutputsComplete
<1>1. EmulatorInv => OutputsComplete
  BY DEF EmulatorInv
<1> QED BY <1>1, EmulatorAlways, PTL

(* For every supply of power values: a transient simulation ends with the  *)
(* last slot for which every element has a value.                          *)
THEOREM AlwaysEndsWithTheTrace == EmulatorSpec => []EndsWithTheTrace
<1>1. EmulatorInv => EndsWithTheTrace
  BY DEF EmulatorInv, AtTheEnd, EndsWithTheTrace
<1> QED BY <1>1, EmulatorAlways, PTL

(* For every supply of power values: the final output of a steady          *)
(* simulation shows the first row and the solution for it.                 *)
THEOREM SteadyAlwaysShowsItsRow == EmulatorSpec => []SteadyShowsItsRow
<1>1. EmulatorInv => SteadyShowsItsRow
  BY DEF EmulatorInv
<1> QED BY <1>1, EmulatorAlways, PTL
=============================================================================
