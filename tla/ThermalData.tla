------------------------------ MODULE ThermalData ------------------------------
(***************************************************************************)
(* The thermal library as any caller may use it: power values are queued,  *)
(* steps and slots are emulated, the temperatures are reset and the flow   *)
(* rate of the coolant is changed, in any order and after any result.      *)
(* emulate_slot is a loop of emulate_step, taken here one step at a time.  *)
(***************************************************************************)
EXTENDS ThermalModel

CONSTANTS
  MaxSupply,    (* bound on the values queued for an element               *)
  MaxTime       (* bound on the steps emulated                             *)

ASSUME BoundAssumption == MaxSupply \in Nat /\ MaxTime \in Nat

VARIABLES
  call,         (* the emulate_slot in progress: [begun, taken] or Idle    *)
  failed        (* kinds of call that have failed (history)                *)

vars == <<tdata, call, failed>>

Idle == [slot |-> FALSE, begun |-> 0, taken |-> 0]

Init ==
  /\ \E config \in Configs, supply \in Supplies, flow \in Flows :
       tdata = Built(config, supply, flow)
  /\ call = Idle
  /\ failed = {}

InsertPowerValues(n) ==
  /\ call = Idle
  /\ \A e \in Elements : tdata.supplied[e] < MaxSupply
  /\ tdata' = Inserted(tdata, n)
  /\ UNCHANGED <<call, failed>>

(* One iteration of emulate_slot, or the whole of emulate_step *)
Emulated(result) ==
  failed' = failed \cup IF result = "SOLVER_ERROR" THEN {"solver"} ELSE {}

EmulateStep ==
  /\ call = Idle
  /\ tdata.time < MaxTime
  /\ \E out \in emulate_step(tdata) : tdata' = out.td /\ Emulated(out.result)
  /\ UNCHANGED call

(* begun and taken record where the call started (history) *)
BeginSlot ==
  /\ call = Idle
  /\ tdata.time + SlotLength <= MaxTime
  /\ call' = [slot |-> TRUE, begun |-> tdata.time, taken |-> tdata.taken[1]]
  /\ UNCHANGED <<tdata, failed>>

(* Seeded fault: the loop also goes on after a complete slot *)
SlotIterationEager ==
  /\ call # Idle
  /\ \E out \in emulate_step(tdata) :
       /\ tdata' = out.td
       /\ Emulated(out.result)
       /\ call' = IF out.result \in {"STEP_DONE", "SLOT_DONE"} THEN call ELSE Idle

(* Seeded fault: the loop also goes on when the power values are over *)
SlotIterationStubborn ==
  /\ call # Idle
  /\ \E out \in emulate_step(tdata) :
       /\ tdata' = out.td
       /\ Emulated(out.result)
       /\ call' = IF out.result \in {"STEP_DONE", "END_OF_SIMULATION"} THEN call ELSE Idle

SlotIteration ==
  /\ call # Idle
  /\ \E out \in emulate_step(tdata) :
       /\ tdata' = out.td
       /\ Emulated(out.result)
       /\ call' = IF out.result = "STEP_DONE" THEN call ELSE Idle

EmulateSteady ==
  /\ call = Idle
  /\ tdata.temperatures.steps < MaxTime
  /\ \E out \in emulate_steady(tdata) : tdata' = out.td /\ Emulated(out.result)
  /\ UNCHANGED call

ResetThermalState ==
  /\ call = Idle
  /\ tdata' = reset_thermal_state(tdata)
  /\ UNCHANGED <<call, failed>>

UpdateCoolantFlowRate(flow) ==
  /\ call = Idle
  /\ \/ /\ tdata' = Refactored(tdata, flow)
        /\ failed' = failed \ {"flow"}
     \/ /\ tdata' = Unfactored(tdata, flow)
        /\ failed' = failed \cup {"flow"}
  /\ UNCHANGED call

Next ==
  \/ \E n \in 0 .. N + 1 : InsertPowerValues(n)
  \/ EmulateStep
  \/ BeginSlot
  \/ SlotIteration
  \/ EmulateSteady
  \/ ResetThermalState
  \/ \E flow \in Flows : UpdateCoolantFlowRate(flow)

Spec == Init /\ [][Next]_vars

(* A caller may stop calling, but a call that has begun runs on *)
FairSpec == Spec /\ WF_vars(SlotIteration)

-----------------------------------------------------------------------------
(* Properties                                                              *)

(* No queue gives out a value that was not put into it, and the sources    *)
(* hold for every element the value taken last or none.                    *)
TypeOK ==
  /\ tdata \in ThermalType
  /\ call \in [slot : BOOLEAN, begun : Nat, taken : Nat]
  /\ failed \subseteq {"solver", "flow"}
  /\ \A e \in Elements : /\ tdata.taken[e] <= tdata.supplied[e]
                         /\ tdata.power[e] \in {0, tdata.taken[e]}

(* Some element has been given more values than an element above it *)
Lopsided ==
  \E e, f \in Elements : e < f /\ tdata.supplied[e] > tdata.supplied[f]

(* Every step of slot k is solved with the k-th value of every element,    *)
(* however the values came in, in whichever mix of steps and slots time    *)
(* was advanced, and also when the caller ran out of values, got           *)
(* END_OF_SIMULATION and went on after queueing more: a failing update     *)
(* consumes values only when a lower element is ahead of a higher one. A   *)
(* solver error breaks it (a retried step takes another row), and so does, *)
(* for the rest of a slot on a non-uniform grid, a change of the flow rate *)
(* for the elements it strikes.                                            *)
SlotUsesItsRow ==
  (tdata.config.analysis = "transient" /\ "solver" \notin failed /\ ~ Lopsided) =>
    \A e \in Elements :
      /\ tdata.taken[e] = SlotOf(tdata.time)
      /\ tdata.temperatures.steps > 0 /\ e \notin tdata.temperatures.struck
           => tdata.temperatures.power[e] = SlotOf(tdata.time)

(* An update that finds an empty queue has already taken a value from the  *)
(* elements before it (floorplan.c:279), so a caller that queues more and  *)
(* goes on does have steps, transient or steady, solved with values of     *)
(* different rows.  How far this goes: an element gets ahead only of those *)
(* above it, and only when it has been given more values than one of them; *)
(* the sources that the failing update leaves are never solved with, every *)
(* step has a value of every element; and in the middle of a slot they are *)
(* the values taken last, all of them, for the next step of the slot.      *)
RowsDifferBySupply ==
  /\ AheadBySupply(tdata, tdata.taken)
  /\ AheadBySupply(tdata, tdata.temperatures.power)
  /\ tdata.temperatures.steps > 0 => \A e \in Elements : tdata.temperatures.power[e] > 0
  /\ ~ slot_completed(tdata) => tdata.power = tdata.taken

(* Unless the last factorisation failed, the factors are those of the      *)
(* present flow rate, and so are the inlet terms that the next step of a   *)
(* slot is solved with, when the rate changes in the middle of it too, if  *)
(* update_channel_sources reaches them, as it does on a uniform grid.      *)
(* Where it does not, all steps of a slot are solved with the inlet terms  *)
(* of its first, and elements may lose power to a change of the flow rate  *)
(* until the slot ends; the first step of the next has all of it again.    *)
FlowConsistent ==
  /\ "flow" \notin failed =>
       /\ tdata.factors = tdata.flow
       /\ tdata.config.reached => slot_completed(tdata) \/ tdata.inlet = tdata.flow
  /\ ~ tdata.config.reached /\ ~ slot_completed(tdata) /\ tdata.temperatures.steps > 0
       => tdata.temperatures.inlet = tdata.inlet
  /\ tdata.time > 0 /\ (tdata.time - 1) % SlotLength = 0
       => tdata.temperatures.struck = {}

(* One emulate_slot never emulates beyond the end of the slot it begins in *)
(* and never takes more than one row of power values, when it starts in    *)
(* the middle of a slot too.                                               *)
OneSlotPerCall ==
  /\ call # Idle => /\ SlotOf(tdata.time) <= SlotOf(call.begun + 1)
                    /\ tdata.time = call.begun \/ ~ slot_completed(tdata)
  /\ call # Idle => tdata.taken[1] <= call.taken + 1

(* emulate_slot returns *)
SlotCallReturns == [](call # Idle => <>(call = Idle))
=============================================================================
