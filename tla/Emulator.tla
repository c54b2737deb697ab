------------------------------- MODULE Emulator -------------------------------
(***************************************************************************)
(* bin/3D-ICE-Emulator.c: the stand-alone simulator.  It parses the stack, *)
(* writes the headers of the output files, builds the thermal data and     *)
(* then emulates until the power values are over or the solver fails,      *)
(* appending to the output files after every step, after every slot and,   *)
(* once, at the end.                                                       *)
(***************************************************************************)
EXTENDS ThermalModel, Sequences

VARIABLES
  pc,           (* "parse", "headers", "build", "emulate", "final", "exit" *)
  sim_result,   (* the result of the last emulate                          *)
  files,        (* files[i]: what was output at instant i                  *)
  lost,         (* an output file could not be opened (history)            *)
  status        (* exit status of the program, or "none"                   *)

emulatorVars == <<pc, tdata, sim_result, files, lost, status>>

Instants == {"STEP", "SLOT", "FINAL"}

EmulatorInit ==
  /\ pc = "parse"
  /\ \E config \in Configs, supply \in Supplies, flow \in Flows :
       tdata = Built(config, supply, flow)
  /\ sim_result = "none"
  /\ files = [i \in Instants |-> <<>>]
  /\ lost = FALSE
  /\ status = "none"

Exit(code) == pc' = "exit" /\ status' = code

(* parse_stack_description_file, generate_output_headers and               *)
(* thermal_data_build, in this order; any of them may fail                 *)
Prepare(from, to) ==
  /\ pc = from
  /\ \/ pc' = to /\ UNCHANGED status
     \/ Exit("EXIT_FAILURE")
  /\ UNCHANGED <<tdata, sim_result, files, lost>>

(* What an inspection point can show of td: temperatures and power map *)
Snapshot(td) ==
  [time |-> td.time, power |-> td.power, temperatures |-> td.temperatures]

(* Seeded fault: the slot output comes a step early *)
DueEarly(result, td) ==
  IF result \in {"STEP_DONE", "SLOT_DONE"}
  THEN {"STEP"} \cup IF (td.time + 1) % SlotLength = 0 THEN {"SLOT"} ELSE {}
  ELSE {}

(* The instants at which an iteration of the loop generates output *)
Due(result, td) ==
  CASE result = "STEP_DONE" -> {"STEP"}
    [] result = "SLOT_DONE" -> {"STEP", "SLOT"}
    [] OTHER -> {}

(* generate_output at the given instants; the emulator ignores a failure   *)
(* to open the file                                                        *)
Generate(instants, td) ==
  \E written \in SUBSET instants :
    /\ files' = [i \in Instants |-> IF i \in written
                                    THEN Append(files[i], Snapshot(td))
                                    ELSE files[i]]
    /\ lost' = (lost \/ written # instants)

(* Seeded fault: the two function pointers are swapped *)
EmulateSwapped(td) ==
  IF td.config.analysis = "transient" THEN emulate_steady(td) ELSE emulate_step(td)

(* emulate points to emulate_step or to emulate_steady *)
Emulate(td) ==
  IF td.config.analysis = "transient" THEN emulate_step(td) ELSE emulate_steady(td)

(* One iteration of the do-while loop *)
Iterate ==
  /\ pc = "emulate"
  /\ \E out \in Emulate(tdata) :
       /\ tdata' = out.td
       /\ sim_result' = out.result
       /\ Generate(Due(out.result, out.td), out.td)
       /\ pc' = IF out.result \in {"END_OF_SIMULATION", "SOLVER_ERROR"}
                THEN "final" ELSE pc
  /\ UNCHANGED status

Final ==
  /\ pc = "final"
  /\ Generate({"FINAL"}, tdata)
  /\ Exit("EXIT_SUCCESS")
  /\ UNCHANGED <<tdata, sim_result>>

EmulatorNext ==
  \/ Prepare("parse", "headers")
  \/ Prepare("headers", "build")
  \/ Prepare("build", "emulate")
  \/ Iterate
  \/ Final

(* A single-threaded program keeps running *)
EmulatorSpec == EmulatorInit /\ [][EmulatorNext]_emulatorVars /\ WF_emulatorVars(EmulatorNext)

-----------------------------------------------------------------------------
(* Properties                                                              *)

Shortest == Min({tdata.supplied[e] : e \in Elements})

(* Every line of a step or slot output shows a state in which time, power  *)
(* map and temperatures belong together: the powers are those of the slot  *)
(* in progress, the temperatures were solved from them and follow as many  *)
(* steps as the time says.                                                 *)
OutputsConsistent ==
  \A i \in {"STEP", "SLOT"} : \A k \in 1 .. Len(files[i]) :
    LET line == files[i][k] IN
    /\ line.temperatures.good
    /\ line.temperatures.steps = line.time
    /\ line.temperatures.power = line.power
    /\ \A e \in Elements : line.power[e] = SlotOf(line.time)

(* Unless a file could not be opened, the step output has one line per     *)
(* step and the slot output one per slot, at its end.                      *)
OutputsComplete ==
  ~ lost => /\ Len(files["STEP"]) = tdata.time
            /\ Len(files["SLOT"]) = tdata.time \div SlotLength
            /\ \A k \in 1 .. Len(files["STEP"]) : files["STEP"][k].time = k
            /\ \A k \in 1 .. Len(files["SLOT"]) : files["SLOT"][k].time = k * SlotLength

(* A transient simulation that ends because the power values are over has  *)
(* emulated every slot for which every element has a value, and its final  *)
(* temperatures are those of the last step.                                *)
EndsWithTheTrace ==
  (pc = "exit" /\ sim_result = "END_OF_SIMULATION" /\ tdata.config.analysis = "transient") =>
    /\ tdata.time = Shortest * SlotLength
    /\ tdata.temperatures.steps = tdata.time

(* A steady simulation takes one value of every element, and its final     *)
(* output shows the solution for these values next to them.                *)
SteadyShowsItsRow ==
  (tdata.config.analysis = "steady" /\ sim_result = "END_OF_SIMULATION" /\ Shortest > 0) =>
    \A k \in 1 .. Len(files["FINAL"]) :
      LET line == files["FINAL"][k] IN
      \A e \in Elements : line.power[e] = 1 /\ line.temperatures.power[e] = 1

(* The emulator ends *)
Terminates == <>(pc = "exit")

(* The final output shows the power map "at the end of the simulation"     *)
(* (types.h) next to the temperatures solved from it.  The step that finds *)
(* the queues empty has cleared the sources by then.                       *)
FinalPowerMap ==
  sim_result = "END_OF_SIMULATION" =>
    \A k \in 1 .. Len(files["FINAL"]) :
      LET line == files["FINAL"][k] IN
      line.temperatures.steps > 0 => line.power = line.temperatures.power
=============================================================================
