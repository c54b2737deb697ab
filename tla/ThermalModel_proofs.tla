-------------------------- MODULE ThermalModel_proofs --------------------------
(***************************************************************************)
(* Proofs about the simulation calls of sources/thermal_data.c as          *)
(* functions: what a call leaves alone, what it does to the queues, the    *)
(* sources, the clock and the temperatures, and how slots divide time.     *)
(* The proofs about the programs that call them rest on these lemmas.      *)
(***************************************************************************)
EXTENDS ThermalModel, WellFoundedInduction, TLAPS

(* The part of the simulation state that only the sources, the queues and  *)
(* the flow rate change                                                    *)
SameSources(new, old) ==
  /\ new.config = old.config
  /\ new.supplied = old.supplied /\ new.taken = old.taken
  /\ new.power = old.power /\ new.struck = old.struck /\ new.inlet = old.inlet
  /\ new.flow = old.flow /\ new.factors = old.factors

(* The results of a step that advances the clock *)
Done == {"STEP_DONE", "SLOT_DONE"}

(* Solving changes the temperatures only *)
LEMMA SolvedTyped ==
  ASSUME NEW td \in ThermalType, NEW good \in BOOLEAN
  PROVE  /\ Solved(td, good) \in ThermalType
         /\ SameSources(Solved(td, good), td)
         /\ Solved(td, good).time = td.time
         /\ Solved(td, good).temperatures.power = td.power
         /\ Solved(td, good).temperatures.struck = td.struck
         /\ Solved(td, good).temperatures.inlet = td.inlet
         /\ Solved(td, good).temperatures.good = good
         /\ Solved(td, good).temperatures.steps = td.temperatures.steps + 1
BY DEF Solved, ThermalType, TemperaturesType, SameSources

LEMMA UnsolvedTyped ==
  ASSUME NEW td \in ThermalType
  PROVE  /\ Unsolved(td) \in ThermalType
         /\ SameSources(Unsolved(td), td)
         /\ Unsolved(td).time = td.time
         /\ Unsolved(td).temperatures.power = td.temperatures.power
         /\ Unsolved(td).temperatures.struck = td.temperatures.struck
         /\ Unsolved(td).temperatures.inlet = td.temperatures.inlet
         /\ Unsolved(td).temperatures.steps = td.temperatures.steps
BY DEF Unsolved, ThermalType, TemperaturesType, SameSources

LEMMA IncreasedTyped ==
  ASSUME NEW td \in ThermalType
  PROVE  /\ increase_by_step_time(td) \in ThermalType
         /\ SameSources(increase_by_step_time(td), td)
         /\ increase_by_step_time(td).time = td.time + 1
         /\ increase_by_step_time(td).temperatures = td.temperatures
BY DEF increase_by_step_time, ThermalType, SameSources

(* A step with the sources in place is done, and its slot perhaps with it, *)
(* or leaves the clock where it is.                                        *)
LEMMA SteppedTyped ==
  ASSUME NEW td \in ThermalType, NEW out \in Stepped(td)
  PROVE  /\ out.td \in ThermalType
         /\ SameSources(out.td, td)
         /\ out.result \in {"STEP_DONE", "SLOT_DONE", "SOLVER_ERROR"}
         /\ \/ /\ out.result = IF slot_completed(out.td) THEN "SLOT_DONE" ELSE "STEP_DONE"
               /\ out.td.time = td.time + 1
               /\ out.td.temperatures.power = td.power
               /\ out.td.temperatures.struck = td.struck
               /\ out.td.temperatures.inlet = td.inlet
               /\ out.td.temperatures.good = td.temperatures.good
               /\ out.td.temperatures.steps = td.temperatures.steps + 1
            \/ /\ out.result = "SOLVER_ERROR"
               /\ out.td.time = td.time
               /\ out.td.temperatures.power = td.temperatures.power
               /\ out.td.temperatures.struck = td.temperatures.struck
               /\ out.td.temperatures.inlet = td.temperatures.inlet
               /\ out.td.temperatures.steps = td.temperatures.steps
<1> DEFINE solved == Solved(td, td.temperatures.good)
           done   == increase_by_step_time(solved)
<1>1. td.temperatures.good \in BOOLEAN
  BY DEF ThermalType, TemperaturesType
<1>2. /\ solved \in ThermalType /\ SameSources(solved, td)
      /\ solved.time = td.time /\ solved.temperatures.power = td.power
      /\ solved.temperatures.struck = td.struck /\ solved.temperatures.inlet = td.inlet
      /\ solved.temperatures.good = td.temperatures.good
      /\ solved.temperatures.steps = td.temperatures.steps + 1
  BY <1>1, SolvedTyped
<1>3. /\ done \in ThermalType /\ SameSources(done, td)
      /\ done.time = td.time + 1 /\ done.temperatures.power = td.power
      /\ done.temperatures.struck = td.struck /\ done.temperatures.inlet = td.inlet
      /\ done.temperatures.good = td.temperatures.good
      /\ done.temperatures.steps = td.temperatures.steps + 1
  <2> HIDE DEF solved
  <2> QED BY <1>2, IncreasedTyped DEF SameSources
<1>4. \/ out = Outcome(done, IF slot_completed(done) THEN "SLOT_DONE" ELSE "STEP_DONE")
      \/ out = Outcome(Unsolved(td), "SOLVER_ERROR")
      \/ out = Outcome(td, "SOLVER_ERROR")
  <2> USE DEF Stepped
  <2> QED BY Zenon
<1> HIDE DEF done
<1>5. CASE out = Outcome(done, IF slot_completed(done) THEN "SLOT_DONE" ELSE "STEP_DONE")
  BY <1>3, <1>5 DEF Outcome
<1>6. CASE out = Outcome(Unsolved(td), "SOLVER_ERROR")
  BY <1>6, UnsolvedTyped DEF Outcome
<1>7. CASE out = Outcome(td, "SOLVER_ERROR")
  BY <1>7 DEF Outcome, SameSources
<1> QED BY <1>4, <1>5, <1>6, <1>7

(* The sources: nothing that the clock, the temperatures or the matrix say *)
LEMMA UpdatedTyped ==
  ASSUME NEW td \in ThermalType
  PROVE  /\ Updated(td) \in ThermalType
         /\ Updated(td).time = td.time
         /\ Updated(td).supplied = td.supplied
         /\ Updated(td).temperatures = td.temperatures
         /\ Updated(td).flow = td.flow /\ Updated(td).factors = td.factors
         /\ Updated(td).config = td.config
         /\ Updated(td).struck = {}
<1> DEFINE m == FirstEmpty(td)
           taken == [e \in Elements |-> IF e < m THEN td.taken[e] + 1 ELSE td.taken[e]]
           power == [e \in Elements |-> IF Added(td, e, m) THEN td.taken[e] + 1 ELSE 0]
           inlet == IF ChannelAt < m THEN td.flow ELSE 0
<1>1. /\ td.flow \in Flows /\ td.flow \in Nat
      /\ \A e \in Elements : td.taken[e] \in Nat
  BY ThermalAssumption DEF ThermalType
<1>2. taken \in [Elements -> Nat] /\ power \in [Elements -> Nat] /\ inlet \in Nat
  <2> HIDE DEF m
  <2> QED BY <1>1
<1>3. Updated(td) =
        [td EXCEPT !.taken = taken, !.power = power, !.struck = {}, !.inlet = inlet]
  BY DEF Updated
<1> HIDE DEF taken, power, inlet
<1> QED BY <1>2, <1>3 DEF ThermalType

(* An update that finds a value for every element takes one from each, and *)
(* the sources are these values and the inlet of the present flow rate.    *)
LEMMA UpdatedComplete ==
  ASSUME NEW td \in ThermalType, ~ Exhausted(td)
  PROVE  \A e \in Elements :
           /\ Updated(td).taken[e] = td.taken[e] + 1
           /\ Updated(td).power[e] = td.taken[e] + 1
           /\ Updated(td).inlet = td.flow
<1>1. FirstEmpty(td) = N + 1
  BY DEF FirstEmpty
<1>2. ChannelAt < N + 1 /\ \A e \in Elements : e < N + 1
  BY ThermalAssumption DEF Elements
<1> QED BY <1>1, <1>2, ThermalAssumption DEF Updated, Added, ThermalType

(* What one call of emulate_step leaves alone *)
LEMMA EmulateStepTyped ==
  ASSUME NEW td \in ThermalType, NEW out \in emulate_step(td)
  PROVE  /\ out.td \in ThermalType
         /\ out.td.config = td.config
         /\ td.config.analysis # "transient" => out.td.time = td.time
         /\ out.td.supplied = td.supplied
         /\ out.td.flow = td.flow /\ out.td.factors = td.factors
         /\ out.result \in SimResults
         /\ out.result \notin Done => out.td.time = td.time
         /\ td.config.analysis = "transient" => out.result # "WRONG_CONFIG"
<1> USE DEF SimResults, Done
<1>1. CASE td.config.analysis # "transient"
  BY <1>1 DEF emulate_step, Outcome
<1>2. CASE td.config.analysis = "transient" /\ ~ slot_completed(td)
  <2>1. out \in Stepped(td)
    BY <1>2 DEF emulate_step
  <2> QED BY <1>2, <2>1, SteppedTyped DEF SameSources
<1>3. CASE td.config.analysis = "transient" /\ slot_completed(td) /\ Exhausted(td)
  <2>1. out = Outcome(Updated(td), "END_OF_SIMULATION")
    BY <1>3 DEF emulate_step
  <2> QED BY <1>3, <2>1, UpdatedTyped DEF Outcome
<1>4. CASE td.config.analysis = "transient" /\ slot_completed(td) /\ ~ Exhausted(td)
  <2>1. out \in Stepped(Updated(td))
    BY <1>4 DEF emulate_step
  <2> QED BY <1>4, <2>1, UpdatedTyped, SteppedTyped DEF SameSources
<1> QED BY <1>1, <1>2, <1>3, <1>4

(* emulate_step keeps the inlet terms in line with the flow rate: they are *)
(* set when a slot begins and stay until it ends.                          *)
InletFollows(td) == td.config.reached => slot_completed(td) \/ td.inlet = td.flow

(* Where a change of the flow rate does not reach them, they are the terms *)
(* the last step was solved with ...                                       *)
InletStays(td) ==
  ~ td.config.reached /\ ~ slot_completed(td) /\ td.temperatures.steps > 0
    => td.temperatures.inlet = td.inlet

(* ... and the first step of a slot is solved with all of the power.       *)
PowerReturns(td) ==
  td.time > 0 /\ (td.time - 1) % SlotLength = 0 => td.temperatures.struck = {}

KeepsCoolant(new, old) ==
  /\ InletFollows(old) => InletFollows(new)
  /\ InletStays(old) => InletStays(new)
  /\ PowerReturns(old) => PowerReturns(new)

(* A step does this with sources that were updated for a new slot, or with *)
(* those in place in the middle of one                                     *)
LEMMA SteppedInlet ==
  ASSUME NEW td \in ThermalType, NEW s \in ThermalType, NEW out \in Stepped(s),
         s.config = td.config, s.flow = td.flow, s.time = td.time,
         s.temperatures = td.temperatures,
         IF slot_completed(td) THEN s.inlet = s.flow /\ s.struck = {} ELSE s = td
  PROVE  KeepsCoolant(out.td, td)
<1>1. /\ SameSources(out.td, s) /\ td.time \in Nat
      /\ slot_completed(td) <=> td.time % SlotLength = 0
  BY SteppedTyped DEF ThermalType, slot_completed
<1>2. CASE /\ out.td.time = td.time + 1
           /\ out.td.temperatures.struck = s.struck
           /\ out.td.temperatures.inlet = s.inlet
  <2>1. (td.time + 1) - 1 = td.time
    BY <1>1
  <2>2. (InletFollows(td) => InletFollows(out.td)) /\ InletStays(out.td)
    BY <1>1, <1>2 DEF SameSources, InletFollows, InletStays
  <2>3. PowerReturns(out.td)
    <3>1. CASE slot_completed(td)
      BY <1>2, <3>1 DEF PowerReturns
    <3>2. CASE ~ slot_completed(td)
      BY <1>1, <1>2, <2>1, <3>2 DEF PowerReturns
    <3> QED BY <3>1, <3>2
  <2> QED BY <2>2, <2>3 DEF KeepsCoolant
<1>3. CASE /\ out.td.time = td.time
           /\ out.td.temperatures.struck = s.temperatures.struck
           /\ out.td.temperatures.inlet = s.temperatures.inlet
           /\ out.td.temperatures.steps = s.temperatures.steps
  BY <1>1, <1>3 DEF SameSources, KeepsCoolant, InletFollows, InletStays, PowerReturns,
                    slot_completed
<1> QED BY <1>2, <1>3, SteppedTyped

LEMMA EmulateStepInlet ==
  ASSUME NEW td \in ThermalType, NEW out \in emulate_step(td)
  PROVE  KeepsCoolant(out.td, td)
<1>1. CASE td.config.analysis # "transient"
  BY <1>1 DEF emulate_step, Outcome, KeepsCoolant
<1>2. CASE td.config.analysis = "transient" /\ ~ slot_completed(td)
  <2>1. out \in Stepped(td)
    BY <1>2 DEF emulate_step
  <2> QED BY <1>2, <2>1, SteppedInlet
<1>3. CASE td.config.analysis = "transient" /\ slot_completed(td) /\ Exhausted(td)
  <2>1. out = Outcome(Updated(td), "END_OF_SIMULATION")
    BY <1>3 DEF emulate_step
  <2>2. out.td = Updated(td) /\ slot_completed(out.td)
    BY <1>3, <2>1, UpdatedTyped DEF Outcome, slot_completed
  <2> QED BY <2>2, UpdatedTyped DEF KeepsCoolant, InletFollows, InletStays, PowerReturns
<1>4. CASE td.config.analysis = "transient" /\ slot_completed(td) /\ ~ Exhausted(td)
  <2>1. out \in Stepped(Updated(td))
    BY <1>4 DEF emulate_step
  <2>2. 1 \in Elements
    BY ThermalAssumption DEF Elements
  <2>3. Updated(td).inlet = Updated(td).flow
    BY <1>4, <2>2, UpdatedTyped, UpdatedComplete
  <2> QED BY <1>4, <2>1, <2>3, UpdatedTyped, SteppedInlet
<1> QED BY <1>1, <1>2, <1>3, <1>4

(* emulate_steady does not advance the clock *)
LEMMA EmulateSteadyTyped ==
  ASSUME NEW td \in ThermalType, NEW out \in emulate_steady(td)
  PROVE  /\ out.td \in ThermalType
         /\ out.td.config = td.config
         /\ out.td.supplied = td.supplied
         /\ out.td.flow = td.flow /\ out.td.factors = td.factors
         /\ out.td.time = td.time
         /\ td.config.analysis # "steady" => out.td = td
<1> DEFINE updated == Updated(td)
<1>1. /\ updated \in ThermalType /\ updated.time = td.time
      /\ updated.config = td.config /\ updated.supplied = td.supplied
      /\ updated.flow = td.flow /\ updated.factors = td.factors
  BY UpdatedTyped
<1>2. \/ out = Outcome(td, "WRONG_CONFIG") \/ out = Outcome(td, "SOLVER_ERROR")
      \/ /\ td.config.analysis = "steady"
         /\ \/ out = Outcome(updated, "END_OF_SIMULATION")
            \/ out = Outcome(Solved(updated, TRUE), "END_OF_SIMULATION")
            \/ out = Outcome(Unsolved(updated), "SOLVER_ERROR")
  <2> USE DEF emulate_steady
  <2> QED BY Zenon
<1> HIDE DEF updated
<1>3. CASE out = Outcome(td, "WRONG_CONFIG") \/ out = Outcome(td, "SOLVER_ERROR")
  <2>1. out.td = td
    BY <1>3 DEF Outcome
  <2> QED BY <2>1
<1>4. CASE /\ td.config.analysis = "steady"
           /\ out = Outcome(updated, "END_OF_SIMULATION")
  BY <1>1, <1>4 DEF Outcome
<1>5. CASE /\ td.config.analysis = "steady"
           /\ out = Outcome(Solved(updated, TRUE), "END_OF_SIMULATION")
  BY <1>1, <1>5, SolvedTyped DEF Outcome, SameSources
<1>6. CASE /\ td.config.analysis = "steady"
           /\ out = Outcome(Unsolved(updated), "SOLVER_ERROR")
  BY <1>1, <1>6, UnsolvedTyped DEF Outcome, SameSources
<1> QED BY <1>2, <1>3, <1>4, <1>5, <1>6, Zenon

-----------------------------------------------------------------------------
(* The queues and the source vector                                        *)

(* No element has been given more values than it was supplied with, and    *)
(* its source is its last value or none.                                   *)
Bounded(td) ==
  \A e \in Elements : /\ td.taken[e] <= td.supplied[e]
                      /\ td.power[e] \in {0, td.taken[e]}

(* When no element was supplied with more than one above it, the queues    *)
(* stay level, and so do the sources and the temperatures.                 *)
Ascending(td) ==
  \A e, f \in Elements : e < f => td.supplied[e] <= td.supplied[f]

Even(td) ==
  \A e, f \in Elements : /\ td.taken[e] = td.taken[f]
                         /\ td.power[e] = td.power[f]
                         /\ td.temperatures.power[e] = td.temperatures.power[f]

LEMMA MinOfNaturals ==
  ASSUME NEW S \in SUBSET Nat, S # {}
  PROVE  Min(S) \in S /\ \A e \in S : Min(S) <= e
<1>1. PICK x \in S : \A y \in S : ~ (<<y, x>> \in OpToRel(<, Nat))
  BY NatLessThanWellFounded, WFMin
<1>2. \A y \in S : x <= y
  <2> SUFFICES ASSUME NEW y \in S, ~ (x <= y) PROVE FALSE
    OBVIOUS
  <2>1. y < x /\ <<y, x>> \in Nat \X Nat
    OBVIOUS
  <2> QED BY <1>1, <2>1 DEF OpToRel
<1> QED BY <1>2 DEF Min

(* The element an update stops at has nothing left, those before it have   *)
LEMMA FirstEmptyLemma ==
  ASSUME NEW td \in ThermalType
  PROVE  /\ FirstEmpty(td) \in Nat
         /\ Exhausted(td) => /\ FirstEmpty(td) \in Elements
                             /\ is_empty(td, FirstEmpty(td))
         /\ \A e \in Elements : e < FirstEmpty(td) => ~ is_empty(td, e)
<1> DEFINE S == {e \in Elements : is_empty(td, e)}
<1>1. Elements \subseteq Nat /\ N + 1 \in Nat
  BY ThermalAssumption DEF Elements
<1>2. CASE Exhausted(td)
  <2>1. S \in SUBSET Nat /\ S # {}
    BY <1>1, <1>2 DEF Exhausted
  <2>2. FirstEmpty(td) = Min(S)
    BY <1>2 DEF FirstEmpty
  <2>3. FirstEmpty(td) \in S /\ \A e \in S : FirstEmpty(td) <= e
    BY <2>1, <2>2, MinOfNaturals
  <2> DEFINE m == FirstEmpty(td)
  <2>4. m \in Elements /\ is_empty(td, m)
    BY <2>3
  <2>5. ASSUME NEW e \in Elements, e < m PROVE ~ is_empty(td, e)
    <3> SUFFICES ASSUME is_empty(td, e) PROVE FALSE
      OBVIOUS
    <3>1. m <= e
      BY <2>3
    <3> HIDE DEF m
    <3> QED BY <1>1, <2>4, <2>5, <3>1
  <2> QED BY <1>1, <2>4, <2>5
<1>3. CASE ~ Exhausted(td)
  BY <1>1, <1>3 DEF FirstEmpty, Exhausted
<1> QED BY <1>2, <1>3

LEMMA UpdatedBounded ==
  ASSUME NEW td \in ThermalType, Bounded(td)
  PROVE  Bounded(Updated(td))
<1> DEFINE m == FirstEmpty(td)
<1>1. ASSUME NEW e \in Elements
      PROVE  /\ Updated(td).taken[e] = IF e < m THEN td.taken[e] + 1 ELSE td.taken[e]
             /\ Updated(td).power[e] = IF Added(td, e, m) THEN td.taken[e] + 1 ELSE 0
  BY DEF Updated, ThermalType
<1>2. ASSUME NEW e \in Elements
      PROVE  /\ td.taken[e] \in Nat /\ td.supplied[e] \in Nat
             /\ td.taken[e] <= td.supplied[e]
             /\ Added(td, e, m) => e < m
             /\ e < m => td.taken[e] # td.supplied[e]
  BY FirstEmptyLemma DEF ThermalType, Bounded, Added, is_empty
<1>3. Updated(td).supplied = td.supplied
  BY UpdatedTyped
<1> HIDE DEF m
<1> QED BY <1>1, <1>2, <1>3 DEF Bounded

(* With level queues, an update that meets an empty queue meets it first *)
LEMMA UpdatedEven ==
  ASSUME NEW td \in ThermalType, Bounded(td), Ascending(td), Even(td)
  PROVE  /\ Even(Updated(td))
         /\ Exhausted(td) => \A e \in Elements : Updated(td).taken[e] = td.taken[e]
<1> DEFINE m == FirstEmpty(td)
<1>0. /\ Elements \subseteq Nat /\ 1 \in Elements
      /\ td.taken \in [Elements -> Nat] /\ td.supplied \in [Elements -> Nat]
      /\ Updated(td).taken \in [Elements -> Nat]
      /\ Updated(td).temperatures = td.temperatures
  <2>1. Updated(td) \in ThermalType /\ Updated(td).temperatures = td.temperatures
    BY UpdatedTyped
  <2>2. Elements \subseteq Nat /\ 1 \in Elements
    BY ThermalAssumption DEF Elements
  <2> QED BY <2>1, <2>2 DEF ThermalType
<1>1. CASE Exhausted(td)
  <2>1. m \in Elements /\ td.taken[m] = td.supplied[m]
        /\ \A e \in Elements : e < m => td.taken[e] # td.supplied[e]
    BY <1>1, FirstEmptyLemma DEF is_empty
  <2>2. td.taken[1] = td.taken[m] /\ td.taken[1] <= td.supplied[1]
    BY <1>0, <2>1 DEF Even, Bounded
  <2>3. 1 < m => td.supplied[1] <= td.supplied[m]
    BY <1>0, <2>1 DEF Ascending
  <2>4. ~ (1 < m)
    <3> HIDE DEF m
    <3> QED BY <1>0, <2>1, <2>2, <2>3
  <2>5. \A e \in Elements : ~ (e < m)
    <3> HIDE DEF m
    <3> QED BY <2>1, <2>4, ThermalAssumption DEF Elements
  <2>6. \A e \in Elements : Updated(td).taken[e] = td.taken[e] /\ Updated(td).power[e] = 0
    BY <2>5 DEF Updated, Added, ThermalType
  <2> QED BY <1>0, <2>6 DEF Even
<1>2. CASE ~ Exhausted(td)
  BY <1>0, <1>2, UpdatedComplete DEF Even
<1> QED BY <1>1, <1>2

(* Neither an update of the sources nor solving breaks them *)
LEMMA EmulatedBounded ==
  ASSUME NEW td \in ThermalType, Bounded(td),
         NEW out \in emulate_step(td) \cup emulate_steady(td)
  PROVE  /\ Bounded(out.td)
         /\ out.td.supplied = td.supplied
         /\ Ascending(td) /\ Even(td) => Even(out.td)
<1> DEFINE updated == Updated(td)
<1>1. /\ updated \in ThermalType /\ updated.supplied = td.supplied
      /\ updated.temperatures = td.temperatures
      /\ Bounded(updated) /\ (Ascending(td) /\ Even(td) => Even(updated))
  BY UpdatedTyped, UpdatedBounded, UpdatedEven
<1>2. ASSUME NEW s \in ThermalType, NEW t, SameSources(t, s), Bounded(s),
             t.temperatures.power \in {s.power, s.temperatures.power}
      PROVE  Bounded(t) /\ t.supplied = s.supplied /\ (Even(s) => Even(t))
  BY <1>2 DEF SameSources, Bounded, Even
<1>3. ASSUME NEW s \in ThermalType, Bounded(s), NEW o \in Stepped(s)
      PROVE  Bounded(o.td) /\ o.td.supplied = s.supplied /\ (Even(s) => Even(o.td))
  BY <1>2, <1>3, SteppedTyped
<1>4. ASSUME NEW s \in ThermalType, Bounded(s), NEW o,
             \/ o = Outcome(Solved(s, TRUE), "END_OF_SIMULATION")
             \/ o = Outcome(Unsolved(s), "SOLVER_ERROR")
      PROVE  Bounded(o.td) /\ o.td.supplied = s.supplied /\ (Even(s) => Even(o.td))
  <2>1. SameSources(Solved(s, TRUE), s) /\ Solved(s, TRUE).temperatures.power = s.power
    BY <1>4, SolvedTyped
  <2>2. SameSources(Unsolved(s), s) /\ Unsolved(s).temperatures.power = s.temperatures.power
    BY <1>4, UnsolvedTyped
  <2>3. CASE o = Outcome(Solved(s, TRUE), "END_OF_SIMULATION")
    BY <1>2, <1>4, <2>1, <2>3 DEF Outcome
  <2>4. CASE o = Outcome(Unsolved(s), "SOLVER_ERROR")
    BY <1>2, <1>4, <2>2, <2>4 DEF Outcome
  <2> QED BY <1>4, <2>3, <2>4
<1>5. \/ \E result : out = Outcome(td, result) \/ out = Outcome(updated, result)
      \/ out \in Stepped(td) \/ out \in Stepped(updated)
      \/ out = Outcome(Solved(updated, TRUE), "END_OF_SIMULATION")
      \/ out = Outcome(Unsolved(updated), "SOLVER_ERROR")
  <2> USE DEF emulate_step, emulate_steady
  <2> QED BY Zenon
<1> HIDE DEF updated
<1>6. CASE \E result : out = Outcome(td, result) \/ out = Outcome(updated, result)
  BY <1>1, <1>6 DEF Outcome
<1>7. CASE out \in Stepped(td)
  BY <1>3, <1>7
<1>8. CASE out \in Stepped(updated)
  BY <1>1, <1>3, <1>8
<1>9. CASE \/ out = Outcome(Solved(updated, TRUE), "END_OF_SIMULATION")
           \/ out = Outcome(Unsolved(updated), "SOLVER_ERROR")
  BY <1>1, <1>4, <1>9
<1> QED BY <1>5, <1>6, <1>7, <1>8, <1>9

-----------------------------------------------------------------------------
(* Elements of different rows                                              *)

(* The sources a step can be solved with *)
FullRow(td) == \A e \in Elements : td.power[e] = td.taken[e] /\ td.power[e] > 0

(* Elements are only as far apart as their supplies allow, and a step that *)
(* was solved had a value of every element, as the next in the slot will.  *)
Leads(td) ==
  /\ AheadBySupply(td, td.taken)
  /\ AheadBySupply(td, td.temperatures.power)
  /\ td.temperatures.steps > 0 => \A e \in Elements : td.temperatures.power[e] > 0
  /\ ~ slot_completed(td) => FullRow(td)

(* An update that stops takes values from the elements below the first     *)
(* empty one, which has been given fewer than each of them.                *)
LEMMA UpdatedAhead ==
  ASSUME NEW td \in ThermalType, Bounded(td), AheadBySupply(td, td.taken)
  PROVE  AheadBySupply(Updated(td), Updated(td).taken)
<1> DEFINE m == FirstEmpty(td)
<1>0. /\ Elements \subseteq Nat /\ td.taken \in [Elements -> Nat]
      /\ td.supplied \in [Elements -> Nat] /\ Updated(td).supplied = td.supplied
      /\ m \in Nat
  <2>1. Elements \subseteq Nat
    BY ThermalAssumption DEF Elements
  <2>2. td.taken \in [Elements -> Nat] /\ td.supplied \in [Elements -> Nat]
    BY DEF ThermalType
  <2> QED BY <2>1, <2>2, UpdatedTyped, FirstEmptyLemma
<1>1. \A e \in Elements :
        Updated(td).taken[e] = IF e < m THEN td.taken[e] + 1 ELSE td.taken[e]
  BY DEF Updated, ThermalType
<1>2. ASSUME NEW f \in Elements, ~ (f < m)
      PROVE  m \in Elements /\ td.taken[m] = td.supplied[m]
  <2>1. m # N + 1
    <3> HIDE DEF m
    <3> QED BY <1>0, <1>2, ThermalAssumption DEF Elements
  <2> QED BY <2>1, FirstEmptyLemma DEF FirstEmpty, is_empty
<1>3. \A e \in Elements : e < m => td.taken[e] < td.supplied[e]
  <2> SUFFICES ASSUME NEW e \in Elements, e < m PROVE td.taken[e] < td.supplied[e]
    OBVIOUS
  <2>1. td.taken[e] # td.supplied[e] /\ td.taken[e] <= td.supplied[e]
    BY FirstEmptyLemma DEF is_empty, Bounded
  <2> QED BY <1>0, <2>1
<1> HIDE DEF m
<1> SUFFICES ASSUME NEW e \in Elements, NEW f \in Elements, e < f
             PROVE  /\ Updated(td).taken[f] <= Updated(td).taken[e]
                    /\ Updated(td).taken[f] < Updated(td).taken[e] =>
                         \E g \in Elements : /\ e < g /\ g <= f
                                             /\ td.supplied[g] < td.supplied[e]
  BY <1>0 DEF AheadBySupply
<1>4. /\ td.taken[f] <= td.taken[e] /\ td.taken[e] \in Nat /\ td.taken[f] \in Nat
      /\ td.taken[f] < td.taken[e] =>
           \E g \in Elements : e < g /\ g <= f /\ td.supplied[g] < td.supplied[e]
  BY <1>0 DEF AheadBySupply
<1>5. CASE (e < m /\ f < m) \/ ~ (e < m)
  BY <1>0, <1>1, <1>4, <1>5
<1>6. CASE e < m /\ ~ (f < m)
  <2>1. m \in Elements /\ td.taken[m] = td.supplied[m] /\ td.taken[m] <= td.taken[e]
    BY <1>2, <1>6 DEF AheadBySupply
  <2>2. td.supplied[m] < td.supplied[e] /\ m <= f
    BY <1>0, <1>3, <1>6, <2>1
  <2> QED BY <1>1, <1>4, <1>6, <2>1, <2>2
<1> QED BY <1>5, <1>6

LEMMA SteppedLeads ==
  ASSUME NEW td \in ThermalType, FullRow(td), AheadBySupply(td, td.taken),
         AheadBySupply(td, td.temperatures.power),
         td.temperatures.steps > 0 => \A e \in Elements : td.temperatures.power[e] > 0,
         NEW out \in Stepped(td)
  PROVE  Leads(out.td)
<1>1. SameSources(out.td, td)
  BY SteppedTyped
<1>2. AheadBySupply(td, td.power)
  BY DEF FullRow, AheadBySupply
<1>3. FullRow(out.td) /\ AheadBySupply(out.td, out.td.taken)
  BY <1>1 DEF SameSources, FullRow, AheadBySupply
<1>4. CASE out.td.temperatures.power = td.power
  BY <1>1, <1>2, <1>3, <1>4 DEF SameSources, FullRow, AheadBySupply, Leads
<1>5. CASE /\ out.td.temperatures.power = td.temperatures.power
           /\ out.td.temperatures.steps = td.temperatures.steps
  BY <1>1, <1>3, <1>5 DEF SameSources, AheadBySupply, Leads
<1> QED BY <1>4, <1>5, SteppedTyped

(* Between slots the sources do not matter, an update comes before a step. *)
LEMMA BetweenSlots ==
  ASSUME NEW s, NEW t, t.supplied = s.supplied, t.taken = s.taken, slot_completed(t),
         AheadBySupply(s, s.taken), AheadBySupply(s, t.temperatures.power),
         t.temperatures.steps > 0 => \A e \in Elements : t.temperatures.power[e] > 0
  PROVE  Leads(t)
BY DEF Leads, AheadBySupply

LEMMA UpdatedLeads ==
  ASSUME NEW td \in ThermalType, Bounded(td), Leads(td), slot_completed(td)
  PROVE  /\ Leads(Updated(td)) /\ Updated(td) \in ThermalType
         /\ slot_completed(Updated(td))
         /\ ~ Exhausted(td) => FullRow(Updated(td))
<1>1. /\ Updated(td) \in ThermalType /\ Updated(td).supplied = td.supplied
      /\ Updated(td).temperatures = td.temperatures
      /\ slot_completed(Updated(td))
  BY UpdatedTyped DEF slot_completed
<1>2. Leads(Updated(td))
  BY <1>1, UpdatedAhead DEF Leads, AheadBySupply
<1>3. ASSUME ~ Exhausted(td) PROVE FullRow(Updated(td))
  BY <1>3, UpdatedComplete DEF FullRow, ThermalType
<1> QED BY <1>1, <1>2, <1>3

LEMMA EmulateStepLeads ==
  ASSUME NEW td \in ThermalType, Bounded(td), Leads(td), NEW out \in emulate_step(td)
  PROVE  Leads(out.td)
<1>1. CASE td.config.analysis # "transient"
  BY <1>1 DEF emulate_step, Outcome
<1>2. CASE td.config.analysis = "transient" /\ ~ slot_completed(td)
  <2>1. out \in Stepped(td)
    BY <1>2 DEF emulate_step
  <2> QED BY <1>2, <2>1, SteppedLeads DEF Leads
<1>3. CASE td.config.analysis = "transient" /\ slot_completed(td) /\ Exhausted(td)
  BY <1>3, UpdatedLeads DEF emulate_step, Outcome
<1>4. CASE td.config.analysis = "transient" /\ slot_completed(td) /\ ~ Exhausted(td)
  <2> DEFINE updated == Updated(td)
  <2>1. out \in Stepped(updated)
    BY <1>4 DEF emulate_step
  <2>2. updated \in ThermalType /\ Leads(updated) /\ FullRow(updated)
    BY <1>4, UpdatedLeads
  <2> HIDE DEF updated
  <2> QED BY <2>1, <2>2, SteppedLeads DEF Leads
<1> QED BY <1>1, <1>2, <1>3, <1>4

(* A steady analysis is always between slots *)
LEMMA EmulateSteadyLeads ==
  ASSUME NEW td \in ThermalType, Bounded(td), Leads(td), NEW out \in emulate_steady(td),
         td.config.analysis = "steady" => slot_completed(td)
  PROVE  Leads(out.td)
<1> DEFINE updated == Updated(td)
<1>1. \/ out = Outcome(td, "WRONG_CONFIG") \/ out = Outcome(td, "SOLVER_ERROR")
      \/ /\ td.config.analysis = "steady"
         /\ \/ out = Outcome(updated, "END_OF_SIMULATION")
            \/ /\ ~ Exhausted(td)
               /\ out = Outcome(Solved(updated, TRUE), "END_OF_SIMULATION")
            \/ out = Outcome(Unsolved(updated), "SOLVER_ERROR")
  <2> USE DEF emulate_steady
  <2> QED BY Zenon
<1>2. td.config.analysis = "steady" =>
        /\ updated \in ThermalType /\ Leads(updated) /\ slot_completed(updated)
        /\ ~ Exhausted(td) => FullRow(updated)
  BY UpdatedLeads
<1> HIDE DEF updated
<1>3. CASE out = Outcome(td, "WRONG_CONFIG") \/ out = Outcome(td, "SOLVER_ERROR")
  BY <1>3 DEF Outcome
<1>4. CASE td.config.analysis = "steady" /\ out = Outcome(updated, "END_OF_SIMULATION")
  BY <1>2, <1>4 DEF Outcome
<1>5. CASE /\ td.config.analysis = "steady" /\ ~ Exhausted(td)
           /\ out = Outcome(Solved(updated, TRUE), "END_OF_SIMULATION")
  <2> DEFINE solved == Solved(updated, TRUE)
  <2>1. /\ SameSources(solved, updated) /\ slot_completed(solved)
        /\ solved.temperatures.power = updated.power
    BY <1>2, <1>5, SolvedTyped DEF slot_completed
  <2>2. out.td = solved
    BY <1>5 DEF Outcome
  <2> HIDE DEF solved
  <2>3. AheadBySupply(updated, updated.power)
    BY <1>2, <1>5 DEF FullRow, Leads, AheadBySupply
  <2> QED BY <1>2, <1>5, <2>1, <2>2, <2>3, BetweenSlots DEF Leads, FullRow, SameSources
<1>6. CASE /\ td.config.analysis = "steady"
           /\ out = Outcome(Unsolved(updated), "SOLVER_ERROR")
  <2> DEFINE unsolved == Unsolved(updated)
  <2>1. /\ SameSources(unsolved, updated) /\ slot_completed(unsolved)
        /\ unsolved.temperatures.power = updated.temperatures.power
        /\ unsolved.temperatures.steps = updated.temperatures.steps
    BY <1>2, <1>6, UnsolvedTyped DEF slot_completed
  <2>2. out.td = unsolved
    BY <1>6 DEF Outcome
  <2> HIDE DEF unsolved
  <2> QED BY <1>2, <1>6, <2>1, <2>2, BetweenSlots DEF Leads, SameSources
<1> QED BY <1>1, <1>3, <1>4, <1>5, <1>6, Zenon

-----------------------------------------------------------------------------
(* The slots                                                               *)

LEMMA DivisionUnique ==
  ASSUME NEW a \in Nat, NEW l \in Nat \ {0}, NEW q \in Nat, NEW r \in Nat,
         r < l, a = l * q + r
  PROVE  a \div l = q
BY Z3

(* A slot begins with the step after a complete one ... *)
LEMMA NextSlot ==
  ASSUME NEW t \in Nat, t % SlotLength = 0
  PROVE  SlotOf(t + 1) = SlotOf(t) + 1
<1> DEFINE l == SlotLength
<1>1. l \in Nat \ {0} /\ t % l = 0
  BY ThermalAssumption
<1> HIDE DEF l
<1>2. PICK q \in Nat : t = l * q
  BY <1>1, Z3
<1>3. (t + l - 1) \div l = q
  <2>1. t + l - 1 = l * q + (l - 1) /\ l - 1 \in Nat /\ l - 1 < l
    BY <1>1, <1>2
  <2> QED BY <1>1, <1>2, <2>1, DivisionUnique
<1>4. (t + 1 + l - 1) \div l = q + 1
  <2>1. t + 1 + l - 1 = l * (q + 1) + 0
    BY <1>1, <1>2
  <2> QED BY <1>1, <1>2, <2>1, DivisionUnique
<1>5. SlotOf(t) = q /\ SlotOf(t + 1) = q + 1
  BY <1>3, <1>4 DEF SlotOf, l
<1> QED BY <1>5

(* ... and goes on until it is complete *)
LEMMA SameSlot ==
  ASSUME NEW t \in Nat, t % SlotLength # 0
  PROVE  SlotOf(t + 1) = SlotOf(t)
<1> DEFINE l == SlotLength
<1>1. l \in Nat \ {0} /\ t % l # 0
  BY ThermalAssumption
<1> HIDE DEF l
<1>2. PICK q \in Nat, r \in 1 .. l - 1 : t = l * q + r
  <2>1. t \div l \in Nat /\ t % l \in 1 .. l - 1 /\ t = l * (t \div l) + (t % l)
    BY <1>1, Z3
  <2> QED BY <2>1, Zenon
<1>3. (t + l - 1) \div l = q + 1
  <2>1. t + l - 1 = l * (q + 1) + (r - 1) /\ r - 1 \in Nat /\ r - 1 < l
    BY <1>1, <1>2
  <2> QED BY <1>1, <1>2, <2>1, DivisionUnique
<1>4. (t + 1 + l - 1) \div l = q + 1
  <2>1. t + 1 + l - 1 = l * (q + 1) + r /\ r \in Nat /\ r < l
    BY <1>1, <1>2
  <2> QED BY <1>1, <1>2, <2>1, DivisionUnique
<1>5. SlotOf(t) = q + 1 /\ SlotOf(t + 1) = q + 1
  BY <1>3, <1>4 DEF SlotOf, l
<1> QED BY <1>5

(* Within a slot the sources are its row; the temperatures are the work of *)
(* the row of the step that computed them.                                 *)
AtItsRow(td) ==
  \A e \in Elements :
    /\ td.taken[e] = SlotOf(td.time)
    /\ slot_completed(td) \/ td.power[e] = SlotOf(td.time)
    /\ td.temperatures.steps > 0 => td.temperatures.power[e] = SlotOf(td.time)

LEMMA EmulatedRow ==
  ASSUME NEW td \in ThermalType, Bounded(td), Ascending(td), Even(td), AtItsRow(td),
         NEW out \in emulate_step(td), out.result # "SOLVER_ERROR"
  PROVE  AtItsRow(out.td)
<1>0. td.time \in Nat /\ td.taken \in [Elements -> Nat]
  BY DEF ThermalType
<1>1. CASE td.config.analysis # "transient"
  BY <1>1 DEF emulate_step, Outcome
<1>2. CASE td.config.analysis = "transient" /\ ~ slot_completed(td)
  <2>1. out \in Stepped(td)
    BY <1>2 DEF emulate_step
  <2>2. /\ SameSources(out.td, td) /\ out.td.time = td.time + 1
        /\ out.td.temperatures.power = td.power
    BY <2>1, SteppedTyped
  <2>3. SlotOf(out.td.time) = SlotOf(td.time)
    BY <1>0, <1>2, <2>2, SameSlot DEF slot_completed
  <2> QED BY <1>2, <2>2, <2>3 DEF AtItsRow, SameSources
<1>3. CASE td.config.analysis = "transient" /\ slot_completed(td) /\ Exhausted(td)
  <2>1. out.td = Updated(td)
    BY <1>3 DEF emulate_step, Outcome
  <2>2. /\ \A e \in Elements : Updated(td).taken[e] = td.taken[e]
        /\ Updated(td).time = td.time /\ Updated(td).temperatures = td.temperatures
    BY <1>3, UpdatedEven, UpdatedTyped
  <2> QED BY <1>3, <2>1, <2>2 DEF AtItsRow, slot_completed
<1>4. CASE td.config.analysis = "transient" /\ slot_completed(td) /\ ~ Exhausted(td)
  <2> DEFINE updated == Updated(td)
  <2>1. out \in Stepped(updated)
    BY <1>4 DEF emulate_step
  <2>2. /\ updated \in ThermalType /\ updated.time = td.time
        /\ \A e \in Elements : /\ updated.taken[e] = td.taken[e] + 1
                               /\ updated.power[e] = td.taken[e] + 1
    BY <1>4, UpdatedTyped, UpdatedComplete
  <2> HIDE DEF updated
  <2>3. /\ SameSources(out.td, updated) /\ out.td.time = td.time + 1
        /\ out.td.temperatures.power = updated.power
    BY <2>1, <2>2, SteppedTyped
  <2>4. SlotOf(out.td.time) = SlotOf(td.time) + 1
    BY <1>0, <1>4, <2>3, NextSlot DEF slot_completed
  <2> QED BY <2>2, <2>3, <2>4 DEF AtItsRow, SameSources
<1> QED BY <1>1, <1>2, <1>3, <1>4

(* A step that does not end a slot takes a value only when it begins one *)
LEMMA StepDone ==
  ASSUME NEW td \in ThermalType, NEW out \in emulate_step(td), out.result = "STEP_DONE"
  PROVE  /\ out.td.time = td.time + 1
         /\ ~ slot_completed(out.td)
         /\ \A e \in Elements :
              out.td.taken[e] = IF slot_completed(td) THEN td.taken[e] + 1 ELSE td.taken[e]
<1>1. CASE td.config.analysis # "transient"
  BY <1>1 DEF emulate_step, Outcome
<1>2. CASE td.config.analysis = "transient" /\ ~ slot_completed(td)
  <2>1. out \in Stepped(td)
    BY <1>2 DEF emulate_step
  <2> QED BY <1>2, <2>1, SteppedTyped DEF SameSources
<1>3. CASE td.config.analysis = "transient" /\ slot_completed(td) /\ Exhausted(td)
  BY <1>3 DEF emulate_step, Outcome
<1>4. CASE td.config.analysis = "transient" /\ slot_completed(td) /\ ~ Exhausted(td)
  <2> DEFINE updated == Updated(td)
  <2>1. out \in Stepped(updated)
    BY <1>4 DEF emulate_step
  <2>2. /\ updated \in ThermalType /\ updated.time = td.time
        /\ \A e \in Elements : updated.taken[e] = td.taken[e] + 1
    BY <1>4, UpdatedTyped, UpdatedComplete
  <2> HIDE DEF updated
  <2>3. /\ SameSources(out.td, updated) /\ out.td.time = td.time + 1
        /\ ~ slot_completed(out.td)
    BY <2>1, <2>2, SteppedTyped
  <2> QED BY <1>4, <2>2, <2>3 DEF SameSources
<1> QED BY <1>1, <1>2, <1>3, <1>4

-----------------------------------------------------------------------------
(* A simulation of which no step has failed                                *)

LEMMA SlotTyped ==
  ASSUME NEW t \in Nat
  PROVE  SlotOf(t) \in Nat
BY ThermalAssumption, Z3 DEF SlotOf

LEMMA SlotZero == SlotOf(0) = 0 /\ 0 % SlotLength = 0
<1> DEFINE l == SlotLength
<1>1. /\ l \in Nat \ {0} /\ 0 + l - 1 \in Nat /\ 0 + l - 1 = l * 0 + (l - 1)
      /\ l - 1 \in Nat /\ l - 1 < l
  BY ThermalAssumption
<1>2. 0 % SlotLength = 0
  BY ThermalAssumption
<1> HIDE DEF l
<1>3. (0 + l - 1) \div l = 0
  BY <1>1, DivisionUnique
<1> QED BY <1>2, <1>3 DEF SlotOf, l

(* The end of slot k comes k slot lengths after the start *)
LEMMA SlotEnd ==
  ASSUME NEW t \in Nat, t % SlotLength = 0
  PROVE  /\ SlotOf(t) \in Nat
         /\ t = SlotOf(t) * SlotLength
         /\ t \div SlotLength = SlotOf(t)
<1> DEFINE l == SlotLength
<1>1. l \in Nat \ {0} /\ t % l = 0
  BY ThermalAssumption
<1> HIDE DEF l
<1>2. PICK q \in Nat : t = l * q
  BY <1>1, Z3
<1>3. (t + l - 1) \div l = q
  <2>1. t + l - 1 = l * q + (l - 1) /\ l - 1 \in Nat /\ l - 1 < l
    BY <1>1, <1>2
  <2> QED BY <1>1, <1>2, <2>1, DivisionUnique
<1>4. t \div l = q
  BY <1>1, <1>2, DivisionUnique
<1>5. t = q * l
  BY <1>1, <1>2
<1> QED BY <1>3, <1>4, <1>5 DEF SlotOf, l

(* Every element has given one value per slot begun, and the sources and   *)
(* the temperatures, unless they were reset, are those of the present one. *)
InProgress(td) ==
  /\ td.temperatures.good
  /\ \A e \in Elements :
       /\ td.taken[e] = SlotOf(td.time) /\ td.taken[e] <= td.supplied[e]
       /\ td.power[e] = SlotOf(td.time)
       /\ td.temperatures.power[e] =
            IF td.temperatures.steps = 0 THEN 0 ELSE SlotOf(td.time)

LEMMA BuiltInProgress ==
  ASSUME NEW config \in Configs, NEW supply \in [Elements -> Nat], NEW flow \in Flows
  PROVE  /\ Built(config, supply, flow) \in ThermalType
         /\ InProgress(Built(config, supply, flow))
         /\ Built(config, supply, flow).time = 0
         /\ Built(config, supply, flow).config = config
         /\ Built(config, supply, flow).supplied = supply
         /\ Built(config, supply, flow).temperatures = InitialTemperatures
         /\ \A e \in Elements : Built(config, supply, flow).taken[e] = 0
<1>1. InitialTemperatures \in TemperaturesType /\ flow \in Nat
  BY ThermalAssumption DEF InitialTemperatures, TemperaturesType
<1>2. Built(config, supply, flow) \in ThermalType
  <2> HIDE DEF InitialTemperatures
  <2> QED BY <1>1 DEF Built, ThermalType
<1>3. supply \in [Elements -> Nat] /\ SlotOf(0) = 0
  BY SlotZero
<1> QED BY <1>2, <1>3 DEF Built, InProgress, InitialTemperatures

(* A step that succeeds with the sources in place leaves the simulation in *)
(* progress, one step later in the slot of these sources.                  *)
LEMMA SteppedInProgress ==
  ASSUME NEW td \in ThermalType, td.temperatures.good,
         NEW slot, \A e \in Elements : /\ td.taken[e] = slot /\ td.taken[e] <= td.supplied[e]
                                        /\ td.power[e] = slot,
         SlotOf(td.time + 1) = slot,
         NEW out \in Stepped(td), out.result \in Done
  PROVE  /\ InProgress(out.td)
         /\ out.td.time = td.time + 1
         /\ out.result = IF slot_completed(out.td) THEN "SLOT_DONE" ELSE "STEP_DONE"
         /\ out.td.temperatures.steps = td.temperatures.steps + 1
         /\ out.td.temperatures.power = out.td.power
<1>1. /\ SameSources(out.td, td)
      /\ out.result = IF slot_completed(out.td) THEN "SLOT_DONE" ELSE "STEP_DONE"
      /\ out.td.time = td.time + 1
      /\ out.td.temperatures.power = td.power
      /\ out.td.temperatures.good = td.temperatures.good
      /\ out.td.temperatures.steps = td.temperatures.steps + 1
  BY SteppedTyped DEF Done
<1>2. td.temperatures.steps \in Nat
  BY DEF ThermalType, TemperaturesType
<1> QED BY <1>1, <1>2 DEF InProgress, SameSources

(* The ways emulate_step goes on in a simulation in progress: a step of    *)
(* the slot, the first step of the next slot, the end of the power values, *)
(* or a solver that fails.                                                 *)
LEMMA EmulateStepCases ==
  ASSUME NEW td \in ThermalType, td.config.analysis = "transient",
         NEW out \in emulate_step(td)
  PROVE  \/ ~ slot_completed(td) /\ out \in Stepped(td)
         \/ slot_completed(td) /\ ~ Exhausted(td) /\ out \in Stepped(Updated(td))
         \/ slot_completed(td) /\ Exhausted(td)
            /\ out = Outcome(Updated(td), "END_OF_SIMULATION")
BY DEF emulate_step

LEMMA EmulatedInProgress ==
  ASSUME NEW td \in ThermalType, td.config.analysis = "transient", InProgress(td),
         NEW out \in emulate_step(td), out.result \in Done
  PROVE  /\ InProgress(out.td)
         /\ out.td.time = td.time + 1
         /\ out.result = IF slot_completed(out.td) THEN "SLOT_DONE" ELSE "STEP_DONE"
         /\ out.td.temperatures.steps = td.temperatures.steps + 1
         /\ out.td.temperatures.power = out.td.power
<1>0. /\ td.time \in Nat /\ td.temperatures.good
      /\ \A e \in Elements : td.taken[e] \in Nat /\ td.supplied[e] \in Nat
  BY DEF ThermalType, InProgress
<1>1. CASE ~ slot_completed(td) /\ out \in Stepped(td)
  <2>1. SlotOf(td.time + 1) = SlotOf(td.time)
    BY <1>0, <1>1, SameSlot DEF slot_completed
  <2> QED BY <1>0, <1>1, <2>1, SteppedInProgress DEF InProgress
<1>2. CASE slot_completed(td) /\ ~ Exhausted(td) /\ out \in Stepped(Updated(td))
  <2> DEFINE updated == Updated(td)
  <2>1. SlotOf(td.time + 1) = SlotOf(td.time) + 1
    BY <1>0, <1>2, NextSlot DEF slot_completed
  <2>2. /\ updated \in ThermalType /\ updated.time = td.time
        /\ updated.temperatures = td.temperatures
        /\ \A e \in Elements : /\ updated.taken[e] = td.taken[e] + 1
                               /\ updated.power[e] = td.taken[e] + 1
                               /\ updated.supplied[e] = td.supplied[e]
    BY <1>2, UpdatedTyped, UpdatedComplete
  <2>3. \A e \in Elements : td.taken[e] + 1 <= td.supplied[e]
    BY <1>0, <1>2 DEF InProgress, Exhausted, is_empty
  <2> HIDE DEF updated
  <2>4. \A e \in Elements : /\ updated.taken[e] = SlotOf(td.time) + 1
                            /\ updated.power[e] = SlotOf(td.time) + 1
                            /\ updated.taken[e] <= updated.supplied[e]
    BY <2>2, <2>3 DEF InProgress
  <2>5. out \in Stepped(updated)
    BY <1>2 DEF updated
  <2> QED BY <1>0, <2>1, <2>2, <2>4, <2>5, SteppedInProgress
<1>3. CASE out = Outcome(Updated(td), "END_OF_SIMULATION")
  BY <1>3 DEF Outcome, Done
<1> QED BY <1>1, <1>2, <1>3, EmulateStepCases

(* The end of the power values comes at the end of the last slot for which *)
(* every element has one, and changes neither the time nor temperatures.   *)
LEMMA EmulatedToTheEnd ==
  ASSUME NEW td \in ThermalType, td.config.analysis = "transient", InProgress(td),
         NEW out \in emulate_step(td), out.result = "END_OF_SIMULATION"
  PROVE  /\ slot_completed(td)
         /\ out.td.time = td.time /\ out.td.temperatures = td.temperatures
         /\ out.td.supplied = td.supplied
         /\ td.time = Min({td.supplied[e] : e \in Elements}) * SlotLength
<1>1. slot_completed(td) /\ Exhausted(td) /\ out = Outcome(Updated(td), "END_OF_SIMULATION")
  <2>1. ASSUME NEW s \in ThermalType, out \in Stepped(s) PROVE FALSE
    BY <2>1, SteppedTyped
  <2> QED BY <2>1, EmulateStepCases, UpdatedTyped
<1>2. /\ out.td.time = td.time /\ out.td.temperatures = td.temperatures
      /\ out.td.supplied = td.supplied
  BY <1>1, UpdatedTyped DEF Outcome
<1> DEFINE S == {td.supplied[e] : e \in Elements}
<1>3. PICK f \in Elements : td.taken[f] = td.supplied[f]
  BY <1>1 DEF Exhausted, is_empty
<1>4. S \in SUBSET Nat /\ S # {}
  BY <1>3 DEF ThermalType
<1>5. Min(S) \in S /\ \A n \in S : Min(S) <= n
  BY <1>4, MinOfNaturals
<1>6. td.supplied[f] \in S /\ td.supplied[f] = SlotOf(td.time) /\ \A n \in S : SlotOf(td.time) <= n
  BY <1>3 DEF InProgress
<1>7. td.time = SlotOf(td.time) * SlotLength
  BY <1>1, SlotEnd DEF slot_completed, ThermalType
<1>8. Min(S) = SlotOf(td.time)
  <2> HIDE DEF S
  <2> QED BY <1>4, <1>5, <1>6
<1> QED BY <1>1, <1>2, <1>7, <1>8

(* A steady solution ends the simulation or fails *)
LEMMA SteadyResults ==
  ASSUME NEW td \in ThermalType, td.config.analysis = "steady",
         NEW out \in emulate_steady(td)
  PROVE  out.result \in {"END_OF_SIMULATION", "SOLVER_ERROR"}
<1>1. \E s : \/ out = Outcome(s, "END_OF_SIMULATION")
            \/ out = Outcome(s, "SOLVER_ERROR")
  <2> USE DEF emulate_steady
  <2> QED BY Zenon
<1> QED BY <1>1 DEF Outcome

(* A steady solution is of the first row, if there is one *)
LEMMA SteadyEnd ==
  ASSUME NEW td \in ThermalType, td.config.analysis = "steady",
         NEW out \in emulate_steady(td), out.result = "END_OF_SIMULATION"
  PROVE  \/ Exhausted(td) /\ out.td = Updated(td)
         \/ ~ Exhausted(td) /\ out.td = Solved(Updated(td), TRUE)
<1> DEFINE updated == Updated(td)
           solved == Solved(updated, TRUE)
<1>1. \/ out = Outcome(td, "WRONG_CONFIG") \/ out = Outcome(td, "SOLVER_ERROR")
      \/ Exhausted(td) /\ out = Outcome(updated, "END_OF_SIMULATION")
      \/ /\ ~ Exhausted(td)
         /\ \/ out = Outcome(solved, "END_OF_SIMULATION")
            \/ out = Outcome(Unsolved(updated), "SOLVER_ERROR")
  <2> USE DEF emulate_steady
  <2> QED BY Zenon
<1>2. ASSUME NEW s, NEW result, out = Outcome(s, result)
      PROVE  out.td = s /\ result = "END_OF_SIMULATION"
  BY <1>2 DEF Outcome
<1> HIDE DEF updated, solved
<1>3. \/ Exhausted(td) /\ out.td = updated
      \/ ~ Exhausted(td) /\ out.td = solved
  BY <1>1, <1>2
<1> QED BY <1>3 DEF updated, solved

(* Queueing power values and resetting the temperatures do not disturb it *)
LEMMA InsertedInProgress ==
  ASSUME NEW td \in ThermalType, NEW n \in Nat
  PROVE  /\ Inserted(td, n) \in ThermalType
         /\ Inserted(td, n).config = td.config
         /\ Inserted(td, n).time = td.time
         /\ Inserted(td, n).taken = td.taken
         /\ Inserted(td, n).power = td.power
         /\ Inserted(td, n).temperatures = td.temperatures
         /\ \A e \in Elements : Inserted(td, n).supplied[e] =
              IF e <= n THEN td.supplied[e] + 1 ELSE td.supplied[e]
         /\ InProgress(td) => InProgress(Inserted(td, n))
<1> DEFINE supplied == [e \in Elements |-> IF e <= n THEN td.supplied[e] + 1
                                           ELSE td.supplied[e]]
<1>1. td.supplied \in [Elements -> Nat] /\ td.taken \in [Elements -> Nat]
  BY DEF ThermalType
<1>2. supplied \in [Elements -> Nat] /\ \A e \in Elements : td.supplied[e] <= supplied[e]
  BY <1>1
<1>3. \A e \in Elements :
        supplied[e] = IF e <= n THEN td.supplied[e] + 1 ELSE td.supplied[e]
  OBVIOUS
<1>4. Inserted(td, n) = [td EXCEPT !.supplied = supplied]
  BY DEF Inserted
<1> HIDE DEF supplied
<1> QED BY <1>1, <1>2, <1>3, <1>4 DEF ThermalType, InProgress

LEMMA ResetInProgress ==
  ASSUME NEW td \in ThermalType
  PROVE  /\ reset_thermal_state(td) \in ThermalType
         /\ reset_thermal_state(td).config = td.config
         /\ reset_thermal_state(td).time = td.time
         /\ reset_thermal_state(td).taken = td.taken
         /\ reset_thermal_state(td).supplied = td.supplied
         /\ reset_thermal_state(td).temperatures.steps = 0
         /\ InProgress(td) => InProgress(reset_thermal_state(td))
<1>1. InitialTemperatures \in TemperaturesType
  BY DEF InitialTemperatures, TemperaturesType
<1>2. /\ InitialTemperatures.steps = 0 /\ InitialTemperatures.good
      /\ \A e \in Elements : InitialTemperatures.power[e] = 0
  BY DEF InitialTemperatures
<1>3. reset_thermal_state(td) = [td EXCEPT !.temperatures = InitialTemperatures]
  BY DEF reset_thermal_state
<1> HIDE DEF InitialTemperatures
<1> QED BY <1>1, <1>2, <1>3 DEF ThermalType, InProgress
=============================================================================
