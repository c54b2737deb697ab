# A TLA+ model of 3D-ICE

3D-ICE is a thermal simulator for three-dimensional integrated circuits with
inter-tier liquid cooling. It is a C library (`sources/`, `include/`), three
generated parsers (`bison/`, `flex/`), a stand-alone program
(`bin/3D-ICE-Emulator.c`), a server and a client that talk over TCP
(`bin/3D-ICE-Server.c`, `bin/3D-ICE-Client.c`), a SystemC wrapper
(`sources/IceWrapper.cpp`) and plugins for heat sinks (`heatsink_plugin/`).

This directory holds TLA+ modules that model the discrete part of the program:
which call uses which power values, in which order things happen, what is left
behind when something fails, what goes over the network, how a stack becomes a
grid of cells with a matrix and a source vector, and which cells outputs are
read from. TLC checks the models on small instances; TLAPS
proves some of the results for every instance. Floating-point data
(temperatures, conductances, powers) appears only as far as it matters where a
number *came from*.

Paths such as `sources/powers_queue.c:213` are relative to `src/`.

## 1. Inventory

### The parts and how they interact

```
  stack description, floorplans
        |  parsers (bison/, flex/)
        v
  StackDescription, Dimensions, Analysis, Output          heat sink plugin
        |                                                       ^
        v                                                       | callbacks
  ThermalData ----- PowerGrid ----- Floorplan elements ----- PowersQueue
        |    \
        |     SystemMatrix (SuperLU factors)
        |
   +----+--------------------+
   |                         |
  Emulator                 Server  <===== TCP, NetworkMessage =====>  Client,
  (one process)            (one client per run)                       SystemC
                                                                      wrapper
```

* A program parses a stack into a `StackDescription_t`, an `Analysis_t` and an
  `Output_t`, and builds a `ThermalData_t` from them. From then on it calls
  `emulate_step`, `emulate_slot` or `emulate_steady` and looks at the result.
* At the beginning of each *slot* (a fixed number of *steps*) a transient
  simulation takes one power value out of the queue of every floorplan element
  and spreads it over the source vector. A steady simulation does so once.
* The server is the thermal library behind a socket: it waits for one client,
  serves its requests one after the other, and ends with it. Messages have a
  length, a type and words; they carry no identity, and neither side looks at
  the result of most receives.
* Nothing is persistent except output files. Concurrency is between the
  processes, between a client and the program that writes the power trace it
  follows, and in one OpenMP loop (non-uniform grids).

### Components

| Component | State | Operations | What is hard | What makes it correct |
|---|---|---|---|---|
| Power queues (`powers_queue.c`) | memory, capacity, start, end, size | build, put (doubles the memory), get, copy, clone | growing after a wrap-around; copy into memory in use | it is a FIFO; no index leaves the memory |
| Thermal data (`thermal_data.c`), power grid (`power_grid.c`, `floorplan*.c`), clock (`analysis.c`) | clock, queues, source vector, temperatures, flow rate and factors | `emulate_step`, `emulate_slot`, `emulate_steady`, `reset_thermal_state`, `update_coolant_flow_rate`, `insert_power_values` | a failure after part of the values were taken; mixing steps and slots; flow change inside a slot; solver and plugin errors | step *i* uses the row of its slot, for all elements unless they were given unequally many values; sources, factors and flow rate agree |
| Emulator (`3D-ICE-Emulator.c`) | phase, last result, output files | preparation, loop, final output | outputs ignore failures; the loop depends on the result codes | outputs show consistent states at the right instants; the program ends |
| Server (`3D-ICE-Server.c`) | phase, peer, headers flag, thermal data | ten request handlers, exit paths | ignored receive errors, missing replies, files of an earlier run | one answer per request that has one; ends with its client |
| Console client (`3D-ICE-Client.c`) | phase, slot counter, trace position | connect, send rows, simulate, read outputs, stop rules | zeros taken for answers; `--follow`; `--until-minus-one` | counts the same slots as the server; success means simulated |
| Network (`network_socket.c`, `network_message.c`) | message memories, byte stream | build, grow, send, receive, extract | partial reads and writes, a sender that dies in a message, memory growth | whole messages, once, in order; no word of an older message |
| Stack parser (`stack_description_parser.y`), dimensions (`dimensions.c`) | list of elements, numbers of layers, cells and connections | element checks, end of section | checks that depend on what came before; a formula that must agree with other code; 32-bit counts | stacks accepted are those it says; the count is that of the matrix |
| Thermal grid, system matrix (`thermal_grid.c`, `system_matrix.c`) | layer types, column pointers, row indices, values | `thermal_grid_fill`, `fill_system_matrix`, refill, factorise, solve | seven column functions that must agree with each other, and an eighth for non-uniform grids | rows ascend, both directions of a connection have one coefficient, connected network, equilibrium with the surroundings, memory is large enough |
| Floorplans (`floorplan_parser.y`, `ic_element.c`, `floorplan_matrix.c`) | rectangles, their rows and columns, coefficients | location check, alignment, filling and multiplying the matrix | elements that end on or between lines of the grid | all power of an element reaches the cells it covers |
| Non-uniform grids (`thermal_data.c:70-1030`, `list_template.c`) | cells, list of connections, parallel region | generating cells, parallel search, merge of lists | order of threads; two steps of a merge; a second implementation of the matrix | no connection lost or doubled; same network as on a uniform grid, up to materials |
| Output, inspection points (`output.c`, `inspection_point.c`) | list of points per instant | headers, append, pack into a message | partial failure; cells found by number on one grid and by search on the other; file and message apart | see Emulator and Server; every output is read from the cells it is about |
| SystemC wrapper (`IceWrapper.cpp`) | socket, simulated time | the requests of the client | decoding of replies | not modelled, see section 7 |
| Other parser sections, materials, layers | built once, read-only afterwards | | | not modelled, see section 7 |

The hazards of this code, one by one with their lines and the properties that
guard against them, are listed in `PROJECT.json`.

## 2. Modules

```
PowersFifo  <--refines--  PowersQueue        ThermalModel (functions)
                                               /        |       \
                                       ThermalData  Emulator   Server
                                                               /    \
                                                  ConsoleSession  OpenSession

MessageChannel <--refines-- MessageSocket

StackDescription <- ThermalGrid <- SystemMatrix <-------+
                         ^                              |
                     Floorplan <- NonUniformGrid <- NonUniformMatrix
                                        ^               ^
                                  InspectionPoint <- ThermalBuild

ThermalModel_proofs <- Simulation_proofs (ThermalData and Emulator), Server_proofs
Server_proofs <- ConsoleSession_proofs, OpenSession_proofs
PowersQueue_proofs, MessageSocket_proofs, ThermalBuild_proofs
```

`A <- B` reads: B extends A. Each `X_proofs` extends `X`.

Each checked module has an `MC...` module with the values of its constants
that a `.cfg` cannot write, and one or two `.cfg` files.

Operators marked "Seeded fault" are not part of any specification: each is a
plausible bug in the definition that follows it, and substituting it makes the
property named with it in `PROJECT.json` fail. They document that each property
can be broken by the code.

### PowersFifo, PowersQueue

`PowersQueue` is `sources/powers_queue.c` for a set of queues that may be copied
into each other. A queue is the C structure with its fields: `Memory` (a
function on `0 .. Capacity - 1`), `Start`, `End`, `Size`; `Built` says whether
memory was ever allocated. Actions: `Build`, `Put` (with the growth through a copy
into a memory of twice the size), `Get` and `GetNothing` (an empty queue gives
0 and stays as it is), `Copy`, `Destroy`. `PowersFifo` is the promise: a sequence per queue.
`Contents` maps one to the other.

### ThermalModel, ThermalData

`ThermalModel` contains `thermal_data.c`, `power_grid.c` and `analysis.c` as
functions from a simulation state to a state, or to the set of outcomes
`[td, result]` when a call can end in several ways. It abstracts a power value
to its position in its queue: the *k*-th value ever queued for an element is
*k*, a queue is `supplied` and `taken`, and a source is the value it was made
of, 0 for none. Temperatures are a record of what they were solved from:
powers, inlet terms, factors, number of steps. This makes "which row was this
step solved with" a state property. `Updated` is `update_source_vector` with
its loop order and its early return: the sources are cleared first, every queue
below the first empty one has given a value away, and whether such a value
reaches the sources depends on the kind of grid (per element on a non-uniform
one, per complete floorplan otherwise). `Refactored` is `update_coolant_flow_rate`.
What its `update_channel_sources` does depends on the geometry: it numbers
cells as on a uniform grid, and on a non-uniform one the cells it writes may be
others than the inlets. `Config` says whether it reaches all inlets (`reached`) and
of which elements it overwrites cells (`struck`); the geometry itself is in
`ThermalBuild`.

`ThermalData` is the library under an arbitrary caller: every call in any order
and after any result. `emulate_slot` is one action per iteration of its loop.

### Emulator

`main` of `bin/3D-ICE-Emulator.c`: three preparations, any of which may fail,
the loop with the outputs after each iteration, the final output. `files[i]`
records what was shown at each instant; a file that cannot be opened is a
nondeterministic choice that the program ignores.

### Server, ConsoleSession, OpenSession

`Server` is `bin/3D-ICE-Server.c` with one action per request handler, the
handler's calls, reply and way out included, plus starting, accepting,
receiving, leaving and a crash. A connection is two sequences of messages and
two flags, one for each end; writing to a connection whose other end is closed
loses the message or kills the process (no program handles SIGPIPE). Reading
from an ended connection gives what the code then sees: a message of zeros,
whose type 0 is `TDICE_EXIT_SIMULATION` for the server and whose content reads
as `TDICE_SUCCESS` or `TDICE_END_OF_SIMULATION` for the client. A message that
was cut when its sender died reads as a prefix filled up with zeros;
`MessageSocket` shows that this is what happens (`CutReadsAsPrefix`, a part of
`NoStrayWords`).

`ConsoleSession` adds the clients of `bin/3D-ICE-Client.c` with their options
(number of slots, power trace, `--follow`, `--until-minus-one`), the writer of
the trace, and crashes. `OpenSession` adds a client that may send any request
of `MessageType_t` at any time, only waiting for the answer to one request
before it sends another that is answered: what the interface promises to
programs that are not in the repository.

### MessageChannel, MessageSocket

`MessageSocket` is `network_message.c` and the two message functions of
`network_socket.c`, byte by byte: a message built word by word in a memory that
doubles, written in pieces, read in pieces (the length first), with the
receiver's memory grown to the length. The bytes of a word are those of the
constant `BytesOf`: any machine's representation that gives every word its own
`WordBytes` bytes, all zero for 0. The number of words, `WordLimit`, is a
parameter, too, and with it the width of the arithmetic. The sender may close or
die anywhere. `MessageChannel` is the promise: whole messages, once, in order,
and a receive that fails only when nothing is left. The session modules assume
exactly this.

### StackDescription, ThermalGrid, SystemMatrix

`StackDescription` is the stack section of the parser: elements from the
top-most to the bottom-most, the checks with their lookups, the layers of each
element, and `compute_number_of_connections` in the width of a `CellIndex_t`.
`ThermalGrid` is `thermal_grid_fill`, which gives every layer its type (or
fails), and then what `thermal_grid.c` and `channel.c` compute for a cell: its
capacity, its conductances to the six faces, its convective term.
`SystemMatrix` is `fill_system_matrix`, one column per cell, with one function
per column function of the code (`SolidColumn`, `LiquidColumn2rm`,
`TopWallColumn2rm`, ...), into `ColumnPointers`, `RowIndices` and `Values`, the
arrays of the code.

Coefficients are symbolic sums: a floating-point formula is a name and the cell
it takes geometry and material from, a coefficient a bag of such terms with
integer factors, and `PARALLEL` is `PARALLEL(a, b) = ab / (a + b)` of two of
them. Two coefficients are equal if they are made of the same formulas of the
same cells. This distinguishes the wrong neighbour, a missing or doubled term,
a wrong sign or the wrong one of two half-cell conductances; it does not say
that a formula is right.

### Floorplan, NonUniformGrid, NonUniformMatrix

`Floorplan` has the locations and lengths of rows and columns (`dimensions.c`),
the alignment of rectangles to them (`ic_element.c`), the coefficients that
divide power among cells (`floorplan_matrix.c`), the location check of the
parser, and the source layer of a stack element. Lengths are whole numbers.

`NonUniformGrid` is the part of `thermal_data_build` that exists on non-uniform
grids only. `GenerateCells` makes the cells of all layers from floorplans and
discretisations and counts them a second time, as the code does. Then the
parallel regions run one after the other: within a layer threads take the next
chunk of cells when they are free (`schedule(dynamic, 100)`), between layers
each has its part. `Search` collects what one part finds in the list of the
thread; `Link` and `Close` are the two halves of `connection_list_merge` on the
shared list, whose nodes are linked by `next`; `EndRegion` is the barrier. A node
is its pair of cells together with the place where it was found (region, part,
number): every node is allocated anew, so two nodes with one pair would be two.
`Nodes` is what a walk along the links finds, as the matrix does it.

`NonUniformMatrix` is `add_solid_column_non_uniform`: both directions of each
connection, the terms of the boundary, the diagonal, the sort, the columns;
with the conductances of `thermal_grid.c:326-960`. A conductance carries the
place its material is looked up at, too (`MaterialPlace`): the floorplan element
or the layer itself for a cell of a source layer, row 0 and column 0 of the layer for
every other one (`thermal_grid.c:348-350`, `thermal_data.c:237-262`).

### InspectionPoint, ThermalBuild

`InspectionPoint` says for every type of output which cells it is computed
from, for a file and for a message, on both kinds of grid. `ThermalBuild` puts
everything together: a stack is parsed, cells are made and connected, layers
typed, the matrix filled, the source vector filled at the beginning of a slot
(`UpdateSourceVector`) and again after a change of the flow rate (`ChangeFlow`,
the matrix anew, `UpdateChannelSources`). The source of a cell is a symbolic
sum, too: what it gets per unit of power of which element, per degree of the
ambient or inlet temperature; whatever stems from an old flow rate is marked.
The second half of the module is geometry to compare with, written
independently of the code: which cells touch, how much area they share, which
cells lie under a rectangle.

## 3. What TLC checks

Numbers of distinct states are those of the configurations in this directory.

| Run | Instance | Question it answers |
|---|---|---|
| `powers_queue` (234 808 states) | two queues, values zero and one other, capacities 0 to 2 at build, memory up to 4 words | Do the indices stay in the memory and agree (`RingOK`), and is the circular buffer a FIFO (`ImplementsFifo`)? |
| `thermal_data` (285 904) | three elements on two dies with the channel between them, slots of two steps, up to 3 values per element and 5 steps, two flow rates, a transient uniform stack with a plugin, and a transient and a steady one on a non-uniform grid where a change of the flow rate misses the inlets and strikes an element | Is every step solved with its slot's values (`SlotUsesItsRow`)? How far can values of different rows mix (`RowsDifferBySupply`)? Do factors and inlet terms follow the flow rate, and how far does it go where they do not (`FlowConsistent`)? Does a slot call stay in its slot (`OneSlotPerCall`) and return (`SlotCallReturns`)? |
| `emulator` (31 848) | the same stack, every kind of configuration, 0 to 3 values for each element | Do outputs show states in which time, powers and temperatures belong together (`OutputsConsistent`), completely (`OutputsComplete`)? Does a simulation use all of the trace (`EndsWithTheTrace`), a steady one its row (`SteadyShowsItsRow`)? Does the program end (`Terminates`)? |
| `console_session` (249 114) | two clients, one server, two elements, slots of two steps, three command lines (two slots of random values; a trace followed until a row of -1; three slots from what the trace has, until that row), a trace that grows from 0 to 3 rows with the third all -1, crashes of clients and of the server | Is at most one request under way (`Lockstep`)? Do client and server agree on the slot (`InStep`, `AnswerOfItsSlot`)? Does success mean simulated (`SuccessMeansSimulated`)? Are values of a torn row never simulated (`TornRowsNotSimulated`)? Does everybody end (`EverybodyEnds`)? |
| `open_session` (294 737) | one client, power requests with one or two values, one of them, two prints, two requests in flight | Does each answered request get exactly one answer (`OneAnswerUnderWay`)? Does an output reflect all requests before it (`OutputIsUpToDate`)? Is END_OF_SIMULATION right (`EndMeansOut`)? Do files follow the prints (`FilesFollowPrints`)? Does nobody wait forever (`NobodyWaitsForever`)? |
| `message_socket` (86 189) | two messages with up to two content words, memories of three words, 16 words of two bytes of four values, the least significant first, socket buffers of three bytes | Is memory respected (`TypeOK`), is the channel implemented (`ImplementsChannel`), what does a failed receive leave (`NoStrayWords`), does what was written arrive (`WrittenIsReceived`)? |
| `system_matrix` (205 334) | stacks of up to four elements from two kinds of die, a layer and a channel; every channel model and heat sink; grids of 1 x 1 and 2 x 3 cells (3 x 1 for pin fins), with the spreader level with the chip or wider | Do rows ascend (`RowsAscend`)? Have the two directions of a connection the coefficients of one thermal network (`CoefficientsAgree`)? Does a stack without power stay at the temperature of its surroundings (`Equilibrium`)? Can heat reach every cell (`HeatFlowsEverywhere`)? Is the parser's count that of the matrix (`CountIsExact`)? |
| `thermal_build` (67 222) | a chip of 6 x 4 units, grids of 2 x 3 cells, up to three elements out of four dies (one with an element beyond the border), a layer and a channel; three uniform and seven non-uniform declarations with every channel model but staggered pins, even and uneven walls, heat sinks, with one or two threads | Whatever threads do, is every node that was allocated on the list in the end (`NoConnectionLost`), is every connection found once (`ConnectionsComplete`) and the matrix sorted (`SortedColumns`)? Do matrix and sources fit each other (`SourcesBalance`)? Do the two implementations of the matrix give the same network, up to materials (`AgreesWithUniform`)? Does power arrive where the floorplan says, all of it (`PowerReachesItsCells`)? Are outputs computed from the cells they are about (`OutputsReadTheirCells`)? |

### Why the bounds are enough

* *Queues*: a memory that grows from 1 to 2 to 4 words goes through every
  combination of start and end at a growth and at a copy into a used memory,
  smaller and larger than needed. The proof covers all others.
* *Thermal data*: with three elements on two dies and the channel in between,
  an update can stop inside a die, between dies, before and after the channel;
  supplies include a lopsided one. Five steps with slots of two are two whole
  slots and a begun third. All invariants of this run are also proved.
* *Emulator*: all combinations of 0 to 3 values cover each position of the
  first queue to run out, at each of the first slots.
* *Sessions*: two slots are the smallest number at which something left over
  from one slot can be taken for the next; a sentinel in row three makes the
  following client wait for rows written later; supplies in the stack file are
  none, level and lopsided. Two clients are one that is accepted and one that
  is not. In the open session two requests in flight let unanswered requests
  overtake the client's wait.
* *Socket*: buffers of three bytes with words of two cut inside a word and at
  word borders; four-word messages are larger than the initial memory, so both
  kinds of growth happen; the second message can show remains of the first.
* *Build*: three elements are every neighbourhood of dies, layers and channels
  that the properties look at, and the run has dies with elements that end on
  lines of the grid, inside of cells, in two rectangles and beyond the chip,
  and a non-uniform grid that is the uniform one, on which `AgreesWithUniform`
  bites. A chunk is 4 cells where the code has 100, so that layers of 6 are
  shared by two threads. Stacks with two threads have at most three layers
  (`FewIfParallel`); every region starts from a list with or without nodes, so
  more layers repeat what happened before.
* *Matrix*: four elements give die, channel, die and one more element on every
  side, and two adjacent channels, which the parser accepts; a 2 x 3 grid has
  inner and border cells and a wall on each side of a 4RM channel column, a
  1 x 1 grid has no neighbours at all. `Word` is 65536 where the code has 2^32,
  so the count does not overflow in this run (section 6).

Bounds on counters (`MaxCapacity`, `MaxSupply`, `MaxTime`, `MaxInserts`,
`MaxPrints`, `MaxAhead`, `MaxMessages`, `MaxContent`, `MaxElements`) appear in
guards only and in no handler's effect. No symmetry is used: sessions are
checked for liveness, where it would not be sound, and queues are small.

All runs switch deadlock checking off. The programs end, and then their models
rightly stop; in the bounded ones a counter may reach its bound.

### Fairness

* `PowersQueue`, `SystemMatrix` and `ThermalBuild` state safety only. That the
  parallel search ends is plain: threads wait for nothing but the critical
  section and the barrier.
* `ThermalData`: weak fairness of `SlotIteration`. A caller need not call
  anything, but a call that has begun keeps running.
* `Emulator`: weak fairness of `Next`; a single-threaded program that never
  waits for anything keeps running.
* `ConsoleSession`: weak fairness of the server's steps, of each client's steps
  and of `AppendRow`. Processes are scheduled by the operating system; a client
  with `--follow` can end only if the trace it follows is written to its end,
  which is what this option is for. Crashes and failures are never fair.
* `OpenSession`: weak fairness of the server's steps and of a waiting client's
  read. Nobody is obliged to send a request or to leave; so
  `ServerFollows`, a part of `NobodyWaitsForever`, starts from a client that has
  left.
* `MessageSocket`: weak fairness of writing and of receiving, not of building
  messages nor of closing. A write that can take a byte does, and a receiver in
  a receive goes on.

## 4. What TLAPS proves

Every safety property of the runs `powers_queue`, `thermal_data`, `emulator`,
`console_session`, `open_session` and `message_socket` is a theorem about every
value of the constants; so are both refinements, three properties of the run
`system_matrix`, and the one of `thermal_build` that is about threads. The proofs assume only the named assumptions of the modules
(`QueueAssumption`, `ThermalAssumption`, `BoundAssumption`, `ServerAssumption`,
`ConsoleAssumption`, `OpenAssumption`, `SocketAssumption`,
`RepresentationAssumption`, `TypeAssumption`, `StackAssumption`,
`NonUniformAssumption`), which TLC evaluates on every run.

| Run | Theorems |
|---|---|
| `powers_queue` | `TypeCorrect`, `RingCorrect`, `QueueImplementsFifo` |
| `thermal_data` | `TypeCorrect`, `FlowAlwaysConsistent`, `RowsAlwaysDifferBySupply`, `SlotAlwaysUsesItsRow`, `OneSlotPerCallAlways` |
| `emulator` | `OutputsAlwaysConsistent`, `OutputsAlwaysComplete`, `AlwaysEndsWithTheTrace`, `SteadyAlwaysShowsItsRow` |
| `console_session` | `AlwaysInLockstep`, `AlwaysInStep`, `AnswersAlwaysOfTheirSlots`, `SuccessAlwaysMeansSimulated`, `TornRowsNeverSimulated` |
| `open_session` | `AlwaysOneAnswerUnderWay`, `OutputsAlwaysUpToDate`, `EndAlwaysMeansOut`, `FilesAlwaysFollowPrints` |
| `message_socket` | `MemoryRespected`, `StrayWordsNever`, `StreamIsChannel` |
| `system_matrix` | `RowsAlwaysAscend`, `CoefficientsAlwaysAgree`, `CountAlwaysExact` (and `MatrixInvariant`, on which they rest) |
| `thermal_build` | `NoConnectionEverLost` (and `SearchInvariant`, on which it rests) |

**Power queues**, the refinement of `PowersFifo` included.

* The inductive invariant is `Good` for every queue: its type, `WithinMemory`
  (start and end below the capacity, or both 0 without memory) and `Ring`
  (`End` is `Start + Size` modulo the capacity). The last two are `RingOK`; none
  of the three is inductive by itself: without `Ring` nothing keeps `Size` and
  the indices together, and a `Put` could overwrite the oldest value.
* `WrapOnce` reduces the modulo to at most one subtraction; the lemmas on the
  growing copy say that copying element by element from `Start` yields the same
  `Contents` at the beginning of the new memory.
* The refinement has one step per action: each either changes `Contents` as the
  abstract action does or leaves it alone.

**Simulation calls**, for every stack, slot length, supply and caller. The
lemmas of `ThermalModel_proofs` say what each function of the simulation keeps
(`SolvedTyped`, `SteppedTyped`, `UpdatedTyped`, `EmulatedInProgress`, ...) and how
slots follow each other (`NextSlot`, `SameSlot`, `SlotEnd`); the emulator and
the sessions rest on them, too. The invariants of `ThermalData` (in
`Simulation_proofs`) are built
in layers:

* `CoolantInv`: types; a steady analysis never leaves time 0, so a slot is
  complete between its calls; unless the last factorisation failed, factors
  equal the flow rate, and so do the inlet terms inside a slot where a change of
  the rate reaches them (`InletFollows`). Where it does not, the temperatures of
  a slot are all solved with the inlet terms of its first step (`InletStays`),
  and that step has the power of every element (`PowerReturns`).
* `SourcesInv` adds `Bounded` (no queue has given out more than it got, and a
  source is the last value or 0) and, for a level supply (`Ascending`), `Even`:
  all elements have given away equally many values. `Even` is why a failing
  update does no harm: if the supply ascends and all have taken the same
  number, the first queue is empty whenever any is (`UpdatedEven`), so nothing
  is taken. That the minimum exists is `MinOfElements`, from well-foundedness.
* `LeadInv` is about lopsided supplies, for which a failing update does take
  values: an element is ahead only of those above it, and only with a higher
  supply than one of them (`AheadBySupply`, preserved by an update in
  `UpdatedAhead`: the elements that give a value away stand below the first
  empty queue, which was given fewer); a step is solved only with sources that are
  complete, the last value of every element (`FullRow`). `RowsDifferBySupply`
  says no more than that: rows do mix, in this way.
* `SlotInv` adds `AtItsRow`: inside a slot the sources are its row. It needs
  the arithmetic of slots, `NextSlot` and `SameSlot`, for any slot length.
* `CallInv` is for `emulate_slot`: a call in progress has either not begun or
  stands in the middle of the slot of its first step.

**Emulator.** `EmulatorInv` is the properties about outputs and two facts they do
not say themselves. `Running`: until the loop ends no step has failed and the
temperatures follow as many steps as the clock shows, so that a line generated
now shows one instant (`OutputsConsistent`) and the next line is the next one
(`OutputsComplete`, by `DivisionStep` for the slots). `AtTheEnd`: what the result
`END_OF_SIMULATION` says about clock and temperatures. `EndsWithTheTrace` says
nothing before the program exits, and only this carries it through the final
output.

**Server.** `Server_proofs` has no theorem of its own: `ServerInv` (types, a server
that serves has a peer, its simulation is one of which no step has failed) and a
lemma for each handler that says what it does to the process, to the connections
and to the simulation (`InsertShape`, `EmulateSlotShape`, ...). Both sessions
use them, whoever the clients are.

**Sessions.** Each has an invariant of the protocol (`ProtocolInv`), from which
`Lockstep` and `OneAnswerUnderWay` follow, and one about the simulation.

* `LinkInv` says where the request that a client waits for is: on its way,
  with the server, answered, or lost with the server; and that in all other
  states of the client nothing is. The end of a connection is a part of it: a
  console client that closes or crashes leaves at most one request behind, and
  a message that is cut is the last one. In the open session the request may
  be behind others that are not answered, so it is the last of its queue.
* `SessionInv` (console) says for each state of the client how many slots are
  simulated (`StepInv`), what an answer under way is about (rows are counted in
  the queues: with values preset in the stack file, the server's *n*-th row is
  not the *n*-th one of the client), and what a client
  that ends with success has achieved (`Achieved`). `TornInv` is about a row
  that was cut: nothing is read after it and its values are behind all that were
  taken, so that no later step takes them.
* `KnowledgeInv` (open) relates what a client knows from the answers it has
  heard to the server: clock, reset and lines of the files, each corrected by
  the requests still in the queue (`Pending`, a count of a type of requests in a
  sequence), and says that of every answer under way (`ComingCorrect`).
* The attempt to prove `SuccessMeansSimulated` showed that an earlier form of it
  was wrong for a command line that no run had: with a number of slots *and*
  `--until-minus-one` the client ends with success at the row of -1, before
  that number. The property now says which of the two the client was started
  for (`Wanted`), and the run has such a command line.

**Messages on a stream.** `SocketInv` says that the bytes on the wire are what is
left of the messages written: there are positions in the stream, `b[k]` for the end of
message *k*, and memories `M[k]` they were written from, and the wire holds the bytes
from where the receiver is to where the sender is (`Stream`). A message that
is being written is the last of them, one that is being read is the one after
those received, and its length, once read, is that of `M[k]` (`Consistent`). When
the sender is gone and the wire empty, this is no longer so (`Drained`): the
last message may be cut.

* `Carries` and its lemmas (`CarriesWritten`, `CarriesRead`, `CarriesNext`) are
  the arithmetic of positions: a write of any number of bytes adds at the end, a
  read takes from the front, wherever the borders of words and messages are.
* `Leftover` is what a memory shows beyond what has arrived: zeros, but for
  the type of a request that was sent from the same memory before, as the console
  client does with its first one (`3D-ICE-Client.c:548-552`).
  A type of which a part has arrived is thus a mixture of two (`TornType`);
  that the mixture is one of the two or 0 needs `TypeAssumption`, that types
  are small numbers.
* `FailInv` says after which states a receive fails. `ChannelStep` maps each step
  to one of `MessageChannel` or to none: writing the last byte is a send,
  reading the last one is a receive, and it is the message `M[k]` that was sent
  (`Delivered`).

**System matrix** of a uniform grid, for every stack, channel model, heat sink
and size of the grid. `ThermalBuild_proofs` takes the properties to a statement
about all columns at once, `MatrixKept`:

* the parser's numbers are those of the stack it accepted (`ParserKept`), and
  the layers have the types that `thermal_grid_fill` gives them (`Typed`): the
  four layers of a channel with walls are there together (`ChannelAt`), the
  outermost are solid, and only the top-most is joined to a spreader. This
  follows from the elements, one after the other (`KindsOfStack`,
  `ProfileTypes`), and the column functions rely on it silently: the one of a
  top wall reaches three layers down;
* the column written for a cell is the one with the cell's number, and its rows
  and conductances are those of the function for the cell's kind
  (`ColumnHolds`). `RowsAscend` speaks of the column written last only and says
  nothing from which a step could preserve it.

`RowsAscend` then is a fact about each of the seven column functions
(`ColumnLists`: in the order in which neighbours are visited their numbers
grow; the walls, the liquid and the spreader each have their own lemma).
`CoefficientsAgree` is one about pairs of them (`AllLinked`, `Joins`): whichever
two kinds of cell exchange heat, what one function writes for the other cell is
what the other one writes for it. Cells are told apart by `CellInjective`: the
numbers of two positions, the spreader's included, differ.

`CountIsExact` needs a second invariant, `CountKept`, and an argument by
counting: the length of each column (`ColumnLength`), summed along a row, over
the rows of a layer and, element by element, over the layers (`RowTotal`,
`LayerTotal`, `ChannelLevels`). Summation is by an induction of its own over
`ColumnPointers`, which is the running sum. The theorem has a condition that
the property does not state and that TLC's instance always meets: the
coefficients are fewer than `Word`. Without it the property is false, see section
6; the proof attempt asks for the check that the parser does not make.

**Parallel search** for the connections of a non-uniform grid, for every stack,
every floorplan and discretisation, any chunk, any number of threads and any
schedule. `NoConnectionLost` speaks of the end of the search only; what every
step keeps is `SearchKept`: while the search runs there is a sequence `s` of
nodes, without repetition, such that

* the links are those of `s`, from its first node on, and the list's `First`,
  `Last` and `Size` are those of `s`; but while a thread is in the middle of a
  merge, `Last` and `Size` are still those of the part of `s` before its local
  list (`ListKept`, `Appending`). That there is one such thread at most is the
  critical section, and the proof of `Link` needs it: the node it links to must
  be the last of `s`;
* no node is on two local lists, or on one and on `s` (`LocalsKept`); a local
  list that is being merged is excepted, for it is on both;
* what is on `s` and on the local lists is what the parts taken so far have
  found (`NothingMissing`), in this region and those before (`Done`). Nodes of
  different parts differ by their place, so a part adds new nodes only.

`LinkedLists` says that linking the end of one list to the beginning of another
gives the links of the two in a row, `NodesOfList` that the walk along the
links of a list without repetition comes by all of it and ends there.
`GridListed` says that the cells of every grid are a sequence, however dies,
layers, channels and the spreader divide it. That the pairs found are the cells
that touch is not a part of the theorem: it is geometry, and stays with TLC
(`ConnectionsComplete`).

Each inductive invariant also holds in TLC on its run's instance (`SocketInv`
with the positions and memories computed from the history, `SearchKept` with
`Nodes` for the sequence `s`).

Only model-checked:

* liveness under fairness: the prover does not do `ENABLED`;
* `Equilibrium` and `HeatFlowsEverywhere`: the first sums symbolic coefficients
  over whole rows of the matrix, the second is reachability; both are folds over
  sets whose value for every set the installed provers cannot get from the
  library's induction theorems, which take an operator as a parameter;
* the other properties of `thermal_build`: they compare the program with an
  independent description of the geometry, of products and quotients of lengths,
  or with the matrix of the other kind of grid, again by folds.

## 5. Disagreements between code and documentation

Four runs check one property each that states what a comment, message or header
of the repository says; TLC finds each violated.

* `emulator_final_power`, `FinalPowerMap`: the step that finds the queues empty
  clears the sources before it fails (`power_grid.c:586`), and the final output
  is generated from them. A `Pmap` inspection point at the end of a simulation
  shows no power next to temperatures solved with power.
* `console_minus_one`, `MinusOneReceived`: a client with `--until-minus-one`
  that never learnt the number of elements says that it received the
  terminating row, and exits with success.
* `stack_channels`, `NoConsecutiveChannels`: the parser rejects two consecutive
  channels only at the top of the stack, because it looks at the wrong end of
  its list. The matrix of such a stack is well formed (`system_matrix` includes
  them), so this is about what the parser accepts.
* `inlet_flow`, `InletFollowsFlow`: after a change of the flow rate
  `update_channel_sources` (`power_grid.c:974-1044`) finds the inlet cells by
  counting layers of the uniform grid, on non-uniform grids, too. The inlets
  keep the term of the old rate until the next slot, and the new terms replace
  the sources of other cells, or are written behind the vector.
  `thermal_data.h:317-319` promises the new inlet values. `FlowConsistent`, for
  the library, says what holds nevertheless: all of it is over with the slot.

Met while modelling and excepted in the properties, each at its definition:

* A failing `TDICE_INSERT_POWERS` is not answered (`3D-ICE-Server.c:410-417`),
  although `types.h:673-676` says the server responds with an `Error_t`. The
  client's wait ends with the connection only (`NobodyWaitsForever` holds).
* On non-uniform grids: the term of a board is in the source vector, without
  its heat transfer coefficient, and not on the diagonal of the matrix; only
  the first rectangle of a floorplan element gets cells, so outputs about the
  others read cell 0, as does a point that no element covers; a border between
  two cells is taken too long when it lies strictly inside of one side
  (`thermal_data.c:802-812`, `Excess`); the conductance along a virtual wall
  divides by the length where the uniform one divides by the width
  (`thermal_grid.c:745`); a material layout is ignored in a source layer
  (`layer.c:228-243`) and looked up at row 0 and column 0 everywhere else
  (`thermal_grid.c:348-350` and the conductances), while uniform grids look it
  up at the cell (`layer.c:186-226`) and know no materials of floorplan elements;
  the spreader has the size of the chip; a stack
  without top sink dereferences a null pointer (`thermal_data.c:145, 665`).
* The matrix of a uniform grid of a single row has one convective term on the
  diagonal of a channel where the sources have two (`Equilibrium`).
* The outlet of a channel starts with the first column even if that is a wall
  (`channel.c:344-459`); its "gradient" is the maximum, not the difference of
  `types.h:487`.
* A caller that gives lower elements more values than higher ones and goes on
  after `TDICE_END_OF_SIMULATION` has steps solved with values of different rows
  (`floorplan.c:279`); `RowsDifferBySupply` says how far apart they can be.
* Values preset in the stack file are used before those a client sends, so that
  its rows are simulated later than it sends them (`AnswerOfItsSlot` counts rows in the
  queues).
* A step that is repeated after a solver error at the beginning of a slot takes
  another row; `SlotUsesItsRow` excepts it. No program in the repository repeats one.
* The checks for overlapping floorplan elements are commented out
  (`floorplan_parser.y:214-282`). An element counts fully where it overlaps.

## 6. Hazards without a property

* The number of connections is counted in 32 bits without a check. `Word` is a
  parameter: with `Word = 64`, `CountIsExact` fails for stacks whose number of
  cells is within the limit. At 32 bits it takes more than 600 million cells.
* With a 2RM or pin-fin channel declared, the count exceeds the matrix by two
  per cell of a layer. The memory is too large by that much and nothing else
  happens; `CountIsExact` states the exact difference.
* After a failing factorisation the new flow rate is in place with unusable
  factors. The model has this state, and `FlowConsistent` excepts it.
* The emulator exits with success after a solver error. Nothing in the
  repository says what its exit status should be.
* A client with `--follow` may read half-written numbers; traces are modelled in
  whole rows.
* The byte count of a message wraps around at 2^30 words. `SocketAssumption`
  stays below it.
* Lengths are doubles that are compared exactly where the parser asks whether
  channels and walls fill the chip (`stack_description_parser.y:1117`) and where
  the matrix asks whether a cell lies at the outlet (`system_matrix.c:661`); the
  models have whole numbers.

## 7. Not modelled, and why

* Numerical data: the formulas behind the symbols of the coefficients,
  temperatures, material and channel properties, the solver. TLC cannot say
  anything about them that a test could not.
* Formats: text of outputs, names in headers, memory and time reports; the file
  names of `T3D` outputs.
* Failing allocations while a grid is built.
* The error branch after `fill_output_message` (`3D-ICE-Server.c:460-467`): it fails
  only for an instant that does not exist (`output.c:322-328`), and then the number
  of inspection points before it is 0 (`output.c:109-114`) and it is not called.
* Building of lists by the parsers outside the stack section; the models start
  from their result. Checks there concern one element at a time.
* Plugins: a call that may fail. What Python or FMI code does inside it is
  external.
* The SystemC wrapper: its requests are among those of `OpenSession`; its
  processes are scheduled by a simulator that is not in the repository.
* The linked lists beyond initialisation, insertion and merge, and the layout
  parser of heat sinks: sequential code without lasting state.

## 8. Plan

Done, in this order: power queues and their refinement; simulation calls;
emulator; server with its two kinds of client; messages on sockets; stack and
matrix; proofs of the queues and of the simulation calls; coefficients of the
matrix and conductances; floorplans; non-uniform grids with the parallel search
and their matrix; inspection points; the build as a whole; proofs of the
emulator, of both sessions, of the messages on sockets, of the system matrix and
of the parallel search.

Next, in the order of what matters most:

1. *Replies*: the layout of each reply in words (`inspection_point.c:1117-1465`,
   server handlers) against its decoders (`3D-ICE-Client.c:677-797`,
   `IceWrapper.cpp:170-280`).
2. *SystemC client*: the wrapper's check of the simulated time
   (`IceWrapper.cpp:183-192`).
3. *Abstract session*: a stream of rows and results that both the emulator and
   a console session implement.
4. *Trace in characters*: `--follow` with a number that is still being written.
