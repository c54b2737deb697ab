---------------------------- MODULE ConsoleSession ----------------------------
(***************************************************************************)
(* bin/3D-ICE-Client.c against the server: each client asks for the number *)
(* of floorplan elements and then, slot after slot, sends one row of power *)
(* values, has the slot simulated and asks for six outputs.  The rows are  *)
(* random or come from a power trace file, which another program may still *)
(* be writing (--follow) and may end with a row of -1 (--until-minus-one). *)
(* Processes may crash; a second client is never accepted.                 *)
(***************************************************************************)
EXTENDS Server

CONSTANTS
  CommandLines, (* options the clients are started with: see CommandLine   *)
  TraceRows,    (* rows in the trace file at the start and when complete   *)
  Sentinel,     (* which row is all -1; 0 if none                          *)
  MayCrash      (* the kinds of process that may crash                     *)

(* The number of slots (0 if it is not limited), whether there is a power  *)
(* trace file, --follow and --until-minus-one                              *)
CommandLine ==
  { args \in [nslots : Nat, trace : BOOLEAN, follow : BOOLEAN, untilMinusOne : BOOLEAN] :
      /\ args.follow \/ args.untilMinusOne => args.trace
      /\ args.nslots = 0 => args.untilMinusOne }

ASSUME ConsoleAssumption ==
  /\ \A args \in CommandLines : args \in CommandLine
  /\ TraceRows.start \in Nat /\ TraceRows.final \in Nat
  /\ Sentinel \in Nat
  /\ MayCrash \subseteq {"client", "server"}

VARIABLES
  args,         (* the command line of the clients                         *)
  client,       (* client[c]: pc, slot, nflpel, output, answer, status     *)
  trace         (* number of complete rows in the power trace file         *)

vars == <<server, tdata, conn, torn, args, client, trace>>

NoAnswer == [slot |-> 0, time |-> 0, row |-> 0]

Init ==
  /\ ServerInit
  /\ client = [c \in Clients |->
                 [pc |-> "connect", slot |-> 0, nflpel |-> 0, output |-> 0,
                  answer |-> NoAnswer, status |-> "none"]]
  /\ args \in CommandLines
  /\ trace = TraceRows.start

-----------------------------------------------------------------------------
(* The client                                                              *)

At(c, pc) == client[c].pc = pc

(* The process ends and its end of the connection is closed *)
ClientExit(c, status) ==
  /\ client' = [client EXCEPT ![c].pc = "exit", ![c].status = status]
  /\ conn' = [conn EXCEPT ![c].client = FALSE, ![c].down = <<>>]

Goto(c, pc) == client' = [client EXCEPT ![c].pc = pc]

(* send_message_to_socket by the client.  With the server's end closed the *)
(* message is lost or the write kills the process.                         *)
Send(c, message, pc) ==
  \/ /\ conn[c].server
     /\ conn' = [conn EXCEPT ![c].up = Append(@, message)]
     /\ Goto(c, pc)
  \/ /\ ~ conn[c].server
     /\ Goto(c, pc)
     /\ UNCHANGED conn
  \/ /\ ~ conn[c].server
     /\ ClientExit(c, "killed")

(* receive_message_from_socket returns: with a message, or because the     *)
(* connection has ended.  In the second case the content is all zeros.     *)
Succeeds(c) == conn[c].down # <<>>

Returns(c) == Succeeds(c) \/ ~ conn[c].server

Received(c) == IF Succeeds(c) THEN Head(conn[c].down) ELSE Message("none", 0, "none", 0)

Consume(c) == conn' = [conn EXCEPT ![c].down = IF @ = <<>> THEN @ ELSE Tail(@)]

(* connect_client_to_server and the opening of thermal_map.txt *)
Connect(c) ==
  /\ At(c, "connect")
  /\ \/ /\ server.pc \notin {"start", "exit"}
        /\ conn' = [conn EXCEPT ![c].client = TRUE, ![c].server = TRUE]
        /\ Goto(c, "elements")
     \/ ClientExit(c, "EXIT_FAILURE")

NoMap(c) == At(c, "elements") /\ ClientExit(c, "EXIT_FAILURE")

AskElements(c) ==
  /\ At(c, "elements")
  /\ Send(c, Request("TOTAL_NUMBER_OF_FLOORPLAN_ELEMENTS", 0), "elements?")

LearnElements(c) ==
  /\ At(c, "elements?") /\ Returns(c)
  /\ client' = [client EXCEPT ![c].nflpel = Received(c).n, ![c].pc = "slots"]
  /\ Consume(c)

(* Seeded fault: the slot is counted before it is simulated *)
MoreSlotsButOne(c) == args.nslots = 0 \/ client[c].slot + 1 < args.nslots

MoreSlots(c) == args.nslots = 0 \/ client[c].slot < args.nslots

(* The next row can be read: all of its values are in the file *)
RowReady(c) == ~ args.trace \/ client[c].slot < trace

AtSentinel(c) == args.trace /\ client[c].slot + 1 = Sentinel

(* termination_slot remains true *)
LastRow(c) ==
  /\ args.untilMinusOne
  /\ client[c].nflpel = 0 \/ (RowReady(c) /\ AtSentinel(c))

HasRow(c) ==
  /\ At(c, "slots") /\ MoreSlots(c) /\ ~ LastRow(c)
  /\ client[c].nflpel = 0 \/ RowReady(c)

Row(c) == Request("INSERT_POWERS", client[c].nflpel)

(* Seeded fault: the answer is not awaited *)
SendRowOnly(c) == HasRow(c) /\ Send(c, Row(c), "simulate")

SendRow(c) == HasRow(c) /\ Send(c, Row(c), "inserted?")

(* Without --follow the end of the file ends the client *)
TraceOver(c) ==
  /\ At(c, "slots") /\ MoreSlots(c)
  /\ client[c].nflpel # 0 /\ ~ RowReady(c) /\ ~ args.follow
  /\ ClientExit(c, "EXIT_FAILURE")

EndLoop(c) ==
  /\ At(c, "slots")
  /\ ~ MoreSlots(c) \/ LastRow(c)
  /\ Goto(c, "finish")
  /\ UNCHANGED conn

(* A reply that never came reads as 0, which is TDICE_SUCCESS *)
RowInserted(c) ==
  /\ At(c, "inserted?") /\ Returns(c)
  /\ Goto(c, "simulate")
  /\ Consume(c)

AskSlot(c) ==
  /\ At(c, "simulate")
  /\ Send(c, Request("SIMULATE_SLOT", 0), "simulated?")

(* A reply that never came reads as 0, which is TDICE_END_OF_SIMULATION *)
SlotResult(c) ==
  /\ At(c, "simulated?") /\ Returns(c)
  /\ IF Received(c).result = "SLOT_DONE"
     THEN /\ client' = [client EXCEPT ![c].pc = "output", ![c].output = 1]
          /\ Consume(c)
     ELSE ClientExit(c, "EXIT_FAILURE")

(* The outputs 1 to 3 (Tflp average, maximum, minimum) are checked, 4 to 6 *)
(* (Tcell, Tmap, Tflpel) are not                                           *)
Checked(c) == client[c].output <= 3

AskOutput(c) ==
  /\ At(c, "output")
  /\ \/ Send(c, Request("SEND_OUTPUT", 0), "output?")
     \/ Checked(c) /\ ~ conn[c].server /\ ClientExit(c, "EXIT_FAILURE")

ReadOutput(c) ==
  /\ At(c, "output?") /\ Returns(c)
  /\ Checked(c) => Succeeds(c)
  /\ client' = [client EXCEPT
       ![c].pc     = IF client[c].output < 6 THEN "output" ELSE "slots",
       ![c].output = IF client[c].output < 6 THEN @ + 1 ELSE 0,
       ![c].slot   = IF client[c].output < 6 THEN @ ELSE @ + 1,
       ![c].answer = IF Succeeds(c)
                     THEN [slot |-> client[c].slot + 1, time |-> Received(c).time,
                           row |-> Received(c).n]
                     ELSE NoAnswer]
  /\ Consume(c)

(* A checked output did not come, or its file could not be written *)
OutputFailed(c) ==
  /\ At(c, "output?") /\ Returns(c) /\ Checked(c)
  /\ ClientExit(c, "EXIT_FAILURE")

Finish(c) == At(c, "finish") /\ Send(c, Request("EXIT_SIMULATION", 0), "close")

Close(c) ==
  /\ At(c, "close")
  /\ ClientExit(c, "EXIT_SUCCESS") \/ ClientExit(c, "EXIT_FAILURE")

ClientStep(c) ==
  /\ \/ Connect(c) \/ NoMap(c) \/ AskElements(c) \/ LearnElements(c)
     \/ SendRow(c) \/ TraceOver(c) \/ EndLoop(c) \/ RowInserted(c)
     \/ AskSlot(c) \/ SlotResult(c)
     \/ AskOutput(c) \/ ReadOutput(c) \/ OutputFailed(c)
     \/ Finish(c) \/ Close(c)
  /\ UNCHANGED <<server, tdata, torn, args, trace>>

(* A client that dies while it writes a row leaves a part of the message *)
ClientCrash(c) ==
  /\ ~ At(c, "exit")
  /\ client' = [client EXCEPT ![c].pc = "exit", ![c].status = "killed"]
  /\ \E cut \in { <<>> } \cup (IF HasRow(c) /\ conn[c].server
                              THEN { <<[Row(c) EXCEPT !.cut = TRUE]>> } ELSE {}) :
       conn' = [conn EXCEPT ![c].client = FALSE, ![c].down = <<>>, ![c].up = @ \o cut]
  /\ UNCHANGED <<server, tdata, torn, args, trace>>

(* The program that writes the power trace file *)
AppendRow ==
  /\ trace < TraceRows.final
  /\ trace' = trace + 1
  /\ UNCHANGED <<server, tdata, conn, torn, args, client>>

-----------------------------------------------------------------------------

Next ==
  \/ ServerStep /\ UNCHANGED <<args, client, trace>>
  \/ \E c \in Clients : ClientStep(c)
  \/ AppendRow
  \/ "server" \in MayCrash /\ ServerCrash /\ UNCHANGED <<args, client, trace>>
  \/ "client" \in MayCrash /\ \E c \in Clients : ClientCrash(c)

(* Processes that can run do run, and the trace file gets written *)
Fairness ==
  /\ WF_vars(ServerStep /\ UNCHANGED <<args, client, trace>>)
  /\ \A c \in Clients : WF_vars(ClientStep(c))
  /\ WF_vars(AppendRow)

Spec == Init /\ [][Next]_vars /\ Fairness

-----------------------------------------------------------------------------
(* Properties                                                              *)

(* What client c is waiting for *)
Expected(c) ==
  CASE At(c, "elements?")  -> {"TOTAL_NUMBER_OF_FLOORPLAN_ELEMENTS"}
    [] At(c, "inserted?")  -> {"INSERT_POWERS"}
    [] At(c, "simulated?") -> {"SIMULATE_SLOT"}
    [] At(c, "output?")    -> {"SEND_OUTPUT"}
    [] OTHER               -> {}

(* The messages of one connection do not carry an identity: a client takes *)
(* the next message for the answer to its last request.  It is, because at *)
(* most one request is under way, also when requests fail or processes die *)
(* in the middle of one.                                                   *)
Lockstep ==
  \A c \in Clients :
    /\ \A i \in 1 .. Len(conn[c].down) : conn[c].down[i].type \in Expected(c)
    /\ Len(conn[c].up) + Len(conn[c].down)
         + (IF server.peer = c /\ server.pc \in {"handle", "slot"} THEN 1 ELSE 0) <= 1

(* The accepted client and the server agree on how many slots have been    *)
(* simulated at every point of the client's loop, whatever the server's    *)
(* stack file had queued before, and every element has taken one value per *)
(* slot.                                                                   *)
InStep ==
  \A c \in Clients :
    LET slot == client[c].slot IN
    (server.peer = c /\ ~ At(c, "exit")) =>
      /\ ~ At(c, "simulated?") =>
           LET done == IF client[c].output > 0 THEN slot + 1 ELSE slot IN
           /\ tdata.time = done * SlotLength
           /\ \A e \in Elements : tdata.taken[e] = done
      /\ At(c, "simulated?") =>
           tdata.time \in slot * SlotLength .. (slot + 1) * SlotLength

(* An output that a client received for the n-th slot was taken at the end *)
(* of the n-th slot of the server and shows temperatures solved from the   *)
(* n-th value of every element.  Which values these are depends on the     *)
(* stack file: values it presets come before those of the client.          *)
AnswerOfItsSlot ==
  \A c \in Clients :
    LET answer == client[c].answer IN
    answer.slot # 0 => /\ answer.time = answer.slot * SlotLength
                       /\ answer.row = answer.slot

(* The slots that a client is started for: up to the all-minus-one row if  *)
(* there is one it looks for before it has simulated nslots                *)
Wanted ==
  IF args.untilMinusOne /\ Sentinel # 0 /\ (args.nslots = 0 \/ Sentinel <= args.nslots)
  THEN Sentinel - 1 ELSE args.nslots

(* A client that ends with success is the one that was accepted and had    *)
(* every slot simulated that it was started for.  Excepted is a client     *)
(* with --until-minus-one that never learnt the number of elements: see    *)
(* MinusOneReceived.                                                       *)
SuccessMeansSimulated ==
  \A c \in Clients :
    (client[c].status = "EXIT_SUCCESS" /\ (args.untilMinusOne => client[c].nflpel # 0)) =>
      server.peer = c /\ tdata.time >= Wanted * SlotLength

(* Power values from a row that its sender did not live to send completely *)
(* are queued by the server, which does not look at the result of the      *)
(* receive, but they are never simulated: the request that follows is the  *)
(* end of the connection.                                                  *)
TornRowsNotSimulated ==
  \A row \in torn : tdata.taken[1] < row

(* Every client ends, also one that is never accepted, and so does a       *)
(* server that accepted a client, whoever dies first.                      *)
EverybodyEnds ==
  /\ \A c \in Clients : <>At(c, "exit")
  /\ (server.peer # Nobody) ~> (server.pc = "exit")

(* A client without a limit on the slots that ends with success has        *)
(* received the all-minus-one row that it says it has received.            *)
MinusOneReceived ==
  \A c \in Clients :
    (client[c].status = "EXIT_SUCCESS" /\ args.nslots = 0) => client[c].slot + 1 = Sentinel
=============================================================================
