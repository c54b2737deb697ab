-------------------------------- MODULE Server --------------------------------
(***************************************************************************)
(* bin/3D-ICE-Server.c: a server parses a stack, builds its thermal data,  *)
(* accepts one client and serves its requests until the client leaves, the *)
(* power values are over or a simulation fails.  Clients that connect and  *)
(* are not accepted wait in the backlog of the listening socket until the  *)
(* server closes it.  The clients are in the modules that extend this one. *)
(*                                                                         *)
(* A message is a record [type, n, result, time, cut]; the fields that its *)
(* type does not use are 0 or "none".  cut marks a message whose sender    *)
(* died while writing it.  A connection carries whole messages in order    *)
(* (sources/network_socket.c reads and writes until a message is complete) *)
(* and each end may have been closed.                                      *)
(***************************************************************************)
EXTENDS ThermalModel, Sequences

CONSTANTS
  Clients,      (* client processes                                        *)
  Nobody,       (* no client                                               *)
  FilesBefore   (* whose output files may be on the disk at the start      *)

ASSUME ServerAssumption ==
  /\ Nobody \notin Clients
  /\ FilesBefore \subseteq {"nobody", "earlier_run"}

VARIABLES
  server,       (* the process: pc, peer, request, status, headers; file   *)
                (* is the output file: whose, its lines, and whether a     *)
                (* line could not be written                               *)
  conn,         (* conn[c]: the connection of client c                     *)
  torn          (* values queued from a message that was cut (history)     *)

serverVars == <<server, tdata, conn, torn>>

RequestTypes ==
  {"EXIT_SIMULATION", "RESET_THERMAL_STATE", "TOTAL_NUMBER_OF_FLOORPLAN_ELEMENTS",
   "INSERT_POWERS", "SEND_OUTPUT", "PRINT_OUTPUT", "SEND_OUTPUT_FILES",
   "SIMULATE_SLOT", "SIMULATE_STEP", "UNKNOWN"}

Message(type, n, result, time) ==
  [type |-> type, n |-> n, result |-> result, time |-> time, cut |-> FALSE]

Request(type, n) == Message(type, n, "none", 0)

-----------------------------------------------------------------------------
(* Connections                                                             *)

NotConnected == [up |-> <<>>, down |-> <<>>, client |-> FALSE, server |-> FALSE]

(* What remains of the connections when the server process is gone *)
ServerGone == [c \in Clients |-> [conn[c] EXCEPT !.server = FALSE, !.up = <<>>]]

Stop(status) ==
  /\ server' = [server EXCEPT !.pc = "exit", !.status = status]
  /\ conn' = ServerGone

(* send_message_to_socket by the server, which then goes on as next.  With *)
(* the client's end closed the message is lost, or the write raises        *)
(* SIGPIPE, which nothing in the program handles.                          *)
Answer(message, next) ==
  LET c == server.peer IN
  \/ /\ conn[c].client
     /\ conn' = [conn EXCEPT ![c].down = Append(@, message)]
     /\ server' = next
  \/ /\ ~ conn[c].client
     /\ server' = next
     /\ UNCHANGED conn
  \/ /\ ~ conn[c].client
     /\ Stop("killed")

-----------------------------------------------------------------------------
(* The process                                                             *)

ServerInit ==
  /\ \E whose \in FilesBefore :
       server = [pc |-> "start", peer |-> Nobody, request |-> Request("UNKNOWN", 0),
                 status |-> "none", headers |-> FALSE,
                 file |-> [of |-> whose, lines |-> 0, lost |-> FALSE]]
  /\ \E config \in Configs, supply \in Supplies, flow \in Flows :
       tdata = Built(config, supply, flow)
  /\ conn = [c \in Clients |-> NotConnected]
  /\ torn = {}

(* Parsing, building and opening the socket may fail, and a stack that is  *)
(* not for a transient analysis is refused                                 *)
Start ==
  /\ server.pc = "start"
  /\ \/ /\ tdata.config.analysis = "transient"
        /\ server' = [server EXCEPT !.pc = "wait"]
        /\ UNCHANGED conn
     \/ Stop("EXIT_FAILURE")
  /\ UNCHANGED <<tdata, torn>>

(* wait_for_client *)
Accept(c) ==
  /\ server.pc = "wait"
  /\ conn[c].server
  /\ \/ /\ server' = [server EXCEPT !.pc = "receive", !.peer = c]
        /\ UNCHANGED conn
     \/ Stop("EXIT_FAILURE")
  /\ UNCHANGED <<tdata, torn>>

(* Seeded fault: MessageType_t starts with TDICE_SIMULATE_SLOT *)
ReadZeroIsSlot(c) ==
  LET nothing == Request("SIMULATE_SLOT", 0) IN
  IF conn[c].up = <<>> THEN {nothing}
  ELSE LET m == Head(conn[c].up) IN
       IF m.cut THEN {nothing, m, [m EXCEPT !.n = 0]} ELSE {m}

(* What *request.MType and the content say after a receive from c whose    *)
(* result nobody looks at.  A fresh message is all zeros, and 0 is         *)
(* EXIT_SIMULATION, which is therefore what the end of the connection and  *)
(* a message cut before its type look like.                                *)
Read(c) ==
  LET nothing == Request("EXIT_SIMULATION", 0) IN
  IF conn[c].up = <<>> THEN {nothing}
  ELSE LET m == Head(conn[c].up) IN
       IF m.cut THEN {nothing, m, [m EXCEPT !.n = 0]} ELSE {m}

(* Seeded fault: the end of the connection is not noticed *)
ReceiveMessagesOnly ==
  LET c == server.peer IN
  /\ server.pc = "receive"
  /\ conn[c].up # <<>>
  /\ \E m \in Read(c) : server' = [server EXCEPT !.pc = "handle", !.request = m]
  /\ conn' = [conn EXCEPT ![c].up = IF @ = <<>> THEN @ ELSE Tail(@)]
  /\ UNCHANGED <<tdata, torn>>

Receive ==
  LET c == server.peer IN
  /\ server.pc = "receive"
  /\ conn[c].up # <<>> \/ ~ conn[c].client
  /\ \E m \in Read(c) : server' = [server EXCEPT !.pc = "handle", !.request = m]
  /\ conn' = [conn EXCEPT ![c].up = IF @ = <<>> THEN @ ELSE Tail(@)]
  /\ UNCHANGED <<tdata, torn>>

Handles(type) == server.pc = "handle" /\ server.request.type = type

NextRequest == [server EXCEPT !.pc = "receive"]

(* goto quit, goto sim_error *)
Leaving(status) == [server EXCEPT !.pc = "leave", !.status = status]

Leave ==
  /\ server.pc = "leave"
  /\ Stop(server.status)
  /\ UNCHANGED <<tdata, torn>>

Exit ==
  /\ Handles("EXIT_SIMULATION")
  /\ server' = Leaving("EXIT_SUCCESS")
  /\ UNCHANGED <<tdata, conn, torn>>

(* Seeded fault: this request is answered, too *)
ResetAnswered ==
  /\ Handles("RESET_THERMAL_STATE")
  /\ tdata' = reset_thermal_state(tdata)
  /\ Answer(Message("RESET_THERMAL_STATE", 0, "SUCCESS", 0), NextRequest)
  /\ UNCHANGED torn

(* Seeded fault: the temperatures are kept *)
ResetNothing ==
  /\ Handles("RESET_THERMAL_STATE")
  /\ server' = NextRequest
  /\ UNCHANGED <<tdata, conn, torn>>

Reset ==
  /\ Handles("RESET_THERMAL_STATE")
  /\ tdata' = reset_thermal_state(tdata)
  /\ server' = NextRequest
  /\ UNCHANGED <<conn, torn>>

NumberOfElements ==
  /\ Handles("TOTAL_NUMBER_OF_FLOORPLAN_ELEMENTS")
  /\ Answer(Message("TOTAL_NUMBER_OF_FLOORPLAN_ELEMENTS", N, "none", 0), NextRequest)
  /\ UNCHANGED <<tdata, torn>>

(* Seeded fault: the server goes on after a failure, without an answer *)
InsertPowersSkipping ==
  LET m == server.request IN
  /\ Handles("INSERT_POWERS")
  /\ tdata' = Inserted(tdata, m.n)
  /\ torn' = torn \cup IF m.cut THEN {tdata.supplied[1] + 1} ELSE {}
  /\ IF m.n < N
     THEN server' = NextRequest /\ UNCHANGED conn
     ELSE Answer(Message("INSERT_POWERS", 0, "SUCCESS", 0), NextRequest)

(* A request with too few values leaves those that did fit in the queues   *)
(* and ends the server without an answer                                   *)
InsertPowers ==
  LET m == server.request IN
  /\ Handles("INSERT_POWERS")
  /\ tdata' = Inserted(tdata, m.n)
  /\ torn' = torn \cup IF m.cut THEN {tdata.supplied[1] + 1} ELSE {}
  /\ IF m.n < N
     THEN server' = Leaving("EXIT_FAILURE") /\ UNCHANGED conn
     ELSE Answer(Message("INSERT_POWERS", 0, "SUCCESS", 0), NextRequest)

(* The time and what the temperatures were solved from.  Filling the reply *)
(* fails only for an unknown instant, which has no inspection points.      *)
SendOutput ==
  /\ Handles("SEND_OUTPUT")
  /\ Answer(Message("SEND_OUTPUT", tdata.temperatures.power[1], "none", tdata.time),
            NextRequest)
  /\ UNCHANGED <<tdata, torn>>

(* The headers are written to new files before the first output, then a  *)
(* line is appended; the server does not look at whether it could be.      *)
Written(file) ==
  { [file EXCEPT !.of = "this_run", !.lines = @ + 1], [file EXCEPT !.lost = TRUE] }

NewFile(file) == [file EXCEPT !.of = "this_run", !.lines = 0]

(* Seeded fault: the headers are written for every output *)
PrintOutputAnew ==
  /\ Handles("PRINT_OUTPUT")
  /\ \E file \in Written(NewFile(server.file)) :
       server' = [NextRequest EXCEPT !.headers = TRUE, !.file = file]
  /\ UNCHANGED <<tdata, conn, torn>>

PrintOutput ==
  LET file == IF server.headers THEN server.file ELSE NewFile(server.file) IN
  /\ Handles("PRINT_OUTPUT")
  /\ \/ \E f \in Written(file) :
          server' = [NextRequest EXCEPT !.headers = TRUE, !.file = f]
     \/ ~ server.headers /\ server' = Leaving("EXIT_FAILURE")
  /\ UNCHANGED <<tdata, conn, torn>>

(* The files that can be opened, whoever has written them *)
FilesMessage == Message("SEND_OUTPUT_FILES", server.file.lines, server.file.of, 0)

(* The message fails for too many files, or one that cannot be read *)
SendOutputFiles ==
  /\ Handles("SEND_OUTPUT_FILES")
  /\ \/ Answer(FilesMessage, NextRequest)
     \/ server' = Leaving("EXIT_FAILURE") /\ UNCHANGED conn
  /\ UNCHANGED <<tdata, torn>>

(* What the server does after answering a simulation request: goes on,     *)
(* leaves at the end of the power values, fails                            *)
After(result) ==
  IF result \in {"STEP_DONE", "SLOT_DONE"} THEN NextRequest
  ELSE IF result = "END_OF_SIMULATION" THEN Leaving("EXIT_SUCCESS")
  ELSE Leaving("EXIT_FAILURE")

BeginSlot ==
  /\ Handles("SIMULATE_SLOT")
  /\ server' = [server EXCEPT !.pc = "slot"]
  /\ UNCHANGED <<tdata, conn, torn>>

(* Seeded fault: the request is answered after the first step of the slot *)
EmulateSlotOnce ==
  /\ server.pc = "slot"
  /\ \E out \in emulate_step(tdata) :
       /\ tdata' = out.td
       /\ Answer(Message("SIMULATE_SLOT", 0,
                         IF out.result = "STEP_DONE" THEN "SLOT_DONE" ELSE out.result, 0),
                 After(out.result))
  /\ UNCHANGED torn

(* emulate_slot, one emulate_step at a time, and the answer at its end *)
EmulateSlot ==
  /\ server.pc = "slot"
  /\ \E out \in emulate_step(tdata) :
       /\ tdata' = out.td
       /\ IF out.result = "STEP_DONE"
          THEN UNCHANGED <<server, conn>>
          ELSE Answer(Message("SIMULATE_SLOT", 0, out.result, 0), After(out.result))
  /\ UNCHANGED torn

EmulateStep ==
  /\ Handles("SIMULATE_STEP")
  /\ \E out \in emulate_step(tdata) :
       /\ tdata' = out.td
       /\ Answer(Message("SIMULATE_STEP", 0, out.result, 0), After(out.result))
  /\ UNCHANGED torn

Unknown ==
  /\ Handles("UNKNOWN")
  /\ server' = NextRequest
  /\ UNCHANGED <<tdata, conn, torn>>

ServerStep ==
  \/ Start
  \/ \E c \in Clients : Accept(c)
  \/ Receive
  \/ Exit \/ Reset \/ NumberOfElements \/ InsertPowers
  \/ SendOutput \/ PrintOutput \/ SendOutputFiles
  \/ BeginSlot \/ EmulateSlot \/ EmulateStep
  \/ Unknown
  \/ Leave

(* A reply that is being written at that moment reads like one that was    *)
(* not sent or, to a receiver that ignores the failure, like a whole one   *)
ServerCrash ==
  /\ server.pc # "exit"
  /\ Stop("killed")
  /\ UNCHANGED <<tdata, torn>>
=============================================================================
