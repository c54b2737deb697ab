----------------------------- MODULE Server_proofs -----------------------------
(***************************************************************************)
(* Proofs about the server, whoever its clients are: what one of its steps *)
(* does to the process, to the simulation and to the connections.  The     *)
(* proofs about a session add what its clients do.                         *)
(***************************************************************************)
EXTENDS Server, SequenceTheorems, ThermalModel_proofs

Requests ==
  [type : RequestTypes, n : Nat, result : {"none"}, time : {0}, cut : BOOLEAN]

Owners == {"nobody", "earlier_run", "this_run"}

Replies ==
  [type : RequestTypes, n : Nat, result : SimResults \cup {"none", "SUCCESS"} \cup Owners,
   time : Nat, cut : {FALSE}]

Connection ==
  [up : Seq(Requests), down : Seq(Replies), client : BOOLEAN, server : BOOLEAN]

File == [of : Owners, lines : Nat, lost : BOOLEAN]

Process ==
  [pc : {"start", "wait", "receive", "handle", "slot", "leave", "exit"},
   peer : Clients \cup {Nobody}, request : Requests,
   status : {"none", "EXIT_SUCCESS", "EXIT_FAILURE", "killed"},
   headers : BOOLEAN, file : File]

Serving == server.pc \in {"receive", "handle", "slot"}

WellTyped == server \in Process /\ conn \in [Clients -> Connection]

(* A server that has not left works on a simulation of which no step has   *)
(* failed.                                                                 *)
ServerInv ==
  /\ WellTyped
  /\ tdata \in ThermalType
  /\ server.pc \in {"start", "wait"} => server.peer = Nobody
  /\ Serving => server.peer \in Clients
  /\ server.pc = "slot" => server.request.type = "SIMULATE_SLOT"
  /\ server.pc \notin {"start", "exit"} => tdata.config.analysis = "transient"
  /\ server.pc \notin {"leave", "exit"} => InProgress(tdata)

LEMMA InitServer == ServerInit => ServerInv
<1> SUFFICES ASSUME ServerInit PROVE ServerInv
  OBVIOUS
<1>1. PICK config \in Configs, supply \in Supplies, flow \in Flows :
        tdata = Built(config, supply, flow)
  BY DEF ServerInit
<1>2. supply \in [Elements -> Nat]
  BY ThermalAssumption
<1>3. tdata \in ThermalType /\ InProgress(tdata)
  BY <1>1, <1>2, BuiltInProgress
<1>4. server \in Process /\ server.pc = "start" /\ server.peer = Nobody
  <2>1. Request("UNKNOWN", 0) \in Requests
    BY DEF Request, Message, Requests, RequestTypes
  <2>2. PICK whose \in FilesBefore :
          server = [pc |-> "start", peer |-> Nobody, request |-> Request("UNKNOWN", 0),
                    status |-> "none", headers |-> FALSE,
                    file |-> [of |-> whose, lines |-> 0, lost |-> FALSE]]
    BY DEF ServerInit
  <2>3. [of |-> whose, lines |-> 0, lost |-> FALSE] \in File
    BY ServerAssumption DEF File, Owners
  <2> HIDE DEF Request
  <2> QED BY <2>1, <2>2, <2>3 DEF Process
<1>5. conn \in [Clients -> Connection]
  BY DEF ServerInit, NotConnected, Connection
<1> QED BY <1>3, <1>4, <1>5 DEF ServerInv, WellTyped, Serving

-----------------------------------------------------------------------------
(* Connections                                                             *)

Peer == server.peer

(* The requests that the server does not answer *)
Silent == {"EXIT_SIMULATION", "RESET_THERMAL_STATE", "PRINT_OUTPUT", "UNKNOWN"}

(* The process ends and takes its ends of the connections with it *)
Stops ==
  /\ server'.pc = "exit" /\ server'.peer = server.peer
  /\ server'.request = server.request
  /\ server'.headers = server.headers /\ server'.file = server.file
  /\ \A c \in Clients :
       /\ conn'[c].up = <<>> /\ ~ conn'[c].server
       /\ conn'[c].down = conn[c].down /\ conn'[c].client = conn[c].client

(* It turns from a request to pc, without an answer *)
Turns(pc) ==
  /\ server'.pc = pc /\ server'.peer = server.peer /\ server'.request = server.request
  /\ conn' = conn

SameFile == server'.headers = server.headers /\ server'.file = server.file

(* It has sent an answer m to its peer *)
Sends(m) ==
  /\ server'.pc \in {"receive", "leave"}
  /\ server'.peer = server.peer /\ server'.request = server.request
  /\ conn[Peer].client
  /\ conn'[Peer].down = Append(conn[Peer].down, m)
  /\ conn'[Peer].up = conn[Peer].up
  /\ conn'[Peer].client = conn[Peer].client /\ conn'[Peer].server = conn[Peer].server
  /\ \A c \in Clients \ {Peer} : conn'[c] = conn[c]

(* What remains of a queue without its head *)
LEMMA RestOf ==
  ASSUME NEW T, NEW s \in Seq(T), s # <<>>
  PROVE  /\ Len(s) \in Nat \ {0} /\ Head(s) = s[1] /\ s[1] \in T
         /\ Tail(s) \in Seq(T) /\ Len(Tail(s)) = Len(s) - 1
         /\ \A i \in 1 .. Len(s) : s[i] \in T
         /\ \A i \in 1 .. Len(s) - 1 : Tail(s)[i] = s[i + 1]
         /\ Tail(s) = <<>> <=> Len(s) = 1
<1>1. Len(s) \in Nat \ {0}
  BY EmptySeq, LenProperties
<1>2. Tail(s) \in Seq(T) /\ Len(Tail(s)) = Len(s) - 1
      /\ \A i \in 1 .. Len(Tail(s)) : Tail(s)[i] = s[i + 1]
  BY HeadTailProperties
<1>3. Tail(s) = <<>> <=> Len(Tail(s)) = 0
  BY <1>2, EmptySeq
<1>4. \A i \in 1 .. Len(s) : s[i] \in T
  BY ElementOfSeq
<1>5. Head(s) = s[1]
  OBVIOUS
<1> QED BY <1>1, <1>2, <1>3, <1>4, <1>5

LEMMA StopShape ==
  ASSUME ServerInv, NEW status \in {"none", "EXIT_SUCCESS", "EXIT_FAILURE", "killed"}, Stop(status)
  PROVE  Stops /\ WellTyped'
<1> USE DEF WellTyped
<1>1. server \in Process /\ conn \in [Clients -> Connection]
  BY DEF ServerInv
<1>2. server' \in Process /\ server'.pc = "exit" /\ server'.peer = server.peer
      /\ server'.request = server.request
      /\ server'.headers = server.headers /\ server'.file = server.file
  BY <1>1 DEF Stop, Process
<1>3. conn' = [c \in Clients |-> [conn[c] EXCEPT !.server = FALSE, !.up = <<>>]]
  BY DEF Stop, ServerGone
<1>4. <<>> \in Seq(Requests)
  OBVIOUS
<1> QED BY <1>1, <1>2, <1>3, <1>4 DEF Stops, Connection

(* send_message_to_socket: the answer is sent if the peer is there, or it  *)
(* is lost, perhaps with the server.                                       *)
LEMMA AnswerShape ==
  ASSUME ServerInv, Peer \in Clients, NEW m \in Replies,
         NEW next \in {NextRequest, Leaving("EXIT_SUCCESS"), Leaving("EXIT_FAILURE")},
         Answer(m, next)
  PROVE  /\ WellTyped'
         /\ SameFile
         /\ \/ Sends(m) /\ server'.pc = next.pc
            \/ ~ conn[Peer].client /\ Turns(next.pc)
            \/ ~ conn[Peer].client /\ Stops
<1> USE DEF WellTyped, SameFile
<1>1. server \in Process /\ conn \in [Clients -> Connection]
  BY DEF ServerInv
<1>2. /\ next \in Process /\ next.pc \in {"receive", "leave"}
      /\ next.peer = server.peer /\ next.request = server.request
      /\ next.headers = server.headers /\ next.file = server.file
  BY <1>1 DEF NextRequest, Leaving, Process
<1> HIDE DEF NextRequest, Leaving
<1>3. CASE conn[Peer].client /\ server' = next
           /\ conn' = [conn EXCEPT ![Peer].down = Append(@, m)]
  <2>1. Append(conn[Peer].down, m) \in Seq(Replies)
    BY <1>1, AppendProperties DEF Connection
  <2> QED BY <1>1, <1>2, <1>3, <2>1 DEF Sends, Connection, Peer
<1>4. CASE ~ conn[Peer].client /\ server' = next /\ conn' = conn
  BY <1>1, <1>2, <1>4 DEF Turns
<1>5. CASE ~ conn[Peer].client /\ Stop("killed")
  BY <1>5, StopShape DEF Stops
<1> QED BY <1>3, <1>4, <1>5 DEF Answer, Peer

LEMMA LeavingShape ==
  ASSUME ServerInv, NEW status \in {"EXIT_SUCCESS", "EXIT_FAILURE"},
         server' = Leaving(status), UNCHANGED conn
  PROVE  /\ WellTyped' /\ Turns("leave")
         /\ SameFile
BY DEF ServerInv, WellTyped, Process, Leaving, Turns, SameFile

LEMMA NextRequestShape ==
  ASSUME ServerInv, server' = NextRequest, UNCHANGED conn
  PROVE  /\ WellTyped' /\ Turns("receive")
         /\ SameFile
BY DEF ServerInv, WellTyped, Process, NextRequest, Turns, SameFile

-----------------------------------------------------------------------------
(* The steps of the server                                                 *)

(* What a step that emulates does, if the peer gets an answer *)
LEMMA EmulationShape ==
  ASSUME ServerInv, server.pc \in {"handle", "slot"}, NEW out \in emulate_step(tdata),
         NEW type \in RequestTypes, tdata' = out.td,
         Answer(Message(type, 0, out.result, 0), After(out.result))
  PROVE  /\ WellTyped'
         /\ tdata' \in ThermalType /\ tdata'.config = tdata.config
         /\ server'.pc = "receive" => out.result \in Done
         /\ out.result \in Done => server'.pc # "leave"
         /\ out.result \in SimResults
         /\ SameFile
         /\ Message(type, 0, out.result, 0) \in Replies
         /\ \/ Sends(Message(type, 0, out.result, 0))
            \/ ~ conn[Peer].client /\ (Turns("receive") \/ Turns("leave") \/ Stops)
<1>1. /\ tdata' \in ThermalType /\ tdata'.config = tdata.config
      /\ out.result \in SimResults
  BY EmulateStepTyped DEF ServerInv
<1>2. Message(type, 0, out.result, 0) \in Replies
  BY <1>1 DEF Message, Replies
<1>3. /\ After(out.result) \in {NextRequest, Leaving("EXIT_SUCCESS"), Leaving("EXIT_FAILURE")}
      /\ After(out.result).pc = IF out.result \in Done THEN "receive" ELSE "leave"
  BY DEF After, NextRequest, Leaving, Done, ServerInv, WellTyped, Process
<1>4. Peer \in Clients
  BY DEF ServerInv, Serving, Peer
<1> HIDE DEF Message, After
<1> QED BY <1>1, <1>2, <1>3, <1>4, AnswerShape DEF Stops, Turns

(* An answer m, sent or lost *)
MayAnswer(m) ==
  \/ Sends(m)
  \/ ~ conn[Peer].client /\ (Turns("receive") \/ Turns("leave") \/ Stops)

LEMMA Answering ==
  ASSUME ServerInv, server.pc = "handle", NEW m \in Replies,
         Answer(m, NextRequest)
  PROVE  /\ WellTyped' /\ SameFile /\ server'.pc # "leave"
         /\ MayAnswer(m)
<1>1. NextRequest.pc = "receive"
  BY DEF NextRequest, ServerInv, WellTyped, Process
<1>2. Peer \in Clients
  BY DEF ServerInv, Serving, Peer
<1> HIDE DEF NextRequest
<1> QED BY <1>1, <1>2, AnswerShape DEF MayAnswer, Stops, Turns

LEMMA StartShape ==
  ASSUME ServerInv, Start
  PROVE  /\ WellTyped' /\ SameFile /\ tdata' = tdata
         /\ \/ Turns("wait") /\ tdata.config.analysis = "transient"
            \/ Stops
<1>1. CASE tdata.config.analysis = "transient" /\ server' = [server EXCEPT !.pc = "wait"]
           /\ UNCHANGED <<conn, tdata>>
  BY <1>1 DEF ServerInv, WellTyped, Process, Turns, SameFile
<1>2. CASE Stop("EXIT_FAILURE") /\ UNCHANGED tdata
  BY <1>2, StopShape DEF Stops, WellTyped, SameFile
<1> QED BY <1>1, <1>2 DEF Start

LEMMA AcceptShape ==
  ASSUME ServerInv, NEW c \in Clients, Accept(c)
  PROVE  /\ WellTyped' /\ SameFile /\ tdata' = tdata
         /\ conn[c].server
         /\ \/ server'.pc = "receive" /\ server'.peer = c /\ conn' = conn
            \/ Stops
<1>1. CASE server' = [server EXCEPT !.pc = "receive", !.peer = c]
           /\ UNCHANGED <<conn, tdata>>
  BY <1>1 DEF Accept, ServerInv, WellTyped, Process, SameFile
<1>2. CASE Stop("EXIT_FAILURE") /\ UNCHANGED tdata
  BY <1>2, StopShape DEF Accept, Stops, WellTyped, SameFile
<1> QED BY <1>1, <1>2 DEF Accept

LEMMA LeaveShape ==
  ASSUME ServerInv, Leave
  PROVE  /\ WellTyped' /\ SameFile /\ tdata' = tdata /\ Stops
BY StopShape DEF Leave, ServerInv, WellTyped, Process, Stops, SameFile

(* A request, or what is left of it; the end of the stream reads as a      *)
(* request to exit.                                                        *)
LEMMA ReceiveShape ==
  ASSUME ServerInv, Receive
  PROVE  /\ WellTyped' /\ SameFile /\ tdata' = tdata
         /\ Peer \in Clients /\ server'.pc = "handle" /\ server'.peer = Peer
         /\ \A c \in Clients \ {Peer} : conn'[c] = conn[c]
         /\ conn'[Peer].down = conn[Peer].down
         /\ conn'[Peer].client = conn[Peer].client /\ conn'[Peer].server = conn[Peer].server
         /\ \/ /\ conn[Peer].up # <<>> /\ conn'[Peer].up = Tail(conn[Peer].up)
               /\ \/ server'.request = Head(conn[Peer].up)
                  \/ /\ Head(conn[Peer].up).cut
                     /\ \/ server'.request = Request("EXIT_SIMULATION", 0)
                        \/ server'.request = [Head(conn[Peer].up) EXCEPT !.n = 0]
            \/ /\ conn[Peer].up = <<>> /\ ~ conn[Peer].client /\ conn'[Peer].up = <<>>
               /\ server'.request = Request("EXIT_SIMULATION", 0)
<1> DEFINE c == server.peer
           up == conn[c].up
           nothing == Request("EXIT_SIMULATION", 0)
<1>1. /\ server.pc = "receive" /\ c \in Clients
      /\ server \in Process /\ conn \in [Clients -> Connection] /\ up \in Seq(Requests)
  BY DEF Receive, ServerInv, Serving, WellTyped, Connection
<1>2. nothing \in Requests
  BY DEF Request, Message, Requests, RequestTypes
<1>3. PICK m \in Read(c) : server' = [server EXCEPT !.pc = "handle", !.request = m]
  BY DEF Receive
<1>4. /\ conn' = [conn EXCEPT ![c].up = IF up = <<>> THEN up ELSE Tail(up)]
      /\ up # <<>> \/ ~ conn[c].client
      /\ tdata' = tdata
  BY DEF Receive
<1>5. /\ m \in Requests
      /\ \/ /\ up # <<>>
            /\ \/ m = Head(up)
               \/ Head(up).cut /\ (m = nothing \/ m = [Head(up) EXCEPT !.n = 0])
         \/ up = <<>> /\ m = nothing
  <2> HIDE DEF nothing
  <2>1. CASE up = <<>>
    BY <1>2, <2>1 DEF Read, nothing
  <2>2. CASE up # <<>>
    <3>1. Head(up) \in Requests
      BY <1>1, <2>2
    <3>2. [Head(up) EXCEPT !.n = 0] \in Requests
      BY <3>1 DEF Requests
    <3>3. \/ m = Head(up)
          \/ Head(up).cut /\ (m = nothing \/ m = [Head(up) EXCEPT !.n = 0])
      BY <2>2, Zenon DEF Read, nothing
    <3> QED BY <1>2, <2>2, <3>1, <3>2, <3>3
  <2> QED BY <2>1, <2>2
<1>6. /\ server' \in Process /\ server'.pc = "handle" /\ server'.peer = c
      /\ server'.request = m /\ SameFile
  BY <1>1, <1>3, <1>5 DEF Process, SameFile
<1>7. (IF up = <<>> THEN up ELSE Tail(up)) \in Seq(Requests)
  BY <1>1
<1> HIDE DEF nothing
<1>8. /\ conn' \in [Clients -> Connection]
      /\ conn'[c].up = IF up = <<>> THEN up ELSE Tail(up)
      /\ conn'[c].down = conn[c].down
      /\ conn'[c].client = conn[c].client /\ conn'[c].server = conn[c].server
      /\ \A d \in Clients \ {c} : conn'[d] = conn[d]
  BY <1>1, <1>4, <1>7 DEF Connection
<1> QED BY <1>1, <1>4, <1>5, <1>6, <1>8 DEF Peer, WellTyped, nothing

(* The requests, one by one *)

LEMMA ExitShape ==
  ASSUME ServerInv, Exit
  PROVE  WellTyped' /\ SameFile /\ tdata' = tdata /\ Turns("leave")
BY LeavingShape DEF Exit, WellTyped

LEMMA ResetShape ==
  ASSUME ServerInv, Reset
  PROVE  /\ WellTyped' /\ SameFile /\ tdata' = reset_thermal_state(tdata)
         /\ Turns("receive")
BY NextRequestShape DEF Reset, WellTyped

LEMMA UnknownShape ==
  ASSUME ServerInv, Unknown
  PROVE  WellTyped' /\ SameFile /\ tdata' = tdata /\ Turns("receive")
BY NextRequestShape DEF Unknown, WellTyped

LEMMA NumberShape ==
  ASSUME ServerInv, NumberOfElements
  PROVE  /\ WellTyped' /\ SameFile /\ tdata' = tdata /\ server'.pc # "leave"
         /\ Message("TOTAL_NUMBER_OF_FLOORPLAN_ELEMENTS", N, "none", 0) \in Replies
         /\ MayAnswer(Message("TOTAL_NUMBER_OF_FLOORPLAN_ELEMENTS", N, "none", 0))
<1> DEFINE m == Message("TOTAL_NUMBER_OF_FLOORPLAN_ELEMENTS", N, "none", 0)
<1>1. m \in Replies
  BY ThermalAssumption DEF Message, Replies, RequestTypes
<1> QED BY <1>1, Answering DEF NumberOfElements, Handles

LEMMA InsertShape ==
  ASSUME ServerInv, InsertPowers
  PROVE  /\ WellTyped' /\ SameFile /\ tdata' = Inserted(tdata, server.request.n)
         /\ server.request.n \in Nat
         /\ Message("INSERT_POWERS", 0, "SUCCESS", 0) \in Replies
         /\ \/ server.request.n < N /\ Turns("leave")
            \/ server.request.n >= N /\ server'.pc # "leave"
               /\ MayAnswer(Message("INSERT_POWERS", 0, "SUCCESS", 0))
<1> DEFINE m == Message("INSERT_POWERS", 0, "SUCCESS", 0)
<1>1. m \in Replies
  BY DEF Message, Replies, RequestTypes
<1>2. server.request.n \in Nat /\ N \in Nat
  BY ThermalAssumption DEF ServerInv, WellTyped, Process, Requests
<1>3. CASE server.request.n < N
  BY <1>1, <1>2, <1>3, LeavingShape DEF InsertPowers, WellTyped
<1>4. CASE ~ (server.request.n < N)
  BY <1>1, <1>2, <1>4, Answering DEF InsertPowers, Handles
<1> QED BY <1>3, <1>4

LEMMA OutputShape ==
  ASSUME ServerInv, SendOutput
  PROVE  /\ WellTyped' /\ SameFile /\ tdata' = tdata /\ server'.pc # "leave"
         /\ Message("SEND_OUTPUT", tdata.temperatures.power[1], "none", tdata.time) \in Replies
         /\ MayAnswer(Message("SEND_OUTPUT", tdata.temperatures.power[1], "none", tdata.time))
<1> DEFINE m == Message("SEND_OUTPUT", tdata.temperatures.power[1], "none", tdata.time)
<1>1. m \in Replies
  <2>1. 1 \in Elements
    BY ThermalAssumption DEF Elements
  <2>2. tdata.temperatures.power[1] \in Nat /\ tdata.time \in Nat
    BY <2>1 DEF ServerInv, ThermalType, TemperaturesType
  <2> QED BY <2>2 DEF Message, Replies, RequestTypes
<1> QED BY <1>1, Answering DEF SendOutput, Handles

(* A line is added to the file of this run, which the first output begins, *)
(* or it is lost; without the headers the server leaves.                   *)
LEMMA PrintShape ==
  ASSUME ServerInv, PrintOutput
  PROVE  /\ WellTyped' /\ tdata' = tdata
         /\ \/ /\ Turns("receive") /\ server'.headers
               /\ \/ server'.file.lost
                  \/ /\ server'.file.of = "this_run" /\ server'.file.lost = server.file.lost
                     /\ server'.file.lines = IF server.headers THEN server.file.lines + 1 ELSE 1
            \/ ~ server.headers /\ Turns("leave") /\ SameFile
<1> DEFINE file == IF server.headers THEN server.file ELSE NewFile(server.file)
<1>1. server \in Process /\ conn' = conn /\ tdata' = tdata
  BY DEF ServerInv, WellTyped, PrintOutput
<1>2. /\ file \in File
      /\ file.lines = IF server.headers THEN server.file.lines ELSE 0
      /\ file.lost = server.file.lost /\ file.lost \in BOOLEAN /\ file.lines \in Nat
  BY <1>1 DEF NewFile, File, Owners, Process
<1>3. ASSUME NEW f \in Written(file), server' = [NextRequest EXCEPT !.headers = TRUE, !.file = f]
      PROVE  /\ WellTyped' /\ Turns("receive") /\ server'.headers
             /\ \/ server'.file.lost
                \/ /\ server'.file.of = "this_run" /\ server'.file.lost = server.file.lost
                   /\ server'.file.lines = IF server.headers THEN server.file.lines + 1 ELSE 1
  <2> HIDE DEF file
  <2>1. /\ f \in File
        /\ \/ f.lost
           \/ f.of = "this_run" /\ f.lost = file.lost /\ f.lines = file.lines + 1
    <3>1. CASE f = [file EXCEPT !.of = "this_run", !.lines = @ + 1]
      <4>1. f.of = "this_run" /\ f.lost = file.lost /\ f.lines = file.lines + 1
        BY <1>2, <3>1 DEF File
      <4>2. file.lines + 1 \in Nat /\ "this_run" \in Owners
        BY <1>2 DEF Owners
      <4>3. f \in File
        BY <1>2, <3>1, <4>2 DEF File
      <4> QED BY <4>1, <4>3, Zenon
    <3>2. CASE f = [file EXCEPT !.lost = TRUE]
      <4>1. f.lost = TRUE /\ f \in File
        BY <1>2, <3>2 DEF File
      <4> QED BY <4>1, Zenon
    <3> QED BY <1>3, <3>1, <3>2, Zenon DEF Written
  <2>2. /\ server' \in Process /\ server'.headers /\ server'.file = f
        /\ server'.pc = "receive" /\ server'.peer = server.peer
        /\ server'.request = server.request
    <3>1. /\ NextRequest \in Process /\ NextRequest.pc = "receive"
          /\ NextRequest.peer = server.peer /\ NextRequest.request = server.request
      BY <1>1 DEF NextRequest, Process
    <3> HIDE DEF NextRequest
    <3> QED BY <1>3, <2>1, <3>1 DEF Process
  <2>3. conn' \in [Clients -> Connection]
    BY <1>1 DEF ServerInv, WellTyped
  <2>4. WellTyped' /\ Turns("receive")
    BY <1>1, <2>2, <2>3 DEF WellTyped, Turns
  <2>5. f.lines = file.lines + 1 => f.lines = IF server.headers THEN server.file.lines + 1 ELSE 1
    BY <1>2
  <2> QED BY <1>2, <2>1, <2>2, <2>4, <2>5
<1>4. CASE ~ server.headers /\ server' = Leaving("EXIT_FAILURE")
  BY <1>1, <1>4, LeavingShape DEF WellTyped
<1>5. \/ \E f \in Written(file) : server' = [NextRequest EXCEPT !.headers = TRUE, !.file = f]
      \/ ~ server.headers /\ server' = Leaving("EXIT_FAILURE")
  BY DEF PrintOutput
<1> HIDE DEF file
<1> QED BY <1>1, <1>3, <1>4, <1>5

LEMMA FilesShape ==
  ASSUME ServerInv, SendOutputFiles
  PROVE  /\ WellTyped' /\ SameFile /\ tdata' = tdata
         /\ Message("SEND_OUTPUT_FILES", server.file.lines, server.file.of, 0) \in Replies
         /\ \/ Turns("leave")
            \/ MayAnswer(Message("SEND_OUTPUT_FILES", server.file.lines, server.file.of, 0))
<1> DEFINE m == Message("SEND_OUTPUT_FILES", server.file.lines, server.file.of, 0)
<1>1. m \in Replies
  BY DEF ServerInv, WellTyped, Process, File, Message, Replies, RequestTypes
<1>2. CASE Answer(m, NextRequest)
  BY <1>1, <1>2, Answering DEF SendOutputFiles, Handles
<1>3. CASE server' = Leaving("EXIT_FAILURE") /\ UNCHANGED conn
  BY <1>1, <1>3, LeavingShape DEF SendOutputFiles
<1> QED BY <1>2, <1>3 DEF SendOutputFiles, FilesMessage

LEMMA BeginSlotShape ==
  ASSUME ServerInv, BeginSlot
  PROVE  WellTyped' /\ SameFile /\ tdata' = tdata /\ Turns("slot")
BY DEF BeginSlot, ServerInv, WellTyped, Process, Turns, SameFile

(* A step that is not the last of its slot, or the last and the answer *)
LEMMA EmulateSlotShape ==
  ASSUME ServerInv, EmulateSlot
  PROVE  \E out \in emulate_step(tdata) :
           /\ tdata' = out.td
           /\ WellTyped' /\ SameFile
           /\ \/ out.result = "STEP_DONE" /\ server' = server /\ conn' = conn
              \/ /\ out.result # "STEP_DONE"
                 /\ server'.pc = "receive" => out.result \in Done
                 /\ out.result \in Done => server'.pc # "leave"
                 /\ out.result \in SimResults
                 /\ Message("SIMULATE_SLOT", 0, out.result, 0) \in Replies
                 /\ MayAnswer(Message("SIMULATE_SLOT", 0, out.result, 0))
<1>1. PICK out \in emulate_step(tdata) :
        /\ tdata' = out.td
        /\ IF out.result = "STEP_DONE"
           THEN UNCHANGED <<server, conn>>
           ELSE Answer(Message("SIMULATE_SLOT", 0, out.result, 0), After(out.result))
  BY DEF EmulateSlot
<1>2. server.pc = "slot" /\ "SIMULATE_SLOT" \in RequestTypes
  BY DEF EmulateSlot, RequestTypes
<1>3. CASE out.result = "STEP_DONE"
  BY <1>1, <1>3 DEF ServerInv, WellTyped, SameFile
<1>4. CASE out.result # "STEP_DONE"
  BY <1>1, <1>2, <1>4, EmulationShape DEF MayAnswer
<1> QED BY <1>1, <1>3, <1>4

LEMMA EmulateStepShape ==
  ASSUME ServerInv, EmulateStep
  PROVE  \E out \in emulate_step(tdata) :
           /\ tdata' = out.td
           /\ WellTyped' /\ SameFile
           /\ server'.pc = "receive" => out.result \in Done
           /\ out.result \in Done => server'.pc # "leave"
           /\ out.result \in SimResults
           /\ Message("SIMULATE_STEP", 0, out.result, 0) \in Replies
           /\ MayAnswer(Message("SIMULATE_STEP", 0, out.result, 0))
<1>1. PICK out \in emulate_step(tdata) :
        /\ tdata' = out.td
        /\ Answer(Message("SIMULATE_STEP", 0, out.result, 0), After(out.result))
  BY DEF EmulateStep
<1>2. server.pc = "handle" /\ "SIMULATE_STEP" \in RequestTypes
  BY DEF EmulateStep, Handles, RequestTypes
<1> QED BY <1>1, <1>2, EmulationShape DEF MayAnswer

-----------------------------------------------------------------------------
(* The invariant                                                           *)

(* How a step that serves a request may end *)
Served ==
  \/ Stops
  \/ Turns("leave") \/ Turns("receive")
  \/ \E m \in Replies : Sends(m)

LEMMA ServedKeeps ==
  ASSUME ServerInv, Serving, WellTyped', Served,
         tdata' \in ThermalType, tdata'.config = tdata.config,
         server'.pc = "receive" => InProgress(tdata')
  PROVE  ServerInv'
<1>1. server'.peer \in Clients /\ server'.pc \in {"receive", "leave", "exit"}
  BY DEF ServerInv, Served, Stops, Turns, Sends
<1>2. tdata.config.analysis = "transient"
  BY DEF ServerInv, Serving
<1> QED BY <1>1, <1>2 DEF ServerInv, Serving

LEMMA StopKeeps ==
  ASSUME ServerInv, WellTyped', Stops, tdata' = tdata
  PROVE  ServerInv'
BY DEF ServerInv, Stops, Serving

LEMMA ServerCrashKeeps ==
  ASSUME ServerInv, ServerCrash
  PROVE  ServerInv' /\ Stops
<1>1. Stops /\ WellTyped' /\ tdata' = tdata
  BY StopShape DEF ServerCrash, WellTyped
<1> QED BY <1>1, StopKeeps

LEMMA ServerKeeps ==
  ASSUME ServerInv, ServerStep
  PROVE  ServerInv'
<1>1. CASE Start
  BY <1>1, StartShape, StopKeeps DEF ServerInv, Turns, Serving, Start
<1>2. ASSUME NEW c \in Clients, Accept(c) PROVE ServerInv'
  BY <1>2, AcceptShape, StopKeeps DEF ServerInv, Serving, Accept
<1>3. CASE Receive
  BY <1>3, ReceiveShape DEF ServerInv, Serving, Receive
<1>4. CASE Exit \/ Reset \/ NumberOfElements \/ InsertPowers \/ SendOutput
           \/ PrintOutput \/ SendOutputFiles \/ Unknown
  <2>1. server.pc = "handle" /\ Serving
    BY <1>4 DEF Exit, Reset, NumberOfElements, InsertPowers, SendOutput, PrintOutput,
                SendOutputFiles, Unknown, Handles, Serving
  <2>2. tdata \in ThermalType /\ InProgress(tdata)
    BY <2>1 DEF ServerInv
  <2>3. CASE Exit
    BY <2>1, <2>2, <2>3, ExitShape, ServedKeeps DEF Served
  <2>4. CASE Reset
    BY <2>1, <2>2, <2>4, ResetShape, ResetInProgress, ServedKeeps DEF Served
  <2>5. CASE NumberOfElements
    BY <2>1, <2>2, <2>5, NumberShape, ServedKeeps DEF Served, MayAnswer
  <2>6. CASE InsertPowers
    BY <2>1, <2>2, <2>6, InsertShape, InsertedInProgress, ServedKeeps DEF Served, MayAnswer
  <2>7. CASE SendOutput
    BY <2>1, <2>2, <2>7, OutputShape, ServedKeeps DEF Served, MayAnswer
  <2>8. CASE PrintOutput
    BY <2>1, <2>2, <2>8, PrintShape, ServedKeeps DEF Served
  <2>9. CASE SendOutputFiles
    BY <2>1, <2>2, <2>9, FilesShape, ServedKeeps DEF Served, MayAnswer
  <2>10. CASE Unknown
    BY <2>1, <2>2, <2>10, UnknownShape, ServedKeeps DEF Served
  <2> QED BY <1>4, <2>3, <2>4, <2>5, <2>6, <2>7, <2>8, <2>9, <2>10
<1>5. CASE BeginSlot
  BY <1>5, BeginSlotShape DEF ServerInv, Serving, Turns, BeginSlot, Handles
<1>6. CASE EmulateSlot
  <2>1. PICK out \in emulate_step(tdata) :
          /\ tdata' = out.td
          /\ WellTyped' /\ SameFile
          /\ \/ out.result = "STEP_DONE" /\ server' = server /\ conn' = conn
             \/ /\ out.result # "STEP_DONE"
                /\ server'.pc = "receive" => out.result \in Done
                /\ Message("SIMULATE_SLOT", 0, out.result, 0) \in Replies
                /\ MayAnswer(Message("SIMULATE_SLOT", 0, out.result, 0))
    BY <1>6, EmulateSlotShape
  <2>2. server.pc = "slot" /\ Serving /\ tdata \in ThermalType /\ InProgress(tdata)
        /\ tdata.config.analysis = "transient"
    BY <1>6 DEF EmulateSlot, ServerInv, Serving
  <2>3. /\ tdata' \in ThermalType /\ tdata'.config = tdata.config
        /\ out.result \in Done => InProgress(tdata')
    BY <2>1, <2>2, EmulateStepTyped, EmulatedInProgress
  <2> HIDE DEF Message
  <2>4. CASE out.result = "STEP_DONE"
    BY <2>1, <2>2, <2>3, <2>4 DEF ServerInv, Serving, Done
  <2>5. CASE out.result # "STEP_DONE"
    BY <2>1, <2>2, <2>3, <2>5, ServedKeeps DEF Served, MayAnswer
  <2> QED BY <2>4, <2>5
<1>7. CASE EmulateStep
  <2>1. PICK out \in emulate_step(tdata) :
          /\ tdata' = out.td
          /\ WellTyped' /\ SameFile
          /\ server'.pc = "receive" => out.result \in Done
          /\ Message("SIMULATE_STEP", 0, out.result, 0) \in Replies
          /\ MayAnswer(Message("SIMULATE_STEP", 0, out.result, 0))
    BY <1>7, EmulateStepShape
  <2>2. server.pc = "handle" /\ Serving /\ tdata \in ThermalType /\ InProgress(tdata)
        /\ tdata.config.analysis = "transient"
    BY <1>7 DEF EmulateStep, Handles, ServerInv, Serving
  <2>3. /\ tdata' \in ThermalType /\ tdata'.config = tdata.config
        /\ out.result \in Done => InProgress(tdata')
    BY <2>1, <2>2, EmulateStepTyped, EmulatedInProgress
  <2> HIDE DEF Message
  <2> QED BY <2>1, <2>2, <2>3, ServedKeeps DEF Served, MayAnswer
<1>8. CASE Leave
  BY <1>8, LeaveShape, StopKeeps
<1> QED BY <1>1, <1>2, <1>3, <1>4, <1>5, <1>6, <1>7, <1>8 DEF ServerStep

-----------------------------------------------------------------------------
(* What the clients see of a step                                          *)

ServerEffect ==
  \/ Stops
  \/ server.pc = "start" /\ Turns("wait")
  \/ server.pc = "wait" /\ \E c \in Clients :
       conn[c].server /\ server'.pc = "receive" /\ server'.peer = c /\ conn' = conn
  \/ Receive
  \/ server.pc \in {"handle", "slot"} /\ Turns("leave")
  \/ /\ server.pc \in {"handle", "slot"} /\ Turns("receive")
     /\ server.request.type \in Silent \/ ~ conn[Peer].client
  \/ server.pc = "handle" /\ server.request.type = "SIMULATE_SLOT" /\ Turns("slot")
  \/ /\ server.pc \in {"handle", "slot"} /\ server.request.type \notin Silent
     /\ \E m \in Replies : m.type = server.request.type /\ Sends(m)
  \/ server' = server /\ conn' = conn

LEMMA MayAnswerEffect ==
  ASSUME server.pc \in {"handle", "slot"}, NEW m \in Replies, MayAnswer(m),
         m.type = server.request.type, m.type \notin Silent
  PROVE  ServerEffect
BY DEF MayAnswer, ServerEffect

LEMMA ServerEffects ==
  ASSUME ServerInv, ServerStep
  PROVE  ServerEffect
<1>1. CASE Start
  BY <1>1, StartShape DEF ServerEffect, Start
<1>2. ASSUME NEW c \in Clients, Accept(c) PROVE ServerEffect
  BY <1>2, AcceptShape DEF ServerEffect, Accept
<1>3. CASE Receive
  BY <1>3 DEF ServerEffect
<1>4. CASE Exit
  BY <1>4, ExitShape DEF ServerEffect, Exit, Handles
<1>5. CASE Reset
  BY <1>5, ResetShape DEF ServerEffect, Reset, Handles, Silent
<1>6. CASE Unknown
  BY <1>6, UnknownShape DEF ServerEffect, Unknown, Handles, Silent
<1>7. CASE PrintOutput
  BY <1>7, PrintShape DEF ServerEffect, PrintOutput, Handles, Silent
<1>8. CASE BeginSlot
  BY <1>8, BeginSlotShape DEF ServerEffect, BeginSlot, Handles
<1>9. CASE Leave
  BY <1>9, LeaveShape DEF ServerEffect
<1>10. CASE NumberOfElements
  <2>1. /\ server.pc = "handle"
        /\ server.request.type = "TOTAL_NUMBER_OF_FLOORPLAN_ELEMENTS"
    BY <1>10 DEF NumberOfElements, Handles
  <2> QED BY <1>10, <2>1, NumberShape, MayAnswerEffect DEF Message, Silent
<1>11. CASE InsertPowers
  <2>1. server.pc = "handle" /\ server.request.type = "INSERT_POWERS"
    BY <1>11 DEF InsertPowers, Handles
  <2>2. CASE Turns("leave")
    BY <2>1, <2>2 DEF ServerEffect
  <2> QED BY <1>11, <2>1, <2>2, InsertShape, MayAnswerEffect DEF Message, Silent
<1>12. CASE SendOutput
  <2>1. server.pc = "handle" /\ server.request.type = "SEND_OUTPUT"
    BY <1>12 DEF SendOutput, Handles
  <2> QED BY <1>12, <2>1, OutputShape, MayAnswerEffect DEF Message, Silent
<1>13. CASE SendOutputFiles
  <2>1. server.pc = "handle" /\ server.request.type = "SEND_OUTPUT_FILES"
    BY <1>13 DEF SendOutputFiles, Handles
  <2>2. CASE Turns("leave")
    BY <2>1, <2>2 DEF ServerEffect
  <2> QED BY <1>13, <2>1, <2>2, FilesShape, MayAnswerEffect DEF Message, Silent
<1>14. CASE EmulateSlot
  <2>1. server.pc = "slot" /\ server.request.type = "SIMULATE_SLOT"
    BY <1>14 DEF EmulateSlot, ServerInv
  <2>2. CASE server' = server /\ conn' = conn
    BY <2>2 DEF ServerEffect
  <2> QED BY <1>14, <2>1, <2>2, EmulateSlotShape, MayAnswerEffect DEF Message, Silent
<1>15. CASE EmulateStep
  <2>1. server.pc = "handle" /\ server.request.type = "SIMULATE_STEP"
    BY <1>15 DEF EmulateStep, Handles
  <2> QED BY <1>15, <2>1, EmulateStepShape, MayAnswerEffect DEF Message, Silent
<1> QED BY <1>1, <1>2, <1>3, <1>4, <1>5, <1>6, <1>7, <1>8, <1>9, <1>10, <1>11, <1>12,
           <1>13, <1>14, <1>15 DEF ServerStep
=============================================================================
