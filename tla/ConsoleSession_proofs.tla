------------------------ MODULE ConsoleSession_proofs ------------------------
(***************************************************************************)
(* Proofs about the console client against the server, for every stack,    *)
(* any number of clients, any command lines and trace file, and any of the *)
(* processes crashing.                                                     *)
(***************************************************************************)
EXTENDS ConsoleSession, Server_proofs

(* Between two requests, and between a request and its answer *)
Idle == {"elements", "slots", "simulate", "output", "finish"}

Waiting == {"elements?", "inserted?", "simulated?", "output?"}

ClientType ==
  [pc : {"connect", "close", "exit"} \cup Idle \cup Waiting,
   slot : Nat, nflpel : Nat, output : 0 .. 6,
   answer : [slot : Nat, time : Nat, row : Nat],
   status : {"none", "EXIT_SUCCESS", "EXIT_FAILURE", "killed"}]

-----------------------------------------------------------------------------
(* The protocol                                                            *)

(* The types that the last request of c may have *)
Asked(c) == IF At(c, "close") THEN {"EXIT_SIMULATION"} ELSE Expected(c)

(* The server is at a request of c *)
Handling(c) == server.peer = c /\ server.pc \in {"handle", "slot"}

(* Where it is: nowhere, on its way, with the server, answered, or lost    *)
(* with the server                                                         *)
Quiet(c) == conn[c].up = <<>> /\ conn[c].down = <<>> /\ ~ Handling(c)

Queued(c) ==
  /\ Len(conn[c].up) = 1 /\ conn[c].up[1].type \in Asked(c)
  /\ conn[c].down = <<>> /\ ~ Handling(c)

InHand(c) ==
  /\ Handling(c) /\ server.request.type \in Asked(c)
  /\ conn[c].up = <<>> /\ conn[c].down = <<>>

Replied(c) ==
  /\ server.peer = c /\ ~ Handling(c)
  /\ conn[c].up = <<>>
  /\ Len(conn[c].down) = 1 /\ conn[c].down[1].type \in Asked(c)

Lost(c) ==
  server.pc \in {"leave", "exit"} /\ conn[c].up = <<>> /\ conn[c].down = <<>>

LinkInv(c) ==
  /\ At(c, "connect") => ~ conn[c].server /\ server.peer # c
  /\ conn[c].client <=> client[c].pc \notin {"connect", "exit"}
  /\ ~ conn[c].client => conn[c].down = <<>>
  /\ conn[c].client /\ ~ conn[c].server => server.pc = "exit"
  /\ server.pc = "exit" => ~ conn[c].server
  /\ ~ conn[c].server => conn[c].up = <<>>
  /\ client[c].pc \in Idle => Quiet(c)
  /\ client[c].pc \in Waiting => Queued(c) \/ InHand(c) \/ Replied(c) \/ Lost(c)
  /\ At(c, "close") => Quiet(c) \/ Queued(c) \/ InHand(c)
  /\ At(c, "exit") => conn[c].up = <<>> \/ (Len(conn[c].up) = 1 /\ ~ Handling(c))
  /\ conn[c].up # <<>> /\ conn[c].up[1].cut =>
       ~ conn[c].client /\ conn[c].up[1].type = "INSERT_POWERS"
  /\ Handling(c) /\ server.request.cut =>
       ~ conn[c].client /\ server.request.type = "INSERT_POWERS"

ProtocolInv ==
  /\ ServerInv
  /\ client \in [Clients -> ClientType] /\ args \in CommandLine /\ trace \in Nat
  /\ \A c \in Clients : LinkInv(c)

LEMMA InitProtocol == Init => ProtocolInv
<1> SUFFICES ASSUME Init PROVE ProtocolInv
  OBVIOUS
<1>1. ServerInv /\ server.pc = "start" /\ server.peer = Nobody
  <2>1. PICK whose \in FilesBefore :
          server = [pc |-> "start", peer |-> Nobody, request |-> Request("UNKNOWN", 0),
                    status |-> "none", headers |-> FALSE,
                    file |-> [of |-> whose, lines |-> 0, lost |-> FALSE]]
    BY DEF Init, ServerInit
  <2> HIDE DEF Request
  <2> QED BY <2>1, InitServer DEF Init
<1> DEFINE fresh == [pc |-> "connect", slot |-> 0, nflpel |-> 0, output |-> 0,
                     answer |-> NoAnswer, status |-> "none"]
<1>2. client = [c \in Clients |-> fresh] /\ conn = [c \in Clients |-> NotConnected]
  BY DEF Init, ServerInit
<1>3. fresh \in ClientType /\ fresh.pc = "connect"
  BY DEF ClientType, NoAnswer
<1>4. args \in CommandLine /\ trace \in Nat
  BY ConsoleAssumption DEF Init
<1> HIDE DEF fresh
<1>5. ASSUME NEW c \in Clients PROVE LinkInv(c)
  <2>1. client[c].pc = "connect" /\ conn[c] = NotConnected /\ c # Nobody
    BY <1>2, <1>3, ServerAssumption
  <2> QED BY <1>1, <2>1 DEF LinkInv, At, NotConnected, Handling, Idle, Waiting
<1> QED BY <1>1, <1>2, <1>3, <1>4, <1>5 DEF ProtocolInv

(* The types that a proof about client c and its connection needs *)
LEMMA LinkTypes ==
  ASSUME ProtocolInv, NEW c \in Clients
  PROVE  /\ server \in Process /\ c # Nobody
         /\ conn[c] \in Connection /\ client[c] \in ClientType
         /\ conn \in [Clients -> Connection] /\ client \in [Clients -> ClientType]
         /\ LinkInv(c)
         /\ conn[c].up \in Seq(Requests) /\ conn[c].down \in Seq(Replies)
         /\ conn[c].client \in BOOLEAN /\ conn[c].server \in BOOLEAN
         /\ client[c].pc \in {"connect", "close", "exit"} \cup Idle \cup Waiting
BY ServerAssumption DEF ProtocolInv, ServerInv, WellTyped, Connection, ClientType

(* A queue holds one request at most *)
LEMMA OneQueued ==
  ASSUME ProtocolInv, NEW c \in Clients, conn[c].up # <<>>
  PROVE  /\ Len(conn[c].up) = 1 /\ ~ Handling(c) /\ conn[c].server
         /\ conn[c].up[1] \in Requests /\ Head(conn[c].up) = conn[c].up[1]
         /\ Tail(conn[c].up) = <<>>
         /\ client[c].pc \in {"close", "exit"} \cup Waiting
         /\ ~ At(c, "exit") => /\ conn[c].down = <<>> /\ conn[c].up[1].type \in Asked(c)
                               /\ ~ conn[c].up[1].cut
<1>1. /\ LinkInv(c) /\ conn[c].up \in Seq(Requests)
      /\ client[c].pc \in {"connect", "close", "exit"} \cup Idle \cup Waiting
  BY LinkTypes
<1>2. client[c].pc \notin Idle /\ ~ At(c, "connect") /\ conn[c].server
  BY <1>1 DEF LinkInv, Quiet
<1>3. Len(conn[c].up) = 1 /\ ~ Handling(c)
  BY <1>1, <1>2 DEF LinkInv, At, Quiet, Queued, InHand, Replied, Lost
<1>4. ~ At(c, "exit") => /\ conn[c].down = <<>> /\ conn[c].up[1].type \in Asked(c)
                         /\ ~ conn[c].up[1].cut
  BY <1>1, <1>2 DEF LinkInv, At, Quiet, Queued, InHand, Replied, Lost
<1> QED BY <1>1, <1>2, <1>3, <1>4, RestOf DEF At

(* Between requests, and while the server is at one *)
LEMMA NoneQueued ==
  ASSUME ProtocolInv, NEW c \in Clients, Handling(c), ~ At(c, "exit")
  PROVE  /\ client[c].pc \in {"close"} \cup Waiting
         /\ InHand(c) /\ ~ server.request.cut /\ conn[c].client
<1>1. /\ LinkInv(c) /\ server.peer = c /\ server.pc \in {"handle", "slot"}
      /\ client[c].pc \in {"connect", "close", "exit"} \cup Idle \cup Waiting
  BY LinkTypes DEF Handling
<1>2. client[c].pc \in {"close"} \cup Waiting
  BY <1>1 DEF LinkInv, Quiet, At
<1> QED BY <1>1, <1>2 DEF LinkInv, At, Quiet, Queued, Replied, Lost, Waiting, Idle

(* The server's end *)

LEMMA StopLink ==
  ASSUME ProtocolInv, Stops, UNCHANGED client, NEW c \in Clients
  PROVE  LinkInv(c)'
<1>1. /\ LinkInv(c) /\ conn[c].down \in Seq(Replies)
      /\ server'.pc = "exit" /\ server'.peer = server.peer
      /\ conn'[c].up = <<>> /\ ~ conn'[c].server
      /\ conn'[c].down = conn[c].down /\ conn'[c].client = conn[c].client
      /\ client'[c] = client[c]
  BY LinkTypes DEF Stops
<1>2. ~ Handling(c)'
  BY <1>1 DEF Handling
<1>3. client[c].pc \in Waiting => Lost(c)' \/ Replied(c)'
  BY <1>1, <1>2 DEF LinkInv, Queued, InHand, Replied, Lost, Asked, Expected, At
<1>4. client[c].pc \in Idle \cup {"close"} => Quiet(c)'
  BY <1>1, <1>2 DEF LinkInv, Quiet, Queued, InHand, At
<1> QED BY <1>1, <1>2, <1>3, <1>4 DEF LinkInv, At

LEMMA TurnLink ==
  ASSUME ProtocolInv, UNCHANGED client, NEW c \in Clients,
         \/ server.pc = "start" /\ Turns("wait")
         \/ server.pc \in {"handle", "slot"} /\ Turns("leave")
         \/ /\ server.pc \in {"handle", "slot"} /\ Turns("receive")
            /\ server.request.type \in Silent \/ ~ conn[Peer].client
         \/ server.pc = "handle" /\ server.request.type = "SIMULATE_SLOT" /\ Turns("slot")
  PROVE  LinkInv(c)'
<1>1. /\ LinkInv(c)
      /\ conn'[c] = conn[c] /\ client'[c] = client[c]
      /\ server'.peer = server.peer /\ server'.request = server.request
      /\ server.pc \notin {"leave", "exit"} /\ server'.pc # "exit"
  BY LinkTypes DEF Turns
<1>2. /\ Handling(c)' => Handling(c)
      /\ Handling(c) /\ ~ Handling(c)' =>
           server'.pc = "leave" \/ server.request.type \in Silent \/ ~ conn[c].client
  BY <1>1 DEF Handling, Turns, Peer
<1>3. Asked(c)' = Asked(c) /\ (client[c].pc \in Waiting => Asked(c) \cap Silent = {})
  BY <1>1 DEF Asked, Expected, At, Waiting, Silent
<1>4. client[c].pc \in Waiting => Queued(c)' \/ InHand(c)' \/ Replied(c)' \/ Lost(c)'
  <2>1. ASSUME client[c].pc \in Waiting, InHand(c), ~ Handling(c)'
        PROVE  server'.pc = "leave"
    <3>1. conn[c].client
      BY <1>1, <2>1 DEF LinkInv, Waiting
    <3> QED BY <1>2, <1>3, <2>1, <3>1 DEF InHand
  <2>2. CASE client[c].pc \in Waiting /\ InHand(c)
    BY <1>1, <1>3, <2>1, <2>2 DEF InHand, Lost
  <2>3. CASE client[c].pc \in Waiting /\ (Queued(c) \/ Replied(c))
    BY <1>1, <1>2, <1>3, <2>3 DEF Queued, Replied
  <2> QED BY <1>1, <2>2, <2>3 DEF LinkInv, Lost
<1>5. At(c, "close") => Quiet(c)' \/ Queued(c)' \/ InHand(c)'
  BY <1>1, <1>2, <1>3 DEF LinkInv, Quiet, Queued, InHand
<1>6. client[c].pc \in Idle => Quiet(c)'
  BY <1>1, <1>2 DEF LinkInv, Quiet
<1> QED BY <1>1, <1>2, <1>4, <1>5, <1>6 DEF LinkInv, At

LEMMA AcceptLink ==
  ASSUME ProtocolInv, UNCHANGED client, NEW c \in Clients, server.pc = "wait",
         NEW d \in Clients,
         conn[d].server, server'.pc = "receive", server'.peer = d, conn' = conn
  PROVE  LinkInv(c)'
<1>1. /\ LinkInv(c) /\ conn'[c] = conn[c] /\ client'[c] = client[c]
      /\ server.peer = Nobody /\ c # Nobody
  BY LinkTypes DEF ProtocolInv, ServerInv
<1>2. ~ Handling(c)' /\ ~ Handling(c) /\ ~ Replied(c) /\ ~ Lost(c) /\ ~ InHand(c)
  BY <1>1 DEF Handling, Replied, Lost, InHand
<1>3. Queued(c) => Queued(c)'
  BY <1>1, <1>2 DEF Queued, Asked, Expected, At
<1>4. Quiet(c) => Quiet(c)'
  BY <1>1, <1>2 DEF Quiet
<1> QED BY <1>1, <1>2, <1>3, <1>4 DEF LinkInv, At

LEMMA SendsLink ==
  ASSUME ProtocolInv, UNCHANGED client, NEW c \in Clients,
         server.pc \in {"handle", "slot"}, server.request.type \notin Silent,
         NEW m \in Replies, m.type = server.request.type, Sends(m)
  PROVE  LinkInv(c)'
<1>1. /\ LinkInv(c) /\ client'[c] = client[c] /\ server'.peer = server.peer
      /\ server'.pc \in {"receive", "leave"}
      /\ Asked(c)' = Asked(c)
  BY LinkTypes DEF Sends, Asked, Expected, At
<1>2. ~ Handling(c)'
  BY <1>1 DEF Handling
<1>3. CASE c = server.peer
  <2>1. Handling(c) /\ conn[c].client /\ ~ At(c, "exit")
    BY <1>1, <1>3 DEF Handling, Sends, Peer, LinkInv, At
  <2>2. InHand(c) /\ client[c].pc \in {"close"} \cup Waiting
    BY <2>1, NoneQueued
  <2>3. client[c].pc \in Waiting
    BY <2>2 DEF InHand, Asked, At, Silent
  <2>4. /\ conn'[c].down = <<m>> /\ conn'[c].up = <<>>
        /\ conn'[c].client = conn[c].client /\ conn'[c].server = conn[c].server
    <3>1. Append(<<>>, m) = <<m>>
      OBVIOUS
    <3> QED BY <1>3, <2>2, <3>1 DEF Sends, Peer, InHand
  <2>5. Replied(c)'
    BY <1>1, <1>2, <1>3, <2>2, <2>4 DEF Replied, InHand
  <2> QED BY <1>1, <1>2, <2>1, <2>3, <2>4, <2>5 DEF LinkInv, At, Waiting, Idle
<1>4. CASE c # server.peer
  <2>1. conn'[c] = conn[c] /\ ~ Handling(c) /\ ~ Lost(c) /\ ~ Replied(c) /\ ~ InHand(c)
    BY <1>4 DEF Sends, Peer, Handling, Lost, Replied, InHand
  <2>2. Queued(c) => Queued(c)'
    BY <1>1, <1>2, <2>1 DEF Queued
  <2>3. Quiet(c) => Quiet(c)'
    BY <1>2, <2>1 DEF Quiet
  <2> QED BY <1>1, <1>2, <2>1, <2>2, <2>3 DEF LinkInv, At
<1> QED BY <1>3, <1>4

LEMMA ReceiveLink ==
  ASSUME ProtocolInv, UNCHANGED client, Receive, NEW c \in Clients
  PROVE  LinkInv(c)'
<1>1. /\ LinkInv(c) /\ client'[c] = client[c] /\ server.pc = "receive"
      /\ server'.pc = "handle" /\ server'.peer = server.peer /\ server.peer \in Clients
      /\ Asked(c)' = Asked(c) /\ ~ Handling(c)
      /\ client[c].pc \in {"connect", "close", "exit"} \cup Idle \cup Waiting
  BY LinkTypes, ReceiveShape
  DEF ProtocolInv, Peer, Receive, Asked, Expected, At, Handling
<1>2. CASE c # server.peer
  <2>1. conn'[c] = conn[c] /\ ~ Handling(c)' /\ ~ Lost(c) /\ ~ Replied(c) /\ ~ InHand(c)
    BY <1>1, <1>2, ReceiveShape DEF Peer, Handling, ProtocolInv, Lost, Replied, InHand
  <2>2. Queued(c) => Queued(c)'
    BY <1>1, <2>1 DEF Queued
  <2>3. Quiet(c) => Quiet(c)'
    BY <1>1, <2>1 DEF Quiet
  <2> QED BY <1>1, <2>1, <2>2, <2>3 DEF LinkInv, At
<1>3. CASE c = server.peer /\ conn[c].up # <<>>
  <2>1. /\ conn[c].up[1] \in Requests /\ Head(conn[c].up) = conn[c].up[1]
        /\ Tail(conn[c].up) = <<>> /\ conn[c].server
        /\ client[c].pc \in {"close", "exit"} \cup Waiting
        /\ ~ At(c, "exit") => /\ conn[c].down = <<>> /\ conn[c].up[1].type \in Asked(c)
                              /\ ~ conn[c].up[1].cut
    BY <1>3, OneQueued
  <2>2. /\ conn'[c].up = <<>> /\ conn'[c].down = conn[c].down
        /\ conn'[c].client = conn[c].client /\ conn'[c].server = conn[c].server
        /\ Handling(c)'
        /\ \/ server'.request = conn[c].up[1]
           \/ /\ conn[c].up[1].cut
              /\ \/ server'.request = Request("EXIT_SIMULATION", 0)
                 \/ server'.request = [conn[c].up[1] EXCEPT !.n = 0]
    BY <1>1, <1>3, <2>1, ReceiveShape DEF Peer, ProtocolInv, Handling
  <2>3. server'.request.cut => ~ conn'[c].client /\ server'.request.type = "INSERT_POWERS"
    <3>1. CASE server'.request = conn[c].up[1]
      BY <1>1, <1>3, <2>2, <3>1 DEF LinkInv
    <3>2. CASE server'.request = [conn[c].up[1] EXCEPT !.n = 0] /\ conn[c].up[1].cut
      <4>1. server'.request.type = conn[c].up[1].type
        BY <2>1, <3>2 DEF Requests
      <4> QED BY <1>1, <1>3, <2>2, <3>2, <4>1 DEF LinkInv
    <3>3. CASE server'.request = Request("EXIT_SIMULATION", 0)
      BY <3>3 DEF Request, Message
    <3> QED BY <2>2, <3>1, <3>2, <3>3
  <2>4. ~ At(c, "exit") => InHand(c)'
    BY <1>1, <2>1, <2>2 DEF InHand
  <2> QED BY <1>1, <2>1, <2>2, <2>3, <2>4 DEF LinkInv, At, Waiting, Idle
<1>4. CASE c = server.peer /\ conn[c].up = <<>>
  <2>1. /\ conn'[c].up = <<>> /\ ~ conn[c].client /\ conn'[c].client = conn[c].client
        /\ conn'[c].down = conn[c].down /\ conn'[c].server = conn[c].server
        /\ ~ server'.request.cut
    BY <1>1, <1>4, ReceiveShape DEF Peer, Request, Message, ProtocolInv
  <2>2. At(c, "exit")
    BY <1>1, <1>4, <2>1 DEF LinkInv, At
  <2> QED BY <1>1, <2>1, <2>2 DEF LinkInv, At, Waiting, Idle
<1> QED BY <1>2, <1>3, <1>4

LEMMA ServerProtocol ==
  ASSUME ProtocolInv, ServerStep \/ ServerCrash, UNCHANGED <<args, client, trace>>
  PROVE  ProtocolInv'
<1>1. ServerInv' /\ ServerEffect
  BY ServerKeeps, ServerEffects, ServerCrashKeeps DEF ProtocolInv, ServerEffect
<1>2. client' \in [Clients -> ClientType] /\ args' \in CommandLine /\ trace' \in Nat
  BY DEF ProtocolInv
<1>3. ASSUME NEW c \in Clients PROVE LinkInv(c)'
  <2>1. CASE server' = server /\ conn' = conn
    <3>1. LinkInv(c) /\ UNCHANGED <<server, conn, client>>
      BY <2>1, LinkTypes
    <3> QED BY <3>1 DEF LinkInv, At, Quiet, Queued, InHand, Replied, Lost, Handling,
                        Asked, Expected
  <2> QED BY <1>1, <2>1, StopLink, TurnLink, AcceptLink, SendsLink, ReceiveLink DEF ServerEffect
<1> QED BY <1>1, <1>2, <1>3 DEF ProtocolInv

(* The client's end *)

Elsewhere(c) ==
  \A d \in Clients \ {c} : conn'[d] = conn[d] /\ client'[d] = client[d]

ClientTyped == conn' \in [Clients -> Connection] /\ client' \in [Clients -> ClientType]

(* Client c goes on at pc, with what it knows as it is *)
GoesTo(c, pc) ==
  /\ client'[c].pc = pc
  /\ client'[c].slot = client[c].slot /\ client'[c].nflpel = client[c].nflpel
  /\ client'[c].output = client[c].output /\ client'[c].answer = client[c].answer
  /\ client'[c].status = client[c].status

SameConnection(c) ==
  /\ conn'[c].up = conn[c].up /\ conn'[c].down = conn[c].down
  /\ conn'[c].client = conn[c].client /\ conn'[c].server = conn[c].server

(* It ends *)
Ends(c, status) ==
  /\ client'[c].pc = "exit" /\ client'[c].status = status
  /\ client'[c].nflpel = client[c].nflpel /\ client'[c].answer = client[c].answer
  /\ ~ conn'[c].client /\ conn'[c].down = <<>>
  /\ conn'[c].server = conn[c].server

LEMMA GotoShape ==
  ASSUME ProtocolInv, NEW c \in Clients,
         NEW pc \in {"connect", "close", "exit"} \cup Idle \cup Waiting, Goto(c, pc)
  PROVE  /\ client' \in [Clients -> ClientType] /\ GoesTo(c, pc)
         /\ \A d \in Clients \ {c} : client'[d] = client[d]
<1>1. client[c] \in ClientType /\ client \in [Clients -> ClientType]
  BY LinkTypes
<1> DEFINE gone == [client[c] EXCEPT !.pc = pc]
<1>2. client' = [client EXCEPT ![c] = gone]
  BY <1>1 DEF Goto
<1>3. /\ gone \in ClientType /\ gone.pc = pc
      /\ gone.slot = client[c].slot /\ gone.nflpel = client[c].nflpel
      /\ gone.output = client[c].output /\ gone.answer = client[c].answer
      /\ gone.status = client[c].status
  BY <1>1 DEF ClientType
<1> HIDE DEF gone
<1> QED BY <1>1, <1>2, <1>3 DEF GoesTo

LEMMA EndShape ==
  ASSUME ProtocolInv, NEW c \in Clients,
         NEW status \in {"EXIT_SUCCESS", "EXIT_FAILURE", "killed"}, ClientExit(c, status)
  PROVE  ClientTyped /\ Elsewhere(c) /\ Ends(c, status) /\ conn'[c].up = conn[c].up
<1>1. /\ client[c] \in ClientType /\ client \in [Clients -> ClientType]
      /\ conn[c] \in Connection /\ conn \in [Clients -> Connection] /\ <<>> \in Seq(Replies)
  BY LinkTypes
<1> DEFINE ended == [client[c] EXCEPT !.pc = "exit", !.status = status]
           closed == [conn[c] EXCEPT !.client = FALSE, !.down = <<>>]
<1>2. client' = [client EXCEPT ![c] = ended] /\ conn' = [conn EXCEPT ![c] = closed]
  BY <1>1 DEF ClientExit
<1>3. /\ ended \in ClientType /\ ended.pc = "exit" /\ ended.status = status
      /\ ended.nflpel = client[c].nflpel /\ ended.answer = client[c].answer
  BY <1>1 DEF ClientType
<1>4. /\ closed \in Connection /\ ~ closed.client /\ closed.down = <<>>
      /\ closed.server = conn[c].server /\ closed.up = conn[c].up
  BY <1>1 DEF Connection
<1> HIDE DEF ended, closed
<1> QED BY <1>1, <1>2, <1>3, <1>4 DEF ClientTyped, Elsewhere, Ends

(* A request m is queued, or lost with the server, or it ends the client *)
LEMMA SendShape ==
  ASSUME ProtocolInv, NEW c \in Clients, NEW m \in Requests,
         NEW pc \in {"close"} \cup Waiting, Send(c, m, pc),
         client[c].pc \in Idle
  PROVE  /\ ClientTyped /\ Elsewhere(c)
         /\ \/ /\ GoesTo(c, pc) /\ conn[c].server
               /\ conn'[c].up = <<m>> /\ conn'[c].down = conn[c].down
               /\ conn'[c].client = conn[c].client /\ conn'[c].server = conn[c].server
            \/ ~ conn[c].server /\ GoesTo(c, pc) /\ SameConnection(c)
            \/ ~ conn[c].server /\ Ends(c, "killed") /\ conn'[c].up = conn[c].up
<1>1. /\ conn[c] \in Connection /\ conn \in [Clients -> Connection]
      /\ conn[c].up = <<>>
  BY LinkTypes DEF LinkInv, Quiet
<1>2. CASE conn[c].server /\ conn' = [conn EXCEPT ![c].up = Append(@, m)] /\ Goto(c, pc)
  <2> DEFINE sent == [conn[c] EXCEPT !.up = <<m>>]
  <2>1. conn' = [conn EXCEPT ![c] = sent]
    <3>1. Append(<<>>, m) = <<m>>
      OBVIOUS
    <3> QED BY <1>1, <1>2, <3>1
  <2>2. <<m>> \in Seq(Requests)
    OBVIOUS
  <2>3. /\ sent \in Connection /\ sent.up = <<m>> /\ sent.down = conn[c].down
        /\ sent.client = conn[c].client /\ sent.server = conn[c].server
    BY <1>1, <2>2 DEF Connection
  <2> HIDE DEF sent
  <2> QED BY <1>1, <1>2, <2>1, <2>3, GotoShape DEF ClientTyped, Elsewhere
<1>3. CASE ~ conn[c].server /\ Goto(c, pc) /\ UNCHANGED conn
  BY <1>1, <1>3, GotoShape DEF ClientTyped, Elsewhere, SameConnection
<1>4. CASE ~ conn[c].server /\ ClientExit(c, "killed")
  BY <1>4, EndShape
<1> QED BY <1>2, <1>3, <1>4 DEF Send

(* When a receive returns, nothing of the request is left: it has been     *)
(* answered, or the server has gone.                                       *)
LEMMA ReturnShape ==
  ASSUME ProtocolInv, NEW c \in Clients, client[c].pc \in Waiting, Returns(c)
  PROVE  /\ conn[c].client /\ conn[c].up = <<>> /\ ~ Handling(c)
         /\ \/ /\ Succeeds(c) /\ Replied(c)
               /\ conn[c].down[1] \in Replies /\ Received(c) = conn[c].down[1]
               /\ Tail(conn[c].down) = <<>>
            \/ /\ ~ Succeeds(c) /\ conn[c].down = <<>> /\ server.pc = "exit"
               /\ ~ conn[c].server
               /\ Received(c) = Message("none", 0, "none", 0)
<1>1. /\ LinkInv(c) /\ conn[c].down \in Seq(Replies) /\ conn[c].client
      /\ Queued(c) \/ InHand(c) \/ Replied(c) \/ Lost(c)
  BY LinkTypes DEF LinkInv, Waiting
<1>2. CASE Succeeds(c)
  <2>1. Replied(c)
    BY <1>1, <1>2 DEF Succeeds, Queued, InHand, Lost
  <2>2. /\ conn[c].down[1] \in Replies /\ Head(conn[c].down) = conn[c].down[1]
        /\ Tail(conn[c].down) = <<>>
    BY <1>1, <1>2, <2>1, RestOf DEF Succeeds, Replied
  <2> QED BY <1>1, <1>2, <2>1, <2>2 DEF Received, Replied
<1>3. CASE ~ Succeeds(c)
  <2>1. ~ conn[c].server /\ conn[c].down = <<>> /\ conn[c].up = <<>> /\ server.pc = "exit"
    BY <1>1, <1>3 DEF Returns, Succeeds, LinkInv
  <2> QED BY <1>1, <1>3, <2>1 DEF Received, Handling
<1> QED BY <1>2, <1>3

LEMMA ConsumeShape ==
  ASSUME ProtocolInv, NEW c \in Clients, client[c].pc \in Waiting, Returns(c), Consume(c)
  PROVE  /\ conn' \in [Clients -> Connection]
         /\ \A d \in Clients \ {c} : conn'[d] = conn[d]
         /\ conn'[c].down = <<>> /\ conn'[c].up = conn[c].up
         /\ conn'[c].client = conn[c].client /\ conn'[c].server = conn[c].server
<1>1. /\ conn[c] \in Connection /\ conn \in [Clients -> Connection] /\ <<>> \in Seq(Replies)
  BY LinkTypes
<1>2. (IF conn[c].down = <<>> THEN conn[c].down ELSE Tail(conn[c].down)) = <<>>
  BY ReturnShape
<1>3. conn' = [conn EXCEPT ![c].down = <<>>]
  BY <1>2, Zenon DEF Consume
<1> QED BY <1>1, <1>3 DEF Connection

(* They keep the protocol *)

(* What is left to show of a step of client c *)
LEMMA ClientProtocol ==
  ASSUME ProtocolInv, NEW c \in Clients, UNCHANGED <<server, tdata, args, trace>>,
         ClientTyped, Elsewhere(c), LinkInv(c)'
  PROVE  ProtocolInv'
<1>1. ServerInv'
  BY DEF ProtocolInv, ServerInv, WellTyped, ClientTyped, Serving
<1>2. ASSUME NEW d \in Clients, d # c PROVE LinkInv(d)'
  <2>1. LinkInv(d) /\ conn'[d] = conn[d] /\ client'[d] = client[d] /\ server' = server
    BY <1>2, LinkTypes DEF Elsewhere
  <2> QED BY <2>1 DEF LinkInv, At, Quiet, Queued, InHand, Replied, Lost, Handling,
                      Asked, Expected
<1> QED BY <1>1, <1>2 DEF ProtocolInv, ClientTyped

LEMMA EndLink ==
  ASSUME ProtocolInv, NEW c \in Clients, NEW status, Ends(c, status), UNCHANGED server,
         \/ conn'[c].up = conn[c].up
         \/ /\ Len(conn'[c].up) = 1 /\ ~ Handling(c) /\ conn[c].server
            /\ conn'[c].up[1].type = "INSERT_POWERS"
  PROVE  LinkInv(c)'
<1>1. LinkInv(c) /\ Handling(c)' = Handling(c)
      /\ client[c].pc \in {"connect", "close", "exit"} \cup Idle \cup Waiting
  BY LinkTypes DEF Handling
<1>2. (Len(conn[c].up) = 1 /\ ~ Handling(c)) \/ conn[c].up = <<>>
  BY OneQueued
<1> QED BY <1>1, <1>2 DEF LinkInv, Ends, At, Waiting, Idle

LEMMA EndProtocol ==
  ASSUME ProtocolInv, NEW c \in Clients,
         NEW status \in {"EXIT_SUCCESS", "EXIT_FAILURE", "killed"}, ClientExit(c, status),
         UNCHANGED <<server, tdata, args, trace>>
  PROVE  ProtocolInv'
<1>1. ClientTyped /\ Elsewhere(c) /\ Ends(c, status) /\ conn'[c].up = conn[c].up
  BY EndShape
<1>2. LinkInv(c)'
  BY <1>1, EndLink
<1> QED BY <1>1, <1>2, ClientProtocol

LEMMA SendProtocol ==
  ASSUME ProtocolInv, NEW c \in Clients, NEW m \in Requests, ~ m.cut,
         NEW pc \in {"close"} \cup Waiting, Send(c, m, pc), client[c].pc \in Idle,
         client'[c].pc = pc => m.type \in Asked(c)',
         UNCHANGED <<server, tdata, args, trace>>
  PROVE  ProtocolInv'
<1>1. /\ LinkInv(c) /\ Quiet(c) /\ conn[c].client /\ server' = server
      /\ Handling(c)' = Handling(c)
  BY LinkTypes DEF LinkInv, Idle, Handling
<1>2. /\ ClientTyped /\ Elsewhere(c)
      /\ \/ /\ GoesTo(c, pc) /\ conn[c].server
            /\ conn'[c].up = <<m>> /\ conn'[c].down = conn[c].down
            /\ conn'[c].client = conn[c].client /\ conn'[c].server = conn[c].server
         \/ ~ conn[c].server /\ GoesTo(c, pc) /\ SameConnection(c)
         \/ ~ conn[c].server /\ Ends(c, "killed") /\ conn'[c].up = conn[c].up
  BY SendShape
<1>3. CASE /\ GoesTo(c, pc) /\ conn[c].server
           /\ conn'[c].up = <<m>> /\ conn'[c].down = conn[c].down
           /\ conn'[c].client = conn[c].client /\ conn'[c].server = conn[c].server
  <2>1. Len(<<m>>) = 1 /\ <<m>>[1] = m /\ <<m>> # <<>>
    OBVIOUS
  <2>2. Queued(c)' /\ client'[c].pc = pc
    BY <1>1, <1>3, <2>1 DEF Queued, Quiet, GoesTo
  <2>3. LinkInv(c)'
    BY <1>1, <1>3, <2>1, <2>2 DEF LinkInv, Quiet, At, Waiting, Idle
  <2> QED BY <1>2, <2>3, ClientProtocol
<1>4. CASE ~ conn[c].server /\ GoesTo(c, pc) /\ SameConnection(c)
  <2>1. Lost(c)' /\ Quiet(c)' /\ client'[c].pc = pc
    BY <1>1, <1>4 DEF Lost, Quiet, LinkInv, SameConnection, GoesTo
  <2>2. LinkInv(c)'
    BY <1>1, <1>4, <2>1 DEF LinkInv, Quiet, At, Waiting, Idle, SameConnection
  <2> QED BY <1>2, <2>2, ClientProtocol
<1>5. CASE ~ conn[c].server /\ Ends(c, "killed") /\ conn'[c].up = conn[c].up
  BY <1>2, <1>5, EndLink, ClientProtocol
<1> QED BY <1>2, <1>3, <1>4, <1>5

(* A client that has what it waited for, or will not get it *)
LEMMA HearProtocol ==
  ASSUME ProtocolInv, NEW c \in Clients, client[c].pc \in Waiting, Returns(c), Consume(c),
         client' \in [Clients -> ClientType], client'[c].pc \in Idle,
         \A d \in Clients \ {c} : client'[d] = client[d],
         UNCHANGED <<server, tdata, args, trace>>
  PROVE  ProtocolInv'
<1>1. ClientTyped /\ Elsewhere(c)
  BY ConsumeShape DEF ClientTyped, Elsewhere
<1>2. LinkInv(c) /\ Handling(c)' = Handling(c) /\ server' = server
  BY LinkTypes DEF Handling
<1>3. Quiet(c)' /\ conn[c].client
  BY <1>2, ConsumeShape, ReturnShape DEF Quiet
<1>4. LinkInv(c)'
  BY <1>2, <1>3, ConsumeShape DEF LinkInv, Quiet, At, Waiting, Idle
<1> QED BY <1>1, <1>4, ClientProtocol

(* What each of the answers does to the client *)

LEMMA LearnShape ==
  ASSUME ProtocolInv, NEW c \in Clients, LearnElements(c)
  PROVE  /\ client' \in [Clients -> ClientType]
         /\ \A d \in Clients \ {c} : client'[d] = client[d]
         /\ client'[c].pc = "slots" /\ client'[c].nflpel = Received(c).n
         /\ client'[c].slot = client[c].slot /\ client'[c].output = client[c].output
         /\ client'[c].answer = client[c].answer /\ client'[c].status = client[c].status
<1>1. client[c] \in ClientType /\ client \in [Clients -> ClientType]
  BY LinkTypes
<1>2. Received(c).n \in Nat
  <2>1. client[c].pc \in Waiting /\ Returns(c)
    BY DEF LearnElements, At, Waiting
  <2>2. Message("none", 0, "none", 0).n = 0
    BY DEF Message
  <2>3. \A m \in Replies : m.n \in Nat
    BY DEF Replies
  <2> QED BY <2>1, <2>2, <2>3, ReturnShape
<1> DEFINE n == Received(c).n
           learnt == [client[c] EXCEPT !.nflpel = n, !.pc = "slots"]
<1> HIDE DEF n
<1>3. client' = [client EXCEPT ![c] = learnt]
  BY <1>1 DEF LearnElements, n
<1>4. /\ learnt \in ClientType /\ learnt.pc = "slots" /\ learnt.nflpel = n
      /\ learnt.slot = client[c].slot /\ learnt.output = client[c].output
      /\ learnt.answer = client[c].answer /\ learnt.status = client[c].status
  BY <1>1, <1>2 DEF ClientType, n, Idle
<1> HIDE DEF learnt
<1> QED BY <1>1, <1>3, <1>4 DEF n

LEMMA ResultShape ==
  ASSUME ProtocolInv, NEW c \in Clients, SlotResult(c)
  PROVE  \/ /\ Received(c).result = "SLOT_DONE" /\ Consume(c)
            /\ client' \in [Clients -> ClientType]
            /\ \A d \in Clients \ {c} : client'[d] = client[d]
            /\ client'[c].pc = "output" /\ client'[c].output = 1
            /\ client'[c].slot = client[c].slot /\ client'[c].nflpel = client[c].nflpel
            /\ client'[c].answer = client[c].answer /\ client'[c].status = client[c].status
         \/ ClientExit(c, "EXIT_FAILURE")
<1>1. client[c] \in ClientType /\ client \in [Clients -> ClientType]
  BY LinkTypes
<1> DEFINE counted == [client[c] EXCEPT !.pc = "output", !.output = 1]
<1>2. CASE /\ Received(c).result = "SLOT_DONE" /\ Consume(c)
           /\ client' = [client EXCEPT ![c].pc = "output", ![c].output = 1]
  <2>1. client' = [client EXCEPT ![c] = counted]
    BY <1>1, <1>2
  <2>2. /\ counted \in ClientType /\ counted.pc = "output" /\ counted.output = 1
        /\ counted.slot = client[c].slot /\ counted.nflpel = client[c].nflpel
        /\ counted.answer = client[c].answer /\ counted.status = client[c].status
    <3>1. 1 \in 0 .. 6 /\ "output" \in Idle
      BY DEF Idle
    <3> QED BY <1>1, <3>1 DEF ClientType
  <2> HIDE DEF counted
  <2> QED BY <1>1, <1>2, <2>1, <2>2
<1>3. CASE ClientExit(c, "EXIT_FAILURE")
  BY <1>3
<1> QED BY <1>2, <1>3 DEF SlotResult

LEMMA ReadShape ==
  ASSUME ProtocolInv, NEW c \in Clients, ReadOutput(c)
  PROVE  /\ client' \in [Clients -> ClientType]
         /\ \A d \in Clients \ {c} : client'[d] = client[d]
         /\ client'[c].nflpel = client[c].nflpel /\ client'[c].status = client[c].status
         /\ \/ /\ client[c].output < 6 /\ client'[c].pc = "output"
               /\ client'[c].output = client[c].output + 1
               /\ client'[c].slot = client[c].slot
            \/ /\ client[c].output = 6 /\ client'[c].pc = "slots"
               /\ client'[c].output = 0 /\ client'[c].slot = client[c].slot + 1
         /\ client'[c].answer = IF Succeeds(c)
                                THEN [slot |-> client[c].slot + 1, time |-> Received(c).time,
                                      row |-> Received(c).n]
                                ELSE NoAnswer
<1>1. client[c] \in ClientType /\ client \in [Clients -> ClientType]
  BY LinkTypes
<1> DEFINE answer == IF Succeeds(c)
                     THEN [slot |-> client[c].slot + 1, time |-> Received(c).time,
                           row |-> Received(c).n]
                     ELSE NoAnswer
           pc == IF client[c].output < 6 THEN "output" ELSE "slots"
           output == IF client[c].output < 6 THEN client[c].output + 1 ELSE 0
           slot == IF client[c].output < 6 THEN client[c].slot ELSE client[c].slot + 1
           read == [client[c] EXCEPT !.pc = pc, !.output = output, !.slot = slot,
                                     !.answer = answer]
<1>2. answer \in [slot : Nat, time : Nat, row : Nat]
  <2>1. Received(c).time \in Nat /\ Received(c).n \in Nat
    <3>1. client[c].pc \in Waiting /\ Returns(c)
      BY DEF ReadOutput, At, Waiting
    <3>2. Message("none", 0, "none", 0).n = 0 /\ Message("none", 0, "none", 0).time = 0
      BY DEF Message
    <3>3. \A m \in Replies : m.n \in Nat /\ m.time \in Nat
      BY DEF Replies
    <3> QED BY <3>1, <3>2, <3>3, ReturnShape
  <2>2. client[c].slot \in Nat
    BY <1>1 DEF ClientType
  <2> QED BY <2>1, <2>2 DEF NoAnswer
<1>3. /\ client[c].output \in 0 .. 6 /\ client[c].slot \in Nat
      /\ pc \in Idle /\ output \in 0 .. 6 /\ slot \in Nat
  BY <1>1 DEF ClientType, Idle
<1>4. client' = [client EXCEPT ![c] = read]
  BY <1>1 DEF ReadOutput
<1> HIDE DEF answer, pc, output, slot
<1>5. /\ read \in ClientType /\ read.pc = pc /\ read.output = output /\ read.slot = slot
      /\ read.answer = answer
      /\ read.nflpel = client[c].nflpel /\ read.status = client[c].status
  BY <1>1, <1>2, <1>3 DEF ClientType
<1> HIDE DEF read
<1>6. /\ client' \in [Clients -> ClientType] /\ client'[c] = read
      /\ \A d \in Clients \ {c} : client'[d] = client[d]
  BY <1>1, <1>4, <1>5
<1> QED BY <1>3, <1>5, <1>6 DEF answer, pc, output, slot

LEMMA ConnectShape ==
  ASSUME ProtocolInv, NEW c \in Clients, Connect(c)
  PROVE  /\ At(c, "connect")
         /\ \/ /\ server.pc \notin {"start", "exit"}
               /\ ClientTyped /\ Elsewhere(c) /\ GoesTo(c, "elements")
               /\ conn'[c].up = conn[c].up /\ conn'[c].down = conn[c].down
               /\ conn'[c].client /\ conn'[c].server
            \/ ClientExit(c, "EXIT_FAILURE")
<1>1. conn[c] \in Connection /\ conn \in [Clients -> Connection]
  BY LinkTypes
<1>2. CASE /\ server.pc \notin {"start", "exit"}
           /\ conn' = [conn EXCEPT ![c].client = TRUE, ![c].server = TRUE]
           /\ Goto(c, "elements")
  <2>1. /\ conn' \in [Clients -> Connection] /\ \A d \in Clients \ {c} : conn'[d] = conn[d]
        /\ conn'[c].up = conn[c].up /\ conn'[c].down = conn[c].down
        /\ conn'[c].client /\ conn'[c].server
    BY <1>1, <1>2 DEF Connection
  <2>2. /\ client' \in [Clients -> ClientType] /\ GoesTo(c, "elements")
        /\ \A d \in Clients \ {c} : client'[d] = client[d]
    BY <1>2, GotoShape DEF Idle
  <2> QED BY <1>2, <2>1, <2>2 DEF Connect, ClientTyped, Elsewhere
<1>3. CASE ClientExit(c, "EXIT_FAILURE")
  BY <1>3 DEF Connect
<1> QED BY <1>2, <1>3 DEF Connect

(* A crash leaves what was sent before, and perhaps a part of a row *)
LEMMA CrashShape ==
  ASSUME ProtocolInv, NEW c \in Clients, ClientCrash(c)
  PROVE  /\ ClientTyped /\ Elsewhere(c) /\ Ends(c, "killed") /\ ~ At(c, "exit")
         /\ UNCHANGED <<server, tdata, torn, args, trace>>
         /\ \/ conn'[c].up = conn[c].up
            \/ /\ Len(conn'[c].up) = 1 /\ ~ Handling(c) /\ conn[c].server
               /\ conn'[c].up[1].type = "INSERT_POWERS"
<1>1. /\ client[c] \in ClientType /\ client \in [Clients -> ClientType]
      /\ conn[c] \in Connection /\ conn \in [Clients -> Connection] /\ <<>> \in Seq(Replies)
      /\ conn[c].up \in Seq(Requests)
  BY LinkTypes
<1> DEFINE row == [Row(c) EXCEPT !.cut = TRUE]
<1>2. row \in Requests /\ row.type = "INSERT_POWERS"
  <2>1. client[c].nflpel \in Nat
    BY <1>1 DEF ClientType
  <2> QED BY <2>1 DEF Row, Request, Message, Requests, RequestTypes
<1>3. PICK cut \in { <<>> } \cup (IF HasRow(c) /\ conn[c].server THEN { <<row>> } ELSE {}) :
        conn' = [conn EXCEPT ![c].client = FALSE, ![c].down = <<>>, ![c].up = @ \o cut]
  BY DEF ClientCrash
<1> HIDE DEF row
<1> DEFINE up == conn[c].up \o cut
           ended == [client[c] EXCEPT !.pc = "exit", !.status = "killed"]
           closed == [conn[c] EXCEPT !.client = FALSE, !.down = <<>>, !.up = up]
<1>4. /\ up \in Seq(Requests)
      /\ \/ up = conn[c].up
         \/ /\ Len(up) = 1 /\ ~ Handling(c) /\ conn[c].server
            /\ up[1].type = "INSERT_POWERS"
  <2>1. CASE cut = <<>>
    BY <1>1, <2>1
  <2>2. CASE cut = <<row>> /\ HasRow(c) /\ conn[c].server
    <3>1. conn[c].up = <<>> /\ ~ Handling(c)
      BY <2>2, LinkTypes DEF HasRow, LinkInv, Quiet, At, Idle
    <3>2. up = <<row>>
      BY <1>2, <2>2, <3>1
    <3>3. Len(<<row>>) = 1 /\ <<row>>[1] = row /\ <<row>> \in Seq(Requests)
      BY <1>2
    <3> QED BY <1>2, <2>2, <3>1, <3>2, <3>3
  <2>3. cut = <<>> \/ (cut = <<row>> /\ HasRow(c) /\ conn[c].server)
    BY <1>3, Zenon
  <2> QED BY <2>1, <2>2, <2>3
<1> HIDE DEF up
<1>5. client' = [client EXCEPT ![c] = ended] /\ conn' = [conn EXCEPT ![c] = closed]
  BY <1>1, <1>3 DEF ClientCrash, up
<1>6. /\ ended \in ClientType /\ ended.pc = "exit" /\ ended.status = "killed"
      /\ ended.nflpel = client[c].nflpel /\ ended.answer = client[c].answer
  BY <1>1 DEF ClientType
<1>7. /\ closed \in Connection /\ ~ closed.client /\ closed.down = <<>>
      /\ closed.server = conn[c].server /\ closed.up = up
  BY <1>1, <1>4 DEF Connection
<1> HIDE DEF ended, closed
<1>8. ~ At(c, "exit") /\ UNCHANGED <<server, tdata, torn, args, trace>>
  BY DEF ClientCrash
<1> QED BY <1>1, <1>4, <1>5, <1>6, <1>7, <1>8 DEF ClientTyped, Elsewhere, Ends

(* The requests that the client sends, and what it waits for then *)
LEMMA RequestsSent ==
  ASSUME ProtocolInv, NEW c \in Clients
  PROVE  /\ \A type \in RequestTypes, n \in Nat :
              Request(type, n) \in Requests /\ ~ Request(type, n).cut
                /\ Request(type, n).type = type
         /\ client[c].nflpel \in Nat
BY LinkTypes DEF Request, Message, Requests, ClientType

LEMMA ClientStepProtocol ==
  ASSUME ProtocolInv, NEW c \in Clients, ClientStep(c)
  PROVE  ProtocolInv'
<1>1. UNCHANGED <<server, tdata, args, trace>>
  BY DEF ClientStep
<1>2. CASE Connect(c)
  <2>1. CASE ClientExit(c, "EXIT_FAILURE")
    BY <1>1, <2>1, EndProtocol
  <2>2. CASE ~ ClientExit(c, "EXIT_FAILURE")
    <3>1. /\ LinkInv(c) /\ At(c, "connect") /\ server.pc \notin {"start", "exit"}
          /\ ClientTyped /\ Elsewhere(c) /\ client'[c].pc = "elements"
          /\ conn'[c].up = conn[c].up /\ conn'[c].down = conn[c].down
          /\ conn'[c].client /\ conn'[c].server
      BY <1>2, <2>2, ConnectShape, LinkTypes DEF GoesTo
    <3>2. Quiet(c)' /\ conn[c].up = <<>>
      BY <1>1, <3>1 DEF LinkInv, Quiet, Handling, At
    <3>3. LinkInv(c)'
      BY <1>1, <3>1, <3>2 DEF LinkInv, Quiet, At, Waiting
    <3> QED BY <1>1, <3>1, <3>3, ClientProtocol
  <2> QED BY <2>1, <2>2
<1>3. CASE NoMap(c)
  BY <1>1, <1>3, EndProtocol DEF NoMap
<1>4. CASE TraceOver(c)
  BY <1>1, <1>4, EndProtocol DEF TraceOver
<1>5. CASE OutputFailed(c)
  BY <1>1, <1>5, EndProtocol DEF OutputFailed
<1>6. CASE Close(c)
  BY <1>1, <1>6, EndProtocol DEF Close
<1> DEFINE Asks(type, n, pc) ==
      /\ client[c].pc \in Idle
      /\ Send(c, Request(type, n), pc)
<1>7. ASSUME NEW type \in RequestTypes, NEW n \in Nat, NEW pc \in {"close"} \cup Waiting,
             Asks(type, n, pc), client'[c].pc = pc => type \in Asked(c)'
      PROVE  ProtocolInv'
  <2> DEFINE m == Request(type, n)
  <2>1. m \in Requests /\ ~ m.cut /\ m.type = type
    BY RequestsSent
  <2> HIDE DEF m
  <2> QED BY <1>1, <1>7, <2>1, SendProtocol DEF m
<1>8. CASE AskElements(c)
  <2>1. Asks("TOTAL_NUMBER_OF_FLOORPLAN_ELEMENTS", 0, "elements?")
    BY <1>8 DEF AskElements, At, Idle
  <2>2. client'[c].pc = "elements?" => "TOTAL_NUMBER_OF_FLOORPLAN_ELEMENTS" \in Asked(c)'
    BY DEF Asked, Expected, At
  <2> HIDE DEF Asks
  <2> QED BY <1>7, <2>1, <2>2 DEF RequestTypes, Waiting
<1>9. CASE SendRow(c)
  <2>1. Asks("INSERT_POWERS", client[c].nflpel, "inserted?") /\ client[c].nflpel \in Nat
    BY <1>9, RequestsSent DEF SendRow, HasRow, Row, At, Idle
  <2>2. client'[c].pc = "inserted?" => "INSERT_POWERS" \in Asked(c)'
    BY DEF Asked, Expected, At
  <2> HIDE DEF Asks
  <2> QED BY <1>7, <2>1, <2>2 DEF RequestTypes, Waiting
<1>10. CASE AskSlot(c)
  <2>1. Asks("SIMULATE_SLOT", 0, "simulated?")
    BY <1>10 DEF AskSlot, At, Idle
  <2>2. client'[c].pc = "simulated?" => "SIMULATE_SLOT" \in Asked(c)'
    BY DEF Asked, Expected, At
  <2> HIDE DEF Asks
  <2> QED BY <1>7, <2>1, <2>2 DEF RequestTypes, Waiting
<1>11. CASE AskOutput(c)
  <2>1. CASE ClientExit(c, "EXIT_FAILURE")
    BY <1>1, <2>1, EndProtocol
  <2>2. CASE Send(c, Request("SEND_OUTPUT", 0), "output?")
    <3>1. Asks("SEND_OUTPUT", 0, "output?")
      BY <1>11, <2>2 DEF AskOutput, At, Idle
    <3>2. client'[c].pc = "output?" => "SEND_OUTPUT" \in Asked(c)'
      BY DEF Asked, Expected, At
    <3> HIDE DEF Asks
    <3> QED BY <1>7, <3>1, <3>2 DEF RequestTypes, Waiting
  <2> QED BY <1>11, <2>1, <2>2 DEF AskOutput
<1>12. CASE Finish(c)
  <2>1. Asks("EXIT_SIMULATION", 0, "close")
    BY <1>12 DEF Finish, At, Idle
  <2>2. client'[c].pc = "close" => "EXIT_SIMULATION" \in Asked(c)'
    BY DEF Asked, At
  <2> HIDE DEF Asks
  <2> QED BY <1>7, <2>1, <2>2 DEF RequestTypes
<1>13. CASE EndLoop(c)
  <2>1. /\ ClientTyped /\ Elsewhere(c) /\ client'[c].pc = "finish" /\ conn'[c] = conn[c]
    BY <1>13, GotoShape, LinkTypes DEF EndLoop, ClientTyped, Elsewhere, GoesTo, Idle
  <2>2. LinkInv(c) /\ Quiet(c) /\ conn[c].client
    BY <1>13, LinkTypes DEF EndLoop, LinkInv, Idle, At
  <2>3. Quiet(c)' /\ Handling(c)' = Handling(c)
    BY <1>1, <2>1, <2>2 DEF Quiet, Handling
  <2>4. LinkInv(c)'
    BY <1>1, <2>1, <2>2, <2>3 DEF LinkInv, Quiet, At, Waiting
  <2> QED BY <1>1, <2>1, <2>4, ClientProtocol
<1>14. CASE LearnElements(c)
  <2>1. client[c].pc \in Waiting /\ Returns(c) /\ Consume(c)
    BY <1>14 DEF LearnElements, At, Waiting
  <2> QED BY <1>1, <1>14, <2>1, LearnShape, HearProtocol DEF Idle
<1>15. CASE RowInserted(c)
  <2>1. client[c].pc \in Waiting /\ Returns(c) /\ Consume(c) /\ Goto(c, "simulate")
    BY <1>15 DEF RowInserted, At, Waiting
  <2> QED BY <1>1, <2>1, GotoShape, HearProtocol DEF Idle, GoesTo
<1>16. CASE SlotResult(c)
  <2>1. client[c].pc \in Waiting /\ Returns(c)
    BY <1>16 DEF SlotResult, At, Waiting
  <2> QED BY <1>1, <1>16, <2>1, ResultShape, EndProtocol, HearProtocol DEF Idle
<1>17. CASE ReadOutput(c)
  <2>1. client[c].pc \in Waiting /\ Returns(c) /\ Consume(c)
    BY <1>17 DEF ReadOutput, At, Waiting
  <2>2. client'[c].pc \in Idle
    BY <1>17, ReadShape DEF Idle
  <2> QED BY <1>1, <1>17, <2>1, <2>2, ReadShape, HearProtocol
<1> HIDE DEF Asks
<1> QED BY <1>2, <1>3, <1>4, <1>5, <1>6, <1>8, <1>9, <1>10, <1>11, <1>12, <1>13, <1>14,
           <1>15, <1>16, <1>17 DEF ClientStep

LEMMA CrashProtocol ==
  ASSUME ProtocolInv, NEW c \in Clients, ClientCrash(c)
  PROVE  ProtocolInv'
<1>1. /\ ClientTyped /\ Elsewhere(c) /\ UNCHANGED <<server, tdata, args, trace>>
      /\ LinkInv(c)'
  BY CrashShape, EndLink
<1> QED BY <1>1, ClientProtocol

LEMMA ProtocolKept == ProtocolInv /\ [Next]_vars => ProtocolInv'
<1> SUFFICES ASSUME ProtocolInv, [Next]_vars PROVE ProtocolInv'
  OBVIOUS
<1>1. CASE (ServerStep \/ ServerCrash) /\ UNCHANGED <<args, client, trace>>
  BY <1>1, ServerProtocol
<1>2. ASSUME NEW c \in Clients, ClientStep(c) \/ ClientCrash(c) PROVE ProtocolInv'
  BY <1>2, ClientStepProtocol, CrashProtocol
<1>3. ASSUME UNCHANGED <<server, tdata, conn, args, client>>, trace' \in Nat
      PROVE  ProtocolInv'
  BY <1>3 DEF ProtocolInv, ServerInv, WellTyped, Serving, LinkInv, At, Quiet, Queued, InHand,
              Replied, Lost, Handling, Asked, Expected
<1>4. CASE AppendRow
  BY <1>3, <1>4 DEF AppendRow, ProtocolInv
<1>5. CASE UNCHANGED vars
  BY <1>3, <1>5 DEF vars, ProtocolInv
<1> QED BY <1>1, <1>2, <1>4, <1>5 DEF Next

LEMMA InLockstep == ProtocolInv => Lockstep
<1> SUFFICES ASSUME ProtocolInv, NEW c \in Clients
             PROVE  /\ \A i \in 1 .. Len(conn[c].down) : conn[c].down[i].type \in Expected(c)
                    /\ Len(conn[c].up) + Len(conn[c].down)
                         + (IF server.peer = c /\ server.pc \in {"handle", "slot"}
                            THEN 1 ELSE 0) <= 1
  BY DEF Lockstep
<1>1. /\ LinkInv(c) /\ conn[c].up \in Seq(Requests) /\ conn[c].down \in Seq(Replies)
      /\ client[c].pc \in {"connect", "close", "exit"} \cup Idle \cup Waiting
  BY LinkTypes
<1>2. CASE conn[c].down = <<>>
  <2>1. conn[c].up = <<>> \/ (Len(conn[c].up) = 1 /\ ~ Handling(c))
    BY OneQueued
  <2>2. Len(conn[c].down) = 0
    BY <1>2
  <2>3. CASE conn[c].up = <<>>
    <3>1. Len(conn[c].up) = 0
      BY <2>3
    <3> QED BY <2>2, <3>1
  <2>4. CASE Len(conn[c].up) = 1 /\ ~ Handling(c)
    BY <2>2, <2>4 DEF Handling
  <2> QED BY <2>1, <2>3, <2>4
<1>3. CASE conn[c].down # <<>>
  <2>1. Replied(c) /\ ~ At(c, "close")
    BY <1>1, <1>3 DEF LinkInv, At, Quiet, Queued, InHand, Lost
  <2> QED BY <2>1 DEF Replied, Handling, Asked
<1> QED BY <1>2, <1>3

(* THEOREM: the messages of the console client and the server carry no     *)
(* identity, but each is taken for what it is: at most one request of a    *)
(* client is under way, as a message, in the server's hands or as its      *)
(* answer, also after a request has failed, a receive has returned without *)
(* a message or a process has died.                                        *)
THEOREM AlwaysInLockstep == Spec => []Lockstep
<1>1. Spec => []ProtocolInv
  BY InitProtocol, ProtocolKept, PTL DEF Spec
<1> QED BY <1>1, InLockstep, PTL

-----------------------------------------------------------------------------
(* The progress of the simulation                                          *)

(* n slots have been simulated, and nothing more *)
Simulated(n) ==
  /\ tdata.time = n * SlotLength
  /\ \A e \in Elements : tdata.taken[e] = n /\ tdata.temperatures.power[e] = n

(* Slot n + 1 is being simulated *)
Within(n) == ~ slot_completed(tdata) /\ SlotOf(tdata.time) = n + 1

Counted(c) == IF client[c].output > 0 THEN client[c].slot + 1 ELSE client[c].slot

(* The accepted client, by what it does *)
StepInv(c) ==
  LET slot == client[c].slot IN
  /\ ~ At(c, "simulated?") => Simulated(Counted(c))
  /\ At(c, "simulated?") =>
       /\ tdata.time \in slot * SlotLength .. (slot + 1) * SlotLength
       /\ conn[c].down = <<>> /\ server.pc \in {"receive", "handle"} => Simulated(slot)
       /\ server.pc = "slot" => Simulated(slot) \/ Within(slot)
       /\ conn[c].down # <<>> /\ conn[c].down[1].result = "SLOT_DONE" => Simulated(slot + 1)
  /\ At(c, "output?") /\ conn[c].down # <<>> =>
       /\ conn[c].down[1].time = (slot + 1) * SlotLength
       /\ conn[c].down[1].n = slot + 1

(* What a client that ends with success, or is about to, has achieved *)
Achieved(c) ==
  (args.untilMinusOne => client[c].nflpel # 0) =>
    server.peer = c /\ tdata.time >= Wanted * SlotLength

Right(answer) ==
  answer.slot # 0 => answer.time = answer.slot * SlotLength /\ answer.row = answer.slot

ProgressInv(c) ==
  /\ ~ At(c, "exit") => /\ client[c].output > 0 <=> client[c].pc \in {"output", "output?"}
                        /\ client[c].status = "none"
  /\ client[c].nflpel # 0 => server.peer = c
  /\ ~ At(c, "exit") /\ server.peer # c =>
       /\ client[c].slot = 0 /\ client[c].output = 0
       /\ server.pc # "exit" => client[c].pc \in {"connect", "elements", "elements?"}
  /\ ~ At(c, "exit") /\ server.peer = c => StepInv(c)
  /\ Right(client[c].answer)
  /\ client[c].pc \in {"finish", "close"} \/ client[c].status = "EXIT_SUCCESS" => Achieved(c)

(* A row that was cut is the last thing the server reads of its client *)
TornInv ==
  torn # {} =>
    /\ server.peer \in Clients /\ ~ conn[server.peer].client /\ conn[server.peer].up = <<>>
    /\ \/ server.pc \in {"receive", "leave", "exit"}
       \/ server.pc = "handle" /\ server.request.type = "EXIT_SIMULATION"
    /\ \A row \in torn : row \in Nat /\ tdata.taken[1] < row

SessionInv ==
  /\ ProtocolInv
  /\ server.pc \in {"start", "wait"} => Simulated(0)
  /\ \A c \in Clients : ProgressInv(c)
  /\ TornInv

LEMMA InitSession == Init => SessionInv
<1> SUFFICES ASSUME Init PROVE SessionInv
  OBVIOUS
<1>1. ProtocolInv
  BY InitProtocol
<1>2. PICK config \in Configs, supply \in Supplies, flow \in Flows :
        tdata = Built(config, supply, flow)
  BY DEF Init, ServerInit
<1>3. /\ tdata.time = 0 /\ tdata.temperatures = InitialTemperatures
      /\ \A e \in Elements : tdata.taken[e] = 0
  BY <1>2, ThermalAssumption, BuiltInProgress
<1>4. Simulated(0)
  <2>1. \A e \in Elements : InitialTemperatures.power[e] = 0
    BY DEF InitialTemperatures
  <2>2. 0 * SlotLength = 0
    BY ThermalAssumption
  <2> QED BY <1>3, <2>1, <2>2 DEF Simulated
<1>5. torn = {} /\ server.peer = Nobody
  <2>1. PICK whose \in FilesBefore :
          server = [pc |-> "start", peer |-> Nobody, request |-> Request("UNKNOWN", 0),
                    status |-> "none", headers |-> FALSE,
                    file |-> [of |-> whose, lines |-> 0, lost |-> FALSE]]
    BY DEF Init, ServerInit
  <2> HIDE DEF Request
  <2> QED BY <2>1 DEF Init, ServerInit
<1>6. ASSUME NEW c \in Clients PROVE ProgressInv(c)
  <2>1. /\ client[c].pc = "connect" /\ client[c].slot = 0 /\ client[c].nflpel = 0
        /\ client[c].output = 0 /\ client[c].answer = NoAnswer /\ client[c].status = "none"
    BY DEF Init
  <2>2. c # Nobody /\ NoAnswer.slot = 0
    BY ServerAssumption DEF NoAnswer
  <2> QED BY <1>5, <2>1, <2>2 DEF ProgressInv, At, Right
<1> QED BY <1>1, <1>4, <1>5, <1>6 DEF SessionInv, TornInv

(* Slots and time *)

LEMMA SlotMultiples ==
  ASSUME NEW m \in Nat, NEW n \in Nat
  PROVE  /\ m * SlotLength \in Nat
         /\ (m + 1) * SlotLength = m * SlotLength + SlotLength
         /\ m <= n => m * SlotLength <= n * SlotLength
         /\ (m * SlotLength) % SlotLength = 0
<1> DEFINE l == SlotLength
<1>1. l \in Nat \ {0}
  BY ThermalAssumption
<1> HIDE DEF l
<1>2. m * l \in Nat /\ (m + 1) * l = m * l + l
  BY <1>1, Z3
<1>3. m <= n => m * l <= n * l
  BY <1>1, Z3
<1>4. (m * l) % l = 0
  BY <1>1, Z3
<1> QED BY <1>2, <1>3, <1>4 DEF l

(* Slot k + 1 lies between k and k + 1 slot lengths after the start *)
LEMMA SlotRange ==
  ASSUME NEW t \in Nat, NEW k \in Nat, SlotOf(t) = k + 1
  PROVE  t \in k * SlotLength .. (k + 1) * SlotLength
<1> DEFINE l == SlotLength
           a == t + l - 1
<1>1. l \in Nat \ {0} /\ a \in Nat
  BY ThermalAssumption
<1>2. a \div l = k + 1
  BY DEF SlotOf
<1>3. t = a - l + 1
  BY <1>1
<1> HIDE DEF l, a
<1>4. PICK r \in 0 .. l - 1 : a = l * (a \div l) + r
  <2>1. a % l \in 0 .. l - 1 /\ a = l * (a \div l) + (a % l)
    BY <1>1, Z3
  <2> QED BY <2>1
<1>5. a = l * (k + 1) + r
  BY <1>2, <1>4
<1>6. l * (k + 1) = k * l + l /\ k * l \in Nat /\ (k + 1) * l = k * l + l
  BY <1>1, Z3
<1> DEFINE kl == k * l
<1>7. kl \in Nat
  BY <1>6
<1>8. a = kl + l + r /\ (k + 1) * l = kl + l
  BY <1>5, <1>6
<1> HIDE DEF kl
<1>9. t \in kl .. kl + l
  BY <1>1, <1>3, <1>4, <1>7, <1>8
<1> QED BY <1>8, <1>9 DEF kl, l

(* What a server step does to the simulation *)

Calm ==
  /\ tdata'.time = tdata.time /\ tdata'.taken = tdata.taken
  /\ tdata'.temperatures = tdata.temperatures

LEMMA CalmSteps ==
  ASSUME ServerInv, ServerStep, ~ EmulateSlot, ~ EmulateStep, ~ Reset
  PROVE  Calm
<1>1. CASE InsertPowers
  BY <1>1, InsertShape, InsertedInProgress DEF ServerInv, Calm
<1>2. CASE ~ InsertPowers
  <2>1. tdata' = tdata
    BY <1>2 DEF ServerStep, Start, Accept, Receive, Exit, NumberOfElements, SendOutput,
                PrintOutput, SendOutputFiles, BeginSlot, Unknown, Leave
  <2> QED BY <2>1 DEF Calm
<1> QED BY <1>1, <1>2

(* Time does not go back, and the accepted client remains *)
LEMMA ServerMonotone ==
  ASSUME ServerInv, ServerStep \/ ServerCrash
  PROVE  /\ tdata.time \in Nat /\ tdata'.time \in Nat /\ tdata'.time >= tdata.time
         /\ server.peer \in Clients => server'.peer = server.peer
         /\ server'.pc # "exit" => server.pc # "exit"
<1>1. tdata \in ThermalType /\ tdata' \in ThermalType
  BY ServerKeeps, ServerCrashKeeps DEF ServerInv
<1>2. tdata.time \in Nat /\ tdata'.time \in Nat
  BY <1>1 DEF ThermalType
<1>3. tdata'.time >= tdata.time
  <2>1. ASSUME NEW out \in emulate_step(tdata), tdata' = out.td,
               server.pc \in {"handle", "slot"}
        PROVE  tdata'.time >= tdata.time
    <3>1. tdata.config.analysis = "transient" /\ InProgress(tdata)
      BY <2>1 DEF ServerInv
    <3>2. CASE out.result \in Done
      BY <1>1, <1>2, <2>1, <3>1, <3>2, EmulatedInProgress
    <3>3. CASE out.result \notin Done
      BY <1>1, <1>2, <2>1, <3>3, EmulateStepTyped
    <3> QED BY <3>2, <3>3
  <2>2. CASE EmulateSlot
    BY <2>1, <2>2 DEF EmulateSlot
  <2>3. CASE EmulateStep
    BY <2>1, <2>3 DEF EmulateStep, Handles
  <2>4. CASE Reset
    BY <1>1, <1>2, <2>4, ResetInProgress DEF Reset
  <2>5. CASE ServerCrash
    BY <1>2, <2>5 DEF ServerCrash
  <2>6. CASE ServerStep /\ ~ EmulateSlot /\ ~ EmulateStep /\ ~ Reset
    BY <1>2, <2>6, CalmSteps DEF Calm
  <2> QED BY <2>2, <2>3, <2>4, <2>5, <2>6
<1>4. /\ server.peer \in Clients => server'.peer = server.peer
      /\ server'.pc # "exit" => server.pc # "exit"
  <2>1. server.pc \in {"start", "wait"} => server.peer \notin Clients
    BY ServerAssumption DEF ServerInv
  <2>2. CASE ServerCrash
    BY <2>2, ServerCrashKeeps DEF Stops, ServerCrash
  <2>3. CASE ServerStep
    <3>1. ServerEffect
      BY <2>3, ServerEffects
    <3>2. CASE Receive
      BY <3>2, ReceiveShape DEF Peer, Receive
    <3>3. server.pc # "exit"
      BY <2>3 DEF ServerStep, Start, Accept, Receive, Exit, Reset, NumberOfElements,
                  InsertPowers, SendOutput, PrintOutput, SendOutputFiles, BeginSlot,
                  EmulateSlot, EmulateStep, Unknown, Leave, Handles
    <3> QED BY <2>1, <3>1, <3>2, <3>3 DEF ServerEffect, Stops, Turns, Sends
  <2> QED BY <2>2, <2>3
<1> QED BY <1>2, <1>3, <1>4

(* What follows for a client when the server is ahead of it *)
LEMMA AchievedKept ==
  ASSUME NEW c \in Clients, Achieved(c), UNCHANGED <<args, client>>,
         tdata.time \in Nat, tdata'.time \in Nat, tdata'.time >= tdata.time,
         server.peer \in Clients => server'.peer = server.peer, args \in CommandLine
  PROVE  Achieved(c)'
<1>1. Wanted \in Nat /\ Wanted' = Wanted
  BY ConsoleAssumption DEF Wanted, CommandLine
<1>2. Wanted * SlotLength \in Nat
  BY <1>1, SlotMultiples
<1> DEFINE goal == Wanted * SlotLength
<1>3. goal \in Nat /\ goal' = goal
  BY <1>1, <1>2
<1> HIDE DEF goal
<1>4. server.peer = c /\ tdata.time >= goal => server'.peer = c /\ tdata'.time >= goal
  BY <1>3
<1> QED BY <1>3, <1>4 DEF Achieved, goal

(* A calm step leaves the accepted client in step: what it may wait for is *)
(* on the same way as before, or an output has been sent.                  *)
LEMMA CalmKeeps ==
  ASSUME NEW c \in Clients, StepInv(c), Calm, UNCHANGED client,
         client[c].slot \in Nat, client[c].output \in 0 .. 6,
         At(c, "simulated?") =>
           /\ conn'[c].down = conn[c].down
           /\ server'.pc \in {"receive", "handle"} => server.pc \in {"receive", "handle"}
           /\ server'.pc = "slot" =>
                (server.pc = "handle" \/ server.pc = "slot") /\ conn[c].down = <<>>,
         At(c, "output?") =>
           \/ conn'[c].down = conn[c].down
           \/ /\ client[c].output > 0
              /\ conn'[c].down[1].time = tdata.time
              /\ conn'[c].down[1].n = tdata.temperatures.power[1]
  PROVE  StepInv(c)'
<1>1. /\ Counted(c)' = Counted(c) /\ (slot_completed(tdata))' = slot_completed(tdata)
      /\ \A n \in Nat : /\ Simulated(n)' <=> Simulated(n)
                        /\ Within(n)' <=> Within(n)
      /\ client'[c] = client[c]
  BY DEF Calm, Counted, slot_completed, Simulated, Within
<1>2. Counted(c) \in Nat /\ client[c].slot + 1 \in Nat
  BY DEF Counted
<1>3. CASE ~ At(c, "simulated?") /\ ~ At(c, "output?")
  BY <1>1, <1>2, <1>3 DEF StepInv, At
<1>4. CASE At(c, "simulated?")
  <2>1. ~ At(c, "output?")
    BY <1>4 DEF At
  <2> QED BY <1>1, <1>2, <1>4, <2>1 DEF StepInv, At, Calm
<1>5. CASE At(c, "output?")
  <2>1. ~ At(c, "simulated?") /\ Simulated(Counted(c))
    BY <1>5 DEF At, StepInv
  <2>2. CASE conn'[c].down = conn[c].down
    BY <1>1, <1>2, <1>5, <2>1, <2>2 DEF StepInv, At
  <2>3. CASE /\ client[c].output > 0
             /\ conn'[c].down[1].time = tdata.time
             /\ conn'[c].down[1].n = tdata.temperatures.power[1]
    <3>1. Counted(c) = client[c].slot + 1 /\ 1 \in Elements
      BY <2>3, ThermalAssumption DEF Counted, Elements
    <3>2. /\ conn'[c].down[1].time = (client[c].slot + 1) * SlotLength
          /\ conn'[c].down[1].n = client[c].slot + 1
      BY <2>1, <2>3, <3>1 DEF Simulated
    <3> QED BY <1>1, <1>2, <1>5, <2>1, <3>2 DEF StepInv, At
  <2> QED BY <1>5, <2>2, <2>3
<1> QED BY <1>3, <1>4, <1>5

(* The server's steps for a client that is still there *)

LEMMA AcceptKeeps ==
  ASSUME SessionInv, NEW c \in Clients, ~ At(c, "exit"), Accept(c), server'.peer = c,
         UNCHANGED client
  PROVE  StepInv(c)'
<1>1. /\ server.pc = "wait" /\ server.peer = Nobody /\ c # Nobody /\ tdata' = tdata
  BY ServerAssumption DEF SessionInv, ProtocolInv, ServerInv, Accept
<1>2. /\ client[c].slot = 0 /\ client[c].output = 0
      /\ client[c].pc \in {"connect", "elements", "elements?"}
      /\ Simulated(0)
  BY <1>1 DEF SessionInv, ProgressInv
<1>3. Counted(c)' = 0 /\ Simulated(0)'
  BY <1>1, <1>2 DEF Counted, Simulated
<1> QED BY <1>2, <1>3 DEF StepInv, At

(* One step of a slot *)
LEMMA EmulateSlotKeeps ==
  ASSUME SessionInv, NEW c \in Clients, ~ At(c, "exit"), server.peer = c, EmulateSlot,
         UNCHANGED client
  PROVE  StepInv(c)'
<1>1. /\ ServerInv /\ server.pc = "slot" /\ Handling(c) /\ client[c].slot \in Nat
      /\ client'[c] = client[c]
  BY LinkTypes DEF SessionInv, ProtocolInv, EmulateSlot, Handling, ClientType
<1>2. /\ At(c, "simulated?") /\ conn[c].client /\ conn[c].down = <<>>
  <2>1. /\ InHand(c) /\ conn[c].client /\ server.request.type = "SIMULATE_SLOT"
        /\ client[c].pc \in {"close"} \cup Waiting
    BY <1>1, NoneQueued DEF SessionInv, ServerInv
  <2> QED BY <2>1 DEF InHand, Asked, Expected, At, Waiting
<1> DEFINE k == client[c].slot
<1>3. /\ StepInv(c) /\ tdata.time \in k * SlotLength .. (k + 1) * SlotLength
      /\ Simulated(k) \/ Within(k)
  <2>1. StepInv(c)
    BY <1>1 DEF SessionInv, ProgressInv
  <2> QED BY <1>1, <1>2, <2>1 DEF StepInv
<1>4. /\ tdata \in ThermalType /\ tdata.config.analysis = "transient" /\ InProgress(tdata)
      /\ tdata.time \in Nat /\ 1 \in Elements
  <2>1. 1 \in Elements
    BY ThermalAssumption DEF Elements
  <2>2. tdata \in ThermalType /\ tdata.config.analysis = "transient" /\ InProgress(tdata)
    BY <1>1 DEF ServerInv
  <2> QED BY <2>1, <2>2 DEF ThermalType
<1>5. PICK out \in emulate_step(tdata) :
        /\ tdata' = out.td
        /\ \/ out.result = "STEP_DONE" /\ server' = server /\ conn' = conn
           \/ /\ out.result # "STEP_DONE"
              /\ server'.pc = "receive" => out.result \in Done
              /\ out.result \in SimResults
              /\ MayAnswer(Message("SIMULATE_SLOT", 0, out.result, 0))
  BY <1>1, EmulateSlotShape
<1>6. out.result # "STEP_DONE" =>
        /\ conn'[c].down = <<Message("SIMULATE_SLOT", 0, out.result, 0)>>
        /\ server'.pc \in {"receive", "leave"}
  <2> DEFINE m == Message("SIMULATE_SLOT", 0, out.result, 0)
  <2>1. Append(<<>>, m) = <<m>>
    OBVIOUS
  <2> HIDE DEF m
  <2> QED BY <1>1, <1>2, <1>5, <2>1 DEF MayAnswer, Sends, Peer, m
<1>7. (At(c, "simulated?"))' /\ ~ (At(c, "output?"))' /\ client'[c].slot = k
  BY <1>1, <1>2 DEF At
<1>8. CASE out.result \notin Done
  <2>1. tdata'.time = tdata.time /\ server'.pc = "leave"
    BY <1>4, <1>5, <1>6, <1>8, EmulateStepTyped DEF Done
  <2>2. conn'[c].down # <<>> /\ conn'[c].down[1].result # "SLOT_DONE"
    <3> DEFINE m == Message("SIMULATE_SLOT", 0, out.result, 0)
    <3>1. m.result = out.result
      BY DEF Message
    <3> HIDE DEF m
    <3>2. <<m>> # <<>> /\ <<m>>[1] = m
      OBVIOUS
    <3> QED BY <1>6, <1>8, <3>1, <3>2 DEF m, Done
  <2> QED BY <1>3, <1>7, <2>1, <2>2 DEF StepInv
<1>9. CASE out.result \in Done
  <2>1. /\ InProgress(tdata') /\ tdata'.time = tdata.time + 1 /\ tdata' \in ThermalType
        /\ out.result = IF slot_completed(tdata') THEN "SLOT_DONE" ELSE "STEP_DONE"
        /\ tdata'.temperatures.power = tdata'.power
    BY <1>4, <1>5, <1>9, EmulatedInProgress, EmulateStepTyped
  <2>2. SlotOf(tdata.time + 1) = k + 1
    <3>1. CASE Simulated(k)
      <4>1. tdata.time % SlotLength = 0
        BY <1>1, <3>1, SlotMultiples DEF Simulated
      <4>2. SlotOf(tdata.time) = k
        BY <1>4, <3>1 DEF Simulated, InProgress
      <4> QED BY <1>4, <4>1, <4>2, NextSlot
    <3>2. CASE Within(k)
      BY <1>4, <3>2, SameSlot DEF Within, slot_completed
    <3> QED BY <1>3, <3>1, <3>2
  <2>3. tdata'.time \in k * SlotLength .. (k + 1) * SlotLength /\ tdata'.time \in Nat
    BY <1>1, <1>4, <2>1, <2>2, SlotRange
  <2>4. CASE out.result = "STEP_DONE"
    <3>1. ~ slot_completed(tdata') /\ server' = server /\ conn'[c].down = <<>>
      BY <1>2, <1>5, <2>1, <2>4
    <3>2. Within(k)'
      BY <1>7, <2>1, <2>2, <3>1 DEF Within
    <3> QED BY <1>1, <1>7, <2>3, <3>1, <3>2 DEF StepInv
  <2>5. CASE out.result = "SLOT_DONE"
    <3>1. tdata'.time % SlotLength = 0
      BY <2>1, <2>5 DEF slot_completed
    <3>2. tdata'.time = (k + 1) * SlotLength
      BY <2>1, <2>2, <2>3, <3>1, SlotEnd
    <3>3. \A e \in Elements : tdata'.taken[e] = k + 1 /\ tdata'.temperatures.power[e] = k + 1
      BY <2>1, <2>2 DEF InProgress
    <3>4. Simulated(k + 1)'
      BY <1>7, <3>2, <3>3 DEF Simulated
    <3>5. conn'[c].down # <<>>
      <4> DEFINE m == Message("SIMULATE_SLOT", 0, out.result, 0)
      <4> HIDE DEF m
      <4>1. <<m>> # <<>>
        OBVIOUS
      <4> QED BY <1>6, <2>5, <4>1 DEF m
    <3> QED BY <1>6, <1>7, <2>3, <2>5, <3>4, <3>5 DEF StepInv
  <2> QED BY <1>9, <2>4, <2>5 DEF Done
<1> QED BY <1>8, <1>9

(* The other steps, by where the server is *)
LEMMA AcceptedKeeps ==
  ASSUME SessionInv, NEW c \in Clients, ~ At(c, "exit"), server.peer = c,
         ServerStep \/ ServerCrash, UNCHANGED client
  PROVE  StepInv(c)'
<1>1. /\ ServerInv /\ ProtocolInv /\ StepInv(c) /\ server.pc \notin {"start", "wait"}
      /\ client[c].slot \in Nat /\ client[c].output \in 0 .. 6
      /\ ~ At(c, "connect") /\ conn[c].client
      /\ Peer = c
  <2>1. client[c] \in ClientType /\ LinkInv(c) /\ ServerInv /\ ProtocolInv /\ c # Nobody
    BY LinkTypes DEF SessionInv, ProtocolInv
  <2>2. StepInv(c)
    BY DEF SessionInv, ProgressInv
  <2> QED BY <2>1, <2>2 DEF ClientType, LinkInv, ServerInv, Peer, At
<1>2. CASE ServerCrash
  <2>1. Stops /\ Calm
    BY <1>1, <1>2, ServerCrashKeeps DEF ServerCrash, Calm
  <2> QED BY <1>1, <2>1, CalmKeeps DEF Stops
<1>3. CASE EmulateSlot
  BY <1>3, EmulateSlotKeeps
<1>4. CASE Receive
  <2>1. Calm /\ server.pc = "receive"
    BY <1>1, <1>4, CalmSteps DEF ServerStep, Receive, EmulateSlot, EmulateStep, Reset, Handles
  <2> QED BY <1>1, <1>4, <2>1, CalmKeeps, ReceiveShape
<1>5. CASE Leave
  <2>1. Calm
    BY <1>5 DEF Leave, Calm
  <2> QED BY <1>1, <1>5, <2>1, CalmKeeps, LeaveShape DEF Stops
<1>6. CASE server.pc = "handle" /\ ServerStep
  <2>1. InHand(c) /\ client[c].pc \in {"close"} \cup Waiting
    BY <1>1, <1>6, NoneQueued DEF Handling
  <2>2. /\ server.request.type \in Asked(c) /\ conn[c].down = <<>>
        /\ server.request.type \in {"EXIT_SIMULATION", "TOTAL_NUMBER_OF_FLOORPLAN_ELEMENTS",
                                    "INSERT_POWERS", "SIMULATE_SLOT", "SEND_OUTPUT"}
    BY <2>1 DEF InHand, Asked, Expected, At
  <2>3. Exit \/ NumberOfElements \/ InsertPowers \/ SendOutput \/ BeginSlot
    BY <1>6, <2>2
    DEF ServerStep, Start, Accept, Receive, Exit, Reset, NumberOfElements, InsertPowers,
        SendOutput, PrintOutput, SendOutputFiles, BeginSlot, EmulateSlot, EmulateStep,
        Unknown, Leave, Handles
  <2>4. Calm
    BY <1>1, <1>6, <2>2, CalmSteps DEF EmulateSlot, EmulateStep, Reset, Handles
  <2>5. ASSUME NEW m \in Replies, MayAnswer(m)
        PROVE  /\ conn'[c].down = <<m>> /\ <<m>>[1] = m
               /\ server'.pc # "slot"
    <3>1. Append(<<>>, m) = <<m>>
      OBVIOUS
    <3> QED BY <1>1, <2>2, <2>5, <3>1 DEF MayAnswer, Sends
  <2>6. CASE At(c, "simulated?")
    <3>1. BeginSlot
      BY <2>2, <2>3, <2>6 DEF Asked, Expected, At, Exit, NumberOfElements, InsertPowers,
                              SendOutput, Handles
    <3> QED BY <1>1, <1>6, <2>2, <2>4, <2>6, <3>1, CalmKeeps, BeginSlotShape DEF Turns, At
  <2>7. CASE At(c, "output?")
    <3>1. SendOutput
      BY <2>2, <2>3, <2>7 DEF Asked, Expected, At, Exit, NumberOfElements, InsertPowers,
                              BeginSlot, Handles
    <3> DEFINE m == Message("SEND_OUTPUT", tdata.temperatures.power[1], "none", tdata.time)
    <3>2. m \in Replies /\ MayAnswer(m)
      BY <1>1, <3>1, OutputShape
    <3>3. m.time = tdata.time /\ m.n = tdata.temperatures.power[1]
      BY DEF Message
    <3> HIDE DEF m
    <3>4. conn'[c].down[1] = m
      BY <2>5, <3>2
    <3>5. client[c].output > 0
      BY <2>7 DEF SessionInv, ProgressInv, At
    <3> QED BY <1>1, <2>4, <2>7, <3>3, <3>4, <3>5, CalmKeeps DEF At
  <2> QED BY <1>1, <2>4, <2>6, <2>7, CalmKeeps
<1>7. ServerStep => Receive \/ Leave \/ EmulateSlot \/ server.pc = "handle"
  BY <1>1 DEF ServerStep, Start, Accept, Exit, Reset, NumberOfElements, InsertPowers,
              SendOutput, PrintOutput, SendOutputFiles, BeginSlot, EmulateStep, Unknown, Handles
<1> QED BY <1>2, <1>3, <1>4, <1>5, <1>6, <1>7

LEMMA ServerProgress ==
  ASSUME SessionInv, ServerStep \/ ServerCrash, UNCHANGED <<args, client, trace>>,
         NEW c \in Clients
  PROVE  ProgressInv(c)'
<1>1. /\ ProgressInv(c) /\ ServerInv /\ args \in CommandLine /\ client'[c] = client[c]
      /\ c # Nobody
  BY LinkTypes DEF SessionInv, ProtocolInv
<1>2. /\ tdata.time \in Nat /\ tdata'.time \in Nat /\ tdata'.time >= tdata.time
      /\ server.peer \in Clients => server'.peer = server.peer
      /\ server'.pc # "exit" => server.pc # "exit"
  BY <1>1, ServerMonotone
<1>3. client[c].pc \in {"finish", "close"} \/ client[c].status = "EXIT_SUCCESS" => Achieved(c)'
  BY <1>1, <1>2, AchievedKept DEF ProgressInv
<1>4. ~ At(c, "exit") /\ server'.peer = c => StepInv(c)'
  <2>1. CASE ~ At(c, "exit") /\ server.peer = c
    BY <2>1, AcceptedKeeps
  <2>2. CASE ~ At(c, "exit") /\ server.peer # c /\ server'.peer = c
    <3>1. Accept(c)
      <4>1. CASE ServerCrash
        BY <1>1, <2>2, <4>1, ServerCrashKeeps DEF Stops
      <4>2. CASE ServerStep
        <5>1. server.peer \notin Clients /\ ServerEffect /\ server'.peer # server.peer
          BY <1>1, <1>2, <2>2, <4>2, ServerEffects
        <5>2. ~ Receive
          BY <1>1, <5>1, ReceiveShape DEF Peer
        <5>3. server.pc = "wait"
          BY <5>1, <5>2 DEF ServerEffect, Stops, Turns, Sends
        <5>4. PICK d \in Clients : Accept(d)
          BY <4>2, <5>3 DEF ServerStep, Start, Receive, Exit, Reset, NumberOfElements,
             InsertPowers, SendOutput, PrintOutput, SendOutputFiles, BeginSlot, EmulateSlot,
             EmulateStep, Unknown, Leave, Handles
        <5>5. server'.peer = d
          BY <1>1, <5>1, <5>4, AcceptShape DEF Stops
        <5> QED BY <2>2, <5>4, <5>5
      <4> QED BY <4>1, <4>2
    <3> QED BY <2>2, <3>1, AcceptKeeps
  <2> QED BY <2>1, <2>2
<1>5. server'.peer # c => server.peer # c
  BY <1>2
<1>6. server.peer = c => server'.peer = c
  BY <1>2
<1> QED BY <1>1, <1>2, <1>3, <1>4, <1>5, <1>6 DEF ProgressInv, At, Right

(* A row that was cut leaves its queue without a sender, and what the      *)
(* server receives after it is the end of the connection.                  *)
LEMMA ServerTorn ==
  ASSUME SessionInv, ServerStep \/ ServerCrash, UNCHANGED client
  PROVE  TornInv'
<1>1. ServerInv /\ ProtocolInv /\ TornInv
  BY DEF SessionInv, ProtocolInv
<1>2. CASE torn # {} /\ torn' = torn /\ tdata' = tdata
  <2> DEFINE p == server.peer
  <2>1. /\ p \in Clients /\ ~ conn[p].client /\ conn[p].up = <<>> /\ Peer = p
        /\ \/ server.pc \in {"receive", "leave", "exit"}
           \/ server.pc = "handle" /\ server.request.type = "EXIT_SIMULATION"
        /\ \A row \in torn : row \in Nat /\ tdata.taken[1] < row
    BY <1>1, <1>2 DEF TornInv, Peer
  <2>2. server'.peer = p
    BY <1>1, <2>1, ServerMonotone
  <2>3. CASE ServerCrash
    BY <1>1, <1>2, <2>1, <2>2, <2>3, ServerCrashKeeps DEF TornInv, Stops
  <2>4. CASE Receive
    <3>1. server'.request = Request("EXIT_SIMULATION", 0) /\ server'.pc = "handle"
      BY <1>1, <2>1, <2>4, ReceiveShape
    <3>2. server'.request.type = "EXIT_SIMULATION"
      BY <3>1 DEF Request, Message
    <3>3. ~ conn'[p].client /\ conn'[p].up = <<>>
      BY <1>1, <2>1, <2>4, ReceiveShape
    <3> QED BY <1>2, <2>1, <2>2, <3>1, <3>2, <3>3 DEF TornInv
  <2>5. CASE Leave
    BY <1>1, <1>2, <2>1, <2>2, <2>5, LeaveShape DEF TornInv, Stops
  <2>6. CASE Exit
    BY <1>1, <1>2, <2>1, <2>2, <2>6, ExitShape DEF TornInv, Turns
  <2>7. ServerStep => Receive \/ Leave \/ Exit
    BY <2>1 DEF ServerStep, Start, Accept, Reset, NumberOfElements, InsertPowers, SendOutput,
                PrintOutput, SendOutputFiles, BeginSlot, EmulateSlot, EmulateStep, Unknown,
                Handles
  <2> QED BY <2>3, <2>4, <2>5, <2>6, <2>7
<1>3. CASE torn = {} /\ InsertPowers /\ server.request.cut
  <2> DEFINE p == server.peer
  <2>1. p \in Clients /\ Handling(p) /\ server.pc = "handle" /\ Peer = p
    BY <1>1, <1>3 DEF InsertPowers, Handles, ServerInv, Serving, Handling, Peer
  <2>2. LinkInv(p) /\ ~ conn[p].client /\ InProgress(tdata) /\ tdata \in ThermalType
    BY <1>1, <1>3, <2>1, LinkTypes DEF LinkInv, ServerInv
  <2>3. conn[p].up = <<>>
    BY <1>1, <2>1, OneQueued
  <2>4. /\ server'.peer = p /\ server'.pc \in {"receive", "leave", "exit"}
        /\ ~ conn'[p].client /\ conn'[p].up = <<>>
    BY <1>1, <1>3, <2>1, <2>2, <2>3, InsertShape DEF MayAnswer, Sends, Turns, Stops
  <2>5. torn' = {tdata.supplied[1] + 1}
    BY <1>3 DEF InsertPowers
  <2>6. /\ tdata.supplied[1] \in Nat /\ tdata.taken[1] \in Nat
        /\ tdata.taken[1] <= tdata.supplied[1]
    <3>1. 1 \in Elements
      BY ThermalAssumption DEF Elements
    <3> QED BY <2>2, <3>1 DEF ThermalType, InProgress
  <2>7. tdata'.taken = tdata.taken
    BY <1>1, <1>3, <2>2, InsertShape, InsertedInProgress
  <2> QED BY <2>1, <2>4, <2>5, <2>6, <2>7 DEF TornInv
<1>4. CASE torn = {} /\ ~ (InsertPowers /\ server.request.cut)
  <2>1. torn' = {}
    BY <1>4 DEF ServerStep, ServerCrash, Start, Accept, Receive, Exit, Reset, NumberOfElements,
                InsertPowers, SendOutput, PrintOutput, SendOutputFiles, BeginSlot, EmulateSlot,
                EmulateStep, Unknown, Leave
  <2> QED BY <2>1 DEF TornInv
<1>5. torn # {} => torn' = torn /\ tdata' = tdata
  <2> SUFFICES ASSUME torn # {} PROVE torn' = torn /\ tdata' = tdata
    OBVIOUS
  <2>1. \/ server.pc \in {"receive", "leave", "exit"}
        \/ server.pc = "handle" /\ server.request.type = "EXIT_SIMULATION"
    BY <1>1 DEF TornInv
  <2> QED BY <2>1 DEF ServerStep, ServerCrash, Start, Accept, Receive, Exit, Reset,
             NumberOfElements, InsertPowers, SendOutput, PrintOutput, SendOutputFiles,
             BeginSlot, EmulateSlot, EmulateStep, Unknown, Leave, Handles
<1> QED BY <1>2, <1>3, <1>4, <1>5

LEMMA ServerSession ==
  ASSUME SessionInv, ServerStep \/ ServerCrash, UNCHANGED <<args, client, trace>>
  PROVE  SessionInv'
<1>1. ProtocolInv' /\ ServerInv
  BY ServerProtocol DEF SessionInv, ProtocolInv
<1>2. server'.pc \in {"start", "wait"} => Simulated(0)'
  <2> SUFFICES ASSUME server'.pc \in {"start", "wait"} PROVE Simulated(0)'
    OBVIOUS
  <2>1. ~ ServerCrash
    BY <1>1, ServerCrashKeeps DEF Stops
  <2>2. ~ Receive
    BY <1>1, ReceiveShape
  <2>3. ServerEffect
    BY <1>1, <2>1, ServerEffects
  <2>4. server.pc \in {"start", "wait"}
    BY <1>1, <2>2, <2>3 DEF ServerEffect, Stops, Turns, Sends
  <2>5. Calm
    BY <1>1, <2>1, <2>4, CalmSteps DEF EmulateSlot, EmulateStep, Reset, Handles
  <2> QED BY <2>4, <2>5 DEF SessionInv, Simulated, Calm
<1> QED BY <1>1, <1>2, ServerProgress, ServerTorn DEF SessionInv

(* What a step of a client leaves alone *)
LEMMA OwnStep ==
  ASSUME ProtocolInv, NEW c \in Clients, ClientStep(c) \/ ClientCrash(c)
  PROVE  /\ Elsewhere(c) /\ ~ At(c, "exit")
         /\ UNCHANGED <<server, tdata, torn, args, trace>>
<1>1. CASE ClientCrash(c)
  BY <1>1, CrashShape
<1>2. CASE ClientStep(c)
  <2>1. ~ At(c, "exit") /\ UNCHANGED <<server, tdata, torn, args, trace>>
    BY <1>2 DEF ClientStep, Connect, NoMap, AskElements, LearnElements, SendRow, HasRow,
                TraceOver, EndLoop, RowInserted, AskSlot, SlotResult, AskOutput, ReadOutput,
                OutputFailed, Finish, Close, At
  <2> SUFFICES Elsewhere(c)
    BY <2>1
  <2>2. client \in [Clients -> ClientType] /\ conn \in [Clients -> Connection]
    BY LinkTypes
  <2>3. ASSUME NEW status \in {"EXIT_SUCCESS", "EXIT_FAILURE", "killed"},
               ClientExit(c, status)
        PROVE  Elsewhere(c)
    BY <2>3, EndShape
  <2>4. ASSUME NEW m \in Requests, NEW pc \in {"close"} \cup Waiting, Send(c, m, pc),
               client[c].pc \in Idle
        PROVE  Elsewhere(c)
    BY <2>4, SendShape
  <2>5. ASSUME Consume(c), \A d \in Clients \ {c} : client'[d] = client[d]
        PROVE  Elsewhere(c)
    BY <2>2, <2>5 DEF Consume, Elsewhere
  <2>6. CASE NoMap(c) \/ TraceOver(c) \/ OutputFailed(c) \/ Close(c)
    BY <2>3, <2>6 DEF NoMap, TraceOver, OutputFailed, Close
  <2>7. CASE AskElements(c) \/ SendRow(c) \/ AskSlot(c) \/ AskOutput(c) \/ Finish(c)
    <3>1. ASSUME NEW type \in RequestTypes, NEW n \in Nat, NEW pc \in {"close"} \cup Waiting,
                 Send(c, Request(type, n), pc), client[c].pc \in Idle
          PROVE  Elsewhere(c)
      BY <2>4, <3>1, RequestsSent
    <3>2. /\ {"TOTAL_NUMBER_OF_FLOORPLAN_ELEMENTS", "INSERT_POWERS", "SIMULATE_SLOT",
              "SEND_OUTPUT", "EXIT_SIMULATION"} \subseteq RequestTypes
          /\ {"elements?", "inserted?", "simulated?", "output?", "close"}
                \subseteq {"close"} \cup Waiting
          /\ client[c].nflpel \in Nat
      BY RequestsSent DEF RequestTypes, Waiting
    <3>3. CASE AskElements(c)
      BY <3>1, <3>2, <3>3 DEF AskElements, At, Idle
    <3>4. CASE SendRow(c)
      BY <3>1, <3>2, <3>4 DEF SendRow, HasRow, Row, At, Idle
    <3>5. CASE AskSlot(c)
      BY <3>1, <3>2, <3>5 DEF AskSlot, At, Idle
    <3>6. CASE AskOutput(c)
      BY <2>3, <3>1, <3>2, <3>6 DEF AskOutput, At, Idle
    <3>7. CASE Finish(c)
      BY <3>1, <3>2, <3>7 DEF Finish, At, Idle
    <3> QED BY <2>7, <3>3, <3>4, <3>5, <3>6, <3>7
  <2>8. CASE Connect(c)
    BY <2>3, <2>8, ConnectShape
  <2>9. CASE EndLoop(c) \/ RowInserted(c)
    <3>1. \A d \in Clients \ {c} : client'[d] = client[d]
      BY <2>2, <2>9 DEF EndLoop, RowInserted, Goto
    <3> QED BY <2>2, <2>5, <2>9, <3>1 DEF EndLoop, RowInserted, Elsewhere
  <2>10. CASE LearnElements(c)
    BY <2>5, <2>10, LearnShape DEF LearnElements
  <2>11. CASE ReadOutput(c)
    BY <2>5, <2>11, ReadShape DEF ReadOutput
  <2>12. CASE SlotResult(c)
    BY <2>3, <2>5, <2>12, ResultShape
  <2> QED BY <1>2, <2>6, <2>7, <2>8, <2>9, <2>10, <2>11, <2>12 DEF ClientStep
<1> QED BY <1>1, <1>2

(* The client's steps, as far as its own progress is concerned *)

(* What the proof about each of them starts from *)
LEMMA ProgressFacts ==
  ASSUME SessionInv, NEW c \in Clients
  PROVE  /\ ProtocolInv /\ ProgressInv(c) /\ LinkInv(c)
         /\ client[c].slot \in Nat /\ client[c].nflpel \in Nat /\ client[c].output \in 0 .. 6
         /\ At(c, "connect") => server.peer # c
BY LinkTypes DEF SessionInv, ClientType, LinkInv

LEMMA EndProgress ==
  ASSUME SessionInv, NEW c \in Clients, NEW status, Ends(c, status),
         UNCHANGED <<server, tdata, args>>,
         status = "EXIT_SUCCESS" => Achieved(c)
  PROVE  ProgressInv(c)'
<1>1. ProgressInv(c)
  BY ProgressFacts
<1>2. Achieved(c) => Achieved(c)'
  BY DEF Achieved, Ends, Wanted
<1> QED BY <1>1, <1>2 DEF ProgressInv, Ends, At, Right

(* It goes on at pc; only "simulated?" has conditions of its own *)
LEMMA GoProgress ==
  ASSUME SessionInv, NEW c \in Clients, NEW pc, GoesTo(c, pc),
         UNCHANGED <<server, tdata, args>>, ~ At(c, "exit"),
         pc \in {"elements", "elements?", "inserted?", "simulate", "simulated?", "output?",
                 "finish", "close"},
         client[c].pc = "output" <=> pc = "output?",
         client[c].pc = "connect" => pc = "elements",
         client[c].pc \notin {"simulated?", "output?"},
         client[c].pc \in {"connect", "elements", "elements?"} =>
           pc \in {"elements", "elements?"},
         pc \in {"simulated?", "output?"} => conn'[c].down = <<>>,
         pc \in {"finish", "close"} => Achieved(c)
  PROVE  ProgressInv(c)'
<1>1. /\ ProgressInv(c) /\ client[c].slot \in Nat
      /\ At(c, "connect") => server.peer # c
  BY ProgressFacts
<1>2. Achieved(c) => Achieved(c)'
  BY DEF Achieved, GoesTo, Wanted
<1>3. /\ Counted(c)' = Counted(c) /\ \A n \in Nat : Simulated(n)' <=> Simulated(n)
      /\ Counted(c) \in Nat
  <2>1. Counted(c)' = Counted(c) /\ Counted(c) \in Nat
    BY <1>1 DEF Counted, GoesTo
  <2> QED BY <2>1 DEF Simulated
<1>4. server.peer = c => StepInv(c)'
  <2> SUFFICES ASSUME server.peer = c PROVE StepInv(c)'
    OBVIOUS
  <2>1. Simulated(Counted(c)) /\ Simulated(Counted(c))'
    BY <1>1, <1>3 DEF ProgressInv, StepInv, At
  <2>2. CASE pc # "simulated?"
    BY <1>3, <2>1, <2>2 DEF StepInv, GoesTo, At
  <2>3. CASE pc = "simulated?"
    <3>1. client[c].output = 0 /\ client'[c].slot = client[c].slot
      <4>1. client[c].output \in 0 .. 6
        BY ProgressFacts
      <4>2. ~ (client[c].output > 0)
        BY <1>1, <2>3 DEF ProgressInv, At
      <4> QED BY <4>1, <4>2 DEF GoesTo
    <3>2. Simulated(client[c].slot) /\ Simulated(client[c].slot)'
      BY <2>1, <3>1 DEF Counted, GoesTo
    <3>3. tdata.time \in client[c].slot * SlotLength .. (client[c].slot + 1) * SlotLength
      <4>1. /\ client[c].slot * SlotLength \in Nat /\ SlotLength \in Nat
            /\ (client[c].slot + 1) * SlotLength = client[c].slot * SlotLength + SlotLength
        BY <1>1, SlotMultiples, ThermalAssumption
      <4>2. tdata.time = client[c].slot * SlotLength
        BY <3>2 DEF Simulated
      <4> QED BY <4>1, <4>2
    <3> QED BY <2>3, <3>1, <3>2, <3>3 DEF StepInv, GoesTo, At
  <2> QED BY <2>2, <2>3
<1>5. /\ client'[c].output > 0 <=> client'[c].pc \in {"output", "output?"}
      /\ client'[c].status = "none"
  <2>1. client[c].pc \in {"output", "output?"} <=> pc \in {"output", "output?"}
    OBVIOUS
  <2> QED BY <1>1, <2>1 DEF ProgressInv, GoesTo
<1>6. server.peer # c =>
        /\ client'[c].slot = 0 /\ client'[c].output = 0
        /\ server.pc # "exit" => client'[c].pc \in {"connect", "elements", "elements?"}
  <2> SUFFICES ASSUME server.peer # c
               PROVE  /\ client'[c].slot = 0 /\ client'[c].output = 0
                      /\ server.pc # "exit" =>
                           client'[c].pc \in {"connect", "elements", "elements?"}
    OBVIOUS
  <2>1. /\ client[c].slot = 0 /\ client[c].output = 0
        /\ server.pc # "exit" => client[c].pc \in {"connect", "elements", "elements?"}
    BY <1>1 DEF ProgressInv
  <2> QED BY <2>1 DEF GoesTo
<1>7. Right(client'[c].answer) /\ (client'[c].nflpel # 0 => server.peer = c)
  BY <1>1 DEF ProgressInv, GoesTo
<1>8. client'[c].pc \in {"finish", "close"} \/ client'[c].status = "EXIT_SUCCESS" => Achieved(c)'
  BY <1>2, <1>5 DEF GoesTo
<1> QED BY <1>4, <1>5, <1>6, <1>7, <1>8 DEF ProgressInv, Right

(* A request is sent *)
LEMMA SendProgress ==
  ASSUME SessionInv, NEW c \in Clients, NEW type \in RequestTypes, NEW n \in Nat,
         NEW pc \in {"elements?", "inserted?", "simulated?", "output?", "close"},
         Send(c, Request(type, n), pc),
         client[c].pc = CASE pc = "elements?" -> "elements" [] pc = "inserted?" -> "slots"
                          [] pc = "simulated?" -> "simulate" [] pc = "output?" -> "output"
                          [] pc = "close" -> "finish",
         UNCHANGED <<server, tdata, args>>
  PROVE  ProgressInv(c)'
<1>1. client[c].pc \in Idle /\ ~ At(c, "exit")
  BY DEF Idle, At
<1>2. /\ ProtocolInv /\ conn[c].down = <<>>
      /\ At(c, "finish") => Achieved(c)
  BY <1>1, ProgressFacts DEF LinkInv, Quiet, ProgressInv, At
<1>3. \/ GoesTo(c, pc) /\ conn'[c].down = conn[c].down
      \/ Ends(c, "killed")
  <2> DEFINE m == Request(type, n)
  <2>1. m \in Requests /\ pc \in {"close"} \cup Waiting
    BY <1>2, RequestsSent DEF Waiting
  <2> HIDE DEF m
  <2>2. Send(c, m, pc)
    BY DEF m
  <2> QED BY <1>1, <1>2, <2>1, <2>2, SendShape DEF SameConnection
<1>4. CASE GoesTo(c, pc) /\ conn'[c].down = conn[c].down
  <2>1. pc = "close" => Achieved(c)
    BY <1>2 DEF At
  <2>2. /\ client[c].pc = "output" <=> pc = "output?"
        /\ client[c].pc \notin {"simulated?", "output?", "connect"}
        /\ client[c].pc \in {"connect", "elements", "elements?"} =>
             pc \in {"elements", "elements?"}
    OBVIOUS
  <2> QED BY <1>1, <1>2, <1>4, <2>1, <2>2, GoProgress
<1>5. CASE Ends(c, "killed")
  BY <1>5, EndProgress
<1> QED BY <1>3, <1>4, <1>5

LEMMA LearnProgress ==
  ASSUME SessionInv, NEW c \in Clients, LearnElements(c), UNCHANGED <<server, tdata, args>>
  PROVE  ProgressInv(c)'
<1>1. /\ ProtocolInv /\ ProgressInv(c) /\ client[c].slot \in Nat /\ client[c].output \in 0 .. 6
      /\ At(c, "elements?") /\ client[c].pc \in Waiting /\ Returns(c)
  BY ProgressFacts DEF LearnElements, At, Waiting
<1>2. /\ client'[c].pc = "slots" /\ client'[c].nflpel = Received(c).n
      /\ client'[c].slot = client[c].slot /\ client'[c].output = client[c].output
      /\ client'[c].answer = client[c].answer /\ client'[c].status = client[c].status
  BY <1>1, LearnShape
<1>3. \/ server.peer = c
      \/ server.pc = "exit" /\ Received(c).n = 0
  <2>1. Message("none", 0, "none", 0).n = 0
    BY DEF Message
  <2> QED BY <1>1, <2>1, ReturnShape DEF Replied
<1>4. server.peer = c => StepInv(c)'
  <2> SUFFICES ASSUME server.peer = c PROVE StepInv(c)'
    OBVIOUS
  <2>1. Simulated(Counted(c))
    BY <1>1 DEF ProgressInv, StepInv, At
  <2>2. Counted(c)' = Counted(c)
    BY <1>2 DEF Counted
  <2>3. Simulated(Counted(c))'
    BY <2>1, <2>2 DEF Simulated
  <2> QED BY <1>2, <2>3 DEF StepInv, At
<1> QED BY <1>1, <1>2, <1>3, <1>4 DEF ProgressInv, At, Right

(* The slots are over: all that are wanted have been simulated *)
LEMMA EndLoopProgress ==
  ASSUME SessionInv, NEW c \in Clients, EndLoop(c), UNCHANGED <<server, tdata, args>>
  PROVE  ProgressInv(c)'
<1>1. /\ ProtocolInv /\ ProgressInv(c) /\ client[c].slot \in Nat /\ client[c].nflpel \in Nat
      /\ client[c].output \in 0 .. 6 /\ At(c, "slots")
      /\ args \in CommandLine
  BY ProgressFacts DEF EndLoop, ProtocolInv
<1> DEFINE slot == client[c].slot
<1>2. args.nslots \in Nat /\ Sentinel \in Nat /\ Wanted \in Nat
  BY <1>1, ConsoleAssumption DEF CommandLine, Wanted
<1>3. (args.untilMinusOne => client[c].nflpel # 0) => slot > 0 \/ server.peer = c
  <2> SUFFICES ASSUME args.untilMinusOne => client[c].nflpel # 0, slot = 0
               PROVE  server.peer = c
    BY <1>1
  <2>1. CASE client[c].nflpel # 0
    BY <1>1, <2>1 DEF ProgressInv
  <2>2. CASE client[c].nflpel = 0
    <3>1. args.nslots # 0 /\ ~ LastRow(c)
      BY <1>1, <2>2 DEF CommandLine, LastRow
    <3> QED BY <1>2, <3>1 DEF EndLoop, MoreSlots
  <2> QED BY <2>1, <2>2
<1>4. (args.untilMinusOne => client[c].nflpel # 0) => Wanted <= slot
  <2> SUFFICES ASSUME args.untilMinusOne => client[c].nflpel # 0 PROVE Wanted <= slot
    OBVIOUS
  <2>1. CASE ~ MoreSlots(c)
    BY <1>1, <1>2, <2>1 DEF MoreSlots, Wanted
  <2>2. CASE LastRow(c)
    BY <1>1, <1>2, <2>2 DEF LastRow, AtSentinel, Wanted
  <2> QED BY <2>1, <2>2 DEF EndLoop
<1>5. Achieved(c)
  <2> SUFFICES ASSUME args.untilMinusOne => client[c].nflpel # 0
               PROVE  server.peer = c /\ tdata.time >= Wanted * SlotLength
    BY DEF Achieved
  <2>1. server.peer = c
    BY <1>1, <1>3 DEF ProgressInv, At
  <2>2. tdata.time = slot * SlotLength
    <3>1. ~ (client[c].output > 0)
      BY <1>1 DEF ProgressInv, At
    <3>2. Simulated(Counted(c)) /\ Counted(c) = slot
      BY <1>1, <2>1, <3>1 DEF ProgressInv, StepInv, At, Counted
    <3> QED BY <3>2 DEF Simulated
  <2>3. Wanted * SlotLength <= slot * SlotLength /\ Wanted * SlotLength \in Nat
        /\ slot * SlotLength \in Nat
    BY <1>1, <1>2, <1>4, SlotMultiples
  <2> QED BY <2>1, <2>2, <2>3
<1>6. GoesTo(c, "finish")
  BY <1>1, GotoShape DEF EndLoop, Idle
<1> QED BY <1>1, <1>5, <1>6, GoProgress DEF At

LEMMA ResultProgress ==
  ASSUME SessionInv, NEW c \in Clients, SlotResult(c), UNCHANGED <<server, tdata, args>>
  PROVE  ProgressInv(c)'
<1>1. /\ ProtocolInv /\ ProgressInv(c) /\ client[c].slot \in Nat /\ client[c].output \in 0 .. 6
      /\ At(c, "simulated?") /\ client[c].pc \in Waiting /\ Returns(c)
  BY ProgressFacts DEF SlotResult, At, Waiting
<1>2. CASE ClientExit(c, "EXIT_FAILURE")
  BY <1>1, <1>2, EndShape, EndProgress
<1>3. CASE ~ ClientExit(c, "EXIT_FAILURE")
  <2>1. /\ Received(c).result = "SLOT_DONE"
        /\ client'[c].pc = "output" /\ client'[c].output = 1
        /\ client'[c].slot = client[c].slot /\ client'[c].nflpel = client[c].nflpel
        /\ client'[c].answer = client[c].answer /\ client'[c].status = client[c].status
    BY <1>1, <1>3, ResultShape
  <2>2. /\ server.peer = c /\ conn[c].down # <<>> /\ conn[c].down[1].result = "SLOT_DONE"
    <3>1. Message("none", 0, "none", 0).result = "none"
      BY DEF Message
    <3> QED BY <1>1, <2>1, <3>1, ReturnShape DEF Replied, Succeeds
  <2>3. Simulated(client[c].slot + 1)
    BY <1>1, <2>2 DEF ProgressInv, StepInv, At
  <2>4. Counted(c)' = client[c].slot + 1
    BY <2>1 DEF Counted
  <2>5. Simulated(Counted(c))'
    BY <2>3, <2>4 DEF Simulated
  <2>6. StepInv(c)'
    BY <2>1, <2>5 DEF StepInv, At
  <2> QED BY <1>1, <2>1, <2>2, <2>6 DEF ProgressInv, At, Right
<1> QED BY <1>2, <1>3

LEMMA ReadProgress ==
  ASSUME SessionInv, NEW c \in Clients, ReadOutput(c), UNCHANGED <<server, tdata, args>>
  PROVE  ProgressInv(c)'
<1>1. /\ ProtocolInv /\ ProgressInv(c) /\ client[c].slot \in Nat /\ client[c].output \in 0 .. 6
      /\ At(c, "output?") /\ client[c].pc \in Waiting /\ Returns(c)
  BY ProgressFacts DEF ReadOutput, At, Waiting
<1>2. client[c].output > 0 /\ server.peer = c /\ StepInv(c)
  BY <1>1 DEF ProgressInv, At
<1>3. /\ client'[c].nflpel = client[c].nflpel /\ client'[c].status = client[c].status
      /\ \/ /\ client[c].output < 6 /\ client'[c].pc = "output"
            /\ client'[c].output = client[c].output + 1
            /\ client'[c].slot = client[c].slot
         \/ /\ client[c].output = 6 /\ client'[c].pc = "slots"
            /\ client'[c].output = 0 /\ client'[c].slot = client[c].slot + 1
      /\ client'[c].answer = IF Succeeds(c)
                             THEN [slot |-> client[c].slot + 1, time |-> Received(c).time,
                                   row |-> Received(c).n]
                             ELSE NoAnswer
  BY <1>1, ReadShape
<1>4. Right(client'[c].answer)
  <2>1. CASE Succeeds(c)
    <3>1. Received(c) = conn[c].down[1] /\ conn[c].down # <<>>
      BY <1>1, <2>1, ReturnShape DEF Succeeds
    <3>2. Received(c).time = (client[c].slot + 1) * SlotLength /\ Received(c).n = client[c].slot + 1
      BY <1>1, <1>2, <3>1 DEF StepInv
    <3> QED BY <1>3, <2>1, <3>2 DEF Right
  <2>2. CASE ~ Succeeds(c)
    BY <1>3, <2>2 DEF Right, NoAnswer
  <2> QED BY <2>1, <2>2
<1>5. StepInv(c)'
  <2>1. Simulated(Counted(c)) /\ Counted(c) = client[c].slot + 1
    BY <1>1, <1>2 DEF StepInv, At, Counted
  <2>2. Counted(c)' = client[c].slot + 1
    BY <1>1, <1>3 DEF Counted
  <2>3. Simulated(Counted(c))'
    BY <2>1, <2>2 DEF Simulated
  <2> QED BY <1>3, <2>3 DEF StepInv, At
<1> QED BY <1>1, <1>2, <1>3, <1>4, <1>5 DEF ProgressInv, At

LEMMA ClientProgress ==
  ASSUME SessionInv, NEW c \in Clients, ClientStep(c) \/ ClientCrash(c)
  PROVE  ProgressInv(c)'
<1>1. ProtocolInv /\ ProgressInv(c) /\ UNCHANGED <<server, tdata, args>>
  BY OwnStep, ProgressFacts
<1>2. CASE ClientCrash(c)
  BY <1>1, <1>2, CrashShape, EndProgress
<1>3. ASSUME NEW status \in {"EXIT_FAILURE", "killed"}, ClientExit(c, status)
      PROVE  ProgressInv(c)'
  BY <1>1, <1>3, EndShape, EndProgress
<1>4. CASE Connect(c)
  <2>1. CASE ClientExit(c, "EXIT_FAILURE")
    BY <1>3, <2>1
  <2>2. CASE ~ ClientExit(c, "EXIT_FAILURE")
    <3>1. GoesTo(c, "elements") /\ At(c, "connect")
      BY <1>1, <1>4, <2>2, ConnectShape
    <3> QED BY <1>1, <3>1, GoProgress DEF At
  <2> QED BY <2>1, <2>2
<1>5. CASE NoMap(c) \/ TraceOver(c) \/ OutputFailed(c)
  BY <1>3, <1>5 DEF NoMap, TraceOver, OutputFailed
<1>6. CASE AskElements(c)
  BY <1>1, <1>6, SendProgress DEF AskElements, At, RequestTypes
<1>7. CASE SendRow(c)
  BY <1>1, <1>7, RequestsSent, SendProgress DEF SendRow, HasRow, Row, At, RequestTypes
<1>8. CASE AskSlot(c)
  BY <1>1, <1>8, SendProgress DEF AskSlot, At, RequestTypes
<1>9. CASE AskOutput(c)
  BY <1>1, <1>3, <1>9, SendProgress DEF AskOutput, At, RequestTypes
<1>10. CASE Finish(c)
  BY <1>1, <1>10, SendProgress DEF Finish, At, RequestTypes
<1>11. CASE LearnElements(c)
  BY <1>1, <1>11, LearnProgress
<1>12. CASE EndLoop(c)
  BY <1>1, <1>12, EndLoopProgress
<1>13. CASE RowInserted(c)
  <2>1. GoesTo(c, "simulate") /\ At(c, "inserted?")
    BY <1>1, <1>13, GotoShape DEF RowInserted, Idle
  <2> QED BY <1>1, <2>1, GoProgress DEF At
<1>14. CASE SlotResult(c)
  BY <1>1, <1>14, ResultProgress
<1>15. CASE ReadOutput(c)
  BY <1>1, <1>15, ReadProgress
<1>16. CASE Close(c)
  <2>1. CASE ClientExit(c, "EXIT_SUCCESS")
    <3>1. Achieved(c)
      BY <1>1, <1>16 DEF Close, At, ProgressInv
    <3> QED BY <1>1, <2>1, <3>1, EndShape, EndProgress
  <2> QED BY <1>3, <1>16, <2>1 DEF Close
<1> QED BY <1>2, <1>4, <1>5, <1>6, <1>7, <1>8, <1>9, <1>10, <1>11, <1>12, <1>13, <1>14,
           <1>15, <1>16 DEF ClientStep

LEMMA ClientSession ==
  ASSUME SessionInv, NEW c \in Clients, ClientStep(c) \/ ClientCrash(c)
  PROVE  SessionInv'
<1>1. /\ ProtocolInv /\ Elsewhere(c) /\ ~ At(c, "exit")
      /\ UNCHANGED <<server, tdata, torn, args, trace>>
  BY OwnStep DEF SessionInv
<1>2. ProtocolInv'
  BY <1>1, ClientStepProtocol, CrashProtocol
<1>3. server'.pc \in {"start", "wait"} => Simulated(0)'
  BY <1>1 DEF SessionInv, Simulated
<1>4. ASSUME NEW d \in Clients, d # c PROVE ProgressInv(d)'
  <2>1. ProgressInv(d) /\ client'[d] = client[d] /\ conn'[d] = conn[d]
    BY <1>1, <1>4 DEF SessionInv, Elsewhere
  <2> QED BY <1>1, <2>1 DEF ProgressInv, StepInv, Counted, Simulated, Within, Achieved, Wanted,
                            At, Right, slot_completed
<1>5. TornInv'
  <2> SUFFICES ASSUME torn # {} PROVE TornInv'
    BY <1>1 DEF TornInv
  <2> DEFINE p == server.peer
  <2>1. TornInv /\ p \in Clients /\ ~ conn[p].client
    BY DEF SessionInv, TornInv
  <2>2. At(p, "exit")
    BY <1>1, <2>1, LinkTypes DEF LinkInv, At
  <2>3. conn'[p] = conn[p]
    BY <1>1, <2>1, <2>2 DEF Elsewhere
  <2> QED BY <1>1, <2>1, <2>3 DEF TornInv
<1> QED BY <1>2, <1>3, <1>4, <1>5, ClientProgress DEF SessionInv

LEMMA SessionKept == SessionInv /\ [Next]_vars => SessionInv'
<1> SUFFICES ASSUME SessionInv, [Next]_vars PROVE SessionInv'
  OBVIOUS
<1>1. CASE (ServerStep \/ ServerCrash) /\ UNCHANGED <<args, client, trace>>
  BY <1>1, ServerSession
<1>2. ASSUME NEW c \in Clients, ClientStep(c) \/ ClientCrash(c) PROVE SessionInv'
  BY <1>2, ClientSession
<1>3. ASSUME UNCHANGED <<server, tdata, conn, torn, args, client>> PROVE SessionInv'
  <2>1. ProtocolInv'
    BY ProtocolKept DEF SessionInv
  <2>2. ASSUME NEW c \in Clients PROVE ProgressInv(c)'
    <3>1. ProgressInv(c)
      BY DEF SessionInv
    <3> QED BY <1>3, <3>1 DEF ProgressInv, StepInv, Counted, Simulated, Within, Achieved,
                              Wanted, At, Right, slot_completed
  <2>3. TornInv' /\ (server'.pc \in {"start", "wait"} => Simulated(0)')
    BY <1>3 DEF SessionInv, TornInv, Simulated
  <2> QED BY <2>1, <2>2, <2>3 DEF SessionInv
<1>4. CASE AppendRow
  BY <1>3, <1>4 DEF AppendRow
<1>5. CASE UNCHANGED vars
  BY <1>3, <1>5 DEF vars
<1> QED BY <1>1, <1>2, <1>4, <1>5 DEF Next

LEMMA AlwaysSession == Spec => []SessionInv
BY InitSession, SessionKept, PTL DEF Spec

(* THEOREM: at every point of its loop the accepted client and the server  *)
(* agree on how many slots have been simulated, and every element has      *)
(* taken one power value per slot.                                         *)
THEOREM AlwaysInStep == Spec => []InStep
<1>1. SessionInv => InStep
  <2> SUFFICES ASSUME SessionInv, NEW c \in Clients, server.peer = c, ~ At(c, "exit")
               PROVE  /\ ~ At(c, "simulated?") =>
                           /\ tdata.time = Counted(c) * SlotLength
                           /\ \A e \in Elements : tdata.taken[e] = Counted(c)
                      /\ At(c, "simulated?") =>
                           tdata.time \in client[c].slot * SlotLength
                                            .. (client[c].slot + 1) * SlotLength
    BY DEF InStep, Counted
  <2> QED BY DEF SessionInv, ProgressInv, StepInv, Simulated
<1> QED BY <1>1, AlwaysSession, PTL

(* THEOREM: an output that a client received for its n-th slot was taken   *)
(* at the end of the server's n-th slot and is of the n-th row of values   *)
(* in the queues: the client's own n-th row if the stack file presets no   *)
(* values, and otherwise an earlier one of the client or preset values.    *)
THEOREM AnswersAlwaysOfTheirSlots == Spec => []AnswerOfItsSlot
<1>1. SessionInv => AnswerOfItsSlot
  BY DEF SessionInv, ProgressInv, Right, AnswerOfItsSlot
<1> QED BY <1>1, AlwaysSession, PTL

(* THEOREM: a client that ends with success is the one that was accepted   *)
(* and had every slot simulated that it was started for, unless it was     *)
(* started with --until-minus-one and never learnt the number of elements. *)
THEOREM SuccessAlwaysMeansSimulated == Spec => []SuccessMeansSimulated
<1>1. SessionInv => SuccessMeansSimulated
  BY DEF SessionInv, ProgressInv, Achieved, SuccessMeansSimulated
<1> QED BY <1>1, AlwaysSession, PTL

(* THEOREM: power values from a row that its sender did not live to send   *)
(* completely may be queued, but are never simulated.                      *)
THEOREM TornRowsNeverSimulated == Spec => []TornRowsNotSimulated
<1>1. SessionInv => TornRowsNotSimulated
  BY DEF SessionInv, TornInv, TornRowsNotSimulated
<1> QED BY <1>1, AlwaysSession, PTL
=============================================================================
