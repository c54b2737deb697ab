-------------------------- MODULE OpenSession_proofs --------------------------
(***************************************************************************)
(* Proofs about a session of the server with clients that send any request *)
(* at any time, for every stack, any number of clients and any bounds.     *)
(***************************************************************************)
EXTENDS OpenSession, Server_proofs, FiniteSetTheorems, FunctionTheorems

Answered == RequestTypes \ Unanswered

ClientType ==
  [pc : {"out", "in", "waiting", "gone"}, asked : Answered \cup {"none"},
   clock : Nat, reset : BOOLEAN, inserts : Nat, prints : Nat,
   answer : Replies \cup {NoAnswer}]

-----------------------------------------------------------------------------
(* The protocol                                                            *)

(* The server is at a request of c that it will answer *)
Handling(c) ==
  /\ server.peer = c /\ server.pc \in {"handle", "slot"}
  /\ server.request.type \in Answered

(* Where the request that c waits for is: behind others that are not       *)
(* answered, with the server, answered, or lost with the server.           *)
Queued(c) ==
  /\ conn[c].up # <<>> /\ conn[c].up[Len(conn[c].up)].type = client[c].asked
  /\ conn[c].down = <<>> /\ ~ Handling(c)

InHand(c) ==
  /\ Handling(c) /\ server.request.type = client[c].asked
  /\ conn[c].up = <<>> /\ conn[c].down = <<>>

Replied(c) ==
  /\ server.peer = c /\ server.pc \in {"receive", "leave", "exit"}
  /\ conn[c].up = <<>>
  /\ Len(conn[c].down) = 1 /\ conn[c].down[1].type = client[c].asked

Lost(c) ==
  server.pc \in {"leave", "exit"} /\ conn[c].up = <<>> /\ conn[c].down = <<>>

(* What a client that has heard an answer and not sent anything since      *)
(* knows about the server                                                  *)
Heard(c) ==
  /\ server.peer = c /\ conn[c].up = <<>> /\ conn[c].down = <<>>
  /\ \/ server.pc \in {"receive", "leave", "exit"}
     \/ server.pc = "handle" /\ server.request.type = "EXIT_SIMULATION"

LinkInv(c) ==
  /\ At(c, "out") => /\ client[c].answer = NoAnswer /\ client[c].clock = 0
                     /\ client[c].prints = 0 /\ ~ client[c].reset
                     /\ conn[c].up = <<>> /\ ~ conn[c].server
                     /\ server.peer # c
  /\ conn[c].client <=> client[c].pc \in {"in", "waiting"}
  /\ ~ conn[c].client => conn[c].down = <<>>
  /\ conn[c].client /\ ~ conn[c].server => server.pc = "exit"
  /\ server.pc = "exit" => ~ conn[c].server
  /\ ~ conn[c].server => conn[c].up = <<>>
  /\ \A i \in 1 .. Len(conn[c].up) :
       conn[c].up[i].type \notin Unanswered => i = Len(conn[c].up)
  /\ At(c, "in") => /\ conn[c].down = <<>> /\ ~ Handling(c)
                    /\ \A i \in 1 .. Len(conn[c].up) : conn[c].up[i].type \in Unanswered
  /\ At(c, "waiting") => /\ client[c].asked \in Answered /\ client[c].answer = NoAnswer
                         /\ Queued(c) \/ InHand(c) \/ Replied(c) \/ Lost(c)
  /\ client[c].answer # NoAnswer => Heard(c)

ProtocolInv ==
  /\ ServerInv
  /\ client \in [Clients -> ClientType]
  /\ \A c \in Clients : \A i \in 1 .. Len(conn[c].up) : ~ conn[c].up[i].cut
  /\ \A c \in Clients : LinkInv(c)

LEMMA InitProtocol == Init => ProtocolInv
<1> SUFFICES ASSUME Init PROVE ProtocolInv
  OBVIOUS
<1>1. ServerInv /\ server.pc = "start" /\ server.peer = Nobody
  <2>1. PICK whose \in FilesBefore :
          server = [pc |-> "start", peer |-> Nobody, request |-> Request("UNKNOWN", 0),
                    status |-> "none", headers |-> FALSE,
                    file |-> [of |-> whose, lines |-> 0, lost |-> FALSE]]
    BY DEF Init, ServerInit
  <2> HIDE DEF Request
  <2> QED BY <2>1, InitServer DEF Init
<1>2. client = [c \in Clients |-> Stranger] /\ conn = [c \in Clients |-> NotConnected]
  BY DEF Init, ServerInit
<1>3. Stranger \in ClientType
  BY DEF Stranger, ClientType
<1>4. ASSUME NEW c \in Clients PROVE LinkInv(c) /\ conn[c].up = <<>>
  <2>1. client[c] = Stranger /\ conn[c] = NotConnected /\ c # Nobody
    BY <1>2, ServerAssumption
  <2> QED BY <1>1, <2>1 DEF LinkInv, At, Stranger, NotConnected, NoAnswer
<1> QED BY <1>1, <1>2, <1>3, <1>4 DEF ProtocolInv

(* The types that a proof about client c and its connection needs *)
LEMMA LinkTypes ==
  ASSUME ProtocolInv, NEW c \in Clients
  PROVE  /\ server \in Process /\ c # Nobody
         /\ conn[c] \in Connection /\ client[c] \in ClientType
         /\ conn \in [Clients -> Connection] /\ client \in [Clients -> ClientType]
         /\ LinkInv(c)
         /\ conn[c].up \in Seq(Requests) /\ conn[c].down \in Seq(Replies)
         /\ conn[c].client \in BOOLEAN /\ conn[c].server \in BOOLEAN
         /\ client[c].pc \in {"out", "in", "waiting", "gone"}
BY ServerAssumption DEF ProtocolInv, ServerInv, WellTyped, Connection, ClientType

(* The server's end *)

LEMMA StopLink ==
  ASSUME ProtocolInv, Stops, UNCHANGED client, NEW c \in Clients
  PROVE  LinkInv(c)'
<1>1. /\ LinkInv(c) /\ conn[c].down \in Seq(Replies)
      /\ server'.pc = "exit" /\ server'.peer = server.peer
      /\ conn'[c].up = <<>> /\ ~ conn'[c].server
      /\ conn'[c].down = conn[c].down /\ conn'[c].client = conn[c].client
      /\ client'[c] = client[c]
  BY LinkTypes DEF Stops
<1>2. At(c, "waiting") => Lost(c)' \/ Replied(c)'
  BY <1>1 DEF LinkInv, Queued, InHand, Replied, Lost, At
<1>3. client[c].answer # NoAnswer => Heard(c)'
  BY <1>1 DEF LinkInv, Heard
<1>4. ~ Handling(c)'
  BY <1>1 DEF Handling
<1> QED BY <1>1, <1>2, <1>3, <1>4 DEF LinkInv, At

LEMMA TurnLink ==
  ASSUME ProtocolInv, UNCHANGED client, NEW c \in Clients,
         \/ server.pc = "start" /\ Turns("wait")
         \/ server.pc \in {"handle", "slot"} /\ Turns("leave")
         \/ /\ server.pc \in {"handle", "slot"} /\ Turns("receive")
            /\ server.request.type \in Silent \/ ~ conn[Peer].client
         \/ server.pc = "handle" /\ server.request.type = "SIMULATE_SLOT" /\ Turns("slot")
  PROVE  LinkInv(c)'
<1>1. /\ LinkInv(c)
      /\ conn'[c] = conn[c] /\ client'[c] = client[c]
      /\ server'.peer = server.peer /\ server'.request = server.request
      /\ server.pc = "start" => server.peer # c
      /\ server.pc # "exit" /\ server'.pc # "exit"
      /\ conn[c].client \in BOOLEAN /\ conn[c].server \in BOOLEAN
  BY LinkTypes DEF Turns, ProtocolInv, ServerInv
<1>2. /\ Handling(c)' => Handling(c)
      /\ Handling(c) => server'.pc = "slot" \/ server'.pc = "leave" \/ ~ conn[c].client
  BY <1>1 DEF Handling, Turns, Peer, Answered, Silent, Unanswered
<1>3. At(c, "waiting") => Queued(c)' \/ InHand(c)' \/ Lost(c)'
  BY <1>1, <1>2 DEF LinkInv, Queued, InHand, Replied, Lost, At, Handling, Turns,
                    Answered, Unanswered
<1>4. client[c].answer # NoAnswer => Heard(c)'
  BY <1>1 DEF LinkInv, Heard, Turns
<1> QED BY <1>1, <1>2, <1>3, <1>4 DEF LinkInv, At

LEMMA AcceptLink ==
  ASSUME ProtocolInv, UNCHANGED client, NEW c \in Clients, server.pc = "wait",
         NEW d \in Clients,
         conn[d].server, server'.pc = "receive", server'.peer = d, conn' = conn
  PROVE  LinkInv(c)'
<1>1. /\ LinkInv(c) /\ conn'[c] = conn[c] /\ client'[c] = client[c] /\ server.peer # c
  BY LinkTypes DEF ProtocolInv, ServerInv
<1>2. ~ Handling(c)' /\ ~ Handling(c)
  BY <1>1 DEF Handling
<1>3. At(c, "waiting") => Queued(c)'
  BY <1>1, <1>2 DEF LinkInv, Queued, InHand, Replied, Lost, At
<1> QED BY <1>1, <1>2, <1>3 DEF LinkInv, At, Heard

(* The server answers the request that the client waits for *)
LEMMA SendsLink ==
  ASSUME ProtocolInv, UNCHANGED client, NEW c \in Clients,
         server.pc \in {"handle", "slot"}, server.request.type \notin Silent,
         NEW m \in Replies, m.type = server.request.type, Sends(m)
  PROVE  LinkInv(c)'
<1>1. /\ LinkInv(c) /\ client'[c] = client[c] /\ server'.peer = server.peer
      /\ server'.pc \in {"receive", "leave"} /\ server.request.type \in RequestTypes
      /\ server \in Process /\ conn[c] \in Connection /\ server.peer \in Clients
  BY LinkTypes DEF ProtocolInv, ServerInv, Sends, Process, Requests, Serving
<1>2. ~ Handling(c)'
  BY <1>1 DEF Handling
<1>3. CASE c = server.peer
  <2>1. Handling(c) /\ conn[c].client
    BY <1>1, <1>3 DEF Handling, Sends, Peer, Answered, Silent, Unanswered
  <2>2. At(c, "waiting") /\ InHand(c)
    BY <1>1, <2>1 DEF LinkInv, At, Queued, Replied, Lost
  <2>3. conn[c].down = <<>> /\ conn[c].up = <<>> /\ m.type = client[c].asked
    BY <2>2 DEF InHand
  <2>4. /\ conn'[c].down = <<m>> /\ conn'[c].up = <<>>
        /\ conn'[c].client = conn[c].client /\ conn'[c].server = conn[c].server
    <3>1. Append(<<>>, m) = <<m>>
      OBVIOUS
    <3> QED BY <1>3, <2>3, <3>1 DEF Sends, Peer
  <2>5. Replied(c)'
    BY <1>1, <1>3, <2>3, <2>4 DEF Replied
  <2> QED BY <1>1, <1>2, <2>1, <2>2, <2>4, <2>5 DEF LinkInv, At
<1>4. CASE c # server.peer
  <2>1. conn'[c] = conn[c]
    BY <1>4 DEF Sends, Peer
  <2>2. At(c, "waiting") => Queued(c)'
    BY <1>1, <1>2, <1>4, <2>1 DEF LinkInv, At, Queued, InHand, Replied, Lost, Handling
  <2> QED BY <1>1, <1>2, <1>4, <2>1, <2>2 DEF LinkInv, At, Heard
<1> QED BY <1>3, <1>4

(* The first of the requests of c is taken, or the end of the stream *)
LEMMA ReceiveLink ==
  ASSUME ProtocolInv, UNCHANGED client, Receive, NEW c \in Clients
  PROVE  /\ LinkInv(c)'
         /\ \A i \in 1 .. Len(conn'[c].up) : ~ conn'[c].up[i].cut
<1>1. /\ LinkInv(c) /\ client'[c] = client[c] /\ server.pc = "receive"
      /\ server'.pc = "handle" /\ server'.peer = server.peer /\ server.peer \in Clients
      /\ conn[c] \in Connection /\ conn[c].up \in Seq(Requests)
      /\ \A i \in 1 .. Len(conn[c].up) : ~ conn[c].up[i].cut
  BY LinkTypes, ReceiveShape DEF ProtocolInv, Peer, Receive
<1>2. CASE c # server.peer
  <2>1. conn'[c] = conn[c] /\ ~ Handling(c) /\ ~ Handling(c)'
    BY <1>1, <1>2, ReceiveShape DEF Peer, Handling, ProtocolInv
  <2>2. At(c, "waiting") => Queued(c)'
    BY <1>1, <1>2, <2>1 DEF LinkInv, At, Queued, InHand, Replied, Lost
  <2> QED BY <1>1, <1>2, <2>1, <2>2 DEF LinkInv, At, Heard
<1>3. CASE c = server.peer /\ conn[c].up # <<>>
  <2> DEFINE up == conn[c].up
             rest == Tail(up)
  <2>1. /\ conn'[c].up = rest /\ server'.request = up[1]
        /\ conn'[c].down = conn[c].down
        /\ conn'[c].client = conn[c].client /\ conn'[c].server = conn[c].server
    <3>1. Head(up) = up[1] /\ 1 \in 1 .. Len(up)
      BY <1>1, <1>3
    <3>2. ~ up[1].cut
      BY <1>1, <3>1
    <3> HIDE DEF up
    <3> QED BY <1>3, <3>1, <3>2, ReceiveShape DEF Peer, ProtocolInv, up
  <2>2. /\ Len(rest) = Len(up) - 1 /\ Len(up) \in Nat \ {0} /\ rest \in Seq(Requests)
        /\ \A i \in 1 .. Len(rest) : rest[i] = up[i + 1] /\ i + 1 \in 1 .. Len(up)
        /\ Len(rest) = 0 <=> rest = <<>>
    <3> HIDE DEF up, rest
    <3>1. /\ Len(up) \in Nat \ {0} /\ rest \in Seq(Requests)
          /\ Len(rest) = Len(up) - 1
          /\ \A i \in 1 .. Len(up) - 1 : rest[i] = up[i + 1]
          /\ rest = <<>> <=> Len(up) = 1
      BY <1>1, <1>3, RestOf DEF up, rest
    <3> QED BY <3>1
  <2>3. /\ \A i \in 1 .. Len(up) : up[i].type \in RequestTypes
        /\ \A i \in 1 .. Len(up) : up[i].type \notin Unanswered => i = Len(up)
        /\ 1 \in 1 .. Len(up)
    <3>1. \A i \in 1 .. Len(up) : up[i].type \in RequestTypes
      <4>1. \A i \in 1 .. Len(up) : up[i] \in Requests
        BY <1>1, ElementOfSeq
      <4> QED BY <4>1 DEF Requests
    <3>2. \A i \in 1 .. Len(up) : up[i].type \notin Unanswered => i = Len(up)
      BY <1>1 DEF LinkInv
    <3> HIDE DEF up, rest
    <3>3. 1 \in 1 .. Len(up)
      BY <2>2
    <3> QED BY <3>1, <3>2, <3>3, Zenon
  <2> HIDE DEF up, rest
  <2>4. /\ \A i \in 1 .. Len(rest) : ~ rest[i].cut
        /\ \A i \in 1 .. Len(rest) : rest[i].type \notin Unanswered => i = Len(rest)
        /\ Handling(c)' => up[1].type \notin Unanswered /\ Len(up) = 1
    <3>1. \A i \in 1 .. Len(rest) : ~ rest[i].cut
      <4>1. \A i \in 1 .. Len(up) : ~ up[i].cut
        BY <1>1 DEF up
      <4> QED BY <2>2, <4>1
    <3>2. \A i \in 1 .. Len(rest) : rest[i].type \notin Unanswered => i = Len(rest)
      BY <2>2, <2>3
    <3>3. Handling(c)' => up[1].type \notin Unanswered
      BY <2>1 DEF Handling, Answered
    <3> QED BY <2>3, <3>1, <3>2, <3>3
  <2>5. client[c].answer = NoAnswer /\ ~ At(c, "out") /\ conn[c].server
    BY <1>1, <1>3 DEF LinkInv, Heard
  <2>6. ASSUME At(c, "in") PROVE ~ Handling(c)' /\ \A i \in 1 .. Len(rest) : rest[i].type \in Unanswered
    <3>1. \A i \in 1 .. Len(up) : up[i].type \in Unanswered
      BY <1>1, <2>6 DEF LinkInv, up
    <3> QED BY <2>2, <2>3, <2>4, <3>1
  <2>7. ASSUME At(c, "waiting") PROVE Queued(c)' \/ InHand(c)'
    <3>1. /\ client[c].asked \in Answered /\ conn[c].down = <<>>
          /\ up[Len(up)].type = client[c].asked
      BY <1>1, <1>3, <2>7 DEF LinkInv, Queued, InHand, Replied, Lost, Handling, up
    <3>2. CASE Len(up) = 1
      <4>1. up[1].type = client[c].asked /\ rest = <<>>
        BY <2>2, <3>1, <3>2
      <4> QED BY <1>1, <1>3, <2>1, <3>1, <4>1 DEF InHand, Handling
    <3>3. CASE Len(up) # 1
      <4>1. rest # <<>> /\ rest[Len(rest)].type = client[c].asked /\ ~ Handling(c)'
        BY <2>2, <2>4, <3>1, <3>3
      <4> QED BY <1>1, <2>1, <3>1, <4>1 DEF Queued
    <3> QED BY <3>2, <3>3
  <2> QED BY <1>1, <2>1, <2>4, <2>5, <2>6, <2>7 DEF LinkInv, At
<1>4. CASE c = server.peer /\ conn[c].up = <<>>
  <2>1. /\ conn'[c].up = <<>> /\ ~ conn[c].client /\ conn'[c].client = conn[c].client
        /\ conn'[c].down = conn[c].down /\ conn'[c].server = conn[c].server
        /\ server'.request.type = "EXIT_SIMULATION"
    BY <1>1, <1>4, ReceiveShape DEF Peer, Request, Message, ProtocolInv
  <2>2. ~ At(c, "in") /\ ~ At(c, "waiting") /\ ~ At(c, "out")
    BY <1>1, <1>4, <2>1 DEF LinkInv, At
  <2> QED BY <1>1, <1>4, <2>1, <2>2 DEF LinkInv, At, Heard
<1> QED BY <1>2, <1>3, <1>4

LEMMA ServerProtocol ==
  ASSUME ProtocolInv, ServerStep, UNCHANGED client
  PROVE  ProtocolInv'
<1>1. ServerInv' /\ ServerEffect
  BY ServerKeeps, ServerEffects DEF ProtocolInv
<1>2. client' \in [Clients -> ClientType]
  BY DEF ProtocolInv
<1>3. ASSUME NEW c \in Clients PROVE LinkInv(c)'
  <2>1. CASE server' = server /\ conn' = conn
    <3>1. LinkInv(c) /\ UNCHANGED <<server, conn, client>>
      BY <2>1, LinkTypes
    <3> QED BY <3>1 DEF LinkInv, At, Queued, InHand, Replied, Lost, Heard, Handling
  <2> QED BY <1>1, <2>1, StopLink, TurnLink, AcceptLink, SendsLink, ReceiveLink DEF ServerEffect
<1>4. ASSUME NEW c \in Clients PROVE \A i \in 1 .. Len(conn'[c].up) : ~ conn'[c].up[i].cut
  <2>1. CASE Receive
    BY <2>1, ReceiveLink
  <2>2. CASE conn'[c].up = conn[c].up
    BY <2>2 DEF ProtocolInv
  <2>3. CASE conn'[c].up = <<>>
    BY <2>3
  <2> QED BY <1>1, <2>1, <2>2, <2>3 DEF ServerEffect, Stops, Turns, Sends
<1> QED BY <1>1, <1>2, <1>3, <1>4 DEF ProtocolInv

(* The client's end: what each of its steps does to it and its connection *)

Elsewhere(c) ==
  \A d \in Clients \ {c} : conn'[d] = conn[d] /\ client'[d] = client[d]

SameKnowledge(c) ==
  /\ client'[c].clock = client[c].clock /\ client'[c].reset = client[c].reset
  /\ client'[c].prints = client[c].prints

ClientTyped == conn' \in [Clients -> Connection] /\ client' \in [Clients -> ClientType]

LEMMA ConnectShape ==
  ASSUME ProtocolInv, NEW c \in Clients, Connect(c)
  PROVE  /\ ClientTyped /\ Elsewhere(c)
         /\ conn'[c].client /\ conn'[c].server
         /\ conn'[c].up = conn[c].up /\ conn'[c].down = conn[c].down
         /\ client'[c].pc = "in" /\ SameKnowledge(c) /\ client'[c].answer = client[c].answer
<1>1. conn[c] \in Connection /\ client[c] \in ClientType
  BY LinkTypes
<1> QED BY <1>1, LinkTypes DEF Connect, ClientTyped, Elsewhere, Connection, ClientType,
                               SameKnowledge

(* A request m is queued, or lost if the server has gone *)
LEMMA SendShape ==
  ASSUME ProtocolInv, NEW c \in Clients, NEW m \in Requests, Send(c, m)
  PROVE  /\ conn' \in [Clients -> Connection]
         /\ \A d \in Clients \ {c} : conn'[d] = conn[d]
         /\ conn'[c].up = IF conn[c].server THEN Append(conn[c].up, m) ELSE conn[c].up
         /\ conn'[c].down = conn[c].down
         /\ conn'[c].client = conn[c].client /\ conn'[c].server = conn[c].server
<1> DEFINE up == IF conn[c].server THEN Append(conn[c].up, m) ELSE conn[c].up
<1>1. conn[c] \in Connection /\ conn \in [Clients -> Connection]
  BY LinkTypes
<1>2. up \in Seq(Requests)
  BY <1>1, AppendProperties DEF Connection
<1>3. conn' = [conn EXCEPT ![c].up = up]
  BY DEF Send
<1> HIDE DEF up
<1>4. /\ conn' \in [Clients -> Connection]
      /\ \A d \in Clients \ {c} : conn'[d] = conn[d]
      /\ conn'[c].up = up /\ conn'[c].down = conn[c].down
      /\ conn'[c].client = conn[c].client /\ conn'[c].server = conn[c].server
  BY <1>1, <1>2, <1>3 DEF Connection
<1> QED BY <1>4 DEF up

LEMMA TellShape ==
  ASSUME ProtocolInv, NEW c \in Clients, NEW type \in Unanswered, Tell(c, type)
  PROVE  /\ ClientTyped /\ Elsewhere(c)
         /\ Request(type, 0) \in Requests /\ Send(c, Request(type, 0))
         /\ client'[c].pc = client[c].pc /\ client'[c].answer = NoAnswer
         /\ client'[c].clock = client[c].clock
         /\ client'[c].reset = IF type = "RESET_THERMAL_STATE" THEN TRUE ELSE client[c].reset
         /\ client'[c].prints = IF type = "PRINT_OUTPUT" THEN client[c].prints + 1
                                ELSE client[c].prints
<1>1. client[c] \in ClientType /\ client \in [Clients -> ClientType]
  BY LinkTypes
<1>2. Request(type, 0) \in Requests /\ Send(c, Request(type, 0))
  BY DEF Tell, Request, Message, Requests, RequestTypes, Unanswered
<1>3. client' = [client EXCEPT
       ![c].reset  = IF type = "RESET_THERMAL_STATE" THEN TRUE ELSE @,
       ![c].prints = IF type = "PRINT_OUTPUT" THEN @ + 1 ELSE @,
       ![c].answer = NoAnswer]
  BY DEF Tell
<1> HIDE DEF NoAnswer
<1>4. /\ client' \in [Clients -> ClientType]
      /\ \A d \in Clients \ {c} : client'[d] = client[d]
      /\ client'[c].pc = client[c].pc /\ client'[c].answer = NoAnswer
      /\ client'[c].clock = client[c].clock
      /\ client'[c].reset = IF type = "RESET_THERMAL_STATE" THEN TRUE ELSE client[c].reset
      /\ client'[c].prints = IF type = "PRINT_OUTPUT" THEN client[c].prints + 1
                             ELSE client[c].prints
  <2> DEFINE reset  == IF type = "RESET_THERMAL_STATE" THEN TRUE ELSE client[c].reset
             prints == IF type = "PRINT_OUTPUT" THEN client[c].prints + 1 ELSE client[c].prints
             told   == [client[c] EXCEPT !.reset = reset, !.prints = prints, !.answer = NoAnswer]
  <2>1. client' = [client EXCEPT ![c] = told]
    BY <1>1, <1>3
  <2>2. reset \in BOOLEAN /\ prints \in Nat
    <3>1. client[c].reset \in BOOLEAN /\ client[c].prints \in Nat
      BY <1>1 DEF ClientType
    <3>2. reset \in BOOLEAN
      BY <3>1, Zenon
    <3>3. prints \in Nat
      BY <3>1
    <3> QED BY <3>2, <3>3
  <2> HIDE DEF reset, prints
  <2>3. /\ told \in ClientType
        /\ told.pc = client[c].pc /\ told.answer = NoAnswer /\ told.clock = client[c].clock
        /\ told.reset = reset /\ told.prints = prints
    BY <1>1, <2>2 DEF ClientType
  <2> HIDE DEF told
  <2>4. /\ client' \in [Clients -> ClientType] /\ client'[c] = told
        /\ \A d \in Clients \ {c} : client'[d] = client[d]
    BY <1>1, <2>1, <2>3
  <2> QED BY <2>3, <2>4 DEF reset, prints
<1> HIDE DEF Request
<1> QED BY <1>2, <1>4, SendShape DEF ClientTyped, Elsewhere

LEMMA AskShape ==
  ASSUME ProtocolInv, NEW c \in Clients, NEW type \in Answered, NEW n \in Nat, Ask(c, type, n)
  PROVE  /\ ClientTyped /\ Elsewhere(c)
         /\ Request(type, n) \in Requests /\ Send(c, Request(type, n))
         /\ client'[c].pc = "waiting" /\ client'[c].asked = type
         /\ client'[c].answer = NoAnswer /\ SameKnowledge(c)
<1>1. client[c] \in ClientType /\ client \in [Clients -> ClientType]
  BY LinkTypes
<1>2. Request(type, n) \in Requests /\ Send(c, Request(type, n))
  BY DEF Ask, Request, Message, Requests, Answered
<1>3. client' = [client EXCEPT
       ![c].pc = "waiting", ![c].asked = type, ![c].answer = NoAnswer,
       ![c].inserts = IF type = "INSERT_POWERS" THEN @ + 1 ELSE @]
  BY DEF Ask
<1> HIDE DEF NoAnswer
<1>4. /\ client' \in [Clients -> ClientType]
      /\ \A d \in Clients \ {c} : client'[d] = client[d]
      /\ client'[c].pc = "waiting" /\ client'[c].asked = type
      /\ client'[c].answer = NoAnswer /\ SameKnowledge(c)
  <2> DEFINE inserts == IF type = "INSERT_POWERS" THEN client[c].inserts + 1
                        ELSE client[c].inserts
             asking  == [client[c] EXCEPT !.pc = "waiting", !.asked = type,
                                          !.answer = NoAnswer, !.inserts = inserts]
  <2>1. client' = [client EXCEPT ![c] = asking]
    BY <1>1, <1>3
  <2>2. inserts \in Nat
    BY <1>1 DEF ClientType
  <2> HIDE DEF inserts
  <2>3. /\ asking \in ClientType
        /\ asking.pc = "waiting" /\ asking.asked = type /\ asking.answer = NoAnswer
        /\ asking.clock = client[c].clock /\ asking.reset = client[c].reset
        /\ asking.prints = client[c].prints
    BY <1>1, <2>2 DEF ClientType
  <2> HIDE DEF asking
  <2>4. /\ client' \in [Clients -> ClientType] /\ client'[c] = asking
        /\ \A d \in Clients \ {c} : client'[d] = client[d]
    BY <1>1, <2>1, <2>3
  <2> QED BY <2>3, <2>4 DEF SameKnowledge
<1> HIDE DEF Request
<1> QED BY <1>2, <1>4, SendShape DEF ClientTyped, Elsewhere

(* A client that hears something was waiting, and it is the only answer *)
LEMMA HearShape ==
  ASSUME ProtocolInv, NEW c \in Clients, Hear(c)
  PROVE  /\ ClientTyped /\ Elsewhere(c) /\ Replied(c)
         /\ At(c, "waiting")
         /\ conn[c].down[1] \in Replies /\ conn'[c].down = <<>>
         /\ conn'[c].up = conn[c].up
         /\ conn'[c].client = conn[c].client /\ conn'[c].server = conn[c].server
         /\ client'[c].pc = "in" /\ client'[c].answer = conn[c].down[1]
         /\ client'[c].clock = ClockAfter(client[c].clock, conn[c].down[1].result)
         /\ client'[c].reset = (client[c].reset /\ conn[c].down[1].result \notin Done)
         /\ client'[c].prints = client[c].prints
<1> DEFINE m == conn[c].down[1]
<1>1. /\ client[c] \in ClientType /\ client \in [Clients -> ClientType]
      /\ conn[c] \in Connection /\ conn \in [Clients -> Connection]
      /\ conn[c].down \in Seq(Replies) /\ conn[c].down # <<>> /\ At(c, "waiting")
  BY LinkTypes DEF Hear
<1>2. Replied(c)
  BY <1>1, LinkTypes DEF LinkInv, At, Queued, InHand, Lost
<1>3. m \in Replies /\ Head(conn[c].down) = m /\ Tail(conn[c].down) = <<>>
  BY <1>1, <1>2, RestOf DEF Replied
<1>4. ClockAfter(client[c].clock, m.result) \in Nat
  <2>1. client[c].clock \in Nat
    BY <1>1 DEF ClientType
  <2>2. SlotOf(client[c].clock + 1) * SlotLength \in Nat
    <3>1. SlotOf(client[c].clock + 1) \in Nat
      BY <2>1, SlotTyped
    <3> QED BY <3>1, ThermalAssumption
  <2> QED BY <2>1, <2>2 DEF ClockAfter
<1>5. /\ client' = [client EXCEPT
           ![c].pc = "in", ![c].asked = "none", ![c].answer = m,
           ![c].clock = ClockAfter(@, m.result),
           ![c].reset = @ /\ m.result \notin {"STEP_DONE", "SLOT_DONE"}]
      /\ conn' = [conn EXCEPT ![c].down = <<>>]
  BY <1>3, Zenon DEF Hear
<1>6. (client[c].reset /\ m.result \notin Done) \in BOOLEAN
  OBVIOUS
<1> HIDE DEF m
<1>7. /\ client' \in [Clients -> ClientType]
      /\ \A d \in Clients \ {c} : client'[d] = client[d]
      /\ client'[c].pc = "in" /\ client'[c].answer = m
      /\ client'[c].clock = ClockAfter(client[c].clock, m.result)
      /\ client'[c].reset = (client[c].reset /\ m.result \notin Done)
      /\ client'[c].prints = client[c].prints
  <2> DEFINE clock == ClockAfter(client[c].clock, m.result)
             reset == client[c].reset /\ m.result \notin Done
             heard == [client[c] EXCEPT !.pc = "in", !.asked = "none", !.answer = m,
                                        !.clock = clock, !.reset = reset]
  <2>1. client' = [client EXCEPT ![c] = heard]
    BY <1>1, <1>5 DEF Done
  <2>2. clock \in Nat /\ reset \in BOOLEAN /\ m \in Replies
    BY <1>3, <1>4, <1>6
  <2> HIDE DEF clock, reset, NoAnswer
  <2>3. /\ heard \in ClientType
        /\ heard.pc = "in" /\ heard.answer = m /\ heard.clock = clock /\ heard.reset = reset
        /\ heard.prints = client[c].prints
    BY <1>1, <2>2 DEF ClientType
  <2> HIDE DEF heard
  <2>4. /\ client' \in [Clients -> ClientType] /\ client'[c] = heard
        /\ \A d \in Clients \ {c} : client'[d] = client[d]
    BY <1>1, <2>1, <2>3
  <2> QED BY <2>3, <2>4 DEF clock, reset
<1>8. /\ conn' \in [Clients -> Connection] /\ \A d \in Clients \ {c} : conn'[d] = conn[d]
      /\ conn'[c].down = <<>> /\ conn'[c].up = conn[c].up
      /\ conn'[c].client = conn[c].client /\ conn'[c].server = conn[c].server
  <2>1. <<>> \in Seq(Replies)
    OBVIOUS
  <2> QED BY <1>1, <1>5, <2>1 DEF Connection
<1> QED BY <1>1, <1>2, <1>3, <1>7, <1>8 DEF ClientTyped, Elsewhere, m

LEMMA GoneShape ==
  ASSUME ProtocolInv, NEW c \in Clients, Gone(c)
  PROVE  /\ ClientTyped /\ Elsewhere(c)
         /\ ~ conn'[c].client /\ conn'[c].down = <<>>
         /\ conn'[c].up = conn[c].up /\ conn'[c].server = conn[c].server
         /\ client'[c].pc = "gone" /\ SameKnowledge(c) /\ client'[c].answer = client[c].answer
<1>1. /\ client[c] \in ClientType /\ client \in [Clients -> ClientType]
      /\ conn[c] \in Connection /\ conn \in [Clients -> Connection]
      /\ <<>> \in Seq(Replies)
  BY LinkTypes
<1>2. /\ conn' \in [Clients -> Connection] /\ \A d \in Clients \ {c} : conn'[d] = conn[d]
      /\ ~ conn'[c].client /\ conn'[c].down = <<>>
      /\ conn'[c].up = conn[c].up /\ conn'[c].server = conn[c].server
  BY <1>1 DEF Gone, Connection
<1>3. /\ client' \in [Clients -> ClientType]
      /\ \A d \in Clients \ {c} : client'[d] = client[d]
      /\ client'[c].pc = "gone" /\ SameKnowledge(c) /\ client'[c].answer = client[c].answer
  BY <1>1 DEF Gone, ClientType, SameKnowledge
<1> QED BY <1>2, <1>3 DEF ClientTyped, Elsewhere

(* They keep the protocol *)

LEMMA ElsewhereLink ==
  ASSUME ProtocolInv, NEW c \in Clients, UNCHANGED server, Elsewhere(c),
         NEW d \in Clients, d # c
  PROVE  LinkInv(d)' /\ conn'[d] = conn[d] /\ client'[d] = client[d]
<1>1. LinkInv(d) /\ conn'[d] = conn[d] /\ client'[d] = client[d] /\ server' = server
  BY LinkTypes DEF Elsewhere
<1> QED BY <1>1 DEF LinkInv, At, Queued, InHand, Replied, Lost, Heard, Handling

(* What is left to show of a step of client c *)
LEMMA ClientProtocol ==
  ASSUME ProtocolInv, NEW c \in Clients, UNCHANGED <<server, tdata>>,
         ClientTyped, Elsewhere(c), LinkInv(c)',
         \A i \in 1 .. Len(conn'[c].up) : ~ conn'[c].up[i].cut
  PROVE  ProtocolInv'
<1>1. ServerInv'
  BY DEF ProtocolInv, ServerInv, WellTyped, ClientTyped, Serving
<1>2. \A d \in Clients : LinkInv(d)'
  BY ElsewhereLink
<1>3. \A d \in Clients : \A i \in 1 .. Len(conn'[d].up) : ~ conn'[d].up[i].cut
  BY ElsewhereLink DEF ProtocolInv
<1> QED BY <1>1, <1>2, <1>3 DEF ProtocolInv, ClientTyped

LEMMA ConnectProtocol ==
  ASSUME ProtocolInv, NEW c \in Clients, Connect(c), UNCHANGED <<server, tdata>>
  PROVE  ProtocolInv'
<1>1. /\ LinkInv(c) /\ At(c, "out") /\ client[c] \in ClientType
      /\ server.pc \notin {"start", "exit"} /\ server' = server
      /\ \A i \in 1 .. Len(conn[c].up) : ~ conn[c].up[i].cut
  BY LinkTypes DEF Connect, ProtocolInv
<1>2. client'[c].pc = "in" /\ client'[c].answer = client[c].answer
  BY <1>1, ConnectShape DEF ClientType
<1>3. ~ Handling(c)'
  BY <1>1 DEF LinkInv, Handling
<1>4. conn[c].up = <<>> /\ conn[c].down = <<>> /\ client[c].answer = NoAnswer
  BY <1>1 DEF LinkInv, At
<1>5. LinkInv(c)'
  BY <1>1, <1>2, <1>3, <1>4, ConnectShape DEF LinkInv, At
<1> QED BY <1>1, <1>5, ConnectShape, ClientProtocol

(* A request at the end of a queue *)
LEMMA QueuedWith ==
  ASSUME ProtocolInv, NEW c \in Clients, NEW m \in Requests, ~ m.cut, Send(c, m),
         At(c, "in"), UNCHANGED server
  PROVE  /\ \A i \in 1 .. Len(conn'[c].up) : ~ conn'[c].up[i].cut
         /\ \A i \in 1 .. Len(conn'[c].up) :
              conn'[c].up[i].type \notin Unanswered => i = Len(conn'[c].up) /\ conn'[c].up[i] = m
         /\ conn[c].server => conn'[c].up # <<>> /\ conn'[c].up[Len(conn'[c].up)] = m
         /\ ~ conn[c].server => conn'[c].up = <<>> /\ server.pc = "exit"
<1> DEFINE up == conn[c].up
<1>1. /\ LinkInv(c) /\ up \in Seq(Requests) /\ \A i \in 1 .. Len(up) : ~ up[i].cut
      /\ \A i \in 1 .. Len(up) : up[i].type \in Unanswered
      /\ ~ conn[c].server => up = <<>> /\ server.pc = "exit"
  BY LinkTypes DEF ProtocolInv, LinkInv, At
<1>2. /\ Len(Append(up, m)) = Len(up) + 1 /\ Append(up, m) # <<>> /\ Len(up) \in Nat
      /\ \A i \in 1 .. Len(up) : Append(up, m)[i] = up[i]
      /\ Append(up, m)[Len(up) + 1] = m
  BY <1>1, AppendProperties, LenProperties
<1>3. conn'[c].up = IF conn[c].server THEN Append(up, m) ELSE up
  BY SendShape
<1>4. CASE conn[c].server
  <2> HIDE DEF up
  <2> DEFINE queue == Append(up, m)
  <2>1. queue[Len(queue)] = m /\ queue # <<>>
    BY <1>2
  <2>2. ASSUME NEW i \in 1 .. Len(queue)
        PROVE  ~ queue[i].cut /\ (queue[i].type \notin Unanswered => i = Len(queue) /\ queue[i] = m)
    <3>1. CASE i \in 1 .. Len(up)
      BY <1>1, <1>2, <3>1
    <3>2. CASE i = Len(up) + 1
      BY <1>2, <3>2
    <3> QED BY <1>2, <3>1, <3>2
  <2>3. conn'[c].up = queue
    BY <1>3, <1>4
  <2> HIDE DEF queue
  <2> QED BY <1>4, <2>1, <2>2, <2>3
<1>5. CASE ~ conn[c].server
  BY <1>1, <1>3, <1>5
<1> QED BY <1>4, <1>5

LEMMA TellProtocol ==
  ASSUME ProtocolInv, NEW c \in Clients, NEW type \in Unanswered, Tell(c, type),
         UNCHANGED <<server, tdata>>
  PROVE  ProtocolInv'
<1> DEFINE m == Request(type, 0)
<1>1. /\ LinkInv(c) /\ At(c, "in") /\ client[c] \in ClientType /\ server' = server
      /\ conn[c].client
  BY LinkTypes DEF Tell, LinkInv, At
<1>2. m \in Requests /\ Send(c, m) /\ m.type \in Unanswered /\ ~ m.cut
  BY TellShape DEF Request, Message
<1> HIDE DEF m
<1>3. client'[c].pc = "in" /\ client'[c].answer = NoAnswer
  BY <1>1, TellShape DEF ClientType, At
<1>4. /\ conn'[c].down = conn[c].down /\ conn'[c].client = conn[c].client
      /\ conn'[c].server = conn[c].server
  BY <1>2, SendShape
<1>5. /\ \A i \in 1 .. Len(conn'[c].up) : ~ conn'[c].up[i].cut
      /\ \A i \in 1 .. Len(conn'[c].up) : conn'[c].up[i].type \in Unanswered
      /\ ~ conn[c].server => conn'[c].up = <<>> /\ server.pc = "exit"
  BY <1>1, <1>2, QueuedWith
<1>6. ~ Handling(c)'
  BY <1>1 DEF LinkInv, Handling, At
<1>7. LinkInv(c)'
  BY <1>1, <1>3, <1>4, <1>5, <1>6 DEF LinkInv, At
<1> QED BY <1>5, <1>7, TellShape, ClientProtocol

LEMMA AskProtocol ==
  ASSUME ProtocolInv, NEW c \in Clients, NEW type \in Answered, NEW n \in Nat, Ask(c, type, n),
         UNCHANGED <<server, tdata>>
  PROVE  ProtocolInv'
<1> DEFINE m == Request(type, n)
<1>1. /\ LinkInv(c) /\ At(c, "in") /\ client[c] \in ClientType /\ server' = server
      /\ conn[c].client /\ conn[c].down = <<>>
  BY LinkTypes DEF Ask, LinkInv, At
<1>2. m \in Requests /\ Send(c, m) /\ m.type = type /\ ~ m.cut
  BY AskShape DEF Request, Message
<1> HIDE DEF m
<1>3. client'[c].pc = "waiting" /\ client'[c].answer = NoAnswer /\ client'[c].asked = type
  BY <1>1, AskShape DEF ClientType
<1>4. /\ conn'[c].down = conn[c].down /\ conn'[c].client = conn[c].client
      /\ conn'[c].server = conn[c].server
  BY <1>2, SendShape
<1>5. /\ \A i \in 1 .. Len(conn'[c].up) : ~ conn'[c].up[i].cut
      /\ \A i \in 1 .. Len(conn'[c].up) :
           conn'[c].up[i].type \notin Unanswered => i = Len(conn'[c].up)
      /\ conn[c].server => conn'[c].up # <<>> /\ conn'[c].up[Len(conn'[c].up)] = m
      /\ ~ conn[c].server => conn'[c].up = <<>> /\ server.pc = "exit"
  BY <1>1, <1>2, QueuedWith
<1>6. ~ Handling(c)'
  BY <1>1 DEF LinkInv, Handling, At
<1>7. Queued(c)' \/ Lost(c)'
  BY <1>1, <1>2, <1>3, <1>4, <1>5, <1>6 DEF Queued, Lost
<1>8. LinkInv(c)'
  BY <1>1, <1>3, <1>4, <1>5, <1>6, <1>7 DEF LinkInv, At
<1> QED BY <1>5, <1>8, AskShape, ClientProtocol

LEMMA HearProtocol ==
  ASSUME ProtocolInv, NEW c \in Clients, Hear(c), UNCHANGED <<server, tdata>>
  PROVE  ProtocolInv'
<1>1. /\ LinkInv(c) /\ client[c] \in ClientType /\ server' = server /\ Replied(c)
      /\ \A i \in 1 .. Len(conn[c].up) : ~ conn[c].up[i].cut
      /\ conn[c].client
  BY LinkTypes, HearShape DEF ProtocolInv, LinkInv, At
<1>2. client'[c].pc = "in"
  BY <1>1, HearShape DEF ClientType
<1>3. /\ conn'[c].down = <<>> /\ conn'[c].up = conn[c].up
      /\ conn'[c].client = conn[c].client /\ conn'[c].server = conn[c].server
  BY HearShape
<1>4. ~ Handling(c)' /\ Heard(c)' /\ conn[c].up = <<>>
  BY <1>1, <1>3 DEF Replied, Handling, Heard
<1>5. LinkInv(c)'
  BY <1>1, <1>2, <1>3, <1>4 DEF LinkInv, At
<1>6. \A i \in 1 .. Len(conn'[c].up) : ~ conn'[c].up[i].cut
  BY <1>1, <1>3
<1> QED BY <1>5, <1>6, HearShape, ClientProtocol

LEMMA GoneProtocol ==
  ASSUME ProtocolInv, NEW c \in Clients, At(c, "in") \/ At(c, "waiting"), Gone(c),
         UNCHANGED <<server, tdata>>
  PROVE  ProtocolInv'
<1>1. /\ LinkInv(c) /\ client[c] \in ClientType /\ server' = server
      /\ \A i \in 1 .. Len(conn[c].up) : ~ conn[c].up[i].cut
  BY LinkTypes DEF ProtocolInv
<1>2. client'[c].pc = "gone" /\ client'[c].answer = client[c].answer
  BY <1>1, GoneShape DEF ClientType
<1>3. /\ conn'[c].down = <<>> /\ conn'[c].up = conn[c].up
      /\ ~ conn'[c].client /\ conn'[c].server = conn[c].server
  BY GoneShape
<1>4. client[c].answer # NoAnswer => Heard(c)'
  BY <1>1, <1>3 DEF LinkInv, Heard
<1>5. LinkInv(c)'
  BY <1>1, <1>2, <1>3, <1>4 DEF LinkInv, At
<1>6. \A i \in 1 .. Len(conn'[c].up) : ~ conn'[c].up[i].cut
  BY <1>1, <1>3
<1> QED BY <1>5, <1>6, GoneShape, ClientProtocol

(* The requests that a client sends, by how they are sent *)
LEMMA RequestsSent ==
  /\ RequestTypes \ (Unanswered \cup {"INSERT_POWERS"}) \subseteq Answered
  /\ "INSERT_POWERS" \in Answered /\ InsertSizes \subseteq Nat /\ 0 \in Nat
BY OpenAssumption DEF Answered, Unanswered, RequestTypes

LEMMA ProtocolKept == ProtocolInv /\ [Next]_vars => ProtocolInv'
<1> SUFFICES ASSUME ProtocolInv, [Next]_vars PROVE ProtocolInv'
  OBVIOUS
<1>1. CASE ServerStep /\ UNCHANGED client
  BY <1>1, ServerProtocol
<1>2. ASSUME NEW c \in Clients, Listen(c) PROVE ProtocolInv'
  BY <1>2, HearProtocol, GoneProtocol DEF Listen, LoseServer
<1>3. ASSUME NEW c \in Clients, ClientStep(c) PROVE ProtocolInv'
  <2>1. UNCHANGED <<server, tdata>>
    BY <1>3 DEF ClientStep
  <2>2. CASE Connect(c)
    BY <2>1, <2>2, ConnectProtocol
  <2>3. ASSUME NEW type \in Unanswered, Tell(c, type) PROVE ProtocolInv'
    BY <2>1, <2>3, TellProtocol
  <2>4. ASSUME NEW type \in RequestTypes \ (Unanswered \cup {"INSERT_POWERS"}), Ask(c, type, 0)
        PROVE  ProtocolInv'
    BY <2>1, <2>4, AskProtocol, RequestsSent
  <2>5. ASSUME NEW n \in InsertSizes, Ask(c, "INSERT_POWERS", n) PROVE ProtocolInv'
    BY <2>1, <2>5, AskProtocol, RequestsSent
  <2>6. CASE Disconnect(c)
    BY <2>1, <2>6, GoneProtocol DEF Disconnect
  <2> QED BY <1>3, <2>2, <2>3, <2>4, <2>5, <2>6 DEF ClientStep
<1>4. CASE UNCHANGED vars
  BY <1>4 DEF vars, ProtocolInv, ServerInv, WellTyped, Serving, LinkInv, At, Queued, InHand,
              Replied, Lost, Heard, Handling
<1> QED BY <1>1, <1>2, <1>3, <1>4 DEF Next

(* While a client waits and the connection stands, the request or its      *)
(* answer is under way exactly once, and nothing comes unasked: a queue    *)
(* holds at most one request that is answered, as its last.                *)
LEMMA OneUnderWay == ProtocolInv => OneAnswerUnderWay
<1> SUFFICES ASSUME ProtocolInv, NEW c \in Clients
             PROVE  LET asked == client[c].asked
                        handled == server.peer = c /\ server.pc \in {"handle", "slot"}
                                     /\ server.request.type = asked
                    IN
                    /\ \A i \in 1 .. Len(conn[c].down) :
                         At(c, "waiting") /\ conn[c].down[i].type = asked
                    /\ (At(c, "waiting") /\ conn[c].server /\ server.pc # "leave") =>
                         Cardinality({i \in 1 .. Len(conn[c].up) : conn[c].up[i].type = asked})
                           + Len(conn[c].down) + (IF handled THEN 1 ELSE 0) = 1
  BY DEF OneAnswerUnderWay
<1> DEFINE asked == client[c].asked
           handled == server.peer = c /\ server.pc \in {"handle", "slot"}
                        /\ server.request.type = asked
           queued == {i \in 1 .. Len(conn[c].up) : conn[c].up[i].type = asked}
<1>1. /\ LinkInv(c) /\ conn[c].up \in Seq(Requests) /\ conn[c].down \in Seq(Replies)
      /\ client[c].pc \in {"out", "in", "waiting", "gone"}
  BY LinkTypes
<1>2. \A i \in 1 .. Len(conn[c].down) : At(c, "waiting") /\ conn[c].down[i].type = asked
  BY <1>1 DEF LinkInv, At, Queued, InHand, Replied, Lost
<1>3. ASSUME At(c, "waiting"), conn[c].server, server.pc # "leave"
      PROVE  Cardinality(queued) + Len(conn[c].down) + (IF handled THEN 1 ELSE 0) = 1
  <2>1. asked \in Answered /\ (Queued(c) \/ InHand(c) \/ Replied(c))
    BY <1>1, <1>3 DEF LinkInv, Lost
  <2>2. conn[c].up = <<>> => Cardinality(queued) = 0
    BY FS_EmptySet
  <2>3. conn[c].down = <<>> => Len(conn[c].down) = 0
    OBVIOUS
  <2>4. CASE Queued(c)
    <3>1. Len(conn[c].up) \in 1 .. Len(conn[c].up)
      BY <1>1, <2>4, RestOf DEF Queued
    <3>2. queued = {Len(conn[c].up)}
      BY <1>1, <2>1, <2>4, <3>1 DEF LinkInv, Queued, Answered
    <3>3. Cardinality(queued) = 1
      BY <3>2, FS_Singleton
    <3>4. ~ handled /\ conn[c].down = <<>>
      BY <2>1, <2>4 DEF Queued, Handling
    <3> QED BY <2>3, <3>3, <3>4
  <2>5. CASE InHand(c)
    BY <2>2, <2>3, <2>5 DEF InHand, Handling
  <2>6. CASE Replied(c)
    BY <2>2, <2>6 DEF Replied
  <2> QED BY <2>1, <2>4, <2>5, <2>6
<1> QED BY <1>2, <1>3

(* THEOREM: with clients that send requests that are not answered at any   *)
(* time (RESET, PRINT_OUTPUT and unknown ones), a request that is answered *)
(* is under way once, as itself or as its answer, while the connection     *)
(* stands: no answer is taken for another.                                 *)
THEOREM AlwaysOneAnswerUnderWay == Spec => []OneAnswerUnderWay
<1>1. Spec => []ProtocolInv
  BY InitProtocol, ProtocolKept, PTL DEF Spec
<1> QED BY <1>1, OneUnderWay, PTL

-----------------------------------------------------------------------------
(* Counting the requests of a type in a queue                              *)

Where(s, type) == {i \in 1 .. Len(s) : s[i].type = type}

Count(s, type) == Cardinality(Where(s, type))

LEMMA CountTyped ==
  ASSUME NEW T, NEW s \in Seq(T), NEW type
  PROVE  /\ IsFiniteSet(Where(s, type)) /\ Count(s, type) \in Nat
         /\ s = <<>> => Count(s, type) = 0
<1>1. Len(s) \in Nat /\ IsFiniteSet(1 .. Len(s))
  BY LenProperties, FS_Interval
<1>2. Where(s, type) \in SUBSET (1 .. Len(s))
  BY DEF Where
<1>3. IsFiniteSet(Where(s, type))
  BY <1>1, <1>2, FS_Subset
<1>4. s = <<>> => Where(s, type) = {}
  BY DEF Where
<1> QED BY <1>3, <1>4, FS_CardinalityType, FS_EmptySet DEF Count

LEMMA CountAppend ==
  ASSUME NEW T, NEW s \in Seq(T), NEW m \in T, NEW type
  PROVE  Count(Append(s, m), type) = Count(s, type) + (IF m.type = type THEN 1 ELSE 0)
<1> DEFINE q == Append(s, m)
           n == Len(s)
<1>1. /\ n \in Nat /\ Len(q) = n + 1 /\ q[n + 1] = m
      /\ \A i \in 1 .. n : q[i] = s[i]
  BY AppendProperties, LenProperties
<1> HIDE DEF q
<1>2. /\ IsFiniteSet(Where(s, type)) /\ Cardinality(Where(s, type)) \in Nat
      /\ n + 1 \notin Where(s, type)
  <2>1. n + 1 \notin Where(s, type)
    BY <1>1 DEF Where
  <2> QED BY <2>1, CountTyped DEF Count
<1>3. CASE m.type = type
  <2>1. Where(q, type) = Where(s, type) \cup {n + 1}
    BY <1>1, <1>3 DEF Where
  <2> QED BY <1>2, <1>3, <2>1, FS_AddElement DEF Count, q
<1>4. CASE m.type # type
  <2>1. Where(q, type) = Where(s, type)
    BY <1>1, <1>4 DEF Where
  <2> QED BY <1>2, <1>4, <2>1 DEF Count, q
<1> QED BY <1>3, <1>4

LEMMA CountTail ==
  ASSUME NEW T, NEW s \in Seq(T), s # <<>>, NEW type
  PROVE  Count(s, type) = Count(Tail(s), type) + (IF Head(s).type = type THEN 1 ELSE 0)
<1> DEFINE q == Tail(s)
           n == Len(s)
           Later == Where(s, type) \ {1}
<1>1. /\ n \in Nat \ {0} /\ Len(q) = n - 1 /\ q \in Seq(T) /\ Head(s) = s[1]
      /\ \A i \in 1 .. n - 1 : q[i] = s[i + 1]
  BY RestOf
<1> HIDE DEF q
<1>2. Cardinality(Later) = Cardinality(Where(q, type))
  <2> DEFINE f == [i \in Where(q, type) |-> i + 1]
  <2>1. ASSUME NEW i \in Where(q, type) PROVE f[i] \in Later
    <3>1. i \in 1 .. n - 1 /\ s[i + 1].type = type /\ i + 1 \in 1 .. n /\ i + 1 # 1
      BY <1>1 DEF Where
    <3> QED BY <3>1 DEF Where
  <2>2. \A i, j \in Where(q, type) : f[i] = f[j] => i = j
    BY <1>1 DEF Where
  <2>3. ASSUME NEW j \in Later PROVE \E i \in Where(q, type) : f[i] = j
    <3>1. j - 1 \in 1 .. n - 1 /\ s[j - 1 + 1].type = type /\ j - 1 + 1 = j
      BY <1>1 DEF Where
    <3>2. j - 1 \in Where(q, type) /\ f[j - 1] = j
      BY <1>1, <3>1 DEF Where
    <3> QED BY <3>2
  <2>4. f \in [Where(q, type) -> Later]
    BY <2>1
  <2> HIDE DEF f
  <2>5. f \in Bijection(Where(q, type), Later)
    BY <2>2, <2>3, <2>4, Fun_IsBij
  <2> QED BY <1>1, <2>5, CountTyped, FS_Bijection DEF ExistsBijection
<1>3. IsFiniteSet(Where(s, type)) /\ Cardinality(Where(s, type)) \in Nat
  BY CountTyped DEF Count
<1>4. 1 \in Where(s, type) <=> Head(s).type = type
  BY <1>1 DEF Where
<1>5. Count(s, type) = Cardinality(Later) + (IF Head(s).type = type THEN 1 ELSE 0)
  <2>1. Cardinality(Later) = IF 1 \in Where(s, type) THEN Cardinality(Where(s, type)) - 1
                             ELSE Cardinality(Where(s, type))
    BY <1>3, FS_RemoveElement
  <2> QED BY <1>3, <1>4, <2>1 DEF Count
<1> QED BY <1>2, <1>5 DEF Count, q

-----------------------------------------------------------------------------
(* What the client knows                                                   *)

(* The number of requests of a type that the server still has to finish *)
Pending(c, type) ==
  Count(conn[c].up, type)
    + (IF server.peer = c /\ server.pc = "handle" /\ server.request.type = type THEN 1 ELSE 0)

(* The simulated time and the resets, as the client will see them when it  *)
(* has heard what is on its way                                            *)
ClockNow(c) ==
  IF conn[c].down = <<>> THEN client[c].clock
  ELSE ClockAfter(client[c].clock, conn[c].down[1].result)

ResetNow(c) ==
  client[c].reset /\ (conn[c].down # <<>> => conn[c].down[1].result \notin Done)

(* A slot that the client has asked for has begun *)
InSlot(td, clock) ==
  \/ td.time = clock
  \/ ~ slot_completed(td) /\ SlotOf(td.time) = SlotOf(clock + 1)

ClockInv(c) ==
  IF server.pc = "slot" THEN InSlot(tdata, client[c].clock) ELSE tdata.time = ClockNow(c)

ResetInv(c) ==
  server.pc # "slot" =>
    IF ResetNow(c) THEN tdata.temperatures.steps = 0 \/ Pending(c, "RESET_THERMAL_STATE") > 0
    ELSE /\ Pending(c, "RESET_THERMAL_STATE") = 0
         /\ tdata.temperatures.steps > 0 \/ tdata.time = 0

FileInv(c) ==
  IF server.headers
  THEN ~ server.file.lost => /\ server.file.of = "this_run"
                             /\ client[c].prints = server.file.lines + Pending(c, "PRINT_OUTPUT")
  ELSE client[c].prints = Pending(c, "PRINT_OUTPUT")

Knows(c) == ClockInv(c) /\ ResetInv(c) /\ FileInv(c)

EndOf(td) == SlotLength * Min({td.supplied[e] : e \in Elements})

(* An answer, on its way or heard *)
Correct(c, answer) ==
  /\ answer.type = "SEND_OUTPUT" =>
       /\ answer.result = "none" /\ answer.time = client[c].clock
       /\ answer.n = IF client[c].reset THEN 0 ELSE SlotOf(client[c].clock)
  /\ answer.type = "SEND_OUTPUT_FILES" =>
       /\ answer.result \in Owners
       /\ (client[c].prints > 0 /\ ~ server.file.lost) =>
            answer.result = "this_run" /\ answer.n = client[c].prints
  /\ answer.result = "END_OF_SIMULATION" =>
       /\ server.pc \in {"leave", "exit"}
       /\ client[c].clock = EndOf(tdata)

ComingCorrect(c) == conn[c].down # <<>> => Correct(c, conn[c].down[1])

(* Nothing has been simulated or printed, whatever has been asked for *)
Fresh ==
  /\ ~ server.headers /\ tdata.time = 0 /\ tdata.temperatures.steps = 0
  /\ \A c \in Clients :
       /\ client[c].clock = 0
       /\ client[c].prints = Count(conn[c].up, "PRINT_OUTPUT")
       /\ ~ client[c].reset => Count(conn[c].up, "RESET_THERMAL_STATE") = 0

KnowledgeInv ==
  /\ ProtocolInv
  /\ \A c \in Clients : (Serving /\ server.peer = c /\ conn[c].client) => Knows(c)
  /\ server.pc \in {"start", "wait"} => Fresh
  /\ \A c \in Clients : Correct(c, client[c].answer) /\ ComingCorrect(c)

LEMMA NoAnswerCorrect ==
  ASSUME NEW c
  PROVE  Correct(c, NoAnswer) /\ Correct(c, NoAnswer)'
BY DEF Correct, NoAnswer, Message

LEMMA InitKnowledge == Init => KnowledgeInv
<1> SUFFICES ASSUME Init PROVE KnowledgeInv
  OBVIOUS
<1>1. ProtocolInv
  BY InitProtocol
<1>2. PICK config \in Configs, supply \in Supplies, flow \in Flows :
        tdata = Built(config, supply, flow)
  BY DEF Init, ServerInit
<1>3. tdata.time = 0 /\ tdata.temperatures.steps = 0
  <2>1. supply \in [Elements -> Nat]
    BY ThermalAssumption
  <2> QED BY <1>2, <2>1, BuiltInProgress DEF InitialTemperatures
<1>4. ~ server.headers /\ server.pc = "start"
  <2>1. PICK whose \in FilesBefore :
          server = [pc |-> "start", peer |-> Nobody, request |-> Request("UNKNOWN", 0),
                    status |-> "none", headers |-> FALSE,
                    file |-> [of |-> whose, lines |-> 0, lost |-> FALSE]]
    BY DEF Init, ServerInit
  <2> HIDE DEF Request
  <2> QED BY <2>1
<1>5. ASSUME NEW c \in Clients
      PROVE  /\ client[c] = Stranger /\ conn[c].up = <<>> /\ conn[c].down = <<>>
             /\ \A type : Count(conn[c].up, type) = 0
  <2>1. client[c] = Stranger /\ conn[c] = NotConnected
    BY DEF Init, ServerInit
  <2>2. <<>> \in Seq(Requests)
    OBVIOUS
  <2>3. conn[c].up = <<>> /\ conn[c].down = <<>>
    BY <2>1 DEF NotConnected
  <2>4. \A type : Count(conn[c].up, type) = 0
    BY <2>2, <2>3, CountTyped
  <2> QED BY <2>1, <2>3, <2>4
<1>6. Fresh
  BY <1>3, <1>4, <1>5 DEF Fresh, Stranger
<1>7. \A c \in Clients : Correct(c, client[c].answer) /\ ComingCorrect(c)
  BY <1>5, NoAnswerCorrect DEF Stranger, ComingCorrect
<1> QED BY <1>1, <1>4, <1>6, <1>7 DEF KnowledgeInv, Serving

-----------------------------------------------------------------------------
(* The server's steps                                                      *)

LEMMA PendingTyped ==
  ASSUME ProtocolInv, NEW c \in Clients, NEW type
  PROVE  Pending(c, type) \in Nat /\ Count(conn[c].up, type) \in Nat
BY LinkTypes, CountTyped DEF Pending

(* Where the server has not answered, its client knows nothing new *)
LEMMA NothingHeard ==
  ASSUME ProtocolInv, server.pc \notin {"receive", "leave", "exit"},
         ~ (server.pc = "handle" /\ server.request.type = "EXIT_SIMULATION"),
         NEW c \in Clients
  PROVE  client[c].answer = NoAnswer /\ conn[c].down = <<>>
<1>1. LinkInv(c) /\ client[c].pc \in {"out", "in", "waiting", "gone"}
  BY LinkTypes
<1>2. client[c].answer = NoAnswer
  BY <1>1 DEF LinkInv, Heard
<1>3. conn[c].down = <<>>
  BY <1>1 DEF LinkInv, At, Queued, InHand, Replied, Lost
<1> QED BY <1>2, <1>3

LEMMA AnsweredFacts ==
  ASSUME ProtocolInv, server.pc \in {"handle", "slot"}, server.request.type \in Answered,
         UNCHANGED client, NEW c \in Clients, c = server.peer, conn[c].client
  PROVE  /\ conn[c].up = <<>> /\ conn[c].down = <<>>
         /\ \A type : Count(conn[c].up, type) = 0
         /\ \A type \in Unanswered : Pending(c, type) = 0
<1>1. LinkInv(c) /\ conn[c].up \in Seq(Requests)
  BY LinkTypes
<1>2. Handling(c)
  BY DEF Handling
<1>3. conn[c].up = <<>> /\ conn[c].down = <<>>
  BY <1>1, <1>2 DEF LinkInv, At, Queued, InHand, Replied, Lost
<1>4. \A type : Count(conn[c].up, type) = 0
  BY <1>1, <1>3, CountTyped
<1> QED BY <1>3, <1>4 DEF Pending, Answered

(* The answer to a request is the only message of its connection *)
LEMMA SentFacts ==
  ASSUME ProtocolInv, server.pc \in {"handle", "slot"}, server.request.type \in Answered,
         UNCHANGED client, NEW c \in Clients, c = server.peer, conn[c].client,
         NEW m \in Replies, MayAnswer(m)
  PROVE  /\ conn'[c].up = <<>> /\ conn'[c].down # <<>> /\ conn'[c].down[1] = m
         /\ server'.pc \in {"receive", "leave"}
         /\ \A type : Pending(c, type)' = 0
         /\ \A d \in Clients \ {c} : conn'[d] = conn[d]
<1>1. /\ conn[c].up = <<>> /\ conn[c].down = <<>>
      /\ \A type : Count(conn[c].up, type) = 0
  BY AnsweredFacts
<1>2. Sends(m)
  BY DEF MayAnswer, Peer
<1>3. conn'[c].up = <<>> /\ conn'[c].down = Append(<<>>, m)
  BY <1>1, <1>2 DEF Sends, Peer
<1>4. Append(<<>>, m) # <<>> /\ Append(<<>>, m)[1] = m
  OBVIOUS
<1>5. /\ server'.pc \in {"receive", "leave"}
      /\ \A d \in Clients \ {c} : conn'[d] = conn[d]
  BY <1>2 DEF Sends, Peer
<1>6. \A type : Count(conn'[c].up, type) = 0
  BY <1>1, <1>3
<1> QED BY <1>3, <1>4, <1>5, <1>6 DEF Pending

(* Its client, after a step that answers without simulating anything *)
LEMMA PlainAnswer ==
  ASSUME ProtocolInv, server.pc = "handle", server.request.type \in Answered,
         UNCHANGED client, NEW c \in Clients, c = server.peer, conn[c].client,
         Knows(c), NEW m \in Replies, MayAnswer(m), SameFile,
         tdata'.time = tdata.time,
         tdata'.temperatures.steps = tdata.temperatures.steps,
         m.result \notin Done
  PROVE  Knows(c)'
<1>1. /\ conn[c].down = <<>> /\ conn'[c].down # <<>> /\ conn'[c].down[1] = m
      /\ server'.pc # "slot" /\ client' = client
      /\ \A type \in Unanswered : Pending(c, type) = 0 /\ Pending(c, type)' = 0
  BY AnsweredFacts, SentFacts
<1>2. "RESET_THERMAL_STATE" \in Unanswered /\ "PRINT_OUTPUT" \in Unanswered
  BY DEF Unanswered
<1>3. ClockAfter(client[c].clock, m.result) = client[c].clock
  BY DEF ClockAfter, Done
<1>4. ClockInv(c)'
  BY <1>1, <1>3 DEF Knows, ClockInv, ClockNow
<1>5. ResetInv(c)'
  BY <1>1, <1>2 DEF Knows, ResetInv, ResetNow
<1>6. FileInv(c)'
  BY <1>1, <1>2 DEF Knows, FileInv, SameFile
<1> QED BY <1>4, <1>5, <1>6 DEF Knows

(* An output shows what the client knows *)
LEMMA OutputCorrect ==
  ASSUME ProtocolInv, SendOutput, NEW c \in Clients, c = server.peer, conn[c].client,
         Knows(c), UNCHANGED client
  PROVE  ComingCorrect(c)' /\ Knows(c)'
<1> DEFINE m == Message("SEND_OUTPUT", tdata.temperatures.power[1], "none", tdata.time)
<1>1. server.pc = "handle" /\ server.request.type \in Answered
      /\ InProgress(tdata) /\ tdata \in ThermalType
  BY DEF SendOutput, Handles, Answered, Unanswered, RequestTypes, ProtocolInv, ServerInv
<1>2. /\ conn[c].down = <<>> /\ Pending(c, "RESET_THERMAL_STATE") = 0
      /\ client'[c] = client[c]
  BY <1>1, AnsweredFacts DEF Unanswered
<1>3. tdata.time = client[c].clock
  BY <1>1, <1>2 DEF Knows, ClockInv, ClockNow
<1>4. tdata.temperatures.power[1] =
        IF tdata.temperatures.steps = 0 THEN 0 ELSE SlotOf(tdata.time)
  BY <1>1, ThermalAssumption DEF InProgress, Elements
<1>5. client[c].reset => tdata.temperatures.steps = 0
  BY <1>1, <1>2 DEF Knows, ResetInv, ResetNow
<1>6. ~ client[c].reset => tdata.temperatures.steps > 0 \/ tdata.time = 0
  BY <1>1, <1>2 DEF Knows, ResetInv, ResetNow
<1>7. tdata.temperatures.power[1] = IF client[c].reset THEN 0 ELSE SlotOf(client[c].clock)
  <2>1. tdata.temperatures.steps \in Nat
    BY <1>1 DEF ThermalType, TemperaturesType
  <2>2. CASE client[c].reset
    BY <1>4, <1>5, <2>2
  <2>3. CASE ~ client[c].reset /\ tdata.time = 0
    BY <1>3, <1>4, <2>3, SlotZero
  <2>4. CASE ~ client[c].reset /\ tdata.time # 0
    BY <1>3, <1>4, <1>6, <2>1, <2>4
  <2> QED BY <2>2, <2>3, <2>4
<1>8. /\ m.type = "SEND_OUTPUT" /\ m.result = "none" /\ m.time = client[c].clock
      /\ m.n = IF client[c].reset THEN 0 ELSE SlotOf(client[c].clock)
  BY <1>3, <1>7 DEF Message
<1>9. m \in Replies /\ MayAnswer(m) /\ SameFile /\ tdata' = tdata
  BY OutputShape DEF ProtocolInv
<1> HIDE DEF m
<1>10. Knows(c)'
  BY <1>1, <1>8, <1>9, PlainAnswer DEF Done
<1>11. conn'[c].down[1] = m
  BY <1>1, <1>9, SentFacts
<1>12. ComingCorrect(c)'
  BY <1>2, <1>8, <1>11 DEF ComingCorrect, Correct
<1> QED BY <1>10, <1>12

(* The files have a line for each output that the client has had printed *)
LEMMA FilesCorrect ==
  ASSUME ProtocolInv, SendOutputFiles, NEW c \in Clients, c = server.peer, conn[c].client,
         Knows(c), UNCHANGED client,
         MayAnswer(Message("SEND_OUTPUT_FILES", server.file.lines, server.file.of, 0))
  PROVE  ComingCorrect(c)' /\ Knows(c)'
<1> DEFINE m == Message("SEND_OUTPUT_FILES", server.file.lines, server.file.of, 0)
<1>1. /\ server.pc = "handle" /\ server.request.type \in Answered
      /\ server.file \in File /\ SameFile /\ client[c] \in ClientType
  BY FilesShape, LinkTypes
  DEF SendOutputFiles, FilesMessage, Handles, Answered, Unanswered, RequestTypes, ProtocolInv, Process
<1>2. Pending(c, "PRINT_OUTPUT") = 0 /\ client'[c] = client[c]
  BY <1>1, AnsweredFacts DEF Unanswered
<1>3. /\ client[c].prints \in Nat /\ server.file.lines \in Nat /\ server.file.of \in Owners
      /\ server'.file = server.file
  BY <1>1 DEF File, ClientType, SameFile
<1>4. (client[c].prints > 0 /\ ~ server.file.lost) =>
        server.file.of = "this_run" /\ server.file.lines = client[c].prints
  <2>1. IF server.headers
        THEN ~ server.file.lost => /\ server.file.of = "this_run"
                                   /\ client[c].prints = server.file.lines + 0
        ELSE client[c].prints = 0
    BY <1>2 DEF Knows, FileInv
  <2> HIDE DEF m
  <2>2. client[c].prints \in Nat /\ server.file.lines \in Nat
    BY <1>3
  <2> QED BY <2>1, <2>2
<1>5. /\ m.type = "SEND_OUTPUT_FILES" /\ m.result = server.file.of
      /\ m.n = server.file.lines
  BY DEF Message
<1>6. m.result # "END_OF_SIMULATION"
  BY <1>3, <1>5 DEF Owners
<1>7. m \in Replies /\ MayAnswer(m) /\ tdata' = tdata
  BY FilesShape DEF ProtocolInv
<1>8. m.result \notin Done
  BY <1>3, <1>5 DEF Owners, Done
<1> HIDE DEF m
<1>9. Knows(c)'
  BY <1>1, <1>7, <1>8, PlainAnswer
<1>10. conn'[c].down[1] = m
  BY <1>1, <1>7, SentFacts
<1>11. ComingCorrect(c)'
  BY <1>2, <1>3, <1>4, <1>5, <1>6, <1>10 DEF ComingCorrect, Correct
<1> QED BY <1>9, <1>11

(* A step of a slot that began at the client's clock: the next in that     *)
(* slot, its last, or the discovery that there are no more power values    *)
LEMMA EmulatedClock ==
  ASSUME NEW td \in ThermalType, td.config.analysis = "transient", InProgress(td),
         NEW clock \in Nat, InSlot(td, clock), NEW out \in emulate_step(td)
  PROVE  /\ out.result = "STEP_DONE" =>
              /\ InSlot(out.td, clock)
              /\ td.time = clock => out.td.time = ClockAfter(clock, "STEP_DONE")
         /\ out.result = "SLOT_DONE" => out.td.time = ClockAfter(clock, "SLOT_DONE")
         /\ out.result = "END_OF_SIMULATION" => clock = EndOf(out.td)
<1>1. td.time \in Nat /\ SlotOf(td.time + 1) = SlotOf(clock + 1)
  <2>1. td.time \in Nat
    BY DEF ThermalType
  <2>2. CASE td.time = clock
    BY <2>1, <2>2
  <2>3. CASE ~ slot_completed(td) /\ SlotOf(td.time) = SlotOf(clock + 1)
    BY <2>1, <2>3, SameSlot DEF slot_completed
  <2> QED BY <2>1, <2>2, <2>3 DEF InSlot
<1>2. ASSUME out.result \in Done
      PROVE  /\ out.td.time = td.time + 1 /\ SlotOf(out.td.time) = SlotOf(clock + 1)
             /\ out.result = IF slot_completed(out.td) THEN "SLOT_DONE" ELSE "STEP_DONE"
  BY <1>1, <1>2, EmulatedInProgress
<1>3. CASE out.result = "STEP_DONE"
  BY <1>2, <1>3 DEF Done, InSlot, ClockAfter
<1>4. CASE out.result = "SLOT_DONE"
  <2>1. slot_completed(out.td) /\ out.td.time \in Nat
    BY <1>1, <1>2, <1>4 DEF Done
  <2>2. out.td.time = SlotOf(out.td.time) * SlotLength
    BY <2>1, SlotEnd DEF slot_completed
  <2> QED BY <1>2, <1>4, <2>2 DEF Done, ClockAfter
<1>5. CASE out.result = "END_OF_SIMULATION"
  <2> DEFINE S == {td.supplied[e] : e \in Elements}
  <2>1. slot_completed(td) /\ td.time = Min(S) * SlotLength /\ out.td.supplied = td.supplied
    BY <1>5, EmulatedToTheEnd
  <2>2. td.time = clock
    BY <2>1 DEF InSlot
  <2>3. Min(S) \in Nat
    <3>1. 1 \in Elements
      BY ThermalAssumption DEF Elements
    <3>2. S \in SUBSET Nat /\ S # {}
      BY <3>1 DEF ThermalType
    <3> QED BY <3>2, MinOfNaturals
  <2>4. EndOf(out.td) = SlotLength * Min(S)
    BY <2>1 DEF EndOf
  <2> HIDE DEF S
  <2> QED BY <1>5, <2>1, <2>2, <2>3, <2>4, ThermalAssumption
<1> QED BY <1>3, <1>4, <1>5, Zenon

(* An answer to a simulation request tells the client how far it is *)
LEMMA EmulationKnows ==
  ASSUME ProtocolInv, UNCHANGED client, NEW c \in Clients, c = server.peer, conn[c].client,
         Knows(c), NEW type \in {"SIMULATE_SLOT", "SIMULATE_STEP"},
         server.pc \in {"handle", "slot"}, server.request.type = type,
         NEW out \in emulate_step(tdata), tdata' = out.td, SameFile,
         server.pc = "handle" \/ out.result # "STEP_DONE",
         server'.pc = "receive" => out.result \in Done,
         Message(type, 0, out.result, 0) \in Replies,
         MayAnswer(Message(type, 0, out.result, 0))
  PROVE  (server'.pc = "receive" => Knows(c)') /\ ComingCorrect(c)'
<1> DEFINE m == Message(type, 0, out.result, 0)
<1>1. /\ tdata \in ThermalType /\ tdata.config.analysis = "transient" /\ InProgress(tdata)
      /\ client[c].clock \in Nat /\ client'[c] = client[c]
  BY LinkTypes DEF ProtocolInv, ServerInv, ClientType
<1>2. server.request.type \in Answered /\ "RESET_THERMAL_STATE" \in Unanswered
      /\ "PRINT_OUTPUT" \in Unanswered
  BY DEF Answered, Unanswered, RequestTypes
<1>3. /\ m \in Replies /\ MayAnswer(m) /\ m.result = out.result /\ m.type = type
  BY DEF Message
<1> HIDE DEF m
<1>4. /\ conn[c].down = <<>> /\ conn'[c].down # <<>> /\ conn'[c].down[1] = m
      /\ server'.pc \in {"receive", "leave"}
      /\ \A t \in Unanswered : Pending(c, t) = 0 /\ Pending(c, t)' = 0
  BY <1>2, <1>3, AnsweredFacts, SentFacts
<1>5. /\ InSlot(tdata, client[c].clock)
      /\ server.pc = "handle" => tdata.time = client[c].clock
  BY <1>4 DEF Knows, ClockInv, ClockNow, InSlot
<1>6. ASSUME server'.pc = "receive" PROVE Knows(c)'
  <2>1. out.result \in Done /\ (out.result = "STEP_DONE" => tdata.time = client[c].clock)
    BY <1>5, <1>6
  <2>2. tdata'.time = ClockAfter(client[c].clock, out.result)
    BY <1>1, <1>5, <2>1, EmulatedClock DEF Done
  <2>3. ClockInv(c)'
    BY <1>1, <1>3, <1>4, <1>6, <2>2 DEF ClockInv, ClockNow
  <2>4. tdata'.temperatures.steps > 0
    <3>1. tdata.temperatures.steps \in Nat
      BY <1>1 DEF ThermalType, TemperaturesType
    <3>2. out.td.temperatures.steps = tdata.temperatures.steps + 1
      BY <1>1, <2>1, EmulatedInProgress
    <3> QED BY <3>1, <3>2
  <2>5. ResetInv(c)'
    BY <1>2, <1>3, <1>4, <2>1, <2>4 DEF ResetInv, ResetNow
  <2>6. FileInv(c)'
    BY <1>1, <1>2, <1>4 DEF Knows, FileInv, SameFile
  <2> QED BY <2>3, <2>5, <2>6 DEF Knows
<1>7. ComingCorrect(c)'
  <2>1. out.result = "END_OF_SIMULATION" =>
          server'.pc = "leave" /\ client[c].clock = EndOf(tdata')
    BY <1>1, <1>4, <1>5, EmulatedClock DEF Done
  <2> QED BY <1>1, <1>3, <1>4, <2>1 DEF ComingCorrect, Correct
<1> QED BY <1>6, <1>7

(* A request that is not answered is done with *)
LEMMA SilentFacts ==
  ASSUME ProtocolInv, server.pc = "handle", NEW c \in Clients, c = server.peer,
         Turns("receive"), NEW type
  PROVE  /\ Pending(c, type)' \in Nat
         /\ Pending(c, type) = Pending(c, type)'
                                 + (IF server.request.type = type THEN 1 ELSE 0)
<1>1. Count(conn[c].up, type) \in Nat
  BY PendingTyped
<1>2. Pending(c, type)' = Count(conn[c].up, type) + 0
  BY DEF Pending, Turns
<1>3. Pending(c, type) = Count(conn[c].up, type)
                           + (IF server.request.type = type THEN 1 ELSE 0)
  BY DEF Pending
<1> QED BY <1>1, <1>2, <1>3

LEMMA SilentKnows ==
  ASSUME ProtocolInv, UNCHANGED client, NEW c \in Clients, c = server.peer, conn[c].client,
         Knows(c), Turns("receive"), Reset \/ Unknown \/ PrintOutput
  PROVE  Knows(c)'
<1>1. /\ server.pc = "handle" /\ server'.pc = "receive" /\ conn' = conn /\ client' = client
  BY DEF Reset, Unknown, PrintOutput, Handles, Turns
<1> DEFINE resets  == Pending(c, "RESET_THERMAL_STATE")
           resets2 == Pending(c, "RESET_THERMAL_STATE")'
           prints  == Pending(c, "PRINT_OUTPUT")
           prints2 == Pending(c, "PRINT_OUTPUT")'
<1>2. /\ resets2 \in Nat /\ prints2 \in Nat
      /\ resets = resets2 + (IF server.request.type = "RESET_THERMAL_STATE" THEN 1 ELSE 0)
      /\ prints = prints2 + (IF server.request.type = "PRINT_OUTPUT" THEN 1 ELSE 0)
  BY <1>1, SilentFacts
<1>3. /\ tdata.time = ClockNow(c)
      /\ IF ResetNow(c) THEN tdata.temperatures.steps = 0 \/ resets > 0
         ELSE resets = 0 /\ (tdata.temperatures.steps > 0 \/ tdata.time = 0)
      /\ IF server.headers
         THEN ~ server.file.lost => /\ server.file.of = "this_run"
                                    /\ client[c].prints = server.file.lines + prints
         ELSE client[c].prints = prints
  BY <1>1 DEF Knows, ClockInv, ResetInv, FileInv
<1>4. ClockNow(c)' = ClockNow(c) /\ ResetNow(c)' = ResetNow(c)
  BY <1>1 DEF ClockNow, ResetNow
<1>5. client[c].prints \in Nat /\ tdata \in ThermalType /\ server.file.lines \in Nat
  BY LinkTypes DEF ClientType, ProtocolInv, ServerInv, Process, File
<1> SUFFICES /\ tdata'.time = ClockNow(c)
             /\ IF ResetNow(c) THEN tdata'.temperatures.steps = 0 \/ resets2 > 0
                ELSE resets2 = 0 /\ (tdata'.temperatures.steps > 0 \/ tdata'.time = 0)
             /\ IF server'.headers
                THEN ~ server'.file.lost => /\ server'.file.of = "this_run"
                                            /\ client[c].prints = server'.file.lines + prints2
                ELSE client[c].prints = prints2
  <2> HIDE DEF ClockNow
  <2>1. ClockInv(c)' <=> tdata'.time = ClockNow(c)
    BY <1>1, <1>4 DEF ClockInv
  <2>2. ResetInv(c)' <=> IF ResetNow(c) THEN tdata'.temperatures.steps = 0 \/ resets2 > 0
                         ELSE resets2 = 0 /\ (tdata'.temperatures.steps > 0 \/ tdata'.time = 0)
    BY <1>1, <1>4 DEF ResetInv
  <2>3. FileInv(c)' <=> IF server'.headers
                THEN ~ server'.file.lost => /\ server'.file.of = "this_run"
                                            /\ client[c].prints = server'.file.lines + prints2
                ELSE client[c].prints = prints2
    BY <1>1 DEF FileInv
  <2> QED BY <2>1, <2>2, <2>3 DEF Knows
<1> HIDE DEF resets, resets2, prints, prints2
<1>6. CASE Reset
  <2>1. /\ server.request.type = "RESET_THERMAL_STATE"
        /\ tdata'.time = tdata.time /\ tdata'.temperatures.steps = 0
        /\ server'.headers = server.headers /\ server'.file = server.file
    BY <1>5, <1>6, ResetShape, ResetInProgress DEF Reset, Handles, ProtocolInv, SameFile
  <2> QED BY <1>2, <1>3, <2>1
<1>7. CASE Unknown
  <2>1. /\ server.request.type = "UNKNOWN" /\ tdata' = tdata
        /\ server'.headers = server.headers /\ server'.file = server.file
    BY <1>7, UnknownShape DEF Unknown, Handles, ProtocolInv, SameFile
  <2> QED BY <1>2, <1>3, <2>1
<1>8. CASE PrintOutput
  <2>1. /\ server.request.type = "PRINT_OUTPUT" /\ tdata' = tdata /\ server'.headers
        /\ \/ server'.file.lost
           \/ /\ server'.file.of = "this_run" /\ server'.file.lost = server.file.lost
              /\ server'.file.lines = IF server.headers THEN server.file.lines + 1 ELSE 1
    BY <1>1, <1>8, PrintShape DEF PrintOutput, Handles, ProtocolInv, Turns
  <2>2. /\ resets = resets2 /\ prints = prints2 + 1
    BY <1>2, <2>1
  <2>3. CASE server'.file.lost
    BY <1>3, <2>1, <2>2, <2>3
  <2>4. CASE ~ server'.file.lost
    <3>1. ~ server.file.lost /\ server'.file.of = "this_run"
          /\ server'.file.lines = IF server.headers THEN server.file.lines + 1 ELSE 1
      BY <2>1, <2>4
    <3>2. client[c].prints = server'.file.lines + prints2
      BY <1>2, <1>3, <1>5, <2>2, <3>1
    <3> QED BY <1>3, <2>1, <2>2, <3>1, <3>2
  <2> QED BY <2>3, <2>4
<1> QED BY <1>6, <1>7, <1>8

LEMMA BeginKnows ==
  ASSUME ProtocolInv, UNCHANGED client, NEW c \in Clients, c = server.peer, conn[c].client,
         Knows(c), BeginSlot
  PROVE  Knows(c)'
<1>1. /\ server.pc = "handle" /\ server.request.type = "SIMULATE_SLOT"
      /\ server'.pc = "slot" /\ conn' = conn /\ tdata' = tdata /\ SameFile
      /\ client' = client /\ server'.request = server.request
  BY BeginSlotShape DEF BeginSlot, Handles, ProtocolInv, Turns
<1>2. conn[c].down = <<>> /\ \A type : Count(conn[c].up, type) = 0
  BY <1>1, AnsweredFacts DEF Answered, Unanswered, RequestTypes
<1>3. Pending(c, "PRINT_OUTPUT") = 0 /\ Pending(c, "PRINT_OUTPUT")' = 0
  BY <1>1, <1>2 DEF Pending
<1>4. ClockInv(c)'
  BY <1>1, <1>2 DEF Knows, ClockInv, ClockNow, InSlot
<1>5. ResetInv(c)'
  BY <1>1 DEF ResetInv
<1>6. FileInv(c)'
  BY <1>1, <1>3 DEF Knows, FileInv, SameFile
<1> QED BY <1>4, <1>5, <1>6 DEF Knows

(* A step of a slot that is not its last *)
LEMMA WithinKnows ==
  ASSUME ProtocolInv, UNCHANGED <<server, conn, client>>, NEW c \in Clients, Knows(c),
         server.pc = "slot", NEW out \in emulate_step(tdata), tdata' = out.td,
         out.result = "STEP_DONE"
  PROVE  Knows(c)'
<1>1. /\ tdata \in ThermalType /\ tdata.config.analysis = "transient" /\ InProgress(tdata)
      /\ client[c].clock \in Nat /\ client' = client /\ server' = server /\ conn' = conn
  BY LinkTypes DEF ProtocolInv, ServerInv, ClientType
<1>2. InSlot(tdata', client[c].clock)
  BY <1>1, EmulatedClock DEF Knows, ClockInv
<1>3. Pending(c, "PRINT_OUTPUT")' = Pending(c, "PRINT_OUTPUT")
  BY <1>1 DEF Pending
<1> QED BY <1>1, <1>2, <1>3 DEF Knows, ClockInv, ResetInv, FileInv

LEMMA ReceiveKnows ==
  ASSUME ProtocolInv, UNCHANGED client, Receive, NEW c \in Clients, c = server.peer,
         conn[c].client, Knows(c)
  PROVE  Knows(c)'
<1>1. /\ server.pc = "receive" /\ server'.pc = "handle" /\ server'.peer = c
      /\ conn'[c].down = conn[c].down /\ tdata' = tdata /\ SameFile /\ client' = client
      /\ conn[c].up # <<>> /\ conn'[c].up = Tail(conn[c].up)
      /\ conn[c].up \in Seq(Requests)
  BY ReceiveShape, LinkTypes DEF ProtocolInv, Peer, Receive
<1>2. server'.request = Head(conn[c].up)
  <2>1. 1 \in 1 .. Len(conn[c].up) /\ Head(conn[c].up) = conn[c].up[1]
    BY <1>1, RestOf
  <2>2. ~ Head(conn[c].up).cut
    BY <2>1 DEF ProtocolInv
  <2> QED BY <1>1, <2>2, ReceiveShape DEF ProtocolInv, Peer
<1>3. ASSUME NEW type PROVE Pending(c, type)' = Pending(c, type)
  <2>1. Count(conn[c].up, type)
          = Count(Tail(conn[c].up), type) + (IF Head(conn[c].up).type = type THEN 1 ELSE 0)
    BY <1>1, CountTail
  <2>2. Count(conn[c].up, type) \in Nat
    BY PendingTyped
  <2>3. Pending(c, type) = Count(conn[c].up, type)
    BY <1>1, <2>2 DEF Pending
  <2>4. Pending(c, type)' = Count(Tail(conn[c].up), type)
                              + (IF Head(conn[c].up).type = type THEN 1 ELSE 0)
    BY <1>1, <1>2 DEF Pending
  <2> QED BY <2>1, <2>3, <2>4
<1>4. ClockNow(c)' = ClockNow(c) /\ ResetNow(c)' = ResetNow(c)
  BY <1>1 DEF ClockNow, ResetNow
<1>5. ClockInv(c)'
  BY <1>1, <1>4 DEF Knows, ClockInv
<1>6. ResetInv(c)'
  BY <1>1, <1>3, <1>4 DEF Knows, ResetInv
<1>7. FileInv(c)'
  BY <1>1, <1>3 DEF Knows, FileInv, SameFile
<1> QED BY <1>5, <1>6, <1>7 DEF Knows

(* What is left to show of a step that serves a request *)
Informed(c) == (Serving /\ server.peer = c /\ conn[c].client) => Knows(c)

LEMMA ServedKnowledge ==
  ASSUME KnowledgeInv, ServerStep, UNCHANGED client, server.pc \in {"handle", "slot"},
         \A c \in Clients :
           (c = server.peer /\ conn[c].client) => Informed(c)' /\ ComingCorrect(c)',
         ~ Exit
  PROVE  KnowledgeInv'
<1>1. ProtocolInv /\ ProtocolInv' /\ ServerEffect
  BY ServerProtocol, ServerEffects DEF KnowledgeInv, ProtocolInv
<1>2. /\ server'.peer = server.peer /\ server'.pc \notin {"start", "wait"}
      /\ \A c \in Clients : /\ conn'[c].client = conn[c].client
                            /\ (c # server.peer \/ ~ conn[c].client) => conn'[c].down = conn[c].down
  BY <1>1 DEF ServerEffect, Stops, Turns, Sends, Receive, Peer
<1>3. ASSUME NEW c \in Clients
      PROVE  Informed(c)' /\ Correct(c, client[c].answer)' /\ ComingCorrect(c)'
  <2>1. client'[c].answer = NoAnswer /\ conn[c].down = <<>>
    <3>1. ~ (server.pc = "handle" /\ server.request.type = "EXIT_SIMULATION")
      <4>1. server.request.type = "EXIT_SIMULATION" => ~ (server.pc = "handle") \/ Exit
        BY DEF ServerStep, Start, Accept, Receive, Reset, NumberOfElements, InsertPowers,
               SendOutput, PrintOutput, SendOutputFiles, BeginSlot, EmulateSlot, EmulateStep,
               Unknown, Leave, Handles
      <4> QED BY <4>1
    <3> QED BY <1>1, <3>1, NothingHeard
  <2>2. Correct(c, client[c].answer)'
    BY <2>1, NoAnswerCorrect DEF Correct, NoAnswer, Message
  <2>3. CASE c = server.peer /\ conn[c].client
    BY <2>2, <2>3
  <2>4. CASE ~ (c = server.peer /\ conn[c].client)
    <3>1. Informed(c)'
      BY <1>2, <2>4 DEF Informed
    <3>2. ComingCorrect(c)'
      BY <1>2, <2>1, <2>4 DEF ComingCorrect
    <3> QED BY <2>2, <3>1, <3>2
  <2> QED BY <2>3, <2>4
<1> QED BY <1>1, <1>2, <1>3 DEF KnowledgeInv, Informed

(* Steps that leave what the clients have heard as it is *)
LEMMA HeardKept ==
  ASSUME KnowledgeInv, ProtocolInv', UNCHANGED client, SameFile, tdata' = tdata,
         NEW c \in Clients, conn'[c].down = conn[c].down,
         server.pc \in {"leave", "exit"} => server'.pc \in {"leave", "exit"}
  PROVE  Correct(c, client[c].answer)' /\ ComingCorrect(c)'
<1>1. /\ Correct(c, client[c].answer) /\ ComingCorrect(c)
      /\ client' = client /\ server'.file = server.file
  BY DEF KnowledgeInv, SameFile
<1> QED BY <1>1 DEF Correct, ComingCorrect

LEMMA StoppedKnowledge ==
  ASSUME KnowledgeInv, ProtocolInv', UNCHANGED client, Stops, SameFile, tdata' = tdata
  PROVE  KnowledgeInv'
<1>1. server'.pc = "exit" /\ \A c \in Clients : conn'[c].down = conn[c].down
  BY DEF Stops
<1>2. \A c \in Clients : Correct(c, client[c].answer)' /\ ComingCorrect(c)'
  BY <1>1, HeardKept
<1> QED BY <1>1, <1>2 DEF KnowledgeInv, Serving

LEMMA RequestKnowledge ==
  ASSUME KnowledgeInv, UNCHANGED client, NEW c \in Clients, c = server.peer, conn[c].client,
         \/ Reset \/ NumberOfElements \/ InsertPowers \/ SendOutput \/ PrintOutput
         \/ SendOutputFiles \/ BeginSlot \/ EmulateSlot \/ EmulateStep \/ Unknown
  PROVE  Informed(c)' /\ ComingCorrect(c)'
<1>1. ProtocolInv /\ ServerInv
  BY DEF KnowledgeInv, ProtocolInv
<1>2. /\ server.pc \in {"handle", "slot"} /\ (server.pc = "slot" => EmulateSlot)
      /\ conn[c].down = <<>> /\ Knows(c)
  <2>1. server.pc \in {"handle", "slot"} /\ (server.pc = "slot" => EmulateSlot)
        /\ ~ (server.pc = "handle" /\ server.request.type = "EXIT_SIMULATION")
    BY DEF Reset, NumberOfElements, InsertPowers, SendOutput, PrintOutput,
               SendOutputFiles, BeginSlot, EmulateSlot, EmulateStep, Unknown, Handles
  <2> QED BY <1>1, <2>1, NothingHeard DEF KnowledgeInv, Serving
(* Leaving instead of answering *)
<1>3. CASE Turns("leave")
  BY <1>2, <1>3 DEF Turns, Informed, Serving, ComingCorrect
<1>4. CASE Reset \/ Unknown \/ PrintOutput
  <2>1. CASE Turns("receive")
    <3>1. Knows(c)'
      BY <1>1, <1>2, <1>4, <2>1, SilentKnows
    <3>2. conn'[c].down = <<>>
      BY <1>2, <2>1 DEF Turns
    <3> QED BY <3>1, <3>2 DEF Informed, ComingCorrect
  <2> QED BY <1>1, <1>3, <1>4, <2>1, ResetShape, UnknownShape, PrintShape
<1>5. CASE NumberOfElements
  <2> DEFINE m == Message("TOTAL_NUMBER_OF_FLOORPLAN_ELEMENTS", N, "none", 0)
  <2>1. /\ server.pc = "handle" /\ server.request.type \in Answered
        /\ m \in Replies /\ MayAnswer(m) /\ SameFile /\ tdata' = tdata
        /\ m.result = "none" /\ m.type = "TOTAL_NUMBER_OF_FLOORPLAN_ELEMENTS"
    BY <1>1, <1>5, NumberShape
    DEF NumberOfElements, Handles, Answered, Unanswered, RequestTypes, Message
  <2> HIDE DEF m
  <2>2. Knows(c)' /\ conn'[c].down[1] = m
    BY <1>1, <1>2, <2>1, PlainAnswer, SentFacts DEF Done
  <2> QED BY <2>1, <2>2 DEF Informed, ComingCorrect, Correct
<1>6. CASE InsertPowers
  <2> DEFINE m == Message("INSERT_POWERS", 0, "SUCCESS", 0)
  <2>1. /\ server.pc = "handle" /\ server.request.type \in Answered
        /\ m \in Replies /\ SameFile /\ tdata \in ThermalType
        /\ server.request.n \in Nat /\ tdata' = Inserted(tdata, server.request.n)
        /\ m.result = "SUCCESS" /\ m.type = "INSERT_POWERS"
        /\ Turns("leave") \/ MayAnswer(m)
    BY <1>1, <1>6, InsertShape
    DEF InsertPowers, Handles, Answered, Unanswered, RequestTypes, Message, ServerInv
  <2> HIDE DEF m
  <2>2. tdata'.time = tdata.time /\ tdata'.temperatures.steps = tdata.temperatures.steps
    BY <2>1, InsertedInProgress
  <2>3. CASE MayAnswer(m)
    <3>1. Knows(c)' /\ conn'[c].down[1] = m
      BY <1>1, <1>2, <2>1, <2>2, <2>3, PlainAnswer, SentFacts DEF Done
    <3> QED BY <2>1, <3>1 DEF Informed, ComingCorrect, Correct
  <2> QED BY <1>3, <2>1, <2>3
<1>7. CASE SendOutput
  BY <1>1, <1>2, <1>7, OutputCorrect DEF Informed
<1>8. CASE SendOutputFiles
  BY <1>1, <1>2, <1>3, <1>8, FilesShape, FilesCorrect DEF Informed
<1>9. CASE BeginSlot
  <2>1. conn' = conn
    BY <1>9 DEF BeginSlot
  <2> QED BY <1>1, <1>2, <1>9, <2>1, BeginKnows DEF Informed, ComingCorrect
<1>10. CASE EmulateSlot
  <2>1. server.pc = "slot" /\ server.request.type = "SIMULATE_SLOT"
    BY <1>1, <1>10 DEF EmulateSlot, ServerInv
  <2>2. PICK out \in emulate_step(tdata) :
          /\ tdata' = out.td
          /\ SameFile
          /\ \/ out.result = "STEP_DONE" /\ server' = server /\ conn' = conn
             \/ /\ out.result # "STEP_DONE"
                /\ server'.pc = "receive" => out.result \in Done
                /\ Message("SIMULATE_SLOT", 0, out.result, 0) \in Replies
                /\ MayAnswer(Message("SIMULATE_SLOT", 0, out.result, 0))
    BY <1>1, <1>10, EmulateSlotShape
  <2> HIDE DEF Message
  <2>3. CASE out.result = "STEP_DONE"
    <3>1. Knows(c)'
      BY <1>1, <1>2, <2>1, <2>2, <2>3, WithinKnows
    <3> QED BY <1>2, <2>2, <2>3, <3>1 DEF Informed, ComingCorrect
  <2>4. CASE out.result # "STEP_DONE"
    <3>1. (server'.pc = "receive" => Knows(c)') /\ ComingCorrect(c)'
      BY <1>1, <1>2, <2>1, <2>2, <2>4, EmulationKnows
    <3>2. server'.pc \in {"receive", "leave"}
      BY <2>2, <2>4 DEF MayAnswer, Sends, Peer
    <3> QED BY <3>1, <3>2 DEF Informed, Serving
  <2> QED BY <2>3, <2>4
<1>11. CASE EmulateStep
  <2>1. server.pc = "handle" /\ server.request.type = "SIMULATE_STEP"
    BY <1>11 DEF EmulateStep, Handles
  <2>2. PICK out \in emulate_step(tdata) :
          /\ tdata' = out.td
          /\ SameFile
          /\ server'.pc = "receive" => out.result \in Done
          /\ Message("SIMULATE_STEP", 0, out.result, 0) \in Replies
          /\ MayAnswer(Message("SIMULATE_STEP", 0, out.result, 0))
    BY <1>1, <1>11, EmulateStepShape
  <2> HIDE DEF Message
  <2>3. (server'.pc = "receive" => Knows(c)') /\ ComingCorrect(c)'
    BY <1>1, <1>2, <2>1, <2>2, EmulationKnows
  <2>4. server'.pc \in {"receive", "leave"}
    BY <2>2 DEF MayAnswer, Sends, Peer
  <2> QED BY <2>3, <2>4 DEF Informed, Serving
<1> QED BY <1>4, <1>5, <1>6, <1>7, <1>8, <1>9, <1>10, <1>11

LEMMA ServerKnowledge ==
  ASSUME KnowledgeInv, ServerStep, UNCHANGED client
  PROVE  KnowledgeInv'
<1>1. ProtocolInv /\ ServerInv /\ ProtocolInv'
  BY ServerProtocol DEF KnowledgeInv, ProtocolInv
<1>2. CASE Start
  <2>1. SameFile /\ tdata' = tdata /\ server.pc = "start" /\ (Turns("wait") \/ Stops)
    BY <1>1, <1>2, StartShape DEF Start
  <2>2. CASE Turns("wait")
    <3>1. Fresh'
      BY <2>1, <2>2 DEF KnowledgeInv, Fresh, Turns, SameFile
    <3>2. \A c \in Clients : Correct(c, client[c].answer)' /\ ComingCorrect(c)'
      BY <1>1, <2>1, <2>2, HeardKept DEF Turns
    <3> QED BY <1>1, <2>2, <3>1, <3>2 DEF KnowledgeInv, Serving, Turns
  <2> QED BY <1>1, <2>1, <2>2, StoppedKnowledge
<1>3. ASSUME NEW d \in Clients, Accept(d) PROVE KnowledgeInv'
  <2>1. /\ SameFile /\ tdata' = tdata /\ server.pc = "wait" /\ Fresh
        /\ \/ server'.pc = "receive" /\ server'.peer = d /\ conn' = conn
           \/ Stops
    BY <1>1, <1>3, AcceptShape DEF Accept, KnowledgeInv
  <2>2. CASE server'.pc = "receive" /\ server'.peer = d /\ conn' = conn
    <3>1. /\ conn[d].down = <<>> /\ client[d].clock = 0
          /\ client' = client /\ conn' = conn /\ tdata' = tdata
          /\ client[d].prints = Count(conn[d].up, "PRINT_OUTPUT")
          /\ ~ client[d].reset => Count(conn[d].up, "RESET_THERMAL_STATE") = 0
          /\ ~ server'.headers /\ tdata.time = 0 /\ tdata.temperatures.steps = 0
      BY <1>1, <2>1, <2>2, NothingHeard DEF Fresh, SameFile
    <3>2. \A type : Pending(d, type)' = Count(conn[d].up, type) + 0
      BY <2>2 DEF Pending
    <3>3. \A type : Count(conn[d].up, type) \in Nat
      BY <1>1, PendingTyped
    <3>4. Knows(d)'
      <4>1. ClockInv(d)'
        BY <2>2, <3>1 DEF ClockInv, ClockNow
      <4>2. ResetInv(d)'
        BY <2>2, <3>1, <3>2, <3>3 DEF ResetInv, ResetNow
      <4>3. FileInv(d)'
        BY <2>2, <3>1, <3>2, <3>3 DEF FileInv
      <4> QED BY <4>1, <4>2, <4>3 DEF Knows
    <3>5. \A c \in Clients : Correct(c, client[c].answer)' /\ ComingCorrect(c)'
      BY <1>1, <2>1, <2>2, HeardKept
    <3> QED BY <1>1, <2>2, <3>4, <3>5 DEF KnowledgeInv
  <2> QED BY <1>1, <2>1, <2>2, StoppedKnowledge
<1>4. CASE Receive
  <2>1. /\ SameFile /\ tdata' = tdata /\ server.pc = "receive" /\ server'.pc = "handle"
        /\ server'.peer = server.peer
        /\ \A c \in Clients : /\ conn'[c].down = conn[c].down
                              /\ conn'[c].client = conn[c].client
    BY <1>1, <1>4, ReceiveShape DEF Receive, Peer
  <2>2. \A c \in Clients : (server.peer = c /\ conn[c].client) => Knows(c)'
    BY <1>1, <1>4, <2>1, ReceiveKnows DEF KnowledgeInv, Serving
  <2>3. \A c \in Clients : Correct(c, client[c].answer)' /\ ComingCorrect(c)'
    BY <1>1, <2>1, HeardKept
  <2> QED BY <1>1, <2>1, <2>2, <2>3 DEF KnowledgeInv
<1>5. CASE Exit
  <2>1. SameFile /\ tdata' = tdata /\ Turns("leave")
    BY <1>1, <1>5, ExitShape
  <2>2. \A c \in Clients : Correct(c, client[c].answer)' /\ ComingCorrect(c)'
    BY <1>1, <2>1, HeardKept DEF Turns
  <2> QED BY <1>1, <2>1, <2>2 DEF KnowledgeInv, Serving, Turns
<1>6. CASE Leave
  <2>1. SameFile /\ tdata' = tdata /\ Stops
    BY <1>1, <1>6, LeaveShape
  <2> QED BY <1>1, <2>1, StoppedKnowledge
<1>7. CASE ~ Exit /\ (\/ Reset \/ NumberOfElements \/ InsertPowers \/ SendOutput \/ PrintOutput
                      \/ SendOutputFiles \/ BeginSlot \/ EmulateSlot \/ EmulateStep \/ Unknown)
  <2>1. server.pc \in {"handle", "slot"}
    BY <1>7 DEF Reset, NumberOfElements, InsertPowers, SendOutput, PrintOutput,
                SendOutputFiles, BeginSlot, EmulateSlot, EmulateStep, Unknown, Handles
  <2> QED BY <1>7, <2>1, RequestKnowledge, ServedKnowledge
<1> QED BY <1>2, <1>3, <1>4, <1>5, <1>6, <1>7 DEF ServerStep

-----------------------------------------------------------------------------
(* The client's steps                                                      *)

(* What is left to show of a step of client c *)
LEMMA ClientKnowledge ==
  ASSUME KnowledgeInv, ProtocolInv', NEW c \in Clients, UNCHANGED <<server, tdata>>, Elsewhere(c),
         Informed(c)', Correct(c, client[c].answer)', ComingCorrect(c)',
         server.pc \in {"start", "wait"} =>
           /\ client'[c].clock = client[c].clock
           /\ client'[c].prints - Count(conn'[c].up, "PRINT_OUTPUT")
                = client[c].prints - Count(conn[c].up, "PRINT_OUTPUT")
           /\ ~ client'[c].reset => /\ ~ client[c].reset
                                    /\ Count(conn'[c].up, "RESET_THERMAL_STATE")
                                         = Count(conn[c].up, "RESET_THERMAL_STATE")
  PROVE  KnowledgeInv'
<1>1. /\ server' = server /\ tdata' = tdata /\ ProtocolInv
      /\ \A d \in Clients \ {c} : conn'[d] = conn[d] /\ client'[d] = client[d]
  BY DEF KnowledgeInv, Elsewhere
<1>2. ASSUME NEW d \in Clients, d # c
      PROVE  Informed(d)' /\ Correct(d, client[d].answer)' /\ ComingCorrect(d)'
  <2>1. Informed(d) /\ Correct(d, client[d].answer) /\ ComingCorrect(d)
    BY DEF KnowledgeInv, Informed
  <2>2. client'[d] = client[d] /\ conn'[d] = conn[d]
    BY <1>1, <1>2
  <2>3. \A type : Pending(d, type)' = Pending(d, type)
    BY <1>1, <2>2 DEF Pending
  <2>4. Knows(d) => Knows(d)'
    BY <1>1, <2>2, <2>3 DEF Knows, ClockInv, ClockNow, ResetInv, ResetNow, FileInv
  <2>5. Informed(d)'
    BY <1>1, <2>1, <2>2, <2>4 DEF Informed, Serving
  <2>6. Correct(d, client[d].answer)' /\ ComingCorrect(d)'
    BY <1>1, <2>1, <2>2 DEF Correct, ComingCorrect
  <2> QED BY <2>5, <2>6
<1>3. ASSUME server.pc \in {"start", "wait"} PROVE Fresh'
  <2>1. Fresh
    BY <1>3 DEF KnowledgeInv
  <2>2. /\ client[c].prints \in Nat /\ client'[c].prints \in Nat
        /\ Count(conn[c].up, "PRINT_OUTPUT") \in Nat
        /\ Count(conn'[c].up, "PRINT_OUTPUT") \in Nat
    <3>1. client[c].prints \in Nat /\ Count(conn[c].up, "PRINT_OUTPUT") \in Nat
      BY <1>1, PendingTyped, LinkTypes DEF ClientType
    <3>2. client'[c].prints \in Nat
      BY DEF ProtocolInv, ClientType
    <3>3. conn'[c].up \in Seq(Requests)
      BY DEF ProtocolInv, ServerInv, WellTyped, Connection
    <3> QED BY <3>1, <3>2, <3>3, CountTyped
  <2>3. /\ client'[c].clock = 0
        /\ client'[c].prints = Count(conn'[c].up, "PRINT_OUTPUT")
        /\ ~ client'[c].reset => Count(conn'[c].up, "RESET_THERMAL_STATE") = 0
    BY <1>3, <2>1, <2>2 DEF Fresh
  <2> QED BY <1>1, <2>1, <2>3 DEF Fresh
<1> QED BY <1>1, <1>2, <1>3 DEF KnowledgeInv, Informed

LEMMA ConnectKnowledge ==
  ASSUME KnowledgeInv, NEW c \in Clients, Connect(c), UNCHANGED <<server, tdata>>
  PROVE  KnowledgeInv'
<1>1. ProtocolInv /\ ProtocolInv' /\ At(c, "out") /\ LinkInv(c) /\ Elsewhere(c)
  BY ConnectProtocol, ConnectShape, LinkTypes DEF KnowledgeInv, Connect
<1>2. /\ server.peer # c /\ client[c].answer = NoAnswer /\ conn[c].down = <<>>
  BY <1>1 DEF LinkInv, At
<1>3. /\ conn'[c].up = conn[c].up /\ conn'[c].down = conn[c].down
      /\ SameKnowledge(c) /\ client'[c].answer = client[c].answer
  BY <1>1, ConnectShape
<1>4. Correct(c, client[c].answer)' /\ ComingCorrect(c)'
  <2>1. Correct(c, NoAnswer)'
    BY NoAnswerCorrect
  <2>2. client'[c].answer = NoAnswer /\ conn'[c].down = <<>>
    BY <1>2, <1>3
  <2> QED BY <2>1, <2>2 DEF Correct, ComingCorrect
<1>5. Informed(c)'
  BY <1>2 DEF Informed
<1> QED BY <1>1, <1>3, <1>4, <1>5, ClientKnowledge DEF SameKnowledge

(* A request counts once more *)
LEMMA SentCounts ==
  ASSUME ProtocolInv, NEW c \in Clients, NEW m \in Requests, Send(c, m), conn[c].server,
         UNCHANGED server, NEW type
  PROVE  /\ Count(conn[c].up, type) \in Nat /\ Pending(c, type) \in Nat
         /\ Count(conn'[c].up, type) = Count(conn[c].up, type) + (IF m.type = type THEN 1 ELSE 0)
         /\ Pending(c, type)' = Pending(c, type) + (IF m.type = type THEN 1 ELSE 0)
<1>1. conn[c].up \in Seq(Requests) /\ conn'[c].up = Append(conn[c].up, m)
  BY LinkTypes, SendShape
<1>2. Count(conn'[c].up, type) = Count(conn[c].up, type) + (IF m.type = type THEN 1 ELSE 0)
  BY <1>1, CountAppend
<1>3. Count(conn[c].up, type) \in Nat /\ Pending(c, type) \in Nat
  BY PendingTyped
<1>4. Pending(c, type)' = Pending(c, type) + (IF m.type = type THEN 1 ELSE 0)
  <2> DEFINE now == IF server.peer = c /\ server.pc = "handle" /\ server.request.type = type
                    THEN 1 ELSE 0
             more == IF m.type = type THEN 1 ELSE 0
  <2>1. Pending(c, type) = Count(conn[c].up, type) + now
    BY DEF Pending
  <2>2. Pending(c, type)' = Count(conn'[c].up, type) + now
    BY DEF Pending
  <2>3. now \in Nat /\ more \in Nat
    OBVIOUS
  <2>4. Count(conn'[c].up, type) = Count(conn[c].up, type) + more
    BY <1>2
  <2> HIDE DEF now, more
  <2>5. Pending(c, type)' = Pending(c, type) + more
    BY <1>3, <2>1, <2>2, <2>3, <2>4
  <2> QED BY <2>5 DEF more
<1> QED BY <1>2, <1>3, <1>4

(* What is left to show of a step of client c that sends a request: that   *)
(* its knowledge changes as what is pending does                           *)
LEMMA SentKnowledge ==
  ASSUME KnowledgeInv, ProtocolInv', NEW c \in Clients, UNCHANGED <<server, tdata>>,
         At(c, "in"), Elsewhere(c), NEW m \in Requests, Send(c, m),
         client'[c].answer = NoAnswer, client'[c].clock = client[c].clock,
         client'[c].reset = IF m.type = "RESET_THERMAL_STATE" THEN TRUE ELSE client[c].reset,
         client'[c].prints = IF m.type = "PRINT_OUTPUT" THEN client[c].prints + 1
                             ELSE client[c].prints
  PROVE  KnowledgeInv'
<1>1. /\ ProtocolInv /\ LinkInv(c) /\ conn[c].client /\ conn[c].down = <<>>
      /\ ~ conn[c].server => server.pc = "exit"
      /\ client[c].prints \in Nat /\ client[c].reset \in BOOLEAN
  BY LinkTypes DEF KnowledgeInv, LinkInv, At, ClientType
<1>2. conn'[c].down = <<>> /\ conn'[c].client
  BY <1>1, SendShape
<1>3. Correct(c, client[c].answer)' /\ ComingCorrect(c)'
  BY <1>2, NoAnswerCorrect DEF Correct, ComingCorrect
<1>4. CASE ~ conn[c].server
  <2>1. server.pc = "exit"
    BY <1>1, <1>4
  <2>2. Informed(c)'
    BY <2>1 DEF Informed, Serving
  <2> QED BY <1>3, <2>1, <2>2, ClientKnowledge
<1>5. CASE conn[c].server
  <2>1. \A type : /\ Count(conn[c].up, type) \in Nat /\ Pending(c, type) \in Nat
                  /\ Count(conn'[c].up, type)
                       = Count(conn[c].up, type) + (IF m.type = type THEN 1 ELSE 0)
                  /\ Pending(c, type)' = Pending(c, type) + (IF m.type = type THEN 1 ELSE 0)
    BY <1>1, <1>5, SentCounts
  <2>2. ASSUME Knows(c) PROVE Knows(c)'
    <3>1. ClockInv(c)'
      BY <1>1, <1>2, <2>2 DEF Knows, ClockInv, ClockNow
    <3>2. ResetInv(c)'
      <4>1. ResetNow(c)' = client'[c].reset /\ ResetNow(c) = client[c].reset
        BY <1>1, <1>2 DEF ResetNow
      <4>2. CASE m.type = "RESET_THERMAL_STATE"
        <5>1. ResetNow(c)' /\ Pending(c, "RESET_THERMAL_STATE")' > 0
          BY <2>1, <4>1, <4>2
        <5> QED BY <5>1 DEF ResetInv
      <4>3. CASE m.type # "RESET_THERMAL_STATE"
        <5>1. /\ ResetNow(c)' = ResetNow(c)
              /\ Pending(c, "RESET_THERMAL_STATE")' = Pending(c, "RESET_THERMAL_STATE")
          BY <2>1, <4>1, <4>3
        <5> QED BY <2>2, <5>1 DEF Knows, ResetInv
      <4> QED BY <4>2, <4>3
    <3>3. FileInv(c)'
      <4> DEFINE more == IF m.type = "PRINT_OUTPUT" THEN 1 ELSE 0
      <4>1. /\ client'[c].prints = client[c].prints + more
            /\ Pending(c, "PRINT_OUTPUT")' = Pending(c, "PRINT_OUTPUT") + more
            /\ Pending(c, "PRINT_OUTPUT") \in Nat /\ more \in Nat
        BY <1>1, <2>1
      <4>2. server.file.lines \in Nat
        BY <1>1, LinkTypes DEF Process, File
      <4> HIDE DEF more
      <4> QED BY <1>1, <2>2, <4>1, <4>2 DEF Knows, FileInv
    <3> QED BY <3>1, <3>2, <3>3 DEF Knows
  <2>3. Informed(c)'
    BY <1>1, <2>2 DEF KnowledgeInv, Informed, Serving
  <2>4. client'[c].prints - Count(conn'[c].up, "PRINT_OUTPUT")
          = client[c].prints - Count(conn[c].up, "PRINT_OUTPUT")
    BY <1>1, <2>1
  <2>5. ~ client'[c].reset => /\ ~ client[c].reset
                              /\ Count(conn'[c].up, "RESET_THERMAL_STATE")
                                   = Count(conn[c].up, "RESET_THERMAL_STATE")
    BY <1>1, <2>1
  <2> QED BY <1>3, <2>3, <2>4, <2>5, ClientKnowledge
<1> QED BY <1>4, <1>5

LEMMA TellKnowledge ==
  ASSUME KnowledgeInv, NEW c \in Clients, NEW type \in Unanswered, Tell(c, type),
         UNCHANGED <<server, tdata>>
  PROVE  KnowledgeInv'
<1>1. ProtocolInv /\ ProtocolInv' /\ At(c, "in")
  BY TellProtocol DEF KnowledgeInv, Tell
<1> DEFINE m == Request(type, 0)
<1>2. /\ Elsewhere(c) /\ m \in Requests /\ Send(c, m)
      /\ client'[c].answer = NoAnswer /\ client'[c].clock = client[c].clock
      /\ client'[c].reset = IF type = "RESET_THERMAL_STATE" THEN TRUE ELSE client[c].reset
      /\ client'[c].prints = IF type = "PRINT_OUTPUT" THEN client[c].prints + 1
                             ELSE client[c].prints
  BY <1>1, TellShape
<1>3. m.type = type
  BY DEF Request, Message
<1> HIDE DEF m
<1> QED BY <1>1, <1>2, <1>3, SentKnowledge

LEMMA AskKnowledge ==
  ASSUME KnowledgeInv, NEW c \in Clients, NEW type \in Answered, NEW n \in Nat, Ask(c, type, n),
         UNCHANGED <<server, tdata>>
  PROVE  KnowledgeInv'
<1>1. ProtocolInv /\ ProtocolInv' /\ At(c, "in")
  BY AskProtocol DEF KnowledgeInv, Ask
<1> DEFINE m == Request(type, n)
<1>2. /\ Elsewhere(c) /\ m \in Requests /\ Send(c, m)
      /\ client'[c].answer = NoAnswer /\ SameKnowledge(c)
  BY <1>1, AskShape
<1>3. m.type = type /\ type \notin Unanswered
  BY DEF Request, Message, Answered
<1>4. m.type # "RESET_THERMAL_STATE" /\ m.type # "PRINT_OUTPUT"
  BY <1>3 DEF Unanswered
<1> HIDE DEF m
<1> QED BY <1>1, <1>2, <1>4, SentKnowledge DEF SameKnowledge

(* What was on its way is what has been heard *)
LEMMA HearKnowledge ==
  ASSUME KnowledgeInv, NEW c \in Clients, Hear(c), UNCHANGED <<server, tdata>>
  PROVE  KnowledgeInv'
<1> DEFINE m == conn[c].down[1]
<1>1. ProtocolInv /\ ProtocolInv' /\ Elsewhere(c)
  BY HearProtocol, HearShape DEF KnowledgeInv
<1>2. /\ Replied(c) /\ conn[c].down # <<>> /\ m \in Replies
      /\ conn'[c].down = <<>> /\ conn'[c].up = conn[c].up /\ conn'[c].client = conn[c].client
      /\ client'[c].answer = m
      /\ client'[c].clock = ClockAfter(client[c].clock, m.result)
      /\ client'[c].reset = (client[c].reset /\ m.result \notin Done)
      /\ client'[c].prints = client[c].prints
  BY <1>1, HearShape DEF Hear
<1>3. Correct(c, m)
  BY <1>2 DEF KnowledgeInv, ComingCorrect
<1> HIDE DEF m
<1>4. server.pc \in {"receive", "leave", "exit"}
  BY <1>2 DEF Replied
<1>5. Correct(c, client[c].answer)' /\ ComingCorrect(c)'
  <2>1. ASSUME m.type = "SEND_OUTPUT" \/ m.result = "END_OF_SIMULATION"
        PROVE  client'[c].clock = client[c].clock
    <3>1. m.result \notin Done
      BY <1>3, <2>1 DEF Correct, Done
    <3> QED BY <1>2, <3>1 DEF ClockAfter, Done
  <2>2. m.type = "SEND_OUTPUT" => client'[c].reset = client[c].reset
    <3>1. m.type = "SEND_OUTPUT" => m.result \notin Done
      BY <1>3 DEF Correct, Done
    <3>2. client[c].reset \in BOOLEAN
      BY <1>1, LinkTypes DEF ClientType
    <3> QED BY <1>2, <3>1, <3>2
  <2> QED BY <1>2, <1>3, <2>1, <2>2 DEF Correct, ComingCorrect
<1>6. Informed(c)'
  <2>1. Pending(c, "RESET_THERMAL_STATE")' = Pending(c, "RESET_THERMAL_STATE")
        /\ Pending(c, "PRINT_OUTPUT")' = Pending(c, "PRINT_OUTPUT")
    BY <1>2 DEF Pending
  <2>2. ClockNow(c)' = ClockNow(c) /\ (ResetNow(c)' <=> ResetNow(c))
    <3>1. ClockNow(c)' = ClockNow(c)
      BY <1>2 DEF ClockNow, m
    <3>2. ResetNow(c)' <=> ResetNow(c)
      BY <1>2 DEF ResetNow, m
    <3> QED BY <3>1, <3>2
  <2>3. Knows(c) => Knows(c)'
    BY <1>2, <1>4, <2>1, <2>2 DEF Knows, ClockInv, ResetInv, FileInv
  <2> QED BY <1>2, <2>3 DEF KnowledgeInv, Informed, Serving
<1>7. server.pc \notin {"start", "wait"}
  BY <1>4
<1> QED BY <1>1, <1>5, <1>6, <1>7, ClientKnowledge

LEMMA GoneKnowledge ==
  ASSUME KnowledgeInv, NEW c \in Clients, At(c, "in") \/ At(c, "waiting"), Gone(c),
         UNCHANGED <<server, tdata>>
  PROVE  KnowledgeInv'
<1>1. ProtocolInv /\ ProtocolInv' /\ Elsewhere(c)
  BY GoneProtocol, GoneShape DEF KnowledgeInv
<1>2. /\ ~ conn'[c].client /\ conn'[c].down = <<>> /\ conn'[c].up = conn[c].up
      /\ SameKnowledge(c) /\ client'[c].answer = client[c].answer
  BY <1>1, GoneShape
<1>3. Correct(c, client[c].answer)' /\ ComingCorrect(c)' /\ Informed(c)'
  BY <1>2 DEF KnowledgeInv, Correct, ComingCorrect, Informed, SameKnowledge
<1> QED BY <1>1, <1>2, <1>3, ClientKnowledge DEF SameKnowledge

LEMMA KnowledgeKept == KnowledgeInv /\ [Next]_vars => KnowledgeInv'
<1> SUFFICES ASSUME KnowledgeInv, [Next]_vars PROVE KnowledgeInv'
  OBVIOUS
<1>1. CASE ServerStep /\ UNCHANGED client
  BY <1>1, ServerKnowledge
<1>2. ASSUME NEW c \in Clients, Listen(c) PROVE KnowledgeInv'
  BY <1>2, HearKnowledge, GoneKnowledge DEF Listen, LoseServer
<1>3. ASSUME NEW c \in Clients, ClientStep(c) PROVE KnowledgeInv'
  <2>1. UNCHANGED <<server, tdata>>
    BY <1>3 DEF ClientStep
  <2>2. CASE Connect(c)
    BY <2>1, <2>2, ConnectKnowledge
  <2>3. ASSUME NEW type \in Unanswered, Tell(c, type) PROVE KnowledgeInv'
    BY <2>1, <2>3, TellKnowledge
  <2>4. ASSUME NEW type \in RequestTypes \ (Unanswered \cup {"INSERT_POWERS"}), Ask(c, type, 0)
        PROVE  KnowledgeInv'
    BY <2>1, <2>4, AskKnowledge, RequestsSent
  <2>5. ASSUME NEW n \in InsertSizes, Ask(c, "INSERT_POWERS", n) PROVE KnowledgeInv'
    BY <2>1, <2>5, AskKnowledge, RequestsSent
  <2>6. CASE Disconnect(c)
    BY <2>1, <2>6, GoneKnowledge DEF Disconnect
  <2> QED BY <1>3, <2>2, <2>3, <2>4, <2>5, <2>6 DEF ClientStep
<1>4. CASE UNCHANGED vars
  <2>1. ProtocolInv'
    BY <1>4, ProtocolKept DEF KnowledgeInv
  <2>2. server' = server /\ tdata' = tdata /\ conn' = conn /\ client' = client
    BY <1>4 DEF vars
  <2>3. \A c \in Clients : Knows(c) => Knows(c)'
    BY <2>2 DEF Knows, ClockInv, ClockNow, ResetInv, ResetNow, FileInv, Pending
  <2> QED BY <2>1, <2>2, <2>3
          DEF KnowledgeInv, Serving, Fresh, Correct, ComingCorrect
<1> QED BY <1>1, <1>2, <1>3, <1>4 DEF Next

LEMMA AlwaysKnowledge == Spec => []KnowledgeInv
<1> QED BY InitKnowledge, KnowledgeKept, PTL DEF Spec

LEMMA HeardIsCorrect ==
  KnowledgeInv => OutputIsUpToDate /\ EndMeansOut /\ FilesFollowPrints
<1> SUFFICES ASSUME KnowledgeInv PROVE OutputIsUpToDate /\ EndMeansOut /\ FilesFollowPrints
  OBVIOUS
<1>1. \A c \in Clients : Correct(c, client[c].answer)
  BY DEF KnowledgeInv
<1> QED BY <1>1 DEF Correct, EndOf, OutputIsUpToDate, EndMeansOut, FilesFollowPrints

(* THEOREM: a client that adds up the STEP_DONE and SLOT_DONE it is        *)
(* answered knows the simulated time of every output it is sent, and from  *)
(* its own resets what the temperatures in it were solved from, however    *)
(* far its requests run ahead of the server.                               *)
THEOREM OutputsAlwaysUpToDate == Spec => []OutputIsUpToDate
BY AlwaysKnowledge, HeardIsCorrect, PTL

(* THEOREM: END_OF_SIMULATION is answered at the end of the last slot for  *)
(* which every element has a power value, and at no other time; the server *)
(* does not take more values once it has answered it.                      *)
THEOREM EndAlwaysMeansOut == Spec => []EndMeansOut
BY AlwaysKnowledge, HeardIsCorrect, PTL

(* THEOREM: the output files that a client is sent after it has printed    *)
(* are those of this run and have a line for each PRINT_OUTPUT it sent,    *)
(* though none of them was answered, unless a line could not be written.   *)
THEOREM FilesAlwaysFollowPrints == Spec => []FilesFollowPrints
BY AlwaysKnowledge, HeardIsCorrect, PTL
=============================================================================
