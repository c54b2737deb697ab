------------------------------ MODULE OpenSession ------------------------------
(***************************************************************************)
(* The server and a client of its network interface that is not one of the *)
(* programs of the repository: it sends any request of MessageType_t at    *)
(* any time, one that is answered only after the answer to the one before, *)
(* and one that is not answered without waiting for anything.  It may      *)
(* leave whenever it likes.                                                *)
(***************************************************************************)
EXTENDS Server

CONSTANTS
  InsertSizes,  (* numbers of values in an INSERT_POWERS request           *)
  MaxInserts,   (* bound on the INSERT_POWERS requests of a client         *)
  MaxPrints,    (* bound on its PRINT_OUTPUT requests                      *)
  MaxAhead      (* bound on the requests in a connection                   *)

ASSUME OpenAssumption ==
  /\ InsertSizes \subseteq Nat
  /\ MaxInserts \in Nat /\ MaxPrints \in Nat /\ MaxAhead \in Nat \ {0}

VARIABLE
  client        (* client[c]: its phase, the request type it waits for and *)
                (* what it knows: see Stranger                             *)

vars == <<server, tdata, conn, torn, client>>

Unanswered == {"EXIT_SIMULATION", "RESET_THERMAL_STATE", "PRINT_OUTPUT", "UNKNOWN"}

NoAnswer == Message("none", 0, "none", 0)

(* clock and reset are what the client concludes from the answers and from *)
(* its own requests: the simulated time, and whether the temperatures have *)
(* been reset since.                                                       *)
Stranger ==
  [pc |-> "out", asked |-> "none", clock |-> 0, reset |-> FALSE,
   inserts |-> 0, prints |-> 0, answer |-> NoAnswer]

Init == ServerInit /\ client = [c \in Clients |-> Stranger]

-----------------------------------------------------------------------------
(* The client                                                              *)

At(c, pc) == client[c].pc = pc

Connect(c) ==
  /\ At(c, "out")
  /\ server.pc \notin {"start", "exit"}
  /\ conn' = [conn EXCEPT ![c].client = TRUE, ![c].server = TRUE]
  /\ client' = [client EXCEPT ![c].pc = "in"]

Send(c, message) ==
  /\ Len(conn[c].up) < MaxAhead
  /\ conn' = [conn EXCEPT ![c].up = IF conn[c].server THEN Append(@, message) ELSE @]

(* A request that is not answered *)
Tell(c, type) ==
  /\ At(c, "in")
  /\ type = "PRINT_OUTPUT" => client[c].prints < MaxPrints
  /\ Send(c, Request(type, 0))
  /\ client' = [client EXCEPT
       ![c].reset  = IF type = "RESET_THERMAL_STATE" THEN TRUE ELSE @,
       ![c].prints = IF type = "PRINT_OUTPUT" THEN @ + 1 ELSE @,
       ![c].answer = NoAnswer]

(* A request that is answered *)
Ask(c, type, n) ==
  /\ At(c, "in")
  /\ type = "INSERT_POWERS" => client[c].inserts < MaxInserts
  /\ Send(c, Request(type, n))
  /\ client' = [client EXCEPT
       ![c].pc = "waiting", ![c].asked = type, ![c].answer = NoAnswer,
       ![c].inserts = IF type = "INSERT_POWERS" THEN @ + 1 ELSE @]

(* The simulated time after an answer: SLOT_DONE is the end of the slot *)
ClockAfter(clock, result) ==
  CASE result = "STEP_DONE" -> clock + 1
    [] result = "SLOT_DONE" -> SlotOf(clock + 1) * SlotLength
    [] OTHER -> clock

Hear(c) ==
  LET answer == Head(conn[c].down) IN
  /\ At(c, "waiting")
  /\ conn[c].down # <<>>
  /\ client' = [client EXCEPT
       ![c].pc = "in", ![c].asked = "none", ![c].answer = answer,
       ![c].clock = ClockAfter(@, answer.result),
       ![c].reset = @ /\ answer.result \notin {"STEP_DONE", "SLOT_DONE"}]
  /\ conn' = [conn EXCEPT ![c].down = Tail(@)]

Gone(c) ==
  /\ client' = [client EXCEPT ![c].pc = "gone"]
  /\ conn' = [conn EXCEPT ![c].client = FALSE, ![c].down = <<>>]

(* The connection ends without the answer *)
LoseServer(c) ==
  /\ At(c, "waiting")
  /\ conn[c].down = <<>> /\ ~ conn[c].server
  /\ Gone(c)

Disconnect(c) == (At(c, "in") \/ At(c, "waiting")) /\ Gone(c)

Listen(c) == (Hear(c) \/ LoseServer(c)) /\ UNCHANGED <<server, tdata, torn>>

ClientStep(c) ==
  /\ \/ Connect(c)
     \/ \E type \in Unanswered : Tell(c, type)
     \/ \E type \in RequestTypes \ (Unanswered \cup {"INSERT_POWERS"}) : Ask(c, type, 0)
     \/ \E n \in InsertSizes : Ask(c, "INSERT_POWERS", n)
     \/ Disconnect(c)
  /\ UNCHANGED <<server, tdata, torn>>

Next ==
  \/ ServerStep /\ UNCHANGED client
  \/ \E c \in Clients : Listen(c) \/ ClientStep(c)

(* The server runs, and a client that waits reads what it receives; nobody *)
(* is obliged to send anything or to leave.                                *)
Fairness ==
  /\ WF_vars(ServerStep /\ UNCHANGED client)
  /\ \A c \in Clients : WF_vars(Listen(c))

Spec == Init /\ [][Next]_vars /\ Fairness

-----------------------------------------------------------------------------
(* Properties                                                              *)

(* A client that keeps requests that are not answered in flight still gets *)
(* the answers to the others: nothing comes that it did not ask for, and   *)
(* while it waits and the connection is open, its request or the answer to *)
(* it is still under way, exactly once.                                    *)
OneAnswerUnderWay ==
  \A c \in Clients :
    LET asked == client[c].asked
        handled == server.peer = c /\ server.pc \in {"handle", "slot"}
                     /\ server.request.type = asked
    IN
    /\ \A i \in 1 .. Len(conn[c].down) : At(c, "waiting") /\ conn[c].down[i].type = asked
    /\ (At(c, "waiting") /\ conn[c].server /\ server.pc # "leave") =>
         Cardinality({i \in 1 .. Len(conn[c].up) : conn[c].up[i].type = asked})
           + Len(conn[c].down) + (IF handled THEN 1 ELSE 0) = 1

(* A client can tell from STEP_DONE and SLOT_DONE how far the simulation   *)
(* is, however it mixes steps and slots, and each output shows the state   *)
(* after all its requests before it and nothing else: that time, and       *)
(* temperatures solved from the power values of that slot, or the initial  *)
(* ones after a reset.                                                     *)
OutputIsUpToDate ==
  \A c \in Clients :
    LET answer == client[c].answer IN
    answer.type = "SEND_OUTPUT" =>
      /\ answer.time = client[c].clock
      /\ answer.n = IF client[c].reset THEN 0 ELSE SlotOf(client[c].clock)

(* A client is told that the simulation is over exactly when it has        *)
(* simulated every slot for which each element has a power value.          *)
EndMeansOut ==
  \A c \in Clients :
    client[c].answer.result = "END_OF_SIMULATION" =>
      client[c].clock = SlotLength * Min({tdata.supplied[e] : e \in Elements})

(* Files sent after outputs have been printed are those of this run, and   *)
(* have a line for each of them, unless one could not be written.          *)
FilesFollowPrints ==
  \A c \in Clients :
    LET answer == client[c].answer IN
    (answer.type = "SEND_OUTPUT_FILES" /\ client[c].prints > 0 /\ ~ server.file.lost) =>
      answer.result = "this_run" /\ answer.n = client[c].prints

(* A client that was accepted does not wait forever, and the server does   *)
(* not outlive its client.                                                 *)
NobodyWaitsForever ==
  \A c \in Clients :
    /\ (At(c, "waiting") /\ server.peer = c) ~> ~ At(c, "waiting")
    /\ (At(c, "gone") /\ server.peer = c) ~> (server.pc = "exit")
=============================================================================
