----------------------------- MODULE MessageSocket -----------------------------
(***************************************************************************)
(* sources/network_message.c and the two message functions of              *)
(* sources/network_socket.c: a message is built word by word in a memory   *)
(* that grows, written to a stream socket in as many writes as it takes,   *)
(* and read into a memory of the receiver, the length first.  The sender   *)
(* may close its end after a message or die at any moment.                 *)
(*                                                                         *)
(* A word is copied into a message and out of it as its WordBytes bytes    *)
(* (memcpy, or through a pointer).  Which bytes these are is up to the     *)
(* machine: BytesOf, which gives every word bytes of its own, all of them  *)
(* zero for 0.  An interrupted system call (EINTR) is repeated and changes *)
(* nothing, so it is not an action.                                        *)
(***************************************************************************)
EXTENDS Integers, Sequences

CONSTANTS
  Byte,             (* what a byte can be: 0 .. 255 in the program         *)
  WordBytes,        (* sizeof (MessageWord_t): 4 in the program            *)
  WordLimit,        (* number of words: 2^32 in the program                *)
  BytesOf,          (* BytesOf[w]: the bytes of word w in memory           *)
  MESSAGE_LENGTH,   (* words in the memory of a new message                *)
  Types,            (* message types                                       *)
  Content,          (* words a message may contain                         *)
  MaxContent,       (* bound on the content words of a message             *)
  MaxMessages,      (* bound on the messages built                         *)
  Capacity          (* bytes the socket buffers hold                       *)

Word == 0 .. WordLimit - 1

Bytes == [1 .. WordBytes -> Byte]

ASSUME SocketAssumption ==
  /\ WordBytes \in Nat \ {0} /\ WordLimit \in Nat \ {0}
  /\ MESSAGE_LENGTH \in Nat \ {0, 1}
  /\ Types \subseteq Word /\ Content \subseteq Word
  /\ MaxContent \in Nat /\ MaxMessages \in Nat
  /\ (MaxContent + 1) * WordBytes < WordLimit /\ MaxContent + 2 < WordLimit
  /\ Capacity \in Nat \ {0}

(* Every word has bytes and all bytes are those of a word, of one each.    *)
ASSUME RepresentationAssumption ==
  /\ 0 \in Byte
  /\ BytesOf \in [Word -> Bytes]
  /\ BytesOf[0] = [i \in 1 .. WordBytes |-> 0]
  /\ \A bytes \in Bytes : \E word \in Word : BytesOf[word] = bytes
  /\ \A v, w \in Word : BytesOf[v] = BytesOf[w] => v = w

(* A type is a small number: but for one of its bytes it looks like 0.     *)
ASSUME TypeAssumption ==
  \E i \in 1 .. WordBytes : \A type \in Types :
    \A k \in (1 .. WordBytes) \ {i} : BytesOf[type][k] = 0

VARIABLES
  sender,       (* the message being built or written: pc, memory, left    *)
  wire,         (* the bytes in the socket buffers                         *)
  receiver,     (* the message being received: pc, memory, head, left      *)
  sent,         (* messages completely written (history)                   *)
  received,     (* messages received with success (history)                *)
  built         (* number of messages begun                                *)

vars == <<sender, wire, receiver, sent, received, built>>

-----------------------------------------------------------------------------
(* The memory of a message, as a sequence of bytes: the first word is its  *)
(* length in words, the second its type, the others its content.           *)

WordOf == [bytes \in Bytes |-> CHOOSE word \in Word : BytesOf[word] = bytes]

BytesAt(memory, j) == [i \in 1 .. WordBytes |-> memory[(j - 1) * WordBytes + i]]

WordAt(memory, j) == WordOf[BytesAt(memory, j)]

SetWord(memory, j, word) ==
  [k \in DOMAIN memory |->
     IF k \in (j - 1) * WordBytes + 1 .. j * WordBytes
     THEN BytesOf[word][k - (j - 1) * WordBytes] ELSE memory[k]]

MaxLength(memory) == Len(memory) \div WordBytes

LengthOf(memory) == WordAt(memory, 1)

TypeOf(memory) == WordAt(memory, 2)

network_message_init == [k \in 1 .. MESSAGE_LENGTH * WordBytes |-> 0]

(* Seeded fault: the new memory has room for the old size only *)
increase_message_memory_late(memory, words) ==
  memory \o [k \in 1 .. (words - 1) * WordBytes - Len(memory) |-> 0]

increase_message_memory(memory, words) ==
  memory \o [k \in 1 .. words * WordBytes - Len(memory) |-> 0]

build_message_head(memory, type) == SetWord(SetWord(memory, 1, 2), 2, type)

insert_message_word(memory, word) ==
  LET length == LengthOf(memory)
      room == IF length = MaxLength(memory)
              THEN increase_message_memory(memory, 2 * MaxLength(memory)) ELSE memory
  IN SetWord(SetWord(room, length + 1, word), 1, length + 1)

(* The word at an index of the content, or none: TDICE_FAILURE             *)
extract_message_word(memory, index) ==
  IF index >= MaxLength(memory) - 2 THEN {} ELSE { WordAt(memory, index + 3) }

-----------------------------------------------------------------------------
(* The sender                                                              *)

SenderOpen == sender.pc # "closed"

ReceiverOpen == receiver.pc # "closed"

BuildHead(type) ==
  /\ sender.pc = "idle"
  /\ built < MaxMessages
  /\ sender' = [sender EXCEPT !.pc = "build",
                              !.memory = build_message_head(network_message_init, type)]
  /\ built' = built + 1
  /\ UNCHANGED <<wire, receiver, sent, received>>

InsertWord(word) ==
  /\ sender.pc = "build"
  /\ LengthOf(sender.memory) < MaxContent + 2
  /\ sender' = [sender EXCEPT !.memory = insert_message_word(sender.memory, word)]
  /\ UNCHANGED <<wire, receiver, sent, received, built>>

(* send_message_to_socket begins *)
BeginSend ==
  /\ sender.pc = "build"
  /\ sender' = [sender EXCEPT !.pc = "write",
                              !.left = LengthOf(sender.memory) * WordBytes]
  /\ UNCHANGED <<wire, receiver, sent, received, built>>

(* The bytes of the message from the one that is written next *)
Unwritten ==
  LET bytes == LengthOf(sender.memory) * WordBytes
  IN SubSeq(sender.memory, bytes - sender.left + 1, bytes)

(* What the message says: its type and its content *)
Words(memory) == [j \in 1 .. LengthOf(memory) - 1 |-> WordAt(memory, j + 1)]

(* Seeded fault: a write is expected to take all of the message *)
WriteWhole(n) ==
  /\ sender.pc = "write" /\ ReceiverOpen
  /\ n = sender.left /\ Len(wire) + n <= Capacity
  /\ wire' = wire \o SubSeq(Unwritten, 1, n)
  /\ sender' = [sender EXCEPT !.left = 0, !.pc = "idle"]
  /\ sent' = Append(sent, Words(sender.memory))
  /\ UNCHANGED <<receiver, received, built>>

(* write takes n bytes; with the last one send_message_to_socket returns *)
Write(n) ==
  /\ sender.pc = "write" /\ ReceiverOpen
  /\ n <= sender.left /\ Len(wire) + n <= Capacity
  /\ wire' = wire \o SubSeq(Unwritten, 1, n)
  /\ sender' = [sender EXCEPT !.left = @ - n,
                              !.pc = IF n = sender.left THEN "idle" ELSE "write"]
  /\ sent' = IF n = sender.left THEN Append(sent, Words(sender.memory)) ELSE sent
  /\ UNCHANGED <<receiver, received, built>>

(* The receiver has closed its end: send_message_to_socket fails *)
WriteFails ==
  /\ sender.pc = "write" /\ ~ ReceiverOpen
  /\ sender' = [sender EXCEPT !.pc = "idle", !.left = 0]
  /\ UNCHANGED <<wire, receiver, sent, received, built>>

(* socket_close, or the end of the process in the middle of anything *)
SenderEnds ==
  /\ SenderOpen
  /\ sender' = [sender EXCEPT !.pc = "closed"]
  /\ UNCHANGED <<wire, receiver, sent, received, built>>

-----------------------------------------------------------------------------
(* The receiver                                                            *)

(* Seeded fault: the message of the last receive is used again *)
BeginReceiveAgain ==
  /\ receiver.pc = "idle"
  /\ receiver' = [receiver EXCEPT !.pc = "length", !.head = <<>>]
  /\ UNCHANGED <<sender, wire, sent, received, built>>

(* receive_message_from_socket begins, with a new message or with one that *)
(* has been used to send a request without content                         *)
BeginReceive ==
  /\ receiver.pc = "idle"
  /\ \E memory \in {network_message_init}
                     \cup {build_message_head(network_message_init, t) : t \in Types} :
       receiver' = [receiver EXCEPT !.pc = "length", !.head = <<>>, !.memory = memory]
  /\ UNCHANGED <<sender, wire, sent, received, built>>

Return(result) == receiver' = [receiver EXCEPT !.pc = result]

(* What follows the last byte of the length.  The number of bytes to read  *)
(* is computed in the type of a word.                                      *)
LengthRead(length) ==
  LET memory == IF length > MaxLength(receiver.memory)
                THEN increase_message_memory(receiver.memory, length) ELSE receiver.memory
      left == ((length - 1) * WordBytes) % WordLimit
  IN receiver' = [receiver EXCEPT !.memory = SetWord(memory, 1, length), !.left = left,
                                  !.pc = IF left = 0 THEN "success" ELSE "body"]

(* read returns n bytes of the length *)
ReadLength(n) ==
  LET head == receiver.head \o SubSeq(wire, 1, n) IN
  /\ receiver.pc = "length"
  /\ n <= Len(wire) /\ Len(head) <= WordBytes
  /\ wire' = SubSeq(wire, n + 1, Len(wire))
  /\ IF Len(head) < WordBytes THEN receiver' = [receiver EXCEPT !.head = head]
     ELSE IF WordOf[head] = 0 THEN Return("failure")
     ELSE LengthRead(WordOf[head])
  /\ UNCHANGED <<sender, sent, received, built>>

(* Where the next byte of the body goes, counting from 0 *)
Position == LengthOf(receiver.memory) * WordBytes - receiver.left

(* read returns n bytes of the type and the content *)
ReadBody(n) ==
  LET p == Position IN
  /\ receiver.pc = "body"
  /\ n <= Len(wire) /\ n <= receiver.left
  /\ wire' = SubSeq(wire, n + 1, Len(wire))
  /\ receiver' = [receiver EXCEPT
       !.memory = [k \in DOMAIN @ |-> IF k \in p + 1 .. p + n THEN wire[k - p] ELSE @[k]],
       !.left = @ - n,
       !.pc = IF n = receiver.left THEN "success" ELSE "body"]
  /\ UNCHANGED <<sender, sent, received, built>>

(* Seeded fault: the end of the stream ends the loop over the body *)
ReadEndSucceeds ==
  /\ receiver.pc \in {"length", "body"}
  /\ wire = <<>> /\ ~ SenderOpen
  /\ Return(IF receiver.pc = "body" THEN "success" ELSE "failure")
  /\ UNCHANGED <<sender, wire, sent, received, built>>

(* read returns 0: the end of the stream *)
ReadEnd ==
  /\ receiver.pc \in {"length", "body"}
  /\ wire = <<>> /\ ~ SenderOpen
  /\ Return("failure")
  /\ UNCHANGED <<sender, wire, sent, received, built>>

(* The caller takes every word of the content out of the message, and goes *)
(* on also when the receive has failed                                     *)
Extract ==
  LET content == [i \in 1 .. LengthOf(receiver.memory) - 2 |->
                    CHOOSE word \in extract_message_word(receiver.memory, i - 1) : TRUE]
  IN
  /\ receiver.pc \in {"success", "failure"}
  /\ received' = IF receiver.pc = "success"
                 THEN Append(received, <<TypeOf(receiver.memory)>> \o content)
                 ELSE received
  /\ Return("idle")
  /\ UNCHANGED <<sender, wire, sent, built>>

(* socket_close between two messages; what is in the buffers is lost *)
ReceiverEnds ==
  /\ receiver.pc = "idle"
  /\ Return("closed")
  /\ wire' = <<>>
  /\ UNCHANGED <<sender, sent, received, built>>

-----------------------------------------------------------------------------

Init ==
  /\ sender = [pc |-> "idle", memory |-> network_message_init, left |-> 0]
  /\ receiver = [pc |-> "idle", memory |-> network_message_init, head |-> <<>>, left |-> 0]
  /\ wire = <<>> /\ sent = <<>> /\ received = <<>>
  /\ built = 0

Writing == (\E n \in 1 .. Capacity : Write(n)) \/ WriteFails

Receiving ==
  \/ BeginReceive
  \/ \E n \in 1 .. Capacity : ReadLength(n) \/ ReadBody(n)
  \/ ReadEnd
  \/ Extract

Next ==
  \/ \E type \in Types : BuildHead(type)
  \/ \E word \in Content : InsertWord(word)
  \/ BeginSend
  \/ Writing
  \/ SenderEnds
  \/ Receiving
  \/ ReceiverEnds

(* A write that can go on does, and the receiver receives until it ends *)
Spec == Init /\ [][Next]_vars /\ WF_vars(Writing) /\ WF_vars(Receiving)

-----------------------------------------------------------------------------
(* Properties                                                              *)

(* The memory of a message holds whole words and at least those that its   *)
(* length says, and neither the writes of the sender nor the reads of the  *)
(* receiver go beyond it.                                                  *)
TypeOK ==
  /\ wire \in Seq(Byte) /\ Len(wire) <= Capacity
  /\ sender.pc \in {"idle", "build", "write", "closed"}
  /\ receiver.pc \in {"idle", "length", "body", "success", "failure", "closed"}
  /\ \A m \in {sender.memory, receiver.memory} :
       /\ m \in Seq(Byte) /\ Len(m) % WordBytes = 0
       /\ LengthOf(m) <= MaxLength(m)
  /\ sender.left <= LengthOf(sender.memory) * WordBytes
  /\ receiver.pc = "body" => Position \in WordBytes .. Len(receiver.memory) - receiver.left
  /\ built <= MaxMessages

Messages == UNION { [1 .. n -> Types \cup Content] : n \in 1 .. MaxContent + 1 }

Channel == INSTANCE MessageChannel WITH
  open <- SenderOpen, failed <- receiver.pc = "failure"

(* However the stream is cut into reads and writes and whenever a process  *)
(* dies, the receiver gets whole messages, each once and in order, and     *)
(* a receive fails only when nothing is left to receive.                   *)
ImplementsChannel == Channel!Spec

(* A word of which only the first p bytes have arrived *)
FirstBytes(word, p) ==
  WordOf[[i \in 1 .. WordBytes |-> IF i <= p THEN BytesOf[word][i] ELSE 0]]

(* A receive that failed leaves, in the words of the message it did not    *)
(* get, what arrived of it and zeros: a type that is the one sent, 0 or    *)
(* what was there before, and after the first incomplete word only zeros.  *)
(* The session modules handle a message that was cut on this ground.       *)
CutReadsAsPrefix ==
  receiver.pc = "failure" =>
    LET got(j) == WordAt(receiver.memory, j)
        was(j) == WordAt(sender.memory, j)
    IN \/ /\ TypeOf(receiver.memory) \in Types \cup {0}
          /\ \A j \in 3 .. MaxLength(receiver.memory) : got(j) = 0
       \/ \E edge \in 3 .. MaxLength(sender.memory) :
            /\ \A j \in 2 .. edge - 1 : got(j) = was(j)
            /\ \E p \in 0 .. WordBytes : got(edge) = FirstBytes(was(edge), p)
            /\ \A j \in edge + 1 .. MaxLength(receiver.memory) : got(j) = 0

(* A caller that extracts a word beyond the content of a message reads     *)
(* zero or is told so: never a word of an earlier message.                 *)
BeyondContentIsZero ==
  receiver.pc = "success" =>
    \A index \in LengthOf(receiver.memory) - 2 .. 2 * MaxLength(receiver.memory) :
      extract_message_word(receiver.memory, index) \subseteq {0}

(* What a receiver reads is of the message it has received last.           *)
NoStrayWords == CutReadsAsPrefix /\ BeyondContentIsZero

(* A send returns, however small the buffers are, and a message that has  *)
(* been written is received, even if the sender is gone by then, unless    *)
(* the receiver ends.                                                      *)
WrittenIsReceived ==
  /\ (sender.pc = "write") ~> (sender.pc # "write")
  /\ \A n \in 1 .. MaxMessages :
       (Len(sent) >= n) ~> (Len(received) >= n \/ ~ ReceiverOpen)
=============================================================================
