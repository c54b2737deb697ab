------------------------- MODULE MessageSocket_proofs -------------------------
(***************************************************************************)
(* Proofs about messages on a stream (MessageSocket), for every size of    *)
(* word, representation of words in memory, size of the socket buffers and *)
(* length of messages: memory is respected, whole messages arrive once and *)
(* in order, and what a receive that failed leaves.                        *)
(***************************************************************************)
EXTENDS MessageSocket, SequenceTheorems, TLAPS

-----------------------------------------------------------------------------
(* Words and their bytes                                                   *)

LEMMA ZeroIsWord == 0 \in Word
BY SocketAssumption DEF Word

LEMMA WordOfBytes ==
  ASSUME NEW w \in Word
  PROVE  BytesOf[w] \in Bytes /\ WordOf[BytesOf[w]] = w
<1>1. BytesOf[w] \in Bytes
  BY RepresentationAssumption
<1>2. WordOf[BytesOf[w]] = CHOOSE v \in Word : BytesOf[v] = BytesOf[w]
  BY <1>1 DEF WordOf
<1>3. \A v \in Word : BytesOf[v] = BytesOf[w] => v = w
  BY RepresentationAssumption
<1> QED BY <1>1, <1>2, <1>3

LEMMA BytesOfWord ==
  ASSUME NEW b \in Bytes
  PROVE  WordOf[b] \in Word /\ BytesOf[WordOf[b]] = b
<1>1. \E w \in Word : BytesOf[w] = b
  BY RepresentationAssumption
<1>2. WordOf[b] = CHOOSE v \in Word : BytesOf[v] = b
  BY DEF WordOf
<1> QED BY <1>1, <1>2

-----------------------------------------------------------------------------
(* Positions.  Word j of a memory is the bytes (j - 1) * WordBytes + 1 ..  *)
(* j * WordBytes.                                                          *)

LEMMA Products ==
  ASSUME NEW j \in Nat, NEW k \in Nat
  PROVE  /\ j * WordBytes \in Nat
         /\ (j + 1) * WordBytes = j * WordBytes + WordBytes
         /\ j < k => (j + 1) * WordBytes <= k * WordBytes
         /\ j <= k => j * WordBytes <= k * WordBytes
<1> DEFINE l == WordBytes
<1>1. l \in Nat \ {0}
  BY SocketAssumption
<1> HIDE DEF l
<1>2. j * l \in Nat /\ k * l \in Nat /\ (j + 1) * l = j * l + l
  BY <1>1, Z3
<1>3. ASSUME NEW m \in Nat, NEW n \in Nat, m <= n PROVE m * l <= n * l
  <2>1. (n - m) * l \in Nat
    BY <1>1, <1>3, Z3
  <2>2. n * l = m * l + (n - m) * l
    BY <1>1, <1>3, Z3
  <2>3. m * l \in Nat
    BY <1>1, Z3
  <2> QED BY <2>1, <2>2, <2>3
<1>4. j < k => (j + 1) * l <= k * l
  <2> SUFFICES ASSUME j < k PROVE (j + 1) * l <= k * l
    OBVIOUS
  <2>1. j + 1 \in Nat /\ j + 1 <= k
    OBVIOUS
  <2> QED BY <1>3, <2>1
<1> QED BY <1>2, <1>3, <1>4 DEF l

(* The bytes of word j *)
LEMMA WordRange ==
  ASSUME NEW j \in Nat \ {0}
  PROVE  /\ (j - 1) * WordBytes \in Nat /\ j * WordBytes \in Nat
         /\ j * WordBytes = (j - 1) * WordBytes + WordBytes
         /\ WordBytes <= j * WordBytes
<1>1. j - 1 \in Nat /\ (j - 1) + 1 = j
  OBVIOUS
<1> QED BY <1>1, Products, SocketAssumption

LEMMA WordsApart ==
  ASSUME NEW j \in Nat \ {0}, NEW k \in Nat \ {0}, j < k
  PROVE  j * WordBytes <= (k - 1) * WordBytes
<1>1. k - 1 \in Nat /\ j <= k - 1
  OBVIOUS
<1> QED BY <1>1, Products

LEMMA One == 0 * WordBytes = 0 /\ 1 * WordBytes = WordBytes /\ 2 * WordBytes = WordBytes + WordBytes
BY SocketAssumption

LEMMA Lengths ==
  ASSUME NEW m \in Seq(Byte), NEW n \in Nat, Len(m) = n * WordBytes
  PROVE  MaxLength(m) = n /\ Len(m) % WordBytes = 0
<1> DEFINE l == WordBytes  a == Len(m)
<1>1. l \in Nat \ {0} /\ a = l * n
  BY SocketAssumption
<1> HIDE DEF l, a
<1>2. a \div l = n /\ a % l = 0
  BY <1>1, Z3
<1> QED BY <1>2 DEF MaxLength, l, a

-----------------------------------------------------------------------------
(* Words in a memory                                                       *)

LEMMA WordTyped ==
  ASSUME NEW m \in Seq(Byte), NEW j \in Nat \ {0}, j * WordBytes <= Len(m)
  PROVE  BytesAt(m, j) \in Bytes /\ WordAt(m, j) \in Word
<1> DEFINE p == (j - 1) * WordBytes  q == j * WordBytes
<1>1. p \in Nat /\ q = p + WordBytes /\ WordBytes \in Nat /\ q <= Len(m)
  BY WordRange, SocketAssumption
<1>2. BytesAt(m, j) = [i \in 1 .. WordBytes |-> m[p + i]]
  BY DEF BytesAt
<1> HIDE DEF p, q
<1>3. \A i \in 1 .. WordBytes : m[p + i] \in Byte
  <2> TAKE i \in 1 .. WordBytes
  <2>1. p + i \in 1 .. Len(m)
    BY <1>1
  <2> QED BY <2>1
<1>4. BytesAt(m, j) \in Bytes
  BY <1>2, <1>3 DEF Bytes
<1> QED BY <1>4, BytesOfWord DEF WordAt

(* A word is where its bytes are *)
LEMMA SameWord ==
  ASSUME NEW m \in Seq(Byte), NEW n \in Seq(Byte), NEW j \in Nat \ {0},
         \A i \in (j - 1) * WordBytes + 1 .. j * WordBytes : m[i] = n[i]
  PROVE  WordAt(m, j) = WordAt(n, j)
<1> DEFINE p == (j - 1) * WordBytes  q == j * WordBytes
<1>1. p \in Nat /\ q = p + WordBytes /\ WordBytes \in Nat
  BY WordRange, SocketAssumption
<1>2. \A i \in p + 1 .. q : m[i] = n[i]
  OBVIOUS
<1>3. /\ BytesAt(m, j) = [i \in 1 .. WordBytes |-> m[p + i]]
      /\ BytesAt(n, j) = [i \in 1 .. WordBytes |-> n[p + i]]
  BY DEF BytesAt
<1> HIDE DEF p, q
<1>4. \A i \in 1 .. WordBytes : m[p + i] = n[p + i]
  <2> TAKE i \in 1 .. WordBytes
  <2>1. p + i \in p + 1 .. q
    BY <1>1
  <2> QED BY <1>2, <2>1
<1> QED BY <1>3, <1>4 DEF WordAt

(* The bytes of a word that was read *)
LEMMA BytesRead ==
  ASSUME NEW m \in Seq(Byte), NEW j \in Nat \ {0}, j * WordBytes <= Len(m)
  PROVE  \A i \in 1 .. WordBytes : BytesOf[WordAt(m, j)][i] = m[(j - 1) * WordBytes + i]
<1>1. BytesOf[WordAt(m, j)] = BytesAt(m, j)
  BY WordTyped, BytesOfWord DEF WordAt
<1> QED BY <1>1 DEF BytesAt

(* A word whose bytes are known *)
LEMMA WordFromBytes ==
  ASSUME NEW m \in Seq(Byte), NEW j \in Nat \ {0}, NEW w \in Word,
         \A i \in 1 .. WordBytes : m[(j - 1) * WordBytes + i] = BytesOf[w][i]
  PROVE  WordAt(m, j) = w
<1>1. BytesOf[w] \in Bytes /\ WordOf[BytesOf[w]] = w
  BY WordOfBytes
<1>2. BytesAt(m, j) = BytesOf[w]
  BY <1>1 DEF BytesAt, Bytes
<1> QED BY <1>1, <1>2 DEF WordAt

LEMMA ZeroWord ==
  ASSUME NEW m \in Seq(Byte), NEW j \in Nat \ {0},
         \A i \in 1 .. WordBytes : m[(j - 1) * WordBytes + i] = 0
  PROVE  WordAt(m, j) = 0
<1>1. \A i \in 1 .. WordBytes : BytesOf[0][i] = 0
  BY RepresentationAssumption
<1> QED BY <1>1, ZeroIsWord, WordFromBytes

LEMMA SetWordMeans ==
  ASSUME NEW m \in Seq(Byte), NEW j \in Nat \ {0}, j * WordBytes <= Len(m), NEW w \in Word
  PROVE  /\ SetWord(m, j, w) \in Seq(Byte) /\ Len(SetWord(m, j, w)) = Len(m)
         /\ WordAt(SetWord(m, j, w), j) = w
         /\ \A i \in 1 .. Len(m) : i \notin (j - 1) * WordBytes + 1 .. j * WordBytes =>
              SetWord(m, j, w)[i] = m[i]
         /\ \A i \in 1 .. WordBytes : SetWord(m, j, w)[(j - 1) * WordBytes + i] = BytesOf[w][i]
<1> DEFINE p == (j - 1) * WordBytes  q == j * WordBytes  s == SetWord(m, j, w)
<1>1. p \in Nat /\ q = p + WordBytes /\ WordBytes \in Nat /\ q <= Len(m)
  BY WordRange, SocketAssumption
<1>2. s = [k \in 1 .. Len(m) |-> IF k \in p + 1 .. q THEN BytesOf[w][k - p] ELSE m[k]]
  BY DEF SetWord
<1>3. (j - 1) * WordBytes = p /\ j * WordBytes = q /\ SetWord(m, j, w) = s
  OBVIOUS
<1> HIDE DEF p, q, s
<1>4. \A i \in 1 .. WordBytes : BytesOf[w][i] \in Byte
  BY WordOfBytes DEF Bytes
<1>5. s \in Seq(Byte) /\ Len(s) = Len(m)
  <2>1. \A k \in 1 .. Len(m) : s[k] \in Byte
    <3> TAKE k \in 1 .. Len(m)
    <3>1. CASE k \in p + 1 .. q
      <4>1. k - p \in 1 .. WordBytes /\ s[k] = BytesOf[w][k - p]
        BY <1>1, <1>2, <3>1
      <4> QED BY <1>4, <4>1
    <3>2. CASE k \notin p + 1 .. q
      BY <1>2, <3>2
    <3> QED BY <3>1, <3>2
  <2>2. s = [k \in 1 .. Len(m) |-> s[k]] /\ Len(m) \in Nat
    BY <1>2
  <2> QED BY <2>1, <2>2
<1>6. \A i \in 1 .. WordBytes : s[p + i] = BytesOf[w][i]
  <2> TAKE i \in 1 .. WordBytes
  <2>1. p + i \in 1 .. Len(m) /\ p + i \in p + 1 .. q /\ (p + i) - p = i
    BY <1>1
  <2> QED BY <1>2, <2>1
<1>7. \A i \in 1 .. Len(m) : i \notin p + 1 .. q => s[i] = m[i]
  BY <1>2
<1>8. WordAt(s, j) = w
  BY <1>3, <1>5, <1>6, WordFromBytes
<1> QED BY <1>3, <1>5, <1>6, <1>7, <1>8

(* The first word, the length *)
LEMMA SetFirst ==
  ASSUME NEW m \in Seq(Byte), WordBytes <= Len(m), NEW w \in Word
  PROVE  /\ SetWord(m, 1, w) \in Seq(Byte) /\ Len(SetWord(m, 1, w)) = Len(m)
         /\ WordAt(SetWord(m, 1, w), 1) = w
         /\ \A i \in 1 .. Len(m) : i > WordBytes => SetWord(m, 1, w)[i] = m[i]
         /\ \A i \in 1 .. WordBytes : SetWord(m, 1, w)[i] = BytesOf[w][i]
<1>1. ASSUME NEW j \in Nat \ {0}, j = 1
      PROVE  /\ SetWord(m, j, w) \in Seq(Byte) /\ Len(SetWord(m, j, w)) = Len(m)
             /\ WordAt(SetWord(m, j, w), j) = w
             /\ \A i \in 1 .. Len(m) : i > WordBytes => SetWord(m, j, w)[i] = m[i]
             /\ \A i \in 1 .. WordBytes : SetWord(m, j, w)[i] = BytesOf[w][i]
  <2> DEFINE p == (j - 1) * WordBytes  q == j * WordBytes  s == SetWord(m, j, w)
  <2>1. p = 0 /\ q = WordBytes /\ WordBytes \in Nat
    BY <1>1, One, SocketAssumption
  <2>2. j * WordBytes <= Len(m)
    BY <2>1
  <2>3. /\ s \in Seq(Byte) /\ Len(s) = Len(m) /\ WordAt(s, j) = w
        /\ \A i \in 1 .. Len(m) : i \notin p + 1 .. q => s[i] = m[i]
        /\ \A i \in 1 .. WordBytes : s[p + i] = BytesOf[w][i]
    BY <2>2, SetWordMeans
  <2> SUFFICES /\ \A i \in 1 .. Len(m) : i > WordBytes => s[i] = m[i]
               /\ \A i \in 1 .. WordBytes : s[i] = BytesOf[w][i]
    BY <2>3
  <2> HIDE DEF p, q, s
  <2> QED BY <2>1, <2>3
<1> QED BY <1>1

LEMMA SetWordKeeps ==
  ASSUME NEW m \in Seq(Byte), NEW j \in Nat \ {0}, j * WordBytes <= Len(m), NEW w \in Word,
         NEW k \in Nat \ {0}, k # j, k * WordBytes <= Len(m)
  PROVE  WordAt(SetWord(m, j, w), k) = WordAt(m, k)
<1> DEFINE p == (j - 1) * WordBytes  q == j * WordBytes  s == SetWord(m, j, w)
           a == (k - 1) * WordBytes  b == k * WordBytes
<1>1. a \in Nat /\ b \in Nat /\ p \in Nat /\ q \in Nat /\ b <= Len(m)
  BY WordRange
<1>2. q <= a \/ b <= p
  <2>1. CASE j < k
    BY <2>1, WordsApart
  <2>2. CASE k < j
    BY <2>2, WordsApart
  <2> QED BY <2>1, <2>2
<1>3. /\ s \in Seq(Byte)
      /\ \A i \in 1 .. Len(m) : i \notin p + 1 .. q => s[i] = m[i]
  BY SetWordMeans
<1>4. \A i \in a + 1 .. b : s[i] = m[i]
  <2> HIDE DEF a, b, p, q, s
  <2> TAKE i \in a + 1 .. b
  <2>1. i \in 1 .. Len(m) /\ i \notin p + 1 .. q
    BY <1>1, <1>2
  <2> QED BY <1>3, <2>1
<1> QED BY <1>3, <1>4, SameWord

LEMMA MemoryGrown ==
  ASSUME NEW m \in Seq(Byte), NEW n \in Nat, NEW k \in Nat, k <= n, Len(m) = k * WordBytes
  PROVE  /\ increase_message_memory(m, n) \in Seq(Byte)
         /\ Len(increase_message_memory(m, n)) = n * WordBytes
         /\ \A i \in 1 .. Len(m) : increase_message_memory(m, n)[i] = m[i]
         /\ \A i \in Len(m) + 1 .. n * WordBytes : increase_message_memory(m, n)[i] = 0
<1> DEFINE d == n * WordBytes - Len(m)
           z == [i \in 1 .. d |-> 0]
<1>1. d \in Nat /\ n * WordBytes \in Nat /\ n * WordBytes = Len(m) + d
  <2>1. k * WordBytes <= n * WordBytes /\ n * WordBytes \in Nat /\ k * WordBytes \in Nat
    BY Products
  <2> QED BY <2>1
<1>2. increase_message_memory(m, n) = m \o z
  BY DEF increase_message_memory
<1> HIDE DEF d
<1>3. z \in Seq(Byte) /\ Len(z) = d /\ \A i \in 1 .. d : z[i] = 0
  BY <1>1, RepresentationAssumption
<1> HIDE DEF z
<1>4. /\ m \o z \in Seq(Byte) /\ Len(m \o z) = Len(m) + d
      /\ \A i \in 1 .. Len(m) : (m \o z)[i] = m[i]
      /\ \A i \in Len(m) + 1 .. Len(m) + d : (m \o z)[i] = z[i - Len(m)]
  BY <1>1, <1>3
<1>5. \A i \in Len(m) + 1 .. Len(m) + d : i - Len(m) \in 1 .. d
  BY <1>1
<1> QED BY <1>1, <1>2, <1>3, <1>4, <1>5

-----------------------------------------------------------------------------
(* Messages in a memory                                                    *)

(* The bytes of the message in a memory *)
Size(m) == LengthOf(m) * WordBytes

(* A memory of whole words with the message its first word speaks of *)
IsMemory(m) ==
  /\ m \in Seq(Byte)
  /\ \E n \in Nat : n >= 2 /\ Len(m) = n * WordBytes /\ LengthOf(m) <= n

IsMessage(m) ==
  /\ IsMemory(m)
  /\ LengthOf(m) \in 2 .. MaxContent + 2
  /\ TypeOf(m) \in Types
  /\ \A j \in 3 .. LengthOf(m) : WordAt(m, j) \in Content

LEMMA MemoryWords ==
  ASSUME NEW m, IsMemory(m)
  PROVE  /\ m \in Seq(Byte) /\ MaxLength(m) \in Nat /\ MaxLength(m) >= 2
         /\ Len(m) = MaxLength(m) * WordBytes /\ Len(m) % WordBytes = 0
         /\ LengthOf(m) \in Word /\ LengthOf(m) \in Nat /\ LengthOf(m) <= MaxLength(m)
         /\ Size(m) \in Nat /\ Size(m) <= Len(m)
         /\ 2 * WordBytes <= Len(m)
         /\ \A j \in 1 .. MaxLength(m) : j * WordBytes <= Len(m) /\ WordAt(m, j) \in Word
<1>1. PICK n \in Nat : n >= 2 /\ Len(m) = n * WordBytes /\ LengthOf(m) <= n
  BY DEF IsMemory
<1>2. m \in Seq(Byte)
  BY DEF IsMemory
<1>3. MaxLength(m) = n /\ Len(m) % WordBytes = 0
  BY <1>1, <1>2, Lengths
<1>4. \A j \in 1 .. n : j * WordBytes <= Len(m) /\ WordAt(m, j) \in Word
  <2> TAKE j \in 1 .. n
  <2>1. j * WordBytes <= Len(m)
    BY <1>1, Products
  <2> QED BY <1>2, <2>1, WordTyped
<1>5. LengthOf(m) \in Word /\ LengthOf(m) \in Nat
  BY <1>1, <1>4, SocketAssumption DEF LengthOf, Word
<1>6. Size(m) \in Nat /\ Size(m) <= Len(m)
  BY <1>1, <1>5, Products DEF Size
<1>7. 2 * WordBytes <= Len(m)
  BY <1>1, <1>4
<1> QED BY <1>1, <1>2, <1>3, <1>4, <1>5, <1>6, <1>7

-----------------------------------------------------------------------------
(* The messages that are built                                             *)

(* What a memory holds beyond its first bytes: the type of a message or 0, *)
(* and zeros                                                               *)
Leftover(m, from) ==
  /\ \E t \in Types \cup {0} : \A i \in 1 .. WordBytes :
       WordBytes + i > from => m[WordBytes + i] = BytesOf[t][i]
  /\ \A i \in 1 .. Len(m) : i > 2 * WordBytes /\ i > from => m[i] = 0

LEMMA NewMemory ==
  LET m == network_message_init IN
  /\ IsMemory(m) /\ Len(m) = MESSAGE_LENGTH * WordBytes /\ 2 * WordBytes <= Len(m)
  /\ \A from \in Nat : Leftover(m, from)
<1> DEFINE m == network_message_init  len == MESSAGE_LENGTH * WordBytes
<1>1. len \in Nat /\ 2 * WordBytes <= len /\ 1 * WordBytes <= len /\ MESSAGE_LENGTH >= 2
      /\ MESSAGE_LENGTH \in Nat /\ WordBytes \in Nat
  BY Products, SocketAssumption
<1>2. m = [k \in 1 .. len |-> 0]
  BY DEF network_message_init
<1>3. network_message_init = m /\ MESSAGE_LENGTH * WordBytes = len
  OBVIOUS
<1> HIDE DEF m, len
<1>4. m \in Seq(Byte) /\ Len(m) = len /\ \A i \in 1 .. len : m[i] = 0
  BY <1>1, <1>2, RepresentationAssumption
<1>5. LengthOf(m) = 0
  <2>1. \A i \in 1 .. WordBytes : m[(1 - 1) * WordBytes + i] = 0
    BY <1>1, <1>4, One
  <2> QED BY <1>4, <2>1, ZeroWord DEF LengthOf
<1>6. IsMemory(m)
  <2>1. LengthOf(m) <= MESSAGE_LENGTH
    BY <1>1, <1>5
  <2> QED BY <1>1, <1>3, <1>4, <2>1 DEF IsMemory
<1>7. ASSUME NEW from \in Nat PROVE Leftover(m, from)
  <2>1. \A i \in 1 .. WordBytes : m[WordBytes + i] = BytesOf[0][i]
    <3>1. \A i \in 1 .. WordBytes : BytesOf[0][i] = 0
      BY RepresentationAssumption
    <3> QED BY <1>1, <1>4, <3>1, One
  <2> QED BY <1>4, <2>1 DEF Leftover
<1> QED BY <1>1, <1>3, <1>4, <1>6, <1>7

LEMMA HeadBuilt ==
  ASSUME NEW t \in Types
  PROVE  LET m == build_message_head(network_message_init, t) IN
         IsMessage(m) /\ \A from \in Nat : Leftover(m, from)
<1> DEFINE z == network_message_init  h == SetWord(z, 1, 2)  m == SetWord(h, 2, t)
<1>1. /\ IsMemory(z) /\ Len(z) = MESSAGE_LENGTH * WordBytes /\ 2 * WordBytes <= Len(z)
      /\ Leftover(z, 0) /\ z \in Seq(Byte)
  BY NewMemory DEF IsMemory
<1>2. build_message_head(network_message_init, t) = m
  BY DEF build_message_head
<1>3. 2 \in Word /\ t \in Word /\ WordBytes \in Nat \ {0} /\ MESSAGE_LENGTH \in Nat /\ MESSAGE_LENGTH >= 2
      /\ 1 * WordBytes = WordBytes /\ 0 * WordBytes = 0 /\ 2 * WordBytes = WordBytes + WordBytes
      /\ MaxContent \in Nat
  BY SocketAssumption, One DEF Word
<1>a. /\ (2 - 1) * WordBytes = WordBytes /\ (1 - 1) * WordBytes = 0
      /\ 1 * WordBytes <= Len(z)
  BY <1>1, <1>3
<1> HIDE DEF z
<1>4. /\ h \in Seq(Byte) /\ Len(h) = Len(z) /\ WordAt(h, 1) = 2
      /\ \A i \in 1 .. Len(z) : i > WordBytes => h[i] = z[i]
  <2>1. WordBytes <= Len(z)
    BY <1>1, <1>3
  <2> QED BY <1>1, <1>3, <2>1, SetFirst DEF LengthOf
<1> HIDE DEF h
<1>5. /\ m \in Seq(Byte) /\ Len(m) = Len(z) /\ WordAt(m, 1) = 2 /\ WordAt(m, 2) = t
      /\ \A i \in 1 .. WordBytes : m[WordBytes + i] = BytesOf[t][i]
      /\ \A i \in 1 .. Len(z) : i > 2 * WordBytes => m[i] = h[i]
  <2>0. WordBytes + WordBytes <= Len(h) /\ WordBytes <= Len(h)
    BY <1>1, <1>3, <1>4
  <2>1. ASSUME NEW j \in Nat \ {0}, j = 2
        PROVE  /\ SetWord(h, j, t) \in Seq(Byte) /\ Len(SetWord(h, j, t)) = Len(h)
               /\ WordAt(SetWord(h, j, t), j) = t
               /\ WordAt(SetWord(h, j, t), 1) = 2
               /\ \A i \in 1 .. Len(h) : i > 2 * WordBytes => SetWord(h, j, t)[i] = h[i]
               /\ \A i \in 1 .. WordBytes : SetWord(h, j, t)[WordBytes + i] = BytesOf[t][i]
    <3> DEFINE p == (j - 1) * WordBytes  q == j * WordBytes  s == SetWord(h, j, t)
    <3>1. p = WordBytes /\ q = WordBytes + WordBytes
      BY <1>3, <2>1
    <3>2. j * WordBytes <= Len(h)
      BY <2>0, <3>1
    <3>3. /\ s \in Seq(Byte) /\ Len(s) = Len(h) /\ WordAt(s, j) = t
          /\ \A i \in 1 .. Len(h) : i \notin p + 1 .. q => s[i] = h[i]
          /\ \A i \in 1 .. WordBytes : s[p + i] = BytesOf[t][i]
      BY <1>3, <1>4, <3>2, SetWordMeans
    <3>4. 1 \in Nat \ {0} /\ 1 # j /\ 1 * WordBytes <= Len(h)
      BY <1>3, <2>0, <2>1
    <3>5. WordAt(s, 1) = 2
      BY <1>3, <1>4, <3>2, <3>4, SetWordKeeps
    <3> SUFFICES /\ \A i \in 1 .. Len(h) : i > 2 * WordBytes => s[i] = h[i]
                 /\ \A i \in 1 .. WordBytes : s[WordBytes + i] = BytesOf[t][i]
      BY <3>3, <3>5
    <3> HIDE DEF p, q, s
    <3>6. \A i \in 1 .. WordBytes : s[WordBytes + i] = BytesOf[t][i]
      BY <3>1, <3>3
    <3>7. \A i \in 1 .. Len(h) : i > 2 * WordBytes => i \notin p + 1 .. q
      BY <1>3, <3>1
    <3> QED BY <3>3, <3>6, <3>7
  <2> QED BY <1>4, <2>1
<1> HIDE DEF m
<1>6. IsMemory(m)
  BY <1>1, <1>3, <1>5 DEF IsMemory, LengthOf
<1>7. IsMessage(m)
  BY <1>3, <1>5, <1>6 DEF IsMessage, LengthOf, TypeOf
<1>8. ASSUME NEW from \in Nat PROVE Leftover(m, from)
  <2>1. \A i \in 1 .. Len(m) : i > 2 * WordBytes => m[i] = 0
    BY <1>1, <1>3, <1>4, <1>5 DEF Leftover
  <2> QED BY <1>5, <2>1 DEF Leftover
<1> QED BY <1>2, <1>7, <1>8

LEMMA WordInserted ==
  ASSUME NEW m, IsMessage(m), LengthOf(m) < MaxContent + 2, NEW w \in Content
  PROVE  IsMessage(insert_message_word(m, w))
<1> DEFINE l == LengthOf(m)  n == MaxLength(m)
           room == IF l = n THEN increase_message_memory(m, 2 * n) ELSE m
           h == SetWord(room, l + 1, w)  r == SetWord(h, 1, l + 1)
<1>1. /\ m \in Seq(Byte) /\ n \in Nat /\ n >= 2 /\ Len(m) = n * WordBytes /\ l <= n
      /\ \A j \in 1 .. n : j * WordBytes <= Len(m) /\ WordAt(m, j) \in Word
  BY MemoryWords DEF IsMessage
<1>2. /\ l \in 2 .. MaxContent + 2 /\ WordAt(m, 2) \in Types
      /\ \A j \in 3 .. l : WordAt(m, j) \in Content /\ l < MaxContent + 2
  BY DEF IsMessage, TypeOf
<1>3. w \in Word /\ l + 1 \in Word /\ MaxContent \in Nat /\ l = WordAt(m, 1)
  BY <1>2, SocketAssumption DEF Word, LengthOf
<1>4. insert_message_word(m, w) = r
  BY DEF insert_message_word
<1> HIDE DEF l, n
<1>5. /\ room \in Seq(Byte)
      /\ \E k \in Nat : k >= l + 1 /\ k >= n /\ Len(room) = k * WordBytes
      /\ \A i \in 1 .. Len(m) : room[i] = m[i]
  <2>1. CASE l = n
    <3>1. 2 * n \in Nat /\ n <= 2 * n /\ 2 * n >= l + 1
      BY <1>1, <2>1
    <3>2. /\ increase_message_memory(m, 2 * n) \in Seq(Byte)
          /\ Len(increase_message_memory(m, 2 * n)) = (2 * n) * WordBytes
          /\ \A i \in 1 .. Len(m) : increase_message_memory(m, 2 * n)[i] = m[i]
      BY <1>1, <3>1, MemoryGrown
    <3>3. room = increase_message_memory(m, 2 * n)
      BY <2>1
    <3> HIDE DEF room
    <3> QED BY <3>1, <3>2, <3>3
  <2>2. CASE l # n
    <3>1. n >= l + 1 /\ room = m
      BY <1>1, <1>2, <2>2
    <3> HIDE DEF room
    <3> QED BY <1>1, <3>1
  <2> QED BY <2>1, <2>2
<1> HIDE DEF room
<1>6. PICK k \in Nat : k >= l + 1 /\ k >= n /\ Len(room) = k * WordBytes
  BY <1>5
<1>7. \A j \in 1 .. k : j * WordBytes <= Len(room)
  BY <1>6, Products
<1>8. \A j \in 1 .. n : WordAt(room, j) = WordAt(m, j)
  <2> TAKE j \in 1 .. n
  <2> DEFINE p == (j - 1) * WordBytes  q == j * WordBytes
  <2>1. p \in Nat /\ q \in Nat /\ q <= Len(m)
    BY <1>1, WordRange
  <2>2. (j - 1) * WordBytes = p /\ j * WordBytes = q
    OBVIOUS
  <2> HIDE DEF p, q
  <2>3. \A i \in p + 1 .. q : room[i] = m[i]
    BY <1>5, <2>1
  <2> QED BY <1>1, <1>5, <2>2, <2>3, SameWord
<1>9. /\ h \in Seq(Byte) /\ Len(h) = Len(room) /\ WordAt(h, l + 1) = w
      /\ \A j \in 1 .. l : WordAt(h, j) = WordAt(m, j)
  <2>1. l + 1 \in Nat \ {0} /\ (l + 1) * WordBytes <= Len(room)
    BY <1>2, <1>6, <1>7
  <2>2. h \in Seq(Byte) /\ Len(h) = Len(room) /\ WordAt(h, l + 1) = w
    BY <1>3, <1>5, <2>1, SetWordMeans
  <2>3. \A j \in 1 .. l : WordAt(h, j) = WordAt(room, j)
    <3> TAKE j \in 1 .. l
    <3>1. j \in Nat \ {0} /\ j # l + 1 /\ j * WordBytes <= Len(room)
      BY <1>1, <1>2, <1>6, <1>7
    <3> QED BY <1>3, <1>5, <2>1, <3>1, SetWordKeeps
  <2>4. \A j \in 1 .. l : WordAt(room, j) = WordAt(m, j)
    BY <1>1, <1>2, <1>8
  <2> QED BY <2>2, <2>3, <2>4
<1> HIDE DEF h
<1>10. /\ r \in Seq(Byte) /\ Len(r) = Len(room) /\ WordAt(r, 1) = l + 1
       /\ \A j \in 2 .. l + 1 : WordAt(r, j) = WordAt(h, j)
  <2>0. 1 \in 1 .. k /\ 1 * WordBytes = WordBytes
    BY <1>1, <1>6, One
  <2>1. 1 * WordBytes <= Len(h) /\ WordBytes <= Len(h)
    BY <1>7, <1>9, <2>0
  <2>2. r \in Seq(Byte) /\ Len(r) = Len(room) /\ WordAt(r, 1) = l + 1
    BY <1>3, <1>9, <2>1, SetFirst
  <2>3. \A j \in 2 .. l + 1 : WordAt(r, j) = WordAt(h, j)
    <3> TAKE j \in 2 .. l + 1
    <3>1. j \in Nat \ {0} /\ j # 1 /\ j * WordBytes <= Len(h)
      BY <1>2, <1>6, <1>7, <1>9
    <3> QED BY <1>3, <1>9, <2>1, <3>1, SetWordKeeps
  <2> QED BY <2>2, <2>3
<1> HIDE DEF r
<1>11. IsMemory(r)
  BY <1>1, <1>2, <1>6, <1>10 DEF IsMemory, LengthOf
<1>12. LengthOf(r) \in 2 .. MaxContent + 2
  BY <1>2, <1>3, <1>10 DEF LengthOf
<1>13. TypeOf(r) \in Types
  BY <1>2, <1>9, <1>10 DEF TypeOf
<1>14. \A j \in 3 .. LengthOf(r) : WordAt(r, j) \in Content
  <2> TAKE j \in 3 .. LengthOf(r)
  <2>1. j \in 3 .. l + 1
    BY <1>10 DEF LengthOf
  <2>2. CASE j = l + 1
    BY <1>2, <1>9, <1>10, <2>1, <2>2
  <2>3. CASE j \in 3 .. l
    BY <1>2, <1>9, <1>10, <2>1, <2>3
  <2> QED BY <1>2, <2>1, <2>2, <2>3
<1> QED BY <1>4, <1>11, <1>12, <1>13, <1>14 DEF IsMessage

LEMMA WordsOfMessage ==
  ASSUME NEW m, IsMessage(m)
  PROVE  Words(m) \in Messages
<1> DEFINE n == LengthOf(m) - 1
<1>1. n \in 1 .. MaxContent + 1 /\ n \in Nat
  BY SocketAssumption DEF IsMessage
<1>2. \A j \in 1 .. n : WordAt(m, j + 1) \in Types \cup Content
  <2> TAKE j \in 1 .. n
  <2>1. CASE j = 1
    BY <2>1 DEF IsMessage, TypeOf
  <2>2. CASE j # 1
    <3>1. j + 1 \in 3 .. LengthOf(m)
      BY <1>1, <2>2 DEF IsMessage
    <3> QED BY <3>1 DEF IsMessage
  <2> QED BY <2>1, <2>2
<1>3. Words(m) \in [1 .. n -> Types \cup Content]
  BY <1>2 DEF Words
<1> HIDE DEF n
<1> QED BY <1>1, <1>3 DEF Messages
-----------------------------------------------------------------------------
(* The stream.  M[1], M[2], ... are the memories of the messages written,  *)
(* the last of them perhaps in part, and b[k] is the number of bytes that  *)
(* have been written up to the end of M[k].                                *)

Partial(s) == IF s.left > 0 THEN Size(s.memory) - s.left ELSE 0

Consumed(r) ==
  IF r.pc = "length" THEN Len(r.head)
  ELSE IF r.pc \in {"body", "success"} THEN Size(r.memory) - r.left ELSE 0

Ends(b, K) ==
  /\ b \in [Nat -> Nat] /\ b[0] = 0
  /\ \A j, k \in 0 .. K + 1 : j <= k => b[j] <= b[k]

Written(b, M, said) ==
  /\ M \in [Nat -> Seq(Byte)]
  /\ \A k \in 1 .. Len(said) :
       b[k] = b[k - 1] + Size(M[k]) /\ IsMessage(M[k]) /\ said[k] = Words(M[k])

BeingWritten(b, M, K, s) ==
  b[K + 1] = b[K] + Partial(s) /\ (Partial(s) > 0 => M[K + 1] = s.memory)

(* The wire holds what has been written and not read yet *)
Carries(w, b, M, K, read) ==
  /\ Len(w) = b[K + 1] - read
  /\ \A k \in 1 .. K + 1 : \A i \in 1 .. b[k] - b[k - 1] :
       b[k - 1] + i > read => w[b[k - 1] + i - read] = M[k][i]

(* What the receiver has read so far is of the message m *)
Consistent(r, m) ==
  /\ r.pc = "length" => \A i \in 1 .. Len(r.head) : r.head[i] = m[i]
  /\ r.pc \in {"body", "success"} =>
       /\ LengthOf(r.memory) = LengthOf(m)
       /\ \A i \in 1 .. Consumed(r) : r.memory[i] = m[i]

(* The bytes c of message m come next *)
Continues(c, m, b, M, K) ==
  /\ b[K + 1] > b[K] => M[K + 1] = m
  /\ \A x \in 1 .. Len(c) : c[x] = m[b[K + 1] - b[K] + x]

LEMMA CarriesRead ==
  ASSUME NEW w \in Seq(Byte), NEW K \in Nat, NEW b, NEW M, Ends(b, K),
         NEW read \in Nat, Carries(w, b, M, K, read), NEW n \in 1 .. Len(w)
  PROVE  /\ SubSeq(w, n + 1, Len(w)) \in Seq(Byte)
         /\ Len(SubSeq(w, n + 1, Len(w))) = Len(w) - n
         /\ SubSeq(w, 1, n) \in Seq(Byte) /\ Len(SubSeq(w, 1, n)) = n
         /\ \A i \in 1 .. n : SubSeq(w, 1, n)[i] = w[i]
         /\ Carries(SubSeq(w, n + 1, Len(w)), b, M, K, read + n)
<1> DEFINE len == Len(w)  v == SubSeq(w, n + 1, len)  J == K + 1
<1>1. len \in Nat /\ n \in Nat /\ n <= len /\ \A i \in 1 .. len : w[i] \in Byte
  OBVIOUS
<1>2. v \in Seq(Byte) /\ Len(v) = len - n /\ \A i \in 1 .. len - n : v[i] = w[n + i]
  <2>1. n + 1 \in Int /\ len \in Int /\ \A i \in n + 1 .. len : w[i] \in Byte
    BY <1>1
  <2>2. /\ v \in Seq(Byte) /\ Len(v) = IF n + 1 <= len THEN len - (n + 1) + 1 ELSE 0
        /\ \A i \in 1 .. len - (n + 1) + 1 : v[i] = w[n + 1 + i - 1]
    BY <2>1, SubSeqProperties
  <2> HIDE DEF v, len
  <2>3. \A i \in 1 .. len - n : v[i] = w[n + i]
    <3> TAKE i \in 1 .. len - n
    <3>1. i \in 1 .. len - (n + 1) + 1 /\ n + 1 + i - 1 = n + i
      BY <1>1
    <3> QED BY <2>2, <3>1
  <2> QED BY <1>1, <2>2, <2>3
<1>3. /\ SubSeq(w, 1, n) \in Seq(Byte) /\ Len(SubSeq(w, 1, n)) = n
      /\ \A i \in 1 .. n : SubSeq(w, 1, n)[i] = w[i]
  <2>1. 1 \in Int /\ n \in Int /\ \A i \in 1 .. n : w[i] \in Byte
    BY <1>1
  <2>2. /\ SubSeq(w, 1, n) \in Seq(Byte) /\ Len(SubSeq(w, 1, n)) = IF 1 <= n THEN n - 1 + 1 ELSE 0
        /\ \A i \in 1 .. n - 1 + 1 : SubSeq(w, 1, n)[i] = w[1 + i - 1]
    BY <2>1, SubSeqProperties
  <2>3. \A i \in 1 .. n : i \in 1 .. n - 1 + 1 /\ 1 + i - 1 = i
    BY <1>1
  <2> QED BY <1>1, <2>2, <2>3
<1>4. /\ len = b[J] - read
      /\ \A k \in 1 .. J : \A i \in 1 .. b[k] - b[k - 1] :
           b[k - 1] + i > read => w[b[k - 1] + i - read] = M[k][i]
  BY DEF Carries
<1>5. /\ \A k \in 1 .. J : b[k] \in Nat /\ b[k - 1] \in Nat /\ b[k] <= b[J]
      /\ b[J] \in Nat
  <2>1. J \in Nat /\ J \in 0 .. J
    OBVIOUS
  <2>2. \A j, k \in 0 .. J : j <= k => b[j] <= b[k]
    BY DEF Ends
  <2>3. \A k \in Nat : b[k] \in Nat
    BY DEF Ends
  <2> HIDE DEF J
  <2>4. ASSUME NEW k \in 1 .. J PROVE b[k] \in Nat /\ b[k - 1] \in Nat /\ b[k] <= b[J]
    <3>1. k \in 0 .. J /\ k <= J /\ k \in Nat /\ k - 1 \in Nat
      BY <2>1
    <3> QED BY <2>1, <2>2, <2>3, <3>1
  <2> QED BY <2>1, <2>3, <2>4
<1>a. SubSeq(w, n + 1, Len(w)) = v /\ Len(w) = len /\ K + 1 = J
  OBVIOUS
<1> HIDE DEF v, len, J
<1>6. ASSUME NEW k \in 1 .. J, NEW i \in 1 .. b[k] - b[k - 1], b[k - 1] + i > read + n
      PROVE  v[b[k - 1] + i - (read + n)] = M[k][i]
  <2> DEFINE f == b[k - 1]  g == b[k]  h == b[J]
  <2>1. g \in Nat /\ f \in Nat /\ g <= h /\ h \in Nat /\ i \in 1 .. g - f /\ f + i > read + n
        /\ len = h - read
    BY <1>4, <1>5, <1>6
  <2>2. ASSUME f + i > read PROVE w[f + i - read] = M[k][i]
    BY <1>4, <2>2
  <2> HIDE DEF f, g, h
  <2>3. f + i - (read + n) \in 1 .. len - n /\ n + (f + i - (read + n)) = f + i - read /\ f + i > read
    BY <1>1, <2>1
  <2>4. v[f + i - (read + n)] = w[f + i - read]
    BY <1>2, <2>3
  <2>5. v[f + i - (read + n)] = M[k][i]
    BY <2>2, <2>3, <2>4
  <2> QED BY <2>5 DEF f
<1>7. Len(v) = b[J] - (read + n)
  <2> DEFINE h == b[J]
  <2>1. h \in Nat /\ len = h - read
    BY <1>4, <1>5
  <2> HIDE DEF h
  <2>2. Len(v) = h - (read + n)
    BY <1>1, <1>2, <2>1
  <2> QED BY <2>2 DEF h
<1>8. Carries(v, b, M, K, read + n)
  BY <1>a, <1>6, <1>7 DEF Carries
<1> QED BY <1>a, <1>2, <1>3, <1>8

(* The next bytes of m, the message that is being written *)
LEMMA CarriesWritten ==
  ASSUME NEW w \in Seq(Byte), NEW c \in Seq(Byte), NEW m \in Seq(Byte), NEW K \in Nat,
         NEW b, NEW M \in [Nat -> Seq(Byte)], Ends(b, K),
         NEW read \in Nat, Carries(w, b, M, K, read), Continues(c, m, b, M, K)
  PROVE  LET e == [b EXCEPT ![K + 1] = b[K + 1] + Len(c)]
             L == [M EXCEPT ![K + 1] = m]
         IN Ends(e, K) /\ Carries(w \o c, e, L, K, read) /\ L \in [Nat -> Seq(Byte)]
<1> DEFINE J == K + 1  h == b[J]  len == Len(w)  n == Len(c)  v == w \o c
           e == [b EXCEPT ![J] = h + n]  L == [M EXCEPT ![J] = m]
<1>1. J \in Nat /\ K \in Nat /\ K < J /\ J - 1 = K /\ n \in Nat /\ len \in Nat
  <2>1. n \in Nat /\ len \in Nat
    BY LenProperties, Zenon
  <2>2. J \in Nat /\ K < J /\ J - 1 = K
    OBVIOUS
  <2> QED BY <2>1, <2>2
<1>2. /\ Len(v) = len + n /\ \A i \in 1 .. len : v[i] = w[i]
      /\ \A i \in 1 .. n : v[len + i] = c[i]
  <2>1. /\ Len(v) = len + n /\ \A i \in 1 .. len : v[i] = w[i]
        /\ \A i \in len + 1 .. len + n : v[i] = c[i - len]
    OBVIOUS
  <2> HIDE DEF len, n, v
  <2>2. \A i \in 1 .. n : len + i \in len + 1 .. len + n /\ (len + i) - len = i
    BY <1>1
  <2> QED BY <2>1, <2>2
<1>3. b \in [Nat -> Nat] /\ b[0] = 0 /\ \A j, k \in 0 .. J : j <= k => b[j] <= b[k]
  BY DEF Ends
<1>4. len = h - read
  BY DEF Carries
<1>5. /\ h > b[K] => M[J] = m
      /\ \A x \in 1 .. n : c[x] = m[h - b[K] + x]
  BY DEF Continues
<1>6. \A k \in 1 .. J : \A i \in 1 .. b[k] - b[k - 1] :
        b[k - 1] + i > read => w[b[k - 1] + i - read] = M[k][i]
  BY DEF Carries
<1>a. K + 1 = J /\ b[K + 1] = h /\ Len(c) = n /\ w \o c = v
  OBVIOUS
<1> HIDE DEF J, n, len, v
<1>7. h \in Nat /\ \A k \in Nat : b[k] \in Nat
  BY <1>1, <1>3
<1> HIDE DEF h
<1>8. h + n \in Nat
  BY <1>1, <1>7
<1>9. e \in [Nat -> Nat] /\ e[J] = h + n /\ \A k \in Nat : k # J => e[k] = b[k]
  BY <1>1, <1>3, <1>8
<1>10. L \in [Nat -> Seq(Byte)] /\ L[J] = m /\ \A k \in Nat : k # J => L[k] = M[k]
  BY <1>1
<1>b. e = [b EXCEPT ![J] = h + n] /\ L = [M EXCEPT ![J] = m]
  OBVIOUS
<1> HIDE DEF e, L
<1>11. ASSUME NEW k \in 0 .. J PROVE k \in Nat /\ b[k] \in Nat /\ b[k] <= h /\ k <= J
  <2>1. k \in Nat /\ k <= J /\ J \in 0 .. J
    BY <1>1
  <2>2. b[k] <= b[J]
    BY <1>3, <2>1
  <2> QED BY <1>7, <2>1, <2>2 DEF h
<1>12. Ends(e, K)
  <2>1. ASSUME NEW j \in 0 .. J, NEW k \in 0 .. J, j <= k PROVE e[j] <= e[k]
    <3> DEFINE p == b[j]  q == b[k]
    <3>1. p \in Nat /\ q \in Nat /\ p <= q /\ p <= h /\ j \in Nat /\ k \in Nat /\ k <= J
      BY <1>3, <1>11, <2>1
    <3>3. j # J => e[j] = p
      BY <1>9, <3>1
    <3> HIDE DEF p, q
    <3>4. CASE k # J
      <4>1. j # J
        BY <1>1, <2>1, <3>1, <3>4
      <4>2. e[k] = q /\ e[j] = p
        BY <1>9, <3>1, <3>4, <4>1 DEF p, q
      <4> QED BY <3>1, <4>2
    <3>5. CASE k = J /\ j # J
      <4>1. e[k] = h + n /\ e[j] = p
        BY <1>9, <3>3, <3>5
      <4>2. p <= h + n
        BY <1>1, <1>7, <3>1
      <4> QED BY <4>1, <4>2
    <3>6. CASE k = J /\ j = J
      <4>1. e[k] = e[j] /\ e[j] = h + n
        BY <1>9, <3>6
      <4> QED BY <1>8, <4>1
    <3> QED BY <3>4, <3>5, <3>6
  <2>2. e[0] = 0
    <3>1. 0 # J /\ 0 \in Nat
      BY <1>1
    <3> QED BY <1>3, <1>9, <3>1
  <2> QED BY <1>a, <1>9, <2>1, <2>2 DEF Ends
<1>13. Len(v) = e[J] - read
  BY <1>1, <1>2, <1>4, <1>7, <1>9
<1>14. ASSUME NEW k \in 1 .. J, NEW i \in 1 .. e[k] - e[k - 1], e[k - 1] + i > read
       PROVE  v[e[k - 1] + i - read] = L[k][i]
  <2> DEFINE f == b[k - 1]  g == b[k]
  <2>1. k \in 0 .. J /\ k - 1 \in 0 .. J /\ k - 1 \in Nat /\ k - 1 # J /\ k - 1 <= k
    BY <1>1
  <2>2. f \in Nat /\ g \in Nat /\ f <= g /\ g <= h /\ k \in Nat /\ e[k - 1] = f
    BY <1>3, <1>9, <1>11, <2>1
  <2>3. ASSUME i \in 1 .. g - f, f + i > read PROVE w[f + i - read] = M[k][i]
    BY <1>6, <2>3
  <2>4. k # J => e[k] = g /\ L[k] = M[k]
    BY <1>9, <1>10, <2>2
  <2>5. k = J => k - 1 = K /\ f = b[K] /\ g = h
    BY <1>1 DEF h
  <2>6. i \in 1 .. e[k] - f /\ f + i > read
    BY <1>14, <2>2
  <2>b. PICK d \in Nat : d = e[k]
    BY <1>9, <2>2
  <2>c. i \in 1 .. d - f
    BY <2>6, <2>b
  <2> SUFFICES v[f + i - read] = L[k][i]
    BY <2>2
  <2> HIDE DEF f, g
  <2>a. e[k] \in Int /\ i \in Nat /\ i >= 1
    BY <1>9, <2>2, <2>6
  <2>7. CASE i <= g - f
    <3>1. i \in 1 .. g - f /\ f + i - read \in 1 .. len
      BY <1>4, <1>7, <2>2, <2>6, <2>7, <2>a
    <3>2. w[f + i - read] = M[k][i]
      BY <2>3, <2>6, <3>1
    <3>3. v[f + i - read] = w[f + i - read]
      BY <1>2, <3>1
    <3>4. M[k] = L[k]
      <4>1. CASE k = J
        <5>1. h > b[K]
          <6>1. g > f
            BY <2>2, <2>7, <2>a
          <6> QED BY <2>5, <4>1, <6>1
        <5> QED BY <1>5, <1>10, <4>1, <5>1
      <4> QED BY <2>4, <4>1
    <3> QED BY <3>2, <3>3, <3>4
  <2>8. CASE ~ (i <= g - f)
    <3>1. k = J
      <4>1. ASSUME k # J PROVE FALSE
        <5>1. e[k] = g
          BY <2>4, <4>1
        <5> QED BY <2>2, <2>6, <2>8, <2>a, <5>1
      <4> QED BY <4>1
    <3>2. e[k] = h + n /\ f = b[K] /\ g = h /\ L[k] = m
      BY <1>9, <1>10, <2>5, <3>1
    <3> DEFINE x == i - (h - f)
    <3>a. i \in Nat /\ i >= 1 /\ i <= h + n - f /\ ~ (i <= h - f)
      <4>1. d = h + n
        BY <2>b, <3>2
      <4>2. f \in Nat /\ d \in Nat
        BY <2>2, <2>b
      <4>3. i \in Nat /\ i >= 1 /\ i <= d - f
        BY <2>a, <2>c, <4>2
      <4>4. i <= h + n - f
        BY <1>1, <1>7, <4>1, <4>2, <4>3
      <4>5. ~ (i <= h - f)
        BY <2>8, <3>2
      <4> QED BY <4>3, <4>4, <4>5
    <3>3. x \in 1 .. n /\ i = h - f + x /\ f + i - read = len + x
      BY <1>1, <1>4, <1>7, <2>2, <3>a
    <3> HIDE DEF x
    <3>4. v[len + x] = c[x] /\ c[x] = m[h - f + x]
      BY <1>2, <1>5, <3>2, <3>3
    <3> QED BY <3>2, <3>3, <3>4
  <2> QED BY <2>7, <2>8
<1>15. Carries(v, e, L, K, read)
  BY <1>a, <1>13, <1>14 DEF Carries
<1> QED BY <1>a, <1>b, <1>10, <1>12, <1>15

(* The message that was being written is written *)
LEMMA CarriesNext ==
  ASSUME NEW w, NEW K \in Nat, NEW b \in [Nat -> Nat], NEW M, Ends(b, K),
         NEW read \in Nat, Carries(w, b, M, K, read)
  PROVE  LET e == [b EXCEPT ![K + 2] = b[K + 1]]
         IN Ends(e, K + 1) /\ Carries(w, e, M, K + 1, read)
<1> DEFINE e == [b EXCEPT ![K + 2] = b[K + 1]]
<1>1. e \in [Nat -> Nat] /\ e[K + 2] = b[K + 1] /\ \A k \in Nat : k # K + 2 => e[k] = b[k]
  OBVIOUS
<1> HIDE DEF e
<1>2. /\ b[0] = 0 /\ \A k \in Nat : b[k] \in Nat
      /\ \A j, k \in 0 .. K + 1 : j <= k => b[j] <= b[k]
  BY DEF Ends
<1>3. \A k \in 0 .. K + 1 : e[k] = b[k] /\ b[k] <= b[K + 1]
  BY <1>1, <1>2
<1>4. Ends(e, K + 1)
  <2>1. ASSUME NEW j \in 0 .. (K + 1) + 1, NEW k \in 0 .. (K + 1) + 1, j <= k PROVE e[j] <= e[k]
    <3>1. CASE k = K + 2
      <4>1. CASE j = K + 2
        BY <1>1, <1>2, <3>1, <4>1
      <4>2. CASE j # K + 2
        BY <1>1, <1>3, <3>1, <4>2
      <4> QED BY <4>1, <4>2
    <3>2. CASE k # K + 2
      BY <1>2, <1>3, <2>1, <3>2
    <3> QED BY <3>1, <3>2
  <2>2. e[0] = 0
    BY <1>2, <1>3
  <2> QED BY <1>1, <2>1, <2>2 DEF Ends
<1>5. Len(w) = e[(K + 1) + 1] - read
  BY <1>1 DEF Carries
<1>6. ASSUME NEW k \in 1 .. (K + 1) + 1, NEW i \in 1 .. e[k] - e[k - 1], e[k - 1] + i > read
      PROVE  w[e[k - 1] + i - read] = M[k][i]
  <2>1. k # K + 2
    <3>1. CASE k = K + 2
      <4>1. e[k] = b[K + 1] /\ e[k - 1] = b[K + 1] /\ b[K + 1] \in Nat
        BY <1>1, <1>2, <1>3, <3>1
      <4> QED BY <4>1
    <3> QED BY <3>1
  <2>2. k \in 1 .. K + 1 /\ e[k] = b[k] /\ e[k - 1] = b[k - 1]
    BY <1>3, <2>1
  <2> QED BY <1>6, <2>2 DEF Carries
<1> QED BY <1>4, <1>5, <1>6 DEF Carries, e
-----------------------------------------------------------------------------
(* The invariant                                                           *)

SenderOK(s) ==
  /\ s \in [pc : {"idle", "build", "write", "closed"}, memory : Seq(Byte), left : Nat]
  /\ IsMemory(s.memory)
  /\ s.pc \in {"build", "write"} \/ s.left > 0 => IsMessage(s.memory)
  /\ s.left <= Size(s.memory)
  /\ s.pc \in {"idle", "build"} => s.left = 0
  /\ s.pc = "write" => s.left > 0

(* What has not arrived of a message is what was there before              *)
ReceiverOK(r) ==
  /\ r \in [pc : {"idle", "length", "body", "success", "failure", "closed"},
            memory : Seq(Byte), head : Seq(Byte), left : Nat]
  /\ IsMemory(r.memory)
  /\ r.pc = "length" => Len(r.head) < WordBytes
  /\ r.pc = "body" => r.left \in 1 .. Size(r.memory) - WordBytes
  /\ r.pc = "success" => r.left = 0 /\ LengthOf(r.memory) >= 2
  /\ r.pc \in {"length", "body", "success"} => Leftover(r.memory, Consumed(r))

HistoryInv ==
  /\ wire \in Seq(Byte) /\ Len(wire) <= Capacity
  /\ built \in Nat /\ built <= MaxMessages
  /\ sent \in Seq(Messages) /\ received \in Seq(Messages)
  /\ Len(received) <= Len(sent)
  /\ \A k \in 1 .. Len(received) : received[k] = sent[k]

Stream(b, M) ==
  /\ Ends(b, Len(sent)) /\ Written(b, M, sent)
  /\ BeingWritten(b, M, Len(sent), sender)
  /\ Carries(wire, b, M, Len(sent), b[Len(received)] + Consumed(receiver))
  /\ Consistent(receiver, M[Len(received) + 1])

(* The sender is gone and nothing is left to receive                       *)
Drained ==
  /\ ~ SenderOpen /\ wire = <<>> /\ received = sent
  /\ receiver.pc \in {"idle", "length", "failure"}
  /\ receiver.pc = "length" => receiver.head = <<>>

StreamInv == receiver.pc = "closed" \/ Drained \/ \E b, M : Stream(b, M)

FailInv == receiver.pc = "failure" => Drained /\ CutReadsAsPrefix

SocketInv ==
  SenderOK(sender) /\ ReceiverOK(receiver) /\ HistoryInv /\ StreamInv /\ FailInv

-----------------------------------------------------------------------------
(* The steps of the sender                                                 *)

LEMMA InitHolds == Init => SocketInv
<1> SUFFICES ASSUME Init PROVE SocketInv
  OBVIOUS
<1> DEFINE z == network_message_init
<1>1. IsMemory(z) /\ z \in Seq(Byte) /\ Size(z) \in Nat
  BY NewMemory, MemoryWords DEF IsMemory
<1>2. /\ sender = [pc |-> "idle", memory |-> z, left |-> 0]
      /\ receiver = [pc |-> "idle", memory |-> z, head |-> <<>>, left |-> 0]
      /\ wire = <<>> /\ sent = <<>> /\ received = <<>> /\ built = 0
  BY DEF Init
<1> HIDE DEF z
<1>3. SenderOK(sender)
  BY <1>1, <1>2 DEF SenderOK
<1>4. ReceiverOK(receiver)
  BY <1>1, <1>2 DEF ReceiverOK
<1>5. HistoryInv
  BY <1>2, SocketAssumption DEF HistoryInv
<1>6. StreamInv
  <2> DEFINE b == [k \in Nat |-> 0]  M == [k \in Nat |-> z]
  <2>1. Partial(sender) = 0 /\ Consumed(receiver) = 0
    BY <1>2 DEF Partial, Consumed
  <2>2. b \in [Nat -> Nat] /\ M \in [Nat -> Seq(Byte)] /\ \A k \in Nat : b[k] = 0
    BY <1>1
  <2> HIDE DEF b, M
  <2>3. Len(sent) = 0 /\ Len(received) = 0 /\ Len(wire) = 0
    BY <1>2
  <2>4. Ends(b, 0)
    BY <2>2 DEF Ends
  <2>5. Written(b, M, sent)
    BY <2>2, <2>3 DEF Written
  <2>6. BeingWritten(b, M, 0, sender)
    BY <2>1, <2>2 DEF BeingWritten
  <2>7. Carries(wire, b, M, 0, b[0] + 0)
    <3>1. Len(wire) = b[0 + 1] - (b[0] + 0)
      BY <2>2, <2>3
    <3>2. ASSUME NEW k \in 1 .. 0 + 1 PROVE 1 .. b[k] - b[k - 1] = {}
      BY <2>2
    <3> QED BY <3>1, <3>2 DEF Carries
  <2>8. Consistent(receiver, M[0 + 1])
    BY <1>2 DEF Consistent
  <2>9. Stream(b, M)
    BY <2>1, <2>3, <2>4, <2>5, <2>6, <2>7, <2>8 DEF Stream
  <2> QED BY <2>9 DEF StreamInv
<1>7. FailInv
  BY <1>2 DEF FailInv
<1> QED BY <1>3, <1>4, <1>5, <1>6, <1>7 DEF SocketInv

(* A step of the sender that puts nothing on the wire                      *)
LEMMA NothingWritten ==
  ASSUME SocketInv, SenderOpen, UNCHANGED <<wire, receiver, sent, received>>,
         Partial(sender') = Partial(sender),
         Partial(sender) > 0 => sender'.memory = sender.memory,
         SenderOK(sender'), built' \in Nat, built' <= MaxMessages
  PROVE  SocketInv'
<1>1. ReceiverOK(receiver')
  BY DEF SocketInv
<1>2. HistoryInv'
  BY DEF SocketInv, HistoryInv
<1>3. ~ Drained /\ receiver.pc # "failure"
  BY DEF SocketInv, FailInv, Drained
<1>4. FailInv'
  BY <1>3 DEF FailInv
<1>5. StreamInv'
  <2>1. CASE receiver.pc = "closed"
    BY <2>1 DEF StreamInv
  <2>2. CASE receiver.pc # "closed"
    <3>1. PICK b, M : Stream(b, M)
      BY <1>3, <2>2 DEF SocketInv, StreamInv
    <3>2. BeingWritten(b, M, Len(sent'), sender')
      BY <3>1 DEF Stream, BeingWritten
    <3>3. Stream(b, M)'
      BY <3>1, <3>2 DEF Stream
    <3> QED BY <3>3 DEF StreamInv
  <2> QED BY <2>1, <2>2
<1> QED BY <1>1, <1>2, <1>4, <1>5 DEF SocketInv

LEMMA MessageSize ==
  ASSUME NEW m, IsMessage(m)
  PROVE  IsMemory(m) /\ m \in Seq(Byte) /\ Size(m) \in Nat /\ Size(m) <= Len(m)
         /\ LengthOf(m) >= 2 /\ LengthOf(m) \in Nat /\ LengthOf(m) \in Word
         /\ WordBytes + WordBytes <= Size(m) /\ WordBytes \in Nat \ {0}
<1>1. IsMemory(m) /\ LengthOf(m) \in 2 .. MaxContent + 2
  BY DEF IsMessage
<1>2. LengthOf(m) >= 2 /\ LengthOf(m) \in Nat
  BY <1>1, SocketAssumption
<1>3. 2 * WordBytes <= Size(m)
  BY <1>2, Products DEF Size
<1> QED BY <1>1, <1>2, <1>3, MemoryWords, One, SocketAssumption

LEMMA SenderQuiet ==
  ASSUME SocketInv,
         \/ \E type \in Types : BuildHead(type)
         \/ \E word \in Content : InsertWord(word)
         \/ BeginSend
         \/ SenderEnds
  PROVE  SocketInv'
<1>0. /\ SenderOK(sender) /\ built \in Nat /\ built <= MaxMessages /\ MaxMessages \in Nat
      /\ sender \in [pc : {"idle", "build", "write", "closed"}, memory : Seq(Byte), left : Nat]
  BY SocketAssumption DEF SocketInv, SenderOK, HistoryInv
<1>1. ASSUME NEW type \in Types, BuildHead(type) PROVE SocketInv'
  <2> DEFINE m == build_message_head(network_message_init, type)
  <2>1. /\ sender.pc = "idle" /\ built < MaxMessages /\ built' = built + 1
        /\ sender' = [sender EXCEPT !.pc = "build", !.memory = m]
        /\ UNCHANGED <<wire, receiver, sent, received>>
    BY <1>1 DEF BuildHead
  <2>2. IsMessage(m)
    BY HeadBuilt
  <2> HIDE DEF m
  <2>3. IsMemory(m) /\ m \in Seq(Byte) /\ Size(m) \in Nat
    BY <2>2, MessageSize
  <2>4. sender.left = 0
    BY <1>0, <2>1 DEF SenderOK
  <2>5. sender'.pc = "build" /\ sender'.memory = m /\ sender'.left = 0
        /\ sender' \in [pc : {"idle", "build", "write", "closed"}, memory : Seq(Byte), left : Nat]
    BY <1>0, <2>1, <2>3, <2>4
  <2>6. SenderOK(sender')
    BY <2>2, <2>3, <2>5 DEF SenderOK
  <2>7. Partial(sender) = 0 /\ Partial(sender') = 0
    BY <2>4, <2>5 DEF Partial
  <2>8. built' \in Nat /\ built' <= MaxMessages
    BY <1>0, <2>1
  <2>9. SenderOpen
    BY <2>1 DEF SenderOpen
  <2> QED BY <2>1, <2>6, <2>7, <2>8, <2>9, NothingWritten
<1>2. ASSUME NEW word \in Content, InsertWord(word) PROVE SocketInv'
  <2> DEFINE m == insert_message_word(sender.memory, word)
  <2>1. /\ sender.pc = "build" /\ LengthOf(sender.memory) < MaxContent + 2 /\ built' = built
        /\ sender' = [sender EXCEPT !.memory = m]
        /\ UNCHANGED <<wire, receiver, sent, received>>
    BY <1>2 DEF InsertWord
  <2>2. IsMessage(m)
    <3>1. IsMessage(sender.memory)
      BY <1>0, <2>1 DEF SenderOK
    <3> QED BY <2>1, <3>1, WordInserted
  <2> HIDE DEF m
  <2>3. IsMemory(m) /\ m \in Seq(Byte) /\ Size(m) \in Nat
    BY <2>2, MessageSize
  <2>4. sender.left = 0
    BY <1>0, <2>1 DEF SenderOK
  <2>5. sender'.pc = "build" /\ sender'.memory = m /\ sender'.left = 0
        /\ sender' \in [pc : {"idle", "build", "write", "closed"}, memory : Seq(Byte), left : Nat]
    BY <1>0, <2>1, <2>3, <2>4
  <2>6. SenderOK(sender')
    BY <2>2, <2>3, <2>5 DEF SenderOK
  <2>7. Partial(sender) = 0 /\ Partial(sender') = 0
    BY <2>4, <2>5 DEF Partial
  <2>8. built' \in Nat /\ built' <= MaxMessages
    BY <1>0, <2>1
  <2>9. SenderOpen
    BY <2>1 DEF SenderOpen
  <2> QED BY <2>1, <2>6, <2>7, <2>8, <2>9, NothingWritten
<1>3. ASSUME BeginSend PROVE SocketInv'
  <2> DEFINE m == sender.memory
  <2>1. /\ sender.pc = "build" /\ built' = built
        /\ sender' = [sender EXCEPT !.pc = "write", !.left = Size(m)]
        /\ UNCHANGED <<wire, receiver, sent, received>>
    BY <1>3 DEF BeginSend, Size
  <2>2. IsMessage(m) /\ sender.left = 0
    BY <1>0, <2>1 DEF SenderOK
  <2>3. IsMemory(m) /\ m \in Seq(Byte) /\ Size(m) \in Nat /\ Size(m) > 0
    <3>1. IsMemory(m) /\ m \in Seq(Byte) /\ Size(m) \in Nat
          /\ WordBytes + WordBytes <= Size(m) /\ WordBytes \in Nat \ {0}
      BY <2>2, MessageSize
    <3> QED BY <3>1
  <2>5. sender'.pc = "write" /\ sender'.memory = m /\ sender'.left = Size(m)
        /\ sender' \in [pc : {"idle", "build", "write", "closed"}, memory : Seq(Byte), left : Nat]
    BY <1>0, <2>1, <2>3
  <2>6. SenderOK(sender')
    BY <2>2, <2>3, <2>5 DEF SenderOK
  <2>7. Partial(sender) = 0 /\ Partial(sender') = 0
    BY <2>2, <2>3, <2>5 DEF Partial
  <2>8. built' \in Nat /\ built' <= MaxMessages
    BY <1>0, <2>1
  <2>9. SenderOpen
    BY <2>1 DEF SenderOpen
  <2> QED BY <2>1, <2>6, <2>7, <2>8, <2>9, NothingWritten
<1>4. ASSUME SenderEnds PROVE SocketInv'
  <2>1. /\ SenderOpen /\ built' = built
        /\ sender' = [sender EXCEPT !.pc = "closed"]
        /\ UNCHANGED <<wire, receiver, sent, received>>
    BY <1>4 DEF SenderEnds
  <2>2. sender'.pc = "closed" /\ sender'.memory = sender.memory /\ sender'.left = sender.left
        /\ sender' \in [pc : {"idle", "build", "write", "closed"}, memory : Seq(Byte), left : Nat]
    BY <1>0, <2>1
  <2>3. SenderOK(sender')
    BY <1>0, <2>2 DEF SenderOK
  <2>4. Partial(sender') = Partial(sender)
    BY <2>2 DEF Partial
  <2>5. built' \in Nat /\ built' <= MaxMessages
    BY <1>0, <2>1
  <2> QED BY <2>1, <2>2, <2>3, <2>4, <2>5, NothingWritten
<1> QED BY <1>1, <1>2, <1>3, <1>4
LEMMA SenderFails == SocketInv /\ WriteFails => SocketInv'
<1> SUFFICES ASSUME SocketInv, WriteFails PROVE SocketInv'
  OBVIOUS
<1>1. /\ sender.pc = "write" /\ receiver.pc = "closed"
      /\ sender' = [sender EXCEPT !.pc = "idle", !.left = 0]
      /\ UNCHANGED <<wire, receiver, sent, received, built>>
  BY DEF WriteFails, ReceiverOpen
<1>2. SenderOK(sender')
  <2>1. /\ sender \in [pc : {"idle", "build", "write", "closed"}, memory : Seq(Byte), left : Nat]
        /\ IsMemory(sender.memory)
    BY DEF SocketInv, SenderOK
  <2>2. sender'.pc = "idle" /\ sender'.memory = sender.memory /\ sender'.left = 0
        /\ sender' \in [pc : {"idle", "build", "write", "closed"}, memory : Seq(Byte), left : Nat]
    BY <1>1, <2>1
  <2>3. Size(sender.memory) \in Nat
    BY <2>1, MemoryWords
  <2> QED BY <2>1, <2>2, <2>3 DEF SenderOK
<1> QED BY <1>1, <1>2 DEF SocketInv, HistoryInv, StreamInv, FailInv

(* Where nothing was read everything agrees *)
LEMMA NothingRead ==
  ASSUME NEW r, NEW m, ReceiverOK(r), Consumed(r) = 0
  PROVE  Consistent(r, m)
<1>1. IsMemory(r.memory) /\ Size(r.memory) \in Nat /\ WordBytes \in Nat \ {0}
      /\ LengthOf(r.memory) \in Nat
  BY MemoryWords, SocketAssumption DEF ReceiverOK
<1>2. r.head \in Seq(Byte) /\ r.left \in Nat
  BY DEF ReceiverOK
<1>3. r.pc # "body"
  <2> SUFFICES ASSUME r.pc = "body" PROVE FALSE
    OBVIOUS
  <2>1. r.left \in 1 .. Size(r.memory) - WordBytes
    BY DEF ReceiverOK
  <2>2. Size(r.memory) - r.left = 0
    BY DEF Consumed
  <2> QED BY <1>1, <2>1, <2>2
<1>4. r.pc # "success"
  <2> SUFFICES ASSUME r.pc = "success" PROVE FALSE
    OBVIOUS
  <2>1. r.left = 0 /\ LengthOf(r.memory) >= 2
    BY DEF ReceiverOK
  <2>2. Size(r.memory) = 0
    BY <1>1, <2>1 DEF Consumed
  <2>3. 2 * WordBytes <= Size(r.memory)
    BY <1>1, <2>1, Products DEF Size
  <2> QED BY <1>1, <2>2, <2>3, One
<1>5. r.pc = "length" => Len(r.head) = 0
  BY DEF Consumed
<1> QED BY <1>2, <1>3, <1>4, <1>5 DEF Consistent

LEMMA ReadSoFar ==
  ASSUME NEW r, ReceiverOK(r)
  PROVE  /\ Consumed(r) \in Nat
         /\ r.pc = "length" => Consumed(r) < WordBytes
         /\ r.pc = "body" => /\ Consumed(r) = Size(r.memory) - r.left /\ WordBytes <= Consumed(r)
                             /\ Consumed(r) < Size(r.memory)
         /\ r.pc = "success" => Consumed(r) = Size(r.memory)
<1>1. Size(r.memory) \in Nat /\ WordBytes \in Nat
  BY MemoryWords, SocketAssumption DEF ReceiverOK
<1>2. r.head \in Seq(Byte) /\ Len(r.head) \in Nat /\ r.left \in Nat
  BY DEF ReceiverOK
<1>3. CASE r.pc = "length"
  BY <1>1, <1>2, <1>3 DEF ReceiverOK, Consumed
<1>4. CASE r.pc = "body"
  <2>1. r.left \in 1 .. Size(r.memory) - WordBytes /\ Consumed(r) = Size(r.memory) - r.left
    BY <1>4 DEF ReceiverOK, Consumed
  <2> QED BY <1>1, <1>2, <1>4, <2>1
<1>5. CASE r.pc = "success"
  <2>1. r.left = 0 /\ Consumed(r) = Size(r.memory) - r.left
    BY <1>5 DEF ReceiverOK, Consumed
  <2> QED BY <1>1, <1>5, <2>1
<1>6. CASE r.pc \notin {"length", "body", "success"}
  <2>1. Consumed(r) = 0
    BY <1>6 DEF Consumed
  <2> QED BY <1>6, <2>1
<1> QED BY <1>3, <1>4, <1>5, <1>6

(* The bytes that a write takes *)
LEMMA Chunk ==
  ASSUME SenderOK(sender), sender.left > 0, NEW n \in Nat \ {0}, n <= sender.left
  PROVE  LET c == SubSeq(Unwritten, 1, n) IN
         /\ c \in Seq(Byte) /\ Len(c) = n
         /\ \A x \in 1 .. n : c[x] = sender.memory[Size(sender.memory) - sender.left + x]
<1> DEFINE m == sender.memory  size == Size(m)  left == sender.left
           u == Unwritten  c == SubSeq(u, 1, n)  f == size - left
<1>1. /\ m \in Seq(Byte) /\ size \in Nat /\ size <= Len(m) /\ left \in Nat /\ left <= size
      /\ Len(m) \in Nat
  BY MemoryWords DEF SenderOK
<1>2. u = SubSeq(m, size - left + 1, size)
  BY DEF Unwritten, Size
<1> HIDE DEF size, left, m, u
<1>3. f \in Nat /\ f + 1 \in Int /\ size \in Int /\ f + 1 <= size /\ f + left = size /\ n <= left
      /\ size - left + 1 = f + 1 /\ left >= 1
  BY <1>1 DEF left
<1> HIDE DEF f
<1>4. \A i \in f + 1 .. size : m[i] \in Byte
  BY <1>1, <1>3
<1>5. \A i \in 1 .. left : u[i] = m[f + i] /\ u[i] \in Byte
  <2>1. \A i \in 1 .. size - (f + 1) + 1 : u[i] = m[f + 1 + i - 1]
    BY <1>2, <1>3, <1>4, SubSeqProperties
  <2> TAKE i \in 1 .. left
  <2>2. i \in 1 .. size - (f + 1) + 1 /\ f + 1 + i - 1 = f + i /\ f + i \in f + 1 .. size
    BY <1>1, <1>3
  <2> QED BY <1>4, <2>1, <2>2
<1>6. /\ c \in Seq(Byte) /\ Len(c) = n /\ \A x \in 1 .. n : c[x] = u[x]
  <2>1. 1 \in Int /\ n \in Int /\ \A i \in 1 .. n : u[i] \in Byte
    BY <1>1, <1>3, <1>5
  <2>2. /\ c \in Seq(Byte) /\ Len(c) = IF 1 <= n THEN n - 1 + 1 ELSE 0
        /\ \A i \in 1 .. n - 1 + 1 : c[i] = u[1 + i - 1]
    BY <2>1, SubSeqProperties
  <2> HIDE DEF c
  <2>3. \A i \in 1 .. n : i \in 1 .. n - 1 + 1 /\ 1 + i - 1 = i
    OBVIOUS
  <2> QED BY <2>2, <2>3
<1> HIDE DEF c
<1>7. \A x \in 1 .. n : c[x] = m[f + x]
  <2> TAKE x \in 1 .. n
  <2>1. x \in 1 .. left
    BY <1>1, <1>3
  <2> QED BY <1>5, <1>6, <2>1
<1> QED BY <1>6, <1>7 DEF c, u, m, size, left, f
LEMMA SenderWrites ==
  ASSUME SocketInv, NEW n \in Nat \ {0}, Write(n)
  PROVE  SocketInv'
<1> DEFINE K == Len(sent)  R == Len(received)  m == sender.memory
           c == SubSeq(Unwritten, 1, n)  s == sender'
<1>1. /\ sender.pc = "write" /\ receiver.pc # "closed"
      /\ n <= sender.left /\ Len(wire) + n <= Capacity
      /\ wire' = wire \o c
      /\ sender' = [sender EXCEPT !.left = @ - n,
                                  !.pc = IF n = sender.left THEN "idle" ELSE "write"]
      /\ sent' = IF n = sender.left THEN Append(sent, Words(m)) ELSE sent
      /\ receiver' = receiver /\ received' = received /\ built' = built
  BY DEF Write, ReceiverOpen
<1>2. /\ SenderOK(sender) /\ ReceiverOK(receiver) /\ HistoryInv /\ StreamInv /\ FailInv
      /\ sender \in [pc : {"idle", "build", "write", "closed"}, memory : Seq(Byte), left : Nat]
  BY DEF SocketInv, SenderOK
<1>3. /\ IsMessage(m) /\ sender.left > 0 /\ sender.left \in Nat /\ sender.left <= Size(m)
      /\ Size(m) \in Nat /\ m \in Seq(Byte) /\ IsMemory(m)
  BY <1>1, <1>2, MessageSize DEF SenderOK
<1>4. c \in Seq(Byte) /\ Len(c) = n /\ \A x \in 1 .. n : c[x] = m[Size(m) - sender.left + x]
  BY <1>1, <1>2, <1>3, Chunk
<1> HIDE DEF c
<1>5. /\ K \in Nat /\ R \in Nat /\ R <= K /\ wire \in Seq(Byte) /\ Len(wire) \in Nat
      /\ sent \in Seq(Messages)
  BY <1>2, LenProperties DEF HistoryInv
<1>6. ~ Drained
  BY <1>1 DEF Drained, SenderOpen
<1>7. PICK b, M : Stream(b, M)
  BY <1>1, <1>2, <1>6 DEF StreamInv
<1> DEFINE read == b[R] + Consumed(receiver)
<1>8. /\ Ends(b, K) /\ Written(b, M, sent) /\ BeingWritten(b, M, K, sender)
      /\ Carries(wire, b, M, K, read) /\ Consistent(receiver, M[R + 1])
  BY <1>7 DEF Stream
<1>9. /\ b \in [Nat -> Nat] /\ M \in [Nat -> Seq(Byte)]
      /\ Partial(sender) = Size(m) - sender.left
  BY <1>3, <1>8 DEF Ends, Written, Partial
<1>10. Consumed(receiver) \in Nat
  BY <1>2, ReadSoFar
<1>11. b[R] \in Nat /\ b[K] \in Nat /\ b[K + 1] \in Nat /\ K + 1 \in Nat /\ R + 1 \in Nat
  <2>1. K + 1 \in Nat /\ R + 1 \in Nat
    BY <1>5
  <2> HIDE DEF K, R
  <2> QED BY <1>5, <1>9, <2>1
<1>12. b[K + 1] = b[K] + (Size(m) - sender.left) /\ (Size(m) - sender.left > 0 => M[K + 1] = m)
  BY <1>8, <1>9 DEF BeingWritten
<1>13. read \in Nat
  <2> HIDE DEF K, R
  <2> QED BY <1>10, <1>11
<1> HIDE DEF read
<1>a. read = b[R] + Consumed(receiver)
  BY DEF read
<1>14. Continues(c, m, b, M, K)
  <2> DEFINE x == b[K]  y == b[K + 1]  z == Size(m)  left == sender.left
  <2>1. x \in Nat /\ y \in Nat /\ z \in Nat /\ left \in Nat /\ y = x + (z - left) /\ left <= z
    BY <1>3, <1>11, <1>12
  <2>2. z - left > 0 => M[K + 1] = m
    BY <1>12
  <2>3. \A i \in 1 .. n : c[i] = m[z - left + i]
    BY <1>4
  <2> SUFFICES /\ y > x => M[K + 1] = m
               /\ \A i \in 1 .. Len(c) : c[i] = m[y - x + i]
    BY DEF Continues
  <2> HIDE DEF x, y, z, left
  <2>4. y - x = z - left /\ (y > x => z - left > 0)
    BY <2>1
  <2> QED BY <1>4, <2>2, <2>3, <2>4
<1> HIDE DEF K, R
<1>b. PICK e, L : /\ e = [b EXCEPT ![K + 1] = b[K + 1] + Len(c)]
                  /\ L = [M EXCEPT ![K + 1] = m]
  OBVIOUS
<1>15. Ends(e, K) /\ Carries(wire \o c, e, L, K, read) /\ L \in [Nat -> Seq(Byte)]
  BY <1>3, <1>4, <1>5, <1>8, <1>9, <1>13, <1>14, <1>b, CarriesWritten
<1>16. /\ e \in [Nat -> Nat] /\ e[K + 1] = b[K + 1] + n /\ L[K + 1] = m
       /\ \A k \in Nat : k # K + 1 => e[k] = b[k] /\ L[k] = M[k]
  <2>1. b[K + 1] + Len(c) = b[K + 1] + n
    BY <1>4
  <2>2. /\ e[K + 1] = b[K + 1] + n
        /\ \A k \in Nat : k # K + 1 => e[k] = b[k]
    BY <1>9, <1>11, <1>b, <2>1
  <2>3. /\ L[K + 1] = m
        /\ \A k \in Nat : k # K + 1 => L[k] = M[k]
    BY <1>9, <1>11, <1>b
  <2>4. e \in [Nat -> Nat]
    BY <1>15 DEF Ends
  <2> QED BY <2>2, <2>3, <2>4
<1>17. K \in Nat /\ K # K + 1 /\ R # K + 1 /\ e[R] = b[R] /\ e[K] = b[K]
  <2>1. K # K + 1 /\ R # K + 1
    BY <1>5
  <2> QED BY <1>5, <1>16, <2>1
<1>18. Consistent(receiver, L[R + 1])
  <2>1. CASE R # K
    <3>1. R + 1 # K + 1
      BY <1>5, <2>1
    <3>2. L[R + 1] = M[R + 1]
      BY <1>11, <1>16, <3>1
    <3> QED BY <1>8, <3>2
  <2>2. CASE R = K /\ Size(m) - sender.left > 0
    <3>1. L[R + 1] = M[R + 1]
      BY <1>12, <1>16, <2>2
    <3> QED BY <1>8, <3>1
  <2>3. CASE R = K /\ ~ (Size(m) - sender.left > 0)
    <3>1. b[K + 1] = b[K]
      BY <1>3, <1>11, <1>12, <2>3
    <3>2. Len(wire) = b[K + 1] - read
      BY <1>8 DEF Carries
    <3>3. Consumed(receiver) = 0
      BY <1>a, <1>5, <1>10, <1>11, <2>3, <3>1, <3>2
    <3> QED BY <1>2, <3>3, NothingRead
  <2> QED BY <2>1, <2>2, <2>3
<1>19. Written(e, L, sent)
  <2>1. \A k \in 1 .. K : b[k] = b[k - 1] + Size(M[k]) /\ IsMessage(M[k]) /\ sent[k] = Words(M[k])
    BY <1>8 DEF Written, K
  <2>2. ASSUME NEW k \in 1 .. K PROVE e[k] = b[k] /\ e[k - 1] = b[k - 1] /\ L[k] = M[k]
    <3>1. k \in Nat /\ k - 1 \in Nat /\ k # K + 1 /\ k - 1 # K + 1
      BY <1>5
    <3> QED BY <1>16, <3>1
  <2> QED BY <1>15, <2>1, <2>2 DEF Written, K
<1>20. wire' \in Seq(Byte) /\ Len(wire') <= Capacity
  <2>1. wire \o c \in Seq(Byte) /\ Len(wire \o c) = Len(wire) + Len(c)
    BY <1>4, <1>5
  <2> QED BY <1>1, <1>4, <2>1
<1>21. sender.left - n \in Nat /\ sender.left - n <= Size(m)
  BY <1>1, <1>3
<1>22. CASE n # sender.left
  <2>1. /\ s.pc = "write" /\ s.memory = m /\ s.left = sender.left - n /\ sent' = sent
        /\ s \in [pc : {"idle", "build", "write", "closed"}, memory : Seq(Byte), left : Nat]
    BY <1>1, <1>2, <1>21, <1>22
  <2>2. s.left > 0
    BY <1>1, <1>3, <1>22, <2>1
  <2>3. SenderOK(s)
    BY <1>3, <1>21, <2>1, <2>2 DEF SenderOK
  <2>4. HistoryInv'
    BY <1>1, <1>2, <1>20, <2>1 DEF HistoryInv
  <2>5. BeingWritten(e, L, K, s)
    <3>1. Partial(s) = Size(m) - (sender.left - n)
      BY <2>1, <2>2 DEF Partial
    <3>2. e[K + 1] = b[K] + (Size(m) - (sender.left - n))
      <4> DEFINE x == b[K]  y == b[K + 1]  z == Size(m)  left == sender.left
      <4>1. /\ x \in Nat /\ z \in Nat /\ left \in Nat /\ left <= z
            /\ y = x + (z - left) /\ e[K + 1] = y + n
        BY <1>3, <1>11, <1>12, <1>16
      <4> SUFFICES e[K + 1] = x + (z - (left - n))
        OBVIOUS
      <4> HIDE DEF x, y, z, left
      <4> QED BY <4>1
    <3> QED BY <1>16, <1>17, <2>1, <3>1, <3>2 DEF BeingWritten
  <2>6. Stream(e, L)'
    BY <1>1, <1>8, <1>15, <1>17, <1>18, <1>19, <1>a, <2>1, <2>5 DEF Stream, K, R
  <2>7. StreamInv'
    BY <2>6 DEF StreamInv
  <2>8. FailInv'
    BY <1>1, <1>2, <1>6 DEF FailInv
  <2> QED BY <1>1, <1>2, <2>3, <2>4, <2>7, <2>8 DEF SocketInv
<1>23. CASE n = sender.left
  <2> DEFINE said == Append(sent, Words(m))
  <2>1. /\ s.pc = "idle" /\ s.memory = m /\ s.left = 0 /\ sent' = said
        /\ s \in [pc : {"idle", "build", "write", "closed"}, memory : Seq(Byte), left : Nat]
    <3>1. s = [sender EXCEPT !.left = 0, !.pc = "idle"]
      <4>1. sender.left - n = 0
        BY <1>3, <1>23
      <4> QED BY <1>1, <1>23, <4>1
    <3>2. sent' = said
      BY <1>1, <1>23
    <3> HIDE DEF said
    <3> QED BY <1>2, <3>1, <3>2
  <2>2. SenderOK(s)
    BY <1>3, <2>1 DEF SenderOK
  <2>3. /\ said \in Seq(Messages) /\ Len(said) = K + 1 /\ said[K + 1] = Words(m)
        /\ \A k \in 1 .. K : said[k] = sent[k]
    <3>1. Words(m) \in Messages
      BY <1>3, WordsOfMessage
    <3> QED BY <1>5, <3>1 DEF K
  <2> HIDE DEF said
  <2>4. HistoryInv'
    <3>1. R <= K + 1
      BY <1>5
    <3>2. \A k \in 1 .. R : received[k] = said[k]
      <4> TAKE k \in 1 .. R
      <4>1. k \in 1 .. K
        BY <1>5
      <4> QED BY <1>2, <2>3, <4>1 DEF HistoryInv, R
    <3> QED BY <1>1, <1>2, <1>20, <2>1, <2>3, <3>1, <3>2 DEF HistoryInv, R
  <2>a. PICK d : d = [e EXCEPT ![K + 2] = e[K + 1]]
    OBVIOUS
  <2>5. Ends(d, K + 1) /\ Carries(wire \o c, d, L, K + 1, read)
    BY <1>5, <1>13, <1>15, <1>16, <2>a, CarriesNext
  <2>6. d[K + 2] = e[K + 1] /\ \A k \in Nat : k # K + 2 => d[k] = e[k]
    <3>1. K + 2 \in Nat
      BY <1>5
    <3> QED BY <1>16, <2>a, <3>1
  <2>7. BeingWritten(d, L, K + 1, s)
    <3>1. Partial(s) = 0
      BY <2>1 DEF Partial
    <3>2. K + 1 # K + 2 /\ (K + 1) + 1 = K + 2
      BY <1>5
    <3>3. d[K + 1] = e[K + 1] /\ e[K + 1] \in Nat
      BY <1>11, <1>16, <2>6, <3>2
    <3> QED BY <2>6, <3>1, <3>2, <3>3 DEF BeingWritten
  <2>8. Written(d, L, said)
    <3>1. ASSUME NEW k \in 1 .. K + 1
          PROVE d[k] = d[k - 1] + Size(L[k]) /\ IsMessage(L[k]) /\ said[k] = Words(L[k])
      <4>1. k \in Nat /\ k - 1 \in Nat /\ k # K + 2 /\ k - 1 # K + 2
        BY <1>5
      <4>2. d[k] = e[k] /\ d[k - 1] = e[k - 1]
        BY <2>6, <4>1
      <4>3. CASE k = K + 1
        <5>1. e[K + 1] = e[K] + Size(m) /\ k - 1 = K
          <6> DEFINE x == b[K]  y == b[K + 1]  z == Size(m)  left == sender.left
          <6>1. /\ x \in Nat /\ z \in Nat /\ left \in Nat /\ n = left
                /\ y = x + (z - left) /\ e[K + 1] = y + n /\ e[K] = x
            BY <1>3, <1>11, <1>12, <1>16, <1>17, <1>23
          <6>2. k - 1 = K
            BY <1>5, <4>3
          <6> HIDE DEF x, y, z, left
          <6>3. e[K + 1] = e[K] + z
            BY <6>1
          <6> QED BY <6>2, <6>3 DEF z
        <5> QED BY <1>3, <1>16, <2>3, <4>2, <4>3, <5>1
      <4>4. CASE k # K + 1
        <5>1. k \in 1 .. K
          BY <1>5, <4>4
        <5>2. e[k] = e[k - 1] + Size(L[k]) /\ IsMessage(L[k]) /\ sent[k] = Words(L[k])
          BY <1>19, <5>1 DEF Written, K
        <5> QED BY <2>3, <4>2, <5>1, <5>2
      <4> QED BY <4>3, <4>4
    <3> QED BY <1>15, <2>3, <3>1 DEF Written
  <2>9. d[R] = b[R]
    <3>1. R # K + 2
      BY <1>5
    <3> QED BY <1>5, <1>17, <2>6, <3>1
  <2>10. Stream(d, L)'
    BY <1>1, <1>18, <1>a, <2>1, <2>3, <2>5, <2>7, <2>8, <2>9 DEF Stream, R
  <2>11. StreamInv'
    BY <2>10 DEF StreamInv
  <2>12. FailInv'
    BY <1>1, <1>2, <1>6 DEF FailInv
  <2> QED BY <1>1, <1>2, <2>2, <2>4, <2>11, <2>12 DEF SocketInv
<1> QED BY <1>22, <1>23
-----------------------------------------------------------------------------
(* The steps of the receiver                                               *)

LEMMA ReceiverLeaves == SocketInv /\ ReceiverEnds => SocketInv'
<1> SUFFICES ASSUME SocketInv, ReceiverEnds PROVE SocketInv'
  OBVIOUS
<1>1. /\ receiver' = [receiver EXCEPT !.pc = "closed"] /\ wire' = <<>>
      /\ UNCHANGED <<sender, sent, received, built>>
  BY DEF ReceiverEnds, Return
<1>2. ReceiverOK(receiver')
  <2>1. /\ receiver \in [pc : {"idle", "length", "body", "success", "failure", "closed"},
                         memory : Seq(Byte), head : Seq(Byte), left : Nat]
        /\ IsMemory(receiver.memory)
    BY DEF SocketInv, ReceiverOK
  <2>2. receiver'.pc = "closed" /\ receiver'.memory = receiver.memory
        /\ receiver' \in [pc : {"idle", "length", "body", "success", "failure", "closed"},
                          memory : Seq(Byte), head : Seq(Byte), left : Nat]
    BY <1>1, <2>1
  <2> QED BY <2>1, <2>2 DEF ReceiverOK
<1>3. HistoryInv'
  <2>1. <<>> \in Seq(Byte) /\ Len(<<>>) = 0 /\ 0 <= Capacity
    BY SocketAssumption
  <2> QED BY <1>1, <2>1 DEF SocketInv, HistoryInv
<1>4. receiver'.pc = "closed"
  BY <1>1 DEF SocketInv, ReceiverOK
<1> QED BY <1>1, <1>2, <1>3, <1>4 DEF SocketInv, StreamInv, FailInv

LEMMA ReceiverBegins == SocketInv /\ BeginReceive => SocketInv'
<1> SUFFICES ASSUME SocketInv, BeginReceive PROVE SocketInv'
  OBVIOUS
<1>1. /\ receiver.pc = "idle" /\ UNCHANGED <<sender, wire, sent, received, built>>
      /\ \E memory \in {network_message_init}
                         \cup {build_message_head(network_message_init, t) : t \in Types} :
           receiver' = [receiver EXCEPT !.pc = "length", !.head = <<>>, !.memory = memory]
  BY DEF BeginReceive
<1>2. PICK m : /\ receiver' = [receiver EXCEPT !.pc = "length", !.head = <<>>, !.memory = m]
               /\ IsMemory(m) /\ Leftover(m, 0)
  BY <1>1, NewMemory, HeadBuilt DEF IsMessage
<1>3. /\ receiver \in [pc : {"idle", "length", "body", "success", "failure", "closed"},
                       memory : Seq(Byte), head : Seq(Byte), left : Nat]
      /\ Consumed(receiver) = 0
  BY <1>1 DEF SocketInv, ReceiverOK, Consumed
<1>4. /\ receiver'.pc = "length" /\ receiver'.memory = m /\ receiver'.head = <<>>
      /\ receiver' \in [pc : {"idle", "length", "body", "success", "failure", "closed"},
                        memory : Seq(Byte), head : Seq(Byte), left : Nat]
  <2>1. m \in Seq(Byte) /\ <<>> \in Seq(Byte)
    BY <1>2 DEF IsMemory
  <2> QED BY <1>2, <1>3, <2>1
<1>5. Consumed(receiver') = 0
  BY <1>4 DEF Consumed
<1>6. ReceiverOK(receiver')
  BY <1>2, <1>4, <1>5, SocketAssumption DEF ReceiverOK
<1>7. StreamInv'
  <2>1. CASE Drained
    <3>1. Drained'
      BY <1>1, <1>4, <2>1 DEF Drained, SenderOpen
    <3> QED BY <3>1 DEF StreamInv
  <2>2. CASE ~ Drained
    <3>1. PICK b, M : Stream(b, M)
      BY <1>1, <2>2 DEF SocketInv, StreamInv
    <3>2. Consistent(receiver', M[Len(received) + 1])
      BY <1>5, <1>6, NothingRead
    <3>3. Stream(b, M)'
      BY <1>1, <1>3, <1>5, <3>1, <3>2 DEF Stream
    <3> QED BY <3>3 DEF StreamInv
  <2> QED BY <2>1, <2>2
<1> QED BY <1>1, <1>4, <1>6, <1>7 DEF SocketInv, HistoryInv, FailInv

(* The message that comes next *)
LEMMA Incoming ==
  ASSUME SocketInv, NEW b, NEW M, Stream(b, M)
  PROVE  LET K == Len(sent)  R == Len(received) IN
         /\ K \in Nat /\ R \in Nat /\ R <= K /\ b[R] \in Nat /\ b[K + 1] \in Nat
         /\ Len(wire) = b[K + 1] - (b[R] + Consumed(receiver))
         /\ R < K => /\ IsMessage(M[R + 1]) /\ sent[R + 1] = Words(M[R + 1])
                     /\ b[R + 1] = b[R] + Size(M[R + 1]) /\ b[R + 1] <= b[K + 1]
         /\ R = K => /\ b[R + 1] = b[R] + Partial(sender)
                     /\ Len(wire) = Partial(sender) - Consumed(receiver)
                     /\ Partial(sender) > 0 => M[R + 1] = sender.memory
         /\ Partial(sender) \in Nat
         /\ Partial(sender) > 0 => /\ IsMessage(sender.memory)
                                   /\ Partial(sender) < Size(sender.memory)
<1> DEFINE K == Len(sent)  R == Len(received)  p == Partial(sender)  z == Consumed(receiver)
<1>1. K \in Nat /\ R \in Nat /\ R <= K
  BY LenProperties DEF SocketInv, HistoryInv
<1>2. /\ Ends(b, K) /\ Written(b, M, sent) /\ BeingWritten(b, M, K, sender)
      /\ Carries(wire, b, M, K, b[R] + z)
  BY DEF Stream
<1>3. z \in Nat
  BY ReadSoFar DEF SocketInv
<1>4. p \in Nat /\ (p > 0 => IsMessage(sender.memory) /\ p < Size(sender.memory))
  <2>1. SenderOK(sender) /\ Size(sender.memory) \in Nat
    BY MemoryWords DEF SocketInv, SenderOK
  <2>2. sender.left \in Nat /\ sender.left <= Size(sender.memory)
    BY <2>1 DEF SenderOK
  <2>3. CASE sender.left > 0
    <3>1. p = Size(sender.memory) - sender.left /\ IsMessage(sender.memory)
      BY <2>1, <2>3 DEF Partial, SenderOK
    <3> HIDE DEF p
    <3> QED BY <2>1, <2>2, <2>3, <3>1
  <2>4. CASE ~ (sender.left > 0)
    <3>1. p = 0
      BY <2>4 DEF Partial
    <3> QED BY <3>1
  <2> QED BY <2>3, <2>4
<1>5. /\ b \in [Nat -> Nat] /\ \A j, k \in 0 .. K + 1 : j <= k => b[j] <= b[k]
      /\ b[K + 1] = b[K] + p /\ (p > 0 => M[K + 1] = sender.memory)
      /\ Len(wire) = b[K + 1] - (b[R] + z)
  BY <1>2 DEF Ends, BeingWritten, Carries
<1>6. \A k \in 1 .. K : b[k] = b[k - 1] + Size(M[k]) /\ IsMessage(M[k]) /\ sent[k] = Words(M[k])
  BY <1>2 DEF Written
<1> HIDE DEF K, R, p, z
<1>7. K + 1 \in Nat /\ R + 1 \in Nat /\ K \in 0 .. K + 1 /\ (R + 1) - 1 = R
  BY <1>1
<1>8. b[R] \in Nat /\ b[K] \in Nat /\ b[K + 1] \in Nat
  BY <1>1, <1>5, <1>7
<1>9. ASSUME R < K
      PROVE  /\ IsMessage(M[R + 1]) /\ sent[R + 1] = Words(M[R + 1])
             /\ b[R + 1] = b[R] + Size(M[R + 1]) /\ b[R + 1] <= b[K + 1]
  <2>1. R + 1 \in 1 .. K /\ R + 1 \in 0 .. K + 1 /\ K + 1 \in 0 .. K + 1 /\ R + 1 <= K + 1
    BY <1>1, <1>9
  <2> QED BY <1>5, <1>6, <1>7, <2>1
<1>10. ASSUME R = K
       PROVE  /\ b[R + 1] = b[R] + p /\ Len(wire) = p - z /\ (p > 0 => M[R + 1] = sender.memory)
  <2>1. b[R + 1] = b[R] + p /\ (p > 0 => M[R + 1] = sender.memory)
    BY <1>5, <1>10
  <2>2. Len(wire) = p - z
    BY <1>3, <1>4, <1>5, <1>8, <1>10
  <2> QED BY <2>1, <2>2
<1> QED BY <1>1, <1>4, <1>5, <1>8, <1>9, <1>10 DEF K, R, p, z

(* The bytes on the wire are those of the message that come next *)
LEMMA Reading ==
  ASSUME SocketInv, NEW b, NEW M, Stream(b, M), NEW n \in 1 .. Len(wire),
         Len(received) < Len(sent) => Consumed(receiver) + n <= Size(M[Len(received) + 1])
  PROVE  /\ IsMessage(M[Len(received) + 1])
         /\ \A x \in 1 .. n : wire[x] = M[Len(received) + 1][Consumed(receiver) + x]
<1> DEFINE K == Len(sent)  R == Len(received)  p == Partial(sender)  z == Consumed(receiver)
           m == M[R + 1]  len == Len(wire)
<1>1. /\ K \in Nat /\ R \in Nat /\ R <= K /\ b[R] \in Nat /\ b[K + 1] \in Nat
      /\ R < K => IsMessage(m) /\ b[R + 1] = b[R] + Size(m)
      /\ R = K => b[R + 1] = b[R] + p /\ len = p - z /\ (p > 0 => m = sender.memory)
      /\ p \in Nat /\ (p > 0 => IsMessage(sender.memory))
  BY Incoming
<1>2. z \in Nat /\ len \in Nat /\ n \in 1 .. len
  BY ReadSoFar, LenProperties DEF SocketInv, HistoryInv
<1>3. R < K => z + n <= Size(m)
  OBVIOUS
<1>4. Carries(wire, b, M, K, b[R] + z)
  BY DEF Stream
<1>5. \A k \in 1 .. K + 1 : \A i \in 1 .. b[k] - b[k - 1] :
        b[k - 1] + i > b[R] + z => wire[b[k - 1] + i - (b[R] + z)] = M[k][i]
  BY <1>4 DEF Carries
<1> HIDE DEF K, R, p, z, len
<1>6. IsMessage(m) /\ \E d \in Nat : b[R + 1] = b[R] + d /\ z + n <= d
  <2>1. CASE R < K
    <3>1. Size(m) \in Nat
      BY <1>1, <2>1, MessageSize
    <3> HIDE DEF m
    <3> QED BY <1>1, <1>3, <2>1, <3>1
  <2>2. CASE R = K
    <3> HIDE DEF m
    <3>1. p > 0 /\ z + n <= p
      BY <1>1, <1>2, <2>2
    <3> QED BY <1>1, <2>2, <3>1
  <2> QED BY <1>1, <2>1, <2>2
<1>7. PICK d \in Nat : b[R + 1] = b[R] + d /\ z + n <= d
  BY <1>6
<1>8. ASSUME NEW x \in 1 .. n PROVE wire[x] = m[z + x]
  <2> DEFINE y == b[R]
  <2>1. y \in Nat /\ b[R + 1] = y + d
    BY <1>1, <1>7
  <2>2. R + 1 \in 1 .. K + 1 /\ (R + 1) - 1 = R
    BY <1>1
  <2>3. \A i \in 1 .. b[R + 1] - y : y + i > y + z => wire[y + i - (y + z)] = m[i]
    BY <1>5, <2>2
  <2> HIDE DEF y, m
  <2>4. b[R + 1] - y = d
    BY <2>1
  <2>5. z + x \in 1 .. d /\ y + (z + x) > y + z /\ y + (z + x) - (y + z) = x
    BY <1>2, <1>7, <2>1
  <2> QED BY <2>3, <2>4, <2>5
<1> QED BY <1>6, <1>8 DEF R, z
LEMMA SomeRead ==
  ASSUME SocketInv, NEW b, NEW M, Stream(b, M), NEW n \in 1 .. Len(wire),
         wire' = SubSeq(wire, n + 1, Len(wire)), UNCHANGED <<sender, sent, received, built>>,
         ReceiverOK(receiver'), Consumed(receiver') = Consumed(receiver) + n,
         Consistent(receiver', M[Len(received) + 1]), receiver'.pc # "failure"
  PROVE  SocketInv'
<1> DEFINE K == Len(sent)  R == Len(received)  z == Consumed(receiver)
<1>1. K \in Nat /\ b[R] \in Nat /\ z \in Nat /\ wire \in Seq(Byte) /\ Len(wire) \in Nat
      /\ Len(wire) <= Capacity
  BY Incoming, ReadSoFar, LenProperties DEF SocketInv, HistoryInv
<1>2. Ends(b, K) /\ Carries(wire, b, M, K, b[R] + z)
  BY DEF Stream
<1>3. b[R] + z \in Nat /\ b[R] + (z + n) = (b[R] + z) + n
  <2> DEFINE x == b[R]
  <2>1. x \in Nat
    BY <1>1
  <2> HIDE DEF x, z
  <2>2. x + z \in Nat /\ x + (z + n) = (x + z) + n
    BY <1>1, <2>1
  <2> QED BY <2>2 DEF x
<1>4. /\ wire' \in Seq(Byte) /\ Len(wire') = Len(wire) - n
      /\ Carries(wire', b, M, K, (b[R] + z) + n)
  <2> HIDE DEF K, R, z
  <2> QED BY <1>1, <1>2, <1>3, CarriesRead
<1>5. HistoryInv'
  <2>1. Len(wire') <= Capacity
    BY <1>1, <1>4, SocketAssumption
  <2> QED BY <1>4, <2>1 DEF SocketInv, HistoryInv
<1>6. Carries(wire', b, M, K, b[R] + Consumed(receiver'))
  BY <1>3, <1>4
<1>7. Stream(b, M)'
  BY <1>6 DEF Stream
<1>8. StreamInv'
  BY <1>7 DEF StreamInv
<1>9. FailInv'
  BY DEF FailInv
<1> QED BY <1>5, <1>8, <1>9 DEF SocketInv

(* The length of a message has been stored *)
LEMMA LengthStored ==
  ASSUME NEW m, IsMemory(m), NEW from \in Nat, from < WordBytes, Leftover(m, from),
         NEW l \in Nat, l >= 2, l \in Word
  PROVE  LET room == IF l > MaxLength(m) THEN increase_message_memory(m, l) ELSE m
             r == SetWord(room, 1, l)
         IN /\ IsMemory(r) /\ LengthOf(r) = l /\ Leftover(r, WordBytes)
            /\ \A i \in 1 .. WordBytes : r[i] = BytesOf[l][i]
<1> DEFINE n == MaxLength(m)  two == 2 * WordBytes
           room == IF l > n THEN increase_message_memory(m, l) ELSE m
           r == SetWord(room, 1, l)
<1>1. /\ m \in Seq(Byte) /\ n \in Nat /\ n >= 2 /\ Len(m) = n * WordBytes /\ two <= Len(m)
      /\ two = WordBytes + WordBytes /\ WordBytes \in Nat \ {0} /\ Len(m) \in Nat
  BY MemoryWords, One, SocketAssumption, LenProperties
<1>2. PICK t \in Types \cup {0} :
        \A i \in 1 .. WordBytes : WordBytes + i > from => m[WordBytes + i] = BytesOf[t][i]
  BY DEF Leftover
<1>3. \A i \in 1 .. Len(m) : i > two /\ i > from => m[i] = 0
  BY DEF Leftover
<1> HIDE DEF n, two
<1>4. /\ room \in Seq(Byte)
      /\ \E k \in Nat : k >= l /\ k >= n /\ Len(room) = k * WordBytes /\ Len(m) <= k * WordBytes
      /\ \A i \in 1 .. Len(m) : room[i] = m[i]
      /\ \A i \in Len(m) + 1 .. Len(room) : room[i] = 0
  <2>1. CASE l > n
    <3>1. /\ increase_message_memory(m, l) \in Seq(Byte)
          /\ Len(increase_message_memory(m, l)) = l * WordBytes
          /\ \A i \in 1 .. Len(m) : increase_message_memory(m, l)[i] = m[i]
          /\ \A i \in Len(m) + 1 .. l * WordBytes : increase_message_memory(m, l)[i] = 0
      <4>1. n <= l
        BY <1>1, <2>1
      <4> HIDE DEF room, r
      <4> QED BY <1>1, <4>1, MemoryGrown
    <3>2. room = increase_message_memory(m, l) /\ n <= l /\ n * WordBytes <= l * WordBytes
      BY <1>1, <2>1, Products
    <3> HIDE DEF room
    <3> QED BY <1>1, <2>1, <3>1, <3>2
  <2>2. CASE ~ (l > n)
    <3>1. room = m /\ n >= l
      BY <1>1, <2>2
    <3> HIDE DEF room
    <3>2. \A i \in Len(m) + 1 .. Len(room) : room[i] = 0
      BY <1>1, <3>1
    <3> QED BY <1>1, <3>1, <3>2
  <2> QED BY <2>1, <2>2
<1> HIDE DEF room
<1>5. PICK k \in Nat : k >= l /\ k >= n /\ Len(room) = k * WordBytes /\ Len(m) <= Len(room)
  BY <1>4
<1>6. WordBytes <= Len(room) /\ Len(room) \in Nat /\ two <= Len(room)
  BY <1>1, <1>4, <1>5, LenProperties
<1>7. /\ r \in Seq(Byte) /\ Len(r) = Len(room) /\ WordAt(r, 1) = l
      /\ \A i \in 1 .. Len(room) : i > WordBytes => r[i] = room[i]
      /\ \A i \in 1 .. WordBytes : r[i] = BytesOf[l][i]
  BY <1>4, <1>6, SetFirst
<1> HIDE DEF r
<1>8. IsMemory(r) /\ LengthOf(r) = l
  <2>1. k >= 2
    BY <1>1, <1>5
  <2> QED BY <1>5, <1>7, <2>1 DEF IsMemory, LengthOf
<1>9. \A i \in 1 .. WordBytes : r[WordBytes + i] = BytesOf[t][i]
  <2> TAKE i \in 1 .. WordBytes
  <2>1. WordBytes + i \in 1 .. Len(m) /\ WordBytes + i \in 1 .. Len(room) /\ WordBytes + i > WordBytes
        /\ WordBytes + i > from
    BY <1>1, <1>6
  <2> QED BY <1>2, <1>4, <1>7, <2>1
<1>10. \A i \in 1 .. Len(r) : i > two => r[i] = 0
  <2> SUFFICES ASSUME NEW i \in 1 .. Len(r), i > two PROVE r[i] = 0
    OBVIOUS
  <2>1. i \in 1 .. Len(room) /\ i > WordBytes /\ i > from /\ i \in Nat
    BY <1>1, <1>6, <1>7
  <2>2. r[i] = room[i]
    BY <1>7, <2>1
  <2>3. CASE i <= Len(m)
    <3>1. i \in 1 .. Len(m)
      BY <1>1, <2>1, <2>3
    <3> QED BY <1>3, <1>4, <2>1, <2>2, <3>1
  <2>4. CASE ~ (i <= Len(m))
    <3>1. i \in Len(m) + 1 .. Len(room)
      BY <1>1, <1>6, <2>1, <2>4
    <3> QED BY <1>4, <2>2, <3>1
  <2> QED BY <2>3, <2>4
<1>11. Leftover(r, WordBytes)
  BY <1>9, <1>10 DEF Leftover, two
<1> QED BY <1>7, <1>8, <1>11 DEF r, room, n
LEMMA BodyLeft ==
  ASSUME NEW l \in 2 .. MaxContent + 2
  PROVE  /\ ((l - 1) * WordBytes) % WordLimit = (l - 1) * WordBytes
         /\ (l - 1) * WordBytes \in Nat /\ WordBytes <= (l - 1) * WordBytes
         /\ l * WordBytes = (l - 1) * WordBytes + WordBytes
<1> DEFINE a == (l - 1) * WordBytes  d == WordLimit
<1>1. l \in Nat \ {0} /\ l - 1 \in Nat /\ l - 1 <= MaxContent + 1 /\ MaxContent + 1 \in Nat /\ 1 <= l - 1
  BY SocketAssumption
<1>2. a <= (MaxContent + 1) * WordBytes /\ (MaxContent + 1) * WordBytes \in Nat /\ a \in Nat
      /\ 1 * WordBytes <= a
  BY <1>1, Products
<1>3. (MaxContent + 1) * WordBytes < d /\ d \in Nat \ {0} /\ 1 * WordBytes = WordBytes
  BY One, SocketAssumption
<1>4. l * WordBytes = a + WordBytes
  BY <1>1, WordRange
<1> HIDE DEF a, d
<1>5. a < d /\ a \in Nat /\ d \in Nat \ {0}
  BY <1>2, <1>3
<1>6. a % d = a
  BY <1>5, Z3
<1> QED BY <1>2, <1>3, <1>4, <1>6 DEF a, d

LEMMA ReceiverReadsLength ==
  ASSUME SocketInv, NEW n \in Nat \ {0}, ReadLength(n)
  PROVE  SocketInv'
<1> DEFINE head == receiver.head \o SubSeq(wire, 1, n)  R == Len(received)
           z == Len(receiver.head)
<1>1. /\ receiver.pc = "length" /\ n <= Len(wire) /\ Len(head) <= WordBytes
      /\ wire' = SubSeq(wire, n + 1, Len(wire))
      /\ IF Len(head) < WordBytes THEN receiver' = [receiver EXCEPT !.head = head]
         ELSE IF WordOf[head] = 0 THEN Return("failure")
         ELSE LengthRead(WordOf[head])
      /\ UNCHANGED <<sender, sent, received, built>>
  BY DEF ReadLength
<1>2. /\ ReceiverOK(receiver) /\ StreamInv /\ wire \in Seq(Byte) /\ Len(wire) \in Nat
      /\ receiver \in [pc : {"idle", "length", "body", "success", "failure", "closed"},
                       memory : Seq(Byte), head : Seq(Byte), left : Nat]
      /\ IsMemory(receiver.memory)
  BY LenProperties DEF SocketInv, HistoryInv, ReceiverOK
<1>3. n \in 1 .. Len(wire) /\ WordBytes \in Nat \ {0}
  BY <1>1, <1>2, SocketAssumption
<1>4. wire # <<>>
  BY <1>3
<1>5. PICK b, M : Stream(b, M)
  BY <1>1, <1>2, <1>4 DEF StreamInv, Drained
<1> DEFINE m == M[R + 1]
<1>6. z \in Nat /\ z < WordBytes /\ Consumed(receiver) = z
      /\ Leftover(receiver.memory, z) /\ receiver.head \in Seq(Byte)
  BY <1>1, <1>2, LenProperties DEF ReceiverOK, Consumed
<1>7. SubSeq(wire, 1, n) \in Seq(Byte) /\ Len(SubSeq(wire, 1, n)) = n
      /\ \A i \in 1 .. n : SubSeq(wire, 1, n)[i] = wire[i]
  <2>1. 1 \in Int /\ n \in Int /\ \A i \in 1 .. n : wire[i] \in Byte
    BY <1>2, <1>3
  <2>2. /\ SubSeq(wire, 1, n) \in Seq(Byte) /\ Len(SubSeq(wire, 1, n)) = IF 1 <= n THEN n - 1 + 1 ELSE 0
        /\ \A i \in 1 .. n - 1 + 1 : SubSeq(wire, 1, n)[i] = wire[1 + i - 1]
    BY <2>1, SubSeqProperties
  <2>3. \A i \in 1 .. n : i \in 1 .. n - 1 + 1 /\ 1 + i - 1 = i
    OBVIOUS
  <2> QED BY <2>2, <2>3
<1>8. /\ head \in Seq(Byte) /\ Len(head) = z + n
      /\ \A i \in 1 .. z : head[i] = receiver.head[i]
      /\ \A i \in 1 .. n : head[z + i] = wire[i]
  <2> DEFINE h == receiver.head  c == SubSeq(wire, 1, n)
  <2>1. h \in Seq(Byte) /\ c \in Seq(Byte) /\ Len(c) = n /\ Len(h) = z
    BY <1>6, <1>7
  <2>2. \A i \in 1 .. n : c[i] = wire[i]
    BY <1>7
  <2>a. head = h \o c
    OBVIOUS
  <2> HIDE DEF h, c, z, head
  <2>3. /\ h \o c \in Seq(Byte) /\ Len(h \o c) = z + n /\ \A i \in 1 .. z : (h \o c)[i] = h[i]
        /\ \A i \in z + 1 .. z + n : (h \o c)[i] = c[i - z]
    BY <2>1
  <2>4. \A i \in 1 .. n : z + i \in z + 1 .. z + n /\ (z + i) - z = i
    BY <1>6
  <2> QED BY <2>a, <2>2, <2>3, <2>4 DEF h
<1> HIDE DEF head, z
<1>9. IsMessage(m) /\ \A x \in 1 .. n : wire[x] = m[z + x]
  <2>1. R < Len(sent) => z + n <= Size(m)
    <3>1. SUFFICES ASSUME R < Len(sent) PROVE z + n <= Size(m)
      OBVIOUS
    <3>2. IsMessage(m)
      BY <1>5, <3>1, Incoming
    <3>3. WordBytes + WordBytes <= Size(m) /\ Size(m) \in Nat
      BY <3>2, MessageSize
    <3> HIDE DEF m, R
    <3> QED BY <1>1, <1>3, <1>6, <1>8, <3>3
  <2> QED BY <1>3, <1>5, <1>6, <2>1, Reading
<1>10. \A i \in 1 .. z : receiver.head[i] = m[i]
  BY <1>1, <1>5 DEF Stream, Consistent, z
<1> HIDE DEF m, R
<1>11. \A i \in 1 .. Len(head) : head[i] = m[i]
  <2> TAKE i \in 1 .. Len(head)
  <2>1. CASE i <= z
    <3>1. i \in 1 .. z
      BY <1>6, <1>8, <2>1
    <3> QED BY <1>8, <1>10, <3>1
  <2>2. CASE ~ (i <= z)
    <3>1. i - z \in 1 .. n /\ z + (i - z) = i
      BY <1>6, <1>8, <2>2
    <3> QED BY <1>8, <1>9, <3>1
  <2> QED BY <2>1, <2>2
<1>12. /\ m \in Seq(Byte) /\ LengthOf(m) \in Nat /\ LengthOf(m) >= 2 /\ LengthOf(m) \in Word
       /\ LengthOf(m) \in 2 .. MaxContent + 2 /\ Size(m) <= Len(m)
       /\ WordBytes + WordBytes <= Size(m) /\ Size(m) \in Nat
  BY <1>9, MessageSize DEF IsMessage
<1>13. CASE Len(head) < WordBytes
  <2>1. receiver' = [receiver EXCEPT !.head = head]
    BY <1>1, <1>13
  <2>2. /\ receiver'.pc = "length" /\ receiver'.head = head /\ receiver'.memory = receiver.memory
        /\ receiver' \in [pc : {"idle", "length", "body", "success", "failure", "closed"},
                          memory : Seq(Byte), head : Seq(Byte), left : Nat]
    BY <1>1, <1>2, <1>8, <2>1
  <2>3. Consumed(receiver') = z + n
    BY <1>8, <2>2 DEF Consumed
  <2>4. Leftover(receiver.memory, z + n)
    <3>1. \A i \in Nat : i > z + n => i > z
      BY <1>6
    <3>2. \A i \in 1 .. WordBytes : WordBytes + i \in Nat
      BY <1>3
    <3>3. \A i \in 1 .. Len(receiver.memory) : i \in Nat
      OBVIOUS
    <3> QED BY <1>6, <3>1, <3>2, <3>3 DEF Leftover
  <2>5. ReceiverOK(receiver')
    BY <1>2, <1>13, <2>2, <2>3, <2>4 DEF ReceiverOK
  <2>6. Consistent(receiver', m)
    BY <1>11, <2>2 DEF Consistent
  <2> QED BY <1>1, <1>3, <1>5, <1>6, <2>2, <2>3, <2>5, <2>6, SomeRead DEF m, R
<1>14. CASE ~ (Len(head) < WordBytes)
  <2> DEFINE l == LengthOf(m)
             room == IF l > MaxLength(receiver.memory)
                     THEN increase_message_memory(receiver.memory, l) ELSE receiver.memory
             r == SetWord(room, 1, l)  left == (l - 1) * WordBytes
  <2>1. Len(head) = WordBytes /\ z + n = WordBytes
    BY <1>1, <1>3, <1>6, <1>8, <1>14
  <2>2. WordOf[head] = l
    <3>1. \A i \in 1 .. WordBytes : head[i] = m[i]
      BY <1>11, <2>1
    <3>2. head = [i \in 1 .. WordBytes |-> m[(1 - 1) * WordBytes + i]]
      <4>1. head = [i \in 1 .. WordBytes |-> head[i]]
        BY <1>8, <2>1
      <4>2. \A i \in 1 .. WordBytes : (1 - 1) * WordBytes + i = i
        BY <1>3
      <4> QED BY <3>1, <4>1, <4>2
    <3> QED BY <3>2 DEF LengthOf, WordAt, BytesAt
  <2>3. l # 0 /\ l \in Nat /\ l >= 2 /\ l \in Word
    BY <1>12
  <2>4. LengthRead(l)
    BY <1>1, <1>14, <2>2, <2>3
  <2>5. /\ (left % WordLimit) = left /\ left \in Nat /\ WordBytes <= left /\ left > 0
        /\ l * WordBytes = left + WordBytes
    <3>1. /\ (left % WordLimit) = left /\ left \in Nat /\ WordBytes <= left
          /\ l * WordBytes = left + WordBytes
      BY <1>12, BodyLeft
    <3> HIDE DEF left
    <3> QED BY <1>3, <3>1
  <2>6. receiver' = [receiver EXCEPT !.memory = r, !.left = left, !.pc = "body"]
    <3>1. receiver' = [receiver EXCEPT !.memory = r, !.left = left % WordLimit,
                                       !.pc = IF left % WordLimit = 0 THEN "success" ELSE "body"]
      BY <2>4 DEF LengthRead
    <3>2. left # 0
      BY <2>5
    <3> HIDE DEF left, r
    <3> QED BY <2>5, <3>1, <3>2
  <2>7. /\ IsMemory(r) /\ LengthOf(r) = l /\ Leftover(r, WordBytes)
        /\ \A i \in 1 .. WordBytes : r[i] = BytesOf[l][i]
    BY <1>2, <1>6, <2>3, LengthStored
  <2> HIDE DEF r, left
  <2>8. /\ receiver'.pc = "body" /\ receiver'.memory = r /\ receiver'.left = left
        /\ receiver' \in [pc : {"idle", "length", "body", "success", "failure", "closed"},
                          memory : Seq(Byte), head : Seq(Byte), left : Nat]
    <3>1. r \in Seq(Byte) /\ left \in Nat
      BY <2>5, <2>7 DEF IsMemory
    <3> QED BY <1>2, <2>6, <3>1
  <2>9. Size(r) = left + WordBytes
    BY <2>5, <2>7 DEF Size
  <2>10. Consumed(receiver') = WordBytes
    <3>1. Consumed(receiver') = Size(r) - left
      BY <2>8 DEF Consumed
    <3> QED BY <1>3, <2>5, <2>9, <3>1
  <2>11. ReceiverOK(receiver')
    <3>1. left \in 1 .. Size(r) - WordBytes
      BY <1>3, <2>5, <2>9
    <3> QED BY <2>7, <2>8, <2>10, <3>1 DEF ReceiverOK
  <2>12. Consistent(receiver', m)
    <3>1. \A i \in 1 .. WordBytes : BytesOf[l][i] = m[i]
      <4>1. 1 * WordBytes <= Len(m)
        BY <1>3, <1>12, One
      <4>2. \A i \in 1 .. WordBytes : BytesOf[l][i] = m[(1 - 1) * WordBytes + i]
        BY <1>12, <4>1, BytesRead DEF LengthOf
      <4>3. \A i \in 1 .. WordBytes : (1 - 1) * WordBytes + i = i
        BY <1>3
      <4> QED BY <4>2, <4>3
    <3>2. \A i \in 1 .. WordBytes : r[i] = m[i]
      BY <2>7, <3>1
    <3> QED BY <2>7, <2>8, <2>10, <3>2 DEF Consistent
  <2>13. Consumed(receiver') = Consumed(receiver) + n
    BY <1>6, <2>1, <2>10
  <2> QED BY <1>1, <1>3, <1>5, <2>8, <2>11, <2>12, <2>13, SomeRead DEF m, R
<1> QED BY <1>13, <1>14

LEMMA ReceiverReadsBody ==
  ASSUME SocketInv, NEW n \in Nat \ {0}, ReadBody(n)
  PROVE  SocketInv'
<1> DEFINE p == Position  R == Len(received)  a == receiver.memory  left == receiver.left
           r == [k \in 1 .. Len(a) |-> IF k \in p + 1 .. p + n THEN wire[k - p] ELSE a[k]]
<1>1. /\ receiver.pc = "body" /\ n <= Len(wire) /\ n <= left
      /\ wire' = SubSeq(wire, n + 1, Len(wire))
      /\ receiver' = [receiver EXCEPT
           !.memory = [k \in DOMAIN a |-> IF k \in p + 1 .. p + n THEN wire[k - p] ELSE a[k]],
           !.left = left - n,
           !.pc = IF n = left THEN "success" ELSE "body"]
      /\ UNCHANGED <<sender, sent, received, built>>
  BY DEF ReadBody
<1>2. /\ ReceiverOK(receiver) /\ StreamInv /\ wire \in Seq(Byte) /\ Len(wire) \in Nat
      /\ receiver \in [pc : {"idle", "length", "body", "success", "failure", "closed"},
                       memory : Seq(Byte), head : Seq(Byte), left : Nat]
      /\ IsMemory(a)
  BY LenProperties DEF SocketInv, HistoryInv, ReceiverOK
<1>3. n \in 1 .. Len(wire) /\ WordBytes \in Nat \ {0}
  BY <1>1, <1>2, SocketAssumption
<1>4. wire # <<>>
  BY <1>3
<1>5. PICK b, M : Stream(b, M)
  BY <1>1, <1>2, <1>4 DEF StreamInv, Drained
<1> DEFINE m == M[R + 1]
<1>6. /\ Size(a) \in Nat /\ Size(a) <= Len(a) /\ a \in Seq(Byte) /\ Len(a) \in Nat
      /\ left \in Nat /\ p = Size(a) - left /\ Consumed(receiver) = p
      /\ WordBytes <= p /\ p < Size(a) /\ p \in Nat
  <2>1. Size(a) \in Nat /\ Size(a) <= Len(a) /\ a \in Seq(Byte) /\ Len(a) \in Nat
    BY <1>2, MemoryWords, LenProperties
  <2>2. /\ Consumed(receiver) = Size(a) - left /\ WordBytes <= Consumed(receiver)
        /\ Consumed(receiver) < Size(a) /\ Consumed(receiver) \in Nat
    BY <1>1, <1>2, ReadSoFar
  <2>3. p = Size(a) - left
    BY DEF Position, Size
  <2> QED BY <1>2, <2>1, <2>2, <2>3
<1>7. LengthOf(a) = LengthOf(m) /\ Leftover(a, p) /\ \A i \in 1 .. p : a[i] = m[i]
  BY <1>1, <1>2, <1>5, <1>6 DEF ReceiverOK, Stream, Consistent
<1>8. p + n <= Size(a)
  <2> HIDE DEF p, left
  <2> QED BY <1>1, <1>6
<1>9. Size(m) = Size(a)
  BY <1>7 DEF Size
<1>10. IsMessage(m) /\ \A x \in 1 .. n : wire[x] = m[p + x]
  BY <1>3, <1>5, <1>6, <1>8, <1>9, Reading
<1>a. receiver.memory = a /\ receiver.left = left
  OBVIOUS
<1>b. r = [k \in 1 .. Len(a) |-> IF k \in p + 1 .. p + n THEN wire[k - p] ELSE a[k]]
  OBVIOUS
<1>11. receiver' = [receiver EXCEPT !.memory = r, !.left = left - n,
                                    !.pc = IF n = left THEN "success" ELSE "body"]
  <2>1. DOMAIN a = 1 .. Len(a)
    BY <1>6
  <2> QED BY <1>1, <2>1
<1> HIDE DEF p, m, R, a, left, r
<1>c. p \in Nat /\ n \in Nat /\ n >= 1 /\ p + n <= Len(a) /\ Len(a) \in Nat
  <2> DEFINE size == Size(a)  len == Len(a)
  <2>1. p \in Nat /\ size \in Nat /\ size <= len /\ len \in Nat /\ p + n <= size
    BY <1>6, <1>8
  <2> HIDE DEF size, len
  <2>2. p + n <= len
    BY <2>1
  <2> QED BY <2>1, <2>2 DEF len
<1>12. /\ r \in Seq(Byte) /\ Len(r) = Len(a)
       /\ \A i \in 1 .. Len(a) : i <= p \/ i > p + n => r[i] = a[i]
       /\ \A i \in 1 .. n : r[p + i] = wire[i]
  <2>1. \A k \in 1 .. Len(a) : r[k] \in Byte
    <3> TAKE k \in 1 .. Len(a)
    <3>1. CASE k \in p + 1 .. p + n
      <4>1. k - p \in 1 .. Len(wire)
        BY <1>3, <1>6, <3>1
      <4> QED BY <1>2, <1>b, <3>1, <4>1
    <3>2. CASE k \notin p + 1 .. p + n
      BY <1>6, <1>b, <3>2
    <3> QED BY <3>1, <3>2
  <2>2. r \in Seq(Byte) /\ Len(r) = Len(a)
    <3>1. r = [k \in 1 .. Len(a) |-> r[k]]
      BY <1>b
    <3> QED BY <1>6, <2>1, <3>1
  <2>3. \A i \in 1 .. Len(a) : i <= p \/ i > p + n => r[i] = a[i]
    <3> SUFFICES ASSUME NEW i \in 1 .. Len(a), i <= p \/ i > p + n PROVE r[i] = a[i]
      OBVIOUS
    <3>1. i \notin p + 1 .. p + n
      BY <1>3, <1>6
    <3> QED BY <1>b, <3>1
  <2>4. \A i \in 1 .. n : r[p + i] = wire[i]
    <3> TAKE i \in 1 .. n
    <3>1. p + i \in 1 .. Len(a) /\ p + i \in p + 1 .. p + n /\ (p + i) - p = i
      BY <1>c
    <3> QED BY <1>b, <3>1
  <2> QED BY <2>2, <2>3, <2>4
<1>13. LengthOf(r) = LengthOf(a)
  <2>1. \A i \in (1 - 1) * WordBytes + 1 .. 1 * WordBytes : r[i] = a[i]
    <3>1. (1 - 1) * WordBytes = 0 /\ 1 * WordBytes = WordBytes
      BY <1>3
    <3>2. \A i \in 1 .. WordBytes : i \in 1 .. Len(a) /\ i <= p
      BY <1>3, <1>6
    <3> QED BY <1>12, <3>1, <3>2
  <2>2. 1 \in Nat \ {0}
    OBVIOUS
  <2> QED BY <1>6, <1>12, <2>1, <2>2, SameWord DEF LengthOf
<1>14. Size(r) = Size(a) /\ IsMemory(r)
  BY <1>2, <1>12, <1>13 DEF Size, IsMemory, a
<1>15. \A i \in 1 .. p + n : r[i] = m[i]
  <2> TAKE i \in 1 .. p + n
  <2>1. CASE i <= p
    <3>1. i \in 1 .. p /\ i \in 1 .. Len(a)
      BY <1>3, <1>6, <2>1
    <3> QED BY <1>7, <1>12, <2>1, <3>1
  <2>2. CASE ~ (i <= p)
    <3>1. i - p \in 1 .. n /\ p + (i - p) = i
      BY <1>c, <2>2
    <3> QED BY <1>10, <1>12, <3>1
  <2> QED BY <2>1, <2>2
<1>16. Leftover(r, p + n)
  <2>1. PICK t \in Types \cup {0} :
          \A i \in 1 .. WordBytes : WordBytes + i > p => a[WordBytes + i] = BytesOf[t][i]
    BY <1>7 DEF Leftover
  <2>2. \A i \in 1 .. Len(a) : i > 2 * WordBytes /\ i > p => a[i] = 0
    BY <1>7 DEF Leftover
  <2>3. ASSUME NEW i \in 1 .. WordBytes, WordBytes + i > p + n
        PROVE  r[WordBytes + i] = BytesOf[t][i]
    <3>1. WordBytes + i \in 1 .. Len(a) /\ WordBytes + i > p
      <4>1. 2 * WordBytes <= Len(a) /\ 2 * WordBytes = WordBytes + WordBytes
        BY <1>2, MemoryWords, One DEF a
      <4> QED BY <1>3, <1>6, <2>3, <4>1
    <3> QED BY <1>12, <2>1, <2>3, <3>1
  <2>4. ASSUME NEW i \in 1 .. Len(a), i > 2 * WordBytes, i > p + n PROVE r[i] = 0
    <3>1. i > p
      BY <1>3, <1>6, <2>4
    <3> QED BY <1>12, <2>2, <2>4, <3>1
  <2> QED BY <1>12, <2>3, <2>4 DEF Leftover
<1>17. left - n \in Nat /\ p + n = Size(a) - (left - n)
  BY <1>1, <1>6
<1>18. /\ receiver'.memory = r /\ receiver'.left = left - n
       /\ receiver'.pc = IF n = left THEN "success" ELSE "body"
       /\ receiver' \in [pc : {"idle", "length", "body", "success", "failure", "closed"},
                         memory : Seq(Byte), head : Seq(Byte), left : Nat]
  BY <1>2, <1>11, <1>12, <1>17
<1>19. Consumed(receiver') = p + n
  <2>1. receiver'.pc \in {"body", "success"} /\ receiver'.pc # "length"
    BY <1>18
  <2>2. Consumed(receiver') = Size(r) - (left - n)
    BY <1>18, <2>1 DEF Consumed
  <2> QED BY <1>14, <1>17, <2>2
<1>20. ReceiverOK(receiver')
  <2>1. CASE n = left
    <3>1. left - n = 0 /\ receiver'.pc = "success"
      BY <1>6, <1>18, <2>1
    <3>2. LengthOf(r) >= 2
      BY <1>7, <1>10, <1>13, MessageSize
    <3> QED BY <1>14, <1>16, <1>18, <1>19, <3>1, <3>2 DEF ReceiverOK
  <2>2. CASE n # left
    <3>1. left - n \in 1 .. Size(r) - WordBytes /\ receiver'.pc = "body"
      <4> DEFINE size == Size(r)
      <4>1. /\ size \in Nat /\ left \in Nat /\ p = size - left /\ WordBytes <= p
            /\ n <= left
        BY <1>1, <1>6, <1>14, <1>a
      <4>2. receiver'.pc = "body"
        BY <1>18, <2>2
      <4> HIDE DEF size
      <4>3. left - n \in 1 .. size - WordBytes
        BY <1>3, <1>c, <2>2, <4>1
      <4> QED BY <4>2, <4>3 DEF size
    <3> QED BY <1>14, <1>16, <1>18, <1>19, <3>1 DEF ReceiverOK
  <2> QED BY <2>1, <2>2
<1>21. Consistent(receiver', m)
  <2>1. receiver'.pc # "length"
    BY <1>18
  <2> QED BY <1>7, <1>13, <1>15, <1>18, <1>19, <2>1 DEF Consistent
<1>22. receiver'.pc # "failure"
  BY <1>18
<1> QED BY <1>1, <1>3, <1>5, <1>6, <1>19, <1>20, <1>21, <1>22, SomeRead DEF m, R
-----------------------------------------------------------------------------
(* A message that was cut                                                  *)

(* What CutReadsAsPrefix says of the memory a after a receive that failed, *)
(* and the memory m of the message that was being written                  *)
ReadsAsPrefix(a, m) ==
  \/ /\ TypeOf(a) \in Types \cup {0}
     /\ \A j \in 3 .. MaxLength(a) : WordAt(a, j) = 0
  \/ \E edge \in 3 .. MaxLength(m) :
       /\ \A j \in 2 .. edge - 1 : WordAt(a, j) = WordAt(m, j)
       /\ \E p \in 0 .. WordBytes : WordAt(a, edge) = FirstBytes(WordAt(m, edge), p)
       /\ \A j \in edge + 1 .. MaxLength(a) : WordAt(a, j) = 0

LEMMA ZeroBeyond ==
  ASSUME NEW a, IsMemory(a), NEW c \in Nat, Leftover(a, c),
         NEW j \in 3 .. MaxLength(a), c <= (j - 1) * WordBytes
  PROVE  WordAt(a, j) = 0
<1> DEFINE f == (j - 1) * WordBytes  g == j * WordBytes  len == Len(a)
<1>1. /\ a \in Seq(Byte) /\ g <= len /\ j \in Nat \ {0} /\ len \in Nat /\ WordBytes \in Nat
  <2>1. a \in Seq(Byte) /\ MaxLength(a) \in Nat /\ \A k \in 1 .. MaxLength(a) : k * WordBytes <= Len(a)
    BY MemoryWords
  <2>2. j \in 1 .. MaxLength(a) /\ j \in Nat \ {0}
    BY <2>1
  <2> QED BY <2>1, <2>2, LenProperties, SocketAssumption
<1>2. f \in Nat /\ g = f + WordBytes /\ 2 * WordBytes <= f /\ 2 * WordBytes = WordBytes + WordBytes
  <2>1. f \in Nat /\ g = f + WordBytes
    BY <1>1, WordRange
  <2>2. j - 1 \in Nat /\ 2 <= j - 1
    BY <1>1
  <2>3. 2 * WordBytes <= f
    BY <2>2, Products
  <2> QED BY <2>1, <2>3, One
<1>3. c <= f
  OBVIOUS
<1>4. \A i \in 1 .. len : i > 2 * WordBytes /\ i > c => a[i] = 0
  BY DEF Leftover
<1> HIDE DEF f, g, len
<1>5. ASSUME NEW i \in 1 .. WordBytes PROVE a[f + i] = 0
  <2>1. f + i \in 1 .. len /\ f + i > 2 * WordBytes /\ f + i > c
    BY <1>1, <1>2, <1>3
  <2> QED BY <1>4, <2>1
<1> QED BY <1>1, <1>5, ZeroWord DEF f

(* A type of which some bytes are those of another one is one of the two *)
LEMMA TornType ==
  ASSUME NEW s \in Types, NEW t \in Types \cup {0}, NEW v \in Word, NEW e \in Int,
         \A i \in 1 .. WordBytes : BytesOf[v][i] = IF i <= e THEN BytesOf[s][i] ELSE BytesOf[t][i]
  PROVE  v \in Types \cup {0}
<1>1. PICK k \in 1 .. WordBytes :
        \A type \in Types : \A i \in (1 .. WordBytes) \ {k} : BytesOf[type][i] = 0
  BY TypeAssumption
<1>2. \A i \in 1 .. WordBytes : BytesOf[0][i] = 0
  BY RepresentationAssumption
<1>3. s \in Word /\ t \in Word
  BY SocketAssumption, ZeroIsWord
<1>4. BytesOf[v] \in Bytes /\ BytesOf[s] \in Bytes /\ BytesOf[t] \in Bytes
  BY <1>3, WordOfBytes
<1>5. \A i \in (1 .. WordBytes) \ {k} : BytesOf[s][i] = 0 /\ BytesOf[t][i] = 0
  BY <1>1, <1>2
<1>6. \A i \in (1 .. WordBytes) \ {k} : BytesOf[v][i] = 0
  BY <1>5
<1>7. CASE k <= e
  <2>1. \A i \in 1 .. WordBytes : BytesOf[v][i] = BytesOf[s][i]
    BY <1>1, <1>5, <1>6, <1>7
  <2>2. BytesOf[v] = BytesOf[s]
    <3>1. /\ BytesOf[v] = [i \in 1 .. WordBytes |-> BytesOf[v][i]]
          /\ BytesOf[s] = [i \in 1 .. WordBytes |-> BytesOf[s][i]]
      BY <1>4 DEF Bytes
    <3> QED BY <2>1, <3>1
  <2>3. v = s
    BY <1>3, <2>2, RepresentationAssumption
  <2> QED BY <2>3
<1>8. CASE ~ (k <= e)
  <2>1. \A i \in 1 .. WordBytes : BytesOf[v][i] = BytesOf[t][i]
    BY <1>1, <1>5, <1>6, <1>8
  <2>2. BytesOf[v] = BytesOf[t]
    <3>1. /\ BytesOf[v] = [i \in 1 .. WordBytes |-> BytesOf[v][i]]
          /\ BytesOf[t] = [i \in 1 .. WordBytes |-> BytesOf[t][i]]
      BY <1>4 DEF Bytes
    <3> QED BY <2>1, <3>1
  <2>3. v = t
    BY <1>3, <2>2, RepresentationAssumption
  <2> QED BY <2>3
<1> QED BY <1>7, <1>8

LEMMA Edge ==
  ASSUME NEW c \in Nat \ {0}
  PROVE  \E k \in Nat \ {0} : (k - 1) * WordBytes < c /\ c <= k * WordBytes
<1> DEFINE l == WordBytes  q == (c - 1) \div l
<1>1. l \in Nat \ {0} /\ c - 1 \in Nat
  BY SocketAssumption
<1> HIDE DEF l
<1>2. q \in Nat /\ q * l <= c - 1 /\ c - 1 < q * l + l /\ q * l \in Nat
  BY <1>1, Z3
<1> HIDE DEF q
<1>3. (q + 1) * l = q * l + l
  BY <1>1, <1>2, Z3
<1>4. q + 1 \in Nat \ {0} /\ (q + 1) - 1 = q
  BY <1>2
<1>5. q * l < c /\ c <= (q + 1) * l
  <2> DEFINE x == q * l  y == (q + 1) * l
  <2>1. x \in Nat /\ x <= c - 1 /\ c - 1 < x + l /\ y = x + l
    BY <1>2, <1>3
  <2> HIDE DEF x, y
  <2>2. x < c /\ c <= y
    BY <1>1, <2>1
  <2> QED BY <2>2 DEF x, y
<1> QED BY <1>4, <1>5 DEF l

LEMMA Cut ==
  ASSUME NEW a, IsMemory(a), NEW m, NEW c \in Nat, Leftover(a, c),
         c > WordBytes => /\ IsMessage(m) /\ LengthOf(a) = LengthOf(m) /\ c <= Size(m)
                          /\ \A i \in 1 .. c : a[i] = m[i]
  PROVE  ReadsAsPrefix(a, m)
<1> DEFINE W == WordBytes  two == 2 * W  n == MaxLength(a)
<1>1. /\ a \in Seq(Byte) /\ n \in Nat /\ n >= 2 /\ Len(a) \in Nat /\ two <= Len(a)
      /\ two = W + W /\ W \in Nat \ {0} /\ \A j \in 1 .. n : WordAt(a, j) \in Word
  BY MemoryWords, One, LenProperties, SocketAssumption
<1>a. (2 - 1) * WordBytes = W
  BY <1>1
<1>2. PICK t \in Types \cup {0} : \A i \in 1 .. W : W + i > c => a[W + i] = BytesOf[t][i]
  BY DEF Leftover
<1>3. ASSUME c <= two PROVE \A j \in 3 .. n : WordAt(a, j) = 0
  <2> TAKE j \in 3 .. n
  <2>1. j - 1 \in Nat /\ 2 <= j - 1
    BY <1>1
  <2>2. two <= (j - 1) * WordBytes /\ (j - 1) * WordBytes \in Nat
    BY <2>1, Products
  <2>3. c <= (j - 1) * WordBytes
    <3> DEFINE x == (j - 1) * WordBytes
    <3>1. x \in Nat /\ two <= x
      BY <2>2
    <3> HIDE DEF x, two
    <3>2. c <= x
      BY <1>1, <1>3, <3>1
    <3> QED BY <3>2 DEF x
  <2> QED BY <2>3, ZeroBeyond
<1>4. CASE c <= W
  <2>1. \A i \in 1 .. W : a[(2 - 1) * WordBytes + i] = BytesOf[t][i]
    <3> TAKE i \in 1 .. W
    <3>1. W + i > c
      BY <1>1, <1>4
    <3> QED BY <1>2, <1>a, <3>1
  <2>2. t \in Word
    BY SocketAssumption, ZeroIsWord
  <2>3. TypeOf(a) = t
    <3>1. ASSUME NEW j \in Nat \ {0}, j = 2 PROVE WordAt(a, j) = t
      <4>1. \A i \in 1 .. WordBytes : a[(j - 1) * WordBytes + i] = BytesOf[t][i]
        BY <2>1, <3>1
      <4> QED BY <1>1, <2>2, <4>1, WordFromBytes
    <3> QED BY <3>1 DEF TypeOf
  <2>4. c <= two
    BY <1>1, <1>4
  <2> QED BY <1>3, <2>3, <2>4 DEF ReadsAsPrefix
<1>5. CASE c > W
  <2>1. /\ IsMessage(m) /\ LengthOf(a) = LengthOf(m) /\ c <= Size(m)
        /\ \A i \in 1 .. c : a[i] = m[i]
    BY <1>5
  <2>2. /\ IsMemory(m) /\ m \in Seq(Byte) /\ Size(m) \in Nat /\ Size(m) <= Len(m)
        /\ LengthOf(m) \in Nat /\ two <= Size(m) /\ TypeOf(m) \in Types /\ Len(m) \in Nat
    BY <1>1, <2>1, MessageSize, LenProperties DEF IsMessage
  <2>3. CASE c <= two
    <3>1. \A i \in 1 .. W : BytesOf[TypeOf(m)][i] = m[W + i]
      <4>1. 2 \in Nat \ {0} /\ 2 * WordBytes <= Len(m)
        BY <1>1, <2>2
      <4> QED BY <1>a, <2>2, <4>1, BytesRead DEF TypeOf
    <3>2. \A i \in 1 .. W : BytesOf[TypeOf(a)][i] = a[W + i]
      <4>1. 2 \in Nat \ {0} /\ 2 * WordBytes <= Len(a)
        BY <1>1
      <4> QED BY <1>1, <1>a, <4>1, BytesRead DEF TypeOf
    <3>3. TypeOf(a) \in Word
      BY <1>1 DEF TypeOf
    <3>4. ASSUME NEW i \in 1 .. W
          PROVE BytesOf[TypeOf(a)][i] = IF i <= c - W THEN BytesOf[TypeOf(m)][i] ELSE BytesOf[t][i]
      <4>1. CASE i <= c - W
        <5>1. W + i \in 1 .. c
          BY <1>1, <4>1
        <5> QED BY <2>1, <3>1, <3>2, <4>1, <5>1
      <4>2. CASE ~ (i <= c - W)
        <5>1. W + i > c
          BY <1>1, <4>2
        <5> QED BY <1>2, <3>2, <4>2, <5>1
      <4> QED BY <4>1, <4>2
    <3>5. c - W \in Int
      BY <1>1
    <3>6. TypeOf(a) \in Types \cup {0}
      BY <2>2, <3>3, <3>4, <3>5, TornType
    <3> QED BY <1>3, <2>3, <3>6 DEF ReadsAsPrefix
  <2>4. CASE c > two
    <3>1. PICK k \in Nat \ {0} : (k - 1) * WordBytes < c /\ c <= k * WordBytes
      <4>1. c \in Nat \ {0}
        BY <1>1, <1>5
      <4> HIDE DEF W, two
      <4> QED BY <4>1, Edge
    <3> DEFINE x == (k - 1) * WordBytes  y == k * WordBytes  p == c - x
    <3>2. x \in Nat /\ y = x + W /\ x < c /\ c <= y
      BY <3>1, WordRange
    <3>3. k >= 3
      <4> SUFFICES ASSUME k <= 2 PROVE FALSE
        BY <3>1
      <4>1. y <= two
        BY <3>1, Products
      <4> HIDE DEF x, y
      <4> QED BY <1>1, <2>4, <3>2, <4>1
    <3>4. k <= LengthOf(m)
      <4> SUFFICES ASSUME ~ (k <= LengthOf(m)) PROVE FALSE
        OBVIOUS
      <4>1. k - 1 \in Nat /\ LengthOf(m) <= k - 1
        BY <2>2, <3>1
      <4>2. Size(m) <= x
        BY <2>2, <4>1, Products DEF Size
      <4> HIDE DEF x
      <4> QED BY <2>1, <2>2, <3>2, <4>2
    <3>5. /\ LengthOf(m) <= MaxLength(m) /\ LengthOf(m) <= n /\ MaxLength(m) \in Nat
      BY <2>1, <2>2, MemoryWords
    <3>6. k \in 3 .. MaxLength(m) /\ k \in 1 .. n
      BY <1>1, <2>2, <3>3, <3>4, <3>5
    <3>7. y <= Len(a) /\ y <= Len(m) /\ y \in Nat
      <4>1. k \in 1 .. MaxLength(m)
        BY <3>6
      <4> QED BY <2>2, <3>6, <4>1, MemoryWords, Products
    <3>8. ASSUME NEW j \in 2 .. k - 1 PROVE WordAt(a, j) = WordAt(m, j)
      <4> DEFINE f == (j - 1) * WordBytes  g == j * WordBytes
      <4>1. j \in Nat \ {0} /\ j < k
        BY <3>1
      <4>2. f \in Nat /\ g \in Nat /\ g <= x
        BY <3>1, <4>1, WordRange, WordsApart
      <4>3. \A i \in f + 1 .. g : a[i] = m[i]
        <5> HIDE DEF f, g, x, y
        <5> TAKE i \in f + 1 .. g
        <5>1. i \in 1 .. c
          BY <3>2, <4>2
        <5> QED BY <2>1, <5>1
      <4> QED BY <1>1, <2>2, <4>1, <4>3, SameWord
    <3>9. p \in 0 .. W
      <4> HIDE DEF x, y
      <4> QED BY <1>1, <3>2
    <3>10. WordAt(a, k) = FirstBytes(WordAt(m, k), p)
      <4>1. \A i \in 1 .. W : BytesOf[WordAt(m, k)][i] = m[x + i]
        BY <2>2, <3>1, <3>7, BytesRead
      <4>2. ASSUME NEW i \in 1 .. W
            PROVE a[x + i] = IF i <= p THEN BytesOf[WordAt(m, k)][i] ELSE 0
        <5>a. p = c - x
          OBVIOUS
        <5> HIDE DEF x, y, p
        <5>1. CASE i <= p
          <6>1. x + i \in 1 .. c
            BY <3>2, <5>1, <5>a
          <6> QED BY <2>1, <4>1, <5>1, <6>1
        <5>2. CASE ~ (i <= p)
          <6>1. x + i > c /\ x + i \in 1 .. Len(a) /\ x + i > two
            BY <1>1, <2>4, <3>2, <3>7, <5>2, <5>a
          <6>2. a[x + i] = 0
            BY <6>1 DEF Leftover, two
          <6> QED BY <5>2, <6>2
        <5> QED BY <5>1, <5>2
      <4>3. BytesAt(a, k) = [i \in 1 .. W |-> IF i <= p THEN BytesOf[WordAt(m, k)][i] ELSE 0]
        <5>1. BytesAt(a, k) = [i \in 1 .. W |-> a[x + i]]
          BY DEF BytesAt
        <5> HIDE DEF x, p
        <5> QED BY <4>2, <5>1
      <4> QED BY <4>3 DEF FirstBytes, WordAt
    <3>11. ASSUME NEW j \in k + 1 .. n PROVE WordAt(a, j) = 0
      <4>1. j \in Nat \ {0} /\ k < j /\ j \in 3 .. n
        BY <3>1, <3>3, <1>1
      <4>2. y <= (j - 1) * WordBytes /\ (j - 1) * WordBytes \in Nat
        BY <3>1, <4>1, WordsApart, WordRange
      <4>3. c <= (j - 1) * WordBytes
        <5> DEFINE z == (j - 1) * WordBytes
        <5>1. z \in Nat /\ y <= z
          BY <4>2
        <5> HIDE DEF x, y, z
        <5>2. c <= z
          BY <1>1, <3>2, <5>1
        <5> QED BY <5>2 DEF z
      <4> QED BY <4>1, <4>3, ZeroBeyond
    <3> HIDE DEF p, x, y
    <3> QED BY <3>6, <3>8, <3>9, <3>10, <3>11 DEF ReadsAsPrefix
  <2> QED BY <1>1, <2>3, <2>4
<1> QED BY <1>1, <1>4, <1>5
(* A receive that ends at the end of the stream has received everything *)
LEMMA ReceiverGetsEnd ==
  ASSUME SocketInv, ReadEnd
  PROVE  SocketInv' /\ received = sent
<1> DEFINE K == Len(sent)  R == Len(received)  a == receiver.memory  z == Consumed(receiver)
<1>1. /\ receiver.pc \in {"length", "body"} /\ wire = <<>> /\ ~ SenderOpen
      /\ receiver' = [receiver EXCEPT !.pc = "failure"]
      /\ UNCHANGED <<sender, wire, sent, received, built>>
  BY DEF ReadEnd, Return
<1>2. /\ ReceiverOK(receiver) /\ StreamInv /\ HistoryInv
      /\ receiver \in [pc : {"idle", "length", "body", "success", "failure", "closed"},
                       memory : Seq(Byte), head : Seq(Byte), left : Nat]
      /\ IsMemory(a) /\ Leftover(a, z)
  BY <1>1 DEF SocketInv, ReceiverOK
<1>3. /\ z \in Nat /\ WordBytes \in Nat \ {0}
      /\ receiver.pc = "length" => z < WordBytes
      /\ receiver.pc = "body" => z < Size(a) /\ Size(a) \in Nat
  BY <1>2, ReadSoFar, MemoryWords, SocketAssumption
<1>4. /\ receiver'.pc = "failure" /\ receiver'.memory = a
      /\ receiver' \in [pc : {"idle", "length", "body", "success", "failure", "closed"},
                        memory : Seq(Byte), head : Seq(Byte), left : Nat]
  BY <1>1, <1>2
<1>5. ReceiverOK(receiver')
  BY <1>2, <1>4 DEF ReceiverOK
<1>6. HistoryInv'
  BY <1>1, <1>2 DEF HistoryInv
<1>7. received = sent /\ ReadsAsPrefix(a, sender.memory)
  <2>1. CASE Drained
    <3>1. z = 0
      BY <1>1, <2>1 DEF Drained, Consumed
    <3>2. ReadsAsPrefix(a, sender.memory)
      <4> HIDE DEF z, a
      <4>1. ~ (z > WordBytes)
        BY <1>3, <3>1
      <4> QED BY <1>2, <1>3, <4>1, Cut
    <3> QED BY <2>1, <3>2 DEF Drained
  <2>2. CASE ~ Drained
    <3>1. PICK b, M : Stream(b, M)
      BY <1>1, <1>2, <2>2 DEF StreamInv
    <3> DEFINE m == M[R + 1]  p == Partial(sender)
    <3>2. /\ K \in Nat /\ R \in Nat /\ R <= K /\ b[R] \in Nat /\ b[K + 1] \in Nat
          /\ Len(wire) = b[K + 1] - (b[R] + z)
          /\ R < K => IsMessage(m) /\ b[R + 1] = b[R] + Size(m) /\ b[R + 1] <= b[K + 1]
          /\ R = K => Len(wire) = p - z /\ (p > 0 => m = sender.memory)
          /\ p \in Nat /\ (p > 0 => IsMessage(sender.memory) /\ p < Size(sender.memory))
      BY <3>1, Incoming
    <3>3. receiver.pc = "body" => LengthOf(a) = LengthOf(m) /\ \A i \in 1 .. z : a[i] = m[i]
      BY <3>1 DEF Stream, Consistent
    <3>4. Len(wire) = 0
      BY <1>1
    <3>5. R = K
      <4> SUFFICES ASSUME R < K PROVE FALSE
        <5> HIDE DEF R, K
        <5> QED BY <3>2
      <4>1. IsMessage(m)
        BY <3>2
      <4>2. WordBytes + WordBytes <= Size(m) /\ Size(m) \in Nat
        BY <4>1, MessageSize
      <4>3. z < Size(m)
        <5>1. CASE receiver.pc = "length"
          <6> HIDE DEF z, m
          <6> QED BY <1>3, <4>2, <5>1
        <5>2. CASE receiver.pc = "body"
          <6>1. Size(m) = Size(a)
            BY <3>3, <5>2 DEF Size
          <6> QED BY <1>3, <5>2, <6>1
        <5> QED BY <1>1, <5>1, <5>2
      <4> DEFINE x == b[R]  y == b[R + 1]  u == b[K + 1]  size == Size(m)
      <4>4. x \in Nat /\ u \in Nat /\ y = x + size /\ y <= u /\ 0 = u - (x + z) /\ size \in Nat
            /\ z < size
        BY <3>2, <3>4, <4>2, <4>3
      <4> HIDE DEF x, y, u, size, z
      <4> QED BY <1>3, <4>4
    <3>6. received = sent
      <4>1. /\ sent \in Seq(Messages) /\ received \in Seq(Messages)
            /\ \A k \in 1 .. Len(received) : received[k] = sent[k]
        BY <1>2 DEF HistoryInv
      <4>2. received = [k \in 1 .. R |-> received[k]] /\ sent = [k \in 1 .. K |-> sent[k]]
        BY <4>1
      <4> HIDE DEF R, K
      <4> QED BY <3>5, <4>1, <4>2 DEF R
    <3>7. p = z
      <4> HIDE DEF p, z, R, K
      <4> QED BY <1>3, <3>2, <3>4, <3>5
    <3>8. ASSUME z > WordBytes
          PROVE  /\ IsMessage(sender.memory) /\ LengthOf(a) = LengthOf(sender.memory)
                 /\ z <= Size(sender.memory) /\ \A i \in 1 .. z : a[i] = sender.memory[i]
      <4>1. p > 0
        <5> HIDE DEF p, z
        <5> QED BY <1>3, <3>7, <3>8
      <4>2. m = sender.memory /\ IsMessage(sender.memory) /\ p < Size(sender.memory)
        BY <3>2, <3>5, <4>1
      <4>3. receiver.pc = "body"
        <5> HIDE DEF z
        <5> QED BY <1>1, <1>3, <3>8
      <4>4. z <= Size(sender.memory)
        <5>1. Size(sender.memory) \in Nat
          BY <4>2, MessageSize
        <5> HIDE DEF p, z
        <5> QED BY <1>3, <3>7, <4>2, <5>1
      <4> QED BY <3>3, <4>2, <4>3, <4>4
    <3>9. ReadsAsPrefix(a, sender.memory)
      <4> HIDE DEF z, a
      <4> QED BY <1>2, <1>3, <3>8, Cut
    <3> QED BY <3>6, <3>9
  <2> QED BY <2>1, <2>2
<1>8. Drained'
  BY <1>1, <1>4, <1>7 DEF Drained, SenderOpen
<1>9. CutReadsAsPrefix'
  BY <1>1, <1>4, <1>7 DEF CutReadsAsPrefix, ReadsAsPrefix
<1>10. StreamInv' /\ FailInv'
  BY <1>8, <1>9 DEF StreamInv, FailInv
<1> QED BY <1>1, <1>5, <1>6, <1>7, <1>10 DEF SocketInv

(* What is received is the next message that was sent *)
LEMMA Delivered ==
  ASSUME SocketInv, Extract, receiver.pc = "success"
  PROVE  /\ Len(received) < Len(sent)
         /\ received' = Append(received, sent[Len(received) + 1])
         /\ \E b, M : /\ Stream(b, M)
                      /\ b[Len(received) + 1] = b[Len(received)] + Consumed(receiver)
<1> DEFINE K == Len(sent)  R == Len(received)  a == receiver.memory  L == LengthOf(a)
           content == [i \in 1 .. L - 2 |-> CHOOSE word \in extract_message_word(a, i - 1) : TRUE]
           got == <<TypeOf(a)>> \o content
<1>1. received' = Append(received, got)
  BY DEF Extract
<1>2. ReceiverOK(receiver) /\ IsMemory(a) /\ StreamInv
  BY DEF SocketInv, ReceiverOK
<1>3. PICK b, M : Stream(b, M)
  BY <1>2 DEF StreamInv, Drained
<1> DEFINE m == M[R + 1]  z == Consumed(receiver)
<1>4. z = Size(a) /\ z \in Nat /\ L >= 2
  BY <1>2, ReadSoFar DEF ReceiverOK
<1>5. L = LengthOf(m) /\ \A i \in 1 .. z : a[i] = m[i]
  BY <1>3 DEF Stream, Consistent
<1>6. /\ a \in Seq(Byte) /\ L \in Nat /\ L <= MaxLength(a) /\ MaxLength(a) \in Nat
      /\ \A j \in 1 .. MaxLength(a) : WordAt(a, j) \in Word
  BY <1>2, MemoryWords
<1>7. /\ K \in Nat /\ R \in Nat /\ R <= K
      /\ Len(wire) = b[K + 1] - (b[R] + z)
      /\ R < K => IsMessage(m) /\ sent[R + 1] = Words(m) /\ b[R + 1] = b[R] + Size(m)
      /\ R = K => Len(wire) = Partial(sender) - z /\ (Partial(sender) > 0 => m = sender.memory)
      /\ Partial(sender) \in Nat
      /\ (Partial(sender) > 0 => IsMessage(sender.memory) /\ Partial(sender) < Size(sender.memory))
  BY <1>3, Incoming
<1>8. Size(m) = z
  BY <1>4, <1>5 DEF Size
<1>9. R < K
  <2> SUFFICES ASSUME R = K PROVE FALSE
    <3> HIDE DEF R, K
    <3> QED BY <1>7
  <2>1. Len(wire) \in Nat /\ Partial(sender) \in Nat /\ Len(wire) = Partial(sender) - z
    BY <1>7, LenProperties DEF SocketInv, HistoryInv
  <2>2. z > 0
    <3>1. 2 * WordBytes <= z
      BY <1>4, <1>6, Products DEF Size
    <3> HIDE DEF z
    <3> QED BY <1>4, <3>1, One, SocketAssumption
  <2>3. Partial(sender) > 0
    <3> HIDE DEF z
    <3> QED BY <1>4, <2>1, <2>2
  <2>4. m = sender.memory /\ Partial(sender) < Size(sender.memory)
    BY <1>7, <2>3
  <2>5. Partial(sender) < z
    BY <1>8, <2>4
  <2> HIDE DEF z
  <2> QED BY <1>4, <2>1, <2>5
<1>10. IsMessage(m) /\ sent[R + 1] = Words(m) /\ b[R + 1] = b[R] + z /\ m \in Seq(Byte)
  BY <1>7, <1>8, <1>9, MessageSize
<1> HIDE DEF K, R, m
<1>11. ASSUME NEW j \in 1 .. L PROVE WordAt(a, j) = WordAt(m, j)
  <2> DEFINE f == (j - 1) * WordBytes  g == j * WordBytes
  <2>1. j \in Nat \ {0} /\ j <= L
    BY <1>6
  <2>2. f \in Nat /\ g \in Nat /\ g <= z
    BY <1>4, <1>6, <2>1, WordRange, Products DEF Size
  <2>3. \A i \in f + 1 .. g : a[i] = m[i]
    <3> HIDE DEF f, g, z
    <3> TAKE i \in f + 1 .. g
    <3>1. i \in 1 .. z
      BY <1>4, <2>2
    <3> QED BY <1>5, <3>1
  <2> QED BY <1>6, <1>10, <2>1, <2>3, SameWord
<1>12. /\ content = [i \in 1 .. L - 2 |-> WordAt(a, i + 2)]
       /\ \A i \in 1 .. L - 2 : WordAt(a, i + 2) \in Word
  <2>1. ASSUME NEW i \in 1 .. L - 2
        PROVE  /\ (CHOOSE word \in extract_message_word(a, i - 1) : TRUE) = WordAt(a, i + 2)
               /\ WordAt(a, i + 2) \in Word
    <3> DEFINE len == MaxLength(a)  l == L
    <3>1. len \in Nat /\ l \in Nat /\ l <= len /\ i \in 1 .. l - 2
      BY <1>6
    <3> HIDE DEF len, l
    <3>2. ~ (i - 1 >= len - 2) /\ (i - 1) + 3 = i + 2 /\ i + 2 \in 1 .. len
      BY <3>1
    <3>3. extract_message_word(a, i - 1) = {WordAt(a, i + 2)}
      BY <3>2 DEF extract_message_word, len
    <3>4. WordAt(a, i + 2) \in Word
      BY <1>6, <3>2 DEF len
    <3> QED BY <3>3, <3>4
  <2> QED BY <2>1
<1> HIDE DEF content
<1>13. TypeOf(a) \in Word /\ L - 2 \in Nat
  <2>1. 2 \in 1 .. MaxLength(a)
    BY <1>4, <1>6
  <2> QED BY <1>4, <1>6, <2>1 DEF TypeOf
<1> HIDE DEF L
<1>14. /\ content \in Seq(Word) /\ Len(content) = L - 2
       /\ \A i \in 1 .. L - 2 : content[i] = WordAt(a, i + 2)
  BY <1>12, <1>13
<1>15. /\ got \in Seq(Word) /\ Len(got) = L - 1
       /\ \A j \in 1 .. L - 1 : got[j] = WordAt(a, j + 1)
  <2> DEFINE t == <<TypeOf(a)>>  n == L - 2
  <2>1. t \in Seq(Word) /\ Len(t) = 1 /\ t[1] = TypeOf(a)
    BY <1>13
  <2>2. content \in Seq(Word) /\ Len(content) = n /\ n \in Nat
    BY <1>13, <1>14
  <2>3. got = t \o content
    OBVIOUS
  <2> HIDE DEF t, n, got
  <2>4. /\ t \o content \in Seq(Word) /\ Len(t \o content) = 1 + n
        /\ (t \o content)[1] = t[1]
        /\ \A i \in 1 + 1 .. 1 + n : (t \o content)[i] = content[i - 1]
    <3>1. /\ t \o content \in Seq(Word) /\ Len(t \o content) = Len(t) + Len(content)
          /\ \A i \in 1 .. Len(t) + Len(content) :
               (t \o content)[i] = IF i <= Len(t) THEN t[i] ELSE content[i - Len(t)]
      BY <2>1, <2>2, ConcatProperties, Zenon
    <3>2. \A i \in 1 .. 1 + n : (t \o content)[i] = IF i <= 1 THEN t[i] ELSE content[i - 1]
      BY <2>1, <2>2, <3>1
    <3> QED BY <2>1, <2>2, <3>1, <3>2
  <2>5. 1 + n = L - 1
    BY <1>4, <1>6 DEF n
  <2>6. ASSUME NEW j \in 1 .. L - 1 PROVE got[j] = WordAt(a, j + 1)
    <3>1. CASE j = 1
      BY <2>1, <2>3, <2>4, <3>1 DEF TypeOf
    <3>2. CASE j # 1
      <4>1. j \in 1 + 1 .. 1 + n /\ j - 1 \in 1 .. n /\ (j - 1) + 2 = j + 1
        BY <2>2, <2>5, <3>2
      <4>2. content[j - 1] = WordAt(a, j + 1)
        BY <1>14, <4>1 DEF n
      <4> QED BY <2>3, <2>4, <4>1, <4>2
    <3> QED BY <3>1, <3>2
  <2> QED BY <2>3, <2>4, <2>5, <2>6
<1> HIDE DEF got
<1>16. got = Words(m)
  <2>1. got = [j \in 1 .. L - 1 |-> got[j]]
    BY <1>15
  <2>2. Words(m) = [j \in 1 .. L - 1 |-> WordAt(m, j + 1)]
    BY <1>5 DEF Words
  <2>3. ASSUME NEW j \in 1 .. L - 1 PROVE got[j] = WordAt(m, j + 1)
    <3>1. j + 1 \in 1 .. L
      BY <1>4, <1>6
    <3> QED BY <1>11, <1>15, <3>1
  <2> QED BY <2>1, <2>2, <2>3
<1> QED BY <1>1, <1>3, <1>9, <1>10, <1>16 DEF K, R
LEMMA ReceiverExtracts ==
  ASSUME SocketInv, Extract
  PROVE  SocketInv'
<1> DEFINE K == Len(sent)  R == Len(received)
<1>1. /\ receiver.pc \in {"success", "failure"}
      /\ receiver' = [receiver EXCEPT !.pc = "idle"]
      /\ receiver.pc = "failure" => received' = received
      /\ UNCHANGED <<sender, wire, sent, built>>
  BY DEF Extract, Return
<1>2. /\ ReceiverOK(receiver) /\ StreamInv /\ HistoryInv /\ FailInv
      /\ receiver \in [pc : {"idle", "length", "body", "success", "failure", "closed"},
                       memory : Seq(Byte), head : Seq(Byte), left : Nat]
      /\ IsMemory(receiver.memory)
  BY DEF SocketInv, ReceiverOK
<1>3. /\ receiver'.pc = "idle" /\ receiver'.memory = receiver.memory
      /\ receiver' \in [pc : {"idle", "length", "body", "success", "failure", "closed"},
                        memory : Seq(Byte), head : Seq(Byte), left : Nat]
  BY <1>1, <1>2
<1>4. ReceiverOK(receiver') /\ Consumed(receiver') = 0
  BY <1>2, <1>3 DEF ReceiverOK, Consumed
<1>5. FailInv'
  BY <1>3 DEF FailInv
<1>6. CASE receiver.pc = "failure"
  <2>1. Drained'
    BY <1>1, <1>2, <1>3, <1>6 DEF FailInv, Drained, SenderOpen
  <2>2. HistoryInv' /\ StreamInv'
    BY <1>1, <1>2, <1>6, <2>1 DEF HistoryInv, StreamInv
  <2> QED BY <1>1, <1>4, <1>5, <2>2 DEF SocketInv
<1>7. CASE receiver.pc = "success"
  <2>1. PICK b, M : Stream(b, M) /\ b[R + 1] = b[R] + Consumed(receiver)
    BY <1>7, Delivered
  <2>2. R < K /\ received' = Append(received, sent[R + 1])
    BY <1>7, Delivered
  <2>3. /\ sent \in Seq(Messages) /\ received \in Seq(Messages) /\ K \in Nat /\ R \in Nat
        /\ \A k \in 1 .. R : received[k] = sent[k]
    BY <1>2, LenProperties DEF HistoryInv
  <2>4. /\ received' \in Seq(Messages) /\ Len(received') = R + 1 /\ R + 1 <= K
        /\ \A k \in 1 .. R + 1 : received'[k] = sent[k]
    <3>1. R + 1 \in 1 .. K
      <4> HIDE DEF R, K
      <4> QED BY <2>2, <2>3
    <3>2. sent[R + 1] \in Messages
      BY <2>3, <3>1
    <3>3. /\ received' \in Seq(Messages) /\ Len(received') = R + 1
          /\ received'[R + 1] = sent[R + 1] /\ \A k \in 1 .. R : received'[k] = received[k]
      BY <2>2, <2>3, <3>2, AppendProperties
    <3> HIDE DEF R, K
    <3>4. \A k \in 1 .. R + 1 : k \in 1 .. R \/ k = R + 1
      BY <2>3
    <3> QED BY <2>3, <3>1, <3>3, <3>4
  <2>5. HistoryInv'
    BY <1>1, <1>2, <2>4 DEF HistoryInv
  <2>6. b[R + 1] \in Nat
    <3>1. b \in [Nat -> Nat] /\ R + 1 \in Nat
      BY <2>1, <2>3 DEF Stream, Ends
    <3> QED BY <3>1
  <2>7. Consistent(receiver', M[(R + 1) + 1])
    BY <1>4, NothingRead
  <2>8. Stream(b, M)'
    <3>1. b[Len(received')] + Consumed(receiver') = b[R] + Consumed(receiver)
      <4>1. b[R + 1] + 0 = b[R + 1]
        BY <2>6
      <4> HIDE DEF R
      <4> QED BY <1>4, <2>1, <2>4, <4>1
    <3>2. Consistent(receiver', M[Len(received') + 1])
      BY <2>4, <2>7
    <3> QED BY <1>1, <2>1, <3>1, <3>2 DEF Stream
  <2>9. StreamInv'
    BY <2>8 DEF StreamInv
  <2> QED BY <1>1, <1>4, <1>5, <2>5, <2>9 DEF SocketInv
<1> QED BY <1>1, <1>6, <1>7

-----------------------------------------------------------------------------
(* What holds in every state                                               *)

LEMMA NextHolds == SocketInv /\ [Next]_vars => SocketInv'
<1> SUFFICES ASSUME SocketInv, [Next]_vars PROVE SocketInv'
  OBVIOUS
<1>0. 1 .. Capacity \subseteq Nat \ {0}
  BY SocketAssumption
<1>1. CASE \/ \E type \in Types : BuildHead(type)
           \/ \E word \in Content : InsertWord(word)
           \/ BeginSend
           \/ SenderEnds
  BY <1>1, SenderQuiet
<1>2. CASE Writing
  BY <1>0, <1>2, SenderWrites, SenderFails DEF Writing
<1>3. CASE Receiving
  <2>1. CASE BeginReceive
    BY <2>1, ReceiverBegins
  <2>2. ASSUME NEW n \in 1 .. Capacity, ReadLength(n) PROVE SocketInv'
    BY <1>0, <2>2, ReceiverReadsLength
  <2>3. ASSUME NEW n \in 1 .. Capacity, ReadBody(n) PROVE SocketInv'
    BY <1>0, <2>3, ReceiverReadsBody
  <2>4. CASE ReadEnd
    BY <2>4, ReceiverGetsEnd
  <2>5. CASE Extract
    BY <2>5, ReceiverExtracts
  <2> QED BY <1>3, <2>1, <2>2, <2>3, <2>4, <2>5 DEF Receiving
<1>4. CASE ReceiverEnds
  BY <1>4, ReceiverLeaves
<1>5. CASE UNCHANGED vars
  <2>1. UNCHANGED <<sender, wire, receiver, sent, received, built>>
    BY <1>5 DEF vars
  <2> QED BY <2>1 DEF SocketInv, HistoryInv, StreamInv, FailInv, Stream, Drained, SenderOpen,
                      CutReadsAsPrefix
<1> QED BY <1>1, <1>2, <1>3, <1>4, <1>5 DEF Next

(* Whatever the sizes of words, buffers and messages are and whatever the  *)
(* bytes of a word, what is on the wire is the rest of the messages that   *)
(* were sent, in their order and not mixed.                                *)
THEOREM StreamHolds == Spec => []SocketInv
<1>1. Init => SocketInv
  BY InitHolds
<1>2. SocketInv /\ [Next]_vars => SocketInv'
  BY NextHolds
<1> QED BY <1>1, <1>2, PTL DEF Spec

(* No read and no write goes beyond the memory of a message, and a memory  *)
(* always holds the words its length speaks of: what network_message.c and *)
(* network_socket.c rely on when they move pointers through it.            *)
THEOREM MemoryRespected == Spec => []TypeOK
<1>1. SocketInv => TypeOK
  <2> SUFFICES ASSUME SocketInv PROVE TypeOK
    OBVIOUS
  <2>1. SenderOK(sender) /\ ReceiverOK(receiver) /\ HistoryInv
    BY DEF SocketInv
  <2>2. IsMemory(sender.memory) /\ IsMemory(receiver.memory)
    BY <2>1 DEF SenderOK, ReceiverOK
  <2>3. \A m \in {sender.memory, receiver.memory} :
          m \in Seq(Byte) /\ Len(m) % WordBytes = 0 /\ LengthOf(m) <= MaxLength(m)
    BY <2>2, MemoryWords
  <2>4. /\ sender.pc \in {"idle", "build", "write", "closed"}
        /\ receiver.pc \in {"idle", "length", "body", "success", "failure", "closed"}
        /\ sender.left <= LengthOf(sender.memory) * WordBytes
    BY <2>1 DEF SenderOK, ReceiverOK, Size
  <2>5. ASSUME receiver.pc = "body"
        PROVE  Position \in WordBytes .. Len(receiver.memory) - receiver.left
    <3> DEFINE size == Size(receiver.memory)  len == Len(receiver.memory)  left == receiver.left
    <3>1. left \in 1 .. size - WordBytes /\ size \in Nat /\ size <= len /\ len \in Nat
          /\ WordBytes \in Nat \ {0}
      BY <2>1, <2>2, <2>5, MemoryWords, LenProperties, SocketAssumption DEF ReceiverOK
    <3>2. Position = size - left
      BY DEF Position, Size
    <3> HIDE DEF size, len, left
    <3>3. size - left \in WordBytes .. len - left
      BY <3>1
    <3> QED BY <3>2, <3>3 DEF len, left
  <2>6. wire \in Seq(Byte) /\ Len(wire) <= Capacity /\ built <= MaxMessages
    BY <2>1 DEF HistoryInv
  <2> QED BY <2>3, <2>4, <2>5, <2>6 DEF TypeOK
<1> QED BY <1>1, StreamHolds, PTL

(* A caller reads no word of an earlier message: after a receive that      *)
(* failed the memory holds the beginning of the message that was cut, and  *)
(* beyond the content of a message that was received there are zeros.      *)
THEOREM StrayWordsNever == Spec => []NoStrayWords
<1>1. SocketInv => NoStrayWords
  <2> SUFFICES ASSUME SocketInv PROVE NoStrayWords
    OBVIOUS
  <2>1. CutReadsAsPrefix
    BY DEF SocketInv, FailInv, CutReadsAsPrefix
  <2>2. BeyondContentIsZero
    <3> DEFINE a == receiver.memory  L == LengthOf(a)  n == MaxLength(a)
    <3> SUFFICES ASSUME receiver.pc = "success", NEW index \in L - 2 .. 2 * n
                 PROVE  extract_message_word(a, index) \subseteq {0}
      BY DEF BeyondContentIsZero
    <3>1. ReceiverOK(receiver) /\ IsMemory(a)
      BY DEF SocketInv, ReceiverOK
    <3>2. Consumed(receiver) = Size(a) /\ L >= 2 /\ Leftover(a, Consumed(receiver))
      BY <3>1, ReadSoFar DEF ReceiverOK
    <3>3. L \in Nat /\ n \in Nat /\ Size(a) \in Nat
      BY <3>1, MemoryWords
    <3>4. CASE index >= n - 2
      BY <3>4 DEF extract_message_word
    <3>5. CASE ~ (index >= n - 2)
      <4> DEFINE j == index + 3
      <4>1. j \in 3 .. n /\ j - 1 \in Nat /\ L <= j - 1
        <5> HIDE DEF L, n
        <5> QED BY <3>2, <3>3, <3>5
      <4>2. Size(a) <= (j - 1) * WordBytes
        BY <3>3, <4>1, Products DEF Size
      <4>3. WordAt(a, j) = 0
        <5> HIDE DEF j, a
        <5> QED BY <3>1, <3>2, <3>3, <4>1, <4>2, ZeroBeyond
      <4> QED BY <3>5, <4>3 DEF extract_message_word
    <3> QED BY <3>4, <3>5
  <2> QED BY <2>1, <2>2 DEF NoStrayWords
<1> QED BY <1>1, StreamHolds, PTL
-----------------------------------------------------------------------------
(* The stream is a channel of messages                                     *)

(* A step that changes neither the sender nor the messages *)
LEMMA ReceiverStep ==
  ASSUME SocketInv', UNCHANGED <<sender, sent, received>>
  PROVE  [Channel!Next]_(Channel!vars)
<1>1. /\ sent' = sent /\ received' = received /\ SenderOpen' = SenderOpen
  BY DEF SenderOpen
<1>2. CASE receiver'.pc = "failure"
  <2>1. ~ SenderOpen' /\ received' = sent'
    BY <1>2 DEF SocketInv, FailInv, Drained
  <2>2. (receiver.pc = "failure")' = TRUE
    BY <1>2
  <2>3. Channel!ReceiveNothing
    BY <1>1, <2>1, <2>2 DEF Channel!ReceiveNothing
  <2> QED BY <2>3 DEF Channel!Next
<1>3. CASE receiver'.pc # "failure"
  <2>1. (receiver.pc = "failure")' = FALSE
    BY <1>3
  <2>2. Channel!TryAgain
    BY <1>1, <2>1 DEF Channel!TryAgain
  <2> QED BY <2>2 DEF Channel!Next
<1> QED BY <1>2, <1>3

LEMMA ChannelStep ==
  ASSUME SocketInv, SocketInv', [Next]_vars
  PROVE  [Channel!Next]_(Channel!vars)
<1>1. ASSUME UNCHANGED <<receiver, sent, received>>, SenderOpen, SenderOpen'
      PROVE  [Channel!Next]_(Channel!vars)
  <2>1. SenderOpen' = SenderOpen /\ (receiver.pc = "failure")' = (receiver.pc = "failure")
    BY <1>1
  <2> QED BY <1>1, <2>1 DEF Channel!vars
<1>2. sender \in [pc : {"idle", "build", "write", "closed"}, memory : Seq(Byte), left : Nat]
  BY DEF SocketInv, SenderOK
<1>3. ASSUME NEW type \in Types, BuildHead(type) PROVE [Channel!Next]_(Channel!vars)
  <2>1. SenderOpen /\ SenderOpen' /\ UNCHANGED <<receiver, sent, received>>
    BY <1>2, <1>3 DEF BuildHead, SenderOpen
  <2> QED BY <1>1, <2>1
<1>4. ASSUME NEW word \in Content, InsertWord(word) PROVE [Channel!Next]_(Channel!vars)
  <2>1. SenderOpen /\ SenderOpen' /\ UNCHANGED <<receiver, sent, received>>
    BY <1>2, <1>4 DEF InsertWord, SenderOpen
  <2> QED BY <1>1, <2>1
<1>5. CASE BeginSend
  <2>1. SenderOpen /\ SenderOpen' /\ UNCHANGED <<receiver, sent, received>>
    BY <1>2, <1>5 DEF BeginSend, SenderOpen
  <2> QED BY <1>1, <2>1
<1>6. CASE WriteFails
  <2>1. SenderOpen /\ SenderOpen' /\ UNCHANGED <<receiver, sent, received>>
    BY <1>2, <1>6 DEF WriteFails, SenderOpen
  <2> QED BY <1>1, <2>1
<1>7. CASE SenderEnds
  <2>1. SenderOpen' = FALSE /\ UNCHANGED <<receiver, sent, received>>
    BY <1>2, <1>7 DEF SenderEnds, SenderOpen
  <2>2. Channel!Close
    BY <2>1 DEF Channel!Close
  <2> QED BY <2>2 DEF Channel!Next
<1>8. ASSUME NEW n \in 1 .. Capacity, Write(n) PROVE [Channel!Next]_(Channel!vars)
  <2>1. /\ sender.pc = "write" /\ UNCHANGED <<receiver, received>>
        /\ sender'.pc \in {"idle", "write"}
        /\ sent' = IF n = sender.left THEN Append(sent, Words(sender.memory)) ELSE sent
    BY <1>2, <1>8 DEF Write
  <2>2. SenderOpen /\ SenderOpen'
    BY <2>1 DEF SenderOpen
  <2>3. CASE n # sender.left
    BY <1>1, <2>1, <2>2, <2>3
  <2>4. CASE n = sender.left
    <3>1. Words(sender.memory) \in Messages
      BY <2>1, WordsOfMessage DEF SocketInv, SenderOK
    <3>2. /\ sent' = Append(sent, Words(sender.memory)) /\ received' = received
          /\ SenderOpen' = SenderOpen /\ (receiver.pc = "failure")' = (receiver.pc = "failure")
      BY <2>1, <2>2, <2>4
    <3>3. Channel!Send(Words(sender.memory))
      BY <2>2, <3>2 DEF Channel!Send
    <3> QED BY <3>1, <3>3 DEF Channel!Next
  <2> QED BY <2>3, <2>4
<1>9. ASSUME \/ BeginReceive
             \/ \E n \in 1 .. Capacity : ReadLength(n) \/ ReadBody(n)
             \/ ReadEnd
             \/ ReceiverEnds
      PROVE  [Channel!Next]_(Channel!vars)
  <2>1. UNCHANGED <<sender, sent, received>>
    BY <1>9 DEF BeginReceive, ReadLength, ReadBody, ReadEnd, ReceiverEnds
  <2> QED BY <2>1, ReceiverStep
<1>10. CASE Extract
  <2>1. receiver.pc \in {"success", "failure"}
    BY <1>10 DEF Extract
  <2>2. CASE receiver.pc = "failure"
    <3>1. UNCHANGED <<sender, sent, received>>
      BY <1>10, <2>2 DEF Extract
    <3> QED BY <3>1, ReceiverStep
  <2>3. CASE receiver.pc = "success"
    <3>1. /\ Len(received) < Len(sent)
          /\ received' = Append(received, sent[Len(received) + 1])
      BY <1>10, <2>3, Delivered
    <3>2. receiver' = [receiver EXCEPT !.pc = "idle"] /\ sent' = sent /\ sender' = sender
      BY <1>10 DEF Extract, Return
    <3>3. receiver'.pc = "idle"
      BY <3>2 DEF SocketInv, ReceiverOK
    <3>4. SenderOpen' = SenderOpen /\ (receiver.pc = "failure")' = (receiver.pc = "failure")
      BY <2>3, <3>2, <3>3 DEF SenderOpen
    <3>5. Channel!Receive
      BY <3>1, <3>2, <3>4 DEF Channel!Receive
    <3> QED BY <3>5 DEF Channel!Next
  <2> QED BY <2>1, <2>2, <2>3
<1>11. CASE UNCHANGED vars
  BY <1>11 DEF vars, Channel!vars, SenderOpen
<1> QED BY <1>3, <1>4, <1>5, <1>6, <1>7, <1>8, <1>9, <1>10, <1>11 DEF Next, Writing, Receiving

(* However a stream cuts what is written to it and however little of it a  *)
(* read returns, send_message_to_socket and receive_message_from_socket    *)
(* make it a channel of whole messages, each received once and in order;   *)
(* a receive fails only if the sender is gone and nothing it sent is left. *)
THEOREM StreamIsChannel == Spec => ImplementsChannel
<1>1. Init => Channel!Init
  <2> SUFFICES ASSUME Init PROVE Channel!Init
    OBVIOUS
  <2>1. /\ sent = <<>> /\ received = <<>>
        /\ SenderOpen = TRUE /\ (receiver.pc = "failure") = FALSE
    BY DEF Init, SenderOpen
  <2> QED BY <2>1 DEF Channel!Init
<1>2. SocketInv /\ SocketInv' /\ [Next]_vars => [Channel!Next]_(Channel!vars)
  BY ChannelStep
<1> QED BY <1>1, <1>2, StreamHolds, PTL DEF Spec, ImplementsChannel, Channel!Spec
=============================================================================
