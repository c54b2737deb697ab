---------------------------- MODULE MCMessageSocket ----------------------------
(* Words of two bytes of two bits, the least significant byte first, and a *)
(* memory that grows with the second content word.  The content words have *)
(* both bytes different from zero, or a zero in the high one.              *)
EXTENDS MessageSocket

LittleEndian == [word \in 0 .. 15 |-> <<word % 4, word \div 4>>]
=============================================================================
