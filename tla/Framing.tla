------------------------------- MODULE Framing -------------------------------
(***************************************************************************)
(* The frames both ends write on the TLS stream:                           *)
(*                                                                         *)
(*   | Message Size | Message Type |         Data        |                 *)
(*          2              2            MessageSize - 2                    *)
(*                                                                         *)
(* with little endian sizes (Session.cpp:47-50, MatchClient.cpp:69-72).    *)
(* A byte is a digit below Base instead of 256, so that a size is computed *)
(* modulo Base * Base as an unsigned short is modulo 65536.                *)
(***************************************************************************)
EXTENDS Integers, Sequences, SequencesExt

CONSTANTS
  Base,             \* digits per byte, 256 in the program
  READ_BUFFER_SIZE, \* Session.h:6, 4096 in the program
  BodySizes,        \* the sizes of type and data together that are written
  MaxSent           \* bound: how many messages are written

ASSUME BaseAssumption == Base \in Nat /\ Base > 1
ASSUME SizesAssumption ==
  /\ READ_BUFFER_SIZE \in Nat /\ READ_BUFFER_SIZE >= 2
  /\ BodySizes \subseteq Nat \ {0, 1}
  /\ MaxSent \in Nat
\* What the buffer holds has a size that does not wrap (4096 below 65536).
ASSUME WrapAssumption == READ_BUFFER_SIZE < Base * Base

Byte == 0..Base - 1

\* The type and data of a message; its content tells sizes and places apart.
Body(size) == [k \in 1..size |-> (size + k) % Base]
Bodies == {Body(size) : size \in BodySizes}

\* Slip: the bytes in network order.
HeaderBigEndian(size) == <<(size \div Base) % Base, size % Base>>
\* unsigned short, written as it lies in memory.
Header(size) == <<size % Base, (size \div Base) % Base>>
SizeOf(first, second) == first + Base * second

Frame(body) == Header(Len(body)) \o body
=============================================================================
