-------------------------- MODULE SessionReaderProofs --------------------------
(***************************************************************************)
(* Proofs about SessionReader, for any base of the bytes, any size of the  *)
(* buffer below the size that wraps, any sizes and any number of messages: *)
(* the session hands on what the client wrote, whole and in order, up to   *)
(* the first message that is too long.                                     *)
(*                                                                         *)
(* The stream holds no marks, so the proof keeps them: while the reader is *)
(* in step there are places at which the frames not yet handed on begin,   *)
(* and from each of them on the stream holds that frame, byte by byte.     *)
(***************************************************************************)
EXTENDS SessionReader, QueueLemmas

-----------------------------------------------------------------------------
(* Numbers *)

\* The digits of a number are bytes.
LEMMA Digits ==
  ASSUME NEW n \in Nat
  PROVE  n % Base \in Byte /\ n \div Base \in Nat /\ (n \div Base) % Base \in Byte
<1>1. Base \in Nat /\ Base > 1
  BY BaseAssumption
<1>2. n % Base \in 0..Base - 1 /\ n \div Base \in Nat
  BY <1>1, TwoDigits
<1>3. (n \div Base) % Base \in 0..Base - 1
  BY <1>1, <1>2, TwoDigits
<1> QED
  BY <1>2, <1>3 DEF Byte

\* The size that is read is the size that was written, below the one that wraps
\* (the unsigned short of MatchClient.cpp:98).
LEMMA SizeOfHeader ==
  ASSUME NEW n \in Nat, n < Base * Base
  PROVE  SizeOf(Header(n)[1], Header(n)[2]) = n
<1>1. Base \in Nat /\ Base > 1
  BY BaseAssumption
<1>2. /\ n % Base \in 0..Base - 1 /\ n \div Base \in Nat
      /\ n = Base * (n \div Base) + (n % Base)
      /\ (n \div Base) % Base = n \div Base
  BY <1>1, TwoDigits
<1>3. Header(n)[1] = n % Base /\ Header(n)[2] = n \div Base
  BY <1>2 DEF Header
<1>4. (n % Base) + Base * (n \div Base) = n
  BY <1>1, <1>2
<1> QED
  BY <1>3, <1>4 DEF SizeOf

-----------------------------------------------------------------------------
(* Messages and frames *)

\* A body is a sequence of bytes, at least two.
LEMMA BodyIs ==
  ASSUME NEW body \in Bodies
  PROVE  body \in Seq(Byte) /\ Len(body) \in BodySizes /\ Len(body) \in Nat /\ Len(body) >= 2
<1>1. PICK size \in BodySizes : body = Body(size)
  BY DEF Bodies
<1>2. size \in Nat /\ size >= 2
  BY SizesAssumption
<1>3. \A k \in 1..size : (size + k) % Base \in Byte
  BY <1>2, Digits
<1> QED
  BY <1>1, <1>2, <1>3 DEF Body

\* A frame is the header and the body.
LEMMA FrameIs ==
  ASSUME NEW body \in Seq(Byte)
  PROVE  /\ Frame(body) \in Seq(Byte) /\ Len(Frame(body)) = 2 + Len(body)
         /\ Frame(body)[1] = Header(Len(body))[1] /\ Frame(body)[2] = Header(Len(body))[2]
         /\ \A j \in 1..Len(body) : Frame(body)[2 + j] = body[j]
<1>1. Len(body) \in Nat
  OBVIOUS
<1>2. PICK first \in Byte, second \in Byte : Header(Len(body)) = <<first, second>>
  BY <1>1, Digits DEF Header
<1>3. PICK frame : frame = <<first, second>> \o body
  OBVIOUS
<1>4. /\ frame \in Seq(Byte) /\ Len(frame) = 2 + Len(body)
      /\ frame[1] = first /\ frame[2] = second
      /\ \A j \in 1..Len(body) : frame[2 + j] = body[j]
  BY <1>3, TwoBefore
<1>5. Frame(body) = frame
  BY <1>2, <1>3 DEF Frame
<1>6. Header(Len(body))[1] = first /\ Header(Len(body))[2] = second
  BY <1>2
<1> QED
  BY <1>4, <1>5, <1>6, Zenon

\* The frames of messages.
Frames(messages) == [k \in 1..Len(messages) |-> Frame(messages[k])]

\* One for each, two bytes longer.
LEMMA FramesAre ==
  ASSUME NEW messages \in Seq(Seq(Byte))
  PROVE  /\ Frames(messages) \in Seq(Seq(Byte)) /\ Len(Frames(messages)) = Len(messages)
         /\ \A k \in 1..Len(messages) : /\ Frames(messages)[k] = Frame(messages[k])
                                        /\ Len(Frames(messages)[k]) = 2 + Len(messages[k])
<1>1. Len(messages) \in Nat /\ \A k \in 1..Len(messages) : messages[k] \in Seq(Byte)
  OBVIOUS
<1>2. \A k \in 1..Len(messages) : /\ Frame(messages[k]) \in Seq(Byte)
                                  /\ Len(Frame(messages[k])) = 2 + Len(messages[k])
  BY <1>1, FrameIs
<1> QED
  BY <1>1, <1>2 DEF Frames

\* A message more, a frame more.
LEMMA FramesAppend ==
  ASSUME NEW messages \in Seq(Seq(Byte)), NEW body \in Seq(Byte)
  PROVE  Frames(Append(messages, body)) = Append(Frames(messages), Frame(body))
<1>1. PICK more : more = Append(messages, body)
  OBVIOUS
<1>2. /\ more \in Seq(Seq(Byte)) /\ Len(messages) \in Nat /\ Len(more) = Len(messages) + 1
      /\ \A k \in 1..Len(messages) : more[k] = messages[k]
      /\ more[Len(messages) + 1] = body
  BY <1>1
<1>3. PICK old, new : old = Frames(messages) /\ new = Frames(more)
  OBVIOUS
<1>4. /\ old \in Seq(Seq(Byte)) /\ Len(old) = Len(messages)
      /\ \A k \in 1..Len(messages) : old[k] = Frame(messages[k])
  BY <1>3, FramesAre
<1>5. /\ new \in Seq(Seq(Byte)) /\ Len(new) = Len(messages) + 1
      /\ \A k \in 1..Len(messages) + 1 : new[k] = Frame(more[k])
  BY <1>2, <1>3, FramesAre
<1>6. \A k \in 1..Len(old) : new[k] = old[k]
  BY <1>2, <1>4, <1>5
<1>7. new[Len(old) + 1] = Frame(body)
  BY <1>2, <1>4, <1>5
<1>8. new = Append(old, new[Len(old) + 1])
  BY <1>4, <1>5, <1>6, AppendIs
<1> QED
  BY <1>1, <1>3, <1>7, <1>8

\* What Min chooses.
LEMMA MinIs ==
  ASSUME NEW S \in SUBSET Nat, S # {}
  PROVE  Min(S) \in S /\ \A k \in S : Min(S) <= k
<1>1. \E n \in S : \A k \in S : n <= k
  BY LeastNumber
<1> QED
  BY <1>1 DEF Min

\* The messages before the first one that the buffer cannot hold.
LEMMA WholeIs ==
  ASSUME NEW messages \in Seq(Seq(Byte))
  PROVE  /\ Whole(messages) \in 0..Len(messages)
         /\ \A k \in 1..Whole(messages) : Len(messages[k]) <= READ_BUFFER_SIZE
         /\ Whole(messages) < Len(messages) =>
              Len(messages[Whole(messages) + 1]) > READ_BUFFER_SIZE
<1>1. PICK long : long = {k \in DOMAIN messages : Len(messages[k]) > READ_BUFFER_SIZE}
  OBVIOUS
<1>2. /\ Len(messages) \in Nat /\ DOMAIN messages = 1..Len(messages)
      /\ \A k \in DOMAIN messages : Len(messages[k]) \in Nat
      /\ READ_BUFFER_SIZE \in Nat
  BY SizesAssumption
<1>3. /\ long \subseteq 1..Len(messages)
      /\ \A k \in 1..Len(messages) : k \notin long => Len(messages[k]) <= READ_BUFFER_SIZE
      /\ \A k \in long : Len(messages[k]) > READ_BUFFER_SIZE
  BY <1>1, <1>2
<1>4. CASE long = {}
  <2>1. Whole(messages) = Len(messages)
    BY <1>1, <1>4 DEF Whole
  <2> QED
    BY <1>2, <1>4, <1>3, <2>1
<1>5. CASE long # {}
  <2>1. PICK first : first = Min(long)
    OBVIOUS
  <2>2. long \in SUBSET Nat
    BY <1>1, <1>2
  <2>3. first \in long /\ \A k \in long : first <= k
    BY <1>5, <2>1, <2>2, MinIs
  <2>4. Whole(messages) = first - 1
    BY <1>1, <1>5, <2>1 DEF Whole
  <2>5. first \in 1..Len(messages) /\ first - 1 \in 0..Len(messages)
        /\ \A k \in 1..first - 1 : k \in 1..Len(messages) /\ k \notin long
    BY <1>2, <1>3, <2>3
  <2>6. first - 1 + 1 = first
    BY <2>5
  <2> QED
    BY <1>3, <2>3, <2>4, <2>5, <2>6
<1> QED
  BY <1>4, <1>5

\* One more message is written.
LEMMA WholeAppend ==
  ASSUME NEW messages \in Seq(Seq(Byte)), NEW body \in Seq(Byte),
         NEW new, new = Append(messages, body)
  PROVE  Whole(new) = IF Whole(messages) = Len(messages) /\ Len(body) <= READ_BUFFER_SIZE
                      THEN Whole(messages) + 1 ELSE Whole(messages)
<1>1. /\ new \in Seq(Seq(Byte)) /\ Len(messages) \in Nat /\ Len(new) = Len(messages) + 1
      /\ \A k \in 1..Len(messages) : new[k] = messages[k]
      /\ new[Len(messages) + 1] = body
      /\ \A k \in 1..Len(new) : Len(new[k]) \in Nat
      /\ READ_BUFFER_SIZE \in Nat
  BY SizesAssumption
<1>2. /\ Whole(new) \in 0..Len(new)
      /\ \A k \in 1..Whole(new) : Len(new[k]) <= READ_BUFFER_SIZE
      /\ Whole(new) < Len(new) => Len(new[Whole(new) + 1]) > READ_BUFFER_SIZE
  BY <1>1, WholeIs
<1>3. /\ Whole(messages) \in 0..Len(messages)
      /\ \A k \in 1..Whole(messages) : Len(messages[k]) <= READ_BUFFER_SIZE
      /\ Whole(messages) < Len(messages) =>
           Len(messages[Whole(messages) + 1]) > READ_BUFFER_SIZE
  BY WholeIs
<1>4. PICK w, v : w = Whole(messages) /\ v = Whole(new)
  OBVIOUS
<1>5. CASE w = Len(messages) /\ Len(body) <= READ_BUFFER_SIZE
  <2>1. ASSUME NEW k \in 1..Len(new) PROVE Len(new[k]) <= READ_BUFFER_SIZE
    <3>1. CASE k = Len(messages) + 1
      BY <1>1, <1>5, <3>1
    <3>2. CASE k \in 1..w
      BY <1>1, <1>3, <1>4, <1>5, <3>2
    <3> QED
      BY <1>1, <1>5, <2>1, <3>1, <3>2
  <2>2. ~(v < Len(new))
    <3>1. SUFFICES ASSUME v < Len(new) PROVE FALSE
      OBVIOUS
    <3>2. v + 1 \in 1..Len(new)
      BY <1>1, <1>2, <1>4, <3>1
    <3> QED
      BY <1>1, <1>2, <1>4, <2>1, <3>1, <3>2
  <2> QED
    BY <1>1, <1>2, <1>4, <1>5, <2>2
<1>6. CASE ~(w = Len(messages) /\ Len(body) <= READ_BUFFER_SIZE)
  <2>1. w + 1 \in 1..Len(new) /\ Len(new[w + 1]) > READ_BUFFER_SIZE
    <3>1. CASE w = Len(messages)
      BY <1>1, <1>6, <3>1
    <3>2. CASE w < Len(messages)
      BY <1>1, <1>3, <1>4, <3>2
    <3> QED
      BY <1>1, <1>3, <1>4, <3>1, <3>2
  <2>2. v <= w
    <3>1. ~(w + 1 \in 1..v)
      BY <1>1, <1>2, <1>4, <2>1
    <3> QED
      BY <1>1, <1>2, <1>3, <1>4, <3>1
  <2>3. w <= v
    <3>1. SUFFICES ASSUME v < w PROVE FALSE
      BY <1>2, <1>3, <1>4
    <3>2. v + 1 \in 1..w /\ v < Len(new) /\ v + 1 \in 1..Len(messages)
      BY <1>1, <1>2, <1>3, <1>4, <3>1
    <3> QED
      BY <1>1, <1>2, <1>3, <1>4, <3>2
  <2> QED
    BY <1>2, <1>3, <1>4, <1>6, <2>2, <2>3
<1> QED
  BY <1>5, <1>6

-----------------------------------------------------------------------------
(* The invariant *)

Typed == /\ sent \in Seq(Seq(Byte)) /\ \A k \in DOMAIN sent : Len(sent[k]) \in BodySizes
         /\ wire \in Seq(Byte) /\ delivered \in Seq(Seq(Byte))
         /\ expected \in Nat /\ open \in BOOLEAN

\* The reader has read nothing yet that follows a message that is too long.
InStep == \/ Len(delivered) < Whole(sent)
          \/ Len(delivered) = Whole(sent) /\ Whole(sent) = Len(sent)

IInv == /\ Typed
        /\ \A k \in 1..Whole(sent) : k <= Len(delivered) => delivered[k] = sent[k]
        /\ Whole(sent) = Len(sent) => Len(delivered) <= Whole(sent)
        /\ InStep => /\ open
                     /\ expected # 0 => /\ Len(delivered) < Whole(sent)
                                        /\ expected = Len(sent[Len(delivered) + 1])
                     /\ \E mark : /\ Marks(mark, wire, Frames(sent),
                                           Len(delivered) + 1, Whole(sent))
                                  /\ mark[Len(delivered) + 1] = IF expected = 0 THEN 0 ELSE -2

\* It says of what was handed on what the property says.
LEMMA IInvImplies == ASSUME IInv PROVE WholeUntilTooLong
<1>1. Whole(sent) \in Nat /\ Len(delivered) \in Nat
  BY WholeIs DEF IInv, Typed
<1> QED
  BY <1>1 DEF IInv, InStep, WholeUntilTooLong

-----------------------------------------------------------------------------
(* The steps *)

\* The state and its numbers.
LEMMA StateFacts ==
  ASSUME IInv
  PROVE  /\ sent \in Seq(Seq(Byte)) /\ wire \in Seq(Byte) /\ delivered \in Seq(Seq(Byte))
         /\ Len(sent) \in Nat /\ Len(wire) \in Nat /\ Len(delivered) \in Nat
         /\ Whole(sent) \in Nat /\ Whole(sent) <= Len(sent)
         /\ expected \in Nat /\ open \in BOOLEAN
         /\ \A k \in 1..Whole(sent) : /\ k \in DOMAIN sent /\ sent[k] \in Seq(Byte)
                                      /\ Len(sent[k]) \in Nat
                                      /\ 2 <= Len(sent[k]) /\ Len(sent[k]) <= READ_BUFFER_SIZE
<1>1. sent \in Seq(Seq(Byte)) /\ \A k \in DOMAIN sent : Len(sent[k]) >= 2
  BY SizesAssumption DEF IInv, Typed
<1>2. Len(sent) \in Nat /\ DOMAIN sent = 1..Len(sent)
  BY <1>1
<1>3. /\ Whole(sent) \in 0..Len(sent)
      /\ \A k \in 1..Whole(sent) : Len(sent[k]) <= READ_BUFFER_SIZE
  BY <1>1, WholeIs
<1>4. \A k \in 1..Whole(sent) : /\ k \in DOMAIN sent /\ sent[k] \in Seq(Byte)
                                /\ Len(sent[k]) \in Nat /\ 2 <= Len(sent[k])
  <2>1. \A k \in 1..Whole(sent) : k \in DOMAIN sent
    BY <1>2, <1>3
  <2>2. \A k \in DOMAIN sent : sent[k] \in Seq(Byte)
    BY <1>1
  <2>3. \A k \in DOMAIN sent : Len(sent[k]) \in Nat
    BY <2>2
  <2> QED
    BY <1>1, <2>1, <2>2, <2>3
<1> QED
  BY <1>1, <1>2, <1>3, <1>4 DEF IInv, Typed

\* While the reader is in step and not all whole messages were handed on, the frame of
\* the next one is ahead of it, or its body when the header was read; when all were
\* handed on nothing is left.
LEMMA Ahead ==
  ASSUME IInv, InStep
  PROVE  LET d == Len(delivered)
         IN  /\ d < Whole(sent) /\ expected = 0 =>
                  /\ Len(wire) >= 2
                  /\ wire[1] = Header(Len(sent[d + 1]))[1]
                  /\ wire[2] = Header(Len(sent[d + 1]))[2]
             /\ expected # 0 =>
                  /\ Len(wire) >= expected
                  /\ \A j \in 1..expected : wire[j] = sent[d + 1][j]
             /\ d = Whole(sent) => expected = 0 /\ Len(wire) = 0
<1>1. PICK d, w : d = Len(delivered) /\ w = Whole(sent)
  OBVIOUS
<1>2. d \in Nat /\ w \in Nat /\ d <= w /\ (d = w => w = Len(sent))
  BY <1>1, StateFacts DEF InStep
<1>3. PICK mark : /\ Marks(mark, wire, Frames(sent), d + 1, w)
                  /\ mark[d + 1] = IF expected = 0 THEN 0 ELSE -2
  BY <1>1 DEF IInv
<1>4. ASSUME d < w
      PROVE  /\ d + 1 \in d + 1..w /\ d + 1 \in 1..w /\ d + 1 \in Nat
             /\ sent[d + 1] \in Seq(Byte) /\ Len(sent[d + 1]) \in Nat /\ Len(sent[d + 1]) >= 2
             /\ \A j \in 1..2 + Len(sent[d + 1]) :
                  mark[d + 1] + j >= 1 =>
                    /\ mark[d + 1] + j <= Len(wire)
                    /\ wire[mark[d + 1] + j] = Frame(sent[d + 1])[j]
  <2>1. d + 1 \in d + 1..w /\ d + 1 \in 1..w /\ d + 1 \in Nat
    BY <1>2, <1>4
  <2>2. /\ d + 1 \in 1..Len(sent)
        /\ sent[d + 1] \in Seq(Byte) /\ Len(sent[d + 1]) \in Nat /\ Len(sent[d + 1]) >= 2
    BY <1>1, <1>2, <2>1, StateFacts
  <2>3. /\ Frames(sent)[d + 1] = Frame(sent[d + 1])
        /\ Len(Frames(sent)[d + 1]) = 2 + Len(sent[d + 1])
    BY <2>2, FramesAre, StateFacts
  <2>4. \A j \in 1..Len(Frames(sent)[d + 1]) :
          mark[d + 1] + j >= 1 => /\ mark[d + 1] + j <= Len(wire)
                                  /\ wire[mark[d + 1] + j] = Frames(sent)[d + 1][j]
    BY <1>3, <2>1 DEF Marks
  <2> QED
    BY <2>1, <2>2, <2>3, <2>4
<1>5. ASSUME d < w, expected = 0
      PROVE  /\ Len(wire) >= 2
             /\ wire[1] = Header(Len(sent[d + 1]))[1]
             /\ wire[2] = Header(Len(sent[d + 1]))[2]
  <2>1. mark[d + 1] = 0
    BY <1>3, <1>5
  <2>2. 1 \in 1..2 + Len(sent[d + 1]) /\ 2 \in 1..2 + Len(sent[d + 1])
    BY <1>4, <1>5
  <2>3. /\ 2 <= Len(wire)
        /\ wire[1] = Frame(sent[d + 1])[1] /\ wire[2] = Frame(sent[d + 1])[2]
    BY <1>4, <1>5, <2>1, <2>2
  <2> QED
    BY <1>4, <1>5, <2>3, FrameIs
<1>6. ASSUME expected # 0
      PROVE  /\ Len(wire) >= expected
             /\ \A j \in 1..expected : wire[j] = sent[d + 1][j]
  <2>1. d < w /\ expected = Len(sent[d + 1]) /\ mark[d + 1] = -2 /\ expected \in Nat
    BY <1>1, <1>3, <1>6, StateFacts DEF IInv
  <2>2. ASSUME NEW j \in 1..expected
        PROVE  j <= Len(wire) /\ wire[j] = sent[d + 1][j]
    <3>1. 2 + j \in 1..2 + Len(sent[d + 1]) /\ -2 + (2 + j) = j /\ j >= 1
      BY <1>4, <2>1
    <3>2. j <= Len(wire) /\ wire[j] = Frame(sent[d + 1])[2 + j]
      BY <1>4, <2>1, <3>1
    <3> QED
      BY <1>4, <2>1, <3>2, FrameIs
  <2>3. expected \in 1..expected
    BY <1>6, <2>1
  <2> QED
    BY <2>2, <2>3
<1>7. ASSUME d = w PROVE expected = 0 /\ Len(wire) = 0
  <2>1. mark[w + 1] = Len(wire) /\ mark[w + 1] = IF expected = 0 THEN 0 ELSE -2
    <3>1. w = Len(Frames(sent))
      BY <1>2, <1>7, FramesAre, StateFacts
    <3> QED
      BY <1>2, <1>3, <1>7, <3>1 DEF Marks
  <2>2. Len(wire) \in Nat
    BY StateFacts
  <2> QED
    BY <2>1, <2>2
<1> QED
  BY <1>1, <1>5, <1>6, <1>7

\* What is read keeps the reader in step.
LEMMA InStepAfterRead ==
  ASSUME IInv, NEW first \in Nat \ {0}, NEW mark,
         Marks(mark, wire, Frames(sent), first, Whole(sent)),
         NEW n \in Nat, n <= Len(wire), wire' = SubSeq(wire, n + 1, Len(wire))
  PROVE  \E new : /\ Marks(new, wire', Frames(sent), first, Whole(sent))
                  /\ \A k \in Nat : new[k] = mark[k] - n
<1>1. PICK rest : rest = SubSeq(wire, n + 1, Len(wire))
  OBVIOUS
<1>2. wire' = rest
  BY <1>1
<1>3. Rest(rest, wire, n)
  BY <1>1, RestIs, StateFacts
<1>4. /\ Frames(sent) \in Seq(Seq(Byte)) /\ wire \in Seq(Byte)
      /\ Whole(sent) \in Nat /\ Whole(sent) <= Len(Frames(sent))
  BY FramesAre, StateFacts
<1>5. \E new : /\ Marks(new, rest, Frames(sent), first, Whole(sent))
               /\ \A k \in Nat : new[k] = mark[k] - n
  BY <1>3, <1>4, MarksAfterRead
<1> QED
  BY <1>2, <1>5

\* A message is written.
LEMMA SendKeeps == ASSUME IInv, NEW body \in Bodies, SendMsg(body) PROVE IInv'
<1>1. PICK d, w : d = Len(delivered) /\ w = Whole(sent)
  OBVIOUS
<1>2. /\ d \in Nat /\ w \in Nat /\ w <= Len(sent) /\ Len(sent) \in Nat
      /\ w = Len(sent) => d <= w
      /\ body \in Seq(Byte) /\ Len(body) \in BodySizes /\ Len(body) \in Nat
  BY <1>1, StateFacts, BodyIs DEF IInv
<1>3. PICK more : more = Append(sent, body)
  OBVIOUS
<1>4. PICK longer : longer = wire \o Frame(body)
  OBVIOUS
<1>5. /\ sent' = more /\ wire' = longer
      /\ expected' = expected /\ delivered' = delivered /\ open' = open
  BY <1>3, <1>4 DEF SendMsg
<1>6. /\ more \in Seq(Seq(Byte)) /\ Len(more) = Len(sent) + 1
      /\ \A k \in 1..Len(sent) : more[k] = sent[k]
      /\ more[Len(sent) + 1] = body
      /\ DOMAIN more = 1..Len(sent) + 1 /\ DOMAIN sent = 1..Len(sent)
  BY <1>2, <1>3, StateFacts
<1>7. PICK v : v = Whole(more)
  OBVIOUS
<1>8. v = w \/ (v = w + 1 /\ w = Len(sent))
  BY <1>1, <1>2, <1>3, <1>7, WholeAppend, StateFacts
<1>9. Typed'
  <2>1. longer \in Seq(Byte)
    <3>1. Frame(body) \in Seq(Byte)
      BY <1>2, FrameIs
    <3> QED
      BY <1>4, <3>1, StateFacts
  <2>2. ASSUME NEW k \in DOMAIN more PROVE Len(more[k]) \in BodySizes
    <3>1. \A l \in DOMAIN sent : Len(sent[l]) \in BodySizes
      BY DEF IInv, Typed
    <3>2. CASE k \in 1..Len(sent)
      BY <1>6, <3>1, <3>2
    <3>3. CASE k = Len(sent) + 1
      BY <1>2, <1>6, <3>3
    <3>4. k \in 1..Len(sent) + 1
      BY <1>6, <2>2
    <3> QED
      BY <1>2, <3>2, <3>3, <3>4
  <2> QED
    BY <1>5, <1>6, <2>1, <2>2, StateFacts DEF Typed
<1>10. \A k \in 1..v : k <= d => delivered[k] = more[k]
  <2>1. ASSUME NEW k \in 1..v, k <= d PROVE k \in 1..w
    BY <1>2, <1>8, <2>1
  <2> QED
    BY <1>1, <1>2, <1>6, <2>1 DEF IInv
<1>11. v = Len(more) => d <= v
  <2>1. CASE v = w
    <3>1. Len(more) = Len(sent) + 1
      BY <1>6
    <3> QED
      BY <1>2, <2>1, <3>1
  <2>2. CASE v = w + 1 /\ w = Len(sent)
    BY <1>2, <2>2
  <2> QED
    BY <1>8, <2>1, <2>2
<1>12. d < v \/ (d = v /\ v = Len(more)) => InStep
  BY <1>1, <1>2, <1>6, <1>8 DEF InStep
<1>13. ASSUME InStep
       PROVE  /\ open
              /\ expected # 0 => d < v /\ expected = Len(more[d + 1])
              /\ \E mark : /\ Marks(mark, longer, Frames(more), d + 1, v)
                           /\ mark[d + 1] = IF expected = 0 THEN 0 ELSE -2
  <2>1. expected # 0 => d < v /\ expected = Len(more[d + 1])
    <3>1. expected # 0 => d < w /\ expected = Len(sent[d + 1])
      BY <1>1, <1>13 DEF IInv
    <3>2. ASSUME d < w PROVE d < v /\ d + 1 \in 1..Len(sent)
      BY <1>2, <1>8, <3>2
    <3>3. ASSUME d < w PROVE more[d + 1] = sent[d + 1]
      BY <1>6, <3>2, <3>3
    <3> QED
      BY <3>1, <3>2, <3>3
  <2>2. PICK mark : Marks(mark, wire, Frames(sent), d + 1, w)
                    /\ mark[d + 1] = IF expected = 0 THEN 0 ELSE -2
    BY <1>1, <1>13 DEF IInv
  <2>3. d + 1 \in Nat \ {0} /\ d + 1 <= w + 1
    BY <1>1, <1>2, <1>13 DEF InStep
  <2>4. /\ Marks(mark, longer, Frames(more), d + 1, w)
        /\ w = Len(sent) => \E new : /\ Marks(new, longer, Frames(more), d + 1, w + 1)
                                     /\ new[d + 1] = mark[d + 1]
    <3>1. PICK frames : frames = Frames(sent)
      OBVIOUS
    <3>2. PICK frame : frame = Frame(body)
      OBVIOUS
    <3>3. PICK first : first = d + 1
      OBVIOUS
    <3>4. frames \in Seq(Seq(Byte)) /\ Len(frames) = Len(sent)
      BY <3>1, FramesAre, StateFacts
    <3>5. wire \in Seq(Byte) /\ frame \in Seq(Byte)
      BY <1>2, <3>2, FrameIs, StateFacts
    <3>6. Frames(more) = Append(frames, frame)
      BY <1>2, <1>3, <3>1, <3>2, FramesAppend, StateFacts
    <3>7. longer = wire \o frame
      BY <1>4, <3>2
    <3>8. first \in Nat \ {0} /\ first <= w + 1 /\ Marks(mark, wire, frames, first, w)
      BY <2>2, <2>3, <3>1, <3>3
    <3>9. w \in Nat /\ w <= Len(frames)
      BY <1>2, <3>4
    <3>10. /\ Marks(mark, wire \o frame, Append(frames, frame), first, w)
           /\ w = Len(frames) =>
                \E new : /\ Marks(new, wire \o frame, Append(frames, frame), first, w + 1)
                         /\ new[first] = mark[first]
      BY <3>4, <3>5, <3>8, <3>9, MarksWritten
    <3> QED
      BY <3>3, <3>4, <3>6, <3>7, <3>10, Zenon
  <2>5. \E m : /\ Marks(m, longer, Frames(more), d + 1, v)
               /\ m[d + 1] = IF expected = 0 THEN 0 ELSE -2
    BY <1>8, <2>2, <2>4
  <2> QED
    BY <1>13, <2>1, <2>5 DEF IInv
<1> QED
  BY <1>1, <1>5, <1>7, <1>9, <1>10, <1>11, <1>12, <1>13 DEF IInv, InStep

\* A header is read.
LEMMA HeaderKeeps == ASSUME IInv, OnHeaderReadDone PROVE IInv'
<1>1. PICK d, w : d = Len(delivered) /\ w = Whole(sent)
  OBVIOUS
<1>2. PICK size : size = SizeOf(wire[1], wire[2])
  OBVIOUS
<1>3. /\ open /\ expected = 0 /\ Len(wire) >= 2
      /\ (open' = FALSE /\ expected' = expected) \/ (open' = open /\ expected' = size)
      /\ size >= 2 => open' = open /\ expected' = size
      /\ sent' = sent /\ delivered' = delivered
      /\ wire' = SubSeq(wire, 3, Len(wire))
  <2>1. open /\ IF size < 2 THEN open' = FALSE /\ expected' = expected
                            ELSE open' = open /\ expected' = size
    BY <1>2 DEF OnHeaderReadDone
  <2>2. size >= 2 => ~(size < 2)
    <3>1. size \in Nat
      <4>1. wire[1] \in Byte /\ wire[2] \in Byte
        BY StateFacts DEF OnHeaderReadDone
      <4> QED
        BY <1>2, <4>1, BaseAssumption DEF Byte, SizeOf
    <3> QED
      BY <3>1
  <2> QED
    BY <2>1, <2>2 DEF OnHeaderReadDone
<1>4. Typed'
  <2>1. wire[1] \in Byte /\ wire[2] \in Byte
    BY <1>3, StateFacts
  <2>2. size \in Nat
    BY <1>2, <2>1, BaseAssumption DEF Byte, SizeOf
  <2>3. wire' \in Seq(Byte)
    BY <1>3, StateFacts
  <2> QED
    BY <1>3, <2>2, <2>3 DEF IInv, Typed
<1>5. ASSUME InStep
      PROVE  /\ open' /\ d < w /\ expected' = Len(sent[d + 1]) /\ expected' # 0
             /\ \E mark : Marks(mark, wire', Frames(sent), d + 1, w) /\ mark[d + 1] = -2
  <2>1. d < w
    BY <1>1, <1>3, <1>5, Ahead, StateFacts DEF InStep
  <2>2. d + 1 \in 1..w /\ d + 1 \in Nat \ {0}
    BY <1>1, <2>1, StateFacts
  <2>3. /\ Len(sent[d + 1]) \in Nat
        /\ 2 <= Len(sent[d + 1]) /\ Len(sent[d + 1]) <= READ_BUFFER_SIZE
    BY <1>1, <2>2, StateFacts
  <2>4. Len(sent[d + 1]) < Base * Base
    BY <2>3, WrapAssumption, SizesAssumption, BaseAssumption
  <2>5. wire[1] = Header(Len(sent[d + 1]))[1] /\ wire[2] = Header(Len(sent[d + 1]))[2]
    BY <1>1, <1>3, <1>5, <2>1, Ahead
  <2>6. size = Len(sent[d + 1])
    BY <1>2, <2>3, <2>4, <2>5, SizeOfHeader
  <2>7. PICK mark : Marks(mark, wire, Frames(sent), d + 1, w) /\ mark[d + 1] = 0
    BY <1>1, <1>3, <1>5 DEF IInv
  <2>8. wire' = SubSeq(wire, 2 + 1, Len(wire)) /\ 2 \in Nat /\ 2 <= Len(wire)
    BY <1>3, StateFacts
  <2>9. PICK new : /\ Marks(new, wire', Frames(sent), d + 1, w)
                   /\ \A k \in Nat : new[k] = mark[k] - 2
    BY <1>1, <2>2, <2>7, <2>8, InStepAfterRead
  <2>10. new[d + 1] = -2
    BY <2>2, <2>7, <2>9
  <2> QED
    <3>1. size >= 2 /\ size # 0
      BY <2>3, <2>6
    <3>2. open' /\ expected' = size
      BY <1>3, <3>1
    <3> QED
      BY <2>1, <2>6, <2>9, <2>10, <3>1, <3>2
<1>6. InStep' => InStep
  BY <1>3 DEF InStep
<1> QED
  BY <1>1, <1>3, <1>4, <1>5, <1>6 DEF IInv

\* A body is read.
LEMMA BodyKeeps == ASSUME IInv, OnBodyReadDone PROVE IInv'
<1>1. PICK d, w : d = Len(delivered) /\ w = Whole(sent)
  OBVIOUS
<1>2. PICK n : n = BufferSize(expected)
  OBVIOUS
<1>3. PICK body : body = SubSeq(wire, 1, n)
  OBVIOUS
<1>4. n \in Nat /\ d \in Nat /\ w \in Nat
  BY <1>1, <1>2, StateFacts, SizesAssumption DEF BufferSize
<1>5. /\ open /\ expected # 0 /\ n <= Len(wire)
      /\ delivered' = Append(delivered, body)
      /\ wire' = SubSeq(wire, n + 1, Len(wire))
      /\ expected' = 0 /\ sent' = sent /\ open' = open
  BY <1>2, <1>3, <1>4, StateFacts DEF OnBodyReadDone
<1>6. /\ body \in Seq(Byte) /\ Len(body) = n /\ DOMAIN body = 1..n
      /\ \A j \in 1..n : body[j] = wire[j]
  BY <1>3, <1>4, <1>5, StateFacts
<1>7. PICK more : more = Append(delivered, body)
  OBVIOUS
<1>8. /\ delivered' = more /\ more \in Seq(Seq(Byte)) /\ Len(more) = d + 1
      /\ \A k \in 1..d : more[k] = delivered[k]
      /\ more[d + 1] = body
  BY <1>1, <1>5, <1>6, <1>7, StateFacts
<1>9. Typed'
  <2>1. wire' \in Seq(Byte)
    BY <1>4, <1>5, StateFacts
  <2> QED
    BY <1>5, <1>8, <2>1 DEF IInv, Typed
<1>10. ASSUME InStep
       PROVE  /\ d < w /\ body = sent[d + 1]
              /\ \E mark : Marks(mark, wire', Frames(sent), d + 2, w) /\ mark[d + 2] = 0
  <2>1. d < w /\ expected = Len(sent[d + 1])
    BY <1>1, <1>5, <1>10 DEF IInv
  <2>2. d + 1 \in 1..w /\ d + 1 \in Nat \ {0} /\ d + 1 \in d + 1..w
    BY <1>4, <2>1
  <2>3. /\ sent[d + 1] \in Seq(Byte) /\ Len(sent[d + 1]) \in Nat
        /\ Len(sent[d + 1]) <= READ_BUFFER_SIZE
    BY <1>1, <2>2, StateFacts
  <2>4. n = Len(sent[d + 1])
    BY <1>2, <2>1, <2>3, SizesAssumption DEF BufferSize
  <2>5. body = sent[d + 1]
    <3>1. \A j \in 1..n : wire[j] = sent[d + 1][j]
      BY <1>1, <1>5, <1>10, <2>1, <2>4, Ahead
    <3> QED
      BY <1>6, <2>3, <2>4, <3>1
  <2>6. PICK mark : Marks(mark, wire, Frames(sent), d + 1, w) /\ mark[d + 1] = -2
    BY <1>1, <1>5, <1>10 DEF IInv
  <2>7. PICK new : /\ Marks(new, wire', Frames(sent), d + 1, w)
                   /\ \A k \in Nat : new[k] = mark[k] - n
    BY <1>1, <1>4, <1>5, <2>2, <2>6, InStepAfterRead
  <2>8. mark[d + 2] = n
    <3>1. mark[d + 1 + 1] = mark[d + 1] + 2 + Len(sent[d + 1])
      <4>1. Len(Frames(sent)[d + 1]) = 2 + Len(sent[d + 1])
        <5>1. d + 1 \in 1..Len(sent)
          BY <1>1, <1>4, <2>2, StateFacts
        <5> QED
          BY <5>1, FramesAre, StateFacts
      <4>2. mark[d + 1 + 1] = mark[d + 1] + Len(Frames(sent)[d + 1])
        BY <2>2, <2>6 DEF Marks
      <4> QED
        BY <2>3, <2>6, <4>1, <4>2
    <3> QED
      BY <1>4, <2>3, <2>4, <2>6, <3>1
  <2>9. new[d + 2] = 0
    BY <1>4, <2>7, <2>8
  <2>10. Marks(new, wire', Frames(sent), d + 2, w)
    <3>1. \A k \in d + 2..w : k \in d + 1..w
      BY <1>4
    <3> QED
      BY <2>7, <3>1 DEF Marks
  <2> QED
    BY <2>1, <2>5, <2>9, <2>10
<1>11. InStep' => InStep
  BY <1>1, <1>4, <1>5, <1>8 DEF InStep
<1>12. ASSUME NEW k \in 1..w, k <= d + 1 PROVE more[k] = sent[k]
  <2>1. CASE k <= d
    <3>1. delivered[k] = sent[k]
      BY <1>1, <1>12, <2>1 DEF IInv
    <3> QED
      BY <1>8, <2>1, <3>1
  <2>2. CASE k = d + 1
    <3>1. InStep
      BY <1>1, <1>4, <2>2 DEF InStep
    <3> QED
      BY <1>8, <1>10, <2>2, <3>1
  <2> QED
    BY <1>4, <1>12, <2>1, <2>2
<1>13. w = Len(sent) => d + 1 <= w
  <2>1. w = Len(sent) => d <= w
    BY <1>1 DEF IInv
  <2> QED
    BY <1>1, <1>4, <1>10, <2>1 DEF InStep
<1>14. (\E mark : Marks(mark, wire', Frames(sent), d + 2, w) /\ mark[d + 2] = 0)
         => \E mark : Marks(mark, wire', Frames(sent), d + 1 + 1, w) /\ mark[d + 1 + 1] = 0
  <2>1. d + 1 + 1 = d + 2
    BY <1>4
  <2> QED
    BY <2>1
<1> QED
  BY <1>1, <1>5, <1>8, <1>9, <1>10, <1>11, <1>12, <1>13, <1>14 DEF IInv

-----------------------------------------------------------------------------
(* The theorem *)

\* The invariant holds in the beginning and is kept by every step.
LEMMA Invariance == Spec => []IInv
<1>1. ASSUME Init PROVE IInv
  <2>1. /\ sent = << >> /\ wire = << >> /\ delivered = << >> /\ expected = 0 /\ open
        /\ sent \in Seq(Seq(Byte)) /\ wire \in Seq(Byte) /\ delivered \in Seq(Seq(Byte))
        /\ Len(sent) = 0 /\ Len(wire) = 0 /\ Len(delivered) = 0 /\ DOMAIN sent = {}
    BY <1>1 DEF Init
  <2>2. Whole(sent) = 0
    <3>1. Whole(sent) \in 0..0
      BY <2>1, WholeIs
    <3> QED
      BY <3>1
  <2>3. PICK mark : mark = [k \in Nat |-> 0]
    OBVIOUS
  <2>4. \A k \in Nat : mark[k] = 0
    BY <2>3
  <2>5. Marks(mark, wire, Frames(sent), 1, 0)
    BY <2>1, <2>4 DEF Marks
  <2> QED
    BY <2>1, <2>2, <2>4, <2>5 DEF IInv, Typed, InStep
<1>2. ASSUME IInv, [Next]_vars PROVE IInv'
  <2>1. CASE \E body \in Bodies : SendMsg(body)
    BY <1>2, <2>1, SendKeeps
  <2>2. CASE OnHeaderReadDone
    BY <1>2, <2>2, HeaderKeeps
  <2>3. CASE OnBodyReadDone
    BY <1>2, <2>3, BodyKeeps
  <2>4. CASE UNCHANGED vars
    BY <1>2, <2>4 DEF vars, IInv, Typed, InStep
  <2> QED
    BY <1>2, <2>1, <2>2, <2>3, <2>4 DEF Next
<1> QED
  BY <1>1, <1>2, PTL DEF Spec

\* Whatever sizes the messages have and however the bytes arrive, the session hands on
\* what the client wrote, whole and in order, and stays open, up to the first message
\* the buffer cannot hold (Session.cpp:66-80, MatchClient.cpp:90-110).
THEOREM WholeUntilTooLongHolds == Spec => []WholeUntilTooLong
<1>1. IInv => WholeUntilTooLong
  BY IInvImplies
<1> QED
  BY <1>1, Invariance, PTL

\* If the buffer holds every message that is written, the frame of Session.cpp:47-50 is
\* kept without exception: what was handed on begins what was written.
THEOREM ShortMessagesArePrefix ==
  (\A size \in BodySizes : size <= READ_BUFFER_SIZE) => (Spec => []DeliveredIsPrefix)
<1> SUFFICES ASSUME \A size \in BodySizes : size <= READ_BUFFER_SIZE
             PROVE  Spec => []DeliveredIsPrefix
  OBVIOUS
<1>1. ASSUME IInv PROVE DeliveredIsPrefix
  <2>1. PICK d, w : d = Len(delivered) /\ w = Whole(sent)
    OBVIOUS
  <2>2. /\ sent \in Seq(Seq(Byte)) /\ delivered \in Seq(Seq(Byte))
        /\ d \in Nat /\ w \in Nat /\ Len(sent) \in Nat /\ DOMAIN sent = 1..Len(sent)
    BY <1>1, <2>1, StateFacts
  <2>3. w = Len(sent)
    <3>1. w < Len(sent) => Len(sent[w + 1]) > READ_BUFFER_SIZE
      BY <2>1, <2>2, WholeIs
    <3>2. ASSUME w < Len(sent) PROVE Len(sent[w + 1]) <= READ_BUFFER_SIZE
      <4>1. w + 1 \in DOMAIN sent
        BY <2>2, <3>2
      <4>2. Len(sent[w + 1]) \in BodySizes
        BY <1>1, <4>1 DEF IInv, Typed
      <4> QED
        BY <4>2
    <3>3. w <= Len(sent)
      BY <1>1, <2>1, StateFacts
    <3>4. ASSUME w < Len(sent) PROVE FALSE
      <4>1. PICK l \in Nat : l = Len(sent[w + 1])
        BY <2>2, <3>4
      <4> QED
        BY <3>1, <3>2, <3>4, <4>1, SizesAssumption
    <3>5. w \in Nat /\ Len(sent) \in Nat
      BY <2>2
    <3> QED
      BY <3>3, <3>4, <3>5
  <2>4. d <= Len(sent) /\ \A k \in 1..d : delivered[k] = sent[k]
    BY <1>1, <2>1, <2>2, <2>3 DEF IInv
  <2>5. PICK begun : begun = SubSeq(sent, 1, d)
    OBVIOUS
  <2>6. SubSeq(delivered, 1, d) = begun
    BY <2>1, <2>2, <2>4, <2>5
  <2>7. DOMAIN delivered = 1..d /\ Len(delivered) = d
    BY <2>1, <2>2
  <2> QED
    BY <2>1, <2>4, <2>5, <2>6 DEF DeliveredIsPrefix, IsPrefix
<1> QED
  BY <1>1, Invariance, PTL
=============================================================================
