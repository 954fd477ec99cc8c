--------------------------- MODULE ReplyReaderProofs ---------------------------
(***************************************************************************)
(* Proofs about ReplyReader, for any base of the bytes, any sizes and any  *)
(* number of messages whose sizes do not wrap: however the stream is cut,  *)
(* the client resolves what the session wrote, whole and in order, and     *)
(* keeps nothing back.                                                     *)
(*                                                                         *)
(* What is in the buffer and what has not arrived make one stream, which   *)
(* holds the frames not yet resolved (Marks of QueueLemmas).  A pass of    *)
(* the loop keeps this, and passes go on until none can do anything more.  *)
(***************************************************************************)
EXTENDS ReplyReader, QueueLemmas

-----------------------------------------------------------------------------
(* Numbers *)

\* The digits of a number are bytes.
LEMMA Digits ==
  ASSUME NEW n \in Nat
  PROVE  n % Base \in Byte /\ n \div Base \in Nat /\ (n \div Base) % Base \in Byte
<1>1. Base \in Nat /\ Base > 1
  BY BaseAssumption
<1>2. n % Base \in 0..Base - 1 /\ n \div Base \in Nat
  BY <1>1, TwoDigits
<1>3. (n \div Base) % Base \in 0..Base - 1
  BY <1>1, <1>2, TwoDigits
<1> QED
  BY <1>2, <1>3 DEF Byte

\* The size that is read is the size that was written, below the one that wraps
\* (the unsigned short of MatchClient.cpp:98).
LEMMA SizeOfHeader ==
  ASSUME NEW n \in Nat, n < Base * Base
  PROVE  SizeOf(Header(n)[1], Header(n)[2]) = n
<1>1. Base \in Nat /\ Base > 1
  BY BaseAssumption
<1>2. /\ n % Base \in 0..Base - 1 /\ n \div Base \in Nat
      /\ n = Base * (n \div Base) + (n % Base)
      /\ (n \div Base) % Base = n \div Base
  BY <1>1, TwoDigits
<1>3. Header(n)[1] = n % Base /\ Header(n)[2] = n \div Base
  BY <1>2 DEF Header
<1>4. (n % Base) + Base * (n \div Base) = n
  BY <1>1, <1>2
<1> QED
  BY <1>3, <1>4 DEF SizeOf

-----------------------------------------------------------------------------
(* Messages and frames *)

\* A body is a sequence of bytes, at least two.
LEMMA BodyIs ==
  ASSUME NEW body \in Bodies
  PROVE  body \in Seq(Byte) /\ Len(body) \in BodySizes /\ Len(body) \in Nat /\ Len(body) >= 2
<1>1. PICK size \in BodySizes : body = Body(size)
  BY DEF Bodies
<1>2. size \in Nat /\ size >= 2
  BY SizesAssumption
<1>3. \A k \in 1..size : (size + k) % Base \in Byte
  BY <1>2, Digits
<1> QED
  BY <1>1, <1>2, <1>3 DEF Body

\* A frame is the header and the body.
LEMMA FrameIs ==
  ASSUME NEW body \in Seq(Byte)
  PROVE  /\ Frame(body) \in Seq(Byte) /\ Len(Frame(body)) = 2 + Len(body)
         /\ Frame(body)[1] = Header(Len(body))[1] /\ Frame(body)[2] = Header(Len(body))[2]
         /\ \A j \in 1..Len(body) : Frame(body)[2 + j] = body[j]
<1>1. Len(body) \in Nat
  OBVIOUS
<1>2. PICK first \in Byte, second \in Byte : Header(Len(body)) = <<first, second>>
  BY <1>1, Digits DEF Header
<1>3. PICK frame : frame = <<first, second>> \o body
  OBVIOUS
<1>4. /\ frame \in Seq(Byte) /\ Len(frame) = 2 + Len(body)
      /\ frame[1] = first /\ frame[2] = second
      /\ \A j \in 1..Len(body) : frame[2 + j] = body[j]
  BY <1>3, TwoBefore
<1>5. Frame(body) = frame
  BY <1>2, <1>3 DEF Frame
<1>6. Header(Len(body))[1] = first /\ Header(Len(body))[2] = second
  BY <1>2
<1> QED
  BY <1>4, <1>5, <1>6, Zenon

\* The frames of messages.
Frames(messages) == [k \in 1..Len(messages) |-> Frame(messages[k])]

\* One for each, two bytes longer.
LEMMA FramesAre ==
  ASSUME NEW messages \in Seq(Seq(Byte))
  PROVE  /\ Frames(messages) \in Seq(Seq(Byte)) /\ Len(Frames(messages)) = Len(messages)
         /\ \A k \in 1..Len(messages) : /\ Frames(messages)[k] = Frame(messages[k])
                                        /\ Len(Frames(messages)[k]) = 2 + Len(messages[k])
<1>1. Len(messages) \in Nat /\ \A k \in 1..Len(messages) : messages[k] \in Seq(Byte)
  OBVIOUS
<1>2. \A k \in 1..Len(messages) : /\ Frame(messages[k]) \in Seq(Byte)
                                  /\ Len(Frame(messages[k])) = 2 + Len(messages[k])
  BY <1>1, FrameIs
<1> QED
  BY <1>1, <1>2 DEF Frames

\* A message more, a frame more.
LEMMA FramesAppend ==
  ASSUME NEW messages \in Seq(Seq(Byte)), NEW body \in Seq(Byte)
  PROVE  Frames(Append(messages, body)) = Append(Frames(messages), Frame(body))
<1>1. PICK more : more = Append(messages, body)
  OBVIOUS
<1>2. /\ more \in Seq(Seq(Byte)) /\ Len(messages) \in Nat /\ Len(more) = Len(messages) + 1
      /\ \A k \in 1..Len(messages) : more[k] = messages[k]
      /\ more[Len(messages) + 1] = body
  BY <1>1
<1>3. PICK old, new : old = Frames(messages) /\ new = Frames(more)
  OBVIOUS
<1>4. /\ old \in Seq(Seq(Byte)) /\ Len(old) = Len(messages)
      /\ \A k \in 1..Len(messages) : old[k] = Frame(messages[k])
  BY <1>3, FramesAre
<1>5. /\ new \in Seq(Seq(Byte)) /\ Len(new) = Len(messages) + 1
      /\ \A k \in 1..Len(messages) + 1 : new[k] = Frame(more[k])
  BY <1>2, <1>3, FramesAre
<1>6. \A k \in 1..Len(old) : new[k] = old[k]
  BY <1>2, <1>4, <1>5
<1>7. new[Len(old) + 1] = Frame(body)
  BY <1>2, <1>4, <1>5
<1>8. new = Append(old, new[Len(old) + 1])
  BY <1>4, <1>5, <1>6, AppendIs
<1> QED
  BY <1>1, <1>3, <1>7, <1>8

-----------------------------------------------------------------------------
(* What the loop works on *)

\* The buffer, the static size and the messages resolved.
Loops == [bytes : Seq(Byte), size : Nat, messages : Seq(Seq(Byte))]

\* Messages that can have been written, none so long that its size wraps.
Sendable(messages) ==
  /\ messages \in Seq(Seq(Byte))
  /\ \A k \in 1..Len(messages) : 2 <= Len(messages[k]) /\ Len(messages[k]) < Base * Base

\* The loop can do nothing more.
Ended(at) == IF at.size = 0 THEN Len(at.bytes) < 2 ELSE Len(at.bytes) < at.size

\* With ahead still to come, at has resolved the first of messages and the rest is in
\* the stream, but for a header that was read.
Follows(at, ahead, messages) ==
  /\ Len(at.messages) <= Len(messages)
  /\ \A k \in 1..Len(at.messages) : at.messages[k] = messages[k]
  /\ at.size # 0 => /\ Len(at.messages) < Len(messages)
                    /\ at.size = Len(messages[Len(at.messages) + 1])
  /\ \E mark : /\ Marks(mark, at.bytes \o ahead, Frames(messages),
                        Len(at.messages) + 1, Len(messages))
               /\ mark[Len(at.messages) + 1] = IF at.size = 0 THEN 0 ELSE -2

\* After place bytes hold the frame, but for what was read already.
Holds(bytes, place, frame) ==
  \A j \in 1..Len(frame) : place + j >= 1 => /\ place + j <= Len(bytes)
                                             /\ bytes[place + j] = frame[j]

\* The stream holds the frame that is next.
LEMMA NextFrame ==
  ASSUME NEW messages, Sendable(messages), NEW r \in Nat, r < Len(messages),
         NEW bytes \in Seq(Byte), NEW mark,
         Marks(mark, bytes, Frames(messages), r + 1, Len(messages))
  PROVE  /\ messages[r + 1] \in Seq(Byte) /\ Len(messages[r + 1]) \in Nat
         /\ 2 <= Len(messages[r + 1]) /\ Len(messages[r + 1]) < Base * Base
         /\ mark[r + 1] \in Int
         /\ mark[r + 2] = mark[r + 1] + (2 + Len(messages[r + 1]))
         /\ Holds(bytes, mark[r + 1], Frame(messages[r + 1]))
<1>1. /\ messages \in Seq(Seq(Byte)) /\ Len(messages) \in Nat
      /\ r + 1 \in Nat /\ r + 1 \in 1..Len(messages) /\ r + 1 \in r + 1..Len(messages)
      /\ (r + 1) + 1 = r + 2
  BY DEF Sendable
<1>2. /\ messages[r + 1] \in Seq(Byte) /\ Len(messages[r + 1]) \in Nat
      /\ 2 <= Len(messages[r + 1]) /\ Len(messages[r + 1]) < Base * Base
  BY <1>1 DEF Sendable
<1>3. /\ Frames(messages)[r + 1] = Frame(messages[r + 1])
      /\ Len(Frames(messages)[r + 1]) = 2 + Len(messages[r + 1])
  BY <1>1, FramesAre
<1>4. mark[r + 1] \in Int /\ mark[(r + 1) + 1] = mark[r + 1] + Len(Frames(messages)[r + 1])
  BY <1>1 DEF Marks
<1>5. Holds(bytes, mark[r + 1], Frames(messages)[r + 1])
  BY <1>1 DEF Marks, Holds
<1> QED
  BY <1>1, <1>2, <1>3, <1>4, <1>5

\* When everything was resolved nothing is left in the stream.
LEMMA NothingLeft ==
  ASSUME NEW messages, Sendable(messages), NEW bytes \in Seq(Byte), NEW mark,
         Marks(mark, bytes, Frames(messages), Len(messages) + 1, Len(messages))
  PROVE  mark[Len(messages) + 1] = Len(bytes)
<1>1. Len(Frames(messages)) = Len(messages)
  BY FramesAre DEF Sendable
<1> QED
  BY <1>1 DEF Marks

-----------------------------------------------------------------------------
(* A pass of the loop *)

\* It takes a header.
LEMMA HeaderPass ==
  ASSUME NEW messages, Sendable(messages), NEW ahead \in Seq(Byte), NEW at \in Loops,
         Follows(at, ahead, messages), at.size = 0, Len(at.bytes) >= 2
  PROVE  LET next == Pass(at)
         IN  /\ next \in Loops /\ Follows(next, ahead, messages)
             /\ Len(next.bytes) < Len(at.bytes)
<1>1. PICK next : next = Pass(at)
  OBVIOUS
<1>2. PICK bytes \in Seq(Byte), done \in Seq(Seq(Byte)), r \in Nat :
        bytes = at.bytes /\ done = at.messages /\ r = Len(done)
  BY DEF Loops
<1>3. PICK rest, size : rest = SubSeq(bytes, 3, Len(bytes)) /\ size = SizeOf(bytes[1], bytes[2])
  OBVIOUS
<1>4. next = [at EXCEPT !.bytes = rest, !.size = size]
  BY <1>1, <1>2, <1>3 DEF Pass
<1>5. at = [bytes |-> at.bytes, size |-> at.size, messages |-> at.messages]
  BY DEF Loops
<1>6. next.bytes = rest /\ next.size = size /\ next.messages = done
  BY <1>2, <1>4, <1>5
<1>7. 2 \in Nat /\ 2 <= Len(bytes) /\ rest = SubSeq(bytes, 2 + 1, Len(bytes))
  BY <1>2, <1>3
<1>8. rest \in Seq(Byte) /\ Rest(rest, bytes, 2)
  BY <1>7, RestIs
<1>9. /\ r <= Len(messages) /\ Len(messages) \in Nat
      /\ \A k \in 1..r : done[k] = messages[k]
  BY <1>2 DEF Follows, Sendable
<1>10. PICK stream \in Seq(Byte) : stream = bytes \o ahead
  BY ConcatElements
<1>11. PICK mark : /\ Marks(mark, stream, Frames(messages), r + 1, Len(messages))
                   /\ mark[r + 1] = 0
  BY <1>2, <1>10 DEF Follows
<1>12. /\ Len(bytes) \in Nat /\ Len(ahead) \in Nat /\ Len(stream) = Len(bytes) + Len(ahead)
       /\ \A k \in 1..Len(bytes) : stream[k] = bytes[k]
  BY <1>10, ConcatElements
<1>13. r < Len(messages)
  <2>1. ASSUME r = Len(messages) PROVE FALSE
    <3>1. mark[r + 1] = Len(stream)
      BY <1>11, <2>1, NothingLeft
    <3> QED
      BY <1>7, <1>11, <1>12, <3>1
  <2> QED
    BY <1>9, <2>1
<1>14. PICK body \in Seq(Byte) : body = messages[r + 1]
  BY <1>11, <1>13, NextFrame
<1>15. /\ Len(body) \in Nat /\ 2 <= Len(body) /\ Len(body) < Base * Base
       /\ \A j \in 1..2 + Len(body) : stream[j] = Frame(body)[j]
  <2>1. /\ Len(body) \in Nat /\ 2 <= Len(body) /\ Len(body) < Base * Base
    BY <1>11, <1>13, <1>14, NextFrame
  <2>2. Holds(stream, 0, Frame(body)) /\ Len(Frame(body)) = 2 + Len(body)
    <3>1. Holds(stream, mark[r + 1], Frame(messages[r + 1]))
      BY <1>11, <1>13, NextFrame
    <3>2. Len(Frame(body)) = 2 + Len(body)
      BY FrameIs
    <3> QED
      BY <1>11, <1>14, <3>1, <3>2, Zenon
  <2>3. \A j \in 1..2 + Len(body) : 0 + j = j /\ 0 + j >= 1
    BY <2>1
  <2>4. \A j \in 1..2 + Len(body) : 0 + j >= 1 => stream[0 + j] = Frame(body)[j]
    BY <2>2 DEF Holds
  <2> QED
    BY <2>1, <2>3, <2>4
<1>16. bytes[1] = Header(Len(body))[1] /\ bytes[2] = Header(Len(body))[2]
  <2>1. 1 \in 1..2 + Len(body) /\ 2 \in 1..2 + Len(body)
    BY <1>15
  <2>2. stream[1] = Frame(body)[1] /\ stream[2] = Frame(body)[2]
    BY <1>15, <2>1
  <2>3. 1 \in 1..Len(bytes) /\ 2 \in 1..Len(bytes)
    BY <1>7, <1>12
  <2> QED
    BY <1>12, <2>2, <2>3, FrameIs
<1>17. size = Len(body)
  BY <1>3, <1>15, <1>16, SizeOfHeader
<1>18. next \in Loops
  <2>1. size \in Nat
    BY <1>15, <1>17
  <2> QED
    BY <1>2, <1>4, <1>5, <1>8, <2>1 DEF Loops
<1>19. PICK left \in Seq(Byte) : left = rest \o ahead
  BY <1>8, ConcatElements
<1>20. Rest(left, stream, 2)
  BY <1>8, <1>10, <1>19, RestOfParts
<1>21. PICK new : /\ Marks(new, left, Frames(messages), r + 1, Len(messages))
                  /\ \A k \in Nat : new[k] = mark[k] - 2
  <2>1. Frames(messages) \in Seq(Seq(Byte)) /\ Len(Frames(messages)) = Len(messages)
    BY FramesAre DEF Sendable
  <2>2. PICK first \in Nat \ {0}, last \in Nat : first = r + 1 /\ last = Len(messages)
    <3>1. r + 1 \in Nat \ {0} /\ Len(messages) \in Nat
      BY <1>9
    <3> QED
      BY <3>1
  <2>3. last <= Len(Frames(messages)) /\ Marks(mark, stream, Frames(messages), first, last)
    BY <1>9, <1>11, <2>1, <2>2
  <2>4. \E new : /\ Marks(new, left, Frames(messages), first, last)
                 /\ \A k \in Nat : new[k] = mark[k] - 2
    BY <1>20, <2>1, <2>3, MarksAfterRead
  <2> QED
    BY <2>2, <2>4
<1>22. new[r + 1] = -2
  BY <1>11, <1>21
<1>23. size # 0
  BY <1>15, <1>17
<1>24. Follows(next, ahead, messages)
  BY <1>2, <1>6, <1>9, <1>13, <1>14, <1>17, <1>19, <1>21, <1>22, <1>23 DEF Follows
<1>25. Len(rest) < Len(bytes)
  BY <1>8, <1>12 DEF Rest
<1> QED
  BY <1>1, <1>2, <1>6, <1>18, <1>24, <1>25

\* It takes a message.
LEMMA MessagePass ==
  ASSUME NEW messages, Sendable(messages), NEW ahead \in Seq(Byte), NEW at \in Loops,
         Follows(at, ahead, messages), at.size # 0, Len(at.bytes) >= at.size
  PROVE  LET next == Pass(at)
         IN  /\ next \in Loops /\ Follows(next, ahead, messages)
             /\ Len(next.bytes) < Len(at.bytes)
<1>1. PICK next : next = Pass(at)
  OBVIOUS
<1>2. PICK bytes \in Seq(Byte), done \in Seq(Seq(Byte)), r \in Nat, n \in Nat :
        bytes = at.bytes /\ done = at.messages /\ r = Len(done) /\ n = at.size
  BY DEF Loops
<1>3. n # 0 /\ n <= Len(bytes) /\ Len(bytes) \in Nat
  BY <1>2
<1>4. PICK rest, taken : rest = SubSeq(bytes, n + 1, Len(bytes)) /\ taken = SubSeq(bytes, 1, n)
  OBVIOUS
<1>5. PICK more : more = Append(done, taken)
  OBVIOUS
<1>6. next = [bytes |-> rest, size |-> 0, messages |-> more]
  BY <1>1, <1>2, <1>3, <1>4, <1>5 DEF Pass
<1>7. next.bytes = rest /\ next.size = 0 /\ next.messages = more
  BY <1>6
<1>8. rest \in Seq(Byte) /\ Rest(rest, bytes, n)
  BY <1>3, <1>4, RestIs
<1>9. taken \in Seq(Byte) /\ Len(taken) = n /\ \A k \in 1..n : taken[k] = bytes[k]
  BY <1>3, <1>4
<1>10. /\ more \in Seq(Seq(Byte)) /\ Len(more) = r + 1 /\ more[r + 1] = taken
       /\ \A k \in 1..r : more[k] = done[k]
  BY <1>2, <1>5, <1>9
<1>11. next \in Loops
  BY <1>6, <1>8, <1>10 DEF Loops
<1>12. /\ r < Len(messages) /\ Len(messages) \in Nat /\ n = Len(messages[r + 1])
       /\ \A k \in 1..r : done[k] = messages[k]
  BY <1>2, <1>3 DEF Follows, Sendable
<1>13. PICK stream \in Seq(Byte) : stream = bytes \o ahead
  BY ConcatElements
<1>14. PICK mark : /\ Marks(mark, stream, Frames(messages), r + 1, Len(messages))
                   /\ mark[r + 1] = -2
  BY <1>2, <1>3, <1>13 DEF Follows
<1>15. /\ Len(ahead) \in Nat /\ Len(stream) = Len(bytes) + Len(ahead)
       /\ \A k \in 1..Len(bytes) : stream[k] = bytes[k]
  BY <1>13, ConcatElements
<1>16. PICK body \in Seq(Byte) : body = messages[r + 1]
  BY <1>12, <1>14, NextFrame
<1>17. /\ Len(body) = n /\ mark[r + 2] = -2 + (2 + n)
       /\ \A j \in 1..2 + n : -2 + j >= 1 => stream[-2 + j] = Frame(body)[j]
  <2>1. mark[r + 2] = mark[r + 1] + (2 + Len(messages[r + 1]))
    BY <1>12, <1>14, NextFrame
  <2>2. Holds(stream, -2, Frame(body)) /\ Len(Frame(body)) = 2 + n
    <3>1. Holds(stream, mark[r + 1], Frame(messages[r + 1]))
      BY <1>12, <1>14, NextFrame
    <3>2. Len(Frame(body)) = 2 + n
      BY <1>12, <1>16, FrameIs
    <3> QED
      BY <1>14, <1>16, <3>1, <3>2, Zenon
  <2> QED
    BY <1>12, <1>14, <1>16, <2>1, <2>2 DEF Holds
<1>18. taken = body
  <2>1. ASSUME NEW k \in 1..n PROVE taken[k] = body[k]
    <3>1. 2 + k \in 1..2 + n /\ -2 + (2 + k) = k /\ k >= 1 /\ k \in 1..Len(bytes)
      BY <1>3
    <3>2. stream[k] = Frame(body)[2 + k]
      BY <1>17, <3>1
    <3>3. Frame(body)[2 + k] = body[k]
      BY <1>17, FrameIs
    <3> QED
      BY <1>9, <1>15, <3>1, <3>2, <3>3
  <2> QED
    BY <1>9, <1>17, <2>1
<1>19. PICK left \in Seq(Byte) : left = rest \o ahead
  BY <1>8, ConcatElements
<1>20. Rest(left, stream, n)
  BY <1>8, <1>13, <1>19, RestOfParts
<1>21. PICK new : /\ Marks(new, left, Frames(messages), r + 1, Len(messages))
                  /\ \A k \in Nat : new[k] = mark[k] - n
  <2>1. Frames(messages) \in Seq(Seq(Byte)) /\ Len(Frames(messages)) = Len(messages)
    BY FramesAre DEF Sendable
  <2>2. PICK first \in Nat \ {0}, last \in Nat : first = r + 1 /\ last = Len(messages)
    <3>1. r + 1 \in Nat \ {0} /\ Len(messages) \in Nat
      BY <1>12
    <3> QED
      BY <3>1
  <2>3. last <= Len(Frames(messages)) /\ Marks(mark, stream, Frames(messages), first, last)
    BY <1>12, <1>14, <2>1, <2>2
  <2>4. \E new : /\ Marks(new, left, Frames(messages), first, last)
                 /\ \A k \in Nat : new[k] = mark[k] - n
    BY <1>20, <2>1, <2>3, MarksAfterRead
  <2> QED
    BY <2>2, <2>4
<1>22. new[r + 2] = 0
  <2>1. r + 2 \in Nat /\ new[r + 2] = mark[r + 2] - n
    BY <1>21
  <2> QED
    BY <1>17, <2>1
<1>23. Marks(new, left, Frames(messages), r + 2, Len(messages))
  <2>1. \A k \in r + 2..Len(messages) : k \in r + 1..Len(messages)
    BY <1>12
  <2> QED
    BY <1>21, <2>1 DEF Marks
<1>24. \A k \in 1..r + 1 : more[k] = messages[k]
  <2>1. \A k \in 1..r + 1 : k \in 1..r \/ k = r + 1
    OBVIOUS
  <2> QED
    BY <1>10, <1>12, <1>16, <1>18, <2>1
<1>25. Follows(next, ahead, messages)
  <2>1. r + 1 <= Len(messages) /\ (r + 1) + 1 = r + 2
    BY <1>12
  <2> QED
    BY <1>7, <1>10, <1>19, <1>22, <1>23, <1>24, <2>1 DEF Follows
<1>26. Len(rest) < Len(bytes)
  BY <1>3, <1>8 DEF Rest
<1> QED
  BY <1>1, <1>2, <1>7, <1>11, <1>25, <1>26

\* It does nothing more, or it goes on, with fewer bytes.
LEMMA PassKeeps ==
  ASSUME NEW messages, Sendable(messages), NEW ahead \in Seq(Byte), NEW at \in Loops,
         Follows(at, ahead, messages)
  PROVE  LET next == Pass(at)
         IN  /\ next \in Loops /\ Follows(next, ahead, messages)
             /\ (next = at /\ Ended(at)) \/ Len(next.bytes) < Len(at.bytes)
<1>1. Len(at.bytes) \in Nat /\ at.size \in Nat
  BY DEF Loops
<1>2. CASE at.size = 0 /\ Len(at.bytes) >= 2
  BY <1>2, HeaderPass
<1>3. CASE at.size # 0 /\ Len(at.bytes) >= at.size
  BY <1>3, MessagePass
<1>4. CASE /\ ~(at.size = 0 /\ Len(at.bytes) >= 2)
           /\ ~(at.size # 0 /\ Len(at.bytes) >= at.size)
  <2>1. Pass(at) = at
    BY <1>4 DEF Pass
  <2>2. Ended(at)
    BY <1>1, <1>4 DEF Ended
  <2> QED
    BY <2>1, <2>2
<1> QED
  BY <1>2, <1>3, <1>4

-----------------------------------------------------------------------------
(* The loop *)

\* The states after the passes: a function that its definition by recursion determines
\* exists for any number of them.
LEMMA PassesExist ==
  ASSUME NEW start, NEW n \in Nat
  PROVE  \E after : after = [k \in 0..n |-> IF k = 0 THEN start ELSE Pass(after[k - 1])]
<1> DEFINE Exists(m) ==
             \E after : after = [k \in 0..m |-> IF k = 0 THEN start ELSE Pass(after[k - 1])]
<1> DEFINE Without == {m \in Nat : ~Exists(m)}
<1>1. SUFFICES ASSUME Without # {} PROVE FALSE
  OBVIOUS
<1>2. PICK m \in Without : \A k \in Without : m <= k
  <2>1. Without \in SUBSET Nat
    OBVIOUS
  <2> HIDE DEF Without
  <2> QED
    BY <1>1, <2>1, LeastNumber
<1>3. m \in Nat /\ ~Exists(m)
  OBVIOUS
<1>4. CASE m = 0
  <2>1. PICK after : after = [k \in 0..0 |-> start]
    OBVIOUS
  <2>2. after = [k \in 0..0 |-> IF k = 0 THEN start ELSE Pass(after[k - 1])]
    <3>1. \A k \in 0..0 : k = 0
      OBVIOUS
    <3> QED
      BY <2>1, <3>1
  <2> QED
    BY <1>3, <1>4, <2>2
<1>5. CASE m # 0
  <2>1. m - 1 \in Nat /\ m - 1 \notin Without
    BY <1>2, <1>3, <1>5
  <2>2. PICK old : old = [k \in 0..m - 1 |-> IF k = 0 THEN start ELSE Pass(old[k - 1])]
    BY <2>1
  <2>3. \A k \in 0..m - 1 : old[k] = IF k = 0 THEN start ELSE Pass(old[k - 1])
    BY <2>2
  <2>4. PICK after : after = [k \in 0..m |-> IF k = m THEN Pass(old[m - 1]) ELSE old[k]]
    OBVIOUS
  <2>5. ASSUME NEW k \in 0..m
        PROVE  after[k] = IF k = 0 THEN start ELSE Pass(after[k - 1])
    <3>1. CASE k = m
      <4>1. after[k] = Pass(old[m - 1]) /\ after[m - 1] = old[m - 1]
        BY <1>3, <1>5, <2>4, <3>1
      <4> QED
        BY <1>5, <3>1, <4>1
    <3>2. CASE k # m
      <4>1. k \in 0..m - 1 /\ after[k] = old[k]
        BY <1>3, <2>4, <3>2
      <4>2. CASE k = 0
        BY <2>3, <4>1, <4>2
      <4>3. CASE k # 0
        <5>1. after[k - 1] = old[k - 1]
          BY <1>3, <2>4, <3>2, <4>3
        <5> QED
          BY <2>3, <4>1, <4>3, <5>1
      <4> QED
        BY <4>2, <4>3
    <3> QED
      BY <3>1, <3>2
  <2>6. after = [k \in 0..m |-> IF k = 0 THEN start ELSE Pass(after[k - 1])]
    <3>1. after = [k \in 0..m |-> after[k]]
      BY <2>4
    <3> QED
      BY <2>5, <3>1
  <2> QED
    BY <1>3, <2>6
<1> QED
  BY <1>4, <1>5

\* The loop does what it does pass by pass.
LEMMA CollectIs ==
  ASSUME NEW start \in Loops
  PROVE  \E after : /\ after[0] = start
                    /\ \A k \in 1..Len(start.bytes) : after[k] = Pass(after[k - 1])
                    /\ Collect(start) = after[Len(start.bytes)]
<1> DEFINE Passes(f) == [k \in 0..Len(start.bytes) |-> IF k = 0 THEN start ELSE Pass(f[k - 1])]
<1>1. PICK n \in Nat : n = Len(start.bytes)
  BY DEF Loops
<1>2. PICK after : after = CHOOSE f : f = Passes(f)
  OBVIOUS
<1>3. \E f : f = Passes(f)
  <2>1. \E f : f = [k \in 0..n |-> IF k = 0 THEN start ELSE Pass(f[k - 1])]
    BY PassesExist
  <2> QED
    BY <1>1, <2>1, Zenon
<1>4. after = Passes(after)
  BY <1>2, <1>3
<1>5. Collect(start) = after[Len(start.bytes)]
  BY <1>2 DEF Collect
<1>6. \A k \in 0..n : after[k] = IF k = 0 THEN start ELSE Pass(after[k - 1])
  BY <1>1, <1>4
<1>7. after[0] = start
  BY <1>6
<1>8. \A k \in 1..n : after[k] = Pass(after[k - 1])
  BY <1>6
<1> QED
  BY <1>1, <1>5, <1>7, <1>8

\* It keeps in step with the stream, and ends when it can do nothing more.
LEMMA CollectKeeps ==
  ASSUME NEW messages, Sendable(messages), NEW ahead \in Seq(Byte), NEW start \in Loops,
         Follows(start, ahead, messages)
  PROVE  LET end == Collect(start)
         IN  end \in Loops /\ Follows(end, ahead, messages) /\ Ended(end)
<1>1. PICK n \in Nat : n = Len(start.bytes)
  BY DEF Loops
<1>2. PICK after : /\ after[0] = start
                   /\ \A k \in 1..n : after[k] = Pass(after[k - 1])
                   /\ Collect(start) = after[n]
  BY <1>1, CollectIs
<1> DEFINE Good(k) == /\ after[k] \in Loops /\ Follows(after[k], ahead, messages)
                      /\ Ended(after[k]) \/ Len(after[k].bytes) <= n - k
<1> DEFINE Bad == {k \in Nat : k <= n /\ ~Good(k)}
<1>3. Bad = {}
  <2>1. SUFFICES ASSUME Bad # {} PROVE FALSE
    OBVIOUS
  <2>2. PICK k \in Bad : \A i \in Bad : k <= i
    <3>1. Bad \in SUBSET Nat
      OBVIOUS
    <3> HIDE DEF Bad
    <3> QED
      BY <2>1, <3>1, LeastNumber
  <2>3. k \in Nat /\ k <= n /\ ~Good(k)
    OBVIOUS
  <2>4. k # 0
    BY <1>1, <1>2, <2>3
  <2>5. k - 1 \in Nat /\ k \in 1..n /\ k - 1 <= n /\ k - 1 \notin Bad
    BY <2>2, <2>3, <2>4
  <2>6. Good(k - 1)
    BY <2>5
  <2>7. PICK at \in Loops : at = after[k - 1]
    BY <2>6
  <2>8. PICK next : next = Pass(at)
    OBVIOUS
  <2>9. after[k] = next
    BY <1>2, <2>5, <2>7, <2>8
  <2>10. /\ next \in Loops /\ Follows(next, ahead, messages)
         /\ (next = at /\ Ended(at)) \/ Len(next.bytes) < Len(at.bytes)
    BY <2>6, <2>7, <2>8, PassKeeps
  <2>11. Ended(at) \/ Len(at.bytes) <= n - (k - 1)
    BY <2>6, <2>7
  <2>12. Len(next.bytes) \in Nat /\ Len(at.bytes) \in Nat
    BY <2>10 DEF Loops
  <2>13. Ended(at) => next = at
    <3>1. ASSUME Ended(at) PROVE next = at
      BY <2>8, <2>12, <3>1 DEF Ended, Pass, Loops
    <3> QED
      BY <3>1
  <2>14. Ended(next) \/ Len(next.bytes) <= n - k
    <3>1. CASE Ended(at)
      BY <2>13, <3>1
    <3>2. CASE ~Ended(at)
      <4>1. Len(next.bytes) < Len(at.bytes) /\ Len(at.bytes) <= n - (k - 1)
        BY <2>10, <2>11, <3>2
      <4> QED
        BY <2>3, <2>12, <4>1
    <3> QED
      BY <3>1, <3>2
  <2> QED
    BY <2>3, <2>9, <2>10, <2>14
<1>4. Good(n)
  <2>1. n \in Nat /\ n <= n /\ n \notin Bad
    BY <1>3
  <2> QED
    BY <2>1
<1>5. Ended(after[n])
  <2>1. CASE Len(after[n].bytes) <= n - n
    <3>1. Len(after[n].bytes) \in Nat /\ after[n].size \in Nat
      BY <1>4 DEF Loops
    <3>2. Len(after[n].bytes) = 0
      BY <2>1, <3>1
    <3> QED
      BY <3>1, <3>2 DEF Ended
  <2> QED
    BY <1>4, <2>1
<1> QED
  BY <1>2, <1>4, <1>5

-----------------------------------------------------------------------------
(* The invariant *)

\* What the buffer, the static size and the messages resolved are together.
Collected == [bytes |-> buffer, size |-> msgSize, messages |-> resolved]

IInv == /\ sent \in Seq(Seq(Byte)) /\ \A k \in DOMAIN sent : Len(sent[k]) \in BodySizes
        /\ wire \in Seq(Byte) /\ Collected \in Loops
        /\ Follows(Collected, wire, sent) /\ Ended(Collected)

\* No size that is written wraps (the unsigned short of Session.cpp:86).
NoSizeWraps == \A size \in BodySizes : size < Base * Base

\* What was sent can be read back.
LEMMA SentIsSendable == ASSUME IInv, NoSizeWraps PROVE Sendable(sent)
<1>1. sent \in Seq(Seq(Byte)) /\ DOMAIN sent = 1..Len(sent)
  BY DEF IInv
<1>2. \A k \in 1..Len(sent) : Len(sent[k]) \in BodySizes
  BY <1>1 DEF IInv
<1>3. \A size \in BodySizes : size \in Nat /\ 2 <= size /\ size < Base * Base
  BY SizesAssumption DEF NoSizeWraps
<1> QED
  BY <1>1, <1>2, <1>3 DEF Sendable

\* A message is written.
LEMMA SendKeeps == ASSUME IInv, NoSizeWraps, NEW body \in Bodies, SendMessage(body) PROVE IInv'
<1>1. /\ body \in Seq(Byte) /\ Len(body) \in BodySizes /\ Len(body) \in Nat
      /\ Frame(body) \in Seq(Byte)
  BY BodyIs, FrameIs
<1>2. PICK more : more = Append(sent, body)
  OBVIOUS
<1>3. PICK frame : frame = Frame(body)
  OBVIOUS
<1>4. PICK longer : longer = wire \o frame
  OBVIOUS
<1>5. sent' = more /\ wire' = longer /\ Collected' = Collected
  BY <1>2, <1>3, <1>4 DEF SendMessage, Collected
<1>6. PICK at \in Loops : at = Collected
  BY DEF IInv
<1>7. /\ sent \in Seq(Seq(Byte)) /\ DOMAIN sent = 1..Len(sent) /\ Len(sent) \in Nat
      /\ \A k \in 1..Len(sent) : Len(sent[k]) \in BodySizes
      /\ wire \in Seq(Byte) /\ Follows(at, wire, sent) /\ Ended(at)
  BY <1>6 DEF IInv
<1>8. /\ more \in Seq(Seq(Byte)) /\ Len(more) = Len(sent) + 1 /\ DOMAIN more = 1..Len(sent) + 1
      /\ more[Len(sent) + 1] = body
      /\ \A k \in 1..Len(sent) : more[k] = sent[k]
  BY <1>1, <1>2, <1>7
<1>9. \A k \in DOMAIN more : Len(more[k]) \in BodySizes
  <2>1. \A k \in 1..Len(sent) + 1 : k \in 1..Len(sent) \/ k = Len(sent) + 1
    BY <1>7
  <2> QED
    BY <1>1, <1>7, <1>8, <2>1
<1>10. longer \in Seq(Byte)
  BY <1>1, <1>3, <1>4, <1>7
<1>11. PICK bytes \in Seq(Byte), r \in Nat : bytes = at.bytes /\ r = Len(at.messages)
  BY DEF Loops
<1>12. /\ r <= Len(sent) /\ \A k \in 1..r : at.messages[k] = sent[k]
       /\ at.size # 0 => r < Len(sent) /\ at.size = Len(sent[r + 1])
  BY <1>7, <1>11 DEF Follows
<1>13. PICK stream : stream = bytes \o wire
  OBVIOUS
<1>14. PICK mark : /\ Marks(mark, stream, Frames(sent), r + 1, Len(sent))
                   /\ mark[r + 1] = IF at.size = 0 THEN 0 ELSE -2
  BY <1>7, <1>11, <1>13 DEF Follows
<1>15. Frames(more) = Append(Frames(sent), frame)
  BY <1>1, <1>2, <1>3, <1>7, FramesAppend
<1>16. bytes \o longer = stream \o frame
  BY <1>1, <1>3, <1>4, <1>7, <1>13
<1>17. \E new : /\ Marks(new, bytes \o longer, Frames(more), r + 1, Len(sent) + 1)
                /\ new[r + 1] = mark[r + 1]
  <2>1. PICK frames : frames = Frames(sent)
    OBVIOUS
  <2>2. PICK first, last : first = r + 1 /\ last = Len(sent)
    OBVIOUS
  <2>3. frames \in Seq(Seq(Byte)) /\ Len(frames) = last
    BY <1>7, <2>1, <2>2, FramesAre
  <2>4. stream \in Seq(Byte) /\ frame \in Seq(Byte)
    BY <1>1, <1>3, <1>7, <1>13
  <2>5. first \in Nat \ {0} /\ last \in Nat /\ last <= Len(frames) /\ first <= last + 1
    BY <1>7, <1>12, <2>2, <2>3
  <2>6. Marks(mark, stream, frames, first, last)
    BY <1>14, <2>1, <2>2
  <2>7. last = Len(frames) =>
          \E new : /\ Marks(new, stream \o frame, Append(frames, frame), first, last + 1)
                   /\ new[first] = mark[first]
    BY <2>3, <2>4, <2>5, <2>6, MarksWritten
  <2> QED
    BY <1>15, <1>16, <2>1, <2>2, <2>3, <2>7, Zenon
<1>18. Follows(at, longer, more)
  <2>1. r <= Len(more) /\ \A k \in 1..r : at.messages[k] = more[k]
    <3>1. Len(sent) \in Nat /\ r <= Len(sent) /\ Len(more) = Len(sent) + 1
      BY <1>7, <1>8, <1>12
    <3>2. r <= Len(more) /\ \A k \in 1..r : k \in 1..Len(sent)
      BY <3>1
    <3> QED
      BY <1>8, <1>12, <3>2
  <2>2. at.size # 0 => r < Len(more) /\ at.size = Len(more[r + 1])
    <3>1. r < Len(sent) => r + 1 \in 1..Len(sent) /\ r < Len(more)
      BY <1>7, <1>8
    <3> QED
      BY <1>8, <1>12, <3>1
  <2>3. \E new : /\ Marks(new, bytes \o longer, Frames(more), r + 1, Len(more))
                 /\ new[r + 1] = IF at.size = 0 THEN 0 ELSE -2
    BY <1>8, <1>14, <1>17
  <2> QED
    BY <1>11, <2>1, <2>2, <2>3 DEF Follows
<1> QED
  BY <1>5, <1>6, <1>7, <1>8, <1>9, <1>10, <1>18 DEF IInv

\* A stream of bytes that is cut and put behind what the client holds is the
\* stream behind what it held.
LEMMA BytesCut ==
  \A part, ahead, come, rest \in Seq(Byte) :
    Begins(come, ahead) /\ Rest(rest, ahead, Len(come))
      => (part \o come) \o rest = part \o ahead
  BY CutAndConcat

\* Bytes arrive.
LEMMA ReadKeeps ==
  ASSUME IInv, NoSizeWraps, NEW count \in 1..Len(wire), OnReadyRead(count)
  PROVE  IInv'
<1>1. sent \in Seq(Seq(Byte)) /\ wire \in Seq(Byte) /\ Sendable(sent)
  BY SentIsSendable DEF IInv
<1>2. PICK at \in Loops : at = Collected
  BY DEF IInv
<1>3. PICK bytes : bytes = at.bytes
  OBVIOUS
<1>4. PICK n \in Nat : n = count /\ n <= Len(wire)
  BY <1>1
<1>5. PICK come, rest : come = SubSeq(wire, 1, n) /\ rest = SubSeq(wire, n + 1, Len(wire))
  OBVIOUS
<1>6. come \in Seq(Byte) /\ Len(come) = n /\ \A k \in 1..n : come[k] = wire[k]
  BY <1>1, <1>4, <1>5
<1>7. rest \in Seq(Byte) /\ Rest(rest, wire, n)
  BY <1>1, <1>4, <1>5, RestIs
<1>8. PICK more : more = bytes \o come
  OBVIOUS
<1>9. more \o rest = bytes \o wire
  <2>1. Begins(come, wire)
    BY <1>6 DEF Begins
  <2>2. Rest(rest, wire, Len(come))
    BY <1>6, <1>7
  <2>3. /\ bytes \in Seq(Byte) /\ wire \in Seq(Byte)
        /\ come \in Seq(Byte) /\ rest \in Seq(Byte)
    BY <1>1, <1>3, <1>6, <1>7 DEF Loops
  <2>4. (bytes \o come) \o rest = bytes \o wire
    BY <2>1, <2>2, <2>3, BytesCut, SMT
  <2> QED
    BY <1>8, <2>4
<1>10. PICK start : start = [bytes |-> more, size |-> at.size, messages |-> at.messages]
  OBVIOUS
<1>11. /\ start \in Loops
       /\ start.bytes = more /\ start.size = at.size /\ start.messages = at.messages
  <2>1. bytes \in Seq(Byte) /\ at.size \in Nat /\ at.messages \in Seq(Seq(Byte))
    BY <1>3 DEF Loops
  <2>2. more \in Seq(Byte)
    BY <1>6, <1>8, <2>1
  <2> QED
    BY <1>10, <2>1, <2>2 DEF Loops
<1>12. Follows(start, rest, sent)
  <2>1. Follows(at, wire, sent)
    BY <1>2 DEF IInv
  <2> QED
    BY <1>3, <1>9, <1>11, <2>1 DEF Follows
<1>13. PICK end \in Loops : end = Collect(start) /\ Follows(end, rest, sent) /\ Ended(end)
  BY <1>1, <1>7, <1>11, <1>12, CollectKeeps
<1>14. at.bytes = buffer /\ at.size = msgSize /\ at.messages = resolved
  BY <1>2 DEF Collected
<1>15. start = [bytes    |-> buffer \o SubSeq(wire, 1, count),
                size     |-> msgSize,
                messages |-> resolved]
  BY <1>3, <1>4, <1>5, <1>8, <1>10, <1>14
<1>16. /\ wire' = rest /\ sent' = sent
       /\ buffer' = end.bytes /\ msgSize' = end.size /\ resolved' = end.messages
  BY <1>4, <1>5, <1>13, <1>15 DEF OnReadyRead
<1>17. Collected' = end
  <2>1. end = [bytes |-> end.bytes, size |-> end.size, messages |-> end.messages]
    BY DEF Loops
  <2> QED
    BY <1>16, <2>1 DEF Collected
<1> QED
  BY <1>1, <1>7, <1>13, <1>16, <1>17 DEF IInv

\* The invariant holds in the beginning and is kept by every step.
LEMMA Invariance == ASSUME NoSizeWraps PROVE Spec => []IInv
<1>1. ASSUME Init PROVE IInv
  <2>1. PICK at : at = Collected
    OBVIOUS
  <2>2. /\ sent = << >> /\ wire = << >>
        /\ at.bytes = << >> /\ at.size = 0 /\ at.messages = << >>
        /\ at = [bytes |-> << >>, size |-> 0, messages |-> << >>]
    BY <1>1, <2>1 DEF Init, Collected
  <2>3. /\ sent \in Seq(Seq(Byte)) /\ wire \in Seq(Byte) /\ DOMAIN sent = {}
        /\ Len(sent) = 0 /\ Len(at.messages) = 0 /\ Len(at.bytes) = 0
    BY <2>2
  <2>4. at \in Loops /\ Ended(at)
    BY <2>2, <2>3 DEF Loops, Ended
  <2>5. PICK mark : mark = [k \in Nat |-> 0]
    OBVIOUS
  <2>6. \A k \in Nat : mark[k] = 0
    BY <2>5
  <2>7. Len(at.bytes \o wire) = 0
    BY <2>2
  <2>8. Marks(mark, at.bytes \o wire, Frames(sent), 1, 0)
    BY <2>6, <2>7 DEF Marks
  <2>9. Follows(at, wire, sent)
    BY <2>2, <2>3, <2>6, <2>8 DEF Follows
  <2> QED
    BY <2>1, <2>3, <2>4, <2>9 DEF IInv
<1>2. ASSUME IInv, [Next]_vars PROVE IInv'
  <2>1. CASE \E body \in Bodies : SendMessage(body)
    BY <1>2, <2>1, SendKeeps
  <2>2. CASE \E count \in 1..Len(wire) : OnReadyRead(count)
    BY <1>2, <2>2, ReadKeeps
  <2>3. CASE UNCHANGED vars
    BY <1>2, <2>3 DEF vars, IInv, Collected
  <2> QED
    BY <1>2, <2>1, <2>2, <2>3 DEF Next
<1> QED
  BY <1>1, <1>2, PTL DEF Spec

-----------------------------------------------------------------------------
(* The theorems *)

\* If no size wraps, however the bytes are cut into readyRead signals, the client has
\* resolved the first of the messages the session wrote, whole and in order
\* (Session.cpp:84-99, MatchClient.cpp:73-91).
THEOREM ResolvedInOrder == NoSizeWraps => (Spec => []ResolvedIsPrefix)
<1> SUFFICES ASSUME NoSizeWraps PROVE Spec => []ResolvedIsPrefix
  OBVIOUS
<1>1. ASSUME IInv PROVE ResolvedIsPrefix
  <2>1. PICK d \in Nat : d = Len(resolved)
    BY <1>1 DEF IInv, Loops, Collected
  <2>2. /\ sent \in Seq(Seq(Byte)) /\ resolved \in Seq(Seq(Byte)) /\ Len(sent) \in Nat
        /\ d <= Len(sent) /\ \A k \in 1..d : resolved[k] = sent[k]
    BY <1>1, <2>1 DEF IInv, Loops, Collected, Follows
  <2>3. PICK begun : begun = SubSeq(sent, 1, d)
    OBVIOUS
  <2>4. SubSeq(resolved, 1, d) = begun
    BY <2>1, <2>2, <2>3
  <2>5. DOMAIN resolved = 1..d /\ Len(resolved) = d
    BY <2>1, <2>2
  <2> QED
    BY <2>1, <2>2, <2>3, <2>4, <2>5 DEF ResolvedIsPrefix, IsPrefix
<1>2. Spec => []IInv
  BY Invariance
<1> QED
  BY <1>1, <1>2, PTL

\* If no size wraps, every message whose bytes have all arrived is resolved: the loop of
\* OnReadyRead ends with no message left in the buffer (MatchClient.cpp:77-90).
THEOREM NothingStaysInTheBuffer == NoSizeWraps => (Spec => []NothingHeldBack)
<1> SUFFICES ASSUME NoSizeWraps PROVE Spec => []NothingHeldBack
  OBVIOUS
<1>1. ASSUME IInv, wire = << >> PROVE resolved = sent
  <2>1. PICK at \in Loops : /\ at = Collected /\ Follows(at, wire, sent) /\ Ended(at)
                            /\ at.messages = resolved
    BY <1>1 DEF IInv, Collected
  <2>2. PICK bytes \in Seq(Byte), r \in Nat, n \in Nat :
          bytes = at.bytes /\ r = Len(resolved) /\ n = at.size
    BY <2>1 DEF Loops
  <2>3. /\ sent \in Seq(Seq(Byte)) /\ Len(sent) \in Nat /\ Sendable(sent)
        /\ resolved \in Seq(Seq(Byte))
        /\ r <= Len(sent) /\ \A k \in 1..r : resolved[k] = sent[k]
        /\ n # 0 => r < Len(sent) /\ n = Len(sent[r + 1])
    BY <1>1, <2>1, <2>2, SentIsSendable DEF IInv, Loops, Follows
  <2>4. bytes \o wire = bytes
    BY <1>1
  <2>5. PICK mark : /\ Marks(mark, bytes, Frames(sent), r + 1, Len(sent))
                    /\ mark[r + 1] = IF n = 0 THEN 0 ELSE -2
    BY <2>1, <2>2, <2>4 DEF Follows
  <2>6. ~(r < Len(sent))
    <3>1. SUFFICES ASSUME r < Len(sent) PROVE FALSE
      OBVIOUS
    <3>2. PICK body \in Seq(Byte) : body = sent[r + 1]
      BY <2>3, <2>5, <3>1, NextFrame
    <3>3. /\ Len(body) \in Nat /\ 2 <= Len(body)
          /\ Holds(bytes, mark[r + 1], Frame(body))
      BY <2>3, <2>5, <3>1, <3>2, NextFrame
    <3>4. 2 + Len(body) \in 1..Len(Frame(body))
      BY <3>3, FrameIs
    <3>5. PICK place \in Int : place = mark[r + 1] /\ (place = 0 \/ (place = -2 /\ n = Len(body)))
      BY <2>3, <2>5, <3>2
    <3>6. place + (2 + Len(body)) >= 1
      BY <3>3, <3>5
    <3>7. place + (2 + Len(body)) <= Len(bytes)
      BY <3>3, <3>4, <3>5, <3>6 DEF Holds
    <3>8. IF n = 0 THEN Len(bytes) < 2 ELSE Len(bytes) < n
      BY <2>1, <2>2 DEF Ended
    <3>9. Len(bytes) \in Nat
      OBVIOUS
    <3>10. n = 0 => place = 0
      BY <2>5, <3>5
    <3>11. PICK l \in Nat : l = Len(body)
      BY <3>3
    <3>12. CASE n = 0
      BY <3>3, <3>7, <3>8, <3>9, <3>10, <3>11, <3>12
    <3>13. CASE n # 0
      BY <3>3, <3>5, <3>7, <3>8, <3>9, <3>11, <3>13, <2>5
    <3> QED
      BY <3>12, <3>13
  <2>7. r = Len(sent)
    BY <2>3, <2>6
  <2>8. Len(resolved) = Len(sent) /\ \A k \in 1..Len(sent) : resolved[k] = sent[k]
    BY <2>2, <2>3, <2>7
  <2> QED
    BY <2>3, <2>8
<1>2. IInv => NothingHeldBack
  BY <1>1 DEF NothingHeldBack
<1>3. Spec => []IInv
  BY Invariance
<1> QED
  BY <1>2, <1>3, PTL
=============================================================================
