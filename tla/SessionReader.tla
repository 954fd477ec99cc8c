---------------------------- MODULE SessionReader ----------------------------
(***************************************************************************)
(* From MatchClient::SendMsg to Session: async_read takes the two bytes of *)
(* the header and then the body, each when all of it has arrived.          *)
(***************************************************************************)
EXTENDS Framing, FiniteSetsExt

VARIABLES sent,      \* the messages the client wrote
          wire,      \* the bytes the session has not read
          expected,  \* size of the body being read, 0 while reading a header
          delivered, \* the messages given to Server::OnClientMsg
          open       \* OnSessionClose was not called for a bad size

vars == <<sent, wire, expected, delivered, open>>

Init == /\ sent = << >>
        /\ wire = << >>
        /\ expected = 0
        /\ delivered = << >>
        /\ open = TRUE

SendMsg(body) == /\ Len(sent) < MaxSent
                 /\ sent' = Append(sent, body)
                 /\ wire' = wire \o Frame(body)
                 /\ UNCHANGED <<expected, delivered, open>>

\* Slip: the bound on the size is two too high.
HeaderBelowFour ==
  /\ open /\ expected = 0 /\ Len(wire) >= 2
  /\ LET size == SizeOf(wire[1], wire[2])
     IN  IF size < 4 THEN open' = FALSE /\ UNCHANGED expected
                     ELSE expected' = size /\ UNCHANGED open
  /\ wire' = SubSeq(wire, 3, Len(wire))
  /\ UNCHANGED <<sent, delivered>>

OnHeaderReadDone ==
  /\ open /\ expected = 0 /\ Len(wire) >= 2
  /\ LET size == SizeOf(wire[1], wire[2])
     IN  IF size < 2 THEN open' = FALSE /\ UNCHANGED expected
                     ELSE expected' = size /\ UNCHANGED open
  /\ wire' = SubSeq(wire, 3, Len(wire))
  /\ UNCHANGED <<sent, delivered>>

\* Slip: one byte of the array is left unused.
BufferSizeOneLess(size) ==
  IF size < READ_BUFFER_SIZE THEN size ELSE READ_BUFFER_SIZE - 1
\* asio::buffer(array, size) is no longer than the array.
BufferSize(size) == IF size < READ_BUFFER_SIZE THEN size ELSE READ_BUFFER_SIZE

OnBodyReadDone ==
  /\ open /\ expected # 0 /\ Len(wire) >= BufferSize(expected)
  /\ delivered' = Append(delivered, SubSeq(wire, 1, BufferSize(expected)))
  /\ wire' = SubSeq(wire, BufferSize(expected) + 1, Len(wire))
  /\ expected' = 0
  /\ UNCHANGED <<sent, open>>

Next == \/ \E body \in Bodies : SendMsg(body)
        \/ OnHeaderReadDone
        \/ OnBodyReadDone

Spec == Init /\ [][Next]_vars /\ WF_vars(OnHeaderReadDone) /\ WF_vars(OnBodyReadDone)

-----------------------------------------------------------------------------
(* Properties *)

\* How many messages were written before the first one that the buffer cannot hold.
Whole(messages) ==
  LET long == {k \in DOMAIN messages : Len(messages[k]) > READ_BUFFER_SIZE}
  IN  IF long = {} THEN Len(messages) ELSE Min(long) - 1

\* Up to the first message that is too long for the buffer, or so long that its
\* size wraps (MatchClient.cpp:98), the session hands on what the client wrote,
\* whole and in order, and is not closed for a bad size; what it makes of the
\* stream after that is not told (it may read data as a header, Session.cpp:66).
WholeUntilTooLong ==
  /\ \A k \in 1..Whole(sent) : k <= Len(delivered) => delivered[k] = sent[k]
  /\ ~open => Len(delivered) >= Whole(sent)

\* Every message written before the first one that is too long is handed on.
AllDelivered == \A n \in 1..MaxSent : Whole(sent) >= n ~> Len(delivered) >= n

\* The session hands on the messages the client wrote, whole and in order
\* (the frame of Session.cpp:47-50: the data is MessageSize - 2 bytes long).
DeliveredIsPrefix == IsPrefix(delivered, sent)
=============================================================================
