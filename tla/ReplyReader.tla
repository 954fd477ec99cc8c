----------------------------- MODULE ReplyReader -----------------------------
(***************************************************************************)
(* From Session::SendMessage to MatchClient::OnReadyRead: the socket hands *)
(* the bytes over in pieces of any length, which OnReadyRead collects.     *)
(***************************************************************************)
EXTENDS Framing

VARIABLES sent,     \* the messages the session wrote
          wire,     \* the bytes that have not arrived
          buffer,   \* m_kDataBuffer
          msgSize,  \* the static msgSize, 0 before a header was read
          resolved  \* the messages given to ResolveMsg

vars == <<sent, wire, buffer, msgSize, resolved>>

Init == /\ sent = << >>
        /\ wire = << >>
        /\ buffer = << >>
        /\ msgSize = 0
        /\ resolved = << >>

SendMessage(body) == /\ Len(sent) < MaxSent
                     /\ sent' = Append(sent, body)
                     /\ wire' = wire \o Frame(body)
                     /\ UNCHANGED <<buffer, msgSize, resolved>>

\* One pass of the loop of OnReadyRead: a header is taken from the buffer, or a
\* message, or the loop ends.
Pass(at) ==
  CASE at.size = 0 /\ Len(at.bytes) >= 2 ->
         [at EXCEPT !.bytes = SubSeq(@, 3, Len(@)),
                    !.size = SizeOf(at.bytes[1], at.bytes[2])]
    [] at.size # 0 /\ Len(at.bytes) >= at.size ->
         [bytes |-> SubSeq(at.bytes, at.size + 1, Len(at.bytes)),
          size |-> 0,
          messages |-> Append(at.messages, SubSeq(at.bytes, 1, at.size))]
    [] OTHER -> at

\* Slip: the loop ends when a message was taken.
CollectOnce(start) ==
  LET after[n \in 0..Len(start.bytes)] ==
        CASE n = 0 -> start
          [] n # 0 /\ after[n - 1].messages # start.messages -> after[n - 1]
          [] OTHER -> Pass(after[n - 1])
  IN  after[Len(start.bytes)]
\* Every pass but the last takes a byte: there are no more passes than bytes.
Collect(start) ==
  LET after[n \in 0..Len(start.bytes)] == IF n = 0 THEN start ELSE Pass(after[n - 1])
  IN  after[Len(start.bytes)]

OnReadyRead(count) ==
  LET after == Collect([bytes    |-> buffer \o SubSeq(wire, 1, count),
                        size     |-> msgSize,
                        messages |-> resolved])
  IN  /\ wire' = SubSeq(wire, count + 1, Len(wire))
      /\ buffer' = after.bytes
      /\ msgSize' = after.size
      /\ resolved' = after.messages
      /\ UNCHANGED sent

Next == \/ \E body \in Bodies : SendMessage(body)
        \/ \E count \in 1..Len(wire) : OnReadyRead(count)

Spec == Init /\ [][Next]_vars

-----------------------------------------------------------------------------
(* Properties *)

\* However the stream is cut, the messages resolved are those written, whole
\* and in order; the static size survives from one readyRead to the next.
ResolvedIsPrefix == IsPrefix(resolved, sent)

\* No message waits in the buffer once all its bytes are there: Qt signals
\* readyRead only when more arrive, and nothing else would look at them.
NothingHeldBack == wire = << >> => resolved = sent
=============================================================================
