------------------------- MODULE RtcNegotiationProofs -------------------------
(***************************************************************************)
(* Proofs about RtcNegotiation, for any number of candidates and faults:   *)
(* the type invariant, that candidates wait only for a description, that   *)
(* the peers implement the handshake of Negotiation, and that candidates   *)
(* are added once, in order and with none left out.                        *)
(*                                                                         *)
(* A step changes one peer.  StepKeeps says what the new record of that    *)
(* peer, and what is posted and sent, must satisfy for the invariant to    *)
(* hold again and for the step to be one of the handshake; the lemmas      *)
(* after it show this of every action.                                     *)
(***************************************************************************)
EXTENDS RtcNegotiation, QueueLemmas, Integers

\* What holds of a peer by itself.
PeerHolds(me) ==
  /\ me.connection => me.started
  /\ me.remote # "none" => me.connection
  /\ me.local = "answer" \/ me.setting = "answer" => me.remote # "none"
  /\ me.added # << >> => me.remote # "none"
  /\ me.buffer # << >> => me.remote = "none" \/ me.error

AgentSpoke == peer["agent"].local # "none"
BothDescribed == \A p \in Peers : peer[p].remote # "none"

\* What an event in the queue of p, and a message on its way to p, tell of the peers.
EventHolds(p, e) ==
  /\ e.event = "SetLocalSessionSuccess" => peer[p].local # "none"
  /\ e.event \in {"Connected", "Disconnected"} => BothDescribed
MessageHolds(p, m) ==
  m.type = "ExchangeSessionDescription" =>
    /\ AgentSpoke
    /\ p = "agent" /\ m.sdp_type = "answer" => peer["controller"].remote # "none"

\* The controller describes itself after the agent did, and is described before it.
InTurn ==
  /\ peer["controller"].local # "none" \/ peer["controller"].setting # "none" => AgentSpoke
  /\ peer["agent"].remote # "none" => peer["controller"].remote # "none"

IInv == /\ TypeOK
        /\ \A p \in Peers : PeerHolds(peer[p])
        /\ InTurn
        /\ \A p \in Peers : peer[p].linked => BothDescribed
        /\ \A p \in Peers : \A k \in DOMAIN queue[p] : EventHolds(p, queue[p][k])
        /\ \A p \in Peers : \A k \in DOMAIN stream[p] : MessageHolds(p, stream[p][k])

\* A description is never withdrawn.
Grows(old, new) == /\ old.local # "none" => new.local # "none"
                   /\ old.remote # "none" => new.remote # "none"

\* The step of the handshake that a new record of p stands for.
Stays(p, new) == /\ new.remote = "none" <=> peer[p].remote = "none"
                 /\ new.ready = peer[p].ready /\ new.quit = peer[p].quit
Describes(p, new) == /\ peer[p].remote = "none" /\ new.remote # "none"
                     /\ p = "agent" => peer["controller"].remote # "none"
                     /\ new.ready = peer[p].ready
                     /\ ~peer[p].quit /\ ~new.quit
Connects(p, new) == /\ BothDescribed /\ new.remote = peer[p].remote
                    /\ new.ready /\ ~peer[p].quit /\ ~new.quit
Ends(p, new) == /\ BothDescribed \/ peer[p].remote = "none"
                /\ new.remote = peer[p].remote /\ new.ready = peer[p].ready
                /\ ~peer[p].quit /\ new.quit

\* What the new record of p must satisfy.
Allowed(p, new) ==
  /\ new \in PeerRecord
  /\ PeerHolds(new) /\ Grows(peer[p], new)
  /\ p = "controller" /\ (new.local # "none" \/ new.setting # "none") => AgentSpoke
  /\ new.linked => BothDescribed
  /\ Stays(p, new) \/ Describes(p, new) \/ Connects(p, new) \/ Ends(p, new)

\* What a step posts and sends holds after it; the rest was there before.
Posts == /\ queue' \in [Peers -> Seq(Events)]
         /\ \A q \in Peers : \A k \in DOMAIN queue'[q] :
              \/ \E l \in DOMAIN queue[q] : queue'[q][k] = queue[q][l]
              \/ EventHolds(q, queue[q][k])'
Sends == /\ stream' \in [Peers -> Seq(Messages)]
         /\ \A q \in Peers : \A k \in DOMAIN stream'[q] :
              \/ \E l \in DOMAIN stream[q] : stream'[q][k] = stream[q][l]
              \/ MessageHolds(q, stream[q][k])'

\* The types of an event and of a message that are looked at.
LEMMA Fields ==
  /\ \A e \in Events : e.event = "IceCandidate" => e.candidate \in Candidates
  /\ \A m \in Messages :
       /\ m.type = "ExchangeSessionDescription" => m.sdp_type \in SdpTypes
       /\ m.type = "ExchangeIceCandidate" => m.candidate \in Candidates
  /\ \A c \in Candidates : /\ [event |-> "IceCandidate", candidate |-> c] \in Events
                           /\ [type |-> "ExchangeIceCandidate", candidate |-> c] \in Messages
  /\ \A t \in SdpTypes :
       [type |-> "ExchangeSessionDescription", sdp_type |-> t] \in Messages
  /\ \A n \in {"SetLocalSessionSuccess", "SetLocalSessionFailed",
               "SetRemoteSessionSuccess", "SetRemoteSessionFailed",
               "Connected", "Disconnected", "Failed", "DataChannel"} :
       [event |-> n] \in Events
BY DEF Events, Messages

\* The facts about the two peers.
LEMMA PeersAre ==
  /\ "agent" \in Peers /\ "controller" \in Peers /\ "agent" # "controller"
  /\ \A p \in Peers : Other(p) \in Peers /\ Other(p) # p /\ (p = "agent" \/ p = "controller")
BY DEF Peers, Other

\* A step whose new record is allowed is one of the handshake.
LEMMA StepMaps ==
  ASSUME IInv, NEW p \in Peers, NEW new, Allowed(p, new), peer' = [peer EXCEPT ![p] = new]
  PROVE  [Handshake!Next]_(Handshake!vars)
<1>1. /\ peer \in [Peers -> PeerRecord]
      /\ peer'[p] = new /\ \A q \in Peers \ {p} : peer'[q] = peer[q]
  BY DEF IInv, TypeOK
<1>2. CASE Stays(p, new)
  <2>1. /\ {q \in Peers : peer'[q].remote # "none"} = {q \in Peers : peer[q].remote # "none"}
        /\ {q \in Peers : peer'[q].ready} = {q \in Peers : peer[q].ready}
        /\ {q \in Peers : peer'[q].quit} = {q \in Peers : peer[q].quit}
    BY <1>1, <1>2 DEF Stays
  <2> QED
    BY <2>1 DEF Handshake!vars
<1>3. CASE Describes(p, new)
  <2>1. /\ {q \in Peers : peer'[q].remote # "none"}
             = {q \in Peers : peer[q].remote # "none"} \cup {p}
        /\ {q \in Peers : peer'[q].ready} = {q \in Peers : peer[q].ready}
        /\ {q \in Peers : peer'[q].quit} = {q \in Peers : peer[q].quit}
    BY <1>1, <1>3 DEF Describes
  <2>2. /\ p \notin {q \in Peers : peer[q].remote # "none"} \cup {q \in Peers : peer[q].quit}
        /\ p = "agent" => "controller" \in {q \in Peers : peer[q].remote # "none"}
    BY <1>3, PeersAre DEF Describes
  <2>3. Handshake!Describe(p)
    BY <2>1, <2>2 DEF Handshake!Describe
  <2> QED
    BY <2>3 DEF Handshake!Next, Handshake!Peers, Peers
<1>4. CASE Connects(p, new)
  <2>1. /\ {q \in Peers : peer'[q].remote # "none"} = {q \in Peers : peer[q].remote # "none"}
        /\ {q \in Peers : peer'[q].ready} = {q \in Peers : peer[q].ready} \cup {p}
        /\ {q \in Peers : peer'[q].quit} = {q \in Peers : peer[q].quit}
    BY <1>1, <1>4 DEF Connects
  <2>2. {q \in Peers : peer[q].remote # "none"} = Handshake!Peers
    BY <1>4 DEF Connects, BothDescribed, Handshake!Peers, Peers
  <2>3. CASE peer[p].ready
    <3>1. {q \in Peers : peer[q].ready} \cup {p} = {q \in Peers : peer[q].ready}
      BY <2>3
    <3> QED
      BY <2>1, <3>1 DEF Handshake!vars
  <2>4. CASE ~peer[p].ready
    <3>1. p \notin {q \in Peers : peer[q].ready} \cup {q \in Peers : peer[q].quit}
      BY <1>4, <2>4 DEF Connects
    <3>2. Handshake!Connect(p)
      BY <2>1, <2>2, <3>1 DEF Handshake!Connect
    <3> QED
      BY <3>2 DEF Handshake!Next, Handshake!Peers, Peers
  <2> QED
    BY <2>3, <2>4
<1>5. CASE Ends(p, new)
  <2>1. /\ {q \in Peers : peer'[q].remote # "none"} = {q \in Peers : peer[q].remote # "none"}
        /\ {q \in Peers : peer'[q].ready} = {q \in Peers : peer[q].ready}
        /\ {q \in Peers : peer'[q].quit} = {q \in Peers : peer[q].quit} \cup {p}
    BY <1>1, <1>5 DEF Ends
  <2>2. p \notin {q \in Peers : peer[q].quit}
    BY <1>5 DEF Ends
  <2>3. \/ {q \in Peers : peer[q].remote # "none"} = Handshake!Peers
        \/ p \notin {q \in Peers : peer[q].remote # "none"}
    BY <1>5 DEF Ends, BothDescribed, Handshake!Peers, Peers
  <2>4. Handshake!End(p)
    BY <2>1, <2>2, <2>3 DEF Handshake!End
  <2> QED
    BY <2>4 DEF Handshake!Next, Handshake!Peers, Peers
<1> QED
  BY <1>2, <1>3, <1>4, <1>5 DEF Allowed

\* A step that changes one peer as allowed, and posts and sends only what holds, keeps
\* the invariant.
LEMMA StepKeeps ==
  ASSUME IInv, NEW p \in Peers, NEW new, Allowed(p, new), peer' = [peer EXCEPT ![p] = new],
         Posts, Sends, faults' \in 0..MaxFaults
  PROVE  IInv'
<1>1. /\ peer \in [Peers -> PeerRecord] /\ peer' \in [Peers -> PeerRecord]
      /\ peer'[p] = new /\ \A q \in Peers \ {p} : peer'[q] = peer[q]
  BY DEF IInv, TypeOK, Allowed
<1>2. /\ \A q \in Peers : Grows(peer[q], peer'[q])
      /\ BothDescribed => BothDescribed'
      /\ AgentSpoke => AgentSpoke'
  BY <1>1, PeersAre DEF Allowed, Grows, BothDescribed, AgentSpoke
<1>3. TypeOK'
  BY <1>1 DEF TypeOK, Posts, Sends
<1>4. \A q \in Peers : PeerHolds(peer'[q])
  BY <1>1 DEF IInv, Allowed
<1>5. InTurn'
  <2>2. peer'["agent"].remote # "none" => peer'["controller"].remote # "none"
    BY <1>1, <1>2, PeersAre DEF IInv, InTurn, Allowed, Grows, Stays, Describes, Connects, Ends
  <2> QED
    BY <1>1, <1>2, <2>2, PeersAre DEF IInv, InTurn, Allowed
<1>6. \A q \in Peers : peer'[q].linked => BothDescribed'
  BY <1>1, <1>2 DEF IInv, Allowed
<1>7. \A q \in Peers : \A k \in (DOMAIN queue[q])' : EventHolds(q, queue[q][k])'
  <2>1. \A q \in Peers : \A f : EventHolds(q, f) => EventHolds(q, f)'
    BY <1>2 DEF EventHolds, Grows
  <2> QED
    BY <2>1 DEF IInv, Posts
<1>8. \A q \in Peers : \A k \in (DOMAIN stream[q])' : MessageHolds(q, stream[q][k])'
  <2>1. \A q \in Peers : \A f : MessageHolds(q, f) => MessageHolds(q, f)'
    BY <1>2, PeersAre DEF MessageHolds, Grows
  <2> QED
    BY <2>1 DEF IInv, Sends
<1> QED
  BY <1>3, <1>4, <1>5, <1>6, <1>7, <1>8 DEF IInv

\* The record of a peer, and what is first in its queue and its stream.
LEMMA StateFacts ==
  ASSUME IInv, NEW p \in Peers
  PROVE  /\ peer[p] \in PeerRecord /\ PeerHolds(peer[p])
         /\ peer[p].linked => BothDescribed
         /\ p = "controller" /\ (peer[p].local # "none" \/ peer[p].setting # "none")
              => AgentSpoke
         /\ queue[p] \in Seq(Events) /\ stream[p] \in Seq(Messages)
         /\ queue[p] # << >> => Head(queue[p]) \in Events /\ EventHolds(p, Head(queue[p]))
         /\ stream[p] # << >> =>
              Head(stream[p]) \in Messages /\ MessageHolds(p, Head(stream[p]))
         /\ faults \in 0..MaxFaults
<1>1. queue[p] \in Seq(Events) /\ stream[p] \in Seq(Messages)
  BY DEF IInv, TypeOK
<1>2. ASSUME queue[p] # << >>
      PROVE  Head(queue[p]) \in Events /\ EventHolds(p, Head(queue[p]))
  <2>1. PICK new : new = Tail(queue[p])
    OBVIOUS
  <2>2. /\ Head(queue[p]) \in Events /\ 1 \in DOMAIN queue[p]
        /\ Head(queue[p]) = queue[p][1]
    BY <1>1, <1>2, <2>1, TailElements
  <2> QED
    BY <2>2 DEF IInv
<1>3. ASSUME stream[p] # << >>
      PROVE  Head(stream[p]) \in Messages /\ MessageHolds(p, Head(stream[p]))
  <2>1. PICK new : new = Tail(stream[p])
    OBVIOUS
  <2>2. /\ Head(stream[p]) \in Messages /\ 1 \in DOMAIN stream[p]
        /\ Head(stream[p]) = stream[p][1]
    BY <1>1, <1>3, <2>1, TailElements
  <2> QED
    BY <2>2 DEF IInv
<1> QED
  BY <1>1, <1>2, <1>3 DEF IInv, TypeOK, InTurn

\* A step that leaves the queues or the streams alone.
LEMMA NothingPosted == ASSUME IInv, queue' = queue PROVE Posts
BY DEF IInv, TypeOK, Posts
\* Likewise for the streams.
LEMMA NothingSent == ASSUME IInv, stream' = stream PROVE Sends
BY DEF IInv, TypeOK, Sends

\* An event is posted.
LEMMA EventPosted ==
  ASSUME IInv, NEW p \in Peers, NEW e \in Events, Post(p, e), EventHolds(p, e)'
  PROVE  Posts
<1>1. queue \in [Peers -> Seq(Events)] /\ queue[p] \in Seq(Events)
  BY DEF IInv, TypeOK
<1>2. PICK new : new = Append(queue[p], e)
  OBVIOUS
<1>3. /\ new \in Seq(Events)
      /\ \A k \in DOMAIN new : (k \in DOMAIN queue[p] /\ new[k] = queue[p][k]) \/ new[k] = e
  BY <1>1, <1>2, AppendElements
<1>4. queue' = [queue EXCEPT ![p] = new]
  BY <1>2 DEF Post
<1>5. queue' \in [Peers -> Seq(Events)] /\ queue'[p] = new
      /\ \A q \in Peers \ {p} : queue'[q] = queue[q]
  BY <1>1, <1>3, <1>4
<1>6. ASSUME NEW q \in Peers, NEW k \in DOMAIN queue'[q]
      PROVE  \/ \E l \in DOMAIN queue[q] : queue'[q][k] = queue[q][l]
             \/ EventHolds(q, queue[q][k])'
  <2>1. CASE q # p
    BY <1>5, <1>6, <2>1
  <2>2. CASE q = p
    <3>1. CASE k \in DOMAIN queue[p] /\ new[k] = queue[p][k]
      BY <1>5, <2>2, <3>1
    <3>2. CASE queue'[q][k] = e
      BY <2>2, <3>2 DEF EventHolds
    <3> QED
      BY <1>3, <1>5, <1>6, <2>2, <3>1, <3>2
  <2> QED
    BY <2>1, <2>2
<1> QED
  BY <1>5, <1>6 DEF Posts

\* An event is taken, and nothing is posted.
LEMMA EventTaken ==
  ASSUME IInv, NEW p \in Peers, NEW name, Takes(p, name)
  PROVE  /\ Posts /\ ~peer[p].quit
         /\ faults' \in 0..MaxFaults
         /\ Head(queue[p]) \in Events /\ Head(queue[p]).event = name
         /\ EventHolds(p, Head(queue[p]))
<1>1. /\ queue \in [Peers -> Seq(Events)] /\ queue[p] \in Seq(Events) /\ queue[p] # << >>
  BY DEF IInv, TypeOK, Takes
<1>2. PICK new : new = Tail(queue[p])
  OBVIOUS
<1>3. /\ new \in Seq(Events)
      /\ \A k \in DOMAIN new : k + 1 \in DOMAIN queue[p] /\ new[k] = queue[p][k + 1]
  BY <1>1, <1>2, TailElements
<1>4. queue' = [queue EXCEPT ![p] = new]
  BY <1>2 DEF Takes
<1>5. queue' \in [Peers -> Seq(Events)] /\ queue'[p] = new
      /\ \A q \in Peers \ {p} : queue'[q] = queue[q]
  BY <1>1, <1>3, <1>4
<1>6. \A q \in Peers : \A k \in DOMAIN queue'[q] :
        \E l \in DOMAIN queue[q] : queue'[q][k] = queue[q][l]
  BY <1>3, <1>5
<1>7. Posts
  BY <1>5, <1>6 DEF Posts
<1> QED
  BY <1>1, <1>7, StateFacts DEF Takes

\* A message is given to the server, which forwards it or not.
LEMMA MessageSent ==
  ASSUME IInv, NEW p \in Peers, NEW m \in Messages, SendSignalMsg(p, m),
         MessageHolds(Other(p), m)'
  PROVE  Sends
<1>1. CASE stream' = stream
  BY <1>1, NothingSent
<1>2. CASE stream' = [stream EXCEPT ![Other(p)] = Append(@, m)]
  <2>1. PICK r \in Peers : r = Other(p)
    BY PeersAre
  <2>2. stream \in [Peers -> Seq(Messages)] /\ stream[r] \in Seq(Messages)
    BY DEF IInv, TypeOK
  <2>3. PICK new : new = Append(stream[r], m)
    OBVIOUS
  <2>4. /\ new \in Seq(Messages)
        /\ \A k \in DOMAIN new :
             (k \in DOMAIN stream[r] /\ new[k] = stream[r][k]) \/ new[k] = m
    BY <2>2, <2>3, AppendElements
  <2>5. stream' = [stream EXCEPT ![r] = new]
    BY <1>2, <2>1, <2>3
  <2>6. stream' \in [Peers -> Seq(Messages)] /\ stream'[r] = new
        /\ \A q \in Peers \ {r} : stream'[q] = stream[q]
    BY <2>2, <2>4, <2>5
  <2>7. ASSUME NEW q \in Peers, NEW k \in DOMAIN stream'[q]
        PROVE  \/ \E l \in DOMAIN stream[q] : stream'[q][k] = stream[q][l]
               \/ MessageHolds(q, stream[q][k])'
    <3>1. CASE q # r
      BY <2>6, <2>7, <3>1
    <3>2. CASE q = r
      <4>1. CASE k \in DOMAIN stream[r] /\ new[k] = stream[r][k]
        BY <2>6, <3>2, <4>1
      <4>2. CASE stream'[q][k] = m
        BY <2>1, <3>2, <4>2 DEF MessageHolds
      <4> QED
        BY <2>4, <2>6, <2>7, <3>2, <4>1, <4>2
    <3> QED
      BY <3>1, <3>2
  <2> QED
    BY <2>6, <2>7 DEF Sends
<1> QED
  BY <1>1, <1>2 DEF SendSignalMsg

\* A message is taken from a stream, or the stream ends.
LEMMA MessageTaken ==
  ASSUME IInv, NEW p \in Peers, stream[p] # << >>, Consume(p)
  PROVE  Sends
<1>1. stream \in [Peers -> Seq(Messages)] /\ stream[p] \in Seq(Messages)
  BY DEF IInv, TypeOK
<1>2. PICK new : new = Tail(stream[p])
  OBVIOUS
<1>3. /\ new \in Seq(Messages)
      /\ \A k \in DOMAIN new : k + 1 \in DOMAIN stream[p] /\ new[k] = stream[p][k + 1]
  BY <1>1, <1>2, TailElements
<1>4. stream' = [stream EXCEPT ![p] = new]
  BY <1>2 DEF Consume
<1>5. stream' \in [Peers -> Seq(Messages)] /\ stream'[p] = new
      /\ \A q \in Peers \ {p} : stream'[q] = stream[q]
  BY <1>1, <1>3, <1>4
<1>6. \A q \in Peers : \A k \in DOMAIN stream'[q] :
        \E l \in DOMAIN stream[q] : stream'[q][k] = stream[q][l]
  BY <1>3, <1>5
<1> QED
  BY <1>5, <1>6 DEF Sends

\* Likewise when the stream ends.
LEMMA StreamEnds ==
  ASSUME IInv, NEW p \in Peers, stream' = [stream EXCEPT ![p] = << >>]
  PROVE  Sends
<1>1. stream \in [Peers -> Seq(Messages)]
  BY DEF IInv, TypeOK
<1>2. << >> \in Seq(Messages) /\ DOMAIN << >> = {}
  OBVIOUS
<1>3. stream' \in [Peers -> Seq(Messages)] /\ stream'[p] = << >>
      /\ \A q \in Peers \ {p} : stream'[q] = stream[q]
  BY <1>1, <1>2
<1> QED
  BY <1>2, <1>3 DEF Sends

\* The counter of the faults stays within its bound.
LEMMA FaultsBounded ==
  ASSUME IInv, NEW fault \in BOOLEAN, Outcome(fault)
  PROVE  faults' \in 0..MaxFaults
BY BoundsAssumption DEF IInv, TypeOK, Outcome

\* Both results of a step.
Good == IInv' /\ [Handshake!Next]_(Handshake!vars)

\* What a step of the peer p has to satisfy.
LEMMA GoodStep ==
  ASSUME IInv, NEW p \in Peers, NEW new, Allowed(p, new), peer' = [peer EXCEPT ![p] = new],
         Posts, Sends, faults' \in 0..MaxFaults
  PROVE  Good
BY StepMaps, StepKeeps DEF Good

\* A step that changes no peer.
LEMMA GoodUnchanged ==
  ASSUME IInv, NEW p \in Peers, peer' = peer, Posts, Sends, faults' \in 0..MaxFaults
  PROVE  Good
<1>1. PICK me : me = peer[p]
  OBVIOUS
<1>2. peer' = [peer EXCEPT ![p] = me]
  BY <1>1 DEF IInv, TypeOK
<1>3. Allowed(p, me)
  BY <1>1, StateFacts DEF Allowed, Grows, Stays
<1> QED
  BY <1>2, <1>3, GoodStep

-----------------------------------------------------------------------------
(* The library thread *)

\* An own description is set, or not.
LEMMA LocalDescriptionSetGood ==
  ASSUME IInv, NEW p \in Peers, LocalDescriptionSet(p)
  PROVE  Good
<1>1. PICK ok \in BOOLEAN :
        /\ Outcome(~ok)
        /\ peer' = [peer EXCEPT ![p].setting = "none",
                                ![p].local = IF ok THEN peer[p].setting ELSE @]
        /\ Post(p, [event |-> IF ok THEN "SetLocalSessionSuccess"
                                    ELSE "SetLocalSessionFailed"])
  BY DEF LocalDescriptionSet
<1>2. PICK me : me = peer[p]
  OBVIOUS
<1>3. /\ peer[p].setting # "none" /\ stream' = stream
      /\ me \in PeerRecord /\ PeerHolds(me) /\ (me.linked => BothDescribed)
      /\ p = "controller" => AgentSpoke
  BY <1>2, StateFacts DEF LocalDescriptionSet
<1>4. PICK new : new = [me EXCEPT !.setting = "none",
                                  !.local = IF ok THEN me.setting ELSE me.local]
  OBVIOUS
<1>5. peer' = [peer EXCEPT ![p] = new]
  BY <1>1, <1>2, <1>4 DEF IInv, TypeOK
<1>6. new \in PeerRecord
  BY <1>3, <1>4 DEF PeerRecord
<1>7. Allowed(p, new)
  BY <1>2, <1>3, <1>4, <1>6 DEF Allowed, PeerHolds, Grows, Stays, PeerRecord
<1>8. PICK e : e = [event |-> IF ok THEN "SetLocalSessionSuccess"
                                    ELSE "SetLocalSessionFailed"]
  OBVIOUS
<1>9. e \in Events /\ Post(p, e)
  BY <1>1, <1>8, Fields
<1>10. EventHolds(p, e)'
  <2>1. peer'[p] = new
    BY <1>5 DEF IInv, TypeOK
  <2>2. ok => new.local # "none"
    BY <1>2, <1>3, <1>4 DEF PeerRecord
  <2> QED
    BY <1>8, <2>1, <2>2 DEF EventHolds
<1> QED
  BY <1>1, <1>3, <1>5, <1>7, <1>9, <1>10, EventPosted, NothingSent, FaultsBounded, GoodStep

\* A candidate is found.
LEMMA OnIceCandidateGood ==
  ASSUME IInv, NEW p \in Peers, OnIceCandidate(p)
  PROVE  Good
<1>1. PICK me : me = peer[p]
  OBVIOUS
<1>2. /\ me.gathered < MaxCandidates /\ stream' = stream /\ faults' = faults
      /\ peer' = [peer EXCEPT ![p].gathered = @ + 1]
      /\ Post(p, [event |-> "IceCandidate", candidate |-> me.gathered + 1])
      /\ me \in PeerRecord /\ PeerHolds(me) /\ (me.linked => BothDescribed)
      /\ p = "controller" /\ (me.local # "none" \/ me.setting # "none") => AgentSpoke
      /\ faults \in 0..MaxFaults
  BY <1>1, StateFacts DEF OnIceCandidate
<1>3. me.gathered + 1 \in Candidates /\ me.gathered + 1 \in 0..MaxCandidates
  BY <1>2, BoundsAssumption DEF PeerRecord, Candidates
<1>4. PICK new : new = [me EXCEPT !.gathered = me.gathered + 1]
  OBVIOUS
<1>5. peer' = [peer EXCEPT ![p] = new]
  BY <1>1, <1>2, <1>4 DEF IInv, TypeOK
<1>6. new \in PeerRecord
  BY <1>2, <1>3, <1>4 DEF PeerRecord
<1>7. Allowed(p, new)
  BY <1>1, <1>2, <1>4, <1>6 DEF Allowed, PeerHolds, Grows, Stays, PeerRecord
<1>8. PICK e : e = [event |-> "IceCandidate", candidate |-> me.gathered + 1]
  OBVIOUS
<1>9. e \in Events /\ Post(p, e) /\ EventHolds(p, e)'
  BY <1>2, <1>3, <1>8, Fields DEF EventHolds
<1> QED
  BY <1>2, <1>5, <1>7, <1>9, EventPosted, NothingSent, GoodStep

\* A path was found: both were described.
LEMMA OnConnectionChangeGood ==
  ASSUME IInv, NEW p \in Peers, OnConnectionChange(p)
  PROVE  Good
<1>1. PICK ok \in BOOLEAN :
        Outcome(~ok) /\ Post(p, [event |-> IF ok THEN "Connected" ELSE "Failed"])
  BY DEF OnConnectionChange
<1>2. PICK me : me = peer[p]
  OBVIOUS
<1>3. BothDescribed
  <2>1. CASE Reachable
    <3>1. \A q \in Peers : peer[q].remote # "none"
      BY <2>1, PeersAre DEF Reachable
    <3> QED
      BY <3>1 DEF BothDescribed
  <2>2. CASE peer[Other(p)].linked
    BY <2>2, PeersAre DEF IInv
  <2> QED
    BY <2>1, <2>2 DEF OnConnectionChange
<1>4. /\ peer' = [peer EXCEPT ![p].linked = TRUE] /\ stream' = stream
      /\ me \in PeerRecord /\ PeerHolds(me)
      /\ p = "controller" /\ (me.local # "none" \/ me.setting # "none") => AgentSpoke
  BY <1>2, StateFacts DEF OnConnectionChange
<1>5. PICK new : new = [me EXCEPT !.linked = TRUE]
  OBVIOUS
<1>6. peer' = [peer EXCEPT ![p] = new]
  BY <1>2, <1>4, <1>5 DEF IInv, TypeOK
<1>7. new \in PeerRecord
  BY <1>4, <1>5 DEF PeerRecord
<1>8. Allowed(p, new)
  BY <1>2, <1>3, <1>4, <1>5, <1>7 DEF Allowed, PeerHolds, Grows, Stays, PeerRecord
<1>9. BothDescribed'
  <2>1. \A q \in Peers : peer'[q].remote = peer[q].remote
    BY <1>2, <1>4, <1>5, <1>6 DEF IInv, TypeOK, PeerRecord
  <2> QED
    BY <1>3, <2>1 DEF BothDescribed
<1>10. PICK e : e = [event |-> IF ok THEN "Connected" ELSE "Failed"]
  OBVIOUS
<1>11. e \in Events /\ Post(p, e) /\ EventHolds(p, e)'
  BY <1>1, <1>9, <1>10, Fields DEF EventHolds
<1> QED
  BY <1>1, <1>4, <1>6, <1>8, <1>11, EventPosted, NothingSent, FaultsBounded, GoodStep

\* The channel is announced.
LEMMA OnDataChannelGood ==
  ASSUME IInv, NEW p \in Peers, OnDataChannel(p)
  PROVE  Good
<1>1. PICK me : me = peer[p]
  OBVIOUS
<1>2. /\ peer' = [peer EXCEPT ![p].announced = TRUE]
      /\ stream' = stream /\ faults' = faults
      /\ Post(p, [event |-> "DataChannel"])
      /\ me \in PeerRecord /\ PeerHolds(me) /\ (me.linked => BothDescribed)
      /\ p = "controller" /\ (me.local # "none" \/ me.setting # "none") => AgentSpoke
      /\ faults \in 0..MaxFaults
  BY <1>1, StateFacts DEF OnDataChannel
<1>3. PICK new : new = [me EXCEPT !.announced = TRUE]
  OBVIOUS
<1>4. peer' = [peer EXCEPT ![p] = new]
  BY <1>1, <1>2, <1>3 DEF IInv, TypeOK
<1>5. new \in PeerRecord
  BY <1>2, <1>3 DEF PeerRecord
<1>6. Allowed(p, new)
  BY <1>1, <1>2, <1>3, <1>5 DEF Allowed, PeerHolds, Grows, Stays, PeerRecord
<1>7. PICK e : e = [event |-> "DataChannel"]
  OBVIOUS
<1>8. e \in Events /\ Post(p, e) /\ EventHolds(p, e)'
  BY <1>2, <1>7, Fields DEF EventHolds
<1> QED
  BY <1>2, <1>4, <1>6, <1>8, EventPosted, NothingSent, GoodStep

\* A connection that was there is lost.
LEMMA OnConnectionLostGood ==
  ASSUME IInv, NEW p \in Peers, OnConnectionLost(p)
  PROVE  Good
<1>1. /\ peer[p].linked /\ Outcome(~peer[Other(p)].quit)
      /\ Post(p, [event |-> "Disconnected"])
      /\ peer' = peer /\ stream' = stream
  BY DEF OnConnectionLost
<1>2. BothDescribed /\ BothDescribed'
  BY <1>1, StateFacts DEF BothDescribed
<1>3. PICK e : e = [event |-> "Disconnected"]
  OBVIOUS
<1>4. e \in Events /\ Post(p, e) /\ EventHolds(p, e)'
  BY <1>1, <1>2, <1>3, Fields DEF EventHolds
<1> QED
  BY <1>1, <1>4, EventPosted, NothingSent, FaultsBounded, GoodUnchanged

-----------------------------------------------------------------------------
(* The slots connected by Init, and the stream of the match server *)

\* Init: nothing is described before it.
LEMMA StartEstablishConnectionGood ==
  ASSUME IInv, NEW p \in Peers, StartEstablishConnection(p)
  PROVE  Good
<1>1. PICK me : me = peer[p]
  OBVIOUS
<1>2. /\ me \in PeerRecord /\ PeerHolds(me) /\ (me.linked => BothDescribed)
      /\ p = "controller" /\ (me.local # "none" \/ me.setting # "none") => AgentSpoke
      /\ queue' = queue /\ stream' = stream
      /\ ~me.started /\ faults \in 0..MaxFaults
  BY <1>1, StateFacts DEF StartEstablishConnection
<1>3. ~me.connection /\ me.remote = "none"
  BY <1>2 DEF PeerHolds, PeerRecord
<1>4. faults' \in 0..MaxFaults
  BY <1>2, FaultsBounded DEF StartEstablishConnection
<1>5. \E new : /\ peer' = [peer EXCEPT ![p] = new]
               /\ \/ p = "agent" /\ new = Offering(me)
                  \/ new = InitPeerConncetion(me)
                  \/ \E made \in BOOLEAN : new = NotOffering(me, made)
                  \/ new = Unconnected(me)
  BY <1>1 DEF StartEstablishConnection, IInv, TypeOK
<1>6. PICK new : /\ peer' = [peer EXCEPT ![p] = new]
                 /\ \/ p = "agent" /\ new = Offering(me)
                    \/ new = InitPeerConncetion(me)
                    \/ \E made \in BOOLEAN : new = NotOffering(me, made)
                    \/ new = Unconnected(me)
  BY <1>5
<1>7. new \in PeerRecord
  <2>1. CASE new = Offering(me)
    BY <1>2, <2>1 DEF PeerRecord, Offering, InitPeerConncetion, SdpTypes
  <2>2. CASE new = InitPeerConncetion(me)
    BY <1>2, <2>2 DEF PeerRecord, InitPeerConncetion
  <2>3. ASSUME NEW made \in BOOLEAN, new = NotOffering(me, made) PROVE new \in PeerRecord
    BY <1>2, <2>3 DEF PeerRecord, NotOffering
  <2>4. CASE new = Unconnected(me)
    BY <1>2, <2>4 DEF PeerRecord, Unconnected
  <2> QED
    BY <1>6, <2>1, <2>2, <2>3, <2>4
<1>8. /\ new.remote = "none" /\ new.local = me.local /\ new.linked = me.linked
      /\ new.ready = me.ready /\ new.quit = me.quit
      /\ new.added = me.added /\ new.buffer = me.buffer
      /\ new.setting = me.setting \/ (p = "agent" /\ new.setting = "offer")
      /\ new.connection => new.started
  BY <1>2, <1>3, <1>6
     DEF PeerRecord, Offering, InitPeerConncetion, NotOffering, Unconnected
<1>9. Allowed(p, new)
  BY <1>1, <1>2, <1>3, <1>7, <1>8, PeersAre DEF Allowed, PeerHolds, Grows, Stays
<1> QED
  BY <1>2, <1>4, <1>6, <1>9, NothingPosted, NothingSent, GoodStep

\* What adding the buffer makes of a peer.
LEMMA FlushFields ==
  ASSUME NEW me \in PeerRecord, NEW k \in 0..Len(me.buffer), NEW new, new = Flush(me, k)
  PROVE  /\ new \in PeerRecord
         /\ new.started = me.started /\ new.connection = me.connection
         /\ new.setting = me.setting /\ new.local = me.local /\ new.remote = me.remote
         /\ new.linked = me.linked /\ new.ready = me.ready /\ new.quit = me.quit
         /\ k = 0 => new.added = me.added
         /\ k = 0 => new.buffer = me.buffer
         /\ new.buffer # << >> => new.error
<1>1. me.buffer \in Seq(Candidates) /\ me.added \in Seq(Candidates) /\ Len(me.buffer) \in Nat
  BY DEF PeerRecord
<1>2. PICK part : part = SubSeq(me.buffer, 1, k)
  OBVIOUS
<1>3. part \in Seq(Candidates) /\ (k = 0 => part = << >>)
  BY <1>1, <1>2
<1>4. PICK added : added = me.added \o part
  OBVIOUS
<1>5. added \in Seq(Candidates) /\ (k = 0 => added = me.added)
  BY <1>1, <1>3, <1>4
<1>6. PICK buffer : buffer = IF k = Len(me.buffer) THEN << >> ELSE me.buffer
  OBVIOUS
<1>7. /\ buffer \in Seq(Candidates) /\ (k = 0 => buffer = me.buffer)
      /\ buffer # << >> => k < Len(me.buffer)
  BY <1>1, <1>6
<1>8. new = [me EXCEPT !.added = added, !.buffer = buffer,
                       !.error = me.error \/ k < Len(me.buffer)]
  BY <1>2, <1>4, <1>6 DEF Flush
<1>9. new \in PeerRecord
  BY <1>5, <1>7, <1>8 DEF PeerRecord
<1>10. /\ new.started = me.started /\ new.connection = me.connection
       /\ new.setting = me.setting /\ new.local = me.local /\ new.remote = me.remote
       /\ new.linked = me.linked /\ new.ready = me.ready /\ new.quit = me.quit
       /\ new.added = added /\ new.buffer = buffer
       /\ new.error = (me.error \/ k < Len(me.buffer))
  BY <1>8 DEF PeerRecord
<1> QED
  BY <1>5, <1>7, <1>9, <1>10

\* A description of the partner: no description is made of it, or the library takes or
\* refuses it.  The first one that the agent takes is an answer, since it offered.
LEMMA OnRemoteSdpReceivedGood ==
  ASSUME IInv, NEW p \in Peers, OnRemoteSdpReceived(p)
  PROVE  Good
<1>1. PICK me : me = peer[p]
  OBVIOUS
<1>2. PICK t : t = Head(stream[p]).sdp_type
  OBVIOUS
<1>3. /\ me \in PeerRecord /\ PeerHolds(me) /\ (me.linked => BothDescribed)
      /\ me.started /\ me.connection /\ ~me.quit /\ stream[p] # << >>
      /\ Consume(p)
  BY <1>1, StateFacts DEF OnRemoteSdpReceived, Receives
<1>4. /\ t \in SdpTypes /\ AgentSpoke
      /\ p = "agent" /\ t = "answer" => peer["controller"].remote # "none"
  BY <1>2, StateFacts, Fields DEF OnRemoteSdpReceived, Receives, MessageHolds
<1>5. Sends
  BY <1>3, MessageTaken
<1>6. CASE /\ Outcome(TRUE)
           /\ peer' = [peer EXCEPT ![p].error = TRUE]
           /\ queue' = queue
  <2>1. PICK new : new = [me EXCEPT !.error = TRUE]
    OBVIOUS
  <2>2. peer' = [peer EXCEPT ![p] = new]
    BY <1>1, <1>6, <2>1 DEF IInv, TypeOK
  <2>3. new \in PeerRecord
    BY <1>3, <2>1 DEF PeerRecord
  <2>4. Allowed(p, new)
    BY <1>1, <1>3, <1>4, <2>1, <2>3 DEF Allowed, PeerHolds, Grows, Stays, PeerRecord
  <2> QED
    BY <1>5, <1>6, <2>2, <2>4, NothingPosted, FaultsBounded, GoodStep
<1>7. CASE /\ Acceptable(me, t)
           /\ \E k \in 0..Len(me.buffer), s \in SdpTypes \cup {"none"} :
                /\ Outcome(k < Len(me.buffer))
                /\ peer' = [peer EXCEPT ![p] =
                     Flush([me EXCEPT !.remote = t, !.setting = s], k)]
           /\ Post(p, [event |-> "SetRemoteSessionSuccess"])
  <2>1. PICK k \in 0..Len(me.buffer), s \in SdpTypes \cup {"none"} :
          /\ Outcome(k < Len(me.buffer))
          /\ peer' = [peer EXCEPT ![p] =
               Flush([me EXCEPT !.remote = t, !.setting = s], k)]
    BY <1>7
  <2>m. PICK m : m = [me EXCEPT !.remote = t, !.setting = s]
    OBVIOUS
  <2>2. /\ m \in PeerRecord /\ m.started = me.started /\ m.connection = me.connection
        /\ m.local = me.local /\ m.remote = t
        /\ m.linked = me.linked /\ m.ready = me.ready /\ m.quit = me.quit
        /\ m.buffer = me.buffer
    BY <1>3, <1>4, <2>m DEF PeerRecord
  <2>3. PICK new : new = Flush(m, k)
    OBVIOUS
  <2>4. /\ new \in PeerRecord
        /\ new.started = me.started /\ new.connection = me.connection
        /\ new.local = me.local /\ new.remote = t
        /\ new.linked = me.linked /\ new.ready = me.ready /\ new.quit = me.quit
        /\ new.buffer # << >> => new.error
    BY <2>1, <2>2, <2>3, FlushFields
  <2>5. t # "none"
    BY <1>4 DEF SdpTypes
  <2>6. p = "agent" /\ me.remote = "none" => peer["controller"].remote # "none"
    <3>1. SUFFICES ASSUME p = "agent", me.remote = "none"
                   PROVE  t = "answer"
      BY <1>4
    <3>2. me.local # "none" /\ me.local # "answer" /\ me.local \in SdpTypes \cup {"none"}
      BY <1>1, <1>3, <1>4, <3>1 DEF AgentSpoke, PeerHolds, PeerRecord
    <3>3. AwaitsAnswer(me)
      BY <3>1, <3>2 DEF AwaitsAnswer, SdpTypes
    <3> QED
      BY <1>7, <3>3 DEF Acceptable
  <2>7. Stays(p, new) \/ Describes(p, new)
    BY <1>1, <1>3, <2>4, <2>5, <2>6 DEF Stays, Describes
  <2>8. Allowed(p, new)
    BY <1>1, <1>3, <1>4, <2>4, <2>5, <2>7 DEF Allowed, PeerHolds, Grows
  <2>9. PICK e : e = [event |-> "SetRemoteSessionSuccess"]
    OBVIOUS
  <2>10. e \in Events /\ Post(p, e) /\ EventHolds(p, e)'
    BY <1>7, <2>9, Fields DEF EventHolds
  <2>11. (k < Len(me.buffer)) \in BOOLEAN
    OBVIOUS
  <2> QED
    BY <1>5, <2>1, <2>m, <2>3, <2>8, <2>10, <2>11, EventPosted, FaultsBounded, GoodStep
<1>8. CASE /\ \E o \in BOOLEAN : Outcome(o)
           /\ \E s \in {me.setting, ImplicitType(me)} :
                peer' = [peer EXCEPT ![p] =
                  Flush([me EXCEPT !.setting = s],
                        IF me.remote = "none" THEN 0 ELSE Len(me.buffer))]
           /\ Post(p, [event |-> "SetRemoteSessionFailed"])
  <2>1. PICK s \in {me.setting, ImplicitType(me)} :
          peer' = [peer EXCEPT ![p] =
            Flush([me EXCEPT !.setting = s],
                  IF me.remote = "none" THEN 0 ELSE Len(me.buffer))]
    BY <1>8
  <2>m. PICK m : m = [me EXCEPT !.setting = s]
    OBVIOUS
  <2>2. /\ m \in PeerRecord /\ m.setting = s /\ m.started = me.started /\ m.connection = me.connection
        /\ m.local = me.local /\ m.remote = me.remote
        /\ m.linked = me.linked /\ m.ready = me.ready /\ m.quit = me.quit
        /\ m.buffer = me.buffer /\ m.added = me.added
    BY <1>3, <2>1, <2>m DEF PeerRecord, ImplicitType, SdpTypes
  <2>3. m.setting = "answer" => m.remote # "none"
    BY <1>3, <2>1, <2>2 DEF ImplicitType, PeerHolds
  <2>4. PICK k : k = IF me.remote = "none" THEN 0 ELSE Len(me.buffer)
    OBVIOUS
  <2>5. k \in 0..Len(m.buffer) /\ (me.remote = "none" => k = 0)
    <3>1. Len(me.buffer) \in Nat
      BY <1>3 DEF PeerRecord
    <3> QED
      BY <2>2, <2>4, <3>1
  <2>6. PICK new : new = Flush(m, k)
    OBVIOUS
  <2>7. /\ new \in PeerRecord
        /\ new.started = me.started /\ new.connection = me.connection
        /\ new.local = me.local /\ new.remote = me.remote /\ new.setting = m.setting
        /\ new.linked = me.linked /\ new.ready = me.ready /\ new.quit = me.quit
        /\ k = 0 => new.added = me.added
        /\ new.buffer # << >> => new.error
    BY <2>2, <2>5, <2>6, FlushFields
  <2>8. PeerHolds(new)
    BY <1>3, <2>2, <2>3, <2>5, <2>7 DEF PeerHolds
  <2>9. Allowed(p, new)
    BY <1>1, <1>3, <1>4, <2>7, <2>8 DEF Allowed, Grows, Stays
  <2>10. PICK e : e = [event |-> "SetRemoteSessionFailed"]
    OBVIOUS
  <2>11. e \in Events /\ Post(p, e) /\ EventHolds(p, e)'
    BY <1>8, <2>10, Fields DEF EventHolds
  <2>12. faults' \in 0..MaxFaults
    BY <1>8, FaultsBounded
  <2> QED
    BY <1>5, <2>1, <2>m, <2>4, <2>6, <2>9, <2>11, <2>12, EventPosted, GoodStep
<1>9. /\ \A x : [[me EXCEPT !.remote = t] EXCEPT !.setting = x]
                  = [me EXCEPT !.remote = t, !.setting = x]
      /\ [me EXCEPT !.remote = t] = [me EXCEPT !.remote = t, !.setting = me.setting]
      /\ [me EXCEPT !.setting = me.setting] = me
      /\ me.setting \in SdpTypes \cup {"none"}
      /\ \A m : ImplicitType(m) \in SdpTypes
  BY <1>3 DEF PeerRecord, ImplicitType, SdpTypes
<1>10. \/ /\ Outcome(TRUE)
          /\ peer' = [peer EXCEPT ![p].error = TRUE]
          /\ queue' = queue
       \/ /\ Acceptable(me, t)
          /\ \E k \in 0..Len(me.buffer) :
               /\ Outcome(k < Len(me.buffer))
               /\ peer' = [peer EXCEPT ![p] =
                    Flush(IF t = "offer"
                          THEN [[me EXCEPT !.remote = t] EXCEPT
                                  !.setting = ImplicitType([me EXCEPT !.remote = t])]
                          ELSE [me EXCEPT !.remote = t], k)]
          /\ Post(p, [event |-> "SetRemoteSessionSuccess"])
       \/ /\ Outcome(Acceptable(me, t))
          /\ peer' = [peer EXCEPT ![p] =
               Flush(IF t = "offer" THEN [me EXCEPT !.setting = ImplicitType(me)] ELSE me,
                     IF me.remote = "none" THEN 0 ELSE Len(me.buffer))]
          /\ Post(p, [event |-> "SetRemoteSessionFailed"])
  BY <1>1, <1>2 DEF OnRemoteSdpReceived
<1>11. ASSUME NEW k
       PROVE  \E s \in SdpTypes \cup {"none"} :
                Flush(IF t = "offer"
                      THEN [[me EXCEPT !.remote = t] EXCEPT
                              !.setting = ImplicitType([me EXCEPT !.remote = t])]
                      ELSE [me EXCEPT !.remote = t], k)
                  = Flush([me EXCEPT !.remote = t, !.setting = s], k)
  <2>1. CASE t = "offer"
    <3>1. PICK s : s = ImplicitType([me EXCEPT !.remote = t])
      OBVIOUS
    <3> QED
      BY <1>9, <2>1, <3>1
  <2>2. CASE t # "offer"
    BY <1>9, <2>2
  <2> QED
    BY <2>1, <2>2
<1>12. ASSUME NEW k
       PROVE  \E s \in {me.setting, ImplicitType(me)} :
                Flush(IF t = "offer" THEN [me EXCEPT !.setting = ImplicitType(me)] ELSE me, k)
                  = Flush([me EXCEPT !.setting = s], k)
  <2>1. CASE t = "offer"
    BY <2>1
  <2>2. CASE t # "offer"
    BY <1>9, <2>2
  <2> QED
    BY <2>1, <2>2
<1>13. Acceptable(me, t) \in BOOLEAN
  BY DEF Acceptable
<1> QED
  BY <1>6, <1>7, <1>8, <1>10, <1>11, <1>12, <1>13

\* A candidate of the partner: it cannot be made, is added, refused, or waits.
LEMMA OnRemoteIceCandidateReceivedGood ==
  ASSUME IInv, NEW p \in Peers, OnRemoteIceCandidateReceived(p)
  PROVE  Good
<1>1. PICK me : me = peer[p]
  OBVIOUS
<1>2. PICK c : c = Head(stream[p]).candidate
  OBVIOUS
<1>3. /\ me \in PeerRecord /\ PeerHolds(me) /\ (me.linked => BothDescribed)
      /\ p = "controller" /\ (me.local # "none" \/ me.setting # "none") => AgentSpoke
      /\ stream[p] # << >> /\ Consume(p) /\ queue' = queue
  BY <1>1, StateFacts DEF OnRemoteIceCandidateReceived, Receives
<1>4. c \in Candidates
  BY <1>2, StateFacts, Fields DEF OnRemoteIceCandidateReceived, Receives
<1>5. Sends
  BY <1>3, MessageTaken
<1>6. \/ Outcome(TRUE) /\ peer' = [peer EXCEPT ![p].error = TRUE]
      \/ \E ok \in BOOLEAN :
           /\ ok \/ me.remote # "none"
           /\ Outcome(~ok)
           /\ peer' = [peer EXCEPT ![p] = TakeCandidate(me, c, ok)]
  BY <1>1, <1>2 DEF OnRemoteIceCandidateReceived
<1>7. faults' \in 0..MaxFaults
  BY <1>6, FaultsBounded
<1>8. CASE peer' = [peer EXCEPT ![p].error = TRUE]
  <2>1. PICK new : new = [me EXCEPT !.error = TRUE]
    OBVIOUS
  <2>2. peer' = [peer EXCEPT ![p] = new]
    BY <1>1, <1>8, <2>1 DEF IInv, TypeOK
  <2>3. new \in PeerRecord
    BY <1>3, <2>1 DEF PeerRecord
  <2>4. Allowed(p, new)
    BY <1>1, <1>3, <2>1, <2>3 DEF Allowed, PeerHolds, Grows, Stays, PeerRecord
  <2> QED
    BY <1>3, <1>5, <1>7, <2>2, <2>4, NothingPosted, GoodStep
<1>9. ASSUME NEW ok \in BOOLEAN, ok \/ me.remote # "none",
             peer' = [peer EXCEPT ![p] = TakeCandidate(me, c, ok)]
      PROVE  Good
  <2>1. PICK new : new = TakeCandidate(me, c, ok)
    OBVIOUS
  <2>2. me.added \in Seq(Candidates) /\ me.buffer \in Seq(Candidates)
    BY <1>3 DEF PeerRecord
  <2>3. PICK added : added = Append(me.added, c)
    OBVIOUS
  <2>4. PICK buffer : buffer = Append(me.buffer, c)
    OBVIOUS
  <2>5. added \in Seq(Candidates) /\ buffer \in Seq(Candidates)
    BY <1>4, <2>2, <2>3, <2>4
  <2>6. \/ me.remote # "none" /\ new = [me EXCEPT !.added = added]
        \/ new = [me EXCEPT !.error = TRUE]
        \/ me.remote = "none" /\ new = [me EXCEPT !.buffer = buffer]
    BY <1>9, <2>1, <2>3, <2>4 DEF TakeCandidate
  <2>7. new \in PeerRecord
    <3>1. CASE new = [me EXCEPT !.added = added]
      BY <1>3, <2>5, <3>1 DEF PeerRecord
    <3>2. CASE new = [me EXCEPT !.error = TRUE]
      BY <1>3, <3>2 DEF PeerRecord
    <3>3. CASE new = [me EXCEPT !.buffer = buffer]
      BY <1>3, <2>5, <3>3 DEF PeerRecord
    <3> QED
      BY <2>6, <3>1, <3>2, <3>3
  <2>8. /\ new.started = me.started /\ new.connection = me.connection
        /\ new.setting = me.setting /\ new.local = me.local /\ new.remote = me.remote
        /\ new.linked = me.linked /\ new.ready = me.ready /\ new.quit = me.quit
        /\ me.remote # "none" \/ new.added = me.added
        /\ me.remote = "none" \/ new.buffer = me.buffer
        /\ me.error => new.error
    BY <1>3, <2>6 DEF PeerRecord
  <2>9. Allowed(p, new)
    BY <1>1, <1>3, <2>7, <2>8 DEF Allowed, PeerHolds, Grows, Stays
  <2> QED
    BY <1>3, <1>5, <1>7, <1>9, <2>1, <2>9, NothingPosted, GoodStep
<1> QED
  BY <1>6, <1>8, <1>9

\* Without a connection nothing was described, and the process ends.
LEMMA SlotWithoutConnectionGood ==
  ASSUME IInv, NEW p \in Peers, SlotWithoutConnection(p)
  PROVE  Good
<1>1. PICK me : me = peer[p]
  OBVIOUS
<1>2. /\ me \in PeerRecord /\ PeerHolds(me) /\ (me.linked => BothDescribed)
      /\ p = "controller" /\ (me.local # "none" \/ me.setting # "none") => AgentSpoke
      /\ ~me.connection /\ ~me.quit
      /\ peer' = [peer EXCEPT ![p].quit = TRUE]
      /\ stream' = [stream EXCEPT ![p] = << >>]
      /\ queue' = queue /\ faults' = faults /\ faults \in 0..MaxFaults
  BY <1>1, StateFacts DEF SlotWithoutConnection
<1>3. PICK new : new = [me EXCEPT !.quit = TRUE]
  OBVIOUS
<1>4. peer' = [peer EXCEPT ![p] = new]
  BY <1>1, <1>2, <1>3 DEF IInv, TypeOK
<1>5. new \in PeerRecord
  BY <1>2, <1>3 DEF PeerRecord
<1>6. Ends(p, new)
  BY <1>1, <1>2, <1>3 DEF Ends, PeerHolds, PeerRecord
<1>7. Allowed(p, new)
  BY <1>1, <1>2, <1>3, <1>5, <1>6 DEF Allowed, PeerHolds, Grows, PeerRecord
<1> QED
  BY <1>2, <1>4, <1>7, NothingPosted, StreamEnds, GoodStep

-----------------------------------------------------------------------------
(* The events of the library *)

\* The own description is sent: the controller's only if the agent's was, and an
\* answer only to an offer that was taken.
LEMMA OnRtcSetLocalSessionSuccessGood ==
  ASSUME IInv, NEW p \in Peers, OnRtcSetLocalSessionSuccess(p)
  PROVE  Good
<1>1. /\ Posts /\ faults' \in 0..MaxFaults
      /\ peer[p].local # "none" /\ peer' = peer
  <2>1. Takes(p, "SetLocalSessionSuccess") /\ peer' = peer
    BY DEF OnRtcSetLocalSessionSuccess
  <2>2. /\ Posts /\ faults' \in 0..MaxFaults
        /\ Head(queue[p]).event = "SetLocalSessionSuccess"
        /\ EventHolds(p, Head(queue[p]))
    BY <2>1, EventTaken
  <2> QED
    BY <2>1, <2>2 DEF EventHolds
<1>2. PICK m : m = [type |-> "ExchangeSessionDescription", sdp_type |-> peer[p].local]
  OBVIOUS
<1>3. peer[p].local \in SdpTypes
  BY <1>1, StateFacts DEF PeerRecord
<1>4. m \in Messages /\ SendSignalMsg(p, m)
  BY <1>2, <1>3, Fields DEF OnRtcSetLocalSessionSuccess
<1>5. MessageHolds(Other(p), m)'
  <2>1. AgentSpoke
    <3>1. CASE p = "agent"
      BY <1>1, <3>1 DEF AgentSpoke
    <3>2. CASE p = "controller"
      BY <1>1, <3>2, StateFacts
    <3> QED
      BY <3>1, <3>2, PeersAre
  <2>2. ASSUME Other(p) = "agent", m.sdp_type = "answer"
        PROVE  peer["controller"].remote # "none"
    <3>1. p = "controller" /\ peer[p].local = "answer"
      BY <1>2, <2>2, PeersAre DEF Other
    <3> QED
      BY <3>1, StateFacts DEF PeerHolds
  <2> QED
    BY <1>1, <1>2, <2>1, <2>2 DEF MessageHolds, AgentSpoke
<1> QED
  BY <1>1, <1>4, <1>5, MessageSent, GoodUnchanged

\* A candidate is sent.
LEMMA OnRtcIceCandidateReceivedGood ==
  ASSUME IInv, NEW p \in Peers, OnRtcIceCandidateReceived(p)
  PROVE  Good
<1>1. Takes(p, "IceCandidate") /\ peer' = peer
  BY DEF OnRtcIceCandidateReceived
<1>2. /\ Posts /\ faults' \in 0..MaxFaults
      /\ Head(queue[p]) \in Events /\ Head(queue[p]).event = "IceCandidate"
  BY <1>1, EventTaken
<1>3. PICK m : m = [type |-> "ExchangeIceCandidate", candidate |-> Head(queue[p]).candidate]
  OBVIOUS
<1>4. m \in Messages /\ SendSignalMsg(p, m)
  BY <1>2, <1>3, Fields DEF OnRtcIceCandidateReceived
<1>5. MessageHolds(Other(p), m)'
  BY <1>3 DEF MessageHolds
<1> QED
  BY <1>1, <1>2, <1>4, <1>5, MessageSent, GoodUnchanged

\* A failure is noted, a success of the partner's description is not.
LEMMA OnRtcFailureGood ==
  ASSUME IInv, NEW p \in Peers, OnRtcFailure(p) \/ OnRtcSetRemoteSessionSuccess(p)
  PROVE  Good
<1>1. PICK name : Takes(p, name)
  BY DEF OnRtcFailure, OnRtcSetRemoteSessionSuccess
<1>2. Posts /\ faults' \in 0..MaxFaults
  BY <1>1, EventTaken
<1>3. stream' = stream /\ (peer' = peer \/ peer' = [peer EXCEPT ![p].error = TRUE])
  BY DEF OnRtcFailure, OnRtcSetRemoteSessionSuccess
<1>4. CASE peer' = peer
  BY <1>2, <1>3, <1>4, NothingSent, GoodUnchanged
<1>5. CASE peer' = [peer EXCEPT ![p].error = TRUE]
  <2>1. PICK me : me = peer[p]
    OBVIOUS
  <2>2. /\ me \in PeerRecord /\ PeerHolds(me) /\ (me.linked => BothDescribed)
        /\ p = "controller" /\ (me.local # "none" \/ me.setting # "none") => AgentSpoke
    BY <2>1, StateFacts
  <2>3. PICK new : new = [me EXCEPT !.error = TRUE]
    OBVIOUS
  <2>4. peer' = [peer EXCEPT ![p] = new]
    BY <1>5, <2>1, <2>3 DEF IInv, TypeOK
  <2>5. new \in PeerRecord
    BY <2>2, <2>3 DEF PeerRecord
  <2>6. Allowed(p, new)
    BY <2>1, <2>2, <2>3, <2>5 DEF Allowed, PeerHolds, Grows, Stays, PeerRecord
  <2> QED
    BY <1>2, <1>3, <2>4, <2>6, NothingSent, GoodStep
<1> QED
  BY <1>3, <1>4, <1>5

\* A connection is there, or lost: both were described when it was posted.
LEMMA OnPeerGood ==
  ASSUME IInv, NEW p \in Peers, OnPeerConnected(p) \/ OnPeerDisconnected(p)
  PROVE  Good
<1>1. PICK me : me = peer[p]
  OBVIOUS
<1>2. PICK name \in {"Connected", "Disconnected"} : Takes(p, name)
  BY DEF OnPeerConnected, OnPeerDisconnected
<1>3. Posts /\ faults' \in 0..MaxFaults /\ ~me.quit /\ BothDescribed
  BY <1>1, <1>2, EventTaken DEF EventHolds
<1>4. /\ me \in PeerRecord /\ PeerHolds(me)
      /\ p = "controller" /\ (me.local # "none" \/ me.setting # "none") => AgentSpoke
      /\ stream' = [stream EXCEPT ![p] = << >>]
      /\ \/ peer' = [peer EXCEPT ![p].ready = TRUE]
         \/ peer' = [peer EXCEPT ![p].quit = TRUE]
  BY <1>1, StateFacts DEF OnPeerConnected, OnPeerDisconnected
<1>5. PICK new \in {[me EXCEPT !.ready = TRUE], [me EXCEPT !.quit = TRUE]} :
        peer' = [peer EXCEPT ![p] = new]
  BY <1>1, <1>4 DEF IInv, TypeOK
<1>6. new \in PeerRecord
  <2>1. CASE new = [me EXCEPT !.ready = TRUE]
    BY <1>4, <2>1 DEF PeerRecord
  <2>2. CASE new = [me EXCEPT !.quit = TRUE]
    BY <1>4, <2>2 DEF PeerRecord
  <2> QED
    BY <1>5, <2>1, <2>2
<1>7. Connects(p, new) \/ Ends(p, new)
  BY <1>1, <1>3, <1>4, <1>5 DEF Connects, Ends, PeerRecord
<1>8. /\ new.started = me.started /\ new.connection = me.connection
      /\ new.setting = me.setting /\ new.local = me.local /\ new.remote = me.remote
      /\ new.added = me.added /\ new.buffer = me.buffer /\ new.error = me.error
  BY <1>4, <1>5 DEF PeerRecord
<1>9. Allowed(p, new)
  BY <1>1, <1>3, <1>4, <1>6, <1>7, <1>8 DEF Allowed, PeerHolds, Grows
<1> QED
  BY <1>3, <1>4, <1>5, <1>9, StreamEnds, GoodStep

\* The controller gets its data channel.
LEMMA OnRtcOnDataChannelGood ==
  ASSUME IInv, NEW p \in Peers, OnRtcOnDataChannel(p)
  PROVE  Good
<1>1. Takes(p, "DataChannel") /\ stream' = stream
  BY DEF OnRtcOnDataChannel
<1>2. Posts /\ faults' \in 0..MaxFaults
  BY <1>1, EventTaken
<1>3. PICK me : me = peer[p]
  OBVIOUS
<1>4. /\ me \in PeerRecord /\ PeerHolds(me) /\ (me.linked => BothDescribed)
      /\ p = "controller" /\ (me.local # "none" \/ me.setting # "none") => AgentSpoke
  BY <1>3, StateFacts
<1>5. PICK new : new = [me EXCEPT !.channel = TRUE]
  OBVIOUS
<1>6. peer' = [peer EXCEPT ![p] = new]
  BY <1>3, <1>5 DEF OnRtcOnDataChannel, IInv, TypeOK
<1>7. new \in PeerRecord
  BY <1>4, <1>5 DEF PeerRecord
<1>8. Allowed(p, new)
  BY <1>3, <1>4, <1>5, <1>7 DEF Allowed, PeerHolds, Grows, Stays, PeerRecord
<1> QED
  BY <1>1, <1>2, <1>6, <1>8, NothingSent, GoodStep

-----------------------------------------------------------------------------
(* The theorems *)

\* At the start nobody spoke.
LEMMA InitInv == Init => IInv /\ Handshake!Init
<1> SUFFICES ASSUME Init PROVE IInv /\ Handshake!Init
  OBVIOUS
<1>1. << >> \in Seq(Candidates) /\ << >> \in Seq(Events) /\ << >> \in Seq(Messages)
  OBVIOUS
<1>2. 0 \in 0..MaxCandidates /\ 0 \in 0..MaxFaults
  BY BoundsAssumption
<1>3. PICK me : me =
        [started |-> FALSE, connection |-> FALSE, setting |-> "none", local |-> "none",
         remote |-> "none", buffer |-> << >>, added |-> << >>, gathered |-> 0,
         linked |-> FALSE, announced |-> FALSE, channel |-> FALSE, ready |-> FALSE,
         error |-> FALSE, quit |-> FALSE]
  OBVIOUS
<1>4. me \in PeerRecord
  BY <1>1, <1>2, <1>3 DEF PeerRecord
<1>5. /\ PeerHolds(me) /\ me.local = "none" /\ me.setting = "none" /\ me.remote = "none"
      /\ ~me.linked /\ ~me.ready /\ ~me.quit
  BY <1>3 DEF PeerHolds
<1>6. peer = [p \in Peers |-> me]
  BY <1>3 DEF Init
<1>7. \A p \in Peers : peer[p] = me
  BY <1>6
<1>8. /\ queue \in [Peers -> Seq(Events)] /\ stream \in [Peers -> Seq(Messages)]
      /\ \A p \in Peers : DOMAIN queue[p] = {} /\ DOMAIN stream[p] = {}
  BY <1>1 DEF Init
<1>9. TypeOK
  <2>1. peer \in [Peers -> PeerRecord]
    BY <1>4, <1>6
  <2>2. faults \in 0..MaxFaults
    BY <1>2 DEF Init
  <2> QED
    BY <1>8, <2>1, <2>2 DEF TypeOK
<1>10. InTurn
  BY <1>5, <1>7, PeersAre DEF InTurn
<1>11. IInv
  BY <1>5, <1>7, <1>8, <1>9, <1>10 DEF IInv
<1>12. Handshake!Init
  BY <1>5, <1>7 DEF Handshake!Init
<1> QED
  BY <1>11, <1>12

\* Every step keeps the invariant and is one of the handshake.
LEMMA NextGood == IInv /\ [Next]_vars => Good
<1> SUFFICES ASSUME IInv, [Next]_vars PROVE Good
  OBVIOUS
<1>1. CASE UNCHANGED vars
  <2>1. peer' = peer /\ queue' = queue /\ stream' = stream /\ faults' = faults
    BY <1>1 DEF vars
  <2> QED
    BY <2>1, NothingPosted, NothingSent, StateFacts, PeersAre, GoodUnchanged
<1>2. ASSUME NEW p \in Peers, Library(p) PROVE Good
  BY <1>2, LocalDescriptionSetGood, OnConnectionChangeGood, OnDataChannelGood DEF Library
<1>3. ASSUME NEW p \in Peers, OnIceCandidate(p) PROVE Good
  BY <1>3, OnIceCandidateGood
<1>4. ASSUME NEW p \in Peers, OnConnectionLost(p) PROVE Good
  BY <1>4, OnConnectionLostGood
<1>5. ASSUME NEW p \in Peers, QueuedEvent(p) PROVE Good
  BY <1>5, OnRtcSetLocalSessionSuccessGood, OnRtcIceCandidateReceivedGood, OnRtcFailureGood,
     OnPeerGood, OnRtcOnDataChannelGood DEF QueuedEvent
<1>6. ASSUME NEW p \in Peers, StreamMessage(p) PROVE Good
  BY <1>6, StartEstablishConnectionGood, OnRemoteSdpReceivedGood,
     OnRemoteIceCandidateReceivedGood, SlotWithoutConnectionGood DEF StreamMessage
<1> QED
  BY <1>1, <1>2, <1>3, <1>4, <1>5, <1>6 DEF Next

\* The invariant holds in every behaviour, however the library, the event loops and
\* the two streams interleave and whatever fails.
THEOREM Invariance == Spec => []IInv
<1>1. IInv /\ [Next]_vars => IInv'
  BY NextGood DEF Good
<1>2. Init => IInv
  BY InitInv
<1> QED
  BY <1>1, <1>2, PTL DEF Spec

\* The type invariant: every record, event and message has its form.
THEOREM TypeCorrect == Spec => []TypeOK
<1>1. IInv => TypeOK
  BY DEF IInv
<1> QED
  BY <1>1, Invariance, PTL

\* OnRemoteIceCandidateReceived and SetRemoteSdp: a candidate is added only after a
\* description and waits only for one, or after an error.
THEOREM CandidatesWait == Spec => []WaitsOnlyForDescription
<1>1. IInv => WaitsOnlyForDescription
  BY DEF IInv, PeerHolds, WaitsOnlyForDescription
<1> QED
  BY <1>1, Invariance, PTL

\* The two peers implement the handshake: no description, candidate or callback makes a
\* peer ready early, and the agent takes an answer only after the controller took the offer.
THEOREM Refinement == Spec => ImplementsNegotiation
<1>1. Init => Handshake!Init
  BY InitInv
<1>2. IInv /\ [Next]_vars => [Handshake!Next]_(Handshake!vars)
  BY NextGood DEF Good
<1> QED
  BY <1>1, <1>2, Invariance, PTL DEF Spec, ImplementsNegotiation, Handshake!Spec

-----------------------------------------------------------------------------
(* The descriptions on their way.  A candidate that was found is in the queue *)
(* of its finder, in the stream to the partner, in the partner's buffer or    *)
(* added, the earlier ones further on.  The order would be lost if the buffer *)
(* were added after candidates that passed it, as a second description would  *)
(* do; this part shows that a peer gets only one.                             *)

(* One sequence with an element more, or with the first one gone. *)
IsAppend(old, new, e) ==
  \E n \in Nat : /\ DOMAIN old = 1..n /\ DOMAIN new = 1..n + 1
                 /\ new[n + 1] = e /\ \A k \in 1..n : new[k] = old[k]
IsTail(old, new) ==
  \E n \in Nat : /\ DOMAIN old = 1..n + 1 /\ DOMAIN new = 1..n
                 /\ \A k \in 1..n : new[k] = old[k + 1]

\* Nothing is forwarded to p any more.
Cut(p) == peer[p].ready \/ peer[Other(p)].ready \/ peer[p].quit

\* What Post does to the queues.
LEMMA PostEffect ==
  ASSUME IInv, NEW p \in Peers, NEW e \in Events, Post(p, e)
  PROVE  /\ IsAppend(queue[p], queue'[p], e)
         /\ \A q \in Peers \ {p} : queue'[q] = queue[q]
<1>1. queue \in [Peers -> Seq(Events)] /\ queue[p] \in Seq(Events)
  BY DEF IInv, TypeOK
<1>2. PICK new : new = Append(queue[p], e)
  OBVIOUS
<1>3. PICK old : old = queue[p]
  OBVIOUS
<1>4. /\ Len(old) \in Nat /\ DOMAIN old = 1..Len(old) /\ DOMAIN new = 1..Len(old) + 1
      /\ \A k \in DOMAIN new : IF k \in DOMAIN old THEN new[k] = old[k]
                                                   ELSE k = Len(old) + 1 /\ new[k] = e
  BY <1>1, <1>2, <1>3, AppendElements
<1>5. IsAppend(old, new, e)
  <2>1. PICK n \in Nat : n = Len(old)
    BY <1>4
  <2>2. DOMAIN old = 1..n /\ DOMAIN new = 1..n + 1
    BY <1>4, <2>1
  <2>3. new[n + 1] = e /\ \A k \in 1..n : new[k] = old[k]
    BY <1>4, <2>1, <2>2
  <2> QED
    BY <2>2, <2>3 DEF IsAppend
<1>6. queue' = [queue EXCEPT ![p] = new]
  BY <1>2 DEF Post
<1>7. queue'[p] = new /\ \A q \in Peers \ {p} : queue'[q] = queue[q]
  BY <1>1, <1>6
<1> QED
  BY <1>3, <1>5, <1>7

\* What Takes does to the queues.
LEMMA TakeEffect ==
  ASSUME IInv, NEW p \in Peers, NEW name, Takes(p, name)
  PROVE  /\ IsTail(queue[p], queue'[p])
         /\ 1 \in DOMAIN queue[p] /\ queue[p][1] = Head(queue[p])
         /\ queue[p][1] \in Events /\ queue[p][1].event = name
         /\ \A q \in Peers \ {p} : queue'[q] = queue[q]
<1>1. queue \in [Peers -> Seq(Events)] /\ queue[p] \in Seq(Events) /\ queue[p] # << >>
  BY DEF IInv, TypeOK, Takes
<1>2. PICK new : new = Tail(queue[p])
  OBVIOUS
<1>3. PICK old : old = queue[p]
  OBVIOUS
<1>4. /\ Head(old) \in Events /\ 1 \in DOMAIN old /\ Head(old) = old[1]
      /\ Len(old) \in Nat \ {0} /\ DOMAIN new = 1..Len(old) - 1
      /\ \A k \in DOMAIN new : k + 1 \in DOMAIN old /\ new[k] = old[k + 1]
  BY <1>1, <1>2, <1>3, TailElements
<1>5. DOMAIN old = 1..Len(old)
  BY <1>1, <1>3, QueueElements
<1>6. IsTail(old, new)
  <2>1. PICK n \in Nat : n + 1 = Len(old)
    <3>1. Len(old) - 1 \in Nat /\ (Len(old) - 1) + 1 = Len(old)
      BY <1>4
    <3> QED
      BY <3>1
  <2>2. DOMAIN old = 1..n + 1 /\ DOMAIN new = 1..n
    <3>1. n = Len(old) - 1
      BY <1>4, <2>1
    <3> QED
      BY <1>4, <1>5, <2>1, <3>1
  <2> QED
    BY <1>4, <2>2 DEF IsTail
<1>7. queue' = [queue EXCEPT ![p] = new]
  BY <1>2 DEF Takes
<1>8. queue'[p] = new /\ \A q \in Peers \ {p} : queue'[q] = queue[q]
  BY <1>1, <1>7
<1>9. Head(queue[p]).event = name
  BY DEF Takes
<1> QED
  BY <1>3, <1>4, <1>6, <1>8, <1>9

\* What SendSignalMsg does to the streams.
LEMMA SendEffect ==
  ASSUME IInv, NEW p \in Peers, NEW m \in Messages, SendSignalMsg(p, m)
  PROVE  /\ \/ Cut(Other(p)) /\ stream'[Other(p)] = stream[Other(p)]
            \/ ~Cut(Other(p)) /\ IsAppend(stream[Other(p)], stream'[Other(p)], m)
         /\ stream'[p] = stream[p]

<1>1. PICK r \in Peers : r = Other(p)
  BY PeersAre
<1>2. /\ stream \in [Peers -> Seq(Messages)] /\ stream[r] \in Seq(Messages)
      /\ r # p /\ Other(r) = p
  BY <1>1, PeersAre DEF IInv, TypeOK, Other
<1>3. CASE Cut(r) /\ stream' = stream
  BY <1>1, <1>3
<1>4. CASE ~Cut(r) /\ stream' = [stream EXCEPT ![r] = Append(@, m)]
  <2>1. PICK new : new = Append(stream[r], m)
    OBVIOUS
  <2>2. PICK old : old = stream[r]
    OBVIOUS
  <2>3. /\ Len(old) \in Nat /\ DOMAIN old = 1..Len(old) /\ DOMAIN new = 1..Len(old) + 1
        /\ \A k \in DOMAIN new : IF k \in DOMAIN old THEN new[k] = old[k]
                                                     ELSE k = Len(old) + 1 /\ new[k] = m
    BY <1>2, <2>1, <2>2, AppendElements
  <2>4. IsAppend(old, new, m)
    <3>1. PICK n \in Nat : n = Len(old)
      BY <2>3
    <3>2. DOMAIN old = 1..n /\ DOMAIN new = 1..n + 1
      BY <2>3, <3>1
    <3>3. new[n + 1] = m /\ \A k \in 1..n : new[k] = old[k]
      BY <2>3, <3>1, <3>2
    <3> QED
      BY <3>2, <3>3 DEF IsAppend
  <2>5. stream' = [stream EXCEPT ![r] = new]
    BY <1>4, <2>1
  <2>6. stream'[r] = new /\ stream'[p] = stream[p]
    BY <1>2, <2>5
  <2> QED
    BY <1>1, <1>4, <2>2, <2>4, <2>6
<1> QED
  BY <1>1, <1>2, <1>3, <1>4 DEF SendSignalMsg, Cut

\* What Consume does to the streams.
LEMMA ConsumeEffect ==
  ASSUME IInv, NEW p \in Peers, stream[p] # << >>, Consume(p)
  PROVE  /\ IsTail(stream[p], stream'[p])
         /\ 1 \in DOMAIN stream[p] /\ stream[p][1] = Head(stream[p])
         /\ stream[p][1] \in Messages
         /\ \A q \in Peers \ {p} : stream'[q] = stream[q]
<1>1. stream \in [Peers -> Seq(Messages)] /\ stream[p] \in Seq(Messages)
  BY DEF IInv, TypeOK
<1>2. PICK new : new = Tail(stream[p])
  OBVIOUS
<1>3. PICK old : old = stream[p]
  OBVIOUS
<1>4. /\ Head(old) \in Messages /\ 1 \in DOMAIN old /\ Head(old) = old[1]
      /\ Len(old) \in Nat \ {0} /\ DOMAIN new = 1..Len(old) - 1
      /\ \A k \in DOMAIN new : k + 1 \in DOMAIN old /\ new[k] = old[k + 1]
  BY <1>1, <1>2, <1>3, TailElements
<1>5. DOMAIN old = 1..Len(old)
  BY <1>1, <1>3, QueueElements
<1>6. IsTail(old, new)
  <2>1. PICK n \in Nat : n + 1 = Len(old)
    <3>1. Len(old) - 1 \in Nat /\ (Len(old) - 1) + 1 = Len(old)
      BY <1>4
    <3> QED
      BY <3>1
  <2>2. DOMAIN old = 1..n + 1 /\ DOMAIN new = 1..n
    <3>1. n = Len(old) - 1
      BY <1>4, <2>1
    <3> QED
      BY <1>4, <1>5, <2>1, <3>1
  <2> QED
    BY <1>4, <2>2 DEF IsTail
<1>7. stream' = [stream EXCEPT ![p] = new]
  BY <1>2 DEF Consume
<1>8. stream'[p] = new /\ \A q \in Peers \ {p} : stream'[q] = stream[q]
  BY <1>1, <1>7
<1> QED
  BY <1>3, <1>4, <1>6, <1>8

\* A stream that ends is empty.
LEMMA EndEffect ==
  ASSUME IInv, NEW p \in Peers, stream' = [stream EXCEPT ![p] = << >>]
  PROVE  DOMAIN stream'[p] = {} /\ \A q \in Peers \ {p} : stream'[q] = stream[q]
<1>1. stream \in [Peers -> Seq(Messages)] /\ DOMAIN << >> = {}
  BY DEF IInv, TypeOK
<1> QED
  BY <1>1

\* Where a description is on its way: it is being set, its success is posted, or it is sent.
SetIn(q) == {k \in DOMAIN q : q[k].event = "SetLocalSessionSuccess"}
DescriptionsIn(q) == {k \in DOMAIN q : q[k].type = "ExchangeSessionDescription"}

\* No description is on its way but at one place.
Only(place, at, index) ==
  /\ \A p \in Peers : peer[p].setting # "none" => place = "setting" /\ at = p
  /\ \A p \in Peers : \A k \in SetIn(queue[p]) : place = "queue" /\ at = p /\ index = k
  /\ \A p \in Peers : \A k \in DescriptionsIn(stream[p]) :
       place = "stream" /\ at = p /\ index = k
OneAtATime == \E place \in {"setting", "queue", "stream"}, at \in Peers, index \in Int :
                Only(place, at, index)

\* None of p is on its way.
Idle(p) == /\ peer[p].setting = "none"
           /\ SetIn(queue[p]) = {} /\ DescriptionsIn(stream[Other(p)]) = {}

\* The agent offers and the controller answers, or offers in place of an answer before
\* it took an offer.
Roles ==
  /\ peer["agent"].local # "answer" /\ peer["agent"].setting # "answer"
  /\ peer["agent"].remote # "offer" /\ peer["controller"].remote # "answer"
  /\ peer["controller"].local = "offer" \/ peer["controller"].setting = "offer"
       => peer["controller"].remote = "none"
  /\ \A p \in Peers : \A k \in DescriptionsIn(stream[p]) :
       stream[p][k].sdp_type = peer[Other(p)].local

\* Whose description may be on its way.
Turns ==
  /\ ~peer["agent"].started =>
       Idle("agent") /\ Idle("controller") /\ peer["controller"].remote = "none"
  /\ peer["controller"].remote # "none" => Idle("agent")
  /\ peer["agent"].remote # "none" => Idle("agent") /\ Idle("controller")

BInv == OneAtATime /\ Roles /\ Turns

\* A description reaches a peer only while it has none.
LEMMA Undescribed ==
  ASSUME BInv, NEW p \in Peers, DescriptionsIn(stream[p]) # {}
  PROVE  peer[p].remote = "none"
BY PeersAre DEF BInv, Turns, Idle, Other

\* No description comes on its way by a step that changes a queue or a stream like this.
SetKept(old, new) == \E d \in Int : \A k \in SetIn(new) : k \in Int /\ k + d \in SetIn(old)
DescriptionsKept(old, new) ==
  \E d \in Int : \A k \in DescriptionsIn(new) :
    k \in Int /\ k + d \in DescriptionsIn(old) /\ new[k].sdp_type = old[k + d].sdp_type

\* A queue that is left alone, gets another event or loses its first one.
LEMMA SetKeptBy ==
  ASSUME NEW old, NEW new
  PROVE  /\ \A e : IsAppend(old, new, e) /\ e.event # "SetLocalSessionSuccess"
                     => SetKept(old, new)
         /\ IsTail(old, new) => SetKept(old, new)
<1>1. ASSUME NEW e, IsAppend(old, new, e), e.event # "SetLocalSessionSuccess"
      PROVE  SetKept(old, new)
  <2>1. PICK n \in Nat : /\ DOMAIN old = 1..n /\ DOMAIN new = 1..n + 1
                         /\ new[n + 1] = e /\ \A k \in 1..n : new[k] = old[k]
    BY <1>1 DEF IsAppend
  <2>2. ASSUME NEW k \in SetIn(new) PROVE k \in Int /\ k + 0 \in SetIn(old)
    <3>1. k \in 1..n + 1 /\ new[k].event = "SetLocalSessionSuccess"
      BY <2>1, <2>2 DEF SetIn
    <3>2. k \in 1..n /\ k + 0 = k
      BY <1>1, <2>1, <3>1
    <3> QED
      BY <2>1, <3>1, <3>2 DEF SetIn
  <2> QED
    BY <2>2 DEF SetKept
<1>2. ASSUME IsTail(old, new) PROVE SetKept(old, new)
  <2>1. PICK n \in Nat : /\ DOMAIN old = 1..n + 1 /\ DOMAIN new = 1..n
                         /\ \A k \in 1..n : new[k] = old[k + 1]
    BY <1>2 DEF IsTail
  <2>2. ASSUME NEW k \in SetIn(new) PROVE k \in Int /\ k + 1 \in SetIn(old)
    <3>1. k \in 1..n /\ new[k].event = "SetLocalSessionSuccess"
      BY <2>1, <2>2 DEF SetIn
    <3>2. k + 1 \in 1..n + 1 /\ k \in Int
      BY <3>1
    <3> QED
      BY <2>1, <3>1, <3>2 DEF SetIn
  <2> QED
    BY <2>2 DEF SetKept
<1> QED
  BY <1>1, <1>2

\* Likewise a stream.
LEMMA DescriptionsKeptBy ==
  ASSUME NEW old, NEW new
  PROVE  /\ \A m : IsAppend(old, new, m) /\ m.type # "ExchangeSessionDescription"
                     => DescriptionsKept(old, new)
         /\ IsTail(old, new) => DescriptionsKept(old, new)
<1>1. ASSUME NEW m, IsAppend(old, new, m), m.type # "ExchangeSessionDescription"
      PROVE  DescriptionsKept(old, new)
  <2>1. PICK n \in Nat : /\ DOMAIN old = 1..n /\ DOMAIN new = 1..n + 1
                         /\ new[n + 1] = m /\ \A k \in 1..n : new[k] = old[k]
    BY <1>1 DEF IsAppend
  <2>2. ASSUME NEW k \in DescriptionsIn(new)
        PROVE  /\ k \in Int /\ k + 0 \in DescriptionsIn(old)
               /\ new[k].sdp_type = old[k + 0].sdp_type
    <3>1. k \in 1..n + 1 /\ new[k].type = "ExchangeSessionDescription"
      BY <2>1, <2>2 DEF DescriptionsIn
    <3>2. k \in 1..n /\ k + 0 = k
      BY <1>1, <2>1, <3>1
    <3> QED
      BY <2>1, <3>1, <3>2 DEF DescriptionsIn
  <2> QED
    BY <2>2 DEF DescriptionsKept
<1>2. ASSUME IsTail(old, new) PROVE DescriptionsKept(old, new)
  <2>1. PICK n \in Nat : /\ DOMAIN old = 1..n + 1 /\ DOMAIN new = 1..n
                         /\ \A k \in 1..n : new[k] = old[k + 1]
    BY <1>2 DEF IsTail
  <2>2. ASSUME NEW k \in DescriptionsIn(new)
        PROVE  /\ k \in Int /\ k + 1 \in DescriptionsIn(old)
               /\ new[k].sdp_type = old[k + 1].sdp_type
    <3>1. k \in 1..n /\ new[k].type = "ExchangeSessionDescription"
      BY <2>1, <2>2 DEF DescriptionsIn
    <3>2. k + 1 \in 1..n + 1 /\ k \in Int
      BY <3>1
    <3> QED
      BY <2>1, <3>1, <3>2 DEF DescriptionsIn
  <2> QED
    BY <2>2 DEF DescriptionsKept
<1> QED
  BY <1>1, <1>2

\* What is left alone, and a stream that ends.
LEMMA KeptUnchanged ==
  ASSUME IInv, NEW p \in Peers
  PROVE  /\ SetKept(queue[p], queue[p]) /\ DescriptionsKept(stream[p], stream[p])
         /\ \A new : DOMAIN new = {} => DescriptionsKept(stream[p], new)
<1>1. /\ DOMAIN queue[p] \subseteq Int /\ DOMAIN stream[p] \subseteq Int
      /\ \A k \in Int : k + 0 = k
  BY DEF IInv, TypeOK
<1>2. /\ \A k \in SetIn(queue[p]) : k \in Int
      /\ \A k \in DescriptionsIn(stream[p]) : k \in Int
  BY <1>1 DEF SetIn, DescriptionsIn
<1>3. SetKept(queue[p], queue[p]) /\ DescriptionsKept(stream[p], stream[p])
  BY <1>1, <1>2 DEF SetKept, DescriptionsKept
<1>4. ASSUME NEW new, DOMAIN new = {} PROVE DescriptionsKept(stream[p], new)
  BY <1>4 DEF DescriptionsKept, DescriptionsIn
<1> QED
  BY <1>3, <1>4

\* A step by which no description comes on its way and none is set or taken.
Quiet == /\ \A p \in Peers : /\ peer'[p].setting = peer[p].setting
                             /\ peer'[p].local = peer[p].local
                             /\ peer'[p].remote = peer[p].remote
                             /\ peer[p].started => peer'[p].started
         /\ \A p \in Peers : /\ SetKept(queue[p], queue'[p])
                             /\ DescriptionsKept(stream[p], stream'[p])

\* Such a step keeps the invariant.
LEMMA QuietKeeps == ASSUME BInv, Quiet PROVE BInv'
<1>1. OneAtATime'
  <2>1. PICK place \in {"setting", "queue", "stream"}, at \in Peers, index \in Int :
          Only(place, at, index)
    BY DEF BInv, OneAtATime
  <2>2. PICK d \in Int : \A k \in SetIn(queue'[at]) : k \in Int /\ k + d \in SetIn(queue[at])
    BY DEF Quiet, SetKept
  <2>3. PICK e \in Int : \A k \in DescriptionsIn(stream'[at]) :
                            k \in Int /\ k + e \in DescriptionsIn(stream[at])
    BY DEF Quiet, DescriptionsKept
  <2>4. PICK i \in Int : i = IF place = "queue" THEN index - d ELSE index - e
    <3>1. index - d \in Int /\ index - e \in Int
      OBVIOUS
    <3> QED
      BY <3>1, Zenon
  <2>5. ASSUME NEW p \in Peers, NEW k \in SetIn(queue'[p])
        PROVE  place = "queue" /\ at = p /\ i = k
    <3>1. SetIn(queue[p]) # {}
      BY <2>5 DEF Quiet, SetKept
    <3>2. place = "queue" /\ at = p
      BY <2>1, <3>1 DEF Only
    <3>3. k \in Int /\ k + d = index
      BY <2>1, <2>2, <2>5, <3>2 DEF Only
    <3> QED
      BY <2>4, <3>2, <3>3
  <2>6. ASSUME NEW p \in Peers, NEW k \in DescriptionsIn(stream'[p])
        PROVE  place = "stream" /\ at = p /\ i = k
    <3>1. DescriptionsIn(stream[p]) # {}
      BY <2>6 DEF Quiet, DescriptionsKept
    <3>2. place = "stream" /\ at = p
      BY <2>1, <3>1 DEF Only
    <3>3. k \in Int /\ k + e = index
      BY <2>1, <2>3, <2>6, <3>2 DEF Only
    <3> QED
      BY <2>4, <3>2, <3>3
  <2>7. Only(place, at, i)'
    BY <2>1, <2>5, <2>6 DEF Only, Quiet
  <2> QED
    BY <2>7 DEF OneAtATime
<1>2. Roles'
  <2>1. ASSUME NEW p \in Peers, NEW k \in DescriptionsIn(stream'[p])
        PROVE  stream'[p][k].sdp_type = peer'[Other(p)].local
    <3>1. PICK l \in DescriptionsIn(stream[p]) : stream'[p][k].sdp_type = stream[p][l].sdp_type
      BY <2>1 DEF Quiet, DescriptionsKept
    <3> QED
      BY <3>1, PeersAre DEF BInv, Roles, Quiet
  <2> QED
    BY <2>1, PeersAre DEF BInv, Roles, Quiet
<1>3. Turns'
  <2>1. ASSUME NEW p \in Peers, Idle(p) PROVE Idle(p)'
    <3>1. SetIn(queue'[p]) = {} /\ DescriptionsIn(stream'[Other(p)]) = {}
      BY <2>1, PeersAre DEF Quiet, Idle, SetKept, DescriptionsKept
    <3> QED
      BY <2>1, <3>1 DEF Idle, Quiet
  <2> QED
    BY <2>1, PeersAre DEF BInv, Turns, Quiet
<1> QED
  BY <1>1, <1>2, <1>3 DEF BInv

\* What a step of p leaves as it was.
LEMMA OtherPeer ==
  ASSUME IInv, NEW p \in Peers, NEW new, peer' = [peer EXCEPT ![p] = new]
  PROVE  /\ peer'[p] = new /\ \A q \in Peers \ {p} : peer'[q] = peer[q]
         /\ peer'[Other(p)] = peer[Other(p)]
BY PeersAre DEF IInv, TypeOK

\* A step that posts or takes an event of another kind, and sends no description.
LEMMA QuietQueue ==
  ASSUME IInv, NEW p \in Peers, \A q \in Peers \ {p} : queue'[q] = queue[q],
         SetKept(queue[p], queue'[p])
  PROVE  \A q \in Peers : SetKept(queue[q], queue'[q])
<1>1. ASSUME NEW q \in Peers PROVE SetKept(queue[q], queue'[q])
  <2>1. CASE q = p
    BY <2>1
  <2>2. CASE q # p
    BY <2>2, KeptUnchanged
  <2> QED
    BY <2>1, <2>2
<1> QED
  BY <1>1
\* Likewise the streams.
LEMMA QuietStream ==
  ASSUME IInv, NEW p \in Peers, \A q \in Peers \ {p} : stream'[q] = stream[q],
         DescriptionsKept(stream[p], stream'[p])
  PROVE  \A q \in Peers : DescriptionsKept(stream[q], stream'[q])
<1>1. ASSUME NEW q \in Peers PROVE DescriptionsKept(stream[q], stream'[q])
  <2>1. CASE q = p
    BY <2>1
  <2>2. CASE q # p
    BY <2>2, KeptUnchanged
  <2> QED
    BY <2>1, <2>2
<1> QED
  BY <1>1

\* An own description is set: its success is posted.
LEMMA LocalDescriptionSetBaton ==
  ASSUME IInv, BInv, NEW p \in Peers, LocalDescriptionSet(p)
  PROVE  BInv'
<1>1. PICK ok \in BOOLEAN :
        /\ peer' = [peer EXCEPT ![p].setting = "none",
                                ![p].local = IF ok THEN peer[p].setting ELSE @]
        /\ Post(p, [event |-> IF ok THEN "SetLocalSessionSuccess"
                                    ELSE "SetLocalSessionFailed"])
  BY DEF LocalDescriptionSet
<1>2. PICK me : me = peer[p]
  OBVIOUS
<1>3. me \in PeerRecord /\ me.setting # "none" /\ stream' = stream
  BY <1>2, StateFacts DEF LocalDescriptionSet
<1>4. PICK new : new = [me EXCEPT !.setting = "none",
                                  !.local = IF ok THEN me.setting ELSE me.local]
  OBVIOUS
<1>5. peer' = [peer EXCEPT ![p] = new]
  BY <1>1, <1>2, <1>4 DEF IInv, TypeOK
<1>6. /\ new.setting = "none" /\ new.local \in {me.setting, me.local}
      /\ new.remote = me.remote /\ new.started = me.started
  BY <1>3, <1>4 DEF PeerRecord
<1>7. peer'[p] = new /\ \A q \in Peers \ {p} : peer'[q] = peer[q]
  BY <1>5, OtherPeer
<1>8. PICK e \in Events : Post(p, e)
  BY <1>1, Fields
<1>9. IsAppend(queue[p], queue'[p], e) /\ \A q \in Peers \ {p} : queue'[q] = queue[q]
  BY <1>8, PostEffect
<1>10. PICK n \in Nat : /\ DOMAIN queue[p] = 1..n /\ DOMAIN queue'[p] = 1..n + 1
                        /\ \A k \in 1..n : queue'[p][k] = queue[p][k]
  BY <1>9 DEF IsAppend
<1>11. PICK place, at, index : Only(place, at, index)
  BY DEF BInv, OneAtATime
<1>12. /\ \A q \in Peers \ {p} : peer[q].setting = "none"
       /\ \A q \in Peers : SetIn(queue[q]) = {} /\ DescriptionsIn(stream[q]) = {}
  <2>1. place = "setting" /\ at = p
    BY <1>2, <1>3, <1>11 DEF Only
  <2> QED
    BY <1>11, <2>1 DEF Only
<1>13. SetIn(queue'[p]) \subseteq {n + 1}
  <2>1. ASSUME NEW k \in SetIn(queue'[p]) PROVE k = n + 1
    <3>1. k \in 1..n + 1 /\ (k \in 1..n => k \in SetIn(queue[p]))
      BY <1>10, <2>1 DEF SetIn
    <3>2. k \notin 1..n
      BY <1>12, <3>1
    <3> QED
      BY <3>1, <3>2
  <2> QED
    BY <2>1
<1>14. /\ \A q \in Peers : peer'[q].setting = "none" /\ DescriptionsIn(stream'[q]) = {}
       /\ \A q \in Peers \ {p} : SetIn(queue'[q]) = {}
  BY <1>3, <1>6, <1>7, <1>9, <1>12
<1>15. OneAtATime'
  <2>1. Only("queue", p, n + 1)'
    BY <1>13, <1>14 DEF Only
  <2> QED
    BY <2>1 DEF OneAtATime
<1>16. Roles'
  BY <1>2, <1>6, <1>7, <1>14, PeersAre DEF BInv, Roles
<1>17. Turns'
  <2>1. ~Idle(p)
    BY <1>2, <1>3 DEF Idle
  <2>2. /\ peer["agent"].started /\ peer["agent"].remote = "none"
        /\ peer["controller"].remote # "none" => p # "agent"
    BY <2>1, PeersAre DEF BInv, Turns
  <2>3. /\ peer'["agent"].started /\ peer'["agent"].remote = "none"
        /\ peer'["controller"].remote # "none" => p # "agent"
    BY <1>2, <1>6, <1>7, <2>2, PeersAre
  <2>4. p # "agent" => Idle("agent")'
    BY <1>14, PeersAre DEF Idle
  <2> QED
    BY <2>3, <2>4 DEF Turns
<1> QED
  BY <1>15, <1>16, <1>17 DEF BInv

\* The own description is sent.
LEMMA OnRtcSetLocalSessionSuccessBaton ==
  ASSUME IInv, BInv, NEW p \in Peers, OnRtcSetLocalSessionSuccess(p)
  PROVE  BInv'
<1>1. Takes(p, "SetLocalSessionSuccess") /\ peer' = peer
  BY DEF OnRtcSetLocalSessionSuccess
<1>2. /\ IsTail(queue[p], queue'[p])
      /\ 1 \in DOMAIN queue[p] /\ queue[p][1] = Head(queue[p])
      /\ queue[p][1].event = "SetLocalSessionSuccess"
      /\ \A q \in Peers \ {p} : queue'[q] = queue[q]
  BY <1>1, TakeEffect
<1>3. PICK m : m = [type |-> "ExchangeSessionDescription", sdp_type |-> peer[p].local]
  OBVIOUS
<1>4. EventHolds(p, Head(queue[p]))
  BY <1>1, EventTaken
<1>5. peer[p].local \in SdpTypes
  BY <1>2, <1>4, StateFacts DEF PeerRecord, EventHolds
<1>6. m \in Messages /\ SendSignalMsg(p, m) /\ m.sdp_type = peer[p].local
  BY <1>3, <1>5, Fields DEF OnRtcSetLocalSessionSuccess
<1>7. PICK r \in Peers : r = Other(p) /\ r # p /\ Other(r) = p /\ \A q \in Peers : q \in {r, p}
  BY PeersAre DEF Other
<1>8. PICK place, at, index : Only(place, at, index)
  BY DEF BInv, OneAtATime
<1>9. 1 \in SetIn(queue[p])
  BY <1>2 DEF SetIn
<1>10. place = "queue" /\ at = p /\ index = 1
  BY <1>8, <1>9 DEF Only
<1>11. /\ \A q \in Peers : peer[q].setting = "none" /\ DescriptionsIn(stream[q]) = {}
       /\ SetIn(queue[r]) = {} /\ SetIn(queue[p]) \subseteq {1}
  BY <1>7, <1>8, <1>10 DEF Only
<1>12. SetIn(queue'[p]) = {}
  <2>1. PICK n \in Nat : /\ DOMAIN queue[p] = 1..n + 1 /\ DOMAIN queue'[p] = 1..n
                         /\ \A k \in 1..n : queue'[p][k] = queue[p][k + 1]
    BY <1>2 DEF IsTail
  <2>2. ASSUME NEW k \in SetIn(queue'[p]) PROVE FALSE
    <3>1. k \in 1..n /\ queue'[p][k].event = "SetLocalSessionSuccess"
      BY <2>1, <2>2 DEF SetIn
    <3>2. k + 1 \in 1..n + 1 /\ k + 1 # 1
      BY <3>1
    <3>3. k + 1 \in SetIn(queue[p])
      BY <2>1, <3>1, <3>2 DEF SetIn
    <3> QED
      BY <1>11, <3>2, <3>3
  <2> QED
    BY <2>2
<1>13. SetIn(queue'[r]) = {}
  BY <1>2, <1>7, <1>11
<1>14. stream'[p] = stream[p] /\ (stream'[r] = stream[r] \/ IsAppend(stream[r], stream'[r], m))
  BY <1>6, <1>7, SendEffect
<1>15. \E n \in Nat : \A k \in DescriptionsIn(stream'[r]) : k = n + 1 /\ stream'[r][k] = m
  <2>1. CASE stream'[r] = stream[r]
    BY <1>11, <2>1
  <2>2. CASE IsAppend(stream[r], stream'[r], m)
    <3>1. PICK n \in Nat : /\ DOMAIN stream[r] = 1..n /\ DOMAIN stream'[r] = 1..n + 1
                           /\ stream'[r][n + 1] = m
                           /\ \A k \in 1..n : stream'[r][k] = stream[r][k]
      BY <2>2 DEF IsAppend
    <3>2. ASSUME NEW k \in DescriptionsIn(stream'[r]) PROVE k = n + 1
      <4>1. k \in 1..n + 1 /\ (k \in 1..n => k \in DescriptionsIn(stream[r]))
        BY <3>1, <3>2 DEF DescriptionsIn
      <4>2. k \notin 1..n
        BY <1>11, <4>1
      <4> QED
        BY <4>1, <4>2
    <3> QED
      BY <3>1, <3>2
  <2> QED
    BY <1>14, <2>1, <2>2
<1>16. PICK n \in Nat : \A k \in DescriptionsIn(stream'[r]) : k = n + 1 /\ stream'[r][k] = m
  BY <1>15
<1>17. DescriptionsIn(stream'[p]) = {}
  BY <1>11, <1>14
<1>18. OneAtATime'
  <2>1. Only("stream", r, n + 1)'
    BY <1>1, <1>7, <1>11, <1>12, <1>13, <1>16, <1>17 DEF Only
  <2> QED
    BY <1>7, <2>1 DEF OneAtATime
<1>19. Roles'
  BY <1>1, <1>6, <1>7, <1>16, <1>17 DEF BInv, Roles
<1>20. Turns'
  <2>1. ~Idle(p)
    BY <1>9 DEF Idle
  <2>2. /\ peer["agent"].started /\ peer["agent"].remote = "none"
        /\ peer["controller"].remote # "none" => p # "agent"
    BY <2>1, PeersAre DEF BInv, Turns
  <2>3. p # "agent" => Idle("agent")'
    <3>1. SUFFICES ASSUME p # "agent" PROVE Idle("agent")'
      OBVIOUS
    <3>2. r = "agent"
      BY <1>7, <3>1, PeersAre
    <3> QED
      BY <1>1, <1>7, <1>11, <1>13, <1>17, <3>2 DEF Idle
  <2> QED
    BY <1>1, <2>2, <2>3 DEF Turns
<1> QED
  BY <1>18, <1>19, <1>20 DEF BInv

\* What adding the buffer makes of the candidates.
LEMMA FlushAdds ==
  ASSUME NEW me \in PeerRecord, NEW k, NEW new, new = Flush(me, k)
  PROVE  /\ new.added = me.added \o SubSeq(me.buffer, 1, k)
         /\ new.buffer = IF k = Len(me.buffer) THEN << >> ELSE me.buffer
         /\ new.started = me.started /\ new.setting = me.setting /\ new.local = me.local
         /\ new.remote = me.remote /\ new.gathered = me.gathered
         /\ new.ready = me.ready /\ new.quit = me.quit
BY DEF Flush, PeerRecord

\* The results of a description: nothing is made of it, it is taken, or refused.
SdpFails(p, new) ==
  /\ faults' = faults + 1 /\ queue' = queue
  /\ new.setting = peer[p].setting /\ new.remote = peer[p].remote
  /\ new.added = peer[p].added /\ new.buffer = peer[p].buffer
SdpTaken(p, t, new) ==
  /\ Acceptable(peer[p], t) /\ new.remote = t
  /\ new.setting = IF t = "offer" THEN "answer" ELSE peer[p].setting
  /\ \E k \in 0..Len(peer[p].buffer) :
       /\ new.added = peer[p].added \o SubSeq(peer[p].buffer, 1, k)
       /\ new.buffer = IF k = Len(peer[p].buffer) THEN << >> ELSE peer[p].buffer
       /\ faults' = IF k < Len(peer[p].buffer) THEN faults + 1 ELSE faults
  /\ Post(p, [event |-> "SetRemoteSessionSuccess"])
SdpRefused(p, t, new) ==
  /\ new.remote = peer[p].remote
  /\ new.setting = IF t = "offer" THEN ImplicitType(peer[p]) ELSE peer[p].setting
  /\ peer[p].remote = "none" =>
       new.added = peer[p].added \o SubSeq(peer[p].buffer, 1, 0) /\ new.buffer = peer[p].buffer
  /\ faults' = IF Acceptable(peer[p], t) THEN faults + 1 ELSE faults
  /\ Post(p, [event |-> "SetRemoteSessionFailed"])

\* What OnRemoteSdpReceived does, field by field.
LEMMA SdpEffect ==
  ASSUME IInv, NEW p \in Peers, OnRemoteSdpReceived(p)
  PROVE  \E new : LET t == Head(stream[p]).sdp_type IN
           /\ peer' = [peer EXCEPT ![p] = new]
           /\ new.started = peer[p].started /\ new.local = peer[p].local
           /\ new.gathered = peer[p].gathered
           /\ new.ready = peer[p].ready /\ new.quit = peer[p].quit
           /\ SdpFails(p, new) \/ SdpTaken(p, t, new) \/ SdpRefused(p, t, new)
<1>1. PICK me : me = peer[p]
  OBVIOUS
<1>2. PICK t : t = Head(stream[p]).sdp_type
  OBVIOUS
<1>3. me \in PeerRecord
  BY <1>1, StateFacts
<1>4. \/ /\ Outcome(TRUE)
         /\ peer' = [peer EXCEPT ![p].error = TRUE]
         /\ queue' = queue
      \/ /\ Acceptable(me, t)
         /\ \E k \in 0..Len(me.buffer) :
              /\ Outcome(k < Len(me.buffer))
              /\ peer' = [peer EXCEPT ![p] =
                   Flush(IF t = "offer"
                         THEN [[me EXCEPT !.remote = t] EXCEPT
                                 !.setting = ImplicitType([me EXCEPT !.remote = t])]
                         ELSE [me EXCEPT !.remote = t], k)]
         /\ Post(p, [event |-> "SetRemoteSessionSuccess"])
      \/ /\ Outcome(Acceptable(me, t))
         /\ peer' = [peer EXCEPT ![p] =
              Flush(IF t = "offer" THEN [me EXCEPT !.setting = ImplicitType(me)] ELSE me,
                    IF me.remote = "none" THEN 0 ELSE Len(me.buffer))]
         /\ Post(p, [event |-> "SetRemoteSessionFailed"])
  BY <1>1, <1>2 DEF OnRemoteSdpReceived
<1>5. t \in SdpTypes
  BY <1>2, StateFacts, Fields DEF OnRemoteSdpReceived, Receives
<1> DEFINE Result(r) ==
  /\ peer' = [peer EXCEPT ![p] = r]
  /\ r.started = me.started /\ r.local = me.local /\ r.gathered = me.gathered
  /\ r.ready = me.ready /\ r.quit = me.quit
  /\ SdpFails(p, r) \/ SdpTaken(p, t, r) \/ SdpRefused(p, t, r)
<1>6. CASE /\ Outcome(TRUE)
           /\ peer' = [peer EXCEPT ![p].error = TRUE]
           /\ queue' = queue
  <2>1. PICK new : new = [me EXCEPT !.error = TRUE]
    OBVIOUS
  <2>2. peer' = [peer EXCEPT ![p] = new]
    BY <1>1, <1>6, <2>1 DEF IInv, TypeOK
  <2>3. /\ new.started = me.started /\ new.local = me.local /\ new.gathered = me.gathered
        /\ new.ready = me.ready /\ new.quit = me.quit
        /\ new.setting = me.setting /\ new.remote = me.remote
        /\ new.added = me.added /\ new.buffer = me.buffer
    BY <1>3, <2>1 DEF PeerRecord
  <2>4. SdpFails(p, new)
    BY <1>1, <1>6, <2>3 DEF SdpFails, Outcome
  <2>5. Result(new)
    BY <2>2, <2>3, <2>4
  <2> QED
    BY <1>1, <1>2, <2>5
<1>7. CASE /\ Acceptable(me, t)
           /\ \E k \in 0..Len(me.buffer) :
                /\ Outcome(k < Len(me.buffer))
                /\ peer' = [peer EXCEPT ![p] =
                     Flush(IF t = "offer"
                           THEN [[me EXCEPT !.remote = t] EXCEPT
                                   !.setting = ImplicitType([me EXCEPT !.remote = t])]
                           ELSE [me EXCEPT !.remote = t], k)]
           /\ Post(p, [event |-> "SetRemoteSessionSuccess"])
  <2>1. PICK m : m = IF t = "offer"
                     THEN [[me EXCEPT !.remote = t] EXCEPT
                             !.setting = ImplicitType([me EXCEPT !.remote = t])]
                     ELSE [me EXCEPT !.remote = t]
    OBVIOUS
  <2>2. PICK k \in 0..Len(me.buffer) : /\ Outcome(k < Len(me.buffer))
                                       /\ peer' = [peer EXCEPT ![p] = Flush(m, k)]
    BY <1>7, <2>1
  <2>3. t = "offer" => ImplicitType([me EXCEPT !.remote = t]) = "answer"
    BY <1>3 DEF ImplicitType, PeerRecord
  <2>4. /\ m \in PeerRecord /\ m.remote = t
        /\ m.setting = IF t = "offer" THEN "answer" ELSE me.setting
        /\ m.started = me.started /\ m.local = me.local /\ m.gathered = me.gathered
        /\ m.ready = me.ready /\ m.quit = me.quit
        /\ m.added = me.added /\ m.buffer = me.buffer
    <3>1. CASE t = "offer"
      <4>1. m = [me EXCEPT !.remote = t, !.setting = "answer"]
        BY <1>3, <2>1, <2>3, <3>1 DEF PeerRecord
      <4> QED
        BY <1>3, <1>5, <3>1, <4>1 DEF PeerRecord, SdpTypes
    <3>2. CASE t # "offer"
      <4>1. m = [me EXCEPT !.remote = t]
        BY <2>1, <3>2
      <4> QED
        BY <1>3, <1>5, <3>2, <4>1 DEF PeerRecord
    <3> QED
      BY <3>1, <3>2
  <2>5. PICK new : new = Flush(m, k)
    OBVIOUS
  <2>6. /\ new.added = m.added \o SubSeq(m.buffer, 1, k)
        /\ new.buffer = IF k = Len(m.buffer) THEN << >> ELSE m.buffer
        /\ new.started = m.started /\ new.setting = m.setting /\ new.local = m.local
        /\ new.remote = m.remote /\ new.gathered = m.gathered
        /\ new.ready = m.ready /\ new.quit = m.quit
    <3>1. m \in PeerRecord
      BY <2>4
    <3>2. new.added = m.added \o SubSeq(m.buffer, 1, k)
      BY <3>1, <2>5 DEF Flush, PeerRecord
    <3>5. new.buffer = IF k = Len(m.buffer) THEN << >> ELSE m.buffer
      BY <3>1, <2>5, FlushAdds
    <3>3. /\ new.started = m.started /\ new.setting = m.setting /\ new.local = m.local
          /\ new.remote = m.remote /\ new.gathered = m.gathered
      BY <3>1, <2>5, FlushAdds
    <3>4. new.ready = m.ready /\ new.quit = m.quit
      BY <3>1, <2>5, FlushAdds
    <3> QED
      BY <3>2, <3>3, <3>4, <3>5
  <2>7. faults' = IF k < Len(me.buffer) THEN faults + 1 ELSE faults
    BY <2>2 DEF Outcome
  <2>8. SdpTaken(p, t, new)
    <3>1. /\ new.added = me.added \o SubSeq(me.buffer, 1, k)
          /\ new.buffer = IF k = Len(me.buffer) THEN << >> ELSE me.buffer
      BY <2>4, <2>6, Zenon
    <3>2. new.remote = t /\ new.setting = IF t = "offer" THEN "answer" ELSE me.setting
      BY <2>4, <2>6, Zenon
    <3> QED
      BY <1>1, <1>7, <2>2, <2>7, <3>1, <3>2, Zenon DEF SdpTaken
  <2>9. Result(new)
    BY <2>2, <2>4, <2>5, <2>6, <2>8, Zenon
  <2> QED
    BY <1>1, <1>2, <2>9
<1>8. CASE /\ Outcome(Acceptable(me, t))
           /\ peer' = [peer EXCEPT ![p] =
                Flush(IF t = "offer" THEN [me EXCEPT !.setting = ImplicitType(me)] ELSE me,
                      IF me.remote = "none" THEN 0 ELSE Len(me.buffer))]
           /\ Post(p, [event |-> "SetRemoteSessionFailed"])
  <2>1. PICK m : m = IF t = "offer" THEN [me EXCEPT !.setting = ImplicitType(me)] ELSE me
    OBVIOUS
  <2>2. PICK k : k = IF me.remote = "none" THEN 0 ELSE Len(me.buffer)
    OBVIOUS
  <2>3. ImplicitType(me) \in SdpTypes
    BY DEF ImplicitType, SdpTypes
  <2>4. /\ m \in PeerRecord /\ m.remote = me.remote
        /\ m.setting = IF t = "offer" THEN ImplicitType(me) ELSE me.setting
        /\ m.started = me.started /\ m.local = me.local /\ m.gathered = me.gathered
        /\ m.ready = me.ready /\ m.quit = me.quit
        /\ m.added = me.added /\ m.buffer = me.buffer
    <3>1. CASE t = "offer"
      <4>1. m = [me EXCEPT !.setting = ImplicitType(me)]
        BY <2>1, <3>1
      <4> QED
        BY <1>3, <2>3, <3>1, <4>1 DEF PeerRecord
    <3>2. CASE t # "offer"
      BY <1>3, <2>1, <3>2
    <3> QED
      BY <3>1, <3>2
  <2>5. PICK new : new = Flush(m, k)
    OBVIOUS
  <2>6. /\ new.added = m.added \o SubSeq(m.buffer, 1, k)
        /\ new.buffer = IF k = Len(m.buffer) THEN << >> ELSE m.buffer
        /\ new.started = m.started /\ new.setting = m.setting /\ new.local = m.local
        /\ new.remote = m.remote /\ new.gathered = m.gathered
        /\ new.ready = m.ready /\ new.quit = m.quit
    <3>1. m \in PeerRecord
      BY <2>4
    <3>2. new.added = m.added \o SubSeq(m.buffer, 1, k)
      BY <3>1, <2>5 DEF Flush, PeerRecord
    <3>5. new.buffer = IF k = Len(m.buffer) THEN << >> ELSE m.buffer
      BY <3>1, <2>5, FlushAdds
    <3>3. /\ new.started = m.started /\ new.setting = m.setting /\ new.local = m.local
          /\ new.remote = m.remote /\ new.gathered = m.gathered
      BY <3>1, <2>5, FlushAdds
    <3>4. new.ready = m.ready /\ new.quit = m.quit
      BY <3>1, <2>5, FlushAdds
    <3> QED
      BY <3>2, <3>3, <3>4, <3>5
  <2>7. me.remote = "none" =>
          new.added = me.added \o SubSeq(me.buffer, 1, 0) /\ new.buffer = me.buffer
    <3>1. SUFFICES ASSUME me.remote = "none"
                   PROVE  /\ new.added = me.added \o SubSeq(me.buffer, 1, 0)
                          /\ new.buffer = me.buffer
      OBVIOUS
    <3>2. k = 0
      BY <2>2, <3>1
    <3>3. Len(me.buffer) = 0 => me.buffer = << >>
      BY <1>3 DEF PeerRecord
    <3>4. new.buffer = me.buffer
      BY <2>4, <2>6, <3>2, <3>3, Zenon
    <3> QED
      BY <2>4, <2>6, <3>2, <3>4, Zenon
  <2>8. faults' = IF Acceptable(me, t) THEN faults + 1 ELSE faults
    BY <1>8 DEF Outcome
  <2>9. SdpRefused(p, t, new)
    <3>1. /\ new.remote = me.remote
          /\ new.setting = IF t = "offer" THEN ImplicitType(me) ELSE me.setting
      BY <2>4, <2>6, Zenon
    <3> QED
      BY <1>1, <1>8, <2>7, <2>8, <3>1, Zenon DEF SdpRefused
  <2>10. Result(new)
    <3>1. peer' = [peer EXCEPT ![p] = new]
      BY <1>8, <2>1, <2>2, <2>5
    <3> QED
      BY <2>4, <2>6, <2>9, <3>1, Zenon
  <2> QED
    BY <1>1, <1>2, <2>10
<1> QED
  BY <1>4, <1>6, <1>7, <1>8

\* The description is taken from the stream: an answer to it may be set.
LEMMA OnRemoteSdpReceivedBaton ==
  ASSUME IInv, BInv, NEW p \in Peers, OnRemoteSdpReceived(p)
  PROVE  BInv'
<1>1. PICK t : t = Head(stream[p]).sdp_type
  OBVIOUS
<1>2. PICK new :
        /\ peer' = [peer EXCEPT ![p] = new]
        /\ new.started = peer[p].started /\ new.local = peer[p].local
        /\ SdpFails(p, new) \/ SdpTaken(p, t, new) \/ SdpRefused(p, t, new)
  BY <1>1, SdpEffect
<1>3. peer'[p] = new /\ \A q \in Peers \ {p} : peer'[q] = peer[q]
  BY <1>2, OtherPeer
<1>4. stream[p] # << >> /\ Consume(p) /\ Head(stream[p]).type = "ExchangeSessionDescription"
  BY DEF OnRemoteSdpReceived, Receives
<1>5. /\ IsTail(stream[p], stream'[p])
      /\ 1 \in DOMAIN stream[p] /\ stream[p][1] = Head(stream[p])
      /\ \A q \in Peers \ {p} : stream'[q] = stream[q]
  BY <1>4, ConsumeEffect
<1>6. 1 \in DescriptionsIn(stream[p]) /\ stream[p][1].sdp_type = t
  BY <1>1, <1>4, <1>5 DEF DescriptionsIn
<1>7. PICK place, at, index : Only(place, at, index)
  BY DEF BInv, OneAtATime
<1>8. place = "stream" /\ at = p /\ index = 1
  BY <1>6, <1>7 DEF Only
<1>9. /\ \A q \in Peers : peer[q].setting = "none" /\ SetIn(queue[q]) = {}
      /\ \A q \in Peers \ {p} : DescriptionsIn(stream[q]) = {}
      /\ DescriptionsIn(stream[p]) \subseteq {1}
  BY <1>7, <1>8 DEF Only
<1>10. \A q \in Peers : DescriptionsIn(stream'[q]) = {}
  <2>1. PICK n \in Nat : /\ DOMAIN stream[p] = 1..n + 1 /\ DOMAIN stream'[p] = 1..n
                         /\ \A k \in 1..n : stream'[p][k] = stream[p][k + 1]
    BY <1>5 DEF IsTail
  <2>2. ASSUME NEW k \in DescriptionsIn(stream'[p]) PROVE FALSE
    <3>1. k \in 1..n /\ stream'[p][k].type = "ExchangeSessionDescription"
      BY <2>1, <2>2 DEF DescriptionsIn
    <3>2. k + 1 \in 1..n + 1 /\ k + 1 # 1
      BY <3>1
    <3>3. k + 1 \in DescriptionsIn(stream[p])
      BY <2>1, <3>1, <3>2 DEF DescriptionsIn
    <3> QED
      BY <1>9, <3>2, <3>3
  <2>3. DescriptionsIn(stream'[p]) = {}
    BY <2>2
  <2> QED
    BY <1>5, <1>9, <2>3
<1>11. \A q \in Peers : SetIn(queue'[q]) = {}
  <2>1. CASE queue' = queue
    BY <1>9, <2>1
  <2>2. CASE \E name \in {"SetRemoteSessionSuccess", "SetRemoteSessionFailed"} :
               Post(p, [event |-> name])
    <3>1. PICK e \in Events : Post(p, e) /\ e.event # "SetLocalSessionSuccess"
      BY <2>2, Fields
    <3>2. /\ SetKept(queue[p], queue'[p])
          /\ \A q \in Peers \ {p} : queue'[q] = queue[q]
      BY <3>1, PostEffect, SetKeptBy
    <3>3. SetIn(queue'[p]) = {}
      BY <1>9, <3>2 DEF SetKept
    <3> QED
      BY <1>9, <3>2, <3>3
  <2> QED
    BY <1>2, <2>1, <2>2 DEF SdpFails, SdpTaken, SdpRefused
<1>12. OneAtATime'
  <2>1. Only("setting", p, 1)'
    BY <1>3, <1>9, <1>10, <1>11 DEF Only
  <2> QED
    BY <2>1 DEF OneAtATime
<1>13. /\ peer["agent"].started /\ peer["agent"].remote = "none"
       /\ p = "controller" => peer["controller"].remote = "none"
  <2>1. p = Other(Other(p)) /\ Other(p) \in Peers
    BY PeersAre DEF Other
  <2>2. ~Idle(Other(p))
    BY <1>6, <2>1 DEF Idle
  <2> QED
    BY <2>1, <2>2, PeersAre DEF BInv, Turns, Other
<1>14. t \in SdpTypes /\ t = peer[Other(p)].local /\ AgentSpoke
  <2>1. Head(stream[p]) \in Messages /\ MessageHolds(p, Head(stream[p]))
    BY <1>4, StateFacts
  <2>2. Head(stream[p]).sdp_type \in SdpTypes /\ AgentSpoke
    BY <1>4, <2>1, Fields DEF MessageHolds
  <2> QED
    BY <1>1, <1>6, <2>2 DEF BInv, Roles
<1>15. /\ new.setting # "none" => t = "offer" /\ (new.remote # "none" => new.remote = t)
       /\ new.setting = "offer" => new.remote = "none" \/ p = "agent"
       /\ new.setting \in {"none", "offer", "answer"}
       /\ new.setting = "answer" => SdpTaken(p, t, new)
       /\ new.remote \in {peer[p].remote, t}
  BY <1>2, <1>9, <1>13, <1>14, PeersAre
     DEF SdpFails, SdpTaken, SdpRefused, ImplicitType, SdpTypes, Other
<1>16. CASE p = "agent"
  <2>1. peer["agent"].local = "offer" /\ AwaitsAnswer(peer["agent"])
    <3>1. peer["agent"].local # "none" /\ peer["agent"].local # "answer"
      BY <1>14 DEF AgentSpoke, BInv, Roles
    <3>2. peer["agent"].local \in SdpTypes \cup {"none"}
      BY StateFacts, PeersAre DEF PeerRecord
    <3> QED
      BY <1>13, <3>1, <3>2 DEF AwaitsAnswer, SdpTypes
  <2>2. t = "offer" => ~SdpTaken(p, t, new)
    BY <1>16, <2>1 DEF SdpTaken, Acceptable
  <2>3. new.setting # "answer" /\ new.remote # "offer"
    BY <1>13, <1>14, <1>15, <1>16, <1>2, <2>2 DEF SdpFails, SdpTaken, SdpRefused, SdpTypes
  <2>4. new.setting # "none" => t = "offer" /\ new.remote = "none"
    BY <1>13, <1>15, <1>16, <1>2, <2>2 DEF SdpFails, SdpTaken, SdpRefused
  <2>5. t = peer["controller"].local
    BY <1>14, <1>16 DEF Other
  <2>6. Roles'
    BY <1>2, <1>3, <1>10, <1>16, <2>3, PeersAre DEF BInv, Roles
  <2>7. new.setting # "none" => peer["controller"].remote = "none"
    BY <2>4, <2>5 DEF BInv, Roles
  <2>8. Turns'
    <3>1. Idle("controller")'
      BY <1>3, <1>9, <1>10, <1>11, <1>16, PeersAre DEF Idle
    <3>2. new.setting = "none" => Idle("agent")'
      BY <1>3, <1>10, <1>11, <1>16, PeersAre DEF Idle
    <3> QED
      BY <1>2, <1>3, <1>13, <1>16, <2>4, <2>7, <3>1, <3>2, PeersAre DEF Turns
  <2> QED
    BY <1>12, <2>6, <2>8 DEF BInv
<1>17. CASE p = "controller"
  <2>1. t = "offer"
    BY <1>14, <1>17, PeersAre DEF Other, BInv, Roles, SdpTypes
  <2>2. new.remote # "answer"
    BY <1>13, <1>15, <1>17, <2>1
  <2>3. new.local = "offer" \/ new.setting = "offer" => new.remote = "none"
    <3>1. CASE SdpTaken(p, t, new)
      <4>1. new.setting = "answer" /\ ~AwaitsAnswer(peer[p])
        BY <2>1, <3>1 DEF SdpTaken, Acceptable
      <4>2. peer[p].local # "offer"
        BY <1>13, <1>17, <4>1 DEF AwaitsAnswer
      <4> QED
        BY <1>2, <4>1, <4>2
    <3>2. CASE ~SdpTaken(p, t, new)
      BY <1>2, <1>13, <1>17, <3>2 DEF SdpFails, SdpRefused
    <3> QED
      BY <3>1, <3>2
  <2>4. Roles'
    BY <1>2, <1>3, <1>10, <1>17, <2>2, <2>3, PeersAre DEF BInv, Roles
  <2>5. Idle("agent")'
    BY <1>3, <1>9, <1>10, <1>11, <1>17, PeersAre DEF Idle
  <2>6. Turns'
    BY <1>3, <1>13, <1>17, <2>5, PeersAre DEF Turns
  <2> QED
    BY <1>12, <2>4, <2>6 DEF BInv
<1> QED
  BY <1>16, <1>17, PeersAre

\* Init: the agent comes to set its offer, when nothing else is under way.
LEMMA StartEstablishConnectionBaton ==
  ASSUME IInv, BInv, NEW p \in Peers, StartEstablishConnection(p)
  PROVE  BInv'
<1>1. PICK me : me = peer[p]
  OBVIOUS
<1>2. me \in PeerRecord /\ ~me.started /\ queue' = queue /\ stream' = stream
  BY <1>1, StateFacts DEF StartEstablishConnection
<1>3. \E new : /\ peer' = [peer EXCEPT ![p] = new]
               /\ \/ p = "agent" /\ new = Offering(me)
                  \/ new = InitPeerConncetion(me)
                  \/ \E made \in BOOLEAN : new = NotOffering(me, made)
                  \/ new = Unconnected(me)
  BY <1>1 DEF StartEstablishConnection, IInv, TypeOK
<1>4. PICK new : /\ peer' = [peer EXCEPT ![p] = new]
                 /\ \/ p = "agent" /\ new = Offering(me)
                    \/ new = InitPeerConncetion(me)
                    \/ \E made \in BOOLEAN : new = NotOffering(me, made)
                    \/ new = Unconnected(me)
  BY <1>3
<1>5. /\ new.remote = me.remote /\ new.local = me.local /\ new.started
      /\ new.setting = me.setting \/ (p = "agent" /\ new.setting = "offer")
  BY <1>2, <1>4 DEF PeerRecord, Offering, InitPeerConncetion, NotOffering, Unconnected
<1>6. peer'[p] = new /\ \A q \in Peers \ {p} : peer'[q] = peer[q]
  BY <1>4, OtherPeer
<1>7. CASE new.setting = me.setting
  <2>1. Quiet
    BY <1>1, <1>2, <1>5, <1>6, <1>7, KeptUnchanged DEF Quiet
  <2> QED
    BY <2>1, QuietKeeps
<1>8. CASE p = "agent" /\ new.setting = "offer"
  <2>1. Idle("agent") /\ Idle("controller")
    BY <1>1, <1>2, <1>8 DEF BInv, Turns
  <2>2. /\ \A q \in Peers : SetIn(queue'[q]) = {} /\ DescriptionsIn(stream'[q]) = {}
        /\ peer["controller"].setting = "none"
    BY <1>2, <2>1, PeersAre DEF Idle, Other
  <2>3. OneAtATime'
    <3>1. Only("setting", p, 1)'
      BY <1>6, <1>8, <2>2, PeersAre DEF Only
    <3> QED
      BY <3>1 DEF OneAtATime
  <2>4. Roles'
    BY <1>1, <1>5, <1>6, <1>8, <2>2, PeersAre DEF BInv, Roles
  <2>5. me.remote = "none" /\ peer["controller"].remote = "none"
    <3>1. ~me.connection /\ me.remote = "none"
      BY <1>1, <1>2, StateFacts DEF PeerHolds, PeerRecord
    <3> QED
      BY <1>1, <1>2, <1>8, <3>1 DEF BInv, Turns
  <2>6. Turns'
    BY <1>1, <1>5, <1>6, <1>8, <2>5, PeersAre DEF Turns
  <2> QED
    BY <2>3, <2>4, <2>6 DEF BInv
<1> QED
  BY <1>5, <1>7, <1>8

\* A step in which the queue of one peer gets another event or loses its first one, one
\* stream gets a candidate, loses its first message or ends, and no description changes.
LEMMA QuietStep ==
  ASSUME IInv, NEW p \in Peers, NEW r \in Peers,
         \A q \in Peers : /\ peer'[q].setting = peer[q].setting
                          /\ peer'[q].local = peer[q].local
                          /\ peer'[q].remote = peer[q].remote
                          /\ peer[q].started => peer'[q].started,
         \A q \in Peers \ {p} : queue'[q] = queue[q],
         SetKept(queue[p], queue'[p]),
         \A q \in Peers \ {r} : stream'[q] = stream[q],
         DescriptionsKept(stream[r], stream'[r])
  PROVE  Quiet
BY QuietQueue, QuietStream DEF Quiet

\* Flags of one peer.
LEMMA FlagSet ==
  ASSUME IInv, NEW p \in Peers,
         \/ peer' = peer
         \/ peer' = [peer EXCEPT ![p].linked = TRUE]
         \/ peer' = [peer EXCEPT ![p].announced = TRUE]
         \/ peer' = [peer EXCEPT ![p].channel = TRUE]
         \/ peer' = [peer EXCEPT ![p].ready = TRUE]
         \/ peer' = [peer EXCEPT ![p].error = TRUE]
         \/ peer' = [peer EXCEPT ![p].quit = TRUE]
  PROVE  \A q \in Peers : /\ peer'[q].setting = peer[q].setting
                          /\ peer'[q].local = peer[q].local
                          /\ peer'[q].remote = peer[q].remote
                          /\ peer'[q].started = peer[q].started
                          /\ peer'[q].gathered = peer[q].gathered
                          /\ peer'[q].added = peer[q].added
                          /\ peer'[q].buffer = peer[q].buffer
                          /\ peer[q].ready => peer'[q].ready
                          /\ peer[q].quit => peer'[q].quit
<1>1. PICK me : me = peer[p]
  OBVIOUS
<1>2. me \in PeerRecord /\ peer \in [Peers -> PeerRecord]
  BY <1>1 DEF IInv, TypeOK
<1>3. CASE peer' = peer
  BY <1>3
<1>4. CASE peer' # peer
  <2>1. PICK new \in {[me EXCEPT !.linked = TRUE], [me EXCEPT !.announced = TRUE],
                      [me EXCEPT !.channel = TRUE], [me EXCEPT !.ready = TRUE],
                      [me EXCEPT !.error = TRUE], [me EXCEPT !.quit = TRUE]} :
          peer' = [peer EXCEPT ![p] = new]
    BY <1>1, <1>2, <1>4
  <2>2. peer'[p] = new /\ \A q \in Peers \ {p} : peer'[q] = peer[q]
    BY <2>1, OtherPeer
  <2>3. /\ new.setting = me.setting /\ new.local = me.local /\ new.remote = me.remote
        /\ new.started = me.started /\ new.gathered = me.gathered
        /\ new.added = me.added /\ new.buffer = me.buffer
    BY <1>2, <2>1 DEF PeerRecord
  <2>4. (me.ready => new.ready) /\ (me.quit => new.quit)
    BY <1>2, <2>1 DEF PeerRecord
  <2> QED
    BY <1>1, <2>2, <2>3, <2>4
<1> QED
  BY <1>3, <1>4

\* A candidate is found.
LEMMA OnIceCandidateBaton ==
  ASSUME IInv, BInv, NEW p \in Peers, OnIceCandidate(p)
  PROVE  BInv'
<1>1. PICK me : me = peer[p]
  OBVIOUS
<1>2. /\ me \in PeerRecord /\ me.gathered < MaxCandidates /\ stream' = stream
      /\ peer' = [peer EXCEPT ![p].gathered = @ + 1]
      /\ Post(p, [event |-> "IceCandidate", candidate |-> me.gathered + 1])
  BY <1>1, StateFacts DEF OnIceCandidate
<1>3. PICK new : new = [me EXCEPT !.gathered = me.gathered + 1]
  OBVIOUS
<1>4. peer' = [peer EXCEPT ![p] = new]
  BY <1>1, <1>2, <1>3 DEF IInv, TypeOK
<1>5. /\ new.setting = me.setting /\ new.local = me.local /\ new.remote = me.remote
      /\ new.started = me.started
  BY <1>2, <1>3 DEF PeerRecord
<1>6. \A q \in Peers : /\ peer'[q].setting = peer[q].setting
                       /\ peer'[q].local = peer[q].local
                       /\ peer'[q].remote = peer[q].remote
                       /\ peer[q].started => peer'[q].started
  BY <1>1, <1>4, <1>5, OtherPeer
<1>7. me.gathered + 1 \in Candidates
  BY <1>2, BoundsAssumption DEF PeerRecord, Candidates
<1>8. PICK e \in Events : e.event = "IceCandidate" /\ Post(p, e)
  BY <1>2, <1>7, Fields
<1>9. /\ SetKept(queue[p], queue'[p]) /\ \A q \in Peers \ {p} : queue'[q] = queue[q]
      /\ DescriptionsKept(stream[p], stream'[p])
  BY <1>2, <1>8, PostEffect, SetKeptBy, KeptUnchanged
<1>10. Quiet
  BY <1>2, <1>6, <1>9, QuietStep
<1> QED
  BY <1>10, QuietKeeps

\* The other steps of the library set flags and post events of other kinds.
LEMMA LibraryBaton ==
  ASSUME IInv, BInv, NEW p \in Peers,
         OnConnectionChange(p) \/ OnDataChannel(p) \/ OnConnectionLost(p)
  PROVE  BInv'
<1>1. PICK e \in Events : e.event # "SetLocalSessionSuccess" /\ Post(p, e)
  BY Fields DEF OnConnectionChange, OnDataChannel, OnConnectionLost
<1>2. stream' = stream
  BY DEF OnConnectionChange, OnDataChannel, OnConnectionLost
<1>3. \A q \in Peers : /\ peer'[q].setting = peer[q].setting
                       /\ peer'[q].local = peer[q].local
                       /\ peer'[q].remote = peer[q].remote
                       /\ peer[q].started => peer'[q].started
  BY FlagSet DEF OnConnectionChange, OnDataChannel, OnConnectionLost
<1>4. /\ SetKept(queue[p], queue'[p]) /\ \A q \in Peers \ {p} : queue'[q] = queue[q]
      /\ DescriptionsKept(stream[p], stream'[p])
  BY <1>1, <1>2, PostEffect, SetKeptBy, KeptUnchanged
<1>5. Quiet
  BY <1>2, <1>3, <1>4, QuietStep
<1> QED
  BY <1>5, QuietKeeps

\* A candidate is sent.
LEMMA OnRtcIceCandidateReceivedBaton ==
  ASSUME IInv, BInv, NEW p \in Peers, OnRtcIceCandidateReceived(p)
  PROVE  BInv'
<1>1. Takes(p, "IceCandidate") /\ peer' = peer
  BY DEF OnRtcIceCandidateReceived
<1>2. /\ SetKept(queue[p], queue'[p]) /\ \A q \in Peers \ {p} : queue'[q] = queue[q]
      /\ Head(queue[p]) \in Events /\ Head(queue[p]).event = "IceCandidate"
  BY <1>1, TakeEffect, SetKeptBy
<1>3. PICK m \in Messages : m.type # "ExchangeSessionDescription" /\ SendSignalMsg(p, m)
  BY <1>2, Fields DEF OnRtcIceCandidateReceived
<1>4. PICK r \in Peers : r = Other(p) /\ \A q \in Peers : q \in {p, r}
  BY PeersAre DEF Other
<1>5. /\ DescriptionsKept(stream[r], stream'[r])
      /\ \A q \in Peers \ {r} : stream'[q] = stream[q]
  BY <1>3, <1>4, SendEffect, DescriptionsKeptBy, KeptUnchanged
<1>6. Quiet
  BY <1>1, <1>2, <1>5, QuietStep
<1> QED
  BY <1>6, QuietKeeps

\* The other events set flags, and the stream may end.
LEMMA EventBaton ==
  ASSUME IInv, BInv, NEW p \in Peers,
         \/ OnRtcFailure(p) \/ OnRtcSetRemoteSessionSuccess(p)
         \/ OnPeerConnected(p) \/ OnPeerDisconnected(p) \/ OnRtcOnDataChannel(p)
  PROVE  BInv'
<1>1. PICK name : Takes(p, name)
  BY DEF OnRtcFailure, OnRtcSetRemoteSessionSuccess, OnPeerConnected, OnPeerDisconnected,
         OnRtcOnDataChannel
<1>2. SetKept(queue[p], queue'[p]) /\ \A q \in Peers \ {p} : queue'[q] = queue[q]
  BY <1>1, TakeEffect, SetKeptBy
<1>3. \A q \in Peers : /\ peer'[q].setting = peer[q].setting
                       /\ peer'[q].local = peer[q].local
                       /\ peer'[q].remote = peer[q].remote
                       /\ peer[q].started => peer'[q].started
  BY FlagSet DEF OnRtcFailure, OnRtcSetRemoteSessionSuccess, OnPeerConnected,
                 OnPeerDisconnected, OnRtcOnDataChannel
<1>4. stream' = stream \/ stream' = [stream EXCEPT ![p] = << >>]
  BY DEF OnRtcFailure, OnRtcSetRemoteSessionSuccess, OnPeerConnected, OnPeerDisconnected,
         OnRtcOnDataChannel
<1>5. /\ DescriptionsKept(stream[p], stream'[p])
      /\ \A q \in Peers \ {p} : stream'[q] = stream[q]
  BY <1>4, EndEffect, KeptUnchanged
<1>6. Quiet
  BY <1>2, <1>3, <1>5, QuietStep
<1> QED
  BY <1>6, QuietKeeps

\* What OnRemoteIceCandidateReceived does, field by field.
LEMMA IceEffect ==
  ASSUME IInv, NEW p \in Peers, OnRemoteIceCandidateReceived(p)
  PROVE  \E new : LET c == Head(stream[p]).candidate IN
           /\ c \in Candidates
           /\ peer' = [peer EXCEPT ![p] = new]
           /\ new.started = peer[p].started /\ new.setting = peer[p].setting
           /\ new.local = peer[p].local /\ new.remote = peer[p].remote
           /\ new.gathered = peer[p].gathered
           /\ new.ready = peer[p].ready /\ new.quit = peer[p].quit
           /\ \/ /\ faults' = faults + 1
                 /\ new.added = peer[p].added /\ new.buffer = peer[p].buffer
              \/ /\ faults' = faults /\ peer[p].remote # "none"
                 /\ new.added = Append(peer[p].added, c) /\ new.buffer = peer[p].buffer
              \/ /\ faults' = faults /\ peer[p].remote = "none"
                 /\ new.added = peer[p].added /\ new.buffer = Append(peer[p].buffer, c)
<1>1. PICK me : me = peer[p]
  OBVIOUS
<1>2. PICK c : c = Head(stream[p]).candidate
  OBVIOUS
<1>3. me \in PeerRecord /\ c \in Candidates
  BY <1>1, <1>2, StateFacts, Fields DEF OnRemoteIceCandidateReceived, Receives
<1>4. PICK added : added = Append(me.added, c)
  OBVIOUS
<1>5. PICK buffer : buffer = Append(me.buffer, c)
  OBVIOUS
<1>6. PICK new :
        /\ peer' = [peer EXCEPT ![p] = new]
        /\ \/ faults' = faults + 1 /\ new = [me EXCEPT !.error = TRUE]
           \/ faults' = faults /\ me.remote # "none" /\ new = [me EXCEPT !.added = added]
           \/ faults' = faults /\ me.remote = "none" /\ new = [me EXCEPT !.buffer = buffer]
  <2>1. \/ Outcome(TRUE) /\ peer' = [peer EXCEPT ![p].error = TRUE]
        \/ \E ok \in BOOLEAN :
             /\ ok \/ me.remote # "none"
             /\ Outcome(~ok)
             /\ peer' = [peer EXCEPT ![p] = TakeCandidate(me, c, ok)]
    BY <1>1, <1>2 DEF OnRemoteIceCandidateReceived
  <2>2. CASE Outcome(TRUE) /\ peer' = [peer EXCEPT ![p].error = TRUE]
    <3>1. PICK new : new = [me EXCEPT !.error = TRUE]
      OBVIOUS
    <3>2. faults' = faults + 1 /\ peer' = [peer EXCEPT ![p] = new]
      BY <1>1, <2>2, <3>1 DEF IInv, TypeOK, Outcome
    <3> QED
      BY <3>1, <3>2
  <2>3. ASSUME NEW ok \in BOOLEAN, ok \/ me.remote # "none", Outcome(~ok),
               peer' = [peer EXCEPT ![p] = TakeCandidate(me, c, ok)]
        PROVE  \E new :
          /\ peer' = [peer EXCEPT ![p] = new]
          /\ \/ faults' = faults + 1 /\ new = [me EXCEPT !.error = TRUE]
             \/ faults' = faults /\ me.remote # "none" /\ new = [me EXCEPT !.added = added]
             \/ faults' = faults /\ me.remote = "none" /\ new = [me EXCEPT !.buffer = buffer]
    <3>1. PICK new : new = TakeCandidate(me, c, ok)
      OBVIOUS
    <3>2. \/ ~ok /\ new = [me EXCEPT !.error = TRUE]
          \/ ok /\ me.remote # "none" /\ new = [me EXCEPT !.added = added]
          \/ ok /\ me.remote = "none" /\ new = [me EXCEPT !.buffer = buffer]
      BY <1>4, <1>5, <2>3, <3>1 DEF TakeCandidate
    <3>3. faults' = IF ok THEN faults ELSE faults + 1
      BY <2>3 DEF Outcome
    <3> QED
      BY <2>3, <3>1, <3>2, <3>3
  <2> QED
    BY <2>1, <2>2, <2>3
<1>7. /\ new.started = me.started /\ new.setting = me.setting /\ new.local = me.local
      /\ new.remote = me.remote /\ new.gathered = me.gathered
      /\ new.ready = me.ready /\ new.quit = me.quit
  BY <1>3, <1>6 DEF PeerRecord
<1>8. \/ faults' = faults + 1 /\ new.added = me.added /\ new.buffer = me.buffer
      \/ /\ faults' = faults /\ me.remote # "none"
         /\ new.added = added /\ new.buffer = me.buffer
      \/ /\ faults' = faults /\ me.remote = "none"
         /\ new.added = me.added /\ new.buffer = buffer
  BY <1>3, <1>6 DEF PeerRecord
<1> QED
  BY <1>1, <1>2, <1>3, <1>4, <1>5, <1>6, <1>7, <1>8, Zenon

\* A candidate of the partner is taken from the stream.
LEMMA OnRemoteIceCandidateReceivedBaton ==
  ASSUME IInv, BInv, NEW p \in Peers, OnRemoteIceCandidateReceived(p)
  PROVE  BInv'
<1>1. PICK new :
        /\ peer' = [peer EXCEPT ![p] = new]
        /\ new.started = peer[p].started /\ new.setting = peer[p].setting
        /\ new.local = peer[p].local /\ new.remote = peer[p].remote
  BY IceEffect
<1>2. \A q \in Peers : /\ peer'[q].setting = peer[q].setting
                       /\ peer'[q].local = peer[q].local
                       /\ peer'[q].remote = peer[q].remote
                       /\ peer[q].started => peer'[q].started
  BY <1>1, OtherPeer
<1>3. /\ DescriptionsKept(stream[p], stream'[p])
      /\ \A q \in Peers \ {p} : stream'[q] = stream[q]
  BY ConsumeEffect, DescriptionsKeptBy DEF OnRemoteIceCandidateReceived, Receives
<1>4. queue' = queue /\ SetKept(queue[p], queue'[p])
  BY KeptUnchanged DEF OnRemoteIceCandidateReceived
<1>5. Quiet
  BY <1>2, <1>3, <1>4, QuietStep
<1> QED
  BY <1>5, QuietKeeps

\* Without a connection the process ends.
LEMMA SlotWithoutConnectionBaton ==
  ASSUME IInv, BInv, NEW p \in Peers, SlotWithoutConnection(p)
  PROVE  BInv'
<1>1. \A q \in Peers : /\ peer'[q].setting = peer[q].setting
                       /\ peer'[q].local = peer[q].local
                       /\ peer'[q].remote = peer[q].remote
                       /\ peer[q].started => peer'[q].started
  BY FlagSet DEF SlotWithoutConnection
<1>2. /\ DescriptionsKept(stream[p], stream'[p])
      /\ \A q \in Peers \ {p} : stream'[q] = stream[q]
      /\ queue' = queue /\ SetKept(queue[p], queue'[p])
  BY EndEffect, KeptUnchanged DEF SlotWithoutConnection
<1>3. Quiet
  BY <1>1, <1>2, QuietStep
<1> QED
  BY <1>3, QuietKeeps

\* At the start no description is on its way.
LEMMA InitBaton == Init => BInv
<1> SUFFICES ASSUME Init PROVE BInv
  OBVIOUS
<1>1. \A p \in Peers : /\ peer[p].setting = "none" /\ peer[p].local = "none"
                       /\ peer[p].remote = "none"
                       /\ SetIn(queue[p]) = {} /\ DescriptionsIn(stream[p]) = {}
  BY DEF Init, SetIn, DescriptionsIn
<1>2. OneAtATime
  <2>1. Only("setting", "agent", 1)
    BY <1>1 DEF Only
  <2> QED
    BY <2>1, PeersAre DEF OneAtATime
<1>3. \A p \in Peers : Idle(p)
  BY <1>1, PeersAre DEF Idle
<1> QED
  BY <1>1, <1>2, <1>3, PeersAre DEF BInv, Roles, Turns

\* Every step keeps it.
LEMMA NextBaton == IInv /\ BInv /\ [Next]_vars => BInv'
<1> SUFFICES ASSUME IInv, BInv, [Next]_vars PROVE BInv'
  OBVIOUS
<1>1. CASE UNCHANGED vars
  <2>1. peer' = peer /\ queue' = queue /\ stream' = stream
    BY <1>1 DEF vars
  <2>2. Quiet
    BY <2>1, KeptUnchanged DEF Quiet
  <2> QED
    BY <2>2, QuietKeeps
<1>2. ASSUME NEW p \in Peers, Library(p) PROVE BInv'
  BY <1>2, LocalDescriptionSetBaton, LibraryBaton DEF Library
<1>3. ASSUME NEW p \in Peers, QueuedEvent(p) PROVE BInv'
  BY <1>3, OnRtcSetLocalSessionSuccessBaton, OnRtcIceCandidateReceivedBaton, EventBaton
     DEF QueuedEvent
<1>4. ASSUME NEW p \in Peers, StreamMessage(p) PROVE BInv'
  BY <1>4, StartEstablishConnectionBaton, OnRemoteSdpReceivedBaton,
     OnRemoteIceCandidateReceivedBaton, SlotWithoutConnectionBaton DEF StreamMessage
<1> QED
  BY <1>1, <1>2, <1>3, <1>4, OnIceCandidateBaton, LibraryBaton DEF Next

-----------------------------------------------------------------------------
(* The candidates on their way *)

FoundIn(q) == {k \in DOMAIN q : q[k].event = "IceCandidate"}
SentIn(q) == {k \in DOMAIN q : q[k].type = "ExchangeIceCandidate"}

\* At places of a sequence there are candidates above low and up to high, in order;
\* all of them.
Ascends(q, places, low, high) ==
  /\ \A k \in places : low < q[k].candidate /\ q[k].candidate <= high
  /\ \A j, k \in places : j < k => q[j].candidate < q[k].candidate
Covers(q, places, low, high) ==
  \A c \in low + 1..high : \E k \in places : q[k].candidate = c

\* The same candidates at other places.
LEMMA SamePlaces ==
  ASSUME NEW q, NEW new, NEW K \in SUBSET Int, NEW L \in SUBSET Int, NEW d \in Int,
         \A k \in L : k + d \in K /\ new[k].candidate = q[k + d].candidate,
         \A k \in K : k - d \in L
  PROVE  \A low, high : /\ Ascends(q, K, low, high) => Ascends(new, L, low, high)
                        /\ Covers(q, K, low, high) => Covers(new, L, low, high)
<1>1. ASSUME NEW low, NEW high, Ascends(q, K, low, high) PROVE Ascends(new, L, low, high)
  <2>1. ASSUME NEW j \in L, NEW k \in L, j < k PROVE new[j].candidate < new[k].candidate
    <3>1. j + d < k + d
      BY <2>1
    <3> QED
      BY <1>1, <3>1 DEF Ascends
  <2> QED
    BY <1>1, <2>1 DEF Ascends
<1>2. ASSUME NEW low, NEW high, Covers(q, K, low, high), NEW c \in low + 1..high
      PROVE  \E k \in L : new[k].candidate = c
  <2>1. PICK k \in K : q[k].candidate = c
    BY <1>2 DEF Covers
  <2>2. k - d \in L /\ (k - d) + d = k
    OBVIOUS
  <2> QED
    BY <2>1, <2>2
<1> QED
  BY <1>1, <1>2 DEF Covers

\* A later candidate at a later place.
LEMMA LastPlace ==
  ASSUME NEW q, NEW new, NEW K \in SUBSET Int, NEW n \in Int,
         \A k \in K : /\ k < n /\ new[k].candidate = q[k].candidate
                      /\ q[k].candidate \in Int,
         NEW low \in Int, NEW high \in Int, low <= high, Ascends(q, K, low, high),
         new[n].candidate \in Int, high < new[n].candidate
  PROVE  /\ Ascends(new, K \cup {n}, low, new[n].candidate)
         /\ Covers(q, K, low, high) /\ new[n].candidate = high + 1
              => Covers(new, K \cup {n}, low, new[n].candidate)
<1>1. PICK c \in Int : c = new[n].candidate
  OBVIOUS
<1>2. \A k \in K : new[k].candidate \in Int /\ low < new[k].candidate /\ new[k].candidate < c
  <2>1. ASSUME NEW k \in K
        PROVE  new[k].candidate \in Int /\ low < new[k].candidate /\ new[k].candidate < c
    <3>1. PICK e \in Int : e = q[k].candidate
      OBVIOUS
    <3>2. low < e /\ e <= high
      BY <3>1 DEF Ascends
    <3> QED
      BY <1>1, <3>1, <3>2
  <2> QED
    BY <2>1
<1>3. ASSUME NEW j \in K \cup {n}, NEW k \in K \cup {n}, j < k
      PROVE  new[j].candidate < new[k].candidate
  <2>1. j \in K
    BY <1>3
  <2>2. CASE k \in K
    BY <1>3, <2>1, <2>2 DEF Ascends
  <2>3. CASE k = n
    BY <1>1, <1>2, <2>1, <2>3
  <2> QED
    BY <2>2, <2>3
<1>4. \A k \in K \cup {n} : low < new[k].candidate /\ new[k].candidate <= c
  BY <1>1, <1>2
<1>5. ASSUME Covers(q, K, low, high), c = high + 1
      PROVE  Covers(new, K \cup {n}, low, c)
  <2>1. ASSUME NEW x \in low + 1..c PROVE \E k \in K \cup {n} : new[k].candidate = x
    <3>1. CASE x = c
      BY <1>1, <3>1
    <3>2. CASE x # c
      <4>1. x \in low + 1..high
        BY <1>5, <3>2
      <4> QED
        BY <1>5, <4>1 DEF Covers
    <3> QED
      BY <3>1, <3>2
  <2> QED
    BY <2>1 DEF Covers
<1> QED
  BY <1>1, <1>3, <1>4, <1>5 DEF Ascends

\* The first candidate is gone.
LEMMA FirstPlace ==
  ASSUME NEW q, NEW new, NEW K \in SUBSET Int, NEW L \in SUBSET Int,
         1 \in K, \A k \in K : k = 1 \/ k - 1 \in L,
         \A k \in L : 1 <= k /\ k + 1 \in K /\ new[k].candidate = q[k + 1].candidate,
         \A k \in K : q[k].candidate \in Int,
         NEW low \in Int, NEW high \in Int, Ascends(q, K, low, high)
  PROVE  /\ low < q[1].candidate /\ q[1].candidate <= high
         /\ Ascends(new, L, q[1].candidate, high) /\ Ascends(new, L, low, high)
         /\ Covers(q, K, low, high) =>
              q[1].candidate = low + 1 /\ Covers(new, L, q[1].candidate, high)
<1>1. PICK c \in Int : c = q[1].candidate
  OBVIOUS
<1>2. low < c /\ c <= high
  BY <1>1 DEF Ascends
<1>3. ASSUME NEW k \in L
      PROVE  /\ new[k].candidate \in Int /\ c < new[k].candidate
             /\ low < new[k].candidate /\ new[k].candidate <= high
  <2>1. k + 1 \in K /\ 1 < k + 1
    OBVIOUS
  <2> QED
    BY <1>1, <2>1 DEF Ascends
<1>4. ASSUME NEW j \in L, NEW k \in L, j < k PROVE new[j].candidate < new[k].candidate
  <2>1. j + 1 < k + 1
    BY <1>4
  <2> QED
    BY <2>1 DEF Ascends
<1>5. ASSUME Covers(q, K, low, high) PROVE c = low + 1 /\ Covers(new, L, c, high)
  <2>1. ASSUME NEW x \in low + 1..high, x # c PROVE \E k \in L : new[k].candidate = x
    <3>1. PICK k \in K : q[k].candidate = x
      BY <1>5 DEF Covers
    <3>2. k - 1 \in L /\ (k - 1) + 1 = k
      BY <1>1, <2>1, <3>1
    <3> QED
      BY <3>1, <3>2
  <2>2. c = low + 1
    <3>1. SUFFICES ASSUME low + 1 # c PROVE FALSE
      OBVIOUS
    <3>2. low + 1 \in low + 1..high
      BY <1>2
    <3>3. PICK k \in L : new[k].candidate = low + 1
      BY <2>1, <3>1, <3>2
    <3> QED
      BY <1>2, <1>3, <3>3
  <2>3. ASSUME NEW x \in c + 1..high PROVE \E k \in L : new[k].candidate = x
    <3>1. x \in low + 1..high /\ x # c
      BY <1>2, <2>3
    <3> QED
      BY <2>1, <3>1
  <2> QED
    BY <2>2, <2>3 DEF Covers
<1> QED
  BY <1>1, <1>2, <1>3, <1>4, <1>5 DEF Ascends

\* The candidates of a queue are there after a step as before.
QueueStays(old, new) ==
  \A low, high :
    /\ Ascends(old, FoundIn(old), low, high) => Ascends(new, FoundIn(new), low, high)
    /\ Covers(old, FoundIn(old), low, high) => Covers(new, FoundIn(new), low, high)

\* Something else is appended to a queue or taken from it.
LEMMA QueueStaysBy ==
  ASSUME NEW old, NEW new
  PROVE  /\ \A e : IsAppend(old, new, e) /\ e.event # "IceCandidate" => QueueStays(old, new)
         /\ IsTail(old, new) /\ old[1].event # "IceCandidate" => QueueStays(old, new)
<1>1. ASSUME NEW e, IsAppend(old, new, e), e.event # "IceCandidate" PROVE QueueStays(old, new)
  <2>1. PICK n \in Nat : /\ DOMAIN old = 1..n /\ DOMAIN new = 1..n + 1
                         /\ new[n + 1] = e /\ \A k \in 1..n : new[k] = old[k]
    BY <1>1 DEF IsAppend
  <2>2. FoundIn(old) \in SUBSET Int /\ FoundIn(new) \in SUBSET Int
    BY <2>1 DEF FoundIn
  <2>3. ASSUME NEW k \in FoundIn(new)
        PROVE  k + 0 \in FoundIn(old) /\ new[k].candidate = old[k + 0].candidate
    <3>1. k \in 1..n + 1 /\ new[k].event = "IceCandidate"
      BY <2>1, <2>3 DEF FoundIn
    <3>2. k \in 1..n /\ k + 0 = k
      BY <1>1, <2>1, <3>1
    <3> QED
      BY <2>1, <3>1, <3>2 DEF FoundIn
  <2>4. ASSUME NEW k \in FoundIn(old) PROVE k - 0 \in FoundIn(new)
    <3>1. k \in 1..n /\ old[k].event = "IceCandidate"
      BY <2>1, <2>4 DEF FoundIn
    <3>2. k \in 1..n + 1 /\ k - 0 = k
      BY <3>1
    <3> QED
      BY <2>1, <3>1, <3>2 DEF FoundIn
  <2> QED
    <3>1. PICK d \in Int : d = 0
      OBVIOUS
    <3>2. PICK K \in SUBSET Int : K = FoundIn(old)
      BY <2>2
    <3>3. PICK L \in SUBSET Int : L = FoundIn(new)
      BY <2>2
    <3>4. \A k \in L : k + d \in K /\ new[k].candidate = old[k + d].candidate
      BY <2>3, <3>1, <3>2, <3>3
    <3>5. \A k \in K : k - d \in L
      BY <2>4, <3>1, <3>2, <3>3
    <3>6. \A low, high : /\ Ascends(old, K, low, high) => Ascends(new, L, low, high)
                         /\ Covers(old, K, low, high) => Covers(new, L, low, high)
      BY <3>4, <3>5, SamePlaces
    <3> QED
      BY <3>2, <3>3, <3>6 DEF QueueStays
<1>2. ASSUME IsTail(old, new), old[1].event # "IceCandidate" PROVE QueueStays(old, new)
  <2>1. PICK n \in Nat : /\ DOMAIN old = 1..n + 1 /\ DOMAIN new = 1..n
                         /\ \A k \in 1..n : new[k] = old[k + 1]
    BY <1>2 DEF IsTail
  <2>2. FoundIn(old) \in SUBSET Int /\ FoundIn(new) \in SUBSET Int
    BY <2>1 DEF FoundIn
  <2>3. ASSUME NEW k \in FoundIn(new)
        PROVE  k + 1 \in FoundIn(old) /\ new[k].candidate = old[k + 1].candidate
    <3>1. k \in 1..n /\ new[k].event = "IceCandidate"
      BY <2>1, <2>3 DEF FoundIn
    <3>2. k + 1 \in 1..n + 1
      BY <3>1
    <3> QED
      BY <2>1, <3>1, <3>2 DEF FoundIn
  <2>4. ASSUME NEW k \in FoundIn(old) PROVE k - 1 \in FoundIn(new)
    <3>1. k \in 1..n + 1 /\ old[k].event = "IceCandidate" /\ k # 1
      BY <1>2, <2>1, <2>4 DEF FoundIn
    <3>2. k - 1 \in 1..n /\ (k - 1) + 1 = k
      BY <3>1
    <3>3. new[k - 1] = old[k]
      BY <2>1, <3>2
    <3> QED
      BY <2>1, <3>1, <3>2, <3>3 DEF FoundIn
  <2> QED
    <3>1. PICK d \in Int : d = 1
      OBVIOUS
    <3>2. PICK K \in SUBSET Int : K = FoundIn(old)
      BY <2>2
    <3>3. PICK L \in SUBSET Int : L = FoundIn(new)
      BY <2>2
    <3>4. \A k \in L : k + d \in K /\ new[k].candidate = old[k + d].candidate
      BY <2>3, <3>1, <3>2, <3>3
    <3>5. \A k \in K : k - d \in L
      BY <2>4, <3>1, <3>2, <3>3
    <3>6. \A low, high : /\ Ascends(old, K, low, high) => Ascends(new, L, low, high)
                         /\ Covers(old, K, low, high) => Covers(new, L, low, high)
      BY <3>4, <3>5, SamePlaces
    <3> QED
      BY <3>2, <3>3, <3>6 DEF QueueStays
<1> QED
  BY <1>1, <1>2

\* A candidate comes last in a queue.
LEMMA QueueGains ==
  ASSUME NEW old, NEW new, NEW e, IsAppend(old, new, e), e.event = "IceCandidate",
         \A k \in FoundIn(old) : old[k].candidate \in Int,
         NEW low \in Int, NEW high \in Int, low <= high,
         Ascends(old, FoundIn(old), low, high),
         NEW c \in Int, c = e.candidate, high < c
  PROVE  /\ Ascends(new, FoundIn(new), low, c)
         /\ Covers(old, FoundIn(old), low, high) /\ c = high + 1
              => Covers(new, FoundIn(new), low, c)
<1>1. PICK n \in Nat : /\ DOMAIN old = 1..n /\ DOMAIN new = 1..n + 1
                       /\ new[n + 1] = e /\ \A k \in 1..n : new[k] = old[k]
  BY DEF IsAppend
<1>2. FoundIn(old) \in SUBSET Int /\ n + 1 \in Int
  BY <1>1 DEF FoundIn
<1>3. ASSUME NEW k \in FoundIn(old) PROVE k < n + 1 /\ new[k].candidate = old[k].candidate
  <2>1. k \in 1..n
    BY <1>1, <1>3 DEF FoundIn
  <2> QED
    BY <1>1, <2>1
<1>4. FoundIn(new) = FoundIn(old) \cup {n + 1}
  <2>1. ASSUME NEW k \in FoundIn(new) PROVE k \in FoundIn(old) \cup {n + 1}
    <3>1. k \in 1..n + 1 /\ new[k].event = "IceCandidate"
      BY <1>1, <2>1 DEF FoundIn
    <3>2. CASE k \in 1..n
      BY <1>1, <3>1, <3>2 DEF FoundIn
    <3>3. CASE k \notin 1..n
      BY <3>1, <3>3
    <3> QED
      BY <3>2, <3>3
  <2>2. ASSUME NEW k \in FoundIn(old) PROVE k \in FoundIn(new)
    <3>1. k \in 1..n /\ old[k].event = "IceCandidate"
      BY <1>1, <2>2 DEF FoundIn
    <3>2. k \in 1..n + 1
      BY <3>1
    <3> QED
      BY <1>1, <3>1, <3>2 DEF FoundIn
  <2>3. n + 1 \in FoundIn(new)
    <3>1. n + 1 \in 1..n + 1
      OBVIOUS
    <3> QED
      BY <1>1, <3>1 DEF FoundIn
  <2> QED
    BY <2>1, <2>2, <2>3
<1>5. new[n + 1].candidate = c
  BY <1>1
<1> QED
  <2>1. PICK m \in Int : m = n + 1
    BY <1>2
  <2>2. PICK K \in SUBSET Int : K = FoundIn(old)
    BY <1>2
  <2>3. \A k \in K : /\ k < m /\ new[k].candidate = old[k].candidate
                     /\ old[k].candidate \in Int
    BY <1>3, <2>1, <2>2
  <2>4. /\ new[m].candidate \in Int /\ high < new[m].candidate
        /\ Ascends(old, K, low, high)
    BY <1>5, <2>1, <2>2
  <2>5. /\ Ascends(new, K \cup {m}, low, new[m].candidate)
        /\ Covers(old, K, low, high) /\ new[m].candidate = high + 1
             => Covers(new, K \cup {m}, low, new[m].candidate)
    BY <2>3, <2>4, LastPlace
  <2> QED
    BY <1>4, <1>5, <2>1, <2>2, <2>5

\* The first one of a queue is a candidate, and is taken.
LEMMA QueueGives ==
  ASSUME NEW old, NEW new, IsTail(old, new), old[1].event = "IceCandidate",
         \A k \in FoundIn(old) : old[k].candidate \in Int,
         NEW low \in Int, NEW high \in Int, Ascends(old, FoundIn(old), low, high),
         NEW c \in Int, c = old[1].candidate
  PROVE  /\ low < c /\ c <= high
         /\ Ascends(new, FoundIn(new), c, high) /\ Ascends(new, FoundIn(new), low, high)
         /\ Covers(old, FoundIn(old), low, high) =>
              c = low + 1 /\ Covers(new, FoundIn(new), c, high)
<1>1. PICK n \in Nat : /\ DOMAIN old = 1..n + 1 /\ DOMAIN new = 1..n
                       /\ \A k \in 1..n : new[k] = old[k + 1]
  BY DEF IsTail
<1>2. FoundIn(old) \in SUBSET Int /\ FoundIn(new) \in SUBSET Int
  BY <1>1 DEF FoundIn
<1>3. 1 \in FoundIn(old)
  <2>1. 1 \in 1..n + 1
    OBVIOUS
  <2> QED
    BY <1>1, <2>1 DEF FoundIn
<1>4. ASSUME NEW k \in FoundIn(old) PROVE k = 1 \/ k - 1 \in FoundIn(new)
  <2>1. SUFFICES ASSUME k # 1 PROVE k - 1 \in FoundIn(new)
    OBVIOUS
  <2>2. k \in 1..n + 1 /\ old[k].event = "IceCandidate"
    BY <1>1, <1>4 DEF FoundIn
  <2>3. k - 1 \in 1..n /\ (k - 1) + 1 = k
    BY <2>1, <2>2
  <2>4. new[k - 1] = old[k]
    BY <1>1, <2>3
  <2> QED
    BY <1>1, <2>2, <2>3, <2>4 DEF FoundIn
<1>5. ASSUME NEW k \in FoundIn(new)
      PROVE  1 <= k /\ k + 1 \in FoundIn(old) /\ new[k].candidate = old[k + 1].candidate
  <2>1. k \in 1..n /\ new[k].event = "IceCandidate"
    BY <1>1, <1>5 DEF FoundIn
  <2>2. k + 1 \in 1..n + 1 /\ 1 <= k
    BY <2>1
  <2> QED
    BY <1>1, <2>1, <2>2 DEF FoundIn
<1> QED
  <2>1. PICK K \in SUBSET Int : K = FoundIn(old)
    BY <1>2
  <2>2. PICK L \in SUBSET Int : L = FoundIn(new)
    BY <1>2
  <2>3. /\ 1 \in K /\ \A k \in K : k = 1 \/ k - 1 \in L
        /\ \A k \in L : 1 <= k /\ k + 1 \in K /\ new[k].candidate = old[k + 1].candidate
        /\ \A k \in K : old[k].candidate \in Int
        /\ Ascends(old, K, low, high)
    BY <1>3, <1>4, <1>5, <2>1, <2>2
  <2>4. /\ low < old[1].candidate /\ old[1].candidate <= high
        /\ Ascends(new, L, old[1].candidate, high) /\ Ascends(new, L, low, high)
        /\ Covers(old, K, low, high) =>
             old[1].candidate = low + 1 /\ Covers(new, L, old[1].candidate, high)
    BY <2>3, FirstPlace
  <2> QED
    BY <2>1, <2>2, <2>4

\* The candidates of a stream are there after a step as before.
StreamStays(old, new) ==
  \A low, high :
    /\ Ascends(old, SentIn(old), low, high) => Ascends(new, SentIn(new), low, high)
    /\ Covers(old, SentIn(old), low, high) => Covers(new, SentIn(new), low, high)

\* Something else is appended to a stream or taken from it.
LEMMA StreamStaysBy ==
  ASSUME NEW old, NEW new
  PROVE  /\ \A e : IsAppend(old, new, e) /\ e.type # "ExchangeIceCandidate" => StreamStays(old, new)
         /\ IsTail(old, new) /\ old[1].type # "ExchangeIceCandidate" => StreamStays(old, new)
<1>1. ASSUME NEW e, IsAppend(old, new, e), e.type # "ExchangeIceCandidate"
      PROVE  StreamStays(old, new)
  <2>1. PICK n \in Nat : /\ DOMAIN old = 1..n /\ DOMAIN new = 1..n + 1
                         /\ new[n + 1] = e /\ \A k \in 1..n : new[k] = old[k]
    BY <1>1 DEF IsAppend
  <2>2. SentIn(old) \in SUBSET Int /\ SentIn(new) \in SUBSET Int
    BY <2>1 DEF SentIn
  <2>3. ASSUME NEW k \in SentIn(new)
        PROVE  k + 0 \in SentIn(old) /\ new[k].candidate = old[k + 0].candidate
    <3>1. k \in 1..n + 1 /\ new[k].type = "ExchangeIceCandidate"
      BY <2>1, <2>3 DEF SentIn
    <3>2. k \in 1..n /\ k + 0 = k
      BY <1>1, <2>1, <3>1
    <3> QED
      BY <2>1, <3>1, <3>2 DEF SentIn
  <2>4. ASSUME NEW k \in SentIn(old) PROVE k - 0 \in SentIn(new)
    <3>1. k \in 1..n /\ old[k].type = "ExchangeIceCandidate"
      BY <2>1, <2>4 DEF SentIn
    <3>2. k \in 1..n + 1 /\ k - 0 = k
      BY <3>1
    <3> QED
      BY <2>1, <3>1, <3>2 DEF SentIn
  <2> QED
    <3>1. PICK d \in Int : d = 0
      OBVIOUS
    <3>2. PICK K \in SUBSET Int : K = SentIn(old)
      BY <2>2
    <3>3. PICK L \in SUBSET Int : L = SentIn(new)
      BY <2>2
    <3>4. \A k \in L : k + d \in K /\ new[k].candidate = old[k + d].candidate
      BY <2>3, <3>1, <3>2, <3>3
    <3>5. \A k \in K : k - d \in L
      BY <2>4, <3>1, <3>2, <3>3
    <3>6. \A low, high : /\ Ascends(old, K, low, high) => Ascends(new, L, low, high)
                         /\ Covers(old, K, low, high) => Covers(new, L, low, high)
      BY <3>4, <3>5, SamePlaces
    <3> QED
      BY <3>2, <3>3, <3>6 DEF StreamStays
<1>2. ASSUME IsTail(old, new), old[1].type # "ExchangeIceCandidate" PROVE StreamStays(old, new)
  <2>1. PICK n \in Nat : /\ DOMAIN old = 1..n + 1 /\ DOMAIN new = 1..n
                         /\ \A k \in 1..n : new[k] = old[k + 1]
    BY <1>2 DEF IsTail
  <2>2. SentIn(old) \in SUBSET Int /\ SentIn(new) \in SUBSET Int
    BY <2>1 DEF SentIn
  <2>3. ASSUME NEW k \in SentIn(new)
        PROVE  k + 1 \in SentIn(old) /\ new[k].candidate = old[k + 1].candidate
    <3>1. k \in 1..n /\ new[k].type = "ExchangeIceCandidate"
      BY <2>1, <2>3 DEF SentIn
    <3>2. k + 1 \in 1..n + 1
      BY <3>1
    <3> QED
      BY <2>1, <3>1, <3>2 DEF SentIn
  <2>4. ASSUME NEW k \in SentIn(old) PROVE k - 1 \in SentIn(new)
    <3>1. k \in 1..n + 1 /\ old[k].type = "ExchangeIceCandidate" /\ k # 1
      BY <1>2, <2>1, <2>4 DEF SentIn
    <3>2. k - 1 \in 1..n /\ (k - 1) + 1 = k
      BY <3>1
    <3>3. new[k - 1] = old[k]
      BY <2>1, <3>2
    <3> QED
      BY <2>1, <3>1, <3>2, <3>3 DEF SentIn
  <2> QED
    <3>1. PICK d \in Int : d = 1
      OBVIOUS
    <3>2. PICK K \in SUBSET Int : K = SentIn(old)
      BY <2>2
    <3>3. PICK L \in SUBSET Int : L = SentIn(new)
      BY <2>2
    <3>4. \A k \in L : k + d \in K /\ new[k].candidate = old[k + d].candidate
      BY <2>3, <3>1, <3>2, <3>3
    <3>5. \A k \in K : k - d \in L
      BY <2>4, <3>1, <3>2, <3>3
    <3>6. \A low, high : /\ Ascends(old, K, low, high) => Ascends(new, L, low, high)
                         /\ Covers(old, K, low, high) => Covers(new, L, low, high)
      BY <3>4, <3>5, SamePlaces
    <3> QED
      BY <3>2, <3>3, <3>6 DEF StreamStays
<1> QED
  BY <1>1, <1>2

\* A candidate comes last in a stream.
LEMMA StreamGains ==
  ASSUME NEW old, NEW new, NEW e, IsAppend(old, new, e), e.type = "ExchangeIceCandidate",
         \A k \in SentIn(old) : old[k].candidate \in Int,
         NEW low \in Int, NEW high \in Int, low <= high,
         Ascends(old, SentIn(old), low, high),
         NEW c \in Int, c = e.candidate, high < c
  PROVE  /\ Ascends(new, SentIn(new), low, c)
         /\ Covers(old, SentIn(old), low, high) /\ c = high + 1
              => Covers(new, SentIn(new), low, c)
<1>1. PICK n \in Nat : /\ DOMAIN old = 1..n /\ DOMAIN new = 1..n + 1
                       /\ new[n + 1] = e /\ \A k \in 1..n : new[k] = old[k]
  BY DEF IsAppend
<1>2. SentIn(old) \in SUBSET Int /\ n + 1 \in Int
  BY <1>1 DEF SentIn
<1>3. ASSUME NEW k \in SentIn(old) PROVE k < n + 1 /\ new[k].candidate = old[k].candidate
  <2>1. k \in 1..n
    BY <1>1, <1>3 DEF SentIn
  <2> QED
    BY <1>1, <2>1
<1>4. SentIn(new) = SentIn(old) \cup {n + 1}
  <2>1. ASSUME NEW k \in SentIn(new) PROVE k \in SentIn(old) \cup {n + 1}
    <3>1. k \in 1..n + 1 /\ new[k].type = "ExchangeIceCandidate"
      BY <1>1, <2>1 DEF SentIn
    <3>2. CASE k \in 1..n
      BY <1>1, <3>1, <3>2 DEF SentIn
    <3>3. CASE k \notin 1..n
      BY <3>1, <3>3
    <3> QED
      BY <3>2, <3>3
  <2>2. ASSUME NEW k \in SentIn(old) PROVE k \in SentIn(new)
    <3>1. k \in 1..n /\ old[k].type = "ExchangeIceCandidate"
      BY <1>1, <2>2 DEF SentIn
    <3>2. k \in 1..n + 1
      BY <3>1
    <3> QED
      BY <1>1, <3>1, <3>2 DEF SentIn
  <2>3. n + 1 \in SentIn(new)
    <3>1. n + 1 \in 1..n + 1
      OBVIOUS
    <3> QED
      BY <1>1, <3>1 DEF SentIn
  <2> QED
    BY <2>1, <2>2, <2>3
<1>5. new[n + 1].candidate = c
  BY <1>1
<1> QED
  <2>1. PICK m \in Int : m = n + 1
    BY <1>2
  <2>2. PICK K \in SUBSET Int : K = SentIn(old)
    BY <1>2
  <2>3. \A k \in K : /\ k < m /\ new[k].candidate = old[k].candidate
                     /\ old[k].candidate \in Int
    BY <1>3, <2>1, <2>2
  <2>4. /\ new[m].candidate \in Int /\ high < new[m].candidate
        /\ Ascends(old, K, low, high)
    BY <1>5, <2>1, <2>2
  <2>5. /\ Ascends(new, K \cup {m}, low, new[m].candidate)
        /\ Covers(old, K, low, high) /\ new[m].candidate = high + 1
             => Covers(new, K \cup {m}, low, new[m].candidate)
    BY <2>3, <2>4, LastPlace
  <2> QED
    BY <1>4, <1>5, <2>1, <2>2, <2>5

\* The first one of a stream is a candidate, and is taken.
LEMMA StreamGives ==
  ASSUME NEW old, NEW new, IsTail(old, new), old[1].type = "ExchangeIceCandidate",
         \A k \in SentIn(old) : old[k].candidate \in Int,
         NEW low \in Int, NEW high \in Int, Ascends(old, SentIn(old), low, high),
         NEW c \in Int, c = old[1].candidate
  PROVE  /\ low < c /\ c <= high
         /\ Ascends(new, SentIn(new), c, high) /\ Ascends(new, SentIn(new), low, high)
         /\ Covers(old, SentIn(old), low, high) =>
              c = low + 1 /\ Covers(new, SentIn(new), c, high)
<1>1. PICK n \in Nat : /\ DOMAIN old = 1..n + 1 /\ DOMAIN new = 1..n
                       /\ \A k \in 1..n : new[k] = old[k + 1]
  BY DEF IsTail
<1>2. SentIn(old) \in SUBSET Int /\ SentIn(new) \in SUBSET Int
  BY <1>1 DEF SentIn
<1>3. 1 \in SentIn(old)
  <2>1. 1 \in 1..n + 1
    OBVIOUS
  <2> QED
    BY <1>1, <2>1 DEF SentIn
<1>4. ASSUME NEW k \in SentIn(old) PROVE k = 1 \/ k - 1 \in SentIn(new)
  <2>1. SUFFICES ASSUME k # 1 PROVE k - 1 \in SentIn(new)
    OBVIOUS
  <2>2. k \in 1..n + 1 /\ old[k].type = "ExchangeIceCandidate"
    BY <1>1, <1>4 DEF SentIn
  <2>3. k - 1 \in 1..n /\ (k - 1) + 1 = k
    BY <2>1, <2>2
  <2>4. new[k - 1] = old[k]
    BY <1>1, <2>3
  <2> QED
    BY <1>1, <2>2, <2>3, <2>4 DEF SentIn
<1>5. ASSUME NEW k \in SentIn(new)
      PROVE  1 <= k /\ k + 1 \in SentIn(old) /\ new[k].candidate = old[k + 1].candidate
  <2>1. k \in 1..n /\ new[k].type = "ExchangeIceCandidate"
    BY <1>1, <1>5 DEF SentIn
  <2>2. k + 1 \in 1..n + 1 /\ 1 <= k
    BY <2>1
  <2> QED
    BY <1>1, <2>1, <2>2 DEF SentIn
<1> QED
  <2>1. PICK K \in SUBSET Int : K = SentIn(old)
    BY <1>2
  <2>2. PICK L \in SUBSET Int : L = SentIn(new)
    BY <1>2
  <2>3. /\ 1 \in K /\ \A k \in K : k = 1 \/ k - 1 \in L
        /\ \A k \in L : 1 <= k /\ k + 1 \in K /\ new[k].candidate = old[k + 1].candidate
        /\ \A k \in K : old[k].candidate \in Int
        /\ Ascends(old, K, low, high)
    BY <1>3, <1>4, <1>5, <2>1, <2>2
  <2>4. /\ low < old[1].candidate /\ old[1].candidate <= high
        /\ Ascends(new, L, old[1].candidate, high) /\ Ascends(new, L, low, high)
        /\ Covers(old, K, low, high) =>
             old[1].candidate = low + 1 /\ Covers(new, L, old[1].candidate, high)
    BY <2>3, FirstPlace
  <2> QED
    BY <2>1, <2>2, <2>4

\* The candidates that a peer holds: the buffer until it has a description, then what
\* was added.
Front(me) == IF me.remote = "none" THEN me.buffer ELSE me.added

\* They are in order and go up to high; as long as all went well they are all up to high.
Ahead(me, well, high) ==
  /\ \A k \in DOMAIN Front(me) : Front(me)[k] <= high
  /\ \A j, k \in DOMAIN Front(me) : j < k => Front(me)[j] < Front(me)[k]
  /\ well => /\ me.remote # "none" => me.buffer = << >>
             /\ Len(Front(me)) = high /\ \A k \in 1..high : Front(me)[k] = k

\* The way of the candidates to p: p holds those up to a, its stream has those up to b,
\* the queue of its partner has those found after b.
Path(p, a, b) ==
  /\ a <= b /\ b <= peer[Other(p)].gathered
  /\ Ahead(peer[p], faults = 0, a)
  /\ Ascends(stream[p], SentIn(stream[p]), a, b)
  /\ faults = 0 => Covers(stream[p], SentIn(stream[p]), a, b)
  /\ Ascends(queue[Other(p)], FoundIn(queue[Other(p)]), b, peer[Other(p)].gathered)
  /\ faults = 0 /\ ~Cut(p) =>
       Covers(queue[Other(p)], FoundIn(queue[Other(p)]), b, peer[Other(p)].gathered)
Way(p) == \E a, b \in Nat : Path(p, a, b)

InOrder == \A p \in Peers : Way(p)

\* The candidates in a queue and a stream are numbers.
LEMMA CandidatesAre ==
  ASSUME IInv, NEW p \in Peers
  PROVE  /\ \A k \in FoundIn(queue[p]) : queue[p][k].candidate \in Int
         /\ \A k \in SentIn(stream[p]) : stream[p][k].candidate \in Int
         /\ peer[p].gathered \in Nat /\ faults \in Nat
<1>1. /\ \A k \in DOMAIN queue[p] : queue[p][k] \in Events
      /\ \A k \in DOMAIN stream[p] : stream[p][k] \in Messages
  BY DEF IInv, TypeOK
<1>2. \A c \in Candidates : c \in Int
  BY BoundsAssumption DEF Candidates
<1>3. peer[p].gathered \in Nat /\ faults \in Nat
  BY BoundsAssumption DEF IInv, TypeOK, PeerRecord
<1> QED
  BY <1>1, <1>2, <1>3, Fields DEF FoundIn, SentIn

\* What a peer holds stays.
LEMMA AheadStays ==
  ASSUME NEW me, NEW new, new.remote = me.remote, new.added = me.added,
         new.buffer = me.buffer, NEW well, NEW then, then => well
  PROVE  \A high : Ahead(me, well, high) => Ahead(new, then, high)
<1>1. Front(new) = Front(me)
  BY DEF Front
<1> QED
  BY <1>1 DEF Ahead

\* What p holds stays ahead of the candidates on their way, which are not touched.
LEMMA WayAhead ==
  ASSUME IInv, NEW p \in Peers, Way(p),
         \A high \in Nat : Ahead(peer[p], faults = 0, high)
                             => Ahead(peer'[p], faults' = 0, high),
         peer'[Other(p)].gathered = peer[Other(p)].gathered,
         StreamStays(stream[p], stream'[p]),
         QueueStays(queue[Other(p)], queue'[Other(p)]),
         faults' \in {faults, faults + 1}, Cut(p) => Cut(p)'
  PROVE  Way(p)'
<1>1. PICK a, b \in Nat : Path(p, a, b)
  BY DEF Way
<1>2. faults' = 0 => faults = 0
  BY CandidatesAre
<1>3. Ahead(peer'[p], faults' = 0, a)
  BY <1>1 DEF Path
<1>4. /\ Ascends(stream'[p], SentIn(stream'[p]), a, b)
      /\ faults' = 0 => Covers(stream'[p], SentIn(stream'[p]), a, b)
  BY <1>1, <1>2 DEF Path, StreamStays
<1>5. /\ Ascends(queue'[Other(p)], FoundIn(queue'[Other(p)]), b, peer[Other(p)].gathered)
      /\ faults' = 0 /\ ~Cut(p)' =>
           Covers(queue'[Other(p)], FoundIn(queue'[Other(p)]), b, peer[Other(p)].gathered)
  BY <1>1, <1>2 DEF Path, QueueStays
<1>6. Path(p, a, b)'
  BY <1>1, <1>3, <1>4, <1>5 DEF Path
<1> QED
  BY <1>6 DEF Way

\* The way to p is not touched.
LEMMA WayStays ==
  ASSUME IInv, NEW p \in Peers, Way(p),
         peer'[p].remote = peer[p].remote, peer'[p].added = peer[p].added,
         peer'[p].buffer = peer[p].buffer,
         peer'[Other(p)].gathered = peer[Other(p)].gathered,
         StreamStays(stream[p], stream'[p]),
         QueueStays(queue[Other(p)], queue'[Other(p)]),
         faults' \in {faults, faults + 1}, Cut(p) => Cut(p)'
  PROVE  Way(p)'
<1>1. faults' = 0 => faults = 0
  BY CandidatesAre
<1>2. \A high \in Nat : Ahead(peer[p], faults = 0, high) => Ahead(peer'[p], faults' = 0, high)
  BY <1>1, AheadStays
<1> QED
  BY <1>2, WayAhead

\* Nothing that was cut is joined again.
LEMMA CutStays ==
  ASSUME \A q \in Peers : /\ peer[q].ready => peer'[q].ready
                          /\ peer[q].quit => peer'[q].quit
  PROVE  \A p \in Peers : Cut(p) => Cut(p)'
BY PeersAre DEF Cut

\* What is left alone stays.
LEMMA StaysUnchanged ==
  /\ \A q : QueueStays(q, q)
  /\ \A q : StreamStays(q, q)
BY DEF QueueStays, StreamStays

\* A step that changes no candidate: one queue and one stream get or lose something else.
LEMMA NoCandidate ==
  ASSUME IInv, InOrder, NEW p \in Peers, NEW r \in Peers,
         \A q \in Peers : /\ peer'[q].remote = peer[q].remote
                          /\ peer'[q].added = peer[q].added
                          /\ peer'[q].buffer = peer[q].buffer
                          /\ peer'[q].gathered = peer[q].gathered
                          /\ peer[q].ready => peer'[q].ready
                          /\ peer[q].quit => peer'[q].quit,
         \A q \in Peers \ {p} : queue'[q] = queue[q],
         QueueStays(queue[p], queue'[p]),
         \A q \in Peers \ {r} : stream'[q] = stream[q],
         StreamStays(stream[r], stream'[r]),
         faults' \in {faults, faults + 1}
  PROVE  InOrder'
<1>1. ASSUME NEW q \in Peers PROVE Way(q)'
  <2>1. StreamStays(stream[q], stream'[q])
    BY StaysUnchanged
  <2>2. \A o \in Peers : QueueStays(queue[o], queue'[o])
    BY StaysUnchanged
  <2>3. Other(q) \in Peers
    BY PeersAre
  <2> QED
    BY <2>1, <2>2, <2>3, CutStays, WayStays DEF InOrder
<1> QED
  BY <1>1 DEF InOrder

\* The stream to p ends when p leaves.
LEMMA WayEnds ==
  ASSUME IInv, NEW p \in Peers, Way(p),
         peer'[p].remote = peer[p].remote, peer'[p].added = peer[p].added,
         peer'[p].buffer = peer[p].buffer,
         peer'[Other(p)].gathered = peer[Other(p)].gathered,
         DOMAIN stream'[p] = {}, QueueStays(queue[Other(p)], queue'[Other(p)]),
         faults' = faults, peer'[p].ready \/ peer'[p].quit
  PROVE  Way(p)'
<1>1. PICK a, b \in Nat : Path(p, a, b)
  BY DEF Way
<1>2. Ahead(peer'[p], faults' = 0, a)
  BY <1>1, AheadStays DEF Path
<1>3. SentIn(stream'[p]) = {}
  BY DEF SentIn
<1>4. /\ Ascends(stream'[p], SentIn(stream'[p]), a, b)
      /\ Ascends(stream'[p], SentIn(stream'[p]), a, a)
      /\ Covers(stream'[p], SentIn(stream'[p]), a, a)
  <2>1. a + 1..a = {}
    OBVIOUS
  <2> QED
    BY <1>3, <2>1 DEF Ascends, Covers
<1>5. PICK q : q = queue[Other(p)]
  OBVIOUS
<1>6. PICK g \in Nat : g = peer[Other(p)].gathered
  BY CandidatesAre, PeersAre
<1>7. a <= b /\ b <= g /\ Ascends(q, FoundIn(q), b, g)
  BY <1>1, <1>5, <1>6 DEF Path
<1>8. Ascends(q, FoundIn(q), a, g)
  <2>1. ASSUME NEW k \in FoundIn(q) PROVE a < q[k].candidate
    <3>1. PICK c \in Int : c = q[k].candidate
      BY <1>5, <2>1, CandidatesAre, PeersAre
    <3>2. b < c
      BY <1>7, <3>1 DEF Ascends
    <3> QED
      BY <1>7, <3>1, <3>2
  <2> QED
    BY <1>7, <2>1 DEF Ascends
<1>9. Ascends(queue'[Other(p)], FoundIn(queue'[Other(p)]), a, g)
  BY <1>5, <1>8 DEF QueueStays
<1>10. Cut(p)'
  BY DEF Cut
<1>11. a <= a /\ a <= g
  BY <1>7
<1>12. Path(p, a, a)'
  BY <1>2, <1>4, <1>6, <1>9, <1>10, <1>11 DEF Path
<1> QED
  BY <1>12 DEF Way

\* A candidate is found: it comes last in the queue.
LEMMA OnIceCandidateOrder ==
  ASSUME IInv, InOrder, NEW p \in Peers, OnIceCandidate(p)
  PROVE  InOrder'
<1>1. PICK me : me = peer[p]
  OBVIOUS
<1>2. /\ me \in PeerRecord /\ me.gathered < MaxCandidates
      /\ stream' = stream /\ faults' = faults
      /\ peer' = [peer EXCEPT ![p].gathered = @ + 1]
      /\ Post(p, [event |-> "IceCandidate", candidate |-> me.gathered + 1])
  BY <1>1, StateFacts DEF OnIceCandidate
<1>3. PICK new : new = [me EXCEPT !.gathered = me.gathered + 1]
  OBVIOUS
<1>4. peer' = [peer EXCEPT ![p] = new]
  BY <1>1, <1>2, <1>3 DEF IInv, TypeOK
<1>5. /\ new.remote = me.remote /\ new.added = me.added /\ new.buffer = me.buffer
      /\ new.ready = me.ready /\ new.quit = me.quit
      /\ new.gathered = me.gathered + 1 /\ me.gathered \in Nat
  BY <1>2, <1>3 DEF PeerRecord
<1>6. /\ peer'[p] = new /\ \A q \in Peers \ {p} : peer'[q] = peer[q]
      /\ peer'[Other(p)] = peer[Other(p)]
  BY <1>4, OtherPeer
<1>7. PICK c \in Candidates : c = me.gathered + 1
  BY <1>2, <1>5, BoundsAssumption DEF Candidates
<1>8. PICK e \in Events : e.event = "IceCandidate" /\ e.candidate = c /\ Post(p, e)
  BY <1>2, <1>7, Fields
<1>9. IsAppend(queue[p], queue'[p], e) /\ \A q \in Peers \ {p} : queue'[q] = queue[q]
  BY <1>8, PostEffect
<1>10. \A q \in Peers : Cut(q) => Cut(q)'
  BY <1>1, <1>5, <1>6, CutStays
<1>11. Way(p)'
  BY <1>1, <1>2, <1>5, <1>6, <1>9, <1>10, StaysUnchanged, PeersAre, WayStays DEF InOrder
<1>12. PICK r \in Peers : r = Other(p) /\ r # p /\ Other(r) = p /\ \A q \in Peers : q \in {p, r}
  BY PeersAre DEF Other
<1>13. Way(r)'
  <2>1. PICK a, b \in Nat : Path(r, a, b)
    BY DEF InOrder, Way
  <2>2. /\ a <= b /\ b <= me.gathered
        /\ Ascends(queue[p], FoundIn(queue[p]), b, me.gathered)
        /\ faults = 0 /\ ~Cut(r) => Covers(queue[p], FoundIn(queue[p]), b, me.gathered)
    BY <1>1, <1>12, <2>1 DEF Path
  <2>3. c \in Int /\ me.gathered \in Int /\ me.gathered < c
    BY <1>5, <1>7
  <2>4. \A k \in FoundIn(queue[p]) : queue[p][k].candidate \in Int
    BY CandidatesAre
  <2>5. /\ Ascends(queue'[p], FoundIn(queue'[p]), b, c)
        /\ Covers(queue[p], FoundIn(queue[p]), b, me.gathered)
             => Covers(queue'[p], FoundIn(queue'[p]), b, c)
    BY <1>7, <1>8, <1>9, <2>2, <2>3, <2>4, QueueGains
  <2>6. b <= c
    BY <2>2, <2>3
  <2>7. peer'[r] = peer[r] /\ peer'[p].gathered = c
    BY <1>5, <1>6, <1>7, <1>12
  <2>8. Path(r, a, b)'
    BY <1>2, <1>10, <1>12, <2>1, <2>2, <2>5, <2>6, <2>7 DEF Path
  <2> QED
    BY <2>8 DEF Way
<1> QED
  BY <1>11, <1>12, <1>13 DEF InOrder

\* A candidate is sent, or it is dropped because a peer has left.
LEMMA OnRtcIceCandidateReceivedOrder ==
  ASSUME IInv, InOrder, NEW p \in Peers, OnRtcIceCandidateReceived(p)
  PROVE  InOrder'
<1>1. Takes(p, "IceCandidate") /\ peer' = peer /\ faults' = faults
  BY DEF OnRtcIceCandidateReceived, Takes
<1>2. /\ IsTail(queue[p], queue'[p]) /\ queue[p][1] = Head(queue[p])
      /\ queue[p][1] \in Events /\ queue[p][1].event = "IceCandidate"
      /\ \A q \in Peers \ {p} : queue'[q] = queue[q]
  BY <1>1, TakeEffect
<1>3. PICK c \in Candidates : c = queue[p][1].candidate
  BY <1>2, Fields
<1>4. PICK m \in Messages : /\ m.type = "ExchangeIceCandidate" /\ m.candidate = c
                            /\ SendSignalMsg(p, m)
  BY <1>2, <1>3, Fields DEF OnRtcIceCandidateReceived
<1>5. PICK r \in Peers : r = Other(p) /\ r # p /\ Other(r) = p /\ \A q \in Peers : q \in {p, r}
  BY PeersAre DEF Other
<1>6. /\ \/ Cut(r) /\ stream'[r] = stream[r]
         \/ ~Cut(r) /\ IsAppend(stream[r], stream'[r], m)
      /\ stream'[p] = stream[p] /\ queue'[r] = queue[r]
  BY <1>2, <1>4, <1>5, SendEffect
<1>7. Way(p)'
  <2>1. Cut(p) => Cut(p)'
    BY <1>1 DEF Cut
  <2> QED
    BY <1>1, <1>5, <1>6, <2>1, StaysUnchanged, WayStays DEF InOrder
<1>8. Way(r)'
  <2>1. PICK a, b \in Nat : Path(r, a, b)
    BY DEF InOrder, Way
  <2>2. PICK g \in Nat : g = peer[p].gathered
    BY CandidatesAre
  <2>3. /\ a <= b /\ b <= g /\ Ahead(peer[r], faults = 0, a)
        /\ Ascends(stream[r], SentIn(stream[r]), a, b)
        /\ faults = 0 => Covers(stream[r], SentIn(stream[r]), a, b)
        /\ Ascends(queue[p], FoundIn(queue[p]), b, g)
        /\ faults = 0 /\ ~Cut(r) => Covers(queue[p], FoundIn(queue[p]), b, g)
    BY <1>5, <2>1, <2>2 DEF Path
  <2>4. c \in Nat /\ c \in Int /\ b \in Int /\ g \in Int /\ a \in Int
    BY <1>3, BoundsAssumption DEF Candidates
  <2>5. /\ \A k \in FoundIn(queue[p]) : queue[p][k].candidate \in Int
        /\ \A k \in SentIn(stream[r]) : stream[r][k].candidate \in Int
    BY CandidatesAre
  <2>6. /\ b < c /\ c <= g
        /\ Ascends(queue'[p], FoundIn(queue'[p]), c, g)
        /\ Ascends(queue'[p], FoundIn(queue'[p]), b, g)
        /\ Covers(queue[p], FoundIn(queue[p]), b, g) =>
             c = b + 1 /\ Covers(queue'[p], FoundIn(queue'[p]), c, g)
    BY <1>2, <1>3, <2>3, <2>4, <2>5, QueueGives
  <2>7. Cut(r)' = Cut(r)
    BY <1>1 DEF Cut
  <2>8. CASE ~Cut(r) /\ IsAppend(stream[r], stream'[r], m)
    <3>1. /\ Ascends(stream'[r], SentIn(stream'[r]), a, c)
          /\ Covers(stream[r], SentIn(stream[r]), a, b) /\ c = b + 1
               => Covers(stream'[r], SentIn(stream'[r]), a, c)
      BY <1>4, <2>3, <2>4, <2>5, <2>6, <2>8, StreamGains
    <3>2. a <= c
      BY <2>3, <2>4, <2>6
    <3>3. Path(r, a, c)'
      BY <1>1, <1>5, <2>2, <2>3, <2>6, <2>7, <2>8, <3>1, <3>2 DEF Path
    <3> QED
      BY <2>4, <3>3 DEF Way
  <2>9. CASE Cut(r) /\ stream'[r] = stream[r]
    <3>1. Path(r, a, b)'
      BY <1>1, <1>5, <2>2, <2>3, <2>6, <2>7, <2>9 DEF Path
    <3> QED
      BY <3>1 DEF Way
  <2> QED
    BY <1>6, <2>8, <2>9
<1> QED
  BY <1>5, <1>7, <1>8 DEF InOrder

\* A candidate is held after those before it.
LEMMA AheadGrows ==
  ASSUME NEW me, NEW new, Front(me) \in Seq(Candidates), NEW c \in Candidates,
         NEW low \in Nat, low < c, NEW well \in BOOLEAN, well => c = low + 1,
         new.remote = me.remote, Front(new) = Append(Front(me), c),
         me.remote # "none" => new.buffer = me.buffer,
         Ahead(me, well, low)
  PROVE  Ahead(new, well, c)
<1>1. PICK q \in Seq(Candidates) : q = Front(me)
  OBVIOUS
<1>2. PICK r : r = Append(q, c)
  OBVIOUS
<1>3. /\ Len(q) \in Nat /\ DOMAIN q = 1..Len(q)
      /\ r \in Seq(Candidates) /\ Len(r) = Len(q) + 1 /\ DOMAIN r = 1..Len(q) + 1
      /\ \A k \in DOMAIN r : IF k \in DOMAIN q THEN r[k] = q[k] ELSE k = Len(q) + 1 /\ r[k] = c
  BY <1>2, AppendElements
<1>4. Front(new) = r
  BY <1>1, <1>2
<1>5. PICK n \in Nat : n = Len(q)
  BY <1>3
<1>6. /\ \A k \in 1..n : q[k] \in Nat /\ q[k] <= low /\ r[k] = q[k]
      /\ \A j, k \in 1..n : j < k => q[j] < q[k]
      /\ r[n + 1] = c /\ n + 1 \in 1..n + 1 /\ n + 1 \notin 1..n
      /\ DOMAIN q = 1..n /\ DOMAIN r = 1..n + 1 /\ Len(r) = n + 1
  <2>1. DOMAIN q = 1..n /\ DOMAIN r = 1..n + 1 /\ Len(r) = n + 1
    BY <1>3, <1>5
  <2>2. n + 1 \in 1..n + 1 /\ n + 1 \notin 1..n /\ \A k \in 1..n : k \in 1..n + 1
    BY <1>5
  <2>3. r[n + 1] = c
    BY <1>3, <2>1, <2>2
  <2>4. \A k \in 1..n : q[k] <= low /\ r[k] = q[k]
    BY <1>1, <1>3, <2>1, <2>2 DEF Ahead
  <2>5. \A k \in 1..n : q[k] \in Nat
    BY <2>1, BoundsAssumption, QueueElements DEF Candidates
  <2>6. \A j, k \in 1..n : j < k => q[j] < q[k]
    BY <1>1, <2>1 DEF Ahead
  <2> QED
    BY <2>1, <2>2, <2>3, <2>4, <2>5, <2>6
<1>7. c \in Nat
  BY BoundsAssumption DEF Candidates
<1>8. ASSUME NEW k \in 1..n + 1 PROVE r[k] <= c
  <2>1. CASE k \in 1..n
    <3>1. PICK v \in Nat : v = q[k]
      BY <1>6, <2>1
    <3> QED
      BY <1>6, <1>7, <2>1, <3>1
  <2>2. CASE k = n + 1
    BY <1>6, <1>7, <2>2
  <2> QED
    BY <2>1, <2>2
<1>9. ASSUME NEW j \in 1..n + 1, NEW k \in 1..n + 1, j < k PROVE r[j] < r[k]
  <2>1. j \in 1..n
    BY <1>9
  <2>2. CASE k \in 1..n
    BY <1>6, <1>9, <2>1, <2>2
  <2>3. CASE k = n + 1
    <3>1. PICK v \in Nat : v = q[j]
      BY <1>6, <2>1
    <3> QED
      BY <1>6, <1>7, <2>1, <2>3, <3>1
  <2> QED
    BY <2>2, <2>3
<1>10. ASSUME well
       PROVE  /\ new.remote # "none" => new.buffer = << >>
              /\ Len(r) = c /\ \A k \in 1..c : r[k] = k
  <2>1. /\ me.remote # "none" => me.buffer = << >>
        /\ n = low /\ \A k \in 1..low : q[k] = k
    BY <1>1, <1>5, <1>10 DEF Ahead
  <2>2. c = n + 1
    BY <1>10, <2>1
  <2>3. ASSUME NEW k \in 1..n + 1 PROVE r[k] = k
    BY <1>6, <2>1, <2>2
  <2> QED
    BY <1>6, <2>1, <2>2, <2>3
<1> QED
  BY <1>4, <1>6, <1>8, <1>9, <1>10 DEF Ahead

\* A candidate of the partner is the next one that the peer holds, or is lost.
LEMMA OnRemoteIceCandidateReceivedOrder ==
  ASSUME IInv, InOrder, NEW p \in Peers, OnRemoteIceCandidateReceived(p)
  PROVE  InOrder'
<1>1. PICK me : me = peer[p]
  OBVIOUS
<1>2. PICK c : c = Head(stream[p]).candidate
  OBVIOUS
<1>3. PICK new :
        /\ c \in Candidates
        /\ peer' = [peer EXCEPT ![p] = new]
        /\ new.remote = me.remote /\ new.gathered = me.gathered
        /\ new.ready = me.ready /\ new.quit = me.quit
        /\ \/ /\ faults' = faults + 1
              /\ new.added = me.added /\ new.buffer = me.buffer
           \/ /\ faults' = faults /\ me.remote # "none"
              /\ new.added = Append(me.added, c) /\ new.buffer = me.buffer
           \/ /\ faults' = faults /\ me.remote = "none"
              /\ new.added = me.added /\ new.buffer = Append(me.buffer, c)
  BY <1>1, <1>2, IceEffect
<1>4. /\ peer'[p] = new /\ \A q \in Peers \ {p} : peer'[q] = peer[q]
      /\ peer'[Other(p)] = peer[Other(p)]
  BY <1>3, OtherPeer
<1>5. /\ stream[p] # << >> /\ Consume(p) /\ queue' = queue
      /\ Head(stream[p]).type = "ExchangeIceCandidate"
  BY DEF OnRemoteIceCandidateReceived, Receives
<1>6. /\ IsTail(stream[p], stream'[p]) /\ stream[p][1] = Head(stream[p])
      /\ \A q \in Peers \ {p} : stream'[q] = stream[q]
  BY <1>5, ConsumeEffect
<1>7. \A q \in Peers : Cut(q) => Cut(q)'
  BY <1>1, <1>3, <1>4, CutStays
<1>8. PICK r \in Peers : r = Other(p) /\ r # p /\ Other(r) = p /\ \A q \in Peers : q \in {p, r}
  BY PeersAre DEF Other
<1>9. faults' \in {faults, faults + 1} /\ (faults' = 0 => faults' = faults)
  BY <1>3, CandidatesAre
<1>10. Way(r)'
  BY <1>1, <1>3, <1>4, <1>5, <1>6, <1>7, <1>8, <1>9, StaysUnchanged, WayStays DEF InOrder
<1>11. Way(p)'
  <2>1. PICK a, b \in Nat : Path(p, a, b)
    BY DEF InOrder, Way
  <2>2. PICK g \in Nat : g = peer[r].gathered
    BY CandidatesAre
  <2>3. /\ a <= b /\ b <= g /\ Ahead(me, faults = 0, a)
        /\ Ascends(stream[p], SentIn(stream[p]), a, b)
        /\ faults = 0 => Covers(stream[p], SentIn(stream[p]), a, b)
        /\ Ascends(queue[r], FoundIn(queue[r]), b, g)
        /\ faults = 0 /\ ~Cut(p) => Covers(queue[r], FoundIn(queue[r]), b, g)
    BY <1>1, <1>8, <2>1, <2>2 DEF Path
  <2>4. c \in Nat /\ c \in Int /\ a \in Int /\ b \in Int
    BY <1>3, BoundsAssumption DEF Candidates
  <2>5. \A k \in SentIn(stream[p]) : stream[p][k].candidate \in Int
    BY CandidatesAre
  <2>6. /\ a < c /\ c <= b
        /\ Ascends(stream'[p], SentIn(stream'[p]), c, b)
        /\ Ascends(stream'[p], SentIn(stream'[p]), a, b)
        /\ Covers(stream[p], SentIn(stream[p]), a, b) =>
             c = a + 1 /\ Covers(stream'[p], SentIn(stream'[p]), c, b)
    BY <1>2, <1>5, <1>6, <2>3, <2>4, <2>5, StreamGives
  <2>7. CASE /\ faults' = faults + 1
             /\ new.added = me.added /\ new.buffer = me.buffer
    <3>1. faults' # 0
      BY <2>7, CandidatesAre
    <3>2. Ahead(new, faults' = 0, a)
      BY <1>3, <2>3, <2>7, <3>1, AheadStays
    <3>3. Path(p, a, b)'
      BY <1>4, <1>5, <1>8, <2>2, <2>3, <2>6, <3>1, <3>2 DEF Path
    <3> QED
      BY <3>3 DEF Way
  <2>8. CASE faults' = faults /\ new.remote = me.remote /\ Front(new) = Append(Front(me), c)
             /\ (me.remote # "none" => new.buffer = me.buffer)
    <3>1. Front(me) \in Seq(Candidates)
      BY <1>1, StateFacts DEF PeerRecord, Front
    <3>2. PICK well \in BOOLEAN : well = (faults = 0)
      OBVIOUS
    <3>3. well => c = a + 1
      BY <2>3, <2>6, <3>2
    <3>4. Ahead(new, well, c)
      BY <1>3, <2>3, <2>6, <2>8, <3>1, <3>2, <3>3, AheadGrows
    <3>5. Path(p, c, b)'
      BY <1>4, <1>5, <1>7, <1>8, <2>2, <2>3, <2>6, <2>8, <3>2, <3>4 DEF Path
    <3> QED
      BY <2>4, <3>5 DEF Way
  <2> QED
    BY <1>3, <2>7, <2>8 DEF Front
<1> QED
  BY <1>8, <1>10, <1>11 DEF InOrder

\* The buffer is added: the peer holds what it held, or the beginning of it.
LEMMA AheadFlushes ==
  ASSUME NEW me \in PeerRecord, me.remote = "none", me.added = << >>,
         NEW k \in 0..Len(me.buffer),
         NEW new, new.remote # "none",
         new.added = me.added \o SubSeq(me.buffer, 1, k),
         new.buffer = IF k = Len(me.buffer) THEN << >> ELSE me.buffer,
         NEW well, NEW then, then => well /\ k = Len(me.buffer),
         NEW high \in Nat, Ahead(me, well, high)
  PROVE  Ahead(new, then, high)
<1>1. PICK q \in Seq(Candidates) : q = me.buffer
  BY DEF PeerRecord
<1>2. PICK r : r = SubSeq(q, 1, k)
  OBVIOUS
<1>3. PICK lost : lost = SubSeq(q, k + 1, Len(q))
  OBVIOUS
<1>4. k \in 0..Len(q)
  BY <1>1
<1>5. r \in Seq(Candidates) /\ Len(r) = k /\ \A i \in 1..k : r[i] = q[i]
  BY <1>2, <1>3, <1>4, PrefixElements
<1>6. new.added = r
  <2>1. << >> \o r = r
    BY <1>5
  <2> QED
    BY <1>1, <1>2, <2>1, Zenon
<1>7. Front(new) = r /\ Front(me) = q
  BY <1>1, <1>6 DEF Front
<1>8. DOMAIN r = 1..k /\ DOMAIN q = 1..Len(q) /\ Len(q) \in Nat /\ 1..k \subseteq 1..Len(q)
  <2>1. DOMAIN r = 1..k
    BY <1>5, QueueElements
  <2>2. DOMAIN q = 1..Len(q) /\ Len(q) \in Nat
    BY QueueElements
  <2> QED
    BY <1>4, <2>1, <2>2
<1>9. /\ \A i \in DOMAIN r : r[i] <= high
      /\ \A i, j \in DOMAIN r : i < j => r[i] < r[j]
  BY <1>5, <1>7, <1>8 DEF Ahead
<1>10. ASSUME then
       PROVE  new.buffer = << >> /\ Len(r) = high /\ \A i \in 1..high : r[i] = i
  <2>1. well /\ k = Len(q)
    BY <1>1, <1>10
  <2>2. Len(q) = high /\ \A i \in 1..high : q[i] = i
    BY <1>7, <2>1 DEF Ahead
  <2>3. new.buffer = << >>
    BY <1>1, <2>1
  <2>4. k = high /\ \A i \in 1..high : r[i] = i
    BY <1>5, <2>1, <2>2
  <2> QED
    BY <1>5, <2>3, <2>4
<1> QED
  BY <1>7, <1>9, <1>10 DEF Ahead

\* A description is taken from the stream: it is the first one, so that nothing was added
\* before the buffer.
LEMMA OnRemoteSdpReceivedOrder ==
  ASSUME IInv, BInv, InOrder, NEW p \in Peers, OnRemoteSdpReceived(p)
  PROVE  InOrder'
<1>1. PICK me : me = peer[p]
  OBVIOUS
<1>2. PICK t : t = Head(stream[p]).sdp_type
  OBVIOUS
<1>3. PICK new :
        /\ peer' = [peer EXCEPT ![p] = new]
        /\ new.gathered = me.gathered
        /\ new.ready = me.ready /\ new.quit = me.quit
        /\ SdpFails(p, new) \/ SdpTaken(p, t, new) \/ SdpRefused(p, t, new)
  BY <1>1, <1>2, SdpEffect
<1>4. /\ peer'[p] = new /\ \A q \in Peers \ {p} : peer'[q] = peer[q]
      /\ peer'[Other(p)] = peer[Other(p)]
  BY <1>3, OtherPeer
<1>5. /\ stream[p] # << >> /\ Consume(p)
      /\ Head(stream[p]).type = "ExchangeSessionDescription"
  BY DEF OnRemoteSdpReceived, Receives
<1>6. /\ IsTail(stream[p], stream'[p]) /\ 1 \in DOMAIN stream[p]
      /\ stream[p][1] = Head(stream[p])
      /\ \A q \in Peers \ {p} : stream'[q] = stream[q]
  BY <1>5, ConsumeEffect
<1>7. StreamStays(stream[p], stream'[p])
  BY <1>5, <1>6, StreamStaysBy
<1>8. me.remote = "none" /\ me.added = << >> /\ me \in PeerRecord
  <2>1. 1 \in DescriptionsIn(stream[p])
    BY <1>5, <1>6 DEF DescriptionsIn
  <2>2. me.remote = "none"
    BY <1>1, <2>1, Undescribed
  <2> QED
    BY <1>1, <2>2, StateFacts DEF PeerHolds
<1>9. \A q \in Peers : Cut(q) => Cut(q)'
  BY <1>1, <1>3, <1>4, CutStays
<1>10. PICK r \in Peers : r = Other(p) /\ r # p /\ Other(r) = p /\ \A q \in Peers : q \in {p, r}
  BY PeersAre DEF Other
<1>11. faults' \in {faults, faults + 1} /\ faults \in Nat
  BY <1>3, CandidatesAre DEF SdpFails, SdpTaken, SdpRefused
<1>12. QueueStays(queue[p], queue'[p]) /\ queue'[r] = queue[r]
  <2>1. CASE queue' = queue
    BY <2>1, StaysUnchanged
  <2>2. CASE \E name \in {"SetRemoteSessionSuccess", "SetRemoteSessionFailed"} :
               Post(p, [event |-> name])
    <3>1. PICK e \in Events : Post(p, e) /\ e.event # "IceCandidate"
      BY <2>2, Fields
    <3> QED
      BY <1>10, <3>1, PostEffect, QueueStaysBy
  <2> QED
    BY <1>3, <2>1, <2>2 DEF SdpFails, SdpTaken, SdpRefused
<1>13. Way(r)'
  BY <1>1, <1>3, <1>4, <1>6, <1>9, <1>10, <1>11, <1>12, StaysUnchanged, WayStays DEF InOrder
<1>14. \A high \in Nat : Ahead(me, faults = 0, high) => Ahead(new, faults' = 0, high)
  <2>1. CASE SdpTaken(p, t, new)
    <3>1. PICK k \in 0..Len(me.buffer) :
            /\ new.added = me.added \o SubSeq(me.buffer, 1, k)
            /\ new.buffer = IF k = Len(me.buffer) THEN << >> ELSE me.buffer
            /\ faults' = IF k < Len(me.buffer) THEN faults + 1 ELSE faults
      BY <1>1, <2>1 DEF SdpTaken
    <3>2. t \in SdpTypes
      BY <1>2, <1>5, StateFacts, Fields
    <3>3. new.remote # "none"
      BY <2>1, <3>2 DEF SdpTaken, SdpTypes
    <3>4. faults' = 0 => faults = 0 /\ k = Len(me.buffer)
      BY <1>8, <1>11, <3>1 DEF PeerRecord
    <3>5. PICK then \in BOOLEAN : then = (faults' = 0)
      OBVIOUS
    <3>6. PICK well \in BOOLEAN : well = (faults = 0)
      OBVIOUS
    <3>7. \A high \in Nat : Ahead(me, well, high) => Ahead(new, then, high)
      <4>1. then => well /\ k = Len(me.buffer)
        BY <3>4, <3>5, <3>6
      <4> QED
        BY <1>8, <3>1, <3>3, <4>1, AheadFlushes
    <3> QED
      BY <3>5, <3>6, <3>7
  <2>2. CASE SdpFails(p, new) \/ SdpRefused(p, t, new)
    <3>1. me.added \o SubSeq(me.buffer, 1, 0) = me.added
      BY <1>8 DEF PeerRecord
    <3>2. new.remote = me.remote /\ new.added = me.added /\ new.buffer = me.buffer
      BY <1>1, <1>8, <2>2, <3>1 DEF SdpFails, SdpRefused
    <3>3. faults' = 0 => faults = 0
      BY <1>11
    <3> QED
      BY <3>2, <3>3, AheadStays
  <2> QED
    BY <1>3, <2>1, <2>2
<1>15. Way(p)'
  BY <1>1, <1>4, <1>7, <1>9, <1>10, <1>11, <1>12, <1>14, StaysUnchanged, WayAhead DEF InOrder
<1> QED
  BY <1>10, <1>13, <1>15 DEF InOrder

\* An own description is set, or the library reports something else.
LEMMA LibraryOrder ==
  ASSUME IInv, InOrder, NEW p \in Peers, Library(p) \/ OnConnectionLost(p)
  PROVE  InOrder'
<1>1. PICK e \in Events : e.event # "IceCandidate" /\ Post(p, e)
  BY Fields DEF Library, LocalDescriptionSet, OnConnectionChange, OnDataChannel,
                OnConnectionLost
<1>2. stream' = stream /\ faults' \in {faults, faults + 1}
  BY DEF Library, LocalDescriptionSet, OnConnectionChange, OnDataChannel, OnConnectionLost,
         Outcome
<1>3. QueueStays(queue[p], queue'[p]) /\ \A q \in Peers \ {p} : queue'[q] = queue[q]
  BY <1>1, PostEffect, QueueStaysBy
<1>4. \A q \in Peers : /\ peer'[q].remote = peer[q].remote
                       /\ peer'[q].added = peer[q].added
                       /\ peer'[q].buffer = peer[q].buffer
                       /\ peer'[q].gathered = peer[q].gathered
                       /\ peer[q].ready => peer'[q].ready
                       /\ peer[q].quit => peer'[q].quit
  <2>1. CASE LocalDescriptionSet(p)
    <3>1. PICK me : me = peer[p]
      OBVIOUS
    <3>2. me \in PeerRecord
      BY <3>1, StateFacts
    <3>3. PICK local : peer' = [peer EXCEPT ![p].setting = "none", ![p].local = local]
      <4>1. PICK ok \in BOOLEAN :
              peer' = [peer EXCEPT ![p].setting = "none",
                                   ![p].local = IF ok THEN peer[p].setting ELSE @]
        BY <2>1 DEF LocalDescriptionSet
      <4> QED
        BY <4>1
    <3>4. PICK new : new = [me EXCEPT !.setting = "none", !.local = local]
      OBVIOUS
    <3>5. peer' = [peer EXCEPT ![p] = new]
      BY <3>1, <3>3, <3>4 DEF IInv, TypeOK
    <3>6. /\ new.remote = me.remote /\ new.added = me.added /\ new.buffer = me.buffer
          /\ new.gathered = me.gathered /\ new.ready = me.ready /\ new.quit = me.quit
      BY <3>2, <3>4 DEF PeerRecord
    <3> QED
      BY <3>1, <3>5, <3>6, OtherPeer
  <2>2. CASE OnConnectionChange(p) \/ OnDataChannel(p) \/ OnConnectionLost(p)
    BY <2>2, FlagSet DEF OnConnectionChange, OnDataChannel, OnConnectionLost
  <2> QED
    BY <2>1, <2>2 DEF Library
<1> QED
  BY <1>2, <1>3, <1>4, StaysUnchanged, NoCandidate

\* Init gives a peer no candidate.
LEMMA StartEstablishConnectionOrder ==
  ASSUME IInv, InOrder, NEW p \in Peers, StartEstablishConnection(p)
  PROVE  InOrder'
<1>1. PICK me : me = peer[p]
  OBVIOUS
<1>2. /\ me \in PeerRecord /\ queue' = queue /\ stream' = stream
      /\ faults' \in {faults, faults + 1}
  BY <1>1, StateFacts DEF StartEstablishConnection, Outcome
<1>3. \E new : /\ peer' = [peer EXCEPT ![p] = new]
               /\ \/ new = Offering(me)
                  \/ new = InitPeerConncetion(me)
                  \/ \E made \in BOOLEAN : new = NotOffering(me, made)
                  \/ new = Unconnected(me)
  BY <1>1 DEF StartEstablishConnection, IInv, TypeOK
<1>4. PICK new : /\ peer' = [peer EXCEPT ![p] = new]
                 /\ \/ new = Offering(me)
                    \/ new = InitPeerConncetion(me)
                    \/ \E made \in BOOLEAN : new = NotOffering(me, made)
                    \/ new = Unconnected(me)
  BY <1>3
<1>5. /\ new.remote = me.remote /\ new.added = me.added /\ new.buffer = me.buffer
      /\ new.gathered = me.gathered /\ new.ready = me.ready /\ new.quit = me.quit
  BY <1>2, <1>4 DEF PeerRecord, Offering, InitPeerConncetion, NotOffering, Unconnected
<1>6. \A q \in Peers : /\ peer'[q].remote = peer[q].remote
                       /\ peer'[q].added = peer[q].added
                       /\ peer'[q].buffer = peer[q].buffer
                       /\ peer'[q].gathered = peer[q].gathered
                       /\ peer[q].ready => peer'[q].ready
                       /\ peer[q].quit => peer'[q].quit
  BY <1>1, <1>4, <1>5, OtherPeer
<1> QED
  BY <1>2, <1>6, StaysUnchanged, NoCandidate

\* The own description is sent.
LEMMA OnRtcSetLocalSessionSuccessOrder ==
  ASSUME IInv, InOrder, NEW p \in Peers, OnRtcSetLocalSessionSuccess(p)
  PROVE  InOrder'
<1>1. Takes(p, "SetLocalSessionSuccess") /\ peer' = peer /\ faults' = faults
  BY DEF OnRtcSetLocalSessionSuccess, Takes
<1>2. QueueStays(queue[p], queue'[p]) /\ \A q \in Peers \ {p} : queue'[q] = queue[q]
  BY <1>1, TakeEffect, QueueStaysBy
<1>3. peer[p].local \in SdpTypes
  <2>1. peer[p].local # "none"
    BY <1>1, EventTaken DEF EventHolds
  <2> QED
    BY <2>1, StateFacts DEF PeerRecord
<1>4. PICK m \in Messages : m.type # "ExchangeIceCandidate" /\ SendSignalMsg(p, m)
  BY <1>3, Fields DEF OnRtcSetLocalSessionSuccess
<1>5. PICK r \in Peers : r = Other(p) /\ \A q \in Peers : q \in {p, r}
  BY PeersAre DEF Other
<1>6. /\ StreamStays(stream[r], stream'[r])
      /\ \A q \in Peers \ {r} : stream'[q] = stream[q]
  BY <1>4, <1>5, SendEffect, StreamStaysBy, StaysUnchanged
<1> QED
  BY <1>1, <1>2, <1>6, NoCandidate

\* The other events: the stream to a peer that is ready or quits ends.
LEMMA EventOrder ==
  ASSUME IInv, InOrder, NEW p \in Peers,
         \/ OnRtcFailure(p) \/ OnRtcSetRemoteSessionSuccess(p) \/ OnRtcOnDataChannel(p)
         \/ OnPeerConnected(p) \/ OnPeerDisconnected(p) \/ SlotWithoutConnection(p)
  PROVE  InOrder'
<1>1. QueueStays(queue[p], queue'[p]) /\ \A q \in Peers \ {p} : queue'[q] = queue[q]
  <2>1. CASE queue' = queue
    BY <2>1, StaysUnchanged
  <2>2. ASSUME NEW name, name # "IceCandidate", Takes(p, name)
        PROVE  /\ QueueStays(queue[p], queue'[p])
               /\ \A q \in Peers \ {p} : queue'[q] = queue[q]
    BY <2>2, TakeEffect, QueueStaysBy
  <2> QED
    BY <2>1, <2>2 DEF OnRtcFailure, OnRtcSetRemoteSessionSuccess, OnRtcOnDataChannel,
                      OnPeerConnected, OnPeerDisconnected, SlotWithoutConnection
<1>2. faults' = faults
  BY DEF OnRtcFailure, OnRtcSetRemoteSessionSuccess, OnRtcOnDataChannel, OnPeerConnected,
         OnPeerDisconnected, SlotWithoutConnection, Takes
<1>3. \A q \in Peers : /\ peer'[q].remote = peer[q].remote
                       /\ peer'[q].added = peer[q].added
                       /\ peer'[q].buffer = peer[q].buffer
                       /\ peer'[q].gathered = peer[q].gathered
                       /\ peer[q].ready => peer'[q].ready
                       /\ peer[q].quit => peer'[q].quit
  BY FlagSet DEF OnRtcFailure, OnRtcSetRemoteSessionSuccess, OnRtcOnDataChannel,
                 OnPeerConnected, OnPeerDisconnected, SlotWithoutConnection
<1>4. CASE stream' = stream
  BY <1>1, <1>2, <1>3, <1>4, StaysUnchanged, NoCandidate
<1>5. CASE /\ stream' = [stream EXCEPT ![p] = << >>]
           /\ peer' \in {[peer EXCEPT ![p].ready = TRUE], [peer EXCEPT ![p].quit = TRUE]}
  <2>1. peer'[p].ready \/ peer'[p].quit
    <3>1. PICK me : me = peer[p]
      OBVIOUS
    <3>2. me \in PeerRecord
      BY <3>1, StateFacts
    <3>3. PICK new \in {[me EXCEPT !.ready = TRUE], [me EXCEPT !.quit = TRUE]} :
            peer' = [peer EXCEPT ![p] = new]
      BY <1>5, <3>1 DEF IInv, TypeOK
    <3>4. new.ready \/ new.quit
      BY <3>2, <3>3 DEF PeerRecord
    <3>5. peer'[p] = new
      BY <3>3 DEF IInv, TypeOK
    <3> QED
      BY <3>4, <3>5
  <2>2. DOMAIN stream'[p] = {} /\ \A q \in Peers \ {p} : stream'[q] = stream[q]
    BY <1>5, EndEffect
  <2>3. PICK r \in Peers : r = Other(p) /\ r # p /\ Other(r) = p /\ \A q \in Peers : q \in {p, r}
    BY PeersAre DEF Other
  <2>4. Way(p)'
    BY <1>1, <1>2, <1>3, <2>1, <2>2, <2>3, StaysUnchanged, WayEnds DEF InOrder
  <2>5. Cut(r) => Cut(r)'
    BY <1>3, CutStays
  <2>6. Way(r)'
    BY <1>1, <1>2, <1>3, <2>2, <2>3, <2>5, StaysUnchanged, WayStays DEF InOrder
  <2> QED
    BY <2>3, <2>4, <2>6 DEF InOrder
<1> QED
  BY <1>4, <1>5 DEF OnRtcFailure, OnRtcSetRemoteSessionSuccess, OnRtcOnDataChannel,
                    OnPeerConnected, OnPeerDisconnected, SlotWithoutConnection

\* At the start nothing was found.
LEMMA InitOrder == Init => InOrder
<1> SUFFICES ASSUME Init, NEW p \in Peers PROVE Way(p)
  BY DEF InOrder
<1>1. /\ peer[p].remote = "none" /\ peer[p].buffer = << >>
      /\ peer[Other(p)].gathered = 0
      /\ DOMAIN stream[p] = {} /\ DOMAIN queue[Other(p)] = {}
  BY PeersAre DEF Init
<1>2. Ahead(peer[p], faults = 0, 0)
  <2>1. Front(peer[p]) = << >>
    BY <1>1 DEF Front
  <2> QED
    BY <1>1, <2>1 DEF Ahead
<1>3. SentIn(stream[p]) = {} /\ FoundIn(queue[Other(p)]) = {} /\ 0 + 1..0 = {}
  BY <1>1 DEF SentIn, FoundIn
<1>4. Path(p, 0, 0)
  BY <1>1, <1>2, <1>3 DEF Path, Ascends, Covers
<1> QED
  BY <1>4 DEF Way

\* Every step keeps the order.
LEMMA NextOrder == IInv /\ BInv /\ InOrder /\ [Next]_vars => InOrder'
<1> SUFFICES ASSUME IInv, BInv, InOrder, [Next]_vars PROVE InOrder'
  OBVIOUS
<1>1. CASE UNCHANGED vars
  <2>1. peer' = peer /\ queue' = queue /\ stream' = stream /\ faults' = faults
    BY <1>1 DEF vars
  <2> QED
    BY <2>1, StaysUnchanged, PeersAre, NoCandidate
<1>2. ASSUME NEW p \in Peers, QueuedEvent(p) PROVE InOrder'
  BY <1>2, OnRtcSetLocalSessionSuccessOrder, OnRtcIceCandidateReceivedOrder, EventOrder
     DEF QueuedEvent
<1>3. ASSUME NEW p \in Peers, StreamMessage(p) PROVE InOrder'
  BY <1>3, StartEstablishConnectionOrder, OnRemoteSdpReceivedOrder,
     OnRemoteIceCandidateReceivedOrder, EventOrder DEF StreamMessage
<1> QED
  BY <1>1, <1>2, <1>3, OnIceCandidateOrder, LibraryOrder DEF Next

\* The three parts of the invariant in every behaviour.
LEMMA OrderInvariance == Spec => [](IInv /\ BInv /\ InOrder)
<1>1. Init => IInv /\ BInv /\ InOrder
  BY InitInv, InitBaton, InitOrder
<1>2. IInv /\ BInv /\ InOrder /\ [Next]_vars => (IInv /\ BInv /\ InOrder)'
  BY NextGood, NextBaton, NextOrder DEF Good
<1> QED
  BY <1>1, <1>2, PTL DEF Spec

\* Each candidate is added at most once and in the order it was found, whatever fails and
\* however descriptions and candidates interleave.
THEOREM AddedOnceInOrderHolds == Spec => []AddedOnceInOrder
<1>1. IInv /\ InOrder => AddedOnceInOrder
  <2> SUFFICES ASSUME IInv, InOrder, NEW p \in Peers,
                      NEW j \in DOMAIN peer[p].added, NEW k \in DOMAIN peer[p].added, j < k
               PROVE  peer[p].added[j] < peer[p].added[k]
    BY DEF AddedOnceInOrder
  <2>1. peer[p].remote # "none"
    <3>1. peer[p].added # << >>
      OBVIOUS
    <3> QED
      BY <3>1 DEF IInv, PeerHolds
  <2>2. Front(peer[p]) = peer[p].added
    BY <2>1 DEF Front
  <2>3. PICK high : Ahead(peer[p], faults = 0, high)
    BY DEF InOrder, Way, Path
  <2> QED
    BY <2>2, <2>3 DEF Ahead
<1> QED
  BY <1>1, OrderInvariance, PTL

\* Without a fault what a peer added or buffered is the beginning of what its partner found.
THEOREM NoneSkippedHolds == Spec => []NoneSkipped
<1>1. IInv /\ InOrder => NoneSkipped
  <2> SUFFICES ASSUME IInv, InOrder, faults = 0, NEW p \in Peers, NEW taken,
                      taken = peer[p].added \o peer[p].buffer, NEW k \in DOMAIN taken
               PROVE  taken[k] = k
    BY DEF NoneSkipped
  <2>1. PICK high \in Nat : Ahead(peer[p], faults = 0, high)
    BY DEF InOrder, Way, Path
  <2>2. peer[p] \in PeerRecord /\ PeerHolds(peer[p])
    BY StateFacts
  <2>3. peer[p].added \in Seq(Candidates) /\ peer[p].buffer \in Seq(Candidates)
    BY <2>2 DEF PeerRecord
  <2>4. taken = Front(peer[p])
    <3>1. CASE peer[p].remote = "none"
      <4>1. peer[p].added = << >>
        BY <2>2, <3>1 DEF PeerHolds
      <4> QED
        BY <2>3, <3>1, <4>1 DEF Front
    <3>2. CASE peer[p].remote # "none"
      <4>1. peer[p].buffer = << >>
        BY <2>1, <3>2 DEF Ahead
      <4> QED
        BY <2>3, <3>2, <4>1 DEF Front
    <3> QED
      BY <3>1, <3>2
  <2>5. Front(peer[p]) \in Seq(Candidates)
    BY <2>3 DEF Front
  <2>6. k \in 1..high
    BY <2>1, <2>4, <2>5 DEF Ahead
  <2> QED
    BY <2>1, <2>4, <2>6 DEF Ahead
<1> QED
  BY <1>1, OrderInvariance, PTL

=============================================================================
