---------------------------- MODULE RtcNegotiation ----------------------------
(***************************************************************************)
(* An agent and a controller from the pairing of their sessions to Ready   *)
(* (RtcClient with AgentClient and ControllerClient, Agent, Controller).   *)
(*                                                                         *)
(* Three kinds of step interleave.  The WebRTC library works on a thread   *)
(* of its own; its observers only emit signals, which are queued to the    *)
(* Qt thread (RtcClient.cpp:149-161).  The Qt thread takes an event from   *)
(* that queue, or a message of the partner from the stream of the match    *)
(* server.  The library is external: what it may do is what the code       *)
(* around it provides for.                                                 *)
(***************************************************************************)
EXTENDS Naturals, Sequences

CONSTANTS
  MaxCandidates, \* bound: ICE candidates a peer gathers
  MaxFaults      \* bound: descriptions, candidates and connections that fail

ASSUME BoundsAssumption == MaxCandidates \in Nat /\ MaxFaults \in Nat

Peers == {"agent", "controller"}
Other(p) == IF p = "agent" THEN "controller" ELSE "agent"
SdpTypes == {"offer", "answer"}
Candidates == 1..MaxCandidates

\* What waits in the event queue of a peer, and in its stream from the server.
Events == [event : {"SetLocalSessionSuccess", "SetLocalSessionFailed",
                    "SetRemoteSessionSuccess", "SetRemoteSessionFailed",
                    "Connected", "Disconnected", "Failed", "DataChannel"}]
            \cup [event : {"IceCandidate"}, candidate : Candidates]
Messages == [type : {"ExchangeSessionDescription"}, sdp_type : SdpTypes]
              \cup [type : {"ExchangeIceCandidate"}, candidate : Candidates]

VARIABLES
  peer,   \* the two processes, with the library as far as they see it
  queue,  \* per peer, the events posted to its Qt thread
  stream, \* per peer, what the server forwards to it
  faults  \* how much went wrong

vars == <<peer, queue, stream, faults>>

(***************************************************************************)
(* peer[p].started    Init ran: the slots are connected                    *)
(*        .connection m_pkPeerConnection is set                            *)
(*        .setting    the SetLocalDescription under way in the library     *)
(*        .local      local_description()                                  *)
(*        .remote     remote_description()                                 *)
(*        .buffer     m_kIceCandidateBuffer                                *)
(*        .added      history: the candidates AddIceCandidate accepted     *)
(*        .gathered   how many candidates the library found                *)
(*        .linked     the library reported the connection                  *)
(*        .announced  the library reported the data channel                *)
(*        .channel    m_pkDataChannel is set                               *)
(*        .ready      Ready was emitted, the match server was left         *)
(*        .error      ErrorHappen was emitted                              *)
(*        .quit       Finish was emitted, the process ended                *)
(***************************************************************************)
PeerRecord ==
  [started : BOOLEAN, connection : BOOLEAN, setting : SdpTypes \cup {"none"},
   local : SdpTypes \cup {"none"}, remote : SdpTypes \cup {"none"},
   buffer : Seq(Candidates), added : Seq(Candidates), gathered : 0..MaxCandidates,
   linked : BOOLEAN, announced : BOOLEAN, channel : BOOLEAN,
   ready : BOOLEAN, error : BOOLEAN, quit : BOOLEAN]

Init ==
  /\ peer = [p \in Peers |->
       [started |-> FALSE, connection |-> FALSE, setting |-> "none", local |-> "none",
        remote |-> "none", buffer |-> << >>, added |-> << >>, gathered |-> 0,
        linked |-> FALSE, announced |-> FALSE, channel |-> FALSE, ready |-> FALSE,
        error |-> FALSE, quit |-> FALSE]]
  /\ queue = [p \in Peers |-> << >>]
  /\ stream = [p \in Peers |-> << >>]
  /\ faults = 0

\* An outcome that is a fault is possible while the bound allows one.
Outcome(fault) == IF fault THEN faults < MaxFaults /\ faults' = faults + 1
                           ELSE UNCHANGED faults

Post(p, event) == queue' = [queue EXCEPT ![p] = Append(@, event)]

-----------------------------------------------------------------------------
(* The library thread (external) *)

\* SetLocalDescription without a description makes an answer to a remote offer
\* and an offer otherwise.
ImplicitType(me) == IF me.remote = "offer" THEN "answer" ELSE "offer"

\* An offer is out of place while an own offer has no answer, an answer otherwise.
AwaitsAnswer(me) == /\ me.remote = "none"
                    /\ me.local = "offer" \/ me.setting = "offer"
Acceptable(me, sdp_type) == (sdp_type = "answer") <=> AwaitsAnswer(me)

\* It ends with a call of the observer.
LocalDescriptionSet(p) ==
  /\ peer[p].setting # "none"
  /\ \E ok \in BOOLEAN :
       /\ Outcome(~ok)
       /\ peer' = [peer EXCEPT ![p].setting = "none",
                               ![p].local = IF ok THEN peer[p].setting ELSE @]
       /\ Post(p, [event |-> IF ok THEN "SetLocalSessionSuccess"
                                   ELSE "SetLocalSessionFailed"])
  /\ UNCHANGED stream

\* Candidates are gathered from the start of SetLocalDescription on, so that
\* the first ones may be posted before its success is.
OnIceCandidate(p) ==
  /\ peer[p].setting # "none" \/ peer[p].local # "none"
  /\ peer[p].gathered < MaxCandidates
  /\ peer' = [peer EXCEPT ![p].gathered = @ + 1]
  /\ Post(p, [event |-> "IceCandidate", candidate |-> peer[p].gathered + 1])
  /\ UNCHANGED <<stream, faults>>

\* A path exists between peers that described themselves to each other once one
\* of them has an address of the other.
Reachable == /\ \A p \in Peers : /\ peer[p].local # "none"
                                 /\ peer[p].remote = peer[Other(p)].local
             /\ \E p \in Peers : peer[p].added # << >>

OnConnectionChange(p) ==
  /\ ~peer[p].linked /\ (Reachable \/ peer[Other(p)].linked)
  /\ \E ok \in BOOLEAN :
       /\ Outcome(~ok)
       /\ Post(p, [event |-> IF ok THEN "Connected" ELSE "Failed"])
  /\ peer' = [peer EXCEPT ![p].linked = TRUE]
  /\ UNCHANGED stream

\* The agent made the channel itself (InitDataChannel); the controller is told.
OnDataChannel(p) ==
  /\ p = "controller" /\ ~peer[p].announced
  /\ \A q \in Peers : peer[q].linked
  /\ peer' = [peer EXCEPT ![p].announced = TRUE]
  /\ Post(p, [event |-> "DataChannel"])
  /\ UNCHANGED <<stream, faults>>

\* The other process ended, or the network failed.
OnConnectionLost(p) ==
  /\ peer[p].linked
  /\ Outcome(~peer[Other(p)].quit)
  /\ ~\E k \in DOMAIN queue[p] : queue[p][k].event = "Disconnected"
  /\ Post(p, [event |-> "Disconnected"])
  /\ UNCHANGED <<peer, stream>>

-----------------------------------------------------------------------------
(* The Qt thread *)

\* MatchClient::SendMsg: the server forwards while both peers are there.
SendSignalMsg(p, msg) ==
  stream' = IF peer[p].ready \/ peer[Other(p)].ready \/ peer[Other(p)].quit THEN stream
            ELSE [stream EXCEPT ![Other(p)] = Append(@, msg)]

InitPeerConncetion(me) == [me EXCEPT !.started = TRUE, !.connection = TRUE]

\* Agent::Init offers at once; Controller::Init waits.  Nothing the partner sent
\* precedes it (Signalling!RoleBeforeDescription).
Offering(me) == [InitPeerConncetion(me) EXCEPT !.setting = "offer", !.channel = TRUE]

\* When InitPeerConncetion, InitDataChannel or InitVideoTrack fails the agent emits
\* ErrorHappen and does not offer; the controller does not look at the result.
NotOffering(me, made) == [me EXCEPT !.started = TRUE, !.connection = made, !.error = TRUE]
Unconnected(me) == [me EXCEPT !.started = TRUE]

StartEstablishConnection(p) ==
  /\ ~peer[p].started
  /\ \/ /\ peer' = [peer EXCEPT ![p] = IF p = "agent" THEN Offering(@)
                                                   ELSE InitPeerConncetion(@)]
        /\ UNCHANGED faults
     \/ /\ Outcome(TRUE)
        /\ \E made \in BOOLEAN :
             peer' = [peer EXCEPT ![p] = IF p = "agent" THEN NotOffering(@, made)
                                                      ELSE Unconnected(@)]
  /\ UNCHANGED <<queue, stream>>

\* Slip: the buffer is cleared without being added.
FlushForgetting(me, k) == [me EXCEPT !.buffer = << >>]

\* The buffered candidates are added until one is refused; then all stay.
Flush(me, k) ==
  [me EXCEPT !.added = @ \o SubSeq(me.buffer, 1, k),
             !.buffer = IF k = Len(@) THEN << >> ELSE @,
             !.error = @ \/ k < Len(me.buffer)]

Consume(p) == stream' = [stream EXCEPT ![p] = Tail(@)]
Receives(p, type) == /\ peer[p].started /\ peer[p].connection /\ ~peer[p].quit
                     /\ stream[p] # << >> /\ Head(stream[p]).type = type

OnRemoteSdpReceived(p) ==
  /\ Receives(p, "ExchangeSessionDescription")
  /\ LET sdp_type == Head(stream[p]).sdp_type
         Answering(me) ==
           IF sdp_type = "offer" THEN [me EXCEPT !.setting = ImplicitType(me)] ELSE me
         me == peer[p]
     IN  \/ \* SetRemoteSdp: no description can be created from the text
            /\ Outcome(TRUE)
            /\ peer' = [peer EXCEPT ![p].error = TRUE]
            /\ UNCHANGED queue
         \/ \* the library takes the description
            /\ Acceptable(me, sdp_type)
            /\ \E k \in 0..Len(me.buffer) :
                 /\ Outcome(k < Len(me.buffer))
                 /\ peer' = [peer EXCEPT ![p] =
                               Flush(Answering([me EXCEPT !.remote = sdp_type]), k)]
            /\ Post(p, [event |-> "SetRemoteSessionSuccess"])
         \/ \* the library refuses it, and every candidate unless it has another;
            \* a refused offer is answered all the same, by an offer
            /\ Outcome(Acceptable(me, sdp_type))
            /\ peer' = [peer EXCEPT ![p] =
                 Flush(Answering(me), IF me.remote = "none" THEN 0 ELSE Len(me.buffer))]
            /\ Post(p, [event |-> "SetRemoteSessionFailed"])
  /\ Consume(p)

\* Slips: no candidate is buffered, the own description is asked for in place of
\* the partner's, and the buffer is filled from the front.
TakeUnbuffered(me, candidate, ok) ==
  IF ok /\ me.remote # "none" THEN [me EXCEPT !.added = Append(@, candidate)]
                              ELSE [me EXCEPT !.error = TRUE]
TakeAfterLocal(me, candidate, ok) ==
  IF me.local # "none" THEN [me EXCEPT !.added = Append(@, candidate)]
                       ELSE [me EXCEPT !.buffer = Append(@, candidate)]
TakeInFront(me, candidate, ok) ==
  IF me.remote # "none" THEN [me EXCEPT !.added = Append(@, candidate)]
                        ELSE [me EXCEPT !.buffer = <<candidate>> \o @]

TakeCandidate(me, candidate, ok) ==
  CASE me.remote # "none" /\ ok -> [me EXCEPT !.added = Append(@, candidate)]
    [] me.remote # "none" /\ ~ok -> [me EXCEPT !.error = TRUE]
    [] OTHER -> [me EXCEPT !.buffer = Append(@, candidate)]

OnRemoteIceCandidateReceived(p) ==
  /\ Receives(p, "ExchangeIceCandidate")
  /\ LET candidate == Head(stream[p]).candidate
     IN  \/ \* CreateIceCandidate fails
            /\ Outcome(TRUE)
            /\ peer' = [peer EXCEPT ![p].error = TRUE]
         \/ \E ok \in BOOLEAN :
              /\ ok \/ peer[p].remote # "none"
              /\ Outcome(~ok)
              /\ peer' = [peer EXCEPT ![p] = TakeCandidate(@, candidate, ok)]
  /\ Consume(p)
  /\ UNCHANGED queue

\* Without a connection the slots use a null pointer and the process ends.
SlotWithoutConnection(p) ==
  /\ peer[p].started /\ ~peer[p].connection /\ ~peer[p].quit
  /\ stream[p] # << >>
  /\ peer' = [peer EXCEPT ![p].quit = TRUE]
  /\ stream' = [stream EXCEPT ![p] = << >>]
  /\ UNCHANGED <<queue, faults>>

\* The event loop takes the next event the library posted.
Takes(p, event) == /\ ~peer[p].quit
                   /\ queue[p] # << >> /\ Head(queue[p]).event = event
                   /\ queue' = [queue EXCEPT ![p] = Tail(@)]
                   /\ UNCHANGED faults

OnRtcSetLocalSessionSuccess(p) ==
  /\ Takes(p, "SetLocalSessionSuccess")
  /\ SendSignalMsg(p, [type |-> "ExchangeSessionDescription",
                       sdp_type |-> peer[p].local])
  /\ UNCHANGED peer

\* Slip: the index of the candidate is one too high.
IceCandidateReceivedNext(p) ==
  /\ Takes(p, "IceCandidate")
  /\ SendSignalMsg(p, [type |-> "ExchangeIceCandidate",
                       candidate |-> Head(queue[p]).candidate + 1])
  /\ UNCHANGED peer
OnRtcIceCandidateReceived(p) ==
  /\ Takes(p, "IceCandidate")
  /\ SendSignalMsg(p, [type |-> "ExchangeIceCandidate",
                       candidate |-> Head(queue[p]).candidate])
  /\ UNCHANGED peer

\* OnRtcSetLocalSessionFailed, OnRtcSetRemoteSessionFailed and kFailed in
\* OnRtcPeerConnectionStateChange emit ErrorHappen, connected to nothing.
OnRtcFailure(p) ==
  /\ \/ Takes(p, "SetLocalSessionFailed")
     \/ Takes(p, "SetRemoteSessionFailed")
     \/ Takes(p, "Failed")
  /\ peer' = [peer EXCEPT ![p].error = TRUE]
  /\ UNCHANGED stream

\* Slip: a description that was taken is taken for a connection.
RemoteSessionSuccessIsReady(p) ==
  /\ Takes(p, "SetRemoteSessionSuccess")
  /\ peer' = [peer EXCEPT ![p].ready = TRUE]
  /\ UNCHANGED stream

OnRtcSetRemoteSessionSuccess(p) ==
  /\ Takes(p, "SetRemoteSessionSuccess")
  /\ UNCHANGED <<peer, stream>>

\* PeerConnected, Ready, and Application leaves the match server.
OnPeerConnected(p) ==
  /\ Takes(p, "Connected")
  /\ peer' = [peer EXCEPT ![p].ready = TRUE]
  /\ stream' = [stream EXCEPT ![p] = << >>]

\* PeerDisconnected, Finish, and Application quits.
OnPeerDisconnected(p) ==
  /\ Takes(p, "Disconnected")
  /\ peer' = [peer EXCEPT ![p].quit = TRUE]
  /\ stream' = [stream EXCEPT ![p] = << >>]

OnRtcOnDataChannel(p) ==
  /\ Takes(p, "DataChannel")
  /\ peer' = [peer EXCEPT ![p].channel = TRUE]
  /\ UNCHANGED stream

-----------------------------------------------------------------------------
Library(p) == \/ LocalDescriptionSet(p)
              \/ OnConnectionChange(p)
              \/ OnDataChannel(p)

QueuedEvent(p) == \/ OnRtcSetLocalSessionSuccess(p)
                  \/ OnRtcIceCandidateReceived(p)
                  \/ OnRtcFailure(p)
                  \/ OnRtcSetRemoteSessionSuccess(p)
                  \/ OnPeerConnected(p)
                  \/ OnPeerDisconnected(p)
                  \/ OnRtcOnDataChannel(p)

StreamMessage(p) == \/ StartEstablishConnection(p)
                    \/ OnRemoteSdpReceived(p)
                    \/ OnRemoteIceCandidateReceived(p)
                    \/ SlotWithoutConnection(p)

Next == \E p \in Peers : \/ Library(p)
                         \/ OnIceCandidate(p)
                         \/ OnConnectionLost(p)
                         \/ QueuedEvent(p)
                         \/ StreamMessage(p)

\* The library finishes what it began, an event loop leaves nothing posted to it
\* for ever, whichever of its two sources it comes from.
Fairness == \A p \in Peers : /\ WF_vars(Library(p))
                             /\ WF_vars(OnIceCandidate(p))
                             /\ WF_vars(QueuedEvent(p))
                             /\ WF_vars(StreamMessage(p))

Spec == Init /\ [][Next]_vars /\ Fairness

-----------------------------------------------------------------------------
(* Properties *)

\* Type invariant.
TypeOK == /\ peer \in [Peers -> PeerRecord]
          /\ queue \in [Peers -> Seq(Events)]
          /\ stream \in [Peers -> Seq(Messages)]
          /\ faults \in 0..MaxFaults

\* Each candidate of the partner is added at most once and in the order it was
\* found, through the buffer or past it, also when adding one of them failed and
\* the buffer was left as it was (RtcClient.cpp:221-228).
AddedOnceInOrder ==
  \A p \in Peers : \A j, k \in DOMAIN peer[p].added :
    j < k => peer[p].added[j] < peer[p].added[k]

\* As long as nothing failed no candidate is passed over: what a peer added or
\* buffered is the beginning of what its partner found.
NoneSkipped ==
  faults = 0 => \A p \in Peers :
    LET taken == peer[p].added \o peer[p].buffer
    IN  \A k \in DOMAIN taken : taken[k] = k

\* A candidate is given to the library only when it has a remote description,
\* and waits only while there is none ("Remote ice candidate may arrive before
\* remote description set", RtcClient.cpp:406), or after an error.
WaitsOnlyForDescription ==
  \A p \in Peers :
    /\ peer[p].added # << >> => peer[p].remote # "none"
    /\ peer[p].buffer # << >> => peer[p].remote = "none" \/ peer[p].error

\* Both peers become ready and the controller gets its data channel although the
\* first one that is ready leaves the match server, unless something failed.
BothReady ==
  <>(\/ faults > 0
     \/ (\A p \in Peers : peer[p].ready) /\ peer["controller"].channel)

\* The peers implement the handshake of Negotiation, faults included: a candidate,
\* a callback or a refused description never makes a peer ready early, and the
\* agent knows the controller's description only after the controller knew its own.
Handshake == INSTANCE Negotiation WITH
  Agent      <- "agent",
  Controller <- "controller",
  described  <- {p \in Peers : peer[p].remote # "none"},
  ready      <- {p \in Peers : peer[p].ready},
  gone       <- {p \in Peers : peer[p].quit}

ImplementsNegotiation == Handshake!Spec
=============================================================================
