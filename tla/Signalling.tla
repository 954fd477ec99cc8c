------------------------------ MODULE Signalling ------------------------------
(***************************************************************************)
(* Client processes (Application, MatchWnd, MatchClient and the life of an *)
(* Agent or Controller) connected to the match server by TLS streams.      *)
(*                                                                         *)
(* A client process connects once, in the constructor of Application, so a *)
(* client is also the random part of the id of its session.  The server is *)
(* MatchServer: its handlers are used as they are, here they read what the *)
(* clients wrote and their output is what the clients read.                *)
(***************************************************************************)
EXTENDS Integers, Sequences, FiniteSets, FiniteSetsExt, SequencesExt

CONSTANTS
  Clients,        \* the client processes
  Quitters,       \* the clients whose user may close the program at any time
  Losable,        \* the clients whose connection to the server may break
  Hangable,       \* the clients that may stop reading without going away
  Capacity,       \* how many messages a stream takes before a write to it blocks
  SERIAL_NUM_MAX, NoId,
  Nobody          \* the peer of a client that has no remote description

ASSUME SubsetAssumption == Quitters \cup Losable \cup Hangable \subseteq Clients
ASSUME CapacityAssumption == Capacity \in Nat \ {0}
ASSUME NobodyAssumption == Nobody \notin Clients

\* A session description, with its sender in place of its text.
Descriptions == [sdp_type : {"offer", "answer"}, from : Clients]

VARIABLES
  server, \* the match server; server.out is what its handler has yet to write
  client, \* the client processes
  up,     \* per client, what it wrote and the server has not read
  down    \* per client, what the server wrote and the client has not read

vars == <<server, client, up, down>>

Server == INSTANCE MatchServer WITH Tails <- Clients, Payloads <- Descriptions

ASSUME ServerAssumption == SERIAL_NUM_MAX \in Nat \ {0} /\ NoId \notin Server!Session

(***************************************************************************)
(* client[c].state    the process; an assertion that fails ends it         *)
(*          .socket   m_kSocket of MatchClient                             *)
(*          .id       the text of the label m_pkSessionId                  *)
(*          .button   the Confirm button is enabled                        *)
(*          .control  m_pkControllState                                    *)
(*          .local    SetLocalDescription was called and its success,      *)
(*                    which sends the description, is still queued         *)
(*          .peer     who wrote the remote description                     *)
(*          .ready    the control state emitted Ready                      *)
(***************************************************************************)
States == {"running", "hung", "quit", "abortedByReply", "abortedByRequest"}
ClientRecord == [state : States, socket : {"connecting", "connected", "closed", "lost"},
                 id : Server!Ids, button : BOOLEAN,
                 control : {"none", "agent", "controller"},
                 local : BOOLEAN, peer : Clients \cup {Nobody}, ready : BOOLEAN]

IsRunning(c) == client[c].state = "running"
Gone(c) == client[c].socket \in {"closed", "lost"}
SessionsOf(c) == {s \in DOMAIN server.pending : s.tail = c}

Init == /\ Server!Init
        /\ client = [c \in Clients |->
             [state |-> "running", socket |-> "connecting", id |-> NoId,
              button |-> TRUE, control |-> "none", local |-> FALSE,
              peer |-> Nobody, ready |-> FALSE]]
        /\ up = [c \in Clients |-> << >>]
        /\ down = [c \in Clients |-> << >>]

-----------------------------------------------------------------------------
(* The streams *)

\* Handlers write synchronously, so the only thread of the server waits in every write
\* until it returns.  What a handler does besides its writes is done when it begins,
\* which nobody can tell as no other handler runs in between.
Handle(st) == server' = st /\ UNCHANGED down

Idle == server.running /\ server.out = << >>

-----------------------------------------------------------------------------
(* Completion handlers of the match server *)

Accept(c) ==
  /\ Idle /\ server.accepts > 0
  /\ client[c].socket = "connecting"
  /\ SessionsOf(c) = {}
  /\ Handle(Server!OnAcceptDone(Server!Accepted, c, TRUE))
  /\ UNCHANGED <<client, up>>

\* The TLS handshake ends on both sides; MatchClient::OnReady starts to read.
Handshake(c) ==
  \E s \in SessionsOf(c) :
    /\ Idle /\ Server!Running(s, "handshake")
    /\ client[c].socket = "connecting"
    /\ client' = [client EXCEPT ![c].socket = "connected"]
    /\ Handle(Server!OnHandshakeDone(Server!Completed(s), s, "ok"))
    /\ UNCHANGED up

ReadHeader(c) ==
  \E s \in SessionsOf(c) :
    /\ Idle /\ Server!Running(s, "header")
    /\ up[c] # << >>
    /\ Handle(Server!OnHeaderReadDone(Server!Completed(s), s, FALSE))
    /\ UNCHANGED <<client, up>>

ReadBody(c) ==
  \E s \in SessionsOf(c) :
    /\ Idle /\ Server!Running(s, "body")
    /\ up[c] # << >>
    /\ Handle(Server!OnBodyReadDone(Server!Completed(s), s, Head(up[c]), "ok", "ok"))
    /\ up' = [up EXCEPT ![c] = Tail(@)]
    /\ UNCHANGED client

\* The end of the stream closes the session; a broken connection may instead
\* be reported as an error that does not (a timeout of the network).
ReadEnd(c) ==
  \E s \in SessionsOf(c) :
    /\ Idle /\ Gone(c) /\ up[c] = << >>
    /\ \E fault \in IF client[c].socket = "lost" THEN Server!Faults ELSE {"closing"} :
         \/ /\ Server!Running(s, "handshake")
            /\ Handle(Server!OnHandshakeError(Server!Completed(s), s, fault))
         \/ /\ Server!Running(s, "header") \/ Server!Running(s, "body")
            /\ Handle(Server!OnReadError(Server!Completed(s), s, fault))
    /\ UNCHANGED <<client, up>>

\* A write returns at once when the client is there and its stream has room.
WriteTaken ==
  LET next == Head(server.out)
      c == next.to.tail
  IN  /\ ~Gone(c) /\ Len(down[c]) < Capacity
      /\ server' = [server EXCEPT !.out = Tail(@)]
      /\ down' = [down EXCEPT ![c] = Append(@, next.msg)]

\* Slip: a write that fails is tried again.
RetryWrite == /\ server.running /\ server.out # << >>
              /\ WriteTaken
              /\ UNCHANGED <<client, up>>

\* The stream of the client takes the message; or the client is gone, and what is
\* written to it may still be taken, or fail with a reset or with an error that is
\* not closing.  After an exception nothing more is written.
WriteReturns ==
  /\ server.running /\ server.out # << >>
  /\ LET next == Head(server.out)
         rest == [server EXCEPT !.out = Tail(@)]
     IN  \/ WriteTaken
         \/ /\ Gone(next.to.tail)
            /\ \E result \in Server!WriteResults :
                 Handle(IF result = "ok" THEN rest
                        ELSE Server!OnWriteError(rest, next.to, result))
  /\ UNCHANGED <<client, up>>

-----------------------------------------------------------------------------
(* Events of a client process *)

\* The process is gone; the part of its output that left may still arrive.
Exit(c, state, socket) ==
  /\ client' = [client EXCEPT ![c].state = state, ![c].socket = socket]
  /\ \E k \in 0..Len(up[c]) : up' = [up EXCEPT ![c] = SubSeq(@, 1, k)]
  /\ down' = [down EXCEPT ![c] = << >>]

SendMsg(c, msg) == up' = [up EXCEPT ![c] = Append(@, msg)]

\* Slip: the button stays enabled after a request.
ConfirmKeepingButton(c, id) ==
  /\ IsRunning(c) /\ client[c].button /\ ~client[c].ready
  /\ Len(up[c]) < 3
  /\ SendMsg(c, [type |-> "RequestConnection", id |-> id])
  /\ UNCHANGED <<server, client, down>>

\* MatchWnd::OnConfirm and Application::ConnectToSession.  The window is
\* hidden once the control state is ready.  Before the socket is connected it
\* keeps what is written.
ConnectToSession(c, id) ==
  /\ IsRunning(c) /\ client[c].button /\ ~client[c].ready
  /\ client' = [client EXCEPT ![c].button = FALSE]
  /\ SendMsg(c, [type |-> "RequestConnection", id |-> id])
  /\ UNCHANGED <<server, down>>

\* OnReadyRead and ResolveMsg hand the next message to its slot.
Receives(c, type) ==
  /\ IsRunning(c) /\ client[c].socket = "connected"
  /\ down[c] # << >> /\ Head(down[c]).type = type

Consume(c) == /\ down' = [down EXCEPT ![c] = Tail(@)]
              /\ UNCHANGED <<server, up>>

\* Slip: the message is shown in place of the id it carries.
UpdateSessionIdRaw(c) ==
  /\ Receives(c, "UpdateSessionId")
  /\ client' = [client EXCEPT ![c].id = Head(down[c])]
  /\ Consume(c)

UpdateSessionId(c) ==
  /\ Receives(c, "UpdateSessionId")
  /\ client' = [client EXCEPT ![c].id = Head(down[c]).id]
  /\ Consume(c)

\* Agent::Init starts to establish the connection: an offer will follow.
OnRemoteRequestConnection(c) ==
  /\ Receives(c, "RemoteRequestConnection")
  /\ \/ /\ client[c].control = "none"
        /\ client' = [client EXCEPT ![c].control = "agent", ![c].local = TRUE]
        /\ Consume(c)
     \/ /\ client[c].control # "none"
        /\ Exit(c, "abortedByRequest", "closed")
        /\ UNCHANGED server

\* Slip: the branch is a copy of the one above and creates an Agent.
OnReplyConnectionAsAgent(c) ==
  /\ Receives(c, "ReplyConnection")
  /\ client' = [client EXCEPT ![c].button = ~Head(down[c]).success,
                              ![c].control = IF Head(down[c]).success THEN "agent" ELSE @,
                              ![c].local = @ \/ Head(down[c]).success]
  /\ Consume(c)

\* Controller::Init waits for the offer.
OnReplyConnection(c) ==
  /\ Receives(c, "ReplyConnection")
  /\ LET success == Head(down[c]).success
     IN  \/ /\ ~success
            /\ client' = [client EXCEPT ![c].button = TRUE]
            /\ Consume(c)
         \/ /\ success /\ client[c].control = "none"
            /\ client' = [client EXCEPT ![c].control = "controller"]
            /\ Consume(c)
         \/ /\ success /\ client[c].control # "none"
            /\ Exit(c, "abortedByReply", "closed")
            /\ UNCHANGED server

\* Slip: an offer is set but not answered.
OnRemoteSdpUnanswered(c) ==
  /\ Receives(c, "ExchangeSessionDescription")
  /\ client' = [client EXCEPT ![c].peer = Head(down[c]).data.from]
  /\ Consume(c)

\* RtcClient::OnRemoteSdpReceived, connected to the signal by Init; without a
\* control state there is no slot and the description is lost.
OnRemoteSdpReceived(c) ==
  /\ Receives(c, "ExchangeSessionDescription")
  /\ LET sdp == Head(down[c]).data
     IN  client' = IF client[c].control = "none" THEN client
                   ELSE [client EXCEPT ![c].peer = sdp.from,
                                       ![c].local = @ \/ sdp.sdp_type = "offer"]
  /\ Consume(c)

\* RtcClient::OnRtcSetLocalSessionSuccess, queued by the signalling thread.
OnRtcSetLocalSessionSuccess(c) ==
  /\ IsRunning(c) /\ client[c].local /\ client[c].socket = "connected"
  /\ client' = [client EXCEPT ![c].local = FALSE]
  /\ SendMsg(c, [type |-> "ExchangeSessionDescription",
                 data |-> [sdp_type |-> IF client[c].control = "agent"
                                        THEN "offer" ELSE "answer",
                           from |-> c]])
  /\ UNCHANGED <<server, down>>

\* Both have set the other's description, so a path may be found; either is
\* told in its own time.  Ready makes Application leave the match server.
Described(c) == client[c].peer # Nobody /\ ~client[c].local
OnPeerConnected(c) ==
  /\ IsRunning(c) /\ ~client[c].ready /\ Described(c)
  /\ LET d == client[c].peer
     IN  IsRunning(d) /\ client[d].peer = c /\ Described(d)
  /\ client' = [client EXCEPT ![c].ready = TRUE, ![c].socket = "closed"]
  /\ down' = [down EXCEPT ![c] = << >>]
  /\ UNCHANGED <<server, up>>

\* The peer process ended: Finish, and Application quits.
OnPeerDisconnected(c) ==
  /\ IsRunning(c) /\ client[c].ready /\ ~IsRunning(client[c].peer)
  /\ client' = [client EXCEPT ![c].state = "quit"]
  /\ UNCHANGED <<server, up, down>>

\* The process stops taking events, and its connections stay as they are.
Hang(c) == /\ c \in Hangable /\ IsRunning(c) /\ client[c].socket = "connected"
           /\ client' = [client EXCEPT ![c].state = "hung"]
           /\ UNCHANGED <<server, up, down>>

\* The user closes the program, or ends it because it hangs.
Quit(c) == /\ c \in Quitters /\ client[c].state \in {"running", "hung"}
           /\ Exit(c, "quit", "closed")
           /\ UNCHANGED server

\* MatchClient::OnConnectionError makes Application quit.
OnConnectionError(c) == /\ c \in Losable /\ IsRunning(c) /\ ~Gone(c)
                        /\ Exit(c, "quit", "lost")
                        /\ UNCHANGED server

-----------------------------------------------------------------------------
\* Nobody can name an id that no client displays.
KnownIds == {client[c].id : c \in Clients} \cup {NoId}

ServerStep(c) == \/ Accept(c)
                 \/ Handshake(c)
                 \/ ReadHeader(c)
                 \/ ReadBody(c)
                 \/ ReadEnd(c)

StreamStep(c) == \/ UpdateSessionId(c)
                 \/ OnRemoteRequestConnection(c)
                 \/ OnReplyConnection(c)
                 \/ OnRemoteSdpReceived(c)

ClientStep(c) == \/ ServerStep(c)
                 \/ StreamStep(c)
                 \/ OnRtcSetLocalSessionSuccess(c)
                 \/ OnPeerConnected(c)
                 \/ OnPeerDisconnected(c)
                 \/ \E id \in KnownIds : ConnectToSession(c, id)
                 \/ Hang(c)
                 \/ Quit(c)
                 \/ OnConnectionError(c)

Next == WriteReturns \/ \E c \in Clients : ClientStep(c)

\* The io_context takes completed operations in turn, also when its thread waits in
\* a write again and again; the event loops handle what is ready, and a queued event
\* is not overtaken for ever by the socket; users need not do anything.
Fairness == /\ WF_vars(WriteReturns)
            /\ \A c \in Clients : /\ SF_vars(ServerStep(c))
                                 /\ WF_vars(StreamStep(c))
                                 /\ WF_vars(OnRtcSetLocalSessionSuccess(c))
                                 /\ WF_vars(OnPeerConnected(c))

Spec == Init /\ [][Next]_vars /\ Fairness

-----------------------------------------------------------------------------
(* Properties *)

\* Type invariant.
TypeOK == /\ Server!TypeOK
          /\ client \in [Clients -> ClientRecord]
          /\ up \in [Clients -> Seq(Server!ClientMsgs)]
          /\ down \in [Clients -> Seq(Server!ServerMsgs)]

RepliesTo(c) == {k \in DOMAIN server.out : /\ server.out[k].to.tail = c
                                           /\ server.out[k].msg.type = "ReplyConnection"}
Count(q, type) == Cardinality({k \in DOMAIN q : q[k].type = type})

\* Requests under way: not yet read by the server, or answered but not yet seen.
Unanswered(c) == Count(up[c], "RequestConnection") + Count(down[c], "ReplyConnection")
                   + Cardinality(RepliesTo(c))

\* A client has at most one request without a reply, and while it has one the
\* button is disabled ("Avoid multiple request before server reply",
\* Application.cpp:64), whatever the order of replies and remote requests.
OneRequestAtATime ==
  \A c \in Clients : IsRunning(c) =>
    /\ Unanswered(c) <= 1
    /\ Unanswered(c) = 1 => ~client[c].button

\* A description never reaches a client before the message that makes it agent
\* or controller: the stream brings that one first, so that the slot exists (the
\* handler of a request writes to both clients before anything else is read).
RoleBeforeDescription ==
  \A c \in Clients : \A k \in DOMAIN down[c] :
    down[c][k].type = "ExchangeSessionDescription" =>
      \/ client[c].control # "none"
      \/ \E j \in 1..k - 1 : \/ down[c][j].type = "RemoteRequestConnection"
                            \/ down[c][j] = Server!Reply(TRUE)

NothingClosed == \A s \in Server!Session : server.closes[s] = 0
Opposite(c, d) == {client[c].control, client[d].control} = {"agent", "controller"}

\* Two clients that have each other's description, and may connect, have opposite
\* roles, whoever came and went before.  And as long as no session was closed a
\* client takes no description but that of the one it was paired with.
\* (The server forwards to whoever is the partner when it reads, Server.cpp:209;
\* after a departure that may be another client than the one meant.)
PeersHaveOppositeRoles ==
  \A c, d \in Clients : client[c].peer = d =>
    /\ client[d].peer = c => Opposite(c, d)
    /\ NothingClosed => Opposite(c, d) /\ client[d].peer \in {c, Nobody}

\* What the two assertions on m_pkControllState rest on: as long as no session
\* was closed by the server neither fails, however requests cross.
AssertionsNeedADeparture ==
  NothingClosed =>
    \A c \in Clients : client[c].state \notin {"abortedByReply", "abortedByRequest"}

\* assert(!m_pkControllState) of Application::OnRemoteRequestConnection.
RemoteRequestFindsNoControl == \A c \in Clients : client[c].state # "abortedByRequest"

\* assert(!m_pkControllState) of Application::OnReplyConnection.
ReplyFindsNoControl == \A c \in Clients : client[c].state # "abortedByReply"

\* A client that hangs stops the server for all others (Session.cpp:94).
BlockedByHung ==
  /\ server.out # << >>
  /\ LET c == Head(server.out).to.tail
     IN  client[c].state = "hung" /\ Len(down[c]) = Capacity

\* The only thread of the server comes back from every write, unless the client
\* hangs: no client waits for the server before it reads what was written to it,
\* and the end of a client ends the write.
WritesReturn == server.out # << >> ~> server.out = << >> \/ BlockedByHung

\* A user who confirmed is not left with a dead button: the request is refused
\* and the button comes back, or the client becomes controller, or an agent that
\* is connected, or its process ends (Application.cpp:62-92).  Only a write that
\* waits for a client that hangs can prevent it.
RequestAnswered ==
  \A c \in Clients : ~client[c].button ~>
    \/ client[c].button
    \/ client[c].control = "controller"
    \/ client[c].ready
    \/ ~IsRunning(c)
    \/ BlockedByHung

\* Once a client has a role its control state becomes ready, unless some client
\* process ended or lost its connection.
RoleBecomesReady ==
  \A c \in Clients : client[c].control # "none" ~>
    client[c].ready \/ \E d \in Clients : ~IsRunning(d)
=============================================================================
