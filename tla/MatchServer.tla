----------------------------- MODULE MatchServer -----------------------------
(***************************************************************************)
(* The match server (src/match_server): IdAllocator, Server and Session.   *)
(*                                                                         *)
(* The process is one thread that runs the completion handlers of an       *)
(* io_context one after the other (main.cpp).  Its whole state is the      *)
(* record "server"; every function of the code is an operator from such a  *)
(* record to the next one, and an action is one completion handler with    *)
(* everything it calls.  Handlers call each other in the middle (a failed  *)
(* write closes a session, closing a session may throw), so the operators  *)
(* are composed in the order of the calls, and once an exception has left  *)
(* io_context::run nothing that follows has any effect.                    *)
(***************************************************************************)
EXTENDS Integers, Sequences, FiniteSets, FiniteSetsExt, Functions

CONSTANTS
  SERIAL_NUM_MAX, \* Server.cpp:5, the number of serial numbers
  Tails,          \* the random 99 letters of an id, fresh for every session
  NoId,           \* the empty string, the id handed out without a serial
  Payloads        \* what an exchanged description or candidate may carry

(***************************************************************************)
(* A Session object is named by the serial number it was allocated and by  *)
(* the random letters: m_kId is const and holds both.  Without a serial    *)
(* number the id is the empty string whatever the object.                  *)
(***************************************************************************)
Session == [serial : 0..SERIAL_NUM_MAX, tail : Tails]
GetId(s) == IF s.serial = 0 THEN NoId ELSE s
Ids == {s \in Session : s.serial # 0} \cup {NoId}

ASSUME MaxAssumption == SERIAL_NUM_MAX \in Nat \ {0}
ASSUME NoIdAssumption == NoId \notin Session

Requests == [type : {"RequestConnection"}, id : Ids]
Exchanges == [type : {"ExchangeSessionDescription", "ExchangeIceCandidate"},
              data : Payloads]
OtherTypes == [type : {"Other"}]
ClientMsgs == Requests \cup Exchanges \cup OtherTypes

ServerMsgs == [type : {"UpdateSessionId"}, id : Ids]
                \cup [type : {"RemoteRequestConnection"}]
                \cup [type : {"ReplyConnection"}, success : BOOLEAN]
                \cup Exchanges

\* The outcomes of a write: an error is "closing" when it is eof,
\* connection_reset or stream_truncated, and "other" when it is not.
Faults == {"closing", "other"}
WriteResults == Faults \cup {"ok"}
Ops == {"handshake", "header", "body", "none"}

VARIABLE server
(***************************************************************************)
(* server.serials   m_kSerialNumAllocationVec                              *)
(*       .sessions  m_kIdToSessionMap, an owning pointer per id            *)
(*       .pairs     m_kIdToPairSessionMap, a weak pointer per id           *)
(*       .accepts   the number of outstanding async_accept calls           *)
(*       .pending   the asynchronous operation outstanding for a session;  *)
(*                  its domain is the set of sessions ever constructed     *)
(*       .running   io_context::run has not been left by an exception      *)
(*       .out       what the last handler wrote, in order                  *)
(*       .told      history: the ids written to the clients they belong    *)
(*                  to; nobody can name any other, they are random         *)
(*       .closes    history: how often OnSessionClose ran for a session    *)
(***************************************************************************)
vars == <<server>>

Size(st) == Cardinality(DOMAIN st.sessions)
Live(st) == Range(st.sessions)

\* std::map::emplace and insert leave an existing entry alone.
Emplace(f, k, v) ==
  [x \in DOMAIN f \cup {k} |-> IF x \in DOMAIN f THEN f[x] ELSE v]
Erase(f, ks) == Restrict(f, DOMAIN f \ ks)

\* weak_ptr::lock succeeds while the map or a pending handler owns the object.
Lock(st, s) == \/ s \in Live(st)
               \/ s \in DOMAIN st.pending /\ st.pending[s] # "none"

-----------------------------------------------------------------------------
(* IdAllocator *)

FreeSerials(st) == {n \in 1..SERIAL_NUM_MAX : ~st.serials[n]}

\* Slips (used by no action): the +1 left out, and the test for end() left out.
SerialFromZero(st) ==
  IF FreeSerials(st) = {} THEN 0 ELSE Min(FreeSerials(st)) - 1
SerialPastTheEnd(st) ==
  IF FreeSerials(st) = {} THEN SERIAL_NUM_MAX + 1 ELSE Min(FreeSerials(st))

AllocateSerialNumber(st) ==
  IF FreeSerials(st) = {} THEN 0 ELSE Min(FreeSerials(st))

MarkAllocated(st, n) == IF n = 0 THEN st ELSE [st EXCEPT !.serials[n] = TRUE]

\* Slip: the -1 from number to index left out.
ReleaseNextSerial(st, n) ==
  IF n >= SERIAL_NUM_MAX \/ n = 0 THEN st ELSE [st EXCEPT !.serials[n + 1] = FALSE]

\* The bound is the size of the vector itself, so the last number is kept.
ReleaseSerialNumber(st, n) ==
  IF n >= SERIAL_NUM_MAX \/ n = 0 THEN st ELSE [st EXCEPT !.serials[n] = FALSE]

\* std::stoi throws on the empty id and nothing up to main catches that.
ReleaseId(st, s) ==
  IF s.serial = 0 THEN [st EXCEPT !.running = FALSE]
                  ELSE ReleaseSerialNumber(st, s.serial)

-----------------------------------------------------------------------------
(* Server and Session: accepting and closing *)

StartAccept(st) == [st EXCEPT !.accepts = @ + 1]

PartnerIds(st, id) ==
  IF id \in DOMAIN st.pairs /\ Lock(st, st.pairs[id])
  THEN {GetId(st.pairs[id])} ELSE {}

\* Slip: the partner keeps its entry in the pair map.
CloseForgettingPartner(st, s) ==
  LET id == GetId(s)
      unpaired == [st EXCEPT !.pairs = Erase(@, {id}), !.closes[s] = @ + 1]
      erased == [ReleaseId(unpaired, s) EXCEPT !.sessions = Erase(@, {id})]
  IN  IF Size(erased) = SERIAL_NUM_MAX - 1 THEN StartAccept(erased) ELSE erased

OnSessionClose(st, s) ==
  LET id == GetId(s)
      unpaired == [st EXCEPT !.pairs = Erase(@, {id} \cup PartnerIds(st, id)),
                             !.closes[s] = @ + 1]
      released == ReleaseId(unpaired, s)
      erased == [released EXCEPT !.sessions = Erase(@, {id})]
  IN  CASE ~released.running -> released
        [] released.running /\ Size(erased) = SERIAL_NUM_MAX - 1 -> StartAccept(erased)
        [] OTHER -> erased

\* OnHandshakeError, OnReadError and OnWriteError test for the same three
\* errors; any other error leaves the session as it is, in both maps.
OnHandshakeError(st, s, fault) ==
  IF fault = "closing" THEN OnSessionClose(st, s) ELSE st
OnReadError(st, s, fault) == IF fault = "closing" THEN OnSessionClose(st, s) ELSE st
OnWriteError(st, s, fault) == IF fault = "closing" THEN OnSessionClose(st, s) ELSE st

\* A synchronous write.
SendMessage(st, s, msg, result) ==
  CASE ~st.running -> st
    [] st.running /\ result = "ok" ->
         [st EXCEPT !.out = Append(@, [to |-> s, msg |-> msg])]
    [] OTHER -> OnWriteError(st, s, result)

Arm(st, s, operation) ==
  IF st.running THEN [st EXCEPT !.pending[s] = operation] ELSE st
StartRead(st, s) == Arm(st, s, "header")

AllocateId(st, t) == [serial |-> AllocateSerialNumber(st), tail |-> t]

\* Slip: the catch clause does not give the id back.
InitWithoutRelease(st, t, constructed) ==
  LET s == AllocateId(st, t)
      allocated == MarkAllocated(st, s.serial)
  IN  IF constructed
      THEN [allocated EXCEPT !.sessions = Emplace(@, GetId(s), s),
                             !.pending = Emplace(@, s, "handshake")]
      ELSE allocated

\* The constructor of Session throws when the peer is gone already: then no
\* session is born and the id is released in the catch clause.
InitSession(st, t, constructed) ==
  LET s == AllocateId(st, t)
      allocated == MarkAllocated(st, s.serial)
  IN  IF constructed
      THEN [allocated EXCEPT !.sessions = Emplace(@, GetId(s), s),
                             !.pending = Emplace(@, s, "handshake")]
      ELSE ReleaseId(allocated, s)

\* Slips: accepting regardless of the limit, and stopping one short of it.
AcceptAlways(st) == IF st.running THEN StartAccept(st) ELSE st
AcceptOneShort(st) ==
  IF st.running /\ Size(st) < SERIAL_NUM_MAX - 1 THEN StartAccept(st) ELSE st

AcceptNext(st) ==
  IF st.running /\ Size(st) < SERIAL_NUM_MAX THEN StartAccept(st) ELSE st

OnAcceptDone(st, t, constructed) == AcceptNext(InitSession(st, t, constructed))

-----------------------------------------------------------------------------
(* Server: matching and forwarding.  w is the result of the write to the   *)
(* partner, r that of the reply to the session itself.                     *)

\* Slip: the target may have a partner already.
MatchableTakesPartner(st, i, target) ==
  /\ i # target
  /\ i \notin DOMAIN st.pairs
  /\ target \in DOMAIN st.sessions

Matchable(st, i, target) ==
  /\ i # target
  /\ i \notin DOMAIN st.pairs
  /\ target \in DOMAIN st.sessions
  /\ target \notin DOMAIN st.pairs

\* Slip: only the direction from the requester is entered.
MatchOneWay(st, i, target) ==
  [st EXCEPT !.pairs = Emplace(@, i, st.sessions[target])]

Match(st, i, target) ==
  [st EXCEPT !.pairs = Emplace(Emplace(@, i, st.sessions[target]),
                               target, st.sessions[i])]

Reply(success) == [type |-> "ReplyConnection", success |-> success]

\* Slips: the requester is not looked up, the answer is true whenever the target
\* is online, and a request that succeeds is not answered.
RequestWithoutLookup(st, s, target, w, r) ==
  IF GetId(s) \in DOMAIN st.sessions /\ Matchable(st, GetId(s), target)
  THEN SendMessage(SendMessage(Match(st, GetId(s), target), st.sessions[target],
                               [type |-> "RemoteRequestConnection"], w),
                   s, Reply(TRUE), r)
  ELSE SendMessage(st, s, Reply(FALSE), r)
RequestTrueIfOnline(st, s, target, w, r) ==
  IF GetId(s) \in DOMAIN st.sessions /\ ~Matchable(st, GetId(s), target)
  THEN SendMessage(st, s, Reply(target \in DOMAIN st.sessions), r)
  ELSE RequestWithoutLookup(st, s, target, w, r)

RequestUnanswered(st, s, target, w, r) ==
  IF GetId(s) \in DOMAIN st.sessions /\ Matchable(st, GetId(s), target)
  THEN SendMessage(Match(st, GetId(s), target), st.sessions[target],
                   [type |-> "RemoteRequestConnection"], w)
  ELSE RequestWithoutLookup(st, s, target, w, r)

OnClientRequestConnection(st, s, target, w, r) ==
  CASE GetId(s) \notin DOMAIN st.sessions -> st
    [] GetId(s) \in DOMAIN st.sessions /\ Matchable(st, GetId(s), target) ->
         SendMessage(SendMessage(Match(st, GetId(s), target), st.sessions[target],
                                 [type |-> "RemoteRequestConnection"], w),
                     s, Reply(TRUE), r)
    [] OTHER -> SendMessage(st, s, Reply(FALSE), r)

\* Slip: a write that fails dissolves the pair.
TransferOrUnpair(st, s, msg, w) ==
  IF GetId(s) \in DOMAIN st.pairs /\ w = "other"
  THEN [st EXCEPT !.pairs = Erase(@, {GetId(s), GetId(st.pairs[GetId(s)])})]
  ELSE st

TransferMsgToPair(st, s, msg, w) ==
  IF GetId(s) \in DOMAIN st.pairs /\ Lock(st, st.pairs[GetId(s)])
  THEN SendMessage(st, st.pairs[GetId(s)], msg, w)
  ELSE st

OnClientMsg(st, s, msg, w, r) ==
  CASE msg.type = "RequestConnection" ->
         OnClientRequestConnection(st, s, msg.id, w, r)
    [] msg \in Exchanges -> TransferMsgToPair(st, s, msg, w)
    [] OTHER -> st

OnSessionReady(st, s, r) ==
  SendMessage(IF r = "ok" THEN [st EXCEPT !.told = @ \cup {GetId(s)}] ELSE st,
              s, [type |-> "UpdateSessionId", id |-> GetId(s)], r)

-----------------------------------------------------------------------------
(* Session: completion handlers *)

OnHandshakeDone(st, s, r) == StartRead(OnSessionReady(st, s, r), s)

OnHeaderReadDone(st, s, tooShort) ==
  IF tooShort THEN OnSessionClose(st, s) ELSE Arm(st, s, "body")

\* Slip: a message that was answered ends the session's reading.
OnBodyReadOnce(st, s, msg, w, r) == OnClientMsg(st, s, msg, w, r)

OnBodyReadDone(st, s, msg, w, r) == StartRead(OnClientMsg(st, s, msg, w, r), s)

-----------------------------------------------------------------------------
(* Actions: io_context::run picks a completed operation and calls its handler *)

Born(t) == \E s \in DOMAIN server.pending : s.tail = t

\* The operation that completed is no longer outstanding.
Completed(s) == [server EXCEPT !.pending[s] = "none", !.out = << >>]
Accepted == [server EXCEPT !.accepts = @ - 1, !.out = << >>]

Running(s, operation) == /\ server.running
                         /\ s \in DOMAIN server.pending
                         /\ server.pending[s] = operation

AcceptDone == /\ server.running /\ server.accepts > 0
              /\ \E t \in Tails, constructed \in BOOLEAN :
                   /\ ~Born(t)
                   /\ server' = OnAcceptDone(Accepted, t, constructed)

AcceptError == /\ server.running /\ server.accepts > 0
               /\ server' = AcceptNext(Accepted)

HandshakeDone(s) == /\ Running(s, "handshake")
                    /\ \E r \in WriteResults :
                         server' = OnHandshakeDone(Completed(s), s, r)

HeaderReadDone(s) == /\ Running(s, "header")
                     /\ \E tooShort \in BOOLEAN :
                          server' = OnHeaderReadDone(Completed(s), s, tooShort)

\* A client can ask for an id it learnt from its owner, or for no id at all.
Sendable == [type : {"RequestConnection"}, id : server.told \cup {NoId}]
              \cup Exchanges \cup OtherTypes

BodyReadDone(s) == /\ Running(s, "body")
                   /\ \E msg \in Sendable, w, r \in WriteResults :
                        server' = OnBodyReadDone(Completed(s), s, msg, w, r)

HandshakeFailed(s) == /\ Running(s, "handshake")
                      /\ \E fault \in Faults :
                           server' = OnHandshakeError(Completed(s), s, fault)

ReadFailed(s) == /\ Running(s, "header") \/ Running(s, "body")
                 /\ \E fault \in Faults :
                      server' = OnReadError(Completed(s), s, fault)

Init == server = [serials  |-> [n \in 1..SERIAL_NUM_MAX |-> FALSE],
                  sessions |-> << >>,
                  pairs    |-> << >>,
                  accepts  |-> 1,
                  pending  |-> << >>,
                  running  |-> TRUE,
                  out      |-> << >>,
                  told     |-> {},
                  closes   |-> [s \in Session |-> 0]]

Next == \/ AcceptDone
        \/ AcceptError
        \/ \E s \in Session : \/ HandshakeDone(s)
                              \/ HeaderReadDone(s)
                              \/ BodyReadDone(s)
                              \/ HandshakeFailed(s)
                              \/ ReadFailed(s)

Spec == Init /\ [][Next]_vars

-----------------------------------------------------------------------------
(* Properties *)

\* The invariants are stated of a record, for the operators above return one,
\* and are properties of the state of the server by the definitions that follow.

Fields == {"serials", "sessions", "pairs", "accepts", "pending", "running",
           "out", "told", "closes"}
HasFields(st) == st = [field \in Fields |-> st[field]]

\* Type invariant: maps are partial functions whose entries carry the id
\* they are filed under, and every session filed was constructed before.
IsState(st) ==
  /\ HasFields(st)
  /\ st.serials \in [1..SERIAL_NUM_MAX -> BOOLEAN]
  /\ DOMAIN st.pending \subseteq Session
  /\ st.pending \in [DOMAIN st.pending -> Ops]
  /\ DOMAIN st.sessions \subseteq Ids
  /\ st.sessions \in [DOMAIN st.sessions -> DOMAIN st.pending]
  /\ \A i \in DOMAIN st.sessions : GetId(st.sessions[i]) = i
  /\ DOMAIN st.pairs \subseteq Ids
  /\ st.pairs \in [DOMAIN st.pairs -> DOMAIN st.pending]
  /\ st.accepts \in Nat
  /\ st.running \in BOOLEAN
  /\ st.out \in Seq([to : Session, msg : ServerMsgs])
  /\ st.told \in SUBSET Ids
  /\ st.closes \in [Session -> Nat]

TypeOK == IsState(server)

IsMatched(st) ==
  \A i \in DOMAIN st.pairs :
    LET j == GetId(st.pairs[i])
    IN  /\ i # j
        /\ {i, j} \subseteq DOMAIN st.pairs \cap DOMAIN st.sessions
        /\ st.pairs[i] = st.sessions[j]
        /\ st.pairs[j] = st.sessions[i]

\* The pair map is a matching of the sessions in the session map: symmetric,
\* never a session with itself, and never pointing at a session that is gone,
\* so that weak_ptr::lock cannot fail (Server.cpp:128-145, 184-205).
PairsMatched == IsMatched(server)

IsListening(st) == st.running /\ Size(st) < SERIAL_NUM_MAX => st.accepts > 0

\* The server never goes deaf: with room in the session map an accept is
\* outstanding, although OnAcceptDone stops accepting at the limit and only
\* the close that makes room again resumes (Server.cpp:94, 142).
ListeningWhileRoom == IsListening(server)

SerialsHeld(st) ==
  st.running =>
    \A n \in 1..SERIAL_NUM_MAX - 1 :
      st.serials[n] => \E i \in DOMAIN st.sessions : st.sessions[i].serial = n

\* A serial number other than the last one is marked only while a session in
\* the map holds it: no path through an error or an exception loses it.
NoSerialLeak == SerialsHeld(server)

StopsWhenExhausted(st) ==
  ~st.running \/ (\E s \in DOMAIN st.pending : s.serial = 0) =>
    st.serials[SERIAL_NUM_MAX]

\* The process dies of the empty id only after every serial number, the last
\* one included, was handed out: below that load no client can stop it.
StopNeedsExhaustion == StopsWhenExhausted(server)

ForgetsClosed(st) ==
  st.running =>
    \A s \in Session : st.closes[s] > 0 =>
      /\ \A i \in DOMAIN st.sessions : st.sessions[i] # s
      /\ \A i \in DOMAIN st.pairs : st.pairs[i] # s

\* A session that was closed is in neither map, so it cannot be matched, be a
\* partner or keep a place, even while a read of it is still outstanding.
ClosedIsForgotten == ForgetsClosed(server)

\* Nothing is written to a session after it was closed.
NoWriteAfterClose ==
  server.running =>
    \A k \in DOMAIN server.out : server.closes[server.out[k].to] = 0

\* OnSessionClose runs at most twice for a session: once for a failed write
\* and once more for the read that was outstanding then.
ClosedAtMostTwice == \A s \in Session : server.closes[s] <= 2

ClosedOnce == \A s \in Session : server.closes[s] <= 1

\* As long as no session was closed twice there is exactly one accept
\* outstanding while there is room and none at the limit, so that the map
\* never holds more than SERIAL_NUM_MAX sessions.
OneAcceptChain ==
  server.running /\ ClosedOnce =>
    /\ Size(server) <= SERIAL_NUM_MAX
    /\ server.accepts = IF Size(server) < SERIAL_NUM_MAX THEN 1 ELSE 0

\* As long as no session was closed twice no two sessions share a serial
\* number, the number 0 of the empty id included.
SerialsUnique ==
  ClosedOnce => \A s, t \in Live(server) : s.serial = t.serial => s = t

PairsLast ==
  \A i \in DOMAIN server.pairs \ DOMAIN server'.pairs :
    \E s \in Session : /\ GetId(s) \in {i, GetId(server.pairs[i])}
                       /\ server'.closes[s] > server.closes[s]

\* A pair is dissolved only in a step that closes a session with the id of one
\* of the two; two objects can share an id only if it is the empty one.
PairsLastUntilClose == [][PairsLast]_vars

\* The step handles a request of s for the session filed under the id target.
AnswersRequest(s, target) ==
  /\ Running(s, "body")
  /\ \E w, r \in WriteResults :
       server' = OnBodyReadDone(Completed(s), s,
                                [type |-> "RequestConnection", id |-> target], w, r)

\* Requester and target were online and without a partner; now each is the
\* other's partner, or the target was closed and all pairs are as they were.
Grants(s, target) ==
  LET i == GetId(s)
      t == server.sessions[target]
  IN  /\ i # target
      /\ {i, target} \subseteq DOMAIN server.sessions \ DOMAIN server.pairs
      /\ \/ /\ {i, target} \subseteq DOMAIN server'.pairs
            /\ server'.pairs[i] = t
            /\ server'.pairs[target] = server.sessions[i]
         \/ /\ server'.closes[t] > server.closes[t]
            /\ server'.pairs = server.pairs

RepliesTruly ==
  \A k \in DOMAIN server'.out :
    server'.out[k].msg = Reply(TRUE) =>
      LET s == server'.out[k].to
          asked == {id \in server.told \cup {NoId} : AnswersRequest(s, id)}
      IN  /\ asked # {}
          /\ \A target \in asked : Grants(s, target)

\* A client is told that its request succeeded only in the handler of that
\* request, and only if this handler paired it with the client it asked for, both
\* having been free; unless the write to the target closed that one and the pair
\* with it (Server.cpp:171-181: the reply does not look at what the write did).
PositiveReplyMeansPaired == [][RepliesTruly]_vars

\* A session of the map on which nothing is outstanding any more.
Silent(st) == {s \in Live(st) : st.pending[s] = "none"}

SilencesOnlyItself ==
  server'.running =>
    /\ \A s \in Silent(server') \ Silent(server) :
         server' = [server EXCEPT !.pending[s] = "none", !.out = << >>]
    /\ \A s \in Silent(server) \ Silent(server') :
         \E t \in DOMAIN server.pending \ {s} :
           /\ server.pending[t] = "body"
           /\ server'.closes[s] > server.closes[s]

\* An error of a read or a handshake that is not one of the three closing ones
\* leaves the session behind, in both maps (Session.cpp:101-119).  A session
\* falls silent in no other way, so only in a step that does nothing else; and
\* it keeps its place, its serial number and its partner until a write to it
\* fails in a handler of another session, for it has no handler of its own.
SilentSessions == [][SilencesOnlyItself]_vars

\* The state of the matchmaking service that a state of the server stands for:
\* once the process has stopped nobody is online.
Online(st) == IF st.running THEN Live(st) ELSE {}
Partner(st) ==
  IF st.running
  THEN [s \in {st.sessions[i] : i \in DOMAIN st.pairs} |-> st.pairs[GetId(s)]]
  ELSE << >>

Promise == INSTANCE Matchmaking WITH
  Users <- Session, online <- Online(server), partner <- Partner(server)

\* The server implements the matchmaking service: its session map is the set
\* of users online, the weak pointers are the partners, and every handler is
\* a join, a pairing, a departure or nothing.
ImplementsPromise == Promise!Spec
=============================================================================
