--------------------------- MODULE SignallingProofs ---------------------------
(***************************************************************************)
(* Proofs about Signalling, for any number of clients and any capacity of  *)
(* their streams.  What MatchServerProofs shows of the server is used as   *)
(* it is; here the invariant ties the pairs of the server to the streams   *)
(* and to what the clients made of the messages they took from them.       *)
(***************************************************************************)
EXTENDS Signalling, QueueLemmas, FiniteSetTheorems, TLAPS

Srv == INSTANCE MatchServerProofs WITH Tails <- Clients, Payloads <- Descriptions

-----------------------------------------------------------------------------
(* The server of Signalling is the one of MatchServerProofs: the operators *)
(* of the two instances are equal.                                         *)

\* The sets are the same.
LEMMA SameSets ==
  /\ Server!Session = Srv!Session
  /\ \A s : Server!GetId(s) = Srv!GetId(s)
  /\ Server!Ids = Srv!Ids
  /\ Server!Requests = Srv!Requests
  /\ Server!Exchanges = Srv!Exchanges
  /\ Server!OtherTypes = Srv!OtherTypes
  /\ Server!ClientMsgs = Srv!ClientMsgs
  /\ Server!ServerMsgs = Srv!ServerMsgs
  /\ Server!Faults = Srv!Faults
  /\ Server!WriteResults = Srv!WriteResults
  /\ Server!Ops = Srv!Ops
  /\ Server!Fields = Srv!Fields
<1>1. Server!Session = Srv!Session
  BY DEF Server!Session, Srv!Session
<1>2. \A s : Server!GetId(s) = Srv!GetId(s)
  BY DEF Server!GetId, Srv!GetId
<1>3. Server!Ids = Srv!Ids
  BY <1>1 DEF Server!Ids, Srv!Ids
<1>4. Server!Requests = Srv!Requests
  BY <1>3 DEF Server!Requests, Srv!Requests
<1>5. Server!Exchanges = Srv!Exchanges
  BY DEF Server!Exchanges, Srv!Exchanges
<1>6. Server!OtherTypes = Srv!OtherTypes
  BY DEF Server!OtherTypes, Srv!OtherTypes
<1>7. Server!ClientMsgs = Srv!ClientMsgs
  BY <1>4, <1>5, <1>6 DEF Server!ClientMsgs, Srv!ClientMsgs
<1>8. Server!ServerMsgs = Srv!ServerMsgs
  BY <1>3, <1>5 DEF Server!ServerMsgs, Srv!ServerMsgs
<1>9. Server!Faults = Srv!Faults
  BY DEF Server!Faults, Srv!Faults
<1>10. Server!WriteResults = Srv!WriteResults
  BY <1>9 DEF Server!WriteResults, Srv!WriteResults
<1>11. Server!Ops = Srv!Ops
  BY DEF Server!Ops, Srv!Ops
<1>12. Server!Fields = Srv!Fields
  BY DEF Server!Fields, Srv!Fields
<1> QED
  BY <1>1, <1>2, <1>3, <1>4, <1>5, <1>6, <1>7, <1>8, <1>9, <1>10, <1>11, <1>12

\* So are the operators on maps and serial numbers.
LEMMA SameMaps ==
  /\ \A S : Server!Min(S) = Srv!Min(S)
  /\ \A st : Server!Size(st) = Srv!Size(st)
  /\ \A st : Server!Live(st) = Srv!Live(st)
  /\ \A f, k, v : Server!Emplace(f, k, v) = Srv!Emplace(f, k, v)
  /\ \A f, ks : Server!Erase(f, ks) = Srv!Erase(f, ks)
  /\ \A st, s : Server!Lock(st, s) = Srv!Lock(st, s)
  /\ \A st : Server!HasFields(st) = Srv!HasFields(st)
  /\ \A st : Server!FreeSerials(st) = Srv!FreeSerials(st)
  /\ \A st : Server!AllocateSerialNumber(st) = Srv!AllocateSerialNumber(st)
  /\ \A st, n : Server!MarkAllocated(st, n) = Srv!MarkAllocated(st, n)
  /\ \A st, n : Server!ReleaseSerialNumber(st, n) = Srv!ReleaseSerialNumber(st, n)
  /\ \A st, s : Server!ReleaseId(st, s) = Srv!ReleaseId(st, s)
  /\ \A st : Server!StartAccept(st) = Srv!StartAccept(st)
  /\ \A st, id : Server!PartnerIds(st, id) = Srv!PartnerIds(st, id)
  /\ \A st, s, operation : Server!Arm(st, s, operation) = Srv!Arm(st, s, operation)
  /\ \A st, s : Server!StartRead(st, s) = Srv!StartRead(st, s)
  /\ \A st, t : Server!AllocateId(st, t) = Srv!AllocateId(st, t)
  /\ \A success : Server!Reply(success) = Srv!Reply(success)
<1>1. \A S : Server!Min(S) = Srv!Min(S)
  BY DEF Server!Min, Srv!Min
<1>2. \A st : Server!Size(st) = Srv!Size(st)
  BY DEF Server!Size, Srv!Size, Server!Cardinality, Srv!Cardinality
<1>3. \A st : Server!Live(st) = Srv!Live(st)
  BY DEF Server!Live, Srv!Live, Server!Range, Srv!Range
<1>4. \A f, k, v : Server!Emplace(f, k, v) = Srv!Emplace(f, k, v)
  BY DEF Server!Emplace, Srv!Emplace
<1>5. \A f, ks : Server!Erase(f, ks) = Srv!Erase(f, ks)
  BY DEF Server!Erase, Srv!Erase, Server!Restrict, Srv!Restrict
<1>6. \A st, s : Server!Lock(st, s) = Srv!Lock(st, s)
  BY <1>3 DEF Server!Lock, Srv!Lock
<1>7. \A st : Server!HasFields(st) = Srv!HasFields(st)
  BY SameSets DEF Server!HasFields, Srv!HasFields
<1>8. \A st : Server!FreeSerials(st) = Srv!FreeSerials(st)
  BY DEF Server!FreeSerials, Srv!FreeSerials
<1>9. \A st : Server!AllocateSerialNumber(st) = Srv!AllocateSerialNumber(st)
  BY <1>1, <1>8 DEF Server!AllocateSerialNumber, Srv!AllocateSerialNumber
<1>10. \A st, n : Server!MarkAllocated(st, n) = Srv!MarkAllocated(st, n)
  BY DEF Server!MarkAllocated, Srv!MarkAllocated
<1>11. \A st, n : Server!ReleaseSerialNumber(st, n) = Srv!ReleaseSerialNumber(st, n)
  BY DEF Server!ReleaseSerialNumber, Srv!ReleaseSerialNumber
<1>12. \A st, s : Server!ReleaseId(st, s) = Srv!ReleaseId(st, s)
  BY <1>11 DEF Server!ReleaseId, Srv!ReleaseId
<1>13. \A st : Server!StartAccept(st) = Srv!StartAccept(st)
  BY DEF Server!StartAccept, Srv!StartAccept
<1>14. \A st, id : Server!PartnerIds(st, id) = Srv!PartnerIds(st, id)
  BY SameSets, <1>6 DEF Server!PartnerIds, Srv!PartnerIds
<1>15. \A st, s, operation : Server!Arm(st, s, operation) = Srv!Arm(st, s, operation)
  BY DEF Server!Arm, Srv!Arm
<1>16. \A st, s : Server!StartRead(st, s) = Srv!StartRead(st, s)
  BY <1>15 DEF Server!StartRead, Srv!StartRead
<1>17. \A st, t : Server!AllocateId(st, t) = Srv!AllocateId(st, t)
  BY <1>9 DEF Server!AllocateId, Srv!AllocateId
<1>18. \A success : Server!Reply(success) = Srv!Reply(success)
  BY DEF Server!Reply, Srv!Reply
<1> QED
  BY <1>1, <1>2, <1>3, <1>4, <1>5, <1>6, <1>7, <1>8, <1>9, <1>10,
     <1>11, <1>12, <1>13, <1>14, <1>15, <1>16, <1>17, <1>18

\* So is closing a session.
LEMMA SameClose ==
  ASSUME NEW st, NEW s
  PROVE  Server!OnSessionClose(st, s) = Srv!OnSessionClose(st, s)
<1> DEFINE id == Server!GetId(s)
           unpaired == [st EXCEPT !.pairs = Server!Erase(@, {id} \cup Server!PartnerIds(st, id)),
                                  !.closes[s] = @ + 1]
           released == Server!ReleaseId(unpaired, s)
           erased == [released EXCEPT !.sessions = Server!Erase(@, {id})]
           id2 == Srv!GetId(s)
           unpaired2 == [st EXCEPT !.pairs = Srv!Erase(@, {id2} \cup Srv!PartnerIds(st, id2)),
                                   !.closes[s] = @ + 1]
           released2 == Srv!ReleaseId(unpaired2, s)
           erased2 == [released2 EXCEPT !.sessions = Srv!Erase(@, {id2})]
<1>1. id = id2
  BY SameSets
<1>2. unpaired = unpaired2
  BY <1>1, SameMaps
<1> HIDE DEF id, id2, unpaired, unpaired2
<1>3. released = released2
  BY <1>1, <1>2, SameMaps
<1> HIDE DEF released, released2
<1>4. erased = erased2
  BY <1>1, <1>3, SameMaps
<1> HIDE DEF erased, erased2
<1> QED
  BY <1>1, <1>2, <1>3, <1>4, SameMaps
  DEF Server!OnSessionClose, Srv!OnSessionClose, id, id2, unpaired, unpaired2,
      released, released2, erased, erased2

\* So are accepting, writing and the errors.
LEMMA SameCalls ==
  /\ \A st, s, fault : Server!OnHandshakeError(st, s, fault) = Srv!OnHandshakeError(st, s, fault)
  /\ \A st, s, fault : Server!OnReadError(st, s, fault) = Srv!OnReadError(st, s, fault)
  /\ \A st, s, fault : Server!OnWriteError(st, s, fault) = Srv!OnWriteError(st, s, fault)
  /\ \A st, s, msg, result : Server!SendMessage(st, s, msg, result)
         = Srv!SendMessage(st, s, msg, result)
  /\ \A st, t, constructed : Server!InitSession(st, t, constructed)
         = Srv!InitSession(st, t, constructed)
  /\ \A st : Server!AcceptNext(st) = Srv!AcceptNext(st)
  /\ \A st, i, target : Server!Matchable(st, i, target) = Srv!Matchable(st, i, target)
  /\ \A st, i, target : Server!Match(st, i, target) = Srv!Match(st, i, target)
  /\ \A st, s, msg, w : Server!TransferMsgToPair(st, s, msg, w)
         = Srv!TransferMsgToPair(st, s, msg, w)
  /\ \A st, s, r : Server!OnSessionReady(st, s, r) = Srv!OnSessionReady(st, s, r)
<1>1. \A st, s, fault : Server!OnHandshakeError(st, s, fault) = Srv!OnHandshakeError(st, s, fault)
  BY SameClose DEF Server!OnHandshakeError, Srv!OnHandshakeError
<1>2. \A st, s, fault : Server!OnReadError(st, s, fault) = Srv!OnReadError(st, s, fault)
  BY SameClose DEF Server!OnReadError, Srv!OnReadError
<1>3. \A st, s, fault : Server!OnWriteError(st, s, fault) = Srv!OnWriteError(st, s, fault)
  BY SameClose DEF Server!OnWriteError, Srv!OnWriteError
<1>4. \A st, s, msg, result : Server!SendMessage(st, s, msg, result)
       = Srv!SendMessage(st, s, msg, result)
  BY <1>3 DEF Server!SendMessage, Srv!SendMessage
<1>5. \A st, t, constructed : Server!InitSession(st, t, constructed)
       = Srv!InitSession(st, t, constructed)
  <2> SUFFICES ASSUME NEW st, NEW t, NEW constructed
               PROVE  Server!InitSession(st, t, constructed) = Srv!InitSession(st, t, constructed)
    OBVIOUS
  <2>1. PICK s : s = Server!AllocateId(st, t) /\ s = Srv!AllocateId(st, t)
    BY SameMaps
  <2>2. PICK allocated : /\ allocated = Server!MarkAllocated(st, s.serial)
                         /\ allocated = Srv!MarkAllocated(st, s.serial)
    BY SameMaps
  <2>3. Server!ReleaseId(allocated, s) = Srv!ReleaseId(allocated, s)
    BY SameMaps
  <2>4. \A f, k, v : Server!Emplace(f, k, v) = Srv!Emplace(f, k, v)
    BY SameMaps
  <2>5. Server!GetId(s) = Srv!GetId(s)
    BY SameSets DEF Server!GetId, Srv!GetId
  <2> QED
    BY <2>1, <2>2, <2>3, <2>4, <2>5 DEF Server!InitSession, Srv!InitSession
<1>6. \A st : Server!AcceptNext(st) = Srv!AcceptNext(st)
  BY SameMaps DEF Server!AcceptNext, Srv!AcceptNext
<1>7. \A st, i, target : Server!Matchable(st, i, target) = Srv!Matchable(st, i, target)
  BY DEF Server!Matchable, Srv!Matchable
<1>8. \A st, i, target : Server!Match(st, i, target) = Srv!Match(st, i, target)
  BY SameMaps DEF Server!Match, Srv!Match
<1>9. \A st, s, msg, w : Server!TransferMsgToPair(st, s, msg, w)
       = Srv!TransferMsgToPair(st, s, msg, w)
  BY SameSets, SameMaps, <1>4 DEF Server!TransferMsgToPair, Srv!TransferMsgToPair
<1>10. \A st, s, r : Server!OnSessionReady(st, s, r) = Srv!OnSessionReady(st, s, r)
  BY SameSets, <1>4 DEF Server!OnSessionReady, Srv!OnSessionReady
<1> QED
  BY <1>1, <1>2, <1>3, <1>4, <1>5, <1>6, <1>7, <1>8, <1>9, <1>10

\* So are the handlers.
LEMMA SameHandlers ==
  /\ \A st, s, target, w, r : Server!OnClientRequestConnection(st, s, target, w, r)
         = Srv!OnClientRequestConnection(st, s, target, w, r)
  /\ \A st, s, msg, w, r : Server!OnClientMsg(st, s, msg, w, r)
         = Srv!OnClientMsg(st, s, msg, w, r)
  /\ \A st, t, constructed : Server!OnAcceptDone(st, t, constructed)
         = Srv!OnAcceptDone(st, t, constructed)
  /\ \A st, s, r : Server!OnHandshakeDone(st, s, r) = Srv!OnHandshakeDone(st, s, r)
  /\ \A st, s, tooShort : Server!OnHeaderReadDone(st, s, tooShort)
         = Srv!OnHeaderReadDone(st, s, tooShort)
  /\ \A st, s, msg, w, r : Server!OnBodyReadDone(st, s, msg, w, r)
         = Srv!OnBodyReadDone(st, s, msg, w, r)
  /\ \A s : Server!Completed(s) = Srv!Completed(s)
  /\ Server!Accepted = Srv!Accepted
  /\ \A s, operation : Server!Running(s, operation) = Srv!Running(s, operation)
<1>1. \A st, s, target, w, r : Server!OnClientRequestConnection(st, s, target, w, r)
       = Srv!OnClientRequestConnection(st, s, target, w, r)
  <2> SUFFICES ASSUME NEW st, NEW s, NEW target, NEW w, NEW r
               PROVE  Server!OnClientRequestConnection(st, s, target, w, r)
                        = Srv!OnClientRequestConnection(st, s, target, w, r)
    OBVIOUS
  <2>1. Server!GetId(s) = Srv!GetId(s)
    BY SameSets
  <2>2. Server!Match(st, Server!GetId(s), target) = Srv!Match(st, Srv!GetId(s), target)
    BY <2>1, SameCalls
  <2>3. Server!Matchable(st, Server!GetId(s), target)
          = Srv!Matchable(st, Srv!GetId(s), target)
    BY <2>1, SameCalls
  <2> QED
    BY <2>1, <2>2, <2>3, SameCalls, SameMaps
    DEF Server!OnClientRequestConnection, Srv!OnClientRequestConnection
<1>2. \A st, s, msg, w, r : Server!OnClientMsg(st, s, msg, w, r)
       = Srv!OnClientMsg(st, s, msg, w, r)
  BY SameSets, SameCalls, <1>1 DEF Server!OnClientMsg, Srv!OnClientMsg
<1>3. \A st, t, constructed : Server!OnAcceptDone(st, t, constructed)
       = Srv!OnAcceptDone(st, t, constructed)
  BY SameCalls DEF Server!OnAcceptDone, Srv!OnAcceptDone
<1>4. \A st, s, r : Server!OnHandshakeDone(st, s, r) = Srv!OnHandshakeDone(st, s, r)
  BY SameMaps, SameCalls DEF Server!OnHandshakeDone, Srv!OnHandshakeDone
<1>5. \A st, s, tooShort : Server!OnHeaderReadDone(st, s, tooShort)
       = Srv!OnHeaderReadDone(st, s, tooShort)
  BY SameMaps, SameClose DEF Server!OnHeaderReadDone, Srv!OnHeaderReadDone
<1>6. \A st, s, msg, w, r : Server!OnBodyReadDone(st, s, msg, w, r)
       = Srv!OnBodyReadDone(st, s, msg, w, r)
  BY SameMaps, <1>2 DEF Server!OnBodyReadDone, Srv!OnBodyReadDone
<1>7. \A s : Server!Completed(s) = Srv!Completed(s)
  BY DEF Server!Completed, Srv!Completed
<1>8. Server!Accepted = Srv!Accepted
  BY DEF Server!Accepted, Srv!Accepted
<1>9. \A s, operation : Server!Running(s, operation) = Srv!Running(s, operation)
  BY DEF Server!Running, Srv!Running
<1> QED
  BY <1>1, <1>2, <1>3, <1>4, <1>5, <1>6, <1>7, <1>8, <1>9

\* So are the invariants of the server.
LEMMA SameInvariants ==
  /\ \A st : Server!IsState(st) = Srv!IsState(st)
  /\ \A st : Server!IsMatched(st) = Srv!IsMatched(st)
<1>1. \A st : Server!IsState(st) = Srv!IsState(st)
  BY SameSets, SameMaps DEF Server!IsState, Srv!IsState
<1>2. \A st : Server!IsMatched(st) = Srv!IsMatched(st)
  BY SameSets DEF Server!IsMatched, Srv!IsMatched
<1> QED
  BY <1>1, <1>2

-----------------------------------------------------------------------------
(* What the server does in a step *)

\* What MatchServerProofs assumes of the constants holds.
LEMMA Assumed == Srv!MaxAssumption /\ Srv!NoIdAssumption
BY ServerAssumption, SameSets DEF Srv!MaxAssumption, Srv!NoIdAssumption

\* The invariant of the server says what the type and the matching are.
LEMMA HoldsMean ==
  ASSUME NEW st, Srv!Holds(st)
  PROVE  Server!IsState(st) /\ Server!IsMatched(st)
BY SameInvariants DEF Srv!Holds, Srv!Consistent

\* What is left to write goes to sessions that exist, and to each client once.
Addressed(st) ==
  /\ \A k \in DOMAIN st.out : st.out[k].to \in DOMAIN st.pending
  /\ \A j, k \in DOMAIN st.out : st.out[j].to.tail = st.out[k].to.tail => j = k

\* A client has one session at most.
OneSession(st) == \A s, t \in DOMAIN st.pending : s.tail = t.tail => s = t

\* What the actions of the server have in common.
InvOf(st) == Srv!Holds(st) /\ OneSession(st) /\ Addressed(st)
ServerInv == InvOf(server)

\* The sessions and pairs of a state are those of another one.
SameMatching(new, st) ==
  /\ DOMAIN new.pending = DOMAIN st.pending
  /\ new.sessions = st.sessions /\ new.pairs = st.pairs
  /\ new.closes = st.closes /\ new.running = st.running
  /\ new.serials = st.serials

\* A session is closed: whoever leaves does so with its pair.
Closes(new, st) ==
  /\ DOMAIN new.pending = DOMAIN st.pending
  /\ DOMAIN new.pairs \subseteq DOMAIN st.pairs
  /\ \A i \in DOMAIN new.pairs : new.pairs[i] = st.pairs[i]
  /\ DOMAIN new.sessions \subseteq DOMAIN st.sessions
  /\ \A i \in DOMAIN new.sessions : new.sessions[i] = st.sessions[i]
  /\ new.running => st.running
  /\ \A n \in 1..SERIAL_NUM_MAX : new.serials[n] => st.serials[n]
  /\ \A s \in Server!Session : new.closes[s] >= st.closes[s]
  /\ \E s \in Server!Session : new.closes[s] > 0
  /\ st.running => Srv!Departs(st, new)

\* The session of client c is created.
Opens(new, st, c) ==
  /\ \E s \in Server!Session :
       /\ s.tail = c /\ s.serial = Server!AllocateSerialNumber(st)
       /\ DOMAIN new.pending = DOMAIN st.pending \cup {s}
       /\ DOMAIN new.sessions = DOMAIN st.sessions \cup {Server!GetId(s)}
       /\ Server!GetId(s) \notin DOMAIN st.sessions => new.sessions[Server!GetId(s)] = s
       /\ \A n \in 1..SERIAL_NUM_MAX : new.serials[n] => st.serials[n] \/ n = s.serial
  /\ \A i \in DOMAIN st.sessions : i \in DOMAIN new.sessions /\ new.sessions[i] = st.sessions[i]
  /\ new.pairs = st.pairs /\ new.closes = st.closes /\ new.running = st.running
  /\ new.out = << >>

\* A record has the fields that its type lists.
LEMMA FieldsOf ==
  ASSUME NEW st, Server!IsState(st)
  PROVE  /\ st = [field \in Server!Fields |-> st[field]]
         /\ st.pending \in [DOMAIN st.pending -> Server!Ops]
         /\ DOMAIN st.pending \subseteq Server!Session
BY DEF Server!IsState, Server!HasFields

\* What the server writes of a request is among its messages.
LEMMA TypesOfMessages ==
  /\ [type |-> "RemoteRequestConnection"] \in Server!ServerMsgs
  /\ Server!Reply(TRUE) \in Server!ServerMsgs
  /\ Server!Reply(FALSE) \in Server!ServerMsgs
<1>1. /\ [type |-> "RemoteRequestConnection"] \in [type : {"RemoteRequestConnection"}]
      /\ \A b \in BOOLEAN : Server!Reply(b) \in [type : {"ReplyConnection"}, success : BOOLEAN]
  BY DEF Server!Reply
<1> QED
  BY <1>1 DEF Server!ServerMsgs

\* Accepting.
LEMMA AcceptEffect ==
  ASSUME ServerInv, NEW c \in Clients, Idle, SessionsOf(c) = {},
         NEW new, new = Server!OnAcceptDone(Server!Accepted, c, TRUE)
  PROVE  Opens(new, server, c)
<1>1. Server!IsState(server)
  BY HoldsMean DEF ServerInv, InvOf
<1>2. PICK st : st = Server!Accepted
  OBVIOUS
<1>3. /\ st = [field \in Server!Fields |-> st[field]]
      /\ st.pending = server.pending /\ st.sessions = server.sessions
      /\ st.pairs = server.pairs /\ st.closes = server.closes
      /\ st.running = server.running /\ st.out = << >> /\ st.serials = server.serials
  <2>1. server = [field \in Server!Fields |-> server[field]]
    BY <1>1, FieldsOf
  <2>2. PICK accepts : accepts = server.accepts - 1
    OBVIOUS
  <2>3. st = [server EXCEPT !.accepts = accepts, !.out = << >>]
    BY <1>2, <2>2 DEF Server!Accepted
  <2> QED
    BY <2>1, <2>3 DEF Server!Fields
<1>4. PICK s : s = Server!AllocateId(st, c)
  OBVIOUS
<1>5. s.tail = c /\ s.serial = Server!AllocateSerialNumber(server) /\ s \in Server!Session
  <2>1. s = [serial |-> Server!AllocateSerialNumber(st), tail |-> c]
    BY <1>4 DEF Server!AllocateId
  <2>2. Server!FreeSerials(st) = Server!FreeSerials(server)
    BY <1>3 DEF Server!FreeSerials
  <2>3. Server!AllocateSerialNumber(st) = Server!AllocateSerialNumber(server)
    BY <2>2 DEF Server!AllocateSerialNumber
  <2>4. Server!AllocateSerialNumber(server) \in 0..SERIAL_NUM_MAX
    BY <1>1, Assumed, SameMaps, SameInvariants, Srv!SerialAllocated, ServerAssumption
  <2> QED
    BY <2>1, <2>3, <2>4 DEF Server!Session
<1>6. PICK mid : mid = Server!InitSession(st, c, TRUE)
  OBVIOUS
<1>7. PICK marked : marked = Server!MarkAllocated(st, s.serial)
  OBVIOUS
<1>8. /\ marked = [field \in Server!Fields |-> marked[field]]
      /\ marked.pending = st.pending /\ marked.sessions = st.sessions
      /\ marked.pairs = st.pairs /\ marked.closes = st.closes
      /\ marked.running = st.running /\ marked.out = st.out
  BY <1>3, <1>7 DEF Server!MarkAllocated, Server!Fields
<1>9. \A n \in 1..SERIAL_NUM_MAX : marked.serials[n] => st.serials[n] \/ n = s.serial
  <2>1. st.serials \in [1..SERIAL_NUM_MAX -> BOOLEAN]
    BY <1>1, <1>3 DEF Server!IsState
  <2>2. marked.serials \in {st.serials, [st.serials EXCEPT ![s.serial] = TRUE]}
    <3>1. PICK f : f = [st.serials EXCEPT ![s.serial] = TRUE]
      OBVIOUS
    <3>2. marked = st \/ marked = [st EXCEPT !.serials = f]
      BY <1>7, <3>1 DEF Server!MarkAllocated
    <3>3. marked.serials = st.serials \/ marked.serials = f
      BY <1>3, <3>2 DEF Server!Fields
    <3> QED
      BY <3>1, <3>3
  <2> QED
    BY <2>1, <2>2
<1>10. /\ mid = [field \in Server!Fields |-> mid[field]]
       /\ mid.sessions = Server!Emplace(st.sessions, Server!GetId(s), s)
       /\ mid.pending = Server!Emplace(st.pending, s, "handshake")
       /\ mid.pairs = st.pairs /\ mid.closes = st.closes
       /\ mid.running = st.running /\ mid.out = st.out
       /\ mid.serials = marked.serials
  BY <1>3, <1>4, <1>6, <1>7, <1>8 DEF Server!InitSession, Server!Fields
<1>11. /\ DOMAIN mid.pending = DOMAIN server.pending \cup {s}
       /\ \A i \in DOMAIN server.sessions : i \in DOMAIN mid.sessions
                                            /\ mid.sessions[i] = server.sessions[i]
       /\ DOMAIN mid.sessions = DOMAIN server.sessions \cup {Server!GetId(s)}
       /\ Server!GetId(s) \notin DOMAIN server.sessions => mid.sessions[Server!GetId(s)] = s
  BY <1>3, <1>10 DEF Server!Emplace
<1>12. new = Server!AcceptNext(mid)
  BY <1>2, <1>6 DEF Server!OnAcceptDone
<1>13. /\ new.pending = mid.pending /\ new.sessions = mid.sessions /\ new.pairs = mid.pairs
       /\ new.closes = mid.closes /\ new.running = mid.running /\ new.out = mid.out
       /\ new.serials = mid.serials
  BY <1>10, <1>12 DEF Server!AcceptNext, Server!StartAccept, Server!Fields
<1>14. \E x \in Server!Session :
         /\ x.tail = c /\ x.serial = Server!AllocateSerialNumber(server)
         /\ DOMAIN new.pending = DOMAIN server.pending \cup {x}
         /\ DOMAIN new.sessions = DOMAIN server.sessions \cup {Server!GetId(x)}
         /\ Server!GetId(x) \notin DOMAIN server.sessions => new.sessions[Server!GetId(x)] = x
         /\ \A n \in 1..SERIAL_NUM_MAX : new.serials[n] => server.serials[n] \/ n = x.serial
  <2>1. \A n \in 1..SERIAL_NUM_MAX : new.serials[n] => server.serials[n] \/ n = s.serial
    BY <1>3, <1>9, <1>10, <1>13
  <2>2. /\ DOMAIN new.pending = DOMAIN server.pending \cup {s}
        /\ DOMAIN new.sessions = DOMAIN server.sessions \cup {Server!GetId(s)}
        /\ Server!GetId(s) \notin DOMAIN server.sessions => new.sessions[Server!GetId(s)] = s
    BY <1>11, <1>13
  <2> QED
    BY <1>5, <2>1, <2>2, Zenon
<1> QED
  BY <1>3, <1>10, <1>11, <1>13, <1>14 DEF Opens

\* The handler of a session starts with the record in which its operation has ended.
LEMMA CompletedEffect ==
  ASSUME ServerInv, NEW s \in DOMAIN server.pending, NEW st, st = Server!Completed(s)
  PROVE  /\ st = [field \in Server!Fields |-> st[field]]
         /\ SameMatching(st, server) /\ st.out = << >> /\ st.told = server.told
         /\ Srv!Holds(st)
<1>1. Server!IsState(server)
  BY HoldsMean DEF ServerInv, InvOf
<1>2. Srv!Holds(st)
  BY Assumed, SameHandlers, Srv!CompletedHolds DEF ServerInv, InvOf
<1>3. PICK pending : pending = [server.pending EXCEPT ![s] = "none"]
  OBVIOUS
<1>4. st = [server EXCEPT !.pending = pending, !.out = << >>]
  BY <1>3 DEF Server!Completed
<1>5. DOMAIN pending = DOMAIN server.pending
  BY <1>3
<1>6. server = [field \in Server!Fields |-> server[field]]
  BY <1>1, FieldsOf
<1>7. /\ st = [field \in Server!Fields |-> st[field]]
      /\ st.pending = pending /\ st.out = << >>
      /\ st.told = server.told /\ st.serials = server.serials
      /\ st.sessions = server.sessions /\ st.pairs = server.pairs
      /\ st.running = server.running /\ st.closes = server.closes
  BY <1>4, <1>6 DEF Server!Fields
<1> QED
  BY <1>2, <1>5, <1>7 DEF SameMatching

\* A handler ends by starting the next operation.
LEMMA ArmEffect ==
  ASSUME NEW st, st = [field \in Server!Fields |-> st[field]],
         NEW s, NEW operation, NEW new, new = Server!Arm(st, s, operation)
  PROVE  SameMatching(new, st) /\ new.out = st.out
BY DEF Server!Arm, SameMatching, Server!Fields

\* A write in the middle of a handler is left to be done.
LEMMA SendEffect ==
  ASSUME NEW st, st = [field \in Server!Fields |-> st[field]], st.running,
         NEW s, NEW msg, NEW new, new = Server!SendMessage(st, s, msg, "ok")
  PROVE  /\ new = [field \in Server!Fields |-> new[field]]
         /\ SameMatching(new, st) /\ new.out = Append(st.out, [to |-> s, msg |-> msg])
BY DEF Server!SendMessage, SameMatching, Server!Fields

\* The handshake ends.
LEMMA HandshakeEffect ==
  ASSUME ServerInv, Idle, NEW s \in DOMAIN server.pending,
         NEW new, new = Server!OnHandshakeDone(Server!Completed(s), s, "ok")
  PROVE  /\ SameMatching(new, server)
         /\ new.out = << [to |-> s, msg |-> [type |-> "UpdateSessionId",
                                             id |-> Server!GetId(s)]] >>
<1>1. PICK st : st = Server!Completed(s)
  OBVIOUS
<1>2. /\ st = [field \in Server!Fields |-> st[field]]
      /\ SameMatching(st, server) /\ st.out = << >>
  BY <1>1, CompletedEffect
<1>3. PICK told : told = [st EXCEPT !.told = @ \cup {Server!GetId(s)}]
  OBVIOUS
<1>4. /\ told = [field \in Server!Fields |-> told[field]]
      /\ SameMatching(told, st) /\ told.out = << >>
  BY <1>2, <1>3 DEF SameMatching, Server!Fields
<1>5. PICK msg : msg = [type |-> "UpdateSessionId", id |-> Server!GetId(s)]
  OBVIOUS
<1>6. PICK mid : mid = Server!SendMessage(told, s, msg, "ok")
  OBVIOUS
<1>7. told.running
  BY <1>2, <1>4 DEF SameMatching, Idle
<1>8. /\ mid = [field \in Server!Fields |-> mid[field]]
      /\ SameMatching(mid, told) /\ mid.out = Append(told.out, [to |-> s, msg |-> msg])
  BY <1>4, <1>6, <1>7, SendEffect
<1>9. new = Server!Arm(mid, s, "header")
  BY <1>1, <1>3, <1>5, <1>6
  DEF Server!OnHandshakeDone, Server!OnSessionReady, Server!StartRead
<1>10. SameMatching(new, mid) /\ new.out = mid.out
  BY <1>8, <1>9, ArmEffect
<1> QED
  BY <1>2, <1>4, <1>5, <1>8, <1>10 DEF SameMatching

\* The header of a message arrives.
LEMMA HeaderEffect ==
  ASSUME ServerInv, NEW s \in DOMAIN server.pending,
         NEW new, new = Server!Arm(Server!Completed(s), s, "body")
  PROVE  SameMatching(new, server) /\ new.out = << >>
<1>1. PICK st : st = Server!Completed(s)
  OBVIOUS
<1>2. /\ st = [field \in Server!Fields |-> st[field]]
      /\ SameMatching(st, server) /\ st.out = << >>
  BY <1>1, CompletedEffect
<1>3. new = Server!Arm(st, s, "body")
  BY <1>1
<1>4. SameMatching(new, st) /\ new.out = st.out
  BY <1>2, <1>3, ArmEffect
<1> QED
  BY <1>2, <1>4 DEF SameMatching

\* What the handler of a message may come to: nothing, ...
Ignored(new, st) == SameMatching(new, st) /\ new.out = << >>

\* ... a refusal, ...
Refused(new, st, s, msg) ==
  /\ msg.type = "RequestConnection"
  /\ SameMatching(new, st)
  /\ new.out = << [to |-> s, msg |-> Server!Reply(FALSE)] >>

\* ... a pair with the session t, ...
Matched(new, st, s, msg, t) ==
  /\ msg.type = "RequestConnection"
  /\ DOMAIN new.pending = DOMAIN st.pending
  /\ new.sessions = st.sessions /\ new.closes = st.closes /\ new.running = st.running
  /\ new.serials = st.serials
  /\ Server!GetId(t) # Server!GetId(s)
  /\ {Server!GetId(s), Server!GetId(t)} \subseteq DOMAIN st.sessions \ DOMAIN st.pairs
  /\ st.sessions[Server!GetId(t)] = t
  /\ DOMAIN new.pairs = DOMAIN st.pairs \cup {Server!GetId(s), Server!GetId(t)}
  /\ \A i \in DOMAIN st.pairs : new.pairs[i] = st.pairs[i]
  /\ new.pairs[Server!GetId(s)] = t
  /\ new.pairs[Server!GetId(t)] = st.sessions[Server!GetId(s)]
  /\ new.out = << [to |-> t, msg |-> [type |-> "RemoteRequestConnection"]],
                  [to |-> s, msg |-> Server!Reply(TRUE)] >>

\* ... or a message handed to the partner t.
Forwarded(new, st, s, msg, t) ==
  /\ msg \in Server!Exchanges
  /\ SameMatching(new, st)
  /\ Server!GetId(s) \in DOMAIN st.pairs /\ st.pairs[Server!GetId(s)] = t
  /\ new.out = << [to |-> t, msg |-> msg] >>

\* Match enters both directions.
LEMMA MatchEffect ==
  ASSUME NEW st, st = [field \in Server!Fields |-> st[field]],
         NEW i, NEW j, i # j, i \notin DOMAIN st.pairs, j \notin DOMAIN st.pairs,
         NEW new, new = Server!Match(st, i, j)
  PROVE  /\ new = [field \in Server!Fields |-> new[field]]
         /\ new.pending = st.pending /\ new.sessions = st.sessions
         /\ new.closes = st.closes /\ new.running = st.running /\ new.out = st.out
         /\ new.serials = st.serials
         /\ \A k : k \in DOMAIN new.pairs <=> k \in DOMAIN st.pairs \/ k = i \/ k = j
         /\ \A k \in DOMAIN st.pairs : new.pairs[k] = st.pairs[k]
         /\ new.pairs[i] = st.sessions[j] /\ new.pairs[j] = st.sessions[i]
<1>1. PICK pairs : pairs = Server!Emplace(Server!Emplace(st.pairs, i, st.sessions[j]),
                                          j, st.sessions[i])
  OBVIOUS
<1>2. /\ DOMAIN pairs = DOMAIN st.pairs \cup {i, j}
      /\ \A k \in DOMAIN st.pairs : pairs[k] = st.pairs[k]
      /\ pairs[i] = st.sessions[j] /\ pairs[j] = st.sessions[i]
  BY <1>1 DEF Server!Emplace
<1>3. new = [st EXCEPT !.pairs = pairs]
  BY <1>1 DEF Server!Match
<1> QED
  BY <1>2, <1>3 DEF Server!Fields

\* The handler of a request.
LEMMA RequestEffect ==
  ASSUME NEW st, Server!IsState(st), st.running, st.out = << >>,
         NEW s \in DOMAIN st.pending, NEW msg, msg.type = "RequestConnection",
         NEW target, NEW new,
         new = Server!OnClientRequestConnection(st, s, target, "ok", "ok")
  PROVE  /\ new = [field \in Server!Fields |-> new[field]]
         /\ \/ Ignored(new, st)
            \/ Refused(new, st, s, msg)
            \/ \E t \in DOMAIN st.pending : Matched(new, st, s, msg, t)
<1>1. st = [field \in Server!Fields |-> st[field]]
  BY FieldsOf
<1>2. CASE Server!GetId(s) \notin DOMAIN st.sessions
  <2>1. new = st
    BY <1>2 DEF Server!OnClientRequestConnection
  <2> QED
    BY <1>1, <2>1 DEF Ignored, SameMatching
<1>3. CASE Server!GetId(s) \in DOMAIN st.sessions /\ ~Server!Matchable(st, Server!GetId(s), target)
  <2>1. new = Server!SendMessage(st, s, Server!Reply(FALSE), "ok")
    BY <1>3 DEF Server!OnClientRequestConnection
  <2>2. PICK reply : reply = Server!Reply(FALSE)
    OBVIOUS
  <2>3. new = Server!SendMessage(st, s, reply, "ok")
    BY <2>1, <2>2
  <2>4. /\ new = [field \in Server!Fields |-> new[field]]
        /\ SameMatching(new, st) /\ new.out = Append(st.out, [to |-> s, msg |-> reply])
    BY <1>1, <2>3, SendEffect
  <2> QED
    BY <2>2, <2>4 DEF Refused
<1>4. CASE Server!GetId(s) \in DOMAIN st.sessions /\ Server!Matchable(st, Server!GetId(s), target)
  <2>1. PICK t : t = st.sessions[target]
    OBVIOUS
  <2>2. PICK i : i = Server!GetId(s)
    OBVIOUS
  <2>3. /\ i # target /\ i \notin DOMAIN st.pairs /\ target \notin DOMAIN st.pairs
        /\ target \in DOMAIN st.sessions /\ i \in DOMAIN st.sessions
    BY <1>4, <2>2 DEF Server!Matchable
  <2>4. t \in DOMAIN st.pending /\ Server!GetId(t) = target
    BY <2>1, <2>3 DEF Server!IsState
  <2>5. PICK first : first = Server!Match(st, i, target)
    OBVIOUS
  <2>6. /\ first = [field \in Server!Fields |-> first[field]]
        /\ first.pending = st.pending /\ first.sessions = st.sessions
        /\ first.closes = st.closes /\ first.running = st.running /\ first.out = st.out
        /\ first.serials = st.serials
        /\ \A k : k \in DOMAIN first.pairs <=> k \in DOMAIN st.pairs \/ k = i \/ k = target
        /\ \A k \in DOMAIN st.pairs : first.pairs[k] = st.pairs[k]
        /\ first.pairs[i] = st.sessions[target] /\ first.pairs[target] = st.sessions[i]
    <3>1. i # target /\ i \notin DOMAIN st.pairs /\ target \notin DOMAIN st.pairs
      BY <2>3
    <3>2. first = [field \in Server!Fields |-> first[field]]
      BY <1>1, <2>5, <3>1, MatchEffect
    <3>3. /\ first.pending = st.pending /\ first.sessions = st.sessions
          /\ first.closes = st.closes /\ first.running = st.running /\ first.out = st.out
          /\ first.serials = st.serials
      <4>1. PICK pairs : pairs = Server!Emplace(Server!Emplace(st.pairs, i, st.sessions[target]),
                                                target, st.sessions[i])
        OBVIOUS
      <4>2. first = [st EXCEPT !.pairs = pairs]
        BY <2>5, <4>1 DEF Server!Match
      <4> QED
        BY <1>1, <4>2 DEF Server!Fields
    <3>4. /\ \A k : k \in DOMAIN first.pairs <=> k \in DOMAIN st.pairs \/ k = i \/ k = target
          /\ \A k \in DOMAIN st.pairs : first.pairs[k] = st.pairs[k]
      BY <1>1, <2>5, <3>1, MatchEffect
    <3>5. first.pairs[i] = st.sessions[target] /\ first.pairs[target] = st.sessions[i]
      BY <1>1, <2>5, <3>1, MatchEffect
    <3> QED
      BY <3>2, <3>4, <3>5, <3>3
  <2>7. PICK told, reply : /\ told = [type |-> "RemoteRequestConnection"]
                           /\ reply = Server!Reply(TRUE)
    OBVIOUS
  <2>8. PICK second : second = Server!SendMessage(first, t, told, "ok")
    OBVIOUS
  <2>9. /\ second = [field \in Server!Fields |-> second[field]]
        /\ SameMatching(second, first)
        /\ second.out = Append(first.out, [to |-> t, msg |-> told])
    <3>1. first = [field \in Server!Fields |-> first[field]] /\ first.running
      BY <2>6
    <3> QED
      BY <2>8, <3>1, SendEffect
  <2>10. new = Server!SendMessage(second, s, reply, "ok")
    BY <1>4, <2>1, <2>2, <2>5, <2>7, <2>8 DEF Server!OnClientRequestConnection
  <2>11. second.running
    BY <2>6, <2>9 DEF SameMatching
  <2>12. /\ new = [field \in Server!Fields |-> new[field]]
         /\ SameMatching(new, second)
         /\ new.out = Append(second.out, [to |-> s, msg |-> reply])
    BY <2>9, <2>10, <2>11, SendEffect
  <2>13. new.out = << [to |-> t, msg |-> told], [to |-> s, msg |-> reply] >>
    <3>1. PICK a, b : a = [to |-> t, msg |-> told] /\ b = [to |-> s, msg |-> reply]
      OBVIOUS
    <3>2. second.out = Append(<< >>, a) /\ new.out = Append(second.out, b)
      BY <2>6, <2>9, <2>12, <3>1
    <3>3. new.out = << a, b >>
      BY <3>2
    <3> QED
      BY <3>1, <3>3
  <2>14. /\ DOMAIN new.pending = DOMAIN st.pending
         /\ new.sessions = st.sessions /\ new.closes = st.closes
         /\ new.running = st.running /\ new.pairs = first.pairs
         /\ new.serials = st.serials
    <3>1. /\ DOMAIN first.pending = DOMAIN st.pending
          /\ first.sessions = st.sessions /\ first.closes = st.closes
          /\ first.running = st.running /\ first.serials = st.serials
      BY <2>6
    <3> QED
      BY <2>9, <2>12, <3>1 DEF SameMatching
  <2>15. Matched(new, st, s, msg, t)
    <3>1. /\ Server!GetId(t) # Server!GetId(s)
          /\ {Server!GetId(s), Server!GetId(t)} \subseteq DOMAIN st.sessions \ DOMAIN st.pairs
          /\ st.sessions[Server!GetId(t)] = t
      BY <2>1, <2>2, <2>3, <2>4
    <3>2. /\ DOMAIN new.pairs = DOMAIN st.pairs \cup {Server!GetId(s), Server!GetId(t)}
          /\ \A k \in DOMAIN st.pairs : new.pairs[k] = st.pairs[k]
          /\ new.pairs[Server!GetId(s)] = t
          /\ new.pairs[Server!GetId(t)] = st.sessions[Server!GetId(s)]
      BY <2>1, <2>2, <2>3, <2>4, <2>6, <2>14
    <3>3. new.out = << [to |-> t, msg |-> [type |-> "RemoteRequestConnection"]],
                       [to |-> s, msg |-> Server!Reply(TRUE)] >>
      BY <2>7, <2>13
    <3> QED
      BY <2>1, <2>14, <3>1, <3>2, <3>3 DEF Matched
  <2> QED
    BY <2>4, <2>12, <2>15
<1> QED
  BY <1>2, <1>3, <1>4

\* The handler of a description or candidate.
LEMMA TransferEffect ==
  ASSUME NEW st, Server!IsState(st), st.running, st.out = << >>,
         NEW s \in DOMAIN st.pending, NEW msg \in Server!Exchanges, NEW new,
         new = Server!TransferMsgToPair(st, s, msg, "ok")
  PROVE  /\ new = [field \in Server!Fields |-> new[field]]
         /\ \/ Ignored(new, st)
            \/ \E t \in DOMAIN st.pending : Forwarded(new, st, s, msg, t)
<1>1. st = [field \in Server!Fields |-> st[field]]
  BY FieldsOf
<1>2. PICK i : i = Server!GetId(s)
  OBVIOUS
<1>3. CASE i \in DOMAIN st.pairs /\ Server!Lock(st, st.pairs[i])
  <2>1. PICK t : t = st.pairs[i]
    OBVIOUS
  <2>2. new = Server!SendMessage(st, t, msg, "ok")
    BY <1>2, <1>3, <2>1 DEF Server!TransferMsgToPair
  <2>3. /\ new = [field \in Server!Fields |-> new[field]]
        /\ SameMatching(new, st) /\ new.out = Append(st.out, [to |-> t, msg |-> msg])
    BY <1>1, <2>2, SendEffect
  <2>4. t \in DOMAIN st.pending
    BY <1>3, <2>1 DEF Server!IsState
  <2> QED
    BY <1>2, <1>3, <2>1, <2>3, <2>4 DEF Forwarded
<1>4. CASE ~(i \in DOMAIN st.pairs /\ Server!Lock(st, st.pairs[i]))
  <2>1. new = st
    BY <1>2, <1>4 DEF Server!TransferMsgToPair
  <2> QED
    BY <1>1, <2>1 DEF Ignored, SameMatching
<1> QED
  BY <1>3, <1>4

\* The body of a message arrives.
LEMMA BodyEffect ==
  ASSUME ServerInv, Idle, NEW s \in DOMAIN server.pending, NEW msg \in Server!ClientMsgs,
         NEW new, new = Server!OnBodyReadDone(Server!Completed(s), s, msg, "ok", "ok")
  PROVE  \/ Ignored(new, server)
         \/ Refused(new, server, s, msg)
         \/ \E t \in DOMAIN server.pending : Matched(new, server, s, msg, t)
         \/ \E t \in DOMAIN server.pending : Forwarded(new, server, s, msg, t)
<1>1. PICK st : st = Server!Completed(s)
  OBVIOUS
<1>2. /\ SameMatching(st, server) /\ st.out = << >> /\ Srv!Holds(st)
      /\ st = [field \in Server!Fields |-> st[field]]
  BY <1>1, CompletedEffect
<1>3. Server!IsState(st)
  BY <1>2, HoldsMean
<1>4. st.running /\ s \in DOMAIN st.pending
  BY <1>2 DEF SameMatching, Idle
<1>5. PICK mid : mid = Server!OnClientMsg(st, s, msg, "ok", "ok")
  OBVIOUS
<1>6. /\ mid = [field \in Server!Fields |-> mid[field]]
      /\ \/ Ignored(mid, st)
         \/ Refused(mid, st, s, msg)
         \/ \E t \in DOMAIN st.pending : Matched(mid, st, s, msg, t)
         \/ \E t \in DOMAIN st.pending : Forwarded(mid, st, s, msg, t)
  <2>1. CASE msg.type = "RequestConnection"
    <3>1. PICK target : target = msg.id
      OBVIOUS
    <3>2. mid = Server!OnClientRequestConnection(st, s, target, "ok", "ok")
      BY <1>5, <2>1, <3>1 DEF Server!OnClientMsg, Server!Exchanges
    <3> QED
      BY <1>2, <1>3, <1>4, <2>1, <3>2, RequestEffect
  <2>2. CASE msg \in Server!Exchanges
    <3>1. mid = Server!TransferMsgToPair(st, s, msg, "ok")
      BY <1>5, <2>2 DEF Server!OnClientMsg, Server!Exchanges
    <3> QED
      BY <1>2, <1>3, <1>4, <2>2, <3>1, TransferEffect
  <2>3. CASE msg.type # "RequestConnection" /\ msg \notin Server!Exchanges
    <3>1. mid = st
      BY <1>5, <2>3 DEF Server!OnClientMsg
    <3> QED
      BY <1>2, <3>1 DEF Ignored, SameMatching
  <2> QED
    BY <2>1, <2>2, <2>3
<1>7. new = Server!Arm(mid, s, "header")
  BY <1>1, <1>5 DEF Server!OnBodyReadDone, Server!StartRead
<1>8. SameMatching(new, mid) /\ new.out = mid.out
  <2>1. mid = [field \in Server!Fields |-> mid[field]]
    BY <1>6
  <2> QED
    BY <1>7, <2>1, ArmEffect
<1>9. CASE Ignored(mid, st)
  BY <1>2, <1>8, <1>9 DEF Ignored, SameMatching
<1>10. CASE Refused(mid, st, s, msg)
  BY <1>2, <1>8, <1>10 DEF Refused, SameMatching
<1>11. ASSUME NEW t \in DOMAIN st.pending, Matched(mid, st, s, msg, t)
       PROVE  t \in DOMAIN server.pending /\ Matched(new, server, s, msg, t)
  BY <1>2, <1>8, <1>11 DEF Matched, SameMatching
<1>12. ASSUME NEW t \in DOMAIN st.pending, Forwarded(mid, st, s, msg, t)
       PROVE  t \in DOMAIN server.pending /\ Forwarded(new, server, s, msg, t)
  BY <1>2, <1>8, <1>12 DEF Forwarded, SameMatching
<1> QED
  BY <1>6, <1>9, <1>10, <1>11, <1>12

\* What is erased is gone, and no other entry changes.
LEMMA Erased ==
  ASSUME NEW f, NEW ks, NEW new, new = Srv!Erase(f, ks)
  PROVE  \A k : /\ k \in DOMAIN new <=> k \in DOMAIN f /\ k \notin ks
                /\ k \in DOMAIN new => new[k] = f[k]
BY DEF Srv!Erase, Srv!Restrict

\* A session is closed.
LEMMA CloseEffect ==
  ASSUME NEW st, Srv!Holds(st), NEW s \in DOMAIN st.pending,
         NEW new, new = Server!OnSessionClose(st, s)
  PROVE  /\ Closes(new, st) /\ new.out = st.out
         /\ Srv!Holds(new)
<1>1. Server!IsState(st) /\ Srv!IsState(st)
  BY HoldsMean, SameInvariants
<1>2. new = Srv!OnSessionClose(st, s)
  BY SameClose
<1>3. Srv!IsCloseOf(new, st, s)
  BY <1>1, <1>2, Assumed, Srv!CloseFields
<1>4. Srv!Holds(new)
  BY <1>2, Assumed, Srv!CloseHolds
<1>5. PICK ids : new.pairs = Srv!Erase(st.pairs, ids)
  BY <1>3 DEF Srv!IsCloseOf
<1>6. /\ DOMAIN new.pairs \subseteq DOMAIN st.pairs
      /\ \A i \in DOMAIN new.pairs : new.pairs[i] = st.pairs[i]
  BY <1>5, Erased
<1>7. /\ DOMAIN new.sessions \subseteq DOMAIN st.sessions
      /\ \A i \in DOMAIN new.sessions : new.sessions[i] = st.sessions[i]
  <2>1. \/ new.sessions = st.sessions
        \/ \E gone : new.sessions = Srv!Erase(st.sessions, gone)
    BY <1>3 DEF Srv!IsCloseOf
  <2> QED
    BY <2>1, Erased
<1>8. /\ \A x \in Server!Session : new.closes[x] >= st.closes[x]
      /\ \E x \in Server!Session : new.closes[x] > 0
  <2>1. st.closes \in [Server!Session -> Nat] /\ s \in Server!Session
    BY <1>1 DEF Server!IsState
  <2>2. new.closes = [st.closes EXCEPT ![s] = @ + 1]
    BY <1>3 DEF Srv!IsCloseOf
  <2> QED
    BY <2>1, <2>2
<1>9. /\ DOMAIN new.pending = DOMAIN st.pending /\ new.out = st.out
      /\ new.running => st.running
  BY <1>3 DEF Srv!IsCloseOf
<1>10. \A n \in 1..SERIAL_NUM_MAX : new.serials[n] => st.serials[n]
  <2>1. st.serials \in [1..SERIAL_NUM_MAX -> BOOLEAN]
    BY <1>1 DEF Server!IsState
  <2>2. new.serials \in {st.serials, [st.serials EXCEPT ![s.serial] = FALSE]}
    BY <1>3, Zenon DEF Srv!IsCloseOf
  <2> QED
    BY <2>1, <2>2
<1>11. st.running => Srv!Departs(st, new)
  <2>1. Srv!IsMatched(st) /\ Srv!IsState(new) /\ Srv!IsMatched(new)
    BY <1>4 DEF Srv!Holds, Srv!Consistent
  <2> QED
    BY <1>1, <1>3, <2>1, Assumed, Srv!CloseIsLeaving
<1> QED
  BY <1>4, <1>6, <1>7, <1>8, <1>9, <1>10, <1>11 DEF Closes

\* A close after what changes neither maps nor numbers is a close.
LEMMA ClosesFrom ==
  ASSUME NEW old, NEW st, SameMatching(st, old), NEW new, Closes(new, st)
  PROVE  Closes(new, old)
<1>1. Srv!Online(st) = Srv!Online(old) /\ Srv!Partner(st) = Srv!Partner(old)
  BY DEF SameMatching, Srv!Online, Srv!Partner, Srv!Live
<1>2. old.running => Srv!Departs(old, new)
  BY <1>1 DEF SameMatching, Closes, Srv!Departs
<1> QED
  BY <1>2 DEF SameMatching, Closes


-----------------------------------------------------------------------------
(* The actions of the server keep its invariant *)

\* What a handler leaves for the clients is for sessions that exist.
LEMMA AddressedNone ==
  ASSUME NEW st, st.out = << >>
  PROVE  Addressed(st)
BY DEF Addressed

\* One write to a session that exists.
LEMMA AddressedOne ==
  ASSUME NEW st, NEW s \in DOMAIN st.pending, NEW msg, st.out = << [to |-> s, msg |-> msg] >>
  PROVE  Addressed(st)
BY DEF Addressed

\* Two writes to sessions of different clients.
LEMMA AddressedTwo ==
  ASSUME NEW st, NEW s \in DOMAIN st.pending, NEW t \in DOMAIN st.pending, s.tail # t.tail,
         NEW m, NEW n, st.out = << [to |-> t, msg |-> m], [to |-> s, msg |-> n] >>
  PROVE  Addressed(st)
BY DEF Addressed

\* The sessions stay one for each client as long as none is created.
LEMMA OneSessionKept ==
  ASSUME NEW st, OneSession(st), NEW new, DOMAIN new.pending = DOMAIN st.pending
  PROVE  OneSession(new)
BY DEF OneSession

\* Accepting.
LEMMA AcceptStep ==
  ASSUME ServerInv, NEW c \in Clients, Accept(c)
  PROVE  InvOf(server') /\ Opens(server', server, c)
<1>1. server' = Server!OnAcceptDone(Server!Accepted, c, TRUE) /\ Idle /\ SessionsOf(c) = {}
  BY DEF Accept, Handle
<1>2. Opens(server', server, c)
  BY <1>1, AcceptEffect
<1>3. Srv!Holds(server')
  <2>1. server' = Srv!OnAcceptDone(Srv!Accepted, c, TRUE)
    BY <1>1, SameHandlers
  <2>2. ~Srv!Born(c)
    BY <1>1 DEF Srv!Born, SessionsOf
  <2>3. Srv!AcceptDone
    BY <2>1, <2>2 DEF Srv!AcceptDone, Accept, Idle
  <2>4. Srv!Next
    BY <2>3 DEF Srv!Next
  <2> QED
    BY <2>4, Assumed, Srv!NextHolds DEF ServerInv, InvOf
<1>4. OneSession(server')
  <2>1. PICK s : s.tail = c /\ DOMAIN server'.pending = DOMAIN server.pending \cup {s}
    BY <1>2 DEF Opens
  <2>2. \A x \in DOMAIN server.pending : x.tail # c
    BY <1>1 DEF SessionsOf
  <2>3. OneSession(server)
    BY DEF ServerInv, InvOf
  <2> QED
    BY <2>1, <2>2, <2>3 DEF OneSession
<1>5. Addressed(server')
  BY <1>2, AddressedNone DEF Opens
<1> QED
  BY <1>2, <1>3, <1>4, <1>5 DEF InvOf

\* The handshake.
LEMMA HandshakeStep ==
  ASSUME ServerInv, NEW c \in Clients, NEW s \in SessionsOf(c),
         Idle, Server!Running(s, "handshake"),
         server' = Server!OnHandshakeDone(Server!Completed(s), s, "ok")
  PROVE  /\ InvOf(server') /\ SameMatching(server', server)
         /\ server'.out = << [to |-> s, msg |-> [type |-> "UpdateSessionId",
                                                 id |-> Server!GetId(s)]] >>
<1>1. s \in DOMAIN server.pending /\ s \in Server!Session
  BY HoldsMean, FieldsOf DEF SessionsOf, ServerInv, InvOf
<1>2. /\ SameMatching(server', server)
      /\ server'.out = << [to |-> s, msg |-> [type |-> "UpdateSessionId",
                                              id |-> Server!GetId(s)]] >>
  BY <1>1, HandshakeEffect
<1>3. Srv!Holds(server')
  <2>1. server' = Srv!OnHandshakeDone(Srv!Completed(s), s, "ok") /\ Srv!Running(s, "handshake")
    BY SameHandlers
  <2>2. "ok" \in Srv!WriteResults
    BY DEF Srv!WriteResults
  <2>3. Srv!HandshakeDone(s)
    BY <2>1, <2>2 DEF Srv!HandshakeDone
  <2>4. Srv!Next
    BY <1>1, <2>3, SameSets DEF Srv!Next
  <2> QED
    BY <2>4, Assumed, Srv!NextHolds DEF ServerInv, InvOf
<1>4. OneSession(server')
  BY <1>2, OneSessionKept DEF SameMatching, ServerInv, InvOf
<1>5. Addressed(server')
  <2>1. s \in DOMAIN server'.pending
    BY <1>1, <1>2 DEF SameMatching
  <2> QED
    BY <1>2, <2>1, AddressedOne
<1> QED
  BY <1>2, <1>3, <1>4, <1>5 DEF InvOf

\* The header of a message.
LEMMA HeaderStep ==
  ASSUME ServerInv, NEW c \in Clients, NEW s \in SessionsOf(c),
         Server!Running(s, "header"),
         server' = Server!OnHeaderReadDone(Server!Completed(s), s, FALSE)
  PROVE  InvOf(server') /\ SameMatching(server', server) /\ server'.out = << >>
<1>1. s \in DOMAIN server.pending /\ s \in Server!Session
  BY HoldsMean, FieldsOf DEF SessionsOf, ServerInv, InvOf
<1>2. server' = Server!Arm(Server!Completed(s), s, "body")
  BY DEF Server!OnHeaderReadDone
<1>3. SameMatching(server', server) /\ server'.out = << >>
  BY <1>1, <1>2, HeaderEffect
<1>4. Srv!Holds(server')
  <2>1. server' = Srv!OnHeaderReadDone(Srv!Completed(s), s, FALSE) /\ Srv!Running(s, "header")
    BY SameHandlers
  <2>2. Srv!HeaderReadDone(s)
    BY <2>1 DEF Srv!HeaderReadDone
  <2>3. Srv!Next
    BY <1>1, <2>2, SameSets DEF Srv!Next
  <2> QED
    BY <2>3, Assumed, Srv!NextHolds DEF ServerInv, InvOf
<1>5. OneSession(server') /\ Addressed(server')
  BY <1>3, OneSessionKept, AddressedNone DEF SameMatching, ServerInv, InvOf
<1> QED
  BY <1>3, <1>4, <1>5 DEF InvOf

\* A message.
LEMMA BodyStep ==
  ASSUME ServerInv, NEW c \in Clients, NEW s \in SessionsOf(c), NEW msg \in Server!ClientMsgs,
         Idle, Server!Running(s, "body"),
         server' = Server!OnBodyReadDone(Server!Completed(s), s, msg, "ok", "ok")
  PROVE  /\ InvOf(server')
         /\ \/ Ignored(server', server)
            \/ Refused(server', server, s, msg)
            \/ \E t \in DOMAIN server.pending : Matched(server', server, s, msg, t)
            \/ \E t \in DOMAIN server.pending : Forwarded(server', server, s, msg, t)
<1>1. s \in DOMAIN server.pending /\ s \in Server!Session
  BY HoldsMean, FieldsOf DEF SessionsOf, ServerInv, InvOf
<1>2. \/ Ignored(server', server)
      \/ Refused(server', server, s, msg)
      \/ \E t \in DOMAIN server.pending : Matched(server', server, s, msg, t)
      \/ \E t \in DOMAIN server.pending : Forwarded(server', server, s, msg, t)
  BY <1>1, BodyEffect
<1>3. Srv!Holds(server')
  <2>1. PICK st : st = Srv!Completed(s)
    OBVIOUS
  <2>2. Srv!Holds(st) /\ s \in DOMAIN st.pending
    BY <1>1, <2>1, Assumed, Srv!CompletedHolds DEF ServerInv, InvOf
  <2>3. PICK mid : mid = Srv!OnClientMsg(st, s, msg, "ok", "ok")
    OBVIOUS
  <2>4. "ok" \in Srv!WriteResults /\ "header" \in Srv!Ops
    BY DEF Srv!WriteResults, Srv!Ops
  <2>5. Srv!Holds(mid) /\ s \in DOMAIN mid.pending
    BY <2>2, <2>3, <2>4, Assumed, Srv!ClientMsgHolds
  <2>6. server' = Srv!Arm(mid, s, "header")
    BY <2>1, <2>3, SameHandlers DEF Srv!OnBodyReadDone, Srv!StartRead
  <2> QED
    BY <2>4, <2>5, <2>6, Assumed, Srv!ArmHolds
<1>4. DOMAIN server'.pending = DOMAIN server.pending
  BY <1>2 DEF Ignored, Refused, Matched, Forwarded, SameMatching
<1>5. OneSession(server')
  BY <1>4, OneSessionKept DEF ServerInv, InvOf
<1>6. Addressed(server')
  <2>1. CASE Ignored(server', server)
    BY <2>1, AddressedNone DEF Ignored
  <2>2. CASE Refused(server', server, s, msg)
    <3>1. PICK reply : reply = Server!Reply(FALSE)
      OBVIOUS
    <3>2. server'.out = << [to |-> s, msg |-> reply] >> /\ s \in DOMAIN server'.pending
      BY <1>1, <1>4, <2>2, <3>1 DEF Refused
    <3> QED
      BY <3>2, AddressedOne
  <2>3. CASE \E t \in DOMAIN server.pending : Matched(server', server, s, msg, t)
    <3>1. PICK t \in DOMAIN server.pending : Matched(server', server, s, msg, t)
      BY <2>3
    <3>2. PICK m, n : m = [type |-> "RemoteRequestConnection"] /\ n = Server!Reply(TRUE)
      OBVIOUS
    <3>3. server'.out = << [to |-> t, msg |-> m], [to |-> s, msg |-> n] >> /\ s # t
      BY <3>1, <3>2 DEF Matched
    <3>4. s.tail # t.tail /\ s \in DOMAIN server'.pending /\ t \in DOMAIN server'.pending
      BY <1>1, <1>4, <3>3 DEF OneSession, ServerInv, InvOf
    <3> QED
      BY <3>3, <3>4, AddressedTwo
  <2>4. CASE \E t \in DOMAIN server.pending : Forwarded(server', server, s, msg, t)
    <3>1. PICK t \in DOMAIN server.pending : Forwarded(server', server, s, msg, t)
      BY <2>4
    <3>2. server'.out = << [to |-> t, msg |-> msg] >> /\ t \in DOMAIN server'.pending
      BY <1>4, <3>1 DEF Forwarded
    <3> QED
      BY <3>2, AddressedOne
  <2> QED
    BY <1>2, <2>1, <2>2, <2>3, <2>4
<1> QED
  BY <1>2, <1>3, <1>5, <1>6 DEF InvOf

\* The end of a stream.
LEMMA EndStep ==
  ASSUME ServerInv, NEW c \in Clients, NEW s \in SessionsOf(c), NEW fault \in Server!Faults,
         server' = IF fault = "closing" THEN Server!OnSessionClose(Server!Completed(s), s)
                                        ELSE Server!Completed(s)
  PROVE  /\ InvOf(server') /\ server'.out = << >>
         /\ SameMatching(server', server) \/ Closes(server', server)
<1>1. s \in DOMAIN server.pending
  BY DEF SessionsOf
<1>2. PICK st : st = Server!Completed(s)
  OBVIOUS
<1>3. SameMatching(st, server) /\ st.out = << >> /\ Srv!Holds(st)
  BY <1>1, <1>2, CompletedEffect
<1>4. CASE fault # "closing"
  <2>1. server' = st
    BY <1>2, <1>4
  <2>2. OneSession(server')
    BY <1>3, <2>1, OneSessionKept DEF SameMatching, ServerInv, InvOf
  <2>3. Addressed(server')
    BY <1>3, <2>1, AddressedNone
  <2> QED
    BY <1>3, <2>1, <2>2, <2>3 DEF InvOf
<1>5. CASE fault = "closing"
  <2>1. server' = Server!OnSessionClose(st, s) /\ s \in DOMAIN st.pending
    BY <1>1, <1>2, <1>3, <1>5 DEF SameMatching
  <2>2. Closes(server', st) /\ server'.out = st.out /\ Srv!Holds(server')
    BY <1>3, <2>1, CloseEffect
  <2>3. Closes(server', server)
    BY <1>3, <2>2, ClosesFrom
  <2>4. OneSession(server')
    BY <2>3, OneSessionKept DEF Closes, ServerInv, InvOf
  <2>5. Addressed(server')
    BY <1>3, <2>2, AddressedNone
  <2> QED
    BY <1>3, <2>2, <2>3, <2>4, <2>5 DEF InvOf
<1> QED
  BY <1>4, <1>5

\* A write that was begun returns.
LEMMA WriteStep ==
  ASSUME ServerInv, WriteReturns
  PROVE  /\ InvOf(server') /\ server.out # << >> /\ server'.out = Tail(server.out)
         /\ SameMatching(server', server) \/ Closes(server', server)
<1>1. Server!IsState(server) /\ server.out # << >>
  BY HoldsMean DEF ServerInv, InvOf, WriteReturns
<1>2. PICK rest : rest = [server EXCEPT !.out = Tail(@)]
  OBVIOUS
<1>3. /\ rest = [field \in Server!Fields |-> rest[field]]
      /\ rest.serials = server.serials /\ rest.sessions = server.sessions
      /\ rest.pairs = server.pairs /\ rest.running = server.running
      /\ rest.closes = server.closes /\ rest.pending = server.pending
      /\ rest.told = server.told /\ rest.accepts = server.accepts
      /\ rest.out = Tail(server.out)
  <2>1. server = [field \in Server!Fields |-> server[field]]
    BY <1>1, FieldsOf
  <2>2. PICK out : out = Tail(server.out)
    OBVIOUS
  <2>3. rest = [server EXCEPT !.out = out]
    BY <1>2, <2>2
  <2> QED
    BY <2>1, <2>2, <2>3 DEF Server!Fields
<1>4. SameMatching(rest, server)
  BY <1>3 DEF SameMatching
<1>5. server.out \in Seq([to : Server!Session, msg : Server!ServerMsgs])
  BY <1>1 DEF Server!IsState
<1>6. /\ rest.out \in Seq([to : Server!Session, msg : Server!ServerMsgs])
      /\ 1 \in DOMAIN server.out /\ Head(server.out) = server.out[1]
      /\ DOMAIN rest.out = 1..Len(server.out) - 1
      /\ \A k \in DOMAIN rest.out : k + 1 \in DOMAIN server.out /\ rest.out[k] = server.out[k + 1]
  <2>1. PICK q, new, S : q = server.out /\ new = rest.out
                         /\ S = [to : Server!Session, msg : Server!ServerMsgs]
    OBVIOUS
  <2>2. q \in Seq(S) /\ q # << >> /\ new = Tail(q)
    BY <1>1, <1>3, <1>5, <2>1
  <2>3. /\ 1 \in DOMAIN q /\ Head(q) = q[1]
        /\ new \in Seq(S)
        /\ DOMAIN new = 1..Len(q) - 1
        /\ \A k \in DOMAIN new : k + 1 \in DOMAIN q /\ new[k] = q[k + 1]
    BY <2>2, TailElements
  <2> QED
    BY <2>1, <2>3
<1>7. Srv!Holds(rest)
  <2>1. rest.out \in Seq([to : Srv!Session, msg : Srv!ServerMsgs])
    BY <1>6, SameSets
  <2>2. Srv!HasFields(rest)
    BY <1>3, SameSets DEF Srv!HasFields
  <2>3. /\ rest.pending \in [DOMAIN rest.pending -> Srv!Ops]
        /\ rest.told \in SUBSET Srv!Ids /\ rest.accepts \in Nat
    BY <1>1, <1>3, SameSets DEF Server!IsState
  <2>4. Srv!Consistent(server) /\ Srv!IsListening(server)
    BY DEF ServerInv, InvOf, Srv!Holds
  <2>5. Srv!Consistent(rest)
    BY <1>3, <2>1, <2>2, <2>3, <2>4, Assumed, Srv!SameMapsConsistent
  <2>6. Srv!IsListening(rest)
    BY <1>3, <2>4 DEF Srv!IsListening, Srv!Size
  <2> QED
    BY <2>5, <2>6 DEF Srv!Holds
<1>8. Addressed(rest)
  <2>1. Addressed(server)
    BY DEF ServerInv, InvOf
  <2>2. \A j, k \in DOMAIN rest.out : j + 1 = k + 1 => j = k
    BY <1>6
  <2>3. \A k \in DOMAIN rest.out : rest.out[k].to \in DOMAIN rest.pending
    BY <1>3, <1>6, <2>1 DEF Addressed
  <2>4. \A j, k \in DOMAIN rest.out : rest.out[j].to.tail = rest.out[k].to.tail => j = k
    BY <1>6, <2>1, <2>2 DEF Addressed
  <2> QED
    BY <2>3, <2>4 DEF Addressed
<1>9. OneSession(rest)
  BY <1>3, OneSessionKept DEF ServerInv, InvOf
<1>10. PICK to : to = Head(server.out).to
  OBVIOUS
<1>11. to \in DOMAIN rest.pending
  BY <1>3, <1>10, <1>6 DEF Addressed, ServerInv, InvOf
<1>12. server' = rest \/ server' = Server!OnSessionClose(rest, to)
  BY <1>2, <1>10 DEF WriteReturns, WriteTaken, Handle, Server!OnWriteError
<1>13. CASE server' = rest
  BY <1>1, <1>3, <1>4, <1>7, <1>8, <1>9, <1>13 DEF InvOf
<1>14. CASE server' = Server!OnSessionClose(rest, to)
  <2>1. Closes(server', rest) /\ server'.out = rest.out /\ Srv!Holds(server')
    BY <1>7, <1>11, <1>14, CloseEffect
  <2>2. Closes(server', server)
    BY <1>4, <2>1, ClosesFrom
  <2>3. OneSession(server')
    BY <2>2, OneSessionKept DEF Closes, ServerInv, InvOf
  <2>4. Addressed(server')
    <3>1. server'.out = rest.out /\ DOMAIN server'.pending = DOMAIN rest.pending
      BY <2>1 DEF Closes
    <3> QED
      BY <1>8, <3>1 DEF Addressed
  <2> QED
    BY <1>1, <1>3, <2>1, <2>2, <2>3, <2>4 DEF InvOf
<1> QED
  BY <1>12, <1>13, <1>14

-----------------------------------------------------------------------------
(* Types *)

Typed == /\ client \in [Clients -> ClientRecord]
         /\ up \in [Clients -> Seq(Server!ClientMsgs)]
         /\ down \in [Clients -> Seq(Server!ServerMsgs)]

\* What the server keeps and what the clients keep, together.
Base == ServerInv /\ Typed

\* One client changes, and is still one.
LEMMA OneChanges ==
  ASSUME NEW S, NEW f \in [Clients -> S], NEW c, NEW v \in S, NEW new,
         new = [f EXCEPT ![c] = v]
  PROVE  new \in [Clients -> S]
OBVIOUS

\* Taking the first message, adding one and keeping the first few.
LEMMA StreamChanges ==
  ASSUME NEW S, NEW f \in [Clients -> Seq(S)], NEW c \in Clients
  PROVE  /\ f[c] # << >> => [f EXCEPT ![c] = Tail(@)] \in [Clients -> Seq(S)]
         /\ \A e \in S : [f EXCEPT ![c] = Append(@, e)] \in [Clients -> Seq(S)]
         /\ \A k \in 0..Len(f[c]) : [f EXCEPT ![c] = SubSeq(@, 1, k)] \in [Clients -> Seq(S)]
         /\ [f EXCEPT ![c] = << >>] \in [Clients -> Seq(S)]
<1>1. f[c] \in Seq(S)
  OBVIOUS
<1>2. f[c] # << >> => Tail(f[c]) \in Seq(S)
  BY <1>1
<1>3. \A e \in S : Append(f[c], e) \in Seq(S)
  BY <1>1
<1>4. \A k \in 0..Len(f[c]) : SubSeq(f[c], 1, k) \in Seq(S)
  BY <1>1
<1>5. << >> \in Seq(S)
  OBVIOUS
<1> QED
  BY <1>2, <1>3, <1>4, <1>5, OneChanges

\* The messages of the server are typed, and the first one is to be written.
LEMMA NextOut ==
  ASSUME ServerInv, server.out # << >>
  PROVE  /\ server.out \in Seq([to : Server!Session, msg : Server!ServerMsgs])
         /\ 1 \in DOMAIN server.out /\ Head(server.out) = server.out[1]
         /\ Head(server.out).msg \in Server!ServerMsgs
         /\ Head(server.out).to \in DOMAIN server.pending
         /\ Head(server.out).to.tail \in Clients
<1>1. server.out \in Seq([to : Server!Session, msg : Server!ServerMsgs])
  BY HoldsMean DEF ServerInv, InvOf, Server!IsState
<1>2. PICK q, S : q = server.out /\ S = [to : Server!Session, msg : Server!ServerMsgs]
  OBVIOUS
<1>3. Head(q) \in S /\ 1 \in DOMAIN q /\ Head(q) = q[1]
  BY <1>1, <1>2, TailElements
<1>4. Head(server.out).msg \in Server!ServerMsgs /\ Head(server.out).to \in Server!Session
  BY <1>2, <1>3
<1>5. Head(server.out).to.tail \in Clients
  BY <1>4 DEF Server!Session
<1> QED
  BY <1>1, <1>2, <1>3, <1>4, <1>5 DEF Addressed, ServerInv, InvOf

\* A handler of the server.
LEMMA ServerStepBase ==
  ASSUME Base, NEW c \in Clients, ServerStep(c)
  PROVE  Base'
<1>1. CASE Accept(c)
  BY <1>1, AcceptStep DEF Accept, Handle, Base, Typed, ServerInv
<1>2. CASE Handshake(c)
  <2>1. PICK s \in SessionsOf(c) :
             /\ Idle /\ Server!Running(s, "handshake")
             /\ client' = [client EXCEPT ![c].socket = "connected"]
             /\ server' = Server!OnHandshakeDone(Server!Completed(s), s, "ok")
             /\ down' = down /\ up' = up
    BY <1>2 DEF Handshake, Handle
  <2>2. client' \in [Clients -> ClientRecord]
    <3>1. client \in [Clients -> ClientRecord]
      BY DEF Base, Typed
    <3>2. PICK r : r = [client[c] EXCEPT !.socket = "connected"]
      OBVIOUS
    <3>3. r \in ClientRecord
      BY <3>1, <3>2 DEF ClientRecord
    <3>4. client' = [client EXCEPT ![c] = r]
      BY <2>1, <3>2
    <3> QED
      BY <3>1, <3>3, <3>4
  <2>3. InvOf(server')
    BY <2>1, HandshakeStep DEF Base
  <2> QED
    BY <2>1, <2>2, <2>3 DEF Base, Typed, ServerInv
<1>3. CASE ReadHeader(c)
  BY <1>3, HeaderStep DEF ReadHeader, Handle, Base, Typed, ServerInv
<1>4. CASE ReadBody(c)
  <2>1. PICK s \in SessionsOf(c) :
             /\ Idle /\ Server!Running(s, "body") /\ up[c] # << >>
             /\ server' = Server!OnBodyReadDone(Server!Completed(s), s, Head(up[c]), "ok", "ok")
             /\ down' = down /\ up' = [up EXCEPT ![c] = Tail(@)] /\ client' = client
    BY <1>4 DEF ReadBody, Handle
  <2>2. Head(up[c]) \in Server!ClientMsgs
    BY <2>1 DEF Base, Typed
  <2>3. InvOf(server')
    BY <2>1, <2>2, BodyStep DEF Base
  <2>4. up' \in [Clients -> Seq(Server!ClientMsgs)]
    BY <2>1, StreamChanges DEF Base, Typed
  <2> QED
    BY <2>1, <2>3, <2>4 DEF Base, Typed, ServerInv
<1>5. CASE ReadEnd(c)
  <2>1. PICK s \in SessionsOf(c), fault \in Server!Faults :
             /\ server' = IF fault = "closing"
                          THEN Server!OnSessionClose(Server!Completed(s), s)
                          ELSE Server!Completed(s)
             /\ down' = down /\ up' = up /\ client' = client
    BY <1>5 DEF ReadEnd, Handle, Server!OnHandshakeError, Server!OnReadError, Server!Faults
  <2>2. InvOf(server')
    BY <2>1, EndStep DEF Base
  <2> QED
    BY <2>1, <2>2 DEF Base, Typed, ServerInv
<1> QED
  BY <1>1, <1>2, <1>3, <1>4, <1>5 DEF ServerStep

\* A write.
LEMMA WriteBase ==
  ASSUME Base, WriteReturns
  PROVE  Base'
<1>1. InvOf(server')
  BY WriteStep DEF Base
<1>2. CASE WriteTaken
  <2>1. PICK d, msg : d = Head(server.out).to.tail /\ msg = Head(server.out).msg
    OBVIOUS
  <2>2. d \in Clients /\ msg \in Server!ServerMsgs
    BY <2>1, NextOut DEF Base, WriteReturns
  <2>3. down' = [down EXCEPT ![d] = Append(@, msg)]
    BY <1>2, <2>1 DEF WriteTaken
  <2>4. down' \in [Clients -> Seq(Server!ServerMsgs)]
    BY <2>2, <2>3, StreamChanges DEF Base, Typed
  <2> QED
    BY <1>1, <2>4 DEF WriteReturns, Base, Typed, ServerInv
<1>3. CASE ~WriteTaken
  BY <1>1, <1>3 DEF WriteReturns, Handle, Base, Typed, ServerInv
<1> QED
  BY <1>2, <1>3

\* The process of a client ends.
LEMMA ExitBase ==
  ASSUME Base, NEW c \in Clients, NEW state \in States,
         NEW socket \in {"closed", "lost"}, Exit(c, state, socket), server' = server
  PROVE  Base'
<1>1. client' \in [Clients -> ClientRecord]
  <2>1. PICK r : r = [client[c] EXCEPT !.state = state, !.socket = socket]
    OBVIOUS
  <2>2. client[c] \in ClientRecord
    BY DEF Base, Typed
  <2>3. r \in ClientRecord
    BY <2>1, <2>2 DEF ClientRecord
  <2>4. client' = [client EXCEPT ![c] = r]
    BY <2>1 DEF Exit, Base, Typed
  <2> QED
    BY <2>3, <2>4, OneChanges DEF Base, Typed
<1>2. up' \in [Clients -> Seq(Server!ClientMsgs)] /\ down' \in [Clients -> Seq(Server!ServerMsgs)]
  BY StreamChanges DEF Exit, Base, Typed
<1> QED
  BY <1>1, <1>2 DEF Base, Typed, ServerInv

\* A client takes a message from its stream.
LEMMA StreamStepBase ==
  ASSUME Base, NEW c \in Clients, StreamStep(c)
  PROVE  Base'
<1>1. down[c] # << >> => Head(down[c]) \in Server!ServerMsgs
  BY DEF Base, Typed
<1>2. ASSUME Consume(c), down[c] # << >>, client' \in [Clients -> ClientRecord] PROVE Base'
  <2>1. down' \in [Clients -> Seq(Server!ServerMsgs)]
    BY <1>2, StreamChanges DEF Base, Typed, Consume
  <2> QED
    BY <1>2, <2>1 DEF Base, Typed, ServerInv, Consume
<1>3. client[c] \in ClientRecord
  BY DEF Base, Typed
<1>4. CASE UpdateSessionId(c)
  <2>1. Head(down[c]).id \in Server!Ids
    BY <1>1, <1>4 DEF UpdateSessionId, Receives, Server!ServerMsgs, Server!Exchanges
  <2>2. client' \in [Clients -> ClientRecord]
    BY <1>3, <1>4, <2>1 DEF UpdateSessionId, Base, Typed, ClientRecord
  <2> QED
    BY <1>2, <1>4, <2>2 DEF UpdateSessionId, Receives
<1>5. CASE OnRemoteRequestConnection(c)
  <2>1. CASE client[c].control = "none"
    <3>1. client' \in [Clients -> ClientRecord]
      <4>1. PICK r : r = [client[c] EXCEPT !.control = "agent", !.local = TRUE]
        OBVIOUS
      <4>2. r \in ClientRecord
        BY <1>3, <4>1 DEF ClientRecord
      <4>3. client' = [client EXCEPT ![c] = r]
        BY <1>5, <2>1, <4>1 DEF OnRemoteRequestConnection, Base, Typed
      <4> QED
        BY <4>2, <4>3, OneChanges DEF Base, Typed
    <3> QED
      BY <1>2, <1>5, <2>1, <3>1 DEF OnRemoteRequestConnection, Receives
  <2>2. CASE client[c].control # "none"
    BY <1>5, <2>2, ExitBase DEF OnRemoteRequestConnection, States
  <2> QED
    BY <2>1, <2>2
<1>6. CASE OnReplyConnection(c)
  <2>1. \/ client' = [client EXCEPT ![c].button = TRUE] /\ Consume(c)
        \/ client' = [client EXCEPT ![c].control = "controller"] /\ Consume(c)
        \/ Exit(c, "abortedByReply", "closed") /\ UNCHANGED server
    BY <1>6 DEF OnReplyConnection
  <2>2. CASE client' = [client EXCEPT ![c].button = TRUE] /\ Consume(c)
    <3>1. client' \in [Clients -> ClientRecord]
      BY <1>3, <2>2 DEF Base, Typed, ClientRecord
    <3> QED
      BY <1>2, <1>6, <2>2, <3>1 DEF OnReplyConnection, Receives
  <2>3. CASE client' = [client EXCEPT ![c].control = "controller"] /\ Consume(c)
    <3>1. client' \in [Clients -> ClientRecord]
      BY <1>3, <2>3 DEF Base, Typed, ClientRecord
    <3> QED
      BY <1>2, <1>6, <2>3, <3>1 DEF OnReplyConnection, Receives
  <2>4. CASE Exit(c, "abortedByReply", "closed") /\ UNCHANGED server
    BY <2>4, ExitBase DEF States
  <2> QED
    BY <2>1, <2>2, <2>3, <2>4
<1>7. CASE OnRemoteSdpReceived(c)
  <2>1. Head(down[c]).data.from \in Clients /\ down[c] # << >>
    BY <1>1, <1>7
    DEF OnRemoteSdpReceived, Receives, Server!ServerMsgs, Server!Exchanges, Descriptions
  <2>2. client' \in [Clients -> ClientRecord]
    BY <1>3, <1>7, <2>1 DEF OnRemoteSdpReceived, Base, Typed, ClientRecord
  <2> QED
    BY <1>2, <1>7, <2>1, <2>2 DEF OnRemoteSdpReceived
<1> QED
  BY <1>4, <1>5, <1>6, <1>7 DEF StreamStep

\* What a client does of its own accord.
LEMMA OwnStepBase ==
  ASSUME Base, NEW c \in Clients,
         \/ OnRtcSetLocalSessionSuccess(c)
         \/ OnPeerConnected(c)
         \/ OnPeerDisconnected(c)
         \/ \E id \in KnownIds : ConnectToSession(c, id)
         \/ Hang(c)
         \/ Quit(c)
         \/ OnConnectionError(c)
  PROVE  Base'
<1>1. client[c] \in ClientRecord
  BY DEF Base, Typed
<1>2. CASE OnRtcSetLocalSessionSuccess(c)
  <2>1. PICK msg : msg = [type |-> "ExchangeSessionDescription",
                          data |-> [sdp_type |-> IF client[c].control = "agent"
                                                 THEN "offer" ELSE "answer",
                                    from |-> c]]
    OBVIOUS
  <2>2. msg \in Server!ClientMsgs
    BY <2>1 DEF Server!ClientMsgs, Server!Exchanges, Descriptions
  <2>3. up' = [up EXCEPT ![c] = Append(@, msg)] /\ down' = down /\ server' = server
    BY <1>2, <2>1 DEF OnRtcSetLocalSessionSuccess, SendMsg
  <2>4. up' \in [Clients -> Seq(Server!ClientMsgs)]
    BY <2>2, <2>3, StreamChanges DEF Base, Typed
  <2>5. client' \in [Clients -> ClientRecord]
    BY <1>1, <1>2 DEF OnRtcSetLocalSessionSuccess, Base, Typed, ClientRecord
  <2> QED
    BY <2>3, <2>4, <2>5 DEF Base, Typed, ServerInv
<1>3. CASE OnPeerConnected(c)
  <2>1. client' \in [Clients -> ClientRecord]
    BY <1>1, <1>3 DEF OnPeerConnected, Base, Typed, ClientRecord
  <2>2. down' \in [Clients -> Seq(Server!ServerMsgs)]
    BY <1>3, StreamChanges DEF OnPeerConnected, Base, Typed
  <2> QED
    BY <1>3, <2>1, <2>2 DEF OnPeerConnected, Base, Typed, ServerInv
<1>4. CASE OnPeerDisconnected(c)
  <2>1. client' \in [Clients -> ClientRecord]
    BY <1>1, <1>4 DEF OnPeerDisconnected, Base, Typed, ClientRecord, States
  <2> QED
    BY <1>4, <2>1 DEF OnPeerDisconnected, Base, Typed, ServerInv
<1>5. CASE \E id \in KnownIds : ConnectToSession(c, id)
  <2>1. PICK id \in KnownIds : ConnectToSession(c, id)
    BY <1>5
  <2>2. id \in Server!Ids
    BY DEF KnownIds, Base, Typed, ClientRecord, Server!Ids
  <2>3. PICK msg : msg = [type |-> "RequestConnection", id |-> id]
    OBVIOUS
  <2>4. msg \in Server!ClientMsgs
    BY <2>2, <2>3 DEF Server!ClientMsgs, Server!Requests
  <2>5. up' = [up EXCEPT ![c] = Append(@, msg)] /\ down' = down /\ server' = server
    BY <2>1, <2>3 DEF ConnectToSession, SendMsg
  <2>6. up' \in [Clients -> Seq(Server!ClientMsgs)]
    BY <2>4, <2>5, StreamChanges DEF Base, Typed
  <2>7. client' \in [Clients -> ClientRecord]
    BY <1>1, <2>1 DEF ConnectToSession, Base, Typed, ClientRecord
  <2> QED
    BY <2>5, <2>6, <2>7 DEF Base, Typed, ServerInv
<1>6. CASE Hang(c)
  <2>1. client' \in [Clients -> ClientRecord]
    BY <1>1, <1>6 DEF Hang, Base, Typed, ClientRecord, States
  <2> QED
    BY <1>6, <2>1 DEF Hang, Base, Typed, ServerInv
<1>7. CASE Quit(c)
  BY <1>7, ExitBase DEF Quit, States
<1>8. CASE OnConnectionError(c)
  BY <1>8, ExitBase DEF OnConnectionError, States
<1> QED
  BY <1>2, <1>3, <1>4, <1>5, <1>6, <1>7, <1>8

\* Every step.
LEMMA BaseKept == Base /\ [Next]_vars => Base'
<1> SUFFICES ASSUME Base, [Next]_vars PROVE Base'
  OBVIOUS
<1>1. CASE WriteReturns
  BY <1>1, WriteBase
<1>2. ASSUME NEW c \in Clients, ClientStep(c) PROVE Base'
  BY <1>2, ServerStepBase, StreamStepBase, OwnStepBase DEF ClientStep
<1>3. CASE UNCHANGED vars
  BY <1>3 DEF vars, Base, Typed, ServerInv
<1> QED
  BY <1>1, <1>2, <1>3 DEF Next

\* The server starts as in MatchServer, the streams are empty.
LEMMA BaseInit == Init => Base
<1> SUFFICES ASSUME Init PROVE Base
  OBVIOUS
<1>1. Server!Init
  BY DEF Init
<1>2. Srv!Init
  BY <1>1, SameSets DEF Server!Init, Srv!Init
<1>3. Srv!Holds(server)
  BY <1>2, Assumed, Srv!InitHolds
<1>4. OneSession(server) /\ Addressed(server)
  BY <1>1 DEF Server!Init, OneSession, Addressed
<1>5. client \in [Clients -> ClientRecord]
  BY DEF Init, ClientRecord, States, Server!Ids
<1>6. up \in [Clients -> Seq(Server!ClientMsgs)] /\ down \in [Clients -> Seq(Server!ServerMsgs)]
  BY DEF Init
<1> QED
  BY <1>3, <1>4, <1>5, <1>6 DEF Base, ServerInv, InvOf, Typed

-----------------------------------------------------------------------------
(* Serial numbers *)

\* There are serial numbers for all clients, those that come later included.
FewClients == IsFiniteSet(Clients) /\ Cardinality(Clients) <= SERIAL_NUM_MAX

\* A serial number that is marked was given to a session.
Marked == \A n \in 1..SERIAL_NUM_MAX :
            server.serials[n] => \E s \in DOMAIN server.pending : s.serial = n

\* No session was given the empty id, for want of a serial number: two sessions that
\* have it are one entry in the maps of the server.
Numbered == \A s \in DOMAIN server.pending : s.serial # 0

\* Only accepting creates sessions and marks numbers.
NoNew(new, st) == /\ DOMAIN new.pending = DOMAIN st.pending
                  /\ \A n \in 1..SERIAL_NUM_MAX : new.serials[n] => st.serials[n]

\* No other action does.
LEMMA OnlyAcceptCreates ==
  ASSUME Base, [Next]_vars, ~NoNew(server', server)
  PROVE  \E c \in Clients : Accept(c)
<1>1. ASSUME SameMatching(server', server) \/ Closes(server', server) PROVE FALSE
  BY <1>1 DEF SameMatching, Closes, NoNew
<1>2. ~(server' = server)
  BY DEF NoNew
<1>3. ~WriteReturns
  BY <1>1, WriteStep DEF Base
<1>4. PICK c \in Clients : ClientStep(c)
  BY <1>2, <1>3 DEF Next, vars
<1>5. ServerStep(c)
  BY <1>2, <1>4
  DEF ClientStep, StreamStep, UpdateSessionId, OnRemoteRequestConnection, OnReplyConnection,
      OnRemoteSdpReceived, Consume, OnRtcSetLocalSessionSuccess, OnPeerConnected,
      OnPeerDisconnected, ConnectToSession, Hang, Quit, OnConnectionError
<1>6. ~Handshake(c)
  BY <1>1, HandshakeStep DEF Handshake, Handle, Base
<1>7. ~ReadHeader(c)
  BY <1>1, HeaderStep DEF ReadHeader, Handle, Base
<1>8. ~ReadBody(c)
  <2> SUFFICES ASSUME ReadBody(c) PROVE FALSE
    OBVIOUS
  <2>1. PICK s \in SessionsOf(c) :
             /\ Idle /\ Server!Running(s, "body") /\ up[c] # << >>
             /\ server' = Server!OnBodyReadDone(Server!Completed(s), s, Head(up[c]), "ok", "ok")
    BY DEF ReadBody, Handle
  <2>2. PICK msg : msg = Head(up[c])
    OBVIOUS
  <2>3. msg \in Server!ClientMsgs
    BY <2>1, <2>2 DEF Base, Typed
  <2>4. \/ Ignored(server', server)
        \/ Refused(server', server, s, msg)
        \/ \E t \in DOMAIN server.pending : Matched(server', server, s, msg, t)
        \/ \E t \in DOMAIN server.pending : Forwarded(server', server, s, msg, t)
    BY <2>1, <2>2, <2>3, BodyStep DEF Base
  <2> QED
    BY <2>4 DEF Ignored, Refused, Matched, Forwarded, SameMatching, NoNew
<1>9. ~ReadEnd(c)
  <2> SUFFICES ASSUME ReadEnd(c) PROVE FALSE
    OBVIOUS
  <2>1. PICK s \in SessionsOf(c), fault \in Server!Faults :
             server' = IF fault = "closing"
                       THEN Server!OnSessionClose(Server!Completed(s), s)
                       ELSE Server!Completed(s)
    BY DEF ReadEnd, Handle, Server!OnHandshakeError, Server!OnReadError, Server!Faults
  <2> QED
    BY <1>1, <2>1, EndStep DEF Base
<1> QED
  BY <1>5, <1>6, <1>7, <1>8, <1>9 DEF ServerStep

\* While a client has no session yet, a serial number is free: the sessions have
\* different numbers and belong to different clients, which are no more than the
\* numbers.
LEMMA NumberFree ==
  ASSUME Base, FewClients, Marked, NEW c \in Clients, SessionsOf(c) = {}
  PROVE  Server!AllocateSerialNumber(server) # 0
<1> SUFFICES ASSUME Server!AllocateSerialNumber(server) = 0 PROVE FALSE
  OBVIOUS
<1>1. Server!FreeSerials(server) = {}
  <2>1. PICK free : free = Server!FreeSerials(server)
    OBVIOUS
  <2>2. free \in SUBSET Nat /\ 0 \notin free
    BY <2>1 DEF Server!FreeSerials
  <2>3. free # {} => Srv!Min(free) \in free
    BY <2>2, Assumed, Srv!MinIsLeast
  <2> QED
    BY <2>1, <2>2, <2>3, SameMaps DEF Server!AllocateSerialNumber
<1>2. \A n \in 1..SERIAL_NUM_MAX : \E s \in DOMAIN server.pending : s.serial = n
  BY <1>1 DEF Server!FreeSerials, Marked
<1>3. DOMAIN server.pending \subseteq Server!Session
  BY HoldsMean, FieldsOf DEF Base, ServerInv, InvOf
<1>4. PICK others : others = Clients \ {c}
  OBVIOUS
<1>5. \A s \in DOMAIN server.pending : s.tail \in others
  BY <1>3, <1>4 DEF Server!Session, SessionsOf
<1>6. PICK owner : owner = [n \in 1..SERIAL_NUM_MAX |->
                             (CHOOSE s \in DOMAIN server.pending : s.serial = n).tail]
  OBVIOUS
<1>7. \A n \in 1..SERIAL_NUM_MAX : \E s \in DOMAIN server.pending :
        s.serial = n /\ owner[n] = s.tail
  BY <1>2, <1>6
<1>8. owner \in [1..SERIAL_NUM_MAX -> others]
  BY <1>5, <1>6, <1>7
<1>9. \A m, n \in 1..SERIAL_NUM_MAX : owner[m] = owner[n] => m = n
  BY <1>7 DEF OneSession, Base, ServerInv, InvOf
<1>10. IsFiniteSet(others) /\ Cardinality(others) < Cardinality(1..SERIAL_NUM_MAX)
       /\ IsFiniteSet(1..SERIAL_NUM_MAX)
  <2>1. IsFiniteSet(others) /\ Cardinality(others) = Cardinality(Clients) - 1
    BY <1>4, FS_RemoveElement DEF FewClients
  <2>2. IsFiniteSet(1..SERIAL_NUM_MAX) /\ Cardinality(1..SERIAL_NUM_MAX) = SERIAL_NUM_MAX
    BY ServerAssumption, FS_Interval
  <2>3. Cardinality(Clients) \in Nat
    BY FS_CardinalityType DEF FewClients
  <2> QED
    BY <2>1, <2>2, <2>3, ServerAssumption DEF FewClients
<1>11. \E m, n \in 1..SERIAL_NUM_MAX : m # n /\ owner[m] = owner[n]
  <2>1. PICK numbers : numbers = 1..SERIAL_NUM_MAX
    OBVIOUS
  <2>2. /\ IsFiniteSet(numbers) /\ IsFiniteSet(others)
        /\ Cardinality(others) < Cardinality(numbers) /\ owner \in [numbers -> others]
    BY <1>8, <1>10, <2>1
  <2>3. \E m, n \in numbers : m # n /\ owner[m] = owner[n]
    BY <2>2, FS_PigeonHole
  <2> QED
    BY <2>1, <2>3
<1> QED
  BY <1>9, <1>11

\* What was accepted is remembered, so the numbers run out for good.
LEMMA NumberedBefore ==
  ASSUME Base, [Next]_vars, Numbered'
  PROVE  Numbered
<1>1. CASE NoNew(server', server)
  BY <1>1 DEF NoNew, Numbered
<1>2. CASE ~NoNew(server', server)
  <2>1. PICK c \in Clients : Accept(c)
    BY <1>2, OnlyAcceptCreates
  <2>2. Opens(server', server, c)
    BY <2>1, AcceptStep DEF Base, Accept
  <2> QED
    BY <2>2 DEF Opens, Numbered
<1> QED
  BY <1>1, <1>2

\* The number of a session is never the empty one.
LEMMA NumberedKept ==
  ASSUME Base, FewClients, Marked, Numbered, [Next]_vars
  PROVE  Marked' /\ Numbered'
<1>1. CASE NoNew(server', server)
  BY <1>1 DEF NoNew, Marked, Numbered
<1>2. CASE ~NoNew(server', server)
  <2>1. PICK c \in Clients : Accept(c)
    BY <1>2, OnlyAcceptCreates
  <2>2. Opens(server', server, c) /\ SessionsOf(c) = {}
    BY <2>1, AcceptStep DEF Base, Accept
  <2>3. PICK s \in Server!Session :
             /\ s.serial = Server!AllocateSerialNumber(server)
             /\ DOMAIN server'.pending = DOMAIN server.pending \cup {s}
             /\ \A n \in 1..SERIAL_NUM_MAX : server'.serials[n] => server.serials[n] \/ n = s.serial
    BY <2>2 DEF Opens
  <2>4. s.serial # 0
    BY <2>2, <2>3, NumberFree
  <2> QED
    BY <2>3, <2>4 DEF Marked, Numbered
<1> QED
  BY <1>1, <1>2

\* At first there is no session.
LEMMA NumberedInit == Init => Marked /\ Numbered
BY DEF Init, Server!Init, Marked, Numbered

-----------------------------------------------------------------------------
(* One request at a time *)

Places(q, type) == {k \in DOMAIN q : q[k].type = type}
RepliesIn(out, c) == {k \in DOMAIN out : /\ out[k].to.tail = c
                                         /\ out[k].msg.type = "ReplyConnection"}
Single(S) == \A j, k \in S : j = k

\* Of the requests not read (R), the replies not written (W) and the replies not
\* seen (D) of a client there is at most one, and none if the button is enabled.
OneOf(R, W, D, button) ==
  /\ Single(R) /\ Single(W) /\ Single(D)
  /\ R # {} => W = {} /\ D = {}
  /\ W # {} => D = {}
  /\ button => R = {} /\ W = {} /\ D = {}

OneRequest == \A c \in Clients : OneOf(Places(up[c], "RequestConnection"),
                                       RepliesIn(server.out, c),
                                       Places(down[c], "ReplyConnection"),
                                       client[c].button)

\* There are no more of them than before.
Fewer(new, old) == /\ old = {} => new = {}
                   /\ Single(old) => Single(new)

\* Fewer requests and replies, and a button that is not enabled, keep it at one.
LEMMA FewerKeepsOne ==
  ASSUME NEW R, NEW W, NEW D, NEW b, OneOf(R, W, D, b),
         NEW R2, NEW W2, NEW D2, NEW b2, Fewer(R2, R), Fewer(W2, W), Fewer(D2, D), b2 => b
  PROVE  OneOf(R2, W2, D2, b2)
BY DEF OneOf, Fewer

\* A set, and the empty set, has no more than the set.
LEMMA FewerSame ==
  ASSUME NEW S
  PROVE  Fewer(S, S) /\ Fewer({}, S)
BY DEF Fewer, Single

\* What the changes of a stream do to the places of a kind of message.
LEMMA PlacesOfTail ==
  ASSUME NEW S, NEW q \in Seq(S), q # << >>, NEW new, new = Tail(q), NEW type
  PROVE  /\ Fewer(Places(new, type), Places(q, type))
         /\ Head(q).type = type => /\ Places(q, type) # {}
                                   /\ Single(Places(q, type)) => Places(new, type) = {}
<1>1. /\ 1 \in DOMAIN q /\ Head(q) = q[1]
      /\ DOMAIN new = 1..Len(q) - 1 /\ Len(q) \in Nat
      /\ \A k \in DOMAIN new : k + 1 \in DOMAIN q /\ new[k] = q[k + 1]
  BY TailElements
<1>2. \A k \in Places(new, type) : k \in Nat /\ k # 0 /\ k + 1 \in Places(q, type)
  BY <1>1 DEF Places
<1>3. \A j, k \in Places(new, type) : j + 1 = k + 1 => j = k
  BY <1>2
<1>4. Single(Places(q, type)) => Single(Places(new, type))
  BY <1>2, <1>3 DEF Single
<1>5. Head(q).type = type => 1 \in Places(q, type)
  BY <1>1 DEF Places
<1>6. \A k \in Places(new, type) : k + 1 # 1
  BY <1>2
<1> QED
  BY <1>2, <1>4, <1>5, <1>6 DEF Fewer, Single

\* What comes last adds one place, of its own type only.
LEMMA PlacesOfAppend ==
  ASSUME NEW S, NEW q \in Seq(S), NEW e \in S, NEW new, new = Append(q, e), NEW type
  PROVE  /\ e.type # type => Fewer(Places(new, type), Places(q, type))
         /\ Places(q, type) = {} => Single(Places(new, type))
<1>1. \A k \in DOMAIN new : \/ k \in DOMAIN q /\ new[k] = q[k]
                            \/ k = Len(q) + 1 /\ new[k] = e
  BY AppendElements
<1>2. \A k \in Places(new, type) : k \in Places(q, type) \/ (k = Len(q) + 1 /\ e.type = type)
  BY <1>1 DEF Places
<1> QED
  BY <1>2 DEF Fewer, Single

\* A prefix has no more places.
LEMMA PlacesOfPrefix ==
  ASSUME NEW S, NEW q \in Seq(S), NEW n \in 0..Len(q), NEW new, new = SubSeq(q, 1, n), NEW type
  PROVE  Fewer(Places(new, type), Places(q, type))
<1>1. new \in Seq(S) /\ Len(new) = n /\ \A k \in 1..n : new[k] = q[k]
  OBVIOUS
<1>2. DOMAIN new = 1..n /\ \A k \in 1..n : k \in DOMAIN q
  BY <1>1
<1>3. \A k \in Places(new, type) : k \in Places(q, type)
  BY <1>1, <1>2 DEF Places
<1> QED
  BY <1>3 DEF Fewer, Single

\* An empty stream has none.
LEMMA PlacesOfNone ==
  ASSUME NEW type, NEW c
  PROVE  Places(<< >>, type) = {} /\ RepliesIn(<< >>, c) = {}
BY DEF Places, RepliesIn

\* A handler of the server that writes no reply and takes no request.
LEMMA NoReplyKeepsOne ==
  ASSUME Base, OneRequest, client' = client, down' = down,
         \A d \in Clients : /\ Fewer(Places(up'[d], "RequestConnection"),
                                     Places(up[d], "RequestConnection"))
                            /\ Fewer(RepliesIn(server'.out, d), RepliesIn(server.out, d))
  PROVE  OneRequest'
<1> SUFFICES ASSUME NEW d \in Clients
             PROVE  OneOf(Places(up'[d], "RequestConnection"), RepliesIn(server'.out, d),
                          Places(down'[d], "ReplyConnection"), client'[d].button)
  BY DEF OneRequest
<1>1. OneOf(Places(up[d], "RequestConnection"), RepliesIn(server.out, d),
            Places(down[d], "ReplyConnection"), client[d].button)
  BY DEF OneRequest
<1>2. Fewer(Places(down'[d], "ReplyConnection"), Places(down[d], "ReplyConnection"))
  BY FewerSame
<1> QED
  BY <1>1, <1>2, FewerKeepsOne

\* The server hands the messages it wrote to nobody: nothing was a reply.
LEMMA NoReplyOut ==
  ASSUME NEW out, NEW c,
         \/ out = << >>
         \/ \E to, msg : out = << [to |-> to, msg |-> msg] >> /\ msg.type # "ReplyConnection"
  PROVE  RepliesIn(out, c) = {}
BY DEF RepliesIn

\* Whose reply it is that is to be written.
LEMMA OneReplyOut ==
  ASSUME NEW out, NEW s, NEW msg, out = << [to |-> s, msg |-> msg] >>, NEW c
  PROVE  Single(RepliesIn(out, c)) /\ (c # s.tail => RepliesIn(out, c) = {})
BY DEF RepliesIn, Single

\* The same with a message to the target before the reply.
LEMMA PairRepliesOut ==
  ASSUME NEW out, NEW s, NEW t, NEW msg, NEW told, told.type # "ReplyConnection",
         out = << [to |-> t, msg |-> told], [to |-> s, msg |-> msg] >>, NEW c
  PROVE  Single(RepliesIn(out, c)) /\ (c # s.tail => RepliesIn(out, c) = {})
<1>1. DOMAIN out = {1, 2} /\ out[1] = [to |-> t, msg |-> told] /\ out[2] = [to |-> s, msg |-> msg]
  OBVIOUS
<1>2. \A k \in RepliesIn(out, c) : k = 2 /\ c = s.tail
  BY <1>1 DEF RepliesIn
<1> QED
  BY <1>2 DEF Single

\* A message of client c is read.
LEMMA BodyKeepsOne ==
  ASSUME Base, OneRequest, NEW c \in Clients, ReadBody(c)
  PROVE  OneRequest'
<1>1. PICK s \in SessionsOf(c) :
           /\ Idle /\ Server!Running(s, "body") /\ up[c] # << >>
           /\ server' = Server!OnBodyReadDone(Server!Completed(s), s, Head(up[c]), "ok", "ok")
           /\ down' = down /\ up' = [up EXCEPT ![c] = Tail(@)] /\ client' = client
  BY DEF ReadBody, Handle
<1>2. PICK msg : msg = Head(up[c])
  OBVIOUS
<1>3. up[c] \in Seq(Server!ClientMsgs) /\ msg \in Server!ClientMsgs /\ up'[c] = Tail(up[c])
  BY <1>1, <1>2 DEF Base, Typed
<1>4. \/ Ignored(server', server)
      \/ Refused(server', server, s, msg)
      \/ \E t \in DOMAIN server.pending : Matched(server', server, s, msg, t)
      \/ \E t \in DOMAIN server.pending : Forwarded(server', server, s, msg, t)
  BY <1>1, <1>2, <1>3, BodyStep DEF Base
<1>5. PICK R, R2 : /\ R = Places(up[c], "RequestConnection")
                   /\ R2 = Places(up'[c], "RequestConnection")
  OBVIOUS
<1>6. /\ Fewer(R2, R)
      /\ msg.type = "RequestConnection" => R # {} /\ (Single(R) => R2 = {})
  <2>1. PICK q, new : q = up[c] /\ new = up'[c]
    OBVIOUS
  <2>2. q \in Seq(Server!ClientMsgs) /\ q # << >> /\ new = Tail(q) /\ msg = Head(q)
    BY <1>1, <1>2, <1>3, <2>1
  <2>3. /\ Fewer(Places(new, "RequestConnection"), Places(q, "RequestConnection"))
        /\ msg.type = "RequestConnection" =>
             /\ Places(q, "RequestConnection") # {}
             /\ Single(Places(q, "RequestConnection")) => Places(new, "RequestConnection") = {}
    BY <2>2, PlacesOfTail
  <2> QED
    BY <1>5, <2>1, <2>3
<1>7. \A d \in Clients : Fewer(Places(up'[d], "RequestConnection"),
                               Places(up[d], "RequestConnection"))
  BY <1>1, <1>5, <1>6, FewerSame DEF Base, Typed
<1>8. CASE \A d \in Clients : RepliesIn(server'.out, d) = {}
  BY <1>1, <1>7, <1>8, FewerSame, NoReplyKeepsOne
<1>9. CASE /\ msg.type = "RequestConnection"
           /\ \A d \in Clients : /\ Single(RepliesIn(server'.out, d))
                                 /\ d # c => RepliesIn(server'.out, d) = {}
  <2> SUFFICES ASSUME NEW d \in Clients
               PROVE  OneOf(Places(up'[d], "RequestConnection"), RepliesIn(server'.out, d),
                            Places(down'[d], "ReplyConnection"), client'[d].button)
    BY DEF OneRequest
  <2>1. OneOf(Places(up[d], "RequestConnection"), RepliesIn(server.out, d),
              Places(down[d], "ReplyConnection"), client[d].button)
    BY DEF OneRequest
  <2>2. CASE d = c
    <3>1. Places(up'[d], "RequestConnection") = {} /\ Places(up[d], "RequestConnection") # {}
      BY <1>5, <1>6, <1>9, <2>1, <2>2 DEF OneOf
    <3>2. Single({})
      BY DEF Single
    <3> QED
      BY <1>1, <1>9, <2>1, <3>1, <3>2 DEF OneOf
  <2>3. CASE d # c
    <3>1. Fewer(RepliesIn(server'.out, d), RepliesIn(server.out, d))
      BY <1>9, <2>3, FewerSame
    <3>2. Fewer(Places(down'[d], "ReplyConnection"), Places(down[d], "ReplyConnection"))
      BY <1>1, FewerSame
    <3> QED
      BY <1>1, <1>7, <2>1, <3>1, <3>2, FewerKeepsOne
  <2> QED
    BY <2>2, <2>3
<1>10. CASE Ignored(server', server)
  <2>1. \A d \in Clients : RepliesIn(server'.out, d) = {}
    BY <1>10, NoReplyOut DEF Ignored
  <2> QED
    BY <1>8, <2>1
<1>11. s.tail = c
  BY DEF SessionsOf
<1>12. CASE Refused(server', server, s, msg)
  <2>1. PICK reply : reply = Server!Reply(FALSE)
    OBVIOUS
  <2>2. server'.out = << [to |-> s, msg |-> reply] >> /\ msg.type = "RequestConnection"
    BY <1>12, <2>1 DEF Refused
  <2> QED
    BY <1>9, <1>11, <2>2, OneReplyOut
<1>13. CASE \E t \in DOMAIN server.pending : Matched(server', server, s, msg, t)
  <2>1. PICK t \in DOMAIN server.pending : Matched(server', server, s, msg, t)
    BY <1>13
  <2>2. PICK m, n : m = [type |-> "RemoteRequestConnection"] /\ n = Server!Reply(TRUE)
    OBVIOUS
  <2>3. server'.out = << [to |-> t, msg |-> m], [to |-> s, msg |-> n] >>
        /\ msg.type = "RequestConnection"
    BY <2>1, <2>2 DEF Matched
  <2>4. m.type # "ReplyConnection"
    BY <2>2
  <2> QED
    BY <1>9, <1>11, <2>3, <2>4, PairRepliesOut
<1>14. CASE \E t \in DOMAIN server.pending : Forwarded(server', server, s, msg, t)
  <2>1. PICK t \in DOMAIN server.pending : Forwarded(server', server, s, msg, t)
    BY <1>14
  <2>2. msg.type # "ReplyConnection" /\ server'.out = << [to |-> t, msg |-> msg] >>
    BY <2>1 DEF Forwarded, Server!Exchanges
  <2>3. \A d \in Clients : RepliesIn(server'.out, d) = {}
    BY <2>2, NoReplyOut
  <2> QED
    BY <1>8, <2>3
<1> QED
  BY <1>4, <1>10, <1>12, <1>13, <1>14

\* The other handlers write no reply.
LEMMA ServerKeepsOne ==
  ASSUME Base, OneRequest, NEW c \in Clients, ServerStep(c)
  PROVE  OneRequest'
<1>1. ASSUME down' = down, up' = up,
             \A d \in Clients : client'[d].button = client[d].button,
             \A d \in Clients : RepliesIn(server'.out, d) = {}
      PROVE  OneRequest'
  <2> SUFFICES ASSUME NEW d \in Clients
               PROVE  OneOf(Places(up'[d], "RequestConnection"), RepliesIn(server'.out, d),
                            Places(down'[d], "ReplyConnection"), client'[d].button)
    BY DEF OneRequest
  <2>1. OneOf(Places(up[d], "RequestConnection"), RepliesIn(server.out, d),
              Places(down[d], "ReplyConnection"), client[d].button)
    BY DEF OneRequest
  <2>2. PICK R, D, W : /\ R = Places(up[d], "RequestConnection")
                       /\ D = Places(down[d], "ReplyConnection")
                       /\ W = RepliesIn(server.out, d)
    OBVIOUS
  <2>3. OneOf(R, {}, D, client'[d].button)
    <3>1. OneOf(R, W, D, client[d].button) /\ client'[d].button = client[d].button
      BY <1>1, <2>1, <2>2
    <3> QED
      BY <3>1 DEF OneOf, Single
  <2> QED
    BY <1>1, <2>2, <2>3
<1>2. CASE Accept(c)
  <2>1. server'.out = << >> /\ client' = client /\ down' = down /\ up' = up
    BY <1>2, AcceptStep DEF Opens, Base, Accept, Handle
  <2> QED
    BY <1>1, <2>1, NoReplyOut
<1>3. CASE Handshake(c)
  <2>1. PICK s \in SessionsOf(c) :
             /\ Idle /\ Server!Running(s, "handshake")
             /\ client' = [client EXCEPT ![c].socket = "connected"]
             /\ server' = Server!OnHandshakeDone(Server!Completed(s), s, "ok")
             /\ down' = down /\ up' = up
    BY <1>3 DEF Handshake, Handle
  <2>2. PICK msg : msg = [type |-> "UpdateSessionId", id |-> Server!GetId(s)]
    OBVIOUS
  <2>3. server'.out = << [to |-> s, msg |-> msg] >> /\ msg.type # "ReplyConnection"
    BY <2>1, <2>2, HandshakeStep DEF Base
  <2>4. \A d \in Clients : client'[d].button = client[d].button
    BY <2>1 DEF Base, Typed, ClientRecord
  <2>5. \A d \in Clients : RepliesIn(server'.out, d) = {}
    BY <2>3, NoReplyOut
  <2> QED
    BY <1>1, <2>1, <2>4, <2>5
<1>4. CASE ReadHeader(c)
  <2>1. server'.out = << >> /\ client' = client /\ down' = down /\ up' = up
    BY <1>4, HeaderStep DEF Base, ReadHeader, Handle
  <2> QED
    BY <1>1, <2>1, NoReplyOut
<1>5. CASE ReadEnd(c)
  <2>1. PICK s \in SessionsOf(c), fault \in Server!Faults :
             /\ server' = IF fault = "closing"
                          THEN Server!OnSessionClose(Server!Completed(s), s)
                          ELSE Server!Completed(s)
             /\ down' = down /\ up' = up /\ client' = client
    BY <1>5 DEF ReadEnd, Handle, Server!OnHandshakeError, Server!OnReadError, Server!Faults
  <2>2. server'.out = << >>
    BY <2>1, EndStep DEF Base
  <2> QED
    BY <1>1, <2>1, <2>2, NoReplyOut
<1> QED
  BY <1>2, <1>3, <1>4, <1>5, BodyKeepsOne DEF ServerStep

\* A write that returns takes a reply from those to be written to those to be seen.
LEMMA RepliesOfTail ==
  ASSUME ServerInv, server.out # << >>, NEW new, new = Tail(server.out), NEW c
  PROVE  /\ Fewer(RepliesIn(new, c), RepliesIn(server.out, c))
         /\ Head(server.out).to.tail = c /\ Head(server.out).msg.type = "ReplyConnection" =>
              /\ RepliesIn(server.out, c) # {}
              /\ Single(RepliesIn(server.out, c)) => RepliesIn(new, c) = {}
<1>1. PICK q, S : q = server.out /\ S = [to : Server!Session, msg : Server!ServerMsgs]
  OBVIOUS
<1>2. q \in Seq(S) /\ q # << >> /\ new = Tail(q)
  BY <1>1, NextOut
<1>3. /\ 1 \in DOMAIN q /\ Head(q) = q[1]
      /\ DOMAIN new = 1..Len(q) - 1 /\ Len(q) \in Nat
      /\ \A k \in DOMAIN new : k + 1 \in DOMAIN q /\ new[k] = q[k + 1]
  BY <1>2, TailElements
<1>4. \A k \in RepliesIn(new, c) : k \in Nat /\ k # 0 /\ k + 1 \in RepliesIn(q, c)
  BY <1>3 DEF RepliesIn
<1>5. \A j, k \in RepliesIn(new, c) : j + 1 = k + 1 => j = k
  BY <1>4
<1>6. Single(RepliesIn(q, c)) => Single(RepliesIn(new, c))
  BY <1>4, <1>5 DEF Single
<1>7. Head(q).to.tail = c /\ Head(q).msg.type = "ReplyConnection" => 1 \in RepliesIn(q, c)
  BY <1>3 DEF RepliesIn
<1>8. \A k \in RepliesIn(new, c) : k + 1 # 1
  BY <1>4
<1> QED
  BY <1>1, <1>4, <1>6, <1>7, <1>8 DEF Fewer, Single

\* A write moves a reply to the stream of its client, or drops it.
LEMMA WriteKeepsOne ==
  ASSUME Base, OneRequest, WriteReturns
  PROVE  OneRequest'
<1>1. /\ server.out # << >> /\ server'.out = Tail(server.out) /\ ServerInv
      /\ client' = client /\ up' = up
  BY WriteStep DEF Base, WriteReturns
<1>2. \A d \in Clients : Fewer(RepliesIn(server'.out, d), RepliesIn(server.out, d))
  BY <1>1, RepliesOfTail
<1>3. \A d \in Clients : Fewer(Places(up'[d], "RequestConnection"),
                               Places(up[d], "RequestConnection"))
  BY <1>1, FewerSame
<1>4. CASE ~WriteTaken
  <2>1. down' = down
    BY <1>4 DEF WriteReturns, Handle
  <2> QED
    BY <1>1, <1>2, <1>3, <2>1, NoReplyKeepsOne
<1>5. CASE WriteTaken
  <2>1. PICK c, msg : c = Head(server.out).to.tail /\ msg = Head(server.out).msg
    OBVIOUS
  <2>2. c \in Clients /\ msg \in Server!ServerMsgs /\ down[c] \in Seq(Server!ServerMsgs)
    BY <1>1, <2>1, NextOut DEF Base, Typed
  <2>3. down' = [down EXCEPT ![c] = Append(@, msg)]
    BY <1>5, <2>1 DEF WriteTaken
  <2>4. down'[c] = Append(down[c], msg) /\ \A d \in Clients : d # c => down'[d] = down[d]
    BY <2>2, <2>3 DEF Base, Typed
  <2> SUFFICES ASSUME NEW d \in Clients
               PROVE  OneOf(Places(up'[d], "RequestConnection"), RepliesIn(server'.out, d),
                            Places(down'[d], "ReplyConnection"), client'[d].button)
    BY DEF OneRequest
  <2>5. OneOf(Places(up[d], "RequestConnection"), RepliesIn(server.out, d),
              Places(down[d], "ReplyConnection"), client[d].button)
    BY DEF OneRequest
  <2>6. PICK q, new : q = down[c] /\ new = down'[c]
    OBVIOUS
  <2>7. /\ msg.type # "ReplyConnection" =>
             Fewer(Places(new, "ReplyConnection"), Places(q, "ReplyConnection"))
        /\ Places(q, "ReplyConnection") = {} => Single(Places(new, "ReplyConnection"))
    <3>1. q \in Seq(Server!ServerMsgs) /\ new = Append(q, msg)
      BY <2>2, <2>4, <2>6
    <3> QED
      BY <2>2, <3>1, PlacesOfAppend
  <2>8. CASE d = c /\ msg.type = "ReplyConnection"
    <3>1. PICK W, W2, R : /\ W = RepliesIn(server.out, d) /\ W2 = RepliesIn(server'.out, d)
                          /\ R = Places(up[d], "RequestConnection")
      OBVIOUS
    <3>2. W # {} /\ (Single(W) => W2 = {})
      BY <1>1, <2>1, <2>8, <3>1, RepliesOfTail
    <3>3. OneOf(R, W, Places(q, "ReplyConnection"), client[d].button)
      BY <2>5, <2>6, <2>8, <3>1
    <3>4. W2 = {} /\ R = {} /\ ~client[d].button /\ Places(q, "ReplyConnection") = {}
      BY <3>2, <3>3 DEF OneOf
    <3>5. OneOf(R, W2, Places(new, "ReplyConnection"), client[d].button)
      BY <2>7, <3>3, <3>4 DEF OneOf
    <3> QED
      BY <1>1, <2>6, <2>8, <3>1, <3>5
  <2>9. CASE ~(d = c /\ msg.type = "ReplyConnection")
    <3>1. Fewer(Places(down'[d], "ReplyConnection"), Places(down[d], "ReplyConnection"))
      <4>1. CASE d = c
        BY <2>6, <2>7, <2>9, <4>1
      <4>2. CASE d # c
        BY <2>4, <4>2, FewerSame
      <4> QED
        BY <4>1, <4>2
    <3> QED
      BY <1>1, <1>2, <1>3, <2>5, <3>1, FewerKeepsOne
  <2> QED
    BY <2>8, <2>9
<1> QED
  BY <1>4, <1>5

\* A client changes its own streams and button only.
LEMMA ClientKeepsOne ==
  ASSUME Base, OneRequest, NEW c \in Clients, server' = server,
         \A d \in Clients : d # c => /\ up'[d] = up[d] /\ down'[d] = down[d]
                                     /\ client'[d].button = client[d].button,
         OneOf(Places(up'[c], "RequestConnection"), RepliesIn(server.out, c),
               Places(down'[c], "ReplyConnection"), client'[c].button)
  PROVE  OneRequest'
<1> SUFFICES ASSUME NEW d \in Clients
             PROVE  OneOf(Places(up'[d], "RequestConnection"), RepliesIn(server'.out, d),
                          Places(down'[d], "ReplyConnection"), client'[d].button)
  BY DEF OneRequest
<1>1. CASE d = c
  BY <1>1
<1>2. CASE d # c
  <2>1. OneOf(Places(up[d], "RequestConnection"), RepliesIn(server.out, d),
              Places(down[d], "ReplyConnection"), client[d].button)
    BY DEF OneRequest
  <2>2. /\ up'[d] = up[d] /\ down'[d] = down[d] /\ server'.out = server.out
        /\ client'[d].button = client[d].button
    BY <1>2
  <2> QED
    BY <2>1, <2>2
<1> QED
  BY <1>1, <1>2

\* What a client does without a new request leaves fewer of them.
LEMMA QuietKeepsOne ==
  ASSUME Base, OneRequest, NEW c \in Clients, server' = server,
         \A d \in Clients : d # c => /\ up'[d] = up[d] /\ down'[d] = down[d]
                                     /\ client'[d].button = client[d].button,
         Fewer(Places(up'[c], "RequestConnection"), Places(up[c], "RequestConnection")),
         Fewer(Places(down'[c], "ReplyConnection"), Places(down[c], "ReplyConnection")),
         client'[c].button => client[c].button
  PROVE  OneRequest'
<1>1. OneOf(Places(up[c], "RequestConnection"), RepliesIn(server.out, c),
            Places(down[c], "ReplyConnection"), client[c].button)
  BY DEF OneRequest
<1>2. Fewer(RepliesIn(server.out, c), RepliesIn(server.out, c))
  BY FewerSame
<1>3. OneOf(Places(up'[c], "RequestConnection"), RepliesIn(server.out, c),
            Places(down'[c], "ReplyConnection"), client'[c].button)
  BY <1>1, <1>2, FewerKeepsOne
<1> QED
  BY <1>3, ClientKeepsOne

\* A client that takes a message from its stream has one reply less, or none more.
LEMMA TakenReplies ==
  ASSUME Base, NEW c \in Clients, down[c] # << >>, Consume(c)
  PROVE  /\ Fewer(Places(down'[c], "ReplyConnection"), Places(down[c], "ReplyConnection"))
         /\ Head(down[c]).type = "ReplyConnection" =>
              /\ Places(down[c], "ReplyConnection") # {}
              /\ Single(Places(down[c], "ReplyConnection")) =>
                   Places(down'[c], "ReplyConnection") = {}
         /\ server' = server /\ up' = up
         /\ \A d \in Clients : d # c => down'[d] = down[d]
<1>1. PICK q, new : q = down[c] /\ new = down'[c]
  OBVIOUS
<1>2. q \in Seq(Server!ServerMsgs) /\ new = Tail(q) /\ q # << >>
  BY <1>1 DEF Consume, Base, Typed
<1>3. /\ Fewer(Places(new, "ReplyConnection"), Places(q, "ReplyConnection"))
      /\ Head(q).type = "ReplyConnection" =>
           /\ Places(q, "ReplyConnection") # {}
           /\ Single(Places(q, "ReplyConnection")) => Places(new, "ReplyConnection") = {}
  BY <1>2, PlacesOfTail
<1> QED
  BY <1>1, <1>3 DEF Consume, Base, Typed

\* The end of a process leaves fewer of them.
LEMMA ExitKeepsOne ==
  ASSUME Base, OneRequest, NEW c \in Clients, NEW state, NEW socket,
         Exit(c, state, socket), server' = server
  PROVE  OneRequest'
<1>1. \A d \in Clients : /\ client'[d].button = client[d].button
                         /\ d # c => up'[d] = up[d] /\ down'[d] = down[d]
  BY DEF Exit, Base, Typed, ClientRecord
<1>2. Fewer(Places(up'[c], "RequestConnection"), Places(up[c], "RequestConnection"))
  <2>1. PICK q, new : q = up[c] /\ new = up'[c]
    OBVIOUS
  <2>2. q \in Seq(Server!ClientMsgs) /\ \E n \in 0..Len(q) : new = SubSeq(q, 1, n)
    BY <2>1 DEF Exit, Base, Typed
  <2>3. Fewer(Places(new, "RequestConnection"), Places(q, "RequestConnection"))
    BY <2>2, PlacesOfPrefix
  <2> QED
    BY <2>1, <2>3
<1>3. Fewer(Places(down'[c], "ReplyConnection"), Places(down[c], "ReplyConnection"))
  <2>1. down'[c] = << >>
    BY DEF Exit, Base, Typed
  <2>2. Places(down'[c], "ReplyConnection") = {}
    BY <2>1, PlacesOfNone
  <2> QED
    BY <2>2, FewerSame
<1> QED
  BY <1>1, <1>2, <1>3, QuietKeepsOne

\* A reply that is taken enables the button when none is left.
LEMMA StreamKeepsOne ==
  ASSUME Base, OneRequest, NEW c \in Clients, StreamStep(c)
  PROVE  OneRequest'
<1>1. Fewer(Places(up[c], "RequestConnection"), Places(up[c], "RequestConnection"))
  BY FewerSame
<1>2. ASSUME down[c] # << >>, Consume(c),
             \A d \in Clients : client'[d].button = client[d].button
      PROVE  OneRequest'
  BY <1>1, <1>2, TakenReplies, QuietKeepsOne
<1>3. client \in [Clients -> ClientRecord]
  BY DEF Base, Typed
<1>4. CASE UpdateSessionId(c)
  BY <1>2, <1>3, <1>4 DEF UpdateSessionId, Receives, ClientRecord
<1>5. CASE OnRemoteRequestConnection(c)
  <2>1. CASE client[c].control = "none"
    <3>1. \A d \in Clients : client'[d].button = client[d].button
      BY <1>3, <1>5, <2>1 DEF OnRemoteRequestConnection, ClientRecord
    <3> QED
      BY <1>2, <1>5, <2>1, <3>1 DEF OnRemoteRequestConnection, Receives
  <2>2. CASE client[c].control # "none"
    BY <1>5, <2>2, ExitKeepsOne DEF OnRemoteRequestConnection
  <2> QED
    BY <2>1, <2>2
<1>6. CASE OnReplyConnection(c)
  <2>1. \/ client' = [client EXCEPT ![c].button = TRUE] /\ Consume(c)
        \/ client' = [client EXCEPT ![c].control = "controller"] /\ Consume(c)
        \/ Exit(c, "abortedByReply", "closed") /\ server' = server
    BY <1>6 DEF OnReplyConnection
  <2>2. down[c] # << >> /\ Head(down[c]).type = "ReplyConnection"
    BY <1>6 DEF OnReplyConnection, Receives
  <2>3. CASE client' = [client EXCEPT ![c].button = TRUE] /\ Consume(c)
    <3>1. PICK R, W, D : /\ R = Places(up[c], "RequestConnection")
                         /\ W = RepliesIn(server.out, c)
                         /\ D = Places(down[c], "ReplyConnection")
      OBVIOUS
    <3>2. OneOf(R, W, D, client[c].button)
      BY <3>1 DEF OneRequest
    <3>3. D # {} /\ (Single(D) => Places(down'[c], "ReplyConnection") = {})
      BY <2>2, <2>3, <3>1, TakenReplies
    <3>4. R = {} /\ W = {} /\ Places(down'[c], "ReplyConnection") = {}
      BY <3>2, <3>3 DEF OneOf
    <3>5. OneOf(R, W, Places(down'[c], "ReplyConnection"), client'[c].button)
      BY <3>4 DEF OneOf, Single
    <3>6. \A d \in Clients : d # c => client'[d].button = client[d].button
      BY <1>3, <2>3
    <3>7. /\ up' = up /\ server' = server
          /\ \A d \in Clients : d # c => down'[d] = down[d]
      BY <2>2, <2>3, TakenReplies
    <3> QED
      BY <3>1, <3>5, <3>6, <3>7, ClientKeepsOne
  <2>4. CASE client' = [client EXCEPT ![c].control = "controller"] /\ Consume(c)
    BY <1>2, <1>3, <2>2, <2>4 DEF ClientRecord
  <2>5. CASE Exit(c, "abortedByReply", "closed") /\ server' = server
    BY <2>5, ExitKeepsOne
  <2> QED
    BY <2>1, <2>3, <2>4, <2>5
<1>7. CASE OnRemoteSdpReceived(c)
  <2>1. \A d \in Clients : client'[d].button = client[d].button
    BY <1>3, <1>7 DEF OnRemoteSdpReceived, ClientRecord
  <2> QED
    BY <1>2, <1>7, <2>1 DEF OnRemoteSdpReceived, Receives
<1> QED
  BY <1>4, <1>5, <1>6, <1>7 DEF StreamStep

\* The other events of a client.
LEMMA OwnKeepsOne ==
  ASSUME Base, OneRequest, NEW c \in Clients,
         \/ OnRtcSetLocalSessionSuccess(c)
         \/ OnPeerConnected(c)
         \/ OnPeerDisconnected(c)
         \/ \E id \in KnownIds : ConnectToSession(c, id)
         \/ Hang(c)
         \/ Quit(c)
         \/ OnConnectionError(c)
  PROVE  OneRequest'
<1>1. client \in [Clients -> ClientRecord] /\ up[c] \in Seq(Server!ClientMsgs)
  BY DEF Base, Typed
<1>2. /\ Fewer(Places(up[c], "RequestConnection"), Places(up[c], "RequestConnection"))
      /\ Fewer(Places(down[c], "ReplyConnection"), Places(down[c], "ReplyConnection"))
  BY FewerSame
<1>3. CASE OnRtcSetLocalSessionSuccess(c)
  <2>1. PICK msg : msg = [type |-> "ExchangeSessionDescription",
                          data |-> [sdp_type |-> IF client[c].control = "agent"
                                                 THEN "offer" ELSE "answer",
                                    from |-> c]]
    OBVIOUS
  <2>2. /\ msg \in Server!ClientMsgs /\ msg.type # "RequestConnection"
    BY <2>1 DEF Server!ClientMsgs, Server!Exchanges, Descriptions
  <2>3. /\ up' = [up EXCEPT ![c] = Append(@, msg)] /\ down' = down /\ server' = server
        /\ client' = [client EXCEPT ![c].local = FALSE]
    BY <1>3, <2>1 DEF OnRtcSetLocalSessionSuccess, SendMsg
  <2>4. PICK q, new : q = up[c] /\ new = up'[c]
    OBVIOUS
  <2>5. q \in Seq(Server!ClientMsgs) /\ new = Append(q, msg)
    BY <1>1, <2>3, <2>4 DEF Base, Typed
  <2>6. Fewer(Places(new, "RequestConnection"), Places(q, "RequestConnection"))
    BY <2>2, <2>5, PlacesOfAppend
  <2>7. \A d \in Clients : /\ client'[d].button = client[d].button
                           /\ d # c => up'[d] = up[d]
    BY <1>1, <2>3 DEF Base, Typed, ClientRecord
  <2> QED
    BY <1>2, <2>3, <2>4, <2>6, <2>7, QuietKeepsOne
<1>4. CASE OnPeerConnected(c)
  <2>1. /\ up' = up /\ server' = server /\ down'[c] = << >>
        /\ \A d \in Clients : d # c => down'[d] = down[d]
    BY <1>4 DEF OnPeerConnected, Base, Typed
  <2>2. \A d \in Clients : client'[d].button = client[d].button
    BY <1>1, <1>4 DEF OnPeerConnected, ClientRecord
  <2>3. Places(down'[c], "ReplyConnection") = {}
    BY <2>1, PlacesOfNone
  <2>4. Fewer(Places(down'[c], "ReplyConnection"), Places(down[c], "ReplyConnection"))
    BY <2>3, FewerSame
  <2> QED
    BY <1>2, <2>1, <2>2, <2>4, QuietKeepsOne
<1>5. CASE OnPeerDisconnected(c) \/ Hang(c)
  <2>1. /\ up' = up /\ server' = server /\ down' = down
        /\ \A d \in Clients : client'[d].button = client[d].button
    BY <1>1, <1>5 DEF OnPeerDisconnected, Hang, ClientRecord
  <2> QED
    BY <1>2, <2>1, QuietKeepsOne
<1>6. CASE \E id \in KnownIds : ConnectToSession(c, id)
  <2>1. PICK id \in KnownIds : ConnectToSession(c, id)
    BY <1>6
  <2>2. PICK msg : msg = [type |-> "RequestConnection", id |-> id]
    OBVIOUS
  <2>3. msg \in Server!ClientMsgs
    <3>1. id \in Server!Ids
      BY <1>1 DEF KnownIds, ClientRecord, Server!Ids
    <3> QED
      BY <2>2, <3>1 DEF Server!ClientMsgs, Server!Requests
  <2>4. /\ up' = [up EXCEPT ![c] = Append(@, msg)] /\ down' = down /\ server' = server
        /\ client' = [client EXCEPT ![c].button = FALSE] /\ client[c].button
    BY <2>1, <2>2 DEF ConnectToSession, SendMsg
  <2>5. PICK q, new : q = up[c] /\ new = up'[c]
    OBVIOUS
  <2>6. q \in Seq(Server!ClientMsgs) /\ new = Append(q, msg)
    BY <1>1, <2>4, <2>5 DEF Base, Typed
  <2>7. OneOf(Places(q, "RequestConnection"), RepliesIn(server.out, c),
              Places(down[c], "ReplyConnection"), client[c].button)
    BY <2>5 DEF OneRequest
  <2>8. /\ Places(q, "RequestConnection") = {} /\ RepliesIn(server.out, c) = {}
        /\ Places(down[c], "ReplyConnection") = {}
    BY <2>4, <2>7 DEF OneOf
  <2>9. Single(Places(new, "RequestConnection")) /\ ~client'[c].button
    <3>1. Single(Places(new, "RequestConnection"))
      BY <2>3, <2>6, <2>8, PlacesOfAppend
    <3> QED
      BY <1>1, <2>4, <3>1 DEF ClientRecord
  <2>10. OneOf(Places(new, "RequestConnection"), RepliesIn(server.out, c),
               Places(down[c], "ReplyConnection"), client'[c].button)
    BY <2>8, <2>9 DEF OneOf, Single
  <2>11. \A d \in Clients : d # c => up'[d] = up[d] /\ client'[d].button = client[d].button
    BY <1>1, <2>4 DEF Base, Typed
  <2> QED
    BY <2>4, <2>5, <2>10, <2>11, ClientKeepsOne
<1>7. CASE Quit(c)
  BY <1>7, ExitKeepsOne DEF Quit
<1>8. CASE OnConnectionError(c)
  BY <1>8, ExitKeepsOne DEF OnConnectionError
<1> QED
  BY <1>3, <1>4, <1>5, <1>6, <1>7, <1>8

\* Every step keeps it at one.
LEMMA OneRequestKept == Base /\ OneRequest /\ [Next]_vars => OneRequest'
<1> SUFFICES ASSUME Base, OneRequest, [Next]_vars PROVE OneRequest'
  OBVIOUS
<1>1. CASE WriteReturns
  BY <1>1, WriteKeepsOne
<1>2. ASSUME NEW c \in Clients, ClientStep(c) PROVE OneRequest'
  BY <1>2, ServerKeepsOne, StreamKeepsOne, OwnKeepsOne DEF ClientStep
<1>3. CASE UNCHANGED vars
  BY <1>3 DEF vars, OneRequest
<1> QED
  BY <1>1, <1>2, <1>3 DEF Next

\* At first there is neither request nor reply.
LEMMA OneRequestInit == Init => OneRequest
<1> SUFFICES ASSUME Init PROVE OneRequest
  OBVIOUS
<1>1. \A c \in Clients : up[c] = << >> /\ down[c] = << >> /\ server.out = << >>
  BY DEF Init, Server!Init
<1>2. \A c \in Clients : /\ Places(up[c], "RequestConnection") = {}
                         /\ RepliesIn(server.out, c) = {}
                         /\ Places(down[c], "ReplyConnection") = {}
  BY <1>1, PlacesOfNone
<1> QED
  BY <1>2 DEF OneRequest, OneOf, Single

\* At most one of three sets has an element, and only one.
LEMMA OneOfCounts ==
  ASSUME NEW R, NEW W, NEW D, NEW b, OneOf(R, W, D, b)
  PROVE  /\ Cardinality(R) + Cardinality(D) + Cardinality(W) <= 1
         /\ Cardinality(R) + Cardinality(D) + Cardinality(W) = 1 => ~b
<1>1. ASSUME NEW S, Single(S)
      PROVE  /\ S = {} => Cardinality(S) = 0
             /\ S # {} => Cardinality(S) = 1
  <2>1. S # {} => \E x : S = {x}
    BY <1>1 DEF Single
  <2> QED
    BY <2>1, FS_EmptySet, FS_Singleton
<1>2. /\ R = {} => Cardinality(R) = 0
      /\ R # {} => Cardinality(R) = 1
  BY <1>1 DEF OneOf
<1>3. /\ W = {} => Cardinality(W) = 0
      /\ W # {} => Cardinality(W) = 1
  BY <1>1 DEF OneOf
<1>4. /\ D = {} => Cardinality(D) = 0
      /\ D # {} => Cardinality(D) = 1
  BY <1>1 DEF OneOf
<1> QED
  BY <1>2, <1>3, <1>4 DEF OneOf

\* Counted it is one request at most.
LEMMA OneRequestCounts == OneRequest => OneRequestAtATime
<1> SUFFICES ASSUME OneRequest, NEW c \in Clients
             PROVE  Unanswered(c) <= 1 /\ (Unanswered(c) = 1 => ~client[c].button)
  BY DEF OneRequestAtATime
<1>1. PICK R, W, D : /\ R = Places(up[c], "RequestConnection")
                     /\ W = RepliesIn(server.out, c)
                     /\ D = Places(down[c], "ReplyConnection")
  OBVIOUS
<1>2. OneOf(R, W, D, client[c].button)
  BY <1>1 DEF OneRequest
<1>3. Unanswered(c) = Cardinality(R) + Cardinality(D) + Cardinality(W)
  BY <1>1 DEF Unanswered, Count, RepliesTo, Places, RepliesIn
<1> QED
  BY <1>2, <1>3, OneOfCounts

-----------------------------------------------------------------------------
(* Roles *)

Roles == {"agent", "controller"}

\* The message makes its reader an agent or a controller.
Gives(msg, r) == \/ msg.type = "RemoteRequestConnection" /\ r = "agent"
                 \/ msg.type = "ReplyConnection" /\ msg.success /\ r = "controller"
GivesRole(msg) == \E r \in Roles : Gives(msg, r)
RolesIn(q) == {k \in DOMAIN q : GivesRole(q[k])}

\* The role of a client when it has taken what comes before place n.
AsAt(q, control, n, r) ==
  \/ control = r /\ \A j \in RolesIn(q) : j >= n
  \/ /\ control = "none"
     /\ \E j \in DOMAIN q : j < n /\ Gives(q[j], r) /\ \A i \in RolesIn(q) : i >= n \/ i = j

\* A description that d wrote.
From(msg, d) == msg.type = "ExchangeSessionDescription" /\ msg.data.from = d

\* A client x with q to come has or will take the description of d as an r.
Takes(q, x, d, r) == \E k \in DOMAIN q : From(q[k], d) /\ AsAt(q, x.control, k, r)
Will(q, x, d, r) == (x.peer = d /\ x.control = r) \/ Takes(q, x, d, r)

\* It is an r when it has taken all.
Ends(q, x, r) == AsAt(q, x.control, Len(q) + 1, r)

Messages == Seq(Server!ServerMsgs)

\* A message gives one role.
LEMMA GivesOne ==
  ASSUME NEW msg, NEW r \in Roles, NEW t \in Roles, Gives(msg, r), Gives(msg, t)
  PROVE  r = t
BY DEF Gives, Roles

\* What comes last does not change what the places before it mean.
Appended(new, q, e) ==
  /\ new \in Messages /\ Len(new) = Len(q) + 1 /\ Len(q) \in Nat
  /\ DOMAIN q = 1..Len(q) /\ DOMAIN new = 1..Len(q) + 1
  /\ \A k \in DOMAIN q : new[k] = q[k] /\ k < Len(q) + 1
  /\ new[Len(q) + 1] = e
  /\ \A k \in RolesIn(q) : k \in DOMAIN q /\ k \in RolesIn(new)
  /\ \A k \in RolesIn(new) : k \in RolesIn(q) \/ (k = Len(q) + 1 /\ GivesRole(e))
  /\ GivesRole(e) => Len(q) + 1 \in RolesIn(new)

\* Appending does what Appended says.
LEMMA AppendRoles ==
  ASSUME NEW q \in Messages, NEW e \in Server!ServerMsgs, NEW new, new = Append(q, e)
  PROVE  Appended(new, q, e)
<1>1. /\ new \in Messages /\ Len(new) = Len(q) + 1 /\ Len(q) \in Nat
      /\ DOMAIN q = 1..Len(q) /\ DOMAIN new = 1..Len(q) + 1
      /\ \A k \in DOMAIN q : new[k] = q[k] /\ k < Len(q) + 1
      /\ new[Len(q) + 1] = e
  BY DEF Messages
<1>2. Len(q) + 1 \notin DOMAIN q /\ \A k \in DOMAIN new : k \in DOMAIN q \/ k = Len(q) + 1
  BY <1>1
<1>3. \A k \in RolesIn(q) : k \in DOMAIN q /\ k \in DOMAIN new /\ GivesRole(new[k])
  BY <1>1, <1>2 DEF RolesIn
<1>4. \A k \in RolesIn(new) : k \in RolesIn(q) \/ (k = Len(q) + 1 /\ GivesRole(e))
  BY <1>1, <1>2 DEF RolesIn
<1>5. GivesRole(e) => Len(q) + 1 \in RolesIn(new)
  BY <1>1 DEF RolesIn
<1>6. \A k \in RolesIn(q) : k \in RolesIn(new)
  BY <1>3 DEF RolesIn
<1> QED
  BY <1>1, <1>3, <1>4, <1>5, <1>6 DEF Appended

\* Who is an r at some place was so before the stream grew.
LEMMA AsAtAppend ==
  ASSUME NEW q \in Messages, NEW e \in Server!ServerMsgs, NEW new, new = Append(q, e),
         NEW control, NEW n \in 1..Len(q) + 1, NEW r
  PROVE  AsAt(new, control, n, r) => AsAt(q, control, n, r)
<1> Appended(new, q, e)
  BY AppendRoles
<1>1. /\ DOMAIN q = 1..Len(q)
      /\ \A k \in DOMAIN q : new[k] = q[k]
      /\ \A k \in RolesIn(q) : k \in RolesIn(new)
  BY DEF Appended
<1>2. \A j \in DOMAIN new : j < n => j \in DOMAIN q
  BY DEF Appended
<1> QED
  BY <1>1, <1>2 DEF AsAt

\* Who ends as an r was to end so before, or gets the role by the new message.
LEMMA EndsAppend ==
  ASSUME NEW q \in Messages, NEW e \in Server!ServerMsgs, NEW new, new = Append(q, e),
         NEW x, NEW r \in Roles, Ends(new, x, r)
  PROVE  /\ ~GivesRole(e) => Ends(q, x, r)
         /\ GivesRole(e) => x.control = "none" /\ RolesIn(q) = {} /\ Gives(e, r)
<1> Appended(new, q, e)
  BY AppendRoles
<1>1. /\ Len(q) \in Nat /\ DOMAIN q = 1..Len(q) /\ DOMAIN new = 1..Len(q) + 1
      /\ \A k \in DOMAIN q : new[k] = q[k] /\ k < Len(q) + 1
      /\ new[Len(q) + 1] = e /\ Len(new) = Len(q) + 1
      /\ \A k \in RolesIn(q) : k \in RolesIn(new)
      /\ GivesRole(e) => Len(q) + 1 \in RolesIn(new)
  BY DEF Appended
<1>2. \A k \in RolesIn(q) : k \in DOMAIN q
  BY DEF RolesIn
<1>3. CASE ~GivesRole(e)
  <2>1. CASE x.control = r /\ \A j \in RolesIn(new) : j >= Len(q) + 2
    <3>1. \A j \in RolesIn(q) : FALSE
      BY <1>1, <1>2, <2>1
    <3> QED
      BY <1>3, <2>1, <3>1 DEF Ends, AsAt
  <2>2. CASE /\ x.control = "none"
             /\ \E j \in DOMAIN new : /\ j < Len(q) + 2 /\ Gives(new[j], r)
                                      /\ \A i \in RolesIn(new) : i >= Len(q) + 2 \/ i = j
    <3>1. PICK j \in DOMAIN new : /\ j < Len(q) + 2 /\ Gives(new[j], r)
                                  /\ \A i \in RolesIn(new) : i >= Len(q) + 2 \/ i = j
      BY <2>2
    <3>2. j # Len(q) + 1
      BY <1>1, <1>3, <3>1 DEF GivesRole
    <3>3. j \in DOMAIN q /\ j < Len(q) + 1 /\ Gives(q[j], r)
      BY <1>1, <3>1, <3>2
    <3>4. \A i \in RolesIn(q) : i >= Len(q) + 1 \/ i = j
      BY <1>1, <1>2, <3>1
    <3> QED
      BY <1>3, <2>2, <3>3, <3>4 DEF Ends, AsAt
  <2>3. Len(new) + 1 = Len(q) + 2
    BY <1>1
  <2> QED
    BY <2>1, <2>2, <2>3 DEF Ends, AsAt
<1>4. CASE GivesRole(e)
  <2>1. Len(q) + 1 \in RolesIn(new) /\ ~(Len(q) + 1 >= Len(new) + 1)
    BY <1>1, <1>4
  <2>2. x.control = "none"
    BY <2>1 DEF Ends, AsAt
  <2>3. x.control # r
    BY <2>2 DEF Roles
  <2>4. PICK j \in DOMAIN new : /\ j < Len(new) + 1 /\ Gives(new[j], r)
                                /\ \A i \in RolesIn(new) : i >= Len(new) + 1 \/ i = j
    BY <2>3 DEF Ends, AsAt
  <2>5. j = Len(q) + 1
    BY <2>1, <2>4
  <2>6. \A i \in RolesIn(q) : FALSE
    BY <1>1, <1>2, <2>4, <2>5
  <2> QED
    BY <1>1, <1>4, <2>2, <2>4, <2>5, <2>6
<1> QED
  BY <1>3, <1>4

\* What is taken was at place 1.
LEMMA TailRoles ==
  ASSUME NEW q \in Messages, q # << >>, NEW new, new = Tail(q)
  PROVE  /\ new \in Messages /\ Len(q) \in Nat \ {0} /\ Len(new) = Len(q) - 1
         /\ DOMAIN q = 1..Len(q) /\ DOMAIN new = 1..Len(q) - 1
         /\ 1 \in DOMAIN q /\ Head(q) = q[1] /\ Head(q) \in Server!ServerMsgs
         /\ \A k \in DOMAIN new : k + 1 \in DOMAIN q /\ new[k] = q[k + 1]
         /\ \A k \in RolesIn(q) : k \in DOMAIN q /\ k >= 1
         /\ \A k \in RolesIn(new) : k \in DOMAIN new /\ k + 1 \in RolesIn(q)
         /\ \A k \in RolesIn(q) : k = 1 \/ k - 1 \in RolesIn(new)
<1>1. /\ new \in Messages /\ Len(q) \in Nat \ {0} /\ Len(new) = Len(q) - 1
      /\ DOMAIN q = 1..Len(q) /\ DOMAIN new = 1..Len(q) - 1
      /\ 1 \in DOMAIN q /\ Head(q) = q[1] /\ Head(q) \in Server!ServerMsgs
      /\ \A k \in DOMAIN new : k + 1 \in DOMAIN q /\ new[k] = q[k + 1]
  BY DEF Messages
<1>2. \A k \in RolesIn(q) : k \in DOMAIN q /\ k >= 1
  BY <1>1 DEF RolesIn
<1>3. \A k \in RolesIn(new) : k \in DOMAIN new /\ k + 1 \in RolesIn(q)
  BY <1>1 DEF RolesIn
<1>4. ASSUME NEW k \in RolesIn(q), k # 1 PROVE k - 1 \in RolesIn(new)
  <2>1. k - 1 \in DOMAIN new /\ (k - 1) + 1 = k
    BY <1>1, <1>2, <1>4
  <2>2. new[k - 1] = q[k]
    BY <1>1, <2>1
  <2> QED
    BY <2>1, <2>2 DEF RolesIn
<1> QED
  BY <1>1, <1>2, <1>3, <1>4

\* A message without a role was taken.
LEMMA AsAtTail ==
  ASSUME NEW q \in Messages, q # << >>, NEW new, new = Tail(q), ~GivesRole(Head(q)),
         NEW control, NEW n \in Nat \ {0}, NEW r, AsAt(new, control, n, r)
  PROVE  AsAt(q, control, n + 1, r)
<1>1. /\ Len(q) \in Nat \ {0} /\ DOMAIN new = 1..Len(q) - 1 /\ DOMAIN q = 1..Len(q)
      /\ \A k \in DOMAIN new : k + 1 \in DOMAIN q /\ new[k] = q[k + 1]
      /\ \A k \in RolesIn(q) : k \in DOMAIN q
      /\ \A k \in RolesIn(q) : k = 1 \/ k - 1 \in RolesIn(new)
      /\ 1 \notin RolesIn(q)
  BY TailRoles DEF RolesIn
<1>2. \A k \in RolesIn(q) : k \in Nat /\ k - 1 \in RolesIn(new)
  BY <1>1
<1>3. CASE control = r /\ \A j \in RolesIn(new) : j >= n
  <2>1. \A j \in RolesIn(q) : j >= n + 1
    BY <1>2, <1>3
  <2> QED
    BY <1>3, <2>1 DEF AsAt
<1>4. CASE /\ control = "none"
           /\ \E j \in DOMAIN new : /\ j < n /\ Gives(new[j], r)
                                    /\ \A i \in RolesIn(new) : i >= n \/ i = j
  <2>1. PICK j \in DOMAIN new : /\ j < n /\ Gives(new[j], r)
                                /\ \A i \in RolesIn(new) : i >= n \/ i = j
    BY <1>4
  <2>2. j + 1 \in DOMAIN q /\ j + 1 < n + 1 /\ Gives(q[j + 1], r)
    BY <1>1, <2>1
  <2>3. \A i \in RolesIn(q) : i >= n + 1 \/ i = j + 1
    BY <1>1, <1>2, <2>1
  <2> QED
    BY <1>4, <2>2, <2>3 DEF AsAt
<1> QED
  BY <1>3, <1>4 DEF AsAt

\* A message with a role was taken by a client that had none.
LEMMA AsAtRoleTaken ==
  ASSUME NEW q \in Messages, q # << >>, NEW new, new = Tail(q),
         NEW control \in Roles, Gives(Head(q), control),
         NEW n \in Nat \ {0}, NEW r \in Roles, AsAt(new, control, n, r)
  PROVE  AsAt(q, "none", n + 1, r)
<1>1. /\ Len(q) \in Nat \ {0} /\ DOMAIN q = 1..Len(q) /\ 1 \in DOMAIN q /\ Head(q) = q[1]
      /\ \A k \in RolesIn(q) : k \in DOMAIN q
      /\ \A k \in RolesIn(q) : k = 1 \/ k - 1 \in RolesIn(new)
  BY TailRoles
<1>2. control # "none"
  BY DEF Roles
<1>3. control = r /\ \A j \in RolesIn(new) : j >= n
  BY <1>2 DEF AsAt
<1>4. \A i \in RolesIn(q) : i >= n + 1 \/ i = 1
  BY <1>1, <1>3
<1>5. 1 < n + 1 /\ Gives(q[1], r)
  BY <1>1, <1>3
<1> QED
  BY <1>1, <1>4, <1>5 DEF AsAt

-----------------------------------------------------------------------------
(* The steps of one client *)

IsGone(x) == x.socket \in {"closed", "lost"}

\* A role comes before the first description; and there is only one to come,
\* and none for a client that has one.
RoleFirst(q, x) == \A k \in DOMAIN q : q[k].type = "ExchangeSessionDescription" =>
                     x.control # "none" \/ \E j \in RolesIn(q) : j < k
OnlyRole(q, x) == /\ x.control # "none" => RolesIn(q) = {}
                  /\ Single(RolesIn(q))
HasRole(q, x) == x.control # "none" \/ RolesIn(q) # {}

\* A client x with q to come.
Sound(q, x) == /\ q \in Messages
               /\ x.control \in Roles \cup {"none"} /\ x.peer \in Clients \cup {Nobody}
               /\ RoleFirst(q, x)
               /\ x.peer \in Clients \/ x.local => x.control # "none"

Hears(q, d) == \E k \in DOMAIN q : From(q[k], d)

\* Nothing new comes out of what is to come for the client, which stays sound;
\* once it is gone what it ends as counts only if no session was closed (open).
Lessens(q2, x2, q, x, open) ==
  /\ x.control # "none" => x2.control = x.control
  /\ IsGone(x) => IsGone(x2)
  /\ \A d \in Clients, r \in Roles : Will(q2, x2, d, r) => Will(q, x, d, r)
  /\ \A r \in Roles : Ends(q2, x2, r) /\ (open \/ ~IsGone(x2)) => Ends(q, x, r)
  /\ \A d \in Clients : Hears(q2, d) => Hears(q, d)
  /\ \A d \in Clients : x2.peer = d => x.peer = d \/ Hears(q, d)
  /\ HasRole(q2, x2) => HasRole(q, x)
  /\ HasRole(q, x) => HasRole(q2, x2) \/ IsGone(x2)
  /\ OnlyRole(q, x) => OnlyRole(q2, x2)
  /\ Sound(q2, x2)

\* As far as roles and descriptions go the client is the same.
SameClient(x2, x) == /\ x2.control = x.control /\ x2.peer = x.peer
                     /\ x2.local => x.local
                     /\ IsGone(x2) <=> IsGone(x)

Plain(msg) == ~GivesRole(msg) /\ msg.type # "ExchangeSessionDescription"

\* Nothing is to come but what was.
LEMMA SameLessens ==
  ASSUME NEW q, NEW x, Sound(q, x), NEW x2, SameClient(x2, x), NEW open
  PROVE  Lessens(q, x2, q, x, open)
BY DEF Lessens, SameClient, Sound, Will, Ends, Takes, HasRole, OnlyRole, RoleFirst

\* Another message is to come that is of no matter here.
LEMMA PlainLessens ==
  ASSUME NEW q, NEW x, Sound(q, x), NEW x2, SameClient(x2, x), NEW open,
         NEW e \in Server!ServerMsgs, Plain(e), NEW q2, q2 = Append(q, e)
  PROVE  Lessens(q2, x2, q, x, open)
<1>1. /\ x2.control = x.control /\ x2.peer = x.peer /\ q \in Messages
      /\ IsGone(x2) <=> IsGone(x)
  BY DEF Sound, SameClient
<1> Appended(q2, q, e)
  BY <1>1, AppendRoles
<1>2. /\ q2 \in Messages /\ Len(q) \in Nat
      /\ DOMAIN q = 1..Len(q) /\ DOMAIN q2 = 1..Len(q) + 1
      /\ \A k \in DOMAIN q : q2[k] = q[k]
      /\ q2[Len(q) + 1] = e
      /\ \A k \in RolesIn(q) : k \in RolesIn(q2)
      /\ \A k \in RolesIn(q2) : k \in RolesIn(q)
  BY DEF Appended, Plain
<1>3. \A k \in DOMAIN q2 : q2[k].type = "ExchangeSessionDescription" =>
                             k \in DOMAIN q /\ q2[k] = q[k]
  BY <1>2 DEF Plain
<1>4. \A d \in Clients : Hears(q2, d) => Hears(q, d)
  BY <1>3 DEF Hears, From
<1>5. ASSUME NEW d \in Clients, NEW r \in Roles, Will(q2, x2, d, r) PROVE Will(q, x, d, r)
  <2>1. CASE x2.peer = d /\ x2.control = r
    BY <1>1, <2>1 DEF Will
  <2>2. CASE Takes(q2, x2, d, r)
    <3>1. PICK k \in DOMAIN q2 : From(q2[k], d) /\ AsAt(q2, x.control, k, r)
      BY <1>1, <2>2 DEF Takes
    <3>2. k \in DOMAIN q /\ From(q[k], d) /\ k \in 1..Len(q) + 1
      BY <1>2, <1>3, <3>1 DEF From
    <3>3. AsAt(q, x.control, k, r)
      BY <1>1, <3>1, <3>2, AsAtAppend
    <3> QED
      BY <3>2, <3>3 DEF Will, Takes
  <2> QED
    BY <1>5, <2>1, <2>2 DEF Will
<1>6. ASSUME NEW r \in Roles, Ends(q2, x2, r) PROVE Ends(q, x, r)
  <2>1. Ends(q, x2, r)
    BY <1>1, <1>6, EndsAppend DEF Plain
  <2> QED
    BY <1>1, <2>1 DEF Ends
<1>7. RolesIn(q2) = RolesIn(q)
  BY <1>2
<1>8. RoleFirst(q2, x2)
  BY <1>1, <1>2, <1>3 DEF RoleFirst, Sound
<1>9. Sound(q2, x2)
  BY <1>1, <1>2, <1>8 DEF Sound, SameClient
<1>10. /\ HasRole(q2, x2) <=> HasRole(q, x)
       /\ OnlyRole(q, x) => OnlyRole(q2, x2)
  BY <1>1, <1>7 DEF HasRole, OnlyRole
<1> QED
  BY <1>1, <1>4, <1>5, <1>6, <1>9, <1>10 DEF Lessens

\* The client is gone and hears no more.
LEMMA LeaveLessens ==
  ASSUME NEW q, NEW x, Sound(q, x), NEW x2, NEW open, open => OnlyRole(q, x),
         x2.control = x.control, x2.peer = x.peer, x2.local => x.local, IsGone(x2)
  PROVE  Lessens(<< >>, x2, q, x, open)
<1>1. << >> \in Messages /\ DOMAIN << >> = {} /\ RolesIn(<< >>) = {} /\ Len(<< >>) = 0
  BY DEF Messages, RolesIn
<1>2. \A d \in Clients : ~Hears(<< >>, d)
  BY <1>1 DEF Hears
<1>3. \A d \in Clients, r \in Roles : Will(<< >>, x2, d, r) => Will(q, x, d, r)
  BY <1>1 DEF Will, Takes
<1>4. ASSUME NEW r \in Roles, Ends(<< >>, x2, r), open PROVE Ends(q, x, r)
  <2>1. x.control = r
    BY <1>1, <1>4 DEF Ends, AsAt
  <2>2. RolesIn(q) = {}
    BY <1>4, <2>1 DEF OnlyRole, Roles
  <2> QED
    BY <2>1, <2>2 DEF Ends, AsAt
<1>5. Sound(<< >>, x2)
  BY <1>1 DEF Sound, RoleFirst
<1>6. /\ HasRole(<< >>, x2) => HasRole(q, x)
      /\ OnlyRole(q, x) => OnlyRole(<< >>, x2)
  BY <1>1 DEF HasRole, OnlyRole, Single
<1> QED
  BY <1>2, <1>3, <1>4, <1>5, <1>6 DEF Lessens

\* The client takes the first message.
Takings(h, x2, x) ==
  /\ IsGone(x2) <=> IsGone(x)
  /\ \/ Plain(h) /\ x2.control = x.control /\ x2.peer = x.peer /\ (x2.local => x.local)
     \/ x.control = "none" /\ x2.control \in Roles /\ Gives(h, x2.control) /\ x2.peer = x.peer
     \/ /\ h.type = "ExchangeSessionDescription"
        /\ x2 = x \/ x.control # "none"
        /\ x.control # "none" => x2.control = x.control /\ x2.peer = h.data.from

\* Taking a message makes nothing come that was not to come.
LEMMA TakeLessens ==
  ASSUME NEW q, NEW x, Sound(q, x), q # << >>, NEW x2, Takings(Head(q), x2, x), NEW open,
         NEW q2, q2 = Tail(q)
  PROVE  Lessens(q2, x2, q, x, open)
<1>1. /\ q2 \in Messages /\ Len(q) \in Nat \ {0} /\ Len(q2) = Len(q) - 1
      /\ DOMAIN q = 1..Len(q) /\ DOMAIN q2 = 1..Len(q) - 1
      /\ 1 \in DOMAIN q /\ Head(q) = q[1] /\ Head(q) \in Server!ServerMsgs
      /\ \A k \in DOMAIN q2 : k + 1 \in DOMAIN q /\ q2[k] = q[k + 1]
      /\ \A k \in RolesIn(q) : k \in DOMAIN q /\ k >= 1
      /\ \A k \in RolesIn(q2) : k \in DOMAIN q2 /\ k + 1 \in RolesIn(q)
      /\ \A k \in RolesIn(q) : k = 1 \/ k - 1 \in RolesIn(q2)
  BY TailRoles DEF Sound
<1>2. \A d \in Clients : Hears(q2, d) => Hears(q, d)
  BY <1>1 DEF Hears
<1>3. 1 \in RolesIn(q) <=> GivesRole(Head(q))
  BY <1>1 DEF RolesIn
<1>4. Single(RolesIn(q)) => Single(RolesIn(q2))
  <2>1. \A j, k \in RolesIn(q2) : j + 1 = k + 1 => j = k
    BY <1>1
  <2> QED
    BY <1>1, <2>1 DEF Single
<1>5. RolesIn(q2) # {} => RolesIn(q) # {}
  BY <1>1
<1>6. ~GivesRole(Head(q)) => (RolesIn(q) # {} => RolesIn(q2) # {})
  BY <1>1, <1>3
<1>7. RoleFirst(q2, x) \/ GivesRole(Head(q))
  <2> SUFFICES ASSUME ~GivesRole(Head(q)), NEW k \in DOMAIN q2,
                      q2[k].type = "ExchangeSessionDescription", x.control = "none"
               PROVE  \E j \in RolesIn(q2) : j < k
    BY DEF RoleFirst
  <2>1. PICK j \in RolesIn(q) : j < k + 1
    BY <1>1 DEF Sound, RoleFirst
  <2>2. j # 1 /\ j - 1 \in RolesIn(q2) /\ j \in Nat /\ k \in Nat
    BY <1>1, <1>3, <2>1
  <2> QED
    BY <2>1, <2>2
<1>8. ASSUME ~GivesRole(Head(q)), x2.control = x.control,
             NEW d \in Clients, NEW r \in Roles, Takes(q2, x2, d, r)
      PROVE  Takes(q, x, d, r)
  <2>1. PICK k \in DOMAIN q2 : From(q2[k], d) /\ AsAt(q2, x.control, k, r)
    BY <1>8 DEF Takes
  <2>2. k + 1 \in DOMAIN q /\ From(q[k + 1], d) /\ k \in Nat \ {0} /\ q \in Messages
    BY <1>1, <2>1 DEF Sound
  <2>3. AsAt(q, x.control, k + 1, r)
    BY <1>8, <2>1, <2>2, AsAtTail
  <2> QED
    BY <2>2, <2>3 DEF Takes
<1>9. ASSUME ~GivesRole(Head(q)), x2.control = x.control, NEW r \in Roles, Ends(q2, x2, r)
      PROVE  Ends(q, x, r)
  <2>1. AsAt(q2, x.control, Len(q), r) /\ Len(q) \in Nat \ {0} /\ q \in Messages
    BY <1>1, <1>9 DEF Ends, Sound
  <2>2. AsAt(q, x.control, Len(q) + 1, r)
    BY <1>9, <2>1, AsAtTail
  <2> QED
    BY <2>2 DEF Ends
<1>10. CASE Plain(Head(q)) /\ x2.control = x.control /\ x2.peer = x.peer /\ (x2.local => x.local)
  <2>1. ~GivesRole(Head(q)) /\ x2.control = x.control /\ x2.peer = x.peer
    BY <1>10 DEF Plain
  <2>2. \A d \in Clients, r \in Roles : Will(q2, x2, d, r) => Will(q, x, d, r)
    BY <1>8, <2>1 DEF Will
  <2>3. \A r \in Roles : Ends(q2, x2, r) => Ends(q, x, r)
    BY <1>9, <2>1
  <2>4. RoleFirst(q2, x2)
    BY <1>7, <2>1 DEF RoleFirst
  <2>5. Sound(q2, x2)
    BY <1>1, <1>10, <2>1, <2>4 DEF Sound
  <2>6. /\ HasRole(q2, x2) => HasRole(q, x)
        /\ HasRole(q, x) => HasRole(q2, x2)
    BY <1>5, <1>6, <2>1 DEF HasRole
  <2>7. OnlyRole(q, x) => OnlyRole(q2, x2)
    BY <1>4, <1>5, <2>1 DEF OnlyRole
  <2> QED
    BY <1>2, <2>1, <2>2, <2>3, <2>5, <2>6, <2>7 DEF Lessens, Takings
<1>11. CASE /\ x.control = "none" /\ x2.control \in Roles
              /\ Gives(Head(q), x2.control) /\ x2.peer = x.peer
  <2>1. x2.control # "none"
    BY <1>11 DEF Roles
  <2>2. x.peer \notin Clients
    BY <1>11 DEF Sound
  <2>3. GivesRole(Head(q)) /\ 1 \in RolesIn(q)
    BY <1>3, <1>11 DEF GivesRole
  <2>4. ASSUME NEW n \in Nat \ {0}, NEW r \in Roles, AsAt(q2, x2.control, n, r)
        PROVE  AsAt(q, x.control, n + 1, r)
    <3>1. q \in Messages /\ x.control = "none"
      BY <1>11 DEF Sound
    <3> QED
      BY <1>11, <2>4, <3>1, AsAtRoleTaken
  <2>5. ASSUME NEW d \in Clients, NEW r \in Roles, Will(q2, x2, d, r) PROVE Will(q, x, d, r)
    <3>1. PICK k \in DOMAIN q2 : From(q2[k], d) /\ AsAt(q2, x2.control, k, r)
      BY <1>11, <2>2, <2>5 DEF Will, Takes
    <3>2. k + 1 \in DOMAIN q /\ From(q[k + 1], d) /\ k \in Nat \ {0}
      BY <1>1, <3>1
    <3>3. AsAt(q, x.control, k + 1, r)
      BY <2>4, <3>1, <3>2
    <3> QED
      BY <3>2, <3>3 DEF Will, Takes
  <2>6. ASSUME NEW r \in Roles, Ends(q2, x2, r) PROVE Ends(q, x, r)
    <3>1. AsAt(q2, x2.control, Len(q), r) /\ Len(q) \in Nat \ {0}
      BY <1>1, <2>6 DEF Ends
    <3> QED
      BY <2>4, <3>1 DEF Ends
  <2>7. Sound(q2, x2) /\ HasRole(q2, x2) /\ HasRole(q, x)
    BY <1>1, <1>11, <2>1, <2>3 DEF Sound, RoleFirst, HasRole
  <2>8. OnlyRole(q, x) => OnlyRole(q2, x2)
    <3>1. ASSUME Single(RolesIn(q)), NEW k \in RolesIn(q2) PROVE FALSE
      <4>1. k \in Nat \ {0} /\ k + 1 \in RolesIn(q)
        BY <1>1, <3>1
      <4>2. k + 1 = 1
        BY <2>3, <3>1, <4>1 DEF Single
      <4> QED
        BY <4>1, <4>2
    <3> QED
      BY <1>4, <3>1 DEF OnlyRole
  <2> QED
    BY <1>2, <1>11, <2>1, <2>2, <2>5, <2>6, <2>7, <2>8 DEF Lessens, Takings
<1>12. CASE /\ Head(q).type = "ExchangeSessionDescription"
            /\ x2 = x \/ x.control # "none"
            /\ x.control # "none" => x2.control = x.control /\ x2.peer = Head(q).data.from
  <2>1. x.control # "none"
    <3>1. \A j \in RolesIn(q) : ~(j < 1)
      BY <1>1
    <3> QED
      BY <1>1, <1>12, <3>1 DEF Sound, RoleFirst
  <2>2. x2.control = x.control /\ x2.peer = Head(q).data.from /\ x.control \in Roles
    BY <1>12, <2>1 DEF Sound
  <2>3. ~GivesRole(Head(q))
    BY <1>12 DEF GivesRole, Gives
  <2>4. Head(q).data.from \in Clients
    BY <1>1, <1>12 DEF Server!ServerMsgs, Server!Exchanges, Descriptions
  <2>5. AsAt(q, x.control, 1, x.control)
    BY <1>1 DEF AsAt
  <2>6. \A d \in Clients : x2.peer = d => From(q[1], d)
    BY <1>1, <1>12, <2>2 DEF From
  <2>7. ASSUME NEW d \in Clients, NEW r \in Roles, Will(q2, x2, d, r) PROVE Will(q, x, d, r)
    <3>1. CASE x2.peer = d /\ x2.control = r
      BY <1>1, <2>2, <2>5, <2>6, <3>1 DEF Will, Takes
    <3>2. CASE Takes(q2, x2, d, r)
      BY <1>8, <2>2, <2>3, <3>2 DEF Will
    <3> QED
      BY <2>7, <3>1, <3>2 DEF Will
  <2>8. \A r \in Roles : Ends(q2, x2, r) => Ends(q, x, r)
    BY <1>9, <2>2, <2>3
  <2>9. \A d \in Clients : x2.peer = d => Hears(q, d)
    BY <1>1, <2>6 DEF Hears
  <2>10. Sound(q2, x2) /\ HasRole(q2, x2) /\ HasRole(q, x)
    BY <1>1, <2>1, <2>2, <2>4 DEF Sound, RoleFirst, HasRole
  <2>11. OnlyRole(q, x) => OnlyRole(q2, x2)
    BY <1>4, <1>5, <2>2 DEF OnlyRole
  <2> QED
    BY <1>2, <2>2, <2>7, <2>8, <2>9, <2>10, <2>11 DEF Lessens, Takings
<1> QED
  BY <1>10, <1>11, <1>12 DEF Takings

-----------------------------------------------------------------------------
(* All clients.  pairs holds <<c, d>> when the server has c and d as       *)
(* partners, open says that no session was closed, cl are the records of   *)
(* the clients, co what is to come for each and wr what each wrote.        *)

Matching(pairs) ==
  \A c, d \in Clients : <<c, d>> \in pairs =>
    /\ c # d /\ <<d, c>> \in pairs
    /\ \A e \in Clients : <<c, e>> \in pairs => e = d

\* Who wrote a description, or is heard of, has a role.
Senders(cl, co, wr) ==
  /\ \A d \in Clients : \A k \in DOMAIN wr[d] :
       wr[d][k].type = "ExchangeSessionDescription" =>
         From(wr[d][k], d) /\ cl[d].control # "none"
  /\ \A c, d \in Clients : Hears(co[c], d) \/ cl[c].peer = d => cl[d].control # "none"

\* A client with a partner was told so.
PartnersKnow(pairs, cl, co) ==
  \A c, d \in Clients : <<c, d>> \in pairs /\ ~IsGone(cl[c]) => HasRole(co[c], cl[c])

\* As long as no session is closed a role means a partner, for ever the same.
Faithful(pairs, cl, co) ==
  \A c \in Clients :
    /\ OnlyRole(co[c], cl[c])
    /\ HasRole(co[c], cl[c]) => \E d \in Clients : <<c, d>> \in pairs
    /\ \A d \in Clients : Hears(co[c], d) \/ cl[c].peer = d => <<c, d>> \in pairs
    /\ cl[c].state \notin {"abortedByReply", "abortedByRequest"}

\* Two clients do not take each other's description in the same role; nor does a
\* partner that takes it end in the role of the other; nor do both end in one.
Apart(pairs, open, cl, co) ==
  \A c, d \in Clients, r \in Roles :
    /\ ~(Will(co[c], cl[c], d, r) /\ Will(co[d], cl[d], c, r))
    /\ <<c, d>> \in pairs /\ ~IsGone(cl[c]) =>
         ~(Ends(co[c], cl[c], r) /\ Will(co[d], cl[d], c, r))
    /\ <<c, d>> \in pairs /\ (open \/ (~IsGone(cl[c]) /\ ~IsGone(cl[d]))) =>
         ~(Ends(co[c], cl[c], r) /\ Ends(co[d], cl[d], r))

AllRoles(pairs, open, cl, co, wr) ==
  /\ \A c \in Clients : Sound(co[c], cl[c])
  /\ Senders(cl, co, wr)
  /\ PartnersKnow(pairs, cl, co)
  /\ open => Faithful(pairs, cl, co)
  /\ Apart(pairs, open, cl, co)

\* What is written is of a client with a role.
Signed(wr, cl) ==
  \A d \in Clients : \A k \in DOMAIN wr[d] :
    wr[d][k].type = "ExchangeSessionDescription" =>
      From(wr[d][k], d) /\ cl[d].control # "none"

\* Pairs may go, and nothing new comes to any client.
LEMMA OrdinaryKeepsRoles ==
  ASSUME NEW pairs, NEW open, NEW cl, NEW co, NEW wr, AllRoles(pairs, open, cl, co, wr),
         NEW pairs2, NEW open2, NEW cl2, NEW co2, NEW wr2,
         \A p \in pairs2 : p \in pairs,
         open2 => open /\ pairs2 = pairs,
         \A c \in Clients : Lessens(co2[c], cl2[c], co[c], cl[c], open2),
         open2 => \A c \in Clients :
                    cl2[c].state \notin {"abortedByReply", "abortedByRequest"},
         Signed(wr2, cl)
  PROVE  AllRoles(pairs2, open2, cl2, co2, wr2)
<1>1. \A c \in Clients : Sound(co2[c], cl2[c])
  BY DEF Lessens
<1>2. \A c \in Clients : cl[c].control # "none" => cl2[c].control # "none"
  BY DEF Lessens
<1>3. Senders(cl2, co2, wr2)
  <2>1. Signed(wr2, cl2)
    BY <1>2 DEF Signed
  <2>2. ASSUME NEW c \in Clients, NEW d \in Clients, Hears(co2[c], d) \/ cl2[c].peer = d
        PROVE  cl2[d].control # "none"
    <3>1. Hears(co[c], d) \/ cl[c].peer = d
      BY <2>2 DEF Lessens
    <3> QED
      BY <1>2, <3>1 DEF AllRoles, Senders
  <2> QED
    BY <2>1, <2>2 DEF Senders, Signed
<1>4. PartnersKnow(pairs2, cl2, co2)
  BY DEF PartnersKnow, Lessens, AllRoles
<1>5. ASSUME open2 PROVE Faithful(pairs2, cl2, co2)
  <2>1. Faithful(pairs, cl, co) /\ pairs2 = pairs
    BY <1>5 DEF AllRoles
  <2>2. ASSUME NEW c \in Clients
        PROVE  /\ OnlyRole(co2[c], cl2[c])
               /\ HasRole(co2[c], cl2[c]) => HasRole(co[c], cl[c])
    BY <2>1 DEF Faithful, Lessens
  <2>3. ASSUME NEW c \in Clients, NEW d \in Clients, Hears(co2[c], d) \/ cl2[c].peer = d
        PROVE  Hears(co[c], d) \/ cl[c].peer = d
    BY <2>3 DEF Lessens
  <2> QED
    BY <1>5, <2>1, <2>2, <2>3 DEF Faithful
<1>6. Apart(pairs2, open2, cl2, co2)
  <2> SUFFICES ASSUME NEW c \in Clients, NEW d \in Clients, NEW r \in Roles
               PROVE  /\ ~(Will(co2[c], cl2[c], d, r) /\ Will(co2[d], cl2[d], c, r))
                      /\ <<c, d>> \in pairs2 /\ ~IsGone(cl2[c]) =>
                           ~(Ends(co2[c], cl2[c], r) /\ Will(co2[d], cl2[d], c, r))
                      /\ <<c, d>> \in pairs2 /\ (open2 \/ (~IsGone(cl2[c]) /\ ~IsGone(cl2[d]))) =>
                           ~(Ends(co2[c], cl2[c], r) /\ Ends(co2[d], cl2[d], r))
    BY DEF Apart
  <2>1. /\ Will(co2[c], cl2[c], d, r) => Will(co[c], cl[c], d, r)
        /\ Will(co2[d], cl2[d], c, r) => Will(co[d], cl[d], c, r)
    BY DEF Lessens
  <2>2. /\ IsGone(cl[c]) => IsGone(cl2[c])
        /\ IsGone(cl[d]) => IsGone(cl2[d])
    BY DEF Lessens
  <2>3. /\ Ends(co2[c], cl2[c], r) /\ (open2 \/ ~IsGone(cl2[c])) => Ends(co[c], cl[c], r)
        /\ Ends(co2[d], cl2[d], r) /\ (open2 \/ ~IsGone(cl2[d])) => Ends(co[d], cl[d], r)
    BY DEF Lessens
  <2>4. <<c, d>> \in pairs2 => <<c, d>> \in pairs
    OBVIOUS
  <2>5. Apart(pairs, open, cl, co)
    BY DEF AllRoles
  <2>6. /\ ~(Will(co[c], cl[c], d, r) /\ Will(co[d], cl[d], c, r))
        /\ <<c, d>> \in pairs /\ ~IsGone(cl[c]) =>
             ~(Ends(co[c], cl[c], r) /\ Will(co[d], cl[d], c, r))
        /\ <<c, d>> \in pairs /\ (open \/ (~IsGone(cl[c]) /\ ~IsGone(cl[d]))) =>
             ~(Ends(co[c], cl[c], r) /\ Ends(co[d], cl[d], r))
    BY <2>5 DEF Apart
  <2> QED
    BY <2>1, <2>2, <2>3, <2>4, <2>6
<1> QED
  BY <1>1, <1>3, <1>4, <1>5, <1>6 DEF AllRoles

\* A message that gives a role is added to what is to come for a client without one.
Told(q2, q, x, r) ==
  IF IsGone(x) THEN q2 = q
  ELSE \E e \in Server!ServerMsgs :
         q2 = Append(q, e) /\ Gives(e, r) /\ e.type # "ExchangeSessionDescription"

\* What such a message changes for its client.
LEMMA ToldEffect ==
  ASSUME NEW q, NEW x, Sound(q, x), NEW r \in Roles, NEW q2, Told(q2, q, x, r)
  PROVE  /\ Sound(q2, x)
         /\ \A d \in Clients : Hears(q2, d) => Hears(q, d)
         /\ \A d \in Clients, t \in Roles : Will(q2, x, d, t) => Will(q, x, d, t)
         /\ ~IsGone(x) => HasRole(q2, x)
         /\ HasRole(q, x) => HasRole(q2, x)
         /\ ~HasRole(q, x) => OnlyRole(q2, x)
         /\ ~IsGone(x) => \A t \in Roles : Ends(q2, x, t) => t = r /\ ~HasRole(q, x)
         /\ IsGone(x) => q2 = q
<1>1. CASE IsGone(x)
  <2>1. q2 = q
    BY <1>1 DEF Told
  <2>2. ~HasRole(q, x) => OnlyRole(q, x)
    BY DEF HasRole, OnlyRole, Single
  <2> QED
    BY <1>1, <2>1, <2>2
<1>2. CASE ~IsGone(x)
  <2>1. PICK e \in Server!ServerMsgs :
             q2 = Append(q, e) /\ Gives(e, r) /\ e.type # "ExchangeSessionDescription"
    BY <1>2 DEF Told
  <2>2. q \in Messages
    BY DEF Sound
  <2>3. Appended(q2, q, e) /\ GivesRole(e)
    BY <2>1, <2>2, AppendRoles DEF GivesRole
  <2>4. /\ q2 \in Messages /\ Len(q) \in Nat
        /\ DOMAIN q = 1..Len(q) /\ DOMAIN q2 = 1..Len(q) + 1
        /\ \A k \in DOMAIN q : q2[k] = q[k]
        /\ q2[Len(q) + 1] = e
        /\ \A k \in RolesIn(q) : k \in RolesIn(q2)
        /\ \A k \in RolesIn(q2) : k \in RolesIn(q) \/ k = Len(q) + 1
        /\ Len(q) + 1 \in RolesIn(q2)
    BY <2>3 DEF Appended
  <2>5. \A k \in DOMAIN q2 : q2[k].type = "ExchangeSessionDescription" =>
                               k \in DOMAIN q /\ q2[k] = q[k]
    BY <2>1, <2>4
  <2>6. \A d \in Clients : Hears(q2, d) => Hears(q, d)
    BY <2>5 DEF Hears, From
  <2>7. RoleFirst(q2, x)
    BY <2>4, <2>5 DEF RoleFirst, Sound
  <2>8. Sound(q2, x)
    BY <2>4, <2>7 DEF Sound
  <2>9. ASSUME NEW d \in Clients, NEW t \in Roles, Takes(q2, x, d, t) PROVE Takes(q, x, d, t)
    <3>1. PICK k \in DOMAIN q2 : From(q2[k], d) /\ AsAt(q2, x.control, k, t)
      BY <2>9 DEF Takes
    <3>2. k \in DOMAIN q /\ From(q[k], d) /\ k \in 1..Len(q) + 1
      BY <2>4, <2>5, <3>1 DEF From
    <3>3. AsAt(q, x.control, k, t)
      BY <2>1, <2>2, <3>1, <3>2, AsAtAppend
    <3> QED
      BY <3>2, <3>3 DEF Takes
  <2>10. \A d \in Clients, t \in Roles : Will(q2, x, d, t) => Will(q, x, d, t)
    BY <2>9 DEF Will
  <2>11. HasRole(q2, x)
    BY <2>4 DEF HasRole
  <2>12. ASSUME ~HasRole(q, x) PROVE OnlyRole(q2, x)
    BY <2>4, <2>12 DEF HasRole, OnlyRole, Single
  <2>13. ASSUME NEW t \in Roles, Ends(q2, x, t) PROVE t = r /\ ~HasRole(q, x)
    <3>1. x.control = "none" /\ RolesIn(q) = {} /\ Gives(e, t)
      BY <2>1, <2>2, <2>3, <2>13, EndsAppend
    <3>2. t = r
      BY <2>1, <3>1, GivesOne
    <3> QED
      BY <3>1, <3>2 DEF HasRole
  <2> QED
    BY <1>2, <2>6, <2>8, <2>10, <2>11, <2>12, <2>13
<1> QED
  BY <1>1, <1>2

\* The requester c and the target d, who have no partners, are paired and told so.
LEMMA MatchKeepsRoles ==
  ASSUME NEW pairs, NEW open, NEW cl, NEW co, NEW wr, AllRoles(pairs, open, cl, co, wr),
         NEW c \in Clients, NEW d \in Clients, c # d,
         \A e \in Clients : /\ <<c, e>> \notin pairs /\ <<e, c>> \notin pairs
                            /\ <<d, e>> \notin pairs /\ <<e, d>> \notin pairs,
         NEW pairs2, NEW co2, NEW wr2,
         \A p \in pairs : p \in pairs2,
         <<c, d>> \in pairs2, <<d, c>> \in pairs2,
         \A e, f \in Clients : <<e, f>> \in pairs2 =>
           <<e, f>> \in pairs \/ (e = c /\ f = d) \/ (e = d /\ f = c),
         Told(co2[c], co[c], cl[c], "controller"),
         Told(co2[d], co[d], cl[d], "agent"),
         \A e \in Clients : e = c \/ e = d \/ co2[e] = co[e],
         Signed(wr2, cl)
  PROVE  AllRoles(pairs2, open, cl, co2, wr2)
<1>1. \A e \in Clients : Sound(co[e], cl[e])
  BY DEF AllRoles
<1>2. PICK role : role = [e \in Clients |-> IF e = c THEN "controller" ELSE "agent"]
  OBVIOUS
<1>3. \A e \in Clients : role[e] \in Roles
  BY <1>2 DEF Roles
<1>4. \A e \in Clients : Told(co2[e], co[e], cl[e], role[e]) \/ (e # c /\ e # d /\ co2[e] = co[e])
  BY <1>2
<1>5. ASSUME NEW e \in Clients
      PROVE  /\ Sound(co2[e], cl[e])
             /\ \A f \in Clients : Hears(co2[e], f) => Hears(co[e], f)
             /\ \A f \in Clients, t \in Roles :
                  Will(co2[e], cl[e], f, t) => Will(co[e], cl[e], f, t)
             /\ HasRole(co[e], cl[e]) => HasRole(co2[e], cl[e])
  BY <1>1, <1>3, <1>4, ToldEffect
<1>6. ASSUME NEW e \in Clients, e = c \/ e = d
      PROVE  /\ ~IsGone(cl[e]) => HasRole(co2[e], cl[e])
             /\ ~HasRole(co[e], cl[e]) => OnlyRole(co2[e], cl[e])
             /\ ~IsGone(cl[e]) => \A t \in Roles :
                  Ends(co2[e], cl[e], t) => t = role[e] /\ ~HasRole(co[e], cl[e])
             /\ IsGone(cl[e]) => co2[e] = co[e]
  BY <1>1, <1>3, <1>4, <1>6, ToldEffect
<1>7. Senders(cl, co2, wr2)
  BY <1>5 DEF AllRoles, Senders, Signed
<1>8. PartnersKnow(pairs2, cl, co2)
  <2> SUFFICES ASSUME NEW e \in Clients, NEW f \in Clients, <<e, f>> \in pairs2, ~IsGone(cl[e])
               PROVE  HasRole(co2[e], cl[e])
    BY DEF PartnersKnow
  <2>1. CASE e = c \/ e = d
    BY <1>6, <2>1
  <2>2. CASE <<e, f>> \in pairs
    BY <1>5, <2>2 DEF AllRoles, PartnersKnow
  <2> QED
    BY <2>1, <2>2
<1>9. open => \A e \in Clients : e = c \/ e = d => ~HasRole(co[e], cl[e])
  BY DEF AllRoles, Faithful
<1>10. ASSUME open PROVE Faithful(pairs2, cl, co2)
  <2>1. Faithful(pairs, cl, co)
    BY <1>10 DEF AllRoles
  <2>2. ASSUME NEW e \in Clients PROVE OnlyRole(co2[e], cl[e])
    <3>1. CASE e = c \/ e = d
      BY <1>6, <1>9, <1>10, <3>1
    <3>2. CASE e # c /\ e # d
      BY <2>1, <3>2 DEF Faithful
    <3> QED
      BY <3>1, <3>2
  <2>3. ASSUME NEW e \in Clients, HasRole(co2[e], cl[e])
        PROVE  \E f \in Clients : <<e, f>> \in pairs2
    <3>1. CASE e = c \/ e = d
      BY <3>1
    <3>2. CASE e # c /\ e # d
      BY <2>1, <2>3, <3>2 DEF Faithful
    <3> QED
      BY <3>1, <3>2
  <2>4. ASSUME NEW e \in Clients, NEW f \in Clients, Hears(co2[e], f) \/ cl[e].peer = f
        PROVE  <<e, f>> \in pairs2
    BY <1>5, <2>1, <2>4 DEF Faithful
  <2>5. \A e \in Clients : cl[e].state \notin {"abortedByReply", "abortedByRequest"}
    BY <2>1 DEF Faithful
  <2> QED
    BY <2>2, <2>3, <2>4, <2>5 DEF Faithful
<1>11. ASSUME NEW e \in Clients, NEW f \in Clients, NEW r \in Roles
       PROVE  /\ ~(Will(co[e], cl[e], f, r) /\ Will(co[f], cl[f], e, r))
              /\ <<e, f>> \in pairs /\ ~IsGone(cl[e]) =>
                   ~(Ends(co[e], cl[e], r) /\ Will(co[f], cl[f], e, r))
              /\ <<e, f>> \in pairs /\ (open \/ (~IsGone(cl[e]) /\ ~IsGone(cl[f]))) =>
                   ~(Ends(co[e], cl[e], r) /\ Ends(co[f], cl[f], r))
  BY DEF AllRoles, Apart
\* Nobody who has no role yet is heard of.
<1>12. ASSUME NEW e \in Clients, e = c \/ e = d, ~IsGone(cl[e]), NEW r \in Roles,
              Ends(co2[e], cl[e], r), NEW f \in Clients
       PROVE  ~Will(co2[f], cl[f], e, r)
  <2>1. ~HasRole(co[e], cl[e])
    BY <1>6, <1>12
  <2>2. ~Hears(co[f], e) /\ cl[f].peer # e
    BY <2>1 DEF AllRoles, Senders, HasRole
  <2>3. ~Will(co[f], cl[f], e, r)
    BY <2>2 DEF Will, Takes, Hears
  <2> QED
    BY <1>5, <2>3
\* A client that is gone without a role ends as nothing.
<1>13. ASSUME NEW e \in Clients, e = c \/ e = d, open, IsGone(cl[e]), NEW r \in Roles
       PROVE  ~Ends(co2[e], cl[e], r)
  <2>1. co2[e] = co[e] /\ ~HasRole(co[e], cl[e])
    BY <1>6, <1>9, <1>13
  <2>2. cl[e].control = "none" /\ \A k \in DOMAIN co[e] : k \notin RolesIn(co[e])
    BY <2>1 DEF HasRole
  <2>3. \A k \in DOMAIN co[e] : ~Gives(co[e][k], r)
    BY <2>2 DEF RolesIn, GivesRole
  <2> QED
    BY <2>1, <2>2, <2>3 DEF Ends, AsAt, Roles
<1>14. Apart(pairs2, open, cl, co2)
  <2> SUFFICES ASSUME NEW e \in Clients, NEW f \in Clients, NEW r \in Roles
               PROVE  /\ ~(Will(co2[e], cl[e], f, r) /\ Will(co2[f], cl[f], e, r))
                      /\ <<e, f>> \in pairs2 /\ ~IsGone(cl[e]) =>
                           ~(Ends(co2[e], cl[e], r) /\ Will(co2[f], cl[f], e, r))
                      /\ <<e, f>> \in pairs2 /\ (open \/ (~IsGone(cl[e]) /\ ~IsGone(cl[f]))) =>
                           ~(Ends(co2[e], cl[e], r) /\ Ends(co2[f], cl[f], r))
    BY DEF Apart
  <2>1. ~(Will(co2[e], cl[e], f, r) /\ Will(co2[f], cl[f], e, r))
    BY <1>5, <1>11
  <2>2. CASE <<e, f>> \in pairs
    <3>1. co2[e] = co[e] /\ co2[f] = co[f]
      BY <2>2
    <3> QED
      BY <1>11, <2>1, <2>2, <3>1
  <2>3. CASE (e = c /\ f = d) \/ (e = d /\ f = c)
    <3>1. role[e] # role[f]
      BY <1>2, <2>3
    <3>2. ~IsGone(cl[e]) => ~(Ends(co2[e], cl[e], r) /\ Will(co2[f], cl[f], e, r))
      BY <1>12, <2>3
    <3>3. ~IsGone(cl[e]) /\ ~IsGone(cl[f]) =>
            ~(Ends(co2[e], cl[e], r) /\ Ends(co2[f], cl[f], r))
      BY <1>6, <2>3, <3>1
    <3>4. open /\ (IsGone(cl[e]) \/ IsGone(cl[f])) =>
            ~(Ends(co2[e], cl[e], r) /\ Ends(co2[f], cl[f], r))
      BY <1>13, <2>3
    <3> QED
      BY <2>1, <3>2, <3>3, <3>4
  <2>4. CASE <<e, f>> \notin pairs2
    BY <2>1, <2>4
  <2> QED
    BY <2>2, <2>3, <2>4
<1> QED
  BY <1>5, <1>7, <1>8, <1>10, <1>14 DEF AllRoles

\* What c wrote is handed to its partner d.
LEMMA ForwardKeepsRoles ==
  ASSUME NEW pairs, NEW open, NEW cl, NEW co, NEW wr, AllRoles(pairs, open, cl, co, wr),
         Matching(pairs), NEW c \in Clients, NEW d \in Clients, <<c, d>> \in pairs,
         ~IsGone(cl[d]), NEW msg \in Server!ServerMsgs, From(msg, c), cl[c].control # "none",
         NEW co2, NEW wr2, co2[d] = Append(co[d], msg),
         \A e \in Clients : e = d \/ co2[e] = co[e],
         Signed(wr2, cl)
  PROVE  AllRoles(pairs, open, cl, co2, wr2)
<1>1. PICK q, new, x : q = co[d] /\ new = co2[d] /\ x = cl[d]
  OBVIOUS
<1>2. Sound(q, x) /\ q \in Messages /\ new = Append(q, msg)
  BY <1>1 DEF AllRoles, Sound
<1>3. Appended(new, q, msg) /\ ~GivesRole(msg) /\ msg.type = "ExchangeSessionDescription"
  BY <1>2, AppendRoles DEF GivesRole, Gives, From
<1>4. /\ new \in Messages /\ Len(q) \in Nat
      /\ DOMAIN q = 1..Len(q) /\ DOMAIN new = 1..Len(q) + 1
      /\ \A k \in DOMAIN q : new[k] = q[k] /\ k < Len(q) + 1
      /\ new[Len(q) + 1] = msg
      /\ \A k \in RolesIn(q) : k \in DOMAIN q /\ k \in RolesIn(new)
      /\ \A k \in RolesIn(new) : k \in RolesIn(q)
  BY <1>3 DEF Appended
<1>5. RolesIn(new) = RolesIn(q)
  BY <1>4
<1>6. <<d, c>> \in pairs /\ c # d /\ HasRole(q, x)
  BY <1>1 DEF Matching, AllRoles, PartnersKnow
<1>7. Sound(new, x)
  <2>1. RoleFirst(new, x)
    BY <1>2, <1>4, <1>6 DEF RoleFirst, Sound, HasRole
  <2> QED
    BY <1>2, <1>4, <2>1 DEF Sound
<1>8. \A e \in Clients : Hears(new, e) => Hears(q, e) \/ e = c
  BY <1>4 DEF Hears, From
<1>9. /\ HasRole(new, x) <=> HasRole(q, x)
      /\ OnlyRole(new, x) <=> OnlyRole(q, x)
  BY <1>5 DEF HasRole, OnlyRole
<1>10. ASSUME NEW r \in Roles, Ends(new, x, r) PROVE Ends(q, x, r)
  BY <1>2, <1>3, <1>10, EndsAppend
<1>11. ASSUME NEW e \in Clients, NEW r \in Roles, Will(new, x, e, r)
       PROVE  Will(q, x, e, r) \/ (e = c /\ Ends(q, x, r))
  <2>1. CASE x.peer = e /\ x.control = r
    BY <2>1 DEF Will
  <2>2. CASE Takes(new, x, e, r)
    <3>1. PICK k \in DOMAIN new : From(new[k], e) /\ AsAt(new, x.control, k, r)
      BY <2>2 DEF Takes
    <3>2. k \in 1..Len(q) + 1 /\ AsAt(q, x.control, k, r)
      BY <1>2, <1>4, <3>1, AsAtAppend
    <3>3. CASE k \in DOMAIN q
      BY <1>4, <3>1, <3>2, <3>3 DEF Will, Takes
    <3>4. CASE k = Len(q) + 1
      BY <1>4, <3>1, <3>2, <3>4 DEF Ends, From
    <3> QED
      BY <1>4, <3>2, <3>3, <3>4
  <2> QED
    BY <1>11, <2>1, <2>2 DEF Will
<1>12. \A e \in Clients : e # d => co2[e] = co[e]
  OBVIOUS
<1>13. ASSUME NEW e \in Clients
       PROVE  /\ Sound(co2[e], cl[e])
              /\ \A f \in Clients : Hears(co2[e], f) => Hears(co[e], f) \/ (e = d /\ f = c)
              /\ HasRole(co2[e], cl[e]) <=> HasRole(co[e], cl[e])
              /\ OnlyRole(co2[e], cl[e]) <=> OnlyRole(co[e], cl[e])
              /\ \A r \in Roles : Ends(co2[e], cl[e], r) => Ends(co[e], cl[e], r)
  <2>1. CASE e = d
    BY <1>1, <1>7, <1>8, <1>9, <1>10, <2>1
  <2>2. CASE e # d
    BY <1>12, <2>2 DEF AllRoles
  <2> QED
    BY <2>1, <2>2
<1>14. ASSUME NEW e \in Clients, NEW f \in Clients, NEW r \in Roles, Will(co2[e], cl[e], f, r)
       PROVE  Will(co[e], cl[e], f, r) \/ (e = d /\ f = c /\ Ends(co[d], cl[d], r))
  <2>1. CASE e = d
    BY <1>1, <1>11, <1>14, <2>1
  <2>2. CASE e # d
    BY <1>12, <1>14, <2>2
  <2> QED
    BY <2>1, <2>2
<1>15. Senders(cl, co2, wr2)
  <2>1. ASSUME NEW e \in Clients, NEW f \in Clients, Hears(co2[e], f) \/ cl[e].peer = f
        PROVE  cl[f].control # "none"
    BY <1>13, <2>1 DEF AllRoles, Senders
  <2> QED
    BY <2>1 DEF Senders, Signed
<1>16. PartnersKnow(pairs, cl, co2)
  BY <1>13 DEF AllRoles, PartnersKnow
<1>17. ASSUME open PROVE Faithful(pairs, cl, co2)
  <2>1. Faithful(pairs, cl, co)
    BY <1>17 DEF AllRoles
  <2>2. ASSUME NEW e \in Clients, NEW f \in Clients, Hears(co2[e], f) \/ cl[e].peer = f
        PROVE  <<e, f>> \in pairs
    BY <1>6, <1>13, <2>1, <2>2 DEF Faithful
  <2> QED
    BY <1>13, <2>1, <2>2 DEF Faithful
<1>18. ASSUME NEW e \in Clients, NEW f \in Clients, NEW r \in Roles
       PROVE  /\ ~(Will(co[e], cl[e], f, r) /\ Will(co[f], cl[f], e, r))
              /\ <<e, f>> \in pairs /\ ~IsGone(cl[e]) =>
                   ~(Ends(co[e], cl[e], r) /\ Will(co[f], cl[f], e, r))
              /\ <<e, f>> \in pairs /\ (open \/ (~IsGone(cl[e]) /\ ~IsGone(cl[f]))) =>
                   ~(Ends(co[e], cl[e], r) /\ Ends(co[f], cl[f], r))
  BY DEF AllRoles, Apart
<1>19. Apart(pairs, open, cl, co2)
  <2> SUFFICES ASSUME NEW e \in Clients, NEW f \in Clients, NEW r \in Roles
               PROVE  /\ ~(Will(co2[e], cl[e], f, r) /\ Will(co2[f], cl[f], e, r))
                      /\ <<e, f>> \in pairs /\ ~IsGone(cl[e]) =>
                           ~(Ends(co2[e], cl[e], r) /\ Will(co2[f], cl[f], e, r))
                      /\ <<e, f>> \in pairs /\ (open \/ (~IsGone(cl[e]) /\ ~IsGone(cl[f]))) =>
                           ~(Ends(co2[e], cl[e], r) /\ Ends(co2[f], cl[f], r))
    BY DEF Apart
  <2>1. ~(Will(co2[e], cl[e], f, r) /\ Will(co2[f], cl[f], e, r))
    <3>1. CASE Will(co[e], cl[e], f, r) /\ Will(co[f], cl[f], e, r)
      BY <1>18, <3>1
    <3>2. ASSUME e = d, f = c, Ends(co[d], cl[d], r), Will(co2[f], cl[f], e, r) PROVE FALSE
      <4>1. Will(co[c], cl[c], d, r)
        BY <1>6, <1>14, <3>2
      <4> QED
        BY <1>6, <1>18, <3>2, <4>1
    <3>3. ASSUME f = d, e = c, Ends(co[d], cl[d], r), Will(co2[e], cl[e], f, r) PROVE FALSE
      <4>1. Will(co[c], cl[c], d, r)
        BY <1>6, <1>14, <3>3
      <4> QED
        BY <1>6, <1>18, <3>3, <4>1
    <3> QED
      BY <1>14, <3>1, <3>2, <3>3
  <2>2. ASSUME <<e, f>> \in pairs, ~IsGone(cl[e]),
               Ends(co2[e], cl[e], r), Will(co2[f], cl[f], e, r)
        PROVE  FALSE
    <3>1. Ends(co[e], cl[e], r)
      BY <1>13, <2>2
    <3>2. CASE Will(co[f], cl[f], e, r)
      BY <1>18, <2>2, <3>1, <3>2
    <3>3. CASE f = d /\ e = c /\ Ends(co[d], cl[d], r)
      BY <1>18, <2>2, <3>1, <3>3
    <3> QED
      BY <1>14, <2>2, <3>2, <3>3
  <2>3. <<e, f>> \in pairs /\ (open \/ (~IsGone(cl[e]) /\ ~IsGone(cl[f]))) =>
          ~(Ends(co2[e], cl[e], r) /\ Ends(co2[f], cl[f], r))
    BY <1>13, <1>18
  <2> QED
    BY <2>1, <2>2, <2>3
<1> QED
  BY <1>13, <1>15, <1>16, <1>17, <1>19 DEF AllRoles

-----------------------------------------------------------------------------
(* Roles in a state of the system *)

\* What the server has yet to write to client c, with what it wrote, unless the
\* client is gone.
ToWrite(out, c) == {k \in DOMAIN out : out[k].to.tail = c}
Due(q, x, out, c) ==
  IF IsGone(x) THEN << >>
  ELSE IF ToWrite(out, c) = {} THEN q
  ELSE Append(q, out[CHOOSE k \in ToWrite(out, c) : TRUE].msg)

Coming == [c \in Clients |-> Due(down[c], client[c], server.out, c)]

\* The clients whose sessions are partners.
PairsOf(st) ==
  {p \in Clients \X Clients : \E i \in DOMAIN st.pairs : /\ st.sessions[i].tail = p[1]
                                                        /\ st.pairs[i].tail = p[2]}

Roled == AllRoles(PairsOf(server), NothingClosed, client, Coming, up)
GoneHearNothing == \A c \in Clients : Gone(c) => down[c] = << >>

\* There is at most one message to write to a client.
LEMMA DueNone ==
  ASSUME NEW q, NEW x, NEW out, NEW c, ToWrite(out, c) = {}
  PROVE  Due(q, x, out, c) = IF IsGone(x) THEN << >> ELSE q
BY DEF Due

\* If there is one, it comes last.
LEMMA DueOne ==
  ASSUME NEW q, NEW x, NEW out, NEW c, ~IsGone(x), NEW k \in ToWrite(out, c),
         \A j \in ToWrite(out, c) : j = k
  PROVE  Due(q, x, out, c) = Append(q, out[k].msg)
<1>1. (CHOOSE j \in ToWrite(out, c) : TRUE) = k
  OBVIOUS
<1> QED
  BY <1>1 DEF Due

\* To a client that is gone nothing comes.
LEMMA DueGone ==
  ASSUME NEW q, NEW x, NEW out, NEW c, IsGone(x)
  PROVE  Due(q, x, out, c) = << >>
BY DEF Due

\* The partners are a matching of the clients.
LEMMA PairsMatch ==
  ASSUME NEW st, InvOf(st)
  PROVE  Matching(PairsOf(st))
<1>1. Server!IsMatched(st) /\ Server!IsState(st) /\ OneSession(st)
  BY HoldsMean DEF InvOf
<1>2. ASSUME NEW i \in DOMAIN st.pairs
      PROVE  \E j \in DOMAIN st.pairs :
               /\ i # j /\ st.pairs[i] = st.sessions[j] /\ st.pairs[j] = st.sessions[i]
               /\ i \in DOMAIN st.sessions /\ j \in DOMAIN st.sessions
  BY <1>1 DEF Server!IsMatched
<1>3. ASSUME NEW i \in DOMAIN st.sessions, NEW j \in DOMAIN st.sessions,
             st.sessions[i].tail = st.sessions[j].tail
      PROVE  i = j
  <2>1. st.sessions[i] \in DOMAIN st.pending /\ st.sessions[j] \in DOMAIN st.pending
    BY <1>1 DEF Server!IsState
  <2>2. st.sessions[i] = st.sessions[j]
    BY <1>1, <1>3, <2>1 DEF OneSession
  <2>3. Server!GetId(st.sessions[i]) = i /\ Server!GetId(st.sessions[j]) = j
    BY <1>1 DEF Server!IsState
  <2> QED
    BY <2>2, <2>3
<1> SUFFICES ASSUME NEW c \in Clients, NEW d \in Clients, <<c, d>> \in PairsOf(st)
             PROVE  /\ c # d /\ <<d, c>> \in PairsOf(st)
                    /\ \A e \in Clients : <<c, e>> \in PairsOf(st) => e = d
  BY DEF Matching
<1>4. PICK i \in DOMAIN st.pairs : st.sessions[i].tail = c /\ st.pairs[i].tail = d
  BY DEF PairsOf
<1>5. PICK j \in DOMAIN st.pairs :
           /\ i # j /\ st.pairs[i] = st.sessions[j] /\ st.pairs[j] = st.sessions[i]
           /\ i \in DOMAIN st.sessions /\ j \in DOMAIN st.sessions
  BY <1>2
<1>6. c # d
  BY <1>3, <1>4, <1>5
<1>7. <<d, c>> \in PairsOf(st)
  BY <1>4, <1>5 DEF PairsOf
<1>8. ASSUME NEW e \in Clients, <<c, e>> \in PairsOf(st) PROVE e = d
  <2>1. PICK k \in DOMAIN st.pairs : st.sessions[k].tail = c /\ st.pairs[k].tail = e
    BY <1>8 DEF PairsOf
  <2>2. k \in DOMAIN st.sessions
    BY <1>2, <2>1
  <2>3. k = i
    BY <1>3, <1>4, <1>5, <2>1, <2>2
  <2> QED
    BY <1>4, <2>1, <2>3
<1> QED
  BY <1>6, <1>7, <1>8

\* Pairs are as they were, or some are gone.
LEMMA PairsKept ==
  ASSUME NEW st, NEW new, new.pairs = st.pairs,
         \A i \in DOMAIN st.pairs : new.sessions[i] = st.sessions[i]
  PROVE  PairsOf(new) = PairsOf(st)
BY DEF PairsOf

\* A close makes no pairs.
LEMMA PairsGo ==
  ASSUME NEW st, NEW new, InvOf(new), Closes(new, st)
  PROVE  \A p \in PairsOf(new) : p \in PairsOf(st)
<1>1. Server!IsMatched(new)
  BY HoldsMean DEF InvOf
<1> SUFFICES ASSUME NEW p \in PairsOf(new) PROVE p \in PairsOf(st)
  OBVIOUS
<1>2. PICK i \in DOMAIN new.pairs : new.sessions[i].tail = p[1] /\ new.pairs[i].tail = p[2]
  BY DEF PairsOf
<1>3. i \in DOMAIN new.sessions
  BY <1>1 DEF Server!IsMatched
<1>4. i \in DOMAIN st.pairs /\ new.pairs[i] = st.pairs[i] /\ new.sessions[i] = st.sessions[i]
  BY <1>2, <1>3 DEF Closes
<1>5. p \in Clients \X Clients
  BY DEF PairsOf
<1> QED
  BY <1>2, <1>4, <1>5 DEF PairsOf

\* A step of the server that pairs nobody.
LEMMA ServerPairs ==
  ASSUME Base, InvOf(server'),
         \/ SameMatching(server', server)
         \/ Closes(server', server)
         \/ \E c \in Clients : Opens(server', server, c)
  PROVE  /\ \A p \in PairsOf(server') : p \in PairsOf(server)
         /\ NothingClosed' => NothingClosed /\ PairsOf(server') = PairsOf(server)
<1>1. Server!IsMatched(server) /\ Server!IsState(server)
  BY HoldsMean DEF Base, ServerInv, InvOf
<1>2. CASE SameMatching(server', server)
  <2>1. PairsOf(server') = PairsOf(server)
    BY <1>2, PairsKept DEF SameMatching
  <2> QED
    BY <1>2, <2>1 DEF SameMatching, NothingClosed
<1>3. CASE Closes(server', server)
  <2>1. ~NothingClosed'
    <3>1. PICK s \in Server!Session : server'.closes[s] > 0
      BY <1>3 DEF Closes
    <3> QED
      BY <3>1 DEF NothingClosed
  <2> QED
    BY <1>3, <2>1, PairsGo
<1>4. CASE \E c \in Clients : Opens(server', server, c)
  <2>1. \A i \in DOMAIN server.pairs : server'.sessions[i] = server.sessions[i]
    BY <1>1, <1>4 DEF Opens, Server!IsMatched
  <2>2. PairsOf(server') = PairsOf(server)
    BY <1>4, <2>1, PairsKept DEF Opens
  <2> QED
    BY <1>4, <2>2 DEF Opens, NothingClosed
<1> QED
  BY <1>2, <1>3, <1>4

\* What is written stays signed when the server reads and when a process ends.
LEMMA SignedFewer ==
  ASSUME NEW wr, NEW cl, Signed(wr, cl), NEW wr2,
         \A d \in Clients : \A k \in DOMAIN wr2[d] :
           \E j \in DOMAIN wr[d] : wr2[d][k] = wr[d][j]
  PROVE  Signed(wr2, cl)
<1> SUFFICES ASSUME NEW d \in Clients, NEW k \in DOMAIN wr2[d],
                    wr2[d][k].type = "ExchangeSessionDescription"
             PROVE  From(wr2[d][k], d) /\ cl[d].control # "none"
  BY DEF Signed
<1>1. PICK j \in DOMAIN wr[d] : wr2[d][k] = wr[d][j]
  OBVIOUS
<1> QED
  BY <1>1 DEF Signed

\* A stream that grows by a signed message is signed.
LEMMA SignedMore ==
  ASSUME NEW wr \in [Clients -> Seq(Server!ClientMsgs)], NEW cl, Signed(wr, cl),
         NEW c \in Clients, NEW msg \in Server!ClientMsgs, NEW wr2,
         wr2 = [wr EXCEPT ![c] = Append(@, msg)],
         msg.type = "ExchangeSessionDescription" => From(msg, c) /\ cl[c].control # "none"
  PROVE  Signed(wr2, cl)
<1>1. PICK q, new : q = wr[c] /\ new = wr2[c]
  OBVIOUS
<1>2. q \in Seq(Server!ClientMsgs) /\ new = Append(q, msg)
  BY <1>1
<1>3. \A k \in DOMAIN new : \/ k \in DOMAIN q /\ new[k] = q[k]
                            \/ k = Len(q) + 1 /\ new[k] = msg
  BY <1>2, AppendElements
<1>4. \A d \in Clients : d # c => wr2[d] = wr[d]
  OBVIOUS
<1> SUFFICES ASSUME NEW d \in Clients, NEW k \in DOMAIN wr2[d],
                    wr2[d][k].type = "ExchangeSessionDescription"
             PROVE  From(wr2[d][k], d) /\ cl[d].control # "none"
  BY DEF Signed
<1>5. CASE d = c
  BY <1>1, <1>3, <1>5 DEF Signed
<1>6. CASE d # c
  BY <1>4, <1>6 DEF Signed
<1> QED
  BY <1>5, <1>6

\* The invariant says so of the present.
LEMMA SignedNow == Roled => Signed(up, client)
BY DEF Roled, AllRoles, Senders, Signed

\* A step in which nothing new comes to any client.
LEMMA QuietKeepsRoles ==
  ASSUME Roled,
         \A p \in PairsOf(server') : p \in PairsOf(server),
         NothingClosed' => NothingClosed /\ PairsOf(server') = PairsOf(server),
         \A c \in Clients : Lessens(Coming'[c], client'[c], Coming[c], client[c], NothingClosed'),
         NothingClosed' => \A c \in Clients :
                             client'[c].state \notin {"abortedByReply", "abortedByRequest"},
         Signed(up', client)
  PROVE  Roled'
<1>1. PICK pairs, pairs2, cl2, co2, wr2 :
           /\ pairs = PairsOf(server) /\ pairs2 = PairsOf(server')
           /\ cl2 = client' /\ co2 = Coming' /\ wr2 = up'
  OBVIOUS
<1>2. AllRoles(pairs, NothingClosed, client, Coming, up)
  BY <1>1 DEF Roled
<1>3. AllRoles(pairs2, NothingClosed', cl2, co2, wr2)
  BY <1>1, <1>2, OrdinaryKeepsRoles
<1> QED
  BY <1>1, <1>3 DEF Roled

\* What is to come is a sequence of messages of the server.
LEMMA ComingNow ==
  ASSUME Base, NEW c \in Clients
  PROVE  /\ Coming[c] = Due(down[c], client[c], server.out, c)
         /\ Coming'[c] = Due(down'[c], client'[c], server'.out, c)
         /\ Roled => Sound(Coming[c], client[c])
BY DEF Coming, Roled, AllRoles

\* Who is written to: nobody.
LEMMA NothingToWrite ==
  ASSUME NEW out, out = << >>, NEW c
  PROVE  ToWrite(out, c) = {}
BY DEF ToWrite

\* The client of one session.
LEMMA OneToWrite ==
  ASSUME NEW out, NEW s, NEW msg, out = << [to |-> s, msg |-> msg] >>, NEW c
  PROVE  /\ c # s.tail => ToWrite(out, c) = {}
         /\ c = s.tail => 1 \in ToWrite(out, c) /\ \A j \in ToWrite(out, c) : j = 1
         /\ out[1].msg = msg
BY DEF ToWrite

\* The clients of two sessions.
LEMMA TwoToWrite ==
  ASSUME NEW out, NEW s, NEW t, s.tail # t.tail, NEW m, NEW n,
         out = << [to |-> t, msg |-> m], [to |-> s, msg |-> n] >>, NEW c
  PROVE  /\ c # s.tail /\ c # t.tail => ToWrite(out, c) = {}
         /\ c = t.tail => 1 \in ToWrite(out, c) /\ \A j \in ToWrite(out, c) : j = 1
         /\ c = s.tail => 2 \in ToWrite(out, c) /\ \A j \in ToWrite(out, c) : j = 2
         /\ out[1].msg = m /\ out[2].msg = n
<1>1. /\ DOMAIN out = {1, 2} /\ out[1] = [to |-> t, msg |-> m]
      /\ out[2] = [to |-> s, msg |-> n]
  OBVIOUS
<1> QED
  BY <1>1 DEF ToWrite

\* A handler that writes nothing.
LEMMA NothingSaidKeepsRoles ==
  ASSUME Base, Roled, Idle, server'.out = << >>, client' = client, down' = down,
         \A p \in PairsOf(server') : p \in PairsOf(server),
         NothingClosed' => NothingClosed /\ PairsOf(server') = PairsOf(server),
         Signed(up', client)
  PROVE  Roled'
<1>1. ASSUME NEW c \in Clients
      PROVE  Lessens(Coming'[c], client'[c], Coming[c], client[c], NothingClosed')
  <2>1. ToWrite(server.out, c) = {} /\ ToWrite(server'.out, c) = {}
    BY NothingToWrite DEF Idle
  <2>2. Coming'[c] = Coming[c]
    BY <2>1, ComingNow, DueNone
  <2>3. SameClient(client[c], client[c]) /\ Sound(Coming[c], client[c])
    BY ComingNow DEF SameClient
  <2> QED
    BY <2>2, <2>3, SameLessens
<1>2. NothingClosed' => \A c \in Clients :
                          client'[c].state \notin {"abortedByReply", "abortedByRequest"}
  BY DEF Roled, AllRoles, Faithful
<1> QED
  BY <1>1, <1>2, QuietKeepsRoles

\* A handler that writes a message that is of no matter here.
LEMMA OneSaidKeepsRoles ==
  ASSUME Base, Roled, Idle, NEW s \in Server!Session, NEW msg \in Server!ServerMsgs, Plain(msg),
         server'.out = << [to |-> s, msg |-> msg] >>, SameMatching(server', server),
         InvOf(server'), down' = down,
         \A c \in Clients : /\ SameClient(client'[c], client[c])
                            /\ client'[c].state = client[c].state,
         Signed(up', client)
  PROVE  Roled'
<1>1. ASSUME NEW c \in Clients
      PROVE  Lessens(Coming'[c], client'[c], Coming[c], client[c], NothingClosed')
  <2>1. PICK q, q2, x, x2 : /\ q = Coming[c] /\ q2 = Coming'[c]
                            /\ x = client[c] /\ x2 = client'[c]
    OBVIOUS
  <2>2. Sound(q, x) /\ SameClient(x2, x)
    BY <2>1, ComingNow
  <2>3. ToWrite(server.out, c) = {}
    BY NothingToWrite DEF Idle
  <2>4. IsGone(x2) <=> IsGone(x)
    BY <2>2 DEF SameClient
  <2>5. CASE IsGone(x)
    <3>1. q = << >> /\ q2 = << >>
      BY <2>1, <2>4, <2>5, ComingNow, DueGone
    <3> QED
      BY <2>1, <2>2, <3>1, SameLessens
  <2>6. CASE ~IsGone(x) /\ c # s.tail
    <3>1. ToWrite(server'.out, c) = {}
      BY <2>6, OneToWrite
    <3>2. q2 = q
      BY <2>1, <2>3, <2>4, <2>6, <3>1, ComingNow, DueNone
    <3> QED
      BY <2>1, <2>2, <3>2, SameLessens
  <2>7. CASE ~IsGone(x) /\ c = s.tail
    <3>1. /\ 1 \in ToWrite(server'.out, c) /\ \A j \in ToWrite(server'.out, c) : j = 1
          /\ server'.out[1].msg = msg
      BY <2>7, OneToWrite
    <3>2. q2 = Append(down'[c], msg)
      BY <2>1, <2>4, <2>7, <3>1, ComingNow, DueOne
    <3>3. q = down[c]
      BY <2>1, <2>3, <2>7, ComingNow, DueNone
    <3>4. q2 = Append(q, msg)
      BY <3>2, <3>3
    <3> QED
      BY <2>1, <2>2, <3>4, PlainLessens
  <2> QED
    BY <2>5, <2>6, <2>7
<1>2. /\ \A p \in PairsOf(server') : p \in PairsOf(server)
      /\ NothingClosed' => NothingClosed /\ PairsOf(server') = PairsOf(server)
  BY ServerPairs
<1>3. NothingClosed' => \A c \in Clients :
                          client'[c].state \notin {"abortedByReply", "abortedByRequest"}
  BY <1>2 DEF Roled, AllRoles, Faithful
<1> QED
  BY <1>1, <1>2, <1>3, QuietKeepsRoles

\* A write that returns takes nothing from what is to come, nor adds to it.
LEMMA WriteKeepsRoles ==
  ASSUME Base, Roled, WriteReturns
  PROVE  Roled'
<1>1. /\ InvOf(server') /\ server.out # << >> /\ server'.out = Tail(server.out)
      /\ SameMatching(server', server) \/ Closes(server', server)
      /\ client' = client /\ up' = up
  BY WriteStep DEF Base, WriteReturns
<1>2. /\ \A p \in PairsOf(server') : p \in PairsOf(server)
      /\ NothingClosed' => NothingClosed /\ PairsOf(server') = PairsOf(server)
  BY <1>1, ServerPairs
<1>3. PICK q, q2, d : q = server.out /\ q2 = server'.out /\ d = Head(server.out).to.tail
  OBVIOUS
<1>4. /\ 1 \in DOMAIN q /\ Head(q) = q[1]
      /\ DOMAIN q2 = 1..Len(q) - 1 /\ DOMAIN q = 1..Len(q) /\ Len(q) \in Nat \ {0}
      /\ \A k \in DOMAIN q2 : k + 1 \in DOMAIN q /\ q2[k] = q[k + 1]
  <2>1. PICK S : S = [to : Server!Session, msg : Server!ServerMsgs]
    OBVIOUS
  <2>2. q \in Seq(S) /\ q # << >> /\ q2 = Tail(q)
    BY <1>1, <1>3, <2>1, NextOut DEF Base
  <2> QED
    BY <2>2, TailElements, QueueElements
<1>5. \A j, k \in DOMAIN q : q[j].to.tail = q[k].to.tail => j = k
  BY <1>3 DEF Base, ServerInv, InvOf, Addressed
<1>6. d = q[1].to.tail /\ 1 \in ToWrite(q, d) /\ \A j \in ToWrite(q, d) : j = 1
  BY <1>3, <1>4, <1>5 DEF ToWrite
<1>7. ToWrite(q2, d) = {}
  <2> SUFFICES ASSUME NEW k \in ToWrite(q2, d) PROVE FALSE
    OBVIOUS
  <2>1. k \in DOMAIN q2 /\ k + 1 \in ToWrite(q, d) /\ k \in Nat \ {0}
    BY <1>4 DEF ToWrite
  <2> QED
    BY <1>6, <2>1
<1>8. ASSUME NEW c \in Clients PROVE Coming'[c] = Coming[c]
  <2>1. CASE IsGone(client[c])
    BY <1>1, <2>1, ComingNow, DueGone
  <2>2. CASE ~IsGone(client[c]) /\ c = d
    <3>1. WriteTaken
      BY <1>3, <2>2 DEF WriteReturns, Gone, IsGone
    <3>2. down'[c] = Append(down[c], q[1].msg)
      BY <1>3, <1>4, <2>2, <3>1 DEF WriteTaken, Base, Typed
    <3>3. Coming'[c] = down'[c]
      BY <1>1, <1>3, <1>7, <2>2, ComingNow, DueNone
    <3>4. Coming[c] = Append(down[c], q[1].msg)
      BY <1>3, <1>6, <2>2, ComingNow, DueOne
    <3> QED
      BY <3>2, <3>3, <3>4
  <2>3. CASE ~IsGone(client[c]) /\ c # d
    <3>1. down'[c] = down[c]
      BY <1>3, <2>3 DEF WriteReturns, WriteTaken, Handle, Base, Typed
    <3>2. CASE ToWrite(q, c) = {}
      <4>1. ToWrite(q2, c) = {}
        BY <1>4, <3>2 DEF ToWrite
      <4> QED
        BY <1>1, <1>3, <2>3, <3>1, <3>2, <4>1, ComingNow, DueNone
    <3>3. CASE ToWrite(q, c) # {}
      <4>1. PICK k \in ToWrite(q, c) : TRUE
        BY <3>3
      <4>2. k \in DOMAIN q /\ q[k].to.tail = c /\ k # 1 /\ k \in Nat
        BY <1>4, <1>6, <2>3, <4>1 DEF ToWrite
      <4>3. k - 1 \in DOMAIN q2 /\ q2[k - 1] = q[k]
        BY <1>4, <4>2
      <4>4. \A j \in ToWrite(q, c) : j = k
        BY <1>5, <4>2 DEF ToWrite
      <4>5. ASSUME NEW j \in ToWrite(q2, c) PROVE j = k - 1
        <5>1. j + 1 \in ToWrite(q, c) /\ j \in Nat
          BY <1>4 DEF ToWrite
        <5>2. j + 1 = k
          BY <4>4, <5>1
        <5> QED
          BY <4>2, <5>1, <5>2
      <4>6. k - 1 \in ToWrite(q2, c)
        BY <4>2, <4>3 DEF ToWrite
      <4>7. Coming[c] = Append(down[c], q[k].msg)
        BY <1>3, <2>3, <4>1, <4>4, ComingNow, DueOne
      <4>8. Coming'[c] = Append(down'[c], q2[k - 1].msg)
        <5>1. PICK m : m = k - 1
          OBVIOUS
        <5>2. m \in ToWrite(server'.out, c) /\ \A j \in ToWrite(server'.out, c) : j = m
          BY <1>3, <4>5, <4>6, <5>1
        <5>3. ~IsGone(client'[c])
          BY <1>1, <2>3
        <5>4. Coming'[c] = Append(down'[c], server'.out[m].msg)
          BY <5>2, <5>3, ComingNow, DueOne
        <5> QED
          BY <1>3, <5>1, <5>4
      <4> QED
        BY <3>1, <4>3, <4>7, <4>8
    <3> QED
      BY <3>2, <3>3
  <2> QED
    BY <2>1, <2>2, <2>3
<1>9. ASSUME NEW c \in Clients
      PROVE  Lessens(Coming'[c], client'[c], Coming[c], client[c], NothingClosed')
  <2>1. SameClient(client[c], client[c]) /\ Sound(Coming[c], client[c])
    BY ComingNow DEF SameClient
  <2> QED
    BY <1>1, <1>8, <2>1, SameLessens
<1>10. NothingClosed' => \A c \in Clients :
                           client'[c].state \notin {"abortedByReply", "abortedByRequest"}
  BY <1>1, <1>2 DEF Roled, AllRoles, Faithful
<1>11. Signed(up', client)
  BY <1>1, SignedNow
<1> QED
  BY <1>2, <1>9, <1>10, <1>11, QuietKeepsRoles

\* What the server reads was signed.
LEMMA SignedRead ==
  ASSUME Base, Roled, NEW c \in Clients, up[c] # << >>, up' = [up EXCEPT ![c] = Tail(@)]
  PROVE  /\ Signed(up', client)
         /\ Head(up[c]) \in Server!ClientMsgs
         /\ Head(up[c]).type = "ExchangeSessionDescription" =>
              From(Head(up[c]), c) /\ client[c].control # "none"
<1>1. PICK q, new : q = up[c] /\ new = up'[c]
  OBVIOUS
<1>2. q \in Seq(Server!ClientMsgs) /\ q # << >> /\ new = Tail(q)
  BY <1>1 DEF Base, Typed
<1>3. /\ Head(q) \in Server!ClientMsgs /\ 1 \in DOMAIN q /\ Head(q) = q[1]
      /\ \A k \in DOMAIN new : k + 1 \in DOMAIN q /\ new[k] = q[k + 1]
  BY <1>2, TailElements
<1>4. \A d \in Clients : \A k \in DOMAIN up'[d] : \E j \in DOMAIN up[d] : up'[d][k] = up[d][j]
  BY <1>1, <1>3 DEF Base, Typed
<1> QED
  BY <1>1, <1>3, <1>4, SignedNow, SignedFewer DEF Signed

\* Two sessions are paired.
LEMMA MatchedKeepsRoles ==
  ASSUME Base, Numbered, Roled, Idle, NEW s \in DOMAIN server.pending, NEW msg,
         NEW t \in DOMAIN server.pending, Matched(server', server, s, msg, t),
         InvOf(server'), client' = client, down' = down, Signed(up', client)
  PROVE  Roled'
<1>1. Server!IsMatched(server) /\ Server!IsState(server) /\ OneSession(server)
  BY HoldsMean DEF Base, ServerInv, InvOf
<1>2. PICK c, d, i, j : /\ c = s.tail /\ d = t.tail
                        /\ i = Server!GetId(s) /\ j = Server!GetId(t)
  OBVIOUS
<1>3. /\ i # j /\ {i, j} \subseteq DOMAIN server.sessions \ DOMAIN server.pairs
      /\ server.sessions[j] = t
      /\ DOMAIN server'.pairs = DOMAIN server.pairs \cup {i, j}
      /\ \A k \in DOMAIN server.pairs : server'.pairs[k] = server.pairs[k]
      /\ server'.pairs[i] = t /\ server'.pairs[j] = server.sessions[i]
      /\ server'.sessions = server.sessions /\ server'.closes = server.closes
  BY <1>2 DEF Matched
<1>4. server.sessions[i] = s
  <2>1. s.serial # 0
    BY DEF Numbered
  <2>2. server.sessions[i] \in DOMAIN server.pending /\ Server!GetId(server.sessions[i]) = i
    BY <1>1, <1>3 DEF Server!IsState
  <2>3. server.sessions[i].serial # 0
    BY <2>2 DEF Numbered
  <2> QED
    BY <1>2, <2>1, <2>2, <2>3 DEF Server!GetId
<1>5. c \in Clients /\ d \in Clients /\ s \in Server!Session /\ t \in Server!Session
  BY <1>1, <1>2, FieldsOf DEF Server!Session
<1>6. c # d
  BY <1>1, <1>2, <1>3 DEF OneSession
\* Whoever has a session has it filed under one id.
<1>7. ASSUME NEW k \in DOMAIN server.sessions, server.sessions[k].tail \in {c, d}
      PROVE  k = i \/ k = j
  <2>1. server.sessions[k] \in DOMAIN server.pending /\ Server!GetId(server.sessions[k]) = k
    BY <1>1 DEF Server!IsState
  <2>2. server.sessions[k] = s \/ server.sessions[k] = t
    BY <1>1, <1>2, <1>7, <2>1 DEF OneSession
  <2> QED
    BY <1>2, <2>1, <2>2
<1>8. \A k \in DOMAIN server.pairs : \E l \in DOMAIN server.pairs :
        /\ server.pairs[k] = server.sessions[l]
        /\ k \in DOMAIN server.sessions /\ l \in DOMAIN server.sessions
  BY <1>1 DEF Server!IsMatched
<1>9. \A e \in Clients : /\ <<c, e>> \notin PairsOf(server) /\ <<e, c>> \notin PairsOf(server)
                         /\ <<d, e>> \notin PairsOf(server) /\ <<e, d>> \notin PairsOf(server)
  <2> SUFFICES ASSUME NEW e \in Clients, NEW f \in Clients, <<e, f>> \in PairsOf(server)
               PROVE  e \notin {c, d} /\ f \notin {c, d}
    BY <1>5
  <2>1. PICK k \in DOMAIN server.pairs : server.sessions[k].tail = e /\ server.pairs[k].tail = f
    BY DEF PairsOf
  <2>2. PICK l \in DOMAIN server.pairs :
             /\ server.pairs[k] = server.sessions[l]
             /\ k \in DOMAIN server.sessions /\ l \in DOMAIN server.sessions
    BY <1>8
  <2>3. k # i /\ k # j /\ l # i /\ l # j
    BY <1>3
  <2> QED
    BY <1>7, <2>1, <2>2, <2>3
<1>10. \A p \in PairsOf(server) : p \in PairsOf(server')
  BY <1>3 DEF PairsOf
<1>11. <<c, d>> \in PairsOf(server') /\ <<d, c>> \in PairsOf(server')
  <2>1. i \in DOMAIN server'.pairs /\ j \in DOMAIN server'.pairs
    BY <1>3
  <2>2. server'.sessions[i].tail = c /\ server'.pairs[i].tail = d
    BY <1>2, <1>3, <1>4
  <2>3. server'.sessions[j].tail = d /\ server'.pairs[j].tail = c
    BY <1>2, <1>3, <1>4
  <2> QED
    BY <1>5, <2>1, <2>2, <2>3 DEF PairsOf
<1>12. ASSUME NEW e \in Clients, NEW f \in Clients, <<e, f>> \in PairsOf(server')
       PROVE  <<e, f>> \in PairsOf(server) \/ (e = c /\ f = d) \/ (e = d /\ f = c)
  <2>1. PICK k \in DOMAIN server'.pairs : server'.sessions[k].tail = e /\ server'.pairs[k].tail = f
    BY <1>12 DEF PairsOf
  <2>2. CASE k \in DOMAIN server.pairs
    BY <1>3, <2>1, <2>2 DEF PairsOf
  <2>3. CASE k = i
    BY <1>2, <1>3, <1>4, <2>1, <2>3
  <2>4. CASE k = j
    BY <1>2, <1>3, <1>4, <2>1, <2>4
  <2> QED
    BY <1>3, <2>2, <2>3, <2>4
<1>13. PICK m, n : m = [type |-> "RemoteRequestConnection"] /\ n = Server!Reply(TRUE)
  OBVIOUS
<1>14. /\ server'.out = << [to |-> t, msg |-> m], [to |-> s, msg |-> n] >> /\ s.tail # t.tail
       /\ server.out = << >>
  BY <1>2, <1>6, <1>13 DEF Matched, Idle
<1>15. /\ m \in Server!ServerMsgs /\ Gives(m, "agent") /\ m.type # "ExchangeSessionDescription"
       /\ n \in Server!ServerMsgs /\ Gives(n, "controller")
       /\ n.type # "ExchangeSessionDescription"
  <2>1. m \in Server!ServerMsgs /\ Gives(m, "agent") /\ m.type # "ExchangeSessionDescription"
    BY <1>13, TypesOfMessages DEF Gives
  <2>2. n = [type |-> "ReplyConnection", success |-> TRUE]
    BY <1>13 DEF Server!Reply
  <2>3. n \in Server!ServerMsgs
    BY <1>13, TypesOfMessages
  <2> QED
    BY <2>1, <2>2, <2>3 DEF Gives
<1>16. Told(Coming'[c], Coming[c], client[c], "controller")
  <2>1. ToWrite(server.out, c) = {}
    BY <1>14, NothingToWrite
  <2>2. 2 \in ToWrite(server'.out, c) /\ (\A k \in ToWrite(server'.out, c) : k = 2)
        /\ server'.out[2].msg = n
    <3>1. PICK out : out = server'.out
      OBVIOUS
    <3>2. s.tail # t.tail /\ out = << [to |-> t, msg |-> m], [to |-> s, msg |-> n] >>
      BY <1>14, <3>1
    <3> QED
      BY <1>2, <3>1, <3>2, TwoToWrite
  <2>3. CASE IsGone(client[c])
    BY <1>5, <2>3, ComingNow, DueGone DEF Told
  <2>4. CASE ~IsGone(client[c])
    <3>1. Coming[c] = down[c]
      BY <1>5, <2>1, <2>4, ComingNow, DueNone
    <3>2. Coming'[c] = Append(down[c], n)
      BY <1>5, <2>2, <2>4, ComingNow, DueOne
    <3> QED
      BY <1>15, <2>4, <3>1, <3>2 DEF Told
  <2> QED
    BY <2>3, <2>4
<1>17. Told(Coming'[d], Coming[d], client[d], "agent")
  <2>1. ToWrite(server.out, d) = {}
    BY <1>14, NothingToWrite
  <2>2. 1 \in ToWrite(server'.out, d) /\ (\A k \in ToWrite(server'.out, d) : k = 1)
        /\ server'.out[1].msg = m
    <3>1. PICK out : out = server'.out
      OBVIOUS
    <3>2. s.tail # t.tail /\ out = << [to |-> t, msg |-> m], [to |-> s, msg |-> n] >>
      BY <1>14, <3>1
    <3> QED
      BY <1>2, <3>1, <3>2, TwoToWrite
  <2>3. CASE IsGone(client[d])
    BY <1>5, <2>3, ComingNow, DueGone DEF Told
  <2>4. CASE ~IsGone(client[d])
    <3>1. Coming[d] = down[d]
      BY <1>5, <2>1, <2>4, ComingNow, DueNone
    <3>2. Coming'[d] = Append(down[d], m)
      BY <1>5, <2>2, <2>4, ComingNow, DueOne
    <3> QED
      BY <1>15, <2>4, <3>1, <3>2 DEF Told
  <2> QED
    BY <2>3, <2>4
<1>18. ASSUME NEW e \in Clients, e # c, e # d PROVE Coming'[e] = Coming[e]
  <2>1. ToWrite(server.out, e) = {} /\ ToWrite(server'.out, e) = {}
    BY <1>2, <1>14, <1>18, NothingToWrite, TwoToWrite
  <2> QED
    BY <2>1, ComingNow, DueNone
<1>19. NothingClosed' <=> NothingClosed
  BY <1>3 DEF NothingClosed
<1>20. PICK pairs, pairs2, cl, co, co2, wr2 :
            /\ pairs = PairsOf(server) /\ pairs2 = PairsOf(server')
            /\ cl = client /\ co = Coming /\ co2 = Coming' /\ wr2 = up'
  OBVIOUS
<1>21. AllRoles(pairs, NothingClosed, cl, co, up)
  BY <1>20 DEF Roled
<1>22. AllRoles(pairs2, NothingClosed, cl, co2, wr2)
  <2>1. /\ \A e \in Clients : /\ <<c, e>> \notin pairs /\ <<e, c>> \notin pairs
                              /\ <<d, e>> \notin pairs /\ <<e, d>> \notin pairs
        /\ \A p \in pairs : p \in pairs2
        /\ <<c, d>> \in pairs2 /\ <<d, c>> \in pairs2
        /\ \A e, f \in Clients : <<e, f>> \in pairs2 =>
             <<e, f>> \in pairs \/ (e = c /\ f = d) \/ (e = d /\ f = c)
    BY <1>9, <1>10, <1>11, <1>12, <1>20
  <2>2. /\ Told(co2[c], co[c], cl[c], "controller")
        /\ Told(co2[d], co[d], cl[d], "agent")
        /\ \A e \in Clients : e = c \/ e = d \/ co2[e] = co[e]
        /\ Signed(wr2, cl)
    BY <1>16, <1>17, <1>18, <1>20
  <2> QED
    BY <1>5, <1>6, <1>21, <2>1, <2>2, MatchKeepsRoles
<1> QED
  BY <1>19, <1>20, <1>22 DEF Roled

\* A description or a candidate is handed to the partner.
LEMMA ForwardedKeepsRoles ==
  ASSUME Base, Numbered, Roled, Idle, NEW s \in DOMAIN server.pending,
         NEW msg \in Server!Exchanges,
         NEW t \in DOMAIN server.pending, Forwarded(server', server, s, msg, t),
         msg.type = "ExchangeSessionDescription" =>
           From(msg, s.tail) /\ client[s.tail].control # "none",
         InvOf(server'), client' = client, down' = down, Signed(up', client)
  PROVE  Roled'
<1>1. Server!IsMatched(server) /\ Server!IsState(server) /\ InvOf(server)
  BY HoldsMean DEF Base, ServerInv, InvOf
<1>2. /\ server'.out = << [to |-> t, msg |-> msg] >> /\ SameMatching(server', server)
      /\ Server!GetId(s) \in DOMAIN server.pairs /\ server.pairs[Server!GetId(s)] = t
      /\ server.out = << >>
  BY DEF Forwarded, Idle
<1>3. msg \in Server!ServerMsgs /\ t \in Server!Session /\ s \in Server!Session
  BY <1>1, FieldsOf DEF Server!ServerMsgs
<1>4. CASE msg.type # "ExchangeSessionDescription"
  <2>1. Plain(msg)
    BY <1>4 DEF Plain, GivesRole, Gives, Server!Exchanges
  <2>2. \A c \in Clients : SameClient(client'[c], client[c]) /\ client'[c].state = client[c].state
    BY DEF SameClient
  <2> QED
    BY <1>2, <1>3, <2>1, <2>2, OneSaidKeepsRoles
<1>5. CASE msg.type = "ExchangeSessionDescription"
  <2>1. PICK c, d, i : c = s.tail /\ d = t.tail /\ i = Server!GetId(s)
    OBVIOUS
  <2>2. c \in Clients /\ d \in Clients
    BY <1>3, <2>1 DEF Server!Session
  <2>3. server.sessions[i] = s
    <3>1. i \in DOMAIN server.sessions /\ s.serial # 0
      BY <1>1, <1>2, <2>1 DEF Server!IsMatched, Numbered
    <3>2. server.sessions[i] \in DOMAIN server.pending /\ Server!GetId(server.sessions[i]) = i
      BY <1>1, <3>1 DEF Server!IsState
    <3>3. server.sessions[i].serial # 0
      BY <3>2 DEF Numbered
    <3> QED
      BY <2>1, <3>1, <3>2, <3>3 DEF Server!GetId
  <2>4. <<c, d>> \in PairsOf(server)
    BY <1>2, <2>1, <2>2, <2>3 DEF PairsOf
  <2>5. PairsOf(server') = PairsOf(server) /\ (NothingClosed' <=> NothingClosed)
    <3>1. \A k \in DOMAIN server.pairs : server'.sessions[k] = server.sessions[k]
      BY <1>2 DEF SameMatching
    <3> QED
      BY <1>2, <3>1, PairsKept DEF SameMatching, NothingClosed
  <2>6. \A e \in Clients : ToWrite(server.out, e) = {}
    BY <1>2, NothingToWrite
  <2>7. \A e \in Clients : e # d => Coming'[e] = Coming[e]
    <3> SUFFICES ASSUME NEW e \in Clients, e # d PROVE Coming'[e] = Coming[e]
      OBVIOUS
    <3>1. ToWrite(server'.out, e) = {} /\ ToWrite(server.out, e) = {}
      BY <1>2, <2>1, <2>6, OneToWrite
    <3> QED
      BY <3>1, ComingNow, DueNone
  <2>8. CASE IsGone(client[d])
    <3>1. \A e \in Clients : Coming'[e] = Coming[e]
      BY <2>2, <2>7, <2>8, ComingNow, DueGone
    <3>2. ASSUME NEW e \in Clients
          PROVE  Lessens(Coming'[e], client'[e], Coming[e], client[e], NothingClosed')
      <4>1. SameClient(client[e], client[e]) /\ Sound(Coming[e], client[e])
        BY ComingNow DEF SameClient
      <4> QED
        BY <3>1, <4>1, SameLessens
    <3>3. NothingClosed' => \A e \in Clients :
                              client'[e].state \notin {"abortedByReply", "abortedByRequest"}
      BY <2>5 DEF Roled, AllRoles, Faithful
    <3> QED
      BY <2>5, <3>2, <3>3, QuietKeepsRoles
  <2>9. CASE ~IsGone(client[d])
    <3>1. 1 \in ToWrite(server'.out, d) /\ (\A k \in ToWrite(server'.out, d) : k = 1)
          /\ server'.out[1].msg = msg
      <4>1. PICK out : out = server'.out
        OBVIOUS
      <4>2. out = << [to |-> t, msg |-> msg] >>
        BY <1>2, <4>1
      <4>3. /\ 1 \in ToWrite(out, d)
            /\ \A k \in ToWrite(out, d) : k = 1
            /\ out[1].msg = msg
        BY <2>1, <4>2, OneToWrite
      <4> QED
        BY <4>1, <4>3
    <3>2. Coming'[d] = Append(down[d], msg)
      BY <2>2, <2>9, <3>1, ComingNow, DueOne
    <3>3. Coming[d] = down[d]
      BY <2>2, <2>6, <2>9, ComingNow, DueNone
    <3>4. PICK pairs, cl, co, co2, wr2 :
               /\ pairs = PairsOf(server) /\ cl = client /\ co = Coming
               /\ co2 = Coming' /\ wr2 = up'
      OBVIOUS
    <3>5. AllRoles(pairs, NothingClosed, cl, co, up) /\ Matching(pairs)
      BY <1>1, <3>4, PairsMatch DEF Roled
    <3>6. /\ <<c, d>> \in pairs /\ ~IsGone(cl[d])
          /\ From(msg, c) /\ cl[c].control # "none"
          /\ co2[d] = Append(co[d], msg)
          /\ \A e \in Clients : e = d \/ co2[e] = co[e]
          /\ Signed(wr2, cl)
      BY <1>5, <2>1, <2>4, <2>7, <2>9, <3>2, <3>3, <3>4
    <3>7. AllRoles(pairs, NothingClosed, cl, co2, wr2)
      BY <1>3, <2>2, <3>5, <3>6, ForwardKeepsRoles
    <3> QED
      BY <2>5, <3>4, <3>7 DEF Roled
  <2> QED
    BY <2>8, <2>9
<1> QED
  BY <1>4, <1>5

\* The handlers of the server.
LEMMA ServerKeepsRoles ==
  ASSUME Base, Numbered, Roled, NEW c \in Clients, ServerStep(c)
  PROVE  Roled'
<1>1. Signed(up, client)
  BY SignedNow
<1>2. ASSUME Idle, server'.out = << >>, client' = client, down' = down, Signed(up', client),
             InvOf(server'),
             \/ SameMatching(server', server)
             \/ Closes(server', server)
             \/ \E d \in Clients : Opens(server', server, d)
      PROVE  Roled'
  BY <1>2, ServerPairs, NothingSaidKeepsRoles
<1>3. CASE Accept(c)
  <2>1. InvOf(server') /\ Opens(server', server, c)
    BY <1>3, AcceptStep DEF Base
  <2> QED
    BY <1>1, <1>2, <1>3, <2>1 DEF Accept, Handle, Opens
<1>4. CASE Handshake(c)
  <2>1. PICK s \in SessionsOf(c) :
             /\ Idle /\ Server!Running(s, "handshake") /\ client[c].socket = "connecting"
             /\ client' = [client EXCEPT ![c].socket = "connected"]
             /\ server' = Server!OnHandshakeDone(Server!Completed(s), s, "ok")
             /\ down' = down /\ up' = up
    BY <1>4 DEF Handshake, Handle
  <2>2. PICK msg : msg = [type |-> "UpdateSessionId", id |-> Server!GetId(s)]
    OBVIOUS
  <2>3. /\ InvOf(server') /\ SameMatching(server', server)
        /\ server'.out = << [to |-> s, msg |-> msg] >>
    BY <2>1, <2>2, HandshakeStep DEF Base
  <2>4. s \in Server!Session
    BY HoldsMean, FieldsOf DEF SessionsOf, Base, ServerInv, InvOf
  <2>5. Plain(msg)
    BY <2>2 DEF Plain, GivesRole, Gives
  <2>6. msg \in Server!ServerMsgs
    <3>1. Server!GetId(s) \in Server!Ids
      BY <2>4 DEF Server!GetId, Server!Ids
    <3> QED
      BY <2>2, <3>1 DEF Server!ServerMsgs
  <2>7. \A d \in Clients : /\ SameClient(client'[d], client[d])
                           /\ client'[d].state = client[d].state
    BY <2>1 DEF SameClient, IsGone, Base, Typed, ClientRecord
  <2> QED
    BY <1>1, <2>1, <2>3, <2>4, <2>5, <2>6, <2>7, OneSaidKeepsRoles
<1>5. CASE ReadHeader(c)
  <2>1. InvOf(server') /\ SameMatching(server', server) /\ server'.out = << >>
    BY <1>5, HeaderStep DEF ReadHeader, Handle, Base
  <2> QED
    BY <1>1, <1>2, <1>5, <2>1 DEF ReadHeader, Handle
<1>6. CASE ReadBody(c)
  <2>1. PICK s \in SessionsOf(c) :
             /\ Idle /\ Server!Running(s, "body") /\ up[c] # << >>
             /\ server' = Server!OnBodyReadDone(Server!Completed(s), s, Head(up[c]), "ok", "ok")
             /\ down' = down /\ up' = [up EXCEPT ![c] = Tail(@)] /\ client' = client
    BY <1>6 DEF ReadBody, Handle
  <2>2. PICK msg : msg = Head(up[c])
    OBVIOUS
  <2>3. /\ Signed(up', client) /\ msg \in Server!ClientMsgs
        /\ msg.type = "ExchangeSessionDescription" =>
             From(msg, c) /\ client[c].control # "none"
    BY <2>1, <2>2, SignedRead
  <2>4. /\ InvOf(server')
        /\ \/ Ignored(server', server)
           \/ Refused(server', server, s, msg)
           \/ \E t \in DOMAIN server.pending : Matched(server', server, s, msg, t)
           \/ \E t \in DOMAIN server.pending : Forwarded(server', server, s, msg, t)
    BY <2>1, <2>2, <2>3, BodyStep DEF Base
  <2>5. s \in DOMAIN server.pending /\ s.tail = c
    BY DEF SessionsOf
  <2>6. CASE Ignored(server', server)
    BY <1>2, <2>1, <2>3, <2>4, <2>6 DEF Ignored
  <2>7. CASE Refused(server', server, s, msg)
    <3>1. PICK reply : reply = Server!Reply(FALSE)
      OBVIOUS
    <3>2. server'.out = << [to |-> s, msg |-> reply] >> /\ SameMatching(server', server)
      BY <2>7, <3>1 DEF Refused
    <3>3. reply = [type |-> "ReplyConnection", success |-> FALSE]
      BY <3>1 DEF Server!Reply
    <3>4. reply \in Server!ServerMsgs /\ Plain(reply)
      BY <3>3 DEF Server!ServerMsgs, Plain, GivesRole, Gives
    <3>5. s \in Server!Session
      BY <2>5, HoldsMean, FieldsOf DEF Base, ServerInv, InvOf
    <3>6. \A d \in Clients : SameClient(client'[d], client[d]) /\ client'[d].state = client[d].state
      BY <2>1 DEF SameClient
    <3> QED
      BY <2>1, <2>3, <2>4, <3>2, <3>4, <3>5, <3>6, OneSaidKeepsRoles
  <2>8. CASE \E t \in DOMAIN server.pending : Matched(server', server, s, msg, t)
    BY <2>1, <2>3, <2>4, <2>5, <2>8, MatchedKeepsRoles
  <2>9. CASE \E t \in DOMAIN server.pending : Forwarded(server', server, s, msg, t)
    <3>1. msg \in Server!Exchanges
      BY <2>9 DEF Forwarded
    <3> QED
      BY <2>1, <2>3, <2>4, <2>5, <2>9, <3>1, ForwardedKeepsRoles
  <2> QED
    BY <2>4, <2>6, <2>7, <2>8, <2>9
<1>7. CASE ReadEnd(c)
  <2>1. PICK s \in SessionsOf(c), fault \in Server!Faults :
             /\ Idle
             /\ server' = IF fault = "closing"
                          THEN Server!OnSessionClose(Server!Completed(s), s)
                          ELSE Server!Completed(s)
             /\ down' = down /\ up' = up /\ client' = client
    BY <1>7 DEF ReadEnd, Handle, Server!OnHandshakeError, Server!OnReadError, Server!Faults
  <2>2. InvOf(server') /\ server'.out = << >>
        /\ (SameMatching(server', server) \/ Closes(server', server))
    BY <2>1, EndStep DEF Base
  <2> QED
    BY <1>1, <1>2, <2>1, <2>2
<1> QED
  BY <1>3, <1>4, <1>5, <1>6, <1>7 DEF ServerStep

\* What is taken first is taken also when more is added at the end.
LEMMA TailOfAppend ==
  ASSUME NEW S, NEW q \in Seq(S), q # << >>, NEW e \in S
  PROVE  /\ Append(q, e) # << >> /\ Head(Append(q, e)) = Head(q)
         /\ Tail(Append(q, e)) = Append(Tail(q), e)
<1>1. PICK a, b : a = Tail(Append(q, e)) /\ b = Append(Tail(q), e)
  OBVIOUS
<1>2. /\ a \in Seq(S) /\ b \in Seq(S) /\ Len(a) = Len(q) /\ Len(b) = Len(q)
      /\ \A k \in 1..Len(q) : a[k] = b[k]
  BY <1>1
<1>3. a = b
  BY <1>2
<1> QED
  BY <1>1, <1>3

\* A client takes a message.
LEMMA TakingKeepsRoles ==
  ASSUME Base, Roled, NEW c \in Clients, ~IsGone(client[c]), down[c] # << >>, Consume(c),
         Takings(Head(down[c]), client'[c], client[c]),
         client'[c].state = client[c].state,
         \A d \in Clients : d # c => client'[d] = client[d]
  PROVE  Roled'
<1>1. /\ server' = server /\ up' = up /\ down' = [down EXCEPT ![c] = Tail(@)]
      /\ down \in [Clients -> Seq(Server!ServerMsgs)]
  BY DEF Consume, Base, Typed
<1>2. PICK q, x, x2 : q = Coming[c] /\ x = client[c] /\ x2 = client'[c]
  OBVIOUS
<1>3. Sound(q, x) /\ ~IsGone(x2) /\ Takings(Head(down[c]), x2, x)
  BY <1>2, ComingNow DEF Takings
<1>4. q # << >> /\ Head(q) = Head(down[c]) /\ Coming'[c] = Tail(q)
  <2>1. CASE ToWrite(server.out, c) = {}
    BY <1>1, <1>2, <1>3, <2>1, ComingNow, DueNone
  <2>2. CASE ToWrite(server.out, c) # {}
    <3>1. PICK k \in ToWrite(server.out, c) : TRUE
      BY <2>2
    <3>2. \A j \in ToWrite(server.out, c) : j = k
      BY <3>1 DEF ToWrite, Base, ServerInv, InvOf, Addressed
    <3>3. PICK msg : msg = server.out[k].msg
      OBVIOUS
    <3>4. msg \in Server!ServerMsgs
      <4>1. PICK o, S : o = server.out /\ S = [to : Server!Session, msg : Server!ServerMsgs]
        OBVIOUS
      <4>2. o \in Seq(S) /\ k \in DOMAIN o
        BY <3>1, <4>1, HoldsMean DEF ToWrite, Base, ServerInv, InvOf, Server!IsState
      <4>3. o[k] \in S
        BY <4>2
      <4> QED
        BY <3>3, <4>1, <4>3
    <3>5. q = Append(down[c], msg)
      BY <1>2, <3>1, <3>2, <3>3, ComingNow, DueOne
    <3>6. Coming'[c] = Append(down'[c], msg)
      <4>1. k \in ToWrite(server'.out, c) /\ \A j \in ToWrite(server'.out, c) : j = k
        BY <1>1, <3>1, <3>2
      <4>2. ~IsGone(client'[c])
        BY <1>2, <1>3
      <4>3. Coming'[c] = Append(down'[c], server'.out[k].msg)
        BY <4>1, <4>2, ComingNow, DueOne
      <4> QED
        BY <1>1, <3>3, <4>3
    <3>7. PICK r : r = down[c]
      OBVIOUS
    <3>8. r \in Seq(Server!ServerMsgs) /\ r # << >> /\ down'[c] = Tail(r)
      BY <1>1, <3>7
    <3>9. /\ Append(r, msg) # << >> /\ Head(Append(r, msg)) = Head(r)
          /\ Tail(Append(r, msg)) = Append(Tail(r), msg)
      BY <3>4, <3>8, TailOfAppend
    <3> QED
      BY <3>5, <3>6, <3>7, <3>8, <3>9
  <2> QED
    BY <2>1, <2>2
<1>5. ASSUME NEW d \in Clients
      PROVE  Lessens(Coming'[d], client'[d], Coming[d], client[d], NothingClosed')
  <2>1. CASE d = c
    <3>1. Lessens(Coming'[c], x2, q, x, NothingClosed')
      BY <1>3, <1>4, TakeLessens
    <3> QED
      BY <1>2, <2>1, <3>1
  <2>2. CASE d # c
    <3>1. down'[d] = down[d] /\ client'[d] = client[d]
      BY <1>1, <2>2
    <3>2. Coming'[d] = Coming[d]
      BY <1>1, <3>1, ComingNow
    <3>3. SameClient(client[d], client[d]) /\ Sound(Coming[d], client[d])
      BY ComingNow DEF SameClient
    <3> QED
      BY <3>1, <3>2, <3>3, SameLessens
  <2> QED
    BY <2>1, <2>2
<1>6. /\ \A p \in PairsOf(server') : p \in PairsOf(server)
      /\ NothingClosed' => NothingClosed /\ PairsOf(server') = PairsOf(server)
  BY <1>1 DEF NothingClosed
<1>7. NothingClosed' => \A d \in Clients :
                          client'[d].state \notin {"abortedByReply", "abortedByRequest"}
  BY <1>6 DEF Roled, AllRoles, Faithful
<1> QED
  BY <1>1, <1>5, <1>6, <1>7, SignedNow, QuietKeepsRoles

\* A client goes, or leaves the match server, and takes no more messages.
LEMMA LeavingKeepsRoles ==
  ASSUME Base, Roled, NEW c \in Clients, server' = server, Signed(up', client),
         down' = [down EXCEPT ![c] = << >>],
         IsGone(client'[c]), client'[c].control = client[c].control,
         client'[c].peer = client[c].peer, client'[c].local => client[c].local,
         NothingClosed => client'[c].state \notin {"abortedByReply", "abortedByRequest"},
         \A d \in Clients : d # c => client'[d] = client[d]
  PROVE  Roled'
<1>1. ASSUME NEW d \in Clients
      PROVE  Lessens(Coming'[d], client'[d], Coming[d], client[d], NothingClosed')
  <2>1. CASE d = c
    <3>1. Coming'[c] = << >>
      BY ComingNow, DueGone
    <3>2. PICK q, x, x2 : q = Coming[c] /\ x = client[c] /\ x2 = client'[c]
      OBVIOUS
    <3>3. Sound(q, x)
      BY <3>2, ComingNow
    <3>4. NothingClosed' => OnlyRole(q, x)
      BY <3>2 DEF NothingClosed, Roled, AllRoles, Faithful
    <3>5. Lessens(<< >>, x2, q, x, NothingClosed')
      BY <3>2, <3>3, <3>4, LeaveLessens
    <3> QED
      BY <2>1, <3>1, <3>2, <3>5
  <2>2. CASE d # c
    <3>1. down'[d] = down[d] /\ client'[d] = client[d]
      BY <2>2 DEF Base, Typed
    <3>2. Coming'[d] = Coming[d]
      BY <3>1, ComingNow
    <3>3. SameClient(client[d], client[d]) /\ Sound(Coming[d], client[d])
      BY ComingNow DEF SameClient
    <3> QED
      BY <3>1, <3>2, <3>3, SameLessens
  <2> QED
    BY <2>1, <2>2
<1>2. /\ \A p \in PairsOf(server') : p \in PairsOf(server)
      /\ NothingClosed' => NothingClosed /\ PairsOf(server') = PairsOf(server)
  BY DEF NothingClosed
<1>3. NothingClosed' => \A d \in Clients :
                          client'[d].state \notin {"abortedByReply", "abortedByRequest"}
  BY <1>2 DEF Roled, AllRoles, Faithful
<1> QED
  BY <1>1, <1>2, <1>3, QuietKeepsRoles

\* A client does something that is of no matter here.
LEMMA SameKeepsRoles ==
  ASSUME Base, Roled, NEW c \in Clients, server' = server, Signed(up', client), down' = down,
         SameClient(client'[c], client[c]),
         client'[c].state \notin {"abortedByReply", "abortedByRequest"},
         \A d \in Clients : d # c => client'[d] = client[d]
  PROVE  Roled'
<1>1. ASSUME NEW d \in Clients
      PROVE  Lessens(Coming'[d], client'[d], Coming[d], client[d], NothingClosed')
  <2>1. SameClient(client'[d], client[d]) /\ Sound(Coming[d], client[d])
    BY ComingNow DEF SameClient
  <2>2. IsGone(client'[d]) <=> IsGone(client[d])
    BY <2>1 DEF SameClient
  <2>3. Coming'[d] = Coming[d]
    BY <2>2, ComingNow DEF Due
  <2> QED
    BY <2>1, <2>3, SameLessens
<1>2. /\ \A p \in PairsOf(server') : p \in PairsOf(server)
      /\ NothingClosed' => NothingClosed /\ PairsOf(server') = PairsOf(server)
  BY DEF NothingClosed
<1>3. NothingClosed' => \A d \in Clients :
                          client'[d].state \notin {"abortedByReply", "abortedByRequest"}
  BY <1>2 DEF Roled, AllRoles, Faithful
<1> QED
  BY <1>1, <1>2, <1>3, QuietKeepsRoles

\* The end of a process.
LEMMA ExitKeepsRoles ==
  ASSUME Base, Roled, NEW c \in Clients, NEW state, NEW socket \in {"closed", "lost"},
         Exit(c, state, socket), server' = server,
         NothingClosed => state \notin {"abortedByReply", "abortedByRequest"}
  PROVE  Roled'
<1>1. /\ IsGone(client'[c]) /\ client'[c].control = client[c].control
      /\ client'[c].peer = client[c].peer /\ client'[c].local = client[c].local
      /\ client'[c].state = state
      /\ \A d \in Clients : d # c => client'[d] = client[d]
  BY DEF Exit, IsGone, Base, Typed, ClientRecord
<1>2. Signed(up', client)
  <2>1. PICK q, new : q = up[c] /\ new = up'[c]
    OBVIOUS
  <2>2. PICK n \in 0..Len(q) : new = SubSeq(q, 1, n)
    BY <2>1 DEF Exit, Base, Typed
  <2>3. q \in Seq(Server!ClientMsgs)
    BY <2>1 DEF Base, Typed
  <2>4. new \in Seq(Server!ClientMsgs) /\ Len(new) = n /\ \A k \in 1..n : new[k] = q[k]
    BY <2>2, <2>3
  <2>5. DOMAIN new = 1..n /\ \A k \in 1..n : k \in DOMAIN q
    BY <2>2, <2>3, <2>4
  <2>6. \A d \in Clients : d # c => up'[d] = up[d]
    BY DEF Exit, Base, Typed
  <2>7. \A d \in Clients : \A k \in DOMAIN up'[d] : \E j \in DOMAIN up[d] : up'[d][k] = up[d][j]
    BY <2>1, <2>4, <2>5, <2>6
  <2> QED
    BY <2>7, SignedNow DEF Signed
<1> QED
  BY <1>1, <1>2, LeavingKeepsRoles DEF Exit

\* A client takes a message from its stream.
LEMMA StreamKeepsRoles ==
  ASSUME Base, Roled, NEW c \in Clients, StreamStep(c)
  PROVE  Roled'
<1>1. client \in [Clients -> ClientRecord] /\ client[c] \in ClientRecord
  BY DEF Base, Typed
<1>2. /\ ~IsGone(client[c]) /\ down[c] # << >> /\ Head(down[c]) \in Server!ServerMsgs
      /\ client[c].state = "running"
  BY DEF StreamStep, UpdateSessionId, OnRemoteRequestConnection, OnReplyConnection,
         OnRemoteSdpReceived, Receives, IsRunning, IsGone, Base, Typed
<1>3. PICK h, x : h = Head(down[c]) /\ x = client[c]
  OBVIOUS
<1>4. ASSUME NEW x2, client' = [client EXCEPT ![c] = x2], Takings(h, x2, x),
             x2.state = x.state, Consume(c)
      PROVE  Roled'
  <2>1. client'[c] = x2 /\ \A d \in Clients : d # c => client'[d] = client[d]
    BY <1>1, <1>4
  <2> QED
    BY <1>2, <1>3, <1>4, <2>1, TakingKeepsRoles
<1>5. ASSUME GivesRole(h), x.control # "none" PROVE ~NothingClosed
  <2>1. PICK q : q = Coming[c]
    OBVIOUS
  <2>2. q = down[c] \/ \E msg : q = Append(down[c], msg)
    BY <1>2, <2>1, ComingNow DEF Due
  <2>3. Sound(q, x) /\ q \in Messages
    BY <1>3, <2>1, ComingNow DEF Sound
  <2>4. down[c] \in Seq(Server!ServerMsgs)
    BY DEF Base, Typed
  <2>5. 1 \in DOMAIN q /\ q[1] = h
    BY <1>2, <1>3, <2>2, <2>4
  <2>6. 1 \in RolesIn(q)
    BY <1>5, <2>5 DEF RolesIn
  <2>7. ~OnlyRole(q, x)
    BY <1>5, <2>6 DEF OnlyRole
  <2> QED
    BY <1>3, <2>1, <2>7 DEF Roled, AllRoles, Faithful
<1>6. CASE UpdateSessionId(c)
  <2>1. PICK x2 : x2 = [x EXCEPT !.id = h.id]
    OBVIOUS
  <2>2. client' = [client EXCEPT ![c] = x2] /\ h.type = "UpdateSessionId" /\ Consume(c)
    BY <1>1, <1>3, <1>6, <2>1 DEF UpdateSessionId, Receives
  <2>3. Takings(h, x2, x) /\ x2.state = x.state
    BY <1>1, <1>3, <2>1, <2>2
    DEF Takings, Plain, GivesRole, Gives, IsGone, ClientRecord
  <2> QED
    BY <1>4, <2>2, <2>3
<1>7. CASE OnRemoteRequestConnection(c)
  <2>1. h.type = "RemoteRequestConnection" /\ Gives(h, "agent") /\ GivesRole(h)
    BY <1>3, <1>7 DEF OnRemoteRequestConnection, Receives, GivesRole, Gives, Roles
  <2>2. CASE x.control = "none"
    <3>1. PICK x2 : x2 = [x EXCEPT !.control = "agent", !.local = TRUE]
      OBVIOUS
    <3>2. client' = [client EXCEPT ![c] = x2] /\ Consume(c)
      BY <1>1, <1>3, <1>7, <2>2, <3>1 DEF OnRemoteRequestConnection
    <3>3. Takings(h, x2, x) /\ x2.state = x.state
      BY <1>1, <1>3, <2>1, <2>2, <3>1 DEF Takings, IsGone, Roles, ClientRecord
    <3> QED
      BY <1>4, <3>2, <3>3
  <2>3. CASE x.control # "none"
    <3>1. Exit(c, "abortedByRequest", "closed") /\ server' = server
      BY <1>3, <1>7, <2>3 DEF OnRemoteRequestConnection
    <3> QED
      BY <1>5, <2>1, <2>3, <3>1, ExitKeepsRoles
  <2> QED
    BY <2>2, <2>3
<1>8. CASE OnReplyConnection(c)
  <2>1. /\ h.type = "ReplyConnection"
        /\ \/ ~h.success /\ client' = [client EXCEPT ![c].button = TRUE] /\ Consume(c)
           \/ /\ h.success /\ x.control = "none"
              /\ client' = [client EXCEPT ![c].control = "controller"] /\ Consume(c)
           \/ /\ h.success /\ x.control # "none"
              /\ Exit(c, "abortedByReply", "closed") /\ server' = server
    BY <1>3, <1>8 DEF OnReplyConnection, Receives
  <2>2. CASE ~h.success /\ client' = [client EXCEPT ![c].button = TRUE] /\ Consume(c)
    <3>1. PICK x2 : x2 = [x EXCEPT !.button = TRUE]
      OBVIOUS
    <3>2. client' = [client EXCEPT ![c] = x2]
      BY <1>1, <1>3, <2>2, <3>1
    <3>3. Plain(h)
      BY <2>1, <2>2 DEF Plain, GivesRole, Gives
    <3>4. Takings(h, x2, x) /\ x2.state = x.state
      BY <1>1, <1>3, <3>1, <3>3 DEF Takings, IsGone, ClientRecord
    <3> QED
      BY <1>4, <2>2, <3>2, <3>4
  <2>3. CASE /\ h.success /\ x.control = "none"
             /\ client' = [client EXCEPT ![c].control = "controller"] /\ Consume(c)
    <3>1. PICK x2 : x2 = [x EXCEPT !.control = "controller"]
      OBVIOUS
    <3>2. client' = [client EXCEPT ![c] = x2]
      BY <1>1, <1>3, <2>3, <3>1
    <3>3. Gives(h, "controller")
      BY <2>1, <2>3 DEF Gives
    <3>4. Takings(h, x2, x) /\ x2.state = x.state
      BY <1>1, <1>3, <2>3, <3>1, <3>3 DEF Takings, IsGone, Roles, ClientRecord
    <3> QED
      BY <1>4, <2>3, <3>2, <3>4
  <2>4. CASE /\ h.success /\ x.control # "none"
             /\ Exit(c, "abortedByReply", "closed") /\ server' = server
    <3>1. GivesRole(h)
      BY <2>1, <2>4 DEF GivesRole, Gives, Roles
    <3> QED
      BY <1>5, <2>4, <3>1, ExitKeepsRoles
  <2> QED
    BY <2>1, <2>2, <2>3, <2>4
<1>9. CASE OnRemoteSdpReceived(c)
  <2>1. h.type = "ExchangeSessionDescription" /\ Consume(c)
    BY <1>3, <1>9 DEF OnRemoteSdpReceived, Receives
  <2>2. CASE x.control = "none"
    <3>1. client' = [client EXCEPT ![c] = x]
      BY <1>1, <1>3, <1>9, <2>2 DEF OnRemoteSdpReceived
    <3>2. Takings(h, x, x)
      BY <2>1, <2>2 DEF Takings
    <3> QED
      BY <1>4, <2>1, <3>1, <3>2
  <2>3. CASE x.control # "none"
    <3>1. PICK x2 : x2 = [x EXCEPT !.peer = h.data.from,
                                   !.local = @ \/ h.data.sdp_type = "offer"]
      OBVIOUS
    <3>2. client' = [client EXCEPT ![c] = x2]
      BY <1>1, <1>3, <1>9, <2>3, <3>1 DEF OnRemoteSdpReceived
    <3>3. Takings(h, x2, x) /\ x2.state = x.state
      BY <1>1, <1>3, <2>1, <2>3, <3>1 DEF Takings, IsGone, ClientRecord
    <3> QED
      BY <1>4, <2>1, <3>2, <3>3
  <2> QED
    BY <2>2, <2>3
<1> QED
  BY <1>6, <1>7, <1>8, <1>9 DEF StreamStep

\* The other events of a client.
LEMMA OwnKeepsRoles ==
  ASSUME Base, Roled, NEW c \in Clients,
         \/ OnRtcSetLocalSessionSuccess(c)
         \/ OnPeerConnected(c)
         \/ OnPeerDisconnected(c)
         \/ \E id \in KnownIds : ConnectToSession(c, id)
         \/ Hang(c)
         \/ Quit(c)
         \/ OnConnectionError(c)
  PROVE  Roled'
<1>1. /\ client \in [Clients -> ClientRecord] /\ client[c] \in ClientRecord
      /\ up \in [Clients -> Seq(Server!ClientMsgs)]
  BY DEF Base, Typed
<1>2. Signed(up, client)
  BY SignedNow
<1>3. CASE OnRtcSetLocalSessionSuccess(c)
  <2>1. PICK msg : msg = [type |-> "ExchangeSessionDescription",
                          data |-> [sdp_type |-> IF client[c].control = "agent"
                                                 THEN "offer" ELSE "answer",
                                    from |-> c]]
    OBVIOUS
  <2>2. msg \in Server!ClientMsgs /\ From(msg, c)
    BY <2>1 DEF Server!ClientMsgs, Server!Exchanges, Descriptions, From
  <2>3. /\ up' = [up EXCEPT ![c] = Append(@, msg)] /\ down' = down /\ server' = server
        /\ client' = [client EXCEPT ![c].local = FALSE]
        /\ client[c].local /\ client[c].state = "running"
    BY <1>3, <2>1 DEF OnRtcSetLocalSessionSuccess, SendMsg, IsRunning
  <2>4. client[c].control # "none"
    BY <2>3, ComingNow DEF Sound
  <2>5. Signed(up', client)
    BY <1>1, <1>2, <2>2, <2>3, <2>4, SignedMore
  <2>6. /\ SameClient(client'[c], client[c]) /\ client'[c].state = "running"
        /\ \A d \in Clients : d # c => client'[d] = client[d]
    BY <1>1, <2>3 DEF SameClient, IsGone, ClientRecord
  <2> QED
    BY <2>3, <2>5, <2>6, SameKeepsRoles
<1>4. CASE OnPeerConnected(c)
  <2>1. /\ server' = server /\ up' = up /\ down' = [down EXCEPT ![c] = << >>]
        /\ IsGone(client'[c]) /\ client'[c].control = client[c].control
        /\ client'[c].peer = client[c].peer /\ client'[c].local = client[c].local
        /\ client'[c].state = "running"
        /\ \A d \in Clients : d # c => client'[d] = client[d]
    BY <1>1, <1>4 DEF OnPeerConnected, IsRunning, IsGone, ClientRecord
  <2> QED
    BY <1>2, <2>1, LeavingKeepsRoles
<1>5. CASE OnPeerDisconnected(c) \/ Hang(c)
  <2>1. PICK state \in {"quit", "hung"} : client' = [client EXCEPT ![c].state = state]
    BY <1>5 DEF OnPeerDisconnected, Hang
  <2>2. server' = server /\ up' = up /\ down' = down
    BY <1>5 DEF OnPeerDisconnected, Hang
  <2>3. /\ SameClient(client'[c], client[c]) /\ client'[c].state = state
        /\ \A d \in Clients : d # c => client'[d] = client[d]
    BY <1>1, <2>1 DEF SameClient, IsGone, ClientRecord
  <2> QED
    BY <1>2, <2>2, <2>3, SameKeepsRoles
<1>6. CASE \E id \in KnownIds : ConnectToSession(c, id)
  <2>1. PICK id \in KnownIds : ConnectToSession(c, id)
    BY <1>6
  <2>2. PICK msg : msg = [type |-> "RequestConnection", id |-> id]
    OBVIOUS
  <2>3. msg \in Server!ClientMsgs /\ msg.type # "ExchangeSessionDescription"
    <3>1. id \in Server!Ids
      BY <1>1 DEF KnownIds, ClientRecord, Server!Ids
    <3> QED
      BY <2>2, <3>1 DEF Server!ClientMsgs, Server!Requests
  <2>4. /\ up' = [up EXCEPT ![c] = Append(@, msg)] /\ down' = down /\ server' = server
        /\ client' = [client EXCEPT ![c].button = FALSE] /\ client[c].state = "running"
    BY <2>1, <2>2 DEF ConnectToSession, SendMsg, IsRunning
  <2>5. Signed(up', client)
    BY <1>1, <1>2, <2>3, <2>4, SignedMore
  <2>6. /\ SameClient(client'[c], client[c]) /\ client'[c].state = "running"
        /\ \A d \in Clients : d # c => client'[d] = client[d]
    BY <1>1, <2>4 DEF SameClient, IsGone, ClientRecord
  <2> QED
    BY <2>4, <2>5, <2>6, SameKeepsRoles
<1>7. CASE Quit(c)
  <2>1. Exit(c, "quit", "closed") /\ server' = server
    BY <1>7 DEF Quit
  <2> QED
    BY <2>1, ExitKeepsRoles
<1>8. CASE OnConnectionError(c)
  <2>1. Exit(c, "quit", "lost") /\ server' = server
    BY <1>8 DEF OnConnectionError
  <2> QED
    BY <2>1, ExitKeepsRoles
<1> QED
  BY <1>3, <1>4, <1>5, <1>6, <1>7, <1>8

-----------------------------------------------------------------------------
(* The refinement *)

\* The state of the matchmaking service is that of the server.
LEMMA ServesNow ==
  /\ Server!Online(server) = Srv!Online(server)
  /\ Server!Partner(server) = Srv!Partner(server)
  /\ Server!Online(server)' = Srv!Online(server')
  /\ Server!Partner(server)' = Srv!Partner(server')
<1>1. \A st : Server!Online(st) = Srv!Online(st)
  BY SameMaps DEF Server!Online, Srv!Online
<1>2. \A st : Server!Partner(st) = Srv!Partner(st)
  BY SameSets DEF Server!Partner, Srv!Partner
<1>3. Server!Online(server)' = Server!Online(server')
  BY DEF Server!Online, Server!Live
<1>4. Server!Partner(server)' = Server!Partner(server')
  BY DEF Server!Partner
<1> QED
  BY <1>1, <1>2, <1>3, <1>4

\* A close is a departure.
LEMMA ClosesRefine ==
  ASSUME Base, server.running, Closes(server', server)
  PROVE  [Server!Promise!Next]_(Server!Promise!vars)
<1>1. PICK a, p, S : /\ a = Server!Online(server) /\ p = Server!Partner(server)
                     /\ S \in SUBSET a
                     /\ Server!Online(server)' = a \ S
                     /\ Server!Partner(server)' = Srv!Without(p, S)
  BY ServesNow DEF Closes, Srv!Departs
<1>2. CASE S = {}
  <2>1. Srv!Without(p, {}) = p
    BY <1>1, Assumed, ServesNow, Srv!NobodyLeaves DEF Base, ServerInv, InvOf, Srv!Holds, Srv!Consistent
  <2> QED
    BY <1>1, <1>2, <2>1 DEF Server!Promise!vars
<1>3. CASE S # {}
  <2>1. Server!Promise!Leave(S)
    BY <1>1, <1>3 DEF Server!Promise!Leave, Srv!Without
  <2> QED
    BY <1>1, <2>1 DEF Server!Promise!Next
<1> QED
  BY <1>2, <1>3

\* A handler that changes neither map does nothing.
LEMMA SameRefines ==
  ASSUME SameMatching(server', server)
  PROVE  [Server!Promise!Next]_(Server!Promise!vars)
<1>1. Srv!Online(server') = Srv!Online(server) /\ Srv!Partner(server') = Srv!Partner(server)
  BY DEF SameMatching, Srv!Online, Srv!Partner, Srv!Live
<1> QED
  BY <1>1, ServesNow DEF Server!Promise!vars

\* An accept lets a session join.
LEMMA OpensRefines ==
  ASSUME Base, server.running, NEW c \in Clients, SessionsOf(c) = {}, Opens(server', server, c)
  PROVE  [Server!Promise!Next]_(Server!Promise!vars)
<1>1. PICK x \in Server!Session :
           /\ x.tail = c
           /\ DOMAIN server'.sessions = DOMAIN server.sessions \cup {Server!GetId(x)}
           /\ Server!GetId(x) \notin DOMAIN server.sessions => server'.sessions[Server!GetId(x)] = x
  BY DEF Opens
<1>2. /\ Srv!IsState(server) /\ Srv!IsMatched(server)
      /\ server'.running /\ server'.pairs = server.pairs
      /\ \A i \in DOMAIN server.sessions : server'.sessions[i] = server.sessions[i]
  BY DEF Opens, Base, ServerInv, InvOf, Srv!Holds, Srv!Consistent
<1>3. x \in Srv!Session \ DOMAIN server.pending /\ Server!GetId(x) = Srv!GetId(x)
  BY <1>1, SameSets DEF SessionsOf
<1>4. /\ Srv!Online(server') \in {Srv!Online(server), Srv!Online(server) \cup {x}}
      /\ x \notin Srv!Online(server) /\ Srv!Partner(server') = Srv!Partner(server)
  BY <1>1, <1>2, <1>3, Assumed, Srv!AddingIsJoining
<1>5. CASE Srv!Online(server') = Srv!Online(server)
  BY <1>4, <1>5, ServesNow DEF Server!Promise!vars
<1>6. CASE Srv!Online(server') = Srv!Online(server) \cup {x}
  <2>1. Server!Promise!Join(x)
    BY <1>4, <1>6, ServesNow DEF Server!Promise!Join
  <2> QED
    BY <2>1 DEF Server!Promise!Next
<1> QED
  BY <1>4, <1>5, <1>6

\* A request that is granted pairs two sessions.
LEMMA MatchedRefines ==
  ASSUME Base, Base', server.running, NEW s, NEW msg, NEW t, Matched(server', server, s, msg, t)
  PROVE  [Server!Promise!Next]_(Server!Promise!vars)
<1>1. PICK i, j : i = Server!GetId(s) /\ j = Server!GetId(t)
  OBVIOUS
<1>2. /\ i \in DOMAIN server.sessions \ DOMAIN server.pairs
      /\ j \in DOMAIN server.sessions \ DOMAIN server.pairs /\ i # j
      /\ DOMAIN server'.pairs = DOMAIN server.pairs \cup {i, j}
      /\ server'.pairs[i] = server.sessions[j] /\ server'.pairs[j] = server.sessions[i]
      /\ \A k \in DOMAIN server.pairs : server'.pairs[k] = server.pairs[k]
      /\ server'.sessions = server.sessions /\ server'.running
  BY <1>1 DEF Matched, Base, ServerInv, InvOf, Srv!Holds, Srv!Consistent, Srv!IsMatched
<1>3. /\ Srv!IsState(server) /\ Srv!IsMatched(server)
      /\ Srv!IsState(server') /\ Srv!IsMatched(server')
  BY DEF Base, ServerInv, InvOf, Srv!Holds, Srv!Consistent
<1>4. PICK u, v : u = server.sessions[i] /\ v = server.sessions[j]
  OBVIOUS
<1>5. Srv!Joined(server, server', u, v)
  BY <1>2, <1>3, <1>4, Assumed, Srv!MatchingIsPairing
<1>6. Server!Promise!Pair(u, v) /\ u \in Server!Session /\ v \in Server!Session
  BY <1>5, ServesNow, SameSets DEF Srv!Joined, Server!Promise!Pair
<1> QED
  BY <1>6 DEF Server!Promise!Next

\* Every step of the system is one of the matchmaking service or none.
LEMMA StepRefines ==
  ASSUME Base, Base', [Next]_vars
  PROVE  [Server!Promise!Next]_(Server!Promise!vars)
<1>1. CASE UNCHANGED server
  BY <1>1, SameRefines DEF SameMatching
<1>2. CASE WriteReturns
  BY <1>2, WriteStep, SameRefines, ClosesRefine DEF WriteReturns, Base
<1>3. ASSUME NEW c \in Clients, ServerStep(c) PROVE [Server!Promise!Next]_(Server!Promise!vars)
  <2>1. CASE Accept(c)
    <3>1. Opens(server', server, c) /\ server.running /\ SessionsOf(c) = {}
      BY <2>1, AcceptStep DEF Accept, Idle, Base
    <3> QED
      BY <1>3, <3>1, OpensRefines
  <2>2. CASE Handshake(c)
    <3>1. SameMatching(server', server)
      BY <2>2, HandshakeStep DEF Handshake, Handle, Base
    <3> QED
      BY <3>1, SameRefines
  <2>3. CASE ReadHeader(c)
    <3>1. SameMatching(server', server)
      BY <2>3, HeaderStep DEF ReadHeader, Handle, Base
    <3> QED
      BY <3>1, SameRefines
  <2>4. CASE ReadBody(c)
    <3>1. PICK s \in SessionsOf(c) :
               /\ Idle /\ Server!Running(s, "body") /\ up[c] # << >>
               /\ server' = Server!OnBodyReadDone(Server!Completed(s), s, Head(up[c]), "ok", "ok")
      BY <2>4 DEF ReadBody, Handle
    <3>2. PICK msg \in Server!ClientMsgs : msg = Head(up[c])
      BY <3>1 DEF Base, Typed
    <3>3. \/ SameMatching(server', server)
          \/ \E t \in DOMAIN server.pending : Matched(server', server, s, msg, t)
      BY <3>1, <3>2, BodyStep DEF Base, Ignored, Refused, Forwarded
    <3> QED
      BY <3>1, <3>3, SameRefines, MatchedRefines DEF Idle
  <2>5. CASE ReadEnd(c)
    <3>1. PICK s \in SessionsOf(c), fault \in Server!Faults :
               /\ Idle
               /\ server' = IF fault = "closing"
                            THEN Server!OnSessionClose(Server!Completed(s), s)
                            ELSE Server!Completed(s)
      BY <2>5 DEF ReadEnd, Handle, Server!OnHandshakeError, Server!OnReadError, Server!Faults
    <3>2. SameMatching(server', server) \/ Closes(server', server)
      BY <3>1, EndStep DEF Base
    <3> QED
      BY <3>1, <3>2, SameRefines, ClosesRefine DEF Idle
  <2> QED
    BY <1>3, <2>1, <2>2, <2>3, <2>4, <2>5 DEF ServerStep
<1>4. ASSUME NEW c \in Clients, ClientStep(c), ~ServerStep(c) PROVE UNCHANGED server
  BY <1>4
  DEF ClientStep, StreamStep, UpdateSessionId, OnRemoteRequestConnection, OnReplyConnection,
      OnRemoteSdpReceived, Consume, Exit, OnRtcSetLocalSessionSuccess, OnPeerConnected,
      OnPeerDisconnected, ConnectToSession, Hang, Quit, OnConnectionError
<1> QED
  BY <1>1, <1>2, <1>3, <1>4 DEF Next, vars
-----------------------------------------------------------------------------
(* The theorems *)

\* Who is gone stays gone, and hears nothing.
LEMMA GoneHearKept ==
  ASSUME Base, GoneHearNothing, [Next]_vars
  PROVE  GoneHearNothing'
<1>1. client \in [Clients -> ClientRecord] /\ down \in [Clients -> Seq(Server!ServerMsgs)]
  BY DEF Base, Typed
<1> SUFFICES ASSUME NEW d \in Clients, Gone(d)' PROVE down'[d] = << >>
  BY DEF GoneHearNothing
<1>2. ASSUME NEW c \in Clients, NEW state, NEW socket, Exit(c, state, socket)
      PROVE  down'[d] = << >>
  <2>1. CASE d = c
    BY <1>1, <1>2, <2>1 DEF Exit
  <2>2. CASE d # c
    <3>1. client'[d] = client[d] /\ down'[d] = down[d]
      BY <1>1, <1>2, <2>2 DEF Exit
    <3> QED
      BY <3>1 DEF Gone, GoneHearNothing
  <2> QED
    BY <2>1, <2>2
<1>3. ASSUME Gone(d), down'[d] = down[d] PROVE down'[d] = << >>
  BY <1>3 DEF GoneHearNothing
<1>4. CASE WriteReturns
  <2>1. client' = client /\ Gone(d)
    BY <1>4 DEF WriteReturns, Gone
  <2>2. down'[d] = down[d]
    BY <1>1, <1>4, <2>1 DEF WriteReturns, WriteTaken, Handle
  <2> QED
    BY <1>3, <2>1, <2>2
<1>5. ASSUME NEW c \in Clients, ServerStep(c) PROVE down'[d] = << >>
  <2>1. down' = down
    BY <1>5 DEF ServerStep, Accept, Handshake, ReadHeader, ReadBody, ReadEnd, Handle
  <2>2. client' = client \/ client' = [client EXCEPT ![c].socket = "connected"]
    BY <1>5 DEF ServerStep, Accept, Handshake, ReadHeader, ReadBody, ReadEnd
  <2>3. CASE client' = client
    BY <1>3, <2>1, <2>3 DEF Gone
  <2>4. CASE client' = [client EXCEPT ![c].socket = "connected"]
    <3>1. d # c
      <4> SUFFICES ASSUME d = c PROVE FALSE
        OBVIOUS
      <4>1. client'[d].socket = "connected"
        BY <1>1, <2>4 DEF ClientRecord
      <4> QED
        BY <4>1 DEF Gone
    <3>2. client'[d] = client[d]
      BY <1>1, <2>4, <3>1
    <3> QED
      BY <1>3, <2>1, <3>2 DEF Gone
  <2> QED
    BY <2>2, <2>3, <2>4
<1>6. ASSUME NEW c \in Clients, StreamStep(c) PROVE down'[d] = << >>
  <2>1. \/ \E state, socket : Exit(c, state, socket)
        \/ /\ Consume(c) /\ client[c].socket = "connected"
           /\ \A e \in Clients : client'[e].socket = client[e].socket
    <3>1. client[c].socket = "connected"
      BY <1>6 DEF StreamStep, UpdateSessionId, OnRemoteRequestConnection, OnReplyConnection,
                  OnRemoteSdpReceived, Receives
    <3>2. CASE UpdateSessionId(c)
      BY <1>1, <3>1, <3>2 DEF UpdateSessionId, ClientRecord
    <3>3. CASE OnRemoteRequestConnection(c)
      BY <1>1, <3>1, <3>3 DEF OnRemoteRequestConnection, ClientRecord
    <3>4. CASE OnReplyConnection(c)
      BY <1>1, <3>1, <3>4 DEF OnReplyConnection, ClientRecord
    <3>5. CASE OnRemoteSdpReceived(c)
      BY <1>1, <3>1, <3>5 DEF OnRemoteSdpReceived, ClientRecord
    <3> QED
      BY <1>6, <3>2, <3>3, <3>4, <3>5 DEF StreamStep
  <2>2. CASE /\ Consume(c) /\ client[c].socket = "connected"
             /\ \A e \in Clients : client'[e].socket = client[e].socket
    <3>1. d # c /\ Gone(d)
      BY <2>2 DEF Gone
    <3>2. down'[d] = down[d]
      BY <1>1, <2>2, <3>1 DEF Consume
    <3> QED
      BY <1>3, <3>1, <3>2
  <2> QED
    BY <1>2, <2>1, <2>2
<1>7. ASSUME NEW c \in Clients,
             \/ OnRtcSetLocalSessionSuccess(c)
             \/ OnPeerDisconnected(c)
             \/ \E id \in KnownIds : ConnectToSession(c, id)
             \/ Hang(c)
      PROVE  down'[d] = << >>
  <2>1. down' = down
    BY <1>7 DEF OnRtcSetLocalSessionSuccess, OnPeerDisconnected, ConnectToSession, Hang
  <2>2. client'[d].socket = client[d].socket
    <3>1. \/ client' = [client EXCEPT ![c].local = FALSE]
          \/ client' = [client EXCEPT ![c].state = "quit"]
          \/ client' = [client EXCEPT ![c].button = FALSE]
          \/ client' = [client EXCEPT ![c].state = "hung"]
      BY <1>7 DEF OnRtcSetLocalSessionSuccess, OnPeerDisconnected, ConnectToSession, Hang
    <3>2. CASE d # c
      BY <1>1, <3>1, <3>2
    <3>3. CASE d = c
      <4>1. \/ client'[c] = [client[c] EXCEPT !.local = FALSE]
            \/ client'[c] = [client[c] EXCEPT !.state = "quit"]
            \/ client'[c] = [client[c] EXCEPT !.button = FALSE]
            \/ client'[c] = [client[c] EXCEPT !.state = "hung"]
        BY <1>1, <3>1
      <4>2. client[c] \in ClientRecord
        BY <1>1
      <4>3. client'[c].socket = client[c].socket
        BY <4>1, <4>2 DEF ClientRecord
      <4> QED
        BY <3>3, <4>3
    <3> QED
      BY <3>2, <3>3
  <2> QED
    BY <1>3, <2>1, <2>2 DEF Gone
<1>8. ASSUME NEW c \in Clients, OnPeerConnected(c) PROVE down'[d] = << >>
  <2>1. CASE d = c
    BY <1>1, <1>8, <2>1 DEF OnPeerConnected
  <2>2. CASE d # c
    <3>1. client'[d] = client[d] /\ down'[d] = down[d]
      BY <1>1, <1>8, <2>2 DEF OnPeerConnected
    <3> QED
      BY <1>3, <3>1 DEF Gone
  <2> QED
    BY <2>1, <2>2
<1>9. CASE UNCHANGED vars
  BY <1>3, <1>9 DEF vars, Gone
<1>10. ASSUME NEW c \in Clients, ClientStep(c) PROVE down'[d] = << >>
  <2>1. CASE Quit(c) \/ OnConnectionError(c)
    BY <1>2, <2>1 DEF Quit, OnConnectionError
  <2> QED
    BY <1>5, <1>6, <1>7, <1>8, <1>10, <2>1 DEF ClientStep
<1> QED
  BY <1>4, <1>9, <1>10 DEF Next

\* The invariant that roles rest on; it holds until a session is given the empty id.
RolesInv == Base /\ GoneHearNothing /\ (Numbered => Roled)

\* Every step keeps it: one of the server, one of a client, or none.
LEMMA RolesKept ==
  ASSUME RolesInv, [Next]_vars
  PROVE  RolesInv'
<1>1. Base' /\ GoneHearNothing'
  BY BaseKept, GoneHearKept DEF RolesInv
<1> SUFFICES ASSUME Numbered' PROVE Roled'
  BY <1>1 DEF RolesInv
<1>2. Base /\ Numbered /\ Roled
  BY NumberedBefore DEF RolesInv
<1>3. CASE WriteReturns
  BY <1>2, <1>3, WriteKeepsRoles
<1>4. ASSUME NEW c \in Clients, ClientStep(c) PROVE Roled'
  BY <1>2, <1>4, ServerKeepsRoles, StreamKeepsRoles, OwnKeepsRoles DEF ClientStep
<1>5. CASE UNCHANGED vars
  BY <1>2, <1>5 DEF vars, Roled, Coming, NothingClosed
<1> QED
  BY <1>3, <1>4, <1>5 DEF Next

\* At first no message is on its way and no client has a role.
LEMMA RolesInit == Init => RolesInv
<1> SUFFICES ASSUME Init PROVE RolesInv
  OBVIOUS
<1>1. Base
  BY BaseInit
<1>2. /\ server.out = << >> /\ server.pairs = << >>
      /\ \A c \in Clients : /\ up[c] = << >> /\ down[c] = << >>
                            /\ client[c].control = "none" /\ client[c].peer = Nobody
                            /\ ~client[c].local /\ client[c].state = "running"
  BY DEF Init, Server!Init
<1>3. GoneHearNothing
  BY <1>2 DEF GoneHearNothing
<1>4. \A c \in Clients : Coming[c] = << >>
  <2> SUFFICES ASSUME NEW c \in Clients PROVE Coming[c] = << >>
    OBVIOUS
  <2>1. ToWrite(server.out, c) = {}
    BY <1>2, NothingToWrite
  <2> QED
    BY <1>1, <1>2, <2>1, ComingNow, DueNone
<1>5. PairsOf(server) = {}
  BY <1>2 DEF PairsOf
<1>6. << >> \in Messages /\ DOMAIN << >> = {} /\ RolesIn(<< >>) = {}
  BY DEF Messages, RolesIn
<1>7. \A c \in Clients : client[c].peer \notin Clients
  BY <1>2, NobodyAssumption
<1>8. ASSUME NEW c \in Clients
      PROVE  /\ Sound(Coming[c], client[c])
             /\ \A d \in Clients : ~Hears(Coming[c], d)
             /\ OnlyRole(Coming[c], client[c]) /\ ~HasRole(Coming[c], client[c])
             /\ \A d \in Clients, r \in Roles : ~Will(Coming[c], client[c], d, r)
  <2>1. Sound(<< >>, client[c])
    BY <1>2, <1>6, <1>7 DEF Sound, RoleFirst
  <2>2. /\ \A d \in Clients : ~Hears(<< >>, d)
        /\ OnlyRole(<< >>, client[c]) /\ ~HasRole(<< >>, client[c])
    BY <1>2, <1>6 DEF Hears, OnlyRole, HasRole, Single
  <2>3. \A d \in Clients, r \in Roles : ~Will(<< >>, client[c], d, r)
    BY <1>6, <1>7 DEF Will, Takes
  <2> QED
    BY <1>4, <2>1, <2>2, <2>3
<1>9. Senders(client, Coming, up)
  BY <1>2, <1>7, <1>8 DEF Senders
<1>10. PartnersKnow(PairsOf(server), client, Coming)
  BY <1>5 DEF PartnersKnow
<1>11. Faithful(PairsOf(server), client, Coming)
  BY <1>2, <1>7, <1>8 DEF Faithful
<1>12. Apart(PairsOf(server), NothingClosed, client, Coming)
  BY <1>5, <1>8 DEF Apart
<1>13. Roled
  BY <1>8, <1>9, <1>10, <1>11, <1>12 DEF Roled, AllRoles
<1> QED
  BY <1>1, <1>3, <1>13 DEF RolesInv

\* What RolesInv says of the streams.
LEMMA RolesOrder == RolesInv /\ Numbered => RoleBeforeDescription
<1> SUFFICES ASSUME RolesInv, Numbered, NEW c \in Clients, NEW k \in DOMAIN down[c],
                    down[c][k].type = "ExchangeSessionDescription", client[c].control = "none"
             PROVE  \E j \in 1..k - 1 : \/ down[c][j].type = "RemoteRequestConnection"
                                       \/ down[c][j] = Server!Reply(TRUE)
  BY DEF RoleBeforeDescription
<1>1. PICK q, r : q = down[c] /\ r = Coming[c]
  OBVIOUS
<1>2. q \in Seq(Server!ServerMsgs)
  BY <1>1 DEF RolesInv, Base, Typed
<1>3. ~IsGone(client[c])
  BY DEF RolesInv, GoneHearNothing, Gone, IsGone
<1>4. r = q \/ \E msg : r = Append(q, msg)
  BY <1>1, <1>3, ComingNow DEF RolesInv, Due
<1>5. /\ DOMAIN q = 1..Len(q) /\ Len(q) \in Nat
      /\ \A i \in DOMAIN q : i \in DOMAIN r /\ r[i] = q[i]
  BY <1>2, <1>4
<1>6. Sound(r, client[c]) /\ r \in Messages
  BY <1>1, ComingNow DEF RolesInv, Sound
<1>7. PICK j \in RolesIn(r) : j < k
  BY <1>1, <1>5, <1>6 DEF Sound, RoleFirst
<1>8. j \in DOMAIN r /\ DOMAIN r = 1..Len(r) /\ GivesRole(r[j])
  BY <1>6, <1>7 DEF RolesIn, Messages
<1>9. j \in 1..k - 1 /\ j \in DOMAIN q
  BY <1>1, <1>5, <1>6, <1>7, <1>8 DEF Messages
<1>10. GivesRole(q[j]) /\ q[j] \in Server!ServerMsgs
  BY <1>2, <1>5, <1>8, <1>9
<1>11. \/ q[j].type = "RemoteRequestConnection"
       \/ q[j].type = "ReplyConnection" /\ q[j].success
  BY <1>10 DEF GivesRole, Gives
<1>12. q[j].type = "ReplyConnection" /\ q[j].success => q[j] = Server!Reply(TRUE)
  <2> SUFFICES ASSUME q[j].type = "ReplyConnection", q[j].success PROVE q[j] = Server!Reply(TRUE)
    OBVIOUS
  <2>1. q[j] \in [type : {"ReplyConnection"}, success : BOOLEAN]
    BY <1>10 DEF Server!ServerMsgs, Server!Exchanges
  <2> QED
    BY <2>1 DEF Server!Reply
<1> QED
  BY <1>1, <1>9, <1>11, <1>12

\* What it says of two clients that have each other's description.
LEMMA RolesOpposite == RolesInv /\ Numbered => PeersHaveOppositeRoles
<1> SUFFICES ASSUME RolesInv, Numbered, NEW c \in Clients, NEW d \in Clients, client[c].peer = d
             PROVE  /\ client[d].peer = c => Opposite(c, d)
                    /\ NothingClosed => Opposite(c, d) /\ client[d].peer \in {c, Nobody}
  BY DEF PeersHaveOppositeRoles
<1>1. /\ Sound(Coming[c], client[c]) /\ Sound(Coming[d], client[d])
      /\ Senders(client, Coming, up)
      /\ NothingClosed => Faithful(PairsOf(server), client, Coming)
      /\ Apart(PairsOf(server), NothingClosed, client, Coming)
  BY DEF RolesInv, Roled, AllRoles
<1>2. client[c].control # "none" /\ client[d].control # "none"
  BY <1>1 DEF Sound, Senders
<1>3. client[c].control \in Roles /\ client[d].control \in Roles
  BY <1>1, <1>2 DEF Sound
<1>4. client[c].control # client[d].control => Opposite(c, d)
  BY <1>3 DEF Opposite, Roles
<1>5. ASSUME client[d].peer = c PROVE client[c].control # client[d].control
  <2>1. /\ Will(Coming[c], client[c], d, client[c].control)
        /\ Will(Coming[d], client[d], c, client[d].control)
    BY <1>5 DEF Will
  <2> QED
    BY <1>1, <1>3, <2>1 DEF Apart
<1>6. ASSUME NothingClosed
      PROVE  client[c].control # client[d].control /\ client[d].peer \in {c, Nobody}
  <2>1. Faithful(PairsOf(server), client, Coming) /\ Matching(PairsOf(server))
    BY <1>1, <1>6, PairsMatch DEF RolesInv, Base, ServerInv
  <2>2. <<c, d>> \in PairsOf(server)
    BY <2>1 DEF Faithful
  <2>3. RolesIn(Coming[c]) = {} /\ RolesIn(Coming[d]) = {}
    BY <1>2, <2>1 DEF Faithful, OnlyRole
  <2>4. /\ Ends(Coming[c], client[c], client[c].control)
        /\ Ends(Coming[d], client[d], client[d].control)
    BY <2>3 DEF Ends, AsAt
  <2>5. client[c].control # client[d].control
    BY <1>1, <1>3, <1>6, <2>2, <2>4 DEF Apart
  <2>6. client[d].peer \in Clients => client[d].peer = c
    <3> SUFFICES ASSUME client[d].peer \in Clients PROVE client[d].peer = c
      OBVIOUS
    <3>1. PICK e \in Clients : client[d].peer = e
      OBVIOUS
    <3>2. <<d, e>> \in PairsOf(server)
      BY <2>1, <3>1 DEF Faithful
    <3>3. <<d, c>> \in PairsOf(server)
      BY <2>1, <2>2 DEF Matching
    <3> QED
      BY <2>1, <3>1, <3>2, <3>3 DEF Matching
  <2>7. client[d].peer \in Clients \cup {Nobody}
    BY <1>1 DEF Sound
  <2> QED
    BY <2>5, <2>6, <2>7
<1> QED
  BY <1>4, <1>5, <1>6

\* What it says of the assertions.
LEMMA RolesAssert == RolesInv /\ Numbered => AssertionsNeedADeparture
BY DEF RolesInv, Roled, AllRoles, Faithful, AssertionsNeedADeparture

\* The streams carry messages of their types, the clients are records of theirs, and
\* the server is in a state of its own.
THEOREM SignallingTyped == Spec => []TypeOK
<1>1. Base => TypeOK
  BY HoldsMean DEF Base, ServerInv, InvOf, Typed, TypeOK, Server!TypeOK
<1> QED
  BY <1>1, BaseInit, BaseKept, PTL DEF Spec

\* A client has at most one request without a reply, and while it has one the button
\* is disabled, whatever the number of clients and the capacity of the streams.
THEOREM OneRequestAlways == Spec => []OneRequestAtATime
<1>1. Init => Base /\ OneRequest
  BY BaseInit, OneRequestInit
<1>2. Base /\ OneRequest /\ [Next]_vars => (Base /\ OneRequest)'
  BY BaseKept, OneRequestKept
<1> QED
  BY <1>1, <1>2, OneRequestCounts, PTL DEF Spec

\* The invariant of roles holds whatever the clients and the streams do.
THEOREM RolesAlways == Spec => []RolesInv
BY RolesInit, RolesKept, PTL DEF Spec

\* Until a session is given the empty id, no description comes before the message that
\* makes its reader agent or controller.
THEOREM RoleComesFirst == Spec => [](Numbered => RoleBeforeDescription)
<1>1. RolesInv => (Numbered => RoleBeforeDescription)
  BY RolesOrder
<1> QED
  BY <1>1, RolesAlways, PTL

\* Until then two clients with each other's description are agent and controller, and
\* while no session was closed nobody takes a description but its partner's.
THEOREM OppositeAlways == Spec => [](Numbered => PeersHaveOppositeRoles)
<1>1. RolesInv => (Numbered => PeersHaveOppositeRoles)
  BY RolesOpposite
<1> QED
  BY <1>1, RolesAlways, PTL

\* Until then, and while no session was closed, neither assertion on
\* m_pkControllState fails.
THEOREM AssertionsHoldTogether == Spec => [](Numbered => AssertionsNeedADeparture)
<1>1. RolesInv => (Numbered => AssertionsNeedADeparture)
  BY RolesAssert
<1> QED
  BY <1>1, RolesAlways, PTL

\* No session is given the empty id as long as the clients that ever come are no more
\* than the serial numbers.
THEOREM NumbersSuffice ==
  ASSUME FewClients
  PROVE  Spec => []Numbered
<1>1. Init => Base /\ Marked /\ Numbered
  BY BaseInit, NumberedInit
<1>2. Base /\ Marked /\ Numbered /\ [Next]_vars => (Base /\ Marked /\ Numbered)'
  BY BaseKept, NumberedKept
<1> QED
  BY <1>1, <1>2, PTL DEF Spec

\* As many clients get their roles right from the first to the last.
COROLLARY FewClientsAgree ==
  ASSUME FewClients
  PROVE  Spec => [](RoleBeforeDescription /\ PeersHaveOppositeRoles
                     /\ AssertionsNeedADeparture)
BY NumbersSuffice, RoleComesFirst, OppositeAlways, AssertionsHoldTogether, PTL

\* With clients that are processes, streams that fill up and writes that take their
\* time the server still implements the matchmaking service: every step of the whole
\* lets one client join, pairs two that have no partner, lets some leave, or is hidden.
THEOREM Refinement == Spec => Server!ImplementsPromise
<1>1. Init => Server!Promise!Init
  <2> SUFFICES ASSUME Init PROVE Server!Promise!Init
    OBVIOUS
  <2>1. server.sessions = << >> /\ server.pairs = << >> /\ server.running = TRUE
    BY DEF Init, Server!Init
  <2>2. DOMAIN server.sessions = {} /\ DOMAIN server.pairs = {}
    BY <2>1
  <2>3. Server!Online(server) = {}
    BY <2>1, <2>2 DEF Server!Online, Server!Live, Server!Range
  <2>4. Server!Partner(server) = << >>
    BY <2>1, <2>2 DEF Server!Partner
  <2> QED
    BY <2>3, <2>4 DEF Server!Promise!Init
<1>2. Base /\ Base' /\ [Next]_vars => [Server!Promise!Next]_(Server!Promise!vars)
  BY StepRefines
<1>3. Spec => []Base
  BY BaseInit, BaseKept, PTL DEF Spec
<1> QED
  BY <1>1, <1>2, <1>3, PTL DEF Spec, Server!ImplementsPromise, Server!Promise!Spec
=============================================================================
