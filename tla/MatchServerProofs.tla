-------------------------- MODULE MatchServerProofs --------------------------
(***************************************************************************)
(* Proofs about MatchServer, for every number of serial numbers and every  *)
(* set of clients.  A handler is a composition of operators on the record  *)
(* "server", so there is one lemma per operator, that it takes a record    *)
(* satisfying the invariant to another one, and the step of an action      *)
(* follows the calls of its handler.  IsCloseOf and IsInitOf describe the  *)
(* two operators that change most field by field.                          *)
(***************************************************************************)
EXTENDS MatchServer, QueueLemmas, FiniteSetTheorems, TLAPS

\* Min, a CHOOSE in the library, is what its name says.
LEMMA MinIsLeast ==
  ASSUME NEW S \in SUBSET Nat, S # {}
  PROVE  Min(S) \in S /\ \A n \in S : Min(S) <= n
<1>1. \E m \in S : \A n \in S : m <= n
  BY LeastNumber
<1> QED
  BY <1>1 DEF Min

\* std::map::erase removes the keys and changes no other entry.
LEMMA EraseIsRestriction ==
  ASSUME NEW f, NEW ks
  PROVE  /\ DOMAIN Erase(f, ks) = DOMAIN f \ ks
         /\ \A k \in DOMAIN f \ ks : Erase(f, ks)[k] = f[k]
BY DEF Erase, Restrict

\* std::map::emplace adds the key and changes no entry that was there.
LEMMA EmplaceKeepsEntries ==
  ASSUME NEW f, NEW k, NEW v
  PROVE  /\ DOMAIN Emplace(f, k, v) = DOMAIN f \cup {k}
         /\ \A x \in DOMAIN f : Emplace(f, k, v)[x] = f[x]
         /\ k \notin DOMAIN f => Emplace(f, k, v)[k] = v
BY DEF Emplace

\* All of the invariant but IsListening, which is kept apart because a
\* handler for an accept starts by taking the outstanding accept away.
ClosedWereBorn(st) == \A s \in Session : st.closes[s] > 0 => s \in DOMAIN st.pending

Consistent(st) == /\ IsState(st)
                  /\ IsFiniteSet(DOMAIN st.sessions)
                  /\ IsMatched(st)
                  /\ SerialsHeld(st)
                  /\ StopsWhenExhausted(st)
                  /\ ForgetsClosed(st)
                  /\ ClosedWereBorn(st)

\* ReleaseId gives back any serial number but 0 and the last one, and stops the
\* process for 0 (Server.cpp:34-39, 51-56).
LEMMA ReleaseFields ==
  ASSUME NEW st, HasFields(st), st.running \in BOOLEAN, NEW s \in Session
  PROVE  LET new == ReleaseId(st, s)
         IN  /\ HasFields(new)
             /\ new.running = (st.running /\ s.serial # 0)
             /\ new.serials = IF s.serial \in 1..SERIAL_NUM_MAX - 1
                              THEN [st.serials EXCEPT ![s.serial] = FALSE]
                              ELSE st.serials
             /\ new.sessions = st.sessions /\ new.pairs = st.pairs
             /\ new.accepts = st.accepts /\ new.pending = st.pending
             /\ new.out = st.out /\ new.told = st.told /\ new.closes = st.closes
<1>1. CASE s.serial = 0
  <2>1. ReleaseId(st, s) = [st EXCEPT !.running = FALSE] /\ s.serial \notin 1..SERIAL_NUM_MAX - 1
    BY <1>1 DEF ReleaseId
  <2> QED
    BY <1>1, <2>1, Zenon DEF HasFields, Fields
<1>2. CASE s.serial = SERIAL_NUM_MAX
  BY <1>2, MaxAssumption DEF ReleaseId, ReleaseSerialNumber
<1>3. CASE s.serial \in 1..SERIAL_NUM_MAX - 1
  <2>1. ReleaseId(st, s) = [st EXCEPT !.serials[s.serial] = FALSE] /\ s.serial # 0
    BY <1>3, MaxAssumption DEF ReleaseId, ReleaseSerialNumber
  <2> QED
    BY <1>3, <2>1, Zenon DEF HasFields, Fields
<1> QED
  BY <1>1, <1>2, <1>3, MaxAssumption DEF Session

\* OnSessionClose, field by field.
IsCloseOf(new, st, s) ==
  /\ HasFields(new)
  /\ new.pending = st.pending
  /\ new.told = st.told
  /\ new.out = st.out
  /\ new.pairs = Erase(st.pairs, {GetId(s)} \cup PartnerIds(st, GetId(s)))
  /\ new.closes = [st.closes EXCEPT ![s] = @ + 1]
  /\ new.running = (st.running /\ s.serial # 0)
  /\ new.serials = IF s.serial \in 1..SERIAL_NUM_MAX - 1
                   THEN [st.serials EXCEPT ![s.serial] = FALSE]
                   ELSE st.serials
  /\ new.sessions = IF new.running THEN Erase(st.sessions, {GetId(s)})
                                   ELSE st.sessions
  /\ new.accepts = IF new.running /\ Size(new) = SERIAL_NUM_MAX - 1
                   THEN st.accepts + 1 ELSE st.accepts

\* The CASE of OnSessionClose, exception included, comes to IsCloseOf.
LEMMA CloseFields ==
  ASSUME NEW st, IsState(st), NEW s \in DOMAIN st.pending
  PROVE  IsCloseOf(OnSessionClose(st, s), st, s)
<1> DEFINE id == GetId(s)
           unpaired == [st EXCEPT !.pairs = Erase(@, {id} \cup PartnerIds(st, id)),
                                  !.closes[s] = @ + 1]
           released == ReleaseId(unpaired, s)
           erased == [released EXCEPT !.sessions = Erase(@, {id})]
<1>1. HasFields(st)
  BY DEF IsState
<1>2. /\ HasFields(unpaired)
      /\ unpaired.pairs = Erase(st.pairs, {id} \cup PartnerIds(st, id))
      /\ unpaired.closes = [st.closes EXCEPT ![s] = @ + 1]
      /\ unpaired.serials = st.serials /\ unpaired.sessions = st.sessions
      /\ unpaired.accepts = st.accepts /\ unpaired.pending = st.pending
      /\ unpaired.running = st.running /\ unpaired.out = st.out
      /\ unpaired.told = st.told
  BY <1>1, Zenon DEF HasFields, Fields
<1>3. /\ HasFields(released)
      /\ released.running = (st.running /\ s.serial # 0)
      /\ released.serials = IF s.serial \in 1..SERIAL_NUM_MAX - 1
                            THEN [st.serials EXCEPT ![s.serial] = FALSE]
                            ELSE st.serials
      /\ released.sessions = st.sessions /\ released.pairs = unpaired.pairs
      /\ released.accepts = st.accepts /\ released.pending = st.pending
      /\ released.out = st.out /\ released.told = st.told
      /\ released.closes = unpaired.closes
  <2> HIDE DEF unpaired
  <2>1. unpaired.running \in BOOLEAN /\ s \in Session
    BY <1>2 DEF IsState
  <2> QED BY <1>2, <2>1, ReleaseFields
<1>4. /\ HasFields(erased)
      /\ erased.sessions = Erase(st.sessions, {id})
      /\ erased.serials = released.serials /\ erased.pairs = released.pairs
      /\ erased.accepts = released.accepts /\ erased.pending = released.pending
      /\ erased.out = released.out /\ erased.told = released.told
      /\ erased.closes = released.closes /\ erased.running = released.running
  <2> HIDE DEF released
  <2> QED BY <1>3, Zenon DEF HasFields, Fields
<1>5. /\ HasFields(StartAccept(erased))
      /\ StartAccept(erased).accepts = erased.accepts + 1
      /\ StartAccept(erased).sessions = erased.sessions
      /\ StartAccept(erased).serials = erased.serials
      /\ StartAccept(erased).pairs = erased.pairs
      /\ StartAccept(erased).pending = erased.pending
      /\ StartAccept(erased).out = erased.out
      /\ StartAccept(erased).told = erased.told
      /\ StartAccept(erased).closes = erased.closes
      /\ StartAccept(erased).running = erased.running
  <2> HIDE DEF erased
  <2> QED BY <1>4, Zenon DEF HasFields, Fields, StartAccept
<1>6. OnSessionClose(st, s) =
        IF ~released.running THEN released
        ELSE IF Size(erased) = SERIAL_NUM_MAX - 1 THEN StartAccept(erased) ELSE erased
  BY DEF OnSessionClose
<1>7. Size(StartAccept(erased)) = Size(erased)
  <2> HIDE DEF erased
  <2> QED BY <1>5 DEF Size
<1> HIDE DEF unpaired, released, erased, id
<1> QED
  BY <1>2, <1>3, <1>4, <1>5, <1>6, <1>7 DEF id, IsCloseOf

-----------------------------------------------------------------------------
(* OnSessionClose preserves every part of the invariant.                   *)

\* In a matching the weak pointer of a pair entry locks (Server.cpp:132).
LEMMA PartnerOf ==
  ASSUME NEW st, IsState(st), IsMatched(st), NEW i \in DOMAIN st.pairs
  PROVE  PartnerIds(st, i) = {GetId(st.pairs[i])}
BY DEF PartnerIds, Lock, Live, Range, IsState, IsMatched

\* Closing a session keeps the types.
LEMMA CloseIsState ==
  ASSUME NEW st, IsState(st), NEW s \in DOMAIN st.pending,
         NEW new, IsCloseOf(new, st, s)
  PROVE  IsState(new)
<1> DEFINE gone == {GetId(s)} \cup PartnerIds(st, GetId(s))
<1>1. /\ DOMAIN Erase(st.sessions, {GetId(s)}) \subseteq DOMAIN st.sessions
      /\ \A i \in DOMAIN Erase(st.sessions, {GetId(s)}) :
           Erase(st.sessions, {GetId(s)})[i] = st.sessions[i]
      /\ Erase(st.sessions, {GetId(s)}) \in
           [DOMAIN Erase(st.sessions, {GetId(s)}) -> DOMAIN st.pending]
  BY DEF Erase, Restrict, IsState
<1>2. /\ DOMAIN Erase(st.pairs, gone) \subseteq DOMAIN st.pairs
      /\ Erase(st.pairs, gone) \in [DOMAIN Erase(st.pairs, gone) -> DOMAIN st.pending]
  BY DEF Erase, Restrict, IsState
<1>3. [st.closes EXCEPT ![s] = @ + 1] \in [Session -> Nat]
  BY DEF IsState
<1>4. /\ HasFields(new)
      /\ new.pending = st.pending /\ new.told = st.told /\ new.out = st.out
      /\ new.pairs = Erase(st.pairs, gone)
      /\ new.closes = [st.closes EXCEPT ![s] = @ + 1]
      /\ new.sessions = st.sessions \/ new.sessions = Erase(st.sessions, {GetId(s)})
      /\ new.accepts = st.accepts \/ new.accepts = st.accepts + 1
  BY DEF IsCloseOf
<1>5. new.running \in BOOLEAN
  BY DEF IsCloseOf
<1>6. new.serials \in [1..SERIAL_NUM_MAX -> BOOLEAN]
  <2>1. st.serials \in [1..SERIAL_NUM_MAX -> BOOLEAN]
    BY DEF IsState
  <2>2. new.serials \in {st.serials, [st.serials EXCEPT ![s.serial] = FALSE]}
    BY Zenon DEF IsCloseOf
  <2> QED
    BY <2>1, <2>2
<1> HIDE DEF gone
<1>7. /\ DOMAIN new.sessions \subseteq Ids
      /\ new.sessions \in [DOMAIN new.sessions -> DOMAIN new.pending]
      /\ \A i \in DOMAIN new.sessions : GetId(new.sessions[i]) = i
  <2>1. CASE new.sessions = st.sessions
    BY <1>4, <2>1 DEF IsState
  <2>2. CASE new.sessions = Erase(st.sessions, {GetId(s)})
    <3>1. /\ DOMAIN new.sessions \subseteq DOMAIN st.sessions
          /\ new.sessions \in [DOMAIN new.sessions -> DOMAIN new.pending]
      BY <1>1, <1>4, <2>2
    <3>2. \A i \in DOMAIN new.sessions : new.sessions[i] = st.sessions[i]
      BY <1>1, <2>2
    <3> QED
      BY <3>1, <3>2 DEF IsState
  <2> QED
    BY <1>4, <2>1, <2>2
<1>8. /\ DOMAIN new.pairs \subseteq Ids
      /\ new.pairs \in [DOMAIN new.pairs -> DOMAIN new.pending]
  BY <1>2, <1>4 DEF IsState
<1>9. new.accepts \in Nat
  BY <1>4 DEF IsState
<1> QED
  BY <1>3, <1>4, <1>5, <1>6, <1>7, <1>8, <1>9 DEF IsState

\* Closing erases both directions of a pair, so what is left is a matching.
LEMMA CloseIsMatched ==
  ASSUME NEW st, IsState(st), IsMatched(st), NEW s \in DOMAIN st.pending,
         NEW new, IsCloseOf(new, st, s)
  PROVE  IsMatched(new)
<1> DEFINE gone == {GetId(s)} \cup PartnerIds(st, GetId(s))
<1>1. /\ DOMAIN new.pairs = DOMAIN st.pairs \ gone
      /\ \A i \in DOMAIN new.pairs : new.pairs[i] = st.pairs[i]
  BY DEF IsCloseOf, Erase, Restrict
<1>2. /\ DOMAIN st.sessions \ {GetId(s)} \subseteq DOMAIN new.sessions
      /\ \A i \in DOMAIN st.sessions \ {GetId(s)} : new.sessions[i] = st.sessions[i]
  BY DEF IsCloseOf, Erase, Restrict
<1>3. SUFFICES ASSUME NEW i \in DOMAIN new.pairs
               PROVE  GetId(st.pairs[i]) \notin gone
  BY <1>1, <1>2 DEF IsMatched
<1>4. CASE GetId(s) \notin DOMAIN st.pairs
  BY <1>1, <1>4 DEF IsMatched, PartnerIds
<1>5. CASE GetId(s) \in DOMAIN st.pairs
  <2>1. gone = {GetId(s), GetId(st.pairs[GetId(s)])}
    BY <1>5, PartnerOf
  <2>2. GetId(st.pairs[i]) # GetId(s)
    BY <1>1, <1>5, <2>1 DEF IsMatched, IsState
  <2>3. GetId(st.pairs[i]) # GetId(st.pairs[GetId(s)])
    BY <1>1, <1>5, <2>1 DEF IsMatched, IsState
  <2> QED
    BY <2>1, <2>2, <2>3
<1> QED
  BY <1>4, <1>5

\* Closing frees the serial number of the session that leaves the map; every
\* other number is still held by the session it was held by.
LEMMA CloseHoldsSerials ==
  ASSUME NEW st, IsState(st), SerialsHeld(st), NEW s \in DOMAIN st.pending,
         NEW new, IsCloseOf(new, st, s)
  PROVE  SerialsHeld(new)
<1> SUFFICES ASSUME new.running, NEW n \in 1..SERIAL_NUM_MAX - 1, new.serials[n]
             PROVE  \E i \in DOMAIN new.sessions : new.sessions[i].serial = n
  BY DEF SerialsHeld
<1>1. /\ st.running /\ s.serial # 0
      /\ new.serials = IF s.serial \in 1..SERIAL_NUM_MAX - 1
                       THEN [st.serials EXCEPT ![s.serial] = FALSE] ELSE st.serials
      /\ new.sessions = Erase(st.sessions, {s})
  BY DEF IsCloseOf, GetId, IsState
<1>2. st.serials[n] /\ s.serial # n
  <2>1. st.serials \in [1..SERIAL_NUM_MAX -> BOOLEAN] /\ n \in 1..SERIAL_NUM_MAX
    BY MaxAssumption DEF IsState
  <2>2. CASE s.serial \in 1..SERIAL_NUM_MAX - 1
    BY <1>1, <2>1, <2>2
  <2>3. CASE s.serial \notin 1..SERIAL_NUM_MAX - 1
    BY <1>1, <2>1, <2>3
  <2> QED
    BY <2>2, <2>3
<1>3. PICK i \in DOMAIN st.sessions : st.sessions[i].serial = n
  BY <1>1, <1>2 DEF SerialsHeld
<1>4. i # s
  <2>1. GetId(st.sessions[i]) = i /\ st.sessions[i].serial # 0
    BY <1>3 DEF IsState
  <2>2. st.sessions[i] = i
    BY <2>1 DEF GetId
  <2> QED
    BY <2>2, <1>2, <1>3
<1> QED
  BY <1>1, <1>3, <1>4 DEF Erase, Restrict

\* Closing makes the map at most one smaller, so the only way from no room to
\* room is the size at which OnSessionClose accepts again (Server.cpp:142).
LEMMA CloseIsListening ==
  ASSUME NEW st, IsState(st), IsFiniteSet(DOMAIN st.sessions), IsListening(st),
         NEW s \in DOMAIN st.pending,
         NEW new, IsCloseOf(new, st, s)
  PROVE  /\ IsFiniteSet(DOMAIN new.sessions)
         /\ IsListening(new)
<1>1. IF new.running THEN DOMAIN new.sessions = DOMAIN st.sessions \ {GetId(s)}
                     ELSE new.sessions = st.sessions
  BY DEF IsCloseOf, Erase, Restrict
<1>2. /\ IsFiniteSet(DOMAIN new.sessions)
      /\ Size(new) \in Nat /\ Size(st) \in Nat
      /\ new.running => Size(new) \in {Size(st), Size(st) - 1}
  BY <1>1, FS_RemoveElement, FS_CardinalityType DEF Size
<1>3. /\ new.running => st.running
      /\ new.accepts = IF new.running /\ Size(new) = SERIAL_NUM_MAX - 1
                       THEN st.accepts + 1 ELSE st.accepts
  BY DEF IsCloseOf, IsState
<1>4. IsListening(new)
  BY <1>2, <1>3, MaxAssumption DEF IsListening, IsState
<1> QED
  BY <1>2, <1>4

\* Closing never frees the last serial number, and throws only for a session
\* without one.
LEMMA CloseStopsWhenExhausted ==
  ASSUME NEW st, IsState(st), StopsWhenExhausted(st), NEW s \in DOMAIN st.pending,
         NEW new, IsCloseOf(new, st, s)
  PROVE  StopsWhenExhausted(new)
<1>1. /\ new.pending = st.pending
      /\ new.running = (st.running /\ s.serial # 0)
  BY DEF IsCloseOf
<1>2. new.serials[SERIAL_NUM_MAX] = st.serials[SERIAL_NUM_MAX]
  <2>1. st.serials \in [1..SERIAL_NUM_MAX -> BOOLEAN] /\ SERIAL_NUM_MAX \in 1..SERIAL_NUM_MAX
    BY MaxAssumption DEF IsState
  <2>2. CASE s.serial \in 1..SERIAL_NUM_MAX - 1
    <3>1. s.serial # SERIAL_NUM_MAX /\ new.serials = [st.serials EXCEPT ![s.serial] = FALSE]
      BY <2>2, MaxAssumption DEF IsCloseOf
    <3> QED
      BY <2>1, <3>1
  <2>3. CASE s.serial \notin 1..SERIAL_NUM_MAX - 1
    BY <2>3 DEF IsCloseOf
  <2> QED
    BY <2>2, <2>3
<1> QED
  BY <1>1, <1>2 DEF StopsWhenExhausted

\* A session that is closed leaves both maps and none that was closed returns.
LEMMA CloseForgets ==
  ASSUME NEW st, IsState(st), IsMatched(st), ForgetsClosed(st), ClosedWereBorn(st),
         NEW s \in DOMAIN st.pending,
         NEW new, IsCloseOf(new, st, s)
  PROVE  /\ ForgetsClosed(new)
         /\ ClosedWereBorn(new)
<1>1. /\ new.pending = st.pending
      /\ new.closes = [st.closes EXCEPT ![s] = @ + 1]
      /\ new.running => st.running /\ s.serial # 0
      /\ new.running => new.sessions = Erase(st.sessions, {GetId(s)})
  BY DEF IsCloseOf, IsState
<1>2. IsMatched(new)
  BY CloseIsMatched
<1>3. \A t \in Session : new.closes[t] > 0 => st.closes[t] > 0 \/ t = s
  BY <1>1 DEF IsState
<1>4. ClosedWereBorn(new)
  BY <1>1, <1>3 DEF ClosedWereBorn
<1>5. ASSUME new.running, NEW i \in DOMAIN new.sessions
      PROVE  new.sessions[i] = st.sessions[i] /\ i \in DOMAIN st.sessions /\ st.sessions[i] # s
  BY <1>1, <1>5 DEF IsState, Erase, Restrict
<1>6. ForgetsClosed(new)
  BY <1>1, <1>2, <1>3, <1>5 DEF ForgetsClosed, IsMatched
<1> QED
  BY <1>4, <1>6

\* Closing preserves all parts of the invariant.
LEMMA CloseIsConsistent ==
  ASSUME NEW st, Consistent(st), IsListening(st), NEW s \in DOMAIN st.pending
  PROVE  /\ Consistent(OnSessionClose(st, s))
         /\ IsListening(OnSessionClose(st, s))
BY CloseFields, CloseIsState, CloseIsMatched, CloseHoldsSerials, CloseIsListening,
   CloseStopsWhenExhausted, CloseForgets DEF Consistent

-----------------------------------------------------------------------------
(* The other operators a handler is composed of.                           *)

\* Nothing but the outstanding operations, what was written and who was told
\* has changed.
LEMMA SameMapsConsistent ==
  ASSUME NEW st, Consistent(st), NEW new, HasFields(new),
         new.serials = st.serials, new.sessions = st.sessions,
         new.pairs = st.pairs, new.running = st.running, new.closes = st.closes,
         DOMAIN new.pending = DOMAIN st.pending,
         new.pending \in [DOMAIN new.pending -> Ops],
         new.out \in Seq([to : Session, msg : ServerMsgs]),
         new.told \in SUBSET Ids, new.accepts \in Nat
  PROVE  Consistent(new)
<1>1. IsState(new)
  BY DEF Consistent, IsState
<1>2. IsFiniteSet(DOMAIN new.sessions) /\ IsMatched(new)
  BY DEF Consistent, IsMatched
<1>3. SerialsHeld(new) /\ StopsWhenExhausted(new)
  BY DEF Consistent, SerialsHeld, StopsWhenExhausted
<1>4. ForgetsClosed(new) /\ ClosedWereBorn(new)
  BY DEF Consistent, ForgetsClosed, ClosedWereBorn
<1> QED
  BY <1>1, <1>2, <1>3, <1>4 DEF Consistent

\* The inductive invariant of a record.
Holds(st) == Consistent(st) /\ IsListening(st)

\* The same in terms of Holds; outstanding operations stay outstanding.
LEMMA CloseHolds ==
  ASSUME NEW st, Holds(st), NEW s \in DOMAIN st.pending
  PROVE  /\ Holds(OnSessionClose(st, s))
         /\ OnSessionClose(st, s).pending = st.pending
<1>1. IsState(st)
  BY DEF Holds, Consistent
<1> QED
  BY <1>1, CloseFields, CloseIsConsistent DEF Holds, IsCloseOf

\* A write, whether it succeeds, fails or closes the session it was meant for.
LEMMA SendHolds ==
  ASSUME NEW st, Holds(st), NEW s \in DOMAIN st.pending,
         NEW msg \in ServerMsgs, NEW result \in WriteResults
  PROVE  /\ Holds(SendMessage(st, s, msg, result))
         /\ SendMessage(st, s, msg, result).pending = st.pending
<1>1. CASE ~st.running
  BY <1>1 DEF SendMessage
<1>2. CASE st.running /\ result = "ok"
  <2> DEFINE new == [st EXCEPT !.out = Append(@, [to |-> s, msg |-> msg])]
  <2>1. SendMessage(st, s, msg, result) = new
    BY <1>2 DEF SendMessage
  <2>2. HasFields(st) /\ Consistent(st) /\ IsListening(st)
    BY DEF Holds, Consistent, IsState
  <2>3. /\ HasFields(new) /\ new.out = Append(st.out, [to |-> s, msg |-> msg])
        /\ new.serials = st.serials /\ new.sessions = st.sessions
        /\ new.pairs = st.pairs /\ new.running = st.running
        /\ new.closes = st.closes /\ new.pending = st.pending
        /\ new.told = st.told /\ new.accepts = st.accepts
    BY <2>2, Zenon DEF HasFields, Fields
  <2>4. /\ Append(st.out, [to |-> s, msg |-> msg]) \in Seq([to : Session, msg : ServerMsgs])
        /\ st.pending \in [DOMAIN st.pending -> Ops]
        /\ st.told \in SUBSET Ids /\ st.accepts \in Nat
    BY <2>2 DEF Consistent, IsState
  <2> HIDE DEF new
  <2>5. Consistent(new)
    BY <2>2, <2>3, <2>4, SameMapsConsistent
  <2>6. IsListening(new)
    BY <2>2, <2>3 DEF IsListening, Size
  <2> QED
    BY <2>1, <2>3, <2>5, <2>6 DEF Holds
<1>3. CASE st.running /\ result = "closing"
  BY <1>3, CloseHolds DEF SendMessage, OnWriteError
<1>4. CASE st.running /\ result = "other"
  BY <1>4 DEF SendMessage, OnWriteError
<1> QED
  BY <1>1, <1>2, <1>3, <1>4 DEF WriteResults, Faults

\* Starting the next operation of a session.
LEMMA ArmHolds ==
  ASSUME NEW st, Holds(st), NEW s \in DOMAIN st.pending, NEW op \in Ops
  PROVE  /\ Holds(Arm(st, s, op))
         /\ DOMAIN Arm(st, s, op).pending = DOMAIN st.pending
<1> DEFINE new == [st EXCEPT !.pending[s] = op]
<1>1. HasFields(st) /\ Consistent(st) /\ IsListening(st)
  BY DEF Holds, Consistent, IsState
<1>2. /\ HasFields(new) /\ new.pending = [st.pending EXCEPT ![s] = op]
      /\ new.serials = st.serials /\ new.sessions = st.sessions
      /\ new.pairs = st.pairs /\ new.running = st.running
      /\ new.closes = st.closes /\ new.out = st.out
      /\ new.told = st.told /\ new.accepts = st.accepts
  BY <1>1, Zenon DEF HasFields, Fields
<1>3. /\ [st.pending EXCEPT ![s] = op] \in [DOMAIN st.pending -> Ops]
      /\ DOMAIN [st.pending EXCEPT ![s] = op] = DOMAIN st.pending
      /\ st.out \in Seq([to : Session, msg : ServerMsgs])
      /\ st.told \in SUBSET Ids /\ st.accepts \in Nat
  BY <1>1 DEF Consistent, IsState
<1> HIDE DEF new
<1>4. Consistent(new)
  BY <1>1, <1>2, <1>3, SameMapsConsistent
<1>5. IsListening(new)
  BY <1>1, <1>2 DEF IsListening, Size
<1> QED
  BY <1>2, <1>3, <1>4, <1>5 DEF Holds, Arm, new

\* Pairing two sessions that are matchable (Server.cpp:184-205).
LEMMA MatchHolds ==
  ASSUME NEW st, Holds(st), NEW i \in DOMAIN st.sessions, NEW target,
         Matchable(st, i, target)
  PROVE  /\ Holds(Match(st, i, target))
         /\ Match(st, i, target).pending = st.pending
         /\ Match(st, i, target).sessions = st.sessions
<1> DEFINE pairs == Emplace(Emplace(st.pairs, i, st.sessions[target]),
                            target, st.sessions[i])
<1>1. /\ HasFields(st) /\ IsState(st) /\ IsMatched(st) /\ IsListening(st)
      /\ i # target /\ target \in DOMAIN st.sessions
      /\ i \notin DOMAIN st.pairs /\ target \notin DOMAIN st.pairs
  BY DEF Holds, Consistent, IsState, Matchable
<1>2. PICK new : new = Match(st, i, target)
  OBVIOUS
<1>3. /\ HasFields(new) /\ new.pairs = pairs
      /\ new.serials = st.serials /\ new.sessions = st.sessions
      /\ new.pending = st.pending /\ new.running = st.running
      /\ new.closes = st.closes /\ new.out = st.out
      /\ new.told = st.told /\ new.accepts = st.accepts
  <2> HIDE DEF pairs
  <2>1. new = [st EXCEPT !.pairs = pairs]
    BY <1>2 DEF Match, pairs
  <2> QED
    BY <1>1, <2>1, Zenon DEF HasFields, Fields
<1>4. /\ DOMAIN pairs = DOMAIN st.pairs \cup {i, target}
      /\ pairs[i] = st.sessions[target] /\ pairs[target] = st.sessions[i]
      /\ \A k \in DOMAIN st.pairs : pairs[k] = st.pairs[k]
      /\ pairs = [k \in DOMAIN pairs |-> pairs[k]]
  BY <1>1 DEF Emplace
<1> HIDE DEF pairs
<1>5. \A k \in DOMAIN pairs : pairs[k] \in DOMAIN st.pending
  BY <1>1, <1>4 DEF IsState
<1>6. pairs \in [DOMAIN pairs -> DOMAIN st.pending] /\ DOMAIN pairs \subseteq Ids
  BY <1>1, <1>4, <1>5 DEF IsState
<1>7. IsState(new)
  BY <1>1, <1>3, <1>6 DEF IsState
<1>8. IsMatched(new)
  BY <1>1, <1>3, <1>4 DEF IsMatched, IsState
<1>9. SerialsHeld(new) /\ StopsWhenExhausted(new) /\ ClosedWereBorn(new)
  BY <1>3 DEF Holds, Consistent, SerialsHeld, StopsWhenExhausted, ClosedWereBorn
<1>10. ForgetsClosed(new)
  BY <1>3, <1>8 DEF Holds, Consistent, ForgetsClosed, IsMatched
<1>11. IsListening(new)
  BY <1>1, <1>3 DEF IsListening, Size
<1>12. IsFiniteSet(DOMAIN new.sessions)
  BY <1>3 DEF Holds, Consistent
<1> QED
  BY <1>2, <1>3, <1>7, <1>8, <1>9, <1>10, <1>11, <1>12 DEF Holds, Consistent

-----------------------------------------------------------------------------
(* A new session.                                                          *)

\* The number allocated was free, or there was none: then all are marked, the
\* last one included (Server.cpp:41-49).
LEMMA SerialAllocated ==
  ASSUME NEW st, IsState(st)
  PROVE  LET n == AllocateSerialNumber(st)
         IN  \/ n = 0 /\ st.serials[SERIAL_NUM_MAX]
             \/ n \in 1..SERIAL_NUM_MAX /\ ~st.serials[n]
<1>1. CASE FreeSerials(st) = {}
  BY <1>1, MaxAssumption DEF AllocateSerialNumber, FreeSerials
<1>2. CASE FreeSerials(st) # {}
  <2>1. FreeSerials(st) \in SUBSET Nat
    BY DEF FreeSerials
  <2>2. Min(FreeSerials(st)) \in FreeSerials(st)
    BY <1>2, <2>1, MinIsLeast
  <2> QED
    BY <1>2, <2>2 DEF AllocateSerialNumber, FreeSerials
<1> QED
  BY <1>1, <1>2

\* The letters of an id are drawn anew for every session.
Fresh(st, t) == ~\E s \in DOMAIN st.pending : s.tail = t

\* InitSession, field by field, when the session is constructed.
IsInitOf(new, st, s) ==
  /\ HasFields(new)
  /\ new.sessions = Emplace(st.sessions, GetId(s), s)
  /\ new.pending = Emplace(st.pending, s, "handshake")
  /\ new.serials = IF s.serial = 0 THEN st.serials
                                   ELSE [st.serials EXCEPT ![s.serial] = TRUE]
  /\ new.pairs = st.pairs /\ new.running = st.running
  /\ new.closes = st.closes /\ new.out = st.out
  /\ new.told = st.told /\ new.accepts = st.accepts

\* InitSession with a session constructed comes to IsInitOf.
LEMMA InitFields ==
  ASSUME NEW st, IsState(st), NEW t
  PROVE  IsInitOf(InitSession(st, t, TRUE), st, AllocateId(st, t))
<1>1. PICK s : s = AllocateId(st, t)
  OBVIOUS
<1>2. PICK mid : mid = MarkAllocated(st, s.serial)
  OBVIOUS
<1>3. /\ HasFields(mid)
      /\ mid.serials = IF s.serial = 0 THEN st.serials
                                       ELSE [st.serials EXCEPT ![s.serial] = TRUE]
      /\ mid.sessions = st.sessions /\ mid.pending = st.pending
      /\ mid.pairs = st.pairs /\ mid.running = st.running
      /\ mid.closes = st.closes /\ mid.out = st.out
      /\ mid.told = st.told /\ mid.accepts = st.accepts
  <2>1. HasFields(st)
    BY DEF IsState
  <2>2. CASE s.serial = 0
    BY <1>2, <2>1, <2>2 DEF MarkAllocated
  <2>3. CASE s.serial # 0
    <3>1. mid = [st EXCEPT !.serials[s.serial] = TRUE]
      BY <1>2, <2>3 DEF MarkAllocated
    <3> QED
      BY <2>1, <2>3, <3>1, Zenon DEF HasFields, Fields
  <2> QED
    BY <2>2, <2>3
<1>4. InitSession(st, t, TRUE) =
        [mid EXCEPT !.sessions = Emplace(@, GetId(s), s),
                    !.pending = Emplace(@, s, "handshake")]
  BY <1>1, <1>2 DEF InitSession
<1>5. PICK new : new = InitSession(st, t, TRUE)
  OBVIOUS
<1>6. /\ HasFields(new)
      /\ new.sessions = Emplace(mid.sessions, GetId(s), s)
      /\ new.pending = Emplace(mid.pending, s, "handshake")
      /\ new.serials = mid.serials
      /\ new.pairs = mid.pairs /\ new.running = mid.running
      /\ new.closes = mid.closes /\ new.out = mid.out
      /\ new.told = mid.told /\ new.accepts = mid.accepts
  BY <1>3, <1>4, <1>5, Zenon DEF HasFields, Fields
<1> QED
  BY <1>1, <1>3, <1>5, <1>6 DEF IsInitOf

\* A session with fresh letters enters the map under an id nobody has, or
\* under the empty id when the serial numbers are exhausted.
LEMMA ConstructedConsistent ==
  ASSUME NEW st, Consistent(st), NEW t \in Tails, Fresh(st, t)
  PROVE  Consistent(InitSession(st, t, TRUE))
<1>1. PICK s : s = AllocateId(st, t)
  OBVIOUS
<1>2. PICK new : new = InitSession(st, t, TRUE)
  OBVIOUS
<1>3. IsState(st) /\ IsMatched(st)
  BY DEF Consistent
<1>4. IsInitOf(new, st, s)
  BY <1>1, <1>2, <1>3, InitFields
<1>5. /\ s \in Session \ DOMAIN st.pending
      /\ \/ s.serial = 0 /\ st.serials[SERIAL_NUM_MAX]
         \/ s.serial \in 1..SERIAL_NUM_MAX /\ ~st.serials[s.serial]
  <2>1. s.serial = AllocateSerialNumber(st) /\ s.tail = t
    BY <1>1 DEF AllocateId
  <2>2. \/ s.serial = 0 /\ st.serials[SERIAL_NUM_MAX]
        \/ s.serial \in 1..SERIAL_NUM_MAX /\ ~st.serials[s.serial]
    BY <1>3, <2>1, SerialAllocated
  <2>3. s = [serial |-> s.serial, tail |-> t] /\ s.serial \in 0..SERIAL_NUM_MAX
    BY <1>1, <2>1, <2>2, MaxAssumption DEF AllocateId
  <2> QED
    BY <2>1, <2>2, <2>3 DEF Session, Fresh
<1>6. /\ DOMAIN new.pending = DOMAIN st.pending \cup {s}
      /\ new.pending \in [DOMAIN new.pending -> Ops]
  BY <1>3, <1>4, <1>5 DEF IsInitOf, Emplace, IsState, Ops
<1>7. /\ DOMAIN new.sessions = DOMAIN st.sessions \cup {GetId(s)}
      /\ \A i \in DOMAIN st.sessions : new.sessions[i] = st.sessions[i]
      /\ GetId(s) \notin DOMAIN st.sessions => new.sessions[GetId(s)] = s
      /\ new.sessions = [i \in DOMAIN new.sessions |-> new.sessions[i]]
  BY <1>4 DEF IsInitOf, Emplace
<1>8. GetId(s) \in Ids
  BY <1>5 DEF GetId, Ids
<1>9. \A i \in DOMAIN new.sessions : /\ new.sessions[i] \in DOMAIN new.pending
                                     /\ GetId(new.sessions[i]) = i
  BY <1>3, <1>6, <1>7 DEF IsState
<1>10. new.serials \in [1..SERIAL_NUM_MAX -> BOOLEAN]
  <2>1. st.serials \in [1..SERIAL_NUM_MAX -> BOOLEAN]
    BY <1>3 DEF IsState
  <2>2. new.serials \in {st.serials, [st.serials EXCEPT ![s.serial] = TRUE]}
    BY <1>4, Zenon DEF IsInitOf
  <2> QED
    BY <2>1, <2>2
<1>11. IsState(new)
  <2>1. /\ DOMAIN new.sessions \subseteq Ids
        /\ new.sessions \in [DOMAIN new.sessions -> DOMAIN new.pending]
    BY <1>3, <1>7, <1>8, <1>9 DEF IsState
  <2>2. DOMAIN new.pairs \subseteq Ids /\ new.pairs \in [DOMAIN new.pairs -> DOMAIN new.pending]
    BY <1>3, <1>4, <1>6 DEF IsInitOf, IsState
  <2> QED
    BY <1>3, <1>4, <1>5, <1>6, <1>9, <1>10, <2>1, <2>2 DEF IsInitOf, IsState
<1>12. IsFiniteSet(DOMAIN new.sessions)
  BY <1>7, FS_AddElement DEF Consistent
<1>13. IsMatched(new)
  BY <1>3, <1>4, <1>7 DEF IsInitOf, IsMatched
<1>14. SerialsHeld(new)
  <2> SUFFICES ASSUME new.running, NEW n \in 1..SERIAL_NUM_MAX - 1, new.serials[n]
               PROVE  \E i \in DOMAIN new.sessions : new.sessions[i].serial = n
    BY DEF SerialsHeld
  <2>1. CASE s.serial = n
    <3>1. GetId(s) = s
      BY <2>1 DEF GetId
    <3>2. s \notin DOMAIN st.sessions
      <4>1. \A x \in Session : GetId(x) = s => x = s
        BY <1>5, NoIdAssumption DEF GetId
      <4>2. s \in DOMAIN st.sessions =>
              st.sessions[s] \in DOMAIN st.pending /\ GetId(st.sessions[s]) = s
        BY <1>3 DEF IsState
      <4> QED
        BY <1>3, <1>5, <4>1, <4>2 DEF IsState
    <3> QED
      BY <1>7, <2>1, <3>1, <3>2
  <2>2. CASE s.serial # n
    <3>1. st.serials[n] /\ st.running
      BY <1>3, <1>4, <2>2, MaxAssumption DEF IsInitOf, IsState
    <3> QED
      BY <1>7, <3>1 DEF Consistent, SerialsHeld
  <2> QED
    BY <2>1, <2>2
<1>15. StopsWhenExhausted(new)
  <2>1. st.serials[SERIAL_NUM_MAX] => new.serials[SERIAL_NUM_MAX]
    BY <1>3, <1>4, <1>5, MaxAssumption DEF IsInitOf, IsState
  <2> QED
    BY <1>4, <1>5, <1>6, <2>1 DEF Consistent, StopsWhenExhausted, IsInitOf
<1>16. ClosedWereBorn(new)
  BY <1>4, <1>6 DEF Consistent, ClosedWereBorn, IsInitOf
<1>17. ForgetsClosed(new)
  BY <1>3, <1>4, <1>5, <1>7 DEF Consistent, ForgetsClosed, ClosedWereBorn, IsInitOf, IsState
<1> QED
  BY <1>2, <1>11, <1>12, <1>13, <1>14, <1>15, <1>16, <1>17 DEF Consistent

\* Without a session only the serial numbers and running may change, and of
\* the serial numbers at most the last one.
LEMMA RefusedFields ==
  ASSUME NEW st, IsState(st), NEW t \in Tails
  PROVE  LET new == InitSession(st, t, FALSE)
         IN  /\ HasFields(new)
             /\ new.serials \in [1..SERIAL_NUM_MAX -> BOOLEAN]
             /\ \A n \in 1..SERIAL_NUM_MAX - 1 : new.serials[n] => st.serials[n]
             /\ \A n \in 1..SERIAL_NUM_MAX : st.serials[n] => new.serials[n]
             /\ new.running \in BOOLEAN
             /\ new.running => st.running
             /\ ~new.running => ~st.running \/ new.serials[SERIAL_NUM_MAX]
             /\ new.sessions = st.sessions /\ new.pairs = st.pairs
             /\ new.pending = st.pending /\ new.closes = st.closes
             /\ new.out = st.out /\ new.told = st.told /\ new.accepts = st.accepts
<1>1. PICK s : s = AllocateId(st, t)
  OBVIOUS
<1>2. PICK mid : mid = MarkAllocated(st, s.serial)
  OBVIOUS
<1>3. PICK new : new = InitSession(st, t, FALSE)
  OBVIOUS
<1>4. HasFields(st) /\ IsState(st)
  BY DEF IsState
<1>5. /\ s \in Session
      /\ \/ s.serial = 0 /\ st.serials[SERIAL_NUM_MAX]
         \/ s.serial \in 1..SERIAL_NUM_MAX /\ ~st.serials[s.serial]
  <2>1. s.serial = AllocateSerialNumber(st) /\ s.tail = t
    BY <1>1 DEF AllocateId
  <2>2. \/ s.serial = 0 /\ st.serials[SERIAL_NUM_MAX]
        \/ s.serial \in 1..SERIAL_NUM_MAX /\ ~st.serials[s.serial]
    BY <1>4, <2>1, SerialAllocated
  <2>3. s = [serial |-> s.serial, tail |-> t] /\ s.serial \in 0..SERIAL_NUM_MAX
    BY <1>1, <2>1, <2>2, MaxAssumption DEF AllocateId
  <2> QED
    BY <2>1, <2>2, <2>3 DEF Session
<1>6. /\ HasFields(mid)
      /\ mid.serials = IF s.serial = 0 THEN st.serials
                                       ELSE [st.serials EXCEPT ![s.serial] = TRUE]
      /\ mid.sessions = st.sessions /\ mid.pending = st.pending
      /\ mid.pairs = st.pairs /\ mid.running = st.running
      /\ mid.closes = st.closes /\ mid.out = st.out
      /\ mid.told = st.told /\ mid.accepts = st.accepts
  <2>1. CASE s.serial = 0
    BY <1>2, <1>4, <2>1 DEF MarkAllocated
  <2>2. CASE s.serial # 0
    <3>1. mid = [st EXCEPT !.serials[s.serial] = TRUE]
      BY <1>2, <2>2 DEF MarkAllocated
    <3> QED
      BY <1>4, <2>2, <3>1, Zenon DEF HasFields, Fields
  <2> QED
    BY <2>1, <2>2
<1>7. new = ReleaseId(mid, s)
  BY <1>1, <1>2, <1>3 DEF InitSession
<1>8. mid.running \in BOOLEAN
  BY <1>4, <1>6 DEF IsState
<1>9. /\ HasFields(new)
      /\ new.running = (mid.running /\ s.serial # 0)
      /\ new.serials = IF s.serial \in 1..SERIAL_NUM_MAX - 1
                       THEN [mid.serials EXCEPT ![s.serial] = FALSE]
                       ELSE mid.serials
      /\ new.sessions = mid.sessions /\ new.pairs = mid.pairs
      /\ new.accepts = mid.accepts /\ new.pending = mid.pending
      /\ new.out = mid.out /\ new.told = mid.told /\ new.closes = mid.closes
  BY <1>5, <1>6, <1>7, <1>8, ReleaseFields
<1>10. /\ mid.serials \in [1..SERIAL_NUM_MAX -> BOOLEAN]
       /\ \A n \in 1..SERIAL_NUM_MAX : n # s.serial => mid.serials[n] = st.serials[n]
       /\ st.serials[SERIAL_NUM_MAX] => mid.serials[SERIAL_NUM_MAX]
  <2>1. CASE s.serial = 0
    BY <1>4, <1>6, <2>1 DEF IsState
  <2>2. CASE s.serial # 0
    BY <1>4, <1>5, <1>6, <2>2, MaxAssumption DEF IsState
  <2> QED
    BY <2>1, <2>2
<1>11. /\ new.serials \in [1..SERIAL_NUM_MAX -> BOOLEAN]
       /\ \A n \in 1..SERIAL_NUM_MAX - 1 : new.serials[n] => st.serials[n]
       /\ new.serials[SERIAL_NUM_MAX] = mid.serials[SERIAL_NUM_MAX]
  <2>1. CASE s.serial \in 1..SERIAL_NUM_MAX - 1
    <3>1. new.serials = [mid.serials EXCEPT ![s.serial] = FALSE]
      BY <1>9, <2>1
    <3>2. SERIAL_NUM_MAX \in 1..SERIAL_NUM_MAX /\ s.serial # SERIAL_NUM_MAX
          /\ 1..SERIAL_NUM_MAX - 1 \subseteq 1..SERIAL_NUM_MAX
      BY <2>1, MaxAssumption
    <3>3. \A n \in 1..SERIAL_NUM_MAX :
            new.serials[n] = IF n = s.serial THEN FALSE ELSE mid.serials[n]
      <4> DEFINE old == mid.serials
      <4>1. old \in [1..SERIAL_NUM_MAX -> BOOLEAN] /\ new.serials = [old EXCEPT ![s.serial] = FALSE]
        BY <1>10, <3>1
      <4> HIDE DEF old
      <4>2. \A n \in 1..SERIAL_NUM_MAX :
              new.serials[n] = IF n = s.serial THEN FALSE ELSE old[n]
        BY <4>1
      <4> QED
        BY <4>2 DEF old
    <3>4. new.serials \in [1..SERIAL_NUM_MAX -> BOOLEAN]
      BY <1>10, <3>1
    <3>5. \A n \in 1..SERIAL_NUM_MAX - 1 : new.serials[n] => st.serials[n]
      BY <1>10, <3>2, <3>3
    <3> QED
      BY <3>2, <3>3, <3>4, <3>5
  <2>2. CASE s.serial \notin 1..SERIAL_NUM_MAX - 1
    <3>1. new.serials = mid.serials
      BY <1>9, <2>2
    <3> QED
      BY <1>10, <2>2, <3>1, MaxAssumption
  <2> QED
    BY <2>1, <2>2
<1>12. \A n \in 1..SERIAL_NUM_MAX : st.serials[n] => new.serials[n]
  <2>1. CASE s.serial \in 1..SERIAL_NUM_MAX - 1
    <3>1. new.serials = [mid.serials EXCEPT ![s.serial] = FALSE] /\ ~st.serials[s.serial]
      BY <1>5, <1>9, <2>1
    <3>2. \A n \in 1..SERIAL_NUM_MAX : n # s.serial => new.serials[n] = mid.serials[n]
      BY <1>10, <3>1
    <3> QED
      BY <1>10, <3>1, <3>2
  <2>2. CASE s.serial \notin 1..SERIAL_NUM_MAX - 1
    <3>1. new.serials = mid.serials
      BY <1>9, <2>2
    <3>2. \A n \in 1..SERIAL_NUM_MAX : n = s.serial => n = SERIAL_NUM_MAX
      BY <2>2, MaxAssumption
    <3> QED
      BY <1>10, <3>1, <3>2
  <2> QED
    BY <2>1, <2>2
<1>13. /\ new.running \in BOOLEAN
       /\ new.running => st.running
       /\ ~new.running => ~st.running \/ new.serials[SERIAL_NUM_MAX]
  BY <1>5, <1>6, <1>8, <1>9, <1>10, <1>11
<1> QED
  BY <1>3, <1>6, <1>9, <1>11, <1>12, <1>13

\* So the invariant is kept when no session is born.
LEMMA RefusedConsistent ==
  ASSUME NEW st, Consistent(st), NEW t \in Tails
  PROVE  Consistent(InitSession(st, t, FALSE))
<1>1. PICK new : new = InitSession(st, t, FALSE)
  OBVIOUS
<1>2. IsState(st)
  BY DEF Consistent
<1>3. /\ HasFields(new)
      /\ new.serials \in [1..SERIAL_NUM_MAX -> BOOLEAN]
      /\ \A n \in 1..SERIAL_NUM_MAX - 1 : new.serials[n] => st.serials[n]
      /\ \A n \in 1..SERIAL_NUM_MAX : st.serials[n] => new.serials[n]
      /\ new.running \in BOOLEAN
      /\ new.running => st.running
      /\ ~new.running => ~st.running \/ new.serials[SERIAL_NUM_MAX]
      /\ new.sessions = st.sessions /\ new.pairs = st.pairs
      /\ new.pending = st.pending /\ new.closes = st.closes
      /\ new.out = st.out /\ new.told = st.told /\ new.accepts = st.accepts
  BY <1>1, <1>2, RefusedFields
<1>4. IsState(new)
  BY <1>2, <1>3 DEF IsState
<1>5. IsFiniteSet(DOMAIN new.sessions) /\ IsMatched(new)
  BY <1>3 DEF Consistent, IsMatched
<1>6. SerialsHeld(new)
  BY <1>3 DEF Consistent, SerialsHeld
<1>7. StopsWhenExhausted(new)
  <2>1. SERIAL_NUM_MAX \in 1..SERIAL_NUM_MAX
    BY MaxAssumption
  <2> QED
    BY <1>3, <2>1 DEF Consistent, StopsWhenExhausted
<1>8. ForgetsClosed(new) /\ ClosedWereBorn(new)
  BY <1>3 DEF Consistent, ForgetsClosed, ClosedWereBorn
<1> QED
  BY <1>1, <1>4, <1>5, <1>6, <1>7, <1>8 DEF Consistent

\* Whatever is outstanding before, an accept is when the handler is done.
LEMMA AcceptNextHolds ==
  ASSUME NEW st, Consistent(st)
  PROVE  Holds(AcceptNext(st))
<1>1. HasFields(st) /\ IsState(st)
  BY DEF Consistent, IsState
<1>2. CASE st.running /\ Size(st) < SERIAL_NUM_MAX
  <2>1. PICK new : new = [st EXCEPT !.accepts = @ + 1]
    OBVIOUS
  <2>2. /\ HasFields(new) /\ new.accepts = st.accepts + 1
        /\ new.serials = st.serials /\ new.sessions = st.sessions
        /\ new.pairs = st.pairs /\ new.running = st.running
        /\ new.closes = st.closes /\ new.pending = st.pending
        /\ new.told = st.told /\ new.out = st.out
    BY <1>1, <2>1, Zenon DEF HasFields, Fields
  <2>3. /\ st.out \in Seq([to : Session, msg : ServerMsgs])
        /\ st.pending \in [DOMAIN st.pending -> Ops]
        /\ st.told \in SUBSET Ids
        /\ st.accepts + 1 \in Nat /\ st.accepts + 1 > 0
    BY <1>1 DEF IsState
  <2>4. Consistent(new)
    BY <2>2, <2>3, SameMapsConsistent
  <2> QED
    BY <1>2, <2>1, <2>2, <2>3, <2>4 DEF AcceptNext, StartAccept, Holds, IsListening
<1>3. CASE ~(st.running /\ Size(st) < SERIAL_NUM_MAX)
  BY <1>3 DEF AcceptNext, Holds, IsListening
<1> QED
  BY <1>2, <1>3

-----------------------------------------------------------------------------
(* The completion handlers.                                                *)

\* A request for a connection: a pairing, a write to the partner that may close
\* it, and the reply to the requester that may close that one.
LEMMA RequestHolds ==
  ASSUME NEW st, Holds(st), NEW s \in DOMAIN st.pending, NEW target,
         NEW w \in WriteResults, NEW r \in WriteResults
  PROVE  /\ Holds(OnClientRequestConnection(st, s, target, w, r))
         /\ OnClientRequestConnection(st, s, target, w, r).pending = st.pending
<1>1. Reply(TRUE) \in ServerMsgs /\ Reply(FALSE) \in ServerMsgs
      /\ [type |-> "RemoteRequestConnection"] \in ServerMsgs
  BY DEF Reply, ServerMsgs
<1>2. CASE GetId(s) \notin DOMAIN st.sessions
  BY <1>2 DEF OnClientRequestConnection
<1>3. CASE GetId(s) \in DOMAIN st.sessions /\ Matchable(st, GetId(s), target)
  <2>1. PICK mid : mid = Match(st, GetId(s), target)
    OBVIOUS
  <2>2. Holds(mid) /\ mid.pending = st.pending
    BY <1>3, <2>1, MatchHolds
  <2>3. st.sessions[target] \in DOMAIN st.pending
    BY <1>3 DEF Matchable, Holds, Consistent, IsState
  <2>4. PICK mid2 : mid2 = SendMessage(mid, st.sessions[target],
                                       [type |-> "RemoteRequestConnection"], w)
    OBVIOUS
  <2>5. Holds(mid2) /\ mid2.pending = st.pending
    BY <1>1, <2>2, <2>3, <2>4, SendHolds
  <2>6. OnClientRequestConnection(st, s, target, w, r) = SendMessage(mid2, s, Reply(TRUE), r)
    BY <1>3, <2>1, <2>4, Zenon DEF OnClientRequestConnection
  <2>7. PICK last : last = SendMessage(mid2, s, Reply(TRUE), r)
    OBVIOUS
  <2>8. s \in DOMAIN mid2.pending
    BY <2>5
  <2>9. Holds(last) /\ last.pending = mid2.pending
    BY <1>1, <2>5, <2>7, <2>8, SendHolds
  <2> QED
    BY <2>5, <2>6, <2>7, <2>9
<1>4. CASE GetId(s) \in DOMAIN st.sessions /\ ~Matchable(st, GetId(s), target)
  <2>1. OnClientRequestConnection(st, s, target, w, r) = SendMessage(st, s, Reply(FALSE), r)
    BY <1>4 DEF OnClientRequestConnection
  <2> QED
    BY <1>1, <2>1, SendHolds
<1> QED
  BY <1>2, <1>3, <1>4

\* Forwarding to the partner.
LEMMA TransferHolds ==
  ASSUME NEW st, Holds(st), NEW s \in DOMAIN st.pending,
         NEW msg \in Exchanges, NEW w \in WriteResults
  PROVE  /\ Holds(TransferMsgToPair(st, s, msg, w))
         /\ TransferMsgToPair(st, s, msg, w).pending = st.pending
<1>1. CASE GetId(s) \in DOMAIN st.pairs /\ Lock(st, st.pairs[GetId(s)])
  <2>1. msg \in ServerMsgs /\ st.pairs[GetId(s)] \in DOMAIN st.pending
    BY <1>1 DEF ServerMsgs, Holds, Consistent, IsState
  <2>2. TransferMsgToPair(st, s, msg, w) = SendMessage(st, st.pairs[GetId(s)], msg, w)
    BY <1>1 DEF TransferMsgToPair
  <2> QED
    BY <2>1, <2>2, SendHolds
<1>2. CASE ~(GetId(s) \in DOMAIN st.pairs /\ Lock(st, st.pairs[GetId(s)]))
  BY <1>2 DEF TransferMsgToPair
<1> QED
  BY <1>1, <1>2

\* Any message of a client.
LEMMA ClientMsgHolds ==
  ASSUME NEW st, Holds(st), NEW s \in DOMAIN st.pending, NEW msg,
         NEW w \in WriteResults, NEW r \in WriteResults
  PROVE  /\ Holds(OnClientMsg(st, s, msg, w, r))
         /\ OnClientMsg(st, s, msg, w, r).pending = st.pending
<1>1. CASE msg.type = "RequestConnection"
  <2>1. msg \notin Exchanges
    BY <1>1 DEF Exchanges
  <2>2. OnClientMsg(st, s, msg, w, r) = OnClientRequestConnection(st, s, msg.id, w, r)
    BY <1>1, <2>1 DEF OnClientMsg
  <2> QED
    BY <2>2, RequestHolds
<1>2. CASE msg.type # "RequestConnection" /\ msg \in Exchanges
  <2>1. OnClientMsg(st, s, msg, w, r) = TransferMsgToPair(st, s, msg, w)
    BY <1>2 DEF OnClientMsg
  <2> QED
    BY <1>2, <2>1, TransferHolds
<1>3. CASE msg.type # "RequestConnection" /\ msg \notin Exchanges
  BY <1>3 DEF OnClientMsg
<1> QED
  BY <1>1, <1>2, <1>3

\* The id written after the handshake.
LEMMA SessionReadyHolds ==
  ASSUME NEW st, Holds(st), NEW s \in DOMAIN st.pending, NEW r \in WriteResults
  PROVE  /\ Holds(OnSessionReady(st, s, r))
         /\ OnSessionReady(st, s, r).pending = st.pending
<1>1. HasFields(st) /\ Consistent(st) /\ IsListening(st) /\ IsState(st)
  BY DEF Holds, Consistent, IsState
<1>2. PICK told : told = [st EXCEPT !.told = @ \cup {GetId(s)}]
  OBVIOUS
<1>3. GetId(s) \in Ids
  BY <1>1 DEF IsState, GetId, Ids
<1>4. /\ HasFields(told) /\ told.told = st.told \cup {GetId(s)}
      /\ told.serials = st.serials /\ told.sessions = st.sessions
      /\ told.pairs = st.pairs /\ told.running = st.running
      /\ told.closes = st.closes /\ told.pending = st.pending
      /\ told.out = st.out /\ told.accepts = st.accepts
  BY <1>1, <1>2, Zenon DEF HasFields, Fields
<1>5. /\ st.out \in Seq([to : Session, msg : ServerMsgs])
      /\ st.pending \in [DOMAIN st.pending -> Ops]
      /\ st.told \cup {GetId(s)} \in SUBSET Ids /\ st.accepts \in Nat
  BY <1>1, <1>3 DEF IsState
<1>6. Consistent(told)
  BY <1>1, <1>4, <1>5, SameMapsConsistent
<1>7. Holds(told) /\ told.pending = st.pending
  BY <1>1, <1>4, <1>6 DEF Holds, IsListening, Size
<1>8. PICK mid : mid = IF r = "ok" THEN told ELSE st
  OBVIOUS
<1>9. Holds(mid) /\ mid.pending = st.pending
  BY <1>7, <1>8
<1>10. [type |-> "UpdateSessionId", id |-> GetId(s)] \in ServerMsgs
  BY <1>3 DEF ServerMsgs
<1>11. OnSessionReady(st, s, r) =
         SendMessage(mid, s, [type |-> "UpdateSessionId", id |-> GetId(s)], r)
  BY <1>2, <1>8 DEF OnSessionReady
<1> QED
  BY <1>9, <1>10, <1>11, SendHolds

-----------------------------------------------------------------------------
(* The actions.                                                            *)

\* Taking a completed operation off the outstanding ones.
LEMMA CompletedHolds ==
  ASSUME Holds(server), NEW s \in DOMAIN server.pending
  PROVE  /\ Holds(Completed(s))
         /\ DOMAIN Completed(s).pending = DOMAIN server.pending
<1>1. HasFields(server) /\ Consistent(server) /\ IsListening(server) /\ IsState(server)
  BY DEF Holds, Consistent, IsState
<1>2. PICK new : new = Completed(s)
  OBVIOUS
<1>3. /\ HasFields(new) /\ new.pending = [server.pending EXCEPT ![s] = "none"]
      /\ new.out = << >>
      /\ new.serials = server.serials /\ new.sessions = server.sessions
      /\ new.pairs = server.pairs /\ new.running = server.running
      /\ new.closes = server.closes
      /\ new.told = server.told /\ new.accepts = server.accepts
  BY <1>1, <1>2, Zenon DEF HasFields, Fields, Completed
<1>4. /\ [server.pending EXCEPT ![s] = "none"] \in [DOMAIN server.pending -> Ops]
      /\ DOMAIN [server.pending EXCEPT ![s] = "none"] = DOMAIN server.pending
      /\ << >> \in Seq([to : Session, msg : ServerMsgs])
      /\ server.told \in SUBSET Ids /\ server.accepts \in Nat
  BY <1>1 DEF IsState, Ops
<1>5. Consistent(new)
  BY <1>1, <1>3, <1>4, SameMapsConsistent
<1> QED
  BY <1>1, <1>2, <1>3, <1>4, <1>5 DEF Holds, IsListening, Size

\* Taking an outstanding accept away keeps all but IsListening.
LEMMA AcceptedConsistent ==
  ASSUME Holds(server), server.accepts > 0
  PROVE  /\ Consistent(Accepted)
         /\ Accepted.pending = server.pending
<1>1. HasFields(server) /\ Consistent(server) /\ IsState(server)
  BY DEF Holds, Consistent, IsState
<1>2. PICK new : new = Accepted
  OBVIOUS
<1>3. /\ HasFields(new) /\ new.accepts = server.accepts - 1 /\ new.out = << >>
      /\ new.serials = server.serials /\ new.sessions = server.sessions
      /\ new.pairs = server.pairs /\ new.running = server.running
      /\ new.closes = server.closes /\ new.pending = server.pending
      /\ new.told = server.told
  BY <1>1, <1>2, Zenon DEF HasFields, Fields, Accepted
<1>4. /\ server.pending \in [DOMAIN server.pending -> Ops]
      /\ << >> \in Seq([to : Session, msg : ServerMsgs])
      /\ server.told \in SUBSET Ids /\ server.accepts - 1 \in Nat
  BY <1>1 DEF IsState
<1> QED
  BY <1>1, <1>2, <1>3, <1>4, SameMapsConsistent

\* The invariant holds of the server that has just started.
LEMMA InitHolds == Init => Holds(server)
<1> SUFFICES ASSUME Init PROVE Holds(server)
  OBVIOUS
<1>1. HasFields(server)
  BY Zenon DEF Init, HasFields, Fields
<1>2. /\ server.serials = [n \in 1..SERIAL_NUM_MAX |-> FALSE]
      /\ server.sessions = << >> /\ server.pairs = << >>
      /\ server.accepts = 1 /\ server.pending = << >>
      /\ server.running = TRUE /\ server.out = << >> /\ server.told = {}
      /\ server.closes = [s \in Session |-> 0]
  BY DEF Init
<1>3. DOMAIN << >> = {} /\ << >> \in [{} -> Session] /\ << >> \in [{} -> Ops]
      /\ << >> \in [{} -> {}]
  OBVIOUS
<1>4. IsState(server)
  <2>1. /\ server.serials \in [1..SERIAL_NUM_MAX -> BOOLEAN]
        /\ server.closes \in [Session -> Nat]
    BY <1>2
  <2>2. /\ DOMAIN server.pending = {} /\ server.pending \in [{} -> Ops]
        /\ DOMAIN server.sessions = {} /\ server.sessions \in [{} -> {}]
        /\ DOMAIN server.pairs = {} /\ server.pairs \in [{} -> {}]
    BY <1>2, <1>3
  <2>3. /\ server.accepts \in Nat /\ server.running \in BOOLEAN
        /\ server.out \in Seq([to : Session, msg : ServerMsgs])
        /\ server.told \in SUBSET Ids
    <3>1. << >> \in Seq([to : Session, msg : ServerMsgs])
      OBVIOUS
    <3>2. 1 \in Nat
      OBVIOUS
    <3> QED
      BY <1>2, <3>1, <3>2, Zenon
  <2> QED
    BY <1>1, <2>1, <2>2, <2>3 DEF IsState
<1>5. IsFiniteSet(DOMAIN server.sessions)
  BY <1>2, <1>3, FS_EmptySet
<1>6. IsMatched(server) /\ SerialsHeld(server)
  BY <1>2, <1>3, MaxAssumption DEF IsMatched, SerialsHeld
<1>7. StopsWhenExhausted(server) /\ ForgetsClosed(server) /\ ClosedWereBorn(server)
  BY <1>2, <1>3 DEF StopsWhenExhausted, ForgetsClosed, ClosedWereBorn
<1>8. IsListening(server)
  BY <1>2 DEF IsListening
<1> QED
  BY <1>4, <1>5, <1>6, <1>7, <1>8 DEF Holds, Consistent

\* Every completion handler preserves the invariant.
LEMMA NextHolds == Holds(server) /\ [Next]_vars => Holds(server')
<1> SUFFICES ASSUME Holds(server), [Next]_vars PROVE Holds(server')
  OBVIOUS
<1>1. ASSUME AcceptDone PROVE Holds(server')
  <2>1. PICK t \in Tails, constructed \in BOOLEAN :
               ~Born(t) /\ server' = OnAcceptDone(Accepted, t, constructed)
    BY <1>1 DEF AcceptDone
  <2>2. PICK mid : mid = Accepted
    OBVIOUS
  <2>3. Consistent(mid) /\ Fresh(mid, t)
    BY <1>1, <2>1, <2>2, AcceptedConsistent DEF AcceptDone, Born, Fresh
  <2>4. Consistent(InitSession(mid, t, constructed))
    BY <2>3, ConstructedConsistent, RefusedConsistent
  <2> QED
    BY <2>1, <2>2, <2>4, AcceptNextHolds DEF OnAcceptDone
<1>2. ASSUME AcceptError PROVE Holds(server')
  BY <1>2, AcceptedConsistent, AcceptNextHolds DEF AcceptError
<1>3. ASSUME NEW s \in Session, HandshakeDone(s) PROVE Holds(server')
  <2>1. PICK r \in WriteResults : server' = OnHandshakeDone(Completed(s), s, r)
    BY <1>3 DEF HandshakeDone
  <2>2. PICK mid : mid = Completed(s)
    OBVIOUS
  <2>3. Holds(mid) /\ s \in DOMAIN mid.pending
    BY <1>3, <2>2, CompletedHolds DEF HandshakeDone, Running
  <2>4. PICK mid2 : mid2 = OnSessionReady(mid, s, r)
    OBVIOUS
  <2>5. Holds(mid2) /\ s \in DOMAIN mid2.pending
    BY <2>3, <2>4, SessionReadyHolds
  <2>6. server' = Arm(mid2, s, "header") /\ "header" \in Ops
    BY <2>1, <2>2, <2>4 DEF OnHandshakeDone, StartRead, Ops
  <2> QED
    BY <2>5, <2>6, ArmHolds
<1>4. ASSUME NEW s \in Session, HeaderReadDone(s) PROVE Holds(server')
  <2>1. PICK tooShort \in BOOLEAN : server' = OnHeaderReadDone(Completed(s), s, tooShort)
    BY <1>4 DEF HeaderReadDone
  <2>2. PICK mid : mid = Completed(s)
    OBVIOUS
  <2>3. Holds(mid) /\ s \in DOMAIN mid.pending
    BY <1>4, <2>2, CompletedHolds DEF HeaderReadDone, Running
  <2>4. CASE tooShort
    BY <2>1, <2>2, <2>3, <2>4, CloseHolds DEF OnHeaderReadDone
  <2>5. CASE ~tooShort
    <3>1. server' = Arm(mid, s, "body") /\ "body" \in Ops
      BY <2>1, <2>2, <2>5 DEF OnHeaderReadDone, Ops
    <3> QED
      BY <2>3, <3>1, ArmHolds
  <2> QED
    BY <2>4, <2>5
<1>5. ASSUME NEW s \in Session, BodyReadDone(s) PROVE Holds(server')
  <2>1. PICK msg \in Sendable, w \in WriteResults, r \in WriteResults :
               server' = OnBodyReadDone(Completed(s), s, msg, w, r)
    BY <1>5 DEF BodyReadDone
  <2>2. PICK mid : mid = Completed(s)
    OBVIOUS
  <2>3. Holds(mid) /\ s \in DOMAIN mid.pending
    BY <1>5, <2>2, CompletedHolds DEF BodyReadDone, Running
  <2>4. PICK mid2 : mid2 = OnClientMsg(mid, s, msg, w, r)
    OBVIOUS
  <2>5. Holds(mid2) /\ s \in DOMAIN mid2.pending
    BY <2>3, <2>4, ClientMsgHolds
  <2>6. server' = Arm(mid2, s, "header") /\ "header" \in Ops
    BY <2>1, <2>2, <2>4 DEF OnBodyReadDone, StartRead, Ops
  <2> QED
    BY <2>5, <2>6, ArmHolds
<1>6. ASSUME NEW s \in Session, HandshakeFailed(s) PROVE Holds(server')
  <2>1. Holds(Completed(s)) /\ s \in DOMAIN Completed(s).pending
    BY <1>6, CompletedHolds DEF HandshakeFailed, Running
  <2>2. Holds(OnSessionClose(Completed(s), s))
    BY <2>1, CloseHolds
  <2> QED
    BY <1>6, <2>1, <2>2 DEF HandshakeFailed, OnHandshakeError
<1>7. ASSUME NEW s \in Session, ReadFailed(s) PROVE Holds(server')
  <2>1. Holds(Completed(s)) /\ s \in DOMAIN Completed(s).pending
    BY <1>7, CompletedHolds DEF ReadFailed, Running
  <2>2. Holds(OnSessionClose(Completed(s), s))
    BY <2>1, CloseHolds
  <2> QED
    BY <1>7, <2>1, <2>2 DEF ReadFailed, OnReadError
<1>8. CASE UNCHANGED vars
  BY <1>8 DEF vars
<1>9. CASE Next
  BY <1>1, <1>2, <1>3, <1>4, <1>5, <1>6, <1>7, <1>9, Zenon DEF Next
<1> QED
  BY <1>8, <1>9, Zenon

\* The inductive invariant: the type invariant, the matching, the accepts, the
\* serial numbers and the closed sessions depend on each other (a session in
\* the map is found under its own id only because the type says so, and the
\* map is finite) and are inductive together.
IInv == Holds(server)

\* Every reachable state of the server satisfies the inductive invariant.
THEOREM Invariance == Spec => []IInv
<1>1. Init => IInv
  BY InitHolds DEF IInv
<1>2. IInv /\ [Next]_vars => IInv'
  BY NextHolds DEF IInv
<1> QED
  BY <1>1, <1>2, PTL DEF Spec

\* The maps hold sessions under their own ids, whatever calls and errors
\* interleave, for every number of serial numbers and of clients.
THEOREM TypeCorrect == Spec => []TypeOK
<1>1. IInv => TypeOK
  BY DEF IInv, Holds, Consistent, TypeOK
<1> QED
  BY <1>1, Invariance, PTL

\* The pair map is always a matching of sessions in the session map.
THEOREM AlwaysMatched == Spec => []PairsMatched
<1>1. IInv => PairsMatched
  BY DEF IInv, Holds, Consistent, PairsMatched
<1> QED
  BY <1>1, Invariance, PTL

\* The server listens whenever there is room for another session.
THEOREM NeverDeaf == Spec => []ListeningWhileRoom
<1>1. IInv => ListeningWhileRoom
  BY DEF IInv, Holds, Consistent, ListeningWhileRoom
<1> QED
  BY <1>1, Invariance, PTL

\* Serial numbers below the last one are only marked while they are in use.
THEOREM SerialsComeBack == Spec => []NoSerialLeak
<1>1. IInv => NoSerialLeak
  BY DEF IInv, Holds, Consistent, NoSerialLeak
<1> QED
  BY <1>1, Invariance, PTL

\* Until the last serial number was handed out nothing stops the server.
THEOREM StopsOnlyExhausted == Spec => []StopNeedsExhaustion
<1>1. IInv => StopNeedsExhaustion
  BY DEF IInv, Holds, Consistent, StopNeedsExhaustion
<1> QED
  BY <1>1, Invariance, PTL

\* A session that was closed is in neither map again.
THEOREM ClosedStaysForgotten == Spec => []ClosedIsForgotten
<1>1. IInv => ClosedIsForgotten
  BY DEF IInv, Holds, Consistent, ClosedIsForgotten
<1> QED
  BY <1>1, Invariance, PTL

-----------------------------------------------------------------------------
(* What Holds leaves open: how often a session is closed, what a handler   *)
(* may write to, the chain of accepts, the action properties and the       *)
(* refinement of Matchmaking.  Strong is the invariant these need in       *)
(* addition to Holds.  Again there is one lemma per operator first, and    *)
(* then the theorems about the specification.                              *)

\* The elements of a sequence over a set belong to the set.
LEMMA ElementOfSequence ==
  ASSUME NEW X, NEW q \in Seq(X), NEW k \in DOMAIN q
  PROVE  q[k] \in X
OBVIOUS

ClosedOnceIn(st) == \A s \in Session : st.closes[s] <= 1

\* The close of a session without a serial number stops the process.
ClosedHadSerial(st) == st.running => \A s \in Session : st.closes[s] > 0 => s.serial # 0

\* A session with a serial number is in the map until it is closed.
OpenIsFiled(st) ==
  st.running => \A s \in DOMAIN st.pending :
                  s.serial # 0 /\ st.closes[s] = 0 => s \in DOMAIN st.sessions

\* A closed session may have one read outstanding, and closes again when it fails.
ClosesBounded(st) ==
  \A s \in Session : /\ st.closes[s] <= 2
                     /\ st.running /\ st.closes[s] = 2 => st.pending[s] = "none"

\* Before its handshake nobody knows a session, so nothing is written to it.
UnknownBeforeHandshake(st) ==
  st.running => \A s \in DOMAIN st.pending :
    st.pending[s] = "handshake" =>
      /\ st.closes[s] = 0
      /\ s.serial # 0 => s \notin st.told \cup DOMAIN st.pairs

ToldWereBorn(st) == st.told \subseteq DOMAIN st.pending \cup {NoId}

WrittenAreOpen(st) ==
  st.running => \A k \in DOMAIN st.out : st.closes[st.out[k].to] = 0

OneChain(st) ==
  st.running /\ ClosedOnceIn(st) =>
    /\ Size(st) <= SERIAL_NUM_MAX
    /\ st.accepts = IF Size(st) < SERIAL_NUM_MAX THEN 1 ELSE 0

\* The serial number of a session in the map is marked, and is its own.
OwnSerial(st) ==
  ClosedOnceIn(st) =>
    \A i \in DOMAIN st.sessions :
      /\ st.sessions[i].serial # 0 => st.serials[st.sessions[i].serial]
      /\ \A j \in DOMAIN st.sessions :
           st.sessions[i].serial = st.sessions[j].serial => i = j

\* All of it but the chain of accepts, which a handler for an accept interrupts.
Tidy(st) == /\ ClosedHadSerial(st)
            /\ OpenIsFiled(st)
            /\ ClosesBounded(st)
            /\ UnknownBeforeHandshake(st)
            /\ ToldWereBorn(st)
            /\ WrittenAreOpen(st)
            /\ OwnSerial(st)

Strong(st) == Tidy(st) /\ OneChain(st)

\* What a handler makes of the maps as long as nothing is added to them: sessions
\* leave and pairs are dissolved only by a close.
Shrinks(st, new) ==
  /\ \A s \in Session : new.closes[s] >= st.closes[s]
  /\ \A i \in DOMAIN new.pairs : i \in DOMAIN st.pairs /\ new.pairs[i] = st.pairs[i]
  /\ \A i \in DOMAIN st.pairs \ DOMAIN new.pairs :
       \E s \in Session : /\ GetId(s) \in {i, GetId(st.pairs[i])}
                          /\ new.closes[s] > st.closes[s]
  /\ DOMAIN new.sessions \subseteq DOMAIN st.sessions
  /\ \A i \in DOMAIN new.sessions : new.sessions[i] = st.sessions[i]
  /\ new.running =>
       \A i \in DOMAIN st.sessions \ DOMAIN new.sessions :
         new.closes[st.sessions[i]] > st.closes[st.sessions[i]]
  /\ new.running => st.running

\* The parts of a handler add up.
LEMMA ShrinksTransitive ==
  ASSUME NEW a, NEW b, NEW c, IsState(a), IsState(b), IsState(c),
         Shrinks(a, b), Shrinks(b, c)
  PROVE  Shrinks(a, c)
<1>1. \A s \in Session : a.closes[s] \in Nat /\ b.closes[s] \in Nat /\ c.closes[s] \in Nat
  BY DEF IsState
<1>2. \A s \in Session : c.closes[s] >= a.closes[s]
  BY <1>1 DEF Shrinks
<1>3. /\ \A i \in DOMAIN c.pairs : i \in DOMAIN a.pairs /\ c.pairs[i] = a.pairs[i]
      /\ \A i \in DOMAIN a.pairs \ DOMAIN c.pairs :
           \E s \in Session : /\ GetId(s) \in {i, GetId(a.pairs[i])}
                              /\ c.closes[s] > a.closes[s]
  BY <1>1 DEF Shrinks
<1>4. /\ DOMAIN c.sessions \subseteq DOMAIN a.sessions
      /\ \A i \in DOMAIN c.sessions : c.sessions[i] = a.sessions[i]
      /\ c.running => a.running
  BY DEF Shrinks
<1>5. ASSUME c.running, NEW i \in DOMAIN a.sessions \ DOMAIN c.sessions
      PROVE  c.closes[a.sessions[i]] > a.closes[a.sessions[i]]
  <2>1. a.sessions[i] \in Session
    BY DEF IsState
  <2>2. CASE i \in DOMAIN b.sessions
    BY <1>1, <1>5, <2>1, <2>2 DEF Shrinks
  <2>3. CASE i \notin DOMAIN b.sessions
    BY <1>1, <1>5, <2>1, <2>3 DEF Shrinks
  <2> QED
    BY <2>2, <2>3
<1> QED
  BY <1>2, <1>3, <1>4, <1>5 DEF Shrinks

\* The same with the maps as they are.
LEMMA ShrinksSame ==
  ASSUME NEW st, NEW new, IsState(st), new.sessions = st.sessions,
         new.pairs = st.pairs, new.closes = st.closes, new.running = st.running
  PROVE  Shrinks(st, new)
BY DEF Shrinks, IsState

-----------------------------------------------------------------------------
(* Closing.                                                                *)

\* When OnSessionClose may be called: by the handler of a read or a handshake of
\* the session, or by a write to it, in a handler that wrote nothing to it before.
Closable(st, s) ==
  /\ st.running
  /\ s \in DOMAIN st.pending
  /\ st.closes[s] <= 1
  /\ st.closes[s] = 1 => st.pending[s] = "none"
  /\ st.pending[s] = "handshake" => s.serial = 0
  /\ \A k \in DOMAIN st.out : st.out[k].to # s

\* A session in the map is the one its id names.
LEMMA FiledUnderItself ==
  ASSUME NEW st, IsState(st), NEW s \in Session, s.serial # 0
  PROVE  /\ GetId(s) = s
         /\ s \in DOMAIN st.sessions => st.sessions[s] = s
         /\ \A i \in DOMAIN st.sessions : st.sessions[i] = s => i = s
         /\ \A t \in Session : GetId(t) = s => t = s
<1>1. GetId(s) = s
  BY DEF GetId
<1>2. \A t \in Session : GetId(t) = s => t = s
  BY NoIdAssumption DEF GetId
<1> QED
  BY <1>1, <1>2 DEF IsState

\* What closing changes, for a session that may be closed.
LEMMA CloseChanges ==
  ASSUME NEW st, IsState(st), NEW s, Closable(st, s), NEW new, IsCloseOf(new, st, s)
  PROVE  /\ s \in Session
         /\ \A u \in Session :
              /\ st.closes[u] \in Nat
              /\ new.closes[u] = IF u = s THEN st.closes[s] + 1 ELSE st.closes[u]
         /\ new.pending = st.pending /\ new.told = st.told /\ new.out = st.out
         /\ new.running <=> s.serial # 0
         /\ new.running =>
              /\ GetId(s) = s
              /\ DOMAIN new.sessions = DOMAIN st.sessions \ {s}
              /\ \A i \in DOMAIN new.sessions : new.sessions[i] = st.sessions[i]
         /\ ~new.running => /\ new.sessions = st.sessions
                            /\ new.serials = st.serials
         /\ DOMAIN new.pairs \subseteq DOMAIN st.pairs
         /\ \A i \in DOMAIN new.pairs : new.pairs[i] = st.pairs[i]
<1>1. s \in Session /\ st.closes \in [Session -> Nat] /\ st.running
  BY DEF IsState, Closable
<1>2. new.closes = [st.closes EXCEPT ![s] = @ + 1]
  BY DEF IsCloseOf
<1>3. new.running <=> s.serial # 0
  BY <1>1 DEF IsCloseOf
<1>4. new.running => GetId(s) = s
  BY <1>3 DEF GetId
<1>5. new.running => new.sessions = Erase(st.sessions, {GetId(s)})
  BY DEF IsCloseOf
<1>6. ~new.running => new.sessions = st.sessions /\ new.serials = st.serials
  <2>1. ~new.running => s.serial \notin 1..SERIAL_NUM_MAX - 1
    BY <1>3, MaxAssumption
  <2> QED
    BY <2>1 DEF IsCloseOf
<1>7. new.pairs = Erase(st.pairs, {GetId(s)} \cup PartnerIds(st, GetId(s)))
      /\ new.pending = st.pending /\ new.told = st.told /\ new.out = st.out
  BY DEF IsCloseOf
<1>8. /\ DOMAIN new.pairs \subseteq DOMAIN st.pairs
      /\ \A i \in DOMAIN new.pairs : new.pairs[i] = st.pairs[i]
  BY <1>7 DEF Erase, Restrict
<1>9. new.running =>
        /\ DOMAIN new.sessions = DOMAIN st.sessions \ {s}
        /\ \A i \in DOMAIN new.sessions : new.sessions[i] = st.sessions[i]
  BY <1>4, <1>5 DEF Erase, Restrict
<1>10. \A u \in Session : /\ st.closes[u] \in Nat
                          /\ new.closes[u] = IF u = s THEN st.closes[s] + 1 ELSE st.closes[u]
  BY <1>1, <1>2
<1> QED
  BY <1>1, <1>3, <1>4, <1>6, <1>7, <1>8, <1>9, <1>10, Zenon

\* Closing keeps the serial numbers of the other sessions marked.
LEMMA CloseOwnSerial ==
  ASSUME NEW st, Consistent(st), Tidy(st), NEW s, Closable(st, s),
         NEW new, IsCloseOf(new, st, s)
  PROVE  OwnSerial(new)
<1>1. IsState(st) /\ IsState(new)
  BY CloseIsState DEF Consistent, Closable
<1>2. SUFFICES ASSUME ClosedOnceIn(new) PROVE OwnSerial(new)
  BY DEF OwnSerial
<1>3. ClosedOnceIn(st) /\ st.closes[s] = 0 /\ s \in Session
  BY <1>1, <1>2, CloseChanges DEF ClosedOnceIn
<1>4. CASE ~new.running
  BY <1>1, <1>3, <1>4, CloseChanges DEF OwnSerial, Tidy
<1>5. CASE new.running
  <2>1. /\ s.serial # 0 /\ GetId(s) = s /\ s \in DOMAIN st.sessions /\ st.sessions[s] = s
        /\ DOMAIN new.sessions = DOMAIN st.sessions \ {s}
        /\ \A i \in DOMAIN new.sessions : new.sessions[i] = st.sessions[i]
    BY <1>1, <1>3, <1>5, CloseChanges, FiledUnderItself
       DEF Tidy, OpenIsFiled, Closable
  <2>2. /\ new.serials = IF s.serial \in 1..SERIAL_NUM_MAX - 1
                         THEN [st.serials EXCEPT ![s.serial] = FALSE] ELSE st.serials
        /\ st.serials \in [1..SERIAL_NUM_MAX -> BOOLEAN]
    BY <1>1 DEF IsCloseOf, IsState
  <2>3. \A n \in 1..SERIAL_NUM_MAX : n # s.serial => new.serials[n] = st.serials[n]
    BY <2>2
  <2>4. \A i \in DOMAIN st.sessions : st.sessions[i].serial \in 0..SERIAL_NUM_MAX
    BY <1>1 DEF IsState, Session
  <2>5. \A i \in DOMAIN st.sessions :
          /\ st.sessions[i].serial # 0 => st.serials[st.sessions[i].serial]
          /\ \A j \in DOMAIN st.sessions :
               st.sessions[i].serial = st.sessions[j].serial => i = j
    BY <1>3 DEF Tidy, OwnSerial
  <2>6. ASSUME NEW i \in DOMAIN new.sessions
        PROVE  new.sessions[i].serial # 0 => new.serials[new.sessions[i].serial]
    <3>1. i \in DOMAIN st.sessions /\ i # s /\ new.sessions[i] = st.sessions[i]
      BY <2>1, <2>6
    <3>2. st.sessions[i].serial # s.serial
      BY <2>1, <2>5, <3>1
    <3>3. st.sessions[i].serial # 0 => st.sessions[i].serial \in 1..SERIAL_NUM_MAX
      BY <2>4, <3>1, MaxAssumption
    <3> QED
      BY <2>3, <2>5, <3>1, <3>2, <3>3
  <2> QED
    BY <2>1, <2>5, <2>6 DEF OwnSerial
<1> QED
  BY <1>4, <1>5

\* The close that makes room starts the next accept, and no other does, as long
\* as no session is closed twice (Server.cpp:142).
LEMMA CloseOneChain ==
  ASSUME NEW st, Consistent(st), Strong(st), NEW s, Closable(st, s),
         NEW new, IsCloseOf(new, st, s)
  PROVE  OneChain(new)
<1>1. IsState(st) /\ IsFiniteSet(DOMAIN st.sessions)
  BY DEF Consistent
<1>2. SUFFICES ASSUME new.running, ClosedOnceIn(new)
               PROVE  /\ Size(new) <= SERIAL_NUM_MAX
                      /\ new.accepts = IF Size(new) < SERIAL_NUM_MAX THEN 1 ELSE 0
  BY DEF OneChain
<1>3. ClosedOnceIn(st) /\ st.closes[s] = 0 /\ s \in Session /\ s.serial # 0
  BY <1>1, <1>2, CloseChanges DEF ClosedOnceIn
<1>4. s \in DOMAIN st.sessions /\ DOMAIN new.sessions = DOMAIN st.sessions \ {s}
  BY <1>1, <1>2, <1>3, CloseChanges DEF Strong, Tidy, OpenIsFiled, Closable
<1>5. Size(new) = Size(st) - 1 /\ Size(st) \in Nat /\ Size(new) \in Nat
  BY <1>1, <1>4, FS_RemoveElement, FS_CardinalityType DEF Size
<1>6. /\ Size(st) <= SERIAL_NUM_MAX
      /\ st.accepts = IF Size(st) < SERIAL_NUM_MAX THEN 1 ELSE 0
  BY <1>3 DEF Strong, OneChain, Closable
<1>7. new.accepts = IF Size(new) = SERIAL_NUM_MAX - 1 THEN st.accepts + 1 ELSE st.accepts
  BY <1>2 DEF IsCloseOf
<1> QED
  BY <1>5, <1>6, <1>7, MaxAssumption

\* Closing preserves the whole of it, and dissolves only the pair of the session.
LEMMA CloseStrong ==
  ASSUME NEW st, Holds(st), Strong(st), NEW s, Closable(st, s),
         NEW new, new = OnSessionClose(st, s)
  PROVE  /\ Strong(new) /\ Holds(new)
         /\ Shrinks(st, new)
         /\ IsCloseOf(new, st, s)
<1>1. IsState(st) /\ IsMatched(st) /\ Consistent(st) /\ s \in DOMAIN st.pending
  BY DEF Holds, Consistent, Closable
<1>2. IsCloseOf(new, st, s) /\ Holds(new)
  BY <1>1, CloseFields, CloseHolds
<1>3. ClosedHadSerial(new)
  BY <1>1, <1>2, CloseChanges DEF Strong, Tidy, ClosedHadSerial, Closable
<1>4. DOMAIN st.pending \subseteq Session /\ st.out \in Seq([to : Session, msg : ServerMsgs])
  BY <1>1 DEF IsState
<1>5. OpenIsFiled(new)
  BY <1>1, <1>2, <1>4, CloseChanges DEF Strong, Tidy, OpenIsFiled, Closable
<1>6. ClosesBounded(new)
  BY <1>1, <1>2, CloseChanges DEF Strong, Tidy, ClosesBounded, Closable
<1>7. UnknownBeforeHandshake(new)
  BY <1>1, <1>2, <1>4, CloseChanges DEF Strong, Tidy, UnknownBeforeHandshake, Closable
<1>8. WrittenAreOpen(new)
  <2>1. \A k \in DOMAIN st.out : st.out[k].to \in Session
    <3>1. \A k \in DOMAIN st.out : st.out[k] \in [to : Session, msg : ServerMsgs]
      BY <1>4, ElementOfSequence
    <3> QED
      BY <3>1
  <2>2. \A k \in DOMAIN st.out : st.out[k].to # s
    BY DEF Closable
  <2> QED
    BY <1>1, <1>2, <2>1, <2>2, CloseChanges DEF Strong, Tidy, WrittenAreOpen, Closable
<1>9. OwnSerial(new) /\ OneChain(new) /\ ToldWereBorn(new)
  BY <1>1, <1>2, CloseOwnSerial, CloseOneChain, CloseChanges DEF Strong, Tidy, ToldWereBorn
<1>10. Shrinks(st, new)
  <2>1. \A u \in Session : new.closes[u] >= st.closes[u]
    BY <1>1, <1>2, CloseChanges
  <2>2. ASSUME NEW i \in DOMAIN st.pairs, i \notin DOMAIN new.pairs
        PROVE  \E u \in Session : /\ GetId(u) \in {i, GetId(st.pairs[i])}
                                  /\ new.closes[u] > st.closes[u]
    <3>1. i \in {GetId(s)} \cup PartnerIds(st, GetId(s))
      BY <1>2, <2>2 DEF IsCloseOf, Erase, Restrict
    <3>2. i \in PartnerIds(st, GetId(s)) => GetId(st.pairs[i]) = GetId(s)
      BY <1>1, PartnerOf DEF PartnerIds, IsMatched, IsState
    <3>3. s \in Session /\ new.closes[s] > st.closes[s]
      BY <1>1, <1>2, CloseChanges
    <3> QED
      BY <3>1, <3>2, <3>3
  <2>3. /\ DOMAIN new.sessions \subseteq DOMAIN st.sessions
        /\ \A i \in DOMAIN new.sessions : new.sessions[i] = st.sessions[i]
        /\ new.running => st.running
    BY <1>1, <1>2, CloseChanges DEF Closable
  <2>4. ASSUME new.running, NEW i \in DOMAIN st.sessions \ DOMAIN new.sessions
        PROVE  new.closes[st.sessions[i]] > st.closes[st.sessions[i]]
    BY <1>1, <1>2, <2>4, CloseChanges, FiledUnderItself
  <2>5. \A i \in DOMAIN new.pairs : i \in DOMAIN st.pairs /\ new.pairs[i] = st.pairs[i]
    BY <1>1, <1>2, CloseChanges
  <2> QED
    BY <2>1, <2>2, <2>3, <2>4, <2>5 DEF Shrinks
<1> QED
  BY <1>2, <1>3, <1>5, <1>6, <1>7, <1>8, <1>9, <1>10 DEF Strong, Tidy

-----------------------------------------------------------------------------
(* The other operators.                                                    *)

\* Nothing but out, told and the outstanding operations changes.
SameMaps(new, st) ==
  /\ HasFields(new)
  /\ new.serials = st.serials /\ new.sessions = st.sessions /\ new.pairs = st.pairs
  /\ new.running = st.running /\ new.closes = st.closes /\ new.accepts = st.accepts
  /\ DOMAIN new.pending = DOMAIN st.pending

\* With the maps the same, what is left to show is about these.
LEMMA SameMapsStrong ==
  ASSUME NEW st, Strong(st), NEW new, SameMaps(new, st),
         ClosesBounded(new), UnknownBeforeHandshake(new),
         ToldWereBorn(new), WrittenAreOpen(new)
  PROVE  Strong(new)
<1>1. ClosedHadSerial(new) /\ OpenIsFiled(new)
  BY DEF Strong, Tidy, SameMaps, ClosedHadSerial, OpenIsFiled
<1>2. OwnSerial(new) /\ OneChain(new)
  BY DEF Strong, Tidy, SameMaps, OwnSerial, OneChain, ClosedOnceIn, Size
<1> QED
  BY <1>1, <1>2 DEF Strong, Tidy

\* Whom a handler may write to: a session that is not closed, that completed its
\* handshake, or has no serial number, and that it has not written to.
Writable(st, s) ==
  /\ s \in DOMAIN st.pending
  /\ st.running => /\ st.closes[s] = 0
                   /\ st.pending[s] = "handshake" => s.serial = 0
                   /\ \A k \in DOMAIN st.out : st.out[k].to # s

\* A write that succeeded, one that changed nothing, and one that closed.
LEMMA SendCases ==
  ASSUME NEW st, IsState(st), NEW s \in DOMAIN st.pending,
         NEW msg, NEW result \in WriteResults,
         NEW new, new = SendMessage(st, s, msg, result)
  PROVE  \/ new = st /\ (st.running => result # "ok")
         \/ /\ st.running /\ result = "ok"
            /\ SameMaps(new, st)
            /\ new.pending = st.pending /\ new.told = st.told
            /\ new.out = Append(st.out, [to |-> s, msg |-> msg])
         \/ /\ st.running /\ result = "closing"
            /\ new = OnSessionClose(st, s)
<1>1. CASE ~st.running
  BY <1>1 DEF SendMessage
<1>2. CASE st.running /\ result = "ok"
  <2>1. new = [st EXCEPT !.out = Append(@, [to |-> s, msg |-> msg])]
    BY <1>2 DEF SendMessage
  <2>2. HasFields(st)
    BY DEF IsState
  <2>3. /\ HasFields(new) /\ new.out = Append(st.out, [to |-> s, msg |-> msg])
        /\ new.serials = st.serials /\ new.sessions = st.sessions
        /\ new.pairs = st.pairs /\ new.running = st.running
        /\ new.closes = st.closes /\ new.pending = st.pending
        /\ new.told = st.told /\ new.accepts = st.accepts
    BY <2>1, <2>2, Zenon DEF HasFields, Fields
  <2> QED
    BY <1>2, <2>3 DEF SameMaps
<1>3. CASE st.running /\ result = "closing"
  BY <1>3 DEF SendMessage, OnWriteError
<1>4. CASE st.running /\ result = "other"
  BY <1>4 DEF SendMessage, OnWriteError
<1> QED
  BY <1>1, <1>2, <1>3, <1>4 DEF WriteResults, Faults

\* A write keeps the invariant and touches no session but the one written to.
LEMMA SendStrong ==
  ASSUME NEW st, Holds(st), Strong(st), NEW s, Writable(st, s),
         NEW msg \in ServerMsgs, NEW result \in WriteResults,
         NEW new, new = SendMessage(st, s, msg, result)
  PROVE  /\ Strong(new) /\ Holds(new)
         /\ Shrinks(st, new)
         /\ new.pending = st.pending /\ new.told = st.told
         /\ \A u \in Session : u # s => new.closes[u] = st.closes[u]
         /\ new.closes[s] <= 1 \/ ~new.running
         /\ \A k \in DOMAIN new.out :
              \/ new.out[k] = [to |-> s, msg |-> msg] /\ new.closes = st.closes
              \/ k \in DOMAIN st.out /\ new.out[k] = st.out[k]
<1>1. IsState(st) /\ s \in DOMAIN st.pending /\ s \in Session
  BY DEF Holds, Consistent, Writable, IsState
<1>2. Holds(new) /\ new.pending = st.pending
  BY <1>1, SendHolds
<1>3. CASE new = st
  BY <1>1, <1>2, <1>3, ShrinksSame DEF Writable
<1>4. CASE /\ st.running /\ SameMaps(new, st)
           /\ new.told = st.told
           /\ new.out = Append(st.out, [to |-> s, msg |-> msg])
  <2>1. st.out \in Seq([to : Session, msg : ServerMsgs])
    BY <1>1 DEF IsState
  <2>2. \A k \in DOMAIN new.out :
          \/ new.out[k] = [to |-> s, msg |-> msg]
          \/ k \in DOMAIN st.out /\ new.out[k] = st.out[k]
    <3>1. PICK q : q = st.out
      OBVIOUS
    <3>2. q \in Seq([to : Session, msg : ServerMsgs])
      BY <2>1, <3>1
    <3>3. PICK e : e = [to |-> s, msg |-> msg]
      OBVIOUS
    <3>4. \A k \in DOMAIN Append(q, e) :
            (k \in DOMAIN q /\ Append(q, e)[k] = q[k]) \/ Append(q, e)[k] = e
      BY <3>2
    <3> QED
      BY <1>4, <3>1, <3>3, <3>4
  <2>3. WrittenAreOpen(new)
    BY <1>4, <2>2 DEF Strong, Tidy, WrittenAreOpen, SameMaps, Writable
  <2>4. ClosesBounded(new) /\ UnknownBeforeHandshake(new) /\ ToldWereBorn(new)
    BY <1>2, <1>4 DEF Strong, Tidy, SameMaps, ClosesBounded, UnknownBeforeHandshake,
                      ToldWereBorn
  <2>5. Strong(new)
    BY <1>4, <2>3, <2>4, SameMapsStrong
  <2>6. Shrinks(st, new)
    BY <1>1, <1>4, ShrinksSame DEF SameMaps
  <2> QED
    BY <1>2, <1>4, <2>2, <2>5, <2>6 DEF SameMaps, Writable
<1>5. CASE st.running /\ new = OnSessionClose(st, s)
  <2>1. Closable(st, s)
    BY <1>5 DEF Writable, Closable
  <2>2. Strong(new) /\ Shrinks(st, new) /\ IsCloseOf(new, st, s)
    BY <1>5, <2>1, CloseStrong
  <2>3. /\ new.told = st.told /\ new.out = st.out
        /\ \A u \in Session : new.closes[u] = IF u = s THEN st.closes[s] + 1 ELSE st.closes[u]
    BY <1>1, <2>1, <2>2, CloseChanges
  <2> QED
    BY <1>1, <1>2, <1>5, <2>2, <2>3 DEF Writable
<1> QED
  BY <1>1, <1>3, <1>4, <1>5, SendCases

\* A session of which the next read is outstanding.
IsArmOf(new, st, s, op) ==
  /\ new.sessions = st.sessions /\ new.pairs = st.pairs /\ new.out = st.out
  /\ new.closes = st.closes /\ new.running = st.running
  /\ DOMAIN new.pending = DOMAIN st.pending
  /\ \A u \in DOMAIN st.pending : u # s => new.pending[u] = st.pending[u]
  /\ st.running => new.pending[s] = op

\* The next read; a session that was closed twice is not given one.
LEMMA ArmStrong ==
  ASSUME NEW st, Holds(st), Strong(st), NEW s \in DOMAIN st.pending,
         st.running => st.closes[s] <= 1, NEW op \in {"header", "body"},
         NEW new, new = Arm(st, s, op)
  PROVE  /\ Strong(new) /\ Holds(new)
         /\ Shrinks(st, new)
         /\ IsArmOf(new, st, s, op)
<1>1. IsState(st) /\ HasFields(st) /\ op \in Ops
  BY DEF Holds, Consistent, IsState, Ops
<1>2. Holds(new)
  BY <1>1, ArmHolds
<1>3. CASE ~st.running
  <2>1. new = st
    BY <1>3 DEF Arm
  <2> QED
    BY <1>1, <1>2, <1>3, <2>1, ShrinksSame DEF IsArmOf
<1>4. CASE st.running
  <2>1. new = [st EXCEPT !.pending[s] = op]
    BY <1>4 DEF Arm
  <2>2. /\ HasFields(new) /\ new.pending = [st.pending EXCEPT ![s] = op]
        /\ new.serials = st.serials /\ new.sessions = st.sessions
        /\ new.pairs = st.pairs /\ new.running = st.running
        /\ new.closes = st.closes /\ new.out = st.out
        /\ new.told = st.told /\ new.accepts = st.accepts
    BY <1>1, <2>1, Zenon DEF HasFields, Fields
  <2>3. /\ SameMaps(new, st)
        /\ \A u \in DOMAIN st.pending : new.pending[u] = IF u = s THEN op ELSE st.pending[u]
    BY <2>2 DEF SameMaps
  <2>4. ClosesBounded(new)
    <3>1. \A u \in Session : st.closes[u] = 2 => u \in DOMAIN st.pending
      BY DEF Holds, Consistent, ClosedWereBorn
    <3> QED
      BY <1>4, <2>2, <2>3, <3>1 DEF Strong, Tidy, ClosesBounded
  <2>5. UnknownBeforeHandshake(new) /\ ToldWereBorn(new) /\ WrittenAreOpen(new)
    BY <2>2, <2>3 DEF Strong, Tidy, UnknownBeforeHandshake, ToldWereBorn, WrittenAreOpen
  <2>6. Strong(new) /\ Shrinks(st, new)
    BY <1>1, <2>2, <2>3, <2>4, <2>5, SameMapsStrong, ShrinksSame
  <2>7. IsArmOf(new, st, s, op)
    BY <1>4, <2>2 DEF IsArmOf
  <2> QED
    BY <1>2, <2>6, <2>7
<1> QED
  BY <1>3, <1>4

\* No session with this id waits for its handshake.
PastHandshake(st, i) == \A s \in DOMAIN st.pending : s = i => st.pending[s] # "handshake"

\* Two sessions that were not paired are paired, and nothing else changes.
IsMatchOf(new, st, i, target) ==
  /\ HasFields(new)
  /\ DOMAIN new.pairs = DOMAIN st.pairs \cup {i, target}
  /\ new.pairs[i] = st.sessions[target] /\ new.pairs[target] = st.sessions[i]
  /\ \A k \in DOMAIN st.pairs : new.pairs[k] = st.pairs[k]
  /\ new.serials = st.serials /\ new.sessions = st.sessions
  /\ new.pending = st.pending /\ new.running = st.running
  /\ new.closes = st.closes /\ new.out = st.out
  /\ new.told = st.told /\ new.accepts = st.accepts

\* Match, field by field.
LEMMA MatchFields ==
  ASSUME NEW st, IsState(st), NEW i \in DOMAIN st.sessions, NEW target,
         Matchable(st, i, target), NEW new, new = Match(st, i, target)
  PROVE  IsMatchOf(new, st, i, target)
<1> DEFINE pairs == Emplace(Emplace(st.pairs, i, st.sessions[target]),
                            target, st.sessions[i])
<1>1. /\ HasFields(st)
      /\ i # target /\ i \notin DOMAIN st.pairs /\ target \notin DOMAIN st.pairs
  BY DEF IsState, Matchable
<1>2. /\ DOMAIN pairs = DOMAIN st.pairs \cup {i, target}
      /\ pairs[i] = st.sessions[target] /\ pairs[target] = st.sessions[i]
      /\ \A k \in DOMAIN st.pairs : pairs[k] = st.pairs[k]
  BY <1>1 DEF Emplace
<1> HIDE DEF pairs
<1>3. new = [st EXCEPT !.pairs = pairs]
  BY DEF Match, pairs
<1>4. /\ HasFields(new) /\ new.pairs = pairs
      /\ new.serials = st.serials /\ new.sessions = st.sessions
      /\ new.pending = st.pending /\ new.running = st.running
      /\ new.closes = st.closes /\ new.out = st.out
      /\ new.told = st.told /\ new.accepts = st.accepts
  BY <1>1, <1>3, Zenon DEF HasFields, Fields
<1> QED
  BY <1>2, <1>4 DEF IsMatchOf

\* A new pair, of sessions that completed their handshakes or have no number.
LEMMA MatchStrong ==
  ASSUME NEW st, Holds(st), Strong(st), NEW i \in DOMAIN st.sessions, NEW target,
         Matchable(st, i, target),
         PastHandshake(st, i), PastHandshake(st, target),
         NEW new, new = Match(st, i, target)
  PROVE  /\ Strong(new) /\ Holds(new)
         /\ IsMatchOf(new, st, i, target)
<1>1. IsMatchOf(new, st, i, target)
  BY MatchFields DEF Holds, Consistent
<1>2. Holds(new)
  BY MatchHolds DEF Matchable
<1>3. UnknownBeforeHandshake(new)
  BY <1>1 DEF Strong, Tidy, UnknownBeforeHandshake, PastHandshake, IsMatchOf
<1>4. ClosedHadSerial(new) /\ OpenIsFiled(new) /\ ClosesBounded(new)
      /\ ToldWereBorn(new) /\ WrittenAreOpen(new)
  BY <1>1 DEF Strong, Tidy, ClosedHadSerial, OpenIsFiled, ClosesBounded, ToldWereBorn,
              WrittenAreOpen, IsMatchOf
<1>5. OwnSerial(new) /\ OneChain(new)
  BY <1>1 DEF Strong, Tidy, OwnSerial, OneChain, ClosedOnceIn, Size, IsMatchOf
<1> QED
  BY <1>1, <1>2, <1>3, <1>4, <1>5 DEF Strong, Tidy

-----------------------------------------------------------------------------
(* Accepting.                                                              *)

\* A new session is outstanding in its handshake, and filed unless it has the empty
\* id and that is taken.
Adds(st, new) ==
  /\ \A u \in DOMAIN st.pending : u \in DOMAIN new.pending /\ new.pending[u] = st.pending[u]
  /\ \A u \in DOMAIN new.pending \ DOMAIN st.pending : new.pending[u] = "handshake"
  /\ \A i \in DOMAIN st.sessions : new.sessions[i] = st.sessions[i]
  /\ \E s \in Session \ DOMAIN st.pending :
       /\ DOMAIN new.sessions = DOMAIN st.sessions \cup {GetId(s)}
       /\ GetId(s) \notin DOMAIN st.sessions => new.sessions[GetId(s)] = s

\* A session that is constructed gets a serial number no session in the map has,
\* or the place of the empty id if nobody has that.
LEMMA ConstructedTidy ==
  ASSUME NEW st, Consistent(st), Tidy(st), NEW t \in Tails, Fresh(st, t), st.running,
         NEW new, new = InitSession(st, t, TRUE)
  PROVE  /\ Tidy(new)
         /\ new.running = st.running /\ new.closes = st.closes
         /\ new.pairs = st.pairs /\ new.accepts = st.accepts
         /\ new.out = st.out
         /\ Adds(st, new)
<1>1. PICK s : s = AllocateId(st, t)
  OBVIOUS
<1>2. IsState(st) /\ IsMatched(st) /\ HasFields(st)
  BY DEF Consistent, IsState
<1>3. IsInitOf(new, st, s)
  BY <1>1, <1>2, InitFields
<1>4. /\ s \in Session \ DOMAIN st.pending
      /\ \/ s.serial = 0
         \/ s.serial \in 1..SERIAL_NUM_MAX /\ ~st.serials[s.serial]
  <2>1. s.serial = AllocateSerialNumber(st) /\ s.tail = t
    BY <1>1 DEF AllocateId
  <2>2. \/ s.serial = 0
        \/ s.serial \in 1..SERIAL_NUM_MAX /\ ~st.serials[s.serial]
    BY <1>2, <2>1, SerialAllocated
  <2>3. s = [serial |-> s.serial, tail |-> t] /\ s.serial \in 0..SERIAL_NUM_MAX
    BY <1>1, <2>1, <2>2, MaxAssumption DEF AllocateId
  <2> QED
    BY <2>1, <2>2, <2>3 DEF Session, Fresh
<1>5. /\ new.pending = Emplace(st.pending, s, "handshake")
      /\ new.sessions = Emplace(st.sessions, GetId(s), s)
  BY <1>3 DEF IsInitOf
<1>6. /\ DOMAIN new.pending = DOMAIN st.pending \cup {s}
      /\ new.pending[s] = "handshake"
      /\ \A u \in DOMAIN st.pending : new.pending[u] = st.pending[u]
  <2>1. s \notin DOMAIN st.pending
    BY <1>4
  <2>2. PICK f : f = Emplace(st.pending, s, "handshake")
    OBVIOUS
  <2>3. /\ DOMAIN f = DOMAIN st.pending \cup {s} /\ f[s] = "handshake"
        /\ \A u \in DOMAIN st.pending : f[u] = st.pending[u]
    BY <2>1, <2>2 DEF Emplace
  <2> QED
    BY <1>5, <2>2, <2>3
<1>7. /\ DOMAIN new.sessions = DOMAIN st.sessions \cup {GetId(s)}
      /\ \A i \in DOMAIN st.sessions : new.sessions[i] = st.sessions[i]
      /\ GetId(s) \notin DOMAIN st.sessions => new.sessions[GetId(s)] = s
  BY <1>5 DEF Emplace
<1>8. /\ new.pairs = st.pairs /\ new.running = st.running
      /\ new.closes = st.closes /\ new.out = st.out
      /\ new.told = st.told /\ new.accepts = st.accepts
      /\ new.serials = IF s.serial = 0 THEN st.serials
                                       ELSE [st.serials EXCEPT ![s.serial] = TRUE]
  BY <1>3 DEF IsInitOf
<1>9. s.serial # 0 => GetId(s) = s /\ s \notin DOMAIN st.sessions /\ s # NoId
  <2>1. s \in DOMAIN st.sessions => st.sessions[s] \in DOMAIN st.pending
    BY <1>2 DEF IsState
  <2> QED
    BY <1>2, <1>4, <2>1, FiledUnderItself, NoIdAssumption
<1>10. st.closes[s] = 0
  BY <1>2, <1>4 DEF Consistent, ClosedWereBorn, IsState
<1>11. ClosedHadSerial(new) /\ WrittenAreOpen(new) /\ ToldWereBorn(new)
  <2>1. ToldWereBorn(new)
    BY <1>6, <1>8 DEF Tidy, ToldWereBorn
  <2>2. ClosedHadSerial(new)
    <3>1. ClosedHadSerial(st)
      BY DEF Tidy
    <3> QED
      BY <1>8, <3>1 DEF ClosedHadSerial
  <2>3. WrittenAreOpen(new)
    <3>1. WrittenAreOpen(st)
      BY DEF Tidy
    <3>2. new.running = st.running /\ new.out = st.out /\ new.closes = st.closes
      BY <1>8
    <3> QED
      BY <3>1, <3>2 DEF WrittenAreOpen
  <2> QED
    BY <2>1, <2>2, <2>3
<1>12. OpenIsFiled(new)
  BY <1>6, <1>7, <1>8, <1>9 DEF Tidy, OpenIsFiled
<1>13. ClosesBounded(new)
  <2>1. \A u \in Session : st.closes[u] = 2 => u \in DOMAIN st.pending
    BY DEF Consistent, ClosedWereBorn
  <2> QED
    BY <1>6, <1>8, <2>1 DEF Tidy, ClosesBounded
<1>14. UnknownBeforeHandshake(new)
  <2>1. s.serial # 0 => s \notin st.told \cup DOMAIN st.pairs
    BY <1>2, <1>4, <1>9 DEF Tidy, ToldWereBorn, IsMatched
  <2> QED
    BY <1>6, <1>8, <1>10, <2>1 DEF Tidy, UnknownBeforeHandshake
<1>15. OwnSerial(new)
  <2>1. SUFFICES ASSUME ClosedOnceIn(st) PROVE OwnSerial(new)
    BY <1>8 DEF OwnSerial, ClosedOnceIn
  <2>2. \A i \in DOMAIN st.sessions :
          /\ st.sessions[i] \in Session /\ GetId(st.sessions[i]) = i
          /\ st.sessions[i].serial # 0 => st.serials[st.sessions[i].serial]
          /\ \A j \in DOMAIN st.sessions :
               st.sessions[i].serial = st.sessions[j].serial => i = j
    BY <1>2, <2>1 DEF Tidy, OwnSerial, IsState
  <2>3. CASE s.serial = 0
    <3>1. GetId(s) = NoId /\ \A u \in Session : u.serial = 0 => GetId(u) = NoId
      BY <2>3 DEF GetId
    <3>2. new.serials = st.serials
      BY <1>8, <2>3
    <3>3. \A i \in DOMAIN new.sessions :
            i \in DOMAIN st.sessions \/ (i = NoId /\ NoId \notin DOMAIN st.sessions)
      BY <1>7, <3>1
    <3>4. \A i \in DOMAIN st.sessions : st.sessions[i].serial = 0 => i = NoId
      BY <2>2, <3>1
    <3>5. NoId \notin DOMAIN st.sessions => new.sessions[NoId].serial = 0
      BY <1>7, <2>3, <3>1
    <3>6. ASSUME NEW i \in DOMAIN new.sessions, NEW j \in DOMAIN new.sessions,
                 new.sessions[i].serial = new.sessions[j].serial
          PROVE  i = j
      <4>1. CASE i \in DOMAIN st.sessions /\ j \in DOMAIN st.sessions
        <5>1. st.sessions[i].serial = st.sessions[j].serial
          BY <1>7, <3>6, <4>1
        <5> QED
          BY <2>2, <4>1, <5>1
      <4>2. CASE i \in DOMAIN st.sessions /\ j \notin DOMAIN st.sessions
        <5>1. new.sessions[j].serial = 0 /\ new.sessions[i] = st.sessions[i]
          BY <1>7, <3>3, <3>5, <4>2
        <5> QED
          BY <3>3, <3>4, <3>6, <4>2, <5>1
      <4>3. CASE i \notin DOMAIN st.sessions /\ j \in DOMAIN st.sessions
        <5>1. new.sessions[i].serial = 0 /\ new.sessions[j] = st.sessions[j]
          BY <1>7, <3>3, <3>5, <4>3
        <5> QED
          BY <3>3, <3>4, <3>6, <4>3, <5>1
      <4> QED
        BY <3>3, <4>1, <4>2, <4>3
    <3>7. ASSUME NEW i \in DOMAIN new.sessions, new.sessions[i].serial # 0
          PROVE  new.serials[new.sessions[i].serial]
      BY <1>7, <2>2, <3>2, <3>3, <3>5, <3>7
    <3> QED
      BY <3>6, <3>7 DEF OwnSerial
  <2>4. CASE s.serial # 0
    <3>1. \A i \in DOMAIN st.sessions : st.sessions[i].serial # s.serial
      BY <1>4, <2>2, <2>4
    <3>2. /\ st.serials \in [1..SERIAL_NUM_MAX -> BOOLEAN]
          /\ new.serials = [st.serials EXCEPT ![s.serial] = TRUE]
      BY <1>2, <1>8, <2>4 DEF IsState
    <3>3. \A n \in 1..SERIAL_NUM_MAX : new.serials[n] = (n = s.serial \/ st.serials[n])
      BY <1>4, <2>4, <3>2
    <3>4. \A i \in DOMAIN st.sessions : st.sessions[i].serial # 0 =>
            st.sessions[i].serial \in 1..SERIAL_NUM_MAX
      BY <2>2, MaxAssumption DEF Session
    <3>5. /\ DOMAIN new.sessions = DOMAIN st.sessions \cup {s}
          /\ new.sessions[s] = s
      BY <1>7, <1>9, <2>4
    <3>6. ASSUME NEW i \in DOMAIN new.sessions, new.sessions[i].serial # 0
          PROVE  new.serials[new.sessions[i].serial]
      <4>1. CASE i = s
        BY <1>4, <2>4, <3>3, <3>5, <4>1
      <4>2. CASE i \in DOMAIN st.sessions
        <5>1. PICK n : n = st.sessions[i].serial
          OBVIOUS
        <5>2. new.sessions[i].serial = n /\ n # 0
          BY <1>7, <3>6, <4>2, <5>1
        <5>3. n \in 1..SERIAL_NUM_MAX /\ st.serials[n]
          BY <2>2, <3>4, <4>2, <5>1, <5>2
        <5> QED
          BY <3>3, <5>2, <5>3
      <4> QED
        BY <3>5, <4>1, <4>2
    <3>7. ASSUME NEW i \in DOMAIN new.sessions, NEW j \in DOMAIN new.sessions,
                 new.sessions[i].serial = new.sessions[j].serial
          PROVE  i = j
      <4>1. CASE i \in DOMAIN st.sessions /\ j \in DOMAIN st.sessions
        <5>1. st.sessions[i].serial = st.sessions[j].serial
          BY <1>7, <3>7, <4>1
        <5> QED
          BY <2>2, <4>1, <5>1
      <4>2. CASE i = s \/ j = s
        BY <1>7, <3>1, <3>5, <3>7, <4>2
      <4> QED
        BY <3>5, <4>1, <4>2
    <3> QED
      BY <3>6, <3>7 DEF OwnSerial
  <2> QED
    BY <2>3, <2>4
<1>16. Adds(st, new)
  BY <1>4, <1>6, <1>7 DEF Adds
<1> QED
  BY <1>8, <1>11, <1>12, <1>13, <1>14, <1>15, <1>16 DEF Tidy

\* A session that is not constructed takes its serial number at most from the last.
LEMMA RefusedTidy ==
  ASSUME NEW st, IsState(st), Tidy(st), NEW t \in Tails,
         NEW new, new = InitSession(st, t, FALSE)
  PROVE  /\ Tidy(new)
         /\ new.running => st.running
         /\ new.sessions = st.sessions /\ new.pairs = st.pairs
         /\ new.pending = st.pending /\ new.closes = st.closes
         /\ new.out = st.out /\ new.accepts = st.accepts
<1>1. /\ \A n \in 1..SERIAL_NUM_MAX : st.serials[n] => new.serials[n]
      /\ new.running => st.running
      /\ new.sessions = st.sessions /\ new.pairs = st.pairs
      /\ new.pending = st.pending /\ new.closes = st.closes
      /\ new.out = st.out /\ new.told = st.told /\ new.accepts = st.accepts
  BY RefusedFields
<1>2. ClosedHadSerial(new) /\ OpenIsFiled(new)
  BY <1>1 DEF Tidy, ClosedHadSerial, OpenIsFiled
<1>3. ClosesBounded(new) /\ UnknownBeforeHandshake(new)
  <2>1. ClosesBounded(new)
    BY <1>1 DEF Tidy, ClosesBounded
  <2>2. UnknownBeforeHandshake(new)
    BY <1>1 DEF Tidy, UnknownBeforeHandshake
  <2> QED
    BY <2>1, <2>2
<1>4. ToldWereBorn(new) /\ WrittenAreOpen(new)
  BY <1>1 DEF Tidy, ToldWereBorn, WrittenAreOpen
<1>5. OwnSerial(new)
  <2>1. \A i \in DOMAIN st.sessions : st.sessions[i].serial \in 0..SERIAL_NUM_MAX
    BY DEF IsState, Session
  <2>2. \A i \in DOMAIN st.sessions :
          st.sessions[i].serial # 0 => st.sessions[i].serial \in 1..SERIAL_NUM_MAX
    BY <2>1, MaxAssumption
  <2>3. ClosedOnceIn(new) => ClosedOnceIn(st)
    BY <1>1 DEF ClosedOnceIn
  <2>4. SUFFICES ASSUME ClosedOnceIn(new), NEW i \in DOMAIN new.sessions
                 PROVE  /\ new.sessions[i].serial # 0 => new.serials[new.sessions[i].serial]
                        /\ \A j \in DOMAIN new.sessions :
                             new.sessions[i].serial = new.sessions[j].serial => i = j
    BY DEF OwnSerial
  <2>5. /\ st.sessions[i].serial # 0 => st.serials[st.sessions[i].serial]
        /\ \A j \in DOMAIN st.sessions :
             st.sessions[i].serial = st.sessions[j].serial => i = j
    BY <1>1, <2>3, <2>4 DEF Tidy, OwnSerial
  <2> QED
    BY <1>1, <2>2, <2>4, <2>5
<1> QED
  BY <1>1, <1>2, <1>3, <1>4, <1>5 DEF Tidy

\* The chain of accepts goes on when the map has room.
LEMMA AcceptNextStrong ==
  ASSUME NEW st, IsState(st), IsFiniteSet(DOMAIN st.sessions), Tidy(st),
         st.running /\ ClosedOnceIn(st) => Size(st) <= SERIAL_NUM_MAX /\ st.accepts = 0,
         NEW new, new = AcceptNext(st)
  PROVE  /\ Strong(new)
         /\ new.sessions = st.sessions /\ new.pairs = st.pairs
         /\ new.pending = st.pending /\ new.closes = st.closes
         /\ new.running = st.running /\ new.out = st.out
<1>1. Size(st) \in Nat
  BY FS_CardinalityType DEF Size
<1>2. CASE st.running /\ Size(st) < SERIAL_NUM_MAX
  <2>1. new = [st EXCEPT !.accepts = @ + 1] /\ HasFields(st)
    BY <1>2 DEF AcceptNext, StartAccept, IsState
  <2>2. /\ HasFields(new) /\ new.accepts = st.accepts + 1
        /\ new.serials = st.serials /\ new.sessions = st.sessions
        /\ new.pairs = st.pairs /\ new.running = st.running
        /\ new.closes = st.closes /\ new.pending = st.pending
        /\ new.told = st.told /\ new.out = st.out
    BY <2>1, Zenon DEF HasFields, Fields
  <2>3. ClosedHadSerial(new) /\ OpenIsFiled(new) /\ ClosesBounded(new)
        /\ UnknownBeforeHandshake(new) /\ ToldWereBorn(new) /\ WrittenAreOpen(new)
        /\ OwnSerial(new)
    BY <2>2 DEF Tidy, ClosedHadSerial, OpenIsFiled, ClosesBounded, UnknownBeforeHandshake,
                ToldWereBorn, WrittenAreOpen, OwnSerial, ClosedOnceIn
  <2>4. OneChain(new)
    BY <1>1, <1>2, <2>2, MaxAssumption DEF OneChain, ClosedOnceIn, Size
  <2> QED
    BY <2>2, <2>3, <2>4 DEF Strong, Tidy
<1>3. CASE ~(st.running /\ Size(st) < SERIAL_NUM_MAX)
  <2>1. new = st
    BY <1>3 DEF AcceptNext
  <2>2. OneChain(new)
    BY <1>1, <1>3, <2>1 DEF OneChain
  <2> QED
    BY <2>1, <2>2 DEF Strong
<1> QED
  BY <1>2, <1>3

\* What a handler finds: an accept less, or an operation less, nothing written.
LEMMA AcceptedFields ==
  ASSUME Holds(server), Strong(server), server.accepts > 0, NEW new, new = Accepted
  PROVE  /\ Tidy(new) /\ Consistent(new)
         /\ new.sessions = server.sessions /\ new.pairs = server.pairs
         /\ new.pending = server.pending /\ new.closes = server.closes
         /\ new.running = server.running /\ new.accepts = server.accepts - 1
         /\ new.out = << >>
<1>1. HasFields(server)
  BY DEF Holds, Consistent, IsState
<1>2. /\ HasFields(new) /\ new.accepts = server.accepts - 1 /\ new.out = << >>
      /\ new.serials = server.serials /\ new.sessions = server.sessions
      /\ new.pairs = server.pairs /\ new.running = server.running
      /\ new.closes = server.closes /\ new.pending = server.pending
      /\ new.told = server.told
  BY <1>1, Zenon DEF HasFields, Fields, Accepted
<1>3. ClosedHadSerial(new) /\ OpenIsFiled(new) /\ ClosesBounded(new)
      /\ UnknownBeforeHandshake(new) /\ ToldWereBorn(new) /\ WrittenAreOpen(new)
      /\ OwnSerial(new)
  BY <1>2 DEF Strong, Tidy, ClosedHadSerial, OpenIsFiled, ClosesBounded,
              UnknownBeforeHandshake, ToldWereBorn, WrittenAreOpen, OwnSerial, ClosedOnceIn
<1> QED
  BY <1>2, <1>3, AcceptedConsistent DEF Tidy

\* The same for a completed operation of a session.
LEMMA CompletedStrong ==
  ASSUME Holds(server), Strong(server), NEW s \in DOMAIN server.pending,
         NEW new, new = Completed(s)
  PROVE  /\ Strong(new) /\ Holds(new)
         /\ Shrinks(server, new)
         /\ new.sessions = server.sessions /\ new.pairs = server.pairs
         /\ DOMAIN new.pending = DOMAIN server.pending
         /\ \A u \in DOMAIN server.pending :
              new.pending[u] = IF u = s THEN "none" ELSE server.pending[u]
         /\ new.closes = server.closes /\ new.running = server.running
         /\ new.told = server.told /\ new.out = << >>
<1>1. HasFields(server) /\ IsState(server)
  BY DEF Holds, Consistent, IsState
<1>2. /\ HasFields(new) /\ new.pending = [server.pending EXCEPT ![s] = "none"]
      /\ new.out = << >>
      /\ new.serials = server.serials /\ new.sessions = server.sessions
      /\ new.pairs = server.pairs /\ new.running = server.running
      /\ new.closes = server.closes
      /\ new.told = server.told /\ new.accepts = server.accepts
  BY <1>1, Zenon DEF HasFields, Fields, Completed
<1>3. /\ SameMaps(new, server)
      /\ \A u \in DOMAIN server.pending :
           new.pending[u] = IF u = s THEN "none" ELSE server.pending[u]
  BY <1>2 DEF SameMaps
<1>4. ClosesBounded(new)
  <2>1. \A u \in Session : server.closes[u] = 2 => u \in DOMAIN server.pending
    BY DEF Holds, Consistent, ClosedWereBorn
  <2> QED
    BY <1>2, <1>3, <2>1 DEF Strong, Tidy, ClosesBounded
<1>5. UnknownBeforeHandshake(new) /\ ToldWereBorn(new) /\ WrittenAreOpen(new)
  BY <1>2, <1>3 DEF Strong, Tidy, UnknownBeforeHandshake, ToldWereBorn, WrittenAreOpen
<1>6. Strong(new) /\ Shrinks(server, new) /\ Holds(new)
  BY <1>1, <1>2, <1>3, <1>4, <1>5, SameMapsStrong, ShrinksSame, CompletedHolds
<1> QED
  BY <1>2, <1>3, <1>6 DEF SameMaps

-----------------------------------------------------------------------------
(* The completion handlers.                                                *)

\* While the server runs no session whose id is in the map was closed.
LEMMA FiledIsOpen ==
  ASSUME NEW st, Holds(st), Strong(st), st.running
  PROVE  /\ \A s \in Session : GetId(s) \in DOMAIN st.sessions => st.closes[s] = 0
         /\ \A i \in DOMAIN st.sessions : st.closes[st.sessions[i]] = 0
<1>1. IsState(st) /\ ForgetsClosed(st)
  BY DEF Holds, Consistent
<1>2. \A s \in Session : st.closes[s] \in Nat
  BY <1>1 DEF IsState
<1>3. ASSUME NEW i \in DOMAIN st.sessions PROVE st.closes[st.sessions[i]] = 0
  <2>1. st.sessions[i] \in Session
    BY <1>1 DEF IsState
  <2> QED
    BY <1>1, <1>2, <2>1 DEF ForgetsClosed
<1>4. ASSUME NEW s \in Session, GetId(s) \in DOMAIN st.sessions PROVE st.closes[s] = 0
  <2>1. CASE s.serial = 0
    BY <1>2, <2>1 DEF Strong, Tidy, ClosedHadSerial
  <2>2. CASE s.serial # 0
    <3>1. GetId(s) = s /\ st.sessions[s] = s
      BY <1>1, <1>4, <2>2, FiledUnderItself
    <3> QED
      BY <1>3, <1>4, <3>1
  <2> QED
    BY <2>1, <2>2
<1> QED
  BY <1>3, <1>4

\* The state in which the handler of a read calls the server: the operation is
\* completed and nothing is written.
Handling(st, s) ==
  /\ Holds(st) /\ Strong(st) /\ st.running
  /\ s \in DOMAIN st.pending /\ st.pending[s] = "none"
  /\ st.closes[s] <= 1
  /\ st.out = << >>

\* Who is asked for by an id that its owner was told is past its handshake.
LEMMA TargetWritable ==
  ASSUME NEW st, NEW s, Handling(st, s), NEW target \in st.told \cup {NoId},
         GetId(s) \in DOMAIN st.sessions, Matchable(st, GetId(s), target)
  PROVE  /\ st.sessions[target] \in Session \ {s}
         /\ Writable(st, st.sessions[target])
         /\ GetId(st.sessions[target]) = target
         /\ PastHandshake(st, GetId(s)) /\ PastHandshake(st, target)
<1>1. IsState(st) /\ target \in DOMAIN st.sessions /\ GetId(s) # target
      /\ s \in Session /\ Holds(st) /\ Strong(st) /\ st.running
  BY DEF Handling, Matchable, Holds, Consistent, IsState
<1>2. PICK v : v = st.sessions[target]
  OBVIOUS
<1>3. v \in DOMAIN st.pending /\ v \in Session /\ GetId(v) = target /\ v # s
  BY <1>1, <1>2 DEF IsState
<1>4. st.closes[v] = 0
  BY <1>1, <1>2, FiledIsOpen
<1>5. v.serial # 0 => v = target /\ v # NoId
  BY <1>3, NoIdAssumption DEF GetId
<1>6. st.pending[v] = "handshake" => v.serial = 0
  BY <1>1, <1>3, <1>5 DEF Strong, Tidy, UnknownBeforeHandshake
<1>7. \A k \in DOMAIN st.out : FALSE
  BY DEF Handling
<1>8. ASSUME NEW u \in DOMAIN st.pending, u \in {GetId(s), target}
      PROVE  st.pending[u] # "handshake"
  <2>1. u \in Session /\ u # NoId
    BY <1>1, <1>8, NoIdAssumption DEF IsState
  <2>2. CASE u = GetId(s)
    BY <2>1, <2>2 DEF GetId, Handling
  <2>3. CASE u = target
    BY <1>3, <1>6, <2>1, <2>3 DEF GetId
  <2> QED
    BY <1>8, <2>2, <2>3
<1> QED
  BY <1>2, <1>3, <1>4, <1>6, <1>7, <1>8 DEF Writable, PastHandshake

\* A request that pairs: from the pairing on the maps only shrink, by closes of
\* the two, and the reply is written only when the requester was not closed.
PairedBy(st, new, s, target) ==
  /\ GetId(s) \in DOMAIN st.sessions
  /\ Matchable(st, GetId(s), target)
  /\ target = GetId(st.sessions[target]) /\ st.sessions[target] \in Session \ {s}
  /\ Shrinks(Match(st, GetId(s), target), new)
  /\ \A u \in Session \ {s, st.sessions[target]} : new.closes[u] = st.closes[u]
  /\ \A k \in DOMAIN new.out : new.out[k].msg = Reply(TRUE) =>
       new.out[k].to = s /\ new.closes[s] = st.closes[s]

\* Any other handler of a message.
NotPairing(st, new) ==
  /\ Shrinks(st, new)
  /\ \A k \in DOMAIN new.out : new.out[k].msg # Reply(TRUE)

\* Requests, whichever writes fail.
LEMMA RequestStrong ==
  ASSUME NEW st, NEW s, Handling(st, s), NEW target \in st.told \cup {NoId},
         NEW w \in WriteResults, NEW r \in WriteResults,
         NEW new, new = OnClientRequestConnection(st, s, target, w, r)
  PROVE  /\ Strong(new) /\ Holds(new) /\ new.pending = st.pending
         /\ new.closes[s] <= 1 \/ ~new.running
         /\ NotPairing(st, new) \/ PairedBy(st, new, s, target)
<1>1. IsState(st) /\ s \in DOMAIN st.pending /\ s \in Session
      /\ Holds(st) /\ Strong(st) /\ st.running /\ DOMAIN st.out = {}
  BY DEF Handling, Holds, Consistent, IsState
<1>2. PICK yes, no, request : /\ yes = Reply(TRUE) /\ no = Reply(FALSE)
                              /\ request = [type |-> "RemoteRequestConnection"]
  OBVIOUS
<1>3. /\ yes \in ServerMsgs /\ no \in ServerMsgs /\ request \in ServerMsgs
      /\ no # yes /\ request # yes
  <2>1. yes.success # no.success /\ yes.type # request.type
    BY <1>2 DEF Reply
  <2>2. yes \in ServerMsgs /\ no \in ServerMsgs /\ request \in ServerMsgs
    BY <1>2 DEF Reply, ServerMsgs
  <2> QED
    BY <2>1, <2>2
<1>4. \A u, m : [to |-> u, msg |-> m].to = u /\ [to |-> u, msg |-> m].msg = m
  OBVIOUS
<1>5. CASE GetId(s) \notin DOMAIN st.sessions
  <2>1. new = st
    BY <1>5 DEF OnClientRequestConnection
  <2> QED
    BY <1>1, <2>1, ShrinksSame DEF NotPairing, Handling
<1>6. CASE GetId(s) \in DOMAIN st.sessions /\ ~Matchable(st, GetId(s), target)
  <2>1. new = SendMessage(st, s, no, r)
    BY <1>2, <1>6 DEF OnClientRequestConnection
  <2>2. Writable(st, s)
    BY <1>1, <1>6, FiledIsOpen DEF Writable, Handling
  <2>3. /\ Strong(new) /\ Holds(new) /\ new.pending = st.pending /\ Shrinks(st, new)
        /\ new.closes[s] <= 1 \/ ~new.running
        /\ \A k \in DOMAIN new.out : new.out[k] = [to |-> s, msg |-> no]
    BY <1>1, <1>3, <2>1, <2>2, SendStrong
  <2>4. ASSUME NEW k \in DOMAIN new.out PROVE new.out[k].msg # Reply(TRUE)
    <3>1. new.out[k] = [to |-> s, msg |-> no]
      BY <2>3
    <3>2. new.out[k].msg = no
      BY <3>1
    <3> QED
      BY <1>2, <1>3, <3>2
  <2> QED
    BY <2>3, <2>4 DEF NotPairing
<1>7. CASE GetId(s) \in DOMAIN st.sessions /\ Matchable(st, GetId(s), target)
  <2>1. PICK mid : mid = Match(st, GetId(s), target)
    OBVIOUS
  <2>2. PICK v : v = st.sessions[target]
    OBVIOUS
  <2>3. PICK mid2 : mid2 = SendMessage(mid, v, request, w)
    OBVIOUS
  <2>4. new = SendMessage(mid2, s, yes, r)
    BY <1>2, <1>7, <2>1, <2>2, <2>3, Zenon DEF OnClientRequestConnection
  <2>5. /\ v \in Session \ {s} /\ Writable(st, v) /\ GetId(v) = target
        /\ PastHandshake(st, GetId(s)) /\ PastHandshake(st, target)
    BY <1>7, <2>2, TargetWritable
  <2>6. /\ Strong(mid) /\ Holds(mid)
        /\ mid.running = st.running /\ mid.closes = st.closes /\ mid.out = st.out
        /\ mid.pending = st.pending
    <3>1. PICK i : i = GetId(s)
      OBVIOUS
    <3>2. /\ Holds(st) /\ Strong(st) /\ i \in DOMAIN st.sessions /\ Matchable(st, i, target)
          /\ PastHandshake(st, i) /\ PastHandshake(st, target) /\ mid = Match(st, i, target)
      BY <1>1, <1>7, <2>1, <2>5, <3>1
    <3> QED
      BY <3>2, MatchStrong DEF IsMatchOf
  <2>7. Writable(mid, v)
    BY <2>5, <2>6 DEF Writable
  <2>8. /\ Strong(mid2) /\ Holds(mid2) /\ Shrinks(mid, mid2)
        /\ mid2.pending = mid.pending
        /\ \A u \in Session : u # v => mid2.closes[u] = mid.closes[u]
        /\ \A k \in DOMAIN mid2.out :
             mid2.out[k] = [to |-> v, msg |-> request]
    BY <1>1, <1>3, <2>3, <2>6, <2>7, SendStrong
  <2>9. st.closes[s] = 0
    BY <1>1, <1>7, FiledIsOpen
  <2>10. Writable(mid2, s)
    <3>1. mid2.closes[s] = 0 /\ mid2.pending[s] = "none" /\ s \in DOMAIN mid2.pending
      BY <1>1, <2>5, <2>6, <2>8, <2>9 DEF Handling
    <3> QED
      BY <2>5, <2>8, <3>1 DEF Writable
  <2>11. /\ Strong(new) /\ Holds(new) /\ Shrinks(mid2, new)
         /\ new.pending = mid2.pending
         /\ \A u \in Session : u # s => new.closes[u] = mid2.closes[u]
         /\ new.closes[s] <= 1 \/ ~new.running
         /\ \A k \in DOMAIN new.out :
              \/ new.out[k] = [to |-> s, msg |-> yes] /\ new.closes = mid2.closes
              \/ k \in DOMAIN mid2.out /\ new.out[k] = mid2.out[k]
    BY <1>3, <2>4, <2>8, <2>10, SendStrong
  <2>12. Shrinks(mid, new)
    BY <2>6, <2>8, <2>11, ShrinksTransitive DEF Holds, Consistent
  <2>13. \A u \in Session \ {s, v} : new.closes[u] = st.closes[u]
    BY <2>6, <2>8, <2>11
  <2>14. ASSUME NEW k \in DOMAIN new.out, new.out[k].msg = Reply(TRUE)
         PROVE  new.out[k].to = s /\ new.closes[s] = st.closes[s]
    <3>1. k \in DOMAIN mid2.out => mid2.out[k].msg # yes
      BY <1>3, <1>4, <2>8
    <3>2. new.out[k] = [to |-> s, msg |-> yes] /\ new.closes = mid2.closes
      BY <1>2, <2>11, <2>14, <3>1
    <3> QED
      BY <1>1, <1>4, <2>5, <2>6, <2>8, <3>2
  <2>15. PairedBy(st, new, s, target)
    BY <1>7, <2>1, <2>2, <2>5, <2>12, <2>13, <2>14 DEF PairedBy
  <2> QED
    BY <2>6, <2>8, <2>11, <2>15
<1> QED
  BY <1>5, <1>6, <1>7

\* A description or a candidate is written to nobody but the partner.
LEMMA TransferStrong ==
  ASSUME NEW st, NEW s, Handling(st, s), NEW msg \in Exchanges, NEW w \in WriteResults,
         NEW new, new = TransferMsgToPair(st, s, msg, w)
  PROVE  /\ Strong(new) /\ Holds(new) /\ new.pending = st.pending
         /\ new.closes[s] <= 1
         /\ NotPairing(st, new)
<1>1. IsState(st) /\ IsMatched(st) /\ s \in Session /\ DOMAIN st.out = {}
      /\ Holds(st) /\ Strong(st) /\ st.running
  BY DEF Handling, Holds, Consistent, IsState
<1>2. CASE GetId(s) \in DOMAIN st.pairs /\ Lock(st, st.pairs[GetId(s)])
  <2>1. PICK v : v = st.pairs[GetId(s)]
    OBVIOUS
  <2>2. new = SendMessage(st, v, msg, w)
    BY <1>2, <2>1 DEF TransferMsgToPair
  <2>3. /\ v \in DOMAIN st.pending /\ v \in Session /\ v # s
        /\ GetId(v) \in DOMAIN st.pairs /\ GetId(v) \in DOMAIN st.sessions
    BY <1>1, <1>2, <2>1 DEF IsState, IsMatched
  <2>4. st.closes[v] = 0
    BY <1>1, <2>3, FiledIsOpen
  <2>5. st.pending[v] = "handshake" => v.serial = 0
    BY <1>1, <2>3 DEF GetId, Strong, Tidy, UnknownBeforeHandshake
  <2>6. Writable(st, v)
    BY <1>1, <2>3, <2>4, <2>5 DEF Writable
  <2>7. msg \in ServerMsgs /\ msg # Reply(TRUE)
    BY DEF ServerMsgs, Exchanges, Reply
  <2>8. /\ Strong(new) /\ Holds(new) /\ new.pending = st.pending /\ Shrinks(st, new)
        /\ \A u \in Session : u # v => new.closes[u] = st.closes[u]
        /\ \A k \in DOMAIN new.out : new.out[k] = [to |-> v, msg |-> msg]
    BY <1>1, <2>2, <2>6, <2>7, SendStrong
  <2>9. ASSUME NEW k \in DOMAIN new.out PROVE new.out[k].msg # Reply(TRUE)
    <3>1. new.out[k] = [to |-> v, msg |-> msg]
      BY <2>8
    <3>2. new.out[k].msg = msg
      BY <3>1
    <3> QED
      BY <2>7, <3>2
  <2>10. new.closes[s] <= 1
    BY <1>1, <2>3, <2>8 DEF Handling
  <2> QED
    BY <2>8, <2>9, <2>10 DEF NotPairing
<1>3. CASE ~(GetId(s) \in DOMAIN st.pairs /\ Lock(st, st.pairs[GetId(s)]))
  <2>1. new = st
    BY <1>3 DEF TransferMsgToPair
  <2> QED
    BY <1>1, <2>1, ShrinksSame DEF NotPairing, Handling
<1> QED
  BY <1>2, <1>3

-----------------------------------------------------------------------------
(* The actions.                                                            *)

\* A step that is the handler of an operation of s, from the state st in which
\* that operation is no longer outstanding.
Handled(st, s) ==
  /\ Strong(server')
  /\ DOMAIN server'.pending = DOMAIN st.pending
  /\ \A u \in DOMAIN st.pending : u # s => server'.pending[u] = st.pending[u]
  /\ server'.running => \/ server'.pending[s] # "none"
                        \/ server'.closes[s] > st.closes[s]
                        \/ server' = Completed(s)
  /\ \/ NotPairing(st, server')
     \/ \E target : PairedBy(st, server', s, target)
  /\ server.pending[s] # "body" =>
       /\ NotPairing(st, server')
       /\ \A u \in Session : u # s => server'.closes[u] = st.closes[u]

\* A step that completes an accept, with or without a new session.
HandledAccept ==
  /\ Strong(server')
  /\ server.running
  /\ server'.pairs = server.pairs /\ server'.closes = server.closes
  /\ server'.out = << >>
  /\ \/ server'.sessions = server.sessions /\ server'.pending = server.pending
     \/ Adds(server, server') /\ server'.running

\* Every handler of a session starts with the session's operation completed.
LEMMA CompletedHandling ==
  ASSUME Holds(server), Strong(server), NEW op \in Ops \ {"none"}, NEW s, Running(s, op),
         NEW st, st = Completed(s)
  PROVE  /\ Handling(st, s)
         /\ op = "handshake" => st.closes[s] = 0
         /\ s \in Session /\ s \in DOMAIN server.pending /\ server.pending[s] = op
<1>1. s \in DOMAIN server.pending /\ server.pending[s] = op /\ server.running
  BY DEF Running
<1>2. s \in Session /\ server.closes[s] \in Nat
  BY <1>1 DEF Holds, Consistent, IsState
<1>3. server.closes[s] <= 1 /\ (op = "handshake" => server.closes[s] = 0)
  BY <1>1, <1>2 DEF Strong, Tidy, ClosesBounded, UnknownBeforeHandshake
<1> QED
  BY <1>1, <1>2, <1>3, CompletedStrong DEF Handling

\* Closing within a session's own handler.
LEMMA CloseHandled ==
  ASSUME NEW st, NEW s, Handling(st, s), NEW new, new = OnSessionClose(st, s)
  PROVE  /\ Strong(new) /\ NotPairing(st, new) /\ new.pending = st.pending
         /\ new.closes[s] > st.closes[s]
         /\ \A u \in Session : u # s => new.closes[u] = st.closes[u]
<1>1. IsState(st) /\ Holds(st) /\ Strong(st) /\ DOMAIN st.out = {}
  BY DEF Handling, Holds, Consistent
<1>2. Closable(st, s)
  BY <1>1 DEF Handling, Closable
<1>3. Strong(new) /\ Shrinks(st, new) /\ IsCloseOf(new, st, s)
  BY <1>1, <1>2, CloseStrong
<1>4. /\ new.pending = st.pending /\ new.out = st.out
      /\ s \in Session
      /\ \A u \in Session : /\ st.closes[u] \in Nat
                            /\ new.closes[u] = IF u = s THEN st.closes[s] + 1 ELSE st.closes[u]
  BY <1>1, <1>2, <1>3, CloseChanges
<1>5. NotPairing(st, new)
  <2>1. DOMAIN new.out = {}
    BY <1>1, <1>4
  <2> QED
    BY <1>3, <2>1 DEF NotPairing
<1>6. new.closes[s] > st.closes[s] /\ \A u \in Session : u # s => new.closes[u] = st.closes[u]
  BY <1>4
<1> QED
  BY <1>3, <1>4, <1>5, <1>6

\* The completion of an accept.
LEMMA AcceptHandled ==
  ASSUME Holds(server), Strong(server), AcceptDone \/ AcceptError
  PROVE  HandledAccept
<1>1. PICK mid : mid = Accepted
  OBVIOUS
<1>2. server.running /\ server.accepts > 0 /\ server.accepts \in Nat
  BY DEF AcceptDone, AcceptError, Holds, Consistent, IsState
<1>3. /\ Tidy(mid) /\ Consistent(mid) /\ IsState(mid) /\ IsFiniteSet(DOMAIN mid.sessions)
      /\ mid.sessions = server.sessions /\ mid.pairs = server.pairs
      /\ mid.pending = server.pending /\ mid.closes = server.closes
      /\ mid.running = server.running /\ mid.accepts = server.accepts - 1
      /\ mid.out = << >>
  BY <1>1, <1>2, AcceptedFields DEF Consistent
<1>4. Size(mid) \in Nat
  BY <1>3, FS_CardinalityType DEF Size
<1>5. ClosedOnceIn(mid) => Size(mid) < SERIAL_NUM_MAX /\ mid.accepts = 0
  <2>1. ClosedOnceIn(mid) => ClosedOnceIn(server)
    BY <1>3 DEF ClosedOnceIn
  <2>2. Size(mid) = Size(server)
    BY <1>3 DEF Size
  <2> QED
    BY <1>2, <1>3, <1>4, <2>1, <2>2, MaxAssumption DEF Strong, OneChain
<1>6. CASE AcceptError
  <2>1. server' = AcceptNext(mid)
    BY <1>1, <1>6 DEF AcceptError
  <2>2. /\ Strong(server')
        /\ server'.sessions = mid.sessions /\ server'.pairs = mid.pairs
        /\ server'.pending = mid.pending /\ server'.closes = mid.closes
        /\ server'.running = mid.running /\ server'.out = mid.out
    BY <1>3, <1>4, <1>5, <2>1, AcceptNextStrong, MaxAssumption
  <2> QED
    BY <1>2, <1>3, <2>2 DEF HandledAccept
<1>7. CASE AcceptDone
  <2>1. PICK t \in Tails, constructed \in BOOLEAN :
               ~Born(t) /\ server' = OnAcceptDone(mid, t, constructed)
    BY <1>1, <1>7 DEF AcceptDone
  <2>2. PICK mid2 : mid2 = InitSession(mid, t, constructed)
    OBVIOUS
  <2>3. server' = AcceptNext(mid2) /\ Fresh(mid, t)
    BY <1>3, <2>1, <2>2 DEF OnAcceptDone, Born, Fresh
  <2>4. Consistent(mid2) /\ IsState(mid2) /\ IsFiniteSet(DOMAIN mid2.sessions)
    BY <1>3, <2>2, <2>3, ConstructedConsistent, RefusedConsistent DEF Consistent
  <2>5. CASE constructed
    <3>1. /\ Tidy(mid2)
          /\ mid2.running = mid.running /\ mid2.closes = mid.closes
          /\ mid2.pairs = mid.pairs /\ mid2.accepts = mid.accepts
          /\ mid2.out = mid.out
          /\ Adds(mid, mid2)
      <4>1. mid2 = InitSession(mid, t, TRUE)
        BY <2>2, <2>5
      <4> QED
        BY <1>2, <1>3, <2>3, <4>1, ConstructedTidy
    <3>2. Size(mid2) <= Size(mid) + 1 /\ Size(mid2) \in Nat
      <4>1. PICK i : DOMAIN mid2.sessions = DOMAIN mid.sessions \cup {i}
        BY <3>1 DEF Adds
      <4> QED
        BY <1>3, <2>4, <4>1, FS_AddElement, FS_CardinalityType DEF Size
    <3>3. mid2.running /\ ClosedOnceIn(mid2) => Size(mid2) <= SERIAL_NUM_MAX /\ mid2.accepts = 0
      <4>1. ClosedOnceIn(mid2) => ClosedOnceIn(mid)
        BY <3>1 DEF ClosedOnceIn
      <4> QED
        BY <1>4, <1>5, <3>1, <3>2, <4>1, MaxAssumption
    <3>4. /\ Strong(server')
          /\ server'.sessions = mid2.sessions /\ server'.pairs = mid2.pairs
          /\ server'.pending = mid2.pending /\ server'.closes = mid2.closes
          /\ server'.running = mid2.running /\ server'.out = mid2.out
      BY <2>3, <2>4, <3>1, <3>3, AcceptNextStrong
    <3> QED
      BY <1>2, <1>3, <3>1, <3>4 DEF HandledAccept, Adds
  <2>6. CASE ~constructed
    <3>1. /\ Tidy(mid2)
          /\ mid2.sessions = mid.sessions /\ mid2.pairs = mid.pairs
          /\ mid2.pending = mid.pending /\ mid2.closes = mid.closes
          /\ mid2.out = mid.out /\ mid2.accepts = mid.accepts
      <4>1. mid2 = InitSession(mid, t, FALSE) /\ IsState(mid) /\ Tidy(mid)
        BY <1>3, <2>2, <2>6
      <4>2. PICK n : n = InitSession(mid, t, FALSE)
        OBVIOUS
      <4>3. /\ Tidy(n)
            /\ n.sessions = mid.sessions /\ n.pairs = mid.pairs
            /\ n.pending = mid.pending /\ n.closes = mid.closes
            /\ n.out = mid.out /\ n.accepts = mid.accepts
        BY <4>1, <4>2, RefusedTidy, ZenonT(30)
      <4> QED
        BY <4>1, <4>2, <4>3
    <3>2. mid2.running /\ ClosedOnceIn(mid2) => Size(mid2) <= SERIAL_NUM_MAX /\ mid2.accepts = 0
      <4>1. (ClosedOnceIn(mid2) => ClosedOnceIn(mid)) /\ Size(mid2) = Size(mid)
        BY <3>1 DEF ClosedOnceIn, Size
      <4> QED
        BY <1>4, <1>5, <3>1, <4>1, MaxAssumption
    <3>3. /\ Strong(server')
          /\ server'.sessions = mid2.sessions /\ server'.pairs = mid2.pairs
          /\ server'.pending = mid2.pending /\ server'.closes = mid2.closes
          /\ server'.running = mid2.running /\ server'.out = mid2.out
      BY <2>3, <2>4, <3>1, <3>2, AcceptNextStrong
    <3> QED
      BY <1>2, <1>3, <3>1, <3>3 DEF HandledAccept
  <2> QED
    BY <2>5, <2>6
<1> QED
  BY <1>6, <1>7

\* Starting the next read at the end of a handler.
LEMMA ArmHandled ==
  ASSUME NEW st, NEW s, Handling(st, s), IsState(server'),
         NEW mid, Strong(mid), Holds(mid), mid.pending = st.pending,
         mid.closes[s] <= 1 \/ ~mid.running, NEW op \in {"header", "body"},
         NotPairing(st, mid) \/ \E target : PairedBy(st, mid, s, target),
         server' = Arm(mid, s, op),
         server.pending[s] # "body" =>
           NotPairing(st, mid) /\ \A u \in Session : u # s => mid.closes[u] = st.closes[u]
  PROVE  Handled(st, s)
<1>1. IsState(mid) /\ IsState(st) /\ s \in DOMAIN mid.pending
  BY DEF Holds, Consistent, Handling
<1>2. Strong(server') /\ Shrinks(mid, server') /\ IsArmOf(server', mid, s, op)
  <2>1. PICK new : new = Arm(mid, s, op)
    OBVIOUS
  <2>2. server' = new /\ (mid.running => mid.closes[s] <= 1)
    BY <2>1
  <2>3. Strong(new) /\ Shrinks(mid, new) /\ IsArmOf(new, mid, s, op)
    BY <1>1, <2>1, <2>2, ArmStrong
  <2> QED
    BY <2>2, <2>3
<1>3. /\ server'.out = mid.out /\ server'.closes = mid.closes
      /\ server'.running = mid.running
      /\ server'.sessions = mid.sessions /\ server'.pairs = mid.pairs
  BY <1>2 DEF IsArmOf
<1>4. /\ DOMAIN server'.pending = DOMAIN st.pending
      /\ \A u \in DOMAIN st.pending : u # s => server'.pending[u] = st.pending[u]
      /\ server'.running => server'.pending[s] # "none"
  BY <1>1, <1>2 DEF IsArmOf
<1>5. NotPairing(st, mid) => NotPairing(st, server')
  BY <1>1, <1>2, <1>3, ShrinksTransitive DEF NotPairing
<1>6. ASSUME NEW target, PairedBy(st, mid, s, target) PROVE PairedBy(st, server', s, target)
  <2>1. Shrinks(Match(st, GetId(s), target), server')
    <3>1. PICK m : m = Match(st, GetId(s), target)
      OBVIOUS
    <3>2. Shrinks(m, mid)
      BY <1>6, <3>1 DEF PairedBy
    <3>3. Shrinks(m, server')
      BY <1>2, <1>3, <3>2 DEF Shrinks
    <3> QED
      BY <3>1, <3>3
  <2> QED
    BY <1>3, <1>6, <2>1 DEF PairedBy
<1>7. server.pending[s] # "body" =>
        /\ NotPairing(st, server')
        /\ \A u \in Session : u # s => server'.closes[u] = st.closes[u]
  BY <1>3, <1>5
<1> QED
  BY <1>2, <1>4, <1>5, <1>6, <1>7, Zenon DEF Handled

\* The end of the handshake: the session learns its id.
LEMMA HandshakeHandled ==
  ASSUME Holds(server), Strong(server), Holds(server'), NEW s, HandshakeDone(s)
  PROVE  Handled(Completed(s), s)
<1>1. PICK st : st = Completed(s)
  OBVIOUS
<1>2. /\ Handling(st, s) /\ st.closes[s] = 0 /\ s \in Session
      /\ server.pending[s] = "handshake"
  BY <1>1, CompletedHandling DEF HandshakeDone, Ops
<1>3. HasFields(st) /\ IsState(st) /\ Strong(st) /\ Holds(st) /\ s \in DOMAIN st.pending
      /\ st.pending[s] = "none" /\ st.running /\ DOMAIN st.out = {}
  BY <1>2 DEF Handling, Holds, Consistent, IsState
<1>4. PICK r \in WriteResults : server' = OnHandshakeDone(st, s, r)
  BY <1>1 DEF HandshakeDone
<1>5. PICK told : told = [st EXCEPT !.told = @ \cup {GetId(s)}]
  OBVIOUS
<1>6. /\ HasFields(told) /\ told.told = st.told \cup {GetId(s)}
      /\ told.serials = st.serials /\ told.sessions = st.sessions
      /\ told.pairs = st.pairs /\ told.running = st.running
      /\ told.closes = st.closes /\ told.pending = st.pending
      /\ told.out = st.out /\ told.accepts = st.accepts
  BY <1>3, <1>5, Zenon DEF HasFields, Fields
<1>7. Strong(told)
  <2>1. UnknownBeforeHandshake(told)
    <3>1. \A u \in DOMAIN st.pending : u # s => u # GetId(s)
      BY <1>3, NoIdAssumption DEF GetId, IsState
    <3> QED
      BY <1>3, <1>6, <3>1 DEF Strong, Tidy, UnknownBeforeHandshake
  <2>2. ToldWereBorn(told) /\ ClosesBounded(told) /\ WrittenAreOpen(told)
    BY <1>3, <1>6 DEF Strong, Tidy, ToldWereBorn, ClosesBounded, WrittenAreOpen, GetId
  <2> QED
    BY <1>3, <1>6, <2>1, <2>2, SameMapsStrong DEF SameMaps
<1>8. Holds(told)
  <2>1. st.told \cup {GetId(s)} \in SUBSET Ids
    BY <1>2, <1>3 DEF IsState, GetId, Ids
  <2>2. /\ st.out \in Seq([to : Session, msg : ServerMsgs])
        /\ st.pending \in [DOMAIN st.pending -> Ops] /\ st.accepts \in Nat
    BY <1>3 DEF IsState
  <2>3. Consistent(told)
    BY <1>3, <1>6, <2>1, <2>2, SameMapsConsistent DEF Holds
  <2> QED
    BY <1>3, <1>6, <2>3 DEF Holds, IsListening, Size
<1>9. PICK mid : mid = IF r = "ok" THEN told ELSE st
  OBVIOUS
<1>10. /\ Strong(mid) /\ Holds(mid) /\ mid.pending = st.pending /\ mid.closes = st.closes
       /\ mid.sessions = st.sessions /\ mid.pairs = st.pairs /\ mid.running = st.running
       /\ mid.out = st.out
  BY <1>3, <1>6, <1>7, <1>8, <1>9
<1>11. PICK msg : msg = [type |-> "UpdateSessionId", id |-> GetId(s)]
  OBVIOUS
<1>12. msg \in ServerMsgs /\ msg # Reply(TRUE)
  <2>1. GetId(s) \in Ids
    BY <1>2 DEF GetId, Ids
  <2>2. msg.type # Reply(TRUE).type
    BY <1>11 DEF Reply
  <2>3. msg \in ServerMsgs
    BY <1>11, <2>1 DEF ServerMsgs
  <2> QED
    BY <2>2, <2>3
<1>13. PICK last : last = SendMessage(mid, s, msg, r)
  OBVIOUS
<1>14. server' = Arm(last, s, "header")
  BY <1>4, <1>5, <1>9, <1>11, <1>13 DEF OnHandshakeDone, OnSessionReady, StartRead
<1>15. Writable(mid, s)
  BY <1>2, <1>3, <1>10 DEF Writable
<1>16. /\ Strong(last) /\ Holds(last) /\ Shrinks(mid, last)
       /\ last.pending = mid.pending
       /\ \A u \in Session : u # s => last.closes[u] = mid.closes[u]
       /\ last.closes[s] <= 1 \/ ~last.running
       /\ \A k \in DOMAIN last.out : last.out[k] = [to |-> s, msg |-> msg]
  BY <1>3, <1>10, <1>12, <1>13, <1>15, SendStrong
<1>17. Shrinks(st, last)
  BY <1>10, <1>16 DEF Shrinks
<1>18. ASSUME NEW k \in DOMAIN last.out PROVE last.out[k].msg # Reply(TRUE)
  <2>1. last.out[k] = [to |-> s, msg |-> msg]
    BY <1>16
  <2>2. last.out[k].msg = msg
    BY <2>1
  <2> QED
    BY <1>12, <2>2
<1>19. NotPairing(st, last) /\ \A u \in Session : u # s => last.closes[u] = st.closes[u]
  BY <1>10, <1>16, <1>17, <1>18 DEF NotPairing
<1>20. IsState(server')
  BY DEF Holds, Consistent
<1>21. Handled(st, s)
  BY <1>2, <1>10, <1>14, <1>16, <1>19, <1>20, ArmHandled
<1> QED
  BY <1>1, <1>21

\* The header of a message, or what is too short for one.
LEMMA HeaderHandled ==
  ASSUME Holds(server), Strong(server), Holds(server'), NEW s, HeaderReadDone(s)
  PROVE  Handled(Completed(s), s)
<1>1. PICK st : st = Completed(s)
  OBVIOUS
<1>2. Handling(st, s) /\ s \in Session /\ server.pending[s] = "header"
  BY <1>1, CompletedHandling DEF HeaderReadDone, Ops
<1>3. PICK tooShort \in BOOLEAN : server' = OnHeaderReadDone(st, s, tooShort)
  BY <1>1 DEF HeaderReadDone
<1>4. CASE tooShort
  <2>1. server' = OnSessionClose(st, s)
    BY <1>3, <1>4 DEF OnHeaderReadDone
  <2>2. /\ Strong(server') /\ NotPairing(st, server') /\ server'.pending = st.pending
        /\ server'.closes[s] > st.closes[s]
        /\ \A u \in Session : u # s => server'.closes[u] = st.closes[u]
    BY <1>2, <2>1, CloseHandled
  <2> QED
    BY <1>1, <2>2 DEF Handled
<1>5. CASE ~tooShort
  <2>1. server' = Arm(st, s, "body")
    BY <1>3, <1>5 DEF OnHeaderReadDone
  <2>2. /\ Strong(st) /\ Holds(st) /\ IsState(st) /\ IsState(server') /\ DOMAIN st.out = {}
        /\ st.closes[s] <= 1
    BY <1>2 DEF Handling, Holds, Consistent
  <2>3. NotPairing(st, st)
    BY <2>2, ShrinksSame DEF NotPairing
  <2> QED
    BY <1>1, <1>2, <2>1, <2>2, <2>3, ArmHandled
<1> QED
  BY <1>4, <1>5

\* Any message of a client.
LEMMA BodyHandled ==
  ASSUME Holds(server), Strong(server), Holds(server'), NEW s, BodyReadDone(s)
  PROVE  Handled(Completed(s), s)
<1>1. PICK st : st = Completed(s)
  OBVIOUS
<1>2. Handling(st, s) /\ s \in DOMAIN server.pending /\ server.pending[s] = "body"
  BY <1>1, CompletedHandling DEF BodyReadDone, Ops
<1>3. PICK msg \in Sendable, w \in WriteResults, r \in WriteResults :
             server' = OnBodyReadDone(st, s, msg, w, r)
  BY <1>1 DEF BodyReadDone
<1>4. PICK mid : mid = OnClientMsg(st, s, msg, w, r)
  OBVIOUS
<1>5. server' = Arm(mid, s, "header")
  BY <1>3, <1>4 DEF OnBodyReadDone, StartRead
<1>6. st.told = server.told /\ Holds(st) /\ Strong(st) /\ IsState(st) /\ IsState(server')
      /\ DOMAIN st.out = {} /\ st.closes[s] <= 1
  BY <1>1, <1>2, CompletedStrong DEF Handling, Holds, Consistent
<1>7. /\ Strong(mid) /\ Holds(mid) /\ mid.pending = st.pending
      /\ mid.closes[s] <= 1 \/ ~mid.running
      /\ NotPairing(st, mid) \/ \E target : PairedBy(st, mid, s, target)
  <2>1. CASE msg.type = "RequestConnection"
    <3>1. msg \notin Exchanges /\ msg \notin OtherTypes
      BY <2>1 DEF Exchanges, OtherTypes
    <3>2. msg.id \in st.told \cup {NoId}
      BY <1>3, <1>6, <3>1 DEF Sendable
    <3>3. mid = OnClientRequestConnection(st, s, msg.id, w, r)
      BY <1>4, <2>1, <3>1 DEF OnClientMsg
    <3> QED
      BY <1>2, <3>2, <3>3, RequestStrong
  <2>2. CASE msg.type # "RequestConnection" /\ msg \in Exchanges
    <3>1. mid = TransferMsgToPair(st, s, msg, w)
      BY <1>4, <2>2 DEF OnClientMsg
    <3> QED
      BY <1>2, <2>2, <3>1, TransferStrong
  <2>3. CASE msg.type # "RequestConnection" /\ msg \notin Exchanges
    <3>1. mid = st
      BY <1>4, <2>3 DEF OnClientMsg
    <3> QED
      BY <1>6, <3>1, ShrinksSame DEF NotPairing
  <2> QED
    BY <2>1, <2>2, <2>3
<1>8. Handled(st, s)
  BY <1>2, <1>5, <1>6, <1>7, ArmHandled
<1> QED
  BY <1>1, <1>8

\* A handshake or a read that failed.
LEMMA FailureHandled ==
  ASSUME Holds(server), Strong(server), Holds(server'), NEW s, HandshakeFailed(s) \/ ReadFailed(s)
  PROVE  Handled(Completed(s), s)
<1>1. PICK st : st = Completed(s)
  OBVIOUS
<1>2. Handling(st, s) /\ s \in DOMAIN server.pending
  BY <1>1, CompletedHandling DEF HandshakeFailed, ReadFailed, Ops
<1>3. server' = st \/ server' = OnSessionClose(st, s)
  BY <1>1 DEF HandshakeFailed, ReadFailed, OnHandshakeError, OnReadError
<1>4. CASE server' = st
  <2>1. Strong(st) /\ IsState(st) /\ DOMAIN st.out = {}
    BY <1>2 DEF Handling, Holds, Consistent
  <2>2. NotPairing(st, st)
    BY <2>1, ShrinksSame DEF NotPairing
  <2> QED
    BY <1>1, <1>4, <2>1, <2>2 DEF Handled
<1>5. CASE server' = OnSessionClose(st, s)
  <2>1. /\ Strong(server') /\ NotPairing(st, server') /\ server'.pending = st.pending
        /\ server'.closes[s] > st.closes[s]
        /\ \A u \in Session : u # s => server'.closes[u] = st.closes[u]
    BY <1>2, <1>5, CloseHandled
  <2> QED
    BY <1>1, <2>1 DEF Handled
<1> QED
  BY <1>3, <1>4, <1>5

-----------------------------------------------------------------------------
(* The theorems *)

\* The server starts with nothing filed and one accept outstanding.
LEMMA InitStrong == Init => Strong(server)
<1> SUFFICES ASSUME Init PROVE Strong(server)
  OBVIOUS
<1>1. /\ server.sessions = << >> /\ server.pairs = << >> /\ server.accepts = 1
      /\ server.pending = << >> /\ server.out = << >> /\ server.told = {}
      /\ \A s \in Session : server.closes[s] = 0
  BY DEF Init
<1>2. /\ DOMAIN server.sessions = {} /\ DOMAIN server.pairs = {}
      /\ DOMAIN server.pending = {} /\ DOMAIN server.out = {}
  BY <1>1
<1>3. ClosedHadSerial(server) /\ OpenIsFiled(server) /\ ClosesBounded(server)
  BY <1>1, <1>2 DEF ClosedHadSerial, OpenIsFiled, ClosesBounded
<1>4. UnknownBeforeHandshake(server) /\ ToldWereBorn(server) /\ WrittenAreOpen(server)
  BY <1>1, <1>2 DEF UnknownBeforeHandshake, ToldWereBorn, WrittenAreOpen
<1>5. OwnSerial(server)
  BY <1>2 DEF OwnSerial
<1>6. Size(server) = 0
  BY <1>2, FS_EmptySet DEF Size
<1>7. OneChain(server)
  BY <1>1, <1>6, MaxAssumption DEF OneChain
<1> QED
  BY <1>3, <1>4, <1>5, <1>7 DEF Strong, Tidy

\* A step completes an accept, or an operation of one session, or is none.
Handles == \/ HandledAccept
           \/ \E s \in DOMAIN server.pending :
                /\ server.running /\ server.pending[s] # "none"
                /\ Handled(Completed(s), s)
           \/ UNCHANGED vars

\* Whatever the step, it is one of the three.
LEMMA NextHandled ==
  ASSUME Holds(server), Strong(server), [Next]_vars
  PROVE  Handles /\ Holds(server')
<1>1. Holds(server')
  BY NextHolds
<1>2. CASE UNCHANGED vars
  BY <1>1, <1>2 DEF Handles
<1>3. CASE AcceptDone \/ AcceptError
  BY <1>1, <1>3, AcceptHandled DEF Handles
<1>4. ASSUME NEW s \in Session,
             \/ HandshakeDone(s)
             \/ HeaderReadDone(s)
             \/ BodyReadDone(s)
             \/ HandshakeFailed(s)
             \/ ReadFailed(s)
      PROVE  Handles
  <2>1. s \in DOMAIN server.pending /\ server.running /\ server.pending[s] # "none"
    BY <1>4 DEF HandshakeDone, HeaderReadDone, BodyReadDone, HandshakeFailed, ReadFailed, Running
  <2>2. Handled(Completed(s), s)
    BY <1>1, <1>4, HandshakeHandled, HeaderHandled, BodyHandled, FailureHandled
  <2> QED
    BY <2>1, <2>2 DEF Handles
<1> QED
  BY <1>1, <1>2, <1>3, <1>4, Zenon DEF Next

\* Every step preserves the stronger invariant.
LEMMA NextStrong ==
  ASSUME Holds(server), Strong(server), [Next]_vars
  PROVE  Strong(server')
<1>1. CASE UNCHANGED vars
  BY <1>1 DEF vars
<1> QED
  BY <1>1, NextHandled DEF Handles, HandledAccept, Handled

\* The inductive invariant of this module.
StrongIInv == Holds(server) /\ Strong(server)

\* Every reachable state of the server satisfies it.
THEOREM StrongInvariance == Spec => []StrongIInv
<1>1. Init => StrongIInv
  BY InitHolds, InitStrong DEF StrongIInv
<1>2. StrongIInv /\ [Next]_vars => StrongIInv'
  BY NextHolds, NextStrong DEF StrongIInv
<1> QED
  BY <1>1, <1>2, PTL DEF Spec

-----------------------------------------------------------------------------
(* The invariants.                                                         *)

\* No handler writes to a session it or an earlier one closed.
THEOREM NothingAfterClose == Spec => []NoWriteAfterClose
<1>1. StrongIInv => NoWriteAfterClose
  BY DEF StrongIInv, Strong, Tidy, WrittenAreOpen, NoWriteAfterClose
<1> QED
  BY <1>1, StrongInvariance, PTL

\* A session is closed once for a failed write and once for the read, no more.
THEOREM TwoClosesAtMost == Spec => []ClosedAtMostTwice
<1>1. StrongIInv => ClosedAtMostTwice
  BY DEF StrongIInv, Strong, Tidy, ClosesBounded, ClosedAtMostTwice
<1> QED
  BY <1>1, StrongInvariance, PTL

\* One accept is outstanding exactly while there is room, unless a session was
\* closed twice.
THEOREM AcceptsAreOneChain == Spec => []OneAcceptChain
<1>1. StrongIInv => OneAcceptChain
  BY DEF StrongIInv, Strong, OneChain, ClosedOnceIn, ClosedOnce, OneAcceptChain
<1> QED
  BY <1>1, StrongInvariance, PTL

\* Two sessions in the map have two serial numbers, unless one was closed twice.
THEOREM NoSharedSerial == Spec => []SerialsUnique
<1>1. StrongIInv => SerialsUnique
  BY DEF StrongIInv, Strong, Tidy, OwnSerial, ClosedOnceIn, ClosedOnce, SerialsUnique,
         Live, Range
<1> QED
  BY <1>1, StrongInvariance, PTL
-----------------------------------------------------------------------------
(* The action properties.                                                  *)

\* A handler of a session as one change of the maps: it may pair two sessions
\* first, from mid on sessions leave and pairs are dissolved by closes alone.
ShrinksFrom(mid, s) ==
  /\ Holds(mid) /\ Shrinks(mid, server')
  /\ mid.sessions = server.sessions /\ mid.closes = server.closes
  /\ mid.running = server.running
  /\ \/ mid = Completed(s)
     \/ \E target : /\ PairedBy(Completed(s), server', s, target)
                    /\ IsMatchOf(mid, Completed(s), GetId(s), target)

\* Every handler of a session is such a change.
LEMMA HandledShrinks ==
  ASSUME Holds(server), Strong(server), NEW s \in DOMAIN server.pending,
         Handled(Completed(s), s)
  PROVE  \E mid : /\ ShrinksFrom(mid, s)
                  /\ \A i \in DOMAIN server.pairs :
                       i \in DOMAIN mid.pairs /\ mid.pairs[i] = server.pairs[i]
<1>1. PICK st : st = Completed(s)
  OBVIOUS
<1>2. /\ IsState(st) /\ Holds(st)
      /\ st.sessions = server.sessions /\ st.pairs = server.pairs
      /\ st.closes = server.closes /\ st.running = server.running
  BY <1>1, CompletedStrong DEF Holds, Consistent
<1>3. CASE NotPairing(st, server')
  BY <1>1, <1>2, <1>3 DEF NotPairing, ShrinksFrom
<1>4. ASSUME NEW target, PairedBy(st, server', s, target)
      PROVE  \E mid : /\ ShrinksFrom(mid, s)
                      /\ \A i \in DOMAIN server.pairs :
                           i \in DOMAIN mid.pairs /\ mid.pairs[i] = server.pairs[i]
  <2>1. PICK mid : mid = Match(st, GetId(s), target)
    OBVIOUS
  <2>2. Shrinks(mid, server') /\ IsMatchOf(mid, st, GetId(s), target)
    BY <1>2, <1>4, <2>1, MatchFields DEF PairedBy
  <2>3. Holds(mid)
    BY <1>2, <1>4, <2>1, MatchHolds DEF PairedBy
  <2> QED
    BY <1>1, <1>2, <1>4, <2>2, <2>3 DEF IsMatchOf, ShrinksFrom
<1> QED
  BY <1>1, <1>3, <1>4 DEF Handled

\* Nobody loses a partner in a step that closes neither of the two.
LEMMA StepPairsLast ==
  ASSUME Holds(server), Strong(server), [Next]_vars
  PROVE  [PairsLast]_vars
<1>1. CASE HandledAccept
  BY <1>1 DEF HandledAccept, PairsLast
<1>2. ASSUME NEW s \in DOMAIN server.pending, Handled(Completed(s), s) PROVE PairsLast
  BY <1>2, HandledShrinks DEF ShrinksFrom, Shrinks, PairsLast
<1> QED
  BY <1>1, <1>2, NextHandled DEF Handles

\* A handler of a request that answers with success has paired.
LEMMA RequestPaired ==
  ASSUME Holds(server), Strong(server), NEW s, NEW target \in server.told \cup {NoId},
         AnswersRequest(s, target),
         NEW k \in DOMAIN server'.out, server'.out[k].msg = Reply(TRUE)
  PROVE  PairedBy(Completed(s), server', s, target)
<1>1. PICK st : st = Completed(s)
  OBVIOUS
<1>2. PICK msg : msg = [type |-> "RequestConnection", id |-> target]
  OBVIOUS
<1>3. PICK w \in WriteResults, r \in WriteResults :
             server' = OnBodyReadDone(st, s, msg, w, r)
  BY <1>1, <1>2 DEF AnswersRequest
<1>4. PICK mid : mid = OnClientRequestConnection(st, s, target, w, r)
  OBVIOUS
<1>5. server' = Arm(mid, s, "header")
  <2>1. msg.type = "RequestConnection" /\ msg.id = target /\ msg \notin Exchanges
    BY <1>2 DEF Exchanges
  <2>2. OnClientMsg(st, s, msg, w, r) = mid
    BY <1>4, <2>1 DEF OnClientMsg
  <2> QED
    BY <1>3, <2>2 DEF OnBodyReadDone, StartRead
<1>6. Handling(st, s) /\ s \in DOMAIN server.pending
  BY <1>1, CompletedHandling DEF AnswersRequest, Ops
<1>7. st.told = server.told /\ s \in DOMAIN st.pending
  BY <1>1, <1>6, CompletedStrong DEF Handling
<1>8. /\ Strong(mid) /\ Holds(mid) /\ mid.pending = st.pending
      /\ mid.running => mid.closes[s] <= 1
      /\ NotPairing(st, mid) \/ PairedBy(st, mid, s, target)
  BY <1>4, <1>6, <1>7, RequestStrong
<1>9. IsArmOf(server', mid, s, "header")
  <2>1. PICK new : new = Arm(mid, s, "header")
    OBVIOUS
  <2>2. IsArmOf(new, mid, s, "header")
    BY <1>7, <1>8, <2>1, ArmStrong
  <2> QED
    BY <1>5, <2>1, <2>2
<1>10. /\ server'.out = mid.out /\ server'.pairs = mid.pairs
       /\ server'.closes = mid.closes /\ server'.sessions = mid.sessions
       /\ server'.running = mid.running
  BY <1>9 DEF IsArmOf
<1>11. PairedBy(st, mid, s, target)
  BY <1>8, <1>10 DEF NotPairing
<1>12. PICK paired : paired = Match(st, GetId(s), target)
  OBVIOUS
<1>13. Shrinks(paired, mid)
  BY <1>11, <1>12 DEF PairedBy
<1>14. Shrinks(paired, server')
  BY <1>10, <1>13 DEF Shrinks
<1> QED
  BY <1>1, <1>10, <1>11, <1>12, <1>14 DEF PairedBy

\* It leaves the two as partners, or has closed the target and no other session.
LEMMA RequestGrants ==
  ASSUME Holds(server), Strong(server), Holds(server'), NEW s,
         NEW target \in server.told \cup {NoId}, AnswersRequest(s, target),
         NEW k \in DOMAIN server'.out, server'.out[k].msg = Reply(TRUE)
  PROVE  Grants(s, target)
<1>1. PICK st : st = Completed(s)
  OBVIOUS
<1>2. PairedBy(st, server', s, target)
  BY <1>1, RequestPaired
<1>3. /\ IsState(st) /\ IsState(server') /\ IsMatched(st) /\ IsMatched(server')
      /\ st.sessions = server.sessions /\ st.pairs = server.pairs
      /\ st.closes = server.closes
  BY <1>1, CompletedStrong DEF AnswersRequest, Running, Holds, Consistent
<1>4. PICK i, t, mid : i = GetId(s) /\ t = st.sessions[target] /\ mid = Match(st, i, target)
  OBVIOUS
<1>5. /\ IsMatchOf(mid, st, i, target) /\ Shrinks(mid, server')
      /\ i # target /\ {i, target} \subseteq DOMAIN st.sessions \ DOMAIN st.pairs
      /\ t \in Session \ {s} /\ GetId(t) = target
      /\ \A u \in Session \ {s, t} : server'.closes[u] = st.closes[u]
      /\ server'.closes[s] = st.closes[s]
  BY <1>2, <1>3, <1>4, MatchFields DEF PairedBy, Matchable
<1>6. GetId(st.sessions[i]) = i
  BY <1>3, <1>5 DEF IsState
<1>7. CASE {i, target} \subseteq DOMAIN server'.pairs
  <2>1. server'.pairs[i] = t /\ server'.pairs[target] = st.sessions[i]
    BY <1>4, <1>5, <1>7 DEF Shrinks, IsMatchOf
  <2> QED
    BY <1>3, <1>4, <1>5, <1>7, <2>1 DEF Grants
<1>8. CASE ~({i, target} \subseteq DOMAIN server'.pairs)
  <2>1. i \notin DOMAIN server'.pairs /\ target \notin DOMAIN server'.pairs
    <3>1. \A j \in DOMAIN server'.pairs : GetId(server'.pairs[j]) \in DOMAIN server'.pairs
      BY <1>3 DEF IsMatched
    <3>2. i \in DOMAIN server'.pairs => server'.pairs[i] = t
      BY <1>4, <1>5 DEF Shrinks, IsMatchOf
    <3>3. target \in DOMAIN server'.pairs => server'.pairs[target] = st.sessions[i]
      BY <1>5 DEF Shrinks, IsMatchOf
    <3> QED
      BY <1>5, <1>6, <1>8, <3>1, <3>2, <3>3
  <2>2. \A u \in Session : st.closes[u] \in Nat
    BY <1>3 DEF IsState
  <2>3. \A u \in Session : server'.closes[u] > st.closes[u] => u = t
    BY <1>5, <2>2
  <2>4. server'.closes[t] > st.closes[t]
    BY <1>5, <2>1, <2>3 DEF Shrinks, IsMatchOf
  <2>5. ASSUME NEW j \in DOMAIN st.pairs PROVE j \in DOMAIN server'.pairs
    <3>1. mid.pairs[j] = st.pairs[j] /\ j \in DOMAIN mid.pairs /\ mid.closes = st.closes
      BY <1>5 DEF IsMatchOf
    <3>2. target # j /\ target # GetId(st.pairs[j])
      BY <1>3, <1>5 DEF IsMatched
    <3>3. SUFFICES ASSUME j \notin DOMAIN server'.pairs PROVE FALSE
      OBVIOUS
    <3>4. PICK u \in Session : /\ GetId(u) \in {j, GetId(st.pairs[j])}
                               /\ server'.closes[u] > st.closes[u]
      BY <1>5, <3>1, <3>3 DEF Shrinks
    <3> QED
      BY <1>5, <2>3, <3>2, <3>4
  <2>6. /\ DOMAIN server'.pairs = DOMAIN st.pairs
        /\ \A j \in DOMAIN st.pairs : server'.pairs[j] = st.pairs[j]
    BY <1>5, <2>1, <2>5 DEF Shrinks, IsMatchOf
  <2>7. server'.pairs = st.pairs
    BY <1>3, <2>6 DEF IsState
  <2> QED
    BY <1>3, <1>4, <1>5, <2>4, <2>7 DEF Grants
<1> QED
  BY <1>7, <1>8

\* A handler of anything but a request tells nobody that one succeeded.
LEMMA ReplyIsAsked ==
  ASSUME Holds(server), Strong(server), [Next]_vars, ~UNCHANGED vars,
         NEW k \in DOMAIN server'.out, server'.out[k].msg = Reply(TRUE)
  PROVE  \E target \in server.told \cup {NoId} : AnswersRequest(server'.out[k].to, target)
<1>1. Holds(server')
  BY NextHolds
<1>2. ~AcceptDone /\ ~AcceptError
  <2>1. HandledAccept => DOMAIN server'.out = {}
    BY DEF HandledAccept
  <2> QED
    BY <1>1, <2>1, AcceptHandled
<1>3. PICK s \in Session : \/ HandshakeDone(s)
                           \/ HeaderReadDone(s)
                           \/ BodyReadDone(s)
                           \/ HandshakeFailed(s)
                           \/ ReadFailed(s)
  BY <1>2 DEF Next
<1>4. PICK st : st = Completed(s)
  OBVIOUS
<1>5. PICK op \in Ops \ {"none"} : Running(s, op)
  BY <1>3 DEF HandshakeDone, HeaderReadDone, BodyReadDone, HandshakeFailed, ReadFailed, Ops
<1>6. Handling(st, s) /\ s \in DOMAIN server.pending /\ server.pending[s] = op
  BY <1>4, <1>5, CompletedHandling
<1>7. DOMAIN st.out = {} /\ st.told = server.told
  BY <1>4, <1>6, CompletedStrong
<1>8. ~HandshakeDone(s) /\ ~HeaderReadDone(s)
  <2>1. op # "body" /\ Handled(st, s) => NotPairing(st, server')
    BY <1>6 DEF Handled
  <2>2. HandshakeDone(s) \/ HeaderReadDone(s) => op # "body"
    BY <1>6 DEF HandshakeDone, HeaderReadDone, Running
  <2> QED
    BY <1>1, <1>4, <2>1, <2>2, HandshakeHandled, HeaderHandled DEF NotPairing
<1>9. ~HandshakeFailed(s) /\ ~ReadFailed(s)
  <2>1. HandshakeFailed(s) \/ ReadFailed(s) => server' = st \/ server' = OnSessionClose(st, s)
    BY <1>4 DEF HandshakeFailed, ReadFailed, OnHandshakeError, OnReadError
  <2>2. server' = OnSessionClose(st, s) => NotPairing(st, server')
    BY <1>6, CloseHandled
  <2> QED
    BY <1>7, <2>1, <2>2 DEF NotPairing
<1>10. PICK msg \in Sendable, w \in WriteResults, r \in WriteResults :
              server' = OnBodyReadDone(st, s, msg, w, r)
  BY <1>3, <1>4, <1>8, <1>9 DEF BodyReadDone
<1>11. Running(s, "body")
  BY <1>3, <1>8, <1>9 DEF BodyReadDone
<1>12. PICK mid : mid = OnClientMsg(st, s, msg, w, r)
  OBVIOUS
<1>13. server'.out = mid.out
  <2>1. server' = IF mid.running THEN [mid EXCEPT !.pending[s] = "header"] ELSE mid
    BY <1>10, <1>12 DEF OnBodyReadDone, StartRead, Arm
  <2> QED
    BY <2>1
<1>14. msg \in [type : {"RequestConnection"}, id : server.told \cup {NoId}]
  <2>1. CASE msg \in Exchanges
    <3>1. mid = TransferMsgToPair(st, s, msg, w)
      BY <1>12, <2>1 DEF OnClientMsg, Exchanges
    <3>2. NotPairing(st, mid)
      BY <1>6, <2>1, <3>1, TransferStrong
    <3> QED
      BY <1>13, <3>2 DEF NotPairing
  <2>2. CASE msg \in OtherTypes
    <3>1. mid = st
      BY <1>12, <2>2 DEF OnClientMsg, OtherTypes, Exchanges
    <3> QED
      BY <1>7, <1>13, <3>1
  <2> QED
    BY <2>1, <2>2 DEF Sendable
<1>15. AnswersRequest(s, msg.id)
  <2>1. msg = [type |-> "RequestConnection", id |-> msg.id]
    BY <1>14
  <2> QED
    BY <1>4, <1>10, <1>11, <2>1 DEF AnswersRequest
<1>16. server'.out[k].to = s
  BY <1>14, <1>15, RequestPaired DEF PairedBy
<1> QED
  BY <1>14, <1>15, <1>16

\* A reply of success ends a handler that paired the two.
LEMMA StepRepliesTruly ==
  ASSUME Holds(server), Strong(server), [Next]_vars
  PROVE  [RepliesTruly]_vars
<1>1. SUFFICES ASSUME ~UNCHANGED vars,
                      NEW k \in DOMAIN server'.out, server'.out[k].msg = Reply(TRUE)
               PROVE  /\ \E target \in server.told \cup {NoId} :
                           AnswersRequest(server'.out[k].to, target)
                      /\ \A target \in server.told \cup {NoId} :
                           AnswersRequest(server'.out[k].to, target)
                             => Grants(server'.out[k].to, target)
  BY DEF RepliesTruly
<1>2. Holds(server')
  BY NextHolds
<1> QED
  BY <1>1, <1>2, ReplyIsAsked, RequestGrants

\* A session falls silent only by an error that changes nothing else.
LEMMA StepSilencesOnlyItself ==
  ASSUME Holds(server), Strong(server), [Next]_vars
  PROVE  [SilencesOnlyItself]_vars
<1>1. /\ Holds(server') /\ IsState(server) /\ IsState(server')
      /\ ForgetsClosed(server') /\ DOMAIN server.pending \subseteq Session
  BY NextHolds DEF Holds, Consistent, IsState
<1>2. SUFFICES ASSUME server'.running PROVE Handles => SilencesOnlyItself \/ UNCHANGED vars
  BY NextHandled DEF SilencesOnlyItself
<1>3. CASE HandledAccept
  <2>1. CASE server'.sessions = server.sessions /\ server'.pending = server.pending
    BY <2>1 DEF SilencesOnlyItself, Silent, Live
  <2>2. CASE Adds(server, server')
    <3>1. Live(server) \subseteq Live(server')
      BY <2>2 DEF Adds, Live, Range
    <3>2. \A x \in Live(server) : /\ x \in DOMAIN server.pending
                                  /\ server'.pending[x] = server.pending[x]
      BY <1>1, <2>2 DEF Adds, Live, Range, IsState
    <3>3. ASSUME NEW x \in Live(server') \ Live(server) PROVE server'.pending[x] = "handshake"
      <4>1. PICK i \in DOMAIN server'.sessions : server'.sessions[i] = x
        BY DEF Live, Range
      <4>2. i \notin DOMAIN server.sessions
        BY <2>2, <3>3, <4>1 DEF Adds, Live, Range
      <4>3. x \in DOMAIN server'.pending \ DOMAIN server.pending
        BY <1>1, <2>2, <4>1, <4>2 DEF Adds, IsState
      <4> QED
        BY <2>2, <4>3 DEF Adds
    <3>4. Silent(server') = Silent(server)
      BY <3>1, <3>2, <3>3 DEF Silent
    <3> QED
      BY <3>4 DEF SilencesOnlyItself
  <2> QED
    BY <1>3, <2>1, <2>2 DEF HandledAccept
<1>4. ASSUME NEW s \in DOMAIN server.pending, server.pending[s] # "none",
             Handled(Completed(s), s)
      PROVE  SilencesOnlyItself
  <2>1. PICK st : st = Completed(s)
    OBVIOUS
  <2>2. /\ st.closes = server.closes
        /\ DOMAIN st.pending = DOMAIN server.pending
        /\ \A u \in DOMAIN server.pending : u # s => st.pending[u] = server.pending[u]
    BY <2>1, CompletedStrong
  <2>3. \A u \in DOMAIN server.pending : u # s => server'.pending[u] = server.pending[u]
    BY <1>4, <2>1, <2>2 DEF Handled
  <2>4. PICK mid : ShrinksFrom(mid, s)
    BY <1>4, HandledShrinks
  <2>5. Live(server') \subseteq Live(server) /\ Live(server) \subseteq DOMAIN server.pending
    BY <1>1, <2>4 DEF ShrinksFrom, Shrinks, Live, Range, IsState
  <2>6. ASSUME NEW x \in Silent(server') \ Silent(server)
        PROVE  server' = [server EXCEPT !.pending[x] = "none", !.out = << >>]
    <3>1. x \in Live(server') /\ x \in Live(server) /\ server'.pending[x] = "none"
      BY <2>5 DEF Silent
    <3>2. x = s
      BY <2>3, <2>5, <3>1 DEF Silent
    <3>3. ~(server'.closes[s] > st.closes[s])
      <4>1. s \in Session /\ st.closes[s] \in Nat
        BY <1>1, <2>2 DEF IsState
      <4>2. \E i \in DOMAIN server'.sessions : server'.sessions[i] = s
        BY <3>1, <3>2 DEF Live, Range
      <4>3. server'.closes[s] > st.closes[s] => server'.closes[s] > 0
        BY <1>1, <4>1 DEF IsState
      <4> QED
        BY <1>1, <1>2, <4>1, <4>2, <4>3 DEF ForgetsClosed
    <3>4. server' = Completed(s)
      BY <1>2, <1>4, <2>1, <3>1, <3>2, <3>3 DEF Handled
    <3> QED
      BY <3>2, <3>4 DEF Completed
  <2>7. ASSUME NEW x \in Silent(server) \ Silent(server')
        PROVE  /\ s \in DOMAIN server.pending \ {x}
               /\ server.pending[s] = "body" /\ server'.closes[x] > server.closes[x]
    <3>1. x \in Live(server) /\ server.pending[x] = "none" /\ x # s
      BY <1>4 DEF Silent
    <3>2. x \in DOMAIN server.pending /\ x \in Session /\ x \notin Live(server')
      BY <1>1, <2>3, <2>5, <2>7, <3>1 DEF Silent
    <3>3. server'.closes[x] > server.closes[x]
      <4>1. PICK i \in DOMAIN server.sessions : server.sessions[i] = x
        BY <3>1 DEF Live, Range
      <4>2. i \notin DOMAIN server'.sessions
        BY <2>4, <3>2, <4>1 DEF ShrinksFrom, Shrinks, Live, Range
      <4> QED
        BY <1>2, <2>4, <4>1, <4>2 DEF ShrinksFrom, Shrinks
    <3>4. server.closes[x] \in Nat
      BY <1>1, <3>2 DEF IsState
    <3>5. server.pending[s] = "body"
      BY <1>4, <2>1, <2>2, <3>1, <3>2, <3>3, <3>4 DEF Handled
    <3> QED
      BY <3>1, <3>3, <3>5
  <2> QED
    BY <2>6, <2>7 DEF SilencesOnlyItself
<1> QED
  BY <1>2, <1>3, <1>4 DEF Handles

\* Pairs last until one of the two is closed, in every behaviour.
THEOREM PairsLastTheorem == Spec => PairsLastUntilClose
<1>1. StrongIInv /\ [Next]_vars => [PairsLast]_vars
  BY StepPairsLast DEF StrongIInv
<1> QED
  BY <1>1, StrongInvariance, PTL DEF Spec, PairsLastUntilClose

\* Success is told only by the handler of the request, which paired the client with
\* the one it asked for, or closed that one.
THEOREM PositiveReplyTheorem == Spec => PositiveReplyMeansPaired
<1>1. StrongIInv /\ [Next]_vars => [RepliesTruly]_vars
  BY StepRepliesTruly DEF StrongIInv
<1> QED
  BY <1>1, StrongInvariance, PTL DEF Spec, PositiveReplyMeansPaired

\* Sessions fall silent, and leave again, in no other way.
THEOREM SilentSessionsTheorem == Spec => SilentSessions
<1>1. StrongIInv /\ [Next]_vars => [SilencesOnlyItself]_vars
  BY StepSilencesOnlyItself DEF StrongIInv
<1> QED
  BY <1>1, StrongInvariance, PTL DEF Spec, SilentSessions
-----------------------------------------------------------------------------
(* The refinement.                                                         *)

\* Who is online, and with whom, in terms of the maps.
Serves(st) ==
  /\ Online(st) = Live(st)
  /\ DOMAIN Partner(st) = {st.sessions[i] : i \in DOMAIN st.pairs}
  /\ DOMAIN Partner(st) \subseteq Online(st)
  /\ \A i \in DOMAIN st.pairs : Partner(st)[st.sessions[i]] = st.pairs[i]
  /\ Partner(st) = [u \in DOMAIN Partner(st) |-> Partner(st)[u]]

\* The partner of a session is the one its entry in the pair map points at.
LEMMA PartnerFields ==
  ASSUME NEW st, IsState(st), IsMatched(st), st.running
  PROVE  Serves(st)
<1>1. \A i \in DOMAIN st.pairs : i \in DOMAIN st.sessions /\ GetId(st.sessions[i]) = i
  BY DEF IsState, IsMatched
<1> QED
  BY <1>1 DEF Serves, Online, Partner, Live, Range

\* The pairs none of whose two is in S.
Without(p, S) == [u \in {w \in DOMAIN p : w \notin S /\ p[w] \notin S} |-> p[u]]

\* The maps change only by closes: exactly those leave who are online no more.
LEMMA ShrinkingIsLeaving ==
  ASSUME NEW a, IsState(a), IsMatched(a), a.running,
         NEW b, Holds(b), Strong(b), Shrinks(a, b),
         NEW S, S = Online(a) \ Online(b)
  PROVE  /\ Online(b) = Online(a) \ S
         /\ Partner(b) = Without(Partner(a), S)
<1> DEFINE paired == {w \in DOMAIN Partner(a) : w \notin S /\ Partner(a)[w] \notin S}
<1>1. IsState(b) /\ IsMatched(b) /\ Serves(a) /\ (b.running => Serves(b))
  BY PartnerFields DEF Holds, Consistent
<1>2. CASE ~b.running
  <2>1. Online(b) = {} /\ Partner(b) = << >> /\ S = Online(a)
    BY <1>2 DEF Online, Partner
  <2>2. paired = {}
    BY <1>1, <2>1 DEF Serves
  <2> QED
    BY <2>1, <2>2 DEF Without
<1>3. CASE b.running
  <2>1. /\ Online(a) = Live(a) /\ Online(b) = Live(b) /\ Live(b) \subseteq Live(a)
    BY <1>1, <1>3 DEF Serves, Shrinks, Live, Range
  <2>2. ASSUME NEW i \in DOMAIN b.pairs
        PROVE  /\ b.sessions[i] \in paired
               /\ Partner(b)[b.sessions[i]] = Partner(a)[b.sessions[i]]
    <3>1. /\ i \in DOMAIN a.pairs /\ b.pairs[i] = a.pairs[i]
          /\ b.sessions[i] = a.sessions[i] /\ b.sessions[i] \in Live(b)
          /\ b.pairs[i] \in Live(b)
      BY <1>1 DEF Shrinks, IsMatched, Live, Range
    <3>2. /\ Partner(a)[a.sessions[i]] = a.pairs[i] /\ a.sessions[i] \in DOMAIN Partner(a)
          /\ Partner(b)[b.sessions[i]] = b.pairs[i]
      BY <1>1, <1>3, <3>1 DEF Serves
    <3> QED
      BY <2>1, <3>1, <3>2
  <2>3. ASSUME NEW u \in paired PROVE \E i \in DOMAIN b.pairs : u = b.sessions[i]
    <3>1. /\ u \in {a.sessions[i] : i \in DOMAIN a.pairs}
          /\ \A i \in DOMAIN a.pairs : Partner(a)[a.sessions[i]] = a.pairs[i]
      BY <1>1 DEF Serves
    <3>2. PICK i \in DOMAIN a.pairs : u = a.sessions[i] /\ Partner(a)[u] = a.pairs[i]
      BY <3>1
    <3>3. PICK j : j = GetId(a.pairs[i])
      OBVIOUS
    <3>4. /\ i \in DOMAIN a.sessions /\ j \in DOMAIN a.sessions /\ a.pairs[i] = a.sessions[j]
          /\ GetId(a.sessions[i]) = i /\ GetId(a.sessions[j]) = j
      BY <3>3 DEF IsMatched, IsState
    <3>5. a.sessions[i] \in Live(b) /\ a.sessions[j] \in Live(b)
      BY <2>1, <3>2, <3>4 DEF Live, Range
    <3>6. i \in DOMAIN b.sessions /\ j \in DOMAIN b.sessions /\ b.sessions[i] = a.sessions[i]
      BY <1>1, <3>4, <3>5 DEF Live, Range, IsState
    <3>7. i \in DOMAIN b.pairs
      <4>1. SUFFICES ASSUME i \notin DOMAIN b.pairs PROVE FALSE
        OBVIOUS
      <4>2. PICK x \in Session : GetId(x) \in {i, j} /\ b.closes[x] > a.closes[x]
        BY <3>3, <4>1 DEF Shrinks
      <4>3. b.closes[x] = 0
        BY <1>3, <3>6, <4>2, FiledIsOpen
      <4>4. a.closes[x] \in Nat
        BY DEF IsState
      <4> QED
        BY <4>2, <4>3, <4>4
    <3> QED
      BY <3>2, <3>6, <3>7
  <2>4. DOMAIN Partner(b) = paired
    <3>1. \A u \in DOMAIN Partner(b) : \E i \in DOMAIN b.pairs : u = b.sessions[i]
      BY <1>1, <1>3 DEF Serves
    <3>2. \A i \in DOMAIN b.pairs : b.sessions[i] \in DOMAIN Partner(b)
      BY <1>1, <1>3 DEF Serves
    <3> QED
      BY <2>2, <2>3, <3>1, <3>2
  <2>5. \A u \in paired : Partner(b)[u] = Partner(a)[u]
    BY <2>2, <2>3
  <2>6. Partner(b) = [u \in DOMAIN Partner(b) |-> Partner(b)[u]]
    BY <1>1, <1>3 DEF Serves
  <2>7. Partner(b) = [u \in paired |-> Partner(a)[u]]
    <3> HIDE DEF paired
    <3> QED
      BY <2>4, <2>5, <2>6
  <2> QED
    BY <2>1, <2>7 DEF Without
<1> QED
  BY <1>2, <1>3
\* Sessions leave, with all pairs they are part of.
Departs(a, b) == \E S \in SUBSET Online(a) : /\ Online(b) = Online(a) \ S
                                             /\ Partner(b) = Without(Partner(a), S)

\* What is left when nobody leaves.
LEMMA NobodyLeaves ==
  ASSUME NEW a, IsState(a), IsMatched(a), a.running
  PROVE  Without(Partner(a), {}) = Partner(a)
<1>1. Partner(a) = [u \in DOMAIN Partner(a) |-> Partner(a)[u]]
  BY PartnerFields DEF Serves
<1> QED
  BY <1>1 DEF Without

\* Who is filed under an id that is not erased stays.
LEMMA OthersStay ==
  ASSUME NEW f, NEW id, NEW g, g = Erase(f, {id})
  PROVE  Range(g) = {f[k] : k \in DOMAIN f \ {id}}
<1>1. DOMAIN g = DOMAIN f \ {id} /\ \A k \in DOMAIN g : g[k] = f[k]
  BY DEF Erase, Restrict
<1>2. {g[k] : k \in DOMAIN g} = {f[k] : k \in DOMAIN f \ {id}}
  BY <1>1
<1> QED
  BY <1>2 DEF Range

\* A close is a departure: of the session filed under the id, or of all of them when
\* the exception of the empty id ends the process.
LEMMA CloseIsLeaving ==
  ASSUME NEW a, IsState(a), IsMatched(a), a.running, NEW s \in DOMAIN a.pending,
         NEW b, IsState(b), IsMatched(b), IsCloseOf(b, a, s)
  PROVE  Departs(a, b)
<1>1. Serves(a) /\ (b.running => Serves(b))
  BY PartnerFields
<1>2. CASE ~b.running
  <2>1. Online(b) = {} /\ Partner(b) = << >>
    BY <1>2 DEF Online, Partner
  <2>2. {w \in DOMAIN Partner(a) : w \notin Online(a) /\ Partner(a)[w] \notin Online(a)} = {}
    BY <1>1 DEF Serves
  <2>3. Partner(b) = Without(Partner(a), Online(a))
    BY <2>1, <2>2 DEF Without
  <2> QED
    BY <2>1, <2>3 DEF Departs
<1>3. CASE b.running
  <2>1. PICK id : id = GetId(s)
    OBVIOUS
  <2>2. PICK S : S = {a.sessions[i] : i \in DOMAIN a.sessions \cap {id}}
    OBVIOUS
  <2>3. b.sessions = Erase(a.sessions, {id}) /\ b.pairs = Erase(a.pairs, {id} \cup PartnerIds(a, id))
    BY <1>3, <2>1 DEF IsCloseOf
  <2>4. S \subseteq Live(a) /\ \A i \in DOMAIN a.sessions : a.sessions[i] \in S <=> i = id
    BY <2>2 DEF IsState, Live, Range
  <2>5. Live(b) = Live(a) \ S
    <3>1. Live(b) = {a.sessions[k] : k \in DOMAIN a.sessions \ {id}}
      BY <2>3, OthersStay DEF Live
    <3>2. Live(a) = {a.sessions[k] : k \in DOMAIN a.sessions}
      BY DEF Live, Range
    <3> QED
      BY <2>4, <3>1, <3>2
  <2>6. Online(b) = Online(a) \ S /\ S \subseteq Online(a)
    BY <1>1, <1>3, <2>4, <2>5 DEF Serves
  <2>7. \A i \in DOMAIN a.pairs :
          /\ i \in DOMAIN a.sessions /\ GetId(a.sessions[i]) = i
          /\ GetId(a.pairs[i]) \in DOMAIN a.pairs /\ a.pairs[i] \in Live(a)
          /\ a.pairs[i] = a.sessions[GetId(a.pairs[i])]
          /\ GetId(a.pairs[GetId(a.pairs[i])]) = i
    BY DEF IsMatched, IsState, Live, Range
  <2>8. \A i \in DOMAIN a.pairs :
          i \in DOMAIN b.pairs <=> a.sessions[i] \notin S /\ a.pairs[i] \notin S
    <3>1. PartnerIds(a, id) = IF id \in DOMAIN a.pairs THEN {GetId(a.pairs[id])} ELSE {}
      BY <2>7 DEF PartnerIds, Lock
    <3>2. \A i \in DOMAIN a.pairs : i \in DOMAIN b.pairs <=> i # id /\ i \notin PartnerIds(a, id)
      BY <2>3 DEF Erase, Restrict
    <3>3. ASSUME NEW i \in DOMAIN a.pairs
          PROVE  i \in PartnerIds(a, id) <=> GetId(a.pairs[i]) = id
      BY <2>7, <3>1
    <3>4. ASSUME NEW i \in DOMAIN a.pairs PROVE a.pairs[i] \in S <=> GetId(a.pairs[i]) = id
      BY <2>4, <2>7
    <3> QED
      BY <2>4, <2>7, <3>2, <3>3, <3>4
  <2>9. DOMAIN b.pairs \subseteq DOMAIN a.pairs /\ \A i \in DOMAIN b.pairs : b.pairs[i] = a.pairs[i]
    BY <2>3 DEF Erase, Restrict
  <2>10. \A i \in DOMAIN b.pairs : b.sessions[i] = a.sessions[i]
    <3>1. \A i \in DOMAIN b.pairs : i \in DOMAIN b.sessions
      BY DEF IsMatched
    <3> QED
      BY <2>3, <3>1 DEF Erase, Restrict
  <2>11. PICK p, q : p = Partner(a) /\ q = Partner(b)
    OBVIOUS
  <2>12. /\ DOMAIN p = {a.sessions[i] : i \in DOMAIN a.pairs}
         /\ \A i \in DOMAIN a.pairs : p[a.sessions[i]] = a.pairs[i]
         /\ DOMAIN q = {b.sessions[i] : i \in DOMAIN b.pairs}
         /\ \A i \in DOMAIN b.pairs : q[b.sessions[i]] = b.pairs[i]
         /\ q = [u \in DOMAIN q |-> q[u]]
    BY <1>1, <1>3, <2>11 DEF Serves
  <2>13. DOMAIN q = {w \in DOMAIN p : w \notin S /\ p[w] \notin S}
    <3>1. ASSUME NEW w \in DOMAIN q PROVE w \in DOMAIN p /\ w \notin S /\ p[w] \notin S
      <4>1. PICK i \in DOMAIN b.pairs : w = b.sessions[i]
        BY <2>12
      <4> QED
        BY <2>8, <2>9, <2>10, <2>12, <4>1
    <3>2. ASSUME NEW w \in DOMAIN p, w \notin S, p[w] \notin S PROVE w \in DOMAIN q
      <4>1. PICK i \in DOMAIN a.pairs : w = a.sessions[i]
        BY <2>12
      <4> QED
        BY <2>8, <2>10, <2>12, <3>2, <4>1
    <3> QED
      BY <3>1, <3>2
  <2>14. \A w \in DOMAIN q : q[w] = p[w]
    BY <2>9, <2>10, <2>12
  <2>15. q = Without(p, S)
    BY <2>12, <2>13, <2>14 DEF Without
  <2> QED
    BY <2>6, <2>11, <2>15 DEF Departs
<1> QED
  BY <1>2, <1>3

\* A session that is constructed comes online without a partner, unless its id is taken.
LEMMA AddingIsJoining ==
  ASSUME NEW a, IsState(a), IsMatched(a), a.running, NEW x \in Session \ DOMAIN a.pending,
         NEW b, b.running, b.pairs = a.pairs,
         DOMAIN b.sessions = DOMAIN a.sessions \cup {GetId(x)},
         GetId(x) \notin DOMAIN a.sessions => b.sessions[GetId(x)] = x,
         \A i \in DOMAIN a.sessions : b.sessions[i] = a.sessions[i]
  PROVE  /\ Online(b) \in {Online(a), Online(a) \cup {x}} /\ x \notin Online(a)
         /\ Partner(b) = Partner(a)
<1>1. Partner(b) = Partner(a)
  <2>1. \A i \in DOMAIN a.pairs : b.sessions[i] = a.sessions[i]
    BY DEF IsMatched
  <2>2. {b.sessions[i] : i \in DOMAIN a.pairs} = {a.sessions[i] : i \in DOMAIN a.pairs}
    BY <2>1
  <2> QED
    BY <2>2 DEF Partner
<1>2. x \notin Live(a)
  BY DEF Live, Range, IsState
<1>3. CASE GetId(x) \in DOMAIN a.sessions
  <2>1. Live(b) = Live(a)
    BY <1>3 DEF Live, Range
  <2> QED
    BY <1>1, <1>2, <2>1 DEF Online
<1>4. CASE GetId(x) \notin DOMAIN a.sessions
  <2>1. Live(b) = Live(a) \cup {x}
    BY <1>4 DEF Live, Range
  <2> QED
    BY <1>1, <1>2, <2>1 DEF Online
<1> QED
  BY <1>3, <1>4

\* The sessions u and v have become partners.
Joined(a, b, u, v) ==
  /\ u \in Session /\ v \in Session /\ u # v
  /\ Online(b) = Online(a)
  /\ {u, v} \subseteq Online(a) \ DOMAIN Partner(a)
  /\ Partner(b) = [w \in DOMAIN Partner(a) \cup {u, v} |->
                     IF w = u THEN v ELSE IF w = v THEN u ELSE Partner(a)[w]]

\* That is what it means to enter a pair in the map.
LEMMA MatchingIsPairing ==
  ASSUME NEW a, IsState(a), IsMatched(a), a.running,
         NEW b, IsState(b), IsMatched(b), b.running, b.sessions = a.sessions,
         NEW i \in DOMAIN a.sessions \ DOMAIN a.pairs,
         NEW j \in DOMAIN a.sessions \ DOMAIN a.pairs, i # j,
         DOMAIN b.pairs = DOMAIN a.pairs \cup {i, j},
         b.pairs[i] = a.sessions[j], b.pairs[j] = a.sessions[i],
         \A k \in DOMAIN a.pairs : b.pairs[k] = a.pairs[k]
  PROVE  Joined(a, b, a.sessions[i], a.sessions[j])
<1>1. Serves(a) /\ Serves(b)
  BY PartnerFields
<1> DEFINE u == a.sessions[i]
           v == a.sessions[j]
<1> HIDE DEF u, v
<1>2. /\ u \in Session /\ v \in Session /\ GetId(u) = i /\ GetId(v) = j
      /\ u \in Live(a) /\ v \in Live(a)
  BY DEF u, v, IsState, Live, Range
<1>3. Online(b) = Online(a) /\ Online(a) = Live(a)
  BY <1>1 DEF Serves, Live
<1>4. PICK p, q : p = Partner(a) /\ q = Partner(b)
  OBVIOUS
<1>5. /\ DOMAIN p = {a.sessions[k] : k \in DOMAIN a.pairs}
      /\ \A k \in DOMAIN a.pairs : p[a.sessions[k]] = a.pairs[k]
  BY <1>1, <1>4 DEF Serves
<1>6. /\ DOMAIN q = {a.sessions[k] : k \in DOMAIN b.pairs}
      /\ \A k \in DOMAIN b.pairs : q[a.sessions[k]] = b.pairs[k]
      /\ q = [w \in DOMAIN q |-> q[w]]
  <2>1. /\ DOMAIN q = {b.sessions[k] : k \in DOMAIN b.pairs}
        /\ \A k \in DOMAIN b.pairs : q[b.sessions[k]] = b.pairs[k]
        /\ q = [w \in DOMAIN q |-> q[w]]
    BY <1>1, <1>4 DEF Serves
  <2> QED
    BY <2>1
<1>7. DOMAIN q = DOMAIN p \cup {u, v}
  BY <1>5, <1>6 DEF u, v
<1>8. q[u] = v /\ q[v] = u /\ \A w \in DOMAIN p : q[w] = p[w]
  BY <1>5, <1>6 DEF u, v
<1>9. u \notin DOMAIN p /\ v \notin DOMAIN p
  <2>1. \A k \in DOMAIN a.pairs : GetId(a.sessions[k]) = k
    BY DEF IsMatched, IsState
  <2> QED
    BY <1>2, <1>5, <2>1
<1>10. q = [w \in DOMAIN p \cup {u, v} |-> IF w = u THEN v ELSE IF w = v THEN u ELSE p[w]]
  BY <1>2, <1>6, <1>7, <1>8, <1>9
<1> QED
  BY <1>2, <1>3, <1>4, <1>9, <1>10 DEF Joined, u, v

\* A session that joins is online without a partner.
LEMMA AcceptRefines ==
  ASSUME Holds(server), Strong(server), Holds(server'), HandledAccept
  PROVE  [Promise!Next]_(Promise!vars)
<1>1. /\ Online(server)' = Online(server') /\ Partner(server)' = Partner(server')
  BY DEF Online, Partner
<1>2. /\ IsState(server) /\ IsMatched(server) /\ IsState(server') /\ IsMatched(server')
      /\ server.running /\ server'.pairs = server.pairs /\ Serves(server)
  BY PartnerFields DEF Holds, Consistent, HandledAccept
<1>3. CASE server'.sessions = server.sessions /\ server'.running
  <2>1. Online(server') = Online(server) /\ Partner(server') = Partner(server)
    BY <1>2, <1>3 DEF Online, Partner, Live
  <2> QED
    BY <1>1, <2>1 DEF Promise!vars
<1>4. CASE ~server'.running
  <2>1. Online(server') = {} /\ Partner(server') = << >>
    BY <1>4 DEF Online, Partner
  <2>2. DOMAIN Partner(server) \subseteq Online(server)
    BY <1>2 DEF Serves
  <2>3. CASE Online(server) = {}
    <3>1. Partner(server) = [u \in DOMAIN Partner(server) |-> Partner(server)[u]]
      BY <1>2 DEF Serves
    <3>2. Partner(server) = << >>
      BY <2>2, <2>3, <3>1
    <3> QED
      BY <1>1, <2>1, <2>3, <3>2 DEF Promise!vars
  <2>4. CASE Online(server) # {}
    <3>1. Promise!Leave(Online(server))
      BY <1>1, <2>1, <2>2, <2>4 DEF Promise!Leave
    <3> QED
      BY <3>1 DEF Promise!Next
  <2> QED
    BY <2>3, <2>4
<1>5. CASE Adds(server, server') /\ server'.running
  <2>1. PICK x \in Session \ DOMAIN server.pending :
              /\ DOMAIN server'.sessions = DOMAIN server.sessions \cup {GetId(x)}
              /\ GetId(x) \notin DOMAIN server.sessions => server'.sessions[GetId(x)] = x
    BY <1>5 DEF Adds
  <2>2. \A i \in DOMAIN server.sessions : server'.sessions[i] = server.sessions[i]
    BY <1>5 DEF Adds
  <2>3. /\ Online(server') \in {Online(server), Online(server) \cup {x}}
        /\ x \notin Online(server) /\ Partner(server') = Partner(server)
    BY <1>2, <1>5, <2>1, <2>2, AddingIsJoining
  <2>4. CASE Online(server') = Online(server)
    BY <1>1, <2>3, <2>4 DEF Promise!vars
  <2>5. CASE Online(server') = Online(server) \cup {x}
    <3>1. Promise!Join(x)
      BY <1>1, <2>3, <2>5 DEF Promise!Join
    <3> QED
      BY <3>1 DEF Promise!Next
  <2> QED
    BY <2>3, <2>4, <2>5
<1> QED
  BY <1>2, <1>3, <1>4, <1>5 DEF HandledAccept
\* A request pairs its two sessions, unless one of them was closed by a write:
\* then it is a departure, and the pair was never seen.
LEMMA PairingRefines ==
  ASSUME Holds(server), Strong(server), Holds(server'), Strong(server'),
         NEW s \in DOMAIN server.pending, server.running, NEW mid, ShrinksFrom(mid, s),
         NEW target, PairedBy(Completed(s), server', s, target),
         IsMatchOf(mid, Completed(s), GetId(s), target)
  PROVE  [Promise!Next]_(Promise!vars)
<1>1. /\ Online(server)' = Online(server') /\ Partner(server)' = Partner(server')
  BY DEF Online, Partner
<1>2. PICK st : st = Completed(s)
  OBVIOUS
<1>3. /\ st.sessions = server.sessions /\ st.pairs = server.pairs
      /\ st.closes = server.closes /\ st.running = server.running
      /\ s \in Session
  <2>1. s \in Session
    BY DEF Holds, Consistent, IsState
  <2> QED
    BY <1>2, <2>1, CompletedStrong
<1>4. PICK u : u = server.sessions[GetId(s)]
  OBVIOUS
<1>5. PICK v : v = server.sessions[target]
  OBVIOUS
<1>6. /\ GetId(s) \in DOMAIN server.sessions /\ target \in DOMAIN server.sessions
      /\ GetId(s) # target
      /\ GetId(s) \notin DOMAIN server.pairs /\ target \notin DOMAIN server.pairs
      /\ v \in Session \ {s}
      /\ \A x \in Session \ {s, v} : server'.closes[x] = mid.closes[x]
  BY <1>2, <1>3, <1>5 DEF PairedBy, Matchable, ShrinksFrom
<1>7. /\ DOMAIN mid.pairs = DOMAIN server.pairs \cup {GetId(s), target}
      /\ mid.pairs[GetId(s)] = v /\ mid.pairs[target] = u
      /\ \A k \in DOMAIN server.pairs : mid.pairs[k] = server.pairs[k]
      /\ mid.sessions = server.sessions /\ mid.running
  BY <1>2, <1>3, <1>4, <1>5 DEF IsMatchOf
<1>8. /\ IsState(server) /\ IsMatched(server) /\ IsState(mid) /\ IsMatched(mid)
      /\ Shrinks(mid, server') /\ Serves(mid) /\ Serves(server)
  BY <1>7, PartnerFields DEF ShrinksFrom, Holds, Consistent
<1>9. /\ u \in Session /\ GetId(u) = GetId(s) /\ GetId(v) = target /\ u # v
      /\ u \in Live(server) /\ v \in Live(server)
  BY <1>4, <1>5, <1>6, <1>8 DEF IsState, Live, Range
<1>10. /\ u \in Session /\ v \in Session /\ u # v
       /\ Online(mid) = Online(server)
       /\ {u, v} \subseteq Online(server) \ DOMAIN Partner(server)
       /\ Partner(mid) = [w \in DOMAIN Partner(server) \cup {u, v} |->
                            IF w = u THEN v ELSE IF w = v THEN u ELSE Partner(server)[w]]
  <2>1. /\ GetId(s) \in DOMAIN server.sessions \ DOMAIN server.pairs
        /\ target \in DOMAIN server.sessions \ DOMAIN server.pairs
    BY <1>6
  <2>2. PICK i, j : i = GetId(s) /\ j = target
    OBVIOUS
  <2>3. /\ i \in DOMAIN server.sessions \ DOMAIN server.pairs
        /\ j \in DOMAIN server.sessions \ DOMAIN server.pairs /\ i # j
        /\ u = server.sessions[i] /\ v = server.sessions[j]
        /\ DOMAIN mid.pairs = DOMAIN server.pairs \cup {i, j}
        /\ mid.pairs[i] = server.sessions[j] /\ mid.pairs[j] = server.sessions[i]
        /\ \A k \in DOMAIN server.pairs : mid.pairs[k] = server.pairs[k]
    BY <1>4, <1>5, <1>6, <1>7, <2>1, <2>2
  <2>4. Joined(server, mid, server.sessions[i], server.sessions[j])
    BY <1>7, <1>8, <2>3, MatchingIsPairing
  <2> QED
    BY <2>3, <2>4 DEF Joined
<1>11. PICK S : S = Online(mid) \ Online(server')
  OBVIOUS
<1>12. /\ Online(server') = Online(mid) \ S
       /\ Partner(server') = Without(Partner(mid), S)
  BY <1>7, <1>8, <1>11, ShrinkingIsLeaving
<1>13. CASE S = {}
  <2>1. {x \in DOMAIN Partner(mid) : x \notin S /\ Partner(mid)[x] \notin S} = DOMAIN Partner(mid)
    BY <1>13
  <2>2. Online(server') = Online(server) /\ Partner(server') = Partner(mid)
    BY <1>10, <1>12, <1>13, <2>1 DEF Without
  <2>3. Partner(mid) = [w \in DOMAIN Partner(server) \cup {u, v} |->
                          IF w = u THEN v ELSE IF w = v THEN u ELSE Partner(server)[w]]
    BY <1>9, <1>10
  <2>4. Promise!Pair(u, v)
    BY <1>1, <1>9, <1>10, <2>2, <2>3 DEF Promise!Pair
  <2>5. v \in Session
    BY <1>6
  <2> QED
    BY <1>9, <2>4, <2>5 DEF Promise!Next
<1>14. CASE S # {}
  <2>1. u \in S \/ v \in S
    <3>1. PICK w \in S : TRUE
      BY <1>14
    <3>2. CASE ~server'.running
      BY <1>9, <1>10, <1>11, <3>2 DEF Online
    <3>3. CASE server'.running
      <4>1. w \in Live(server) /\ w \notin Live(server')
        BY <1>10, <1>11, <3>1, <3>3 DEF Online
      <4>2. PICK i \in DOMAIN mid.sessions : mid.sessions[i] = w
        BY <1>7, <4>1 DEF Live, Range
      <4>3. i \notin DOMAIN server'.sessions
        BY <1>8, <4>1, <4>2 DEF Shrinks, Live, Range
      <4>4. server'.closes[w] > mid.closes[w]
        BY <1>8, <3>3, <4>2, <4>3 DEF Shrinks
      <4>5. w \in Session /\ mid.closes[w] \in Nat /\ GetId(w) = i
        BY <1>8, <4>2 DEF IsState
      <4>6. w = s \/ w = v
        BY <1>6, <4>4, <4>5
      <4>7. w = s => w = u
        BY <1>4, <1>7, <4>2, <4>5
      <4> QED
        BY <4>6, <4>7
    <3> QED
      BY <3>2, <3>3
  <2>2. {x \in DOMAIN Partner(mid) : x \notin S /\ Partner(mid)[x] \notin S}
          = {x \in DOMAIN Partner(server) : x \notin S /\ Partner(server)[x] \notin S}
    BY <1>10, <2>1
  <2>3. Partner(server') = Without(Partner(server), S)
    BY <1>10, <1>12, <2>2 DEF Without
  <2>4. Promise!Leave(S)
    BY <1>1, <1>10, <1>12, <1>14, <2>3 DEF Promise!Leave, Without
  <2> QED
    BY <1>10, <1>11, <2>4 DEF Promise!Next
<1> QED
  BY <1>13, <1>14

\* Any other handler is a departure or changes nothing.
LEMMA LeavingRefines ==
  ASSUME Holds(server), Strong(server), Holds(server'), Strong(server'),
         NEW s \in DOMAIN server.pending, server.running, ShrinksFrom(Completed(s), s)
  PROVE  [Promise!Next]_(Promise!vars)
<1>1. /\ Online(server)' = Online(server') /\ Partner(server)' = Partner(server')
  BY DEF Online, Partner
<1>2. PICK st : st = Completed(s)
  OBVIOUS
<1>3. /\ st.sessions = server.sessions /\ st.pairs = server.pairs
      /\ st.running = server.running
      /\ IsState(st) /\ IsMatched(st) /\ IsState(server) /\ IsMatched(server)
      /\ Shrinks(st, server')
  BY <1>2, CompletedStrong DEF Holds, Consistent, ShrinksFrom
<1>4. Online(st) = Online(server) /\ Partner(st) = Partner(server)
  BY <1>3 DEF Online, Partner, Live
<1>5. PICK S : S = Online(st) \ Online(server')
  OBVIOUS
<1>6. /\ Online(server') = Online(server) \ S
      /\ Partner(server') = Without(Partner(server), S)
  <2>1. /\ Online(server') = Online(st) \ S
        /\ Partner(server') = Without(Partner(st), S)
    BY <1>3, <1>5, ShrinkingIsLeaving
  <2> QED
    BY <1>4, <2>1
<1>7. CASE S = {}
  <2>1. Online(server') = Online(server) /\ Partner(server') = Partner(server)
    BY <1>3, <1>6, <1>7, NobodyLeaves
  <2> QED
    BY <1>1, <2>1 DEF Promise!vars
<1>8. CASE S # {}
  <2>1. Promise!Leave(S)
    BY <1>1, <1>6, <1>8 DEF Promise!Leave, Without
  <2> QED
    BY <1>4, <1>5, <2>1 DEF Promise!Next
<1> QED
  BY <1>7, <1>8

\* Every step of the server is a step of the matchmaking service or none.
LEMMA StepRefines ==
  ASSUME Holds(server), Strong(server), [Next]_vars
  PROVE  [Promise!Next]_(Promise!vars)
<1>1. Holds(server') /\ Strong(server') /\ Handles
  BY NextHandled, NextStrong
<1>2. CASE HandledAccept
  BY <1>1, <1>2, AcceptRefines
<1>3. ASSUME NEW s \in DOMAIN server.pending, server.running, Handled(Completed(s), s)
      PROVE  [Promise!Next]_(Promise!vars)
  <2>1. PICK mid : ShrinksFrom(mid, s)
    BY <1>3, HandledShrinks
  <2>2. CASE mid = Completed(s)
    BY <1>1, <1>3, <2>1, <2>2, LeavingRefines
  <2>3. CASE \E target : /\ PairedBy(Completed(s), server', s, target)
                         /\ IsMatchOf(mid, Completed(s), GetId(s), target)
    BY <1>1, <1>3, <2>1, <2>3, PairingRefines
  <2> QED
    BY <2>1, <2>2, <2>3 DEF ShrinksFrom
<1>4. CASE UNCHANGED vars
  BY <1>4 DEF vars, Promise!vars, Online, Partner, Live
<1> QED
  BY <1>1, <1>2, <1>3, <1>4 DEF Handles

\* The server implements the matchmaking service: all it does to its clients is
\* to let them join, to pair two who have no partner, and to let them leave.
THEOREM Refinement == Spec => ImplementsPromise
<1>1. Init => Promise!Init
  <2> SUFFICES ASSUME Init PROVE Promise!Init
    OBVIOUS
  <2>1. server.sessions = << >> /\ server.pairs = << >> /\ server.running = TRUE
    BY DEF Init
  <2>2. DOMAIN server.sessions = {} /\ DOMAIN server.pairs = {}
    BY <2>1
  <2>3. Online(server) = {}
    BY <2>1, <2>2 DEF Online, Live, Range
  <2>4. Partner(server) = << >>
    BY <2>1, <2>2 DEF Partner
  <2> QED
    BY <2>3, <2>4 DEF Promise!Init
<1>2. StrongIInv /\ [Next]_vars => [Promise!Next]_(Promise!vars)
  BY StepRefines DEF StrongIInv
<1> QED
  BY <1>1, <1>2, StrongInvariance, PTL DEF Spec, ImplementsPromise, Promise!Spec

=============================================================================
