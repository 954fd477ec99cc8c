-------------------------- MODULE RemoteInputProofs --------------------------
(***************************************************************************)
(* Proofs about RemoteInput, for any buttons, keys and positions and any   *)
(* number of events: the type invariant, that the agent's display mirrors  *)
(* the window, and that buttons are replayed in place.                     *)
(*                                                                         *)
(* Both promises speak of a queue that was replayed; the invariant speaks  *)
(* of one that was not.  For each input the last message about it, or the  *)
(* display if there is none, agrees with the window (Tells); for each      *)
(* button message the last move before it, or the cursor if there is none, *)
(* is where the controller reported the pointer (At).                      *)
(***************************************************************************)
EXTENDS RemoteInput, QueueLemmas

Msgs == Messages \cup {Connected, Disconnected}
Moves == {m \in Messages : m.type = "MouseMove"}
\* The messages that change whether the display holds what stands for i.
Changes(i) == {m \in Messages : i \in About(m)}
Presses(m) == m.type \in {"MousePress", "KeyboardPress"}
Codes == {Code(i) : i \in Inputs}

\* With the queue q before it a display that holds i iff down comes to hold it iff up.
Tells(q, i, up, down) ==
  /\ NoneBefore(q, Len(q) + 1, Changes(i)) => (down <=> up)
  /\ \A m : LastBefore(q, Len(q) + 1, Changes(i), m) => (Presses(m) <=> up)

\* When the elements before place n are replayed the cursor is at the position, or
\* where it was before the first move.
At(q, n, position, cursor) ==
  /\ NoneBefore(q, n, Moves) => cursor \in {position, NoPosition}
  /\ \A m : LastBefore(q, n, Moves, m) => m.position = position
InPlace(q, cursor) ==
  \A k \in DOMAIN q : q[k].type \in ButtonTypes => At(q, k, q[k].at, cursor)

Mirrors == /\ \A i \in Inputs \ untold :
                Tells(queue, i, i \in wnd.held, Code(i) \in agent.held)
           /\ wnd.held \subseteq Inputs /\ agent.held \subseteq Codes
           /\ \A k \in DOMAIN queue : queue[k].type = "MousePress" => queue[k].button \in Codes
Places == /\ InPlace(queue, agent.cursor)
          /\ wnd.running => At(queue, Len(queue) + 1, wnd.position, agent.cursor)
          /\ agent.slots \/ agent.cursor = NoPosition
          /\ ReplayedInPlace

IInv == TypeOK /\ Mirrors /\ Places

-----------------------------------------------------------------------------
(* Messages and inputs *)

\* The fields of a message.
LEMMA MessageFields ==
  ASSUME NEW m \in Messages
  PROVE  /\ m.type \in {"MouseMove"} \cup ButtonTypes \cup KeyTypes
         /\ m.type = "MouseMove" => m.position \in Positions
         /\ m.type \in ButtonTypes =>
              m.button \in SysButtons /\ m.at \in Positions \cup {NoPosition}
         /\ m.type \in KeyTypes => XKeysymToKeycode(m.key) \in Keys
         /\ m # Connected /\ m # Disconnected
BY DEF Messages, ButtonTypes, KeyTypes, Keysyms, XKeysymToKeycode, Connected, Disconnected

\* The two events are about no input.
LEMMA EventFields ==
  /\ Connected.type = "Connected" /\ Disconnected.type = "Disconnected"
  /\ Connected \notin Messages /\ Disconnected \notin Messages
BY MessageFields DEF Connected, Disconnected

\* No two inputs stand for the same button or key of the display.
LEMMA CodesDiffer ==
  /\ \A i \in Keys : i \in Inputs /\ Code(i) = i /\ i \notin SysButtons
  /\ \A i \in Inputs \ Keys : /\ i \in Buttons /\ Code(i) = QtButtonToSysButton(i)
                              /\ Code(i) \in SysButtons /\ Code(i) \notin WheelButtons
  /\ \A i, j \in Inputs : Code(i) = Code(j) => i = j
<1>1. \A b : QtButtonToSysButton(b) # 0 =>
        \/ b = "LeftButton" /\ QtButtonToSysButton(b) = 1
        \/ b = "MiddleButton" /\ QtButtonToSysButton(b) = 2
        \/ b = "RightButton" /\ QtButtonToSysButton(b) = 3
  BY DEF QtButtonToSysButton
<1>2. \A i \in Keys : i \in Inputs /\ Code(i) = i /\ i \notin SysButtons
  BY KeysAssumption DEF Inputs, Code
<1>3. \A i \in Inputs \ Keys : /\ i \in Buttons /\ Code(i) = QtButtonToSysButton(i)
                               /\ QtButtonToSysButton(i) # 0
  BY DEF Inputs, Code
<1>4. \A i \in Inputs \ Keys : Code(i) \in SysButtons /\ Code(i) \notin WheelButtons
  BY <1>1, <1>3 DEF SysButtons, WheelButtons
<1>5. ASSUME NEW i \in Inputs, NEW j \in Inputs, Code(i) = Code(j)
      PROVE  i = j
  <2>1. CASE i \in Keys /\ j \in Keys
    BY <1>2, <1>5, <2>1
  <2>2. CASE i \in Keys /\ j \notin Keys
    BY <1>2, <1>4, <1>5, <2>2
  <2>3. CASE i \notin Keys /\ j \in Keys
    BY <1>2, <1>4, <1>5, <2>3
  <2>4. CASE i \notin Keys /\ j \notin Keys
    BY <1>1, <1>3, <1>5, <2>4
  <2> QED
    BY <2>1, <2>2, <2>3, <2>4
<1> QED
  BY <1>2, <1>3, <1>4, <1>5

\* A message changes an input iff it carries its button or key.
LEMMA ChangesAre ==
  ASSUME NEW m \in Messages, NEW i \in Inputs
  PROVE  /\ m \in Changes(i) <=> i \in About(m)
         /\ m \in Changes(i) <=>
              \/ m.type \in ButtonTypes /\ Code(i) = m.button
              \/ m.type \in KeyTypes /\ Code(i) = XKeysymToKeycode(m.key)
<1>1. m \in Changes(i) <=> i \in About(m)
  BY DEF Changes
<1>2. i \in About(m) <=> \/ m.type \in ButtonTypes /\ Code(i) = m.button
                         \/ m.type \in KeyTypes /\ i = XKeysymToKeycode(m.key)
  BY DEF About
<1>3. m.type \in KeyTypes => (i = XKeysymToKeycode(m.key) <=> Code(i) = XKeysymToKeycode(m.key))
  BY MessageFields, CodesDiffer
<1> QED
  BY <1>1, <1>2, <1>3

-----------------------------------------------------------------------------
(* What becomes of Tells and At when the queue changes *)

\* A message is posted.
LEMMA TellsAppend ==
  ASSUME NEW q \in Seq(Msgs), NEW e \in Msgs, NEW new, new = Append(q, e),
         NEW i, NEW up, NEW down
  PROVE  /\ e \notin Changes(i) /\ Tells(q, i, up, down) => Tells(new, i, up, down)
         /\ e \in Changes(i) /\ (Presses(e) <=> up) => Tells(new, i, up, down)
<1>1. PICK n : n = Len(q) + 1
  OBVIOUS
<1>2. /\ n \in Nat \ {0} /\ Len(new) = n /\ new[n] = e
      /\ \A k \in 1..n - 1 : new[k] = q[k]
  BY <1>1, AppendElements, QueueElements
<1>3. /\ NoneBefore(new, n + 1, Changes(i)) => NoneBefore(q, n, Changes(i)) /\ e \notin Changes(i)
      /\ \A m : LastBefore(new, n + 1, Changes(i), m) =>
           IF e \in Changes(i) THEN m = e ELSE LastBefore(q, n, Changes(i), m)
  <2>1. PICK S : S = Changes(i)
    OBVIOUS
  <2>2. /\ NoneBefore(new, n + 1, S) => NoneBefore(new, n, S) /\ e \notin S
        /\ \A m : LastBefore(new, n + 1, S, m) =>
             IF e \in S THEN m = e ELSE LastBefore(new, n, S, m)
    <3>1. n \in Nat \ {0} /\ new[n] = e
      BY <1>2
    <3>2. NoneBefore(new, n + 1, S) => NoneBefore(new, n, S) /\ new[n] \notin S
      BY <3>1, BeforeNext
    <3>3. \A m : LastBefore(new, n + 1, S, m) =>
            IF new[n] \in S THEN m = new[n] ELSE LastBefore(new, n, S, m)
      BY <3>1, BeforeNext
    <3> QED
      BY <3>1, <3>2, <3>3
  <2>3. /\ NoneBefore(new, n, S) => NoneBefore(q, n, S)
        /\ \A m : LastBefore(new, n, S, m) => LastBefore(q, n, S, m)
    BY <1>2, BeforeSame
  <2> QED
    BY <2>1, <2>2, <2>3
<1> QED
  BY <1>1, <1>2, <1>3 DEF Tells

\* The first message is taken: it has been replayed, or another one follows.
LEMMA TellsTail ==
  ASSUME NEW q \in Seq(Msgs), q # << >>, NEW new, new = Tail(q),
         NEW i, NEW up, NEW down, Tells(q, i, up, down)
  PROVE  /\ q[1] \notin Changes(i) => Tells(new, i, up, down)
         /\ q[1] \in Changes(i) => Tells(new, i, up, Presses(q[1]))
         /\ (\E k \in DOMAIN new : new[k] \in Changes(i)) => \A x : Tells(new, i, up, x)
<1>1. PICK n : n = Len(q)
  OBVIOUS
<1>2. /\ n \in Nat \ {0} /\ Len(new) + 1 = n /\ DOMAIN new = 1..n - 1
      /\ \A k \in 1..n - 1 : new[k] = q[k + 1]
  BY <1>1, TailElements
<1>3. /\ \A m : LastBefore(new, n, Changes(i), m) => LastBefore(q, n + 1, Changes(i), m)
      /\ NoneBefore(new, n, Changes(i)) =>
           IF q[1] \in Changes(i) THEN LastBefore(q, n + 1, Changes(i), q[1])
                                  ELSE NoneBefore(q, n + 1, Changes(i))
  BY <1>2, BeforeTail
<1>4. (\E k \in DOMAIN new : new[k] \in Changes(i)) => ~NoneBefore(new, n, Changes(i))
  BY <1>2 DEF NoneBefore
<1> QED
  BY <1>1, <1>2, <1>3, <1>4 DEF Tells

\* What follows place n is lost, and nothing of it changed the input.
LEMMA TellsCut ==
  ASSUME NEW q \in Seq(Msgs), NEW n \in 0..Len(q), NEW new, new = SubSeq(q, 1, n),
         NEW i, NEW up, NEW down, Tells(q, i, up, down),
         \A k \in n + 1..Len(q) : q[k] \notin Changes(i)
  PROVE  Tells(new, i, up, down)
<1>1. PICK l : l = Len(q)
  OBVIOUS
<1>2. PICK lost : lost = SubSeq(q, n + 1, Len(q))
  OBVIOUS
<1>3. l \in Nat /\ n \in Nat /\ n <= l /\ Len(new) = n /\ \A k \in 1..(n + 1) - 1 : new[k] = q[k]
  BY <1>1, <1>2, PrefixElements, QueueElements
<1>4. n + 1 \in Nat
  BY <1>3
<1>5. /\ NoneBefore(new, n + 1, Changes(i)) => NoneBefore(q, n + 1, Changes(i))
      /\ \A m : LastBefore(new, n + 1, Changes(i), m) => LastBefore(q, n + 1, Changes(i), m)
  BY <1>3, <1>4, BeforeSame
<1>6. /\ NoneBefore(q, n + 1, Changes(i)) => NoneBefore(q, l + 1, Changes(i))
      /\ \A m : LastBefore(q, n + 1, Changes(i), m) => LastBefore(q, l + 1, Changes(i), m)
  BY <1>1, <1>3, BeforeCut
<1> QED
  BY <1>1, <1>3, <1>5, <1>6 DEF Tells

\* A message is posted: what comes before the old places is the same, and the new last
\* place has the old one before it.
LEMMA AtAppend ==
  ASSUME NEW q \in Seq(Msgs), NEW e \in Msgs, NEW new, new = Append(q, e), NEW cursor
  PROVE  /\ \A k \in 1..Len(q) + 1 : \A p : At(q, k, p, cursor) => At(new, k, p, cursor)
         /\ \A p : e \notin Moves /\ At(q, Len(q) + 1, p, cursor) =>
              At(new, Len(new) + 1, p, cursor)
         /\ e \in Moves => At(new, Len(new) + 1, e.position, cursor)
         /\ /\ InPlace(q, cursor)
            /\ e.type \in ButtonTypes => At(q, Len(q) + 1, e.at, cursor)
            => InPlace(new, cursor)
<1>1. PICK n : n = Len(q) + 1
  OBVIOUS
<1>2. /\ n \in Nat \ {0} /\ Len(new) = n /\ new[n] = e
      /\ \A k \in 1..n - 1 : new[k] = q[k]
      /\ DOMAIN q = 1..n - 1 /\ DOMAIN new = 1..n
  BY <1>1, AppendElements, QueueElements
<1>3. ASSUME NEW k \in 1..n, NEW p, At(q, k, p, cursor) PROVE At(new, k, p, cursor)
  <2>1. k \in Nat /\ \A j \in 1..k - 1 : new[j] = q[j]
    BY <1>2
  <2>2. /\ NoneBefore(new, k, Moves) => NoneBefore(q, k, Moves)
        /\ \A m : LastBefore(new, k, Moves, m) => LastBefore(q, k, Moves, m)
    BY <2>1, BeforeSame
  <2> QED
    BY <1>3, <2>2 DEF At
<1>4. /\ NoneBefore(new, n + 1, Moves) => NoneBefore(new, n, Moves) /\ e \notin Moves
      /\ \A m : LastBefore(new, n + 1, Moves, m) =>
           IF e \in Moves THEN m = e ELSE LastBefore(new, n, Moves, m)
  <2>1. n \in Nat \ {0} /\ new[n] = e
    BY <1>2
  <2>2. NoneBefore(new, n + 1, Moves) => NoneBefore(new, n, Moves) /\ new[n] \notin Moves
    BY <2>1, BeforeNext
  <2>3. \A m : LastBefore(new, n + 1, Moves, m) =>
          IF new[n] \in Moves THEN m = new[n] ELSE LastBefore(new, n, Moves, m)
    BY <2>1, BeforeNext
  <2> QED
    BY <2>1, <2>2, <2>3
<1>5. ASSUME NEW p, e \notin Moves, At(q, n, p, cursor) PROVE At(new, n + 1, p, cursor)
  <2>1. At(new, n, p, cursor)
    BY <1>2, <1>3, <1>5
  <2> QED
    BY <1>4, <1>5, <2>1 DEF At
<1>6. e \in Moves => At(new, n + 1, e.position, cursor)
  BY <1>4 DEF At
<1>7. ASSUME InPlace(q, cursor), e.type \in ButtonTypes => At(q, n, e.at, cursor)
      PROVE  InPlace(new, cursor)
  <2>1. ASSUME NEW k \in 1..n, new[k].type \in ButtonTypes
        PROVE  At(new, k, new[k].at, cursor)
    <3>1. At(q, k, new[k].at, cursor)
      <4>1. CASE k = n
        BY <1>2, <1>7, <2>1, <4>1
      <4>2. CASE k # n
        <5>1. k \in DOMAIN q /\ new[k] = q[k]
          BY <1>2, <4>2
        <5> QED
          BY <1>7, <2>1, <5>1 DEF InPlace
      <4> QED
        BY <4>1, <4>2
    <3> QED
      BY <1>3, <3>1
  <2> QED
    BY <1>2, <2>1 DEF InPlace
<1> QED
  BY <1>1, <1>2, <1>3, <1>5, <1>6, <1>7

\* The first message is taken: replayed if it is a move, or lost while the cursor is
\* where it was at the start.
LEMMA AtTail ==
  ASSUME NEW q \in Seq(Msgs), q # << >>, NEW new, new = Tail(q), NEW cursor, NEW cursor1,
         IF q[1] \in Moves THEN cursor1 \in {q[1].position, NoPosition} ELSE cursor1 = cursor
  PROVE  /\ \A p : At(q, Len(q) + 1, p, cursor) => At(new, Len(new) + 1, p, cursor1)
         /\ InPlace(q, cursor) => InPlace(new, cursor1)
<1>1. /\ Len(q) \in Nat \ {0} /\ Len(new) + 1 = Len(q) /\ DOMAIN new = 1..Len(q) - 1
      /\ DOMAIN q = 1..Len(q)
      /\ \A k \in 1..Len(q) - 1 : k + 1 \in DOMAIN q /\ new[k] = q[k + 1]
  BY TailElements, QueueElements
<1>2. ASSUME NEW n \in 1..Len(q), NEW p, At(q, n + 1, p, cursor)
      PROVE  At(new, n, p, cursor1)
  <2>1. n \in Nat \ {0} /\ \A k \in 1..n - 1 : new[k] = q[k + 1]
    BY <1>1
  <2>2. /\ \A m : LastBefore(new, n, Moves, m) => LastBefore(q, n + 1, Moves, m)
        /\ NoneBefore(new, n, Moves) =>
             IF q[1] \in Moves THEN LastBefore(q, n + 1, Moves, q[1])
                               ELSE NoneBefore(q, n + 1, Moves)
    BY <2>1, BeforeTail
  <2> QED
    BY <1>2, <2>2 DEF At
<1>3. ASSUME InPlace(q, cursor) PROVE InPlace(new, cursor1)
  <2>1. ASSUME NEW k \in 1..Len(q) - 1, new[k].type \in ButtonTypes
        PROVE  At(new, k, new[k].at, cursor1)
    <3>1. k \in 1..Len(q) /\ k + 1 \in DOMAIN q /\ new[k] = q[k + 1]
      BY <1>1
    <3>2. At(q, k + 1, new[k].at, cursor)
      BY <1>3, <2>1, <3>1 DEF InPlace
    <3> QED
      BY <1>2, <3>1, <3>2
  <2> QED
    BY <1>1, <2>1 DEF InPlace
<1> QED
  BY <1>1, <1>2, <1>3

\* What is cut off does not move what comes before it.
LEMMA AtCut ==
  ASSUME NEW q \in Seq(Msgs), NEW n \in 0..Len(q), NEW new, new = SubSeq(q, 1, n),
         NEW cursor, InPlace(q, cursor)
  PROVE  InPlace(new, cursor)
<1>1. PICK lost : lost = SubSeq(q, n + 1, Len(q))
  OBVIOUS
<1>2. /\ n \in Nat /\ n <= Len(q) /\ Len(q) \in Nat
      /\ new \in Seq(Msgs) /\ Len(new) = n /\ \A k \in 1..n : new[k] = q[k]
  BY <1>1, PrefixElements, QueueElements
<1>3. DOMAIN q = 1..Len(q) /\ DOMAIN new = 1..n
  BY <1>2, QueueElements
<1>4. ASSUME NEW k \in 1..n, new[k].type \in ButtonTypes
      PROVE  At(new, k, new[k].at, cursor)
  <2>1. k \in Nat /\ k \in DOMAIN q /\ new[k] = q[k] /\ \A j \in 1..k - 1 : new[j] = q[j]
    BY <1>2, <1>3
  <2>2. At(q, k, new[k].at, cursor)
    BY <1>4, <2>1 DEF InPlace
  <2>3. /\ NoneBefore(new, k, Moves) => NoneBefore(q, k, Moves)
        /\ \A m : LastBefore(new, k, Moves, m) => LastBefore(q, k, Moves, m)
    BY <2>1, BeforeSame
  <2> QED
    BY <2>2, <2>3 DEF At
<1> QED
  BY <1>3, <1>4 DEF InPlace

-----------------------------------------------------------------------------
(* The events of the window *)

Window == [running : BOOLEAN, posted : Seq({"Connected", "DataChannel"}),
           shown : BOOLEAN, channel : BOOLEAN, held : SUBSET (Buttons \cup Keys),
           position : Positions \cup {NoPosition}]

\* The queue nq and the window new after an event of the user fit the display.
Fits(nq, new, taken) ==
  /\ nq \in Seq(Msgs)
  /\ \A i \in Inputs \ taken : Tells(nq, i, i \in new.held, Code(i) \in agent.held)
  /\ \A k \in DOMAIN nq : nq[k].type = "MousePress" => nq[k].button \in Codes
  /\ InPlace(nq, agent.cursor)
  /\ At(nq, Len(nq) + 1, new.position, agent.cursor)

\* The sets of inputs.
LEMMA InputSets == Inputs \subseteq Buttons \cup Keys
BY DEF Inputs

\* An event of the user keeps the invariant when its messages are taken, refused, or
\* end the process.
LEMMA SendKeeps ==
  ASSUME IInv, NEW msgs, NEW input, NEW taken, NEW new, Send(msgs, input, taken, new),
         new \in Window, new.running = wnd.running, new.held \subseteq Inputs,
         input \subseteq Buttons \cup Keys, taken \subseteq Buttons \cup Keys,
         \A i \in Inputs \ (untold \cup input) : i \in new.held <=> i \in wnd.held,
         wnd.running => Fits(queue \o msgs, new, taken)
  PROVE  IInv'
<1>1. /\ wnd.running /\ events' = events + 1 /\ agent' = agent
      /\ events \in 0..MaxEvents /\ events < MaxEvents /\ refused \in 0..MaxRefused
      /\ wnd \in Window /\ TypeOK
  BY DEF Send, IInv, TypeOK, Window
<1>2. events' \in 0..MaxEvents
  BY <1>1, BoundsAssumption
<1>3. CASE wnd' = new /\ queue' = queue \o msgs /\ untold' = taken /\ refused' = refused
  <2>1. PICK nq : nq = queue \o msgs
    OBVIOUS
  <2>2. Fits(nq, new, taken) /\ queue' = nq
    BY <1>1, <1>3, <2>1
  <2>3. TypeOK'
    BY <1>1, <1>2, <1>3, <2>2 DEF TypeOK, Window, Fits, Msgs
  <2>4. Mirrors'
    BY <1>1, <1>3, <2>2 DEF IInv, Mirrors, Fits
  <2>5. Places'
    BY <1>1, <1>3, <2>2 DEF IInv, Places, Fits, ReplayedInPlace
  <2> QED
    BY <2>3, <2>4, <2>5 DEF IInv
<1>4. CASE /\ refused < MaxRefused /\ refused' = refused + 1
           /\ wnd' = [new EXCEPT !.position = wnd.position]
           /\ untold' = untold \cup input /\ queue' = queue
  <2>1. /\ wnd' \in Window /\ wnd'.running = wnd.running /\ wnd'.held = new.held
        /\ wnd'.position = wnd.position
    BY <1>1, <1>4 DEF Window
  <2>2. refused' \in 0..MaxRefused
    BY <1>1, <1>4, BoundsAssumption
  <2>3. TypeOK'
    BY <1>1, <1>2, <1>4, <2>1, <2>2 DEF TypeOK, Window
  <2>4. Mirrors'
    <3>1. ASSUME NEW i \in Inputs \ (untold \cup input)
          PROVE  Tells(queue, i, i \in new.held, Code(i) \in agent.held)
      BY DEF IInv, Mirrors, Tells
    <3> QED
      BY <1>1, <1>4, <2>1, <3>1 DEF IInv, Mirrors
  <2>5. Places'
    BY <1>1, <1>4, <2>1 DEF IInv, Places, ReplayedInPlace
  <2> QED
    BY <2>3, <2>4, <2>5 DEF IInv
<1>5. CASE /\ wnd' = [wnd EXCEPT !.running = FALSE]
           /\ queue' = queue /\ untold' = untold /\ refused' = refused
  <2>1. wnd' \in Window /\ ~wnd'.running /\ wnd'.held = wnd.held
    BY <1>1, <1>5 DEF Window
  <2>2. TypeOK'
    BY <1>1, <1>2, <1>5, <2>1 DEF TypeOK, Window
  <2>3. Mirrors'
    BY <1>1, <1>5, <2>1 DEF IInv, Mirrors
  <2>4. Places'
    BY <1>1, <1>5, <2>1 DEF IInv, Places, ReplayedInPlace
  <2> QED
    BY <2>2, <2>3, <2>4 DEF IInv
<1> QED
  BY <1>3, <1>4, <1>5 DEF Send

\* One message more.
LEMMA FitsOne ==
  ASSUME IInv, NEW q, NEW old, NEW before, Fits(q, old, before),
         NEW e \in Messages, NEW nq, nq = Append(q, e), NEW new, NEW taken,
         \A i \in Inputs \ taken :
           IF e \in Changes(i) THEN Presses(e) <=> i \in new.held
                               ELSE i \notin before /\ (i \in new.held <=> i \in old.held),
         e.type = "MousePress" => e.button \in Codes,
         e.type \in ButtonTypes => e.at = old.position,
         IF e.type = "MouseMove" THEN new.position = e.position
                                 ELSE new.position = old.position
  PROVE  Fits(nq, new, taken)
<1>1. q \in Seq(Msgs) /\ e \in Msgs
  BY DEF Fits, Msgs
<1>2. /\ nq \in Seq(Msgs)
      /\ \A k \in DOMAIN nq : (k \in DOMAIN q /\ nq[k] = q[k]) \/ nq[k] = e
  BY <1>1, AppendElements
<1>3. ASSUME NEW i \in Inputs \ taken
      PROVE  Tells(nq, i, i \in new.held, Code(i) \in agent.held)
  <2>1. CASE e \in Changes(i)
    BY <1>1, <2>1, TellsAppend
  <2>2. CASE e \notin Changes(i)
    <3>1. Tells(q, i, i \in new.held, Code(i) \in agent.held)
      BY <2>2 DEF Fits, Tells
    <3> QED
      BY <1>1, <2>2, <3>1, TellsAppend
  <2> QED
    BY <2>1, <2>2
<1>4. \A k \in DOMAIN nq : nq[k].type = "MousePress" => nq[k].button \in Codes
  BY <1>2 DEF Fits
<1>5. InPlace(nq, agent.cursor)
  BY <1>1, AtAppend DEF Fits
<1>6. At(nq, Len(nq) + 1, new.position, agent.cursor)
  <2>1. CASE e.type = "MouseMove"
    <3>1. e \in Moves
      BY <2>1 DEF Moves
    <3> QED
      BY <1>1, <2>1, <3>1, AtAppend
  <2>2. CASE e.type # "MouseMove"
    <3>1. e \notin Moves
      BY <2>2 DEF Moves
    <3> QED
      BY <1>1, <2>2, <3>1, AtAppend DEF Fits
  <2> QED
    BY <2>1, <2>2
<1> QED
  BY <1>2, <1>3, <1>4, <1>5, <1>6 DEF Fits

\* What is queued fits the window that is there.
LEMMA FitsNow == ASSUME IInv, wnd.running PROVE Fits(queue, wnd, untold)
BY DEF IInv, TypeOK, Mirrors, Places, Fits, Msgs

\* An event that sends one message.
LEMMA SendOne ==
  ASSUME IInv, NEW e \in Messages, NEW input, NEW taken, NEW new,
         Send(<<e>>, input, taken, new),
         new \in Window, new.running = wnd.running, new.held \subseteq Inputs,
         input \subseteq Buttons \cup Keys, taken \subseteq Buttons \cup Keys,
         \A i \in Inputs \ input : i \in new.held <=> i \in wnd.held,
         untold \ input \subseteq taken,
         \A i \in Inputs \ taken : i \in input <=> e \in Changes(i),
         \A i \in input \ taken : Presses(e) <=> i \in new.held,
         e.type = "MousePress" => e.button \in Codes,
         e.type \in ButtonTypes => e.at = wnd.position,
         IF e.type = "MouseMove" THEN new.position = e.position
                                 ELSE new.position = wnd.position
  PROVE  IInv'
<1>1. ASSUME wnd.running PROVE Fits(queue \o <<e>>, new, taken)
  <2>1. queue \in Seq(Msgs) /\ e \in Msgs
    BY DEF IInv, TypeOK, Msgs
  <2>2. PICK nq : nq = Append(queue, e)
    OBVIOUS
  <2>3. queue \o <<e>> = nq
    BY <2>1, <2>2
  <2>4. \A i \in Inputs \ taken :
          IF e \in Changes(i) THEN Presses(e) <=> i \in new.held
                              ELSE i \notin untold /\ (i \in new.held <=> i \in wnd.held)
    OBVIOUS
  <2>5. Fits(queue, wnd, untold)
    BY <1>1, FitsNow
  <2>6. Fits(nq, new, taken)
    BY <2>2, <2>4, <2>5, FitsOne
  <2> QED
    BY <2>3, <2>6
<1> QED
  BY <1>1, SendKeeps

\* What the window and the counted sets are.
LEMMA WindowFacts ==
  ASSUME IInv
  PROVE  /\ wnd \in Window /\ wnd.held \subseteq Inputs
         /\ untold \subseteq Buttons \cup Keys
         /\ wnd.position \in Positions \cup {NoPosition}
BY DEF IInv, TypeOK, Mirrors, Window

\* A button message is one of the button's input.
LEMMA ButtonMessages ==
  ASSUME IInv, NEW type \in ButtonTypes, NEW b \in Inputs \ Keys,
         NEW e, e = ButtonMsg(type, b)
  PROVE  /\ e \in Messages /\ e.type = type /\ e.at = wnd.position
         /\ e.button \in Codes
         /\ \A i \in Inputs : e \in Changes(i) <=> i = b
<1>1. QtButtonToSysButton(b) \in SysButtons /\ Code(b) = QtButtonToSysButton(b)
  BY CodesDiffer
<1>2. /\ e \in Messages /\ e.type = type /\ e.at = wnd.position
      /\ e.button = QtButtonToSysButton(b)
  BY <1>1, WindowFacts DEF Messages, ButtonMsg
<1>3. ASSUME NEW i \in Inputs PROVE e \in Changes(i) <=> i = b
  <2>1. e \in Changes(i) <=> Code(i) = e.button
    BY <1>2, ChangesAre DEF ButtonTypes, KeyTypes
  <2> QED
    BY <1>1, <1>2, <2>1, CodesDiffer
<1> QED
  BY <1>1, <1>2, <1>3 DEF Codes

\* A key message is one of the key.
LEMMA KeyMessages ==
  ASSUME NEW type \in KeyTypes, NEW k \in Keys, NEW level \in {"plain", "shifted"},
         NEW e, e = KeyMsg(type, k, level)
  PROVE  /\ e \in Messages /\ e.type = type
         /\ \A i \in Inputs : e \in Changes(i) <=> i = k
<1>1. /\ e \in Messages /\ e.type = type /\ e.key = <<k, level>>
  BY DEF Messages, KeyMsg, Keysyms
<1>2. XKeysymToKeycode(e.key) = k
  BY <1>1 DEF XKeysymToKeycode
<1>3. ASSUME NEW i \in Inputs PROVE e \in Changes(i) <=> i = k
  <2>1. e \in Changes(i) <=> Code(i) = k
    BY <1>1, <1>2, ChangesAre DEF ButtonTypes, KeyTypes
  <2> QED
    BY <2>1, CodesDiffer
<1> QED
  BY <1>1, <1>3

\* A button or a key that goes down or up, or a double click.
LEMMA InputKeeps ==
  ASSUME IInv, NEW b \in Inputs, NEW e \in Messages,
         \A i \in Inputs : e \in Changes(i) <=> i = b,
         e.type \in ButtonTypes => e.at = wnd.position /\ e.button \in Codes,
         e.type # "MouseMove",
         NEW new, new \in {[wnd EXCEPT !.held = @ \cup {b}], [wnd EXCEPT !.held = @ \ {b}]},
         NEW taken, \/ taken = untold \cup {b}
                    \/ taken = untold \ {b} /\ (Presses(e) <=> b \in new.held),
         Send(<<e>>, {b}, taken, new)
  PROVE  IInv'
<1>1. /\ new \in Window /\ new.running = wnd.running /\ new.position = wnd.position
      /\ new.held \subseteq Inputs
      /\ \A i \in Inputs \ {b} : i \in new.held <=> i \in wnd.held
  <2>1. {b} \subseteq Buttons \cup Keys
    BY InputSets
  <2>2. CASE new = [wnd EXCEPT !.held = @ \cup {b}]
    BY <2>1, <2>2, WindowFacts DEF Window
  <2>3. CASE new = [wnd EXCEPT !.held = @ \ {b}]
    BY <2>3, WindowFacts DEF Window
  <2> QED
    BY <2>2, <2>3
<1>2. /\ {b} \subseteq Buttons \cup Keys /\ taken \subseteq Buttons \cup Keys
      /\ untold \ {b} \subseteq taken
  BY InputSets, WindowFacts
<1>3. \A i \in Inputs \ taken : i \in {b} <=> e \in Changes(i)
  OBVIOUS
<1>4. \A i \in {b} \ taken : Presses(e) <=> i \in new.held
  OBVIOUS
<1>5. e.type = "MousePress" => e.button \in Codes
  BY DEF ButtonTypes
<1> QED
  BY <1>1, <1>2, <1>3, <1>4, <1>5, SendOne

\* OnMousePressed, OnMouseReleased and OnMouseDoubleClicked.
LEMMA ButtonEventKeeps ==
  ASSUME IInv, NEW b \in Buttons,
         OnMousePressed(b) \/ OnMouseReleased(b) \/ OnMouseDoubleClicked(b)
  PROVE  IInv'
<1>1. b \in Inputs \ Keys
  BY WindowFacts, KeysAssumption DEF OnMousePressed, OnMouseReleased, OnMouseDoubleClicked,
                                     Inputs
<1>2. wnd \in Window
  BY WindowFacts
<1>3. CASE OnMousePressed(b)
  <2>1. PICK e : e = ButtonMsg("MousePress", b)
    OBVIOUS
  <2>2. PICK new : new = [wnd EXCEPT !.held = @ \cup {b}]
    OBVIOUS
  <2>3. PICK taken : taken = untold \ {b}
    OBVIOUS
  <2>4. Send(<<e>>, {b}, taken, new)
    BY <1>3, <2>1, <2>2, <2>3 DEF OnMousePressed
  <2>5. /\ e \in Messages /\ e.type = "MousePress" /\ e.at = wnd.position
        /\ e.button \in Codes
        /\ \A i \in Inputs : e \in Changes(i) <=> i = b
    BY <1>1, <2>1, ButtonMessages DEF ButtonTypes
  <2>6. b \in new.held /\ Presses(e)
    BY <1>2, <2>2, <2>5 DEF Window, Presses
  <2> QED
    BY <1>1, <2>2, <2>3, <2>4, <2>5, <2>6, InputKeeps
<1>4. CASE OnMouseReleased(b)
  <2>1. PICK e : e = ButtonMsg("MouseRelease", b)
    OBVIOUS
  <2>2. PICK new : new = [wnd EXCEPT !.held = @ \ {b}]
    OBVIOUS
  <2>3. PICK taken : taken = untold \ {b}
    OBVIOUS
  <2>4. Send(<<e>>, {b}, taken, new)
    BY <1>4, <2>1, <2>2, <2>3 DEF OnMouseReleased
  <2>5. /\ e \in Messages /\ e.type = "MouseRelease" /\ e.at = wnd.position
        /\ e.button \in Codes
        /\ \A i \in Inputs : e \in Changes(i) <=> i = b
    BY <1>1, <2>1, ButtonMessages DEF ButtonTypes
  <2>6. b \notin new.held /\ ~Presses(e)
    BY <1>2, <2>2, <2>5 DEF Window, Presses
  <2> QED
    BY <1>1, <2>2, <2>3, <2>4, <2>5, <2>6, InputKeeps
<1>5. CASE OnMouseDoubleClicked(b)
  <2>1. PICK e : e = ButtonMsg("MouseDoubleClick", b)
    OBVIOUS
  <2>2. PICK new : new = [wnd EXCEPT !.held = @ \cup {b}]
    OBVIOUS
  <2>3. PICK taken : taken = untold \cup {b}
    OBVIOUS
  <2>4. Send(<<e>>, {b}, taken, new)
    BY <1>5, <2>1, <2>2, <2>3 DEF OnMouseDoubleClicked
  <2>5. /\ e \in Messages /\ e.type = "MouseDoubleClick" /\ e.at = wnd.position
        /\ e.button \in Codes
        /\ \A i \in Inputs : e \in Changes(i) <=> i = b
    BY <1>1, <2>1, ButtonMessages DEF ButtonTypes
  <2> QED
    BY <1>1, <2>2, <2>3, <2>4, <2>5, InputKeeps
<1> QED
  BY <1>3, <1>4, <1>5

\* OnKeyPressed and OnKeyReleased.
LEMMA KeyEventKeeps ==
  ASSUME IInv, NEW k \in Keys, NEW level \in {"plain", "shifted"},
         OnKeyPressed(k, level) \/ OnKeyReleased(k, level)
  PROVE  IInv'
<1>1. k \in Inputs /\ wnd \in Window
  BY CodesDiffer, WindowFacts
<1>2. CASE OnKeyPressed(k, level)
  <2>1. PICK e : e = KeyMsg("KeyboardPress", k, level)
    OBVIOUS
  <2>2. PICK new : new = [wnd EXCEPT !.held = @ \cup {k}]
    OBVIOUS
  <2>3. PICK taken : taken = untold \ {k}
    OBVIOUS
  <2>4. Send(<<e>>, {k}, taken, new)
    BY <1>2, <2>1, <2>2, <2>3 DEF OnKeyPressed
  <2>5. /\ e \in Messages /\ e.type = "KeyboardPress"
        /\ \A i \in Inputs : e \in Changes(i) <=> i = k
    BY <2>1, KeyMessages DEF KeyTypes
  <2>6. k \in new.held /\ Presses(e) /\ e.type \notin ButtonTypes
    BY <1>1, <2>2, <2>5 DEF Window, Presses, ButtonTypes
  <2> QED
    BY <1>1, <2>2, <2>3, <2>4, <2>5, <2>6, InputKeeps
<1>3. CASE OnKeyReleased(k, level)
  <2>1. PICK e : e = KeyMsg("KeyboardRelease", k, level)
    OBVIOUS
  <2>2. PICK new : new = [wnd EXCEPT !.held = @ \ {k}]
    OBVIOUS
  <2>3. PICK taken : taken = untold \ {k}
    OBVIOUS
  <2>4. Send(<<e>>, {k}, taken, new)
    BY <1>3, <2>1, <2>2, <2>3 DEF OnKeyReleased
  <2>5. /\ e \in Messages /\ e.type = "KeyboardRelease"
        /\ \A i \in Inputs : e \in Changes(i) <=> i = k
    BY <2>1, KeyMessages DEF KeyTypes
  <2>6. k \notin new.held /\ ~Presses(e) /\ e.type \notin ButtonTypes
    BY <1>1, <2>2, <2>5 DEF Window, Presses, ButtonTypes
  <2> QED
    BY <1>1, <2>2, <2>3, <2>4, <2>5, <2>6, InputKeeps
<1> QED
  BY <1>2, <1>3

\* OnKeyRepeated: a release and a press, and the key is held before and after.
LEMMA KeyRepeatKeeps ==
  ASSUME IInv, NEW k \in Keys, NEW level \in {"plain", "shifted"}, OnKeyRepeated(k, level)
  PROVE  IInv'
<1>1. PICK e : e = KeyMsg("KeyboardRelease", k, level)
  OBVIOUS
<1>2. PICK f : f = KeyMsg("KeyboardPress", k, level)
  OBVIOUS
<1>3. /\ e \in Messages /\ e.type = "KeyboardRelease"
      /\ \A i \in Inputs : e \in Changes(i) <=> i = k
  BY <1>1, KeyMessages DEF KeyTypes
<1>4. /\ f \in Messages /\ f.type = "KeyboardPress" /\ Presses(f)
      /\ \A i \in Inputs : f \in Changes(i) <=> i = k
  BY <1>2, KeyMessages DEF KeyTypes, Presses
<1>5. PICK taken : taken = untold \ {k}
  OBVIOUS
<1>6. PICK half : half = untold \cup {k}
  OBVIOUS
<1>7. Send(<<e, f>>, {k}, taken, wnd) /\ k \in wnd.held
  BY <1>1, <1>2, <1>5 DEF OnKeyRepeated
<1>8. ASSUME wnd.running PROVE Fits(queue \o <<e, f>>, wnd, taken)
  <2>1. Fits(queue, wnd, untold)
    BY <1>8, FitsNow
  <2>2. queue \in Seq(Msgs) /\ e \in Msgs /\ f \in Msgs
    BY <1>3, <1>4 DEF IInv, TypeOK, Msgs
  <2>3. PICK q1 : q1 = Append(queue, e)
    OBVIOUS
  <2>4. PICK q2 : q2 = Append(q1, f)
    OBVIOUS
  <2>5. queue \o <<e, f>> = q2
    BY <2>2, <2>3, <2>4
  <2>6. e.type \notin ButtonTypes /\ f.type \notin ButtonTypes
    BY <1>3, <1>4 DEF ButtonTypes
  <2>7. \A i \in Inputs \ half :
          IF e \in Changes(i) THEN Presses(e) <=> i \in wnd.held
                              ELSE i \notin untold /\ (i \in wnd.held <=> i \in wnd.held)
    BY <1>3, <1>6
  <2>8. PICK new : new = wnd
    OBVIOUS
  <2>9. Fits(q1, new, half)
    BY <1>3, <2>1, <2>3, <2>6, <2>7, <2>8, FitsOne
  <2>10. \A i \in Inputs \ taken :
           IF f \in Changes(i) THEN Presses(f) <=> i \in new.held
                               ELSE i \notin half /\ (i \in new.held <=> i \in new.held)
    BY <1>4, <1>5, <1>6, <1>7, <2>8
  <2>11. Fits(q2, new, taken)
    BY <1>4, <2>4, <2>6, <2>9, <2>10, FitsOne
  <2> QED
    BY <2>5, <2>8, <2>11
<1>9. /\ {k} \subseteq Buttons \cup Keys /\ taken \subseteq Buttons \cup Keys
      /\ wnd \in Window /\ wnd.held \subseteq Inputs
  BY <1>5, WindowFacts
<1> QED
  BY <1>7, <1>8, <1>9, SendKeeps

\* OnMouseMoved and OnMouseWheel: no input changes.
LEMMA PointerKeeps ==
  ASSUME IInv, \/ \E position \in Positions : OnMouseMoved(position)
               \/ \E button \in WheelButtons : OnMouseWheel(button)
  PROVE  IInv'
<1>1. wnd \in Window /\ wnd.held \subseteq Inputs /\ untold \subseteq Buttons \cup Keys
  BY WindowFacts
<1>2. PICK none : none = {}
  OBVIOUS
<1>3. PICK taken : taken = untold
  OBVIOUS
<1>4. ASSUME NEW position \in Positions, OnMouseMoved(position) PROVE IInv'
  <2>1. PICK e : e = [type |-> "MouseMove", position |-> position]
    OBVIOUS
  <2>2. PICK new : new = [wnd EXCEPT !.position = position]
    OBVIOUS
  <2>3. Send(<<e>>, none, taken, new)
    BY <1>2, <1>3, <1>4, <2>1, <2>2 DEF OnMouseMoved
  <2>4. e \in Messages /\ e.type = "MouseMove" /\ e.position = position
    BY <2>1 DEF Messages
  <2>5. e.type \notin ButtonTypes /\ e.type \notin KeyTypes /\ e.type # "MousePress"
    BY <2>4 DEF ButtonTypes, KeyTypes
  <2>6. \A i \in Inputs : e \notin Changes(i)
    BY <2>4, <2>5, ChangesAre
  <2>7. /\ new \in Window /\ new.running = wnd.running /\ new.held = wnd.held
        /\ new.position = position
    BY <1>1, <2>2 DEF Window
  <2> QED
    BY <1>1, <1>2, <1>3, <2>3, <2>4, <2>5, <2>6, <2>7, SendOne
<1>5. ASSUME NEW button \in WheelButtons, OnMouseWheel(button) PROVE IInv'
  <2>1. PICK e : e = [type |-> "MouseDoubleClick", button |-> button, at |-> wnd.position]
    OBVIOUS
  <2>2. PICK new : new = wnd
    OBVIOUS
  <2>3. Send(<<e>>, none, taken, new)
    BY <1>2, <1>3, <1>5, <2>1, <2>2 DEF OnMouseWheel
  <2>4. /\ e \in Messages /\ e.type = "MouseDoubleClick" /\ e.at = wnd.position
        /\ e.button = button
    BY <2>1, WindowFacts DEF Messages, ButtonTypes, WheelButtons, SysButtons
  <2>5. e.type \notin KeyTypes /\ e.type # "MousePress" /\ e.type # "MouseMove"
    BY <2>4 DEF KeyTypes
  <2>6. \A i \in Inputs : Code(i) # button
    <3>1. button \in SysButtons
      BY <1>5 DEF WheelButtons, SysButtons
    <3> QED
      BY <3>1, CodesDiffer
  <2>7. \A i \in Inputs : e \notin Changes(i)
    BY <2>4, <2>5, <2>6, ChangesAre
  <2> QED
    BY <1>1, <1>2, <1>3, <2>2, <2>3, <2>4, <2>5, <2>7, SendOne
<1> QED
  BY <1>4, <1>5

\* A key goes up while another window has the focus.
LEMMA ReleasedElsewhereKeeps ==
  ASSUME IInv, NEW k \in Keys, ReleasedElsewhere(k)
  PROVE  IInv'
<1>1. /\ wnd \in Window /\ wnd' = [wnd EXCEPT !.held = @ \ {k}]
      /\ untold' = untold \cup {k}
      /\ queue' = queue /\ agent' = agent /\ events' = events /\ refused' = refused
  BY WindowFacts DEF ReleasedElsewhere
<1>2. /\ wnd' \in Window /\ wnd'.running = wnd.running /\ wnd'.position = wnd.position
      /\ wnd'.held = wnd.held \ {k}
  BY <1>1 DEF Window
<1>3. TypeOK'
  BY <1>1, <1>2 DEF IInv, TypeOK, Window
<1>4. Mirrors'
  <2>1. ASSUME NEW i \in Inputs \ untold'
        PROVE  Tells(queue, i, i \in wnd'.held, Code(i) \in agent.held)
    BY <1>1, <1>2 DEF IInv, Mirrors, Tells
  <2> QED
    BY <1>1, <1>2, <2>1 DEF IInv, Mirrors
<1>5. Places'
  BY <1>1, <1>2 DEF IInv, Places, ReplayedInPlace
<1> QED
  BY <1>3, <1>4, <1>5 DEF IInv

\* The controller learns of the connection or of the channel.
LEMMA OnPostedKeeps == ASSUME IInv, OnPosted PROVE IInv'
<1>1. PICK new : new = [wnd EXCEPT !.posted = Tail(@),
                                   !.shown = @ \/ Head(wnd.posted) = "Connected",
                                   !.channel = @ \/ Head(wnd.posted) = "DataChannel"]
  OBVIOUS
<1>2. /\ wnd \in Window /\ wnd.posted # << >> /\ wnd' = new
      /\ untold' = untold /\ queue' = queue /\ agent' = agent
      /\ events' = events /\ refused' = refused
  BY <1>1, WindowFacts DEF OnPosted
<1>3. PICK posted : posted = Tail(wnd.posted)
  OBVIOUS
<1>4. posted \in Seq({"Connected", "DataChannel"})
  BY <1>2, <1>3 DEF Window
<1>5. /\ new \in Window /\ new.running = wnd.running /\ new.position = wnd.position
      /\ new.held = wnd.held
  BY <1>1, <1>2, <1>3, <1>4 DEF Window
<1>6. TypeOK'
  BY <1>2, <1>5 DEF IInv, TypeOK, Window
<1>7. Mirrors'
  BY <1>2, <1>5 DEF IInv, Mirrors
<1>8. Places'
  BY <1>2, <1>5 DEF IInv, Places, ReplayedInPlace
<1> QED
  BY <1>6, <1>7, <1>8 DEF IInv

\* A message or an event changes an input iff it is about it.
LEMMA AboutAre == ASSUME NEW m \in Msgs, NEW i \in Inputs PROVE m \in Changes(i) <=> i \in About(m)
<1>1. CASE m \in Messages
  BY <1>1, ChangesAre
<1>2. CASE m \notin Messages
  <2>1. m.type \notin ButtonTypes /\ m.type \notin KeyTypes
    BY <1>2, EventFields DEF Msgs, ButtonTypes, KeyTypes
  <2> QED
    BY <1>2, <2>1 DEF Changes, About
<1> QED
  BY <1>1, <1>2

\* The controller ends, and the last part of what it sent is lost.
LEMMA CloseKeeps == ASSUME IInv, Close PROVE IInv'
<1>1. /\ wnd \in Window /\ wnd' = [wnd EXCEPT !.running = FALSE]
      /\ agent' = agent /\ events' = events /\ refused' = refused
      /\ queue \in Seq(Msgs)
  BY WindowFacts DEF Close, IInv, TypeOK, Msgs
<1>2. /\ wnd' \in Window /\ ~wnd'.running /\ wnd'.held = wnd.held
  BY <1>1 DEF Window
<1>3. PICK n \in 0..Len(queue) :
        /\ queue' = SubSeq(queue, 1, n)
        /\ untold' = untold \cup UNION {About(SubSeq(queue, n + 1, Len(queue))[k]) :
                                          k \in DOMAIN SubSeq(queue, n + 1, Len(queue))}
  BY DEF Close
<1>4. PICK lost : lost = SubSeq(queue, n + 1, Len(queue))
  OBVIOUS
<1>5. PICK new : new = SubSeq(queue, 1, n)
  OBVIOUS
<1>6. /\ new \in Seq(Msgs) /\ queue' = new /\ n \in Nat
      /\ Len(queue) \in Nat /\ DOMAIN queue = 1..Len(queue) /\ DOMAIN new = 1..n
      /\ \A k \in 1..n : new[k] = queue[k] /\ k \in DOMAIN queue
      /\ DOMAIN lost = 1..Len(queue) - n
      /\ \A k \in DOMAIN lost : lost[k] = queue[n + k]
  <2>1. /\ new \in Seq(Msgs) /\ Len(new) = n
        /\ \A k \in 1..n : new[k] = queue[k]
        /\ DOMAIN lost = 1..Len(queue) - n
        /\ \A k \in DOMAIN lost : lost[k] = queue[n + k]
    BY <1>1, <1>4, <1>5, PrefixElements
  <2>2. Len(queue) \in Nat /\ DOMAIN queue = 1..Len(queue) /\ DOMAIN new = 1..n
    BY <1>1, <2>1, QueueElements
  <2> QED
    BY <1>3, <1>5, <2>1, <2>2
<1>7. /\ untold \subseteq untold'
      /\ \A k \in DOMAIN lost : About(lost[k]) \subseteq untold'
      /\ untold' \subseteq Buttons \cup Keys
  <2>1. untold' = untold \cup UNION {About(lost[k]) : k \in DOMAIN lost}
    BY <1>3, <1>4
  <2>2. \A m : About(m) \subseteq Buttons \cup Keys
    BY InputSets DEF About
  <2> QED
    BY <2>1, <2>2, WindowFacts
<1>8. TypeOK'
  BY <1>1, <1>2, <1>6, <1>7 DEF IInv, TypeOK, Window, Msgs
<1>9. Mirrors'
  <2>1. ASSUME NEW i \in Inputs \ untold'
        PROVE  Tells(new, i, i \in wnd.held, Code(i) \in agent.held)
    <3>1. Tells(queue, i, i \in wnd.held, Code(i) \in agent.held)
      BY <1>7 DEF IInv, Mirrors
    <3>2. ASSUME NEW k \in n + 1..Len(queue) PROVE queue[k] \notin Changes(i)
      <4>1. k - n \in DOMAIN lost /\ lost[k - n] = queue[k] /\ k \in DOMAIN queue
        BY <1>6
      <4>2. i \notin About(queue[k])
        BY <1>7, <4>1
      <4>3. queue[k] \in Msgs
        BY <1>1, <4>1, QueueElements
      <4> QED
        BY <4>2, <4>3, AboutAre
    <3>3. PICK up : up = (i \in wnd.held)
      OBVIOUS
    <3>4. PICK down : down = (Code(i) \in agent.held)
      OBVIOUS
    <3>5. Tells(new, i, up, down)
      BY <1>1, <1>5, <3>1, <3>2, <3>3, <3>4, TellsCut
    <3> QED
      BY <3>3, <3>4, <3>5
  <2>2. \A k \in DOMAIN new : new[k].type = "MousePress" => new[k].button \in Codes
    BY <1>6 DEF IInv, Mirrors
  <2> QED
    BY <1>1, <1>2, <1>6, <2>1, <2>2 DEF IInv, Mirrors
<1>10. Places'
  <2>1. InPlace(new, agent.cursor)
    BY <1>1, <1>5, AtCut DEF IInv, Places
  <2> QED
    BY <1>1, <1>2, <1>6, <2>1 DEF IInv, Places, ReplayedInPlace
<1> QED
  BY <1>8, <1>9, <1>10 DEF IInv

-----------------------------------------------------------------------------
(* The agent *)

\* What the agent is.
Display == [running : BOOLEAN, told : BOOLEAN, lost : BOOLEAN, slots : BOOLEAN,
            held : SUBSET Held, cursor : Positions \cup {NoPosition},
            pressed : [cursor : Positions \cup {NoPosition},
                       at : Positions \cup {NoPosition}]]

\* The library posts an event, which is about no input and no place.
LEMMA PostKeeps == ASSUME IInv, PostConnected \/ PostDisconnected PROVE IInv'
<1>1. /\ wnd' = wnd /\ untold' = untold /\ events' = events /\ refused' = refused
      /\ queue \in Seq(Msgs) /\ agent \in Display
  BY DEF PostConnected, PostDisconnected, IInv, TypeOK, Msgs, Display
<1>2. PICK e \in {Connected, Disconnected} : queue' = Append(queue, e)
  BY DEF PostConnected, PostDisconnected
<1>3. /\ agent' \in Display /\ agent'.held = agent.held /\ agent'.cursor = agent.cursor
      /\ agent'.slots = agent.slots /\ agent'.pressed = agent.pressed
  BY <1>1 DEF PostConnected, PostDisconnected, Display
<1>4. PICK new : new = Append(queue, e)
  OBVIOUS
<1>5. e \in Msgs /\ e \notin Messages
  BY EventFields DEF Msgs
<1>6. /\ e.type # "MousePress" /\ e.type \notin ButtonTypes /\ e \notin Moves
      /\ \A i : e \notin Changes(i)
  BY <1>5, EventFields DEF ButtonTypes, Moves, Changes
<1>7. /\ new \in Seq(Msgs) /\ queue' = new
      /\ \A k \in DOMAIN new : (k \in DOMAIN queue /\ new[k] = queue[k]) \/ new[k] = e
  BY <1>1, <1>2, <1>4, <1>5, AppendElements
<1>8. TypeOK'
  BY <1>1, <1>3, <1>7 DEF IInv, TypeOK, Display, Msgs
<1>9. Mirrors'
  <2>1. ASSUME NEW i \in Inputs \ untold
        PROVE  Tells(new, i, i \in wnd.held, Code(i) \in agent.held)
    <3>1. Tells(queue, i, i \in wnd.held, Code(i) \in agent.held)
      BY DEF IInv, Mirrors
    <3> QED
      BY <1>1, <1>4, <1>5, <1>6, <3>1, TellsAppend
  <2>2. \A k \in DOMAIN new : new[k].type = "MousePress" => new[k].button \in Codes
    BY <1>6, <1>7 DEF IInv, Mirrors
  <2> QED
    BY <1>1, <1>3, <1>7, <2>1, <2>2 DEF IInv, Mirrors
<1>10. Places'
  <2>1. InPlace(new, agent.cursor)
    BY <1>1, <1>4, <1>5, <1>6, AtAppend DEF IInv, Places
  <2>2. wnd.running => At(new, Len(new) + 1, wnd.position, agent.cursor)
    BY <1>1, <1>4, <1>5, <1>6, AtAppend DEF IInv, Places
  <2> QED
    BY <1>1, <1>3, <1>7, <2>1, <2>2 DEF IInv, Places, ReplayedInPlace
<1> QED
  BY <1>8, <1>9, <1>10 DEF IInv

\* A move puts the cursor.
LEMMA ReplayMove ==
  ASSUME NEW a \in Display, NEW m \in Messages, m.type = "MouseMove",
         NEW new, new = Replay(a, m)
  PROVE  /\ new \in Display /\ new.slots = a.slots /\ new.cursor = m.position
         /\ new.pressed = a.pressed /\ new.held = a.held
<1>1. new = [a EXCEPT !.cursor = m.position] /\ m.position \in Positions
  BY MessageFields DEF Replay
<1> QED
  BY <1>1 DEF Display

\* A button goes down, up or is clicked where the cursor is.
LEMMA ReplayButton ==
  ASSUME NEW a \in Display, NEW m \in Messages, m.type \in ButtonTypes,
         NEW new, new = Replay(a, m)
  PROVE  /\ new \in Display /\ new.slots = a.slots /\ new.cursor = a.cursor
         /\ new.pressed.cursor = a.cursor /\ new.pressed.at = m.at
         /\ new.held = IF Presses(m) THEN a.held \cup {m.button} ELSE a.held \ {m.button}
<1>1. m.button \in Held /\ m.at \in Positions \cup {NoPosition}
  BY MessageFields DEF Held
<1>2. PICK held : held = IF Presses(m) THEN a.held \cup {m.button} ELSE a.held \ {m.button}
  OBVIOUS
<1>3. PICK pressed : pressed = [cursor |-> a.cursor, at |-> m.at]
  OBVIOUS
<1>4. PICK b : b = [a EXCEPT !.pressed = pressed]
  OBVIOUS
<1>5. /\ b \in Display /\ b.held = a.held /\ b.slots = a.slots
      /\ b.cursor = a.cursor /\ b.pressed = pressed
  BY <1>1, <1>3, <1>4 DEF Display
<1>6. new = [b EXCEPT !.held = held]
  BY <1>2, <1>3, <1>4, <1>5
     DEF Replay, TriggerPress, TriggerRelease, TriggerClick, Pressed, Presses, ButtonTypes
<1>7. held \in SUBSET Held
  BY <1>1, <1>2 DEF Display
<1>8. new \in Display /\ new.held = held /\ new.slots = b.slots
      /\ new.cursor = b.cursor /\ new.pressed = b.pressed
  BY <1>5, <1>6, <1>7 DEF Display
<1> QED
  BY <1>2, <1>3, <1>5, <1>8

\* A key goes down or up.
LEMMA ReplayKey ==
  ASSUME NEW a \in Display, NEW m \in Messages, m.type \in KeyTypes,
         NEW new, new = Replay(a, m)
  PROVE  /\ new \in Display /\ new.slots = a.slots /\ new.cursor = a.cursor
         /\ new.pressed = a.pressed
         /\ XKeysymToKeycode(m.key) \in Keys
         /\ new.held = IF Presses(m) THEN a.held \cup {XKeysymToKeycode(m.key)}
                                     ELSE a.held \ {XKeysymToKeycode(m.key)}
<1>1. PICK key : key = XKeysymToKeycode(m.key)
  OBVIOUS
<1>2. key \in Keys /\ key \in Held
  BY <1>1, MessageFields DEF Held
<1>3. PICK held : held = IF Presses(m) THEN a.held \cup {key} ELSE a.held \ {key}
  OBVIOUS
<1>4. new = [a EXCEPT !.held = held]
  BY <1>1, <1>3 DEF Replay, TriggerPress, TriggerRelease, Presses, KeyTypes
<1>5. held \in SUBSET Held
  BY <1>2, <1>3 DEF Display
<1>6. new \in Display /\ new.held = held /\ new.slots = a.slots /\ new.cursor = a.cursor
      /\ new.pressed = a.pressed
  BY <1>4, <1>5 DEF Display
<1> QED
  BY <1>1, <1>2, <1>3, <1>6

\* A message is of one kind.
LEMMA MessageKinds ==
  ASSUME NEW m \in Messages
  PROVE  /\ m.type = "MouseMove" \/ m.type \in ButtonTypes \/ m.type \in KeyTypes
         /\ m \in Moves <=> m.type = "MouseMove"
         /\ m.type = "MouseMove" => m.type \notin ButtonTypes /\ m.type \notin KeyTypes
         /\ m.type \in ButtonTypes => m.type # "MouseMove" /\ m.type \notin KeyTypes
         /\ m.type \in KeyTypes => m.type # "MouseMove" /\ m.type \notin ButtonTypes
<1>1. m.type = "MouseMove" \/ m.type \in ButtonTypes \/ m.type \in KeyTypes
  BY MessageFields
<1> QED
  BY <1>1 DEF Moves, ButtonTypes, KeyTypes

\* What is taken from the queue, and what is left.
LEMMA Taken ==
  ASSUME IInv, queue # << >>, NEW rest, rest = Tail(queue), NEW m, m = Head(queue)
  PROVE  /\ queue \in Seq(Msgs) /\ m = queue[1] /\ m \in Msgs /\ rest \in Seq(Msgs)
         /\ agent \in Display /\ wnd \in Window
         /\ m.type = "MousePress" => m.button \in Codes
         /\ \A k \in DOMAIN rest : /\ rest[k].type = "MousePress" => rest[k].button \in Codes
                                   /\ rest[k] \in Msgs
<1>1. queue \in Seq(Msgs)
  BY DEF IInv, TypeOK, Msgs
<1>2. /\ m = queue[1] /\ m \in Msgs /\ 1 \in DOMAIN queue /\ rest \in Seq(Msgs)
      /\ \A k \in DOMAIN rest : k + 1 \in DOMAIN queue /\ rest[k] = queue[k + 1]
  BY <1>1, TailElements
<1>3. \A k \in DOMAIN rest : rest[k] \in Msgs
  BY <1>2, QueueElements
<1>4. agent \in Display /\ wnd \in Window
  BY DEF IInv, TypeOK, Display, Window
<1>5. \A k \in DOMAIN queue : queue[k].type = "MousePress" => queue[k].button \in Codes
  BY DEF IInv, Mirrors
<1> QED
  BY <1>1, <1>2, <1>3, <1>4, <1>5

\* An event of the library is handled.
LEMMA EventKeeps ==
  ASSUME IInv, queue # << >>, NEW m, m = Head(queue), m \in {Connected, Disconnected},
         queue' = Tail(queue), untold' = untold, wnd' = wnd,
         events' = events, refused' = refused,
         agent' \in {[agent EXCEPT !.slots = TRUE], [agent EXCEPT !.running = FALSE]}
  PROVE  IInv'
<1>1. PICK rest : rest = Tail(queue)
  OBVIOUS
<1>2. /\ queue \in Seq(Msgs) /\ m = queue[1] /\ rest \in Seq(Msgs) /\ queue' = rest
      /\ agent \in Display
      /\ \A k \in DOMAIN rest : rest[k].type = "MousePress" => rest[k].button \in Codes
  BY <1>1, Taken
<1>3. /\ agent' \in Display /\ agent'.held = agent.held /\ agent'.cursor = agent.cursor
      /\ agent'.pressed = agent.pressed /\ (agent.slots => agent'.slots)
  BY <1>2 DEF Display
<1>4. m \notin Moves /\ \A i : m \notin Changes(i)
  BY EventFields DEF Moves, Changes
<1>5. TypeOK'
  BY <1>2, <1>3 DEF IInv, TypeOK, Display, Msgs
<1>6. Mirrors'
  <2>1. ASSUME NEW i \in Inputs \ untold
        PROVE  Tells(rest, i, i \in wnd.held, Code(i) \in agent.held)
    <3>1. Tells(queue, i, i \in wnd.held, Code(i) \in agent.held)
      BY DEF IInv, Mirrors
    <3> QED
      BY <1>1, <1>2, <1>4, <3>1, TellsTail
  <2> QED
    BY <1>2, <1>3, <2>1 DEF IInv, Mirrors
<1>7. Places'
  <2>1. /\ InPlace(queue, agent.cursor)
        /\ wnd.running => At(queue, Len(queue) + 1, wnd.position, agent.cursor)
    BY DEF IInv, Places
  <2>2. PICK cursor : cursor = agent.cursor
    OBVIOUS
  <2>3. /\ \A p : At(queue, Len(queue) + 1, p, cursor) => At(rest, Len(rest) + 1, p, cursor)
        /\ InPlace(queue, cursor) => InPlace(rest, cursor)
    BY <1>1, <1>2, <1>4, AtTail
  <2> QED
    BY <1>2, <1>3, <2>1, <2>2, <2>3 DEF IInv, Places, ReplayedInPlace
<1> QED
  BY <1>5, <1>6, <1>7 DEF IInv

\* A message comes before the slots are connected and is lost.
LEMMA LostKeeps ==
  ASSUME IInv, queue # << >>, NEW m, m = Head(queue), m \in Messages, ~agent.slots,
         NEW rest, rest = Tail(queue), queue' = rest, agent' = agent, wnd' = wnd,
         events' = events, refused' = refused,
         untold' = untold \cup {i \in About(m) : \A n \in DOMAIN rest : i \notin About(rest[n])}
  PROVE  IInv'
<1>1. /\ queue \in Seq(Msgs) /\ m = queue[1] /\ rest \in Seq(Msgs)
      /\ \A k \in DOMAIN rest : /\ rest[k].type = "MousePress" => rest[k].button \in Codes
                                /\ rest[k] \in Msgs
  BY Taken
<1>2. untold' \subseteq Buttons \cup Keys
  <2>1. About(m) \subseteq Inputs
    BY DEF About
  <2> QED
    BY <2>1, InputSets, WindowFacts
<1>3. TypeOK'
  BY <1>1, <1>2 DEF IInv, TypeOK, Msgs
<1>4. Mirrors'
  <2>1. ASSUME NEW i \in Inputs \ untold'
        PROVE  Tells(rest, i, i \in wnd.held, Code(i) \in agent.held)
    <3>1. PICK up : up = (i \in wnd.held)
      OBVIOUS
    <3>2. PICK down : down = (Code(i) \in agent.held)
      OBVIOUS
    <3>3. Tells(queue, i, up, down)
      BY <3>1, <3>2 DEF IInv, Mirrors
    <3>4. CASE i \notin About(m)
      <4>1. m \notin Changes(i)
        BY <3>4, ChangesAre
      <4>2. Tells(rest, i, up, down)
        BY <1>1, <3>3, <4>1, TellsTail
      <4> QED
        BY <3>1, <3>2, <4>2
    <3>5. CASE i \in About(m)
      <4>1. PICK n \in DOMAIN rest : i \in About(rest[n])
        BY <2>1, <3>5
      <4>2. rest[n] \in Changes(i)
        BY <1>1, <4>1, AboutAre
      <4>3. Tells(rest, i, up, down)
        BY <1>1, <3>3, <4>2, TellsTail
      <4> QED
        BY <3>1, <3>2, <4>3
    <3> QED
      BY <3>4, <3>5
  <2> QED
    BY <1>1, <2>1 DEF IInv, Mirrors
<1>5. Places'
  <2>1. agent.cursor = NoPosition
    BY DEF IInv, Places
  <2>2. IF m \in Moves THEN agent.cursor \in {m.position, NoPosition}
                       ELSE agent.cursor = agent.cursor
    BY <2>1
  <2>3. /\ InPlace(rest, agent.cursor)
        /\ wnd.running => At(rest, Len(rest) + 1, wnd.position, agent.cursor)
    BY <1>1, <2>2, AtTail DEF IInv, Places
  <2> QED
    BY <2>3 DEF IInv, Places, ReplayedInPlace
<1> QED
  BY <1>3, <1>4, <1>5 DEF IInv

\* What a message about an input makes of the display, and what it leaves alone.
LEMMA ReplayHolds ==
  ASSUME NEW a \in Display, NEW m \in Messages, NEW new, new = Replay(a, m), NEW i \in Inputs
  PROVE  IF m \in Changes(i) THEN Code(i) \in new.held <=> Presses(m)
                             ELSE Code(i) \in new.held <=> Code(i) \in a.held
<1>1. CASE m.type = "MouseMove"
  <2>1. new.held = a.held
    BY <1>1, ReplayMove
  <2>2. m \notin Changes(i)
    BY <1>1, MessageKinds, ChangesAre
  <2> QED
    BY <2>1, <2>2
<1>2. CASE m.type \in ButtonTypes
  <2>1. new.held = IF Presses(m) THEN a.held \cup {m.button} ELSE a.held \ {m.button}
    BY <1>2, ReplayButton
  <2>2. m \in Changes(i) <=> Code(i) = m.button
    BY <1>2, MessageKinds, ChangesAre
  <2> QED
    BY <2>1, <2>2
<1>3. CASE m.type \in KeyTypes
  <2>1. new.held = IF Presses(m) THEN a.held \cup {XKeysymToKeycode(m.key)}
                                ELSE a.held \ {XKeysymToKeycode(m.key)}
    BY <1>3, ReplayKey
  <2>2. m \in Changes(i) <=> Code(i) = XKeysymToKeycode(m.key)
    BY <1>3, MessageKinds, ChangesAre
  <2> QED
    BY <2>1, <2>2
<1> QED
  BY <1>1, <1>2, <1>3, MessageKinds

\* The display holds only what some input stands for.
LEMMA ReplayCodes ==
  ASSUME NEW a \in Display, a.held \subseteq Codes, NEW m \in Messages,
         m.type = "MousePress" => m.button \in Codes, NEW new, new = Replay(a, m)
  PROVE  new.held \subseteq Codes
<1>1. CASE m.type = "MouseMove"
  <2>1. new.held = a.held
    BY <1>1, ReplayMove
  <2> QED
    BY <2>1
<1>2. CASE m.type \in ButtonTypes
  <2>1. new.held = IF Presses(m) THEN a.held \cup {m.button} ELSE a.held \ {m.button}
    BY <1>2, ReplayButton
  <2>2. Presses(m) => m.button \in Codes
    BY <1>2 DEF Presses, ButtonTypes
  <2> QED
    BY <2>1, <2>2
<1>3. CASE m.type \in KeyTypes
  <2>1. /\ XKeysymToKeycode(m.key) \in Keys
        /\ new.held = IF Presses(m) THEN a.held \cup {XKeysymToKeycode(m.key)}
                                    ELSE a.held \ {XKeysymToKeycode(m.key)}
    BY <1>3, ReplayKey
  <2>2. XKeysymToKeycode(m.key) \in Codes
    BY <2>1, CodesDiffer DEF Codes
  <2> QED
    BY <2>1, <2>2
<1> QED
  BY <1>1, <1>2, <1>3, MessageKinds

\* What a message does to the cursor, and where it was when a button was replayed.
LEMMA ReplayPlaces ==
  ASSUME NEW a \in Display, NEW m \in Messages, NEW new, new = Replay(a, m)
  PROVE  /\ new \in Display /\ new.slots = a.slots
         /\ IF m \in Moves THEN new.cursor = m.position ELSE new.cursor = a.cursor
         /\ IF m.type \in ButtonTypes
            THEN new.pressed.cursor = a.cursor /\ new.pressed.at = m.at
            ELSE new.pressed = a.pressed
<1>1. CASE m.type = "MouseMove"
  BY <1>1, MessageKinds, ReplayMove
<1>2. CASE m.type \in ButtonTypes
  <2>1. /\ new \in Display /\ new.slots = a.slots /\ new.cursor = a.cursor
        /\ new.pressed.cursor = a.cursor /\ new.pressed.at = m.at
        /\ new.held = IF Presses(m) THEN a.held \cup {m.button} ELSE a.held \ {m.button}
    BY <1>2, ReplayButton
  <2> QED
    BY <1>2, <2>1, MessageKinds
<1>3. CASE m.type \in KeyTypes
  <2>1. /\ new \in Display /\ new.slots = a.slots /\ new.cursor = a.cursor
        /\ new.pressed = a.pressed
    BY <1>3, ReplayKey
  <2> QED
    BY <1>3, <2>1, MessageKinds
<1> QED
  BY <1>1, <1>2, <1>3, MessageKinds

\* A message is replayed.
LEMMA ReplayKeeps ==
  ASSUME IInv, queue # << >>, NEW m, m = Head(queue), m \in Messages, agent.slots,
         NEW rest, rest = Tail(queue), queue' = rest, agent' = Replay(agent, m),
         wnd' = wnd, untold' = untold, events' = events, refused' = refused
  PROVE  IInv'
<1>1. /\ queue \in Seq(Msgs) /\ m = queue[1] /\ rest \in Seq(Msgs) /\ agent \in Display
      /\ m.type = "MousePress" => m.button \in Codes
      /\ \A k \in DOMAIN rest : rest[k].type = "MousePress" => rest[k].button \in Codes
  BY Taken
<1>2. PICK new : new = Replay(agent, m)
  OBVIOUS
<1>3. new \in Display /\ new.slots /\ agent' = new
  BY <1>1, <1>2, ReplayPlaces
<1>4. TypeOK'
  BY <1>1, <1>3 DEF IInv, TypeOK, Display, Msgs
<1>5. Mirrors'
  <2>1. ASSUME NEW i \in Inputs \ untold
        PROVE  Tells(rest, i, i \in wnd.held, Code(i) \in new.held)
    <3>1. PICK up : up = (i \in wnd.held)
      OBVIOUS
    <3>2. PICK down : down = (Code(i) \in agent.held)
      OBVIOUS
    <3>3. PICK down1 : down1 = (Code(i) \in new.held)
      OBVIOUS
    <3>4. Tells(queue, i, up, down)
      BY <3>1, <3>2 DEF IInv, Mirrors
    <3>5. IF m \in Changes(i) THEN down1 <=> Presses(m) ELSE down1 <=> down
      BY <1>1, <1>2, <3>2, <3>3, ReplayHolds
    <3>6. CASE m \in Changes(i)
      <4>1. Tells(rest, i, up, Presses(m))
        BY <1>1, <3>4, <3>6, TellsTail
      <4>2. Tells(rest, i, up, down1)
        BY <3>5, <3>6, <4>1 DEF Tells
      <4> QED
        BY <3>1, <3>3, <4>2
    <3>7. CASE m \notin Changes(i)
      <4>1. Tells(rest, i, up, down)
        BY <1>1, <3>4, <3>7, TellsTail
      <4>2. Tells(rest, i, up, down1)
        BY <3>5, <3>7, <4>1 DEF Tells
      <4> QED
        BY <3>1, <3>3, <4>2
    <3> QED
      BY <3>6, <3>7
  <2>2. new.held \subseteq Codes
    BY <1>1, <1>2, ReplayCodes DEF IInv, Mirrors
  <2> QED
    BY <1>1, <1>3, <2>1, <2>2 DEF IInv, Mirrors
<1>6. IF m \in Moves THEN new.cursor \in {m.position, NoPosition}
                     ELSE new.cursor = agent.cursor
  BY <1>1, <1>2, ReplayPlaces
<1>7. /\ InPlace(rest, new.cursor)
      /\ wnd.running => At(rest, Len(rest) + 1, wnd.position, new.cursor)
  <2>1. PICK old : old = agent.cursor
    OBVIOUS
  <2>2. PICK cursor : cursor = new.cursor
    OBVIOUS
  <2>3. /\ \A p : At(queue, Len(queue) + 1, p, old) => At(rest, Len(rest) + 1, p, cursor)
        /\ InPlace(queue, old) => InPlace(rest, cursor)
    BY <1>1, <1>6, <2>1, <2>2, AtTail
  <2> QED
    BY <2>1, <2>2, <2>3 DEF IInv, Places
<1>8. new.pressed.cursor \in {new.pressed.at, NoPosition}
  <2>1. CASE m.type \in ButtonTypes
    <3>1. 1 \in DOMAIN queue
      BY <1>1, TailElements
    <3>2. At(queue, 1, m.at, agent.cursor)
      BY <1>1, <2>1, <3>1 DEF IInv, Places, InPlace
    <3>3. NoneBefore(queue, 1, Moves)
      BY DEF NoneBefore
    <3>4. agent.cursor \in {m.at, NoPosition}
      BY <3>2, <3>3 DEF At
    <3>5. new.pressed.cursor = agent.cursor /\ new.pressed.at = m.at
      BY <1>1, <1>2, <2>1, ReplayPlaces
    <3> QED
      BY <3>4, <3>5
  <2>2. CASE m.type \notin ButtonTypes
    <3>1. new.pressed = agent.pressed
      BY <1>1, <1>2, <2>2, ReplayPlaces
    <3> QED
      BY <3>1 DEF IInv, Places, ReplayedInPlace
  <2> QED
    BY <2>1, <2>2
<1>9. Places'
  BY <1>3, <1>7, <1>8 DEF Places, ReplayedInPlace
<1> QED
  BY <1>4, <1>5, <1>9 DEF IInv

\* The agent handles what comes first.
LEMMA ReceiveKeeps == ASSUME IInv, Receive PROVE IInv'
<1>1. PICK m : m = Head(queue)
  OBVIOUS
<1>2. PICK rest : rest = Tail(queue)
  OBVIOUS
<1>3. /\ queue # << >> /\ queue' = rest
      /\ wnd' = wnd /\ events' = events /\ refused' = refused
  BY <1>2 DEF Receive, Handle
<1>4. CASE m = Connected /\ agent' = [agent EXCEPT !.slots = TRUE] /\ untold' = untold
  BY <1>1, <1>2, <1>3, <1>4, EventKeeps
<1>5. CASE m = Disconnected /\ agent' = [agent EXCEPT !.running = FALSE] /\ untold' = untold
  BY <1>1, <1>2, <1>3, <1>5, EventKeeps
<1>6. CASE m \in Messages /\ agent.slots /\ agent' = Replay(agent, m) /\ untold' = untold
  BY <1>1, <1>2, <1>3, <1>6, ReplayKeeps
<1>7. CASE /\ m \in Messages /\ ~agent.slots /\ agent' = agent
           /\ untold' = untold \cup
                {i \in About(m) : \A n \in DOMAIN rest : i \notin About(rest[n])}
  BY <1>1, <1>2, <1>3, <1>7, LostKeeps
<1> QED
  BY <1>1, <1>2, <1>4, <1>5, <1>6, <1>7 DEF Receive, Handle, OnPeerDisconnected

-----------------------------------------------------------------------------
(* Theorems *)

\* At the start nothing is held, sent or placed.
LEMMA InitInv == Init => IInv
<1> SUFFICES ASSUME Init PROVE IInv
  OBVIOUS
<1>1. TypeOK
  <2>1. wnd \in Window
    <3>1. /\ <<"Connected", "DataChannel">> \in Seq({"Connected", "DataChannel"})
          /\ <<"DataChannel", "Connected">> \in Seq({"Connected", "DataChannel"})
      OBVIOUS
    <3> QED
      BY <3>1 DEF Init, Window
  <2>2. agent \in Display
    BY DEF Init, Display
  <2> QED
    BY <2>1, <2>2, BoundsAssumption DEF Init, TypeOK, Window, Display
<1>2. /\ wnd.held = {} /\ agent.held = {} /\ queue = << >>
      /\ agent.cursor = NoPosition /\ agent.pressed.cursor = NoPosition
  BY DEF Init
<1>3. Len(queue) = 0 /\ DOMAIN queue = {}
  BY <1>2
<1>4. \A S, m : ~LastBefore(queue, Len(queue) + 1, S, m)
  BY <1>3 DEF LastBefore
<1>5. Mirrors
  BY <1>2, <1>3, <1>4 DEF Mirrors, Tells
<1>6. Places
  BY <1>2, <1>3, <1>4 DEF Places, InPlace, At, ReplayedInPlace
<1> QED
  BY <1>1, <1>5, <1>6 DEF IInv

\* Every step keeps the invariant.
LEMMA NextInv == IInv /\ [Next]_vars => IInv'
<1> SUFFICES ASSUME IInv, [Next]_vars PROVE IInv'
  OBVIOUS
<1>1. CASE UNCHANGED vars
  BY <1>1 DEF vars, IInv, TypeOK, Mirrors, Places, ReplayedInPlace
<1>2. CASE UserEvent
  <2>1. ASSUME NEW position \in Positions, OnMouseMoved(position) PROVE IInv'
    BY <2>1, PointerKeeps
  <2>2. ASSUME NEW b \in Buttons,
               OnMousePressed(b) \/ OnMouseReleased(b) \/ OnMouseDoubleClicked(b)
        PROVE  IInv'
    BY <2>2, ButtonEventKeeps
  <2>3. ASSUME NEW button \in WheelButtons, OnMouseWheel(button) PROVE IInv'
    BY <2>3, PointerKeeps
  <2>4. ASSUME NEW k \in Keys, NEW level \in {"plain", "shifted"},
               OnKeyPressed(k, level) \/ OnKeyReleased(k, level)
        PROVE  IInv'
    BY <2>4, KeyEventKeeps
  <2>5. ASSUME NEW k \in Keys, NEW level \in {"plain", "shifted"}, OnKeyRepeated(k, level)
        PROVE  IInv'
    BY <2>5, KeyRepeatKeeps
  <2>6. ASSUME NEW k \in Keys, ReleasedElsewhere(k) PROVE IInv'
    BY <2>6, ReleasedElsewhereKeeps
  <2> QED
    BY <1>2, <2>1, <2>2, <2>3, <2>4, <2>5, <2>6 DEF UserEvent
<1>3. CASE OnPosted
  BY <1>3, OnPostedKeeps
<1>4. CASE Close
  BY <1>4, CloseKeeps
<1>5. CASE PostConnected \/ PostDisconnected
  BY <1>5, PostKeeps
<1>6. CASE Receive
  BY <1>6, ReceiveKeeps
<1> QED
  BY <1>1, <1>2, <1>3, <1>4, <1>5, <1>6 DEF Next

\* What is queued makes the agent's display agree with the window, and puts its cursor
\* where the buttons are to go down, in every behaviour.
THEOREM Invariance == Spec => []IInv
<1> QED
  BY InitInv, NextInv, PTL DEF Spec

\* The type invariant: the messages that are sent can be replayed.
THEOREM TypeCorrect == Spec => []TypeOK
<1>1. IInv => TypeOK
  BY DEF IInv
<1> QED
  BY <1>1, Invariance, PTL

\* The slots of Agent and XControl: once everything is replayed the agent's display
\* holds down what the user holds, whatever was refused, lost or sent too early.
THEOREM MirrorsWindowTheorem == Spec => []MirrorsWindow
<1>1. IInv => MirrorsWindow
  <2> SUFFICES ASSUME IInv, queue = << >> PROVE MirrorsWindow
    BY DEF MirrorsWindow
  <2>1. \A S : NoneBefore(queue, Len(queue) + 1, S)
    BY DEF NoneBefore
  <2>2. \A i \in Inputs \ untold : Code(i) \in agent.held <=> i \in wnd.held
    BY <2>1 DEF IInv, Mirrors, Tells
  <2>3. agent.held \subseteq {Code(i) : i \in Inputs}
    BY DEF IInv, Mirrors, Codes
  <2> QED
    BY <2>2, <2>3 DEF MirrorsWindow
<1> QED
  BY <1>1, Invariance, PTL

\* OnMouseMove and the button slots: a button goes down where the controller last
\* reported the pointer.
THEOREM ReplayedInPlaceTheorem == Spec => []ReplayedInPlace
<1>1. IInv => ReplayedInPlace
  BY DEF IInv, Places
<1> QED
  BY <1>1, Invariance, PTL

=============================================================================
