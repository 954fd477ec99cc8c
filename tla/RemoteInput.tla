----------------------------- MODULE RemoteInput -----------------------------
(***************************************************************************)
(* The mouse and the keyboard of the controller's window move those of the *)
(* agent's display: ControllerWnd and Controller write to the data channel *)
(* (ordered, AgentClient.cpp:88), AgentClient, Agent and XControl replay.  *)
(*                                                                         *)
(* The module starts when the peer connection is up.  Both processes hear  *)
(* of that by an event queued to their Qt thread (RtcNegotiation); until   *)
(* then the window is hidden and the slots of the agent are not connected. *)
(* It ends when the agent hears that the controller is gone.               *)
(***************************************************************************)
EXTENDS Naturals, Sequences, SequencesExt

CONSTANTS
  Buttons,    \* the mouse buttons of the user, by their Qt names
  Keys,       \* the keys of the user
  Positions,  \* places in the window, as ratios of its size
  NoPosition, \* the cursor of the agent before the first move
  MaxEvents,  \* bound: events of the user
  MaxRefused  \* bound: messages the data channel refuses

ASSUME BoundsAssumption == MaxEvents \in Nat /\ MaxRefused \in Nat
ASSUME NoPositionAssumption == NoPosition \notin Positions

\* Slip: a button that is not known is passed on as it is.
EveryButton(button) ==
  CASE button = "LeftButton" -> 1 [] button = "MiddleButton" -> 2
    [] button = "RightButton" -> 3 [] OTHER -> 8
\* 0 for the buttons that are not passed on.
QtButtonToSysButton(button) ==
  CASE button = "LeftButton" -> 1 [] button = "MiddleButton" -> 2
    [] button = "RightButton" -> 3 [] OTHER -> 0
SysButtons == 1..5
WheelButtons == {4, 5}

\* Keys and buttons are different things, although a display numbers both.
ASSUME KeysAssumption == Keys \cap Buttons = {} /\ Keys \cap SysButtons = {}

\* nativeVirtualKey depends on the key and on the modifiers held with it; the X
\* display of the agent has the key on which it finds that symbol (both displays
\* are taken to have the same layout).
Keysyms == Keys \X {"plain", "shifted"}
XKeysymToKeycode(sym) == sym[1]

\* What the agent's display can hold down.
Held == SysButtons \cup Keys
\* What a button or a key of the user stands for there.
Code(i) == IF i \in Keys THEN i ELSE QtButtonToSysButton(i)
Inputs == Keys \cup {b \in Buttons : QtButtonToSysButton(b) # 0}

ButtonTypes == {"MousePress", "MouseRelease", "MouseDoubleClick"}
KeyTypes == {"KeyboardPress", "KeyboardRelease"}
\* The field "at" is history: the position the controller reported last.
Messages ==
  [type : {"MouseMove"}, position : Positions]
    \cup [type : ButtonTypes, button : SysButtons, at : Positions \cup {NoPosition}]
    \cup [type : KeyTypes, key : Keysyms]
Connected == [type |-> "Connected"]
Disconnected == [type |-> "Disconnected"]

VARIABLES
  wnd,     \* the controller: its window and its end of the channel
  queue,   \* from the channel of the controller to the event loop of the agent
  agent,   \* the agent and its display
  untold,  \* history: the inputs whose last change did not reach the display
  events, refused \* the counters behind the bounds

vars == <<wnd, queue, agent, untold, events, refused>>

(***************************************************************************)
(* wnd.running   the process of the controller                             *)
(*    .posted    the events its Qt thread has not handled                  *)
(*    .shown     OnPeerConnected ran                                       *)
(*    .channel   m_pkDataChannel is set                                    *)
(*    .held      the buttons and keys the window saw pressed, not released *)
(*    .position  the position reported last                                *)
(* agent.running the process of the agent                                  *)
(*      .told    the library posted the connection                         *)
(*      .lost    the library posted the loss of the connection             *)
(*      .slots   OnPeerConnected ran                                       *)
(*      .held    what its display holds down                               *)
(*      .cursor  where its cursor was put                                  *)
(*      .pressed history: where the last button message was replayed, and  *)
(*               where the controller had reported the pointer             *)
(***************************************************************************)
TypeOK ==
  /\ wnd \in [running : BOOLEAN, posted : Seq({"Connected", "DataChannel"}),
              shown : BOOLEAN, channel : BOOLEAN, held : SUBSET (Buttons \cup Keys),
              position : Positions \cup {NoPosition}]
  /\ queue \in Seq(Messages \cup {Connected, Disconnected})
  /\ agent \in [running : BOOLEAN, told : BOOLEAN, lost : BOOLEAN, slots : BOOLEAN,
                held : SUBSET Held,
                cursor : Positions \cup {NoPosition},
                pressed : [cursor : Positions \cup {NoPosition},
                           at : Positions \cup {NoPosition}]]
  /\ untold \subseteq Buttons \cup Keys
  /\ events \in 0..MaxEvents /\ refused \in 0..MaxRefused

Init ==
  /\ wnd \in [running : {TRUE}, shown : {FALSE}, channel : {FALSE}, held : {{}},
              posted : {<<"Connected", "DataChannel">>, <<"DataChannel", "Connected">>},
              position : {NoPosition}]
  /\ queue = << >>
  /\ agent = [running |-> TRUE, told |-> FALSE, lost |-> FALSE, slots |-> FALSE,
              held |-> {}, cursor |-> NoPosition,
              pressed |-> [cursor |-> NoPosition, at |-> NoPosition]]
  /\ untold = {}
  /\ events = 0 /\ refused = 0

-----------------------------------------------------------------------------
(* The controller *)

OnPosted ==
  /\ wnd.running /\ wnd.posted # << >>
  /\ wnd' = [wnd EXCEPT !.posted = Tail(@),
                        !.shown = @ \/ Head(wnd.posted) = "Connected",
                        !.channel = @ \/ Head(wnd.posted) = "DataChannel"]
  /\ UNCHANGED <<queue, agent, untold, events, refused>>

\* An event of the window: the channel takes its messages or refuses them (which
\* is logged).  Without a channel the null pointer ends the process.
Send(msgs, input, taken, new) ==
  /\ wnd.running /\ wnd.shown /\ events < MaxEvents
  /\ events' = events + 1
  /\ \/ /\ wnd.channel
        /\ wnd' = new
        /\ queue' = queue \o msgs
        /\ untold' = taken
        /\ UNCHANGED refused
     \/ /\ wnd.channel /\ refused < MaxRefused
        /\ refused' = refused + 1
        /\ wnd' = [new EXCEPT !.position = wnd.position]
        /\ untold' = untold \cup input
        /\ UNCHANGED queue
     \/ /\ ~wnd.channel
        /\ wnd' = [wnd EXCEPT !.running = FALSE]
        /\ UNCHANGED <<queue, untold, refused>>
  /\ UNCHANGED agent

OnMouseMoved(position) ==
  Send(<<[type |-> "MouseMove", position |-> position]>>, {}, untold,
       [wnd EXCEPT !.position = position])

ButtonMsg(type, button) ==
  [type |-> type, button |-> QtButtonToSysButton(button), at |-> wnd.position]

OnMousePressed(b) ==
  /\ b \notin wnd.held /\ QtButtonToSysButton(b) # 0
  /\ Send(<<ButtonMsg("MousePress", b)>>, {b}, untold \ {b},
          [wnd EXCEPT !.held = @ \cup {b}])

OnMouseReleased(b) ==
  /\ b \in wnd.held
  /\ Send(<<ButtonMsg("MouseRelease", b)>>, {b}, untold \ {b},
          [wnd EXCEPT !.held = @ \ {b}])

\* In place of the second press; the agent clicks and holds nothing.
OnMouseDoubleClicked(b) ==
  /\ b \notin wnd.held /\ QtButtonToSysButton(b) # 0
  /\ Send(<<ButtonMsg("MouseDoubleClick", b)>>, {b}, untold \cup {b},
          [wnd EXCEPT !.held = @ \cup {b}])

\* As a double click of the wheel's button.
OnMouseWheel(button) ==
  Send(<<[type |-> "MouseDoubleClick", button |-> button, at |-> wnd.position]>>,
       {}, untold, wnd)

KeyMsg(type, key, level) == [type |-> type, key |-> <<key, level>>]

OnKeyPressed(k, level) ==
  /\ k \notin wnd.held
  /\ Send(<<KeyMsg("KeyboardPress", k, level)>>, {k}, untold \ {k},
          [wnd EXCEPT !.held = @ \cup {k}])

OnKeyReleased(k, level) ==
  /\ k \in wnd.held
  /\ Send(<<KeyMsg("KeyboardRelease", k, level)>>, {k}, untold \ {k},
          [wnd EXCEPT !.held = @ \ {k}])

\* A key that is held repeats as a release and a press.
OnKeyRepeated(k, level) ==
  /\ k \in wnd.held
  /\ Send(<<KeyMsg("KeyboardRelease", k, level), KeyMsg("KeyboardPress", k, level)>>,
          {k}, untold \ {k}, wnd)

\* The window lost the focus: it does not see the key go up.
ReleasedElsewhere(k) ==
  /\ wnd.running /\ k \in wnd.held
  /\ wnd' = [wnd EXCEPT !.held = @ \ {k}]
  /\ untold' = untold \cup {k}
  /\ UNCHANGED <<queue, agent, events, refused>>

\* The input a message is about, if it changes what is held.
About(msg) ==
  {i \in Inputs : \/ msg.type \in ButtonTypes /\ Code(i) = msg.button
                  \/ msg.type \in KeyTypes /\ i = XKeysymToKeycode(msg.key)}

\* The user closes the program or the network fails: what the user holds at that
\* moment stays in wnd.held.  Of what the channel took only a first part arrives,
\* with the event that was posted at the agent itself.
Close ==
  /\ wnd.running /\ wnd.shown
  /\ wnd' = [wnd EXCEPT !.running = FALSE]
  /\ \E n \in 0..Len(queue) :
       LET lost == SubSeq(queue, n + 1, Len(queue))
       IN  /\ \A k \in DOMAIN lost : lost[k] # Connected
           /\ queue' = SubSeq(queue, 1, n)
           /\ untold' = untold \cup UNION {About(lost[k]) : k \in DOMAIN lost}
  /\ UNCHANGED <<agent, events, refused>>

-----------------------------------------------------------------------------
(* The agent *)

\* The library posts the connection, before or after messages arrived.
PostConnected ==
  /\ ~agent.told
  /\ agent' = [agent EXCEPT !.told = TRUE]
  /\ queue' = Append(queue, Connected)
  /\ UNCHANGED <<wnd, untold, events, refused>>

\* It posts the loss of the connection after everything that arrived.
PostDisconnected ==
  /\ agent.told /\ ~agent.lost /\ ~wnd.running
  /\ agent' = [agent EXCEPT !.lost = TRUE]
  /\ queue' = Append(queue, Disconnected)
  /\ UNCHANGED <<wnd, untold, events, refused>>

\* XControl.  Slip: a click is a press.
TriggerClickHalf(a, button) == [a EXCEPT !.held = @ \cup {button}]
TriggerClick(a, button) == [a EXCEPT !.held = @ \ {button}]
TriggerPress(a, code) == [a EXCEPT !.held = @ \cup {code}]
\* Slip: the flag says press.
TriggerReleasePressing(a, code) == [a EXCEPT !.held = @ \cup {code}]
TriggerRelease(a, code) == [a EXCEPT !.held = @ \ {code}]

Pressed(a, msg) == [a EXCEPT !.pressed = [cursor |-> a.cursor, at |-> msg.at]]

\* OnDataChannelMessage and the slots of Agent.
Replay(a, msg) ==
  CASE msg.type = "MouseMove" -> [a EXCEPT !.cursor = msg.position]
    [] msg.type = "MousePress" -> TriggerPress(Pressed(a, msg), msg.button)
    [] msg.type = "MouseRelease" -> TriggerRelease(Pressed(a, msg), msg.button)
    [] msg.type = "MouseDoubleClick" -> TriggerClick(Pressed(a, msg), msg.button)
    [] msg.type = "KeyboardPress" -> TriggerPress(a, XKeysymToKeycode(msg.key))
    [] msg.type = "KeyboardRelease" -> TriggerRelease(a, XKeysymToKeycode(msg.key))

\* OnPeerDisconnected: Finish, and Application quits.  Nothing is released.
OnPeerDisconnected == agent' = [agent EXCEPT !.running = FALSE]

\* Without slots a message is lost.
Handle(msg, rest) ==
  /\ agent.running
  /\ queue' = rest
  /\ \/ /\ msg = Connected
        /\ agent' = [agent EXCEPT !.slots = TRUE]
        /\ UNCHANGED untold
     \/ /\ msg = Disconnected
        /\ OnPeerDisconnected
        /\ UNCHANGED untold
     \/ /\ msg \in Messages /\ agent.slots
        /\ agent' = Replay(agent, msg)
        /\ UNCHANGED untold
     \/ /\ msg \in Messages /\ ~agent.slots
        /\ untold' = untold \cup
             {i \in About(msg) : \A n \in DOMAIN rest : i \notin About(rest[n])}
        /\ UNCHANGED agent
  /\ UNCHANGED <<wnd, events, refused>>

\* Slip: the channel is made without asking for order.
ReceiveUnordered ==
  \E n \in DOMAIN queue : Handle(queue[n], RemoveAt(queue, n))
Receive == queue # << >> /\ Handle(Head(queue), Tail(queue))

-----------------------------------------------------------------------------
UserEvent == \/ \E position \in Positions : OnMouseMoved(position)
             \/ \E b \in Buttons : \/ OnMousePressed(b)
                                   \/ OnMouseReleased(b)
                                   \/ OnMouseDoubleClicked(b)
             \/ \E button \in WheelButtons : OnMouseWheel(button)
             \/ \E k \in Keys, level \in {"plain", "shifted"} :
                  \/ OnKeyPressed(k, level)
                  \/ OnKeyReleased(k, level)
                  \/ OnKeyRepeated(k, level)
             \/ \E k \in Keys : ReleasedElsewhere(k)

Next == \/ OnPosted
        \/ UserEvent
        \/ Close
        \/ PostConnected
        \/ PostDisconnected
        \/ Receive

\* The event loops run and the channel delivers.
Spec == Init /\ [][Next]_vars /\ WF_vars(OnPosted) /\ WF_vars(PostConnected)
             /\ WF_vars(PostDisconnected) /\ WF_vars(Receive)

-----------------------------------------------------------------------------
(* Properties *)

\* Once everything is replayed, the agent's display holds down exactly what the
\* user holds down in the window, except for inputs whose last change the agent
\* could not know of: refused by the channel or lost with it, before its slots were
\* connected, out of the window's focus, or a double click, which it replays as a
\* click.  Nothing stays down that was released in the window, and nothing is held
\* that has no input in the window, the wheel's buttons among them.  When the agent
\* ends (Agent.cpp:60) the display keeps what the user held at the last moment.
MirrorsWindow ==
  queue = << >> =>
    /\ \A i \in Inputs \ untold : Code(i) \in agent.held <=> i \in wnd.held
    /\ agent.held \subseteq {Code(i) : i \in Inputs}

\* A button goes down, up or is clicked where the controller last reported the
\* pointer, although moves and buttons are separate messages; only before the
\* first move is replayed the cursor is wherever it was.
ReplayedInPlace ==
  agent.pressed.cursor \in {agent.pressed.at, NoPosition}

\* What the user released goes up on the display, also when the controller ends
\* in between: the agent does not quit before what arrived is replayed.
ReleasesArrive ==
  \A i \in Inputs :
    (Code(i) \in agent.held /\ i \notin wnd.held \cup untold)
      ~> (Code(i) \notin agent.held \/ i \in wnd.held \cup untold)
=============================================================================
