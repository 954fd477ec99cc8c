------------------------------ MODULE VideoPath ------------------------------
(***************************************************************************)
(* The screen of the agent in the window of the controller: Agent captures *)
(* pictures and AgentClient hands them to the library, ControllerClient's  *)
(* sink queues the frames to the Qt thread, RenderWidget paints the last.  *)
(*                                                                         *)
(* A picture is its number: the screen shows 0, 1, 2, ... one after the    *)
(* other, each with a size.  The module starts when the agent is connected *)
(* (Agent::OnPeerConnected); the controller may not have heard of it yet.  *)
(***************************************************************************)
EXTENDS Naturals, Sequences

CONSTANTS
  MaxSize,    \* bound: width and height of frames and of the widget
  MaxChanges, \* bound: changes of the screen, of frame sizes and of the widget
  MaxQueue    \* bound: frames on their way, and frames queued to the Qt thread,
              \* which the program does not bound

ASSUME BoundsAssumption ==
  MaxSize \in Nat \ {0} /\ MaxChanges \in Nat /\ MaxQueue \in Nat \ {0}

Dims == {"width", "height"}
Sizes == [Dims -> 1..MaxSize]
None == [d \in Dims |-> 0]

Larger(s, t) == [d \in Dims |-> IF s[d] < t[d] THEN t[d] ELSE s[d]]
Smaller(s, t) == [d \in Dims |-> IF s[d] < t[d] THEN s[d] ELSE t[d]]

\* The number 0 is that of no picture: m_kFrameData is null, nothing is painted.
Frames == [picture : 1..MaxChanges + 1, size : Sizes]
NoFrame == [picture |-> 0, size |-> None]

VARIABLES
  source,     \* what the screen shows now, at the size the library sends it in
  wire,       \* frames between VideoTrackSource and RtcVideoSink
  queue,      \* frames of the sink that wait for the Qt thread of the controller
  controller, \* how far the controller is: see States
  widget,     \* width() and height()
  frame,      \* m_kFrameData
  max,        \* m_nMaxFrameWidth, m_nMaxFrameHeight
  target,     \* m_nTargetTextureWidth, m_nTargetTextureHeight
  texture,    \* the size of m_pkTexture, None before initializeGL
  painted,    \* the picture in the texture
  update,     \* a paint is scheduled
  changes     \* the counter behind MaxChanges

vars == <<source, wire, queue, controller, widget, frame, max, target, texture,
          painted, update, changes>>
widgetVars == <<widget, frame, max, target, texture, painted, update>>

\* The remote track is unknown, has a sink, and the window is shown besides.
States == {"waiting", "sink", "shown"}

TypeOK == /\ source \in Frames
          /\ wire \in Seq(Frames) /\ Len(wire) <= MaxQueue
          /\ queue \in Seq(Frames) /\ Len(queue) <= MaxQueue
          /\ controller \in States
          /\ widget \in Sizes
          /\ frame \in Frames \cup {NoFrame}
          /\ max \in [Dims -> 0..MaxSize]
          /\ target \in [Dims -> 0..MaxSize]
          /\ texture \in [Dims -> 0..MaxSize]
          /\ painted \in 0..MaxChanges + 1
          /\ update \in BOOLEAN
          /\ changes \in 0..MaxChanges

Init == /\ source \in [picture : {1}, size : Sizes]
        /\ wire = << >> /\ queue = << >>
        /\ controller = "waiting"
        /\ widget \in Sizes
        /\ frame = NoFrame
        /\ max = None /\ target = None /\ texture = None
        /\ painted = 0
        /\ update = FALSE
        /\ changes = 0

Change == changes < MaxChanges /\ changes' = changes + 1

-----------------------------------------------------------------------------
(* The agent and the way to the controller *)

\* The user of the agent does something.
ScreenChanges == /\ Change
                 /\ source' = [source EXCEPT !.picture = @ + 1]
                 /\ UNCHANGED <<wire, queue, controller, widgetVars>>

\* Another size of the screen, or AdaptFrame adapts it to the bandwidth.
SizeChanges == /\ Change
               /\ \E size \in Sizes \ {source.size} :
                    source' = [source EXCEPT !.size = size]
               /\ UNCHANGED <<wire, queue, controller, widgetVars>>

\* VideoTrackSource::SendFrame scales the picture to the size AdaptFrame asks for;
\* when AdaptFrame drops it nothing happens.
SendFrame(f) == Len(wire) < MaxQueue /\ wire' = Append(wire, f)

\* The slot of the capture timer that Agent::OnPeerConnected starts.
CaptureFrame == /\ SendFrame(source)
                /\ UNCHANGED <<source, queue, controller, widgetVars, changes>>

\* Lost on the way, or it finds no sink.
FrameLost == /\ wire # << >>
             /\ wire' = Tail(wire)
             /\ UNCHANGED <<source, queue, controller, widgetVars, changes>>

\* Slip: the frame that is queued overtakes those that wait.
OnFrameInFront(f) == Len(queue) < MaxQueue /\ queue' = <<f>> \o queue
\* RtcVideoSink::OnFrame; the library decodes in order.
OnFrame(f) == Len(queue) < MaxQueue /\ queue' = Append(queue, f)

FrameDecoded == /\ wire # << >> /\ controller # "waiting"
                /\ OnFrame(Head(wire))
                /\ wire' = Tail(wire)
                /\ UNCHANGED <<source, controller, widgetVars, changes>>

-----------------------------------------------------------------------------
(* The Qt thread of the controller *)

\* AddOrUpdateSink.
OnRtcOnAddTrack ==
  /\ controller = "waiting"
  /\ controller' = "sink"
  /\ UNCHANGED <<source, wire, queue, widgetVars, changes>>

\* Controller::OnPeerConnected: FrameReceived gets its slot and the window is shown.
OnPeerConnected ==
  /\ controller = "sink"
  /\ controller' = "shown"
  /\ update' = TRUE
  /\ UNCHANGED <<source, wire, queue, widget, frame, max, target, texture, painted,
                 changes>>

\* Slip: the data is kept without a call of update().
UpdateDataSilently(img) ==
  /\ max' = Larger(max, img.size)
  /\ frame' = img
  /\ UNCHANGED update

UpdateData(img) ==
  /\ max' = Larger(max, img.size)
  /\ frame' = img
  /\ update' = TRUE

\* OnRtcFrameReceived and ControllerWnd::OnFrameUpdate; a frame that is taken
\* before the slot is connected is lost.
OnRtcFrameReceived ==
  /\ queue # << >>
  /\ queue' = Tail(queue)
  /\ IF controller = "shown" THEN UpdateData(Head(queue))
                             ELSE UNCHANGED <<frame, max, update>>
  /\ UNCHANGED <<source, wire, controller, widget, target, texture, painted,
                 changes>>

\* The first paint is preceded by this.
initializeGL ==
  /\ controller = "shown" /\ texture = None
  /\ texture' = widget
  /\ UNCHANGED <<source, wire, queue, controller, widget, frame, max, target, painted,
                 update, changes>>

\* Slips: the maximum is never forgotten, and the target is rounded up to an even
\* size.
ResizeKeepingMax == target' = Smaller(widget, max) /\ UNCHANGED max
ResizeAligned == /\ target' = [d \in Dims |-> 2 * (Smaller(widget, max)[d] \div 2) + 2]
                 /\ max' = None

\* The slot of the timer, which initializeGL starts.
ResizeTexture == target' = Smaller(widget, max) /\ max' = None

\* The timer runs once a second.  While the stream and the window are steady there
\* are frames and paints in between; otherwise it may run when there were none.
Timeout(steady) ==
  /\ texture # None
  /\ steady <=> max # None /\ ~update
  /\ ResizeTexture
  /\ UNCHANGED <<source, wire, queue, controller, widget, frame, texture, painted,
                 update>>
SteadyTimeout == Timeout(TRUE) /\ UNCHANGED changes
EarlyTimeout == Timeout(FALSE) /\ Change

\* A new texture is empty until the frame is written to it.
paintGL ==
  /\ texture # None /\ update
  /\ update' = FALSE
  /\ IF \A d \in Dims : target[d] # 0
     THEN texture' = target /\ target' = None
     ELSE UNCHANGED <<texture, target>>
  /\ painted' = frame.picture
  /\ UNCHANGED <<source, wire, queue, controller, widget, frame, max, changes>>

\* ControllerWnd::resizeEvent.
Resize == /\ Change
          /\ widget' \in Sizes \ {widget}
          /\ update' = TRUE
          /\ UNCHANGED <<source, wire, queue, controller, frame, max, target, texture,
                         painted>>

Next == \/ ScreenChanges
        \/ SizeChanges
        \/ CaptureFrame
        \/ FrameLost
        \/ FrameDecoded
        \/ OnRtcOnAddTrack
        \/ OnPeerConnected
        \/ OnRtcFrameReceived
        \/ initializeGL
        \/ SteadyTimeout
        \/ EarlyTimeout
        \/ paintGL
        \/ Resize

\* The event loops run.  Frames are captured for ever, and of those that meet a
\* sink not all are lost.  As there are many frames and paints between two timeouts,
\* the timer does not find a paint pending every time.
Spec == Init /\ [][Next]_vars
             /\ WF_vars(OnRtcOnAddTrack) /\ WF_vars(OnPeerConnected)
             /\ WF_vars(CaptureFrame) /\ SF_vars(FrameDecoded)
             /\ WF_vars(OnRtcFrameReceived)
             /\ WF_vars(initializeGL) /\ WF_vars(paintGL)
             /\ SF_vars(SteadyTimeout)

-----------------------------------------------------------------------------
(* Properties *)

\* Once the stream and the window are steady the texture gets the size of the
\* frames, or of the widget where that is smaller, and keeps it, whatever larger
\* frames came before ("Resize texture size depend on max received frame size
\* after last update", ControllerWnd.cpp:47).
TextureAdapts == <>[](texture = Smaller(widget, source.size))

\* The window comes to show what the agent's screen shows, although frames are
\* lost on the way, before the sink, before the slot and between two paints.
PictureArrives == <>[](painted = source.picture)

\* The window never goes back to an older picture, nor to an empty texture after
\* one was shown, when paints and frames overlap and textures are replaced.
NeverBackwards == [][painted' >= painted]_vars
=============================================================================
