--------------------------- MODULE VideoPathProofs ---------------------------
(***************************************************************************)
(* Proofs about VideoPath, for every size of frames and of queues and for  *)
(* every number of changes: the type invariant, and that the window never  *)
(* goes back.  That is inductive only together with the order of the       *)
(* frames that are on their way.                                           *)
(***************************************************************************)
EXTENDS VideoPath, QueueLemmas

\* Frames that were captured in the order of the queue.
Ordered(q) == \A i, j \in DOMAIN q : i < j => q[i].picture <= q[j].picture

Older(q, n) == \A k \in DOMAIN q : q[k].picture <= n
Newer(q, n) == \A k \in DOMAIN q : n <= q[k].picture

\* Whatever is further on its way is older.
Timeline == /\ source.picture <= changes + 1
            /\ Ordered(wire) /\ Older(wire, source.picture)
            /\ Ordered(queue) /\ Older(queue, source.picture)
            /\ \A k \in DOMAIN queue : Newer(wire, queue[k].picture)
            /\ Newer(queue, frame.picture) /\ Newer(wire, frame.picture)
            /\ frame.picture <= source.picture
            /\ painted <= frame.picture

IInv == TypeOK /\ Timeline

\* Pictures and sizes are numbers.
LEMMA FrameFields ==
  ASSUME NEW f \in Frames \cup {NoFrame}
  PROVE  /\ f.picture \in Nat /\ f.picture <= MaxChanges + 1
         /\ f.size \in [Dims -> 0..MaxSize]
         /\ f \in Frames => f.picture \in Nat \ {0} /\ f.size \in Sizes
BY BoundsAssumption DEF Frames, NoFrame, None, Sizes

\* A frame that is captured last comes last.
LEMMA OrderedAppend ==
  ASSUME NEW q \in Seq(Frames), NEW e \in Frames, Ordered(q), Older(q, e.picture),
         NEW new, new = Append(q, e)
  PROVE  /\ new \in Seq(Frames) /\ Len(new) = Len(q) + 1
         /\ Ordered(new)
         /\ \A n \in Nat : Older(q, n) /\ e.picture <= n => Older(new, n)
         /\ \A n \in Nat : Newer(q, n) /\ n <= e.picture => Newer(new, n)
<1>1. /\ new \in Seq(Frames) /\ Len(new) = Len(q) + 1 /\ Len(q) \in Nat
      /\ DOMAIN q = 1..Len(q) /\ DOMAIN new = 1..Len(q) + 1
      /\ \A k \in DOMAIN new : IF k \in DOMAIN q THEN new[k] = q[k]
                                                 ELSE k = Len(q) + 1 /\ new[k] = e
  BY AppendElements, QueueElements
<1>2. Ordered(new)
  <2>1. \A k \in DOMAIN q : q[k].picture \in Nat
    BY QueueElements, FrameFields
  <2> QED
    BY <1>1, <2>1, FrameFields DEF Ordered, Older
<1>3. \A n \in Nat : Older(q, n) /\ e.picture <= n => Older(new, n)
  BY <1>1 DEF Older
<1>4. \A n \in Nat : Newer(q, n) /\ n <= e.picture => Newer(new, n)
  BY <1>1 DEF Newer
<1> QED
  BY <1>1, <1>2, <1>3, <1>4

\* What is left of a queue whose first frame is taken.
IsTail(new, q) == /\ Head(q) \in Frames /\ 1 \in DOMAIN q /\ Head(q) = q[1]
                  /\ new \in Seq(Frames) /\ Len(new) = Len(q) - 1
                  /\ Ordered(new) /\ Newer(new, Head(q).picture)
                  /\ \A k \in DOMAIN new : \E l \in DOMAIN q : new[k] = q[l]

\* The frame that is taken is the oldest.
LEMMA OrderedTail ==
  ASSUME NEW q \in Seq(Frames), q # << >>, Ordered(q), NEW new, new = Tail(q)
  PROVE  IsTail(new, q)
<1>1. /\ Head(q) \in Frames /\ 1 \in DOMAIN q /\ Head(q) = q[1]
      /\ new \in Seq(Frames) /\ Len(new) = Len(q) - 1 /\ Len(q) \in Nat \ {0}
      /\ DOMAIN new = 1..Len(q) - 1 /\ DOMAIN q = 1..Len(q)
      /\ \A k \in DOMAIN new : k + 1 \in DOMAIN q /\ new[k] = q[k + 1]
  BY TailElements, QueueElements
<1>2. Ordered(new) /\ Newer(new, q[1].picture)
  BY <1>1 DEF Ordered, Newer
<1> QED
  BY <1>1, <1>2 DEF IsTail

\* Sizes stay within the bound.
LEMMA SizeBounds ==
  ASSUME NEW s \in [Dims -> 0..MaxSize], NEW t \in [Dims -> 0..MaxSize]
  PROVE  /\ Larger(s, t) \in [Dims -> 0..MaxSize]
         /\ Smaller(s, t) \in [Dims -> 0..MaxSize]
         /\ None \in [Dims -> 0..MaxSize]
BY BoundsAssumption DEF Larger, Smaller, None

\* A size of the widget is one of those.
LEMMA WidgetBounds == ASSUME NEW s \in Sizes PROVE s \in [Dims -> 0..MaxSize]
BY BoundsAssumption DEF Sizes

\* At the start nothing is on its way.
LEMMA InitInv == Init => IInv
<1> SUFFICES ASSUME Init PROVE IInv
  OBVIOUS
<1>1. source \in Frames /\ source.picture = 1
  BY BoundsAssumption DEF Init, Frames
<1>2. None \in [Dims -> 0..MaxSize]
  BY BoundsAssumption DEF None
<1>3. TypeOK
  <2>1. << >> \in Seq(Frames) /\ Len(<< >>) = 0
    OBVIOUS
  <2>2. /\ wire \in Seq(Frames) /\ Len(wire) = 0
        /\ queue \in Seq(Frames) /\ Len(queue) = 0
    BY <2>1 DEF Init
  <2>3. /\ 0 <= MaxQueue /\ 0 \in 0..MaxChanges + 1 /\ 0 \in 0..MaxChanges
    BY BoundsAssumption
  <2>4. /\ max \in [Dims -> 0..MaxSize] /\ target \in [Dims -> 0..MaxSize]
        /\ texture \in [Dims -> 0..MaxSize]
    BY <1>2 DEF Init
  <2>5. /\ widget \in Sizes /\ controller \in States /\ update \in BOOLEAN
        /\ frame = NoFrame /\ painted = 0 /\ changes = 0
    BY DEF Init, States
  <2> QED
    BY <1>1, <2>2, <2>3, <2>4, <2>5 DEF TypeOK
<1>4. NoFrame.picture = 0
  BY DEF NoFrame
<1>5. Timeline
  BY <1>1, <1>4 DEF Init, Timeline, Ordered, Older, Newer
<1> QED
  BY <1>3, <1>5 DEF IInv

\* What changes none of the pictures on their way keeps their order.
LEMMA SameTimeline ==
  ASSUME IInv, source' = source, wire' = wire, queue' = queue, frame' = frame,
         changes' \in Nat, changes' >= changes, painted' \in {painted, frame.picture}
  PROVE  Timeline'
<1>1. /\ Timeline /\ source.picture \in Nat /\ changes \in Nat
      /\ frame.picture \in Nat /\ painted \in Nat
  BY FrameFields, BoundsAssumption DEF IInv, TypeOK
<1>2. source'.picture <= changes' + 1 /\ frame'.picture <= source'.picture
  BY <1>1 DEF Timeline
<1>3. painted' <= frame'.picture
  BY <1>1 DEF Timeline
<1> QED
  BY <1>1, <1>2, <1>3 DEF Timeline

\* The user of the agent, or the bandwidth, changes what is captured.
LEMMA SourceChanges ==
  ASSUME IInv, ScreenChanges \/ SizeChanges
  PROVE  IInv' /\ painted' = painted
<1>1. /\ TypeOK /\ Timeline /\ source \in Frames
      /\ source.picture \in Nat \ {0} /\ changes \in Nat /\ frame.picture \in Nat
      /\ \A k \in DOMAIN wire : wire[k].picture \in Nat
      /\ \A k \in DOMAIN queue : queue[k].picture \in Nat
  <2>1. TypeOK /\ Timeline /\ source \in Frames /\ frame \in Frames \cup {NoFrame}
        /\ wire \in Seq(Frames) /\ queue \in Seq(Frames)
    BY DEF IInv, TypeOK
  <2>2. source.picture \in Nat \ {0} /\ changes \in Nat /\ frame.picture \in Nat
    BY <2>1, FrameFields, BoundsAssumption DEF TypeOK
  <2>3. /\ \A k \in DOMAIN wire : wire[k] \in Frames
        /\ \A k \in DOMAIN queue : queue[k] \in Frames
    BY <2>1, QueueElements
  <2> QED
    BY <2>1, <2>2, <2>3, FrameFields
<1>2. /\ changes < MaxChanges /\ changes' = changes + 1
      /\ UNCHANGED <<wire, queue, controller, widgetVars>>
  BY DEF ScreenChanges, SizeChanges, Change
<1>3. /\ source' \in Frames /\ source'.picture \in Nat
      /\ source.picture <= source'.picture /\ source'.picture <= source.picture + 1
  <2>1. CASE ScreenChanges
    <3>1. source' = [picture |-> source.picture + 1, size |-> source.size]
      BY <1>1, <2>1 DEF ScreenChanges, Frames
    <3>2. source.picture + 1 \in 1..MaxChanges + 1
      BY <1>1, <1>2, BoundsAssumption DEF Timeline
    <3> QED
      BY <1>1, <3>1, <3>2 DEF Frames
  <2>2. CASE SizeChanges
    <3>1. PICK size \in Sizes : source' = [picture |-> source.picture, size |-> size]
      BY <1>1, <2>2 DEF SizeChanges, Frames
    <3> QED
      BY <1>1, <3>1 DEF Frames
  <2> QED
    BY <2>1, <2>2
<1>4. TypeOK'
  BY <1>1, <1>2, <1>3, BoundsAssumption DEF TypeOK, widgetVars
<1>5. Older(wire', source'.picture) /\ Older(queue', source'.picture)
  BY <1>1, <1>2, <1>3 DEF Timeline, Older
<1>6. source'.picture <= changes' + 1 /\ frame'.picture <= source'.picture
  BY <1>1, <1>2, <1>3 DEF Timeline, widgetVars
<1>7. Timeline'
  BY <1>1, <1>2, <1>5, <1>6 DEF Timeline, widgetVars
<1> QED
  BY <1>2, <1>4, <1>7 DEF IInv, widgetVars

\* A frame is captured, lost on the way, or decoded.
LEMMA WireSteps ==
  ASSUME IInv, CaptureFrame \/ FrameLost \/ FrameDecoded
  PROVE  IInv' /\ painted' = painted
<1>1. /\ TypeOK /\ Timeline /\ source \in Frames /\ frame \in Frames \cup {NoFrame}
      /\ wire \in Seq(Frames) /\ queue \in Seq(Frames)
      /\ Len(wire) \in Nat /\ Len(queue) \in Nat
      /\ source.picture \in Nat /\ frame.picture \in Nat
      /\ \A k \in DOMAIN queue : queue[k].picture \in Nat
  BY FrameFields, QueueElements DEF IInv, TypeOK
<1>2. UNCHANGED <<source, controller, widgetVars, changes>>
  BY DEF CaptureFrame, FrameLost, FrameDecoded
<1>3. ASSUME CaptureFrame PROVE IInv'
  <2>1. /\ Len(wire) < MaxQueue /\ wire' = Append(wire, source)
        /\ queue' = queue
    BY <1>3 DEF CaptureFrame, SendFrame
  <2>2. /\ wire' \in Seq(Frames) /\ Len(wire') = Len(wire) + 1 /\ Ordered(wire')
        /\ \A n \in Nat : Older(wire, n) /\ source.picture <= n => Older(wire', n)
        /\ \A n \in Nat : Newer(wire, n) /\ n <= source.picture => Newer(wire', n)
    BY <1>1, <2>1, OrderedAppend DEF Timeline
  <2>3. Older(wire', source.picture) /\ Newer(wire', frame.picture)
    BY <1>1, <2>2 DEF Timeline
  <2>4. \A k \in DOMAIN queue : Newer(wire', queue[k].picture)
    BY <1>1, <2>2 DEF Timeline, Older
  <2>5. TypeOK'
    BY <1>1, <1>2, <2>1, <2>2, BoundsAssumption DEF TypeOK, widgetVars
  <2>6. Timeline'
    BY <1>1, <1>2, <2>1, <2>2, <2>3, <2>4 DEF Timeline, widgetVars
  <2> QED
    BY <2>5, <2>6 DEF IInv
<1>4. ASSUME wire # << >>, wire' = Tail(wire)
      PROVE  /\ wire' \in Seq(Frames) /\ Len(wire') <= MaxQueue
             /\ Ordered(wire') /\ Older(wire', source.picture)
             /\ \A k \in DOMAIN queue : Newer(wire', queue[k].picture)
             /\ Newer(wire', frame.picture)
             /\ Head(wire) \in Frames /\ Newer(wire', Head(wire).picture)
             /\ Head(wire).picture <= source.picture
             /\ \A k \in DOMAIN queue : queue[k].picture <= Head(wire).picture
             /\ frame.picture <= Head(wire).picture
  <2>0. PICK new : new = Tail(wire)
    OBVIOUS
  <2>3. /\ Head(wire) \in Frames /\ 1 \in DOMAIN wire /\ Head(wire) = wire[1]
        /\ new \in Seq(Frames) /\ Len(new) = Len(wire) - 1 /\ Ordered(new)
        /\ Newer(new, Head(wire).picture)
        /\ \A k \in DOMAIN new : \E l \in DOMAIN wire : new[k] = wire[l]
    <3>1. IsTail(new, wire)
      BY <1>1, <1>4, <2>0, OrderedTail DEF Timeline
    <3> QED
      BY <3>1 DEF IsTail
  <2>1. /\ Head(wire) \in Frames /\ 1 \in DOMAIN wire /\ Head(wire) = wire[1]
        /\ wire' \in Seq(Frames) /\ Len(wire') = Len(wire) - 1 /\ Ordered(wire')
        /\ Newer(wire', Head(wire).picture)
        /\ \A k \in DOMAIN wire' : \E l \in DOMAIN wire : wire'[k] = wire[l]
    BY <1>4, <2>0, <2>3
  <2>2. Len(wire') <= MaxQueue
    BY <1>1, <2>1, BoundsAssumption DEF TypeOK
  <2> QED
    BY <1>1, <2>1, <2>2 DEF Timeline, Older, Newer
<1>5. ASSUME FrameLost PROVE IInv'
  <2>1. wire # << >> /\ wire' = Tail(wire) /\ queue' = queue
    BY <1>5 DEF FrameLost
  <2>2. TypeOK'
    BY <1>1, <1>2, <1>4, <2>1 DEF TypeOK, widgetVars
  <2>3. Timeline'
    BY <1>1, <1>2, <1>4, <2>1 DEF Timeline, widgetVars
  <2> QED
    BY <2>2, <2>3 DEF IInv
<1>6. ASSUME FrameDecoded PROVE IInv'
  <2>1. /\ wire # << >> /\ wire' = Tail(wire)
        /\ Len(queue) < MaxQueue /\ queue' = Append(queue, Head(wire))
    BY <1>6 DEF FrameDecoded, OnFrame
  <2>2. PICK e : e = Head(wire)
    OBVIOUS
  <2>3. e \in Frames /\ e.picture \in Nat /\ Older(queue, e.picture) /\ Ordered(queue)
    BY <1>1, <1>4, <2>1, <2>2, FrameFields DEF Timeline, Older
  <2>4. /\ queue' \in Seq(Frames) /\ Len(queue') = Len(queue) + 1 /\ Ordered(queue')
        /\ \A n \in Nat : Older(queue, n) /\ e.picture <= n => Older(queue', n)
        /\ \A n \in Nat : Newer(queue, n) /\ n <= e.picture => Newer(queue', n)
    BY <1>1, <2>1, <2>2, <2>3, OrderedAppend
  <2>5. \A k \in DOMAIN queue' : queue'[k] = e \/ (k \in DOMAIN queue /\ queue'[k] = queue[k])
    BY <1>1, <2>1, <2>2, <2>3, AppendElements
  <2>6. Older(queue', source.picture) /\ Newer(queue', frame.picture)
    BY <1>1, <1>4, <2>1, <2>2, <2>4 DEF Timeline
  <2>7. \A k \in DOMAIN queue' : Newer(wire', queue'[k].picture)
    BY <1>4, <2>1, <2>2, <2>5
  <2>8. TypeOK'
    BY <1>1, <1>2, <1>4, <2>1, <2>4, BoundsAssumption DEF TypeOK, widgetVars
  <2>9. Timeline'
    BY <1>1, <1>2, <1>4, <2>1, <2>4, <2>6, <2>7 DEF Timeline, widgetVars
  <2> QED
    BY <2>8, <2>9 DEF IInv
<1> QED
  BY <1>2, <1>3, <1>5, <1>6 DEF widgetVars

\* The facts about a state that the steps of the Qt thread start from.
LEMMA Facts ==
  ASSUME IInv
  PROVE  /\ TypeOK /\ Timeline /\ source \in Frames /\ frame \in Frames \cup {NoFrame}
         /\ widget \in Sizes /\ widget \in [Dims -> 0..MaxSize]
         /\ max \in [Dims -> 0..MaxSize] /\ target \in [Dims -> 0..MaxSize]
         /\ queue \in Seq(Frames) /\ Len(queue) \in Nat
         /\ source.picture \in Nat /\ frame.picture \in Nat
         /\ frame.picture <= MaxChanges + 1
         /\ painted \in Nat /\ painted <= frame.picture
         /\ changes \in Nat
         /\ \A k \in DOMAIN queue : queue[k] \in Frames /\ queue[k].picture \in Nat
<1>1. /\ TypeOK /\ Timeline /\ source \in Frames /\ frame \in Frames \cup {NoFrame}
      /\ widget \in Sizes /\ queue \in Seq(Frames) /\ changes \in Nat /\ painted \in Nat
      /\ max \in [Dims -> 0..MaxSize] /\ target \in [Dims -> 0..MaxSize]
  BY BoundsAssumption DEF IInv, TypeOK
<1>2. widget \in [Dims -> 0..MaxSize]
  BY <1>1, WidgetBounds
<1>3. \A k \in DOMAIN queue : queue[k] \in Frames
  BY <1>1, QueueElements
<1> QED
  BY <1>1, <1>2, <1>3, FrameFields, QueueElements DEF Timeline

\* The controller learns of the track and of the connection.
LEMMA ControllerSteps ==
  ASSUME IInv, OnRtcOnAddTrack \/ OnPeerConnected
  PROVE  IInv' /\ painted' = painted
<1>1. /\ UNCHANGED <<source, wire, queue, widget, frame, max, target, texture, painted,
                     changes>>
      /\ controller' \in States /\ update' \in BOOLEAN
  BY DEF OnRtcOnAddTrack, OnPeerConnected, widgetVars, States, IInv, TypeOK
<1>2. TypeOK'
  BY <1>1 DEF IInv, TypeOK
<1>3. Timeline'
  BY <1>1, Facts, SameTimeline
<1> QED
  BY <1>1, <1>2, <1>3 DEF IInv

\* A frame is taken from the queue, and shown unless the slot is not connected.
LEMMA FrameReceived ==
  ASSUME IInv, OnRtcFrameReceived
  PROVE  IInv' /\ painted' = painted
<1>1. /\ queue # << >> /\ queue' = Tail(queue)
      /\ UNCHANGED <<source, wire, controller, widget, target, texture, painted, changes>>
  BY DEF OnRtcFrameReceived
<1>2. PICK f : f = Head(queue)
  OBVIOUS
<1>3. \/ frame' = f /\ max' = Larger(max, f.size) /\ update' = TRUE
      \/ UNCHANGED <<frame, max, update>>
  BY <1>2 DEF OnRtcFrameReceived, UpdateData
<1>4. PICK new : new = Tail(queue)
  OBVIOUS
<1>5. /\ f \in Frames /\ 1 \in DOMAIN queue /\ f = queue[1]
      /\ new \in Seq(Frames) /\ Len(new) = Len(queue) - 1 /\ Ordered(new)
      /\ Newer(new, f.picture)
      /\ \A k \in DOMAIN new : \E l \in DOMAIN queue : new[k] = queue[l]
  <2>1. IsTail(new, queue)
    BY <1>1, <1>4, Facts, OrderedTail DEF Timeline
  <2> QED
    BY <1>2, <2>1 DEF IsTail
<1>6. queue' = new
  BY <1>1, <1>4
<1>7. /\ f.picture \in Nat /\ f.size \in [Dims -> 0..MaxSize]
      /\ frame.picture <= f.picture /\ f.picture <= source.picture
      /\ Newer(wire, f.picture)
  BY <1>5, Facts, FrameFields DEF Timeline, Older, Newer
<1>8. /\ Older(new, source.picture) /\ Newer(new, frame.picture)
      /\ \A k \in DOMAIN new : Newer(wire, new[k].picture)
      /\ Len(new) <= MaxQueue
  <2>1. Len(new) <= MaxQueue
    BY <1>5, Facts, BoundsAssumption DEF TypeOK
  <2> QED
    BY <1>5, <2>1, Facts DEF Timeline, Older, Newer
<1>9. /\ frame' \in Frames \cup {NoFrame} /\ max' \in [Dims -> 0..MaxSize]
      /\ update' \in BOOLEAN
  <2>1. Larger(max, f.size) \in [Dims -> 0..MaxSize]
    BY <1>7, Facts, SizeBounds
  <2> QED
    BY <1>3, <1>5, <2>1, Facts DEF TypeOK
<1>10. TypeOK'
  BY <1>1, <1>5, <1>6, <1>8, <1>9, Facts DEF TypeOK
<1>11. /\ Newer(new, frame'.picture) /\ Newer(wire, frame'.picture)
       /\ frame'.picture <= source.picture /\ painted <= frame'.picture
  BY <1>3, <1>5, <1>7, <1>8, Facts DEF Timeline
<1>12. Timeline'
  BY <1>1, <1>5, <1>6, <1>8, <1>11, Facts DEF Timeline
<1> QED
  BY <1>1, <1>10, <1>12 DEF IInv

\* The texture is made and resized, and the window gets another size.
LEMMA SizeSteps ==
  ASSUME IInv, initializeGL \/ SteadyTimeout \/ EarlyTimeout \/ Resize
  PROVE  IInv' /\ painted' = painted
<1>1. /\ UNCHANGED <<source, wire, queue, controller, frame, painted>>
      /\ texture' \in {texture, widget}
      /\ target' \in {target, Smaller(widget, max)} /\ max' \in {max, None}
      /\ changes' = changes \/ Change
      /\ widget' \in Sizes /\ update' \in BOOLEAN
  BY Facts DEF initializeGL, SteadyTimeout, EarlyTimeout, Timeout, ResizeTexture, Resize,
               Change, TypeOK
<1>2. changes' \in 0..MaxChanges /\ changes' >= changes
  BY <1>1, Facts, BoundsAssumption DEF Change, TypeOK
<1>3. /\ Smaller(widget, max) \in [Dims -> 0..MaxSize]
      /\ None \in [Dims -> 0..MaxSize]
  BY Facts, SizeBounds
<1>4. /\ target' \in [Dims -> 0..MaxSize] /\ max' \in [Dims -> 0..MaxSize]
      /\ texture' \in [Dims -> 0..MaxSize]
  BY <1>1, <1>3, Facts DEF TypeOK
<1>5. TypeOK'
  BY <1>1, <1>2, <1>4, Facts DEF TypeOK
<1>6. Timeline'
  BY <1>1, <1>2, Facts, SameTimeline
<1> QED
  BY <1>1, <1>5, <1>6 DEF IInv

\* The only step that changes the picture in the texture.
LEMMA PaintStep ==
  ASSUME IInv, paintGL
  PROVE  IInv' /\ painted' >= painted
<1>1. /\ UNCHANGED <<source, wire, queue, controller, widget, frame, max, changes>>
      /\ texture' \in {texture, target} /\ target' \in {target, None}
      /\ update' = FALSE /\ painted' = frame.picture
  BY DEF paintGL
<1>2. /\ target' \in [Dims -> 0..MaxSize] /\ texture' \in [Dims -> 0..MaxSize]
  BY <1>1, Facts, SizeBounds DEF TypeOK
<1>3. painted' \in 0..MaxChanges + 1 /\ painted' >= painted
  BY <1>1, Facts, BoundsAssumption
<1>4. TypeOK'
  BY <1>1, <1>2, <1>3, Facts DEF TypeOK
<1>5. Timeline'
  BY <1>1, Facts, SameTimeline
<1> QED
  BY <1>3, <1>4, <1>5 DEF IInv

\* Every step keeps the invariant, and none shows an older picture.
LEMMA NextInv == IInv /\ [Next]_vars => IInv' /\ [painted' >= painted]_vars
<1> SUFFICES ASSUME IInv, [Next]_vars
             PROVE  IInv' /\ [painted' >= painted]_vars
  OBVIOUS
<1>1. CASE UNCHANGED vars
  BY <1>1 DEF vars, IInv, TypeOK, Timeline, Ordered, Older, Newer
<1>2. painted \in Nat
  BY Facts
<1>3. CASE ScreenChanges \/ SizeChanges
  BY <1>2, <1>3, SourceChanges
<1>4. CASE CaptureFrame \/ FrameLost \/ FrameDecoded
  BY <1>2, <1>4, WireSteps
<1>5. CASE OnRtcOnAddTrack \/ OnPeerConnected
  BY <1>2, <1>5, ControllerSteps
<1>6. CASE OnRtcFrameReceived
  BY <1>2, <1>6, FrameReceived
<1>7. CASE initializeGL \/ SteadyTimeout \/ EarlyTimeout \/ Resize
  BY <1>2, <1>7, SizeSteps
<1>8. CASE paintGL
  BY <1>8, PaintStep
<1> QED
  BY <1>1, <1>3, <1>4, <1>5, <1>6, <1>7, <1>8 DEF Next

\* The frames between the screen of the agent and the texture are in the order in
\* which they were captured, in every behaviour.
THEOREM Invariance == Spec => []IInv
<1>1. IInv /\ [Next]_vars => IInv'
  BY NextInv
<1> QED
  BY <1>1, InitInv, PTL DEF Spec

\* The type invariant: queues within their bounds, sizes that fit.
THEOREM TypeCorrect == Spec => []TypeOK
<1>1. IInv => TypeOK
  BY DEF IInv
<1> QED
  BY <1>1, Invariance, PTL

\* UpdateData and paintGL: the window never goes back to an older picture or to an
\* empty texture, however many frames are queued, lost or overtaken by a paint.
THEOREM NeverBackwardsTheorem == Spec => NeverBackwards
<1>1. IInv /\ [Next]_vars => [painted' >= painted]_vars
  BY NextInv
<1> QED
  BY <1>1, Invariance, PTL DEF Spec, NeverBackwards

=============================================================================
