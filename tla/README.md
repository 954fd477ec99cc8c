# A TLA+ model of RemoteController

RemoteController is a remote desktop: a **match server** (`src/match_server`)
gives every client that connects an id and pairs two of them on request, and a
**client** (`src/client`) then sets up a WebRTC connection with its partner
over the server and becomes its *agent* (shares the screen, obeys the input) or
its *controller* (shows the screen, sends the input). This directory models both
programs in TLA+, checks the models with TLC on small instances, and proves with
TLAPS, for every value of the constants, what the server, the client processes,
the negotiation, the input and the video path promise.

`PROJECT.json` lists, for every definition that models code, the lines it stands
for, and all runs, mutated definitions, findings, hazards and theorems.

## 1. Inventory

| Component | State | Operations | Interacts with |
|---|---|---|---|
| `IdAllocator` (Server.cpp) | one flag per serial number | `AllocateId`, `ReleaseId` | called by `Server` |
| `Server` (Server.cpp) | map id → session (owning), map id → partner (weak), outstanding accepts | accept, close, request, forward | callbacks from `Session` |
| `Session` (Session.cpp) | TLS stream, read buffer, body size | handshake, read header, read body, write | asio handlers of one `io_context` thread |
| `MatchClient` | TLS socket, collected bytes, static size | connect, send, collect, dispatch | the server's frames; Qt signals to `Application` and the RTC client |
| `Application`, `MatchWnd` | control state, request button, id label | request, reply, remote request, ready, error, finish | user, `MatchClient`, `Agent`/`Controller` |
| `Agent`, `Controller` | their RTC client, capture timer or window | `Init`, connected, disconnected, input slots | `Application`, RTC client, window or display |
| `RtcClient`, `AgentClient`, `ControllerClient` | peer connection, data channel, candidate buffer | descriptions, candidates, channel messages | WebRTC library thread (queued signals), `MatchClient` |
| `ControllerWnd`, `XControl` | what the user holds; what the agent's X display holds | mouse and key events; fake events | Qt, data channel, X11 |
| Video path: `Agent`, `VideoTrackSource`, `RtcVideoSink`, `RenderWidget` | frames on their way, last frame, largest frame, target size, texture | capture, decode, queue, timer, paint, resize | WebRTC, Qt timers, Qt event queue |
| `Logger` | none that is read | output | everything |

What is hard here, and what makes each component correct:

* **Server.** One thread, but every handler calls others in its middle: a write
  that fails closes a session inside a request of another one, closing may throw
  out of `io_context::run` (`std::stoi` of the empty id), and reading goes on
  after the handler that closed the session. Correct means: the pair map is a
  matching of sessions in the session map; serial numbers come back; the server
  listens whenever it has room; nothing is written to a session after its close;
  a session that falls silent does so by its own error only. Writes are
  synchronous: a client that does not read stops everybody, nothing else may.
* **Client processes.** Requests cross with replies, remote requests and
  departures, and the server forgets a pair as soon as one side disconnects,
  which is what a client does when it is ready. Correct means: one request at a
  time, a visible outcome, the role known before a description arrives, opposite
  roles, both sides ready in the end.
* **Frames.** TCP cuts the stream anywhere, the size is two bytes, the server's
  buffer is fixed. Correct means: what was written is delivered whole, in order,
  and without delay.
* **Negotiation.** The library's thread queues callbacks to the Qt thread, which
  mixes them with messages of the partner. Correct means: candidates reach the
  library once and in order, after a description, and none is left behind.
* **Remote input.** Press, release and move are separate messages, and either
  process learns of the connection in its own time. Correct means: the display
  holds what the user holds, clicks happen where the user pointed.
* **Video path.** Frames cross two threads and a network, may be lost before the
  sink and before the slot, and only the last of several is painted; the size of
  the texture follows through a timer and a paint that do not run in lockstep.
  Correct means: the window comes to show the screen, at the right size, and
  never goes back.

The list `hazards` of `PROJECT.json` names the line where each of these bites and
the properties that watch it.

## 2. The modules

| Module | Stands for | Extends or instantiates |
|---|---|---|
| `Matchmaking` | the promise of the server: users join, are paired, leave | |
| `MatchServer` | `IdAllocator`, `Server`, `Session` | implements `Matchmaking` |
| `Signalling` | client processes, their streams, the server | instantiates `MatchServer` |
| `Framing` | the frame format | |
| `SessionReader` | client → server bytes (`Session`) | `Framing` |
| `ReplyReader` | server → client bytes (`MatchClient::OnReadyRead`) | `Framing` |
| `Negotiation` | the promise of the two peers: described in turn, ready only when both are | |
| `RtcNegotiation` | two RTC clients from pairing to Ready | implements `Negotiation` |
| `RemoteInput` | window events to the agent's display | |
| `VideoPath` | the agent's screen to the texture of the controller's window | |
| `MCMatchServer`, `MCSignalling` | symmetry sets for TLC | the module they name |
| `MatchServerProofs` | theorems about `MatchServer` | `MatchServer`, `QueueLemmas` |
| `SignallingProofs` | theorems about `Signalling` | `Signalling`, `QueueLemmas`; instantiates `MatchServerProofs` |
| `QueueLemmas` | facts about sequences used as queues and as streams of frames, and about numbers | |
| `SessionReaderProofs`, `ReplyReaderProofs`, `RtcNegotiationProofs`, `RemoteInputProofs`, `VideoPathProofs` | theorems about the module they name | that module, `QueueLemmas` |

**MatchServer.** The state is one record, `server`, with a field per member of
the C++ objects. Each function of the code is an operator from such a record to
the next one, in the order of the calls, so a handler that closes a session in
its middle is the composition of the operators. `running` becomes false when an
exception leaves `io_context::run`; the operators called after that change
nothing. An action is one completion handler. Whatever the operating system
decides is free: whether the constructor of a session throws, which error an
operation ends with (`"closing"` is one of the three that close the session,
`"other"` any other), how each write ends, what a client sends. An id contains
99 random letters, so a client can name only an id that was told to its owner
(`told`) or none. `out` is what the last handler wrote; `told` and `closes` are
history variables that no guard of the code's decisions reads. `Online` and
`Partner` map a state to one of `Matchmaking`; a stopped server serves nobody.

**Signalling** uses the handlers of `MatchServer` as they are. A client is a
process with a socket, a button, a control state and a description of its peer;
`up` and `down` are the two directions of its stream. A stream takes `Capacity`
messages. A handler writes one message after the other, and the only thread of the
server stays in it until the last write returned: `server.out` is what it has still
to write, `WriteReturns` is the end of one write, and a full stream delays it until
the client reads, or is gone. A process that hangs does not read and does not go away. One
that ends may leave part of its output on the way; a write to it may succeed or
fail in either manner. The other effects of a handler take place when it begins:
no handler runs in between, so nobody can tell. An assertion that fails ends the
process and is recorded (`abortedByReply`, `abortedByRequest`).

**Framing, SessionReader, ReplyReader** work on bytes. A byte has `Base` values
instead of 256 and the buffer `READ_BUFFER_SIZE` 6 bytes instead of 4096, so that
both bytes of a size matter, the boundary of the buffer is reached, and so is the
size at which the two bytes wrap (16). `ReplyReader` lets every `readyRead` bring
any number of bytes; `Pass` is one pass of the loop of `OnReadyRead`, and
`Collect` the last of as many as there are bytes, which is when the loop is over.

**RtcNegotiation** has three sources of steps: the library (external: it ends
what was asked of it, finds candidates, finds a path between peers that described
themselves and of which one knows an address of the other), the queue of signals
from the library's thread, and the stream from the match server. `Init` of either
side may fail, as may every description, candidate and connection; each such
outcome counts as a fault. A description that the library refuses is answered all
the same when it is an offer, as the code does. The stream is a queue that stops
when either peer is ready, because a ready peer leaves the server; that this
queue brings the messages in order and after the role is what `Signalling` and
the readers show.

**RemoteInput** starts when the peers are connected and ends when the agent has
heard that the controller is gone. The data channel is ordered and the event
queue of the agent is first in first out, so one sequence stands for both; the
event that connects the agent's slots may come anywhere in it, and messages
before it are lost. The controller, too, learns of the connection and of the
channel by two events in either order; input in between uses a null pointer and
ends it. `untold` holds the inputs whose last change the agent cannot know:
refused by the channel, lost with it or before the slots, released while another
window had the focus, or part of a double click, which the agent replays as a
click. For all others the promise is exact. `at` in a button message and
`pressed` in the agent are history.

**VideoPath** numbers the pictures of the agent's screen; a frame is a picture
with a size. Width and height are apart, as in the code. Between the capture
timer and the texture are the wire, the sink, the queue to the Qt thread, the
slot, which is connected only when the controller heard of the connection, and
the paint. Frames in `wire` and `queue` are bounded by `MaxQueue`; the program
does not bound them.

Definitions whose comment says *Slip* are used by no action. They are the code
with a plausible mistake in it; replacing the definition that follows with one
of them makes TLC find the property violated that `PROJECT.json` names with it.

## 3. The runs

`tlc -workers 2 -config X.cfg M`; the times are for two workers.

| Run | Configuration | Shows |
|---|---|---|
| `server_limit` | `MCMatchServerLimit.cfg`, 2 serials, 4 connections (173 000 states, 93 s) | at the limit, with every error: types, always listening while there is room, one chain of accepts, serial numbers held by one live session, at most two closes, the process stops only after the numbers ran out |
| `server_pairs` | `MCMatchServerPairs.cfg`, 3 serials, 3 connections (43 000, 60 s) | requests against failing writes: the pairs are a matching, stay until a close, a positive reply means that the two were free and are now each other's partner, or the one asked for was closed in that handler, nothing goes to a closed session, silence is a session's own error, `Matchmaking` is implemented |
| `signalling_race` | `MCSignallingRace.cfg`, 3 clients of which one may leave, streams of 2 (1 600 000, 70 s) | one request at a time, role before description, opposite roles of two peers that have each other's description, and until a session was closed of all that took one, the assertions hold until then |
| `signalling_live` | `MCSignallingLive.cfg`, 2 clients of which one may leave or hang, streams of 1 (10 000, 72 s) | every write returns unless its client hangs, a request has a visible outcome, a role becomes ready |
| `frames_to_server`, `frames_to_client` | `SessionReader.cfg`, `ReplyReader.cfg` (1 s each) | frames arrive whole, in order, and are not held back; to the server up to the first that is too long |
| `negotiation` | `RtcNegotiation.cfg`, 2 candidates each, 2 faults (112 000, 8 s) | candidates once, in order, none skipped or stuck; both ready unless something failed; `Negotiation` is implemented |
| `remote_input` | `RemoteInput.cfg`, 4 user events, 1 refusal (594 000, 32 s) | the display mirrors the window, buttons in place, releases arrive |
| `video` | `VideoPath.cfg`, sizes up to 2, 2 changes, queues of 2 (266 000, 18 s) | the window comes to show the screen at the right size and never goes back |
| `assert_agent`, `assert_controller`, `frames_too_long` | the finding runs | see section 5 |

**Bounds, and why they are enough.** Two serial numbers are the fewest that have
both an ordinary number and the last one, which is never released; four
connections reach the empty id, its exception, and a number that is reused.
Pairing rules speak of a requester, a target and a third session that is or wants
to be the partner of one: three. Three clients are what a departure and a later
request by somebody else take. A stream of two messages is filled by a role and a
description, one of one message by every write; the assertion runs need no
blocking and have room for three. Body sizes below and at the buffer, one above,
and 16 to 18 around the wrap cover every branch of the size arithmetic in base
4. Two candidates have an order; two faults let a failure follow from another.
Four events hold a move, a press, a release and one more; one of the two buttons
is one the code passes on, the other one it does not. Two sizes per dimension
have a larger and a smaller one, two frames on their way an order, and two
changes allow a picture to be overtaken by a change of size. Identical sessions
and clients are a symmetry set; the runs with liveness properties use none. The
theorems of section 4 do not depend on any of these bounds.

**Deadlock** is not an error where the program may stop: the server after its
exception or when all its connections are used up, clients that have quit,
peers whose negotiation ended, users that do nothing more, and writers that wrote
their `MaxSent` messages (`CHECK_DEADLOCK FALSE`). `VideoPath` never stops and
is checked for deadlock.

**Fairness.**

* `Signalling`: weak fairness for a write that can return, for each client's
  stream messages and for its queued RTC event and connection (a Qt event loop
  serves both its socket and its posted events). Strong fairness for each
  client's server handlers: while the thread waits in a write no handler is
  enabled, and the `io_context` queue hands out completed operations in turn
  whenever it comes back. None for the user, for leaving, hanging, losing a
  connection, or for the callbacks of an assertion.
* `RtcNegotiation`: weak fairness for the library and both sources of the event
  loop; that the library finds a candidate and a path, or reports failure (a
  fault), is an assumption about WebRTC on a working network.
* `RemoteInput`: weak fairness for the event loops and the channel.
* `SessionReader`: weak fairness for the two read handlers.
* `VideoPath`: weak fairness for the event loops and the capture timer; strong
  fairness of `FrameDecoded`, as of the frames that meet a sink not all are lost,
  and of `SteadyTimeout`, as there are about thirty frames and paints between two
  timeouts, so that the timer does not find a paint pending each time. Timeouts
  without frame or paint in between are bounded by `MaxChanges`.
* `MatchServer` and `ReplyReader` are checked for safety only and state none.

## 4. What is proved

All theorems hold for every value of the constants that satisfies the named
assumptions of the module: a positive number of serial numbers and an empty id
that is no session (`MaxAssumption`, `NoIdAssumption`, and for `Signalling`
`ServerAssumption`); streams that take a message (`CapacityAssumption`) and nobody
that is no client (`NobodyAssumption`); natural bounds
(`BoundsAssumption`, in three modules); a cursor that is nowhere before the first
move, and keys that are not confused with buttons (`NoPositionAssumption`,
`KeysAssumption`); sizes that two bytes can hold (`SizesAssumption`) and a read
buffer smaller than the size at which two bytes wrap (`WrapAssumption`: 4096 and
65536 in the code, 6 and 16 in the runs). The theorems about `ReplyReader` have the
hypothesis `NoSizeWraps`, that no message to the client has a size that wraps: what
the server relays was read into the 4096 bytes of `m_anReadBuffer`, and its own
messages hold an id or nothing. No theorem uses fairness.

| Theorem | States | Says |
|---|---|---|
| `MatchServerProofs` | | |
| `Invariance` | `[]IInv` | the inductive invariant |
| `TypeCorrect` | `[]TypeOK` | maps are partial functions, every session filed under its own id |
| `AlwaysMatched` | `[]PairsMatched` | the pairs are a matching of sessions in the map |
| `NeverDeaf` | `[]ListeningWhileRoom` | room in the map means an accept is outstanding |
| `SerialsComeBack` | `[]NoSerialLeak` | a marked number below the last is held by a live session |
| `StopsOnlyExhausted` | `[]StopNeedsExhaustion` | stopping needs the last number to be used up |
| `ClosedStaysForgotten` | `[]ClosedIsForgotten` | a closed session never returns to a map |
| `StrongInvariance` | `[]StrongIInv` | the stronger inductive invariant |
| `NothingAfterClose` | `[]NoWriteAfterClose` | nothing is written to a closed session |
| `TwoClosesAtMost` | `[]ClosedAtMostTwice` | a session is closed twice at most |
| `AcceptsAreOneChain` | `[]OneAcceptChain` | while no session was closed twice: one accept while there is room, none at the limit |
| `NoSharedSerial` | `[]SerialsUnique` | while no session was closed twice: two sessions have two serial numbers |
| `PairsLastTheorem` | `PairsLastUntilClose` | a pair ends only by a close |
| `PositiveReplyTheorem` | `PositiveReplyMeansPaired` | success is told only by the handler of the request, which paired the two, both free before, or closed the one asked for |
| `SilentSessionsTheorem` | `SilentSessions` | sessions fall silent only by their own error |
| `Refinement` | `ImplementsPromise` | the server implements `Matchmaking` |
| `SignallingProofs` | | |
| `SignallingTyped` | `[]TypeOK` | streams, clients and server keep to their types |
| `OneRequestAlways` | `[]OneRequestAtATime` | one request under way at most, and a disabled button meanwhile |
| `RolesAlways` | `[]RolesInv` | the inductive invariant |
| `RoleComesFirst` | `[](Numbered => RoleBeforeDescription)` | the role comes before a description |
| `OppositeAlways` | `[](Numbered => PeersHaveOppositeRoles)` | who has each other's description is agent and controller |
| `AssertionsHoldTogether` | `[](Numbered => AssertionsNeedADeparture)` | the assertions hold until a session was closed |
| `NumbersSuffice` | `[]Numbered`, if `FewClients` | no session is given the empty id while the clients that ever come are no more than the serial numbers |
| `FewClientsAgree` | the three above without `Numbered`, if `FewClients` | so they get their roles right throughout |
| `Refinement` | `Server!ImplementsPromise` | the server implements `Matchmaking` among the client processes too |
| `RtcNegotiationProofs` | | |
| `Invariance`, `TypeCorrect` | `[]IInv`, `[]TypeOK` | the inductive invariant and the types |
| `CandidatesWait` | `[]WaitsOnlyForDescription` | candidates wait only for a description, or after an error |
| `AddedOnceInOrderHolds` | `[]AddedOnceInOrder` | candidates are added once, in the order they were found, faults or not |
| `NoneSkippedHolds` | `[]NoneSkipped` | without faults none is skipped on its way |
| `Refinement` | `ImplementsNegotiation` | the peers implement `Negotiation` |
| `RemoteInputProofs` | | |
| `Invariance`, `TypeCorrect` | `[]IInv`, `[]TypeOK` | the inductive invariant and the types |
| `MirrorsWindowTheorem` | `[]MirrorsWindow` | the display holds what the user holds |
| `ReplayedInPlaceTheorem` | `[]ReplayedInPlace` | buttons are replayed where the pointer was |
| `VideoPathProofs` | | |
| `Invariance`, `TypeCorrect` | `[]IInv`, `[]TypeOK` | the inductive invariant and the types |
| `NeverBackwardsTheorem` | `NeverBackwards` | the window never goes back |
| `SessionReaderProofs` | | |
| `WholeUntilTooLongHolds` | `[]WholeUntilTooLong` | whole and in order up to the first message the buffer cannot hold |
| `ShortMessagesArePrefix` | `[]DeliveredIsPrefix`, if every size fits the buffer | the documented frame is kept, which `frames_too_long` refutes without the condition |
| `ReplyReaderProofs` | | |
| `ResolvedInOrder` | `[]ResolvedIsPrefix`, if `NoSizeWraps` | what the client resolves is what was written, whole and in order |
| `NothingStaysInTheBuffer` | `[]NothingHeldBack`, if `NoSizeWraps` | no message that arrived is left in the buffer |

*The server.* `IInv` is `Holds(server)`: the parts are predicates of a record,
so that they can be stated of the intermediate results of a handler too. The
parts need each other: that closing erases the right entries needs the matching;
that closing makes room only at the size where accepting resumes needs the map to
be finite and to change by at most one; that a number has a holder needs sessions
filed under their own ids; that a closed session stays forgotten needs every
session in the map or closed to have been constructed, and a new one to be fresh.
For the functions at the bottom (`OnSessionClose`, `InitSession`) a relation
(`IsCloseOf`, `IsInitOf`) first lists every field of the result; one lemma per
part then shows that the part survives. Above them, `SendMessage`, the request,
the forwarding, the acceptance and the completion handlers keep `Holds` by
composition, and the theorem has one step per action of `Next`.

The second part of the module adds `Strong`, which ties what is outstanding to what
happened: a session with a serial number is in the map until it is closed; one
that was closed twice has no operation left; before its handshake nobody knows a
session; what is written goes to open sessions; a serial number in use is marked,
and its holder's alone, unless a session was closed twice. `Tidy` is all of it
but the chain of accepts, which the handler of an accept breaks and restores.

For the action properties and the refinement every handler is brought into one
of three forms: the maps only shrink, by closes (`Shrinks`); two sessions are
paired first and then the maps shrink (`PairedBy`); a session is added (`Adds`).
Only the second writes a positive reply (`ReplyIsAsked`), and what it leaves of
the pair is what `Grants` says (`RequestGrants`). The target need not have been told:
a write to it that fails with an unusual error changes nothing, and the reply is sent.
The theorems on the refinement show that the first is a departure or nothing, the second
a pairing, a departure, or nothing when the pair is undone at once, and the third
a join, which is all that `Matchmaking` allows.

*The client processes.* `SignallingProofs` uses the server as a whole. An instance of
`MatchServerProofs` brings its lemmas; its operators equal those of the instance in
`Signalling`, and one lemma per handler says what a request, a description or an end
does: nothing but a refusal (`Refused`), a new pair and a message to each
(`Matched`), one message to the partner (`Forwarded`), fewer pairs after a close
(`Closes`), a new session (`Opens`). `Base` has the types, the server's own
invariant, at most one session per client, and that what is still to be written is
for sessions that exist.

A request is in the stream to the server, or its reply is yet to be written, or the
reply is in the stream back, or there is none. `OneOf` says that at most one of the
three sets is not empty, that it has one element, and that the button is then
disabled; sets that only get smaller (`Fewer`) keep it so.

Roles are harder, because the message that gives one and the descriptions that
follow it are in different streams at different times. The invariant looks ahead:
`Coming[c]` is all that `c` is still to read, its stream and what the server has
yet to write, and nothing if it is gone. Whether a message is written yet, or read
yet, then makes no difference: `Will(.., d, r)` says that `c` has, or will have
when it takes the description, the description of `d` while it is an `r`, and
`Ends(.., r)` that it is an `r` after all it is still to read. `Sound` says of
every `Coming` that a role is there before any description, and `Senders` that
descriptions carry the name of their writers, who have a role. `Apart` has
three parts, each of which is inductive with the others only: two clients do not
take each other's description in the same role; a partner that takes a
description does not end in the role of the other; and two partners, as long as no
session was closed or neither is gone, do not end in the same role. The first is
what is wanted, the second gives it when a description is forwarded, the third
gives the second. It holds for a new pair because the two are given different
roles: a client that had one before does not outlive the message (an assertion
fails), and of a client that had none nobody has heard. `PartnersKnow` says that who
has a partner was told so. `Faithful` is about the time before the first close: then
whoever has a role has a partner, and each description is that of the partner. Most
steps only lessen what is to come (`Lessens`), which keeps all of it.

All of it holds only until a session is given the empty id (`Numbered`): that id is
the same for all who get it, the map has one entry for them, and a request of a
session that is not the one in the map would be granted to the other. The numbers
run out only after the last was used (`StopsOnlyExhausted`), and by a
pigeonhole argument not before there were more clients than numbers, 100 in the
code (`NumbersSuffice`): a marked number belongs to a session, and each client has
one at most. `Numbered` speaks of all sessions that ever were, so once it is false
it stays false (`NumberedBefore`).

The refinement follows from the same forms. Where no handler of the server runs, it
serves whom it served. A handler in `Closes` is a departure or changes nothing
(`CloseIsLeaving`), one in `Opens` a join (`AddingIsJoining`), one in `Matched` a
pairing, a departure, or nothing when the pair is undone at once
(`MatchingIsPairing`); a refusal or a forwarded description changes no map. These
lemmas are those the refinement in `MatchServerProofs` rests on. It needs no
`Numbered`, only `Base`.

*The negotiation.* A step changes one peer. `Allowed`, `Posts` and `Sends` say
what its new record, and what it posts and sends, must satisfy; `StepKeeps` shows
once that the invariant then holds again, and `StepMaps` that the step is one of
`Negotiation`; one lemma per action shows the three. The invariant says what an
event in a queue and a message on the way tell of the peers (a success tells that
the own description is there, a connection that both are), so that no peer gets
ready early whatever crosses.

Candidates need more (`OrderInvariance`), because one overtakes another if a peer
ever emptied its buffer late, or twice. Three facts exclude it. There is at most one
description on its way: it is being set, or set and its success queued, or in the
stream (`OneAtATime`). Which type it has and where it goes follows from the state of
the two peers (`Turns`, `Roles`), so a peer that has one of the other gets no more. And
for the candidates of either side there are two thresholds (`Path`): those up to the
first one are added or buffered, those up to the second are in the stream, in this
order, and the others are in the queue of their finder. Handing a candidate over
moves a threshold by one; a description moves the whole buffer, which precedes all
that was added later. Without faults nothing is missing below the thresholds
(`Covers`), with them the order still ascends (`Ascends`).

*The input.* `MirrorsWindow` speaks of a queue that was replayed, the invariant of
one that was not: for every input that is not in `untold` the last queued message
about it, or the display when there is none, agrees with the window (`Tells`);
for every queued button the last move before it, or the cursor, is where the
pointer was (`At`). `QueueLemmas` says what becomes of "the last element before
place *n* that is in *S*" when a queue grows, is taken from and is cut.

*The video path.* `Timeline`: the screen, the wire, the queue, the last frame and
the texture hold pictures in the order of their capture.

*The reader.* Sizes are bytes and bytes follow bytes, so where a frame begins
depends on all that was read before. The invariant has a function `mark` that names,
for every message not handed on yet, the place in `wire` before its first byte, which
is negative while its header was read and its body was not. `Marks` says that at these places the
wire holds the frames byte for byte, and `InStep` that the reader is at the first of
them, until it took the last message before one that is too long; from there on
the invariant claims nothing. Reading moves every mark by what was read, writing adds
one behind the last. `SizeOfHeader` shows that the two bytes of a header
give back the size as long as it is below the wrap, which `WrapAssumption` makes of
every message that the buffer can hold.

*The reply reader.* `Follows` says the same of the client: what it holds and what has
not arrived make one stream, at whose marks the frames of the messages not resolved
are. So it does not matter where the stream was cut: a piece that arrives moves from
the second part of the stream to the first (`CutAndConcat`). `HeaderPass` and
`MessagePass` show that a pass of the loop keeps it. The invariant also says that the
loop is over (`Ended`), which the client needs: it looks at its buffer only when more
arrives. A pass that does something takes a byte at least, so after as many passes as
there were bytes nothing is left to do (`PassKeeps`, `CollectKeeps`).
`Collect` is a recursive function, and the library's theorems about induction take an
operator as a parameter, which no installed prover instantiates. `LeastNumber`, a
consequence of the theorem that every set of numbers has a least element, is used
instead: of the passes that break what is claimed there would be a first one.

*Only model-checked.* Liveness under fairness and `ENABLED` are out of the
prover's reach: `WritesReturn`, `RequestAnswered`, `RoleBecomesReady`,
`AllDelivered`, `BothReady`, `ReleasesArrive`, `TextureAdapts` and
`PictureArrives`. All other invariants and action properties of the passing runs are
theorems.

## 5. Findings

* `assert_agent`: the assertion at `Application.cpp:96` can fail. The controller
  is ready first and disconnects; the server dissolves the pair; the agent, not
  yet ready, is online without a partner, and a third client may request it.
* `assert_controller`: the assertion at `Application.cpp:85` can fail. Only the
  button of the requester is disabled; an agent whose partner left can confirm a
  request of its own, which is granted.
* `frames_too_long`: a body longer than `READ_BUFFER_SIZE` is cut by
  `asio::buffer` without an error (`Session.cpp:66`), and its rest is read as the
  next header, unlike the frame documented at `Session.cpp:47`.

More behaviours are in the models, but contradict no line of the repository and
are listed as hazards only: a session whose operation fails with an unusual error
stays in the map until somebody's write to it fails; a client that stops reading
stops the server for everybody; input before the data channel arrived uses a null
pointer; `ErrorHappen` of the RTC client reaches nobody; a refused offer is
answered by an offer; when the agent ends its display keeps what was held.

## 6. Not modelled, and why

* The WebRTC library, Qt, asio and X11 are external: the models have what the code
  relies on, and mark it.
* `Logger` is output that nothing reads. Settings, the clipboard, the layout of
  windows, the command line and certificates have no state that changes.
* The pixels of a picture: capturing, scaling, colour conversion and shaders are
  data transformations inside libraries, and the padding of image lines
  (`ControllerClient.cpp:23`) is a hazard without a property for that reason. The
  frame counter in the title and the rounding of a ratio to a pixel are left out.
* Two X displays with different keyboard layouts: `XKeysymToKeycode` finds the key
  the user pressed.
* Candidates in `Signalling`: they are forwarded by the same handler as
  descriptions, change no state of a client process that `Signalling` has, and
  are followed to the library in `RtcNegotiation`.
* The text of session descriptions and candidates. A text that cannot be parsed
  is a fault of `RtcNegotiation`.
