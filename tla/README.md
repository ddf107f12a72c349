# Vicon DataStream SDK: a verification project in TLA+

The repository is the client library of the Vicon DataStream, a network protocol that carries
motion capture frames from a Vicon server to applications. These modules model the parts of it
that have state and concurrency, TLC checks them on small instances, and TLAPS proves the most
important results for every value of the constants. File names below are relative to
`src/Vicon/CrossMarket/DataStream/`.

## 1. The system

| Component | Source | State | Operations |
|---|---|---|---|
| **VCGClient** | `ViconCGStreamClientSDK/CGClient.cpp` | routes (`m_pClients`), last frame ID of each, last static objects, frame buffer and its bound, requested types | Connect, the four callbacks, PollFrame(s), WaitFrame(s), SetBufferSize, ClearBuffer, SetRequestTypes, haptics, multicast |
| **VViconCGStreamClient** | `ViconCGStreamClient/ViconCGStreamClient.cpp` | one socket and its ClientThread, the settings with a "changed" flag each | setters, SetStreaming, RequestFrame, RequestNextFrame, ClientThread (ReadObjectEnums, WriteObjects, ReadObjects) |
| **VClient** | `ViconDataStreamSDKCore/CoreClient.cpp` | stream mode, cached frame, latest frame, flags of data groups, filters | Connect, Disconnect, GetFrame, SetStreamMode, SetBufferSize, Set...DataEnabled, filters, about a hundred getters |
| **VRetimingClient** | `ViconDataStreamSDKCore/RetimingClient.cpp` | an input and an output thread, their stop flags, `m_OutputWait` | Connect, Disconnect, StartOutput, StopOutput, WaitForFrame, UpdateFrame |
| **Retimer** | `ViconDataStreamSDKCore/RetimingCore.cpp` | the last two samples of each subject, the poses made of them | AddData, Predict, UpdateFrameAtTime, the getters of VRetimingClient |
| **CGStreamPostalService** | `ViconCGStreamClient/CGStreamPostalService.h` | a thread that writes the timing log | StartService, StopService, Post |
| wire format | `ViconCGStream/`, `../StreamCommon/` | a buffer and the offset in it | reading and writing of blocks and some seventy records |
| utilities | `ViconDataStreamSDKCoreUtils/` and others | an axis mapping | rotations, axis mappings, names, Bayer images |
| interfaces | `ViconDataStreamSDK_CPP/`, `ViconDataStreamSDK_C/` | a pointer each | results adapted, names cut to the caller's buffer, one call of the above per call |

How they interact. An application calls VClient (through the C++ or C interface). VClient makes no
thread of its own: it calls the VCGClient it was given at Connect. VCGClient has a
VViconCGStreamClient for each host name, all of one server ("routes"), each with a ClientThread that
reads frames off its socket and calls VCGClient back; under `m_ClientMutex` VCGClient drops the
frames another route has brought already and buffers the rest, and `m_NewFramesCondition` wakes the
callers of WaitFrame. In the other direction the setters of VCGClient go to every route, which
writes what changed between two reads. VRetimingClient is a second client of VClient: its input
thread calls GetFrame and the getters and feeds the retimer, its output thread retimes at a rate of
its own and wakes the callers of WaitForFrame.

What is hard:

* several threads bring the frames of one stream; their order, gaps and the reset of frame IDs
  meet in one comparison (`CGClient.cpp:540-570`);
* condition variables with several waiters and deadlines (`CGClient.cpp:207-265`), or without a
  predicate and a deadline (`RetimingClient.cpp:749-760`);
* settings and flags shared between setters and a writer thread, not all under the mutex, and
  written only when something else is (`ViconCGStreamClient.cpp:540-625, 843-895`);
* requests and answers that are matched by nothing but order, with a time-out between them
  (`CoreClient.cpp:508-562, 3645-3670`);
* state that outlives the connection it belongs to;
* joins, stop flags and notifications at shutdown;
* two lists of calls for each record, one that writes and one that reads, in several versions, with
  nothing but a length to tell them apart (`ViconCGStream/ScopedReader.h:50-75`);
* poses that are mapped twice and turned into four forms, samples found by dividing ticks of two
  clocks, names made up from running numbers that several getters count for themselves
  (`CoreClient.cpp:63-124, 1844-1970, 4161-4290, 5300-5406`);
* predictions from two samples that were taken at any time and may be half a frame each
  (`RetimingCore.cpp:145-273`).

`PROJECT.json` lists each of these hazards at its line with the properties that watch it, or says why
none does.

## 2. Modules

| Module | Models |
|---|---|
| `FrameFeed` | the promise of the ICGClient interface: a bounded buffer of one chain of frames |
| `CGClient`, `MCCGClient` | VCGClient: routes, callbacks, deduplication, buffer, waiting readers; implements `FrameFeed` |
| `CGStreamClient`, `MCCGStreamClient` | one route: ClientThread against setters, requests and a server |
| `ObjectCache`, `MCObjectCache` | one route: the objects it holds over packets that leave out what did not change |
| `WireRecords`, `WireFormat`, `MCWireFormat` | one packet: all records, how they are written and how ReadObjects reads them |
| `CoreClient`, `MCCoreClient` | VClient: GetFrame in three modes, over a `FrameFeed` in the place of VCGClient |
| `RequestTypes`, `MCRequestTypes` | VClient and VCGClient: which types are requested |
| `Answers` | what a getter answers at each of three layers |
| `Rotations` | AxisMapping.cpp and the matrices, quaternions and angles of ClientUtils.cpp |
| `LatestFrame`, `SubjectGetters`, `DeviceGetters`, `CameraGetters` | the getters of VClient |
| `Client`, `CClient` | the getters of the C++ and of the C interface |
| `Getters`, `MCGetters` | Connect, GetFrame and SetAxisMapping around the getters, and what must hold of them |
| `RetimingClient`, `MCRetimingClient` | VRetimingClient: both threads, the user, the waiters |
| `RetimingCore`, `RetimedGetters`, `RetimedInterfaces`, `MCRetimingCore` | the samples, the prediction, and the getters of VRetimingClient with both their interfaces |
| `CGClientProofs`, `CGStreamClientProofs`, `ObjectCacheProofs`, `CoreClientProofs`, `RequestTypesProofs`, `RetimingClientProofs`, `RetimingCoreProofs`, `GettersProofs` | theorems about the module of the name, section 4 |

Composition. `CGClient` is shown to implement `FrameFeed` (property `ImplementsFeed`, theorem
`ClientImplementsFeed`), and `CoreClient` is written over an instance of `FrameFeed`, so what is
checked of GetFrame rests on the abstract feed and not on the routes. `RetimingClient` in turn
treats GetFrame of VClient as one step that takes the oldest buffered frame. `WireFormat` opens up
what `ObjectCache` takes as one step, the reading of a packet; `Getters` what `CoreClient` calls the
latest frame; `RetimingCore` what `RetimingClient` records as the data it added. The getters of the
interfaces are layers over those of VClient and VRetimingClient: `CClient` extends `Client`, which
extends the three modules of getters.

### CGClient

Variables carry the names of the members. `stream` is what the server produced, `incoming[r]` the
frame a ClientThread holds between ReadObjects and its callback. Each callback holds
`m_ClientMutex` from end to end and is one action. WaitFrame and WaitFrames are split where the
condition variable gives the mutex up: `WaitFrame`, then `Wake` (a notification, which looks again
and goes back to sleep or returns), `DeadlinePasses` and `GiveUp`. `late` records the deadline,
which is computed once and kept over wake-ups. `newest` and `taken` are history variables, used by
the refinement mapping only. A route carries frames in stream order and may skip some; `Repeats`
lets a server answer two frame requests with the same frame. A reboot of the server restarts its
IDs (`MayReboot`).

### CGStreamClient

ClientThread is a program counter (`thread`): connecting, waiting for the types of the server, and
in the loop of WriteObjects and ReadObjects. WriteObjects has one action per setting it writes,
because SetApexDeviceFeedback and SendPing change flags without `m_Mutex` at any of them; the
setters that lock are disabled while it runs. `told` is what the last flushed message left the
server with, setting by setting. The haptic list is assigned in one step after its flag, as the
code has it; that two threads touch one `std::set` is a data race whose other outcomes are left
out. Ping IDs are left out. The application is the loop of GetFrame with any setter between.

### ObjectCache

ReadObjects of CGStreamClient hands over "a frame"; this module says what is in it. A packet carries
the objects of the types that changed, and its Contents object names types that did not; CopyObjects
takes those over from `m_pStaticObjects` or `m_pDynamicObjects`, which are replaced only by a packet
that brings an object of the sort. A packet in the model is the table of what the server has of each
type (`now`) with the set of types it left out; the types present and their objects follow from the
two. The server is external and is what `Contents.h` says of it, with leave to send again what did
not change. All objects of a type are one value. Reading a packet is one step: nothing of it shows
before its end, and a packet that cannot be read to the end changes nothing but ends the thread.

### CoreClient

GetFrame is split at every place another thread can get in: RequestFrame, WaitFrame (answer or
time-out), the two assignments of FetchNextFrame, RequestNextFrame, and the last part, which alone
holds `m_FrameMutex`. Requests and answers are counters and a queue in order; an answer may arrive
after the time-out. `primed` is a history variable. Connect is a step that succeeds or
changes nothing.

### RequestTypes

Each Set...DataEnabled call is one step under `m_FrameMutex`. `TypesOf` lists what the calls
request; the flags are the set `enabled`. Of each route the client keeps the list of types as the
server sent it, and as long as there is none it asks for everything; `supported` is what none of the
lists leaves out.

### RetimingClient

The user's thread, the input thread, the output thread and each waiter have a program counter.
StopOutput is shared by the user, StartOutput and Disconnect, which is what `next` remembers. What
the retimer computes is the matter of `RetimingCore`; `added` records under which frame number which
frame's data were added. The condition variable does not wake spuriously, and the user connects
again only after Disconnect (calling Connect twice is listed as a hazard).

### WireRecords and WireFormat

A record is two lists of members, the one that Write writes and the one that Read reads, each member
with its kind: a scalar of a width, an array, a vector, a string, another record. The modules hold
them for all types of `ViconCGStreamEnum`, in the order of the calls. A buffer is a function from
offsets to pieces: which member of which object begins there, and how wide it is. A byte has no value
but in lengths, which are numbers, so that a member that is read from the wrong place or with the
wrong width holds a piece of something else. `Read` follows the code call by call, with the check of
the bound that each call makes; what an older or a newer end writes is a record with members missing
at its end or with some more. A type this end does not know is read over. ReadObjects goes on until a
block can not be read; a block of a known type that can not be read ends the thread.

### The getters

`LatestFrame` holds the frame, whether there is a connection, and the axes that were asked for. A
getter of VClient is an operator of the state with an answer for its value: the result, whether what
was asked for is occluded, and the outputs. Two pieces of state matter: `m_LatestFrame`, and
`m_CachedFrame`, whose orientation the axes are taken from. Coordinates are integers and rotations
multiples of a quarter turn, where all formulas of `ClientUtils.cpp` are exact; that keeps gimbal
lock and half turns, at which they branch. Names are sequences of pieces, so that names that are put
together from an ID can be told from others and can be cut. What the code leaves unwritten is left
out of the outputs (section 5). `Getters` takes a frame, works out the poses of lightweight segments
as the last part of GetFrame does, and changes axes at any time. The poses are worked out with
getters, each of which looks at the connection anew: `Dispatch` takes the set of those that find none
(out of `PosingCalls`, as the constant `Outages` has it).

The loops over the devices, channels and components of a frame are sets of their indices: the first
of those that pass a test is the least, the running number of an output is how many come before it
(`OutputIndex`), the number of channels of a kind a cardinality. The poses that are worked out for a
subject are a set and not a list in the order of the calls: no getter tells their order. `PosesOf`
is the recursion of `CalculateGlobalsFromLocals` down the segments as a recursive function.
`WellFormed` says what a frame of the server is: subjects have IDs and segments names and IDs of
their own, as the SDK addresses both by them; no segment has ID 0, which is the parent ID of a root;
the parents have no cycle, without which the code would not return; a camera has one calibration;
global and local poses that are sent fit together. Of the poses of lightweight segments nothing is
assumed but that they are vectors, for global poses are not sent with them. Of devices
(`WithDevices`) it says that devices, the channels of a device and the components of a channel can
be told apart by what the SDK addresses them with; that a plate has one channel of a kind; that the
device frames of a channel all have the same number of samples, which divides the period of the
device, and that every device frame that overlaps the frame is there (`Sampled`), in whatever order;
and that forces, moments and centres of pressure of a plate are sent together (`PlatesSampled`). TLC
evaluates `WellFormed` of each frame (`GettersAssumption`). That rotations are by quarter turns, and
helical vectors along one of the axes, is an assumption of its own (`RightAnglesAssumption`): it is
where the formulas of `Rotations` are those of the code.

### RetimingCore

`InputThread` is a whole round of the thread from the frame to AddData. It holds `m_DataMutex`, so no
getter sees it half done. But each of the calls it reads a frame with looks at the connection anew:
`gone` is the set of those that find none, of which the sample keeps cleared outputs, and which may be
one in the middle of a segment, such as the one for the parent of a child whose name was read.
`CallsForFrame` lists the calls in their order, `Outages` (a constant) gives the sets to try, and
`losses` counts the rounds this befell. Time is a counter that may be set back, `hrc` being
`high_resolution_clock`. Rotations are about one axis, as angles modulo 720 so that a quaternion and
its negative differ; all values are multiples of 60 and a prediction divides by at most 5, which is
exact. Which of UpdateFrame and the output thread may run is `RetimingClient`'s matter; here either
may. What is only logged is left out. The names in the frames are any sequences of pieces up to
`LongestName`, so that they may be too long for the buffer of the C interface; of a frame it is
assumed that subjects have names of their own and that a child says of its parent what the parent
says of the child (`FramesAssumption`), which is what the getters of VClient answer
(`NamesLeadBack`).

## 3. What the runs check

| Run | Bounds | Shows |
|---|---|---|
| `cgclient_routes` | 3 routes, 4 frames, buffer 0..2 | `NothingLost`, `BufferChain`, and `ImplementsFeed`: the client is one `FrameFeed` |
| `cgclient_readers` | 1 route, 2 readers, 3 frames, 2 versions of statics | `NoSleepOverFrames`, `StaticsMatchFrame`, and `WaitReturns` under fairness |
| `streamclient` | 3 types, 2 kinds of server, 1 filter, 1 device | `SettingsTold`, and `FilterArrives` under fairness |
| `streamclient_streaming` | the same, another route connected | `StreamingTold` is violated (finding) |
| `objects` | 4 types (2 static, 2 dynamic), 2 values, 1 packet under way, reconnections | `UnchangedKept`, `NothingLeftOver` |
| `wire` | every record on its own and before another, 3 versions of the writer, vectors of 0 to 2 elements | `ReadAsWritten`, `AtABlock`, `NewerIsRead` |
| `coreclient` | 1 caller, 3 frames, 2 buffer sizes, 3 modes, reconnections | `PreFetchUnderWay`, `NothingCached`, `LatestAdvances` |
| `request_types` | 6 groups, 4 kinds of server, reconnections | `NothingUnasked`, `OneFormOfSegments`, `ScaleNotRefused`, `LightweightAlone` |
| `getters` | frames of an arm turned in all 24 ways, in full and as lightweight segments, both orientations, 5 choices of axes, any one call of GetFrame without a connection; devices with samples that lie differently to the frames | `PosesInAxes`, `GlobalsCompose`, `RotationFormsAgree`, `SamplesInPeriod`, `PlateAgrees`, `NamedIsFound`, `WalkFindsAll` |
| `retiming` | 2 waiters, buffer 2, run-in 2, frames not told apart | `QuietAfterDisconnect`, `CallsReturn` and `WaitersServed` under fairness |
| `retiming_stop` | 1 waiter | `NobodyLeftWaiting` is violated (finding) |
| `retimer` | 4 frames of 2 subjects, 3 points of time, the clock set back once, the connection lost once at any call, predictions of 0 and 1 | `NamesServed`, `RetimingInv`, `EvenlyMoved` |

Four more configurations lie beside these and each shows a disagreement of section 5:
`CGClientReboot.cfg` (`MCCGClient`, `NothingLost`), `RequestTypesShared.cfg` (`MCRequestTypes`,
`EnabledIsRequested`), `RetimingClientRunIn.cfg` (`MCRetimingClient`, `OneFrameTogether`) and
`GettersResults.cfg` (`MCGetters`, `ResultsExpected`). TLC ends each with a counterexample.

Why the bounds are enough. Three routes are the least with a route that is neither the one that
delivers nor the one that is ahead; four frames let one route be overtaken twice. Two readers are
the least that can take a frame from each other. A buffer of two sheds a frame while another stays.
In CoreClient two requests under way (`MaxAsked`) and two frames in the network (`MaxNet`) let a
late answer meet a new request; the counts stop there, which loses only repetitions of the same. In
CGStreamClient one frame owed (`MaxOwed`) is all a GetFrame that waits can use. The six groups of
`request_types` hold every pattern of sharing there is in `TypesOf`: two that overlap and exclude
each other, two that overlap in two types, one that overlaps in one, one that stands alone. In
`retiming` frame numbers do not matter to its properties, so there is one. In `objects` two static
types are needed for one to change without the other, and of the dynamic types one is in every packet
(the frame number) and one is not; how many packets are under way matters to the proof only, which is
for any number. In `wire` each record stands at the end of a packet and before every other, which is
where reading too far or too little shows; vectors of two elements are the least in which an element
has one behind it. The arm of `getters` has a segment whose parent comes behind it, two children of
one parent and a turn about every axis; its five choices of axes are two a server may have, one it
can not have, and one of each mistake. In `retimer` two samples are all that is kept, and three points
of time let a prediction lie before, between and behind them; its four frames have an arm turned by
less and by more than a half turn with quaternions of either sign, an occluded segment, a segment
that goes, and a subject that comes. A round that lost its connection leaves one sample of the two, so
one such round (`Losses`) meets whole samples before and behind it. In `getters` one call that finds
no connection (`OneCall`) is what tells half a tree from none; the theorems are for any set of calls.

Fairness. `cgclient_readers` assumes that clocks run and that a runnable reader gets the mutex; no
server, socket or user has to do anything. `streamclient` assumes that ClientThread runs, that a
server which streams or owes a frame sends one, and that the application goes on calling GetFrame,
which is how the library is meant to be used and what the property is about. `retiming` assumes
that the threads run, that a connected server goes on pushing frames, and that a waiter gets
`m_OutputMutex` in the end (strong fairness, since the output thread releases and takes it in a
loop with a sleep between). Without frames Disconnect may indeed never return: the input thread
does not look at its stop flag while it waits for a frame (`RetimingClient.cpp:814`).

Stopping. The runs that set `CHECK_DEADLOCK FALSE` bound the frames of a server, and the system
rests when those are used up; `request_types` never stops and is checked for deadlock.

## 4. What is proved

`CGClientProofs` holds for every number of routes, readers, frames and buffer places.

* `TypeCorrect`, `NobodySleepsOverFrames` need nothing beyond the assumptions on the constants.
  The second holds because every push notifies all waiters under the mutex and a waiter that is
  woken looks at the buffer again before it sleeps.
* `NoFrameLost`, `ClientImplementsFeed`, `BufferInOrder` assume `MayReboot = FALSE`: with a reboot
  they fail, as `CGClientReboot.cfg` shows. `NothingLost` alone is not inductive: that a frame is
  dropped only if another route has brought it needs to know that IDs order frames as the stream
  does (`StreamOrdered`) and that each `m_LastFrameIDs` entry is the ID of the last frame its route
  brought, with the frame in hand no older (`RouteInv`). The inductive invariant is
  `TypeOK /\ StreamOrdered /\ RouteInv /\ NothingLost`. From it every accepted frame is newer than
  `newest`, so each step of the client is a step of the feed or a stutter, and the chain of the
  feed, which is an invariant of `FrameFeed`, carries over.
* `FrameKeepsItsStatics` assumes one route (`MaxRoutes = 1`), as the property does: two routes may
  each replace the static objects before the other's frame is in. Its invariant (`StaticsInv`) is
  that the route sent last what the client holds, which belongs to the frame in hand, and that each
  buffered frame is one of the stream; consumers only shorten the buffer from its front.

`RequestTypesProofs` holds for every choice of groups and servers, whatever types these list. Its
invariants are inductive beside `TypeOK`; the argument for `NothingUnasked` is that turning a group
off removes all its types, so a type that is left belongs to a group that still is on, whatever they
share.

`ObjectCacheProofs` holds for all types, objects and numbers of packets under way. That a type left
out of a packet is still held as the server has it is not inductive: it needs `ChainInv`, by which
each packet under way leaves out only what is as it was in the packet before, the first of them after
the one read last. `NothingLeftOver` also needs that every packet has a frame number, so that the
dynamic objects are replaced by every packet. No theorem is about static objects that are gone: see
section 5.

`CGStreamClientProofs` holds for all types, filters, devices and servers. `NoSettingLost` says less
than its invariant: `SettingsTold` speaks of ClientThread between two writes, and what it was about to
tell while it wrote must be known too. `TypesKept` follows the types through the writing, `FilterKept`
the filter from place to place: until its turn comes the flag is up or the value is told or in the
message, and from then on it is in the message. A setter that takes `m_Mutex` cannot come while
WriteObjects runs, which is the step of the proof that fails without the mutex. The haptic list, whose
setter takes none, is in no theorem.

`CoreClientProofs` proves types with any number of callers, the rest for one caller
(`OneCaller(c)`): GetFrame takes a mutex only for its last step, and two threads in it can each raise
the flag for the frame of the other. `LatestNeverOlder` and `NothingStaysCached` rest on the order of
everything under way (`InOrder`: the buffer, then the net, each frame as late as those before it) and
on the place of the caller's own frames below it (`CallOrder`: latest, cached, taken, and no frame to
come older than any of them). Neither part depends on the mode or the connection, and a new connection
begins with nothing under way. `PreFetchNeverDry` assumes in addition that requests are counted at
all and that no buffer of size 0 is asked for (`RoomForOne`): such a buffer sheds the frame that was
requested, and then nothing is under way.

`RetimingClientProofs` holds for any waiters, buffer and run-in. `DisconnectLeavesNoThread` rests on
`ThreadsGone`: from the join of StopOutput on, at every place the user's thread may be in afterwards
while it goes on to StopInput, there is no output thread, and past the next join no input thread.

`RetimingCoreProofs` holds for all frames with names as in section 2, all offsets and predictions
and any number of times the clock is set back, and up to time 5 (`TimeLimit`), since two samples are
then at most 5 apart and the multiples of 60 divide exactly. Neither property is inductive. The
invariant (`RetimingInv`) is that a subject has one or two samples, those of different times where
there is something to predict from, that each pose belongs to a subject that has samples, and that a
child that was read has for its parent the segment that lists it, or none, whichever calls about the
frame found no connection. `PosesMoveEvenly` is about one prediction: the pose that is handed out
lies on the line through the two samples, and its rotation turns from the first by the shorter way,
evenly. `NamesAreServed` goes through the getters of both interfaces from an index to a name and
back.

`GettersProofs` holds for all frames that are `WellFormed`, with any number of subjects, segments,
cameras and labels, for any set of calls in GetFrame that find no connection, for coordinates and
matrices of any integers that are vectors and matrices at all, and for all axes. Its invariant
(`GettersInv`) is that both frames stay `WellFormed` and the axes accepted last are three directions
whose mapping was a Success; with lightweight segments the first part is the whole of
`PosesStayTogether`, since GetFrame puts poses in a frame that had none.

* `PosesStayTogether`: a segment is where its local pose puts it in the global pose of its parent, in
  whatever axes are in force when it is asked for. The proof follows the code. The recursion down the
  segments ends because a child is deeper than its parent (`PosesExist`). Each pair of poses it makes
  is that of the root or was put together from the pair of a parent, so by depth there is one pair
  for each segment and the pairs fit (`OnePose`, `CalculatedFit`). A subject keeps them while those
  behind it are worked out (`CalculatedFits`). Axes that are accepted are an orthogonal matrix, so
  turning two poses turns what they make together (`OutTogether`, which is `AxesKeepPosesTogether` as
  a theorem of its own). The getters then find the one pose of the ID.
* `PosesAreInAxes`: each coordinate handed out is the one along the direction that was asked for, for
  either orientation of the server.
* `NamesLeadBack`: a child has its parent for its parent, a camera's name leads to its ID, and a
  dynamic camera's name to its own calibration.
* `SamplesOfThePeriod`: a sample of a device is in the answer of a frame if and only if it begins in
  the period of the frame, under an index that goes with its tick; so two consecutive frames share no
  sample and lose none. It is the arithmetic of the next two.
* `SamplesAreThoseOfThePeriod` (`SamplesInPeriod`) goes through the getters: from the name of an output
  to its channel and component, which the search finds because an output without a name has a number
  of its own among all of the device (`OneOutput`); from index i to sample `from + i` of the device,
  where `from` is the first of the period, which lies in device frame `(from + i) \div n` and in no
  other (`Remainder`); to that device frame, which was sent because it overlaps the frame
  (`SampleIsThere`) and at which the search ends, whichever device frames come first (`SearchEnds`).
  The ticks then grow with the index, so the count is the number of samples of the period
  (`CountIs`) and the index of a sample is the number of samples before it (`CountedByTick`).
* `PlatesAnswerTheSame` (`PlateAgrees`): a device with three channels of the three kinds has one of each
  (`PlateHasForces`), whose device frames are all of those that the getters of the plate look through;
  both searches then end at the same sample, and both transform it as a whole (`PlateVectorIs`).

* `FormsOfRotationsAgree` (`RotationFormsAgree`) is the one that needs `RightAnglesAssumption`. Its
  invariant (`TurnsInv`) is that both frames have rotations by quarter turns only: one after another
  they are one (`QuarterTurnsCompose`), so every rotation worked out down a subject is
  (`PosesTurn`), for helical vectors that go round any number of times (`HelicalIsQuarterTurn`), and
  so is what is handed out in the axes accepted (`OutIsQuarterTurn`). For a quarter turn the Euler
  angles lead back to the matrix, in gimbal lock with the cosine of the second angle 0 and the first
  turning for the third (`EulerAngles`), and so does the quaternion from each of the four branches
  (`QuaternionStands`).

Where a proof needs an induction over data (poses down a tree, a fold over the subjects, the depth of
a segment), the induction is written as one over a set of numbers, which is first-order.

Only model-checked:

* What needs fairness (`WaitReturns`, `FilterArrives`, `CallsReturn`, `WaitersServed`), which TLAPS
  does not reach.
* `ReadAsWritten`, `AtABlock` and `NewerIsRead` of `wire`: reading a record follows the nesting of
  records with a RECURSIVE operator (`Below`, of `WireFormat`), which the provers cannot open. The run
  goes through every record there is, on its own and before every other.
* `WalkFindsAll` of `getters`, which goes down a subject with the RECURSIVE `Below` of `CClient`.

## 5. Where the code and its words disagree

Two are the findings of the runs.

* A stream request made while a route is still connecting is lost and never repeated
  (`ViconCGStreamClient.cpp:548`; `streamclient_streaming`).
* A caller of WaitForFrame can sleep for ever when StopOutput comes between its check and its wait
  (`RetimingClient.cpp:183`; `retiming_stop`).

Four are shown by the configurations beside the runs.

* A server that restarts its frame IDs makes a client with several routes drop frames
  (`CGClient.cpp:566`), although a comment there (`:549`) knows of the reset: neither OnDisconnect nor
  OnConnect resets `m_LastFrameIDs` (`CGClientReboot.cfg`).
* Turning a group of data off stops types another group needs (`CoreClient.cpp:869`): after
  SetLightweightSegmentDataEnabled( false ) segment data are reported as enabled
  (`DataStreamClient.h:1339`) and SubjectTopology is not requested (`RequestTypesShared.cfg`).
* StartOutput replaces the latest frame while the input thread is reading it
  (`RetimingClient.cpp:145`), which "Get a lock here so that we add all subjects from one frame
  together" (`:850`) was meant to exclude (`RetimingClientRunIn.cfg`).
* GetFrameRateValue answers InvalidFrameRateName for a name it does not know (documented,
  `DataStreamClient.h:2660`), which Adapt has no case for: an assertion fails, or the result is
  Unknown (`CoreAdapters.h:129`; `GettersResults.cfg`). The same is true of ArgumentOutOfRange of
  SetConnectionTimeout.

More are visible in the models and have no configuration of their own.

* EnableLightweightSegmentData is documented to turn all other groups off (`DataStreamClient.h:589`)
  and leaves camera calibration on (the exception in `LightweightAlone`).
* CopyObjects has no case for CentroidTracks, ForceFrame, MomentFrame, CentreOfPressureFrame and
  VoltageFrame (`ViconCGStreamClient.cpp:962`), although `Contents.h:48` makes no exception for them:
  a server that leaves one of them out as unchanged takes it from the client (`Forgotten` in
  `UnchangedKept`).
* When the last objects of a static type go and no other static type changes, the client keeps them
  (`ViconCGStreamClient.cpp:1524`): `m_EnumsTable` of Contents, which says that there are none, is not
  read. `NothingLeftOver` is stated for dynamic objects for that reason.
* In ClientPull mode an answer that came after the time-out is handed out by the next GetFrame, and
  each call after it returns the answer to the one before (`CoreClient.cpp:523`), where
  `DataStreamClient.h:1893` speaks of "the latest frame". `LatestAdvances` holds all the same.

Of the getters:

* GetDeviceOutputName numbers the outputs that have no name across all channels of a device, while
  the getters that take an output's name too count only those of the channels with that name
  (`CoreClient.cpp:4189, 4284`); `WalkFindsAll` asks by the name of the component alone.
* GetDeviceOutputSubsamples answers NoFrame at the first channel without components, before it gets
  to the others (`:4201`).
* GetCameraID, GetCameraUserID, GetCameraType, GetCameraDisplayName (`:4590-4647`) and
  GetServerOrientation do not look whether there is a connection or a frame; after Disconnect and
  Connect all getters serve the old frame until the next one.
* A subject whose root is not found, or whose local poses are already there, ends the working out of
  global poses for all subjects behind it (`:1847, 1879`); one lightweight segment that is missing
  takes the whole subject (`:1935`).
* The result of GetSegmentChildCount is not looked at while global poses are worked out (`:1973`): if
  the connection is gone at that call, GetFrame succeeds and the subject has the poses of half its
  segments. `GlobalsCompose` holds of those that are there.
* Axes are taken from the orientation of `m_CachedFrame`, which another thread may be writing, for
  poses of `m_LatestFrame` (`:5304, 5361`).
* Several outputs are left as they were when there is nothing to answer: the count of GetMarkerCount,
  the centroid index of GetMarkerRayAssignment, the quality of GetObjectQuality;
  GetGreyscaleBlobSubsampleInfo clears one offset twice and the other never (`:5048`).
* A static rotation that is missing is Unknown, a static translation InvalidSegmentName; the parent of
  a root is Unknown.
* `CoreClient.h:228` speaks of a "1 based device number" in the name of an unnamed device; it is the
  device's ID (`ClientUtils.cpp:157`).
* The C interface cuts names to the caller's buffer and says Success (`CClient.cpp:254`).
  `Client_SetBufferSize` calls DisableDebugData (`:758-761`), where `DataStreamClient.h:1846` says
  that it sets the number of frames that are buffered.

Of the retimer:

* A pose is Success with zeros for a segment that is not known or is in one of the two samples only
  (`RetimingClient.cpp:532-541`), where `DataStreamRetimingClient.h:1869-1874` has InvalidSegmentName.
* `bOccluded` of a sample is that of the last of four getters (`RetimingClient.cpp:920-937`), and a
  sample that was cut short counts as visible, so "Don't add occluded data" (`RetimingCore.cpp:117`)
  is not true of it. Its cleared quaternion makes a prediction that is not a number.
* A child whose parent was asked for when the connection was gone (`RetimingClient.cpp:900`) has an
  empty name for its parent, with Success, beside a parent that lists it: `NamesServed` says "the
  segment or empty" for that reason.
* The same comment says "as long as gaps are not too long"; there is no limit on the time between the
  two samples. PurgeOldData (`:585`), which would be one, is never called.
* GetSubjectCount answers NoFrame by the samples and counts the poses (`:275-290`): before the first
  update it is Success and 0.

Of the wire format: `VTimecode` declares its members in another order than it writes them, which does
no harm. `CameraTimingInfo` and `UnlabeledReconRayAssignments` are never read. A record of an older
version is read on into the next block, harmless unless it is the last of a packet, where ReadObjects
fails and the thread ends (`NewerIsRead` is stated for packets without one).

## 6. What is not modelled

* Values of members, and conversions of floating-point numbers other than at right angles; Bayer
  conversion and video compression: arithmetic on pixels.
* Lengths in a packet that its sender did not mean: the models have packets that a VScopedWriter
  wrote.
* The filters of subjects and cameras, the round trips of pings and the latency made of them,
  multicast receiving, the destructors and the postal service. The hazards among them are listed in
  `PROJECT.json`; those that are wrong are plain in the code, such as a join under a mutex that the
  joined thread needs (`CGClient.cpp:308`).
* Commands of the C and C++ interfaces, each a call of the function of the same name, which is an
  action of the module of its class; the wireless configuration and the timing log, which are I/O;
  the test programs, which print a stream.
