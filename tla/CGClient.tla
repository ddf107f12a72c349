------------------------------- MODULE CGClient -------------------------------
(***************************************************************************)
(* VCGClient (ViconCGStreamClientSDK/CGClient.cpp): one client of a Vicon  *)
(* server that may be connected over several routes (network adapters).    *)
(* Each route has a VViconCGStreamClient whose ClientThread reads frames   *)
(* off its socket and calls back OnConnect, OnStaticObjects,               *)
(* OnDynamicObjects and OnDisconnect.  Every callback and every operation  *)
(* holds m_ClientMutex from its first line to its last, so each is one     *)
(* action; a wait on m_NewFramesCondition gives the mutex up and is split  *)
(* where it does.                                                          *)
(*                                                                         *)
(* The server is external: it appends frames to "stream".  A route carries *)
(* some of them, in stream order, each at most once unless Repeats, when   *)
(* two RequestFrame calls ("requesting the current frame", ICGClient.h)    *)
(* may be answered with the same frame.                                    *)
(***************************************************************************)
EXTENDS Naturals, Sequences

CONSTANTS
  MaxRoutes,    \* bound on the routes connected over the client's life
  Readers,      \* threads that call WaitFrame and WaitFrames
  Statics,      \* versions of the static objects
  NoStatics,    \* the null m_pLastStaticObjects
  NoFrame,      \* UInt32( -1 ), the frame ID that stands for none
  MaxFrames,    \* bound on the frames the server produces
  MaxBuffer,    \* bound on the argument of SetBufferSize
  MayReboot,    \* may the server restart its frame IDs?
  Repeats       \* may a route carry its last frame once more?

ASSUME ConstantsAssumption ==
  /\ MaxRoutes \in Nat
  /\ NoFrame \in Nat
  /\ MaxFrames \in Nat
  /\ MaxBuffer \in Nat
  /\ MayReboot \in BOOLEAN
  /\ Repeats \in BOOLEAN
  /\ NoStatics \notin Statics

VARIABLES
  stream,               \* every frame the server produced: its ID and statics
  clients,              \* m_pClients.size(): routes 1..clients are connected
  thread,               \* where each route's ClientThread is
  incoming,             \* the frame a ClientThread is handing over, 0 if none
  seen,                 \* the last frame each route handed over, 0 if none
  sent,                 \* the statics each route handed over last
  m_LastFrameIDs,
  m_pLastStaticObjects,
  m_FrameDeque,
  m_MaxBufferSize,
  wait,                 \* where each reader is in WaitFrame or WaitFrames
  late,                 \* has the deadline of a reader's wait passed?
  wantsAll,             \* is the reader in WaitFrames?
  newest,               \* history: the last frame pushed on m_FrameDeque
  taken                 \* history: the last frame popped from it

serverVars == <<stream>>
routeVars  == <<clients, thread, incoming, seen, sent, m_LastFrameIDs>>
bufferVars == <<m_pLastStaticObjects, m_FrameDeque, m_MaxBufferSize, newest, taken>>
readerVars == <<wait, late, wantsAll>>
vars == <<serverVars, routeVars, bufferVars, readerVars>>

Routes  == 1..MaxRoutes
Clients == 1..clients

\* What the deque holds (TFramePair): the static objects in force and the
\* position in the stream of the dynamic objects.
FramePair == [statics : Statics \cup {NoStatics}, index : 1..MaxFrames]

\* The feed this client implements.
Feed == INSTANCE FrameFeed WITH
          Frames <- FramePair, Sizes <- 0..MaxBuffer,
          buffer <- m_FrameDeque, capacity <- m_MaxBufferSize

Init ==
  /\ stream = <<>>
  /\ clients = 0
  /\ thread = [r \in Routes |-> "none"]
  /\ incoming = [r \in Routes |-> 0]
  /\ seen = [r \in Routes |-> 0]
  /\ sent = [r \in Routes |-> NoStatics]
  /\ m_LastFrameIDs = [r \in Routes |-> NoFrame]
  /\ m_pLastStaticObjects = NoStatics
  /\ m_FrameDeque = <<>>
  /\ m_MaxBufferSize = 1
  /\ wait = [t \in Readers |-> "idle"]
  /\ late = [t \in Readers |-> FALSE]
  /\ wantsAll = [t \in Readers |-> FALSE]
  /\ newest = 0
  /\ taken = 0

-----------------------------------------------------------------------------
(* The server. *)

\* IDs count up from 1, and after a reboot from 1 again.
NextIDs ==
  {1 + (IF stream = <<>> THEN 0 ELSE stream[Len(stream)].id)}
    \cup (IF MayReboot THEN {1} ELSE {})

Produce ==
  /\ Len(stream) < MaxFrames
  /\ \E id \in NextIDs, s \in Statics :
       /\ id < NoFrame
       /\ stream' = Append(stream, [id |-> id, statics |-> s])
  /\ UNCHANGED <<routeVars, bufferVars, readerVars>>

-----------------------------------------------------------------------------
(* Operations of the client that change the set of routes. *)

\* Mutant: the first route is given the number after the next.
ConnectOvercounts(n) ==
  /\ clients + n <= MaxRoutes
  /\ clients' = clients + n + 1
  /\ thread' = [r \in Routes |-> IF r \in clients + 2 .. clients + n + 1
                                 THEN "starting" ELSE thread[r]]
  /\ UNCHANGED <<serverVars, incoming, seen, sent, m_LastFrameIDs, bufferVars, readerVars>>

\* Connect with n hosts that answer: a host that fails is skipped and leaves no
\* trace.  Each ClientThread starts here but can only call back afterwards.
Connect(n) ==
  /\ clients + n <= MaxRoutes
  /\ clients' = clients + n
  /\ thread' = [r \in Routes |-> IF r \in clients + 1 .. clients + n
                                 THEN "starting" ELSE thread[r]]
  /\ UNCHANGED <<serverVars, incoming, seen, sent, m_LastFrameIDs, bufferVars, readerVars>>

\* A ClientThread's socket connected; from here on IsConnected counts the route.
OnConnect(r) ==
  /\ thread[r] = "starting"
  /\ thread' = [thread EXCEPT ![r] = "reading"]
  /\ UNCHANGED <<serverVars, clients, incoming, seen, sent, m_LastFrameIDs, bufferVars, readerVars>>

\* notify_all: every reader in the condition's wait set is to take the mutex again.
NotifyAll == [t \in Readers |-> IF wait[t] = "waiting" THEN "notified" ELSE wait[t]]

\* The ClientThread found its socket closed and is about to end.  The route's
\* m_LastFrameIDs entry stays as it is.
OnDisconnect(r) ==
  /\ thread[r] = "reading"
  /\ incoming[r] = 0
  /\ thread' = [thread EXCEPT ![r] = "ended"]
  /\ wait' = NotifyAll
  /\ UNCHANGED <<serverVars, clients, incoming, seen, sent, m_LastFrameIDs, bufferVars,
                 late, wantsAll>>

\* The socket could not be connected: the ClientThread ends without a callback.
ConnectFails(r) ==
  /\ thread[r] = "starting"
  /\ thread' = [thread EXCEPT ![r] = "ended"]
  /\ UNCHANGED <<serverVars, clients, incoming, seen, sent, m_LastFrameIDs, bufferVars, readerVars>>

-----------------------------------------------------------------------------
(* The callbacks that bring frames. *)

CanCarry(r, i) == IF Repeats THEN seen[r] <= i ELSE seen[r] < i

\* Mutant: the static objects are passed on only the first time.
OnStaticObjectsOnce(r) ==
  /\ thread[r] = "reading"
  /\ incoming[r] = 0
  /\ \E i \in 1..Len(stream) :
       /\ CanCarry(r, i)
       /\ incoming' = [incoming EXCEPT ![r] = i]
       /\ sent' = [sent EXCEPT ![r] = stream[i].statics]
       /\ m_pLastStaticObjects' = IF sent[r] = NoStatics
                                  THEN stream[i].statics ELSE m_pLastStaticObjects
  /\ UNCHANGED <<serverVars, clients, thread, seen, m_LastFrameIDs,
                 m_FrameDeque, m_MaxBufferSize, newest, taken, readerVars>>

\* ReadObjects read frame i and, when its static objects are not those the route
\* sent last, calls OnStaticObjects; it hands the frame over afterwards.
OnStaticObjects(r) ==
  /\ thread[r] = "reading"
  /\ incoming[r] = 0
  /\ \E i \in 1..Len(stream) :
       /\ CanCarry(r, i)
       /\ incoming' = [incoming EXCEPT ![r] = i]
       /\ sent' = [sent EXCEPT ![r] = stream[i].statics]
       /\ m_pLastStaticObjects' = IF sent[r] # stream[i].statics
                                  THEN stream[i].statics ELSE m_pLastStaticObjects
  /\ UNCHANGED <<serverVars, clients, thread, seen, m_LastFrameIDs,
                 m_FrameDeque, m_MaxBufferSize, newest, taken, readerVars>>

\* Mutants: a frame another route was first with passes; NoFrame counts as an ID.
AlreadySeenStrict(r, id) ==
  \/ id = 0
  \/ \E q \in Clients \ {r} : m_LastFrameIDs[q] # NoFrame /\ id < m_LastFrameIDs[q]
AlreadySeenSentinel(r, id) ==
  \E q \in Clients \ {r} : id <= m_LastFrameIDs[q]

\* Frame id is no newer than what the other routes brought: LastFrame is the
\* largest of their IDs, routes without a frame left out, and 0 if none is left.
AlreadySeen(r, id) ==
  \/ id = 0
  \/ \E q \in Clients \ {r} : m_LastFrameIDs[q] # NoFrame /\ id <= m_LastFrameIDs[q]

Accepts(r, id) == clients = 1 \/ ~AlreadySeen(r, id)

\* Mutant: a full deque refuses the new frame.
PushFrameDropsNewest(f) ==
  /\ m_FrameDeque' = IF Len(m_FrameDeque) < m_MaxBufferSize THEN Append(m_FrameDeque, f)
                     ELSE m_FrameDeque
  /\ newest' = f.index
  /\ wait' = NotifyAll

\* Mutant: nobody is told.
PushFrameSilently(f) ==
  /\ m_FrameDeque' = Feed!KeepLast(Append(m_FrameDeque, f), m_MaxBufferSize)
  /\ newest' = f.index
  /\ UNCHANGED wait

\* Push the frame, pop the front until the size is right, notify every reader.
PushFrame(f) ==
  /\ m_FrameDeque' = Feed!KeepLast(Append(m_FrameDeque, f), m_MaxBufferSize)
  /\ newest' = f.index
  /\ wait' = NotifyAll

\* The route's last ID is recorded whether or not the frame is accepted.
OnDynamicObjects(r) ==
  LET i == incoming[r]
  IN  /\ i # 0
      /\ incoming' = [incoming EXCEPT ![r] = 0]
      /\ seen' = [seen EXCEPT ![r] = i]
      /\ m_LastFrameIDs' = [m_LastFrameIDs EXCEPT ![r] = stream[i].id]
      /\ IF Accepts(r, stream[i].id)
         THEN PushFrame([statics |-> m_pLastStaticObjects, index |-> i])
         ELSE UNCHANGED <<m_FrameDeque, newest, wait>>
      /\ UNCHANGED <<serverVars, clients, thread, sent, m_pLastStaticObjects,
                     m_MaxBufferSize, taken, late, wantsAll>>

-----------------------------------------------------------------------------
(* The operations of the threads that consume frames. *)

PollFrame ==
  /\ m_FrameDeque # <<>>
  /\ taken' = Head(m_FrameDeque).index
  /\ m_FrameDeque' = Tail(m_FrameDeque)
  /\ UNCHANGED <<m_pLastStaticObjects, m_MaxBufferSize, newest>>

PollFrames ==
  /\ m_FrameDeque # <<>>
  /\ taken' = m_FrameDeque[Len(m_FrameDeque)].index
  /\ m_FrameDeque' = <<>>
  /\ UNCHANGED <<m_pLastStaticObjects, m_MaxBufferSize, newest>>

\* A caller that polls without waiting.
Poll ==
  /\ PollFrame \/ PollFrames
  /\ UNCHANGED <<serverVars, routeVars, readerVars>>

\* WaitFrame (WaitFrames if "all"): with a frame buffered it polls at once,
\* otherwise the first timed_wait lets the mutex go.
WaitFrame(t, all) ==
  /\ wait[t] = "idle"
  /\ IF m_FrameDeque = <<>>
     THEN /\ wait' = [wait EXCEPT ![t] = "waiting"]
          /\ wantsAll' = [wantsAll EXCEPT ![t] = all]
          /\ UNCHANGED <<late, bufferVars>>
     ELSE /\ IF all THEN PollFrames ELSE PollFrame
          /\ UNCHANGED readerVars
  /\ UNCHANGED <<serverVars, routeVars>>

\* The deadline, fixed when the call was made, goes by.  A reader still in the
\* wait set leaves it and no notification reaches it any more.
DeadlinePasses(t) ==
  /\ wait[t] \in {"waiting", "notified"}
  /\ ~late[t]
  /\ late' = [late EXCEPT ![t] = TRUE]
  /\ wait' = [wait EXCEPT ![t] = IF @ = "waiting" THEN "expired" ELSE @]
  /\ UNCHANGED <<serverVars, routeVars, bufferVars, wantsAll>>

\* Mutant: once woken in vain, a reader waits on without its deadline.
WakeUntimed(t) ==
  /\ wait[t] = "notified"
  /\ IF m_FrameDeque = <<>>
     THEN /\ wait' = [wait EXCEPT ![t] = "waiting"]
          /\ UNCHANGED <<late, bufferVars>>
     ELSE /\ IF wantsAll[t] THEN PollFrames ELSE PollFrame
          /\ wait' = [wait EXCEPT ![t] = "idle"]
          /\ late' = [late EXCEPT ![t] = FALSE]
  /\ UNCHANGED <<serverVars, routeVars, wantsAll>>

\* timed_wait returned true and the mutex is held again: another reader may have
\* emptied the deque, and then the wait goes on until the same deadline.
Wake(t) ==
  /\ wait[t] = "notified"
  /\ IF m_FrameDeque = <<>>
     THEN /\ wait' = [wait EXCEPT ![t] = IF late[t] THEN "expired" ELSE "waiting"]
          /\ UNCHANGED <<late, bufferVars>>
     ELSE /\ IF wantsAll[t] THEN PollFrames ELSE PollFrame
          /\ wait' = [wait EXCEPT ![t] = "idle"]
          /\ late' = [late EXCEPT ![t] = FALSE]
  /\ UNCHANGED <<serverVars, routeVars, wantsAll>>

\* timed_wait returned false: the call fails, even if a frame arrived meanwhile.
GiveUp(t) ==
  /\ wait[t] = "expired"
  /\ wait' = [wait EXCEPT ![t] = "idle"]
  /\ late' = [late EXCEPT ![t] = FALSE]
  /\ UNCHANGED <<serverVars, routeVars, bufferVars, wantsAll>>

SetBufferSize(n) ==
  /\ m_MaxBufferSize' = n
  /\ m_FrameDeque' = Feed!KeepLast(m_FrameDeque, n)
  /\ UNCHANGED <<serverVars, routeVars, m_pLastStaticObjects, newest, taken, readerVars>>

ClearBuffer ==
  /\ m_FrameDeque' = <<>>
  /\ UNCHANGED <<serverVars, routeVars, m_pLastStaticObjects, m_MaxBufferSize, newest, taken,
                 readerVars>>

-----------------------------------------------------------------------------

RouteNext ==
  \/ \E n \in 1..MaxRoutes : Connect(n)
  \/ \E r \in Routes :
       \/ OnConnect(r)
       \/ ConnectFails(r)
       \/ OnStaticObjects(r)
       \/ OnDynamicObjects(r)
       \/ OnDisconnect(r)

ReaderNext ==
  \/ Poll
  \/ \E t \in Readers :
       \/ \E all \in BOOLEAN : WaitFrame(t, all)
       \/ DeadlinePasses(t)
       \/ Wake(t)
       \/ GiveUp(t)
  \/ \E n \in 0..MaxBuffer : SetBufferSize(n)
  \/ ClearBuffer

Next == Produce \/ RouteNext \/ ReaderNext

Spec == Init /\ [][Next]_vars

\* The clock runs and a runnable reader gets the mutex; nothing makes the server
\* produce, a socket deliver or a user call.
Fairness ==
  \A t \in Readers : WF_vars(DeadlinePasses(t)) /\ WF_vars(Wake(t)) /\ WF_vars(GiveUp(t))

FairSpec == Spec /\ Fairness

-----------------------------------------------------------------------------

ThreadState == {"none", "starting", "reading", "ended"}
WaitState   == {"idle", "waiting", "notified", "expired"}

TypeOK ==
  /\ stream \in Seq([id : Nat, statics : Statics])
  /\ Len(stream) <= MaxFrames
  /\ clients \in 0..MaxRoutes
  /\ thread \in [Routes -> ThreadState]
  /\ incoming \in [Routes -> 0..Len(stream)]
  /\ seen \in [Routes -> 0..Len(stream)]
  /\ sent \in [Routes -> Statics \cup {NoStatics}]
  /\ m_LastFrameIDs \in [Routes -> Nat]
  /\ m_pLastStaticObjects \in Statics \cup {NoStatics}
  /\ m_FrameDeque \in Seq(FramePair)
  /\ m_MaxBufferSize \in Nat
  /\ wait \in [Readers -> WaitState]
  /\ late \in [Readers -> BOOLEAN]
  /\ wantsAll \in [Readers -> BOOLEAN]
  /\ newest \in 0..Len(stream)
  /\ taken \in Nat

\* Without a reboot frame IDs grow along the stream, so IDs order frames as
\* positions do and none is mistaken for NoFrame or for the default LastFrame, 0.
StreamOrdered ==
  /\ \A i \in 1..Len(stream) : 0 < stream[i].id /\ stream[i].id < NoFrame
  /\ \A i, j \in 1..Len(stream) : i < j => stream[i].id < stream[j].id

\* What m_LastFrameIDs knows: the ID of the frame each route handed over last.
RouteInv ==
  \A r \in Routes :
    /\ r \notin Clients => thread[r] = "none" /\ incoming[r] = 0 /\ seen[r] = 0
    /\ seen[r] = 0 => m_LastFrameIDs[r] = NoFrame
    /\ seen[r] # 0 => m_LastFrameIDs[r] = stream[seen[r]].id
    /\ incoming[r] # 0 => CanCarry(r, incoming[r])

\* No route delivers into the void: whichever route was first with the freshest
\* frame, that frame was accepted (OnDynamicObjects compares with the other
\* routes only, and by ID), so the feed is as fresh as the freshest route.
NothingLost ==
  /\ \A r \in Routes : seen[r] <= newest
  /\ newest # 0 => \E r \in Routes : seen[r] = newest

\* The buffer holds, within m_MaxBufferSize, the latest of the accepted frames
\* and goes on where the consumers left off (OnDynamicObjects, SetBufferSize).
BufferChain == Feed!Chain

\* Over any number of routes the client hands out one feed of ever newer frames.
ImplementsFeed == Feed!FeedSpec

\* Nobody sleeps on m_NewFramesCondition while a frame is there to be taken,
\* although several readers compete and each pop is of a frame some other
\* reader may have been woken for.
NoSleepOverFrames ==
  \A t \in Readers : wait[t] = "waiting" => m_FrameDeque = <<>>

\* With one route every buffered frame is paired with the static objects that
\* were in force when the server produced it (OnStaticObjects before
\* OnDynamicObjects).
StaticsMatchFrame ==
  \A i \in 1..Len(m_FrameDeque) :
    m_FrameDeque[i].statics = stream[m_FrameDeque[i].index].statics

\* "Wait for frames. Returns when a frame arrives or i_TimeoutMs expires"
\* (ICGClient.h), also when other readers take every frame this one is woken for.
WaitReturns ==
  \A t \in Readers : wait[t] # "idle" ~> wait[t] = "idle"
=============================================================================
