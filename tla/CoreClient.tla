------------------------------ MODULE CoreClient ------------------------------
(***************************************************************************)
(* VClient (ViconDataStreamSDKCore/CoreClient.cpp): GetFrame in its three  *)
(* stream modes over one connection at a time.                             *)
(*                                                                         *)
(* The ICGClient below is the FrameFeed that CGClient implements.  Its     *)
(* requests reach the server in order; the server, which is external,      *)
(* answers RequestFrame with its current frame and RequestNextFrame with   *)
(* the next one, and pushes every frame while it streams.  Frames travel   *)
(* in order in "net".                                                      *)
(*                                                                         *)
(* GetFrame holds no mutex until its last step: it may time out waiting,   *)
(* and two threads may be in it (StartOutput of the retiming client calls  *)
(* it beside the input thread), which is why its steps are actions.        *)
(***************************************************************************)
EXTENDS Naturals, Sequences

CONSTANTS
  Callers,      \* the threads that call GetFrame
  MaxFrames,    \* bound on the frames the server produces
  Sizes,        \* the sizes SetBufferSize is called with
  Modes,        \* the modes SetStreamMode is called with
  MaxAsked,     \* the counts of requests under way stop here
  MaxNet,       \* bound on the frames under way when the server answers
  Reconnects    \* may the client connect again after its first connection?

ASSUME CoreAssumption ==
  /\ MaxFrames \in Nat
  /\ MaxAsked \in Nat
  /\ MaxNet \in Nat
  /\ Sizes \subseteq Nat
  /\ Modes \subseteq {"ServerPush", "ClientPull", "ClientPullPreFetch"}
  /\ Reconnects \in BOOLEAN

VARIABLES
  connection,           \* of m_pClient: "never", "up", "lost" or "closed"
  current,              \* the server's current frame, 0 before the first
  asked,                \* VRequestFrames the server has not answered
  askedNext,            \* VRequestNextFrames the server has not answered
  m_bStreaming,         \* of the connection: the server pushes
  net,                  \* frames sent and not yet received
  newest, m_FrameDeque, m_MaxBufferSize, taken,   \* of m_pClient
  m_bPreFetch,
  m_BufferSize,
  m_bNewCachedFrame,
  m_CachedFrame,
  m_LatestFrame,
  at,                   \* where each caller is in GetFrame
  prefetching,          \* did it find m_bPreFetch set?
  got,                  \* the frame it took from m_pClient
  primed                \* was a frame requested since Connect?

linkVars   == <<connection, current, asked, askedNext, m_bStreaming, net>>
clientVars == <<newest, m_FrameDeque, m_MaxBufferSize, taken>>
cacheVars  == <<m_bNewCachedFrame, m_CachedFrame, m_LatestFrame>>
callVars   == <<at, prefetching, got>>
vars == <<linkVars, clientVars, m_bPreFetch, m_BufferSize, cacheVars, callVars, primed>>

Frames == [index : 1..MaxFrames]

Client == INSTANCE FrameFeed WITH
            Frames <- Frames, Repeats <- TRUE,
            buffer <- m_FrameDeque, capacity <- m_MaxBufferSize

\* m_LatestFrame before the first frame (BadFrameValue).
NoFrameYet == 0

Init ==
  /\ connection = "never"
  /\ current = 0
  /\ asked = 0
  /\ askedNext = 0
  /\ m_bStreaming = FALSE
  /\ net = <<>>
  /\ Client!FeedInit
  /\ m_bPreFetch = FALSE
  /\ m_BufferSize = 1
  /\ m_bNewCachedFrame = FALSE
  /\ m_CachedFrame = NoFrameYet
  /\ m_LatestFrame = NoFrameYet
  /\ at = [c \in Callers |-> "idle"]
  /\ prefetching = [c \in Callers |-> FALSE]
  /\ got = [c \in Callers |-> NoFrameYet]
  /\ primed = FALSE

-----------------------------------------------------------------------------
(* The server and the way back. *)

\* A new frame: pushed when streaming, otherwise the answer to one or to all of
\* the requests for it.
Produce ==
  /\ current < MaxFrames
  /\ current' = current + 1
  /\ IF connection = "up" /\ (m_bStreaming \/ askedNext > 0)
     THEN net' = Append(net, [index |-> current'])
     ELSE UNCHANGED net
  /\ askedNext' \in IF askedNext > 0 THEN {0, askedNext - 1} ELSE {0}
  /\ UNCHANGED <<connection, asked, m_bStreaming, clientVars, m_bPreFetch, m_BufferSize,
                 cacheVars, callVars, primed>>

\* The answer to a VRequestFrame.
Answer ==
  /\ connection = "up"
  /\ asked > 0
  /\ current > 0
  /\ Len(net) < MaxNet
  /\ asked' = asked - 1
  /\ net' = Append(net, [index |-> current])
  /\ UNCHANGED <<connection, current, askedNext, m_bStreaming, clientVars, m_bPreFetch,
                 m_BufferSize, cacheVars, callVars, primed>>

\* OnDynamicObjects.
Receive ==
  /\ connection = "up"
  /\ net # <<>>
  /\ Client!Push(Head(net))
  /\ net' = Tail(net)
  /\ UNCHANGED <<connection, current, asked, askedNext, m_bStreaming, m_bPreFetch,
                 m_BufferSize, cacheVars, callVars, primed>>

\* The server goes away; OnDisconnect.
Lose ==
  /\ connection = "up"
  /\ connection' = "lost"
  /\ UNCHANGED <<current, asked, askedNext, m_bStreaming, net, clientVars, m_bPreFetch,
                 m_BufferSize, cacheVars, callVars, primed>>

-----------------------------------------------------------------------------
(* Operations other than GetFrame, by a thread that is not in it. *)

More(n) == IF n < MaxAsked THEN n + 1 ELSE n

Idle == \A c \in Callers : at[c] = "idle"

\* Connect is given a new ICGClient, which starts as any does except for the size
\* of its buffer.  What VClient keeps of the previous one it keeps.
Connect ==
  /\ Idle
  /\ connection \in IF Reconnects THEN {"never", "lost", "closed"} ELSE {"never"}
  /\ connection' = "up"
  /\ asked' = 0
  /\ askedNext' = 0
  /\ m_bStreaming' = FALSE
  /\ net' = <<>>
  /\ newest' = 0
  /\ m_FrameDeque' = <<>>
  /\ m_MaxBufferSize' = m_BufferSize
  /\ taken' = 0
  /\ primed' = FALSE
  /\ UNCHANGED <<current, m_bPreFetch, m_BufferSize, cacheVars, callVars>>

Disconnect ==
  /\ Idle
  /\ connection = "up"
  /\ connection' = "closed"
  /\ UNCHANGED <<current, asked, askedNext, m_bStreaming, net, clientVars, m_bPreFetch,
                 m_BufferSize, cacheVars, callVars, primed>>

SetBufferSize(c, n) ==
  /\ at[c] = "idle"
  /\ m_BufferSize' = n
  /\ IF connection \in {"up", "lost"} THEN Client!Resize(n) ELSE UNCHANGED clientVars
  /\ UNCHANGED <<linkVars, m_bPreFetch, cacheVars, callVars, primed>>

\* The route's SetStreaming: a change is written as a VRequestFrame, and one that
\* ends the streaming asks for a frame as well.
SetStreaming(streaming) ==
  /\ m_bStreaming' = streaming
  /\ asked' = IF m_bStreaming /\ ~streaming THEN More(asked) ELSE asked

SetStreamMode(c, mode) ==
  /\ at[c] = "idle"
  /\ connection = "up"
  /\ SetStreaming(mode = "ServerPush")
  /\ m_bPreFetch' = (mode = "ClientPullPreFetch")
  /\ IF mode = "ClientPullPreFetch"
     THEN /\ Client!Clear
          /\ askedNext' = More(askedNext)
          /\ primed' = TRUE
     ELSE UNCHANGED <<clientVars, askedNext, primed>>
  /\ UNCHANGED <<connection, current, net, m_BufferSize, cacheVars, callVars>>

-----------------------------------------------------------------------------
(* GetFrame, step by step. *)

Goes(c, from, to) == at[c] = from /\ at' = [at EXCEPT ![c] = to]

\* IsConnected, and without prefetching RequestFrame, which a stream makes idle.
GetFrame(c) ==
  /\ connection = "up"
  /\ Goes(c, "idle", "waiting")
  /\ prefetching' = [prefetching EXCEPT ![c] = m_bPreFetch]
  /\ asked' = IF m_bPreFetch \/ m_bStreaming THEN asked ELSE More(asked)
  /\ UNCHANGED <<connection, current, askedNext, m_bStreaming, net, clientVars, m_bPreFetch,
                 m_BufferSize, cacheVars, got, primed>>

\* Mutant: the newest frame is taken and the older ones are left behind.
WaitFrameNewest(c) ==
  /\ Goes(c, "waiting", "fetched")
  /\ m_FrameDeque # <<>>
  /\ taken' = m_FrameDeque[Len(m_FrameDeque)].index
  /\ m_FrameDeque' = SubSeq(m_FrameDeque, 1, Len(m_FrameDeque) - 1)
  /\ got' = [got EXCEPT ![c] = taken']
  /\ UNCHANGED <<linkVars, newest, m_MaxBufferSize, m_bPreFetch, m_BufferSize, cacheVars,
                 prefetching, primed>>

\* Mutant: the number of the frame after the one taken.
WaitFrameOffByOne(c) ==
  /\ Goes(c, "waiting", "fetched")
  /\ Client!TakeOne
  /\ got' = [got EXCEPT ![c] = Head(m_FrameDeque).index + 1]
  /\ UNCHANGED <<linkVars, m_bPreFetch, m_BufferSize, cacheVars, prefetching,
                 primed>>

\* FetchNextFrame: WaitFrame takes the oldest frame of the buffer ...
WaitFrame(c) ==
  /\ Goes(c, "waiting", "fetched")
  /\ Client!TakeOne
  /\ got' = [got EXCEPT ![c] = Head(m_FrameDeque).index]
  /\ UNCHANGED <<linkVars, m_bPreFetch, m_BufferSize, cacheVars, prefetching,
                 primed>>

\* ... or gives up after s_WaitFrameTimeout.
WaitFrameTimesOut(c) ==
  /\ m_FrameDeque = <<>>
  /\ Goes(c, "waiting", "asking")
  /\ UNCHANGED <<linkVars, clientVars, m_bPreFetch, m_BufferSize, cacheVars, prefetching,
                 got, primed>>

\* m_bNewCachedFrame and m_CachedFrame are assigned without m_FrameMutex.
RaiseNewFrame(c) ==
  /\ Goes(c, "fetched", "raised")
  /\ m_bNewCachedFrame' = TRUE
  /\ UNCHANGED <<linkVars, clientVars, m_bPreFetch, m_BufferSize, m_CachedFrame, m_LatestFrame,
                 prefetching, got, primed>>

CacheFrame(c) ==
  /\ Goes(c, "raised", "asking")
  /\ m_CachedFrame' = got[c]
  /\ UNCHANGED <<linkVars, clientVars, m_bPreFetch, m_BufferSize, m_bNewCachedFrame,
                 m_LatestFrame, prefetching, got, primed>>

\* Mutant: the next frame is only requested when this one came.
RequestNextFrameOnSuccess(c) ==
  /\ Goes(c, "asking", "dispatching")
  /\ IF prefetching[c] /\ m_bNewCachedFrame /\ ~m_bStreaming
     THEN askedNext' = More(askedNext) ELSE UNCHANGED askedNext
  /\ primed' = (primed \/ prefetching[c])
  /\ UNCHANGED <<connection, current, asked, m_bStreaming, net, clientVars, m_bPreFetch,
                 m_BufferSize, cacheVars, prefetching, got>>

\* When prefetching, RequestNextFrame whether a frame came or not.
RequestNextFrame(c) ==
  /\ Goes(c, "asking", "dispatching")
  /\ IF prefetching[c] /\ ~m_bStreaming
     THEN askedNext' = More(askedNext) ELSE UNCHANGED askedNext
  /\ primed' = (primed \/ prefetching[c])
  /\ UNCHANGED <<connection, current, asked, m_bStreaming, net, clientVars, m_bPreFetch,
                 m_BufferSize, cacheVars, prefetching, got>>

Forget(c) ==
  /\ prefetching' = [prefetching EXCEPT ![c] = FALSE]
  /\ got' = [got EXCEPT ![c] = NoFrameYet]

\* Mutant: the flag stays up.
DispatchAgain(c) ==
  /\ Goes(c, "dispatching", "idle")
  /\ Forget(c)
  /\ m_LatestFrame' = IF m_bNewCachedFrame THEN m_CachedFrame ELSE m_LatestFrame
  /\ UNCHANGED <<linkVars, clientVars, m_bPreFetch, m_BufferSize, m_bNewCachedFrame,
                 m_CachedFrame, primed>>

\* Under m_FrameMutex the cached frame becomes the latest if it is new; the caller
\* is told NoFrame otherwise.
Dispatch(c) ==
  /\ Goes(c, "dispatching", "idle")
  /\ Forget(c)
  /\ m_bNewCachedFrame' = FALSE
  /\ m_LatestFrame' = IF m_bNewCachedFrame THEN m_CachedFrame ELSE m_LatestFrame
  /\ UNCHANGED <<linkVars, clientVars, m_bPreFetch, m_BufferSize, m_CachedFrame,
                 primed>>

-----------------------------------------------------------------------------

LinkNext == Produce \/ Answer \/ Receive \/ Lose

CallNext(c) ==
  \/ GetFrame(c)
  \/ WaitFrame(c)
  \/ WaitFrameTimesOut(c)
  \/ RaiseNewFrame(c)
  \/ CacheFrame(c)
  \/ RequestNextFrame(c)
  \/ Dispatch(c)

Next ==
  \/ LinkNext
  \/ Connect
  \/ Disconnect
  \/ \E c \in Callers :
       \/ CallNext(c)
       \/ \E n \in Sizes : SetBufferSize(c, n)
       \/ \E mode \in Modes : SetStreamMode(c, mode)

Spec == Init /\ [][Next]_vars

-----------------------------------------------------------------------------

Index == 0..current

TypeOK ==
  /\ connection \in {"never", "up", "lost", "closed"}
  /\ current \in 0..MaxFrames
  /\ asked \in 0..MaxAsked
  /\ askedNext \in 0..MaxAsked
  /\ {m_bStreaming, m_bPreFetch, m_bNewCachedFrame, primed} \subseteq BOOLEAN
  /\ net \in Seq([index : Index])
  /\ m_FrameDeque \in Seq([index : Index])
  /\ {newest, taken, m_CachedFrame, m_LatestFrame} \subseteq Index
  /\ {m_MaxBufferSize, m_BufferSize} \subseteq Nat
  /\ at \in [Callers -> {"idle", "waiting", "fetched", "raised", "asking", "dispatching"}]
  /\ prefetching \in [Callers -> BOOLEAN]
  /\ got \in [Callers -> Index]

\* "As soon as a sample has been received, it will preemptively request the next
\* sample" (DataStreamClient.h): between two calls of GetFrame of a prefetching
\* client that asked once there is always a request under way, a frame under way
\* or a frame in the buffer, whatever timed out, was dropped or was cleared.
PreFetchUnderWay ==
  Idle /\ connection = "up" /\ m_bPreFetch /\ primed
    => askedNext > 0 \/ asked > 0 \/ net # <<>> \/ m_FrameDeque # <<>>

\* Between two calls nothing is left in the cache: GetFrame handed out what it
\* fetched, and the next call cannot succeed without a frame of its own.
NothingCached ==
  Idle => ~m_bNewCachedFrame /\ m_CachedFrame = m_LatestFrame

\* The frame the getters read never goes back to an older one, through any
\* sequence of modes, buffer sizes, time-outs and connections.
LatestAdvances == [][m_LatestFrame' >= m_LatestFrame]_vars
=============================================================================
