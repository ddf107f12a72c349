------------------------------ MODULE FrameFeed ------------------------------
(***************************************************************************)
(* What a VCGClient promises the code that calls PollFrame, PollFrames,    *)
(* WaitFrame and WaitFrames, whatever the number of routes the frames come *)
(* in by: one feed of frames, each newer than the one before it, held in a *)
(* buffer of bounded length that sheds its oldest frames and keeps its     *)
(* newest.  Frames may be skipped; none is handed out late or twice.       *)
(*                                                                         *)
(* A frame is the pair the client buffers (TFramePair): the static objects *)
(* in force and the dynamic objects, here the frame's position in the      *)
(* server's stream.                                                        *)
(***************************************************************************)
EXTENDS Naturals, Sequences

CONSTANTS
  Frames,       \* the frames there can be: records with an index in Nat \ {0}
  Sizes,        \* the buffer sizes a caller can ask for
  Repeats       \* may a server answer two frame requests with one frame?

VARIABLES
  newest,       \* the last frame that entered the feed, 0 before the first
  buffer,       \* the frames waiting to be taken, oldest first
  capacity,     \* the largest number of frames kept
  taken         \* the last frame handed out, 0 before the first

feedVars == <<newest, buffer, capacity, taken>>

\* Frame j may follow frame i in the feed.
Follows(i, j) == IF Repeats THEN i <= j ELSE i < j

\* What is left of a queue that pops its front until n frames are left.
KeepLast(s, n) == IF Len(s) > n THEN SubSeq(s, Len(s) - n + 1, Len(s)) ELSE s

FeedInit ==
  /\ newest = 0
  /\ buffer = <<>>
  /\ capacity = 1
  /\ taken = 0

Push(f) ==
  /\ Follows(newest, f.index)
  /\ newest' = f.index
  /\ buffer' = KeepLast(Append(buffer, f), capacity)
  /\ UNCHANGED <<capacity, taken>>

TakeOne ==
  /\ buffer # <<>>
  /\ taken' = Head(buffer).index
  /\ buffer' = Tail(buffer)
  /\ UNCHANGED <<newest, capacity>>

TakeAll ==
  /\ buffer # <<>>
  /\ taken' = buffer[Len(buffer)].index
  /\ buffer' = <<>>
  /\ UNCHANGED <<newest, capacity>>

Resize(n) ==
  /\ capacity' = n
  /\ buffer' = KeepLast(buffer, n)
  /\ UNCHANGED <<newest, taken>>

Clear ==
  /\ buffer' = <<>>
  /\ UNCHANGED <<newest, capacity, taken>>

FeedNext ==
  \/ \E f \in Frames : Push(f)
  \/ TakeOne
  \/ TakeAll
  \/ \E n \in Sizes : Resize(n)
  \/ Clear

FeedSpec == FeedInit /\ [][FeedNext]_feedVars

-----------------------------------------------------------------------------

\* The frames that were and will be handed out form one chain: the frame taken
\* last, then the buffered frames from the oldest on.  The buffer is within its
\* capacity and, when there is anything in it, ends in the newest frame.
Chain ==
  /\ Len(buffer) <= capacity
  /\ \A i, j \in 1..Len(buffer) : i < j => Follows(buffer[i].index, buffer[j].index)
  /\ \A i \in 1..Len(buffer) : Follows(taken, buffer[i].index)
  /\ taken <= newest
  /\ buffer # <<>> => buffer[Len(buffer)].index = newest
=============================================================================
