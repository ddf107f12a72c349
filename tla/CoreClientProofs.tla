--------------------------- MODULE CoreClientProofs ---------------------------
(***************************************************************************)
(* What CoreClient guarantees for any number of frames, requests, buffer   *)
(* sizes and reconnections.  Its types hold with any callers of GetFrame.  *)
(* The rest needs a caller that is alone (OneCaller): nothing but the last *)
(* step of GetFrame is under a mutex.                                      *)
(***************************************************************************)
EXTENDS CoreClient, SequenceTheorems, TLAPS

-----------------------------------------------------------------------------
(* Sequences of frames. *)

\* What KeepLast leaves of s is the end of s, and not empty unless s or n is.
LEMMA KeepLastEnd ==
  ASSUME NEW S, NEW s \in Seq(S), NEW n \in Nat
  PROVE  /\ Client!KeepLast(s, n) \in Seq(S)
         /\ n > 0 /\ s # <<>> => Client!KeepLast(s, n) # <<>>
         /\ \E d \in Nat :
              /\ Len(s) = Len(Client!KeepLast(s, n)) + d
              /\ \A i \in 1..Len(Client!KeepLast(s, n)) : Client!KeepLast(s, n)[i] = s[i + d]
<1>1. /\ Len(s) \in Nat
      /\ \A i \in 1..Len(s) : s[i] \in S
  BY ElementOfSeq, LenProperties
<1>2. CASE Len(s) <= n
  <2>1. Client!KeepLast(s, n) = s
    BY <1>1, <1>2 DEF Client!KeepLast
  <2>2. Len(s) = Len(s) + 0 /\ \A i \in 1..Len(s) : s[i] = s[i + 0]
    BY <1>1
  <2>3. QED
    BY <2>1, <2>2
<1>3. CASE Len(s) > n
  <2> DEFINE d == Len(s) - n
             k == SubSeq(s, d + 1, Len(s))
  <2>1. Client!KeepLast(s, n) = k /\ d \in Nat /\ d + 1 \in Int /\ Len(s) - (d + 1) + 1 = n
    BY <1>1, <1>3 DEF Client!KeepLast
  <2>2. \A i \in d + 1..Len(s) : s[i] \in S
    BY <1>1, <2>1
  <2>3. /\ k \in Seq(S)
        /\ Len(k) = n
        /\ \A i \in 1..n : k[i] = s[i + d]
    <3> HIDE DEF d
    <3>1. /\ k \in Seq(S)
          /\ Len(k) = IF d + 1 <= Len(s) THEN Len(s) - (d + 1) + 1 ELSE 0
          /\ \A i \in 1..Len(s) - (d + 1) + 1 : k[i] = s[(d + 1) + i - 1]
      BY <1>1, <2>1, <2>2, SubSeqProperties
    <3>2. Len(k) = n
      BY <1>1, <2>1, <3>1
    <3>3. \A i \in 1..n : (d + 1) + i - 1 = i + d
      BY <2>1
    <3>4. QED
      BY <2>1, <3>1, <3>2, <3>3
  <2>4. Len(s) = Len(k) + d
    BY <1>1, <2>3
  <2>5. n > 0 => k # <<>>
    <3> HIDE DEF k
    <3>1. QED
      BY <2>3, EmptySeq
  <2>6. QED
    <3> HIDE DEF k, d
    <3>1. QED
      BY <2>1, <2>3, <2>4, <2>5
<1>4. QED
  BY <1>1, <1>2, <1>3

\* A buffer with room for a frame is not empty after one came in.
LEMMA PushedIsSome ==
  ASSUME NEW S, NEW s \in Seq(S), NEW f \in S, NEW n \in Nat, n > 0
  PROVE  Client!KeepLast(Append(s, f), n) # <<>>
<1>1. Append(s, f) \in Seq(S)
  BY AppendProperties
<1>2. Append(s, f) # <<>>
  BY AppendProperties
<1>3. QED
  BY <1>1, <1>2, KeepLastEnd

Sorted(s)     == \A i, j \in 1..Len(s) : i < j => s[i].index <= s[j].index
AtLeast(s, n) == \A i \in 1..Len(s) : n <= s[i].index
AtMost(s, n)  == \A i \in 1..Len(s) : s[i].index <= n

Numbered == [index : Nat]

LEMMA NumberedFrames ==
  ASSUME NEW s \in Seq(Numbered)
  PROVE  /\ \A i \in 1..Len(s) : s[i].index \in Nat
         /\ s # <<>> => Head(s) \in Numbered /\ Head(s).index \in Nat
<1>1. \A i \in 1..Len(s) : s[i] \in Numbered
  BY ElementOfSeq
<1>2. s # <<>> => Head(s) \in Numbered
  BY HeadTailProperties
<1>3. QED
  BY <1>1, <1>2 DEF Numbered

\* A sequence may end in any frame as late as its others.
LEMMA AppendOrder ==
  ASSUME NEW s \in Seq(Numbered), NEW f \in Numbered, AtMost(s, f.index)
  PROVE  /\ Sorted(s) => Sorted(Append(s, f))
         /\ AtMost(Append(s, f), f.index)
         /\ \A n \in Nat : n <= f.index /\ AtLeast(s, n) => AtLeast(Append(s, f), n)
<1> DEFINE t == Append(s, f)
<1>1. /\ Len(s) \in Nat
      /\ Len(t) = Len(s) + 1
      /\ t[Len(s) + 1] = f
      /\ \A i \in 1..Len(s) : t[i] = s[i] /\ s[i].index \in Nat
  <2>1. \A i \in 1..Len(s) : s[i] \in Numbered
    BY ElementOfSeq
  <2>2. \A i \in 1..Len(s) : s[i].index \in Nat
    BY <2>1 DEF Numbered
  <2>3. /\ Len(t) = Len(s) + 1
        /\ t[Len(s) + 1] = f
        /\ \A i \in 1..Len(s) : t[i] = s[i]
    BY AppendProperties
  <2>4. QED
    BY <2>2, <2>3, LenProperties
<1>2. f.index \in Nat
  BY DEF Numbered
<1> HIDE DEF t
<1>3. \A i \in 1..Len(t) : i \in 1..Len(s) \/ i = Len(s) + 1
  BY <1>1
<1>4. Sorted(s) => Sorted(t)
  BY <1>1, <1>2, <1>3 DEF Sorted, AtMost
<1>5. AtMost(t, f.index)
  BY <1>1, <1>2, <1>3 DEF AtMost
<1>6. \A n \in Nat : n <= f.index /\ AtLeast(s, n) => AtLeast(t, n)
  BY <1>1, <1>3 DEF AtLeast
<1>7. QED
  BY <1>4, <1>5, <1>6 DEF t

\* The end of a sequence is ordered as the sequence is.
LEMMA EndOrder ==
  ASSUME NEW s \in Seq(Numbered), NEW t \in Seq(Numbered), NEW d \in Nat,
         Len(s) = Len(t) + d, \A i \in 1..Len(t) : t[i] = s[i + d]
  PROVE  /\ Sorted(s) => Sorted(t)
         /\ \A n : AtLeast(s, n) => AtLeast(t, n)
         /\ \A n : AtMost(s, n) => AtMost(t, n)
<1>1. Len(s) \in Nat /\ Len(t) \in Nat
  BY LenProperties
<1>2. \A i \in 1..Len(t) : i + d \in 1..Len(s)
  BY <1>1
<1>3. \A i, j \in 1..Len(t) : i < j => i + d < j + d
  BY <1>1
<1>4. QED
  BY <1>2, <1>3 DEF Sorted, AtLeast, AtMost

LEMMA KeepLastOrder ==
  ASSUME NEW s \in Seq(Numbered), NEW n \in Nat
  PROVE  /\ Sorted(s) => Sorted(Client!KeepLast(s, n))
         /\ \A m : AtLeast(s, m) => AtLeast(Client!KeepLast(s, n), m)
         /\ \A m : AtMost(s, m) => AtMost(Client!KeepLast(s, n), m)
BY KeepLastEnd, EndOrder

LEMMA TailOrder ==
  ASSUME NEW s \in Seq(Numbered), s # <<>>
  PROVE  /\ Sorted(s) => Sorted(Tail(s)) /\ AtLeast(Tail(s), Head(s).index)
         /\ \A m : AtLeast(s, m) => AtLeast(Tail(s), m) /\ m <= Head(s).index
         /\ \A m : AtMost(s, m) => AtMost(Tail(s), m) /\ Head(s).index <= m
<1>1. /\ Tail(s) \in Seq(Numbered)
      /\ Len(Tail(s)) = Len(s) - 1
      /\ \A i \in 1..Len(Tail(s)) : Tail(s)[i] = s[i + 1]
      /\ Len(s) \in Nat /\ Len(s) >= 1
      /\ Head(s) = s[1]
  BY HeadTailProperties, LenProperties, EmptySeq
<1>2. Len(s) = Len(Tail(s)) + 1
  BY <1>1
<1>3. \A i \in 1..Len(Tail(s)) : i + 1 \in 1..Len(s) /\ 1 < i + 1
  BY <1>1
<1>4. Sorted(s) => AtLeast(Tail(s), Head(s).index)
  BY <1>1, <1>3 DEF Sorted, AtLeast
<1>5. /\ Sorted(s) => Sorted(Tail(s))
      /\ \A m : AtLeast(s, m) => AtLeast(Tail(s), m)
      /\ \A m : AtMost(s, m) => AtMost(Tail(s), m)
  BY <1>1, <1>2, EndOrder
<1>6. /\ \A m : AtLeast(s, m) => m <= Head(s).index
      /\ \A m : AtMost(s, m) => Head(s).index <= m
  BY <1>1 DEF AtLeast, AtMost
<1>7. QED
  BY <1>4, <1>5, <1>6

-----------------------------------------------------------------------------
(* Type correctness. *)

\* Index in the next state, which only Produce changes.
LEMMA IndexGrows ==
  ASSUME TypeOK, current' = current \/ (current < MaxFrames /\ current' = current + 1)
  PROVE  /\ current' \in 0..MaxFrames
         /\ Index \subseteq Index'
         /\ [index : Index] \subseteq [index : Index']
<1>1. current \in Nat /\ MaxFrames \in Nat
  BY CoreAssumption DEF TypeOK
<1>2. current' \in 0..MaxFrames /\ Index \subseteq Index'
  BY <1>1 DEF TypeOK, Index
<1>3. QED
  BY <1>2

LEMMA MoreTyped == \A n \in 0..MaxAsked : More(n) \in 0..MaxAsked
BY CoreAssumption DEF More

LEMMA TypeInit == Init => TypeOK
<1> SUFFICES ASSUME Init PROVE TypeOK
  OBVIOUS
<1>1. current \in 0..MaxFrames /\ asked \in 0..MaxAsked /\ askedNext \in 0..MaxAsked
  BY CoreAssumption DEF Init
<1>2. net \in Seq([index : Index]) /\ m_FrameDeque \in Seq([index : Index])
  BY EmptySeq DEF Init, Client!FeedInit
<1>3. 0 \in Index
  BY DEF Init, Index
<1>4. /\ {newest, taken, m_CachedFrame, m_LatestFrame} \subseteq Index
      /\ got \in [Callers -> Index]
      /\ {m_MaxBufferSize, m_BufferSize} \subseteq Nat
  BY <1>3 DEF Init, Client!FeedInit, NoFrameYet
<1>5. QED
  BY <1>1, <1>2, <1>4 DEF Init, TypeOK

LEMMA LinkTypeStep ==
  ASSUME TypeOK, LinkNext
  PROVE  TypeOK'
<1>1. CASE Produce
  <2>1. current' = current + 1 /\ current < MaxFrames /\ current \in Nat
    BY <1>1 DEF Produce, TypeOK
  <2>2. /\ current' \in 0..MaxFrames
        /\ Index \subseteq Index'
        /\ [index : Index] \subseteq [index : Index']
    BY <2>1, IndexGrows
  <2>3. net \in Seq([index : Index']) /\ m_FrameDeque' \in Seq([index : Index'])
    <3>1. m_FrameDeque' = m_FrameDeque
      BY <1>1 DEF Produce, clientVars
    <3>2. QED
      BY <2>2, <3>1, SeqMonotonic DEF TypeOK
  <2>4. [index |-> current'] \in [index : Index']
    BY <2>1 DEF Index
  <2>5. net' \in Seq([index : Index'])
    <3>1. Append(net, [index |-> current']) \in Seq([index : Index'])
      BY <2>3, <2>4, AppendProperties
    <3>2. net' = net \/ net' = Append(net, [index |-> current'])
      BY <1>1 DEF Produce
    <3>3. QED
      BY <2>3, <3>1, <3>2
  <2>6. askedNext' \in 0..MaxAsked
    BY <1>1, CoreAssumption DEF Produce, TypeOK
  <2>7. got' \in [Callers -> Index']
    BY <1>1, <2>2 DEF Produce, TypeOK, callVars
  <2>8. QED
    BY <1>1, <2>2, <2>3, <2>5, <2>6, <2>7 DEF Produce, TypeOK, clientVars, cacheVars, callVars
<1>2. CASE Answer
  <2>1. Index' = Index
    BY <1>2 DEF Answer, Index
  <2>2. [index |-> current] \in [index : Index]
    BY DEF Index, TypeOK
  <2>3. net' \in Seq([index : Index])
    BY <1>2, <2>2, AppendProperties DEF Answer, TypeOK
  <2>4. asked' \in 0..MaxAsked
    BY <1>2, CoreAssumption DEF Answer, TypeOK
  <2>5. QED
    BY <1>2, <2>1, <2>3, <2>4 DEF Answer, TypeOK, clientVars, cacheVars, callVars
<1>3. CASE Receive
  <2>1. Index' = Index
    BY <1>3 DEF Receive, Index
  <2>2. Head(net) \in [index : Index] /\ Tail(net) \in Seq([index : Index])
    BY <1>3, HeadTailProperties DEF Receive, TypeOK
  <2>3. m_FrameDeque' \in Seq([index : Index])
    <3>1. Append(m_FrameDeque, Head(net)) \in Seq([index : Index])
      BY <2>2, AppendProperties DEF TypeOK
    <3>2. m_FrameDeque' = Client!KeepLast(Append(m_FrameDeque, Head(net)), m_MaxBufferSize)
      BY <1>3 DEF Receive, Client!Push
    <3>3. m_MaxBufferSize \in Nat
      BY DEF TypeOK
    <3>4. QED
      BY <3>1, <3>2, <3>3, KeepLastEnd
  <2>4. newest' \in Index
    BY <1>3, <2>2 DEF Receive, Client!Push
  <2>5. QED
    BY <1>3, <2>1, <2>2, <2>3, <2>4
    DEF Receive, Client!Push, TypeOK, clientVars, cacheVars, callVars
<1>4. CASE Lose
  BY <1>4 DEF Lose, TypeOK, Index, clientVars, cacheVars, callVars
<1>5. QED
  BY <1>1, <1>2, <1>3, <1>4 DEF LinkNext

LEMMA OtherTypeStep ==
  ASSUME TypeOK,
         \/ Connect
         \/ Disconnect
         \/ \E c \in Callers, n \in Sizes : SetBufferSize(c, n)
         \/ \E c \in Callers, mode \in Modes : SetStreamMode(c, mode)
  PROVE  TypeOK'
<1>1. CASE Connect
  <2>1. /\ Index' = Index
        /\ 0 \in Index
        /\ 0 \in 0..MaxAsked
    BY <1>1, CoreAssumption DEF Connect, Index, TypeOK
  <2>2. net' \in Seq([index : Index]) /\ m_FrameDeque' \in Seq([index : Index])
    BY <1>1, EmptySeq DEF Connect
  <2>3. QED
    BY <1>1, <2>1, <2>2 DEF Connect, TypeOK, cacheVars, callVars
<1>2. CASE Disconnect
  BY <1>2 DEF Disconnect, TypeOK, Index, clientVars, cacheVars, callVars
<1>3. ASSUME NEW c \in Callers, NEW n \in Sizes, SetBufferSize(c, n) PROVE TypeOK'
  <2>1. n \in Nat /\ Index' = Index
    BY <1>3, CoreAssumption DEF SetBufferSize, linkVars, Index
  <2>2. CASE UNCHANGED clientVars
    BY <1>3, <2>1, <2>2 DEF SetBufferSize, TypeOK, linkVars, clientVars, cacheVars, callVars
  <2>3. CASE Client!Resize(n)
    <3>1. m_FrameDeque' \in Seq([index : Index])
      BY <2>1, <2>3, KeepLastEnd DEF Client!Resize, TypeOK
    <3>2. QED
      BY <1>3, <2>1, <2>3, <3>1
      DEF SetBufferSize, Client!Resize, TypeOK, linkVars, cacheVars, callVars
  <2>4. QED
    BY <1>3, <2>2, <2>3 DEF SetBufferSize
<1>4. ASSUME NEW c \in Callers, NEW mode \in Modes, SetStreamMode(c, mode) PROVE TypeOK'
  <2>1. /\ Index' = Index
        /\ asked' \in 0..MaxAsked
        /\ askedNext' \in 0..MaxAsked
    BY <1>4, MoreTyped DEF SetStreamMode, SetStreaming, TypeOK, Index
  <2>2. m_FrameDeque' \in Seq([index : Index]) /\ UNCHANGED <<newest, m_MaxBufferSize, taken>>
    BY <1>4, EmptySeq DEF SetStreamMode, Client!Clear, TypeOK, clientVars
  <2>3. {m_bStreaming', m_bPreFetch', primed'} \subseteq BOOLEAN
    BY <1>4 DEF SetStreamMode, SetStreaming, TypeOK
  <2>4. QED
    BY <1>4, <2>1, <2>2, <2>3 DEF SetStreamMode, TypeOK, cacheVars, callVars
<1>5. QED
  BY <1>1, <1>2, <1>3, <1>4

LEMMA CallTypeStep ==
  ASSUME TypeOK, NEW c \in Callers, CallNext(c)
  PROVE  TypeOK'
<1> USE DEF TypeOK, Index, Goes
<1>1. CASE GetFrame(c)
  BY <1>1, MoreTyped DEF GetFrame, clientVars, cacheVars
<1>2. CASE WaitFrame(c)
  <2>1. /\ Head(m_FrameDeque) \in [index : Index]
        /\ m_FrameDeque' \in Seq([index : Index])
    BY <1>2, HeadTailProperties DEF WaitFrame, Client!TakeOne
  <2>2. taken' \in Index /\ got' \in [Callers -> Index]
    BY <1>2, <2>1 DEF WaitFrame, Client!TakeOne
  <2>3. QED
    BY <1>2, <2>1, <2>2 DEF WaitFrame, Client!TakeOne, linkVars, cacheVars
<1>3. CASE WaitFrameTimesOut(c)
  BY <1>3 DEF WaitFrameTimesOut, linkVars, clientVars, cacheVars
<1>4. CASE RaiseNewFrame(c)
  BY <1>4 DEF RaiseNewFrame, linkVars, clientVars
<1>5. CASE CacheFrame(c)
  BY <1>5 DEF CacheFrame, linkVars, clientVars
<1>6. CASE RequestNextFrame(c)
  <2>1. askedNext' \in 0..MaxAsked /\ primed' \in BOOLEAN
    BY <1>6, MoreTyped DEF RequestNextFrame
  <2>2. QED
    BY <1>6, <2>1 DEF RequestNextFrame, clientVars, cacheVars
<1>7. CASE Dispatch(c)
  <2>1. current \in Nat /\ NoFrameYet \in Index
    BY CoreAssumption DEF NoFrameYet
  <2>2. prefetching' \in [Callers -> BOOLEAN] /\ got' \in [Callers -> Index]
    BY <1>7, <2>1 DEF Dispatch, Forget
  <2>3. QED
    BY <1>7, <2>2 DEF Dispatch, linkVars, clientVars
<1>8. QED
  BY <1>1, <1>2, <1>3, <1>4, <1>5, <1>6, <1>7 DEF CallNext

LEMMA TypeStep == TypeOK /\ [Next]_vars => TypeOK'
<1> SUFFICES ASSUME TypeOK, [Next]_vars PROVE TypeOK'
  OBVIOUS
<1>1. CASE UNCHANGED vars
  BY <1>1 DEF TypeOK, Index, vars, linkVars, clientVars, cacheVars, callVars
<1>2. QED
  BY <1>1, LinkTypeStep, OtherTypeStep, CallTypeStep DEF Next

\* GetFrame, its connection and its cache only ever are what the code can make of them (TypeOK),
\* with any number of callers.
THEOREM TypeCorrect == Spec => []TypeOK
BY TypeInit, TypeStep, PTL DEF Spec

-----------------------------------------------------------------------------
(* The frames advance. *)

\* One thread at a time is in GetFrame.
OneCaller(c) == Callers = {c}

\* What the server sent and what the buffer holds is in order, the buffer before the net.
InOrder ==
  /\ Sorted(net) /\ AtLeast(net, newest)
  /\ Sorted(m_FrameDeque) /\ AtMost(m_FrameDeque, newest)

\* No frame to come is older than n.
Floor(n) == AtLeast(net, n) /\ AtLeast(m_FrameDeque, n)

\* The frame the caller took, the one it cached and the latest are older than what is to come,
\* and m_bNewCachedFrame is up while the cache is ahead of the latest.
CallOrder(c) ==
  /\ Floor(m_LatestFrame) /\ Floor(m_CachedFrame) /\ Floor(got[c])
  /\ at[c] \in {"idle", "waiting", "fetched"} => ~m_bNewCachedFrame
  /\ at[c] = "raised" => m_bNewCachedFrame
  /\ at[c] \in {"fetched", "raised"} => m_LatestFrame <= got[c]
  /\ m_LatestFrame <= m_CachedFrame
  /\ ~m_bNewCachedFrame => m_CachedFrame = m_LatestFrame

\* All of these are positions in the stream.
LEMMA Positions ==
  ASSUME TypeOK
  PROVE  /\ current \in Nat /\ newest \in Nat /\ newest <= current
         /\ m_LatestFrame \in Nat /\ m_LatestFrame <= current
         /\ m_CachedFrame \in Nat /\ m_CachedFrame <= current
         /\ \A c \in Callers : got[c] \in Nat /\ got[c] <= current
         /\ net \in Seq(Numbered) /\ AtMost(net, current)
         /\ m_FrameDeque \in Seq(Numbered) /\ AtMost(m_FrameDeque, current)
<1>1. current \in Nat /\ \A i \in Index : i \in Nat /\ i <= current
  BY DEF TypeOK, Index
<1>2. /\ newest \in Index /\ m_LatestFrame \in Index /\ m_CachedFrame \in Index
      /\ \A c \in Callers : got[c] \in Index
  BY DEF TypeOK
<1>3. [index : Index] \subseteq Numbered
  BY <1>1 DEF Numbered
<1>4. /\ net \in Seq([index : Index]) /\ net \in Seq(Numbered)
      /\ m_FrameDeque \in Seq([index : Index]) /\ m_FrameDeque \in Seq(Numbered)
  BY <1>3, SeqMonotonic DEF TypeOK
<1>5. AtMost(net, current) /\ AtMost(m_FrameDeque, current)
  <2>1. \A i \in 1..Len(net) : net[i] \in [index : Index]
    BY <1>4, ElementOfSeq
  <2>2. \A i \in 1..Len(m_FrameDeque) : m_FrameDeque[i] \in [index : Index]
    BY <1>4, ElementOfSeq
  <2>3. QED
    BY <1>1, <2>1, <2>2 DEF AtMost
<1>6. QED
  BY <1>1, <1>2, <1>4, <1>5

\* A frame the server sends is as late as any before it.
LEMMA SentOrder ==
  ASSUME TypeOK, InOrder, NEW n \in Nat, current <= n, net' = Append(net, [index |-> n])
  PROVE  /\ Sorted(net') /\ AtLeast(net', newest)
         /\ \A m \in Nat : m <= n /\ AtLeast(net, m) => AtLeast(net', m)
<1> DEFINE f == [index |-> n]
<1>1. f \in Numbered /\ f.index = n
  BY DEF Numbered
<1>2. AtMost(net, f.index)
  <2>1. \A i \in 1..Len(net) : net[i].index \in Nat
    BY Positions, NumberedFrames
  <2>2. QED
    BY <1>1, <2>1, Positions DEF AtMost
<1>3. newest <= n
  BY Positions
<1> HIDE DEF f
<1>4. net' = Append(net, f)
  BY DEF f
<1>5. QED
  BY <1>1, <1>2, <1>3, <1>4, Positions, AppendOrder DEF InOrder

\* A frame that is received follows those in the buffer, and those to come follow it.
LEMMA ReceivedOrder ==
  ASSUME TypeOK, InOrder, Receive
  PROVE  /\ InOrder'
         /\ \A m \in Nat : Floor(m) => Floor(m)'
<1> DEFINE f == Head(net)
           b == Append(m_FrameDeque, f)
<1>1. /\ net # <<>> /\ net' = Tail(net)
      /\ newest' = f.index /\ newest <= f.index
      /\ m_FrameDeque' = Client!KeepLast(b, m_MaxBufferSize)
      /\ m_MaxBufferSize \in Nat
  BY DEF Receive, Client!Push, Client!Follows, TypeOK
<1>2. f \in Numbered /\ f.index \in Nat
  BY <1>1, Positions, NumberedFrames
<1>3. AtMost(m_FrameDeque, f.index)
  <2>1. \A i \in 1..Len(m_FrameDeque) : m_FrameDeque[i].index \in Nat
    BY Positions, NumberedFrames
  <2>2. QED
    BY <1>1, <1>2, <2>1, Positions DEF InOrder, AtMost
<1>4. /\ Sorted(net') /\ AtLeast(net', f.index)
      /\ \A m : AtLeast(net, m) => AtLeast(net', m) /\ m <= f.index
  BY <1>1, Positions, TailOrder DEF InOrder
<1> HIDE DEF f
<1>5. /\ b \in Seq(Numbered)
      /\ Sorted(b) /\ AtMost(b, f.index)
      /\ \A m \in Nat : m <= f.index /\ AtLeast(m_FrameDeque, m) => AtLeast(b, m)
  BY <1>2, <1>3, Positions, AppendOrder, AppendProperties DEF InOrder
<1> HIDE DEF b
<1>6. /\ Sorted(m_FrameDeque') /\ AtMost(m_FrameDeque', f.index)
      /\ \A m : AtLeast(b, m) => AtLeast(m_FrameDeque', m)
  BY <1>1, <1>5, KeepLastOrder
<1>7. InOrder'
  BY <1>1, <1>4, <1>6 DEF InOrder
<1>8. \A m \in Nat : Floor(m) => Floor(m)'
  BY <1>4, <1>5, <1>6 DEF Floor
<1>9. QED
  BY <1>7, <1>8

\* The frame taken is no older than any floor, and becomes one.
LEMMA TakenOrder ==
  ASSUME TypeOK, InOrder, Client!TakeOne, UNCHANGED net
  PROVE  /\ InOrder'
         /\ \E n \in Nat : /\ n = Head(m_FrameDeque).index
                          /\ Floor(n)'
                          /\ \A m : Floor(m) => Floor(m)' /\ m <= n
<1> DEFINE n == Head(m_FrameDeque).index
<1>1. /\ m_FrameDeque # <<>> /\ m_FrameDeque' = Tail(m_FrameDeque)
      /\ newest' = newest
  BY DEF Client!TakeOne
<1>2. n \in Nat
  BY <1>1, Positions, NumberedFrames
<1>3. /\ Sorted(m_FrameDeque') /\ AtLeast(m_FrameDeque', n)
      /\ AtMost(m_FrameDeque', newest) /\ n <= newest
      /\ \A m : AtLeast(m_FrameDeque, m) => AtLeast(m_FrameDeque', m) /\ m <= n
  BY <1>1, Positions, TailOrder DEF InOrder
<1> HIDE DEF n
<1>4. AtLeast(net, n)
  <2>1. \A i \in 1..Len(net) : net[i].index \in Nat
    BY Positions, NumberedFrames
  <2>2. QED
    BY <1>2, <1>3, <2>1, Positions DEF InOrder, AtLeast
<1>5. InOrder'
  BY <1>1, <1>3 DEF InOrder
<1>6. \A m : Floor(m) => Floor(m)' /\ m <= n
  BY <1>3 DEF Floor
<1>7. AtLeast(net', n) /\ AtLeast(m_FrameDeque', n)
  BY <1>3, <1>4
<1>8. \A m : m = n => Floor(m)'
  BY <1>7 DEF Floor
<1>9. PICK m \in Nat : m = n
  BY <1>2
<1>10. QED
  BY <1>5, <1>6, <1>8, <1>9 DEF n

\* A step that leaves the cache and the caller alone keeps their order if it keeps their floors.
LEMMA FloorsKept ==
  ASSUME NEW c \in Callers, CallOrder(c), UNCHANGED <<cacheVars, at, got>>,
         \A m \in {m_LatestFrame, m_CachedFrame, got[c]} : Floor(m) => Floor(m)'
  PROVE  CallOrder(c)'
BY DEF CallOrder, Floor, cacheVars

LEMMA LinkOrderStep ==
  ASSUME NEW c \in Callers, TypeOK, InOrder, CallOrder(c), LinkNext
  PROVE  InOrder' /\ CallOrder(c)' /\ m_LatestFrame' = m_LatestFrame
<1> DEFINE Kept == {m_LatestFrame, m_CachedFrame, got[c]}
<1>0. \A m \in Kept : m \in Nat /\ m <= current
  BY Positions
<1>1. ASSUME NEW n \in Nat, current <= n, net' = Append(net, [index |-> n]),
             UNCHANGED <<clientVars, cacheVars, callVars>>
      PROVE  InOrder' /\ CallOrder(c)' /\ m_LatestFrame' = m_LatestFrame
  <2>1. /\ Sorted(net') /\ AtLeast(net', newest)
        /\ \A m \in Nat : m <= n /\ AtLeast(net, m) => AtLeast(net', m)
    BY <1>1, SentOrder
  <2>2. InOrder'
    BY <1>1, <2>1 DEF InOrder, clientVars
  <2>3. \A m \in Kept : m \in Nat /\ m <= n
    BY <1>0, <1>1, Positions
  <2>4. \A m \in Kept : Floor(m) => Floor(m)'
    BY <1>1, <2>1, <2>3 DEF Floor, clientVars
  <2>5. QED
    BY <1>1, <2>2, <2>4, FloorsKept DEF cacheVars, callVars
<1>2. CASE Produce
  <2>1. CASE UNCHANGED net
    BY <1>2, <2>1, FloorsKept DEF Produce, InOrder, Floor, clientVars, cacheVars, callVars
  <2>2. CASE net' = Append(net, [index |-> current'])
    <3>1. current' \in Nat /\ current <= current'
      BY <1>2, Positions DEF Produce
    <3>2. UNCHANGED <<clientVars, cacheVars, callVars>>
      BY <1>2 DEF Produce
    <3>3. PICK n \in Nat : n = current'
      BY <3>1
    <3>4. QED
      BY <1>1, <2>2, <3>1, <3>2, <3>3
  <2>3. QED
    BY <1>2, <2>1, <2>2 DEF Produce
<1>3. CASE Answer
  <2>1. /\ net' = Append(net, [index |-> current])
        /\ UNCHANGED <<clientVars, cacheVars, callVars>>
        /\ current \in Nat /\ current <= current
    BY <1>3, Positions DEF Answer
  <2>2. QED
    BY <1>1, <2>1
<1>4. CASE Receive
  <2>1. InOrder' /\ \A m \in Kept : Floor(m) => Floor(m)'
    BY <1>0, <1>4, ReceivedOrder
  <2>2. QED
    BY <1>4, <2>1, FloorsKept DEF Receive, cacheVars, callVars
<1>5. CASE Lose
  BY <1>5, FloorsKept DEF Lose, linkVars, InOrder, Floor, clientVars, cacheVars, callVars
<1>6. QED
  BY <1>2, <1>3, <1>4, <1>5 DEF LinkNext

LEMMA OtherOrderStep ==
  ASSUME NEW c \in Callers, TypeOK, InOrder, CallOrder(c),
         \/ Connect
         \/ Disconnect
         \/ \E d \in Callers, n \in Sizes : SetBufferSize(d, n)
         \/ \E d \in Callers, mode \in Modes : SetStreamMode(d, mode)
  PROVE  InOrder' /\ CallOrder(c)' /\ m_LatestFrame' = m_LatestFrame
<1>1. Len(<<>>) = 0 /\ \A n : Sorted(<<>>) /\ AtLeast(<<>>, n) /\ AtMost(<<>>, n)
  BY DEF Sorted, AtLeast, AtMost
<1>2. CASE Connect
  BY <1>1, <1>2, FloorsKept DEF Connect, InOrder, Floor, cacheVars, callVars
<1>3. CASE Disconnect
  BY <1>3, FloorsKept DEF Disconnect, InOrder, Floor, clientVars, cacheVars, callVars
<1>4. ASSUME NEW d \in Callers, NEW n \in Sizes, SetBufferSize(d, n)
      PROVE  InOrder' /\ CallOrder(c)' /\ m_LatestFrame' = m_LatestFrame
  <2>1. CASE UNCHANGED clientVars
    BY <1>4, <2>1, FloorsKept
    DEF SetBufferSize, InOrder, Floor, linkVars, clientVars, cacheVars, callVars
  <2>2. CASE Client!Resize(n)
    <3>1. n \in Nat /\ m_FrameDeque \in Seq(Numbered)
      BY CoreAssumption, Positions
    <3>2. /\ Sorted(m_FrameDeque) => Sorted(m_FrameDeque')
          /\ \A m : AtLeast(m_FrameDeque, m) => AtLeast(m_FrameDeque', m)
          /\ \A m : AtMost(m_FrameDeque, m) => AtMost(m_FrameDeque', m)
          /\ newest' = newest
      BY <2>2, <3>1, KeepLastOrder DEF Client!Resize
    <3>3. QED
      BY <1>4, <3>2, FloorsKept DEF SetBufferSize, InOrder, Floor, linkVars, cacheVars, callVars
  <2>3. QED
    BY <1>4, <2>1, <2>2 DEF SetBufferSize
<1>5. ASSUME NEW d \in Callers, NEW mode \in Modes, SetStreamMode(d, mode)
      PROVE  InOrder' /\ CallOrder(c)' /\ m_LatestFrame' = m_LatestFrame
  <2>1. /\ m_FrameDeque' = m_FrameDeque \/ m_FrameDeque' = <<>>
        /\ UNCHANGED <<net, newest, cacheVars, callVars>>
    BY <1>5 DEF SetStreamMode, Client!Clear, clientVars
  <2>2. QED
    BY <1>1, <2>1, FloorsKept DEF InOrder, Floor, cacheVars, callVars
<1>6. QED
  BY <1>2, <1>3, <1>4, <1>5

LEMMA CallOrderStep ==
  ASSUME NEW c \in Callers, TypeOK, InOrder, CallOrder(c), CallNext(c)
  PROVE  InOrder' /\ CallOrder(c)' /\ m_LatestFrame' >= m_LatestFrame
<1>0. m_LatestFrame \in Nat /\ m_CachedFrame \in Nat /\ got[c] \in Nat
  BY Positions
<1>a. \A d \in Callers : \A f, t : Goes(c, f, t) => at[c] = f /\ at'[c] = t
  BY DEF Goes, TypeOK
<1>1. CASE GetFrame(c)
  BY <1>0, <1>1, <1>a
  DEF GetFrame, InOrder, CallOrder, Floor, clientVars, cacheVars
<1>2. CASE WaitFrame(c)
  <2>1. UNCHANGED <<net, cacheVars>> /\ Client!TakeOne /\ Goes(c, "waiting", "fetched")
    BY <1>2 DEF WaitFrame, linkVars
  <2>2. PICK n \in Nat : /\ n = Head(m_FrameDeque).index
                         /\ Floor(n)'
                         /\ \A m : Floor(m) => Floor(m)' /\ m <= n
    BY <2>1, TakenOrder
  <2>3. got'[c] = n
    BY <1>2, <2>2 DEF WaitFrame, TypeOK
  <2>4. InOrder'
    BY <2>1, TakenOrder
  <2>5. CallOrder(c)'
    BY <1>0, <1>a, <2>1, <2>2, <2>3 DEF CallOrder, Floor, cacheVars
  <2>6. QED
    BY <1>0, <2>1, <2>4, <2>5 DEF cacheVars
<1>3. CASE WaitFrameTimesOut(c)
  BY <1>0, <1>3, <1>a
  DEF WaitFrameTimesOut, InOrder, CallOrder, Floor, linkVars, clientVars, cacheVars
<1>4. CASE RaiseNewFrame(c)
  BY <1>0, <1>4, <1>a
  DEF RaiseNewFrame, InOrder, CallOrder, Floor, linkVars, clientVars
<1>5. CASE CacheFrame(c)
  BY <1>0, <1>5, <1>a
  DEF CacheFrame, InOrder, CallOrder, Floor, linkVars, clientVars
<1>6. CASE RequestNextFrame(c)
  BY <1>0, <1>6, <1>a
  DEF RequestNextFrame, InOrder, CallOrder, Floor, clientVars, cacheVars
<1>7. CASE Dispatch(c)
  <2>1. got'[c] = 0
    BY <1>7 DEF Dispatch, Forget, NoFrameYet, TypeOK
  <2>2. Floor(0)'
    <3>1. /\ \A i \in 1..Len(net) : net[i].index \in Nat
          /\ \A i \in 1..Len(m_FrameDeque) : m_FrameDeque[i].index \in Nat
      BY Positions, NumberedFrames
    <3>2. QED
      BY <1>7, <3>1 DEF Dispatch, Floor, AtLeast, linkVars, clientVars
  <2>3. QED
    BY <1>0, <1>7, <1>a, <2>1, <2>2
    DEF Dispatch, InOrder, CallOrder, Floor, linkVars, clientVars
<1>8. QED
  BY <1>1, <1>2, <1>3, <1>4, <1>5, <1>6, <1>7 DEF CallNext

LEMMA OrderInit ==
  ASSUME NEW c \in Callers, Init
  PROVE  InOrder /\ CallOrder(c)
BY DEF Init, Client!FeedInit, NoFrameYet, InOrder, CallOrder, Floor, Sorted, AtLeast, AtMost

LEMMA OrderStep ==
  ASSUME NEW c, OneCaller(c), TypeOK, InOrder, CallOrder(c), [Next]_vars
  PROVE  InOrder' /\ CallOrder(c)' /\ m_LatestFrame' >= m_LatestFrame
<1>1. c \in Callers /\ \A d \in Callers : d = c
  BY DEF OneCaller
<1>2. m_LatestFrame >= m_LatestFrame
  BY Positions
<1>3. CASE UNCHANGED vars
  BY <1>2, <1>3
  DEF InOrder, CallOrder, Floor, vars, linkVars, clientVars, cacheVars, callVars
<1>4. CASE \E d \in Callers : CallNext(d)
  BY <1>1, <1>4, CallOrderStep
<1>5. QED
  BY <1>1, <1>2, <1>3, <1>4, LinkOrderStep, OtherOrderStep DEF Next

LEMMA OrderKept ==
  ASSUME NEW c, OneCaller(c)
  PROVE  Spec => [](InOrder /\ CallOrder(c))
<1>1. c \in Callers
  BY DEF OneCaller
<1>2. Init => InOrder /\ CallOrder(c)
  BY <1>1, OrderInit
<1>3. TypeOK /\ (InOrder /\ CallOrder(c)) /\ [Next]_vars => (InOrder /\ CallOrder(c))'
  BY OrderStep
<1>4. QED
  BY <1>2, <1>3, TypeCorrect, PTL DEF Spec

\* Between two calls of a single caller nothing is left in the cache (NothingCached): what
\* GetFrame fetched it handed out, whichever of its steps timed out and whatever else was called.
THEOREM NothingStaysCached ==
  ASSUME NEW c, OneCaller(c)
  PROVE  Spec => []NothingCached
<1>1. CallOrder(c) => NothingCached
  BY DEF OneCaller, CallOrder, NothingCached, Idle
<1>2. QED
  BY <1>1, OrderKept, PTL

\* The frame a single caller reads never goes back to an older one (LatestAdvances), through any
\* sequence of modes, buffer sizes, time-outs and connections.
THEOREM LatestNeverOlder ==
  ASSUME NEW c, OneCaller(c)
  PROVE  Spec => LatestAdvances
<1>1. TypeOK /\ (InOrder /\ CallOrder(c)) /\ [Next]_vars => [m_LatestFrame' >= m_LatestFrame]_vars
  BY OrderStep
<1>2. QED
  BY <1>1, TypeCorrect, OrderKept, PTL DEF Spec, LatestAdvances

-----------------------------------------------------------------------------
(* A prefetching client has a frame under way. *)

\* A request can be counted and a frame can be kept.
RoomForOne == MaxAsked > 0 /\ Sizes \subseteq Nat \ {0}

UnderWay == askedNext > 0 \/ asked > 0 \/ net # <<>> \/ m_FrameDeque # <<>>

\* A prefetching client does not stream, the caller knows that it prefetches, and after the
\* request at the end of GetFrame a frame is under way until the next call takes one.
PreFetchKept(c) ==
  /\ m_bPreFetch => ~m_bStreaming
  /\ at[c] # "idle" => prefetching[c] = m_bPreFetch
  /\ connection = "up" /\ m_bPreFetch /\ primed /\ at[c] \in {"idle", "waiting", "dispatching"}
       => UnderWay
  /\ m_MaxBufferSize > 0 /\ m_BufferSize > 0

LEMMA MoreIsSome ==
  ASSUME RoomForOne
  PROVE  \A n \in 0..MaxAsked : More(n) > 0
BY CoreAssumption DEF RoomForOne, More

LEMMA PreFetchStep ==
  ASSUME NEW c, OneCaller(c), RoomForOne, TypeOK, PreFetchKept(c), [Next]_vars
  PROVE  PreFetchKept(c)'
<1> USE DEF PreFetchKept, UnderWay
<1>0. c \in Callers /\ \A d \in Callers : d = c
  BY DEF OneCaller
<1>a. \A f, t : Goes(c, f, t) => at[c] = f /\ at'[c] = t
  BY <1>0 DEF Goes, TypeOK
<1>b. /\ asked \in 0..MaxAsked /\ askedNext \in 0..MaxAsked
      /\ \A n \in 0..MaxAsked : More(n) > 0
  BY MoreIsSome DEF TypeOK
<1>1. CASE Produce
  <2>1. net' = net \/ net' # <<>>
    BY <1>1, AppendProperties DEF Produce, TypeOK
  <2>2. QED
    BY <1>1, <2>1 DEF Produce, clientVars, callVars
<1>2. CASE Answer
  BY <1>2 DEF Answer, clientVars, callVars, TypeOK
<1>3. CASE Receive
  <2>1. m_FrameDeque' = Client!KeepLast(Append(m_FrameDeque, Head(net)), m_MaxBufferSize)
    BY <1>3 DEF Receive, Client!Push
  <2>2. net # <<>> /\ net \in Seq([index : Index])
    BY <1>3 DEF Receive, TypeOK
  <2>3. Head(net) \in [index : Index]
    BY <2>2, HeadTailProperties
  <2>4. /\ m_FrameDeque \in Seq([index : Index])
        /\ m_MaxBufferSize \in Nat /\ m_MaxBufferSize > 0
    BY DEF TypeOK
  <2>5. m_FrameDeque' # <<>>
    BY <2>1, <2>3, <2>4, PushedIsSome
  <2>6. QED
    BY <1>3, <2>5 DEF Receive, Client!Push, callVars
<1>4. CASE Lose
  BY <1>4 DEF Lose, clientVars, callVars
<1>5. CASE Connect
  BY <1>5 DEF Connect, callVars
<1>6. CASE Disconnect
  BY <1>6 DEF Disconnect, clientVars, callVars
<1>7. ASSUME NEW n \in Sizes, SetBufferSize(c, n) PROVE PreFetchKept(c)'
  <2>1. n \in Nat /\ n > 0 /\ m_FrameDeque \in Seq([index : Index])
    BY DEF RoomForOne, TypeOK
  <2>2. m_FrameDeque # <<>> => m_FrameDeque' # <<>>
    BY <1>7, <2>1, KeepLastEnd DEF SetBufferSize, Client!Resize, clientVars
  <2>3. m_MaxBufferSize' > 0 /\ m_BufferSize' > 0
    BY <1>7, <2>1 DEF SetBufferSize, Client!Resize, clientVars
  <2>4. QED
    BY <1>7, <2>2, <2>3 DEF SetBufferSize, linkVars, callVars
<1>8. ASSUME NEW mode \in Modes, SetStreamMode(c, mode) PROVE PreFetchKept(c)'
  BY <1>8, <1>b DEF SetStreamMode, SetStreaming, Client!Clear, clientVars, callVars
<1>9. CASE CallNext(c)
  <2>1. CASE GetFrame(c)
    BY <1>0, <1>a, <1>b, <2>1 DEF GetFrame, clientVars, TypeOK
  <2>2. CASE WaitFrame(c) \/ WaitFrameTimesOut(c) \/ RaiseNewFrame(c) \/ CacheFrame(c)
    BY <1>a, <2>2 DEF WaitFrame, Client!TakeOne, WaitFrameTimesOut, RaiseNewFrame, CacheFrame,
                      linkVars, clientVars
  <2>3. CASE RequestNextFrame(c)
    BY <1>a, <1>b, <2>3 DEF RequestNextFrame, clientVars
  <2>4. CASE Dispatch(c)
    BY <1>a, <2>4 DEF Dispatch, linkVars, clientVars
  <2>5. QED
    BY <1>9, <2>1, <2>2, <2>3, <2>4 DEF CallNext
<1>10. CASE UNCHANGED vars
  BY <1>10 DEF vars, linkVars, clientVars, callVars
<1>11. QED
  BY <1>0, <1>1, <1>2, <1>3, <1>4, <1>5, <1>6, <1>7, <1>8, <1>9, <1>10 DEF Next, LinkNext

\* A prefetching client that asked once has a frame under way between any two calls of its one
\* caller (PreFetchUnderWay), whatever timed out, was shed by the buffer or was cleared.
THEOREM PreFetchNeverDry ==
  ASSUME NEW c, OneCaller(c), RoomForOne
  PROVE  Spec => []PreFetchUnderWay
<1>1. Init => PreFetchKept(c)
  BY DEF Init, OneCaller, PreFetchKept, Client!FeedInit
<1>2. TypeOK /\ PreFetchKept(c) /\ [Next]_vars => PreFetchKept(c)'
  BY PreFetchStep
<1>3. PreFetchKept(c) => PreFetchUnderWay
  BY DEF OneCaller, PreFetchKept, PreFetchUnderWay, UnderWay, Idle
<1>4. QED
  BY <1>1, <1>2, <1>3, TypeCorrect, PTL DEF Spec

=============================================================================
