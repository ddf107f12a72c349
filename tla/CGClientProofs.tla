---------------------------- MODULE CGClientProofs ----------------------------
(***************************************************************************)
(* What CGClient guarantees for any number of routes, readers, frames and  *)
(* buffer places.  Type correctness and NoSleepOverFrames need nothing but *)
(* the assumptions on the constants.  Order and completeness need a server *)
(* that does not restart its frame IDs (MayReboot = FALSE; with it TRUE    *)
(* the run cgclient_reboot refutes them) and rest on RouteInv, which ties  *)
(* every m_LastFrameIDs entry to the position its route has reached.       *)
(***************************************************************************)
EXTENDS CGClient, SequenceTheorems, TLAPS

-----------------------------------------------------------------------------
(* The buffer operation. *)

\* KeepLast keeps the type, at most n elements, and of s the last ones in order.
LEMMA KeepLastProperties ==
  ASSUME NEW S, NEW s \in Seq(S), NEW n \in Nat
  PROVE  /\ Feed!KeepLast(s, n) \in Seq(S)
         /\ Len(Feed!KeepLast(s, n)) <= n
         /\ Len(Feed!KeepLast(s, n)) <= Len(s)
         /\ n > 0 /\ s # <<>> => Feed!KeepLast(s, n) # <<>>
         /\ \A i \in 1..Len(Feed!KeepLast(s, n)) :
              /\ i + (Len(s) - Len(Feed!KeepLast(s, n))) \in 1..Len(s)
              /\ Feed!KeepLast(s, n)[i] = s[i + (Len(s) - Len(Feed!KeepLast(s, n)))]
<1> DEFINE k == Feed!KeepLast(s, n)
<1>0. Len(s) \in Nat /\ (s = <<>> <=> Len(s) = 0) /\ \A i \in 1..Len(s) : s[i] \in S
  BY EmptySeq, ElementOfSeq, LenProperties
<1>1. CASE Len(s) <= n
  <2>1. k = s
    BY <1>0, <1>1 DEF Feed!KeepLast
  <2>2. QED
    <3> HIDE DEF k
    <3>1. Len(s) - Len(k) = 0 /\ \A i \in 1..Len(s) : i + 0 = i
      BY <1>0, <2>1
    <3>2. QED
      BY <1>0, <1>1, <2>1, <3>1 DEF k
<1>2. CASE Len(s) > n
  <2> DEFINE m == Len(s) - n + 1
  <2>1. k = SubSeq(s, m, Len(s)) /\ m \in Int /\ m >= 1
    BY <1>0, <1>2 DEF Feed!KeepLast
  <2>2. \A i \in m..Len(s) : s[i] \in S
    BY <1>0, <2>1
  <2>3. /\ k \in Seq(S)
        /\ Len(k) = n
        /\ \A i \in 1..n : k[i] = s[m + i - 1]
    <3> HIDE DEF m, k
    <3>1. /\ SubSeq(s, m, Len(s)) \in Seq(S)
          /\ Len(SubSeq(s, m, Len(s))) = IF m <= Len(s) THEN Len(s) - m + 1 ELSE 0
          /\ \A i \in 1..(Len(s) - m + 1) : SubSeq(s, m, Len(s))[i] = s[m + i - 1]
      BY <1>0, <2>1, <2>2, SubSeqProperties
    <3>2. Len(s) - m + 1 = n /\ (m <= Len(s) <=> n > 0)
      BY <1>0 DEF m
    <3>3. QED
      BY <1>0, <2>1, <3>1, <3>2
  <2>4. n > 0 => k # <<>>
    BY <2>3, EmptySeq
  <2>5. QED
    <3> HIDE DEF k
    <3>1. \A i \in 1..n : i + (Len(s) - n) \in 1..Len(s) /\ m + i - 1 = i + (Len(s) - n)
      BY <1>0, <1>2
    <3>2. QED
      BY <1>0, <1>2, <2>3, <2>4, <3>1 DEF k
<1>3. QED
  BY <1>0, <1>1, <1>2

-----------------------------------------------------------------------------
(* Type correctness. *)

\* Taking frames off the deque leaves a deque and a stream position.
LEMMA PollTypes ==
  ASSUME TypeOK, PollFrame \/ PollFrames
  PROVE  m_FrameDeque' \in Seq(FramePair) /\ taken' \in Nat
<1>1. m_FrameDeque \in Seq(FramePair) /\ m_FrameDeque # <<>>
  BY DEF TypeOK, PollFrame, PollFrames
<1>2. /\ Head(m_FrameDeque) \in FramePair
      /\ Tail(m_FrameDeque) \in Seq(FramePair)
      /\ m_FrameDeque[Len(m_FrameDeque)] \in FramePair
  BY <1>1, HeadTailProperties, ElementOfSeq, EmptySeq, LenProperties
<1>3. \A f \in FramePair : f.index \in Nat
  BY ConstantsAssumption DEF FramePair
<1>4. QED
  BY <1>1, <1>2, <1>3, EmptySeq DEF PollFrame, PollFrames

\* The constructor leaves every member with its type.
LEMMA InitTypes == Init => TypeOK
BY ConstantsAssumption, EmptySeq DEF Init, TypeOK, Routes, ThreadState, WaitState

\* Every callback and every operation keeps the types.
LEMMA NextTypes == TypeOK /\ [Next]_vars => TypeOK'
<1> SUFFICES ASSUME TypeOK, [Next]_vars PROVE TypeOK'
  OBVIOUS
<1> USE ConstantsAssumption
<1>a. CASE Produce
  <2>1. PICK id \in NextIDs, s \in Statics : stream' = Append(stream, [id |-> id, statics |-> s])
    BY <1>a DEF Produce
  <2>2. id \in Nat
    <3>1. CASE stream = <<>>
      BY <3>1 DEF NextIDs
    <3>2. CASE stream # <<>>
      <4>1. Len(stream) \in 1..Len(stream)
        BY <3>2, EmptySeq, LenProperties DEF TypeOK
      <4>2. stream[Len(stream)] \in [id : Nat, statics : Statics]
        BY <4>1, ElementOfSeq DEF TypeOK
      <4>3. stream[Len(stream)].id \in Nat
        BY <4>2
      <4>4. QED
        BY <3>2, <4>3 DEF NextIDs
    <3>3. QED
      BY <3>1, <3>2
  <2>3. stream' \in Seq([id : Nat, statics : Statics]) /\ Len(stream') = Len(stream) + 1
    BY <2>1, <2>2, AppendProperties DEF TypeOK
  <2>4. Len(stream) \in Nat /\ Len(stream') <= MaxFrames
    BY <1>a, <2>3, LenProperties DEF Produce, TypeOK
  <2>5. 0..Len(stream) \subseteq 0..Len(stream')
    BY <2>3, <2>4
  <2>6. QED
    BY <1>a, <2>3, <2>4, <2>5 DEF Produce, TypeOK, routeVars, bufferVars, readerVars
<1>b. ASSUME NEW n \in 1..MaxRoutes, Connect(n) PROVE TypeOK'
  BY <1>b DEF Connect, TypeOK, serverVars, bufferVars, readerVars, ThreadState
<1>c. ASSUME NEW r \in Routes, OnConnect(r) \/ ConnectFails(r) PROVE TypeOK'
  BY <1>c DEF OnConnect, ConnectFails, TypeOK, serverVars, bufferVars, readerVars, ThreadState
<1>d. ASSUME NEW r \in Routes, OnStaticObjects(r) PROVE TypeOK'
  <2>1. PICK i \in 1..Len(stream) :
          /\ incoming' = [incoming EXCEPT ![r] = i]
          /\ sent' = [sent EXCEPT ![r] = stream[i].statics]
          /\ m_pLastStaticObjects' = IF sent[r] # stream[i].statics
                                     THEN stream[i].statics ELSE m_pLastStaticObjects
    BY <1>d DEF OnStaticObjects
  <2>2. stream[i] \in [id : Nat, statics : Statics]
    BY ElementOfSeq DEF TypeOK
  <2>3. stream[i].statics \in Statics
    BY <2>2
  <2>4. i \in 0..Len(stream)
    OBVIOUS
  <2>5. QED
    BY <1>d, <2>1, <2>3, <2>4 DEF OnStaticObjects, TypeOK, serverVars, readerVars
<1>e. ASSUME NEW r \in Routes, OnDynamicObjects(r) PROVE TypeOK'
  <2> DEFINE i == incoming[r]
             f == [statics |-> m_pLastStaticObjects, index |-> i]
  <2>0. i \in 1..Len(stream) /\ Len(stream) \in Nat
    BY <1>e, LenProperties DEF OnDynamicObjects, TypeOK
  <2>a. stream[i] \in [id : Nat, statics : Statics]
    BY <2>0, ElementOfSeq DEF TypeOK
  <2>b. i \in 1..MaxFrames
    BY <2>0 DEF TypeOK
  <2>1. i \in 1..Len(stream) /\ f \in FramePair /\ stream[i].id \in Nat
    BY <2>0, <2>a, <2>b DEF TypeOK, FramePair
  <2>2. Feed!KeepLast(Append(m_FrameDeque, f), m_MaxBufferSize) \in Seq(FramePair)
    BY <2>1, KeepLastProperties, AppendProperties DEF TypeOK
  <2>3. NotifyAll \in [Readers -> WaitState]
    BY DEF TypeOK, NotifyAll, WaitState
  <2>4. /\ m_FrameDeque' \in Seq(FramePair)
        /\ newest' \in 0..Len(stream)
        /\ wait' \in [Readers -> WaitState]
    BY <1>e, <2>1, <2>2, <2>3 DEF OnDynamicObjects, PushFrame, TypeOK
  <2>5. QED
    BY <1>e, <2>1, <2>4 DEF OnDynamicObjects, TypeOK, serverVars
<1>f. ASSUME NEW r \in Routes, OnDisconnect(r) PROVE TypeOK'
  BY <1>f DEF OnDisconnect, NotifyAll, TypeOK, serverVars, bufferVars, ThreadState, WaitState
<1>g. CASE Poll
  <2>1. m_FrameDeque' \in Seq(FramePair) /\ taken' \in Nat
    BY <1>g, PollTypes DEF Poll
  <2>2. UNCHANGED <<serverVars, routeVars, readerVars, m_pLastStaticObjects, m_MaxBufferSize, newest>>
    BY <1>g DEF Poll, PollFrame, PollFrames
  <2>3. QED
    BY <2>1, <2>2 DEF TypeOK, serverVars, routeVars, readerVars
<1>h. ASSUME NEW t \in Readers, NEW all \in BOOLEAN, WaitFrame(t, all) PROVE TypeOK'
  <2>1. CASE m_FrameDeque = <<>>
    BY <1>h, <2>1 DEF WaitFrame, TypeOK, serverVars, routeVars, bufferVars, WaitState
  <2>2. CASE m_FrameDeque # <<>>
    <3>1. PollFrame \/ PollFrames
      BY <1>h, <2>2 DEF WaitFrame
    <3>2. UNCHANGED <<serverVars, routeVars, readerVars, m_pLastStaticObjects, m_MaxBufferSize, newest>>
      BY <1>h, <2>2, <3>1 DEF WaitFrame, PollFrame, PollFrames
    <3>3. QED
      BY <3>1, <3>2, PollTypes DEF TypeOK, serverVars, routeVars, readerVars
  <2>3. QED
    BY <2>1, <2>2
<1>i. ASSUME NEW t \in Readers, DeadlinePasses(t) \/ GiveUp(t) PROVE TypeOK'
  BY <1>i DEF DeadlinePasses, GiveUp, TypeOK, serverVars, routeVars, bufferVars, WaitState
<1>j. ASSUME NEW t \in Readers, Wake(t) PROVE TypeOK'
  <2>1. CASE m_FrameDeque = <<>>
    BY <1>j, <2>1 DEF Wake, TypeOK, serverVars, routeVars, bufferVars, WaitState
  <2>2. CASE m_FrameDeque # <<>>
    <3>1. PollFrame \/ PollFrames
      BY <1>j, <2>2 DEF Wake
    <3>2. /\ UNCHANGED <<serverVars, routeVars, wantsAll, m_pLastStaticObjects, m_MaxBufferSize, newest>>
          /\ wait' = [wait EXCEPT ![t] = "idle"]
          /\ late' = [late EXCEPT ![t] = FALSE]
      BY <1>j, <2>2, <3>1 DEF Wake, PollFrame, PollFrames
    <3>3. QED
      BY <3>1, <3>2, PollTypes DEF TypeOK, serverVars, routeVars, WaitState
  <2>3. QED
    BY <2>1, <2>2
<1>k. ASSUME NEW n \in 0..MaxBuffer, SetBufferSize(n) PROVE TypeOK'
  BY <1>k, KeepLastProperties DEF SetBufferSize, TypeOK, serverVars, routeVars, readerVars
<1>l. CASE ClearBuffer
  BY <1>l, EmptySeq DEF ClearBuffer, TypeOK, serverVars, routeVars, readerVars
<1>m. CASE UNCHANGED vars
  BY <1>m DEF vars, TypeOK, serverVars, routeVars, bufferVars, readerVars
<1>n. QED
  BY <1>a, <1>b, <1>c, <1>d, <1>e, <1>f, <1>g, <1>h, <1>i, <1>j, <1>k, <1>l, <1>m
  DEF Next, RouteNext, ReaderNext

\* Every variable keeps its type; in particular no history or route position runs
\* ahead of the stream.
THEOREM TypeCorrect == Spec => []TypeOK
BY InitTypes, NextTypes, PTL DEF Spec

-----------------------------------------------------------------------------
(* Nobody sleeps over a buffered frame. *)

\* Whatever puts a frame in the deque wakes every reader, and a reader only goes
\* to sleep when it saw the deque empty under the mutex.
LEMMA NoSleepStep == TypeOK /\ NoSleepOverFrames /\ [Next]_vars => NoSleepOverFrames'
<1> SUFFICES ASSUME TypeOK, NoSleepOverFrames, [Next]_vars PROVE NoSleepOverFrames'
  OBVIOUS
<1> USE DEF NoSleepOverFrames
<1>1. \A t \in Readers : NotifyAll[t] # "waiting"
  BY DEF NotifyAll, TypeOK
<1>2. ASSUME m_FrameDeque = <<>> => m_FrameDeque' = <<>>, UNCHANGED wait
      PROVE  NoSleepOverFrames'
  BY <1>2
<1>3. ASSUME NEW r \in Routes, OnDynamicObjects(r) PROVE NoSleepOverFrames'
  BY <1>1, <1>3 DEF OnDynamicObjects, PushFrame
<1>4. ASSUME NEW r \in Routes, OnDisconnect(r) PROVE NoSleepOverFrames'
  BY <1>1, <1>4 DEF OnDisconnect
<1>5. CASE Poll
  BY <1>2, <1>5 DEF Poll, PollFrame, PollFrames, readerVars
<1>6. ASSUME NEW t \in Readers, NEW all \in BOOLEAN, WaitFrame(t, all) PROVE NoSleepOverFrames'
  <2>1. CASE m_FrameDeque = <<>>
    BY <1>6, <2>1 DEF WaitFrame, bufferVars
  <2>2. CASE m_FrameDeque # <<>>
    BY <1>2, <1>6, <2>2 DEF WaitFrame, readerVars
  <2>3. QED
    BY <2>1, <2>2
<1>7. ASSUME NEW t \in Readers, DeadlinePasses(t) \/ GiveUp(t) PROVE NoSleepOverFrames'
  BY <1>7 DEF DeadlinePasses, GiveUp, bufferVars, TypeOK
<1>8. ASSUME NEW t \in Readers, Wake(t) PROVE NoSleepOverFrames'
  <2>1. CASE m_FrameDeque = <<>>
    BY <1>8, <2>1 DEF Wake, bufferVars
  <2>2. CASE m_FrameDeque # <<>>
    BY <1>8, <2>2 DEF Wake, TypeOK
  <2>3. QED
    BY <2>1, <2>2
<1>9. ASSUME NEW n \in 0..MaxBuffer, SetBufferSize(n) PROVE NoSleepOverFrames'
  <2>1. m_FrameDeque = <<>> => m_FrameDeque' = <<>>
    BY <1>9, EmptySeq DEF SetBufferSize, Feed!KeepLast
  <2>2. QED
    BY <1>2, <1>9, <2>1 DEF SetBufferSize, readerVars
<1>10. CASE ClearBuffer
  BY <1>10 DEF ClearBuffer
<1>11. CASE Produce
  BY <1>2, <1>11 DEF Produce, bufferVars, readerVars
<1>12. ASSUME NEW n \in 1..MaxRoutes, Connect(n) PROVE NoSleepOverFrames'
  BY <1>2, <1>12 DEF Connect, bufferVars, readerVars
<1>13. ASSUME NEW r \in Routes, OnConnect(r) \/ ConnectFails(r) \/ OnStaticObjects(r)
       PROVE  NoSleepOverFrames'
  BY <1>2, <1>13 DEF OnConnect, ConnectFails, OnStaticObjects, bufferVars, readerVars
<1>14. CASE UNCHANGED vars
  BY <1>2, <1>14 DEF vars, bufferVars, readerVars
<1>15. QED
  BY <1>3, <1>4, <1>5, <1>6, <1>7, <1>8, <1>9, <1>10, <1>11, <1>12, <1>13, <1>14
  DEF Next, RouteNext, ReaderNext

\* A reader sleeps on m_NewFramesCondition only while there is nothing to take,
\* however many readers compete for the frames and however they are interleaved.
THEOREM NobodySleepsOverFrames == Spec => []NoSleepOverFrames
<1>1. Init => NoSleepOverFrames
  BY DEF Init, NoSleepOverFrames
<1>2. QED
  BY <1>1, NoSleepStep, TypeCorrect, PTL DEF Spec

-----------------------------------------------------------------------------
(* Order and completeness, for a server that does not restart its frame IDs. *)

IInv == TypeOK /\ StreamOrdered /\ RouteInv /\ NothingLost

\* Before the first Connect there is nothing to lose.
LEMMA InitInv == Init => StreamOrdered /\ RouteInv /\ NothingLost
BY EmptySeq DEF Init, StreamOrdered, RouteInv, NothingLost, Clients, Routes

\* The IDs the server gives out stay in order and below NoFrame.
LEMMA ProduceOrdered ==
  ASSUME TypeOK, StreamOrdered, Produce, MayReboot = FALSE
  PROVE  /\ StreamOrdered'
         /\ \A i \in 1..Len(stream) : i \in 1..Len(stream') /\ stream'[i] = stream[i]
<1> DEFINE n == Len(stream)
<1>1. PICK id \in NextIDs, s \in Statics :
        id < NoFrame /\ stream' = Append(stream, [id |-> id, statics |-> s])
  BY DEF Produce
<1>2. n \in Nat /\ stream \in Seq([id : Nat, statics : Statics])
  BY LenProperties DEF TypeOK
<1>3. \A i \in 1..n : stream[i].id \in Nat
  <2>1. \A i \in 1..n : stream[i] \in [id : Nat, statics : Statics]
    BY <1>2, ElementOfSeq
  <2>2. QED
    BY <2>1
<1>4. id \in Nat /\ 0 < id /\ \A i \in 1..n : stream[i].id < id
  <2>1. CASE stream = <<>>
    BY <2>1, EmptySeq DEF NextIDs
  <2>2. CASE stream # <<>>
    <3>1. n \in 1..n
      BY <1>2, <2>2, EmptySeq
    <3>2. id = 1 + stream[n].id
      BY <2>2 DEF NextIDs
    <3>3. \A i \in 1..n : i = n \/ stream[i].id < stream[n].id
      BY <1>2, <3>1 DEF StreamOrdered
    <3>4. QED
      BY <1>3, <3>1, <3>2, <3>3
  <2>3. QED
    BY <2>1, <2>2
<1>5. /\ Len(stream') = n + 1
      /\ \A i \in 1..n : stream'[i] = stream[i]
      /\ stream'[n + 1] = [id |-> id, statics |-> s]
  BY <1>1, <1>2, <1>4, AppendProperties
<1>6. \A i \in 1..(n + 1) : i \in 1..n \/ i = n + 1
  BY <1>2
<1>7. stream'[n + 1].id = id
  BY <1>5
<1>8. QED
  <2> HIDE DEF n
  <2>1. \A i \in 1..(n + 1) : 0 < stream'[i].id /\ stream'[i].id < NoFrame
    BY <1>1, <1>4, <1>5, <1>6, <1>7 DEF StreamOrdered, n
  <2>2. ASSUME NEW i \in 1..(n + 1), NEW j \in 1..(n + 1), i < j
        PROVE  stream'[i].id < stream'[j].id
    <3>1. i \in 1..n
      BY <1>2, <2>2 DEF n
    <3>2. CASE j \in 1..n
      BY <1>5, <2>2, <3>1, <3>2 DEF StreamOrdered, n
    <3>3. CASE j = n + 1
      BY <1>4, <1>5, <1>7, <3>1, <3>3
    <3>4. QED
      BY <1>6, <3>2, <3>3
  <2>3. QED
    BY <1>2, <1>5, <2>1, <2>2 DEF StreamOrdered, n

\* The two halves of the test in OnDynamicObjects: what it accepts is newer than
\* all that was accepted before, what it turns away is not.
LEMMA AcceptedIsNewer ==
  ASSUME IInv, NEW r \in Routes, incoming[r] # 0, Accepts(r, stream[incoming[r]].id)
  PROVE  Feed!Follows(newest, incoming[r])
<1> DEFINE i == incoming[r]
<1>1. i \in 1..Len(stream) /\ CanCarry(r, i) /\ newest \in Nat /\ Repeats \in BOOLEAN
  BY ConstantsAssumption DEF IInv, TypeOK, RouteInv
<1>2. CASE newest = 0
  BY <1>1, <1>2 DEF Feed!Follows
<1>3. CASE newest # 0
  <2>1. PICK q \in Routes : seen[q] = newest
    BY <1>3 DEF IInv, NothingLost
  <2>2. CASE q = r
    BY <1>1, <2>1, <2>2 DEF CanCarry, Feed!Follows
  <2>3. CASE q # r
    <3>1. q \in Clients /\ r \in Clients
      BY <1>3, <2>1 DEF IInv, RouteInv
    <3>2. clients # 1
      BY <2>3, <3>1 DEF Clients
    <3>3. newest \in 1..Len(stream) /\ m_LastFrameIDs[q] = stream[newest].id
      BY <1>3, <2>1 DEF IInv, RouteInv, TypeOK
    <3>4. m_LastFrameIDs[q] < NoFrame /\ m_LastFrameIDs[q] \in Nat
      BY <3>3 DEF IInv, StreamOrdered, TypeOK
    <3>5. ~(stream[i].id <= stream[newest].id)
      BY <2>3, <3>1, <3>2, <3>3, <3>4, ConstantsAssumption DEF Accepts, AlreadySeen
    <3>6. stream[i].id \in Nat /\ stream[newest].id \in Nat
      <4>1. stream[i] \in [id : Nat, statics : Statics] /\ stream[newest] \in [id : Nat, statics : Statics]
        BY <1>1, <3>3, ElementOfSeq DEF IInv, TypeOK
      <4>2. QED
        BY <4>1
    <3>7. newest < i
      BY <1>1, <3>3, <3>5, <3>6 DEF IInv, StreamOrdered
    <3>8. QED
      BY <1>1, <3>7 DEF Feed!Follows
  <2>4. QED
    BY <2>2, <2>3
<1>4. QED
  BY <1>2, <1>3

\* What the test turns away some other route had brought already.
LEMMA RejectedIsNotNewer ==
  ASSUME IInv, NEW r \in Routes, incoming[r] # 0, ~Accepts(r, stream[incoming[r]].id)
  PROVE  incoming[r] <= newest
<1> DEFINE i == incoming[r]
<1>1. i \in 1..Len(stream) /\ newest \in Nat
  BY DEF IInv, TypeOK
<1>2. stream[i].id > 0
  BY <1>1 DEF IInv, StreamOrdered
<1>3. PICK q \in Clients \ {r} : m_LastFrameIDs[q] # NoFrame /\ stream[i].id <= m_LastFrameIDs[q]
  BY <1>2 DEF Accepts, AlreadySeen
<1>4. q \in Routes
  BY ConstantsAssumption DEF Clients, Routes, IInv, TypeOK
<1>5. seen[q] \in 1..Len(stream) /\ m_LastFrameIDs[q] = stream[seen[q]].id
  BY <1>3, <1>4 DEF IInv, RouteInv, TypeOK
<1>6. stream[i].id \in Nat /\ stream[seen[q]].id \in Nat
  <2>1. stream[i] \in [id : Nat, statics : Statics] /\ stream[seen[q]] \in [id : Nat, statics : Statics]
    BY <1>1, <1>5, ElementOfSeq DEF IInv, TypeOK
  <2>2. QED
    BY <2>1
<1>7. i <= seen[q]
  BY <1>1, <1>3, <1>5, <1>6 DEF IInv, StreamOrdered
<1>8. QED
  BY <1>1, <1>4, <1>5, <1>7 DEF IInv, NothingLost

\* The inductive step: a server frame, a route's callback or a reader's call.
LEMMA NextInv ==
  ASSUME MayReboot = FALSE
  PROVE  IInv /\ [Next]_vars => IInv'
<1> SUFFICES ASSUME IInv, [Next]_vars PROVE StreamOrdered' /\ RouteInv' /\ NothingLost'
  BY NextTypes DEF IInv
<1> USE ConstantsAssumption
<1>1. ASSUME UNCHANGED <<stream, clients, thread, incoming, seen, m_LastFrameIDs, newest>>
      PROVE  StreamOrdered' /\ RouteInv' /\ NothingLost'
  BY <1>1 DEF IInv, StreamOrdered, RouteInv, NothingLost, Clients, Routes, CanCarry
<1>2. CASE Produce
  <2>1. UNCHANGED <<clients, thread, incoming, seen, m_LastFrameIDs, newest>>
    BY <1>2 DEF Produce, routeVars, bufferVars
  <2>2. StreamOrdered' /\ \A i \in 1..Len(stream) : stream'[i] = stream[i]
    BY <1>2, ProduceOrdered DEF IInv
  <2>3. \A r \in Routes : seen[r] # 0 => seen[r] \in 1..Len(stream)
    BY DEF IInv, TypeOK
  <2>4. RouteInv'
    BY <2>1, <2>2, <2>3 DEF IInv, RouteInv, Clients, Routes, CanCarry
  <2>5. NothingLost'
    BY <2>1 DEF IInv, NothingLost, Routes
  <2>6. QED
    BY <2>2, <2>4, <2>5
<1>3. ASSUME NEW n \in 1..MaxRoutes, Connect(n)
      PROVE  StreamOrdered' /\ RouteInv' /\ NothingLost'
  <2>1. UNCHANGED <<stream, incoming, seen, m_LastFrameIDs, newest>>
    BY <1>3 DEF Connect, serverVars, bufferVars
  <2>2. \A r \in Routes : r \notin Clients' => r \notin Clients /\ thread'[r] = thread[r]
    BY <1>3 DEF Connect, Clients, Routes, IInv, TypeOK
  <2>3. RouteInv'
    BY <2>1, <2>2 DEF IInv, RouteInv, Routes, CanCarry
  <2>4. QED
    BY <2>1, <2>3 DEF IInv, StreamOrdered, NothingLost, Routes
<1>4. ASSUME NEW r \in Routes, OnConnect(r) \/ ConnectFails(r) \/ OnDisconnect(r)
      PROVE  StreamOrdered' /\ RouteInv' /\ NothingLost'
  <2>1. UNCHANGED <<stream, clients, incoming, seen, m_LastFrameIDs, newest>>
    BY <1>4 DEF OnConnect, ConnectFails, OnDisconnect, serverVars, bufferVars
  <2>2. r \in Clients /\ \A q \in Routes \ {r} : thread'[q] = thread[q]
    BY <1>4 DEF OnConnect, ConnectFails, OnDisconnect, IInv, RouteInv, TypeOK
  <2>3. RouteInv'
    BY <2>1, <2>2 DEF IInv, RouteInv, Routes, Clients, CanCarry
  <2>4. QED
    BY <2>1, <2>3 DEF IInv, StreamOrdered, NothingLost, Routes
<1>5. ASSUME NEW r \in Routes, OnStaticObjects(r)
      PROVE  StreamOrdered' /\ RouteInv' /\ NothingLost'
  <2>1. UNCHANGED <<stream, clients, thread, seen, m_LastFrameIDs, newest>>
    BY <1>5 DEF OnStaticObjects, serverVars
  <2>2. /\ r \in Clients
        /\ CanCarry(r, incoming'[r])
        /\ \A q \in Routes \ {r} : incoming'[q] = incoming[q]
    BY <1>5 DEF OnStaticObjects, IInv, RouteInv, TypeOK
  <2>3. RouteInv'
    BY <2>1, <2>2 DEF IInv, RouteInv, Routes, Clients, CanCarry
  <2>4. QED
    BY <2>1, <2>3 DEF IInv, StreamOrdered, NothingLost, Routes
<1>6. ASSUME NEW r \in Routes, OnDynamicObjects(r)
      PROVE  StreamOrdered' /\ RouteInv' /\ NothingLost'
  <2> DEFINE i == incoming[r]
  <2>1. /\ UNCHANGED <<stream, clients, thread>>
        /\ i # 0 /\ i \in 1..Len(stream)
    BY <1>6 DEF OnDynamicObjects, serverVars, IInv, TypeOK
  <2>2. /\ incoming'[r] = 0 /\ seen'[r] = i /\ m_LastFrameIDs'[r] = stream[i].id
        /\ \A q \in Routes \ {r} : /\ incoming'[q] = incoming[q]
                                   /\ seen'[q] = seen[q]
                                   /\ m_LastFrameIDs'[q] = m_LastFrameIDs[q]
    BY <1>6 DEF OnDynamicObjects, IInv, TypeOK
  <2>3. r \in Clients
    BY <2>1 DEF IInv, RouteInv
  <2>4. RouteInv'
    BY <2>1, <2>2, <2>3 DEF IInv, RouteInv, Routes, Clients, CanCarry
  <2>5. \A q \in Routes : seen[q] \in Nat /\ seen[q] <= newest /\ newest \in Nat
    BY DEF IInv, TypeOK, NothingLost
  <2>6. NothingLost'
    <3>1. CASE Accepts(r, stream[i].id)
      <4>1. newest' = i
        BY <1>6, <3>1 DEF OnDynamicObjects, PushFrame
      <4>2. newest <= i
        BY <2>1, <2>5, <3>1, AcceptedIsNewer DEF Feed!Follows, IInv, TypeOK
      <4>3. QED
        BY <2>1, <2>2, <2>5, <4>1, <4>2 DEF NothingLost, Routes
    <3>2. CASE ~Accepts(r, stream[i].id)
      <4>1. newest' = newest
        BY <1>6, <3>2 DEF OnDynamicObjects
      <4>2. i <= newest
        BY <2>1, <3>2, RejectedIsNotNewer
      <4>3. seen[r] <= i
        BY <2>1, <2>5 DEF IInv, RouteInv, CanCarry
      <4>4. ASSUME newest # 0 PROVE \E q \in Routes : seen'[q] = newest
        <5>1. PICK q \in Routes : seen[q] = newest
          BY <4>4 DEF IInv, NothingLost
        <5>2. CASE q = r
          BY <2>1, <2>2, <2>5, <4>2, <4>3, <5>1, <5>2
        <5>3. CASE q # r
          BY <2>2, <5>1, <5>3
        <5>4. QED
          BY <5>2, <5>3
      <4>5. QED
        BY <2>2, <2>5, <4>1, <4>2, <4>4 DEF NothingLost, Routes
    <3>3. QED
      BY <3>1, <3>2
  <2>7. QED
    BY <2>1, <2>4, <2>6 DEF IInv, StreamOrdered
<1>7. CASE ReaderNext
  <2>1. UNCHANGED <<stream, clients, thread, incoming, seen, m_LastFrameIDs, newest>>
    BY <1>7 DEF ReaderNext, Poll, PollFrame, PollFrames, WaitFrame, DeadlinePasses, Wake, GiveUp,
                SetBufferSize, ClearBuffer, serverVars, routeVars, bufferVars
  <2>2. QED
    BY <1>1, <2>1
<1>8. CASE UNCHANGED vars
  BY <1>1, <1>8 DEF vars, serverVars, routeVars, bufferVars
<1>9. QED
  BY <1>2, <1>3, <1>4, <1>5, <1>6, <1>7, <1>8 DEF Next, RouteNext

\* The inductive invariant holds in every state when the server keeps its IDs.
LEMMA InvariantHolds ==
  ASSUME MayReboot = FALSE
  PROVE  Spec => []IInv
<1>1. Init => IInv
  BY InitTypes, InitInv DEF IInv
<1>2. QED
  BY <1>1, NextInv, PTL DEF Spec

\* The feed is as fresh as the freshest route: of any number of routes, in any
\* interleaving, the one that is first with a frame has it accepted.
THEOREM NoFrameLost ==
  ASSUME MayReboot = FALSE
  PROVE  Spec => []NothingLost
<1>1. IInv => NothingLost
  BY DEF IInv
<1>2. QED
  BY <1>1, InvariantHolds, PTL

-----------------------------------------------------------------------------
(* CGClient implements FrameFeed. *)

\* What reading frames does to the feed.
LEMMA PollIsTake ==
  /\ PollFrame  => Feed!TakeOne
  /\ PollFrames => Feed!TakeAll
BY DEF PollFrame, PollFrames, Feed!TakeOne, Feed!TakeAll

\* Every callback and operation is a step of the one feed, or none.
LEMMA FeedStep == IInv /\ [Next]_vars => [Feed!FeedNext]_(Feed!feedVars)
<1> SUFFICES ASSUME IInv, [Next]_vars PROVE Feed!FeedNext \/ UNCHANGED Feed!feedVars
  OBVIOUS
<1>1. CASE UNCHANGED <<newest, m_FrameDeque, m_MaxBufferSize, taken>>
  BY <1>1 DEF Feed!feedVars
<1>2. CASE Produce
  BY <1>1, <1>2 DEF Produce, bufferVars
<1>3. ASSUME NEW n \in 1..MaxRoutes, Connect(n) PROVE Feed!FeedNext \/ UNCHANGED Feed!feedVars
  BY <1>1, <1>3 DEF Connect, bufferVars
<1>4. ASSUME NEW r \in Routes, OnConnect(r) \/ ConnectFails(r) \/ OnStaticObjects(r) \/ OnDisconnect(r)
      PROVE  Feed!FeedNext \/ UNCHANGED Feed!feedVars
  BY <1>1, <1>4 DEF OnConnect, ConnectFails, OnStaticObjects, OnDisconnect, bufferVars
<1>5. ASSUME NEW r \in Routes, OnDynamicObjects(r) PROVE Feed!FeedNext \/ UNCHANGED Feed!feedVars
  <2> DEFINE f == [statics |-> m_pLastStaticObjects, index |-> incoming[r]]
  <2>1. CASE Accepts(r, stream[incoming[r]].id)
    <3>1. f \in FramePair
      <4>1. incoming[r] \in 1..MaxFrames
        BY <1>5, ConstantsAssumption, LenProperties DEF OnDynamicObjects, IInv, TypeOK
      <4>2. QED
        BY <4>1 DEF FramePair, IInv, TypeOK
    <3>2. Feed!Follows(newest, f.index)
      BY <1>5, <2>1, AcceptedIsNewer DEF OnDynamicObjects
    <3>3. Feed!Push(f)
      BY <1>5, <2>1, <3>2 DEF OnDynamicObjects, PushFrame, Feed!Push
    <3>4. QED
      BY <3>1, <3>3 DEF Feed!FeedNext
  <2>2. CASE ~Accepts(r, stream[incoming[r]].id)
    BY <1>1, <1>5, <2>2 DEF OnDynamicObjects
  <2>3. QED
    BY <2>1, <2>2
<1>6. CASE Poll
  BY <1>6, PollIsTake DEF Poll, Feed!FeedNext
<1>7. ASSUME NEW t \in Readers, NEW all \in BOOLEAN, WaitFrame(t, all)
      PROVE  Feed!FeedNext \/ UNCHANGED Feed!feedVars
  <2>1. PollFrame \/ PollFrames \/ UNCHANGED bufferVars
    BY <1>7 DEF WaitFrame
  <2>2. QED
    BY <1>1, <2>1, PollIsTake DEF Feed!FeedNext, bufferVars
<1>8. ASSUME NEW t \in Readers, DeadlinePasses(t) \/ GiveUp(t)
      PROVE  Feed!FeedNext \/ UNCHANGED Feed!feedVars
  BY <1>1, <1>8 DEF DeadlinePasses, GiveUp, bufferVars
<1>9. ASSUME NEW t \in Readers, Wake(t) PROVE Feed!FeedNext \/ UNCHANGED Feed!feedVars
  <2>1. PollFrame \/ PollFrames \/ UNCHANGED bufferVars
    BY <1>9 DEF Wake
  <2>2. QED
    BY <1>1, <2>1, PollIsTake DEF Feed!FeedNext, bufferVars
<1>10. ASSUME NEW n \in 0..MaxBuffer, SetBufferSize(n) PROVE Feed!FeedNext \/ UNCHANGED Feed!feedVars
  BY <1>10 DEF SetBufferSize, Feed!FeedNext, Feed!Resize
<1>11. CASE ClearBuffer
  BY <1>11 DEF ClearBuffer, Feed!FeedNext, Feed!Clear
<1>12. CASE UNCHANGED vars
  BY <1>1, <1>12 DEF vars, bufferVars
<1>13. QED
  BY <1>2, <1>3, <1>4, <1>5, <1>6, <1>7, <1>8, <1>9, <1>10, <1>11, <1>12
  DEF Next, RouteNext, ReaderNext

\* Over any number of routes and readers the client behaves as one feed of ever
\* newer frames: OnDynamicObjects keeps every repeated and every overtaken frame out.
THEOREM ClientImplementsFeed ==
  ASSUME MayReboot = FALSE
  PROVE  Spec => ImplementsFeed
<1>1. Init => Feed!FeedInit
  BY DEF Init, Feed!FeedInit
<1>2. QED
  BY <1>1, FeedStep, InvariantHolds, PTL DEF Spec, ImplementsFeed, Feed!FeedSpec

-----------------------------------------------------------------------------
(* The chain of frames handed out and buffered, proved of the feed. *)

\* Of the frames s, each follows those before it and all of them follow t.
InChain(s, t) ==
  /\ \A i, j \in 1..Len(s) : i < j => Feed!Follows(s[i].index, s[j].index)
  /\ \A i \in 1..Len(s) : Feed!Follows(t, s[i].index)

\* The order of the feed is transitive.
LEMMA FollowsTransitive ==
  ASSUME NEW i \in Nat, NEW j \in Nat, NEW k \in Nat
  PROVE  /\ Feed!Follows(i, j) /\ Feed!Follows(j, k) => Feed!Follows(i, k)
         /\ i <= j /\ Feed!Follows(j, k) => Feed!Follows(i, k)
         /\ Feed!Follows(i, j) => i <= j
BY DEF Feed!Follows

\* A buffered frame has a position in the stream.
LEMMA FrameIndex == \A f \in FramePair : f.index \in Nat
BY ConstantsAssumption DEF FramePair

\* Dropping frames from the front leaves a chain, and its last frame the last.
LEMMA KeepLastChain ==
  ASSUME NEW s \in Seq(FramePair), NEW n \in Nat, NEW t, InChain(s, t)
  PROVE  /\ InChain(Feed!KeepLast(s, n), t)
         /\ Feed!KeepLast(s, n) # <<>> =>
              s # <<>> /\ Feed!KeepLast(s, n)[Len(Feed!KeepLast(s, n))] = s[Len(s)]
<1> DEFINE k == Feed!KeepLast(s, n)
           d == Len(s) - Len(k)
<1>1. /\ k \in Seq(FramePair)
      /\ Len(k) <= Len(s)
      /\ \A i \in 1..Len(k) : i + d \in 1..Len(s) /\ k[i] = s[i + d]
  BY KeepLastProperties
<1>2. Len(k) \in Nat /\ Len(s) \in Nat /\ d \in Nat
  BY <1>1, LenProperties
<1>3. \A i, j \in 1..Len(k) : i < j => i + d < j + d
  BY <1>2
<1>4. InChain(k, t)
  <2> HIDE DEF k, d
  <2>1. \A i, j \in 1..Len(k) : i < j => Feed!Follows(k[i].index, k[j].index)
    BY <1>1, <1>3 DEF InChain
  <2>2. \A i \in 1..Len(k) : Feed!Follows(t, k[i].index)
    BY <1>1 DEF InChain
  <2>3. QED
    BY <2>1, <2>2 DEF InChain
<1>5. ASSUME k # <<>> PROVE s # <<>> /\ k[Len(k)] = s[Len(s)]
  <2>1. Len(k) \in 1..Len(k)
    BY <1>1, <1>2, <1>5, EmptySeq
  <2>2. Len(k) + d = Len(s)
    BY <1>2
  <2> HIDE DEF k, d
  <2>3. s # <<>>
    BY <1>1, <2>1, <2>2, EmptySeq
  <2>4. QED
    BY <1>1, <2>1, <2>2, <2>3
<1>6. QED
  BY <1>4, <1>5

\* A chain can be extended by a frame that follows its last one.
LEMMA AppendChain ==
  ASSUME TypeOK, Feed!Chain, NEW f \in FramePair, Feed!Follows(newest, f.index)
  PROVE  InChain(Append(m_FrameDeque, f), taken)
<1> DEFINE s == m_FrameDeque
           n == Len(s)
           b == Append(s, f)
<1>1. s \in Seq(FramePair) /\ n \in Nat /\ newest \in Nat /\ taken \in Nat /\ f.index \in Nat
  BY FrameIndex, LenProperties DEF TypeOK
<1>2. Len(b) = n + 1 /\ (\A i \in 1..n : b[i] = s[i]) /\ b[n + 1] = f
  BY <1>1, AppendProperties
<1>3. \A i \in 1..n : s[i].index \in Nat
  BY <1>1, ElementOfSeq, FrameIndex
<1>4. \A i \in 1..n : s[i].index <= newest
  <2> SUFFICES ASSUME NEW i \in 1..n PROVE s[i].index <= newest
    OBVIOUS
  <2>1. s # <<>> /\ n \in 1..n
    BY <1>1, EmptySeq
  <2>2. s[n].index = newest
    BY <2>1 DEF Feed!Chain
  <2>3. CASE i = n
    BY <2>2, <2>3, <1>1
  <2>4. CASE i < n
    <3>1. Feed!Follows(s[i].index, s[n].index)
      BY <2>1, <2>4 DEF Feed!Chain
    <3>2. QED
      BY <1>1, <1>3, <2>2, <3>1, FollowsTransitive
  <2>5. QED
    BY <1>1, <2>3, <2>4
<1>5. \A i \in 1..n : Feed!Follows(s[i].index, f.index)
  BY <1>1, <1>3, <1>4, FollowsTransitive
<1>6. Feed!Follows(taken, f.index)
  BY <1>1, FollowsTransitive DEF Feed!Chain
<1>7. \A i \in 1..(n + 1) : i \in 1..n \/ i = n + 1
  BY <1>1
<1>8. ASSUME NEW i \in 1..(n + 1), NEW j \in 1..(n + 1), i < j
      PROVE  Feed!Follows(b[i].index, b[j].index)
  <2>1. i \in 1..n
    BY <1>1, <1>8
  <2>2. CASE j \in 1..n
    <3>1. Feed!Follows(s[i].index, s[j].index)
      BY <1>8, <2>1, <2>2 DEF Feed!Chain
    <3>2. QED
      BY <1>2, <2>1, <2>2, <3>1
  <2>3. CASE j = n + 1
    BY <1>2, <1>5, <2>1, <2>3
  <2>4. QED
    BY <1>7, <2>2, <2>3
<1>9. \A i \in 1..(n + 1) : Feed!Follows(taken, b[i].index)
  BY <1>2, <1>6, <1>7 DEF Feed!Chain
<1>10. QED
  <2> HIDE DEF b, n
  <2>1. QED
    BY <1>2, <1>8, <1>9 DEF InChain, b

\* Every step of a feed keeps its buffer a chain.
LEMMA ChainStep == TypeOK /\ Feed!Chain /\ [Feed!FeedNext]_(Feed!feedVars) => Feed!Chain'
<1> SUFFICES ASSUME TypeOK, Feed!Chain, Feed!FeedNext \/ UNCHANGED Feed!feedVars PROVE Feed!Chain'
  OBVIOUS
<1> DEFINE s == m_FrameDeque
<1>0. /\ s \in Seq(FramePair) /\ Len(s) \in Nat /\ newest \in Nat /\ taken \in Nat
      /\ m_MaxBufferSize \in Nat
      /\ (s # <<>> => Len(s) \in 1..Len(s))
      /\ InChain(s, taken)
  BY LenProperties, EmptySeq DEF TypeOK, Feed!Chain, InChain
<1>1. ASSUME NEW f \in FramePair, Feed!Push(f) PROVE Feed!Chain'
  <2> DEFINE b == Append(s, f)
  <2>1. b \in Seq(FramePair) /\ b[Len(b)] = f /\ InChain(b, taken)
    BY <1>0, <1>1, AppendProperties, AppendChain DEF Feed!Push
  <2>2. /\ s' = Feed!KeepLast(b, m_MaxBufferSize)
        /\ newest' = f.index /\ taken' = taken /\ m_MaxBufferSize' = m_MaxBufferSize
    BY <1>1 DEF Feed!Push
  <2>3. Len(s') <= m_MaxBufferSize' /\ InChain(s', taken') /\ (s' # <<>> => s'[Len(s')] = f)
    <3> HIDE DEF b
    <3> DEFINE k == Feed!KeepLast(b, m_MaxBufferSize)
    <3>1. Len(k) <= m_MaxBufferSize
      BY <1>0, <2>1, KeepLastProperties
    <3>2. InChain(k, taken) /\ (k # <<>> => k[Len(k)] = b[Len(b)])
      BY <1>0, <2>1, KeepLastChain
    <3> HIDE DEF k
    <3>3. s' = k
      BY <2>2 DEF k
    <3>4. InChain(s', taken')
      BY <2>2, <3>2, <3>3 DEF InChain
    <3>5. QED
      BY <2>1, <2>2, <3>1, <3>2, <3>3, <3>4
  <2>4. taken' <= newest'
    BY <1>0, <1>1, <2>2, FrameIndex, FollowsTransitive DEF Feed!Push, Feed!Chain
  <2>5. QED
    BY <2>2, <2>3, <2>4 DEF Feed!Chain, InChain
<1>2. CASE Feed!TakeOne
  <2>1. /\ s # <<>> /\ taken' = s[1].index /\ s' = Tail(s)
        /\ newest' = newest /\ m_MaxBufferSize' = m_MaxBufferSize
    BY <1>2, <1>0 DEF Feed!TakeOne
  <2>2. Len(s') = Len(s) - 1 /\ \A i \in 1..Len(s') : s'[i] = s[i + 1]
    BY <1>0, <2>1, HeadTailProperties
  <2>3. \A i \in 1..Len(s') : i + 1 \in 1..Len(s) /\ 1 < i + 1
    BY <1>0, <2>2
  <2>4. InChain(s', taken')
    <3>1. \A i, j \in 1..Len(s') : i < j => i + 1 < j + 1
      BY <1>0, <2>2
    <3>2. 1 \in 1..Len(s)
      BY <1>0, <2>1
    <3>3. \A i, j \in 1..Len(s') : i < j => Feed!Follows(s'[i].index, s'[j].index)
      BY <1>0, <2>2, <2>3, <3>1 DEF InChain
    <3>4. \A i \in 1..Len(s') : Feed!Follows(taken', s'[i].index)
      BY <1>0, <2>1, <2>2, <2>3, <3>2 DEF InChain
    <3>5. QED
      BY <3>3, <3>4 DEF InChain
  <2>5. s' # <<>> => s'[Len(s')].index = newest'
    <3>1. s' \in Seq(FramePair)
      BY <1>0, <2>1, HeadTailProperties
    <3>2. s' # <<>> => Len(s') \in 1..Len(s') /\ Len(s') + 1 = Len(s)
      BY <1>0, <2>2, <3>1, EmptySeq, LenProperties
    <3>3. QED
      BY <2>1, <2>2, <3>2 DEF Feed!Chain
  <2>6. taken' <= newest'
    <3>1. s[1] \in FramePair /\ s[Len(s)] \in FramePair
      BY <1>0, <2>1, ElementOfSeq
    <3>2. s[1].index \in Nat /\ s[Len(s)].index \in Nat /\ s[Len(s)].index = newest
      BY <2>1, <3>1, FrameIndex DEF Feed!Chain
    <3>0. 1 \in 1..Len(s) /\ Len(s) \in 1..Len(s) /\ (Len(s) = 1 \/ 1 < Len(s))
      <4>1. Len(s) \in Nat /\ Len(s) \in 1..Len(s)
        BY <1>0, <2>1
      <4>2. \A n \in Nat : n \in 1..n => 1 \in 1..n /\ (n = 1 \/ 1 < n)
        OBVIOUS
      <4>3. QED
        BY <4>1, <4>2
    <3>3. Len(s) = 1 \/ Feed!Follows(s[1].index, s[Len(s)].index)
      <4>1. \A i, j \in 1..Len(s) : i < j => Feed!Follows(s[i].index, s[j].index)
        BY DEF Feed!Chain
      <4>2. QED
        BY <3>0, <4>1
    <3>4. s[1].index <= s[Len(s)].index
      <4>1. CASE Len(s) = 1
        BY <3>2, <4>1
      <4>2. CASE Feed!Follows(s[1].index, s[Len(s)].index)
        BY <3>2, <4>2, FollowsTransitive
      <4>3. QED
        BY <3>3, <4>1, <4>2
    <3>5. QED
      BY <2>1, <3>2, <3>4
  <2>7. Len(s') <= m_MaxBufferSize'
    BY <1>0, <2>1, <2>2 DEF Feed!Chain
  <2>8. QED
    BY <2>4, <2>5, <2>6, <2>7 DEF Feed!Chain, InChain
<1>3. ASSUME Len(s') <= m_MaxBufferSize', s' = <<>>, taken' <= newest' PROVE Feed!Chain'
  BY <1>3, EmptySeq DEF Feed!Chain
<1>4. CASE Feed!TakeAll \/ Feed!Clear
  <2>1. taken' <= newest'
    BY <1>0, <1>4 DEF Feed!TakeAll, Feed!Clear, Feed!Chain
  <2>2. s' = <<>> /\ Len(s') <= m_MaxBufferSize'
    BY <1>0, <1>4, EmptySeq DEF Feed!TakeAll, Feed!Clear
  <2>3. QED
    BY <1>3, <2>1, <2>2
<1>5. ASSUME NEW n \in 0..MaxBuffer, Feed!Resize(n) PROVE Feed!Chain'
  <2>1. /\ s' = Feed!KeepLast(s, n) /\ m_MaxBufferSize' = n
        /\ newest' = newest /\ taken' = taken
    BY <1>5 DEF Feed!Resize
  <2>2. /\ Len(s') <= n /\ InChain(s', taken)
        /\ (s' # <<>> => s # <<>> /\ s'[Len(s')] = s[Len(s)])
    BY <1>0, <2>1, KeepLastProperties, KeepLastChain
  <2>3. QED
    BY <2>1, <2>2 DEF Feed!Chain, InChain
<1>6. CASE UNCHANGED Feed!feedVars
  BY <1>6 DEF Feed!feedVars, Feed!Chain
<1>7. QED
  BY <1>1, <1>2, <1>4, <1>5, <1>6 DEF Feed!FeedNext

\* Frames are handed out in stream order, none twice unless the server repeats it,
\* and the buffer, within its bound, ends in the newest accepted frame: with the
\* default size 1 a reader always gets the latest.
THEOREM BufferInOrder ==
  ASSUME MayReboot = FALSE
  PROVE  Spec => []BufferChain
<1>1. Init => Feed!Chain
  BY EmptySeq DEF Init, Feed!Chain
<1>2. IInv => TypeOK
  BY DEF IInv
<1>3. QED
  BY <1>1, <1>2, FeedStep, ChainStep, InvariantHolds, PTL DEF Spec, BufferChain

-----------------------------------------------------------------------------
(* The static objects of a frame, with one route. *)

\* Each frame of s is one of the stream, with the static objects it was made with.
Matched(s) ==
  \A i \in 1..Len(s) : /\ s[i].index \in 1..Len(stream)
                       /\ s[i].statics = stream[s[i].index].statics

\* The route sent what the client holds, and it is what belongs to the frame in hand.
StaticsInv ==
  /\ \A r \in Routes : /\ sent[r] = m_pLastStaticObjects
                       /\ incoming[r] # 0 => m_pLastStaticObjects = stream[incoming[r]].statics
  /\ Matched(m_FrameDeque)

\* t is the end of s.
EndOf(s, t) ==
  \E d \in Nat : /\ Len(s) = Len(t) + d
                 /\ \A i \in 1..Len(t) : i + d \in 1..Len(s) /\ t[i] = s[i + d]

LEMMA PollLeavesEnd ==
  ASSUME TypeOK, PollFrame \/ PollFrames
  PROVE  EndOf(m_FrameDeque, m_FrameDeque')
<1>1. m_FrameDeque \in Seq(FramePair) /\ m_FrameDeque # <<>> /\ Len(m_FrameDeque) \in Nat
  BY LenProperties DEF TypeOK, PollFrame, PollFrames
<1>2. CASE PollFrame
  <2>1. /\ Len(m_FrameDeque') = Len(m_FrameDeque) - 1
        /\ \A i \in 1..Len(m_FrameDeque') : m_FrameDeque'[i] = m_FrameDeque[i + 1]
    BY <1>1, <1>2, HeadTailProperties DEF PollFrame
  <2>2. \A i \in 1..Len(m_FrameDeque') : i + 1 \in 1..Len(m_FrameDeque)
    BY <1>1, <2>1
  <2>3. Len(m_FrameDeque) = Len(m_FrameDeque') + 1
    BY <1>1, <2>1
  <2>4. QED
    BY <2>1, <2>2, <2>3 DEF EndOf
<1>3. CASE PollFrames
  <2>1. m_FrameDeque' = <<>> /\ Len(<<>>) = 0
    BY <1>3, EmptySeq DEF PollFrames
  <2>2. QED
    BY <1>1, <2>1 DEF EndOf
<1>4. QED
  BY <1>2, <1>3

\* Consumers shorten the buffer from its front.
LEMMA ReadersLeaveEnd ==
  ASSUME TypeOK, ReaderNext
  PROVE  /\ EndOf(m_FrameDeque, m_FrameDeque')
         /\ UNCHANGED <<stream, sent, incoming, m_pLastStaticObjects>>
<1>0. m_FrameDeque \in Seq(FramePair) /\ Len(m_FrameDeque) \in Nat
  BY LenProperties DEF TypeOK
<1>1. ASSUME UNCHANGED m_FrameDeque PROVE EndOf(m_FrameDeque, m_FrameDeque')
  <2>1. /\ Len(m_FrameDeque) = Len(m_FrameDeque') + 0
        /\ \A i \in 1..Len(m_FrameDeque') : i + 0 = i /\ m_FrameDeque'[i] = m_FrameDeque[i]
    BY <1>0, <1>1
  <2>2. QED
    BY <1>1, <2>1 DEF EndOf
<1>2. CASE \/ Poll
           \/ \E t \in Readers :
                \/ \E all \in BOOLEAN : WaitFrame(t, all)
                \/ Wake(t)
  <2>1. /\ PollFrame \/ PollFrames \/ UNCHANGED bufferVars
        /\ UNCHANGED <<serverVars, routeVars>>
    BY <1>2 DEF Poll, WaitFrame, Wake
  <2>2. /\ PollFrame \/ PollFrames \/ UNCHANGED m_FrameDeque
        /\ UNCHANGED <<stream, sent, incoming, m_pLastStaticObjects>>
    BY <2>1 DEF PollFrame, PollFrames, serverVars, routeVars, bufferVars
  <2>3. QED
    BY <1>1, <2>2, PollLeavesEnd
<1>3. CASE \E t \in Readers : DeadlinePasses(t) \/ GiveUp(t)
  BY <1>1, <1>3 DEF DeadlinePasses, GiveUp, serverVars, routeVars, bufferVars
<1>4. ASSUME NEW n \in 0..MaxBuffer, SetBufferSize(n)
      PROVE  /\ EndOf(m_FrameDeque, m_FrameDeque')
             /\ UNCHANGED <<stream, sent, incoming, m_pLastStaticObjects>>
  <2> DEFINE k == m_FrameDeque'
  <2>1. k = Feed!KeepLast(m_FrameDeque, n) /\ n \in Nat
    BY <1>4 DEF SetBufferSize
  <2>2. /\ k \in Seq(FramePair)
        /\ Len(k) <= Len(m_FrameDeque)
        /\ \A i \in 1..Len(k) : /\ i + (Len(m_FrameDeque) - Len(k)) \in 1..Len(m_FrameDeque)
                                /\ k[i] = m_FrameDeque[i + (Len(m_FrameDeque) - Len(k))]
    BY <1>0, <2>1, KeepLastProperties
  <2>3. PICK d \in Nat : d = Len(m_FrameDeque) - Len(k)
    BY <1>0, <2>2, LenProperties
  <2>4. Len(m_FrameDeque) = Len(k) + d
    BY <1>0, <2>2, <2>3, LenProperties
  <2>5. QED
    BY <1>4, <2>2, <2>3, <2>4 DEF EndOf, SetBufferSize, serverVars, routeVars
<1>5. CASE ClearBuffer
  <2>1. m_FrameDeque' = <<>> /\ Len(<<>>) = 0
    BY <1>5, EmptySeq DEF ClearBuffer
  <2>2. QED
    BY <1>0, <1>5, <2>1 DEF EndOf, ClearBuffer, serverVars, routeVars
<1>6. QED
  BY <1>2, <1>3, <1>4, <1>5 DEF ReaderNext

LEMMA StaticsStep ==
  ASSUME MaxRoutes = 1, TypeOK, StaticsInv, [Next]_vars
  PROVE  StaticsInv'
<1>1. 1 \in Routes /\ \A r \in Routes : r = 1
  BY DEF Routes
<1>2. Len(stream) \in Nat /\ \A r \in Routes : incoming[r] \in 0..Len(stream)
  BY LenProperties DEF TypeOK
<1>3. CASE Produce
  <2>1. PICK f \in [id : Nat, statics : Statics] : stream' = Append(stream, f)
    <3>1. PICK id \in NextIDs, v \in Statics : stream' = Append(stream, [id |-> id, statics |-> v])
      BY <1>3 DEF Produce
    <3>2. id \in Nat
      <4>1. CASE stream = <<>>
        BY <4>1, ConstantsAssumption DEF NextIDs
      <4>2. CASE stream # <<>>
        <5>0. Len(stream) \in 1..Len(stream)
          BY <4>2, EmptySeq, LenProperties DEF TypeOK
        <5>1. stream[Len(stream)] \in [id : Nat, statics : Statics]
          BY <5>0, ElementOfSeq DEF TypeOK
        <5>2. stream[Len(stream)].id \in Nat
          BY <5>1
        <5>3. QED
          BY <4>2, <5>2 DEF NextIDs
      <4>3. QED
        BY <4>1, <4>2
    <3>3. QED
      BY <3>1, <3>2
  <2>2. /\ Len(stream') = Len(stream) + 1
        /\ \A i \in 1..Len(stream) : stream'[i] = stream[i]
    <3>1. stream \in Seq([id : Nat, statics : Statics])
      BY DEF TypeOK
    <3>2. QED
      BY <2>1, <3>1, AppendProperties
  <2>3. UNCHANGED <<sent, incoming, m_pLastStaticObjects, m_FrameDeque>>
    BY <1>3 DEF Produce, routeVars, bufferVars
  <2>4. \A i \in 1..Len(stream) : i \in 1..Len(stream')
    BY <1>2, <2>2
  <2>5. Matched(m_FrameDeque)'
    BY <2>2, <2>3, <2>4 DEF StaticsInv, Matched
  <2>6. QED
    BY <1>2, <2>2, <2>3, <2>5 DEF StaticsInv
<1>4. CASE ReaderNext
  <2>1. PICK d \in Nat :
          /\ Len(m_FrameDeque) = Len(m_FrameDeque') + d
          /\ \A i \in 1..Len(m_FrameDeque') : /\ i + d \in 1..Len(m_FrameDeque)
                                            /\ m_FrameDeque'[i] = m_FrameDeque[i + d]
    BY <1>4, ReadersLeaveEnd DEF EndOf
  <2>2. UNCHANGED <<stream, sent, incoming, m_pLastStaticObjects>>
    BY <1>4, ReadersLeaveEnd
  <2>3. Matched(m_FrameDeque)'
    BY <2>1, <2>2 DEF StaticsInv, Matched
  <2>4. QED
    BY <2>2, <2>3 DEF StaticsInv
<1>5. ASSUME NEW r \in Routes, OnStaticObjects(r) PROVE StaticsInv'
  <2>1. PICK i \in 1..Len(stream) :
          /\ incoming' = [incoming EXCEPT ![r] = i]
          /\ sent' = [sent EXCEPT ![r] = stream[i].statics]
          /\ m_pLastStaticObjects' = IF sent[r] # stream[i].statics
                                     THEN stream[i].statics ELSE m_pLastStaticObjects
    BY <1>5 DEF OnStaticObjects
  <2>2. m_pLastStaticObjects' = stream[i].statics
    BY <2>1 DEF StaticsInv
  <2>3. sent'[r] = stream[i].statics /\ incoming'[r] = i
    BY <2>1 DEF TypeOK
  <2>4. UNCHANGED <<stream, m_FrameDeque>>
    BY <1>5 DEF OnStaticObjects, serverVars
  <2>5. QED
    BY <1>1, <2>2, <2>3, <2>4 DEF StaticsInv, Matched
<1>6. ASSUME NEW r \in Routes, OnDynamicObjects(r) PROVE StaticsInv'
  <2> DEFINE f == [statics |-> m_pLastStaticObjects, index |-> incoming[r]]
             b == Append(m_FrameDeque, f)
  <2>1. /\ incoming[r] \in 1..Len(stream)
        /\ incoming' = [incoming EXCEPT ![r] = 0]
        /\ UNCHANGED <<stream, sent, m_pLastStaticObjects>>
    BY <1>2, <1>6 DEF OnDynamicObjects, serverVars
  <2>2. incoming'[r] = 0
    BY <2>1 DEF TypeOK
  <2>3. f.index \in 1..Len(stream) /\ f.statics = stream[f.index].statics
    BY <2>1 DEF StaticsInv
  <2>4. f \in FramePair
    BY <1>2, <2>1, ConstantsAssumption DEF TypeOK, FramePair
  <2>5. m_FrameDeque' = m_FrameDeque \/ m_FrameDeque' = Feed!KeepLast(b, m_MaxBufferSize)
    BY <1>6 DEF OnDynamicObjects, PushFrame
  <2> HIDE DEF f
  <2>6. b \in Seq(FramePair) /\ Matched(b)
    <3>1. m_FrameDeque \in Seq(FramePair) /\ Len(m_FrameDeque) \in Nat
      BY LenProperties DEF TypeOK
    <3>2. /\ b \in Seq(FramePair)
          /\ Len(b) = Len(m_FrameDeque) + 1
          /\ \A i \in 1..Len(m_FrameDeque) : b[i] = m_FrameDeque[i]
          /\ b[Len(m_FrameDeque) + 1] = f
      BY <2>4, <3>1, AppendProperties
    <3> HIDE DEF b
    <3>3. \A i \in 1..Len(b) : i \in 1..Len(m_FrameDeque) \/ i = Len(m_FrameDeque) + 1
      BY <3>1, <3>2
    <3>4. QED
      BY <2>3, <3>2, <3>3 DEF StaticsInv, Matched
  <2> HIDE DEF b
  <2>7. Matched(Feed!KeepLast(b, m_MaxBufferSize))
    <3>1. m_MaxBufferSize \in Nat
      BY DEF TypeOK
    <3> DEFINE k == Feed!KeepLast(b, m_MaxBufferSize)
    <3>2. \A i \in 1..Len(k) : /\ i + (Len(b) - Len(k)) \in 1..Len(b)
                              /\ k[i] = b[i + (Len(b) - Len(k))]
      BY <2>6, <3>1, KeepLastProperties
    <3> HIDE DEF k
    <3>3. Matched(k)
      BY <2>6, <3>2 DEF Matched
    <3>4. QED
      BY <3>3 DEF k
  <2>8. Matched(m_FrameDeque)'
    BY <2>1, <2>5, <2>7 DEF StaticsInv, Matched
  <2>9. QED
    BY <1>1, <2>1, <2>2, <2>8 DEF StaticsInv
<1>7. CASE \/ UNCHANGED vars
           \/ \E n \in 1..MaxRoutes : Connect(n)
           \/ \E r \in Routes : OnConnect(r) \/ ConnectFails(r) \/ OnDisconnect(r)
  <2>1. UNCHANGED <<stream, sent, incoming, m_pLastStaticObjects, m_FrameDeque>>
    BY <1>7 DEF vars, Connect, OnConnect, ConnectFails, OnDisconnect,
                serverVars, routeVars, bufferVars
  <2>2. QED
    BY <2>1 DEF StaticsInv, Matched
<1>8. QED
  BY <1>3, <1>4, <1>5, <1>6, <1>7 DEF Next, RouteNext

\* With one route every buffered frame is paired with the static objects in force when it was
\* made (StaticsMatchFrame), however often OnStaticObjects replaced them since.
THEOREM FrameKeepsItsStatics ==
  ASSUME MaxRoutes = 1
  PROVE  Spec => []StaticsMatchFrame
<1>1. Init => StaticsInv
  BY EmptySeq DEF Init, StaticsInv, Matched
<1>2. TypeOK /\ StaticsInv /\ [Next]_vars => StaticsInv'
  BY StaticsStep
<1>3. StaticsInv => StaticsMatchFrame
  BY DEF StaticsInv, Matched, StaticsMatchFrame
<1>4. QED
  BY <1>1, <1>2, <1>3, TypeCorrect, PTL DEF Spec
===============================================================================
