-------------------------- MODULE ObjectCacheProofs --------------------------
(***************************************************************************)
(* What ObjectCache guarantees for any types, any objects and any number   *)
(* of packets under way.  UnchangedKept is not inductive: that a type left *)
(* out of a packet is one the client still holds needs to know that the    *)
(* packets under way are a chain, each leaving out only what is as it was  *)
(* in the one before (ChainInv).                                           *)
(***************************************************************************)
EXTENDS ObjectCache, SequenceTheorems, TLAPS

\* What the server had when it sent the packet before the i-th of some packets, the first of
\* which came after `first'.
Before(first, packets, i) == IF i = 1 THEN first ELSE packets[i - 1].now

\* Each packet under way has a frame number, leaves out only what did not change since
\* the packet before, and the server remembers the last of them.
ChainInv ==
  /\ \A i \in 1..Len(net) :
       /\ "FrameInfo" \in Present(net[i])
       /\ \A t \in net[i].unchanged : net[i].now[t] = Before(shown, net, i)[t]
  /\ last = IF net = <<>> THEN shown ELSE net[Len(net)].now

IInv == TypeOK /\ ChainInv /\ UnchangedKept /\ NothingLeftOver

-----------------------------------------------------------------------------
(* The sorts of objects. *)

\* No type is of both sorts, and CopyObjects takes over only types of its sort.
LEMMA SortsApart ==
  /\ StaticTypes \cap DynamicTypes = {}
  /\ CopiedStatic \subseteq StaticTypes
  /\ CopiedDynamic \subseteq DynamicTypes
  /\ "FrameInfo" \in DynamicTypes
BY DEF StaticTypes, DynamicTypes, DynamicPoints, DynamicDevices, CopiedStatic, CopiedDynamic

\* CopyObjects knows all types but the forgotten ones.
LEMMA CopiedUnlessForgotten ==
  /\ StaticTypes = CopiedStatic /\ StaticTypes \cap Forgotten = {}
  /\ DynamicTypes \ Forgotten = CopiedDynamic
BY DEF StaticTypes, DynamicTypes, DynamicPoints, DynamicDevices, CopiedStatic, CopiedDynamic,
       Forgotten

LEMMA KeptTypes == Types \ Forgotten = Types \cap (CopiedStatic \cup CopiedDynamic)
BY CopiedUnlessForgotten, CacheAssumption

-----------------------------------------------------------------------------
(* What a packet makes of the objects held. *)

\* A sort of objects and the types of it that CopyObjects knows, and what is held of it.
Sort(S, copied) == S \in {StaticTypes, DynamicTypes} /\ copied \subseteq S
Holding(S) == [Types \cap S -> Content] \cup {Null}

LEMMA Sorts ==
  /\ Sort(StaticTypes, CopiedStatic) /\ Holding(StaticTypes) = StaticObjects \cup {Null}
  /\ Sort(DynamicTypes, CopiedDynamic) /\ Holding(DynamicTypes) = DynamicObjects \cup {Null}
BY SortsApart DEF Sort, Holding, StaticObjects, DynamicObjects

\* What a sort holds after a packet has its type.
LEMMA HoldType ==
  ASSUME NEW S, NEW copied, Sort(S, copied), NEW p \in Packet, NEW old \in Holding(S)
  PROVE  Hold(S, copied, p, old, Read(S, p)) \in Holding(S)
<1>1. Read(S, p) \in [Types \cap S -> Content]
  BY DEF Read, Present, Content, Packet, Sort
<1>2. Null \notin [Types \cap S -> Content]
  BY CacheAssumption DEF StaticObjects, DynamicObjects, Sort
<1>3. ASSUME old # Null
      PROVE  CopyObjects(copied, p, old, Read(S, p)) \in [Types \cap S -> Content]
  BY <1>1, <1>3 DEF CopyObjects, Holding
<1>4. QED
  BY <1>1, <1>3 DEF Hold, Holding

\* A type that is in the packet is held as it is there, and one that was left out and is
\* known to CopyObjects is held as before.
LEMMA HoldKeeps ==
  ASSUME NEW S, NEW copied, Sort(S, copied), NEW p \in Packet, NEW old \in Holding(S),
         NEW t \in Types \cap copied, p.now[t] \in Values,
         t \in p.unchanged => old # Null /\ old[t] = p.now[t]
  PROVE  /\ Hold(S, copied, p, old, Read(S, p)) # Null
         /\ Hold(S, copied, p, old, Read(S, p))[t] = p.now[t]
<1>1. /\ Read(S, p) \in [Types \cap S -> Content]
      /\ t \in Types \cap S
  BY DEF Read, Present, Content, Packet, Sort
<1>2. Null \notin [Types \cap S -> Content]
  BY CacheAssumption DEF StaticObjects, DynamicObjects, Sort
<1>3. CASE t \in p.unchanged
  <2>1. CASE Present(p) \cap S = {}
    BY <1>3, <2>1 DEF Hold, Holding
  <2>2. CASE Present(p) \cap S # {}
    <3>1. Hold(S, copied, p, old, Read(S, p)) = CopyObjects(copied, p, old, Read(S, p))
      BY <1>3, <2>2 DEF Hold, Holding
    <3>2. CopyObjects(copied, p, old, Read(S, p)) \in [Types \cap S -> Content]
      BY <1>1, <1>3 DEF CopyObjects, Holding
    <3>3. CopyObjects(copied, p, old, Read(S, p))[t] = old[t]
      BY <1>1, <1>3 DEF CopyObjects, Holding
    <3>4. QED
      BY <1>2, <1>3, <3>1, <3>2, <3>3
  <2>3. QED
    BY <2>1, <2>2
<1>4. CASE t \notin p.unchanged
  <2>1. t \in Present(p) \cap S
    BY <1>1, <1>4 DEF Present
  <2>2. Read(S, p)[t] = p.now[t]
    BY <1>1, <2>1 DEF Read
  <2>3. CASE old = Null
    BY <1>1, <1>2, <2>1, <2>2, <2>3 DEF Hold, Holding
  <2>4. CASE old # Null
    <3>1. Hold(S, copied, p, old, Read(S, p)) = CopyObjects(copied, p, old, Read(S, p))
      BY <2>1, <2>4 DEF Hold, Holding
    <3>2. CopyObjects(copied, p, old, Read(S, p)) \in [Types \cap S -> Content]
      BY <1>1, <2>4 DEF CopyObjects, Holding
    <3>3. CopyObjects(copied, p, old, Read(S, p))[t] = Read(S, p)[t]
      BY <1>1, <1>4 DEF CopyObjects, Holding
    <3>4. QED
      BY <1>2, <2>2, <3>1, <3>2, <3>3
  <2>5. QED
    BY <2>3, <2>4
<1>5. QED
  BY <1>3, <1>4

\* If the packet brings anything of a sort, a type the server has nothing of is empty,
\* unless it was left out and there was something of it before.
LEMMA HoldDrops ==
  ASSUME NEW S, NEW copied, Sort(S, copied), NEW p \in Packet, NEW old \in Holding(S),
         NEW t \in Types \cap S, p.now[t] \notin Values, Present(p) \cap S # {},
         t \in p.unchanged /\ old # Null => old[t] = Nothing
  PROVE  /\ Hold(S, copied, p, old, Read(S, p)) # Null
         /\ Hold(S, copied, p, old, Read(S, p))[t] = Nothing
<1>1. Read(S, p) \in [Types \cap S -> Content] /\ Read(S, p)[t] = Nothing
  BY DEF Read, Present, Content, Packet, Sort
<1>2. Null \notin [Types \cap S -> Content]
  BY CacheAssumption DEF StaticObjects, DynamicObjects, Sort
<1>3. CASE old = Null
  BY <1>1, <1>2, <1>3 DEF Hold, Holding
<1>4. CASE old # Null
  <2>1. Hold(S, copied, p, old, Read(S, p)) = CopyObjects(copied, p, old, Read(S, p))
    BY <1>4 DEF Hold, Holding
  <2>2. CopyObjects(copied, p, old, Read(S, p)) \in [Types \cap S -> Content]
    BY <1>1, <1>4 DEF CopyObjects, Holding
  <2>3. CopyObjects(copied, p, old, Read(S, p))[t] = Nothing
    BY <1>1, <1>4 DEF CopyObjects, Holding
  <2>4. QED
    BY <1>2, <2>1, <2>2, <2>3
<1>5. QED
  BY <1>3, <1>4

-----------------------------------------------------------------------------
(* Types. *)

LEMMA TypesInitially == Init => TypeOK
BY EmptySeq DEF Init, TypeOK, NoTable, Table

LEMMA TypesPreserved == TypeOK /\ [Next]_vars => TypeOK'
<1> SUFFICES ASSUME TypeOK, [Next]_vars
             PROVE  TypeOK'
  OBVIOUS
<1>1. ASSUME NEW now \in Table, NEW left \in SUBSET Types, Send(now, left)
      PROVE  TypeOK'
  <2>1. [now |-> now, unchanged |-> left] \in Packet
    BY DEF Packet
  <2>2. net' \in Seq(Packet)
    BY <1>1, <2>1, AppendProperties DEF Send, TypeOK
  <2>3. QED
    BY <1>1, <2>2 DEF Send, TypeOK
<1>2. CASE Connect
  BY <1>2, EmptySeq DEF Connect, TypeOK, NoTable, Table
<1>3. CASE ReadObjects
  <2>1. Head(net) \in Packet /\ net' \in Seq(Packet)
    BY <1>3, HeadTailProperties DEF ReadObjects, TypeOK
  <2>2. m_pStaticObjects' \in StaticObjects \cup {Null}
    BY <1>3, <2>1, HoldType, Sorts DEF ReadObjects, ReadStatic, TypeOK
  <2>3. m_pDynamicObjects' \in DynamicObjects \cup {Null}
    BY <1>3, <2>1, HoldType, Sorts DEF ReadObjects, ReadDynamic, TypeOK
  <2>4. shown' \in Table
    BY <1>3, <2>1 DEF ReadObjects, Packet
  <2>5. QED
    BY <1>3, <2>1, <2>2, <2>3, <2>4 DEF ReadObjects, TypeOK
<1>4. CASE ReadObjectsFails
  BY <1>4 DEF ReadObjectsFails, TypeOK
<1>5. CASE UNCHANGED vars
  BY <1>5 DEF vars, TypeOK
<1>6. QED
  BY <1>1, <1>2, <1>3, <1>4, <1>5 DEF Next

-----------------------------------------------------------------------------
(* The chain of packets. *)

\* The chain has a new last packet.
LEMMA SendChains ==
  ASSUME TypeOK, ChainInv, NEW now \in Table, NEW left \in SUBSET Types, Send(now, left)
  PROVE  ChainInv'
<1> DEFINE p == [now |-> now, unchanged |-> left]
           n == Len(net)
<1>1. net' = Append(net, p) /\ shown' = shown /\ last' = now
  BY DEF Send
<1>2. /\ n \in Nat /\ net' # <<>> /\ Len(net') = n + 1
      /\ \A i \in 1..n : net'[i] = net[i]
      /\ net'[n + 1] = p
  BY <1>1, LenProperties, AppendProperties DEF TypeOK
<1>3. "FrameInfo" \in Present(p)
  BY CacheAssumption DEF Send, Present, Table
<1>4. Before(shown', net', n + 1) = last
  <2>1. CASE net = <<>>
    <3>1. n = 0
      BY <2>1
    <3>2. QED
      BY <1>1, <2>1, <3>1 DEF Before, ChainInv
  <2>2. CASE net # <<>>
    <3>1. n >= 1 /\ n + 1 # 1 /\ (n + 1) - 1 = n
      BY <1>2, <2>2, EmptySeq DEF TypeOK
    <3>2. QED
      BY <1>2, <2>2, <3>1 DEF Before, ChainInv
  <2>3. QED
    BY <2>1, <2>2
<1>5. ASSUME NEW i \in 1..n
      PROVE  Before(shown', net', i) = Before(shown, net, i)
  <2>1. i # 1 => i - 1 \in 1..n
    BY <1>2
  <2>2. QED
    BY <1>1, <1>2, <2>1 DEF Before
<1>6. ASSUME NEW i \in 1..Len(net')
      PROVE  /\ "FrameInfo" \in Present(net'[i])
             /\ \A t \in net'[i].unchanged : net'[i].now[t] = Before(shown', net', i)[t]
  <2>1. CASE i = n + 1
    BY <1>2, <1>3, <1>4, <2>1 DEF Send
  <2>2. CASE i \in 1..n
    BY <1>2, <1>5, <2>2 DEF ChainInv
  <2>3. QED
    BY <1>2, <2>1, <2>2
<1>7. last' = net'[Len(net')].now
  BY <1>1, <1>2
<1>8. QED
  BY <1>2, <1>6, <1>7 DEF ChainInv, Before, Present

\* The chain loses its first packet, which is now the one before.
LEMMA ReadChains ==
  ASSUME TypeOK, ChainInv, ReadObjects
  PROVE  ChainInv'
<1> DEFINE n == Len(net)
<1>1. net # <<>> /\ net' = Tail(net) /\ shown' = Head(net).now /\ last' = last
  BY DEF ReadObjects
<1>2. /\ n \in Nat /\ n >= 1 /\ Len(net') = n - 1
      /\ \A i \in 1..(n - 1) : net'[i] = net[i + 1]
      /\ Head(net) = net[1]
  BY <1>1, LenProperties, EmptySeq, HeadTailProperties DEF TypeOK
<1>3. ASSUME NEW i \in 1..(n - 1)
      PROVE  Before(shown', net', i) = Before(shown, net, i + 1)
  <2>1. i + 1 # 1 /\ (i + 1) - 1 = i
    BY <1>2
  <2>2. CASE i = 1
    BY <1>1, <1>2, <2>1, <2>2 DEF Before
  <2>3. CASE i # 1
    <3>1. i - 1 \in 1..(n - 1) /\ (i - 1) + 1 = i
      BY <1>2, <2>3
    <3>2. QED
      BY <1>2, <2>1, <2>3, <3>1 DEF Before
  <2>4. QED
    BY <2>2, <2>3
<1>4. ASSUME NEW i \in 1..(n - 1)
      PROVE  /\ "FrameInfo" \in Present(net'[i])
             /\ \A t \in net'[i].unchanged : net'[i].now[t] = Before(shown', net', i)[t]
  <2>1. i + 1 \in 1..n
    BY <1>2
  <2>2. QED
    BY <1>2, <1>3, <2>1 DEF ChainInv
<1>5. last' = IF net' = <<>> THEN shown' ELSE net'[Len(net')].now
  <2>1. CASE n = 1
    <3>1. net' = <<>>
      BY <1>1, <1>2, <2>1, EmptySeq, HeadTailProperties DEF TypeOK
    <3>2. QED
      BY <1>1, <1>2, <2>1, <3>1 DEF ChainInv
  <2>2. CASE n # 1
    <3>1. n - 1 \in 1..(n - 1) /\ (n - 1) + 1 = n /\ net' # <<>>
      BY <1>2, <2>2
    <3>2. QED
      BY <1>1, <1>2, <3>1 DEF ChainInv
  <2>3. QED
    BY <2>1, <2>2
<1>6. QED
  BY <1>2, <1>4, <1>5 DEF ChainInv, Before, Present

LEMMA ChainPreserved == TypeOK /\ ChainInv /\ [Next]_vars => ChainInv'
<1> SUFFICES ASSUME TypeOK, ChainInv, [Next]_vars
             PROVE  ChainInv'
  OBVIOUS
<1>1. ASSUME NEW now \in Table, NEW left \in SUBSET Types, Send(now, left)
      PROVE  ChainInv'
  BY <1>1, SendChains
<1>2. CASE Connect
  <2>1. net' = <<>> /\ last' = shown'
    BY <1>2 DEF Connect
  <2>2. 1..Len(net') = {}
    BY <2>1
  <2>3. QED
    BY <2>1, <2>2 DEF ChainInv
<1>3. CASE ReadObjects
  BY <1>3, ReadChains
<1>4. CASE ReadObjectsFails
  BY <1>4 DEF ReadObjectsFails, ChainInv, Before, Present
<1>5. CASE UNCHANGED vars
  BY <1>5 DEF vars, ChainInv, Before, Present
<1>6. QED
  BY <1>1, <1>2, <1>3, <1>4, <1>5 DEF Next

-----------------------------------------------------------------------------
(* What is held. *)

\* Held looks only at the two pointers.
LEMMA HeldOfSort ==
  /\ \A t \in StaticTypes :
       Held(t) = IF m_pStaticObjects = Null THEN Nothing ELSE m_pStaticObjects[t]
  /\ \A t \in DynamicTypes :
       Held(t) = IF m_pDynamicObjects = Null THEN Nothing ELSE m_pDynamicObjects[t]
BY SortsApart DEF Held

\* What the first packet leaves out is what the one before it had, and it has a frame number.
LEMMA FirstPacket ==
  ASSUME TypeOK, ChainInv, ReadObjects
  PROVE  /\ Head(net) \in Packet
         /\ "FrameInfo" \in Present(Head(net)) \cap DynamicTypes
         /\ \A t \in Head(net).unchanged : Head(net).now[t] = shown[t]
<1>1. net # <<>> /\ net \in Seq(Packet)
  BY DEF ReadObjects, TypeOK
<1>2. 1 \in 1..Len(net) /\ Head(net) = net[1] /\ Head(net) \in Packet
  BY <1>1, LenProperties, EmptySeq, HeadTailProperties
<1>3. QED
  BY <1>2, SortsApart DEF ChainInv, Before

LEMMA ReadKeeps ==
  ASSUME TypeOK, ChainInv, UnchangedKept, ReadObjects
  PROVE  UnchangedKept'
<1>1. PICK p \in Packet :
        p = Head(net) /\ (\A t \in p.unchanged : p.now[t] = shown[t]) /\ shown' = p.now
  BY FirstPacket DEF ReadObjects
<1>2. ASSUME NEW t \in Types \cap CopiedStatic, p.now[t] \in Values
      PROVE  Held(t)' = p.now[t]
  <2>1. t \in StaticTypes
    BY <1>2, SortsApart
  <2>2. t \in p.unchanged => m_pStaticObjects # Null /\ m_pStaticObjects[t] = p.now[t]
    BY <1>1, <1>2, <2>1, HeldOfSort, KeptTypes, CacheAssumption DEF UnchangedKept
  <2>3. m_pStaticObjects' # Null /\ m_pStaticObjects'[t] = p.now[t]
    <3>1. m_pStaticObjects \in Holding(StaticTypes) /\ Sort(StaticTypes, CopiedStatic)
      BY Sorts DEF TypeOK
    <3>2. m_pStaticObjects' = Hold(StaticTypes, CopiedStatic, p, m_pStaticObjects,
                                 Read(StaticTypes, p))
      BY <1>1 DEF ReadObjects, ReadStatic
    <3>3. QED
      BY <1>2, <2>2, <3>1, <3>2, HoldKeeps
  <2>4. QED
    BY <2>1, <2>3 DEF Held
<1>3. ASSUME NEW t \in Types \cap CopiedDynamic, p.now[t] \in Values
      PROVE  Held(t)' = p.now[t]
  <2>1. t \in DynamicTypes /\ t \notin StaticTypes
    BY <1>3, SortsApart
  <2>2. t \in p.unchanged => m_pDynamicObjects # Null /\ m_pDynamicObjects[t] = p.now[t]
    BY <1>1, <1>3, <2>1, HeldOfSort, KeptTypes, CacheAssumption DEF UnchangedKept
  <2>3. m_pDynamicObjects' # Null /\ m_pDynamicObjects'[t] = p.now[t]
    <3>1. m_pDynamicObjects \in Holding(DynamicTypes) /\ Sort(DynamicTypes, CopiedDynamic)
      BY Sorts DEF TypeOK
    <3>2. m_pDynamicObjects' = Hold(DynamicTypes, CopiedDynamic, p, m_pDynamicObjects,
                                 Read(DynamicTypes, p))
      BY <1>1 DEF ReadObjects, ReadDynamic
    <3>3. QED
      BY <1>3, <2>2, <3>1, <3>2, HoldKeeps
  <2>4. QED
    BY <2>1, <2>3 DEF Held
<1>4. QED
  BY <1>1, <1>2, <1>3, KeptTypes DEF UnchangedKept

LEMMA ReadDrops ==
  ASSUME TypeOK, ChainInv, NothingLeftOver, ReadObjects
  PROVE  NothingLeftOver'
<1>1. PICK p \in Packet :
        /\ p = Head(net) /\ (\A t \in p.unchanged : p.now[t] = shown[t]) /\ shown' = p.now
        /\ Present(p) \cap DynamicTypes # {}
  BY FirstPacket DEF ReadObjects
<1>2. ASSUME NEW t \in Types \cap DynamicTypes, p.now[t] \notin Values
      PROVE  Held(t)' = Nothing
  <2>1. t \notin StaticTypes
    BY <1>2, SortsApart
  <2>2. t \in p.unchanged /\ m_pDynamicObjects # Null => m_pDynamicObjects[t] = Nothing
    BY <1>1, <1>2, HeldOfSort DEF NothingLeftOver
  <2>3. m_pDynamicObjects' # Null /\ m_pDynamicObjects'[t] = Nothing
    <3>1. m_pDynamicObjects \in Holding(DynamicTypes) /\ Sort(DynamicTypes, CopiedDynamic)
      BY Sorts DEF TypeOK
    <3>2. m_pDynamicObjects' = Hold(DynamicTypes, CopiedDynamic, p, m_pDynamicObjects,
                                 Read(DynamicTypes, p))
      BY <1>1 DEF ReadObjects, ReadDynamic
    <3>3. QED
      BY <1>1, <1>2, <2>2, <3>1, <3>2, HoldDrops
  <2>4. QED
    BY <2>1, <2>3 DEF Held
<1>3. QED
  BY <1>1, <1>2 DEF NothingLeftOver

-----------------------------------------------------------------------------
(* The inductive invariant. *)

LEMMA CacheInitially == Init => IInv
<1> SUFFICES ASSUME Init
             PROVE  IInv
  OBVIOUS
<1>1. ChainInv
  <2>1. 1..Len(net) = {}
    BY DEF Init
  <2>2. QED
    BY <2>1 DEF Init, ChainInv
<1>2. \A t \in Types : shown[t] = NotAsked /\ NotAsked \notin Values
  BY CacheAssumption DEF Init, NoTable, Content
<1>3. \A t \in Types : Held(t) = Nothing
  BY DEF Init, Held
<1>4. QED
  BY <1>1, <1>2, <1>3, TypesInitially DEF IInv, UnchangedKept, NothingLeftOver

LEMMA CachePreserved == IInv /\ [Next]_vars => IInv'
<1> SUFFICES ASSUME IInv, [Next]_vars
             PROVE  UnchangedKept' /\ NothingLeftOver'
  BY TypesPreserved, ChainPreserved DEF IInv
<1>1. CASE UNCHANGED <<m_pStaticObjects, m_pDynamicObjects, shown>>
  BY <1>1 DEF IInv, UnchangedKept, NothingLeftOver, Held
<1>2. CASE Connect
  <2>1. \A t \in Types : shown'[t] = NotAsked /\ NotAsked \notin Values
    BY <1>2, CacheAssumption DEF Connect, NoTable, Content
  <2>2. \A t \in Types : Held(t)' = Nothing
    BY <1>2 DEF Connect, Held
  <2>3. QED
    BY <2>1, <2>2 DEF UnchangedKept, NothingLeftOver
<1>3. CASE ReadObjects
  BY <1>3, ReadKeeps, ReadDrops DEF IInv
<1>4. QED
  BY <1>1, <1>2, <1>3 DEF Next, Send, ReadObjectsFails, vars

LEMMA CacheInvariant == Spec => []IInv
<1>1. IInv /\ [Next]_vars => IInv'
  BY CachePreserved
<1>2. QED
  BY <1>1, CacheInitially, PTL DEF Spec

\* What a server leaves out because it did not change is held as it was, for all types
\* but the forgotten ones.
THEOREM KeptWhileUnchanged == Spec => []UnchangedKept
<1>1. IInv => UnchangedKept
  BY DEF IInv
<1>2. QED
  BY <1>1, CacheInvariant, PTL

\* No dynamic object outlives its last packet.
THEOREM DynamicGoneInTime == Spec => []NothingLeftOver
<1>1. IInv => NothingLeftOver
  BY DEF IInv
<1>2. QED
  BY <1>1, CacheInvariant, PTL
=============================================================================
