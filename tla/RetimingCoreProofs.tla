------------------------- MODULE RetimingCoreProofs -------------------------
(***************************************************************************)
(* What VRetimingCore guarantees for any subjects and segments that the    *)
(* frames may have, any offsets, latencies and predictions, wherever the   *)
(* connection is lost and however often the clock is set back.             *)
(***************************************************************************)
EXTENDS RetimedInterfaces, FiniteSetTheorems, SequenceTheorems, TLAPS

-----------------------------------------------------------------------------
(* Induction, on sets instead of predicates.                               *)

\* A set of natural numbers has a least element.
LEMMA LeastNatural ==
  ASSUME NEW T, T \subseteq Nat, T # {}
  PROVE  \E m \in T : \A n \in T : m <= n
<1>1. PICK m \in T : \A n \in T : ~(<<n, m>> \in OpToRel(<, Nat))
  BY NatLessThanWellFounded, WFMin
<1>2. \A n \in T : ~(n < m)
  BY <1>1 DEF OpToRel
<1>3. QED
  BY <1>2

\* A set with 0, and with n + 1 when it has n, has all natural numbers.
LEMMA SetInduction ==
  ASSUME NEW T, 0 \in T, \A n \in Nat : n \in T => n + 1 \in T
  PROVE  Nat \subseteq T
<1> SUFFICES ASSUME Nat \ T # {} PROVE FALSE
  OBVIOUS
<1>1. PICK m \in Nat \ T : \A n \in Nat \ T : m <= n
  BY LeastNatural
<1>2. m - 1 \in Nat
  BY <1>1
<1>3. m - 1 \in T
  BY <1>1, <1>2
<1>4. QED
  BY <1>1, <1>2, <1>3

\* A set of numbers up to n has a greatest element.
LEMMA GreatestUpTo ==
  ASSUME NEW n \in Nat, NEW T, T \subseteq 1..n, T # {}
  PROVE  Max(T) \in T /\ \A m \in T : m <= Max(T)
<1> DEFINE D == {n - m : m \in T}
<1>1. D \subseteq Nat /\ D # {}
  <2>1. \A m \in T : n - m \in Nat
    OBVIOUS
  <2>2. QED
    BY <2>1
<1>2. PICK d \in D : \A e \in D : d <= e
  BY <1>1, LeastNatural
<1>3. PICK x \in T : d = n - x
  BY <1>2
<1>4. \A y \in T : n - y \in D
  OBVIOUS
<1>5. \A y \in T : d <= n - y
  BY <1>2, <1>4
<1>6. \A y \in T : x >= y
  BY <1>3, <1>5
<1>7. QED
  BY <1>6 DEF Max

-----------------------------------------------------------------------------
(* The operators that samples are made with.                               *)

\* AddData computes what it says: its function exists.
LEMMA AddDataRuns ==
  ASSUME NEW items, Len(items) \in Nat
  PROVE  \E data :
           /\ data = [i \in 0..Len(items) |->
                        IF i = 0 THEN m_Data
                        ELSE AddDatum(data[i - 1], items[i].name, items[i].sample)]
           /\ AddData(items) = data[Len(items)]
<1> DEFINE Runs(data, n) ==
             data = [i \in 0..n |->
                        IF i = 0 THEN m_Data
                        ELSE AddDatum(data[i - 1], items[i].name, items[i].sample)]
           T == {n \in Nat : \E data : Runs(data, n)}
<1>1. 0 \in T
  <2> DEFINE data == [i \in 0..0 |-> m_Data]
  <2>1. Runs(data, 0)
    OBVIOUS
  <2>2. QED
    BY <2>1
<1>2. ASSUME NEW n \in Nat, n \in T PROVE n + 1 \in T
  <2>1. PICK data : Runs(data, n)
    BY <1>2
  <2> DEFINE more == [i \in 0..n + 1 |->
                        IF i = n + 1
                        THEN AddDatum(data[n], items[n + 1].name, items[n + 1].sample)
                        ELSE data[i]]
  <2>2. \A i \in 0..n : more[i] = data[i]
    OBVIOUS
  <2>3. \A i \in 0..n + 1 :
          more[i] = IF i = 0 THEN m_Data
                    ELSE AddDatum(more[i - 1], items[i].name, items[i].sample)
    <3> TAKE i \in 0..n + 1
    <3>1. CASE i = n + 1
      BY <2>2, <3>1
    <3>2. CASE i \in 0..n
      <4>1. data[i] = IF i = 0 THEN m_Data
                      ELSE AddDatum(data[i - 1], items[i].name, items[i].sample)
        BY <2>1, <3>2
      <4>2. i # 0 => more[i - 1] = data[i - 1]
        BY <2>2, <3>2
      <4>3. QED
        BY <2>2, <3>2, <4>1, <4>2
    <3>3. QED
      BY <3>1, <3>2
  <2>4. Runs(more, n + 1)
    BY <2>3
  <2>5. QED
    <3> HIDE DEF more, Runs
    <3>1. QED
      BY <2>4
<1>3. Len(items) \in T
  <2> HIDE DEF T
  <2>1. QED
    BY <1>1, <1>2, SetInduction
<1>4. PICK data : Runs(data, Len(items))
  BY <1>3
<1>5. AddData(items) =
        (CHOOSE d : Runs(d, Len(items)))[Len(items)]
  BY DEF AddData
<1>6. Runs(CHOOSE d : Runs(d, Len(items)), Len(items))
  <2> HIDE DEF Runs
  <2>1. QED
    BY <1>4
<1>7. QED
  BY <1>5, <1>6

\* The ends of short sequences.
LEMMA ShortSequences ==
  ASSUME NEW a, NEW x
  PROVE  /\ Append(<<>>, x) = <<x>> /\ SubSeq(<<x>>, 1, 1) = <<x>>
         /\ Append(<<a>>, x) = <<a, x>> /\ SubSeq(<<a, x>>, 1, 2) = <<a, x>>
<1> DEFINE S == {a, x}
<1>1. <<x>> \in Seq(S) /\ <<a>> \in Seq(S) /\ <<a, x>> \in Seq(S)
  OBVIOUS
<1>2. Append(<<>>, x) = <<x>>
  OBVIOUS
<1>3. Append(<<a>>, x) = <<a, x>>
  <2>1. /\ Append(<<a>>, x) \in Seq(S)
        /\ Len(Append(<<a>>, x)) = Len(<<a>>) + 1
        /\ \A i \in 1..Len(<<a>>) : Append(<<a>>, x)[i] = <<a>>[i]
        /\ Append(<<a>>, x)[Len(<<a>>) + 1] = x
    BY <1>1, AppendProperties
  <2>2. Len(Append(<<a>>, x)) = Len(<<a, x>>)
    BY <2>1
  <2>3. \A i \in 1..Len(Append(<<a>>, x)) : Append(<<a>>, x)[i] = <<a, x>>[i]
    BY <2>1
  <2>4. QED
    BY <1>1, <2>1, <2>2, <2>3, SeqEqual
<1>4. SubSeq(<<x>>, 1, 1) = <<x>> /\ SubSeq(<<a, x>>, 1, 2) = <<a, x>>
  <2>1. SubSeq(<<x>>, 1, Len(<<x>>)) = <<x>> /\ SubSeq(<<a, x>>, 1, Len(<<a, x>>)) = <<a, x>>
    BY <1>1, SubSeqFull
  <2>2. QED
    BY <2>1
<1>5. QED
  BY <1>2, <1>3, <1>4

LEMMA ThreeElements ==
  ASSUME NEW a, NEW b, NEW x
  PROVE  Append(<<a, b>>, x) = <<a, b, x>> /\ SubSeq(<<a, b, x>>, 2, 3) = <<b, x>>
<1> DEFINE S == {a, b, x}
           s == <<a, b, x>>
<1>1. <<a, b>> \in Seq(S) /\ <<b, x>> \in Seq(S) /\ s \in Seq(S)
  OBVIOUS
<1>2. Append(<<a, b>>, x) = s
  <2>1. /\ Append(<<a, b>>, x) \in Seq(S)
        /\ Len(Append(<<a, b>>, x)) = Len(<<a, b>>) + 1
        /\ \A i \in 1..Len(<<a, b>>) : Append(<<a, b>>, x)[i] = <<a, b>>[i]
        /\ Append(<<a, b>>, x)[Len(<<a, b>>) + 1] = x
    BY <1>1, AppendProperties
  <2>2. Len(Append(<<a, b>>, x)) = Len(s)
    BY <2>1
  <2>3. \A i \in 1..Len(Append(<<a, b>>, x)) : Append(<<a, b>>, x)[i] = s[i]
    BY <2>1
  <2>4. QED
    BY <1>1, <2>1, <2>2, <2>3, SeqEqual
<1>3. SubSeq(s, 2, 3) = <<b, x>>
  <2>1. \A i \in 2..3 : s[i] \in S
    OBVIOUS
  <2>2. /\ SubSeq(s, 2, 3) \in Seq(S)
        /\ Len(SubSeq(s, 2, 3)) = IF 2 <= 3 THEN 3 - 2 + 1 ELSE 0
        /\ \A i \in 1..3 - 2 + 1 : SubSeq(s, 2, 3)[i] = s[2 + i - 1]
    <3> HIDE DEF s, S
    <3>1. QED
      BY <2>1, SubSeqProperties
  <2>3. Len(SubSeq(s, 2, 3)) = Len(<<b, x>>)
    BY <2>2
  <2>4. \A i \in 1..Len(SubSeq(s, 2, 3)) : SubSeq(s, 2, 3)[i] = <<b, x>>[i]
    BY <2>2
  <2>5. QED
    BY <1>1, <2>2, <2>3, <2>4, SeqEqual
<1>4. QED
  BY <1>2, <1>3

\* Of one or two samples and one more the last two are left.
LEMMA LastTwoOf ==
  ASSUME NEW data, NEW name, NEW x,
         name \in DOMAIN data =>
            data[name] = <<data[name][1]>> \/ data[name] = <<data[name][1], data[name][2]>>
  PROVE  /\ LastTwo(data, name, x) = <<x>> \/ LastTwo(data, name, x) = <<Last(data[name]), x>>
         /\ name \notin DOMAIN data => LastTwo(data, name, x) = <<x>>
<1>1. Max({1, 0}) = 1 /\ Max({1, 1}) = 1 /\ Max({1, 2}) = 2
  BY DEF Max
<1>2. CASE name \notin DOMAIN data
  <2>1. Append(<<>>, x) = <<x>> /\ Len(<<x>>) = 1 /\ SubSeq(<<x>>, 1, 1) = <<x>>
    BY ShortSequences
  <2>2. QED
    BY <1>1, <1>2, <2>1 DEF LastTwo, s_BufSize
<1>3. CASE name \in DOMAIN data /\ data[name] = <<data[name][1]>>
  <2>1. PICK a : data[name] = <<a>>
    BY <1>3
  <2>2. Append(<<a>>, x) = <<a, x>> /\ SubSeq(<<a, x>>, 1, 2) = <<a, x>>
    BY ShortSequences
  <2>3. Len(<<a, x>>) = 2 /\ Max({1, Len(<<a, x>>) - s_BufSize + 1}) = 1
    BY <1>1 DEF s_BufSize
  <2>4. LastTwo(data, name, x) = SubSeq(<<a, x>>, 1, 2)
    BY <1>3, <2>1, <2>2, <2>3 DEF LastTwo
  <2>5. Last(data[name]) = a
    BY <2>1 DEF Last
  <2>6. QED
    BY <1>3, <2>2, <2>4, <2>5
<1>4. CASE name \in DOMAIN data /\ data[name] = <<data[name][1], data[name][2]>>
  <2>1. PICK a, b : data[name] = <<a, b>>
    BY <1>4
  <2>2. Append(<<a, b>>, x) = <<a, b, x>> /\ SubSeq(<<a, b, x>>, 2, 3) = <<b, x>>
    BY ThreeElements
  <2>3. Len(<<a, b, x>>) = 3 /\ Max({1, Len(<<a, b, x>>) - s_BufSize + 1}) = 2
    BY <1>1 DEF s_BufSize
  <2>4. LastTwo(data, name, x) = SubSeq(<<a, b, x>>, 2, 3)
    BY <1>4, <2>1, <2>2, <2>3 DEF LastTwo
  <2>5. Last(data[name]) = b
    BY <2>1 DEF Last
  <2>6. QED
    BY <1>4, <2>2, <2>4, <2>5
<1>5. QED
  BY <1>2, <1>3, <1>4

-----------------------------------------------------------------------------
(* A frame is read.                                                        *)

\* The names of children that are read are among those that are there.
LEMMA ChildrenReadOK ==
  ASSUME NEW i, NEW g, NEW gone, NEW children \in Seq(Names)
  PROVE  /\ ChildrenRead(i, g, children, gone) \in Seq(Names)
         /\ ToSet(ChildrenRead(i, g, children, gone)) \subseteq ToSet(children)
<1> DEFINE S == ToSet(children)
           Next1(before, k) ==
             IF CallForChild(i, g, children[k]) \in gone THEN before
             ELSE Append(before, children[k])
           Runs(read, n) ==
             read = [k \in 0..n |->
                        IF k = 0 THEN <<>>
                        ELSE IF CallForChild(i, g, children[k]) \in gone THEN read[k - 1]
                        ELSE Append(read[k - 1], children[k])]
           T == {n \in Nat : \E read : Runs(read, n)}
<1>1. Len(children) \in Nat /\ DOMAIN children = 1..Len(children)
  OBVIOUS
<1>2. S \subseteq Names /\ \A k \in 1..Len(children) : children[k] \in S
  BY <1>1 DEF ToSet
<1>3. 0 \in T
  <2> DEFINE read == [k \in 0..0 |-> <<>>]
  <2>1. Runs(read, 0)
    OBVIOUS
  <2>2. QED
    BY <2>1
<1>4. ASSUME NEW n \in Nat, n \in T PROVE n + 1 \in T
  <2>1. PICK read : Runs(read, n)
    BY <1>4
  <2> DEFINE more == [k \in 0..n + 1 |-> IF k = n + 1 THEN Next1(read[n], k) ELSE read[k]]
  <2>2. \A k \in 0..n : more[k] = read[k]
    OBVIOUS
  <2>3. \A k \in 0..n + 1 :
          more[k] = IF k = 0 THEN <<>>
                    ELSE IF CallForChild(i, g, children[k]) \in gone THEN more[k - 1]
                    ELSE Append(more[k - 1], children[k])
    <3> TAKE k \in 0..n + 1
    <3>1. CASE k = n + 1
      BY <2>2, <3>1
    <3>2. CASE k \in 0..n
      <4>1. read[k] = IF k = 0 THEN <<>>
                      ELSE IF CallForChild(i, g, children[k]) \in gone THEN read[k - 1]
                      ELSE Append(read[k - 1], children[k])
        BY <2>1, <3>2
      <4>2. k # 0 => more[k - 1] = read[k - 1]
        BY <2>2, <3>2
      <4>3. QED
        BY <2>2, <3>2, <4>1, <4>2
    <3>3. QED
      BY <3>1, <3>2
  <2>4. Runs(more, n + 1)
    BY <2>3
  <2>5. QED
    <3> HIDE DEF more, Runs
    <3>1. QED
      BY <2>4
<1>5. Len(children) \in T
  <2> HIDE DEF T
  <2>1. QED
    BY <1>1, <1>3, <1>4, SetInduction
<1>6. PICK read :
         Runs(read, Len(children)) /\ ChildrenRead(i, g, children, gone) = read[Len(children)]
  <2>1. \E read : Runs(read, Len(children))
    BY <1>5
  <2>2. ChildrenRead(i, g, children, gone)
            = (CHOOSE read : Runs(read, Len(children)))[Len(children)]
    BY DEF ChildrenRead
  <2> HIDE DEF Runs
  <2>3. QED
    BY <2>1, <2>2
<1>7. /\ read[0] = <<>>
      /\ \A k \in 1..Len(children) :
            read[k] = IF CallForChild(i, g, children[k]) \in gone THEN read[k - 1]
                      ELSE Append(read[k - 1], children[k])
  <2> HIDE DEF S, T
  <2>1. \A k \in 0..Len(children) :
            read[k] = IF k = 0 THEN <<>>
                      ELSE IF CallForChild(i, g, children[k]) \in gone THEN read[k - 1]
                      ELSE Append(read[k - 1], children[k])
    BY <1>6
  <2>2. \A k \in 1..Len(children) : k \in 0..Len(children) /\ k # 0
    BY <1>1
  <2>3. read[0] = <<>>
    BY <1>1, <2>1
  <2>4. QED
    BY <2>1, <2>2, <2>3
<1> HIDE DEF S, T, Runs
<1> DEFINE U == {n \in Nat : n <= Len(children) => read[n] \in Seq(S)}
<1>8. 0 \in U /\ \A n \in Nat : n \in U => n + 1 \in U
  <2>1. <<>> \in Seq(S)
    OBVIOUS
  <2>2. ASSUME NEW n \in Nat, n \in U, n + 1 <= Len(children) PROVE read[n + 1] \in Seq(S)
    <3>1. n + 1 \in 1..Len(children) /\ (n + 1) - 1 = n /\ n <= Len(children)
      BY <1>1, <2>2
    <3>2. read[n] \in Seq(S) /\ children[n + 1] \in S
      BY <1>2, <2>2, <3>1
    <3>3. read[n + 1] = IF CallForChild(i, g, children[n + 1]) \in gone THEN read[(n + 1) - 1]
                        ELSE Append(read[(n + 1) - 1], children[n + 1])
      BY <1>7, <3>1
    <3>4. read[n + 1] = read[n] \/ read[n + 1] = Append(read[n], children[n + 1])
      <4>1. read[(n + 1) - 1] = read[n]
        BY <3>1
      <4>2. QED
        BY <3>3, <4>1
    <3>5. Append(read[n], children[n + 1]) \in Seq(S)
      BY <3>2, AppendProperties
    <3>6. QED
      BY <3>2, <3>4, <3>5
  <2>3. 0 \in U
    BY <1>7, <2>1
  <2>4. QED
    BY <2>2, <2>3
<1>9. Len(children) \in U
  <2> HIDE DEF U
  <2>1. QED
    BY <1>1, <1>8, SetInduction
<1>10. PICK r : r = ChildrenRead(i, g, children, gone) /\ r \in Seq(S)
  BY <1>1, <1>6, <1>9
<1>11. r \in Seq(Names)
  BY <1>2, <1>10
<1>12. ToSet(r) \subseteq S
  BY <1>10 DEF ToSet
<1>13. QED
  BY <1>10, <1>11, <1>12 DEF S

\* What is read of a segment is of the segment, or cleared; without its name all of it is.
LEMMA SegmentReadOK ==
  ASSUME NEW i, NEW g, NEW gone, NEW s \in Segments
  PROVE  LET r == SegmentRead(i, g, s, gone)
         IN  /\ SegmentOK(r)
             /\ r.Name \in {s.Name, <<>>} /\ (r.Name = <<>> => r.m_Children = <<>>)
             /\ r.Parent \in {s.Parent, <<>>}
             /\ ToSet(r.m_Children) \subseteq ToSet(s.m_Children)
<1>1. PICK r : r = SegmentRead(i, g, s, gone)
  OBVIOUS
<1>2. PICK children : children = ChildrenRead(i, g, s.m_Children, gone)
  OBVIOUS
<1>3. /\ s.Name \in Names /\ s.Parent \in NamesOrNone /\ s.m_Children \in Seq(Names)
      /\ s.T \in Distances /\ s.R \in Angles
  BY DEF Segments, NamesOrNone
<1>4. children \in Seq(Names) /\ ToSet(children) \subseteq ToSet(s.m_Children)
  BY <1>2, <1>3, ChildrenReadOK
<1>5. 0 \in Distances /\ NoRotation \in Angles /\ <<>> \in Seq(Names) /\ <<>> \in NamesOrNone
  BY DEF Distances, Angles, NamesOrNone
<1>6. ToSet(<<>>) \subseteq ToSet(s.m_Children) /\ s.Name # <<>>
  BY <1>3 DEF ToSet, Names
<1>7. CASE Call(i, g, "GetSegmentName") \in gone
  <2>1. /\ r.Name = <<>> /\ r.Parent = <<>> /\ r.m_Children = <<>>
        /\ r.T = 0 /\ r.R = NoRotation
    BY <1>1, <1>7 DEF SegmentRead
  <2>2. QED
    BY <1>1, <1>5, <1>6, <2>1 DEF SegmentOK
<1>8. CASE Call(i, g, "GetSegmentName") \notin gone
  <2>1. /\ r.Name = s.Name
        /\ r.Parent \in {s.Parent, <<>>}
        /\ r.m_Children \in {children, <<>>}
        /\ r.T \in {s.T, 0} /\ r.R \in {s.R, NoRotation}
    BY <1>1, <1>2, <1>8 DEF SegmentRead
  <2>2. QED
    BY <1>1, <1>3, <1>4, <1>5, <1>6, <2>1 DEF SegmentOK
<1>9. QED
  BY <1>7, <1>8

\* What of a subject could be read makes a good sample, of now.
LEMMA SampleOfOK ==
  ASSUME NEW i, NEW gone, NEW subject \in Subjects, now \in 0..TimeLimit,
         \A g, h \in DOMAIN subject.Segments :
            subject.Segments[h].Name \in ToSet(subject.Segments[g].m_Children)
               => subject.Segments[h].Parent = subject.Segments[g].Name
  PROVE  /\ SampleOf(i, subject, gone).name \in {subject.Name, <<>>}
         /\ SampleOK(SampleOf(i, subject, gone).sample)
         /\ SampleOf(i, subject, gone).sample.ReceiptTime = now
         /\ SampleOf(i, subject, gone).name = <<>>
                => DOMAIN SampleOf(i, subject, gone).sample.m_Segments = {}
<1> DEFINE unnamed == Call(i, 0, "GetSubjectName") \in gone
           segments == IF unnamed \/ Call(i, 0, "GetSegmentCount") \in gone THEN <<>>
                       ELSE subject.Segments
           read == [g \in DOMAIN segments |-> SegmentRead(i, g, segments[g], gone)]
           at(name) == SelectLastInSeq(read, LAMBDA s : s.Name = name)
           x == SampleOf(i, subject, gone).sample
<1>1. /\ subject.Segments \in Seq(Segments) /\ subject.RootSegment \in NamesOrNone
      /\ subject.Name \in Names /\ subject.Name # <<>>
  BY DEF Subjects, NamesOrNone, Names
<1>2. /\ x.ReceiptTime = now /\ x.RootSegment \in {subject.RootSegment, <<>>}
      /\ x.m_SegmentNames = [g \in DOMAIN read |-> read[g].Name]
      /\ x.m_Segments = [name \in {read[g].Name : g \in DOMAIN read} |-> read[at(name)]]
      /\ SampleOf(i, subject, gone).name = IF unnamed THEN <<>> ELSE subject.Name
  BY DEF SampleOf
<1>3. /\ segments \in Seq(Segments)
      /\ segments = subject.Segments \/ segments = <<>>
      /\ unnamed => segments = <<>>
  <2>1. <<>> \in Seq(Segments)
    OBVIOUS
  <2>2. QED
    BY <1>1, <2>1
<1> HIDE DEF segments
<1>4. DOMAIN segments = 1..Len(segments) /\ Len(segments) \in Nat
  BY <1>3
<1>5. DOMAIN read = 1..Len(segments) /\ Len(read) = Len(segments)
  BY <1>4
<1>6. \A g, h \in DOMAIN segments :
         segments[h].Name \in ToSet(segments[g].m_Children) => segments[h].Parent = segments[g].Name
  <2>1. DOMAIN <<>> = {}
    OBVIOUS
  <2>2. QED
    BY <1>3, <2>1
<1>7. \A g \in DOMAIN read :
        /\ SegmentOK(read[g]) /\ read[g].Name \in {segments[g].Name, <<>>}
        /\ read[g].Name = <<>> => read[g].m_Children = <<>>
        /\ read[g].Parent \in {segments[g].Parent, <<>>}
        /\ ToSet(read[g].m_Children) \subseteq ToSet(segments[g].m_Children)
        /\ read[g].Name \in NamesOrNone
  <2> TAKE g \in DOMAIN read
  <2>1. segments[g] \in Segments /\ read[g] = SegmentRead(i, g, segments[g], gone)
    BY <1>3, <1>4, <1>5
  <2>2. segments[g].Name \in Names
    BY <2>1 DEF Segments
  <2> HIDE DEF read
  <2>3. QED
    BY <2>1, <2>2, SegmentReadOK DEF NamesOrNone
<1>8. ASSUME NEW name \in {read[g].Name : g \in DOMAIN read}
      PROVE  at(name) \in DOMAIN read /\ read[at(name)].Name = name
  <2> DEFINE I == {g \in 1..Len(read) : read[g].Name = name}
  <2>1. I # {}
    BY <1>5
  <2>2. Max(I) \in I
    <3>1. I \subseteq 1..Len(segments)
      BY <1>5
    <3> HIDE DEF I
    <3>2. QED
      BY <1>4, <2>1, <3>1, GreatestUpTo
  <2>3. at(name) = Max(I)
    BY <2>1 DEF SelectLastInSeq
  <2>4. QED
    BY <1>5, <2>2, <2>3
<1> HIDE DEF read, at, x
<1>9. x.m_SegmentNames \in Seq(NamesOrNone)
  BY <1>2, <1>4, <1>5, <1>7
<1>10. \A g \in DOMAIN x.m_SegmentNames : x.m_SegmentNames[g] \in DOMAIN x.m_Segments
  BY <1>2
<1>11. \A g \in DOMAIN x.m_Segments : SegmentOK(x.m_Segments[g])
  BY <1>2, <1>7, <1>8
<1>12. ASSUME NEW g \in DOMAIN x.m_Segments, NEW c \in DOMAIN x.m_Segments,
              c \in ToSet(x.m_Segments[g].m_Children)
       PROVE  x.m_Segments[c].Parent \in {g, <<>>}
  <2>1. /\ at(g) \in DOMAIN read /\ read[at(g)].Name = g /\ x.m_Segments[g] = read[at(g)]
        /\ at(c) \in DOMAIN read /\ read[at(c)].Name = c /\ x.m_Segments[c] = read[at(c)]
    BY <1>2, <1>8
  <2>2. read[at(g)].m_Children \in Seq(Names)
    BY <1>7, <2>1 DEF SegmentOK
  <2>3. c \in Names /\ c # <<>>
    <3>1. c \in Names
      BY <1>12, <2>1, <2>2 DEF ToSet
    <3>2. QED
      BY <3>1 DEF Names
  <2>4. read[at(g)].m_Children # <<>>
    BY <1>12, <2>1 DEF ToSet
  <2>5. segments[at(g)].Name = g /\ segments[at(c)].Name = c
    BY <1>7, <2>1, <2>3, <2>4
  <2>6. c \in ToSet(segments[at(g)].m_Children)
    BY <1>7, <1>12, <2>1
  <2>7. segments[at(c)].Parent = g
    BY <1>4, <1>5, <1>6, <2>1, <2>5, <2>6
  <2>8. QED
    BY <1>7, <2>1, <2>7
<1>13. SampleOf(i, subject, gone).name = <<>> => DOMAIN x.m_Segments = {}
  <2>1. segments = <<>> => DOMAIN read = {}
    BY <1>4, <1>5
  <2>2. QED
    BY <1>1, <1>2, <1>3, <2>1
<1>14. SampleOK(x)
  <2>1. x.RootSegment \in NamesOrNone
    BY <1>1, <1>2 DEF NamesOrNone
  <2>2. QED
    BY <1>2, <1>9, <1>10, <1>11, <1>12, <2>1 DEF SampleOK, Related
<1>15. SampleOf(i, subject, gone).name \in {subject.Name, <<>>}
  BY <1>2
<1>16. QED
  BY <1>2, <1>13, <1>14, <1>15 DEF x

\* One more sample, of now, keeps the samples good, and leaves those of other names alone.
LEMMA AddDatumOK ==
  ASSUME NEW data, DataOK(data), NEW name \in NamesOrNone, NEW x, SampleOK(x),
         now \in 0..TimeLimit, x.ReceiptTime = now,
         name = <<>> => DOMAIN x.m_Segments = {},
         name # <<>> /\ name \in DOMAIN data =>
            \A i \in DOMAIN data[name] : data[name][i].ReceiptTime # x.ReceiptTime
  PROVE  /\ DataOK(AddDatum(data, name, x))
         /\ DOMAIN data \subseteq DOMAIN AddDatum(data, name, x)
         /\ \A other \in DOMAIN AddDatum(data, name, x) :
                other # name => /\ other \in DOMAIN data
                                /\ AddDatum(data, name, x)[other] = data[other]
<1> DEFINE more == AddDatum(data, name, x)
<1>1. CASE AnyOccluded(x)
  BY <1>1 DEF AddDatum
<1>2. CASE ~AnyOccluded(x)
  <2> DEFINE samples == LastTwo(data, name, x)
  <2>1. more = WithSample(data, name, x)
    BY <1>2 DEF AddDatum
  <2>2. /\ DOMAIN more = {name} \cup DOMAIN data
        /\ more[name] = samples
        /\ \A other \in DOMAIN more :
                other # name => other \in DOMAIN data /\ more[other] = data[other]
    BY <2>1 DEF WithSample
  <2>3. SamplesOK(name, samples)
    <3>1. name \in DOMAIN data => SamplesOK(name, data[name])
      BY DEF DataOK
    <3>2. /\ samples = <<x>> \/ samples = <<Last(data[name]), x>>
          /\ name \notin DOMAIN data => samples = <<x>>
      BY <3>1, LastTwoOf DEF SamplesOK
    <3>3. CASE samples = <<x>>
      <4>1. samples[1] = x /\ Len(samples) = 1 /\ DOMAIN samples = {1}
        BY <3>3
      <4>2. InOrder(samples)
        BY <4>1, RetimingCoreAssumption DEF InOrder
      <4>3. QED
        BY <1>2, <3>3, <4>1, <4>2 DEF SamplesOK, Apart
    <3>4. CASE name \in DOMAIN data /\ samples = <<Last(data[name]), x>>
      <4>1. PICK l \in DOMAIN data[name] : Last(data[name]) = data[name][l]
        <5>1. CASE data[name] = <<data[name][1]>>
          <6>1. PICK a : data[name] = <<a>>
            BY <5>1
          <6>2. QED
            BY <6>1 DEF Last
        <5>2. CASE data[name] = <<data[name][1], data[name][2]>>
          <6>1. PICK a, b : data[name] = <<a, b>>
            BY <5>2
          <6>2. QED
            BY <6>1 DEF Last
        <5>3. QED
          BY <3>1, <3>4, <5>1, <5>2 DEF SamplesOK
      <4>2. PICK y : y = data[name][l]
        OBVIOUS
      <4>3. samples = <<y, x>>
        BY <3>4, <4>1, <4>2
      <4>4. samples[1] = y /\ samples[2] = x /\ DOMAIN samples = {1, 2} /\ Len(samples) = 2
        BY <4>3
      <4>5. SampleOK(y) /\ ~AnyOccluded(y) /\ (setBacks = 0 => y.ReceiptTime <= now)
        BY <3>1, <3>4, <4>1, <4>2 DEF SamplesOK, InOrder
      <4>6. name # <<>> => y.ReceiptTime # x.ReceiptTime
        BY <3>4, <4>2
      <4>7. name = <<>> => DOMAIN y.m_Segments = {}
        BY <3>1, <3>4, <4>2 DEF SamplesOK, Apart
      <4>8. Apart(name, samples)
        BY <4>4, <4>6, <4>7 DEF Apart
      <4> HIDE DEF samples
      <4>9. InOrder(samples)
        BY <4>4, <4>5 DEF InOrder
      <4>10. QED
        BY <1>2, <4>3, <4>4, <4>5, <4>8, <4>9 DEF SamplesOK
    <3>5. QED
      BY <3>2, <3>3, <3>4
  <2>4. IsFiniteSet(DOMAIN more)
    <3>1. DOMAIN more = DOMAIN data \cup {name}
      BY <2>2
    <3>2. QED
      BY <3>1, FS_AddElement DEF DataOK
  <2> HIDE DEF more, samples
  <2>5. DataOK(more)
    BY <2>2, <2>3, <2>4 DEF DataOK
  <2>6. QED
    BY <2>2, <2>5 DEF more
<1>3. QED
  BY <1>1, <1>2

\* So do the subjects of a frame, one after the other, each with a name of its own or none.
LEMMA AddDataOK ==
  ASSUME DataOK(m_Data), now \in 0..TimeLimit, NEW items, Len(items) \in Nat,
         \A name \in DOMAIN m_Data : \A i \in DOMAIN m_Data[name] :
            m_Data[name][i].ReceiptTime # now,
         \A i \in 1..Len(items) :
            /\ items[i].name \in NamesOrNone
            /\ SampleOK(items[i].sample) /\ items[i].sample.ReceiptTime = now
            /\ items[i].name = <<>> => DOMAIN items[i].sample.m_Segments = {},
         \A i, j \in 1..Len(items) :
            items[i].name = items[j].name => i = j \/ items[i].name = <<>>
  PROVE  DataOK(AddData(items)) /\ DOMAIN m_Data \subseteq DOMAIN AddData(items)
<1>1. PICK data :
         /\ data = [i \in 0..Len(items) |->
                      IF i = 0 THEN m_Data
                      ELSE AddDatum(data[i - 1], items[i].name, items[i].sample)]
         /\ AddData(items) = data[Len(items)]
  BY AddDataRuns
<1> DEFINE Coming(d, n) ==
             \A j \in n + 1..Len(items) :
                items[j].name # <<>> /\ items[j].name \in DOMAIN d =>
                    \A i \in DOMAIN d[items[j].name] : d[items[j].name][i].ReceiptTime # now
           Good(d, n) == DataOK(d) /\ DOMAIN m_Data \subseteq DOMAIN d /\ Coming(d, n)
           T == {n \in Nat : n <= Len(items) => Good(data[n], n)}
<1>2. data[0] = m_Data
  BY <1>1
<1>3. \A n \in 1..Len(items) : data[n] = AddDatum(data[n - 1], items[n].name, items[n].sample)
  BY <1>1
<1>4. 0 \in T
  BY <1>2
<1>5. ASSUME NEW n \in Nat, n \in T PROVE n + 1 \in T
  <2> SUFFICES ASSUME n + 1 <= Len(items) PROVE Good(data[n + 1], n + 1)
    OBVIOUS
  <2> DEFINE d == data[n]
             name == items[n + 1].name
             x == items[n + 1].sample
  <2>1. data[n + 1] = AddDatum(d, name, x)
    BY <1>3
  <2>2. Good(d, n)
    BY <1>5
  <2>3. /\ name \in NamesOrNone /\ SampleOK(x) /\ x.ReceiptTime = now
        /\ name = <<>> => DOMAIN x.m_Segments = {}
    OBVIOUS
  <2>4. name # <<>> /\ name \in DOMAIN d =>
            \A i \in DOMAIN d[name] : d[name][i].ReceiptTime # x.ReceiptTime
    BY <2>2, <2>3
  <2>5. \A j \in n + 2..Len(items) : items[j].name = name => items[j].name = <<>>
    OBVIOUS
  <2> HIDE DEF d, name, x
  <2>6. /\ DataOK(AddDatum(d, name, x))
        /\ DOMAIN d \subseteq DOMAIN AddDatum(d, name, x)
        /\ \A other \in DOMAIN AddDatum(d, name, x) :
                other # name => /\ other \in DOMAIN d
                                /\ AddDatum(d, name, x)[other] = d[other]
    <3>1. DataOK(d) /\ now \in 0..TimeLimit
      BY <2>2
    <3> HIDE DEF Good, Coming, T
    <3>2. QED
      BY <2>3, <2>4, <3>1, AddDatumOK
  <2>7. PICK e : e = data[n + 1]
    OBVIOUS
  <2>8. /\ DataOK(e) /\ DOMAIN d \subseteq DOMAIN e
        /\ \A other \in DOMAIN e : other # name => other \in DOMAIN d /\ e[other] = d[other]
    BY <2>1, <2>6, <2>7
  <2>9. Coming(e, n + 1)
    <3> SUFFICES ASSUME NEW j \in n + 2..Len(items), items[j].name # <<>>,
                        items[j].name \in DOMAIN e
                 PROVE  \A i \in DOMAIN e[items[j].name] :
                            e[items[j].name][i].ReceiptTime # now
      OBVIOUS
    <3>1. items[j].name \in DOMAIN d /\ e[items[j].name] = d[items[j].name]
      BY <2>5, <2>8
    <3>2. j \in n + 1..Len(items)
      OBVIOUS
    <3>3. QED
      BY <2>2, <3>1, <3>2
  <2>10. QED
    BY <2>2, <2>7, <2>8, <2>9
<1>6. Len(items) \in T
  <2> HIDE DEF T
  <2>1. QED
    BY <1>4, <1>5, SetInduction
<1>7. QED
  BY <1>1, <1>6
-----------------------------------------------------------------------------
(* The invariant holds from the beginning, and every step keeps it.        *)

LEMMA InitHolds == Init => RetimingInv
<1> SUFFICES ASSUME Init PROVE RetimingInv
  OBVIOUS
<1>1. m_Data = <<>> /\ DOMAIN m_Data = {} /\ DOMAIN m_LatestOutputPoses = {}
  BY DEF Init
<1>2. DataOK(m_Data)
  BY <1>1, FS_EmptySet DEF DataOK
<1>3. now \in 0..TimeLimit /\ setBacks \in Nat /\ m_MaxPredictionTime \in Nat
  BY RetimingCoreAssumption DEF Init
<1>4. QED
  BY <1>1, <1>2, <1>3 DEF RetimingInv, PosesOK

\* A frame, wherever the connection is lost.
LEMMA InputThreadKeeps ==
  ASSUME RetimingInv, NEW frame \in Frames, NEW gone, InputThread(frame, gone)
  PROVE  RetimingInv'
<1>1. /\ frame \in Seq(Subjects)
      /\ \A i, j \in DOMAIN frame : frame[i].Name = frame[j].Name => i = j
      /\ \A i \in DOMAIN frame : \A g, h \in DOMAIN frame[i].Segments :
            frame[i].Segments[h].Name \in ToSet(frame[i].Segments[g].m_Children)
                => frame[i].Segments[h].Parent = frame[i].Segments[g].Name
  BY FramesAssumption
<1>2. /\ Len(frame) \in Nat /\ DOMAIN frame = 1..Len(frame)
      /\ \A i \in 1..Len(frame) : frame[i] \in Subjects
  BY <1>1
<1> DEFINE items == [i \in DOMAIN frame |-> SampleOf(i, frame[i], gone)]
<1>3. DOMAIN items = 1..Len(frame) /\ Len(items) = Len(frame)
  BY <1>2
<1>4. m_Data' = AddData(items)
  BY DEF InputThread
<1>5. now \in 0..TimeLimit /\ DataOK(m_Data)
  BY DEF RetimingInv
<1>6. ASSUME NEW i \in 1..Len(frame)
      PROVE  /\ items[i].name \in {frame[i].Name, <<>>}
             /\ items[i].name \in NamesOrNone
             /\ SampleOK(items[i].sample) /\ items[i].sample.ReceiptTime = now
             /\ items[i].name = <<>> => DOMAIN items[i].sample.m_Segments = {}
  <2>1. frame[i] \in Subjects /\ frame[i].Name \in Names
    BY <1>2 DEF Subjects
  <2>2. \A g, h \in DOMAIN frame[i].Segments :
            frame[i].Segments[h].Name \in ToSet(frame[i].Segments[g].m_Children)
               => frame[i].Segments[h].Parent = frame[i].Segments[g].Name
    BY <1>1, <1>2
  <2>3. items[i] = SampleOf(i, frame[i], gone)
    BY <1>2
  <2> HIDE DEF items
  <2>4. QED
    BY <1>5, <2>1, <2>2, <2>3, SampleOfOK DEF NamesOrNone
<1> HIDE DEF items
<1>7. \A i, j \in 1..Len(items) : items[i].name = items[j].name => i = j \/ items[i].name = <<>>
  BY <1>1, <1>2, <1>3, <1>6
<1>8. \A name \in DOMAIN m_Data : \A i \in DOMAIN m_Data[name] :
         m_Data[name][i].ReceiptTime # now
  BY DEF InputThread
<1>9. \A i \in 1..Len(items) :
         /\ items[i].name \in NamesOrNone
         /\ SampleOK(items[i].sample) /\ items[i].sample.ReceiptTime = now
         /\ items[i].name = <<>> => DOMAIN items[i].sample.m_Segments = {}
  BY <1>3, <1>6
<1>10. DataOK(AddData(items)) /\ DOMAIN m_Data \subseteq DOMAIN AddData(items)
  <2>1. Len(items) \in Nat
    BY <1>2, <1>3
  <2>2. QED
    BY <1>5, <1>7, <1>8, <1>9, <2>1, AddDataOK
<1>11. UNCHANGED <<now, setBacks, m_LatestOutputPoses, m_MaxPredictionTime>>
  BY DEF InputThread
<1>12. DataOK(m_Data)' /\ DOMAIN m_Data \subseteq DOMAIN m_Data'
  <2>1. DataOK(m_Data') <=> DataOK(m_Data)'
    BY <1>11 DEF DataOK, SamplesOK, InOrder
  <2>2. QED
    BY <1>4, <1>10, <2>1
<1>13. PosesOK(m_LatestOutputPoses)'
  BY <1>11 DEF RetimingInv, PosesOK
<1>14. QED
  BY <1>11, <1>12, <1>13 DEF RetimingInv

\* What is predicted from good samples has nothing occluded, and parents that agree.
LEMMA PredictedOK ==
  ASSUME NEW p1, NEW p2, SampleOK(p1), ~AnyOccluded(p1), ~AnyOccluded(p2), NEW t,
         Predict(p1, p2, t).Result = "ESuccess"
  PROVE  /\ ~AnyOccluded(Predict(p1, p2, t))
         /\ Related(Predict(p1, p2, t).m_Segments)
<1> DEFINE segments == PredictSegments(p1, p2, t)
<1>1. Predict(p1, p2, t).m_Segments = segments
  BY DEF Predict
<1>2. /\ DOMAIN segments = DOMAIN p1.m_Segments \cap DOMAIN p2.m_Segments
      /\ \A g \in DOMAIN segments :
            /\ segments[g].bOccluded
                    = (p1.m_Segments[g].bOccluded \/ p2.m_Segments[g].bOccluded)
            /\ segments[g].Parent = p1.m_Segments[g].Parent
            /\ segments[g].m_Children = p1.m_Segments[g].m_Children
  BY DEF PredictSegments
<1> HIDE DEF segments
<1>3. QED
  BY <1>1, <1>2 DEF AnyOccluded, Related, SampleOK

LEMMA TwoSamples ==
  ASSUME NEW name, NEW samples, SamplesOK(name, samples), Len(samples) >= 2
  PROVE  \E p1, p2 : samples = <<p1, p2>>
<1>1. samples # <<samples[1]>>
  <2>1. ASSUME NEW a, samples = <<a>> PROVE FALSE
    <3>1. Len(samples) = 1
      BY <2>1
    <3>2. QED
      BY <3>1
  <2>2. QED
    BY <2>1
<1>2. QED
  BY <1>1 DEF SamplesOK

LEMMA UpdateFrameKeeps ==
  ASSUME RetimingInv, NEW t, UpdateFrameAtTime(t)
  PROVE  DOMAIN m_LatestOutputPoses' = DOMAIN m_Data /\ PosesOK(m_LatestOutputPoses')
<1>1. m_LatestOutputPoses' = PosesAtTime(t)
  BY DEF UpdateFrameAtTime
<1>2. DOMAIN PosesAtTime(t) = DOMAIN m_Data
  BY DEF PosesAtTime
<1>3. ASSUME NEW name \in DOMAIN m_Data, PosesAtTime(t)[name].Result = "ESuccess"
      PROVE  /\ ~AnyOccluded(PosesAtTime(t)[name])
             /\ Related(PosesAtTime(t)[name].m_Segments)
  <2>1. /\ Len(m_Data[name]) >= 2
        /\ PosesAtTime(t)[name] = Predict(Head(m_Data[name]), Last(m_Data[name]), t)
    BY <1>3 DEF PosesAtTime, NoPose
  <2>2. SamplesOK(name, m_Data[name])
    BY DEF RetimingInv, DataOK
  <2>3. PICK p1, p2 : m_Data[name] = <<p1, p2>>
    BY <2>1, <2>2, TwoSamples
  <2>4. /\ Head(m_Data[name]) = p1 /\ Last(m_Data[name]) = p2
        /\ m_Data[name][1] = p1 /\ m_Data[name][2] = p2 /\ DOMAIN m_Data[name] = {1, 2}
    BY <2>3 DEF Last
  <2>5. SampleOK(p1) /\ ~AnyOccluded(p1) /\ ~AnyOccluded(p2)
    BY <2>2, <2>4 DEF SamplesOK
  <2>6. QED
    BY <1>3, <2>1, <2>4, <2>5, PredictedOK
<1>4. QED
  BY <1>1, <1>2, <1>3 DEF PosesOK

LEMMA NextKeeps == RetimingInv /\ [Next]_vars => RetimingInv'
<1> SUFFICES ASSUME RetimingInv, [Next]_vars PROVE RetimingInv'
  OBVIOUS
<1>1. ASSUME UNCHANGED m_Data, now' \in 0..TimeLimit, m_MaxPredictionTime' \in Nat,
             setBacks' \in Nat, setBacks' = 0 => setBacks = 0 /\ now <= now',
             DOMAIN m_LatestOutputPoses' \subseteq DOMAIN m_Data, PosesOK(m_LatestOutputPoses')
      PROVE  RetimingInv'
  <2>1. DataOK(m_Data)'
    <3>1. ASSUME NEW name \in DOMAIN m_Data PROVE SamplesOK(name, m_Data[name])'
      <4>1. SamplesOK(name, m_Data[name])
        BY <3>1 DEF RetimingInv, DataOK
      <4>2. InOrder(m_Data[name])'
        <5>1. now \in Int /\ now' \in Int
          BY <1>1 DEF RetimingInv
        <5>2. \A i \in DOMAIN m_Data[name] : m_Data[name][i].ReceiptTime \in Int
          BY <4>1 DEF SamplesOK, SampleOK
        <5>3. QED
          BY <1>1, <4>1, <5>1, <5>2 DEF SamplesOK, InOrder
      <4>3. QED
        BY <1>1, <4>1, <4>2 DEF SamplesOK, Apart
    <3>2. QED
      BY <1>1, <3>1 DEF RetimingInv, DataOK
  <2>2. QED
    BY <1>1, <2>1 DEF RetimingInv, PosesOK
<1>2. ASSUME NEW t, UpdateFrameAtTime(t) PROVE RetimingInv'
  <2>1. DOMAIN m_LatestOutputPoses' = DOMAIN m_Data /\ PosesOK(m_LatestOutputPoses')
    BY <1>2, UpdateFrameKeeps
  <2>2. QED
    BY <1>1, <1>2, <2>1 DEF UpdateFrameAtTime, RetimingInv
<1>3. ASSUME NEW frame \in Frames, NEW gone, InputThread(frame, gone) PROVE RetimingInv'
  BY <1>3, InputThreadKeeps
<1>4. ASSUME NEW offset \in Offsets, UpdateFrame(offset) \/ OutputThread(offset)
      PROVE  RetimingInv'
  BY <1>2, <1>4 DEF UpdateFrame, OutputThread
<1>5. ASSUME NEW time \in Predictions, SetMaximumPrediction(time) PROVE RetimingInv'
  BY <1>1, <1>5, RetimingCoreAssumption DEF SetMaximumPrediction, RetimingInv
<1>6. ASSUME Connect \/ Disconnect PROVE RetimingInv'
  BY <1>1, <1>6 DEF Connect, Disconnect, RetimingInv
<1>7. CASE Tick
  BY <1>1, <1>7, RetimingCoreAssumption DEF Tick, RetimingInv
<1>8. CASE SetBack
  BY <1>1, <1>8, RetimingCoreAssumption DEF SetBack, RetimingInv
<1>9. CASE UNCHANGED vars
  BY <1>1, <1>9 DEF vars, RetimingInv
<1>10. QED
  BY <1>3, <1>4, <1>5, <1>6, <1>7, <1>8, <1>9 DEF Next

\* Whatever frames come, wherever in them the connection is lost and whenever the clock is set
\* back: of each subject there are one or two samples, of two times, in their order if the clock was
\* never set back, none with anything that was read as occluded, with children whose parent is
\* right or could not be read; and what is predicted from them is as good
\* (VRetimingCore::AddData, Predict, VRetimingClient::InputThread).
THEOREM SamplesStayGood == Spec => []RetimingInv
<1>1. Init => RetimingInv
  BY InitHolds
<1>2. RetimingInv /\ [Next]_vars => RetimingInv'
  BY NextKeeps
<1>3. QED
  BY <1>1, <1>2, PTL DEF Spec
-----------------------------------------------------------------------------
(* Prediction is exact.                                                    *)

\* What is divided by the time between two samples is a multiple of it.
LEMMA SixtiethsDivide ==
  ASSUME NEW a \in Int, a % 60 = 0, NEW u \in Int, NEW d \in 1..5
  PROVE  /\ (a * u) \div d \in Int
         /\ ((a * u) \div d) * d = a * u
         /\ ((-a) * u) \div d = -((a * u) \div d)
<1>1. PICK k \in Int : a = 60 * k
  <2>1. a = 60 * (a \div 60)
    OBVIOUS
  <2>2. QED
    BY <2>1
<1>2. PICK m \in Int : m = k * u
  OBVIOUS
<1>3. a * u = 60 * m /\ (-a) * u = -(60 * m)
  BY <1>1, <1>2
<1>4. d = 1 \/ d = 2 \/ d = 3 \/ d = 4 \/ d = 5
  OBVIOUS
<1>5. /\ (60 * m) \div d \in Int
      /\ ((60 * m) \div d) * d = 60 * m
      /\ (-(60 * m)) \div d = -((60 * m) \div d)
  <2>1. CASE d = 1
    BY <2>1
  <2>2. CASE d = 2
    BY <2>2
  <2>3. CASE d = 3
    BY <2>3
  <2>4. CASE d = 4
    BY <2>4
  <2>5. CASE d = 5
    BY <2>5
  <2>6. QED
    BY <1>4, <2>1, <2>2, <2>3, <2>4, <2>5
<1>6. QED
  BY <1>3, <1>5

LEMMA DisplacedEvenly ==
  ASSUME NEW d1 \in Distances, NEW d2 \in Distances, NEW t1 \in Int, NEW t2 \in Int,
         t2 - t1 \in 1..5, NEW t \in Int
  PROVE  (PredictDisplacement(d1, t1, d2, t2, t) - d1) * (t2 - t1) = (d2 - d1) * (t - t1)
<1>1. d2 - d1 \in Int /\ (d2 - d1) % 60 = 0 /\ t - t1 \in Int
  BY DEF Distances
<1> DEFINE q == ((d2 - d1) * (t - t1)) \div (t2 - t1)
<1>2. q \in Int /\ q * (t2 - t1) = (d2 - d1) * (t - t1)
  BY <1>1, SixtiethsDivide
<1>3. PredictDisplacement(d1, t1, d2, t2, t) - d1 = q
  <2>1. PredictDisplacement(d1, t1, d2, t2, t) = d1 + q
    BY DEF PredictDisplacement
  <2> HIDE DEF q
  <2>2. QED
    BY <1>2, <2>1 DEF Distances
<1>4. QED
  BY <1>2, <1>3

\* Remainders, as multiples and the rest.
LEMMA Remainders ==
  ASSUME NEW a \in Int
  PROVE  /\ \E k \in Int : a = 720 * k + (a % 720) /\ a % 720 \in 0..719
         /\ a % 60 = 0 => \E k \in Int : a = 60 * k
         /\ (\E k \in Int : a = 60 * k) => a % 60 = 0
         /\ (\E k \in Int : a = 360 * k) => a % 360 = 0
<1>1. a = 720 * (a \div 720) + (a % 720) /\ a % 720 \in 0..719 /\ a \div 720 \in Int
  OBVIOUS
<1>2. a % 60 = 0 => a = 60 * (a \div 60)
  OBVIOUS
<1>3. a \div 60 \in Int
  OBVIOUS
<1>4. ASSUME NEW k \in Int, a = 60 * k PROVE a % 60 = 0
  BY <1>4
<1>5. ASSUME NEW k \in Int, a = 360 * k PROVE a % 360 = 0
  BY <1>5
<1>6. QED
  BY <1>1, <1>2, <1>3, <1>4, <1>5

\* FullTurns takes whole turns off.
LEMMA FullTurnsOff ==
  ASSUME NEW q \in Int
  PROVE  FullTurns(q) \in Int /\ \E k \in Int : FullTurns(q) = q + 360 * k
<1>1. CASE q < 0
  <2>1. (-q) % 360 = -q - 360 * ((-q) \div 360) /\ (-q) \div 360 \in Int
    OBVIOUS
  <2>2. FullTurns(q) = q + 360 * ((-q) \div 360)
    BY <1>1, <2>1 DEF FullTurns
  <2>3. QED
    BY <2>1, <2>2
<1>2. CASE ~(q < 0)
  <2>1. q % 360 = q - 360 * (q \div 360) /\ q \div 360 \in Int
    OBVIOUS
  <2>2. FullTurns(q) = q + 360 * (-(q \div 360))
    BY <1>2, <2>1 DEF FullTurns
  <2>3. QED
    BY <2>1, <2>2
<1>3. QED
  BY <1>1, <1>2

\* The shorter way round, whichever of its two quaternions a rotation is given by.
LEMMA TurnedEvenly ==
  ASSUME NEW r1 \in 0..719, NEW r2 \in 0..719, r1 % 60 = 0, r2 % 60 = 0,
         NEW t1 \in Int, NEW t2 \in Int, t2 - t1 \in 1..5, NEW t \in Int
  PROVE  EvenTurn(r1, t1, r2, t2, t, PredictRotation(r1, t1, r2, t2, t))
<1> DEFINE rot == (r2 - r1) % 720
           positive == IF rot <= 360 THEN rot ELSE 720 - rot
           shortest == IF positive > 180 THEN positive - 360 ELSE positive
           q == (shortest * (t - t1)) \div (t2 - t1)
           R == PredictRotation(r1, t1, r2, t2, t)
<1>1. PICK k1 \in Int : r2 - r1 = 720 * k1 + rot /\ rot \in 0..719
  <2>1. r2 - r1 \in Int
    OBVIOUS
  <2>2. QED
    BY <2>1, Remainders
<1>2. PICK m \in Int : rot = 60 * m
  <2>1. PICK i \in Int, j \in Int : r1 = 60 * i /\ r2 = 60 * j
    BY Remainders
  <2> HIDE DEF rot
  <2>2. rot = 60 * (j - i - 12 * k1)
    BY <1>1, <2>1
  <2>3. j - i - 12 * k1 \in Int
    OBVIOUS
  <2>4. QED
    BY <2>2, <2>3
<1>3. PICK u \in Int : u = t - t1
  OBVIOUS
<1>4. PICK d \in 1..5 : d = t2 - t1
  OBVIOUS
<1>5. ASSUME NEW turn \in -180..180, NEW k \in Int, r2 - r1 - turn = 360 * k
      PROVE  turn \in Turned(r1, r2)
  BY <1>5, Remainders DEF Turned
<1>6. ASSUME NEW turn \in Turned(r1, r2), NEW k \in Int, NEW w \in Int,
             w = (turn * (t - t1)) \div (t2 - t1), R = r1 + w + 360 * k
      PROVE  (R - r1 - w) % 360 = 0
  <2> HIDE DEF R
  <2>1. R - r1 - w = 360 * k /\ R - r1 - w \in Int
    BY <1>6
  <2>2. QED
    BY <2>1, Remainders
<1>7. CASE rot \in {0, 360}
  <2>1. R = r1
    BY <1>7 DEF PredictRotation
  <2>2. 0 \in Turned(r1, r2)
    <3>1. CASE rot = 0
      <4> HIDE DEF rot
      <4>1. r2 - r1 - 0 = 360 * (2 * k1)
        BY <1>1, <3>1
      <4>2. QED
        BY <1>5, <4>1
    <3>2. CASE rot = 360
      <4> HIDE DEF rot
      <4>1. r2 - r1 - 0 = 360 * (2 * k1 + 1)
        BY <1>1, <3>2
      <4>2. QED
        BY <1>5, <4>1
    <3>3. QED
      BY <1>7, <3>1, <3>2
  <2>3. (0 * (t - t1)) \div (t2 - t1) = 0
    <3>1. 0 * (t - t1) = 0
      BY <1>3
    <3>2. 0 \div d = 0
      OBVIOUS
    <3>3. QED
      BY <1>4, <3>1, <3>2
  <2>4. R = r1 + 0 + 360 * 0
    BY <2>1
  <2> HIDE DEF R
  <2>5. (R - r1 - 0) % 360 = 0
    BY <1>6, <2>2, <2>3, <2>4
  <2>6. QED
    BY <2>2, <2>3, <2>5 DEF R, EvenTurn
<1>8. CASE rot \notin {0, 360}
  <2>1. R = IF rot <= 360 THEN (r1 + FullTurns(q)) % 720 ELSE (r1 - FullTurns(q)) % 720
    BY <1>8 DEF PredictRotation
  <2> HIDE DEF R, rot
  <2>2. PICK m2 \in Int : positive \in 1..359 /\ positive = 60 * m2
    <3>1. CASE rot <= 360
      BY <1>1, <1>2, <1>8, <3>1
    <3>2. CASE ~(rot <= 360)
      <4>1. positive = 60 * (12 - m) /\ 12 - m \in Int
        BY <1>2, <3>2
      <4>2. QED
        BY <1>1, <1>8, <3>2, <4>1
    <3>3. QED
      BY <3>1, <3>2
  <2> HIDE DEF positive
  <2>3. PICK m3 \in 0..1 : shortest = positive - 360 * m3 /\ shortest \in -180..180
    BY <2>2
  <2> HIDE DEF shortest
  <2>4. shortest \in Int /\ shortest % 60 = 0
    <3>1. shortest = 60 * (m2 - 6 * m3) /\ m2 - 6 * m3 \in Int
      BY <2>2, <2>3
    <3>2. PICK a \in Int : a = shortest
      BY <2>3
    <3>3. a % 60 = 0
      BY <3>1, <3>2, Remainders
    <3>4. QED
      BY <3>2, <3>3
  <2>5. q \in Int /\ ((-shortest) * (t - t1)) \div (t2 - t1) = -q
    <3>1. /\ (shortest * u) \div d \in Int
          /\ ((-shortest) * u) \div d = -((shortest * u) \div d)
      BY <2>4, SixtiethsDivide
    <3>2. QED
      BY <1>3, <1>4, <3>1
  <2>6. q = (shortest * (t - t1)) \div (t2 - t1)
    OBVIOUS
  <2> HIDE DEF q
  <2>7. PICK k2 \in Int : FullTurns(q) = q + 360 * k2 /\ FullTurns(q) \in Int
    BY <2>5, FullTurnsOff
  <2>8. CASE rot <= 360
    <3>1. R = (r1 + FullTurns(q)) % 720
      BY <2>1, <2>8
    <3>2. PICK k3 \in Int : r1 + FullTurns(q) = 720 * k3 + R
      <4>1. PICK a \in Int : a = r1 + FullTurns(q)
        BY <2>7
      <4>2. a = 720 * (a \div 720) + (a % 720) /\ a \div 720 \in Int
        BY <4>1
      <4>3. QED
        BY <3>1, <4>1, <4>2
    <3>3. R = r1 + q + 360 * (k2 - 2 * k3)
      <4>1. R \in Int
        BY <2>7, <3>1
      <4>2. QED
        BY <2>5, <2>7, <3>2, <4>1
    <3>4. shortest \in Turned(r1, r2)
      <4>1. PICK k \in Int : k = 2 * k1 + m3
        OBVIOUS
      <4>2. r2 - r1 - shortest = 360 * k
        BY <1>1, <2>2, <2>3, <2>8, <4>1 DEF positive
      <4>3. QED
        BY <1>5, <2>3, <4>2
    <3>5. (R - r1 - q) % 360 = 0
      <4>1. PICK k \in Int : k = k2 - 2 * k3
        OBVIOUS
      <4>2. R = r1 + q + 360 * k
        BY <3>3, <4>1
      <4>3. QED
        BY <1>6, <2>5, <2>6, <3>4, <4>2
    <3>6. QED
      BY <2>6, <3>4, <3>5 DEF R, EvenTurn
  <2>9. CASE ~(rot <= 360)
    <3>1. R = (r1 - FullTurns(q)) % 720
      BY <2>1, <2>9
    <3>2. PICK k3 \in Int : r1 - FullTurns(q) = 720 * k3 + R
      <4>1. PICK a \in Int : a = r1 - FullTurns(q)
        BY <2>7
      <4>2. a = 720 * (a \div 720) + (a % 720) /\ a \div 720 \in Int
        BY <4>1
      <4>3. QED
        BY <3>1, <4>1, <4>2
    <3>3. R = r1 + (-q) + 360 * (-k2 - 2 * k3)
      <4>1. R \in Int
        BY <2>7, <3>1
      <4>2. QED
        BY <2>5, <2>7, <3>2, <4>1
    <3>4. -shortest \in Turned(r1, r2)
      <4>1. PICK k \in Int : k = 2 * k1 + 2 - m3
        OBVIOUS
      <4>2. PICK turn \in -180..180 : turn = -shortest
        BY <2>3
      <4>3. r2 - r1 - turn = 360 * k
        BY <1>1, <2>2, <2>3, <2>9, <4>1, <4>2 DEF positive
      <4>4. QED
        BY <1>5, <4>2, <4>3
    <3>5. (R - r1 - (-q)) % 360 = 0
      BY <1>6, <2>5, <3>3, <3>4
    <3>6. QED
      BY <2>5, <3>4, <3>5 DEF R, EvenTurn
  <2>10. QED
    BY <2>8, <2>9
<1>9. QED
  BY <1>7, <1>8
\* What is predicted for one subject.
LEMMA PredictedEvenly ==
  ASSUME NEW p1, NEW p2, SampleOK(p1), SampleOK(p2), NEW t \in Int, m_MaxPredictionTime \in Nat,
         DOMAIN p1.m_Segments # {} => p1.ReceiptTime # p2.ReceiptTime,
         Predict(p1, p2, t).Result = "ESuccess"
  PROVE  LET pose == Predict(p1, p2, t)
             t1 == p1.ReceiptTime
             t2 == p2.ReceiptTime
         IN  /\ pose.ReceiptTime = t
             /\ DOMAIN pose.m_Segments # {} => t1 < t2
             /\ t1 <= t /\ t <= t2 + m_MaxPredictionTime
             /\ \A g \in DOMAIN pose.m_Segments :
                 LET s1 == p1.m_Segments[g]
                     s2 == p2.m_Segments[g]
                     s == pose.m_Segments[g]
                 IN  /\ (s.T - s1.T) * (t2 - t1) = (s2.T - s1.T) * (t - t1)
                     /\ s1.R >= 0 /\ s2.R >= 0 => EvenTurn(s1.R, t1, s2.R, t2, t, s.R)
<1> DEFINE pose == Predict(p1, p2, t)
           t1 == p1.ReceiptTime
           t2 == p2.ReceiptTime
<1>1. t1 \in 0..5 /\ t2 \in 0..5
  <2>1. t1 \in 0..TimeLimit /\ t2 \in 0..TimeLimit
    BY DEF SampleOK
  <2>2. TimeLimit \in 1..5
    BY RetimingCoreAssumption
  <2>3. QED
    BY <2>1, <2>2
<1>2. /\ ~(t2 < t1) /\ ~(t < t1) /\ ~(t - t2 > m_MaxPredictionTime)
      /\ pose = [Result |-> "ESuccess", ReceiptTime |-> t, RootSegment |-> p1.RootSegment,
                 m_Segments |-> PredictSegments(p1, p2, t)]
  BY DEF Predict
<1>3. /\ pose.ReceiptTime = t /\ pose.m_Segments = PredictSegments(p1, p2, t)
      /\ DOMAIN pose.m_Segments = DOMAIN p1.m_Segments \cap DOMAIN p2.m_Segments
  BY <1>2 DEF PredictSegments
<1>4. DOMAIN pose.m_Segments # {} => t1 < t2
  BY <1>1, <1>2, <1>3
<1>5. t1 <= t /\ t <= t2 + m_MaxPredictionTime
  BY <1>1, <1>2
<1>6. ASSUME NEW g \in DOMAIN pose.m_Segments
      PROVE  LET s1 == p1.m_Segments[g]
                 s2 == p2.m_Segments[g]
                 s == pose.m_Segments[g]
             IN  /\ (s.T - s1.T) * (t2 - t1) = (s2.T - s1.T) * (t - t1)
                 /\ s1.R >= 0 /\ s2.R >= 0 => EvenTurn(s1.R, t1, s2.R, t2, t, s.R)
  <2> DEFINE s1 == p1.m_Segments[g]
             s2 == p2.m_Segments[g]
             s == pose.m_Segments[g]
  <2>1. t2 - t1 \in 1..5 /\ t1 \in Int /\ t2 \in Int
    BY <1>1, <1>4
  <2>2. /\ s.T = PredictDisplacement(s1.T, t1, s2.T, t2, t)
        /\ s.R = PredictRotation(s1.R, t1, s2.R, t2, t)
    BY <1>3 DEF PredictSegments
  <2>3. s1.T \in Distances /\ s2.T \in Distances /\ s1.R \in Angles /\ s2.R \in Angles
    BY <1>3 DEF SampleOK, SegmentOK
  <2> HIDE DEF s, s1, s2, t1, t2
  <2>4. (s.T - s1.T) * (t2 - t1) = (s2.T - s1.T) * (t - t1)
    BY <2>1, <2>2, <2>3, DisplacedEvenly
  <2>5. ASSUME s1.R >= 0, s2.R >= 0
        PROVE  EvenTurn(s1.R, t1, s2.R, t2, t, s.R)
    <3>1. s1.R \in 0..719 /\ s1.R % 60 = 0 /\ s2.R \in 0..719 /\ s2.R % 60 = 0
      BY <2>3, <2>5 DEF Angles, NoRotation
    <3>2. QED
      BY <2>1, <2>2, <3>1, TurnedEvenly
  <2>6. QED
    BY <2>4, <2>5 DEF s, s1, s2, t1, t2
<1>7. QED
  BY <1>3, <1>4, <1>5, <1>6

LEMMA NextMovesEvenly == RetimingInv /\ [Next]_vars => [MovedEvenly]_vars
<1> SUFFICES ASSUME RetimingInv, [Next]_vars, m_LatestOutputPoses' # m_LatestOutputPoses
             PROVE  MovedEvenly
  <2>1. CASE UNCHANGED vars
    BY <2>1
  <2>2. CASE m_LatestOutputPoses' = m_LatestOutputPoses
    BY <2>2 DEF MovedEvenly
  <2>3. QED
    BY <2>1, <2>2
<1>1. PICK t \in Int : UpdateFrameAtTime(t)
  <2>1. now \in Int
    BY DEF RetimingInv
  <2>2. PICK offset \in Offsets : UpdateFrame(offset) \/ OutputThread(offset)
    BY DEF Next, vars, InputThread, SetMaximumPrediction, Connect, Disconnect, Tick, SetBack
  <2>3. now + offset \in Int /\ now - offset \in Int
    BY <2>1, RetimingCoreAssumption
  <2>4. QED
    BY <2>2, <2>3 DEF UpdateFrame, OutputThread
<1> SUFFICES ASSUME NEW name \in DOMAIN m_LatestOutputPoses',
                    m_LatestOutputPoses'[name].Result = "ESuccess"
             PROVE  LET pose == m_LatestOutputPoses'[name]
                        p1 == Head(m_Data[name])
                        p2 == Last(m_Data[name])
                        t1 == p1.ReceiptTime
                        t2 == p2.ReceiptTime
                    IN  /\ Len(m_Data[name]) = 2
                        /\ DOMAIN pose.m_Segments # {} => t1 < t2
                        /\ t1 <= pose.ReceiptTime /\ pose.ReceiptTime <= t2 + m_MaxPredictionTime
                        /\ \A g \in DOMAIN pose.m_Segments :
                            LET s1 == p1.m_Segments[g]
                                s2 == p2.m_Segments[g]
                                s == pose.m_Segments[g]
                            IN  /\ (s.T - s1.T) * (t2 - t1)
                                        = (s2.T - s1.T) * (pose.ReceiptTime - t1)
                                /\ s1.R >= 0 /\ s2.R >= 0 =>
                                        EvenTurn(s1.R, t1, s2.R, t2, pose.ReceiptTime, s.R)
  BY DEF MovedEvenly
<1>2. /\ name \in DOMAIN m_Data
      /\ m_LatestOutputPoses'[name] =
            IF Len(m_Data[name]) >= 2 THEN Predict(Head(m_Data[name]), Last(m_Data[name]), t)
            ELSE NoPose
  BY <1>1 DEF UpdateFrameAtTime, PosesAtTime
<1>3. /\ Len(m_Data[name]) >= 2
      /\ m_LatestOutputPoses'[name] = Predict(Head(m_Data[name]), Last(m_Data[name]), t)
  BY <1>2 DEF NoPose
<1>4. SamplesOK(name, m_Data[name])
  BY <1>2 DEF RetimingInv, DataOK
<1>5. PICK p1, p2 : m_Data[name] = <<p1, p2>>
  BY <1>3, <1>4, TwoSamples
<1>6. /\ Head(m_Data[name]) = p1 /\ Last(m_Data[name]) = p2 /\ Len(m_Data[name]) = 2
      /\ m_Data[name][1] = p1 /\ m_Data[name][2] = p2 /\ DOMAIN m_Data[name] = {1, 2}
  BY <1>5 DEF Last
<1>7. /\ SampleOK(p1) /\ SampleOK(p2)
      /\ DOMAIN p1.m_Segments # {} => p1.ReceiptTime # p2.ReceiptTime
  BY <1>4, <1>6 DEF SamplesOK, Apart
<1>8. m_MaxPredictionTime \in Nat
  BY DEF RetimingInv
<1>9. QED
  BY <1>3, <1>6, <1>7, <1>8, PredictedEvenly

\* A pose that is handed out has moved and turned evenly since its samples, for any frames, offsets
\* and predictions, in any order with the loss of
\* the connection and the clock set back (VRetimingCore::Predict, PredictRotation, AddData).
THEOREM PosesMoveEvenly == Spec => EvenlyMoved
<1>1. RetimingInv /\ [Next]_vars => [MovedEvenly]_vars
  BY NextMovesEvenly
<1>2. Spec => [][MovedEvenly]_vars
  BY <1>1, SamplesStayGood, PTL DEF Spec
<1>3. QED
  BY <1>2 DEF EvenlyMoved
-----------------------------------------------------------------------------
(* The names that are given are served.                                    *)

\* A name that a buffer is long enough for is written as it is.
LEMMA WrittenWhole ==
  ASSUME NEW name \in NamesOrNone
  PROVE  Snprintf(name, LongestName + 1) = name
<1>1. name \in Seq(STRING) /\ Len(name) \in 0..LongestName /\ LongestName \in Nat
  <2>1. LongestName \in Nat
    BY RetimingCoreAssumption
  <2>2. CASE name \in Names
    BY <2>1, <2>2 DEF Names
  <2>3. CASE name = <<>>
    <3>1. <<>> \in Seq(STRING) /\ Len(<<>>) = 0
      OBVIOUS
    <3>2. QED
      BY <2>1, <2>3, <3>1
  <2>4. QED
    BY <2>1, <2>2, <2>3 DEF NamesOrNone
<1>2. Max({LongestName + 1 - 1, 0}) = LongestName
  BY <1>1 DEF Max
<1>3. Min({Len(name), LongestName}) = Len(name)
  BY <1>1 DEF Min
<1>4. SubSeq(name, 1, Len(name)) = name
  BY <1>1, SubSeqFull
<1>5. Snprintf(name, LongestName + 1) = SubSeq(name, 1, Min({Len(name), LongestName}))
  <2>1. \A size : Snprintf(name, size) = SubSeq(name, 1, Min({Len(name), Max({size - 1, 0})}))
    BY DEF Snprintf
  <2>2. PICK size : size = LongestName + 1
    OBVIOUS
  <2>3. Max({size - 1, 0}) = LongestName
    BY <1>1, <1>2, <2>2
  <2>4. QED
    BY <2>1, <2>2, <2>3
<1>6. QED
  BY <1>3, <1>4, <1>5

\* An output takes the place of another.
LEMMA OutputReplaced ==
  ASSUME NEW out, NEW w PROVE [Answer(out) EXCEPT !.out = w] = Answer(w)
<1>1. \A o : [[result |-> "Success", occluded |-> o, out |-> out] EXCEPT !.out = w]
              = [result |-> "Success", occluded |-> o, out |-> w]
  OBVIOUS
<1>2. PICK o : o = FALSE
  OBVIOUS
<1>3. \A v : Answer(v) = [result |-> "Success", occluded |-> o, out |-> v]
  BY <1>2 DEF Answer
<1>4. QED
  BY <1>1, <1>3

\* What is answered passes the C++ and the C interface, a name if the buffer is long enough; what
\* is refused stays refused.
LEMMA AnswersPass ==
  /\ \A out : Adapted(Answer(out)) = Answer(out) /\ Given(Answer(out)) /\ Answer(out).out = out
  /\ \A name \in NamesOrNone : Text(Answer(name), LongestName + 1) = Answer(name)
  /\ \A result \in {"NoFrame", "InvalidSegmentName"} : ~Given(Adapted(Refuse(result)))
  /\ \A result \in {"NoFrame", "InvalidSegmentName"} : \A size :
        ~Given(Text(Adapted(Refuse(result)), size))
<1>1. \A out : Adapted(Answer(out)) = Answer(out) /\ Given(Answer(out)) /\ Answer(out).out = out
  BY DEF Adapted, Adapt, AdaptedResults, Answer, Given
<1>2. ASSUME NEW name \in NamesOrNone PROVE Text(Answer(name), LongestName + 1) = Answer(name)
  <2>1. Text(Answer(name), LongestName + 1) = Answer(Snprintf(name, LongestName + 1))
    <3>1. \A size : Text(Answer(name), size) = [Answer(name) EXCEPT !.out = Snprintf(name, size)]
      <4>1. Answer(name).out = name
        BY DEF Answer
      <4>2. QED
        BY <4>1 DEF Text
    <3>2. QED
      BY <3>1, OutputReplaced
  <2>2. QED
    BY <2>1, WrittenWhole
<1>3. \A result \in {"NoFrame", "InvalidSegmentName"} : ~Given(Adapted(Refuse(result)))
  BY DEF Adapted, Adapt, AdaptedResults, Refuse, Given
<1>4. \A result \in {"NoFrame", "InvalidSegmentName"} : \A size :
        ~Given(Text(Adapted(Refuse(result)), size))
  BY DEF Adapted, Adapt, AdaptedResults, Refuse, Given, Text
<1>5. QED
  BY <1>1, <1>2, <1>3, <1>4

\* What is asked about a subject that has samples is answered from the newest.
LEMMA NewestAnswers ==
  ASSUME RetimingInv, NEW subject \in DOMAIN m_Data
  PROVE  \E x :
           /\ SampleOK(x)
           /\ GetSubjectRootSegmentName(subject) = Answer(x.RootSegment)
           /\ GetSegmentCount(subject) = Answer(Len(x.m_SegmentNames))
           /\ \A n \in 0..Len(x.m_SegmentNames) - 1 :
                GetSegmentName(subject, n) = Answer(x.m_SegmentNames[n + 1])
           /\ \A segment \in DOMAIN x.m_Segments :
                LET s == x.m_Segments[segment]
                IN  /\ GetSegmentChildCount(subject, segment) = Answer(Len(s.m_Children))
                    /\ GetSegmentParentName(subject, segment) = Answer(s.Parent)
                    /\ connected =>
                        GetSegmentStaticTranslation(subject, segment) = Answer(s.T_Stat)
                    /\ \A k \in 0..Len(s.m_Children) - 1 :
                        GetSegmentChildName(subject, segment, k) = Answer(s.m_Children[k + 1])
           /\ \A segment : segment \notin DOMAIN x.m_Segments =>
                GetSegmentParentName(subject, segment) = Refuse("InvalidSegmentName")
<1>1. SamplesOK(subject, m_Data[subject])
  BY DEF RetimingInv, DataOK
<1>2. m_Data[subject] # <<>> /\ SampleOK(Last(m_Data[subject]))
  <2>1. CASE m_Data[subject] = <<m_Data[subject][1]>>
    <3>1. PICK a : m_Data[subject] = <<a>> /\ m_Data[subject][1] = a
      BY <2>1
    <3>2. Last(m_Data[subject]) = a /\ DOMAIN m_Data[subject] = {1} /\ m_Data[subject] # <<>>
      BY <3>1 DEF Last
    <3>3. QED
      BY <1>1, <3>1, <3>2 DEF SamplesOK
  <2>2. CASE m_Data[subject] = <<m_Data[subject][1], m_Data[subject][2]>>
    <3>1. PICK a, b : m_Data[subject] = <<a, b>> /\ m_Data[subject][2] = b
      BY <2>2
    <3>2. Last(m_Data[subject]) = b /\ DOMAIN m_Data[subject] = {1, 2} /\ m_Data[subject] # <<>>
      BY <3>1 DEF Last
    <3>3. QED
      BY <1>1, <3>1, <3>2 DEF SamplesOK
  <2>3. QED
    BY <1>1, <2>1, <2>2 DEF SamplesOK
<1>3. PICK x : x = Last(m_Data[subject])
  OBVIOUS
<1>4. /\ GetSubjectRootSegmentName(subject) = Answer(x.RootSegment)
      /\ GetSegmentCount(subject) = Answer(Len(x.m_SegmentNames))
  BY <1>2, <1>3 DEF GetSubjectRootSegmentName, GetSegmentCount, WithStatic
<1>5. ASSUME NEW n \in 0..Len(x.m_SegmentNames) - 1
      PROVE  GetSegmentName(subject, n) = Answer(x.m_SegmentNames[n + 1])
  <2>1. Len(x.m_SegmentNames) \in Nat
    BY <1>2, <1>3 DEF SampleOK
  <2>2. ~(n >= Len(x.m_SegmentNames))
    BY <2>1
  <2>3. QED
    BY <1>2, <1>3, <2>2 DEF GetSegmentName, WithStatic, WithIndex
<1>6. ASSUME NEW segment \in DOMAIN x.m_Segments
      PROVE  LET s == x.m_Segments[segment]
             IN  /\ GetSegmentChildCount(subject, segment) = Answer(Len(s.m_Children))
                 /\ GetSegmentParentName(subject, segment) = Answer(s.Parent)
                 /\ connected =>
                     GetSegmentStaticTranslation(subject, segment) = Answer(s.T_Stat)
                 /\ \A k \in 0..Len(s.m_Children) - 1 :
                     GetSegmentChildName(subject, segment, k) = Answer(s.m_Children[k + 1])
  <2> DEFINE s == x.m_Segments[segment]
  <2>1. /\ GetSegmentChildCount(subject, segment) = Answer(Len(s.m_Children))
        /\ GetSegmentParentName(subject, segment) = Answer(s.Parent)
    BY <1>2, <1>3 DEF GetSegmentChildCount, GetSegmentParentName, WithSegment, WithStatic
  <2>2. ASSUME connected
        PROVE  GetSegmentStaticTranslation(subject, segment) = Answer(s.T_Stat)
    <3>1. InitGet = "Success"
      BY <2>2 DEF InitGet, HasData
    <3>2. QED
      BY <1>2, <1>3, <3>1 DEF GetSegmentStaticTranslation, StaticPose, WithData, WithStatic
  <2>3. ASSUME NEW k \in 0..Len(s.m_Children) - 1
        PROVE  GetSegmentChildName(subject, segment, k) = Answer(s.m_Children[k + 1])
    <3>1. Len(s.m_Children) \in Nat
      BY <1>2, <1>3 DEF SampleOK, SegmentOK
    <3>2. ~(k >= Len(s.m_Children))
      BY <3>1
    <3>3. QED
      BY <1>2, <1>3, <3>2 DEF GetSegmentChildName, WithSegment, WithStatic, WithIndex
  <2>4. QED
    BY <2>1, <2>2, <2>3
<1>7. \A segment : segment \notin DOMAIN x.m_Segments =>
            GetSegmentParentName(subject, segment) = Refuse("InvalidSegmentName")
  BY <1>2, <1>3 DEF GetSegmentParentName, WithSegment, WithStatic
<1>8. QED
  BY <1>2, <1>3, <1>4, <1>5, <1>6, <1>7

\* The subjects that are counted are named, each with its name.
LEMMA SubjectsNamed ==
  ASSUME RetimingInv, HasData
  PROVE  LET count == Cardinality(DOMAIN m_LatestOutputPoses)
         IN  /\ count \in Nat
             /\ GetSubjectCount = Answer(count)
             /\ \A i \in 0..count - 1 :
                    \E subject \in DOMAIN m_Data : GetSubjectName(i) = Answer(subject)
<1> DEFINE S == DOMAIN m_LatestOutputPoses
           count == Cardinality(S)
<1>1. S \subseteq DOMAIN m_Data /\ IsFiniteSet(S)
  BY FS_Subset DEF RetimingInv, DataOK
<1>2. count \in Nat
  BY <1>1, FS_CardinalityType
<1>3. \E f \in [1..count -> S] : IsInjective(f)
  <2>1. PICK f \in Bijection(1..count, S) : TRUE
    BY <1>1, FS_CardinalityType DEF ExistsBijection
  <2>2. f \in [1..count -> S] /\ IsInjective(f)
    BY <2>1 DEF Bijection, Injection, IsInjective
  <2>3. QED
    BY <2>2
<1>4. NamesInOrder \in [1..count -> S]
  BY <1>3 DEF NamesInOrder, SetToSeq
<1>5. Len(NamesInOrder) = count
  BY <1>2, <1>4
<1>6. ASSUME NEW i \in 0..count - 1
      PROVE  \E subject \in DOMAIN m_Data : GetSubjectName(i) = Answer(subject)
  <2>1. NamesInOrder[i + 1] \in S
    BY <1>2, <1>4
  <2>2. ~(i >= Len(NamesInOrder))
    BY <1>2, <1>5
  <2>3. GetSubjectName(i) = Answer(NamesInOrder[i + 1])
    BY <2>2 DEF GetSubjectName
  <2>4. QED
    BY <1>1, <2>1, <2>3
<1>7. GetSubjectCount = Answer(count)
  BY DEF GetSubjectCount
<1>8. QED
  BY <1>2, <1>6, <1>7
LEMMA GoodSamplesServe == RetimingInv => NamesServed
<1> SUFFICES ASSUME RetimingInv PROVE NamesServed
  OBVIOUS
<1> DEFINE size == LongestName + 1
           subjects == RetimingClient_GetSubjectCount
           total == Cardinality(DOMAIN m_LatestOutputPoses)
<1>1. CASE ~HasData
  <2>1. subjects = Adapted(Refuse("NoFrame"))
    BY <1>1 DEF RetimingClient_GetSubjectCount, CPP_GetSubjectCount, GetSubjectCount
  <2>2. ~Given(subjects)
    BY <2>1, AnswersPass
  <2>3. QED
    BY <2>2 DEF NamesServed
<1>2. CASE HasData
  <2>1. /\ total \in Nat /\ GetSubjectCount = Answer(total)
        /\ \A i \in 0..total - 1 :
            \E subject \in DOMAIN m_Data : GetSubjectName(i) = Answer(subject)
    BY <1>2, SubjectsNamed
  <2>2. subjects.out = total
    BY <2>1, AnswersPass DEF RetimingClient_GetSubjectCount, CPP_GetSubjectCount
  <2> HIDE DEF subjects, total
  <2> SUFFICES ASSUME NEW i \in 0..total - 1
               PROVE
        LET subject == RetimingClient_GetSubjectName(i, size).out
            count == RetimingClient_GetSegmentCount(subject)
        IN  /\ Given(count)
            /\ Given(RetimingClient_GetSubjectRootSegmentName(subject, size))
            /\ \A n \in 0..count.out - 1 :
                LET segment == RetimingClient_GetSegmentName(subject, n, size).out
                    children == RetimingClient_GetSegmentChildCount(subject, segment)
                IN  /\ Given(children)
                    /\ Given(RetimingClient_GetSegmentParentName(subject, segment, size))
                    /\ connected =>
                        Given(RetimingClient_GetSegmentStaticTranslation(subject, segment))
                    /\ \A k \in 0..children.out - 1 :
                        LET child == RetimingClient_GetSegmentChildName(subject, segment, k, size)
                            parent == RetimingClient_GetSegmentParentName(subject, child.out, size)
                        IN  Given(child) /\ (Given(parent) => parent.out \in {segment, <<>>})
    BY <2>2 DEF NamesServed, subjects
  <2>3. PICK subject \in DOMAIN m_Data : GetSubjectName(i) = Answer(subject)
    BY <2>1
  <2>4. RetimingClient_GetSubjectName(i, size).out = subject
    <3>1. subject \in NamesOrNone
      BY DEF RetimingInv, DataOK
    <3>2. QED
      BY <2>3, <3>1, AnswersPass DEF RetimingClient_GetSubjectName, CPP_GetSubjectName
  <2>5. PICK x :
           /\ SampleOK(x)
           /\ GetSubjectRootSegmentName(subject) = Answer(x.RootSegment)
           /\ GetSegmentCount(subject) = Answer(Len(x.m_SegmentNames))
           /\ \A n \in 0..Len(x.m_SegmentNames) - 1 :
                GetSegmentName(subject, n) = Answer(x.m_SegmentNames[n + 1])
           /\ \A segment \in DOMAIN x.m_Segments :
                LET s == x.m_Segments[segment]
                IN  /\ GetSegmentChildCount(subject, segment) = Answer(Len(s.m_Children))
                    /\ GetSegmentParentName(subject, segment) = Answer(s.Parent)
                    /\ connected =>
                        GetSegmentStaticTranslation(subject, segment) = Answer(s.T_Stat)
                    /\ \A k \in 0..Len(s.m_Children) - 1 :
                        GetSegmentChildName(subject, segment, k) = Answer(s.m_Children[k + 1])
           /\ \A segment : segment \notin DOMAIN x.m_Segments =>
                GetSegmentParentName(subject, segment) = Refuse("InvalidSegmentName")
    BY NewestAnswers
  <2>6. RetimingClient_GetSegmentCount(subject) = Answer(Len(x.m_SegmentNames))
    BY <2>5, AnswersPass DEF RetimingClient_GetSegmentCount, CPP_GetSegmentCount
  <2>7. Given(RetimingClient_GetSubjectRootSegmentName(subject, size))
    <3>1. x.RootSegment \in NamesOrNone
      BY <2>5 DEF SampleOK
    <3>2. QED
      BY <2>5, <3>1, AnswersPass
      DEF RetimingClient_GetSubjectRootSegmentName, CPP_GetSubjectRootSegmentName
  <2>8. ASSUME NEW segment \in DOMAIN x.m_Segments
        PROVE  RetimingClient_GetSegmentParentName(subject, segment, size)
                    = Answer(x.m_Segments[segment].Parent)
    <3>1. x.m_Segments[segment].Parent \in NamesOrNone
      BY <2>5 DEF SampleOK, SegmentOK
    <3>2. QED
      BY <2>5, <3>1, AnswersPass
      DEF RetimingClient_GetSegmentParentName, CPP_GetSegmentParentName
  <2>9. ASSUME NEW n \in 0..Len(x.m_SegmentNames) - 1
        PROVE
            LET segment == RetimingClient_GetSegmentName(subject, n, size).out
                children == RetimingClient_GetSegmentChildCount(subject, segment)
            IN  /\ Given(children)
                /\ Given(RetimingClient_GetSegmentParentName(subject, segment, size))
                /\ connected =>
                    Given(RetimingClient_GetSegmentStaticTranslation(subject, segment))
                /\ \A k \in 0..children.out - 1 :
                    LET child == RetimingClient_GetSegmentChildName(subject, segment, k, size)
                        parent == RetimingClient_GetSegmentParentName(subject, child.out, size)
                    IN  Given(child) /\ (Given(parent) => parent.out \in {segment, <<>>})
    <3>1. PICK g : g = x.m_SegmentNames[n + 1]
      OBVIOUS
    <3>2. g \in NamesOrNone /\ g \in DOMAIN x.m_Segments
      <4>1. n + 1 \in DOMAIN x.m_SegmentNames /\ x.m_SegmentNames \in Seq(NamesOrNone)
        BY <2>5 DEF SampleOK
      <4>2. QED
        BY <2>5, <3>1, <4>1 DEF SampleOK
    <3>3. RetimingClient_GetSegmentName(subject, n, size).out = g
      <4>1. GetSegmentName(subject, n) = Answer(g)
        BY <2>5, <3>1
      <4>2. QED
        BY <3>2, <4>1, AnswersPass DEF RetimingClient_GetSegmentName, CPP_GetSegmentName
    <3> DEFINE kids == x.m_Segments[g].m_Children
    <3>4. kids \in Seq(Names)
      BY <2>5, <3>2 DEF SampleOK, SegmentOK
    <3>5. RetimingClient_GetSegmentChildCount(subject, g) = Answer(Len(kids))
      BY <2>5, <3>2, AnswersPass
      DEF RetimingClient_GetSegmentChildCount, CPP_GetSegmentChildCount
    <3>6. connected => Given(RetimingClient_GetSegmentStaticTranslation(subject, g))
      BY <2>5, <3>2, AnswersPass
      DEF RetimingClient_GetSegmentStaticTranslation, CPP_GetSegmentStaticTranslation
    <3>7. Given(RetimingClient_GetSegmentParentName(subject, g, size))
      BY <2>8, <3>2, AnswersPass
    <3>8. ASSUME NEW k \in 0..Len(kids) - 1
          PROVE
            LET child == RetimingClient_GetSegmentChildName(subject, g, k, size)
                parent == RetimingClient_GetSegmentParentName(subject, child.out, size)
            IN  Given(child) /\ (Given(parent) => parent.out \in {g, <<>>})
      <4>1. PICK c : c = kids[k + 1]
        OBVIOUS
      <4>2. c \in Names /\ c \in ToSet(kids)
        <5>1. k + 1 \in DOMAIN kids
          BY <3>4
        <5>2. QED
          BY <3>4, <4>1, <5>1 DEF ToSet
      <4>3. RetimingClient_GetSegmentChildName(subject, g, k, size) = Answer(c)
        <5>1. GetSegmentChildName(subject, g, k) = Answer(c) /\ c \in NamesOrNone
          BY <2>5, <3>2, <4>1, <4>2 DEF NamesOrNone
        <5>2. QED
          BY <5>1, AnswersPass
          DEF RetimingClient_GetSegmentChildName, CPP_GetSegmentChildName
      <4>4. c \in DOMAIN x.m_Segments =>
              RetimingClient_GetSegmentParentName(subject, c, size) \in {Answer(g), Answer(<<>>)}
        <5>1. c \in DOMAIN x.m_Segments => x.m_Segments[c].Parent \in {g, <<>>}
          BY <2>5, <3>2, <4>2 DEF SampleOK, Related
        <5>2. QED
          BY <2>8, <5>1
      <4>5. c \notin DOMAIN x.m_Segments =>
              ~Given(RetimingClient_GetSegmentParentName(subject, c, size))
        BY <2>5, AnswersPass DEF RetimingClient_GetSegmentParentName, CPP_GetSegmentParentName
      <4>6. QED
        BY <4>3, <4>4, <4>5, AnswersPass
    <3> HIDE DEF kids
    <3>9. QED
      BY <3>3, <3>5, <3>6, <3>7, <3>8, AnswersPass
  <2>10. QED
    BY <2>4, <2>6, <2>7, <2>9, AnswersPass
<1>3. QED
  BY <1>1, <1>2

\* Whatever subjects the frames have, however long their names are, and between whichever calls of
\* InputThread the connection was lost: a program that goes by the names it was given by the C
\* interface is never refused one, and the children it finds have the right parent or none
\* (VRetimingCore::AddData, GetSubjectStatic, VRetimingClient::InputThread).
THEOREM NamesAreServed == Spec => []NamesServed
<1>1. RetimingInv => NamesServed
  BY GoodSamplesServe
<1>2. QED
  BY <1>1, SamplesStayGood, PTL
=============================================================================
