---------------------------- MODULE RetimingCore ----------------------------
(***************************************************************************)
(* VRetimingCore: the last two samples of every subject, and the poses     *)
(* that are interpolated or predicted from them for a time that is asked   *)
(* for; with the thread of VRetimingClient that reads a frame into samples *)
(* and the two callers that ask.                                           *)
(*                                                                         *)
(* All rotations are about one axis. A quaternion is its angle, modulo 720 *)
(* since q and -q are the same rotation; angles and coordinates are        *)
(* multiples of 60, which makes the division by the time between two       *)
(* samples exact. What is only logged (frame number, latencies) is left    *)
(* out.                                                                    *)
(***************************************************************************)
EXTENDS Answers, FiniteSets

CONSTANTS
    Frames,       \* what VClient may have for the subjects of a frame
    Outages(_),   \* of the calls about a frame, in order: sets that may find no connection
    Offsets,      \* from now to the time that is asked for; latencies count down
    Predictions,  \* of SetMaximumPrediction
    TimeLimit,    \* bound on the time
    SetBacks,     \* bound on how often the clock is set back
    Losses,       \* bound on how often the connection is lost while a frame is read
    LongestName   \* of the names in the frames, in pieces

ASSUME RetimingCoreAssumption ==
    /\ TimeLimit \in 1..5
    /\ SetBacks \in Nat
    /\ Losses \in Nat
    /\ Offsets \subseteq Int
    /\ Predictions \subseteq Nat /\ Predictions # {}
    /\ LongestName \in Nat

\* A cleared quaternion.
NoRotation == -1

Names == {name \in Seq(STRING) : Len(name) \in 1..LongestName}
Distances == {d \in Int : d % 60 = 0}
Angles == {r \in 0..719 : r % 60 = 0} \cup {NoRotation}

Segments ==
    [Name : Names, Parent : Names \cup {<<>>}, m_Children : Seq(Names), T : Distances, R : Angles,
     T_Rel : Distances, R_Rel : Angles, T_Stat : Distances, R_Stat : Angles,
     Scale : Seq(Int), bOccluded : BOOLEAN]

Subjects == [Name : Names, RootSegment : Names \cup {<<>>}, Segments : Seq(Segments)]

\* The names of the subjects of a frame tell them apart. A segment that is a child has the segment
\* for its parent that has it for a child, as the getters of VClient answer (NamedIsFound of
\* Getters).
ASSUME FramesAssumption ==
    \A frame \in Frames :
        /\ frame \in Seq(Subjects)
        /\ \A i, j \in DOMAIN frame : frame[i].Name = frame[j].Name => i = j
        /\ \A i \in DOMAIN frame : \A g, h \in DOMAIN frame[i].Segments :
                LET parent == frame[i].Segments[g]
                    child == frame[i].Segments[h]
                IN  child.Name \in ToSet(parent.m_Children) => child.Parent = parent.Name

VARIABLES
    connected,            \* m_pClient->IsConnected()
    now,                  \* the clock, from m_Epoch on
    setBacks,             \* how often it was set back
    losses,               \* how many frames were read in part only
    m_Data,               \* the samples of each subject, the older one first
    m_LatestOutputPoses,  \* what was made of them for the time that was asked for last
    m_MaxPredictionTime

vars == <<connected, now, setBacks, losses, m_Data, m_LatestOutputPoses, m_MaxPredictionTime>>

s_BufSize == 2

\* In m_LatestOutputPoses: a pointer to no pose.
NoPose == [Result |-> "ENoData"]

\* What a division by the length of a cleared quaternion gives.
NotANumber == -2

Init ==
    /\ connected = FALSE
    /\ now = 0
    /\ setBacks = 0
    /\ losses = 0
    /\ m_Data = <<>>
    /\ m_LatestOutputPoses = <<>>
    /\ m_MaxPredictionTime \in Predictions

---------------------------------------------------------------------------
(* Prediction. t1 and t2 are the times of the samples, t3 the time asked   *)
(* for.                                                                    *)

PredictDisplacement(d1, t1, d2, t2, t3) == d1 + ((d2 - d1) * (t3 - t1)) \div (t2 - t1)

\* The remainder has the sign of the angle.
FullTurns(angle) == IF angle < 0 THEN -((-angle) % 360) ELSE angle % 360

\* Mutant: the turn that the quaternions say, which may be the longer way round.
PredictRotationLong(r1, t1, r2, t2, t3) ==
    LET rot == (r2 - r1) % 720
        angle == IF rot <= 360 THEN rot ELSE rot - 720
    IN  IF r1 < 0 THEN NotANumber
        ELSE IF r2 < 0 \/ rot \in {0, 360} THEN r1
        ELSE (r1 + FullTurns((angle * (t3 - t1)) \div (t2 - t1))) % 720

\* ToAxisAngle has an angle from 0 to 360, about the axis or its opposite; past a half turn the
\* way back is the shorter one. Without an axis, as between q and -q, the first rotation stays.
PredictRotation(r1, t1, r2, t2, t3) ==
    LET rot == (r2 - r1) % 720
        positive == IF rot <= 360 THEN rot ELSE 720 - rot
        shortest == IF positive > 180 THEN positive - 360 ELSE positive
        angle == FullTurns((shortest * (t3 - t1)) \div (t2 - t1))
    IN  IF r1 < 0 THEN NotANumber
        ELSE IF r2 < 0 \/ rot \in {0, 360} THEN r1
        ELSE IF rot <= 360 THEN (r1 + angle) % 720 ELSE (r1 - angle) % 720

\* Segments that are not in both samples are left out; Scale and m_SegmentNames stay behind.
PredictSegments(p1, p2, t) ==
    LET t1 == p1.ReceiptTime
        t2 == p2.ReceiptTime
    IN  [name \in DOMAIN p1.m_Segments \cap DOMAIN p2.m_Segments |->
            LET s1 == p1.m_Segments[name]
                s2 == p2.m_Segments[name]
            IN  [Parent |-> s1.Parent, m_Children |-> s1.m_Children,
                 T_Stat |-> s1.T_Stat, R_Stat |-> s1.R_Stat,
                 bOccluded |-> s1.bOccluded \/ s2.bOccluded,
                 T |-> PredictDisplacement(s1.T, t1, s2.T, t2, t),
                 R |-> PredictRotation(s1.R, t1, s2.R, t2, t),
                 T_Rel |-> PredictDisplacement(s1.T_Rel, t1, s2.T_Rel, t2, t),
                 R_Rel |-> PredictRotation(s1.R_Rel, t1, s2.R_Rel, t2, t)]]

Predict(p1, p2, t) ==
    CASE p2.ReceiptTime < p1.ReceiptTime             -> [Result |-> "EInvalid"]
      [] t < p1.ReceiptTime                          -> [Result |-> "EEarly"]
      [] t - p2.ReceiptTime > m_MaxPredictionTime    -> [Result |-> "ELate"]
      [] OTHER -> [Result |-> "ESuccess", ReceiptTime |-> t, RootSegment |-> p1.RootSegment,
                   m_Segments |-> PredictSegments(p1, p2, t)]

PosesAtTime(t) ==
    [name \in DOMAIN m_Data |->
        IF Len(m_Data[name]) >= 2 THEN Predict(Head(m_Data[name]), Last(m_Data[name]), t)
        ELSE NoPose]

UpdateFrameAtTime(t) ==
    /\ m_LatestOutputPoses' = PosesAtTime(t)
    /\ UNCHANGED <<connected, now, setBacks, losses, m_Data, m_MaxPredictionTime>>

---------------------------------------------------------------------------
(* Samples.                                                                *)

AnyOccluded(sample) == \E g \in DOMAIN sample.m_Segments : sample.m_Segments[g].bOccluded

\* The samples of a subject with one more.
LastTwo(data, name, sample) ==
    LET samples == Append(IF name \in DOMAIN data THEN data[name] ELSE <<>>, sample)
    IN  SubSeq(samples, Max({1, Len(samples) - s_BufSize + 1}), Len(samples))

WithSample(data, name, sample) ==
    [other \in DOMAIN data \cup {name} |->
        IF other = name THEN LastTwo(data, name, sample) ELSE data[other]]

\* Mutant: samples that are too old go, as in PurgeOldData, which nothing calls.
AddDatumPurging(data, name, sample) ==
    LET young == [other \in DOMAIN data |->
                    SelectSeq(data[other], LAMBDA s : now - s.ReceiptTime <= 1)]
    IN  IF AnyOccluded(sample) THEN young ELSE WithSample(young, name, sample)

\* Mutant: only the root segment is looked at.
AddDatumByRoot(data, name, sample) ==
    LET root == sample.RootSegment
    IN  IF root \in DOMAIN sample.m_Segments /\ sample.m_Segments[root].bOccluded THEN data
        ELSE WithSample(data, name, sample)

\* Samples in which anything is occluded are not kept, and of the others the last two.
AddDatum(data, name, sample) ==
    IF AnyOccluded(sample) THEN data ELSE WithSample(data, name, sample)

\* The items one after the other; data[i] is what m_Data is after i of them.
AddData(items) ==
    LET data[i \in 0..Len(items)] ==
            IF i = 0 THEN m_Data ELSE AddDatum(data[i - 1], items[i].name, items[i].sample)
    IN  data[Len(items)]

---------------------------------------------------------------------------
(* A frame is read with some twelve calls of VClient for each segment, and *)
(* each of them looks at the connection anew. One that finds it gone       *)
(* clears its output; so does one about a subject or a segment of which    *)
(* the name could not be read.                                             *)

\* The calls about subject i and, g > 0, about its g-th segment; children are asked for by index
\* and named here by what the answer would be.
Call(i, g, name) == <<i, g, name>>
CallForChild(i, g, child) == <<i, g, "GetSegmentChildName", child>>

Calls(i, g, names) == [n \in DOMAIN names |-> Call(i, g, names[n])]

CallsForSegment(i, g, s) ==
    Calls(i, g, <<"GetSegmentName", "GetSegmentParentName", "GetSegmentChildCount">>)
    \o [k \in DOMAIN s.m_Children |-> CallForChild(i, g, s.m_Children[k])]
    \o Calls(i, g, <<"GetSegmentGlobalTranslation", "GetSegmentGlobalRotationQuaternion",
                     "GetSegmentLocalTranslation", "GetSegmentLocalRotationQuaternion",
                     "GetSegmentStaticTranslation", "GetSegmentStaticRotationQuaternion",
                     "GetSegmentStaticScale">>)

CallsForSubject(i, subject) ==
    Calls(i, 0, <<"GetSubjectName", "GetSubjectRootSegmentName", "GetSegmentCount">>)
    \o FlattenSeq([g \in DOMAIN subject.Segments |-> CallsForSegment(i, g, subject.Segments[g])])

CallsForFrame(frame) == FlattenSeq([i \in DOMAIN frame |-> CallsForSubject(i, frame[i])])

\* A child of which the name is not given is left out; read[k] is what the first k have left.
ChildrenRead(i, g, children, gone) ==
    LET read[k \in 0..Len(children)] ==
            IF k = 0 THEN <<>>
            ELSE IF CallForChild(i, g, children[k]) \in gone THEN read[k - 1]
            ELSE Append(read[k - 1], children[k])
    IN  read[Len(children)]

\* What is made of a segment when the calls in gone find no connection. Whether it is occluded is
\* what the call for its local rotation says.
SegmentRead(i, g, s, gone) ==
    LET Read(name, answer, cleared) ==
            IF Call(i, g, "GetSegmentName") \in gone \/ Call(i, g, name) \in gone THEN cleared
            ELSE answer
    IN  [Name |-> Read("GetSegmentName", s.Name, <<>>),
         Parent |-> Read("GetSegmentParentName", s.Parent, <<>>),
         m_Children |-> Read("GetSegmentChildCount", ChildrenRead(i, g, s.m_Children, gone), <<>>),
         T |-> Read("GetSegmentGlobalTranslation", s.T, 0),
         R |-> Read("GetSegmentGlobalRotationQuaternion", s.R, NoRotation),
         T_Rel |-> Read("GetSegmentLocalTranslation", s.T_Rel, 0),
         R_Rel |-> Read("GetSegmentLocalRotationQuaternion", s.R_Rel, NoRotation),
         bOccluded |-> Read("GetSegmentLocalRotationQuaternion", s.bOccluded, FALSE),
         T_Stat |-> Read("GetSegmentStaticTranslation", s.T_Stat, 0),
         R_Stat |-> Read("GetSegmentStaticRotationQuaternion", s.R_Stat, NoRotation),
         Scale |-> Read("GetSegmentStaticScale", s.Scale, <<>>)]

\* The sample of a subject. Segments of one name, as those of which none could be read, replace
\* each other.
SampleOf(i, subject, gone) ==
    LET Read(name, answer, cleared) ==
            IF Call(i, 0, "GetSubjectName") \in gone \/ Call(i, 0, name) \in gone THEN cleared
            ELSE answer
        segments == Read("GetSegmentCount", subject.Segments, <<>>)
        read == [g \in DOMAIN segments |-> SegmentRead(i, g, segments[g], gone)]
    IN  [name |-> Read("GetSubjectName", subject.Name, <<>>),
         sample |-> [Result |-> "ESuccess", ReceiptTime |-> now,
                     RootSegment |-> Read("GetSubjectRootSegmentName", subject.RootSegment, <<>>),
                     m_SegmentNames |-> [g \in DOMAIN read |-> read[g].Name],
                     m_Segments |-> [name \in {read[g].Name : g \in DOMAIN read} |->
                                        read[SelectLastInSeq(read, LAMBDA s : s.Name = name)]]]]

\* A round of InputThread that got a frame. If the connection goes before the subjects are counted
\* there is no such round, only Disconnect; if it comes back during the round, that is Connect. No
\* two frames come at the same nanosecond.
InputThread(frame, gone) ==
    /\ connected
    /\ \A name \in DOMAIN m_Data : \A i \in DOMAIN m_Data[name] : m_Data[name][i].ReceiptTime # now
    /\ m_Data' = AddData([i \in DOMAIN frame |-> SampleOf(i, frame[i], gone)])
    /\ connected' = (gone = {})
    /\ gone # {} => losses < Losses
    /\ losses' = IF gone = {} THEN losses ELSE losses + 1
    /\ UNCHANGED <<now, setBacks, m_LatestOutputPoses, m_MaxPredictionTime>>

---------------------------------------------------------------------------
(* Everything else.                                                        *)

\* The user asks for a time from now on or back. Which of this and the next action is possible is
\* the matter of RetimingClient; here either is.
UpdateFrame(offset) == UpdateFrameAtTime(now + offset)

\* A round of OutputThread, with a latency.
OutputThread(m_OutputLatency) == UpdateFrameAtTime(now - m_OutputLatency)

SetMaximumPrediction(time) ==
    /\ m_MaxPredictionTime' = time
    /\ UNCHANGED <<connected, now, setBacks, losses, m_Data, m_LatestOutputPoses>>

\* Samples and poses stay, whatever becomes of the connection.
Connect ==
    /\ connected' = TRUE
    /\ UNCHANGED <<now, setBacks, losses, m_Data, m_LatestOutputPoses, m_MaxPredictionTime>>

Disconnect ==
    /\ connected' = FALSE
    /\ UNCHANGED <<now, setBacks, losses, m_Data, m_LatestOutputPoses, m_MaxPredictionTime>>

Tick ==
    /\ now < TimeLimit
    /\ now' = now + 1
    /\ UNCHANGED <<connected, setBacks, losses, m_Data, m_LatestOutputPoses, m_MaxPredictionTime>>

\* hrc is high_resolution_clock, which may be the system's clock; that can be set back.
SetBack ==
    /\ setBacks < SetBacks
    /\ setBacks' = setBacks + 1
    /\ now' \in 0..now - 1
    /\ UNCHANGED <<connected, losses, m_Data, m_LatestOutputPoses, m_MaxPredictionTime>>

Next ==
    \/ \E frame \in Frames : \E gone \in Outages(CallsForFrame(frame)) : InputThread(frame, gone)
    \/ \E offset \in Offsets : UpdateFrame(offset) \/ OutputThread(offset)
    \/ \E time \in Predictions : SetMaximumPrediction(time)
    \/ Connect
    \/ Disconnect
    \/ Tick
    \/ SetBack

Spec == Init /\ [][Next]_vars

---------------------------------------------------------------------------

(* The samples, and what is made of them: the inductive invariant.         *)

NamesOrNone == Names \cup {<<>>}

SegmentOK(s) ==
    s.Parent \in NamesOrNone /\ s.m_Children \in Seq(Names) /\ s.T \in Distances /\ s.R \in Angles

\* A child has the segment for its parent that has it for a child, or none that could be read.
Related(segments) ==
    \A g, c \in DOMAIN segments :
        c \in ToSet(segments[g].m_Children) => segments[c].Parent \in {g, <<>>}

SampleOK(x) ==
    /\ x.ReceiptTime \in 0..TimeLimit
    /\ x.RootSegment \in NamesOrNone
    /\ x.m_SegmentNames \in Seq(NamesOrNone)
    /\ \A i \in DOMAIN x.m_SegmentNames : x.m_SegmentNames[i] \in DOMAIN x.m_Segments
    /\ \A g \in DOMAIN x.m_Segments : SegmentOK(x.m_Segments[g])
    /\ Related(x.m_Segments)

\* Samples that anything is predicted from are not of one time. Those of subjects that could not
\* be read, with the name <<>>, may be, but have no segments.
Apart(name, samples) ==
    IF name = <<>> THEN \A i \in DOMAIN samples : DOMAIN samples[i].m_Segments = {}
    ELSE Len(samples) = 2 => samples[1].ReceiptTime # samples[2].ReceiptTime

InOrder(samples) ==
    setBacks = 0 =>
        /\ \A i \in DOMAIN samples : samples[i].ReceiptTime <= now
        /\ Len(samples) = 2 => samples[1].ReceiptTime <= samples[2].ReceiptTime

SamplesOK(name, samples) ==
    /\ samples = <<samples[1]>> \/ samples = <<samples[1], samples[2]>>
    /\ \A i \in DOMAIN samples : SampleOK(samples[i]) /\ ~AnyOccluded(samples[i])
    /\ Apart(name, samples)
    /\ InOrder(samples)

DataOK(data) ==
    /\ DOMAIN data \subseteq NamesOrNone
    /\ IsFiniteSet(DOMAIN data)
    /\ \A name \in DOMAIN data : SamplesOK(name, data[name])

PosesOK(poses) ==
    \A name \in DOMAIN poses :
        poses[name].Result = "ESuccess" =>
            ~AnyOccluded(poses[name]) /\ Related(poses[name].m_Segments)

\* Of each subject the last one or two samples are kept. None has a segment that was read as
\* occluded; the two are of two times, and in their order unless the clock was set back; every
\* segment that is named is there, and wherever in a frame the connection was lost, a child that is
\* there has the right parent or none. What is predicted from them has poses only for subjects with
\* samples, none of them occluded, with children and parents that agree (VRetimingCore::AddData,
\* Predict, VRetimingClient::InputThread).
RetimingInv ==
    /\ now \in 0..TimeLimit
    /\ setBacks \in Nat
    /\ m_MaxPredictionTime \in Nat
    /\ DataOK(m_Data)
    /\ DOMAIN m_LatestOutputPoses \subseteq DOMAIN m_Data
    /\ PosesOK(m_LatestOutputPoses)

---------------------------------------------------------------------------
(* Motion.                                                                 *)

Turned(r1, r2) == {turn \in -180..180 : (r2 - r1 - turn) % 360 = 0}

\* From r1 to r, on the shorter way round from r1 to r2, as far as the time has passed.
EvenTurn(r1, t1, r2, t2, t, r) ==
    \E turn \in Turned(r1, r2) : (r - r1 - (turn * (t - t1)) \div (t2 - t1)) % 360 = 0

MovedEvenly ==
    \A name \in DOMAIN m_LatestOutputPoses' :
        LET pose == m_LatestOutputPoses'[name]
            p1 == Head(m_Data[name])
            p2 == Last(m_Data[name])
            t1 == p1.ReceiptTime
            t2 == p2.ReceiptTime
            t == pose.ReceiptTime
        IN  m_LatestOutputPoses' # m_LatestOutputPoses /\ pose.Result = "ESuccess" =>
            /\ Len(m_Data[name]) = 2
            /\ DOMAIN pose.m_Segments # {} => t1 < t2
            /\ t1 <= t /\ t <= t2 + m_MaxPredictionTime
            /\ \A g \in DOMAIN pose.m_Segments :
                LET s1 == p1.m_Segments[g]
                    s2 == p2.m_Segments[g]
                    s == pose.m_Segments[g]
                IN  /\ (s.T - s1.T) * (t2 - t1) = (s2.T - s1.T) * (t - t1)
                    /\ s1.R >= 0 /\ s2.R >= 0 => EvenTurn(s1.R, t1, s2.R, t2, t, s.R)

\* A pose that is handed out is for a time not before the older sample and not further behind the
\* newer one than was set; since both samples it has moved and turned as evenly as time passed,
\* the shorter way round, however their quaternions are signed (VRetimingCore::Predict,
\* PredictRotation, AddData).
EvenlyMoved == [][MovedEvenly]_vars
=============================================================================
