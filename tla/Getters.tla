------------------------------ MODULE Getters -------------------------------
(***************************************************************************)
(* The calls of VClient between which its getters are called, as far as    *)
(* what the getters answer depends on them. GetFrame itself is the subject *)
(* of CoreClient; here a frame is fetched in one step, which takes no      *)
(* mutex, and handed out in another, so that a getter that another thread  *)
(* calls may come between the two.                                         *)
(***************************************************************************)
EXTENDS SubjectGetters, DeviceGetters, CameraGetters

CONSTANTS
    Frames,      \* the frames the server sends
    Axes,        \* what SetAxisMapping is called with
    Outages(_)   \* of the calls about a frame: sets that may find no connection

IsSequence(s) == s \in Seq(ToSet(s))

\* The segments of a subject have names and IDs of their own, ID 0 is that of no segment, and each
\* segment is deeper than its parent.
Articulated(s) ==
    /\ IsSequence(s.m_Segments)
    /\ \A g, h \in DOMAIN s.m_Segments :
        /\ s.m_Segments[g].m_Name # <<>>
        /\ s.m_Segments[g].m_SegmentID # 0
        /\ s.m_Segments[g].m_Name = s.m_Segments[h].m_Name => g = h
        /\ s.m_Segments[g].m_SegmentID = s.m_Segments[h].m_SegmentID => g = h
    /\ \E depth \in [DOMAIN s.m_Segments -> 1..Len(s.m_Segments)] :
        \A g, h \in DOMAIN s.m_Segments :
            s.m_Segments[h].m_ParentID = s.m_Segments[g].m_SegmentID => depth[g] < depth[h]

\* The poses of the segments of a subject in m_GlobalSegments or m_LocalSegments.
PosesIn(objects, s) ==
    UNION {ToSet(objects[n].m_Segments) :
            n \in {k \in DOMAIN objects : objects[k].m_SubjectID = s.m_SubjectID}}

\* A segment is where its local pose puts it in the global pose of its parent.
PlacedBy(g, parent, l) ==
    /\ g.m_Translation = Plus(parent.m_Translation, Apply(parent.m_Rotation, l.m_Translation))
    /\ g.m_Rotation = Times(parent.m_Rotation, l.m_Rotation)

\* A segment has one pose of a kind at the most; those with a local pose have a global one too,
\* and so do their parents, and the poses fit together.
PosesFit(globals, locals, s) ==
    /\ \A p \in globals \cup locals : p.m_Translation \in Vectors /\ p.m_Rotation \in Matrices
    /\ \A p, q \in globals : p.m_SegmentID = q.m_SegmentID => p = q
    /\ \A p, q \in locals : p.m_SegmentID = q.m_SegmentID => p = q
    /\ \A l \in locals : \E g \in globals :
        /\ g.m_SegmentID = l.m_SegmentID
        /\ \A h \in ToSet(s.m_Segments) : h.m_SegmentID = l.m_SegmentID =>
            /\ h = s.m_Segments[RootOf(s)] =>
                    g.m_Translation = l.m_Translation /\ g.m_Rotation = l.m_Rotation
            /\ \A parent \in ToSet(s.m_Segments) : h.m_ParentID = parent.m_SegmentID =>
                    \E p \in globals : p.m_SegmentID = parent.m_SegmentID /\ PlacedBy(g, p, l)

\* The device frames with the data of a channel.
DataOf(f, c) == {d \in ToSet(FramesFor(f, c)) : IsDataOf(c, d)}

\* The objects with poses are sequences.
Objects(objects) ==
    /\ IsSequence(objects)
    /\ \A n \in DOMAIN objects : IsSequence(objects[n].m_Segments)

\* What is sent are poses that fit together, or those relative to the parent.
WithPosesThatFit(f) ==
    /\ Objects(f.m_GlobalSegments) /\ Objects(f.m_LocalSegments)
    /\ Objects(f.m_LightweightSegments)
    /\ \A n \in DOMAIN f.m_LightweightSegments :
        \A p \in ToSet(f.m_LightweightSegments[n].m_Segments) :
            p.m_Translation \in Vectors /\ p.m_Rotation \in Vectors
    /\ \A s \in ToSet(f.m_Subjects) :
        PosesFit(PosesIn(f.m_GlobalSegments, s), PosesIn(f.m_LocalSegments, s), s)

\* A device has an ID and a name of its own, and so has a channel among those of its device. The
\* components of a channel can be told from each other if they have names, and from those that have
\* none. No two channels of a device have the same kind of data of a plate.
DevicesNamed(devices, channels) ==
    /\ IsSequence(devices) /\ IsSequence(channels)
    /\ \A m, n \in DOMAIN devices :
        LET d == devices[m] e == devices[n]
        IN  d.m_DeviceID = e.m_DeviceID \/ AdaptDeviceName(d) = AdaptDeviceName(e) => m = n
    /\ \A m, n \in DOMAIN channels :
        LET c == channels[m]
            e == channels[n]
        IN  /\ c.m_Name # <<>>
            /\ \E d \in ToSet(devices) : d.m_DeviceID = c.m_DeviceID
            /\ c.m_DeviceID = e.m_DeviceID =>
                \/ m = n
                \/ /\ c.m_Name # e.m_Name
                   /\ c.m_ChannelID # e.m_ChannelID
                   /\ IsForcePlateCoreChannel(c) => c.m_ComponentNames # e.m_ComponentNames
            /\ IsSequence(c.m_ComponentNames)
            /\ \A name \in ToSet(c.m_ComponentNames) :
                    name = <<>> \/ name[1] # "Unnamed Device Output"
            /\ \A j, k \in DOMAIN c.m_ComponentNames :
                    c.m_ComponentNames[j] = c.m_ComponentNames[k] =>
                        j = k \/ c.m_ComponentNames[j] = <<>>

\* The data of a channel come in device frames with n samples each, which divide the period of the
\* device, and all device frames that overlap the frame are there.
Sampled(f, c) ==
    LET period == GetFramePeriod(f)
        start == GetDeviceStartTick(f, c.m_DeviceID)
        devicePeriod == GetDevicePeriod(f, c.m_DeviceID)
        data == DataOf(f, c)
    IN  /\ f.m_FramePeriod \in Nat /\ f.m_FrameID \in Nat /\ start \in Nat /\ devicePeriod \in Nat
        /\ data # {} => \E n \in 1..devicePeriod :
            /\ devicePeriod % n = 0
            /\ \A d \in data :
                d.m_FrameID \in Nat /\ Len(d.m_Samples) = n * Len(c.m_ComponentNames)
            /\ \A d, e \in data : d.m_FrameID = e.m_FrameID => d = e
            /\ \A k \in 0..period.second :
                /\ start + k * devicePeriod < period.second
                /\ start + (k + 1) * devicePeriod > period.first
                => \E d \in data : d.m_FrameID = k

\* The data of a plate of one kind are those of its channel of this kind, and there are device
\* frames of the one kind if there are of the other, as long.
PlatesSampled(f) ==
    \A c \in {c \in ToSet(f.m_Channels) : IsForcePlateCoreChannel(c)} :
        /\ \A d \in ToSet(FramesFor(f, c)) : d.m_DeviceID = c.m_DeviceID => IsDataOf(c, d)
        /\ \A e \in ToSet(f.m_Channels) :
            IsForcePlateCoreChannel(e) /\ e.m_DeviceID = c.m_DeviceID /\ DataOf(f, c) # {} =>
                /\ DataOf(f, e) # {}
                /\ \A d \in DataOf(f, c), x \in DataOf(f, e) : Len(d.m_Samples) = Len(x.m_Samples)

WithDevices(f) ==
    /\ DevicesNamed(f.m_Devices, f.m_Channels) /\ IsSequence(f.m_DevicesExtra)
    /\ IsSequence(f.m_Forces) /\ IsSequence(f.m_Moments)
    /\ IsSequence(f.m_CentresOfPressure) /\ IsSequence(f.m_Voltages)
    /\ \A c \in ToSet(f.m_Channels) : c.m_ComponentNames # <<>> => Sampled(f, c)
    /\ PlatesSampled(f)

\* What is sent is a frame with sequences in it. A subject has an ID of its own; a camera has one
\* calibration at the most.
WellFormed(f) ==
    /\ DOMAIN f = DOMAIN EmptyFrame
    /\ IsSequence(f.m_Subjects)
    /\ \A m, n \in DOMAIN f.m_Subjects :
        /\ f.m_Subjects[n].m_Name # <<>>
        /\ Articulated(f.m_Subjects[n])
        /\ f.m_Subjects[m].m_SubjectID = f.m_Subjects[n].m_SubjectID => m = n
    /\ WithPosesThatFit(f) /\ WithDevices(f)
    /\ IsSequence(f.m_LabeledRecons) /\ IsSequence(f.m_Cameras)
    /\ IsSequence(f.m_CameraCalibrations) /\ IsSequence(f.m_DynamicCameraCalibrationInfo)
    /\ \A n \in DOMAIN f.m_LabeledRecons : f.m_LabeledRecons[n].m_Position \in Vectors
    /\ \A n \in DOMAIN f.m_Cameras :
            f.m_Cameras[n].m_Name \in Seq(STRING) /\ f.m_Cameras[n].m_DisplayType \in Seq(STRING)
    /\ LET calibrations == f.m_CameraCalibrations \o f.m_DynamicCameraCalibrationInfo
       IN  \A m, n \in DOMAIN calibrations :
            /\ calibrations[n].m_PoseRotation \in Matrices
            /\ calibrations[m].m_CameraID = calibrations[n].m_CameraID => m = n

AlongAxis(v) == \E i \in 1..3 : \A j \in 1..3 \ {i} : v[j] = 0

\* The rotations by quarter turns: their rows are directions and right-handed.
QuarterTurns ==
    {R \in Matrices : /\ \A i \in 1..3 : AlongAxis(R[i]) /\ DotProduct(R[i], R[i]) = 1
                      /\ R[3] = CrossProduct(R[1], R[2])}

Turned(objects) ==
    \A n \in DOMAIN objects : \A p \in ToSet(objects[n].m_Segments) :
        p.m_Rotation \in QuarterTurns

\* What is sent is turned as Rotations says: a helical vector is along one of the axes.
RightAngled(f) ==
    /\ Turned(f.m_GlobalSegments)
    /\ \A n \in DOMAIN f.m_LightweightSegments :
            \A p \in ToSet(f.m_LightweightSegments[n].m_Segments) : AlongAxis(p.m_Rotation)

\* Directions are those of the enumeration.
ASSUME GettersAssumption ==
    /\ Axes \subseteq [1..3 -> Directions]
    /\ \A f \in Frames : WellFormed(f)

ASSUME RightAnglesAssumption == \A f \in Frames : RightAngled(f)

VARIABLES
    m_bNewCachedFrame,
    m_bLightweightSegmentDataEnabled

vars == <<frameVars, m_bNewCachedFrame, m_bLightweightSegmentDataEnabled>>

Init ==
    /\ connected = FALSE
    /\ m_LatestFrame = EmptyFrame
    /\ m_CachedFrame = EmptyFrame
    /\ m_pAxisMapping = ZUpAxes
    /\ m_bNewCachedFrame = FALSE
    /\ m_bLightweightSegmentDataEnabled = FALSE

Connect ==
    /\ ~connected
    /\ connected' = TRUE
    /\ UNCHANGED <<m_LatestFrame, m_CachedFrame, m_pAxisMapping, m_bNewCachedFrame,
                   m_bLightweightSegmentDataEnabled>>

\* Disconnect is called, or the server goes away. The frames stay.
Disconnect ==
    /\ connected
    /\ connected' = FALSE
    /\ UNCHANGED <<m_LatestFrame, m_CachedFrame, m_pAxisMapping, m_bNewCachedFrame,
                   m_bLightweightSegmentDataEnabled>>

FetchNextFrame(f) ==
    /\ connected
    /\ m_bNewCachedFrame' = TRUE
    /\ m_CachedFrame' = f
    /\ UNCHANGED <<connected, m_LatestFrame, m_pAxisMapping, m_bLightweightSegmentDataEnabled>>

\* The last part of GetFrame. Poses are worked out with getters of the subject, some of which may
\* find that the connection is gone; if it comes back meanwhile, that is Connect.
Dispatch(gone) ==
    /\ m_bNewCachedFrame
    /\ m_bNewCachedFrame' = FALSE
    /\ m_LatestFrame' = IF m_bLightweightSegmentDataEnabled /\ connected
                        THEN CalculateGlobalsFromLocals(m_CachedFrame, gone) ELSE m_CachedFrame
    /\ connected' = (connected /\ gone = {})
    /\ UNCHANGED <<m_CachedFrame, m_pAxisMapping, m_bLightweightSegmentDataEnabled>>

SetAxisMapping(axes) ==
    /\ m_pAxisMapping' = IF AxisMappingResult(axes) = "Success" THEN axes ELSE m_pAxisMapping
    /\ UNCHANGED <<connected, m_LatestFrame, m_CachedFrame, m_bNewCachedFrame,
                   m_bLightweightSegmentDataEnabled>>

\* EnableLightweightSegmentData and DisableLightweightSegmentData.
SetLightweightSegmentData(enabled) ==
    /\ connected
    /\ m_bLightweightSegmentDataEnabled' = enabled
    /\ UNCHANGED <<frameVars, m_bNewCachedFrame>>

Next ==
    \/ Connect
    \/ Disconnect
    \/ \E f \in Frames : FetchNextFrame(f)
    \/ \E gone \in Outages(PosingCalls(m_CachedFrame)) : Dispatch(gone)
    \/ \E axes \in Axes : SetAxisMapping(axes)
    \/ \E enabled \in BOOLEAN : SetLightweightSegmentData(enabled)

Spec == Init /\ [][Next]_vars

---------------------------------------------------------------------------
(* Properties. m_CachedFrame may be newer than the frame the getters       *)
(* answer from, and its axes are the ones that are used: properties of     *)
(* positions are about the moments at which the two have the same axes.    *)

AxesOfFrame == m_CachedFrame.m_AxisOrientation = m_LatestFrame.m_AxisOrientation

Names(count, Name(_)) == {Name(i).out : i \in 0..count.out - 1}

SubjectNames == IF Given(GetSubjectCount) THEN Names(GetSubjectCount, GetSubjectName) ELSE {}

SegmentNames(subject) ==
    Names(GetSegmentCount(subject), LAMBDA i : GetSegmentName(subject, i))

\* A vector of the frame in the directions forward, left and up.
World(v) ==
    IF m_LatestFrame.m_AxisOrientation = "EYUp"
    THEN [i \in 1..3 |-> DotProduct(v, [j \in 1..3 |-> DirectionVector(YUpAxes[j])[i]])]
    ELSE v

\* The direction, given in forward, left and up, in the axes of the frame.
InServerAxes(d) ==
    IF m_LatestFrame.m_AxisOrientation = "EYUp"
    THEN [j \in 1..3 |-> DotProduct(d, DirectionVector(YUpAxes[j]))] ELSE d

RequestedDirection(i) == DirectionVector(m_pAxisMapping[i])

Along(v) == [i \in 1..3 |-> DotProduct(World(v), RequestedDirection(i))]

\* "Remaps the 3D axes": whatever axes the server has, component i of a position that is handed
\* out is the length of the position along the direction that was requested for axis i, and a
\* rotation that is handed out turns the requested axes as the rotation of the frame turns the
\* directions they stand for (SetAxisMapping, CopyAndTransformT, CopyAndTransformR).
PosesInAxes ==
    AxesOfFrame =>
        /\ \A i \in Indices(m_LatestFrame.m_LabeledRecons) :
                LET marker == GetLabeledMarkerGlobalTranslation(i)
                IN  Given(marker) =>
                        marker.out = Along(m_LatestFrame.m_LabeledRecons[i + 1].m_Position)
        /\ \A n \in DOMAIN Calibrations :
                LET o == Calibrations[n]
                    Of(k) == k.m_CameraID = o.m_CameraID
                    Name(k) == Answer(AdaptCameraName(k))
                    name == WithFirst(m_LatestFrame.m_Cameras, Of, Name, Refuse("NotPresent"))
                    rotation == GetCameraGlobalRotationMatrix(name.out)
                IN  Given(name) /\ Given(rotation) =>
                        \A j \in 1..3 :
                            LET turned == Along(Apply(o.m_PoseRotation,
                                                      InServerAxes(RequestedDirection(j))))
                            IN  \A i \in 1..3 : rotation.out[i][j] = turned[i]

\* The poses of the segments of a subject fit together in the answers of the getters, in any axes,
\* whether the server sent both kinds of pose or GetFrame worked them out: a segment is where its
\* local pose puts it in the global pose of its parent, also in the half tree that GetFrame
\* leaves if a count of children finds no connection (CalculateGlobalsFromLocals).
GlobalsCompose ==
    \A subject \in SubjectNames : \A segment \in SegmentNames(subject) :
        LET parent == GetSegmentParentName(subject, segment)
            root == GetSubjectRootSegmentName(subject).out
            global(name) == GetSegmentGlobalRotationMatrix(subject, name)
            place(name) == GetSegmentGlobalTranslation(subject, name)
            rotation == GetSegmentLocalRotationMatrix(subject, segment)
            offset == GetSegmentLocalTranslation(subject, segment)
        IN  Seen(rotation) =>
                /\ Seen(global(segment)) /\ Seen(place(segment)) /\ Seen(offset)
                /\ Given(parent) =>
                    /\ global(segment).out = Times(global(parent.out).out, rotation.out)
                    /\ place(segment).out = Plus(place(parent.out).out,
                                                 Apply(global(parent.out).out, offset.out))
                /\ segment = root => /\ global(segment).out = rotation.out
                                     /\ place(segment).out = offset.out

EulerToMatrix(e) ==
    Times(Times(HelicalToMatrix(<<e[1], 0, 0>>), HelicalToMatrix(<<0, e[2], 0>>)),
          HelicalToMatrix(<<0, 0, e[3]>>))

SquareOfLength(q) == q[1] * q[1] + q[2] * q[2] + q[3] * q[3] + q[4] * q[4]

\* The matrix of a quaternion, times the square of its length.
QuaternionToMatrix(q) ==
    LET x == q[1] y == q[2] z == q[3] w == q[4]
    IN  << <<w * w + x * x - y * y - z * z, 2 * (x * y - w * z), 2 * (x * z + w * y)>>,
           <<2 * (x * y + w * z), w * w - x * x + y * y - z * z, 2 * (y * z - w * x)>>,
           <<2 * (x * z - w * y), 2 * (y * z + w * x), w * w - x * x - y * y + z * z>> >>

Scaled(n, M) == [i \in 1..3 |-> [j \in 1..3 |-> n * M[i][j]]]

\* The Euler angles and the quaternion of a segment stand for the rotation that its matrix stands
\* for, in gimbal lock and for half turns too (MatrixToEulerXYZ, MatrixToQuaternion).
RotationFormsAgree ==
    \A subject \in SubjectNames : \A segment \in SegmentNames(subject) :
        LET matrix == GetSegmentGlobalRotationMatrix(subject, segment)
            euler == GetSegmentGlobalRotationEulerXYZ(subject, segment)
            quaternion == GetSegmentGlobalRotationQuaternion(subject, segment)
        IN  Seen(matrix) =>
                /\ EulerToMatrix(euler.out) = matrix.out
                /\ LET n == SquareOfLength(quaternion.out)
                   IN  n > 0 /\ QuaternionToMatrix(quaternion.out) = Scaled(n, matrix.out)

---------------------------------------------------------------------------
(* Properties of devices and names.                                        *)

DeviceOf(c) == SelectInSeq(m_LatestFrame.m_Devices, LAMBDA d : d.m_DeviceID = c.m_DeviceID)

DeviceNameOf(c) == AdaptDeviceName(m_LatestFrame.m_Devices[DeviceOf(c)])

\* The samples of a component of a channel that begin in the period of the latest frame, in the
\* device frames.
InPeriod(c, component) ==
    LET period == GetFramePeriod(m_LatestFrame)
        start == GetDeviceStartTick(m_LatestFrame, c.m_DeviceID)
        stride(d) == Len(d.m_Samples) \div Len(c.m_ComponentNames)
        samplePeriod(d) == GetDevicePeriod(m_LatestFrame, c.m_DeviceID) \div stride(d)
        Sample(d, j) ==
            [tick |-> start + (d.m_FrameID * stride(d) + j) * samplePeriod(d),
             value |-> d.m_Samples[(component - 1) * stride(d) + j + 1]]
        samples == UNION {{Sample(d, j) : j \in 0..stride(d) - 1} : d \in DataOf(m_LatestFrame, c)}
    IN  {x \in samples : x.tick >= period.first /\ x.tick < period.second}

\* "Each sample may be accessed individually": the samples of a frame are those that begin in its
\* period and no others, each once and in order, however the frames of a device and those of the
\* system lie to each other; so no sample is lost or given twice between one frame and the next
\* (GetNextSampleIndex, SampleIndexInRange).
SamplesInPeriod ==
    \A n \in DOMAIN m_LatestFrame.m_Channels :
        LET c == m_LatestFrame.m_Channels[n]
        IN  connected /\ ~IsForcePlateCoreChannel(c) =>
                \A k \in DOMAIN c.m_ComponentNames :
                    LET name == c.m_ComponentNames[k]
                        count == GetDeviceOutputSubsamples(DeviceNameOf(c), c.m_Name, name)
                        value(i) == GetDeviceOutputValueAt(DeviceNameOf(c), c.m_Name, name, i)
                        samples == InPeriod(c, k)
                    IN  name # <<>> /\ Seen(count) =>
                            /\ count.out = Cardinality(samples)
                            /\ \A x \in samples :
                                value(Cardinality({y \in samples : y.tick < x.tick}))
                                    = Answer(x.value)

\* A force plate answers the same whichever way it is asked: the vectors of GetForceVector and its
\* kin are, sample by sample, the values of the outputs of the device that the plate is.
PlateAgrees ==
    \A p \in (IF Given(GetForcePlateCount) THEN 0..GetForcePlateCount.out - 1 ELSE {}) :
        LET plateID == GetForcePlateID(p).out
            Vector(c, i) == IF IsForcePlateForceChannel(c) THEN GetForceVectorAtSample(plateID, i)
                            ELSE IF IsForcePlateMomentChannel(c)
                            THEN GetMomentVectorAtSample(plateID, i)
                            ELSE GetCentreOfPressureAtSample(plateID, i)
            count == GetForcePlateSubsamples(plateID)
        IN  Given(count) => \A n \in CoreChannelsOf(plateID), k \in 1..3 :
                LET c == m_LatestFrame.m_Channels[n]
                    device == DeviceNameOf(c)
                    subsamples == GetDeviceOutputSubsamples(device, c.m_Name, c.m_ComponentNames[k])
                    value(i) ==
                        GetDeviceOutputValueAt(device, c.m_Name, c.m_ComponentNames[k], i)
                IN  /\ Seen(subsamples) /\ subsamples.out = count.out
                    /\ \A i \in 0..count.out - 1 :
                            Given(Vector(c, i)) /\ value(i) = Answer(Vector(c, i).out[k])

\* A child has the segment for its parent that has it for a child.
ChildrenAreFound ==
    \A subject \in SubjectNames : \A segment \in SegmentNames(subject) :
        \A child \in Names(GetSegmentChildCount(subject, segment),
                           LAMBDA i : GetSegmentChildName(subject, segment, i)) :
            LET parent == GetSegmentParentName(subject, child)
            IN  Given(parent) /\ parent.out = segment

\* The name of a camera leads to its ID, and that of a dynamic camera to its own calibration.
CamerasAreFound ==
    Given(GetCameraCount) =>
        /\ \A i \in Indices(m_LatestFrame.m_Cameras) :
                LET id == GetCameraID(GetCameraName(i).out)
                IN  Given(id) /\ id.out = m_LatestFrame.m_Cameras[i + 1].m_CameraID
        /\ \A i \in Indices(m_LatestFrame.m_DynamicCameraCalibrationInfo) :
                LET o == m_LatestFrame.m_DynamicCameraCalibrationInfo[i + 1]
                    name == GetDynamicCameraName(i)
                    length == GetCameraFocalLength(name.out)
                IN  Given(name) => Given(length) /\ length.out = o.m_FocalLength

\* What a getter names the getters that take a name find, and the thing they find is the one that
\* was named (GetSegmentChildName, GetCameraName, GetDynamicCameraName).
NamedIsFound == ChildrenAreFound /\ CamerasAreFound
=============================================================================
