------------------------------ MODULE CClient -------------------------------
(***************************************************************************)
(* The getters of the C interface. Each asks the C++ interface and copies  *)
(* every field of its answer; a name is written into a buffer of the       *)
(* caller, who gives its size.                                             *)
(*                                                                         *)
(* There is no function for sensor modes, windows, blobs and video frames. *)
(***************************************************************************)
EXTENDS Client

CONSTANTS
    LongestName,  \* of the names in the frames, in pieces
    Queries       \* names that getters are asked for

---------------------------------------------------------------------------
(* The frame.                                                              *)

Client_GetFrameNumber == CPP_GetFrameNumber

Client_GetTimecode == CPP_GetTimecode

Client_GetFrameRate == CPP_GetFrameRate

Client_GetLatencySampleCount == CPP_GetLatencySampleCount

Client_GetLatencySampleName(i, size) == Text(CPP_GetLatencySampleName(i), size)

Client_GetLatencySampleValue(name) == CPP_GetLatencySampleValue(name)

Client_GetLatencyTotal == CPP_GetLatencyTotal

Client_GetServerOrientation == CPP_GetServerOrientation

Client_GetHardwareFrameNumber == CPP_GetHardwareFrameNumber

Client_GetFrameRateCount == CPP_GetFrameRateCount

Client_GetFrameRateName(i, size) == Text(CPP_GetFrameRateName(i), size)

Client_GetFrameRateValue(name) == CPP_GetFrameRateValue(name)

---------------------------------------------------------------------------
(* Subjects.                                                               *)

Client_GetSubjectCount == CPP_GetSubjectCount

Client_GetSubjectName(i, size) == Text(CPP_GetSubjectName(i), size)

Client_GetSubjectRootSegmentName(s, size) == Text(CPP_GetSubjectRootSegmentName(s), size)

Client_GetSegmentCount(s) == CPP_GetSegmentCount(s)

Client_GetSegmentName(s, i, size) == Text(CPP_GetSegmentName(s, i), size)

Client_GetSegmentChildCount(s, g) == CPP_GetSegmentChildCount(s, g)

Client_GetSegmentChildName(s, g, i, size) == Text(CPP_GetSegmentChildName(s, g, i), size)

Client_GetSegmentParentName(s, g, size) == Text(CPP_GetSegmentParentName(s, g), size)

Client_GetSegmentStaticTranslation(s, g) == CPP_GetSegmentStaticTranslation(s, g)

Client_GetSegmentStaticRotationHelical(s, g) == CPP_GetSegmentStaticRotationHelical(s, g)

Client_GetSegmentStaticRotationMatrix(s, g) == CPP_GetSegmentStaticRotationMatrix(s, g)

Client_GetSegmentStaticRotationQuaternion(s, g) == CPP_GetSegmentStaticRotationQuaternion(s, g)

Client_GetSegmentStaticRotationEulerXYZ(s, g) == CPP_GetSegmentStaticRotationEulerXYZ(s, g)

Client_GetSegmentStaticScale(s, g, scaleRefused) == CPP_GetSegmentStaticScale(s, g, scaleRefused)

Client_GetSegmentGlobalTranslation(s, g) == CPP_GetSegmentGlobalTranslation(s, g)

Client_GetSegmentGlobalRotationHelical(s, g) == CPP_GetSegmentGlobalRotationHelical(s, g)

Client_GetSegmentGlobalRotationMatrix(s, g) == CPP_GetSegmentGlobalRotationMatrix(s, g)

Client_GetSegmentGlobalRotationQuaternion(s, g) == CPP_GetSegmentGlobalRotationQuaternion(s, g)

Client_GetSegmentGlobalRotationEulerXYZ(s, g) == CPP_GetSegmentGlobalRotationEulerXYZ(s, g)

Client_GetSegmentLocalTranslation(s, g) == CPP_GetSegmentLocalTranslation(s, g)

Client_GetSegmentLocalRotationHelical(s, g) == CPP_GetSegmentLocalRotationHelical(s, g)

Client_GetSegmentLocalRotationMatrix(s, g) == CPP_GetSegmentLocalRotationMatrix(s, g)

Client_GetSegmentLocalRotationQuaternion(s, g) == CPP_GetSegmentLocalRotationQuaternion(s, g)

Client_GetSegmentLocalRotationEulerXYZ(s, g) == CPP_GetSegmentLocalRotationEulerXYZ(s, g)

Client_GetMarkerCount(s) == CPP_GetMarkerCount(s)

Client_GetMarkerName(s, i, size) == Text(CPP_GetMarkerName(s, i), size)

Client_GetMarkerParentName(s, k, size) == Text(CPP_GetMarkerParentName(s, k), size)

Client_GetMarkerGlobalTranslation(s, k) == CPP_GetMarkerGlobalTranslation(s, k)

Client_GetUnlabeledMarkerCount == CPP_GetUnlabeledMarkerCount

Client_GetUnlabeledMarkerGlobalTranslation(i) == CPP_GetUnlabeledMarkerGlobalTranslation(i)

Client_GetObjectQuality(s) == CPP_GetObjectQuality(s)

Client_GetMarkerRayContributionCount(s, k) == CPP_GetMarkerRayContributionCount(s, k)

Client_GetMarkerRayContribution(s, k, i) == CPP_GetMarkerRayContribution(s, k, i)

Client_GetLabeledMarkerCount == CPP_GetLabeledMarkerCount

Client_GetLabeledMarkerGlobalTranslation(i) == CPP_GetLabeledMarkerGlobalTranslation(i)

---------------------------------------------------------------------------
(* Devices.                                                                *)

Client_GetDeviceCount == CPP_GetDeviceCount

Client_GetDeviceName(i, size) == TextIn("name", CPP_GetDeviceName(i), size)

Client_GetDeviceOutputCount(d) == CPP_GetDeviceOutputCount(d)

Client_GetDeviceOutputName(d, i, size) ==
    TextIn("name", CPP_GetDeviceOutputName(d, i), size)

Client_GetDeviceOutputComponentName(d, i, outputSize, componentSize) ==
    TextIn("component", TextIn("name", CPP_GetDeviceOutputComponentName(d, i), outputSize),
           componentSize)

Client_GetDeviceOutputValue(d, component) == CPP_GetDeviceOutputValue(d, component)

Client_GetDeviceOutputSubsamples(d, component) == CPP_GetDeviceOutputSubsamples(d, component)

Client_GetDeviceOutputValueForSubsample(d, component, sample) ==
    CPP_GetDeviceOutputValueAt(d, component, sample)

Client_GetDeviceOutputComponentValue(d, output, component) ==
    CPP_GetDeviceOutputComponentValue(d, output, component)

Client_GetDeviceOutputComponentSubsamples(d, output, component) ==
    CPP_GetDeviceOutputComponentSubsamples(d, output, component)

Client_GetDeviceOutputComponentValueForSubsample(d, output, component, sample) ==
    CPP_GetDeviceOutputComponentValueAt(d, output, component, sample)

Client_GetForcePlateCount == CPP_GetForcePlateCount

Client_GetGlobalForceVector(i) == CPP_GetGlobalForceVector(i)

Client_GetGlobalMomentVector(i) == CPP_GetGlobalMomentVector(i)

Client_GetGlobalCentreOfPressure(i) == CPP_GetGlobalCentreOfPressure(i)

Client_GetForcePlateSubsamples(i) == CPP_GetForcePlateSubsamples(i)

Client_GetGlobalForceVectorForSubsample(i, sample) == CPP_GetGlobalForceVectorAt(i, sample)

Client_GetGlobalMomentVectorForSubsample(i, sample) == CPP_GetGlobalMomentVectorAt(i, sample)

Client_GetGlobalCentreOfPressureForSubsample(i, sample) ==
    CPP_GetGlobalCentreOfPressureAt(i, sample)

Client_GetEyeTrackerCount == CPP_GetEyeTrackerCount

Client_GetEyeTrackerGlobalPosition(i) == CPP_GetEyeTrackerGlobalPosition(i)

Client_GetEyeTrackerGlobalGazeVector(i) == CPP_GetEyeTrackerGlobalGazeVector(i)

---------------------------------------------------------------------------
(* Cameras.                                                                *)

Client_GetCameraCount == CPP_GetCameraCount

Client_GetDynamicCameraCount == CPP_GetDynamicCameraCount

Client_GetCameraName(i, size) == Text(CPP_GetCameraName(i), size)

Client_GetDynamicCameraName(i, size) == Text(CPP_GetDynamicCameraName(i), size)

Client_GetCameraId(c) == CPP_GetCameraId(c)

Client_GetCameraUserId(c) == CPP_GetCameraUserId(c)

Client_GetCameraType(c, size) == Text(CPP_GetCameraType(c), size)

Client_GetCameraDisplayName(c, size) == Text(CPP_GetCameraDisplayName(c), size)

Client_GetCameraResolution(c) == CPP_GetCameraResolution(c)

Client_GetCameraGlobalTranslation(c) == CPP_GetCameraGlobalTranslation(c)

Client_GetCameraGlobalRotationHelical(c) == CPP_GetCameraGlobalRotationHelical(c)

Client_GetCameraGlobalRotationMatrix(c) == CPP_GetCameraGlobalRotationMatrix(c)

Client_GetCameraGlobalRotationQuaternion(c) == CPP_GetCameraGlobalRotationQuaternion(c)

Client_GetCameraGlobalRotationEulerXYZ(c) == CPP_GetCameraGlobalRotationEulerXYZ(c)

Client_GetCameraFocalLength(c) == CPP_GetCameraFocalLength(c)

Client_GetCameraPrincipalPoint(c) == CPP_GetCameraPrincipalPoint(c)

Client_GetCameraLensParameters(c) == CPP_GetCameraLensParameters(c)

Client_GetIsVideoCamera(c) == CPP_GetIsVideoCamera(c)

Client_GetCentroidCount(c) == CPP_GetCentroidCount(c)

Client_GetCentroidPosition(c, i) == CPP_GetCentroidPosition(c, i)

Client_GetCentroidWeight(c, i) == CPP_GetCentroidWeight(c, i)

---------------------------------------------------------------------------
(* A program that knows nothing but what it is told by the C interface.    *)

\* The segments from one on, down the tree, in the order in which they are met.
RECURSIVE Below(_, _, _)
Below(subject, segment, size) ==
    LET count == Client_GetSegmentChildCount(subject, segment)
    IN  <<segment>> \o FlattenSeq([i \in 1..IF Given(count) THEN count.out ELSE 0 |->
            Below(subject, Client_GetSegmentChildName(subject, segment, i - 1, size).out, size)])

\* A program that walks down from the root of a subject by the names it is given in its buffers
\* meets every segment once; and one that goes through the outputs of a device and asks for each
\* by the name it is given gets the first sample of that output and of no other, whatever names
\* the outputs lack (Client_GetSegmentChildName, Client_GetDeviceOutputName and the getters of
\* VClient behind them).
WalkFindsAll ==
    LET size == LongestName + 1
        subjects == Client_GetSubjectCount
        devices == Client_GetDeviceCount
    IN  /\ Given(subjects) => \A s \in 0..subjects.out - 1 :
            LET subject == Client_GetSubjectName(s, size).out
                count == Client_GetSegmentCount(subject)
                walk == Below(subject, Client_GetSubjectRootSegmentName(subject, size).out, size)
            IN  /\ Given(count)
                /\ count.out > 0 =>
                    /\ Len(walk) = count.out
                    /\ ToSet(walk) = {Client_GetSegmentName(subject, g, size).out :
                                        g \in 0..count.out - 1}
        /\ Given(devices) => \A d \in 0..devices.out - 1 :
            LET device == Client_GetDeviceName(d, size).out.name
                count == Client_GetDeviceOutputCount(device)
                outputs == OutputsOf(ChannelsOf(m_LatestFrame.m_Devices[d + 1].m_DeviceID))
            IN  /\ Given(count)
                /\ \A i \in 0..count.out - 1 :
                    LET name == Client_GetDeviceOutputName(device, i, size).out.name
                        value == Client_GetDeviceOutputValue(device, name)
                    IN  \A o \in outputs : OutputIndex(outputs, o) = i =>
                            LET c == m_LatestFrame.m_Channels[o[1]]
                                samples == InPeriod(c, o[2])
                            IN  ~IsForcePlateCoreChannel(c) =>
                                    \A x \in samples : (\A y \in samples : x.tick <= y.tick) =>
                                        value = Answer(x.value)

\* "Unexpected result code returned" (CoreAdapters.h) is an assertion of the interface: no getter
\* of VClient has a result that Adapt does not know, whatever name it is asked for.
ResultsExpected ==
    \A name \in Queries :
        {GetLatencySampleValue(name).result, GetFrameRateValue(name).result,
         GetSegmentCount(name).result, GetDeviceOutputCount(name).result,
         GetCameraResolution(name).result} \subseteq AdaptedResults
=============================================================================
