------------------------------- MODULE Client -------------------------------
(***************************************************************************)
(* The getters of the C++ interface, Client. Each asks the VClient and     *)
(* adapts what it answers: results, units and the like have types of their *)
(* own in the interface, and force plates and eye trackers are known by    *)
(* their index instead of their ID.                                        *)
(***************************************************************************)
EXTENDS Getters

\* What the getter for an ID answers about the thing with the index.
AtID(ID, Of(_)) == IF Given(ID) THEN Adapted(Of(ID.out)) ELSE Adapted(ID)

---------------------------------------------------------------------------
(* The frame.                                                              *)

CPP_GetServerOrientation == Adapted(GetServerOrientation)

CPP_GetFrameNumber == Adapted(GetFrameNumber)

CPP_GetTimecode == Adapted(GetTimecode)

CPP_GetFrameRate == Adapted(GetFrameRate)

CPP_GetLatencySampleCount == Adapted(GetLatencySampleCount)

CPP_GetLatencySampleName(i) == Adapted(GetLatencySampleName(i))

CPP_GetLatencySampleValue(name) == Adapted(GetLatencySampleValue(name))

CPP_GetLatencyTotal == Adapted(GetLatencyTotal)

CPP_GetHardwareFrameNumber == Adapted(GetHardwareFrameNumber)

CPP_GetFrameRateCount == Adapted(GetFrameRateCount)

CPP_GetFrameRateName(i) == Adapted(GetFrameRateName(i))

CPP_GetFrameRateValue(name) == Adapted(GetFrameRateValue(name))

---------------------------------------------------------------------------
(* Subjects.                                                               *)

CPP_GetSubjectCount == Adapted(GetSubjectCount)

CPP_GetSubjectName(i) == Adapted(GetSubjectName(i))

CPP_GetSubjectRootSegmentName(s) == Adapted(GetSubjectRootSegmentName(s))

CPP_GetSegmentCount(s) == Adapted(GetSegmentCount(s))

CPP_GetSegmentName(s, i) == Adapted(GetSegmentName(s, i))

CPP_GetSegmentChildCount(s, g) == Adapted(GetSegmentChildCount(s, g))

CPP_GetSegmentChildName(s, g, i) == Adapted(GetSegmentChildName(s, g, i))

CPP_GetSegmentParentName(s, g) == Adapted(GetSegmentParentName(s, g))

CPP_GetSegmentGlobalTranslation(s, g) == Adapted(GetSegmentGlobalTranslation(s, g))

CPP_GetSegmentGlobalRotationHelical(s, g) == Adapted(GetSegmentGlobalRotationHelical(s, g))

CPP_GetSegmentGlobalRotationMatrix(s, g) == Adapted(GetSegmentGlobalRotationMatrix(s, g))

CPP_GetSegmentGlobalRotationQuaternion(s, g) == Adapted(GetSegmentGlobalRotationQuaternion(s, g))

CPP_GetSegmentGlobalRotationEulerXYZ(s, g) == Adapted(GetSegmentGlobalRotationEulerXYZ(s, g))

CPP_GetSegmentStaticTranslation(s, g) == Adapted(GetSegmentStaticTranslation(s, g))

CPP_GetSegmentStaticRotationHelical(s, g) == Adapted(GetSegmentStaticRotationHelical(s, g))

CPP_GetSegmentStaticRotationMatrix(s, g) == Adapted(GetSegmentStaticRotationMatrix(s, g))

CPP_GetSegmentStaticRotationQuaternion(s, g) == Adapted(GetSegmentStaticRotationQuaternion(s, g))

CPP_GetSegmentStaticRotationEulerXYZ(s, g) == Adapted(GetSegmentStaticRotationEulerXYZ(s, g))

CPP_GetSegmentStaticScale(s, g, scaleRefused) ==
    Adapted(GetSegmentStaticScale(s, g, scaleRefused))

CPP_GetSegmentLocalTranslation(s, g) == Adapted(GetSegmentLocalTranslation(s, g))

CPP_GetSegmentLocalRotationHelical(s, g) == Adapted(GetSegmentLocalRotationHelical(s, g))

CPP_GetSegmentLocalRotationMatrix(s, g) == Adapted(GetSegmentLocalRotationMatrix(s, g))

CPP_GetSegmentLocalRotationQuaternion(s, g) == Adapted(GetSegmentLocalRotationQuaternion(s, g))

CPP_GetSegmentLocalRotationEulerXYZ(s, g) == Adapted(GetSegmentLocalRotationEulerXYZ(s, g))

CPP_GetObjectQuality(s) == Adapted(GetObjectQuality(s))

CPP_GetMarkerCount(s) == Adapted(GetMarkerCount(s))

CPP_GetMarkerName(s, i) == Adapted(GetMarkerName(s, i))

CPP_GetMarkerParentName(s, k) == Adapted(GetMarkerParentName(s, k))

CPP_GetMarkerGlobalTranslation(s, k) == Adapted(GetMarkerGlobalTranslation(s, k))

CPP_GetMarkerRayContributionCount(s, k) == Adapted(GetMarkerRayAssignmentCount(s, k))

CPP_GetMarkerRayContribution(s, k, i) == Adapted(GetMarkerRayAssignment(s, k, i))

CPP_GetUnlabeledMarkerCount == Adapted(GetUnlabeledMarkerCount)

CPP_GetUnlabeledMarkerGlobalTranslation(i) == Adapted(GetUnlabeledMarkerGlobalTranslation(i))

CPP_GetLabeledMarkerCount == Adapted(GetLabeledMarkerCount)

CPP_GetLabeledMarkerGlobalTranslation(i) == Adapted(GetLabeledMarkerGlobalTranslation(i))

---------------------------------------------------------------------------
(* Devices. Those of the overloads that have no name for the output look   *)
(* through all outputs.                                                    *)

CPP_GetDeviceCount == Adapted(GetDeviceCount)

CPP_GetDeviceName(i) == Adapted(GetDeviceName(i))

CPP_GetDeviceOutputCount(d) == Adapted(GetDeviceOutputCount(d))

\* The name of the output is that of the component, as it was before outputs had two names.
CPP_GetDeviceOutputName(d, i) ==
    LET answer == Adapted(GetDeviceOutputNameComponent(d, i))
    IN  IF Given(answer) THEN Answer([name |-> answer.out.component, unit |-> answer.out.unit])
        ELSE answer

CPP_GetDeviceOutputComponentName(d, i) == Adapted(GetDeviceOutputNameComponent(d, i))

CPP_GetDeviceOutputValue(d, component) == Adapted(GetDeviceOutputValue(d, <<>>, component))

CPP_GetDeviceOutputComponentValue(d, output, component) ==
    Adapted(GetDeviceOutputValue(d, output, component))

CPP_GetDeviceOutputSubsamples(d, component) ==
    Adapted(GetDeviceOutputSubsamples(d, <<>>, component))

CPP_GetDeviceOutputComponentSubsamples(d, output, component) ==
    Adapted(GetDeviceOutputSubsamples(d, output, component))

CPP_GetDeviceOutputValueAt(d, component, sample) ==
    Adapted(GetDeviceOutputValueAt(d, <<>>, component, sample))

CPP_GetDeviceOutputComponentValueAt(d, output, component, sample) ==
    Adapted(GetDeviceOutputValueAt(d, output, component, sample))

CPP_GetForcePlateCount == Adapted(GetForcePlateCount)

CPP_GetForcePlateSubsamples(i) == AtID(GetForcePlateID(i), GetForcePlateSubsamples)

CPP_GetGlobalForceVectorAt(i, sample) ==
    AtID(GetForcePlateID(i), LAMBDA plateID : GetGlobalForceVectorAtSample(plateID, sample))

CPP_GetGlobalMomentVectorAt(i, sample) ==
    AtID(GetForcePlateID(i), LAMBDA plateID : GetGlobalMomentVectorAtSample(plateID, sample))

CPP_GetGlobalCentreOfPressureAt(i, sample) ==
    AtID(GetForcePlateID(i), LAMBDA plateID : GetGlobalCentreOfPressureAtSample(plateID, sample))

CPP_GetGlobalForceVector(i) == CPP_GetGlobalForceVectorAt(i, 0)

CPP_GetGlobalMomentVector(i) == CPP_GetGlobalMomentVectorAt(i, 0)

CPP_GetGlobalCentreOfPressure(i) == CPP_GetGlobalCentreOfPressureAt(i, 0)

CPP_GetEyeTrackerCount == Adapted(GetEyeTrackerCount)

CPP_GetEyeTrackerGlobalPosition(i) == AtID(GetEyeTrackerID(i), GetEyeTrackerGlobalPosition)

CPP_GetEyeTrackerGlobalGazeVector(i) == AtID(GetEyeTrackerID(i), GetEyeTrackerGlobalGazeVector)

---------------------------------------------------------------------------
(* Cameras.                                                                *)

CPP_GetCameraCount == Adapted(GetCameraCount)

CPP_GetDynamicCameraCount == Adapted(GetDynamicCameraCount)

CPP_GetCameraName(i) == Adapted(GetCameraName(i))

CPP_GetDynamicCameraName(i) == Adapted(GetDynamicCameraName(i))

CPP_GetCameraId(c) == Adapted(GetCameraID(c))

CPP_GetCameraUserId(c) == Adapted(GetCameraUserID(c))

CPP_GetCameraType(c) == Adapted(GetCameraType(c))

CPP_GetCameraDisplayName(c) == Adapted(GetCameraDisplayName(c))

CPP_GetCameraResolution(c) == Adapted(GetCameraResolution(c))

CPP_GetIsVideoCamera(c) == Adapted(GetIsVideoCamera(c))

CPP_GetCameraSensorMode(c) == Adapted(GetCameraSensorMode(c))

CPP_GetCameraWindowSize(c) == Adapted(GetCameraWindowSize(c))

CPP_GetCameraGlobalTranslation(c) == Adapted(GetCameraGlobalTranslation(c))

CPP_GetCameraGlobalRotationHelical(c) == Adapted(GetCameraGlobalRotationHelical(c))

CPP_GetCameraGlobalRotationMatrix(c) == Adapted(GetCameraGlobalRotationMatrix(c))

CPP_GetCameraGlobalRotationQuaternion(c) == Adapted(GetCameraGlobalRotationQuaternion(c))

CPP_GetCameraGlobalRotationEulerXYZ(c) == Adapted(GetCameraGlobalRotationEulerXYZ(c))

CPP_GetCameraPrincipalPoint(c) == Adapted(GetCameraPrincipalPoint(c))

CPP_GetCameraFocalLength(c) == Adapted(GetCameraFocalLength(c))

CPP_GetCameraLensParameters(c) == Adapted(GetCameraLensParameters(c))

CPP_GetCentroidCount(c) == Adapted(GetCentroidCount(c))

CPP_GetCentroidPosition(c, i) == Adapted(GetCentroidPosition(c, i))

CPP_GetCentroidWeight(c, i) == Adapted(GetCentroidWeight(c, i))

CPP_GetGreyscaleBlobCount(c) == Adapted(GetGreyscaleBlobCount(c))

CPP_GetGreyscaleBlobSubsampleInfo(c) == Adapted(GetGreyscaleBlobSubsampleInfo(c))

CPP_GetGreyscaleBlob(c, i) == Adapted(GetGreyscaleBlob(c, i))

\* What the frame has is copied.
CPP_GetVideoFrame(c) == Adapted(GetVideoFrame(c))
=============================================================================
