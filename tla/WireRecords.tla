---------------------------- MODULE WireRecords ----------------------------
(***************************************************************************)
(* The records of the stream (in ViconCGStream): for each its type, the    *)
(* members that Write puts into the buffer and Read takes out of it, in    *)
(* the order of the code, and the member a filter goes by.                 *)
(*                                                                         *)
(* A member has a kind: a scalar of so many bytes, an array of known       *)
(* length, a class of members of its own, or "many": a 32-bit number of    *)
(* elements and the elements, which is what vectors, sets, maps and        *)
(* strings are on the wire. In all classes Read and Write name the same    *)
(* members in the same order, which is not the order of declaration in     *)
(* VTimecode. VVideoFrame writes the elements of m_Position one by one and *)
(* reads the array, which is the same bytes.                               *)
(***************************************************************************)
EXTENDS Integers, Sequences

---------------------------------------------------------------------------
(* Kinds (StreamCommon/Type.h, StreamCommon/Buffer.h).                     *)

Scalar(w) == [kind |-> "scalar", width |-> w]

Char == Scalar(1)
UInt8 == Scalar(1)
Bool == Scalar(1)
UInt16 == Scalar(2)
Int16 == Scalar(2)
UInt32 == Scalar(4)
Float == Scalar(4)
UInt64 == Scalar(8)
Int64 == Scalar(8)
Double == Scalar(8)

Array(of, n) == [kind |-> "array", of |-> of, n |-> n]

Class(members) == [kind |-> "class", members |-> members]

\* A vector or a set.
Many(of) == [kind |-> "many", of |-> of]

Str == Many(Char)

\* A map is many pairs.
Pair(key, value) == Class(<< <<"first", key>>, <<"second", value>> >>)

\* VItem: the type, the member that identifies the camera, device or subject, the members.
FILTER_NA == "FILTER_NA"

Item(type, filterID, members) ==
    [type |-> type, filterID |-> filterID, wrote |-> members, reads |-> members]

---------------------------------------------------------------------------
(* What identifies each type on the wire (Enum.h).                         *)

ViconCGStreamEnum == [
    Objects |-> 438173697, ObjectEnums |-> 100001, RequestFrame |-> 100002,
    KeepAlive |-> 100003, Contents |-> 100004, StartMulticastSender |-> 100005,
    StopMulticastSender |-> 100006, Filter |-> 100007, RequestNextFrame |-> 100008,
    StreamInfo |-> 1, SubjectInfo |-> 2, SubjectHealth |-> 29, DeviceInfo |-> 3, ChannelInfo |-> 4,
    FrameInfo |-> 5, LabeledRecons |-> 6, UnlabeledRecons |-> 7, LocalSegments |-> 8,
    GlobalSegments |-> 9, LightweightSegments |-> 901, ForceFrame |-> 10, MomentFrame |-> 11,
    CentreOfPressureFrame |-> 12, VoltageFrame |-> 13, CameraInfo |-> 14, CameraSensorInfo |-> 1401,
    CameraTimingInfo |-> 65001, CentroidTracks |-> 15, Centroids |-> 16, GreyscaleBlobs |-> 17,
    GreyscaleSubsampledBlobs |-> 1701, EdgePairs |-> 18, CameraCalibrationInfo |-> 19,
    ForcePlateInfo |-> 20, VideoFrame |-> 22, Timecode |-> 23, UnlabeledReconRayAssignments |-> 24,
    LabeledReconRayAssignments |-> 25, LatencyInfo |-> 26, CameraCalibrationHealth |-> 27,
    SubjectTopology |-> 28, SubjectScale |-> 28001, CameraWand2d |-> 30, CameraWand3d |-> 31,
    EyeTrackerFrame |-> 32, EyeTrackerInfo |-> 33, ChannelInfoExtra |-> 34, ApexHaptics |-> 35,
    HardwareFrameInfo |-> 36, ApplicationInfo |-> 37, DeviceInfoExtra |-> 38, FrameRateInfo |-> 39,
    ObjectQuality |-> 40, CentroidWeights |-> 41, Ping |-> 42, DynamicCameraCalibrationInfo |-> 43]

---------------------------------------------------------------------------
(* The classes that are members of records (the headers named ...Detail.h). *)

VCameraCalibrationHealth_Camera == Class(<< <<"DeviceID", UInt32>>, <<"ReconUsage", Double>>,
    <<"AverageReprojectionError", Double>>, <<"NReconsInFrustrum", Double>>,
    <<"NReprojections", Double>>, <<"UnusedCentroids", Double>> >>)

VCameraWand2d_Point == Class(<< <<"Position", Array(Double, 2)>> >>)

VCameraWand3d_Point == Class(<< <<"Position", Array(Double, 3)>> >>)

VCentroidTracks_CentroidTrack == Class(<< <<"CentroidIndex", UInt32>>, <<"TrackId", UInt64>>,
    <<"TrackLength", UInt32>>, <<"TrackQuality", Float>> >>)

VCentroids_Centroid == Class(<< <<"Position", Array(Double, 2)>>, <<"Radius", Double>>,
    <<"Accuracy", Double>> >>)

VEdgePairs_EdgePair == Class(<< <<"Position", Array(Int16, 2)>>, <<"Length", UInt16>> >>)

VGlobalSegments_Segment == Class(<< <<"SegmentID", UInt32>>, <<"Translation", Array(Double, 3)>>,
    <<"Rotation", Array(Double, 9)>> >>)

VGreyscaleBlobs_GreyscaleLine == Class(<< <<"Greyscale", Many(UInt8)>>,
    <<"Position", Array(Int16, 2)>> >>)

VGreyscaleBlobs_GreyscaleBlob ==
    Class(<< <<"GreyscaleLines", Many(VGreyscaleBlobs_GreyscaleLine)>> >>)

VLabeledRecons_LabeledRecon == Class(<< <<"SubjectID", UInt32>>, <<"MarkerID", UInt32>>,
    <<"Radius", Double>>, <<"Position", Array(Double, 3)>>, <<"Covariance", Array(Double, 9)>>,
    <<"TrajectoryId", UInt32>> >>)

VLatencyInfo_Sample == Class(<< <<"Name", Str>>, <<"Latency", Double>> >>)

VLightweightSegments_Segment == Class(<< <<"SegmentID", UInt32>>, <<"Translation", Array(Float, 3)>>,
    <<"Rotation", Array(Float, 3)>> >>)

VLocalSegments_Segment == Class(<< <<"SegmentID", UInt32>>, <<"Translation", Array(Double, 3)>>,
    <<"Rotation", Array(Double, 9)>> >>)

VReconRay == Class(<< <<"FrameID", UInt32>>, <<"CameraID", UInt32>>, <<"CentroidIndex", UInt32>> >>)

VReconRayAssignments == Class(<< <<"SubjectID", UInt32>>, <<"MarkerID", UInt32>>,
    <<"ReconRays", Many(VReconRay)>> >>)

VSubjectInfo_Segment == Class(<< <<"ParentID", UInt32>>, <<"SegmentID", UInt32>>,
    <<"Bounds", Array(Float, 6)>>, <<"Name", Str>> >>)

VSubjectInfo_Marker == Class(<< <<"MarkerID", UInt32>>, <<"Name", Str>> >>)

VSubjectInfo_Attachment == Class(<< <<"MarkerID", UInt32>>, <<"SegmentID", UInt32>> >>)

VSubjectScale_Segment == Class(<< <<"SegmentID", UInt32>>, <<"Scale", Array(Double, 3)>> >>)

VSubjectTopology_Segment == Class(<< <<"SegmentID", UInt32>>, <<"Translation", Array(Double, 3)>>,
    <<"Rotation", Array(Double, 9)>> >>)

VUnlabeledRecons_UnlabeledRecon == Class(<< <<"Radius", Double>>, <<"Position", Array(Double, 3)>>,
    <<"Covariance", Array(Double, 9)>>, <<"TrajectoryId", UInt32>> >>)

---------------------------------------------------------------------------
(* The records.                                                            *)

VApexHaptics == Item("ApexHaptics", FILTER_NA, << <<"OnDevicesList", Many(UInt32)>> >>)

VApplicationInfo == Item("ApplicationInfo", FILTER_NA, << <<"AxisOrientation", Char>> >>)

VCameraCalibrationHealth == Item("CameraCalibrationHealth", FILTER_NA, << <<"SystemHealth", Double>>,
    <<"Cameras", Many(VCameraCalibrationHealth_Camera)>> >>)

VCameraCalibrationInfo == Item("CameraCalibrationInfo", "CameraID", << <<"CameraID", UInt32>>,
    <<"PoseTranslation", Array(Double, 3)>>, <<"PoseRotation", Array(Double, 9)>>,
    <<"PrincipalPoint", Array(Double, 2)>>, <<"RadialDistortion", Array(Double, 3)>>,
    <<"FocalLength", Double>>, <<"Skew", Double>>, <<"ImageError", Double>> >>)

VDynamicCameraCalibrationInfo ==
    [VCameraCalibrationInfo EXCEPT !.type = "DynamicCameraCalibrationInfo"]

VCameraInfo == Item("CameraInfo", "CameraID", << <<"CameraID", UInt32>>, <<"FramePeriod", UInt64>>,
    <<"Type", Str>>, <<"DisplayType", Str>>, <<"Name", Str>>, <<"ResolutionX", UInt32>>,
    <<"ResolutionY", UInt32>>, <<"AspectRatio", Double>>, <<"CircularityThreshold", Double>>,
    <<"bCentroidTracking", Bool>>, <<"bIsVideoCamera", Bool>>, <<"UserID", UInt32>>,
    <<"MarkerVelocity", Double>> >>)

VCameraSensorInfo == Item("CameraSensorInfo", "CameraID", << <<"CameraID", UInt32>>,
    <<"SensorMode", Str>>, <<"WindowOffsetX", UInt32>>, <<"WindowOffsetY", UInt32>>,
    <<"WindowWidth", UInt32>>, <<"WindowHeight", UInt32>>, <<"Future1", UInt32>>,
    <<"Future2", UInt32>>, <<"Future3", UInt32>>, <<"Future4", UInt32>> >>)

VCameraTimingInfo == Item("CameraTimingInfo", "CameraID", << <<"CameraID", UInt32>>,
    <<"FramePeriod", UInt64>>, <<"FrameOffset", Int64>> >>)

VCameraWand2d == Item("CameraWand2d", "CameraID", << <<"CameraID", UInt32>>,
    <<"WaveSession", UInt32>>, <<"WandPoints", Many(VCameraWand2d_Point)>>,
    <<"CamerasWithWand", UInt32>>, <<"bMoving", Bool>> >>)

VCameraWand3d == Item("CameraWand3d", "WaveSession", << <<"WaveSession", UInt32>>,
    <<"WandPoints", Many(VCameraWand3d_Point)>>, <<"CamerasWithWand", UInt32>>, <<"bMoving", Bool>> >>)

VCentreOfPressureFrame == Item("CentreOfPressureFrame", "DeviceID", << <<"FrameID", UInt32>>,
    <<"DeviceID", UInt32>>, <<"ChannelID", UInt32>>, <<"Samples", Many(Float)>> >>)

VCentroidTracks == Item("CentroidTracks", "CameraID", << <<"FrameID", UInt32>>,
    <<"CameraID", UInt32>>, <<"CentroidTracks", Many(VCentroidTracks_CentroidTrack)>> >>)

VCentroidWeights == Item("CentroidWeights", "CameraID", << <<"FrameID", UInt32>>,
    <<"CameraID", UInt32>>, <<"Weights", Many(Float)>> >>)

VCentroids == Item("Centroids", "CameraID", << <<"FrameID", UInt32>>, <<"CameraID", UInt32>>,
    <<"Centroids", Many(VCentroids_Centroid)>> >>)

VChannelInfo == Item("ChannelInfo", "DeviceID", << <<"DeviceID", UInt32>>, <<"ChannelID", UInt32>>,
    <<"Name", Str>>, <<"ComponentNames", Many(Str)>> >>)

VChannelInfoExtra == Item("ChannelInfoExtra", "DeviceID", << <<"DeviceID", UInt32>>,
    <<"ChannelID", UInt32>>, <<"Unit", Str>>, <<"Type", Str>> >>)

VContents == Item("Contents", FILTER_NA, << <<"EnumsTable", Many(Pair(UInt32, UInt32))>>,
    <<"EnumsUnchanged", Many(UInt32)>> >>)

VDeviceInfo == Item("DeviceInfo", "DeviceID", << <<"DeviceID", UInt32>>, <<"FramePeriod", UInt64>>,
    <<"Name", Str>> >>)

VDeviceInfoExtra == Item("DeviceInfoExtra", "DeviceID", << <<"DeviceID", UInt32>>,
    <<"FrameStartTick", UInt64>> >>)

VEdgePairs == Item("EdgePairs", "CameraID", << <<"FrameID", UInt32>>, <<"CameraID", UInt32>>,
    <<"EdgePairs", Many(VEdgePairs_EdgePair)>> >>)

VEyeTrackerFrame == Item("EyeTrackerFrame", "DeviceID", << <<"FrameID", UInt32>>,
    <<"DeviceID", UInt32>>, <<"GazeVector", Array(Float, 3)>> >>)

VEyeTrackerInfo == Item("EyeTrackerInfo", "DeviceID", << <<"DeviceID", UInt32>>,
    <<"SubjectID", UInt32>>, <<"SegmentID", UInt32>>, <<"LocalTranslation", Array(Float, 3)>>,
    <<"LocalRotation", Array(Float, 9)>> >>)

VFilter == Item("Filter", FILTER_NA, << <<"FilterMap", Many(Pair(UInt32, Many(UInt32)))>> >>)

VForceFrame == Item("ForceFrame", "DeviceID", << <<"FrameID", UInt32>>, <<"DeviceID", UInt32>>,
    <<"ChannelID", UInt32>>, <<"Samples", Many(Float)>> >>)

VForcePlateInfo == Item("ForcePlateInfo", "DeviceID", << <<"DeviceID", UInt32>>,
    <<"WorldTranslation", Array(Float, 3)>>, <<"WorldRotation", Array(Float, 9)>>,
    <<"Bounds", Array(Float, 6)>>, <<"LocalTranslation", Array(Float, 3)>>,
    <<"LocalRotation", Array(Float, 9)>> >>)

VFrameInfo == Item("FrameInfo", FILTER_NA, << <<"FrameID", UInt32>> >>)

VFrameRateInfo == Item("FrameRateInfo", FILTER_NA, << <<"FrameRates", Many(Pair(Str, Double))>> >>)

VGlobalSegments == Item("GlobalSegments", "SubjectID", << <<"SubjectID", UInt32>>,
    <<"Segments", Many(VGlobalSegments_Segment)>> >>)

VGreyscaleBlobs == Item("GreyscaleBlobs", "CameraID", << <<"FrameID", UInt32>>,
    <<"CameraID", UInt32>>, <<"GreyscaleBlobs", Many(VGreyscaleBlobs_GreyscaleBlob)>> >>)

VGreyscaleSubsampledBlobs == Item("GreyscaleSubsampledBlobs", "CameraID", << <<"FrameID", UInt32>>,
    <<"CameraID", UInt32>>, <<"TwiceOffsetX", UInt16>>, <<"TwiceOffsetY", UInt16>>,
    <<"SensorPixelsPerImagePixelX", UInt8>>, <<"SensorPixelsPerImagePixelY", UInt8>>,
    <<"GreyscaleBlobs", Many(VGreyscaleBlobs_GreyscaleBlob)>> >>)

VHardwareFrameInfo == Item("HardwareFrameInfo", FILTER_NA, << <<"HardwareFrame", UInt32>> >>)

VKeepAlive == Item("KeepAlive", FILTER_NA, <<>>)

VLabeledReconRayAssignments == Item("LabeledReconRayAssignments", FILTER_NA, <<
    <<"ReconRayAssignments", Many(VReconRayAssignments)>> >>)

VLabeledRecons == Item("LabeledRecons", FILTER_NA, <<
    <<"LabeledRecons", Many(VLabeledRecons_LabeledRecon)>> >>)

VLatencyInfo == Item("LatencyInfo", FILTER_NA, << <<"Samples", Many(VLatencyInfo_Sample)>> >>)

VLightweightSegments == Item("LightweightSegments", "SubjectID", << <<"SubjectID", UInt32>>,
    <<"Segments", Many(VLightweightSegments_Segment)>> >>)

VLocalSegments == Item("LocalSegments", "SubjectID", << <<"SubjectID", UInt32>>,
    <<"Segments", Many(VLocalSegments_Segment)>> >>)

VMomentFrame == Item("MomentFrame", "DeviceID", << <<"FrameID", UInt32>>, <<"DeviceID", UInt32>>,
    <<"ChannelID", UInt32>>, <<"Samples", Many(Float)>> >>)

VObjectEnums == Item("ObjectEnums", FILTER_NA, << <<"Enums", Many(UInt32)>> >>)

VObjectQuality == Item("ObjectQuality", "SubjectID", << <<"SubjectID", UInt32>>,
    <<"ObjectQuality", Double>> >>)

VPing == Item("Ping", FILTER_NA, << <<"PingID", UInt64>> >>)

VRequestFrame == Item("RequestFrame", FILTER_NA, << <<"bStreaming", Bool>> >>)

VRequestNextFrame == Item("RequestNextFrame", FILTER_NA, << <<"bNumber", UInt32>> >>)

VStartMulticastSender == Item("StartMulticastSender", FILTER_NA, << <<"MulticastIpAddress", UInt32>>,
    <<"SourceIpAddress", UInt32>>, <<"Port", UInt16>> >>)

VStopMulticastSender == Item("StopMulticastSender", FILTER_NA, <<>>)

VStreamInfo == Item("StreamInfo", FILTER_NA, << <<"FramePeriod", Int64>> >>)

VSubjectHealth == Item("SubjectHealth", "SubjectID", << <<"SubjectID", UInt32>>,
    <<"MarkerError", Double>>, <<"SubjectHealth", Double>> >>)

VSubjectInfo == Item("SubjectInfo", "SubjectID", << <<"SubjectID", UInt32>>, <<"Name", Str>>,
    <<"Segments", Many(VSubjectInfo_Segment)>>, <<"Markers", Many(VSubjectInfo_Marker)>>,
    <<"Attachments", Many(VSubjectInfo_Attachment)>> >>)

VSubjectScale == Item("SubjectScale", "SubjectID", << <<"SubjectID", UInt32>>,
    <<"Segments", Many(VSubjectScale_Segment)>> >>)

VSubjectTopology == Item("SubjectTopology", "SubjectID", << <<"SubjectID", UInt32>>,
    <<"Segments", Many(VSubjectTopology_Segment)>> >>)

VTimecodeMembers ==
    << <<"Hours", UInt8>>, <<"Minutes", UInt8>>, <<"Seconds", UInt8>>, <<"Frames", UInt8>>,
       <<"Subframes", UInt16>>, <<"SubframesPerFrame", UInt16>>, <<"Standard", UInt32>>,
       <<"UserBits", UInt32>>, <<"FieldFlag", UInt8>> >>

\* Mutant: read in the order of declaration.
VTimecodeAsDeclared ==
    [Item("Timecode", FILTER_NA, VTimecodeMembers) EXCEPT !.reads =
        SelectSeq(@, LAMBDA m : m[1] # "Standard") \o << <<"Standard", UInt32>> >>]

VTimecode == Item("Timecode", FILTER_NA, VTimecodeMembers)

VUnlabeledReconRayAssignments == Item("UnlabeledReconRayAssignments", FILTER_NA, <<
    <<"ReconRayAssignments", Many(VReconRayAssignments)>> >>)

VUnlabeledRecons == Item("UnlabeledRecons", FILTER_NA, <<
    <<"UnlabeledRecons", Many(VUnlabeledRecons_UnlabeledRecon)>> >>)

VVideoFrame == Item("VideoFrame", "CameraID", << <<"FrameID", UInt32>>, <<"CameraID", UInt32>>,
    <<"Position", Array(Int16, 2)>>, <<"Width", UInt16>>, <<"Height", UInt16>>,
    <<"Format", UInt32>>, <<"VideoData", Many(UInt8)>> >>)

VVoltageFrame == Item("VoltageFrame", "DeviceID", << <<"FrameID", UInt32>>, <<"DeviceID", UInt32>>,
    <<"ChannelID", UInt32>>, <<"Samples", Many(Float)>> >>)

Items == {
    VApexHaptics, VApplicationInfo, VCameraCalibrationHealth, VCameraCalibrationInfo,
    VDynamicCameraCalibrationInfo, VCameraInfo, VCameraSensorInfo, VCameraTimingInfo, VCameraWand2d,
    VCameraWand3d, VCentreOfPressureFrame, VCentroidTracks, VCentroidWeights, VCentroids,
    VChannelInfo, VChannelInfoExtra, VContents, VDeviceInfo, VDeviceInfoExtra, VEdgePairs,
    VEyeTrackerFrame, VEyeTrackerInfo, VFilter, VForceFrame, VForcePlateInfo, VFrameInfo,
    VFrameRateInfo, VGlobalSegments, VGreyscaleBlobs, VGreyscaleSubsampledBlobs, VHardwareFrameInfo,
    VKeepAlive, VLabeledReconRayAssignments, VLabeledRecons, VLatencyInfo, VLightweightSegments,
    VLocalSegments, VMomentFrame, VObjectEnums, VObjectQuality, VPing, VRequestFrame,
    VRequestNextFrame, VStartMulticastSender, VStopMulticastSender, VStreamInfo, VSubjectHealth,
    VSubjectInfo, VSubjectScale, VSubjectTopology, VTimecode, VUnlabeledReconRayAssignments,
    VUnlabeledRecons, VVideoFrame, VVoltageFrame}

=============================================================================
