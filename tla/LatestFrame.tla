---------------------------- MODULE LatestFrame ----------------------------
(***************************************************************************)
(* What the getters of VClient stand on: the frame that GetFrame handed    *)
(* out last, the check each getter begins with, the search for a name or   *)
(* an ID, the axes of positions; and the getters of the frame itself.      *)
(*                                                                         *)
(* A getter is an operator of the state. Its value is an answer.           *)
(***************************************************************************)
EXTENDS Rotations, Answers, FiniteSets

VARIABLES
    connected,      \* m_pClient && m_pClient->IsConnected()
    m_LatestFrame,  \* the frame that was handed out last
    m_CachedFrame,  \* the frame that was fetched last
    m_pAxisMapping  \* the axes that were requested

frameVars == <<connected, m_LatestFrame, m_CachedFrame, m_pAxisMapping>>

\* UInt32( -1 ), in m_LatestFrame until the first frame.
BadFrameValue == -1

\* A frame without anything in it. Fields of ICGFrameState that are vectors are sequences.
EmptyFrame == [
    m_FrameID |-> BadFrameValue, m_FramePeriod |-> 0, m_Timecode |-> <<>>, m_Standard |-> -1,
    m_Latency |-> <<>>, m_HardwareFrame |-> 0, m_FrameRates |-> <<>>, m_AxisOrientation |-> "None",
    m_Subjects |-> <<>>, m_SubjectTopologies |-> <<>>, m_SubjectScales |-> <<>>,
    m_ObjectQualities |-> <<>>, m_LabeledRecons |-> <<>>, m_UnlabeledRecons |-> <<>>,
    m_ReconRayAssignments |-> <<>>, m_GlobalSegments |-> <<>>, m_LocalSegments |-> <<>>,
    m_LightweightSegments |-> <<>>, m_Devices |-> <<>>, m_DevicesExtra |-> <<>>,
    m_Channels |-> <<>>, m_ChannelUnits |-> <<>>, m_ForcePlates |-> <<>>, m_Voltages |-> <<>>,
    m_Forces |-> <<>>, m_Moments |-> <<>>, m_CentresOfPressure |-> <<>>, m_EyeTrackers |-> <<>>,
    m_EyeTracks |-> <<>>, m_Cameras |-> <<>>, m_CamerasSensorInfo |-> <<>>,
    m_CameraCalibrations |-> <<>>, m_DynamicCameraCalibrationInfo |-> <<>>, m_Centroids |-> <<>>,
    m_CentroidWeights |-> <<>>, m_GreyscaleBlobs |-> <<>>, m_GreyscaleSubsampledBlobs |-> <<>>,
    m_VideoFrames |-> <<>>]

---------------------------------------------------------------------------
(* The check.                                                              *)

HasData == m_LatestFrame.m_FrameID # BadFrameValue

InitGet == IF ~connected THEN "NotConnected" ELSE IF ~HasData THEN "NoFrame" ELSE "Success"

WithFrame(answer) == IF InitGet = "Success" THEN answer ELSE Refuse(InitGet)

Indices(s) == 0..Len(s) - 1

\* What Then makes of the pose of a segment in m_GlobalSegments or m_LocalSegments; a segment
\* without one is occluded.
WithPoseOf(poses, subjectID, segmentID, Then(_)) ==
    WithFirst(poses, LAMBDA o : o.m_SubjectID = subjectID
                        /\ \E n \in DOMAIN o.m_Segments : o.m_Segments[n].m_SegmentID = segmentID,
              LAMBDA o : WithFirst(o.m_Segments, LAMBDA p : p.m_SegmentID = segmentID, Then,
                                   Occluded),
              Occluded)

---------------------------------------------------------------------------
(* Axes. They are those of the frame that was fetched last, whichever      *)
(* frame the data is from.                                                 *)

ServerAxes == IF m_CachedFrame.m_AxisOrientation = "EYUp" THEN YUpAxes ELSE ZUpAxes

OutT(v) == CopyAndTransformT(m_pAxisMapping, ServerAxes, v)

OutR(R) == CopyAndTransformR(m_pAxisMapping, ServerAxes, R)

GetAxisMapping == m_pAxisMapping

\* Neither the connection nor the frame is looked at.
GetServerOrientation ==
    CASE m_CachedFrame.m_AxisOrientation = "None" -> Refuse("NotSupported")
      [] m_CachedFrame.m_AxisOrientation = "EYUp" -> Answer("YUp")
      [] m_CachedFrame.m_AxisOrientation = "EZUp" -> Answer("ZUp")
      [] OTHER                                    -> Answer("Unknown")

---------------------------------------------------------------------------
(* The frame itself.                                                       *)

GetFrameNumber == WithFrame(Answer(m_LatestFrame.m_FrameID + 1))

GetHardwareFrameNumber == WithFrame(Answer(m_LatestFrame.m_HardwareFrame))

TicksPerSecond == 135000000

\* In hertz, as a fraction; 0 if the server sent no period.
GetFrameRate ==
    WithFrame(Answer(IF m_LatestFrame.m_FramePeriod = 0 THEN <<0, 1>>
                     ELSE <<TicksPerSecond, m_LatestFrame.m_FramePeriod>>))

TimecodeStandards == <<"PAL", "NTSC", "NTSCDrop", "Film", "NTSCFilm", "ATSC">>

GetTimecode ==
    WithFrame(Answer(<<m_LatestFrame.m_Timecode,
                       IF m_LatestFrame.m_Standard + 1 \in DOMAIN TimecodeStandards
                       THEN TimecodeStandards[m_LatestFrame.m_Standard + 1] ELSE "None">>))

GetLatencyTotal ==
    WithFrame(Answer(FoldLeft(LAMBDA sum, sample : sum + sample.m_Latency, 0,
                              m_LatestFrame.m_Latency)))

GetLatencySampleCount == WithFrame(Answer(Len(m_LatestFrame.m_Latency)))

GetLatencySampleName(i) ==
    WithFrame(WithIndex(m_LatestFrame.m_Latency, i, LAMBDA sample : Answer(sample.m_Name)))

GetLatencySampleValue(name) ==
    WithFrame(WithFirst(m_LatestFrame.m_Latency, LAMBDA sample : sample.m_Name = name,
                        LAMBDA sample : Answer(sample.m_Latency),
                        Refuse("InvalidLatencySampleName")))

\* m_FrameRates is a map; here it is the sequence of its pairs.
GetFrameRateCount == WithFrame(Answer(Len(m_LatestFrame.m_FrameRates)))

GetFrameRateName(i) ==
    WithFrame(WithIndex(m_LatestFrame.m_FrameRates, i, LAMBDA rate : Answer(rate.first)))

GetFrameRateValue(name) ==
    WithFrame(WithFirst(m_LatestFrame.m_FrameRates, LAMBDA rate : rate.first = name,
                        LAMBDA rate : Answer(rate.second), Refuse("InvalidFrameRateName")))
=============================================================================
