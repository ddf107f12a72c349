---------------------------- MODULE RequestTypes ----------------------------
(***************************************************************************)
(* Which types of data a VClient asks its servers for                      *)
(* (ViconDataStreamSDKCore/CoreClient.cpp, the Set...DataEnabled calls,    *)
(* and VCGClient::SetRequestTypes).  The application turns groups of types *)
(* on and off; the groups share types, a server may not support them all,  *)
(* and the flags of the VClient outlive a connection while the requests of *)
(* the VCGClient do not.                                                   *)
(*                                                                         *)
(* Each call holds m_FrameMutex from end to end and is one step.  How a    *)
(* change reaches the thread of a route is the subject of CGStreamClient.  *)
(***************************************************************************)

CONSTANTS
  Groups,   \* the groups the application turns on and off
  Servers   \* the lists of types a server may send of what it supports

\* What each group asks for.
TypesOf ==
  [Segment            |-> {"LocalSegments", "GlobalSegments", "SubjectTopology", "SubjectScale"},
   LightweightSegment |-> {"LightweightSegments", "SubjectTopology", "SubjectScale"},
   Marker             |-> {"LabeledRecons"},
   UnlabeledMarker    |-> {"UnlabeledRecons"},
   MarkerRay          |-> {"LabeledReconRayAssignments"},
   Device             |-> {"DeviceInfo", "DeviceInfoExtra", "ChannelInfo", "ChannelInfoExtra",
                           "ForcePlateInfo", "EyeTrackerInfo", "ForceFrame", "MomentFrame",
                           "CentreOfPressureFrame", "VoltageFrame", "EyeTrackerFrame"},
   Centroid           |-> {"CameraInfo", "CameraSensorInfo", "Centroids", "CentroidWeights"},
   Greyscale          |-> {"CameraInfo", "CameraSensorInfo", "GreyscaleBlobs",
                           "GreyscaleSubsampledBlobs"},
   Debug              |-> {"HardwareFrameInfo"},
   CameraWand2d       |-> {"CameraInfo", "CameraSensorInfo", "CameraWand2d"},
   CameraCalibration  |-> {"CameraInfo", "CameraCalibrationInfo", "DynamicCameraCalibrationInfo"},
   Video              |-> {"CameraInfo", "CameraSensorInfo", "VideoFrame"}]

AllGroups == DOMAIN TypesOf

\* What Connect asks for, whatever the application turns on.
Defaults == {"Contents", "StreamInfo", "SubjectInfo", "FrameInfo", "Timecode", "LatencyInfo",
             "ApplicationInfo", "SubjectHealth", "ObjectQuality", "FrameRateInfo"}

Configurable == UNION {TypesOf[g] : g \in AllGroups}

\* A server may know types that a VClient never asks for.
AllTypes == Defaults \cup Configurable \cup UNION Servers

\* SetLightweightSegmentDataEnabled turns these off.
DisabledByLightweight == AllGroups \ {"LightweightSegment", "CameraCalibration"}

ASSUME RequestAssumption == Groups \subseteq AllGroups

VARIABLES
  connected,           \* IsConnected
  supported,           \* the types no route has been told it will not get (ObjectIsSupported)
  m_RequestedObjects,  \* of the VCGClient
  enabled,             \* the groups whose m_b...DataEnabled is set
  m_bSubjectScaleEnabled

vars == <<connected, supported, m_RequestedObjects, enabled, m_bSubjectScaleEnabled>>

Init ==
  /\ connected = FALSE
  /\ supported = AllTypes
  /\ m_RequestedObjects = {}
  /\ enabled = {}
  /\ m_bSubjectScaleEnabled = FALSE

-----------------------------------------------------------------------------
(* The connection. *)

\* A new VCGClient takes the place of the old one and asks for the defaults; the
\* flags are not looked at.
Connect ==
  /\ ~connected
  /\ connected' = TRUE
  /\ supported' = AllTypes
  /\ m_RequestedObjects' = Defaults
  /\ UNCHANGED <<enabled, m_bSubjectScaleEnabled>>

Disconnect ==
  /\ connected
  /\ connected' = FALSE
  /\ UNCHANGED <<supported, m_RequestedObjects, enabled, m_bSubjectScaleEnabled>>

\* The server of a route says what it supports. An empty list is taken for one that has not
\* come yet.
ReadObjectEnums ==
  /\ connected
  /\ \E S \in Servers : supported' = IF S = {} THEN supported ELSE supported \cap S
  /\ UNCHANGED <<connected, m_RequestedObjects, enabled, m_bSubjectScaleEnabled>>

-----------------------------------------------------------------------------
(* Turning data on and off. *)

\* SetRequestTypes for each of types: a type that some route does not support is not
\* asked for, and every type can be turned off.
SetRequestTypes(objects, types, i_bEnable) ==
  IF i_bEnable THEN objects \cup (types \cap supported) ELSE objects \ types

\* The flag is set whether the types are supported or not.
SetFlag(group, i_bEnabled) ==
  IF i_bEnabled THEN enabled \cup {group} ELSE enabled \ {group}

\* Mutant: the lightweight segments stay on.
SetSegmentDataEnabledToo(i_bEnabled) ==
  /\ connected
  /\ m_RequestedObjects' = SetRequestTypes(m_RequestedObjects, TypesOf.Segment, i_bEnabled)
  /\ m_bSubjectScaleEnabled' = (i_bEnabled => "SubjectScale" \in supported)
  /\ enabled' = SetFlag("Segment", i_bEnabled)
  /\ UNCHANGED <<connected, supported>>

\* Turning segments on turns lightweight segments off, but not their flag.
\* m_bSubjectScaleEnabled is what SetRequestTypes returned, TRUE for turning off.
SetSegmentDataEnabled(i_bEnabled) ==
  /\ connected
  /\ m_RequestedObjects' =
       SetRequestTypes(m_RequestedObjects, TypesOf.Segment, i_bEnabled)
         \ (IF i_bEnabled THEN {"LightweightSegments"} ELSE {})
  /\ m_bSubjectScaleEnabled' = (i_bEnabled => "SubjectScale" \in supported)
  /\ enabled' = SetFlag("Segment", i_bEnabled)
  /\ UNCHANGED <<connected, supported>>

\* Mutant: the segments are left as they are.
EnableLightweightWithSegments ==
  /\ connected
  /\ "LightweightSegments" \in supported
  /\ LET others == DisabledByLightweight \ {"Segment"}
     IN  /\ m_RequestedObjects' =
              SetRequestTypes(m_RequestedObjects \ UNION {TypesOf[g] : g \in others},
                              TypesOf.LightweightSegment, TRUE)
         /\ enabled' = (enabled \ others) \cup {"LightweightSegment"}
  /\ UNCHANGED <<connected, supported, m_bSubjectScaleEnabled>>

\* Mutant: video was added later and is forgotten.
EnableLightweightWithVideo ==
  /\ connected
  /\ "LightweightSegments" \in supported
  /\ LET others == DisabledByLightweight \ {"Video"}
     IN  /\ m_RequestedObjects' =
              SetRequestTypes(m_RequestedObjects \ UNION {TypesOf[g] : g \in others},
                              TypesOf.LightweightSegment, TRUE)
         /\ enabled' = (enabled \ others) \cup {"LightweightSegment"}
  /\ m_bSubjectScaleEnabled' = TRUE
  /\ UNCHANGED <<connected, supported>>

\* SetLightweightSegmentDataEnabled( true ), refused where it is not supported, turns
\* all but camera calibration off by the calls for each group.
EnableLightweightSegmentData ==
  /\ connected
  /\ "LightweightSegments" \in supported
  /\ m_RequestedObjects' =
       SetRequestTypes(m_RequestedObjects \ UNION {TypesOf[g] : g \in DisabledByLightweight},
                       TypesOf.LightweightSegment, TRUE)
  /\ enabled' = (enabled \ DisabledByLightweight) \cup {"LightweightSegment"}
  /\ m_bSubjectScaleEnabled' = TRUE
  /\ UNCHANGED <<connected, supported>>

\* SetLightweightSegmentDataEnabled( false ).
DisableLightweightSegmentData ==
  /\ connected
  /\ m_RequestedObjects' =
       SetRequestTypes(m_RequestedObjects, TypesOf.LightweightSegment, FALSE)
  /\ enabled' = SetFlag("LightweightSegment", FALSE)
  /\ UNCHANGED <<connected, supported, m_bSubjectScaleEnabled>>

\* Mutant: turning off forgets a type.
SetDataEnabledButInfo(group, i_bEnabled) ==
  /\ connected
  /\ m_RequestedObjects' =
       SetRequestTypes(m_RequestedObjects,
                       IF i_bEnabled THEN TypesOf[group] ELSE TypesOf[group] \ {"CameraInfo"},
                       i_bEnabled)
  /\ enabled' = SetFlag(group, i_bEnabled)
  /\ UNCHANGED <<connected, supported, m_bSubjectScaleEnabled>>

\* Mutant: the flag of another group, as copied from its call.
SetDataEnabledCopied(group, i_bEnabled) ==
  /\ connected
  /\ m_RequestedObjects' = SetRequestTypes(m_RequestedObjects, TypesOf[group], i_bEnabled)
  /\ enabled' = SetFlag(IF group = "Centroid" THEN "Greyscale" ELSE group, i_bEnabled)
  /\ UNCHANGED <<connected, supported, m_bSubjectScaleEnabled>>

\* The calls for the other groups: a type two groups share goes when one is turned off.
SetDataEnabled(group, i_bEnabled) ==
  /\ connected
  /\ m_RequestedObjects' = SetRequestTypes(m_RequestedObjects, TypesOf[group], i_bEnabled)
  /\ enabled' = SetFlag(group, i_bEnabled)
  /\ UNCHANGED <<connected, supported, m_bSubjectScaleEnabled>>

Plain == Groups \ {"Segment", "LightweightSegment"}

Next ==
  \/ Connect
  \/ Disconnect
  \/ ReadObjectEnums
  \/ "Segment" \in Groups /\ \E b \in BOOLEAN : SetSegmentDataEnabled(b)
  \/ "LightweightSegment" \in Groups
       /\ (EnableLightweightSegmentData \/ DisableLightweightSegmentData)
  \/ \E g \in Plain, b \in BOOLEAN : SetDataEnabled(g, b)

Spec == Init /\ [][Next]_vars

-----------------------------------------------------------------------------

\* Whatever a server says it supports, only types of the VClient are requested; and no group
\* is reported as enabled that the application does not turn on.
TypeOK ==
  /\ {connected, m_bSubjectScaleEnabled} \subseteq BOOLEAN
  /\ supported \subseteq AllTypes
  /\ m_RequestedObjects \subseteq Defaults \cup Configurable
  /\ enabled \subseteq Groups

\* Nothing is streamed that was not asked for: every type that is requested beyond
\* the defaults belongs to a group that is reported as enabled, through every
\* order of turning overlapping groups on and off and every reconnection.
NothingUnasked ==
  \A t \in m_RequestedObjects \ Defaults : \E g \in enabled : t \in TypesOf[g]

\* Segments come in one form: full and lightweight segments are never requested
\* together, so that CalculateGlobalsFromLocals never meets both in a frame.
OneFormOfSegments ==
  "LightweightSegments" \in m_RequestedObjects
    => m_RequestedObjects \cap {"LocalSegments", "GlobalSegments"} = {}

\* GetSegmentStaticScale, which answers NotSupported by the flags alone, never does so
\* while the scales are requested from servers that all send them.
ScaleNotRefused ==
  "Segment" \in enabled /\ ~m_bSubjectScaleEnabled
    => "SubjectScale" \notin m_RequestedObjects \cap supported

\* "Calling this method will automatically disable all other configurable output types"
\* (DataStreamClient.h): when lightweight segments begin to be requested no other
\* group is left on but camera calibration, which the code does not turn off.
LightweightAlone ==
  [][ "LightweightSegments" \in m_RequestedObjects' \ m_RequestedObjects
        => enabled' \subseteq {"LightweightSegment", "CameraCalibration"} ]_vars

\* "Return whether ... data is enabled in the Vicon DataStream" (DataStreamClient.h):
\* what is reported as enabled is requested, as far as it is supported.
EnabledIsRequested ==
  connected => \A g \in enabled : TypesOf[g] \cap supported \subseteq m_RequestedObjects
=============================================================================
