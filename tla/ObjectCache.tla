----------------------------- MODULE ObjectCache -----------------------------
(***************************************************************************)
(* The objects a route holds (ViconCGStreamClient.cpp, ReadObjects and     *)
(* CopyObjects).  A server sends the objects of a type only when they      *)
(* changed; the Contents object of a packet names the types that did not,  *)
(* and the client takes those over from the objects it holds.  Static and  *)
(* dynamic objects are held apart, and a packet replaces the one or the    *)
(* other only if it brings an object of that sort.                         *)
(*                                                                         *)
(* All objects of one type are one value here.  A packet is read by one    *)
(* thread and shows only when it has been read to its end, so reading it   *)
(* is one step.  The decoding of video and the pings are left out.         *)
(***************************************************************************)
EXTENDS Naturals, Sequences

CONSTANTS
  Types,    \* the types of objects the server knows
  Values,   \* what the objects of a type may be
  Nothing,  \* ... when there are none of that type,
  NotAsked, \* ... and when the client did not ask for the type
  Null,     \* the empty pointer
  MaxNet    \* bound on the packets under way

\* The types ReadObjects knows, by the sort of objects they belong to.
StaticTypes ==
  {"StreamInfo", "ApplicationInfo", "SubjectInfo", "SubjectTopology", "SubjectScale",
   "SubjectHealth", "ObjectQuality", "CameraInfo", "CameraSensorInfo", "CameraCalibrationInfo",
   "CameraCalibrationHealth", "DeviceInfo", "DeviceInfoExtra", "ChannelInfo",
   "ChannelInfoExtra", "ForcePlateInfo", "EyeTrackerInfo"}

DynamicPoints ==
  {"FrameInfo", "HardwareFrameInfo", "Timecode", "LatencyInfo", "Centroids", "CentroidTracks",
   "CentroidWeights", "VideoFrame", "LabeledRecons", "UnlabeledRecons",
   "LabeledReconRayAssignments", "GlobalSegments", "LocalSegments", "LightweightSegments"}

DynamicDevices ==
  {"GreyscaleBlobs", "GreyscaleSubsampledBlobs", "EdgePairs", "ForceFrame", "MomentFrame",
   "CentreOfPressureFrame", "VoltageFrame", "CameraWand2d", "CameraWand3d", "EyeTrackerFrame",
   "FrameRateInfo", "DynamicCameraCalibrationInfo"}

DynamicTypes == DynamicPoints \cup DynamicDevices

\* Mutant: a type that was added later has no case.
CopiedStaticIncomplete == StaticTypes \ {"DeviceInfo"}

\* The types CopyObjects takes over: every static type ...
CopiedStatic == StaticTypes

\* ... and these dynamic ones.
CopiedDynamic ==
  {"FrameInfo", "HardwareFrameInfo", "Timecode", "LatencyInfo", "Centroids", "CentroidWeights",
   "LabeledRecons", "UnlabeledRecons", "LabeledReconRayAssignments", "GlobalSegments",
   "LocalSegments", "LightweightSegments", "GreyscaleBlobs", "GreyscaleSubsampledBlobs",
   "EdgePairs", "CameraWand2d", "CameraWand3d", "DynamicCameraCalibrationInfo", "VideoFrame",
   "EyeTrackerFrame", "FrameRateInfo"}

Content == Values \cup {Nothing}
Table == [Types -> Content \cup {NotAsked}]
StaticObjects == [Types \cap StaticTypes -> Content]
DynamicObjects == [Types \cap DynamicTypes -> Content]

\* A packet: what the server has of each type asked for, and the types
\* the Contents object calls unchanged, whose objects are not in the packet.
Packet == [now : Table, unchanged : SUBSET Types]

ASSUME CacheAssumption ==
  /\ Types \subseteq StaticTypes \cup DynamicTypes
  /\ "FrameInfo" \in Types
  /\ Nothing \notin Values /\ NotAsked \notin Content
  /\ Null \notin StaticObjects \cup DynamicObjects
  /\ MaxNet \in Nat

VARIABLES
  last,             \* what the server had of each type when it sent its last packet
  net,              \* the packets under way
  running,          \* ClientThread reads
  m_pStaticObjects,
  m_pDynamicObjects,
  shown             \* what the server had when it sent the packet read last

vars == <<last, net, running, m_pStaticObjects, m_pDynamicObjects, shown>>

NoTable == [t \in Types |-> NotAsked]

Init ==
  /\ last = NoTable
  /\ net = <<>>
  /\ running = FALSE
  /\ m_pStaticObjects = Null
  /\ m_pDynamicObjects = Null
  /\ shown = NoTable

-----------------------------------------------------------------------------
(* The server, as Contents.h describes its packets. *)

\* Between two packets any objects may change, come or go, and the client may ask for
\* other types; each packet has a frame number of its own.  Of the types that are as they
\* were in the packet before, the server may leave out any.
Send(now, left) ==
  /\ running
  /\ Len(net) < MaxNet
  /\ now["FrameInfo"] \in Values \ {last["FrameInfo"]}
  /\ \A t \in left : now[t] = last[t] /\ now[t] # NotAsked
  /\ net' = Append(net, [now |-> now, unchanged |-> left])
  /\ last' = now
  /\ UNCHANGED <<running, m_pStaticObjects, m_pDynamicObjects, shown>>

-----------------------------------------------------------------------------
(* The client. *)

\* ClientThread starts on a new connection with no objects.
Connect ==
  /\ ~running
  /\ running' = TRUE
  /\ net' = <<>>
  /\ last' = NoTable
  /\ m_pStaticObjects' = Null
  /\ m_pDynamicObjects' = Null
  /\ shown' = NoTable

\* The objects that are in a packet.
Present(p) == {t \in Types \ p.unchanged : p.now[t] \in Values}

\* The objects of one sort as the packet alone has them: a list no object was added to is
\* empty.
Read(S, p) == [t \in Types \cap S |-> IF t \in Present(p) THEN p.now[t] ELSE Nothing]
ReadStatic(p) == Read(StaticTypes, p)
ReadDynamic(p) == Read(DynamicTypes, p)

\* Mutant: whatever the packet does not bring is taken over.
CopyObjectsAlways(copied, p, old, new) ==
  [t \in DOMAIN new |-> IF t \in copied \ Present(p) THEN old[t] ELSE new[t]]

\* A type the packet calls unchanged is taken over from the objects held before.
CopyObjects(copied, p, old, new) ==
  [t \in DOMAIN new |-> IF t \in p.unchanged \cap copied THEN old[t] ELSE new[t]]

\* What is held after a packet: nothing new unless it brings an object of the sort.
Hold(S, copied, p, old, new) ==
  IF Present(p) \cap S = {} THEN old
  ELSE IF old = Null THEN new ELSE CopyObjects(copied, p, old, new)

ReadObjects ==
  LET p == Head(net)
  IN  /\ running
      /\ net # <<>>
      /\ m_pStaticObjects' =
           Hold(StaticTypes, CopiedStatic, p, m_pStaticObjects, ReadStatic(p))
      /\ m_pDynamicObjects' =
           Hold(DynamicTypes, CopiedDynamic, p, m_pDynamicObjects, ReadDynamic(p))
      /\ shown' = p.now
      /\ net' = Tail(net)
      /\ UNCHANGED <<last, running>>

\* The connection breaks, before a packet or in the midst of one: what was read of it is
\* dropped and the thread ends.
ReadObjectsFails ==
  /\ running
  /\ running' = FALSE
  /\ UNCHANGED <<last, net, m_pStaticObjects, m_pDynamicObjects, shown>>

Next ==
  \/ \E now \in Table, left \in SUBSET Types : Send(now, left)
  \/ Connect
  \/ ReadObjects
  \/ ReadObjectsFails

Spec == Init /\ [][Next]_vars

-----------------------------------------------------------------------------
(* Properties. *)

\* Every variable has its type, on which the proofs rest.
TypeOK ==
  /\ last \in Table
  /\ net \in Seq(Packet)
  /\ running \in BOOLEAN
  /\ m_pStaticObjects \in StaticObjects \cup {Null}
  /\ m_pDynamicObjects \in DynamicObjects \cup {Null}
  /\ shown \in Table

\* The objects the client holds of a type.
Held(t) ==
  LET objects == IF t \in StaticTypes THEN m_pStaticObjects ELSE m_pDynamicObjects
  IN  IF objects = Null THEN Nothing ELSE objects[t]

\* The types that ReadObjects reads and CopyObjects forgets.
Forgotten ==
  {"CentroidTracks", "ForceFrame", "MomentFrame", "CentreOfPressureFrame", "VoltageFrame"}

\* Every other type is held as the server had it when it sent the packet read last,
\* however many packets have left it out since it changed, and whatever else came, was
\* turned off or turned on again meanwhile.
UnchangedKept ==
  \A t \in Types \ Forgotten : shown[t] \in Values => Held(t) = shown[t]

\* A frame never shows dynamic objects from before: those the server no longer has, or
\* the client no longer asks for, are gone with the packet that does not have them.
NothingLeftOver ==
  \A t \in Types \cap DynamicTypes : shown[t] \notin Values => Held(t) = Nothing
=============================================================================
