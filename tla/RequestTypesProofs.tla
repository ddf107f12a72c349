------------------------- MODULE RequestTypesProofs -------------------------
(***************************************************************************)
(* What RequestTypes guarantees for any choice of groups and servers.      *)
(* Each invariant is inductive beside TypeOK; what the proofs need of      *)
(* TypesOf is which group holds which type of segments.                    *)
(***************************************************************************)
EXTENDS RequestTypes, TLAPS

-----------------------------------------------------------------------------
(* The groups. *)

\* The groups by name.
LEMMA GroupNames ==
  AllGroups = {"Segment", "LightweightSegment", "Marker", "UnlabeledMarker", "MarkerRay",
               "Device", "Centroid", "Greyscale", "Debug", "CameraWand2d",
               "CameraCalibration", "Video"}
BY DEF AllGroups, TypesOf

\* The types of segments: which groups hold them, and that they are no defaults.
LEMMA SegmentTypes ==
  /\ TypesOf["Segment"] = {"LocalSegments", "GlobalSegments", "SubjectTopology", "SubjectScale"}
  /\ TypesOf["LightweightSegment"] = {"LightweightSegments", "SubjectTopology", "SubjectScale"}
  /\ {"Segment", "LightweightSegment"} \subseteq AllGroups
  /\ \A g \in AllGroups \ {"Segment", "LightweightSegment"} :
       TypesOf[g] \cap {"LocalSegments", "GlobalSegments", "LightweightSegments", "SubjectScale"} = {}
  /\ Defaults \cap {"LocalSegments", "GlobalSegments", "LightweightSegments", "SubjectScale"} = {}
<1>1. \A g \in AllGroups \ {"Segment", "LightweightSegment"} :
        TypesOf[g] \cap {"LocalSegments", "GlobalSegments", "LightweightSegments", "SubjectScale"} = {}
  BY GroupNames DEF TypesOf
<1>2. QED
  BY <1>1, GroupNames DEF TypesOf, Defaults

\* A group asks for configurable types only.
LEMMA GroupIsConfigurable ==
  ASSUME NEW g \in AllGroups
  PROVE  TypesOf[g] \subseteq Configurable
BY DEF Configurable

-----------------------------------------------------------------------------
(* Type correctness. *)

LEMMA TypeStep == TypeOK /\ [Next]_vars => TypeOK'
<1> SUFFICES ASSUME TypeOK, [Next]_vars PROVE TypeOK'
  OBVIOUS
<1> USE DEF TypeOK
<1>1. CASE Connect
  BY <1>1 DEF Connect
<1>2. CASE Disconnect
  BY <1>2 DEF Disconnect
<1>3. CASE ReadObjectEnums
  BY <1>3 DEF ReadObjectEnums
<1>4. ASSUME NEW b \in BOOLEAN, "Segment" \in Groups, SetSegmentDataEnabled(b)
      PROVE  TypeOK'
  <2>1. TypesOf["Segment"] \subseteq Configurable
    BY SegmentTypes, GroupIsConfigurable
  <2>2. QED
    BY <1>4, <2>1 DEF SetSegmentDataEnabled, SetRequestTypes, SetFlag
<1>5. CASE "LightweightSegment" \in Groups /\ EnableLightweightSegmentData
  <2>1. TypesOf["LightweightSegment"] \subseteq Configurable
    BY SegmentTypes, GroupIsConfigurable
  <2>2. QED
    BY <1>5, <2>1 DEF EnableLightweightSegmentData, SetRequestTypes
<1>6. CASE "LightweightSegment" \in Groups /\ DisableLightweightSegmentData
  BY <1>6 DEF DisableLightweightSegmentData, SetRequestTypes, SetFlag
<1>7. ASSUME NEW g \in Plain, NEW b \in BOOLEAN, SetDataEnabled(g, b)
      PROVE  TypeOK'
  <2>1. g \in Groups /\ TypesOf[g] \subseteq Configurable
    BY RequestAssumption, GroupIsConfigurable DEF Plain
  <2>2. QED
    BY <1>7, <2>1 DEF SetDataEnabled, SetRequestTypes, SetFlag
<1>8. CASE UNCHANGED vars
  BY <1>8 DEF vars
<1>9. QED
  BY <1>1, <1>2, <1>3, <1>4, <1>5, <1>6, <1>7, <1>8 DEF Next

\* Whatever the servers list, the VClient never asks for a type it does not know and never
\* reports a group that the application does not turn on (TypeOK).
THEOREM TypeCorrect == Spec => []TypeOK
<1>1. Init => TypeOK
  BY DEF Init, TypeOK
<1>2. QED
  BY <1>1, TypeStep, PTL DEF Spec

-----------------------------------------------------------------------------
(* What is requested was asked for. *)

LEMMA UnaskedStep == TypeOK /\ NothingUnasked /\ [Next]_vars => NothingUnasked'
<1> SUFFICES ASSUME TypeOK, NothingUnasked, [Next]_vars,
                    NEW t \in m_RequestedObjects' \ Defaults
             PROVE  \E g \in enabled' : t \in TypesOf[g]
  BY DEF NothingUnasked
<1> DEFINE Asked(S) == \E g \in S : t \in TypesOf[g]
<1>0. t \in m_RequestedObjects => Asked(enabled)
  BY DEF NothingUnasked
<1>1. CASE Connect
  BY <1>1 DEF Connect
<1>2. CASE Disconnect
  BY <1>0, <1>2 DEF Disconnect
<1>3. CASE ReadObjectEnums
  BY <1>0, <1>3 DEF ReadObjectEnums
<1>4. ASSUME NEW b \in BOOLEAN, SetSegmentDataEnabled(b)
      PROVE  Asked(enabled')
  BY <1>0, <1>4 DEF SetSegmentDataEnabled, SetRequestTypes, SetFlag
<1>5. CASE EnableLightweightSegmentData
  <2>1. CASE t \in TypesOf["LightweightSegment"]
    BY <1>5, <2>1 DEF EnableLightweightSegmentData
  <2>2. CASE t \notin TypesOf["LightweightSegment"]
    <3>1. t \in m_RequestedObjects /\ \A g \in DisabledByLightweight : t \notin TypesOf[g]
      BY <1>5, <2>2 DEF EnableLightweightSegmentData, SetRequestTypes
    <3>2. QED
      BY <1>0, <1>5, <3>1 DEF EnableLightweightSegmentData
  <2>3. QED
    BY <2>1, <2>2
<1>6. CASE DisableLightweightSegmentData
  BY <1>0, <1>6 DEF DisableLightweightSegmentData, SetRequestTypes, SetFlag
<1>7. ASSUME NEW g \in Plain, NEW b \in BOOLEAN, SetDataEnabled(g, b)
      PROVE  Asked(enabled')
  BY <1>0, <1>7 DEF SetDataEnabled, SetRequestTypes, SetFlag
<1>8. CASE UNCHANGED vars
  BY <1>0, <1>8 DEF vars
<1>9. QED
  BY <1>1, <1>2, <1>3, <1>4, <1>5, <1>6, <1>7, <1>8 DEF Next

\* Through every order of turning groups on and off, whatever types they share, what
\* is requested beyond the defaults belongs to a group that is on (NothingUnasked).
THEOREM RequestedIsEnabled == Spec => []NothingUnasked
<1>1. Init => NothingUnasked
  BY DEF Init, NothingUnasked
<1>2. QED
  BY <1>1, TypeCorrect, UnaskedStep, PTL DEF Spec

-----------------------------------------------------------------------------
(* One form of segments. *)

LEMMA OneFormStep == OneFormOfSegments /\ [Next]_vars => OneFormOfSegments'
<1> SUFFICES ASSUME OneFormOfSegments, [Next]_vars PROVE OneFormOfSegments'
  OBVIOUS
<1> USE SegmentTypes DEF OneFormOfSegments
<1>1. CASE Connect
  BY <1>1 DEF Connect
<1>2. CASE Disconnect
  BY <1>2 DEF Disconnect
<1>3. CASE ReadObjectEnums
  BY <1>3 DEF ReadObjectEnums
<1>4. ASSUME NEW b \in BOOLEAN, SetSegmentDataEnabled(b)
      PROVE  OneFormOfSegments'
  BY <1>4 DEF SetSegmentDataEnabled, SetRequestTypes
<1>5. CASE EnableLightweightSegmentData
  <2>1. "Segment" \in DisabledByLightweight
    BY DEF DisabledByLightweight
  <2>2. QED
    BY <1>5, <2>1 DEF EnableLightweightSegmentData, SetRequestTypes
<1>6. CASE DisableLightweightSegmentData
  BY <1>6 DEF DisableLightweightSegmentData, SetRequestTypes
<1>7. ASSUME NEW g \in Plain, NEW b \in BOOLEAN, SetDataEnabled(g, b)
      PROVE  OneFormOfSegments'
  <2>1. g \in AllGroups \ {"Segment", "LightweightSegment"}
    BY RequestAssumption DEF Plain
  <2>2. QED
    BY <1>7, <2>1 DEF SetDataEnabled, SetRequestTypes
<1>8. CASE UNCHANGED vars
  BY <1>8 DEF vars
<1>9. QED
  BY <1>1, <1>2, <1>3, <1>4, <1>5, <1>6, <1>7, <1>8 DEF Next

\* Full and lightweight segments are never requested together (OneFormOfSegments).
THEOREM SegmentsInOneForm == Spec => []OneFormOfSegments
<1>1. Init => OneFormOfSegments
  BY DEF Init, OneFormOfSegments
<1>2. QED
  BY <1>1, OneFormStep, PTL DEF Spec

-----------------------------------------------------------------------------
(* The scale of subjects. *)

LEMMA ScaleStep == ScaleNotRefused /\ [Next]_vars => ScaleNotRefused'
<1> SUFFICES ASSUME ScaleNotRefused, [Next]_vars PROVE ScaleNotRefused'
  OBVIOUS
<1> USE SegmentTypes DEF ScaleNotRefused
<1>1. CASE Connect
  BY <1>1 DEF Connect
<1>2. CASE Disconnect
  BY <1>2 DEF Disconnect
<1>3. CASE ReadObjectEnums
  BY <1>3 DEF ReadObjectEnums
<1>4. ASSUME NEW b \in BOOLEAN, SetSegmentDataEnabled(b)
      PROVE  ScaleNotRefused'
  BY <1>4 DEF SetSegmentDataEnabled, SetRequestTypes, SetFlag
<1>5. CASE EnableLightweightSegmentData
  BY <1>5 DEF EnableLightweightSegmentData
<1>6. CASE DisableLightweightSegmentData
  BY <1>6 DEF DisableLightweightSegmentData, SetRequestTypes
<1>7. ASSUME NEW g \in Plain, NEW b \in BOOLEAN, SetDataEnabled(g, b)
      PROVE  ScaleNotRefused'
  <2>1. g \in AllGroups \ {"Segment", "LightweightSegment"}
    BY RequestAssumption DEF Plain
  <2>2. QED
    BY <1>7, <2>1 DEF SetDataEnabled, SetRequestTypes, SetFlag
<1>8. CASE UNCHANGED vars
  BY <1>8 DEF vars
<1>9. QED
  BY <1>1, <1>2, <1>3, <1>4, <1>5, <1>6, <1>7, <1>8 DEF Next

\* GetSegmentStaticScale does not refuse what is requested and sent (ScaleNotRefused).
THEOREM ScaleAnswered == Spec => []ScaleNotRefused
<1>1. Init => ScaleNotRefused
  BY DEF Init, ScaleNotRefused
<1>2. QED
  BY <1>1, ScaleStep, PTL DEF Spec

-----------------------------------------------------------------------------
(* Lightweight segments alone. *)

LEMMA AloneStep ==
  ASSUME TypeOK, [Next]_vars, "LightweightSegments" \in m_RequestedObjects' \ m_RequestedObjects
  PROVE  enabled' \subseteq {"LightweightSegment", "CameraCalibration"}
<1> USE SegmentTypes
<1>1. ~Connect /\ ~Disconnect /\ ~ReadObjectEnums /\ ~UNCHANGED vars
  BY DEF Connect, Disconnect, ReadObjectEnums, vars
<1>2. \A b \in BOOLEAN : ~SetSegmentDataEnabled(b)
  BY DEF SetSegmentDataEnabled, SetRequestTypes
<1>3. ~DisableLightweightSegmentData
  BY DEF DisableLightweightSegmentData, SetRequestTypes
<1>4. ASSUME NEW g \in Plain, NEW b \in BOOLEAN PROVE ~SetDataEnabled(g, b)
  <2>1. g \in AllGroups \ {"Segment", "LightweightSegment"}
    BY RequestAssumption DEF Plain
  <2>2. QED
    BY <2>1 DEF SetDataEnabled, SetRequestTypes
<1>5. EnableLightweightSegmentData
  BY <1>1, <1>2, <1>3, <1>4 DEF Next
<1>6. enabled \subseteq AllGroups
  BY RequestAssumption DEF TypeOK
<1>7. QED
  BY <1>5, <1>6 DEF EnableLightweightSegmentData, DisabledByLightweight

\* When lightweight segments begin to be requested no other group is left on but
\* camera calibration (LightweightAlone).
THEOREM LightweightTurnsOthersOff == Spec => LightweightAlone
<1>1. TypeOK /\ [Next]_vars
        => [ "LightweightSegments" \in m_RequestedObjects' \ m_RequestedObjects
               => enabled' \subseteq {"LightweightSegment", "CameraCalibration"} ]_vars
  BY AloneStep
<1>2. QED
  BY <1>1, TypeCorrect, PTL DEF Spec, LightweightAlone
=============================================================================
