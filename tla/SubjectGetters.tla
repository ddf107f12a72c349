--------------------------- MODULE SubjectGetters ---------------------------
(***************************************************************************)
(* The getters of VClient that are about subjects: their segments, the     *)
(* tree these form, poses, markers and the rays that markers were          *)
(* reconstructed from; and the poses that GetFrame works out itself when   *)
(* the server sends lightweight segments.                                  *)
(***************************************************************************)
EXTENDS LatestFrame

---------------------------------------------------------------------------
(* Lookups.                                                                *)

\* GetSubjectInfo.
WithSubject(subject, Then(_)) ==
    WithFrame(IF subject = <<>> THEN Refuse("InvalidSubjectName")
              ELSE WithFirst(m_LatestFrame.m_Subjects, LAMBDA s : s.m_Name = subject, Then,
                             Refuse("InvalidSubjectName")))

\* Then(m) for the member with this name in a list of segments or markers (GetSegmentID,
\* GetMarkerID).
WithMember(s, name, Then(_), otherwise) ==
    IF name = <<>> THEN Refuse(otherwise)
    ELSE WithFirst(s, LAMBDA m : m.m_Name = name, Then, Refuse(otherwise))

\* GetSubjectAndSegmentID, GetSubjectAndMarkerID.
WithSegment(subject, segment, Then(_, _)) ==
    WithSubject(subject, LAMBDA s :
        WithMember(s.m_Segments, segment, LAMBDA g : Then(s, g), "InvalidSegmentName"))

WithMarker(subject, marker, Then(_, _)) ==
    WithSubject(subject, LAMBDA s :
        WithMember(s.m_Markers, marker, LAMBDA k : Then(s, k), "InvalidMarkerName"))

\* GetSubjectTopology, GetSubjectScale, GetObjectQuality: the object of a subject.
WithObjectOf(objects, s, Then(_), otherwise) ==
    WithFirst(objects, LAMBDA o : o.m_SubjectID = s.m_SubjectID, Then, Refuse(otherwise))

---------------------------------------------------------------------------
(* Subjects and the tree of segments.                                      *)

GetSubjectCount == WithFrame(Answer(Len(m_LatestFrame.m_Subjects)))

GetSubjectName(i) ==
    WithFrame(WithIndex(m_LatestFrame.m_Subjects, i, LAMBDA s : Answer(s.m_Name)))

\* The root is the first segment without a parent.
GetSubjectRootSegmentName(subject) ==
    WithSubject(subject, LAMBDA s :
        WithFirst(s.m_Segments, LAMBDA g : g.m_ParentID = 0, LAMBDA g : Answer(g.m_Name),
                  Refuse("Unknown")))

GetSegmentCount(subject) == WithSubject(subject, LAMBDA s : Answer(Len(s.m_Segments)))

GetSegmentName(subject, i) ==
    WithSubject(subject, LAMBDA s : WithIndex(s.m_Segments, i, LAMBDA g : Answer(g.m_Name)))

Children(s, g) ==
    FoldLeft(LAMBDA found, child :
                IF child.m_ParentID = g.m_SegmentID THEN Append(found, child) ELSE found,
             <<>>, s.m_Segments)

GetSegmentChildCount(subject, segment) ==
    WithSegment(subject, segment, LAMBDA s, g : Answer(Len(Children(s, g))))

GetSegmentChildName(subject, segment, i) ==
    WithSegment(subject, segment, LAMBDA s, g :
        WithIndex(Children(s, g), i, LAMBDA child : Answer(child.m_Name)))

\* Of a root nothing is the parent: Unknown.
GetSegmentParentName(subject, segment) ==
    WithSegment(subject, segment, LAMBDA s, g :
        WithFirst(s.m_Segments, LAMBDA parent : parent.m_SegmentID = g.m_ParentID,
                  LAMBDA parent : Answer(parent.m_Name), Refuse("Unknown")))

GetObjectQuality(subject) ==
    WithSubject(subject, LAMBDA s :
        WithObjectOf(m_LatestFrame.m_ObjectQualities, s, LAMBDA o : Answer(o.m_ObjectQuality),
                     "NotImplemented"))

---------------------------------------------------------------------------
(* Poses.                                                                  *)

WithPose(poses, subject, segment, Then(_)) ==
    WithSegment(subject, segment, LAMBDA s, g :
        WithPoseOf(poses, s.m_SubjectID, g.m_SegmentID, Then))

GetSegmentGlobalTranslation(subject, segment) ==
    WithPose(m_LatestFrame.m_GlobalSegments, subject, segment,
             LAMBDA p : Answer(OutT(p.m_Translation)))

GetSegmentGlobalRotationMatrix(subject, segment) ==
    WithPose(m_LatestFrame.m_GlobalSegments, subject, segment,
             LAMBDA p : Answer(OutR(p.m_Rotation)))

GetSegmentLocalTranslation(subject, segment) ==
    WithPose(m_LatestFrame.m_LocalSegments, subject, segment,
             LAMBDA p : Answer(OutT(p.m_Translation)))

GetSegmentLocalRotationMatrix(subject, segment) ==
    WithPose(m_LatestFrame.m_LocalSegments, subject, segment,
             LAMBDA p : Answer(OutR(p.m_Rotation)))

GetSegmentGlobalRotationHelical(subject, segment) ==
    InForm(MatrixToHelical, GetSegmentGlobalRotationMatrix(subject, segment))

GetSegmentGlobalRotationQuaternion(subject, segment) ==
    InForm(MatrixToQuaternion, GetSegmentGlobalRotationMatrix(subject, segment))

GetSegmentGlobalRotationEulerXYZ(subject, segment) ==
    InForm(MatrixToEulerXYZ, GetSegmentGlobalRotationMatrix(subject, segment))

GetSegmentLocalRotationHelical(subject, segment) ==
    InForm(MatrixToHelical, GetSegmentLocalRotationMatrix(subject, segment))

GetSegmentLocalRotationQuaternion(subject, segment) ==
    InForm(MatrixToQuaternion, GetSegmentLocalRotationMatrix(subject, segment))

GetSegmentLocalRotationEulerXYZ(subject, segment) ==
    InForm(MatrixToEulerXYZ, GetSegmentLocalRotationMatrix(subject, segment))

\* What Then makes of the pose of a segment in the topology of its subject. A segment that is not
\* there has one result for its translation and another for its rotation.
WithStaticPose(subject, segment, Then(_), otherwise) ==
    WithSegment(subject, segment, LAMBDA s, g :
        WithObjectOf(m_LatestFrame.m_SubjectTopologies, s, LAMBDA o :
            WithFirst(o.m_Segments, LAMBDA p : p.m_SegmentID = g.m_SegmentID, Then,
                      Refuse(otherwise)),
            "InvalidSubjectName"))

GetSegmentStaticTranslation(subject, segment) ==
    WithStaticPose(subject, segment, LAMBDA p : Answer(OutT(p.m_Translation)),
                   "InvalidSegmentName")

GetSegmentStaticRotationMatrix(subject, segment) ==
    WithStaticPose(subject, segment, LAMBDA p : Answer(OutR(p.m_Rotation)), "Unknown")

GetSegmentStaticRotationHelical(subject, segment) ==
    InForm(MatrixToHelical, GetSegmentStaticRotationMatrix(subject, segment))

GetSegmentStaticRotationQuaternion(subject, segment) ==
    InForm(MatrixToQuaternion, GetSegmentStaticRotationMatrix(subject, segment))

GetSegmentStaticRotationEulerXYZ(subject, segment) ==
    InForm(MatrixToEulerXYZ, GetSegmentStaticRotationMatrix(subject, segment))

\* scaleRefused: m_bSegmentDataEnabled and not m_bSubjectScaleEnabled. Scales are not transformed.
GetSegmentStaticScale(subject, segment, scaleRefused) ==
    IF scaleRefused THEN Refuse("NotSupported")
    ELSE WithSegment(subject, segment, LAMBDA s, g :
            WithObjectOf(m_LatestFrame.m_SubjectScales, s, LAMBDA o :
                WithFirst(o.m_Segments, LAMBDA p : p.m_SegmentID = g.m_SegmentID,
                          LAMBDA p : Answer(p.m_Scale), Refuse("Unknown")),
                "NotPresent"))

---------------------------------------------------------------------------
(* Markers.                                                                *)

GetMarkerCount(subject) == WithSubject(subject, LAMBDA s : Answer(Len(s.m_Markers)))

GetMarkerName(subject, i) ==
    WithSubject(subject, LAMBDA s : WithIndex(s.m_Markers, i, LAMBDA k : Answer(k.m_Name)))

\* The segment of the first attachment; none if there is no attachment, since no segment has ID 0.
GetMarkerParentName(subject, marker) ==
    WithMarker(subject, marker, LAMBDA s, k :
        LET a == SelectInSeq(s.m_Attachments, LAMBDA t : t.m_MarkerID = k.m_MarkerID)
            segmentID == IF a = 0 THEN 0 ELSE s.m_Attachments[a].m_SegmentID
        IN  WithFirst(s.m_Segments, LAMBDA g : g.m_SegmentID = segmentID,
                      LAMBDA g : Answer(g.m_Name), Refuse("InvalidMarkerName")))

OfMarker(o, s, k) == o.m_SubjectID = s.m_SubjectID /\ o.m_MarkerID = k.m_MarkerID

GetMarkerGlobalTranslation(subject, marker) ==
    WithMarker(subject, marker, LAMBDA s, k :
        WithFirst(m_LatestFrame.m_LabeledRecons, LAMBDA o : OfMarker(o, s, k),
                  LAMBDA o : Answer(OutT(o.m_Position)), Occluded))

\* GetReconRayAssignments: the rays of all entries for a marker.
GetReconRayAssignments(subject, marker) ==
    WithMarker(subject, marker, LAMBDA s, k :
        Answer(FoldLeft(LAMBDA rays, o : IF OfMarker(o, s, k) THEN rays \o o.m_ReconRays ELSE rays,
                        <<>>, m_LatestFrame.m_ReconRayAssignments)))

GetMarkerRayAssignmentCount(subject, marker) ==
    LET rays == GetReconRayAssignments(subject, marker)
    IN  IF Given(rays) THEN Answer(Len(rays.out)) ELSE rays

\* For indices that are not negative: those are not checked.
GetMarkerRayAssignment(subject, marker, i) ==
    LET rays == GetReconRayAssignments(subject, marker)
    IN  IF Given(rays) THEN WithIndex(rays.out, i, Answer) ELSE rays

GetUnlabeledMarkerCount == WithFrame(Answer(Len(m_LatestFrame.m_UnlabeledRecons)))

GetUnlabeledMarkerGlobalTranslation(i) ==
    WithFrame(WithIndex(m_LatestFrame.m_UnlabeledRecons, i, LAMBDA o : Answer(OutT(o.m_Position))))

GetLabeledMarkerCount == WithFrame(Answer(Len(m_LatestFrame.m_LabeledRecons)))

GetLabeledMarkerGlobalTranslation(i) ==
    WithFrame(WithIndex(m_LatestFrame.m_LabeledRecons, i, LAMBDA o : Answer(OutT(o.m_Position))))

---------------------------------------------------------------------------
(* Lightweight segments: the server sends only poses relative to the       *)
(* parent, with rotations as helical vectors.                              *)

RootOf(s) == SelectInSeq(s.m_Segments, LAMBDA g : g.m_ParentID = 0)

\* Mutant: the rotations are multiplied the other way round.
PoseInTurned(T, R, p) ==
    [m_SegmentID |-> p.m_SegmentID,
     m_Translation |-> Plus(T, Apply(R, p.m_Translation)),
     m_Rotation |-> Times(HelicalToMatrix(p.m_Rotation), R)]

\* The pose of a segment, given in that of its parent, in the world.
PoseIn(T, R, p) ==
    [m_SegmentID |-> p.m_SegmentID,
     m_Translation |-> Plus(T, Apply(R, p.m_Translation)),
     m_Rotation |-> Times(R, HelicalToMatrix(p.m_Rotation))]

\* The subjects and segments are gone through by getters, which look at the connection anew each
\* time; GetSubjectAndSegmentID stands for GetSegmentChildName, which calls it, too.
PosingCall(getter, s, id) == <<getter, s.m_SubjectID, id>>

PosingCalls(f) ==
    UNION {{PosingCall("GetSubjectRootSegmentName", s, 0)} \cup
           {PosingCall(getter, s, g.m_SegmentID) :
                getter \in {"GetSubjectAndSegmentID", "GetSegmentChildCount"},
                g \in ToSet(s.m_Segments)} : s \in ToSet(f.m_Subjects)}

\* The result of GetSegmentChildCount is not looked at, and its output is cleared.
ChildrenFollowed(s, g, gone) ==
    IF PosingCall("GetSegmentChildCount", s, g.m_SegmentID) \in gone THEN {}
    ELSE ToSet(Children(s, g))

\* CalculateSegmentGlobalFromLocal: both poses of a segment and of all segments below it, with the
\* parent of the segment at T and turned by R, when the calls in gone find no connection; nothing if
\* the pose of one was not sent or one is not found. No getter tells in which order the poses of a
\* subject are.
PosesOf(s, light, gone) ==
    LET poses[at \in [segment : ToSet(s.m_Segments), T : Vectors, R : Matrices]] ==
            LET i == SelectInSeq(light.m_Segments,
                                 LAMBDA p : p.m_SegmentID = at.segment.m_SegmentID)
                global == PoseIn(at.T, at.R, light.m_Segments[i])
                local == PoseIn(Origin, UnitRotation, light.m_Segments[i])
                below == {poses[[segment |-> child, T |-> global.m_Translation,
                                 R |-> global.m_Rotation]] :
                            child \in ChildrenFollowed(s, at.segment, gone)}
            IN  IF \/ i = 0 \/ {} \in below
                   \/ PosingCall("GetSubjectAndSegmentID", s, at.segment.m_SegmentID) \in gone
                THEN {}
                ELSE {[global |-> global, local |-> local]} \cup UNION below
    IN  poses[[segment |-> s.m_Segments[RootOf(s)], T |-> Origin, R |-> UnitRotation]]

HasObjectOf(objects, s) == \E n \in DOMAIN objects : objects[n].m_SubjectID = s.m_SubjectID

\* Global and local segments with those of a subject, if its recursion ends with Success.
WithPosesOf(segments, s, light, gone) ==
    LET poses == SetToSeq(PosesOf(s, light, gone))
        object(kind) == [m_SubjectID |-> s.m_SubjectID,
                         m_Segments |-> [n \in DOMAIN poses |-> poses[n][kind]]]
    IN  IF PosesOf(s, light, gone) = {} THEN segments
        ELSE [segments EXCEPT !.global = Append(@, object("global")),
                              !.local = Append(@, object("local"))]

\* What CalculateGlobalsFromLocals does with one subject. It ends at the first of which no root is
\* found, and at the first that has poses already; the subjects after it get none.
WithSubjectPosed(f, segments, s, gone) ==
    LET i == SelectInSeq(f.m_LightweightSegments, LAMBDA o : o.m_SubjectID = s.m_SubjectID)
        unrooted == RootOf(s) = 0 \/ PosingCall("GetSubjectRootSegmentName", s, 0) \in gone
    IN  IF segments.ended \/ unrooted THEN [segments EXCEPT !.ended = TRUE]
        ELSE IF i = 0 THEN segments
        ELSE IF HasObjectOf(segments.global, s) \/ HasObjectOf(segments.local, s)
        THEN [segments EXCEPT !.ended = TRUE]
        ELSE WithPosesOf(segments, s, f.m_LightweightSegments[i], gone)

CalculateGlobalsFromLocals(f, gone) ==
    LET segments == FoldLeft(LAMBDA found, s : WithSubjectPosed(f, found, s, gone),
                             [global |-> f.m_GlobalSegments, local |-> f.m_LocalSegments,
                              ended |-> FALSE], f.m_Subjects)
    IN  [f EXCEPT !.m_GlobalSegments = segments.global, !.m_LocalSegments = segments.local]
=============================================================================
