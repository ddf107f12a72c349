--------------------------- MODULE RetimedGetters ---------------------------
(***************************************************************************)
(* The getters of VRetimingClient. What stays the same from frame to frame *)
(* is read from the newest sample of the subject (GetSubjectStatic), what  *)
(* moves from the pose that was made last (GetSubject).                    *)
(*                                                                         *)
(* A getter for a pose answers Success for a segment that it does not      *)
(* find, with the outputs as they were cleared.                            *)
(***************************************************************************)
EXTENDS RetimingCore

\* Adapt, of the results of poses.
AdaptPose(result) ==
    CASE result = "ESuccess"        -> "Success"
      [] result = "ENoData"         -> "NoFrame"
      [] result = "EUnknownSubject" -> "InvalidSubjectName"
      [] result = "EEarly"          -> "EarlyDataRequested"
      [] result = "ELate"           -> "LateDataRequested"
      [] result = "EInvalid"        -> "InvalidOperation"

HasData == DOMAIN m_Data # {}

\* VRetimingCore::GetSubjectStatic, GetSubject.
WithStatic(subject, Then(_)) ==
    IF subject \in DOMAIN m_Data
    THEN IF m_Data[subject] = <<>> THEN Refuse(AdaptPose("ENoData"))
         ELSE Then(Last(m_Data[subject]))
    ELSE Refuse(AdaptPose("EUnknownSubject"))

WithRetimed(subject, Then(_)) ==
    IF subject \in DOMAIN m_LatestOutputPoses
    THEN LET pose == m_LatestOutputPoses[subject]
         IN  IF pose.Result = "ESuccess" THEN Then(pose) ELSE Refuse(AdaptPose(pose.Result))
    ELSE Refuse(AdaptPose("EUnknownSubject"))

InitGet == IF ~connected THEN "NotConnected" ELSE IF ~HasData THEN "NoFrame" ELSE "Success"

WithData(answer) == IF InitGet = "Success" THEN answer ELSE Refuse(InitGet)

---------------------------------------------------------------------------
(* Names. The connection is not looked at.                                 *)

GetSubjectCount ==
    IF HasData THEN Answer(Cardinality(DOMAIN m_LatestOutputPoses)) ELSE Refuse("NoFrame")

\* The keys of a map are always gone through in the same order; which one, is left open.
NamesInOrder == SetToSeq(DOMAIN m_LatestOutputPoses)

GetSubjectName(i) ==
    IF i >= Len(NamesInOrder) THEN Refuse(AdaptPose("EUnknownSubject"))
    ELSE Answer(NamesInOrder[i + 1])

GetSubjectRootSegmentName(subject) ==
    WithStatic(subject, LAMBDA sample : Answer(sample.RootSegment))

GetSegmentCount(subject) == WithStatic(subject, LAMBDA sample : Answer(Len(sample.m_SegmentNames)))

GetSegmentName(subject, i) ==
    WithStatic(subject, LAMBDA sample : WithIndex(sample.m_SegmentNames, i, Answer))

\* What is known of a segment of the newest sample.
WithSegment(subject, segment, Then(_)) ==
    WithStatic(subject, LAMBDA sample :
        IF segment \in DOMAIN sample.m_Segments THEN Then(sample.m_Segments[segment])
        ELSE Refuse("InvalidSegmentName"))

GetSegmentChildCount(subject, segment) ==
    WithSegment(subject, segment, LAMBDA s : Answer(Len(s.m_Children)))

GetSegmentChildName(subject, segment, i) ==
    WithSegment(subject, segment, LAMBDA s : WithIndex(s.m_Children, i, Answer))

GetSegmentParentName(subject, segment) ==
    WithSegment(subject, segment, LAMBDA s : Answer(s.Parent))

---------------------------------------------------------------------------
(* Poses. Local ones are read without the lock of VRetimingClient, which   *)
(* nothing depends on: the pose, once it has been found, is not written.   *)

StaticPose(subject, segment, Then(_), cleared) ==
    WithData(WithStatic(subject, LAMBDA sample :
        IF segment \in DOMAIN sample.m_Segments THEN Then(sample.m_Segments[segment])
        ELSE Answer(cleared)))

RetimedPose(subject, segment, Of(_), cleared) ==
    WithData(WithRetimed(subject, LAMBDA pose :
        IF segment \in DOMAIN pose.m_Segments
        THEN [Answer(Of(pose.m_Segments[segment])) EXCEPT
                !.occluded = pose.m_Segments[segment].bOccluded]
        ELSE Answer(cleared)))

\* The matrix does not tell q from -q; the forms made of it turn the shorter way.
ToRotationMatrix(r) == IF r < 0 THEN r ELSE r % 360

MatrixToHelical(R) == IF R > 180 THEN R - 360 ELSE R

MatrixToEulerXYZ(R) == IF R > 180 THEN R - 360 ELSE R

GetSegmentStaticTranslation(subject, segment) ==
    StaticPose(subject, segment, LAMBDA s : Answer(s.T_Stat), 0)

GetSegmentStaticRotationMatrix(subject, segment) ==
    StaticPose(subject, segment, LAMBDA s : Answer(ToRotationMatrix(s.R_Stat)), NoRotation)

GetSegmentStaticRotationHelical(subject, segment) ==
    InForm(MatrixToHelical, GetSegmentStaticRotationMatrix(subject, segment))

GetSegmentStaticRotationQuaternion(subject, segment) ==
    StaticPose(subject, segment, LAMBDA s : Answer(s.R_Stat), NoRotation)

GetSegmentStaticRotationEulerXYZ(subject, segment) ==
    InForm(MatrixToEulerXYZ, GetSegmentStaticRotationMatrix(subject, segment))

\* A scale that is not there, bHasScale being false, is <<>>.
GetSegmentStaticScale(subject, segment) ==
    StaticPose(subject, segment,
               LAMBDA s : IF s.Scale = <<>> THEN Refuse("NotPresent") ELSE Answer(s.Scale),
               <<0, 0, 0>>)

GetSegmentGlobalTranslation(subject, segment) ==
    RetimedPose(subject, segment, LAMBDA s : s.T, 0)

GetSegmentGlobalRotationMatrix(subject, segment) ==
    RetimedPose(subject, segment, LAMBDA s : ToRotationMatrix(s.R), NoRotation)

GetSegmentGlobalRotationHelical(subject, segment) ==
    InForm(MatrixToHelical, GetSegmentGlobalRotationMatrix(subject, segment))

GetSegmentGlobalRotationQuaternion(subject, segment) ==
    RetimedPose(subject, segment, LAMBDA s : s.R, NoRotation)

GetSegmentGlobalRotationEulerXYZ(subject, segment) ==
    InForm(MatrixToEulerXYZ, GetSegmentGlobalRotationMatrix(subject, segment))

GetSegmentLocalTranslation(subject, segment) ==
    RetimedPose(subject, segment, LAMBDA s : s.T_Rel, 0)

GetSegmentLocalRotationMatrix(subject, segment) ==
    RetimedPose(subject, segment, LAMBDA s : ToRotationMatrix(s.R_Rel), NoRotation)

GetSegmentLocalRotationHelical(subject, segment) ==
    InForm(MatrixToHelical, GetSegmentLocalRotationMatrix(subject, segment))

GetSegmentLocalRotationQuaternion(subject, segment) ==
    RetimedPose(subject, segment, LAMBDA s : s.R_Rel, NoRotation)

GetSegmentLocalRotationEulerXYZ(subject, segment) ==
    InForm(MatrixToEulerXYZ, GetSegmentLocalRotationMatrix(subject, segment))
=============================================================================
