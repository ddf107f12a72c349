------------------------- MODULE RetimedInterfaces --------------------------
(***************************************************************************)
(* The getters of the retiming client in C++ (RetimingClient) and in C:    *)
(* each asks the layer below, adapts the result, copies what it is given.  *)
(***************************************************************************)
EXTENDS RetimedGetters

---------------------------------------------------------------------------
(* C++.                                                                    *)

CPP_GetSubjectCount == Adapted(GetSubjectCount)

CPP_GetSubjectName(i) == Adapted(GetSubjectName(i))

CPP_GetSubjectRootSegmentName(s) == Adapted(GetSubjectRootSegmentName(s))

CPP_GetSegmentCount(s) == Adapted(GetSegmentCount(s))

CPP_GetSegmentName(s, i) == Adapted(GetSegmentName(s, i))

CPP_GetSegmentChildCount(s, g) == Adapted(GetSegmentChildCount(s, g))

CPP_GetSegmentChildName(s, g, i) == Adapted(GetSegmentChildName(s, g, i))

CPP_GetSegmentParentName(s, g) == Adapted(GetSegmentParentName(s, g))

CPP_GetSegmentStaticTranslation(s, g) == Adapted(GetSegmentStaticTranslation(s, g))

CPP_GetSegmentStaticRotationMatrix(s, g) == Adapted(GetSegmentStaticRotationMatrix(s, g))

CPP_GetSegmentStaticRotationHelical(s, g) == Adapted(GetSegmentStaticRotationHelical(s, g))

CPP_GetSegmentStaticRotationQuaternion(s, g) == Adapted(GetSegmentStaticRotationQuaternion(s, g))

CPP_GetSegmentStaticRotationEulerXYZ(s, g) == Adapted(GetSegmentStaticRotationEulerXYZ(s, g))

CPP_GetSegmentStaticScale(s, g) == Adapted(GetSegmentStaticScale(s, g))

CPP_GetSegmentGlobalTranslation(s, g) == Adapted(GetSegmentGlobalTranslation(s, g))

CPP_GetSegmentGlobalRotationMatrix(s, g) == Adapted(GetSegmentGlobalRotationMatrix(s, g))

CPP_GetSegmentGlobalRotationHelical(s, g) == Adapted(GetSegmentGlobalRotationHelical(s, g))

CPP_GetSegmentGlobalRotationQuaternion(s, g) == Adapted(GetSegmentGlobalRotationQuaternion(s, g))

CPP_GetSegmentGlobalRotationEulerXYZ(s, g) == Adapted(GetSegmentGlobalRotationEulerXYZ(s, g))

CPP_GetSegmentLocalTranslation(s, g) == Adapted(GetSegmentLocalTranslation(s, g))

CPP_GetSegmentLocalRotationMatrix(s, g) == Adapted(GetSegmentLocalRotationMatrix(s, g))

CPP_GetSegmentLocalRotationHelical(s, g) == Adapted(GetSegmentLocalRotationHelical(s, g))

CPP_GetSegmentLocalRotationQuaternion(s, g) == Adapted(GetSegmentLocalRotationQuaternion(s, g))

CPP_GetSegmentLocalRotationEulerXYZ(s, g) == Adapted(GetSegmentLocalRotationEulerXYZ(s, g))

---------------------------------------------------------------------------
(* C.                                                                      *)

RetimingClient_GetSubjectCount == CPP_GetSubjectCount

RetimingClient_GetSubjectName(i, size) == Text(CPP_GetSubjectName(i), size)

RetimingClient_GetSubjectRootSegmentName(s, size) == Text(CPP_GetSubjectRootSegmentName(s), size)

RetimingClient_GetSegmentCount(s) == CPP_GetSegmentCount(s)

RetimingClient_GetSegmentName(s, i, size) == Text(CPP_GetSegmentName(s, i), size)

RetimingClient_GetSegmentChildCount(s, g) == CPP_GetSegmentChildCount(s, g)

RetimingClient_GetSegmentChildName(s, g, i, size) == Text(CPP_GetSegmentChildName(s, g, i), size)

RetimingClient_GetSegmentParentName(s, g, size) == Text(CPP_GetSegmentParentName(s, g), size)

RetimingClient_GetSegmentStaticTranslation(s, g) == CPP_GetSegmentStaticTranslation(s, g)

RetimingClient_GetSegmentStaticRotationMatrix(s, g) == CPP_GetSegmentStaticRotationMatrix(s, g)

RetimingClient_GetSegmentStaticRotationHelical(s, g) == CPP_GetSegmentStaticRotationHelical(s, g)

RetimingClient_GetSegmentStaticRotationQuaternion(s, g) ==
    CPP_GetSegmentStaticRotationQuaternion(s, g)

RetimingClient_GetSegmentStaticRotationEulerXYZ(s, g) == CPP_GetSegmentStaticRotationEulerXYZ(s, g)

RetimingClient_GetSegmentStaticScale(s, g) == CPP_GetSegmentStaticScale(s, g)

RetimingClient_GetSegmentGlobalTranslation(s, g) == CPP_GetSegmentGlobalTranslation(s, g)

RetimingClient_GetSegmentGlobalRotationMatrix(s, g) == CPP_GetSegmentGlobalRotationMatrix(s, g)

RetimingClient_GetSegmentGlobalRotationHelical(s, g) == CPP_GetSegmentGlobalRotationHelical(s, g)

RetimingClient_GetSegmentGlobalRotationQuaternion(s, g) ==
    CPP_GetSegmentGlobalRotationQuaternion(s, g)

RetimingClient_GetSegmentGlobalRotationEulerXYZ(s, g) == CPP_GetSegmentGlobalRotationEulerXYZ(s, g)

RetimingClient_GetSegmentLocalTranslation(s, g) == CPP_GetSegmentLocalTranslation(s, g)

RetimingClient_GetSegmentLocalRotationMatrix(s, g) == CPP_GetSegmentLocalRotationMatrix(s, g)

RetimingClient_GetSegmentLocalRotationHelical(s, g) == CPP_GetSegmentLocalRotationHelical(s, g)

RetimingClient_GetSegmentLocalRotationQuaternion(s, g) ==
    CPP_GetSegmentLocalRotationQuaternion(s, g)

RetimingClient_GetSegmentLocalRotationEulerXYZ(s, g) == CPP_GetSegmentLocalRotationEulerXYZ(s, g)

---------------------------------------------------------------------------

\* A program that knows nothing but what it is told by the C interface goes through the subjects
\* of the last update and asks for their segments by the names it is given. Whatever has come
\* since, has not come, or was lost between any two of the calls that read it, it is not refused a
\* name that it was given; and a child that it is told of and finds has for its parent the segment
\* that it was told of, or an empty name, if just the parent could not be read
\* (VRetimingCore::AddData, GetSubjectStatic, VRetimingClient::InputThread).
NamesServed ==
    LET size == LongestName + 1
        subjects == RetimingClient_GetSubjectCount
    IN  Given(subjects) => \A i \in 0..subjects.out - 1 :
        LET subject == RetimingClient_GetSubjectName(i, size).out
            count == RetimingClient_GetSegmentCount(subject)
        IN  /\ Given(count)
            /\ Given(RetimingClient_GetSubjectRootSegmentName(subject, size))
            /\ \A n \in 0..count.out - 1 :
                LET segment == RetimingClient_GetSegmentName(subject, n, size).out
                    children == RetimingClient_GetSegmentChildCount(subject, segment)
                IN  /\ Given(children)
                    /\ Given(RetimingClient_GetSegmentParentName(subject, segment, size))
                    /\ connected =>
                        Given(RetimingClient_GetSegmentStaticTranslation(subject, segment))
                    /\ \A k \in 0..children.out - 1 :
                        LET child == RetimingClient_GetSegmentChildName(subject, segment, k, size)
                            parent == RetimingClient_GetSegmentParentName(subject, child.out, size)
                        IN  Given(child) /\ (Given(parent) => parent.out \in {segment, <<>>})
=============================================================================
