---------------------------- MODULE MCObjectCache ----------------------------
(* The instance of ObjectCache that TLC checks. *)
EXTENDS ObjectCache, TLC

CONSTANTS v1, v2

\* The frame number, a dynamic type that is left out while it is unchanged, and two static
\* types, so that one can change without the other.
MCTypes == {"FrameInfo", "UnlabeledRecons", "SubjectInfo", "DeviceInfo"}

ValueSymmetry == Permutations({v1, v2})
=============================================================================
