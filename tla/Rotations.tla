----------------------------- MODULE Rotations -----------------------------
(***************************************************************************)
(* The matrices of ClientUtils, the conversions between the forms of a     *)
(* rotation, and VAxisMapping, on the rotations by quarter turns: there    *)
(* all of them are exact, and gimbal lock and half turns, where the        *)
(* conversions have branches of their own, are among them.                 *)
(*                                                                         *)
(* Angles are numbers of quarter turns. A quaternion is a multiple of the  *)
(* one the code computes, which divides by its length at the end.          *)
(***************************************************************************)
EXTENDS Integers, Sequences

Vectors == [1..3 -> Int]

Matrices == [1..3 -> Vectors]

Apply(M, v) == [i \in 1..3 |-> M[i][1] * v[1] + M[i][2] * v[2] + M[i][3] * v[3]]

Plus(v, w) == [i \in 1..3 |-> v[i] + w[i]]

Times(M, N) ==
    [i \in 1..3 |-> [j \in 1..3 |-> M[i][1] * N[1][j] + M[i][2] * N[2][j] + M[i][3] * N[3][j]]]

Transpose(M) == [i \in 1..3 |-> [j \in 1..3 |-> M[j][i]]]

CrossProduct(a, b) ==
    <<a[2] * b[3] - a[3] * b[2], a[3] * b[1] - a[1] * b[3], a[1] * b[2] - a[2] * b[1]>>

DotProduct(a, b) == a[1] * b[1] + a[2] * b[2] + a[3] * b[3]

Origin == <<0, 0, 0>>

UnitRotation == << <<1, 0, 0>>, <<0, 1, 0>>, <<0, 0, 1>> >>

---------------------------------------------------------------------------
(* Forms of a rotation.                                                    *)

Abs(n) == IF n < 0 THEN -n ELSE n

Sign(n) == IF n < 0 THEN -1 ELSE IF n > 0 THEN 1 ELSE 0

Cos(turns) == CASE turns % 4 = 0 -> 1 [] turns % 4 = 2 -> -1 [] OTHER -> 0

Sin(turns) == Cos(turns - 1)

\* atan2 for a point on an axis.
ATan2(y, x) == IF y > 0 THEN 1 ELSE IF y < 0 THEN -1 ELSE IF x < 0 THEN 2 ELSE 0

\* An axis with the angle for length; here the axis is one of the three.
HelicalToMatrix(aa) ==
    LET angle == Abs(aa[1]) + Abs(aa[2]) + Abs(aa[3])
        a == [i \in 1..3 |-> Sign(aa[i])]
        c == Cos(angle)
        s == Sin(angle)
    IN  IF angle = 0 THEN UnitRotation
        ELSE << <<c + (1 - c) * a[1] * a[1], (1 - c) * a[1] * a[2] - s * a[3],
                  (1 - c) * a[1] * a[3] + s * a[2]>>,
                <<(1 - c) * a[2] * a[1] + s * a[3], c + (1 - c) * a[2] * a[2],
                  (1 - c) * a[2] * a[3] - s * a[1]>>,
                <<(1 - c) * a[3] * a[1] - s * a[2], (1 - c) * a[3] * a[2] + s * a[1],
                  c + (1 - c) * a[3] * a[3]>> >>

\* The code multiplies each component by 1 / (2 * Root); here by Root instead, which leaves out a
\* positive factor that it divides by again.
MatrixToQuaternion(M) ==
    LET trace == M[1][1] + M[2][2] + M[3][3]
        larger == IF M[2][2] > M[1][1] THEN 2 ELSE 1
        i == IF M[3][3] > M[larger][larger] THEN 3 ELSE larger
        j == (i % 3) + 1
        k == (j % 3) + 1
    IN  IF trace > 0
        THEN <<M[3][2] - M[2][3], M[1][3] - M[3][1], M[2][1] - M[1][2], trace + 1>>
        ELSE [n \in 1..4 |->
                CASE n = 4 -> M[k][j] - M[j][k]
                  [] n = i -> M[i][i] - M[j][j] - M[k][k] + 1
                  [] n = j -> M[j][i] + M[i][j]
                  [] n = k -> M[k][i] + M[i][k]]

\* The angle of MatrixToHelical about the direction of the quaternion is two times
\* atan2( Len, Real ), so the helical vector says what the quaternion says.
MatrixToHelical(M) == MatrixToQuaternion(M)

\* Mutant: the branch of gimbal lock that looks the other way.
MatrixToEulerXYZUnlocked(M) ==
    IF Abs(M[1][3]) # 1
    THEN <<ATan2(-M[2][3], M[3][3]), Sign(M[1][3]), ATan2(-M[1][2], M[1][1])>>
    ELSE <<-ATan2(-M[2][1], -M[3][1]), Sign(M[1][3]), 0>>

MatrixToEulerXYZ(M) ==
    IF Abs(M[1][3]) # 1
    THEN <<ATan2(-M[2][3], M[3][3]), Sign(M[1][3]), ATan2(-M[1][2], M[1][1])>>
    ELSE IF M[1][3] > 0
    THEN <<-ATan2(-M[2][1], -M[3][1]), 1, 0>>
    ELSE <<-ATan2(M[2][1], M[3][1]), -1, 0>>

---------------------------------------------------------------------------
(* Axis mappings.                                                          *)

Directions == {"Forward", "Backward", "Left", "Right", "Up", "Down"}

ComponentSign(d) == IF d \in {"Forward", "Left", "Up"} THEN 1 ELSE -1

ComponentIndex(d) ==
    CASE d \in {"Forward", "Backward"} -> 1
      [] d \in {"Left", "Right"}       -> 2
      [] d \in {"Up", "Down"}          -> 3

DirectionVector(d) == [i \in 1..3 |-> IF i = ComponentIndex(d) THEN ComponentSign(d) ELSE 0]

\* SetAxisMapping( x, y, z ) of VAxisMapping: what it says of three axes, and its m_Transform.
AxisMappingResult(axes) ==
    IF {ComponentIndex(axes[i]) : i \in 1..3} # 1..3 THEN "CoLinearAxes"
    ELSE IF DirectionVector(axes[3])
                # CrossProduct(DirectionVector(axes[1]), DirectionVector(axes[2]))
    THEN "LeftHandedAxes"
    ELSE "Success"

Transform(axes) == [i \in 1..3 |-> DirectionVector(axes[i])]

YUpAxes == <<"Forward", "Up", "Right">>

ZUpAxes == <<"Forward", "Left", "Up">>

\* CopyAndTransformT of VClient and of VAxisMapping: v, given in the axes of a server, in the axes
\* requested. Data of a Z-up server is in the axes that m_Transform starts from.
CopyAndTransformT(axes, serverAxes, v) ==
    IF axes = serverAxes THEN v
    ELSE IF serverAxes = YUpAxes
    THEN Apply(Times(Transform(axes), Transpose(Transform(serverAxes))), v)
    ELSE Apply(Transform(axes), v)

\* Mutant: turned about without the way back.
CopyAndTransformROneSided(axes, serverAxes, R) ==
    IF axes = serverAxes THEN R ELSE Times(Transform(axes), R)

CopyAndTransformR(axes, serverAxes, R) ==
    LET T == Transform(axes)
        Q == Transform(serverAxes)
    IN  IF axes = serverAxes THEN R
        ELSE IF serverAxes = YUpAxes
        THEN Times(Times(Times(Times(T, Transpose(Q)), R), Q), Transpose(T))
        ELSE Times(Times(T, R), Transpose(T))
=============================================================================
