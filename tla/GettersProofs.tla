---------------------------- MODULE GettersProofs ----------------------------
(***************************************************************************)
(* What the getters of VClient guarantee for any frames, axes and rotations.*)
(***************************************************************************)
EXTENDS Getters, SequenceTheorems, WellFoundedInduction, FiniteSetTheorems,
        FunctionTheorems, TLAPS

-----------------------------------------------------------------------------
(* Axes.                                                                   *)

\* The directions as vectors.
LEMMA DirectionIsVector ==
  ASSUME NEW d \in Directions
  PROVE  /\ DOMAIN DirectionVector(d) = 1..3
         /\ \A i \in 1..3 : DirectionVector(d)[i] \in {-1, 0, 1}
BY DEF Directions, DirectionVector, ComponentSign, ComponentIndex

LEMMA ServerDirections ==
  /\ YUpAxes # ZUpAxes /\ YUpAxes \in [1..3 -> Directions] /\ ZUpAxes \in [1..3 -> Directions]
  /\ LET D(i) == DirectionVector(YUpAxes[i])
     IN  /\ D(1)[1] = 1 /\ D(1)[2] = 0 /\ D(1)[3] = 0
         /\ D(2)[1] = 0 /\ D(2)[2] = 0 /\ D(2)[3] = 1
         /\ D(3)[1] = 0 /\ D(3)[2] = -1 /\ D(3)[3] = 0
  /\ LET D(i) == DirectionVector(ZUpAxes[i])
     IN  /\ D(1)[1] = 1 /\ D(1)[2] = 0 /\ D(1)[3] = 0
         /\ D(2)[1] = 0 /\ D(2)[2] = 1 /\ D(2)[3] = 0
         /\ D(3)[1] = 0 /\ D(3)[2] = 0 /\ D(3)[3] = 1
<1>1. /\ YUpAxes[1] = "Forward" /\ YUpAxes[2] = "Up" /\ YUpAxes[3] = "Right"
      /\ ZUpAxes[1] = "Forward" /\ ZUpAxes[2] = "Left" /\ ZUpAxes[3] = "Up"
      /\ YUpAxes \in [1..3 -> Directions] /\ ZUpAxes \in [1..3 -> Directions]
  BY DEF YUpAxes, ZUpAxes, Directions
<1>2. YUpAxes # ZUpAxes
  BY <1>1
<1>3. \A d \in Directions : \A i \in 1..3 :
        DirectionVector(d)[i] = IF i = ComponentIndex(d) THEN ComponentSign(d) ELSE 0
  BY DEF DirectionVector
<1>4. /\ ComponentIndex("Forward") = 1 /\ ComponentSign("Forward") = 1
      /\ ComponentIndex("Left") = 2 /\ ComponentSign("Left") = 1
      /\ ComponentIndex("Right") = 2 /\ ComponentSign("Right") = -1
      /\ ComponentIndex("Up") = 3 /\ ComponentSign("Up") = 1
  BY DEF ComponentIndex, ComponentSign
<1>5. {"Forward", "Left", "Right", "Up"} \subseteq Directions
  BY DEF Directions
<1>6. QED
  BY <1>1, <1>2, <1>3, <1>4, <1>5

\* The element of a product.
LEMMA TimesAt ==
  ASSUME NEW M, NEW N, NEW i \in 1..3, NEW j \in 1..3
  PROVE  Times(M, N)[i][j] = M[i][1] * N[1][j] + M[i][2] * N[2][j] + M[i][3] * N[3][j]
BY DEF Times

\* The requested axes in the axes of a Y-up server.
LEMMA RowsTurned ==
  ASSUME NEW axes \in [1..3 -> Directions], NEW i \in 1..3
  PROVE  LET P == Times(Transform(axes), Transpose(Transform(YUpAxes)))
             d == DirectionVector(axes[i])
         IN  P[i][1] = d[1] /\ P[i][2] = d[3] /\ P[i][3] = -d[2]
<1> DEFINE M == Transform(axes)
           N == Transpose(Transform(YUpAxes))
           P == Times(M, N)
           d == DirectionVector(axes[i])
<1>1. \A k, j \in 1..3 : N[k][j] = DirectionVector(YUpAxes[j])[k]
  BY DEF Transpose, Transform
<1>2. M[i] = d
  BY DEF Transform
<1>3. \A j \in 1..3 : P[i][j] = M[i][1] * N[1][j] + M[i][2] * N[2][j] + M[i][3] * N[3][j]
  BY TimesAt
<1>4. d[1] \in Int /\ d[2] \in Int /\ d[3] \in Int
  BY DirectionIsVector
<1> HIDE DEF P, M, N
<1>5. \A j \in 1..3 : P[i][j] = d[1] * N[1][j] + d[2] * N[2][j] + d[3] * N[3][j]
  BY <1>2, <1>3
<1>6. /\ N[1][1] = 1 /\ N[1][2] = 0 /\ N[1][3] = 0
      /\ N[2][1] = 0 /\ N[2][2] = 0 /\ N[2][3] = -1
      /\ N[3][1] = 0 /\ N[3][2] = 1 /\ N[3][3] = 0
  BY <1>1, ServerDirections
<1> HIDE DEF d
<1>7. P[i][1] = d[1] /\ P[i][2] = d[3] /\ P[i][3] = -d[2]
  BY <1>4, <1>5, <1>6
<1>8. QED
  BY <1>7 DEF P, M, N, d

\* Vectors in the directions forward, left and up, given in the axes of a server.
InWorldOf(serverAxes, v) == IF serverAxes = YUpAxes THEN <<v[1], -v[3], v[2]>> ELSE v

LEMMA TranslationsAlong ==
  ASSUME NEW axes \in [1..3 -> Directions], NEW server \in {YUpAxes, ZUpAxes}, NEW v \in Vectors
  PROVE  CopyAndTransformT(axes, server, v)
            = [i \in 1..3 |-> DotProduct(InWorldOf(server, v), DirectionVector(axes[i]))]
<1> DEFINE w == InWorldOf(server, v)
           D(i) == DirectionVector(axes[i])
<1>1. v[1] \in Int /\ v[2] \in Int /\ v[3] \in Int
  BY DEF Vectors
<1>2. \A i \in 1..3 : D(i)[1] \in Int /\ D(i)[2] \in Int /\ D(i)[3] \in Int
  BY DirectionIsVector
<1>3. CASE axes = server
  <2>1. CopyAndTransformT(axes, server, v) = v
    BY <1>3 DEF CopyAndTransformT
  <2>2. \A i \in 1..3 : v[i] = DotProduct(w, D(i))
    <3>1. CASE server = YUpAxes
      <4>1. w[1] = v[1] /\ w[2] = -v[3] /\ w[3] = v[2]
        BY <3>1 DEF InWorldOf
      <4> HIDE DEF w
      <4>2. QED
        BY <1>1, <1>3, <3>1, <4>1, ServerDirections DEF DotProduct
    <3>2. CASE server = ZUpAxes
      <4>1. w = v
        BY <3>2, ServerDirections DEF InWorldOf
      <4> HIDE DEF w
      <4>2. QED
        BY <1>1, <1>3, <3>2, <4>1, ServerDirections DEF DotProduct
    <3>3. QED
      BY <3>1, <3>2
  <2>3. QED
    BY <2>1, <2>2 DEF Vectors
<1>4. CASE axes # server /\ server = YUpAxes
  <2> DEFINE P == Times(Transform(axes), Transpose(Transform(server)))
  <2>1. CopyAndTransformT(axes, server, v) = Apply(P, v)
    BY <1>4 DEF CopyAndTransformT
  <2>2. \A i \in 1..3 : P[i][1] = D(i)[1] /\ P[i][2] = D(i)[3] /\ P[i][3] = -D(i)[2]
    BY <1>4, RowsTurned
  <2>3. w[1] = v[1] /\ w[2] = -v[3] /\ w[3] = v[2]
    BY <1>4 DEF InWorldOf
  <2> HIDE DEF P, w
  <2>4. \A i \in 1..3 : P[i][1] * v[1] + P[i][2] * v[2] + P[i][3] * v[3] = DotProduct(w, D(i))
    <3> TAKE i \in 1..3
    <3>1. PICK a \in Int, b \in Int, c \in Int : D(i)[1] = a /\ D(i)[2] = b /\ D(i)[3] = c
      BY <1>2
    <3>2. PICK x \in Int, y \in Int, z \in Int : v[1] = x /\ v[2] = y /\ v[3] = z
      BY <1>1
    <3>3. a * x + c * y + (-b) * z = x * a + (-z) * b + y * c
      OBVIOUS
    <3>4. QED
      BY <2>2, <2>3, <3>1, <3>2, <3>3 DEF DotProduct
  <2>5. QED
    BY <2>1, <2>4 DEF Apply, w
<1>5. CASE axes # server /\ server = ZUpAxes
  <2>1. CopyAndTransformT(axes, server, v) = Apply(Transform(axes), v) /\ w = v
    BY <1>5, ServerDirections DEF CopyAndTransformT, InWorldOf
  <2>2. \A i \in 1..3 : Transform(axes)[i] = D(i)
    BY DEF Transform
  <2>3. \A i \in 1..3 : D(i)[1] * v[1] + D(i)[2] * v[2] + D(i)[3] * v[3] = DotProduct(v, D(i))
    BY <1>1, <1>2 DEF DotProduct
  <2>4. QED
    BY <2>1, <2>2, <2>3 DEF Apply
<1>6. QED
  BY <1>3, <1>4, <1>5

\* A direction, given in forward, left and up, in the axes of a server.
InAxesOf(serverAxes, d) == IF serverAxes = YUpAxes THEN <<d[1], d[3], -d[2]>> ELSE d

\* Both ways of turning a rotation come to the same sum.
LEMMA SameSum ==
  ASSUME NEW a1 \in Int, NEW a2 \in Int, NEW a3 \in Int,
         NEW b1 \in Int, NEW b2 \in Int, NEW b3 \in Int,
         NEW r11 \in Int, NEW r12 \in Int, NEW r13 \in Int,
         NEW r21 \in Int, NEW r22 \in Int, NEW r23 \in Int,
         NEW r31 \in Int, NEW r32 \in Int, NEW r33 \in Int
  PROVE  (a1 * r11 + a2 * r21 + a3 * r31) * b1 + (a1 * r12 + a2 * r22 + a3 * r32) * b2
            + (a1 * r13 + a2 * r23 + a3 * r33) * b3
         = (r11 * b1 + r12 * b2 + r13 * b3) * a1 + (r21 * b1 + r22 * b2 + r23 * b3) * a2
            + (r31 * b1 + r32 * b2 + r33 * b3) * a3
OBVIOUS

\* A rotation that is handed out turns the requested axes as the rotation turns the directions
\* they stand for.
LEMMA RotationsAlong ==
  ASSUME NEW axes \in [1..3 -> Directions], NEW server \in {YUpAxes, ZUpAxes},
         NEW R \in Matrices, NEW i \in 1..3, NEW j \in 1..3
  PROVE  CopyAndTransformR(axes, server, R)[i][j]
            = DotProduct(InWorldOf(server,
                                   Apply(R, InAxesOf(server, DirectionVector(axes[j])))),
                         DirectionVector(axes[i]))
<1> DEFINE T == Transform(axes)
           a == DirectionVector(axes[i])
           b == DirectionVector(axes[j])
           w == Apply(R, InAxesOf(server, b))
           out == CopyAndTransformR(axes, server, R)
<1>1. /\ a[1] \in Int /\ a[2] \in Int /\ a[3] \in Int
      /\ b[1] \in Int /\ b[2] \in Int /\ b[3] \in Int
  BY DirectionIsVector
<1>2. \A k, l \in 1..3 : R[k][l] \in Int
  BY DEF Matrices, Vectors
<1>3. T[i] = a /\ T[j] = b /\ \A k \in 1..3 : Transpose(T)[k][j] = b[k]
  BY DEF Transform, Transpose
<1>4. \A k \in 1..3 : w[k] = R[k][1] * InAxesOf(server, b)[1] + R[k][2] * InAxesOf(server, b)[2]
                                + R[k][3] * InAxesOf(server, b)[3]
  BY DEF Apply
<1>5. CASE axes # server /\ server = YUpAxes
  <2> DEFINE P == Times(T, Transpose(Transform(server)))
             PR == Times(P, R)
             Q == Transform(server)
             PRQ == Times(PR, Q)
  <2>1. out = Times(PRQ, Transpose(T))
    BY <1>5 DEF CopyAndTransformR
  <2>2. out[i][j] = PRQ[i][1] * Transpose(T)[1][j] + PRQ[i][2] * Transpose(T)[2][j]
                        + PRQ[i][3] * Transpose(T)[3][j]
    BY <2>1, TimesAt
  <2>3. \A l \in 1..3 : PRQ[i][l] = PR[i][1] * Q[1][l] + PR[i][2] * Q[2][l] + PR[i][3] * Q[3][l]
    BY TimesAt
  <2>4. \A l \in 1..3 : PR[i][l] = P[i][1] * R[1][l] + P[i][2] * R[2][l] + P[i][3] * R[3][l]
    BY TimesAt
  <2>5. P[i][1] = a[1] /\ P[i][2] = a[3] /\ P[i][3] = -a[2]
    BY <1>5, RowsTurned
  <2>6. /\ Q[1][1] = 1 /\ Q[1][2] = 0 /\ Q[1][3] = 0
        /\ Q[2][1] = 0 /\ Q[2][2] = 0 /\ Q[2][3] = 1
        /\ Q[3][1] = 0 /\ Q[3][2] = -1 /\ Q[3][3] = 0
    BY <1>5, ServerDirections DEF Transform
  <2>7. /\ w[1] = R[1][1] * b[1] + R[1][2] * b[3] + R[1][3] * (-b[2])
        /\ w[2] = R[2][1] * b[1] + R[2][2] * b[3] + R[2][3] * (-b[2])
        /\ w[3] = R[3][1] * b[1] + R[3][2] * b[3] + R[3][3] * (-b[2])
    BY <1>4, <1>5 DEF InAxesOf
  <2>8. DotProduct(InWorldOf(server, w), a) = w[1] * a[1] + (-w[3]) * a[2] + w[2] * a[3]
    BY <1>5 DEF InWorldOf, DotProduct
  <2> HIDE DEF out, P, PR, Q, PRQ, T, w, a, b
  <2>9. \A l \in 1..3 : PR[i][l] \in Int
    BY <1>1, <1>2, <2>4, <2>5
  <2>10. PRQ[i][1] = PR[i][1] /\ PRQ[i][2] = -PR[i][3] /\ PRQ[i][3] = PR[i][2]
    BY <2>3, <2>6, <2>9
  <2>11. out[i][j] = PR[i][1] * b[1] + (-PR[i][3]) * b[2] + PR[i][2] * b[3]
    BY <1>3, <2>2, <2>10
  <2>12. \A l \in 1..3 : PR[i][l] = a[1] * R[1][l] + a[3] * R[2][l] + (-a[2]) * R[3][l]
    BY <2>4, <2>5
  <2>13. (a[1] * R[1][1] + a[3] * R[2][1] + (-a[2]) * R[3][1]) * b[1]
            + (a[1] * R[1][2] + a[3] * R[2][2] + (-a[2]) * R[3][2]) * b[3]
            + (a[1] * R[1][3] + a[3] * R[2][3] + (-a[2]) * R[3][3]) * (-b[2])
         = (R[1][1] * b[1] + R[1][2] * b[3] + R[1][3] * (-b[2])) * a[1]
            + (R[2][1] * b[1] + R[2][2] * b[3] + R[2][3] * (-b[2])) * a[3]
            + (R[3][1] * b[1] + R[3][2] * b[3] + R[3][3] * (-b[2])) * (-a[2])
    <3>1. PICK a1 \in Int, a2 \in Int, a3 \in Int, m \in Int :
            a1 = a[1] /\ a2 = a[3] /\ a3 = -m /\ m = a[2]
      BY <1>1
    <3>2. PICK b1 \in Int, b2 \in Int, b3 \in Int, n \in Int :
            b1 = b[1] /\ b2 = b[3] /\ b3 = -n /\ n = b[2]
      BY <1>1
    <3>3. a3 = -a[2] /\ b3 = -b[2]
      BY <3>1, <3>2
    <3>4. PICK r11 \in Int, r12 \in Int, r13 \in Int :
            r11 = R[1][1] /\ r12 = R[1][2] /\ r13 = R[1][3]
      BY <1>2
    <3>5. PICK r21 \in Int, r22 \in Int, r23 \in Int :
            r21 = R[2][1] /\ r22 = R[2][2] /\ r23 = R[2][3]
      BY <1>2
    <3>6. PICK r31 \in Int, r32 \in Int, r33 \in Int :
            r31 = R[3][1] /\ r32 = R[3][2] /\ r33 = R[3][3]
      BY <1>2
    <3>7. (a1 * r11 + a2 * r21 + a3 * r31) * b1 + (a1 * r12 + a2 * r22 + a3 * r32) * b2
            + (a1 * r13 + a2 * r23 + a3 * r33) * b3
         = (r11 * b1 + r12 * b2 + r13 * b3) * a1 + (r21 * b1 + r22 * b2 + r23 * b3) * a2
            + (r31 * b1 + r32 * b2 + r33 * b3) * a3
      BY SameSum
    <3>8. QED
      BY <3>1, <3>2, <3>3, <3>4, <3>5, <3>6, <3>7
  <2>14. out[i][j] = w[1] * a[1] + (-w[3]) * a[2] + w[2] * a[3]
    <3>1. PICK p1 \in Int, p2 \in Int, p3 \in Int :
            p1 = PR[i][1] /\ p2 = PR[i][2] /\ p3 = PR[i][3]
      BY <2>9
    <3>2. PICK w1 \in Int, w2 \in Int, w3 \in Int : w1 = w[1] /\ w2 = w[2] /\ w3 = w[3]
      BY <1>1, <1>2, <2>7
    <3>3. p1 * b[1] + p2 * b[3] + p3 * (-b[2]) = w1 * a[1] + w2 * a[3] + w3 * (-a[2])
      BY <2>7, <2>12, <2>13, <3>1, <3>2
    <3>4. PICK b1 \in Int, b2 \in Int, b3 \in Int : b1 = b[1] /\ b2 = b[2] /\ b3 = b[3]
      BY <1>1
    <3>5. PICK a1 \in Int, a2 \in Int, a3 \in Int : a1 = a[1] /\ a2 = a[2] /\ a3 = a[3]
      BY <1>1
    <3>6. p1 * b1 + (-p3) * b2 + p2 * b3 = p1 * b1 + p2 * b3 + p3 * (-b2)
      OBVIOUS
    <3>7. w1 * a1 + (-w3) * a2 + w2 * a3 = w1 * a1 + w2 * a3 + w3 * (-a2)
      OBVIOUS
    <3>8. QED
      BY <2>11, <3>1, <3>2, <3>3, <3>4, <3>5, <3>6, <3>7
  <2>15. QED
    BY <2>8, <2>14 DEF out, w, a, b
<1>6. CASE axes # server /\ server = ZUpAxes
  <2> DEFINE TR == Times(T, R)
  <2>1. out = Times(TR, Transpose(T))
    BY <1>6, ServerDirections DEF CopyAndTransformR
  <2>2. out[i][j] = TR[i][1] * Transpose(T)[1][j] + TR[i][2] * Transpose(T)[2][j]
                        + TR[i][3] * Transpose(T)[3][j]
    BY <2>1, TimesAt
  <2>3. \A l \in 1..3 : TR[i][l] = T[i][1] * R[1][l] + T[i][2] * R[2][l] + T[i][3] * R[3][l]
    BY TimesAt
  <2>4. \A k \in 1..3 : w[k] = R[k][1] * b[1] + R[k][2] * b[2] + R[k][3] * b[3]
    BY <1>4, <1>6, ServerDirections DEF InAxesOf
  <2>5. DotProduct(InWorldOf(server, w), a) = w[1] * a[1] + w[2] * a[2] + w[3] * a[3]
    BY <1>6, ServerDirections DEF InWorldOf, DotProduct
  <2> HIDE DEF out, TR, T, w, a, b
  <2>6. out[i][j] = TR[i][1] * b[1] + TR[i][2] * b[2] + TR[i][3] * b[3]
    BY <1>3, <2>2
  <2>7. \A l \in 1..3 : TR[i][l] = a[1] * R[1][l] + a[2] * R[2][l] + a[3] * R[3][l]
    BY <1>3, <2>3
  <2>8. (a[1] * R[1][1] + a[2] * R[2][1] + a[3] * R[3][1]) * b[1]
            + (a[1] * R[1][2] + a[2] * R[2][2] + a[3] * R[3][2]) * b[2]
            + (a[1] * R[1][3] + a[2] * R[2][3] + a[3] * R[3][3]) * b[3]
         = (R[1][1] * b[1] + R[1][2] * b[2] + R[1][3] * b[3]) * a[1]
            + (R[2][1] * b[1] + R[2][2] * b[2] + R[2][3] * b[3]) * a[2]
            + (R[3][1] * b[1] + R[3][2] * b[2] + R[3][3] * b[3]) * a[3]
    BY <1>1, <1>2, SameSum
  <2>9. out[i][j] = w[1] * a[1] + w[2] * a[2] + w[3] * a[3]
    BY <2>4, <2>6, <2>7, <2>8
  <2>10. QED
    BY <2>5, <2>9 DEF out, w, a, b
<1>7. CASE axes = server
  <2>1. out[i][j] = R[i][j]
    BY <1>7 DEF CopyAndTransformR
  <2> HIDE DEF out
  <2>2. CASE server = YUpAxes
    <3>1. /\ w[1] = R[1][1] * b[1] + R[1][2] * b[3] + R[1][3] * (-b[2])
          /\ w[2] = R[2][1] * b[1] + R[2][2] * b[3] + R[2][3] * (-b[2])
          /\ w[3] = R[3][1] * b[1] + R[3][2] * b[3] + R[3][3] * (-b[2])
      BY <1>4, <2>2 DEF InAxesOf
    <3>2. DotProduct(InWorldOf(server, w), a) = w[1] * a[1] + (-w[3]) * a[2] + w[2] * a[3]
      BY <2>2 DEF InWorldOf, DotProduct
    <3>3. /\ i = 1 => a[1] = 1 /\ a[2] = 0 /\ a[3] = 0
          /\ i = 2 => a[1] = 0 /\ a[2] = 0 /\ a[3] = 1
          /\ i = 3 => a[1] = 0 /\ a[2] = -1 /\ a[3] = 0
          /\ j = 1 => b[1] = 1 /\ b[2] = 0 /\ b[3] = 0
          /\ j = 2 => b[1] = 0 /\ b[2] = 0 /\ b[3] = 1
          /\ j = 3 => b[1] = 0 /\ b[2] = -1 /\ b[3] = 0
      BY <1>7, <2>2, ServerDirections
    <3> HIDE DEF w, a, b
    <3>4. w[1] = R[1][j] /\ w[2] = R[2][j] /\ w[3] = R[3][j]
      BY <1>2, <3>1, <3>3
    <3>5. w[1] * a[1] + (-w[3]) * a[2] + w[2] * a[3] = R[i][j]
      <4>1. PICK w1 \in Int, w2 \in Int, w3 \in Int : w1 = w[1] /\ w2 = w[2] /\ w3 = w[3]
        BY <1>2, <3>4
      <4>2. CASE i = 1
        <5>1. w1 * 1 + (-w3) * 0 + w2 * 0 = w1
          OBVIOUS
        <5>2. QED
          BY <3>3, <3>4, <4>1, <4>2, <5>1
      <4>3. CASE i = 2
        <5>1. w1 * 0 + (-w3) * 0 + w2 * 1 = w2
          OBVIOUS
        <5>2. QED
          BY <3>3, <3>4, <4>1, <4>3, <5>1
      <4>4. CASE i = 3
        <5>1. w1 * 0 + (-w3) * (-1) + w2 * 0 = w3
          OBVIOUS
        <5>2. QED
          BY <3>3, <3>4, <4>1, <4>4, <5>1
      <4>5. QED
        BY <4>2, <4>3, <4>4
    <3>6. QED
      BY <2>1, <3>2, <3>5 DEF out, w, a, b
  <2>3. CASE server = ZUpAxes
    <3>1. \A k \in 1..3 : w[k] = R[k][1] * b[1] + R[k][2] * b[2] + R[k][3] * b[3]
      BY <1>4, <2>3, ServerDirections DEF InAxesOf
    <3>2. DotProduct(InWorldOf(server, w), a) = w[1] * a[1] + w[2] * a[2] + w[3] * a[3]
      BY <2>3, ServerDirections DEF InWorldOf, DotProduct
    <3>3. /\ i = 1 => a[1] = 1 /\ a[2] = 0 /\ a[3] = 0
          /\ i = 2 => a[1] = 0 /\ a[2] = 1 /\ a[3] = 0
          /\ i = 3 => a[1] = 0 /\ a[2] = 0 /\ a[3] = 1
          /\ j = 1 => b[1] = 1 /\ b[2] = 0 /\ b[3] = 0
          /\ j = 2 => b[1] = 0 /\ b[2] = 1 /\ b[3] = 0
          /\ j = 3 => b[1] = 0 /\ b[2] = 0 /\ b[3] = 1
      BY <1>7, <2>3, ServerDirections
    <3> HIDE DEF w, a, b
    <3>4. w[1] = R[1][j] /\ w[2] = R[2][j] /\ w[3] = R[3][j]
      BY <1>2, <3>1, <3>3
    <3>5. w[1] * a[1] + w[2] * a[2] + w[3] * a[3] = R[i][j]
      BY <1>2, <3>3, <3>4
    <3>6. QED
      BY <2>1, <3>2, <3>5 DEF out, w, a, b
  <2>4. QED
    BY <2>2, <2>3
<1>8. QED
  BY <1>5, <1>6, <1>7

-----------------------------------------------------------------------------
(* Searching.                                                              *)

LEMMA LeastNatural ==
  ASSUME NEW T, T \subseteq Nat, T # {}
  PROVE  \E m \in T : \A n \in T : m <= n
<1>1. PICK m \in T : \A n \in T : ~(<<n, m>> \in OpToRel(<, Nat))
  BY NatLessThanWellFounded, WFMin
<1>2. \A n \in T : ~(n < m)
  BY <1>1 DEF OpToRel
<1>3. \A n \in T : m <= n
  BY <1>2
<1>4. QED
  BY <1>3

\* What is searched for is found at the first place where it is.
LEMMA FirstPlace ==
  ASSUME NEW n \in Nat, NEW T, T \subseteq 1..n, T # {}
  PROVE  Min(T) \in T /\ \A m \in T : Min(T) <= m
<1>1. PICK m \in T : \A k \in T : m <= k
  <2>1. T \subseteq Nat
    OBVIOUS
  <2>2. QED
    BY <2>1, LeastNatural
<1>2. QED
  BY <1>1 DEF Min

-----------------------------------------------------------------------------
(* Induction, and what is found by folding.                                *)

\* A set with 0, and with n + 1 when it has n, has all natural numbers.
LEMMA SetInduction ==
  ASSUME NEW T, 0 \in T, \A n \in Nat : n \in T => n + 1 \in T
  PROVE  Nat \subseteq T
<1> SUFFICES ASSUME Nat \ T # {} PROVE FALSE
  OBVIOUS
<1>1. PICK m \in Nat \ T : \A n \in Nat \ T : m <= n
  BY LeastNatural
<1>2. m - 1 \in Nat
  BY <1>1
<1>3. m - 1 \in T
  BY <1>1, <1>2
<1>4. QED
  BY <1>1, <1>2, <1>3

\* A set of numbers up to n has a greatest element.
LEMMA GreatestUpTo ==
  ASSUME NEW n \in Nat, NEW T, T \subseteq 1..n, T # {}
  PROVE  Max(T) \in T /\ \A m \in T : m <= Max(T)
<1> DEFINE D == {n - m : m \in T}
<1>1. D \subseteq Nat /\ D # {}
  <2>1. \A m \in T : n - m \in Nat
    OBVIOUS
  <2>2. QED
    BY <2>1
<1>2. PICK d \in D : \A e \in D : d <= e
  BY <1>1, LeastNatural
<1>3. PICK x \in T : d = n - x
  BY <1>2
<1>4. \A y \in T : n - y \in D
  OBVIOUS
<1>5. \A y \in T : d <= n - y
  BY <1>2, <1>4
<1>6. \A y \in T : x >= y
  BY <1>3, <1>5
<1>7. QED
  BY <1>6 DEF Max

\* One step of the search for children.
WithChild(found, child, id) == IF child.m_ParentID = id THEN Append(found, child) ELSE found

\* The search among the segments at some places.
Found(segments, id, places, found) ==
    IF places = {} THEN <<>> ELSE WithChild(found, segments[Max(places)], id)

\* The search through the first segments has a result for all places among them.
Finds(f, segments, id, n) ==
    f = [places \in SUBSET (1..n) |-> Found(segments, id, places, f[places \ {Max(places)}])]

LEMMA FindsExists ==
  ASSUME NEW segments, NEW id, NEW n \in Nat
  PROVE  \E f : Finds(f, segments, id, n)
<1> DEFINE T == {m \in Nat : \E f : Finds(f, segments, id, m)}
<1>1. 0 \in T
  <2> DEFINE f == [places \in SUBSET (1..0) |-> <<>>]
  <2>1. \A places \in SUBSET (1..0) : places = {}
    OBVIOUS
  <2>2. Finds(f, segments, id, 0)
    BY <2>1 DEF Finds, Found
  <2>3. QED
    BY <2>2
<1>2. ASSUME NEW m \in Nat, m \in T PROVE m + 1 \in T
  <2>1. PICK f : Finds(f, segments, id, m)
    BY <1>2
  <2> DEFINE g == [places \in SUBSET (1..m + 1) |->
                    IF m + 1 \in places
                    THEN Found(segments, id, places, f[places \ {m + 1}]) ELSE f[places]]
  <2>2. ASSUME NEW places \in SUBSET (1..m + 1)
        PROVE  g[places] = Found(segments, id, places, g[places \ {Max(places)}])
    <3>1. CASE m + 1 \in places
      <4>1. Max(places) \in places /\ \A k \in places : k <= Max(places)
        <5>1. m + 1 \in Nat /\ places \subseteq 1..(m + 1) /\ places # {}
          BY <3>1
        <5>2. QED
          BY <5>1, GreatestUpTo
      <4>2. Max(places) = m + 1
        <5>1. Max(places) \in 1..m + 1 /\ m + 1 <= Max(places)
          BY <3>1, <4>1
        <5>2. QED
          BY <5>1
      <4>3. /\ places \ {m + 1} \in SUBSET (1..m + 1) /\ m + 1 \notin places \ {m + 1}
        OBVIOUS
      <4>4. g[places \ {m + 1}] = f[places \ {m + 1}]
        BY <4>3
      <4>5. QED
        BY <3>1, <4>2, <4>4
    <3>2. CASE m + 1 \notin places
      <4>1. places \in SUBSET (1..m)
        BY <3>2
      <4>2. f[places] = Found(segments, id, places, f[places \ {Max(places)}])
        BY <2>1, <4>1 DEF Finds
      <4>3. places \ {Max(places)} \in SUBSET (1..m + 1) /\ m + 1 \notin places \ {Max(places)}
        BY <3>2
      <4>4. g[places \ {Max(places)}] = f[places \ {Max(places)}] /\ g[places] = f[places]
        BY <3>2, <4>3
      <4>5. QED
        BY <4>2, <4>4
    <3>3. QED
      BY <3>1, <3>2
  <2> HIDE DEF g
  <2>3. g = [places \in SUBSET (1..m + 1) |->
                Found(segments, id, places, g[places \ {Max(places)}])]
    BY <2>2 DEF g
  <2>4. Finds(g, segments, id, m + 1)
    BY <2>3 DEF Finds
  <2>5. QED
    BY <2>4
<1> HIDE DEF T
<1>3. n \in T
  BY <1>1, <1>2, SetInduction
<1>4. QED
  BY <1>3 DEF T

\* Children are segments of the subject with the right parent.
LEMMA ChildrenAre ==
  ASSUME NEW s, IsSequence(s.m_Segments), NEW g
  PROVE  Children(s, g) \in Seq({child \in ToSet(s.m_Segments) : child.m_ParentID = g.m_SegmentID})
<1> DEFINE segments == s.m_Segments
           id == g.m_SegmentID
           C == {child \in ToSet(segments) : child.m_ParentID = id}
           n == Len(segments)
           f == CHOOSE f : Finds(f, segments, id, n)
<1>1. n \in Nat /\ DOMAIN segments = 1..n
  BY DEF IsSequence
<1>2. Finds(f, segments, id, n)
  BY <1>1, FindsExists
<1>3. Children(s, g) = f[1..n]
  BY <1>1 DEF Children, FoldLeft, MapThenFoldSet, Finds, Found, WithChild
<1> HIDE DEF f, C
<1> DEFINE T == {m \in Nat : m <= n => \A places \in SUBSET (1..m) : f[places] \in Seq(C)}
<1>4. 0 \in T
  <2>1. \A places \in SUBSET (1..0) : places = {} /\ places \in SUBSET (1..n)
    OBVIOUS
  <2>2. \A places \in SUBSET (1..0) : f[places] = <<>>
    BY <1>2, <2>1 DEF Finds, Found
  <2>3. <<>> \in Seq(C)
    OBVIOUS
  <2>4. QED
    BY <2>2, <2>3
<1>5. ASSUME NEW m \in Nat, m \in T PROVE m + 1 \in T
  <2> SUFFICES ASSUME m + 1 <= n, NEW places \in SUBSET (1..m + 1) PROVE f[places] \in Seq(C)
    OBVIOUS
  <2> DEFINE last == Max(places)
             child == segments[last]
  <2>1. places \in SUBSET (1..n)
    BY <1>1
  <2>2. f[places] = Found(segments, id, places, f[places \ {last}])
    BY <1>2, <2>1 DEF Finds
  <2>3. CASE places = {}
    BY <2>2, <2>3 DEF Found
  <2>4. CASE places # {}
    <3>1. last \in places /\ \A k \in places : k <= last
      <4>1. m + 1 \in Nat /\ places \subseteq 1..(m + 1)
        OBVIOUS
      <4>2. QED
        BY <2>4, <4>1, GreatestUpTo
    <3> HIDE DEF last
    <3>2. places \ {last} \in SUBSET (1..m)
      BY <3>1
    <3>3. f[places \ {last}] \in Seq(C)
      BY <1>1, <1>5, <3>2
    <3>4. child \in ToSet(segments)
      BY <1>1, <2>1, <3>1 DEF ToSet
    <3>5. f[places] = WithChild(f[places \ {last}], child, id)
      BY <2>2, <2>4 DEF Found, last
    <3> HIDE DEF child
    <3>6. child.m_ParentID = id => child \in C
      BY <3>4 DEF C
    <3>7. QED
      BY <3>3, <3>5, <3>6 DEF WithChild
  <2>5. QED
    BY <2>3, <2>4
<1> HIDE DEF T
<1>6. n \in T
  BY <1>1, <1>4, <1>5, SetInduction
<1>7. f[1..n] \in Seq(C)
  BY <1>1, <1>6 DEF T
<1>8. QED
  BY <1>3, <1>7 DEF C

-----------------------------------------------------------------------------
(* Matrices.                                                               *)

LEMMA TimesIsMatrix ==
  ASSUME NEW M \in Matrices, NEW N \in Matrices
  PROVE  Times(M, N) \in Matrices
<1>1. \A i, j \in 1..3 : M[i][j] \in Int /\ N[i][j] \in Int
  BY DEF Matrices, Vectors
<1>2. \A i, j \in 1..3 :
        M[i][1] * N[1][j] + M[i][2] * N[2][j] + M[i][3] * N[3][j] \in Int
  BY <1>1
<1>3. QED
  BY <1>2 DEF Times, Matrices, Vectors

LEMMA ApplyIsVector ==
  ASSUME NEW M \in Matrices, NEW v \in Vectors
  PROVE  Apply(M, v) \in Vectors
<1>1. \A i, j \in 1..3 : M[i][j] \in Int /\ v[i] \in Int
  BY DEF Matrices, Vectors
<1>2. \A i \in 1..3 : M[i][1] * v[1] + M[i][2] * v[2] + M[i][3] * v[3] \in Int
  BY <1>1
<1>3. QED
  BY <1>2 DEF Apply, Vectors

LEMMA TransposeIsMatrix ==
  ASSUME NEW M \in Matrices
  PROVE  Transpose(M) \in Matrices /\ \A i, j \in 1..3 : Transpose(M)[i][j] = M[j][i]
BY DEF Transpose, Matrices, Vectors

LEMMA SameMatrix ==
  ASSUME NEW M \in Matrices, NEW N \in Matrices, \A i, j \in 1..3 : M[i][j] = N[i][j]
  PROVE  M = N
BY DEF Matrices, Vectors

LEMMA SameSumOfRows ==
  ASSUME NEW a \in Vectors, NEW B \in Matrices, NEW c \in Vectors
  PROVE  (a[1] * B[1][1] + a[2] * B[2][1] + a[3] * B[3][1]) * c[1]
            + (a[1] * B[1][2] + a[2] * B[2][2] + a[3] * B[3][2]) * c[2]
            + (a[1] * B[1][3] + a[2] * B[2][3] + a[3] * B[3][3]) * c[3]
         = a[1] * (B[1][1] * c[1] + B[1][2] * c[2] + B[1][3] * c[3])
            + a[2] * (B[2][1] * c[1] + B[2][2] * c[2] + B[2][3] * c[3])
            + a[3] * (B[3][1] * c[1] + B[3][2] * c[2] + B[3][3] * c[3])
<1>1. \A i, j \in 1..3 : a[i] \in Int /\ B[i][j] \in Int /\ c[j] \in Int
  BY DEF Matrices, Vectors
<1>2. PICK a1 \in Int, a2 \in Int, a3 \in Int : a1 = a[1] /\ a2 = a[2] /\ a3 = a[3]
  BY <1>1
<1>3. PICK c1 \in Int, c2 \in Int, c3 \in Int : c1 = c[1] /\ c2 = c[2] /\ c3 = c[3]
  BY <1>1
<1>4. PICK r11 \in Int, r12 \in Int, r13 \in Int :
        r11 = B[1][1] /\ r12 = B[1][2] /\ r13 = B[1][3]
  BY <1>1
<1>5. PICK r21 \in Int, r22 \in Int, r23 \in Int :
        r21 = B[2][1] /\ r22 = B[2][2] /\ r23 = B[2][3]
  BY <1>1
<1>6. PICK r31 \in Int, r32 \in Int, r33 \in Int :
        r31 = B[3][1] /\ r32 = B[3][2] /\ r33 = B[3][3]
  BY <1>1
<1>7. (a1 * r11 + a2 * r21 + a3 * r31) * c1 + (a1 * r12 + a2 * r22 + a3 * r32) * c2
        + (a1 * r13 + a2 * r23 + a3 * r33) * c3
      = a1 * (r11 * c1 + r12 * c2 + r13 * c3) + a2 * (r21 * c1 + r22 * c2 + r23 * c3)
        + a3 * (r31 * c1 + r32 * c2 + r33 * c3)
  OBVIOUS
<1>8. QED
  BY <1>2, <1>3, <1>4, <1>5, <1>6, <1>7

LEMMA TimesAssociates ==
  ASSUME NEW M \in Matrices, NEW N \in Matrices, NEW K \in Matrices
  PROVE  Times(Times(M, N), K) = Times(M, Times(N, K))
<1>1. Times(Times(M, N), K) \in Matrices /\ Times(M, Times(N, K)) \in Matrices
  BY TimesIsMatrix
<1>2. ASSUME NEW i \in 1..3, NEW j \in 1..3
      PROVE  Times(Times(M, N), K)[i][j] = Times(M, Times(N, K))[i][j]
  <2> DEFINE c == [k \in 1..3 |-> K[k][j]]
             a == M[i]
  <2>1. a \in Vectors /\ c \in Vectors /\ c[1] = K[1][j] /\ c[2] = K[2][j] /\ c[3] = K[3][j]
    BY DEF Matrices, Vectors
  <2>2. Times(Times(M, N), K)[i][j]
          = Times(M, N)[i][1] * K[1][j] + Times(M, N)[i][2] * K[2][j] + Times(M, N)[i][3] * K[3][j]
    BY TimesAt
  <2>3. Times(M, Times(N, K))[i][j]
          = M[i][1] * Times(N, K)[1][j] + M[i][2] * Times(N, K)[2][j] + M[i][3] * Times(N, K)[3][j]
    BY TimesAt
  <2>4. \A k \in 1..3 :
          Times(M, N)[i][k] = M[i][1] * N[1][k] + M[i][2] * N[2][k] + M[i][3] * N[3][k]
    BY TimesAt
  <2>5. \A k \in 1..3 :
          Times(N, K)[k][j] = N[k][1] * K[1][j] + N[k][2] * K[2][j] + N[k][3] * K[3][j]
    BY TimesAt
  <2> HIDE DEF c
  <2>6. QED
    BY <2>1, <2>2, <2>3, <2>4, <2>5, SameSumOfRows
<1>3. QED
  BY <1>1, <1>2, SameMatrix

LEMMA ApplyTimes ==
  ASSUME NEW M \in Matrices, NEW N \in Matrices, NEW v \in Vectors
  PROVE  Apply(Times(M, N), v) = Apply(M, Apply(N, v))
<1>1. ASSUME NEW i \in 1..3
      PROVE  Apply(Times(M, N), v)[i] = Apply(M, Apply(N, v))[i]
  <2>1. M[i] \in Vectors
    BY DEF Matrices
  <2>2. Apply(Times(M, N), v)[i]
          = Times(M, N)[i][1] * v[1] + Times(M, N)[i][2] * v[2] + Times(M, N)[i][3] * v[3]
    BY DEF Apply
  <2>3. Apply(M, Apply(N, v))[i]
          = M[i][1] * Apply(N, v)[1] + M[i][2] * Apply(N, v)[2] + M[i][3] * Apply(N, v)[3]
    BY DEF Apply
  <2>4. \A k \in 1..3 :
          Times(M, N)[i][k] = M[i][1] * N[1][k] + M[i][2] * N[2][k] + M[i][3] * N[3][k]
    BY TimesAt
  <2>5. \A k \in 1..3 : Apply(N, v)[k] = N[k][1] * v[1] + N[k][2] * v[2] + N[k][3] * v[3]
    BY DEF Apply
  <2>6. QED
    BY <2>1, <2>2, <2>3, <2>4, <2>5, SameSumOfRows
<1>2. DOMAIN Apply(Times(M, N), v) = 1..3 /\ DOMAIN Apply(M, Apply(N, v)) = 1..3
  BY DEF Apply
<1>3. Apply(Times(M, N), v) \in Vectors /\ Apply(M, Apply(N, v)) \in Vectors
  BY TimesIsMatrix, ApplyIsVector
<1>4. QED
  BY <1>1, <1>3 DEF Vectors

LEMMA ApplyPlus ==
  ASSUME NEW M \in Matrices, NEW v \in Vectors, NEW w \in Vectors
  PROVE  Apply(M, Plus(v, w)) = Plus(Apply(M, v), Apply(M, w))
<1>1. Plus(v, w) \in Vectors
  BY DEF Plus, Vectors
<1>2. ASSUME NEW i \in 1..3
      PROVE  Apply(M, Plus(v, w))[i] = Plus(Apply(M, v), Apply(M, w))[i]
  <2>1. \A k \in 1..3 : M[i][k] \in Int /\ v[k] \in Int /\ w[k] \in Int
    BY DEF Matrices, Vectors
  <2>2. PICK a \in Int, b \in Int, c \in Int : a = M[i][1] /\ b = M[i][2] /\ c = M[i][3]
    BY <2>1
  <2>3. PICK x \in Int, y \in Int, z \in Int : x = v[1] /\ y = v[2] /\ z = v[3]
    BY <2>1
  <2>4. PICK r \in Int, s \in Int, t \in Int : r = w[1] /\ s = w[2] /\ t = w[3]
    BY <2>1
  <2>5. a * (x + r) + b * (y + s) + c * (z + t)
            = (a * x + b * y + c * z) + (a * r + b * s + c * t)
    OBVIOUS
  <2>6. Apply(M, Plus(v, w))[i] = a * (x + r) + b * (y + s) + c * (z + t)
    BY <2>2, <2>3, <2>4 DEF Apply, Plus
  <2>7. Plus(Apply(M, v), Apply(M, w))[i] = (a * x + b * y + c * z) + (a * r + b * s + c * t)
    BY <2>2, <2>3, <2>4 DEF Apply, Plus
  <2>8. QED
    BY <2>5, <2>6, <2>7
<1>3. Apply(M, Plus(v, w)) \in Vectors /\ Plus(Apply(M, v), Apply(M, w)) \in Vectors
  <2>1. Apply(M, v) \in Vectors /\ Apply(M, w) \in Vectors
    BY ApplyIsVector
  <2>2. Plus(Apply(M, v), Apply(M, w)) \in Vectors
    BY <2>1 DEF Plus, Vectors
  <2>3. QED
    BY <1>1, <2>2, ApplyIsVector
<1>4. QED
  BY <1>2, <1>3 DEF Vectors

LEMMA TransposeTimes ==
  ASSUME NEW M \in Matrices, NEW N \in Matrices
  PROVE  Transpose(Times(M, N)) = Times(Transpose(N), Transpose(M))
<1>1. /\ Transpose(Times(M, N)) \in Matrices
      /\ Times(Transpose(N), Transpose(M)) \in Matrices
  BY TimesIsMatrix, TransposeIsMatrix
<1>2. ASSUME NEW i \in 1..3, NEW j \in 1..3
      PROVE  Transpose(Times(M, N))[i][j] = Times(Transpose(N), Transpose(M))[i][j]
  <2>1. Transpose(Times(M, N))[i][j] = M[j][1] * N[1][i] + M[j][2] * N[2][i] + M[j][3] * N[3][i]
    BY TimesIsMatrix, TransposeIsMatrix, TimesAt
  <2>2. Times(Transpose(N), Transpose(M))[i][j]
          = N[1][i] * M[j][1] + N[2][i] * M[j][2] + N[3][i] * M[j][3]
    BY TransposeIsMatrix, TimesAt
  <2>3. \A k \in 1..3 : M[j][k] \in Int /\ N[k][i] \in Int
    BY DEF Matrices, Vectors
  <2>4. \A k \in 1..3 : M[j][k] * N[k][i] = N[k][i] * M[j][k]
    BY <2>3
  <2>5. QED
    BY <2>1, <2>2, <2>4
<1>3. QED
  BY <1>1, <1>2, SameMatrix

LEMMA UnitIsMatrix ==
  /\ UnitRotation \in Matrices
  /\ UnitRotation[1][1] = 1 /\ UnitRotation[1][2] = 0 /\ UnitRotation[1][3] = 0
  /\ UnitRotation[2][1] = 0 /\ UnitRotation[2][2] = 1 /\ UnitRotation[2][3] = 0
  /\ UnitRotation[3][1] = 0 /\ UnitRotation[3][2] = 0 /\ UnitRotation[3][3] = 1
BY DEF UnitRotation, Matrices, Vectors

LEMMA UnitTimes ==
  ASSUME NEW M \in Matrices
  PROVE  Times(UnitRotation, M) = M /\ Times(M, UnitRotation) = M
<1>1. Times(UnitRotation, M) \in Matrices /\ Times(M, UnitRotation) \in Matrices
  BY TimesIsMatrix, UnitIsMatrix
<1>2. \A i, j \in 1..3 : M[i][j] \in Int
  BY DEF Matrices, Vectors
<1>3. \A i, j \in 1..3 : Times(UnitRotation, M)[i][j] = M[i][j]
  BY <1>2, TimesAt, UnitIsMatrix
<1>4. \A i, j \in 1..3 : Times(M, UnitRotation)[i][j] = M[i][j]
  BY <1>2, TimesAt, UnitIsMatrix
<1>5. QED
  BY <1>1, <1>3, <1>4, SameMatrix

LEMMA UnitApplied ==
  ASSUME NEW v \in Vectors
  PROVE  Apply(UnitRotation, v) = v
<1>1. \A i \in 1..3 : v[i] \in Int
  BY DEF Vectors
<1>2. \A i \in 1..3 : Apply(UnitRotation, v)[i] = v[i]
  BY <1>1, UnitIsMatrix DEF Apply
<1>3. QED
  BY <1>2, UnitIsMatrix, ApplyIsVector DEF Vectors
-----------------------------------------------------------------------------
(* The poses that GetFrame works out.                                      *)

\* A sequence as the models have them.
LEMMA IsSequenceIs ==
  ASSUME NEW s, IsSequence(s)
  PROVE  /\ Len(s) \in Nat /\ DOMAIN s = 1..Len(s)
         /\ \A n \in DOMAIN s : s[n] \in ToSet(s)
         /\ \A e \in ToSet(s) : \E n \in DOMAIN s : e = s[n]
<1>1. s \in Seq(ToSet(s))
  BY DEF IsSequence
<1>2. Len(s) \in Nat /\ DOMAIN s = 1..Len(s)
  BY <1>1
<1>3. QED
  BY <1>2 DEF ToSet

LEMMA AngleIsNumber ==
  ASSUME NEW n \in Int
  PROVE  Cos(n) \in Int /\ Sin(n) \in Int /\ Abs(n) \in Int /\ Sign(n) \in Int
<1>1. \A m \in Int : Cos(m) \in Int
  BY DEF Cos
<1>2. n - 1 \in Int
  OBVIOUS
<1>3. QED
  BY <1>1, <1>2 DEF Sin, Abs, Sign

LEMMA HelicalIsMatrix ==
  ASSUME NEW aa \in Vectors
  PROVE  HelicalToMatrix(aa) \in Matrices
<1> DEFINE angle == Abs(aa[1]) + Abs(aa[2]) + Abs(aa[3])
           a == [i \in 1..3 |-> Sign(aa[i])]
           c == Cos(angle)
           s == Sin(angle)
<1>1. \A i \in 1..3 : Abs(aa[i]) \in Int /\ Sign(aa[i]) \in Int
  BY AngleIsNumber DEF Vectors
<1>2. angle \in Int
  BY <1>1
<1>3. c \in Int /\ s \in Int
  BY <1>2, AngleIsNumber
<1>4. a[1] \in Int /\ a[2] \in Int /\ a[3] \in Int
  BY <1>1
<1>5. HelicalToMatrix(aa) =
        IF angle = 0 THEN UnitRotation
        ELSE << <<c + (1 - c) * a[1] * a[1], (1 - c) * a[1] * a[2] - s * a[3],
                  (1 - c) * a[1] * a[3] + s * a[2]>>,
                <<(1 - c) * a[2] * a[1] + s * a[3], c + (1 - c) * a[2] * a[2],
                  (1 - c) * a[2] * a[3] - s * a[1]>>,
                <<(1 - c) * a[3] * a[1] - s * a[2], (1 - c) * a[3] * a[2] + s * a[1],
                  c + (1 - c) * a[3] * a[3]>> >>
  BY DEF HelicalToMatrix
<1> HIDE DEF angle, a, c, s
<1>6. \A i, j \in {a[1], a[2], a[3]}, t \in {1 - c} : t * i * j \in Int
  BY <1>3, <1>4
<1>7. \A i \in {a[1], a[2], a[3]} : s * i \in Int
  BY <1>3, <1>4
<1> DEFINE P(i, j) == (1 - c) * i * j
<1>8. \A i, j \in {a[1], a[2], a[3]} : P(i, j) \in Int
  BY <1>6
<1>9. \A x, y, z \in Vectors : <<x, y, z>> \in Matrices
  BY DEF Matrices
<1>10. \A x, y, z \in Int : <<x, y, z>> \in Vectors
  BY DEF Vectors
<1>11. /\ <<c + P(a[1], a[1]), P(a[1], a[2]) - s * a[3], P(a[1], a[3]) + s * a[2]>> \in Vectors
       /\ <<P(a[2], a[1]) + s * a[3], c + P(a[2], a[2]), P(a[2], a[3]) - s * a[1]>> \in Vectors
       /\ <<P(a[3], a[1]) - s * a[2], P(a[3], a[2]) + s * a[1], c + P(a[3], a[3])>> \in Vectors
  <2> HIDE DEF P
  <2>1. \A m, n \in Int : m + n \in Int /\ m - n \in Int
    OBVIOUS
  <2>2. QED
    BY <1>3, <1>7, <1>8, <1>10, <2>1
<1>12. QED
  BY <1>5, <1>9, <1>11, UnitIsMatrix

\* A pose in which the segment with the ID is found.
LightIndex(light, g) ==
    SelectInSeq(light.m_Segments, LAMBDA p : p.m_SegmentID = g.m_SegmentID)

\* Poses relative to the parent, as they are sent.
Lightweight(light) ==
    /\ IsSequence(light.m_Segments)
    /\ \A p \in ToSet(light.m_Segments) : p.m_Translation \in Vectors /\ p.m_Rotation \in Vectors

GlobalOf(light, at) == PoseIn(at.T, at.R, light.m_Segments[LightIndex(light, at.segment)])

LocalOf(light, at) == PoseIn(Origin, UnitRotation, light.m_Segments[LightIndex(light, at.segment)])

Pair(light, at) == [global |-> GlobalOf(light, at), local |-> LocalOf(light, at)]

At(child, pose) == [segment |-> child, T |-> pose.m_Translation, R |-> pose.m_Rotation]

Below(f, s, light, at, gone) ==
    {f[At(child, GlobalOf(light, at))] : child \in ChildrenFollowed(s, at.segment, gone)}

\* The poses of a segment and of those below it, given those of its children.
PosesAt(f, s, light, at, gone) ==
    IF \/ LightIndex(light, at.segment) = 0 \/ {} \in Below(f, s, light, at, gone)
       \/ PosingCall("GetSubjectAndSegmentID", s, at.segment.m_SegmentID) \in gone
    THEN {}
    ELSE {Pair(light, at)} \cup UNION Below(f, s, light, at, gone)

Places(s) == [segment : ToSet(s.m_Segments), T : Vectors, R : Matrices]

Poses(f, s, light, gone) == f = [at \in Places(s) |-> PosesAt(f, s, light, at, gone)]

RootPlace(s) == [segment |-> s.m_Segments[RootOf(s)], T |-> Origin, R |-> UnitRotation]

LEMMA PosesOfIs ==
  ASSUME NEW s, NEW light, NEW gone
  PROVE  PosesOf(s, light, gone) = (CHOOSE f : Poses(f, s, light, gone))[RootPlace(s)]
BY DEF PosesOf, Poses, PosesAt, Below, At, Pair, GlobalOf, LocalOf, LightIndex, Places,
       RootPlace

LEMMA LightSegment ==
  ASSUME NEW light, Lightweight(light), NEW g, LightIndex(light, g) # 0
  PROVE  LET p == light.m_Segments[LightIndex(light, g)]
         IN  /\ p.m_SegmentID = g.m_SegmentID /\ p \in ToSet(light.m_Segments)
             /\ p.m_Translation \in Vectors /\ p.m_Rotation \in Vectors
<1> DEFINE t == light.m_Segments
           T == {i \in 1..Len(t) : t[i].m_SegmentID = g.m_SegmentID}
<1>1. Len(t) \in Nat /\ DOMAIN t = 1..Len(t) /\ \A n \in DOMAIN t : t[n] \in ToSet(t)
  BY IsSequenceIs DEF Lightweight
<1>2. LightIndex(light, g) = IF T # {} THEN Min(T) ELSE 0
  BY DEF LightIndex, SelectInSeq
<1>3. T # {}
  BY <1>2
<1>4. T \subseteq 1..Len(t)
  OBVIOUS
<1>5. Min(T) \in T
  BY <1>1, <1>3, <1>4, FirstPlace
<1>6. QED
  BY <1>1, <1>2, <1>3, <1>5 DEF Lightweight

\* The pose of a segment that was sent is a pose.
LEMMA PoseIsTyped ==
  ASSUME NEW light, Lightweight(light), NEW T \in Vectors, NEW R \in Matrices, NEW g,
         LightIndex(light, g) # 0
  PROVE  LET p == PoseIn(T, R, light.m_Segments[LightIndex(light, g)])
         IN  /\ p.m_SegmentID = g.m_SegmentID
             /\ p.m_Translation \in Vectors /\ p.m_Rotation \in Matrices
<1> DEFINE q == light.m_Segments[LightIndex(light, g)]
<1>1. q.m_SegmentID = g.m_SegmentID /\ q.m_Translation \in Vectors /\ q.m_Rotation \in Vectors
  BY LightSegment
<1> HIDE DEF q
<1>2. HelicalToMatrix(q.m_Rotation) \in Matrices
  BY <1>1, HelicalIsMatrix
<1>3. Times(R, HelicalToMatrix(q.m_Rotation)) \in Matrices
  BY <1>2, TimesIsMatrix
<1>4. Apply(R, q.m_Translation) \in Vectors
  BY <1>1, ApplyIsVector
<1>5. Plus(T, Apply(R, q.m_Translation)) \in Vectors
  BY <1>4 DEF Plus, Vectors
<1>6. QED
  BY <1>1, <1>3, <1>5 DEF PoseIn, q

\* A segment is deeper than its parent.
LEMMA SegmentDepth ==
  ASSUME NEW s, Articulated(s)
  PROVE  /\ Len(s.m_Segments) \in Nat
         /\ \E depth \in [ToSet(s.m_Segments) -> 1..Len(s.m_Segments)] :
                \A g, h \in ToSet(s.m_Segments) :
                    h.m_ParentID = g.m_SegmentID => depth[g] < depth[h]
<1> DEFINE t == s.m_Segments
<1>1. /\ Len(t) \in Nat /\ DOMAIN t = 1..Len(t)
      /\ \A n \in DOMAIN t : t[n] \in ToSet(t)
      /\ \A g \in ToSet(t) : \E n \in DOMAIN t : g = t[n]
  BY IsSequenceIs DEF Articulated
<1>2. PICK d \in [DOMAIN t -> 1..Len(t)] :
        \A g, h \in DOMAIN t : t[h].m_ParentID = t[g].m_SegmentID => d[g] < d[h]
  BY DEF Articulated
<1> DEFINE place(g) == CHOOSE n \in DOMAIN t : g = t[n]
           depth == [g \in ToSet(t) |-> d[place(g)]]
<1>3. \A g \in ToSet(t) : place(g) \in DOMAIN t /\ g = t[place(g)]
  BY <1>1
<1> HIDE DEF place
<1>4. depth \in [ToSet(t) -> 1..Len(t)]
  BY <1>2, <1>3
<1>5. \A g, h \in ToSet(t) : h.m_ParentID = g.m_SegmentID => depth[g] < depth[h]
  BY <1>2, <1>3
<1>6. QED
  BY <1>1, <1>4, <1>5

\* Children are segments.
LEMMA ChildIsSegment ==
  ASSUME NEW s, Articulated(s), NEW g, NEW child \in ToSet(Children(s, g))
  PROVE  child \in ToSet(s.m_Segments) /\ child.m_ParentID = g.m_SegmentID
<1> DEFINE C == {c \in ToSet(s.m_Segments) : c.m_ParentID = g.m_SegmentID}
<1>1. Children(s, g) \in Seq(C)
  BY ChildrenAre DEF Articulated
<1> HIDE DEF C
<1>2. child \in C
  BY <1>1 DEF ToSet
<1>3. QED
  BY <1>2 DEF C

\* The place of a child in the pose of its parent.
LEMMA PlaceOfChild ==
  ASSUME NEW s, Articulated(s), NEW light, Lightweight(light), NEW at \in Places(s),
         LightIndex(light, at.segment) # 0, NEW child \in ToSet(Children(s, at.segment))
  PROVE  At(child, GlobalOf(light, at)) \in Places(s)
<1>1. child \in ToSet(s.m_Segments)
  BY ChildIsSegment
<1>2. at.T \in Vectors /\ at.R \in Matrices
  BY DEF Places
<1>3. GlobalOf(light, at).m_Translation \in Vectors /\ GlobalOf(light, at).m_Rotation \in Matrices
  BY <1>2, PoseIsTyped DEF GlobalOf
<1>4. QED
  BY <1>1, <1>3 DEF At, Places

\* The recursion down the segments has a result.
LEMMA PosesExist ==
  ASSUME NEW s, Articulated(s), NEW light, Lightweight(light), NEW gone
  PROVE  \E f : Poses(f, s, light, gone)
<1> DEFINE n == Len(s.m_Segments)
<1>1. n \in Nat
  BY SegmentDepth
<1>2. PICK depth \in [ToSet(s.m_Segments) -> 1..n] :
        \A g, h \in ToSet(s.m_Segments) : h.m_ParentID = g.m_SegmentID => depth[g] < depth[h]
  BY SegmentDepth
<1> HIDE DEF n
<1> DEFINE Solves(f, k) ==
             \A at \in Places(s) :
                n - depth[at.segment] < k => f[at] = PosesAt(f, s, light, at, gone)
           T == {k \in Nat : \E f : Solves(f, k)}
<1>3. \A at \in Places(s) : depth[at.segment] \in 1..n
  BY <1>2 DEF Places
<1>4. 0 \in T
  <2>1. Solves(<<>>, 0)
    BY <1>1, <1>3
  <2>2. QED
    BY <2>1
<1>5. ASSUME NEW k \in Nat, NEW f, Solves(f, k)
      PROVE  LET g == [at \in Places(s) |-> PosesAt(f, s, light, at, gone)]
             IN  \A at \in Places(s) :
                    n - depth[at.segment] < k + 1 => g[at] = PosesAt(g, s, light, at, gone)
  <2> DEFINE g == [at \in Places(s) |-> PosesAt(f, s, light, at, gone)]
  <2> SUFFICES ASSUME NEW at \in Places(s), n - depth[at.segment] < k + 1
               PROVE  g[at] = PosesAt(g, s, light, at, gone)
    OBVIOUS
  <2>1. g[at] = PosesAt(f, s, light, at, gone)
    OBVIOUS
  <2>2. CASE LightIndex(light, at.segment) = 0
    BY <2>1, <2>2 DEF PosesAt
  <2>3. CASE LightIndex(light, at.segment) # 0
    <3>1. ASSUME NEW child \in ToSet(Children(s, at.segment))
          PROVE  g[At(child, GlobalOf(light, at))] = f[At(child, GlobalOf(light, at))]
      <4> DEFINE c == At(child, GlobalOf(light, at))
      <4>1. c \in Places(s)
        BY <2>3, PlaceOfChild
      <4>2. c.segment = child
        BY DEF At
      <4>3. at.segment \in ToSet(s.m_Segments)
        BY DEF Places
      <4>4. depth[at.segment] < depth[child]
        BY <1>2, <4>3, ChildIsSegment
      <4> HIDE DEF c
      <4>5. n - depth[c.segment] < k
        BY <1>1, <1>3, <4>1, <4>2, <4>4
      <4>6. f[c] = PosesAt(f, s, light, c, gone)
        BY <1>5, <4>1, <4>5
      <4>7. g[c] = PosesAt(f, s, light, c, gone)
        BY <4>1
      <4>8. QED
        BY <4>6, <4>7 DEF c
    <3> HIDE DEF g
    <3>2. Below(g, s, light, at, gone) = Below(f, s, light, at, gone)
      BY <3>1 DEF Below, ChildrenFollowed
    <3>3. QED
      BY <2>1, <3>2 DEF PosesAt
  <2>4. QED
    BY <2>2, <2>3
<1>6. ASSUME NEW k \in Nat, k \in T PROVE k + 1 \in T
  <2>1. PICK f : Solves(f, k)
    BY <1>6
  <2>2. Solves([at \in Places(s) |-> PosesAt(f, s, light, at, gone)], k + 1)
    BY <1>5, <2>1
  <2> HIDE DEF Solves
  <2>3. QED
    BY <2>2
<1>7. n + 1 \in T
  <2> HIDE DEF T
  <2>1. Nat \subseteq T
    BY <1>4, <1>6, SetInduction
  <2>2. QED
    BY <1>1, <2>1
<1>8. PICK f : Solves(f, n + 1)
  BY <1>7
<1> DEFINE g == [at \in Places(s) |-> f[at]]
<1>9. ASSUME NEW at \in Places(s) PROVE f[at] = PosesAt(f, s, light, at, gone)
  BY <1>1, <1>3, <1>8
<1>10. ASSUME NEW at \in Places(s) PROVE g[at] = PosesAt(g, s, light, at, gone)
  <2>1. g[at] = PosesAt(f, s, light, at, gone)
    BY <1>9
  <2>2. CASE LightIndex(light, at.segment) = 0
    BY <2>1, <2>2 DEF PosesAt
  <2>3. CASE LightIndex(light, at.segment) # 0
    <3>1. \A child \in ToSet(Children(s, at.segment)) :
            g[At(child, GlobalOf(light, at))] = f[At(child, GlobalOf(light, at))]
      BY <2>3, PlaceOfChild
    <3> HIDE DEF g
    <3>2. Below(g, s, light, at, gone) = Below(f, s, light, at, gone)
      BY <3>1 DEF Below, ChildrenFollowed
    <3>3. QED
      BY <2>1, <3>2 DEF PosesAt
  <2>4. QED
    BY <2>2, <2>3
<1> HIDE DEF g
<1>11. g = [at \in Places(s) |-> PosesAt(g, s, light, at, gone)]
  BY <1>10 DEF g
<1>12. QED
  BY <1>11 DEF Poses

\* x is the pair of poses of a child of the segment that y is the pair of.
ChildOf(x, y, s, light) ==
    \E at \in Places(s) : \E child \in ToSet(Children(s, at.segment)) :
        /\ LightIndex(light, at.segment) # 0 /\ LightIndex(light, child) # 0
        /\ y = Pair(light, at)
        /\ x = Pair(light, At(child, GlobalOf(light, at)))

\* Poses come from the place the recursion starts at and from one another.
Connected(poses, s, light, at) ==
    \A x \in poses : \/ x = Pair(light, at) /\ LightIndex(light, at.segment) # 0
                     \/ \E y \in poses : ChildOf(x, y, s, light)

\* The images of the elements of a sequence are finitely many.
LEMMA FiniteImage ==
  ASSUME NEW f, NEW t, t \in Seq(ToSet(t))
  PROVE  IsFiniteSet({f[e] : e \in ToSet(t)})
<1> DEFINE n == Len(t)
           S == {f[e] : e \in ToSet(t)}
           g == [k \in 1..n |-> f[t[k]]]
<1>1. n \in Nat /\ DOMAIN t = 1..n
  OBVIOUS
<1>2. g \in Surjection(1..n, S)
  <2>1. g \in [1..n -> S]
    BY <1>1 DEF ToSet
  <2>2. \A e \in ToSet(t) : \E k \in 1..n : t[k] = e
    BY <1>1 DEF ToSet
  <2>3. \A x \in S : \E k \in 1..n : g[k] = x
    BY <2>2
  <2>4. QED
    BY <2>1, <2>3 DEF Surjection
<1>3. IsFiniteSet(1..n)
  BY <1>1, FS_Interval
<1>4. QED
  BY <1>2, <1>3, FS_Surjection

LEMMA PosesAreConnected ==
  ASSUME NEW s, Articulated(s), NEW light, Lightweight(light), NEW gone,
         NEW f, Poses(f, s, light, gone), NEW place \in Places(s)
  PROVE  IsFiniteSet(f[place]) /\ Connected(f[place], s, light, place)
<1> DEFINE n == Len(s.m_Segments)
<1>1. n \in Nat
  BY SegmentDepth
<1>2. PICK depth \in [ToSet(s.m_Segments) -> 1..n] :
        \A g, h \in ToSet(s.m_Segments) : h.m_ParentID = g.m_SegmentID => depth[g] < depth[h]
  BY SegmentDepth
<1> HIDE DEF n
<1> DEFINE Good(at) == IsFiniteSet(f[at]) /\ Connected(f[at], s, light, at)
           T == {k \in Nat : \A at \in Places(s) : n - depth[at.segment] < k => Good(at)}
<1>3. \A at \in Places(s) : depth[at.segment] \in 1..n
  BY <1>2 DEF Places
<1>4. 0 \in T
  BY <1>1, <1>3
<1>5. ASSUME NEW k \in Nat, k \in T PROVE k + 1 \in T
  <2> SUFFICES ASSUME NEW at \in Places(s), n - depth[at.segment] < k + 1 PROVE Good(at)
    OBVIOUS
  <2>1. f[at] = PosesAt(f, s, light, at, gone)
    BY DEF Poses
  <2>2. CASE f[at] = {}
    BY <2>2, FS_EmptySet DEF Connected
  <2>3. CASE f[at] # {}
    <3>1. /\ LightIndex(light, at.segment) # 0
          /\ {} \notin Below(f, s, light, at, gone)
          /\ f[at] = {Pair(light, at)} \cup UNION Below(f, s, light, at, gone)
      BY <2>1, <2>3 DEF PosesAt
    <3>2. ASSUME NEW child \in ToSet(Children(s, at.segment))
          PROVE  LET c == At(child, GlobalOf(light, at))
                 IN  c \in Places(s) /\ c.segment = child /\ Good(c)
      <4> DEFINE c == At(child, GlobalOf(light, at))
      <4>1. c \in Places(s)
        BY <3>1, PlaceOfChild
      <4>2. c.segment = child
        BY DEF At
      <4>3. at.segment \in ToSet(s.m_Segments)
        BY DEF Places
      <4>4. depth[at.segment] < depth[child]
        BY <1>2, <4>3, ChildIsSegment
      <4> HIDE DEF c
      <4>5. n - depth[c.segment] < k
        BY <1>1, <1>3, <4>1, <4>2, <4>4
      <4>6. Good(c)
        BY <1>5, <4>1, <4>5
      <4>7. QED
        BY <4>1, <4>2, <4>6 DEF c
    <3> HIDE DEF Good
    <3>3. IsFiniteSet(f[at])
      <4> DEFINE t == IF PosingCall("GetSegmentChildCount", s, at.segment.m_SegmentID) \in gone
                      THEN <<>> ELSE Children(s, at.segment)
                 image == [child \in ToSet(t) |-> f[At(child, GlobalOf(light, at))]]
      <4>1. t \in Seq(ToSet(t))
        <5>1. t \in Seq({c \in ToSet(s.m_Segments) : c.m_ParentID = at.segment.m_SegmentID})
          BY ChildrenAre DEF Articulated
        <5> HIDE DEF t
        <5>2. QED
          BY <5>1 DEF ToSet
      <4>2. Below(f, s, light, at, gone) = {image[e] : e \in ToSet(t)}
        <5>1. ToSet(t) = ChildrenFollowed(s, at.segment, gone)
          BY DEF ChildrenFollowed, ToSet
        <5>2. QED
          BY <5>1 DEF Below
      <4> HIDE DEF image, t
      <4>3. IsFiniteSet(Below(f, s, light, at, gone))
        BY <4>1, <4>2, FiniteImage
      <4>4. \A below \in Below(f, s, light, at, gone) : IsFiniteSet(below)
        BY <3>2 DEF Below, ChildrenFollowed, Good
      <4>5. IsFiniteSet(UNION Below(f, s, light, at, gone))
        BY <4>3, <4>4, FS_UNION
      <4>6. \A S, x : IsFiniteSet(S) => IsFiniteSet(S \cup {x})
        BY FS_AddElement
      <4>7. IsFiniteSet((UNION Below(f, s, light, at, gone)) \cup {Pair(light, at)})
        BY <4>5, <4>6
      <4>8. f[at] = (UNION Below(f, s, light, at, gone)) \cup {Pair(light, at)}
        BY <3>1
      <4>9. QED
        BY <4>7, <4>8
    <3>4. ASSUME NEW x \in f[at]
          PROVE  x = Pair(light, at) \/ \E y \in f[at] : ChildOf(x, y, s, light)
      <4>1. CASE x = Pair(light, at)
        BY <4>1
      <4>2. ASSUME NEW child \in ChildrenFollowed(s, at.segment, gone),
                   x \in f[At(child, GlobalOf(light, at))]
            PROVE  \E y \in f[at] : ChildOf(x, y, s, light)
        <5> DEFINE c == At(child, GlobalOf(light, at))
        <5>0. child \in ToSet(Children(s, at.segment))
          BY DEF ChildrenFollowed
        <5>1. Connected(f[c], s, light, c) /\ c.segment = child
          BY <3>2, <5>0 DEF Good
        <5>2. f[c] \subseteq f[at]
          BY <3>1 DEF Below
        <5>3. Pair(light, at) \in f[at]
          BY <3>1
        <5>4. CASE x = Pair(light, c) /\ LightIndex(light, child) # 0
          <6>1. ChildOf(x, Pair(light, at), s, light)
            BY <3>1, <5>0, <5>4 DEF ChildOf
          <6>2. QED
            BY <5>3, <6>1
        <5>5. CASE \E y \in f[c] : ChildOf(x, y, s, light)
          BY <5>2, <5>5
        <5> HIDE DEF c
        <5>6. QED
          BY <4>2, <5>1, <5>4, <5>5 DEF Connected, c
      <4>3. QED
        BY <3>1, <4>1, <4>2 DEF Below
    <3>5. QED
      BY <3>1, <3>3, <3>4 DEF Good, Connected
  <2>4. QED
    BY <2>2, <2>3
<1>6. n \in T
  <2> HIDE DEF T
  <2>1. Nat \subseteq T
    BY <1>4, <1>5, SetInduction
  <2>2. QED
    BY <1>1, <2>1
<1>7. n - depth[place.segment] < n
  BY <1>1, <1>3
<1>8. QED
  BY <1>6, <1>7

\* Every pair of poses is that of a segment that was sent.
LEMMA PairIs ==
  ASSUME NEW s, Articulated(s), NEW light, Lightweight(light), NEW at \in Places(s),
         NEW P, Connected(P, s, light, at), NEW x \in P
  PROVE  \E p \in Places(s) :
            /\ x = Pair(light, p) /\ LightIndex(light, p.segment) # 0
            /\ x.global.m_SegmentID = p.segment.m_SegmentID
            /\ x.local.m_SegmentID = p.segment.m_SegmentID
            /\ x.global.m_Translation \in Vectors /\ x.global.m_Rotation \in Matrices
            /\ x.local.m_Translation \in Vectors /\ x.local.m_Rotation \in Matrices
<1>1. PICK p \in Places(s) : x = Pair(light, p) /\ LightIndex(light, p.segment) # 0
  <2>1. CASE x = Pair(light, at) /\ LightIndex(light, at.segment) # 0
    BY <2>1
  <2>2. ASSUME NEW y \in P, ChildOf(x, y, s, light)
        PROVE  \E p \in Places(s) : x = Pair(light, p) /\ LightIndex(light, p.segment) # 0
    <3>1. PICK q \in Places(s) : \E child \in ToSet(Children(s, q.segment)) :
            /\ LightIndex(light, q.segment) # 0 /\ LightIndex(light, child) # 0
            /\ x = Pair(light, At(child, GlobalOf(light, q)))
      BY <2>2 DEF ChildOf
    <3>2. PICK child \in ToSet(Children(s, q.segment)) :
            /\ LightIndex(light, q.segment) # 0 /\ LightIndex(light, child) # 0
            /\ x = Pair(light, At(child, GlobalOf(light, q)))
      BY <3>1
    <3>3. At(child, GlobalOf(light, q)) \in Places(s)
      BY <3>2, PlaceOfChild
    <3>4. At(child, GlobalOf(light, q)).segment = child
      BY DEF At
    <3>5. QED
      BY <3>2, <3>3, <3>4
  <2>3. QED
    BY <2>1, <2>2 DEF Connected
<1>2. p.T \in Vectors /\ p.R \in Matrices
  BY DEF Places
<1>3. Origin \in Vectors
  BY DEF Origin, Vectors
<1>4. /\ GlobalOf(light, p).m_SegmentID = p.segment.m_SegmentID
      /\ GlobalOf(light, p).m_Translation \in Vectors
      /\ GlobalOf(light, p).m_Rotation \in Matrices
  BY <1>1, <1>2, PoseIsTyped DEF GlobalOf
<1>5. /\ LocalOf(light, p).m_SegmentID = p.segment.m_SegmentID
      /\ LocalOf(light, p).m_Translation \in Vectors
      /\ LocalOf(light, p).m_Rotation \in Matrices
  BY <1>1, <1>3, UnitIsMatrix, PoseIsTyped DEF LocalOf
<1>6. x.global = GlobalOf(light, p) /\ x.local = LocalOf(light, p)
  BY <1>1 DEF Pair
<1>7. QED
  BY <1>1, <1>4, <1>5, <1>6

LEMMA SegmentIDsDiffer ==
  ASSUME NEW s, Articulated(s), NEW g \in ToSet(s.m_Segments), NEW h \in ToSet(s.m_Segments)
  PROVE  /\ g.m_SegmentID = h.m_SegmentID => g = h
         /\ g.m_SegmentID # 0
<1>1. \A e \in ToSet(s.m_Segments) : \E n \in DOMAIN s.m_Segments : e = s.m_Segments[n]
  BY IsSequenceIs DEF Articulated
<1>2. QED
  BY <1>1 DEF Articulated

\* A pair is either that of the root or that of a child, and a root is nobody's child.
LEMMA RootOrChild ==
  ASSUME NEW s, Articulated(s), RootPlace(s) \in Places(s), RootPlace(s).segment.m_ParentID = 0,
         NEW light, Lightweight(light), NEW P, Connected(P, s, light, RootPlace(s)), NEW x \in P,
         NEW h \in ToSet(s.m_Segments), x.global.m_SegmentID = h.m_SegmentID
  PROVE  \/ h = RootPlace(s).segment /\ x = Pair(light, RootPlace(s))
         \/ /\ h.m_ParentID # 0
            /\ \E y \in P, p \in Places(s) :
                /\ y = Pair(light, p) /\ LightIndex(light, p.segment) # 0
                /\ y.global.m_SegmentID = p.segment.m_SegmentID
                /\ h.m_ParentID = p.segment.m_SegmentID
                /\ x = Pair(light, At(h, y.global)) /\ LightIndex(light, h) # 0
<1>1. CASE x = Pair(light, RootPlace(s)) /\ LightIndex(light, RootPlace(s).segment) # 0
  <2>1. /\ RootPlace(s).T \in Vectors /\ RootPlace(s).R \in Matrices
        /\ RootPlace(s).segment \in ToSet(s.m_Segments)
    BY DEF Places
  <2>2. GlobalOf(light, RootPlace(s)).m_SegmentID = RootPlace(s).segment.m_SegmentID
    BY <1>1, <2>1, PoseIsTyped DEF GlobalOf
  <2>3. x.global = GlobalOf(light, RootPlace(s))
    BY <1>1 DEF Pair
  <2>4. QED
    BY <1>1, <2>1, <2>2, <2>3, SegmentIDsDiffer
<1>2. ASSUME NEW y \in P, ChildOf(x, y, s, light)
      PROVE  /\ h.m_ParentID # 0
             /\ \E p \in Places(s) :
                    /\ y = Pair(light, p) /\ LightIndex(light, p.segment) # 0
                    /\ y.global.m_SegmentID = p.segment.m_SegmentID
                    /\ h.m_ParentID = p.segment.m_SegmentID
                    /\ x = Pair(light, At(h, y.global)) /\ LightIndex(light, h) # 0
  <2>1. PICK p \in Places(s) : \E child \in ToSet(Children(s, p.segment)) :
            /\ LightIndex(light, p.segment) # 0 /\ LightIndex(light, child) # 0
            /\ y = Pair(light, p) /\ x = Pair(light, At(child, GlobalOf(light, p)))
    BY <1>2 DEF ChildOf
  <2>2. PICK child \in ToSet(Children(s, p.segment)) :
            /\ LightIndex(light, p.segment) # 0 /\ LightIndex(light, child) # 0
            /\ y = Pair(light, p) /\ x = Pair(light, At(child, GlobalOf(light, p)))
    BY <2>1
  <2>3. p.T \in Vectors /\ p.R \in Matrices /\ p.segment \in ToSet(s.m_Segments)
    BY DEF Places
  <2>4. y.global = GlobalOf(light, p)
    BY <2>2 DEF Pair
  <2>5. /\ GlobalOf(light, p).m_SegmentID = p.segment.m_SegmentID
        /\ GlobalOf(light, p).m_Translation \in Vectors
        /\ GlobalOf(light, p).m_Rotation \in Matrices
    BY <2>2, <2>3, PoseIsTyped DEF GlobalOf
  <2> DEFINE c == At(child, GlobalOf(light, p))
  <2>6. c.T \in Vectors /\ c.R \in Matrices /\ c.segment = child
    BY <2>5 DEF At
  <2> HIDE DEF c
  <2>7. GlobalOf(light, c).m_SegmentID = child.m_SegmentID
    BY <2>2, <2>6, PoseIsTyped DEF GlobalOf
  <2>8. x.global = GlobalOf(light, c)
    BY <2>2 DEF Pair, c
  <2>9. child \in ToSet(s.m_Segments) /\ child.m_ParentID = p.segment.m_SegmentID
    BY ChildIsSegment
  <2>10. child = h
    BY <2>7, <2>8, <2>9, SegmentIDsDiffer
  <2>11. p.segment.m_SegmentID # 0
    BY <2>3, SegmentIDsDiffer
  <2>12. QED
    BY <2>2, <2>4, <2>5, <2>9, <2>10, <2>11
<1>3. QED
  BY <1>1, <1>2 DEF Connected

\* A segment has one pose in the world.
LEMMA OnePose ==
  ASSUME NEW s, Articulated(s), RootPlace(s) \in Places(s), RootPlace(s).segment.m_ParentID = 0,
         NEW light, Lightweight(light), NEW P, Connected(P, s, light, RootPlace(s)),
         NEW a \in P, NEW b \in P, a.global.m_SegmentID = b.global.m_SegmentID
  PROVE  a = b
<1> DEFINE n == Len(s.m_Segments)
<1>1. n \in Nat
  BY SegmentDepth
<1>2. PICK depth \in [ToSet(s.m_Segments) -> 1..n] :
        \A g, h \in ToSet(s.m_Segments) : h.m_ParentID = g.m_SegmentID => depth[g] < depth[h]
  BY SegmentDepth
<1> HIDE DEF n
<1> DEFINE One(k) == \A h \in ToSet(s.m_Segments), x, y \in P :
                        depth[h] < k /\ x.global.m_SegmentID = h.m_SegmentID
                            /\ y.global.m_SegmentID = h.m_SegmentID => x = y
           T == {k \in Nat : One(k)}
<1>3. 0 \in T
  BY <1>2
<1>4. ASSUME NEW k \in Nat, One(k) PROVE One(k + 1)
  <2> SUFFICES ASSUME NEW h \in ToSet(s.m_Segments), depth[h] < k + 1, NEW x \in P, NEW y \in P,
                      x.global.m_SegmentID = h.m_SegmentID, y.global.m_SegmentID = h.m_SegmentID
               PROVE  x = y
    OBVIOUS
  <2> DEFINE Under(z) ==
        \E w \in P, p \in Places(s) :
            /\ w = Pair(light, p) /\ LightIndex(light, p.segment) # 0
            /\ w.global.m_SegmentID = p.segment.m_SegmentID
            /\ h.m_ParentID = p.segment.m_SegmentID
            /\ z = Pair(light, At(h, w.global)) /\ LightIndex(light, h) # 0
  <2>1. \A z \in P : z.global.m_SegmentID = h.m_SegmentID =>
            \/ h = RootPlace(s).segment /\ z = Pair(light, RootPlace(s))
            \/ h.m_ParentID # 0 /\ Under(z)
    BY RootOrChild
  <2>2. CASE h.m_ParentID = 0
    BY <2>1, <2>2
  <2>3. CASE h.m_ParentID # 0
    <3>1. Under(x) /\ Under(y)
      BY <2>1, <2>3
    <3>2. PICK v \in P, p \in Places(s) :
            /\ v.global.m_SegmentID = p.segment.m_SegmentID
            /\ h.m_ParentID = p.segment.m_SegmentID
            /\ x = Pair(light, At(h, v.global))
      BY <3>1
    <3>3. PICK w \in P, q \in Places(s) :
            /\ w.global.m_SegmentID = q.segment.m_SegmentID
            /\ h.m_ParentID = q.segment.m_SegmentID
            /\ y = Pair(light, At(h, w.global))
      BY <3>1
    <3>4. p.segment \in ToSet(s.m_Segments)
      BY DEF Places
    <3>5. depth[p.segment] < k
      BY <1>2, <3>2, <3>4
    <3>6. v = w
      BY <1>4, <3>2, <3>3, <3>4, <3>5
    <3>7. QED
      BY <3>2, <3>3, <3>6
  <2>4. QED
    BY <2>2, <2>3
<1>5. n + 1 \in T
  <2>1. \A k \in Nat : k \in T => k + 1 \in T
    <3> HIDE DEF One
    <3>1. QED
      BY <1>4
  <2> HIDE DEF T
  <2>2. Nat \subseteq T
    BY <1>3, <2>1, SetInduction
  <2>3. QED
    BY <1>1, <2>2
<1>6. PICK h \in ToSet(s.m_Segments) : a.global.m_SegmentID = h.m_SegmentID
  BY PairIs DEF Places
<1>7. depth[h] < n + 1
  BY <1>1, <1>2
<1>8. QED
  BY <1>5, <1>6, <1>7

GlobalsOf(P) == {x.global : x \in P}

LocalsOf(P) == {x.local : x \in P}

\* What is worked out fits together.
LEMMA CalculatedFit ==
  ASSUME NEW s, Articulated(s), RootPlace(s) \in Places(s), RootPlace(s).segment.m_ParentID = 0,
         NEW light, Lightweight(light), NEW P, Connected(P, s, light, RootPlace(s))
  PROVE  PosesFit(GlobalsOf(P), LocalsOf(P), s)
<1>1. ASSUME NEW p \in GlobalsOf(P) \cup LocalsOf(P)
      PROVE  p.m_Translation \in Vectors /\ p.m_Rotation \in Matrices
  BY PairIs DEF GlobalsOf, LocalsOf
<1>2. ASSUME NEW x \in P, NEW y \in P
      PROVE  /\ x.global.m_SegmentID = x.local.m_SegmentID
             /\ x.global.m_SegmentID = y.global.m_SegmentID => x = y
  BY PairIs, OnePose
<1>3. \A p, q \in GlobalsOf(P) : p.m_SegmentID = q.m_SegmentID => p = q
  BY <1>2 DEF GlobalsOf
<1>4. \A p, q \in LocalsOf(P) : p.m_SegmentID = q.m_SegmentID => p = q
  BY <1>2 DEF LocalsOf
<1>5. ASSUME NEW x \in P, NEW h \in ToSet(s.m_Segments), h.m_SegmentID = x.local.m_SegmentID
      PROVE  /\ h = s.m_Segments[RootOf(s)] =>
                    /\ x.global.m_Translation = x.local.m_Translation
                    /\ x.global.m_Rotation = x.local.m_Rotation
             /\ \A parent \in ToSet(s.m_Segments) : h.m_ParentID = parent.m_SegmentID =>
                    \E p \in GlobalsOf(P) :
                        p.m_SegmentID = parent.m_SegmentID /\ PlacedBy(x.global, p, x.local)
  <2>1. x.global.m_SegmentID = h.m_SegmentID
    BY <1>2, <1>5
  <2>2. CASE h = RootPlace(s).segment /\ x = Pair(light, RootPlace(s))
    <3>1. x.global = x.local
      BY <2>2 DEF Pair, GlobalOf, LocalOf, RootPlace
    <3>2. \A parent \in ToSet(s.m_Segments) : h.m_ParentID # parent.m_SegmentID
      BY <2>2, SegmentIDsDiffer
    <3>3. QED
      BY <3>1, <3>2
  <2>3. ASSUME h.m_ParentID # 0, NEW y \in P, NEW p \in Places(s),
               y = Pair(light, p), LightIndex(light, p.segment) # 0,
               y.global.m_SegmentID = p.segment.m_SegmentID,
               h.m_ParentID = p.segment.m_SegmentID,
               x = Pair(light, At(h, y.global)), LightIndex(light, h) # 0
        PROVE  /\ h # s.m_Segments[RootOf(s)]
               /\ y.global.m_SegmentID = h.m_ParentID
               /\ PlacedBy(x.global, y.global, x.local)
    <3> DEFINE q == light.m_Segments[LightIndex(light, h)]
               v == q.m_Translation
               H == HelicalToMatrix(q.m_Rotation)
    <3>1. h # s.m_Segments[RootOf(s)]
      BY <2>3 DEF RootPlace
    <3>2. v \in Vectors /\ H \in Matrices
      BY <2>3, LightSegment, HelicalIsMatrix
    <3>3. /\ x.global = PoseIn(y.global.m_Translation, y.global.m_Rotation, q)
          /\ x.local = PoseIn(Origin, UnitRotation, q)
      BY <2>3 DEF Pair, GlobalOf, LocalOf, At
    <3> HIDE DEF q
    <3>4. /\ x.global.m_Translation
                = Plus(y.global.m_Translation, Apply(y.global.m_Rotation, v))
          /\ x.global.m_Rotation = Times(y.global.m_Rotation, H)
          /\ x.local.m_Translation = Plus(Origin, Apply(UnitRotation, v))
          /\ x.local.m_Rotation = Times(UnitRotation, H)
      BY <3>3 DEF PoseIn
    <3> HIDE DEF v, H
    <3>5. x.local.m_Translation = v
      <4>1. Apply(UnitRotation, v) = v
        BY <3>2, UnitApplied
      <4>2. Plus(Origin, v) = v
        BY <3>2 DEF Plus, Origin, Vectors
      <4>3. QED
        BY <3>4, <4>1, <4>2
    <3>6. x.local.m_Rotation = H
      BY <3>2, <3>4, UnitTimes
    <3>7. QED
      BY <2>3, <3>1, <3>4, <3>5, <3>6 DEF PlacedBy
  <2>4. \/ h = RootPlace(s).segment /\ x = Pair(light, RootPlace(s))
        \/ /\ h.m_ParentID # 0
           /\ \E y \in P, p \in Places(s) :
                /\ y = Pair(light, p) /\ LightIndex(light, p.segment) # 0
                /\ y.global.m_SegmentID = p.segment.m_SegmentID
                /\ h.m_ParentID = p.segment.m_SegmentID
                /\ x = Pair(light, At(h, y.global)) /\ LightIndex(light, h) # 0
    BY <2>1, RootOrChild
  <2>5. QED
    BY <2>2, <2>3, <2>4 DEF GlobalsOf
<1>6. ASSUME NEW l \in LocalsOf(P)
      PROVE  \E g \in GlobalsOf(P) :
                /\ g.m_SegmentID = l.m_SegmentID
                /\ \A h \in ToSet(s.m_Segments) : h.m_SegmentID = l.m_SegmentID =>
                    /\ h = s.m_Segments[RootOf(s)] =>
                            g.m_Translation = l.m_Translation /\ g.m_Rotation = l.m_Rotation
                    /\ \A parent \in ToSet(s.m_Segments) : h.m_ParentID = parent.m_SegmentID =>
                            \E p \in GlobalsOf(P) : /\ p.m_SegmentID = parent.m_SegmentID
                                                    /\ PlacedBy(g, p, l)
  <2>1. PICK x \in P : l = x.local
    BY DEF LocalsOf
  <2>2. x.global \in GlobalsOf(P)
    BY DEF GlobalsOf
  <2>3. QED
    BY <1>2, <1>5, <2>1, <2>2
<1>7. QED
  BY <1>1, <1>3, <1>4, <1>6 DEF PosesFit

-----------------------------------------------------------------------------
(* Quarter turns.                                                          *)

\* A row of a quarter turn.
Unit(v) == AlongAxis(v) /\ DotProduct(v, v) = 1

UnitRow(a, b, c) ==
    \/ a \in {-1, 1} /\ b = 0 /\ c = 0
    \/ a = 0 /\ b \in {-1, 1} /\ c = 0
    \/ a = 0 /\ b = 0 /\ c \in {-1, 1}

LEMMA UnitIsRow ==
  ASSUME NEW v \in Vectors
  PROVE  Unit(v) <=> UnitRow(v[1], v[2], v[3])
<1>1. v[1] \in Int /\ v[2] \in Int /\ v[3] \in Int
  BY DEF Vectors
<1>2. \A n \in Int : n * n = 1 <=> n \in {-1, 1}
  <2> TAKE n \in Int
  <2>1. CASE n \in {-1, 0, 1}
    BY <2>1
  <2>2. CASE n > 1 \/ n < -1
    <3>1. n * n > 1
      BY <2>2
    <3>2. QED
      BY <2>2, <3>1
  <2>3. QED
    BY <2>1, <2>2
<1>3. AlongAxis(v) <=> \/ v[2] = 0 /\ v[3] = 0
                       \/ v[1] = 0 /\ v[3] = 0
                       \/ v[1] = 0 /\ v[2] = 0
  BY DEF AlongAxis
<1>4. DotProduct(v, v) = v[1] * v[1] + v[2] * v[2] + v[3] * v[3]
  BY DEF DotProduct
<1>5. PICK a \in Int, b \in Int, c \in Int : a = v[1] /\ b = v[2] /\ c = v[3]
  BY <1>1
<1>6. 0 * 0 = 0
  OBVIOUS
<1>7. CASE b = 0 /\ c = 0
  BY <1>2, <1>3, <1>4, <1>5, <1>6, <1>7 DEF Unit, UnitRow
<1>8. CASE a = 0 /\ c = 0
  BY <1>2, <1>3, <1>4, <1>5, <1>6, <1>8 DEF Unit, UnitRow
<1>9. CASE a = 0 /\ b = 0
  BY <1>2, <1>3, <1>4, <1>5, <1>6, <1>9 DEF Unit, UnitRow
<1>10. QED
  BY <1>3, <1>5, <1>7, <1>8, <1>9 DEF Unit, UnitRow

\* A quarter turn, entry by entry.
LEMMA QuarterTurnIs ==
  ASSUME NEW R \in Matrices
  PROVE  R \in QuarterTurns <=>
            /\ \A i \in 1..3 : UnitRow(R[i][1], R[i][2], R[i][3])
            /\ R[3][1] = R[1][2] * R[2][3] - R[1][3] * R[2][2]
            /\ R[3][2] = R[1][3] * R[2][1] - R[1][1] * R[2][3]
            /\ R[3][3] = R[1][1] * R[2][2] - R[1][2] * R[2][1]
<1>1. R[1] \in Vectors /\ R[2] \in Vectors /\ R[3] \in Vectors
  BY DEF Matrices
<1>2. (\A i \in 1..3 : AlongAxis(R[i]) /\ DotProduct(R[i], R[i]) = 1)
        <=> \A i \in 1..3 : UnitRow(R[i][1], R[i][2], R[i][3])
  BY <1>1, UnitIsRow DEF Unit
<1>3. \A v \in Vectors : \A a, b, c :
        v = <<a, b, c>> <=> v[1] = a /\ v[2] = b /\ v[3] = c
  <2> TAKE v \in Vectors
  <2> TAKE a, b, c
  <2>1. v = <<v[1], v[2], v[3]>>
    BY DEF Vectors
  <2>2. QED
    BY <2>1
<1>4. R[3] = CrossProduct(R[1], R[2]) <=>
            /\ R[3][1] = R[1][2] * R[2][3] - R[1][3] * R[2][2]
            /\ R[3][2] = R[1][3] * R[2][1] - R[1][1] * R[2][3]
            /\ R[3][3] = R[1][1] * R[2][2] - R[1][2] * R[2][1]
  BY <1>1, <1>3 DEF CrossProduct
<1>5. QED
  BY <1>2, <1>4 DEF QuarterTurns

\* Of three rows like these each is the product of the two others.
LEMMA RowsCycle ==
  ASSUME NEW a \in Int, NEW b \in Int, NEW c \in Int, UnitRow(a, b, c),
         NEW d \in Int, NEW e \in Int, NEW f \in Int, UnitRow(d, e, f),
         UnitRow(b * f - c * e, c * d - a * f, a * e - b * d)
  PROVE  LET g == b * f - c * e
             h == c * d - a * f
             i == a * e - b * d
         IN  /\ a = e * i - f * h /\ b = f * g - d * i /\ c = d * h - e * g
             /\ d = h * c - i * b /\ e = i * a - g * c /\ f = g * b - h * a
<1> USE DEF UnitRow
<1>1. CASE a \in {-1, 1} /\ b = 0 /\ c = 0
  BY <1>1
<1>2. CASE a = 0 /\ b \in {-1, 1} /\ c = 0
  BY <1>2
<1>3. CASE a = 0 /\ b = 0 /\ c \in {-1, 1}
  BY <1>3
<1>4. QED
  BY <1>1, <1>2, <1>3

\* Each row of a quarter turn is the product of the two others.
LEMMA QuarterTurnRows ==
  ASSUME NEW R \in Matrices, R \in QuarterTurns
  PROVE  /\ \A i, j \in 1..3 : R[i][j] \in {-1, 0, 1}
         /\ \A i \in 1..3 : UnitRow(R[i][1], R[i][2], R[i][3])
         /\ R[3] = CrossProduct(R[1], R[2]) /\ R[1] = CrossProduct(R[2], R[3])
         /\ R[2] = CrossProduct(R[3], R[1])
<1> DEFINE a == R[1][1] b == R[1][2] c == R[1][3]
           d == R[2][1] e == R[2][2] f == R[2][3]
           g == R[3][1] h == R[3][2] i == R[3][3]
<1>1. /\ UnitRow(a, b, c) /\ UnitRow(d, e, f) /\ UnitRow(g, h, i)
      /\ g = b * f - c * e /\ h = c * d - a * f /\ i = a * e - b * d
      /\ \A k \in 1..3 : UnitRow(R[k][1], R[k][2], R[k][3])
  BY QuarterTurnIs
<1>2. \A k, j \in 1..3 : R[k][j] \in {-1, 0, 1}
  BY <1>1 DEF UnitRow
<1>3. /\ R[1] = <<a, b, c>> /\ R[2] = <<d, e, f>> /\ R[3] = <<g, h, i>>
  BY DEF Matrices, Vectors
<1>4. a \in Int /\ b \in Int /\ c \in Int /\ d \in Int /\ e \in Int /\ f \in Int
  BY <1>2
<1> HIDE DEF a, b, c, d, e, f, g, h, i
<1>5. /\ a = e * i - f * h /\ b = f * g - d * i /\ c = d * h - e * g
      /\ d = h * c - i * b /\ e = i * a - g * c /\ f = g * b - h * a
  BY <1>1, <1>4, RowsCycle
<1>6. R[3] = CrossProduct(R[1], R[2])
  BY <1>1, <1>3 DEF CrossProduct
<1>7. R[1] = CrossProduct(R[2], R[3]) /\ R[2] = CrossProduct(R[3], R[1])
  BY <1>3, <1>5 DEF CrossProduct
<1>8. QED
  BY <1>1, <1>2, <1>6, <1>7

LEMMA UnitRowTimes ==
  ASSUME NEW p \in Int, NEW q \in Int, NEW r \in Int, UnitRow(p, q, r),
         NEW a \in Int, NEW b \in Int, NEW c \in Int, UnitRow(a, b, c),
         NEW d \in Int, NEW e \in Int, NEW f \in Int, UnitRow(d, e, f),
         NEW g \in Int, NEW h \in Int, NEW i \in Int, UnitRow(g, h, i)
  PROVE  UnitRow(p * a + q * d + r * g, p * b + q * e + r * h, p * c + q * f + r * i)
<1> USE DEF UnitRow
<1>1. CASE p \in {-1, 1} /\ q = 0 /\ r = 0
  BY <1>1
<1>2. CASE p = 0 /\ q \in {-1, 1} /\ r = 0
  BY <1>2
<1>3. CASE p = 0 /\ q = 0 /\ r \in {-1, 1}
  BY <1>3
<1>4. QED
  BY <1>1, <1>2, <1>3

\* The cross product of two rows of a product, coordinate by coordinate: b, c, e, f, h and i stand in
\* two columns of the second matrix.
LEMMA MinorOfProduct ==
  ASSUME NEW p \in Int, NEW q \in Int, NEW r \in Int,
         NEW s \in Int, NEW t \in Int, NEW u \in Int,
         NEW b \in Int, NEW c \in Int, NEW e \in Int, NEW f \in Int, NEW h \in Int, NEW i \in Int
  PROVE  (p * b + q * e + r * h) * (s * c + t * f + u * i)
                - (p * c + q * f + r * i) * (s * b + t * e + u * h)
            = (q * u - r * t) * (e * i - f * h) + (r * s - p * u) * (h * c - i * b)
                + (p * t - q * s) * (b * f - c * e)
OBVIOUS

\* One quarter turn after another is one.
LEMMA QuarterTurnsCompose ==
  ASSUME NEW M \in Matrices, M \in QuarterTurns, NEW N \in Matrices, N \in QuarterTurns
  PROVE  Times(M, N) \in QuarterTurns
<1> DEFINE P == Times(M, N)
<1>1. P \in Matrices
  BY TimesIsMatrix
<1>2. \A i, j \in 1..3 : P[i][j] = M[i][1] * N[1][j] + M[i][2] * N[2][j] + M[i][3] * N[3][j]
  BY TimesAt
<1>3. \A i, j \in 1..3 : M[i][j] \in Int /\ N[i][j] \in Int
  BY DEF Matrices, Vectors
<1>4. /\ \A i \in 1..3 : UnitRow(M[i][1], M[i][2], M[i][3])
      /\ M[3][1] = M[1][2] * M[2][3] - M[1][3] * M[2][2]
      /\ M[3][2] = M[1][3] * M[2][1] - M[1][1] * M[2][3]
      /\ M[3][3] = M[1][1] * M[2][2] - M[1][2] * M[2][1]
  BY QuarterTurnIs
<1>5. \A i \in 1..3 : UnitRow(N[i][1], N[i][2], N[i][3])
  BY QuarterTurnIs
<1>6. /\ N[1][1] = N[2][2] * N[3][3] - N[2][3] * N[3][2]
      /\ N[1][2] = N[2][3] * N[3][1] - N[2][1] * N[3][3]
      /\ N[1][3] = N[2][1] * N[3][2] - N[2][2] * N[3][1]
      /\ N[2][1] = N[3][2] * N[1][3] - N[3][3] * N[1][2]
      /\ N[2][2] = N[3][3] * N[1][1] - N[3][1] * N[1][3]
      /\ N[2][3] = N[3][1] * N[1][2] - N[3][2] * N[1][1]
      /\ N[3][1] = N[1][2] * N[2][3] - N[1][3] * N[2][2]
      /\ N[3][2] = N[1][3] * N[2][1] - N[1][1] * N[2][3]
      /\ N[3][3] = N[1][1] * N[2][2] - N[1][2] * N[2][1]
  BY QuarterTurnRows DEF CrossProduct
<1> HIDE DEF P
<1>7. ASSUME NEW i \in 1..3 PROVE UnitRow(P[i][1], P[i][2], P[i][3])
  <2> DEFINE p == M[i][1] q == M[i][2] r == M[i][3]
             a == N[1][1] b == N[1][2] c == N[1][3]
             d == N[2][1] e == N[2][2] f == N[2][3]
             g == N[3][1] h == N[3][2] k == N[3][3]
  <2>1. /\ p \in Int /\ q \in Int /\ r \in Int /\ a \in Int /\ b \in Int /\ c \in Int
        /\ d \in Int /\ e \in Int /\ f \in Int /\ g \in Int /\ h \in Int /\ k \in Int
    BY <1>3
  <2>2. /\ UnitRow(p, q, r) /\ UnitRow(a, b, c) /\ UnitRow(d, e, f) /\ UnitRow(g, h, k)
    BY <1>4, <1>5
  <2>3. /\ P[i][1] = p * a + q * d + r * g /\ P[i][2] = p * b + q * e + r * h
        /\ P[i][3] = p * c + q * f + r * k
    BY <1>2
  <2> HIDE DEF p, q, r, a, b, c, d, e, f, g, h, k
  <2>4. UnitRow(p * a + q * d + r * g, p * b + q * e + r * h, p * c + q * f + r * k)
    BY <2>1, <2>2, UnitRowTimes
  <2>5. QED
    BY <2>3, <2>4
<1> DEFINE W(m, n, j, k) == N[m][j] * N[n][k] - N[m][k] * N[n][j]
<1>8. ASSUME NEW j \in 1..3, NEW k \in 1..3
      PROVE  P[1][j] * P[2][k] - P[1][k] * P[2][j]
                = M[3][1] * W(2, 3, j, k) + M[3][2] * W(3, 1, j, k) + M[3][3] * W(1, 2, j, k)
  <2> DEFINE p == M[1][1] q == M[1][2] r == M[1][3]
             s == M[2][1] t == M[2][2] u == M[2][3]
             b == N[1][j] c == N[1][k] e == N[2][j] f == N[2][k] h == N[3][j] i == N[3][k]
  <2>1. /\ p \in Int /\ q \in Int /\ r \in Int /\ s \in Int /\ t \in Int /\ u \in Int
        /\ b \in Int /\ c \in Int /\ e \in Int /\ f \in Int /\ h \in Int /\ i \in Int
    BY <1>3
  <2>2. /\ P[1][j] = p * b + q * e + r * h /\ P[2][k] = s * c + t * f + u * i
        /\ P[1][k] = p * c + q * f + r * i /\ P[2][j] = s * b + t * e + u * h
    BY <1>2
  <2>3. /\ M[3][1] = q * u - r * t /\ M[3][2] = r * s - p * u /\ M[3][3] = p * t - q * s
    BY <1>4
  <2> HIDE DEF p, q, r, s, t, u, b, c, e, f, h, i
  <2>4. (p * b + q * e + r * h) * (s * c + t * f + u * i)
                - (p * c + q * f + r * i) * (s * b + t * e + u * h)
            = (q * u - r * t) * (e * i - f * h) + (r * s - p * u) * (h * c - i * b)
                + (p * t - q * s) * (b * f - c * e)
    BY <2>1, MinorOfProduct
  <2>5. P[1][j] * P[2][k] - P[1][k] * P[2][j]
            = M[3][1] * (e * i - f * h) + M[3][2] * (h * c - i * b) + M[3][3] * (b * f - c * e)
    BY <2>2, <2>3, <2>4
  <2>6. QED
    BY <2>5 DEF b, c, e, f, h, i
<1>9. /\ N[1][1] = W(2, 3, 2, 3) /\ N[2][1] = W(3, 1, 2, 3) /\ N[3][1] = W(1, 2, 2, 3)
      /\ N[1][2] = W(2, 3, 3, 1) /\ N[2][2] = W(3, 1, 3, 1) /\ N[3][2] = W(1, 2, 3, 1)
      /\ N[1][3] = W(2, 3, 1, 2) /\ N[2][3] = W(3, 1, 1, 2) /\ N[3][3] = W(1, 2, 1, 2)
  BY <1>3, <1>6
<1> HIDE DEF W
<1>10. /\ P[1][2] * P[2][3] - P[1][3] * P[2][2] = P[3][1]
       /\ P[1][3] * P[2][1] - P[1][1] * P[2][3] = P[3][2]
       /\ P[1][1] * P[2][2] - P[1][2] * P[2][1] = P[3][3]
  BY <1>2, <1>8, <1>9
<1>11. P \in QuarterTurns
  BY <1>1, <1>7, <1>10, QuarterTurnIs
<1>12. QED
  BY <1>11 DEF P

LEMMA ColumnsOfRows ==
  ASSUME NEW a \in Int, NEW b \in Int, NEW c \in Int, UnitRow(a, b, c),
         NEW d \in Int, NEW e \in Int, NEW f \in Int, UnitRow(d, e, f),
         UnitRow(b * f - c * e, c * d - a * f, a * e - b * d)
  PROVE  LET g == b * f - c * e
             h == c * d - a * f
             i == a * e - b * d
         IN  /\ UnitRow(a, d, g) /\ UnitRow(b, e, h) /\ UnitRow(c, f, i)
             /\ c = d * h - g * e /\ f = g * b - a * h /\ i = a * e - d * b
<1> USE DEF UnitRow
<1>1. CASE a \in {-1, 1} /\ b = 0 /\ c = 0
  BY <1>1
<1>2. CASE a = 0 /\ b \in {-1, 1} /\ c = 0
  BY <1>2
<1>3. CASE a = 0 /\ b = 0 /\ c \in {-1, 1}
  BY <1>3
<1>4. QED
  BY <1>1, <1>2, <1>3

\* The way back of a quarter turn is one.
LEMMA QuarterTurnBack ==
  ASSUME NEW R \in Matrices, R \in QuarterTurns
  PROVE  Transpose(R) \in QuarterTurns
<1> DEFINE a == R[1][1] b == R[1][2] c == R[1][3]
           d == R[2][1] e == R[2][2] f == R[2][3]
           g == R[3][1] h == R[3][2] i == R[3][3]
           T == Transpose(R)
<1>1. /\ UnitRow(a, b, c) /\ UnitRow(d, e, f) /\ UnitRow(g, h, i)
      /\ g = b * f - c * e /\ h = c * d - a * f /\ i = a * e - b * d
  BY QuarterTurnIs
<1>2. a \in Int /\ b \in Int /\ c \in Int /\ d \in Int /\ e \in Int /\ f \in Int
  BY DEF Matrices, Vectors
<1>3. /\ T \in Matrices
      /\ T[1][1] = a /\ T[1][2] = d /\ T[1][3] = g
      /\ T[2][1] = b /\ T[2][2] = e /\ T[2][3] = h
      /\ T[3][1] = c /\ T[3][2] = f /\ T[3][3] = i
  BY TransposeIsMatrix
<1> HIDE DEF a, b, c, d, e, f, g, h, i, T
<1>4. /\ UnitRow(a, d, g) /\ UnitRow(b, e, h) /\ UnitRow(c, f, i)
      /\ c = d * h - g * e /\ f = g * b - a * h /\ i = a * e - d * b
  BY <1>1, <1>2, ColumnsOfRows
<1>5. \A k \in 1..3 : UnitRow(T[k][1], T[k][2], T[k][3])
  BY <1>3, <1>4
<1>6. T \in QuarterTurns
  BY <1>3, <1>4, <1>5, QuarterTurnIs
<1>7. QED
  BY <1>6 DEF T

LEMMA UnitIsQuarterTurn == UnitRotation \in QuarterTurns
BY UnitIsMatrix, QuarterTurnIs DEF UnitRow

\* The cosine and the sine of an angle in quarter turns.
LEMMA OnTheCircle ==
  ASSUME NEW n \in Int
  PROVE  /\ \/ Cos(n) = 1 /\ Sin(n) = 0
            \/ Cos(n) = 0 /\ Sin(n) = 1
            \/ Cos(n) = -1 /\ Sin(n) = 0
            \/ Cos(n) = 0 /\ Sin(n) = -1
         /\ Cos(-n) = Cos(n) /\ Sin(-n) = -Sin(n)
<1>1. PICK q \in Int, r \in 0..3 : n = 4 * q + r
  <2>1. n = 4 * (n \div 4) + (n % 4) /\ n % 4 \in 0..3 /\ n \div 4 \in Int
    OBVIOUS
  <2>2. QED
    BY <2>1
<1>2. /\ n % 4 = r /\ (n - 1) % 4 = (IF r = 0 THEN 3 ELSE r - 1)
      /\ (-n) % 4 = (IF r = 0 THEN 0 ELSE 4 - r) /\ ((-n) - 1) % 4 = 3 - r
  BY <1>1
<1>3. \A m \in Int : Cos(m) = IF m % 4 = 0 THEN 1 ELSE IF m % 4 = 2 THEN -1 ELSE 0
  BY DEF Cos
<1>4. /\ Cos(n) = (IF r = 0 THEN 1 ELSE IF r = 2 THEN -1 ELSE 0)
      /\ Cos(-n) = (IF r = 0 THEN 1 ELSE IF r = 2 THEN -1 ELSE 0)
  BY <1>2, <1>3
<1>5. /\ Cos(n - 1) = (IF r = 1 THEN 1 ELSE IF r = 3 THEN -1 ELSE 0)
      /\ Cos((-n) - 1) = (IF r = 3 THEN 1 ELSE IF r = 1 THEN -1 ELSE 0)
  BY <1>2, <1>3
<1>6. QED
  BY <1>1, <1>4, <1>5 DEF Sin

\* The size and the sign of a number, and what they make of its cosine and sine.
LEMMA SizeAndSign ==
  ASSUME NEW n \in Int
  PROVE  /\ Abs(n) \in Nat /\ Sign(n) \in {-1, 0, 1} /\ (Abs(n) = 0 <=> n = 0)
         /\ Cos(Abs(n)) = Cos(n) /\ Cos(Abs(n)) \in Int
         /\ Sin(Abs(n)) * Sign(n) = Sin(n) /\ Sin(Abs(n)) \in Int
         /\ (n # 0 => Sign(n) \in {-1, 1})
         /\ (n = 0 => Cos(n) = 1 /\ Sin(n) = 0 /\ Sign(n) = 0)
<1>1. /\ Cos(n) \in {-1, 0, 1} /\ Sin(n) \in {-1, 0, 1}
      /\ Cos(-n) = Cos(n) /\ Sin(-n) = -Sin(n)
  BY OnTheCircle
<1>2. CASE n > 0
  <2>1. Abs(n) = n /\ Sign(n) = 1
    BY <1>2 DEF Abs, Sign
  <2>2. QED
    BY <1>1, <1>2, <2>1
<1>3. CASE n = 0
  <2>1. Abs(n) = 0 /\ Sign(n) = 0
    BY <1>3 DEF Abs, Sign
  <2>2. Cos(0) = 1 /\ Cos(0 - 1) = 0
    BY DEF Cos
  <2>3. Sin(0) = 0
    BY <2>2 DEF Sin
  <2>4. QED
    BY <1>3, <2>1, <2>2, <2>3
<1>4. CASE n < 0
  <2>1. Abs(n) = -n /\ Sign(n) = -1
    BY <1>4 DEF Abs, Sign
  <2>2. (-Sin(n)) * (-1) = Sin(n)
    BY <1>1
  <2>3. -n \in Nat /\ -n # 0
    BY <1>4
  <2>4. QED
    BY <1>1, <1>4, <2>1, <2>2, <2>3
<1>5. QED
  BY <1>2, <1>3, <1>4

LEMMA MinusNothing == -0 = 0
<1>1. ASSUME NEW n \in Int, n = 0 PROVE 0 - n = 0
  BY <1>1
<1>2. ASSUME NEW n \in Int PROVE -n = 0 - n
  OBVIOUS
<1>3. 0 \in Int
  OBVIOUS
<1>4. QED
  BY <1>1, <1>2, <1>3, Zenon

\* Helical vectors along the axes.
AboutX(c, s) == << <<1, 0, 0>>, <<0, c, -s>>, <<0, s, c>> >>

AboutY(c, s) == << <<c, 0, s>>, <<0, 1, 0>>, <<-s, 0, c>> >>

AboutZ(c, s) == << <<c, -s, 0>>, <<s, c, 0>>, <<0, 0, 1>> >>

LEMMA HelicalAboutX ==
  ASSUME NEW n \in Int
  PROVE  HelicalToMatrix(<<n, 0, 0>>) = AboutX(Cos(n), Sin(n))
<1> DEFINE angle == Abs(n) + Abs(0) + Abs(0)
           a == Sign(n)
           c == Cos(angle)
           s == Sin(angle)
<1>1. Abs(0) = 0 /\ Sign(0) = 0
  BY DEF Abs, Sign
<1>2. Abs(n) \in Nat /\ angle = Abs(n)
  BY <1>1, SizeAndSign
<1>3. /\ c = Cos(n) /\ c \in Int /\ s * a = Sin(n) /\ s \in Int /\ a \in {-1, 0, 1}
      /\ n # 0 => a \in {-1, 1}
      /\ n = 0 => Cos(n) = 1 /\ Sin(n) = 0
      /\ angle = 0 <=> n = 0
  BY <1>2, SizeAndSign
<1>4. HelicalToMatrix(<<n, 0, 0>>) =
        IF angle = 0 THEN UnitRotation
        ELSE << <<c + (1 - c) * a * a, (1 - c) * a * 0 - s * 0, (1 - c) * a * 0 + s * 0>>,
                <<(1 - c) * 0 * a + s * 0, c + (1 - c) * 0 * 0, (1 - c) * 0 * 0 - s * a>>,
                <<(1 - c) * 0 * a - s * 0, (1 - c) * 0 * 0 + s * a, c + (1 - c) * 0 * 0>> >>
  BY <1>1 DEF HelicalToMatrix
<1> HIDE DEF angle, a, c, s
<1>5. CASE n = 0
  <2>1. -0 = 0
    BY MinusNothing
  <2>2. UnitRotation = AboutX(1, 0)
    BY <2>1 DEF UnitRotation, AboutX
  <2>3. QED
    BY <1>3, <1>4, <1>5, <2>2
<1>6. CASE n # 0
  <2>1. /\ c + (1 - c) * a * a = 1 /\ (1 - c) * a * 0 - s * 0 = 0
        /\ (1 - c) * a * 0 + s * 0 = 0 /\ (1 - c) * 0 * a + s * 0 = 0
        /\ c + (1 - c) * 0 * 0 = c /\ (1 - c) * 0 * 0 - s * a = -(s * a)
        /\ (1 - c) * 0 * a - s * 0 = 0 /\ (1 - c) * 0 * 0 + s * a = s * a
    BY <1>3, <1>6
  <2>2. QED
    BY <1>3, <1>4, <1>6, <2>1 DEF AboutX
<1>7. QED
  BY <1>5, <1>6

LEMMA HelicalAboutY ==
  ASSUME NEW n \in Int
  PROVE  HelicalToMatrix(<<0, n, 0>>) = AboutY(Cos(n), Sin(n))
<1> DEFINE angle == Abs(0) + Abs(n) + Abs(0)
           a == Sign(n)
           c == Cos(angle)
           s == Sin(angle)
<1>1. Abs(0) = 0 /\ Sign(0) = 0
  BY DEF Abs, Sign
<1>2. Abs(n) \in Nat /\ angle = Abs(n)
  BY <1>1, SizeAndSign
<1>3. /\ c = Cos(n) /\ c \in Int /\ s * a = Sin(n) /\ s \in Int /\ a \in {-1, 0, 1}
      /\ n # 0 => a \in {-1, 1}
      /\ n = 0 => Cos(n) = 1 /\ Sin(n) = 0
      /\ angle = 0 <=> n = 0
  BY <1>2, SizeAndSign
<1>4. HelicalToMatrix(<<0, n, 0>>) =
        IF angle = 0 THEN UnitRotation
        ELSE << <<c + (1 - c) * 0 * 0, (1 - c) * 0 * a - s * 0, (1 - c) * 0 * 0 + s * a>>,
                <<(1 - c) * a * 0 + s * 0, c + (1 - c) * a * a, (1 - c) * a * 0 - s * 0>>,
                <<(1 - c) * 0 * 0 - s * a, (1 - c) * 0 * a + s * 0, c + (1 - c) * 0 * 0>> >>
  BY <1>1 DEF HelicalToMatrix
<1> HIDE DEF angle, a, c, s
<1>5. CASE n = 0
  <2>1. -0 = 0
    BY MinusNothing
  <2>2. UnitRotation = AboutY(1, 0)
    BY <2>1 DEF UnitRotation, AboutY
  <2>3. QED
    BY <1>3, <1>4, <1>5, <2>2
<1>6. CASE n # 0
  <2>1. /\ c + (1 - c) * 0 * 0 = c /\ (1 - c) * 0 * a - s * 0 = 0
        /\ (1 - c) * 0 * 0 + s * a = s * a /\ (1 - c) * a * 0 + s * 0 = 0
        /\ c + (1 - c) * a * a = 1 /\ (1 - c) * a * 0 - s * 0 = 0
        /\ (1 - c) * 0 * 0 - s * a = -(s * a) /\ (1 - c) * 0 * a + s * 0 = 0
    BY <1>3, <1>6
  <2>2. QED
    BY <1>3, <1>4, <1>6, <2>1 DEF AboutY
<1>7. QED
  BY <1>5, <1>6

LEMMA HelicalAboutZ ==
  ASSUME NEW n \in Int
  PROVE  HelicalToMatrix(<<0, 0, n>>) = AboutZ(Cos(n), Sin(n))
<1> DEFINE angle == Abs(0) + Abs(0) + Abs(n)
           a == Sign(n)
           c == Cos(angle)
           s == Sin(angle)
<1>1. Abs(0) = 0 /\ Sign(0) = 0
  BY DEF Abs, Sign
<1>2. Abs(n) \in Nat /\ angle = Abs(n)
  BY <1>1, SizeAndSign
<1>3. /\ c = Cos(n) /\ c \in Int /\ s * a = Sin(n) /\ s \in Int /\ a \in {-1, 0, 1}
      /\ n # 0 => a \in {-1, 1}
      /\ n = 0 => Cos(n) = 1 /\ Sin(n) = 0
      /\ angle = 0 <=> n = 0
  BY <1>2, SizeAndSign
<1>4. HelicalToMatrix(<<0, 0, n>>) =
        IF angle = 0 THEN UnitRotation
        ELSE << <<c + (1 - c) * 0 * 0, (1 - c) * 0 * 0 - s * a, (1 - c) * 0 * a + s * 0>>,
                <<(1 - c) * 0 * 0 + s * a, c + (1 - c) * 0 * 0, (1 - c) * 0 * a - s * 0>>,
                <<(1 - c) * a * 0 - s * 0, (1 - c) * a * 0 + s * 0, c + (1 - c) * a * a>> >>
  BY <1>1 DEF HelicalToMatrix
<1> HIDE DEF angle, a, c, s
<1>5. CASE n = 0
  <2>1. -0 = 0
    BY MinusNothing
  <2>2. UnitRotation = AboutZ(1, 0)
    BY <2>1 DEF UnitRotation, AboutZ
  <2>3. QED
    BY <1>3, <1>4, <1>5, <2>2
<1>6. CASE n # 0
  <2>1. /\ c + (1 - c) * 0 * 0 = c /\ (1 - c) * 0 * 0 - s * a = -(s * a)
        /\ (1 - c) * 0 * a + s * 0 = 0 /\ (1 - c) * 0 * 0 + s * a = s * a
        /\ (1 - c) * 0 * a - s * 0 = 0 /\ (1 - c) * a * 0 - s * 0 = 0
        /\ (1 - c) * a * 0 + s * 0 = 0 /\ c + (1 - c) * a * a = 1
    BY <1>3, <1>6
  <2>2. QED
    BY <1>3, <1>4, <1>6, <2>1 DEF AboutZ
<1>7. QED
  BY <1>5, <1>6

\* A helical vector along an axis is a quarter turn, how often ever it goes round.
LEMMA HelicalIsQuarterTurn ==
  ASSUME NEW v \in Vectors, AlongAxis(v)
  PROVE  HelicalToMatrix(v) \in QuarterTurns
<1> DEFINE R == HelicalToMatrix(v)
<1>1. R \in Matrices
  BY HelicalIsMatrix
<1>2. v[1] \in Int /\ v[2] \in Int /\ v[3] \in Int /\ v = <<v[1], v[2], v[3]>>
  BY DEF Vectors
<1>3. \E n \in Int : v = <<n, 0, 0>> \/ v = <<0, n, 0>> \/ v = <<0, 0, n>>
  BY <1>2 DEF AlongAxis
<1>4. PICK n \in Int : v = <<n, 0, 0>> \/ v = <<0, n, 0>> \/ v = <<0, 0, n>>
  BY <1>3
<1> DEFINE c == Cos(n)
           s == Sin(n)
<1>5. \/ c \in {-1, 1} /\ s = 0
      \/ c = 0 /\ s \in {-1, 1}
  BY OnTheCircle
<1>6. R = AboutX(c, s) \/ R = AboutY(c, s) \/ R = AboutZ(c, s)
  BY <1>4, HelicalAboutX, HelicalAboutY, HelicalAboutZ
<1> HIDE DEF R, c, s
<1>7. CASE R = AboutX(c, s)
  <2>1. /\ R[1][1] = 1 /\ R[1][2] = 0 /\ R[1][3] = 0
        /\ R[2][1] = 0 /\ R[2][2] = c /\ R[2][3] = -s
        /\ R[3][1] = 0 /\ R[3][2] = s /\ R[3][3] = c
    BY <1>7 DEF AboutX
  <2>2. QED
    BY <1>1, <1>5, <2>1, QuarterTurnIs DEF UnitRow, R
<1>8. CASE R = AboutY(c, s)
  <2>1. /\ R[1][1] = c /\ R[1][2] = 0 /\ R[1][3] = s
        /\ R[2][1] = 0 /\ R[2][2] = 1 /\ R[2][3] = 0
        /\ R[3][1] = -s /\ R[3][2] = 0 /\ R[3][3] = c
    BY <1>8 DEF AboutY
  <2>2. QED
    BY <1>1, <1>5, <2>1, QuarterTurnIs DEF UnitRow, R
<1>9. CASE R = AboutZ(c, s)
  <2>1. /\ R[1][1] = c /\ R[1][2] = -s /\ R[1][3] = 0
        /\ R[2][1] = s /\ R[2][2] = c /\ R[2][3] = 0
        /\ R[3][1] = 0 /\ R[3][2] = 0 /\ R[3][3] = 1
    BY <1>9 DEF AboutZ
  <2>2. QED
    BY <1>1, <1>5, <2>1, QuarterTurnIs DEF UnitRow, R
<1>10. QED
  BY <1>6, <1>7, <1>8, <1>9

-----------------------------------------------------------------------------
(* The subjects of a frame, one after another.                             *)

\* What was sent of a subject is along the axes.
AlongAxes(light) == \A p \in ToSet(light.m_Segments) : AlongAxis(p.m_Rotation)

\* Below a segment that is turned by quarter turns every segment is.
LEMMA PosesTurn ==
  ASSUME NEW s, Articulated(s), NEW light, Lightweight(light), AlongAxes(light),
         NEW gone, NEW f, Poses(f, s, light, gone),
         NEW place \in Places(s), place.R \in QuarterTurns
  PROVE  \A x \in f[place] : x.global.m_Rotation \in QuarterTurns
<1> DEFINE n == Len(s.m_Segments)
<1>1. n \in Nat
  BY SegmentDepth
<1>2. PICK depth \in [ToSet(s.m_Segments) -> 1..n] :
        \A g, h \in ToSet(s.m_Segments) : h.m_ParentID = g.m_SegmentID => depth[g] < depth[h]
  BY SegmentDepth
<1> HIDE DEF n
<1> DEFINE Good(at) == at.R \in QuarterTurns =>
                            \A x \in f[at] : x.global.m_Rotation \in QuarterTurns
           T == {k \in Nat : \A at \in Places(s) : n - depth[at.segment] < k => Good(at)}
<1>3. \A at \in Places(s) : depth[at.segment] \in 1..n
  BY <1>2 DEF Places
<1>4. 0 \in T
  BY <1>1, <1>3
<1>5. ASSUME NEW k \in Nat, k \in T PROVE k + 1 \in T
  <2> SUFFICES ASSUME NEW at \in Places(s), n - depth[at.segment] < k + 1,
                      at.R \in QuarterTurns, NEW x \in f[at]
               PROVE  x.global.m_Rotation \in QuarterTurns
    OBVIOUS
  <2>1. f[at] = PosesAt(f, s, light, at, gone)
    BY DEF Poses
  <2>2. /\ LightIndex(light, at.segment) # 0
        /\ x = Pair(light, at) \/ \E below \in Below(f, s, light, at, gone) : x \in below
    BY <2>1 DEF PosesAt
  <2> DEFINE global == GlobalOf(light, at)
  <2>3. global.m_Rotation \in QuarterTurns
    <3> DEFINE q == light.m_Segments[LightIndex(light, at.segment)]
    <3>1. q.m_Rotation \in Vectors /\ AlongAxis(q.m_Rotation)
      BY <2>2, LightSegment DEF AlongAxes
    <3> HIDE DEF q
    <3>2. /\ HelicalToMatrix(q.m_Rotation) \in Matrices
          /\ HelicalToMatrix(q.m_Rotation) \in QuarterTurns
      BY <3>1, HelicalIsMatrix, HelicalIsQuarterTurn
    <3>3. Times(at.R, HelicalToMatrix(q.m_Rotation)) \in QuarterTurns
      BY <3>2, QuarterTurnsCompose DEF QuarterTurns
    <3>4. QED
      BY <3>3 DEF GlobalOf, PoseIn, q
  <2>4. CASE x = Pair(light, at)
    BY <2>3, <2>4 DEF Pair
  <2>5. ASSUME NEW below \in Below(f, s, light, at, gone), x \in below
        PROVE  x.global.m_Rotation \in QuarterTurns
    <3>1. PICK child \in ToSet(Children(s, at.segment)) : below = f[At(child, global)]
      BY DEF Below, ChildrenFollowed
    <3> DEFINE c == At(child, global)
    <3>2. c \in Places(s)
      BY <2>2, PlaceOfChild
    <3>3. c.segment = child /\ c.R \in QuarterTurns
      BY <2>3 DEF At
    <3>4. at.segment \in ToSet(s.m_Segments)
      BY DEF Places
    <3>5. depth[at.segment] < depth[child]
      BY <1>2, <3>4, ChildIsSegment
    <3>6. x \in f[c]
      BY <2>5, <3>1
    <3> HIDE DEF c
    <3>7. n - depth[c.segment] < k
      BY <1>1, <1>3, <3>2, <3>3, <3>5
    <3>8. Good(c)
      BY <1>5, <3>2, <3>7
    <3>9. QED
      BY <3>3, <3>6, <3>8
  <2>6. QED
    BY <2>2, <2>4, <2>5
<1>6. n \in T
  <2> HIDE DEF T
  <2>1. Nat \subseteq T
    BY <1>4, <1>5, SetInduction
  <2>2. QED
    BY <1>1, <2>1
<1>7. n - depth[place.segment] < n
  BY <1>1, <1>3
<1>8. QED
  BY <1>6, <1>7

\* The elements of a finite set, in a sequence.
LEMMA SequenceOfSet ==
  ASSUME NEW S, IsFiniteSet(S)
  PROVE  /\ Len(SetToSeq(S)) \in Nat /\ DOMAIN SetToSeq(S) = 1..Len(SetToSeq(S))
         /\ {SetToSeq(S)[n] : n \in DOMAIN SetToSeq(S)} = S
<1> DEFINE c == Cardinality(S)
           q == SetToSeq(S)
<1>1. c \in Nat /\ ExistsBijection(1..c, S)
  BY FS_CardinalityType
<1>2. \E f \in [1..c -> S] : IsInjective(f)
  BY <1>1 DEF ExistsBijection, Bijection, Injection
<1>3. q \in [1..c -> S] /\ IsInjective(q)
  BY <1>2 DEF SetToSeq
<1> HIDE DEF q
<1>4. q \in Injection(1..c, S)
  BY <1>3 DEF Injection
<1>5. IsFiniteSet(1..c) /\ Cardinality(1..c) = c
  <2>1. IsFiniteSet(1..c) /\ Cardinality(1..c) = IF 1 > c THEN 0 ELSE c - 1 + 1
    BY <1>1, FS_Interval
  <2>2. QED
    BY <1>1, <2>1
<1>6. q \in Surjection(1..c, S)
  BY <1>4, <1>5, FS_Injection
<1>7. \A e \in S : \E n \in 1..c : q[n] = e
  BY <1>6 DEF Surjection
<1>8. Len(q) = c /\ DOMAIN q = 1..c
  BY <1>1, <1>3
<1>9. {q[n] : n \in DOMAIN q} = S
  BY <1>3, <1>7, <1>8
<1>10. QED
  BY <1>1, <1>8, <1>9 DEF q

\* An object for a subject.
ObjectOf(s, poses) == [m_SubjectID |-> s.m_SubjectID, m_Segments |-> poses]

KindOf(poses, kind) == [n \in DOMAIN poses |-> poses[n][kind]]

LEMMA SequenceByDomain ==
  ASSUME NEW q, NEW n \in Nat, DOMAIN q = 1..n, q = [i \in 1..n |-> q[i]]
  PROVE  IsSequence(q) /\ ToSet(q) = {q[i] : i \in 1..n}
<1>1. \A i \in 1..n : q[i] \in ToSet(q)
  BY DEF ToSet
<1>2. q \in [1..n -> ToSet(q)]
  BY <1>1
<1>3. q \in Seq(ToSet(q))
  BY <1>2, SeqDef
<1>4. QED
  BY <1>3 DEF IsSequence, ToSet

LEMMA PosesInSequence ==
  ASSUME NEW S, IsFiniteSet(S)
  PROVE  LET poses == SetToSeq(S)
         IN  /\ IsSequence(KindOf(poses, "global"))
             /\ IsSequence(KindOf(poses, "local"))
             /\ ToSet(KindOf(poses, "global")) = GlobalsOf(S)
             /\ ToSet(KindOf(poses, "local")) = LocalsOf(S)
<1> DEFINE poses == SetToSeq(S)
           n == Len(poses)
<1>1. /\ n \in Nat /\ DOMAIN poses = 1..n
      /\ {poses[k] : k \in 1..n} = S
  BY SequenceOfSet
<1> HIDE DEF poses, n
<1>2. ASSUME NEW kind
      PROVE  /\ IsSequence(KindOf(poses, kind))
             /\ ToSet(KindOf(poses, kind)) = {x[kind] : x \in S}
  <2> DEFINE q == KindOf(poses, kind)
  <2>1. DOMAIN q = 1..n /\ q = [i \in 1..n |-> q[i]] /\ \A i \in 1..n : q[i] = poses[i][kind]
    BY <1>1 DEF KindOf
  <2> HIDE DEF q
  <2>2. IsSequence(q) /\ ToSet(q) = {q[i] : i \in 1..n}
    BY <1>1, <2>1, SequenceByDomain
  <2>3. {q[i] : i \in 1..n} = {x[kind] : x \in S}
    BY <1>1, <2>1
  <2>4. QED
    BY <2>2, <2>3 DEF q
<1>3. GlobalsOf(S) = {x["global"] : x \in S} /\ LocalsOf(S) = {x["local"] : x \in S}
  BY DEF GlobalsOf, LocalsOf
<1>4. QED
  BY <1>2, <1>3 DEF poses

LEMMA OneMore ==
  ASSUME NEW q, IsSequence(q), NEW e
  PROVE  /\ IsSequence(Append(q, e))
         /\ DOMAIN Append(q, e) = DOMAIN q \cup {Len(q) + 1}
         /\ Len(q) + 1 \notin DOMAIN q
         /\ \A n \in DOMAIN q : Append(q, e)[n] = q[n]
         /\ Append(q, e)[Len(q) + 1] = e
<1> DEFINE S == ToSet(q) \cup {e}
           r == Append(q, e)
           n == Len(q)
<1>1. q \in Seq(S) /\ e \in S /\ n \in Nat /\ DOMAIN q = 1..n
  <2>1. q \in Seq(ToSet(q))
    BY DEF IsSequence
  <2>2. QED
    BY <2>1
<1>2. /\ r \in Seq(S) /\ Len(r) = n + 1 /\ DOMAIN r = 1..(n + 1)
      /\ r[n + 1] = e /\ \A i \in 1..n : r[i] = q[i]
  BY <1>1
<1>3. r = [i \in 1..(n + 1) |-> r[i]]
  <2> HIDE DEF r, n, S
  <2>1. r \in [1..Len(r) -> S]
    BY <1>2, LenProperties
  <2>2. QED
    BY <1>2, <2>1
<1>4. IsSequence(r)
  <2> HIDE DEF r, n
  <2>1. n + 1 \in Nat
    BY <1>1
  <2>2. QED
    BY <1>2, <1>3, <2>1, SequenceByDomain
<1>5. QED
  BY <1>1, <1>2, <1>4

\* The poses of one subject more.
LEMMA PosesWithObject ==
  ASSUME NEW objects, Objects(objects), NEW s, NEW poses, IsSequence(poses), NEW t
  PROVE  LET more == Append(objects, ObjectOf(s, poses))
         IN  /\ Objects(more)
             /\ PosesIn(more, t) = PosesIn(objects, t)
                    \cup (IF t.m_SubjectID = s.m_SubjectID THEN ToSet(poses) ELSE {})
             /\ Turned(objects) /\ (\A p \in ToSet(poses) : p.m_Rotation \in QuarterTurns)
                    => Turned(more)
<1> DEFINE o == ObjectOf(s, poses)
           more == Append(objects, o)
<1>1. /\ IsSequence(more) /\ DOMAIN more = DOMAIN objects \cup {Len(objects) + 1}
      /\ Len(objects) + 1 \notin DOMAIN objects
      /\ \A n \in DOMAIN objects : more[n] = objects[n]
      /\ more[Len(objects) + 1] = o
  BY OneMore DEF Objects
<1> HIDE DEF more
<1>2. o.m_SubjectID = s.m_SubjectID /\ o.m_Segments = poses
  BY DEF ObjectOf
<1> HIDE DEF o
<1>3. Objects(more)
  BY <1>1, <1>2 DEF Objects
<1>4. ASSUME NEW p
      PROVE  p \in PosesIn(more, t) <=>
                \/ p \in PosesIn(objects, t)
                \/ t.m_SubjectID = s.m_SubjectID /\ p \in ToSet(poses)
  BY <1>1, <1>2 DEF PosesIn
<1>5. PosesIn(more, t) = PosesIn(objects, t)
            \cup (IF t.m_SubjectID = s.m_SubjectID THEN ToSet(poses) ELSE {})
  BY <1>4
<1>6. Turned(objects) /\ (\A p \in ToSet(poses) : p.m_Rotation \in QuarterTurns) => Turned(more)
  BY <1>1, <1>2 DEF Turned
<1>7. QED
  BY <1>3, <1>5, <1>6 DEF more, o

\* Objects whose poses fit together for every subject of a frame.
Fitting(f, objects) ==
    /\ DOMAIN objects = {"global", "local", "ended"}
    /\ Objects(objects.global) /\ Objects(objects.local)
    /\ \A s \in ToSet(f.m_Subjects) :
        PosesFit(PosesIn(objects.global, s), PosesIn(objects.local, s), s)
    /\ RightAngled(f) => Turned(objects.global)

LEMMA SubjectIDsDiffer ==
  ASSUME NEW f, WellFormed(f), NEW s \in ToSet(f.m_Subjects), NEW t \in ToSet(f.m_Subjects)
  PROVE  /\ Articulated(s)
         /\ s.m_SubjectID = t.m_SubjectID => s = t
<1>1. \A e \in ToSet(f.m_Subjects) : \E n \in DOMAIN f.m_Subjects : e = f.m_Subjects[n]
  <2>1. IsSequence(f.m_Subjects)
    BY DEF WellFormed
  <2>2. QED
    BY <2>1, IsSequenceIs
<1>2. \A m, n \in DOMAIN f.m_Subjects :
            /\ Articulated(f.m_Subjects[n])
            /\ f.m_Subjects[m].m_SubjectID = f.m_Subjects[n].m_SubjectID => m = n
  BY DEF WellFormed
<1>3. QED
  BY <1>1, <1>2

\* What was sent for a subject.
LightOf(f, s) == SelectInSeq(f.m_LightweightSegments, LAMBDA o : o.m_SubjectID = s.m_SubjectID)

LEMMA LightFound ==
  ASSUME NEW f, WellFormed(f), NEW s, LightOf(f, s) # 0
  PROVE  /\ Lightweight(f.m_LightweightSegments[LightOf(f, s)])
         /\ RightAngled(f) => AlongAxes(f.m_LightweightSegments[LightOf(f, s)])
<1> DEFINE t == f.m_LightweightSegments
           T == {i \in 1..Len(t) : t[i].m_SubjectID = s.m_SubjectID}
<1>1. WithPosesThatFit(f)
  BY DEF WellFormed
<1>2. Len(t) \in Nat /\ DOMAIN t = 1..Len(t)
  BY <1>1, IsSequenceIs DEF WithPosesThatFit, Objects
<1>3. LightOf(f, s) = IF T # {} THEN Min(T) ELSE 0
  BY DEF LightOf, SelectInSeq
<1>4. T # {} /\ T \subseteq 1..Len(t)
  BY <1>3
<1>5. Min(T) \in T
  BY <1>2, <1>4, FirstPlace
<1>6. LightOf(f, s) \in DOMAIN t
  BY <1>2, <1>3, <1>4, <1>5
<1>7. QED
  BY <1>1, <1>6 DEF WithPosesThatFit, Objects, Lightweight, RightAngled, AlongAxes

LEMMA RootIs ==
  ASSUME NEW s, Articulated(s), RootOf(s) # 0
  PROVE  RootPlace(s) \in Places(s) /\ RootPlace(s).segment.m_ParentID = 0
<1> DEFINE t == s.m_Segments
           T == {i \in 1..Len(t) : t[i].m_ParentID = 0}
<1>1. Len(t) \in Nat /\ DOMAIN t = 1..Len(t) /\ \A n \in DOMAIN t : t[n] \in ToSet(t)
  BY IsSequenceIs DEF Articulated
<1>2. RootOf(s) = IF T # {} THEN Min(T) ELSE 0
  BY DEF RootOf, SelectInSeq
<1>3. T # {} /\ T \subseteq 1..Len(t)
  BY <1>2
<1>4. RootOf(s) \in T
  BY <1>1, <1>2, <1>3, FirstPlace
<1>5. Origin \in Vectors
  BY DEF Origin, Vectors
<1>6. QED
  BY <1>1, <1>4, <1>5, UnitIsMatrix DEF RootPlace, Places

\* What is worked out for a subject.
LEMMA PosesOfFit ==
  ASSUME NEW s, Articulated(s), RootOf(s) # 0, NEW light, Lightweight(light), NEW gone
  PROVE  /\ IsFiniteSet(PosesOf(s, light, gone))
         /\ PosesFit(GlobalsOf(PosesOf(s, light, gone)), LocalsOf(PosesOf(s, light, gone)), s)
         /\ AlongAxes(light) =>
                \A p \in GlobalsOf(PosesOf(s, light, gone)) : p.m_Rotation \in QuarterTurns
<1> DEFINE f == CHOOSE f : Poses(f, s, light, gone)
           P == PosesOf(s, light, gone)
<1>1. Poses(f, s, light, gone)
  BY PosesExist
<1>2. P = f[RootPlace(s)]
  BY PosesOfIs
<1> HIDE DEF f, P
<1>3. IsFiniteSet(P) /\ Connected(P, s, light, RootPlace(s))
  BY <1>1, <1>2, RootIs, PosesAreConnected
<1>4. PosesFit(GlobalsOf(P), LocalsOf(P), s)
  BY <1>3, RootIs, CalculatedFit
<1>5. ASSUME AlongAxes(light), NEW p \in GlobalsOf(P) PROVE p.m_Rotation \in QuarterTurns
  <2>1. RootPlace(s).R \in QuarterTurns
    BY UnitIsQuarterTurn DEF RootPlace
  <2>2. \A x \in P : x.global.m_Rotation \in QuarterTurns
    BY <1>1, <1>2, <1>5, <2>1, RootIs, PosesTurn
  <2>3. QED
    BY <2>2 DEF GlobalsOf
<1>6. QED
  BY <1>3, <1>4, <1>5 DEF P

LEMMA NoObject ==
  ASSUME NEW objects, NEW s, ~HasObjectOf(objects, s)
  PROVE  PosesIn(objects, s) = {}
BY DEF HasObjectOf, PosesIn

\* One subject more leaves the poses fitting together.
LEMMA StepFits ==
  ASSUME NEW f, WellFormed(f), NEW objects, Fitting(f, objects),
         NEW s \in ToSet(f.m_Subjects), NEW gone
  PROVE  Fitting(f, WithSubjectPosed(f, objects, s, gone))
<1> DEFINE i == LightOf(f, s)
           light == f.m_LightweightSegments[i]
           ended == [objects EXCEPT !.ended = TRUE]
<1>1. WithSubjectPosed(f, objects, s, gone) =
        IF \/ objects.ended \/ RootOf(s) = 0
           \/ PosingCall("GetSubjectRootSegmentName", s, 0) \in gone
        THEN ended
        ELSE IF i = 0 THEN objects
        ELSE IF HasObjectOf(objects.global, s) \/ HasObjectOf(objects.local, s) THEN ended
        ELSE WithPosesOf(objects, s, light, gone)
  BY DEF WithSubjectPosed, LightOf
<1>2. Fitting(f, ended)
  <2>1. DOMAIN ended = DOMAIN objects
    OBVIOUS
  <2>2. ended.global = objects.global /\ ended.local = objects.local
    BY DEF Fitting
  <2>3. QED
    BY <2>1, <2>2 DEF Fitting
<1>3. ASSUME RootOf(s) # 0, i # 0, ~HasObjectOf(objects.global, s), ~HasObjectOf(objects.local, s)
      PROVE  Fitting(f, WithPosesOf(objects, s, light, gone))
  <2> DEFINE P == PosesOf(s, light, gone)
             poses == SetToSeq(P)
             globals == KindOf(poses, "global")
             locals == KindOf(poses, "local")
             more == [objects EXCEPT !.global = Append(objects.global, ObjectOf(s, globals)),
                                     !.local = Append(objects.local, ObjectOf(s, locals))]
  <2>1. WithPosesOf(objects, s, light, gone) = IF P = {} THEN objects ELSE more
    BY DEF WithPosesOf, ObjectOf, KindOf
  <2>2. Articulated(s) /\ Lightweight(light)
    BY <1>3, SubjectIDsDiffer, LightFound
  <2>3. /\ IsFiniteSet(P) /\ PosesFit(GlobalsOf(P), LocalsOf(P), s)
        /\ RightAngled(f) => \A p \in GlobalsOf(P) : p.m_Rotation \in QuarterTurns
    BY <1>3, <2>2, PosesOfFit, LightFound
  <2>4. /\ IsSequence(globals) /\ ToSet(globals) = GlobalsOf(P)
        /\ IsSequence(locals) /\ ToSet(locals) = LocalsOf(P)
    BY <2>3, PosesInSequence
  <2> HIDE DEF P, poses, globals, locals
  <2>5. /\ DOMAIN more = DOMAIN objects
        /\ more.global = Append(objects.global, ObjectOf(s, globals))
        /\ more.local = Append(objects.local, ObjectOf(s, locals))
    BY DEF Fitting
  <2> HIDE DEF more
  <2>6. Objects(more.global) /\ Objects(more.local)
    BY <2>4, <2>5, PosesWithObject DEF Fitting
  <2>7. ASSUME NEW t \in ToSet(f.m_Subjects)
        PROVE  PosesFit(PosesIn(more.global, t), PosesIn(more.local, t), t)
    <3>1. /\ PosesIn(more.global, t) = PosesIn(objects.global, t)
                \cup (IF t.m_SubjectID = s.m_SubjectID THEN ToSet(globals) ELSE {})
          /\ PosesIn(more.local, t) = PosesIn(objects.local, t)
                \cup (IF t.m_SubjectID = s.m_SubjectID THEN ToSet(locals) ELSE {})
      BY <2>4, <2>5, PosesWithObject DEF Fitting
    <3>2. CASE t.m_SubjectID = s.m_SubjectID
      <4>1. t = s
        BY <3>2, SubjectIDsDiffer
      <4>2. PosesIn(objects.global, t) = {} /\ PosesIn(objects.local, t) = {}
        BY <1>3, <4>1, NoObject
      <4>3. /\ PosesIn(more.global, t) = GlobalsOf(P)
            /\ PosesIn(more.local, t) = LocalsOf(P)
        BY <2>4, <3>1, <3>2, <4>2
      <4>4. QED
        BY <2>3, <4>1, <4>3
    <3>3. CASE t.m_SubjectID # s.m_SubjectID
      <4>1. /\ PosesIn(more.global, t) = PosesIn(objects.global, t)
            /\ PosesIn(more.local, t) = PosesIn(objects.local, t)
        BY <3>1, <3>3
      <4>2. QED
        BY <4>1 DEF Fitting
    <3>4. QED
      BY <3>2, <3>3
  <2>8. RightAngled(f) => Turned(more.global)
    BY <2>3, <2>4, <2>5, PosesWithObject DEF Fitting
  <2>9. Fitting(f, more)
    BY <2>5, <2>6, <2>7, <2>8 DEF Fitting
  <2>10. QED
    BY <2>1, <2>9
<1>4. QED
  BY <1>1, <1>2, <1>3

\* The objects after the subjects at some places.
PosedUpTo(frame, base, places, objects, gone) ==
    IF places = {} THEN base
    ELSE WithSubjectPosed(frame, objects, frame.m_Subjects[Max(places)], gone)

Posings(f, frame, base, n, gone) ==
    f = [places \in SUBSET (1..n) |->
            PosedUpTo(frame, base, places, f[places \ {Max(places)}], gone)]

LEMMA PosingsExist ==
  ASSUME NEW frame, NEW base, NEW n \in Nat, NEW gone
  PROVE  \E f : Posings(f, frame, base, n, gone)
<1> DEFINE T == {m \in Nat : \E f : Posings(f, frame, base, m, gone)}
<1>1. 0 \in T
  <2> DEFINE f == [places \in SUBSET (1..0) |-> base]
  <2>1. \A places \in SUBSET (1..0) : places = {}
    OBVIOUS
  <2>2. Posings(f, frame, base, 0, gone)
    BY <2>1 DEF Posings, PosedUpTo
  <2>3. QED
    BY <2>2
<1>2. ASSUME NEW m \in Nat, m \in T PROVE m + 1 \in T
  <2>1. PICK f : Posings(f, frame, base, m, gone)
    BY <1>2
  <2> DEFINE g == [places \in SUBSET (1..m + 1) |->
                    IF m + 1 \in places
                    THEN PosedUpTo(frame, base, places, f[places \ {m + 1}], gone) ELSE f[places]]
  <2>2. ASSUME NEW places \in SUBSET (1..m + 1)
        PROVE  g[places] = PosedUpTo(frame, base, places, g[places \ {Max(places)}], gone)
    <3>1. CASE m + 1 \in places
      <4>1. Max(places) \in places /\ \A k \in places : k <= Max(places)
        <5>1. m + 1 \in Nat /\ places \subseteq 1..(m + 1) /\ places # {}
          BY <3>1
        <5>2. QED
          BY <5>1, GreatestUpTo
      <4>2. Max(places) = m + 1
        <5>1. Max(places) \in 1..m + 1 /\ m + 1 <= Max(places)
          BY <3>1, <4>1
        <5>2. QED
          BY <5>1
      <4>3. /\ places \ {m + 1} \in SUBSET (1..m + 1) /\ m + 1 \notin places \ {m + 1}
        OBVIOUS
      <4>4. g[places \ {m + 1}] = f[places \ {m + 1}]
        BY <4>3
      <4>5. QED
        BY <3>1, <4>2, <4>4
    <3>2. CASE m + 1 \notin places
      <4>1. places \in SUBSET (1..m)
        BY <3>2
      <4>2. f[places] = PosedUpTo(frame, base, places, f[places \ {Max(places)}], gone)
        BY <2>1, <4>1 DEF Posings
      <4>3. places \ {Max(places)} \in SUBSET (1..m + 1) /\ m + 1 \notin places \ {Max(places)}
        BY <3>2
      <4>4. g[places \ {Max(places)}] = f[places \ {Max(places)}] /\ g[places] = f[places]
        BY <3>2, <4>3
      <4>5. QED
        BY <4>2, <4>4
    <3>3. QED
      BY <3>1, <3>2
  <2> HIDE DEF g
  <2>3. g = [places \in SUBSET (1..m + 1) |->
                PosedUpTo(frame, base, places, g[places \ {Max(places)}], gone)]
    BY <2>2 DEF g
  <2>4. Posings(g, frame, base, m + 1, gone)
    BY <2>3 DEF Posings
  <2>5. QED
    BY <2>4
<1> HIDE DEF T
<1>3. n \in T
  BY <1>1, <1>2, SetInduction
<1>4. QED
  BY <1>3 DEF T

\* The poses fit together when all subjects were gone through.
LEMMA CalculatedFits ==
  ASSUME NEW frame, WellFormed(frame), NEW gone
  PROVE  LET calculated == CalculateGlobalsFromLocals(frame, gone)
         IN  /\ DOMAIN calculated = DOMAIN frame
             /\ \A field \in DOMAIN frame \ {"m_GlobalSegments", "m_LocalSegments"} :
                    calculated[field] = frame[field]
             /\ WithPosesThatFit(calculated)
             /\ RightAngled(frame) => RightAngled(calculated)
<1> DEFINE base == [global |-> frame.m_GlobalSegments, local |-> frame.m_LocalSegments,
                    ended |-> FALSE]
           n == Len(frame.m_Subjects)
           f == CHOOSE f : Posings(f, frame, base, n, gone)
<1>1. /\ n \in Nat /\ DOMAIN frame.m_Subjects = 1..n
      /\ \A k \in 1..n : frame.m_Subjects[k] \in ToSet(frame.m_Subjects)
  BY IsSequenceIs DEF WellFormed
<1>2. Posings(f, frame, base, n, gone)
  BY <1>1, PosingsExist
<1>3. CalculateGlobalsFromLocals(frame, gone)
        = [frame EXCEPT !.m_GlobalSegments = f[1..n].global, !.m_LocalSegments = f[1..n].local]
  BY <1>1 DEF CalculateGlobalsFromLocals, FoldLeft, MapThenFoldSet, Posings, PosedUpTo
<1>4. Fitting(frame, base)
  <2>1. WithPosesThatFit(frame)
    BY DEF WellFormed
  <2>2. QED
    BY <2>1 DEF WithPosesThatFit, Fitting, RightAngled
<1> HIDE DEF f, base
<1> DEFINE T == {m \in Nat : m <= n => \A places \in SUBSET (1..m) : Fitting(frame, f[places])}
<1>5. 0 \in T
  <2>1. \A places \in SUBSET (1..0) : places = {} /\ places \in SUBSET (1..n)
    OBVIOUS
  <2>2. \A places \in SUBSET (1..0) : f[places] = base
    BY <1>2, <2>1 DEF Posings, PosedUpTo
  <2>3. QED
    BY <1>4, <2>2
<1>6. ASSUME NEW m \in Nat, m \in T PROVE m + 1 \in T
  <2> SUFFICES ASSUME m + 1 <= n, NEW places \in SUBSET (1..m + 1)
               PROVE  Fitting(frame, f[places])
    <3>1. m + 1 \in Nat
      OBVIOUS
    <3>2. QED
      BY <3>1
  <2> DEFINE last == Max(places)
  <2>1. places \in SUBSET (1..n)
    BY <1>1
  <2>2. f[places] = PosedUpTo(frame, base, places, f[places \ {last}], gone)
    BY <1>2, <2>1 DEF Posings
  <2>3. CASE places = {}
    BY <1>4, <2>2, <2>3 DEF PosedUpTo
  <2>4. CASE places # {}
    <3>1. last \in places /\ \A k \in places : k <= last
      <4>1. m + 1 \in Nat /\ places \subseteq 1..(m + 1)
        OBVIOUS
      <4>2. QED
        BY <2>4, <4>1, GreatestUpTo
    <3> HIDE DEF last
    <3>2. places \ {last} \in SUBSET (1..m)
      BY <3>1
    <3>3. Fitting(frame, f[places \ {last}])
      BY <1>1, <1>6, <3>2
    <3>4. frame.m_Subjects[last] \in ToSet(frame.m_Subjects)
      BY <1>1, <2>1, <3>1
    <3>5. f[places] = WithSubjectPosed(frame, f[places \ {last}], frame.m_Subjects[last], gone)
      BY <2>2, <2>4 DEF PosedUpTo, last
    <3>6. QED
      BY <3>3, <3>4, <3>5, StepFits
  <2>5. QED
    BY <2>3, <2>4
<1> HIDE DEF T
<1>7. n \in T
  BY <1>1, <1>5, <1>6, SetInduction
<1>8. Fitting(frame, f[1..n])
  BY <1>1, <1>7 DEF T
<1> DEFINE calculated == [frame EXCEPT !.m_GlobalSegments = f[1..n].global,
                                       !.m_LocalSegments = f[1..n].local]
<1>9. {"m_GlobalSegments", "m_LocalSegments", "m_LightweightSegments", "m_Subjects"}
        \subseteq DOMAIN frame
  BY DEF WellFormed, EmptyFrame
<1>10. /\ DOMAIN calculated = DOMAIN frame
       /\ \A field \in DOMAIN frame \ {"m_GlobalSegments", "m_LocalSegments"} :
            calculated[field] = frame[field]
       /\ calculated.m_GlobalSegments = f[1..n].global
       /\ calculated.m_LocalSegments = f[1..n].local
       /\ calculated.m_LightweightSegments = frame.m_LightweightSegments
       /\ calculated.m_Subjects = frame.m_Subjects
  BY <1>9
<1> HIDE DEF calculated
<1>11. WithPosesThatFit(calculated)
  <2>1. WithPosesThatFit(frame)
    BY DEF WellFormed
  <2>2. QED
    BY <1>8, <1>10, <2>1 DEF WithPosesThatFit, Fitting
<1>12. RightAngled(frame) => RightAngled(calculated)
  BY <1>8, <1>10 DEF Fitting, RightAngled
<1>13. QED
  BY <1>3, <1>10, <1>11, <1>12 DEF calculated

CameraIndex(camera) ==
    SelectInSeq(m_LatestFrame.m_Cameras, LAMBDA k : AdaptCameraName(k) = camera)

CameraIndexOf(id) == SelectInSeq(m_LatestFrame.m_Cameras, LAMBDA k : k.m_CameraID = id)

CalibrationIndex(id) == SelectInSeq(Calibrations, LAMBDA o : o.m_CameraID = id)

-----------------------------------------------------------------------------
(* Frames.                                                                 *)

LEMMA EmptyFrameWellFormed == WellFormed(EmptyFrame) /\ RightAngled(EmptyFrame)
<1>1. /\ EmptyFrame.m_LabeledRecons = <<>> /\ EmptyFrame.m_Cameras = <<>>
      /\ EmptyFrame.m_CameraCalibrations = <<>>
      /\ EmptyFrame.m_DynamicCameraCalibrationInfo = <<>> /\ EmptyFrame.m_Subjects = <<>>
      /\ EmptyFrame.m_GlobalSegments = <<>> /\ EmptyFrame.m_LocalSegments = <<>>
      /\ EmptyFrame.m_LightweightSegments = <<>>
      /\ EmptyFrame.m_Devices = <<>> /\ EmptyFrame.m_DevicesExtra = <<>>
      /\ EmptyFrame.m_Channels = <<>> /\ EmptyFrame.m_Forces = <<>> /\ EmptyFrame.m_Moments = <<>>
      /\ EmptyFrame.m_CentresOfPressure = <<>> /\ EmptyFrame.m_Voltages = <<>>
  BY DEF EmptyFrame
<1>2. IsSequence(<<>>) /\ DOMAIN <<>> = {} /\ DOMAIN (<<>> \o <<>>) = {} /\ ToSet(<<>>) = {}
  <2>1. <<>> \in Seq({}) /\ ToSet(<<>>) = {}
    BY DEF ToSet
  <2>2. QED
    BY <2>1 DEF IsSequence
<1>3. WithPosesThatFit(EmptyFrame)
  BY <1>1, <1>2 DEF WithPosesThatFit, Objects
<1>4. WithDevices(EmptyFrame)
  BY <1>1, <1>2 DEF WithDevices, DevicesNamed, PlatesSampled
<1>5. RightAngled(EmptyFrame)
  BY <1>1, <1>2 DEF RightAngled, Turned
<1>6. QED
  BY <1>1, <1>2, <1>3, <1>4, <1>5 DEF WellFormed

\* The assumptions on devices are about these parts of a frame.
LEMMA DevicesKept ==
  ASSUME NEW f, NEW g, WithDevices(f),
         g.m_FrameID = f.m_FrameID, g.m_FramePeriod = f.m_FramePeriod,
         g.m_Devices = f.m_Devices, g.m_DevicesExtra = f.m_DevicesExtra,
         g.m_Channels = f.m_Channels, g.m_Forces = f.m_Forces, g.m_Moments = f.m_Moments,
         g.m_CentresOfPressure = f.m_CentresOfPressure, g.m_Voltages = f.m_Voltages
  PROVE  WithDevices(g)
<1>1. /\ GetFramePeriod(g) = GetFramePeriod(f)
      /\ \A id : GetDevicePeriod(g, id) = GetDevicePeriod(f, id)
      /\ \A id : GetDeviceStartTick(g, id) = GetDeviceStartTick(f, id)
      /\ \A c : FramesFor(g, c) = FramesFor(f, c)
  BY DEF GetFramePeriod, GetDevicePeriod, GetDeviceStartTick, FramesFor
<1>2. \A c : DataOf(g, c) = DataOf(f, c)
  BY <1>1 DEF DataOf
<1>3. \A c : Sampled(f, c) => Sampled(g, c)
  BY <1>1, <1>2 DEF Sampled
<1>4. DevicesNamed(g.m_Devices, g.m_Channels)
  BY DEF WithDevices
<1>5. PlatesSampled(g)
  BY <1>1, <1>2 DEF WithDevices, PlatesSampled
<1>6. QED
  BY <1>3, <1>4, <1>5 DEF WithDevices

\* Poses are worked out without a change to what else there is in the frame.
LEMMA CalculatedWellFormed ==
  ASSUME NEW f, WellFormed(f), NEW gone
  PROVE  /\ WellFormed(CalculateGlobalsFromLocals(f, gone))
         /\ RightAngled(f) => RightAngled(CalculateGlobalsFromLocals(f, gone))
<1> DEFINE g == CalculateGlobalsFromLocals(f, gone)
<1>1. /\ DOMAIN g = DOMAIN f /\ WithPosesThatFit(g) /\ (RightAngled(f) => RightAngled(g))
      /\ \A field \in DOMAIN f \ {"m_GlobalSegments", "m_LocalSegments"} : g[field] = f[field]
  BY CalculatedFits
<1>2. {"m_Subjects", "m_LabeledRecons", "m_Cameras", "m_CameraCalibrations",
       "m_DynamicCameraCalibrationInfo", "m_FrameID", "m_FramePeriod", "m_Devices",
       "m_DevicesExtra", "m_Channels", "m_Forces", "m_Moments", "m_CentresOfPressure",
       "m_Voltages"} \subseteq DOMAIN f
  BY DEF WellFormed, EmptyFrame
<1> HIDE DEF g
<1>3. /\ g.m_LabeledRecons = f.m_LabeledRecons /\ g.m_Cameras = f.m_Cameras
      /\ g.m_CameraCalibrations = f.m_CameraCalibrations
      /\ g.m_DynamicCameraCalibrationInfo = f.m_DynamicCameraCalibrationInfo
      /\ g.m_Subjects = f.m_Subjects
  BY <1>1, <1>2
<1>4. WithDevices(g)
  <2>1. /\ g.m_FrameID = f.m_FrameID /\ g.m_FramePeriod = f.m_FramePeriod
        /\ g.m_Devices = f.m_Devices /\ g.m_DevicesExtra = f.m_DevicesExtra
        /\ g.m_Channels = f.m_Channels /\ g.m_Forces = f.m_Forces /\ g.m_Moments = f.m_Moments
        /\ g.m_CentresOfPressure = f.m_CentresOfPressure /\ g.m_Voltages = f.m_Voltages
    BY <1>1, <1>2
  <2>2. WithDevices(f)
    BY DEF WellFormed
  <2>3. QED
    BY <2>1, <2>2, DevicesKept
<1>5. WellFormed(g)
  BY <1>1, <1>3, <1>4 DEF WellFormed
<1>6. QED
  BY <1>1, <1>5 DEF g

\* What holds of the state after any calls: both frames are such as a server sends, with the poses
\* that were worked out as with those that were sent, and the mapping is one that was accepted.
GettersInv ==
    /\ WellFormed(m_LatestFrame)
    /\ WellFormed(m_CachedFrame)
    /\ m_pAxisMapping \in [1..3 -> Directions]
    /\ AxisMappingResult(m_pAxisMapping) = "Success"

LEMMA ZUpIsAccepted == AxisMappingResult(ZUpAxes) = "Success"
<1> DEFINE indices == {ComponentIndex(ZUpAxes[i]) : i \in 1..3}
<1>1. /\ ZUpAxes[1] = "Forward" /\ ZUpAxes[2] = "Left" /\ ZUpAxes[3] = "Up"
  BY DEF ZUpAxes
<1>2. /\ ComponentIndex("Forward") = 1 /\ ComponentIndex("Left") = 2 /\ ComponentIndex("Up") = 3
      /\ ComponentSign("Forward") = 1 /\ ComponentSign("Left") = 1 /\ ComponentSign("Up") = 1
  BY DEF ComponentIndex, ComponentSign
<1>3. indices = 1..3
  <2>1. \A i \in 1..3 : ComponentIndex(ZUpAxes[i]) = i
    BY <1>1, <1>2
  <2>2. QED
    BY <2>1
<1>4. /\ DirectionVector("Forward") = <<1, 0, 0>>
      /\ DirectionVector("Left") = <<0, 1, 0>>
      /\ DirectionVector("Up") = <<0, 0, 1>>
  BY <1>2 DEF DirectionVector
<1>5. CrossProduct(<<1, 0, 0>>, <<0, 1, 0>>) = <<0, 0, 1>>
  BY DEF CrossProduct
<1>6. QED
  BY <1>1, <1>3, <1>4, <1>5 DEF AxisMappingResult

LEMMA InitGettersInv == Init => GettersInv
BY EmptyFrameWellFormed, ServerDirections, ZUpIsAccepted DEF Init, GettersInv

LEMMA NextGettersInv == GettersInv /\ [Next]_vars => GettersInv'
<1> SUFFICES ASSUME GettersInv, [Next]_vars PROVE GettersInv'
  OBVIOUS
<1> USE DEF GettersInv
<1>1. CASE Connect
  BY <1>1 DEF Connect
<1>2. CASE Disconnect
  BY <1>2 DEF Disconnect
<1>3. ASSUME NEW f \in Frames, FetchNextFrame(f) PROVE GettersInv'
  BY <1>3, GettersAssumption DEF FetchNextFrame
<1>4. ASSUME NEW gone, Dispatch(gone) PROVE GettersInv'
  BY <1>4, CalculatedWellFormed DEF Dispatch
<1>5. ASSUME NEW axes \in Axes, SetAxisMapping(axes) PROVE GettersInv'
  BY <1>5, GettersAssumption DEF SetAxisMapping
<1>6. ASSUME NEW enabled \in BOOLEAN, SetLightweightSegmentData(enabled) PROVE GettersInv'
  BY <1>6 DEF SetLightweightSegmentData, frameVars
<1>7. CASE UNCHANGED vars
  BY <1>7 DEF vars, frameVars
<1>8. QED
  BY <1>1, <1>2, <1>3, <1>4, <1>5, <1>6, <1>7 DEF Next

\* The frames stay what the server sent, and the axes directions, whatever is called when.
THEOREM FramesStayWellFormed == Spec => []GettersInv
BY InitGettersInv, NextGettersInv, PTL DEF Spec

-----------------------------------------------------------------------------
(* Positions and rotations are handed out in the axes requested.           *)

LEMMA ServerAxesAre == ServerAxes \in {YUpAxes, ZUpAxes}
BY DEF ServerAxes

\* World and InServerAxes speak of the axes that the getters take for those of the server.
LEMMA WorldIs ==
  ASSUME AxesOfFrame, NEW v \in Vectors
  PROVE  \A i \in 1..3 : World(v)[i] = InWorldOf(ServerAxes, v)[i]
<1>1. v[1] \in Int /\ v[2] \in Int /\ v[3] \in Int
  BY DEF Vectors
<1>2. CASE m_LatestFrame.m_AxisOrientation = "EYUp"
  <2> DEFINE D(i) == DirectionVector(YUpAxes[i])
  <2>1. ServerAxes = YUpAxes
    BY <1>2 DEF AxesOfFrame, ServerAxes
  <2>2. \A i \in 1..3 : World(v)[i] = v[1] * D(1)[i] + v[2] * D(2)[i] + v[3] * D(3)[i]
    BY <1>2 DEF World, DotProduct
  <2>3. World(v)[1] = v[1] /\ World(v)[2] = -v[3] /\ World(v)[3] = v[2]
    <3> HIDE DEF D
    <3>1. QED
      BY <1>1, <2>2, ServerDirections DEF D
  <2>4. QED
    BY <2>1, <2>3 DEF InWorldOf
<1>3. CASE m_LatestFrame.m_AxisOrientation # "EYUp"
  <2>1. ServerAxes = ZUpAxes
    BY <1>3 DEF AxesOfFrame, ServerAxes
  <2>2. World(v) = v /\ InWorldOf(ServerAxes, v) = v
    BY <1>3, <2>1, ServerDirections DEF World, InWorldOf
  <2>3. QED
    BY <2>2
<1>4. QED
  BY <1>2, <1>3

LEMMA InServerAxesIs ==
  ASSUME AxesOfFrame, NEW d \in Vectors
  PROVE  \A i \in 1..3 : InServerAxes(d)[i] = InAxesOf(ServerAxes, d)[i]
<1>1. d[1] \in Int /\ d[2] \in Int /\ d[3] \in Int
  BY DEF Vectors
<1>2. CASE m_LatestFrame.m_AxisOrientation = "EYUp"
  <2> DEFINE D(i) == DirectionVector(YUpAxes[i])
  <2>1. ServerAxes = YUpAxes
    BY <1>2 DEF AxesOfFrame, ServerAxes
  <2>2. \A i \in 1..3 :
          InServerAxes(d)[i] = d[1] * D(i)[1] + d[2] * D(i)[2] + d[3] * D(i)[3]
    BY <1>2 DEF InServerAxes, DotProduct
  <2>3. InServerAxes(d)[1] = d[1] /\ InServerAxes(d)[2] = d[3] /\ InServerAxes(d)[3] = -d[2]
    <3> HIDE DEF D
    <3>1. QED
      BY <1>1, <2>2, ServerDirections DEF D
  <2>4. QED
    BY <2>1, <2>3 DEF InAxesOf
<1>3. CASE m_LatestFrame.m_AxisOrientation # "EYUp"
  <2>1. ServerAxes = ZUpAxes
    BY <1>3 DEF AxesOfFrame, ServerAxes
  <2>2. InServerAxes(d) = d /\ InAxesOf(ServerAxes, d) = d
    BY <1>3, <2>1, ServerDirections DEF InServerAxes, InAxesOf
  <2>3. QED
    BY <2>2
<1>4. QED
  BY <1>2, <1>3

\* OutT hands out the lengths along the directions requested.
LEMMA OutAlong ==
  ASSUME AxesOfFrame, m_pAxisMapping \in [1..3 -> Directions], NEW v \in Vectors
  PROVE  OutT(v) = Along(v)
<1> DEFINE w == InWorldOf(ServerAxes, v)
           D(i) == RequestedDirection(i)
<1>1. OutT(v) = [i \in 1..3 |-> DotProduct(w, D(i))]
  BY ServerAxesAre, TranslationsAlong DEF OutT, RequestedDirection
<1>2. \A i \in 1..3 : World(v)[i] = w[i]
  BY WorldIs
<1> HIDE DEF w, D
<1>3. \A i \in 1..3 : DotProduct(World(v), D(i)) = DotProduct(w, D(i))
  BY <1>2 DEF DotProduct
<1>4. QED
  BY <1>1, <1>3 DEF Along, D

\* OutR hands out what turns the axes requested as R turns the directions they stand for.
LEMMA OutTurned ==
  ASSUME AxesOfFrame, m_pAxisMapping \in [1..3 -> Directions], NEW R \in Matrices,
         NEW i \in 1..3, NEW j \in 1..3
  PROVE  OutR(R)[i][j] = Along(Apply(R, InServerAxes(RequestedDirection(j))))[i]
<1> DEFINE b == RequestedDirection(j)
           D(k) == RequestedDirection(k)
           w == Apply(R, InAxesOf(ServerAxes, b))
           v == Apply(R, InServerAxes(b))
<1>1. OutR(R)[i][j] = DotProduct(InWorldOf(ServerAxes, w), D(i))
  BY ServerAxesAre, RotationsAlong DEF OutR, RequestedDirection
<1>2. b \in Vectors
  BY DirectionIsVector DEF RequestedDirection, Vectors, DirectionVector
<1>3. \A k \in 1..3 : InServerAxes(b)[k] = InAxesOf(ServerAxes, b)[k]
  BY <1>2, InServerAxesIs
<1>4. v = w
  BY <1>3 DEF Apply
<1>5. v \in Vectors
  <2>1. \A k \in 1..3 : InServerAxes(b)[k] \in Int
    BY <1>2, <1>3 DEF InAxesOf, Vectors
  <2>2. \A k, l \in 1..3 : R[k][l] \in Int
    BY DEF Matrices, Vectors
  <2> HIDE DEF b
  <2>3. \A k \in 1..3 : R[k][1] * InServerAxes(b)[1] + R[k][2] * InServerAxes(b)[2]
                            + R[k][3] * InServerAxes(b)[3] \in Int
    BY <2>1, <2>2
  <2>4. QED
    BY <2>3 DEF Apply, Vectors
<1>6. \A k \in 1..3 : World(v)[k] = InWorldOf(ServerAxes, v)[k]
  BY <1>5, WorldIs
<1> HIDE DEF v, w, D
<1>7. DotProduct(World(v), D(i)) = DotProduct(InWorldOf(ServerAxes, v), D(i))
  BY <1>6 DEF DotProduct
<1>8. Along(v)[i] = DotProduct(World(v), D(i))
  BY DEF Along, D
<1>9. QED
  BY <1>1, <1>4, <1>7, <1>8 DEF v

-----------------------------------------------------------------------------
(* Cameras.                                                                *)

\* No two IDs make the same name.
LEMMA NamesDiffer ==
  ASSUME NEW k, NEW l, AdaptCameraName(k) = AdaptCameraName(l),
         k.m_Name \in Seq(STRING), k.m_DisplayType \in Seq(STRING),
         l.m_Name \in Seq(STRING), l.m_DisplayType \in Seq(STRING)
  PROVE  k.m_CameraID = l.m_CameraID
<1>1. PICK s \in Seq(STRING) : AdaptCameraName(k) = Append(s, k.m_CameraID)
  BY DEF AdaptCameraName
<1>2. PICK t \in Seq(STRING) : AdaptCameraName(l) = Append(t, l.m_CameraID)
  BY DEF AdaptCameraName
<1>3. Append(s, k.m_CameraID) = Append(t, l.m_CameraID)
  BY <1>1, <1>2
<1> DEFINE a == k.m_CameraID
           b == l.m_CameraID
<1> HIDE DEF a, b
<1>4. Append(s, a) = Append(t, b)
  BY <1>3 DEF a, b
<1>5. /\ Len(Append(s, a)) = Len(s) + 1 /\ Append(s, a)[Len(s) + 1] = a
      /\ Len(Append(t, b)) = Len(t) + 1 /\ Append(t, b)[Len(t) + 1] = b
  OBVIOUS
<1>6. Len(s) \in Nat /\ Len(t) \in Nat
  OBVIOUS
<1>7. a = b
  BY <1>4, <1>5, <1>6
<1>8. QED
  BY <1>7 DEF a, b

\* The camera that the name of a camera leads to.
LEMMA CameraNamed ==
  ASSUME WellFormed(m_LatestFrame), NEW n \in DOMAIN m_LatestFrame.m_Cameras
  PROVE  LET i == CameraIndex(AdaptCameraName(m_LatestFrame.m_Cameras[n]))
         IN  i # 0 /\ m_LatestFrame.m_Cameras[i].m_CameraID = m_LatestFrame.m_Cameras[n].m_CameraID
<1> DEFINE s == m_LatestFrame.m_Cameras
           camera == AdaptCameraName(s[n])
           T == {i \in 1..Len(s) : AdaptCameraName(s[i]) = camera}
           i0 == CameraIndex(camera)
<1>1. s \in Seq(ToSet(s))
  BY DEF WellFormed, IsSequence
<1>2. Len(s) \in Nat /\ DOMAIN s = 1..Len(s)
  BY <1>1
<1>3. T \subseteq 1..Len(s) /\ n \in T
  BY <1>2
<1>4. i0 = Min(T)
  BY <1>3 DEF CameraIndex, SelectInSeq
<1> HIDE DEF T, i0
<1>5. i0 \in T
  BY <1>2, <1>3, <1>4, FirstPlace
<1>6. i0 \in DOMAIN s /\ i0 # 0 /\ AdaptCameraName(s[i0]) = AdaptCameraName(s[n])
  BY <1>2, <1>5 DEF T
<1>7. /\ s[i0].m_Name \in Seq(STRING) /\ s[i0].m_DisplayType \in Seq(STRING)
      /\ s[n].m_Name \in Seq(STRING) /\ s[n].m_DisplayType \in Seq(STRING)
  BY <1>6 DEF WellFormed
<1>8. s[i0].m_CameraID = s[n].m_CameraID
  BY <1>6, <1>7, NamesDiffer
<1>9. QED
  BY <1>6, <1>8 DEF i0

\* The first camera with an ID.
LEMMA CameraOf ==
  ASSUME WellFormed(m_LatestFrame), NEW id, CameraIndexOf(id) # 0
  PROVE  /\ CameraIndexOf(id) \in DOMAIN m_LatestFrame.m_Cameras
         /\ m_LatestFrame.m_Cameras[CameraIndexOf(id)].m_CameraID = id
<1> DEFINE s == m_LatestFrame.m_Cameras
           T == {i \in 1..Len(s) : s[i].m_CameraID = id}
           i0 == CameraIndexOf(id)
<1>1. s \in Seq(ToSet(s))
  BY DEF WellFormed, IsSequence
<1>2. Len(s) \in Nat /\ DOMAIN s = 1..Len(s)
  BY <1>1
<1>3. T # {} /\ i0 = Min(T)
  BY DEF CameraIndexOf, SelectInSeq
<1>4. T \subseteq 1..Len(s)
  OBVIOUS
<1> HIDE DEF T, i0
<1>5. i0 \in T
  BY <1>2, <1>3, <1>4, FirstPlace
<1>6. QED
  BY <1>2, <1>5 DEF T, i0

\* The calibration found for the camera that a calibration is of is that one.
LEMMA CalibrationFound ==
  ASSUME WellFormed(m_LatestFrame), NEW n \in DOMAIN Calibrations
  PROVE  CalibrationIndex(Calibrations[n].m_CameraID) = n /\ n # 0
<1> DEFINE s == Calibrations
           id == s[n].m_CameraID
           T == {i \in 1..Len(s) : s[i].m_CameraID = id}
<1>1. PICK S : s \in Seq(S)
  <2> DEFINE u == m_LatestFrame.m_CameraCalibrations
             v == m_LatestFrame.m_DynamicCameraCalibrationInfo
  <2>1. u \in Seq(ToSet(u)) /\ v \in Seq(ToSet(v))
    BY DEF WellFormed, IsSequence
  <2>2. u \in Seq(ToSet(u) \cup ToSet(v)) /\ v \in Seq(ToSet(u) \cup ToSet(v))
    BY <2>1
  <2> HIDE DEF u, v
  <2>3. u \o v \in Seq(ToSet(u) \cup ToSet(v))
    BY <2>2
  <2>4. QED
    BY <2>3 DEF Calibrations, u, v
<1>2. Len(s) \in Nat /\ DOMAIN s = 1..Len(s)
  BY <1>1
<1>3. T \subseteq 1..Len(s) /\ n \in T
  BY <1>2
<1>4. CalibrationIndex(id) = Min(T)
  BY <1>3 DEF CalibrationIndex, SelectInSeq
<1>5. \A m \in DOMAIN s : s[m].m_CameraID = s[n].m_CameraID => m = n
  BY DEF WellFormed, Calibrations
<1> HIDE DEF T
<1>6. Min(T) \in T
  BY <1>2, <1>3, FirstPlace
<1>7. Min(T) = n
  BY <1>2, <1>5, <1>6 DEF T
<1>8. QED
  BY <1>2, <1>4, <1>7

\* What the getters of a camera come down to.
LEMMA CalibrationAnswers ==
  ASSUME NEW camera,
         CameraIndex(camera) # 0,
         NEW n, n = CalibrationIndex(m_LatestFrame.m_Cameras[CameraIndex(camera)].m_CameraID),
         n # 0
  PROVE  /\ GetCameraGlobalRotationMatrix(camera)
                = WithFrame(Answer(OutR(Calibrations[n].m_PoseRotation)))
         /\ GetCameraFocalLength(camera) = WithFrame(Answer(Calibrations[n].m_FocalLength))
<1> DEFINE k == m_LatestFrame.m_Cameras[CameraIndex(camera)]
<1>1. n = SelectInSeq(Calibrations, LAMBDA o : o.m_CameraID = k.m_CameraID)
  BY DEF CalibrationIndex
<1>2. GetCameraGlobalRotationMatrix(camera)
        = WithFrame(WithObjectOfCamera(Calibrations, k, LAMBDA o : Answer(OutR(o.m_PoseRotation)),
                                       Refuse("NotPresent")))
  BY DEF GetCameraGlobalRotationMatrix, WithCalibration, WithCamera, WithFirst, CameraIndex
<1>3. GetCameraFocalLength(camera)
        = WithFrame(WithObjectOfCamera(Calibrations, k, LAMBDA o : Answer(o.m_FocalLength),
                                       Refuse("NotPresent")))
  BY DEF GetCameraFocalLength, WithCalibration, WithCamera, WithFirst, CameraIndex
<1> HIDE DEF k
<1>4. QED
  BY <1>1, <1>2, <1>3 DEF WithObjectOfCamera, WithFirst

\* The name that a calibration leads to.
LEMMA NameOfCalibrated ==
  ASSUME NEW o, NEW otherwise
  PROVE  LET i == CameraIndexOf(o.m_CameraID)
         IN  WithFirst(m_LatestFrame.m_Cameras, LAMBDA k : k.m_CameraID = o.m_CameraID,
                       LAMBDA k : Answer(AdaptCameraName(k)), otherwise)
                = IF i = 0 THEN otherwise ELSE Answer(AdaptCameraName(m_LatestFrame.m_Cameras[i]))
BY DEF WithFirst, CameraIndexOf

LEMMA AnswersGiven ==
  /\ \A out : Given(Answer(out)) /\ Answer(out).out = out
  /\ \A result : result # "Success" => ~Given(Refuse(result))
  /\ \A answer : Given(WithFrame(answer)) => WithFrame(answer) = answer
<1>1. \A out : Given(Answer(out)) /\ Answer(out).out = out
  BY DEF Given, Answer
<1>2. \A result : result # "Success" => ~Given(Refuse(result))
  BY DEF Given, Refuse
<1>3. \A answer : Given(WithFrame(answer)) => WithFrame(answer) = answer
  BY <1>2 DEF WithFrame
<1>4. QED
  BY <1>1, <1>2, <1>3

\* The calibration of the camera that the name of a calibrated camera leads to is its own.
LEMMA CalibrationNamed ==
  ASSUME WellFormed(m_LatestFrame), NEW n \in DOMAIN Calibrations, NEW camera,
         NEW i, i = CameraIndexOf(Calibrations[n].m_CameraID), i # 0,
         camera = AdaptCameraName(m_LatestFrame.m_Cameras[i])
  PROVE  /\ GetCameraGlobalRotationMatrix(camera)
                = WithFrame(Answer(OutR(Calibrations[n].m_PoseRotation)))
         /\ GetCameraFocalLength(camera) = WithFrame(Answer(Calibrations[n].m_FocalLength))
<1> DEFINE id == Calibrations[n].m_CameraID
<1>1. i \in DOMAIN m_LatestFrame.m_Cameras /\ m_LatestFrame.m_Cameras[i].m_CameraID = id
  BY CameraOf
<1>2. /\ CameraIndex(camera) # 0
      /\ m_LatestFrame.m_Cameras[CameraIndex(camera)].m_CameraID = id
  BY <1>1, CameraNamed
<1>3. CalibrationIndex(id) = n /\ n # 0
  BY CalibrationFound
<1>4. QED
  BY <1>2, <1>3, CalibrationAnswers

-----------------------------------------------------------------------------
(* Theorems.                                                               *)

LEMMA PosesInAxesHold == GettersInv => PosesInAxes
<1> SUFFICES ASSUME GettersInv, AxesOfFrame PROVE PosesInAxes
  BY DEF PosesInAxes
<1> USE DEF GettersInv
<1>1. ASSUME NEW i \in Indices(m_LatestFrame.m_LabeledRecons),
             Given(GetLabeledMarkerGlobalTranslation(i))
      PROVE  GetLabeledMarkerGlobalTranslation(i).out
                = Along(m_LatestFrame.m_LabeledRecons[i + 1].m_Position)
  <2> DEFINE s == m_LatestFrame.m_LabeledRecons
  <2>1. s \in Seq(ToSet(s))
    BY DEF WellFormed, IsSequence
  <2>2. Len(s) \in Nat /\ DOMAIN s = 1..Len(s)
    BY <2>1
  <2>3. i + 1 \in DOMAIN s /\ ~(i >= Len(s))
    BY <2>2 DEF Indices
  <2>4. s[i + 1].m_Position \in Vectors
    BY <2>3 DEF WellFormed
  <2>5. GetLabeledMarkerGlobalTranslation(i) = WithFrame(Answer(OutT(s[i + 1].m_Position)))
    BY <2>3 DEF GetLabeledMarkerGlobalTranslation, WithIndex
  <2> HIDE DEF s
  <2>6. GetLabeledMarkerGlobalTranslation(i).out = OutT(s[i + 1].m_Position)
    BY <1>1, <2>5, AnswersGiven
  <2>7. QED
    BY <2>4, <2>6, OutAlong DEF s
<1> DEFINE NameOf(n) ==
             WithFirst(m_LatestFrame.m_Cameras,
                       LAMBDA k : k.m_CameraID = Calibrations[n].m_CameraID,
                       LAMBDA k : Answer(AdaptCameraName(k)), Refuse("NotPresent"))
<1>2. ASSUME NEW n \in DOMAIN Calibrations, NEW name, name = NameOf(n),
             Given(name), Given(GetCameraGlobalRotationMatrix(name.out)),
             NEW j \in 1..3, NEW i \in 1..3
      PROVE  GetCameraGlobalRotationMatrix(name.out).out[i][j]
                = Along(Apply(Calibrations[n].m_PoseRotation,
                              InServerAxes(RequestedDirection(j))))[i]
  <2> DEFINE o == Calibrations[n]
             c == CameraIndexOf(o.m_CameraID)
  <2>1. name = IF c = 0 THEN Refuse("NotPresent")
               ELSE Answer(AdaptCameraName(m_LatestFrame.m_Cameras[c]))
    BY <1>2, NameOfCalibrated
  <2>2. c # 0 /\ name.out = AdaptCameraName(m_LatestFrame.m_Cameras[c])
    BY <1>2, <2>1, AnswersGiven
  <2>3. GetCameraGlobalRotationMatrix(name.out) = WithFrame(Answer(OutR(o.m_PoseRotation)))
    BY <2>2, CalibrationNamed
  <2>4. GetCameraGlobalRotationMatrix(name.out).out = OutR(o.m_PoseRotation)
    BY <1>2, <2>3, AnswersGiven
  <2>5. o.m_PoseRotation \in Matrices
    BY DEF WellFormed, Calibrations
  <2>6. QED
    BY <2>4, <2>5, OutTurned
<1>3. \A n \in DOMAIN Calibrations :
        Given(NameOf(n)) /\ Given(GetCameraGlobalRotationMatrix(NameOf(n).out))
            => \A j \in 1..3 : \A i \in 1..3 :
                    GetCameraGlobalRotationMatrix(NameOf(n).out).out[i][j]
                        = Along(Apply(Calibrations[n].m_PoseRotation,
                                      InServerAxes(RequestedDirection(j))))[i]
  <2> HIDE DEF NameOf
  <2>1. QED
    BY <1>2
<1>4. QED
  BY <1>1, <1>3 DEF PosesInAxes

\* What a getter hands out is in the axes requested, for any axes, frames, positions and rotations
\* (CopyAndTransformT, CopyAndTransformR).
THEOREM PosesAreInAxes == Spec => []PosesInAxes
BY FramesStayWellFormed, PosesInAxesHold, PTL

LEMMA CamerasAreFoundHolds == GettersInv => CamerasAreFound
<1> SUFFICES ASSUME GettersInv, Given(GetCameraCount) PROVE CamerasAreFound
  BY DEF CamerasAreFound
<1> USE DEF GettersInv
<1> DEFINE s == m_LatestFrame.m_Cameras
           d == m_LatestFrame.m_DynamicCameraCalibrationInfo
<1>1. \A answer : WithFrame(answer) = answer
  BY DEF GetCameraCount, WithFrame, Given, Refuse
<1>2. /\ Len(s) \in Nat /\ DOMAIN s = 1..Len(s)
      /\ Len(d) \in Nat /\ DOMAIN d = 1..Len(d)
  <2>1. s \in Seq(ToSet(s)) /\ d \in Seq(ToSet(d))
    BY DEF WellFormed, IsSequence
  <2>2. QED
    BY <2>1
<1>3. ASSUME NEW i \in Indices(s)
      PROVE  /\ Given(GetCameraID(GetCameraName(i).out))
             /\ GetCameraID(GetCameraName(i).out).out = s[i + 1].m_CameraID
  <2> DEFINE camera == AdaptCameraName(s[i + 1])
  <2>1. i + 1 \in DOMAIN s /\ ~(i >= Len(s))
    BY <1>2 DEF Indices
  <2>2. GetCameraName(i).out = camera
    BY <1>1, <2>1, AnswersGiven DEF GetCameraName, WithIndex
  <2>3. CameraIndex(camera) # 0 /\ s[CameraIndex(camera)].m_CameraID = s[i + 1].m_CameraID
    BY <2>1, CameraNamed
  <2> HIDE DEF camera
  <2>4. GetCameraID(camera) = Answer(s[CameraIndex(camera)].m_CameraID)
    BY <2>3 DEF GetCameraID, WithCamera, WithFirst, CameraIndex
  <2>5. QED
    BY <2>2, <2>3, <2>4, AnswersGiven
<1>4. ASSUME NEW i \in Indices(d), Given(GetDynamicCameraName(i))
      PROVE  LET length == GetCameraFocalLength(GetDynamicCameraName(i).out)
             IN  Given(length) /\ length.out = d[i + 1].m_FocalLength
  <2> DEFINE n == Len(m_LatestFrame.m_CameraCalibrations) + i + 1
             c == CameraIndexOf(d[i + 1].m_CameraID)
             camera == AdaptCameraName(s[c])
  <2>1. i \in Nat /\ i + 1 \in DOMAIN d /\ ~(i >= Len(d))
    BY <1>2 DEF Indices
  <2>2. n \in DOMAIN Calibrations /\ Calibrations[n] = d[i + 1]
    <3> DEFINE u == m_LatestFrame.m_CameraCalibrations
    <3>1. u \in Seq(ToSet(u)) /\ d \in Seq(ToSet(d))
      BY DEF WellFormed, IsSequence
    <3>2. u \in Seq(ToSet(u) \cup ToSet(d)) /\ d \in Seq(ToSet(u) \cup ToSet(d))
      BY <3>1
    <3> HIDE DEF u, d
    <3>3. /\ Len(u) \in Nat /\ DOMAIN (u \o d) = 1..(Len(u) + Len(d))
          /\ (u \o d)[Len(u) + (i + 1)] = d[i + 1]
      BY <1>2, <2>1, <3>2
    <3>4. PICK l \in Nat, m \in Nat : l = Len(u) /\ m = Len(d) /\ i + 1 \in 1..m
      BY <1>2, <2>1, <3>3
    <3>5. l + i + 1 = l + (i + 1) /\ l + (i + 1) \in 1..(l + m)
      BY <2>1, <3>4
    <3>6. n = l + i + 1
      BY <3>4 DEF u
    <3>7. n \in DOMAIN (u \o d) /\ (u \o d)[n] = d[i + 1]
      BY <3>3, <3>4, <3>5, <3>6
    <3>8. QED
      BY <3>7 DEF Calibrations, u, d
  <2>3. GetDynamicCameraName(i)
          = WithFirst(s, LAMBDA k : k.m_CameraID = d[i + 1].m_CameraID,
                      LAMBDA k : Answer(AdaptCameraName(k)), Refuse("InvalidIndex"))
    BY <1>1, <2>1 DEF GetDynamicCameraName, WithIndex, WithObjectOfCamera
  <2>4. GetDynamicCameraName(i) = IF c = 0 THEN Refuse("InvalidIndex") ELSE Answer(camera)
    BY <2>3, NameOfCalibrated
  <2>5. c # 0 /\ GetDynamicCameraName(i).out = camera
    BY <1>4, <2>4, AnswersGiven
  <2>6. GetCameraFocalLength(camera) = WithFrame(Answer(Calibrations[n].m_FocalLength))
    BY <2>2, <2>5, CalibrationNamed
  <2>7. QED
    BY <1>1, <2>2, <2>5, <2>6, AnswersGiven
<1>5. QED
  BY <1>3, <1>4 DEF CamerasAreFound

\* The name of a camera leads to the camera that has it, or to one with the same ID, and the
\* calibration of a dynamic camera is found by the name that is given for it (GetCamera,
\* GetCameraCalibrationInfo).
THEOREM NamedCamerasAreFound == Spec => []CamerasAreFound
BY FramesStayWellFormed, CamerasAreFoundHolds, PTL

-----------------------------------------------------------------------------
(* Samples.                                                                *)

LEMMA Quotient ==
  ASSUME NEW x \in Nat, NEW p \in Nat \ {0}
  PROVE  x \div p \in Nat /\ (x \div p) * p <= x /\ x < (x \div p) * p + p
OBVIOUS

LEMMA ProductsOrdered ==
  ASSUME NEW a \in Int, NEW b \in Int, NEW p \in Nat \ {0}, a <= b
  PROVE  a * p <= b * p
OBVIOUS

\* GetNextSampleIndex is the number of the first sample that does not begin before tick.
LEMMA NextSample ==
  ASSUME NEW tick \in Nat, NEW start \in Nat, NEW p \in Nat \ {0}
  PROVE  /\ GetNextSampleIndex(tick, start, p) \in Nat
         /\ \A k \in Nat : GetNextSampleIndex(tick, start, p) <= k <=> tick <= start + k * p
<1> DEFINE next == GetNextSampleIndex(tick, start, p)
<1>1. CASE tick < start
  <2>1. next = 0
    BY <1>1 DEF GetNextSampleIndex
  <2>2. \A k \in Nat : 0 * p <= k * p
    BY ProductsOrdered
  <2>3. \A k \in Nat : tick <= start + k * p
    BY <1>1, <2>2
  <2>4. QED
    BY <2>1, <2>3
<1>2. CASE ~(tick < start)
  <2> DEFINE x == tick - start + p - 1
  <2>1. x \in Nat
    BY <1>2
  <2>2. next = x \div p
    BY <1>2 DEF GetNextSampleIndex
  <2> HIDE DEF next
  <2>3. next \in Nat /\ next * p <= x /\ x < next * p + p
    BY <2>1, <2>2, Quotient
  <2>4. ASSUME NEW k \in Nat, next <= k PROVE tick <= start + k * p
    <3>1. next * p <= k * p
      BY <2>3, <2>4, ProductsOrdered
    <3>2. QED
      BY <2>3, <3>1
  <2>5. ASSUME NEW k \in Nat, k < next PROVE tick > start + k * p
    <3>1. (k + 1) * p <= next * p
      BY <2>3, <2>5, ProductsOrdered
    <3>2. (k + 1) * p = k * p + p
      OBVIOUS
    <3>3. QED
      BY <2>3, <3>1, <3>2
  <2>6. \A k \in Nat : next <= k <=> tick <= start + k * p
    <3> TAKE k \in Nat
    <3>1. k * p \in Nat
      OBVIOUS
    <3>2. QED
      BY <2>3, <2>4, <2>5, <3>1
  <2>7. QED
    BY <2>3, <2>6 DEF next
<1>3. QED
  BY <1>1, <1>2

\* Sample j of the n samples of device frame d, which begins at its tick, is a sample of the frame
\* if and only if it begins in the period of the frame; it is there under one index, and the
\* indices go with the ticks. So consecutive frames share no sample and leave none out, whatever
\* the periods are and wherever the device frames lie (GetNextSampleIndex, SampleIndexInRange).
THEOREM SamplesOfThePeriod ==
  ASSUME NEW first \in Nat, NEW second \in Nat, first <= second,
         NEW start \in Nat, NEW p \in Nat \ {0},
         NEW d, d.m_FrameID \in Nat, NEW n \in Nat \ {0}, NEW j \in 0..n - 1
  PROVE  LET period == [first |-> first, second |-> second]
             number == d.m_FrameID * n + j
             tick == start + number * p
             i == number - GetNextSampleIndex(first, start, p)
         IN  /\ i \in 0..GetSamplesInFrame(period, start, p) - 1 <=> tick \in first..second - 1
             /\ \A k \in Int : SubSample(k, d, n, p, start, period) = j <=> k = i
<1> DEFINE period == [first |-> first, second |-> second]
           number == d.m_FrameID * n + j
           tick == start + number * p
           from == GetNextSampleIndex(first, start, p)
           to == GetNextSampleIndex(second, start, p)
           i == number - from
<1>1. d.m_FrameID * n \in Nat /\ number \in Nat
  OBVIOUS
<1>2. /\ GetSamplesInFrame(period, start, p) = to - from
      /\ \A k \in Int : SubSample(k, d, n, p, start, period) = k + from - d.m_FrameID * n
  BY DEF GetSamplesInFrame, SubSample
<1>3. /\ from \in Nat /\ \A k \in Nat : from <= k <=> first <= start + k * p
      /\ to \in Nat /\ \A k \in Nat : to <= k <=> second <= start + k * p
  BY NextSample
<1>4. from <= number <=> first <= tick
  BY <1>1, <1>3
<1>5. to <= number <=> second <= tick
  BY <1>1, <1>3
<1> HIDE DEF period, from, to
<1>6. \A k \in Int : SubSample(k, d, n, p, start, period) = j <=> k = i
  BY <1>1, <1>2, <1>3
<1>7. number * p \in Nat
  BY <1>1
<1>8. i \in 0..GetSamplesInFrame(period, start, p) - 1 <=> tick \in first..second - 1
  <2> HIDE DEF number
  <2>1. QED
    BY <1>1, <1>2, <1>3, <1>4, <1>5, <1>7
<1>9. QED
  BY <1>6, <1>8 DEF period, from

-----------------------------------------------------------------------------
(* Segments that getters name are found.                                   *)

SubjectIndex(subject) ==
    SelectInSeq(m_LatestFrame.m_Subjects, LAMBDA s : s.m_Name = subject)

SegmentIndex(s, name) == SelectInSeq(s.m_Segments, LAMBDA g : g.m_Name = name)

SegmentIndexOf(s, id) == SelectInSeq(s.m_Segments, LAMBDA g : g.m_SegmentID = id)

ParentOf(s, g) ==
    WithFirst(s.m_Segments, LAMBDA parent : parent.m_SegmentID = g.m_ParentID,
              LAMBDA parent : Answer(parent.m_Name), Refuse("Unknown"))

\* The subject that a name leads to has segments of which every one has its own name and ID.
LEMMA SubjectNamed ==
  ASSUME WellFormed(m_LatestFrame), NEW subject \in SubjectNames
  PROVE  LET i == SubjectIndex(subject)
         IN  /\ InitGet = "Success" /\ subject # <<>> /\ i # 0
             /\ i \in DOMAIN m_LatestFrame.m_Subjects
<1> DEFINE s == m_LatestFrame.m_Subjects
           T(name) == {i \in 1..Len(s) : s[i].m_Name = name}
<1>1. s \in Seq(ToSet(s))
  BY DEF WellFormed, IsSequence
<1>2. Len(s) \in Nat /\ DOMAIN s = 1..Len(s)
  BY <1>1
<1>3. Given(GetSubjectCount)
  BY DEF SubjectNames
<1>4. InitGet = "Success" /\ \A answer : WithFrame(answer) = answer
  BY <1>3 DEF GetSubjectCount, WithFrame, Given, Refuse
<1>5. GetSubjectCount.out = Len(s)
  BY <1>4, AnswersGiven DEF GetSubjectCount
<1>6. PICK a \in 0..Len(s) - 1 : subject = GetSubjectName(a).out
  BY <1>3, <1>5 DEF SubjectNames, Names
<1>7. a + 1 \in DOMAIN s /\ ~(a >= Len(s))
  BY <1>2
<1>8. subject = s[a + 1].m_Name
  BY <1>4, <1>6, <1>7, AnswersGiven DEF GetSubjectName, WithIndex
<1>9. subject # <<>>
  BY <1>7, <1>8 DEF WellFormed
<1>10. a + 1 \in T(subject) /\ T(subject) \subseteq 1..Len(s)
  BY <1>2, <1>7, <1>8
<1>11. SubjectIndex(subject) = Min(T(subject))
  BY <1>10 DEF SubjectIndex, SelectInSeq
<1> HIDE DEF T
<1>12. Min(T(subject)) \in T(subject)
  BY <1>2, <1>10, FirstPlace
<1>13. Min(T(subject)) \in 1..Len(s)
  BY <1>10, <1>12
<1>14. QED
  BY <1>2, <1>4, <1>9, <1>11, <1>13

LEMMA SegmentNamed ==
  ASSUME NEW s, Articulated(s), NEW n \in DOMAIN s.m_Segments
  PROVE  /\ SegmentIndex(s, s.m_Segments[n].m_Name) = n
         /\ SegmentIndexOf(s, s.m_Segments[n].m_SegmentID) = n
         /\ n \in 1..Len(s.m_Segments) /\ Len(s.m_Segments) \in Nat
<1> DEFINE t == s.m_Segments
           T == {i \in 1..Len(t) : t[i].m_Name = t[n].m_Name}
           U == {i \in 1..Len(t) : t[i].m_SegmentID = t[n].m_SegmentID}
<1>1. t \in Seq(ToSet(t))
  BY DEF Articulated, IsSequence
<1>2. Len(t) \in Nat /\ DOMAIN t = 1..Len(t) /\ n \in 1..Len(t)
  BY <1>1
<1>3. n \in T /\ n \in U /\ T \subseteq 1..Len(t) /\ U \subseteq 1..Len(t)
  BY <1>2
<1>4. /\ SegmentIndex(s, t[n].m_Name) = Min(T)
      /\ SegmentIndexOf(s, t[n].m_SegmentID) = Min(U)
  BY <1>3 DEF SegmentIndex, SegmentIndexOf, SelectInSeq
<1>5. (\A i \in T : i = n) /\ (\A i \in U : i = n)
  BY <1>2 DEF Articulated
<1> HIDE DEF T, U
<1>6. Min(T) \in T /\ Min(U) \in U
  BY <1>2, <1>3, FirstPlace
<1>7. QED
  BY <1>2, <1>4, <1>5, <1>6

\* What the getters of the segments of a subject come down to.
LEMMA SegmentAnswers ==
  ASSUME InitGet = "Success", NEW subject, subject # <<>>, SubjectIndex(subject) # 0,
         NEW s, s = m_LatestFrame.m_Subjects[SubjectIndex(subject)]
  PROVE  /\ GetSegmentCount(subject) = Answer(Len(s.m_Segments))
         /\ \A i : GetSegmentName(subject, i)
                    = IF i >= Len(s.m_Segments) THEN Refuse("InvalidIndex")
                      ELSE Answer(s.m_Segments[i + 1].m_Name)
         /\ \A name : name # <<>> /\ SegmentIndex(s, name) # 0 =>
                LET g == s.m_Segments[SegmentIndex(s, name)]
                IN  /\ GetSegmentChildCount(subject, name) = Answer(Len(Children(s, g)))
                    /\ \A i : GetSegmentChildName(subject, name, i)
                                = IF i >= Len(Children(s, g)) THEN Refuse("InvalidIndex")
                                  ELSE Answer(Children(s, g)[i + 1].m_Name)
                    /\ SegmentIndexOf(s, g.m_ParentID) # 0 =>
                            GetSegmentParentName(subject, name)
                                = Answer(s.m_Segments[SegmentIndexOf(s, g.m_ParentID)].m_Name)
<1>1. GetSegmentCount(subject) = Answer(Len(s.m_Segments))
  BY DEF GetSegmentCount, WithSubject, WithFrame, WithFirst, SubjectIndex
<1>2. \A i : GetSegmentName(subject, i)
                = IF i >= Len(s.m_Segments) THEN Refuse("InvalidIndex")
                  ELSE Answer(s.m_Segments[i + 1].m_Name)
  BY DEF GetSegmentName, WithSubject, WithFrame, WithFirst, WithIndex, SubjectIndex
<1>3. ASSUME NEW name, name # <<>>, SegmentIndex(s, name) # 0
      PROVE  LET g == s.m_Segments[SegmentIndex(s, name)]
             IN  /\ GetSegmentChildCount(subject, name) = Answer(Len(Children(s, g)))
                 /\ \A i : GetSegmentChildName(subject, name, i)
                            = IF i >= Len(Children(s, g)) THEN Refuse("InvalidIndex")
                              ELSE Answer(Children(s, g)[i + 1].m_Name)
                 /\ SegmentIndexOf(s, g.m_ParentID) # 0 =>
                        GetSegmentParentName(subject, name)
                            = Answer(s.m_Segments[SegmentIndexOf(s, g.m_ParentID)].m_Name)
  <2> DEFINE g == s.m_Segments[SegmentIndex(s, name)]
  <2>1. GetSegmentChildCount(subject, name) = Answer(Len(Children(s, g)))
    BY <1>3 DEF GetSegmentChildCount, WithSegment, WithSubject, WithMember, WithFrame, WithFirst,
                SubjectIndex, SegmentIndex
  <2>2. \A i : GetSegmentChildName(subject, name, i)
                = IF i >= Len(Children(s, g)) THEN Refuse("InvalidIndex")
                  ELSE Answer(Children(s, g)[i + 1].m_Name)
    BY <1>3 DEF GetSegmentChildName, WithSegment, WithSubject, WithMember, WithFrame, WithFirst,
                WithIndex, SubjectIndex, SegmentIndex
  <2>3. SegmentIndexOf(s, g.m_ParentID) # 0 =>
            GetSegmentParentName(subject, name)
                = Answer(s.m_Segments[SegmentIndexOf(s, g.m_ParentID)].m_Name)
    <3>1. GetSegmentParentName(subject, name) = WithSegment(subject, name, ParentOf)
      BY DEF GetSegmentParentName, ParentOf
    <3>2. GetSegmentParentName(subject, name) = ParentOf(s, g)
      BY <1>3, <3>1 DEF WithSegment, WithSubject, WithMember, WithFrame, WithFirst,
                        SubjectIndex, SegmentIndex
    <3> HIDE DEF g
    <3>3. QED
      BY <3>2 DEF ParentOf, WithFirst, SegmentIndexOf
  <2>4. QED
    BY <2>1, <2>2, <2>3
<1>4. QED
  BY <1>1, <1>2, <1>3

\* The subject and the segment that names lead to.
LEMMA SegmentOfName ==
  ASSUME GettersInv, NEW subject \in SubjectNames, NEW segment \in SegmentNames(subject)
  PROVE  LET s == m_LatestFrame.m_Subjects[SubjectIndex(subject)]
         IN  /\ InitGet = "Success" /\ subject # <<>> /\ SubjectIndex(subject) # 0
             /\ s \in ToSet(m_LatestFrame.m_Subjects) /\ Articulated(s)
             /\ \E n \in DOMAIN s.m_Segments : segment = s.m_Segments[n].m_Name
<1> DEFINE s == m_LatestFrame.m_Subjects[SubjectIndex(subject)]
           t == s.m_Segments
<1>1. /\ InitGet = "Success" /\ subject # <<>> /\ SubjectIndex(subject) # 0
      /\ s \in ToSet(m_LatestFrame.m_Subjects) /\ Articulated(s)
  <2>1. WellFormed(m_LatestFrame)
    BY DEF GettersInv
  <2>2. \A n \in DOMAIN m_LatestFrame.m_Subjects : Articulated(m_LatestFrame.m_Subjects[n])
    BY <2>1 DEF WellFormed
  <2>3. QED
    BY <2>1, <2>2, SubjectNamed DEF ToSet
<1> HIDE DEF s
<1> USE <1>1
<1>2. s = m_LatestFrame.m_Subjects[SubjectIndex(subject)]
  BY DEF s
<1>3. PICK n \in DOMAIN t : segment = t[n].m_Name
  <2>1. t \in Seq(ToSet(t))
    BY DEF Articulated, IsSequence
  <2>2. Len(t) \in Nat /\ DOMAIN t = 1..Len(t)
    BY <2>1
  <2>3. GetSegmentCount(subject).out = Len(t)
    BY <1>2, SegmentAnswers, AnswersGiven
  <2>4. PICK i \in 0..Len(t) - 1 : segment = GetSegmentName(subject, i).out
    BY <2>3 DEF SegmentNames, Names
  <2>5. i + 1 \in DOMAIN t /\ ~(i >= Len(t))
    BY <2>2
  <2>6. segment = t[i + 1].m_Name
    BY <1>2, <2>4, <2>5, SegmentAnswers, AnswersGiven
  <2>7. QED
    BY <2>5, <2>6
<1>4. QED
  BY <1>1, <1>3 DEF s

LEMMA ChildrenAreFoundHolds == GettersInv => ChildrenAreFound
<1> SUFFICES ASSUME GettersInv, NEW subject \in SubjectNames,
                    NEW segment \in SegmentNames(subject),
                    NEW child \in Names(GetSegmentChildCount(subject, segment),
                                        LAMBDA i : GetSegmentChildName(subject, segment, i))
             PROVE  LET parent == GetSegmentParentName(subject, child)
                    IN  Given(parent) /\ parent.out = segment
  BY DEF ChildrenAreFound
<1> DEFINE s == m_LatestFrame.m_Subjects[SubjectIndex(subject)]
           t == s.m_Segments
<1>1. /\ InitGet = "Success" /\ subject # <<>> /\ SubjectIndex(subject) # 0
      /\ Articulated(s)
      /\ \E n \in DOMAIN t : segment = t[n].m_Name
  BY SegmentOfName
<1> HIDE DEF s
<1> USE <1>1
<1>2. s = m_LatestFrame.m_Subjects[SubjectIndex(subject)]
  BY DEF s
<1>3. PICK n \in DOMAIN t : segment = t[n].m_Name
  BY <1>1
<1>4. SegmentIndex(s, segment) = n /\ segment # <<>> /\ n # 0
  BY <1>3, SegmentNamed DEF Articulated
<1> DEFINE found == Children(s, t[n])
           C == {c \in ToSet(t) : c.m_ParentID = t[n].m_SegmentID}
<1>5. found \in Seq(C)
  BY ChildrenAre DEF Articulated
<1>6. PICK c \in C : child = c.m_Name
  <2>1. GetSegmentChildCount(subject, segment).out = Len(found)
    BY <1>2, <1>4, SegmentAnswers, AnswersGiven
  <2> HIDE DEF found, C
  <2>2. PICK i \in 0..Len(found) - 1 : child = GetSegmentChildName(subject, segment, i).out
    BY <2>1 DEF Names
  <2>3. Len(found) \in Nat /\ DOMAIN found = 1..Len(found)
    BY <1>5
  <2>4. i + 1 \in DOMAIN found /\ ~(i >= Len(found)) /\ found[i + 1] \in C
    BY <1>5, <2>3
  <2>5. child = found[i + 1].m_Name
    BY <1>2, <1>4, <2>2, <2>4, SegmentAnswers, AnswersGiven DEF found
  <2>6. QED
    BY <2>4, <2>5
<1>7. PICK m \in DOMAIN t : c = t[m]
  BY <1>6 DEF ToSet
<1>8. SegmentIndex(s, child) = m /\ child # <<>> /\ m # 0
  BY <1>6, <1>7, SegmentNamed DEF Articulated
<1>9. t[m].m_ParentID = t[n].m_SegmentID
  BY <1>6, <1>7
<1>10. SegmentIndexOf(s, t[m].m_ParentID) = n
  BY <1>9, SegmentNamed
<1>11. GetSegmentParentName(subject, child) = Answer(t[n].m_Name)
  BY <1>2, <1>4, <1>8, <1>10, SegmentAnswers
<1>12. QED
  BY <1>3, <1>11, AnswersGiven

\* What a getter names the getters that take a name find, and it is what was named: a child of a
\* segment is a segment the parent of which is that one, the name of a camera leads to its ID, and
\* the name of a dynamic camera to its own calibration.
THEOREM NamesLeadBack == Spec => []NamedIsFound
<1>1. GettersInv => NamedIsFound
  BY ChildrenAreFoundHolds, CamerasAreFoundHolds DEF NamedIsFound
<1>2. QED
  BY <1>1, FramesStayWellFormed, PTL

-----------------------------------------------------------------------------
(* Changing the axes keeps poses together.                                 *)

\* The matrix that turns what is in the axes of a server into the axes requested.
Turn(axes, serverAxes) ==
    IF axes = serverAxes THEN UnitRotation
    ELSE IF serverAxes = YUpAxes THEN Times(Transform(axes), Transpose(Transform(serverAxes)))
    ELSE Transform(axes)

LEMMA TransformIsMatrix ==
  ASSUME NEW axes \in [1..3 -> Directions]
  PROVE  Transform(axes) \in Matrices
BY DirectionIsVector DEF Transform, DirectionVector, Matrices, Vectors

LEMMA TransposedTwice ==
  ASSUME NEW M \in Matrices
  PROVE  Transpose(Transpose(M)) = M
<1>1. Transpose(M) \in Matrices /\ Transpose(Transpose(M)) \in Matrices
  BY TransposeIsMatrix
<1>2. \A i, j \in 1..3 : Transpose(Transpose(M))[i][j] = M[i][j]
  BY <1>1, TransposeIsMatrix
<1>3. QED
  BY <1>1, <1>2, SameMatrix

\* Both transformations are by this one matrix.
LEMMA TransformedByTurn ==
  ASSUME NEW axes \in [1..3 -> Directions], NEW server \in {YUpAxes, ZUpAxes}
  PROVE  LET P == Turn(axes, server)
         IN  /\ P \in Matrices
             /\ \A v \in Vectors : CopyAndTransformT(axes, server, v) = Apply(P, v)
             /\ \A R \in Matrices :
                    CopyAndTransformR(axes, server, R) = Times(Times(P, R), Transpose(P))
<1> DEFINE P == Turn(axes, server)
           T == Transform(axes)
           Q == Transform(server)
<1>1. T \in Matrices /\ Q \in Matrices
  BY TransformIsMatrix, ServerDirections
<1>2. CASE axes = server
  <2>1. P = UnitRotation
    BY <1>2 DEF Turn
  <2>2. Transpose(UnitRotation) = UnitRotation
    <3>1. \A i, j \in 1..3 : Transpose(UnitRotation)[i][j] = UnitRotation[i][j]
      BY UnitIsMatrix, TransposeIsMatrix
    <3>2. QED
      BY <3>1, UnitIsMatrix, TransposeIsMatrix, SameMatrix
  <2>3. \A v \in Vectors : CopyAndTransformT(axes, server, v) = Apply(P, v)
    BY <1>2, <2>1, UnitApplied DEF CopyAndTransformT
  <2>4. \A R \in Matrices :
            CopyAndTransformR(axes, server, R) = Times(Times(P, R), Transpose(P))
    BY <1>2, <2>1, <2>2, UnitTimes DEF CopyAndTransformR
  <2>5. QED
    BY <2>1, <2>3, <2>4, UnitIsMatrix
<1>3. CASE axes # server /\ server = YUpAxes
  <2>1. P = Times(T, Transpose(Q))
    BY <1>3 DEF Turn
  <2>2. Transpose(Q) \in Matrices /\ Transpose(T) \in Matrices /\ P \in Matrices
    BY <1>1, <2>1, TransposeIsMatrix, TimesIsMatrix
  <2>3. Transpose(P) = Times(Q, Transpose(T))
    BY <1>1, <2>1, <2>2, TransposeTimes, TransposedTwice
  <2>4. \A v \in Vectors : CopyAndTransformT(axes, server, v) = Apply(P, v)
    BY <1>3, <2>1 DEF CopyAndTransformT
  <2>5. ASSUME NEW R \in Matrices
        PROVE  CopyAndTransformR(axes, server, R) = Times(Times(P, R), Transpose(P))
    <3>1. CopyAndTransformR(axes, server, R) = Times(Times(Times(P, R), Q), Transpose(T))
      BY <1>3, <2>1 DEF CopyAndTransformR
    <3>2. Times(P, R) \in Matrices
      BY <2>2, TimesIsMatrix
    <3> HIDE DEF P, T, Q
    <3>3. QED
      BY <1>1, <2>2, <2>3, <3>1, <3>2, TimesAssociates
  <2>6. QED
    BY <2>2, <2>4, <2>5
<1>4. CASE axes # server /\ server = ZUpAxes
  <2>1. P = T
    BY <1>4, ServerDirections DEF Turn
  <2>2. \A v \in Vectors : CopyAndTransformT(axes, server, v) = Apply(P, v)
    BY <1>4, <2>1, ServerDirections DEF CopyAndTransformT
  <2>3. \A R \in Matrices :
            CopyAndTransformR(axes, server, R) = Times(Times(P, R), Transpose(P))
    BY <1>4, <2>1, ServerDirections DEF CopyAndTransformR
  <2>4. QED
    BY <1>1, <2>1, <2>2, <2>3
<1>5. QED
  BY <1>2, <1>3, <1>4

\* The directions of axes that SetAxisMapping accepts are along the three different ones.
LEMMA AcceptedAreSquare ==
  ASSUME NEW axes \in [1..3 -> Directions], AxisMappingResult(axes) = "Success"
  PROVE  Times(Transpose(Transform(axes)), Transform(axes)) = UnitRotation
<1> DEFINE T == Transform(axes)
           c(i) == ComponentIndex(axes[i])
           s(i) == ComponentSign(axes[i])
<1>1. {c(1), c(2), c(3)} = 1..3
  <2>1. {c(i) : i \in 1..3} = 1..3
    BY DEF AxisMappingResult
  <2>2. {c(i) : i \in 1..3} = {c(1), c(2), c(3)}
    <3> HIDE DEF c
    <3>1. QED
      OBVIOUS
  <2>3. QED
    BY <2>1, <2>2
<1>2. \A i \in 1..3 : c(i) \in 1..3 /\ s(i) \in {-1, 1}
  BY DEF ComponentIndex, ComponentSign, Directions
<1>3. \A i, j \in 1..3 : T[i][j] = IF j = c(i) THEN s(i) ELSE 0
  BY DEF Transform, DirectionVector
<1>4. T \in Matrices /\ Transpose(T) \in Matrices /\ Times(Transpose(T), T) \in Matrices
  BY TransformIsMatrix, TransposeIsMatrix, TimesIsMatrix
<1>5. \A i, j \in 1..3 :
        Times(Transpose(T), T)[i][j] = T[1][i] * T[1][j] + T[2][i] * T[2][j] + T[3][i] * T[3][j]
  BY <1>4, TransposeIsMatrix, TimesAt
<1> HIDE DEF T, c, s
<1>6. \A k, i, j \in 1..3 :
        T[k][i] * T[k][j] = IF i = c(k) /\ j = c(k) THEN 1 ELSE 0
  <2> TAKE k \in 1..3, i \in 1..3, j \in 1..3
  <2>1. CASE i = c(k) /\ j = c(k)
    <3>1. T[k][i] = s(k) /\ T[k][j] = s(k)
      BY <1>3, <2>1
    <3>2. CASE s(k) = 1
      BY <2>1, <3>1, <3>2
    <3>3. CASE s(k) = -1
      <4>1. (-1) * (-1) = 1
        OBVIOUS
      <4>2. QED
        BY <2>1, <3>1, <3>3, <4>1
    <3>4. QED
      BY <1>2, <3>2, <3>3
  <2>2. CASE i # c(k)
    <3>1. T[k][i] = 0 /\ T[k][j] \in Int
      BY <1>2, <1>3, <2>2
    <3>2. QED
      BY <2>2, <3>1
  <2>3. CASE j # c(k)
    <3>1. T[k][j] = 0 /\ T[k][i] \in Int
      BY <1>2, <1>3, <2>3
    <3>2. QED
      BY <2>3, <3>1
  <2>4. QED
    BY <2>1, <2>2, <2>3
<1>7. \A i, j \in 1..3 : Times(Transpose(T), T)[i][j] = UnitRotation[i][j]
  <2> TAKE i \in 1..3, j \in 1..3
  <2>1. Times(Transpose(T), T)[i][j]
          = (IF i = c(1) /\ j = c(1) THEN 1 ELSE 0) + (IF i = c(2) /\ j = c(2) THEN 1 ELSE 0)
                + (IF i = c(3) /\ j = c(3) THEN 1 ELSE 0)
    BY <1>5, <1>6
  <2>2. CASE i = j
    <3>1. Times(Transpose(T), T)[i][j] = 1
      BY <1>1, <1>2, <2>1, <2>2
    <3>2. UnitRotation[i][j] = 1
      BY <2>2, UnitIsMatrix
    <3>3. QED
      BY <3>1, <3>2
  <2>3. CASE i # j
    <3>1. Times(Transpose(T), T)[i][j] = 0
      BY <2>1, <2>3
    <3>2. UnitRotation[i][j] = 0
      BY <2>3, UnitIsMatrix
    <3>3. QED
      BY <3>1, <3>2
  <2>4. QED
    BY <2>2, <2>3
<1>8. QED
  BY <1>4, <1>7, SameMatrix, UnitIsMatrix DEF T

LEMMA TurnIsSquare ==
  ASSUME NEW axes \in [1..3 -> Directions], AxisMappingResult(axes) = "Success",
         NEW server \in {YUpAxes, ZUpAxes}
  PROVE  LET P == Turn(axes, server)
         IN  Times(Transpose(P), P) = UnitRotation
<1> DEFINE P == Turn(axes, server)
           T == Transform(axes)
           Q == Transform(server)
<1>1. /\ T \in Matrices /\ Q \in Matrices /\ Transpose(T) \in Matrices
      /\ Transpose(Q) \in Matrices
  BY TransformIsMatrix, TransposeIsMatrix, ServerDirections
<1>2. Times(Transpose(T), T) = UnitRotation
  BY AcceptedAreSquare
<1>3. CASE axes = server
  <2>1. P = UnitRotation
    BY <1>3 DEF Turn
  <2>2. Transpose(UnitRotation) = UnitRotation
    <3>1. \A i, j \in 1..3 : Transpose(UnitRotation)[i][j] = UnitRotation[i][j]
      BY UnitIsMatrix, TransposeIsMatrix
    <3>2. QED
      BY <3>1, UnitIsMatrix, TransposeIsMatrix, SameMatrix
  <2>3. QED
    BY <2>1, <2>2, UnitTimes, UnitIsMatrix
<1>4. CASE axes # server /\ server = YUpAxes
  <2>1. P = Times(T, Transpose(Q)) /\ Transpose(P) = Times(Q, Transpose(T))
    BY <1>1, <1>4, TransposeTimes, TransposedTwice DEF Turn
  <2>2. Times(Q, Transpose(Q)) = UnitRotation
    <3>1. \A i, j \in 1..3 : Times(Q, Transpose(Q))[i][j] = UnitRotation[i][j]
      <4>1. \A i, j \in 1..3 : Times(Q, Transpose(Q))[i][j]
                = Q[i][1] * Q[j][1] + Q[i][2] * Q[j][2] + Q[i][3] * Q[j][3]
        BY <1>1, TransposeIsMatrix, TimesAt
      <4>2. /\ Q[1][1] = 1 /\ Q[1][2] = 0 /\ Q[1][3] = 0
            /\ Q[2][1] = 0 /\ Q[2][2] = 0 /\ Q[2][3] = 1
            /\ Q[3][1] = 0 /\ Q[3][2] = -1 /\ Q[3][3] = 0
        BY <1>4, ServerDirections DEF Transform
      <4> HIDE DEF Q
      <4>3. QED
        BY <4>1, <4>2, UnitIsMatrix
    <3>2. QED
      BY <1>1, <3>1, TimesIsMatrix, UnitIsMatrix, SameMatrix
  <2> HIDE DEF P, T, Q
  <2>3. Times(Transpose(P), P) = Times(Q, Times(Transpose(T), Times(T, Transpose(Q))))
    <3>1. Times(T, Transpose(Q)) \in Matrices
      BY <1>1, TimesIsMatrix
    <3>2. QED
      BY <1>1, <2>1, <3>1, TimesAssociates
  <2>4. Times(Transpose(T), Times(T, Transpose(Q))) = Transpose(Q)
    BY <1>1, <1>2, TimesAssociates, UnitTimes
  <2>5. QED
    BY <2>2, <2>3, <2>4 DEF P
<1>5. CASE axes # server /\ server = ZUpAxes
  <2>1. P = T
    BY <1>5, ServerDirections DEF Turn
  <2>2. QED
    BY <1>2, <2>1
<1>6. QED
  BY <1>3, <1>4, <1>5

\* Poses that fit together fit together in the axes they are handed out in: the axes change the
\* product of two rotations, and a place given in the axes of another pose, as they change both.
LEMMA OutTogether ==
  ASSUME m_pAxisMapping \in [1..3 -> Directions], AxisMappingResult(m_pAxisMapping) = "Success",
         NEW R \in Matrices, NEW S \in Matrices, NEW v \in Vectors, NEW w \in Vectors
  PROVE  /\ OutR(Times(R, S)) = Times(OutR(R), OutR(S))
         /\ OutT(Plus(v, Apply(R, w))) = Plus(OutT(v), Apply(OutR(R), OutT(w)))
<1> DEFINE P == Turn(m_pAxisMapping, ServerAxes)
           I == Transpose(P)
<1>1. /\ P \in Matrices
      /\ \A u \in Vectors : OutT(u) = Apply(P, u)
      /\ \A M \in Matrices : OutR(M) = Times(Times(P, M), I)
  BY TransformedByTurn, ServerAxesAre DEF OutT, OutR
<1>2. Times(I, P) = UnitRotation
  BY TurnIsSquare, ServerAxesAre
<1>3. I \in Matrices
  BY <1>1, TransposeIsMatrix
<1> HIDE DEF P, I
<1>4. /\ Times(P, R) \in Matrices /\ Times(P, S) \in Matrices /\ Times(R, S) \in Matrices
      /\ Times(S, I) \in Matrices /\ Times(Times(P, S), I) \in Matrices
      /\ Times(P, Times(S, I)) \in Matrices
  BY <1>1, <1>3, TimesIsMatrix
<1>5. OutR(Times(R, S)) = Times(OutR(R), OutR(S))
  <2>1. Times(OutR(R), OutR(S)) = Times(Times(Times(P, R), I), Times(Times(P, S), I))
    BY <1>1
  <2>2. Times(Times(P, S), I) = Times(P, Times(S, I))
    BY <1>1, <1>3, TimesAssociates
  <2>3. Times(Times(Times(P, R), I), Times(P, Times(S, I)))
          = Times(Times(P, R), Times(I, Times(P, Times(S, I))))
    BY <1>3, <1>4, TimesAssociates
  <2>4. Times(I, Times(P, Times(S, I))) = Times(S, I)
    BY <1>1, <1>2, <1>3, <1>4, TimesAssociates, UnitTimes
  <2>5. Times(Times(P, R), Times(S, I)) = Times(Times(P, Times(R, S)), I)
    <3>1. Times(Times(P, R), Times(S, I)) = Times(Times(Times(P, R), S), I)
      BY <1>3, <1>4, TimesAssociates
    <3>2. Times(Times(P, R), S) = Times(P, Times(R, S))
      BY <1>1, TimesAssociates
    <3>3. QED
      BY <3>1, <3>2
  <2>6. OutR(Times(R, S)) = Times(Times(P, Times(R, S)), I)
    BY <1>1, <1>4
  <2>7. QED
    BY <2>1, <2>2, <2>3, <2>4, <2>5, <2>6
<1>6. OutT(Plus(v, Apply(R, w))) = Plus(OutT(v), Apply(OutR(R), OutT(w)))
  <2>1. /\ Apply(R, w) \in Vectors /\ Apply(P, w) \in Vectors /\ Apply(P, v) \in Vectors
        /\ Plus(v, Apply(R, w)) \in Vectors
    <3>1. Apply(R, w) \in Vectors /\ Apply(P, w) \in Vectors /\ Apply(P, v) \in Vectors
      BY <1>1, ApplyIsVector
    <3>2. Plus(v, Apply(R, w)) \in Vectors
      BY <3>1 DEF Plus, Vectors
    <3>3. QED
      BY <3>1, <3>2
  <2>2. OutT(Plus(v, Apply(R, w))) = Plus(Apply(P, v), Apply(P, Apply(R, w)))
    BY <1>1, <2>1, ApplyPlus
  <2>3. Apply(P, Apply(R, w)) = Apply(Times(P, R), w)
    BY <1>1, ApplyTimes
  <2>4. Apply(Times(Times(P, R), I), Apply(P, w)) = Apply(Times(P, R), Apply(I, Apply(P, w)))
    BY <1>3, <1>4, <2>1, ApplyTimes
  <2>5. Apply(I, Apply(P, w)) = w
    BY <1>1, <1>2, <1>3, ApplyTimes, UnitApplied
  <2>6. QED
    BY <1>1, <2>2, <2>3, <2>4, <2>5
<1>7. QED
  BY <1>5, <1>6

\* For any poses that fit together, whatever they are: in the axes that were accepted last they fit
\* together still, so that a change of the axes (SetAxisMapping) never takes a subject apart.
AxesKeepPoses ==
    \A R, S \in Matrices, v, w \in Vectors :
        /\ OutR(Times(R, S)) = Times(OutR(R), OutR(S))
        /\ OutT(Plus(v, Apply(R, w))) = Plus(OutT(v), Apply(OutR(R), OutT(w)))

THEOREM AxesKeepPosesTogether == Spec => []AxesKeepPoses
<1>1. GettersInv => AxesKeepPoses
  BY OutTogether DEF GettersInv, AxesKeepPoses
<1>2. QED
  BY <1>1, FramesStayWellFormed, PTL

-----------------------------------------------------------------------------
(* The poses of a subject stay together.                                   *)

\* The place of an object of a subject with a pose of the segment, and that of the pose in it.
PosedObject(objects, subjectID, segmentID) ==
    SelectInSeq(objects, LAMBDA o : o.m_SubjectID = subjectID
                    /\ \E n \in DOMAIN o.m_Segments : o.m_Segments[n].m_SegmentID = segmentID)

PosedSegment(o, segmentID) == SelectInSeq(o.m_Segments, LAMBDA p : p.m_SegmentID = segmentID)

\* A pose that is found is one of the subject, and one is found if there is one.
LEMMA PoseFound ==
  ASSUME NEW objects, Objects(objects), NEW s, NEW id
  PROVE  LET k == PosedObject(objects, s.m_SubjectID, id)
             i == PosedSegment(objects[k], id)
             p == objects[k].m_Segments[i]
         IN  /\ k # 0 => i # 0 /\ p \in PosesIn(objects, s) /\ p.m_SegmentID = id
             /\ (\E q \in PosesIn(objects, s) : q.m_SegmentID = id) => k # 0
<1> DEFINE Has(o) == /\ o.m_SubjectID = s.m_SubjectID
                     /\ \E n \in DOMAIN o.m_Segments : o.m_Segments[n].m_SegmentID = id
           K == {n \in 1..Len(objects) : Has(objects[n])}
           k == PosedObject(objects, s.m_SubjectID, id)
<1>1. Len(objects) \in Nat /\ DOMAIN objects = 1..Len(objects)
  BY IsSequenceIs DEF Objects
<1>2. k = IF K # {} THEN Min(K) ELSE 0
  BY DEF PosedObject, SelectInSeq
<1> HIDE DEF k
<1>3. K # {} => k \in K
  BY <1>1, <1>2, FirstPlace
<1>4. ASSUME k # 0
      PROVE  LET i == PosedSegment(objects[k], id)
                 p == objects[k].m_Segments[i]
             IN  i # 0 /\ p \in PosesIn(objects, s) /\ p.m_SegmentID = id
  <2> DEFINE t == objects[k].m_Segments
             I == {n \in 1..Len(t) : t[n].m_SegmentID = id}
             i == PosedSegment(objects[k], id)
  <2>1. k \in DOMAIN objects /\ Has(objects[k])
    BY <1>1, <1>2, <1>3, <1>4
  <2>2. Len(t) \in Nat /\ DOMAIN t = 1..Len(t) /\ \A n \in DOMAIN t : t[n] \in ToSet(t)
    BY <2>1, IsSequenceIs DEF Objects
  <2>3. i = IF I # {} THEN Min(I) ELSE 0
    BY DEF PosedSegment, SelectInSeq
  <2>4. I # {} /\ I \subseteq 1..Len(t)
    BY <2>1, <2>2
  <2> HIDE DEF i
  <2>5. i \in I
    BY <2>2, <2>3, <2>4, FirstPlace
  <2>6. t[i] \in PosesIn(objects, s)
    BY <2>1, <2>2, <2>5 DEF PosesIn
  <2>7. QED
    BY <2>2, <2>5, <2>6 DEF i
<1>5. ASSUME NEW q \in PosesIn(objects, s), q.m_SegmentID = id PROVE k # 0
  <2>1. PICK n \in DOMAIN objects :
            objects[n].m_SubjectID = s.m_SubjectID /\ q \in ToSet(objects[n].m_Segments)
    BY DEF PosesIn
  <2>2. IsSequence(objects[n].m_Segments)
    BY DEF Objects
  <2>3. \E m \in DOMAIN objects[n].m_Segments : q = objects[n].m_Segments[m]
    BY <2>1, <2>2, IsSequenceIs
  <2>4. n \in K
    BY <1>1, <1>5, <2>1, <2>3
  <2>5. QED
    BY <1>1, <1>3, <2>4
<1>6. QED
  BY <1>4, <1>5 DEF k

\* What is handed out of the pose of a segment.
SentT(objects, s, g) ==
    WithPoseOf(objects, s.m_SubjectID, g.m_SegmentID, LAMBDA p : Answer(OutT(p.m_Translation)))

SentR(objects, s, g) ==
    WithPoseOf(objects, s.m_SubjectID, g.m_SegmentID, LAMBDA p : Answer(OutR(p.m_Rotation)))

GlobalT(s, g) == SentT(m_LatestFrame.m_GlobalSegments, s, g)

GlobalR(s, g) == SentR(m_LatestFrame.m_GlobalSegments, s, g)

LocalT(s, g) == SentT(m_LatestFrame.m_LocalSegments, s, g)

LocalR(s, g) == SentR(m_LatestFrame.m_LocalSegments, s, g)

LEMMA SentIs ==
  ASSUME NEW objects, NEW s, NEW g
  PROVE  LET k == PosedObject(objects, s.m_SubjectID, g.m_SegmentID)
             i == PosedSegment(objects[k], g.m_SegmentID)
         IN  /\ SentT(objects, s, g) = IF k = 0 \/ i = 0 THEN Occluded
                                       ELSE Answer(OutT(objects[k].m_Segments[i].m_Translation))
             /\ SentR(objects, s, g) = IF k = 0 \/ i = 0 THEN Occluded
                                       ELSE Answer(OutR(objects[k].m_Segments[i].m_Rotation))
BY DEF SentT, SentR, WithPoseOf, WithFirst, PosedObject, PosedSegment

\* The pose of a segment is handed out, if there is one; when it is the only one, it is that one.
LEMMA PoseSent ==
  ASSUME NEW objects, Objects(objects), NEW s, NEW g,
         \A p, q \in PosesIn(objects, s) : p.m_SegmentID = q.m_SegmentID => p = q
  PROVE  /\ \A p \in PosesIn(objects, s) : p.m_SegmentID = g.m_SegmentID =>
                /\ SentT(objects, s, g) = Answer(OutT(p.m_Translation))
                /\ SentR(objects, s, g) = Answer(OutR(p.m_Rotation))
         /\ Seen(SentR(objects, s, g)) =>
                \E p \in PosesIn(objects, s) : p.m_SegmentID = g.m_SegmentID
<1> DEFINE k == PosedObject(objects, s.m_SubjectID, g.m_SegmentID)
           i == PosedSegment(objects[k], g.m_SegmentID)
           found == objects[k].m_Segments[i]
<1>1. /\ k # 0 => i # 0 /\ found \in PosesIn(objects, s) /\ found.m_SegmentID = g.m_SegmentID
      /\ (\E q \in PosesIn(objects, s) : q.m_SegmentID = g.m_SegmentID) => k # 0
  BY PoseFound
<1>2. /\ SentT(objects, s, g) = IF k = 0 \/ i = 0 THEN Occluded
                                ELSE Answer(OutT(found.m_Translation))
      /\ SentR(objects, s, g) = IF k = 0 \/ i = 0 THEN Occluded
                                ELSE Answer(OutR(found.m_Rotation))
  BY SentIs
<1> HIDE DEF k, i, found
<1>3. ~Seen(Occluded)
  BY DEF Seen, Occluded
<1>4. QED
  BY <1>1, <1>2, <1>3

\* The getters of the poses of a segment.
LEMMA PoseAnswers ==
  ASSUME InitGet = "Success", NEW subject, subject # <<>>, SubjectIndex(subject) # 0,
         NEW s, s = m_LatestFrame.m_Subjects[SubjectIndex(subject)],
         NEW name, name # <<>>, SegmentIndex(s, name) # 0,
         NEW g, g = s.m_Segments[SegmentIndex(s, name)]
  PROVE  /\ GetSegmentGlobalTranslation(subject, name) = GlobalT(s, g)
         /\ GetSegmentGlobalRotationMatrix(subject, name) = GlobalR(s, g)
         /\ GetSegmentLocalTranslation(subject, name) = LocalT(s, g)
         /\ GetSegmentLocalRotationMatrix(subject, name) = LocalR(s, g)
<1>1. GetSegmentGlobalTranslation(subject, name) = GlobalT(s, g)
  <2>1. GetSegmentGlobalTranslation(subject, name) = WithSegment(subject, name, GlobalT)
    BY DEF GetSegmentGlobalTranslation, WithPose, GlobalT, SentT
  <2>2. QED
    BY <2>1 DEF WithSegment, WithSubject, WithMember, WithFrame, WithFirst, SubjectIndex,
                SegmentIndex
<1>2. GetSegmentGlobalRotationMatrix(subject, name) = GlobalR(s, g)
  <2>1. GetSegmentGlobalRotationMatrix(subject, name) = WithSegment(subject, name, GlobalR)
    BY DEF GetSegmentGlobalRotationMatrix, WithPose, GlobalR, SentR
  <2>2. QED
    BY <2>1 DEF WithSegment, WithSubject, WithMember, WithFrame, WithFirst, SubjectIndex,
                SegmentIndex
<1>3. GetSegmentLocalTranslation(subject, name) = LocalT(s, g)
  <2>1. GetSegmentLocalTranslation(subject, name) = WithSegment(subject, name, LocalT)
    BY DEF GetSegmentLocalTranslation, WithPose, LocalT, SentT
  <2>2. QED
    BY <2>1 DEF WithSegment, WithSubject, WithMember, WithFrame, WithFirst, SubjectIndex,
                SegmentIndex
<1>4. GetSegmentLocalRotationMatrix(subject, name) = LocalR(s, g)
  <2>1. GetSegmentLocalRotationMatrix(subject, name) = WithSegment(subject, name, LocalR)
    BY DEF GetSegmentLocalRotationMatrix, WithPose, LocalR, SentR
  <2>2. QED
    BY <2>1 DEF WithSegment, WithSubject, WithMember, WithFrame, WithFirst, SubjectIndex,
                SegmentIndex
<1>5. QED
  BY <1>1, <1>2, <1>3, <1>4

\* A segment is found by its name.
LEMMA FoundByName ==
  ASSUME NEW s, Articulated(s), NEW n \in DOMAIN s.m_Segments
  PROVE  /\ Len(s.m_Segments) \in Nat /\ DOMAIN s.m_Segments = 1..Len(s.m_Segments)
         /\ SegmentIndex(s, s.m_Segments[n].m_Name) = n /\ n # 0
         /\ s.m_Segments[n].m_Name # <<>> /\ s.m_Segments[n] \in ToSet(s.m_Segments)
<1> DEFINE t == s.m_Segments
           name == t[n].m_Name
<1>1. IsSequence(t) /\ name # <<>>
  BY DEF Articulated
<1>2. Len(t) \in Nat /\ DOMAIN t = 1..Len(t) /\ t[n] \in ToSet(t)
  BY <1>1, IsSequenceIs
<1>3. SegmentIndex(s, name) = n
  BY SegmentNamed
<1>4. QED
  BY <1>1, <1>2, <1>3

\* The root and the parent of a segment, as the getters name them.
LEMMA RootNamed ==
  ASSUME InitGet = "Success", NEW subject, subject # <<>>, SubjectIndex(subject) # 0,
         NEW s, s = m_LatestFrame.m_Subjects[SubjectIndex(subject)], Articulated(s),
         NEW n \in DOMAIN s.m_Segments,
         s.m_Segments[n].m_Name = GetSubjectRootSegmentName(subject).out
  PROVE  s.m_Segments[n] = s.m_Segments[RootOf(s)]
<1> DEFINE t == s.m_Segments
           name == t[n].m_Name
<1>1. /\ Len(t) \in Nat /\ DOMAIN t = 1..Len(t)
      /\ SegmentIndex(s, name) = n /\ n # 0 /\ name # <<>>
  BY FoundByName
<1>2. t[n] = t[RootOf(s)]
  <2> DEFINE Root(u) == WithFirst(u.m_Segments, LAMBDA g : g.m_ParentID = 0,
                                  LAMBDA g : Answer(g.m_Name), Refuse("Unknown"))
  <2>1. GetSubjectRootSegmentName(subject) = Root(s)
    BY DEF GetSubjectRootSegmentName, WithSubject, WithFrame, WithFirst, SubjectIndex
  <2>2. Root(s) = IF RootOf(s) = 0 THEN Refuse("Unknown") ELSE Answer(t[RootOf(s)].m_Name)
    BY DEF RootOf, WithFirst
  <2> HIDE DEF Root
  <2>3. RootOf(s) # 0
    BY <1>1, <2>1, <2>2 DEF Refuse
  <2>4. name = t[RootOf(s)].m_Name
    BY <2>1, <2>2, <2>3, AnswersGiven
  <2>5. RootOf(s) \in DOMAIN t
    <3> DEFINE T == {i \in 1..Len(t) : t[i].m_ParentID = 0}
    <3>1. RootOf(s) = IF T # {} THEN Min(T) ELSE 0
      BY DEF RootOf, SelectInSeq
    <3>2. T # {} /\ T \subseteq 1..Len(t)
      BY <2>3, <3>1
    <3>3. RootOf(s) \in T
      BY <1>1, <3>1, <3>2, FirstPlace
    <3>4. QED
      BY <1>1, <3>3
  <2>6. QED
    BY <2>3, <2>4, <2>5 DEF Articulated
<1>3. QED
  BY <1>2

LEMMA ParentNamed ==
  ASSUME InitGet = "Success", NEW subject, subject # <<>>, SubjectIndex(subject) # 0,
         NEW s, s = m_LatestFrame.m_Subjects[SubjectIndex(subject)], Articulated(s),
         NEW n \in DOMAIN s.m_Segments,
         Given(GetSegmentParentName(subject, s.m_Segments[n].m_Name))
  PROVE  \E m \in DOMAIN s.m_Segments :
            /\ GetSegmentParentName(subject, s.m_Segments[n].m_Name).out = s.m_Segments[m].m_Name
            /\ s.m_Segments[n].m_ParentID = s.m_Segments[m].m_SegmentID
<1> DEFINE t == s.m_Segments
           name == t[n].m_Name
           id == t[n].m_ParentID
<1>1. /\ Len(t) \in Nat /\ DOMAIN t = 1..Len(t)
      /\ SegmentIndex(s, name) = n /\ n # 0 /\ name # <<>>
  BY FoundByName
<1>2. \E m \in DOMAIN t : /\ GetSegmentParentName(subject, name).out = t[m].m_Name
                          /\ id = t[m].m_SegmentID
  <2>1. GetSegmentParentName(subject, name) = ParentOf(s, t[n])
    <3>1. GetSegmentParentName(subject, name) = WithSegment(subject, name, ParentOf)
      BY DEF GetSegmentParentName, ParentOf
    <3>2. QED
      BY <1>1, <3>1 DEF WithSegment, WithSubject, WithMember, WithFrame, WithFirst,
                        SubjectIndex, SegmentIndex
  <2> DEFINE m == SegmentIndexOf(s, id)
  <2>2. ParentOf(s, t[n]) = IF m = 0 THEN Refuse("Unknown") ELSE Answer(t[m].m_Name)
    BY DEF ParentOf, WithFirst, SegmentIndexOf
  <2> DEFINE T == {i \in 1..Len(t) : t[i].m_SegmentID = id}
  <2>3. m = IF T # {} THEN Min(T) ELSE 0
    BY DEF SegmentIndexOf, SelectInSeq
  <2> HIDE DEF m
  <2>4. m # 0
    BY <2>1, <2>2, AnswersGiven
  <2>5. T # {} /\ T \subseteq 1..Len(t)
    BY <2>3, <2>4
  <2>6. m \in T
    BY <1>1, <2>3, <2>5, FirstPlace
  <2>7. GetSegmentParentName(subject, name).out = t[m].m_Name
    BY <2>1, <2>2, <2>4, AnswersGiven
  <2>8. QED
    BY <1>1, <2>6, <2>7
<1>3. QED
  BY <1>2

LEMMA GlobalsComposeHolds == GettersInv => GlobalsCompose
<1> SUFFICES ASSUME GettersInv, NEW subject \in SubjectNames,
                    NEW segment \in SegmentNames(subject),
                    Seen(GetSegmentLocalRotationMatrix(subject, segment))
             PROVE  LET parent == GetSegmentParentName(subject, segment)
                        root == GetSubjectRootSegmentName(subject).out
                        global(name) == GetSegmentGlobalRotationMatrix(subject, name)
                        place(name) == GetSegmentGlobalTranslation(subject, name)
                        rotation == GetSegmentLocalRotationMatrix(subject, segment)
                        offset == GetSegmentLocalTranslation(subject, segment)
                    IN  /\ Seen(global(segment)) /\ Seen(place(segment)) /\ Seen(offset)
                        /\ Given(parent) =>
                            /\ global(segment).out = Times(global(parent.out).out, rotation.out)
                            /\ place(segment).out = Plus(place(parent.out).out,
                                                     Apply(global(parent.out).out, offset.out))
                        /\ segment = root => /\ global(segment).out = rotation.out
                                             /\ place(segment).out = offset.out
  BY DEF GlobalsCompose
<1> DEFINE s == m_LatestFrame.m_Subjects[SubjectIndex(subject)]
           t == s.m_Segments
           globals == PosesIn(m_LatestFrame.m_GlobalSegments, s)
           locals == PosesIn(m_LatestFrame.m_LocalSegments, s)
           parent == GetSegmentParentName(subject, segment)
           root == GetSubjectRootSegmentName(subject).out
<1>1. /\ InitGet = "Success" /\ subject # <<>> /\ SubjectIndex(subject) # 0
      /\ s \in ToSet(m_LatestFrame.m_Subjects) /\ Articulated(s)
      /\ \E n \in DOMAIN t : segment = t[n].m_Name
  BY SegmentOfName
<1>2. s = m_LatestFrame.m_Subjects[SubjectIndex(subject)]
  OBVIOUS
<1>3. /\ Objects(m_LatestFrame.m_GlobalSegments) /\ Objects(m_LatestFrame.m_LocalSegments)
      /\ PosesFit(globals, locals, s)
  <2>1. WithPosesThatFit(m_LatestFrame)
    BY DEF GettersInv, WellFormed
  <2>2. QED
    BY <1>1, <2>1 DEF WithPosesThatFit
<1> HIDE DEF s
<1>4. PICK n \in DOMAIN t : segment = t[n].m_Name
  BY <1>1
<1> DEFINE g == t[n]
<1>5. \A m \in DOMAIN t : /\ SegmentIndex(s, t[m].m_Name) = m /\ m # 0
                          /\ t[m].m_Name # <<>> /\ t[m] \in ToSet(t)
  BY <1>1, FoundByName
\* What the getters answer for any segment of the subject.
<1>6. ASSUME NEW m \in DOMAIN t
      PROVE  /\ GetSegmentGlobalTranslation(subject, t[m].m_Name) = GlobalT(s, t[m])
             /\ GetSegmentGlobalRotationMatrix(subject, t[m].m_Name) = GlobalR(s, t[m])
             /\ GetSegmentLocalTranslation(subject, t[m].m_Name) = LocalT(s, t[m])
             /\ GetSegmentLocalRotationMatrix(subject, t[m].m_Name) = LocalR(s, t[m])
  BY <1>1, <1>2, <1>5, PoseAnswers
<1>7. /\ \A p \in globals \cup locals : p.m_Translation \in Vectors /\ p.m_Rotation \in Matrices
      /\ \A p, q \in globals : p.m_SegmentID = q.m_SegmentID => p = q
      /\ \A p, q \in locals : p.m_SegmentID = q.m_SegmentID => p = q
  BY <1>3 DEF PosesFit
<1>8. ASSUME NEW m \in DOMAIN t, NEW p \in globals, p.m_SegmentID = t[m].m_SegmentID
      PROVE  /\ GlobalT(s, t[m]) = Answer(OutT(p.m_Translation))
             /\ GlobalR(s, t[m]) = Answer(OutR(p.m_Rotation))
  <2> HIDE DEF t
  <2>1. QED
    BY <1>3, <1>7, <1>8, PoseSent DEF GlobalT, GlobalR
<1>9. PICK l \in locals : l.m_SegmentID = g.m_SegmentID
  <2> HIDE DEF t
  <2>1. Seen(LocalR(s, g))
    BY <1>4, <1>6
  <2>2. QED
    BY <1>3, <1>7, <2>1, PoseSent DEF LocalR
<1>10. LocalT(s, g) = Answer(OutT(l.m_Translation)) /\ LocalR(s, g) = Answer(OutR(l.m_Rotation))
  <2> HIDE DEF t, g
  <2>1. QED
    BY <1>3, <1>7, <1>9, PoseSent DEF LocalT, LocalR
<1>11. PICK p \in globals :
        /\ p.m_SegmentID = l.m_SegmentID
        /\ \A h \in ToSet(t) : h.m_SegmentID = l.m_SegmentID =>
            /\ h = t[RootOf(s)] =>
                    p.m_Translation = l.m_Translation /\ p.m_Rotation = l.m_Rotation
            /\ \A above \in ToSet(t) : h.m_ParentID = above.m_SegmentID =>
                    \E q \in globals : q.m_SegmentID = above.m_SegmentID /\ PlacedBy(p, q, l)
  BY <1>3 DEF PosesFit
<1>12. /\ GetSegmentGlobalTranslation(subject, segment) = Answer(OutT(p.m_Translation))
       /\ GetSegmentGlobalRotationMatrix(subject, segment) = Answer(OutR(p.m_Rotation))
       /\ GetSegmentLocalTranslation(subject, segment) = Answer(OutT(l.m_Translation))
       /\ GetSegmentLocalRotationMatrix(subject, segment) = Answer(OutR(l.m_Rotation))
  BY <1>4, <1>6, <1>8, <1>9, <1>10, <1>11
<1> HIDE DEF globals, locals
<1>13. \A out : Seen(Answer(out)) /\ Given(Answer(out)) /\ Answer(out).out = out
  BY DEF Seen, Given, Answer
<1>14. ASSUME segment = root
       PROVE  p.m_Translation = l.m_Translation /\ p.m_Rotation = l.m_Rotation
  <2>1. s.m_Segments[n].m_Name = GetSubjectRootSegmentName(subject).out
    BY <1>4, <1>14
  <2>2. g = t[RootOf(s)]
    BY <1>1, <1>2, <2>1, RootNamed
  <2>3. QED
    BY <1>5, <1>9, <1>11, <2>2
<1>15. ASSUME Given(parent)
       PROVE  \E q \in globals :
                /\ GetSegmentGlobalTranslation(subject, parent.out)
                        = Answer(OutT(q.m_Translation))
                /\ GetSegmentGlobalRotationMatrix(subject, parent.out)
                        = Answer(OutR(q.m_Rotation))
                /\ PlacedBy(p, q, l)
  <2>1. PICK m \in DOMAIN t : parent.out = t[m].m_Name /\ g.m_ParentID = t[m].m_SegmentID
    <3>1. parent = GetSegmentParentName(subject, s.m_Segments[n].m_Name)
      BY <1>4
    <3>2. Given(GetSegmentParentName(subject, s.m_Segments[n].m_Name))
      BY <1>15, <3>1
    <3>3. \E m \in DOMAIN s.m_Segments :
            /\ GetSegmentParentName(subject, s.m_Segments[n].m_Name).out = s.m_Segments[m].m_Name
            /\ s.m_Segments[n].m_ParentID = s.m_Segments[m].m_SegmentID
      BY <1>1, <1>2, <3>2, ParentNamed
    <3> HIDE DEF parent
    <3>4. QED
      BY <3>1, <3>3
  <2>2. PICK q \in globals : q.m_SegmentID = t[m].m_SegmentID /\ PlacedBy(p, q, l)
    BY <1>5, <1>9, <1>11, <2>1
  <2>3. QED
    BY <1>6, <1>8, <2>1, <2>2
<1>16. ASSUME NEW q \in globals, PlacedBy(p, q, l)
       PROVE  /\ OutR(p.m_Rotation) = Times(OutR(q.m_Rotation), OutR(l.m_Rotation))
              /\ OutT(p.m_Translation)
                    = Plus(OutT(q.m_Translation), Apply(OutR(q.m_Rotation), OutT(l.m_Translation)))
  <2>1. /\ p.m_Translation = Plus(q.m_Translation, Apply(q.m_Rotation, l.m_Translation))
        /\ p.m_Rotation = Times(q.m_Rotation, l.m_Rotation)
    BY <1>16 DEF PlacedBy
  <2>2. /\ q.m_Translation \in Vectors /\ q.m_Rotation \in Matrices
        /\ l.m_Translation \in Vectors /\ l.m_Rotation \in Matrices
    BY <1>7, <1>9
  <2>3. QED
    BY <2>1, <2>2, OutTogether DEF GettersInv
<1> HIDE DEF parent, root
<1>17. Given(parent) =>
        /\ GetSegmentGlobalRotationMatrix(subject, segment).out
                = Times(GetSegmentGlobalRotationMatrix(subject, parent.out).out,
                        GetSegmentLocalRotationMatrix(subject, segment).out)
        /\ GetSegmentGlobalTranslation(subject, segment).out
                = Plus(GetSegmentGlobalTranslation(subject, parent.out).out,
                       Apply(GetSegmentGlobalRotationMatrix(subject, parent.out).out,
                             GetSegmentLocalTranslation(subject, segment).out))
  BY <1>12, <1>13, <1>15, <1>16
<1>18. segment = root =>
        /\ GetSegmentGlobalRotationMatrix(subject, segment).out
                = GetSegmentLocalRotationMatrix(subject, segment).out
        /\ GetSegmentGlobalTranslation(subject, segment).out
                = GetSegmentLocalTranslation(subject, segment).out
  BY <1>12, <1>14
<1>19. QED
  BY <1>12, <1>13, <1>17, <1>18 DEF parent, root

\* In the answers of the getters a segment is where its local pose puts it in the global pose of
\* its parent, in any axes, for poses that were sent so and for all that GetFrame worked out.
THEOREM PosesStayTogether == Spec => []GlobalsCompose
BY FramesStayWellFormed, GlobalsComposeHolds, PTL

-----------------------------------------------------------------------------
(* Devices, their channels and the samples of a frame.                     *)

\* The device of a channel is found by its ID, and the name it has leads back to it.
LEMMA DeviceFound ==
  ASSUME WellFormed(m_LatestFrame), NEW n \in DOMAIN m_LatestFrame.m_Channels
  PROVE  LET c == m_LatestFrame.m_Channels[n]
             i == DeviceOf(c)
             device == m_LatestFrame.m_Devices[i]
         IN  /\ i # 0 /\ device.m_DeviceID = c.m_DeviceID
             /\ SelectInSeq(m_LatestFrame.m_Devices,
                            LAMBDA d : AdaptDeviceName(d) = DeviceNameOf(c)) = i
             /\ GetDevicePeriod(m_LatestFrame, c.m_DeviceID) = device.m_FramePeriod
<1> DEFINE c == m_LatestFrame.m_Channels[n]
           s == m_LatestFrame.m_Devices
           i0 == DeviceOf(c)
           T == {i \in 1..Len(s) : s[i].m_DeviceID = c.m_DeviceID}
           U == {i \in 1..Len(s) : AdaptDeviceName(s[i]) = DeviceNameOf(c)}
<1>1. DevicesNamed(m_LatestFrame.m_Devices, m_LatestFrame.m_Channels)
  BY DEF WellFormed, WithDevices
<1>2. IsSequence(s)
  BY <1>1 DEF DevicesNamed
<1>3. Len(s) \in Nat /\ DOMAIN s = 1..Len(s)
  BY <1>2, IsSequenceIs
<1>4. \E d \in ToSet(s) : d.m_DeviceID = c.m_DeviceID
  BY <1>1 DEF DevicesNamed
<1>5. PICK j \in DOMAIN s : s[j].m_DeviceID = c.m_DeviceID
  BY <1>2, <1>4, IsSequenceIs
<1>6. T # {} /\ T \subseteq 1..Len(s) /\ U \subseteq 1..Len(s)
  BY <1>3, <1>5
<1>7. i0 = Min(T)
  BY <1>6 DEF DeviceOf, SelectInSeq
<1>8. i0 \in T
  <2> HIDE DEF T, i0
  <2>1. QED
    BY <1>3, <1>6, <1>7, FirstPlace
<1>9. i0 \in DOMAIN s /\ i0 # 0 /\ s[i0].m_DeviceID = c.m_DeviceID
  BY <1>3, <1>8
<1>10. DeviceNameOf(c) = AdaptDeviceName(s[i0])
  BY DEF DeviceNameOf
<1> HIDE DEF i0
<1>11. i0 \in U
  BY <1>3, <1>9, <1>10
<1>12. \A i \in U : i = i0
  BY <1>1, <1>3, <1>9, <1>10 DEF DevicesNamed
<1>13. SelectInSeq(s, LAMBDA d : AdaptDeviceName(d) = DeviceNameOf(c)) = Min(U)
  BY <1>11 DEF SelectInSeq
<1>14. Min(U) = i0
  <2> HIDE DEF U
  <2>1. Min(U) \in U
    BY <1>3, <1>6, <1>11, FirstPlace
  <2>2. QED
    BY <2>1, <1>12
<1>15. GetDevicePeriod(m_LatestFrame, c.m_DeviceID) = s[i0].m_FramePeriod
  BY <1>9 DEF GetDevicePeriod, i0, DeviceOf
<1>16. QED
  BY <1>9, <1>13, <1>14, <1>15 DEF i0

\* A component with a name is the one output that the names of its channel and its own lead to.
LEMMA OneOutput ==
  ASSUME WellFormed(m_LatestFrame), NEW n \in DOMAIN m_LatestFrame.m_Channels,
         NEW k \in DOMAIN m_LatestFrame.m_Channels[n].m_ComponentNames,
         m_LatestFrame.m_Channels[n].m_ComponentNames[k] # <<>>,
         NEW d, d.m_DeviceID = m_LatestFrame.m_Channels[n].m_DeviceID
  PROVE  LET c == m_LatestFrame.m_Channels[n]
             outputs == OutputsOf({n})
         IN  /\ ChannelsNamed(d, c.m_Name) = {n}
             /\ {o \in outputs : OutputName(outputs, o) = c.m_ComponentNames[k]} = {<<n, k>>}
<1> DEFINE c == m_LatestFrame.m_Channels[n]
           outputs == OutputsOf({n})
           names == c.m_ComponentNames
<1>1. DevicesNamed(m_LatestFrame.m_Devices, m_LatestFrame.m_Channels)
  BY DEF WellFormed, WithDevices
<1>2. \A m \in DOMAIN m_LatestFrame.m_Channels :
        LET e == m_LatestFrame.m_Channels[m]
        IN  /\ e.m_Name # <<>>
            /\ e.m_DeviceID = c.m_DeviceID => m = n \/ e.m_Name # c.m_Name
  BY <1>1, Zenon DEF DevicesNamed
<1>3. ChannelsNamed(d, c.m_Name) = {n}
  BY <1>2 DEF ChannelsNamed, ChannelsOf
<1>4. /\ IsSequence(names)
      /\ \A name \in ToSet(names) : name = <<>> \/ name[1] # "Unnamed Device Output"
      /\ \A i, j \in DOMAIN names : names[i] = names[j] => i = j \/ names[i] = <<>>
  BY <1>1 DEF DevicesNamed
<1>5. outputs = {n} \X DOMAIN names
  BY DEF OutputsOf
<1>6. /\ <<n, k>> \in outputs
      /\ \A o \in outputs : o[1] = n /\ o[2] \in DOMAIN names /\ o = <<n, o[2]>>
  <2>1. \A o \in {n} \X DOMAIN names :
            o[1] \in {n} /\ o[2] \in DOMAIN names /\ o = <<o[1], o[2]>>
    OBVIOUS
  <2>2. <<n, k>> \in {n} \X DOMAIN names
    OBVIOUS
  <2> HIDE DEF outputs
  <2>3. QED
    BY <1>5, <2>1, <2>2
<1>7. \A j \in DOMAIN names : names[j] \in ToSet(names)
  BY <1>4, IsSequenceIs
<1> HIDE DEF outputs
<1>8. OutputName(outputs, <<n, k>>) = names[k]
  BY DEF OutputName, AdaptDeviceOutputName
<1>9. ASSUME NEW o \in outputs, OutputName(outputs, o) = names[k] PROVE o = <<n, k>>
  <2>1. OutputName(outputs, o) = AdaptDeviceOutputName(names[o[2]], OutputIndex(outputs, o))
    BY <1>6 DEF OutputName
  <2>2. CASE names[o[2]] # <<>>
    <3>1. names[o[2]] = names[k]
      BY <1>9, <2>1, <2>2 DEF AdaptDeviceOutputName
    <3>2. QED
      BY <1>4, <1>6, <2>2, <3>1
  <2>3. CASE names[o[2]] = <<>>
    <3>1. names[k] = <<"Unnamed Device Output", OutputIndex(outputs, o) + 1>>
      BY <1>9, <2>1, <2>3 DEF AdaptDeviceOutputName
    <3>2. names[k][1] = "Unnamed Device Output"
      <4>1. \A x : <<"Unnamed Device Output", x>>[1] = "Unnamed Device Output"
        OBVIOUS
      <4>2. QED
        BY <3>1, <4>1
    <3>3. QED
      BY <1>4, <1>7, <3>2
  <2>4. QED
    BY <2>2, <2>3
<1>10. QED
  BY <1>3, <1>6, <1>8, <1>9 DEF outputs

\* The device frame that is read first for a channel, and the sample of the components of one.
FirstDataOf(c) == SelectInSeq(FramesFor(m_LatestFrame, c), LAMBDA data : IsDataOf(c, data))

CountIn(c, data) ==
    GetSamplesInFrame(GetFramePeriod(m_LatestFrame),
                      GetDeviceStartTick(m_LatestFrame, c.m_DeviceID),
                      GetDevicePeriod(m_LatestFrame, c.m_DeviceID)
                        \div (Len(data.m_Samples) \div Len(c.m_ComponentNames)))

SampleOf(c, i) ==
    SampleFrom(FramesFor(m_LatestFrame, c), LAMBDA data : IsDataOf(c, data), LAMBDA data : FALSE,
               c.m_DeviceID, Len(c.m_ComponentNames), i, Occluded)

\* What the getters of an output that has a name come down to.
LEMMA OutputAnswers ==
  ASSUME WellFormed(m_LatestFrame), InitGet = "Success", NEW n \in DOMAIN m_LatestFrame.m_Channels,
         NEW k \in DOMAIN m_LatestFrame.m_Channels[n].m_ComponentNames,
         m_LatestFrame.m_Channels[n].m_ComponentNames[k] # <<>>
  PROVE  LET c == m_LatestFrame.m_Channels[n]
             name == c.m_ComponentNames[k]
             first == FirstDataOf(c)
         IN  /\ GetDeviceOutputSubsamples(DeviceNameOf(c), c.m_Name, name)
                    = IF first = 0 THEN Occluded
                      ELSE Answer(CountIn(c, FramesFor(m_LatestFrame, c)[first]))
             /\ \A i : GetDeviceOutputValueAt(DeviceNameOf(c), c.m_Name, name, i)
                    = IF ~Seen(SampleOf(c, i)) THEN SampleOf(c, i)
                      ELSE Answer((IF IsForcePlateCoreChannel(c) THEN OutT(SampleOf(c, i).out)
                                   ELSE SampleOf(c, i).out)[k])
<1> DEFINE c == m_LatestFrame.m_Channels[n]
           name == c.m_ComponentNames[k]
           first == FirstDataOf(c)
           i0 == DeviceOf(c)
           d == m_LatestFrame.m_Devices[i0]
           outputs == OutputsOf({n})
           hits == {o \in outputs : OutputName(outputs, o) = name}
<1>1. /\ i0 # 0 /\ d.m_DeviceID = c.m_DeviceID
      /\ SelectInSeq(m_LatestFrame.m_Devices, LAMBDA x : AdaptDeviceName(x) = DeviceNameOf(c)) = i0
      /\ GetDevicePeriod(m_LatestFrame, c.m_DeviceID) = d.m_FramePeriod
  BY DeviceFound
<1>2. ChannelsNamed(d, c.m_Name) = {n} /\ hits = {<<n, k>>}
  BY <1>1, OneOutput
<1>3. c.m_ComponentNames # <<>>
  <2>1. IsSequence(c.m_ComponentNames)
    BY DEF WellFormed, WithDevices, DevicesNamed
  <2>2. QED
    BY <2>1, IsSequenceIs
<1>4. (CHOOSE o \in hits : \A p \in hits : ~ComesBefore(p, o)) = <<n, k>>
  <2>1. ~ComesBefore(<<n, k>>, <<n, k>>)
    <3>1. n \in Nat /\ k \in Nat
      <4>1. IsSequence(m_LatestFrame.m_Channels) /\ IsSequence(c.m_ComponentNames)
        BY DEF WellFormed, WithDevices, DevicesNamed
      <4>2. QED
        BY <4>1, IsSequenceIs
    <3>2. QED
      BY <3>1 DEF ComesBefore
  <2> HIDE DEF hits
  <2>2. QED
    BY <1>2, <2>1
<1> HIDE DEF i0
<1>5. GetDeviceOutputSubsamples(DeviceNameOf(c), c.m_Name, name)
        = IF first = 0 THEN Occluded ELSE Answer(CountIn(c, FramesFor(m_LatestFrame, c)[first]))
  <2> DEFINE
        Then(dev, x, y) == WithFirst(FramesFor(m_LatestFrame, x), LAMBDA data : IsDataOf(x, data),
                LAMBDA data :
                    LET m == Len(data.m_Samples) \div Len(x.m_ComponentNames)
                    IN  Answer(GetSamplesInFrame(GetFramePeriod(m_LatestFrame),
                                                 GetDeviceStartTick(m_LatestFrame, dev.m_DeviceID),
                                                 dev.m_FramePeriod \div m)),
                Occluded)
        From(dev, o) == Then(dev, m_LatestFrame.m_Channels[o[1]], o[2])
        empty(dev) == {x \in ChannelsNamed(dev, c.m_Name) :
                            m_LatestFrame.m_Channels[x].m_ComponentNames = <<>>}
        others(dev) == {x \in ChannelsNamed(dev, c.m_Name) : \A e \in empty(dev) : x < e}
        found(dev) == {o \in OutputsOf(others(dev)) : OutputName(OutputsOf(others(dev)), o) = name}
        refused(dev) == IF empty(dev) = {} THEN "InvalidDeviceOutputName" ELSE "NoFrame"
        Body(dev) == WithFirstOutput(found(dev), LAMBDA o : From(dev, o), refused(dev))
  <2>1. empty(d) = {} /\ others(d) = {n}
    BY <1>2, <1>3
  <2>2. found(d) = hits
    <3> HIDE DEF others
    <3>1. QED
      BY <2>1
  <2>3. GetDeviceOutputSubsamples(DeviceNameOf(c), c.m_Name, name)
            = WithDevice(DeviceNameOf(c), Body)
    BY DEF GetDeviceOutputSubsamples, WithOutput
  <2>4. Body(d) = From(d, <<n, k>>)
    <3> HIDE DEF From, found, hits
    <3>1. QED
      BY <1>2, <1>4, <2>2 DEF WithFirstOutput
  <2>5. WithDevice(DeviceNameOf(c), Body) = Body(d)
    <3> HIDE DEF Body
    <3>1. QED
      BY <1>1 DEF WithDevice, WithFrame, WithFirst
  <2>6. From(d, <<n, k>>) = Then(d, c, k)
    <3> HIDE DEF Then
    <3>1. QED
      OBVIOUS
  <2>7. Then(d, c, k)
            = IF first = 0 THEN Occluded ELSE Answer(CountIn(c, FramesFor(m_LatestFrame, c)[first]))
    BY <1>1 DEF WithFirst, FirstDataOf, CountIn
  <2> HIDE DEF Then, From, Body
  <2>8. QED
    BY <2>3, <2>4, <2>5, <2>6, <2>7
<1>6. ASSUME NEW i
      PROVE  GetDeviceOutputValueAt(DeviceNameOf(c), c.m_Name, name, i)
                = IF ~Seen(SampleOf(c, i)) THEN SampleOf(c, i)
                  ELSE Answer((IF IsForcePlateCoreChannel(c) THEN OutT(SampleOf(c, i).out)
                               ELSE SampleOf(c, i).out)[k])
  <2> DEFINE
        Then(dev, x, y) ==
            LET samples == SampleFrom(FramesFor(m_LatestFrame, x), LAMBDA data : IsDataOf(x, data),
                                      LAMBDA data : FALSE, dev.m_DeviceID,
                                      Len(x.m_ComponentNames), i, Occluded)
            IN  IF ~Seen(samples) THEN samples
                ELSE Answer((IF IsForcePlateCoreChannel(x) THEN OutT(samples.out)
                             ELSE samples.out)[y])
        From(dev, o) == Then(dev, m_LatestFrame.m_Channels[o[1]], o[2])
        channels(dev) == ChannelsNamed(dev, c.m_Name)
        found(dev) == {o \in OutputsOf(channels(dev)) :
                            OutputName(OutputsOf(channels(dev)), o) = name}
        Body(dev) == WithFirstOutput(found(dev), LAMBDA o : From(dev, o), "InvalidDeviceOutputName")
  <2>2. found(d) = hits
    BY <1>2
  <2>3. GetDeviceOutputValueAt(DeviceNameOf(c), c.m_Name, name, i)
            = WithDevice(DeviceNameOf(c), Body)
    BY DEF GetDeviceOutputValueAt, WithOutput
  <2>4. Body(d) = From(d, <<n, k>>)
    <3> HIDE DEF From, found, hits
    <3>1. QED
      BY <1>2, <1>4, <2>2 DEF WithFirstOutput
  <2>5. WithDevice(DeviceNameOf(c), Body) = Body(d)
    <3> HIDE DEF Body
    <3>1. QED
      BY <1>1 DEF WithDevice, WithFrame, WithFirst
  <2>6. From(d, <<n, k>>) = Then(d, c, k)
    <3> HIDE DEF Then
    <3>1. QED
      OBVIOUS
  <2>7. Then(d, c, k) = IF ~Seen(SampleOf(c, i)) THEN SampleOf(c, i)
                        ELSE Answer((IF IsForcePlateCoreChannel(c) THEN OutT(SampleOf(c, i).out)
                                     ELSE SampleOf(c, i).out)[k])
    BY <1>1, Zenon DEF SampleOf
  <2> HIDE DEF Then, From, Body
  <2>8. QED
    BY <2>3, <2>4, <2>5, <2>6, <2>7
<1>7. QED
  BY <1>5, <1>6

LEMMA Remainder ==
  ASSUME NEW x \in Nat, NEW p \in Nat \ {0}, x % p = 0
  PROVE  x = (x \div p) * p
OBVIOUS

LEMMA ProductQuotient ==
  ASSUME NEW m \in Nat, NEW l \in Nat \ {0}
  PROVE  (m * l) \div l = m
<1> DEFINE q == (m * l) \div l
<1>1. m * l \in Nat
  OBVIOUS
<1>2. q \in Nat /\ q * l <= m * l /\ m * l < q * l + l
  <2>1. \A x \in Nat : x \div l \in Nat /\ (x \div l) * l <= x /\ x < (x \div l) * l + l
    BY Quotient
  <2>2. QED
    BY <1>1, <2>1
<1> HIDE DEF q
<1>3. CASE q < m
  <2>1. (q + 1) * l <= m * l
    BY <1>2, <1>3, ProductsOrdered
  <2>2. (q + 1) * l = q * l + l
    BY <1>2
  <2>3. QED
    BY <1>2, <2>1, <2>2
<1>4. CASE q > m
  <2>1. (m + 1) * l <= q * l
    BY <1>2, <1>4, ProductsOrdered
  <2>2. (m + 1) * l = m * l + l
    OBVIOUS
  <2>3. QED
    BY <1>1, <1>2, <2>1, <2>2
<1>5. CASE q = m
  BY <1>5 DEF q
<1>6. QED
  BY <1>2, <1>3, <1>4, <1>5

\* The samples of a channel in terms of their number: m in a device frame, one every Step ticks.
StartOf(c) == GetDeviceStartTick(m_LatestFrame, c.m_DeviceID)

StepOf(c, m) == GetDevicePeriod(m_LatestFrame, c.m_DeviceID) \div m

CountOf(c, m) == GetSamplesInFrame(GetFramePeriod(m_LatestFrame), StartOf(c), StepOf(c, m))

FromOf(c, m) == GetNextSampleIndex(GetFramePeriod(m_LatestFrame).first, StartOf(c), StepOf(c, m))

SampledBy(c, m) ==
    LET period == GetFramePeriod(m_LatestFrame)
        data == DataOf(m_LatestFrame, c)
        step == StepOf(c, m)
    IN  /\ m \in Nat \ {0} /\ step \in Nat \ {0} /\ StartOf(c) \in Nat
        /\ GetDevicePeriod(m_LatestFrame, c.m_DeviceID) = m * step
        /\ GetDevicePeriod(m_LatestFrame, c.m_DeviceID) % m = 0
        /\ period.first \in Nat /\ period.second \in Nat /\ period.first <= period.second
        /\ Len(c.m_ComponentNames) \in Nat \ {0}
        /\ \A d \in data :
            /\ d.m_FrameID \in Nat
            /\ Len(d.m_Samples) = m * Len(c.m_ComponentNames)
            /\ Len(d.m_Samples) \div Len(c.m_ComponentNames) = m
        /\ \A d, e \in data : d.m_FrameID = e.m_FrameID => d = e
        /\ \A k \in 0..period.second :
            StartOf(c) + k * (m * step) < period.second
                /\ StartOf(c) + (k + 1) * (m * step) > period.first
                    => \E d \in data : d.m_FrameID = k

LEMMA SamplesKnown ==
  ASSUME WellFormed(m_LatestFrame), NEW c \in ToSet(m_LatestFrame.m_Channels),
         c.m_ComponentNames # <<>>, DataOf(m_LatestFrame, c) # {}
  PROVE  \E m : SampledBy(c, m)
<1> DEFINE period == GetFramePeriod(m_LatestFrame)
           data == DataOf(m_LatestFrame, c)
           devicePeriod == GetDevicePeriod(m_LatestFrame, c.m_DeviceID)
           l == Len(c.m_ComponentNames)
<1>1. Sampled(m_LatestFrame, c)
  BY DEF WellFormed, WithDevices
<1>2. /\ m_LatestFrame.m_FramePeriod \in Nat /\ m_LatestFrame.m_FrameID \in Nat
      /\ StartOf(c) \in Nat /\ devicePeriod \in Nat
  BY <1>1, Zenon DEF Sampled, StartOf
<1>3. PICK m \in 1..devicePeriod :
        /\ devicePeriod % m = 0
        /\ \A d \in data : d.m_FrameID \in Nat /\ Len(d.m_Samples) = m * l
        /\ \A d, e \in data : d.m_FrameID = e.m_FrameID => d = e
        /\ \A k \in 0..period.second :
            StartOf(c) + k * devicePeriod < period.second
                /\ StartOf(c) + (k + 1) * devicePeriod > period.first
                    => \E d \in data : d.m_FrameID = k
  BY <1>1, Zenon DEF Sampled, StartOf
<1>4. l \in Nat \ {0}
  <2>1. c.m_ComponentNames \in Seq(ToSet(c.m_ComponentNames))
    <3>1. \E n \in DOMAIN m_LatestFrame.m_Channels : c = m_LatestFrame.m_Channels[n]
      BY IsSequenceIs DEF WellFormed, WithDevices, DevicesNamed
    <3>2. QED
      BY <3>1 DEF WellFormed, WithDevices, DevicesNamed, IsSequence
  <2>2. QED
    BY <2>1
<1>5. /\ period.first \in Nat /\ period.second \in Nat /\ period.first <= period.second
  <2>1. m_LatestFrame.m_FramePeriod * m_LatestFrame.m_FrameID \in Nat
    BY <1>2
  <2>2. QED
    BY <1>2, <2>1 DEF GetFramePeriod
<1>6. m \in Nat \ {0} /\ devicePeriod \in Nat /\ m <= devicePeriod
  BY <1>2, <1>3
<1>7. StepOf(c, m) \in Nat \ {0} /\ devicePeriod = m * StepOf(c, m)
  <2> DEFINE q == devicePeriod \div m
  <2>1. StepOf(c, m) = q
    BY DEF StepOf
  <2> HIDE DEF devicePeriod
  <2>2. q \in Nat
    BY <1>6, Quotient
  <2>3. devicePeriod = q * m /\ devicePeriod # 0
    BY <1>3, <1>6, Remainder
  <2> HIDE DEF q
  <2>4. q # 0 /\ q * m = m * q
    BY <1>6, <2>2, <2>3
  <2>5. QED
    BY <2>1, <2>2, <2>3, <2>4
<1>8. \A d \in data : Len(d.m_Samples) \div l = m
  BY <1>3, <1>4, <1>6, ProductQuotient
<1>9. SampledBy(c, m)
  <2> HIDE DEF period, data, devicePeriod, l
  <2>1. \A k \in 0..period.second :
            StartOf(c) + k * (m * StepOf(c, m)) < period.second
                /\ StartOf(c) + (k + 1) * (m * StepOf(c, m)) > period.first
                    => \E d \in data : d.m_FrameID = k
    BY <1>3, <1>7
  <2>2. QED
    BY <1>2, <1>3, <1>4, <1>5, <1>6, <1>7, <1>8, <2>1 DEF SampledBy, period, data, devicePeriod, l
<1>10. QED
  BY <1>9

\* Every sample of the frame is in a device frame, and in one place.
LEMMA SampleIsThere ==
  ASSUME NEW c, NEW m, SampledBy(c, m), NEW i \in 0..CountOf(c, m) - 1
  PROVE  \E d \in DataOf(m_LatestFrame, c), j \in 0..m - 1 : d.m_FrameID * m + j = FromOf(c, m) + i
<1> DEFINE period == GetFramePeriod(m_LatestFrame)
           data == DataOf(m_LatestFrame, c)
           step == StepOf(c, m)
           start == StartOf(c)
           first == period.first
           second == period.second
           from == FromOf(c, m)
           to == GetNextSampleIndex(second, start, step)
           number == from + i
           q == number \div m
           j == number - q * m
<1>1. /\ m \in Nat \ {0} /\ step \in Nat \ {0} /\ start \in Nat
      /\ first \in Nat /\ second \in Nat /\ first <= second
      /\ \A k \in 0..second :
            start + k * (m * step) < second /\ start + (k + 1) * (m * step) > first
                => \E d \in data : d.m_FrameID = k
  BY Zenon DEF SampledBy
<1>2. CountOf(c, m) = to - from
  BY DEF CountOf, GetSamplesInFrame, FromOf
<1>3. from \in Nat /\ to \in Nat
  BY <1>1, NextSample DEF FromOf
<1>4. i \in Nat /\ i < to - from
  <2> HIDE DEF to, from
  <2>1. QED
    BY <1>2, <1>3
<1>5. number \in Nat /\ from <= number /\ number < to
  BY <1>3, <1>4
<1>6. first <= start + number * step
  BY <1>1, <1>5, NextSample DEF FromOf
<1>7. start + number * step < second
  <2>1. ~(second <= start + number * step)
    <3>1. \A k \in Nat : to <= k <=> second <= start + k * step
      BY <1>1, NextSample
    <3> HIDE DEF number, step, start, second, from, to
    <3>2. QED
      BY <1>3, <1>5, <3>1
  <2>2. number * step \in Nat
    BY <1>1, <1>5
  <2> HIDE DEF number, step, start, second
  <2>3. QED
    BY <1>1, <2>1, <2>2
<1> HIDE DEF number, step, start, first, second, from, to
<1>8. q \in Nat /\ q * m <= number /\ number < q * m + m
  BY <1>1, <1>5, Quotient
<1> HIDE DEF q
<1>9. /\ q * (m * step) <= number * step
      /\ (number + 1) * step <= (q + 1) * (m * step)
  <2>1. q * (m * step) = (q * m) * step /\ (q + 1) * (m * step) = (q * m + m) * step
    BY <1>1, <1>8
  <2>2. q * m \in Int /\ q * m + m \in Int /\ number + 1 <= q * m + m
    BY <1>1, <1>5, <1>8
  <2>3. (q * m) * step <= number * step
    BY <1>1, <1>5, <1>8, <2>2, ProductsOrdered
  <2>4. (number + 1) * step <= (q * m + m) * step
    BY <1>1, <1>5, <2>2, ProductsOrdered
  <2>5. QED
    BY <2>1, <2>3, <2>4
<1>10. /\ number * step \in Nat /\ q * (m * step) \in Nat /\ (q + 1) * (m * step) \in Nat
       /\ (number + 1) * step = number * step + step
  BY <1>1, <1>5, <1>8
<1>11. start + q * (m * step) < second /\ start + (q + 1) * (m * step) > first
  BY <1>1, <1>6, <1>7, <1>9, <1>10
<1>12. q <= second
  <2>1. q * 1 <= q * m /\ number * 1 <= number * step
    BY <1>1, <1>5, <1>8
  <2>2. QED
    BY <1>1, <1>5, <1>7, <1>8, <1>10, <2>1
<1>13. PICK d \in data : d.m_FrameID = q
  BY <1>1, <1>8, <1>11, <1>12
<1>14. j \in 0..m - 1 /\ q * m + j = number
  BY <1>1, <1>5, <1>8
<1>15. QED
  BY <1>13, <1>14 DEF data, number, from

\* Where the search for sample i may end.
HitsFor(c, m, i) ==
    {x \in 1..Len(FramesFor(m_LatestFrame, c)) :
        LET d == FramesFor(m_LatestFrame, c)[x]
        IN  /\ IsDataOf(c, d)
            /\ \/ i >= CountOf(c, m)
               \/ SubSample(i, d, m, StepOf(c, m), StartOf(c), GetFramePeriod(m_LatestFrame))
                    \in 0..m - 1}

\* It ends at the device frame that has the sample.
LEMMA SearchEnds ==
  ASSUME NEW c, NEW m, SampledBy(c, m), IsSequence(FramesFor(m_LatestFrame, c)),
         NEW d \in DataOf(m_LatestFrame, c), NEW j \in 0..m - 1, NEW i \in 0..CountOf(c, m) - 1,
         d.m_FrameID * m + j = FromOf(c, m) + i
  PROVE  LET frames == FramesFor(m_LatestFrame, c)
             first == Min(HitsFor(c, m, i))
         IN  /\ HitsFor(c, m, i) # {} /\ first \in 1..Len(frames) /\ frames[first] = d
             /\ SubSample(i, d, m, StepOf(c, m), StartOf(c), GetFramePeriod(m_LatestFrame)) = j
             /\ ~(i >= CountOf(c, m))
<1> DEFINE frames == FramesFor(m_LatestFrame, c)
           from == FromOf(c, m)
           hits == HitsFor(c, m, i)
           at(e) == SubSample(i, e, m, StepOf(c, m), StartOf(c), GetFramePeriod(m_LatestFrame))
<1>1. /\ m \in Nat \ {0} /\ StepOf(c, m) \in Nat \ {0} /\ StartOf(c) \in Nat
      /\ GetFramePeriod(m_LatestFrame).first \in Nat /\ GetFramePeriod(m_LatestFrame).second \in Nat
      /\ \A e \in DataOf(m_LatestFrame, c) : e.m_FrameID \in Nat
      /\ \A e, x \in DataOf(m_LatestFrame, c) : e.m_FrameID = x.m_FrameID => e = x
  BY Zenon DEF SampledBy
<1>2. from \in Nat
  BY <1>1, NextSample DEF FromOf
<1>3. CountOf(c, m) \in Int
  <2>1. \A tick \in Nat : GetNextSampleIndex(tick, StartOf(c), StepOf(c, m)) \in Nat
    BY <1>1, NextSample
  <2>2. QED
    BY <1>1, <2>1 DEF CountOf, GetSamplesInFrame
<1>4. i \in Nat /\ ~(i >= CountOf(c, m))
  BY <1>3
<1>5. \A e : at(e) = i + from - e.m_FrameID * m
  BY DEF SubSample, FromOf
<1> HIDE DEF from, at
<1>6. at(d) = j
  <2>1. d.m_FrameID * m \in Nat
    BY <1>1
  <2>2. QED
    BY <1>1, <1>2, <1>4, <1>5, <2>1 DEF from
<1>7. Len(frames) \in Nat /\ \A e \in ToSet(frames) : \E x \in 1..Len(frames) : e = frames[x]
  <2>1. DOMAIN frames = 1..Len(frames)
    BY IsSequenceIs
  <2>2. QED
    BY <2>1, IsSequenceIs
<1>8. PICK x0 \in 1..Len(frames) : d = frames[x0]
  BY <1>7 DEF DataOf
<1>9. IsDataOf(c, d)
  BY DEF DataOf
<1>10. x0 \in hits
  BY <1>6, <1>8, <1>9 DEF HitsFor, at
<1>11. hits \subseteq 1..Len(frames)
  BY DEF HitsFor
<1>12. ASSUME NEW x \in hits PROVE frames[x] = d
  <2>1. x \in 1..Len(frames) /\ IsDataOf(c, frames[x]) /\ at(frames[x]) \in 0..m - 1
    BY <1>4 DEF HitsFor, at
  <2>2. frames[x] \in DataOf(m_LatestFrame, c)
    <3>1. frames[x] \in ToSet(frames)
      BY <2>1, IsSequenceIs
    <3>2. QED
      BY <2>1, <3>1 DEF DataOf
  <2> DEFINE a == frames[x].m_FrameID
             b == d.m_FrameID
  <2>3. a \in Nat /\ b \in Nat
    BY <1>1, <2>2
  <2>4. i + from - a * m \in 0..m - 1 /\ i + from - b * m = j
    BY <1>5, <1>6, <2>1
  <2> HIDE DEF a, b
  <2>5. a * m \in Nat /\ b * m \in Nat /\ (a + 1) * m = a * m + m /\ (b + 1) * m = b * m + m
    BY <1>1, <2>3
  <2>6. ~(a < b)
    <3> SUFFICES ASSUME a < b PROVE FALSE
      OBVIOUS
    <3>1. (a + 1) * m <= b * m
      BY <1>1, <2>3, ProductsOrdered
    <3>2. QED
      BY <1>1, <1>2, <1>4, <2>4, <2>5, <3>1
  <2>7. ~(b < a)
    <3> SUFFICES ASSUME b < a PROVE FALSE
      OBVIOUS
    <3>1. (b + 1) * m <= a * m
      BY <1>1, <2>3, ProductsOrdered
    <3>2. QED
      BY <1>1, <1>2, <1>4, <2>4, <2>5, <3>1
  <2>8. a = b
    BY <2>3, <2>6, <2>7
  <2>9. QED
    BY <1>1, <2>2, <2>8 DEF a, b
<1>13. Min(hits) \in hits
  BY <1>7, <1>10, <1>11, FirstPlace
<1>14. QED
  BY <1>4, <1>6, <1>10, <1>11, <1>12, <1>13 DEF at

\* So the sample of a channel is that of this device frame.
VectorAt(c, m, d, j) ==
    [x \in 1..Len(c.m_ComponentNames) |-> d.m_Samples[(x - 1) * m + j + 1]]

LEMMA SampleIs ==
  ASSUME NEW c, NEW m, SampledBy(c, m), IsSequence(FramesFor(m_LatestFrame, c)),
         NEW d \in DataOf(m_LatestFrame, c), NEW j \in 0..m - 1, NEW i \in 0..CountOf(c, m) - 1,
         d.m_FrameID * m + j = FromOf(c, m) + i
  PROVE  SampleOf(c, i) = Answer(VectorAt(c, m, d, j))
<1> DEFINE frames == FramesFor(m_LatestFrame, c)
           n == Len(c.m_ComponentNames)
           period == GetFramePeriod(m_LatestFrame)
           start == GetDeviceStartTick(m_LatestFrame, c.m_DeviceID)
           stride(e) == Len(e.m_Samples) \div n
           samplePeriod(e) == GetDevicePeriod(m_LatestFrame, c.m_DeviceID) \div stride(e)
           beyond(e) == i >= GetSamplesInFrame(period, start, samplePeriod(e))
           at(e) == SubSample(i, e, stride(e), samplePeriod(e), start, period)
           Test(e) == IsDataOf(c, e) /\ (FALSE \/ beyond(e) \/ at(e) \in 0..stride(e) - 1)
           Then(e) == IF FALSE THEN Refuse("Unknown")
                      ELSE IF beyond(e) THEN Refuse("InvalidIndex")
                      ELSE Answer([x \in 1..n |-> e.m_Samples[(x - 1) * stride(e) + at(e) + 1]])
           T == {x \in 1..Len(frames) : Test(frames[x])}
           hits == HitsFor(c, m, i)
<1>1. SampleOf(c, i) = WithFirst(frames, Test, Then, Occluded)
  BY DEF SampleOf, SampleFrom
<1>2. \A e \in DataOf(m_LatestFrame, c) : stride(e) = m
  BY Zenon DEF SampledBy
<1>3. ASSUME NEW e, stride(e) = m
      PROVE  /\ beyond(e) <=> i >= CountOf(c, m)
             /\ at(e) = SubSample(i, e, m, StepOf(c, m), StartOf(c), period)
  BY <1>3 DEF CountOf, StepOf, StartOf
<1>4. \A x \in 1..Len(frames) : IsDataOf(c, frames[x]) => frames[x] \in DataOf(m_LatestFrame, c)
  <2>1. \A x \in 1..Len(frames) : frames[x] \in ToSet(frames)
    BY IsSequenceIs
  <2>2. QED
    BY <2>1 DEF DataOf
<1>5. T = hits
  <2> SUFFICES ASSUME NEW x \in 1..Len(frames), IsDataOf(c, frames[x])
               PROVE  Test(frames[x]) <=> x \in hits
    BY DEF HitsFor
  <2>1. stride(frames[x]) = m
    BY <1>2, <1>4
  <2> HIDE DEF beyond, at, stride
  <2>2. /\ beyond(frames[x]) <=> i >= CountOf(c, m)
        /\ at(frames[x]) = SubSample(i, frames[x], m, StepOf(c, m), StartOf(c), period)
    BY <1>3, <2>1
  <2>3. QED
    BY <2>1, <2>2 DEF HitsFor
<1>6. /\ hits # {} /\ Min(hits) \in 1..Len(frames) /\ frames[Min(hits)] = d
      /\ SubSample(i, d, m, StepOf(c, m), StartOf(c), period) = j /\ ~(i >= CountOf(c, m))
  BY SearchEnds
<1>7. SelectInSeq(frames, Test) = Min(T)
  <2>1. T # {}
    <3> HIDE DEF T, hits
    <3>1. QED
      BY <1>5, <1>6
  <2> HIDE DEF Test
  <2>2. QED
    BY <2>1 DEF SelectInSeq
<1>8. SelectInSeq(frames, Test) = Min(hits)
  <2> HIDE DEF T, hits, Test
  <2>1. QED
    BY <1>5, <1>7
<1>9. WithFirst(frames, Test, Then, Occluded) = Then(d)
  <2>1. Min(hits) # 0
    <3>1. 0 \notin 1..Len(frames)
      OBVIOUS
    <3>2. QED
      BY <1>6, <3>1
  <2> HIDE DEF Test, Then, hits
  <2>2. QED
    BY <1>6, <1>8, <2>1 DEF WithFirst
<1>10. Then(d) = Answer(VectorAt(c, m, d, j))
  <2>1. stride(d) = m
    BY <1>2
  <2>2. ~beyond(d) /\ at(d) = j
    BY <1>3, <1>6, <2>1
  <2> HIDE DEF beyond, at, stride
  <2>3. QED
    BY <2>1, <2>2 DEF VectorAt
<1>11. QED
  <2> HIDE DEF Then
  <2>1. QED
    BY <1>1, <1>9, <1>10

\* Different elements for 0..n-1 are n elements.
LEMMA CountOfImage ==
  ASSUME NEW n \in Nat, NEW f, \A i, j \in 0..n - 1 : f[i] = f[j] => i = j
  PROVE  Cardinality({f[i] : i \in 0..n - 1}) = n
<1> DEFINE T == {f[i] : i \in 0..n - 1}
           g == [i \in 0..n - 1 |-> f[i]]
<1>1. g \in Surjection(0..n - 1, T)
  BY DEF Surjection
<1>2. g \in Injection(0..n - 1, T)
  BY DEF Injection, IsInjective
<1>3. IsFiniteSet(0..n - 1) /\ Cardinality(0..n - 1) = n
  <2>1. /\ IsFiniteSet(0..n - 1)
        /\ Cardinality(0..n - 1) = IF 0 > n - 1 THEN 0 ELSE n - 1 - 0 + 1
    BY FS_Interval
  <2>2. QED
    BY <2>1
<1> HIDE DEF T, g
<1>4. Cardinality(T) = n
  BY <1>1, <1>2, <1>3, FS_Surjection
<1>5. QED
  BY <1>4 DEF T

\* If the ticks increase, the place of an element is the number of those with smaller ticks.
LEMMA CountedByTick ==
  ASSUME NEW n \in Nat, NEW f, \A i \in 0..n - 1 : f[i].tick \in Int,
         \A i, j \in 0..n - 1 : i < j => f[i].tick < f[j].tick,
         NEW S, S = {f[i] : i \in 0..n - 1}
  PROVE  /\ Cardinality(S) = n
         /\ \A i \in 0..n - 1 : Cardinality({y \in S : y.tick < f[i].tick}) = i
<1>1. \A i, j \in 0..n - 1 : f[i] = f[j] => i = j
  <2> SUFFICES ASSUME NEW i \in 0..n - 1, NEW j \in 0..n - 1, f[i] = f[j], i # j PROVE FALSE
    OBVIOUS
  <2>1. i < j \/ j < i
    OBVIOUS
  <2>2. f[i].tick < f[j].tick \/ f[j].tick < f[i].tick
    BY <2>1
  <2>3. QED
    BY <2>2
<1>2. Cardinality(S) = n
  BY <1>1, CountOfImage
<1>3. ASSUME NEW i \in 0..n - 1 PROVE Cardinality({y \in S : y.tick < f[i].tick}) = i
  <2>1. {y \in S : y.tick < f[i].tick} = {f[j] : j \in 0..i - 1}
    <3>1. ASSUME NEW y \in S, y.tick < f[i].tick PROVE y \in {f[j] : j \in 0..i - 1}
      <4>1. PICK j \in 0..n - 1 : y = f[j]
        OBVIOUS
      <4>2. ~(i < j) /\ i # j
        BY <3>1, <4>1
      <4>3. j \in 0..i - 1
        BY <4>2
      <4>4. QED
        BY <4>1, <4>3
    <3>2. ASSUME NEW j \in 0..i - 1 PROVE f[j] \in S /\ f[j].tick < f[i].tick
      <4>1. j \in 0..n - 1 /\ j < i
        OBVIOUS
      <4>2. QED
        BY <4>1
    <3>3. QED
      BY <3>1, <3>2
  <2>2. i \in Nat /\ 0..i - 1 \subseteq 0..n - 1
    OBVIOUS
  <2>3. Cardinality({f[j] : j \in 0..i - 1}) = i
    BY <1>1, <2>2, CountOfImage
  <2>4. QED
    BY <2>1, <2>3
<1>4. QED
  BY <1>2, <1>3

\* A channel whose output has been seen has samples, as many as the getter says.
LEMMA CountIs ==
  ASSUME WellFormed(m_LatestFrame), InitGet = "Success", NEW n \in DOMAIN m_LatestFrame.m_Channels,
         NEW k \in DOMAIN m_LatestFrame.m_Channels[n].m_ComponentNames,
         m_LatestFrame.m_Channels[n].m_ComponentNames[k] # <<>>
  PROVE  LET c == m_LatestFrame.m_Channels[n]
             count == GetDeviceOutputSubsamples(DeviceNameOf(c), c.m_Name, c.m_ComponentNames[k])
         IN  /\ IsSequence(FramesFor(m_LatestFrame, c))
             /\ c \in ToSet(m_LatestFrame.m_Channels) /\ c.m_ComponentNames # <<>>
             /\ Seen(count) <=> DataOf(m_LatestFrame, c) # {}
             /\ \A m : Seen(count) /\ SampledBy(c, m) => count = Answer(CountOf(c, m))
<1> DEFINE c == m_LatestFrame.m_Channels[n]
           count == GetDeviceOutputSubsamples(DeviceNameOf(c), c.m_Name, c.m_ComponentNames[k])
           frames == FramesFor(m_LatestFrame, c)
           first == FirstDataOf(c)
           T == {x \in 1..Len(frames) : IsDataOf(c, frames[x])}
<1>1. IsSequence(frames)
  BY DEF WellFormed, WithDevices, FramesFor
<1>2. Len(frames) \in Nat /\ DOMAIN frames = 1..Len(frames)
  BY <1>1, IsSequenceIs
<1>3. c \in ToSet(m_LatestFrame.m_Channels) /\ c.m_ComponentNames # <<>>
  <2>1. IsSequence(m_LatestFrame.m_Channels) /\ IsSequence(c.m_ComponentNames)
    BY DEF WellFormed, WithDevices, DevicesNamed
  <2>2. QED
    BY <2>1, IsSequenceIs
<1>4. count = IF first = 0 THEN Occluded ELSE Answer(CountIn(c, frames[first]))
  BY OutputAnswers
<1>5. T = {} <=> DataOf(m_LatestFrame, c) = {}
  <2>1. \A e \in ToSet(frames) : \E x \in 1..Len(frames) : e = frames[x]
    BY <1>1, <1>2, IsSequenceIs
  <2>2. \A x \in 1..Len(frames) : frames[x] \in ToSet(frames)
    BY <1>1, <1>2, IsSequenceIs
  <2>3. QED
    BY <2>1, <2>2 DEF DataOf
<1>6. T = {} => first = 0
  BY DEF FirstDataOf, SelectInSeq
<1>7. T # {} => first \in T /\ first # 0
  <2> SUFFICES ASSUME T # {} PROVE first \in T /\ first # 0
    OBVIOUS
  <2>1. first = Min(T)
    BY DEF FirstDataOf, SelectInSeq
  <2>2. T \subseteq 1..Len(frames)
    OBVIOUS
  <2> HIDE DEF T, first
  <2>3. first \in T
    BY <1>2, <2>1, <2>2, FirstPlace
  <2>4. QED
    BY <1>2, <2>2, <2>3
<1>8. Seen(count) <=> T # {}
  <2> HIDE DEF T, count, first
  <2>1. ~Seen(Occluded) /\ \A x : Seen(Answer(x))
    BY DEF Seen, Occluded, Answer
  <2>2. QED
    BY <1>4, <1>6, <1>7, <2>1
<1>9. ASSUME NEW m, Seen(count), SampledBy(c, m) PROVE count = Answer(CountOf(c, m))
  <2>1. first \in T /\ first # 0
    BY <1>7, <1>8, <1>9
  <2>2. frames[first] \in DataOf(m_LatestFrame, c)
    <3>1. \A x \in 1..Len(frames) : frames[x] \in ToSet(frames)
      BY <1>1, <1>2, IsSequenceIs
    <3> HIDE DEF first
    <3>2. QED
      BY <2>1, <3>1 DEF DataOf
  <2>3. Len(frames[first].m_Samples) \div Len(c.m_ComponentNames) = m
    BY <1>9, <2>2, Zenon DEF SampledBy
  <2>4. CountIn(c, frames[first]) = CountOf(c, m)
    BY <2>3, Zenon DEF CountIn, CountOf, StepOf, StartOf
  <2>5. QED
    BY <1>4, <2>1, <2>4, Zenon
<1>10. QED
  BY <1>1, <1>3, <1>5, <1>8, <1>9, Zenon

\* The samples of a component that begin in the period are those with the indices from 0 to one less
\* than the count, in the order of their ticks.
SampleAt(c, m, k, i) ==
    [tick |-> StartOf(c) + (FromOf(c, m) + i) * StepOf(c, m), value |-> SampleOf(c, i).out[k]]

LEMMA InPeriodIs ==
  ASSUME NEW c, NEW m, SampledBy(c, m), IsSequence(FramesFor(m_LatestFrame, c)),
         NEW k \in 1..Len(c.m_ComponentNames)
  PROVE  /\ CountOf(c, m) \in Nat
         /\ InPeriod(c, k) = {SampleAt(c, m, k, i) : i \in 0..CountOf(c, m) - 1}
         /\ \A i \in 0..CountOf(c, m) - 1 : Seen(SampleOf(c, i))
<1> DEFINE period == GetFramePeriod(m_LatestFrame)
           data == DataOf(m_LatestFrame, c)
           step == StepOf(c, m)
           start == StartOf(c)
           from == FromOf(c, m)
           N == CountOf(c, m)
           Sample(d, j) == [tick |-> start + (d.m_FrameID * m + j) * step,
                            value |-> d.m_Samples[(k - 1) * m + j + 1]]
<1>1. /\ m \in Nat \ {0} /\ step \in Nat \ {0} /\ start \in Nat
      /\ period.first \in Nat /\ period.second \in Nat /\ period.first <= period.second
      /\ \A d \in data : d.m_FrameID \in Nat /\ Len(d.m_Samples) \div Len(c.m_ComponentNames) = m
  BY Zenon DEF SampledBy
<1>2. period = [first |-> period.first, second |-> period.second]
  BY DEF GetFramePeriod
<1>3. from \in Nat
  BY <1>1, NextSample DEF FromOf
<1>4. N \in Nat
  <2> DEFINE to == GetNextSampleIndex(period.second, start, step)
  <2>1. /\ \A x \in Nat : from <= x <=> period.first <= start + x * step
        /\ to \in Nat /\ \A x \in Nat : to <= x <=> period.second <= start + x * step
    BY <1>1, NextSample DEF FromOf
  <2>2. N = to - from
    BY DEF CountOf, GetSamplesInFrame, FromOf
  <2> HIDE DEF to, N, from, period, start, step
  <2>3. from <= to
    <3>1. period.second <= start + to * step /\ to * step \in Nat
      BY <1>1, <2>1
    <3>2. period.first <= start + to * step
      BY <1>1, <3>1
    <3>3. QED
      BY <2>1, <3>2
  <2>4. QED
    BY <1>3, <2>1, <2>2, <2>3
<1>5. ASSUME NEW d \in data, NEW j \in 0..m - 1
      PROVE  LET i == (d.m_FrameID * m + j) - from
             IN  /\ i \in 0..N - 1 <=> Sample(d, j).tick \in period.first..period.second - 1
                 /\ i \in 0..N - 1 => SampleAt(c, m, k, i) = Sample(d, j) /\ Seen(SampleOf(c, i))
  <2> DEFINE i == (d.m_FrameID * m + j) - from
             number == d.m_FrameID * m + j
  <2>1. d.m_FrameID \in Nat
    BY <1>1
  <2>2. number \in Nat /\ from + i = number
    <3>1. d.m_FrameID * m \in Nat
      BY <1>1, <2>1
    <3>2. QED
      BY <1>1, <1>3, <3>1
  <2>3. i \in 0..N - 1 <=> Sample(d, j).tick \in period.first..period.second - 1
    <3> DEFINE p == [first |-> period.first, second |-> period.second]
    <3>1. number - GetNextSampleIndex(period.first, start, step)
                \in 0..GetSamplesInFrame(p, start, step) - 1
            <=> start + number * step \in period.first..period.second - 1
      BY <1>1, <2>1, SamplesOfThePeriod
    <3>2. p = period
      BY <1>2
    <3>3. Sample(d, j).tick = start + number * step
      OBVIOUS
    <3>4. N = GetSamplesInFrame(period, start, step)
          /\ from = GetNextSampleIndex(period.first, start, step)
      BY DEF CountOf, FromOf
    <3> HIDE DEF p, period, number, start, step, N, from, Sample
    <3>5. QED
      BY <3>1, <3>2, <3>3, <3>4 DEF number
  <2>4. ASSUME i \in 0..N - 1 PROVE SampleAt(c, m, k, i) = Sample(d, j) /\ Seen(SampleOf(c, i))
    <3>1. number = from + i
      BY <2>2
    <3> HIDE DEF i, N, from
    <3>2. SampleOf(c, i) = Answer(VectorAt(c, m, d, j))
      BY <2>4, <3>1, SampleIs DEF N, from
    <3>3. SampleOf(c, i).out[k] = d.m_Samples[(k - 1) * m + j + 1]
      BY <3>2, AnswersGiven DEF VectorAt
    <3>4. start + (from + i) * step = start + number * step
      BY <3>1
    <3>5. Seen(SampleOf(c, i))
      BY <3>2 DEF Seen, Answer
    <3>6. SampleAt(c, m, k, i) = Sample(d, j)
      BY <3>3, <3>4 DEF SampleAt, from
    <3>7. QED
      BY <3>5, <3>6
  <2>5. QED
    BY <2>3, <2>4
<1>6. ASSUME NEW i \in 0..N - 1
      PROVE  \E d \in data, j \in 0..m - 1 : i = (d.m_FrameID * m + j) - from
  <2>1. PICK d \in data, j \in 0..m - 1 : d.m_FrameID * m + j = from + i
    BY SampleIsThere
  <2>2. d.m_FrameID * m + j \in Int
    <3>1. d.m_FrameID \in Nat
      BY <1>1
    <3>2. QED
      BY <1>1, <3>1
  <2> DEFINE x == d.m_FrameID * m + j
  <2> HIDE DEF N, from, x
  <2>3. i = x - from
    BY <1>3, <1>4, <2>1, <2>2 DEF x
  <2>4. i = (d.m_FrameID * m + j) - from
    BY <2>3 DEF x
  <2> HIDE DEF data
  <2>5. QED
    BY <2>4, Zenon
<1>7. InPeriod(c, k) = {x \in UNION {{Sample(d, j) : j \in 0..m - 1} : d \in data} :
                            x.tick >= period.first /\ x.tick < period.second}
  <2> DEFINE stride(d) == Len(d.m_Samples) \div Len(c.m_ComponentNames)
             samplePeriod(d) == GetDevicePeriod(m_LatestFrame, c.m_DeviceID) \div stride(d)
             Read(d, j) ==
                [tick |-> GetDeviceStartTick(m_LatestFrame, c.m_DeviceID)
                            + (d.m_FrameID * stride(d) + j) * samplePeriod(d),
                 value |-> d.m_Samples[(k - 1) * stride(d) + j + 1]]
  <2>1. InPeriod(c, k) = {x \in UNION {{Read(d, j) : j \in 0..stride(d) - 1} : d \in data} :
                            x.tick >= period.first /\ x.tick < period.second}
    BY Zenon DEF InPeriod
  <2>2. \A d \in data : stride(d) = m
    BY <1>1
  <2>3. \A d \in data : samplePeriod(d) = step
    BY <2>2 DEF StepOf
  <2> HIDE DEF stride, samplePeriod
  <2>4. \A d \in data, j \in 0..m - 1 : Read(d, j) = Sample(d, j)
    BY <2>2, <2>3 DEF StartOf
  <2> HIDE DEF Read, Sample
  <2>5. UNION {{Read(d, j) : j \in 0..stride(d) - 1} : d \in data}
            = UNION {{Sample(d, j) : j \in 0..m - 1} : d \in data}
    BY <2>2, <2>4
  <2>6. QED
    BY <2>1, <2>5
<1>8. \A d \in data, j \in 0..m - 1 : Sample(d, j).tick \in Int
  <2> TAKE d \in data, j \in 0..m - 1
  <2>1. d.m_FrameID \in Nat
    BY <1>1
  <2>2. d.m_FrameID * m + j \in Int
    BY <1>1, <2>1
  <2>3. (d.m_FrameID * m + j) * step \in Int
    BY <1>1, <2>2
  <2>4. QED
    BY <1>1, <2>3
<1>9. InPeriod(c, k) = {SampleAt(c, m, k, i) : i \in 0..N - 1}
  <2> HIDE DEF Sample, N, from
  <2>1. ASSUME NEW x \in InPeriod(c, k) PROVE x \in {SampleAt(c, m, k, i) : i \in 0..N - 1}
    <3>1. PICK d \in data, j \in 0..m - 1 : x = Sample(d, j)
      BY <1>7
    <3>2. x.tick >= period.first /\ x.tick < period.second
      BY <1>7
    <3>3. Sample(d, j).tick \in period.first..period.second - 1
      BY <1>1, <1>8, <3>1, <3>2
    <3>4. QED
      BY <1>5, <3>1, <3>3
  <2>2. ASSUME NEW i \in 0..N - 1 PROVE SampleAt(c, m, k, i) \in InPeriod(c, k)
    <3>1. PICK d \in data, j \in 0..m - 1 : i = (d.m_FrameID * m + j) - from
      BY <1>6
    <3>2. /\ SampleAt(c, m, k, i) = Sample(d, j)
          /\ Sample(d, j).tick \in period.first..period.second - 1
      BY <1>5, <3>1
    <3>3. Sample(d, j).tick >= period.first /\ Sample(d, j).tick < period.second
      BY <1>1, <3>2
    <3>4. QED
      BY <1>7, <3>2, <3>3
  <2>3. QED
    BY <2>1, <2>2
<1>10. \A i \in 0..N - 1 : Seen(SampleOf(c, i))
  <2> HIDE DEF Sample, N, from
  <2>1. QED
    BY <1>5, <1>6
<1>11. QED
  BY <1>4, <1>9, <1>10

LEMMA SeenHasData ==
  ASSUME NEW device, NEW output, NEW component,
         Seen(GetDeviceOutputSubsamples(device, output, component))
  PROVE  InitGet = "Success"
<1>1. \A answer : Given(WithFrame(answer)) => InitGet = "Success"
  BY DEF WithFrame, Given, Refuse
<1>2. Given(GetDeviceOutputSubsamples(device, output, component))
  BY DEF Seen, Given
<1>3. QED
  BY <1>1, <1>2, Zenon DEF GetDeviceOutputSubsamples, WithDevice

LEMMA SamplesInPeriodHold == GettersInv => SamplesInPeriod
<1> SUFFICES ASSUME GettersInv, NEW n \in DOMAIN m_LatestFrame.m_Channels,
                    ~IsForcePlateCoreChannel(m_LatestFrame.m_Channels[n]),
                    NEW k \in DOMAIN m_LatestFrame.m_Channels[n].m_ComponentNames,
                    m_LatestFrame.m_Channels[n].m_ComponentNames[k] # <<>>,
                    Seen(GetDeviceOutputSubsamples(
                            DeviceNameOf(m_LatestFrame.m_Channels[n]),
                            m_LatestFrame.m_Channels[n].m_Name,
                            m_LatestFrame.m_Channels[n].m_ComponentNames[k]))
             PROVE  LET c == m_LatestFrame.m_Channels[n]
                        name == c.m_ComponentNames[k]
                        count == GetDeviceOutputSubsamples(DeviceNameOf(c), c.m_Name, name)
                        value(i) == GetDeviceOutputValueAt(DeviceNameOf(c), c.m_Name, name, i)
                        samples == InPeriod(c, k)
                    IN  /\ count.out = Cardinality(samples)
                        /\ \A x \in samples :
                            value(Cardinality({y \in samples : y.tick < x.tick})) = Answer(x.value)
  BY Zenon DEF SamplesInPeriod
<1> DEFINE c == m_LatestFrame.m_Channels[n]
           name == c.m_ComponentNames[k]
           count == GetDeviceOutputSubsamples(DeviceNameOf(c), c.m_Name, name)
           value(i) == GetDeviceOutputValueAt(DeviceNameOf(c), c.m_Name, name, i)
           samples == InPeriod(c, k)
<1>1. WellFormed(m_LatestFrame) /\ InitGet = "Success"
  BY SeenHasData DEF GettersInv
<1>2. /\ IsSequence(FramesFor(m_LatestFrame, c))
      /\ c \in ToSet(m_LatestFrame.m_Channels) /\ c.m_ComponentNames # <<>>
      /\ DataOf(m_LatestFrame, c) # {}
      /\ \A m : SampledBy(c, m) => count = Answer(CountOf(c, m))
  BY <1>1, CountIs
<1>3. PICK m : SampledBy(c, m)
  BY <1>1, <1>2, SamplesKnown
<1>4. k \in 1..Len(c.m_ComponentNames)
  <2>1. IsSequence(c.m_ComponentNames)
    BY <1>1 DEF WellFormed, WithDevices, DevicesNamed
  <2>2. QED
    BY <2>1, IsSequenceIs
<1> DEFINE N == CountOf(c, m)
           f == [i \in 0..N - 1 |-> SampleAt(c, m, k, i)]
<1>5. /\ N \in Nat
      /\ samples = {SampleAt(c, m, k, i) : i \in 0..N - 1}
      /\ \A i \in 0..N - 1 : Seen(SampleOf(c, i))
  BY <1>2, <1>3, <1>4, InPeriodIs
<1>6. samples = {f[i] : i \in 0..N - 1}
  <2> HIDE DEF samples, N
  <2>1. QED
    BY <1>5
<1>7. /\ \A i \in 0..N - 1 : f[i].tick \in Int
      /\ \A i, j \in 0..N - 1 : i < j => f[i].tick < f[j].tick
  <2> DEFINE start == StartOf(c)
             step == StepOf(c, m)
             from == FromOf(c, m)
  <2>1. start \in Nat /\ step \in Nat \ {0} /\ GetFramePeriod(m_LatestFrame).first \in Nat
    BY <1>3, Zenon DEF SampledBy
  <2>2. from \in Nat
    BY <2>1, NextSample DEF FromOf
  <2> HIDE DEF N
  <2>3. \A i \in 0..N - 1 : f[i].tick = start + (from + i) * step
    BY DEF SampleAt
  <2> HIDE DEF f, start, step, from
  <2>4. \A i \in 0..N - 1 : (from + i) * step \in Int
    BY <1>5, <2>1, <2>2
  <2>5. ASSUME NEW i \in 0..N - 1, NEW j \in 0..N - 1, i < j
        PROVE  (from + i) * step < (from + j) * step
    <3>1. from + i \in Int /\ from + j \in Int /\ (from + i) + 1 <= from + j
      BY <1>5, <2>2, <2>5
    <3>2. ((from + i) + 1) * step <= (from + j) * step
      BY <2>1, <3>1, ProductsOrdered
    <3>3. ((from + i) + 1) * step = (from + i) * step + step
      BY <2>1, <3>1
    <3>4. QED
      BY <2>1, <2>4, <3>2, <3>3
  <2>6. QED
    BY <2>1, <2>3, <2>4, <2>5
<1>8. /\ Cardinality(samples) = N
      /\ \A i \in 0..N - 1 : Cardinality({y \in samples : y.tick < f[i].tick}) = i
  <2> HIDE DEF samples, N, f
  <2>1. N \in Nat
    BY <1>5
  <2>2. \A i \in 0..N - 1 : f[i].tick \in Int
    BY <1>7
  <2>3. \A i, j \in 0..N - 1 : i < j => f[i].tick < f[j].tick
    BY <1>7
  <2>4. samples = {f[i] : i \in 0..N - 1}
    BY <1>6
  <2>5. QED
    BY <2>1, <2>2, <2>3, <2>4, CountedByTick
<1>9. count.out = Cardinality(samples)
  BY <1>2, <1>3, <1>8, AnswersGiven
<1>10. ASSUME NEW x \in samples
       PROVE  value(Cardinality({y \in samples : y.tick < x.tick})) = Answer(x.value)
  <2>1. PICK i \in 0..N - 1 : x = f[i]
    <3> HIDE DEF samples, N, f
    <3>1. QED
      BY <1>6
  <2>2. Cardinality({y \in samples : y.tick < x.tick}) = i
    BY <1>8, <2>1
  <2>3. value(i) = Answer(SampleOf(c, i).out[k])
    <3>1. Seen(SampleOf(c, i))
      BY <1>5
    <3>2. value(i) = IF ~Seen(SampleOf(c, i)) THEN SampleOf(c, i)
                     ELSE Answer((IF IsForcePlateCoreChannel(c) THEN OutT(SampleOf(c, i).out)
                                  ELSE SampleOf(c, i).out)[k])
      BY <1>1, OutputAnswers
    <3> HIDE DEF value
    <3>3. QED
      BY <3>1, <3>2
  <2>4. x.value = SampleOf(c, i).out[k]
    <3> HIDE DEF N
    <3>1. QED
      BY <2>1 DEF SampleAt
  <2> HIDE DEF value, samples
  <2>5. QED
    BY <2>2, <2>3, <2>4
<1>11. QED
  BY <1>9, <1>10

\* Each sample that begins in the period of a frame is answered once, under its index, and no other,
\* however the frames of a device and those of the system lie to each other (SampleIndexInRange).
THEOREM SamplesAreThoseOfThePeriod == Spec => []SamplesInPeriod
BY FramesStayWellFormed, SamplesInPeriodHold, PTL

\* The three kinds of data of a plate.
Kinds == {<< <<"Fx">>, <<"Fy">>, <<"Fz">> >>, << <<"Mx">>, <<"My">>, <<"Mz">> >>,
          << <<"Cx">>, <<"Cy">>, <<"Cz">> >>}

LEMMA CoreChannelIs ==
  ASSUME NEW c, IsForcePlateCoreChannel(c)
  PROVE  /\ c.m_ComponentNames \in Kinds
         /\ DOMAIN c.m_ComponentNames = 1..3 /\ Len(c.m_ComponentNames) = 3
         /\ \A k \in 1..3 : c.m_ComponentNames[k] # <<>>
<1>1. c.m_ComponentNames \in Kinds
  BY DEF IsForcePlateCoreChannel, IsForcePlateForceChannel, IsForcePlateMomentChannel,
         IsForcePlateCoPChannel, Kinds
<1>2. \A s \in Kinds : DOMAIN s = 1..3 /\ Len(s) = 3 /\ \A k \in 1..3 : s[k] # <<>>
  BY DEF Kinds
<1>3. QED
  BY <1>1, <1>2

\* A device with three channels of plate data is a plate with a channel of each kind.
LEMMA PlateHasForces ==
  ASSUME WellFormed(m_LatestFrame), NEW plateID, IsForcePlateDevice(plateID)
  PROVE  \E n \in CoreChannelsOf(plateID) : IsForcePlateForceChannel(m_LatestFrame.m_Channels[n])
<1> DEFINE core == CoreChannelsOf(plateID)
           NamesOf(n) == m_LatestFrame.m_Channels[n].m_ComponentNames
           kind == [n \in core |-> NamesOf(n)]
           force == << <<"Fx">>, <<"Fy">>, <<"Fz">> >>
           others == {<< <<"Mx">>, <<"My">>, <<"Mz">> >>, << <<"Cx">>, <<"Cy">>, <<"Cz">> >>}
<1>1. Cardinality(core) = 3
  BY DEF IsForcePlateDevice
<1>2. IsFiniteSet(core)
  <2>1. IsSequence(m_LatestFrame.m_Channels)
    BY DEF WellFormed, WithDevices, DevicesNamed
  <2>2. DOMAIN m_LatestFrame.m_Channels = 1..Len(m_LatestFrame.m_Channels)
        /\ Len(m_LatestFrame.m_Channels) \in Nat
    BY <2>1, IsSequenceIs
  <2>3. core \subseteq 1..Len(m_LatestFrame.m_Channels)
    BY <2>2 DEF CoreChannelsOf, ChannelsOf
  <2>4. IsFiniteSet(1..Len(m_LatestFrame.m_Channels))
    BY <2>2, FS_Interval
  <2> HIDE DEF core
  <2>5. QED
    BY <2>3, <2>4, FS_Subset
<1>3. \A n \in core : /\ n \in DOMAIN m_LatestFrame.m_Channels
                      /\ m_LatestFrame.m_Channels[n].m_DeviceID = plateID
                      /\ IsForcePlateCoreChannel(m_LatestFrame.m_Channels[n])
                      /\ NamesOf(n) \in Kinds
  BY CoreChannelIs DEF CoreChannelsOf, ChannelsOf
<1>4. \A m, n \in core : NamesOf(m) = NamesOf(n) => m = n
  <2>1. \A m, n \in DOMAIN m_LatestFrame.m_Channels :
            LET c == m_LatestFrame.m_Channels[m]
                e == m_LatestFrame.m_Channels[n]
            IN  c.m_DeviceID = e.m_DeviceID /\ IsForcePlateCoreChannel(c) =>
                    m = n \/ c.m_ComponentNames # e.m_ComponentNames
    BY Zenon DEF WellFormed, WithDevices, DevicesNamed
  <2> HIDE DEF core
  <2>2. QED
    BY <1>3, <2>1
<1>5. CASE \E n \in core : NamesOf(n) = force
  BY <1>5 DEF IsForcePlateForceChannel
<1>6. CASE ~ \E n \in core : NamesOf(n) = force
  <2>1. \A n \in core : NamesOf(n) \in others
    <3> HIDE DEF core
    <3>1. QED
      BY <1>3, <1>6 DEF Kinds
  <2>2. IsFiniteSet(others) /\ Cardinality(others) <= 2
    <3>1. IsFiniteSet({}) /\ Cardinality({}) = 0
      BY FS_EmptySet
    <3> DEFINE a == << <<"Mx">>, <<"My">>, <<"Mz">> >>
               b == << <<"Cx">>, <<"Cy">>, <<"Cz">> >>
    <3> HIDE DEF a, b
    <3>2. IsFiniteSet({a}) /\ Cardinality({a}) = 1
      BY FS_Singleton
    <3>3. /\ IsFiniteSet({a} \cup {b})
          /\ Cardinality({a} \cup {b})
                = IF b \in {a} THEN Cardinality({a}) ELSE Cardinality({a}) + 1
      BY <3>2, FS_AddElement
    <3>4. others = {a} \cup {b}
      BY DEF a, b
    <3> HIDE DEF others
    <3>5. QED
      BY <3>2, <3>3, <3>4
  <2>3. kind \in [core -> others]
    BY <2>1
  <2>4. Cardinality(others) < Cardinality(core)
    <3>1. Cardinality(others) \in Nat
      BY <2>2, FS_CardinalityType
    <3> HIDE DEF others, core
    <3>2. QED
      BY <1>1, <2>2, <3>1
  <2>5. \E m, n \in core : m # n /\ kind[m] = kind[n]
    <3> HIDE DEF others, core, kind
    <3>1. QED
      BY <1>2, <2>2, <2>3, <2>4, FS_PigeonHole
  <2>6. QED
    <3> HIDE DEF core
    <3>1. QED
      BY <1>4, <2>5
<1>7. QED
  BY <1>5, <1>6

\* The vector of a plate is the sample of its channel, if that has all the data of the plate of
\* its kind.
LEMMA PlateVectorIs ==
  ASSUME NEW c, NEW m, SampledBy(c, m), IsSequence(FramesFor(m_LatestFrame, c)),
         Len(c.m_ComponentNames) = 3, InitGet = "Success", IsForcePlateDevice(c.m_DeviceID),
         \A d \in ToSet(FramesFor(m_LatestFrame, c)) :
            d.m_DeviceID = c.m_DeviceID <=> IsDataOf(c, d),
         NEW d \in DataOf(m_LatestFrame, c), NEW j \in 0..m - 1, NEW i \in 0..CountOf(c, m) - 1,
         d.m_FrameID * m + j = FromOf(c, m) + i
  PROVE  PlateVector(c.m_DeviceID, i, FramesFor(m_LatestFrame, c)) = Answer(VectorAt(c, m, d, j))
<1> DEFINE frames == FramesFor(m_LatestFrame, c)
           plateID == c.m_DeviceID
           devicePeriod == GetDevicePeriod(m_LatestFrame, plateID)
           period == GetFramePeriod(m_LatestFrame)
           start == GetDeviceStartTick(m_LatestFrame, plateID)
           stride(e) == Len(e.m_Samples) \div 3
           samplePeriod(e) == devicePeriod \div stride(e)
           beyond(e) == i >= GetSamplesInFrame(period, start, samplePeriod(e))
           at(e) == SubSample(i, e, stride(e), samplePeriod(e), start, period)
           Wrong(e) == ~Divides(stride(e), devicePeriod)
           Test(e) == /\ e.m_DeviceID = plateID
                      /\ Wrong(e) \/ beyond(e) \/ at(e) \in 0..stride(e) - 1
           Then(e) == IF Wrong(e) THEN Refuse("Unknown")
                      ELSE IF beyond(e) THEN Refuse("InvalidIndex")
                      ELSE Answer([x \in 1..3 |-> e.m_Samples[(x - 1) * stride(e) + at(e) + 1]])
           T == {x \in 1..Len(frames) : Test(frames[x])}
           hits == HitsFor(c, m, i)
<1>1. /\ m \in Nat \ {0} /\ StepOf(c, m) \in Nat \ {0}
      /\ devicePeriod = m * StepOf(c, m) /\ devicePeriod % m = 0
      /\ \A e \in DataOf(m_LatestFrame, c) : Len(e.m_Samples) \div Len(c.m_ComponentNames) = m
  BY Zenon DEF SampledBy
<1>2. devicePeriod # 0 /\ Divides(m, devicePeriod)
  <2> HIDE DEF devicePeriod
  <2>1. m * StepOf(c, m) # 0
    BY <1>1
  <2>2. QED
    BY <1>1, <2>1 DEF Divides
<1>3. PlateVector(plateID, i, frames) = WithFirst(frames, Test, Then, Refuse("Unknown"))
  <2>1. PlateVector(plateID, i, frames)
            = PlateSample(plateID, frames, LAMBDA e : e.m_DeviceID = plateID, 3, i)
    BY DEF PlateVector, WithPlate, WithFrame
  <2>2. PlateSample(plateID, frames, LAMBDA e : e.m_DeviceID = plateID, 3, i)
            = IF devicePeriod = 0 THEN Refuse("InvalidIndex")
              ELSE WithFirst(frames, Test, Then, Refuse("Unknown"))
    BY DEF PlateSample, SampleFrom
  <2> HIDE DEF Test, Then
  <2>3. QED
    BY <1>2, <2>1, <2>2
<1>4. \A e \in DataOf(m_LatestFrame, c) : stride(e) = m
  BY <1>1
<1>5. ASSUME NEW e, stride(e) = m
      PROVE  /\ ~Wrong(e)
             /\ beyond(e) <=> i >= CountOf(c, m)
             /\ at(e) = SubSample(i, e, m, StepOf(c, m), StartOf(c), period)
  BY <1>2, <1>5 DEF CountOf, StepOf, StartOf
<1>6. \A x \in 1..Len(frames) : /\ frames[x] \in ToSet(frames)
                                /\ frames[x].m_DeviceID = plateID <=> IsDataOf(c, frames[x])
                                /\ IsDataOf(c, frames[x]) => frames[x] \in DataOf(m_LatestFrame, c)
  <2>1. \A x \in 1..Len(frames) : frames[x] \in ToSet(frames)
    BY IsSequenceIs
  <2>2. QED
    BY <2>1 DEF DataOf
<1>7. T = hits
  <2> SUFFICES ASSUME NEW x \in 1..Len(frames), IsDataOf(c, frames[x])
               PROVE  Test(frames[x]) <=> x \in hits
    BY <1>6 DEF HitsFor
  <2>1. stride(frames[x]) = m
    BY <1>4, <1>6
  <2> HIDE DEF beyond, at, stride, Wrong
  <2>2. /\ ~Wrong(frames[x])
        /\ beyond(frames[x]) <=> i >= CountOf(c, m)
        /\ at(frames[x]) = SubSample(i, frames[x], m, StepOf(c, m), StartOf(c), period)
    BY <1>5, <2>1
  <2>3. QED
    BY <1>6, <2>1, <2>2 DEF HitsFor
<1>8. /\ hits # {} /\ Min(hits) \in 1..Len(frames) /\ frames[Min(hits)] = d
      /\ SubSample(i, d, m, StepOf(c, m), StartOf(c), period) = j /\ ~(i >= CountOf(c, m))
  BY SearchEnds
<1>9. SelectInSeq(frames, Test) = Min(T)
  <2>1. T # {}
    <3> HIDE DEF T, hits
    <3>1. QED
      BY <1>7, <1>8
  <2> HIDE DEF Test
  <2>2. QED
    BY <2>1 DEF SelectInSeq
<1>10. SelectInSeq(frames, Test) = Min(hits)
  <2> HIDE DEF T, hits, Test
  <2>1. QED
    BY <1>7, <1>9
<1>11. WithFirst(frames, Test, Then, Refuse("Unknown")) = Then(d)
  <2>1. Min(hits) # 0
    <3>1. 0 \notin 1..Len(frames)
      OBVIOUS
    <3>2. QED
      BY <1>8, <3>1
  <2> HIDE DEF Test, Then, hits
  <2>2. QED
    BY <1>8, <1>10, <2>1 DEF WithFirst
<1>12. Then(d) = Answer(VectorAt(c, m, d, j))
  <2>1. stride(d) = m
    BY <1>4
  <2>2. ~Wrong(d) /\ ~beyond(d) /\ at(d) = j
    BY <1>5, <1>8, <2>1
  <2> HIDE DEF beyond, at, stride, Wrong
  <2>3. QED
    BY <2>1, <2>2 DEF VectorAt
<1>13. QED
  <2> HIDE DEF Then
  <2>1. QED
    BY <1>3, <1>11, <1>12

\* Which data are those of a channel of a plate.
LEMMA KindOfFrames ==
  ASSUME NEW f, NEW c, IsForcePlateCoreChannel(c)
  PROVE  FramesFor(f, c) = IF IsForcePlateForceChannel(c) THEN f.m_Forces
                           ELSE IF IsForcePlateMomentChannel(c) THEN f.m_Moments
                           ELSE f.m_CentresOfPressure
<1> DEFINE F == << <<"Fx">>, <<"Fy">>, <<"Fz">> >>
           M == << <<"Mx">>, <<"My">>, <<"Mz">> >>
           C == << <<"Cx">>, <<"Cy">>, <<"Cz">> >>
<1>1. F # M /\ F # C /\ M # C
  <2>1. F[1][1] = "Fx" /\ M[1][1] = "Mx" /\ C[1][1] = "Cx"
    OBVIOUS
  <2>2. "Fx" # "Mx" /\ "Fx" # "Cx" /\ "Mx" # "Cx"
    OBVIOUS
  <2> HIDE DEF F, M, C
  <2>3. QED
    BY <2>1, <2>2
<1>2. /\ IsForcePlateForceChannel(c) <=> c.m_ComponentNames = F
      /\ IsForcePlateMomentChannel(c) <=> c.m_ComponentNames = M
      /\ IsForcePlateCoPChannel(c) <=> c.m_ComponentNames = C
  BY DEF IsForcePlateForceChannel, IsForcePlateMomentChannel, IsForcePlateCoPChannel
<1> HIDE DEF F, M, C
<1>3. QED
  BY <1>1, <1>2 DEF FramesFor, IsForcePlateCoreChannel

\* A plate that has samples has those of its force channel, as many as the getter says.
LEMMA PlateCount ==
  ASSUME WellFormed(m_LatestFrame), NEW plateID, Given(GetForcePlateSubsamples(plateID))
  PROVE  /\ InitGet = "Success" /\ IsForcePlateDevice(plateID)
         /\ \E n \in CoreChannelsOf(plateID) :
                LET f == m_LatestFrame.m_Channels[n]
                IN  /\ IsForcePlateForceChannel(f) /\ DataOf(m_LatestFrame, f) # {}
                    /\ \A m : SampledBy(f, m) =>
                            GetForcePlateSubsamples(plateID) = Answer(CountOf(f, m))
<1> DEFINE frames == m_LatestFrame.m_Forces
           devicePeriod == GetDevicePeriod(m_LatestFrame, plateID)
           Test(d) == d.m_DeviceID = plateID
           count(d) == GetSamplesInFrame(GetFramePeriod(m_LatestFrame),
                                         GetDeviceStartTick(m_LatestFrame, plateID),
                                         devicePeriod \div (Len(d.m_Samples) \div 3))
           Then(d) == IF ~Divides(Len(d.m_Samples) \div 3, devicePeriod) THEN Refuse("Unknown")
                      ELSE Answer(count(d))
           body == WithFirst(frames, Test, Then, Refuse("Unknown"))
           answer == GetForcePlateSubsamples(plateID)
           first == SelectInSeq(frames, Test)
           T == {x \in 1..Len(frames) : frames[x].m_DeviceID = plateID}
<1>1. answer = WithFrame(IF IsForcePlateDevice(plateID) THEN body ELSE Refuse("InvalidIndex"))
  BY Zenon DEF GetForcePlateSubsamples, WithPlate
<1>2. ~Given(Refuse("InvalidIndex")) /\ ~Given(Refuse("Unknown"))
  BY AnswersGiven
<1>3. InitGet = "Success" /\ IsForcePlateDevice(plateID) /\ answer = body
  <2>1. \A x : Given(WithFrame(x)) => InitGet = "Success" /\ WithFrame(x) = x
    BY DEF WithFrame, Given, Refuse
  <2> HIDE DEF body, answer
  <2>2. /\ InitGet = "Success"
        /\ answer = IF IsForcePlateDevice(plateID) THEN body ELSE Refuse("InvalidIndex")
    BY <1>1, <2>1 DEF answer
  <2>3. QED
    BY <1>2, <2>2 DEF answer
<1>4. first # 0 /\ answer = Then(frames[first])
  <2>1. body = IF first = 0 THEN Refuse("Unknown") ELSE Then(frames[first])
    BY DEF WithFirst
  <2>2. Given(answer)
    OBVIOUS
  <2> HIDE DEF body, first, Then, answer
  <2>3. QED
    BY <1>2, <1>3, <2>1, <2>2
<1>5. answer = Answer(count(frames[first]))
  <2>1. Given(answer)
    OBVIOUS
  <2> HIDE DEF first, answer, count
  <2>2. QED
    BY <1>2, <1>4, <2>1
<1>6. /\ first \in 1..Len(frames)
      /\ frames[first].m_DeviceID = plateID /\ frames[first] \in ToSet(frames)
  <2>1. T # {} /\ first = Min(T)
    BY <1>4 DEF SelectInSeq
  <2>2. T \subseteq 1..Len(frames)
    OBVIOUS
  <2>3. IsSequence(frames)
    BY DEF WellFormed, WithDevices
  <2>4. Len(frames) \in Nat /\ DOMAIN frames = 1..Len(frames)
        /\ \A x \in DOMAIN frames : frames[x] \in ToSet(frames)
    BY <2>3, IsSequenceIs
  <2> HIDE DEF T, first
  <2>5. first \in T
    BY <2>1, <2>2, <2>4, FirstPlace
  <2>6. QED
    BY <2>2, <2>4, <2>5 DEF T
<1>7. PICK n \in CoreChannelsOf(plateID) : IsForcePlateForceChannel(m_LatestFrame.m_Channels[n])
  BY <1>3, PlateHasForces
<1> DEFINE f == m_LatestFrame.m_Channels[n]
<1>8. /\ f \in ToSet(m_LatestFrame.m_Channels) /\ f.m_DeviceID = plateID
      /\ IsForcePlateCoreChannel(f) /\ FramesFor(m_LatestFrame, f) = frames
  <2>1. IsSequence(m_LatestFrame.m_Channels)
    BY DEF WellFormed, WithDevices, DevicesNamed
  <2>2. /\ n \in DOMAIN m_LatestFrame.m_Channels
        /\ f.m_DeviceID = plateID /\ IsForcePlateCoreChannel(f)
    BY DEF CoreChannelsOf, ChannelsOf
  <2>3. FramesFor(m_LatestFrame, f) = frames
    BY <1>7, <2>2, KindOfFrames
  <2>4. QED
    BY <2>1, <2>2, <2>3, IsSequenceIs
<1>9. IsDataOf(f, frames[first])
  <2>1. \A d \in ToSet(FramesFor(m_LatestFrame, f)) : d.m_DeviceID = f.m_DeviceID => IsDataOf(f, d)
    BY <1>8, Zenon DEF WellFormed, WithDevices, PlatesSampled
  <2> HIDE DEF first
  <2>2. QED
    BY <1>6, <1>8, <2>1
<1>10. frames[first] \in DataOf(m_LatestFrame, f)
  <2> HIDE DEF first
  <2>1. QED
    BY <1>6, <1>8, <1>9 DEF DataOf
<1>11. ASSUME NEW m, SampledBy(f, m) PROVE answer = Answer(CountOf(f, m))
  <2>1. Len(f.m_ComponentNames) = 3
    BY <1>8, CoreChannelIs
  <2>2. Len(frames[first].m_Samples) \div Len(f.m_ComponentNames) = m
    BY <1>10, <1>11, Zenon DEF SampledBy
  <2>3. count(frames[first]) = CountOf(f, m)
    <3> HIDE DEF first, f
    <3>1. QED
      BY <1>8, <2>1, <2>2 DEF CountOf, StepOf, StartOf
  <2> HIDE DEF first, count, answer
  <2>4. QED
    BY <1>5, <2>3
<1>12. QED
  BY <1>3, <1>7, <1>10, <1>11

LEMMA PlateAgreesHold == GettersInv => PlateAgrees
<1> DEFINE Vector(plateID, c, i) ==
            IF IsForcePlateForceChannel(c) THEN GetForceVectorAtSample(plateID, i)
            ELSE IF IsForcePlateMomentChannel(c) THEN GetMomentVectorAtSample(plateID, i)
            ELSE GetCentreOfPressureAtSample(plateID, i)
<1> SUFFICES ASSUME GettersInv, NEW plateID, Given(GetForcePlateSubsamples(plateID)),
                    NEW n \in CoreChannelsOf(plateID), NEW k \in 1..3
             PROVE  LET count == GetForcePlateSubsamples(plateID)
                        c == m_LatestFrame.m_Channels[n]
                        device == DeviceNameOf(c)
                        name == c.m_ComponentNames[k]
                        subsamples == GetDeviceOutputSubsamples(device, c.m_Name, name)
                        value(i) == GetDeviceOutputValueAt(device, c.m_Name, name, i)
                    IN  /\ Seen(subsamples) /\ subsamples.out = count.out
                        /\ \A i \in 0..count.out - 1 :
                            /\ Given(Vector(plateID, c, i))
                            /\ value(i) = Answer(Vector(plateID, c, i).out[k])
  BY Zenon DEF PlateAgrees
<1> DEFINE count == GetForcePlateSubsamples(plateID)
           c == m_LatestFrame.m_Channels[n]
           device == DeviceNameOf(c)
           subsamples == GetDeviceOutputSubsamples(device, c.m_Name, c.m_ComponentNames[k])
           value(i) == GetDeviceOutputValueAt(device, c.m_Name, c.m_ComponentNames[k], i)
           frames == FramesFor(m_LatestFrame, c)
<1>1. WellFormed(m_LatestFrame)
  BY DEF GettersInv
<1>2. InitGet = "Success" /\ IsForcePlateDevice(plateID)
  BY <1>1, PlateCount
<1>3. PICK x \in CoreChannelsOf(plateID) :
        LET f == m_LatestFrame.m_Channels[x]
        IN  /\ IsForcePlateForceChannel(f) /\ DataOf(m_LatestFrame, f) # {}
            /\ \A m : SampledBy(f, m) => count = Answer(CountOf(f, m))
  BY <1>1, PlateCount
<1> DEFINE f == m_LatestFrame.m_Channels[x]
<1>4. /\ n \in DOMAIN m_LatestFrame.m_Channels /\ c \in ToSet(m_LatestFrame.m_Channels)
      /\ c.m_DeviceID = plateID /\ IsForcePlateCoreChannel(c)
      /\ f \in ToSet(m_LatestFrame.m_Channels)
      /\ f.m_DeviceID = plateID /\ IsForcePlateCoreChannel(f)
  <2>1. IsSequence(m_LatestFrame.m_Channels)
    BY <1>1 DEF WellFormed, WithDevices, DevicesNamed
  <2>2. \A y \in CoreChannelsOf(plateID) :
            /\ y \in DOMAIN m_LatestFrame.m_Channels
            /\ m_LatestFrame.m_Channels[y].m_DeviceID = plateID
            /\ IsForcePlateCoreChannel(m_LatestFrame.m_Channels[y])
    BY DEF CoreChannelsOf, ChannelsOf
  <2>3. QED
    BY <2>1, <2>2, IsSequenceIs
<1>5. /\ DOMAIN c.m_ComponentNames = 1..3 /\ Len(c.m_ComponentNames) = 3
      /\ c.m_ComponentNames[k] # <<>> /\ c.m_ComponentNames # <<>>
      /\ Len(f.m_ComponentNames) = 3 /\ f.m_ComponentNames # <<>>
  <2>1. Len(<<>>) = 0
    OBVIOUS
  <2> HIDE DEF c, f
  <2>2. QED
    BY <1>4, <2>1, CoreChannelIs
<1>6. PICK mf : SampledBy(f, mf)
  BY <1>1, <1>3, <1>4, <1>5, SamplesKnown
<1>7. /\ DataOf(m_LatestFrame, c) # {}
      /\ \A d \in DataOf(m_LatestFrame, f), e \in DataOf(m_LatestFrame, c) :
            Len(d.m_Samples) = Len(e.m_Samples)
      /\ \A d \in ToSet(frames) : d.m_DeviceID = c.m_DeviceID => IsDataOf(c, d)
  <2>1. PlatesSampled(m_LatestFrame)
    BY <1>1 DEF WellFormed, WithDevices
  <2>2. \A a \in ToSet(m_LatestFrame.m_Channels) : IsForcePlateCoreChannel(a) =>
            /\ \A d \in ToSet(FramesFor(m_LatestFrame, a)) :
                    d.m_DeviceID = a.m_DeviceID => IsDataOf(a, d)
            /\ \A b \in ToSet(m_LatestFrame.m_Channels) :
                    /\ IsForcePlateCoreChannel(b) /\ b.m_DeviceID = a.m_DeviceID
                    /\ DataOf(m_LatestFrame, a) # {}
                    => /\ DataOf(m_LatestFrame, b) # {}
                       /\ \A d \in DataOf(m_LatestFrame, a), e \in DataOf(m_LatestFrame, b) :
                            Len(d.m_Samples) = Len(e.m_Samples)
    BY <2>1 DEF PlatesSampled
  <2>3. DataOf(m_LatestFrame, f) # {}
    BY <1>3
  <2> HIDE DEF c, f
  <2>4. QED
    BY <1>4, <2>2, <2>3
<1>8. PICK m : SampledBy(c, m)
  BY <1>1, <1>4, <1>5, <1>7, SamplesKnown
<1>9. m = mf
  <2>1. PICK d \in DataOf(m_LatestFrame, f), e \in DataOf(m_LatestFrame, c) : TRUE
    BY <1>3, <1>7
  <2>2. Len(d.m_Samples) \div 3 = mf /\ Len(e.m_Samples) \div 3 = m
    BY <1>5, <1>6, <1>8, Zenon DEF SampledBy
  <2>3. QED
    BY <1>7, <2>2
<1>10. count = Answer(CountOf(c, m))
  <2>1. CountOf(f, m) = CountOf(c, m)
    BY <1>4 DEF CountOf, StepOf, StartOf
  <2>2. count = Answer(CountOf(f, m))
    BY <1>3, <1>6, <1>9, Zenon
  <2> HIDE DEF count, c, f
  <2>3. QED
    BY <2>1, <2>2
<1>11. /\ IsSequence(frames) /\ Seen(subsamples) /\ subsamples = Answer(CountOf(c, m))
  <2>1. k \in DOMAIN c.m_ComponentNames
    BY <1>5
  <2>2. /\ IsSequence(frames)
        /\ Seen(subsamples) <=> DataOf(m_LatestFrame, c) # {}
        /\ \A y : Seen(subsamples) /\ SampledBy(c, y) => subsamples = Answer(CountOf(c, y))
    BY <1>1, <1>2, <1>4, <1>5, <2>1, CountIs
  <2> HIDE DEF subsamples, frames, c
  <2>3. QED
    BY <1>7, <1>8, <2>2
<1>12. ASSUME NEW i \in 0..CountOf(c, m) - 1
       PROVE  /\ Given(Vector(plateID, c, i))
              /\ value(i) = Answer(Vector(plateID, c, i).out[k])
  <2>1. PICK d \in DataOf(m_LatestFrame, c), j \in 0..m - 1 : d.m_FrameID * m + j = FromOf(c, m) + i
    BY <1>8, SampleIsThere
  <2> DEFINE vector == VectorAt(c, m, d, j)
  <2>2. SampleOf(c, i) = Answer(vector)
    BY <1>8, <1>11, <2>1, SampleIs
  <2>3. \A e \in ToSet(frames) : e.m_DeviceID = c.m_DeviceID <=> IsDataOf(c, e)
    BY <1>7 DEF IsDataOf
  <2>4. PlateVector(plateID, i, frames) = Answer(vector)
    <3>1. PlateVector(c.m_DeviceID, i, frames) = Answer(vector)
      BY <1>2, <1>4, <1>5, <1>8, <1>11, <2>1, <2>3, PlateVectorIs
    <3>2. QED
      BY <1>4, <3>1
  <2>5. Vector(plateID, c, i) = InPlate(PlateVector(plateID, i, frames))
    BY <1>4, KindOfFrames DEF GetForceVectorAtSample, GetMomentVectorAtSample,
                              GetCentreOfPressureAtSample
  <2>6. Vector(plateID, c, i) = Answer(OutT(vector))
    <3> HIDE DEF vector, Vector, frames
    <3>1. QED
      BY <2>4, <2>5, AnswersGiven DEF InPlate
  <2>7. value(i) = Answer(OutT(vector)[k])
    <3>1. k \in DOMAIN c.m_ComponentNames
      BY <1>5
    <3>2. value(i) = IF ~Seen(SampleOf(c, i)) THEN SampleOf(c, i)
                     ELSE Answer((IF IsForcePlateCoreChannel(c) THEN OutT(SampleOf(c, i).out)
                                  ELSE SampleOf(c, i).out)[k])
      BY <1>1, <1>2, <1>4, <1>5, <3>1, OutputAnswers
    <3>3. Seen(SampleOf(c, i))
      BY <2>2 DEF Seen, Answer
    <3> HIDE DEF value, vector, c
    <3>4. QED
      BY <1>4, <2>2, <3>2, <3>3, AnswersGiven
  <2> HIDE DEF value, vector, Vector, c
  <2>8. QED
    BY <2>6, <2>7, AnswersGiven
<1>13. subsamples.out = count.out /\ count.out = CountOf(c, m)
  <2> HIDE DEF subsamples, count, c
  <2>1. QED
    BY <1>10, <1>11, AnswersGiven
<1> HIDE DEF subsamples, count, value, Vector
<1>14. QED
  BY <1>11, <1>12, <1>13 DEF subsamples, count, value

\* The vectors of a force plate are, sample by sample, the values of the outputs of its device,
\* whichever way they are asked for (GetForcePlateVector, GetDeviceOutputValue).
THEOREM PlatesAnswerTheSame == Spec => []PlateAgrees
BY FramesStayWellFormed, PlateAgreesHold, PTL

-----------------------------------------------------------------------------
(* The forms of a rotation say the same.                                   *)

\* The angle of a direction in a plane.
LEMMA AngleOfDirection ==
  ASSUME NEW x \in Int, NEW y \in Int, UnitRow(0, x, y)
  PROVE  ATan2(y, x) \in Int /\ Cos(ATan2(y, x)) = x /\ Sin(ATan2(y, x)) = y
<1>1. Cos(0) = 1 /\ Sin(0) = 0
  BY SizeAndSign
<1>2. Cos(1) = 0 /\ Cos(2) = -1
  BY DEF Cos
<1>3. Sin(1) = 1 /\ Sin(2) = 0
  <2>1. \A n \in Int : n = 1 => n - 1 = 0
    OBVIOUS
  <2>2. \A n \in Int : n = 2 => n - 1 = 1
    OBVIOUS
  <2>3. Sin(1) = Cos(0) /\ Sin(2) = Cos(1)
    BY <2>1, <2>2 DEF Sin
  <2>4. QED
    BY <1>1, <1>2, <2>3
<1>4. Cos(-1) = 0 /\ Sin(-1) = -1
  BY <1>2, <1>3, OnTheCircle
<1>5. \/ x = 1 /\ y = 0 /\ ATan2(y, x) = 0
      \/ x = -1 /\ y = 0 /\ ATan2(y, x) = 2
      \/ x = 0 /\ y = 1 /\ ATan2(y, x) = 1
      \/ x = 0 /\ y = -1 /\ ATan2(y, x) = -1
  BY DEF UnitRow, ATan2
<1>6. QED
  BY <1>1, <1>2, <1>3, <1>4, <1>5

\* The matrix of three Euler angles.
LEMMA EulerMatrix ==
  ASSUME NEW x \in Int, NEW y \in Int, NEW z \in Int
  PROVE  LET M == EulerToMatrix(<<x, y, z>>)
             c1 == Cos(x) s1 == Sin(x) c2 == Cos(y) s2 == Sin(y) c3 == Cos(z) s3 == Sin(z)
         IN  /\ M \in Matrices
             /\ M[1][1] = c2 * c3 /\ M[1][2] = 0 - c2 * s3 /\ M[1][3] = s2
             /\ M[2][1] = s1 * s2 * c3 + c1 * s3
             /\ M[2][2] = c1 * c3 - s1 * s2 * s3 /\ M[2][3] = 0 - s1 * c2
             /\ M[3][1] = s1 * s3 - c1 * s2 * c3
             /\ M[3][2] = c1 * s2 * s3 + s1 * c3 /\ M[3][3] = c1 * c2
<1> DEFINE c1 == Cos(x) s1 == Sin(x) c2 == Cos(y) s2 == Sin(y) c3 == Cos(z) s3 == Sin(z)
           X == AboutX(c1, s1) Y == AboutY(c2, s2) Z == AboutZ(c3, s3)
           P == Times(X, Y)
           M == EulerToMatrix(<<x, y, z>>)
<1>1. /\ c1 \in Int /\ s1 \in Int /\ c2 \in Int /\ s2 \in Int /\ c3 \in Int /\ s3 \in Int
  BY OnTheCircle
<1>2. M = Times(P, Z)
  BY HelicalAboutX, HelicalAboutY, HelicalAboutZ DEF EulerToMatrix
<1> HIDE DEF c1, s1, c2, s2, c3, s3
<1>3. /\ X \in Matrices /\ Y \in Matrices /\ Z \in Matrices
  BY <1>1 DEF AboutX, AboutY, AboutZ, Matrices, Vectors
<1>4. P \in Matrices /\ M \in Matrices
  BY <1>2, <1>3, TimesIsMatrix
<1>5. \A i, j \in 1..3 : P[i][j] = X[i][1] * Y[1][j] + X[i][2] * Y[2][j] + X[i][3] * Y[3][j]
  BY <1>3, TimesAt
<1>6. \A i, j \in 1..3 : M[i][j] = P[i][1] * Z[1][j] + P[i][2] * Z[2][j] + P[i][3] * Z[3][j]
  BY <1>2, <1>3, <1>4, TimesAt
<1>7. /\ X[1][1] = 1 /\ X[1][2] = 0 /\ X[1][3] = 0
      /\ X[2][1] = 0 /\ X[2][2] = c1 /\ X[2][3] = -s1
      /\ X[3][1] = 0 /\ X[3][2] = s1 /\ X[3][3] = c1
      /\ Y[1][1] = c2 /\ Y[1][2] = 0 /\ Y[1][3] = s2
      /\ Y[2][1] = 0 /\ Y[2][2] = 1 /\ Y[2][3] = 0
      /\ Y[3][1] = -s2 /\ Y[3][2] = 0 /\ Y[3][3] = c2
      /\ Z[1][1] = c3 /\ Z[1][2] = -s3 /\ Z[1][3] = 0
      /\ Z[2][1] = s3 /\ Z[2][2] = c3 /\ Z[2][3] = 0
      /\ Z[3][1] = 0 /\ Z[3][2] = 0 /\ Z[3][3] = 1
  BY DEF AboutX, AboutY, AboutZ
<1> HIDE DEF X, Y, Z, P, M
<1>8. /\ P[1][1] = c2 /\ P[1][2] = 0 /\ P[1][3] = s2
      /\ P[2][1] = s1 * s2 /\ P[2][2] = c1 /\ P[2][3] = -(s1 * c2)
      /\ P[3][1] = -(c1 * s2) /\ P[3][2] = s1 /\ P[3][3] = c1 * c2
  BY <1>1, <1>5, <1>7
<1>9. /\ M[1][1] = c2 * c3 /\ M[1][2] = -(c2 * s3) /\ M[1][3] = s2
      /\ M[2][1] = s1 * s2 * c3 + c1 * s3
      /\ M[2][2] = c1 * c3 - s1 * s2 * s3 /\ M[2][3] = -(s1 * c2)
      /\ M[3][1] = s1 * s3 - c1 * s2 * c3
      /\ M[3][2] = c1 * s2 * s3 + s1 * c3 /\ M[3][3] = c1 * c2
  BY <1>1, <1>6, <1>7, <1>8
<1>10. -(c2 * s3) = 0 - c2 * s3 /\ -(s1 * c2) = 0 - s1 * c2
  BY <1>1
<1>11. QED
  BY <1>4, <1>9, <1>10 DEF M, c1, s1, c2, s2, c3, s3

\* What a quarter turn is made of: its rows, its columns and their products.
LEMMA QuarterTurnEntries ==
  ASSUME NEW R \in Matrices, R \in QuarterTurns
  PROVE  LET a == R[1][1] b == R[1][2] c == R[1][3]
             d == R[2][1] e == R[2][2] f == R[2][3]
             g == R[3][1] h == R[3][2] i == R[3][3]
         IN  /\ a \in Int /\ b \in Int /\ c \in Int /\ d \in Int /\ e \in Int /\ f \in Int
             /\ g \in Int /\ h \in Int /\ i \in Int
             /\ UnitRow(a, b, c) /\ UnitRow(d, e, f) /\ UnitRow(g, h, i)
             /\ UnitRow(a, d, g) /\ UnitRow(b, e, h) /\ UnitRow(c, f, i)
             /\ d = h * c - i * b /\ e = i * a - g * c
             /\ g = b * f - c * e /\ h = c * d - a * f /\ i = a * e - b * d
<1> DEFINE a == R[1][1] b == R[1][2] c == R[1][3]
           d == R[2][1] e == R[2][2] f == R[2][3]
           g == R[3][1] h == R[3][2] i == R[3][3]
<1>1. /\ UnitRow(a, b, c) /\ UnitRow(d, e, f) /\ UnitRow(g, h, i)
      /\ g = b * f - c * e /\ h = c * d - a * f /\ i = a * e - b * d
  BY QuarterTurnIs
<1>2. /\ a \in Int /\ b \in Int /\ c \in Int /\ d \in Int /\ e \in Int /\ f \in Int
      /\ g \in Int /\ h \in Int /\ i \in Int
  BY DEF Matrices, Vectors
<1> HIDE DEF a, b, c, d, e, f, g, h, i
<1>3. d = h * c - i * b /\ e = i * a - g * c
  BY <1>1, <1>2, RowsCycle
<1>4. UnitRow(a, d, g) /\ UnitRow(b, e, h) /\ UnitRow(c, f, i)
  BY <1>1, <1>2, ColumnsOfRows
<1>5. QED
  BY <1>1, <1>2, <1>3, <1>4 DEF a, b, c, d, e, f, g, h, i

LEMMA OppositeRow ==
  ASSUME NEW x \in Int, NEW y \in Int, UnitRow(0, x, y)
  PROVE  UnitRow(0, x, -y) /\ UnitRow(0, -x, -y)
<1>1. CASE x = 0 /\ y \in {-1, 1}
  BY <1>1, MinusNothing DEF UnitRow
<1>2. CASE x \in {-1, 1} /\ y = 0
  BY <1>2, MinusNothing DEF UnitRow
<1>3. QED
  BY <1>1, <1>2 DEF UnitRow

\* The Euler angles of a quarter turn stand for it, in gimbal lock too.
LEMMA EulerAngles ==
  ASSUME NEW R \in Matrices, R \in QuarterTurns
  PROVE  EulerToMatrix(MatrixToEulerXYZ(R)) = R
<1> DEFINE a == R[1][1] b == R[1][2] c == R[1][3]
           d == R[2][1] e == R[2][2] f == R[2][3]
           g == R[3][1] h == R[3][2] i == R[3][3]
           E == MatrixToEulerXYZ(R)
           M == EulerToMatrix(E)
<1>1. /\ a \in Int /\ b \in Int /\ c \in Int /\ d \in Int /\ e \in Int /\ f \in Int
      /\ g \in Int /\ h \in Int /\ i \in Int
      /\ UnitRow(a, b, c) /\ UnitRow(d, e, f) /\ UnitRow(g, h, i)
      /\ UnitRow(a, d, g) /\ UnitRow(b, e, h) /\ UnitRow(c, f, i)
      /\ d = h * c - i * b /\ e = i * a - g * c
      /\ g = b * f - c * e /\ h = c * d - a * f
  BY QuarterTurnEntries
<1>2. E = IF Abs(c) # 1 THEN <<ATan2(-f, i), Sign(c), ATan2(-b, a)>>
          ELSE IF c > 0 THEN <<-ATan2(-d, -g), 1, 0>>
          ELSE <<-ATan2(d, g), -1, 0>>
  BY DEF MatrixToEulerXYZ
<1> DEFINE MatrixOf(c1, s1, c2, s2, c3, s3) ==
             /\ M[1][1] = c2 * c3 /\ M[1][2] = 0 - c2 * s3 /\ M[1][3] = s2
             /\ M[2][1] = s1 * s2 * c3 + c1 * s3
             /\ M[2][2] = c1 * c3 - s1 * s2 * s3 /\ M[2][3] = 0 - s1 * c2
             /\ M[3][1] = s1 * s3 - c1 * s2 * c3
             /\ M[3][2] = c1 * s2 * s3 + s1 * c3 /\ M[3][3] = c1 * c2
<1>3. ASSUME NEW x \in Int, NEW y \in Int, NEW z \in Int, E = <<x, y, z>>
      PROVE  M \in Matrices /\ MatrixOf(Cos(x), Sin(x), Cos(y), Sin(y), Cos(z), Sin(z))
  BY <1>3, EulerMatrix
<1> HIDE DEF E, M, MatrixOf
<1>4. /\ Cos(0) = 1 /\ Sin(0) = 0 /\ Cos(1) = 0 /\ Sin(1) = 1 /\ Cos(-1) = 0 /\ Sin(-1) = -1
  <2>1. ATan2(1, 0) = 1 /\ UnitRow(0, 0, 1)
    BY DEF ATan2, UnitRow
  <2>2. Cos(1) = 0 /\ Sin(1) = 1
    BY <2>1, AngleOfDirection
  <2>3. QED
    BY <2>2, SizeAndSign, OnTheCircle
<1>5. CASE c = 0
  <2>1. UnitRow(0, a, -b) /\ UnitRow(0, i, -f)
    <3> HIDE DEF a, b, c, f, i
    <3>1. UnitRow(0, a, b) /\ UnitRow(0, i, f)
      BY <1>1, <1>5 DEF UnitRow
    <3>2. QED
      BY <1>1, <3>1, OppositeRow
  <2>2. /\ ATan2(-f, i) \in Int /\ Cos(ATan2(-f, i)) = i /\ Sin(ATan2(-f, i)) = -f
        /\ ATan2(-b, a) \in Int /\ Cos(ATan2(-b, a)) = a /\ Sin(ATan2(-b, a)) = -b
    BY <1>1, <2>1, AngleOfDirection
  <2>3. E = <<ATan2(-f, i), 0, ATan2(-b, a)>>
    BY <1>2, <1>5 DEF Abs, Sign
  <2>4. M \in Matrices /\ MatrixOf(i, -f, 1, 0, a, -b)
    BY <1>3, <1>4, <2>2, <2>3
  <2> HIDE DEF a, b, c, d, e, f, g, h, i
  <2>5. /\ M[1][1] = a /\ M[1][2] = b /\ M[1][3] = c
        /\ M[2][1] = d /\ M[2][2] = e /\ M[2][3] = f
        /\ M[3][1] = g /\ M[3][2] = h /\ M[3][3] = i
    BY <1>1, <1>5, <2>4 DEF MatrixOf
  <2>6. QED
    BY <2>4, <2>5, SameMatrix DEF M, E, a, b, c, d, e, f, g, h, i
<1>6. CASE c = 1
  <2>1. UnitRow(0, -g, -d) /\ a = 0 /\ b = 0 /\ f = 0 /\ i = 0
    <3> HIDE DEF a, b, c, d, f, g, i
    <3>1. UnitRow(0, g, d) /\ a = 0 /\ b = 0 /\ f = 0 /\ i = 0
      BY <1>1, <1>6 DEF UnitRow
    <3>2. QED
      BY <1>1, <3>1, OppositeRow
  <2>2. ATan2(-d, -g) \in Int /\ Cos(ATan2(-d, -g)) = -g /\ Sin(ATan2(-d, -g)) = -d
    BY <1>1, <2>1, AngleOfDirection
  <2>3. PICK x \in Int : x = -ATan2(-d, -g) /\ Cos(x) = -g /\ Sin(x) = d
    <3>1. -(-d) = d
      BY <1>1
    <3>2. QED
      BY <2>2, <3>1, OnTheCircle
  <2>4. E = <<x, 1, 0>>
    BY <1>2, <1>6, <2>3 DEF Abs
  <2>5. M \in Matrices /\ MatrixOf(Cos(x), Sin(x), 0, 1, 1, 0)
    BY <1>3, <1>4, <2>4
  <2> HIDE DEF a, b, c, d, e, f, g, h, i
  <2>6. /\ M[1][1] = a /\ M[1][2] = b /\ M[1][3] = c
        /\ M[2][1] = d /\ M[2][2] = e /\ M[2][3] = f
        /\ M[3][1] = g /\ M[3][2] = h /\ M[3][3] = i
    BY <1>1, <1>6, <2>1, <2>3, <2>5 DEF MatrixOf
  <2>7. QED
    BY <2>5, <2>6, SameMatrix DEF M, E, a, b, c, d, e, f, g, h, i
<1>7. CASE c = -1
  <2>1. UnitRow(0, g, d) /\ a = 0 /\ b = 0 /\ f = 0 /\ i = 0
    <3> HIDE DEF a, b, c, d, f, g, i
    <3>1. QED
      BY <1>1, <1>7 DEF UnitRow
  <2>2. ATan2(d, g) \in Int /\ Cos(ATan2(d, g)) = g /\ Sin(ATan2(d, g)) = d
    BY <1>1, <2>1, AngleOfDirection
  <2>3. PICK x \in Int : x = -ATan2(d, g) /\ Cos(x) = g /\ Sin(x) = -d
    BY <2>2, OnTheCircle
  <2>4. PICK y \in Int : y = -1 /\ Cos(y) = 0 /\ Sin(y) = -1
    BY <1>4
  <2>5. E = <<x, y, 0>>
    <3>1. \A n \in Int : n < 0 => Abs(n) = 0 - n
      BY DEF Abs
    <3>2. c < 0 /\ ~(c > 0) /\ 0 - c = 1
      BY <1>7
    <3>3. Abs(c) = 1
      BY <1>1, <3>1, <3>2
    <3>4. QED
      BY <1>2, <2>3, <2>4, <3>2, <3>3
  <2>6. M \in Matrices /\ MatrixOf(Cos(x), Sin(x), 0, -1, 1, 0)
    BY <1>3, <1>4, <2>4, <2>5
  <2> HIDE DEF a, b, c, d, e, f, g, h, i
  <2>7. /\ M[1][1] = a /\ M[1][2] = b /\ M[1][3] = c
        /\ M[2][1] = d /\ M[2][2] = e /\ M[2][3] = f
        /\ M[3][1] = g /\ M[3][2] = h /\ M[3][3] = i
    <3>1. e = g /\ h = -d
      BY <1>1, <1>7, <2>1
    <3>2. PICK s \in Int : s = Sin(x) /\ s = -d
      BY <1>1, <2>3
    <3>3. /\ M[1][1] = 0 /\ M[1][2] = 0 /\ M[1][3] = -1
          /\ M[2][1] = 0 - s /\ M[2][2] = g /\ M[2][3] = 0
          /\ M[3][1] = g /\ M[3][2] = s /\ M[3][3] = 0
      BY <1>1, <2>3, <2>6, <3>2 DEF MatrixOf
    <3>4. 0 - s = d
      BY <1>1, <3>2
    <3>5. QED
      BY <1>7, <2>1, <3>1, <3>2, <3>3, <3>4
  <2>8. QED
    BY <2>6, <2>7, SameMatrix DEF M, E, a, b, c, d, e, f, g, h, i
<1>8. c \in {-1, 0, 1}
  BY <1>1 DEF UnitRow
<1>9. QED
  BY <1>5, <1>6, <1>7, <1>8 DEF M, E

\* That a quaternion stands for a quarter turn with these rows.
StandsFor(x, y, z, w, a, b, c, d, e, f, g, h, i) ==
    LET n == x * x + y * y + z * z + w * w
    IN  /\ n > 0
        /\ w * w + x * x - y * y - z * z = n * a
        /\ 2 * (x * y - w * z) = n * b /\ 2 * (x * z + w * y) = n * c
        /\ 2 * (x * y + w * z) = n * d
        /\ w * w - x * x + y * y - z * z = n * e
        /\ 2 * (y * z - w * x) = n * f /\ 2 * (x * z - w * y) = n * g
        /\ 2 * (y * z + w * x) = n * h
        /\ w * w - x * x - y * y + z * z = n * i

LEMMA QuaternionStands ==
  ASSUME NEW a \in Int, NEW b \in Int, NEW c \in Int, UnitRow(a, b, c),
         NEW d \in Int, NEW e \in Int, NEW f \in Int, UnitRow(d, e, f),
         NEW g \in Int, NEW h \in Int, NEW i \in Int, UnitRow(g, h, i),
         g = b * f - c * e, h = c * d - a * f, i = a * e - b * d
  PROVE  /\ a + e + i > 0 =>
                StandsFor(h - f, c - g, d - b, a + e + i + 1, a, b, c, d, e, f, g, h, i)
         /\ a + e + i <= 0 =>
            /\ a >= e /\ a >= i =>
                StandsFor(a - e - i + 1, d + b, g + c, h - f, a, b, c, d, e, f, g, h, i)
            /\ e > a /\ e >= i =>
                StandsFor(b + d, e - i - a + 1, h + f, c - g, a, b, c, d, e, f, g, h, i)
            /\ i > a /\ i > e =>
                StandsFor(c + g, f + h, i - a - e + 1, d - b, a, b, c, d, e, f, g, h, i)
<1> USE DEF UnitRow, StandsFor
<1>1. CASE a \in {-1, 1} /\ b = 0 /\ c = 0
  <2>1. CASE d = 0 /\ e \in {-1, 1} /\ f = 0
    BY <1>1, <2>1
  <2>2. CASE d = 0 /\ e = 0 /\ f \in {-1, 1}
    BY <1>1, <2>2
  <2>3. QED
    BY <1>1, <2>1, <2>2
<1>2. CASE a = 0 /\ b \in {-1, 1} /\ c = 0
  <2>1. CASE d \in {-1, 1} /\ e = 0 /\ f = 0
    BY <1>2, <2>1
  <2>2. CASE d = 0 /\ e = 0 /\ f \in {-1, 1}
    BY <1>2, <2>2
  <2>3. QED
    BY <1>2, <2>1, <2>2
<1>3. CASE a = 0 /\ b = 0 /\ c \in {-1, 1}
  <2>1. CASE d \in {-1, 1} /\ e = 0 /\ f = 0
    BY <1>3, <2>1
  <2>2. CASE d = 0 /\ e \in {-1, 1} /\ f = 0
    BY <1>3, <2>2
  <2>3. QED
    BY <1>3, <2>1, <2>2
<1>4. QED
  BY <1>1, <1>2, <1>3

\* The four branches of the conversion.
LEMMA QuaternionBranches ==
  ASSUME NEW R \in Matrices
  PROVE  LET a == R[1][1] b == R[1][2] c == R[1][3]
             d == R[2][1] e == R[2][2] f == R[2][3]
             g == R[3][1] h == R[3][2] i == R[3][3]
             q == MatrixToQuaternion(R)
         IN  /\ a + e + i > 0 => q = <<h - f, c - g, d - b, a + e + i + 1>>
             /\ a + e + i <= 0 =>
                /\ a >= e /\ a >= i =>
                    q[1] = a - e - i + 1 /\ q[2] = d + b /\ q[3] = g + c /\ q[4] = h - f
                /\ e > a /\ e >= i =>
                    q[1] = b + d /\ q[2] = e - i - a + 1 /\ q[3] = h + f /\ q[4] = c - g
                /\ i > a /\ i > e =>
                    q[1] = c + g /\ q[2] = f + h /\ q[3] = i - a - e + 1 /\ q[4] = d - b
<1> DEFINE a == R[1][1] b == R[1][2] c == R[1][3]
           d == R[2][1] e == R[2][2] f == R[2][3]
           g == R[3][1] h == R[3][2] i == R[3][3]
           larger == IF e > a THEN 2 ELSE 1
           n == IF i > R[larger][larger] THEN 3 ELSE larger
           Branch(p, j, k) == [m \in 1..4 |->
                CASE m = 4 -> R[k][j] - R[j][k]
                  [] m = p -> R[p][p] - R[j][j] - R[k][k] + 1
                  [] m = j -> R[j][p] + R[p][j]
                  [] m = k -> R[k][p] + R[p][k]]
<1>1. /\ a \in Int /\ b \in Int /\ c \in Int /\ d \in Int /\ e \in Int /\ f \in Int
      /\ g \in Int /\ h \in Int /\ i \in Int
  BY DEF Matrices, Vectors
<1>2. MatrixToQuaternion(R) =
        IF a + e + i > 0 THEN <<h - f, c - g, d - b, a + e + i + 1>>
        ELSE Branch(n, (n % 3) + 1, (((n % 3) + 1) % 3) + 1)
  BY DEF MatrixToQuaternion
<1>3. /\ (1 % 3) + 1 = 2 /\ (2 % 3) + 1 = 3 /\ (3 % 3) + 1 = 1
  OBVIOUS
<1>4. /\ Branch(1, 2, 3)[1] = a - e - i + 1 /\ Branch(1, 2, 3)[2] = d + b
      /\ Branch(1, 2, 3)[3] = g + c /\ Branch(1, 2, 3)[4] = h - f
      /\ Branch(2, 3, 1)[1] = b + d /\ Branch(2, 3, 1)[2] = e - i - a + 1
      /\ Branch(2, 3, 1)[3] = h + f /\ Branch(2, 3, 1)[4] = c - g
      /\ Branch(3, 1, 2)[1] = c + g /\ Branch(3, 1, 2)[2] = f + h
      /\ Branch(3, 1, 2)[3] = i - a - e + 1 /\ Branch(3, 1, 2)[4] = d - b
  OBVIOUS
<1>5. /\ a >= e /\ a >= i => n = 1
      /\ e > a /\ e >= i => n = 2
      /\ i > a /\ i > e => n = 3
  BY <1>1
<1> HIDE DEF Branch, n
<1>6. n \in 1..3 => Branch(n, (n % 3) + 1, (((n % 3) + 1) % 3) + 1)
            = IF n = 1 THEN Branch(1, 2, 3) ELSE IF n = 2 THEN Branch(2, 3, 1)
              ELSE Branch(3, 1, 2)
  BY <1>3
<1>7. a + e + i <= 0 => ~(a + e + i > 0)
  BY <1>1
<1> HIDE DEF a, b, c, d, e, f, g, h, i
<1>8. QED
  BY <1>2, <1>4, <1>5, <1>6, <1>7 DEF a, b, c, d, e, f, g, h, i

\* The quaternion of a quarter turn stands for it, whichever branch it comes from.
LEMMA QuaternionAgrees ==
  ASSUME NEW R \in Matrices, R \in QuarterTurns
  PROVE  LET q == MatrixToQuaternion(R)
             n == SquareOfLength(q)
         IN  n > 0 /\ QuaternionToMatrix(q) = Scaled(n, R)
<1> DEFINE a == R[1][1] b == R[1][2] c == R[1][3]
           d == R[2][1] e == R[2][2] f == R[2][3]
           g == R[3][1] h == R[3][2] i == R[3][3]
           q == MatrixToQuaternion(R)
<1>1. /\ a \in Int /\ b \in Int /\ c \in Int /\ d \in Int /\ e \in Int /\ f \in Int
      /\ g \in Int /\ h \in Int /\ i \in Int
      /\ UnitRow(a, b, c) /\ UnitRow(d, e, f) /\ UnitRow(g, h, i)
      /\ g = b * f - c * e /\ h = c * d - a * f /\ i = a * e - b * d
  BY QuarterTurnEntries
<1>2. /\ a + e + i > 0 => q = <<h - f, c - g, d - b, a + e + i + 1>>
      /\ a + e + i <= 0 =>
         /\ a >= e /\ a >= i =>
             q[1] = a - e - i + 1 /\ q[2] = d + b /\ q[3] = g + c /\ q[4] = h - f
         /\ e > a /\ e >= i =>
             q[1] = b + d /\ q[2] = e - i - a + 1 /\ q[3] = h + f /\ q[4] = c - g
         /\ i > a /\ i > e =>
             q[1] = c + g /\ q[2] = f + h /\ q[3] = i - a - e + 1 /\ q[4] = d - b
  BY QuaternionBranches
<1> HIDE DEF q
<1>3. StandsFor(q[1], q[2], q[3], q[4], a, b, c, d, e, f, g, h, i)
  <2> HIDE DEF a, b, c, d, e, f, g, h, i
  <2>1. \/ a + e + i > 0
        \/ a + e + i <= 0 /\ a >= e /\ a >= i
        \/ a + e + i <= 0 /\ e > a /\ e >= i
        \/ a + e + i <= 0 /\ i > a /\ i > e
    BY <1>1
  <2>2. QED
    BY <1>1, <1>2, <2>1, QuaternionStands
<1>4. LET n == SquareOfLength(q) IN n > 0 /\ QuaternionToMatrix(q) = Scaled(n, R)
  <2> DEFINE n == SquareOfLength(q)
  <2>1. n = q[1] * q[1] + q[2] * q[2] + q[3] * q[3] + q[4] * q[4]
    BY DEF SquareOfLength
  <2> HIDE DEF n
  <2>2. QuaternionToMatrix(q)
            = << <<n * a, n * b, n * c>>, <<n * d, n * e, n * f>>, <<n * g, n * h, n * i>> >>
    BY <1>3, <2>1 DEF QuaternionToMatrix, StandsFor
  <2>3. Scaled(n, R)
            = << <<n * a, n * b, n * c>>, <<n * d, n * e, n * f>>, <<n * g, n * h, n * i>> >>
    BY DEF Scaled
  <2>4. n > 0
    BY <1>3, <2>1 DEF StandsFor
  <2>5. QED
    BY <2>2, <2>3, <2>4 DEF n
<1>5. QED
  BY <1>4 DEF q

\* Axes that SetAxisMapping accepts turn by quarter turns.
LEMMA TransformIsQuarterTurn ==
  ASSUME NEW axes \in [1..3 -> Directions], AxisMappingResult(axes) = "Success"
  PROVE  Transform(axes) \in QuarterTurns
<1> DEFINE R == Transform(axes)
<1>1. R \in Matrices
  BY TransformIsMatrix
<1>2. \A i \in 1..3 : R[i] = DirectionVector(axes[i])
  BY DEF Transform
<1>3. ASSUME NEW d \in Directions
      PROVE  LET v == DirectionVector(d) IN UnitRow(v[1], v[2], v[3])
  BY DEF Directions, DirectionVector, ComponentSign, ComponentIndex, UnitRow
<1>4. DirectionVector(axes[3]) = CrossProduct(DirectionVector(axes[1]), DirectionVector(axes[2]))
  BY DEF AxisMappingResult
<1> HIDE DEF R
<1>5. \A i \in 1..3 : UnitRow(R[i][1], R[i][2], R[i][3])
  BY <1>2, <1>3
<1>6. R[3] = CrossProduct(R[1], R[2])
  BY <1>2, <1>4
<1>7. R \in QuarterTurns
  BY <1>1, <1>5, <1>6, QuarterTurnIs DEF CrossProduct
<1>8. QED
  BY <1>7 DEF R

\* What is handed out of a quarter turn is one.
LEMMA OutIsQuarterTurn ==
  ASSUME m_pAxisMapping \in [1..3 -> Directions], AxisMappingResult(m_pAxisMapping) = "Success",
         NEW R \in Matrices, R \in QuarterTurns
  PROVE  OutR(R) \in Matrices /\ OutR(R) \in QuarterTurns
<1> DEFINE P == Turn(m_pAxisMapping, ServerAxes)
<1>1. /\ P \in Matrices
      /\ OutR(R) = Times(Times(P, R), Transpose(P))
  BY TransformedByTurn, ServerAxesAre DEF OutR
<1>2. P \in QuarterTurns
  <2>1. Transform(YUpAxes) \in Matrices /\ Transform(YUpAxes) \in QuarterTurns
    <3> DEFINE Up == Transform(YUpAxes)
    <3>1. Up \in Matrices
      BY TransformIsMatrix, ServerDirections
    <3>2. /\ Up[1][1] = 1 /\ Up[1][2] = 0 /\ Up[1][3] = 0
          /\ Up[2][1] = 0 /\ Up[2][2] = 0 /\ Up[2][3] = 1
          /\ Up[3][1] = 0 /\ Up[3][2] = -1 /\ Up[3][3] = 0
      BY ServerDirections DEF Transform
    <3> HIDE DEF Up
    <3>3. Up \in QuarterTurns
      BY <3>1, <3>2, QuarterTurnIs DEF UnitRow
    <3>4. QED
      BY <3>1, <3>3 DEF Up
  <2>2. Transform(m_pAxisMapping) \in Matrices /\ Transform(m_pAxisMapping) \in QuarterTurns
    BY TransformIsMatrix, TransformIsQuarterTurn
  <2>3. /\ Transpose(Transform(YUpAxes)) \in Matrices
        /\ Transpose(Transform(YUpAxes)) \in QuarterTurns
    BY <2>1, TransposeIsMatrix, QuarterTurnBack
  <2>4. Times(Transform(m_pAxisMapping), Transpose(Transform(YUpAxes))) \in QuarterTurns
    BY <2>2, <2>3, QuarterTurnsCompose
  <2>5. QED
    BY <2>2, <2>4, UnitIsQuarterTurn DEF Turn
<1> HIDE DEF P
<1>3. Times(P, R) \in Matrices /\ Transpose(P) \in Matrices
  BY <1>1, TimesIsMatrix, TransposeIsMatrix
<1>4. Times(P, R) \in QuarterTurns /\ Transpose(P) \in QuarterTurns
  BY <1>1, <1>2, QuarterTurnsCompose, QuarterTurnBack
<1>5. QED
  BY <1>1, <1>3, <1>4, QuarterTurnsCompose, TimesIsMatrix

\* Whatever is called when, both frames have rotations by quarter turns only, if those that are sent
\* have: the poses that are worked out are turned by one of them after another.
TurnsInv ==
    /\ WellFormed(m_CachedFrame)
    /\ RightAngled(m_LatestFrame)
    /\ RightAngled(m_CachedFrame)

LEMMA InitTurnsInv == Init => TurnsInv
BY EmptyFrameWellFormed DEF Init, TurnsInv

LEMMA NextTurnsInv == TurnsInv /\ [Next]_vars => TurnsInv'
<1> SUFFICES ASSUME TurnsInv, [Next]_vars PROVE TurnsInv'
  OBVIOUS
<1> USE DEF TurnsInv
<1>1. CASE Connect
  BY <1>1 DEF Connect
<1>2. CASE Disconnect
  BY <1>2 DEF Disconnect
<1>3. ASSUME NEW f \in Frames, FetchNextFrame(f) PROVE TurnsInv'
  BY <1>3, GettersAssumption, RightAnglesAssumption DEF FetchNextFrame
<1>4. ASSUME NEW gone, Dispatch(gone) PROVE TurnsInv'
  BY <1>4, CalculatedWellFormed DEF Dispatch
<1>5. ASSUME NEW axes \in Axes, SetAxisMapping(axes) PROVE TurnsInv'
  BY <1>5 DEF SetAxisMapping
<1>6. ASSUME NEW enabled \in BOOLEAN, SetLightweightSegmentData(enabled) PROVE TurnsInv'
  BY <1>6 DEF SetLightweightSegmentData, frameVars
<1>7. CASE UNCHANGED vars
  BY <1>7 DEF vars, frameVars
<1>8. QED
  BY <1>1, <1>2, <1>3, <1>4, <1>5, <1>6, <1>7 DEF Next

LEMMA RotationFormsHold == GettersInv /\ TurnsInv => RotationFormsAgree
<1> SUFFICES ASSUME GettersInv, TurnsInv, NEW subject \in SubjectNames,
                    NEW segment \in SegmentNames(subject),
                    Seen(GetSegmentGlobalRotationMatrix(subject, segment))
             PROVE  LET matrix == GetSegmentGlobalRotationMatrix(subject, segment)
                        euler == GetSegmentGlobalRotationEulerXYZ(subject, segment)
                        quaternion == GetSegmentGlobalRotationQuaternion(subject, segment)
                    IN  /\ EulerToMatrix(euler.out) = matrix.out
                        /\ LET n == SquareOfLength(quaternion.out)
                           IN  /\ n > 0
                               /\ QuaternionToMatrix(quaternion.out) = Scaled(n, matrix.out)
  BY DEF RotationFormsAgree
<1> DEFINE objects == m_LatestFrame.m_GlobalSegments
           s == m_LatestFrame.m_Subjects[SubjectIndex(subject)]
           t == s.m_Segments
           matrix == GetSegmentGlobalRotationMatrix(subject, segment)
<1>1. /\ InitGet = "Success" /\ subject # <<>> /\ SubjectIndex(subject) # 0 /\ Articulated(s)
      /\ \E n \in DOMAIN t : segment = t[n].m_Name
  BY SegmentOfName
<1>2. s = m_LatestFrame.m_Subjects[SubjectIndex(subject)]
  OBVIOUS
<1>3. Objects(objects)
  BY DEF GettersInv, WellFormed, WithPosesThatFit
<1> HIDE DEF s
<1>4. PICK n \in DOMAIN t : segment = t[n].m_Name
  BY <1>1
<1> DEFINE g == t[n]
           k == PosedObject(objects, s.m_SubjectID, g.m_SegmentID)
           i == PosedSegment(objects[k], g.m_SegmentID)
           p == objects[k].m_Segments[i]
<1>5. matrix = IF k = 0 \/ i = 0 THEN Occluded ELSE Answer(OutR(p.m_Rotation))
  <2>1. SegmentIndex(s, segment) = n /\ n # 0 /\ segment # <<>>
    BY <1>1, <1>4, FoundByName
  <2>2. matrix = GlobalR(s, g)
    BY <1>1, <1>2, <2>1, PoseAnswers
  <2>3. QED
    BY <2>2, SentIs DEF GlobalR
<1>6. k # 0 /\ i # 0 /\ matrix = Answer(OutR(p.m_Rotation))
  <2>1. ~Seen(Occluded)
    BY DEF Seen, Occluded
  <2>2. Seen(matrix)
    OBVIOUS
  <2> HIDE DEF matrix, k, i, p
  <2>3. QED
    BY <1>5, <2>1, <2>2
<1>7. p \in PosesIn(objects, s)
  BY <1>3, <1>6, PoseFound
<1>8. p.m_Rotation \in Matrices /\ p.m_Rotation \in QuarterTurns
  <2>1. \A q \in PosesIn(objects, s) : q.m_Rotation \in QuarterTurns
    BY DEF PosesIn, TurnsInv, RightAngled, Turned
  <2>2. p.m_Rotation \in QuarterTurns
    BY <1>7, <2>1
  <2>3. QED
    BY <2>2 DEF QuarterTurns
<1> DEFINE R == OutR(p.m_Rotation)
<1>9. R \in Matrices /\ R \in QuarterTurns
  BY <1>8, OutIsQuarterTurn DEF GettersInv
<1> HIDE DEF R, p, matrix
<1>10. /\ matrix = Answer(R) /\ matrix.out = R
       /\ GetSegmentGlobalRotationEulerXYZ(subject, segment).out = MatrixToEulerXYZ(R)
       /\ GetSegmentGlobalRotationQuaternion(subject, segment).out = MatrixToQuaternion(R)
  <2>1. matrix = Answer(R)
    BY <1>6 DEF R
  <2>2. /\ Seen(matrix) /\ matrix.out = R
        /\ [matrix EXCEPT !.out = MatrixToEulerXYZ(R)].out = MatrixToEulerXYZ(R)
        /\ [matrix EXCEPT !.out = MatrixToQuaternion(R)].out = MatrixToQuaternion(R)
    BY <2>1 DEF Answer, Seen
  <2>3. QED
    BY <2>1, <2>2 DEF GetSegmentGlobalRotationEulerXYZ, GetSegmentGlobalRotationQuaternion,
                      InForm, matrix
<1>11. QED
  BY <1>9, <1>10, EulerAngles, QuaternionAgrees DEF matrix

\* The Euler angles and the quaternion of a segment stand for the rotation its matrix stands for, in
\* gimbal lock and for half turns too, in any axes and for poses that GetFrame worked out.
THEOREM FormsOfRotationsAgree == Spec => []RotationFormsAgree
<1>1. Spec => []TurnsInv
  BY InitTurnsInv, NextTurnsInv, PTL DEF Spec
<1>2. QED
  BY <1>1, FramesStayWellFormed, RotationFormsHold, PTL
=============================================================================
