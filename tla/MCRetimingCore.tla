--------------------------- MODULE MCRetimingCore ---------------------------
(* An arm that turns by less than a half turn, by more and by a half turn, *)
(* its quaternion of either sign; that is occluded; of which a segment     *)
(* comes and goes; and a second subject that is not always there.          *)
EXTENDS RetimedInterfaces

Segment(name, parent, children, r) ==
    [Name |-> name, Parent |-> parent, m_Children |-> children, T |-> r % 360, R |-> r,
     T_Rel |-> 60, R_Rel |-> (720 - r) % 720, T_Stat |-> 60, R_Stat |-> 120, Scale |-> <<>>,
     bOccluded |-> FALSE]

\* VClient has nothing but what is static.
Hidden(segment) ==
    [segment EXCEPT !.T = 0, !.R = NoRotation, !.T_Rel = 0, !.R_Rel = NoRotation,
                    !.bOccluded = TRUE]

Upper(children, r) == Segment(<<"Upper">>, <<>>, children, r)
Lower(r) == Segment(<<"Lower">>, <<"Upper">>, <<>>, r)

Arm(r, lower) ==
    [Name |-> <<"Arm">>, RootSegment |-> <<"Upper">>,
     Segments |-> << Upper(<< <<"Lower">> >>, r), lower >>]

Stump(r) ==
    [Name |-> <<"Arm">>, RootSegment |-> <<"Upper">>, Segments |-> << Upper(<<>>, r) >>]

Wand == [Name |-> <<"Wand", "2">>, RootSegment |-> <<"Wand">>,
         Segments |-> << Segment(<<"Wand">>, <<>>, <<>>, 0) >>]

SomeFrames ==
    { << Arm(60, Lower(60)) >>, << Arm(480, Lower(480)) >>, << Stump(300) >>,
      << Arm(120, Hidden(Lower(120))), Wand >> }

\* When arm and wand are both there, the connection is lost before one of the calls about them, for
\* good or for this call.
LostAt(calls) ==
    IF Last(calls)[1] = 1 THEN {{}}
    ELSE {{}} \cup UNION {{ToSet(SubSeq(calls, n, Len(calls))), {calls[n]}} : n \in DOMAIN calls}

SomeOffsets == {-1, 1}
=============================================================================
