----------------------------- MODULE MCGetters ------------------------------
(* Frames for Getters: an arm of four segments turned in all ways, sent    *)
(* as full poses or as lightweight segments; cameras; devices with samples *)
(* that lie differently to the frames.                                     *)
EXTENDS CClient

TurnedAxes == {axes \in [1..3 -> Directions] : AxisMappingResult(axes) = "Success"}

Turns == {Transform(axes) : axes \in TurnedAxes}

\* Two mappings that a server may have too, one that it cannot, and one of each kind of mistake.
SomeAxes == {ZUpAxes, YUpAxes, <<"Backward", "Up", "Left">>, <<"Left", "Forward", "Up">>,
             <<"Up", "Down", "Left">>}

Frame(id, orientation) ==
    [EmptyFrame EXCEPT !.m_FrameID = id, !.m_FramePeriod = 4, !.m_AxisOrientation = orientation]

---------------------------------------------------------------------------

Segment(id, name, parentID) == [m_SegmentID |-> id, m_Name |-> <<name>>, m_ParentID |-> parentID]

\* The hand comes before its parent, and two segments have the same one.
Segments == << Segment(4, "Hand", 2), Segment(1, "Upper", 0), Segment(2, "Lower", 1),
               Segment(3, "Elbow", 1) >>

Arm(id, name) ==
    [m_Name |-> <<name>>, m_SubjectID |-> id, m_Segments |-> Segments,
     m_Markers |-> << [m_Name |-> <<"ELB">>, m_MarkerID |-> 1] >>,
     m_Attachments |-> << [m_SegmentID |-> 3, m_MarkerID |-> 1] >>]

\* A subject of markers only.
Wand == [m_Name |-> <<"Wand">>, m_SubjectID |-> 9, m_Segments |-> <<>>, m_Markers |-> <<>>,
         m_Attachments |-> <<>>]

Helical == (1 :> <<1, 0, 0>>) @@ (2 :> <<0, 2, 0>>) @@ (3 :> <<0, 0, 3>>) @@ (4 :> <<0, -1, 0>>)

LocalPose(id) ==
    [m_SegmentID |-> id, m_Translation |-> <<id, 2, 5 - id>>, m_Rotation |-> Helical[id]]

\* Poses as a server works them out, the root turned by R.
Moved(R) == [LocalPose(1) EXCEPT !.m_Rotation = R]
Local(p) == [p EXCEPT !.m_Rotation = HelicalToMatrix(@)]
Child(parent, p) == [m_SegmentID |-> p.m_SegmentID,
                     m_Translation |-> Plus(parent.m_Translation,
                                            Apply(parent.m_Rotation, p.m_Translation)),
                     m_Rotation |-> Times(parent.m_Rotation, HelicalToMatrix(p.m_Rotation))]

Posed(id, orientation, R) ==
    LET lower == Child(Moved(R), LocalPose(2))
    IN  [Frame(id, orientation) EXCEPT
            !.m_Subjects = << Arm(1, "Arm") >>,
            !.m_LocalSegments = << [m_SubjectID |-> 1, m_Segments |->
                << Moved(R), Local(LocalPose(2)), Local(LocalPose(3)), Local(LocalPose(4)) >>] >>,
            !.m_GlobalSegments = << [m_SubjectID |-> 1, m_Segments |->
                << Moved(R), lower, Child(Moved(R), LocalPose(3)),
                   Child(lower, LocalPose(4)) >>] >>,
            !.m_LabeledRecons = << [m_SubjectID |-> 1, m_MarkerID |-> 1,
                                    m_Position |-> <<1, 2, 3>>] >>,
            !.m_Cameras = << [m_Name |-> <<"Cam">>, m_CameraID |-> 1, m_DisplayType |-> <<"T40">>],
                             [m_Name |-> <<"Cam">>, m_CameraID |-> 2, m_DisplayType |-> <<"T40">>],
                             [m_Name |-> <<>>, m_CameraID |-> 3, m_DisplayType |-> <<"Cam">>] >>,
            !.m_CameraCalibrations =
                << [m_CameraID |-> 1, m_PoseRotation |-> R, m_FocalLength |-> 11] >>,
            !.m_DynamicCameraCalibrationInfo =
                << [m_CameraID |-> 3, m_PoseRotation |-> R, m_FocalLength |-> 13],
                   [m_CameraID |-> 8, m_PoseRotation |-> R, m_FocalLength |-> 18] >>]

\* Lightweight segments of two arms with a wand between them; one pose of the second may be
\* missing.
Light(id, orientation, sent) ==
    [Frame(id, orientation) EXCEPT
        !.m_Subjects = << Arm(1, "Left"), Arm(2, "Right"), Wand, Arm(3, "Third") >>,
        !.m_LightweightSegments =
            << [m_SubjectID |-> 1, m_Segments |-> [n \in 1..4 |-> LocalPose(n)]],
               [m_SubjectID |-> 2, m_Segments |-> [n \in 1..sent |-> LocalPose(n)]],
               [m_SubjectID |-> 3, m_Segments |-> [n \in 1..4 |-> LocalPose(n)]] >>]

---------------------------------------------------------------------------

Channel(deviceID, id, name, components) ==
    [m_Name |-> name, m_DeviceID |-> deviceID, m_ChannelID |-> id,
     m_ComponentNames |-> components]

\* n samples for each of the components in a device frame; a value tells its component and sample.
DeviceFrame(deviceID, channelID, frameID, n, components) ==
    [m_FrameID |-> frameID, m_DeviceID |-> deviceID, m_ChannelID |-> channelID,
     m_Samples |-> [x \in 1..n * components |->
                        1000 * channelID + 100 * ((x - 1) \div n) + frameID * n + ((x - 1) % n)]]

\* The frames of a device of a period of 6 with n samples each that overlap the frame.
Overlapping(id, start, n, deviceID, channelID, components) ==
    SetToSortSeq({DeviceFrame(deviceID, channelID, k, n, components) :
                    k \in {j \in 0..9 : /\ start + 6 * j < 4 * id + 4
                                        /\ start + 6 * j + 6 > 4 * id}},
                 LAMBDA d, e : d.m_FrameID < e.m_FrameID)

Measured(id, orientation, start, n) ==
    [Frame(id, orientation) EXCEPT
        !.m_Devices = << [m_FramePeriod |-> 6, m_Name |-> <<"Plate">>, m_DeviceID |-> 1],
                         [m_FramePeriod |-> 6, m_Name |-> <<>>, m_DeviceID |-> 2] >>,
        !.m_DevicesExtra = << [m_DeviceID |-> 1, m_FrameStartTick |-> start],
                              [m_DeviceID |-> 2, m_FrameStartTick |-> start] >>,
        !.m_Channels = << Channel(1, 1, <<"Force">>, << <<"Fx">>, <<"Fy">>, <<"Fz">> >>),
                          Channel(1, 2, <<"Moment">>, << <<"Mx">>, <<"My">>, <<"Mz">> >>),
                          Channel(1, 3, <<"CoP">>, << <<"Cx">>, <<"Cy">>, <<"Cz">> >>),
                          Channel(2, 4, <<"EMG">>, << <<"A">>, <<>> >>),
                          Channel(2, 5, <<"Aux">>, << <<"B">>, <<>> >>) >>,
        !.m_Forces = Overlapping(id, start, n, 1, 1, 3),
        !.m_Moments = Overlapping(id, start, n, 1, 2, 3),
        !.m_CentresOfPressure = Overlapping(id, start, n, 1, 3, 3),
        !.m_Voltages = Overlapping(id, start, n, 2, 4, 2) \o Overlapping(id, start, n, 2, 5, 2)]

\* Frames in which a mapping, a rotation or a place of the samples is of a kind of its own.
AllFrames ==
    {Posed(5, "EZUp", R) : R \in Turns}
        \cup {Posed(5, "EYUp", Transform(axes)) : axes \in {ZUpAxes, <<"Backward", "Up", "Left">>}}
        \cup {Light(6, "EZUp", 4), Light(6, "EYUp", 4), Light(6, "None", 3)}
        \cup {Measured(id, "EZUp", lie[1], lie[2]) :
                id \in 0..3, lie \in {<<0, 1>>, <<1, 2>>, <<5, 3>>}}
        \cup {Measured(2, "EYUp", 1, 3)}

\* At most one call finds no connection.
OneCall(calls) == {{}} \cup {{call} : call \in calls}

\* A name that nothing has.
Nobody == { <<"Nobody">> }

FewFrames == {Measured(2, "EZUp", 0, 2), Light(6, "EZUp", 4), Posed(5, "EYUp", UnitRotation)}
=============================================================================
