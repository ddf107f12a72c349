--------------------------- MODULE DeviceGetters ----------------------------
(***************************************************************************)
(* The getters of VClient that are about devices: their outputs and the    *)
(* samples of a frame, force plates and eye trackers.                      *)
(*                                                                         *)
(* A channel has components. The data of a channel comes in device frames, *)
(* which need not coincide with the frames of the system: each has its own *)
(* number and holds for every component the same number of samples, the    *)
(* samples of the first component first. Which of them belong to the       *)
(* latest frame is worked out from periods and ticks.                      *)
(***************************************************************************)
EXTENDS LatestFrame

---------------------------------------------------------------------------
(* Samples. Times are in ticks.                                            *)

GetFramePeriod(f) ==
    [first  |-> f.m_FramePeriod * f.m_FrameID,
     second |-> f.m_FramePeriod * f.m_FrameID + f.m_FramePeriod]

\* Mutant: rounded down, so that a sample begun before the frame counts to it.
GetNextSampleIndexDown(tick, sampleTick, samplePeriod) ==
    IF tick < sampleTick THEN 0 ELSE (tick - sampleTick) \div samplePeriod

\* The index of the first sample that does not begin before tick, if sample 0 begins at sampleTick.
GetNextSampleIndex(tick, sampleTick, samplePeriod) ==
    IF tick < sampleTick THEN 0 ELSE (tick - sampleTick + samplePeriod - 1) \div samplePeriod

GetSamplesInFrame(period, sampleTick, samplePeriod) ==
    GetNextSampleIndex(period.second, sampleTick, samplePeriod)
        - GetNextSampleIndex(period.first, sampleTick, samplePeriod)

\* SampleIndexInRange: where in device frame d, with n samples, sample i of a frame is. It is there
\* if this is in 0..n-1.
SubSample(i, d, n, samplePeriod, sampleTick, period) ==
    i + GetNextSampleIndex(period.first, sampleTick, samplePeriod) - d.m_FrameID * n

GetDevicePeriod(f, deviceID) ==
    LET i == SelectInSeq(f.m_Devices, LAMBDA d : d.m_DeviceID = deviceID)
    IN  IF i = 0 THEN 0 ELSE f.m_Devices[i].m_FramePeriod

GetDeviceStartTick(f, deviceID) ==
    LET i == SelectInSeq(f.m_DevicesExtra, LAMBDA d : d.m_DeviceID = deviceID)
    IN  IF i = 0 THEN 0 ELSE f.m_DevicesExtra[i].m_FrameStartTick

\* Sample i of the latest frame, a value for each of n components: of the device frames that are Of
\* the channel, the first that has it, or that is no frame to read from (Wrong), or that can say
\* that i is out of range.
SampleFrom(frames, Of(_), Wrong(_), deviceID, n, i, none) ==
    LET period == GetFramePeriod(m_LatestFrame)
        start == GetDeviceStartTick(m_LatestFrame, deviceID)
        stride(d) == Len(d.m_Samples) \div n
        samplePeriod(d) == GetDevicePeriod(m_LatestFrame, deviceID) \div stride(d)
        beyond(d) == i >= GetSamplesInFrame(period, start, samplePeriod(d))
        at(d) == SubSample(i, d, stride(d), samplePeriod(d), start, period)
    IN  WithFirst(frames,
                  LAMBDA d : Of(d) /\ (Wrong(d) \/ beyond(d) \/ at(d) \in 0..stride(d) - 1),
                  LAMBDA d : IF Wrong(d) THEN Refuse("Unknown")
                             ELSE IF beyond(d) THEN Refuse("InvalidIndex")
                             ELSE Answer([c \in 1..n |-> d.m_Samples[(c - 1) * stride(d)
                                                                        + at(d) + 1]]),
                  none)

---------------------------------------------------------------------------
(* Devices and channels.                                                   *)

AdaptDeviceName(d) == IF d.m_Name = <<>> THEN <<"Unnamed Device", d.m_DeviceID>> ELSE d.m_Name

\* For an output, the number of which counts from 0.
AdaptDeviceOutputName(name, i) ==
    IF name = <<>> THEN <<"Unnamed Device Output", i + 1>> ELSE name

IsForcePlateForceChannel(c) == c.m_ComponentNames = << <<"Fx">>, <<"Fy">>, <<"Fz">> >>

IsForcePlateMomentChannel(c) == c.m_ComponentNames = << <<"Mx">>, <<"My">>, <<"Mz">> >>

IsForcePlateCoPChannel(c) == c.m_ComponentNames = << <<"Cx">>, <<"Cy">>, <<"Cz">> >>

IsForcePlateCoreChannel(c) ==
    IsForcePlateForceChannel(c) \/ IsForcePlateMomentChannel(c) \/ IsForcePlateCoPChannel(c)

\* The indices of the channels of a device.
ChannelsOf(deviceID) ==
    {n \in DOMAIN m_LatestFrame.m_Channels : m_LatestFrame.m_Channels[n].m_DeviceID = deviceID}

CoreChannelsOf(deviceID) ==
    {n \in ChannelsOf(deviceID) : IsForcePlateCoreChannel(m_LatestFrame.m_Channels[n])}

IsForcePlateDevice(deviceID) == Cardinality(CoreChannelsOf(deviceID)) = 3

IsEyeTrackerDevice(deviceID) ==
    \E n \in DOMAIN m_LatestFrame.m_EyeTrackers :
        m_LatestFrame.m_EyeTrackers[n].m_DeviceID = deviceID

\* GetDevice, GetDeviceID.
WithDevice(device, Then(_)) ==
    WithFrame(WithFirst(m_LatestFrame.m_Devices, LAMBDA d : AdaptDeviceName(d) = device, Then,
                        Refuse("InvalidDeviceName")))

GetDeviceCount == WithFrame(Answer(Len(m_LatestFrame.m_Devices)))

GetDeviceName(i) ==
    WithFrame(WithIndex(m_LatestFrame.m_Devices, i, LAMBDA d :
        Answer([name |-> AdaptDeviceName(d),
                type |-> IF IsForcePlateDevice(d.m_DeviceID) THEN "ForcePlate"
                         ELSE IF IsEyeTrackerDevice(d.m_DeviceID) THEN "EyeTracker"
                         ELSE "Unknown"])))

\* The outputs of some channels: the channel and the component of each.
OutputsOf(channels) ==
    UNION {{n} \X DOMAIN m_LatestFrame.m_Channels[n].m_ComponentNames : n \in channels}

\* The order they are looked through: the components of one channel after those of another.
ComesBefore(o, p) == o[1] < p[1] \/ (o[1] = p[1] /\ o[2] < p[2])

\* CurrentDeviceOutputIndex.
OutputIndex(outputs, o) == Cardinality({p \in outputs : ComesBefore(p, o)})

OutputName(outputs, o) ==
    AdaptDeviceOutputName(m_LatestFrame.m_Channels[o[1]].m_ComponentNames[o[2]],
                          OutputIndex(outputs, o))

\* What Then makes of the first of some outputs.
WithFirstOutput(hits, Then(_), otherwise) ==
    IF hits = {} THEN Refuse(otherwise)
    ELSE Then(CHOOSE o \in hits : \A p \in hits : ~ComesBefore(p, o))

GetDeviceOutputCount(device) ==
    WithDevice(device, LAMBDA d : Answer(Cardinality(OutputsOf(ChannelsOf(d.m_DeviceID)))))

\* The units that Unit::Enum has; a channel has the last of those that the frame gives it.
SIUnits == {"meter", "kilogram", "second", "ampere", "kelvin", "mole", "candela", "radian",
            "steradian", "meter squared", "meter cubed", "meter per second",
            "meter per second squared", "radian per second", "radian per second squared", "hertz",
            "newton", "joule", "watt", "pascal", "lumen", "lux", "coulomb", "volt", "ohm", "farad",
            "weber", "tesla", "henry", "siemens", "becquerel", "gray", "sievert", "katal"}

UnitOf(c) ==
    IF IsForcePlateDevice(c.m_DeviceID)
    THEN CASE IsForcePlateForceChannel(c)  -> "newton"
           [] IsForcePlateMomentChannel(c) -> "newton meter"
           [] IsForcePlateCoPChannel(c)    -> "meter"
           [] OTHER                        -> "volt"
    ELSE LET i == SelectLastInSeq(m_LatestFrame.m_ChannelUnits, LAMBDA u :
                        /\ u.m_DeviceID = c.m_DeviceID
                        /\ u.m_ChannelID = c.m_ChannelID
                        /\ u.m_Unit \in SIUnits)
         IN  IF i = 0 THEN "Unknown" ELSE m_LatestFrame.m_ChannelUnits[i].m_Unit

GetDeviceOutputNameComponent(device, i) ==
    WithDevice(device, LAMBDA d :
        LET outputs == OutputsOf(ChannelsOf(d.m_DeviceID))
        IN  WithFirstOutput({o \in outputs : OutputIndex(outputs, o) = i}, LAMBDA o :
                Answer([name |-> m_LatestFrame.m_Channels[o[1]].m_Name,
                        component |-> OutputName(outputs, o),
                        unit |-> UnitOf(m_LatestFrame.m_Channels[o[1]])]),
                "InvalidIndex"))

GetDeviceOutputName(device, i) ==
    LET answer == GetDeviceOutputNameComponent(device, i)
    IN  IF Given(answer) THEN Answer([name |-> answer.out.component, unit |-> answer.out.unit])
        ELSE answer

\* The channels looked through for an output: those with its name, or all if the name is empty.
ChannelsNamed(d, output) ==
    {n \in ChannelsOf(d.m_DeviceID) :
        output = <<>> \/ m_LatestFrame.m_Channels[n].m_Name = output}

\* The first output with this component name. An output without a name has its number among the
\* outputs looked through, which is not the one that GetDeviceOutputNameComponent has for it when
\* the channels of other names have been left out.
WithOutput(channels, component, Then(_, _), otherwise) ==
    LET outputs == OutputsOf(channels)
    IN  WithFirstOutput({o \in outputs : OutputName(outputs, o) = component},
                        LAMBDA o : Then(m_LatestFrame.m_Channels[o[1]], o[2]), otherwise)

\* Where the data of a channel is, and which of it is that of the channel.
FramesFor(f, c) ==
    CASE IsForcePlateForceChannel(c)  -> f.m_Forces
      [] IsForcePlateMomentChannel(c) -> f.m_Moments
      [] IsForcePlateCoPChannel(c)    -> f.m_CentresOfPressure
      [] OTHER                        -> f.m_Voltages

IsDataOf(c, d) ==
    /\ d.m_DeviceID = c.m_DeviceID
    /\ d.m_ChannelID = c.m_ChannelID
    /\ Len(d.m_Samples) >= Len(c.m_ComponentNames)

\* GetSampleCount: by the first device frame; without any the count is 0 and the output occluded.
\* A channel without components ends the search with NoFrame.
GetDeviceOutputSubsamples(device, output, component) ==
    WithDevice(device, LAMBDA d :
        LET channels == ChannelsNamed(d, output)
            empty == {n \in channels : m_LatestFrame.m_Channels[n].m_ComponentNames = <<>>}
        IN  WithOutput({n \in channels : \A e \in empty : n < e}, component,
                LAMBDA c, k :
                    WithFirst(FramesFor(m_LatestFrame, c), LAMBDA data : IsDataOf(c, data),
                        LAMBDA data :
                            LET n == Len(data.m_Samples) \div Len(c.m_ComponentNames)
                                start == GetDeviceStartTick(m_LatestFrame, d.m_DeviceID)
                            IN  Answer(GetSamplesInFrame(GetFramePeriod(m_LatestFrame), start,
                                                         d.m_FramePeriod \div n)),
                        Occluded),
                IF empty = {} THEN "InvalidDeviceOutputName" ELSE "NoFrame"))

\* The vector that a channel of a force plate has is transformed as a whole.
GetDeviceOutputValueAt(device, output, component, i) ==
    WithDevice(device, LAMBDA d :
        WithOutput(ChannelsNamed(d, output), component, LAMBDA c, k :
            LET samples == SampleFrom(FramesFor(m_LatestFrame, c), LAMBDA data : IsDataOf(c, data),
                                      LAMBDA data : FALSE, d.m_DeviceID,
                                      Len(c.m_ComponentNames), i, Occluded)
            IN  IF ~Seen(samples) THEN samples
                ELSE Answer((IF IsForcePlateCoreChannel(c) THEN OutT(samples.out)
                             ELSE samples.out)[k]),
            "InvalidDeviceOutputName"))

GetDeviceOutputValue(device, output, component) ==
    GetDeviceOutputValueAt(device, output, component, 0)

---------------------------------------------------------------------------
(* Force plates.                                                           *)

\* The indices of the devices that are force plates.
ForcePlates ==
    {n \in DOMAIN m_LatestFrame.m_Devices :
        IsForcePlateDevice(m_LatestFrame.m_Devices[n].m_DeviceID)}

GetForcePlateCount == WithFrame(Answer(Cardinality(ForcePlates)))

GetForcePlateID(i) ==
    WithFrame(
        LET hits == {n \in ForcePlates : Cardinality({m \in ForcePlates : m < n}) = i}
        IN  IF hits = {} THEN Refuse("InvalidIndex")
            ELSE Answer(m_LatestFrame.m_Devices[Min(hits)].m_DeviceID))

WithPlate(plateID, answer) ==
    WithFrame(IF IsForcePlateDevice(plateID) THEN answer ELSE Refuse("InvalidIndex"))

\* A device frame with a number of samples that does not divide its period ends the search.
Divides(n, period) == n # 0 /\ period % n = 0

GetForcePlateSubsamples(plateID) ==
    WithPlate(plateID,
        WithFirst(m_LatestFrame.m_Forces, LAMBDA d : d.m_DeviceID = plateID, LAMBDA d :
            LET n == Len(d.m_Samples) \div 3
            IN  IF ~Divides(n, GetDevicePeriod(m_LatestFrame, plateID)) THEN Refuse("Unknown")
                ELSE Answer(GetSamplesInFrame(GetFramePeriod(m_LatestFrame),
                                              GetDeviceStartTick(m_LatestFrame, plateID),
                                              GetDevicePeriod(m_LatestFrame, plateID) \div n)),
            Refuse("Unknown")))

\* Vectors of a plate: a sample of the device frames that are Of it.
PlateSample(plateID, frames, Of(_), n, i) ==
    LET period == GetDevicePeriod(m_LatestFrame, plateID)
    IN  IF period = 0 THEN Refuse("InvalidIndex")
        ELSE SampleFrom(frames, Of, LAMBDA d : ~Divides(Len(d.m_Samples) \div n, period),
                        plateID, n, i, Refuse("Unknown"))

\* GetForcePlateVector.
PlateVector(plateID, i, frames) ==
    WithPlate(plateID, PlateSample(plateID, frames, LAMBDA d : d.m_DeviceID = plateID, 3, i))

\* Mutant: in the axes of the server.
InPlateRaw(vector) == vector

InPlate(vector) == IF Given(vector) THEN Answer(OutT(vector.out)) ELSE vector

GetForceVectorAtSample(plateID, i) == InPlate(PlateVector(plateID, i, m_LatestFrame.m_Forces))

GetMomentVectorAtSample(plateID, i) == InPlate(PlateVector(plateID, i, m_LatestFrame.m_Moments))

GetCentreOfPressureAtSample(plateID, i) ==
    InPlate(PlateVector(plateID, i, m_LatestFrame.m_CentresOfPressure))

\* What Then makes of a vector and the place of its plate (ForcePlateDeviceIndex).
InWorld(plateID, vector, Then(_, _)) ==
    IF ~Given(vector) THEN vector
    ELSE WithFirst(m_LatestFrame.m_ForcePlates, LAMBDA p : p.m_DeviceID = plateID,
                   LAMBDA p : Answer(OutT(Then(p, vector.out))), Refuse("Unknown"))

GetGlobalForceVectorAtSample(plateID, i) ==
    InWorld(plateID, PlateVector(plateID, i, m_LatestFrame.m_Forces),
            LAMBDA p, v : Apply(p.m_WorldRotation, v))

GetGlobalMomentVectorAtSample(plateID, i) ==
    InWorld(plateID, PlateVector(plateID, i, m_LatestFrame.m_Moments),
            LAMBDA p, v : Apply(p.m_WorldRotation, v))

\* The plate is given in millimetres, the centre of pressure in metres.
GetGlobalCentreOfPressureAtSample(plateID, i) ==
    InWorld(plateID, PlateVector(plateID, i, m_LatestFrame.m_CentresOfPressure),
            LAMBDA p, v : Plus(Apply(p.m_WorldRotation, v),
                               [n \in 1..3 |-> p.m_WorldTranslation[n] \div 1000]))

\* The calls without a sample are those for sample 0.
GetForceVector(plateID) == GetForceVectorAtSample(plateID, 0)
GetMomentVector(plateID) == GetMomentVectorAtSample(plateID, 0)
GetCentreOfPressure(plateID) == GetCentreOfPressureAtSample(plateID, 0)
GetGlobalForceVector(plateID) == GetGlobalForceVectorAtSample(plateID, 0)
GetGlobalMomentVector(plateID) == GetGlobalMomentVectorAtSample(plateID, 0)
GetGlobalCentreOfPressure(plateID) == GetGlobalCentreOfPressureAtSample(plateID, 0)

\* The channel of a plate that is taken for its analogue one.
WithAnalogChannel(plateID, Then(_), otherwise) ==
    WithPlate(plateID, WithFirst(m_LatestFrame.m_Channels,
                                 LAMBDA c : c.m_DeviceID = plateID /\ ~IsForcePlateCoreChannel(c),
                                 Then, Refuse(otherwise)))

GetNumberOfAnalogChannels(plateID) ==
    WithAnalogChannel(plateID, LAMBDA c : Answer(Len(c.m_ComponentNames)), "Unknown")

\* The voltages of a channel are looked up by the ID of the channel alone, whatever the device. An
\* index past the last component is not checked, and not asked for here.
GetAnalogChannelVoltageAtSample(plateID, channelIndex, i) ==
    WithAnalogChannel(plateID, LAMBDA c :
        LET samples == PlateSample(plateID, m_LatestFrame.m_Voltages,
                                   LAMBDA d : d.m_ChannelID = c.m_ChannelID,
                                   Len(c.m_ComponentNames), i)
        IN  IF Given(samples) THEN Answer(samples.out[channelIndex + 1]) ELSE samples,
        "InvalidIndex")

GetAnalogChannelVoltage(plateID, channelIndex) ==
    GetAnalogChannelVoltageAtSample(plateID, channelIndex, 0)

---------------------------------------------------------------------------
(* Eye trackers.                                                           *)

GetEyeTrackerCount == WithFrame(Answer(Len(m_LatestFrame.m_EyeTrackers)))

GetEyeTrackerID(i) ==
    WithFrame(WithIndex(m_LatestFrame.m_EyeTrackers, i, LAMBDA t : Answer(t.m_DeviceID)))

\* The last tracker with the ID, and what Then makes of it and the pose of its segment.
WithTracker(trackerID, Then(_, _)) ==
    WithFrame(
        LET n == SelectLastInSeq(m_LatestFrame.m_EyeTrackers, LAMBDA t : t.m_DeviceID = trackerID)
            t == m_LatestFrame.m_EyeTrackers[n]
        IN  IF n = 0 THEN Refuse("InvalidIndex")
            ELSE WithPoseOf(m_LatestFrame.m_GlobalSegments, t.m_SubjectID, t.m_SegmentID,
                            LAMBDA p : Then(t, p)))

GetEyeTrackerGlobalPosition(trackerID) ==
    WithTracker(trackerID, LAMBDA t, p :
        Answer(OutT(Plus(Apply(p.m_Rotation, t.m_LocalTranslation), p.m_Translation))))

\* Without an eye track the eye is closed.
GetEyeTrackerGlobalGazeVector(trackerID) ==
    WithTracker(trackerID, LAMBDA t, p :
        LET n == SelectLastInSeq(m_LatestFrame.m_EyeTracks, LAMBDA e : e.m_DeviceID = trackerID)
        IN  IF n = 0 THEN Occluded
            ELSE Answer(OutT(Apply(Times(p.m_Rotation, t.m_LocalRotation),
                                   m_LatestFrame.m_EyeTracks[n].m_GazeVector))))
=============================================================================
