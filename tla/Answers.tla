------------------------------ MODULE Answers -------------------------------
(***************************************************************************)
(* What getters answer, at each of the three layers: VClient and           *)
(* VRetimingClient, the C++ interface, the C interface.                    *)
(*                                                                         *)
(* An answer is the result, the occluded flag and the outputs, which are   *)
(* cleared unless the result is Success. Names are sequences, <<>> the     *)
(* empty one, since some are put together from a name and an ID. Indices   *)
(* count from 0.                                                           *)
(***************************************************************************)
EXTENDS Integers, Sequences, SequencesExt

Answer(out) == [result |-> "Success", occluded |-> FALSE, out |-> out]

Occluded == [result |-> "Success", occluded |-> TRUE, out |-> <<>>]

Refuse(result) == [result |-> result, occluded |-> FALSE, out |-> <<>>]

Given(answer) == answer.result = "Success"

Seen(answer) == answer.result = "Success" /\ ~answer.occluded

\* What Then makes of the first element of s that passes Test, or an answer if none does.
WithFirst(s, Test(_), Then(_), otherwise) ==
    LET i == SelectInSeq(s, Test)
    IN  IF i = 0 THEN otherwise ELSE Then(s[i])

\* The element at an index.
WithIndex(s, i, Then(_)) == IF i >= Len(s) THEN Refuse("InvalidIndex") ELSE Then(s[i + 1])

\* The other three forms of a rotation are made of the matrix.
InForm(Form(_), matrix) == IF Seen(matrix) THEN [matrix EXCEPT !.out = Form(@)] ELSE matrix

---------------------------------------------------------------------------
(* The C++ interface has types of its own for results, units and the like. *)

\* The results that Adapt has a case for; each stands for itself but NullClient.
AdaptedResults ==
    {"Unknown", "NotImplemented", "Success", "InvalidHostName", "InvalidMulticastIP", "NullClient",
     "ClientAlreadyConnected", "ClientConnectionFailed", "ServerAlreadyTransmittingMulticast",
     "ServerNotTransmittingMulticast", "NotConnected", "NoFrame", "InvalidIndex",
     "InvalidCameraName", "InvalidSubjectName", "InvalidSegmentName", "InvalidMarkerName",
     "InvalidDeviceName", "InvalidDeviceOutputName", "InvalidLatencySampleName", "CoLinearAxes",
     "LeftHandedAxes", "HapticAlreadySet", "EarlyDataRequested", "LateDataRequested",
     "InvalidOperation", "NotSupported", "ConfigurationFailed", "NotPresent"}

\* For another result an assertion fails; built without assertions it is Unknown.
Adapt(result) ==
    IF result = "NullClient" THEN "NotSupported"
    ELSE IF result \in AdaptedResults THEN result ELSE "Unknown"

\* Units, device types, time code standards and orientations are the same on both sides.
Adapted(answer) == [answer EXCEPT !.result = Adapt(@)]

---------------------------------------------------------------------------
(* The C interface writes a name into a buffer of the caller, who gives    *)
(* its size. A name is a sequence of pieces, and a buffer holds as many    *)
(* pieces less one as its size says, which is the place of the zero.       *)

\* Mutant: as strncpy, with room for one piece less.
SnprintfShort(name, size) == SubSeq(name, 1, Min({Len(name), Max({size - 2, 0})}))

\* snprintf( outstr, sizeOfBuffer, "%s", ... ): what does not fit is cut off, and nobody is told.
Snprintf(name, size) == SubSeq(name, 1, Min({Len(name), Max({size - 1, 0})}))

Text(answer, size) == [answer EXCEPT !.out = Snprintf(@, size)]

TextIn(field, answer, size) ==
    IF Given(answer) THEN [answer EXCEPT !.out[field] = Snprintf(@, size)] ELSE answer
=============================================================================
