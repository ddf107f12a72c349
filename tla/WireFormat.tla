---------------------------- MODULE WireFormat -----------------------------
(***************************************************************************)
(* A packet on its way through the buffers: VScopedWriter writes a block   *)
(* for each object into a VBuffer, and the loop of ReadObjects (or of      *)
(* ReadObjectEnums) takes them out again with VScopedReader, object by     *)
(* object.                                                                 *)
(*                                                                         *)
(* The two ends may be of different versions. An end that is newer knows   *)
(* types that the other does not, or has members at the end of a record    *)
(* that the other does not. The buffer is a table from offsets to the      *)
(* scalar, or the array of scalars, that was written there; reading so     *)
(* many bytes at an offset gives it if one of this width starts there, and *)
(* junk otherwise.                                                         *)
(***************************************************************************)
EXTENDS WireRecords, FiniteSets, SequencesExt, TLC

CONSTANTS
    Readers,    \* which loops read: a subset of DOMAIN Handles
    Sizes,      \* numbers of elements that a vector, a map or a string may have
    JunkCount,  \* the number of elements read where no number was written
    Datagram    \* how much longer the buffer of a datagram is than the packet in it

ASSUME WireAssumption ==
    /\ Readers \subseteq {"ReadObjects", "Multicast", "ReadObjectEnums", "Server"}
    /\ Sizes \subseteq Nat
    /\ JunkCount \in Nat
    /\ Datagram \in Nat

VARIABLES
    reader,     \* who reads this packet
    packet,     \* the objects that were written: type, version of the writer, sizes
    m_Buffer,   \* the bytes: a length and the scalars at their offsets
    m_Offset,   \* how far they are read
    objects,    \* the objects read so far, member by member
    status      \* "reading", "done", or "failed": the loop returns false

vars == <<reader, packet, m_Buffer, m_Offset, objects, status>>

Types == {i.type : i \in Items}

ItemOf == [type \in Types |-> CHOOSE i \in Items : i.type = type]

---------------------------------------------------------------------------
(* Writing.                                                                *)

\* WritePod and WritePodArray grow the buffer and put what they write behind what is there. What
\* it is of: the object, the members and the indices that lead to it. Its value counts only for
\* headers and numbers of elements.
WritePod(b, of, width, value) ==
    IF width = 0 THEN b
    ELSE [length |-> b.length + width,
          at |-> (b.length :> [of |-> of, width |-> width, value |-> value]) @@ b.at]

\* VBuffer::Write of a member, with n elements in whatever has many. Scalars that stand together
\* are written together.
RECURSIVE Write(_, _, _, _), WriteEach(_, _, _, _, _, _), WriteMembers(_, _, _, _)
Write(b, kind, of, n) ==
    CASE kind.kind = "scalar" -> WritePod(b, of, kind.width, 0)
      [] kind.kind = "array"  -> WriteEach(b, kind.of, of, 1, kind.n, n)
      [] kind.kind = "class"  -> WriteMembers(b, kind.members, of, n)
      [] kind.kind = "many"   -> WriteEach(WritePod(b, Append(of, 0), 4, n), kind.of, of, 1, n, n)

WriteEach(b, kind, of, i, last, n) ==
    IF kind.kind = "scalar" THEN WritePod(b, of, kind.width * last, 0)
    ELSE IF i > last THEN b
    ELSE WriteEach(Write(b, kind, Append(of, i), n), kind, of, i + 1, last, n)

WriteMembers(b, members, of, n) ==
    IF members = <<>> THEN b
    ELSE WriteMembers(Write(b, Head(members)[2], Append(of, Head(members)[1]), n),
                      Tail(members), of, n)

Empty == [length |-> 0, at |-> <<>>]

HeaderSize == 8

\* What stands in a block header; a type that has no record here is of a later version.
Id(type) == IF type \in DOMAIN ViconCGStreamEnum THEN ViconCGStreamEnum[type] ELSE 90001

\* The constructor of VScopedWriter writes a header, its destructor fills the length in.
OpenBlock(b, j, type) == WritePod(WritePod(b, <<j, "Enum">>, 4, Id(type)), <<j, "Length">>, 4, 0)

CloseBlock(b, start) == [b EXCEPT !.at[start + 4].value = b.length - (start + HeaderSize)]

\* The members that a writer of another version has.
Members(o) ==
    CASE o.type \notin Types    -> << <<"Unknown", UInt32>> >>
      [] o.version = "same"     -> ItemOf[o.type].wrote
      [] o.version = "newer"    -> Append(ItemOf[o.type].wrote, <<"Added", UInt32>>)
      [] o.version = "older"    -> Front(ItemOf[o.type].wrote)

\* VScopedWriter::Write, object by object.
RECURSIVE WriteObjects(_, _, _)
WriteObjects(b, p, j) ==
    IF j > Len(p) THEN b
    ELSE LET block == Write(OpenBlock(b, j, p[j].type), Class(Members(p[j])), <<j>>, p[j].size)
         IN  WriteObjects(CloseBlock(block, b.length), p, j + 1)

Packed(p) == CloseBlock(WriteObjects(OpenBlock(Empty, 0, "Objects"), p, 1), 0)

---------------------------------------------------------------------------
(* Reading.                                                                *)

\* Mutant: the last byte counts as missing.
FitsStrictly(off, width) == off + width < m_Buffer.length

Fits(off, width) == off + width <= m_Buffer.length

Aligned(off, width) == off \in DOMAIN m_Buffer.at /\ m_Buffer.at[off].width = width

\* VBufferImpl::ReadPod, ReadPodArray: nothing is read where the buffer ends before it does.
\* r.got has for each member read what was found there.
ReadPod(r, width, of) ==
    IF ~r.ok \/ ~Fits(r.off, width)
    THEN [r EXCEPT !.ok = FALSE]
    ELSE [off |-> r.off + width, ok |-> TRUE,
          got |-> Append(r.got,
                    <<of, IF Aligned(r.off, width) THEN m_Buffer.at[r.off].of ELSE <<"junk">> >>)]

\* The value of the scalar that ReadPod(r, 4, _) reads.
ValueAt(off) == IF Aligned(off, 4) THEN m_Buffer.at[off].value ELSE JunkCount

\* VBuffer::Read of a member, until something cannot be read.
RECURSIVE Read(_, _, _), ReadEach(_, _, _, _, _), ReadMembers(_, _, _)
Read(r, kind, of) ==
    CASE kind.kind = "scalar" -> ReadPod(r, kind.width, of)
      [] kind.kind = "array"  -> ReadEach(r, kind.of, of, 1, kind.n)
      [] kind.kind = "class"  -> ReadMembers(r, kind.members, of)
      [] kind.kind = "many"   ->
            ReadEach(ReadPod(r, 4, Append(of, 0)), kind.of, of, 1, ValueAt(r.off))

ReadEach(r, kind, of, i, n) ==
    IF r.ok /\ kind.kind = "scalar" THEN (IF n = 0 THEN r ELSE ReadPod(r, kind.width * n, of))
    ELSE IF ~r.ok \/ i > n THEN r
    ELSE ReadEach(Read(r, kind, Append(of, i)), kind, of, i + 1, n)

ReadMembers(r, members, of) ==
    IF ~r.ok \/ members = <<>> THEN r
    ELSE ReadMembers(Read(r, Head(members)[2], Append(of, Head(members)[1])), Tail(members), of)

\* The cases of ReadObjects.
Cases == Types \ {"ApexHaptics", "CameraTimingInfo", "Filter", "KeepAlive", "ObjectEnums",
                  "RequestFrame", "RequestNextFrame", "StartMulticastSender",
                  "StopMulticastSender", "UnlabeledReconRayAssignments"}

\* Which types each loop reads; Server is who reads what the client writes.
Handles == [ReadObjects |-> Cases, Multicast |-> Cases, ReadObjectEnums |-> {"ObjectEnums"},
            Server |-> {"ApexHaptics", "Filter", "ObjectEnums", "Ping", "RequestFrame",
                        "RequestNextFrame", "StartMulticastSender", "StopMulticastSender"}]

\* Objects.Ok(): the block of the packet does not end yet.
Ok == m_Offset < HeaderSize + m_Buffer.at[4].value

\* The block header at m_Offset: its type, if the reader has a case for it, and its length.
HeaderRead == ReadPod(ReadPod([off |-> m_Offset, ok |-> TRUE, got |-> <<>>], 4, <<>>), 4, <<>>)

TypeRead ==
    {t \in Handles[reader] : HeaderRead.ok /\ Aligned(m_Offset, 4) /\ ValueAt(m_Offset) = Id(t)}

\* Mutant: the destructor leaves the offset alone.
BlockEndAsRead(off) == off

\* Where ~VScopedReader puts the offset: behind the block, if the block has a length.
BlockEnd(off) ==
    LET length == ValueAt(m_Offset + 4)
    IN  IF HeaderRead.ok /\ length > 0 THEN m_Offset + HeaderSize + length ELSE off

---------------------------------------------------------------------------
(* The packets, and the loop.                                              *)

Object(type, version, size) == [type |-> type, version |-> version, size |-> size]

\* What a packet for a reader may have in it: what it reads, from a writer of any version (one
\* that is older has fewer members, but some), and something it does not know.
ObjectsFor(r) ==
    {Object("Later", "newer", 1)}
    \cup {Object(t, v, n) : t \in Handles[r], v \in {"same", "newer"}, n \in Sizes}
    \cup {Object(t, "older", n) : t \in {u \in Handles[r] : Len(ItemOf[u].wrote) > 1}, n \in Sizes}

\* What comes behind it: nothing, an object that is always read alike, or an unknown one.
Followers(r) ==
    {<<>>, <<Object("Later", "newer", 1)>>}
    \cup {<<Object(t, "same", 1)>> : t \in {"FrameInfo", "Ping"} \cap Handles[r]}

Init ==
    /\ reader \in Readers
    /\ \E o \in ObjectsFor(reader), rest \in Followers(reader) : packet = <<o>> \o rest
    \* VCGStreamReaderWriter::Fill: from a socket exactly the packet, but a buffer of 64K that
    \* has a datagram at its beginning.
    /\ m_Buffer = IF reader = "Multicast" THEN [Packed(packet) EXCEPT !.length = @ + Datagram]
                                          ELSE Packed(packet)
    /\ m_Offset = HeaderSize
    /\ objects = <<>>
    /\ status = "reading"

\* One round of the loop: an object is read by the layout of its type, or skipped; what is left
\* of its block is skipped too. ReadObjectEnums returns with the first it finds.
ReadObject ==
    /\ status = "reading"
    /\ Ok
    /\ LET r == IF TypeRead = {} THEN HeaderRead
                ELSE LET type == CHOOSE t \in TypeRead : TRUE
                     IN  Read([HeaderRead EXCEPT !.got = <<>>], Class(ItemOf[type].reads),
                              <<Len(objects) + 1>>)
       IN  IF TypeRead # {} /\ ~r.ok
           THEN /\ status' = "failed"
                /\ UNCHANGED <<m_Offset, objects>>
           ELSE /\ m_Offset' = BlockEnd(r.off)
                /\ objects' = Append(objects, IF TypeRead = {} THEN <<>> ELSE r.got)
                /\ status' = IF TypeRead # {} /\ reader = "ReadObjectEnums" THEN "done"
                                                                            ELSE status
    /\ UNCHANGED <<reader, packet, m_Buffer>>

\* The loop ends: with true, but ReadObjectEnums has not found what it looks for.
ReadEnds ==
    /\ status = "reading"
    /\ ~Ok
    /\ status' = IF reader = "ReadObjectEnums" THEN "failed" ELSE "done"
    /\ UNCHANGED <<reader, packet, m_Buffer, m_Offset, objects>>

Next == ReadObject \/ ReadEnds

Spec == Init /\ [][Next]_vars

---------------------------------------------------------------------------
(* What must hold.                                                         *)

SameOrNewer(o) == o.type \in Handles[reader] /\ o.version # "older"

\* Every member of every object that was written by the same or a later version holds what was
\* written for it (the pairs Read and Write of the records), whatever stands before the object:
\* an object of a type or with members this end does not know, or one with fewer members, whose
\* reading runs into the blocks behind it.
ReadAsWritten ==
    \A j \in 1..Len(objects) : SameOrNewer(packet[j]) =>
        LET b == Write(Empty, Class(ItemOf[packet[j].type].wrote), <<j>>, packet[j].size)
            written == {b.at[off].of : off \in DOMAIN b.at}
        IN  ToSet(objects[j]) = {<<of, of>> : of \in written}

\* Between two objects the loop stands where the writer began a block: it neither falls behind
\* nor runs ahead over a record of another version (~VScopedReader).
AtABlock ==
    status = "reading" =>
        IF Len(objects) < Len(packet)
        THEN m_Buffer.at[m_Offset].of = <<Len(objects) + 1, "Enum">>
        ELSE ~Ok

\* A packet without objects of an earlier version never ends the thread that reads it (a return
\* of false in ReadObjects does): what is newer is skipped, up to the last byte of the packet.
NewerIsRead ==
    (\A j \in 1..Len(packet) : packet[j].version # "older")
        => (status = "failed" => reader = "ReadObjectEnums"
                                    /\ \A j \in 1..Len(packet) : packet[j].type # "ObjectEnums")
=============================================================================
