--------------------------- MODULE MCWireFormat ----------------------------
(* Every record, on its own and with another behind it, from writers of    *)
(* three versions.                                                         *)
EXTENDS WireFormat

MCSizes == 0..2
=============================================================================
