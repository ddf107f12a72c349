------------------------------ MODULE MCCGClient ------------------------------
(***************************************************************************)
(* Instances of CGClient for TLC; the cfg files name the model values.     *)
(* NoFrame is far above every frame ID, as UInt32( -1 ) is in practice.    *)
(* Positions in the stream and frame IDs differ after a reboot only.       *)
(***************************************************************************)
EXTENDS CGClient
=============================================================================
