----------------------------- MODULE MCCoreClient -----------------------------
(***************************************************************************)
(* Instances of CoreClient for TLC; the cfg files name the model values.   *)
(***************************************************************************)
EXTENDS CoreClient
=============================================================================
