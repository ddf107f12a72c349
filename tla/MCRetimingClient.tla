--------------------------- MODULE MCRetimingClient ---------------------------
(***************************************************************************)
(* Instances of RetimingClient for TLC; the cfg files name the waiters.    *)
(***************************************************************************)
EXTENDS RetimingClient
=============================================================================
