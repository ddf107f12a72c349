--------------------------- MODULE MCCGStreamClient ---------------------------
(***************************************************************************)
(* Instances of CGStreamClient for TLC.                                    *)
(***************************************************************************)
EXTENDS CGStreamClient

\* A server with everything and one with the contents only.
MCOffers == {Types, {Contents}}
=============================================================================
