----------------------------- MODULE MCService -----------------------------
(***************************************************************************)
(* An instance of the way of a video through the service for TLC.          *)
(***************************************************************************)
EXTENDS ServiceProperties

CONSTANTS v1, v2, blockA, blockB

=============================================================================
