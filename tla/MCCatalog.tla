----------------------------- MODULE MCCatalog -----------------------------
(***************************************************************************)
(* An instance of the table of videos for TLC.                             *)
(***************************************************************************)
EXTENDS VideoCatalog, TLC

CONSTANTS c1, c2, titleA, titleB

SymmetricClients == Permutations(Clients)

=============================================================================
