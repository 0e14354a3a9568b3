--------------------------- MODULE MCSynchronizer ---------------------------
(***************************************************************************)
(* Three peers, one of which answers what it is asked.                     *)
(***************************************************************************)
EXTENDS Synchronizer

CONSTANTS good, bad1, bad2
=============================================================================
