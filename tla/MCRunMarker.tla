---------------------------- MODULE MCRunMarker ----------------------------
(* A small instance of RunMarker for TLC. *)
EXTENDS RunMarker
=============================================================================
