----------------------------- MODULE MCNotifier -----------------------------
(* A small instance of Notifier for TLC. *)
EXTENDS Notifier
=============================================================================
