---------------------------- MODULE VersionNames ----------------------------
(* What the modules of core/server/api have in common.                     *)
EXTENDS Naturals, FiniteSets

CONSTANTS
  Versions,   \* the valid version names, numbers in their sort order
  None        \* no file, no document, no registry: Go's nil

ASSUME VersionNamesAssumption ==
  Versions \subseteq Nat /\ IsFiniteSet(Versions) /\ None \notin Nat
=============================================================================
