---------------------------- MODULE MCSpecFiles ----------------------------
\* Two versions, two requests at a time, two commands and two restarts.
EXTENDS SpecFiles, TLC

CONSTANTS r1, r2

MCVersions == {1, 2}
MCReader == {r1, r2}
MCSymmetry == Permutations(MCReader)
=============================================================================
