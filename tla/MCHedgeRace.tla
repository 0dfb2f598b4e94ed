---------------------------- MODULE MCHedgeRace ----------------------------
EXTENDS HedgeRace, TLC

CONSTANTS p1, p2, p3, o

AllClaimants == Providers \cup Others
=============================================================================
