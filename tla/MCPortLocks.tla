----------------------------- MODULE MCPortLocks -----------------------------
EXTENDS PortLocks, TLC

MCHarts == 0..2
==============================================================================
