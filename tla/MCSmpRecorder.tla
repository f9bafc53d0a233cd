---------------------------- MODULE MCSmpRecorder ----------------------------
EXTENDS SmpRecorder

MCHarts == 0..1
==============================================================================
