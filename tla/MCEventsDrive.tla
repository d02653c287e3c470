---------------------------- MODULE MCEventsDrive ----------------------------
EXTENDS EventsDrive
=============================================================================
