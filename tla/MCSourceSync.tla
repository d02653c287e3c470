---------------------------- MODULE MCSourceSync -----------------------------
EXTENDS SourceSync
=============================================================================
