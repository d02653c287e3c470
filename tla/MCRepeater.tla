---------------------------- MODULE MCRepeater -----------------------------
EXTENDS Repeater
=============================================================================
