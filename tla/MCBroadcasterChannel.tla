------------------------ MODULE MCBroadcasterChannel ------------------------
EXTENDS BroadcasterChannel
=============================================================================
