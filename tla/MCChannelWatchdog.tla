-------------------------- MODULE MCChannelWatchdog --------------------------
EXTENDS ChannelWatchdog
=============================================================================
