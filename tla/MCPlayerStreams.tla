--------------------------- MODULE MCPlayerStreams ---------------------------
EXTENDS PlayerStreams

=============================================================================
