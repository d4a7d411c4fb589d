--------------------------- MODULE MCChannelRuntime ---------------------------
EXTENDS ChannelRuntime

=============================================================================
