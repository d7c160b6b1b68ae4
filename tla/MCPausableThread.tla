--------------------------- MODULE MCPausableThread ---------------------------
EXTENDS PausableThread
=============================================================================
