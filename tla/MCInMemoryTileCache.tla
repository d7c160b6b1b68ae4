------------------------- MODULE MCInMemoryTileCache -------------------------
EXTENDS InMemoryTileCache
=============================================================================
