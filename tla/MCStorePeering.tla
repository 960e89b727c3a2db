--------------------------- MODULE MCStorePeering ---------------------------
EXTENDS StorePeering
=============================================================================
