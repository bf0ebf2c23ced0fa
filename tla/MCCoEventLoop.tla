--------------------------- MODULE MCCoEventLoop ---------------------------
EXTENDS CoEventLoop
=============================================================================
