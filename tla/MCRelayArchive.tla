--------------------------- MODULE MCRelayArchive ---------------------------
EXTENDS RelayArchive
=============================================================================
