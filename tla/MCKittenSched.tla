--------------------------- MODULE MCKittenSched ---------------------------
EXTENDS KittenSched
=============================================================================
