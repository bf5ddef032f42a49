--------------------------- MODULE MCGhidraImageRun ---------------------------
EXTENDS GhidraImageRun

AllLines == {"repair", "flood", "bad"}
NoLines  == {}
=============================================================================
