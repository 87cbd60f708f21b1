--------------------------- MODULE MCLiveFeatures ---------------------------
EXTENDS LiveFeatures

=============================================================================
