---------------------------- MODULE MCKalshiFeed ----------------------------
EXTENDS KalshiFeed

=============================================================================
