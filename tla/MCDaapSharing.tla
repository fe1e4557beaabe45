----------------------------- MODULE MCDaapSharing -----------------------------
EXTENDS DaapSharing

CONSTANTS o1, o2, s1, s2

=============================================================================
