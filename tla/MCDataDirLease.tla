--------------------------- MODULE MCDataDirLease ---------------------------
EXTENDS DataDirLease

CONSTANTS p1, p2, p3
=============================================================================
