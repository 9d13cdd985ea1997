--------------------------- MODULE MCBEgressQueue ---------------------------
EXTENDS BEgressQueue

MCSizes == {1, 2}
=============================================================================
