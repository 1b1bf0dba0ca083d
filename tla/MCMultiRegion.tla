--------------------------- MODULE MCMultiRegion ---------------------------
EXTENDS MultiRegion

SomeCounts == {-1, 0, 1, 2, 4}

SomeSpacings == {-1, 0, 1, 2}
=============================================================================
