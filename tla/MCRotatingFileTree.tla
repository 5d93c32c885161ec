------------------------- MODULE MCRotatingFileTree -------------------------
\* Instances of RotatingFileTree for TLC; the constants are small numbers that
\* the configurations give directly.
EXTENDS RotatingFileTree
=============================================================================
