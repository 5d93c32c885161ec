--------------------------- MODULE MCServerBusiness ---------------------------
EXTENDS ServerBusiness

CONSTANTS r1, r2

\* Bound of the run: one request may be to a handler in both wrappers, and the other to
\* one in either.
MCStyles == [r \in Requests |-> IF r = r1 THEN {"raw", "nested"} ELSE {"raw", "wrap", "object"}]
=============================================================================
