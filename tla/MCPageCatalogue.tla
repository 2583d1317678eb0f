--------------------------- MODULE MCPageCatalogue ---------------------------
\* The instances of PageCatalogue that TLC checks: every page carries issue 1.
EXTENDS PageCatalogue

CONSTANTS t1, t2, f1

BakedIn == [t \in Tabs \cup Elsewhere |-> 1]
=============================================================================
