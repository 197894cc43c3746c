--------------------------- MODULE LeastConnectionsMC ---------------------------
EXTENDS LeastConnectionsTurns

CONSTANTS a, b, c

ThreeBackends == <<a, b, c>>
=============================================================================
