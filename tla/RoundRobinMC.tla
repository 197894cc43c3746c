------------------------------ MODULE RoundRobinMC ------------------------------
EXTENDS RoundRobinTurns

CONSTANTS a, b, c

ThreeBackends == <<a, b, c>>
=============================================================================
