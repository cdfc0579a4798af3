------------------------------ MODULE MCRecovery ------------------------------
EXTENDS Recovery

CONSTANTS r1, r2, r3

MCReplicas == {r1, r2, r3}
===============================================================================
