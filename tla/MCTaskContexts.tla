---------------------------- MODULE MCTaskContexts ----------------------------
\* Small instances of TaskContexts for TLC.
EXTENDS TaskContexts

CONSTANTS t1, t2, c1, c2, s1
=============================================================================
