---- MODULE MCRecovery ----
\* Model values for Recovery.
EXTENDS Recovery, TLC
====
