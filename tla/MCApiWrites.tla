---- MODULE MCApiWrites ----
\* Model values for ApiWrites.
EXTENDS ApiWrites, TLC

CONSTANTS r1, q1, x
====
