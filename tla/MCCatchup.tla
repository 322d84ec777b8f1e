----------------------------- MODULE MCCatchup -----------------------------
\* Two symbols, two days of two minutes.
EXTENDS Catchup

CONSTANTS s1, s2
MCUniverse == <<s1, s2>>
=============================================================================
