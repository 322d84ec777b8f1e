--------------------------- MODULE MCOfficialCycle ---------------------------
EXTENDS OfficialCycle, TLC

\* Watch: three opportunities and no risk.  Collapse: the same opportunities with a
\* risk that suppresses them.  Alternating them opens and resolves both event kinds.
Watch == [health |-> "HEALTHY", fitness |-> "FIT", facts |-> Codes,
          met |-> {"EARLY_ACTIVITY_PPM", "HEALTHY_BREADTH_PPM", "LOW_CROWDING_PPM"}]
Collapse == [Watch EXCEPT !.met = @ \cup {"RISE_RATE_PPM", "BREADTH_COLLAPSE_PPM"},
                          !.health = "DEGRADED"]

MCEvidence == {Watch, Collapse}
==============================================================================
