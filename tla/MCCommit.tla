------------------------------ MODULE MCCommit ------------------------------
(***************************************************************************)
(* Four scenes of CommitParts, each a small set of its behaviours.         *)
(*   alone       one caller, four kinds of evidence, three lifecycles      *)
(*   race        two callers of commit() with two snapshots                *)
(*   thresholds  documents of every kind, two activations                  *)
(*   pair        an official cycle between six activations                 *)
(***************************************************************************)
EXTENDS CommitParts, TLC

CONSTANTS c1, c2      \* the callers; only the first one moves alone

VARIABLE scene

\* Calm: nothing to report.  Watch: three opportunities.  Collapse: the same with a
\* risk that suppresses.  Blind: the facts are missing.
Calm == [health |-> "HEALTHY", fitness |-> "FIT", facts |-> Codes, met |-> {}]
Watch == [Calm EXCEPT !.met = {"EARLY_ACTIVITY_PPM", "HEALTHY_BREADTH_PPM", "LOW_CROWDING_PPM"}]
Collapse == [Watch EXCEPT !.met = @ \cup {"RISE_RATE_PPM", "BREADTH_COLLAPSE_PPM"},
                          !.health = "DEGRADED"]
Blind == [Calm EXCEPT !.facts = {}]

MCEvidence == {Calm, Watch, Collapse, Blind}

Race == INSTANCE AnalysisCommit WITH
  Evidence <- {Collapse}, Lifecycles <- {"OBSERVING", "STARTING"}, MaxSnapshots <- 2

(***************************************************************************)
(* The registry: three Guardian and two Scout versions, the demo's own     *)
(* pair, and a Guardian version (g3) that nobody approved.  Activation     *)
(* documents: two production pairs that share a version, one from          *)
(* fixtures, one that names a demo version, and the demo's own; and, for   *)
(* the cycle, two pairs of which no version is in both.                    *)
(***************************************************************************)
Doc(g, s, at, scope, origin) ==
  [g |-> g, s |-> s, at |-> at, scope |-> scope, origin |-> origin,
   observations |-> 20, sound |-> TRUE, replayed |-> <<g, s>>]
Documents ==
  {Doc("g1", "s1", 1, "PRODUCTION", "LIVE_SHADOW"), Doc("g1", "s2", 2, "PRODUCTION", "LIVE_SHADOW"),
   Doc("g2", "s2", 1, "PRODUCTION", "FIXTURE"), Doc("gd", "s1", 1, "PRODUCTION", "LIVE_SHADOW"),
   Doc("gd", "sd", 1, "DEMO", "DEMO_FIXTURE")}
Disjoint == {Doc("g1", "s1", 1, "PRODUCTION", "LIVE_SHADOW"), Doc("g2", "s2", 1, "PRODUCTION", "LIVE_SHADOW")}
MCDocument == Documents \cup Disjoint

\* s2 has been replayed and waits for its shadow report.
MCGuardian == {"g1", "g2", "g3", "gd"}
MCScout == {"s1", "s2", "sd"}
MCSeeded == {"g1", "g2", "gd", "s1", "s2", "sd"}
Passed(of, kind) == [of |-> of, kind |-> kind, passed |-> TRUE, at |-> 1]
Both(of) == <<Passed(of, "REPLAY"), Passed(of, "SHADOW")>>
MCReported == Both("g1") \o Both("g2") \o Both("gd") \o Both("s1") \o Both("sd") \o <<Passed("s2", "REPLAY")>>

\* What the proofs assume of the constants of the registry holds of these.
ASSUME RegistryConstants == Registry!RegistryAssumption

(***************************************************************************)
(* The scenes                                                              *)
(***************************************************************************)
MCInit ==
  /\ scene \in {"alone", "race", "thresholds", "pair"}
  /\ part = IF scene \in {"alone", "race"} THEN "commit" ELSE "registry"
  /\ CommitInit

\* Reports on the versions of these documents, two activations in three instants, no cycle.
OnlyThresholds ==
  /\ cycle' = Registry!Nothing
  /\ evidence' \subseteq Documents
  /\ \A i \in DOMAIN validations' \ DOMAIN validations :
       validations'[i].of # "g2" /\ validations'[i].at <= 3
  /\ \A i \in DOMAIN activations' :
       activations'[i].key \in {1, 2} /\ activations'[i].at <= 3 /\ i <= 4

\* The report on s2, then the pairs and the cycle, of an early or the last instant.  Acceptance IDs
\* and instants come in order.
OnlyPair ==
  /\ registered' = registered
  /\ cycle' # Registry!Nothing => cycle'.at \in {2, 6}
  /\ evidence' \subseteq Disjoint
  /\ \A i \in DOMAIN validations' \ DOMAIN validations : validations'[i] = Passed("s2", "SHADOW")
  /\ \A i \in DOMAIN activations' : activations'[i].key = (i + 1) \div 2 /\ activations'[i].at = activations'[i].key

MCNext ==
  /\ \/ scene = "alone" /\ CallerStep(c1) /\ UNCHANGED <<part, registryVars>>
     \/ scene = "race" /\ Race!Next /\ UNCHANGED <<part, registryVars>>
     \/ part = "registry" /\ CommitNext
  /\ UNCHANGED scene
  /\ scene = "thresholds" => OnlyThresholds
  /\ scene = "pair" => OnlyPair

MCSpec == MCInit /\ [][MCNext]_<<scene, part, vars, registryVars>>
=============================================================================
