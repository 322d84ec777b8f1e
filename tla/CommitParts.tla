---------------------------- MODULE CommitParts -----------------------------
(***************************************************************************)
(* The Analysis Commit (AnalysisCommit) and the registry of the thresholds *)
(* it is made with (Thresholds).  A behaviour is of one of them, `part';   *)
(* the variables of the other stand still.                                 *)
(***************************************************************************)
EXTENDS AnalysisCommit

CONSTANTS Guardian, Scout, Approved, Demo, Document, Seeded, Reported, Key,
          MaxTime, MaxValidations, MaxEvidence, MaxActivations, MaxCycles \* of Thresholds

VARIABLE part
VARIABLES registered, validations, evidence, activations, cycle, commits

registryVars == <<registered, validations, evidence, activations, cycle, commits>>

Registry == INSTANCE Thresholds

NoRegistry ==
  /\ registered = "none" /\ validations = "none" /\ evidence = "none"
  /\ activations = "none" /\ cycle = "none" /\ commits = "none"

CommitInit ==
  /\ Init
  /\ \/ part = "commit" /\ NoRegistry
     \/ part = "registry" /\ Registry!Init

CommitNext ==
  /\ \/ part = "commit" /\ Next /\ UNCHANGED registryVars
     \/ part = "registry" /\ Registry!Next /\ UNCHANGED vars
  /\ UNCHANGED part

CommitSpec == CommitInit /\ [][CommitNext]_<<part, vars, registryVars>>

\* thresholds.py: the families are in force in pairs, each activation on proof of its own time
\* and of its own scope (Thresholds.TypeOK, PairInForce, ActivationProven,
\* ScopesApart).
ThresholdsSound == part = "registry" => Registry!ThresholdsSound

\* analysis_commit.py:97, thresholds.py: the six reads of a cycle name one activated pair although
\* activations come between them, unless at least five do (Thresholds.CommitOfOnePair).
CommitOfOnePair == part = "registry" => Registry!CommitOfOnePair
=============================================================================
