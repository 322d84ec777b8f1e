------------------------------ MODULE Thresholds ------------------------------
(***************************************************************************)
(* The threshold registry (thresholds.py): versions of two families, their *)
(* validations, typed evidence about a pair, and the activations that say  *)
(* which pair is in force at an instant.  An official cycle reads the      *)
(* registry six times, outside every transaction, while others write it.   *)
(***************************************************************************)
EXTENDS Naturals, Sequences, FiniteSets, SequencesExt

CONSTANTS Guardian, Scout,  \* version names of the two families
          Approved,         \* versions the Owner approved
          Demo,             \* versions that carry the demo approval reference
          Document,         \* activation artifacts there may be
          Seeded,           \* versions in the registry at the start
          Reported,         \* and the reports on them, in order
          Key,              \* acceptance IDs
          MaxTime, MaxValidations, MaxEvidence, MaxActivations, MaxCycles \* bounds

VARIABLES registered,  \* threshold_version: names in the registry
          validations, \* threshold_validation, in validation_order
          evidence,    \* threshold_activation_evidence: documents recorded
          activations, \* threshold_activation, in activation_order
          cycle,       \* the official cycle: its reads of the registry so far
          commits      \* Analysis Commits: instant and the pair they name; and, for the
                       \* properties, the rows of activations recorded during their cycle

vars == <<registered, validations, evidence, activations, cycle, commits>>

Family == {"GUARDIAN", "SCOUT"}
Version == Guardian \cup Scout
Pair == Guardian \X Scout
Time == 1 .. MaxTime
Kind == {"REPLAY", "SHADOW"}
FamilyOf(v) == IF v \in Guardian THEN "GUARDIAN" ELSE "SCOUT"
Nothing == [step |-> "none", at |-> 1, begun |-> 0, permit |-> << >>, run |-> << >>, final |-> << >>]

\* The rows of threshold_validation and of threshold_activation; "proof" stands for the
\* evidence document the activation was accepted on.
Validation == [of : Version, kind : Kind, passed : BOOLEAN, at : Time]
Activation == [family : Family, of : Version, at : Time, key : Key, proof : Document]

\* The two families share no name; the seeded versions and the reports on them are rows.
RegistryAssumption ==
  /\ Guardian \cap Scout = {} /\ MaxTime \in Nat \ {0}
  /\ Seeded \subseteq Version /\ Reported \in Seq(Validation)

\* The registry a behaviour starts from; the migration seeds the first versions.
Init ==
  /\ registered = Seeded
  /\ validations = Reported
  /\ evidence = {} /\ activations = << >> /\ cycle = Nothing /\ commits = {}

\* register_version: a name in use keeps its content; the command answers or refuses.
RegisterVersion(v) ==
  /\ v \notin registered
  /\ registered' = registered \cup {v}
  /\ UNCHANGED <<validations, evidence, activations, cycle, commits>>

\* record_validation: a new report on a known version, of whatever time it observed.
RecordValidation(v, kind, passed, at) ==
  /\ Len(validations) < Len(Reported) + MaxValidations
  /\ v \in registered
  /\ validations' = Append(validations, [of |-> v, kind |-> kind, passed |-> passed, at |-> at])
  /\ UNCHANGED <<registered, evidence, activations, cycle, commits>>

\* FAULT: the last report written decides, whatever time it is about.
PassesByOrder(v, at) ==
  \A kind \in Kind :
    LET of == SelectSeq(validations, LAMBDA r : r.of = v /\ r.kind = kind)
    IN of # << >> /\ Last(of).passed

\* _latest_validations_pass: of the reports up to an instant, the latest of each kind; of two
\* about the same time the one recorded last.
LatestValidationsPass(v, at) ==
  \A kind \in Kind :
    LET of == {i \in DOMAIN validations : /\ validations[i].of = v /\ validations[i].kind = kind
                                          /\ validations[i].at <= at}
    IN \E i \in of : /\ validations[i].passed
                     /\ \A j \in of : \/ validations[j].at < validations[i].at
                                      \/ validations[j].at = validations[i].at /\ j <= i

\* _activation_replay_result: the replay it cites passed for the same pair.
ReplayPasses(d) == d.replayed = <<d.g, d.s>>

\* A production document must come from a live shadow session with 20 distinct continuous
\* observations, a sane result, no side effects and such a replay.
ProductionEligible(d) ==
  /\ d.scope = "PRODUCTION" /\ d.origin = "LIVE_SHADOW"
  /\ d.observations >= 20 /\ d.sound
  /\ ReplayPasses(d)

DemoEligible(d) == d.scope = "DEMO" /\ d.origin = "DEMO_FIXTURE"

\* FAULT: the reference of the version is not looked at.
OfOtherScope(d) == d.g \in registered \cap Guardian /\ d.s \in registered \cap Scout

\* _evidence_threshold_uid: both versions exist and belong to the document's scope.
OfItsScope(d) ==
  /\ d.g \in registered \cap Guardian /\ d.s \in registered \cap Scout
  /\ \A v \in {d.g, d.s} : v \in Demo <=> d.scope = "DEMO"

RecordActivationEvidence(d) ==
  /\ Cardinality(evidence) < MaxEvidence
  /\ ProductionEligible(d) \/ DemoEligible(d)
  /\ OfItsScope(d)
  /\ d \notin evidence
  /\ evidence' = evidence \cup {d}
  /\ UNCHANGED <<registered, validations, activations, cycle, commits>>

Rows(family) == {i \in DOMAIN activations : activations[i].family = family}

\* _version_for_activation and the triggers: the family's instants only advance, the version is
\* approved and its latest reports at the instant passed.
MayActivate(v, at) ==
  /\ v \in registered \cap Approved /\ LatestValidationsPass(v, at)
  /\ \A i \in Rows(FamilyOf(v)) : activations[i].at < at

\* _activation_evidence_for_pair: a recorded document of this pair, not about a later time.
ProvenBy(d, at) == d \in evidence /\ d.at <= at

\* _activation_by_key: neither family has a row of this acceptance ID.
Unused(key) == \A i \in DOMAIN activations : activations[i].key # key

\* FAULT: the two rows are written by two commands.
ActivateOneFamily(d, at, key) ==
  \E v \in {d.g, d.s} :
    /\ Len(activations) < 2 * MaxActivations
    /\ ProvenBy(d, at)
    /\ \A i \in DOMAIN activations : activations[i].family = FamilyOf(v) => activations[i].key # key
    /\ MayActivate(v, at)
    /\ activations' = Append(activations,
         [family |-> FamilyOf(v), of |-> v, at |-> at, key |-> key, proof |-> d])
    /\ UNCHANGED <<registered, validations, evidence, cycle, commits>>

\* activate_pair: one command, with the evidence of exactly this pair; a key in use is answered
\* or refused and changes nothing.
ActivatePair(d, at, key) ==
  /\ Len(activations) < 2 * MaxActivations
  /\ ProvenBy(d, at)
  /\ Unused(key)
  /\ MayActivate(d.g, at) /\ MayActivate(d.s, at)
  /\ activations' = activations \o
       <<[family |-> "GUARDIAN", of |-> d.g, at |-> at, key |-> key, proof |-> d],
         [family |-> "SCOUT", of |-> d.s, at |-> at, key |-> key, proof |-> d]>>
  /\ UNCHANGED <<registered, validations, evidence, cycle, commits>>

\* The row resolve_official takes: the latest effective time up to the instant.
InForce(family, at) ==
  LET due == {i \in Rows(family) : activations[i].at <= at}
  IN IF due = {} THEN 0
     ELSE CHOOSE i \in due : \A j \in due :
            \/ activations[j].at < activations[i].at
            \/ activations[j].at = activations[i].at /\ j <= i

\* resolve_official: the version in force, or nothing when its reports no longer pass.
Resolved(family, at) ==
  LET i == InForce(family, at)
  IN IF i # 0 /\ activations[i].of \in Approved /\ LatestValidationsPass(activations[i].of, at)
     THEN {activations[i].of} ELSE {}

Refuse == /\ cycle' = Nothing
          /\ UNCHANGED <<registered, validations, evidence, activations, commits>>

\* One read of the registry into a field of the cycle: the Guardian's first, the Scout's next.
Read(field, allowed, after) ==
  LET got == cycle[field]
      family == IF got = << >> THEN "GUARDIAN" ELSE "SCOUT"
      found == Resolved(family, cycle.at)
  IN \/ found = {} /\ Refuse
     \/ \E v \in found :
          LET pair == Append(got, v)
          IN IF Len(pair) = 2 /\ pair \notin allowed THEN Refuse
             ELSE /\ cycle' = [cycle EXCEPT ![field] = pair,
                                            !.step = IF Len(pair) = 2 THEN after ELSE @]
                  /\ UNCHANGED <<registered, validations, evidence, activations, commits>>

\* An official cycle at an instant; one at a time, as the worker runs them.  begun, the rows of
\* activations there are, is for the properties.
StartCycle(at) ==
  /\ cycle = Nothing /\ Cardinality(commits) < MaxCycles
  /\ \A c \in commits : c.at # at
  /\ cycle' = [Nothing EXCEPT !.step = "readiness", !.at = at, !.begun = Len(activations)]
  /\ UNCHANGED <<registered, validations, evidence, activations, commits>>

\* threshold_readiness: the pair the permit is issued for.
Readiness == cycle.step = "readiness" /\ Read("permit", Pair, "metrics")

\* run_official resolves again and takes only the permit's pair; the facts and the evidence it
\* records name that pair.
RunOfficial == cycle.step = "metrics" /\ Read("run", {cycle.permit}, "commit")

\* FAULT: the commit takes the facts of the snapshot, whatever pair they were made with.
CommitThresholdsAny == cycle.step = "commit" /\ Read("final", Pair, "execute")

\* _verify_metric_evidence_lineage: the evidence names the pair as it is resolved now.
EvidenceNames == {cycle.run}

\* _official_thresholds, before the command.
CommitThresholds == cycle.step = "commit" /\ Read("final", EvidenceNames, "execute")

\* The command runs in the writer and does not read the registry again.
Commit ==
  /\ cycle.step = "execute"
  /\ commits' = commits \cup {[at |-> cycle.at, pair |-> cycle.final,
                                during |-> Len(activations) - cycle.begun]}
  /\ cycle' = Nothing
  /\ UNCHANGED <<registered, validations, evidence, activations>>

Next ==
  \/ \E v \in Version : RegisterVersion(v)
  \/ \E v \in Version, kind \in Kind, passed \in BOOLEAN, at \in Time :
       RecordValidation(v, kind, passed, at)
  \/ \E d \in Document : RecordActivationEvidence(d)
  \/ \E d \in Document, at \in Time, key \in Key : ActivatePair(d, at, key)
  \/ \E at \in Time : StartCycle(at)
  \/ Readiness \/ RunOfficial \/ CommitThresholds \/ Commit

Spec == Init /\ [][Next]_vars

(***************************************************************************)
(* Properties                                                              *)
(***************************************************************************)
\* Rows are of versions of their family and commits name one version of each.
TypeOK ==
  /\ registered \subseteq Version /\ evidence \subseteq Document
  /\ validations \in Seq(Validation) /\ activations \in Seq(Activation)
  /\ \A i \in DOMAIN activations : FamilyOf(activations[i].of) = activations[i].family
  /\ \A c \in commits : c.at \in Time /\ c.pair \in Guardian \X Scout

\* At every instant the two families are in force by the same activation: never the Guardian of
\* one pair beside the Scout of another.
PairInForce ==
  \A at \in Time :
    LET g == InForce("GUARDIAN", at)
        s == InForce("SCOUT", at)
    IN (g = 0 <=> s = 0) /\ (g # 0 => activations[g].key = activations[s].key)

\* Nothing comes into force on evidence, or on reports, of a later time: each activation's
\* proof was observed before its instant, and of each kind a report up to then had passed.
ActivationProven ==
  \A i \in DOMAIN activations :
    LET row == activations[i]
    IN /\ row.proof.at <= row.at /\ row.of \in {row.proof.g, row.proof.s}
       /\ \A kind \in Kind : \E j \in DOMAIN validations :
            /\ validations[j].of = row.of /\ validations[j].kind = kind
            /\ validations[j].passed /\ validations[j].at <= row.at

\* A version made for the demo never comes into force on production evidence, nor a production
\* version on the demo fixture, over the two commands that lead there.
ScopesApart ==
  \A i \in DOMAIN activations :
    activations[i].of \in Demo <=> activations[i].proof.scope = "DEMO"

\* The pair a commit names was activated as a pair, although the six reads behind it are in
\* transactions of their own and activations come between them, unless there were five of those
\* (ten rows) during the cycle.  The reads compare values, so two versions that were never
\* activated together pass only if another pair comes into force before each of the last five.
CommitOfOnePair ==
  \A c \in commits :
    \/ \E i, j \in DOMAIN activations :
         /\ activations[i].of = c.pair[1] /\ activations[j].of = c.pair[2]
         /\ activations[i].key = activations[j].key
    \/ c.during >= 10

\* What the registry promises (thresholds.py).
ThresholdsSound == TypeOK /\ PairInForce /\ ActivationProven /\ ScopesApart
===============================================================================
