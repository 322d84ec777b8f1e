---------------------------- MODULE CommitStore ----------------------------
(***************************************************************************)
(* What one Analysis Commit transaction does to the database              *)
(* (packages/analysis/.../analysis_commit.py): the state, Guardian and     *)
(* Scout evaluations, the commit row, the event versions and their         *)
(* notification intents are written together or not at all.  This module   *)
(* has no state of its own; AnalysisCommit runs it under concurrent        *)
(* callers, OfficialCycle under the journalled production cycle.           *)
(*                                                                         *)
(* A snapshot is named by the instant it was observed at.  SHA-256 of the  *)
(* canonical request is taken to be injective, so the request stands for   *)
(* its own hash.  An event is named by its key and the commit creating it. *)
(***************************************************************************)
EXTENDS Integers, Sequences, FiniteSets

CONSTANTS Subjects,     \* analysis subjects
          Channels,     \* channels a commit addresses its intents to
          Lifecycles,   \* lifecycle states the callers ask for
          Evidence,     \* qualities and facts a sealed snapshot may freeze
          Null

(* _LEGAL of state.py: the lifecycle states that may follow each state.    *)
Legal == [OBSERVING    |-> {"STARTING"},
          STARTING     |-> {"OBSERVING", "EXPANDING", "DECLINING"},
          EXPANDING    |-> {"STARTING", "ACCELERATING", "DIVERGING", "DECLINING"},
          ACCELERATING |-> {"EXPANDING", "DIVERGING", "DECLINING"},
          DIVERGING    |-> {"EXPANDING", "DECLINING", "OBSERVING"},
          DECLINING    |-> {"OBSERVING", "STARTING", "DIVERGING"}]

(* _RULES of guardian.py: the effect each Guardian metric has when its     *)
(* threshold is met.                                                       *)
GuardianRules == [RISE_RATE_PPM            |-> "DOWNGRADE",
                  HEAD_CONCENTRATION_PPM   |-> "DOWNGRADE",
                  INTERNAL_DIVERGENCE_PPM  |-> "DOWNGRADE",
                  CROWDING_PPM             |-> "DOWNGRADE",
                  LIQUIDITY_WEAKENING_PPM  |-> "ALLOW_WITH_WARNING",
                  CORE_WEAKENING_PPM       |-> "DOWNGRADE",
                  BREADTH_COLLAPSE_PPM     |-> "SUPPRESS",
                  STAMPEDE_RISK_PPM        |-> "SUPPRESS",
                  T1_CHASING_RISK_PPM      |-> "SUPPRESS",
                  EARLY_SIGNAL_FAILURE_PPM |-> "DOWNGRADE"]

(* _EFFECT_ORDER of guardian.py.                                           *)
EffectOrder == [ALLOW |-> 0, ALLOW_WITH_WARNING |-> 1, DOWNGRADE |-> 2,
                SUPPRESS |-> 3, PAUSE |-> 4]

(* _RULES of scout.py: the metrics that count as opportunities.            *)
ScoutRules == {"EARLY_ACTIVITY_PPM", "HEALTHY_BREADTH_PPM",
               "RELATIVE_STRENGTH_PPM", "TURNOVER_CONFIRMATION_PPM",
               "ETF_CONFIRMATION_PPM", "STYLE_SUPPORT_PPM",
               "LOW_CROWDING_PPM", "CONTINUITY_STRENGTHENING_PPM"}

Kinds == {"GUARDIAN_RISK", "SCOUT_WATCH"}
Effects == DOMAIN EffectOrder
Codes == DOMAIN GuardianRules \cup ScoutRules
Availabilities == {"AVAILABLE", "WARMING_UP", "SUSPENDED", "UNAVAILABLE"}

(* facts are the metrics with a value, met those at or over threshold.     *)
EvidenceRecords ==
    [health : {"HEALTHY", "DEGRADED", "UNKNOWN", "UNHEALTHY"},
     fitness : {"FIT", "FIT_WITH_LIMITATIONS", "UNKNOWN", "UNFIT"},
     facts : SUBSET Codes, met : SUBSET Codes]

ASSUME LifecycleAssumption == Lifecycles \subseteq DOMAIN Legal
ASSUME EvidenceAssumption ==
    /\ Evidence \subseteq EvidenceRecords
    /\ \A e \in Evidence : e.met \subseteq e.facts

(* The rows a commit writes: the ledger analysis_commit with its evaluations, *)
(* the state projection and the event versions.  A refusal writes none.    *)
LedgerRows ==
    [request : [snapshot : Nat, availability : Availabilities,
                lifecycle : Lifecycles \cup {Null}, expected : Nat],
     subject : Subjects, effect : Effects, scout : {"NONE", "OBSERVING", "ACTIVE"}]
ProjectionRows ==
    [availability : Availabilities, effective : Lifecycles \cup {Null},
     lastValid : Lifecycles \cup {Null}, lastValidAt : Nat \cup {Null},
     evaluation : Nat, version : Nat]
EventVersions ==
    [event : Subjects \X Kinds \X Nat, version : Nat, status : {"ACTIVE", "RESOLVED"},
     change : {"CREATED", "CHANGED", "RESOLVED"}, commit : Nat]
Refusals == {"COMMITTED_CONCURRENTLY", "NOT_OFFICIAL", "NO_FACTS", "PROJECTION_CONFLICT",
             "ILLEGAL_TRANSITION"}

(* NULL is no value of a column that may hold it, and no row.              *)
ASSUME StoreNullAssumption ==
    /\ Null \notin Lifecycles
    /\ Null \notin {"CREATED", "CHANGED", "RESOLVED"}
    /\ Null \notin Refusals \cup {"COMMITTED", "DIFFERENT_COMMIT"}
    /\ Null \notin ProjectionRows /\ Null \notin EventVersions

-----------------------------------------------------------------------------
(***************************************************************************)
(* State evaluation (_insert_state).                                       *)
(***************************************************************************)
Version(db, u) ==
    IF db.projection[u] = Null THEN 0 ELSE db.projection[u].version

(* Faulty variant: an outage forgets the lifecycle before it.              *)
PreviousEffective(p) == IF p = Null THEN Null ELSE p.effective

(* The lifecycle a transition starts from: the effective one or, after an  *)
(* unavailable evaluation, the last valid one.                             *)
Previous(p) ==
    IF p = Null THEN Null ELSE IF p.effective # Null THEN p.effective ELSE p.lastValid

LegalTransition(p, next) ==
    next = Null \/ Previous(p) \in {Null, next} \/ next \in Legal[Previous(p)]

(* Faulty variants: an outage wipes the last valid lifecycle; the version  *)
(* is raised in the application and again in the UPDATE.                   *)
NextProjectionForgetful(p, snap, request) ==
    [availability |-> request.availability, effective |-> request.lifecycle,
     lastValid |-> request.lifecycle, lastValidAt |-> snap.at,
     evaluation |-> snap.at, version |-> 1 + IF p = Null THEN 0 ELSE p.version]

NextProjectionTwice(p, snap, request) ==
    [availability |-> request.availability, effective |-> request.lifecycle,
     lastValid |-> request.lifecycle, lastValidAt |-> snap.at,
     evaluation |-> snap.at, version |-> 2 + IF p = Null THEN 0 ELSE p.version]

NextProjection(p, snap, request) ==
    LET valid == request.lifecycle # Null
    IN  [availability |-> request.availability,
         effective    |-> request.lifecycle,
         lastValid    |-> IF valid THEN request.lifecycle
                          ELSE IF p = Null THEN Null ELSE p.lastValid,
         lastValidAt  |-> IF valid THEN snap.at
                          ELSE IF p = Null THEN Null ELSE p.lastValidAt,
         evaluation   |-> snap.at,
         version      |-> 1 + IF p = Null THEN 0 ELSE p.version]

-----------------------------------------------------------------------------
(***************************************************************************)
(* Guardian and Scout evaluations (_insert_guardian, _insert_scout).       *)
(***************************************************************************)
GuardianEffect(e, availability) ==
    LET unavailable == \/ availability # "AVAILABLE"
                       \/ e.health \in {"UNKNOWN", "UNHEALTHY"}
                       \/ e.fitness \in {"UNKNOWN", "UNFIT"}
                       \/ ~(DOMAIN GuardianRules \subseteq e.facts)
        limited == e.health = "DEGRADED" \/ e.fitness = "FIT_WITH_LIMITATIONS"
        met == {GuardianRules[c] : c \in e.met \cap DOMAIN GuardianRules}
        effects == IF unavailable THEN {"PAUSE"}
                   ELSE {"ALLOW"} \cup met
                        \cup (IF limited THEN {"ALLOW_WITH_WARNING"} ELSE {})
    IN  CHOOSE x \in effects : \A y \in effects : EffectOrder[y] <= EffectOrder[x]

Suppressed(effect) == effect \in {"SUPPRESS", "PAUSE"}

ScoutStatus(e) ==
    LET count == Cardinality(e.met \cap ScoutRules)
    IN  IF count = 0 THEN "NONE" ELSE IF count < 3 THEN "OBSERVING" ELSE "ACTIVE"

-----------------------------------------------------------------------------
(***************************************************************************)
(* Event decisions (_decide_events).  db.current is the projection of the  *)
(* newest event version of each subject and kind.                          *)
(***************************************************************************)
Open(current) == current # Null /\ current.status = "ACTIVE"

Desired(kind, effect, scout) ==
    IF kind = "GUARDIAN_RISK" THEN effect # "ALLOW"
    ELSE scout = "ACTIVE" /\ ~Suppressed(effect)

(* Faulty variant: an event that is no longer desired stays open.          *)
ChangeUnresolved(current, active) ==
    IF active THEN IF Open(current) THEN "CHANGED" ELSE "CREATED" ELSE Null

Change(current, active) ==
    IF active THEN IF Open(current) THEN "CHANGED" ELSE "CREATED"
    ELSE IF Open(current) THEN "RESOLVED" ELSE Null

(* Faulty variant: a recurring event reopens the resolved one.             *)
NextEventVersionReopened(current, kind, active, snap) ==
    [event   |-> IF current = Null THEN <<snap.subject, kind, snap.at>> ELSE current.event,
     version |-> IF current = Null THEN 1 ELSE current.version + 1,
     status  |-> IF active THEN "ACTIVE" ELSE "RESOLVED",
     change  |-> Change(current, active),
     commit  |-> snap.at]

NextEventVersion(current, kind, active, snap) ==
    LET change == Change(current, active)
    IN  [event   |-> IF change = "CREATED" THEN <<snap.subject, kind, snap.at>>
                     ELSE current.event,
         version |-> IF change = "CREATED" THEN 1 ELSE current.version + 1,
         status  |-> IF active THEN "ACTIVE" ELSE "RESOLVED",
         change  |-> change,
         commit  |-> snap.at]

IntentKind(kind, change) ==
    IF change = "RESOLVED" THEN "RESOLUTION"
    ELSE IF kind = "GUARDIAN_RISK" THEN "RISK" ELSE "ATTENTION"

-----------------------------------------------------------------------------
(***************************************************************************)
(* The transaction (command of AnalysisCommitService.commit).              *)
(***************************************************************************)
EmptyStore == [ledger |-> << >>,
               projection |-> [u \in Subjects |-> Null],
               current |-> [p \in Subjects \X Kinds |-> Null],
               versions |-> {},
               intents |-> {}]

Commits(db, s) == {i \in DOMAIN db.ledger : db.ledger[i].request.snapshot = s}

(* Faulty variants: no second look for a commit inside the transaction; no *)
(* optimistic check of the projection version.                             *)
RefusalUnraced(db, snap, request) ==
    CASE snap.disposition # "OFFICIAL" -> "NOT_OFFICIAL"
      [] snap.evidence.facts = {} -> "NO_FACTS"
      [] ~LegalTransition(db.projection[snap.subject], request.lifecycle) ->
             "ILLEGAL_TRANSITION"
      [] OTHER -> Null

RefusalUnversioned(db, snap, request) ==
    CASE Commits(db, request.snapshot) # {} -> "COMMITTED_CONCURRENTLY"
      [] snap.disposition # "OFFICIAL" -> "NOT_OFFICIAL"
      [] snap.evidence.facts = {} -> "NO_FACTS"
      [] ~LegalTransition(db.projection[snap.subject], request.lifecycle) ->
             "ILLEGAL_TRANSITION"
      [] OTHER -> Null

(* The first check that refuses the transaction, or Null.                  *)
Refusal(db, snap, request) ==
    CASE Commits(db, request.snapshot) # {} -> "COMMITTED_CONCURRENTLY"
      [] snap.disposition # "OFFICIAL" -> "NOT_OFFICIAL"
      [] snap.evidence.facts = {} -> "NO_FACTS"
      [] Version(db, snap.subject) # request.expected -> "PROJECTION_CONFLICT"
      [] ~LegalTransition(db.projection[snap.subject], request.lifecycle) ->
             "ILLEGAL_TRANSITION"
      [] OTHER -> Null

Committed(db, snap, request) ==
    LET u == snap.subject
        effect == GuardianEffect(snap.evidence, request.availability)
        scout == ScoutStatus(snap.evidence)
        active(k) == Desired(k, effect, scout)
        changed == {k \in Kinds : Change(db.current[u, k], active(k)) # Null}
        next(k) == NextEventVersion(db.current[u, k], k, active(k), snap)
    IN  [ledger |-> Append(db.ledger, [request |-> request, subject |-> u,
                                       effect |-> effect, scout |-> scout]),
         projection |-> [db.projection EXCEPT
                            ![u] = NextProjection(@, snap, request)],
         current |-> [p \in Subjects \X Kinds |->
                          IF p[1] = u /\ p[2] \in changed THEN next(p[2])
                          ELSE db.current[p]],
         versions |-> db.versions \cup {next(k) : k \in changed},
         intents |-> db.intents \cup
             {[event |-> next(k).event, version |-> next(k).version,
               channel |-> c, kind |-> IntentKind(k, next(k).change)] :
                 k \in changed, c \in Channels}]

-----------------------------------------------------------------------------
(***************************************************************************)
(* The projections a restore rebuilds from the append-only history         *)
(* (_STATE_REBUILD_SQL and _EVENT_REBUILD_SQL of persistence/recovery.py). *)
(* Rows are ordered by committed_at or created_at, both the as-of instant  *)
(* of the snapshot; the instants of one subject are distinct here, so the  *)
(* tie breaks of the queries never decide.                                 *)
(***************************************************************************)
Rows(db, u) == {db.ledger[i] : i \in {j \in DOMAIN db.ledger : db.ledger[j].subject = u}}
Newest(rows) == CHOOSE r \in rows : \A q \in rows : q.request.snapshot <= r.request.snapshot

RebuiltProjection(db, u) ==
    LET rows == Rows(db, u)
        valid == {r \in rows : r.request.availability = "AVAILABLE"}
        last == Newest(rows)
    IN  IF rows = {} THEN Null
        ELSE [availability |-> last.request.availability,
              effective    |-> last.request.lifecycle,
              lastValid    |-> IF valid = {} THEN Null ELSE Newest(valid).request.lifecycle,
              lastValidAt  |-> IF valid = {} THEN Null ELSE Newest(valid).request.snapshot,
              evaluation   |-> last.request.snapshot,
              version      |-> Cardinality({i \in DOMAIN db.ledger : db.ledger[i].subject = u})]

(* Faulty variant: the rebuild takes the highest version of the key.       *)
RebuiltEventByVersion(db, u, k) ==
    LET rows == {v \in db.versions : v.event[1] = u /\ v.event[2] = k}
    IN  IF rows = {} THEN Null
        ELSE CHOOSE v \in rows : \A w \in rows : w.version <= v.version

RebuiltEvent(db, u, k) ==
    LET rows == {v \in db.versions : v.event[1] = u /\ v.event[2] = k}
    IN  IF rows = {} THEN Null
        ELSE CHOOSE v \in rows : \A w \in rows :
                 w.commit < v.commit \/ (w.commit = v.commit /\ w.version <= v.version)
=============================================================================
