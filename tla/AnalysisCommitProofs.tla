------------------------ MODULE AnalysisCommitProofs ------------------------
(***************************************************************************)
(* Proofs about commit() for any subjects, channels, evidence, callers and *)
(* number of snapshots: a snapshot is committed once, the state projection *)
(* and the events are those of the ledger, and every transition is legal.  *)
(* The inductive invariant adds what a caller's request rests on, and, for *)
(* each event, that its rows are numbered without a gap and that the       *)
(* current row is the last one of the only event that may be open.         *)
(* The second part is about the thresholds a commit is made with.          *)
(***************************************************************************)
EXTENDS CommitParts, FiniteSetTheorems, SequenceTheorems, WellFoundedInduction, TLAPS

SealedRows == [at : Snapshots, subject : Subjects, disposition : {"OFFICIAL", "SHADOW"},
               evidence : Evidence]
CallerRows == [pc : {"idle", "sealed", "requested", "submitted"}, snapshot : Snapshots \cup {Null},
               request : Requests \cup {Null}, answer : Answers \cup {Null}]

\* The shapes of the snapshots, of the callers and of the tables.
SealedOK ==
  /\ sealed \in Seq(SealedRows) /\ Len(sealed) <= MaxSnapshots
  /\ \A s \in DOMAIN sealed : sealed[s].at = s

CallersOK ==
  /\ caller \in [Callers -> CallerRows]
  /\ \A c \in Callers : caller[c].pc = "idle" \/ caller[c].answer = Null
  /\ \A c \in Callers : caller[c].pc = "sealed" => caller[c].snapshot \in DOMAIN sealed
  /\ \A c \in Callers : caller[c].pc \in {"requested", "submitted"} =>
       caller[c].request \in Requests /\ caller[c].request.snapshot \in DOMAIN sealed

TablesOK ==
  /\ db.ledger \in Seq(LedgerRows)
  /\ db.projection \in [Subjects -> ProjectionRows \cup {Null}]
  /\ db.current \in [Subjects \X Kinds -> EventVersions \cup {Null}]
  /\ db.versions \subseteq EventVersions

\* A commit is of a snapshot that was sealed, for a request some caller made, and leaves a
\* projection of its subject.
LedgerOK ==
  \A i \in DOMAIN db.ledger :
    /\ db.ledger[i].request \in Requests
    /\ db.ledger[i].request.snapshot \in DOMAIN sealed
    /\ db.projection[db.ledger[i].subject] # Null

\* The rows of one event.
Of(versions, e) == {v \in versions : v.event = e}

\* Every event belongs to a commit, its rows are numbered from one, the first one creates it and
\* a resolution is the last one.
EventsOK ==
  \A v \in db.versions :
    /\ Commits(db, v.event[3]) # {}
    /\ IsFiniteSet(Of(db.versions, v.event))
    /\ {w.version : w \in Of(db.versions, v.event)} = 1 .. Cardinality(Of(db.versions, v.event))
    /\ v.version = 1 <=> v.change = "CREATED"
    /\ v.status = "RESOLVED" => v.version = Cardinality(Of(db.versions, v.event))
    /\ \A w \in Of(db.versions, v.event) : w.version = v.version => w = v

\* The current row of a key is the last row of its event, and the events before it are resolved.
CurrentOK ==
  \A u \in Subjects, k \in Kinds :
    /\ db.current[u, k] # Null =>
         /\ db.current[u, k] \in db.versions
         /\ db.current[u, k].event[1] = u /\ db.current[u, k].event[2] = k
         /\ db.current[u, k].version = Cardinality(Of(db.versions, db.current[u, k].event))
    /\ \A v \in db.versions : v.event[1] = u /\ v.event[2] = k =>
         /\ db.current[u, k] # Null
         /\ \/ v.event = db.current[u, k].event
            \/ \E w \in Of(db.versions, v.event) : w.status = "RESOLVED"

IInv ==
  /\ SealedOK /\ CallersOK /\ TablesOK /\ LedgerOK
  /\ CommittedOnce /\ ProjectionFollowsLedger /\ LifecycleMovesLegally
  /\ EventsOK /\ CurrentOK /\ EventsReflectLastCommit

-----------------------------------------------------------------------------
\* A set of naturals has a least element: from the well-foundedness of < on Nat.
LEMMA Least ==
  ASSUME NEW T, T \subseteq Nat, T # {}
  PROVE  \E m \in T : \A n \in T : m <= n
<1>1. \E x \in T : \A y \in T : ~ (<<y, x>> \in OpToRel(<, Nat))
  BY NatLessThanWellFounded, WFMin
<1>2. PICK m \in T : \A y \in T : ~ (<<y, m>> \in OpToRel(<, Nat))
  BY <1>1
<1>3. \A y \in T : ~(y < m)
  BY <1>2 DEF OpToRel
<1> QED BY <1>3

\* A set of integers with an upper bound has a greatest element.
LEMMA Greatest ==
  ASSUME NEW b \in Int, NEW T, T # {}, \A n \in T : n \in Int /\ n <= b
  PROVE  \E m \in T : \A n \in T : n <= m
<1> DEFINE D == {b - n : n \in T}
<1>1. D \subseteq Nat /\ D # {}
  OBVIOUS
<1>2. PICK d \in D : \A e \in D : d <= e
  BY <1>1, Least
<1>3. PICK m \in T : d = b - m
  OBVIOUS
<1>4. \A n \in T : b - n \in D
  OBVIOUS
<1>5. \A n \in T : d <= b - n
  BY <1>2, <1>4
<1> HIDE DEF D
<1> QED BY <1>3, <1>5

\* The newest position of a set is the one CHOOSE finds: there is only one.
LEMMA LastPosition ==
  ASSUME NEW T, T \subseteq Int, NEW m \in T, \A j \in T : j <= m
  PROVE  (CHOOSE i \in T : \A j \in T : j <= i) = m
<1>1. \A i \in T : (\A j \in T : j <= i) => i = m
  OBVIOUS
<1> QED BY <1>1

\* The Guardian effect is the strongest of the effects that apply, one of the five.
LEMMA EffectTyped ==
  ASSUME NEW e \in Evidence, NEW a
  PROVE  GuardianEffect(e, a) \in Effects
<1> DEFINE unavailable == \/ a # "AVAILABLE"
                          \/ e.health \in {"UNKNOWN", "UNHEALTHY"}
                          \/ e.fitness \in {"UNKNOWN", "UNFIT"}
                          \/ ~(DOMAIN GuardianRules \subseteq e.facts)
           limited == e.health = "DEGRADED" \/ e.fitness = "FIT_WITH_LIMITATIONS"
           met == {GuardianRules[c] : c \in e.met \cap DOMAIN GuardianRules}
           effects == IF unavailable THEN {"PAUSE"}
                      ELSE {"ALLOW"} \cup met \cup (IF limited THEN {"ALLOW_WITH_WARNING"} ELSE {})
<1>1. met \subseteq Effects
  <2>1. \A c \in DOMAIN GuardianRules : GuardianRules[c] \in Effects
    BY DEF GuardianRules, Effects, EffectOrder
  <2> QED BY <2>1
<1>2. effects # {} /\ effects \subseteq Effects
  <2>1. {"PAUSE", "ALLOW", "ALLOW_WITH_WARNING"} \subseteq Effects
    BY DEF Effects, EffectOrder
  <2> HIDE DEF met, unavailable, limited
  <2> QED BY <1>1, <2>1
<1> HIDE DEF effects
<1>3. \A x \in Effects : EffectOrder[x] \in 0 .. 4
  BY DEF Effects, EffectOrder
<1>4. \E x \in effects : \A y \in effects : EffectOrder[y] <= EffectOrder[x]
  <2> DEFINE ranks == {EffectOrder[x] : x \in effects}
  <2>1. ranks # {} /\ \A n \in ranks : n \in Int /\ n <= 4
    BY <1>2, <1>3
  <2> HIDE DEF ranks
  <2>2. PICK m \in ranks : \A n \in ranks : n <= m
    BY <2>1, Greatest
  <2> QED BY <2>2 DEF ranks
<1>5. (CHOOSE x \in effects : \A y \in effects : EffectOrder[y] <= EffectOrder[x]) \in effects
  BY <1>4
<1> QED BY <1>2, <1>5 DEF GuardianEffect, effects

-----------------------------------------------------------------------------
\* The row the commit of request r adds to the ledger, the decisions it makes (whether an event
\* of kind k is called for, the version it gets) and the kinds that get a version.
Snap(r) == sealed[r.snapshot]
Row(r) == [request |-> r, subject |-> Snap(r).subject,
           effect |-> GuardianEffect(Snap(r).evidence, r.availability),
           scout |-> ScoutStatus(Snap(r).evidence)]
Active(k, r) == Desired(k, GuardianEffect(Snap(r).evidence, r.availability),
                        ScoutStatus(Snap(r).evidence))
Current(k, r) == db.current[Snap(r).subject, k]
NextVersion(k, r) == NextEventVersion(Current(k, r), k, Active(k, r), Snap(r))
Changed(r) == {k \in Kinds : Change(Current(k, r), Active(k, r)) # Null}

\* What a transaction checks before it writes, and what it writes.
Checked(r) ==
  /\ r \in Requests /\ r.snapshot \in DOMAIN sealed
  /\ Snap(r) \in SealedRows /\ Snap(r).at = r.snapshot
  /\ Row(r) \in LedgerRows
  /\ Snap(r).disposition = "OFFICIAL"
  /\ Commits(db, r.snapshot) = {}
  /\ Version(db, Snap(r).subject) = r.expected
  /\ LegalTransition(db.projection[Snap(r).subject], r.lifecycle)

Writes(r) ==
  /\ sealed' = sealed
  /\ db'.ledger = Append(db.ledger, Row(r))
  /\ db'.projection = [db.projection EXCEPT ![Snap(r).subject] = NextProjection(@, Snap(r), r)]
  /\ db'.current = [p \in Subjects \X Kinds |->
       IF p[1] = Snap(r).subject /\ p[2] \in Changed(r) THEN NextVersion(p[2], r)
       ELSE db.current[p]]
  /\ db'.versions = db.versions \cup {NextVersion(k, r) : k \in Changed(r)}
  /\ db'.intents = db.intents \cup
       {[event |-> NextVersion(k, r).event, version |-> NextVersion(k, r).version,
         channel |-> c, kind |-> IntentKind(k, NextVersion(k, r).change)] :
           k \in Changed(r), c \in Channels}

\* A transaction that is not refused has made its checks and writes its rows.
LEMMA ExecuteWrites ==
  ASSUME IInv, NEW c \in Callers, Execute(c), NEW r, r = caller[c].request,
         Refusal(db, Snap(r), r) = Null
  PROVE  Checked(r) /\ Writes(r)
<1>1. r \in Requests /\ r.snapshot \in DOMAIN sealed
  BY DEF Execute, IInv, CallersOK
<1>2. Snap(r) \in SealedRows /\ Snap(r).at = r.snapshot
  BY <1>1, ElementOfSeq DEF IInv, SealedOK, Snap
<1>3. Row(r) \in LedgerRows
  <2>1. r \in [snapshot : Nat, availability : Availabilities,
                lifecycle : Lifecycles \cup {Null}, expected : Nat]
    BY <1>1, SnapshotBoundAssumption DEF Requests, Snapshots
  <2>2. Snap(r).subject \in Subjects /\ Snap(r).evidence \in Evidence
    BY <1>2 DEF SealedRows
  <2>3. GuardianEffect(Snap(r).evidence, r.availability) \in Effects
    BY <2>2, EffectTyped
  <2>4. ScoutStatus(Snap(r).evidence) \in {"NONE", "OBSERVING", "ACTIVE"}
    BY DEF ScoutStatus
  <2> QED BY <2>1, <2>2, <2>3, <2>4 DEF LedgerRows, Row
<1>4. /\ Commits(db, r.snapshot) = {} /\ Snap(r).disposition = "OFFICIAL"
      /\ Version(db, Snap(r).subject) = r.expected
      /\ LegalTransition(db.projection[Snap(r).subject], r.lifecycle)
  BY StoreNullAssumption DEF Refusal, Refusals
<1>5. Checked(r)
  BY <1>1, <1>2, <1>3, <1>4 DEF Checked
<1>6. db' = Committed(db, Snap(r), r) /\ sealed' = sealed
  BY DEF Execute, Snap
<1>7. Writes(r)
  <2> DEFINE L == Append(db.ledger, Row(r))
             P == [db.projection EXCEPT ![Snap(r).subject] = NextProjection(@, Snap(r), r)]
             C == [p \in Subjects \X Kinds |->
                    IF p[1] = Snap(r).subject /\ p[2] \in Changed(r) THEN NextVersion(p[2], r)
                    ELSE db.current[p]]
             V == db.versions \cup {NextVersion(k, r) : k \in Changed(r)}
             N == db.intents \cup
                    {[event |-> NextVersion(k, r).event, version |-> NextVersion(k, r).version,
                      channel |-> d, kind |-> IntentKind(k, NextVersion(k, r).change)] :
                        k \in Changed(r), d \in Channels}
  <2>1. Committed(db, Snap(r), r) =
          [ledger |-> L, projection |-> P, current |-> C, versions |-> V, intents |-> N]
    BY SMT DEF Committed, Row, Active, Current, NextVersion, Changed
  <2> HIDE DEF L, P, C, V, N
  <2>2. /\ db'.ledger = L /\ db'.projection = P /\ db'.current = C /\ db'.versions = V
        /\ db'.intents = N
    BY <1>6, <2>1
  <2> QED BY <1>6, <2>2 DEF Writes, L, P, C, V, N
<1> QED BY <1>5, <1>7

\* The ledger after a commit: its rows, and the one new row.
LEMMA LedgerGrows ==
  ASSUME TablesOK, NEW r, Checked(r), Writes(r)
  PROVE  /\ db'.ledger \in Seq(LedgerRows)
         /\ Len(db'.ledger) = Len(db.ledger) + 1 /\ Len(db.ledger) \in Nat
         /\ DOMAIN db.ledger = 1 .. Len(db.ledger)
         /\ DOMAIN db'.ledger = 1 .. Len(db.ledger) + 1
         /\ \A i \in DOMAIN db.ledger : db'.ledger[i] = db.ledger[i]
         /\ db'.ledger[Len(db.ledger) + 1] = Row(r)
         /\ Row(r).request = r /\ Row(r).subject = Snap(r).subject /\ Snap(r).subject \in Subjects
         /\ \A k : Active(k, r) = Desired(k, Row(r).effect, Row(r).scout)
<1> DEFINE l == db.ledger
           row == Row(r)
<1>1. l \in Seq(LedgerRows) /\ row \in LedgerRows /\ db'.ledger = Append(l, row)
  BY DEF TablesOK, Checked, Writes
<1>2. /\ row.request = r /\ row.subject = Snap(r).subject /\ Snap(r).subject \in Subjects
      /\ \A k : Active(k, r) = Desired(k, row.effect, row.scout)
  BY DEF Row, Active, Checked, SealedRows
<1> HIDE DEF l, row
<1>3. /\ Append(l, row) \in Seq(LedgerRows) /\ Len(Append(l, row)) = Len(l) + 1 /\ Len(l) \in Nat
      /\ \A i \in 1 .. Len(l) : Append(l, row)[i] = l[i]
      /\ Append(l, row)[Len(l) + 1] = row
      /\ DOMAIN l = 1 .. Len(l) /\ DOMAIN Append(l, row) = 1 .. Len(l) + 1
  BY <1>1, AppendProperties, LenProperties
<1> USE DEF l, row
<1> QED BY <1>1, <1>2, <1>3

\* A snapshot that was not committed before is committed by the new row alone.
LEMMA OneCommitKept ==
  ASSUME SealedOK, TablesOK, LedgerOK, OneCommitPerSnapshot, NEW r, Checked(r), Writes(r)
  PROVE  OneCommitPerSnapshot'
<1> DEFINE n == Len(db.ledger) + 1
<1>1. \A i \in DOMAIN db'.ledger : i \in DOMAIN db.ledger \/ i = n
  BY LedgerGrows
<1>2. \A i \in DOMAIN db.ledger : db'.ledger[i] = db.ledger[i] /\ db.ledger[i].request.snapshot # r.snapshot
  BY LedgerGrows DEF Checked, Commits
<1>3. db'.ledger[n].request = r /\ sealed' = sealed /\ sealed[r.snapshot].disposition = "OFFICIAL"
  BY LedgerGrows DEF Checked, Writes, Snap
<1> HIDE DEF n
<1>4. ASSUME NEW i \in DOMAIN db'.ledger, NEW j \in DOMAIN db'.ledger,
             db'.ledger[i].request.snapshot = db'.ledger[j].request.snapshot
      PROVE  i = j
  <2>1. CASE i \in DOMAIN db.ledger /\ j \in DOMAIN db.ledger
    BY <1>2, <1>4, <2>1 DEF OneCommitPerSnapshot
  <2>2. CASE i = n /\ j \in DOMAIN db.ledger
    BY <1>2, <1>3, <1>4, <2>2
  <2>3. CASE i \in DOMAIN db.ledger /\ j = n
    BY <1>2, <1>3, <1>4, <2>3
  <2> QED BY <1>1, <2>1, <2>2, <2>3
<1>5. ASSUME NEW i \in DOMAIN db'.ledger
      PROVE  sealed'[db'.ledger[i].request.snapshot].disposition = "OFFICIAL"
  BY <1>1, <1>2, <1>3 DEF OneCommitPerSnapshot
<1> QED BY <1>4, <1>5 DEF OneCommitPerSnapshot

-----------------------------------------------------------------------------
\* The positions of a subject in a ledger, those of its AVAILABLE commits, and the last of a set.
At(l, u) == {i \in DOMAIN l : l[i].subject = u}
ValidAt(l, u) == {i \in At(l, u) : l[i].request.lifecycle # Null}
Last(S, m) == m \in S /\ \A j \in S : j <= m

\* What ProjectionFollowsLedger says of one subject, with its last positions named.
Follows(l, p, u) ==
  IF At(l, u) = {} THEN p = Null
  ELSE /\ p.version = Cardinality(At(l, u))
       /\ \E m : /\ Last(At(l, u), m) /\ p.evaluation = l[m].request.snapshot
                 /\ p.effective = l[m].request.lifecycle
       /\ \A i \in At(l, u) : l[i].request.expected = Cardinality({j \in At(l, u) : j < i})
       /\ IF ValidAt(l, u) = {} THEN p.lastValid = Null
          ELSE \E m : Last(ValidAt(l, u), m) /\ p.lastValid = l[m].request.lifecycle

LEMMA LastExists ==
  ASSUME NEW l \in Seq(LedgerRows), NEW S, S \subseteq DOMAIN l, S # {}
  PROVE  \E m : Last(S, m) /\ m = CHOOSE i \in S : \A j \in S : j <= i
<1>1. DOMAIN l = 1 .. Len(l) /\ Len(l) \in Nat
  BY LenProperties
<1>2. PICK m \in S : \A j \in S : j <= m
  BY <1>1, Greatest
<1>3. S \subseteq Int
  BY <1>1
<1> QED BY <1>2, <1>3, LastPosition DEF Last

\* The same with CHOOSE, as ProjectionFollowsLedger has it.
Stated(l, p, u) ==
  IF At(l, u) = {} THEN p = Null
  ELSE /\ p.version = Cardinality(At(l, u))
       /\ LET m == CHOOSE i \in At(l, u) : \A j \in At(l, u) : j <= i
          IN  p.evaluation = l[m].request.snapshot /\ p.effective = l[m].request.lifecycle
       /\ \A i \in At(l, u) : l[i].request.expected = Cardinality({j \in At(l, u) : j < i})
       /\ IF ValidAt(l, u) = {} THEN p.lastValid = Null
          ELSE p.lastValid = l[CHOOSE i \in ValidAt(l, u) :
                                 \A j \in ValidAt(l, u) : j <= i].request.lifecycle

LEMMA FollowsMeans ==
  ASSUME NEW l \in Seq(LedgerRows), NEW p, NEW u
  PROVE  Follows(l, p, u) <=> Stated(l, p, u)
<1> DEFINE m == CHOOSE i \in At(l, u) : \A j \in At(l, u) : j <= i
           v == CHOOSE i \in ValidAt(l, u) : \A j \in ValidAt(l, u) : j <= i
<1>1. At(l, u) # {} => Last(At(l, u), m)
  BY LastExists DEF At
<1>2. ValidAt(l, u) # {} => Last(ValidAt(l, u), v)
  BY LastExists DEF At, ValidAt
<1>3. At(l, u) \subseteq Int /\ ValidAt(l, u) \subseteq At(l, u)
  BY LenProperties DEF At, ValidAt
<1>4. \A i : Last(At(l, u), i) => i = m
  BY <1>3, LastPosition DEF Last
<1>5. \A i : Last(ValidAt(l, u), i) => i = v
  BY <1>3, LastPosition DEF Last
<1> HIDE DEF m, v
<1>6. At(l, u) # {} =>
        ((\E i : Last(At(l, u), i) /\ p.evaluation = l[i].request.snapshot
                                  /\ p.effective = l[i].request.lifecycle)
           <=> p.evaluation = l[m].request.snapshot /\ p.effective = l[m].request.lifecycle)
  BY <1>1, <1>4
<1>7. ValidAt(l, u) # {} =>
        ((\E i : Last(ValidAt(l, u), i) /\ p.lastValid = l[i].request.lifecycle)
           <=> p.lastValid = l[v].request.lifecycle)
  BY <1>2, <1>5
<1> QED BY <1>6, <1>7, Zenon DEF Follows, Stated, m, v

LEMMA ProjectionFollows ==
  ASSUME db.ledger \in Seq(LedgerRows)
  PROVE  ProjectionFollowsLedger <=>
           \A u \in Subjects : Follows(db.ledger, db.projection[u], u)
<1> DEFINE stated(u) ==
         LET valid == {i \in Positions(u) : db.ledger[i].request.lifecycle # Null}
             p == db.projection[u]
         IN  IF Positions(u) = {} THEN p = Null
             ELSE /\ p.version = Cardinality(Positions(u))
                  /\ p.evaluation = LastOf(u).request.snapshot
                  /\ p.effective = LastOf(u).request.lifecycle
                  /\ \A i \in Positions(u) :
                         db.ledger[i].request.expected
                             = Cardinality({j \in Positions(u) : j < i})
                  /\ IF valid = {} THEN p.lastValid = Null
                     ELSE p.lastValid = db.ledger[CHOOSE i \in valid :
                                            \A j \in valid : j <= i].request.lifecycle
<1>1. ASSUME NEW u
      PROVE  stated(u) <=> Follows(db.ledger, db.projection[u], u)
  <2>1. At(db.ledger, u) = Positions(u)
    BY DEF At, Positions
  <2>2. ValidAt(db.ledger, u) = {i \in Positions(u) : db.ledger[i].request.lifecycle # Null}
    BY DEF At, Positions, ValidAt
  <2>3. Follows(db.ledger, db.projection[u], u) <=> Stated(db.ledger, db.projection[u], u)
    BY FollowsMeans
  <2>4. LastOf(u) =
          db.ledger[CHOOSE i \in At(db.ledger, u) : \A j \in At(db.ledger, u) : j <= i]
    BY <2>1 DEF LastOf
  <2>5. CASE Positions(u) = {}
    BY <2>1, <2>3, <2>5 DEF Stated
  <2>6. CASE Positions(u) # {} /\ ValidAt(db.ledger, u) = {}
    BY <2>1, <2>2, <2>3, <2>4, <2>6 DEF Stated
  <2>7. CASE Positions(u) # {} /\ ValidAt(db.ledger, u) # {}
    BY <2>1, <2>2, <2>3, <2>4, <2>7 DEF Stated
  <2> QED BY <2>5, <2>6, <2>7
<1>2. ProjectionFollowsLedger <=> \A u \in Subjects : stated(u)
  BY DEF ProjectionFollowsLedger
<1> HIDE DEF stated
<1> QED BY <1>1, <1>2

-----------------------------------------------------------------------------
\* A commit adds one position, the last, to those of its subject and none to the others.
LEMMA AtGrows ==
  ASSUME TablesOK, NEW r, Checked(r), Writes(r), NEW u
  PROVE  /\ At(db'.ledger, u) = IF u = Snap(r).subject THEN At(db.ledger, u) \cup {Len(db.ledger) + 1}
                                ELSE At(db.ledger, u)
         /\ ValidAt(db'.ledger, u) = IF u = Snap(r).subject /\ r.lifecycle # Null
                                     THEN ValidAt(db.ledger, u) \cup {Len(db.ledger) + 1}
                                     ELSE ValidAt(db.ledger, u)
         /\ IsFiniteSet(At(db.ledger, u)) /\ Cardinality(At(db.ledger, u)) \in Nat
         /\ \A i \in At(db.ledger, u) : i \in Nat /\ i < Len(db.ledger) + 1 /\ db'.ledger[i] = db.ledger[i]
         /\ ValidAt(db.ledger, u) \subseteq At(db.ledger, u)
<1> DEFINE n == Len(db.ledger) + 1
<1>1. /\ DOMAIN db.ledger = 1 .. Len(db.ledger) /\ Len(db.ledger) \in Nat
      /\ DOMAIN db'.ledger = 1 .. n
      /\ \A i \in DOMAIN db.ledger : db'.ledger[i] = db.ledger[i]
      /\ db'.ledger[n] = Row(r) /\ Row(r).request = r /\ Row(r).subject = Snap(r).subject
  BY LedgerGrows
<1>2. 1 .. n = 1 .. Len(db.ledger) \cup {n} /\ n \notin 1 .. Len(db.ledger)
  BY <1>1
<1> HIDE DEF n
<1>3. At(db'.ledger, u) = IF u = Snap(r).subject THEN At(db.ledger, u) \cup {n} ELSE At(db.ledger, u)
  BY <1>1, <1>2 DEF At
<1>4. At(db.ledger, u) \subseteq DOMAIN db.ledger /\ n \notin At(db.ledger, u)
  BY <1>1, <1>2 DEF At
<1>5. ValidAt(db'.ledger, u) = IF u = Snap(r).subject /\ r.lifecycle # Null
                               THEN ValidAt(db.ledger, u) \cup {n} ELSE ValidAt(db.ledger, u)
  <2>1. \A i : i \in ValidAt(db'.ledger, u) <=>
               i \in At(db'.ledger, u) /\ db'.ledger[i].request.lifecycle # Null
    BY DEF ValidAt
  <2>2. \A i : i \in ValidAt(db.ledger, u) <=>
               i \in At(db.ledger, u) /\ db.ledger[i].request.lifecycle # Null
    BY DEF ValidAt
  <2>3. \A i \in At(db.ledger, u) : db'.ledger[i] = db.ledger[i]
    BY <1>1, <1>4
  <2>4. db'.ledger[n].request.lifecycle = r.lifecycle
    BY <1>1
  <2>5. \A i : i \in ValidAt(db'.ledger, u) <=>
               \/ i \in ValidAt(db.ledger, u)
               \/ i = n /\ u = Snap(r).subject /\ r.lifecycle # Null
    <3>1. CASE u = Snap(r).subject
      BY <1>3, <1>4, <2>1, <2>2, <2>3, <2>4, <3>1
    <3>2. CASE u # Snap(r).subject
      BY <1>3, <1>4, <2>1, <2>2, <2>3, <3>2
    <3> QED BY <3>1, <3>2
  <2> QED BY <2>5
<1>6. IsFiniteSet(At(db.ledger, u)) /\ Cardinality(At(db.ledger, u)) \in Nat
  <2>1. IsFiniteSet(DOMAIN db.ledger)
    BY <1>1, FS_Interval
  <2>2. IsFiniteSet(At(db.ledger, u))
    BY <1>4, <2>1, FS_Subset
  <2> QED BY <2>2, FS_CardinalityType
<1>7. \A i \in At(db.ledger, u) : i \in Nat /\ i < n /\ db'.ledger[i] = db.ledger[i]
  BY <1>1, <1>4 DEF n
<1>8. ValidAt(db.ledger, u) \subseteq At(db.ledger, u)
  BY DEF ValidAt
<1> QED BY <1>3, <1>5, <1>6, <1>7, <1>8 DEF n

\* The projection of a subject follows its commits.
LEMMA FollowsKept ==
  ASSUME TablesOK, LedgerOK, NEW r, Checked(r), Writes(r), NEW u \in Subjects,
         Follows(db.ledger, db.projection[u], u)
  PROVE  Follows(db'.ledger, db'.projection[u], u)
<1> DEFINE n == Len(db.ledger) + 1
           p == db.projection[u]
           q == db'.projection[u]
           A == At(db.ledger, u)
           V == ValidAt(db.ledger, u)
<1>1. /\ IsFiniteSet(A) /\ Cardinality(A) \in Nat /\ V \subseteq A
      /\ \A i \in A : i \in Nat /\ i < n /\ db'.ledger[i] = db.ledger[i]
      /\ n \in Nat /\ db'.ledger[n].request = r
  <2>1. n \in Nat /\ db'.ledger[n].request = r
    BY LedgerGrows
  <2> QED BY <2>1, AtGrows
<1>2. CASE u # Snap(r).subject
  <2>1. At(db'.ledger, u) = A /\ ValidAt(db'.ledger, u) = V
    BY <1>2, AtGrows
  <2>2. q = p
    BY <1>2 DEF Writes, TablesOK
  <2> HIDE DEF A, V, p, q
  <2>3. Follows(db.ledger, p, u) /\ A = At(db.ledger, u) /\ V = ValidAt(db.ledger, u)
    BY DEF A, V, p
  <2>4. CASE A = {}
    BY <2>1, <2>2, <2>3, <2>4 DEF Follows, q
  <2>5. CASE A # {}
    <3>1. q.version = Cardinality(A)
      BY <2>2, <2>3, <2>5 DEF Follows
    <3>2. \E m : /\ Last(A, m) /\ q.evaluation = db'.ledger[m].request.snapshot
                 /\ q.effective = db'.ledger[m].request.lifecycle
      BY <1>1, <2>2, <2>3, <2>5 DEF Follows, Last
    <3>3. \A i \in A : db'.ledger[i].request.expected = Cardinality({j \in A : j < i})
      BY <1>1, <2>3, <2>5 DEF Follows
    <3>4. IF V = {} THEN q.lastValid = Null
          ELSE \E m : Last(V, m) /\ q.lastValid = db'.ledger[m].request.lifecycle
      BY <1>1, <2>2, <2>3, <2>5 DEF Follows, Last
    <3> QED BY <2>1, <2>5, <3>1, <3>2, <3>3, <3>4 DEF Follows, q
  <2> QED BY <2>4, <2>5
<1>3. CASE u = Snap(r).subject
  <2>0. n \notin A
    BY <1>1
  <2>1. At(db'.ledger, u) = A \cup {n}
    BY <1>3, AtGrows
  <2>2. ValidAt(db'.ledger, u) = IF r.lifecycle # Null THEN V \cup {n} ELSE V
    BY <1>3, AtGrows
  <2>3. q = NextProjection(p, Snap(r), r) /\ Snap(r).at = r.snapshot
    BY <1>3 DEF Writes, TablesOK, Checked
  <2>4. A = {} <=> p = Null
    BY <1>1, <1>3 DEF Follows, LedgerOK, At
  <2>5. r.expected = Cardinality(A) /\ q.version = 1 + Cardinality(A)
    <3>1. CASE A = {}
      BY <2>3, <2>4, <3>1, <1>3, FS_EmptySet DEF NextProjection, Checked, Version
    <3>2. CASE A # {}
      BY <2>3, <2>4, <3>2, <1>3 DEF NextProjection, Checked, Version, Follows
    <3> QED BY <3>1, <3>2
  <2>6. q.evaluation = r.snapshot /\ q.effective = r.lifecycle
    BY <2>3 DEF NextProjection
  <2>7. q.lastValid = IF r.lifecycle # Null THEN r.lifecycle ELSE IF p = Null THEN Null ELSE p.lastValid
    BY <2>3 DEF NextProjection
  <2>8. Follows(db.ledger, p, u) /\ A = At(db.ledger, u) /\ V = ValidAt(db.ledger, u)
    OBVIOUS
  <2> HIDE DEF A, V, p, q, n
  <2>9. Cardinality(A \cup {n}) = Cardinality(A) + 1
    BY <1>1, <2>0, FS_AddElement
  <2>10. Last(A \cup {n}, n)
    BY <1>1 DEF Last
  <2>11. ASSUME NEW i \in A \cup {n}
         PROVE  db'.ledger[i].request.expected = Cardinality({j \in A \cup {n} : j < i})
    <3>1. CASE i = n
      <4>1. \A j \in A : j < i
        BY <1>1, <3>1
      <4>2. ~(i < n)
        BY <1>1, <3>1
      <4>3. {j \in A \cup {n} : j < i} = A
        BY <4>1, <4>2, <3>1
      <4> QED BY <4>3, <1>1, <2>5, <3>1
    <3>2. CASE i \in A
      <4>1. {j \in A \cup {n} : j < i} = {j \in A : j < i}
        BY <1>1, <3>2
      <4> QED BY <4>1, <1>1, <2>8, <3>2 DEF Follows
    <3> QED BY <3>1, <3>2
  <2>12. IF ValidAt(db'.ledger, u) = {} THEN q.lastValid = Null
         ELSE \E m : Last(ValidAt(db'.ledger, u), m) /\ q.lastValid = db'.ledger[m].request.lifecycle
    <3>1. CASE r.lifecycle # Null
      <4>1. Last(V \cup {n}, n)
        BY <1>1 DEF Last
      <4> QED BY <4>1, <1>1, <2>2, <2>7, <3>1
    <3>2. CASE r.lifecycle = Null /\ V = {}
      <4>1. p = Null \/ p.lastValid = Null
        BY <2>4, <2>8, <3>2 DEF Follows
      <4> QED BY <4>1, <2>2, <2>7, <3>2
    <3>3. CASE r.lifecycle = Null /\ V # {}
      <4>1. A # {} /\ p # Null
        BY <1>1, <2>4, <3>3
      <4>2. PICK m : Last(V, m) /\ p.lastValid = db.ledger[m].request.lifecycle
        BY <4>1, <2>8, <3>3 DEF Follows
      <4>3. db'.ledger[m] = db.ledger[m]
        BY <1>1, <4>2 DEF Last
      <4> QED BY <4>1, <4>2, <4>3, <2>2, <2>7, <3>3
    <3> QED BY <3>1, <3>2, <3>3
  <2>13. q.version = Cardinality(At(db'.ledger, u))
    BY <1>1, <2>1, <2>5, <2>9
  <2>14. \E m : /\ Last(At(db'.ledger, u), m) /\ q.evaluation = db'.ledger[m].request.snapshot
                /\ q.effective = db'.ledger[m].request.lifecycle
    BY <1>1, <2>1, <2>6, <2>10
  <2>15. At(db'.ledger, u) # {}
    BY <2>1
  <2>16. \A i \in At(db'.ledger, u) :
           db'.ledger[i].request.expected = Cardinality({j \in At(db'.ledger, u) : j < i})
    BY <2>1, <2>11
  <2> QED BY <2>12, <2>13, <2>14, <2>15, <2>16 DEF Follows, q
<1> QED BY <1>2, <1>3

\* A commit moves the lifecycle legally from that of the last AVAILABLE commit before it.
LEMMA LifecycleKept ==
  ASSUME TablesOK, LedgerOK, LifecycleMovesLegally, NEW r, Checked(r), Writes(r),
         \A u \in Subjects : Follows(db.ledger, db.projection[u], u)
  PROVE  LifecycleMovesLegally'
<1> DEFINE n == Len(db.ledger) + 1
<1>1. /\ n \in Nat /\ db'.ledger[n] = Row(r) /\ Row(r).request = r /\ Row(r).subject = Snap(r).subject
      /\ DOMAIN db.ledger = 1 .. Len(db.ledger) /\ DOMAIN db'.ledger = 1 .. n /\ Len(db.ledger) \in Nat
      /\ \A i \in DOMAIN db.ledger : db'.ledger[i] = db.ledger[i]
      /\ Snap(r).subject \in Subjects
  <2>1. /\ db'.ledger[n] = Row(r) /\ Row(r).request = r /\ Row(r).subject = Snap(r).subject
        /\ DOMAIN db.ledger = 1 .. Len(db.ledger) /\ DOMAIN db'.ledger = 1 .. n /\ Len(db.ledger) \in Nat
        /\ Snap(r).subject \in Subjects
    BY LedgerGrows
  <2>2. \A i \in DOMAIN db.ledger : db'.ledger[i] = db.ledger[i]
    BY LedgerGrows
  <2> QED BY <2>1, <2>2
<1>2. \A i \in DOMAIN db'.ledger : i = n \/ (i \in DOMAIN db.ledger /\ i < n)
  BY <1>1
<1>3. ASSUME NEW i \in DOMAIN db'.ledger, NEW j \in DOMAIN db'.ledger,
             i < j, db'.ledger[j].subject = db'.ledger[i].subject,
             db'.ledger[i].request.lifecycle # Null, db'.ledger[j].request.lifecycle # Null,
             \A k \in At(db'.ledger, db'.ledger[i].subject) :
               i < k /\ k < j => db'.ledger[k].request.lifecycle = Null
      PROVE  \/ db'.ledger[j].request.lifecycle = db'.ledger[i].request.lifecycle
             \/ db'.ledger[j].request.lifecycle \in Legal[db'.ledger[i].request.lifecycle]
  <2>1. i \in DOMAIN db.ledger /\ i < n /\ db'.ledger[i] = db.ledger[i]
    BY <1>1, <1>2, <1>3
  <2>2. CASE j # n
    <3>1. j \in DOMAIN db.ledger /\ db'.ledger[j] = db.ledger[j]
      BY <1>1, <1>2, <2>2
    <3>2. \A k \in Positions(db.ledger[i].subject) :
            i < k /\ k < j => db.ledger[k].request.lifecycle = Null
      <4>1. \A k \in Positions(db.ledger[i].subject) :
              k \in At(db'.ledger, db'.ledger[i].subject) /\ db'.ledger[k] = db.ledger[k]
        BY <1>1, <2>1 DEF Positions, At
      <4> QED BY <4>1, <1>3
    <3> QED BY <1>3, <2>1, <3>1, <3>2 DEF LifecycleMovesLegally
  <2>3. CASE j = n
    <3> DEFINE u == Snap(r).subject
               p == db.projection[u]
               A == At(db.ledger, u)
               V == ValidAt(db.ledger, u)
    <3>1. i \in V /\ i \in A /\ db'.ledger[j].request.lifecycle = r.lifecycle
      BY <1>1, <1>3, <2>1, <2>3 DEF At, ValidAt
    <3>2. \A k \in A : i < k => db.ledger[k].request.lifecycle = Null
      <4>1. \A k \in A : k \in At(db'.ledger, u) /\ k < n /\ db'.ledger[k] = db.ledger[k]
        BY <1>1 DEF At
      <4>2. db'.ledger[i].subject = u
        BY <1>1, <1>3, <2>3
      <4> QED BY <4>1, <4>2, <1>3, <2>3
    <3>3. \A k \in V : k <= i
      BY <1>1, <3>2 DEF At, ValidAt
    <3>4. \A m : Last(V, m) => m = i
      <4>1. V \subseteq Int
        BY <1>1 DEF At, ValidAt
      <4> HIDE DEF V
      <4> QED BY <3>1, <3>3, <4>1 DEF Last
    <3>5. Follows(db.ledger, p, u)
      BY <1>1
    <3>6. p # Null
      BY <1>1, <3>1 DEF LedgerOK, At
    <3>7. p.lastValid = db.ledger[i].request.lifecycle
      BY <3>1, <3>4, <3>5 DEF Follows
    <3>8. p.effective # Null => p.effective = db.ledger[i].request.lifecycle
      <4>1. PICK m : Last(A, m) /\ p.effective = db.ledger[m].request.lifecycle
        BY <3>1, <3>5 DEF Follows
      <4>2. p.effective # Null => m \in V
        BY <4>1 DEF Last, ValidAt
      <4>3. p.effective # Null => Last(V, m)
        BY <4>1, <4>2 DEF Last, ValidAt
      <4> QED BY <4>1, <4>3, <3>4
    <3>9. Previous(p) = db.ledger[i].request.lifecycle
      BY <3>6, <3>7, <3>8 DEF Previous
    <3>10. LegalTransition(p, r.lifecycle)
      BY DEF Checked
    <3> HIDE DEF p
    <3>11. r.lifecycle = db.ledger[i].request.lifecycle \/ r.lifecycle \in Legal[db.ledger[i].request.lifecycle]
      BY <1>3, <2>1, <3>1, <3>9, <3>10 DEF LegalTransition
    <3> QED BY <2>1, <3>1, <3>11
  <2> QED BY <2>2, <2>3
<1>4. \A u : Positions(u)' = At(db'.ledger, u)
  BY DEF Positions, At
<1> QED BY <1>3, <1>4 DEF LifecycleMovesLegally

\* The version of a projection counts commits, no more than the snapshots there may be.
LEMMA VersionBound ==
  ASSUME IInv, NEW u \in Subjects
  PROVE  Version(db, u) \in 0 .. MaxSnapshots
<1> DEFINE A == At(db.ledger, u)
<1>1. Follows(db.ledger, db.projection[u], u)
  BY ProjectionFollows DEF IInv, TablesOK
<1>2. CASE db.projection[u] = Null
  BY <1>2, SnapshotBoundAssumption DEF Version
<1>3. CASE db.projection[u] # Null
  <2>1. Version(db, u) = Cardinality(A)
    BY <1>1, <1>3 DEF Follows, Version
  <2>2. A \subseteq DOMAIN db.ledger
    BY DEF At
  <2> DEFINE f == [i \in A |-> db.ledger[i].request.snapshot]
  <2>3. f \in Injection(A, Snapshots)
    <3>1. f \in [A -> Snapshots]
      BY <2>2 DEF IInv, LedgerOK, Requests
    <3>2. \A i, j \in A : f[i] = f[j] => i = j
      BY <2>2 DEF IInv, CommittedOnce, OneCommitPerSnapshot
    <3> QED BY <3>1, <3>2 DEF Injection, IsInjective
  <2>4. IsFiniteSet(Snapshots) /\ Cardinality(Snapshots) = MaxSnapshots
    BY FS_Interval, SnapshotBoundAssumption DEF Snapshots
  <2>5. IsFiniteSet(A) /\ Cardinality(A) <= Cardinality(Snapshots)
    <3> HIDE DEF f, A
    <3> QED BY <2>3, <2>4, FS_Injection DEF ExistsInjection
  <2>6. Cardinality(A) \in Nat
    BY <2>5, FS_CardinalityType
  <2> HIDE DEF A
  <2> QED BY <2>1, <2>4, <2>5, <2>6, SnapshotBoundAssumption
<1> QED BY <1>2, <1>3

-----------------------------------------------------------------------------
\* What was committed stays so, and the new snapshot is.
LEMMA CommitsGrow ==
  ASSUME TablesOK, NEW r, Checked(r), Writes(r)
  PROVE  /\ \A s : Commits(db, s) # {} => Commits(db', s) # {}
         /\ Commits(db', r.snapshot) # {}
<1>1. /\ DOMAIN db.ledger \subseteq DOMAIN db'.ledger
      /\ \A i \in DOMAIN db.ledger : db'.ledger[i] = db.ledger[i]
  <2>1. /\ DOMAIN db.ledger = 1 .. Len(db.ledger) /\ DOMAIN db'.ledger = 1 .. Len(db.ledger) + 1
        /\ Len(db.ledger) \in Nat
    BY LedgerGrows
  <2>2. \A i \in DOMAIN db.ledger : db'.ledger[i] = db.ledger[i]
    BY LedgerGrows
  <2> QED BY <2>1, <2>2
<1>2. Len(db.ledger) + 1 \in DOMAIN db'.ledger /\ db'.ledger[Len(db.ledger) + 1].request = r
  <2>1. DOMAIN db'.ledger = 1 .. Len(db.ledger) + 1 /\ Len(db.ledger) \in Nat
    BY LedgerGrows
  <2>2. db'.ledger[Len(db.ledger) + 1].request = r
    BY LedgerGrows
  <2> QED BY <2>1, <2>2
<1> QED BY <1>1, <1>2 DEF Commits

\* The three decisions: an event is created, an open one changed, or an open one resolved.
Decides(c, k, a, s, v) ==
  /\ v \in EventVersions /\ v # Null /\ v.commit = s.at
  /\ v.status = IF a THEN "ACTIVE" ELSE "RESOLVED"
  /\ Open(v) <=> a
  /\ \/ /\ a /\ ~Open(c) /\ v.event = <<s.subject, k, s.at>>
        /\ v.version = 1 /\ v.change = "CREATED"
     \/ /\ Open(c) /\ c \in EventVersions /\ v.event = c.event
        /\ v.version = c.version + 1 /\ v.change # "CREATED"

LEMMA NextEvent ==
  ASSUME NEW c \in EventVersions \cup {Null}, NEW k \in Kinds, NEW a \in BOOLEAN,
         NEW s, s.subject \in Subjects, s.at \in Nat, Change(c, a) # Null
  PROVE  Decides(c, k, a, s, NextEventVersion(c, k, a, s))
<1> DEFINE v == NextEventVersion(c, k, a, s)
<1>1. CASE a /\ ~Open(c)
  <2>1. Change(c, a) = "CREATED"
    BY <1>1 DEF Change
  <2>2. v = [event |-> <<s.subject, k, s.at>>, version |-> 1, status |-> "ACTIVE",
             change |-> "CREATED", commit |-> s.at]
    BY <1>1, <2>1 DEF NextEventVersion
  <2> HIDE DEF v
  <2>3. v \in EventVersions
    BY <2>2 DEF EventVersions
  <2>4. v # Null
    BY <2>3, StoreNullAssumption
  <2>5. Open(v)
    BY <2>2, <2>4 DEF Open
  <2>6. /\ v.commit = s.at /\ v.status = "ACTIVE" /\ v.event = <<s.subject, k, s.at>>
        /\ v.version = 1 /\ v.change = "CREATED"
    BY <2>2
  <2> QED BY <1>1, <2>3, <2>4, <2>5, <2>6 DEF Decides, v
<1>2. CASE Open(c)
  <2>1. c \in EventVersions
    BY <1>2 DEF Open
  <2>2. Change(c, a) = IF a THEN "CHANGED" ELSE "RESOLVED"
    BY <1>2 DEF Change
  <2>3. v = [event |-> c.event, version |-> c.version + 1, status |-> IF a THEN "ACTIVE" ELSE "RESOLVED",
             change |-> IF a THEN "CHANGED" ELSE "RESOLVED", commit |-> s.at]
    BY <2>2 DEF NextEventVersion
  <2> HIDE DEF v
  <2>4. c.event \in Subjects \X Kinds \X Nat /\ c.version \in Nat
    BY <2>1 DEF EventVersions
  <2>5. v \in EventVersions
    BY <2>3, <2>4 DEF EventVersions
  <2>6. v # Null
    BY <2>5, StoreNullAssumption
  <2>7. /\ v.commit = s.at /\ v.event = c.event /\ v.version = c.version + 1 /\ v.change # "CREATED"
        /\ v.status = IF a THEN "ACTIVE" ELSE "RESOLVED"
    BY <2>3
  <2>8. Open(v) <=> v.status = "ACTIVE"
    BY <2>6 DEF Open
  <2>9. Open(v) <=> a
    BY <2>7, <2>8
  <2> QED BY <1>2, <2>1, <2>5, <2>6, <2>7, <2>9 DEF Decides, v
<1>3. a \/ Open(c)
  BY DEF Change
<1> QED BY <1>1, <1>2, <1>3

\* The version a kind gets in a commit follows the rows of its event, none of which resolves it.
LEMMA Decision ==
  ASSUME TablesOK, EventsOK, CurrentOK, NEW r, Checked(r), NEW k \in Changed(r),
         NEW v, v = NextVersion(k, r), NEW O, O = Of(db.versions, v.event)
  PROVE  /\ v \in EventVersions /\ v # Null /\ v.commit = r.snapshot
         /\ v.event[1] = Snap(r).subject /\ v.event[2] = k
         /\ v.event[3] = r.snapshot \/ Commits(db, v.event[3]) # {}
         /\ IsFiniteSet(O) /\ Cardinality(O) \in Nat /\ v.version = Cardinality(O) + 1
         /\ {w.version : w \in O} = 1 .. Cardinality(O)
         /\ \A w \in O : w.status # "RESOLVED"
         /\ v.version = 1 <=> v.change = "CREATED"
         /\ v.status = IF Active(k, r) THEN "ACTIVE" ELSE "RESOLVED"
         /\ Open(v) <=> Active(k, r)
         /\ Current(k, r) # Null /\ Current(k, r).event # v.event => ~Open(Current(k, r))
<1> DEFINE c == Current(k, r)
           a == Active(k, r)
           u == Snap(r).subject
<1>1. u \in Subjects /\ Snap(r).at = r.snapshot /\ r.snapshot \in Nat
  BY DEF Checked, SealedRows, Requests, Snapshots
<1>2. k \in Kinds /\ Change(c, a) # Null /\ a \in BOOLEAN
  BY DEF Changed, Active, Desired
<1>3. c = db.current[u, k] /\ c \in EventVersions \cup {Null}
  BY <1>1, <1>2 DEF Current, TablesOK
<1>4. v = NextEventVersion(c, k, a, Snap(r))
  BY DEF NextVersion
<1> HIDE DEF c, a
<1>5. /\ v \in EventVersions /\ v # Null /\ v.commit = r.snapshot
      /\ v.status = IF a THEN "ACTIVE" ELSE "RESOLVED"
      /\ Open(v) <=> a
      /\ \/ /\ a /\ ~Open(c) /\ v.event = <<u, k, r.snapshot>>
            /\ v.version = 1 /\ v.change = "CREATED"
         \/ /\ Open(c) /\ c \in EventVersions /\ v.event = c.event
            /\ v.version = c.version + 1 /\ v.change # "CREATED"
  <2>1. Decides(c, k, a, Snap(r), v)
    BY <1>1, <1>2, <1>3, <1>4, NextEvent
  <2> QED BY <1>1, <2>1 DEF Decides
<1>6. CASE a /\ ~Open(c) /\ v.event = <<u, k, r.snapshot>> /\ v.version = 1 /\ v.change = "CREATED"
  <2>1. O = {}
    <3>1. \A w \in db.versions : Commits(db, w.event[3]) # {}
      BY DEF EventsOK
    <3>2. \A w \in db.versions : w.event # v.event
      BY <1>6, <3>1 DEF Checked
    <3> QED BY <3>2 DEF Of
  <2>2. IsFiniteSet(O) /\ Cardinality(O) = 0
    BY <2>1, FS_EmptySet
  <2>3. {w.version : w \in O} = 1 .. 0
    BY <2>1
  <2>4. v.event[1] = u /\ v.event[2] = k /\ v.event[3] = r.snapshot
    BY <1>6
  <2> QED BY <1>5, <1>6, <2>1, <2>2, <2>3, <2>4 DEF c, a
<1>7. CASE Open(c) /\ c \in EventVersions /\ v.event = c.event /\ v.version = c.version + 1
           /\ v.change # "CREATED"
  <2>1. /\ c \in db.versions /\ c.event[1] = u /\ c.event[2] = k /\ c \in O
        /\ c.version = Cardinality(O) /\ c.status # "RESOLVED"
    <3>1. c # Null /\ c.status = "ACTIVE"
      BY <1>7 DEF Open
    <3>2. /\ c \in db.versions /\ c.event[1] = u /\ c.event[2] = k
          /\ c.version = Cardinality(Of(db.versions, c.event))
      BY <1>1, <1>2, <1>3, <3>1 DEF CurrentOK
    <3>3. Of(db.versions, c.event) = O
      BY <1>7
    <3>4. c \in O
      BY <3>2, <3>3 DEF Of
    <3> QED BY <3>1, <3>2, <3>3, <3>4
  <2>2. /\ Commits(db, c.event[3]) # {} /\ IsFiniteSet(O)
        /\ {w.version : w \in O} = 1 .. Cardinality(O)
    BY <1>7, <2>1 DEF EventsOK
  <2>3. \A w \in O : w \in db.versions /\ Of(db.versions, w.event) = O
    BY DEF Of
  <2>4. \A w \in O : w.status # "RESOLVED"
    <3>1. SUFFICES ASSUME NEW w \in O, w.status = "RESOLVED" PROVE FALSE
      OBVIOUS
    <3>2. w.version = Cardinality(O)
      BY <2>3, <3>1 DEF EventsOK
    <3>3. w = c
      BY <2>1, <2>3, <3>2 DEF EventsOK
    <3> QED BY <2>1, <3>1, <3>3
  <2>5. Cardinality(O) \in Nat
    BY <2>2, FS_CardinalityType
  <2>6. Cardinality(O) # 0
    BY <2>1, <2>2, FS_EmptySet
  <2>7. v.version # 1
    BY <1>7, <2>1, <2>5, <2>6
  <2> QED BY <1>5, <1>7, <2>1, <2>2, <2>4, <2>5, <2>7 DEF c, a
<1> QED BY <1>5, <1>6, <1>7

\* A commit adds its version to the rows of an event and leaves those of the others.
LEMMA RowsGrow ==
  ASSUME TablesOK, EventsOK, CurrentOK, NEW r, Checked(r), Writes(r)
  PROVE  /\ \A k \in Changed(r) :
              /\ NextVersion(k, r) \in db'.versions
              /\ NextVersion(k, r) \notin Of(db.versions, NextVersion(k, r).event)
              /\ Of(db'.versions, NextVersion(k, r).event)
                   = Of(db.versions, NextVersion(k, r).event) \cup {NextVersion(k, r)}
         /\ \A e : (\A k \in Changed(r) : NextVersion(k, r).event # e)
                     => Of(db'.versions, e) = Of(db.versions, e)
<1>1. \A w : w \in db'.versions <=> w \in db.versions \/ (\E k \in Changed(r) : w = NextVersion(k, r))
  BY DEF Writes
<1>2. ASSUME NEW k \in Changed(r)
      PROVE  /\ NextVersion(k, r) \in db'.versions
             /\ NextVersion(k, r) \notin Of(db.versions, NextVersion(k, r).event)
             /\ Of(db'.versions, NextVersion(k, r).event)
                  = Of(db.versions, NextVersion(k, r).event) \cup {NextVersion(k, r)}
  <2> DEFINE v == NextVersion(k, r)
             O == Of(db.versions, v.event)
  <2>1. Cardinality(O) \in Nat /\ v.version = Cardinality(O) + 1
        /\ {w.version : w \in O} = 1 .. Cardinality(O)
    BY Decision
  <2>2. \A m \in Changed(r) : NextVersion(m, r).event[2] = m
    BY Decision
  <2>3. v \in db'.versions
    BY <1>1
  <2>4. v \notin O
    <3> HIDE DEF O, v
    <3> QED BY <2>1
  <2>5. \A m \in Changed(r) : NextVersion(m, r).event = v.event => NextVersion(m, r) = v
    BY <2>2
  <2>6. \A w : w \in Of(db'.versions, v.event) <=> w \in O \/ w = v
    <3> HIDE DEF v
    <3>1. v \in db'.versions /\ \A w \in db.versions : w \in db'.versions
      BY <1>1, <2>3
    <3> QED BY <1>1, <2>5, <3>1 DEF Of
  <2> QED BY <2>3, <2>4, <2>6
<1>3. ASSUME NEW e, \A k \in Changed(r) : NextVersion(k, r).event # e
      PROVE  Of(db'.versions, e) = Of(db.versions, e)
  BY <1>1, <1>3 DEF Of
<1> QED BY <1>2, <1>3

LEMMA EventsKept ==
  ASSUME TablesOK, EventsOK, CurrentOK, NEW r, Checked(r), Writes(r)
  PROVE  EventsOK'
<1> SUFFICES ASSUME NEW v \in db'.versions
    PROVE  /\ Commits(db', v.event[3]) # {}
           /\ IsFiniteSet(Of(db'.versions, v.event))
           /\ {w.version : w \in Of(db'.versions, v.event)} = 1 .. Cardinality(Of(db'.versions, v.event))
           /\ v.version = 1 <=> v.change = "CREATED"
           /\ v.status = "RESOLVED" => v.version = Cardinality(Of(db'.versions, v.event))
           /\ \A w \in Of(db'.versions, v.event) : w.version = v.version => w = v
  BY Zenon DEF EventsOK, Of
<1> DEFINE P == Of(db'.versions, v.event)
<1>1. v \in db.versions \/ \E k \in Changed(r) : v = NextVersion(k, r)
  BY DEF Writes
<1>2. CASE \A k \in Changed(r) : NextVersion(k, r).event # v.event
  <2>1. v \in db.versions /\ Of(db'.versions, v.event) = Of(db.versions, v.event)
    BY <1>1, <1>2, RowsGrow
  <2>2. Commits(db', v.event[3]) # {}
    BY <2>1, CommitsGrow DEF EventsOK
  <2> QED BY <2>1, <2>2 DEF EventsOK
<1>3. ASSUME NEW k \in Changed(r), NextVersion(k, r).event = v.event
      PROVE  /\ Commits(db', v.event[3]) # {}
             /\ IsFiniteSet(P)
             /\ {w.version : w \in P} = 1 .. Cardinality(P)
             /\ v.version = 1 <=> v.change = "CREATED"
             /\ v.status = "RESOLVED" => v.version = Cardinality(P)
             /\ \A w \in P : w.version = v.version => w = v
  <2> DEFINE n == NextVersion(k, r)
             O == Of(db.versions, n.event)
  <2>1. n.event[3] = r.snapshot \/ Commits(db, n.event[3]) # {}
    BY Decision
  <2>2. /\ IsFiniteSet(O) /\ Cardinality(O) \in Nat /\ n.version = Cardinality(O) + 1
        /\ {w.version : w \in O} = 1 .. Cardinality(O)
        /\ \A w \in O : w.status # "RESOLVED"
        /\ n.version = 1 <=> n.change = "CREATED"
    BY Decision
  <2>3. P = O \cup {n} /\ n \notin O
    BY <1>3, RowsGrow
  <2>4. v \in P
    BY DEF Of
  <2>5. n.event = v.event
    BY <1>3
  <2>6. \A w \in O : w \in db.versions /\ Of(db.versions, w.event) = O
    BY DEF Of
  <2> HIDE DEF n, O, P
  <2>7. Commits(db', v.event[3]) # {}
    BY <2>1, <2>5, CommitsGrow
  <2>8. IsFiniteSet(P) /\ Cardinality(P) = Cardinality(O) + 1
    BY <2>2, <2>3, FS_AddElement
  <2>9. {w.version : w \in P} = 1 .. Cardinality(P)
    <3>1. {w.version : w \in P} = {w.version : w \in O} \cup {n.version}
      BY <2>3
    <3> QED BY <2>2, <2>8, <3>1
  <2>10. v.version = 1 <=> v.change = "CREATED"
    <3>1. CASE v = n
      BY <2>2, <3>1
    <3>2. CASE v \in O
      BY <2>6, <3>2 DEF EventsOK
    <3> QED BY <2>3, <2>4, <3>1, <3>2
  <2>11. v.status = "RESOLVED" => v.version = Cardinality(P)
    BY <2>2, <2>3, <2>4, <2>8
  <2>12. \A w \in O : w.version \in 1 .. Cardinality(O)
    BY <2>2
  <2>13. \A w \in P : w.version = v.version => w = v
    <3>1. CASE v = n
      BY <2>2, <2>3, <2>12, <3>1
    <3>2. CASE v \in O
      <4>1. \A w \in O : w.version = v.version => w = v
        BY <2>6, <3>2 DEF EventsOK
      <4> QED BY <2>2, <2>3, <2>12, <3>2, <4>1
    <3> QED BY <2>3, <2>4, <3>1, <3>2
  <2> QED BY <2>7, <2>8, <2>9, <2>10, <2>11, <2>13
<1> QED BY <1>2, <1>3

LEMMA CurrentKept ==
  ASSUME TablesOK, EventsOK, CurrentOK, NEW r, Checked(r), Writes(r)
  PROVE  CurrentOK'
<1> SUFFICES ASSUME NEW u \in Subjects, NEW k \in Kinds
    PROVE  /\ db'.current[u, k] # Null =>
                /\ db'.current[u, k] \in db'.versions
                /\ db'.current[u, k].event[1] = u /\ db'.current[u, k].event[2] = k
                /\ db'.current[u, k].version = Cardinality(Of(db'.versions, db'.current[u, k].event))
           /\ \A v \in db'.versions : v.event[1] = u /\ v.event[2] = k =>
                /\ db'.current[u, k] # Null
                /\ \/ v.event = db'.current[u, k].event
                   \/ \E w \in Of(db'.versions, v.event) : w.status = "RESOLVED"
  BY Zenon DEF CurrentOK, Of
<1> DEFINE c == db.current[u, k]
           d == db'.current[u, k]
<1>1. \A w : w \in db'.versions <=> w \in db.versions \/ (\E m \in Changed(r) : w = NextVersion(m, r))
  BY DEF Writes
<1>2. \A m \in Changed(r) : NextVersion(m, r).event[1] = Snap(r).subject /\ NextVersion(m, r).event[2] = m
  BY Decision
<1>3. d = IF u = Snap(r).subject /\ k \in Changed(r) THEN NextVersion(k, r) ELSE c
  BY DEF Writes
<1>4. c # Null => /\ c \in db.versions /\ c.event[1] = u /\ c.event[2] = k
                  /\ c.version = Cardinality(Of(db.versions, c.event))
  BY DEF CurrentOK
<1>5. \A v \in db.versions : v.event[1] = u /\ v.event[2] = k =>
         /\ c # Null
         /\ \/ v.event = c.event
            \/ \E w \in Of(db.versions, v.event) : w.status = "RESOLVED"
  BY DEF CurrentOK
<1>6. CASE u = Snap(r).subject /\ k \in Changed(r)
  <2> DEFINE n == NextVersion(k, r)
             O == Of(db.versions, n.event)
             P == Of(db'.versions, n.event)
  <2>1. /\ IsFiniteSet(O) /\ Cardinality(O) \in Nat /\ n.version = Cardinality(O) + 1 /\ n # Null
    BY <1>6, Decision
  <2>2. n \in db'.versions /\ P = O \cup {n} /\ n \notin O
    BY <1>6, RowsGrow
  <2>3. n.event[1] = u /\ n.event[2] = k /\ d = n
    BY <1>2, <1>3, <1>6
  <2>4. Current(k, r) = c
    BY <1>6 DEF Current
  <2>5. c # Null /\ c.event # n.event => ~Open(c)
    <3>1. Current(k, r) # Null /\ Current(k, r).event # n.event => ~Open(Current(k, r))
      BY <1>6, Decision
    <3> QED BY <2>4, <3>1
  <2> HIDE DEF n, O, P, d
  <2>6. n.version = Cardinality(P)
    BY <2>1, <2>2, FS_AddElement
  <2>7. ASSUME NEW v \in db'.versions, v.event[1] = u, v.event[2] = k, v.event # n.event
        PROVE  \E w \in Of(db'.versions, v.event) : w.status = "RESOLVED"
    <3>1. \A m \in Changed(r) : NextVersion(m, r).event # v.event
      BY <1>2, <1>6, <2>7 DEF n
    <3>2. v \in db.versions /\ Of(db'.versions, v.event) = Of(db.versions, v.event)
      BY <1>1, <3>1, RowsGrow
    <3>3. c # Null /\ (v.event = c.event \/ \E w \in Of(db.versions, v.event) : w.status = "RESOLVED")
      BY <1>5, <2>7, <3>2
    <3>4. CASE v.event = c.event
      <4>1. c \in db.versions /\ c.status # "ACTIVE"
        BY <1>4, <2>5, <2>7, <3>3, <3>4 DEF Open
      <4>2. c.status = "RESOLVED"
        BY <4>1 DEF TablesOK, EventVersions
      <4>3. c \in Of(db.versions, v.event)
        BY <3>4, <4>1 DEF Of
      <4> QED BY <3>2, <4>2, <4>3
    <3> QED BY <3>2, <3>3, <3>4
  <2>8. d = n
    BY <2>3
  <2> QED BY <2>1, <2>2, <2>3, <2>6, <2>7 DEF P, d
<1>7. CASE ~(u = Snap(r).subject /\ k \in Changed(r))
  <2>1. d = c
    BY <1>3, <1>7
  <2>2. \A e : e[1] = u /\ e[2] = k => Of(db'.versions, e) = Of(db.versions, e)
    <3>1. \A e : e[1] = u /\ e[2] = k => \A m \in Changed(r) : NextVersion(m, r).event # e
      BY <1>2, <1>7
    <3> QED BY <3>1, RowsGrow
  <2>3. \A v \in db'.versions : v.event[1] = u /\ v.event[2] = k => v \in db.versions
    BY <1>1, <1>2, <1>7
  <2>4. \A v \in db.versions : v \in db'.versions
    BY <1>1
  <2> HIDE DEF d
  <2> HIDE DEF c
  <2>5. d # Null => /\ d \in db'.versions /\ d.event[1] = u /\ d.event[2] = k
                    /\ d.version = Cardinality(Of(db'.versions, d.event))
    BY <1>4, <2>1, <2>2, <2>4
  <2>6. \A v \in db'.versions : v.event[1] = u /\ v.event[2] = k =>
           /\ d # Null
           /\ \/ v.event = d.event
              \/ \E w \in Of(db'.versions, v.event) : w.status = "RESOLVED"
    BY <1>5, <2>1, <2>2, <2>3
  <2> QED BY <2>5, <2>6 DEF d
<1> QED BY <1>6, <1>7

\* After a commit the open events of its subject are those its evaluations call for, with an
\* intent on every channel; those of the others are as they were.
LEMMA ReflectionKept ==
  ASSUME TablesOK, EventsOK, CurrentOK, EventsReflectLastCommit, NEW r, Checked(r), Writes(r)
  PROVE  EventsReflectLastCommit'
<1> SUFFICES ASSUME NEW u \in Subjects, NEW k \in Kinds
    PROVE  LET current == db'.current[u, k]
               last == LastOf(u)'
           IN  IF Positions(u)' = {} THEN current = Null
               ELSE /\ Open(current) <=> Desired(k, last.effect, last.scout)
                    /\ Open(current) =>
                         /\ current.commit = last.request.snapshot
                         /\ \A c \in Channels : \E n \in db'.intents :
                              /\ n.event = current.event /\ n.version = current.version
                              /\ n.channel = c
                    /\ \A v \in db'.versions :
                         v.event[1] = u /\ v.event[2] = k /\ v.event = current.event
                           => v.version <= current.version
  BY Zenon DEF EventsReflectLastCommit, KeyVersions
<1> DEFINE d == db'.current[u, k]
           c == db.current[u, k]
           n == Len(db.ledger) + 1
           S == Snap(r).subject
<1>1. Positions(u)' = At(db'.ledger, u) /\ Positions(u) = At(db.ledger, u)
  BY DEF Positions, At
<1>2. At(db'.ledger, u) = IF u = S THEN At(db.ledger, u) \cup {n} ELSE At(db.ledger, u)
  BY AtGrows
<1>3. \A i \in At(db.ledger, u) : i \in Nat /\ i < n /\ db'.ledger[i] = db.ledger[i]
  BY AtGrows
<1>4. n \in Nat /\ db'.ledger[n] = Row(r) /\ Row(r).request = r
  <2>1. n \in Nat
    BY LedgerGrows
  <2>2. db'.ledger[n] = Row(r) /\ Row(r).request = r
    BY LedgerGrows
  <2> QED BY <2>1, <2>2
<1>5. d = IF u = S /\ k \in Changed(r) THEN NextVersion(k, r) ELSE c
  BY DEF Writes
<1>6. ASSUME NEW v \in db'.versions, v.event[1] = u, v.event[2] = k, d # Null, v.event = d.event
      PROVE  v.version <= d.version
  <2>1. EventsOK' /\ CurrentOK'
    BY EventsKept, CurrentKept
  <2>2. /\ d.version = Cardinality(Of(db'.versions, d.event))
    BY <1>6, <2>1 DEF CurrentOK
  <2>3. v \in Of(db'.versions, d.event) /\ v \in db'.versions
    BY <1>6 DEF Of
  <2>4. {w.version : w \in Of(db'.versions, v.event)} = 1 .. Cardinality(Of(db'.versions, v.event))
    BY <2>1, <2>3 DEF EventsOK
  <2>5. Cardinality(Of(db'.versions, v.event)) \in Nat
    BY <2>1, <2>3, FS_CardinalityType DEF EventsOK
  <2> DEFINE P == Of(db'.versions, v.event)
  <2>6. v \in P /\ d.version = Cardinality(P)
    BY <1>6, <2>2, <2>3
  <2> HIDE DEF P, d
  <2> QED BY <2>4, <2>5, <2>6 DEF P
<1>7. \A v \in db'.versions : v.event[1] = u /\ v.event[2] = k => d # Null
  <2>1. CurrentOK'
    BY CurrentKept
  <2> QED BY <2>1 DEF CurrentOK
<1>8. \A v \in db'.versions : v.event[1] = u /\ v.event[2] = k /\ v.event = d.event
                                => v.version <= d.version
  BY <1>6, <1>7
<1>9. CASE u = S
  <2>1. LastOf(u)' = Row(r)
    <3> DEFINE A == At(db'.ledger, u)
    <3>1. A \subseteq Int /\ n \in A /\ \A j \in A : j <= n
      BY <1>2, <1>3, <1>4, <1>9
    <3>2. LastOf(u)' = db'.ledger[CHOOSE i \in A : \A j \in A : j <= i]
      BY <1>1 DEF LastOf
    <3> HIDE DEF A, n
    <3>3. (CHOOSE i \in A : \A j \in A : j <= i) = n
      BY <3>1, LastPosition
    <3> QED BY <1>4, <3>2, <3>3
  <2>2. Active(k, r) = Desired(k, Row(r).effect, Row(r).scout)
    BY LedgerGrows
  <2>3. Current(k, r) = c
    BY <1>9 DEF Current
  <2>4. CASE k \in Changed(r)
    <3>1. d = NextVersion(k, r)
      BY <1>5, <1>9, <2>4
    <3>2. (Open(d) <=> Active(k, r)) /\ d.commit = r.snapshot
      <4>1. /\ Open(NextVersion(k, r)) <=> Active(k, r)
            /\ NextVersion(k, r).commit = r.snapshot
        BY <2>4, Decision
      <4> QED BY <3>1, <4>1
    <3>3. \A h \in Channels :
            [event |-> d.event, version |-> d.version, channel |-> h, kind |-> IntentKind(k, d.change)]
              \in db'.intents
      <4> DEFINE v == NextVersion(k, r)
      <4>1. \A h \in Channels :
              [event |-> v.event, version |-> v.version, channel |-> h, kind |-> IntentKind(k, v.change)]
                \in db'.intents
        BY <2>4 DEF Writes
      <4> QED BY <3>1, <4>1
    <3>4. \A h \in Channels : \E m \in db'.intents :
            m.event = d.event /\ m.version = d.version /\ m.channel = h
      BY <3>3
    <3>5. Positions(u)' # {}
      BY <1>1, <1>2, <1>9
    <3> HIDE DEF d
    <3>6. Open(d) <=> Desired(k, LastOf(u)'.effect, LastOf(u)'.scout)
      BY <2>1, <2>2, <3>2
    <3>7. d.commit = LastOf(u)'.request.snapshot
      BY <1>4, <2>1, <3>2
    <3> QED BY <1>8, <3>4, <3>5, <3>6, <3>7 DEF d
  <2>5. CASE k \notin Changed(r)
    <3>1. Change(c, Active(k, r)) = Null
      BY <2>3, <2>5 DEF Changed
    <3>2. ~Open(c) /\ ~Active(k, r)
      BY <3>1, StoreNullAssumption DEF Change
    <3>3. d = c
      BY <1>5, <2>5
    <3>4. Positions(u)' # {}
      BY <1>1, <1>2, <1>9
    <3>5. ~Open(d) /\ ~Desired(k, LastOf(u)'.effect, LastOf(u)'.scout)
      BY <2>1, <2>2, <3>2, <3>3
    <3> HIDE DEF d
    <3> QED BY <1>8, <3>4, <3>5 DEF d
  <2> QED BY <2>4, <2>5
<1>10. CASE u # S
  <2>1. d = c /\ Positions(u)' = Positions(u)
    BY <1>1, <1>2, <1>5, <1>10
  <2>2. CASE Positions(u) = {}
    BY <2>1, <2>2 DEF EventsReflectLastCommit
  <2>3. CASE Positions(u) # {}
    <3>1. LastOf(u)' = LastOf(u)
      <4> DEFINE m == CHOOSE i \in At(db.ledger, u) : \A j \in At(db.ledger, u) : j <= i
      <4>1. Last(At(db.ledger, u), m)
        <5>1. At(db.ledger, u) # {} /\ At(db.ledger, u) \subseteq DOMAIN db.ledger
          BY <1>1, <2>3 DEF At
        <5>2. db.ledger \in Seq(LedgerRows)
          BY DEF TablesOK
        <5> QED BY <5>1, <5>2, LastExists
      <4>2. LastOf(u) = db.ledger[m] /\ LastOf(u)' = db'.ledger[m]
        BY <1>1, <2>1 DEF LastOf
      <4>3. m \in At(db.ledger, u)
        BY <4>1 DEF Last
      <4> HIDE DEF m
      <4> QED BY <1>3, <4>2, <4>3
    <3>2. db.intents \subseteq db'.intents
      BY DEF Writes
    <3>3. /\ Open(c) <=> Desired(k, LastOf(u).effect, LastOf(u).scout)
          /\ Open(c) =>
               /\ c.commit = LastOf(u).request.snapshot
               /\ \A h \in Channels : \E i \in db.intents :
                    i.event = c.event /\ i.version = c.version /\ i.channel = h
      BY <2>3 DEF EventsReflectLastCommit
    <3> HIDE DEF d, c
    <3>4. Open(d) => \A h \in Channels : \E i \in db'.intents :
            i.event = d.event /\ i.version = d.version /\ i.channel = h
      BY <2>1, <3>2, <3>3
    <3>5. /\ Open(d) <=> Desired(k, LastOf(u)'.effect, LastOf(u)'.scout)
          /\ Open(d) => d.commit = LastOf(u)'.request.snapshot
      BY <2>1, <3>1, <3>3
    <3> QED BY <1>8, <2>1, <2>3, <3>4, <3>5 DEF d
  <2> QED BY <2>2, <2>3
<1> QED BY <1>9, <1>10

-----------------------------------------------------------------------------
\* ProjectionFollows in the next state.
LEMMA ProjectionFollowsNext ==
  (db.ledger \in Seq(LedgerRows) =>
     (ProjectionFollowsLedger <=> \A u \in Subjects : Follows(db.ledger, db.projection[u], u)))'
<1>1. db.ledger \in Seq(LedgerRows) =>
        (ProjectionFollowsLedger <=> \A u \in Subjects : Follows(db.ledger, db.projection[u], u))
  BY ProjectionFollows
<1> QED BY <1>1, PTL

\* The rows a commit writes have the types of their tables.
LEMMA ProjectionTyped ==
  ASSUME TablesOK, NEW r, Checked(r)
  PROVE  NextProjection(db.projection[Snap(r).subject], Snap(r), r) \in ProjectionRows
<1> DEFINE p == db.projection[Snap(r).subject]
<1>1. p \in ProjectionRows \cup {Null}
  BY DEF Checked, SealedRows, TablesOK
<1>2. /\ r.availability \in Availabilities /\ r.lifecycle \in Lifecycles \cup {Null}
      /\ r.snapshot \in Nat /\ Snap(r).at = r.snapshot
  BY DEF Checked, Requests, Snapshots
<1> HIDE DEF p
<1>3. CASE p = Null
  BY <1>2, <1>3 DEF NextProjection, ProjectionRows, p
<1>4. CASE p # Null
  <2>1. /\ p.lastValid \in Lifecycles \cup {Null} /\ p.lastValidAt \in Nat \cup {Null}
        /\ p.version \in Nat
    BY <1>1, <1>4 DEF ProjectionRows
  <2> QED BY <1>2, <1>4, <2>1 DEF NextProjection, ProjectionRows, p
<1> QED BY <1>3, <1>4

LEMMA TablesKept ==
  ASSUME TablesOK, EventsOK, CurrentOK, NEW r, Checked(r), Writes(r)
  PROVE  TablesOK'
<1> DEFINE u == Snap(r).subject
           q == NextProjection(db.projection[u], Snap(r), r)
<1>1. db'.ledger \in Seq(LedgerRows)
  BY LedgerGrows
<1>2. db'.projection \in [Subjects -> ProjectionRows \cup {Null}]
  <2>1. q \in ProjectionRows
    BY ProjectionTyped
  <2>2. db'.projection = [db.projection EXCEPT ![u] = q]
    BY DEF Writes
  <2> HIDE DEF q
  <2> QED BY <2>1, <2>2 DEF TablesOK
<1>3. \A k \in Changed(r) : NextVersion(k, r) \in EventVersions
  BY Decision
<1>4. db'.current \in [Subjects \X Kinds -> EventVersions \cup {Null}]
  BY <1>3 DEF Writes, TablesOK
<1>5. db'.versions \subseteq EventVersions
  BY <1>3 DEF Writes, TablesOK
<1> QED BY <1>1, <1>2, <1>4, <1>5 DEF TablesOK

LEMMA LedgerKept ==
  ASSUME TablesOK, LedgerOK, NEW r, Checked(r), Writes(r)
  PROVE  LedgerOK'
<1> DEFINE n == Len(db.ledger) + 1
           u == Snap(r).subject
<1>1. /\ DOMAIN db.ledger = 1 .. Len(db.ledger) /\ DOMAIN db'.ledger = 1 .. n /\ Len(db.ledger) \in Nat
      /\ db'.ledger[n] = Row(r) /\ Row(r).request = r /\ Row(r).subject = u /\ u \in Subjects
  BY LedgerGrows
<1>2. \A i \in DOMAIN db.ledger : db'.ledger[i] = db.ledger[i]
  BY LedgerGrows
<1>3. \A i \in DOMAIN db'.ledger : i = n \/ i \in DOMAIN db.ledger
  BY <1>1
<1>4. sealed' = sealed /\ r \in Requests /\ r.snapshot \in DOMAIN sealed
  BY DEF Writes, Checked
<1>5. \A v \in Subjects : (v = u \/ db.projection[v] # Null) => db'.projection[v] # Null
  <2> DEFINE q == NextProjection(db.projection[u], Snap(r), r)
  <2>1. q \in ProjectionRows
    BY ProjectionTyped
  <2>2. db'.projection = [db.projection EXCEPT ![u] = q]
    BY DEF Writes
  <2> HIDE DEF q
  <2> QED BY <2>1, <2>2, StoreNullAssumption DEF TablesOK
<1>6. \A i \in DOMAIN db.ledger : db.ledger[i].subject \in Subjects
  <2>1. \A i \in DOMAIN db.ledger : db.ledger[i] \in LedgerRows
    BY <1>1, ElementOfSeq DEF TablesOK
  <2> QED BY <2>1 DEF LedgerRows
<1> HIDE DEF n, u
<1>7. ASSUME NEW i \in DOMAIN db'.ledger
      PROVE  /\ db'.ledger[i].request \in Requests
             /\ db'.ledger[i].request.snapshot \in DOMAIN sealed'
             /\ db'.projection[db'.ledger[i].subject] # Null
  <2>1. CASE i = n
    BY <1>1, <1>4, <1>5, <2>1
  <2>2. CASE i \in DOMAIN db.ledger
    BY <1>2, <1>4, <1>5, <1>6, <2>2 DEF LedgerOK
  <2> QED BY <1>3, <2>1, <2>2
<1> QED BY <1>7 DEF LedgerOK

-----------------------------------------------------------------------------
\* A caller's step leaves its progress and its answers well founded: what it waits for was
\* sealed, and a commit it was told of is in the ledger, which only grows.
LEMMA CallerMoves ==
  ASSUME CallersOK, AnswersAreDurable, NEW c \in Callers, NEW x \in CallerRows,
         caller' = [caller EXCEPT ![c] = x],
         DOMAIN sealed \subseteq DOMAIN sealed',
         x.pc = "idle" \/ x.answer = Null,
         x.pc = "sealed" => x.snapshot \in DOMAIN sealed',
         x.pc \in {"requested", "submitted"} =>
           x.request \in Requests /\ x.request.snapshot \in DOMAIN sealed',
         x.answer = "COMMITTED" => \E i \in DOMAIN db'.ledger : db'.ledger[i].request = x.request,
         DOMAIN db.ledger \subseteq DOMAIN db'.ledger,
         \A i \in DOMAIN db.ledger : db'.ledger[i] = db.ledger[i]
  PROVE  CallersOK' /\ AnswersAreDurable'
<1>1. caller \in [Callers -> CallerRows]
  BY DEF CallersOK
<1>2. caller' \in [Callers -> CallerRows]
  BY <1>1
<1>3. caller'[c] = x /\ \A d \in Callers : d # c => caller'[d] = caller[d]
  BY <1>1
<1>4. ASSUME NEW d \in Callers
      PROVE  /\ caller'[d].pc = "idle" \/ caller'[d].answer = Null
             /\ caller'[d].pc = "sealed" => caller'[d].snapshot \in DOMAIN sealed'
             /\ caller'[d].pc \in {"requested", "submitted"} =>
                  caller'[d].request \in Requests /\ caller'[d].request.snapshot \in DOMAIN sealed'
             /\ caller'[d].answer = "COMMITTED" =>
                  \E i \in DOMAIN db'.ledger : db'.ledger[i].request = caller'[d].request
  <2>1. CASE d = c
    BY <1>3, <2>1
  <2>2. CASE d # c
    <3>1. /\ caller[d].pc = "idle" \/ caller[d].answer = Null
          /\ caller[d].pc = "sealed" => caller[d].snapshot \in DOMAIN sealed
          /\ caller[d].pc \in {"requested", "submitted"} =>
               caller[d].request \in Requests /\ caller[d].request.snapshot \in DOMAIN sealed
      BY DEF CallersOK
    <3>2. caller[d].answer = "COMMITTED" =>
            \E i \in DOMAIN db.ledger : db.ledger[i].request = caller[d].request
      BY DEF AnswersAreDurable
    <3> QED BY <1>3, <2>2, <3>1, <3>2
  <2> QED BY <2>1, <2>2
<1> QED BY <1>2, <1>4 DEF CallersOK, AnswersAreDurable

\* What a caller becomes: idle, at a sealed snapshot, or idle with an answer.
LEMMA IdleShape ==
  /\ Idle \in CallerRows /\ Idle.pc = "idle" /\ Idle.answer = Null /\ Null # "COMMITTED"
  /\ Idle \in [pc : {"idle", "sealed", "requested", "submitted"}, snapshot : Snapshots \cup {Null},
              request : Requests \cup {Null}, answer : Answers \cup {Null}]
<1>1. Idle \in CallerRows /\ Idle.pc = "idle" /\ Idle.answer = Null /\ Null # "COMMITTED"
  BY StoreNullAssumption DEF Idle, CallerRows
<1> QED BY <1>1 DEF CallerRows

LEMMA SealedShape ==
  ASSUME NEW s \in Snapshots, NEW x, x = [Idle EXCEPT !.pc = "sealed", !.snapshot = s]
  PROVE  x \in CallerRows /\ x.pc = "sealed" /\ x.snapshot = s /\ x.answer = Null /\ Null # "COMMITTED"
BY IdleShape DEF CallerRows

LEMMA AnsweredShape ==
  ASSUME NEW r \in Requests, NEW a \in Answers
  PROVE  /\ Answered(r, a) \in CallerRows /\ Answered(r, a).pc = "idle"
         /\ Answered(r, a).answer = a
         /\ a = "COMMITTED" => Answered(r, a).request = r
<1> DEFINE q == IF a = "COMMITTED" THEN r ELSE Null
<1>1. q \in Requests \cup {Null} /\ (a = "COMMITTED" => q = r)
  OBVIOUS
<1>2. Answered(r, a) = [Idle EXCEPT !.answer = a, !.request = q]
  BY DEF Answered
<1> HIDE DEF q
<1> QED BY <1>1, <1>2, IdleShape DEF CallerRows

\* A step that writes no row keeps what the tables say of each other.
LEMMA TablesStand ==
  ASSUME IInv, db' = db, SealedOK', CallersOK', AnswersAreDurable',
         DOMAIN sealed \subseteq DOMAIN sealed', \A s \in DOMAIN sealed : sealed'[s] = sealed[s]
  PROVE  IInv'
<1>1. TablesOK' /\ EventsOK' /\ CurrentOK'
  <2>1. TablesOK'
    BY DEF IInv, TablesOK
  <2>2. EventsOK'
    BY DEF IInv, EventsOK, Commits
  <2>3. CurrentOK'
    <3> SUFFICES ASSUME NEW u \in Subjects, NEW k \in Kinds
        PROVE  /\ db'.current[u, k] # Null =>
                    /\ db'.current[u, k] \in db'.versions
                    /\ db'.current[u, k].event[1] = u /\ db'.current[u, k].event[2] = k
                    /\ db'.current[u, k].version = Cardinality(Of(db'.versions, db'.current[u, k].event))
               /\ \A v \in db'.versions : v.event[1] = u /\ v.event[2] = k =>
                    /\ db'.current[u, k] # Null
                    /\ \/ v.event = db'.current[u, k].event
                       \/ \E w \in Of(db'.versions, v.event) : w.status = "RESOLVED"
      BY Zenon DEF CurrentOK, Of
    <3> DEFINE c == db.current[u, k]
    <3>1. c # Null => /\ c \in db.versions /\ c.event[1] = u /\ c.event[2] = k
                      /\ c.version = Cardinality(Of(db.versions, c.event))
      BY DEF CurrentOK, IInv
    <3>2. \A v \in db.versions : v.event[1] = u /\ v.event[2] = k =>
            /\ c # Null
            /\ \/ v.event = c.event
               \/ \E w \in Of(db.versions, v.event) : w.status = "RESOLVED"
      BY DEF CurrentOK, IInv
    <3> QED BY <3>1, <3>2
  <2> QED BY <2>1, <2>2, <2>3
<1>2. LedgerOK'
  BY DEF IInv, LedgerOK
<1>3. OneCommitPerSnapshot'
  BY DEF IInv, LedgerOK, CommittedOnce, OneCommitPerSnapshot
<1>4. ProjectionFollowsLedger' /\ LifecycleMovesLegally' /\ EventsReflectLastCommit'
  <2>1. ProjectionFollowsLedger'
    BY <1>1, ProjectionFollows, ProjectionFollowsNext DEF IInv, TablesOK
  <2>2. \A u : Positions(u)' = Positions(u) /\ LastOf(u)' = LastOf(u)
    BY DEF Positions, LastOf
  <2>3. LifecycleMovesLegally'
    BY <2>2 DEF IInv, LifecycleMovesLegally
  <2>4. EventsReflectLastCommit'
    BY <2>2, Zenon DEF IInv, EventsReflectLastCommit, KeyVersions
  <2> QED BY <2>1, <2>3, <2>4
<1> QED BY <1>1, <1>2, <1>3, <1>4 DEF IInv, CommittedOnce

\* A commit keeps the invariant.
LEMMA CommitKept ==
  ASSUME IInv, NEW r, Checked(r), Writes(r), CallersOK', AnswersAreDurable'
  PROVE  IInv'
<1>1. SealedOK'
  BY DEF IInv, SealedOK, Writes
<1>2. TablesOK' /\ LedgerOK' /\ EventsOK' /\ CurrentOK' /\ EventsReflectLastCommit'
  BY TablesKept, LedgerKept, EventsKept, CurrentKept, ReflectionKept DEF IInv
<1>3. OneCommitPerSnapshot'
  BY OneCommitKept DEF IInv, CommittedOnce
<1>4. \A u \in Subjects : Follows(db.ledger, db.projection[u], u)
  BY ProjectionFollows DEF IInv, TablesOK
<1>5. LifecycleMovesLegally'
  BY <1>4, LifecycleKept DEF IInv
<1>6. \A u \in Subjects : Follows(db'.ledger, db'.projection[u], u)
  BY <1>4, FollowsKept DEF IInv
<1>7. ProjectionFollowsLedger'
  <2>1. db'.ledger \in Seq(LedgerRows)
    BY <1>2 DEF TablesOK
  <2> QED BY <1>6, <2>1, ProjectionFollowsNext
<1> QED BY <1>1, <1>2, <1>3, <1>5, <1>7 DEF IInv, CommittedOnce

LEMMA InitInvariant == Init => IInv
<1> SUFFICES ASSUME Init PROVE IInv
  OBVIOUS
<1>1. /\ db.ledger = << >> /\ db.projection = [u \in Subjects |-> Null]
      /\ db.current = [p \in Subjects \X Kinds |-> Null] /\ db.versions = {}
  BY DEF Init, EmptyStore
<1>2. DOMAIN db.ledger = {} /\ db.ledger \in Seq(LedgerRows)
  BY <1>1
<1>3. SealedOK
  BY SnapshotBoundAssumption DEF Init, SealedOK
<1>4. CallersOK /\ AnswersAreDurable
  BY IdleShape DEF Init, CallersOK, AnswersAreDurable
<1>5. TablesOK /\ LedgerOK /\ EventsOK /\ OneCommitPerSnapshot /\ LifecycleMovesLegally
  <2>1. TablesOK
    BY <1>1, <1>2 DEF TablesOK
  <2>2. LedgerOK /\ EventsOK
    BY <1>1, <1>2 DEF LedgerOK, EventsOK
  <2>3. OneCommitPerSnapshot /\ LifecycleMovesLegally
    BY <1>2, Zenon DEF OneCommitPerSnapshot, LifecycleMovesLegally
  <2> QED BY <2>1, <2>2, <2>3
<1>6. \A u : Positions(u) = {}
  BY <1>2 DEF Positions
<1>7. ProjectionFollowsLedger
  BY <1>1, <1>6 DEF ProjectionFollowsLedger
<1>8. CurrentOK /\ EventsReflectLastCommit
  <2>1. \A u \in Subjects, k \in Kinds : db.current[u, k] = Null
    BY <1>1
  <2>2. CurrentOK
    BY <1>1, <2>1 DEF CurrentOK
  <2>3. EventsReflectLastCommit
    BY <1>6, <2>1 DEF EventsReflectLastCommit
  <2> QED BY <2>2, <2>3
<1> QED BY <1>3, <1>4, <1>5, <1>7, <1>8 DEF IInv, CommittedOnce

THEOREM Invariance == Spec => []IInv
<1>1. IInv /\ [Next]_vars => IInv'
  <2> SUFFICES ASSUME IInv, [Next]_vars PROVE IInv'
    OBVIOUS
  <2>1. ASSUME NEW c \in Callers, NEW u \in Subjects, NEW d \in {"OFFICIAL", "SHADOW"},
               NEW e \in Evidence, Seal(c, u, d, e)
        PROVE  IInv'
    <3> DEFINE n == Len(sealed) + 1
               row == [at |-> n, subject |-> u, disposition |-> d, evidence |-> e]
    <3>1. n \in Snapshots /\ Len(sealed) \in Nat /\ sealed \in Seq(SealedRows)
          /\ DOMAIN sealed = 1 .. Len(sealed)
      <4>1. sealed \in Seq(SealedRows) /\ Len(sealed) < MaxSnapshots
        BY <2>1 DEF Seal, IInv, SealedOK
      <4>2. Len(sealed) \in Nat /\ DOMAIN sealed = 1 .. Len(sealed)
        BY <4>1, LenProperties
      <4> QED BY <4>1, <4>2, SnapshotBoundAssumption DEF Snapshots
    <3>2. row \in SealedRows /\ row.at = n
      BY <3>1 DEF SealedRows
    <3>3. sealed' = Append(sealed, row) /\ db' = db
          /\ caller' = [caller EXCEPT ![c] = [Idle EXCEPT !.pc = "sealed", !.snapshot = n]]
      BY <2>1 DEF Seal
    <3> HIDE DEF row
    <3>4. /\ sealed' \in Seq(SealedRows) /\ Len(sealed') = n /\ DOMAIN sealed' = 1 .. n
          /\ \A i \in 1 .. Len(sealed) : sealed'[i] = sealed[i]
          /\ sealed'[n] = row
      BY <3>1, <3>2, <3>3, AppendProperties, LenProperties
    <3>5. SealedOK'
      <4>1. \A s \in 1 .. n : sealed'[s].at = s
        BY <3>1, <3>2, <3>4 DEF IInv, SealedOK
      <4> QED BY <3>1, <3>4, <4>1, SnapshotBoundAssumption DEF SealedOK, Snapshots
    <3>6. DOMAIN sealed \subseteq DOMAIN sealed' /\ n \in DOMAIN sealed'
          /\ \A s \in DOMAIN sealed : sealed'[s] = sealed[s]
      BY <3>1, <3>4
    <3> DEFINE x == [Idle EXCEPT !.pc = "sealed", !.snapshot = n]
    <3>7. /\ x \in CallerRows /\ x.pc = "sealed" /\ x.snapshot = n /\ x.answer = Null /\ Null # "COMMITTED"
      BY <3>1, SealedShape
    <3> HIDE DEF x, n
    <3>8. caller' = [caller EXCEPT ![c] = x]
      BY <3>3 DEF x, n
    <3>9. CallersOK' /\ AnswersAreDurable'
      BY <3>3, <3>6, <3>7, <3>8, CallerMoves DEF IInv, CommittedOnce
    <3> QED BY <3>3, <3>5, <3>6, <3>9, TablesStand
  <2>2. ASSUME NEW c \in Callers, NEW s \in DOMAIN sealed, Retry(c, s)
        PROVE  IInv'
    <3> DEFINE x == [Idle EXCEPT !.pc = "sealed", !.snapshot = s]
    <3>1. s \in Snapshots
      <4>1. DOMAIN sealed = 1 .. Len(sealed) /\ Len(sealed) \in Nat /\ Len(sealed) <= MaxSnapshots
        BY LenProperties DEF IInv, SealedOK
      <4> QED BY <4>1, SnapshotBoundAssumption DEF Snapshots
    <3>2. x \in CallerRows /\ x.pc = "sealed" /\ x.snapshot = s /\ x.answer = Null /\ Null # "COMMITTED"
      BY <3>1, SealedShape
    <3>3. caller' = [caller EXCEPT ![c] = x] /\ db' = db /\ sealed' = sealed
      BY <2>2 DEF Retry
    <3> HIDE DEF x
    <3>4. CallersOK' /\ AnswersAreDurable'
      BY <3>2, <3>3, CallerMoves DEF IInv, CommittedOnce
    <3> QED BY <3>3, <3>4, TablesStand DEF IInv, SealedOK
  <2>3. ASSUME NEW c \in Callers, NEW a \in Availabilities, NEW l \in Lifecycles \cup {Null},
               MakeRequest(c, a, l)
        PROVE  IInv'
    <3> DEFINE s == caller[c].snapshot
               q == [snapshot |-> s, availability |-> a, lifecycle |-> l,
                     expected |-> Version(db, sealed[s].subject)]
               x == [caller[c] EXCEPT !.pc = "requested", !.request = q]
    <3>1. s \in DOMAIN sealed /\ caller[c] \in CallerRows /\ caller[c].answer = Null
      BY <2>3 DEF MakeRequest, IInv, CallersOK
    <3>2. s \in Snapshots /\ sealed[s].subject \in Subjects
      <4>1. /\ DOMAIN sealed = 1 .. Len(sealed) /\ Len(sealed) \in Nat /\ Len(sealed) <= MaxSnapshots
            /\ sealed \in Seq(SealedRows)
        BY LenProperties DEF IInv, SealedOK
      <4>2. sealed[s] \in SealedRows
        BY <3>1, <4>1, ElementOfSeq
      <4> HIDE DEF s
      <4>3. s \in Snapshots
        BY <3>1, <4>1, SnapshotBoundAssumption DEF Snapshots
      <4> QED BY <4>2, <4>3 DEF SealedRows
    <3>3. Version(db, sealed[s].subject) \in 0 .. MaxSnapshots
      BY <3>2, VersionBound
    <3>4. q \in Requests /\ q.snapshot = s
      <4> HIDE DEF s
      <4> QED BY <3>2, <3>3 DEF Requests
    <3>5. caller' = [caller EXCEPT ![c] = x] /\ db' = db /\ sealed' = sealed
      BY <2>3 DEF MakeRequest, IInv, CallersOK
    <3> HIDE DEF q
    <3>6. x \in CallerRows /\ x.pc = "requested" /\ x.request = q /\ x.answer = Null /\ Null # "COMMITTED"
      BY <3>1, <3>4, IdleShape DEF CallerRows
    <3> HIDE DEF x, s
    <3>7. CallersOK' /\ AnswersAreDurable'
      BY <3>1, <3>4, <3>5, <3>6, CallerMoves DEF IInv, CommittedOnce
    <3> QED BY <3>5, <3>7, TablesStand DEF IInv, SealedOK
  <2>4. ASSUME NEW c \in Callers, Lookup(c)
        PROVE  IInv'
    <3> DEFINE q == caller[c].request
               rows == Commits(db, q.snapshot)
               same == \E i \in rows : db.ledger[i].request = q
    <3>1. /\ q \in Requests /\ q.snapshot \in DOMAIN sealed
          /\ caller[c] \in CallerRows /\ caller[c].answer = Null
      BY <2>4 DEF Lookup, IInv, CallersOK
    <3>2. db' = db /\ sealed' = sealed
      BY <2>4 DEF Lookup
    <3>3. CASE rows = {}
      <4> DEFINE x == [caller[c] EXCEPT !.pc = "submitted"]
      <4>1. caller' = [caller EXCEPT ![c] = x]
        BY <2>4, <3>3 DEF Lookup
      <4>2. x \in CallerRows /\ x.pc = "submitted" /\ x.request = q /\ x.answer = Null /\ Null # "COMMITTED"
        BY <3>1, IdleShape DEF CallerRows
      <4> HIDE DEF x, q
      <4>3. CallersOK' /\ AnswersAreDurable'
        BY <3>1, <3>2, <4>1, <4>2, CallerMoves DEF IInv, CommittedOnce
      <4> QED BY <3>2, <4>3, TablesStand DEF IInv, SealedOK
    <3>4. CASE rows # {}
      <4> DEFINE a == IF same THEN "COMMITTED" ELSE "DIFFERENT_COMMIT"
                 x == Answered(q, a)
      <4>1. caller' = [caller EXCEPT ![c] = x]
        BY <2>4, <3>4 DEF Lookup
      <4>2. a \in Answers /\ (a = "COMMITTED" => same)
        BY DEF Answers
      <4>3. same => \E i \in DOMAIN db.ledger : db.ledger[i].request = q
        BY DEF Commits
      <4> HIDE DEF a, q, same
      <4>4. x \in CallerRows /\ x.pc = "idle" /\ x.answer = a /\ (a = "COMMITTED" => x.request = q)
        BY <3>1, <4>2, AnsweredShape
      <4> HIDE DEF x
      <4>5. x.answer = "COMMITTED" => \E i \in DOMAIN db.ledger : db.ledger[i].request = x.request
        BY <4>2, <4>3, <4>4
      <4>6. CallersOK' /\ AnswersAreDurable'
        BY <3>2, <4>1, <4>4, <4>5, CallerMoves DEF IInv, CommittedOnce
      <4> QED BY <3>2, <4>6, TablesStand DEF IInv, SealedOK
    <3> QED BY <3>3, <3>4
  <2>5. ASSUME NEW c \in Callers, Execute(c)
        PROVE  IInv'
    <3> DEFINE q == caller[c].request
               a == IF Refusal(db, Snap(q), q) = Null THEN "COMMITTED" ELSE Refusal(db, Snap(q), q)
               x == Answered(q, a)
    <3>1. q \in Requests /\ q.snapshot \in DOMAIN sealed
      BY <2>5 DEF Execute, IInv, CallersOK
    <3>2. caller' = [caller EXCEPT ![c] = x] /\ sealed' = sealed
      BY <2>5 DEF Execute, Snap
    <3>3. a \in Answers
      BY DEF Answers, Refusal, Refusals
    <3>4. x \in CallerRows /\ x.pc = "idle" /\ x.answer = a /\ (a = "COMMITTED" => x.request = q)
      <4> HIDE DEF a, q
      <4> QED BY <3>1, <3>3, AnsweredShape
    <3>5. CASE Refusal(db, Snap(q), q) = Null
      <4>1. Checked(q) /\ Writes(q)
        BY <2>5, <3>5, ExecuteWrites
      <4>2. a = "COMMITTED"
        BY <3>5
      <4> HIDE DEF x, a, q
      <4>3. TablesOK
        BY DEF IInv
      <4>4. /\ DOMAIN db.ledger = 1 .. Len(db.ledger) /\ DOMAIN db'.ledger = 1 .. Len(db.ledger) + 1
            /\ Len(db.ledger) \in Nat /\ db'.ledger[Len(db.ledger) + 1] = Row(q) /\ Row(q).request = q
        BY <4>1, <4>3, LedgerGrows
      <4>5. \A i \in DOMAIN db.ledger : db'.ledger[i] = db.ledger[i]
        BY <4>1, <4>3, LedgerGrows
      <4>6. /\ DOMAIN db.ledger \subseteq DOMAIN db'.ledger
            /\ \E i \in DOMAIN db'.ledger : db'.ledger[i].request = x.request
        BY <3>4, <4>2, <4>4
      <4>7. CallersOK' /\ AnswersAreDurable'
        BY <3>2, <3>4, <4>5, <4>6, CallerMoves DEF IInv, CommittedOnce
      <4> QED BY <4>1, <4>7, CommitKept
    <3>6. CASE Refusal(db, Snap(q), q) # Null
      <4>1. db' = db
        BY <2>5, <3>6 DEF Execute, Snap
      <4>2. a # "COMMITTED"
        <5> DEFINE f == Refusal(db, Snap(q), q)
        <5>1. f \in Refusals \cup {Null}
          BY DEF Refusal, Refusals
        <5>2. a = f /\ f # Null
          BY <3>6
        <5> HIDE DEF f, a
        <5> QED BY <5>1, <5>2 DEF Refusals
      <4> HIDE DEF x, a, q
      <4>3. CallersOK' /\ AnswersAreDurable'
        BY <3>2, <3>4, <4>1, <4>2, CallerMoves DEF IInv, CommittedOnce
      <4> QED BY <3>2, <4>1, <4>3, TablesStand DEF IInv, SealedOK
    <3> QED BY <3>5, <3>6
  <2>6. ASSUME NEW c \in Callers, Fail(c)
        PROVE  IInv'
    <3>1. caller' = [caller EXCEPT ![c] = Idle] /\ db' = db /\ sealed' = sealed
      BY <2>6 DEF Fail
    <3>2. CallersOK' /\ AnswersAreDurable'
      BY <3>1, IdleShape, CallerMoves DEF IInv, CommittedOnce
    <3> QED BY <3>1, <3>2, TablesStand DEF IInv, SealedOK
  <2>7. CASE UNCHANGED vars
    <3>1. caller' = caller /\ db' = db /\ sealed' = sealed
      BY <2>7 DEF vars
    <3>2. CallersOK' /\ AnswersAreDurable'
      BY <3>1 DEF IInv, CallersOK, CommittedOnce, AnswersAreDurable
    <3> QED BY <3>1, <3>2, TablesStand DEF IInv, SealedOK
  <2>8. ASSUME NEW c \in Callers, CallerStep(c)
        PROVE  IInv'
    <3>1. CASE \E u \in Subjects, d \in {"OFFICIAL", "SHADOW"}, e \in Evidence : Seal(c, u, d, e)
      BY <2>1, <3>1
    <3>2. CASE \E s \in DOMAIN sealed : Retry(c, s)
      BY <2>2, <3>2
    <3>3. CASE \E a \in Availabilities, l \in Lifecycles \cup {Null} : MakeRequest(c, a, l)
      BY <2>3, <3>3
    <3> QED BY <2>4, <2>5, <2>6, <2>8, <3>1, <3>2, <3>3 DEF CallerStep
  <2> QED BY <2>7, <2>8 DEF Next
<1> QED BY InitInvariant, <1>1, PTL DEF Spec

\* analysis_commit.py:97: however callers race, die and retry, a snapshot is committed at most
\* once, only if it was sealed OFFICIAL, and a caller told that its commit stands finds its own
\* request in the ledger.
THEOREM OnceCommitted == Spec => []CommittedOnce
<1>1. IInv => CommittedOnce
  BY DEF IInv
<1> QED BY Invariance, <1>1, PTL

\* _insert_state: the state projection is that of the subject's last commit and its version
\* counts the commits, and every move between AVAILABLE commits is in the table _LEGAL.
THEOREM StateFollows == Spec => []StateFollowsLedger
<1>1. IInv => StateFollowsLedger
  <2> SUFFICES ASSUME IInv PROVE StateFollowsLedger
    OBVIOUS
  <2>1. sealed \in Seq(SealedRows) /\ caller \in [Callers -> CallerRows]
    BY DEF IInv, SealedOK, CallersOK
  <2>2. db.ledger \in Seq(LedgerRows) /\ \A i \in DOMAIN db.ledger : db.ledger[i].request \in Requests
    BY DEF IInv, TablesOK, LedgerOK
  <2>3. \A u \in Subjects : Version(db, u) \in 0 .. MaxSnapshots
    BY VersionBound
  <2>4. TypeOK
    BY <2>1, <2>2, <2>3 DEF TypeOK, SealedRows, CallerRows
  <2> QED BY <2>4 DEF IInv, StateFollowsLedger
<1> QED BY Invariance, <1>1, PTL

\* _decide_events: the versions of an event are one run from its creation to its resolution, at
\* most one event of a key is unresolved, and the open events are what the last commit calls for.
THEOREM EventsFollow == Spec => []EventsFollowLedger
<1>1. IInv => EventsFollowLedger
  <2> SUFFICES ASSUME IInv PROVE EventsFollowLedger
    OBVIOUS
  <2>1. ASSUME NEW u \in Subjects, NEW k \in Kinds
        PROVE  LET rows == KeyVersions(u, k)
                   events == {v.event : v \in rows}
                   of(e) == {v \in rows : v.event = e}
                   numbers(e) == {v.version : v \in of(e)}
               IN  /\ \A e \in events :
                          /\ numbers(e) = 1..Cardinality(of(e))
                          /\ \A v \in of(e) :
                                 /\ v.version = 1 <=> v.change = "CREATED"
                                 /\ v.status = "RESOLVED" => v.version = Cardinality(of(e))
                   /\ Cardinality({e \in events : \A v \in of(e) : v.status # "RESOLVED"}) <= 1
    <3> DEFINE rows == KeyVersions(u, k)
               events == {v.event : v \in rows}
               of(e) == {v \in rows : v.event = e}
               open == {e \in events : \A v \in of(e) : v.status # "RESOLVED"}
               c == db.current[u, k]
    <3>1. \A v \in rows : v \in db.versions /\ v.event[1] = u /\ v.event[2] = k
      BY DEF KeyVersions
    <3>2. \A e \in events : of(e) = Of(db.versions, e)
      BY <3>1 DEF KeyVersions, Of
    <3>3. ASSUME NEW e \in events
          PROVE  /\ {v.version : v \in of(e)} = 1..Cardinality(of(e))
                 /\ \A v \in of(e) :
                      /\ v.version = 1 <=> v.change = "CREATED"
                      /\ v.status = "RESOLVED" => v.version = Cardinality(of(e))
      <4>1. PICK w \in db.versions : w.event = e
        BY <3>1
      <4>2. {v.version : v \in Of(db.versions, e)} = 1..Cardinality(Of(db.versions, e))
        BY <4>1 DEF IInv, EventsOK
      <4>3. \A v \in Of(db.versions, e) :
              /\ v.version = 1 <=> v.change = "CREATED"
              /\ v.status = "RESOLVED" => v.version = Cardinality(Of(db.versions, e))
        <5>1. \A v \in Of(db.versions, e) : v \in db.versions /\ v.event = e
          BY DEF Of
        <5> QED BY <5>1 DEF IInv, EventsOK
      <4> QED BY <3>2, <4>2, <4>3
    <3>4. \A v \in db.versions : v.event[1] = u /\ v.event[2] = k =>
            /\ c # Null
            /\ \/ v.event = c.event
               \/ \E w \in Of(db.versions, v.event) : w.status = "RESOLVED"
      <4>1. CurrentOK
        BY DEF IInv
      <4> QED BY <4>1 DEF CurrentOK
    <3>5. \A e \in open : e = c.event
      <4> SUFFICES ASSUME NEW e \in open PROVE e = c.event
        OBVIOUS
      <4>1. PICK w \in rows : w.event = e
        OBVIOUS
      <4>2. \A v \in Of(db.versions, e) : v.status # "RESOLVED"
        BY <3>2
      <4>3. w.event = c.event \/ \E v \in Of(db.versions, w.event) : v.status = "RESOLVED"
        BY <3>1, <3>4, <4>1
      <4> QED BY <4>1, <4>2, <4>3
    <3> HIDE DEF open
    <3>6. Cardinality(open) <= 1
      <4>1. open \subseteq {c.event}
        BY <3>5
      <4> HIDE DEF c
      <4>2. IsFiniteSet({c.event}) /\ Cardinality({c.event}) = 1
        BY FS_Singleton
      <4>3. Cardinality(open) <= Cardinality({c.event})
        BY <4>1, <4>2, FS_Subset
      <4> QED BY <4>2, <4>3
    <3> QED BY <3>3, <3>6 DEF open
  <2>2. EventHistory
    BY <2>1, Zenon DEF EventHistory
  <2> QED BY <2>2 DEF IInv, EventsFollowLedger
<1> QED BY Invariance, <1>1, PTL

-----------------------------------------------------------------------------
(***************************************************************************)
(* The thresholds a commit is made with: the registry of Thresholds, for   *)
(* any versions, documents, reports and number of activations.  Its        *)
(* invariant, RegistryInv, says how the rows of the two families follow    *)
(* one another: every Guardian row is followed by the Scout row of its     *)
(* activation, and the instants of a family advance, so the last rows that *)
(* are due stand side by side.                                             *)
(***************************************************************************)
\* Evidence was recorded for two registered versions of its scope.
DocumentsOK ==
  /\ registered \subseteq Registry!Version /\ evidence \subseteq Document
  /\ validations \in Seq(Registry!Validation)
  /\ \A d \in evidence :
       /\ d.g \in Guardian /\ d.s \in Scout
       /\ \A v \in {d.g, d.s} : v \in Demo <=> d.scope = "DEMO"

\* A row of each family is followed or preceded by the row of the other that came with it, and
\* the instants of a family only advance.
RowsOK ==
  /\ activations \in Seq(Registry!Activation)
  /\ \A i \in Registry!Rows("GUARDIAN") :
       /\ i + 1 \in Registry!Rows("SCOUT")
       /\ activations[i + 1].at = activations[i].at /\ activations[i + 1].key = activations[i].key
       /\ activations[i].of = activations[i].proof.g
  /\ \A i \in Registry!Rows("SCOUT") :
       i - 1 \in Registry!Rows("GUARDIAN") /\ activations[i].of = activations[i].proof.s
  /\ \A i \in DOMAIN activations : activations[i].proof \in evidence
  /\ \A i, j \in DOMAIN activations :
       activations[i].family = activations[j].family /\ i < j => activations[i].at < activations[j].at

\* What the cycle has read for its commit is a version of each family, the Guardian's first.
ReadRows == [step : {"none", "readiness", "metrics", "commit", "execute"}, at : Registry!Time,
             begun : Nat, permit : Seq(Registry!Version), run : Seq(Registry!Version),
             final : Seq(Registry!Version)]
ReadsOK ==
  /\ cycle \in ReadRows
  /\ cycle.step # "execute" =>
       cycle.final = << >> \/ (cycle.final \in Seq(Guardian) /\ Len(cycle.final) = 1)
  /\ cycle.step = "execute" => cycle.final \in Guardian \X Scout
  /\ \A c \in commits : c.at \in Registry!Time /\ c.pair \in Guardian \X Scout

RegistryInv ==
  /\ Registry!RegistryAssumption
  /\ DocumentsOK /\ RowsOK /\ ReadsOK /\ Registry!ActivationProven

\* A row is of a version of its family.
LEMMA FamilyOfRow ==
  ASSUME Registry!RegistryAssumption, DocumentsOK, RowsOK, NEW i \in DOMAIN activations
  PROVE  /\ activations[i] \in Registry!Activation
         /\ Registry!FamilyOf(activations[i].of) = activations[i].family
         /\ activations[i].family = "GUARDIAN" => activations[i].of \in Guardian
         /\ activations[i].family = "SCOUT" => activations[i].of \in Scout
<1>1. activations[i] \in Registry!Activation
  BY DEF RowsOK
<1>2. activations[i].family \in {"GUARDIAN", "SCOUT"}
  BY <1>1 DEF Registry!Activation, Registry!Family
<1>3. activations[i].proof \in evidence
  BY DEF RowsOK
<1>4. activations[i].family = "GUARDIAN" => activations[i].of \in Guardian
  BY <1>3 DEF RowsOK, DocumentsOK, Registry!Rows
<1>5. activations[i].family = "SCOUT" => activations[i].of \in Scout
  BY <1>3 DEF RowsOK, DocumentsOK, Registry!Rows
<1> QED BY <1>1, <1>2, <1>4, <1>5 DEF Registry!FamilyOf, Registry!RegistryAssumption

\* The row in force is the last one of its family that is due.
LEMMA LastInForce ==
  ASSUME Registry!RegistryAssumption, RowsOK, NEW f \in Registry!Family, NEW at \in Registry!Time
  PROVE  LET due == {i \in Registry!Rows(f) : activations[i].at <= at}
         IN  /\ due = {} => Registry!InForce(f, at) = 0
             /\ due # {} => /\ Registry!InForce(f, at) \in due
                            /\ \A i \in due : i <= Registry!InForce(f, at)
<1> DEFINE due == {i \in Registry!Rows(f) : activations[i].at <= at}
           last(i) == \A j \in due : \/ activations[j].at < activations[i].at
                                     \/ activations[j].at = activations[i].at /\ j <= i
<1>1. Registry!InForce(f, at) = IF due = {} THEN 0 ELSE CHOOSE i \in due : last(i)
  BY DEF Registry!InForce
<1>2. Len(activations) \in Nat /\ DOMAIN activations = 1 .. Len(activations)
  BY DEF RowsOK
<1>3. \A i \in due : /\ i \in Int /\ i <= Len(activations) /\ i \in DOMAIN activations
                     /\ activations[i].at \in Nat /\ activations[i].family = f
  <2> SUFFICES ASSUME NEW i \in due
               PROVE  /\ i \in Int /\ i <= Len(activations) /\ i \in DOMAIN activations
                      /\ activations[i].at \in Nat /\ activations[i].family = f
    OBVIOUS
  <2>1. i \in DOMAIN activations /\ activations[i].family = f
    BY DEF Registry!Rows
  <2>2. activations[i] \in Registry!Activation
    BY <2>1 DEF RowsOK
  <2>3. activations[i].at \in Nat
    BY <2>2 DEF Registry!Activation, Registry!Time, Registry!RegistryAssumption
  <2> QED BY <1>2, <2>1, <2>3
<1>4. \A i, j \in due : i < j => activations[i].at < activations[j].at
  BY <1>3 DEF RowsOK
<1> HIDE DEF due
<1>5. ASSUME due # {}
      PROVE  /\ Registry!InForce(f, at) \in due
             /\ \A i \in due : i <= Registry!InForce(f, at)
  <2>1. PICK m \in due : \A j \in due : j <= m
    BY <1>2, <1>3, <1>5, Greatest
  <2>2. last(m)
    <3> SUFFICES ASSUME NEW j \in due
                 PROVE  \/ activations[j].at < activations[m].at
                        \/ activations[j].at = activations[m].at /\ j <= m
      OBVIOUS
    <3>1. j = m \/ j < m
      BY <1>3, <2>1
    <3> QED BY <1>4, <2>1, <3>1
  <2>3. Registry!InForce(f, at) \in due /\ last(Registry!InForce(f, at))
    BY <1>1, <1>5, <2>2
  <2>4. \A i \in due : i <= Registry!InForce(f, at)
    <3> SUFFICES ASSUME NEW i \in due PROVE i <= Registry!InForce(f, at)
      OBVIOUS
    <3>1. ~ (Registry!InForce(f, at) < i)
      BY <1>3, <1>4, <2>3
    <3> QED BY <1>3, <2>3, <3>1
  <2> QED BY <2>3, <2>4
<1> QED BY <1>1, <1>5 DEF due

\* The rows in force of the two families stand side by side.
LEMMA SideBySide ==
  ASSUME Registry!RegistryAssumption, RowsOK
  PROVE  Registry!PairInForce
<1> SUFFICES ASSUME NEW at \in Registry!Time
             PROVE  LET g == Registry!InForce("GUARDIAN", at)
                        s == Registry!InForce("SCOUT", at)
                    IN (g = 0 <=> s = 0) /\ (g # 0 => activations[g].key = activations[s].key)
  BY DEF Registry!PairInForce
<1> DEFINE Due(f) == {i \in Registry!Rows(f) : activations[i].at <= at}
           g == Registry!InForce("GUARDIAN", at)
           s == Registry!InForce("SCOUT", at)
<1>1. \A i \in Due("GUARDIAN") : i \in Int /\ i >= 1 /\ i + 1 \in Due("SCOUT")
  BY DEF RowsOK, Registry!Rows
<1>2. \A i \in Due("SCOUT") : i \in Int /\ i >= 1 /\ i - 1 \in Due("GUARDIAN")
  <2> SUFFICES ASSUME NEW i \in Due("SCOUT")
               PROVE i \in Int /\ i >= 1 /\ i - 1 \in Due("GUARDIAN")
    OBVIOUS
  <2>1. i \in Int /\ i >= 1 /\ i - 1 \in Registry!Rows("GUARDIAN")
    BY DEF RowsOK, Registry!Rows
  <2>2. activations[(i - 1) + 1].at = activations[i - 1].at /\ (i - 1) + 1 = i
    BY <2>1 DEF RowsOK
  <2> QED BY <2>1, <2>2
<1>3. /\ Due("GUARDIAN") = {} => g = 0
      /\ Due("GUARDIAN") # {} => g \in Due("GUARDIAN") /\ \A i \in Due("GUARDIAN") : i <= g
  BY LastInForce DEF Registry!Family
<1>4. /\ Due("SCOUT") = {} => s = 0
      /\ Due("SCOUT") # {} => s \in Due("SCOUT") /\ \A i \in Due("SCOUT") : i <= s
  BY LastInForce DEF Registry!Family
<1>5. \A i \in Due("GUARDIAN") : activations[i + 1].key = activations[i].key
  BY DEF RowsOK
<1> HIDE DEF Due, g, s
<1>6. CASE Due("GUARDIAN") = {}
  <2>1. Due("SCOUT") = {}
    BY <1>2, <1>6
  <2> QED BY <1>3, <1>4, <1>6, <2>1 DEF g, s
<1>7. CASE Due("GUARDIAN") # {}
  <2>1. g \in Due("GUARDIAN") /\ g \in Int /\ g >= 1 /\ g + 1 \in Due("SCOUT")
    BY <1>1, <1>3, <1>7
  <2>2. s \in Due("SCOUT") /\ s \in Int /\ s >= 1 /\ s - 1 \in Due("GUARDIAN") /\ g + 1 <= s
    BY <1>2, <1>4, <2>1
  <2>3. s - 1 <= g
    BY <1>3, <2>1, <2>2
  <2>4. s = g + 1
    BY <2>1, <2>2, <2>3
  <2> QED BY <1>5, <2>1, <2>2, <2>4 DEF g, s
<1> QED BY <1>6, <1>7

\* A read finds a version of the family it asks for.
LEMMA FoundOfFamily ==
  ASSUME Registry!RegistryAssumption, DocumentsOK, RowsOK, NEW at \in Registry!Time
  PROVE  /\ Registry!Resolved("GUARDIAN", at) \subseteq Guardian
         /\ Registry!Resolved("SCOUT", at) \subseteq Scout
<1>1. ASSUME NEW f \in Registry!Family, Registry!InForce(f, at) # 0
      PROVE  /\ Registry!InForce(f, at) \in DOMAIN activations
             /\ activations[Registry!InForce(f, at)].family = f
  BY <1>1, LastInForce DEF Registry!Rows
<1>2. \A i \in DOMAIN activations :
        /\ activations[i].family = "GUARDIAN" => activations[i].of \in Guardian
        /\ activations[i].family = "SCOUT" => activations[i].of \in Scout
  BY FamilyOfRow
<1>3. Registry!Resolved("GUARDIAN", at) \subseteq Guardian
  BY <1>1, <1>2 DEF Registry!Family, Registry!Resolved
<1>4. Registry!Resolved("SCOUT", at) \subseteq Scout
  BY <1>1, <1>2 DEF Registry!Family, Registry!Resolved
<1> QED BY <1>3, <1>4

-----------------------------------------------------------------------------
(***************************************************************************)
(* The steps                                                               *)
(***************************************************************************)
LEMMA NothingRead ==
  ASSUME Registry!RegistryAssumption
  PROVE  /\ Registry!Nothing \in ReadRows /\ Registry!Nothing.step = "none"
         /\ Registry!Nothing.final = << >>
<1>1. 1 \in Registry!Time
  BY DEF Registry!Time, Registry!RegistryAssumption
<1>2. << >> \in Seq(Registry!Version)
  OBVIOUS
<1> QED BY <1>1, <1>2 DEF Registry!Nothing, ReadRows

LEMMA RegistryInit ==
  Registry!RegistryAssumption /\ Registry!Init => RegistryInv
<1> SUFFICES ASSUME Registry!RegistryAssumption, Registry!Init PROVE RegistryInv
  OBVIOUS
<1> USE DEF Registry!Init
<1>1. DocumentsOK
  BY DEF DocumentsOK, Registry!RegistryAssumption
<1>2. RowsOK
  BY DEF RowsOK, Registry!Rows
<1>3. commits = {} /\ cycle = Registry!Nothing
  OBVIOUS
<1>4. ReadsOK
  BY <1>3, NothingRead DEF ReadsOK
<1>5. Registry!ActivationProven
  BY DEF Registry!ActivationProven
<1> QED BY <1>1, <1>2, <1>4, <1>5 DEF RegistryInv

LEMMA RegisterStep ==
  ASSUME RegistryInv, NEW v \in Registry!Version, Registry!RegisterVersion(v)
  PROVE  RegistryInv'
<1>1. /\ registered' = registered \cup {v}
      /\ UNCHANGED <<validations, evidence, activations, cycle, commits>>
  BY DEF Registry!RegisterVersion
<1> QED BY <1>1 DEF RegistryInv, DocumentsOK, RowsOK, ReadsOK, Registry!Rows,
             Registry!ActivationProven, Registry!RegistryAssumption

\* A new report is last: the reports an activation was accepted on stay where they are.
LEMMA ReportStep ==
  ASSUME RegistryInv, NEW v \in Registry!Version, NEW kind \in Registry!Kind,
         NEW passed \in BOOLEAN, NEW at \in Registry!Time,
         Registry!RecordValidation(v, kind, passed, at)
  PROVE  RegistryInv'
<1> DEFINE report == [of |-> v, kind |-> kind, passed |-> passed, at |-> at]
<1>1. /\ validations' = Append(validations, report)
      /\ UNCHANGED <<registered, evidence, activations, cycle, commits>>
  BY DEF Registry!RecordValidation
<1>2. validations \in Seq(Registry!Validation) /\ report \in Registry!Validation
  BY DEF RegistryInv, DocumentsOK, Registry!Validation
<1> HIDE DEF report
<1>3. /\ validations' \in Seq(Registry!Validation)
      /\ \A j \in DOMAIN validations : j \in DOMAIN validations' /\ validations'[j] = validations[j]
  BY <1>1, <1>2
<1>4. DocumentsOK'
  BY <1>1, <1>3 DEF RegistryInv, DocumentsOK
<1>5. RowsOK' /\ ReadsOK'
  BY <1>1 DEF RegistryInv, RowsOK, ReadsOK, Registry!Rows
<1>6. Registry!ActivationProven'
  <2> SUFFICES ASSUME NEW i \in DOMAIN activations
               PROVE  LET row == activations[i]
                      IN /\ row.proof.at <= row.at /\ row.of \in {row.proof.g, row.proof.s}
                         /\ \A k \in Registry!Kind : \E j \in DOMAIN validations' :
                              /\ validations'[j].of = row.of /\ validations'[j].kind = k
                              /\ validations'[j].passed /\ validations'[j].at <= row.at
    BY <1>1 DEF Registry!ActivationProven
  <2>1. /\ activations[i].proof.at <= activations[i].at
        /\ activations[i].of \in {activations[i].proof.g, activations[i].proof.s}
        /\ \A k \in Registry!Kind : \E j \in DOMAIN validations :
             /\ validations[j].of = activations[i].of /\ validations[j].kind = k
             /\ validations[j].passed /\ validations[j].at <= activations[i].at
    BY DEF RegistryInv, Registry!ActivationProven
  <2> QED BY <1>3, <2>1
<1> QED BY <1>4, <1>5, <1>6 DEF RegistryInv, Registry!RegistryAssumption

LEMMA DocumentStep ==
  ASSUME RegistryInv, NEW d \in Document, Registry!RecordActivationEvidence(d)
  PROVE  RegistryInv'
<1>1. /\ evidence' = evidence \cup {d}
      /\ UNCHANGED <<registered, validations, activations, cycle, commits>>
      /\ Registry!OfItsScope(d)
  BY DEF Registry!RecordActivationEvidence
<1>2. DocumentsOK'
  BY <1>1 DEF RegistryInv, DocumentsOK, Registry!OfItsScope
<1>3. RowsOK' /\ ReadsOK' /\ Registry!ActivationProven'
  BY <1>1 DEF RegistryInv, RowsOK, ReadsOK, Registry!Rows, Registry!ActivationProven
<1> QED BY <1>2, <1>3 DEF RegistryInv, Registry!RegistryAssumption

\* What an activation asks of a version: its reports of each kind passed, up to the instant.
LEMMA ReportsPassed ==
  ASSUME NEW v, NEW at, Registry!MayActivate(v, at), validations \in Seq(Registry!Validation)
  PROVE  \A k \in Registry!Kind : \E j \in DOMAIN validations :
           /\ validations[j].of = v /\ validations[j].kind = k
           /\ validations[j].passed /\ validations[j].at <= at
BY DEF Registry!MayActivate, Registry!LatestValidationsPass

LEMMA ActivateStep ==
  ASSUME RegistryInv, NEW d \in Document, NEW at \in Registry!Time, NEW key \in Key,
         Registry!ActivatePair(d, at, key)
  PROVE  RegistryInv'
<1> DEFINE g == [family |-> "GUARDIAN", of |-> d.g, at |-> at, key |-> key, proof |-> d]
           s == [family |-> "SCOUT", of |-> d.s, at |-> at, key |-> key, proof |-> d]
           n == Len(activations)
<1>1. /\ activations' = activations \o <<g, s>>
      /\ UNCHANGED <<registered, validations, evidence, cycle, commits>>
      /\ d \in evidence /\ d.at <= at
      /\ Registry!MayActivate(d.g, at) /\ Registry!MayActivate(d.s, at)
  BY DEF Registry!ActivatePair, Registry!ProvenBy
<1>2. /\ d.g \in Guardian /\ d.s \in Scout
      /\ Registry!FamilyOf(d.g) = "GUARDIAN" /\ Registry!FamilyOf(d.s) = "SCOUT"
  BY <1>1 DEF RegistryInv, DocumentsOK, Registry!FamilyOf, Registry!RegistryAssumption
<1>3. g \in Registry!Activation /\ s \in Registry!Activation
  BY <1>2 DEF Registry!Activation, Registry!Family, Registry!Version
<1>4. activations \in Seq(Registry!Activation) /\ n \in Nat
  BY DEF RegistryInv, RowsOK
<1>5. /\ activations' \in Seq(Registry!Activation) /\ Len(activations') = n + 2
      /\ DOMAIN activations = 1 .. n /\ DOMAIN activations' = 1 .. (n + 2)
      /\ \A i \in 1 .. n : activations'[i] = activations[i]
      /\ activations'[n + 1] = g /\ activations'[n + 2] = s
  <2> HIDE DEF g, s
  <2>1. <<g, s>> \in Seq(Registry!Activation) /\ Len(<<g, s>>) = 2
        /\ <<g, s>>[1] = g /\ <<g, s>>[2] = s
    BY <1>3
  <2>2. \A i \in 1 .. (n + 2) :
          activations'[i] = IF i <= n THEN activations[i] ELSE <<g, s>>[i - n]
    BY <1>1, <1>4, <2>1, ConcatProperties
  <2>3. activations' \in Seq(Registry!Activation) /\ Len(activations') = n + 2
    BY <1>1, <1>4, <2>1, ConcatProperties
  <2>4. activations'[n + 1] = g
    <3>1. ~(n + 1 <= n) /\ (n + 1) - n = 1 /\ n + 1 \in 1 .. (n + 2)
      BY <1>4
    <3> QED BY <2>1, <2>2, <3>1
  <2>5. activations'[n + 2] = s
    <3>1. ~(n + 2 <= n) /\ (n + 2) - n = 2 /\ n + 2 \in 1 .. (n + 2)
      BY <1>4
    <3> QED BY <2>1, <2>2, <3>1
  <2> QED BY <1>4, <2>2, <2>3, <2>4, <2>5
<1>6. \A i \in 1 .. (n + 2) : i \in 1 .. n \/ i = n + 1 \/ i = n + 2
  BY <1>4
<1>7. /\ g.family = "GUARDIAN" /\ g.of = d.g /\ g.at = at /\ g.key = key /\ g.proof = d
      /\ s.family = "SCOUT" /\ s.of = d.s /\ s.at = at /\ s.key = key /\ s.proof = d
  OBVIOUS
<1> HIDE DEF g, s, n
<1>8. /\ \A i \in 1 .. n : /\ i \in Registry!Rows("GUARDIAN")' <=> i \in Registry!Rows("GUARDIAN")
                           /\ i \in Registry!Rows("SCOUT")' <=> i \in Registry!Rows("SCOUT")
      /\ n + 1 \in Registry!Rows("GUARDIAN")' /\ n + 1 \notin Registry!Rows("SCOUT")'
      /\ n + 2 \in Registry!Rows("SCOUT")' /\ n + 2 \notin Registry!Rows("GUARDIAN")'
      /\ \A f \in Registry!Family : Registry!Rows(f) \subseteq 1 .. n
                                    /\ Registry!Rows(f)' \subseteq 1 .. (n + 2)
  <2>1. /\ n + 1 \in DOMAIN activations' /\ n + 2 \in DOMAIN activations'
        /\ \A i \in 1 .. n : i \in DOMAIN activations'
    BY <1>4, <1>5
  <2>2. \A f \in Registry!Family, i \in 1 .. n : i \in Registry!Rows(f)' <=> i \in Registry!Rows(f)
    BY <1>5, <2>1 DEF Registry!Rows
  <2>3. \A f \in Registry!Family : Registry!Rows(f) \subseteq 1 .. n
                                  /\ Registry!Rows(f)' \subseteq 1 .. (n + 2)
    BY <1>5 DEF Registry!Rows
  <2>4. /\ n + 1 \in Registry!Rows("GUARDIAN")' /\ n + 1 \notin Registry!Rows("SCOUT")'
        /\ n + 2 \in Registry!Rows("SCOUT")' /\ n + 2 \notin Registry!Rows("GUARDIAN")'
    BY <1>5, <1>7, <2>1 DEF Registry!Rows
  <2> QED BY <2>2, <2>3, <2>4 DEF Registry!Family
<1>9. \A i \in 1 .. n : activations[i].family = "GUARDIAN" \/ activations[i].family = "SCOUT"
  <2> SUFFICES ASSUME NEW i \in 1 .. n
               PROVE activations[i].family = "GUARDIAN" \/ activations[i].family = "SCOUT"
    OBVIOUS
  <2>1. activations[i] \in Registry!Activation
    BY <1>4, <1>5
  <2> QED BY <2>1 DEF Registry!Activation, Registry!Family
<1>10. \A i \in 1 .. n : activations[i].at < at
  BY <1>1, <1>2, <1>5, <1>9 DEF Registry!MayActivate, Registry!Rows
<1>11. RowsOK'
  <2>1. \A i \in Registry!Rows("GUARDIAN")' :
          /\ i + 1 \in Registry!Rows("SCOUT")'
          /\ activations'[i + 1].at = activations'[i].at /\ activations'[i + 1].key = activations'[i].key
          /\ activations'[i].of = activations'[i].proof.g
    <3> SUFFICES ASSUME NEW i \in Registry!Rows("GUARDIAN")'
                 PROVE  /\ i + 1 \in Registry!Rows("SCOUT")'
                        /\ activations'[i + 1].at = activations'[i].at
                        /\ activations'[i + 1].key = activations'[i].key
                        /\ activations'[i].of = activations'[i].proof.g
      OBVIOUS
    <3>1. i \in 1 .. (n + 2)
      BY <1>8 DEF Registry!Family
    <3>2. CASE i \in 1 .. n
      <4>1. /\ i + 1 \in Registry!Rows("SCOUT")
            /\ activations[i + 1].at = activations[i].at /\ activations[i + 1].key = activations[i].key
            /\ activations[i].of = activations[i].proof.g
        BY <1>8, <3>2 DEF RegistryInv, RowsOK
      <4>2. i + 1 \in 1 .. n
        BY <1>8, <4>1 DEF Registry!Family
      <4> QED BY <1>5, <1>8, <3>2, <4>1, <4>2
    <3>3. CASE i = n + 1
      <4>1. i + 1 = n + 2
        BY <1>4, <3>3
      <4> QED BY <1>5, <1>7, <1>8, <3>3, <4>1
    <3> QED BY <1>6, <1>8, <3>1, <3>2, <3>3
  <2>2. \A i \in Registry!Rows("SCOUT")' :
          i - 1 \in Registry!Rows("GUARDIAN")' /\ activations'[i].of = activations'[i].proof.s
    <3> SUFFICES ASSUME NEW i \in Registry!Rows("SCOUT")'
                 PROVE  i - 1 \in Registry!Rows("GUARDIAN")'
                        /\ activations'[i].of = activations'[i].proof.s
      OBVIOUS
    <3>1. i \in 1 .. (n + 2)
      BY <1>8 DEF Registry!Family
    <3>2. CASE i \in 1 .. n
      <4>1. i - 1 \in Registry!Rows("GUARDIAN") /\ activations[i].of = activations[i].proof.s
        BY <1>8, <3>2 DEF RegistryInv, RowsOK
      <4>2. i - 1 \in 1 .. n
        BY <1>8, <4>1 DEF Registry!Family
      <4> QED BY <1>5, <1>8, <3>2, <4>1, <4>2
    <3>3. CASE i = n + 2
      <4>1. i - 1 = n + 1
        BY <1>4, <3>3
      <4> QED BY <1>5, <1>7, <1>8, <3>3, <4>1
    <3> QED BY <1>6, <1>8, <3>1, <3>2, <3>3
  <2>3. \A i \in DOMAIN activations' : activations'[i].proof \in evidence'
    BY <1>1, <1>5, <1>6, <1>7 DEF RegistryInv, RowsOK
  <2>4. \A i, j \in DOMAIN activations' :
          activations'[i].family = activations'[j].family /\ i < j =>
            activations'[i].at < activations'[j].at
    <3> SUFFICES ASSUME NEW i \in DOMAIN activations', NEW j \in DOMAIN activations',
                        activations'[i].family = activations'[j].family, i < j
                 PROVE  activations'[i].at < activations'[j].at
      OBVIOUS
    <3>1. CASE i \in 1 .. n /\ j \in 1 .. n
      BY <1>5, <3>1 DEF RegistryInv, RowsOK
    <3>2. CASE i \in 1 .. n /\ j \notin 1 .. n
      BY <1>5, <1>6, <1>7, <1>10, <3>2
    <3>3. CASE i \notin 1 .. n
      <4>1. i = n + 1 /\ j = n + 2
        BY <1>4, <1>5, <1>6, <3>3
      <4> QED BY <1>5, <1>7, <4>1
    <3> QED BY <3>1, <3>2, <3>3
  <2> QED BY <1>5, <2>1, <2>2, <2>3, <2>4 DEF RowsOK
<1>12. Registry!ActivationProven'
  <2> DEFINE Proven(row) == /\ row.proof.at <= row.at /\ row.of \in {row.proof.g, row.proof.s}
                            /\ \A k \in Registry!Kind : \E j \in DOMAIN validations :
                                 /\ validations[j].of = row.of /\ validations[j].kind = k
                                 /\ validations[j].passed /\ validations[j].at <= row.at
  <2>1. \A i \in 1 .. n : Proven(activations[i])
    BY <1>5 DEF RegistryInv, Registry!ActivationProven
  <2>2. validations \in Seq(Registry!Validation)
    BY DEF RegistryInv, DocumentsOK
  <2>3. \A v \in {d.g, d.s} : \A k \in Registry!Kind : \E j \in DOMAIN validations :
          /\ validations[j].of = v /\ validations[j].kind = k
          /\ validations[j].passed /\ validations[j].at <= at
    BY <1>1, <2>2, ReportsPassed
  <2>4. Proven(g) /\ Proven(s)
    BY <1>1, <1>7, <2>3
  <2> HIDE DEF Proven
  <2>5. \A i \in DOMAIN activations' : Proven(activations'[i])
    BY <1>5, <1>6, <2>1, <2>4
  <2> QED BY <1>1, <2>5 DEF Proven, Registry!ActivationProven
<1>13. DocumentsOK' /\ ReadsOK'
  BY <1>1 DEF RegistryInv, DocumentsOK, ReadsOK
<1> QED BY <1>11, <1>12, <1>13 DEF RegistryInv, Registry!RegistryAssumption

\* What a read leaves: the cycle ended by a refusal, or a version appended to the field.
LEMMA ReadsLeave ==
  ASSUME RegistryInv, cycle.step # "execute",
         \/ cycle' = Registry!Nothing
         \/ /\ cycle' \in ReadRows /\ cycle'.step # "execute"
            /\ \/ cycle'.final = cycle.final
               \/ cycle'.final \in Seq(Guardian) /\ Len(cycle'.final) = 1
         \/ cycle' \in ReadRows /\ cycle'.step = "execute" /\ cycle'.final \in Guardian \X Scout,
         UNCHANGED <<registered, validations, evidence, activations, commits>>
  PROVE  RegistryInv'
<1>1. ReadsOK'
  BY NothingRead DEF RegistryInv, ReadsOK
<1> QED BY <1>1 DEF RegistryInv, DocumentsOK, RowsOK, Registry!Rows,
             Registry!ActivationProven, Registry!RegistryAssumption

\* threshold_readiness, run_official: the field of the commit is not touched.
LEMMA EarlyReadStep ==
  ASSUME RegistryInv, Registry!Readiness \/ Registry!RunOfficial
  PROVE  RegistryInv'
<1>1. /\ cycle \in ReadRows /\ cycle.step # "execute"
      /\ UNCHANGED <<registered, validations, evidence, activations, commits>>
  BY DEF RegistryInv, ReadsOK, Registry!Readiness, Registry!RunOfficial, Registry!Read,
         Registry!Refuse
<1>2. \A at \in Registry!Time : Registry!Resolved("GUARDIAN", at) \subseteq Registry!Version
                             /\ Registry!Resolved("SCOUT", at) \subseteq Registry!Version
  BY FoundOfFamily DEF RegistryInv, Registry!Version
<1>3. cycle.at \in Registry!Time /\ cycle.permit \in Seq(Registry!Version)
      /\ cycle.run \in Seq(Registry!Version)
  BY <1>1 DEF ReadRows
<1>4. CASE Registry!Readiness
  <2>1. \/ cycle' = Registry!Nothing
        \/ \E v \in Registry!Version :
             cycle' = [cycle EXCEPT !.permit = Append(cycle.permit, v),
                         !.step = IF Len(Append(cycle.permit, v)) = 2 THEN "metrics" ELSE @]
    BY <1>2, <1>3, <1>4 DEF Registry!Readiness, Registry!Read, Registry!Refuse
  <2>2. CASE cycle' # Registry!Nothing
    <3>1. PICK v \in Registry!Version :
             cycle' = [cycle EXCEPT !.permit = Append(cycle.permit, v),
                         !.step = IF Len(Append(cycle.permit, v)) = 2 THEN "metrics" ELSE @]
      BY <2>1, <2>2
    <3>2. Append(cycle.permit, v) \in Seq(Registry!Version)
      BY <1>3
    <3>3. cycle' \in ReadRows /\ cycle'.step # "execute" /\ cycle'.final = cycle.final
      BY <1>1, <3>1, <3>2 DEF ReadRows
    <3> QED BY <1>1, <3>3, ReadsLeave
  <2> QED BY <1>1, <2>2, ReadsLeave
<1>5. CASE Registry!RunOfficial
  <2>1. \/ cycle' = Registry!Nothing
        \/ \E v \in Registry!Version :
             cycle' = [cycle EXCEPT !.run = Append(cycle.run, v),
                         !.step = IF Len(Append(cycle.run, v)) = 2 THEN "commit" ELSE @]
    BY <1>2, <1>3, <1>5 DEF Registry!RunOfficial, Registry!Read, Registry!Refuse
  <2>2. CASE cycle' # Registry!Nothing
    <3>1. PICK v \in Registry!Version :
             cycle' = [cycle EXCEPT !.run = Append(cycle.run, v),
                         !.step = IF Len(Append(cycle.run, v)) = 2 THEN "commit" ELSE @]
      BY <2>1, <2>2
    <3>2. Append(cycle.run, v) \in Seq(Registry!Version)
      BY <1>3
    <3>3. cycle' \in ReadRows /\ cycle'.step # "execute" /\ cycle'.final = cycle.final
      BY <1>1, <3>1, <3>2 DEF ReadRows
    <3> QED BY <1>1, <3>3, ReadsLeave
  <2> QED BY <1>1, <2>2, ReadsLeave
<1> QED BY <1>4, <1>5

LEMMA PairAppended ==
  ASSUME NEW S, NEW s \in Seq(S), NEW v \in S
  PROVE  Len(s) = 1 => Append(s, v) = <<s[1], v>> /\ Len(Append(s, v)) = 2
<1> DEFINE t == Append(s, v)
           u == <<s[1], v>>
<1>1. /\ t \in Seq(S) /\ Len(t) = Len(s) + 1
      /\ \A i \in 1 .. Len(s) : t[i] = s[i]
      /\ t[Len(s) + 1] = v
  BY AppendProperties, LenProperties
<1> HIDE DEF t
<1> SUFFICES ASSUME Len(s) = 1 PROVE t = u /\ Len(t) = 2
  BY DEF t
<1>2. 1 \in 1 .. Len(s) /\ Len(s) + 1 = 2 /\ s[1] \in S
  <2>1. 1 \in 1 .. Len(s) /\ Len(s) + 1 = 2
    OBVIOUS
  <2>2. \A n \in 1 .. Len(s) : s[n] \in S
    BY ElementOfSeq, Zenon
  <2> QED BY <2>1, <2>2, Zenon
<1>3. Len(t) = 2 /\ t[1] = s[1] /\ t[2] = v
  BY <1>1, <1>2
<1>4. u \in Seq(S) /\ Len(u) = 2 /\ u[1] = s[1] /\ u[2] = v
  BY <1>2
<1> HIDE DEF u
<1>5. \A i \in 1 .. Len(t) : t[i] = u[i]
  BY <1>3, <1>4
<1> QED BY <1>1, <1>3, <1>4, <1>5, SeqEqual

LEMMA PairOfTwo ==
  ASSUME NEW S, NEW w \in S, NEW v \in S
  PROVE  Append(<<w>>, v) = <<w, v>> /\ Len(<<w, v>>) = 2
<1>1. <<w>> \in Seq(S) /\ Len(<<w>>) = 1 /\ <<w>>[1] = w
  OBVIOUS
<1> QED BY <1>1, PairAppended

\* Two rows are appended and the earlier ones stay.
LEMMA TwoAppended ==
  ASSUME NEW S, NEW q \in Seq(S), NEW a, NEW b
  PROVE  LET t == q \o <<a, b>>
         IN  /\ Len(t) = Len(q) + 2
             /\ \A i \in DOMAIN q : i \in DOMAIN t /\ t[i] = q[i]
<1> DEFINE U == S \cup {a, b}
<1>1. q \in Seq(U)
  <2>1. PICK n \in Nat : q \in [1 .. n -> S]
    BY SeqDef
  <2>2. q \in [1 .. n -> U]
    BY <2>1
  <2> QED BY <2>2, SeqDef
<1>2. <<a, b>> \in Seq(U) /\ Len(<<a, b>>) = 2
  OBVIOUS
<1> HIDE DEF U
<1>3. Len(q) \in Nat /\ DOMAIN q = 1 .. Len(q)
  OBVIOUS
<1>4. /\ q \o <<a, b>> \in Seq(U) /\ Len(q \o <<a, b>>) = Len(q) + 2
      /\ \A i \in 1 .. Len(q) + 2 :
           (q \o <<a, b>>)[i] = IF i <= Len(q) THEN q[i] ELSE <<a, b>>[i - Len(q)]
  BY <1>1, <1>2, ConcatProperties
<1>5. DOMAIN (q \o <<a, b>>) = 1 .. Len(q) + 2
  BY <1>4
<1> QED BY <1>3, <1>4, <1>5

\* _official_thresholds: the Guardian's version is read first, the Scout's completes the pair.
LEMMA LastReadStep ==
  ASSUME RegistryInv, Registry!CommitThresholds
  PROVE  RegistryInv'
<1> DEFINE got == cycle.final
<1>1. /\ cycle \in ReadRows /\ cycle.step = "commit"
      /\ got = << >> \/ (got \in Seq(Guardian) /\ Len(got) = 1)
      /\ UNCHANGED <<registered, validations, evidence, activations, commits>>
  BY DEF RegistryInv, ReadsOK, Registry!CommitThresholds, Registry!Read, Registry!Refuse
<1>2. cycle.at \in Registry!Time
  BY <1>1 DEF ReadRows
<1>3. /\ Registry!Resolved("GUARDIAN", cycle.at) \subseteq Guardian
      /\ Registry!Resolved("SCOUT", cycle.at) \subseteq Scout
  BY <1>2, FoundOfFamily DEF RegistryInv
<1>4. \/ cycle' = Registry!Nothing
      \/ \E v \in IF got = << >> THEN Guardian ELSE Scout :
           cycle' = [cycle EXCEPT !.final = Append(got, v),
                       !.step = IF Len(Append(got, v)) = 2 THEN "execute" ELSE @]
  BY <1>3 DEF Registry!CommitThresholds, Registry!Read, Registry!Refuse
<1>5. CASE got = << >> /\ cycle' # Registry!Nothing
  <2>1. PICK v \in Guardian :
          cycle' = [cycle EXCEPT !.final = Append(got, v),
                      !.step = IF Len(Append(got, v)) = 2 THEN "execute" ELSE @]
    BY <1>4, <1>5
  <2>2. /\ Append(got, v) = <<v>> /\ <<v>> \in Seq(Guardian) /\ Len(<<v>>) = 1
        /\ <<v>> \in Seq(Registry!Version)
    BY <1>5 DEF Registry!Version
  <2>3. cycle' = [cycle EXCEPT !.final = <<v>>, !.step = cycle.step]
    BY <2>1, <2>2
  <2>4. cycle' \in ReadRows /\ cycle'.step = "commit" /\ cycle'.final = <<v>>
    BY <1>1, <2>2, <2>3 DEF ReadRows
  <2> QED BY <1>1, <2>2, <2>4, ReadsLeave
<1>6. CASE got # << >> /\ cycle' # Registry!Nothing
  <2>1. PICK v \in Scout :
          cycle' = [cycle EXCEPT !.final = Append(got, v),
                      !.step = IF Len(Append(got, v)) = 2 THEN "execute" ELSE @]
    BY <1>4, <1>6
  <2>2. got \in Seq(Guardian) /\ Len(got) = 1
    BY <1>1, <1>6
  <2>3. /\ Append(got, v) = <<got[1], v>> /\ got[1] \in Guardian
        /\ Len(Append(got, v)) = 2
    <3>1. got[1] \in Guardian /\ got \in Seq(Registry!Version) /\ v \in Registry!Version
      BY <2>2 DEF Registry!Version
    <3> HIDE DEF got
    <3> QED BY <2>2, <3>1, PairAppended
  <2>4. <<got[1], v>> \in Guardian \X Scout /\ <<got[1], v>> \in Seq(Registry!Version)
    BY <2>3 DEF Registry!Version
  <2>5. /\ cycle' \in ReadRows /\ cycle'.step = "execute" /\ cycle'.final = <<got[1], v>>
    BY <1>1, <2>1, <2>3, <2>4 DEF ReadRows
  <2> QED BY <1>1, <2>4, <2>5, ReadsLeave
<1> QED BY <1>1, <1>5, <1>6, ReadsLeave

LEMMA CycleStep ==
  ASSUME RegistryInv,
         \/ \E at \in Registry!Time : Registry!StartCycle(at)
         \/ Registry!Commit
  PROVE  RegistryInv'
<1>1. ASSUME NEW at \in Registry!Time, Registry!StartCycle(at) PROVE RegistryInv'
  <2>1. /\ cycle' = [Registry!Nothing EXCEPT !.step = "readiness", !.at = at, !.begun = Len(activations)]
        /\ cycle = Registry!Nothing
        /\ UNCHANGED <<registered, validations, evidence, activations, commits>>
    BY <1>1 DEF Registry!StartCycle
  <2>2. /\ cycle \in ReadRows /\ cycle.step = "none" /\ Len(activations) \in Nat
    BY <2>1, NothingRead DEF RegistryInv, RowsOK
  <2>3. cycle' \in ReadRows /\ cycle'.step = "readiness" /\ cycle'.final = cycle.final
    BY <2>1, <2>2 DEF ReadRows
  <2> QED BY <2>1, <2>2, <2>3, ReadsLeave
<1>2. CASE Registry!Commit
  <2>1. /\ cycle.step = "execute" /\ cycle' = Registry!Nothing
        /\ commits' = commits \cup {[at |-> cycle.at, pair |-> cycle.final,
                                    during |-> Len(activations) - cycle.begun]}
        /\ UNCHANGED <<registered, validations, evidence, activations>>
    BY <1>2 DEF Registry!Commit
  <2>2. cycle.at \in Registry!Time /\ cycle.final \in Guardian \X Scout
    BY <2>1 DEF RegistryInv, ReadsOK, ReadRows
  <2>3. \A c \in commits' : c.at \in Registry!Time /\ c.pair \in Guardian \X Scout
    BY <2>1, <2>2 DEF RegistryInv, ReadsOK
  <2>4. ReadsOK'
    BY <2>1, <2>3, NothingRead DEF RegistryInv, ReadsOK
  <2> QED BY <2>1, <2>4 DEF RegistryInv, DocumentsOK, RowsOK, Registry!Rows,
             Registry!ActivationProven, Registry!RegistryAssumption
<1> QED BY <1>1, <1>2

THEOREM RegistryInvariance ==
  Registry!RegistryAssumption /\ Registry!Spec => []RegistryInv
<1>1. RegistryInv /\ [Registry!Next]_(Registry!vars) => RegistryInv'
  <2> SUFFICES ASSUME RegistryInv, [Registry!Next]_(Registry!vars) PROVE RegistryInv'
    OBVIOUS
  <2>1. CASE UNCHANGED Registry!vars
    BY <2>1 DEF RegistryInv, DocumentsOK, RowsOK, ReadsOK, Registry!vars, Registry!Rows,
         Registry!ActivationProven, Registry!RegistryAssumption
  <2>2. ASSUME NEW v \in Registry!Version, Registry!RegisterVersion(v) PROVE RegistryInv'
    BY <2>2, RegisterStep
  <2>3. ASSUME NEW v \in Registry!Version, NEW kind \in Registry!Kind, NEW passed \in BOOLEAN,
               NEW at \in Registry!Time, Registry!RecordValidation(v, kind, passed, at)
        PROVE  RegistryInv'
    BY <2>3, ReportStep
  <2>4. ASSUME NEW d \in Document, Registry!RecordActivationEvidence(d) PROVE RegistryInv'
    BY <2>4, DocumentStep
  <2>5. ASSUME NEW d \in Document, NEW at \in Registry!Time, NEW key \in Key,
               Registry!ActivatePair(d, at, key)
        PROVE  RegistryInv'
    BY <2>5, ActivateStep
  <2>6. CASE (\E at \in Registry!Time : Registry!StartCycle(at)) \/ Registry!Commit
    BY <2>6, CycleStep
  <2>7. CASE Registry!Readiness \/ Registry!RunOfficial
    BY <2>7, EarlyReadStep
  <2>8. CASE Registry!CommitThresholds
    BY <2>8, LastReadStep
  <2> QED BY <2>1, <2>2, <2>3, <2>4, <2>5, <2>6, <2>7, <2>8 DEF Registry!Next
<1> QED BY <1>1, RegistryInit, PTL DEF Registry!Spec

\* activate_pair: at every instant the two families are in force by one activation, for any
\* documents, reports and times, however the registrations and activations interleave.
THEOREM PairsInForce == Registry!RegistryAssumption /\ Registry!Spec => []Registry!PairInForce
<1>1. RegistryInv => Registry!PairInForce
  BY SideBySide DEF RegistryInv
<1> QED BY <1>1, RegistryInvariance, PTL

\* _activation_evidence_for_pair, _latest_validations_pass: nothing comes into force on proof or
\* reports of a later time.
THEOREM ActivationsProven ==
  Registry!RegistryAssumption /\ Registry!Spec => []Registry!ActivationProven
<1>1. RegistryInv => Registry!ActivationProven
  BY DEF RegistryInv
<1> QED BY <1>1, RegistryInvariance, PTL

\* _evidence_threshold_uid: a demo version comes into force on a demo document alone, although
\* document and activation are two commands.
THEOREM ScopesStayApart ==
  Registry!RegistryAssumption /\ Registry!Spec => []Registry!ScopesApart
<1>1. RegistryInv => Registry!ScopesApart
  <2> SUFFICES ASSUME RegistryInv, NEW i \in DOMAIN activations
               PROVE  activations[i].of \in Demo <=> activations[i].proof.scope = "DEMO"
    BY DEF Registry!ScopesApart
  <2>1. /\ activations[i].proof \in evidence
        /\ activations[i].of \in {activations[i].proof.g, activations[i].proof.s}
    BY DEF RegistryInv, RowsOK, Registry!ActivationProven
  <2> QED BY <2>1 DEF RegistryInv, DocumentsOK
<1> QED BY <1>1, RegistryInvariance, PTL

\* Rows are of versions of their family, and a commit names a version of each, the Guardian's
\* first, whatever was activated between its reads.
THEOREM RegistryTypes == Registry!RegistryAssumption /\ Registry!Spec => []Registry!TypeOK
<1>1. RegistryInv => Registry!TypeOK
  <2> SUFFICES ASSUME RegistryInv PROVE Registry!TypeOK
    OBVIOUS
  <2>1. \A i \in DOMAIN activations :
          Registry!FamilyOf(activations[i].of) = activations[i].family
    BY FamilyOfRow DEF RegistryInv
  <2> QED BY <2>1 DEF RegistryInv, DocumentsOK, RowsOK, ReadsOK, Registry!TypeOK
<1> QED BY <1>1, RegistryInvariance, PTL

(***************************************************************************)
(* The registry keeps its promises together: types, pairs, proof of each   *)
(* activation, scopes (thresholds.py).                                     *)
(***************************************************************************)
THEOREM RegistryIsSound ==
  Registry!RegistryAssumption /\ Registry!Spec => []Registry!ThresholdsSound
BY RegistryTypes, PairsInForce, ActivationsProven, ScopesStayApart, PTL DEF Registry!ThresholdsSound

-----------------------------------------------------------------------------
(***************************************************************************)
(* The pair a commit names.  The six reads of a cycle take the Guardian's  *)
(* and the Scout's version in turn, and the later pairs must equal the     *)
(* earlier ones.  For a pair that was never activated together each read   *)
(* must find a row written after the one the read before it found, and     *)
(* only the first can be from before the cycle: at least five activations  *)
(* were recorded while it ran.                                             *)
(***************************************************************************)
Together(rows, g, s) ==
  \E i, j \in DOMAIN rows : rows[i].of = g /\ rows[j].of = s /\ rows[i].key = rows[j].key

\* From the n-th row on there is one of v that is due at the instant.
Since(rows, family, n, v, at) ==
  \E i \in DOMAIN rows : i >= n /\ rows[i].family = family /\ rows[i].at <= at /\ rows[i].of = v

\* What a pair that was read says of the rows, and a Guardian version that must equal the pair's.
Stood(rows, n, g, s, at) == Together(rows, g, s) \/ Since(rows, "SCOUT", n, s, at)
Begun(rows, n, got, g, s, at) ==
  \/ got = << >>
  \/ \E v \in Guardian :
       got = <<v>> /\ (v = g => Together(rows, g, s) \/ Since(rows, "GUARDIAN", n, g, at))

\* The first version that is read is that of the last row that was due when the cycle began, or
\* of one that came since.
Opened(rows, b, g, at) ==
  \E i \in DOMAIN rows :
    /\ rows[i].family = "GUARDIAN" /\ rows[i].at <= at /\ rows[i].of = g
    /\ \A k \in 1 .. b : rows[k].family = "GUARDIAN" /\ rows[k].at <= at => k <= i

\* The reads of the cycle c so far.
ReadsOf(c, rows) ==
  /\ c.begun <= Len(rows)
  /\ c.step \in {"none", "readiness"} => c.run = << >> /\ c.final = << >>
  /\ c.step = "none" => c.permit = << >>
  /\ c.step = "readiness" =>
       c.permit = << >> \/ \E g \in Guardian : c.permit = <<g>> /\ Opened(rows, c.begun, g, c.at)
  /\ c.step = "metrics" =>
       /\ c.final = << >>
       /\ \E g \in Guardian, s \in Scout :
            /\ c.permit = <<g, s>> /\ Stood(rows, c.begun + 2, g, s, c.at)
            /\ Begun(rows, c.begun + 3, c.run, g, s, c.at)
  /\ c.step = "commit" =>
       \E g \in Guardian, s \in Scout :
         /\ c.run = <<g, s>> /\ Stood(rows, c.begun + 6, g, s, c.at)
         /\ Begun(rows, c.begun + 7, c.final, g, s, c.at)
  /\ c.step = "execute" =>
       \E g \in Guardian, s \in Scout : c.final = <<g, s>> /\ Stood(rows, c.begun + 10, g, s, c.at)

PairsOf(rows) ==
  \A c \in commits : Together(rows, c.pair[1], c.pair[2]) \/ c.during >= 10

PairInv == RegistryInv /\ ReadsOf(cycle, activations) /\ PairsOf(activations)

\* A read finds the last due row of its family.
LEMMA RowRead ==
  ASSUME RegistryInv, NEW f \in Registry!Family, NEW at \in Registry!Time,
         NEW v \in Registry!Resolved(f, at)
  PROVE  LET i == Registry!InForce(f, at)
         IN  /\ i \in Registry!Rows(f) /\ activations[i].at <= at /\ activations[i].of = v
             /\ \A j \in Registry!Rows(f) : activations[j].at <= at => j <= i
<1>1. Registry!InForce(f, at) # 0 /\ v = activations[Registry!InForce(f, at)].of
  BY DEF Registry!Resolved
<1> QED BY <1>1, LastInForce DEF RegistryInv

\* The rows of the families take turns.
LEMMA Turns ==
  ASSUME RegistryInv
  PROVE  /\ DOMAIN activations = 1 .. Len(activations) /\ Len(activations) \in Nat
         /\ \A f \in Registry!Family : \A i \in Registry!Rows(f) :
              i \in DOMAIN activations /\ i \in Nat /\ i >= 1 /\ activations[i].family = f
         /\ \A i \in Registry!Rows("GUARDIAN") :
              /\ i + 1 \in Registry!Rows("SCOUT") /\ i + 1 \notin Registry!Rows("GUARDIAN")
              /\ activations[i + 1].at = activations[i].at
              /\ activations[i + 1].key = activations[i].key
         /\ \A i \in Registry!Rows("SCOUT") :
              i - 1 \in Registry!Rows("GUARDIAN") /\ i \notin Registry!Rows("GUARDIAN")
BY DEF RegistryInv, RowsOK, Registry!Rows

\* The Guardian's version is read at first.
LEMMA FirstRead ==
  ASSUME RegistryInv, NEW at \in Registry!Time, NEW v \in Registry!Resolved("GUARDIAN", at),
         NEW b \in Nat, b <= Len(activations)
  PROVE  Opened(activations, b, v, at)
<1> DEFINE i == Registry!InForce("GUARDIAN", at)
<1>1. /\ i \in Registry!Rows("GUARDIAN") /\ activations[i].at <= at /\ activations[i].of = v
      /\ \A k \in Registry!Rows("GUARDIAN") : activations[k].at <= at => k <= i
  BY RowRead DEF Registry!Family
<1> HIDE DEF i
<1>2. i \in DOMAIN activations /\ activations[i].family = "GUARDIAN"
  BY <1>1, Turns DEF Registry!Family
<1>3. \A k \in 1 .. b : k \in DOMAIN activations
  BY Turns
<1>4. \A k \in 1 .. b : activations[k].family = "GUARDIAN" /\ activations[k].at <= at => k <= i
  BY <1>1, <1>3 DEF Registry!Rows
<1> QED BY <1>1, <1>2, <1>4 DEF Opened

\* The Scout's version after that: of the same activation, or of one that came during the cycle.
LEMMA SecondRead ==
  ASSUME RegistryInv, NEW at \in Registry!Time, NEW v \in Registry!Resolved("SCOUT", at),
         NEW b \in Nat, NEW g, Opened(activations, b, g, at)
  PROVE  Together(activations, g, v) \/ Since(activations, "SCOUT", b + 2, v, at)
<1> DEFINE j == Registry!InForce("SCOUT", at)
<1>1. /\ j \in Registry!Rows("SCOUT") /\ activations[j].at <= at /\ activations[j].of = v
      /\ \A k \in Registry!Rows("SCOUT") : activations[k].at <= at => k <= j
  BY RowRead DEF Registry!Family
<1> HIDE DEF j
<1>2. PICK i \in DOMAIN activations :
        /\ activations[i].family = "GUARDIAN" /\ activations[i].at <= at /\ activations[i].of = g
        /\ \A k \in 1 .. b : activations[k].family = "GUARDIAN" /\ activations[k].at <= at => k <= i
  BY DEF Opened
<1>3. /\ i \in Registry!Rows("GUARDIAN") /\ i \in Nat /\ i + 1 \in Registry!Rows("SCOUT")
      /\ activations[i + 1].at = activations[i].at /\ activations[i + 1].key = activations[i].key
  BY <1>2, Turns DEF Registry!Family, Registry!Rows
<1>4. /\ j \in DOMAIN activations /\ j \in Nat /\ j - 1 \in Registry!Rows("GUARDIAN")
      /\ activations[j].family = "SCOUT"
  BY <1>1, Turns DEF Registry!Family
<1>5. i + 1 <= j
  BY <1>1, <1>2, <1>3
<1>6. CASE j = i + 1
  BY <1>1, <1>2, <1>3, <1>4, <1>6 DEF Together
<1>7. CASE j # i + 1
  <2>1. /\ j - 1 \in DOMAIN activations /\ j - 1 \in Nat /\ j - 1 >= 1
        /\ activations[j - 1].family = "GUARDIAN"
    BY <1>4, Turns DEF Registry!Family
  <2>2. activations[j - 1].at <= at
    <3>1. activations[(j - 1) + 1].at = activations[j - 1].at /\ (j - 1) + 1 = j
      BY <1>4, Turns
    <3> QED BY <1>1, <3>1
  <2>3. ~(j - 1 <= i)
    BY <1>3, <1>4, <1>5, <1>7
  <2>4. ~(j - 1 <= b)
    BY <1>2, <2>1, <2>2, <2>3
  <2>5. j >= b + 2
    BY <1>4, <2>4
  <2> QED BY <1>1, <1>4, <2>5 DEF Since
<1> QED BY <1>6, <1>7

\* The Scout's version after a row of the Guardian's: of the same activation, or of a later one.
LEMMA ScoutRead ==
  ASSUME RegistryInv, NEW at \in Registry!Time, NEW v \in Registry!Resolved("SCOUT", at),
         NEW n \in Nat, NEW g, Since(activations, "GUARDIAN", n, g, at)
  PROVE  Together(activations, g, v) \/ Since(activations, "SCOUT", n + 3, v, at)
<1> DEFINE j == Registry!InForce("SCOUT", at)
<1>1. /\ j \in Registry!Rows("SCOUT") /\ activations[j].at <= at /\ activations[j].of = v
      /\ \A k \in Registry!Rows("SCOUT") : activations[k].at <= at => k <= j
  BY RowRead DEF Registry!Family
<1> HIDE DEF j
<1>2. PICK i \in Registry!Rows("GUARDIAN") : i >= n /\ activations[i].at <= at /\ activations[i].of = g
  BY DEF Since, Registry!Rows
<1>3. /\ i \in DOMAIN activations /\ i \in Nat /\ i + 1 \in Registry!Rows("SCOUT")
      /\ activations[i + 1].at = activations[i].at /\ activations[i + 1].key = activations[i].key
      /\ i + 1 \notin Registry!Rows("GUARDIAN")
  BY Turns DEF Registry!Family
<1>4. /\ j \in DOMAIN activations /\ j \in Nat /\ j - 1 \in Registry!Rows("GUARDIAN")
      /\ activations[j].family = "SCOUT"
  BY <1>1, Turns DEF Registry!Family
<1>5. i + 1 <= j
  BY <1>1, <1>2, <1>3
<1>6. CASE j = i + 1
  BY <1>1, <1>2, <1>3, <1>4, <1>6 DEF Together
<1>7. CASE j # i + 1
  <2>1. j # i + 2
    <3> SUFFICES ASSUME j = i + 2 PROVE FALSE
      OBVIOUS
    <3>1. j - 1 = i + 1
      BY <1>3
    <3> QED BY <1>3, <1>4, <3>1
  <2>2. j >= n + 3
    BY <1>2, <1>3, <1>4, <1>5, <1>7, <2>1
  <2> QED BY <1>1, <1>4, <2>2 DEF Since
<1> QED BY <1>6, <1>7

\* The Guardian's version after a row of the Scout's.
LEMMA GuardianRead ==
  ASSUME RegistryInv, NEW at \in Registry!Time, NEW v \in Registry!Resolved("GUARDIAN", at),
         NEW n \in Nat, NEW s, Since(activations, "SCOUT", n, s, at)
  PROVE  Together(activations, v, s) \/ Since(activations, "GUARDIAN", n + 1, v, at)
<1> DEFINE j == Registry!InForce("GUARDIAN", at)
<1>1. /\ j \in Registry!Rows("GUARDIAN") /\ activations[j].at <= at /\ activations[j].of = v
      /\ \A k \in Registry!Rows("GUARDIAN") : activations[k].at <= at => k <= j
  BY RowRead DEF Registry!Family
<1> HIDE DEF j
<1>2. PICK i \in Registry!Rows("SCOUT") : i >= n /\ activations[i].at <= at /\ activations[i].of = s
  BY DEF Since, Registry!Rows
<1>3. /\ i \in DOMAIN activations /\ i \in Nat /\ i - 1 \in Registry!Rows("GUARDIAN")
      /\ i \notin Registry!Rows("GUARDIAN")
  BY Turns DEF Registry!Family
<1>4. /\ activations[(i - 1) + 1].at = activations[i - 1].at
      /\ activations[(i - 1) + 1].key = activations[i - 1].key /\ (i - 1) + 1 = i
  BY <1>3, Turns
<1>5. j \in DOMAIN activations /\ j \in Nat /\ activations[j].family = "GUARDIAN"
  BY <1>1, Turns DEF Registry!Family
<1>6. i - 1 <= j
  BY <1>1, <1>2, <1>3, <1>4
<1>7. CASE j = i - 1
  BY <1>1, <1>2, <1>3, <1>4, <1>5, <1>7 DEF Together
<1>8. CASE j # i - 1
  <2>1. j # i
    BY <1>1, <1>3
  <2>2. j >= n + 1
    BY <1>2, <1>3, <1>5, <1>6, <1>8, <2>1
  <2> QED BY <1>1, <1>5, <2>2 DEF Since
<1> QED BY <1>7, <1>8

\* A pair must be read again: the Guardian's version, then the Scout's.
LEMMA ReadAgain ==
  ASSUME RegistryInv, NEW at \in Registry!Time, NEW n \in Nat, NEW g \in Guardian, NEW s \in Scout,
         NEW got, Stood(activations, n, g, s, at), Begun(activations, n + 1, got, g, s, at)
  PROVE  /\ got = << >> => \A v \in Registry!Resolved("GUARDIAN", at) :
              Append(got, v) = <<v>> /\ Begun(activations, n + 1, <<v>>, g, s, at)
         /\ got # << >> => \A v \in Registry!Resolved("SCOUT", at) :
              /\ Len(Append(got, v)) = 2
              /\ Append(got, v) = <<g, s>> => Stood(activations, n + 4, g, s, at)
<1>1. ASSUME got = << >>, NEW v \in Registry!Resolved("GUARDIAN", at)
      PROVE  Append(got, v) = <<v>> /\ Begun(activations, n + 1, <<v>>, g, s, at)
  <2>1. v \in Guardian
    BY FoundOfFamily DEF RegistryInv
  <2>2. Append(got, v) = <<v>>
    BY <1>1, <2>1
  <2>3. v = g => Together(activations, g, s) \/ Since(activations, "GUARDIAN", n + 1, g, at)
    BY GuardianRead DEF Stood
  <2> QED BY <2>1, <2>2, <2>3 DEF Begun
<1>2. ASSUME got # << >>, NEW v \in Registry!Resolved("SCOUT", at)
      PROVE  /\ Len(Append(got, v)) = 2
             /\ Append(got, v) = <<g, s>> => Stood(activations, n + 4, g, s, at)
  <2>1. v \in Scout
    BY FoundOfFamily DEF RegistryInv
  <2>2. PICK w \in Guardian :
          got = <<w>> /\ (w = g => Together(activations, g, s) \/ Since(activations, "GUARDIAN", n + 1, g, at))
    BY <1>2 DEF Begun
  <2>3. Append(got, v) = <<w, v>> /\ Len(<<w, v>>) = 2
    <3>1. w \in Registry!Version /\ v \in Registry!Version
      BY <2>1 DEF Registry!Version
    <3>2. Append(<<w>>, v) = <<w, v>> /\ Len(<<w, v>>) = 2
      BY <3>1, PairOfTwo
    <3> QED BY <2>2, <3>2
  <2>4. ASSUME Append(got, v) = <<g, s>> PROVE Stood(activations, n + 4, g, s, at)
    <3>1. w = g /\ v = s
      BY <2>3, <2>4
    <3>2. CASE Together(activations, g, s)
      BY <3>2 DEF Stood
    <3>3. CASE Since(activations, "GUARDIAN", n + 1, g, at)
      <4>1. n + 1 \in Nat /\ (n + 1) + 3 = n + 4
        OBVIOUS
      <4>2. Together(activations, g, v) \/ Since(activations, "SCOUT", (n + 1) + 3, v, at)
        BY <3>3, <4>1, ScoutRead
      <4> QED BY <3>1, <4>1, <4>2 DEF Stood
    <3> QED BY <2>2, <3>1, <3>2, <3>3
  <2> QED BY <2>3, <2>4
<1> QED BY <1>1, <1>2

\* A cycle that was refused has read nothing.
LEMMA NothingReadYet ==
  ASSUME NEW rows, Len(rows) \in Nat PROVE ReadsOf(Registry!Nothing, rows)
BY DEF ReadsOf, Registry!Nothing

\* threshold_readiness: the pair of the permit.
LEMMA PermitStep ==
  ASSUME PairInv, Registry!Readiness
  PROVE  ReadsOf(cycle', activations)
<1> DEFINE got == cycle.permit
<1>1. /\ RegistryInv /\ cycle \in ReadRows /\ cycle.step = "readiness"
      /\ cycle.run = << >> /\ cycle.final = << >>
      /\ cycle.begun <= Len(activations)
      /\ got = << >> \/ \E g \in Guardian : got = <<g>> /\ Opened(activations, cycle.begun, g, cycle.at)
  BY DEF PairInv, RegistryInv, ReadsOK, ReadsOf, Registry!Readiness
<1>2. cycle.at \in Registry!Time /\ cycle.begun \in Nat
  BY <1>1 DEF ReadRows
<1>3. /\ Registry!Resolved("GUARDIAN", cycle.at) \subseteq Guardian
      /\ Registry!Resolved("SCOUT", cycle.at) \subseteq Scout
  BY <1>1, <1>2, FoundOfFamily DEF RegistryInv
<1>4. \/ cycle' = Registry!Nothing
      \/ \E v \in Registry!Resolved(IF got = << >> THEN "GUARDIAN" ELSE "SCOUT", cycle.at) :
           cycle' = [cycle EXCEPT !.permit = Append(got, v),
                       !.step = IF Len(Append(got, v)) = 2 THEN "metrics" ELSE @]
  BY DEF Registry!Readiness, Registry!Read, Registry!Refuse
<1>5. CASE cycle' = Registry!Nothing
  BY <1>5, NothingReadYet, Turns DEF PairInv
<1>6. CASE got = << >> /\ cycle' # Registry!Nothing
  <2>1. PICK v \in Registry!Resolved("GUARDIAN", cycle.at) :
          cycle' = [cycle EXCEPT !.permit = Append(got, v),
                      !.step = IF Len(Append(got, v)) = 2 THEN "metrics" ELSE @]
    BY <1>4, <1>6
  <2>2. v \in Guardian /\ Opened(activations, cycle.begun, v, cycle.at)
    BY <1>1, <1>2, <1>3, FirstRead
  <2>3. Append(got, v) = <<v>> /\ Len(<<v>>) = 1
    BY <1>6, <2>2
  <2>4. /\ cycle'.step = "readiness" /\ cycle'.permit = <<v>> /\ cycle'.run = << >>
        /\ cycle'.final = << >> /\ cycle'.at = cycle.at /\ cycle'.begun = cycle.begun
    BY <1>1, <2>1, <2>3 DEF ReadRows
  <2> QED BY <1>1, <2>2, <2>4 DEF ReadsOf
<1>7. CASE got # << >> /\ cycle' # Registry!Nothing
  <2>1. PICK v \in Registry!Resolved("SCOUT", cycle.at) :
          cycle' = [cycle EXCEPT !.permit = Append(got, v),
                      !.step = IF Len(Append(got, v)) = 2 THEN "metrics" ELSE @]
    BY <1>4, <1>7
  <2>2. PICK g \in Guardian : got = <<g>> /\ Opened(activations, cycle.begun, g, cycle.at)
    BY <1>1, <1>7
  <2>3. v \in Scout /\ Stood(activations, cycle.begun + 2, g, v, cycle.at)
    <3>1. Together(activations, g, v) \/ Since(activations, "SCOUT", cycle.begun + 2, v, cycle.at)
      BY <1>1, <1>2, <2>2, SecondRead
    <3> QED BY <1>3, <3>1 DEF Stood
  <2>4. Append(got, v) = <<g, v>> /\ Len(<<g, v>>) = 2
    <3>1. g \in Registry!Version /\ v \in Registry!Version
      BY <2>3 DEF Registry!Version
    <3>2. Append(<<g>>, v) = <<g, v>> /\ Len(<<g, v>>) = 2
      BY <3>1, PairOfTwo
    <3> QED BY <2>2, <3>2
  <2>5. /\ cycle'.step = "metrics" /\ cycle'.permit = <<g, v>> /\ cycle'.run = << >>
        /\ cycle'.final = << >> /\ cycle'.at = cycle.at /\ cycle'.begun = cycle.begun
    BY <1>1, <2>1, <2>4 DEF ReadRows
  <2> QED BY <1>1, <2>3, <2>5 DEF ReadsOf, Begun
<1> QED BY <1>5, <1>6, <1>7

\* run_official: the permit's pair once more.
LEMMA RunStep ==
  ASSUME PairInv, Registry!RunOfficial
  PROVE  ReadsOf(cycle', activations)
<1> DEFINE got == cycle.run
<1>1. /\ RegistryInv /\ cycle \in ReadRows /\ cycle.step = "metrics" /\ cycle.final = << >>
      /\ cycle.begun <= Len(activations)
      /\ \E g \in Guardian, s \in Scout :
           /\ cycle.permit = <<g, s>> /\ Stood(activations, cycle.begun + 2, g, s, cycle.at)
           /\ Begun(activations, cycle.begun + 3, got, g, s, cycle.at)
  BY DEF PairInv, RegistryInv, ReadsOK, ReadsOf, Registry!RunOfficial
<1>2. cycle.at \in Registry!Time /\ cycle.begun \in Nat
  BY <1>1 DEF ReadRows
<1>3. PICK g \in Guardian, s \in Scout :
        /\ cycle.permit = <<g, s>> /\ Stood(activations, cycle.begun + 2, g, s, cycle.at)
        /\ Begun(activations, cycle.begun + 3, got, g, s, cycle.at)
  BY <1>1
<1>8. /\ got = << >> => \A v \in Registry!Resolved("GUARDIAN", cycle.at) :
           Append(got, v) = <<v>> /\ Begun(activations, cycle.begun + 3, <<v>>, g, s, cycle.at)
      /\ got # << >> => \A v \in Registry!Resolved("SCOUT", cycle.at) :
           /\ Len(Append(got, v)) = 2
           /\ Append(got, v) = <<g, s>> => Stood(activations, cycle.begun + 6, g, s, cycle.at)
  <2> HIDE DEF got
  <2>1. PICK n \in Nat : n = cycle.begun + 2 /\ n + 1 = cycle.begun + 3 /\ n + 4 = cycle.begun + 6
    BY <1>2
  <2>2. Stood(activations, n, g, s, cycle.at) /\ Begun(activations, n + 1, got, g, s, cycle.at)
    BY <1>3, <2>1
  <2>3. /\ got = << >> => \A v \in Registry!Resolved("GUARDIAN", cycle.at) :
             Append(got, v) = <<v>> /\ Begun(activations, n + 1, <<v>>, g, s, cycle.at)
        /\ got # << >> => \A v \in Registry!Resolved("SCOUT", cycle.at) :
             /\ Len(Append(got, v)) = 2
             /\ Append(got, v) = <<g, s>> => Stood(activations, n + 4, g, s, cycle.at)
    BY <1>1, <1>2, <2>2, ReadAgain
  <2> QED BY <2>1, <2>3
<1>4. \/ cycle' = Registry!Nothing
      \/ \E v \in Registry!Resolved(IF got = << >> THEN "GUARDIAN" ELSE "SCOUT", cycle.at) :
           /\ Len(Append(got, v)) = 2 => Append(got, v) = cycle.permit
           /\ cycle' = [cycle EXCEPT !.run = Append(got, v),
                          !.step = IF Len(Append(got, v)) = 2 THEN "commit" ELSE @]
  BY DEF Registry!RunOfficial, Registry!Read, Registry!Refuse
<1>5. CASE cycle' = Registry!Nothing
  BY <1>5, NothingReadYet, Turns DEF PairInv
<1>6. CASE got = << >> /\ cycle' # Registry!Nothing
  <2>1. PICK v \in Registry!Resolved("GUARDIAN", cycle.at) :
          cycle' = [cycle EXCEPT !.run = Append(got, v),
                      !.step = IF Len(Append(got, v)) = 2 THEN "commit" ELSE @]
    BY <1>4, <1>6
  <2>2. Append(got, v) = <<v>> /\ Begun(activations, cycle.begun + 3, <<v>>, g, s, cycle.at)
    BY <1>6, <1>8
  <2>3. /\ cycle'.step = "metrics" /\ cycle'.permit = cycle.permit /\ cycle'.run = <<v>>
        /\ cycle'.final = << >> /\ cycle'.at = cycle.at /\ cycle'.begun = cycle.begun
    BY <1>1, <2>1, <2>2 DEF ReadRows
  <2> QED BY <1>1, <1>3, <2>2, <2>3 DEF ReadsOf
<1>7. CASE got # << >> /\ cycle' # Registry!Nothing
  <2>1. PICK v \in Registry!Resolved("SCOUT", cycle.at) :
          /\ Len(Append(got, v)) = 2 => Append(got, v) = cycle.permit
          /\ cycle' = [cycle EXCEPT !.run = Append(got, v),
                         !.step = IF Len(Append(got, v)) = 2 THEN "commit" ELSE @]
    BY <1>4, <1>7
  <2>2. /\ Len(Append(got, v)) = 2
        /\ Append(got, v) = <<g, s>> => Stood(activations, cycle.begun + 6, g, s, cycle.at)
    BY <1>7, <1>8
  <2>3. /\ cycle'.step = "commit" /\ cycle'.run = <<g, s>> /\ cycle'.final = << >>
        /\ cycle'.at = cycle.at /\ cycle'.begun = cycle.begun /\ Stood(activations, cycle.begun + 6, g, s, cycle.at)
    BY <1>1, <1>3, <2>1, <2>2 DEF ReadRows
  <2> QED BY <1>1, <2>3 DEF ReadsOf, Begun
<1> QED BY <1>5, <1>6, <1>7

\* _official_thresholds: the pair of the evidence, for the commit.
LEMMA FinalStep ==
  ASSUME PairInv, Registry!CommitThresholds
  PROVE  ReadsOf(cycle', activations)
<1> DEFINE got == cycle.final
<1>1. /\ RegistryInv /\ cycle \in ReadRows /\ cycle.step = "commit"
      /\ cycle.begun <= Len(activations)
      /\ \E g \in Guardian, s \in Scout :
           /\ cycle.run = <<g, s>> /\ Stood(activations, cycle.begun + 6, g, s, cycle.at)
           /\ Begun(activations, cycle.begun + 7, got, g, s, cycle.at)
  BY DEF PairInv, RegistryInv, ReadsOK, ReadsOf, Registry!CommitThresholds
<1>2. cycle.at \in Registry!Time /\ cycle.begun \in Nat
  BY <1>1 DEF ReadRows
<1>3. PICK g \in Guardian, s \in Scout :
        /\ cycle.run = <<g, s>> /\ Stood(activations, cycle.begun + 6, g, s, cycle.at)
        /\ Begun(activations, cycle.begun + 7, got, g, s, cycle.at)
  BY <1>1
<1>8. /\ got = << >> => \A v \in Registry!Resolved("GUARDIAN", cycle.at) :
           Append(got, v) = <<v>> /\ Begun(activations, cycle.begun + 7, <<v>>, g, s, cycle.at)
      /\ got # << >> => \A v \in Registry!Resolved("SCOUT", cycle.at) :
           /\ Len(Append(got, v)) = 2
           /\ Append(got, v) = <<g, s>> => Stood(activations, cycle.begun + 10, g, s, cycle.at)
  <2> HIDE DEF got
  <2>1. PICK n \in Nat : n = cycle.begun + 6 /\ n + 1 = cycle.begun + 7 /\ n + 4 = cycle.begun + 10
    BY <1>2
  <2>2. Stood(activations, n, g, s, cycle.at) /\ Begun(activations, n + 1, got, g, s, cycle.at)
    BY <1>3, <2>1
  <2>3. /\ got = << >> => \A v \in Registry!Resolved("GUARDIAN", cycle.at) :
             Append(got, v) = <<v>> /\ Begun(activations, n + 1, <<v>>, g, s, cycle.at)
        /\ got # << >> => \A v \in Registry!Resolved("SCOUT", cycle.at) :
             /\ Len(Append(got, v)) = 2
             /\ Append(got, v) = <<g, s>> => Stood(activations, n + 4, g, s, cycle.at)
    BY <1>1, <1>2, <2>2, ReadAgain
  <2> QED BY <2>1, <2>3
<1>4. \/ cycle' = Registry!Nothing
      \/ \E v \in Registry!Resolved(IF got = << >> THEN "GUARDIAN" ELSE "SCOUT", cycle.at) :
           /\ Len(Append(got, v)) = 2 => Append(got, v) = cycle.run
           /\ cycle' = [cycle EXCEPT !.final = Append(got, v),
                          !.step = IF Len(Append(got, v)) = 2 THEN "execute" ELSE @]
  BY DEF Registry!CommitThresholds, Registry!EvidenceNames, Registry!Read, Registry!Refuse
<1>5. CASE cycle' = Registry!Nothing
  BY <1>5, NothingReadYet, Turns DEF PairInv
<1>6. CASE got = << >> /\ cycle' # Registry!Nothing
  <2>1. PICK v \in Registry!Resolved("GUARDIAN", cycle.at) :
          cycle' = [cycle EXCEPT !.final = Append(got, v),
                      !.step = IF Len(Append(got, v)) = 2 THEN "execute" ELSE @]
    BY <1>4, <1>6
  <2>2. Append(got, v) = <<v>> /\ Begun(activations, cycle.begun + 7, <<v>>, g, s, cycle.at)
    BY <1>6, <1>8
  <2>3. /\ cycle'.step = "commit" /\ cycle'.run = cycle.run /\ cycle'.final = <<v>>
        /\ cycle'.at = cycle.at /\ cycle'.begun = cycle.begun
    BY <1>1, <2>1, <2>2 DEF ReadRows
  <2> QED BY <1>1, <1>3, <2>2, <2>3 DEF ReadsOf
<1>7. CASE got # << >> /\ cycle' # Registry!Nothing
  <2>1. PICK v \in Registry!Resolved("SCOUT", cycle.at) :
          /\ Len(Append(got, v)) = 2 => Append(got, v) = cycle.run
          /\ cycle' = [cycle EXCEPT !.final = Append(got, v),
                         !.step = IF Len(Append(got, v)) = 2 THEN "execute" ELSE @]
    BY <1>4, <1>7
  <2>2. /\ Len(Append(got, v)) = 2
        /\ Append(got, v) = <<g, s>> => Stood(activations, cycle.begun + 10, g, s, cycle.at)
    BY <1>7, <1>8
  <2>3. /\ cycle'.step = "execute" /\ cycle'.final = <<g, s>> /\ cycle'.at = cycle.at /\ cycle'.begun = cycle.begun
        /\ Stood(activations, cycle.begun + 10, g, s, cycle.at)
    BY <1>1, <1>3, <2>1, <2>2 DEF ReadRows
  <2> QED BY <1>1, <2>3 DEF ReadsOf
<1> QED BY <1>5, <1>6, <1>7

\* Rows are only added: what was so of the reads and of the commits stays so.
LEMMA RowsAdded ==
  ASSUME PairInv, NEW rows, Len(rows) \in Nat, Len(rows) >= Len(activations),
         \A i \in DOMAIN activations : i \in DOMAIN rows /\ rows[i] = activations[i]
  PROVE  ReadsOf(cycle, rows) /\ PairsOf(rows)
<1>1. \A g, s : Together(activations, g, s) => Together(rows, g, s)
  BY DEF Together
<1>2. \A f, n, v, at : Since(activations, f, n, v, at) => Since(rows, f, n, v, at)
  BY DEF Since
<1>3. \A n, g, s, at : Stood(activations, n, g, s, at) => Stood(rows, n, g, s, at)
  BY <1>1, <1>2 DEF Stood
<1>4. \A n, got, g, s, at : Begun(activations, n, got, g, s, at) => Begun(rows, n, got, g, s, at)
  BY <1>1, <1>2 DEF Begun
<1>5. cycle.begun \in Nat /\ cycle.begun <= Len(activations) /\ cycle.begun <= Len(rows)
  <2>1. cycle.begun \in Nat /\ Len(activations) \in Nat
    BY DEF PairInv, RegistryInv, ReadsOK, ReadRows, RowsOK
  <2> QED BY <2>1 DEF PairInv, ReadsOf
<1>6. \A g, at : Opened(activations, cycle.begun, g, at) => Opened(rows, cycle.begun, g, at)
  <2>1. \A k \in 1 .. cycle.begun : k \in DOMAIN activations
    BY <1>5, Turns DEF PairInv
  <2> QED BY <2>1 DEF Opened
<1>7. ReadsOf(cycle, rows)
  BY <1>3, <1>4, <1>5, <1>6 DEF PairInv, ReadsOf
<1>8. PairsOf(rows)
  BY <1>1 DEF PairInv, PairsOf
<1> QED BY <1>7, <1>8

\* The commit is made with what was read, and five activations are ten rows.
LEMMA PairCommitted ==
  ASSUME PairInv, Registry!Commit
  PROVE  ReadsOf(cycle', activations) /\ PairsOf(activations)'
<1> DEFINE row == [at |-> cycle.at, pair |-> cycle.final, during |-> Len(activations) - cycle.begun]
<1>1. /\ cycle.step = "execute" /\ cycle' = Registry!Nothing /\ UNCHANGED activations
      /\ commits' = commits \cup {row}
  BY DEF Registry!Commit
<1>2. PICK g \in Guardian, s \in Scout :
        cycle.final = <<g, s>> /\ Stood(activations, cycle.begun + 10, g, s, cycle.at)
  BY <1>1 DEF PairInv, ReadsOf
<1>3. Together(activations, g, s) \/ row.during >= 10
  <2>1. cycle.begun \in Nat /\ Len(activations) \in Nat /\ DOMAIN activations = 1 .. Len(activations)
    BY DEF PairInv, RegistryInv, ReadsOK, ReadRows, RowsOK
  <2> QED BY <1>2, <2>1 DEF Stood, Since
<1>4. \A c \in commits' : Together(activations, c.pair[1], c.pair[2]) \/ c.during >= 10
  <2>1. \A c \in commits : Together(activations, c.pair[1], c.pair[2]) \/ c.during >= 10
    BY DEF PairInv, PairsOf
  <2>2. row.pair[1] = g /\ row.pair[2] = s
    BY <1>2
  <2> HIDE DEF row
  <2> QED BY <1>1, <1>3, <2>1, <2>2
<1>5. ReadsOf(cycle', activations)
  BY <1>1, NothingReadYet, Turns DEF PairInv
<1> QED BY <1>1, <1>4, <1>5 DEF PairsOf

THEOREM PairInvariance == Registry!RegistryAssumption /\ Registry!Spec => []PairInv
<1>1. Registry!RegistryAssumption /\ Registry!Init => PairInv
  <2> SUFFICES ASSUME Registry!RegistryAssumption, Registry!Init PROVE PairInv
    OBVIOUS
  <2>1. commits = {} /\ cycle = Registry!Nothing
    BY DEF Registry!Init
  <2>2. Len(activations) \in Nat
    BY RegistryInit, Turns
  <2> QED BY <2>1, <2>2, RegistryInit, NothingReadYet DEF PairInv, PairsOf
<1>2. PairInv /\ RegistryInv' /\ [Registry!Next]_(Registry!vars) => PairInv'
  <2> SUFFICES ASSUME PairInv, RegistryInv', [Registry!Next]_(Registry!vars)
               PROVE  ReadsOf(cycle', activations') /\ PairsOf(activations)'
    BY DEF PairInv
  <2>1. CASE UNCHANGED <<activations, cycle, commits>>
    BY <2>1 DEF PairInv, PairsOf
  <2>2. ASSUME NEW d \in Document, NEW at \in Registry!Time, NEW key \in Key,
               Registry!ActivatePair(d, at, key)
        PROVE  ReadsOf(cycle', activations') /\ PairsOf(activations)'
    <3> DEFINE added == <<[family |-> "GUARDIAN", of |-> d.g, at |-> at, key |-> key, proof |-> d],
                          [family |-> "SCOUT", of |-> d.s, at |-> at, key |-> key, proof |-> d]>>
    <3>1. activations' = activations \o added /\ UNCHANGED <<cycle, commits>>
      BY <2>2 DEF Registry!ActivatePair
    <3>2. /\ activations \in Seq(Registry!Activation) /\ Len(activations) \in Nat
          /\ DOMAIN activations = 1 .. Len(activations)
          /\ activations' \in Seq(Registry!Activation) /\ Len(activations') \in Nat
          /\ DOMAIN activations' = 1 .. Len(activations')
      BY DEF PairInv, RegistryInv, RowsOK
    <3>4. /\ Len(activations') = Len(activations) + 2
          /\ \A i \in DOMAIN activations : i \in DOMAIN activations' /\ activations'[i] = activations[i]
      BY <3>1, <3>2, TwoAppended
    <3>5. ReadsOf(cycle, activations') /\ PairsOf(activations')
      BY <3>2, <3>4, RowsAdded
    <3> QED BY <3>1, <3>5 DEF PairsOf
  <2>3. ASSUME NEW at \in Registry!Time, Registry!StartCycle(at)
        PROVE  ReadsOf(cycle', activations') /\ PairsOf(activations)'
    <3>1. /\ cycle' = [Registry!Nothing EXCEPT !.step = "readiness", !.at = at, !.begun = Len(activations)]
          /\ UNCHANGED <<activations, commits>>
      BY <2>3 DEF Registry!StartCycle
    <3>2. Len(activations) \in Nat
      BY Turns DEF PairInv
    <3>3. ReadsOf(cycle', activations)
      BY <3>1, <3>2 DEF ReadsOf, Registry!Nothing
    <3> QED BY <3>1, <3>3 DEF PairInv, PairsOf
  <2>4. CASE Registry!Readiness \/ Registry!RunOfficial \/ Registry!CommitThresholds
    <3>1. UNCHANGED <<activations, commits>>
      BY <2>4 DEF Registry!Readiness, Registry!RunOfficial, Registry!CommitThresholds,
                  Registry!Read, Registry!Refuse
    <3>2. ReadsOf(cycle', activations)
      BY <2>4, PermitStep, RunStep, FinalStep
    <3> QED BY <3>1, <3>2 DEF PairInv, PairsOf
  <2>5. CASE Registry!Commit
    BY <2>5, PairCommitted DEF Registry!Commit
  <2>6. \/ UNCHANGED <<activations, cycle, commits>>
        \/ \E d \in Document, at \in Registry!Time, key \in Key : Registry!ActivatePair(d, at, key)
        \/ \E at \in Registry!Time : Registry!StartCycle(at)
        \/ Registry!Readiness \/ Registry!RunOfficial \/ Registry!CommitThresholds
        \/ Registry!Commit
    BY DEF Registry!Next, Registry!vars, Registry!RegisterVersion, Registry!RecordValidation,
           Registry!RecordActivationEvidence
  <2> QED BY <2>1, <2>2, <2>3, <2>4, <2>5, <2>6
<1> QED BY <1>1, <1>2, RegistryInvariance, PTL DEF Registry!Spec

\* thresholds.py, analysis_commit.py:97: a commit names one activated pair wherever activations
\* come between the reads of its cycle, unless five or more do, for any versions and instants.
THEOREM OnePairCommitted ==
  Registry!RegistryAssumption /\ Registry!Spec => []Registry!CommitOfOnePair
<1>1. PairInv => Registry!CommitOfOnePair
  BY DEF PairInv, PairsOf, Together, Registry!CommitOfOnePair
<1> QED BY <1>1, PairInvariance, PTL

-----------------------------------------------------------------------------
(***************************************************************************)
(* The parts together (CommitParts): a behaviour of the composition is one *)
(* of its component, so that what was proved of each holds here.           *)
(***************************************************************************)
\* The tables of the commit move as AnalysisCommit has it, or stand still.
LEMMA CommitIsAnalysis == CommitSpec => Spec
<1>1. CommitInit => Init
  BY DEF CommitInit
<1>2. [CommitNext]_<<part, vars, registryVars>> => [Next]_vars
  BY DEF CommitNext, vars
<1> QED BY <1>1, <1>2, PTL DEF CommitSpec, Spec

\* The registry moves alone, or not at all.
LEMMA PartIsRegistry ==
  CommitSpec => []~(part = "registry") \/ ([](part = "registry") /\ Registry!Spec)
<1> DEFINE E == part = "registry"
<1>1. CommitInit /\ E => Registry!Init
  BY DEF CommitInit
<1>2. [CommitNext]_<<part, vars, registryVars>> => (E' <=> E)
  BY DEF CommitNext
<1>3. E /\ [CommitNext]_<<part, vars, registryVars>> => [Registry!Next]_(Registry!vars)
  BY DEF CommitNext, registryVars, Registry!vars
<1> HIDE DEF E
<1>4. CommitSpec => []~E \/ ([]E /\ Registry!Spec)
  BY <1>1, <1>2, <1>3, PTL DEF CommitSpec, Registry!Spec
<1> QED BY <1>4 DEF E

\* thresholds.py: the two families are in force in pairs, each activation on proof of its own time
\* and scope.
THEOREM CommitRegistrySound == Registry!RegistryAssumption /\ CommitSpec => []ThresholdsSound
<1>1. /\ ~(part = "registry") => ThresholdsSound
      /\ (part = "registry") /\ Registry!ThresholdsSound => ThresholdsSound
  BY DEF ThresholdsSound
<1> QED BY <1>1, PartIsRegistry, RegistryIsSound, PTL

\* analysis_commit.py:97, thresholds.py: the pair a commit names was activated as a pair, or at
\* least five activations were recorded between the start of its cycle and the commit.
THEOREM CommitOnePair == Registry!RegistryAssumption /\ CommitSpec => []CommitOfOnePair
<1>1. /\ ~(part = "registry") => CommitOfOnePair
      /\ (part = "registry") /\ Registry!CommitOfOnePair => CommitOfOnePair
  BY DEF CommitOfOnePair
<1> QED BY <1>1, PartIsRegistry, OnePairCommitted, PTL
=============================================================================
