------------------------- MODULE OfficialCycleProofs -------------------------
(***************************************************************************)
(* Proofs about the journalled production cycle, for any number of minutes *)
(* and runs, with a crash or an exception between any two steps: the       *)
(* journal tells the truth about the tables, a cycle is committed once, a  *)
(* COMMITTED cycle is final, commits are refused for known reasons only,   *)
(* and what a restore rebuilds from the history is what was live.          *)
(***************************************************************************)
EXTENDS OfficialCycle, FiniteSetTheorems, SequenceTheorems, TLAPS

\* Snapshots are named by the run that sealed them; a later run belongs to no earlier minute.
SealedOK ==
  /\ \A t \in Instants : sealed[t] # Null =>
       sealed[t].at = t /\ sealed[t].subject = Subject /\ t <= runs /\ sealed[t].key <= minute
  /\ \A s, t \in Instants : sealed[s] # Null /\ sealed[t] # Null /\ s <= t =>
       sealed[s].key <= sealed[t].key

\* The points of a run at which its journal row is RUNNING, and those at which it has a snapshot.
Begun == {"seal", "save_metric", "metrics", "save_commit", "commit", "save_outbox", "deliver",
          "complete"}
Taken == Begun \ {"seal", "save_metric"}

\* What the run remembers agrees with the journal and the tables.
WorkerOK ==
  /\ worker.pc # "idle" =>
       /\ worker.key \in Keys /\ worker.key <= minute
       /\ worker.at = runs /\ runs \in Instants /\ worker.refusal = Null
       /\ \A t \in Instants : sealed[t] # Null => sealed[t].key <= worker.key
  /\ worker.pc \in {"get", "gates", "begin", "shadow", "seal"} => sealed[runs] = Null
  /\ worker.pc \in Begun =>
       /\ worker.checkpoint \in JournalRows /\ worker.checkpoint.status = "RUNNING"
       /\ journal[worker.key] = worker.checkpoint
  /\ worker.pc \in {"seal", "save_metric"} => worker.checkpoint.snapshot = Null
  /\ worker.pc = "save_metric" =>
       /\ worker.snapshot = runs /\ sealed[runs] # Null
       /\ sealed[runs].key = worker.key /\ sealed[runs].disposition = "OFFICIAL"
  /\ worker.pc \in Taken =>
       worker.snapshot \in Instants /\ worker.checkpoint.snapshot = worker.snapshot
  /\ worker.pc \in {"save_commit", "commit"} =>
       worker.lifecycle = LifecycleFor(db.projection[Subject])
  /\ worker.pc \in {"save_outbox", "deliver", "complete"} => Commits(db, worker.snapshot) # {}
  /\ worker.pc \in {"deliver", "complete"} => worker.checkpoint.commit = worker.snapshot

\* A row counts its runs.
AttemptsOK ==
  \A k \in Keys : journal[k] # Null =>
    /\ journal[k].attempt <= runs
    /\ worker.pc \in {"get", "gates", "begin"} => journal[k].attempt < runs

\* The commits of the one subject, in the order of their snapshots.
CycleRequests == [snapshot : Instants, availability : {"AVAILABLE"}, lifecycle : Lifecycles,
                  expected : Nat]
Recorded == [request : CycleRequests, subject : {Subject},
             effect : {GuardianEffect(e, "AVAILABLE") : e \in Evidence},
             scout : {ScoutStatus(e) : e \in Evidence}]
Ordered(l) == \A i, j \in DOMAIN l : i < j => l[i].request.snapshot < l[j].request.snapshot

\* The projection is the last commit's, numbered by the length of the ledger.
LastRow(l) == [availability |-> "AVAILABLE", effective |-> l[Len(l)].request.lifecycle,
               lastValid |-> l[Len(l)].request.lifecycle,
               lastValidAt |-> l[Len(l)].request.snapshot,
               evaluation |-> l[Len(l)].request.snapshot, version |-> Len(l)]
Projected(l) == [u \in Subjects |-> IF u = Subject /\ l # << >> THEN LastRow(l) ELSE Null]

LedgerOK ==
  /\ db.ledger \in Seq(Recorded) /\ Ordered(db.ledger)
  /\ \A i \in DOMAIN db.ledger : sealed[db.ledger[i].request.snapshot] # Null
  /\ db.projection = Projected(db.ledger)

\* The current row of a key is its newest one, and every row names a commit.
OfKey(versions, u, k) == {v \in versions : v.event[1] = u /\ v.event[2] = k}
CurrentIs(c, versions, u, k) ==
  IF OfKey(versions, u, k) = {} THEN c = Null
  ELSE c \in OfKey(versions, u, k) /\ \A w \in OfKey(versions, u, k) \ {c} : w.commit < c.commit
HistoryOK ==
  /\ db.versions \subseteq EventVersions
  /\ db.current \in [Subjects \X Kinds -> EventVersions \cup {Null}]
  /\ \A v \in db.versions : v.event[1] = Subject /\ Commits(db, v.commit) # {}
  /\ \A u \in Subjects, k \in Kinds : CurrentIs(db.current[u, k], db.versions, u, k)

IInv == /\ CycleAssumption /\ TypeOK /\ SealedOK /\ WorkerOK /\ AttemptsOK /\ JournalTellsTruth /\ LedgerOK /\ HistoryOK
        /\ RefusalsExplained

-----------------------------------------------------------------------------
\* What a row of the ledger is.
LEMMA LedgerShape ==
  ASSUME LedgerOK
  PROVE  /\ Len(db.ledger) \in Nat /\ DOMAIN db.ledger = 1 .. Len(db.ledger)
         /\ \A i \in DOMAIN db.ledger :
              /\ db.ledger[i] \in Recorded /\ db.ledger[i].subject = Subject
              /\ db.ledger[i].request \in CycleRequests
              /\ db.ledger[i].request.snapshot \in Instants
              /\ sealed[db.ledger[i].request.snapshot] # Null
<1>1. Len(db.ledger) \in Nat /\ DOMAIN db.ledger = 1 .. Len(db.ledger)
  BY LenProperties DEF LedgerOK
<1>2. \A i \in DOMAIN db.ledger : db.ledger[i] \in Recorded
  BY <1>1, ElementOfSeq DEF LedgerOK
<1>3. \A r \in Recorded : /\ r.subject = Subject /\ r.request \in CycleRequests
                          /\ r.request.snapshot \in Instants
  BY DEF Recorded, CycleRequests
<1> QED BY <1>1, <1>2, <1>3 DEF LedgerOK

\* The tables stand while nothing is committed and no snapshot is lost.
LEMMA TablesStand ==
  ASSUME IInv, db' = db,
         \A t \in Instants : sealed[t] # Null => sealed'[t] = sealed[t]
  PROVE  LedgerOK' /\ HistoryOK'
<1>1. \A i \in DOMAIN db.ledger : db.ledger[i].request.snapshot \in Instants
  BY LedgerShape DEF IInv
<1>2. LedgerOK'
  BY <1>1 DEF IInv, LedgerOK
<1>3. HistoryOK'
  BY DEF IInv, HistoryOK, Commits
<1> QED BY <1>2, <1>3

\* The snapshots stand while time and runs only increase.
LEMMA SnapshotsStand ==
  ASSUME IInv, sealed' = sealed, minute' \in Keys, minute <= minute', runs' \in 0 .. MaxRuns, runs <= runs'
  PROVE  SealedOK'
<1>1. \A t \in Instants : sealed[t] # Null => sealed[t].key \in Keys /\ t <= runs
  BY DEF IInv, SealedOK, TypeOK, SnapshotRows
<1> QED BY <1>1 DEF IInv, SealedOK, TypeOK, Keys, Instants

\* The journal stands while it is not written, nothing is committed and no snapshot is lost.
LEMMA JournalStands ==
  ASSUME IInv, db' = db, journal' = journal,
         \A t \in Instants : sealed[t] # Null => sealed'[t] = sealed[t]
  PROVE  JournalTellsTruth'
<1>1. \A i \in DOMAIN db.ledger :
        /\ db.ledger[i].request.snapshot \in Instants
        /\ sealed[db.ledger[i].request.snapshot] # Null
  BY LedgerShape DEF IInv
<1>2. \A k \in Keys : journal[k] # Null =>
        journal[k].snapshot \in Instants \cup {Null} /\ journal[k].commit \in Instants \cup {Null}
  BY DEF IInv, TypeOK, JournalRows
<1> QED BY <1>1, <1>2 DEF IInv, JournalTellsTruth, CycleOf, Commits

\* A row written from the run's checkpoint keeps the journal true.
LEMMA JournalSaved ==
  ASSUME IInv, db' = db, sealed' = sealed, NEW k \in Keys, NEW row \in JournalRows,
         journal' = [journal EXCEPT ![k] = row],
         row.snapshot # Null =>
           /\ sealed[row.snapshot] # Null
           /\ sealed[row.snapshot].key = k
           /\ sealed[row.snapshot].disposition = "OFFICIAL",
         row.commit # Null => row.commit = row.snapshot /\ Commits(db, row.commit) # {},
         row.status = "COMMITTED" => row.phase = "COMPLETED" /\ row.commit # Null,
         \A i \in DOMAIN db.ledger : CycleOf(i) = k => row.snapshot = db.ledger[i].request.snapshot
  PROVE  JournalTellsTruth'
<1>1. row # Null
  BY DEF IInv, CycleAssumption
<1>2. \A i \in DOMAIN db.ledger : CycleOf(i)' = CycleOf(i)
  BY DEF CycleOf
<1>3. \A i \in DOMAIN db.ledger : CycleOf(i) \in Keys
  <2>1. \A i \in DOMAIN db.ledger :
          /\ db.ledger[i].request.snapshot \in Instants
          /\ sealed[db.ledger[i].request.snapshot] # Null
    BY LedgerShape DEF IInv
  <2> QED BY <2>1 DEF CycleOf, IInv, TypeOK, SnapshotRows
<1>4. \A j \in Keys : journal'[j] = IF j = k THEN row ELSE journal[j]
  BY DEF IInv, TypeOK
<1>5. \A s : Commits(db', s) = Commits(db, s)
  OBVIOUS
<1> QED BY <1>1, <1>2, <1>3, <1>4, <1>5 DEF IInv, JournalTellsTruth

-----------------------------------------------------------------------------
\* The projection is empty or the last commit's, and its version counts the commits.
LEMMA ProjectionShape ==
  ASSUME IInv
  PROVE  /\ Subject \in Subjects /\ DOMAIN db.projection = Subjects
         /\ db.projection[Subject] = IF db.ledger = << >> THEN Null ELSE LastRow(db.ledger)
         /\ \A u \in Subjects \ {Subject} : db.projection[u] = Null
         /\ db.ledger # << >> =>
              /\ db.ledger[Len(db.ledger)].request \in CycleRequests
              /\ LastRow(db.ledger) # Null
         /\ Version(db, Subject) = Len(db.ledger) /\ Len(db.ledger) \in Nat
         /\ LifecycleFor(db.projection[Subject]) \in Lifecycles
         /\ LegalTransition(db.projection[Subject], LifecycleFor(db.projection[Subject]))
<1> DEFINE l == db.ledger
           p == db.projection[Subject]
<1>1. Subject \in Subjects
  BY DEF Subject, IInv, CycleAssumption
<1>2. db.projection = Projected(l)
  BY DEF IInv, LedgerOK
<1>3. /\ DOMAIN db.projection = Subjects
      /\ p = IF l = << >> THEN Null ELSE LastRow(l)
      /\ \A u \in Subjects \ {Subject} : db.projection[u] = Null
  <2> HIDE DEF l
  <2> QED BY <1>1, <1>2 DEF Projected
<1>4. l # << >> => l[Len(l)].request \in CycleRequests
  <2>1. l # << >> => Len(l) \in DOMAIN l
    BY LenProperties, EmptySeq DEF IInv, LedgerOK
  <2> QED BY <2>1, LedgerShape DEF IInv
<1>5. Len(l) \in Nat /\ (l = << >> => Len(l) = 0)
  BY LedgerShape DEF IInv
<1> HIDE DEF l
<1>6. l # << >> => LastRow(l) \in ProjectionRows
  <2>1. \A r \in CycleRequests : r.lifecycle \in Lifecycles /\ r.snapshot \in Nat
    BY DEF CycleRequests, Instants
  <2> QED BY <1>4, <1>5, <2>1 DEF LastRow, ProjectionRows, Availabilities
<1>7. l # << >> => LastRow(l) # Null
  BY <1>6, StoreNullAssumption
<1>8. Version(db, Subject) = Len(l)
  BY <1>3, <1>5, <1>7 DEF Version, LastRow
<1>9. Previous(p) \in Lifecycles \cup {Null}
  <2>1. CASE l = << >>
    BY <1>3, <2>1 DEF Previous
  <2>2. CASE l # << >>
    <3>1. p.effective \in Lifecycles \cup {Null} /\ p.lastValid \in Lifecycles \cup {Null}
      BY <1>3, <1>6, <2>2 DEF ProjectionRows
    <3> QED BY <3>1 DEF Previous
  <2> QED BY <2>1, <2>2
<1>10. LifecycleFor(p) \in Lifecycles
  BY <1>9 DEF LifecycleFor, IInv, CycleAssumption
<1>11. LegalTransition(p, LifecycleFor(p))
  BY DEF LegalTransition, LifecycleFor
<1> QED BY <1>1, <1>3, <1>4, <1>5, <1>7, <1>8, <1>10, <1>11 DEF l

\* The snapshot a run commits, the row it writes and its event decisions.
Snap == sealed[worker.snapshot]
Row == [request |-> CommitRequest, subject |-> Subject,
        effect |-> GuardianEffect(Snap.evidence, "AVAILABLE"), scout |-> ScoutStatus(Snap.evidence)]
Active(k) == Desired(k, Row.effect, Row.scout)
Current(k) == db.current[Subject, k]
Changed == {k \in Kinds : Change(Current(k), Active(k)) # Null}
NextVersion(k) == NextEventVersion(Current(k), k, Active(k), Snap)

\* A run past its metrics has an OFFICIAL snapshot of its own minute, named in the journal.
LEMMA SnapshotTaken ==
  ASSUME IInv, worker.pc \in Taken
  PROVE  /\ worker.snapshot \in Instants /\ worker.key \in Keys
         /\ journal[worker.key] # Null /\ journal[worker.key].snapshot = worker.snapshot
         /\ journal[worker.key].status = "RUNNING"
         /\ Snap \in SnapshotRows /\ Snap # Null
         /\ Snap.at = worker.snapshot /\ Snap.subject = Subject /\ Snap.key = worker.key
         /\ Snap.disposition = "OFFICIAL"
<1>1. worker.pc \in Begun /\ worker.pc # "idle"
  BY DEF Taken, Begun
<1>2. /\ worker.snapshot \in Instants /\ worker.key \in Keys
      /\ journal[worker.key] \in JournalRows /\ journal[worker.key].snapshot = worker.snapshot
      /\ journal[worker.key].status = "RUNNING"
  BY <1>1 DEF IInv, WorkerOK
<1>3. Null \notin Instants /\ Null \notin JournalRows
  BY DEF IInv, CycleAssumption, Instants
<1>4. sealed[worker.snapshot] # Null /\ sealed[worker.snapshot].key = worker.key
      /\ sealed[worker.snapshot].disposition = "OFFICIAL"
  BY <1>2, <1>3 DEF IInv, JournalTellsTruth
<1>5. sealed[worker.snapshot].at = worker.snapshot /\ sealed[worker.snapshot].subject = Subject
  BY <1>2, <1>4 DEF IInv, SealedOK
<1>6. sealed[worker.snapshot] \in SnapshotRows
  BY <1>2, <1>4 DEF IInv, TypeOK
<1> QED BY <1>2, <1>3, <1>4, <1>5, <1>6 DEF Snap

\* A snapshot that is committed for the first time is newer than all committed ones: theirs
\* are of earlier minutes.
LEMMA CommitIsNewest ==
  ASSUME IInv, worker.pc \in Taken, Commits(db, worker.snapshot) = {}, NEW i \in DOMAIN db.ledger
  PROVE  db.ledger[i].request.snapshot < worker.snapshot
<1> DEFINE s == db.ledger[i].request.snapshot
<1>1. s \in Instants /\ sealed[s] # Null
  BY LedgerShape DEF IInv
<1>2. /\ worker.snapshot \in Instants /\ sealed[worker.snapshot] # Null
      /\ sealed[worker.snapshot].key = worker.key /\ worker.key \in Keys
      /\ journal[worker.key].snapshot = worker.snapshot
  BY SnapshotTaken DEF Snap
<1>3. sealed[s].key <= worker.key /\ sealed[s].key \in Keys
  BY <1>1 DEF IInv, WorkerOK, Taken, Begun, TypeOK, SnapshotRows
<1>4. s # worker.snapshot
  BY DEF Commits
<1>5. sealed[s].key # worker.key
  BY <1>2, <1>4 DEF IInv, JournalTellsTruth, CycleOf
<1>6. worker.snapshot <= s => worker.key <= sealed[s].key
  BY <1>1, <1>2 DEF IInv, SealedOK
<1> HIDE DEF s
<1>7. s \in Int /\ worker.snapshot \in Int /\ sealed[s].key \in Int /\ worker.key \in Int
  BY <1>1, <1>2, <1>3 DEF Instants, Keys
<1>8. s < worker.snapshot
  BY <1>3, <1>5, <1>6, <1>7
<1> QED BY <1>8 DEF s

\* An event decision makes a row of its key, of this commit.
LEMMA NextEvent ==
  ASSUME NEW c \in EventVersions \cup {Null}, NEW k \in Kinds, NEW a \in BOOLEAN, NEW s,
         s.subject = Subject, Subject \in Subjects, s.at \in Nat, Change(c, a) # Null,
         c # Null => c.event[1] = Subject /\ c.event[2] = k,
         NEW v, v = NextEventVersion(c, k, a, s)
  PROVE  v \in EventVersions /\ v # Null /\ v.commit = s.at /\ v.event[1] = Subject /\ v.event[2] = k
<1>1. CASE a /\ ~Open(c)
  <2>1. v = [event |-> <<Subject, k, s.at>>, version |-> 1, status |-> "ACTIVE",
             change |-> "CREATED", commit |-> s.at]
    BY <1>1 DEF NextEventVersion, Change
  <2>2. v \in EventVersions
    BY <2>1 DEF EventVersions
  <2>3. v # Null
    BY <2>2, StoreNullAssumption
  <2> QED BY <2>1, <2>2, <2>3
<1>2. CASE Open(c)
  <2>1. c \in EventVersions /\ c # Null
    BY <1>2 DEF Open
  <2>2. Change(c, a) = IF a THEN "CHANGED" ELSE "RESOLVED"
    BY <1>2 DEF Change
  <2>3. v = [event |-> c.event, version |-> c.version + 1, status |-> IF a THEN "ACTIVE" ELSE "RESOLVED",
             change |-> IF a THEN "CHANGED" ELSE "RESOLVED", commit |-> s.at]
    BY <2>2 DEF NextEventVersion
  <2>4. c.event \in Subjects \X Kinds \X Nat /\ c.version \in Nat
    BY <2>1 DEF EventVersions
  <2>5. v \in EventVersions
    BY <2>3, <2>4 DEF EventVersions
  <2>6. v # Null
    BY <2>5, StoreNullAssumption
  <2> QED BY <2>1, <2>3, <2>5, <2>6
<1>3. a \/ Open(c)
  BY DEF Change
<1> QED BY <1>1, <1>2, <1>3

\* A commit that is made.
CommitMade ==
  /\ worker.pc = "commit" /\ CommitAnswer = Null /\ Commits(db, worker.snapshot) = {}
  /\ db' = Committed(db, sealed[worker.snapshot], CommitRequest)
  /\ sealed' = sealed /\ journal' = journal

\* What it writes.
LEMMA CommitWrites ==
  ASSUME IInv, CommitMade
  PROVE  /\ Row \in Recorded /\ Row.request.snapshot = worker.snapshot
         /\ Row.request = CommitRequest /\ CommitRequest.snapshot = worker.snapshot
         /\ CommitRequest.lifecycle \in Lifecycles /\ CommitRequest.availability = "AVAILABLE"
         /\ db'.ledger = Append(db.ledger, Row)
         /\ db'.projection = [db.projection EXCEPT
                ![Subject] = NextProjection(db.projection[Subject], Snap, CommitRequest)]
         /\ db'.current = [p \in Subjects \X Kinds |->
                IF p[1] = Subject /\ p[2] \in Changed THEN NextVersion(p[2]) ELSE db.current[p]]
         /\ db'.versions = db.versions \cup {NextVersion(k) : k \in Changed}
<1>1. /\ worker.snapshot \in Instants /\ Snap \in SnapshotRows /\ Snap.subject = Subject
  BY SnapshotTaken DEF CommitMade, Taken, Begun
<1>2. worker.lifecycle \in Lifecycles /\ Version(db, Subject) \in Nat
  BY ProjectionShape DEF IInv, WorkerOK, CommitMade
<1>3. CommitRequest \in CycleRequests
  BY <1>1, <1>2 DEF CommitRequest, CycleRequests
<1>4. Snap.evidence \in Evidence
  BY <1>1 DEF SnapshotRows
<1>5. Row \in Recorded /\ Row.request = CommitRequest
  BY <1>3, <1>4 DEF Row, Recorded
<1>6. /\ CommitRequest.snapshot = worker.snapshot /\ CommitRequest.lifecycle \in Lifecycles
      /\ CommitRequest.availability = "AVAILABLE"
  BY <1>2 DEF CommitRequest
<1>7. /\ db'.ledger = Append(db.ledger, Row)
      /\ db'.projection = [db.projection EXCEPT
             ![Subject] = NextProjection(db.projection[Subject], Snap, CommitRequest)]
      /\ db'.current = [p \in Subjects \X Kinds |->
             IF p[1] = Subject /\ p[2] \in Changed THEN NextVersion(p[2]) ELSE db.current[p]]
      /\ db'.versions = db.versions \cup {NextVersion(k) : k \in Changed}
  <2> DEFINE r == CommitRequest
             L == Append(db.ledger, Row)
             P == [db.projection EXCEPT
                     ![Subject] = NextProjection(db.projection[Subject], Snap, r)]
             C == [p \in Subjects \X Kinds |->
                     IF p[1] = Subject /\ p[2] \in Changed THEN NextVersion(p[2]) ELSE db.current[p]]
             V == db.versions \cup {NextVersion(k) : k \in Changed}
             N == db.intents \cup
                    {[event |-> NextVersion(k).event, version |-> NextVersion(k).version,
                      channel |-> d, kind |-> IntentKind(k, NextVersion(k).change)] :
                        k \in Changed, d \in Channels}
  <2>1. Committed(db, Snap, r) =
          [ledger |-> L, projection |-> P, current |-> C, versions |-> V, intents |-> N]
    BY <1>1, <1>6, SMT DEF Committed, Row, Active, Current, NextVersion, Changed
  <2> HIDE DEF L, P, C, V, N
  <2>2. db' = Committed(db, Snap, r)
    BY DEF CommitMade, Snap
  <2>3. db'.ledger = L /\ db'.projection = P /\ db'.current = C /\ db'.versions = V
    BY <2>1, <2>2
  <2> QED BY <2>3 DEF L, P, C, V
<1> QED BY <1>5, <1>6, <1>7

\* The ledger after it: its rows, and the one new row.
LEMMA LedgerGrows ==
  ASSUME IInv, CommitMade
  PROVE  /\ db'.ledger \in Seq(Recorded) /\ db'.ledger # << >>
         /\ Len(db'.ledger) = Len(db.ledger) + 1 /\ Len(db.ledger) \in Nat
         /\ DOMAIN db.ledger = 1 .. Len(db.ledger)
         /\ DOMAIN db'.ledger = 1 .. Len(db.ledger) + 1
         /\ \A i \in DOMAIN db.ledger : db'.ledger[i] = db.ledger[i]
         /\ db'.ledger[Len(db.ledger) + 1] = Row
<1> DEFINE l == db.ledger
<1>1. l \in Seq(Recorded) /\ Row \in Recorded /\ db'.ledger = Append(l, Row)
  BY CommitWrites DEF IInv, LedgerOK
<1> HIDE DEF l
<1>2. /\ Append(l, Row) \in Seq(Recorded) /\ Len(Append(l, Row)) = Len(l) + 1 /\ Len(l) \in Nat
      /\ \A i \in 1 .. Len(l) : Append(l, Row)[i] = l[i]
      /\ Append(l, Row)[Len(l) + 1] = Row
      /\ DOMAIN l = 1 .. Len(l) /\ DOMAIN Append(l, Row) = 1 .. Len(l) + 1
  BY <1>1, AppendProperties, LenProperties
<1>3. Append(l, Row) # << >>
  BY <1>2, EmptySeq
<1> QED BY <1>1, <1>2, <1>3 DEF l

\* Every snapshot that had a commit keeps it, and this one has one now.
LEMMA CommitsGrow ==
  ASSUME IInv, CommitMade
  PROVE  /\ \A s : Commits(db, s) # {} => Commits(db', s) # {}
         /\ \A s : s # worker.snapshot => Commits(db', s) = Commits(db, s)
         /\ Commits(db', worker.snapshot) # {}
<1>1. /\ DOMAIN db.ledger = 1 .. Len(db.ledger) /\ Len(db.ledger) \in Nat
      /\ DOMAIN db'.ledger = 1 .. Len(db.ledger) + 1
      /\ \A i \in DOMAIN db.ledger : db'.ledger[i] = db.ledger[i]
      /\ db'.ledger[Len(db.ledger) + 1] = Row
  BY LedgerGrows
<1>2. Row.request.snapshot = worker.snapshot
  BY CommitWrites
<1> QED BY <1>1, <1>2 DEF Commits

LEMMA LedgerKept ==
  ASSUME IInv, CommitMade
  PROVE  LedgerOK'
<1> DEFINE n == Len(db.ledger) + 1
<1>1. /\ db'.ledger \in Seq(Recorded) /\ db'.ledger # << >> /\ n \in Nat /\ Len(db'.ledger) = n
      /\ DOMAIN db.ledger = 1 .. n - 1 /\ DOMAIN db'.ledger = 1 .. n
      /\ \A i \in DOMAIN db.ledger : db'.ledger[i] = db.ledger[i]
      /\ db'.ledger[n] = Row
  BY LedgerGrows
<1>2. /\ Row.request = CommitRequest /\ CommitRequest.snapshot = worker.snapshot
      /\ CommitRequest.lifecycle \in Lifecycles /\ CommitRequest.availability = "AVAILABLE"
      /\ db'.projection = [db.projection EXCEPT
             ![Subject] = NextProjection(db.projection[Subject], Snap, CommitRequest)]
  BY CommitWrites
<1>3. /\ worker.snapshot \in Instants /\ sealed[worker.snapshot] # Null /\ Snap.at = worker.snapshot
  BY SnapshotTaken DEF CommitMade, Taken, Begun, Snap
<1> HIDE DEF n
<1>4. Ordered(db'.ledger)
  <2>1. \A i \in DOMAIN db.ledger : db.ledger[i].request.snapshot < worker.snapshot
    BY CommitIsNewest DEF CommitMade, Taken, Begun
  <2>2. Ordered(db.ledger)
    BY DEF IInv, LedgerOK
  <2> QED BY <1>1, <1>2, <2>1, <2>2 DEF Ordered
<1>5. \A i \in DOMAIN db'.ledger : sealed'[db'.ledger[i].request.snapshot] # Null
  BY <1>1, <1>2, <1>3 DEF IInv, LedgerOK, CommitMade
<1>6. db'.projection = Projected(db'.ledger)
  <2>1. NextProjection(db.projection[Subject], Snap, CommitRequest) = LastRow(db'.ledger)
    <3>1. CommitRequest.lifecycle # Null
      BY <1>2, StoreNullAssumption
    <3>2. 1 + (IF db.projection[Subject] = Null THEN 0 ELSE db.projection[Subject].version) = n
      BY ProjectionShape DEF Version, n
    <3> QED BY <1>1, <1>2, <1>3, <3>1, <3>2 DEF NextProjection, LastRow
  <2>2. /\ Subject \in Subjects /\ DOMAIN db.projection = Subjects
        /\ \A u \in Subjects \ {Subject} : db.projection[u] = Null
        /\ db.projection = Projected(db.ledger)
    BY ProjectionShape DEF IInv, LedgerOK
  <2>3. db'.projection = [u \in Subjects |->
            IF u = Subject THEN LastRow(db'.ledger) ELSE db.projection[u]]
    BY <1>2, <2>1, <2>2 DEF Projected
  <2> QED BY <1>1, <2>2, <2>3 DEF Projected
<1> QED BY <1>1, <1>4, <1>5, <1>6 DEF LedgerOK

\* The current rows stay the newest of their keys.
LEMMA HistoryKept ==
  ASSUME IInv, CommitMade
  PROVE  HistoryOK'
<1> DEFINE s == worker.snapshot
           C == db'.current
           V == db'.versions
<1>1. /\ s \in Instants /\ s \in Nat /\ Snap.at = s /\ Snap.subject = Subject /\ Subject \in Subjects
  <2>1. s \in Instants /\ Snap.at = s /\ Snap.subject = Subject
    BY SnapshotTaken DEF CommitMade, Taken, Begun
  <2> QED BY <2>1, ProjectionShape DEF Instants
<1>2. /\ C = [p \in Subjects \X Kinds |->
                IF p[1] = Subject /\ p[2] \in Changed THEN NextVersion(p[2]) ELSE db.current[p]]
      /\ V = db.versions \cup {NextVersion(k) : k \in Changed}
  BY CommitWrites
<1>3. /\ \A u \in Subjects, k \in Kinds : CurrentIs(db.current[u, k], db.versions, u, k)
      /\ db.versions \subseteq EventVersions
      /\ db.current \in [Subjects \X Kinds -> EventVersions \cup {Null}]
      /\ \A v \in db.versions : v.event[1] = Subject /\ Commits(db, v.commit) # {}
  BY DEF IInv, HistoryOK
<1>4. \A v \in db.versions : v.commit < s
  <2> SUFFICES ASSUME NEW v \in db.versions PROVE v.commit < s
    OBVIOUS
  <2>1. PICK i \in DOMAIN db.ledger : db.ledger[i].request.snapshot = v.commit
    BY <1>3 DEF Commits
  <2> QED BY <2>1, CommitIsNewest DEF CommitMade, Taken, Begun
<1>5. \A k \in Changed : /\ NextVersion(k) \in EventVersions /\ NextVersion(k) # Null
                         /\ NextVersion(k).commit = s
                         /\ NextVersion(k).event[1] = Subject /\ NextVersion(k).event[2] = k
  <2> SUFFICES ASSUME NEW k \in Changed
      PROVE  /\ NextVersion(k) \in EventVersions /\ NextVersion(k) # Null
             /\ NextVersion(k).commit = s
             /\ NextVersion(k).event[1] = Subject /\ NextVersion(k).event[2] = k
    OBVIOUS
  <2>1. k \in Kinds /\ Change(Current(k), Active(k)) # Null
    BY DEF Changed
  <2>2. Current(k) \in EventVersions \cup {Null}
    BY <1>1, <1>3, <2>1 DEF Current
  <2>3. Current(k) # Null => Current(k).event[1] = Subject /\ Current(k).event[2] = k
    BY <1>1, <1>3, <2>1 DEF Current, CurrentIs, OfKey
  <2>4. Active(k) \in BOOLEAN
    BY DEF Active, Desired
  <2> QED BY <1>1, <2>1, <2>2, <2>3, <2>4, NextEvent DEF NextVersion
<1> HIDE DEF C, V, s
<1>6. V \subseteq EventVersions
  BY <1>2, <1>3, <1>5
<1>7. C \in [Subjects \X Kinds -> EventVersions \cup {Null}]
  BY <1>2, <1>3, <1>5
<1>8. \A v \in V : v.event[1] = Subject /\ Commits(db', v.commit) # {}
  <2>1. Commits(db', s) # {} /\ \A t : Commits(db, t) # {} => Commits(db', t) # {}
    BY CommitsGrow DEF s
  <2>2. \A v \in db.versions : v.event[1] = Subject /\ Commits(db', v.commit) # {}
    BY <1>3, <2>1
  <2>3. \A k \in Changed : NextVersion(k).event[1] = Subject /\ Commits(db', NextVersion(k).commit) # {}
    <3> SUFFICES ASSUME NEW k \in Changed
        PROVE  NextVersion(k).event[1] = Subject /\ Commits(db', NextVersion(k).commit) # {}
      OBVIOUS
    <3>1. NextVersion(k).commit = s /\ NextVersion(k).event[1] = Subject
      BY <1>5
    <3> QED BY <2>1, <3>1
  <2>4. \A v \in V : v \in db.versions \/ \E k \in Changed : v = NextVersion(k)
    BY <1>2
  <2> QED BY <2>2, <2>3, <2>4
<1>9. ASSUME NEW u \in Subjects, NEW k \in Kinds PROVE CurrentIs(C[u, k], V, u, k)
  <2>1. CurrentIs(db.current[u, k], db.versions, u, k)
    BY <1>3
  <2>2. CASE u = Subject /\ k \in Changed
    <3>1. C[u, k] = NextVersion(k)
      BY <1>2, <2>2
    <3>2. OfKey(V, u, k) = OfKey(db.versions, u, k) \cup {NextVersion(k)}
      BY <1>2, <1>5, <2>2 DEF OfKey
    <3>3. \A w \in OfKey(db.versions, u, k) : w.commit < s
      BY <1>4 DEF OfKey
    <3> QED BY <1>5, <2>2, <3>1, <3>2, <3>3 DEF CurrentIs
  <2>3. CASE ~(u = Subject /\ k \in Changed)
    <3>1. C[u, k] = db.current[u, k]
      BY <1>2, <2>3
    <3>2. OfKey(V, u, k) = OfKey(db.versions, u, k)
      BY <1>2, <1>5, <2>3 DEF OfKey
    <3> QED BY <2>1, <3>1, <3>2 DEF CurrentIs
  <2> QED BY <2>2, <2>3
<1> QED BY <1>6, <1>7, <1>8, <1>9 DEF HistoryOK, C, V

\* The new commit is the one the journal names.
LEMMA JournalKept ==
  ASSUME IInv, CommitMade
  PROVE  JournalTellsTruth'
<1>0. PICK n \in Nat : n = Len(db.ledger) + 1
  BY LedgerGrows
<1>1. /\ worker.key \in Keys /\ journal[worker.key] # Null
      /\ journal[worker.key].snapshot = worker.snapshot /\ sealed[worker.snapshot].key = worker.key
  BY SnapshotTaken DEF CommitMade, Taken, Begun, Snap
<1>2. /\ DOMAIN db.ledger = 1 .. n - 1 /\ DOMAIN db'.ledger = 1 .. n /\ n \in Nat
      /\ \A i \in DOMAIN db.ledger : db'.ledger[i] = db.ledger[i]
      /\ db'.ledger[n].request.snapshot = worker.snapshot
  BY <1>0, LedgerGrows, CommitWrites
<1>3. \A t : Commits(db, t) # {} => Commits(db', t) # {}
  BY CommitsGrow
<1>4. sealed' = sealed /\ journal' = journal
  BY DEF CommitMade
<1>5. CycleOf(n)' = worker.key /\ \A i \in DOMAIN db.ledger : CycleOf(i)' = CycleOf(i)
  BY <1>1, <1>2, <1>4 DEF CycleOf
<1>6. \A i \in DOMAIN db'.ledger :
        /\ journal[CycleOf(i)'] # Null
        /\ journal[CycleOf(i)'].snapshot = db'.ledger[i].request.snapshot
  <2>1. \A i \in DOMAIN db.ledger : /\ journal[CycleOf(i)] # Null
                                    /\ journal[CycleOf(i)].snapshot = db.ledger[i].request.snapshot
    BY DEF IInv, JournalTellsTruth
  <2> QED BY <1>1, <1>2, <1>5, <2>1
<1>7. \A k \in Keys : LET row == journal[k] IN row # Null =>
           /\ row.snapshot # Null =>
                  /\ sealed[row.snapshot] # Null
                  /\ sealed[row.snapshot].key = k
                  /\ sealed[row.snapshot].disposition = "OFFICIAL"
           /\ row.commit # Null => row.commit = row.snapshot /\ Commits(db', row.commit) # {}
           /\ row.status = "COMMITTED" => row.phase = "COMPLETED" /\ row.commit # Null
  BY <1>3 DEF IInv, JournalTellsTruth
<1> QED BY <1>4, <1>6, <1>7 DEF JournalTellsTruth

-----------------------------------------------------------------------------
LEMMA InitInvariant == CycleAssumption /\ Init => IInv
<1> SUFFICES ASSUME CycleAssumption, Init PROVE IInv
  OBVIOUS
<1>1. 1 \in Keys /\ Idle \in WorkerRows /\ Idle.pc = "idle" /\ Idle.refusal = Null
  BY DEF CycleAssumption, Keys, Idle, WorkerRows
<1>2. worker = Idle /\ \A t \in Instants : sealed[t] = Null
  BY DEF Init
<1>3. TypeOK
  BY <1>1 DEF Init, TypeOK, CycleAssumption
<1>4. SealedOK
  BY <1>2 DEF SealedOK
<1>5. WorkerOK /\ AttemptsOK /\ RefusalsExplained
  BY <1>1, <1>2 DEF WorkerOK, AttemptsOK, RefusalsExplained, Begun, Taken, Init
<1>6. /\ db.ledger = << >> /\ db.projection = [u \in Subjects |-> Null]
      /\ db.current = [p \in Subjects \X Kinds |-> Null] /\ db.versions = {}
  BY DEF Init, EmptyStore
<1>7. JournalTellsTruth
  BY <1>6 DEF Init, JournalTellsTruth
<1>8. LedgerOK
  BY <1>6 DEF LedgerOK, Ordered, Projected
<1>9. HistoryOK
  <2>1. \A u \in Subjects, k \in Kinds : CurrentIs(db.current[u, k], db.versions, u, k)
    BY <1>6 DEF CurrentIs, OfKey
  <2> QED BY <1>6, <2>1 DEF HistoryOK
<1> QED BY <1>3, <1>4, <1>5, <1>7, <1>8, <1>9 DEF IInv

-----------------------------------------------------------------------------
\* The journal row under a run is its checkpoint.
LEMMA RowUnderRun ==
  ASSUME IInv, worker.pc \in Begun
  PROVE  /\ worker.key \in Keys /\ worker.at = runs /\ runs \in Instants
         /\ worker.checkpoint \in JournalRows /\ worker.checkpoint # Null
         /\ journal[worker.key] = worker.checkpoint
         /\ worker.checkpoint.status = "RUNNING" /\ worker.checkpoint.attempt <= runs
         /\ worker.checkpoint.attempt \in Instants /\ worker.checkpoint.at \in Instants
         /\ worker.checkpoint.snapshot \in Instants \cup {Null}
         /\ worker.checkpoint.commit \in Instants \cup {Null}
         /\ worker.checkpoint.snapshot # Null =>
              /\ sealed[worker.checkpoint.snapshot] # Null
              /\ sealed[worker.checkpoint.snapshot].key = worker.key
              /\ sealed[worker.checkpoint.snapshot].disposition = "OFFICIAL"
         /\ worker.checkpoint.commit # Null =>
              /\ worker.checkpoint.commit = worker.checkpoint.snapshot
              /\ Commits(db, worker.checkpoint.commit) # {}
         /\ \A i \in DOMAIN db.ledger : CycleOf(i) = worker.key =>
              worker.checkpoint.snapshot = db.ledger[i].request.snapshot
<1>1. worker.pc # "idle"
  BY DEF Begun
<1>2. /\ worker.key \in Keys /\ worker.at = runs /\ runs \in Instants
      /\ worker.checkpoint \in JournalRows /\ journal[worker.key] = worker.checkpoint
      /\ worker.checkpoint.status = "RUNNING"
  BY <1>1 DEF IInv, WorkerOK
<1>3. worker.checkpoint # Null
  BY <1>2 DEF IInv, CycleAssumption
<1>4. worker.checkpoint.attempt <= runs
  BY <1>2, <1>3 DEF IInv, AttemptsOK
<1>5. /\ worker.checkpoint.attempt \in Instants /\ worker.checkpoint.at \in Instants
      /\ worker.checkpoint.snapshot \in Instants \cup {Null}
      /\ worker.checkpoint.commit \in Instants \cup {Null}
  BY <1>2 DEF JournalRows
<1>6. /\ worker.checkpoint.snapshot # Null =>
           /\ sealed[worker.checkpoint.snapshot] # Null
           /\ sealed[worker.checkpoint.snapshot].key = worker.key
           /\ sealed[worker.checkpoint.snapshot].disposition = "OFFICIAL"
      /\ worker.checkpoint.commit # Null =>
           /\ worker.checkpoint.commit = worker.checkpoint.snapshot
           /\ Commits(db, worker.checkpoint.commit) # {}
  BY <1>2, <1>3 DEF IInv, JournalTellsTruth
<1>7. \A i \in DOMAIN db.ledger : CycleOf(i) = worker.key =>
        worker.checkpoint.snapshot = db.ledger[i].request.snapshot
  BY <1>2 DEF IInv, JournalTellsTruth
<1> QED BY <1>2, <1>3, <1>4, <1>5, <1>6, <1>7

\* What saving a row of the run does to the journal, and what it leaves.
LEMMA RowSaved ==
  ASSUME IInv, worker.pc \in Begun, NEW row \in JournalRows, row.attempt = worker.checkpoint.attempt,
         journal' = [journal EXCEPT ![worker.key] = row],
         db' = db, sealed' = sealed, minute' = minute, runs' = runs,
         worker'.pc \notin {"get", "gates", "begin"},
         row.snapshot # Null =>
           /\ sealed[row.snapshot] # Null
           /\ sealed[row.snapshot].key = worker.key
           /\ sealed[row.snapshot].disposition = "OFFICIAL",
         row.commit # Null => row.commit = row.snapshot /\ Commits(db, row.commit) # {},
         row.status = "COMMITTED" => row.phase = "COMPLETED" /\ row.commit # Null,
         worker.checkpoint.snapshot # Null => row.snapshot = worker.checkpoint.snapshot
  PROVE  /\ journal' \in [Keys -> JournalRows \cup {Null}] /\ journal'[worker.key] = row
         /\ SealedOK' /\ AttemptsOK' /\ JournalTellsTruth' /\ LedgerOK' /\ HistoryOK'
<1>1. /\ worker.key \in Keys /\ worker.checkpoint.attempt <= runs
      /\ \A i \in DOMAIN db.ledger : CycleOf(i) = worker.key =>
           worker.checkpoint.snapshot = db.ledger[i].request.snapshot
  BY RowUnderRun
<1>2. /\ journal \in [Keys -> JournalRows \cup {Null}] /\ runs \in 0 .. MaxRuns /\ minute \in Keys
      /\ runs \in Int /\ minute \in Int
  BY DEF IInv, TypeOK, Keys
<1>3. LedgerOK' /\ HistoryOK'
  BY TablesStand
<1>4. SealedOK'
  BY <1>2, SnapshotsStand
<1>5. AttemptsOK'
  BY <1>1, <1>2 DEF IInv, AttemptsOK
<1>6. \A i \in DOMAIN db.ledger : CycleOf(i) = worker.key =>
        row.snapshot = db.ledger[i].request.snapshot
  <2>1. \A i \in DOMAIN db.ledger : db.ledger[i].request.snapshot \in Instants
    BY LedgerShape DEF IInv
  <2>2. Null \notin Instants
    BY DEF IInv, CycleAssumption, Instants
  <2> QED BY <1>1, <2>1, <2>2
<1>7. JournalTellsTruth'
  BY <1>1, <1>6, JournalSaved
<1> QED BY <1>1, <1>2, <1>3, <1>4, <1>5, <1>7

\* What a step leaves that writes nothing to the database.
LEMMA NothingSaved ==
  ASSUME IInv, journal' = journal, db' = db, sealed' = sealed,
         minute' \in Keys, minute <= minute', runs' \in 0 .. MaxRuns, runs <= runs'
  PROVE  /\ SealedOK' /\ JournalTellsTruth' /\ LedgerOK' /\ HistoryOK'
         /\ runs' = runs /\ worker'.pc \notin {"get", "gates", "begin"} => AttemptsOK'
<1>1. LedgerOK' /\ HistoryOK'
  BY TablesStand
<1>2. SealedOK'
  BY SnapshotsStand
<1>3. JournalTellsTruth'
  BY JournalStands
<1>4. runs' = runs /\ worker'.pc \notin {"get", "gates", "begin"} => AttemptsOK'
  BY DEF IInv, AttemptsOK
<1> QED BY <1>1, <1>2, <1>3, <1>4

\* An idle worker remembers nothing but why the last commit was refused.
LEMMA IdleWorker ==
  ASSUME IInv, worker' \in WorkerRows, worker'.pc = "idle"
  PROVE  WorkerOK' /\ (worker'.refusal = Null => RefusalsExplained')
BY DEF WorkerOK, RefusalsExplained, Begun, Taken

LEMMA IdleShape ==
  ASSUME CycleAssumption
  PROVE  Idle \in WorkerRows /\ Idle.pc = "idle" /\ Idle.refusal = Null
BY DEF Idle, WorkerRows

\* The run goes on and saves nothing.
LEMMA RunGoesOn ==
  ASSUME IInv, NEW step \in Steps, worker.pc # "idle", worker' = [worker EXCEPT !.pc = step]
  PROVE  /\ worker' \in WorkerRows /\ worker'.pc = step /\ worker'.refusal = Null
         /\ worker'.key = worker.key /\ worker'.at = worker.at
         /\ worker'.checkpoint = worker.checkpoint /\ worker'.snapshot = worker.snapshot
         /\ worker'.lifecycle = worker.lifecycle
         /\ RefusalsExplained'
<1>1. worker \in WorkerRows /\ worker.refusal = Null
  BY DEF IInv, TypeOK, WorkerOK
<1>2. /\ worker' \in WorkerRows /\ worker'.pc = step /\ worker'.refusal = Null
      /\ worker'.key = worker.key /\ worker'.at = worker.at
      /\ worker'.checkpoint = worker.checkpoint /\ worker'.snapshot = worker.snapshot
      /\ worker'.lifecycle = worker.lifecycle
  BY <1>1 DEF WorkerRows
<1> QED BY <1>2 DEF RefusalsExplained

\* The run returns, or never began: nothing is saved.
LEMMA RunReturns ==
  ASSUME IInv, worker' = Idle, journal' = journal, db' = db, sealed' = sealed,
         minute' = minute, runs' = runs,
         mode' \in {"OFFICIAL", "SHADOW"}, lastKey' \in Keys \cup {Null}
  PROVE  IInv'
<1>1. CycleAssumption /\ minute \in Keys /\ runs \in 0 .. MaxRuns /\ minute \in Int /\ runs \in Int
  BY DEF IInv, TypeOK, Keys
<1>2. worker' \in WorkerRows /\ worker'.pc = "idle" /\ worker'.refusal = Null
  BY <1>1, IdleShape
<1>3. TypeOK'
  BY <1>2 DEF IInv, TypeOK
<1>4. WorkerOK' /\ RefusalsExplained'
  BY <1>2, IdleWorker
<1>5. SealedOK' /\ AttemptsOK' /\ JournalTellsTruth' /\ LedgerOK' /\ HistoryOK'
  BY <1>1, <1>2, NothingSaved
<1> QED BY <1>1, <1>3, <1>4, <1>5 DEF IInv

LEMMA TickStep == ASSUME IInv, Tick PROVE IInv'
<1>1. /\ minute' \in Keys /\ minute <= minute' /\ runs \in 0 .. MaxRuns /\ runs <= runs
      /\ minute \in Int /\ minute' = minute + 1
  BY DEF Tick, IInv, TypeOK, Keys, CycleAssumption
<1>2. /\ runs' = runs /\ mode' = mode /\ lastKey' = lastKey /\ worker' = worker
      /\ journal' = journal /\ sealed' = sealed /\ db' = db
  BY DEF Tick
<1>3. TypeOK'
  BY <1>1, <1>2 DEF IInv, TypeOK
<1>4. SealedOK' /\ JournalTellsTruth' /\ LedgerOK' /\ HistoryOK'
  BY <1>1, <1>2, NothingSaved
<1>5. AttemptsOK' /\ RefusalsExplained'
  BY <1>2 DEF IInv, AttemptsOK, RefusalsExplained
<1>6. WorkerOK'
  <2>1. worker.pc # "idle" => worker.key \in Int /\ worker.key <= minute
    BY DEF IInv, WorkerOK, Keys
  <2> QED BY <1>1, <1>2, <2>1 DEF IInv, WorkerOK
<1> QED BY <1>3, <1>4, <1>5, <1>6 DEF IInv

LEMMA WorkerTickStep == ASSUME IInv, WorkerTick PROVE IInv'
<1>1. /\ runs' = runs + 1 /\ minute' = minute /\ mode' = mode /\ lastKey' = minute
      /\ journal' = journal /\ sealed' = sealed /\ db' = db
      /\ worker' = [Idle EXCEPT !.pc = "get", !.key = minute, !.at = runs + 1]
  BY DEF WorkerTick
<1>2. /\ CycleAssumption /\ minute \in Keys /\ minute \in Int /\ runs \in 0 .. MaxRuns
      /\ runs' \in Instants /\ runs' \in 0 .. MaxRuns /\ runs \in Int
  BY <1>1 DEF WorkerTick, IInv, TypeOK, Keys, Instants, CycleAssumption
<1>3. /\ worker' \in WorkerRows /\ worker'.pc = "get" /\ worker'.key = minute
      /\ worker'.at = runs' /\ worker'.refusal = Null
  <2>1. Idle \in WorkerRows /\ Idle.refusal = Null
    BY <1>2, IdleShape
  <2> QED BY <1>1, <1>2, <2>1 DEF WorkerRows, Steps
<1>4. TypeOK'
  BY <1>1, <1>2, <1>3 DEF IInv, TypeOK
<1>5. SealedOK' /\ JournalTellsTruth' /\ LedgerOK' /\ HistoryOK'
  BY <1>1, <1>2, NothingSaved
<1>6. RefusalsExplained'
  BY <1>3 DEF RefusalsExplained
<1>7. AttemptsOK'
  <2>1. \A k \in Keys : journal[k] # Null => journal[k].attempt \in Int
    BY DEF IInv, TypeOK, JournalRows, Instants
  <2> QED BY <1>1, <1>2, <2>1 DEF IInv, AttemptsOK
<1>8. WorkerOK'
  <2>1. \A t \in Instants : sealed[t] # Null => t <= runs /\ sealed[t].key <= minute
    BY DEF IInv, SealedOK
  <2>2. sealed[runs'] = Null
    BY <1>1, <1>2, <2>1 DEF Instants
  <2> QED BY <1>1, <1>2, <1>3, <2>1, <2>2 DEF WorkerOK, Begun, Taken
<1> QED BY <1>2, <1>4, <1>5, <1>6, <1>7, <1>8 DEF IInv

LEMMA CrashStep == ASSUME IInv, Crash PROVE IInv'
BY RunReturns DEF Crash

\* A step before the snapshot, or the delivery: only the point of the run changes.
LEMMA StepMoves ==
  ASSUME IInv, NEW step \in Steps, worker.pc # "idle", worker' = [worker EXCEPT !.pc = step],
         UNCHANGED <<Durable, journal, sealed, db>>,
         \/ worker.pc = "get" /\ step = "gates"
         \/ worker.pc = "gates" /\ step \in {"shadow", "begin"}
         \/ worker.pc = "deliver" /\ step = "complete"
  PROVE  IInv'
<1>1. /\ minute' = minute /\ runs' = runs /\ mode' = mode /\ lastKey' = lastKey
      /\ journal' = journal /\ sealed' = sealed /\ db' = db
  BY DEF Durable
<1>2. /\ CycleAssumption /\ minute \in Keys /\ runs \in 0 .. MaxRuns /\ minute \in Int /\ runs \in Int
  BY DEF IInv, TypeOK, Keys
<1>3. /\ worker' \in WorkerRows /\ worker'.pc = step /\ worker'.refusal = Null
      /\ worker'.key = worker.key /\ worker'.at = worker.at
      /\ worker'.checkpoint = worker.checkpoint /\ worker'.snapshot = worker.snapshot
      /\ worker'.lifecycle = worker.lifecycle
      /\ RefusalsExplained'
  BY RunGoesOn
<1>4. TypeOK'
  BY <1>1, <1>3 DEF IInv, TypeOK
<1>5. SealedOK' /\ JournalTellsTruth' /\ LedgerOK' /\ HistoryOK'
  BY <1>1, <1>2, NothingSaved
<1>6. AttemptsOK'
  BY <1>1, <1>3 DEF IInv, AttemptsOK
<1>7. WorkerOK'
  BY <1>1, <1>3 DEF IInv, WorkerOK, Begun, Taken
<1> QED BY <1>2, <1>3, <1>4, <1>5, <1>6, <1>7 DEF IInv

LEMMA GetStep == ASSUME IInv, Get PROVE IInv'
<1>1. CASE worker' = Idle
  BY <1>1, RunReturns DEF Get, Durable, IInv, TypeOK
<1>2. CASE worker' = [worker EXCEPT !.pc = "gates"]
  BY <1>2, StepMoves DEF Get, Steps
<1> QED BY <1>1, <1>2 DEF Get, Return, Goto

LEMMA GatesStep == ASSUME IInv, Gates PROVE IInv'
<1>1. CASE worker' = Idle
  BY <1>1, RunReturns DEF Gates, Durable, IInv, TypeOK
<1>2. ASSUME NEW step \in {"shadow", "begin"}, worker' = [worker EXCEPT !.pc = step] PROVE IInv'
  BY <1>2, StepMoves DEF Gates, Steps
<1> QED BY <1>1, <1>2 DEF Gates, Return, Goto

LEMMA DeliverStep == ASSUME IInv, Deliver PROVE IInv'
<1>1. worker' = [worker EXCEPT !.pc = "complete"]
  BY DEF Deliver, Goto
<1> QED BY <1>1, StepMoves DEF Deliver, Steps

\* A snapshot is sealed: it is named by the run, and no run has sealed one of that name.
LEMMA SnapshotSealed ==
  ASSUME IInv, worker.pc \in {"shadow", "seal"}, NEW d \in {"OFFICIAL", "SHADOW"}, NEW e \in Evidence,
         sealed' = [sealed EXCEPT ![worker.at] = Snapshot(d, e)],
         journal' = journal, db' = db, minute' = minute, runs' = runs
  PROVE  /\ sealed' \in [Instants -> SnapshotRows \cup {Null}]
         /\ runs \in Instants /\ worker.at = runs /\ Snapshot(d, e) # Null
         /\ sealed'[runs] = Snapshot(d, e) /\ sealed'[runs].key = worker.key
         /\ sealed'[runs].disposition = d
         /\ \A t \in Instants : t # runs => sealed'[t] = sealed[t]
         /\ SealedOK' /\ JournalTellsTruth' /\ LedgerOK' /\ HistoryOK'
<1>1. /\ runs \in Instants /\ worker.at = runs /\ sealed[runs] = Null
      /\ worker.key \in Keys /\ worker.key <= minute
      /\ \A t \in Instants : sealed[t] # Null => sealed[t].key <= worker.key
  BY DEF IInv, WorkerOK
<1>2. Subject \in Subjects
  BY ProjectionShape
<1>3. Snapshot(d, e) \in SnapshotRows
  BY <1>1, <1>2 DEF Snapshot, SnapshotRows
<1>4. Snapshot(d, e) # Null
  BY <1>3 DEF IInv, CycleAssumption
<1>5. sealed \in [Instants -> SnapshotRows \cup {Null}]
  BY DEF IInv, TypeOK
<1>6. /\ sealed' \in [Instants -> SnapshotRows \cup {Null}]
      /\ sealed'[runs] = Snapshot(d, e)
      /\ \A t \in Instants : t # runs => sealed'[t] = sealed[t]
  BY <1>1, <1>3, <1>5
<1>7. /\ Snapshot(d, e).at = runs /\ Snapshot(d, e).subject = Subject
      /\ Snapshot(d, e).key = worker.key /\ Snapshot(d, e).disposition = d
  BY <1>1 DEF Snapshot
<1>8. \A t \in Instants : sealed[t] # Null => sealed'[t] = sealed[t]
  BY <1>1, <1>6
<1>9. JournalTellsTruth' /\ LedgerOK' /\ HistoryOK'
  BY <1>8, JournalStands, TablesStand
<1>10. SealedOK'
  <2>1. \A t \in Instants : sealed[t] # Null =>
          /\ sealed[t].at = t /\ sealed[t].subject = Subject /\ t <= runs /\ sealed[t].key <= minute
          /\ t \in Int /\ sealed[t].key \in Int
    BY <1>5 DEF IInv, SealedOK, SnapshotRows, Instants, Keys
  <2>2. \A s, t \in Instants : sealed[s] # Null /\ sealed[t] # Null /\ s <= t =>
          sealed[s].key <= sealed[t].key
    BY DEF IInv, SealedOK
  <2>3. worker.key \in Int /\ runs \in Int
    BY <1>1 DEF Keys, Instants
  <2>4. \A t \in Instants : sealed'[t] # Null =>
          /\ sealed'[t].at = t /\ sealed'[t].subject = Subject /\ t <= runs /\ sealed'[t].key <= minute
    BY <1>1, <1>6, <1>7, <2>1, <2>3
  <2>5. \A s, t \in Instants : sealed'[s] # Null /\ sealed'[t] # Null /\ s <= t =>
          sealed'[s].key <= sealed'[t].key
    <3> SUFFICES ASSUME NEW s \in Instants, NEW t \in Instants,
                        sealed'[s] # Null, sealed'[t] # Null, s <= t
        PROVE  sealed'[s].key <= sealed'[t].key
      OBVIOUS
    <3>1. CASE s = runs /\ t = runs
      BY <1>6, <1>7, <2>3, <3>1
    <3>2. CASE s # runs /\ t = runs
      BY <1>1, <1>6, <1>7, <3>2
    <3>3. CASE s = runs /\ t # runs
      BY <1>6, <2>1, <2>3, <3>3
    <3>4. CASE s # runs /\ t # runs
      BY <1>6, <2>2, <3>4
    <3> QED BY <3>1, <3>2, <3>3, <3>4
  <2> QED BY <2>4, <2>5 DEF SealedOK
<1> QED BY <1>1, <1>4, <1>6, <1>7, <1>9, <1>10

LEMMA ShadowStep == ASSUME IInv, NEW e \in Evidence, RunShadow(e) PROVE IInv'
<1>1. /\ sealed' = [sealed EXCEPT ![worker.at] = Snapshot("SHADOW", e)] /\ worker' = Idle
      /\ minute' = minute /\ runs' = runs /\ mode' = mode /\ lastKey' = lastKey
      /\ journal' = journal /\ db' = db /\ worker.pc = "shadow" /\ CycleAssumption
  BY DEF RunShadow, Return, Durable, IInv
<1>2. /\ sealed' \in [Instants -> SnapshotRows \cup {Null}]
      /\ SealedOK' /\ JournalTellsTruth' /\ LedgerOK' /\ HistoryOK'
  BY <1>1, SnapshotSealed
<1>3. worker' \in WorkerRows /\ worker'.pc = "idle" /\ worker'.refusal = Null
  BY <1>1, IdleShape
<1>4. TypeOK'
  BY <1>1, <1>2, <1>3 DEF IInv, TypeOK
<1>5. WorkerOK' /\ RefusalsExplained'
  BY <1>3, IdleWorker
<1>6. AttemptsOK'
  BY <1>1, <1>3 DEF IInv, AttemptsOK
<1> QED BY <1>1, <1>2, <1>4, <1>5, <1>6 DEF IInv

LEMMA SealStep == ASSUME IInv, NEW e \in Evidence, SealSnapshot(e) PROVE IInv'
<1>1. /\ sealed' = [sealed EXCEPT ![worker.at] = Snapshot("OFFICIAL", e)]
      /\ worker' = [worker EXCEPT !.pc = "save_metric", !.snapshot = worker.at]
      /\ minute' = minute /\ runs' = runs /\ mode' = mode /\ lastKey' = lastKey
      /\ journal' = journal /\ db' = db /\ worker.pc = "seal" /\ CycleAssumption
  BY DEF SealSnapshot, Durable, IInv
<1>2. /\ sealed' \in [Instants -> SnapshotRows \cup {Null}]
      /\ runs \in Instants /\ worker.at = runs /\ sealed'[runs] # Null
      /\ sealed'[runs].key = worker.key /\ sealed'[runs].disposition = "OFFICIAL"
      /\ \A t \in Instants : t # runs => sealed'[t] = sealed[t]
      /\ SealedOK' /\ JournalTellsTruth' /\ LedgerOK' /\ HistoryOK'
  BY <1>1, SnapshotSealed
<1>3. /\ worker' \in WorkerRows /\ worker'.pc = "save_metric" /\ worker'.snapshot = runs
      /\ worker'.key = worker.key /\ worker'.at = worker.at /\ worker'.checkpoint = worker.checkpoint
      /\ worker'.refusal = worker.refusal
  BY <1>1, <1>2 DEF IInv, TypeOK, WorkerRows, Steps
<1>4. TypeOK'
  BY <1>1, <1>2, <1>3 DEF IInv, TypeOK
<1>5. worker.refusal = Null
  BY <1>1 DEF IInv, WorkerOK
<1>6. RefusalsExplained'
  BY <1>3, <1>5 DEF RefusalsExplained
<1>7. AttemptsOK'
  BY <1>1, <1>3 DEF IInv, AttemptsOK
<1>8. WorkerOK'
  <2>1. \A t \in Instants : sealed'[t] # Null => sealed'[t].key <= worker.key
    <3>1. worker.key \in Int
      BY <1>1 DEF IInv, WorkerOK, Keys
    <3> QED BY <1>1, <1>2, <3>1 DEF IInv, WorkerOK
  <2> QED BY <1>1, <1>2, <1>3, <1>5, <2>1 DEF IInv, WorkerOK, Begun, Taken
<1> QED BY <1>1, <1>2, <1>4, <1>6, <1>7, <1>8 DEF IInv

-----------------------------------------------------------------------------
\* A run saves its row and goes on.
LEMMA RunSaves ==
  ASSUME IInv, worker.pc \in Begun, NEW row \in JournalRows, NEW step \in Begun, Save(row, step),
         row.attempt = worker.checkpoint.attempt, row.status = "RUNNING",
         row.snapshot # Null =>
           /\ sealed[row.snapshot] # Null
           /\ sealed[row.snapshot].key = worker.key
           /\ sealed[row.snapshot].disposition = "OFFICIAL",
         row.commit # Null => row.commit = row.snapshot /\ Commits(db, row.commit) # {},
         worker.checkpoint.snapshot # Null => row.snapshot = worker.checkpoint.snapshot
  PROVE  /\ CycleAssumption /\ TypeOK' /\ SealedOK' /\ AttemptsOK' /\ JournalTellsTruth'
         /\ LedgerOK' /\ HistoryOK' /\ RefusalsExplained'
         /\ minute' = minute /\ runs' = runs /\ sealed' = sealed /\ db' = db
         /\ journal'[worker.key] = row
         /\ worker'.pc = step /\ worker'.checkpoint = row /\ worker'.refusal = Null
         /\ worker'.key = worker.key /\ worker'.at = worker.at /\ worker'.snapshot = worker.snapshot
         /\ worker'.lifecycle = worker.lifecycle
<1>1. /\ journal' = [journal EXCEPT ![worker.key] = row]
      /\ worker' = [worker EXCEPT !.pc = step, !.checkpoint = row]
      /\ minute' = minute /\ runs' = runs /\ mode' = mode /\ lastKey' = lastKey
      /\ sealed' = sealed /\ db' = db
  BY DEF Save, Durable
<1>2. worker \in WorkerRows /\ worker.refusal = Null /\ CycleAssumption
  BY DEF IInv, TypeOK, WorkerOK, Begun
<1>3. /\ worker' \in WorkerRows
      /\ worker'.pc = step /\ worker'.checkpoint = row /\ worker'.refusal = Null
      /\ worker'.key = worker.key /\ worker'.at = worker.at /\ worker'.snapshot = worker.snapshot
      /\ worker'.lifecycle = worker.lifecycle
  <2>1. step \in Steps
    BY DEF Begun, Steps
  <2> HIDE DEF Steps
  <2> QED BY <1>1, <1>2, <2>1 DEF WorkerRows
<1>4. worker'.pc \notin {"get", "gates", "begin"}
  BY <1>3 DEF Begun
<1>5. /\ journal' \in [Keys -> JournalRows \cup {Null}] /\ journal'[worker.key] = row
      /\ SealedOK' /\ AttemptsOK' /\ JournalTellsTruth' /\ LedgerOK' /\ HistoryOK'
  BY <1>1, <1>4, RowSaved
<1>6. TypeOK'
  BY <1>1, <1>3, <1>5 DEF IInv, TypeOK
<1>7. RefusalsExplained'
  BY <1>3 DEF RefusalsExplained
<1> QED BY <1>1, <1>2, <1>3, <1>5, <1>6, <1>7

\* A run ends with a last row, or with none.
LEMMA RunEnds ==
  ASSUME IInv, worker.pc \in Begun, NEW row \in JournalRows,
         journal' = [journal EXCEPT ![worker.key] = row] \/ journal' = journal,
         UNCHANGED <<Durable, sealed, db>>,
         worker' \in WorkerRows, worker'.pc = "idle",
         row.attempt = worker.checkpoint.attempt, row.snapshot = worker.checkpoint.snapshot,
         row.commit = worker.checkpoint.commit,
         row.status = "COMMITTED" => row.phase = "COMPLETED" /\ row.commit # Null,
         RefusalsExplained'
  PROVE  IInv'
<1>1. /\ minute' = minute /\ runs' = runs /\ mode' = mode /\ lastKey' = lastKey
      /\ sealed' = sealed /\ db' = db
  BY DEF Durable
<1>2. /\ CycleAssumption /\ minute \in Keys /\ runs \in 0 .. MaxRuns /\ minute \in Int /\ runs \in Int
      /\ journal \in [Keys -> JournalRows \cup {Null}]
  BY DEF IInv, TypeOK, Keys
<1>3. worker'.pc \notin {"get", "gates", "begin"}
  OBVIOUS
<1>4. /\ journal' \in [Keys -> JournalRows \cup {Null}]
      /\ SealedOK' /\ AttemptsOK' /\ JournalTellsTruth' /\ LedgerOK' /\ HistoryOK'
  <2>1. CASE journal' = journal
    BY <1>1, <1>2, <1>3, <2>1, NothingSaved
  <2>2. CASE journal' = [journal EXCEPT ![worker.key] = row]
    <3>1. /\ worker.checkpoint.snapshot # Null =>
               /\ sealed[worker.checkpoint.snapshot] # Null
               /\ sealed[worker.checkpoint.snapshot].key = worker.key
               /\ sealed[worker.checkpoint.snapshot].disposition = "OFFICIAL"
          /\ worker.checkpoint.commit # Null =>
               /\ worker.checkpoint.commit = worker.checkpoint.snapshot
               /\ Commits(db, worker.checkpoint.commit) # {}
      BY RowUnderRun
    <3> QED BY <1>1, <1>3, <2>2, <3>1, RowSaved
  <2> QED BY <2>1, <2>2
<1>5. TypeOK'
  BY <1>1, <1>4 DEF IInv, TypeOK
<1>6. WorkerOK'
  BY IdleWorker
<1> QED BY <1>2, <1>4, <1>5, <1>6 DEF IInv

LEMMA SaveMetricStep == ASSUME IInv, SaveMetric PROVE IInv'
<1> DEFINE row == [worker.checkpoint EXCEPT !.phase = "METRIC", !.snapshot = worker.snapshot,
                                            !.error = FALSE]
<1>1. worker.pc = "save_metric" /\ Save(row, "metrics")
  BY DEF SaveMetric
<1>2. worker.pc \in Begun /\ "metrics" \in Begun /\ "metrics" \in Taken
  BY <1>1 DEF Begun, Taken
<1>3. /\ worker.snapshot = runs /\ sealed[runs] # Null /\ runs \in Instants
      /\ sealed[runs].key = worker.key /\ sealed[runs].disposition = "OFFICIAL"
      /\ worker.checkpoint.snapshot = Null /\ worker.checkpoint \in JournalRows
      /\ worker.checkpoint.status = "RUNNING"
  BY <1>1, <1>2 DEF IInv, WorkerOK
<1>4. /\ row \in JournalRows /\ row.attempt = worker.checkpoint.attempt /\ row.status = "RUNNING"
      /\ row.snapshot = runs /\ row.commit = worker.checkpoint.commit
  BY <1>3 DEF JournalRows
<1> HIDE DEF row
<1>5. row.commit # Null => FALSE
  <2>1. runs # Null
    BY <1>3 DEF IInv, CycleAssumption, Instants
  <2>2. worker.checkpoint.commit # Null =>
          /\ worker.checkpoint.commit = worker.checkpoint.snapshot
    BY <1>2, RowUnderRun
  <2> QED BY <1>3, <1>4, <2>2
<1>6. /\ CycleAssumption /\ TypeOK' /\ SealedOK' /\ AttemptsOK' /\ JournalTellsTruth'
      /\ LedgerOK' /\ HistoryOK' /\ RefusalsExplained'
      /\ minute' = minute /\ runs' = runs /\ sealed' = sealed /\ db' = db
      /\ journal'[worker.key] = row
      /\ worker'.pc = "metrics" /\ worker'.checkpoint = row /\ worker'.refusal = Null
      /\ worker'.key = worker.key /\ worker'.at = worker.at /\ worker'.snapshot = worker.snapshot
  BY <1>1, <1>2, <1>3, <1>4, <1>5, RunSaves
<1>7. WorkerOK'
  BY <1>1, <1>3, <1>4, <1>6 DEF IInv, WorkerOK, Begun, Taken
<1> QED BY <1>6, <1>7 DEF IInv

LEMMA SaveCommitStep == ASSUME IInv, SaveCommit PROVE IInv'
<1> DEFINE row == [worker.checkpoint EXCEPT !.phase = "ANALYSIS_COMMIT", !.error = FALSE]
<1>1. worker.pc = "save_commit" /\ Save(row, "commit")
  BY DEF SaveCommit
<1>2. worker.pc \in Begun /\ "commit" \in Begun /\ worker.pc \in Taken
  BY <1>1 DEF Begun, Taken
<1>3. /\ worker.checkpoint \in JournalRows /\ worker.checkpoint.status = "RUNNING"
      /\ worker.snapshot \in Instants /\ worker.checkpoint.snapshot = worker.snapshot
      /\ worker.lifecycle = LifecycleFor(db.projection[Subject])
  BY <1>1, <1>2 DEF IInv, WorkerOK
<1>4. /\ row \in JournalRows /\ row.attempt = worker.checkpoint.attempt /\ row.status = "RUNNING"
      /\ row.snapshot = worker.checkpoint.snapshot /\ row.commit = worker.checkpoint.commit
  BY <1>3 DEF JournalRows
<1> HIDE DEF row
<1>5. /\ CycleAssumption /\ TypeOK' /\ SealedOK' /\ AttemptsOK' /\ JournalTellsTruth'
      /\ LedgerOK' /\ HistoryOK' /\ RefusalsExplained'
      /\ minute' = minute /\ runs' = runs /\ sealed' = sealed /\ db' = db
      /\ journal'[worker.key] = row
      /\ worker'.pc = "commit" /\ worker'.checkpoint = row /\ worker'.refusal = Null
      /\ worker'.key = worker.key /\ worker'.at = worker.at /\ worker'.snapshot = worker.snapshot
      /\ worker'.lifecycle = worker.lifecycle
  BY <1>1, <1>2, <1>4, RowUnderRun, RunSaves
<1>6. WorkerOK'
  BY <1>1, <1>3, <1>4, <1>5 DEF IInv, WorkerOK, Begun, Taken
<1> QED BY <1>5, <1>6 DEF IInv

LEMMA SaveOutboxStep == ASSUME IInv, SaveOutbox PROVE IInv'
<1> DEFINE row == [worker.checkpoint EXCEPT !.phase = "EVENT_OUTBOX", !.commit = worker.snapshot,
                                            !.error = FALSE]
<1>1. worker.pc = "save_outbox" /\ Save(row, "deliver")
  BY DEF SaveOutbox
<1>2. worker.pc \in Begun /\ "deliver" \in Begun /\ worker.pc \in Taken
  BY <1>1 DEF Begun, Taken
<1>3. /\ worker.checkpoint \in JournalRows /\ worker.checkpoint.status = "RUNNING"
      /\ worker.snapshot \in Instants /\ worker.checkpoint.snapshot = worker.snapshot
      /\ Commits(db, worker.snapshot) # {}
  BY <1>1, <1>2 DEF IInv, WorkerOK
<1>4. /\ row \in JournalRows /\ row.attempt = worker.checkpoint.attempt /\ row.status = "RUNNING"
      /\ row.snapshot = worker.checkpoint.snapshot /\ row.commit = worker.snapshot
  BY <1>3 DEF JournalRows
<1> HIDE DEF row
<1>5. /\ CycleAssumption /\ TypeOK' /\ SealedOK' /\ AttemptsOK' /\ JournalTellsTruth'
      /\ LedgerOK' /\ HistoryOK' /\ RefusalsExplained'
      /\ minute' = minute /\ runs' = runs /\ sealed' = sealed /\ db' = db
      /\ journal'[worker.key] = row
      /\ worker'.pc = "deliver" /\ worker'.checkpoint = row /\ worker'.refusal = Null
      /\ worker'.key = worker.key /\ worker'.at = worker.at /\ worker'.snapshot = worker.snapshot
  BY <1>1, <1>2, <1>3, <1>4, RowUnderRun, RunSaves
<1>6. WorkerOK'
  BY <1>1, <1>3, <1>4, <1>5 DEF IInv, WorkerOK, Begun, Taken, Commits
<1> QED BY <1>5, <1>6 DEF IInv

\* The row a run that failed leaves.
LEMMA FailedRow ==
  ASSUME IInv, worker.pc \in Begun,
         NEW row, row = [worker.checkpoint EXCEPT !.phase = "FAILED", !.status = "FAILED", !.error = TRUE]
  PROVE  /\ row \in JournalRows /\ row.attempt = worker.checkpoint.attempt
         /\ row.snapshot = worker.checkpoint.snapshot /\ row.commit = worker.checkpoint.commit
         /\ row.status # "COMMITTED"
<1>1. worker.checkpoint \in JournalRows
  BY DEF IInv, WorkerOK
<1> QED BY <1>1 DEF JournalRows

LEMMA RunMetricsStep == ASSUME IInv, RunMetrics PROVE IInv'
<1>1. worker.pc = "metrics" /\ worker.pc \in Begun /\ worker.pc \in Taken
  BY DEF RunMetrics, Begun, Taken
<1>2. /\ minute' = minute /\ runs' = runs /\ mode' = mode /\ lastKey' = lastKey
      /\ sealed' = sealed /\ db' = db /\ CycleAssumption
  BY DEF RunMetrics, Durable, IInv
<1>3. CASE /\ worker' = [worker EXCEPT !.pc = "save_commit",
                                       !.lifecycle = LifecycleFor(db.projection[Subject])]
           /\ journal' = journal
  <2>1. LifecycleFor(db.projection[Subject]) \in DOMAIN Legal
    BY ProjectionShape, LifecycleAssumption
  <2>2. worker \in WorkerRows /\ worker.refusal = Null
    BY <1>1 DEF IInv, TypeOK, WorkerOK
  <2>3. /\ worker' \in WorkerRows /\ worker'.pc = "save_commit" /\ worker'.refusal = Null
        /\ worker'.key = worker.key /\ worker'.at = worker.at /\ worker'.snapshot = worker.snapshot
        /\ worker'.checkpoint = worker.checkpoint
        /\ worker'.lifecycle = LifecycleFor(db.projection[Subject])
    <3>1. "save_commit" \in Steps
      BY DEF Steps
    <3> HIDE DEF Steps
    <3> QED BY <1>3, <2>1, <2>2, <3>1 DEF WorkerRows
  <2>4. TypeOK'
    BY <1>2, <1>3, <2>3 DEF IInv, TypeOK
  <2>5. RefusalsExplained'
    BY <2>3 DEF RefusalsExplained
  <2>6. minute \in Keys /\ runs \in 0 .. MaxRuns /\ minute \in Int /\ runs \in Int
    BY DEF IInv, TypeOK, Keys
  <2>7. SealedOK' /\ AttemptsOK' /\ JournalTellsTruth' /\ LedgerOK' /\ HistoryOK'
    BY <1>2, <1>3, <2>3, <2>6, NothingSaved
  <2>8. WorkerOK'
    BY <1>1, <1>2, <1>3, <2>3 DEF IInv, WorkerOK, Begun, Taken
  <2> QED BY <1>2, <2>4, <2>5, <2>7, <2>8 DEF IInv
<1>4. CASE /\ worker' = Idle
           /\ journal' = [journal EXCEPT ![worker.key] =
                [worker.checkpoint EXCEPT !.phase = "FAILED", !.status = "FAILED", !.error = TRUE]]
  <2>1. worker' \in WorkerRows /\ worker'.pc = "idle" /\ worker'.refusal = Null
    BY <1>2, <1>4, IdleShape
  <2>2. RefusalsExplained'
    BY <2>1 DEF RefusalsExplained
  <2>3. PICK row : row = [worker.checkpoint EXCEPT !.phase = "FAILED", !.status = "FAILED", !.error = TRUE]
    OBVIOUS
  <2>4. /\ row \in JournalRows /\ row.attempt = worker.checkpoint.attempt
        /\ row.snapshot = worker.checkpoint.snapshot /\ row.commit = worker.checkpoint.commit
        /\ row.status # "COMMITTED"
    BY <1>1, <2>3, FailedRow
  <2> QED BY <1>1, <1>2, <1>4, <2>1, <2>2, <2>3, <2>4, RunEnds DEF Durable
<1> QED BY <1>3, <1>4 DEF RunMetrics, Return

LEMMA CompleteStep == ASSUME IInv, Complete PROVE IInv'
<1> DEFINE row == [worker.checkpoint EXCEPT !.phase = "COMPLETED", !.status = "COMMITTED",
                                            !.error = FALSE]
<1>1. /\ worker.pc = "complete" /\ journal' = [journal EXCEPT ![worker.key] = row] /\ worker' = Idle
      /\ UNCHANGED <<Durable, sealed, db>> /\ CycleAssumption
  BY DEF Complete, Return, IInv
<1>2. worker.pc \in Begun /\ worker.pc \in Taken
  BY <1>1 DEF Begun, Taken
<1>3. /\ worker.checkpoint \in JournalRows /\ worker.snapshot \in Instants
      /\ worker.checkpoint.commit = worker.snapshot
  BY <1>1, <1>2 DEF IInv, WorkerOK
<1>4. /\ row \in JournalRows /\ row.attempt = worker.checkpoint.attempt
      /\ row.snapshot = worker.checkpoint.snapshot /\ row.commit = worker.checkpoint.commit
      /\ row.phase = "COMPLETED"
  BY <1>3 DEF JournalRows
<1>5. row.commit # Null
  BY <1>1, <1>3, <1>4 DEF CycleAssumption, Instants
<1>6. worker' \in WorkerRows /\ worker'.pc = "idle" /\ worker'.refusal = Null
  BY <1>1, IdleShape
<1>7. RefusalsExplained'
  BY <1>6 DEF RefusalsExplained
<1> HIDE DEF row
<1> QED BY <1>1, <1>2, <1>4, <1>5, <1>6, <1>7, RunEnds

LEMMA BeginStep == ASSUME IInv, Begin PROVE IInv'
<1> DEFINE k == worker.key
           row == journal[k]
           begun == BegunRow(row)
<1>1. /\ worker.pc = "begin" /\ CycleAssumption
      /\ minute' = minute /\ runs' = runs /\ mode' = mode /\ lastKey' = lastKey
      /\ sealed' = sealed /\ db' = db
  BY DEF Begin, Durable, IInv
<1>2. CASE worker' = Idle /\ journal' = journal
  BY <1>1, <1>2, RunReturns DEF IInv, TypeOK
<1>3. CASE /\ ~(row # Null /\ row.status = "COMMITTED")
           /\ journal' = [journal EXCEPT ![k] = begun]
           /\ worker' = [worker EXCEPT
                  !.pc = IF begun.snapshot = Null THEN "seal" ELSE "metrics",
                  !.checkpoint = begun, !.snapshot = begun.snapshot]
  <2>1. /\ k \in Keys /\ k <= minute
        /\ worker.at = runs /\ runs \in Instants /\ worker.refusal = Null
        /\ sealed[runs] = Null /\ \A t \in Instants : sealed[t] # Null => sealed[t].key <= k
    BY <1>1 DEF IInv, WorkerOK
  <2>2. row # Null => row \in JournalRows /\ row.attempt \in Instants /\ row.attempt < runs
    BY <1>1, <2>1 DEF IInv, TypeOK, AttemptsOK, JournalRows
  <2>3. begun \in JournalRows /\ begun.status = "RUNNING" /\ begun.attempt \in Instants
        /\ begun.attempt <= runs
    <3>1. CASE row = Null
      <4>1. 1 \in Instants /\ 1 <= runs
        BY <1>1, <2>1 DEF Instants, CycleAssumption
      <4>2. begun = [phase |-> "SNAPSHOT", status |-> "RUNNING", attempt |-> 1, at |-> worker.at,
                     snapshot |-> Null, commit |-> Null, error |-> FALSE]
        BY <3>1 DEF BegunRow
      <4> HIDE DEF begun, row
      <4> QED BY <2>1, <4>1, <4>2 DEF JournalRows
    <3>2. CASE row # Null
      <4>1. row.attempt + 1 \in Instants /\ row.attempt + 1 <= runs
        <5>1. row.attempt \in Instants /\ row.attempt < runs
          BY <2>2, <3>2
        <5> QED BY <1>1, <2>1, <5>1 DEF Instants, CycleAssumption
      <4>2. begun = [row EXCEPT !.at = worker.at, !.status = "RUNNING",
                                !.attempt = @ + 1, !.error = FALSE]
        BY <3>2 DEF BegunRow
      <4> HIDE DEF begun, row
      <4> QED BY <2>1, <2>2, <3>2, <4>1, <4>2 DEF JournalRows
    <3> QED BY <3>1, <3>2
  <2>4. /\ row = Null => begun.snapshot = Null /\ begun.commit = Null
        /\ row # Null => begun.snapshot = row.snapshot /\ begun.commit = row.commit
    BY <2>2 DEF BegunRow, JournalRows
  <2>5. /\ begun.snapshot # Null =>
             /\ begun.snapshot \in Instants
             /\ sealed[begun.snapshot] # Null
             /\ sealed[begun.snapshot].key = k
             /\ sealed[begun.snapshot].disposition = "OFFICIAL"
        /\ begun.commit # Null => begun.commit = begun.snapshot /\ Commits(db, begun.commit) # {}
        /\ \A i \in DOMAIN db.ledger : CycleOf(i) = k =>
             begun.snapshot = db.ledger[i].request.snapshot
    <3>1. row # Null =>
            /\ row.snapshot # Null =>
                 /\ sealed[row.snapshot] # Null
                 /\ sealed[row.snapshot].key = k
                 /\ sealed[row.snapshot].disposition = "OFFICIAL"
            /\ row.commit # Null => row.commit = row.snapshot /\ Commits(db, row.commit) # {}
      BY <2>1 DEF IInv, JournalTellsTruth
    <3>2. \A i \in DOMAIN db.ledger : CycleOf(i) = k =>
            row # Null /\ row.snapshot = db.ledger[i].request.snapshot
      BY DEF IInv, JournalTellsTruth
    <3>3. row # Null => row.snapshot \in Instants \cup {Null}
      BY <2>2 DEF JournalRows
    <3> QED BY <2>4, <3>1, <3>2, <3>3
  <2> HIDE DEF begun, row, k
  <2>6. worker.key = k
    BY DEF k
  <2>7. /\ worker' \in WorkerRows /\ worker'.checkpoint = begun /\ worker'.snapshot = begun.snapshot
        /\ worker'.key = k /\ worker'.at = runs /\ worker'.refusal = Null
        /\ worker'.pc = IF begun.snapshot = Null THEN "seal" ELSE "metrics"
    <3>1. begun.snapshot \in Instants \cup {Null}
      BY <2>5
    <3>2. worker \in WorkerRows
      BY DEF IInv, TypeOK
    <3>3. {"seal", "metrics"} \subseteq Steps
      BY DEF Steps
    <3> HIDE DEF Steps
    <3> QED BY <1>3, <2>1, <2>3, <2>6, <3>1, <3>2, <3>3 DEF WorkerRows
  <2>8. /\ journal' \in [Keys -> JournalRows \cup {Null}] /\ journal'[k] = begun
        /\ \A j \in Keys : j # k => journal'[j] = journal[j]
    BY <1>3, <2>1, <2>3 DEF IInv, TypeOK
  <2>9. TypeOK'
    BY <1>1, <2>7, <2>8 DEF IInv, TypeOK
  <2>10. LedgerOK' /\ HistoryOK'
    BY <1>1, TablesStand
  <2>11. SealedOK'
    <3>1. minute \in Keys /\ runs \in 0 .. MaxRuns /\ minute \in Int /\ runs \in Int
      BY DEF IInv, TypeOK, Keys
    <3> QED BY <1>1, <3>1, SnapshotsStand
  <2>12. AttemptsOK'
    <3>1. worker'.pc \notin {"get", "gates", "begin"}
      BY <2>7
    <3>2. \A j \in Keys : journal[j] # Null => journal[j].attempt <= runs
      BY DEF IInv, AttemptsOK
    <3> QED BY <1>1, <2>3, <2>8, <3>1, <3>2 DEF AttemptsOK
  <2>13. JournalTellsTruth'
    <3>1. begun.status = "COMMITTED" => begun.phase = "COMPLETED" /\ begun.commit # Null
      BY <2>3
    <3> QED BY <1>1, <1>3, <2>1, <2>3, <2>5, <3>1, JournalSaved
  <2>14. RefusalsExplained'
    BY <2>7 DEF RefusalsExplained
  <2>15. WorkerOK'
    <3>1. CASE begun.snapshot = Null
      BY <1>1, <2>1, <2>3, <2>7, <2>8, <3>1 DEF WorkerOK, Begun, Taken
    <3>2. CASE begun.snapshot # Null
      BY <1>1, <2>1, <2>3, <2>5, <2>7, <2>8, <3>2 DEF WorkerOK, Begun, Taken
    <3> QED BY <3>1, <3>2
  <2> QED BY <1>1, <2>9, <2>10, <2>11, <2>12, <2>13, <2>14, <2>15 DEF IInv
<1> QED BY <1>2, <1>3 DEF Begin, Return

\* The refusals of a commit the run asks for.
LEMMA RefusalsOfCommit ==
  ASSUME IInv, worker.pc = "commit"
  PROVE  \/ CommitAnswer \in {Null, "NO_FACTS"}
         \/ CommitAnswer = "DIFFERENT_COMMIT" /\ Commits(db, worker.snapshot) # {}
<1>1. /\ Snap.disposition = "OFFICIAL" /\ Snap.subject = Subject
  BY SnapshotTaken DEF Taken, Begun
<1>2. /\ CommitRequest.snapshot = worker.snapshot /\ CommitRequest.expected = Version(db, Subject)
      /\ CommitRequest.lifecycle = LifecycleFor(db.projection[Subject])
  BY DEF CommitRequest, IInv, WorkerOK
<1>3. LegalTransition(db.projection[Subject], CommitRequest.lifecycle)
  BY <1>2, ProjectionShape
<1>4. CASE Commits(db, worker.snapshot) = {}
  <2>1. CommitAnswer = Refusal(db, Snap, CommitRequest)
    BY <1>4 DEF CommitAnswer, Snap
  <2>2. Refusal(db, Snap, CommitRequest) \in {Null, "NO_FACTS"}
    BY <1>1, <1>2, <1>3, <1>4 DEF Refusal
  <2> QED BY <2>1, <2>2
<1>5. CASE Commits(db, worker.snapshot) # {}
  BY <1>5 DEF CommitAnswer
<1> QED BY <1>4, <1>5

\* The error handler of the run.
LEMMA HandleStep ==
  ASSUME IInv, worker.pc \in Begun,
         NEW r \in {Null, "NO_FACTS", "DIFFERENT_COMMIT"}, Handle(r),
         r = "DIFFERENT_COMMIT" => Commits(db, worker.snapshot) # {}
  PROVE  IInv'
<1>1. /\ worker' = [Idle EXCEPT !.refusal = r,
                               !.snapshot = IF r = Null THEN Null ELSE worker.snapshot]
      /\ UNCHANGED <<Durable, sealed, db>>
  BY DEF Handle
<1>2. worker.snapshot \in Instants \cup {Null} /\ CycleAssumption
  BY DEF IInv, TypeOK, WorkerRows
<1>3. /\ worker' \in WorkerRows /\ worker'.pc = "idle" /\ worker'.refusal = r
      /\ r # Null => worker'.snapshot = worker.snapshot
  BY <1>1, <1>2 DEF Idle, WorkerRows
<1>4. RefusalsExplained'
  BY <1>1, <1>3 DEF RefusalsExplained
<1>5. PICK row : row = [worker.checkpoint EXCEPT !.phase = "FAILED", !.status = "FAILED", !.error = TRUE]
  OBVIOUS
<1>6. /\ row \in JournalRows /\ row.attempt = worker.checkpoint.attempt
      /\ row.snapshot = worker.checkpoint.snapshot /\ row.commit = worker.checkpoint.commit
      /\ row.status # "COMMITTED"
  BY <1>5, FailedRow
<1>7. journal' = [journal EXCEPT ![worker.key] = row] \/ journal' = journal
  BY <1>5 DEF Handle
<1> QED BY <1>1, <1>3, <1>4, <1>6, <1>7, RunEnds

LEMMA RaiseStep == ASSUME IInv, Raise PROVE IInv'
<1>1. worker.pc \in Begun /\ Handle(Null)
  BY DEF Raise, Begun
<1>2. Null # "DIFFERENT_COMMIT"
  BY StoreNullAssumption
<1> QED BY <1>1, <1>2, HandleStep

LEMMA CommitRefusedStep == ASSUME IInv, CommitRefused PROVE IInv'
<1>1. worker.pc = "commit" /\ worker.pc \in Begun
  BY DEF CommitRefused, Begun
<1>2. PICK r : r = CommitAnswer
  OBVIOUS
<1>3. Handle(r)
  BY <1>2 DEF CommitRefused
<1>4. r \in {Null, "NO_FACTS"} \/ (r = "DIFFERENT_COMMIT" /\ Commits(db, worker.snapshot) # {})
  BY <1>1, <1>2, RefusalsOfCommit
<1>5. r \in {Null, "NO_FACTS", "DIFFERENT_COMMIT"}
  BY <1>4
<1>6. r = "DIFFERENT_COMMIT" => Commits(db, worker.snapshot) # {}
  BY <1>4, StoreNullAssumption
<1> HIDE DEF Handle, IInv
<1> QED BY <1>1, <1>3, <1>5, <1>6, HandleStep

LEMMA CommitStep == ASSUME IInv, Commit PROVE IInv'
<1>1. /\ worker.pc = "commit" /\ worker.pc \in Begun /\ worker.pc \in Taken /\ CommitAnswer = Null
      /\ worker' = [worker EXCEPT !.pc = "save_outbox"]
      /\ minute' = minute /\ runs' = runs /\ mode' = mode /\ lastKey' = lastKey
      /\ sealed' = sealed /\ journal' = journal /\ CycleAssumption
  BY DEF Commit, Goto, Durable, Begun, Taken, IInv
<1>2. /\ worker' \in WorkerRows /\ worker'.pc = "save_outbox" /\ worker'.refusal = Null
      /\ worker'.key = worker.key /\ worker'.at = worker.at
      /\ worker'.checkpoint = worker.checkpoint /\ worker'.snapshot = worker.snapshot
      /\ RefusalsExplained'
  BY <1>1, RunGoesOn DEF Steps
<1>3. TypeOK'
  BY <1>1, <1>2 DEF IInv, TypeOK
<1>4. SealedOK'
  <2>1. minute \in Keys /\ runs \in 0 .. MaxRuns /\ minute \in Int /\ runs \in Int
    BY DEF IInv, TypeOK, Keys
  <2> QED BY <1>1, <2>1, SnapshotsStand
<1>5. AttemptsOK'
  BY <1>1, <1>2 DEF IInv, AttemptsOK
<1>6. /\ JournalTellsTruth' /\ LedgerOK' /\ HistoryOK' /\ Commits(db', worker.snapshot) # {}
  <2>1. CASE Commits(db, worker.snapshot) # {}
    <3>1. db' = db
      BY <2>1 DEF Commit
    <3>2. LedgerOK' /\ HistoryOK'
      BY <1>1, <3>1, TablesStand
    <3>3. JournalTellsTruth'
      BY <1>1, <3>1, JournalStands
    <3> QED BY <2>1, <3>1, <3>2, <3>3
  <2>2. CASE Commits(db, worker.snapshot) = {}
    <3>1. CommitMade
      BY <1>1, <2>2 DEF Commit, CommitMade
    <3> QED BY <3>1, LedgerKept, HistoryKept, JournalKept, CommitsGrow
  <2> QED BY <2>1, <2>2
<1>7. WorkerOK'
  BY <1>1, <1>2, <1>6 DEF IInv, WorkerOK, Begun, Taken
<1> QED BY <1>1, <1>2, <1>3, <1>4, <1>5, <1>6, <1>7 DEF IInv

-----------------------------------------------------------------------------
(***************************************************************************)
(* The strengthened invariant holds whatever the order of ticks, crashes,  *)
(* exceptions and refusals, for every number of minutes and runs.          *)
(***************************************************************************)
THEOREM Invariance == CycleAssumption /\ Spec => []IInv
<1>1. IInv /\ [Next]_vars => IInv'
  <2> SUFFICES ASSUME IInv, [Next]_vars PROVE IInv'
    OBVIOUS
  <2>1. CASE UNCHANGED vars
    <3>1. /\ minute' = minute /\ runs' = runs /\ mode' = mode /\ lastKey' = lastKey
          /\ worker' = worker /\ journal' = journal /\ sealed' = sealed /\ db' = db
      BY <2>1 DEF vars
    <3>2. TypeOK' /\ SealedOK' /\ WorkerOK' /\ AttemptsOK' /\ RefusalsExplained'
      BY <3>1 DEF IInv, TypeOK, SealedOK, WorkerOK, AttemptsOK, RefusalsExplained, Commits
    <3>3. LedgerOK' /\ HistoryOK' /\ JournalTellsTruth'
      BY <3>1, TablesStand, JournalStands
    <3> QED BY <3>2, <3>3 DEF IInv
  <2>2. CASE Tick \/ WorkerTick \/ Crash
    BY <2>2, TickStep, WorkerTickStep, CrashStep
  <2>3. CASE Get \/ Gates \/ Begin \/ SaveMetric \/ RunMetrics \/ SaveCommit
    BY <2>3, GetStep, GatesStep, BeginStep, SaveMetricStep, RunMetricsStep, SaveCommitStep
  <2>4. CASE Commit \/ SaveOutbox \/ Deliver \/ Complete \/ Raise \/ CommitRefused
    BY <2>4, CommitStep, SaveOutboxStep, DeliverStep, CompleteStep, RaiseStep, CommitRefusedStep
  <2>5. ASSUME NEW e \in Evidence, RunShadow(e) \/ SealSnapshot(e) PROVE IInv'
    BY <2>5, ShadowStep, SealStep
  <2> QED BY <2>1, <2>2, <2>3, <2>4, <2>5 DEF Next
<1> QED BY <1>1, InitInvariant, PTL DEF Spec

(***************************************************************************)
(* The journal agrees with the tables it describes, whatever died or       *)
(* raised between two steps of a run (OfficialCycleJournal and             *)
(* OfficialOrchestrator.run).                                              *)
(***************************************************************************)
THEOREM JournalTruth == CycleAssumption /\ Spec => [](TypeOK /\ JournalTellsTruth)
<1>1. IInv => TypeOK /\ JournalTellsTruth
  BY DEF IInv
<1> QED BY <1>1, Invariance, PTL

(***************************************************************************)
(* A cycle that is taken up again after a crash or a failure is not        *)
(* committed a second time, under this snapshot or another one.            *)
(***************************************************************************)
THEOREM OneCommit == CycleAssumption /\ Spec => []OneCommitPerCycle
<1>1. IInv => OneCommitPerCycle
  <2> SUFFICES ASSUME IInv, NEW i \in DOMAIN db.ledger, NEW j \in DOMAIN db.ledger,
                      CycleOf(i) = CycleOf(j)
      PROVE  i = j
    BY DEF OneCommitPerCycle
  <2>1. db.ledger[i].request.snapshot = db.ledger[j].request.snapshot
    BY DEF IInv, JournalTellsTruth
  <2>2. /\ Len(db.ledger) \in Nat /\ DOMAIN db.ledger = 1 .. Len(db.ledger)
        /\ db.ledger[i].request.snapshot \in Instants /\ db.ledger[j].request.snapshot \in Instants
    BY LedgerShape DEF IInv
  <2>3. Ordered(db.ledger)
    BY DEF IInv, LedgerOK
  <2> QED BY <2>1, <2>2, <2>3 DEF Ordered, Instants
<1> QED BY <1>1, Invariance, PTL

(***************************************************************************)
(* The Analysis Commit refuses the one worker only for lack of facts or    *)
(* because the snapshot has a commit already: never for the version it     *)
(* read just before, never for the lifecycle _lifecycle_for chose.         *)
(***************************************************************************)
THEOREM Refused == CycleAssumption /\ Spec => []RefusalsExplained
<1>1. IInv => RefusalsExplained
  BY DEF IInv
<1> QED BY <1>1, Invariance, PTL

(***************************************************************************)
(* Together: whatever died or raised, the journal agrees with the tables,  *)
(* a cycle is committed at most once and no commit is refused by surprise. *)
(***************************************************************************)
THEOREM SoundJournal == CycleAssumption /\ Spec => []JournalSound
BY JournalTruth, OneCommit, Refused, PTL DEF JournalSound

-----------------------------------------------------------------------------
\* The rebuilt state projection is the live one.
LEMMA ProjectionRebuilt ==
  ASSUME IInv, NEW u \in Subjects
  PROVE  RebuiltProjection(db, u) = db.projection[u]
<1> DEFINE l == db.ledger
           rows == Rows(db, u)
           own == {i \in DOMAIN l : l[i].subject = u}
<1>1. /\ Len(l) \in Nat /\ DOMAIN l = 1 .. Len(l)
      /\ \A i \in DOMAIN l : /\ l[i].subject = Subject /\ l[i].request \in CycleRequests
                             /\ l[i].request.snapshot \in Instants
  BY LedgerShape DEF IInv
<1>2. rows = {l[i] : i \in own}
  BY DEF Rows
<1>3. db.projection[u] = IF u = Subject /\ l # << >> THEN LastRow(l) ELSE Null
  BY DEF IInv, LedgerOK, Projected
<1>4. l = << >> <=> Len(l) = 0
  <2>1. l \in Seq(Recorded)
    BY DEF IInv, LedgerOK
  <2> HIDE DEF l
  <2> QED BY <2>1, EmptySeq
<1>5. CASE u # Subject \/ l = << >>
  <2>1. own = {}
    BY <1>1, <1>4, <1>5
  <2>2. rows = {}
    BY <1>2, <2>1
  <2> HIDE DEF rows, l, own
  <2> QED BY <1>3, <1>5, <2>2 DEF RebuiltProjection, rows
<1>6. CASE u = Subject /\ l # << >>
  <2>0. PICK n \in Nat : n = Len(l)
    BY <1>1
  <2>1. n \in DOMAIN l /\ own = 1 .. n /\ n \in Nat /\ n \in 1 .. n
    BY <1>1, <1>4, <1>6, <2>0
  <2>2. \A i \in 1 .. n : /\ l[i].request.availability = "AVAILABLE"
                          /\ l[i].request.snapshot \in Int
    BY <1>1, <2>0 DEF CycleRequests, Instants
  <2>3. \A i \in 1 .. n : i < n => l[i].request.snapshot < l[n].request.snapshot
    BY <2>0, <2>1 DEF IInv, LedgerOK, Ordered
  <2>4. l[n] \in rows /\ rows # {} /\ \A r \in rows : \E i \in 1 .. n : r = l[i]
    <3>1. rows = {l[i] : i \in 1 .. n}
      BY <1>2, <2>1
    <3> HIDE DEF rows, l, own
    <3> QED BY <2>1, <3>1
  <2>5. \A r \in rows : r.request.snapshot <= l[n].request.snapshot
    <3> SUFFICES ASSUME NEW i \in 1 .. n PROVE l[i].request.snapshot <= l[n].request.snapshot
      BY <2>4
    <3>1. CASE i = n
      BY <2>2, <3>1
    <3>2. CASE i < n
      BY <2>1, <2>2, <2>3, <3>2
    <3> QED BY <2>1, <3>1, <3>2
  <2>6. \A r \in rows : l[n].request.snapshot <= r.request.snapshot => r = l[n]
    <3> SUFFICES ASSUME NEW i \in 1 .. n, l[n].request.snapshot <= l[i].request.snapshot
        PROVE  i = n
      BY <2>4
    <3> QED BY <2>1, <2>2, <2>3
  <2> HIDE DEF rows, l, own
  <2>7. Newest(rows) = l[n]
    <3>1. \E r \in rows : \A q \in rows : q.request.snapshot <= r.request.snapshot
      BY <2>4, <2>5
    <3>2. PICK m : m = Newest(rows)
      OBVIOUS
    <3>3. m \in rows /\ \A q \in rows : q.request.snapshot <= m.request.snapshot
      BY <3>1, <3>2 DEF Newest
    <3>4. m = l[n]
      BY <2>4, <2>6, <3>3
    <3> QED BY <3>2, <3>4
  <2>8. {r \in rows : r.request.availability = "AVAILABLE"} = rows
    BY <2>2, <2>4
  <2>9. Cardinality(own) = n
    <3>1. Cardinality(1 .. n) = n
      BY <2>1, FS_Interval
    <3> QED BY <2>1, <3>1
  <2>10. RebuiltProjection(db, u) =
           [availability |-> l[n].request.availability, effective |-> l[n].request.lifecycle,
            lastValid |-> l[n].request.lifecycle, lastValidAt |-> l[n].request.snapshot,
            evaluation |-> l[n].request.snapshot, version |-> n]
    BY <2>4, <2>7, <2>8, <2>9 DEF RebuiltProjection, rows, own, l
  <2>11. l[n].request.availability = "AVAILABLE"
    BY <2>1, <2>2
  <2>12. LastRow(l) =
           [availability |-> "AVAILABLE", effective |-> l[n].request.lifecycle,
            lastValid |-> l[n].request.lifecycle, lastValidAt |-> l[n].request.snapshot,
            evaluation |-> l[n].request.snapshot, version |-> n]
    BY <2>0 DEF LastRow
  <2> QED BY <1>3, <1>6, <2>10, <2>11, <2>12
<1> QED BY <1>5, <1>6

\* The rebuilt event of a key is the live one.
LEMMA EventRebuilt ==
  ASSUME IInv, NEW u \in Subjects, NEW k \in Kinds
  PROVE  RebuiltEvent(db, u, k) = db.current[u, k]
<1> DEFINE rows == OfKey(db.versions, u, k)
           c == db.current[u, k]
<1>1. /\ rows \subseteq EventVersions /\ CurrentIs(c, db.versions, u, k)
  BY DEF IInv, HistoryOK, OfKey
<1>2. \A v \in EventVersions : v.commit \in Int /\ v.version \in Int
  BY DEF EventVersions
<1>3. RebuiltEvent(db, u, k) =
        IF rows = {} THEN Null
        ELSE CHOOSE v \in rows : \A w \in rows :
               w.commit < v.commit \/ (w.commit = v.commit /\ w.version <= v.version)
  BY DEF RebuiltEvent, OfKey
<1>4. CASE rows = {}
  BY <1>1, <1>3, <1>4 DEF CurrentIs
<1>5. CASE rows # {}
  <2>1. c \in rows /\ \A w \in rows \ {c} : w.commit < c.commit
    BY <1>1, <1>5 DEF CurrentIs
  <2> HIDE DEF rows, c
  <2>2. \A w \in rows : w.commit < c.commit \/ (w.commit = c.commit /\ w.version <= c.version)
    BY <1>1, <1>2, <2>1
  <2>3. \A v \in rows :
          (\A w \in rows : w.commit < v.commit \/ (w.commit = v.commit /\ w.version <= v.version))
            => v = c
    BY <1>1, <1>2, <2>1
  <2>4. PICK m : m = CHOOSE v \in rows : \A w \in rows :
          w.commit < v.commit \/ (w.commit = v.commit /\ w.version <= v.version)
    OBVIOUS
  <2>5. m \in rows /\ \A w \in rows :
          w.commit < m.commit \/ (w.commit = m.commit /\ w.version <= m.version)
    BY <2>1, <2>2, <2>4
  <2>6. m = c
    BY <2>3, <2>5
  <2> QED BY <1>3, <1>5, <2>4, <2>6 DEF c
<1> QED BY <1>4, <1>5

(***************************************************************************)
(* The projections _STATE_REBUILD_SQL and _EVENT_REBUILD_SQL rebuild from  *)
(* the append-only history are the live ones at every moment: a restore    *)
(* loses and reverses nothing the cycle committed.                         *)
(***************************************************************************)
THEOREM FaithfulRebuild == CycleAssumption /\ Spec => []RebuildIsFaithful
<1>1. IInv => RebuildIsFaithful
  BY ProjectionRebuilt, EventRebuilt DEF RebuildIsFaithful
<1> QED BY <1>1, Invariance, PTL

-----------------------------------------------------------------------------
\* No step touches the row or the commit of a COMMITTED cycle.
LEMMA CompletedStep ==
  ASSUME IInv, Next
  PROVE  CompletedStays
<1> SUFFICES ASSUME NEW k \in Keys, journal[k] # Null, journal[k].status = "COMMITTED"
    PROVE  /\ journal'[k] = journal[k]
           /\ Commits(db', journal[k].snapshot) = Commits(db, journal[k].snapshot)
  BY DEF CompletedStays
<1>1. journal \in [Keys -> JournalRows \cup {Null}]
  BY DEF IInv, TypeOK
<1>2. worker.pc \in Begun => worker.key # k /\ worker.key \in Keys
  BY RowUnderRun
<1>3. CASE \/ Tick \/ WorkerTick \/ Crash \/ Get \/ Gates \/ Deliver
           \/ \E e \in Evidence : RunShadow(e) \/ SealSnapshot(e)
  <2>1. journal' = journal /\ db' = db
    BY <1>3 DEF Tick, WorkerTick, Crash, Get, Gates, Deliver, RunShadow, SealSnapshot
  <2> QED BY <2>1
<1>4. CASE Begin
  <2>1. db' = db
    BY <1>4 DEF Begin
  <2>2. CASE worker.key = k
    BY <1>4, <2>1, <2>2 DEF Begin
  <2>3. CASE worker.key # k
    <3>1. journal' = journal \/ journal' = [journal EXCEPT ![worker.key] = BegunRow(journal[worker.key])]
      BY <1>4 DEF Begin
    <3> QED BY <1>1, <2>1, <2>3, <3>1
  <2> QED BY <2>2, <2>3
<1>5. ASSUME worker.pc \in Begun, db' = db, NEW row,
             journal' = journal \/ journal' = [journal EXCEPT ![worker.key] = row]
      PROVE  /\ journal'[k] = journal[k]
             /\ Commits(db', journal[k].snapshot) = Commits(db, journal[k].snapshot)
  BY <1>1, <1>2, <1>5
<1>6. CASE SaveMetric \/ SaveCommit \/ SaveOutbox
  <2>1. worker.pc \in Begun /\ db' = db
    BY <1>6 DEF SaveMetric, SaveCommit, SaveOutbox, Save, Begun
  <2>2. PICK row : journal' = [journal EXCEPT ![worker.key] = row]
    BY <1>6 DEF SaveMetric, SaveCommit, SaveOutbox, Save
  <2> QED BY <1>5, <2>1, <2>2
<1>7. CASE RunMetrics \/ Complete
  <2>1. worker.pc \in Begun /\ db' = db
    BY <1>7 DEF RunMetrics, Complete, Begun
  <2>2. \E row : journal' = journal \/ journal' = [journal EXCEPT ![worker.key] = row]
    BY <1>7 DEF RunMetrics, Complete
  <2> QED BY <1>5, <2>1, <2>2
<1>8. CASE Raise \/ CommitRefused
  <2>1. worker.pc \in Begun /\ db' = db
    BY <1>8 DEF Raise, CommitRefused, Handle, Begun
  <2>2. \E row : journal' = journal \/ journal' = [journal EXCEPT ![worker.key] = row]
    BY <1>8 DEF Raise, CommitRefused, Handle
  <2> QED BY <1>5, <2>1, <2>2
<1>9. CASE Commit
  <2>1. worker.pc \in Begun /\ worker.pc \in Taken /\ journal' = journal
    BY <1>9 DEF Commit, Begun, Taken
  <2>2. CASE Commits(db, worker.snapshot) # {}
    BY <1>9, <2>1, <2>2 DEF Commit
  <2>3. CASE Commits(db, worker.snapshot) = {}
    <3>1. CommitMade
      BY <1>9, <2>3 DEF Commit, CommitMade
    <3>2. sealed[worker.snapshot].key = worker.key
      BY <2>1, SnapshotTaken DEF Snap
    <3>3. /\ journal[k].commit # Null /\ journal[k].commit = journal[k].snapshot
          /\ journal[k].snapshot # Null => sealed[journal[k].snapshot].key = k
      BY DEF IInv, JournalTellsTruth
    <3>4. journal[k].snapshot # worker.snapshot
      BY <1>2, <2>1, <3>2, <3>3
    <3> QED BY <2>1, <3>1, <3>4, CommitsGrow
  <2> QED BY <2>2, <2>3
<1> QED BY <1>3, <1>4, <1>6, <1>7, <1>8, <1>9 DEF Next

(***************************************************************************)
(* A cycle once COMMITTED stays so: no later run, failure or restart       *)
(* touches its journal row or commits for it again.                        *)
(***************************************************************************)
THEOREM CompletedFinal == CycleAssumption /\ Spec => CompletedIsFinal
<1>1. IInv /\ [Next]_vars => [CompletedStays]_vars
  BY CompletedStep
<1> QED BY <1>1, Invariance, PTL DEF Spec, CompletedIsFinal
=============================================================================
