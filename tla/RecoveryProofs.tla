--------------------------- MODULE RecoveryProofs ---------------------------
(***************************************************************************)
(* Proofs, for any epochs, report validity and number of restores, that a  *)
(* QUOTES watermark names a stored quote, that only a restore moves one    *)
(* back, and that recovery ends on evidence newer than the restore; for    *)
(* any history, that the loader which fills the store again earns what it  *)
(* reports; and, for any universe, that the sweep which goes on from there *)
(* does.                                                                   *)
(***************************************************************************)
EXTENDS DataParts, WellFoundedInduction, FiniteSetTheorems, SequenceTheorems, TLAPS

Quotes == [source : Int, received : Int]
Marks == [event : Int, received : Int, rewarm : BOOLEAN]
Reports == [at : Int, ok : BOOLEAN]
Projections == [epoch : Epoch \cup {None}, at : Int, rewarm : BOOLEAN]

\* The shapes of the rows and of the metadata.
Shapes ==
  /\ clock \in 0 .. MaxTime
  /\ status \in [Epoch -> {"unused", "ACTIVE", "RETIRED"}]
  /\ quotes \in [Epoch -> SUBSET Quotes]
  /\ mark \in [Feed -> Marks]
  /\ report \in [Feed -> Reports]
  /\ projection \in Projections
  /\ projection.at # None => projection.epoch \in Epoch
  /\ state \in {"NORMAL", "RECOVERING"} /\ started \in Int
  /\ session \in {"none", "active", "expired", "revoked"}
  /\ restores \in Nat

\* Nothing is dated in the future, and a watermark that is absent wants no rewarm.
DatesOK ==
  /\ \A e \in Epoch : \A q \in quotes[e] : q.source \in 0 .. clock \cup {None}
  /\ \A e \in Epoch : \A q \in quotes[e] : q.received \in 0 .. clock
  /\ \A x \in Feed : mark[x].event = None => ~mark[x].rewarm
  /\ projection.at \in 0 .. clock \cup {None} /\ started \in 0 .. clock \cup {None}

OneActive == \A e, f \in Epoch : status[e] = "ACTIVE" /\ status[f] = "ACTIVE" => e = f

IInv == Shapes /\ DatesOK /\ OneActive /\ MarkNamesQuote

-----------------------------------------------------------------------------
\* A set of naturals has a least element: from the well-foundedness of < on Nat.
LEMMA Least ==
  ASSUME NEW T, T \subseteq Nat, T # {}
  PROVE  \E m \in T : \A n \in T : m <= n
<1>1. \E x \in T : \A y \in T : ~ (<<y, x>> \in OpToRel(<, Nat))
  BY NatLessThanWellFounded, WFMin
<1>2. PICK m \in T : \A y \in T : ~ (<<y, m>> \in OpToRel(<, Nat))
  BY <1>1
<1>3. \A y \in T : ~(y < m)
  BY <1>2 DEF OpToRel
<1> QED BY <1>3

\* A set of integers with an upper bound has a greatest element.
LEMMA Greatest ==
  ASSUME NEW b \in Int, NEW T, T # {}, \A n \in T : n \in Int /\ n <= b
  PROVE  \E m \in T : \A n \in T : n <= m
<1> DEFINE D == {b - n : n \in T}
<1>1. D \subseteq Nat /\ D # {}
  OBVIOUS
<1>2. PICK d \in D : \A e \in D : d <= e
  BY <1>1, Least
<1>3. PICK m \in T : d = b - m
  OBVIOUS
<1>4. \A n \in T : b - n \in D
  OBVIOUS
<1>5. \A n \in T : d <= b - n
  BY <1>2, <1>4
<1> HIDE DEF D
<1> QED BY <1>3, <1>5

\* The rebuild of recovery.py sorts the stamped quotes by source time and then by arrival: there
\* is a first one, and the rebuilt watermark is that quote.
LEMMA RebuildNamesQuote ==
  ASSUME NEW at \in Int, NEW qs \in SUBSET Quotes,
         \A q \in qs : q.source \in 0 .. at \cup {None} /\ q.received \in 0 .. at
  PROVE  /\ RebuildOf(qs) \in Marks /\ ~RebuildOf(qs).rewarm
         /\ RebuildOf(qs).event # None =>
              \E q \in qs : q.source = RebuildOf(qs).event /\ q.received = RebuildOf(qs).received
<1> USE DEF None
<1> DEFINE stamped == {q \in qs : q.source # None}
           Order(p, q) == p.source < q.source \/ (p.source = q.source /\ p.received <= q.received)
           first == CHOOSE q \in stamped : \A p \in stamped : Order(p, q)
<1>1. CASE stamped = {}
  BY <1>1 DEF RebuildOf, NoMark, Marks
<1>2. CASE stamped # {}
  <2>1. PICK s \in {q.source : q \in stamped} : \A t \in {q.source : q \in stamped} : t <= s
    <3>1. {q.source : q \in stamped} # {} /\ \A t \in {q.source : q \in stamped} : t \in Int /\ t <= at
      BY <1>2
    <3> HIDE DEF stamped
    <3> QED BY <3>1, Greatest
  <2> DEFINE last == {q \in stamped : q.source = s}
  <2>2. PICK r \in {q.received : q \in last} : \A t \in {q.received : q \in last} : t <= r
    <3>1. {q.received : q \in last} # {} /\ \A t \in {q.received : q \in last} : t \in Int /\ t <= at
      BY <2>1
    <3> HIDE DEF last
    <3> QED BY <3>1, Greatest
  <2>3. PICK q \in last : q.received = r
    OBVIOUS
  <2>4. \A p \in stamped : p.source \in Int /\ p.received \in Int /\ p.source <= s
    BY <2>1
  <2>5. \A p \in last : p.received <= r
    BY <2>2
  <2>6. q \in stamped /\ \A p \in stamped : Order(p, q)
    BY <2>3, <2>4, <2>5
  <2>7. first \in stamped
    <3> HIDE DEF stamped, Order
    <3> QED BY <2>6
  <2>8. RebuildOf(qs) = [event |-> first.source, received |-> first.received, rewarm |-> FALSE]
    BY <1>2 DEF RebuildOf
  <2> HIDE DEF first
  <2> QED BY <2>7, <2>8 DEF Marks
<1> QED BY <1>1, <1>2

LEMMA QuotesFeed == \A e \in Epoch : <<e, "QUOTES">> \in Feed
BY DEF Feed, Capability

\* advance is called with times that have passed, never without one.
LEMMA ToldOfThePast ==
  ASSUME Shapes, DatesOK, NEW e \in Epoch, NEW c \in Capability, NEW w \in Told(e, c)
  PROVE  w.event \in 0 .. clock /\ w.received \in 0 .. clock /\ w.event # None
<1>1. CASE c = "QUOTES"
  <2>1. PICK q \in quotes[e] : q.source # None /\ w = [event |-> q.source, received |-> q.received]
    BY <1>1 DEF Told
  <2> QED BY <2>1 DEF DatesOK
<1>2. CASE c # "QUOTES"
  <2>1. PICK bar \in 0 .. clock : w = [event |-> bar, received |-> clock]
    BY <1>2 DEF Told
  <2> QED BY <2>1 DEF Shapes, None
<1> QED BY <1>1, <1>2

\* Every action keeps the shapes of the rows and of the metadata.
LEMMA ShapesStep == ASSUME IInv, Next PROVE Shapes'
<1> USE RecoveryAssumption DEF None
<1>1. Shapes /\ DatesOK
  BY DEF IInv
<1>2. CASE Tick
  BY <1>1, <1>2 DEF Tick, Mode, Counters, Shapes
<1>3. ASSUME NEW e \in Epoch, StartEpoch(e) PROVE Shapes'
  <2>1. mark' \in [Feed -> Marks]
    <3>1. \A x \in Feed : mark[x] \in Marks /\ [mark[x] EXCEPT !.rewarm = TRUE] \in Marks
      BY <1>1 DEF Shapes, Marks
    <3> QED BY <1>3, <3>1 DEF StartEpoch
  <2>2. status' \in [Epoch -> {"unused", "ACTIVE", "RETIRED"}]
    BY <1>1, <1>3 DEF StartEpoch, Shapes
  <2>3. UNCHANGED <<clock, quotes, report, projection, state, started, session, restores>>
    BY <1>3 DEF StartEpoch, Mode, Counters
  <2> QED BY <1>1, <2>1, <2>2, <2>3 DEF Shapes
<1>4. ASSUME NEW e \in Epoch, IngestQuote(e) PROVE Shapes'
  <2>1. PICK source \in Int : quotes' = [quotes EXCEPT ![e] = quotes[e] \cup {[source |-> source, received |-> clock]}]
    <3>1. \A source \in SourceTimes : source \in Int
      BY <1>1 DEF Shapes, SourceTimes
    <3> QED BY <1>4, <3>1 DEF IngestQuote
  <2>2. quotes' \in [Epoch -> SUBSET Quotes]
    BY <1>1, <2>1 DEF Shapes, Quotes
  <2> QED BY <1>1, <1>4, <2>2 DEF IngestQuote, Mode, Counters, Shapes
<1>5. ASSUME NEW e \in Epoch, NEW c \in Capability, AdvanceWatermark(e, c) PROVE Shapes'
  <2>1. PICK w \in Told(e, c) :
           mark' = [mark EXCEPT ![<<e, c>>].event = w.event, ![<<e, c>>].received = w.received]
    BY <1>5 DEF AdvanceWatermark
  <2>2. w.event \in Int /\ w.received \in Int
    BY <1>1, ToldOfThePast
  <2>3. mark' \in [Feed -> Marks]
    BY <1>1, <2>1, <2>2 DEF Shapes, Marks
  <2> QED BY <1>1, <1>5, <2>3 DEF AdvanceWatermark, Mode, Counters, Shapes
<1>6. ASSUME NEW e \in Epoch, NEW c \in Capability, NEW ok \in BOOLEAN, RecordHealth(e, c, ok) PROVE Shapes'
  <2>1. report' \in [Feed -> Reports]
    <3>1. [at |-> clock, ok |-> ok] \in Reports /\ report \in [Feed -> Reports]
      BY <1>1 DEF Shapes, Reports
    <3> QED BY <1>6, <3>1 DEF RecordHealth
  <2> QED BY <1>1, <1>6, <2>1 DEF RecordHealth, Mode, Counters, Shapes
<1>7. ASSUME NEW e \in Epoch, NEW warming \in BOOLEAN, Commit(e, warming) PROVE Shapes'
  <2>1. clock \in Int
    BY <1>1 DEF Shapes
  <2>2. projection' \in Projections /\ projection'.epoch \in Epoch
    BY <1>7, <2>1 DEF Commit, Projections
  <2>3. UNCHANGED <<clock, status, quotes, mark, report, state, started, session, restores>>
    BY <1>7 DEF Commit, Mode
  <2> QED BY <1>1, <2>2, <2>3 DEF Shapes
<1>8. CASE Login
  BY <1>1, <1>8 DEF Login, Data, Shapes
<1>9. CASE Expire
  BY <1>1, <1>9 DEF Expire, Data, Counters, Shapes
<1>10. CASE Logout
  BY <1>1, <1>10 DEF Logout, Data, Counters, Shapes
<1>11. CASE Restore
  <2>1. \A e \in Epoch : RebuildOf(quotes[e]) \in Marks
    BY <1>1, RebuildNamesQuote DEF Shapes, DatesOK
  <2>2. mark' \in [Feed -> Marks]
    <3>1. \A e \in Epoch : Rebuilt(e) \in Marks
      BY <2>1 DEF Rebuilt, Marks
    <3>2. \A x \in Feed : (IF x[2] = "QUOTES" THEN Rebuilt(x[1]) ELSE NoMark) \in Marks
      BY <3>1 DEF Feed, NoMark, Marks
    <3> QED BY <1>11, <3>2 DEF Restore
  <2>3. projection' = [projection EXCEPT !.rewarm = (projection.at # None)]
    BY <1>11 DEF Restore
  <2>4. /\ projection' \in Projections
        /\ projection'.at # None => projection'.epoch \in Epoch
    BY <1>1, <2>3 DEF Shapes, Projections
  <2>5. /\ clock' \in 0 .. MaxTime /\ state' \in {"NORMAL", "RECOVERING"} /\ started' \in Int
        /\ session' \in {"none", "active", "expired", "revoked"} /\ restores' \in Nat
        /\ UNCHANGED <<status, quotes, report>>
    BY <1>1, <1>11 DEF Restore, Shapes
  <2> QED BY <1>1, <2>2, <2>4, <2>5 DEF Shapes
<1>12. CASE StartCompletion
  BY <1>1, <1>12 DEF StartCompletion, Counters, Shapes
<1>13. CASE CompleteRecovery
  <2>1. mark' \in [Feed -> Marks]
    <3>1. \A x \in Feed : mark[x] \in Marks /\ [mark[x] EXCEPT !.rewarm = FALSE] \in Marks
      BY <1>1 DEF Shapes, Marks
    <3> QED BY <1>13, <3>1 DEF CompleteRecovery
  <2>2. state' \in {"NORMAL", "RECOVERING"}
    BY <1>1, <1>13 DEF CompleteRecovery, Shapes
  <2>3. UNCHANGED <<clock, status, quotes, report, projection, started, session, restores>>
    BY <1>13 DEF CompleteRecovery, Counters
  <2> QED BY <1>1, <2>1, <2>2, <2>3 DEF Shapes
<1> QED BY <1>2, <1>3, <1>4, <1>5, <1>6, <1>7, <1>8, <1>9, <1>10, <1>11, <1>12, <1>13 DEF Next

\* Rows are dated with the time of their writing, and a rewarm is asked only of a watermark that is there.
LEMMA DatesStep == ASSUME IInv, Next PROVE DatesOK'
<1> USE RecoveryAssumption DEF None
<1>1. Shapes /\ DatesOK
  BY DEF IInv
<1>2. CASE Tick
  BY <1>1, <1>2 DEF Tick, Mode, Counters, DatesOK, Shapes
<1>3. ASSUME NEW e \in Epoch, StartEpoch(e) PROVE DatesOK'
  <2>1. \A x \in Feed : mark'[x].event = mark[x].event /\ (mark'[x].rewarm => mark[x].rewarm \/ mark[x].event # None)
    BY <1>1, <1>3 DEF StartEpoch, Shapes, Marks
  <2>2. UNCHANGED <<clock, quotes, projection, started>>
    BY <1>3 DEF StartEpoch, Mode, Counters
  <2> QED BY <1>1, <2>1, <2>2 DEF DatesOK
<1>4. ASSUME NEW e \in Epoch, IngestQuote(e) PROVE DatesOK'
  <2>1. PICK source \in 0 .. clock \cup {None} :
           quotes' = [quotes EXCEPT ![e] = quotes[e] \cup {[source |-> source, received |-> clock]}]
    <3>1. SourceTimes \subseteq 0 .. clock \cup {None}
      BY <1>1 DEF Shapes, SourceTimes
    <3> QED BY <1>4, <3>1 DEF IngestQuote
  <2>2. \A f \in Epoch : \A q \in quotes'[f] :
           q \in quotes[f] \/ q = [source |-> source, received |-> clock]
    BY <1>1, <2>1 DEF Shapes
  <2>3. UNCHANGED <<clock, mark, projection, started>>
    BY <1>4 DEF IngestQuote, Mode, Counters
  <2>4. clock \in 0 .. clock
    BY <1>1 DEF Shapes
  <2>5. ASSUME NEW f \in Epoch, NEW q \in quotes'[f]
        PROVE  q.source \in 0 .. clock \cup {None} /\ q.received \in 0 .. clock
    BY <1>1, <2>2, <2>4 DEF DatesOK
  <2> QED BY <1>1, <2>3, <2>5 DEF DatesOK
<1>5. ASSUME NEW e \in Epoch, NEW c \in Capability, AdvanceWatermark(e, c) PROVE DatesOK'
  <2>1. PICK w \in Told(e, c) :
           mark' = [mark EXCEPT ![<<e, c>>].event = w.event, ![<<e, c>>].received = w.received]
    BY <1>5 DEF AdvanceWatermark
  <2>2. w.event # None
    BY <1>1, ToldOfThePast
  <2>3. \A x \in Feed : mark'[x].event = None => mark[x].event = None /\ mark'[x].rewarm = mark[x].rewarm
    BY <1>1, <2>1, <2>2 DEF Shapes, Marks
  <2>4. UNCHANGED <<clock, quotes, projection, started>>
    BY <1>5 DEF AdvanceWatermark, Mode, Counters
  <2> QED BY <1>1, <2>3, <2>4 DEF DatesOK
<1>6. ASSUME NEW e \in Epoch, NEW c \in Capability, NEW ok \in BOOLEAN, RecordHealth(e, c, ok) PROVE DatesOK'
  <2>1. UNCHANGED <<clock, quotes, mark, projection, started>>
    BY <1>6 DEF RecordHealth, Mode, Counters
  <2> QED BY <1>1, <2>1 DEF DatesOK
<1>7. ASSUME NEW e \in Epoch, NEW warming \in BOOLEAN, Commit(e, warming) PROVE DatesOK'
  <2>1. projection'.at = clock /\ clock \in 0 .. clock /\ UNCHANGED <<clock, quotes, mark, started>>
    BY <1>1, <1>7 DEF Commit, Mode, Shapes
  <2> QED BY <1>1, <2>1 DEF DatesOK
<1>8. CASE Login
  <2>1. UNCHANGED <<clock, quotes, mark, projection, started>>
    BY <1>8 DEF Login, Data
  <2> QED BY <1>1, <2>1 DEF DatesOK
<1>9. CASE Expire
  <2>1. UNCHANGED <<clock, quotes, mark, projection, started>>
    BY <1>9 DEF Expire, Data, Counters
  <2> QED BY <1>1, <2>1 DEF DatesOK
<1>10. CASE Logout
  <2>1. UNCHANGED <<clock, quotes, mark, projection, started>>
    BY <1>10 DEF Logout, Data, Counters
  <2> QED BY <1>1, <2>1 DEF DatesOK
<1>11. CASE Restore
  <2>1. \A e \in Epoch : RebuildOf(quotes[e]) \in Marks
    BY <1>1, RebuildNamesQuote DEF Shapes, DatesOK
  <2>2. ASSUME NEW x \in Feed, mark'[x].event = None PROVE ~mark'[x].rewarm
    <3>1. mark'[x] = IF x[2] = "QUOTES" THEN Rebuilt(x[1]) ELSE NoMark
      BY <1>11 DEF Restore
    <3>2. x[1] \in Epoch
      BY DEF Feed
    <3>3. /\ Rebuilt(x[1]).event = RebuildOf(quotes[x[1]]).event
          /\ Rebuilt(x[1]).rewarm = (x[1] \in Active /\ RebuildOf(quotes[x[1]]).event # None)
      BY <2>1, <3>2 DEF Rebuilt, Marks
    <3>4. CASE x[2] = "QUOTES"
      BY <2>2, <3>1, <3>3, <3>4
    <3>5. CASE x[2] # "QUOTES"
      BY <3>1, <3>5 DEF NoMark
    <3> QED BY <3>4, <3>5
  <2>3. projection'.at = projection.at /\ started' = clock /\ UNCHANGED <<clock, quotes>>
    BY <1>1, <1>11 DEF Restore, Shapes, Projections
  <2>4. clock \in 0 .. clock
    BY <1>1 DEF Shapes
  <2> QED BY <1>1, <2>2, <2>3, <2>4 DEF DatesOK
<1>12. CASE StartCompletion
  <2>1. UNCHANGED <<clock, quotes, mark, projection, started>>
    BY <1>12 DEF StartCompletion, Counters
  <2> QED BY <1>1, <2>1 DEF DatesOK
<1>13. CASE CompleteRecovery
  <2>1. \A x \in Feed : mark'[x].event = mark[x].event /\ (mark'[x].rewarm => mark[x].rewarm)
    BY <1>1, <1>13 DEF CompleteRecovery, Shapes, Marks
  <2>2. UNCHANGED <<clock, quotes, projection, started>>
    BY <1>13 DEF CompleteRecovery, Counters
  <2> QED BY <1>1, <2>1, <2>2 DEF DatesOK
<1> QED BY <1>2, <1>3, <1>4, <1>5, <1>6, <1>7, <1>8, <1>9, <1>10, <1>11, <1>12, <1>13 DEF Next

\* start_epoch retires the active epoch in the transaction that makes the new one.
LEMMA ActiveStep == ASSUME IInv, Next PROVE OneActive'
<1>1. Shapes /\ OneActive
  BY DEF IInv
<1>2. CASE Tick
  <2>1. UNCHANGED status
    BY <1>2 DEF Tick, Mode, Counters
  <2> QED BY <1>1, <2>1 DEF OneActive
<1>3. ASSUME NEW e \in Epoch, StartEpoch(e) PROVE OneActive'
  <2>1. \A f \in Epoch : status'[f] = "ACTIVE" => f = e
    BY <1>1, <1>3 DEF StartEpoch, Shapes
  <2> QED BY <2>1 DEF OneActive
<1>4. ASSUME NEW e \in Epoch, IngestQuote(e) PROVE OneActive'
  <2>1. UNCHANGED status
    BY <1>4 DEF IngestQuote, Mode, Counters
  <2> QED BY <1>1, <2>1 DEF OneActive
<1>5. ASSUME NEW e \in Epoch, NEW c \in Capability, AdvanceWatermark(e, c) PROVE OneActive'
  <2>1. UNCHANGED status
    BY <1>5 DEF AdvanceWatermark, Mode, Counters
  <2> QED BY <1>1, <2>1 DEF OneActive
<1>6. ASSUME NEW e \in Epoch, NEW c \in Capability, NEW ok \in BOOLEAN, RecordHealth(e, c, ok) PROVE OneActive'
  <2>1. UNCHANGED status
    BY <1>6 DEF RecordHealth, Mode, Counters
  <2> QED BY <1>1, <2>1 DEF OneActive
<1>7. ASSUME NEW e \in Epoch, NEW warming \in BOOLEAN, Commit(e, warming) PROVE OneActive'
  <2>1. UNCHANGED status
    BY <1>7 DEF Commit, Mode
  <2> QED BY <1>1, <2>1 DEF OneActive
<1>8. CASE Login
  <2>1. UNCHANGED status
    BY <1>8 DEF Login, Data
  <2> QED BY <1>1, <2>1 DEF OneActive
<1>9. CASE Expire
  <2>1. UNCHANGED status
    BY <1>9 DEF Expire, Data, Counters
  <2> QED BY <1>1, <2>1 DEF OneActive
<1>10. CASE Logout
  <2>1. UNCHANGED status
    BY <1>10 DEF Logout, Data, Counters
  <2> QED BY <1>1, <2>1 DEF OneActive
<1>11. CASE Restore
  <2>1. UNCHANGED status
    BY <1>11 DEF Restore
  <2> QED BY <1>1, <2>1 DEF OneActive
<1>12. CASE StartCompletion
  <2>1. UNCHANGED status
    BY <1>12 DEF StartCompletion, Counters
  <2> QED BY <1>1, <2>1 DEF OneActive
<1>13. CASE CompleteRecovery
  <2>1. UNCHANGED status
    BY <1>13 DEF CompleteRecovery, Counters
  <2> QED BY <1>1, <2>1 DEF OneActive
<1> QED BY <1>2, <1>3, <1>4, <1>5, <1>6, <1>7, <1>8, <1>9, <1>10, <1>11, <1>12, <1>13 DEF Next

\* advance and the rebuild take both fields of a watermark from one quote, and quotes stay.
LEMMA MarksStep == ASSUME IInv, Next PROVE MarkNamesQuote'
<1>1. Shapes /\ DatesOK /\ MarkNamesQuote
  BY DEF IInv
<1>2. CASE Tick
  <2>1. UNCHANGED <<quotes, mark>>
    BY <1>2 DEF Tick, Mode, Counters
  <2> QED BY <1>1, <2>1 DEF MarkNamesQuote
<1>3. ASSUME NEW e \in Epoch, StartEpoch(e) PROVE MarkNamesQuote'
  <2>1. \A x \in Feed : mark'[x].event = mark[x].event /\ mark'[x].received = mark[x].received
    BY <1>1, <1>3 DEF StartEpoch, Shapes, Marks
  <2>2. quotes' = quotes
    BY <1>3 DEF StartEpoch
  <2> QED BY <1>1, <2>1, <2>2, QuotesFeed DEF MarkNamesQuote
<1>4. ASSUME NEW e \in Epoch, IngestQuote(e) PROVE MarkNamesQuote'
  <2>1. mark' = mark
    BY <1>4 DEF IngestQuote
  <2>2. \A f \in Epoch : quotes[f] \subseteq quotes'[f]
    BY <1>1, <1>4 DEF IngestQuote, Shapes
  <2> QED BY <1>1, <2>1, <2>2, QuotesFeed DEF MarkNamesQuote
<1>5. ASSUME NEW e \in Epoch, NEW c \in Capability, AdvanceWatermark(e, c) PROVE MarkNamesQuote'
  <2>1. PICK w \in Told(e, c) :
           mark' = [mark EXCEPT ![<<e, c>>].event = w.event, ![<<e, c>>].received = w.received]
    BY <1>5 DEF AdvanceWatermark
  <2>2. <<e, c>> \in Feed
    BY DEF Feed
  <2>3. mark'[<<e, c>>].event = w.event /\ mark'[<<e, c>>].received = w.received
    BY <1>1, <2>1, <2>2 DEF Shapes, Marks
  <2>4. \A x \in Feed \ {<<e, c>>} : mark'[x] = mark[x]
    BY <1>1, <2>1 DEF Shapes
  <2>5. c = "QUOTES" => \E q \in quotes[e] : q.source = w.event /\ q.received = w.received
    BY DEF Told
  <2>6. quotes' = quotes
    BY <1>5 DEF AdvanceWatermark
  <2>7. ASSUME NEW f \in Epoch, mark'[<<f, "QUOTES">>].event # None
        PROVE  \E q \in quotes[f] : /\ q.source = mark'[<<f, "QUOTES">>].event
                                     /\ q.received = mark'[<<f, "QUOTES">>].received
    <3>1. CASE <<f, "QUOTES">> = <<e, c>>
      <4>1. f = e /\ c = "QUOTES"
        BY <3>1
      <4> QED BY <2>3, <2>5, <4>1
    <3>2. CASE <<f, "QUOTES">> # <<e, c>>
      BY <1>1, <2>4, <2>7, <3>2, QuotesFeed DEF MarkNamesQuote
    <3> QED BY <3>1, <3>2
  <2> QED BY <2>6, <2>7 DEF MarkNamesQuote
<1>6. ASSUME NEW e \in Epoch, NEW c \in Capability, NEW ok \in BOOLEAN, RecordHealth(e, c, ok) PROVE MarkNamesQuote'
  <2>1. UNCHANGED <<quotes, mark>>
    BY <1>6 DEF RecordHealth, Mode, Counters
  <2> QED BY <1>1, <2>1 DEF MarkNamesQuote
<1>7. ASSUME NEW e \in Epoch, NEW warming \in BOOLEAN, Commit(e, warming) PROVE MarkNamesQuote'
  <2>1. UNCHANGED <<quotes, mark>>
    BY <1>7 DEF Commit, Mode
  <2> QED BY <1>1, <2>1 DEF MarkNamesQuote
<1>8. CASE Login
  <2>1. UNCHANGED <<quotes, mark>>
    BY <1>8 DEF Login, Data
  <2> QED BY <1>1, <2>1 DEF MarkNamesQuote
<1>9. CASE Expire
  <2>1. UNCHANGED <<quotes, mark>>
    BY <1>9 DEF Expire, Data, Counters
  <2> QED BY <1>1, <2>1 DEF MarkNamesQuote
<1>10. CASE Logout
  <2>1. UNCHANGED <<quotes, mark>>
    BY <1>10 DEF Logout, Data, Counters
  <2> QED BY <1>1, <2>1 DEF MarkNamesQuote
<1>11. CASE Restore
  <2>1. ASSUME NEW e \in Epoch, mark'[<<e, "QUOTES">>].event # None
        PROVE  \E q \in quotes[e] : /\ q.source = mark'[<<e, "QUOTES">>].event
                                     /\ q.received = mark'[<<e, "QUOTES">>].received
    <3>1. mark'[<<e, "QUOTES">>] = Rebuilt(e)
      BY <1>11, QuotesFeed DEF Restore
    <3>2. RebuildOf(quotes[e]) \in Marks
      BY <1>1, RebuildNamesQuote DEF Shapes, DatesOK
    <3>3. Rebuilt(e).event = RebuildOf(quotes[e]).event /\ Rebuilt(e).received = RebuildOf(quotes[e]).received
      BY <3>2 DEF Rebuilt, Marks
    <3>4. RebuildOf(quotes[e]).event # None =>
            \E q \in quotes[e] : /\ q.source = RebuildOf(quotes[e]).event
                                 /\ q.received = RebuildOf(quotes[e]).received
      BY <1>1, RebuildNamesQuote DEF Shapes, DatesOK
    <3> QED BY <2>1, <3>1, <3>3, <3>4
  <2>2. quotes' = quotes
    BY <1>11 DEF Restore
  <2> QED BY <2>1, <2>2 DEF MarkNamesQuote
<1>12. CASE StartCompletion
  <2>1. UNCHANGED <<quotes, mark>>
    BY <1>12 DEF StartCompletion, Counters
  <2> QED BY <1>1, <2>1 DEF MarkNamesQuote
<1>13. CASE CompleteRecovery
  <2>1. \A x \in Feed : mark'[x].event = mark[x].event /\ mark'[x].received = mark[x].received
    BY <1>1, <1>13 DEF CompleteRecovery, Shapes, Marks
  <2>2. quotes' = quotes
    BY <1>13 DEF CompleteRecovery
  <2> QED BY <1>1, <2>1, <2>2, QuotesFeed DEF MarkNamesQuote
<1> QED BY <1>2, <1>3, <1>4, <1>5, <1>6, <1>7, <1>8, <1>9, <1>10, <1>11, <1>12, <1>13 DEF Next

\* An empty database in its first moment.
LEMMA Initially == Init => IInv
<1> SUFFICES ASSUME Init PROVE IInv
  OBVIOUS
<1> USE RecoveryAssumption DEF Init, None
<1>1. Shapes
  BY DEF Shapes, NoMark, Marks, Reports, Quotes, Projections
<1>2. DatesOK /\ OneActive /\ MarkNamesQuote
  BY QuotesFeed DEF DatesOK, OneActive, MarkNamesQuote, NoMark
<1> QED BY <1>1, <1>2 DEF IInv

\* Every step of acquisition, of a session, of a restore and of its completion keeps the invariant.
THEOREM Invariance == Spec => []IInv
<1>1. IInv /\ Next => IInv'
  BY ShapesStep, DatesStep, ActiveStep, MarksStep DEF IInv
<1>2. ASSUME IInv, UNCHANGED vars PROVE IInv'
  <2>1. Shapes' /\ DatesOK'
    BY <1>2 DEF vars, Mode, Counters, IInv, Shapes, DatesOK
  <2>2. OneActive' /\ MarkNamesQuote'
    BY <1>2 DEF vars, Mode, Counters, IInv, OneActive, MarkNamesQuote
  <2> QED BY <2>1, <2>2 DEF IInv
<1> QED BY Initially, <1>1, <1>2, PTL DEF Spec

\* The invariant gives the type invariant: one active epoch makes a set of at most one element.
LEMMA TypeFollows == IInv => TypeOK
<1> SUFFICES ASSUME IInv PROVE TypeOK
  OBVIOUS
<1>1. Cardinality(Active) <= 1
  <2>1. CASE Active = {}
    BY <2>1, FS_EmptySet
  <2>2. CASE Active # {}
    <3>1. PICK e \in Active : TRUE
      BY <2>2
    <3>2. Active = {e}
      BY <3>1 DEF IInv, OneActive, Active
    <3>3. Cardinality({e}) = 1
      BY FS_Singleton
    <3> QED BY <3>2, <3>3
  <2> QED BY <2>1, <2>2
<1>2. /\ clock \in 0 .. MaxTime /\ state \in {"NORMAL", "RECOVERING"}
      /\ status \in [Epoch -> {"unused", "ACTIVE", "RETIRED"}]
      /\ session \in {"none", "active", "expired", "revoked"}
  BY DEF IInv, Shapes
<1>3. /\ \A e \in Epoch : \A q \in quotes[e] : q.source \in 0 .. clock \cup {None}
      /\ \A x \in Feed : mark[x].event = None => ~mark[x].rewarm
      /\ projection.at \in 0 .. clock \cup {None} /\ started \in 0 .. clock \cup {None}
  BY DEF IInv, DatesOK
<1> QED BY <1>1, <1>2, <1>3 DEF TypeOK

\* health.py, recovery.py: whatever is ingested late, advanced, retired or restored, a watermark
\* is the source time and the arrival of one stored quote.
THEOREM WatermarksFollow == Spec => []WatermarkFollowsQuotes
<1>1. IInv => WatermarkFollowsQuotes
  BY TypeFollows DEF IInv, WatermarkFollowsQuotes
<1> QED BY Invariance, <1>1, PTL

\* complete_recovery leaves RECOVERING only when everything required has a watermark that was
\* received, and a healthy report, from after the restore and the subject a commit from after it.
LEMMA CompletionStep ==
  ASSUME IInv, Next, state = "RECOVERING", state' = "NORMAL"
  PROVE  /\ \A x \in Required :
              /\ mark[x].received > started /\ report[x].at > started /\ report[x].ok
              /\ x[2] = "QUOTES" => \E q \in quotes[x[1]] : q.received > started
         /\ projection.at # None => projection.at > started
<1>1. CompleteRecovery
  BY DEF Next, Tick, StartEpoch, IngestQuote, AdvanceWatermark, RecordHealth, Commit, Login, Expire,
         Logout, Restore, StartCompletion, Mode, Data
<1>2. /\ \A x \in Required : CapabilityFresh(x)
      /\ SubjectFresh
  BY <1>1 DEF CompleteRecovery
<1>3. ASSUME NEW x \in Required, x[2] = "QUOTES" PROVE \E q \in quotes[x[1]] : q.received > started
  <2>1. x[1] \in Epoch /\ x = <<x[1], "QUOTES">>
    BY <1>3 DEF IInv, Shapes, Required, Active, Capability
  <2>2. mark[x].event # None
    BY <1>2 DEF CapabilityFresh
  <2>3. PICK q \in quotes[x[1]] : q.received = mark[x].received
    BY <2>1, <2>2 DEF IInv, MarkNamesQuote
  <2> QED BY <1>2, <2>3 DEF CapabilityFresh
<1> QED BY <1>2, <1>3 DEF CapabilityFresh, SubjectFresh

\* advance compares before it writes, start_epoch and complete_recovery keep the event: only
\* a restore moves a watermark back.
LEMMA MonotoneStep ==
  ASSUME IInv, Next, restores' = restores
  PROVE  \A x \in Feed : mark'[x].event >= mark[x].event
<1>1. Shapes /\ DatesOK
  BY DEF IInv
<1>2. \A x \in Feed : mark[x].event \in Int /\ mark[x] \in Marks
  BY <1>1 DEF Shapes, Marks
<1>3. ASSUME mark' = mark PROVE \A x \in Feed : mark'[x].event >= mark[x].event
  BY <1>2, <1>3
<1>4. ASSUME NEW e \in Epoch, StartEpoch(e)
      PROVE  \A x \in Feed : mark'[x].event >= mark[x].event
  <2>1. \A x \in Feed : mark'[x].event = mark[x].event
    BY <1>2, <1>4 DEF StartEpoch, Marks
  <2> QED BY <1>2, <2>1
<1>5. ASSUME NEW e \in Epoch, NEW c \in Capability, AdvanceWatermark(e, c)
      PROVE  \A x \in Feed : mark'[x].event >= mark[x].event
  <2>1. PICK w \in Told(e, c) :
           /\ mark[<<e, c>>].event < w.event
           /\ mark' = [mark EXCEPT ![<<e, c>>].event = w.event, ![<<e, c>>].received = w.received]
    BY <1>5 DEF AdvanceWatermark
  <2>2. w.event \in Int /\ <<e, c>> \in Feed
    BY <1>1, ToldOfThePast DEF Shapes, Feed
  <2>3. \A x \in Feed : mark'[x].event = IF x = <<e, c>> THEN w.event ELSE mark[x].event
    BY <1>1, <1>2, <2>1 DEF Shapes, Marks
  <2>4. w.event >= mark[<<e, c>>].event
    BY <1>2, <2>1, <2>2
  <2>5. ASSUME NEW x \in Feed PROVE mark'[x].event >= mark[x].event
    <3>1. CASE x = <<e, c>>
      BY <2>3, <2>4, <3>1
    <3>2. CASE x # <<e, c>>
      BY <1>2, <2>3, <3>2
    <3> QED BY <3>1, <3>2
  <2> QED BY <2>5
<1>6. CASE CompleteRecovery
  <2>1. \A x \in Feed : mark'[x].event = mark[x].event
    BY <1>2, <1>6 DEF CompleteRecovery, Marks
  <2> QED BY <1>2, <2>1
<1>7. ~Restore
  BY <1>1 DEF Restore, Shapes
<1> QED BY <1>3, <1>4, <1>5, <1>6, <1>7
        DEF Next, Tick, IngestQuote, RecordHealth, Commit, Login, Expire, Logout, StartCompletion, Data

\* recovery.py: nothing carried over from the restored set ends the recovery, and no late batch
\* turns a watermark back.
THEOREM FreshRecovery == Spec => RecoveryOnFreshEvidence
<1>1. IInv /\ [Next]_vars =>
        [state = "RECOVERING" /\ state' = "NORMAL" =>
           /\ \A x \in Required :
                /\ mark[x].received > started /\ report[x].at > started /\ report[x].ok
                /\ x[2] = "QUOTES" => \E q \in quotes[x[1]] : q.received > started
           /\ projection.at # None => projection.at > started]_vars
  BY CompletionStep
<1>2. IInv /\ [Next]_vars =>
        [restores' = restores => \A x \in Feed : mark'[x].event >= mark[x].event]_vars
  BY MonotoneStep
<1> QED BY Invariance, <1>1, <1>2, PTL
        DEF Spec, RecoveryOnFreshEvidence, NormalOnFreshEvidence, WatermarkMonotone

-----------------------------------------------------------------------------
(***************************************************************************)
(* The historical catch-up (Catchup), for any universe, number of days and *)
(* runs: a run that ended FIT has its bars, whatever was killed or failed  *)
(* since, and counts no row that it did not fetch.                         *)
(***************************************************************************)
LoaderPoints == {"idle", "start", "queue", "next", "ask", "answer", "store", "count"}
Instants == [day : 0 .. (Days - 1), minute : 0 .. Minutes]
Counts == [requests : Nat, fetched : Nat, inserted : Nat, duplicate : Nat]
Runs == [status : {"RUNNING", "FIT", "WARMING_UP", "FAILED"}, at : Instants, counters : Counts]

\* What a run counts, with n rows it has fetched and not yet stored.
Accounted(c, n) == c.inserted + c.duplicate + n <= c.fetched

\* The instruments with every bar that is required at an instant, and whether they are enough.
Ready(bars, turnovers, at) ==
  {i \in Loader!Instrument : \A d \in Loader!Previous(at) : <<d, at.minute>> \in bars[i] /\ turnovers[i][d] > 0}
Earned(bars, turnovers, at) ==
  /\ Cardinality(Loader!Previous(at)) = History
  /\ 100 * Cardinality(Ready(bars, turnovers, at)) >= FitPercent * Cardinality(Loader!Instrument)

LoaderShape ==
  /\ now \in Instants /\ ledger \in Seq(Runs)
  /\ DOMAIN minuteBars = Loader!Instrument /\ DOMAIN dailyBars = Loader!Instrument
  /\ \A i \in Loader!Instrument : DOMAIN dailyBars[i] = 0 .. (Days - 1)
  /\ DOMAIN loader = DOMAIN Loader!Idle
  /\ loader.pc \in LoaderPoints /\ loader.at \in Instants /\ loader.counters \in Counts
  /\ IsFiniteSet(loader.bars)

LoaderInv ==
  /\ Loader!CatchupAssumption /\ LoaderShape
  /\ loader.pc \notin {"idle", "start"} => ledger # << >> /\ ledger[Len(ledger)].at = loader.at
  /\ Accounted(loader.counters, IF loader.pc = "store" THEN Cardinality(loader.bars) ELSE 0)
  /\ \A k \in DOMAIN ledger : Accounted(ledger[k].counters, 0)
                              /\ (ledger[k].status = "FIT" => Earned(minuteBars, dailyBars, ledger[k].at))

LEMMA LoaderCardinality == \A S : Loader!Cardinality(S) = Cardinality(S)
BY DEF Loader!Cardinality, Cardinality

LEMMA InstrumentsFinite ==
  ASSUME Loader!CatchupAssumption
  PROVE  IsFiniteSet(Loader!Instrument) /\ Cardinality(Loader!Instrument) \in Nat \ {0}
<1>1. Len(Universe) \in Nat \ {0}
  BY DEF Loader!CatchupAssumption
<1>2. IsFiniteSet(1 .. Len(Universe))
  BY <1>1, FS_Interval
<1>3. IsFiniteSet(Loader!Instrument)
  <2>1. Universe \in Surjection(1 .. Len(Universe), Loader!Instrument)
    BY <1>1 DEF Surjection, Loader!Instrument, Loader!CatchupAssumption
  <2> QED BY <1>2, <2>1, FS_Surjection
<1>4. Universe[1] \in Loader!Instrument
  BY <1>1 DEF Loader!Instrument
<1> QED BY <1>3, <1>4, FS_CardinalityType, FS_EmptySet

\* Bars are only added: what is stored of a day that has passed stays.
BarsGrow ==
  /\ \A i \in Loader!Instrument : minuteBars[i] \subseteq minuteBars'[i]
  /\ \A i \in Loader!Instrument : \A d \in 0 .. (Days - 1) :
       dailyBars[i][d] > 0 => dailyBars'[i][d] = dailyBars[i][d]

\* So what has been earned is not lost.
LEMMA EarnedStays ==
  ASSUME Loader!CatchupAssumption, BarsGrow, NEW at \in Instants, Earned(minuteBars, dailyBars, at)
  PROVE  Earned(minuteBars', dailyBars', at)
<1> DEFINE ready == Ready(minuteBars', dailyBars', at)
<1>1. Loader!Previous(at) \subseteq 0 .. (Days - 1)
  BY DEF Loader!Previous, Instants, Loader!CatchupAssumption
<1>2. Ready(minuteBars, dailyBars, at) \subseteq ready
  BY <1>1 DEF Ready, BarsGrow
<1>3. ready \subseteq Loader!Instrument
  BY DEF Ready
<1>4. /\ IsFiniteSet(ready) /\ Cardinality(Ready(minuteBars, dailyBars, at)) \in Nat /\ Cardinality(ready) \in Nat
      /\ Cardinality(Ready(minuteBars, dailyBars, at)) <= Cardinality(ready)
  BY <1>2, <1>3, InstrumentsFinite, FS_Subset, FS_CardinalityType
<1> DEFINE asked == FitPercent * Cardinality(Loader!Instrument)
<1>5. asked \in Int
  BY InstrumentsFinite DEF Loader!CatchupAssumption
<1>6. 100 * Cardinality(Ready(minuteBars, dailyBars, at)) >= asked /\ Cardinality(Loader!Previous(at)) = History
  BY DEF Earned
<1> HIDE DEF asked
<1>7. 100 * Cardinality(ready) >= asked
  BY <1>4, <1>5, <1>6
<1> QED BY <1>6, <1>7 DEF Earned, asked

\* A checkpoint writes the counters and the status of the run's row.
LEMMA CheckpointWrites ==
  ASSUME ledger \in Seq(Runs), ledger # << >>, NEW c \in Counts,
         NEW ended \in {"RUNNING", "FIT", "WARMING_UP", "FAILED"}
  PROVE  LET n == Len(ledger)
             l == Loader!Checkpointed(ended, c)
         IN /\ l \in Seq(Runs) /\ DOMAIN l = DOMAIN ledger /\ n \in DOMAIN ledger /\ Len(l) = n
            /\ l[n] = [status |-> ended, at |-> ledger[n].at, counters |-> c]
            /\ \A k \in DOMAIN ledger \ {n} : l[k] = ledger[k]
<1> DEFINE n == Len(ledger)   l == Loader!Checkpointed(ended, c)
<1>1. n \in DOMAIN ledger /\ ledger[n] \in Runs
  OBVIOUS
<1>2. /\ l = [k \in DOMAIN ledger |-> l[k]] /\ DOMAIN l = DOMAIN ledger /\ \A k \in DOMAIN ledger \ {n} : l[k] = ledger[k]
      /\ l[n] = [status |-> ended, at |-> ledger[n].at, counters |-> c]
  <2>1. l = [ledger EXCEPT ![n].status = ended, ![n].counters = c]
    BY DEF Loader!Checkpointed, Loader!Current
  <2> HIDE DEF l, n
  <2>2. /\ l = [k \in DOMAIN ledger |-> l[k]]
        /\ DOMAIN l = DOMAIN ledger /\ \A k \in DOMAIN ledger \ {n} : l[k] = ledger[k]
    BY <2>1
  <2>3. l[n] = [ledger[n] EXCEPT !.status = ended, !.counters = c]
    BY <1>1, <2>1
  <2>4. l[n] = [status |-> ended, at |-> ledger[n].at, counters |-> c]
    BY <1>1, <2>3 DEF Runs
  <2> QED BY <2>2, <2>4
<1>3. [status |-> ended, at |-> ledger[n].at, counters |-> c] \in Runs
  BY <1>1 DEF Runs
<1> HIDE DEF l
<1>4. \A k \in DOMAIN ledger : l[k] \in Runs
  BY <1>1, <1>2, <1>3
<1>5. l \in Seq(Runs) /\ Len(l) = n
  BY <1>2, <1>4
<1> QED BY <1>1, <1>2, <1>5 DEF l

\* What a step must show when it leaves the instants, the instruments and the bars in place.
LEMMA LoaderMoves ==
  ASSUME LoaderInv, BarsGrow, now' \in Instants,
         DOMAIN minuteBars' = Loader!Instrument, DOMAIN dailyBars' = Loader!Instrument,
         \A i \in Loader!Instrument : DOMAIN dailyBars'[i] = 0 .. (Days - 1),
         DOMAIN loader' = DOMAIN Loader!Idle, loader'.pc \in LoaderPoints, loader'.at \in Instants,
         loader'.counters \in Counts, IsFiniteSet(loader'.bars),
         Accounted(loader'.counters, IF loader'.pc = "store" THEN Cardinality(loader'.bars) ELSE 0),
         loader'.pc \notin {"idle", "start"} => ledger' # << >> /\ ledger'[Len(ledger')].at = loader'.at,
         ledger' \in Seq(Runs),
         \A k \in DOMAIN ledger' :
           \/ k \in DOMAIN ledger /\ ledger'[k] = ledger[k]
           \/ Accounted(ledger'[k].counters, 0) /\ (ledger'[k].status = "FIT" => Earned(minuteBars, dailyBars, ledger'[k].at))
  PROVE  LoaderInv'
<1>1. \A at \in Instants : Earned(minuteBars, dailyBars, at) => Earned(minuteBars', dailyBars', at)
  BY EarnedStays DEF LoaderInv
<1>2. Loader!CatchupAssumption' /\ LoaderShape'
  BY DEF LoaderInv, LoaderShape, Loader!CatchupAssumption, Loader!Instrument, Instants, Runs, Loader!Idle,
         Loader!NoCounters
<1>3. Accounted(loader.counters, IF loader.pc = "store" THEN Cardinality(loader.bars) ELSE 0)'
  BY DEF Accounted
<1>4. ASSUME NEW k \in DOMAIN ledger'
      PROVE  (Accounted(ledger[k].counters, 0) /\ (ledger[k].status = "FIT" => Earned(minuteBars, dailyBars, ledger[k].at)))'
  <2>0. ledger'[k] \in Runs
    OBVIOUS
  <2>1. ledger'[k].at \in Instants
    BY <2>0 DEF Runs
  <2>2. Accounted(ledger'[k].counters, 0) /\ (ledger'[k].status = "FIT" => Earned(minuteBars, dailyBars, ledger'[k].at))
    BY DEF LoaderInv
  <2> QED BY <1>1, <2>1, <2>2 DEF Accounted, Earned, Ready, Loader!Previous
<1> QED BY <1>2, <1>3, <1>4 DEF LoaderInv

LEMMA BarsStay ==
  ASSUME LoaderInv, UNCHANGED <<minuteBars, dailyBars>>
  PROVE  /\ BarsGrow /\ DOMAIN minuteBars' = Loader!Instrument /\ DOMAIN dailyBars' = Loader!Instrument
         /\ \A i \in Loader!Instrument : DOMAIN dailyBars'[i] = 0 .. (Days - 1)
BY DEF LoaderInv, LoaderShape, BarsGrow

\* INSERT OR IGNORE keeps the daily bar that is stored.
LEMMA DailyStored ==
  ASSUME LoaderInv, NEW i, NEW days, dailyBars' = Loader!StoredDaily(i, days), minuteBars' = minuteBars
  PROVE  /\ BarsGrow /\ DOMAIN minuteBars' = Loader!Instrument /\ DOMAIN dailyBars' = Loader!Instrument
         /\ \A j \in Loader!Instrument : DOMAIN dailyBars'[j] = 0 .. (Days - 1)
<1>1. /\ DOMAIN dailyBars = Loader!Instrument /\ DOMAIN minuteBars = Loader!Instrument
      /\ \A j \in Loader!Instrument : DOMAIN dailyBars[j] = 0 .. (Days - 1)
  BY DEF LoaderInv, LoaderShape
<1>2. DOMAIN dailyBars' = Loader!Instrument
  BY <1>1 DEF Loader!StoredDaily
<1>3. ASSUME NEW j \in Loader!Instrument
      PROVE  /\ DOMAIN dailyBars'[j] = 0 .. (Days - 1)
             /\ \A d \in 0 .. (Days - 1) : dailyBars[j][d] > 0 => dailyBars'[j][d] = dailyBars[j][d]
  <2>1. CASE j # i
    <3>1. dailyBars'[j] = dailyBars[j]
      BY <1>1, <2>1 DEF Loader!StoredDaily
    <3> QED BY <1>1, <3>1
  <2>2. CASE j = i
    <3>1. dailyBars'[j] = [d \in DOMAIN dailyBars[j] |->
                             IF d \in days /\ dailyBars[j][d] = Loader!None THEN Loader!Turnover(d)
                             ELSE dailyBars[j][d]]
      BY <1>1, <2>2 DEF Loader!StoredDaily
    <3>2. \A x : x > 0 => x # Loader!None
      BY DEF Loader!None
    <3>3. DOMAIN dailyBars'[j] = 0 .. (Days - 1)
      BY <1>1, <3>1
    <3>4. \A d \in 0 .. (Days - 1) : dailyBars[j][d] > 0 => dailyBars'[j][d] = dailyBars[j][d]
      BY <1>1, <3>1, <3>2
    <3> QED BY <3>3, <3>4
  <2> QED BY <2>1, <2>2
<1> QED BY <1>1, <1>2, <1>3 DEF BarsGrow

LEMMA MinutesStored ==
  ASSUME LoaderInv, NEW i, NEW bars, minuteBars' = [minuteBars EXCEPT ![i] = @ \cup bars],
         dailyBars' = dailyBars
  PROVE  /\ BarsGrow /\ DOMAIN minuteBars' = Loader!Instrument /\ DOMAIN dailyBars' = Loader!Instrument
         /\ \A j \in Loader!Instrument : DOMAIN dailyBars'[j] = 0 .. (Days - 1)
BY DEF LoaderInv, LoaderShape, BarsGrow

\* A step of the loader that stores no bar, with what it leaves in its row.
LEMMA LoaderKeeps ==
  ASSUME LoaderInv, UNCHANGED <<now, minuteBars, dailyBars>>,
         DOMAIN loader' = DOMAIN Loader!Idle, loader'.pc \in LoaderPoints, loader'.at \in Instants,
         loader'.counters \in Counts, IsFiniteSet(loader'.bars),
         Accounted(loader'.counters, IF loader'.pc = "store" THEN Cardinality(loader'.bars) ELSE 0),
         loader'.pc \notin {"idle", "start"} => ledger' # << >> /\ ledger'[Len(ledger')].at = loader'.at,
         ledger' \in Seq(Runs),
         \A k \in DOMAIN ledger' :
           \/ k \in DOMAIN ledger /\ ledger'[k] = ledger[k]
           \/ /\ Accounted(ledger'[k].counters, 0)
              /\ (ledger'[k].status = "FIT" => Earned(minuteBars, dailyBars, ledger'[k].at))
  PROVE  LoaderInv'
<1>1. now' \in Instants
  BY DEF LoaderInv, LoaderShape
<1> QED BY <1>1, BarsStay, LoaderMoves

\* The row of the run that is under way.
LEMMA RunningRow ==
  ASSUME LoaderInv, loader.pc \notin {"idle", "start"},
         NEW c \in Counts, NEW ended \in {"RUNNING", "FIT", "WARMING_UP", "FAILED"},
         ledger' = Loader!Checkpointed(ended, c), Accounted(c, 0),
         ended = "FIT" => Earned(minuteBars, dailyBars, loader.at)
  PROVE  /\ ledger' \in Seq(Runs) /\ ledger' # << >> /\ ledger'[Len(ledger')].at = loader.at
         /\ \A k \in DOMAIN ledger' :
              \/ k \in DOMAIN ledger /\ ledger'[k] = ledger[k]
              \/ /\ Accounted(ledger'[k].counters, 0)
                 /\ (ledger'[k].status = "FIT" => Earned(minuteBars, dailyBars, ledger'[k].at))
<1>1. ledger \in Seq(Runs) /\ ledger # << >> /\ ledger[Len(ledger)].at = loader.at
  BY DEF LoaderInv, LoaderShape
<1>2. /\ ledger' \in Seq(Runs) /\ DOMAIN ledger' = DOMAIN ledger /\ Len(ledger) \in DOMAIN ledger
      /\ Len(ledger') = Len(ledger)
      /\ ledger'[Len(ledger)] = [status |-> ended, at |-> ledger[Len(ledger)].at, counters |-> c]
      /\ \A k \in DOMAIN ledger \ {Len(ledger)} : ledger'[k] = ledger[k]
  <2> DEFINE l == Loader!Checkpointed(ended, c)
  <2>1. /\ l \in Seq(Runs) /\ DOMAIN l = DOMAIN ledger /\ Len(ledger) \in DOMAIN ledger
        /\ Len(l) = Len(ledger)
        /\ l[Len(ledger)] = [status |-> ended, at |-> ledger[Len(ledger)].at, counters |-> c]
        /\ \A k \in DOMAIN ledger \ {Len(ledger)} : l[k] = ledger[k]
    BY <1>1, CheckpointWrites
  <2>2. ledger' = l
    OBVIOUS
  <2> HIDE DEF l
  <2> QED BY <2>1, <2>2
<1> QED BY <1>1, <1>2

LEMMA LoaderInit == Loader!CatchupAssumption /\ Loader!Init => LoaderInv
<1> SUFFICES ASSUME Loader!CatchupAssumption, Loader!Init PROVE LoaderInv
  OBVIOUS
<1>1. /\ now = [day |-> 0, minute |-> 0] /\ ledger = << >> /\ loader = Loader!Idle
      /\ minuteBars = [i \in Loader!Instrument |-> {}]
      /\ dailyBars = [i \in Loader!Instrument |-> [d \in 0 .. (Days - 1) |-> Loader!None]]
  BY DEF Loader!Init
<1>2. /\ loader.pc = "idle" /\ loader.at = [day |-> 0, minute |-> 0] /\ loader.counters = Loader!NoCounters
      /\ loader.bars = {}
  BY <1>1 DEF Loader!Idle
<1>3. IsFiniteSet(loader.bars)
  BY <1>2, FS_EmptySet
<1>4. [day |-> 0, minute |-> 0] \in Instants
  BY DEF Instants, Loader!CatchupAssumption
<1>5. Loader!NoCounters \in Counts /\ Accounted(Loader!NoCounters, 0)
  BY DEF Counts, Loader!NoCounters, Accounted
<1>6. LoaderShape
  BY <1>1, <1>2, <1>3, <1>4, <1>5 DEF LoaderShape, LoaderPoints
<1> QED BY <1>1, <1>2, <1>5, <1>6 DEF LoaderInv

LEMMA LoaderRests ==
  ASSUME LoaderInv, UNCHANGED <<minuteBars, dailyBars, ledger, loader>>, now' \in Instants
  PROVE  LoaderInv'
<1>1. LoaderShape /\ (loader.pc \notin {"idle", "start"} => ledger # << >> /\ ledger[Len(ledger)].at = loader.at)
      /\ Accounted(loader.counters, IF loader.pc = "store" THEN Cardinality(loader.bars) ELSE 0)
  BY DEF LoaderInv
<1> QED BY <1>1, BarsStay, LoaderMoves DEF LoaderShape

LEMMA TickStep == ASSUME LoaderInv, Loader!Tick PROVE LoaderInv'
<1>1. UNCHANGED <<minuteBars, dailyBars, ledger, loader>>
  BY DEF Loader!Tick, Loader!Bars
<1>2. now \in Instants
  BY DEF LoaderInv, LoaderShape
<1>3. now' \in Instants
  <2>1. Days \in Nat \ {0} /\ Minutes \in Nat /\ now.day \in 0 .. (Days - 1) /\ now.minute \in 0 .. Minutes
    BY <1>2 DEF LoaderInv, Loader!CatchupAssumption, Instants
  <2>2. CASE now.minute < Minutes /\ now' = [now EXCEPT !.minute = @ + 1]
    BY <1>2, <2>1, <2>2 DEF Instants
  <2>3. CASE /\ now.minute = Minutes /\ now.day < Days - 1
             /\ now' = [day |-> now.day + 1, minute |-> 0]
    BY <2>1, <2>3 DEF Instants
  <2> QED BY <2>2, <2>3 DEF Loader!Tick
<1> QED BY <1>1, <1>3, LoaderRests

LEMMA CaptureStep == ASSUME LoaderInv, Loader!CaptureToday PROVE LoaderInv'
<1>1. /\ UNCHANGED <<now, minuteBars, ledger, loader>>
      /\ dailyBars' = Loader!StoredDaily(Anchor, {now.day})
  BY DEF Loader!CaptureToday
<1>2. LoaderShape /\ (loader.pc \notin {"idle", "start"} => ledger # << >> /\ ledger[Len(ledger)].at = loader.at)
      /\ Accounted(loader.counters, IF loader.pc = "store" THEN Cardinality(loader.bars) ELSE 0)
  BY DEF LoaderInv
<1>3. /\ BarsGrow /\ DOMAIN minuteBars' = Loader!Instrument /\ DOMAIN dailyBars' = Loader!Instrument
      /\ \A j \in Loader!Instrument : DOMAIN dailyBars'[j] = 0 .. (Days - 1)
  BY <1>1, DailyStored
<1> QED BY <1>1, <1>2, <1>3, LoaderMoves DEF LoaderShape

LEMMA WarmBeginStep == ASSUME LoaderInv, Loader!WarmBegin PROVE LoaderInv'
<1>1. /\ UNCHANGED <<now, minuteBars, dailyBars, ledger>>
      /\ loader' = [Loader!Idle EXCEPT !.pc = "start", !.at = now,
                      !.todo = IF Loader!CalendarReady(now) THEN Loader!Missing(now) ELSE {}]
  BY DEF Loader!WarmBegin, Loader!Bars
<1>2. /\ DOMAIN loader' = DOMAIN Loader!Idle /\ loader'.pc = "start" /\ loader'.at = now
      /\ loader'.counters = Loader!NoCounters /\ loader'.bars = {}
  BY <1>1 DEF Loader!Idle
<1>3. Loader!NoCounters \in Counts /\ Accounted(Loader!NoCounters, 0)
  BY DEF Counts, Loader!NoCounters, Accounted
<1>4. now \in Instants /\ ledger \in Seq(Runs) /\ loader'.pc \in LoaderPoints /\ IsFiniteSet(loader'.bars)
  BY <1>2, FS_EmptySet DEF LoaderInv, LoaderShape, LoaderPoints
<1> QED BY <1>1, <1>2, <1>3, <1>4, LoaderKeeps

LEMMA WarmStartStep == ASSUME LoaderInv, Loader!WarmStart PROVE LoaderInv'
<1> DEFINE new == [status |-> "RUNNING", at |-> loader.at, counters |-> Loader!NoCounters]
<1>1. /\ UNCHANGED <<now, minuteBars, dailyBars>> /\ loader.pc = "start"
      /\ ledger' = Append(ledger, new) /\ loader' = [loader EXCEPT !.pc = "queue"]
  BY DEF Loader!WarmStart, Loader!Bars
<1>2. LoaderShape /\ Accounted(loader.counters, 0)
  BY <1>1 DEF LoaderInv
<1>3. /\ DOMAIN loader' = DOMAIN Loader!Idle /\ loader'.pc = "queue" /\ loader'.at = loader.at
      /\ loader'.counters = loader.counters /\ loader'.bars = loader.bars
  BY <1>1, <1>2 DEF LoaderShape, Loader!Idle
<1>4. new \in Runs /\ Accounted(new.counters, 0) /\ new.status # "FIT"
  BY <1>2 DEF LoaderShape, Runs, Counts, Loader!NoCounters, Accounted
<1>5. /\ ledger' \in Seq(Runs) /\ ledger' # << >> /\ ledger'[Len(ledger')] = new
      /\ \A k \in DOMAIN ledger' : (k \in DOMAIN ledger /\ ledger'[k] = ledger[k]) \/ ledger'[k] = new
  <2> HIDE DEF new
  <2> QED BY <1>1, <1>2, <1>4 DEF LoaderShape
<1>6. /\ loader'.pc \in LoaderPoints /\ loader'.at \in Instants /\ loader'.counters \in Counts
      /\ IsFiniteSet(loader'.bars) /\ ledger'[Len(ledger')].at = loader'.at
  BY <1>2, <1>3, <1>5 DEF LoaderShape, LoaderPoints
<1>7. \A k \in DOMAIN ledger' :
        \/ k \in DOMAIN ledger /\ ledger'[k] = ledger[k]
        \/ Accounted(ledger'[k].counters, 0) /\ ledger'[k].status # "FIT"
  <2> HIDE DEF new
  <2> QED BY <1>4, <1>5
<1> HIDE DEF new
<1> QED BY <1>1, <1>2, <1>3, <1>5, <1>6, <1>7, LoaderKeeps

\* Steps that only move the loader within its row.
LEMMA LoaderWalks ==
  ASSUME LoaderInv, UNCHANGED <<now, minuteBars, dailyBars, ledger>>, loader.pc \notin {"idle", "start", "store"},
         DOMAIN loader' = DOMAIN loader, loader'.pc \in LoaderPoints \ {"store"}, loader'.at = loader.at,
         loader'.counters = loader.counters, loader'.bars = loader.bars
  PROVE  LoaderInv'
<1>1. LoaderShape /\ Accounted(loader.counters, 0) /\ ledger # << >> /\ ledger[Len(ledger)].at = loader.at
  BY DEF LoaderInv
<1> QED BY <1>1, LoaderKeeps DEF LoaderShape

LEMMA WalkSteps ==
  ASSUME LoaderInv, Loader!WarmQueue \/ Loader!WarmNext \/ Loader!FetchFails PROVE LoaderInv'
<1>0. DOMAIN loader = DOMAIN Loader!Idle
  BY DEF LoaderInv, LoaderShape
<1>1. /\ UNCHANGED <<now, minuteBars, dailyBars, ledger>> /\ loader.pc \in {"queue", "next", "answer"}
  BY DEF Loader!WarmQueue, Loader!WarmNext, Loader!FetchFails, Loader!Bars
<1>2. /\ DOMAIN loader' = DOMAIN loader /\ loader'.at = loader.at
      /\ loader'.counters = loader.counters /\ loader'.bars = loader.bars
  BY <1>0 DEF Loader!WarmQueue, Loader!WarmNext, Loader!FetchFails, Loader!Idle
<1>3. loader'.pc \in {"next", "ask"}
  BY <1>0 DEF Loader!WarmQueue, Loader!WarmNext, Loader!FetchFails, Loader!Idle
<1> QED BY <1>1, <1>2, <1>3, LoaderWalks DEF LoaderPoints

LEMMA FetchAskStep == ASSUME LoaderInv, Loader!FetchAsk PROVE LoaderInv'
<1> DEFINE c == [loader.counters EXCEPT !.requests = @ + 1]
<1>1. /\ UNCHANGED <<now, minuteBars, dailyBars>> /\ loader.pc = "ask"
      /\ loader' = [loader EXCEPT !.pc = "answer", !.counters = c]
      /\ ledger' = Loader!Checkpointed("RUNNING", c)
  BY DEF Loader!FetchAsk, Loader!Bars
<1>2. LoaderShape /\ Accounted(loader.counters, 0)
  BY <1>1 DEF LoaderInv
<1>3. c \in Counts /\ Accounted(c, 0)
  BY <1>2 DEF LoaderShape, Counts, Accounted
<1> HIDE DEF c
<1>4. /\ DOMAIN loader' = DOMAIN Loader!Idle /\ loader'.pc = "answer" /\ loader'.at = loader.at
      /\ loader'.counters = c /\ loader'.bars = loader.bars
  BY <1>1, <1>2 DEF LoaderShape, Loader!Idle
<1>5. /\ ledger' \in Seq(Runs) /\ ledger' # << >> /\ ledger'[Len(ledger')].at = loader.at
      /\ \A k \in DOMAIN ledger' :
           \/ k \in DOMAIN ledger /\ ledger'[k] = ledger[k]
           \/ /\ Accounted(ledger'[k].counters, 0)
              /\ (ledger'[k].status = "FIT" => Earned(minuteBars, dailyBars, ledger'[k].at))
  BY <1>1, <1>3, RunningRow
<1>6. "answer" \in LoaderPoints /\ loader.at \in Instants /\ IsFiniteSet(loader.bars)
  BY <1>2 DEF LoaderShape, LoaderPoints
<1> QED BY <1>1, <1>3, <1>4, <1>5, <1>6, LoaderKeeps

\* A page is a finite set of bars.
LEMMA PagesFinite ==
  ASSUME LoaderInv, NEW p
  PROVE  IsFiniteSet(Loader!PageOf(p)) /\ IsFiniteSet({<<d, 0>> : d \in Loader!Previous(now) \cup {now.day}})
<1>1. now.day \in Int /\ Minutes \in Int /\ now.day >= 0
  BY DEF LoaderInv, LoaderShape, Instants, Loader!CatchupAssumption
<1>2. IsFiniteSet(0 .. now.day) /\ IsFiniteSet(1 .. Minutes) /\ IsFiniteSet({0})
  <2>1. IsFiniteSet({0})
    BY FS_Singleton
  <2>2. \A a, b \in Int : IsFiniteSet(a .. b)
    BY FS_Interval
  <2> QED BY <1>1, <2>1, <2>2
<1>3. IsFiniteSet((0 .. now.day) \X (1 .. Minutes)) /\ IsFiniteSet((0 .. now.day) \X {0})
  BY <1>2, FS_Product
<1>4. Loader!PageOf(p) \subseteq (0 .. now.day) \X (1 .. Minutes)
  BY DEF Loader!PageOf, Loader!Traded
<1>5. {<<d, 0>> : d \in Loader!Previous(now) \cup {now.day}} \subseteq (0 .. now.day) \X {0}
  BY <1>1 DEF Loader!Previous
<1> QED BY <1>3, <1>4, <1>5, FS_Subset

LEMMA FetchAnswerStep == ASSUME LoaderInv, Loader!FetchAnswer PROVE LoaderInv'
<1> DEFINE bars == IF loader.job[2] = "1m" THEN Loader!PageOf(loader.page)
                   ELSE {<<d, 0>> : d \in Loader!Previous(now) \cup {now.day}}
           c == [loader.counters EXCEPT !.fetched = @ + Cardinality(bars)]
<1>1. /\ UNCHANGED <<now, minuteBars, dailyBars>> /\ loader.pc = "answer"
      /\ loader' = [loader EXCEPT !.pc = "store", !.bars = bars, !.counters = c]
      /\ ledger' = Loader!Checkpointed("RUNNING", c)
  BY LoaderCardinality DEF Loader!FetchAnswer, Loader!Bars
<1>2. LoaderShape /\ Accounted(loader.counters, 0)
  BY <1>1 DEF LoaderInv
<1>3. IsFiniteSet(bars)
  BY PagesFinite
<1> HIDE DEF bars
<1>4. Cardinality(bars) \in Nat
  BY <1>3, FS_CardinalityType
<1>5. c \in Counts /\ Accounted(c, 0) /\ Accounted(c, Cardinality(bars))
  BY <1>2, <1>4 DEF LoaderShape, Counts, Accounted
<1> HIDE DEF c
<1>6. /\ DOMAIN loader' = DOMAIN Loader!Idle /\ loader'.pc = "store" /\ loader'.at = loader.at
      /\ loader'.counters = c /\ loader'.bars = bars
  BY <1>1, <1>2 DEF LoaderShape, Loader!Idle
<1>7. /\ ledger' \in Seq(Runs) /\ ledger' # << >> /\ ledger'[Len(ledger')].at = loader.at
      /\ \A k \in DOMAIN ledger' :
           \/ k \in DOMAIN ledger /\ ledger'[k] = ledger[k]
           \/ /\ Accounted(ledger'[k].counters, 0)
              /\ (ledger'[k].status = "FIT" => Earned(minuteBars, dailyBars, ledger'[k].at))
  BY <1>1, <1>5, RunningRow
<1>8. "store" \in LoaderPoints /\ loader.at \in Instants
  BY <1>2 DEF LoaderShape, LoaderPoints
<1> QED BY <1>1, <1>3, <1>5, <1>6, <1>7, <1>8, LoaderKeeps

LEMMA FetchStoreStep == ASSUME LoaderInv, Loader!FetchStore PROVE LoaderInv'
<1> DEFINE n == Cardinality(loader.bars)
           inserted == Loader!Inserted
<1>1. /\ UNCHANGED <<now, ledger>> /\ loader.pc = "store"
      /\ loader' = [loader EXCEPT !.pc = "count", !.counters.inserted = @ + inserted,
                                  !.counters.duplicate = @ + n - inserted]
  BY LoaderCardinality DEF Loader!FetchStore
<1>2. LoaderShape /\ Accounted(loader.counters, n) /\ ledger # << >> /\ ledger[Len(ledger)].at = loader.at
  BY <1>1 DEF LoaderInv
<1>3. n \in Nat /\ inserted \in 0 .. n
  <2>1. Loader!Fresh \subseteq loader.bars
    BY DEF Loader!Fresh
  <2>2. IsFiniteSet(loader.bars) /\ inserted = Cardinality(Loader!Fresh)
    BY <1>2, LoaderCardinality DEF LoaderShape, Loader!Inserted
  <2> HIDE DEF inserted
  <2> QED BY <2>1, <2>2, FS_Subset, FS_CardinalityType
<1> HIDE DEF n, inserted
<1> DEFINE c == loader'.counters
<1>4. /\ DOMAIN loader' = DOMAIN Loader!Idle /\ loader'.pc = "count" /\ loader'.at = loader.at
      /\ loader'.bars = loader.bars
  BY <1>1, <1>2 DEF LoaderShape, Loader!Idle
<1>5. c = [loader.counters EXCEPT !.inserted = @ + inserted, !.duplicate = @ + n - inserted]
  BY <1>1, <1>2 DEF LoaderShape, Loader!Idle
<1>6. c \in Counts /\ Accounted(c, 0)
  <2>1. /\ loader.counters \in Counts
        /\ loader.counters.inserted + loader.counters.duplicate + n <= loader.counters.fetched
    BY <1>2 DEF LoaderShape, Accounted
  <2> HIDE DEF c
  <2>2. /\ c \in [requests : Nat, fetched : Nat, inserted : Nat, duplicate : Nat]
        /\ c.inserted = loader.counters.inserted + inserted /\ c.fetched = loader.counters.fetched
        /\ c.duplicate = loader.counters.duplicate + n - inserted
    <3>1. loader.counters.inserted + inserted \in Nat /\ loader.counters.duplicate + n - inserted \in Nat
      BY <1>3, <2>1 DEF Counts
    <3>2. c = [requests |-> loader.counters.requests, fetched |-> loader.counters.fetched,
               inserted |-> loader.counters.inserted + inserted,
               duplicate |-> loader.counters.duplicate + n - inserted]
      BY <1>5, <2>1 DEF Counts
    <3> QED BY <2>1, <3>1, <3>2 DEF Counts
  <2> QED BY <1>3, <2>1, <2>2 DEF Counts, Accounted
<1>7. /\ BarsGrow /\ DOMAIN minuteBars' = Loader!Instrument /\ DOMAIN dailyBars' = Loader!Instrument
      /\ \A j \in Loader!Instrument : DOMAIN dailyBars'[j] = 0 .. (Days - 1)
  <2>1. CASE loader.job[2] = "1m"
    <3>1. minuteBars' = [minuteBars EXCEPT ![loader.job[1]] = @ \cup loader.bars] /\ dailyBars' = dailyBars
      BY <2>1 DEF Loader!FetchStore
    <3> QED BY <3>1, MinutesStored
  <2>2. CASE loader.job[2] # "1m"
    <3>1. /\ dailyBars' = Loader!StoredDaily(loader.job[1], {b[1] : b \in loader.bars})
          /\ minuteBars' = minuteBars
      BY <2>2 DEF Loader!FetchStore
    <3> QED BY <3>1, DailyStored
  <2> QED BY <2>1, <2>2
<1>8. "count" \in LoaderPoints /\ loader.at \in Instants /\ IsFiniteSet(loader.bars) /\ now \in Instants
      /\ ledger \in Seq(Runs)
  BY <1>2 DEF LoaderShape, LoaderPoints
<1> HIDE DEF c
<1> QED BY <1>1, <1>2, <1>4, <1>6, <1>7, <1>8, LoaderMoves DEF c

LEMMA FetchCountStep == ASSUME LoaderInv, Loader!FetchCount PROVE LoaderInv'
<1>0. DOMAIN loader = DOMAIN Loader!Idle
  BY DEF LoaderInv, LoaderShape
<1>1. /\ UNCHANGED <<now, minuteBars, dailyBars>> /\ loader.pc = "count"
      /\ ledger' = Loader!Checkpointed("RUNNING", loader.counters)
  BY DEF Loader!FetchCount, Loader!Bars
<1>2. LoaderShape /\ Accounted(loader.counters, 0)
  BY <1>1 DEF LoaderInv
<1>3. /\ DOMAIN loader' = DOMAIN Loader!Idle /\ loader'.pc \in {"ask", "next"} /\ loader'.at = loader.at
      /\ loader'.counters = loader.counters /\ loader'.bars = {}
  BY <1>0 DEF Loader!FetchCount, Loader!Idle
<1>4. /\ ledger' \in Seq(Runs) /\ ledger' # << >> /\ ledger'[Len(ledger')].at = loader.at
      /\ \A k \in DOMAIN ledger' :
           \/ k \in DOMAIN ledger /\ ledger'[k] = ledger[k]
           \/ /\ Accounted(ledger'[k].counters, 0)
              /\ (ledger'[k].status = "FIT" => Earned(minuteBars, dailyBars, ledger'[k].at))
  BY <1>1, <1>2, RunningRow DEF LoaderShape
<1>5. /\ loader'.pc \in LoaderPoints /\ loader.at \in Instants /\ loader.counters \in Counts
      /\ IsFiniteSet(loader'.bars)
  BY <1>2, <1>3, FS_EmptySet DEF LoaderShape, LoaderPoints
<1> QED BY <1>1, <1>2, <1>3, <1>4, <1>5, LoaderKeeps

\* The call of warm ends, or its process.
LEMMA LoaderStops ==
  ASSUME LoaderInv, UNCHANGED <<now, minuteBars, dailyBars>>, loader' = Loader!Idle, ledger' \in Seq(Runs),
         \A k \in DOMAIN ledger' :
           \/ k \in DOMAIN ledger /\ ledger'[k] = ledger[k]
           \/ /\ Accounted(ledger'[k].counters, 0)
              /\ (ledger'[k].status = "FIT" => Earned(minuteBars, dailyBars, ledger'[k].at))
  PROVE  LoaderInv'
<1>1. /\ loader'.pc = "idle" /\ loader'.at = [day |-> 0, minute |-> 0]
      /\ loader'.counters = Loader!NoCounters /\ loader'.bars = {}
  BY DEF Loader!Idle
<1>2. Loader!NoCounters \in Counts /\ Accounted(Loader!NoCounters, 0)
  BY DEF Counts, Loader!NoCounters, Accounted
<1>3. [day |-> 0, minute |-> 0] \in Instants /\ "idle" \in LoaderPoints
  BY DEF Instants, LoaderInv, Loader!CatchupAssumption, LoaderPoints
<1>4. IsFiniteSet(loader'.bars)
  BY <1>1, FS_EmptySet
<1> QED BY <1>1, <1>2, <1>3, <1>4, LoaderKeeps

LEMMA WarmFinishStep == ASSUME LoaderInv, Loader!WarmFinish PROVE LoaderInv'
<1> DEFINE ended == IF Loader!Fit(loader.at) THEN "FIT" ELSE "WARMING_UP"
<1>1. /\ UNCHANGED <<now, minuteBars, dailyBars>> /\ loader.pc = "next" /\ loader' = Loader!Idle
      /\ ledger' = Loader!Checkpointed(ended, loader.counters)
  BY DEF Loader!WarmFinish, Loader!Bars
<1>2. LoaderShape /\ Accounted(loader.counters, 0)
  BY <1>1 DEF LoaderInv
<1>3. ended = "FIT" => Earned(minuteBars, dailyBars, loader.at)
  <2> SUFFICES ASSUME Loader!Fit(loader.at) PROVE Earned(minuteBars, dailyBars, loader.at)
    OBVIOUS
  <2> DEFINE asked == FitPercent * Cardinality(Loader!Instrument)
  <2>1. asked \in Nat /\ asked > 0
    <3>1. FitPercent \in Nat \ {0} /\ Cardinality(Loader!Instrument) \in Nat \ {0}
      BY InstrumentsFinite DEF LoaderInv, Loader!CatchupAssumption
    <3>2. \A x, y \in Nat \ {0} : x * y \in Nat /\ x * y > 0
      OBVIOUS
    <3> QED BY <3>1, <3>2
  <2>2. 100 * Cardinality(Loader!Complete(loader.at)) >= asked
    BY LoaderCardinality DEF Loader!Fit
  <2> HIDE DEF asked
  <2>3. Loader!CalendarReady(loader.at)
    <3> SUFFICES ASSUME ~Loader!CalendarReady(loader.at) PROVE FALSE
      OBVIOUS
    <3>1. Loader!Complete(loader.at) = {}
      BY DEF Loader!Complete
    <3>2. Cardinality({}) = 0
      BY FS_EmptySet
    <3> QED BY <2>1, <2>2, <3>1, <3>2
  <2>4. Loader!Complete(loader.at) = Ready(minuteBars, dailyBars, loader.at)
    BY <2>3 DEF Loader!Complete, Ready, Loader!MinuteComplete, Loader!DailyComplete
  <2>5. Cardinality(Loader!Previous(loader.at)) = History
    BY <2>3, LoaderCardinality DEF Loader!CalendarReady
  <2> QED BY <2>2, <2>4, <2>5 DEF Earned, asked
<1>4. ended \in {"FIT", "WARMING_UP"}
  OBVIOUS
<1> HIDE DEF ended
<1>5. /\ ledger' \in Seq(Runs)
      /\ \A k \in DOMAIN ledger' :
           \/ k \in DOMAIN ledger /\ ledger'[k] = ledger[k]
           \/ /\ Accounted(ledger'[k].counters, 0)
              /\ (ledger'[k].status = "FIT" => Earned(minuteBars, dailyBars, ledger'[k].at))
  BY <1>1, <1>2, <1>3, <1>4, RunningRow DEF LoaderShape
<1> QED BY <1>1, <1>5, LoaderStops

LEMMA WarmFailsStep == ASSUME LoaderInv, Loader!WarmFails PROVE LoaderInv'
<1>1. /\ UNCHANGED <<now, minuteBars, dailyBars>> /\ loader' = Loader!Idle
      /\ loader.pc \notin {"idle", "start"}
      /\ ledger' = ledger \/ ledger' = Loader!Checkpointed("FAILED", loader.counters)
  BY DEF Loader!WarmFails, Loader!Bars
<1>2. CASE ledger' = ledger
  BY <1>1, <1>2, LoaderStops DEF LoaderInv, LoaderShape
<1>3. CASE ledger' = Loader!Checkpointed("FAILED", loader.counters)
  <2>1. loader.counters \in Counts /\ Accounted(loader.counters, 0)
    <3>1. loader.counters \in Counts
      BY DEF LoaderInv, LoaderShape
    <3>2. CASE loader.pc # "store"
      BY <3>1, <3>2 DEF LoaderInv
    <3>3. CASE loader.pc = "store"
      <4>1. Cardinality(loader.bars) \in Nat /\ Accounted(loader.counters, Cardinality(loader.bars))
        BY <3>3, FS_CardinalityType DEF LoaderInv, LoaderShape
      <4> QED BY <3>1, <4>1 DEF Counts, Accounted
    <3> QED BY <3>2, <3>3
  <2>2. /\ ledger' \in Seq(Runs)
        /\ \A k \in DOMAIN ledger' :
             \/ k \in DOMAIN ledger /\ ledger'[k] = ledger[k]
             \/ /\ Accounted(ledger'[k].counters, 0)
                /\ (ledger'[k].status = "FIT" => Earned(minuteBars, dailyBars, ledger'[k].at))
    BY <1>1, <1>3, <2>1, RunningRow
  <2> QED BY <1>1, <2>2, LoaderStops
<1> QED BY <1>1, <1>2, <1>3

LEMMA KillStep == ASSUME LoaderInv, Loader!Kill PROVE LoaderInv'
<1>1. UNCHANGED <<now, minuteBars, dailyBars, ledger>> /\ loader' = Loader!Idle
  BY DEF Loader!Kill, Loader!Bars
<1> QED BY <1>1, LoaderStops DEF LoaderInv, LoaderShape

THEOREM LoaderInvariance == Loader!CatchupAssumption /\ Loader!Spec => []LoaderInv
<1>1. LoaderInv /\ [Loader!Next]_(Loader!vars) => LoaderInv'
  <2> SUFFICES ASSUME LoaderInv, [Loader!Next]_(Loader!vars) PROVE LoaderInv'
    OBVIOUS
  <2>1. CASE UNCHANGED Loader!vars
    <3>1. UNCHANGED <<now, minuteBars, dailyBars, ledger, loader>>
      BY <2>1 DEF Loader!vars
    <3>2. now' \in Instants
      BY <3>1 DEF LoaderInv, LoaderShape
    <3> QED BY <3>1, <3>2, LoaderRests
  <2>2. CASE Loader!Tick \/ Loader!CaptureToday
    BY <2>2, TickStep, CaptureStep
  <2>3. CASE Loader!Warm
    BY <2>3, WarmBeginStep, WarmStartStep, WalkSteps, WarmFinishStep, WarmFailsStep DEF Loader!Warm
  <2>4. CASE Loader!Fetch
    BY <2>4, FetchAskStep, WalkSteps, FetchAnswerStep, FetchStoreStep, FetchCountStep DEF Loader!Fetch
  <2>5. CASE Loader!Kill
    BY <2>5, KillStep
  <2> QED BY <2>1, <2>2, <2>3, <2>4, <2>5 DEF Loader!Next
<1> QED BY <1>1, LoaderInit, PTL DEF Loader!Spec

\* TdxHistoricalLoader.warm: a run that ended FIT had the required bars of enough instruments, and
\* they are there for every later run, however many runs were killed or failed.
THEOREM FitEarned == Loader!CatchupAssumption /\ Loader!Spec => []Loader!FitIsEarned
<1>1. ASSUME LoaderInv PROVE Loader!FitIsEarned
  <2> SUFFICES ASSUME NEW k \in 1 .. Len(ledger), ledger[k].status = "FIT"
               PROVE  LET at == ledger[k].at
                      IN /\ Loader!Cardinality(Loader!Previous(at)) = History
                         /\ 100 * Loader!Cardinality({i \in Loader!Instrument : \A d \in Loader!Previous(at) :
                                  <<d, at.minute>> \in minuteBars[i] /\ dailyBars[i][d] > 0})
                              >= FitPercent * Loader!Cardinality(Loader!Instrument)
    BY DEF Loader!FitIsEarned
  <2>1. Earned(minuteBars, dailyBars, ledger[k].at)
    BY <1>1 DEF LoaderInv, LoaderShape
  <2> QED BY <2>1, LoaderCardinality DEF Earned, Ready
<1> QED BY <1>1, LoaderInvariance, PTL

\* _fetch checkpoints what it fetched before it stores and counts it.
THEOREM CountsFetched == Loader!CatchupAssumption /\ Loader!Spec => []Loader!CountedRowsAreFetched
<1>1. ASSUME LoaderInv PROVE Loader!CountedRowsAreFetched
  <2>1. \A k \in 1 .. Len(ledger) : ledger[k] \in Runs /\ Accounted(ledger[k].counters, 0)
    BY <1>1 DEF LoaderInv, LoaderShape
  <2>2. \A r \in Runs : r.counters \in Counts
    BY DEF Runs
  <2> QED BY <2>1, <2>2 DEF Loader!CountedRowsAreFetched, Accounted, Counts
<1> QED BY <1>1, LoaderInvariance, PTL

-----------------------------------------------------------------------------
\* Every row that the runs say they inserted is there.
Jobs == Loader!Instrument \X {"1m", "1d"}
Running == loader.pc \notin {"idle", "start"}

\* What each run has inserted, the current one whether or not its row tells it yet.
Inserts(k) == IF Running /\ k = Len(ledger) THEN loader.counters.inserted ELSE ledger[k].counters.inserted
Claimed == UNION {{k} \X (1 .. Inserts(k)) : k \in 1 .. Len(ledger)}

RowsInv ==
  /\ loader.todo \subseteq 1 .. (2 * Len(Universe))
  /\ loader.pc \in {"ask", "answer", "store", "count"} => loader.job \in Jobs
  /\ loader.pc = "store" /\ loader.job[2] # "1m" => loader.bars \subseteq (0 .. (Days - 1)) \X {0}
  /\ loader.pc = "start" => loader.counters.inserted = 0
  /\ Running => ledger[Len(ledger)].counters.inserted <= loader.counters.inserted
  /\ IsFiniteSet(Loader!MinuteRows)
  /\ Cardinality(Claimed) <= Cardinality(Loader!MinuteRows) + Cardinality(Loader!DailyRows)

LEMMA InsertsCounted == LoaderInv => \A k \in 1 .. Len(ledger) : Inserts(k) \in Nat
<1> SUFFICES ASSUME LoaderInv, NEW k \in 1 .. Len(ledger) PROVE Inserts(k) \in Nat
  OBVIOUS
<1>1. ledger \in Seq(Runs) /\ loader.counters \in Counts
  BY DEF LoaderInv, LoaderShape
<1>2. ledger[k] \in Runs
  BY <1>1
<1> QED BY <1>1, <1>2 DEF Inserts, Runs, Counts

LEMMA CountedNext == LoaderInv' => \A k \in 1 .. Len(ledger') : (Inserts(k))' \in Nat
<1>1. LoaderInv' => (\A k \in 1 .. Len(ledger) : Inserts(k) \in Nat)'
  BY InsertsCounted, PTL
<1> QED BY <1>1

LEMMA ClaimsFinite ==
  ASSUME LoaderInv PROVE IsFiniteSet(Claimed) /\ Cardinality(Claimed) \in Nat
<1> DEFINE n == Len(ledger)
           f == [k \in 1 .. n |-> {k} \X (1 .. Inserts(k))]
           rows == {{k} \X (1 .. Inserts(k)) : k \in 1 .. n}
<1>1. n \in Nat
  BY DEF LoaderInv, LoaderShape
<1> HIDE DEF n
<1>2. IsFiniteSet(1 .. n)
  BY <1>1, FS_Interval
<1>3. f \in Surjection(1 .. n, rows)
  BY DEF Surjection
<1>4. IsFiniteSet(rows)
  BY <1>2, <1>3, FS_Surjection
<1>5. \A r \in rows : IsFiniteSet(r)
  <2> SUFFICES ASSUME NEW k \in 1 .. n PROVE IsFiniteSet({k} \X (1 .. Inserts(k)))
    OBVIOUS
  <2>1. Inserts(k) \in Nat
    BY InsertsCounted DEF n
  <2>2. \A m \in Nat : IsFiniteSet(1 .. m)
    BY FS_Interval
  <2>3. IsFiniteSet({k}) /\ IsFiniteSet(1 .. Inserts(k))
    BY <2>1, <2>2, FS_Singleton
  <2> QED BY <2>3, FS_Product
<1>6. IsFiniteSet(UNION rows)
  BY <1>4, <1>5, FS_UNION
<1> QED BY <1>6, FS_CardinalityType DEF Claimed, n

LEMMA DailyRowsFinite ==
  ASSUME Loader!CatchupAssumption PROVE IsFiniteSet(Loader!DailyRows) /\ Cardinality(Loader!DailyRows) \in Nat
<1>1. Days - 1 \in Int
  BY DEF Loader!CatchupAssumption
<1>2. IsFiniteSet(0 .. (Days - 1))
  BY <1>1, FS_Interval
<1>3. IsFiniteSet(Loader!Instrument \X (0 .. (Days - 1)))
  BY <1>2, InstrumentsFinite, FS_Product
<1>4. Loader!DailyRows \subseteq Loader!Instrument \X (0 .. (Days - 1))
  BY DEF Loader!DailyRows
<1> QED BY <1>3, <1>4, FS_Subset, FS_CardinalityType

\* No run claims more, or a run that is new claims nothing.
LEMMA ClaimsShrink ==
  ASSUME LoaderInv, LoaderInv',
         \A k \in 1 .. Len(ledger') :
           (k \in 1 .. Len(ledger) /\ (Inserts(k))' <= Inserts(k)) \/ (Inserts(k))' = 0
  PROVE  Claimed' \subseteq Claimed
<1> SUFFICES ASSUME NEW k \in 1 .. Len(ledger'), NEW x \in 1 .. (Inserts(k))' PROVE <<k, x>> \in Claimed
  BY DEF Claimed
<1>1. (Inserts(k))' \in Nat
  BY CountedNext
<1>2. k \in 1 .. Len(ledger) /\ (Inserts(k))' <= Inserts(k)
  BY <1>1
<1>3. x \in 1 .. Inserts(k)
  BY <1>1, <1>2, InsertsCounted
<1> QED BY <1>2, <1>3 DEF Claimed

\* A step that stores no bar.
LEMMA RowsStay ==
  ASSUME LoaderInv, LoaderInv', RowsInv, UNCHANGED <<minuteBars, dailyBars>>,
         \A k \in 1 .. Len(ledger') :
           (k \in 1 .. Len(ledger) /\ (Inserts(k))' <= Inserts(k)) \/ (Inserts(k))' = 0,
         loader'.todo \subseteq 1 .. (2 * Len(Universe)),
         loader'.pc \in {"ask", "answer", "store", "count"} => loader'.job \in Jobs,
         loader'.pc = "store" /\ loader'.job[2] # "1m" => loader'.bars \subseteq (0 .. (Days - 1)) \X {0},
         loader'.pc = "start" => loader'.counters.inserted = 0,
         Running' => ledger'[Len(ledger')].counters.inserted <= loader'.counters.inserted
  PROVE  RowsInv'
<1>1. Loader!MinuteRows' = Loader!MinuteRows /\ Loader!DailyRows' = Loader!DailyRows
  BY DEF Loader!MinuteRows, Loader!DailyRows, Loader!Instrument
<1>2. Claimed' \subseteq Claimed
  BY ClaimsShrink
<1>3. IsFiniteSet(Claimed) /\ Cardinality(Claimed) \in Nat
  BY ClaimsFinite
<1>4. Cardinality(Claimed') \in Nat /\ Cardinality(Claimed') <= Cardinality(Claimed)
  BY <1>2, <1>3, FS_Subset, FS_CardinalityType
<1>5. Cardinality(Loader!MinuteRows) \in Nat /\ Cardinality(Loader!DailyRows) \in Nat
  BY DailyRowsFinite, FS_CardinalityType DEF RowsInv, LoaderInv
<1>6. Cardinality(Claimed') <= Cardinality(Loader!MinuteRows) + Cardinality(Loader!DailyRows)
  BY <1>3, <1>4, <1>5 DEF RowsInv
<1>7. (IsFiniteSet(Loader!MinuteRows))' /\ (Cardinality(Claimed) <= Cardinality(Loader!MinuteRows) + Cardinality(Loader!DailyRows))'
  <2>1. IsFiniteSet(Loader!MinuteRows')
    BY <1>1 DEF RowsInv
  <2>2. Cardinality(Claimed') <= Cardinality(Loader!MinuteRows') + Cardinality(Loader!DailyRows')
    BY <1>1, <1>6
  <2> QED BY <2>1, <2>2 DEF Cardinality, IsFiniteSet
<1> QED BY <1>7 DEF RowsInv, Jobs, Loader!Instrument

\* A checkpoint tells what the run has inserted so far.
LEMMA RowTells ==
  ASSUME LoaderInv, Running, NEW c \in Counts, NEW ended \in {"RUNNING", "FIT", "WARMING_UP", "FAILED"},
         c.inserted = loader.counters.inserted, ledger' = Loader!Checkpointed(ended, c),
         Running' => loader'.counters.inserted = loader.counters.inserted
  PROVE  /\ \A k \in 1 .. Len(ledger') :
              (k \in 1 .. Len(ledger) /\ (Inserts(k))' <= Inserts(k)) \/ (Inserts(k))' = 0
         /\ Running' => ledger'[Len(ledger')].counters.inserted <= loader'.counters.inserted
<1> DEFINE n == Len(ledger)   l == Loader!Checkpointed(ended, c)
<1>1. ledger \in Seq(Runs) /\ ledger # << >> /\ loader.counters \in Counts
  BY DEF LoaderInv, LoaderShape, Running
<1>2. /\ l \in Seq(Runs) /\ DOMAIN l = DOMAIN ledger /\ n \in DOMAIN ledger /\ Len(l) = n
      /\ l[n] = [status |-> ended, at |-> ledger[n].at, counters |-> c]
      /\ \A k \in DOMAIN ledger \ {n} : l[k] = ledger[k]
  BY <1>1, CheckpointWrites
<1>3. ledger' = l
  OBVIOUS
<1> HIDE DEF l
<1>4. loader.counters.inserted \in Nat
  BY <1>1 DEF Counts
<1>5. ASSUME NEW k \in 1 .. Len(ledger') PROVE k \in 1 .. n /\ (Inserts(k))' <= Inserts(k)
  <2>1. k \in 1 .. n
    BY <1>2, <1>3
  <2>2. CASE k = n
    <3>1. (Inserts(k))' = loader.counters.inserted /\ Inserts(k) = loader.counters.inserted
      BY <1>2, <1>3, <2>2 DEF Inserts
    <3> QED BY <1>4, <2>1, <3>1
  <2>3. CASE k # n
    <3>0. k \in DOMAIN ledger \ {n}
      BY <1>1, <2>1, <2>3
    <3>1. ledger'[k] = ledger[k] /\ Len(ledger') = n
      BY <1>2, <1>3, <3>0
    <3>2. (Inserts(k))' = Inserts(k)
      BY <2>3, <3>1 DEF Inserts
    <3> QED BY <2>1, <3>2, InsertsCounted
  <2> QED BY <2>2, <2>3
<1>6. Running' => ledger'[Len(ledger')].counters.inserted <= loader'.counters.inserted
  BY <1>2, <1>3, <1>4
<1> QED BY <1>5, <1>6

\* Nothing is told, and the counters of a run that goes on stay.
LEMMA RowRests ==
  ASSUME LoaderInv, RowsInv, ledger' = ledger,
         Running' => Running /\ loader'.counters = loader.counters
  PROVE  /\ \A k \in 1 .. Len(ledger') :
              (k \in 1 .. Len(ledger) /\ (Inserts(k))' <= Inserts(k)) \/ (Inserts(k))' = 0
         /\ Running' => ledger'[Len(ledger')].counters.inserted <= loader'.counters.inserted
<1>1. ledger \in Seq(Runs) /\ loader.counters \in Counts
  BY DEF LoaderInv, LoaderShape
<1>2. Running => ledger[Len(ledger)].counters.inserted <= loader.counters.inserted
  BY DEF RowsInv
<1>3. ASSUME NEW k \in 1 .. Len(ledger) PROVE (Inserts(k))' <= Inserts(k)
  <2>0. ledger[k] \in Runs
    BY <1>1
  <2>1. ledger[k].counters.inserted \in Nat /\ loader.counters.inserted \in Nat
    BY <1>1, <2>0 DEF Runs, Counts
  <2>2. Running' => Running /\ loader'.counters.inserted = loader.counters.inserted
    OBVIOUS
  <2>3. CASE k = Len(ledger) /\ Running
    BY <1>2, <2>1, <2>2, <2>3 DEF Inserts
  <2>4. CASE ~(k = Len(ledger) /\ Running)
    BY <2>1, <2>2, <2>4 DEF Inserts
  <2> QED BY <2>3, <2>4
<1> QED BY <1>2, <1>3

LEMMA RowsRest ==
  ASSUME LoaderInv, LoaderInv', RowsInv, UNCHANGED <<minuteBars, dailyBars, ledger, loader>>
  PROVE  RowsInv'
<1>1. Running' <=> Running
  BY DEF Running
<1> QED BY <1>1, RowRests, RowsStay DEF RowsInv

LEMMA RowsStop ==
  ASSUME LoaderInv, LoaderInv', RowsInv, UNCHANGED <<minuteBars, dailyBars>>, loader' = Loader!Idle,
         \/ ledger' = ledger
         \/ /\ Running
            /\ \E ended \in {"RUNNING", "FIT", "WARMING_UP", "FAILED"} :
                 ledger' = Loader!Checkpointed(ended, loader.counters)
  PROVE  RowsInv'
<1>1. ~Running' /\ loader'.pc = "idle" /\ loader'.todo = {}
  BY DEF Loader!Idle, Running
<1>2. \A k \in 1 .. Len(ledger') :
        (k \in 1 .. Len(ledger) /\ (Inserts(k))' <= Inserts(k)) \/ (Inserts(k))' = 0
  <2>1. CASE ledger' = ledger
    BY <1>1, <2>1, RowRests
  <2>2. CASE ledger' # ledger
    <3>1. PICK ended \in {"RUNNING", "FIT", "WARMING_UP", "FAILED"} : ledger' = Loader!Checkpointed(ended, loader.counters)
      BY <2>2
    <3>2. Running /\ loader.counters \in Counts
      BY <2>2 DEF LoaderInv, LoaderShape
    <3> QED BY <1>1, <3>1, <3>2, RowTells
  <2> QED BY <2>1, <2>2
<1> QED BY <1>1, <1>2, RowsStay

\* The jobs of a catch-up are of its instruments.
LEMMA JobsOfInstruments ==
  ASSUME Loader!CatchupAssumption, NEW k \in 1 .. (2 * Len(Universe)) PROVE Loader!Job(k) \in Jobs
<1>1. Len(Universe) \in Nat /\ (k + 1) \div 2 \in 1 .. Len(Universe)
  BY DEF Loader!CatchupAssumption
<1> QED BY <1>1 DEF Loader!Job, Jobs, Loader!Instrument

LEMMA RowsOfWalk ==
  ASSUME LoaderInv, LoaderInv', RowsInv,
         Loader!Tick \/ Loader!WarmBegin \/ Loader!WarmStart \/ Loader!WarmQueue \/ Loader!WarmNext \/ Loader!FetchFails
  PROVE  RowsInv'
<1>0. /\ DOMAIN loader = DOMAIN Loader!Idle /\ ledger \in Seq(Runs) /\ loader.counters \in Counts
      /\ Loader!CatchupAssumption
  BY DEF LoaderInv, LoaderShape
<1>1. CASE Loader!Tick
  BY <1>1, RowsRest DEF Loader!Tick, Loader!Bars
<1>2. CASE Loader!WarmBegin
  <2>1. /\ UNCHANGED <<minuteBars, dailyBars, ledger>> /\ loader.pc = "idle"
        /\ loader' = [Loader!Idle EXCEPT !.pc = "start", !.at = now,
                        !.todo = IF Loader!CalendarReady(now) THEN Loader!Missing(now) ELSE {}]
    BY <1>2 DEF Loader!WarmBegin, Loader!Bars
  <2>2. /\ loader'.pc = "start" /\ loader'.counters = Loader!NoCounters
        /\ loader'.todo \subseteq 1 .. (2 * Len(Universe))
    BY <2>1 DEF Loader!Idle, Loader!Missing
  <2>3. ~Running' /\ loader'.counters.inserted = 0
    BY <2>2 DEF Running, Loader!NoCounters
  <2> QED BY <2>1, <2>2, <2>3, RowRests, RowsStay
<1>3. CASE Loader!WarmStart
  <2> DEFINE new == [status |-> "RUNNING", at |-> loader.at, counters |-> Loader!NoCounters]
  <2>1. /\ UNCHANGED <<minuteBars, dailyBars>> /\ loader.pc = "start" /\ ledger' = Append(ledger, new)
        /\ loader' = [loader EXCEPT !.pc = "queue"]
    BY <1>3 DEF Loader!WarmStart, Loader!Bars
  <2>2. /\ loader'.pc = "queue" /\ loader'.counters = loader.counters /\ loader'.todo = loader.todo
        /\ loader.counters.inserted = 0
    BY <1>0, <2>1 DEF Loader!Idle, RowsInv
  <2>3. new.counters.inserted = 0
    BY DEF Loader!NoCounters
  <2> HIDE DEF new
  <2>4. Len(ledger') = Len(ledger) + 1 /\ ledger'[Len(ledger')] = new /\ ~Running
    BY <1>0, <2>1 DEF Running
  <2>5. ASSUME NEW k \in 1 .. Len(ledger')
        PROVE  (k \in 1 .. Len(ledger) /\ (Inserts(k))' <= Inserts(k)) \/ (Inserts(k))' = 0
    <3>1. CASE k = Len(ledger')
      BY <2>2, <2>3, <2>4, <3>1 DEF Inserts
    <3>2. CASE k # Len(ledger')
      <4>1. k \in 1 .. Len(ledger) /\ ledger'[k] = ledger[k]
        BY <1>0, <2>1, <2>4, <3>2
      <4>2. (Inserts(k))' = Inserts(k)
        BY <2>4, <3>2, <4>1 DEF Inserts
      <4> QED BY <4>1, <4>2, InsertsCounted
    <3> QED BY <3>1, <3>2
  <2>6. ledger'[Len(ledger')].counters.inserted <= loader'.counters.inserted
    BY <2>2, <2>3, <2>4
  <2> QED BY <2>1, <2>2, <2>5, <2>6, RowsStay DEF RowsInv
<1>4. CASE Loader!WarmQueue \/ Loader!WarmNext \/ Loader!FetchFails
  <2>1. UNCHANGED <<minuteBars, dailyBars, ledger>> /\ Running
    BY <1>4 DEF Loader!WarmQueue, Loader!WarmNext, Loader!FetchFails, Loader!Bars, Running
  <2>2. loader'.pc \in {"next", "ask"} /\ loader'.counters = loader.counters /\ loader'.todo \subseteq loader.todo
    <3>1. CASE Loader!WarmQueue
      <4> DEFINE asked == {k \in loader.todo : blocked[Loader!Job(k)[1]] <= Loader!Instant(loader.at)}
      <4>1. loader' = [loader EXCEPT !.pc = "next", !.todo = asked]
        BY <3>1 DEF Loader!WarmQueue
      <4>2. asked \subseteq loader.todo
        OBVIOUS
      <4> HIDE DEF asked
      <4> QED BY <1>0, <4>1, <4>2 DEF Loader!Idle
    <3>2. CASE Loader!WarmNext
      <4>1. PICK k \in loader.todo :
              loader' = [loader EXCEPT !.pc = "ask", !.todo = @ \ {k}, !.job = Loader!Job(k), !.page = 0]
        BY <3>2 DEF Loader!WarmNext
      <4> QED BY <1>0, <4>1 DEF Loader!Idle
    <3>3. CASE Loader!FetchFails
      BY <1>0, <3>3 DEF Loader!FetchFails, Loader!Idle
    <3> QED BY <1>4, <3>1, <3>2, <3>3
  <2>3. loader'.pc = "ask" => loader'.job \in Jobs
    <3> SUFFICES ASSUME loader'.pc = "ask" PROVE loader'.job \in Jobs
      OBVIOUS
    <3>1. Loader!WarmNext
      BY <1>0, <1>4 DEF Loader!WarmQueue, Loader!FetchFails, Loader!Idle
    <3>2. PICK k \in loader.todo :
            loader' = [loader EXCEPT !.pc = "ask", !.todo = @ \ {k}, !.job = Loader!Job(k), !.page = 0]
      BY <3>1 DEF Loader!WarmNext
    <3>3. k \in 1 .. (2 * Len(Universe)) /\ loader'.job = Loader!Job(k)
      BY <1>0, <3>2 DEF Loader!Idle, RowsInv
    <3> QED BY <1>0, <3>3, JobsOfInstruments
  <2> QED BY <2>1, <2>2, <2>3, RowRests, RowsStay DEF RowsInv
<1> QED BY <1>1, <1>2, <1>3, <1>4

LEMMA RowsOfFetch ==
  ASSUME LoaderInv, LoaderInv', RowsInv, Loader!FetchAsk \/ Loader!FetchAnswer \/ Loader!FetchCount
  PROVE  RowsInv'
<1>0. DOMAIN loader = DOMAIN Loader!Idle /\ loader.counters \in Counts
  BY DEF LoaderInv, LoaderShape
<1>1. PICK c : /\ UNCHANGED <<minuteBars, dailyBars>> /\ Running
               /\ ledger' = Loader!Checkpointed("RUNNING", c) /\ loader'.counters = c
               /\ c.inserted = loader.counters.inserted
               /\ loader'.todo = loader.todo /\ loader'.job = loader.job
               /\ loader'.pc \in {"answer", "store", "ask", "next"}
  <2>1. CASE Loader!FetchAsk
    <3> DEFINE c == [loader.counters EXCEPT !.requests = @ + 1]
    <3>1. /\ loader' = [loader EXCEPT !.pc = "answer", !.counters = c]
          /\ ledger' = Loader!Checkpointed("RUNNING", c)
          /\ UNCHANGED <<minuteBars, dailyBars>> /\ Running
      BY <2>1 DEF Loader!FetchAsk, Loader!Bars, Running
    <3>2. c.inserted = loader.counters.inserted
      BY <1>0 DEF Counts
    <3> HIDE DEF c
    <3>3. /\ loader'.counters = c /\ loader'.todo = loader.todo /\ loader'.job = loader.job
          /\ loader'.pc = "answer"
      BY <1>0, <3>1 DEF Loader!Idle
    <3> QED BY <3>1, <3>2, <3>3
  <2>2. CASE Loader!FetchAnswer
    <3>1. PICK bars, c : /\ loader' = [loader EXCEPT !.pc = "store", !.bars = bars, !.counters = c]
                         /\ ledger' = Loader!Checkpointed("RUNNING", c)
                         /\ c = [loader.counters EXCEPT !.fetched = @ + Loader!Cardinality(bars)]
                         /\ UNCHANGED <<minuteBars, dailyBars>> /\ Running
      BY <2>2 DEF Loader!FetchAnswer, Loader!Bars, Running
    <3>2. c.inserted = loader.counters.inserted
      BY <1>0, <3>1 DEF Counts
    <3>3. /\ loader'.counters = c /\ loader'.todo = loader.todo /\ loader'.job = loader.job
          /\ loader'.pc = "store"
      BY <1>0, <3>1 DEF Loader!Idle
    <3> QED BY <3>1, <3>2, <3>3
  <2>3. CASE Loader!FetchCount
    <3>1. PICK next, page : /\ loader' = [loader EXCEPT !.pc = next, !.bars = {}, !.page = page]
                            /\ next \in {"ask", "next"}
                            /\ ledger' = Loader!Checkpointed("RUNNING", loader.counters)
                            /\ UNCHANGED <<minuteBars, dailyBars>> /\ Running
      <4> DEFINE more == loader.job[2] = "1m" /\ loader.page = 0 /\ Loader!Cardinality(loader.bars) = Page
      <4>1. /\ loader' = [loader EXCEPT !.pc = IF more THEN "ask" ELSE "next", !.bars = {},
                                        !.page = IF more THEN 1 ELSE 0]
            /\ ledger' = Loader!Checkpointed("RUNNING", loader.counters)
            /\ UNCHANGED <<minuteBars, dailyBars>> /\ Running
        BY <2>3 DEF Loader!FetchCount, Loader!Bars, Running
      <4> HIDE DEF more
      <4> QED BY <4>1
    <3>2. /\ loader'.counters = loader.counters /\ loader'.todo = loader.todo /\ loader'.job = loader.job
          /\ loader'.pc = next
      BY <1>0, <3>1 DEF Loader!Idle
    <3> QED BY <3>1, <3>2
  <2> QED BY <2>1, <2>2, <2>3
<1>2. c \in Counts
  BY <1>1 DEF LoaderInv, LoaderShape
<1>3. /\ \A k \in 1 .. Len(ledger') :
           (k \in 1 .. Len(ledger) /\ (Inserts(k))' <= Inserts(k)) \/ (Inserts(k))' = 0
      /\ Running' => ledger'[Len(ledger')].counters.inserted <= loader'.counters.inserted
  BY <1>1, <1>2, RowTells
<1>4. loader'.todo \subseteq 1 .. (2 * Len(Universe)) /\ (loader'.pc # "next" => loader'.job \in Jobs)
  BY <1>0, <1>1 DEF RowsInv, Loader!FetchAsk, Loader!FetchAnswer, Loader!FetchCount
<1>5. loader'.pc = "store" /\ loader'.job[2] # "1m" => loader'.bars \subseteq (0 .. (Days - 1)) \X {0}
  <2> SUFFICES ASSUME loader'.pc = "store", loader'.job[2] # "1m" PROVE loader'.bars \subseteq (0 .. (Days - 1)) \X {0}
    OBVIOUS
  <2>1. Loader!FetchAnswer
    <3>1. "store" \notin {"ask", "next"} /\ "store" # "answer"
      OBVIOUS
    <3>2. ~Loader!FetchAsk
      BY <1>0, <3>1 DEF Loader!FetchAsk, Loader!Idle
    <3>3. ~Loader!FetchCount
      BY <1>0, <3>1 DEF Loader!FetchCount, Loader!Idle
    <3> QED BY <3>2, <3>3
  <2> DEFINE days == {<<d, 0>> : d \in Loader!Previous(now) \cup {now.day}}
  <2>2. loader'.bars = days
    <3>1. PICK c2 : loader' = [loader EXCEPT !.pc = "store", !.bars = days, !.counters = c2]
      BY <1>1, <2>1 DEF Loader!FetchAnswer
    <3> HIDE DEF days
    <3> QED BY <1>0, <3>1 DEF Loader!Idle
  <2>3. now \in Instants /\ Days \in Nat
    BY DEF LoaderInv, LoaderShape, Loader!CatchupAssumption
  <2>4. days \subseteq (0 .. (Days - 1)) \X {0}
    BY <2>3 DEF Loader!Previous, Instants
  <2> QED BY <2>2, <2>4
<1>6. loader'.pc # "start"
  BY <1>1
<1> QED BY <1>1, <1>3, <1>4, <1>5, <1>6, RowsStay

LEMMA RowsOfEnd ==
  ASSUME LoaderInv, LoaderInv', RowsInv, Loader!WarmFinish \/ Loader!WarmFails \/ Loader!Kill
  PROVE  RowsInv'
<1>1. UNCHANGED <<minuteBars, dailyBars>> /\ loader' = Loader!Idle
  BY DEF Loader!WarmFinish, Loader!WarmFails, Loader!Kill, Loader!Bars
<1>2. \/ ledger' = ledger
      \/ /\ Running
         /\ \E ended \in {"RUNNING", "FIT", "WARMING_UP", "FAILED"} :
              ledger' = Loader!Checkpointed(ended, loader.counters)
  <2>1. CASE Loader!WarmFinish
    <3> DEFINE ended == IF Loader!Fit(loader.at) THEN "FIT" ELSE "WARMING_UP"
    <3>1. Running /\ ledger' = Loader!Checkpointed(ended, loader.counters)
      BY <2>1 DEF Loader!WarmFinish, Running
    <3>2. ended \in {"RUNNING", "FIT", "WARMING_UP", "FAILED"}
      OBVIOUS
    <3> HIDE DEF ended
    <3> QED BY <3>1, <3>2
  <2>2. CASE Loader!WarmFails
    BY <2>2 DEF Loader!WarmFails, Running
  <2>3. CASE Loader!Kill
    BY <2>3 DEF Loader!Kill
  <2> QED BY <2>1, <2>2, <2>3
<1> QED BY <1>1, <1>2, RowsStop

\* n rows are claimed, and n bars are stored.
LEMMA RowsMove ==
  ASSUME LoaderInv, LoaderInv', RowsInv, NEW n \in Nat,
         Cardinality(Claimed') <= Cardinality(Claimed) + n, IsFiniteSet(Loader!MinuteRows'),
         Cardinality(Loader!MinuteRows') + Cardinality(Loader!DailyRows')
           >= Cardinality(Loader!MinuteRows) + Cardinality(Loader!DailyRows) + n,
         loader'.todo = loader.todo, loader'.job = loader.job, loader'.pc \in {"idle", "count"},
         loader'.pc = "idle" => loader.pc = "idle", loader'.pc = "count" => loader.pc = "store",
         Running' => ledger'[Len(ledger')].counters.inserted <= loader'.counters.inserted
  PROVE  RowsInv'
<1>1. IsFiniteSet(Claimed') /\ IsFiniteSet(Claimed)
  <2>1. (LoaderInv => IsFiniteSet(Claimed))'
    BY ClaimsFinite, PTL
  <2>2. (IsFiniteSet(Claimed))' => IsFiniteSet(Claimed')
    BY DEF IsFiniteSet
  <2> QED BY <2>1, <2>2, ClaimsFinite
<1>2. Cardinality(Claimed') \in Nat /\ Cardinality(Claimed) \in Nat
  BY <1>1, FS_CardinalityType
<1>3. Cardinality(Loader!MinuteRows) \in Nat /\ Cardinality(Loader!DailyRows) \in Nat
  BY DailyRowsFinite, FS_CardinalityType DEF RowsInv, LoaderInv
<1>4. Cardinality(Loader!MinuteRows') \in Nat /\ Cardinality(Loader!DailyRows') \in Nat
  <2>1. Loader!DailyRows' \subseteq Loader!Instrument \X (0 .. (Days - 1))
    BY DEF Loader!DailyRows, Loader!Instrument
  <2>2. IsFiniteSet(Loader!Instrument \X (0 .. (Days - 1)))
    <3>1. Days - 1 \in Int /\ Loader!CatchupAssumption
      BY DEF LoaderInv, Loader!CatchupAssumption
    <3>2. IsFiniteSet(0 .. (Days - 1))
      BY <3>1, FS_Interval
    <3> QED BY <3>1, <3>2, InstrumentsFinite, FS_Product
  <2> QED BY <2>1, <2>2, FS_Subset, FS_CardinalityType
<1>5. Cardinality(Claimed') <= Cardinality(Loader!MinuteRows') + Cardinality(Loader!DailyRows')
  BY <1>2, <1>3, <1>4 DEF RowsInv
<1>6. (IsFiniteSet(Loader!MinuteRows))' /\ (Cardinality(Claimed) <= Cardinality(Loader!MinuteRows) + Cardinality(Loader!DailyRows))'
  BY <1>5 DEF Cardinality, IsFiniteSet
<1>7. loader'.todo \subseteq 1 .. (2 * Len(Universe)) /\ (loader'.pc = "count" => loader'.job \in Jobs)
  BY DEF RowsInv
<1> QED BY <1>6, <1>7 DEF RowsInv, Jobs, Loader!Instrument

\* What INSERT OR IGNORE adds to the daily bars.
LEMMA DailyRowsAdded ==
  ASSUME LoaderInv, NEW i \in Loader!Instrument, NEW days, dailyBars' = Loader!StoredDaily(i, days)
  PROVE  Loader!DailyRows' = Loader!DailyRows
           \cup ({i} \X {d \in 0 .. (Days - 1) : d \in days /\ dailyBars[i][d] = Loader!None})
<1>1. DOMAIN dailyBars = Loader!Instrument /\ \A j \in Loader!Instrument : DOMAIN dailyBars[j] = 0 .. (Days - 1)
  BY DEF LoaderInv, LoaderShape
<1>2. \A d : Loader!Turnover(d) # Loader!None
  <2>1. now \in Instants /\ Minutes \in Nat
    BY DEF LoaderInv, LoaderShape, Loader!CatchupAssumption
  <2>2. now.minute \in Nat
    BY <2>1 DEF Instants
  <2> QED BY <2>1, <2>2 DEF Loader!Turnover, Loader!None
<1>3. \A j \in Loader!Instrument \ {i} : dailyBars'[j] = dailyBars[j]
  BY <1>1 DEF Loader!StoredDaily
<1>4. \A d \in 0 .. (Days - 1) :
        dailyBars'[i][d] = IF d \in days /\ dailyBars[i][d] = Loader!None THEN Loader!Turnover(d) ELSE dailyBars[i][d]
  <2>1. dailyBars'[i] = [d \in DOMAIN dailyBars[i] |->
                           IF d \in days /\ dailyBars[i][d] = Loader!None THEN Loader!Turnover(d)
                           ELSE dailyBars[i][d]]
    BY <1>1 DEF Loader!StoredDaily
  <2> QED BY <1>1, <2>1
<1>5. Loader!DailyRows' = {r \in Loader!Instrument \X (0 .. (Days - 1)) : dailyBars'[r[1]][r[2]] # Loader!None}
  BY DEF Loader!DailyRows, Loader!Instrument, Loader!None
<1>6. ASSUME NEW j \in Loader!Instrument, NEW d \in 0 .. (Days - 1)
      PROVE  dailyBars'[j][d] # Loader!None
               <=> dailyBars[j][d] # Loader!None \/ (j = i /\ d \in days /\ dailyBars[i][d] = Loader!None)
  <2>1. CASE j = i
    BY <1>2, <1>4, <2>1
  <2>2. CASE j # i
    BY <1>3, <2>2
  <2> QED BY <2>1, <2>2
<1> HIDE DEF Loader!None
<1> QED BY <1>5, <1>6 DEF Loader!DailyRows

LEMMA RowsOfCapture == ASSUME LoaderInv, LoaderInv', RowsInv, Loader!CaptureToday PROVE RowsInv'
<1>1. /\ UNCHANGED <<minuteBars, ledger, loader>> /\ loader.pc = "idle"
      /\ dailyBars' = Loader!StoredDaily(Anchor, {now.day})
  BY DEF Loader!CaptureToday
<1>2. Loader!MinuteRows' = Loader!MinuteRows /\ Claimed' = Claimed
  BY <1>1 DEF Loader!MinuteRows, Loader!Instrument, Claimed, Inserts, Running
<1>3. Loader!DailyRows \subseteq Loader!DailyRows'
  <2>1. CASE Anchor \in Loader!Instrument
    BY <1>1, <2>1, DailyRowsAdded
  <2>2. CASE Anchor \notin Loader!Instrument
    <3>1. \A j \in Loader!Instrument : dailyBars'[j] = dailyBars[j]
      BY <1>1, <2>2 DEF Loader!StoredDaily, LoaderInv, LoaderShape
    <3> QED BY <3>1 DEF Loader!DailyRows, Loader!Instrument
  <2> QED BY <2>1, <2>2
<1>4. Loader!DailyRows' \subseteq Loader!Instrument \X (0 .. (Days - 1))
  BY DEF Loader!DailyRows, Loader!Instrument
<1>5. IsFiniteSet(Loader!Instrument \X (0 .. (Days - 1)))
  <2>1. Days - 1 \in Int /\ Loader!CatchupAssumption
    BY DEF LoaderInv, Loader!CatchupAssumption
  <2>2. IsFiniteSet(0 .. (Days - 1))
    BY <2>1, FS_Interval
  <2> QED BY <2>1, <2>2, InstrumentsFinite, FS_Product
<1>6. IsFiniteSet(Loader!DailyRows')
  BY <1>4, <1>5, FS_Subset
<1>7. /\ Cardinality(Loader!DailyRows) <= Cardinality(Loader!DailyRows')
      /\ Cardinality(Loader!DailyRows) \in Nat /\ Cardinality(Loader!DailyRows') \in Nat
  BY <1>3, <1>6, FS_Subset, FS_CardinalityType
<1>8. IsFiniteSet(Claimed) /\ Cardinality(Claimed) \in Nat
  BY ClaimsFinite
<1>9. /\ Cardinality(Claimed') <= Cardinality(Claimed) + 0
      /\ IsFiniteSet(Loader!MinuteRows')
      /\ Cardinality(Loader!MinuteRows') + Cardinality(Loader!DailyRows')
           >= Cardinality(Loader!MinuteRows) + Cardinality(Loader!DailyRows) + 0
  <2>1. IsFiniteSet(Loader!MinuteRows) /\ Cardinality(Loader!MinuteRows) \in Nat
    BY FS_CardinalityType DEF RowsInv
  <2> QED BY <1>2, <1>7, <1>8, <2>1
<1>10. loader' = loader /\ ~Running'
  BY <1>1 DEF Running
<1> QED BY <1>1, <1>9, <1>10, RowsMove

\* The bars of the page that are stored as new are as many as the run counts.
LEMMA NewBarsStored ==
  ASSUME LoaderInv, RowsInv, Loader!FetchStore
  PROVE  LET n == Cardinality(Loader!Fresh)
         IN /\ n \in Nat /\ IsFiniteSet(Loader!MinuteRows')
            /\ Cardinality(Loader!MinuteRows') + Cardinality(Loader!DailyRows')
                 >= Cardinality(Loader!MinuteRows) + Cardinality(Loader!DailyRows) + n
<1> DEFINE i == loader.job[1]   F == Loader!Fresh   n == Cardinality(F)
<1>1. loader.pc = "store" /\ i \in Loader!Instrument /\ IsFiniteSet(loader.bars)
  BY DEF Loader!FetchStore, RowsInv, Jobs, LoaderInv, LoaderShape
<1>2. IsFiniteSet(F) /\ n \in Nat
  <2>1. F \subseteq loader.bars
    BY DEF Loader!Fresh
  <2> QED BY <1>1, <2>1, FS_Subset, FS_CardinalityType
<1>3. /\ IsFiniteSet(Loader!MinuteRows) /\ IsFiniteSet(Loader!DailyRows)
      /\ Cardinality(Loader!MinuteRows) \in Nat /\ Cardinality(Loader!DailyRows) \in Nat
  BY DailyRowsFinite, FS_CardinalityType DEF RowsInv, LoaderInv
\* A set of rows of the instrument is as large as the set of its bars.
<1>4. ASSUME NEW S, IsFiniteSet(S)
      PROVE  IsFiniteSet({i} \X S) /\ Cardinality({i} \X S) = Cardinality(S)
  <2>1. IsFiniteSet({i}) /\ Cardinality({i}) = 1
    BY FS_Singleton
  <2>2. Cardinality(S) \in Nat
    BY <1>4, FS_CardinalityType
  <2>3. IsFiniteSet({i} \X S) /\ Cardinality({i} \X S) = Cardinality({i}) * Cardinality(S)
    BY <1>4, <2>1, FS_Product
  <2> QED BY <2>1, <2>2, <2>3
\* New rows add to the rows there are.
<1>5. ASSUME NEW R, NEW S, IsFiniteSet(R), IsFiniteSet(S), R \cap ({i} \X S) = {}
      PROVE  /\ IsFiniteSet(R \cup ({i} \X S))
             /\ Cardinality(R \cup ({i} \X S)) = Cardinality(R) + Cardinality(S)
  <2> DEFINE both == R \cap ({i} \X S)
  <2>1. IsFiniteSet({i} \X S) /\ Cardinality({i} \X S) = Cardinality(S)
    BY <1>4, <1>5
  <2>2. /\ IsFiniteSet(R \cup ({i} \X S))
        /\ Cardinality(R \cup ({i} \X S)) = Cardinality(R) + Cardinality({i} \X S) - Cardinality(both)
    BY <1>5, <2>1, FS_Union
  <2>3. Cardinality({}) = 0 /\ Cardinality(R) \in Nat /\ Cardinality(S) \in Nat
    BY <1>5, FS_EmptySet, FS_CardinalityType
  <2>4. both = {}
    BY <1>5, Zenon
  <2> HIDE DEF both
  <2> QED BY <2>1, <2>2, <2>3, <2>4
<1>6. CASE loader.job[2] = "1m"
  <2>1. minuteBars' = [minuteBars EXCEPT ![i] = @ \cup loader.bars] /\ dailyBars' = dailyBars
    BY <1>6 DEF Loader!FetchStore
  <2>2. F = loader.bars \ minuteBars[i] /\ DOMAIN minuteBars = Loader!Instrument
    BY <1>6 DEF Loader!Fresh, LoaderInv, LoaderShape
  <2>3. Loader!DailyRows' = Loader!DailyRows
    BY <2>1 DEF Loader!DailyRows, Loader!Instrument
  <2>4. Loader!MinuteRows' = Loader!MinuteRows \cup ({i} \X F)
    <3>1. minuteBars'[i] = minuteBars[i] \cup F /\ \A j \in Loader!Instrument \ {i} : minuteBars'[j] = minuteBars[j]
      BY <1>1, <2>1, <2>2
    <3>2. Loader!MinuteRows' = UNION {{j} \X minuteBars'[j] : j \in Loader!Instrument}
      BY DEF Loader!MinuteRows, Loader!Instrument
    <3>3. ASSUME NEW j \in Loader!Instrument, NEW b
          PROVE  b \in minuteBars'[j] <=> b \in minuteBars[j] \/ (j = i /\ b \in F)
      BY <3>1
    <3> HIDE DEF F, i
    <3>4. Loader!MinuteRows' \subseteq Loader!MinuteRows \cup ({i} \X F)
      BY <3>2, <3>3 DEF Loader!MinuteRows
    <3>5. Loader!MinuteRows \subseteq Loader!MinuteRows'
      BY <3>2, <3>3 DEF Loader!MinuteRows
    <3>6. {i} \X F \subseteq Loader!MinuteRows'
      BY <1>1, <3>2, <3>3
    <3> QED BY <3>4, <3>5, <3>6
  <2>5. Loader!MinuteRows \cap ({i} \X F) = {}
    BY <2>2 DEF Loader!MinuteRows
  <2> HIDE DEF F, i
  <2>6. IsFiniteSet(Loader!MinuteRows') /\ Cardinality(Loader!MinuteRows') = Cardinality(Loader!MinuteRows) + n
    BY <1>2, <1>3, <1>5, <2>4, <2>5
  <2> QED BY <1>2, <1>3, <2>3, <2>6 DEF F
<1>7. CASE loader.job[2] # "1m"
  <2> DEFINE days == {b[1] : b \in loader.bars}
             D == {d \in 0 .. (Days - 1) : d \in days /\ dailyBars[i][d] = Loader!None}
  <2>1. dailyBars' = Loader!StoredDaily(i, days) /\ minuteBars' = minuteBars
    BY <1>7 DEF Loader!FetchStore
  <2>2. Loader!MinuteRows' = Loader!MinuteRows
    BY <2>1 DEF Loader!MinuteRows, Loader!Instrument
  <2>3. Loader!DailyRows' = Loader!DailyRows \cup ({i} \X D)
    BY <1>1, <2>1, DailyRowsAdded
  <2>4. Loader!DailyRows \cap ({i} \X D) = {}
    BY DEF Loader!DailyRows
  <2>5. IsFiniteSet(D) /\ Cardinality(D) = n
    <3>1. F = {b \in loader.bars : dailyBars[i][b[1]] = Loader!None}
      BY <1>7 DEF Loader!Fresh
    <3>2. \A b \in loader.bars : b[1] \in 0 .. (Days - 1) /\ b = <<b[1], 0>>
      BY <1>1, <1>7 DEF RowsInv
    <3> DEFINE g == [b \in F |-> b[1]]
    <3>3. \A b \in F : b \in loader.bars /\ b[1] \in D
      BY <3>1, <3>2
    <3>4. \A d \in D : \E b \in F : b[1] = d
      BY <3>1
    <3>5. \A a, b \in F : a[1] = b[1] => a = b
      BY <3>2, <3>3
    <3> HIDE DEF D, F
    <3>6. g \in Bijection(F, D)
      <4>1. g \in [F -> D] /\ \A b \in F : g[b] = b[1]
        BY <3>3
      <4> HIDE DEF g
      <4>2. IsInjective(g) /\ \A d \in D : \E b \in F : g[b] = d
        BY <3>4, <3>5, <4>1 DEF IsInjective
      <4> QED BY <4>1, <4>2 DEF Bijection, Injection, Surjection
    <3>7. ExistsBijection(F, D)
      BY <3>6 DEF ExistsBijection
    <3> QED BY <1>2, <3>7, FS_Bijection
  <2> HIDE DEF D, F, i
  <2>6. Cardinality(Loader!DailyRows') = Cardinality(Loader!DailyRows) + n
    BY <1>3, <1>5, <2>3, <2>4, <2>5
  <2> QED BY <1>2, <1>3, <2>2, <2>6 DEF F
<1> QED BY <1>6, <1>7

LEMMA RowsOfStore == ASSUME LoaderInv, LoaderInv', RowsInv, Loader!FetchStore PROVE RowsInv'
<1> DEFINE n == Cardinality(Loader!Fresh)   m == Len(ledger)   a == loader.counters.inserted
           new == {m} \X (a + 1 .. a + n)
<1>1. /\ n \in Nat /\ IsFiniteSet(Loader!MinuteRows')
      /\ Cardinality(Loader!MinuteRows') + Cardinality(Loader!DailyRows')
           >= Cardinality(Loader!MinuteRows) + Cardinality(Loader!DailyRows) + n
  BY NewBarsStored
<1>2. /\ ledger' = ledger /\ loader.pc = "store" /\ Running
      /\ loader' = [loader EXCEPT !.pc = "count", !.counters.inserted = @ + n,
                                  !.counters.duplicate = @ + Cardinality(loader.bars) - n]
  BY LoaderCardinality DEF Loader!FetchStore, Loader!Inserted, Running
<1>3. /\ DOMAIN loader = DOMAIN Loader!Idle /\ loader.counters \in Counts
      /\ ledger \in Seq(Runs) /\ ledger # << >>
  BY <1>2 DEF LoaderInv, LoaderShape, Running
<1> HIDE DEF n
<1>4. /\ loader'.pc = "count" /\ loader'.todo = loader.todo /\ loader'.job = loader.job
      /\ loader'.counters.inserted = a + n
  BY <1>2, <1>3 DEF Loader!Idle, Counts
<1>5. a \in Nat /\ m \in 1 .. Len(ledger) /\ Running' /\ ledger[m].counters.inserted \in Nat
  <2>1. ledger[m] \in Runs
    BY <1>3
  <2> QED BY <1>3, <1>4, <2>1 DEF Counts, Runs, Running
<1>6. Claimed' \subseteq Claimed \cup new
  <2> SUFFICES ASSUME NEW k \in 1 .. m, NEW x \in 1 .. (Inserts(k))' PROVE <<k, x>> \in Claimed \cup new
    BY <1>2 DEF Claimed
  <2>1. CASE k = m
    <3>1. (Inserts(k))' = a + n /\ Inserts(k) = a
      BY <1>2, <1>4, <1>5, <2>1 DEF Inserts
    <3>2. x \in 1 .. a \/ x \in a + 1 .. a + n
      BY <1>1, <1>5, <3>1
    <3> QED BY <2>1, <3>1, <3>2 DEF Claimed
  <2>2. CASE k # m
    <3>1. (Inserts(k))' = Inserts(k)
      BY <1>2, <2>2 DEF Inserts
    <3> QED BY <3>1 DEF Claimed
  <2> QED BY <2>1, <2>2
<1>7. IsFiniteSet(new) /\ Cardinality(new) = n
  <2>1. \A x, y \in Nat : IsFiniteSet(x + 1 .. x + y) /\ Cardinality(x + 1 .. x + y) = y
    <3> SUFFICES ASSUME NEW x \in Nat, NEW y \in Nat
                 PROVE  IsFiniteSet(x + 1 .. x + y) /\ Cardinality(x + 1 .. x + y) = y
      OBVIOUS
    <3> QED BY FS_Interval
  <2>2. IsFiniteSet(a + 1 .. a + n) /\ Cardinality(a + 1 .. a + n) = n
    BY <1>1, <1>5, <2>1
  <2>3. IsFiniteSet({m}) /\ Cardinality({m}) = 1
    BY FS_Singleton
  <2>4. IsFiniteSet(new) /\ Cardinality(new) = Cardinality({m}) * Cardinality(a + 1 .. a + n)
    BY <2>2, <2>3, FS_Product
  <2> QED BY <1>1, <2>2, <2>3, <2>4
<1> HIDE DEF new
<1>8. Cardinality(Claimed') <= Cardinality(Claimed) + n
  <2>1. IsFiniteSet(Claimed) /\ Cardinality(Claimed) \in Nat
    BY ClaimsFinite
  <2>2. /\ IsFiniteSet(Claimed \cup new)
        /\ Cardinality(Claimed \cup new) = Cardinality(Claimed) + n - Cardinality(Claimed \cap new)
    BY <1>7, <2>1, FS_Union
  <2>3. Cardinality(Claimed \cap new) \in Nat
    BY <2>1, FS_Intersection, FS_CardinalityType
  <2>4. Cardinality(Claimed') <= Cardinality(Claimed \cup new) /\ Cardinality(Claimed') \in Nat
    BY <1>6, <2>2, FS_Subset, FS_CardinalityType
  <2> QED BY <1>1, <2>1, <2>2, <2>3, <2>4
<1>9. ledger'[Len(ledger')].counters.inserted <= loader'.counters.inserted
  <2>1. ledger[m].counters.inserted <= a
    BY <1>2 DEF RowsInv
  <2> QED BY <1>1, <1>2, <1>4, <1>5, <2>1
<1> QED BY <1>1, <1>2, <1>4, <1>8, <1>9, RowsMove

LEMMA RowsInit == LoaderInv /\ Loader!Init => RowsInv
<1> SUFFICES ASSUME LoaderInv, Loader!Init PROVE RowsInv
  OBVIOUS
<1>1. /\ ledger = << >> /\ loader = Loader!Idle /\ minuteBars = [i \in Loader!Instrument |-> {}]
      /\ dailyBars = [i \in Loader!Instrument |-> [d \in 0 .. (Days - 1) |-> Loader!None]]
  BY DEF Loader!Init
<1>2. loader.pc = "idle" /\ loader.todo = {} /\ ~Running
  BY <1>1 DEF Loader!Idle, Running
<1>3. Claimed = {} /\ Loader!MinuteRows = {}
  BY <1>1 DEF Claimed, Loader!MinuteRows
<1>4. IsFiniteSet({}) /\ Cardinality({}) = 0
  BY FS_EmptySet
<1>5. Cardinality(Loader!DailyRows) \in Nat
  BY DailyRowsFinite DEF LoaderInv
<1> QED BY <1>2, <1>3, <1>4, <1>5 DEF RowsInv

THEOREM RowsInvariance == Loader!CatchupAssumption /\ Loader!Spec => []RowsInv
<1>1. LoaderInv /\ LoaderInv' /\ RowsInv /\ [Loader!Next]_(Loader!vars) => RowsInv'
  <2> SUFFICES ASSUME LoaderInv, LoaderInv', RowsInv, [Loader!Next]_(Loader!vars) PROVE RowsInv'
    OBVIOUS
  <2>1. CASE UNCHANGED Loader!vars
    BY <2>1, RowsRest DEF Loader!vars
  <2>2. CASE Loader!Tick \/ Loader!CaptureToday \/ Loader!Kill
    BY <2>2, RowsOfWalk, RowsOfCapture, RowsOfEnd
  <2>3. CASE Loader!Warm
    BY <2>3, RowsOfWalk, RowsOfEnd DEF Loader!Warm
  <2>4. CASE Loader!Fetch
    BY <2>4, RowsOfWalk, RowsOfFetch, RowsOfStore DEF Loader!Fetch
  <2> QED BY <2>1, <2>2, <2>3, <2>4 DEF Loader!Next
<1> QED BY <1>1, RowsInit, LoaderInvariance, PTL DEF Loader!Spec

\* TdxHistoricalLoader._fetch: a run counts a bar only once it is stored, so all the rows that the
\* runs say they inserted are rows of tdx_bar, whatever was killed or failed between.
THEOREM RowsExist == Loader!CatchupAssumption /\ Loader!Spec => []Loader!LedgerTellsTruth
<1>1. ASSUME LoaderInv, RowsInv, Loader!CountedRowsAreFetched PROVE Loader!LedgerTellsTruth
  <2>1. Loader!ClaimedRows \subseteq Claimed
    <3> SUFFICES ASSUME NEW k \in 1 .. Len(ledger), NEW x \in 1 .. ledger[k].counters.inserted
                 PROVE  <<k, x>> \in Claimed
      BY DEF Loader!ClaimedRows
    <3>1. ledger \in Seq(Runs) /\ loader.counters \in Counts
      BY <1>1 DEF LoaderInv, LoaderShape
    <3>2. ledger[k] \in Runs
      BY <3>1
    <3>3. ledger[k].counters.inserted \in Nat /\ loader.counters.inserted \in Nat
      BY <3>1, <3>2 DEF Runs, Counts
    <3>4. Running => ledger[Len(ledger)].counters.inserted <= loader.counters.inserted
      BY <1>1 DEF RowsInv
    <3>5. x \in 1 .. Inserts(k)
      BY <3>3, <3>4 DEF Inserts
    <3> QED BY <3>5 DEF Claimed
  <2>2. IsFiniteSet(Claimed) /\ Cardinality(Claimed) \in Nat
    BY <1>1, ClaimsFinite
  <2>3. Cardinality(Loader!ClaimedRows) \in Nat /\ Cardinality(Loader!ClaimedRows) <= Cardinality(Claimed)
    BY <2>1, <2>2, FS_Subset, FS_CardinalityType
  <2>4. Cardinality(Loader!MinuteRows) \in Nat /\ Cardinality(Loader!DailyRows) \in Nat
    BY <1>1, DailyRowsFinite, FS_CardinalityType DEF RowsInv, LoaderInv
  <2>5. Cardinality(Loader!ClaimedRows) <= Cardinality(Loader!MinuteRows) + Cardinality(Loader!DailyRows)
    BY <1>1, <2>2, <2>3, <2>4 DEF RowsInv
  <2> QED BY <1>1, <2>5, LoaderCardinality DEF Loader!LedgerTellsTruth
<1> QED BY <1>1, LoaderInvariance, RowsInvariance, CountsFetched, PTL

\* What the ledger says of the catch-up is so: its counts and its FIT.
THEOREM CatchupTrue == Loader!CatchupAssumption /\ Loader!Spec => []Loader!CatchupTellsTruth
<1>1. Loader!LedgerTellsTruth /\ Loader!FitIsEarned => Loader!CatchupTellsTruth
  BY DEF Loader!CatchupTellsTruth
<1> QED BY <1>1, RowsExist, FitEarned, PTL

-----------------------------------------------------------------------------
(***************************************************************************)
(* The sweep of the primary universe (Acquisition), for any universe,      *)
(* batch size and answers: when it reports, every member has a quote or is *)
(* in quarantine, only what answered wrongly is put there, and the minute  *)
(* report counts whole tails.                                              *)
(***************************************************************************)
Answers == [code : Sweep!Instrument, volume : Int]
Polls == [pc : {"idle", "ask", "judge"}, at : Int, todo : Seq(Seq(Sweep!Instrument)),
          answer : Seq(Answers), good : SUBSET Answers, accepted : Seq(SUBSET Answers),
          returned : [{0, 1} -> Nat]]

SweepShape ==
  /\ time \in Nat /\ poll \in Polls
  /\ DOMAIN faulty = Sweep!Instrument
  /\ quarantine \in [Sweep!Instrument -> [failures : Nat, retry : Int]]
  /\ previous \in [Sweep!Instrument -> Int]
  /\ newest \in [Sweep!Instrument -> [at : Int, volume : Int]]
  /\ quoteHealth \in [at : Int, returned : [{0, 1} -> Nat]]

\* What is in a list of batches, in an answer, in quotes that were accepted, in a list of those.
InBatches(T, i) == \E k \in DOMAIN T : \E n \in DOMAIN T[k] : T[k][n] = i
InAnswer(A, i) == \E k \in DOMAIN A : A[k].code = i
InQuotes(Q, i) == \E q \in Q : q.code = i
InLists(C, i) == \E k \in DOMAIN C : InQuotes(C[k], i)

\* ... and that nothing is in it twice.
BatchesOnce(T) == \A k, l \in DOMAIN T : \A m \in DOMAIN T[k], n \in DOMAIN T[l] :
                    T[k][m] = T[l][n] => k = l /\ m = n
AnswerOnce(A) == \A k, l \in DOMAIN A : A[k].code = A[l].code => k = l
QuotesOnce(Q) == \A p, q \in Q : p.code = q.code => p = q
ListsOnce(C) == \A k, l \in DOMAIN C : \A p \in C[k], q \in C[l] : p.code = q.code => k = l /\ p = q

IsStored(i) == newest[i].at = poll.at
IsQuarantined(i) == quarantine[i].retry > poll.at

\* Nothing of a sweep that has begun is older than it, and no report is of it yet.
SweepTimes ==
  /\ poll.at <= time /\ quoteHealth.at <= poll.at
  /\ \A i \in Sweep!Instrument : newest[i].at <= poll.at
  /\ poll.pc # "idle" => quoteHealth.at < poll.at
  /\ poll.pc # "judge" => poll.answer = << >> /\ poll.good = {}

\* Each symbol is in one place, once.
OnceEach == /\ BatchesOnce(poll.todo) /\ AnswerOnce(poll.answer)
            /\ QuotesOnce(poll.good) /\ ListsOnce(poll.accepted)
InOnePlace ==
  \A i \in Sweep!Instrument :
    /\ InBatches(poll.todo, i) =>
         ~(InAnswer(poll.answer, i) \/ InQuotes(poll.good, i) \/ InLists(poll.accepted, i) \/ IsStored(i))
    /\ InAnswer(poll.answer, i) =>
         ~(InQuotes(poll.good, i) \/ InLists(poll.accepted, i) \/ IsStored(i))
    /\ InQuotes(poll.good, i) => ~(InLists(poll.accepted, i) \/ IsStored(i))
    /\ InLists(poll.accepted, i) => ~IsStored(i)
Somewhere ==
  \A i \in Sweep!Instrument :
    \/ InBatches(poll.todo, i) \/ InAnswer(poll.answer, i) \/ InQuotes(poll.good, i)
    \/ InLists(poll.accepted, i) \/ IsStored(i) \/ IsQuarantined(i)

\* The symbols of a market that are stored by this sweep.
StoredOf(m) == {i \in Sweep!Instrument : Market[i] = m /\ IsStored(i)}

RefreshOK ==
  /\ refresh.pc \in {"idle", "collect", "record", "report"}
  /\ refresh.candidates \subseteq Sweep!Instrument \ Suspended
  /\ refresh.pc = "report" =>
       \A i \in Sweep!Instrument : {b[2] : b \in {c \in refresh.bars : c[1] = i}} \subseteq minutes[i]
  /\ minuteHealth.valid \in Nat /\ Sweep!MinutesBehindTheReport

UnderWay ==
  poll.pc # "idle" =>
    /\ OnceEach /\ InOnePlace /\ Somewhere
    /\ \A m \in {0, 1} : poll.returned[m] = Cardinality(StoredOf(m))

SweepInv ==
  /\ Sweep!SweepAssumption /\ SweepShape /\ SweepTimes /\ UnderWay
  /\ Sweep!EveryMemberAnswered /\ RefreshOK

LEMMA SweepCardinality == \A S : Sweep!Cardinality(S) = Cardinality(S)
BY DEF Sweep!Cardinality, Cardinality

\* The positions of a finite set of numbers are numbered without a gap, each once.
LEMMA Ranks ==
  ASSUME NEW N \in Nat, NEW K \in SUBSET (1 .. N)
  PROVE  LET rank(k) == Cardinality({j \in K : j <= k})
         IN /\ Cardinality(K) \in Nat
            /\ \A j, k \in K : rank(j) = rank(k) => j = k
            /\ \A n \in 1 .. Cardinality(K) : \E k \in K : rank(k) = n
<1> DEFINE upto(k) == {j \in K : j <= k}   rank(k) == Cardinality(upto(k))
<1>0. K \subseteq Nat
  OBVIOUS
<1>1. IsFiniteSet(K) /\ Cardinality(K) \in Nat
  <2>1. IsFiniteSet(1 .. N)
    BY FS_Interval
  <2> QED BY <2>1, FS_Subset, FS_CardinalityType
<1>2. \A k \in K : rank(k) \in 1 .. Cardinality(K)
  <2> TAKE k \in K
  <2>1. upto(k) \subseteq K /\ IsFiniteSet(upto(k)) /\ rank(k) \in Nat /\ rank(k) <= Cardinality(K)
    BY <1>1, FS_Subset, FS_CardinalityType
  <2>2. k \in upto(k)
    BY <1>0
  <2>3. rank(k) # 0
    BY <2>1, <2>2, FS_EmptySet
  <2> QED BY <1>1, <2>1, <2>3
<1>3. \A j, k \in K : j < k => rank(j) < rank(k)
  <2> SUFFICES ASSUME NEW j \in K, NEW k \in K, j < k PROVE rank(j) < rank(k)
    OBVIOUS
  <2>1. upto(j) \subseteq upto(k) /\ k \in upto(k) /\ k \notin upto(j)
    <3>1. j \in Nat /\ k \in Nat
      BY <1>0
    <3>2. \A i \in K : i <= j => i <= k
      BY <1>0, <3>1
    <3>3. upto(j) \subseteq upto(k)
      BY <3>2
    <3>4. k \in upto(k) /\ k \notin upto(j)
      BY <3>1
    <3> QED BY <3>3, <3>4
  <2>2. IsFiniteSet(upto(k))
    BY <1>1, FS_Subset
  <2>3. rank(j) <= rank(k) /\ (rank(j) = rank(k) => upto(j) = upto(k))
    BY <2>1, <2>2, FS_Subset
  <2>4. rank(j) \in Int /\ rank(k) \in Int
    BY <1>2
  <2> HIDE DEF rank, upto
  <2> QED BY <2>1, <2>3, <2>4
<1> HIDE DEF rank, upto
<1>4. \A j, k \in K : rank(j) = rank(k) => j = k
  <2> SUFFICES ASSUME NEW j \in K, NEW k \in K, rank(j) = rank(k) PROVE j = k
    OBVIOUS
  <2>1. rank(j) \in Int /\ j \in Int /\ k \in Int
    BY <1>2
  <2> QED BY <1>3, <2>1
<1>5. \A n \in 1 .. Cardinality(K) : \E k \in K : rank(k) = n
  <2> DEFINE f == [k \in K |-> rank(k)]   T == {f[k] : k \in K}
  <2>1. f \in Bijection(K, T)
    BY <1>4 DEF Bijection, Injection, Surjection, IsInjective
  <2>2. Cardinality(T) = Cardinality(K)
    BY <1>1, <2>1, FS_Bijection DEF ExistsBijection
  <2>3. T \subseteq 1 .. Cardinality(K)
    BY <1>2
  <2>4. IsFiniteSet(1 .. Cardinality(K)) /\ Cardinality(1 .. Cardinality(K)) = Cardinality(K)
    BY <1>1, FS_Interval
  <2>5. T = 1 .. Cardinality(K)
    BY <2>2, <2>3, <2>4, FS_Subset
  <2> QED BY <2>5
<1> QED BY <1>1, <1>4, <1>5 DEF rank, upto

\* The symbols at some positions are listed once each.
LEMMA Listed ==
  ASSUME Sweep!SweepAssumption, NEW K \in SUBSET (1 .. Len(Polled))
  PROVE  LET s == Sweep!InOrder(K)
         IN /\ s \in Seq(Sweep!Instrument)
            /\ \A m, n \in DOMAIN s : s[m] = s[n] => m = n
            /\ \A n \in DOMAIN s : \E k \in K : s[n] = Polled[k]
            /\ \A k \in K : \E n \in DOMAIN s : s[n] = Polled[k]
<1> DEFINE rank(k) == Sweep!Cardinality({j \in K : j <= k})
           place(n) == CHOOSE k \in K : rank(k) = n
           s == [n \in 1 .. Sweep!Cardinality(K) |-> Polled[place(n)]]
<1>1. Len(Polled) \in Nat
  BY DEF Sweep!SweepAssumption
<1>0. K \subseteq Nat
  BY <1>1
<1>2. /\ Cardinality(K) \in Nat
      /\ \A j, k \in K : rank(j) = rank(k) => j = k
      /\ \A n \in 1 .. Cardinality(K) : \E k \in K : rank(k) = n
  <2> DEFINE r(k) == Cardinality({j \in K : j <= k})
  <2>1. /\ Cardinality(K) \in Nat
        /\ \A j, k \in K : r(j) = r(k) => j = k
        /\ \A n \in 1 .. Cardinality(K) : \E k \in K : r(k) = n
    BY <1>1, Ranks
  <2>2. \A k \in K : rank(k) = r(k)
    BY SweepCardinality
  <2> HIDE DEF r, rank
  <2> QED BY <2>1, <2>2
<1>3. \A k \in K : rank(k) \in 1 .. Cardinality(K)
  <2> TAKE k \in K
  <2> DEFINE upto == {j \in K : j <= k}
  <2>1. IsFiniteSet(K)
    <3>1. IsFiniteSet(1 .. Len(Polled))
      BY <1>1, FS_Interval
    <3> QED BY <3>1, FS_Subset
  <2>2. upto \subseteq K /\ k \in upto
    BY <1>0
  <2>3. IsFiniteSet(upto) /\ Cardinality(upto) \in Nat /\ Cardinality(upto) <= Cardinality(K)
    BY <2>1, <2>2, FS_Subset, FS_CardinalityType
  <2>4. Cardinality(upto) # 0
    BY <2>2, <2>3, FS_EmptySet
  <2>5. rank(k) = Cardinality(upto)
    BY SweepCardinality
  <2> HIDE DEF rank, upto
  <2> QED BY <1>2, <2>3, <2>4, <2>5
<1>4. Sweep!InOrder(K) = s
  BY DEF Sweep!InOrder
<1> HIDE DEF rank
<1>5. \A n \in 1 .. Cardinality(K) : place(n) \in K /\ rank(place(n)) = n
  BY <1>2
<1> HIDE DEF place
<1>6. \A k \in 1 .. Len(Polled) : Polled[k] \in Sweep!Instrument
  BY DEF Sweep!Instrument
<1>7. s \in Seq(Sweep!Instrument) /\ DOMAIN s = 1 .. Cardinality(K)
  <2>1. DOMAIN s = 1 .. Cardinality(K) /\ s = [n \in 1 .. Cardinality(K) |-> s[n]]
    BY SweepCardinality
  <2>2. \A n \in 1 .. Cardinality(K) : s[n] \in Sweep!Instrument
    BY <1>5, <1>6, SweepCardinality
  <2> HIDE DEF s
  <2> QED BY <1>2, <2>1, <2>2, IsASeq
<1>8. \A m, n \in DOMAIN s : s[m] = s[n] => m = n
  <2> SUFFICES ASSUME NEW m \in DOMAIN s, NEW n \in DOMAIN s, s[m] = s[n] PROVE m = n
    OBVIOUS
  <2>0. m \in 1 .. Cardinality(K) /\ n \in 1 .. Cardinality(K)
    BY <1>7
  <2>1. Polled[place(m)] = Polled[place(n)] /\ place(m) \in K /\ place(n) \in K
    BY <1>5, <2>0
  <2>2. place(m) = place(n)
    BY <2>1 DEF Sweep!SweepAssumption
  <2> QED BY <1>5, <2>0, <2>2
<1>9. \A k \in K : \E n \in DOMAIN s : s[n] = Polled[k]
  <2> TAKE k \in K
  <2>1. rank(k) \in 1 .. Cardinality(K)
    BY <1>3
  <2>2. place(rank(k)) \in K /\ rank(place(rank(k))) = rank(k)
    BY <1>5, <2>1
  <2>3. place(rank(k)) = k
    BY <1>2, <2>2
  <2> QED BY <1>7, <2>1, <2>3
<1>10. \A n \in DOMAIN s : \E k \in K : s[n] = Polled[k]
  BY <1>5, <1>7
<1> HIDE DEF s
<1> QED BY <1>4, <1>7, <1>8, <1>9, <1>10

LEMMA Multiples ==
  ASSUME NEW x \in Int, NEW y \in Int, NEW b \in Nat \ {0}
  PROVE  /\ x * b \in Int /\ (x + 1) * b = x * b + b /\ (x - 1) * b = x * b - b
         /\ x <= y => x * b <= y * b
         /\ x * b < y * b => x < y
<1>1. x * b \in Int /\ y * b \in Int /\ (x + 1) * b = x * b + b /\ (x - 1) * b = x * b - b
  OBVIOUS
<1>2. ASSUME NEW u \in Int, NEW v \in Int, u <= v PROVE u * b <= v * b
  <2> DEFINE c == v - u
  <2>1. c \in Nat /\ v = u + c
    BY <1>2
  <2> HIDE DEF c
  <2>2. c * b \in Nat
    BY <2>1
  <2>3. (u + c) * b = u * b + c * b
    BY <2>1
  <2>4. u * b \in Int
    OBVIOUS
  <2> QED BY <2>1, <2>2, <2>3, <2>4
<1>3. x * b < y * b => x < y
  <2>1. y <= x => y * b <= x * b
    BY <1>2
  <2> QED BY <1>1, <2>1
<1> QED BY <1>1, <1>2, <1>3

\* A position is in one batch, at one place.
LEMMA Positions ==
  \A b \in Nat \ {0} : \A k, l \in Int : \A m, n \in 1 .. b :
    (k - 1) * b + m = (l - 1) * b + n => k = l /\ m = n
<1> SUFFICES ASSUME NEW b \in Nat \ {0}, NEW k \in Int, NEW l \in Int, NEW m \in 1 .. b, NEW n \in 1 .. b,
                    (k - 1) * b + m = (l - 1) * b + n
             PROVE  k = l /\ m = n
  OBVIOUS
<1> DEFINE x == (k - 1) * b   y == (l - 1) * b
<1>1. /\ x \in Int /\ k * b = x + b
      /\ y \in Int /\ l * b = y + b
  <2>1. k - 1 \in Int /\ l - 1 \in Int /\ k - 1 + 1 = k /\ l - 1 + 1 = l
    OBVIOUS
  <2> QED BY <2>1, Multiples
<1>2. (k <= l - 1 => k * b <= y) /\ (l <= k - 1 => l * b <= x)
  <2>1. k - 1 \in Int /\ l - 1 \in Int
    OBVIOUS
  <2> QED BY <2>1, Multiples
<1>3. x + m = y + n
  OBVIOUS
<1> HIDE DEF x, y
<1>4. ~(k <= l - 1) /\ ~(l <= k - 1)
  BY <1>1, <1>2, <1>3
<1>5. k = l
  BY <1>4
<1>6. x = y
  BY <1>5 DEF x, y
<1>7. m = n
  BY <1>1, <1>3, <1>6
<1> QED BY <1>5, <1>7

LEMMA Quotient ==
  ASSUME NEW a \in Nat, NEW b \in Nat \ {0}
  PROVE  a \div b \in Nat /\ (a \div b) * b <= a /\ a < (a \div b) * b + b
<1>1. a \div b \in Nat
  OBVIOUS
<1>2. a % b \in 0 .. (b - 1)
  OBVIOUS
<1>3. a = b * (a \div b) + (a % b)
  OBVIOUS
<1> QED BY <1>1, <1>2, <1>3

\* The batches of a sequence are its parts, one after the other.
LEMMA Batched ==
  ASSUME Sweep!SweepAssumption, NEW s \in Seq(Sweep!Instrument)
  PROVE  LET b == Sweep!Batches(s)
         IN /\ b \in Seq(Seq(Sweep!Instrument))
            /\ \A k \in DOMAIN b : \A m \in DOMAIN b[k] :
                 /\ m \in 1 .. BatchSize /\ (k - 1) * BatchSize + m \in DOMAIN s
                 /\ b[k][m] = s[(k - 1) * BatchSize + m]
            /\ \A n \in DOMAIN s : \E k \in DOMAIN b : \E m \in DOMAIN b[k] : b[k][m] = s[n]
<1> DEFINE d == (Len(s) + BatchSize - 1) \div BatchSize
           high(k) == IF k * BatchSize < Len(s) THEN k * BatchSize ELSE Len(s)
           piece(k) == SubSeq(s, (k - 1) * BatchSize + 1, high(k))
           b == [k \in 1 .. d |-> piece(k)]
<1>1. BatchSize \in Nat \ {0} /\ Len(s) \in Nat
  BY DEF Sweep!SweepAssumption
<1>2. d \in Nat /\ d * BatchSize \in Int /\ Len(s) <= d * BatchSize /\ (d - 1) * BatchSize < Len(s)
  <2>1. Len(s) + BatchSize - 1 \in Nat
    BY <1>1
  <2>2. d \in Nat /\ d * BatchSize <= Len(s) + BatchSize - 1 /\ Len(s) + BatchSize - 1 < d * BatchSize + BatchSize
    BY <1>1, <2>1, Quotient
  <2> HIDE DEF d
  <2>3. d * BatchSize \in Int /\ (d - 1) * BatchSize = d * BatchSize - BatchSize
    BY <1>1, <2>2, Multiples
  <2> QED BY <1>1, <2>2, <2>3
<1> HIDE DEF d
<1>3. Sweep!Batches(s) = b
  BY DEF Sweep!Batches, d
<1>4. \A k \in 1 .. d :
        LET r == (k - 1) * BatchSize
        IN /\ r \in Nat /\ k * BatchSize = r + BatchSize
           /\ high(k) \in Nat /\ r < high(k) /\ high(k) <= Len(s) /\ high(k) <= r + BatchSize
  <2> TAKE k \in 1 .. d
  <2> DEFINE r == (k - 1) * BatchSize
  <2>1. r \in Nat /\ r <= (d - 1) * BatchSize /\ k * BatchSize = r + BatchSize
    <3>1. k - 1 \in Nat /\ d - 1 \in Int /\ k - 1 <= d - 1 /\ (k - 1) + 1 = k
      BY <1>2
    <3>2. 0 * BatchSize <= r /\ r \in Int /\ ((k - 1) + 1) * BatchSize = r + BatchSize
      BY <1>1, <3>1, Multiples
    <3>3. r <= (d - 1) * BatchSize
      BY <1>1, <3>1, Multiples
    <3>4. 0 * BatchSize = 0
      BY <1>1
    <3> HIDE DEF r
    <3> QED BY <3>1, <3>2, <3>3, <3>4
  <2>2. (d - 1) * BatchSize \in Int
    BY <1>1, <1>2
  <2> HIDE DEF r
  <2>3. r < Len(s)
    BY <1>1, <1>2, <2>1, <2>2
  <2> QED BY <1>1, <2>1, <2>3 DEF r
<1>5. \A k \in 1 .. d :
        LET r == (k - 1) * BatchSize
        IN /\ piece(k) \in Seq(Sweep!Instrument) /\ Len(piece(k)) = high(k) - r
           /\ \A m \in 1 .. high(k) - r : piece(k)[m] = s[r + m]
  <2> TAKE k \in 1 .. d
  <2> DEFINE r == (k - 1) * BatchSize
  <2>1. r \in Nat /\ high(k) \in Nat /\ r < high(k) /\ high(k) <= Len(s)
    BY <1>4
  <2> HIDE DEF high, r
  <2>2. r + 1 \in Int /\ high(k) \in Int /\ \A i \in (r + 1) .. high(k) : s[i] \in Sweep!Instrument
    BY <1>1, <2>1
  <2>3. LET t == SubSeq(s, r + 1, high(k))
        IN /\ t \in Seq(Sweep!Instrument)
           /\ Len(t) = IF r + 1 <= high(k) THEN high(k) - (r + 1) + 1 ELSE 0
           /\ \A i \in 1 .. high(k) - (r + 1) + 1 : t[i] = s[(r + 1) + i - 1]
    BY <2>2, SubSeqProperties
  <2>4. high(k) - (r + 1) + 1 = high(k) - r /\ \A i \in Int : (r + 1) + i - 1 = r + i
    BY <2>1
  <2>5. LET t == SubSeq(s, r + 1, high(k))
        IN /\ t \in Seq(Sweep!Instrument) /\ Len(t) = high(k) - r
           /\ \A i \in 1 .. high(k) - r : t[i] = s[r + i]
    BY <2>1, <2>3, <2>4
  <2> QED BY <2>5 DEF r
<1> HIDE DEF piece, high
<1>6. DOMAIN b = 1 .. d /\ \A k \in 1 .. d : b[k] = piece(k)
  OBVIOUS
<1>7. b \in Seq(Seq(Sweep!Instrument))
  <2>1. \A k \in 1 .. d : piece(k) \in Seq(Sweep!Instrument)
    BY <1>5
  <2>2. b \in [1 .. d -> Seq(Sweep!Instrument)]
    BY <2>1
  <2> HIDE DEF b
  <2> QED BY <1>2, <2>2, SeqDef
<1> HIDE DEF b
<1>8. \A k \in DOMAIN b : \A m \in DOMAIN b[k] :
        /\ m \in 1 .. BatchSize /\ (k - 1) * BatchSize + m \in DOMAIN s
        /\ b[k][m] = s[(k - 1) * BatchSize + m]
  <2> SUFFICES ASSUME NEW k \in 1 .. d, NEW m \in DOMAIN piece(k)
               PROVE  /\ m \in 1 .. BatchSize /\ (k - 1) * BatchSize + m \in DOMAIN s
                      /\ piece(k)[m] = s[(k - 1) * BatchSize + m]
    BY <1>6
  <2> DEFINE r == (k - 1) * BatchSize
  <2>1. r \in Nat /\ high(k) \in Nat /\ r < high(k) /\ high(k) <= Len(s) /\ high(k) <= r + BatchSize
    BY <1>4
  <2>2. m \in 1 .. (high(k) - r) /\ piece(k)[m] = s[r + m]
    BY <1>5
  <2> HIDE DEF r
  <2>3. m \in 1 .. BatchSize /\ r + m \in 1 .. Len(s)
    <3> DEFINE h == high(k)
    <3>1. r \in Nat /\ h \in Nat /\ h <= Len(s) /\ h <= r + BatchSize /\ m \in 1 .. (h - r)
      BY <2>1, <2>2
    <3> HIDE DEF h
    <3> QED BY <1>1, <3>1
  <2> QED BY <2>2, <2>3 DEF r
<1>9. \A n \in DOMAIN s : \E k \in DOMAIN b : \E m \in DOMAIN b[k] : b[k][m] = s[n]
  <2> SUFFICES ASSUME NEW n \in 1 .. Len(s)
               PROVE  \E k \in 1 .. d : \E m \in DOMAIN piece(k) : piece(k)[m] = s[n]
    BY <1>6
  <2> DEFINE c == (n - 1) \div BatchSize
  <2>1. c \in Nat /\ c * BatchSize <= n - 1 /\ n - 1 < c * BatchSize + BatchSize
    <3>1. n - 1 \in Nat
      BY <1>1
    <3> QED BY <1>1, <3>1, Quotient
  <2> HIDE DEF c
  <2>2. c * BatchSize \in Int /\ c < d
    <3>1. c * BatchSize \in Int /\ (c * BatchSize < d * BatchSize => c < d)
      BY <1>1, <1>2, <2>1, Multiples
    <3> QED BY <1>1, <1>2, <2>1, <3>1
  <2> DEFINE k == c + 1   r == (k - 1) * BatchSize   m == n - r
  <2>3. k \in 1 .. d /\ r = c * BatchSize
    BY <1>2, <2>1, <2>2
  <2>4. k * BatchSize = r + BatchSize /\ r \in Nat
    BY <1>4, <2>3
  <2>5. high(k) = IF r + BatchSize < Len(s) THEN r + BatchSize ELSE Len(s)
    BY <2>4 DEF high
  <2> HIDE DEF k, r
  <2>6. m \in 1 .. (high(k) - r) /\ r + m = n
    BY <1>1, <2>1, <2>2, <2>3, <2>4, <2>5
  <2>7. m \in DOMAIN piece(k) /\ piece(k)[m] = s[r + m]
    BY <1>5, <2>3, <2>6 DEF r
  <2> QED BY <2>3, <2>6, <2>7
<1> QED BY <1>3, <1>7, <1>8, <1>9

\* The universe is asked in batches that hold each symbol that is not in quarantine, once.
LEMMA Planned ==
  ASSUME Sweep!SweepAssumption, NEW K \in SUBSET (1 .. Len(Polled))
  PROVE  LET T == Sweep!Batches(Sweep!InOrder(K))
         IN /\ T \in Seq(Seq(Sweep!Instrument)) /\ BatchesOnce(T)
            /\ \A k \in K : InBatches(T, Polled[k])
<1> DEFINE s == Sweep!InOrder(K)   T == Sweep!Batches(s)
<1>1. /\ s \in Seq(Sweep!Instrument)
      /\ \A m, n \in DOMAIN s : s[m] = s[n] => m = n
      /\ \A k \in K : \E n \in DOMAIN s : s[n] = Polled[k]
  BY Listed
<1> HIDE DEF s
<1>2. /\ T \in Seq(Seq(Sweep!Instrument))
      /\ \A k \in DOMAIN T : \A m \in DOMAIN T[k] :
           /\ m \in 1 .. BatchSize /\ (k - 1) * BatchSize + m \in DOMAIN s
           /\ T[k][m] = s[(k - 1) * BatchSize + m]
      /\ \A n \in DOMAIN s : \E k \in DOMAIN T : \E m \in DOMAIN T[k] : T[k][m] = s[n]
  BY <1>1, Batched
<1> HIDE DEF T
<1>3. BatchesOnce(T)
  <2> SUFFICES ASSUME NEW k \in DOMAIN T, NEW l \in DOMAIN T, NEW m \in DOMAIN T[k], NEW n \in DOMAIN T[l],
                      T[k][m] = T[l][n]
               PROVE  k = l /\ m = n
    BY DEF BatchesOnce
  <2>1. (k - 1) * BatchSize + m = (l - 1) * BatchSize + n
    BY <1>1, <1>2
  <2>4. m \in 1 .. BatchSize /\ n \in 1 .. BatchSize
    BY <1>1, <1>2
  <2>2. DOMAIN T = 1 .. Len(T)
    BY <1>2, LenProperties
  <2>3. BatchSize \in Nat \ {0} /\ k \in Int /\ l \in Int
    BY <2>2 DEF Sweep!SweepAssumption
  <2>5. \A i, j \in Int : \A p, q \in 1 .. BatchSize :
          (i - 1) * BatchSize + p = (j - 1) * BatchSize + q => i = j /\ p = q
    BY <2>3, Positions, Zenon
  <2>6. \A p, q \in 1 .. BatchSize : (k - 1) * BatchSize + p = (l - 1) * BatchSize + q => k = l /\ p = q
    BY <2>3, <2>5, Zenon
  <2> QED BY <2>1, <2>4, <2>6, Zenon
<1>4. \A k \in K : InBatches(T, Polled[k])
  <2> TAKE k \in K
  <2>1. PICK n \in DOMAIN s : s[n] = Polled[k]
    BY <1>1
  <2>2. PICK j \in DOMAIN T : \E m \in DOMAIN T[j] : T[j][m] = s[n]
    BY <1>2
  <2> QED BY <2>1, <2>2 DEF InBatches
<1> QED BY <1>2, <1>3, <1>4 DEF s, T

\* What is left when the first batch is taken.
LEMMA BatchTaken ==
  ASSUME NEW T \in Seq(Seq(Sweep!Instrument)), T # << >>, BatchesOnce(T)
  PROVE  /\ Head(T) = T[1] /\ 1 \in DOMAIN T /\ T[1] \in Seq(Sweep!Instrument)
         /\ Tail(T) \in Seq(Seq(Sweep!Instrument)) /\ BatchesOnce(Tail(T))
         /\ \A m, n \in DOMAIN T[1] : T[1][m] = T[1][n] => m = n
         /\ \A i : InBatches(T, i) <=> InBatches(Tail(T), i) \/ \E n \in DOMAIN T[1] : T[1][n] = i
         /\ \A n \in DOMAIN T[1] : ~InBatches(Tail(T), T[1][n])
<1>1. /\ Head(T) = T[1] /\ 1 \in DOMAIN T /\ T[1] \in Seq(Sweep!Instrument)
      /\ Tail(T) \in Seq(Seq(Sweep!Instrument)) /\ Len(T) \in Nat
  OBVIOUS
<1>2. /\ DOMAIN Tail(T) = 1 .. (Len(T) - 1) /\ DOMAIN T = 1 .. Len(T)
      /\ \A k \in DOMAIN Tail(T) : k + 1 \in DOMAIN T /\ Tail(T)[k] = T[k + 1] /\ k + 1 # 1
      /\ \A k \in DOMAIN T : k # 1 => k - 1 \in DOMAIN Tail(T) /\ T[k] = Tail(T)[k - 1]
  OBVIOUS
<1> DEFINE R == Tail(T)
<1> HIDE DEF R
<1>3. /\ \A k \in DOMAIN R : k \in Int /\ k + 1 \in DOMAIN T /\ R[k] = T[k + 1] /\ k + 1 # 1
      /\ \A k \in DOMAIN T : k # 1 => k - 1 \in DOMAIN R /\ T[k] = R[k - 1]
  BY <1>2 DEF R
<1>4. BatchesOnce(R)
  <2> SUFFICES ASSUME NEW k \in DOMAIN R, NEW l \in DOMAIN R, NEW m \in DOMAIN R[k], NEW n \in DOMAIN R[l],
                      R[k][m] = R[l][n]
               PROVE  k = l /\ m = n
    BY DEF BatchesOnce
  <2>1. k + 1 = l + 1 /\ m = n
    BY <1>3 DEF BatchesOnce
  <2> QED BY <1>3, <2>1
<1>5. \A m, n \in DOMAIN T[1] : T[1][m] = T[1][n] => m = n
  BY <1>1 DEF BatchesOnce
<1>6. \A i : InBatches(T, i) <=> InBatches(R, i) \/ \E n \in DOMAIN T[1] : T[1][n] = i
  <2> TAKE i
  <2>1. ASSUME NEW k \in DOMAIN T, NEW n \in DOMAIN T[k], T[k][n] = i
        PROVE  InBatches(R, i) \/ \E m \in DOMAIN T[1] : T[1][m] = i
    <3>1. CASE k = 1
      BY <2>1, <3>1
    <3>2. CASE k # 1
      <4>1. k - 1 \in DOMAIN R /\ R[k - 1] = T[k]
        BY <1>3, <3>2
      <4>2. n \in DOMAIN R[k - 1] /\ R[k - 1][n] = i
        BY <2>1, <4>1
      <4> QED BY <4>1, <4>2 DEF InBatches
    <3> QED BY <3>1, <3>2
  <2>2. ASSUME NEW k \in DOMAIN R, NEW n \in DOMAIN R[k], R[k][n] = i
        PROVE  InBatches(T, i)
    <3>1. k + 1 \in DOMAIN T /\ T[k + 1] = R[k]
      BY <1>3
    <3>2. n \in DOMAIN T[k + 1] /\ T[k + 1][n] = i
      BY <2>2, <3>1
    <3> QED BY <3>1, <3>2 DEF InBatches
  <2> QED BY <1>1, <2>1, <2>2 DEF InBatches
<1>7. \A n \in DOMAIN T[1] : ~InBatches(R, T[1][n])
  BY <1>1, <1>3 DEF InBatches, BatchesOnce
<1> QED BY <1>1, <1>4, <1>5, <1>6, <1>7 DEF R

\* The first batch in two halves: the same symbols, each once.
LEMMA Halved ==
  ASSUME NEW T \in Seq(Seq(Sweep!Instrument)), T # << >>, Len(T[1]) > 1, BatchesOnce(T)
  PROVE  LET t == Sweep!Halves(T[1]) \o Tail(T)
         IN /\ t \in Seq(Seq(Sweep!Instrument)) /\ BatchesOnce(t)
            /\ \A i : InBatches(t, i) <=> InBatches(T, i)
<1> DEFINE b == T[1]   n == Len(b)   h == n \div 2
           left == SubSeq(b, 1, h)   right == SubSeq(b, h + 1, n)
           t == << left, right >> \o Tail(T)
<1>1. /\ b \in Seq(Sweep!Instrument) /\ n \in Nat /\ Len(T) \in Nat \ {0} /\ DOMAIN T = 1 .. Len(T)
      /\ Tail(T) \in Seq(Seq(Sweep!Instrument)) /\ Len(Tail(T)) = Len(T) - 1
      /\ \A k \in 1 .. (Len(T) - 1) : Tail(T)[k] = T[k + 1]
      /\ DOMAIN b = 1 .. n /\ \A m \in 1 .. n : b[m] \in Sweep!Instrument
  <2>1. T[1] \in Seq(Sweep!Instrument) /\ Len(T) \in Nat \ {0}
    OBVIOUS
  <2>2. T[1] \in [1 .. Len(T[1]) -> Sweep!Instrument] /\ Len(T[1]) \in Nat
    BY <2>1, LenProperties
  <2>3. DOMAIN T = 1 .. Len(T)
    BY LenProperties
  <2>4. /\ Tail(T) \in Seq(Seq(Sweep!Instrument)) /\ Len(Tail(T)) = Len(T) - 1
        /\ \A k \in 1 .. Len(Tail(T)) : Tail(T)[k] = T[k + 1]
    BY HeadTailProperties
  <2> QED BY <2>1, <2>2, <2>3, <2>4
<1> HIDE DEF b
<1>2. h \in Nat /\ 1 <= h /\ h < n
  <2>1. n \in Nat /\ n > 1
    BY <1>1 DEF b
  <2> QED BY <2>1
<1> HIDE DEF n, h
<1>3. /\ left \in Seq(Sweep!Instrument) /\ Len(left) = h
      /\ \A m \in 1 .. h : left[m] = b[m]
  <2>1. \A m \in 1 .. h : b[m] \in Sweep!Instrument
    BY <1>1, <1>2
  <2>2. /\ left \in Seq(Sweep!Instrument) /\ Len(left) = IF 1 <= h THEN h - 1 + 1 ELSE 0
        /\ \A m \in 1 .. h - 1 + 1 : left[m] = b[1 + m - 1]
    BY <1>2, <2>1, SubSeqProperties
  <2> HIDE DEF left
  <2>3. h - 1 + 1 = h /\ \A m \in 1 .. h : 1 + m - 1 = m
    BY <1>2
  <2> QED BY <1>2, <2>2, <2>3
<1>4. /\ right \in Seq(Sweep!Instrument) /\ Len(right) = n - h
      /\ \A m \in 1 .. (n - h) : right[m] = b[h + m]
  <2>1. \A m \in h + 1 .. n : b[m] \in Sweep!Instrument
    BY <1>1, <1>2
  <2>2. h + 1 \in Int /\ n \in Int
    BY <1>1, <1>2
  <2>3. /\ right \in Seq(Sweep!Instrument) /\ Len(right) = IF h + 1 <= n THEN n - (h + 1) + 1 ELSE 0
        /\ \A m \in 1 .. n - (h + 1) + 1 : right[m] = b[h + 1 + m - 1]
    BY <2>1, <2>2, SubSeqProperties
  <2> HIDE DEF right
  <2>4. n - (h + 1) + 1 = n - h /\ h + 1 <= n /\ \A m \in 1 .. (n - h) : h + 1 + m - 1 = h + m
    BY <1>1, <1>2
  <2> QED BY <2>3, <2>4
<1> HIDE DEF left, right
<1>5. /\ t \in Seq(Seq(Sweep!Instrument)) /\ DOMAIN t = 1 .. (Len(T) + 1)
      /\ t[1] = left /\ t[2] = right /\ \A k \in 3 .. (Len(T) + 1) : t[k] = T[k - 1]
  <2>1. << left, right >> \in Seq(Seq(Sweep!Instrument)) /\ Len(<< left, right >>) = 2
    BY <1>3, <1>4
  <2>2. /\ t \in Seq(Seq(Sweep!Instrument)) /\ Len(t) = 2 + (Len(T) - 1)
        /\ \A k \in 1 .. 2 + (Len(T) - 1) :
             t[k] = IF k <= 2 THEN << left, right >>[k] ELSE Tail(T)[k - 2]
    BY <1>1, <2>1, ConcatProperties
  <2> HIDE DEF t
  <2>3. 2 + (Len(T) - 1) = Len(T) + 1 /\ DOMAIN t = 1 .. Len(t)
    BY <1>1, <2>2, LenProperties
  <2>4. t[1] = left /\ t[2] = right
    BY <1>1, <2>2, <2>3
  <2>5. ASSUME NEW k \in 3 .. (Len(T) + 1) PROVE t[k] = T[k - 1]
    <3>1. k \in 1 .. (Len(T) + 1) /\ ~(k <= 2) /\ k - 2 \in 1 .. (Len(T) - 1) /\ k - 2 + 1 = k - 1
      BY <1>1
    <3> QED BY <1>1, <2>2, <2>3, <3>1
  <2> QED BY <2>2, <2>3, <2>4, <2>5
<1> HIDE DEF t
\* A position of the new list is one of the old list.
<1> DEFINE row(k) == IF k <= 2 THEN 1 ELSE k - 1
           place(k, m) == IF k = 2 THEN h + m ELSE m
<1>6. \A k \in DOMAIN t : \A m \in DOMAIN t[k] :
        row(k) \in DOMAIN T /\ place(k, m) \in DOMAIN T[row(k)] /\ T[row(k)][place(k, m)] = t[k][m]
  <2> TAKE k \in DOMAIN t
  <2> TAKE m \in DOMAIN t[k]
  <2>0. k \in Int /\ 1 <= k /\ k <= Len(T) + 1 /\ T[1] = b /\ 1 \in DOMAIN T
    BY <1>1, <1>5 DEF b
  <2>1. CASE k = 1
    <3>1. m \in 1 .. h /\ t[k][m] = b[m]
      BY <1>3, <1>5, <2>1
    <3> QED BY <1>1, <1>2, <2>0, <2>1, <3>1
  <2>2. CASE k = 2
    <3>1. m \in 1 .. (n - h) /\ t[k][m] = b[h + m]
      BY <1>4, <1>5, <2>2
    <3>2. h + m \in 1 .. n
      BY <1>1, <1>2, <3>1
    <3> QED BY <1>1, <2>0, <2>2, <3>1, <3>2
  <2>3. CASE k > 2
    <3>1. k \in 3 .. (Len(T) + 1) /\ k - 1 \in DOMAIN T
      BY <1>1, <2>0, <2>3
    <3>2. t[k] = T[k - 1]
      BY <1>5, <3>1
    <3>3. row(k) = k - 1 /\ place(k, m) = m
      BY <2>0, <2>3
    <3> QED BY <3>1, <3>2, <3>3
  <2> QED BY <2>0, <2>1, <2>2, <2>3
<1>7. ASSUME NEW k \in DOMAIN t, NEW m \in DOMAIN t[k], NEW l \in DOMAIN t, NEW p \in DOMAIN t[l],
             row(k) = row(l), place(k, m) = place(l, p)
      PROVE  k = l /\ m = p
  <2>1. k \in Int /\ l \in Int /\ 1 <= k /\ 1 <= l
    BY <1>1, <1>5
  <2>2. k = 1 => m \in 1 .. h
    BY <1>3, <1>5
  <2>3. l = 1 => p \in 1 .. h
    BY <1>3, <1>5
  <2>4. k = 2 => m \in 1 .. (n - h)
    BY <1>4, <1>5
  <2>5. l = 2 => p \in 1 .. (n - h)
    BY <1>4, <1>5
  <2>6. k > 2 \/ l > 2 => k = l
    BY <1>7, <2>1
  <2>7. k > 2 => m = p
    BY <1>7, <2>1, <2>6
  <2>8. k \in {1, 2} /\ l \in {1, 2} => k = l /\ m = p
    BY <1>1, <1>2, <1>7, <2>2, <2>3, <2>4, <2>5
  <2> QED BY <2>1, <2>6, <2>7, <2>8
<1>8. BatchesOnce(t)
  <2> SUFFICES ASSUME NEW k \in DOMAIN t, NEW l \in DOMAIN t, NEW m \in DOMAIN t[k], NEW p \in DOMAIN t[l],
                      t[k][m] = t[l][p]
               PROVE  k = l /\ m = p
    BY DEF BatchesOnce
  <2>1. /\ row(k) \in DOMAIN T /\ place(k, m) \in DOMAIN T[row(k)] /\ T[row(k)][place(k, m)] = t[k][m]
        /\ row(l) \in DOMAIN T /\ place(l, p) \in DOMAIN T[row(l)] /\ T[row(l)][place(l, p)] = t[l][p]
    BY <1>6
  <2> HIDE DEF row, place
  <2>2. row(k) = row(l) /\ place(k, m) = place(l, p)
    BY <2>1 DEF BatchesOnce
  <2> QED BY <1>7, <2>2
<1>9. \A i : InBatches(t, i) => InBatches(T, i)
  <2> HIDE DEF row, place
  <2> QED BY <1>6 DEF InBatches
<1>10. ASSUME NEW k \in DOMAIN T, NEW m \in DOMAIN T[k] PROVE InBatches(t, T[k][m])
  <2>1. CASE k = 1 /\ m \in 1 .. h
    <3>1. 1 \in DOMAIN t /\ m \in DOMAIN t[1] /\ t[1][m] = T[k][m]
      BY <1>1, <1>3, <1>5, <2>1 DEF b
    <3> QED BY <3>1 DEF InBatches
  <2>2. CASE k = 1 /\ m \notin 1 .. h
    <3>1. m \in 1 .. n
      BY <1>1, <2>2 DEF b
    <3>2. m - h \in 1 .. (n - h) /\ h + (m - h) = m
      BY <1>1, <1>2, <2>2, <3>1
    <3>3. 2 \in DOMAIN t /\ m - h \in DOMAIN t[2] /\ t[2][m - h] = T[k][m]
      BY <1>1, <1>4, <1>5, <2>2, <3>2 DEF b
    <3> QED BY <3>3 DEF InBatches
  <2>3. CASE k # 1
    <3>1. k + 1 \in 3 .. (Len(T) + 1) /\ k + 1 \in 1 .. (Len(T) + 1) /\ (k + 1) - 1 = k
      BY <1>1, <2>3
    <3>2. k + 1 \in DOMAIN t /\ t[k + 1] = T[k]
      BY <1>5, <3>1
    <3>3. m \in DOMAIN t[k + 1] /\ t[k + 1][m] = T[k][m]
      BY <3>2
    <3> QED BY <3>2, <3>3 DEF InBatches
  <2> QED BY <2>1, <2>2, <2>3
<1>11. \A i : InBatches(T, i) => InBatches(t, i)
  BY <1>10 DEF InBatches
<1>12. Sweep!Halves(T[1]) = << left, right >>
  BY DEF Sweep!Halves, left, right, h, n, b
<1> QED BY <1>5, <1>8, <1>9, <1>11, <1>12 DEF t

\* What is left when the first quote of an answer is taken.
LEMMA QuoteTaken ==
  ASSUME NEW A \in Seq(Answers), A # << >>, AnswerOnce(A)
  PROVE  /\ Head(A) = A[1] /\ A[1] \in Answers /\ 1 \in 1 .. Len(A)
         /\ Tail(A) \in Seq(Answers) /\ AnswerOnce(Tail(A))
         /\ \A i : InAnswer(A, i) <=> InAnswer(Tail(A), i) \/ A[1].code = i
         /\ ~InAnswer(Tail(A), A[1].code)
<1>1. /\ Head(A) = A[1] /\ A[1] \in Answers /\ 1 \in 1 .. Len(A)
      /\ Tail(A) \in Seq(Answers) /\ Len(A) \in Nat
  OBVIOUS
<1> DEFINE R == Tail(A)
<1>2. /\ \A k \in DOMAIN R : k \in Int /\ k + 1 \in DOMAIN A /\ R[k] = A[k + 1] /\ k + 1 # 1
      /\ \A k \in DOMAIN A : k # 1 => k - 1 \in DOMAIN R /\ A[k] = R[k - 1]
  OBVIOUS
<1>3. 1 \in DOMAIN A
  BY <1>1
<1> HIDE DEF R
<1>4. AnswerOnce(R)
  <2> SUFFICES ASSUME NEW k \in DOMAIN R, NEW l \in DOMAIN R, R[k].code = R[l].code PROVE k = l
    BY DEF AnswerOnce
  <2>1. k + 1 = l + 1
    BY <1>2 DEF AnswerOnce
  <2> QED BY <1>2, <2>1
<1>5. \A i : InAnswer(A, i) <=> InAnswer(R, i) \/ A[1].code = i
  BY <1>2, <1>3 DEF InAnswer
<1>6. ~InAnswer(R, A[1].code)
  BY <1>2, <1>3 DEF InAnswer, AnswerOnce
<1> QED BY <1>1, <1>4, <1>5, <1>6 DEF R

\* Lists of quotes, with one appended and with the first taken.
LEMMA ListAppended ==
  ASSUME NEW C \in Seq(SUBSET Answers), NEW Q \in SUBSET Answers, ListsOnce(C), QuotesOnce(Q),
         \A i \in Sweep!Instrument : InQuotes(Q, i) => ~InLists(C, i)
  PROVE  LET R == Append(C, Q)
         IN /\ R \in Seq(SUBSET Answers) /\ ListsOnce(R)
            /\ \A i : InLists(R, i) <=> InLists(C, i) \/ InQuotes(Q, i)
<1> DEFINE R == Append(C, Q)   n == Len(C)
<1>1. /\ R \in Seq(SUBSET Answers) /\ n \in Nat /\ DOMAIN C = 1 .. n /\ DOMAIN R = 1 .. (n + 1)
      /\ R[n + 1] = Q /\ \A k \in 1 .. n : R[k] = C[k]
  <2>1. R \in Seq(SUBSET Answers) /\ Len(R) = n + 1 /\ \A k \in 1 .. n : R[k] = C[k]
    BY AppendProperties
  <2>2. R[n + 1] = Q
    BY AppendProperties
  <2> QED BY <2>1, <2>2, LenProperties
<1> HIDE DEF R, n
<1>2. \A i : InLists(R, i) <=> InLists(C, i) \/ InQuotes(Q, i)
  <2>1. \A k \in DOMAIN R : k \in DOMAIN C \/ k = n + 1
    BY <1>1
  <2>2. \A k \in DOMAIN C : k \in DOMAIN R /\ R[k] = C[k]
    BY <1>1
  <2>3. n + 1 \in DOMAIN R
    BY <1>1
  <2> QED BY <1>1, <2>1, <2>2, <2>3 DEF InLists
<1>3. ListsOnce(R)
  <2> SUFFICES ASSUME NEW k \in 1 .. (n + 1), NEW l \in 1 .. (n + 1), NEW p \in R[k], NEW q \in R[l],
                      p.code = q.code
               PROVE  k = l /\ p = q
    BY <1>1 DEF ListsOnce
  <2>0. (k \in 1 .. n \/ k = n + 1) /\ (l \in 1 .. n \/ l = n + 1)
    BY <1>1
  <2>1. CASE k \in 1 .. n /\ l \in 1 .. n
    BY <1>1, <2>1 DEF ListsOnce
  <2>2. CASE k = n + 1 /\ l = n + 1
    BY <1>1, <2>2 DEF QuotesOnce
  <2>3. CASE k \in 1 .. n /\ l = n + 1
    <3>1. p \in C[k] /\ q \in Q /\ q.code \in Sweep!Instrument
      BY <1>1, <2>3 DEF Answers
    <3>2. InLists(C, q.code) /\ InQuotes(Q, q.code)
      BY <1>1, <2>3, <3>1 DEF InLists, InQuotes
    <3> QED BY <3>1, <3>2
  <2>4. CASE k = n + 1 /\ l \in 1 .. n
    <3>1. q \in C[l] /\ p \in Q /\ p.code \in Sweep!Instrument
      BY <1>1, <2>4 DEF Answers
    <3>2. InLists(C, p.code) /\ InQuotes(Q, p.code)
      BY <1>1, <2>4, <3>1 DEF InLists, InQuotes
    <3> QED BY <3>1, <3>2
  <2> QED BY <2>0, <2>1, <2>2, <2>3, <2>4
<1> QED BY <1>1, <1>2, <1>3 DEF R

LEMMA ListTaken ==
  ASSUME NEW C \in Seq(SUBSET Answers), C # << >>, ListsOnce(C)
  PROVE  /\ Head(C) = C[1] /\ C[1] \in SUBSET Answers /\ QuotesOnce(C[1])
         /\ Tail(C) \in Seq(SUBSET Answers) /\ ListsOnce(Tail(C))
         /\ \A i : InLists(C, i) <=> InLists(Tail(C), i) \/ InQuotes(C[1], i)
         /\ \A i : InQuotes(C[1], i) => ~InLists(Tail(C), i)
<1>1. /\ Head(C) = C[1] /\ C[1] \in SUBSET Answers /\ 1 \in DOMAIN C
      /\ Tail(C) \in Seq(SUBSET Answers) /\ Len(C) \in Nat
  OBVIOUS
<1> DEFINE R == Tail(C)
<1>2. /\ \A k \in DOMAIN R : k \in Int /\ k + 1 \in DOMAIN C /\ R[k] = C[k + 1] /\ k + 1 # 1
      /\ \A k \in DOMAIN C : k # 1 => k - 1 \in DOMAIN R /\ C[k] = R[k - 1]
  OBVIOUS
<1> HIDE DEF R
<1>3. ListsOnce(R)
  <2> SUFFICES ASSUME NEW k \in DOMAIN R, NEW l \in DOMAIN R, NEW p \in R[k], NEW q \in R[l], p.code = q.code
               PROVE  k = l /\ p = q
    BY DEF ListsOnce
  <2>1. k + 1 = l + 1 /\ p = q
    BY <1>2 DEF ListsOnce
  <2> QED BY <1>2, <2>1
<1>4. \A i : InLists(C, i) <=> InLists(R, i) \/ InQuotes(C[1], i)
  BY <1>1, <1>2 DEF InLists
<1>5. QuotesOnce(C[1])
  BY <1>1 DEF ListsOnce, QuotesOnce
<1>6. \A i : InQuotes(C[1], i) => ~InLists(R, i)
  <2> SUFFICES ASSUME NEW i, NEW q \in C[1], q.code = i, NEW k \in DOMAIN R, NEW p \in R[k], p.code = i
               PROVE  FALSE
    BY DEF InQuotes, InLists
  <2>1. k + 1 \in DOMAIN C /\ p \in C[k + 1] /\ k + 1 # 1
    BY <1>2
  <2> QED BY <1>1, <2>1 DEF ListsOnce
<1> QED BY <1>1, <1>3, <1>4, <1>5, <1>6 DEF R

LEMMA NothingIn ==
  \A i : ~InBatches(<< >>, i) /\ ~InAnswer(<< >>, i) /\ ~InQuotes({}, i) /\ ~InLists(<< >>, i)
BY DEF InBatches, InAnswer, InQuotes, InLists

LEMMA NothingTwice == BatchesOnce(<< >>) /\ AnswerOnce(<< >>) /\ QuotesOnce({}) /\ ListsOnce(<< >>)
BY DEF BatchesOnce, AnswerOnce, QuotesOnce, ListsOnce

LEMMA InstrumentsAreFinite ==
  ASSUME Sweep!SweepAssumption
  PROVE  /\ IsFiniteSet(Sweep!Instrument)
         /\ \A i \in Sweep!Instrument : \E k \in 1 .. Len(Polled) : i = Polled[k]
<1>1. Len(Polled) \in Nat
  BY DEF Sweep!SweepAssumption
<1>2. IsFiniteSet(1 .. Len(Polled))
  BY <1>1, FS_Interval
<1>3. Polled \in Surjection(1 .. Len(Polled), Sweep!Instrument)
  BY <1>1 DEF Surjection, Sweep!Instrument, Sweep!SweepAssumption
<1>4. IsFiniteSet(Sweep!Instrument)
  BY <1>2, <1>3, FS_Surjection
<1> QED BY <1>4 DEF Sweep!Instrument

\* The refresh of the minute bars and the sweep touch different things.
LEMMA RefreshStays ==
  ASSUME SweepInv, UNCHANGED << refresh, minutes, minuteHealth >>
  PROVE  RefreshOK'
BY DEF SweepInv, RefreshOK, Sweep!MinutesBehindTheReport

LEMMA SweepStays ==
  ASSUME SweepInv, UNCHANGED << poll, newest, quarantine, quoteHealth, previous >>,
         time' \in Nat, time <= time', DOMAIN faulty' = Sweep!Instrument
  PROVE  Sweep!SweepAssumption /\ SweepShape' /\ SweepTimes' /\ UnderWay' /\ Sweep!EveryMemberAnswered'
<1>1. SweepShape'
  BY DEF SweepInv, SweepShape
<1>2. SweepTimes'
  <2>1. poll.at \in Int /\ time \in Int
    BY DEF SweepInv, SweepShape, Polls
  <2> QED BY <2>1 DEF SweepInv, SweepTimes
<1>3. UnderWay'
  <2>1. poll.pc # "idle" => OnceEach' /\ InOnePlace' /\ Somewhere'
    BY DEF SweepInv, UnderWay, OnceEach, InOnePlace, Somewhere, IsStored, IsQuarantined
  <2>2. \A m : StoredOf(m)' = StoredOf(m)
    BY DEF StoredOf, IsStored
  <2> QED BY <2>1, <2>2 DEF SweepInv, UnderWay
<1>4. Sweep!EveryMemberAnswered'
  BY DEF SweepInv, Sweep!EveryMemberAnswered
<1> QED BY <1>1, <1>2, <1>3, <1>4 DEF SweepInv

LEMMA IdlePolls ==
  /\ Sweep!IdlePoll \in Polls
  /\ Sweep!IdlePoll.pc = "idle" /\ Sweep!IdlePoll.answer = << >> /\ Sweep!IdlePoll.good = {}
BY DEF Sweep!IdlePoll, Polls, Sweep!Never

\* A sweep that ends before its report leaves no report of its time.
LEMMA SweepEnds ==
  ASSUME SweepInv, poll' = [Sweep!IdlePoll EXCEPT !.at = poll.at],
         UNCHANGED << time, faulty, quarantine, newest, quoteHealth >>,
         previous' \in [Sweep!Instrument -> Int],
         poll.pc # "idle" \/ poll' = poll
  PROVE  Sweep!SweepAssumption /\ SweepShape' /\ SweepTimes' /\ UnderWay' /\ Sweep!EveryMemberAnswered'
<1>1. poll.at \in Int /\ quoteHealth.at \in Int
  BY DEF SweepInv, SweepShape, Polls
<1>2. /\ poll' \in Polls /\ poll'.at = poll.at
      /\ poll'.pc = "idle" /\ poll'.answer = << >> /\ poll'.good = {}
  BY <1>1, IdlePolls DEF Polls
<1>3. SweepShape' /\ SweepTimes' /\ UnderWay'
  BY <1>2 DEF SweepInv, SweepShape, SweepTimes, UnderWay
<1>4. CASE poll' = poll
  <2>1. Sweep!EveryMemberAnswered'
    BY <1>4 DEF SweepInv, Sweep!EveryMemberAnswered
  <2> QED BY <1>3, <2>1 DEF SweepInv
<1>5. CASE poll.pc # "idle"
  <2>1. quoteHealth'.at # poll'.at
    BY <1>1, <1>2, <1>5 DEF SweepInv, SweepTimes
  <2> QED BY <1>3, <2>1 DEF Sweep!EveryMemberAnswered, SweepInv
<1> QED BY <1>3, <1>4, <1>5 DEF SweepInv

LEMMA SweepTickStep == ASSUME SweepInv, Sweep!Tick PROVE SweepInv'
<1>1. /\ time' = time + 1 /\ faulty' \in {faulty, [i \in Sweep!Instrument |-> "ok"]}
      /\ UNCHANGED << quarantine, previous, newest, minutes, quoteHealth, minuteHealth, poll, refresh >>
  BY DEF Sweep!Tick, Sweep!Health
<1>2. time \in Nat /\ DOMAIN faulty = Sweep!Instrument
  BY DEF SweepInv, SweepShape
<1>3. time' \in Nat /\ time <= time' /\ DOMAIN faulty' = Sweep!Instrument
  BY <1>1, <1>2
<1> QED BY <1>1, <1>3, SweepStays, RefreshStays DEF SweepInv

LEMMA PollFailsStep == ASSUME SweepInv, Sweep!PollFails PROVE SweepInv'
<1>1. /\ poll.pc # "idle" /\ poll' = [Sweep!IdlePoll EXCEPT !.at = poll.at]
      /\ UNCHANGED << time, faulty, quarantine, previous, newest, minutes, quoteHealth, minuteHealth, refresh >>
  BY DEF Sweep!PollFails, Sweep!World, Sweep!Health
<1>2. previous' \in [Sweep!Instrument -> Int]
  BY <1>1 DEF SweepInv, SweepShape
<1> QED BY <1>1, <1>2, SweepEnds, RefreshStays DEF SweepInv

\* poll_once: nothing is stored of a sweep that begins, and what is not in quarantine waits.
LEMMA PollBeginStep == ASSUME SweepInv, Sweep!PollBegin PROVE SweepInv'
<1> DEFINE K == {k \in 1 .. Len(Polled) : Polled[k] \notin Sweep!ActiveQuarantine(time)}
           T == Sweep!Batches(Sweep!InOrder(K))
<1>1. /\ poll.pc = "idle" /\ poll.at < time
      /\ poll' = [Sweep!IdlePoll EXCEPT !.pc = "ask", !.at = time, !.todo = T]
      /\ UNCHANGED << time, faulty, quarantine, previous, newest, minutes, quoteHealth, minuteHealth, refresh >>
  BY DEF Sweep!PollBegin, Sweep!World, Sweep!Health
<1>2. /\ T \in Seq(Seq(Sweep!Instrument)) /\ BatchesOnce(T) /\ \A k \in K : InBatches(T, Polled[k])
  <2>1. K \in SUBSET (1 .. Len(Polled))
    OBVIOUS
  <2> HIDE DEF K
  <2> QED BY <2>1, Planned DEF SweepInv
<1> HIDE DEF T
<1>3. /\ time \in Nat /\ poll.at \in Int /\ quoteHealth.at \in Int
      /\ \A i \in Sweep!Instrument : newest[i].at \in Int /\ newest[i].at <= poll.at
      /\ quoteHealth.at <= poll.at
  BY DEF SweepInv, SweepShape, SweepTimes, Polls
<1>4. /\ poll' \in Polls /\ poll'.pc = "ask" /\ poll'.at = time /\ poll'.todo = T
      /\ poll'.answer = << >> /\ poll'.good = {} /\ poll'.accepted = << >>
      /\ poll'.returned = [m \in {0, 1} |-> 0]
  <2>1. poll' = [pc |-> "ask", at |-> time, todo |-> T, answer |-> << >>, good |-> {}, accepted |-> << >>,
                 returned |-> [m \in {0, 1} |-> 0]]
    BY <1>1 DEF Sweep!IdlePoll
  <2>2. poll' \in Polls
    BY <1>2, <1>3, <2>1 DEF Polls
  <2> QED BY <2>1, <2>2
<1>5. SweepShape'
  BY <1>1, <1>4 DEF SweepInv, SweepShape
<1>6. \A i \in Sweep!Instrument : newest[i].at < time
  BY <1>1, <1>3
<1>7. SweepTimes'
  BY <1>1, <1>3, <1>4, <1>6 DEF SweepTimes
<1>8. \A i \in Sweep!Instrument : ~IsStored(i)'
  BY <1>1, <1>3, <1>4, <1>6 DEF IsStored
<1>9. OnceEach'
  BY <1>2, <1>4, NothingTwice DEF OnceEach
<1>10. InOnePlace'
  BY <1>4, <1>8, NothingIn DEF InOnePlace
<1>11. Somewhere'
  <2> SUFFICES ASSUME NEW i \in Sweep!Instrument PROVE InBatches(T, i) \/ IsQuarantined(i)'
    BY <1>4 DEF Somewhere
  <2>1. PICK k \in 1 .. Len(Polled) : i = Polled[k]
    BY InstrumentsAreFinite DEF SweepInv
  <2>2. CASE k \in K
    BY <1>2, <2>1, <2>2
  <2>3. CASE k \notin K
    <3>1. quarantine[i].retry > time
      BY <2>1, <2>3 DEF Sweep!ActiveQuarantine
    <3> QED BY <1>1, <1>4, <3>1 DEF IsQuarantined
  <2> QED BY <2>2, <2>3
<1>12. \A m \in {0, 1} : poll'.returned[m] = Cardinality(StoredOf(m)')
  <2>1. \A m : StoredOf(m)' = {}
    BY <1>8 DEF StoredOf
  <2>2. Cardinality({}) = 0
    BY FS_EmptySet
  <2> QED BY <1>4, <2>1, <2>2
<1>13. UnderWay' /\ Sweep!EveryMemberAnswered'
  BY <1>4, <1>9, <1>10, <1>11, <1>12 DEF UnderWay, Sweep!EveryMemberAnswered
<1> QED BY <1>1, <1>5, <1>7, <1>13, RefreshStays DEF SweepInv

\* A step of the sweep that stores nothing.
LEMMA SweepGoesOn ==
  ASSUME SweepInv, poll.pc # "idle", poll'.pc # "idle", poll' \in Polls,
         poll'.at = poll.at, poll'.returned = poll.returned,
         poll'.pc # "judge" => poll'.answer = << >> /\ poll'.good = {},
         UNCHANGED << time, faulty, newest, minutes, quoteHealth, minuteHealth, refresh >>,
         previous' \in [Sweep!Instrument -> Int],
         quarantine' \in [Sweep!Instrument -> [failures : Nat, retry : Int]],
         OnceEach', InOnePlace', Somewhere'
  PROVE  SweepInv'
<1>1. SweepShape'
  BY DEF SweepInv, SweepShape
<1>2. SweepTimes'
  BY DEF SweepInv, SweepTimes
<1>3. \A m : StoredOf(m)' = StoredOf(m)
  BY DEF StoredOf, IsStored
<1>4. UnderWay'
  BY <1>3 DEF SweepInv, UnderWay
<1>5. Sweep!EveryMemberAnswered'
  BY DEF Sweep!EveryMemberAnswered
<1>6. RefreshOK'
  BY RefreshStays
<1> QED BY <1>1, <1>2, <1>4, <1>5, <1>6 DEF SweepInv

\* record_quarantine: the symbol is in quarantine now, and no other one has left it.
LEMMA QuarantineGrows ==
  ASSUME SweepInv, NEW i \in Sweep!Instrument, quarantine' = Sweep!Quarantined(i, poll.at), poll'.at = poll.at
  PROVE  /\ quarantine' \in [Sweep!Instrument -> [failures : Nat, retry : Int]]
         /\ IsQuarantined(i)'
         /\ \A j \in Sweep!Instrument : IsQuarantined(j) => IsQuarantined(j)'
<1>1. /\ poll.at \in Int /\ RetryDelay \in Nat \ {0}
      /\ quarantine \in [Sweep!Instrument -> [failures : Nat, retry : Int]]
  BY DEF SweepInv, SweepShape, Sweep!SweepAssumption, Polls
<1>2. quarantine' = [quarantine EXCEPT ![i] = [failures |-> quarantine[i].failures + 1, retry |-> poll.at + RetryDelay]]
  BY DEF Sweep!Quarantined
<1>3. quarantine' \in [Sweep!Instrument -> [failures : Nat, retry : Int]]
  BY <1>1, <1>2
<1>4. quarantine'[i].retry = poll.at + RetryDelay /\ \A j \in Sweep!Instrument \ {i} : quarantine'[j] = quarantine[j]
  BY <1>1, <1>2
<1>5. poll.at + RetryDelay > poll.at
  BY <1>1
<1> QED BY <1>3, <1>4, <1>5 DEF IsQuarantined

\* What the places of a sweep are before and after a step that stores nothing.
LEMMA PollFacts ==
  ASSUME SweepInv, poll.pc # "idle"
  PROVE  /\ poll \in Polls /\ poll.todo \in Seq(Seq(Sweep!Instrument)) /\ poll.answer \in Seq(Answers)
         /\ poll.good \in SUBSET Answers /\ poll.accepted \in Seq(SUBSET Answers)
         /\ poll.at \in Int
         /\ BatchesOnce(poll.todo) /\ AnswerOnce(poll.answer) /\ QuotesOnce(poll.good) /\ ListsOnce(poll.accepted)
         /\ InOnePlace /\ Somewhere
         /\ previous \in [Sweep!Instrument -> Int]
         /\ quarantine \in [Sweep!Instrument -> [failures : Nat, retry : Int]]
         /\ poll.pc = "ask" => poll.answer = << >> /\ poll.good = {}
BY DEF SweepInv, SweepShape, SweepTimes, UnderWay, OnceEach, Polls

\* _acquire_batch: halving loses nothing and asks for nothing twice.
LEMMA SplitStep == ASSUME SweepInv, Sweep!Split PROVE SweepInv'
<1> DEFINE T == poll.todo   t == Sweep!Halves(T[1]) \o Tail(T)
<1>1. /\ poll.pc = "ask" /\ T # << >> /\ Len(Head(T)) > 1
      /\ poll' = [poll EXCEPT !.todo = Sweep!Halves(Head(T)) \o Tail(T)]
      /\ UNCHANGED << time, faulty, quarantine, previous, newest, minutes, quoteHealth, minuteHealth, refresh >>
  BY DEF Sweep!Split, Sweep!Batch, Sweep!World, Sweep!Health
<1>2. /\ poll \in Polls /\ T \in Seq(Seq(Sweep!Instrument)) /\ BatchesOnce(T) /\ InOnePlace /\ Somewhere
      /\ poll.answer = << >> /\ poll.good = {}
      /\ AnswerOnce(poll.answer) /\ QuotesOnce(poll.good) /\ ListsOnce(poll.accepted)
      /\ previous \in [Sweep!Instrument -> Int]
      /\ quarantine \in [Sweep!Instrument -> [failures : Nat, retry : Int]]
  BY <1>1, PollFacts
<1>3. Head(T) = T[1]
  BY <1>1, <1>2, BatchTaken
<1>4. t \in Seq(Seq(Sweep!Instrument)) /\ BatchesOnce(t) /\ \A i : InBatches(t, i) <=> InBatches(T, i)
  <2>1. Len(T[1]) > 1
    BY <1>1, <1>3
  <2> QED BY <1>1, <1>2, <2>1, Halved
<1>5. poll' = [poll EXCEPT !.todo = t]
  BY <1>1, <1>3
<1> HIDE DEF T, t
<1>6. /\ poll'.todo = t /\ poll'.pc = "ask" /\ poll'.at = poll.at /\ poll'.returned = poll.returned
      /\ poll'.answer = poll.answer /\ poll'.good = poll.good /\ poll'.accepted = poll.accepted
      /\ poll' \in Polls
  BY <1>1, <1>2, <1>4, <1>5 DEF Polls
<1>7. OnceEach'
  BY <1>2, <1>4, <1>6 DEF OnceEach
<1>8. InOnePlace'
  BY <1>1, <1>2, <1>4, <1>6 DEF InOnePlace, IsStored, T
<1>9. Somewhere'
  BY <1>1, <1>2, <1>4, <1>6 DEF Somewhere, IsStored, IsQuarantined, T
<1> QED BY <1>1, <1>2, <1>6, <1>7, <1>8, <1>9, SweepGoesOn

\* _acquire_batch: the symbol that is left goes to quarantine.
LEMMA IsolateStep == ASSUME SweepInv, Sweep!Isolate PROVE SweepInv'
<1> DEFINE T == poll.todo   R == Tail(T)
<1>1. /\ poll.pc = "ask" /\ T # << >> /\ Len(Head(T)) = 1
      /\ quarantine' = Sweep!Quarantined(Head(T)[1], poll.at)
      /\ poll' = [poll EXCEPT !.todo = R]
      /\ UNCHANGED << time, faulty, previous, newest, minutes, quoteHealth, minuteHealth, refresh >>
  BY DEF Sweep!Isolate, Sweep!Batch, Sweep!World, Sweep!Health
<1>2. /\ poll \in Polls /\ T \in Seq(Seq(Sweep!Instrument)) /\ BatchesOnce(T) /\ InOnePlace /\ Somewhere
      /\ poll.answer = << >> /\ poll.good = {}
      /\ AnswerOnce(poll.answer) /\ QuotesOnce(poll.good) /\ ListsOnce(poll.accepted)
      /\ previous \in [Sweep!Instrument -> Int]
  BY <1>1, PollFacts
<1>3. /\ Head(T) = T[1] /\ T[1] \in Seq(Sweep!Instrument)
      /\ R \in Seq(Seq(Sweep!Instrument)) /\ BatchesOnce(R)
      /\ \A j : InBatches(T, j) <=> InBatches(R, j) \/ \E n \in DOMAIN T[1] : T[1][n] = j
  BY <1>1, <1>2, BatchTaken
<1>4. PICK i \in Sweep!Instrument : i = T[1][1] /\ \A j : InBatches(T, j) <=> InBatches(R, j) \/ j = i
  <2>1. Len(T[1]) = 1 /\ DOMAIN T[1] = {1}
    BY <1>1, <1>3
  <2> QED BY <1>3, <2>1
<1>5. quarantine' = Sweep!Quarantined(i, poll.at) /\ poll'.at = poll.at
  BY <1>1, <1>2, <1>3, <1>4 DEF Polls
<1> HIDE DEF T, R
<1>6. /\ quarantine' \in [Sweep!Instrument -> [failures : Nat, retry : Int]]
      /\ IsQuarantined(i)' /\ \A j \in Sweep!Instrument : IsQuarantined(j) => IsQuarantined(j)'
  BY <1>4, <1>5, QuarantineGrows
<1>7. /\ poll'.todo = R /\ poll'.pc = "ask" /\ poll'.at = poll.at /\ poll'.returned = poll.returned
      /\ poll'.answer = poll.answer /\ poll'.good = poll.good /\ poll'.accepted = poll.accepted
      /\ poll' \in Polls
  BY <1>1, <1>2, <1>3 DEF Polls
<1>8. OnceEach'
  BY <1>2, <1>3, <1>7 DEF OnceEach
<1>9. InOnePlace'
  BY <1>1, <1>2, <1>4, <1>7 DEF InOnePlace, IsStored, T
<1>10. Somewhere'
  <2> SUFFICES ASSUME NEW j \in Sweep!Instrument
               PROVE  InBatches(R, j) \/ InLists(poll.accepted, j) \/ IsStored(j)' \/ IsQuarantined(j)'
    BY <1>7 DEF Somewhere
  <2>1. InBatches(T, j) \/ InLists(poll.accepted, j) \/ IsStored(j) \/ IsQuarantined(j)
    BY <1>2, NothingIn DEF Somewhere, T
  <2>2. IsStored(j) => IsStored(j)'
    BY <1>1, <1>7 DEF IsStored
  <2> QED BY <1>4, <1>6, <2>1, <2>2
<1> QED BY <1>1, <1>2, <1>6, <1>7, <1>8, <1>9, <1>10, SweepGoesOn

\* _acquire_batch: a matching answer has the symbols of the batch.
LEMMA AnswerStep == ASSUME SweepInv, Sweep!Answer PROVE SweepInv'
<1> DEFINE T == poll.todo   R == Tail(T)   b == Head(T)
<1>1. /\ poll.pc = "ask" /\ T # << >>
      /\ UNCHANGED << time, faulty, quarantine, previous, newest, minutes, quoteHealth, minuteHealth, refresh >>
  BY DEF Sweep!Answer, Sweep!World, Sweep!Health
<1>2. /\ poll \in Polls /\ T \in Seq(Seq(Sweep!Instrument)) /\ BatchesOnce(T) /\ InOnePlace /\ Somewhere
      /\ poll.answer = << >> /\ poll.good = {} /\ ListsOnce(poll.accepted)
      /\ previous \in [Sweep!Instrument -> Int]
      /\ quarantine \in [Sweep!Instrument -> [failures : Nat, retry : Int]]
  BY <1>1, PollFacts
<1>3. /\ b \in Seq(Sweep!Instrument)
      /\ R \in Seq(Seq(Sweep!Instrument)) /\ BatchesOnce(R)
      /\ \A m, n \in DOMAIN b : b[m] = b[n] => m = n
      /\ \A j : InBatches(T, j) <=> InBatches(R, j) \/ \E n \in DOMAIN b : b[n] = j
      /\ \A n \in DOMAIN b : ~InBatches(R, b[n])
  BY <1>1, <1>2, BatchTaken
<1>4. PICK lag \in {0, Lag} :
        poll' = [poll EXCEPT !.pc = "judge", !.todo = Tail(T), !.good = {},
                             !.answer = [k \in 1 .. Len(b) |->
                                           [code |-> b[k],
                                            volume |-> IF faulty[b[k]] = "ok" THEN time - lag ELSE Sweep!Never]]]
  BY DEF Sweep!Answer, Sweep!Batch
<1> DEFINE A == [k \in 1 .. Len(b) |->
                   [code |-> b[k], volume |-> IF faulty[b[k]] = "ok" THEN time - lag ELSE Sweep!Never]]
<1>5. /\ A \in Seq(Answers) /\ DOMAIN A = DOMAIN b /\ \A k \in DOMAIN b : A[k].code = b[k]
  <2>1. time \in Int /\ lag \in Int /\ Len(b) \in Nat /\ DOMAIN b = 1 .. Len(b) /\ Sweep!Never \in Int
    BY <1>3 DEF SweepInv, SweepShape, Sweep!SweepAssumption, Sweep!Never
  <2>2. \A k \in 1 .. Len(b) : b[k] \in Sweep!Instrument
    BY <1>3
  <2>3. \A k \in 1 .. Len(b) : A[k] \in Answers /\ A[k].code = b[k]
    BY <2>1, <2>2 DEF Answers
  <2>4. A = [k \in 1 .. Len(b) |-> A[k]]
    OBVIOUS
  <2> HIDE DEF A
  <2>5. A \in [1 .. Len(b) -> Answers]
    BY <2>3, <2>4
  <2> QED BY <2>1, <2>3, <2>5
<1>6. poll' = [poll EXCEPT !.pc = "judge", !.todo = R, !.good = {}, !.answer = A]
  BY <1>4
<1> HIDE DEF A, T, R, b
<1>7. /\ poll'.todo = R /\ poll'.pc = "judge" /\ poll'.at = poll.at /\ poll'.returned = poll.returned
      /\ poll'.answer = A /\ poll'.good = {} /\ poll'.accepted = poll.accepted /\ poll' \in Polls
  BY <1>2, <1>3, <1>5, <1>6 DEF Polls
<1>8. AnswerOnce(A) /\ \A j : InAnswer(A, j) <=> \E n \in DOMAIN b : b[n] = j
  BY <1>3, <1>5 DEF AnswerOnce, InAnswer
<1>9. \A j : InBatches(T, j) <=> InBatches(R, j) \/ InAnswer(A, j)
  BY <1>3, <1>8
<1>10. \A j : InAnswer(A, j) => ~InBatches(R, j)
  BY <1>3, <1>8
<1>11. OnceEach'
  BY <1>2, <1>3, <1>7, <1>8, NothingTwice DEF OnceEach
<1>12. InOnePlace'
  <2> SUFFICES ASSUME NEW j \in Sweep!Instrument
               PROVE  /\ InBatches(R, j) => ~(InAnswer(A, j) \/ InLists(poll.accepted, j) \/ IsStored(j)')
                      /\ InAnswer(A, j) => ~(InLists(poll.accepted, j) \/ IsStored(j)')
                      /\ InLists(poll.accepted, j) => ~IsStored(j)'
    BY <1>7, NothingIn DEF InOnePlace
  <2>1. IsStored(j)' <=> IsStored(j)
    BY <1>1, <1>7 DEF IsStored
  <2>2. /\ InBatches(T, j) => ~(InLists(poll.accepted, j) \/ IsStored(j))
        /\ InLists(poll.accepted, j) => ~IsStored(j)
    BY <1>2 DEF InOnePlace, T
  <2> QED BY <1>9, <1>10, <2>1, <2>2
<1>13. Somewhere'
  <2> SUFFICES ASSUME NEW j \in Sweep!Instrument
               PROVE  \/ InBatches(R, j) \/ InAnswer(A, j) \/ InLists(poll.accepted, j)
                      \/ IsStored(j)' \/ IsQuarantined(j)'
    BY <1>7 DEF Somewhere
  <2>1. InBatches(T, j) \/ InLists(poll.accepted, j) \/ IsStored(j) \/ IsQuarantined(j)
    BY <1>2, NothingIn DEF Somewhere, T
  <2>2. (IsStored(j)' <=> IsStored(j)) /\ (IsQuarantined(j)' <=> IsQuarantined(j))
    BY <1>1, <1>7 DEF IsStored, IsQuarantined
  <2> QED BY <1>9, <2>1, <2>2
<1> QED BY <1>1, <1>2, <1>7, <1>11, <1>12, <1>13, SweepGoesOn

\* _acquire_batch: a quote of the answer is accepted, or its symbol goes to quarantine.
LEMMA JudgeStep == ASSUME SweepInv, Sweep!Judge PROVE SweepInv'
<1> DEFINE A == poll.answer   R == Tail(A)
<1>1. /\ poll.pc = "judge" /\ A # << >>
      /\ UNCHANGED << time, faulty, newest, minutes, quoteHealth, minuteHealth, refresh >>
  BY DEF Sweep!Judge, Sweep!World, Sweep!Health
<1>2. /\ poll \in Polls /\ A \in Seq(Answers) /\ AnswerOnce(A) /\ InOnePlace /\ Somewhere
      /\ poll.good \in SUBSET Answers /\ QuotesOnce(poll.good)
      /\ BatchesOnce(poll.todo) /\ ListsOnce(poll.accepted)
      /\ previous \in [Sweep!Instrument -> Int]
      /\ quarantine \in [Sweep!Instrument -> [failures : Nat, retry : Int]]
  BY <1>1, PollFacts
<1>3. Head(A) = A[1] /\ R \in Seq(Answers) /\ AnswerOnce(R)
  BY <1>1, <1>2, QuoteTaken
<1>4. PICK q \in Answers : /\ q = Head(A)
                           /\ \A j : InAnswer(A, j) <=> InAnswer(R, j) \/ q.code = j
                           /\ ~InAnswer(R, q.code)
  BY <1>1, <1>2, QuoteTaken
<1>5. q.code \in Sweep!Instrument /\ q.volume \in Int
  BY DEF Answers
<1>6. \/ /\ previous' = [previous EXCEPT ![q.code] = q.volume]
         /\ poll' = [poll EXCEPT !.answer = R, !.good = poll.good \cup {q}]
         /\ quarantine' = quarantine
      \/ /\ quarantine' = Sweep!Quarantined(q.code, poll.at)
         /\ poll' = [poll EXCEPT !.answer = R]
         /\ previous' = previous
  BY <1>4 DEF Sweep!Judge
<1> HIDE DEF A, R
<1>7. InAnswer(A, q.code)
  BY <1>4
<1>8. /\ ~InBatches(poll.todo, q.code) /\ ~InQuotes(poll.good, q.code) /\ ~InLists(poll.accepted, q.code)
      /\ ~IsStored(q.code)
  BY <1>2, <1>5, <1>7 DEF InOnePlace, A
\* Where the symbols are in the next state, whichever way the quote goes.
<1> DEFINE Kept(good) ==
             /\ poll' \in Polls /\ poll'.pc = "judge" /\ poll'.at = poll.at /\ poll'.returned = poll.returned
             /\ poll'.todo = poll.todo /\ poll'.accepted = poll.accepted
             /\ poll'.answer = R /\ poll'.good = good
<1>9. CASE /\ previous' = [previous EXCEPT ![q.code] = q.volume]
           /\ poll' = [poll EXCEPT !.answer = R, !.good = poll.good \cup {q}]
           /\ quarantine' = quarantine
  <2>1. Kept(poll.good \cup {q})
    BY <1>1, <1>2, <1>3, <1>9 DEF Polls
  <2>2. /\ QuotesOnce(poll.good \cup {q})
        /\ \A j : InQuotes(poll.good \cup {q}, j) <=> InQuotes(poll.good, j) \/ q.code = j
    BY <1>2, <1>8 DEF QuotesOnce, InQuotes
  <2>3. OnceEach'
    BY <1>2, <1>3, <2>1, <2>2 DEF OnceEach
  <2>4. \A j \in Sweep!Instrument : (IsStored(j)' <=> IsStored(j)) /\ (IsQuarantined(j)' <=> IsQuarantined(j))
    BY <1>1, <1>9, <2>1 DEF IsStored, IsQuarantined
  <2>5. InOnePlace'
    <3> SUFFICES ASSUME NEW j \in Sweep!Instrument
                 PROVE  /\ InBatches(poll.todo, j) =>
                             ~(InAnswer(R, j) \/ InQuotes(poll.good \cup {q}, j) \/ InLists(poll.accepted, j) \/ IsStored(j)')
                        /\ InAnswer(R, j) =>
                             ~(InQuotes(poll.good \cup {q}, j) \/ InLists(poll.accepted, j) \/ IsStored(j)')
                        /\ InQuotes(poll.good \cup {q}, j) => ~(InLists(poll.accepted, j) \/ IsStored(j)')
                        /\ InLists(poll.accepted, j) => ~IsStored(j)'
      BY <2>1 DEF InOnePlace
    <3>1. /\ InBatches(poll.todo, j) =>
               ~(InAnswer(A, j) \/ InQuotes(poll.good, j) \/ InLists(poll.accepted, j) \/ IsStored(j))
          /\ InAnswer(A, j) => ~(InQuotes(poll.good, j) \/ InLists(poll.accepted, j) \/ IsStored(j))
          /\ InQuotes(poll.good, j) => ~(InLists(poll.accepted, j) \/ IsStored(j))
          /\ InLists(poll.accepted, j) => ~IsStored(j)
      BY <1>2 DEF InOnePlace, A
    <3> QED BY <1>4, <1>8, <2>2, <2>4, <3>1
  <2>6. Somewhere'
    <3> SUFFICES ASSUME NEW j \in Sweep!Instrument
                 PROVE  \/ InBatches(poll.todo, j) \/ InAnswer(R, j) \/ InQuotes(poll.good \cup {q}, j)
                        \/ InLists(poll.accepted, j) \/ IsStored(j)' \/ IsQuarantined(j)'
      BY <2>1 DEF Somewhere
    <3>1. \/ InBatches(poll.todo, j) \/ InAnswer(A, j) \/ InQuotes(poll.good, j)
          \/ InLists(poll.accepted, j) \/ IsStored(j) \/ IsQuarantined(j)
      BY <1>2 DEF Somewhere, A
    <3> QED BY <1>4, <2>2, <2>4, <3>1
  <2>7. previous' \in [Sweep!Instrument -> Int]
    BY <1>2, <1>5, <1>9
  <2> QED BY <1>1, <1>2, <1>9, <2>1, <2>3, <2>5, <2>6, <2>7, SweepGoesOn
<1>10. CASE /\ quarantine' = Sweep!Quarantined(q.code, poll.at)
            /\ poll' = [poll EXCEPT !.answer = R]
            /\ previous' = previous
  <2>1. Kept(poll.good)
    BY <1>1, <1>2, <1>3, <1>10 DEF Polls
  <2>2. /\ quarantine' \in [Sweep!Instrument -> [failures : Nat, retry : Int]]
        /\ IsQuarantined(q.code)' /\ \A j \in Sweep!Instrument : IsQuarantined(j) => IsQuarantined(j)'
    BY <1>5, <1>10, <2>1, QuarantineGrows
  <2>3. OnceEach'
    BY <1>2, <1>3, <2>1 DEF OnceEach
  <2>4. \A j \in Sweep!Instrument : IsStored(j)' <=> IsStored(j)
    BY <1>1, <2>1 DEF IsStored
  <2>5. InOnePlace'
    <3> SUFFICES ASSUME NEW j \in Sweep!Instrument
                 PROVE  /\ InBatches(poll.todo, j) =>
                             ~(InAnswer(R, j) \/ InQuotes(poll.good, j) \/ InLists(poll.accepted, j) \/ IsStored(j)')
                        /\ InAnswer(R, j) =>
                             ~(InQuotes(poll.good, j) \/ InLists(poll.accepted, j) \/ IsStored(j)')
                        /\ InQuotes(poll.good, j) => ~(InLists(poll.accepted, j) \/ IsStored(j)')
                        /\ InLists(poll.accepted, j) => ~IsStored(j)'
      BY <2>1 DEF InOnePlace
    <3>1. /\ InBatches(poll.todo, j) =>
               ~(InAnswer(A, j) \/ InQuotes(poll.good, j) \/ InLists(poll.accepted, j) \/ IsStored(j))
          /\ InAnswer(A, j) => ~(InQuotes(poll.good, j) \/ InLists(poll.accepted, j) \/ IsStored(j))
          /\ InQuotes(poll.good, j) => ~(InLists(poll.accepted, j) \/ IsStored(j))
          /\ InLists(poll.accepted, j) => ~IsStored(j)
      BY <1>2 DEF InOnePlace, A
    <3> QED BY <1>4, <2>4, <3>1
  <2>6. Somewhere'
    <3> SUFFICES ASSUME NEW j \in Sweep!Instrument
                 PROVE  \/ InBatches(poll.todo, j) \/ InAnswer(R, j) \/ InQuotes(poll.good, j)
                        \/ InLists(poll.accepted, j) \/ IsStored(j)' \/ IsQuarantined(j)'
      BY <2>1 DEF Somewhere
    <3>1. \/ InBatches(poll.todo, j) \/ InAnswer(A, j) \/ InQuotes(poll.good, j)
          \/ InLists(poll.accepted, j) \/ IsStored(j) \/ IsQuarantined(j)
      BY <1>2 DEF Somewhere, A
    <3> QED BY <1>4, <2>2, <2>4, <3>1
  <2> QED BY <1>1, <1>2, <1>10, <2>1, <2>2, <2>3, <2>5, <2>6, SweepGoesOn
<1> QED BY <1>6, <1>9, <1>10

\* The answered batch joins the accepted ones.
LEMMA KeepStep == ASSUME SweepInv, Sweep!Keep PROVE SweepInv'
<1> DEFINE C == poll.accepted   Q == poll.good   R == IF Q = {} THEN C ELSE Append(C, Q)
<1>1. /\ poll.pc = "judge" /\ poll.answer = << >>
      /\ poll' = [poll EXCEPT !.pc = "ask", !.good = {}, !.accepted = R]
      /\ UNCHANGED << time, faulty, quarantine, previous, newest, minutes, quoteHealth, minuteHealth, refresh >>
  BY DEF Sweep!Keep, Sweep!World, Sweep!Health
<1>2. /\ poll \in Polls /\ C \in Seq(SUBSET Answers) /\ Q \in SUBSET Answers /\ QuotesOnce(Q)
      /\ BatchesOnce(poll.todo) /\ ListsOnce(C) /\ InOnePlace /\ Somewhere
      /\ previous \in [Sweep!Instrument -> Int]
      /\ quarantine \in [Sweep!Instrument -> [failures : Nat, retry : Int]]
  BY <1>1, PollFacts
<1>3. \A i \in Sweep!Instrument : InQuotes(Q, i) => ~InLists(C, i)
  BY <1>2 DEF InOnePlace
<1> HIDE DEF C, Q
<1>4. R \in Seq(SUBSET Answers) /\ ListsOnce(R) /\ \A i : InLists(R, i) <=> InLists(C, i) \/ InQuotes(Q, i)
  <2>1. CASE Q = {}
    BY <1>2, <2>1, NothingIn
  <2>2. CASE Q # {}
    BY <1>2, <1>3, <2>2, ListAppended
  <2> QED BY <2>1, <2>2
<1> HIDE DEF R
<1>5. /\ poll' \in Polls /\ poll'.pc = "ask" /\ poll'.at = poll.at /\ poll'.returned = poll.returned
      /\ poll'.todo = poll.todo /\ poll'.answer = << >> /\ poll'.good = {} /\ poll'.accepted = R
  BY <1>1, <1>2, <1>4 DEF Polls
<1>6. OnceEach'
  BY <1>2, <1>4, <1>5, NothingTwice DEF OnceEach
<1>7. \A j \in Sweep!Instrument : (IsStored(j)' <=> IsStored(j)) /\ (IsQuarantined(j)' <=> IsQuarantined(j))
  BY <1>1, <1>5 DEF IsStored, IsQuarantined
<1>8. InOnePlace'
  <2> SUFFICES ASSUME NEW j \in Sweep!Instrument
               PROVE  /\ InBatches(poll.todo, j) => ~(InLists(R, j) \/ IsStored(j)')
                      /\ InLists(R, j) => ~IsStored(j)'
    BY <1>5, NothingIn DEF InOnePlace
  <2>1. /\ InBatches(poll.todo, j) => ~(InQuotes(Q, j) \/ InLists(C, j) \/ IsStored(j))
        /\ InQuotes(Q, j) => ~IsStored(j)
        /\ InLists(C, j) => ~IsStored(j)
    BY <1>2 DEF InOnePlace, Q, C
  <2> QED BY <1>4, <1>7, <2>1
<1>9. Somewhere'
  <2> SUFFICES ASSUME NEW j \in Sweep!Instrument
               PROVE  \/ InBatches(poll.todo, j) \/ InLists(R, j) \/ IsStored(j)' \/ IsQuarantined(j)'
    BY <1>5 DEF Somewhere
  <2>1. \/ InBatches(poll.todo, j) \/ InQuotes(Q, j) \/ InLists(C, j) \/ IsStored(j) \/ IsQuarantined(j)
    BY <1>1, <1>2, NothingIn DEF Somewhere, Q, C
  <2> QED BY <1>4, <1>7, <2>1
<1> QED BY <1>1, <1>2, <1>5, <1>6, <1>8, <1>9, SweepGoesOn

\* A list of quotes has as many of a market as there are symbols of it in the list.
LEMMA CodesCount ==
  ASSUME Sweep!SweepAssumption, NEW Q \in SUBSET Answers, QuotesOnce(Q), NEW m
  PROVE  LET S == {i \in Sweep!Instrument : Market[i] = m /\ InQuotes(Q, i)}
         IN IsFiniteSet(S) /\ Cardinality({q \in Q : Market[q.code] = m}) = Cardinality(S)
<1> DEFINE S == {i \in Sweep!Instrument : Market[i] = m /\ InQuotes(Q, i)}
           R == {q \in Q : Market[q.code] = m}
           f == [i \in S |-> CHOOSE q \in R : q.code = i]
<1>1. IsFiniteSet(S)
  BY InstrumentsAreFinite, FS_Subset
<1>2. \A i \in S : \E q \in R : q.code = i
  BY DEF InQuotes
<1>3. \A q \in R : q.code \in S
  BY DEF InQuotes, Answers
<1>4. \A p, q \in R : p.code = q.code => p = q
  BY DEF QuotesOnce
<1> HIDE DEF S, R
<1>5. \A i \in S : f[i] \in R /\ f[i].code = i
  BY <1>2
<1>6. ExistsBijection(S, R)
  <2>1. f \in [S -> R]
    BY <1>5
  <2> HIDE DEF f
  <2>2. \A i, j \in S : f[i] = f[j] => i = j
    BY <1>5
  <2>3. \A q \in R : f[q.code] = q
    BY <1>3, <1>4, <1>5
  <2>4. f \in Bijection(S, R)
    BY <1>3, <2>1, <2>2, <2>3 DEF Bijection, Injection, Surjection, IsInjective
  <2> QED BY <2>4 DEF ExistsBijection
<1>7. Cardinality(R) = Cardinality(S)
  BY <1>1, <1>6, FS_Bijection
<1> QED BY <1>1, <1>7 DEF S, R

\* _ingest_batch: what is stored is counted, and was not stored before.
LEMMA IngestStep == ASSUME SweepInv, Sweep!Ingest PROVE SweepInv'
<1> DEFINE C == poll.accepted   R == Tail(C)   B == Head(C)
           Of(i) == {q \in B : q.code = i}
           N == [i \in Sweep!Instrument |->
                   IF Of(i) = {} THEN newest[i]
                   ELSE [at |-> poll.at, volume |-> (CHOOSE q \in Of(i) : TRUE).volume]]
<1>1. /\ poll.pc = "ask" /\ C # << >> /\ newest' = N
      /\ poll' = [poll EXCEPT !.accepted = R, !.returned = Sweep!Counted(poll.returned, B)]
      /\ UNCHANGED << time, faulty, quarantine, previous, minutes, quoteHealth, minuteHealth, refresh >>
  BY DEF Sweep!Ingest, Sweep!World, Sweep!Health
<1>2. /\ poll \in Polls /\ C \in Seq(SUBSET Answers) /\ BatchesOnce(poll.todo) /\ ListsOnce(C)
      /\ InOnePlace /\ Somewhere /\ poll.at \in Int /\ poll.answer = << >> /\ poll.good = {}
      /\ poll.returned \in [{0, 1} -> Nat]
      /\ newest \in [Sweep!Instrument -> [at : Int, volume : Int]]
      /\ Sweep!SweepAssumption
  BY <1>1, PollFacts DEF SweepInv, SweepShape, Polls
<1>3. /\ B \in SUBSET Answers /\ QuotesOnce(B) /\ R \in Seq(SUBSET Answers) /\ ListsOnce(R)
      /\ \A i : InLists(C, i) <=> InLists(R, i) \/ InQuotes(B, i)
      /\ \A i : InQuotes(B, i) => ~InLists(R, i)
  BY <1>1, <1>2, ListTaken
<1> HIDE DEF R, B
<1>4. \A i \in Sweep!Instrument : /\ InQuotes(B, i) => N[i].at = poll.at /\ N[i] \in [at : Int, volume : Int]
                                  /\ ~InQuotes(B, i) => N[i] = newest[i]
  <2> SUFFICES ASSUME NEW i \in Sweep!Instrument
               PROVE  /\ InQuotes(B, i) => N[i].at = poll.at /\ N[i] \in [at : Int, volume : Int]
                      /\ ~InQuotes(B, i) => N[i] = newest[i]
    OBVIOUS
  <2>1. InQuotes(B, i) <=> Of(i) # {}
    BY DEF InQuotes
  <2>2. Of(i) # {} => (CHOOSE q \in Of(i) : TRUE) \in Of(i)
    OBVIOUS
  <2>3. \A q \in Of(i) : q.volume \in Int
    BY <1>3 DEF Answers
  <2> HIDE DEF Of
  <2> QED BY <1>2, <2>1, <2>2, <2>3
<1>5. N \in [Sweep!Instrument -> [at : Int, volume : Int]]
  <2>1. \A i \in Sweep!Instrument : N[i] \in [at : Int, volume : Int]
    BY <1>2, <1>4
  <2>2. N = [i \in Sweep!Instrument |-> N[i]]
    OBVIOUS
  <2> HIDE DEF N
  <2> QED BY <2>1, <2>2
<1> HIDE DEF N
<1> DEFINE K == Sweep!Counted(poll.returned, B)
<1>6. /\ K \in [{0, 1} -> Nat]
      /\ \A m \in {0, 1} :
           K[m] = poll.returned[m] + Cardinality({i \in Sweep!Instrument : Market[i] = m /\ InQuotes(B, i)})
  <2>1. \A m : /\ IsFiniteSet({i \in Sweep!Instrument : Market[i] = m /\ InQuotes(B, i)})
               /\ Cardinality({q \in B : Market[q.code] = m})
                    = Cardinality({i \in Sweep!Instrument : Market[i] = m /\ InQuotes(B, i)})
    BY <1>2, <1>3, CodesCount
  <2>2. \A m : Cardinality({i \in Sweep!Instrument : Market[i] = m /\ InQuotes(B, i)}) \in Nat
    BY <2>1, FS_CardinalityType
  <2>3. K = [m \in {0, 1} |-> poll.returned[m] + Cardinality({i \in Sweep!Instrument : Market[i] = m /\ InQuotes(B, i)})]
    BY <2>1, SweepCardinality DEF Sweep!Counted
  <2> DEFINE count(m) == Cardinality({i \in Sweep!Instrument : Market[i] = m /\ InQuotes(B, i)})
  <2>4. K = [m \in {0, 1} |-> poll.returned[m] + count(m)] /\ \A m : count(m) \in Nat
    BY <2>2, <2>3
  <2> SUFFICES K \in [{0, 1} -> Nat] /\ \A m \in {0, 1} : K[m] = poll.returned[m] + count(m)
    OBVIOUS
  <2> HIDE DEF count, K
  <2> QED BY <1>2, <2>4
<1> HIDE DEF K
<1>7. /\ poll' \in Polls /\ poll'.pc = "ask" /\ poll'.at = poll.at /\ poll'.returned = K
      /\ poll'.todo = poll.todo /\ poll'.answer = << >> /\ poll'.good = {} /\ poll'.accepted = R
  <2>1. poll' = [poll EXCEPT !.accepted = R, !.returned = K]
    BY <1>1 DEF K
  <2> QED BY <1>1, <1>2, <1>3, <1>6, <2>1 DEF Polls
<1>8. \A j \in Sweep!Instrument : IsStored(j)' <=> IsStored(j) \/ InQuotes(B, j)
  BY <1>1, <1>4, <1>7 DEF IsStored
<1>9. \A j \in Sweep!Instrument : IsQuarantined(j)' <=> IsQuarantined(j)
  BY <1>1, <1>7 DEF IsQuarantined
<1>10. OnceEach'
  BY <1>2, <1>3, <1>7, NothingTwice DEF OnceEach
<1>11. InOnePlace'
  <2> SUFFICES ASSUME NEW j \in Sweep!Instrument
               PROVE  /\ InBatches(poll.todo, j) => ~(InLists(R, j) \/ IsStored(j)')
                      /\ InLists(R, j) => ~IsStored(j)'
    BY <1>7, NothingIn DEF InOnePlace
  <2>1. /\ InBatches(poll.todo, j) => ~(InLists(C, j) \/ IsStored(j))
        /\ InLists(C, j) => ~IsStored(j)
    BY <1>2 DEF InOnePlace
  <2> QED BY <1>3, <1>8, <2>1
<1>12. Somewhere'
  <2> SUFFICES ASSUME NEW j \in Sweep!Instrument
               PROVE  InBatches(poll.todo, j) \/ InLists(R, j) \/ IsStored(j)' \/ IsQuarantined(j)'
    BY <1>7 DEF Somewhere
  <2>1. InBatches(poll.todo, j) \/ InLists(C, j) \/ IsStored(j) \/ IsQuarantined(j)
    BY <1>2, NothingIn DEF Somewhere
  <2> QED BY <1>3, <1>8, <1>9, <2>1
<1>13. \A m \in {0, 1} : poll'.returned[m] = Cardinality(StoredOf(m)')
  <2> SUFFICES ASSUME NEW m \in {0, 1} PROVE K[m] = Cardinality(StoredOf(m)')
    BY <1>7
  <2> DEFINE S == {i \in Sweep!Instrument : Market[i] = m /\ InQuotes(B, i)}
  <2>1. StoredOf(m)' = StoredOf(m) \cup S
    BY <1>8 DEF StoredOf
  <2>2. \A i \in S : ~IsStored(i)
    BY <1>2, <1>3 DEF InOnePlace
  <2>3. StoredOf(m) \cap S = {}
    BY <2>2 DEF StoredOf
  <2>4. IsFiniteSet(StoredOf(m)) /\ IsFiniteSet(S)
    <3>1. StoredOf(m) \subseteq Sweep!Instrument /\ S \subseteq Sweep!Instrument
      BY DEF StoredOf
    <3> QED BY <1>2, <3>1, InstrumentsAreFinite, FS_Subset
  <2>5. poll.returned[m] = Cardinality(StoredOf(m))
    BY <1>1 DEF SweepInv, UnderWay
  <2>6. K[m] = Cardinality(StoredOf(m)) + Cardinality(S)
    BY <1>6, <2>5
  <2> HIDE DEF S
  <2>7. Cardinality(StoredOf(m) \cup S) = Cardinality(StoredOf(m)) + Cardinality(S)
    <3>1. Cardinality({}) = 0 /\ Cardinality(StoredOf(m)) \in Nat /\ Cardinality(S) \in Nat
      BY <2>4, FS_EmptySet, FS_CardinalityType
    <3>2. Cardinality(StoredOf(m) \cup S)
            = Cardinality(StoredOf(m)) + Cardinality(S) - Cardinality(StoredOf(m) \cap S)
      BY <2>4, FS_Union
    <3>3. Cardinality(StoredOf(m) \cap S) = 0
      BY <2>3, <3>1
    <3> QED BY <3>1, <3>2, <3>3
  <2> QED BY <2>1, <2>6, <2>7
<1>14. UnderWay'
  BY <1>10, <1>11, <1>12, <1>13 DEF UnderWay
<1>15. SweepShape'
  BY <1>1, <1>5, <1>7 DEF SweepInv, SweepShape
<1>16. SweepTimes'
  <2>1. \A i \in Sweep!Instrument : newest'[i].at <= poll.at
    BY <1>1, <1>2, <1>4 DEF SweepInv, SweepTimes
  <2> QED BY <1>1, <1>7, <2>1 DEF SweepInv, SweepTimes
<1>17. Sweep!EveryMemberAnswered'
  BY <1>7 DEF Sweep!EveryMemberAnswered
<1> QED BY <1>1, <1>2, <1>14, <1>15, <1>16, <1>17, RefreshStays DEF SweepInv

\* _record_quote_health: nothing waits any more, so every symbol is stored or in quarantine.
LEMMA ReportQuotesStep == ASSUME SweepInv, Sweep!ReportQuotes PROVE SweepInv'
<1>1. /\ poll.pc = "ask" /\ poll.todo = << >> /\ poll.accepted = << >>
      /\ quoteHealth' = [at |-> poll.at, returned |-> poll.returned]
      /\ poll' = [Sweep!IdlePoll EXCEPT !.at = poll.at]
      /\ UNCHANGED << time, faulty, quarantine, previous, newest, minutes, minuteHealth, refresh >>
  BY DEF Sweep!ReportQuotes, Sweep!World
<1>2. /\ poll \in Polls /\ poll.at \in Int /\ poll.returned \in [{0, 1} -> Nat] /\ Somewhere
      /\ poll.answer = << >> /\ poll.good = {}
      /\ \A m \in {0, 1} : poll.returned[m] = Cardinality(StoredOf(m))
  BY <1>1, PollFacts DEF SweepInv, UnderWay, Polls
<1>3. /\ poll' \in Polls /\ poll'.at = poll.at
      /\ poll'.pc = "idle" /\ poll'.answer = << >> /\ poll'.good = {}
  BY <1>1, <1>2, IdlePolls DEF Polls
<1>4. SweepShape' /\ SweepTimes' /\ UnderWay'
  BY <1>1, <1>2, <1>3 DEF SweepInv, SweepShape, SweepTimes, UnderWay
<1>5. Sweep!EveryMemberAnswered'
  <2>1. \A i \in Sweep!Instrument : newest[i].at = poll.at \/ quarantine[i].retry > poll.at
    BY <1>1, <1>2, NothingIn DEF Somewhere, IsStored, IsQuarantined
  <2>2. \A m \in {0, 1} : poll.returned[m] =
          Sweep!Cardinality({i \in Sweep!Instrument : Market[i] = m /\ newest[i].at = poll.at})
    BY <1>2, SweepCardinality DEF StoredOf, IsStored
  <2> QED BY <1>1, <1>3, <2>1, <2>2 DEF Sweep!EveryMemberAnswered
<1> QED BY <1>1, <1>4, <1>5, RefreshStays DEF SweepInv

\* The refresh of the minute bars changes nothing of the sweep.
LEMMA SweepWaits ==
  ASSUME SweepInv, UNCHANGED << time, faulty, quarantine, previous, newest, quoteHealth, poll >>, RefreshOK'
  PROVE  SweepInv'
<1>1. time \in Nat /\ time <= time /\ DOMAIN faulty = Sweep!Instrument
  BY DEF SweepInv, SweepShape
<1> QED BY <1>1, SweepStays DEF SweepInv

\* The members with a whole tail, as the report counts them.
LEMMA TailsCounted ==
  ASSUME Sweep!SweepAssumption, NEW S, NEW T \in SUBSET (Sweep!Instrument \ Suspended), S \subseteq T
  PROVE  /\ Sweep!Cardinality(S) \in Nat /\ Sweep!Cardinality(T) \in Nat
         /\ Sweep!Cardinality(S) <= Sweep!Cardinality(T)
<1>1. IsFiniteSet(T)
  BY InstrumentsAreFinite, FS_Subset
<1>2. IsFiniteSet(S) /\ Cardinality(S) <= Cardinality(T)
  BY <1>1, FS_Subset
<1> QED BY <1>1, <1>2, FS_CardinalityType, SweepCardinality

LEMMA RefreshBeginStep == ASSUME SweepInv, Sweep!RefreshBegin PROVE SweepInv'
<1>1. /\ refresh' = [pc |-> "collect", at |-> time, bars |-> {}, candidates |-> Sweep!Candidates(time)]
      /\ UNCHANGED << time, faulty, quarantine, previous, newest, minutes, quoteHealth, minuteHealth, poll >>
  BY DEF Sweep!RefreshBegin, Sweep!World, Sweep!Health
<1>2. Sweep!Candidates(time) \subseteq Sweep!Instrument \ Suspended
  BY DEF Sweep!Candidates
<1>3. RefreshOK'
  BY <1>1, <1>2 DEF SweepInv, RefreshOK, Sweep!MinutesBehindTheReport
<1> QED BY <1>1, <1>3, SweepWaits

LEMMA CollectStep == ASSUME SweepInv, Sweep!Collect PROVE SweepInv'
<1>1. PICK bars :
        /\ refresh' = [refresh EXCEPT !.pc = "record", !.bars = bars]
        /\ UNCHANGED << time, faulty, quarantine, previous, newest, minutes, quoteHealth, minuteHealth, poll >>
  BY DEF Sweep!Collect, Sweep!World, Sweep!Health
<1>2. RefreshOK'
  BY <1>1 DEF SweepInv, RefreshOK, Sweep!MinutesBehindTheReport
<1> QED BY <1>1, <1>2, SweepWaits

\* record_bars: minutes are only added, so a tail that was whole stays whole.
LEMMA RecordMinutesStep == ASSUME SweepInv, Sweep!RecordMinutes PROVE SweepInv'
<1> DEFINE of(i) == {b[2] : b \in {c \in refresh.bars : c[1] = i}}
           whole(i) == minuteHealth.required \subseteq minutes[i]
<1>1. /\ minutes' = [i \in Sweep!Instrument |-> minutes[i] \cup of(i)]
      /\ refresh' = [refresh EXCEPT !.pc = "report"]
      /\ UNCHANGED << time, faulty, quarantine, previous, newest, quoteHealth, minuteHealth, poll >>
  BY DEF Sweep!RecordMinutes, Sweep!World, Sweep!Health
<1>2. refresh'.pc = "report" /\ refresh'.candidates = refresh.candidates /\ refresh'.bars = refresh.bars
  BY <1>1 DEF SweepInv, RefreshOK
<1>3. \A i \in Sweep!Instrument : of(i) \subseteq minutes'[i] /\ minutes[i] \subseteq minutes'[i]
  BY <1>1
<1>4. {i \in Sweep!Instrument \ Suspended : whole(i)} \subseteq {i \in Sweep!Instrument \ Suspended : whole(i)'}
  BY <1>1, <1>3
<1>5. Sweep!MinutesBehindTheReport'
  <2>1. Sweep!SweepAssumption /\ minuteHealth.valid \in Nat /\ Sweep!MinutesBehindTheReport
    BY DEF SweepInv, RefreshOK
  <2>2. /\ Sweep!Cardinality({i \in Sweep!Instrument \ Suspended : whole(i)}) \in Nat
        /\ Sweep!Cardinality({i \in Sweep!Instrument \ Suspended : whole(i)'}) \in Nat
        /\ Sweep!Cardinality({i \in Sweep!Instrument \ Suspended : whole(i)})
             <= Sweep!Cardinality({i \in Sweep!Instrument \ Suspended : whole(i)'})
    BY <1>4, <2>1, TailsCounted
  <2>3. minuteHealth.valid <= Sweep!Cardinality({i \in Sweep!Instrument \ Suspended : whole(i)})
    BY <2>1 DEF Sweep!MinutesBehindTheReport
  <2>4. minuteHealth.valid <= Sweep!Cardinality({i \in Sweep!Instrument \ Suspended : whole(i)'})
    BY <2>1, <2>2, <2>3
  <2> QED BY <1>1, <2>4 DEF Sweep!MinutesBehindTheReport
<1>6. RefreshOK'
  BY <1>1, <1>2, <1>3, <1>5 DEF SweepInv, RefreshOK
<1> QED BY <1>1, <1>6, SweepWaits

\* _record_capability: what it counts is stored, and is not suspended.
LEMMA ReportMinutesStep == ASSUME SweepInv, Sweep!ReportMinutes PROVE SweepInv'
<1> DEFINE W == Sweep!Required(refresh.at)
           V == {i \in refresh.candidates : \A m \in W : <<i, m>> \in refresh.bars}
           T == {i \in Sweep!Instrument \ Suspended : W \subseteq minutes[i]}
<1>1. /\ refresh.pc = "report"
      /\ minuteHealth' = [at |-> refresh.at, required |-> W, valid |-> Sweep!Cardinality(V)]
      /\ refresh' = [Sweep!IdleRefresh EXCEPT !.at = refresh.at]
      /\ UNCHANGED << time, faulty, quarantine, previous, newest, minutes, quoteHealth, poll >>
  BY DEF Sweep!ReportMinutes, Sweep!World, Sweep!ValidCount
<1>2. /\ refresh.candidates \subseteq Sweep!Instrument \ Suspended
      /\ \A i \in Sweep!Instrument : {b[2] : b \in {c \in refresh.bars : c[1] = i}} \subseteq minutes[i]
  BY <1>1 DEF SweepInv, RefreshOK
<1>3. V \subseteq T
  <2> SUFFICES ASSUME NEW i \in refresh.candidates, \A m \in W : <<i, m>> \in refresh.bars, NEW m \in W
               PROVE  m \in minutes[i]
    BY <1>2
  <2>1. <<i, m>> \in {c \in refresh.bars : c[1] = i} /\ <<i, m>>[2] = m
    OBVIOUS
  <2> QED BY <1>2, <2>1
<1>4. /\ Sweep!Cardinality(V) \in Nat /\ Sweep!Cardinality(V) <= Sweep!Cardinality(T)
  BY <1>3, TailsCounted DEF SweepInv
<1> HIDE DEF V, W
<1>5. /\ minuteHealth'.valid = Sweep!Cardinality(V) /\ minuteHealth'.required = W
      /\ refresh'.pc = "idle" /\ refresh'.candidates = {}
  BY <1>1 DEF Sweep!IdleRefresh
<1>6. RefreshOK'
  BY <1>1, <1>4, <1>5 DEF RefreshOK, Sweep!MinutesBehindTheReport
<1> QED BY <1>1, <1>6, SweepWaits

LEMMA RefreshEnds ==
  ASSUME SweepInv, refresh' = [Sweep!IdleRefresh EXCEPT !.at = refresh.at], UNCHANGED << minutes, minuteHealth >>
  PROVE  RefreshOK'
<1>1. refresh'.pc = "idle" /\ refresh'.candidates = {}
  BY DEF Sweep!IdleRefresh
<1> QED BY <1>1 DEF SweepInv, RefreshOK, Sweep!MinutesBehindTheReport

LEMMA RefreshFailsStep == ASSUME SweepInv, Sweep!RefreshFails PROVE SweepInv'
<1>1. /\ refresh' = [Sweep!IdleRefresh EXCEPT !.at = refresh.at]
      /\ UNCHANGED << time, faulty, quarantine, previous, newest, minutes, quoteHealth, minuteHealth, poll >>
  BY DEF Sweep!RefreshFails, Sweep!World, Sweep!Health
<1> QED BY <1>1, RefreshEnds, SweepWaits

\* A restart between two sweeps changes nothing of the last one; a restart within one ends it.
LEMMA SweepRestartStep == ASSUME SweepInv, Sweep!Restart PROVE SweepInv'
<1>1. /\ previous' = [i \in Sweep!Instrument |-> Sweep!Never]
      /\ poll' = [Sweep!IdlePoll EXCEPT !.at = poll.at]
      /\ refresh' = [Sweep!IdleRefresh EXCEPT !.at = refresh.at]
      /\ UNCHANGED << time, faulty, quarantine, newest, minutes, quoteHealth, minuteHealth >>
  BY DEF Sweep!Restart, Sweep!World, Sweep!Health
<1>2. previous' \in [Sweep!Instrument -> Int]
  BY <1>1 DEF Sweep!Never
<1>3. RefreshOK'
  BY <1>1, RefreshEnds
<1>4. poll' \in Polls /\ poll'.at = poll.at /\ poll'.pc = "idle" /\ poll'.answer = << >> /\ poll'.good = {}
  <2>1. poll.at \in Int
    BY DEF SweepInv, SweepShape, Polls
  <2> QED BY <1>1, <2>1, IdlePolls DEF Polls
<1>5. SweepShape' /\ SweepTimes' /\ UnderWay'
  BY <1>1, <1>2, <1>4 DEF SweepInv, SweepShape, SweepTimes, UnderWay
<1>6. Sweep!EveryMemberAnswered'
  <2>1. CASE poll.pc = "idle"
    BY <1>1, <1>4, <2>1 DEF SweepInv, Sweep!EveryMemberAnswered
  <2>2. CASE poll.pc # "idle"
    <3>1. quoteHealth'.at # poll'.at
      BY <1>1, <1>4, <2>2 DEF SweepInv, SweepShape, SweepTimes, Polls
    <3> QED BY <3>1 DEF Sweep!EveryMemberAnswered
  <2> QED BY <2>1, <2>2
<1> QED BY <1>3, <1>5, <1>6 DEF SweepInv

\* A new database: no sweep and no refresh has begun.
LEMMA SweepStarts == ASSUME Sweep!SweepAssumption, Sweep!Init PROVE SweepInv
<1>1. /\ time = Lag /\ faulty \in [Sweep!Instrument -> {"ok", "breaks", "no_quote"}]
      /\ quarantine = [i \in Sweep!Instrument |-> [failures |-> 0, retry |-> Sweep!Never]]
      /\ previous = [i \in Sweep!Instrument |-> Sweep!Never]
      /\ newest = [i \in Sweep!Instrument |-> [at |-> Sweep!Never, volume |-> Sweep!Never]]
      /\ quoteHealth = [at |-> Sweep!Never, returned |-> [m \in {0, 1} |-> 0]]
      /\ minuteHealth = [at |-> Sweep!Never, required |-> {}, valid |-> 0]
      /\ poll = Sweep!IdlePoll /\ refresh = Sweep!IdleRefresh
  BY DEF Sweep!Init
<1>2. Lag \in Nat /\ Sweep!Never \in Int /\ Sweep!Never < 0 /\ Sweep!IdlePoll.at = Sweep!Never
  BY DEF Sweep!SweepAssumption, Sweep!Never, Sweep!IdlePoll
<1>3. SweepShape
  BY <1>1, <1>2, IdlePolls DEF SweepShape
<1>4. SweepTimes
  BY <1>1, <1>2, IdlePolls DEF SweepTimes
<1>5. UnderWay /\ Sweep!EveryMemberAnswered
  BY <1>1, <1>2, IdlePolls DEF UnderWay, Sweep!EveryMemberAnswered
<1>6. RefreshOK
  <2>1. Sweep!MinutesBehindTheReport
    <3> DEFINE T == {i \in Sweep!Instrument \ Suspended : minuteHealth.required \subseteq minutes[i]}
    <3>1. Sweep!Cardinality(T) \in Nat
      BY TailsCounted
    <3> QED BY <1>1, <3>1 DEF Sweep!MinutesBehindTheReport
  <2>2. refresh.pc = "idle" /\ refresh.candidates = {} /\ minuteHealth.valid = 0
    BY <1>1 DEF Sweep!IdleRefresh
  <2> QED BY <2>1, <2>2 DEF RefreshOK
<1> QED BY <1>3, <1>4, <1>5, <1>6 DEF SweepInv

LEMMA SweepSteps == ASSUME SweepInv, [Sweep!Next]_(Sweep!vars) PROVE SweepInv'
<1>1. CASE Sweep!Poll
  BY <1>1, PollBeginStep, SplitStep, IsolateStep, AnswerStep, JudgeStep, KeepStep, IngestStep,
     ReportQuotesStep, PollFailsStep DEF Sweep!Poll
<1>2. CASE Sweep!Refresh
  BY <1>2, RefreshBeginStep, CollectStep, RecordMinutesStep, ReportMinutesStep, RefreshFailsStep
     DEF Sweep!Refresh
<1>3. CASE UNCHANGED Sweep!vars
  <2>1. UNCHANGED << time, faulty, quarantine, previous, newest, minutes, quoteHealth, minuteHealth, poll, refresh >>
    BY <1>3 DEF Sweep!vars
  <2> QED BY <2>1, RefreshStays, SweepWaits
<1> QED BY <1>1, <1>2, <1>3, SweepTickStep, SweepRestartStep DEF Sweep!Next

(***************************************************************************)
(* In every sweep each symbol is in one place: it waits in a batch, is in  *)
(* the answer being judged, is accepted, is stored, or is in quarantine    *)
(* (provider.py:180-208, 393-461).                                         *)
(***************************************************************************)
THEOREM SweepInvariance == Sweep!SweepAssumption /\ Sweep!Spec => []SweepInv
<1>1. Sweep!SweepAssumption /\ Sweep!Init => SweepInv
  BY SweepStarts
<1>2. SweepInv /\ [Sweep!Next]_(Sweep!vars) => SweepInv'
  BY SweepSteps
<1> QED BY <1>1, <1>2, PTL DEF Sweep!Spec

(***************************************************************************)
(* What a sweep reports is what it stored, and the members it has no quote *)
(* of are in quarantine (provider.py:180-208, 463-507).                    *)
(***************************************************************************)
THEOREM MembersAnswered == Sweep!SweepAssumption /\ Sweep!Spec => []Sweep!EveryMemberAnswered
<1>1. SweepInv => Sweep!EveryMemberAnswered
  BY DEF SweepInv
<1> QED BY <1>1, SweepInvariance, PTL

(***************************************************************************)
(* The minute report never counts more members than have a whole tail      *)
(* stored and are not suspended (provider.py:285-308, 671-711).            *)
(***************************************************************************)
THEOREM MinutesCounted == Sweep!SweepAssumption /\ Sweep!Spec => []Sweep!MinutesBehindTheReport
<1>1. SweepInv => Sweep!MinutesBehindTheReport
  BY DEF SweepInv, RefreshOK
<1> QED BY <1>1, SweepInvariance, PTL

(***************************************************************************)
(* A symbol goes to quarantine for its own answer only: it is the one that *)
(* breaks a batch of one, or the one whose quote was refused               *)
(* (provider.py:403-426).                                                  *)
(***************************************************************************)
THEOREM FaultyQuarantined ==
  Sweep!SweepAssumption /\ Sweep!Spec => Sweep!OnlyTheFaultyAreQuarantined
<1> DEFINE OwnAnswer ==
      \A i \in Sweep!Instrument : quarantine'[i] # quarantine[i] =>
        \/ faulty[i] # "ok"
        \/ \E k \in 1 .. Len(poll.answer) : poll.answer[k].code = i /\ ~Sweep!Accepted(poll.answer[k])
<1>1. ASSUME SweepInv, [Sweep!Next]_(Sweep!vars) PROVE OwnAnswer
  <2>1. CASE Sweep!Isolate
    <3> DEFINE b == Head(poll.todo)
    <3>1. PICK k \in 1 .. Len(b) : faulty[b[k]] = "breaks"
      BY <2>1 DEF Sweep!Isolate, Sweep!Mismatch, Sweep!Batch
    <3>2. Len(b) = 1 /\ quarantine' = Sweep!Quarantined(b[1], poll.at)
      BY <2>1 DEF Sweep!Isolate, Sweep!Batch
    <3>3. faulty[b[1]] # "ok"
      BY <3>1, <3>2
    <3>4. \A i \in Sweep!Instrument : i # b[1] => quarantine'[i] = quarantine[i]
      BY <3>2 DEF Sweep!Quarantined
    <3> QED BY <3>3, <3>4
  <2>2. CASE Sweep!Judge
    <3> DEFINE q == Head(poll.answer)
    <3>1. poll.answer \in Seq(Answers) /\ poll.answer # << >> /\ AnswerOnce(poll.answer)
      BY <1>1, <2>2, PollFacts DEF Sweep!Judge
    <3>2. q = poll.answer[1] /\ 1 \in 1 .. Len(poll.answer)
      BY <3>1, QuoteTaken
    <3>3. CASE Sweep!Accepted(q)
      BY <2>2, <3>3 DEF Sweep!Judge
    <3>4. CASE ~Sweep!Accepted(q)
      <4>1. quarantine' = Sweep!Quarantined(q.code, poll.at)
        BY <2>2, <3>4 DEF Sweep!Judge
      <4>2. \A i \in Sweep!Instrument : i # q.code => quarantine'[i] = quarantine[i]
        BY <4>1 DEF Sweep!Quarantined
      <4> QED BY <3>2, <3>4, <4>2
    <3> QED BY <3>3, <3>4
  <2>3. CASE UNCHANGED quarantine
    BY <2>3
  <2>4. Sweep!Isolate \/ Sweep!Judge \/ UNCHANGED quarantine
    BY <1>1 DEF Sweep!Next, Sweep!Tick, Sweep!Poll, Sweep!Refresh, Sweep!Restart, Sweep!vars,
       Sweep!PollBegin, Sweep!Split, Sweep!Answer, Sweep!Keep, Sweep!Ingest, Sweep!ReportQuotes,
       Sweep!PollFails, Sweep!RefreshBegin, Sweep!Collect, Sweep!RecordMinutes, Sweep!ReportMinutes,
       Sweep!RefreshFails
  <2> QED BY <2>1, <2>2, <2>3, <2>4
<1>2. SweepInv /\ [Sweep!Next]_(Sweep!vars) => [Sweep!ForItsOwnAnswer]_(Sweep!vars)
  BY <1>1 DEF Sweep!ForItsOwnAnswer
<1> QED BY <1>2, SweepInvariance, PTL DEF Sweep!Spec, Sweep!OnlyTheFaultyAreQuarantined

(***************************************************************************)
(* Both reports of the provider tell the truth (provider.py:180-208,       *)
(* 285-308).                                                               *)
(***************************************************************************)
THEOREM ReportsTrue == Sweep!SweepAssumption /\ Sweep!Spec => []Sweep!ReportsTellTruth
BY MembersAnswered, MinutesCounted, PTL DEF Sweep!ReportsTellTruth

-----------------------------------------------------------------------------
(***************************************************************************)
(* The parts together (DataParts): a behaviour of the composition is one   *)
(* of its component, so that what was proved of each holds here.           *)
(***************************************************************************)
\* Epochs, watermarks and modes move as Recovery has it, or stand still.
LEMMA DataIsRecovery == DataSpec => Spec
<1>1. DataInit => Init
  BY DEF DataInit
<1>2. [DataNext]_<<part, vars, loaderVars, sweepVars>> => [Next]_vars
  BY DEF DataNext, vars
<1> QED BY <1>1, <1>2, PTL DEF DataSpec, Spec

\* The loader moves alone, or not at all.
LEMMA CatchupIsLoader ==
  DataSpec => []~(part = "catchup") \/ ([](part = "catchup") /\ Loader!Spec)
<1> DEFINE E == part = "catchup"
<1>1. DataInit /\ E => Loader!Init
  BY DEF DataInit
<1>2. [DataNext]_<<part, vars, loaderVars, sweepVars>> => (E' <=> E)
  BY DEF DataNext
<1>3. E /\ [DataNext]_<<part, vars, loaderVars, sweepVars>> => [Loader!Next]_(Loader!vars)
  BY DEF DataNext, loaderVars, Loader!vars
<1> HIDE DEF E
<1>4. DataSpec => []~E \/ ([]E /\ Loader!Spec)
  BY <1>1, <1>2, <1>3, PTL DEF DataSpec, Loader!Spec
<1> QED BY <1>4 DEF E

\* So does the sweep.
LEMMA PartIsSweep ==
  DataSpec => []~(part = "sweep") \/ ([](part = "sweep") /\ Sweep!Spec)
<1> DEFINE E == part = "sweep"
<1>1. DataInit /\ E => Sweep!Init
  BY DEF DataInit
<1>2. [DataNext]_<<part, vars, loaderVars, sweepVars>> => (E' <=> E)
  BY DEF DataNext
<1>3. E /\ [DataNext]_<<part, vars, loaderVars, sweepVars>> => [Sweep!Next]_(Sweep!vars)
  BY DEF DataNext, sweepVars, Sweep!vars
<1> HIDE DEF E
<1>4. DataSpec => []~E \/ ([]E /\ Sweep!Spec)
  BY <1>1, <1>2, <1>3, PTL DEF DataSpec, Sweep!Spec
<1> QED BY <1>4 DEF E

\* historical.py, storage.py: the ledger of the catch-up counts rows that exist, and its FIT is
\* earned.
THEOREM DataLedgerTrue == Loader!CatchupAssumption /\ DataSpec => []CatchupTellsTruth
<1>1. /\ ~(part = "catchup") => CatchupTellsTruth
      /\ (part = "catchup") /\ Loader!CatchupTellsTruth => CatchupTellsTruth
  BY DEF CatchupTellsTruth
<1> QED BY <1>1, CatchupIsLoader, CatchupTrue, PTL

\* provider.py:180-308: both reports of a sweep tell the truth.
THEOREM DataReportsTrue == Sweep!SweepAssumption /\ DataSpec => []ReportsTellTruth
<1>1. /\ ~(part = "sweep") => ReportsTellTruth
      /\ (part = "sweep") /\ Sweep!ReportsTellTruth => ReportsTellTruth
  BY DEF ReportsTellTruth
<1> QED BY <1>1, PartIsSweep, ReportsTrue, PTL

\* provider.py:403-426: a symbol goes to quarantine for its own answer only.
THEOREM DataFaultyQuarantined == Sweep!SweepAssumption /\ DataSpec => OnlyTheFaultyAreQuarantined
<1> DEFINE E == part = "sweep"
           Own == E => Sweep!ForItsOwnAnswer
<1>1. E /\ [Sweep!ForItsOwnAnswer]_(Sweep!vars) => [Own]_sweepVars
  BY DEF Sweep!vars, sweepVars
<1>2. ~E => [Own]_sweepVars
  OBVIOUS
<1>3. OnlyTheFaultyAreQuarantined <=> [][Own]_sweepVars
  BY DEF OnlyTheFaultyAreQuarantined
<1>4. DataSpec => []~E \/ ([]E /\ Sweep!Spec)
  BY PartIsSweep
<1>5. Sweep!SweepAssumption /\ Sweep!Spec => [][Sweep!ForItsOwnAnswer]_(Sweep!vars)
  BY FaultyQuarantined DEF Sweep!OnlyTheFaultyAreQuarantined
<1> HIDE DEF E, Own
<1> QED BY <1>1, <1>2, <1>3, <1>4, <1>5, PTL
=============================================================================
