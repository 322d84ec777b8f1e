--------------------------- MODULE AnalysisCommit ---------------------------
(***************************************************************************)
(* AnalysisCommitService.commit under concurrent callers.  The service is  *)
(* the only door to OFFICIAL state.  Its callers are the production worker *)
(* and the official-run command, which takes no runtime lock: each seals a *)
(* snapshot, reads the projection version it expects, looks for a commit   *)
(* already made for the snapshot, and submits one transaction.  Callers    *)
(* interleave between those steps; the writer runs transactions one by     *)
(* one.  A caller may die, and a snapshot may be tried again by anyone.    *)
(***************************************************************************)
EXTENDS CommitStore

CONSTANTS Callers,
          MaxSnapshots   \* bound: snapshots ever sealed

ASSUME SnapshotBoundAssumption == MaxSnapshots \in Nat

VARIABLES sealed,   \* evaluation_snapshot: the sealed snapshots in as-of order
          caller,   \* each caller's progress through commit()
          db        \* the tables a commit writes

vars == <<sealed, caller, db>>

Snapshots == 1..MaxSnapshots
Answers == {"COMMITTED", "DIFFERENT_COMMIT"} \cup Refusals

Requests == [snapshot : Snapshots, availability : Availabilities,
             lifecycle : Lifecycles \cup {Null}, expected : 0..MaxSnapshots]

Idle == [pc |-> "idle", snapshot |-> Null, request |-> Null, answer |-> Null]

(* What commit() returns or raises; a caller keeps the request it got its  *)
(* commit for.                                                             *)
Answered(request, answer) ==
    [Idle EXCEPT !.answer = answer,
                 !.request = IF answer = "COMMITTED" THEN request ELSE Null]

Init == /\ sealed = << >>
        /\ caller = [c \in Callers |-> Idle]
        /\ db = EmptyStore

-----------------------------------------------------------------------------
(* A caller seals the snapshot of its own observation (as_of_time is the   *)
(* instant observed, later for a later observation).                       *)
Seal(c, u, d, e) ==
    /\ caller[c].pc = "idle"
    /\ Len(sealed) < MaxSnapshots
    /\ sealed' = Append(sealed, [at |-> Len(sealed) + 1, subject |-> u,
                                 disposition |-> d, evidence |-> e])
    /\ caller' = [caller EXCEPT ![c] = [Idle EXCEPT !.pc = "sealed",
                                                    !.snapshot = Len(sealed) + 1]]
    /\ UNCHANGED db

(* A caller takes up a snapshot sealed earlier, by itself or another.      *)
Retry(c, s) ==
    /\ caller[c].pc = "idle"
    /\ caller' = [caller EXCEPT ![c] = [Idle EXCEPT !.pc = "sealed", !.snapshot = s]]
    /\ UNCHANGED <<sealed, db>>

(* The request: _validate_request admits a lifecycle with AVAILABLE only;  *)
(* expected_projection_version is read here, before commit is called.      *)
MakeRequest(c, a, l) ==
    /\ caller[c].pc = "sealed"
    /\ (a = "AVAILABLE") <=> (l # Null)
    /\ LET s == caller[c].snapshot
       IN  caller' = [caller EXCEPT ![c].pc = "requested",
               ![c].request = [snapshot |-> s, availability |-> a, lifecycle |-> l,
                               expected |-> Version(db, sealed[s].subject)]]
    /\ UNCHANGED <<sealed, db>>

(* Faulty variant: any commit of the snapshot is taken for the caller's.   *)
LookupAnyCommit(c) ==
    /\ caller[c].pc = "requested"
    /\ caller' = [caller EXCEPT
           ![c] = IF Commits(db, @.request.snapshot) = {} THEN [@ EXCEPT !.pc = "submitted"]
                  ELSE Answered(@.request, "COMMITTED")]
    /\ UNCHANGED <<sealed, db>>

(* _existing, read outside the transaction.                                *)
Lookup(c) ==
    /\ caller[c].pc = "requested"
    /\ LET request == caller[c].request
           rows == Commits(db, request.snapshot)
           same == \E i \in rows : db.ledger[i].request = request
       IN  caller' = [caller EXCEPT
               ![c] = IF rows = {} THEN [@ EXCEPT !.pc = "submitted"]
                      ELSE Answered(request, IF same THEN "COMMITTED" ELSE "DIFFERENT_COMMIT")]
    /\ UNCHANGED <<sealed, db>>

(* The transaction, run by the writer: all of it, or none after a refusal. *)
Execute(c) ==
    /\ caller[c].pc = "submitted"
    /\ LET request == caller[c].request
           snap == sealed[request.snapshot]
           refusal == Refusal(db, snap, request)
       IN  /\ db' = IF refusal = Null THEN Committed(db, snap, request) ELSE db
           /\ caller' = [caller EXCEPT
                  ![c] = Answered(request, IF refusal = Null THEN "COMMITTED" ELSE refusal)]
    /\ UNCHANGED sealed

(* The caller dies or an exception stops it short of the transaction.      *)
Fail(c) ==
    /\ caller[c].pc # "idle"
    /\ caller' = [caller EXCEPT ![c] = Idle]
    /\ UNCHANGED <<sealed, db>>

CallerStep(c) ==
    \/ \E u \in Subjects, d \in {"OFFICIAL", "SHADOW"}, e \in Evidence : Seal(c, u, d, e)
    \/ \E s \in DOMAIN sealed : Retry(c, s)
    \/ \E a \in Availabilities, l \in Lifecycles \cup {Null} : MakeRequest(c, a, l)
    \/ Lookup(c)
    \/ Execute(c)
    \/ Fail(c)

Next == \E c \in Callers : CallerStep(c)

Spec == Init /\ [][Next]_vars

-----------------------------------------------------------------------------
(* The ledger positions of a subject's commits, and the commit that made   *)
(* the subject's n-th one.                                                 *)
Positions(u) == {i \in DOMAIN db.ledger : db.ledger[i].subject = u}
LastOf(u) == db.ledger[CHOOSE i \in Positions(u) : \A j \in Positions(u) : j <= i]
KeyVersions(u, k) == {v \in db.versions : v.event[1] = u /\ v.event[2] = k}

(* Types of the snapshots, the callers and the tables.                     *)
TypeOK ==
    /\ sealed \in Seq([at : Snapshots, subject : Subjects,
                       disposition : {"OFFICIAL", "SHADOW"}, evidence : Evidence])
    /\ caller \in [Callers -> [pc : {"idle", "sealed", "requested", "submitted"},
                               snapshot : Snapshots \cup {Null},
                               request : Requests \cup {Null},
                               answer : Answers \cup {Null}]]
    /\ db.ledger \in Seq(LedgerRows)
    /\ \A i \in DOMAIN db.ledger : db.ledger[i].request \in Requests
    /\ \A u \in Subjects : Version(db, u) \in 0..MaxSnapshots

(* However callers race, a snapshot is committed at most once, and only if *)
(* it was sealed OFFICIAL: the double check in commit() (analysis_commit   *)
(* 129-142) and the disposition check (151-154) leave no gap.              *)
OneCommitPerSnapshot ==
    /\ \A i, j \in DOMAIN db.ledger :
           db.ledger[i].request.snapshot = db.ledger[j].request.snapshot => i = j
    /\ \A i \in DOMAIN db.ledger :
           sealed[db.ledger[i].request.snapshot].disposition = "OFFICIAL"

(* The current state of a subject is that of its last commit, its version  *)
(* counts its commits, and the last valid lifecycle is that of the last    *)
(* commit that was AVAILABLE (the optimistic check on the version makes    *)
(* _insert_state lose no update).                                          *)
ProjectionFollowsLedger ==
    \A u \in Subjects :
        LET valid == {i \in Positions(u) : db.ledger[i].request.lifecycle # Null}
            p == db.projection[u]
        IN  IF Positions(u) = {} THEN p = Null
            ELSE /\ p.version = Cardinality(Positions(u))
                 /\ p.evaluation = LastOf(u).request.snapshot
                 /\ p.effective = LastOf(u).request.lifecycle
                 /\ \A i \in Positions(u) :
                        db.ledger[i].request.expected
                            = Cardinality({j \in Positions(u) : j < i})
                 /\ IF valid = {} THEN p.lastValid = Null
                    ELSE p.lastValid = db.ledger[CHOOSE i \in valid :
                                           \A j \in valid : j <= i].request.lifecycle

(* Between two consecutive AVAILABLE commits of a subject the lifecycle    *)
(* stays or makes a legal move, whatever outages lie between them: an      *)
(* outage is no way round the table _LEGAL.                                *)
LifecycleMovesLegally ==
    \A i, j \in DOMAIN db.ledger :
        LET u == db.ledger[i].subject
            from == db.ledger[i].request.lifecycle
            to == db.ledger[j].request.lifecycle
        IN  (/\ i < j /\ db.ledger[j].subject = u /\ from # Null /\ to # Null
             /\ \A k \in Positions(u) : i < k /\ k < j => db.ledger[k].request.lifecycle = Null)
            => to = from \/ to \in Legal[from]

(* The history of every event is one run: versions 1..n, CREATED first, a  *)
(* RESOLVED version only last; at most one event of a key is unresolved.   *)
EventHistory ==
    \A u \in Subjects, k \in Kinds :
        LET rows == KeyVersions(u, k)
            events == {v.event : v \in rows}
            of(e) == {v \in rows : v.event = e}
            numbers(e) == {v.version : v \in of(e)}
        IN  /\ \A e \in events :
                   /\ numbers(e) = 1..Cardinality(of(e))
                   /\ \A v \in of(e) :
                          /\ v.version = 1 <=> v.change = "CREATED"
                          /\ v.status = "RESOLVED" => v.version = Cardinality(of(e))
            /\ Cardinality({e \in events : \A v \in of(e) : v.status # "RESOLVED"}) <= 1

(* After every commit the open events are what that commit's evaluations   *)
(* call for: a risk that Guardian still sees has an ACTIVE version from    *)
(* the subject's last commit with an intent on every channel, and nothing  *)
(* else is left open (_decide_events).                                     *)
EventsReflectLastCommit ==
    \A u \in Subjects, k \in Kinds :
        LET current == db.current[u, k]
            last == LastOf(u)
        IN  IF Positions(u) = {} THEN current = Null
            ELSE /\ Open(current) <=> Desired(k, last.effect, last.scout)
                 /\ Open(current) =>
                        /\ current.commit = last.request.snapshot
                        /\ \A c \in Channels : \E n \in db.intents :
                               /\ n.event = current.event /\ n.version = current.version
                               /\ n.channel = c
                 /\ \A v \in KeyVersions(u, k) :
                        v.event = current.event => v.version <= current.version

(* A caller told that its commit stands finds exactly its own request in   *)
(* the ledger: no caller is handed a commit made from another request.     *)
AnswersAreDurable ==
    \A c \in Callers : caller[c].answer = "COMMITTED" =>
        \E i \in DOMAIN db.ledger : db.ledger[i].request = caller[c].request

(* analysis_commit.py:612: the projection is that of the last commit and   *)
(* the lifecycle moved legally.                                            *)
StateFollowsLedger == TypeOK /\ ProjectionFollowsLedger /\ LifecycleMovesLegally

(* _decide_events: the versions of an event are one run, and the open      *)
(* events are what the last commit calls for.                              *)
EventsFollowLedger == EventHistory /\ EventsReflectLastCommit

(* analysis_commit.py:97: a snapshot is committed at most once, and a      *)
(* caller that is told its commit stands finds its own request.            *)
CommittedOnce == OneCommitPerSnapshot /\ AnswersAreDurable

(* The architecture baseline has it that an old task cannot overwrite      *)
(* newer state (CONSOLIDATED_ARCHITECTURE_BASELINE.md:152); here: the      *)
(* current state of a subject is that of the newest snapshot committed.    *)
NewerStateStands ==
    \A u \in Subjects : \A i \in Positions(u) :
        db.ledger[i].request.snapshot <= db.projection[u].evaluation
=============================================================================
