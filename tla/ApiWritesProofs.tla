--------------------------- MODULE ApiWritesProofs ---------------------------
(***************************************************************************)
(* Proofs about the idempotent writes of the API, for any requests, keys,  *)
(* bodies and bounds, with a crash between any two steps: one answer per   *)
(* key, a backup told of is on disk, a query is answered from its source   *)
(* with its evaluation complete, and the rate limit holds although it is   *)
(* read before the record is inserted.                                     *)
(* The second part is about the evaluation that a query asks for, the      *)
(* third about the calibration of the thresholds it judges with.           *)
(***************************************************************************)
EXTENDS ServiceParts, Sequences, FiniteSetTheorems, TLAPS

\* The points of a request at which it holds its key in _active_claims, its row in the
\* database, and the lock of the queries; those before its evaluation.
Running == {"run", "prepare", "insert", "evaluate", "complete"}
Busy == {"claim"} \cup Running
Locked == {"prepare", "insert", "evaluate"}
Before == {"claim", "run", "prepare", "insert"}

Rows == [state : {"none", "IN_PROGRESS", "COMPLETED"}, body : Body \cup {Nobody},
         lease : Request \cup {Nobody}, expired : BOOLEAN, response : 0 .. MaxSource]
Records == [status : {"none", "IN_PROGRESS", "FAILED", "COMPLETED"}, body : Body \cup {Nobody},
            source : 0 .. MaxSource]
Calls == [pc : Busy \cup {"new", "done"}, key : Key \cup {Nobody}, body : Body \cup {Nobody},
          source : 0 .. MaxSource, stage : 0 .. Stages, answer : 0 .. MaxSource]

Shape ==
  /\ row \in [Key -> Rows] /\ record \in [QueryKey -> Records] /\ req \in [Request -> Calls]
  /\ active \in [Key -> Request \cup {Nobody}] /\ lock \in Request \cup {Nobody}
  /\ chain \in [1 .. MaxSource -> 0 .. Stages] /\ file \in [BackupKey -> 0 .. MaxSource]
  /\ source \in 1 .. MaxSource /\ recent \in 0 .. Limit

\* What a request holds at its point: its key, its claim, the lock, and what it has read.
Holds(r) ==
  LET k == req[r].key
      s == req[r].source
  IN /\ req[r].pc \in Busy => k \in Key /\ req[r].body \in Body /\ active[k] = r
     /\ req[r].pc \in Running =>
          row[k].state = "IN_PROGRESS" /\ row[k].lease = r /\ row[k].body = req[r].body
     /\ req[r].pc \in Locked => lock = r /\ k \in QueryKey
     /\ req[r].pc \in Before => req[r].stage = 0
     /\ req[r].pc = "insert" => recent < Limit /\ record[k].status = "none" /\ s # 0
     /\ req[r].pc = "evaluate" =>
          record[k].status = "IN_PROGRESS" /\ record[k].source = s /\ s # 0 /\ req[r].stage <= chain[s]
     /\ req[r].pc = "complete" =>
          s # 0 /\ (k \in QueryKey => record[k].status = "COMPLETED" /\ record[k].source = s)
     /\ req[r].pc = "done" =>
          /\ k \in Key /\ row[k].state = "COMPLETED"
          /\ row[k].body = req[r].body /\ row[k].response = req[r].answer

\* What the tables say of a key.
Tells(k) ==
  /\ row[k].response # 0 <=> row[k].state = "COMPLETED"
  /\ k \in QueryKey =>
       /\ record[k].status # "none" =>
            record[k].source # 0 /\ row[k].state # "none" /\ record[k].body = row[k].body
       /\ record[k].status = "COMPLETED" => chain[record[k].source] = Stages
       /\ row[k].state = "COMPLETED" =>
            record[k].status = "COMPLETED" /\ record[k].source = row[k].response
  /\ k \in BackupKey /\ row[k].state = "COMPLETED" => file[k] = row[k].response

IInv == /\ WritesAssumption /\ Shape
        /\ \A r \in Request : Holds(r)
        /\ \A k \in Key : Tells(k)

-----------------------------------------------------------------------------
LEMMA InitInvariant == WritesAssumption /\ Init => IInv
<1> SUFFICES ASSUME WritesAssumption, Init PROVE IInv
  OBVIOUS
<1>1. Shape
  BY DEF Init, Shape, NoRow, NoRecord, NoRequest, Rows, Records, Calls, WritesAssumption
<1>2. \A r \in Request : Holds(r)
  BY DEF Init, Holds, NoRequest, Busy, Running, Locked, Before
<1>3. \A k \in Key : Tells(k)
  BY DEF Init, Tells, NoRow, NoRecord, Key
<1> QED BY <1>1, <1>2, <1>3 DEF IInv

\* The parts of the rows.
LEMMA Parts ==
  ASSUME IInv
  PROVE  /\ \A k \in Key : /\ row[k] \in Rows /\ row[k].state \in {"none", "IN_PROGRESS", "COMPLETED"}
                           /\ row[k].body \in Body \cup {Nobody} /\ row[k].response \in 0 .. MaxSource
                           /\ row[k].lease \in Request \cup {Nobody} /\ row[k].expired \in BOOLEAN
         /\ \A k \in QueryKey :
              /\ k \in Key /\ record[k] \in Records /\ record[k].source \in 0 .. MaxSource
              /\ record[k].status \in {"none", "IN_PROGRESS", "FAILED", "COMPLETED"}
              /\ record[k].body \in Body \cup {Nobody}
         /\ \A k \in BackupKey : k \in Key /\ k \notin QueryKey /\ file[k] \in 0 .. MaxSource
         /\ \A r \in Request :
              /\ req[r] \in Calls /\ req[r].pc \in Busy \cup {"new", "done"}
              /\ req[r].source \in 0 .. MaxSource /\ req[r].stage \in 0 .. Stages
              /\ req[r].answer \in 0 .. MaxSource /\ r # Nobody
         /\ \A t \in 1 .. MaxSource : chain[t] \in 0 .. Stages
         /\ Nobody \notin Key /\ MaxSource \in Nat \ {0} /\ Stages \in Nat /\ Limit \in Nat
<1>1. \A k \in Key : /\ row[k] \in Rows /\ row[k].state \in {"none", "IN_PROGRESS", "COMPLETED"}
                     /\ row[k].body \in Body \cup {Nobody} /\ row[k].response \in 0 .. MaxSource
                     /\ row[k].lease \in Request \cup {Nobody} /\ row[k].expired \in BOOLEAN
  BY DEF IInv, Shape, Rows
<1>2. \A k \in QueryKey :
        /\ k \in Key /\ record[k] \in Records /\ record[k].source \in 0 .. MaxSource
        /\ record[k].status \in {"none", "IN_PROGRESS", "FAILED", "COMPLETED"}
        /\ record[k].body \in Body \cup {Nobody}
  BY DEF IInv, Shape, Records, Key
<1>3. \A k \in BackupKey : k \in Key /\ k \notin QueryKey /\ file[k] \in 0 .. MaxSource
  BY DEF IInv, Shape, Key, WritesAssumption
<1>4. \A r \in Request :
        /\ req[r] \in Calls /\ req[r].pc \in Busy \cup {"new", "done"}
        /\ req[r].source \in 0 .. MaxSource /\ req[r].stage \in 0 .. Stages
        /\ req[r].answer \in 0 .. MaxSource /\ r # Nobody
  BY DEF IInv, Shape, Calls, WritesAssumption
<1>5. \A t \in 1 .. MaxSource : chain[t] \in 0 .. Stages
  BY DEF IInv, Shape
<1> QED BY <1>1, <1>2, <1>3, <1>4, <1>5 DEF IInv, WritesAssumption

(***************************************************************************)
(* What one request does under its key leaves what the others hold and     *)
(* what the tables say of the other keys.                                  *)
(***************************************************************************)
LEMMA OthersHold ==
  ASSUME IInv, NEW r \in Request, NEW k \in Key, active[k] \in {r, Nobody},
         \A s \in Request \ {r} : req'[s] = req[s],
         \A j \in Key \ {k} : row'[j] = row[j] /\ active'[j] = active[j],
         \A j \in QueryKey \ {k} : record'[j] = record[j],
         row'[k] = row[k] \/ row[k].state # "COMPLETED",
         \A t \in 1 .. MaxSource : chain[t] <= chain'[t] /\ chain'[t] \in 0 .. Stages,
         lock' = lock \/ lock \in {r, Nobody},
         recent' = recent \/ lock = r
  PROVE  \A s \in Request \ {r} : Holds(s)'
<1> SUFFICES ASSUME NEW s \in Request, s # r PROVE Holds(s)'
  OBVIOUS
<1>1. Holds(s) /\ req'[s] = req[s]
  BY DEF IInv
<1>2. PICK q : q = req[s]
  OBVIOUS
<1>3. /\ q = req'[s] /\ q.source \in 0 .. MaxSource /\ q.stage \in 0 .. Stages
      /\ r # Nobody /\ s # Nobody
  BY <1>1, <1>2, Parts
<1>4. q.pc \in Busy => q.key \in Key /\ q.key # k /\ active'[q.key] = s /\ q.body \in Body
  BY <1>1, <1>2, <1>3 DEF Holds
<1>5. q.pc \in Running =>
        row'[q.key].state = "IN_PROGRESS" /\ row'[q.key].lease = s /\ row'[q.key].body = q.body
  BY <1>1, <1>2, <1>4 DEF Holds, Busy
<1>6. q.pc \in Locked => /\ lock' = s /\ recent' = recent /\ q.key \in QueryKey
                         /\ record'[q.key] = record[q.key]
  BY <1>1, <1>2, <1>3, <1>4 DEF Holds, Locked, Busy, Running
<1>7. q.pc = "insert" => recent' < Limit /\ record'[q.key].status = "none" /\ q.source # 0
  BY <1>1, <1>2, <1>6 DEF Holds, Locked
<1>8. q.pc = "evaluate" =>
        /\ record'[q.key].status = "IN_PROGRESS" /\ record'[q.key].source = q.source
        /\ q.source # 0 /\ q.stage <= chain'[q.source]
  <2>1. q.pc = "evaluate" => /\ record'[q.key].status = "IN_PROGRESS"
                             /\ record'[q.key].source = q.source
                             /\ q.source # 0 /\ q.stage <= chain[q.source]
    BY <1>1, <1>2, <1>6 DEF Holds, Locked
  <2>2. q.source # 0 => q.source \in 1 .. MaxSource
    BY <1>3, Parts
  <2> QED BY <1>3, <2>1, <2>2, Parts
<1>9. q.pc = "complete" =>
        /\ q.source # 0
        /\ q.key \in QueryKey => record'[q.key].status = "COMPLETED" /\ record'[q.key].source = q.source
  BY <1>1, <1>2, <1>4 DEF Holds, Busy, Running
<1>10. q.pc = "done" => /\ q.key \in Key /\ row'[q.key].state = "COMPLETED"
                        /\ row'[q.key].body = q.body /\ row'[q.key].response = q.answer
  BY <1>1, <1>2 DEF Holds
<1>11. q.pc \in Before => q.stage = 0
  BY <1>1, <1>2 DEF Holds
<1> QED BY <1>3, <1>4, <1>5, <1>6, <1>7, <1>8, <1>9, <1>10, <1>11 DEF Holds

LEMMA OthersTell ==
  ASSUME IInv, NEW k \in Key,
         \A j \in Key \ {k} : row'[j] = row[j],
         \A j \in QueryKey \ {k} : record'[j] = record[j],
         \A j \in BackupKey \ {k} : file'[j] = file[j],
         \A t \in 1 .. MaxSource : chain[t] <= chain'[t] /\ chain'[t] \in 0 .. Stages
  PROVE  \A j \in Key \ {k} : Tells(j)'
<1> SUFFICES ASSUME NEW j \in Key, j # k PROVE Tells(j)'
  OBVIOUS
<1>1. Tells(j) /\ row'[j] = row[j] /\ (j \in QueryKey => record'[j] = record[j])
      /\ (j \in BackupKey => file'[j] = file[j])
  BY DEF IInv
<1>2. ASSUME j \in QueryKey, record[j].status = "COMPLETED" PROVE chain'[record[j].source] = Stages
  <2>1. record[j].source # 0 /\ chain[record[j].source] = Stages /\ record[j].source \in 0 .. MaxSource
    BY <1>1, <1>2, Parts DEF Tells
  <2>2. PICK t \in 1 .. MaxSource : t = record[j].source
    BY <2>1, Parts
  <2>3. chain[t] = Stages /\ chain[t] <= chain'[t] /\ chain'[t] \in 0 .. Stages /\ Stages \in Nat
    BY <2>1, <2>2, Parts
  <2> QED BY <2>2, <2>3
<1> QED BY <1>1, <1>2 DEF Tells

\* One call of a request under its key: it is enough to look at the request and the key.
LEMMA OneCall ==
  ASSUME IInv, NEW r \in Request, NEW k \in Key, active[k] \in {r, Nobody},
         \A s \in Request \ {r} : req'[s] = req[s],
         \A j \in Key \ {k} : row'[j] = row[j] /\ active'[j] = active[j],
         \A j \in QueryKey \ {k} : record'[j] = record[j],
         \A j \in BackupKey \ {k} : file'[j] = file[j],
         row'[k] = row[k] \/ row[k].state # "COMPLETED",
         \A t \in 1 .. MaxSource : chain[t] <= chain'[t] /\ chain'[t] \in 0 .. Stages,
         lock' = lock \/ lock \in {r, Nobody},
         recent' = recent \/ lock = r,
         Shape', Holds(r)', Tells(k)'
  PROVE  IInv'
<1>1. \A s \in Request : Holds(s)'
  BY OthersHold
<1>2. \A j \in Key : Tells(j)'
  BY OthersTell
<1>3. WritesAssumption
  BY DEF IInv
<1> QED BY <1>1, <1>2, <1>3 DEF IInv

\* The evaluations stand while they are not written.
LEMMA ChainStands ==
  ASSUME IInv, chain' = chain
  PROVE  \A t \in 1 .. MaxSource : chain[t] <= chain'[t] /\ chain'[t] \in 0 .. Stages
<1>1. \A t \in 1 .. MaxSource : chain[t] \in 0 .. Stages /\ Stages \in Nat
  BY Parts
<1> QED BY <1>1

\* A request moves on and may release its key.
LEMMA Moves ==
  ASSUME IInv, NEW r \in Request, NEW to \in Busy \cup {"new", "done"}, req' = Goto(r, to)
  PROVE  /\ req' \in [Request -> Calls] /\ req'[r].pc = to
         /\ req'[r].key = req[r].key /\ req'[r].body = req[r].body
         /\ req'[r].source = req[r].source /\ req'[r].stage = req[r].stage
         /\ req'[r].answer = req[r].answer
         /\ \A s \in Request \ {r} : req'[s] = req[s]
<1>1. req \in [Request -> Calls] /\ req' = [req EXCEPT ![r].pc = to]
  BY DEF IInv, Shape, Goto
<1>2. req'[r] = [req[r] EXCEPT !.pc = to] /\ \A s \in Request \ {r} : req'[s] = req[s]
  BY <1>1
<1>3. req[r] \in Calls
  BY <1>1
<1>4. /\ req'[r] \in Calls /\ req'[r].pc = to
      /\ req'[r].key = req[r].key /\ req'[r].body = req[r].body
      /\ req'[r].source = req[r].source /\ req'[r].stage = req[r].stage
      /\ req'[r].answer = req[r].answer
  <2> HIDE DEF Busy
  <2> QED BY <1>2, <1>3 DEF Calls
<1>5. req' \in [Request -> Calls]
  BY <1>1, <1>4
<1> QED BY <1>2, <1>4, <1>5

LEMMA Releases ==
  ASSUME IInv, NEW r \in Request, req[r].key \in Key, active' = active \/ active' = Released(r)
  PROVE  /\ active' \in [Key -> Request \cup {Nobody}]
         /\ \A j \in Key \ {req[r].key} : active'[j] = active[j]
<1>1. active \in [Key -> Request \cup {Nobody}]
  BY DEF IInv, Shape
<1> QED BY <1>1 DEF Released

\* What a busy request holds.
LEMMA BusyCall ==
  ASSUME IInv, NEW r \in Request, req[r].pc \in Busy
  PROVE  /\ req[r].key \in Key /\ req[r].body \in Body /\ active[req[r].key] = r
         /\ Tells(req[r].key)
         /\ req[r].pc \in Running =>
              /\ row[req[r].key].state = "IN_PROGRESS" /\ row[req[r].key].lease = r
              /\ row[req[r].key].body = req[r].body
         /\ req[r].pc \in Locked => lock = r /\ req[r].key \in QueryKey
         /\ req[r].pc \in Before => req[r].stage = 0
<1>1. Holds(r)
  BY DEF IInv
<1>2. req[r].key \in Key
  BY <1>1 DEF Holds
<1> QED BY <1>1, <1>2 DEF IInv, Holds

LEMMA EnterStep == ASSUME IInv, NEW r \in Request, Enter(r) PROVE IInv'
<1>1. PICK k \in Key, body \in Body :
        /\ active[k] = Nobody
        /\ active' = [active EXCEPT ![k] = r]
        /\ req' = [req EXCEPT ![r] = [NoRequest EXCEPT !.pc = "claim", !.key = k, !.body = body]]
  BY DEF Enter
<1>2. /\ row' = row /\ record' = record /\ chain' = chain /\ file' = file /\ source' = source
      /\ recent' = recent /\ lock' = lock
  BY DEF Enter, Stored
<1>3. PICK q : q = [NoRequest EXCEPT !.pc = "claim", !.key = k, !.body = body]
  OBVIOUS
<1>4. /\ q \in Calls /\ q.pc = "claim" /\ q.key = k /\ q.body = body /\ q.stage = 0
  <2>1. MaxSource \in Nat \ {0} /\ Stages \in Nat
    BY Parts
  <2>2. q = [pc |-> "claim", key |-> k, body |-> body, source |-> 0, stage |-> 0, answer |-> 0]
    BY <1>3 DEF NoRequest
  <2>3. 0 \in 0 .. MaxSource /\ 0 \in 0 .. Stages /\ "claim" \in Busy
    BY <2>1 DEF Busy
  <2> HIDE DEF Busy
  <2> QED BY <2>2, <2>3 DEF Calls
<1>5. /\ req' \in [Request -> Calls] /\ req'[r] = q /\ \A s \in Request \ {r} : req'[s] = req[s]
      /\ active' \in [Key -> Request \cup {Nobody}] /\ active'[k] = r
      /\ \A j \in Key \ {k} : active'[j] = active[j]
  BY <1>1, <1>3, <1>4 DEF IInv, Shape
<1>6. Shape'
  BY <1>2, <1>5 DEF IInv, Shape
<1>7. Holds(r)'
  BY <1>4, <1>5 DEF Holds, Busy, Running, Locked, Before
<1>8. Tells(k)'
  BY <1>2 DEF IInv, Tells
<1> QED BY <1>1, <1>2, <1>5, <1>6, <1>7, <1>8, ChainStands, OneCall

LEMMA ClaimStep == ASSUME IInv, NEW r \in Request, Claim(r) PROVE IInv'
<1>1. req[r].pc = "claim" /\ req[r].pc \in Busy /\ req[r].pc \in Before
  BY DEF Claim, Busy, Before
<1>2. PICK k \in Key : /\ k = req[r].key /\ active[k] = r /\ Tells(k) /\ req[r].body \in Body
                       /\ req[r].stage = 0
  BY <1>1, BusyCall
<1>3. /\ record' = record /\ chain' = chain /\ file' = file /\ source' = source
      /\ recent' = recent /\ lock' = lock
  BY DEF Claim
<1>4. CASE /\ row[k].state = "none" \/ (row[k].body = req[r].body /\ row[k].state = "IN_PROGRESS")
           /\ row' = [row EXCEPT ![k] = [state |-> "IN_PROGRESS", body |-> req[r].body,
                                         lease |-> r, expired |-> FALSE, response |-> 0]]
           /\ req' = Goto(r, "run") /\ active' = active
  <2>1. PICK x : x = [state |-> "IN_PROGRESS", body |-> req[r].body,
                      lease |-> r, expired |-> FALSE, response |-> 0]
    OBVIOUS
  <2>2. /\ x \in Rows /\ x.state = "IN_PROGRESS" /\ x.body = req[r].body /\ x.lease = r
        /\ x.response = 0
    <3>1. 0 \in 0 .. MaxSource
      BY Parts
    <3> QED BY <1>2, <2>1, <3>1 DEF Rows
  <2>3. row' \in [Key -> Rows] /\ row'[k] = x /\ \A j \in Key \ {k} : row'[j] = row[j]
    BY <1>4, <2>1, <2>2 DEF IInv, Shape
  <2>4. /\ req' \in [Request -> Calls] /\ req'[r].pc = "run"
        /\ req'[r].key = k /\ req'[r].body = req[r].body /\ req'[r].stage = req[r].stage
        /\ \A s \in Request \ {r} : req'[s] = req[s]
    BY <1>2, <1>4, Moves DEF Busy, Running
  <2>5. Shape'
    BY <1>3, <1>4, <2>3, <2>4 DEF IInv, Shape
  <2>6. Holds(r)'
    BY <1>2, <1>4, <2>2, <2>3, <2>4 DEF Holds, Busy, Running, Locked, Before
  <2>7. Tells(k)'
    <3>1. k \in QueryKey /\ record[k].status # "none" =>
            record[k].source # 0 /\ row[k].state # "none" /\ record[k].body = row[k].body
      BY <1>2 DEF Tells
    <3>2. k \in QueryKey /\ record[k].status = "COMPLETED" => chain[record[k].source] = Stages
      BY <1>2 DEF Tells
    <3> QED BY <1>3, <1>4, <2>2, <2>3, <3>1, <3>2 DEF Tells
  <2>8. row[k].state # "COMPLETED"
    BY <1>4
  <2> QED BY <1>2, <1>3, <1>4, <2>3, <2>4, <2>5, <2>6, <2>7, <2>8, ChainStands, OneCall
<1>5. CASE /\ \/ /\ row[k].body = req[r].body /\ row[k].state = "COMPLETED"
                 /\ req' = [Goto(r, "done") EXCEPT ![r].answer = row[k].response]
              \/ req' = Goto(r, "new")
           /\ active' = Released(r) /\ row' = row
  <2>1. active' \in [Key -> Request \cup {Nobody}] /\ \A j \in Key \ {k} : active'[j] = active[j]
    BY <1>2, <1>5, Releases
  <2>2. /\ req' \in [Request -> Calls] /\ \A s \in Request \ {r} : req'[s] = req[s]
        /\ \/ req'[r].pc = "new"
           \/ /\ req'[r].pc = "done" /\ req'[r].key = k /\ req'[r].body = req[r].body
              /\ req'[r].answer = row[k].response
              /\ row[k].body = req[r].body /\ row[k].state = "COMPLETED"
    <3>1. CASE req' = Goto(r, "new")
      BY <3>1, Moves
    <3>2. CASE /\ row[k].body = req[r].body /\ row[k].state = "COMPLETED"
               /\ req' = [Goto(r, "done") EXCEPT ![r].answer = row[k].response]
      <4>1. PICK q : q = [req[r] EXCEPT !.pc = "done", !.answer = row[k].response]
        OBVIOUS
      <4>2. req \in [Request -> Calls] /\ req[r] \in Calls /\ row[k].response \in 0 .. MaxSource
        BY Parts DEF IInv, Shape
      <4>3. /\ q \in Calls /\ q.pc = "done" /\ q.answer = row[k].response
            /\ q.key = req[r].key /\ q.body = req[r].body
        BY <4>1, <4>2 DEF Calls
      <4>4. req' = [req EXCEPT ![r] = q]
        BY <3>2, <4>1, <4>2 DEF Goto
      <4> QED BY <1>2, <3>2, <4>2, <4>3, <4>4
    <3> QED BY <1>5, <3>1, <3>2
  <2>3. Shape'
    BY <1>3, <1>5, <2>1, <2>2 DEF IInv, Shape
  <2>4. Holds(r)'
    BY <1>2, <1>5, <2>2 DEF Holds, Busy, Running, Locked, Before
  <2>5. Tells(k)'
    BY <1>2, <1>3, <1>5 DEF Tells
  <2> QED BY <1>2, <1>3, <1>5, <2>1, <2>2, <2>3, <2>4, <2>5, ChainStands, OneCall
<1> QED BY <1>2, <1>4, <1>5 DEF Claim

\* A request that is refused or raises goes back and holds nothing.
LEMMA Refused ==
  ASSUME IInv, NEW r \in Request, req[r].pc \in Busy, Refuse(r)
  PROVE  /\ req' \in [Request -> Calls] /\ req'[r].pc = "new" /\ Holds(r)'
         /\ \A s \in Request \ {r} : req'[s] = req[s]
         /\ active' \in [Key -> Request \cup {Nobody}]
         /\ \A j \in Key \ {req[r].key} : active'[j] = active[j]
<1>1. /\ req' \in [Request -> Calls] /\ req'[r].pc = "new"
      /\ \A s \in Request \ {r} : req'[s] = req[s]
  BY Moves DEF Refuse
<1>2. /\ active' \in [Key -> Request \cup {Nobody}]
      /\ \A j \in Key \ {req[r].key} : active'[j] = active[j]
  BY BusyCall, Releases DEF Refuse
<1>3. Holds(r)'
  BY <1>1 DEF Holds, Busy, Running, Locked, Before
<1> QED BY <1>1, <1>2, <1>3

LEMMA AnalyzeStep == ASSUME IInv, NEW r \in Request, Analyze(r) PROVE IInv'
<1>1. /\ req[r].pc = "run" /\ req[r].pc \in Busy /\ req[r].pc \in Running /\ req[r].key \in QueryKey
      /\ req[r].pc \in Before
  BY DEF Analyze, Busy, Running, Before
<1>2. PICK k \in Key : /\ k = req[r].key /\ active[k] = r /\ Tells(k) /\ req[r].body \in Body
                       /\ row[k].state = "IN_PROGRESS" /\ row[k].lease = r
                       /\ row[k].body = req[r].body /\ req[r].stage = 0
  BY <1>1, BusyCall
<1>3. /\ row' = row /\ record' = record /\ chain' = chain /\ file' = file /\ source' = source
      /\ recent' = recent
  BY DEF Analyze, Stored
<1>4. Tells(k)'
  BY <1>2, <1>3 DEF Tells
<1>5. CASE lock = Nobody /\ lock' = r /\ req' = Goto(r, "prepare") /\ active' = active
  <2>1. /\ req' \in [Request -> Calls] /\ req'[r].pc = "prepare"
        /\ req'[r].key = k /\ req'[r].body = req[r].body /\ req'[r].stage = req[r].stage
        /\ \A s \in Request \ {r} : req'[s] = req[s]
    BY <1>2, <1>5, Moves DEF Busy, Running
  <2>2. Shape'
    BY <1>3, <1>5, <2>1 DEF IInv, Shape
  <2>3. Holds(r)'
    BY <1>1, <1>2, <1>3, <1>5, <2>1 DEF Holds, Busy, Running, Locked, Before
  <2> QED BY <1>2, <1>3, <1>4, <1>5, <2>1, <2>2, <2>3, ChainStands, OneCall
<1>6. CASE Refuse(r) /\ lock' = lock
  <2>1. /\ req' \in [Request -> Calls] /\ Holds(r)'
        /\ \A s \in Request \ {r} : req'[s] = req[s]
        /\ active' \in [Key -> Request \cup {Nobody}]
        /\ \A j \in Key \ {k} : active'[j] = active[j]
    BY <1>1, <1>2, <1>6, Refused
  <2>2. Shape'
    BY <1>3, <1>6, <2>1 DEF IInv, Shape
  <2> QED BY <1>2, <1>3, <1>4, <1>6, <2>1, <2>2, ChainStands, OneCall
<1> QED BY <1>5, <1>6 DEF Analyze

\* A request that has the lock takes a source and goes on.
LEMMA Takes ==
  ASSUME IInv, NEW r \in Request, NEW to \in {"insert", "evaluate", "complete"},
         NEW s \in 0 .. MaxSource, req' = [Goto(r, to) EXCEPT ![r].source = s]
  PROVE  /\ req' \in [Request -> Calls] /\ req'[r].pc = to /\ req'[r].source = s
         /\ req'[r].key = req[r].key /\ req'[r].body = req[r].body /\ req'[r].stage = req[r].stage
         /\ \A q \in Request \ {r} : req'[q] = req[q]
<1>1. PICK q : q = [req[r] EXCEPT !.pc = to, !.source = s]
  OBVIOUS
<1>2. req \in [Request -> Calls] /\ req[r] \in Calls
  BY DEF IInv, Shape
<1>3. to \in Busy
  BY DEF Busy, Running
<1>4. /\ q \in Calls /\ q.pc = to /\ q.source = s
      /\ q.key = req[r].key /\ q.body = req[r].body /\ q.stage = req[r].stage
  <2> HIDE DEF Busy
  <2> QED BY <1>1, <1>2, <1>3 DEF Calls
<1>5. req' = [req EXCEPT ![r] = q]
  BY <1>1, <1>2 DEF Goto
<1> QED BY <1>2, <1>4, <1>5

LEMMA InsertRecordStep == ASSUME IInv, NEW r \in Request, InsertRecord(r) PROVE IInv'
<1>1. /\ req[r].pc = "insert" /\ req[r].pc \in Busy /\ req[r].pc \in Running /\ req[r].pc \in Locked
  BY DEF InsertRecord, Busy, Running, Locked, Before
<1>2. PICK k \in Key : /\ k = req[r].key /\ active[k] = r /\ Tells(k) /\ req[r].body \in Body
                       /\ row[k].state = "IN_PROGRESS" /\ row[k].lease = r
                       /\ row[k].body = req[r].body /\ lock = r /\ k \in QueryKey
  BY <1>1, BusyCall
<1>3. PICK s \in 1 .. MaxSource : s = req[r].source
  BY <1>1, Parts DEF IInv, Holds
<1>4. /\ row' = row /\ chain' = chain /\ file' = file /\ source' = source
      /\ active' = active /\ lock' = lock /\ recent' = recent + 1
      /\ record' = [record EXCEPT ![k] = [status |-> "IN_PROGRESS", body |-> req[r].body, source |-> s]]
  BY <1>2, <1>3 DEF InsertRecord
<1>5. recent < Limit /\ recent \in 0 .. Limit /\ Limit \in Nat
  BY <1>1, Parts DEF IInv, Holds, Shape
<1>6. recent' \in 0 .. Limit
  BY <1>4, <1>5
<1>7. PICK x : x = [status |-> "IN_PROGRESS", body |-> req[r].body, source |-> s]
  OBVIOUS
<1>8. x \in Records /\ x.status = "IN_PROGRESS" /\ x.source = s /\ x.body = req[r].body
  <2>1. s \in 0 .. MaxSource
    BY Parts
  <2> QED BY <1>2, <1>7, <2>1 DEF Records
<1>9. record' \in [QueryKey -> Records] /\ record'[k] = x
      /\ \A j \in QueryKey \ {k} : record'[j] = record[j]
  BY <1>2, <1>4, <1>7, <1>8 DEF IInv, Shape
<1>10. /\ req' \in [Request -> Calls] /\ req'[r].pc = "evaluate"
       /\ req'[r].key = k /\ req'[r].body = req[r].body
       /\ req'[r].source = s /\ req'[r].stage = req[r].stage
       /\ \A q \in Request \ {r} : req'[q] = req[q]
  BY <1>2, <1>3, Moves DEF InsertRecord, Busy, Running
<1>11. Shape'
  BY <1>4, <1>6, <1>9, <1>10 DEF IInv, Shape
<1>12. req[r].stage <= chain[s]
  <2>1. req[r].stage = 0
    BY <1>1 DEF IInv, Holds, Before
  <2>2. chain[s] \in 0 .. Stages
    BY Parts
  <2> QED BY <2>1, <2>2
<1>13. Holds(r)'
  BY <1>2, <1>4, <1>8, <1>9, <1>10, <1>12 DEF Holds, Busy, Running, Locked, Before
<1>14. Tells(k)'
  BY <1>2, <1>3, <1>4, <1>8, <1>9 DEF Tells
<1> QED BY <1>2, <1>4, <1>9, <1>10, <1>11, <1>13, <1>14, ChainStands, OneCall

LEMMA PrepareStep == ASSUME IInv, NEW r \in Request, Prepare(r) PROVE IInv'
<1>1. /\ req[r].pc = "prepare" /\ req[r].pc \in Busy /\ req[r].pc \in Running /\ req[r].pc \in Locked
      /\ req[r].pc \in Before
  BY DEF Prepare, Busy, Running, Locked, Before
<1>2. PICK k \in Key : /\ k = req[r].key /\ active[k] = r /\ Tells(k) /\ req[r].body \in Body
                       /\ row[k].state = "IN_PROGRESS" /\ row[k].lease = r
                       /\ row[k].body = req[r].body /\ lock = r /\ k \in QueryKey
                       /\ req[r].stage = 0
  BY <1>1, BusyCall
<1>3. /\ row' = row /\ chain' = chain /\ file' = file /\ source' = source /\ recent' = recent
      /\ record' = IF record[k].status = "FAILED"
                   THEN [record EXCEPT ![k].status = "IN_PROGRESS"] ELSE record
  BY <1>2 DEF Prepare
<1>4. /\ record' \in [QueryKey -> Records] /\ \A j \in QueryKey \ {k} : record'[j] = record[j]
      /\ record'[k].source = record[k].source /\ record'[k].body = record[k].body
      /\ record'[k].status = IF record[k].status = "FAILED" THEN "IN_PROGRESS" ELSE record[k].status
  <2>1. record \in [QueryKey -> Records] /\ record[k] \in Records
    BY <1>2 DEF IInv, Shape
  <2>2. CASE record[k].status = "FAILED"
    <3>1. PICK x : x = [record[k] EXCEPT !.status = "IN_PROGRESS"]
      OBVIOUS
    <3>2. /\ x \in Records /\ x.status = "IN_PROGRESS" /\ x.source = record[k].source
          /\ x.body = record[k].body
      BY <2>1, <3>1 DEF Records
    <3>3. record' = [record EXCEPT ![k] = x]
      BY <1>3, <2>1, <2>2, <3>1
    <3> QED BY <1>2, <2>1, <2>2, <3>2, <3>3
  <2>3. CASE record[k].status # "FAILED"
    BY <1>3, <2>1, <2>3
  <2> QED BY <2>2, <2>3
<1>5. /\ k \in QueryKey => /\ record[k].status # "none" =>
                                record[k].source # 0 /\ record[k].source \in 1 .. MaxSource
                           /\ record[k].body \in Body \cup {Nobody}
                           /\ record[k].status \in {"none", "IN_PROGRESS", "FAILED", "COMPLETED"}
      /\ record[k].source \in 0 .. MaxSource
  BY <1>2, Parts DEF Tells
<1>6. Tells(k)'
  BY <1>2, <1>3, <1>4 DEF Tells
<1>7. CASE /\ record[k].status = "COMPLETED"
           /\ req' = [Goto(r, "complete") EXCEPT ![r].source = record[k].source]
           /\ lock' = Nobody /\ active' = active
  <2>1. /\ req' \in [Request -> Calls] /\ req'[r].pc = "complete" /\ req'[r].source = record[k].source
        /\ req'[r].key = k /\ req'[r].body = req[r].body
        /\ \A q \in Request \ {r} : req'[q] = req[q]
    BY <1>2, <1>5, <1>7, Takes
  <2>2. Shape'
    BY <1>3, <1>4, <1>7, <2>1 DEF IInv, Shape
  <2>3. Holds(r)'
    BY <1>2, <1>3, <1>4, <1>5, <1>7, <2>1 DEF Holds, Busy, Running, Locked, Before
  <2> QED BY <1>2, <1>3, <1>4, <1>6, <1>7, <2>1, <2>2, <2>3, ChainStands, OneCall
<1>8. CASE /\ record[k].status \in {"IN_PROGRESS", "FAILED"}
           /\ req' = [Goto(r, "evaluate") EXCEPT ![r].source = record[k].source]
           /\ lock' = lock /\ active' = active
  <2>1. /\ req' \in [Request -> Calls] /\ req'[r].pc = "evaluate" /\ req'[r].source = record[k].source
        /\ req'[r].key = k /\ req'[r].body = req[r].body /\ req'[r].stage = 0
        /\ \A q \in Request \ {r} : req'[q] = req[q]
    BY <1>2, <1>5, <1>8, Takes
  <2>2. Shape'
    BY <1>3, <1>4, <1>8, <2>1 DEF IInv, Shape
  <2>3. 0 <= chain[record[k].source]
    <3>1. record[k].source \in 1 .. MaxSource
      BY <1>2, <1>5, <1>8
    <3> QED BY <3>1, Parts
  <2>4. Holds(r)'
    BY <1>2, <1>3, <1>4, <1>5, <1>8, <2>1, <2>3 DEF Holds, Busy, Running, Locked, Before
  <2> QED BY <1>2, <1>3, <1>4, <1>6, <1>8, <2>1, <2>2, <2>4, ChainStands, OneCall
<1>9. CASE /\ record[k].status = "none" /\ recent < Limit
           /\ req' = [Goto(r, "insert") EXCEPT ![r].source = source]
           /\ lock' = lock /\ active' = active
  <2>1. source \in 1 .. MaxSource /\ source \in 0 .. MaxSource /\ source # 0
    BY Parts DEF IInv, Shape
  <2>2. /\ req' \in [Request -> Calls] /\ req'[r].pc = "insert" /\ req'[r].source = source
        /\ req'[r].key = k /\ req'[r].body = req[r].body /\ req'[r].stage = 0
        /\ \A q \in Request \ {r} : req'[q] = req[q]
    BY <1>2, <1>9, <2>1, Takes
  <2>3. Shape'
    BY <1>3, <1>4, <1>9, <2>2 DEF IInv, Shape
  <2>4. Holds(r)'
    BY <1>2, <1>3, <1>4, <1>9, <2>1, <2>2 DEF Holds, Busy, Running, Locked, Before
  <2> QED BY <1>2, <1>3, <1>4, <1>6, <1>9, <2>2, <2>3, <2>4, ChainStands, OneCall
<1>10. CASE Refuse(r) /\ lock' = Nobody
  <2>1. /\ req' \in [Request -> Calls] /\ Holds(r)'
        /\ \A s \in Request \ {r} : req'[s] = req[s]
        /\ active' \in [Key -> Request \cup {Nobody}]
        /\ \A j \in Key \ {k} : active'[j] = active[j]
    BY <1>1, <1>2, <1>10, Refused
  <2>2. Shape'
    BY <1>3, <1>4, <1>10, <2>1 DEF IInv, Shape
  <2> QED BY <1>2, <1>3, <1>4, <1>6, <1>10, <2>1, <2>2, ChainStands, OneCall
<1>11. \/ /\ record[k].status = "COMPLETED"
          /\ req' = [Goto(r, "complete") EXCEPT ![r].source = record[k].source]
          /\ lock' = Nobody /\ active' = active
       \/ /\ record[k].status \in {"IN_PROGRESS", "FAILED"}
          /\ req' = [Goto(r, "evaluate") EXCEPT ![r].source = record[k].source]
          /\ lock' = lock /\ active' = active
       \/ /\ record[k].status = "none" /\ recent < Limit
          /\ req' = [Goto(r, "insert") EXCEPT ![r].source = source]
          /\ lock' = lock /\ active' = active
       \/ Refuse(r) /\ lock' = Nobody
  <2> HIDE DEF Refuse
  <2> QED BY <1>2 DEF Prepare
<1> QED BY <1>7, <1>8, <1>9, <1>10, <1>11

LEMMA EvaluateStep == ASSUME IInv, NEW r \in Request, Evaluate(r) PROVE IInv'
<1>1. /\ req[r].pc = "evaluate" /\ req[r].pc \in Busy /\ req[r].pc \in Running /\ req[r].pc \in Locked
  BY DEF Evaluate, Busy, Running, Locked
<1>2. PICK k \in Key : /\ k = req[r].key /\ active[k] = r /\ Tells(k) /\ req[r].body \in Body
                       /\ row[k].state = "IN_PROGRESS" /\ row[k].lease = r
                       /\ row[k].body = req[r].body /\ lock = r /\ k \in QueryKey
  BY <1>1, BusyCall
<1>3. PICK s \in 1 .. MaxSource : /\ s = req[r].source /\ record[k].status = "IN_PROGRESS"
                                  /\ record[k].source = s /\ req[r].stage <= chain[s]
  BY <1>1, <1>2, Parts DEF IInv, Holds
<1>4. PICK n \in 0 .. Stages : n = req[r].stage + 1
  BY Parts DEF Evaluate
<1>5. /\ row' = row /\ record' = record /\ file' = file /\ source' = source /\ recent' = recent
      /\ active' = active /\ lock' = lock
      /\ chain' = IF chain[s] < n THEN [chain EXCEPT ![s] = n] ELSE chain
      /\ req' = [req EXCEPT ![r].stage = n]
  BY <1>3, <1>4 DEF Evaluate
<1>6. chain \in [1 .. MaxSource -> 0 .. Stages] /\ Stages \in Nat
  BY Parts DEF IInv, Shape
<1>7. chain' \in [1 .. MaxSource -> 0 .. Stages] /\ n <= chain'[s]
  BY <1>5, <1>6
<1>8. \A t \in 1 .. MaxSource : chain[t] <= chain'[t] /\ chain'[t] \in 0 .. Stages
  <2>1. CASE chain[s] < n
    <3>1. \A t \in 1 .. MaxSource : chain'[t] = IF t = s THEN n ELSE chain[t]
      BY <1>5, <1>6, <2>1
    <3> QED BY <1>6, <1>7, <2>1, <3>1
  <2>2. CASE ~(chain[s] < n)
    BY <1>5, <1>6, <2>2
  <2> QED BY <2>1, <2>2
<1>9. /\ req' \in [Request -> Calls] /\ req'[r].pc = "evaluate" /\ req'[r].stage = n
      /\ req'[r].key = k /\ req'[r].body = req[r].body /\ req'[r].source = s
      /\ \A q \in Request \ {r} : req'[q] = req[q]
  <2>1. req \in [Request -> Calls] /\ req[r] \in Calls
    BY DEF IInv, Shape
  <2>2. PICK q : q = [req[r] EXCEPT !.stage = n]
    OBVIOUS
  <2>3. /\ q \in Calls /\ q.pc = "evaluate" /\ q.stage = n /\ q.key = k /\ q.body = req[r].body
        /\ q.source = s
    BY <1>1, <1>2, <1>3, <2>1, <2>2 DEF Calls
  <2>4. req' = [req EXCEPT ![r] = q]
    BY <1>5, <2>1, <2>2
  <2> QED BY <2>1, <2>3, <2>4
<1>10. Shape'
  BY <1>5, <1>7, <1>9 DEF IInv, Shape
<1>11. Holds(r)'
  BY <1>2, <1>3, <1>5, <1>7, <1>9 DEF Holds, Busy, Running, Locked, Before
<1>12. Tells(k)'
  BY <1>2, <1>3, <1>5 DEF Tells
<1> QED BY <1>2, <1>5, <1>8, <1>9, <1>10, <1>11, <1>12, OneCall

\* The record of a query in its evaluation takes a status.
LEMMA RecordMarked ==
  ASSUME IInv, NEW k \in QueryKey, NEW status \in {"none", "IN_PROGRESS", "FAILED", "COMPLETED"},
         record' = [record EXCEPT ![k].status = status]
  PROVE  /\ record' \in [QueryKey -> Records] /\ record'[k].status = status
         /\ record'[k].source = record[k].source /\ record'[k].body = record[k].body
         /\ \A j \in QueryKey \ {k} : record'[j] = record[j]
<1>1. record \in [QueryKey -> Records] /\ record[k] \in Records
  BY DEF IInv, Shape
<1>2. PICK x : x = [record[k] EXCEPT !.status = status]
  OBVIOUS
<1>3. x \in Records /\ x.status = status /\ x.source = record[k].source /\ x.body = record[k].body
  BY <1>1, <1>2 DEF Records
<1>4. record' = [record EXCEPT ![k] = x]
  BY <1>1, <1>2
<1> QED BY <1>1, <1>3, <1>4

\* An evaluation that raises, for a passing reason or for one that stays.
LEMMA EvaluationFailsStep ==
  ASSUME IInv, NEW r \in Request, EvaluationFails(r) \/ EvaluationRefused(r)
  PROVE  IInv'
<1>1. /\ req[r].pc = "evaluate" /\ req[r].pc \in Busy /\ req[r].pc \in Running /\ req[r].pc \in Locked
  BY DEF EvaluationFails, EvaluationRefused, Busy, Running, Locked
<1>2. PICK k \in Key : /\ k = req[r].key /\ active[k] = r /\ Tells(k) /\ req[r].body \in Body
                       /\ row[k].state = "IN_PROGRESS" /\ row[k].lease = r
                       /\ row[k].body = req[r].body /\ lock = r /\ k \in QueryKey
                       /\ record[k].status = "IN_PROGRESS"
  BY <1>1, BusyCall DEF IInv, Holds
<1>3. /\ row' = row /\ chain' = chain /\ file' = file /\ source' = source /\ recent' = recent
      /\ lock' = Nobody /\ record' = [record EXCEPT ![k].status = "FAILED"] /\ Refuse(r)
  BY <1>2 DEF EvaluationFails, EvaluationRefused, Failed
<1>4. /\ record' \in [QueryKey -> Records] /\ record'[k].status = "FAILED"
      /\ record'[k].source = record[k].source /\ record'[k].body = record[k].body
      /\ \A j \in QueryKey \ {k} : record'[j] = record[j]
  BY <1>2, <1>3, RecordMarked
<1>5. /\ req' \in [Request -> Calls] /\ Holds(r)'
      /\ \A s \in Request \ {r} : req'[s] = req[s]
      /\ active' \in [Key -> Request \cup {Nobody}]
      /\ \A j \in Key \ {k} : active'[j] = active[j]
  BY <1>1, <1>2, <1>3, Refused
<1>6. Shape'
  BY <1>3, <1>4, <1>5 DEF IInv, Shape
<1>7. Tells(k)'
  BY <1>2, <1>3, <1>4 DEF Tells
<1> QED BY <1>2, <1>3, <1>4, <1>5, <1>6, <1>7, ChainStands, OneCall

LEMMA CompleteQueryStep == ASSUME IInv, NEW r \in Request, CompleteQuery(r) PROVE IInv'
<1>1. /\ req[r].pc = "evaluate" /\ req[r].pc \in Busy /\ req[r].pc \in Running /\ req[r].pc \in Locked
      /\ req[r].stage = Stages
  BY DEF CompleteQuery, Busy, Running, Locked
<1>2. PICK k \in Key : /\ k = req[r].key /\ active[k] = r /\ Tells(k) /\ req[r].body \in Body
                       /\ row[k].state = "IN_PROGRESS" /\ row[k].lease = r
                       /\ row[k].body = req[r].body /\ lock = r /\ k \in QueryKey
                       /\ record[k].status = "IN_PROGRESS" /\ record[k].source = req[r].source
                       /\ req[r].source # 0 /\ req[r].stage <= chain[req[r].source]
  BY <1>1, BusyCall DEF IInv, Holds
<1>3. /\ row' = row /\ chain' = chain /\ file' = file /\ source' = source /\ recent' = recent
      /\ active' = active /\ lock' = Nobody
      /\ record' = [record EXCEPT ![k].status = "COMPLETED"] /\ req' = Goto(r, "complete")
  BY <1>2 DEF CompleteQuery
<1>4. /\ record' \in [QueryKey -> Records] /\ record'[k].status = "COMPLETED"
      /\ record'[k].source = record[k].source /\ record'[k].body = record[k].body
      /\ \A j \in QueryKey \ {k} : record'[j] = record[j]
  BY <1>2, <1>3, RecordMarked
<1>5. /\ req' \in [Request -> Calls] /\ req'[r].pc = "complete"
      /\ req'[r].key = k /\ req'[r].body = req[r].body /\ req'[r].source = req[r].source
      /\ \A q \in Request \ {r} : req'[q] = req[q]
  BY <1>2, <1>3, Moves DEF Busy, Running
<1>6. chain[record[k].source] = Stages
  <2>1. PICK s \in 1 .. MaxSource : s = record[k].source
    BY <1>2, Parts
  <2>2. chain[s] \in 0 .. Stages /\ Stages \in Nat /\ Stages <= chain[s]
    BY <1>1, <1>2, <2>1, Parts
  <2> QED BY <2>1, <2>2
<1>7. Shape'
  BY <1>3, <1>4, <1>5 DEF IInv, Shape
<1>8. Holds(r)'
  BY <1>2, <1>3, <1>4, <1>5 DEF Holds, Busy, Running, Locked, Before
<1>9. Tells(k)'
  BY <1>2, <1>3, <1>4, <1>6 DEF Tells
<1> QED BY <1>2, <1>3, <1>4, <1>5, <1>7, <1>8, <1>9, ChainStands, OneCall

LEMMA StageBackupStep == ASSUME IInv, NEW r \in Request, StageBackup(r) PROVE IInv'
<1>1. /\ req[r].pc = "run" /\ req[r].pc \in Busy /\ req[r].pc \in Running
      /\ req[r].key \in BackupKey
  BY DEF StageBackup, Busy, Running
<1>2. PICK k \in Key : /\ k = req[r].key /\ active[k] = r /\ Tells(k) /\ req[r].body \in Body
                       /\ row[k].state = "IN_PROGRESS" /\ row[k].lease = r
                       /\ row[k].body = req[r].body /\ k \in BackupKey /\ k \notin QueryKey
  BY <1>1, BusyCall, Parts
<1>3. PICK s \in 0 .. MaxSource : s = IF file[k] # 0 THEN file[k] ELSE source
  BY <1>2, Parts DEF IInv, Shape
<1>4. s # 0
  BY <1>3, Parts DEF IInv, Shape
<1>5. /\ row' = row /\ record' = record /\ chain' = chain /\ file' = file /\ source' = source
      /\ recent' = recent /\ active' = active /\ lock' = lock
      /\ req' = [Goto(r, "complete") EXCEPT ![r].source = s]
  BY <1>2, <1>3 DEF StageBackup, Stored
<1>6. /\ req' \in [Request -> Calls] /\ req'[r].pc = "complete" /\ req'[r].source = s
      /\ req'[r].key = k /\ req'[r].body = req[r].body
      /\ \A q \in Request \ {r} : req'[q] = req[q]
  BY <1>2, <1>5, Takes
<1>7. Shape'
  BY <1>5, <1>6 DEF IInv, Shape
<1>8. Holds(r)'
  BY <1>2, <1>4, <1>5, <1>6 DEF Holds, Busy, Running, Locked, Before
<1>9. Tells(k)'
  BY <1>2, <1>5 DEF Tells
<1> QED BY <1>2, <1>5, <1>6, <1>7, <1>8, <1>9, ChainStands, OneCall

LEMMA BackupFailsStep == ASSUME IInv, NEW r \in Request, BackupFails(r) PROVE IInv'
<1>1. req[r].pc \in Busy
  BY DEF BackupFails, Busy, Running
<1>2. PICK k \in Key : k = req[r].key /\ active[k] = r /\ Tells(k)
  BY <1>1, BusyCall
<1>3. /\ row' = row /\ record' = record /\ chain' = chain /\ file' = file /\ source' = source
      /\ recent' = recent /\ lock' = lock /\ Refuse(r)
  BY DEF BackupFails, Stored
<1>4. /\ req' \in [Request -> Calls] /\ Holds(r)'
      /\ \A s \in Request \ {r} : req'[s] = req[s]
      /\ active' \in [Key -> Request \cup {Nobody}]
      /\ \A j \in Key \ {k} : active'[j] = active[j]
  BY <1>1, <1>2, <1>3, Refused
<1>5. Shape'
  BY <1>3, <1>4 DEF IInv, Shape
<1>6. Tells(k)'
  BY <1>2, <1>3 DEF Tells
<1> QED BY <1>2, <1>3, <1>4, <1>5, <1>6, ChainStands, OneCall

\* The file a completing request publishes.
LEMMA Publishes ==
  ASSUME IInv, NEW r \in Request, req[r].key \in Key, file' = Published(r)
  PROVE  /\ file' \in [BackupKey -> 0 .. MaxSource]
         /\ \A j \in BackupKey \ {req[r].key} : file'[j] = file[j]
         /\ req[r].key \in BackupKey => file'[req[r].key] = req[r].source
<1>1. file \in [BackupKey -> 0 .. MaxSource] /\ req[r].source \in 0 .. MaxSource
  BY Parts DEF IInv, Shape
<1> QED BY <1>1 DEF Published

LEMMA CompleteStep == ASSUME IInv, NEW r \in Request, Complete(r) PROVE IInv'
<1>1. req[r].pc = "complete" /\ req[r].pc \in Busy /\ req[r].pc \in Running
  BY DEF Complete, Busy, Running
<1>2. PICK k \in Key : /\ k = req[r].key /\ active[k] = r /\ Tells(k) /\ req[r].body \in Body
                       /\ row[k].state = "IN_PROGRESS" /\ row[k].lease = r
                       /\ row[k].body = req[r].body
  BY <1>1, BusyCall
<1>3. PICK s \in 0 .. MaxSource : s = req[r].source
  BY Parts
<1>4. /\ s # 0
      /\ k \in QueryKey => record[k].status = "COMPLETED" /\ record[k].source = s
  BY <1>1, <1>2, <1>3 DEF IInv, Holds
<1>5. /\ record' = record /\ chain' = chain /\ source' = source /\ recent' = recent /\ lock' = lock
      /\ active' = Released(r) /\ row' = CompletedRow(r) /\ file' = Published(r)
      /\ req' = [Goto(r, "done") EXCEPT ![r].answer = row'[k].response]
  BY <1>2 DEF Complete
<1>6. /\ row' \in [Key -> Rows] /\ \A j \in Key \ {k} : row'[j] = row[j]
      /\ row'[k].state = "COMPLETED" /\ row'[k].response = s /\ row'[k].body = req[r].body
  <2>1. row \in [Key -> Rows] /\ row[k] \in Rows
    BY <1>2 DEF IInv, Shape
  <2>2. PICK x : x = [row[k] EXCEPT !.state = "COMPLETED", !.response = s]
    OBVIOUS
  <2>3. x \in Rows /\ x.state = "COMPLETED" /\ x.response = s /\ x.body = row[k].body
    BY <2>1, <2>2 DEF Rows
  <2>4. row' = [row EXCEPT ![k] = x]
    BY <1>2, <1>3, <1>5, <2>1, <2>2 DEF CompletedRow
  <2> QED BY <1>2, <2>1, <2>3, <2>4
<1>7. /\ req' \in [Request -> Calls] /\ \A q \in Request \ {r} : req'[q] = req[q]
      /\ req'[r].pc = "done" /\ req'[r].key = k /\ req'[r].body = req[r].body
      /\ req'[r].answer = s
  <2>1. req \in [Request -> Calls] /\ req[r] \in Calls
    BY DEF IInv, Shape
  <2>2. PICK q : q = [req[r] EXCEPT !.pc = "done", !.answer = s]
    OBVIOUS
  <2>3. /\ q \in Calls /\ q.pc = "done" /\ q.answer = s /\ q.key = req[r].key /\ q.body = req[r].body
    BY <2>1, <2>2 DEF Calls
  <2>4. req' = [req EXCEPT ![r] = q]
    BY <1>5, <1>6, <2>1, <2>2 DEF Goto
  <2> QED BY <1>2, <2>1, <2>3, <2>4
<1>8. /\ active' \in [Key -> Request \cup {Nobody}] /\ \A j \in Key \ {k} : active'[j] = active[j]
  BY <1>2, <1>5, Releases
<1>9. /\ file' \in [BackupKey -> 0 .. MaxSource] /\ \A j \in BackupKey \ {k} : file'[j] = file[j]
      /\ k \in BackupKey => file'[k] = s
  BY <1>2, <1>3, <1>5, Publishes
<1>10. Shape'
  BY <1>5, <1>6, <1>7, <1>8, <1>9 DEF IInv, Shape
<1>11. Holds(r)'
  BY <1>6, <1>7 DEF Holds, Busy, Running, Locked, Before
<1>12. Tells(k)'
  BY <1>2, <1>4, <1>5, <1>6, <1>9 DEF Tells
<1>13. row[k].state # "COMPLETED"
  BY <1>2
<1> QED BY <1>2, <1>5, <1>6, <1>7, <1>8, <1>9, <1>10, <1>11, <1>12, <1>13, ChainStands, OneCall

\* The process dies: what the requests held in memory is gone, the tables tell what they told.
LEMMA Dies ==
  ASSUME IInv, Dead, row' = row, record' = record, chain' = chain, source' = source, recent' = recent,
         file' \in [BackupKey -> 0 .. MaxSource],
         \A k \in BackupKey : file'[k] = file[k] \/ row[k].state # "COMPLETED"
  PROVE  IInv'
<1>1. /\ active' = [k \in Key |-> Nobody] /\ lock' = Nobody
      /\ req' = [r \in Request |-> IF req[r].pc = "done" THEN req[r] ELSE [req[r] EXCEPT !.pc = "new"]]
  BY DEF Dead
<1>2. \A r \in Request : /\ req'[r] \in Calls
                         /\ \/ req[r].pc = "done" /\ req'[r] = req[r]
                            \/ req'[r].pc = "new"
  <2> SUFFICES ASSUME NEW r \in Request
      PROVE  /\ req'[r] \in Calls
             /\ \/ req[r].pc = "done" /\ req'[r] = req[r]
                \/ req'[r].pc = "new"
    OBVIOUS
  <2>1. req[r] \in Calls
    BY Parts
  <2>2. CASE req[r].pc = "done"
    BY <1>1, <2>1, <2>2
  <2>3. CASE req[r].pc # "done"
    <3>1. PICK q : q = [req[r] EXCEPT !.pc = "new"]
      OBVIOUS
    <3>2. q \in Calls /\ q.pc = "new"
      BY <2>1, <3>1 DEF Calls
    <3> QED BY <1>1, <2>3, <3>1, <3>2
  <2> QED BY <2>2, <2>3
<1>3. req' \in [Request -> Calls]
  BY <1>1, <1>2
<1>4. Shape'
  BY <1>1, <1>3 DEF IInv, Shape
<1>5. ASSUME NEW r \in Request PROVE Holds(r)'
  <2>1. CASE req[r].pc = "done" /\ req'[r] = req[r]
    BY <2>1 DEF IInv, Holds, Busy, Running, Locked, Before
  <2>2. CASE req'[r].pc = "new"
    BY <2>2 DEF Holds, Busy, Running, Locked, Before
  <2> QED BY <1>2, <2>1, <2>2
<1>6. ASSUME NEW k \in Key PROVE Tells(k)'
  <2>1. Tells(k)
    BY DEF IInv
  <2> QED BY <2>1 DEF Tells
<1> QED BY <1>4, <1>5, <1>6 DEF IInv

LEMMA CrashStep == ASSUME IInv, Crash PROVE IInv'
BY Dies DEF Crash, Stored, IInv, Shape

LEMMA CrashInCompleteStep == ASSUME IInv, NEW r \in Request, CrashInComplete(r) PROVE IInv'
<1>1. /\ Dead /\ file' = Published(r) /\ req[r].key \in Key /\ row[req[r].key].state # "COMPLETED"
      /\ row' = row /\ record' = record /\ chain' = chain /\ source' = source /\ recent' = recent
  BY DEF CrashInComplete, Key
<1>2. /\ file' \in [BackupKey -> 0 .. MaxSource]
      /\ \A j \in BackupKey \ {req[r].key} : file'[j] = file[j]
  BY <1>1, Publishes
<1> QED BY <1>1, <1>2, Dies

\* Time passes: leases run out, the rate starts anew, the subject is committed again.
LEMMA TimeStep ==
  ASSUME IInv, (\E k \in Key : Expire(k)) \/ Minute \/ Advance
  PROVE  IInv'
<1>1. /\ record' = record /\ chain' = chain /\ file' = file /\ active' = active /\ lock' = lock
      /\ req' = req
  BY DEF Expire, Minute, Advance
<1>2. /\ row' \in [Key -> Rows]
      /\ \A k \in Key : /\ row'[k].state = row[k].state /\ row'[k].body = row[k].body
                        /\ row'[k].lease = row[k].lease /\ row'[k].response = row[k].response
  <2>1. row \in [Key -> Rows]
    BY DEF IInv, Shape
  <2>2. CASE row' = row
    BY <2>1, <2>2
  <2>3. CASE \E k \in Key : Expire(k)
    <3>1. PICK k \in Key : row' = [row EXCEPT ![k].expired = TRUE]
      BY <2>3 DEF Expire
    <3>2. row[k] \in Rows
      BY <2>1
    <3>3. PICK x : x = [row[k] EXCEPT !.expired = TRUE]
      OBVIOUS
    <3>4. /\ x \in Rows /\ x.state = row[k].state /\ x.body = row[k].body
          /\ x.lease = row[k].lease /\ x.response = row[k].response
      BY <3>2, <3>3 DEF Rows
    <3>5. row' = [row EXCEPT ![k] = x]
      BY <2>1, <3>1, <3>3
    <3> QED BY <2>1, <3>4, <3>5
  <2> QED BY <2>2, <2>3 DEF Minute, Advance
<1>3. /\ recent' \in 0 .. Limit /\ source' \in 1 .. MaxSource
      /\ \A r \in Request : req[r].pc = "insert" => recent' < Limit
  <2>1. /\ recent \in 0 .. Limit /\ source \in 1 .. MaxSource /\ Limit \in Nat /\ MaxSource \in Nat
        /\ \A r \in Request : req[r].pc = "insert" => recent < Limit
    BY Parts DEF IInv, Shape, Holds
  <2>2. \/ recent' = recent /\ source' = source
        \/ recent' = 0 /\ source' = source
        \/ recent' = recent /\ source < MaxSource /\ source' = source + 1
    BY DEF Expire, Minute, Advance
  <2> QED BY <2>1, <2>2
<1>4. Shape'
  BY <1>1, <1>2, <1>3 DEF IInv, Shape
<1>5. ASSUME NEW r \in Request PROVE Holds(r)'
  <2>1. Holds(r)
    BY DEF IInv
  <2>2. req[r].pc \in Running => req[r].pc \in Busy
    BY DEF Busy
  <2> HIDE DEF Busy, Running, Locked, Before
  <2> QED BY <1>1, <1>2, <1>3, <2>1, <2>2 DEF Holds
<1>6. ASSUME NEW k \in Key PROVE Tells(k)'
  <2>1. Tells(k)
    BY DEF IInv
  <2> QED BY <1>1, <1>2, <2>1 DEF Tells
<1> QED BY <1>4, <1>5, <1>6 DEF IInv

-----------------------------------------------------------------------------
(***************************************************************************)
(* The strengthened invariant holds whatever the order of calls, retries,  *)
(* takeovers, failures and crashes.                                        *)
(***************************************************************************)
THEOREM Invariance == WritesAssumption /\ Spec => []IInv
<1>1. IInv /\ [Next]_vars => IInv'
  <2> SUFFICES ASSUME IInv, [Next]_vars PROVE IInv'
    OBVIOUS
  <2>1. CASE UNCHANGED vars
    BY <2>1 DEF vars, IInv, Shape, Holds, Tells
  <2>2. ASSUME NEW r \in Request, Step(r) PROVE IInv'
    BY <2>2, EnterStep, ClaimStep, AnalyzeStep, PrepareStep, InsertRecordStep, EvaluateStep,
       EvaluationFailsStep, CompleteQueryStep, StageBackupStep, CompleteStep DEF Step
  <2>3. ASSUME NEW r \in Request, EvaluationFails(r) \/ BackupFails(r) \/ CrashInComplete(r)
        PROVE  IInv'
    BY <2>3, EvaluationFailsStep, BackupFailsStep, CrashInCompleteStep
  <2>4. CASE (\E k \in Key : Expire(k)) \/ Minute \/ Advance
    BY <2>4, TimeStep
  <2>5. CASE Crash
    BY <2>5, CrashStep
  <2> QED BY <2>1, <2>2, <2>3, <2>4, <2>5 DEF Next
<1> QED BY <1>1, InitInvariant, PTL DEF Spec

(***************************************************************************)
(* Rows have their shape, and at most one request runs a query: the lock   *)
(* of QueryService is held from the first step of analyze to its last.     *)
(***************************************************************************)
THEOREM TypeCorrect == WritesAssumption /\ Spec => []TypeOK
<1>1. IInv => TypeOK
  <2> SUFFICES ASSUME IInv PROVE TypeOK
    OBVIOUS
  <2>1. \A k \in Key : /\ row[k].state \in {"none", "IN_PROGRESS", "COMPLETED"}
                       /\ row[k].response # 0 <=> row[k].state = "COMPLETED"
                       /\ active[k] \in Request \cup {Nobody}
    BY Parts DEF IInv, Shape, Tells
  <2>2. \A k \in QueryKey : record[k].status \in {"none", "IN_PROGRESS", "FAILED", "COMPLETED"}
    BY Parts
  <2>3. Cardinality({r \in Request : req[r].pc \in {"prepare", "insert", "evaluate"}}) <= 1
    <3> DEFINE L == {r \in Request : req[r].pc \in {"prepare", "insert", "evaluate"}}
    <3>1. L \subseteq {lock}
      BY DEF IInv, Holds, Locked
    <3>2. IsFiniteSet({lock}) /\ Cardinality({lock}) = 1
      BY FS_Singleton
    <3> HIDE DEF L
    <3>3. Cardinality(L) <= 1
      BY <3>1, <3>2, FS_Subset
    <3> QED BY <3>3 DEF L
  <2>4. chain \in [1 .. MaxSource -> 0 .. Stages]
    BY DEF IInv, Shape
  <2>5. \A r \in Request : Done(r) => req[r].answer # 0
    BY DEF IInv, Holds, Tells, Done
  <2> QED BY <2>1, <2>2, <2>3, <2>4, <2>5 DEF TypeOK
<1> QED BY <1>1, Invariance, PTL

(***************************************************************************)
(* Requests of one key that are answered get one answer, and only for the  *)
(* body the key was claimed with, whatever was repeated, taken over, lost  *)
(* or raced (WriteService.claim and complete).                             *)
(***************************************************************************)
THEOREM OneAnswer == WritesAssumption /\ Spec => []AnswersAgree
<1>1. IInv => SameAnswer /\ AnsweredForItsBody
  BY DEF IInv, Holds, SameAnswer, AnsweredForItsBody, Done
<1> QED BY <1>1, Invariance, TypeCorrect, PTL DEF AnswersAgree

(***************************************************************************)
(* The backup a completed operation tells of is on disk, and a query is    *)
(* answered from the source it was recorded with, its evaluation complete, *)
(* however often the attempt died in between (create_online_backup,        *)
(* QueryService.analyze).                                                  *)
(***************************************************************************)
THEOREM AnswersTrue == WritesAssumption /\ Spec => []AnswersTellTruth
<1>1. IInv => AnswersTellTruth
  BY DEF IInv, Tells, AnswersTellTruth, BackupOnDisk, QueryAnswersItsSource, Key
<1> QED BY <1>1, Invariance, PTL

(***************************************************************************)
(* _check_rate reads the count before the record is inserted; the lock of  *)
(* the queries keeps every other insertion out until then.                 *)
(***************************************************************************)
THEOREM RateHolds == WritesAssumption /\ Spec => []RateLimit
<1>1. IInv => RateLimit
  BY Parts DEF IInv, Shape, RateLimit
<1> QED BY <1>1, Invariance, PTL

-----------------------------------------------------------------------------
(***************************************************************************)
(* The evaluations a query works through: the rules and the services of    *)
(* Evaluation, for any rules of the tables, callers, versions and values.  *)
(***************************************************************************)
Effects == {"ALLOW", "ALLOW_WITH_WARNING", "DOWNGRADE", "SUPPRESS", "PAUSE"}
Rank(effect) == Judge!EffectRank[effect]
Top(S) == Judge!Worst(S, Judge!EffectRank, "ALLOW")

LEMMA Ranks ==
  /\ Rank("ALLOW") = 0 /\ Rank("ALLOW_WITH_WARNING") = 1 /\ Rank("DOWNGRADE") = 2
  /\ Rank("SUPPRESS") = 3 /\ Rank("PAUSE") = 4
BY DEF Rank, Judge!EffectRank

\* The strongest of some effects is one of them, and none is stronger.
LEMMA TopIsWorst ==
  ASSUME NEW S, S \subseteq Effects
  PROVE  /\ S = {} => Top(S) = "ALLOW"
         /\ S # {} => Top(S) \in S /\ \A x \in S : Rank(x) <= Rank(Top(S))
<1>1. ASSUME S # {} PROVE \E x \in S : \A y \in S : Rank(y) <= Rank(x)
  <2>1. CASE "PAUSE" \in S
    BY <2>1, Ranks DEF Effects
  <2>2. CASE "PAUSE" \notin S /\ "SUPPRESS" \in S
    BY <2>2, Ranks DEF Effects
  <2>3. CASE "PAUSE" \notin S /\ "SUPPRESS" \notin S /\ "DOWNGRADE" \in S
    BY <2>3, Ranks DEF Effects
  <2>4. CASE S \subseteq {"ALLOW", "ALLOW_WITH_WARNING"} /\ "ALLOW_WITH_WARNING" \in S
    BY <2>4, Ranks
  <2>5. CASE S = {"ALLOW"}
    BY <2>5, Ranks
  <2> QED BY <1>1, <2>1, <2>2, <2>3, <2>4, <2>5 DEF Effects
<1> QED BY <1>1 DEF Top, Rank, Judge!Worst

\* If every effect of one set is matched by one as strong of another, so is the strongest.
LEMMA TopGrows ==
  ASSUME NEW S, NEW T, S \subseteq Effects, T \subseteq Effects,
         \A x \in S : \E y \in T : Rank(x) <= Rank(y)
  PROVE  Rank(Top(S)) <= Rank(Top(T))
<1>1. \A x \in Effects : Rank(x) \in 0 .. 4
  BY Ranks DEF Effects
<1>2. Top(T) \in Effects
  BY TopIsWorst DEF Effects
<1>3. CASE S = {}
  BY <1>1, <1>2, <1>3, Ranks, TopIsWorst
<1>4. CASE S # {}
  <2>1. PICK y \in T : Rank(Top(S)) <= Rank(y)
    BY <1>4, TopIsWorst
  <2>2. Rank(y) <= Rank(Top(T))
    BY <2>1, TopIsWorst
  <2>3. Top(S) \in Effects
    BY <1>4, TopIsWorst
  <2> QED BY <1>1, <1>2, <2>1, <2>2, <2>3
<1> QED BY <1>3, <1>4

LEMMA RuleEffects == \A c \in DOMAIN Judge!GuardianRule : Judge!GuardianRule[c].effect \in Effects
BY DEF Judge!GuardianRule, Effects

\* What decides: the quality of the data, then the rules that match.
Causes(unavailable, limited, matches) ==
  (IF unavailable THEN {"PAUSE"} ELSE IF limited THEN {"ALLOW_WITH_WARNING"} ELSE {})
  \cup {Judge!GuardianRule[c].effect : c \in matches}

LEMMA DecisionOfCauses ==
  ASSUME NEW unavailable, NEW limited, NEW matches, matches \subseteq DOMAIN Judge!GuardianRule
  PROVE  /\ Causes(unavailable, limited, matches) \subseteq Effects
         /\ Judge!Decision(unavailable, limited, matches).effect
              = Top(Causes(unavailable, limited, matches))
         /\ Judge!Decision(unavailable, limited, matches).matches = matches
<1> DEFINE data == IF unavailable THEN {[severity |-> "CRITICAL", effect |-> "PAUSE"]}
                   ELSE IF limited THEN {[severity |-> "WARNING", effect |-> "ALLOW_WITH_WARNING"]}
                   ELSE {}
           risks == data \cup {Judge!GuardianRule[c] : c \in matches}
<1>1. Causes(unavailable, limited, matches) \subseteq Effects
  BY RuleEffects DEF Causes, Effects
<1>2. {r.effect : r \in data}
        = IF unavailable THEN {"PAUSE"} ELSE IF limited THEN {"ALLOW_WITH_WARNING"} ELSE {}
  <2>1. CASE unavailable
    BY <2>1
  <2>2. CASE ~unavailable /\ limited
    BY <2>2
  <2>3. CASE ~unavailable /\ ~limited
    BY <2>3
  <2> QED BY <2>1, <2>2, <2>3
<1> HIDE DEF data
<1>3. {r.effect : r \in risks} = Causes(unavailable, limited, matches)
  BY <1>2 DEF Causes
<1>4. Judge!Decision(unavailable, limited, matches).effect
        = Judge!Worst({r.effect : r \in risks}, Judge!EffectRank, "ALLOW")
  BY DEF Judge!Decision, data
<1>5. Judge!Decision(unavailable, limited, matches).matches = matches
  BY DEF Judge!Decision
<1> QED BY <1>1, <1>3, <1>4, <1>5 DEF Top

\* The decision on given metrics, threshold and quality.
Judged(metrics, threshold, available, q) ==
  Judge!GuardianDecision(metrics, threshold, available, q[1], q[2])
Blind(metrics, available, q) == Judge!Unavailable(metrics, available, q[1], q[2])

LEMMA DecisionMeans ==
  ASSUME Judge!EvaluationAssumption, NEW metrics, NEW threshold, NEW available, NEW q
  PROVE  LET d == Judged(metrics, threshold, available, q)
             matches == IF Blind(metrics, available, q) THEN {}
                        ELSE Judge!Matches(GuardianCode, metrics, threshold)
         IN /\ d.matches = matches
            /\ d.effect = Top(Causes(Blind(metrics, available, q), Judge!Limited(q[1], q[2]), matches))
            /\ Causes(Blind(metrics, available, q), Judge!Limited(q[1], q[2]), matches) \subseteq Effects
            /\ Blind(metrics, available, q) => d.effect = "PAUSE"
<1> DEFINE matches == IF Blind(metrics, available, q) THEN {}
                      ELSE Judge!Matches(GuardianCode, metrics, threshold)
           causes == Causes(Blind(metrics, available, q), Judge!Limited(q[1], q[2]), matches)
           d == Judged(metrics, threshold, available, q)
<1>1. matches \subseteq DOMAIN Judge!GuardianRule
  BY DEF Judge!Matches, Judge!EvaluationAssumption
<1>2. d = Judge!Decision(Blind(metrics, available, q), Judge!Limited(q[1], q[2]), matches)
  BY DEF Judged, Blind, Judge!GuardianDecision
<1> HIDE DEF matches, d
<1>3. /\ d.matches = matches /\ d.effect = Top(causes) /\ causes \subseteq Effects
  BY <1>1, <1>2, DecisionOfCauses
<1>4. ASSUME Blind(metrics, available, q) PROVE d.effect = "PAUSE"
  <2>1. "PAUSE" \in causes
    BY <1>4 DEF Causes
  <2>2. Top(causes) \in Effects /\ Rank("PAUSE") <= Rank(Top(causes))
    BY <1>3, <2>1, TopIsWorst
  <2> QED BY <1>3, <2>2, Ranks DEF Effects
<1> QED BY <1>3, <1>4 DEF matches, d

\* guardian_decision is monotone: fewer metrics, higher ones or a worse quality never weaken it.
LEMMA WorseIsStronger ==
  ASSUME Judge!EvaluationAssumption, NEW available \in BOOLEAN, NEW v \in Nat,
         NEW M, NEW m \in [M -> Nat], NEW W, NEW w \in [W -> Nat],
         W \subseteq M, \A c \in W : w[c] >= m[c],
         NEW q \in Quality, NEW p \in Quality, \A i \in 1 .. 2 : Judge!Grade(p[i]) >= Judge!Grade(q[i])
  PROVE  Rank(Judged(m, Judge!Threshold(v), available, q).effect)
           <= Rank(Judged(w, Judge!Threshold(v), available, p).effect)
<1> DEFINE t == Judge!Threshold(v)
           causesOf(x, y) == Causes(Blind(x, available, y), Judge!Limited(y[1], y[2]),
                               IF Blind(x, available, y) THEN {} ELSE Judge!Matches(GuardianCode, x, t))
<1>1. /\ q[1] \in Judge!Health /\ q[2] \in Judge!Fitness /\ p[1] \in Judge!Health /\ p[2] \in Judge!Fitness
      /\ Judge!Grade(p[1]) >= Judge!Grade(q[1]) /\ Judge!Grade(p[2]) >= Judge!Grade(q[2])
  BY DEF Judge!EvaluationAssumption
<1>2. Blind(m, available, q) => Blind(w, available, p)
  BY <1>1 DEF Blind, Judge!Unavailable, Judge!Grade, Judge!Health, Judge!Fitness
<1>3. Judge!Limited(q[1], q[2]) => Blind(w, available, p) \/ Judge!Limited(p[1], p[2])
  BY <1>1 DEF Blind, Judge!Unavailable, Judge!Limited, Judge!Grade, Judge!Health, Judge!Fitness
<1>4. ASSUME ~Blind(w, available, p)
      PROVE  Judge!Matches(GuardianCode, m, t) \subseteq Judge!Matches(GuardianCode, w, t)
  <2>1. GuardianCode \subseteq DOMAIN w
    BY <1>4 DEF Blind, Judge!Unavailable
  <2>2. \A c \in GuardianCode : t[c] = v
    BY DEF Judge!Threshold, Judge!Code
  <2> HIDE DEF t
  <2>3. \A c \in GuardianCode : m[c] \in Nat /\ w[c] \in Nat /\ w[c] >= m[c]
    BY <2>1
  <2>4. \A c \in GuardianCode : m[c] >= v => w[c] >= v
    BY <2>3
  <2> QED BY <2>1, <2>2, <2>4 DEF Judge!Matches
<1>5. causesOf(m, q) \subseteq Effects /\ causesOf(w, p) \subseteq Effects
  BY DecisionMeans
<1>6. CASE Blind(w, available, p)
  <2>1. Judged(w, t, available, p).effect = "PAUSE"
    BY <1>6, DecisionMeans
  <2>2. Judged(m, t, available, q).effect = Top(causesOf(m, q))
    BY DecisionMeans
  <2>3. Top(causesOf(m, q)) \in Effects
    BY <1>5, TopIsWorst DEF Effects
  <2> QED BY <2>1, <2>2, <2>3, Ranks DEF Effects
<1>7. CASE ~Blind(w, available, p)
  <2>1. ~Blind(m, available, q)
    BY <1>2, <1>7
  <2>2. causesOf(m, q) = Causes(FALSE, Judge!Limited(q[1], q[2]), Judge!Matches(GuardianCode, m, t))
    BY <2>1 DEF Causes
  <2>3. causesOf(w, p) = Causes(FALSE, Judge!Limited(p[1], p[2]), Judge!Matches(GuardianCode, w, t))
    BY <1>7 DEF Causes
  <2>4. causesOf(m, q) \subseteq causesOf(w, p)
    BY <1>3, <1>4, <1>7, <2>2, <2>3 DEF Causes
  <2>5. \A x \in Effects : Rank(x) \in 0 .. 4
    BY Ranks DEF Effects
  <2> HIDE DEF causesOf
  <2>6. Rank(Top(causesOf(m, q))) <= Rank(Top(causesOf(w, p)))
    BY <1>5, <2>4, <2>5, TopGrows
  <2>7. /\ Judged(m, t, available, q).effect = Top(causesOf(m, q))
        /\ Judged(w, t, available, p).effect = Top(causesOf(w, p))
    BY DecisionMeans DEF causesOf
  <2> QED BY <2>6, <2>7
<1> QED BY <1>6, <1>7

-----------------------------------------------------------------------------
(***************************************************************************)
(* The services                                                            *)
(***************************************************************************)
Points == {"idle", "insert", "scout", "insertScout", "done", "failed"}
Blinded == Blind(Judge!Used, state.available, quality)
\* The one version the facts of a family carry.
AllOf(family, v) == \A c \in family \cap DOMAIN state.facts : state.facts[c] = v

\* What a Guardian and a Scout evaluation of the stored state may be.
GuardianOf(c, v) == [decision |-> Judged(Judge!Used, Judge!Threshold(v), state.available, quality),
                     by |-> c, version |-> v]
GuardianRows == {GuardianOf(c, v) : c \in Caller,
                                    v \in {w \in Version \cup {0} : Blinded \/ AllOf(GuardianCode, w)}}
ScoutOf(c, v) ==
  [decision |-> Judge!ScoutDecision([k \in ScoutCode \cap DOMAIN state.facts |-> value[k]],
                  Judge!Threshold(v), guardian.decision.effect),
   by |-> c, version |-> v]
ScoutRows == {ScoutOf(c, v) : c \in Caller, v \in {w \in Version \cup {0} : AllOf(ScoutCode, w)}}
CommitOf(available, g, s) ==
  [available |-> available, guardian |-> Judge!OfficialGuardian(available, Judge!Threshold(g)),
   gversion |-> g, sversion |-> s,
   scout |-> Judge!OfficialScout(Judge!OfficialGuardian(available, Judge!Threshold(g)).effect,
                                 Judge!Threshold(s))]

SnapshotOK ==
  /\ DOMAIN value \subseteq Judge!Code /\ value \in [DOMAIN value -> Value] /\ quality \in Quality
  /\ execution \in [DOMAIN Judge!CodesOf -> SUBSET Version]
StateOK ==
  state # Judge!Null =>
    /\ state.available \in BOOLEAN /\ DOMAIN state.facts \subseteq DOMAIN value
    /\ state.facts \in [DOMAIN state.facts -> Version]
CommitOK == \/ commit = Judge!Null
            \/ \E available \in BOOLEAN, g, s \in Version : commit = CommitOf(available, g, s)

\* What is stored, and what a caller holds at each point.
StoredOK ==
  /\ guardian \in GuardianRows \cup {Judge!Null} /\ scout \in ScoutRows \cup {Judge!Null}
  /\ guardian # Judge!Null => state # Judge!Null
  /\ scout # Judge!Null => guardian # Judge!Null
HeldBy(c) ==
  /\ call[c].pc # "idle" => state # Judge!Null
  /\ call[c].pc = "insert" => call[c].guardian \in GuardianRows
  /\ call[c].pc \in {"scout", "insertScout", "done"} =>
       guardian # Judge!Null /\ call[c].guardian = guardian
  /\ call[c].pc = "insertScout" => call[c].scout \in ScoutRows
  /\ call[c].pc = "done" => scout # Judge!Null /\ call[c].scout = scout
CallRows == [pc : Points, guardian : GuardianRows \cup {Judge!Null}, scout : ScoutRows \cup {Judge!Null}]
CallsOK ==
  /\ call \in [Caller -> CallRows]
  /\ \A c \in Caller : /\ HeldBy(c)
                       /\ state = Judge!Null => call[c].guardian = Judge!Null
                       /\ guardian = Judge!Null => call[c].scout = Judge!Null

JudgeInv ==
  /\ Judge!EvaluationAssumption
  /\ SnapshotOK /\ StateOK /\ CommitOK /\ StoredOK /\ CallsOK

LEMMA SameCardinality == \A S : Judge!Cardinality(S) = Cardinality(S)
BY DEF Judge!Cardinality, Cardinality

\* An evaluation is no absence of one.
LEMMA RowsAreRows ==
  /\ \A c, v : GuardianOf(c, v) # Judge!Null
  /\ \A c, v : ScoutOf(c, v) # Judge!Null
<1>1. \A c, v : "by" \in DOMAIN GuardianOf(c, v) /\ "by" \in DOMAIN ScoutOf(c, v)
  BY DEF GuardianOf, ScoutOf
<1>2. "by" \notin DOMAIN Judge!Null
  BY DEF Judge!Null
<1> QED BY <1>1, <1>2

\* A family whose facts carry at most one version carries the one that is chosen.
LEMMA OneVersion ==
  ASSUME SnapshotOK, StateOK, state # Judge!Null, NEW family, IsFiniteSet(family),
         ~ (Cardinality(Judge!Versions(family)) > 1), Judge!Versions(family) # {}
  PROVE  LET v == CHOOSE w \in Judge!Versions(family) : TRUE
         IN v \in Version /\ AllOf(family, v)
<1> DEFINE V == Judge!Versions(family)
           v == CHOOSE w \in V : TRUE
<1>1. V \subseteq Version /\ \A c \in family \cap DOMAIN state.facts : state.facts[c] \in V
  BY DEF StateOK, Judge!Versions
<1>2. IsFiniteSet(V)
  <2> DEFINE D == family \cap DOMAIN state.facts
  <2>1. IsFiniteSet(D)
    BY FS_Subset
  <2>2. V = {state.facts[c] : c \in D}
    BY DEF Judge!Versions
  <2>3. [c \in D |-> state.facts[c]] \in Surjection(D, V)
    BY <2>2 DEF Surjection
  <2> HIDE DEF V, D
  <2> QED BY <2>1, <2>3, FS_Surjection
<1>0. V # {}
  OBVIOUS
<1> HIDE DEF V
<1>3. v \in V
  BY <1>0
<1>4. ASSUME NEW w \in V PROVE w = v
  <2> SUFFICES ASSUME w # v PROVE FALSE
    OBVIOUS
  <2>1. {w, v} \subseteq V
    BY <1>3
  <2>2. Cardinality({w, v}) = 2 /\ IsFiniteSet({w, v})
    BY FS_Singleton, FS_AddElement
  <2>3. Cardinality({w, v}) <= Cardinality(V) /\ Cardinality(V) \in Nat
    BY <1>2, <2>1, FS_Subset, FS_CardinalityType
  <2> QED BY <2>2, <2>3 DEF V
<1> QED BY <1>1, <1>3, <1>4 DEF V, AllOf

LEMMA CodesFinite ==
  ASSUME Judge!EvaluationAssumption
  PROVE  IsFiniteSet(GuardianCode) /\ IsFiniteSet(ScoutCode)
<1>1. DOMAIN Judge!GuardianRule =
        {"RISE_RATE", "HEAD_CONCENTRATION", "INTERNAL_DIVERGENCE", "CROWDING", "CORE_WEAKENING",
         "LIQUIDITY_WEAKENING", "EARLY_SIGNAL_FAILURE", "BREADTH_COLLAPSE", "STAMPEDE_RISK",
         "T1_CHASING_RISK"}
  BY DEF Judge!GuardianRule
<1>2. \A a, b : IsFiniteSet({a, b})
  <2> SUFFICES ASSUME NEW a, NEW b PROVE IsFiniteSet({a, b})
    OBVIOUS
  <2>1. IsFiniteSet({a}) /\ {a, b} = {a} \cup {b}
    BY FS_Singleton
  <2> QED BY <2>1, FS_AddElement
<1> DEFINE g1 == {"RISE_RATE", "HEAD_CONCENTRATION"}   g2 == {"INTERNAL_DIVERGENCE", "CROWDING"}
           g3 == {"CORE_WEAKENING", "LIQUIDITY_WEAKENING"}
           g4 == {"EARLY_SIGNAL_FAILURE", "BREADTH_COLLAPSE"}
           g5 == {"STAMPEDE_RISK", "T1_CHASING_RISK"}
           s1 == {"EARLY_ACTIVITY", "HEALTHY_BREADTH"}
           s2 == {"RELATIVE_STRENGTH", "TURNOVER_CONFIRMATION"}
           s3 == {"ETF_CONFIRMATION", "STYLE_SUPPORT"}
           s4 == {"LOW_CROWDING", "CONTINUITY_STRENGTHENING"}
<1>3. DOMAIN Judge!GuardianRule = g1 \cup (g2 \cup (g3 \cup (g4 \cup g5)))
      /\ Judge!ScoutRule = s1 \cup (s2 \cup (s3 \cup s4))
  BY <1>1 DEF Judge!ScoutRule
<1>4. /\ IsFiniteSet(g1) /\ IsFiniteSet(g2) /\ IsFiniteSet(g3) /\ IsFiniteSet(g4) /\ IsFiniteSet(g5)
      /\ IsFiniteSet(s1) /\ IsFiniteSet(s2) /\ IsFiniteSet(s3) /\ IsFiniteSet(s4)
  BY <1>2
<1> HIDE DEF g1, g2, g3, g4, g5, s1, s2, s3, s4
<1>5. IsFiniteSet(g4 \cup g5) /\ IsFiniteSet(s3 \cup s4)
  BY <1>4, FS_Union
<1>6. IsFiniteSet(g3 \cup (g4 \cup g5)) /\ IsFiniteSet(s2 \cup (s3 \cup s4))
  BY <1>4, <1>5, FS_Union
<1>7. IsFiniteSet(g2 \cup (g3 \cup (g4 \cup g5))) /\ IsFiniteSet(Judge!ScoutRule)
  BY <1>3, <1>4, <1>6, FS_Union
<1>8. IsFiniteSet(g1 \cup (g2 \cup (g3 \cup (g4 \cup g5))))
  BY <1>4, <1>7, FS_Union
<1>9. IsFiniteSet(DOMAIN Judge!GuardianRule)
  BY <1>3, <1>8
<1> QED BY <1>7, <1>9, FS_Subset DEF Judge!EvaluationAssumption

LEMMA FamiliesApart == ASSUME Judge!EvaluationAssumption PROVE GuardianCode \cap ScoutCode = {}
<1>1. DOMAIN Judge!GuardianRule =
        {"RISE_RATE", "HEAD_CONCENTRATION", "INTERNAL_DIVERGENCE", "CROWDING", "CORE_WEAKENING",
         "LIQUIDITY_WEAKENING", "EARLY_SIGNAL_FAILURE", "BREADTH_COLLAPSE", "STAMPEDE_RISK",
         "T1_CHASING_RISK"}
  BY DEF Judge!GuardianRule
<1> QED BY <1>1 DEF Judge!EvaluationAssumption, Judge!ScoutRule

\* What the rows are made of stays while the snapshot, the state and the Guardian's evaluation do.
LEMMA RowsStay ==
  ASSUME UNCHANGED <<value, quality, state>>
  PROVE  /\ GuardianRows' = GuardianRows
         /\ guardian' = guardian => ScoutRows' = ScoutRows
<1>1. Judge!Used' = Judge!Used
  BY DEF Judge!Used
<1>2. Blinded' = Blinded
  BY <1>1 DEF Blinded, Blind, Judge!Unavailable
<1>3. \A family, v : AllOf(family, v)' = AllOf(family, v)
  BY DEF AllOf
<1>4. \A c, v : GuardianOf(c, v)' = GuardianOf(c, v)
  BY <1>1 DEF GuardianOf, Judged
<1>5. \A c, v : guardian' = guardian => ScoutOf(c, v)' = ScoutOf(c, v)
  BY DEF ScoutOf
<1>6. GuardianRows' = GuardianRows
  BY <1>2, <1>3, <1>4 DEF GuardianRows
<1>7. guardian' = guardian => ScoutRows' = ScoutRows
  BY <1>3, <1>5 DEF ScoutRows
<1> QED BY <1>6, <1>7

LEMMA CommitStays ==
  ASSUME CommitOK, UNCHANGED <<value, quality, commit>>
  PROVE  CommitOK'
<1>1. ASSUME NEW available, NEW g, NEW s PROVE CommitOf(available, g, s)' = CommitOf(available, g, s)
  <2>1. \A t : Judge!OfficialGuardian(available, t)' = Judge!OfficialGuardian(available, t)
    BY DEF Judge!OfficialGuardian
  <2>2. \A e, t : Judge!OfficialScout(e, t)' = Judge!OfficialScout(e, t)
    BY DEF Judge!OfficialScout
  <2> QED BY <2>1, <2>2 DEF CommitOf
<1>2. CASE commit = Judge!Null
  BY <1>2 DEF CommitOK
<1>3. CASE \E available \in BOOLEAN, g, s \in Version : commit = CommitOf(available, g, s)
  <2>1. PICK available \in BOOLEAN, g \in Version, s \in Version : commit = CommitOf(available, g, s)
    BY <1>3
  <2>2. commit' = CommitOf(available, g, s)'
    BY <1>1, <2>1
  <2> QED BY <2>2 DEF CommitOK
<1> QED BY <1>2, <1>3 DEF CommitOK

\* What a step of a caller has to show.
LEMMA CallerMoves ==
  ASSUME JudgeInv, UNCHANGED <<value, quality, execution, state, commit>>, StoredOK', CallsOK'
  PROVE  JudgeInv'
<1>1. SnapshotOK' /\ StateOK'
  BY DEF JudgeInv, SnapshotOK, StateOK, Judge!Code
<1>2. CommitOK'
  BY CommitStays DEF JudgeInv
<1> QED BY <1>1, <1>2 DEF JudgeInv, Judge!EvaluationAssumption

LEMMA JudgeInit == Judge!EvaluationAssumption /\ Judge!Init => JudgeInv
<1> SUFFICES ASSUME Judge!EvaluationAssumption, Judge!Init PROVE JudgeInv
  OBVIOUS
<1>1. /\ quality \in Quality /\ state = Judge!Null /\ guardian = Judge!Null /\ scout = Judge!Null
      /\ commit = Judge!Null /\ execution = [f \in DOMAIN Judge!CodesOf |-> {}]
      /\ call = [c \in Caller |-> [pc |-> "idle", guardian |-> Judge!Null, scout |-> Judge!Null]]
      /\ \E given \in SUBSET Judge!Code : value \in [given -> Value]
  BY DEF Judge!Init
<1>2. SnapshotOK
  BY <1>1 DEF SnapshotOK
<1>3. StateOK /\ CommitOK /\ StoredOK
  BY <1>1 DEF StateOK, CommitOK, StoredOK
<1>4. call \in [Caller -> CallRows]
  BY <1>1 DEF CallRows, Points
<1>5. CallsOK
  BY <1>1, <1>4 DEF CallsOK, HeldBy
<1> QED BY <1>2, <1>3, <1>5 DEF JudgeInv

LEMMA RecordStep ==
  ASSUME JudgeInv, NEW f \in DOMAIN Judge!CodesOf, NEW v \in Version, Judge!RecordMetrics(f, v)
  PROVE  JudgeInv'
<1>1. /\ execution' = [execution EXCEPT ![f] = @ \cup {v}]
      /\ UNCHANGED <<value, quality, state, guardian, scout, commit, call>>
  BY DEF Judge!RecordMetrics, Judge!Snapshot
<1>2. SnapshotOK'
  BY <1>1 DEF JudgeInv, SnapshotOK, Judge!Code
<1>3. GuardianRows' = GuardianRows /\ ScoutRows' = ScoutRows
  BY <1>1, RowsStay
<1>4. StateOK' /\ StoredOK'
  BY <1>1, <1>3 DEF JudgeInv, StateOK, StoredOK
<1>5. CallsOK'
  BY <1>1, <1>3 DEF JudgeInv, CallsOK, CallRows, HeldBy
<1>6. CommitOK'
  BY <1>1, CommitStays DEF JudgeInv
<1> QED BY <1>1, <1>2, <1>4, <1>5, <1>6 DEF JudgeInv, Judge!EvaluationAssumption

LEMMA StateStep == ASSUME JudgeInv, Judge!EvaluateState PROVE JudgeInv'
<1>1. /\ state = Judge!Null
      /\ UNCHANGED <<value, quality, execution, guardian, scout, commit, call>>
  BY DEF Judge!EvaluateState, Judge!Snapshot
<1>2. PICK available \in BOOLEAN, used \in SUBSET DOMAIN value :
        \E facts \in [used -> Version] : state' = [available |-> available, facts |-> facts]
  BY DEF Judge!EvaluateState
<1>3. StateOK'
  BY <1>1, <1>2 DEF StateOK
<1>4. SnapshotOK' /\ CommitOK'
  BY <1>1, CommitStays DEF JudgeInv, SnapshotOK, Judge!Code
<1>5. guardian = Judge!Null /\ scout = Judge!Null
  BY <1>1 DEF JudgeInv, StoredOK
<1>6. StoredOK'
  BY <1>1, <1>5 DEF StoredOK
<1>7. \A c \in Caller : call[c] \in CallRows /\ call[c].pc = "idle"
                        /\ call[c].guardian = Judge!Null /\ call[c].scout = Judge!Null
  BY <1>1, <1>5 DEF JudgeInv, CallsOK, HeldBy
<1>8. \A c \in Caller : call[c] \in CallRows'
  BY <1>7 DEF CallRows
<1>9. call' \in [Caller -> CallRows']
  BY <1>1, <1>8 DEF JudgeInv, CallsOK
<1>10. CallsOK'
  BY <1>1, <1>7, <1>9 DEF CallsOK, HeldBy
<1> QED BY <1>3, <1>4, <1>6, <1>10 DEF JudgeInv, Judge!EvaluationAssumption

\* A step that changes what one caller holds and nothing that is stored.
LEMMA OneCallerMoves ==
  ASSUME JudgeInv, NEW c \in Caller, NEW held \in CallRows, call' = [call EXCEPT ![c] = held],
         UNCHANGED <<value, quality, execution, state, guardian, scout, commit>>,
         HeldBy(c)', state = Judge!Null => held.guardian = Judge!Null,
         guardian = Judge!Null => held.scout = Judge!Null
  PROVE  JudgeInv'
<1>1. GuardianRows' = GuardianRows /\ ScoutRows' = ScoutRows
  BY RowsStay
<1>2. StoredOK'
  BY <1>1 DEF JudgeInv, StoredOK
<1>3. /\ call' \in [Caller -> CallRows] /\ call'[c] = held
      /\ \A d \in Caller \ {c} : call'[d] = call[d]
  BY DEF JudgeInv, CallsOK
<1>4. \A d \in Caller \ {c} : HeldBy(d)'
  BY <1>1, <1>3 DEF JudgeInv, CallsOK, HeldBy
<1>5. CallRows' = CallRows
  BY <1>1 DEF CallRows
<1>6. \A d \in Caller : /\ HeldBy(d)'
                        /\ state' = Judge!Null => call'[d].guardian = Judge!Null
                        /\ guardian' = Judge!Null => call'[d].scout = Judge!Null
  BY <1>3, <1>4 DEF JudgeInv, CallsOK
<1>7. CallsOK'
  BY <1>3, <1>5, <1>6 DEF CallsOK
<1> QED BY <1>2, <1>7, CallerMoves

\* The version an evaluation is made with, when the facts of its family carry at most one.
LEMMA VersionOfGuardian ==
  ASSUME JudgeInv, state # Judge!Null, ~ (~Blinded /\ Cardinality(Judge!Versions(GuardianCode)) > 1)
  PROVE  LET v == IF Blinded THEN 0 ELSE CHOOSE w \in Judge!Versions(GuardianCode) : TRUE
         IN v \in {w \in Version \cup {0} : Blinded \/ AllOf(GuardianCode, w)}
<1>1. CASE Blinded
  BY <1>1
<1>2. CASE ~Blinded
  <2>1. GuardianCode \subseteq DOMAIN Judge!Used /\ DOMAIN Judge!Used = DOMAIN state.facts
    BY <1>2 DEF Blinded, Blind, Judge!Unavailable, Judge!Used
  <2>2. Judge!Versions(GuardianCode) # {}
    BY <2>1 DEF JudgeInv, Judge!EvaluationAssumption, Judge!Versions
  <2> QED BY <1>2, <2>2, OneVersion, CodesFinite DEF JudgeInv
<1> QED BY <1>1, <1>2

LEMMA VersionOfScout ==
  ASSUME JudgeInv, state # Judge!Null, ~ (Cardinality(Judge!Versions(ScoutCode)) > 1)
  PROVE  LET versions == Judge!Versions(ScoutCode)
             v == IF versions = {} THEN 0 ELSE CHOOSE w \in versions : TRUE
         IN v \in {w \in Version \cup {0} : AllOf(ScoutCode, w)}
<1>1. CASE Judge!Versions(ScoutCode) = {}
  <2>1. ScoutCode \cap DOMAIN state.facts = {}
    BY <1>1 DEF Judge!Versions
  <2> QED BY <1>1, <2>1 DEF AllOf
<1>2. CASE Judge!Versions(ScoutCode) # {}
  BY <1>2, OneVersion, CodesFinite DEF JudgeInv
<1> QED BY <1>1, <1>2

LEMMA AskGuardianStep == ASSUME JudgeInv, NEW c \in Caller, Judge!AskGuardian(c) PROVE JudgeInv'
<1> DEFINE version == IF Blinded THEN 0 ELSE CHOOSE w \in Judge!Versions(GuardianCode) : TRUE
<1>1. /\ call[c].pc = "idle" /\ state # Judge!Null
      /\ UNCHANGED <<value, quality, execution, state, guardian, scout, commit>>
  BY DEF Judge!AskGuardian, Judge!Snapshot
<1>2. call \in [Caller -> CallRows] /\ call[c] \in CallRows
  BY DEF JudgeInv, CallsOK
<1>3. guardian \in GuardianRows \cup {Judge!Null}
  BY DEF JudgeInv, StoredOK
<1>4. guardian = Judge!Null => call[c].scout = Judge!Null
  BY DEF JudgeInv, CallsOK
<1>5. \/ guardian # Judge!Null /\ call' = [Judge!Goto(c, "scout") EXCEPT ![c].guardian = guardian]
      \/ call' = Judge!Goto(c, "failed")
      \/ /\ guardian = Judge!Null /\ ~ (~Blinded /\ Cardinality(Judge!Versions(GuardianCode)) > 1)
         /\ call' = [Judge!Goto(c, "insert") EXCEPT ![c].guardian = GuardianOf(c, version)]
  BY SameCardinality DEF Judge!AskGuardian, GuardianOf, Judged, Blinded, Blind
<1>6. CASE guardian # Judge!Null /\ call' = [Judge!Goto(c, "scout") EXCEPT ![c].guardian = guardian]
  <2> DEFINE held == [call[c] EXCEPT !.pc = "scout", !.guardian = guardian]
  <2>1. call' = [call EXCEPT ![c] = held]
    BY <1>2, <1>6 DEF Judge!Goto
  <2>2. held \in CallRows /\ held.pc = "scout" /\ held.guardian = guardian /\ held.scout = call[c].scout
    BY <1>2, <1>3 DEF CallRows, Points
  <2> HIDE DEF held
  <2>3. call'[c] = held
    BY <1>2, <2>1
  <2>4. HeldBy(c)'
    BY <1>1, <1>6, <2>2, <2>3 DEF HeldBy
  <2> QED BY <1>1, <1>6, <2>1, <2>2, <2>4, OneCallerMoves
<1>7. CASE call' = Judge!Goto(c, "failed")
  <2> DEFINE held == [call[c] EXCEPT !.pc = "failed"]
  <2>1. call' = [call EXCEPT ![c] = held]
    BY <1>2, <1>7 DEF Judge!Goto
  <2>2. held \in CallRows /\ held.pc = "failed" /\ held.scout = call[c].scout
    BY <1>2 DEF CallRows, Points
  <2> HIDE DEF held
  <2>3. call'[c] = held
    BY <1>2, <2>1
  <2>4. HeldBy(c)'
    BY <1>1, <2>2, <2>3 DEF HeldBy
  <2> QED BY <1>1, <1>4, <2>1, <2>2, <2>4, OneCallerMoves
<1>8. CASE /\ guardian = Judge!Null /\ ~ (~Blinded /\ Cardinality(Judge!Versions(GuardianCode)) > 1)
           /\ call' = [Judge!Goto(c, "insert") EXCEPT ![c].guardian = GuardianOf(c, version)]
  <2>1. version \in {w \in Version \cup {0} : Blinded \/ AllOf(GuardianCode, w)}
    BY <1>1, <1>8, VersionOfGuardian
  <2> HIDE DEF version
  <2> DEFINE g == GuardianOf(c, version)
             held == [call[c] EXCEPT !.pc = "insert", !.guardian = g]
  <2>2. g \in GuardianRows
    BY <2>1 DEF GuardianRows
  <2>3. call' = [call EXCEPT ![c] = held]
    BY <1>2, <1>8 DEF Judge!Goto
  <2> HIDE DEF g
  <2>4. held \in CallRows /\ held.pc = "insert" /\ held.guardian = g /\ held.scout = call[c].scout
    BY <1>2, <2>2 DEF CallRows, Points
  <2> HIDE DEF held
  <2>5. call'[c] = held /\ GuardianRows' = GuardianRows
    BY <1>1, <1>2, <2>3, RowsStay
  <2>6. HeldBy(c)'
    BY <1>1, <2>2, <2>4, <2>5 DEF HeldBy
  <2> QED BY <1>1, <1>4, <2>3, <2>4, <2>6, OneCallerMoves
<1> QED BY <1>5, <1>6, <1>7, <1>8

LEMMA InsertGuardianStep ==
  ASSUME JudgeInv, NEW c \in Caller, Judge!InsertGuardian(c) PROVE JudgeInv'
<1>1. /\ call[c].pc = "insert"
      /\ UNCHANGED <<value, quality, execution, state, scout, commit>>
      /\ \/ guardian = Judge!Null /\ guardian' = call[c].guardian /\ call' = Judge!Goto(c, "scout")
         \/ guardian' = guardian /\ call' = Judge!Goto(c, "failed")
  BY DEF Judge!InsertGuardian, Judge!Snapshot
<1>2. call \in [Caller -> CallRows] /\ call[c] \in CallRows
  BY DEF JudgeInv, CallsOK
<1>3. state # Judge!Null /\ call[c].guardian \in GuardianRows
  BY <1>1 DEF JudgeInv, CallsOK, HeldBy
<1>4. CASE guardian' = guardian /\ call' = Judge!Goto(c, "failed")
  <2> DEFINE held == [call[c] EXCEPT !.pc = "failed"]
  <2>1. call' = [call EXCEPT ![c] = held]
    BY <1>2, <1>4 DEF Judge!Goto
  <2>2. held \in CallRows /\ held.pc = "failed" /\ held.scout = call[c].scout
    BY <1>2 DEF CallRows, Points
  <2> HIDE DEF held
  <2>3. call'[c] = held
    BY <1>2, <2>1
  <2>4. HeldBy(c)'
    BY <1>1, <1>3, <2>2, <2>3 DEF HeldBy
  <2>5. guardian = Judge!Null => held.scout = Judge!Null
    BY <2>2 DEF JudgeInv, CallsOK
  <2> QED BY <1>1, <1>3, <1>4, <2>1, <2>2, <2>4, <2>5, OneCallerMoves
<1>5. CASE guardian = Judge!Null /\ guardian' = call[c].guardian /\ call' = Judge!Goto(c, "scout")
  <2>1. guardian' # Judge!Null
    BY <1>3, <1>5, RowsAreRows DEF GuardianRows
  <2>2. scout = Judge!Null /\ scout' = Judge!Null
    BY <1>1, <1>5 DEF JudgeInv, StoredOK
  <2>3. GuardianRows' = GuardianRows
    BY <1>1, RowsStay
  <2>4. StoredOK'
    BY <1>1, <1>3, <1>5, <2>2, <2>3 DEF StoredOK
  <2>5. \A d \in Caller : /\ call[d] \in CallRows /\ call[d].scout = Judge!Null
                          /\ call[d].pc \in {"idle", "insert", "failed"}
    BY <1>5 DEF JudgeInv, CallsOK, HeldBy, CallRows, Points
  <2>6. \A d \in Caller : /\ call'[d].guardian = call[d].guardian /\ call'[d].scout = Judge!Null
                          /\ call'[d].pc = IF d = c THEN "scout" ELSE call[d].pc
                          /\ call'[d] \in CallRows'
    <3> SUFFICES ASSUME NEW d \in Caller
                 PROVE  /\ call'[d].guardian = call[d].guardian /\ call'[d].scout = Judge!Null
                        /\ call'[d].pc = IF d = c THEN "scout" ELSE call[d].pc
                        /\ call'[d] \in CallRows'
      OBVIOUS
    <3>1. call'[d] = IF d = c THEN [call[d] EXCEPT !.pc = "scout"] ELSE call[d]
      BY <1>2, <1>5 DEF Judge!Goto
    <3> QED BY <2>3, <2>5, <3>1 DEF CallRows, Points
  <2>7. call' \in [Caller -> CallRows']
    BY <1>2, <1>5, <2>6 DEF Judge!Goto
  <2>8. ASSUME NEW d \in Caller PROVE HeldBy(d)'
    <3>1. call[d].pc = "insert" => call[d].guardian \in GuardianRows
      BY DEF JudgeInv, CallsOK, HeldBy
    <3> QED BY <1>1, <1>3, <1>5, <2>1, <2>3, <2>5, <2>6, <3>1 DEF HeldBy
  <2>9. CallsOK'
    BY <1>1, <1>3, <2>1, <2>6, <2>7, <2>8 DEF CallsOK
  <2> QED BY <1>1, <2>4, <2>9, CallerMoves
<1> QED BY <1>1, <1>4, <1>5

LEMMA AskScoutStep == ASSUME JudgeInv, NEW c \in Caller, Judge!AskScout(c) PROVE JudgeInv'
<1> DEFINE versions == Judge!Versions(ScoutCode)
           version == IF versions = {} THEN 0 ELSE CHOOSE w \in versions : TRUE
<1>1. /\ call[c].pc = "scout"
      /\ UNCHANGED <<value, quality, execution, state, guardian, scout, commit>>
  BY DEF Judge!AskScout, Judge!Snapshot
<1>2. call \in [Caller -> CallRows] /\ call[c] \in CallRows
  BY DEF JudgeInv, CallsOK
<1>3. state # Judge!Null /\ guardian # Judge!Null /\ call[c].guardian = guardian
  BY <1>1 DEF JudgeInv, CallsOK, HeldBy
<1>4. \/ scout # Judge!Null /\ call' = [Judge!Goto(c, "done") EXCEPT ![c].scout = scout]
      \/ call' = Judge!Goto(c, "failed")
      \/ /\ ~ (Cardinality(versions) > 1)
         /\ call' = [Judge!Goto(c, "insertScout") EXCEPT ![c].scout = ScoutOf(c, version)]
  BY <1>3, SameCardinality DEF Judge!AskScout, ScoutOf
<1>5. CASE scout # Judge!Null /\ call' = [Judge!Goto(c, "done") EXCEPT ![c].scout = scout]
  <2> DEFINE held == [call[c] EXCEPT !.pc = "done", !.scout = scout]
  <2>1. call' = [call EXCEPT ![c] = held]
    BY <1>2, <1>5 DEF Judge!Goto
  <2>2. held \in CallRows /\ held.pc = "done" /\ held.guardian = guardian /\ held.scout = scout
    BY <1>2, <1>3 DEF CallRows, Points, JudgeInv, StoredOK
  <2> HIDE DEF held
  <2>3. call'[c] = held
    BY <1>2, <2>1
  <2>4. HeldBy(c)'
    BY <1>1, <1>3, <1>5, <2>2, <2>3 DEF HeldBy
  <2> QED BY <1>1, <1>3, <2>1, <2>2, <2>4, OneCallerMoves
<1>6. CASE call' = Judge!Goto(c, "failed")
  <2> DEFINE held == [call[c] EXCEPT !.pc = "failed"]
  <2>1. call' = [call EXCEPT ![c] = held]
    BY <1>2, <1>6 DEF Judge!Goto
  <2>2. held \in CallRows /\ held.pc = "failed"
    BY <1>2 DEF CallRows, Points
  <2> HIDE DEF held
  <2>3. call'[c] = held
    BY <1>2, <2>1
  <2>4. HeldBy(c)'
    BY <1>1, <1>3, <2>2, <2>3 DEF HeldBy
  <2> QED BY <1>1, <1>3, <2>1, <2>2, <2>4, OneCallerMoves
<1>7. CASE /\ ~ (Cardinality(versions) > 1)
           /\ call' = [Judge!Goto(c, "insertScout") EXCEPT ![c].scout = ScoutOf(c, version)]
  <2>1. version \in {w \in Version \cup {0} : AllOf(ScoutCode, w)}
    BY <1>3, <1>7, VersionOfScout
  <2> HIDE DEF version
  <2> DEFINE s == ScoutOf(c, version)
             held == [call[c] EXCEPT !.pc = "insertScout", !.scout = s]
  <2>2. s \in ScoutRows
    BY <2>1 DEF ScoutRows
  <2>3. call' = [call EXCEPT ![c] = held]
    BY <1>2, <1>7 DEF Judge!Goto
  <2> HIDE DEF s
  <2>4. held \in CallRows /\ held.pc = "insertScout" /\ held.guardian = guardian /\ held.scout = s
    BY <1>2, <1>3, <2>2 DEF CallRows, Points
  <2> HIDE DEF held
  <2>5. call'[c] = held /\ ScoutRows' = ScoutRows
    BY <1>1, <1>2, <2>3, RowsStay
  <2>6. HeldBy(c)'
    BY <1>1, <1>3, <2>2, <2>4, <2>5 DEF HeldBy
  <2> QED BY <1>1, <1>3, <2>3, <2>4, <2>6, OneCallerMoves
<1> QED BY <1>4, <1>5, <1>6, <1>7

LEMMA InsertScoutStep ==
  ASSUME JudgeInv, NEW c \in Caller, Judge!InsertScout(c) PROVE JudgeInv'
<1>1. /\ call[c].pc = "insertScout"
      /\ UNCHANGED <<value, quality, execution, state, guardian, commit>>
      /\ \/ scout = Judge!Null /\ scout' = call[c].scout /\ call' = Judge!Goto(c, "done")
         \/ scout' = scout /\ call' = Judge!Goto(c, "failed")
  BY DEF Judge!InsertScout, Judge!Snapshot
<1>2. call \in [Caller -> CallRows] /\ call[c] \in CallRows
  BY DEF JudgeInv, CallsOK
<1>3. /\ state # Judge!Null /\ guardian # Judge!Null /\ call[c].guardian = guardian
      /\ call[c].scout \in ScoutRows
  BY <1>1 DEF JudgeInv, CallsOK, HeldBy
<1>4. CASE scout' = scout /\ call' = Judge!Goto(c, "failed")
  <2> DEFINE held == [call[c] EXCEPT !.pc = "failed"]
  <2>1. call' = [call EXCEPT ![c] = held]
    BY <1>2, <1>4 DEF Judge!Goto
  <2>2. held \in CallRows /\ held.pc = "failed"
    BY <1>2 DEF CallRows, Points
  <2> HIDE DEF held
  <2>3. call'[c] = held
    BY <1>2, <2>1
  <2>4. HeldBy(c)'
    BY <1>1, <1>3, <2>2, <2>3 DEF HeldBy
  <2> QED BY <1>1, <1>3, <1>4, <2>1, <2>2, <2>4, OneCallerMoves
<1>5. CASE scout = Judge!Null /\ scout' = call[c].scout /\ call' = Judge!Goto(c, "done")
  <2>1. scout' # Judge!Null
    BY <1>3, <1>5, RowsAreRows DEF ScoutRows
  <2>2. GuardianRows' = GuardianRows /\ ScoutRows' = ScoutRows
    BY <1>1, RowsStay
  <2>3. StoredOK'
    BY <1>1, <1>3, <1>5, <2>2 DEF JudgeInv, StoredOK
  <2>4. \A d \in Caller : call[d].pc # "done"
    BY <1>5 DEF JudgeInv, CallsOK, HeldBy
  <2>5. \A d \in Caller : /\ call'[d].guardian = call[d].guardian /\ call'[d].scout = call[d].scout
                          /\ call'[d].pc = IF d = c THEN "done" ELSE call[d].pc
                          /\ call'[d] \in CallRows'
    <3> SUFFICES ASSUME NEW d \in Caller
                 PROVE  /\ call'[d].guardian = call[d].guardian /\ call'[d].scout = call[d].scout
                        /\ call'[d].pc = IF d = c THEN "done" ELSE call[d].pc
                        /\ call'[d] \in CallRows'
      OBVIOUS
    <3>1. call'[d] = IF d = c THEN [call[d] EXCEPT !.pc = "done"] ELSE call[d]
      BY <1>2, <1>5 DEF Judge!Goto
    <3>2. call[d] \in CallRows
      BY <1>2
    <3> QED BY <2>2, <3>1, <3>2 DEF CallRows, Points
  <2>6. call' \in [Caller -> CallRows']
    BY <1>2, <1>5, <2>5 DEF Judge!Goto
  <2>7. ASSUME NEW d \in Caller PROVE HeldBy(d)'
    <3>1. HeldBy(d)
      BY DEF JudgeInv, CallsOK
    <3>2. CASE d = c
      BY <1>1, <1>3, <1>5, <2>1, <2>5, <3>2 DEF HeldBy
    <3>3. CASE d # c
      BY <1>1, <2>2, <2>4, <2>5, <3>1, <3>3 DEF HeldBy
    <3> QED BY <3>2, <3>3
  <2>8. CallsOK'
    BY <1>1, <1>3, <2>5, <2>6, <2>7 DEF CallsOK
  <2> QED BY <1>1, <2>3, <2>8, CallerMoves
<1> QED BY <1>1, <1>4, <1>5

LEMMA RetryStep == ASSUME JudgeInv, NEW c \in Caller, Judge!Retry(c) PROVE JudgeInv'
<1>1. /\ guardian # Judge!Null /\ call' = Judge!Goto(c, "idle")
      /\ UNCHANGED <<value, quality, execution, state, guardian, scout, commit>>
  BY DEF Judge!Retry, Judge!Snapshot
<1>2. call \in [Caller -> CallRows] /\ call[c] \in CallRows
  BY DEF JudgeInv, CallsOK
<1>3. state # Judge!Null
  BY <1>1 DEF JudgeInv, StoredOK
<1> DEFINE held == [call[c] EXCEPT !.pc = "idle"]
<1>4. call' = [call EXCEPT ![c] = held]
  BY <1>1, <1>2 DEF Judge!Goto
<1>5. held \in CallRows /\ held.pc = "idle"
  BY <1>2 DEF CallRows, Points
<1> HIDE DEF held
<1>6. call'[c] = held
  BY <1>2, <1>4
<1>7. HeldBy(c)'
  BY <1>1, <1>5, <1>6 DEF HeldBy
<1> QED BY <1>1, <1>3, <1>4, <1>5, <1>7, OneCallerMoves

LEMMA OfficialStep ==
  ASSUME JudgeInv, NEW g \in Version, NEW s \in Version, Judge!Commit(g, s) PROVE JudgeInv'
<1>1. UNCHANGED <<value, quality, execution, state, guardian, scout, call>>
  BY DEF Judge!Commit, Judge!Snapshot
<1>2. PICK available \in BOOLEAN : commit' = CommitOf(available, g, s)
  BY DEF Judge!Commit, CommitOf
<1>3. CommitOf(available, g, s)' = CommitOf(available, g, s)
  <2>1. \A t : Judge!OfficialGuardian(available, t)' = Judge!OfficialGuardian(available, t)
    BY <1>1 DEF Judge!OfficialGuardian
  <2>2. \A e, t : Judge!OfficialScout(e, t)' = Judge!OfficialScout(e, t)
    BY <1>1 DEF Judge!OfficialScout
  <2> QED BY <2>1, <2>2 DEF CommitOf
<1>4. CommitOK'
  BY <1>2, <1>3 DEF CommitOK
<1>5. SnapshotOK' /\ StateOK'
  BY <1>1 DEF JudgeInv, SnapshotOK, StateOK, Judge!Code
<1>6. GuardianRows' = GuardianRows /\ ScoutRows' = ScoutRows
  BY <1>1, RowsStay
<1>7. StoredOK' /\ CallsOK'
  BY <1>1, <1>6 DEF JudgeInv, StoredOK, CallsOK, CallRows, HeldBy
<1> QED BY <1>4, <1>5, <1>7 DEF JudgeInv, Judge!EvaluationAssumption

THEOREM JudgeInvariance == Judge!EvaluationAssumption /\ Judge!Spec => []JudgeInv
<1>1. JudgeInv /\ [Judge!Next]_(Judge!vars) => JudgeInv'
  <2> SUFFICES ASSUME JudgeInv, [Judge!Next]_(Judge!vars) PROVE JudgeInv'
    OBVIOUS
  <2>1. CASE UNCHANGED Judge!vars
    <3>1. UNCHANGED <<value, quality, execution, state, guardian, scout, commit, call>>
      BY <2>1 DEF Judge!vars
    <3>2. GuardianRows' = GuardianRows /\ ScoutRows' = ScoutRows
      BY <3>1, RowsStay
    <3>3. StoredOK' /\ CallsOK'
      BY <3>1, <3>2 DEF JudgeInv, StoredOK, CallsOK, CallRows, HeldBy
    <3> QED BY <3>1, <3>3, CallerMoves
  <2>2. ASSUME NEW f \in DOMAIN Judge!CodesOf, NEW v \in Version, Judge!RecordMetrics(f, v)
        PROVE  JudgeInv'
    BY <2>2, RecordStep
  <2>3. CASE Judge!EvaluateState
    BY <2>3, StateStep
  <2>4. ASSUME NEW c \in Caller, \/ Judge!AskGuardian(c) \/ Judge!InsertGuardian(c)
                                 \/ Judge!AskScout(c) \/ Judge!InsertScout(c) \/ Judge!Retry(c)
        PROVE  JudgeInv'
    BY <2>4, AskGuardianStep, InsertGuardianStep, AskScoutStep, InsertScoutStep, RetryStep
  <2>5. ASSUME NEW g \in Version, NEW s \in Version, Judge!Commit(g, s) PROVE JudgeInv'
    BY <2>5, OfficialStep
  <2> QED BY <2>1, <2>2, <2>3, <2>4, <2>5 DEF Judge!Next
<1> QED BY <1>1, JudgeInit, PTL DEF Judge!Spec

\* A stored evaluation is that of a version, judged on the stored state.
LEMMA StoredGuardian ==
  ASSUME JudgeInv, guardian # Judge!Null
  PROVE  /\ state # Judge!Null /\ guardian.by \in Caller /\ guardian.version \in Version \cup {0}
         /\ Blinded \/ AllOf(GuardianCode, guardian.version)
         /\ guardian.decision = Judged(Judge!Used, Judge!Threshold(guardian.version), state.available, quality)
BY DEF JudgeInv, StoredOK, GuardianRows, GuardianOf

LEMMA StoredScout ==
  ASSUME JudgeInv, scout # Judge!Null
  PROVE  /\ guardian # Judge!Null /\ scout.by \in Caller /\ scout.version \in Version \cup {0}
         /\ AllOf(ScoutCode, scout.version)
         /\ scout.decision = Judge!ScoutDecision([k \in ScoutCode \cap DOMAIN state.facts |-> value[k]],
              Judge!Threshold(scout.version), guardian.decision.effect)
BY DEF JudgeInv, StoredOK, ScoutRows, ScoutOf

\* The metrics a state uses are those of the snapshot.
LEMMA UsedValues ==
  ASSUME JudgeInv, state # Judge!Null
  PROVE  /\ DOMAIN Judge!Used = DOMAIN state.facts /\ DOMAIN state.facts \subseteq DOMAIN value
         /\ DOMAIN value \subseteq Judge!Code
         /\ Judge!Used \in [DOMAIN state.facts -> Value] /\ Judge!Used \in [DOMAIN state.facts -> Nat]
         /\ \A c \in DOMAIN state.facts : Judge!Used[c] = value[c]
BY DEF JudgeInv, SnapshotOK, StateOK, Judge!Used, Judge!EvaluationAssumption

\* Evaluations follow one another: facts, state, Guardian, Scout.
THEOREM JudgeTypes == Judge!EvaluationAssumption /\ Judge!Spec => []Judge!TypeOK
<1>1. ASSUME JudgeInv PROVE Judge!TypeOK
  <2>1. value \in UNION {[given -> Value] : given \in SUBSET Judge!Code}
    BY <1>1 DEF JudgeInv, SnapshotOK
  <2>2. guardian # Judge!Null => state # Judge!Null /\ guardian.by \in Caller
    BY <1>1, StoredGuardian
  <2>3. scout # Judge!Null => guardian # Judge!Null /\ scout.by \in Caller
    BY <1>1, StoredScout
  <2> QED BY <1>1, <2>1, <2>2, <2>3 DEF JudgeInv, SnapshotOK, StateOK, Judge!TypeOK
<1> QED BY <1>1, JudgeInvariance, PTL

\* GuardianService.evaluate and ScoutService.evaluate answer with what is stored, and what was
\* stored stays: of two callers the unique keys let one insert.
THEOREM EvaluationsAreStored == Judge!EvaluationAssumption /\ Judge!Spec => []Judge!AnswersAreStored
<1>1. ASSUME JudgeInv PROVE Judge!AnswersAreStored
  BY <1>1 DEF JudgeInv, CallsOK, HeldBy, Judge!AnswersAreStored
<1> QED BY <1>1, JudgeInvariance, PTL

\* resolve_thresholds_for_facts: every metric is judged by the version it was recorded with.
THEOREM VersionsRespected == Judge!EvaluationAssumption /\ Judge!Spec => []Judge!JudgedByItsVersion
<1>1. ASSUME JudgeInv PROVE Judge!JudgedByItsVersion
  <2>1. ASSUME guardian # Judge!Null, guardian.decision.effect # "PAUSE",
               NEW c \in GuardianCode \cap DOMAIN state.facts
        PROVE  c \in guardian.decision.matches <=> value[c] >= state.facts[c]
    <3> DEFINE t == Judge!Threshold(guardian.version)
    <3>1. guardian.decision = Judged(Judge!Used, t, state.available, quality) /\ state # Judge!Null
      BY <1>1, <2>1, StoredGuardian
    <3>2. /\ guardian.decision.matches = IF Blinded THEN {} ELSE Judge!Matches(GuardianCode, Judge!Used, t)
          /\ Blinded => guardian.decision.effect = "PAUSE"
      BY <1>1, <3>1, DecisionMeans DEF JudgeInv, Blinded
    <3>3. ~Blinded /\ state.facts[c] = guardian.version
      BY <1>1, <2>1, <3>2, StoredGuardian DEF AllOf
    <3>4. t[c] = guardian.version
      BY DEF Judge!Threshold, Judge!Code
    <3>5. c \in DOMAIN Judge!Used /\ Judge!Used[c] = value[c]
      BY <1>1, <3>1, UsedValues
    <3> HIDE DEF t
    <3> QED BY <3>2, <3>3, <3>4, <3>5 DEF Judge!Matches
  <2>2. ASSUME scout # Judge!Null, NEW c \in ScoutCode \cap DOMAIN state.facts
        PROVE  c \in scout.decision.tags <=> value[c] >= state.facts[c]
    <3> DEFINE t == Judge!Threshold(scout.version)
               m == [k \in ScoutCode \cap DOMAIN state.facts |-> value[k]]
    <3>1. scout.decision.tags = Judge!Matches(ScoutCode, m, t)
      BY <1>1, <2>2, StoredScout DEF Judge!ScoutDecision
    <3>2. state.facts[c] = scout.version
      BY <1>1, <2>2, StoredScout DEF AllOf
    <3>3. t[c] = scout.version /\ c \in DOMAIN m /\ m[c] = value[c]
      BY DEF Judge!Threshold, Judge!Code
    <3> HIDE DEF t, m
    <3> QED BY <3>1, <3>2, <3>3 DEF Judge!Matches
  <2> QED BY <2>1, <2>2 DEF Judge!JudgedByItsVersion
<1> QED BY <1>1, JudgeInvariance, PTL

\* guardian_decision: whatever the metrics, no worse input weakens what was decided.
THEOREM GuardianNeverWeakens == Judge!EvaluationAssumption /\ Judge!Spec => []Judge!WorseNeverAllowsMore
<1>1. ASSUME JudgeInv PROVE Judge!WorseNeverAllowsMore
  <2> DEFINE t == Judge!Threshold(guardian.version)
  <2>1. ASSUME guardian # Judge!Null, NEW w \in Judge!Worse(Judge!Used, quality)
        PROVE  Rank(guardian.decision.effect) <= Rank(Judged(w[1], t, state.available, w[2]).effect)
    <3>1. state # Judge!Null /\ guardian.decision = Judged(Judge!Used, t, state.available, quality)
      BY <1>1, <2>1, StoredGuardian
    <3>2. guardian.version \in Nat /\ state.available \in BOOLEAN /\ quality \in Quality
      BY <1>1, <2>1, <3>1, StoredGuardian DEF JudgeInv, StateOK, SnapshotOK, Judge!EvaluationAssumption
    <3>3. /\ w[1] \in UNION {[given -> Value] : given \in SUBSET DOMAIN Judge!Used}
          /\ \A c \in DOMAIN w[1] : w[1][c] >= Judge!Used[c]
          /\ w[2] \in Quality /\ \A i \in 1 .. 2 : Judge!Grade(w[2][i]) >= Judge!Grade(quality[i])
      BY <2>1 DEF Judge!Worse
    <3>4. PICK given \in SUBSET DOMAIN Judge!Used : w[1] \in [given -> Value]
      BY <3>3
    <3>5. w[1] \in [given -> Nat] /\ given \subseteq DOMAIN state.facts /\ DOMAIN w[1] = given
      BY <1>1, <3>1, <3>4, UsedValues DEF JudgeInv, Judge!EvaluationAssumption
    <3> DEFINE m == w[1]   p == w[2]   u == Judge!Used
    <3>6. /\ u \in [DOMAIN state.facts -> Nat] /\ m \in [given -> Nat] /\ p \in Quality
          /\ given \subseteq DOMAIN state.facts /\ \A c \in given : m[c] >= u[c]
          /\ \A i \in 1 .. 2 : Judge!Grade(p[i]) >= Judge!Grade(quality[i])
      BY <1>1, <3>1, <3>3, <3>5, UsedValues
    <3> HIDE DEF m, p, u
    <3>7. Rank(Judged(u, t, state.available, quality).effect) <= Rank(Judged(m, t, state.available, p).effect)
      BY <1>1, <3>2, <3>6, WorseIsStronger DEF JudgeInv
    <3> QED BY <3>1, <3>7 DEF m, p, u
  <2> QED BY <2>1 DEF Judge!WorseNeverAllowsMore, Rank, Judged
<1> QED BY <1>1, JudgeInvariance, PTL

\* ScoutService.evaluate: the opportunities seen in data that is not good enough are suppressed.
THEOREM UnfitSuppressed == Judge!EvaluationAssumption /\ Judge!Spec => []Judge!UnfitIsSuppressed
<1>1. ASSUME JudgeInv PROVE Judge!UnfitIsSuppressed
  <2> SUFFICES ASSUME scout # Judge!Null,
                      \/ quality[1] \in {"UNKNOWN", "UNHEALTHY"} \/ quality[2] \in {"UNKNOWN", "UNFIT"}
                      \/ ~(GuardianCode \subseteq DOMAIN state.facts) \/ ~state.available
               PROVE  scout.decision.suppressed
    BY DEF Judge!UnfitIsSuppressed
  <2>1. guardian # Judge!Null /\ scout.decision.suppressed = Judge!Blocking(guardian.decision.effect)
    BY <1>1, StoredScout DEF Judge!ScoutDecision
  <2>2. /\ state # Judge!Null
        /\ guardian.decision = Judged(Judge!Used, Judge!Threshold(guardian.version), state.available, quality)
    BY <1>1, <2>1, StoredGuardian
  <2>3. Blinded
    BY <1>1, <2>2, UsedValues DEF Blinded, Blind, Judge!Unavailable
  <2>4. guardian.decision.effect = "PAUSE"
    BY <1>1, <2>2, <2>3, DecisionMeans DEF JudgeInv, Blinded
  <2> QED BY <2>1, <2>4 DEF Judge!Blocking
<1> QED BY <1>1, JudgeInvariance, PTL

\* _insert_guardian of the commit decides as guardian_decision does.
LEMMA OfficialIsJudged ==
  ASSUME NEW available, NEW t
  PROVE  Judge!OfficialGuardian(available, t) = Judged(value, t, available, quality)
<1> DEFINE missing == GuardianCode \ DOMAIN value
           blind == \/ ~available \/ quality[1] \in {"UNKNOWN", "UNHEALTHY"}
                    \/ quality[2] \in {"UNKNOWN", "UNFIT"} \/ missing # {}
           met == {c \in GuardianCode \ missing : value[c] >= t[c]}
<1>1. blind <=> Judge!Unavailable(value, available, quality[1], quality[2])
  BY DEF Judge!Unavailable
<1>2. ~blind => met = Judge!Matches(GuardianCode, value, t)
  BY DEF Judge!Matches
<1>3. Judge!OfficialGuardian(available, t)
        = Judge!Decision(blind, Judge!Limited(quality[1], quality[2]), IF blind THEN {} ELSE met)
  BY DEF Judge!OfficialGuardian, Judge!Limited
<1>4. Judged(value, t, available, quality)
        = Judge!Decision(Judge!Unavailable(value, available, quality[1], quality[2]),
                         Judge!Limited(quality[1], quality[2]),
                         IF Judge!Unavailable(value, available, quality[1], quality[2]) THEN {}
                         ELSE Judge!Matches(GuardianCode, value, t))
  BY DEF Judged, Judge!GuardianDecision
<1> HIDE DEF blind, met
<1>5. CASE blind
  <2>1. Judge!Unavailable(value, available, quality[1], quality[2]) = TRUE /\ blind = TRUE
    BY <1>1, <1>5 DEF Judge!Unavailable, blind
  <2> QED BY <1>3, <1>4, <2>1
<1>6. CASE ~blind
  <2>1. Judge!Unavailable(value, available, quality[1], quality[2]) = FALSE /\ blind = FALSE
    BY <1>1, <1>6 DEF Judge!Unavailable, blind
  <2> QED BY <1>2, <1>3, <1>4, <2>1
<1> QED BY <1>5, <1>6

\* Given the same metrics and versions, the services and the OFFICIAL commit decide the same.
THEOREM ServicesDecideAsOfficial == Judge!EvaluationAssumption /\ Judge!Spec => []Judge!SameAsOfficial
<1>1. ASSUME JudgeInv PROVE Judge!SameAsOfficial
  <2> SUFFICES ASSUME commit # Judge!Null, state # Judge!Null, DOMAIN state.facts = DOMAIN value,
                      state.available = commit.available
               PROVE  /\ guardian # Judge!Null /\ (\A c \in GuardianCode \cap DOMAIN value :
                            state.facts[c] = commit.gversion) => guardian.decision = commit.guardian
                      /\ scout # Judge!Null /\ (\A c \in Judge!Code \cap DOMAIN value : state.facts[c] =
                            IF c \in GuardianCode THEN commit.gversion ELSE commit.sversion) =>
                           scout.decision = commit.scout
    BY DEF Judge!SameAsOfficial
  <2>1. PICK available \in BOOLEAN, g \in Version, s \in Version : commit = CommitOf(available, g, s)
    BY <1>1 DEF JudgeInv, CommitOK
  <2>2. /\ commit.gversion = g /\ commit.sversion = s /\ state.available = available
        /\ commit.guardian = Judged(value, Judge!Threshold(g), available, quality)
        /\ commit.scout = Judge!OfficialScout(commit.guardian.effect, Judge!Threshold(s))
    <3>1. Judge!OfficialGuardian(available, Judge!Threshold(g))
            = Judged(value, Judge!Threshold(g), available, quality)
      BY OfficialIsJudged
    <3> QED BY <2>1, <3>1 DEF CommitOf
  <2>3. Judge!Used = value
    BY <1>1 DEF JudgeInv, SnapshotOK, Judge!Used
  <2>4. ASSUME guardian # Judge!Null,
               \A c \in GuardianCode \cap DOMAIN value : state.facts[c] = g
        PROVE  guardian.decision = commit.guardian
    <3>1. /\ Blinded \/ AllOf(GuardianCode, guardian.version)
          /\ guardian.decision = Judged(value, Judge!Threshold(guardian.version), available, quality)
      BY <1>1, <2>2, <2>3, <2>4, StoredGuardian
    <3>2. CASE Blinded
      <4>1. Judge!Unavailable(value, available, quality[1], quality[2]) = TRUE
        BY <2>2, <2>3, <3>2 DEF Blinded, Blind, Judge!Unavailable
      <4>2. \A t : Judged(value, t, available, quality)
                     = Judge!Decision(TRUE, Judge!Limited(quality[1], quality[2]), {})
        BY <4>1 DEF Judged, Judge!GuardianDecision
      <4> QED BY <2>2, <3>1, <4>2
    <3>3. CASE ~Blinded
      <4>1. GuardianCode \subseteq DOMAIN value /\ GuardianCode # {}
        BY <1>1, <2>2, <2>3, <3>3
        DEF Blinded, Blind, Judge!Unavailable, JudgeInv, Judge!EvaluationAssumption
      <4>2. guardian.version = g
        BY <2>4, <3>1, <3>3, <4>1 DEF AllOf
      <4> QED BY <2>2, <3>1, <4>2
    <3> QED BY <3>2, <3>3
  <2>5. ASSUME scout # Judge!Null,
               \A c \in Judge!Code \cap DOMAIN value :
                 state.facts[c] = IF c \in GuardianCode THEN g ELSE s
        PROVE  scout.decision = commit.scout
    <3> DEFINE m == [k \in ScoutCode \cap DOMAIN state.facts |-> value[k]]
               t == Judge!Threshold(scout.version)
               tags == Judge!Matches(ScoutCode, m, t)
               official == {c \in ScoutCode \cap DOMAIN value : value[c] >= Judge!Threshold(s)[c]}
    <3>1. /\ guardian # Judge!Null /\ AllOf(ScoutCode, scout.version)
          /\ scout.decision = Judge!ScoutDecision(m, t, guardian.decision.effect)
      BY <1>1, <2>5, StoredScout
    <3>2. guardian.decision = commit.guardian
      BY <2>4, <2>5, <3>1 DEF Judge!Code
    <3>3. \A c \in ScoutCode \cap DOMAIN value : scout.version = s
      BY <1>1, <2>5, <3>1, FamiliesApart DEF JudgeInv, AllOf, Judge!Code
    <3>4. \A c \in ScoutCode : t[c] = scout.version /\ Judge!Threshold(s)[c] = s
      BY DEF Judge!Threshold, Judge!Code
    <3>5. DOMAIN m = ScoutCode \cap DOMAIN value /\ \A k \in DOMAIN m : m[k] = value[k]
      OBVIOUS
    <3> HIDE DEF m, t
    <3>6. tags = official
      BY <3>3, <3>4, <3>5 DEF Judge!Matches
    <3> HIDE DEF tags, official
    <3>7. Judge!ScoutDecision(m, t, guardian.decision.effect)
            = [tags |-> tags, status |-> Judge!Status(Judge!Cardinality(tags)),
               strength |-> Judge!Strength(Judge!Cardinality(tags)),
               suppressed |-> Judge!Blocking(guardian.decision.effect)]
      BY DEF Judge!ScoutDecision, tags
    <3>8. Judge!OfficialScout(commit.guardian.effect, Judge!Threshold(s))
            = [tags |-> official, status |-> Judge!Status(Judge!Cardinality(official)),
               strength |-> Judge!Strength(Judge!Cardinality(official)),
               suppressed |-> commit.guardian.effect \in {"SUPPRESS", "PAUSE"}]
      BY DEF Judge!OfficialScout, official
    <3>9. Judge!Blocking(guardian.decision.effect) = (commit.guardian.effect \in {"SUPPRESS", "PAUSE"})
      BY <3>2 DEF Judge!Blocking
    <3> QED BY <2>2, <3>1, <3>6, <3>7, <3>8, <3>9
  <2> QED BY <2>2, <2>4, <2>5
<1> QED BY <1>1, JudgeInvariance, PTL

(***************************************************************************)
(* The two rule services keep their promises together: types, versions,    *)
(* agreement with the official copy, suppression (guardian.py, scout.py).  *)
(***************************************************************************)
THEOREM RulesAreSound == Judge!EvaluationAssumption /\ Judge!Spec => []Judge!RulesSound
BY JudgeTypes, VersionsRespected, ServicesDecideAsOfficial, UnfitSuppressed, PTL DEF Judge!RulesSound

-----------------------------------------------------------------------------
(***************************************************************************)
(* The calibration of a pair of thresholds (Calibration), for any rules of *)
(* the tables, runs and shares: its counters are those of the runs it has  *)
(* looked at, and its verdict is one of the runs alone, so an attempt that *)
(* begins again ends with the same one.                                    *)
(***************************************************************************)
\* What the run i matches, is labelled for, and is blamed for.
Matched(i) == Calibrator!Decide(runs[i]).matches \cup Calibrator!RawScout(runs[i])
LabelsOf(i) == Calibrator!Labels(runs[i])
Blamed(i) ==
  \/ Calibrator!RawScout(runs[i]) # {} /\ runs[i].fitness \in {"UNFIT", "FIT_WITH_LIMITATIONS"}
  \/ Calibrator!RawGuardian(runs[i]) # {} /\ runs[i].fitness = "UNFIT"
  \/ Calibrator!RawScout(runs[i]) # {} /\ Calibrator!Blocking(Calibrator!Decide(runs[i]).effect)
  \/ Matched(i) # {} /\ ~runs[i].continuous

\* Of the first k runs: those that match a rule, are labelled for it, are FIT.
MatchedIn(k, c) == {i \in 1 .. k : c \in Matched(i)}
LabelledIn(k, c) == {i \in 1 .. k : c \in LabelsOf(i)}
HitsIn(k, c) == {i \in 1 .. k : c \in Matched(i) \cap LabelsOf(i)}
FitIn(k) == {i \in 1 .. k : runs[i].fitness = "FIT"}

\* The verdict, without the counters.
Passes ==
  LET n == Len(runs)
  IN /\ \A i \in 1 .. n : runs[i].lineage /\ ~Blamed(i)
     /\ Cardinality(FitIn(n)) # 0
     /\ \A c \in GuardianCode : Cardinality(MatchedIn(n, c)) * 100 <= Cardinality(FitIn(n)) * GuardianShare
     /\ \A c \in ScoutCode : Cardinality(MatchedIn(n, c)) * 100 <= Cardinality(FitIn(n)) * ScoutShare
     /\ \A c \in Calibrator!Code : Cardinality(LabelledIn(n, c)) > 0 => Cardinality(HitsIn(n, c)) # 0

\* The counters of the first k runs.
Counted(k) ==
  /\ count = [c \in Calibrator!Code |-> Cardinality(MatchedIn(k, c))]
  /\ hits = [c \in Calibrator!Code |-> Cardinality(HitsIn(k, c))]
  /\ labelled = [c \in Calibrator!Code |-> Cardinality(LabelledIn(k, c))]
  /\ fit = Cardinality(FitIn(k))
  /\ \A i \in 1 .. k : runs[i].lineage

VerdictsOK ==
  /\ DOMAIN validation \in {{}, {"GUARDIAN"}, {"GUARDIAN", "SCOUT"}}
  /\ pc = "scout" => "GUARDIAN" \in DOMAIN validation
  /\ pc = "done" => DOMAIN validation = {"GUARDIAN", "SCOUT"}
  /\ \A f \in DOMAIN validation : validation[f] = IF Passes THEN "PASS" ELSE "FAIL"

CalibrationInv ==
  /\ Calibrator!CalibrationAssumption
  /\ Len(runs) \in Nat /\ DOMAIN runs = 1 .. Len(runs) /\ next \in 1 .. (Len(runs) + 1)
  /\ pc \in {"loop", "refused", "guardian", "scout", "done"}
  /\ \E k \in Nat : k = next - 1 /\ Counted(k)
  /\ pc = "loop" => (codes = {} <=> \A i \in 1 .. (next - 1) : ~Blamed(i))
  /\ pc \in {"guardian", "scout", "done"} => next = Len(runs) + 1 /\ (codes = {} <=> Passes)
  /\ VerdictsOK

LEMMA CalibratorCardinality == \A S : Calibrator!Cardinality(S) = Cardinality(S)
BY DEF Calibrator!Cardinality, Cardinality

\* A rule matches a run if the run has the metric, it meets the level, and a Guardian could judge.
LEMMA MatchedIsJudged ==
  ASSUME Calibrator!CalibrationAssumption, NEW i, NEW c \in Calibrator!Code
  PROVE  c \in Matched(i) <=> Calibrator!Judged(c, i)
<1>1. GuardianCode \cap ScoutCode = {}
  BY DEF Calibrator!CalibrationAssumption, Calibrator!GuardianRule, Calibrator!ScoutRule
<1>2. \A codesOf : codesOf \subseteq Calibrator!Code =>
        Calibrator!Matches(codesOf, runs[i].metrics, Calibrator!Threshold)
          = {x \in codesOf \cap DOMAIN runs[i].metrics : runs[i].metrics[x] >= Level}
  BY DEF Calibrator!Matches, Calibrator!Threshold
<1>3. Calibrator!RawScout(runs[i]) = {x \in ScoutCode \cap DOMAIN runs[i].metrics : runs[i].metrics[x] >= Level}
  BY <1>2 DEF Calibrator!RawScout, Calibrator!Code
<1> DEFINE U == Calibrator!Unavailable(runs[i].metrics, TRUE, "HEALTHY", runs[i].fitness)
<1>4. Calibrator!Decide(runs[i]).matches =
        IF U THEN {} ELSE {x \in GuardianCode \cap DOMAIN runs[i].metrics : runs[i].metrics[x] >= Level}
  <2>1. Calibrator!Decide(runs[i]).matches =
          IF U THEN {} ELSE Calibrator!Matches(GuardianCode, runs[i].metrics, Calibrator!Threshold)
    BY DEF Calibrator!Decide, Calibrator!GuardianDecision, Calibrator!Decision
  <2> QED BY <1>2, <2>1 DEF Calibrator!Code
<1> HIDE DEF U
<1>5. Calibrator!Judged(c, i) <=> /\ c \in DOMAIN runs[i].metrics /\ runs[i].metrics[c] >= Level
                                  /\ c \in GuardianCode => ~U
  BY DEF Calibrator!Judged, U
<1> QED BY <1>1, <1>3, <1>4, <1>5 DEF Matched, Calibrator!Code

\* One run more.
LEMMA OneMore ==
  ASSUME NEW k \in Nat \ {0}, NEW T \in SUBSET (1 .. k), NEW R, \A i : i \in R <=> i \in T /\ i \in 1 .. (k - 1)
  PROVE  Cardinality(T) = Cardinality(R) + IF k \in T THEN 1 ELSE 0
<1>1. IsFiniteSet(T) /\ Cardinality(T) \in Nat
  <2>1. IsFiniteSet(1 .. k)
    BY FS_Interval
  <2> QED BY <2>1, FS_Subset, FS_CardinalityType
<1>2. R = T \ {k}
  <2>1. \A i \in 1 .. k : i \in 1 .. (k - 1) <=> i # k
    OBVIOUS
  <2> QED BY <2>1
<1>3. Cardinality(R) = IF k \in T THEN Cardinality(T) - 1 ELSE Cardinality(T)
  BY <1>1, <1>2, FS_RemoveElement
<1> QED BY <1>1, <1>3

\* The sets of runs that are counted are finite.
LEMMA CountsAreNumbers ==
  ASSUME NEW k \in Nat, NEW T \in SUBSET (1 .. k)
  PROVE  IsFiniteSet(T) /\ Cardinality(T) \in Nat /\ Cardinality(T) <= k
<1>1. IsFiniteSet(1 .. k) /\ Cardinality(1 .. k) = k
  BY FS_Interval
<1> QED BY <1>1, FS_Subset, FS_CardinalityType

LEMMA RunsKept ==
  ASSUME UNCHANGED runs
  PROVE  /\ \A i : Matched(i)' = Matched(i) /\ LabelsOf(i)' = LabelsOf(i) /\ (Blamed(i)' <=> Blamed(i))
         /\ \A k, c : /\ MatchedIn(k, c)' = MatchedIn(k, c) /\ LabelledIn(k, c)' = LabelledIn(k, c)
                      /\ HitsIn(k, c)' = HitsIn(k, c)
         /\ \A k : FitIn(k)' = FitIn(k)
         /\ Passes' <=> Passes
<1>1. \A i : Matched(i)' = Matched(i) /\ LabelsOf(i)' = LabelsOf(i) /\ (Blamed(i)' <=> Blamed(i))
  BY DEF Matched, LabelsOf, Blamed
<1>2. /\ \A k, c : /\ MatchedIn(k, c)' = MatchedIn(k, c) /\ LabelledIn(k, c)' = LabelledIn(k, c)
                   /\ HitsIn(k, c)' = HitsIn(k, c)
      /\ \A k : FitIn(k)' = FitIn(k)
  BY <1>1 DEF MatchedIn, LabelledIn, HitsIn, FitIn
<1>3. Passes' <=> Passes
  BY <1>1, <1>2 DEF Passes
<1> QED BY <1>1, <1>2, <1>3

\* Of no run nothing is counted.
LEMMA NothingCounted ==
  /\ \A c : /\ Cardinality(MatchedIn(0, c)) = 0 /\ Cardinality(LabelledIn(0, c)) = 0
            /\ Cardinality(HitsIn(0, c)) = 0
  /\ Cardinality(FitIn(0)) = 0
<1>1. \A c : MatchedIn(0, c) = {} /\ LabelledIn(0, c) = {} /\ HitsIn(0, c) = {}
  BY DEF MatchedIn, LabelledIn, HitsIn
<1>2. FitIn(0) = {} /\ Cardinality({}) = 0
  BY FS_EmptySet DEF FitIn
<1> QED BY <1>1, <1>2

\* Nothing of the runs, the counters or the verdicts has changed.
LEMMA CountedStays ==
  ASSUME NEW k, Counted(k), UNCHANGED << runs, count, hits, labelled, fit >>
  PROVE  Counted(k)'
BY RunsKept DEF Counted

\* What of the invariant follows when the runs and the verdicts stay.
LEMMA VerdictsStay ==
  ASSUME CalibrationInv, UNCHANGED << runs, validation >>, pc' \in {"loop", "refused", "guardian"}
  PROVE  VerdictsOK'
BY RunsKept DEF CalibrationInv, VerdictsOK

\* The sets of the first k runs, and of one run less.
LEMMA CountedSets ==
  ASSUME NEW k \in Nat \ {0}, NEW c
  PROVE  /\ Cardinality(MatchedIn(k, c)) = Cardinality(MatchedIn(k - 1, c)) + IF c \in Matched(k) THEN 1 ELSE 0
         /\ Cardinality(HitsIn(k, c)) = Cardinality(HitsIn(k - 1, c)) + IF c \in Matched(k) \cap LabelsOf(k) THEN 1 ELSE 0
         /\ Cardinality(LabelledIn(k, c)) = Cardinality(LabelledIn(k - 1, c)) + IF c \in LabelsOf(k) THEN 1 ELSE 0
         /\ Cardinality(FitIn(k)) = Cardinality(FitIn(k - 1)) + IF runs[k].fitness = "FIT" THEN 1 ELSE 0
<1>1. k \in 1 .. k /\ \A i \in 1 .. (k - 1) : i \in 1 .. k
  OBVIOUS
<1>2. Cardinality(MatchedIn(k, c)) = Cardinality(MatchedIn(k - 1, c)) + IF c \in Matched(k) THEN 1 ELSE 0
  <2>1. /\ MatchedIn(k, c) \in SUBSET (1 .. k) /\ (k \in MatchedIn(k, c) <=> c \in Matched(k))
        /\ \A i : i \in MatchedIn(k - 1, c) <=> i \in MatchedIn(k, c) /\ i \in 1 .. (k - 1)
    BY <1>1 DEF MatchedIn
  <2> QED BY <2>1, OneMore
<1>3. Cardinality(HitsIn(k, c)) = Cardinality(HitsIn(k - 1, c)) + IF c \in Matched(k) \cap LabelsOf(k) THEN 1 ELSE 0
  <2>1. /\ HitsIn(k, c) \in SUBSET (1 .. k) /\ (k \in HitsIn(k, c) <=> c \in Matched(k) \cap LabelsOf(k))
        /\ \A i : i \in HitsIn(k - 1, c) <=> i \in HitsIn(k, c) /\ i \in 1 .. (k - 1)
    BY <1>1 DEF HitsIn
  <2> QED BY <2>1, OneMore
<1>4. Cardinality(LabelledIn(k, c)) = Cardinality(LabelledIn(k - 1, c)) + IF c \in LabelsOf(k) THEN 1 ELSE 0
  <2>1. /\ LabelledIn(k, c) \in SUBSET (1 .. k) /\ (k \in LabelledIn(k, c) <=> c \in LabelsOf(k))
        /\ \A i : i \in LabelledIn(k - 1, c) <=> i \in LabelledIn(k, c) /\ i \in 1 .. (k - 1)
    BY <1>1 DEF LabelledIn
  <2> QED BY <2>1, OneMore
<1>5. Cardinality(FitIn(k)) = Cardinality(FitIn(k - 1)) + IF runs[k].fitness = "FIT" THEN 1 ELSE 0
  <2>1. /\ FitIn(k) \in SUBSET (1 .. k) /\ (k \in FitIn(k) <=> runs[k].fitness = "FIT")
        /\ \A i : i \in FitIn(k - 1) <=> i \in FitIn(k) /\ i \in 1 .. (k - 1)
    BY <1>1 DEF FitIn
  <2> QED BY <2>1, OneMore
<1> QED BY <1>2, <1>3, <1>4, <1>5

\* One run is looked at: the counters take it in, and the failures have its blame.
LEMMA CountStep == ASSUME CalibrationInv, Calibrator!Count PROVE CalibrationInv'
<1>1. /\ pc = "loop" /\ next <= Len(runs) /\ runs[next].lineage
      /\ UNCHANGED << runs, pc, validation >> /\ next' = next + 1
  BY DEF Calibrator!Count
<1>2. /\ count' = Calibrator!Plus(count, Matched(next))
      /\ hits' = Calibrator!Plus(hits, Matched(next) \cap LabelsOf(next))
      /\ labelled' = Calibrator!Plus(labelled, LabelsOf(next))
      /\ fit' = fit + IF runs[next].fitness = "FIT" THEN 1 ELSE 0
  BY DEF Calibrator!Count, Matched, LabelsOf
<1>3. /\ Len(runs) \in Nat /\ next \in Nat \ {0} /\ next' - 1 = next /\ next - 1 \in Nat
      /\ (codes = {} <=> \A i \in 1 .. (next - 1) : ~Blamed(i))
  BY <1>1 DEF CalibrationInv
<1> PICK k : k = next
  OBVIOUS
<1>4. k = next /\ k \in Nat \ {0} /\ Counted(k - 1) /\ \A i \in 1 .. k : i \in 1 .. (k - 1) \/ i = k
  BY <1>3 DEF CalibrationInv
<1>5. /\ count' = [c \in Calibrator!Code |-> Cardinality(MatchedIn(k, c))]
      /\ hits' = [c \in Calibrator!Code |-> Cardinality(HitsIn(k, c))]
      /\ labelled' = [c \in Calibrator!Code |-> Cardinality(LabelledIn(k, c))]
      /\ fit' = Cardinality(FitIn(k))
  <2>1. count' = [c \in Calibrator!Code |-> Cardinality(MatchedIn(k, c))]
    BY <1>2, <1>4, CountedSets DEF Counted, Calibrator!Plus
  <2>2. hits' = [c \in Calibrator!Code |-> Cardinality(HitsIn(k, c))]
    BY <1>2, <1>4, CountedSets DEF Counted, Calibrator!Plus
  <2>3. labelled' = [c \in Calibrator!Code |-> Cardinality(LabelledIn(k, c))]
    BY <1>2, <1>4, CountedSets DEF Counted, Calibrator!Plus
  <2>4. fit' = Cardinality(FitIn(k))
    BY <1>2, <1>4, CountedSets DEF Counted
  <2> QED BY <2>1, <2>2, <2>3, <2>4
<1>6. \E m \in Nat : m = next' - 1 /\ Counted(m)'
  <2>1. /\ count' = [c \in Calibrator!Code |-> Cardinality(MatchedIn(k, c)')]
        /\ hits' = [c \in Calibrator!Code |-> Cardinality(HitsIn(k, c)')]
        /\ labelled' = [c \in Calibrator!Code |-> Cardinality(LabelledIn(k, c)')]
        /\ fit' = Cardinality(FitIn(k)')
    BY <1>1, <1>5, RunsKept
  <2>2. \A i \in 1 .. k : runs'[i].lineage
    BY <1>1, <1>4 DEF Counted
  <2>3. Counted(k)'
    BY <2>1, <2>2 DEF Counted
  <2> QED BY <1>3, <1>4, <2>3
<1>7. codes' = {} <=> \A i \in 1 .. k : ~Blamed(i)
  <2>1. codes' = {} <=> codes = {} /\ ~Blamed(next)
    BY DEF Calibrator!Count, Calibrator!When, Blamed, Matched
  <2>2. k \in 1 .. k /\ \A i \in 1 .. (k - 1) : i \in 1 .. k
    BY <1>4
  <2> QED BY <1>3, <1>4, <2>1, <2>2
<1>8. VerdictsOK'
  BY <1>1, VerdictsStay
<1>9. next' \in 1 .. (Len(runs) + 1)
  BY <1>1, <1>3
<1>10. codes' = {} <=> \A i \in 1 .. (next' - 1) : ~Blamed(i)'
  BY <1>1, <1>3, <1>4, <1>7, RunsKept
<1> QED BY <1>1, <1>6, <1>8, <1>9, <1>10 DEF CalibrationInv

LEMMA RefuseRunStep == ASSUME CalibrationInv, Calibrator!RefuseRun PROVE CalibrationInv'
<1>1. pc' = "refused" /\ UNCHANGED << runs, next, count, hits, labelled, fit, codes, validation >>
  BY DEF Calibrator!RefuseRun
<1>2. \E k \in Nat : k = next' - 1 /\ Counted(k)'
  BY <1>1, CountedStays DEF CalibrationInv
<1>3. VerdictsOK'
  BY <1>1, VerdictsStay
<1> QED BY <1>1, <1>2, <1>3 DEF CalibrationInv

\* The failures at the end are none exactly if the runs themselves pass.
LEMMA ConcludeStep == ASSUME CalibrationInv, Calibrator!Conclude PROVE CalibrationInv'
<1>1. /\ pc = "loop" /\ next > Len(runs) /\ pc' = "guardian"
      /\ UNCHANGED << runs, next, count, hits, labelled, fit, validation >>
  BY DEF Calibrator!Conclude
<1> PICK n : n = Len(runs)
  OBVIOUS
<1>2. /\ n = Len(runs) /\ n \in Nat /\ next = n + 1 /\ DOMAIN runs = 1 .. n /\ Counted(n)
      /\ codes = {} <=> \A i \in 1 .. n : ~Blamed(i)
      /\ GuardianShare \in Nat /\ ScoutShare \in Nat
  <2>1. next = n + 1 /\ next - 1 = n
    BY <1>1 DEF CalibrationInv
  <2> QED BY <1>1, <2>1 DEF CalibrationInv, Calibrator!CalibrationAssumption
<1>3. /\ \A c \in Calibrator!Code : /\ count[c] = Cardinality(MatchedIn(n, c)) /\ count[c] \in Nat
                                    /\ hits[c] = Cardinality(HitsIn(n, c))
                                    /\ labelled[c] = Cardinality(LabelledIn(n, c))
      /\ fit = Cardinality(FitIn(n)) /\ fit \in Nat
  <2>1. \A c : MatchedIn(n, c) \in SUBSET (1 .. n) /\ FitIn(n) \in SUBSET (1 .. n)
    BY DEF MatchedIn, FitIn
  <2>2. \A c : Cardinality(MatchedIn(n, c)) \in Nat /\ Cardinality(FitIn(n)) \in Nat
    BY <1>2, <2>1, CountsAreNumbers
  <2> QED BY <1>2, <2>2 DEF Counted
<1>4. codes' = {} <=>
        /\ codes = {} /\ fit # 0
        /\ \A c \in GuardianCode : ~(count[c] * 100 > fit * GuardianShare)
        /\ \A c \in ScoutCode : ~(count[c] * 100 > fit * ScoutShare)
        /\ \A c \in GuardianCode : ~(labelled[c] > 0 /\ hits[c] = 0)
        /\ \A c \in ScoutCode : ~(labelled[c] > 0 /\ hits[c] = 0)
  <2> DEFINE A == fit = 0
             B == fit # 0 /\ \E c \in GuardianCode : count[c] * 100 > fit * GuardianShare
             C == fit # 0 /\ \E c \in ScoutCode : count[c] * 100 > fit * ScoutShare
             D == \E c \in GuardianCode : labelled[c] > 0 /\ hits[c] = 0
             E == \E c \in ScoutCode : labelled[c] > 0 /\ hits[c] = 0
  <2>1. codes' = codes \cup Calibrator!When(A, "NO_FIT_EVALUATIONS") \cup Calibrator!When(B, "GUARDIAN_ALWAYS_ON")
                       \cup Calibrator!When(C, "SCOUT_ALWAYS_ON") \cup Calibrator!When(D, "GUARDIAN_NEVER_ON_STRESSED")
                       \cup Calibrator!When(E, "SCOUT_NEVER_ON_STRONG_BROAD")
    BY DEF Calibrator!Conclude
  <2> HIDE DEF A, B, C, D, E
  <2>2. codes' = {} <=> codes = {} /\ ~A /\ ~B /\ ~C /\ ~D /\ ~E
    BY <2>1 DEF Calibrator!When
  <2> QED BY <2>2 DEF A, B, C, D, E
<1>5. \A c \in Calibrator!Code :
        /\ ~(count[c] * 100 > fit * GuardianShare) <=> Cardinality(MatchedIn(n, c)) * 100 <= Cardinality(FitIn(n)) * GuardianShare
        /\ ~(count[c] * 100 > fit * ScoutShare) <=> Cardinality(MatchedIn(n, c)) * 100 <= Cardinality(FitIn(n)) * ScoutShare
        /\ ~(labelled[c] > 0 /\ hits[c] = 0) <=> (Cardinality(LabelledIn(n, c)) > 0 => Cardinality(HitsIn(n, c)) # 0)
  <2> TAKE c \in Calibrator!Code
  <2>1. \A x, y \in Nat : ~(x > y) <=> x <= y
    OBVIOUS
  <2>2. count[c] * 100 \in Nat /\ fit * GuardianShare \in Nat /\ fit * ScoutShare \in Nat
    BY <1>2, <1>3
  <2> QED BY <1>3, <2>1, <2>2
<1>6. codes' = {} <=> Passes
  <2>1. GuardianCode \subseteq Calibrator!Code /\ ScoutCode \subseteq Calibrator!Code
        /\ \A c \in Calibrator!Code : c \in GuardianCode \/ c \in ScoutCode
    BY DEF Calibrator!Code
  <2>2. \A i \in 1 .. n : runs[i].lineage
    BY <1>2 DEF Counted
  <2>3. Passes <=> /\ codes = {} /\ Cardinality(FitIn(n)) # 0
                   /\ \A c \in GuardianCode : Cardinality(MatchedIn(n, c)) * 100 <= Cardinality(FitIn(n)) * GuardianShare
                   /\ \A c \in ScoutCode : Cardinality(MatchedIn(n, c)) * 100 <= Cardinality(FitIn(n)) * ScoutShare
                   /\ \A c \in Calibrator!Code : Cardinality(LabelledIn(n, c)) > 0 => Cardinality(HitsIn(n, c)) # 0
    BY <1>2, <2>2 DEF Passes
  <2> QED BY <1>3, <1>4, <1>5, <2>1, <2>3
<1>7. \E k \in Nat : k = next' - 1 /\ Counted(k)'
  <2>1. Counted(n)'
    BY <1>1, <1>2, CountedStays
  <2> QED BY <1>1, <1>2, <2>1
<1>8. VerdictsOK'
  BY <1>1, VerdictsStay
<1>9. /\ Len(runs') \in Nat /\ DOMAIN runs' = 1 .. Len(runs') /\ next' \in 1 .. (Len(runs') + 1)
      /\ next' = Len(runs') + 1 /\ (codes' = {} <=> Passes')
  BY <1>1, <1>2, <1>6, RunsKept
<1> QED BY <1>1, <1>7, <1>8, <1>9 DEF CalibrationInv

\* The verdict that is recorded is that of the runs, whichever attempt records it.
LEMMA RecordGuardianStep == ASSUME CalibrationInv, Calibrator!RecordGuardian PROVE CalibrationInv'
<1>1. /\ pc = "guardian" /\ pc' = "scout" /\ UNCHANGED << runs, next, count, hits, labelled, fit, codes >>
      /\ validation' = IF "GUARDIAN" \in DOMAIN validation THEN validation
                       ELSE [f \in DOMAIN validation \cup {"GUARDIAN"} |-> Calibrator!Verdict]
  BY DEF Calibrator!RecordGuardian
<1>2. Calibrator!Verdict = IF Passes THEN "PASS" ELSE "FAIL"
  BY <1>1 DEF CalibrationInv, Calibrator!Verdict
<1>3. VerdictsOK'
  BY <1>1, <1>2, RunsKept DEF CalibrationInv, VerdictsOK
<1>4. \E k \in Nat : k = next' - 1 /\ Counted(k)'
  BY <1>1, CountedStays DEF CalibrationInv
<1> QED BY <1>1, <1>3, <1>4, RunsKept DEF CalibrationInv

LEMMA RecordScoutStep == ASSUME CalibrationInv, Calibrator!RecordScout PROVE CalibrationInv'
<1>1. /\ pc = "scout" /\ pc' = "done" /\ UNCHANGED << runs, next, count, hits, labelled, fit, codes >>
      /\ validation' = [f \in {"GUARDIAN", "SCOUT"} |->
                          IF f \in DOMAIN validation THEN validation[f] ELSE Calibrator!Verdict]
  BY DEF Calibrator!RecordScout
<1>2. Calibrator!Verdict = IF Passes THEN "PASS" ELSE "FAIL"
  BY <1>1 DEF CalibrationInv, Calibrator!Verdict
<1>3. VerdictsOK'
  BY <1>1, <1>2, RunsKept DEF CalibrationInv, VerdictsOK
<1>4. \E k \in Nat : k = next' - 1 /\ Counted(k)'
  BY <1>1, CountedStays DEF CalibrationInv
<1> QED BY <1>1, <1>3, <1>4, RunsKept DEF CalibrationInv

LEMMA RerunStep == ASSUME CalibrationInv, Calibrator!Rerun PROVE CalibrationInv'
<1>1. /\ next' = 1 /\ codes' = {} /\ pc' = "loop" /\ UNCHANGED << runs, validation >>
      /\ count' = Calibrator!None /\ hits' = Calibrator!None /\ labelled' = Calibrator!None /\ fit' = 0
  BY DEF Calibrator!Rerun
<1>2. Counted(0)'
  <2>1. /\ count' = [c \in Calibrator!Code |-> 0] /\ hits' = [c \in Calibrator!Code |-> 0]
        /\ labelled' = [c \in Calibrator!Code |-> 0]
    BY <1>1 DEF Calibrator!None
  <2>2. /\ \A c : /\ Cardinality(MatchedIn(0, c)) = 0 /\ Cardinality(LabelledIn(0, c)) = 0
                  /\ Cardinality(HitsIn(0, c)) = 0
        /\ Cardinality(FitIn(0)) = 0
    BY NothingCounted
  <2>3. \A i \in 1 .. 0 : runs'[i].lineage
    OBVIOUS
  <2>4. /\ \A c : /\ Cardinality(MatchedIn(0, c)') = 0 /\ Cardinality(LabelledIn(0, c)') = 0
                  /\ Cardinality(HitsIn(0, c)') = 0
        /\ Cardinality(FitIn(0)') = 0
    BY <1>1, <2>2, RunsKept
  <2> QED BY <1>1, <2>1, <2>3, <2>4 DEF Counted
<1>3. VerdictsOK'
  BY <1>1, VerdictsStay
<1>4. Len(runs) \in Nat /\ 1 \in 1 .. (Len(runs) + 1) /\ 1 .. 0 = {}
  BY DEF CalibrationInv
<1> QED BY <1>1, <1>2, <1>3, <1>4 DEF CalibrationInv

LEMMA CalibrationStarts == ASSUME Calibrator!CalibrationAssumption, Calibrator!Init PROVE CalibrationInv
<1>1. PICK n \in 1 .. MaxRuns : runs \in [1 .. n -> Run]
  BY DEF Calibrator!Init
<1>2. n \in Nat /\ Len(runs) = n /\ DOMAIN runs = 1 .. n
  <2>1. n \in Nat
    BY DEF Calibrator!CalibrationAssumption
  <2>2. runs \in Seq(Run)
    BY <1>1, <2>1
  <2> QED BY <1>1, <2>1, <2>2
<1>3. /\ next = 1 /\ codes = {} /\ pc = "loop" /\ validation = << >>
      /\ count = Calibrator!None /\ hits = Calibrator!None /\ labelled = Calibrator!None /\ fit = 0
  BY DEF Calibrator!Init
<1>4. Counted(0)
  <2>1. \A i \in 1 .. 0 : runs[i].lineage
    OBVIOUS
  <2> QED BY <1>3, <2>1, NothingCounted DEF Counted, Calibrator!None
<1>5. VerdictsOK
  BY <1>3 DEF VerdictsOK
<1>6. 1 \in 1 .. (n + 1) /\ 1 .. 0 = {} /\ 0 = next - 1
  BY <1>2, <1>3
<1> QED BY <1>2, <1>3, <1>4, <1>5, <1>6 DEF CalibrationInv

(***************************************************************************)
(* The counters are those of the runs looked at, and every verdict that is *)
(* recorded is the one the runs alone decide (calibration.py:117-248,      *)
(* thresholds.py:286-299).                                                 *)
(***************************************************************************)
THEOREM CalibrationInvariance ==
  Calibrator!CalibrationAssumption /\ Calibrator!Spec => []CalibrationInv
<1>1. Calibrator!CalibrationAssumption /\ Calibrator!Init => CalibrationInv
  BY CalibrationStarts
<1>2. CalibrationInv /\ [Calibrator!Next]_(Calibrator!vars) => CalibrationInv'
  <2> SUFFICES ASSUME CalibrationInv, [Calibrator!Next]_(Calibrator!vars) PROVE CalibrationInv'
    OBVIOUS
  <2>1. CASE UNCHANGED Calibrator!vars
    <3>1. UNCHANGED << runs, next, count, hits, labelled, fit, codes, pc, validation >>
      BY <2>1 DEF Calibrator!vars
    <3>2. \E k \in Nat : k = next' - 1 /\ Counted(k)'
      BY <3>1, CountedStays DEF CalibrationInv
    <3>3. VerdictsOK'
      BY <3>1, RunsKept DEF CalibrationInv, VerdictsOK
    <3> QED BY <3>1, <3>2, <3>3, RunsKept DEF CalibrationInv
  <2> QED BY <2>1, CountStep, RefuseRunStep, ConcludeStep, RecordGuardianStep, RecordScoutStep, RerunStep
          DEF Calibrator!Next
<1> QED BY <1>1, <1>2, PTL DEF Calibrator!Spec

(***************************************************************************)
(* No counter exceeds the runs, no hits their counters, and SCOUT is only  *)
(* recorded after GUARDIAN (calibration.py:117-170, 238-275).              *)
(***************************************************************************)
THEOREM CalibrationTypes == Calibrator!CalibrationAssumption /\ Calibrator!Spec => []Calibrator!TypeOK
<1>1. ASSUME CalibrationInv PROVE Calibrator!TypeOK
  <2>1. PICK k \in Nat : k = next - 1 /\ Counted(k)
    BY <1>1 DEF CalibrationInv
  <2>2. Len(runs) \in Nat /\ next = k + 1 /\ next <= Len(runs) + 1
    BY <1>1, <2>1 DEF CalibrationInv
  <2>3. \A c : /\ IsFiniteSet(MatchedIn(k, c)) /\ IsFiniteSet(LabelledIn(k, c)) /\ IsFiniteSet(FitIn(k))
               /\ Cardinality(MatchedIn(k, c)) \in Nat /\ Cardinality(MatchedIn(k, c)) <= k
               /\ Cardinality(FitIn(k)) \in Nat /\ Cardinality(FitIn(k)) <= k
    <3> TAKE c
    <3>1. MatchedIn(k, c) \in SUBSET (1 .. k) /\ LabelledIn(k, c) \in SUBSET (1 .. k) /\ FitIn(k) \in SUBSET (1 .. k)
      BY DEF MatchedIn, LabelledIn, FitIn
    <3> QED BY <3>1, CountsAreNumbers
  <2>4. \A c : /\ Cardinality(HitsIn(k, c)) <= Cardinality(MatchedIn(k, c))
               /\ Cardinality(HitsIn(k, c)) <= Cardinality(LabelledIn(k, c))
    <3> TAKE c
    <3>1. HitsIn(k, c) \subseteq MatchedIn(k, c) /\ HitsIn(k, c) \subseteq LabelledIn(k, c)
      BY DEF HitsIn, MatchedIn, LabelledIn
    <3> QED BY <2>3, <3>1, FS_Subset
  <2>5. \A c \in Calibrator!Code : hits[c] <= count[c] /\ hits[c] <= labelled[c] /\ count[c] < next
    BY <2>1, <2>2, <2>3, <2>4 DEF Counted
  <2>6. fit < next
    BY <2>1, <2>2, <2>3 DEF Counted
  <2>7. "SCOUT" \in DOMAIN validation => "GUARDIAN" \in DOMAIN validation
    BY <1>1 DEF CalibrationInv, VerdictsOK
  <2> QED BY <2>2, <2>5, <2>6, <2>7 DEF Calibrator!TypeOK
<1> QED BY <1>1, CalibrationInvariance, PTL

\* A verdict PASS is one of runs that pass.
LEMMA PassedRuns ==
  ASSUME CalibrationInv, NEW f \in DOMAIN validation, validation[f] = "PASS"
  PROVE  Passes /\ Calibrator!CalibrationAssumption /\ Len(runs) \in Nat /\ DOMAIN runs = 1 .. Len(runs)
BY DEF CalibrationInv, VerdictsOK

(***************************************************************************)
(* A pair that passes was judged on genuine runs that allow what was       *)
(* claimed of them, and no rule was silent where it was expected           *)
(* (calibration.py:117-200).                                               *)
(***************************************************************************)
THEOREM PassesAreSane == Calibrator!CalibrationAssumption /\ Calibrator!Spec => []Calibrator!PassIsSane
<1>1. ASSUME CalibrationInv PROVE Calibrator!PassIsSane
  <2> SUFFICES ASSUME NEW f \in DOMAIN validation, validation[f] = "PASS" PROVE Calibrator!Sane
    BY DEF Calibrator!PassIsSane
  <2> PICK n : n = Len(runs)
    OBVIOUS
  <2>1. Passes /\ Calibrator!CalibrationAssumption /\ n = Len(runs) /\ n \in Nat /\ DOMAIN runs = 1 .. n
    BY <1>1, PassedRuns
  <2>2. Calibrator!FitRuns = FitIn(n)
    BY <2>1 DEF Calibrator!FitRuns, FitIn
  <2>3. Cardinality({}) = 0
    BY FS_EmptySet
  <2>4. Calibrator!FitRuns # {}
    BY <2>1, <2>2, <2>3 DEF Passes
  <2>5. \A i \in 1 .. n :
          /\ runs[i].lineage
          /\ runs[i].fitness = "UNFIT" => Calibrator!RawGuardian(runs[i]) \cup Calibrator!RawScout(runs[i]) = {}
          /\ Calibrator!RawScout(runs[i]) # {} => runs[i].fitness # "FIT_WITH_LIMITATIONS"
                                                  /\ ~Calibrator!Blocking(Calibrator!Decide(runs[i]).effect)
          /\ Matched(i) # {} => runs[i].continuous
    BY <2>1 DEF Passes, Blamed
  <2>6. \A i \in 1 .. n : (\E c \in Calibrator!Code : Calibrator!Judged(c, i)) => runs[i].continuous
    BY <2>1, <2>5, MatchedIsJudged
  <2>7. ASSUME NEW c \in Calibrator!Code, NEW i \in 1 .. n, c \in Calibrator!Labels(runs[i])
        PROVE  \E j \in 1 .. n : c \in Calibrator!Labels(runs[j]) /\ Calibrator!Judged(c, j)
    <3>1. i \in LabelledIn(n, c)
      BY <2>7 DEF LabelledIn, LabelsOf
    <3>2. IsFiniteSet(LabelledIn(n, c)) /\ Cardinality(LabelledIn(n, c)) \in Nat
      <4>1. LabelledIn(n, c) \in SUBSET (1 .. n)
        BY DEF LabelledIn
      <4> QED BY <2>1, <4>1, CountsAreNumbers
    <3>3. Cardinality(LabelledIn(n, c)) > 0
      <4>1. Cardinality(LabelledIn(n, c)) # 0
        BY <3>1, <3>2, FS_EmptySet
      <4> QED BY <3>2, <4>1
    <3>4. HitsIn(n, c) # {}
      BY <2>1, <2>3, <3>3 DEF Passes
    <3> QED BY <2>1, <3>4, MatchedIsJudged DEF HitsIn, LabelsOf
  <2> QED BY <2>1, <2>4, <2>5, <2>6, <2>7 DEF Calibrator!Sane
<1> QED BY <1>1, CalibrationInvariance, PTL

(***************************************************************************)
(* No rule of a pair that passes matches more than its share of the FIT    *)
(* runs (calibration.py:172-178).                                          *)
(***************************************************************************)
THEOREM SharesHold == Calibrator!CalibrationAssumption /\ Calibrator!Spec => []Calibrator!ShareOfFit
<1>1. ASSUME CalibrationInv PROVE Calibrator!ShareOfFit
  <2> SUFFICES ASSUME NEW f \in DOMAIN validation, validation[f] = "PASS", NEW c \in Calibrator!Code
               PROVE  100 * Calibrator!Cardinality({i \in Calibrator!FitRuns : Calibrator!Judged(c, i)})
                        <= (IF c \in GuardianCode THEN GuardianShare ELSE ScoutShare)
                             * Calibrator!Cardinality(Calibrator!FitRuns)
    BY DEF Calibrator!ShareOfFit
  <2> PICK n : n = Len(runs)
    OBVIOUS
  <2>1. Passes /\ Calibrator!CalibrationAssumption /\ n = Len(runs) /\ n \in Nat /\ DOMAIN runs = 1 .. n
    BY <1>1, PassedRuns
  <2> DEFINE J == {i \in Calibrator!FitRuns : Calibrator!Judged(c, i)}
             share == IF c \in GuardianCode THEN GuardianShare ELSE ScoutShare
  <2>2. Calibrator!FitRuns = FitIn(n)
    BY <2>1 DEF Calibrator!FitRuns, FitIn
  <2>3. J \subseteq MatchedIn(n, c)
    BY <2>1, <2>2, MatchedIsJudged DEF FitIn, MatchedIn
  <2>4. /\ IsFiniteSet(MatchedIn(n, c)) /\ Cardinality(MatchedIn(n, c)) \in Nat /\ Cardinality(FitIn(n)) \in Nat
    <3>1. MatchedIn(n, c) \in SUBSET (1 .. n) /\ FitIn(n) \in SUBSET (1 .. n)
      BY DEF MatchedIn, FitIn
    <3> QED BY <2>1, <3>1, CountsAreNumbers
  <2>5. Cardinality(J) \in Nat /\ Cardinality(J) <= Cardinality(MatchedIn(n, c))
    BY <2>3, <2>4, FS_Subset, FS_CardinalityType
  <2>6. Cardinality(MatchedIn(n, c)) * 100 <= Cardinality(FitIn(n)) * share
    BY <2>1 DEF Passes, Calibrator!Code
  <2>7. share \in Nat
    BY <2>1 DEF Calibrator!CalibrationAssumption
  <2> HIDE DEF J, share
  <2>8. \A x, y, u, v \in Nat : x <= y /\ y * 100 <= u * v => 100 * x <= v * u
    OBVIOUS
  <2>9. 100 * Cardinality(J) <= share * Cardinality(FitIn(n))
    BY <2>4, <2>5, <2>6, <2>7, <2>8
  <2> QED BY <2>2, <2>9, CalibratorCardinality DEF J, share
<1> QED BY <1>1, CalibrationInvariance, PTL

(***************************************************************************)
(* Whatever was interrupted and run again, both families end with one      *)
(* verdict (calibration.py:238-275).                                       *)
(***************************************************************************)
THEOREM VerdictIsOne == Calibrator!CalibrationAssumption /\ Calibrator!Spec => []Calibrator!OneVerdict
<1>1. ASSUME CalibrationInv PROVE Calibrator!OneVerdict
  BY <1>1 DEF CalibrationInv, VerdictsOK, Calibrator!OneVerdict
<1> QED BY <1>1, CalibrationInvariance, PTL

(***************************************************************************)
(* The calibration keeps its promises together (calibration.py:82-275).    *)
(***************************************************************************)
THEOREM CalibrationIsSound ==
  Calibrator!CalibrationAssumption /\ Calibrator!Spec => []Calibrator!CalibrationSound
BY CalibrationTypes, PassesAreSane, SharesHold, VerdictIsOne, PTL DEF Calibrator!CalibrationSound

-----------------------------------------------------------------------------
(***************************************************************************)
(* The parts together (ServiceParts): a behaviour of the composition is one*)
(* of its component, so that what was proved of each holds here.           *)
(***************************************************************************)
\* The writes move as ApiWrites has it, or stand still.
LEMMA ServiceIsApi == ServiceSpec => Spec
<1>1. ServiceInit => Init
  BY DEF ServiceInit
<1>2. [ServiceNext]_<<part, vars, evaluationVars, calibrationVars>> => [Next]_vars
  BY DEF ServiceNext, vars
<1> QED BY <1>1, <1>2, PTL DEF ServiceSpec, Spec

\* The evaluation moves alone, or not at all.
LEMMA EvaluationIsJudge ==
  ServiceSpec => []~(part = "evaluation") \/ ([](part = "evaluation") /\ Judge!Spec)
<1> DEFINE E == part = "evaluation"
<1>1. ServiceInit /\ E => Judge!Init
  BY DEF ServiceInit
<1>2. [ServiceNext]_<<part, vars, evaluationVars, calibrationVars>> => (E' <=> E)
  BY DEF ServiceNext
<1>3. E /\ [ServiceNext]_<<part, vars, evaluationVars, calibrationVars>> => [Judge!Next]_(Judge!vars)
  BY DEF ServiceNext, evaluationVars, Judge!vars
<1> HIDE DEF E
<1>4. ServiceSpec => []~E \/ ([]E /\ Judge!Spec)
  BY <1>1, <1>2, <1>3, PTL DEF ServiceSpec, Judge!Spec
<1> QED BY <1>4 DEF E

\* So does the calibration.
LEMMA CalibrationIsCalibrator ==
  ServiceSpec => []~(part = "calibration") \/ ([](part = "calibration") /\ Calibrator!Spec)
<1> DEFINE E == part = "calibration"
<1>1. ServiceInit /\ E => Calibrator!Init
  BY DEF ServiceInit
<1>2. [ServiceNext]_<<part, vars, evaluationVars, calibrationVars>> => (E' <=> E)
  BY DEF ServiceNext
<1>3. E /\ [ServiceNext]_<<part, vars, evaluationVars, calibrationVars>> => [Calibrator!Next]_(Calibrator!vars)
  BY DEF ServiceNext, calibrationVars, Calibrator!vars
<1> HIDE DEF E
<1>4. ServiceSpec => []~E \/ ([]E /\ Calibrator!Spec)
  BY <1>1, <1>2, <1>3, PTL DEF ServiceSpec, Calibrator!Spec
<1> QED BY <1>4 DEF E

\* guardian.py, scout.py: every metric is judged by its version, the services decide as the commit
\* does, and opportunities of unfit data are suppressed.
THEOREM ServiceRulesSound == Judge!EvaluationAssumption /\ ServiceSpec => []RulesSound
<1>1. /\ ~(part = "evaluation") => RulesSound
      /\ (part = "evaluation") /\ Judge!RulesSound => RulesSound
  BY DEF RulesSound
<1> QED BY <1>1, EvaluationIsJudge, RulesAreSound, PTL

\* guardian.py:144: no worse metric and no worse data weakens what the Guardian decided.
THEOREM ServiceNeverWeakens == Judge!EvaluationAssumption /\ ServiceSpec => []WorseNeverAllowsMore
<1>1. /\ ~(part = "evaluation") => WorseNeverAllowsMore
      /\ (part = "evaluation") /\ Judge!WorseNeverAllowsMore => WorseNeverAllowsMore
  BY DEF WorseNeverAllowsMore
<1> QED BY <1>1, EvaluationIsJudge, GuardianNeverWeakens, PTL

\* guardian.py:168, scout.py: of racing callers each ends with the evaluation that is stored.
THEOREM ServiceAnswersStored == Judge!EvaluationAssumption /\ ServiceSpec => []AnswersAreStored
<1>1. /\ ~(part = "evaluation") => AnswersAreStored
      /\ (part = "evaluation") /\ Judge!AnswersAreStored => AnswersAreStored
  BY DEF AnswersAreStored
<1> QED BY <1>1, EvaluationIsJudge, EvaluationsAreStored, PTL

\* calibration.py:82-275: a verdict is of the runs alone, passes are sane and within the shares.
THEOREM ServiceCalibrationSound == Calibrator!CalibrationAssumption /\ ServiceSpec => []CalibrationSound
<1>1. /\ ~(part = "calibration") => CalibrationSound
      /\ (part = "calibration") /\ Calibrator!CalibrationSound => CalibrationSound
  BY DEF CalibrationSound
<1> QED BY <1>1, CalibrationIsCalibrator, CalibrationIsSound, PTL
=============================================================================
