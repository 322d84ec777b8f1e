------------------------- MODULE WriterQueueProofs --------------------------
(***************************************************************************)
(* Proofs, for every number of submitters and every queue size, of the     *)
(* safety properties of WriterQueue and of its refinement of               *)
(* SerialExecutor.  IInv is the inductive invariant: Threads and Closing   *)
(* tie the current thread to the closes under way, Line says where the     *)
(* stop object can be, Futures follows a command from the queue through    *)
(* the thread to its Future, Commits ties the Futures to the database.     *)
(***************************************************************************)
EXTENDS WriterQueue, SequenceTheorems, FiniteSetTheorems, TLAPS

Busy == {"got", "transaction", "succeeded", "failed"}
Dead == {"unborn", "ended"}

\* The last thread made is the only one that can be alive, and the one on record.
ThreadsOK ==
    /\ \A n \in Threads : /\ wpc[n] = "unborn" <=> n > starts
                          /\ n < starts => wpc[n] = "ended"
                          /\ wpc[n] \notin Dead => thread = n
                          /\ wpc[n] \notin Dead /\ wpc[n] # "boot" => ident = n
                          /\ wpc[n] = "ended" => ~(accepting /\ n = starts)
                          /\ wpc[n] \in Busy <=> item[n] # Null
    /\ thread # Null => thread = starts
    /\ accepting => thread # Null

\* A close joins the current thread, and is past the join only when that has ended.
ClosingOK ==
    /\ lock \in Controllers => control[lock] = "stopping"
    /\ \A c \in Clients : client[c] = "inside" <=> lock = c
    /\ \A k \in Controllers :
          /\ control[k] # "idle" => joining[k] = starts /\ starts \in Threads /\ ~accepting
          /\ control[k] = "stopping" => lock = k /\ thread # Null /\ wpc[thread] # "ended"
          /\ control[k] = "resetting" => wpc[starts] = "ended"

\* The stop object is the last item, and once it is out the thread has ended.
LineOK ==
    /\ \A i \in 1..Len(queue) :
          queue[i] = Stop => /\ i = Len(queue) /\ ~accepting
                             /\ \A k \in Controllers : control[k] # "stopping"
    /\ queue # <<>> => thread # Null /\ wpc[thread] # "ended"

\* Members of a sequence, and sequences without repetition.
In(s, d) == \E i \in 1..Len(s) : s[i] = d
Distinct(s) == \A i, j \in 1..Len(s) : s[i] = s[j] => i = j

\* A command is in one place at a time: in the queue, or taken, or resolved.
TakenBy(n, c) == item[n] = c /\ wpc[n] = "got"
RunBy(n, c) == item[n] = c /\ wpc[n] \in {"transaction", "succeeded", "failed"}
FuturesOK ==
    /\ Distinct(queue)
    /\ \A n \in Threads : item[n] # Null => ~In(queue, item[n])
    /\ \A c \in Clients :
          /\ client[c] \in {"idle", "inside", "refused"} <=> future[c] = "none"
          /\ In(queue, c) => future[c] \in {"pending", "cancelled"}
          /\ \A n \in Threads : TakenBy(n, c) => future[c] \in {"pending", "cancelled"}
          /\ \A n \in Threads : RunBy(n, c) => future[c] = "running"
          /\ future[c] = "pending" => In(queue, c) \/ \E n \in Threads : TakenBy(n, c)
          /\ future[c] = "running" => \E n \in Threads : RunBy(n, c)

\* A command is in the database exactly when its transaction has committed, once.
CommitsOK ==
    /\ Distinct(committed)
    /\ \A c \in Clients :
          In(committed, c) <=> \/ future[c] = "result"
                               \/ \E n \in Threads : item[n] = c /\ wpc[n] = "succeeded"

IInv == TypeOK /\ ThreadsOK /\ ClosingOK /\ LineOK /\ FuturesOK /\ CommitsOK

-----------------------------------------------------------------------------
\* What the thread takes from the queue, and what it leaves there.
LEMMA TakeFirst ==
    ASSUME NEW S, NEW s \in Seq(S), s # <<>>
    PROVE  /\ Len(s) \in Nat \ {0} /\ Head(s) = s[1] /\ s[1] \in S
           /\ Tail(s) \in Seq(S) /\ Len(Tail(s)) = Len(s) - 1
           /\ \A i \in 1..Len(Tail(s)) : Tail(s)[i] = s[i + 1]
BY HeadTailProperties, EmptySeq

\* What an append leaves, and adds.
LEMMA AddLast ==
    ASSUME NEW S, NEW s \in Seq(S), NEW e \in S
    PROVE  /\ Len(s) \in Nat /\ Append(s, e) \in Seq(S) /\ Append(s, e) # <<>>
           /\ Len(Append(s, e)) = Len(s) + 1
           /\ \A i \in 1..Len(s) : Append(s, e)[i] = s[i]
           /\ Append(s, e)[Len(s) + 1] = e
BY AppendProperties, LenProperties

\* The members after a change of the sequence.
LEMMA MembersAfterAppend ==
    ASSUME NEW S, NEW s \in Seq(S), NEW e \in S
    PROVE  /\ \A d : In(Append(s, e), d) <=> d = e \/ In(s, d)
           /\ Distinct(s) /\ ~In(s, e) => Distinct(Append(s, e))
<1> DEFINE t == Append(s, e)
<1>1. /\ Len(s) \in Nat /\ Len(t) = Len(s) + 1 /\ t[Len(s) + 1] = e
      /\ \A i \in 1..Len(s) : t[i] = s[i]
  BY AddLast
<1> HIDE DEF t
<1>2. \A i : i \in 1..Len(t) <=> i \in 1..Len(s) \/ i = Len(s) + 1
  BY <1>1
<1>3. \A d : In(t, d) <=> d = e \/ In(s, d)
  BY <1>1, <1>2 DEF In
<1>4. Distinct(s) /\ ~In(s, e) => Distinct(t)
  BY <1>1, <1>2 DEF In, Distinct
<1> QED BY <1>3, <1>4 DEF t

LEMMA MembersAfterTail ==
    ASSUME NEW S, NEW s \in Seq(S), s # <<>>
    PROVE  /\ \A d : In(s, d) <=> d = Head(s) \/ In(Tail(s), d)
           /\ Distinct(s) => Distinct(Tail(s)) /\ ~In(Tail(s), Head(s))
<1> DEFINE t == Tail(s)
<1>1. /\ Len(s) \in Nat \ {0} /\ Head(s) = s[1] /\ Len(t) = Len(s) - 1
      /\ \A i \in 1..Len(t) : t[i] = s[i + 1]
  BY TakeFirst
<1> HIDE DEF t
<1>2. \A i \in 1..Len(s) : i = 1 \/ (i - 1 \in 1..Len(t) /\ s[i] = t[i - 1])
  BY <1>1
<1>3. \A i \in 1..Len(t) : i + 1 \in 1..Len(s) /\ i + 1 # 1
  BY <1>1
<1>4. 1 \in 1..Len(s)
  BY <1>1
<1>5. \A d : In(s, d) <=> d = Head(s) \/ In(t, d)
  BY <1>1, <1>2, <1>3, <1>4 DEF In
<1>6. ASSUME Distinct(s) PROVE Distinct(t) /\ ~In(t, Head(s))
  <2>1. ~In(t, Head(s))
    BY <1>1, <1>3, <1>4, <1>6 DEF In, Distinct
  <2>2. ASSUME NEW i \in 1..Len(t), NEW j \in 1..Len(t), t[i] = t[j] PROVE i = j
    <3>1. i + 1 = j + 1
      BY <1>1, <1>3, <1>6, <2>2 DEF Distinct
    <3> QED BY <3>1
  <2> QED BY <2>1, <2>2 DEF Distinct
<1> QED BY <1>5, <1>6 DEF t

LEMMA Initially == Init => IInv
<1> SUFFICES ASSUME Init PROVE IInv
  OBVIOUS
<1> USE MaxSizeAssumption, NameAssumption DEF Init
<1>1. TypeOK
  <2>1. queue \in Seq(Clients \cup {Stop}) /\ Len(queue) <= MaxSize
    OBVIOUS
  <2>2. committed \in Seq(Clients) /\ accepted \in Seq(Clients)
    OBVIOUS
  <2>3. starts \in 0..MaxStarts
    OBVIOUS
  <2>4. wpc \in [Threads -> {"unborn", "boot", "get", "got", "transaction", "succeeded", "failed", "ended"}]
    OBVIOUS
  <2>5. accepting \in BOOLEAN
    OBVIOUS
  <2> QED BY <2>1, <2>2, <2>3, <2>4, <2>5 DEF TypeOK
<1>2. ThreadsOK /\ ClosingOK
  BY DEF ThreadsOK, ClosingOK, Threads, Busy, Dead
<1>3. LineOK /\ FuturesOK /\ CommitsOK
  BY DEF LineOK, FuturesOK, CommitsOK, In, Distinct, TakenBy, RunBy
<1> QED BY <1>1, <1>2, <1>3 DEF IInv

\* The types without the flag, which the arithmetic backend does not handle well.
Typed ==
    /\ queue \in Seq(Clients \cup {Stop}) /\ Len(queue) <= MaxSize
    /\ lock \in Clients \cup Controllers \cup {Null}
    /\ thread \in Threads \cup {Null} /\ ident \in Threads \cup {Null}
    /\ starts \in 0..MaxStarts
    /\ control \in [Controllers -> {"idle", "stopping", "joining", "resetting"}]
    /\ joining \in [Controllers -> Threads \cup {Null}]
    /\ client \in [Clients -> {"idle", "inside", "refused", "waiting", "done"}]
    /\ future \in [Clients -> {"none", "pending", "running", "cancelled", "result", "exception"}]
    /\ wpc \in [Threads -> {"unborn", "boot", "get", "got", "transaction", "succeeded",
                            "failed", "ended"}]
    /\ item \in [Threads -> Clients \cup {Null}]
    /\ committed \in Seq(Clients) /\ accepted \in Seq(Clients)

\* Every action keeps the types.
LEMMA TypeStep == ASSUME IInv, Next PROVE TypeOK'
<1> USE MaxSizeAssumption, NameAssumption DEF IInv, submitVars, controlVars, runVars, Typed
<1>0. accepting' \in BOOLEAN
  <2>1. accepting' \in {accepting, TRUE, FALSE}
    BY DEF Next, Submit, SubmitEnter, SubmitRefused, SubmitPut, SubmitTimeout, Cancel, Result,
           Start, Close, CloseEnter, CloseAgain, CloseStop, CloseJoined, CloseReset,
           Run, RunBoot, RunGet, RunBegin, RunCommit, RunRollback, RunResolve
  <2>2. accepting \in BOOLEAN
    BY DEF TypeOK
  <2> QED BY <2>1, <2>2
<1>1. Typed
  BY DEF TypeOK
<1>2. ASSUME NEW c \in Clients, Submit(c) \/ Cancel(c) \/ Result(c) PROVE Typed'
  <2>1. CASE SubmitEnter(c)
    BY <1>1, <2>1 DEF SubmitEnter
  <2>2. CASE SubmitRefused(c)
    BY <1>1, <2>2 DEF SubmitRefused
  <2>3. CASE SubmitPut(c)
    BY <1>1, <2>3 DEF SubmitPut
  <2>4. CASE SubmitTimeout(c)
    BY <1>1, <2>4 DEF SubmitTimeout
  <2>5. CASE Cancel(c)
    BY <1>1, <2>5 DEF Cancel
  <2>6. CASE Result(c)
    BY <1>1, <2>6 DEF Result
  <2> QED BY <1>2, <2>1, <2>2, <2>3, <2>4, <2>5, <2>6 DEF Submit
<1>3. ASSUME NEW k \in Controllers, Start(k) \/ Close(k) PROVE Typed'
  <2>1. CASE Start(k)
    BY <1>1, <2>1 DEF Start, Threads
  <2>2. CASE CloseEnter(k)
    BY <1>1, <2>2 DEF CloseEnter
  <2>3. CASE CloseAgain(k)
    BY <1>1, <2>3 DEF CloseAgain
  <2>4. CASE CloseStop(k)
    BY <1>1, <2>4 DEF CloseStop
  <2>5. CASE CloseJoined(k)
    BY <1>1, <2>5 DEF CloseJoined
  <2>6. CASE CloseReset(k)
    BY <1>1, <2>6 DEF CloseReset
  <2> QED BY <1>3, <2>1, <2>2, <2>3, <2>4, <2>5, <2>6 DEF Close
<1>4. ASSUME NEW n \in Threads, Run(n) PROVE Typed'
  <2>1. wpc[n] \in Busy => item[n] \in Clients
    BY <1>1 DEF ThreadsOK
  <2>2. CASE RunBoot(n)
    BY <1>1, <2>2 DEF RunBoot
  <2>3. CASE RunGet(n)
    <3>1. /\ Tail(queue) \in Seq(Clients \cup {Stop}) /\ Len(Tail(queue)) <= MaxSize
          /\ Head(queue) \in Clients \cup {Stop}
      BY <1>1, <2>3, TakeFirst DEF RunGet
    <3> QED BY <1>1, <2>3, <3>1 DEF RunGet
  <2>4. CASE RunBegin(n)
    BY <1>1, <2>4 DEF RunBegin
  <2>5. CASE RunCommit(n)
    BY <1>1, <2>1, <2>5 DEF RunCommit, Busy
  <2>6. CASE RunRollback(n)
    BY <1>1, <2>6 DEF RunRollback
  <2>7. CASE RunResolve(n)
    BY <1>1, <2>7 DEF RunResolve
  <2> QED BY <1>4, <2>2, <2>3, <2>4, <2>5, <2>6, <2>7 DEF Run
<1>5. Typed'
  BY <1>2, <1>3, <1>4 DEF Next
<1> QED BY <1>0, <1>5, Zenon DEF TypeOK

\* The types in the form the steps below use them.
LEMMA Types ==
    ASSUME TypeOK
    PROVE  /\ queue \in Seq(Clients \cup {Stop})
           /\ starts \in Nat /\ starts <= MaxStarts /\ thread \in Threads \cup {Null}
           /\ control \in [Controllers -> {"idle", "stopping", "joining", "resetting"}]
           /\ joining \in [Controllers -> Threads \cup {Null}]
           /\ client \in [Clients -> {"idle", "inside", "refused", "waiting", "done"}]
           /\ future \in [Clients -> {"none", "pending", "running", "cancelled", "result", "exception"}]
           /\ wpc \in [Threads -> {"unborn", "boot", "get", "got", "transaction", "succeeded",
                                    "failed", "ended"}]
           /\ item \in [Threads -> Clients \cup {Null}]
           /\ committed \in Seq(Clients)
           /\ \A n \in Threads : n \in Nat \ {0} /\ n # Null
BY MaxSizeAssumption, NameAssumption DEF TypeOK, Threads

LEMMA ThreadsStep == ASSUME IInv, Next PROVE ThreadsOK'
<1> USE MaxSizeAssumption, NameAssumption, Types
    DEF ThreadsOK, ClosingOK, IInv, submitVars, controlVars, runVars, Busy, Dead
<1>1. ASSUME NEW c \in Clients, Submit(c) \/ Cancel(c) \/ Result(c) PROVE ThreadsOK'
  BY <1>1 DEF Submit, SubmitEnter, SubmitRefused, SubmitPut, SubmitTimeout, Cancel, Result
<1>2. ASSUME NEW k \in Controllers, Start(k) PROVE ThreadsOK'
  BY <1>2 DEF Start, Threads
<1>3. ASSUME NEW k \in Controllers, CloseEnter(k) \/ CloseAgain(k) \/ CloseStop(k) \/ CloseJoined(k)
      PROVE ThreadsOK'
  BY <1>3 DEF CloseEnter, CloseAgain, CloseStop, CloseJoined
<1>4. ASSUME NEW k \in Controllers, CloseReset(k) PROVE ThreadsOK'
  BY <1>4 DEF CloseReset
<1>5. ASSUME NEW n \in Threads, RunBoot(n) \/ RunCommit(n) \/ RunRollback(n) PROVE ThreadsOK'
  BY <1>5 DEF RunBoot, RunCommit, RunRollback
<1>6. ASSUME NEW n \in Threads, RunGet(n) PROVE ThreadsOK'
  <2>1. /\ Head(queue) = queue[1] /\ 1 \in 1..Len(queue) /\ queue[1] \in Clients \cup {Stop}
    BY <1>6, TakeFirst DEF RunGet
  <2>2. Head(queue) = Stop => ~accepting
    BY <2>1 DEF LineOK
  <2> QED BY <1>6, <2>1, <2>2 DEF RunGet
<1>7. ASSUME NEW n \in Threads, RunBegin(n) \/ RunResolve(n) PROVE ThreadsOK'
  BY <1>7 DEF RunBegin, RunResolve
<1> QED BY <1>1, <1>2, <1>3, <1>4, <1>5, <1>6, <1>7 DEF Next, Close, Run

LEMMA ClosingStep == ASSUME IInv, Next PROVE ClosingOK'
<1> USE MaxSizeAssumption, NameAssumption, Types
    DEF ThreadsOK, ClosingOK, IInv, submitVars, controlVars, runVars, Dead
<1>1. ASSUME NEW c \in Clients, Submit(c) \/ Cancel(c) \/ Result(c) PROVE ClosingOK'
  <2>1. CASE SubmitEnter(c)
    BY <2>1 DEF SubmitEnter
  <2>2. CASE SubmitRefused(c)
    BY <2>2 DEF SubmitRefused
  <2>3. CASE SubmitPut(c)
    BY <2>3 DEF SubmitPut
  <2>4. CASE SubmitTimeout(c)
    BY <2>4 DEF SubmitTimeout
  <2>5. CASE Cancel(c) \/ Result(c)
    BY <2>5 DEF Cancel, Result
  <2> QED BY <1>1, <2>1, <2>2, <2>3, <2>4, <2>5 DEF Submit
<1>2. ASSUME NEW k \in Controllers, Start(k) PROVE ClosingOK'
  <2>1. \A j \in Controllers : control[j] = "idle"
    <3>1. CASE MaxStarts <= 1
      BY <1>2, <3>1 DEF Start, Threads
    <3>2. CASE \A i, j \in Controllers : i = j
      BY <1>2, <3>2 DEF Start
    <3> QED BY <3>1, <3>2, OwnerAssumption
  <2> QED BY <1>2, <2>1 DEF Start
<1>3. ASSUME NEW k \in Controllers, CloseEnter(k) PROVE ClosingOK'
  BY <1>3 DEF CloseEnter
<1>4. ASSUME NEW k \in Controllers, CloseAgain(k) \/ CloseStop(k) \/ CloseJoined(k) PROVE ClosingOK'
  BY <1>4 DEF CloseAgain, CloseStop, CloseJoined
<1>5. ASSUME NEW k \in Controllers, CloseReset(k) PROVE ClosingOK'
  BY <1>5 DEF CloseReset
<1>6. ASSUME NEW n \in Threads, Run(n), ~RunGet(n) PROVE ClosingOK'
  BY <1>6 DEF Run, RunBoot, RunBegin, RunCommit, RunRollback, RunResolve
<1>7. ASSUME NEW n \in Threads, RunGet(n) PROVE ClosingOK'
  <2>1. /\ Head(queue) = queue[1] /\ 1 \in 1..Len(queue) /\ queue[1] \in Clients \cup {Stop}
    BY <1>7, TakeFirst DEF RunGet
  <2>2. Head(queue) = Stop => \A k \in Controllers : control[k] # "stopping"
    BY <2>1 DEF LineOK
  <2> QED BY <1>7, <2>1, <2>2 DEF RunGet
<1> QED BY <1>1, <1>2, <1>3, <1>4, <1>5, <1>6, <1>7 DEF Next, Close

\* The stop object stays last, and leaves an empty queue behind.
LEMMA LineStep == ASSUME IInv, Next PROVE LineOK'
<1> USE MaxSizeAssumption, NameAssumption, Types
    DEF LineOK, ThreadsOK, ClosingOK, IInv, submitVars, controlVars, runVars, Dead
<1>1. ASSUME NEW c \in Clients, Submit(c) \/ Cancel(c) \/ Result(c), ~SubmitPut(c) PROVE LineOK'
  BY <1>1 DEF Submit, SubmitEnter, SubmitRefused, SubmitTimeout, Cancel, Result
<1>2. ASSUME NEW c \in Clients, SubmitPut(c) PROVE LineOK'
  <2>1. /\ Len(queue') = Len(queue) + 1 /\ Len(queue) \in Nat /\ queue'[Len(queue) + 1] = c
        /\ \A i \in 1..Len(queue) : queue'[i] = queue[i]
    BY <1>2, AddLast DEF SubmitPut
  <2>2. \A i \in 1..Len(queue') : queue'[i] # Stop
    BY <1>2, <2>1 DEF SubmitPut
  <2> QED BY <1>2, <2>1, <2>2 DEF SubmitPut
<1>3. ASSUME NEW k \in Controllers, Start(k) PROVE LineOK'
  BY <1>3 DEF Start
<1>4. ASSUME NEW k \in Controllers, CloseEnter(k) PROVE LineOK'
  BY <1>4 DEF CloseEnter
<1>5. ASSUME NEW k \in Controllers, CloseStop(k) PROVE LineOK'
  <2>1. /\ Len(queue') = Len(queue) + 1 /\ Len(queue) \in Nat /\ queue'[Len(queue) + 1] = Stop
        /\ \A i \in 1..Len(queue) : queue'[i] = queue[i]
    BY <1>5, AddLast DEF CloseStop
  <2>2. \A i \in 1..Len(queue) : queue[i] # Stop
    BY <1>5 DEF CloseStop
  <2>3. \A j \in Controllers : control'[j] # "stopping"
    BY <1>5 DEF CloseStop
  <2> QED BY <1>5, <2>1, <2>2, <2>3 DEF CloseStop
<1>6. ASSUME NEW k \in Controllers, CloseAgain(k) \/ CloseJoined(k) PROVE LineOK'
  BY <1>6 DEF CloseAgain, CloseJoined
<1>7. ASSUME NEW k \in Controllers, CloseReset(k) PROVE LineOK'
  <2>1. queue = <<>>
    BY <1>7 DEF CloseReset
  <2> QED BY <1>7, <2>1 DEF CloseReset
<1>8. ASSUME NEW n \in Threads, Run(n), ~RunGet(n) PROVE LineOK'
  BY <1>8 DEF Run, RunBoot, RunBegin, RunCommit, RunRollback, RunResolve
<1>9. ASSUME NEW n \in Threads, RunGet(n) PROVE LineOK'
  <2>1. /\ Head(queue) = queue[1] /\ Len(queue) \in Nat \ {0} /\ Len(queue') = Len(queue) - 1
        /\ \A i \in 1..Len(queue') : queue'[i] = queue[i + 1]
        /\ queue' \in Seq(Clients \cup {Stop})
    BY <1>9, TakeFirst DEF RunGet
  <2>2. thread = n
    BY <1>9 DEF RunGet
  <2>3. CASE Head(queue) = Stop
    <3>1. queue' = <<>>
      BY <2>1, <2>3, EmptySeq
    <3> QED BY <1>9, <3>1, <2>3 DEF RunGet
  <2>4. CASE Head(queue) # Stop
    <3>1. wpc'[n] = "got" /\ thread' = n /\ accepting' = accepting /\ control' = control
      BY <1>9, <2>2, <2>4 DEF RunGet
    <3>2. \A i \in 1..Len(queue') : i + 1 \in 1..Len(queue) /\ (i + 1 = Len(queue) => i = Len(queue'))
      BY <2>1
    <3> QED BY <2>1, <3>1, <3>2
  <2> QED BY <2>3, <2>4
<1> QED BY <1>1, <1>2, <1>3, <1>4, <1>5, <1>6, <1>7, <1>8, <1>9 DEF Next, Submit, Close

\* A command is in one place at a time.
LEMMA FuturesStep == ASSUME IInv, Next PROVE FuturesOK'
<1> USE NameAssumption DEF submitVars, controlVars, runVars, TakenBy, RunBy
<1>1. FuturesOK /\ Typed
  BY DEF IInv, TypeOK, Typed
<1>2. ASSUME NEW c \in Clients, Submit(c) \/ Cancel(c) \/ Result(c) PROVE FuturesOK'
  <2>1. CASE SubmitEnter(c)
    BY <1>1, <2>1 DEF SubmitEnter, FuturesOK, Typed
  <2>2. CASE SubmitRefused(c)
    BY <1>1, <2>2 DEF SubmitRefused, FuturesOK, Typed
  <2>3. CASE SubmitPut(c)
    <3>1. ~In(queue, c) /\ future[c] = "none" /\ \A n \in Threads : item[n] # c \/ wpc[n] \notin Busy
      BY <1>1, <2>3 DEF SubmitPut, FuturesOK, Typed, Busy
    <3>2. \A n \in Threads : item[n] # c
      BY <1>1, <3>1 DEF IInv, ThreadsOK, Typed
    <3>3. Distinct(queue') /\ \A d : In(queue', d) <=> d = c \/ In(queue, d)
      BY <1>1, <2>3, <3>1, MembersAfterAppend DEF SubmitPut, FuturesOK, Typed
    <3> QED BY <1>1, <2>3, <3>1, <3>2, <3>3 DEF SubmitPut, FuturesOK, Typed
  <2>4. CASE SubmitTimeout(c)
    BY <1>1, <2>4 DEF SubmitTimeout, FuturesOK, Typed
  <2>5. CASE Cancel(c)
    BY <1>1, <2>5 DEF Cancel, FuturesOK, Typed
  <2>6. CASE Result(c)
    BY <1>1, <2>6 DEF Result, FuturesOK, Typed
  <2> QED BY <1>2, <2>1, <2>2, <2>3, <2>4, <2>5, <2>6 DEF Submit
<1>3. ASSUME NEW k \in Controllers, Start(k) \/ Close(k) PROVE FuturesOK'
  <2>1. client' = client /\ future' = future /\ item' = item
    BY <1>3 DEF Start, Close, CloseEnter, CloseAgain, CloseStop, CloseJoined, CloseReset
  <2>2. \A n \in Threads : wpc'[n] = wpc[n] \/ (wpc[n] = "unborn" /\ wpc'[n] = "boot")
    <3>1. CASE Start(k)
      BY <1>1, <3>1 DEF Start, Typed, Threads, IInv, ThreadsOK
    <3>2. CASE Close(k)
      BY <3>2 DEF Close, CloseEnter, CloseAgain, CloseStop, CloseJoined, CloseReset
    <3> QED BY <1>3, <3>1, <3>2
  <2>3. Distinct(queue') /\ \A d : In(queue', d) <=> In(queue, d) \/ (d = Stop /\ CloseStop(k))
    <3>1. CASE CloseStop(k)
      <4>1. ~In(queue, Stop)
        BY <3>1 DEF CloseStop, IInv, LineOK, In
      <4> QED BY <1>1, <3>1, <4>1, MembersAfterAppend DEF CloseStop, FuturesOK, Typed
    <3>2. CASE ~CloseStop(k)
      <4>1. queue' = queue
        BY <1>3, <3>2 DEF Start, Close, CloseEnter, CloseAgain, CloseJoined, CloseReset
      <4> QED BY <1>1, <3>2, <4>1 DEF FuturesOK
    <3> QED BY <3>1, <3>2
  <2>4. \A c \in Clients : In(queue', c) <=> In(queue, c)
    BY <2>3
  <2>5. \A n \in Threads : item[n] # Null => ~In(queue', item[n])
    BY <1>1, <2>4 DEF FuturesOK, Typed
  <2>6. \A n \in Threads : \A c : (TakenBy(n, c)' <=> TakenBy(n, c)) /\ (RunBy(n, c)' <=> RunBy(n, c))
    BY <2>1, <2>2
  <2> HIDE DEF TakenBy, RunBy
  <2> QED BY <1>1, <2>1, <2>3, <2>4, <2>5, <2>6 DEF FuturesOK
<1>4. ASSUME NEW n \in Threads, Run(n) PROVE FuturesOK'
  <2>1. /\ wpc[n] \notin Dead
        /\ \A m \in Threads : wpc[m] \in Busy <=> item[m] # Null
    BY <1>4 DEF Run, RunBoot, RunGet, RunBegin, RunCommit, RunRollback, RunResolve, Dead, IInv, ThreadsOK
  <2>2. \A m \in Threads : m # n => wpc[m] \in Dead /\ item[m] = Null
    <3>1. \A m \in Threads : wpc[m] \notin Dead => m = thread
      BY DEF IInv, ThreadsOK
    <3> QED BY <2>1, <3>1 DEF Dead, Busy
  <2>3. CASE RunBoot(n)
    BY <1>1, <2>3 DEF RunBoot, FuturesOK, Typed
  <2>4. CASE RunGet(n)
    <3>1. /\ Distinct(queue') /\ ~In(queue', Head(queue))
          /\ \A d : In(queue, d) <=> d = Head(queue) \/ In(queue', d)
          /\ Head(queue) \in Clients \cup {Stop}
      BY <1>1, <2>4, MembersAfterTail, TakeFirst DEF RunGet, FuturesOK, Typed
    <3>2. item[n] = Null
      BY <2>1, <2>4 DEF RunGet, Busy
    <3>3. CASE Head(queue) = Stop
      <4>1. client' = client /\ future' = future /\ item' = item /\ wpc' = [wpc EXCEPT ![n] = "ended"]
        BY <2>4, <3>3 DEF RunGet
      <4>2. \A m \in Threads, c \in Clients :
               (TakenBy(m, c)' <=> TakenBy(m, c)) /\ (RunBy(m, c)' <=> RunBy(m, c))
        BY <1>1, <3>2, <4>1 DEF Typed
      <4>3. \A c \in Clients : In(queue', c) <=> In(queue, c)
        BY <3>1, <3>3
      <4>4. \A m \in Threads : item'[m] # Null => ~In(queue', item'[m])
        BY <1>1, <4>1, <4>3 DEF FuturesOK, Typed
      <4> HIDE DEF TakenBy, RunBy
      <4> QED BY <1>1, <3>1, <4>1, <4>2, <4>3, <4>4 DEF FuturesOK
    <3>4. CASE Head(queue) # Stop
      BY <1>1, <2>4, <3>1, <3>2, <3>4 DEF RunGet, FuturesOK, Typed
    <3> QED BY <3>3, <3>4
  <2>5. CASE RunBegin(n)
    <3>1. item[n] \in Clients /\ ~In(queue, item[n])
      BY <1>1, <2>1, <2>5 DEF RunBegin, FuturesOK, Typed, Busy
    <3>2. CASE future[item[n]] = "cancelled"
      BY <1>1, <2>2, <2>5, <3>1, <3>2 DEF RunBegin, FuturesOK, Typed, Dead
    <3>3. CASE future[item[n]] # "cancelled"
      BY <1>1, <2>2, <2>5, <3>1, <3>3 DEF RunBegin, FuturesOK, Typed, Dead
    <3> QED BY <3>2, <3>3
  <2>6. CASE RunCommit(n) \/ RunRollback(n)
    <3>1. /\ client' = client /\ future' = future /\ item' = item /\ queue' = queue
          /\ wpc[n] = "transaction"
          /\ wpc' = [wpc EXCEPT ![n] = "succeeded"] \/ wpc' = [wpc EXCEPT ![n] = "failed"]
      BY <2>6 DEF RunCommit, RunRollback
    <3>2. \A m \in Threads, c \in Clients :
             (TakenBy(m, c)' <=> TakenBy(m, c)) /\ (RunBy(m, c)' <=> RunBy(m, c))
      BY <1>1, <3>1 DEF Typed
    <3> HIDE DEF TakenBy, RunBy
    <3> QED BY <1>1, <3>1, <3>2 DEF FuturesOK
  <2>7. CASE RunResolve(n)
    <3>1. item[n] \in Clients /\ ~In(queue, item[n])
      BY <1>1, <2>1, <2>7 DEF RunResolve, FuturesOK, Typed, Busy
    <3> QED BY <1>1, <2>2, <2>7, <3>1 DEF RunResolve, FuturesOK, Typed, Dead
  <2> QED BY <1>4, <2>3, <2>4, <2>5, <2>6, <2>7 DEF Run
<1> QED BY <1>2, <1>3, <1>4 DEF Next

\* The database holds the commands that have committed, each once.
LEMMA CommitsStep == ASSUME IInv, Next PROVE CommitsOK'
<1> USE NameAssumption DEF submitVars, controlVars, runVars
<1>1. CommitsOK /\ FuturesOK /\ Typed
  BY DEF IInv, TypeOK, Typed
<1>2. ASSUME NEW c \in Clients, Submit(c) \/ Cancel(c) \/ Result(c) PROVE CommitsOK'
  <2>1. committed' = committed /\ item' = item /\ wpc' = wpc
    BY <1>2 DEF Submit, SubmitEnter, SubmitRefused, SubmitPut, SubmitTimeout, Cancel, Result
  <2>2. \A d \in Clients : future'[d] = "result" <=> future[d] = "result"
    <3>1. CASE SubmitPut(c)
      BY <1>1, <3>1 DEF SubmitPut, FuturesOK, Typed
    <3>2. CASE Cancel(c)
      BY <1>1, <3>2 DEF Cancel, Typed
    <3> QED BY <1>2, <3>1, <3>2 DEF Submit, SubmitEnter, SubmitRefused, SubmitTimeout, Result
  <2> QED BY <1>1, <2>1, <2>2 DEF CommitsOK
<1>3. ASSUME NEW k \in Controllers, Start(k) \/ Close(k) PROVE CommitsOK'
  <2>1. committed' = committed /\ future' = future /\ item' = item
    BY <1>3 DEF Start, Close, CloseEnter, CloseAgain, CloseStop, CloseJoined, CloseReset
  <2>2. \A n \in Threads : wpc'[n] = "succeeded" <=> wpc[n] = "succeeded"
    <3>1. CASE Start(k)
      BY <1>1, <3>1 DEF Start, Typed, Threads, IInv, ThreadsOK
    <3>2. CASE Close(k)
      BY <3>2 DEF Close, CloseEnter, CloseAgain, CloseStop, CloseJoined, CloseReset
    <3> QED BY <1>3, <3>1, <3>2
  <2> QED BY <1>1, <2>1, <2>2 DEF CommitsOK
<1>4. ASSUME NEW n \in Threads, Run(n) PROVE CommitsOK'
  <2>1. wpc[n] \notin Dead
    BY <1>4 DEF Run, RunBoot, RunGet, RunBegin, RunCommit, RunRollback, RunResolve, Dead
  <2>2. \A m \in Threads : wpc[m] \in Busy <=> item[m] # Null
    BY DEF IInv, ThreadsOK
  <2>3. \A m \in Threads : m # n => wpc[m] \in Dead
    BY <2>1 DEF IInv, ThreadsOK
  <2>4. CASE RunBoot(n)
    BY <1>1, <2>4 DEF RunBoot, CommitsOK, Typed
  <2>5. CASE RunGet(n)
    <3>1. committed' = committed /\ future' = future
      BY <2>5 DEF RunGet
    <3>2. \A m \in Threads, d \in Clients :
             (item'[m] = d /\ wpc'[m] = "succeeded") <=> (item[m] = d /\ wpc[m] = "succeeded")
      <4>1. CASE Head(queue) = Stop
        BY <1>1, <2>5, <4>1 DEF RunGet, Typed
      <4>2. CASE Head(queue) # Stop
        BY <1>1, <2>5, <4>2 DEF RunGet, Typed
      <4> QED BY <4>1, <4>2
    <3> QED BY <1>1, <3>1, <3>2 DEF CommitsOK
  <2>6. CASE RunBegin(n)
    <3>1. item[n] \in Clients /\ future[item[n]] \in {"pending", "cancelled"}
      BY <1>1, <2>2, <2>6 DEF RunBegin, FuturesOK, TakenBy, Typed, Busy
    <3> QED BY <1>1, <2>3, <2>6, <3>1 DEF RunBegin, CommitsOK, Typed, Dead
  <2>7. CASE RunCommit(n)
    <3>1. item[n] \in Clients /\ future[item[n]] = "running"
      BY <1>1, <2>2, <2>7 DEF RunCommit, FuturesOK, RunBy, Typed, Busy
    <3>2. ~In(committed, item[n])
      BY <1>1, <2>3, <2>7, <3>1 DEF RunCommit, CommitsOK, Dead
    <3>3. Distinct(committed') /\ \A d : In(committed', d) <=> d = item[n] \/ In(committed, d)
      BY <1>1, <2>7, <3>1, <3>2, MembersAfterAppend DEF RunCommit, CommitsOK, Typed
    <3> QED BY <1>1, <2>3, <2>7, <3>1, <3>3 DEF RunCommit, CommitsOK, Typed, Dead
  <2>8. CASE RunRollback(n)
    BY <1>1, <2>8 DEF RunRollback, CommitsOK, Typed
  <2>9. CASE RunResolve(n)
    <3>1. item[n] \in Clients /\ future[item[n]] = "running"
      BY <1>1, <2>2, <2>9 DEF RunResolve, FuturesOK, RunBy, Typed, Busy
    <3> QED BY <1>1, <2>3, <2>9, <3>1 DEF RunResolve, CommitsOK, Typed, Dead
  <2> QED BY <1>4, <2>4, <2>5, <2>6, <2>7, <2>8, <2>9 DEF Run
<1> QED BY <1>2, <1>3, <1>4 DEF Next

\* IInv is inductive.
THEOREM Invariance == Spec => []IInv
<1>1. IInv /\ [Next]_vars => IInv'
  <2> SUFFICES ASSUME IInv, [Next]_vars PROVE IInv'
    OBVIOUS
  <2>1. CASE Next
    BY <2>1, TypeStep, ThreadsStep, ClosingStep, LineStep, FuturesStep, CommitsStep DEF IInv
  <2>2. CASE UNCHANGED vars
    <3> USE <2>2 DEF vars, IInv
    <3>1. TypeOK' /\ ThreadsOK' /\ ClosingOK'
      BY Zenon DEF TypeOK, ThreadsOK, ClosingOK
    <3>2. LineOK' /\ FuturesOK' /\ CommitsOK'
      BY DEF LineOK, FuturesOK, CommitsOK, In, Distinct, TakenBy, RunBy
    <3> QED BY <3>1, <3>2
  <2> QED BY <2>1, <2>2
<1> QED BY <1>1, Initially, PTL DEF Spec

\* One thread writes at a time, it is the one on record, and a close that has returned leaves
\* no command behind.
THEOREM SingleWriter == Spec => []WriterDrains
<1>1. IInv => WriterDrains
  <2> SUFFICES ASSUME IInv PROVE WriterDrains
    OBVIOUS
  <2> USE NameAssumption, Types DEF IInv, Dead
  <2>1. OneWriter
    BY DEF OneWriter, ThreadsOK
  <2>2. ASSUME thread = Null PROVE queue = <<>>
    BY <2>2 DEF LineOK
  <2>3. ASSUME thread = Null, NEW c \in Clients PROVE future[c] \notin {"pending", "running"}
    <3>1. ~In(queue, c)
      BY <2>2, <2>3, EmptySeq DEF In
    <3>2. \A n \in Threads : wpc[n] \in Dead
      BY <2>3 DEF ThreadsOK
    <3> QED BY <3>1, <3>2 DEF FuturesOK, TakenBy, RunBy
  <2> QED BY <2>1, <2>2, <2>3 DEF WriterDrains, CloseDrains
<1> QED BY <1>1, Invariance, PTL

\* A Future tells its caller what the database holds.
THEOREM FuturesAreTrue == Spec => []FutureTellsTruth
<1>1. IInv => FutureTellsTruth
  <2> SUFFICES ASSUME IInv, NEW c \in Clients
               PROVE  LET commits == {k \in 1..Len(committed) : committed[k] = c} IN
                      /\ Cardinality(commits) <= 1
                      /\ future[c] = "result" => commits # {}
                      /\ future[c] \in {"exception", "cancelled"} => commits = {}
    BY DEF FutureTellsTruth
  <2> DEFINE commits == {k \in 1..Len(committed) : committed[k] = c}
  <2>1. commits = {} \/ \E k : commits = {k}
    <3> SUFFICES ASSUME NEW k \in commits PROVE commits = {k}
      BY Zenon
    <3>1. \A j \in commits : j = k
      BY DEF IInv, CommitsOK, Distinct
    <3> HIDE DEF commits
    <3> QED BY <3>1
  <2>2. Cardinality(commits) <= 1
    <3> HIDE DEF commits
    <3>1. Cardinality(commits) \in {0, 1}
      BY <2>1, FS_EmptySet, FS_Singleton
    <3> QED BY <3>1
  <2>3. commits # {} <=> In(committed, c)
    BY DEF In
  <2>4. future[c] = "result" => In(committed, c)
    BY DEF IInv, CommitsOK
  <2>5. In(committed, c) => future[c] \in {"result", "running"}
    BY DEF IInv, CommitsOK, FuturesOK, RunBy
  <2> QED BY <2>2, <2>3, <2>4, <2>5
<1> QED BY <1>1, Invariance, PTL

-----------------------------------------------------------------------------
(***************************************************************************)
(* WriterQueue implements SerialExecutor under the mapping of Executor.    *)
(***************************************************************************)
\* The line when nothing is taken, and when one command is.
LineIs ==
    /\ Waiting \in Seq(Clients)
    /\ Taken = {} => Line = Waiting
    /\ \A n \in Taken : Line = <<item[n]>> \o Waiting /\ item[n] \in Clients

LEMMA LineNow == IInv => LineIs
<1> SUFFICES ASSUME IInv PROVE LineIs
  OBVIOUS
<1> USE Types, NameAssumption DEF IInv, LineIs
<1>1. Waiting \in Seq(Clients)
  <2>1. Len(queue) \in Nat /\ \A i \in 1..Len(queue) : queue[i] \in Clients \cup {Stop}
    BY LenProperties, ElementOfSeq
  <2>2. CASE queue # <<>> /\ queue[Len(queue)] = Stop
    <3>1. \A i \in 1..(Len(queue) - 1) : queue[i] \in Clients
      BY <2>1 DEF LineOK
    <3>2. SubSeq(queue, 1, Len(queue) - 1) \in Seq(Clients)
      BY <2>1, <3>1, SubSeqProperties
    <3> QED BY <2>2, <3>2 DEF Waiting
  <2>3. CASE ~(queue # <<>> /\ queue[Len(queue)] = Stop)
    <3>1. \A i \in 1..Len(queue) : queue[i] \in Clients
      BY <2>1, <2>3, EmptySeq DEF LineOK
    <3>2. queue \in Seq(Clients)
      BY <2>1, <3>1, LenProperties
    <3> QED BY <2>3, <3>2 DEF Waiting
  <2> QED BY <2>2, <2>3
<1>2. ASSUME NEW n \in Taken PROVE Taken = {n} /\ item[n] \in Clients
  BY DEF Taken, ThreadsOK, Dead, Busy
<1>3. \A x : Taken = {x} => (CHOOSE n \in Taken : TRUE) = x
  OBVIOUS
<1> QED BY <1>1, <1>2, <1>3, ConcatEmptySeq DEF Line

LEMMA LineNext == IInv' => LineIs'
BY LineNow, PTL

\* The first in line, and the rest.
LEMMA FirstInLine ==
    ASSUME NEW S, NEW e \in S, NEW s \in Seq(S)
    PROVE  /\ <<e>> \o s # <<>> /\ Head(<<e>> \o s) = e /\ Tail(<<e>> \o s) = s
           /\ \A x \in S : <<e>> \o Append(s, x) = Append(<<e>> \o s, x)
<1>1. <<e>> \in Seq(S) /\ Len(<<e>>) = 1 /\ <<e>>[1] = e
  OBVIOUS
<1>2. <<e>> \o s # <<>> /\ Head(<<e>> \o s) = e
  BY <1>1, ConcatProperties, EmptySeq, LenProperties
<1>3. Tail(<<e>> \o s) = s
  <2>1. /\ Tail(<<e>> \o s) \in Seq(S) /\ Len(Tail(<<e>> \o s)) = Len(s) /\ Len(s) \in Nat
    BY <1>1, <1>2, ConcatProperties, HeadTailProperties, LenProperties
  <2>2. \A i \in 1..Len(s) : Tail(<<e>> \o s)[i] = s[i]
    BY <1>1, <1>2, <2>1, ConcatProperties, HeadTailProperties
  <2> QED BY <2>1, <2>2, SeqEqual
<1>4. ASSUME NEW x \in S PROVE <<e>> \o Append(s, x) = Append(<<e>> \o s, x)
  <2>1. <<x>> \in Seq(S) /\ <<e>> \o s \in Seq(S)
    BY <1>1, ConcatProperties
  <2> QED BY <1>1, <2>1, AppendIsConcat, ConcatAssociative
<1> QED BY <1>2, <1>3, <1>4

\* What each change of the queue does to the commands that wait in it.
LEMMA WaitingAfterPut ==
    ASSUME IInv, NEW c \in Clients, SubmitPut(c)
    PROVE  Waiting' = Append(Waiting, c)
<1> USE Types, NameAssumption
<1>0. queue \in Seq(Clients \cup {Stop}) /\ c \in Clients \cup {Stop} /\ queue' = Append(queue, c)
  BY DEF SubmitPut, IInv
<1>1. /\ Len(queue) \in Nat /\ queue' # <<>>
      /\ Len(queue') = Len(queue) + 1 /\ queue'[Len(queue) + 1] = c
  BY <1>0, AddLast
<1>2. ~(queue # <<>> /\ queue[Len(queue)] = Stop)
  BY <1>1, EmptySeq DEF SubmitPut, IInv, LineOK
<1> QED BY <1>1, <1>2 DEF Waiting, SubmitPut

LEMMA WaitingAfterStop ==
    ASSUME IInv, NEW k \in Controllers, CloseStop(k)
    PROVE  Waiting' = Waiting
<1> USE Types, NameAssumption DEF IInv
<1> DEFINE S == Clients \cup {Stop}
<1>1. /\ Len(queue) \in Nat /\ queue' # <<>> /\ queue' \in Seq(S)
      /\ Len(queue') = Len(queue) + 1 /\ queue'[Len(queue) + 1] = Stop
      /\ \A i \in 1..Len(queue) : queue'[i] = queue[i] /\ queue[i] \in S
  BY AddLast, ElementOfSeq DEF CloseStop
<1>2. ~(queue # <<>> /\ queue[Len(queue)] = Stop)
  BY <1>1, EmptySeq DEF CloseStop, LineOK, ClosingOK
<1>3. Waiting' = SubSeq(queue', 1, Len(queue)) /\ Waiting = queue
  BY <1>1, <1>2 DEF Waiting
<1>4. /\ SubSeq(queue', 1, Len(queue)) \in Seq(S)
      /\ Len(SubSeq(queue', 1, Len(queue))) = Len(queue)
      /\ \A i \in 1..Len(queue) : SubSeq(queue', 1, Len(queue))[i] = queue[i]
  <2>1. \A i \in 1..Len(queue) : queue'[i] \in S
    BY <1>1
  <2> HIDE DEF S
  <2>2. /\ SubSeq(queue', 1, Len(queue)) \in Seq(S)
        /\ Len(SubSeq(queue', 1, Len(queue))) = IF 1 <= Len(queue) THEN Len(queue) - 1 + 1 ELSE 0
        /\ \A i \in 1..(Len(queue) - 1 + 1) : SubSeq(queue', 1, Len(queue))[i] = queue'[1 + i - 1]
    BY <1>1, <2>1, SubSeqProperties
  <2> QED BY <1>1, <2>2
<1> QED BY <1>3, <1>4, SeqEqual

LEMMA WaitingAfterGet ==
    ASSUME IInv, NEW n \in Threads, RunGet(n)
    PROVE  /\ Head(queue) = Stop => Waiting' = <<>> /\ Waiting = <<>>
           /\ Head(queue) # Stop => Waiting = <<Head(queue)>> \o Waiting'
<1> USE Types, NameAssumption DEF IInv
<1> DEFINE S == Clients \cup {Stop}
           L == Len(queue)
<1>1. /\ Head(queue) = queue[1] /\ L \in Nat \ {0} /\ Len(queue') = L - 1 /\ queue # <<>>
      /\ \A i \in 1..(L - 1) : queue'[i] = queue[i + 1]
      /\ queue' \in Seq(S) /\ Head(queue) \in S /\ \A i \in 1..L : queue[i] \in S
  BY TakeFirst, ElementOfSeq DEF RunGet
<1>2. CASE Head(queue) = Stop
  <2>1. L = 1
    BY <1>1, <1>2 DEF LineOK
  <2>2. queue' = <<>> /\ SubSeq(queue, 1, L - 1) = <<>>
    BY <1>1, <2>1, EmptySeq, SubSeqEmpty
  <2> QED BY <1>1, <1>2, <2>1, <2>2 DEF Waiting
<1>3. CASE Head(queue) # Stop /\ queue[L] = Stop
  <2>1. L >= 2
    BY <1>1, <1>3
  <2>2. queue' # <<>> /\ queue'[L - 1] = Stop
    BY <1>1, <1>3, <2>1, EmptySeq
  <2>3. Waiting = SubSeq(queue, 1, L - 1) /\ Waiting' = SubSeq(queue', 1, L - 2)
    <3>1. (L - 1) - 1 = L - 2
      BY <1>1
    <3> QED BY <1>1, <1>3, <2>2, <3>1 DEF Waiting
  <2>4. /\ \A i \in 1..(L - 2) : queue'[i] \in S
        /\ \A i \in 1..(L - 1) : queue[i] \in S
        /\ L - 1 \in Int /\ L - 2 \in Int
    BY <1>1
  <2> DEFINE s == SubSeq(queue, 1, L - 1)
             t == SubSeq(queue', 1, L - 2)
  <2>5. s \in Seq(S) /\ Len(s) = L - 1 /\ \A i \in 1..(L - 1) : s[i] = queue[i]
    BY <2>1, <2>4, SubSeqProperties, Z3
  <2>6. t \in Seq(S) /\ Len(t) = L - 2 /\ \A i \in 1..(L - 2) : t[i] = queue'[i]
    <3> DEFINE m == L - 2
    <3>1. m \in Nat /\ \A i \in 1..m : queue'[i] \in S
      BY <2>1, <2>4
    <3> HIDE DEF m, S
    <3>2. /\ SubSeq(queue', 1, m) \in Seq(S)
          /\ Len(SubSeq(queue', 1, m)) = IF 1 <= m THEN m - 1 + 1 ELSE 0
          /\ \A i \in 1..(m - 1 + 1) : SubSeq(queue', 1, m)[i] = queue'[1 + i - 1]
      BY <3>1, SubSeqProperties
    <3>3. SubSeq(queue', 1, m) \in Seq(S) /\ Len(SubSeq(queue', 1, m)) = m
          /\ \A i \in 1..m : SubSeq(queue', 1, m)[i] = queue'[i]
      BY <3>1, <3>2
    <3> QED BY <3>3 DEF m
  <2> HIDE DEF s, t
  <2>7. /\ <<Head(queue)>> \o t \in Seq(S) /\ Len(<<Head(queue)>> \o t) = L - 1
        /\ \A i \in 1..(L - 1) : (<<Head(queue)>> \o t)[i] = IF i = 1 THEN Head(queue) ELSE t[i - 1]
    <3>1. <<Head(queue)>> \in Seq(S) /\ Len(<<Head(queue)>>) = 1 /\ <<Head(queue)>>[1] = Head(queue)
      BY <1>1
    <3> QED BY <1>1, <2>1, <2>6, <3>1, ConcatProperties
  <2>8. ASSUME NEW i \in 1..(L - 1) PROVE s[i] = (<<Head(queue)>> \o t)[i]
    <3>1. CASE i = 1
      BY <1>1, <2>5, <2>7, <3>1
    <3>2. CASE i # 1
      <4>1. i - 1 \in 1..(L - 2) /\ i - 1 \in 1..(L - 1) /\ (i - 1) + 1 = i
        BY <1>1, <3>2
      <4>2. queue'[i - 1] = queue[i]
        BY <1>1, <4>1
      <4> QED BY <2>5, <2>6, <2>7, <3>2, <4>1, <4>2
    <3> QED BY <3>1, <3>2
  <2>9. s = <<Head(queue)>> \o t
    <3>1. Len(s) = Len(<<Head(queue)>> \o t) /\ Len(s) = L - 1
      BY <2>5, <2>7
    <3>2. \A i \in 1..Len(s) : s[i] = (<<Head(queue)>> \o t)[i]
      BY <2>8, <3>1
    <3> HIDE DEF S
    <3> QED BY <2>5, <2>7, <3>1, <3>2, SeqEqual
  <2>10. Waiting = <<Head(queue)>> \o Waiting'
    BY <2>3, <2>9 DEF s, t
  <2> QED BY <1>3, <2>10
<1>4. CASE Head(queue) # Stop /\ queue[L] # Stop
  <2>1. ~(queue' # <<>> /\ queue'[Len(queue')] = Stop)
    <3>1. CASE L = 1
      BY <1>1, <3>1, EmptySeq
    <3>2. CASE L # 1
      <4>1. Len(queue') = L - 1 /\ L - 1 \in 1..(L - 1) /\ (L - 1) + 1 = L
        BY <1>1, <3>2
      <4> QED BY <1>1, <1>4, <4>1
    <3> QED BY <3>1, <3>2
  <2>2. Waiting = queue /\ Waiting' = queue'
    BY <1>4, <2>1 DEF Waiting
  <2>3. <<Head(queue)>> \in Seq(S) /\ Len(<<Head(queue)>>) = 1 /\ <<Head(queue)>>[1] = Head(queue)
    BY <1>1
  <2>4. /\ <<Head(queue)>> \o queue' \in Seq(S) /\ Len(<<Head(queue)>> \o queue') = L
        /\ \A i \in 1..L : (<<Head(queue)>> \o queue')[i] = IF i = 1 THEN Head(queue) ELSE queue'[i - 1]
    BY <1>1, <2>3, ConcatProperties
  <2>5. ASSUME NEW i \in 1..L PROVE queue[i] = (<<Head(queue)>> \o queue')[i]
    <3>1. CASE i = 1
      BY <1>1, <2>4, <3>1
    <3>2. CASE i # 1
      <4>1. i - 1 \in 1..(L - 1) /\ (i - 1) + 1 = i
        BY <1>1, <3>2
      <4> QED BY <1>1, <2>4, <3>2, <4>1
    <3> QED BY <3>1, <3>2
  <2> QED BY <1>4, <2>2, <2>4, <2>5, SeqEqual
<1> QED BY <1>2, <1>3, <1>4

\* An action that keeps the threads' commands and the waiting ones keeps the line.
LEMMA SameLine ==
    ASSUME IInv, IInv', Taken' = Taken, \A n \in Taken : item'[n] = item[n], Waiting' = Waiting
    PROVE  Line' = Line
<1>1. CASE Taken = {}
  BY <1>1, LineNow, LineNext DEF LineIs, Line
<1>2. CASE Taken # {}
  <2>1. PICK n \in Taken : TRUE
    BY <1>2
  <2>2. (CHOOSE m \in Taken : TRUE) \in Taken
    BY <1>2
  <2> QED BY <1>2, <2>2 DEF Line
<1> QED BY <1>1, <1>2

\* An action that changes the fate of one command.
LEMMA FateChanges ==
    ASSUME NEW c \in Clients, NEW f, FateOf(c)' = f,
           \A d \in Clients \ {c} : FateOf(d)' = FateOf(d)
    PROVE  Fate' = [Fate EXCEPT ![c] = f]
BY DEF Fate

\* What a client does: submit, be refused, cancel, or take the result.
LEMMA ClientRefines ==
    ASSUME IInv, IInv', NEW c \in Clients, Submit(c) \/ Cancel(c) \/ Result(c)
    PROVE  [Executor!Next]_(Executor!vars)
<1> USE NameAssumption, Types DEF IInv, submitVars, controlVars, runVars
<1> HIDE DEF TypeOK
<1>0. \A d \in Clients : \A o : Ran(d, o)' <=> Ran(d, o)
  BY DEF Submit, SubmitEnter, SubmitRefused, SubmitPut, SubmitTimeout, Cancel, Result, Ran
<1>1. Taken' = Taken /\ item' = item
  BY DEF Submit, SubmitEnter, SubmitRefused, SubmitPut, SubmitTimeout, Cancel, Result, Taken
<1>2. CASE SubmitEnter(c) \/ Result(c)
  <2>1. Line' = Line
    BY <1>1, <1>2, SameLine DEF SubmitEnter, Result, Waiting
  <2>2. \A d \in Clients : (client'[d] = "refused" <=> client[d] = "refused") /\ future'[d] = future[d]
    BY <1>2 DEF SubmitEnter, Result
  <2>3. Fate' = Fate
    BY <1>0, <2>2 DEF Fate, FateOf
  <2> QED BY <1>2, <2>1, <2>3 DEF SubmitEnter, Result, Executor!vars
<1>3. CASE SubmitRefused(c) \/ SubmitTimeout(c)
  <2>1. Line' = Line
    BY <1>1, <1>3, SameLine DEF SubmitRefused, SubmitTimeout, Waiting
  <2>2. client[c] = "inside" /\ client' = [client EXCEPT ![c] = "refused"] /\ future' = future
    BY <1>3 DEF SubmitRefused, SubmitTimeout
  <2>3. future[c] = "none" /\ ~Ran(c, "succeeded") /\ ~Ran(c, "failed")
    BY <2>2 DEF FuturesOK, RunBy, Ran
  <2>4. Fate[c] = "new"
    BY <2>2, <2>3 DEF Fate, FateOf
  <2>5. Fate' = [Fate EXCEPT ![c] = "refused"]
    <3>1. FateOf(c)' = "refused"
      <4>1. client'[c] = "refused" /\ future'[c] = "none" /\ ~Ran(c, "succeeded")' /\ ~Ran(c, "failed")'
        BY <1>0, <2>2, <2>3
      <4> QED BY <4>1 DEF FateOf
    <3>2. \A d \in Clients \ {c} : FateOf(d)' = FateOf(d)
      BY <1>0, <2>2, <2>3 DEF FateOf
    <3> QED BY <3>1, <3>2, FateChanges
  <2> QED BY <1>3, <2>1, <2>4, <2>5 DEF SubmitRefused, SubmitTimeout, Executor!Next, Executor!Refuse
<1>4. CASE SubmitPut(c)
  <2>1. Waiting' = Append(Waiting, c)
    BY <1>4, WaitingAfterPut
  <2>2. Line' = Append(Line, c)
    <3>1. CASE Taken = {}
      BY <1>1, <2>1, <3>1, LineNow, LineNext DEF LineIs
    <3>2. ASSUME NEW n \in Taken PROVE Line' = Append(Line, c)
      <4>1. item[n] \in Clients /\ Waiting \in Seq(Clients) /\ Line = <<item[n]>> \o Waiting
        BY LineNow DEF LineIs
      <4>2. Line' = <<item[n]>> \o Append(Waiting, c)
        BY <1>1, <2>1, <3>2, LineNext DEF LineIs
      <4> QED BY <4>1, <4>2, FirstInLine
    <3> QED BY <3>1, <3>2
  <2>3. /\ client[c] = "inside" /\ client' = [client EXCEPT ![c] = "waiting"]
        /\ future' = [future EXCEPT ![c] = "pending"]
    BY <1>4 DEF SubmitPut
  <2>4. future[c] = "none" /\ ~Ran(c, "succeeded") /\ ~Ran(c, "failed")
    BY <2>3 DEF FuturesOK, RunBy, Ran
  <2>5. Fate[c] = "new"
    BY <2>3, <2>4 DEF Fate, FateOf
  <2>6. Fate' = [Fate EXCEPT ![c] = "accepted"]
    <3>1. FateOf(c)' = "accepted"
      BY <1>0, <2>3, <2>4 DEF FateOf
    <3>2. \A d \in Clients \ {c} : FateOf(d)' = FateOf(d)
      BY <1>0, <2>3, <2>4 DEF FateOf
    <3> QED BY <3>1, <3>2, FateChanges
  <2> QED BY <1>4, <2>2, <2>5, <2>6 DEF SubmitPut, Executor!Next, Executor!Accept
<1>5. CASE Cancel(c)
  <2>1. Line' = Line
    BY <1>1, <1>5, SameLine DEF Cancel, Waiting
  <2>2. /\ client[c] = "waiting" /\ client' = client
        /\ future[c] = "pending" /\ future' = [future EXCEPT ![c] = "cancelled"]
    BY <1>5 DEF Cancel
  <2>3. ~Ran(c, "succeeded") /\ ~Ran(c, "failed")
    BY <2>2 DEF FuturesOK, RunBy, Ran
  <2>4. Fate[c] = "accepted"
    BY <2>2, <2>3 DEF Fate, FateOf
  <2>5. Fate' = [Fate EXCEPT ![c] = "cancelled"]
    <3>1. FateOf(c)' = "cancelled"
      BY <1>0, <2>2, <2>3 DEF FateOf
    <3>2. \A d \in Clients \ {c} : FateOf(d)' = FateOf(d)
      BY <1>0, <2>2, <2>3 DEF FateOf
    <3> QED BY <3>1, <3>2, FateChanges
  <2> QED BY <1>5, <2>1, <2>4, <2>5 DEF Cancel, Executor!Next, Executor!Cancel
<1> QED BY <1>2, <1>3, <1>4, <1>5 DEF Submit

\* A start opens an empty line, a close closes it, the rest of close is not visible.
LEMMA ControllerRefines ==
    ASSUME IInv, IInv', NEW k \in Controllers, Start(k) \/ Close(k)
    PROVE  [Executor!Next]_(Executor!vars)
<1> USE NameAssumption, Types DEF IInv, submitVars, controlVars, runVars
<1> HIDE DEF TypeOK
<1>0. \A d \in Clients, o \in {"succeeded", "failed"} : Ran(d, o)' <=> Ran(d, o)
  BY DEF Start, Close, CloseEnter, CloseAgain, CloseStop, CloseJoined, CloseReset, Ran, ThreadsOK, Busy
<1>1. Fate' = Fate
  BY <1>0 DEF Fate, FateOf, Start, Close, CloseEnter, CloseAgain, CloseStop, CloseJoined, CloseReset
<1>2. Taken' = Taken /\ item' = item
  BY DEF Start, Close, CloseEnter, CloseAgain, CloseStop, CloseJoined, CloseReset, Taken, ThreadsOK
<1>3. Line' = Line
  <2>1. Waiting' = Waiting
    <3>1. CASE CloseStop(k)
      BY <3>1, WaitingAfterStop
    <3>2. CASE ~CloseStop(k)
      BY <3>2 DEF Start, Close, CloseEnter, CloseAgain, CloseJoined, CloseReset, Waiting
    <3> QED BY <3>1, <3>2
  <2> QED BY <1>2, <2>1, SameLine
<1>4. CASE Start(k)
  <2>1. Line = <<>>
    <3>1. queue = <<>>
      BY <1>4 DEF Start, LineOK
    <3>2. Taken = {}
      BY <1>4 DEF Start, Taken, ThreadsOK, Dead
    <3> QED BY <3>1, <3>2, LineNow, LineNext DEF LineIs, Waiting
  <2>2. ~accepting
    BY <1>4 DEF Start, ThreadsOK
  <2> QED BY <1>1, <1>3, <1>4, <2>1, <2>2 DEF Start, Executor!Next, Executor!Open
<1>5. CASE CloseEnter(k)
  BY <1>1, <1>3, <1>5 DEF CloseEnter, Executor!Next, Executor!Close
<1>6. CASE CloseAgain(k) \/ CloseStop(k) \/ CloseJoined(k) \/ CloseReset(k)
  BY <1>1, <1>3, <1>6 DEF CloseAgain, CloseStop, CloseJoined, CloseReset, Executor!vars
<1> QED BY <1>4, <1>5, <1>6 DEF Close

\* The thread commits, fails or skips the first in line; its other steps are not visible.
LEMMA ThreadRefines ==
    ASSUME IInv, IInv', NEW n \in Threads, Run(n)
    PROVE  [Executor!Next]_(Executor!vars)
<1> USE NameAssumption, Types DEF IInv, submitVars, controlVars, runVars
<1> HIDE DEF TypeOK
<1>1. \A m \in Threads : m # n => wpc[m] \in Dead /\ item[m] = Null
  BY DEF Run, RunBoot, RunGet, RunBegin, RunCommit, RunRollback, RunResolve, ThreadsOK, Dead, Busy
<1>2. ASSUME wpc[n] \in {"got", "transaction"}
      PROVE  /\ Line # <<>> /\ Head(Line) = item[n] /\ Tail(Line) = Waiting
             /\ Taken = {n} /\ item[n] \in Clients
  <2>1. Taken = {n}
    BY <1>1, <1>2 DEF Taken, Dead
  <2>2. item[n] \in Clients /\ Waiting \in Seq(Clients) /\ Line = <<item[n]>> \o Waiting
    BY <2>1, LineNow DEF LineIs
  <2> QED BY <2>1, <2>2, FirstInLine
<1>3. ASSUME wpc[n] \notin {"got", "transaction"} PROVE Line = Waiting /\ Taken = {}
  BY <1>1, <1>3, LineNow, LineNext DEF LineIs, Taken, Dead
<1>4. CASE RunBoot(n)
  <2>1. Line' = Line
    BY <1>1, <1>4, SameLine DEF RunBoot, Taken, Waiting
  <2>2. \A d \in Clients, o \in {"succeeded", "failed"} : Ran(d, o)' <=> Ran(d, o)
    BY <1>4 DEF RunBoot, Ran
  <2>3. Fate' = Fate
    BY <1>4, <2>2 DEF RunBoot, Fate, FateOf
  <2> QED BY <1>4, <2>1, <2>3 DEF RunBoot, Executor!vars
<1>5. CASE RunGet(n)
  <2>1. Line = Waiting
    BY <1>3, <1>5 DEF RunGet
  <2>2. Line' = Line
    <3>1. CASE Head(queue) = Stop
      <4>1. Taken' = {}
        BY <1>1, <1>5, <3>1 DEF RunGet, Taken, Dead
      <4> QED BY <1>5, <2>1, <3>1, <4>1, LineNow, LineNext, WaitingAfterGet DEF LineIs
    <3>2. CASE Head(queue) # Stop
      <4>1. n \in Taken' /\ item'[n] = Head(queue)
        BY <1>5, <3>2 DEF RunGet, Taken
      <4>2. Line' = <<item'[n]>> \o Waiting'
        BY <4>1, LineNow, LineNext DEF LineIs
      <4> QED BY <1>5, <2>1, <3>2, <4>1, <4>2, WaitingAfterGet
    <3> QED BY <3>1, <3>2
  <2>3. \A d \in Clients, o \in {"succeeded", "failed"} : Ran(d, o)' <=> Ran(d, o)
    BY <1>1, <1>5 DEF RunGet, Ran, Dead
  <2>4. Fate' = Fate
    BY <1>5, <2>3 DEF RunGet, Fate, FateOf
  <2> QED BY <1>5, <2>2, <2>4 DEF RunGet, Executor!vars
<1>6. CASE RunBegin(n)
  <2>1. \A d \in Clients, o \in {"succeeded", "failed"} : Ran(d, o)' <=> Ran(d, o)
    BY <1>1, <1>6 DEF RunBegin, Ran, Dead
  <2>2. Waiting' = Waiting
    BY <1>6 DEF RunBegin, Waiting
  <2>3. wpc[n] = "got" /\ item[n] \in Clients
    BY <1>2, <1>6 DEF RunBegin
  <2>4. CASE future[item[n]] = "cancelled"
    <3>1. Fate' = Fate /\ Fate[item[n]] = "cancelled"
      <4>1. client[item[n]] # "refused"
        BY <2>3, <2>4 DEF FuturesOK
      <4>2. ~Ran(item[n], "succeeded") /\ ~Ran(item[n], "failed")
        BY <1>1, <2>3 DEF Ran
      <4> QED BY <1>6, <2>1, <2>3, <2>4, <4>1, <4>2 DEF RunBegin, Fate, FateOf
    <3>2. Line' = Tail(Line)
      <4>1. Taken' = {}
        BY <1>1, <1>6, <2>4 DEF RunBegin, Taken, Dead
      <4> QED BY <1>2, <2>2, <2>3, <4>1, LineNow, LineNext DEF LineIs
    <3> QED BY <1>2, <1>6, <2>3, <3>1, <3>2 DEF RunBegin, Executor!Next, Executor!Skip
  <2>5. CASE future[item[n]] # "cancelled"
    <3>1. future[item[n]] = "pending"
      BY <2>3, <2>5 DEF FuturesOK, TakenBy
    <3>2. Fate' = Fate
      BY <1>6, <2>1, <2>3, <2>5, <3>1 DEF RunBegin, Fate, FateOf
    <3>3. Line' = Line
      <4>1. Taken' = Taken /\ item' = item
        BY <1>6, <2>5 DEF RunBegin, Taken
      <4> QED BY <2>2, <4>1, SameLine
    <3> QED BY <1>6, <3>2, <3>3 DEF RunBegin, Executor!vars
  <2> QED BY <2>4, <2>5
<1>7. CASE RunCommit(n) \/ RunRollback(n)
  <2> DEFINE f == IF RunCommit(n) THEN "committed" ELSE "failed"
  <2>0. PICK o \in {"succeeded", "failed"} :
           wpc' = [wpc EXCEPT ![n] = o] /\ o = IF RunCommit(n) THEN "succeeded" ELSE "failed"
    BY <1>7 DEF RunCommit, RunRollback
  <2>1. wpc[n] = "transaction"
    BY <1>7 DEF RunCommit, RunRollback
  <2>2. PICK c \in Clients : c = item[n] /\ future[c] = "running" /\ client[c] # "refused"
    BY <1>2, <2>1 DEF FuturesOK, RunBy
  <2>3. item' = item /\ future' = future /\ client' = client /\ queue' = queue
    BY <1>7 DEF RunCommit, RunRollback
  <2> HIDE DEF f
  <2>4. Line' = Tail(Line)
    <3>1. Taken' = {}
      BY <1>1, <2>0 DEF Taken, Dead
    <3>2. Waiting' = Waiting
      BY <2>3 DEF Waiting
    <3> QED BY <1>2, <2>1, <3>1, <3>2, LineNow, LineNext DEF LineIs
  <2>5. Fate[c] = "accepted"
    BY <1>1, <2>1, <2>2 DEF Fate, FateOf, Ran
  <2>6. \A d \in Clients : (Ran(d, "succeeded") <=> FALSE) /\ (Ran(d, "failed") <=> FALSE)
    BY <1>1, <2>1 DEF Ran
  <2>7. \A d \in Clients : /\ Ran(d, "succeeded")' <=> d = c /\ o = "succeeded"
                           /\ Ran(d, "failed")' <=> d = c /\ o = "failed"
    BY <1>1, <2>0, <2>2, <2>3 DEF Ran
  <2>8. Fate' = [Fate EXCEPT ![c] = f]
    <3>1. FateOf(c)' = f
      <4>1. CASE o = "succeeded"
        BY <2>0, <2>7, <4>1 DEF FateOf, f
      <4>2. CASE o = "failed"
        BY <2>0, <2>2, <2>3, <2>7, <4>2 DEF FateOf, f
      <4> QED BY <4>1, <4>2
    <3>2. \A d \in Clients \ {c} : FateOf(d)' = FateOf(d)
      BY <2>3, <2>6, <2>7 DEF FateOf
    <3> QED BY <3>1, <3>2, FateChanges
  <2>9. CASE RunCommit(n)
    BY <1>2, <2>1, <2>2, <2>4, <2>5, <2>8, <2>9 DEF f, RunCommit, Executor!Next, Executor!Commit
  <2>10. CASE ~RunCommit(n)
    BY <1>2, <1>7, <2>1, <2>2, <2>4, <2>5, <2>8, <2>10 DEF f, RunRollback, Executor!Next, Executor!Fail
  <2> QED BY <2>9, <2>10
<1>8. CASE RunResolve(n)
  <2>1. PICK c \in Clients : c = item[n] /\ wpc[n] \in {"succeeded", "failed"} /\ future[c] = "running"
    BY <1>8 DEF RunResolve, ThreadsOK, Busy, FuturesOK, RunBy
  <2>2. client[c] # "refused"
    BY <2>1 DEF FuturesOK
  <2>3. Line' = Line
    <3>1. Taken' = {}
      BY <1>1, <1>8 DEF RunResolve, Taken, Dead
    <3>2. Waiting' = Waiting
      BY <1>8 DEF RunResolve, Waiting
    <3> QED BY <1>3, <2>1, <3>1, <3>2, LineNow, LineNext DEF LineIs
  <2>4. \A d \in Clients : ~Ran(d, "succeeded")' /\ ~Ran(d, "failed")'
    BY <1>1, <1>8 DEF RunResolve, Ran
  <2>5. \A d \in Clients : /\ Ran(d, "succeeded") <=> d = c /\ wpc[n] = "succeeded"
                           /\ Ran(d, "failed") <=> d = c /\ wpc[n] = "failed"
    BY <1>1, <2>1 DEF Ran
  <2>6. \A d \in Clients : /\ client'[d] = client[d]
                           /\ future'[d] = IF d = c THEN IF wpc[n] = "succeeded" THEN "result" ELSE "exception"
                                           ELSE future[d]
    BY <1>8, <2>1 DEF RunResolve
  <2>7. Fate' = Fate
    BY <2>1, <2>2, <2>4, <2>5, <2>6 DEF Fate, FateOf
  <2> QED BY <1>8, <2>3, <2>7 DEF RunResolve, Executor!vars
<1> QED BY <1>4, <1>5, <1>6, <1>7, <1>8 DEF Run

\* WriterQueue (submit, close, _run) is a serial executor: commands commit one at a time in the
\* order they were accepted, each at most once, none is accepted while the queue is closed,
\* and a restarted queue starts from an empty line.
THEOREM Refinement == Spec => SerialExecution
<1>1. Init => Executor!Init
  <2> SUFFICES ASSUME Init PROVE Executor!Init
    OBVIOUS
  <2>1. Taken = {} /\ Waiting = <<>>
    BY DEF Init, Taken, Waiting
  <2>2. Line = <<>>
    BY <2>1, Initially, LineNow, LineNext DEF LineIs
  <2>3. Fate = [c \in Clients |-> "new"]
    BY NameAssumption DEF Init, Fate, FateOf, Ran
  <2> QED BY <2>2, <2>3 DEF Init, Executor!Init
<1>2. IInv /\ IInv' /\ [Next]_vars => [Executor!Next]_(Executor!vars)
  <2> SUFFICES ASSUME IInv, IInv', [Next]_vars PROVE [Executor!Next]_(Executor!vars)
    OBVIOUS
  <2>1. CASE Next
    BY <2>1, ClientRefines, ControllerRefines, ThreadRefines DEF Next
  <2>2. CASE UNCHANGED vars
    BY <2>2 DEF vars, Executor!vars, Line, Taken, Waiting, Fate, FateOf, Ran
  <2> QED BY <2>1, <2>2
<1> QED BY <1>1, <1>2, Invariance, PTL DEF Spec, SerialExecution, Executor!Spec
=============================================================================
