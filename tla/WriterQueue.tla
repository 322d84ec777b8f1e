---------------------------- MODULE WriterQueue ----------------------------
(***************************************************************************)
(* WriterQueue (market_monitor_persistence/writer.py): one bounded queue   *)
(* and one thread that runs every write command of a process, each in its  *)
(* own SQLite transaction.                                                 *)
(*                                                                         *)
(* submit holds _state_lock while its put blocks on a full queue, and so   *)
(* does close while it puts the stop object; the writer thread never takes *)
(* the lock.  A client thread submits one command, so a command is named   *)
(* by its client.  Controllers (the application lifespan and its error     *)
(* paths) start and close the queue, possibly several times; every start   *)
(* makes a new thread, named by its number.                                *)
(***************************************************************************)
EXTENDS Naturals, Sequences, FiniteSets

CONSTANTS
    Controllers,   \* threads that call start and close
    Clients,       \* the commands, one per submitting thread
    Timed,         \* clients that call submit with a timeout
    Nested,        \* commands whose body calls submit again
    MaxSize,       \* maxsize of the queue
    MaxStarts,     \* bound on the number of starts
    Stop,          \* the stop object
    Null

ASSUME MaxSizeAssumption == MaxSize \in Nat \ {0} /\ MaxStarts \in Nat

ASSUME NameAssumption ==
    /\ Timed \subseteq Clients /\ Nested \subseteq Clients
    /\ Stop \notin Clients /\ Null \notin Clients \cup Controllers \cup Nat /\ Stop # Null
    /\ Clients \cap Controllers = {}

\* Every queue of the program is started and closed by the thread that made it; a queue that
\* several threads close is started once.
ASSUME OwnerAssumption == MaxStarts <= 1 \/ \A j, k \in Controllers : j = k

Threads == 1..MaxStarts

VARIABLES
    queue,      \* the bounded queue: commands and the stop object
    lock,       \* holder of _state_lock: a client or a controller, or Null
    accepting,  \* _accepting
    thread,     \* _thread: number of the current thread, or Null
    ident,      \* _worker_ident: number of the thread that runs commands, or Null
    starts,     \* number of threads made so far
    control,    \* where each controller is in close
    joining,    \* the thread each controller's close is joining
    client,     \* where each client is in submit
    future,     \* state of each command's Future
    wpc,        \* where each writer thread is in _run
    item,       \* the item each writer thread took from the queue
    committed,  \* the database: committed commands in commit order
    accepted    \* history: commands in the order they entered the queue

vars == <<queue, lock, accepting, thread, ident, starts, control, joining, client,
          future, wpc, item, committed, accepted>>

submitVars == <<client, future, accepted>>
controlVars == <<accepting, thread, starts, control, joining>>
runVars == <<ident, wpc, item, committed>>

Init ==
    /\ queue = <<>> /\ lock = Null /\ accepting = FALSE
    /\ thread = Null /\ ident = Null /\ starts = 0
    /\ control = [k \in Controllers |-> "idle"]
    /\ joining = [k \in Controllers |-> Null]
    /\ client = [c \in Clients |-> "idle"]
    /\ future = [c \in Clients |-> "none"]
    /\ wpc = [n \in Threads |-> "unborn"]
    /\ item = [n \in Threads |-> Null]
    /\ committed = <<>> /\ accepted = <<>>

-----------------------------------------------------------------------------
\* submit passes the reentrancy check (the caller is no writer thread) and takes the lock.
SubmitEnter(c) ==
    /\ client[c] = "idle"
    /\ lock = Null
    /\ lock' = c
    /\ client' = [client EXCEPT ![c] = "inside"]
    /\ UNCHANGED <<queue, future, accepted, controlVars, runVars>>

\* WriterQueueClosedError
SubmitRefused(c) ==
    /\ client[c] = "inside"
    /\ ~accepting
    /\ lock' = Null
    /\ client' = [client EXCEPT ![c] = "refused"]
    /\ UNCHANGED <<queue, future, accepted, controlVars, runVars>>

\* The put succeeds, at once or after waiting for a free slot.
SubmitPut(c) ==
    /\ client[c] = "inside"
    /\ accepting
    /\ Len(queue) < MaxSize
    /\ queue' = Append(queue, c)
    /\ accepted' = Append(accepted, c)
    /\ future' = [future EXCEPT ![c] = "pending"]
    /\ client' = [client EXCEPT ![c] = "waiting"]
    /\ lock' = Null
    /\ UNCHANGED <<controlVars, runVars>>

\* WriterQueueFullError
SubmitTimeout(c) ==
    /\ client[c] = "inside"
    /\ accepting
    /\ c \in Timed
    /\ Len(queue) >= MaxSize
    /\ lock' = Null
    /\ client' = [client EXCEPT ![c] = "refused"]
    /\ UNCHANGED <<queue, future, accepted, controlVars, runVars>>

\* The holder of the Future cancels it before the writer thread begins the command.
Cancel(c) ==
    /\ client[c] = "waiting"
    /\ future[c] = "pending"
    /\ future' = [future EXCEPT ![c] = "cancelled"]
    /\ UNCHANGED <<queue, lock, client, accepted, controlVars, runVars>>

\* result() returns or raises once the Future is resolved.
Result(c) ==
    /\ client[c] = "waiting"
    /\ future[c] \in {"cancelled", "result", "exception"}
    /\ client' = [client EXCEPT ![c] = "done"]
    /\ UNCHANGED <<queue, lock, future, accepted, controlVars, runVars>>

-----------------------------------------------------------------------------
\* start() makes a thread, unless there is one.
Start(k) ==
    /\ control[k] = "idle"
    /\ lock = Null
    /\ thread = Null
    /\ starts < MaxStarts
    /\ accepting' = TRUE
    /\ starts' = starts + 1
    /\ thread' = starts + 1
    /\ wpc' = [wpc EXCEPT ![starts + 1] = "boot"]
    /\ UNCHANGED <<queue, lock, control, joining, submitVars, ident, item, committed>>

\* close() takes the lock and stops the acceptance of commands.
CloseEnter(k) ==
    /\ control[k] = "idle"
    /\ lock = Null
    /\ thread # Null
    /\ accepting
    /\ accepting' = FALSE
    /\ lock' = k
    /\ joining' = [joining EXCEPT ![k] = thread]
    /\ control' = [control EXCEPT ![k] = "stopping"]
    /\ UNCHANGED <<queue, thread, starts, submitVars, runVars>>

\* A close() that finds another one under way only joins.
CloseAgain(k) ==
    /\ control[k] = "idle"
    /\ lock = Null
    /\ thread # Null
    /\ ~accepting
    /\ joining' = [joining EXCEPT ![k] = thread]
    /\ control' = [control EXCEPT ![k] = "joining"]
    /\ UNCHANGED <<queue, lock, accepting, thread, starts, submitVars, runVars>>

\* Faulty variant: the stop object goes to the front of the queue.
CloseStopAtFront(k) ==
    /\ control[k] = "stopping"
    /\ Len(queue) < MaxSize
    /\ queue' = <<Stop>> \o queue
    /\ lock' = Null
    /\ control' = [control EXCEPT ![k] = "joining"]
    /\ UNCHANGED <<accepting, thread, starts, joining, submitVars, runVars>>

\* The stop object enters the queue, after every accepted command.
CloseStop(k) ==
    /\ control[k] = "stopping"
    /\ Len(queue) < MaxSize
    /\ queue' = Append(queue, Stop)
    /\ lock' = Null
    /\ control' = [control EXCEPT ![k] = "joining"]
    /\ UNCHANGED <<accepting, thread, starts, joining, submitVars, runVars>>

\* thread.join() returns when the thread has ended.
CloseJoined(k) ==
    /\ control[k] = "joining"
    /\ wpc[joining[k]] = "ended"
    /\ control' = [control EXCEPT ![k] = "resetting"]
    /\ UNCHANGED <<queue, lock, accepting, thread, starts, joining, submitVars, runVars>>

\* close() forgets the thread.
CloseReset(k) ==
    /\ control[k] = "resetting"
    /\ lock = Null
    /\ thread' = Null
    /\ ident' = Null
    /\ joining' = [joining EXCEPT ![k] = Null]
    /\ control' = [control EXCEPT ![k] = "idle"]
    /\ UNCHANGED <<queue, lock, accepting, starts, submitVars, wpc, item, committed>>

-----------------------------------------------------------------------------
\* Faulty variant: the thread id is not noted.
RunBootUnnamed(n) ==
    /\ wpc[n] = "boot"
    /\ wpc' = [wpc EXCEPT ![n] = "get"]
    /\ UNCHANGED <<queue, lock, controlVars, submitVars, ident, item, committed>>

\* _run notes its thread id.
RunBoot(n) ==
    /\ wpc[n] = "boot"
    /\ ident' = n
    /\ wpc' = [wpc EXCEPT ![n] = "get"]
    /\ UNCHANGED <<queue, lock, controlVars, submitVars, item, committed>>

\* Faulty variant: the most recent item is taken first.
RunGetLast(n) ==
    /\ wpc[n] = "get"
    /\ queue # <<>>
    /\ queue' = SubSeq(queue, 1, Len(queue) - 1)
    /\ IF queue[Len(queue)] = Stop
       THEN wpc' = [wpc EXCEPT ![n] = "ended"] /\ UNCHANGED item
       ELSE /\ wpc' = [wpc EXCEPT ![n] = "got"]
            /\ item' = [item EXCEPT ![n] = queue[Len(queue)]]
    /\ UNCHANGED <<lock, controlVars, submitVars, ident, committed>>

\* The thread takes the next item; the stop object ends it.
RunGet(n) ==
    /\ wpc[n] = "get"
    /\ queue # <<>>
    /\ queue' = Tail(queue)
    /\ IF Head(queue) = Stop
       THEN wpc' = [wpc EXCEPT ![n] = "ended"] /\ UNCHANGED item
       ELSE /\ wpc' = [wpc EXCEPT ![n] = "got"]
            /\ item' = [item EXCEPT ![n] = Head(queue)]
    /\ UNCHANGED <<lock, controlVars, submitVars, ident, committed>>

\* Faulty variant: a cancelled command is run all the same.
RunBeginUnchecked(n) ==
    /\ wpc[n] = "got"
    /\ wpc' = [wpc EXCEPT ![n] = "transaction"]
    /\ future' = IF future[item[n]] = "cancelled" THEN future
                 ELSE [future EXCEPT ![item[n]] = "running"]
    /\ UNCHANGED <<queue, lock, controlVars, client, accepted, ident, item, committed>>

\* set_running_or_notify_cancel: a cancelled command is skipped, another one begins.
RunBegin(n) ==
    /\ wpc[n] = "got"
    /\ IF future[item[n]] = "cancelled"
       THEN /\ wpc' = [wpc EXCEPT ![n] = "get"]
            /\ item' = [item EXCEPT ![n] = Null]
            /\ UNCHANGED future
       ELSE /\ wpc' = [wpc EXCEPT ![n] = "transaction"]
            /\ future' = [future EXCEPT ![item[n]] = "running"]
            /\ UNCHANGED item
    /\ UNCHANGED <<queue, lock, controlVars, client, accepted, ident, committed>>

\* The command returned and its transaction commits.
RunCommit(n) ==
    /\ wpc[n] = "transaction"
    /\ item[n] \notin Nested
    /\ committed' = Append(committed, item[n])
    /\ wpc' = [wpc EXCEPT ![n] = "succeeded"]
    /\ UNCHANGED <<queue, lock, controlVars, submitVars, ident, item>>

\* The command raised or SQLite was busy, and the transaction is rolled back.  A nested
\* submit raises when the thread is the one on record, and waits for itself otherwise.
RunRollback(n) ==
    /\ wpc[n] = "transaction"
    /\ item[n] \in Nested => ident = n
    /\ wpc' = [wpc EXCEPT ![n] = "failed"]
    /\ UNCHANGED <<queue, lock, controlVars, submitVars, ident, item, committed>>

\* set_result or set_exception
RunResolve(n) ==
    /\ wpc[n] \in {"succeeded", "failed"}
    /\ future' = [future EXCEPT ![item[n]] =
                     IF wpc[n] = "succeeded" THEN "result" ELSE "exception"]
    /\ wpc' = [wpc EXCEPT ![n] = "get"]
    /\ item' = [item EXCEPT ![n] = Null]
    /\ UNCHANGED <<queue, lock, controlVars, client, accepted, ident, committed>>

Submit(c) == SubmitEnter(c) \/ SubmitRefused(c) \/ SubmitPut(c) \/ SubmitTimeout(c)

Close(k) == CloseEnter(k) \/ CloseAgain(k) \/ CloseStop(k) \/ CloseJoined(k) \/ CloseReset(k)

Run(n) == RunBoot(n) \/ RunGet(n) \/ RunBegin(n) \/ RunCommit(n) \/ RunRollback(n) \/ RunResolve(n)

Next ==
    \/ \E c \in Clients : Submit(c) \/ Cancel(c) \/ Result(c)
    \/ \E k \in Controllers : Start(k) \/ Close(k)
    \/ \E n \in Threads : Run(n)

Spec == Init /\ [][Next]_vars

\* The threads run, and a waiting lock or put is served.
FairSpec ==
    /\ Spec
    /\ \A n \in Threads : WF_vars(Run(n))
    /\ \A c \in Clients : WF_vars(SubmitRefused(c) \/ SubmitPut(c) \/ SubmitTimeout(c))
    /\ \A k \in Controllers :
          WF_vars(CloseStop(k)) /\ WF_vars(CloseJoined(k)) /\ WF_vars(CloseReset(k))

-----------------------------------------------------------------------------
\* Types of the queue, the threads and the Futures; the queue respects its maxsize.
TypeOK ==
    /\ queue \in Seq(Clients \cup {Stop}) /\ Len(queue) <= MaxSize
    /\ lock \in Clients \cup Controllers \cup {Null}
    /\ accepting \in BOOLEAN
    /\ thread \in Threads \cup {Null} /\ ident \in Threads \cup {Null}
    /\ starts \in 0..MaxStarts
    /\ control \in [Controllers -> {"idle", "stopping", "joining", "resetting"}]
    /\ joining \in [Controllers -> Threads \cup {Null}]
    /\ client \in [Clients -> {"idle", "inside", "refused", "waiting", "done"}]
    /\ future \in [Clients -> {"none", "pending", "running", "cancelled", "result", "exception"}]
    /\ wpc \in [Threads -> {"unborn", "boot", "get", "got", "transaction", "succeeded",
                            "failed", "ended"}]
    /\ item \in [Threads -> Clients \cup {Null}]
    /\ committed \in Seq(Clients) /\ accepted \in Seq(Clients)

\* At most one thread runs, and it is the one on record (so that the reentrancy check of
\* submit recognises it): two write transactions of a
\* process never overlap, across any number of restarts of the queue.
OneWriter ==
    \A n \in Threads : wpc[n] \notin {"unborn", "ended"} =>
        /\ thread = n
        /\ wpc[n] # "boot" => ident = n
        /\ \A m \in Threads \ {n} : wpc[m] \in {"unborn", "ended"}

\* When close has returned no accepted command is left behind: the queue is empty and
\* every Future that was handed out is resolved.
CloseDrains ==
    thread = Null =>
        /\ queue = <<>>
        /\ \A c \in Clients : future[c] \notin {"pending", "running"}

\* What an owner of the queue relies on: one thread writes, and close leaves nothing behind.
WriterDrains == TypeOK /\ OneWriter /\ CloseDrains

\* A caller that sees a result has its command committed, one that sees an exception or
\* a cancellation has not, and no command is committed twice.
FutureTellsTruth ==
    /\ \A c \in Clients :
          LET commits == {k \in 1..Len(committed) : committed[k] = c} IN
          /\ Cardinality(commits) <= 1
          /\ future[c] = "result" => commits # {}
          /\ future[c] \in {"exception", "cancelled"} => commits = {}

\* A submit or a close blocked on a full queue, with the lock held, is always released:
\* every submit returns or raises, every accepted command is resolved, and every close
\* returns.
NothingBlocksForever ==
    /\ \A c \in Clients :
          /\ client[c] = "inside" ~> client[c] # "inside"
          /\ future[c] \in {"pending", "running"} ~> future[c] \notin {"pending", "running"}
    /\ \A k \in Controllers : control[k] # "idle" ~> control[k] = "idle"

-----------------------------------------------------------------------------
\* The commands still in line: the one a thread has taken and not finished, and the queue
\* without the stop object, which enters last.
Taken == {n \in Threads : wpc[n] \in {"got", "transaction"}}
Waiting == IF queue # <<>> /\ queue[Len(queue)] = Stop
           THEN SubSeq(queue, 1, Len(queue) - 1) ELSE queue
Line == (IF Taken = {} THEN <<>> ELSE <<item[CHOOSE n \in Taken : TRUE]>>) \o Waiting

\* What became of a command: its thread knows before its Future does.
Ran(c, outcome) == \E n \in Threads : item[n] = c /\ wpc[n] = outcome
FateOf(c) ==
    IF Ran(c, "succeeded") \/ future[c] = "result" THEN "committed"
    ELSE IF Ran(c, "failed") \/ future[c] = "exception" THEN "failed"
    ELSE IF future[c] = "none" THEN IF client[c] = "refused" THEN "refused" ELSE "new"
    ELSE IF future[c] = "cancelled" THEN "cancelled" ELSE "accepted"
Fate == [c \in Clients |-> FateOf(c)]

Executor == INSTANCE SerialExecutor WITH
    Commands <- Clients, open <- accepting, line <- Line, log <- committed, fate <- Fate

\* WriterQueue is a serial executor: commands commit one at a time in the order they were
\* accepted, exactly once, and a restarted queue starts from an empty line.
SerialExecution == Executor!Spec
=============================================================================
