------------------------------- MODULE MCLive -------------------------------
(***************************************************************************)
(* The writer queue, and what must eventually happen, one behaviour at a   *)
(* time: `part' says which of the components moves, the others stay in     *)
(* their initial state.  The writer is the one of WriterQueue itself.      *)
(*   writer    a queue of two places, three submitters, two starts         *)
(*   closers   a queue of one place, started once, two closers             *)
(*   api       two requests for one query and one backup, one crash or one *)
(*             failure; the newest commit can be one no query can evaluate *)
(* The fairness of each part is the one its module states and justifies.   *)
(***************************************************************************)
EXTENDS WriterQueue, TLC

CONSTANTS k1, k2,         \* threads that start and close the writer
          c1, c2, c3,     \* threads that submit
          r1, r2, q1, b1  \* requests and idempotency keys

VARIABLE part
VARIABLES closing, joined, closeLock   \* control, joining and lock of the two closers
VARIABLES row, active, apiLock, record, chain, file, source, recent, req, crashes, failures

closersVars == <<queue, closeLock, accepting, thread, ident, starts, closing, joined, client,
                 future, wpc, item, committed, accepted>>
writerVars == <<vars, closing, joined, closeLock>>
apiVars == <<row, active, apiLock, record, chain, file, source, recent, req, crashes, failures>>

Closers == INSTANCE WriterQueue WITH
  Controllers <- {k1, k2}, MaxSize <- 1, lock <- closeLock, control <- closing,
  joining <- joined
Answered == INSTANCE ApiWrites WITH
  Request <- {r1, r2}, QueryKey <- {q1}, BackupKey <- {b1}, Body <- {"x"}, Stages <- 2,
  Limit <- 1, lock <- apiLock, MaxSource <- 2, Realtime <- {}, Unmeasured <- {2},
  MaxCrashes <- 1, MaxFailures <- 1

LiveInit ==
  /\ part \in {"writer", "closers", "api"}
  /\ Init /\ Closers!Init /\ Answered!Init

LiveNext ==
  \/ /\ part = "writer" /\ Next
     /\ UNCHANGED <<part, closing, joined, closeLock, apiVars>>
  \/ /\ part = "closers" /\ Closers!Next /\ starts' <= 1
     /\ UNCHANGED <<part, lock, control, joining, apiVars>>
  \/ /\ part = "api" /\ Answered!Next /\ crashes' + failures' <= 1
     /\ UNCHANGED <<part, writerVars>>

\* WriterQueue.FairSpec.
WriterFairness ==
  /\ \A n \in Threads : WF_vars(part = "writer" /\ Run(n))
  /\ \A c \in Clients :
       WF_vars(part = "writer" /\ (SubmitRefused(c) \/ SubmitPut(c) \/ SubmitTimeout(c)))
  /\ \A k \in Controllers : /\ WF_vars(part = "writer" /\ CloseStop(k))
                            /\ WF_vars(part = "writer" /\ CloseJoined(k))
                            /\ WF_vars(part = "writer" /\ CloseReset(k))
ClosersFairness ==
  /\ WF_closersVars(part = "closers" /\ Closers!Run(1))
  /\ \A c \in Clients :
       WF_closersVars(/\ part = "closers"
                      /\ \/ Closers!SubmitRefused(c) \/ Closers!SubmitPut(c)
                         \/ Closers!SubmitTimeout(c))
  /\ \A k \in {k1, k2} : /\ WF_closersVars(part = "closers" /\ Closers!CloseStop(k))
                         /\ WF_closersVars(part = "closers" /\ Closers!CloseJoined(k))
                         /\ WF_closersVars(part = "closers" /\ Closers!CloseReset(k))

\* ApiWrites.Fairness.
ApiFairness ==
  /\ \A r \in {r1, r2} : WF_apiVars(part = "api" /\ Answered!Step(r))
  /\ \A k \in {q1, b1} : WF_apiVars(part = "api" /\ Answered!Expire(k))
  /\ WF_apiVars(part = "api" /\ Answered!Minute)

LiveSpec ==
  /\ LiveInit
  /\ [][LiveNext]_<<part, writerVars, apiVars>>
  /\ WriterFairness /\ ClosersFairness /\ ApiFairness

\* writer.py: every submit and close returns, every accepted command is resolved, whether one
\* thread closes the queue or two (WriterQueue.NothingBlocksForever).
EveryCallReturns ==
  /\ NothingBlocksForever
  /\ \A k \in {k1, k2} : closing[k] # "idle" ~> closing[k] = "idle"

\* writes.py:199: a claimed operation is completed as long as a client repeats it, but for a query
\* of a commit that cannot be evaluated (ApiWrites.ClaimsComplete).
ClaimsComplete == Answered!ClaimsComplete
=============================================================================
