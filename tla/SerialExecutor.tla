--------------------------- MODULE SerialExecutor ---------------------------
(***************************************************************************)
(* What WriterQueue promises its callers: commands are accepted into one   *)
(* line, the first in line is executed or dropped, a command that succeeds *)
(* is committed exactly once, and nothing is accepted while the executor   *)
(* is closed.                                                              *)
(***************************************************************************)
EXTENDS Sequences

CONSTANT Commands

VARIABLES
    open,      \* commands are being accepted
    line,      \* accepted commands not yet executed, oldest first
    log,       \* committed commands, in commit order
    fate       \* what became of each command

vars == <<open, line, log, fate>>

Init ==
    /\ open = FALSE
    /\ line = <<>>
    /\ log = <<>>
    /\ fate = [c \in Commands |-> "new"]

\* The executor opens only with an empty line: nothing survives a shutdown.
Open ==
    /\ ~open /\ line = <<>>
    /\ open' = TRUE
    /\ UNCHANGED <<line, log, fate>>

Close ==
    /\ open' = FALSE
    /\ UNCHANGED <<line, log, fate>>

Accept(c) ==
    /\ open
    /\ fate[c] = "new"
    /\ line' = Append(line, c)
    /\ fate' = [fate EXCEPT ![c] = "accepted"]
    /\ UNCHANGED <<open, log>>

Refuse(c) ==
    /\ fate[c] = "new"
    /\ fate' = [fate EXCEPT ![c] = "refused"]
    /\ UNCHANGED <<open, line, log>>

\* A command that has not begun may be cancelled; it keeps its place in line.
Cancel(c) ==
    /\ fate[c] = "accepted"
    /\ fate' = [fate EXCEPT ![c] = "cancelled"]
    /\ UNCHANGED <<open, line, log>>

Commit ==
    /\ line # <<>>
    /\ fate[Head(line)] = "accepted"
    /\ log' = Append(log, Head(line))
    /\ fate' = [fate EXCEPT ![Head(line)] = "committed"]
    /\ line' = Tail(line)
    /\ UNCHANGED open

Fail ==
    /\ line # <<>>
    /\ fate[Head(line)] = "accepted"
    /\ fate' = [fate EXCEPT ![Head(line)] = "failed"]
    /\ line' = Tail(line)
    /\ UNCHANGED <<open, log>>

Skip ==
    /\ line # <<>>
    /\ fate[Head(line)] = "cancelled"
    /\ line' = Tail(line)
    /\ UNCHANGED <<open, log, fate>>

Next ==
    \/ Open \/ Close \/ Commit \/ Fail \/ Skip
    \/ \E c \in Commands : Accept(c) \/ Refuse(c) \/ Cancel(c)

Spec == Init /\ [][Next]_vars
=============================================================================
