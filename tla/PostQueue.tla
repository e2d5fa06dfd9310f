------------------------------ MODULE PostQueue ------------------------------
(***************************************************************************)
(* What nntp.h promises the gateways: a queue of articles that one        *)
(* consumer works through in order.  post() adds an article at the end,    *)
(* join_postthread() says that no more will come and returns when the      *)
(* queue has been worked off.  Any failure on the consumer's side calls    *)
(* fatal(), which ends the process whatever is still queued.               *)
(***************************************************************************)
EXTENDS Sequences

CONSTANT Jobs               \* what can be queued

VARIABLES
    queue,                  \* accepted and not yet dealt with, oldest first
    done,                   \* dealt with, in the order it happened
    closed,                 \* no more articles will be queued
    status                  \* "open", "finished" or "aborted"

vars == <<queue, done, closed, status>>

Init ==
    /\ queue = <<>>
    /\ done = <<>>
    /\ closed = FALSE
    /\ status = "open"

Enqueue(j) ==
    /\ status = "open" /\ ~closed
    /\ queue' = Append(queue, j)
    /\ UNCHANGED <<done, closed, status>>

Close ==
    /\ status = "open" /\ ~closed
    /\ closed' = TRUE
    /\ UNCHANGED <<queue, done, status>>

Handle ==
    /\ status = "open" /\ queue # <<>>
    /\ queue' = Tail(queue)
    /\ done' = Append(done, Head(queue))
    /\ UNCHANGED <<closed, status>>

Finish ==
    /\ status = "open" /\ closed /\ queue = <<>>
    /\ status' = "finished"
    /\ UNCHANGED <<queue, done, closed>>

Abort ==
    /\ status = "open"
    /\ status' = "aborted"
    /\ UNCHANGED <<queue, done, closed>>

Next ==
    \/ \E j \in Jobs : Enqueue(j)
    \/ Close
    \/ Handle
    \/ Finish
    \/ Abort

\* The queue as far as safety goes, and with the consumer's fairness.
SafeSpec == Init /\ [][Next]_vars
Spec == SafeSpec /\ WF_vars(Handle) /\ WF_vars(Finish)
=============================================================================
