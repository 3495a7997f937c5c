---------------------------- MODULE TaskExecutor ----------------------------
(***************************************************************************)
(* What an EventLoop promises to the threads that hand it work, without    *)
(* the eventfd, the poller, the swapped batches or the round limit: a      *)
(* serial FIFO executor.  A task accepted while the executor is open runs  *)
(* exactly once, in the order of acceptance; once closed nothing runs any  *)
(* more and what is still queued is dropped.                               *)
(***************************************************************************)
EXTENDS Sequences

CONSTANT Task          \* the tasks that can be submitted

VARIABLES queue,       \* accepted tasks that have not run yet
          open         \* FALSE once the executor has stopped for good

vars == <<queue, open>>

Init == queue = <<>> /\ open = TRUE

Submit(t) == queue' = Append(queue, t) /\ UNCHANGED open

Run ==
    /\ open
    /\ queue # <<>>
    /\ queue' = Tail(queue)
    /\ UNCHANGED open

Close == open /\ open' = FALSE /\ UNCHANGED queue

Next == Run \/ Close \/ \E t \in Task : Submit(t)

Safety == Init /\ [][Next]_vars

\* The head of the queue is always served until the executor closes.
Spec == Safety /\ WF_vars(Run)
=============================================================================
