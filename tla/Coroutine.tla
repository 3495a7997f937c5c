------------------------------ MODULE Coroutine ------------------------------
(***************************************************************************)
(* What the users of RpcCall get back: the return code of a blocking call, *)
(* and coroutines.  Task::run resumes the coroutine, which at              *)
(* co_await coCall(...) makes the call from await_suspend and suspends;    *)
(* the call's closure resumes it on whatever thread ends the call, the     *)
(* caller's own included, and run waits for the end of the coroutine.      *)
(*                                                                         *)
(* A coroutine is named by its one call.  Its body runs inside the         *)
(* closure's Run, so that the thread leaves finishRpc only when the        *)
(* coroutine is at its end.                                                *)
(***************************************************************************)
EXTENDS RpcCall

VARIABLES
    tasks,      \* the calls that are made by coroutines, never changes
    frame,      \* where the coroutine is
    taken,      \* what await_resume moved out of the CoCallState
    completed,  \* promise_type::completed
    returned    \* per blocking call: what CallMethodBlocking returned

coVars == <<tasks, frame, taken, completed>>
allVars == <<vars, coVars, returned>>

\* CoCallState brings a new controller: coroutines always have one, and a
\* generated id.
CoInit ==
    /\ Init
    /\ tasks \in SUBSET {k \in Calls \ (Blocking \cup noController) : OwnKey(k)}
    /\ frame = [k \in Calls |-> "start"]
    /\ taken = [k \in Calls |-> "none"]
    /\ completed = [k \in Calls |-> FALSE]
    /\ returned = [k \in Blocking |-> "none"]

\* The tail of CallMethodBlocking: -1 if its own wait timed out, whoever ended the
\* call, or the controller's error code.  (release gives the pool nothing back.)
ReturnCode(k) ==
    CASE pc[k] \in {"late", "waitWinner"} -> "-1"
      [] result[k] \in Errors -> "error"
      [] OTHER -> "0"

Return ==
    returned' = [k \in Blocking |->
                   IF pc[k] # "returned" /\ pc'[k] = "returned"
                     THEN ReturnCode(k) ELSE returned[k]]

\* run() resumes the coroutine: up to await_suspend's CallMethod it is suspended.
Begin(k) ==
    /\ k \in tasks /\ CallMethod(k) /\ UNCHANGED inputs
    /\ frame' = [frame EXCEPT ![k] = "suspended"]
    /\ UNCHANGED <<tasks, taken, completed, returned>>

\* Regression: run() returns when the coroutine first suspends.
RunReturnsSuspended(k) == TRUE

\* run() goes on when completed is set.
RunReturns(k) == completed[k]

\* What a coroutine adds to the steps of its call.
Gate ==
    /\ \A k \in tasks : pc'[k] = "returned" /\ pc[k] # "returned" => RunReturns(k)
    /\ \A t \in Threads :
          act[t].step = "notify" /\ act'[t] # act[t] /\ act[t].call \in tasks =>
              frame[act[t].call] = "left"

\* ResumeClosure::Run takes the handle and resumes; await_resume moves the
\* response out, and the thread's RunTime is put back.  RejectCall runs the
\* closure on the caller's thread.
Resume(k) ==
    /\ k \in tasks /\ frame[k] = "suspended"
    /\ doneRuns[k] > 0
    /\ taken' = [taken EXCEPT ![k] = result[k]]
    /\ frame' = [frame EXCEPT ![k] = "running"]
    /\ UNCHANGED <<vars, tasks, completed, returned>>

\* Regression: the final awaiter leaves completed alone.
FinalSuspendSilent(k) ==
    /\ frame[k] = "running"
    /\ frame' = [frame EXCEPT ![k] = "final"]
    /\ UNCHANGED <<vars, tasks, taken, completed, returned>>

\* co_return and FinalAwaiter::await_suspend: completed is set under the mutex ...
FinalSuspend(k) ==
    /\ frame[k] = "running"
    /\ completed' = [completed EXCEPT ![k] = TRUE]
    /\ frame' = [frame EXCEPT ![k] = "final"]
    /\ UNCHANGED <<vars, tasks, taken, returned>>

\* ... and the promise's condition variable is notified behind it.
FinalNotify(k) ==
    /\ frame[k] = "final"
    /\ frame' = [frame EXCEPT ![k] = "left"]
    /\ UNCHANGED <<vars, tasks, taken, completed, returned>>

BodyStep(k) == Resume(k) \/ FinalSuspend(k) \/ FinalNotify(k)

CallStep == Gate /\ Return /\ UNCHANGED <<inputs, coVars>>
CoNext ==
    \/ Next /\ (\A k \in tasks : ~(pc[k] = "idle" /\ pc'[k] = "call")) /\ CallStep
    \/ \E k \in Calls : Begin(k) \/ BodyStep(k)

CoFairness ==
    /\ \A t \in Threads : WF_allVars(ThreadStep(t) /\ CallStep)
    /\ \A k \in Calls : WF_allVars(pc[k] # "idle" /\ CallerStep(k) /\ CallStep)
    /\ \A k \in Calls : WF_allVars(BodyStep(k))
    /\ WF_allVars(LoopStep /\ CallStep)

CoSpec == CoInit /\ [][CoNext]_allVars /\ CoFairness

-----------------------------------------------------------------------------
(* Properties.                                                             *)

(* Nobody gets the response to another's call, unless the two share an id. *)
(* Task::run returns what its own call came to: the coroutine has been     *)
(* resumed, after before_done had written the outcome, and nobody writes   *)
(* it again.  A blocking caller that is told 0 holds a response with its   *)
(* id, one that is told an error does not; -1 says that the wait was over, *)
(* and the response may be there.  Without a controller nothing is called, *)
(* nothing is written, and the caller is told 0 all the same.              *)
RunReturnsResult ==
    /\ OwnResponse
    /\ \A k \in tasks :
          pc[k] = "returned" => taken[k] = result[k] /\ result[k] \in Errors \cup {k}
    /\ \A k \in Blocking \ noController :
          /\ returned[k] = "0" => result[k] \in Calls
          /\ returned[k] = "error" => result[k] \in Errors
          /\ pc[k] = "returned" => returned[k] # "none" /\ result[k] # "none"
    /\ \A k \in Blocking \cap noController :
          pc[k] = "returned" => returned[k] = "0" /\ result[k] = "none" /\ ~finished[k]
=============================================================================
