------------------------------- MODULE RpcCall -------------------------------
(***************************************************************************)
(* The life of RPC calls made through one RpcChannel: the caller's thread  *)
(* in CallMethod / CallMethodBlocking, the client's event-loop thread that *)
(* runs deadlines, connect callbacks and responses, and finishRpc, the     *)
(* gate that whoever ends a call has to pass.                              *)
(*                                                                         *)
(* A thread is named by its call, or Loop.  finishRpc and doSendRead can   *)
(* run on either; act[t] says which of them t is executing, for which call *)
(* and at which step.  A call with its own (standalone) client has that    *)
(* client's loop: the model runs all loops as one thread, which only       *)
(* removes interleavings between calls that share nothing.                 *)
(***************************************************************************)
EXTENDS Naturals, FiniteSets

CONSTANTS Calls,      \* calls made on the channel, each by a thread of its own
          Blocking,   \* those made with CallMethodBlocking
          Loop,       \* the event-loop thread
          NoCall

ASSUME CallsAssumption == /\ Blocking \subseteq Calls
                          /\ Loop \notin Calls /\ NoCall \notin Calls
                          /\ {"none", "timeout", "failed"} \cap Calls = {}

Threads == Calls \cup {Loop}

VARIABLES
    key,          \* per call: the entry of a client's m_read_callbacks it uses
    noController, \* the calls made without a (rocket) RpcController
    pc,           \* the caller's thread
    act,          \* per thread: the routine it is inside, see Act
    slot,         \* the channel's Init() hand-off: the call it belongs to
    owned,        \* RequestState owns the call's closure (closure_owner)
    finished,     \* RequestState::finished
    timer,        \* the deadline: off, armed, cancelled or fired
    readCb,       \* TcpClient::m_read_callbacks: message id -> call
    connecting,   \* standalone clients whose connect callback is to come
    requests,     \* requests on their way to the server
    inbox,        \* responses received and not dispatched
    loopAlive,    \* the client's loop has not been stopped
    doneFlag,     \* BlockingState::done
    doneRuns,     \* times the call's closure has run
    result        \* what before_done wrote: nothing yet, an error, or the
                  \* call whose response was parsed

\* What the callers bring along; it never changes.
inputs == <<key, noController>>
vars == <<inputs, pc, act, slot, owned, finished, timer, readCb, connecting, requests,
          inbox, loopAlive, doneFlag, doneRuns, result>>

\* Outcomes written by before_done.
Errors == {"timeout", "failed"}
Result == {"none"} \cup Errors \cup Calls

NoAct == [op |-> "none", call |-> NoCall, step |-> "-", with |-> "none"]
SendSteps == {"check", "register", "recheck", "send"}
FinishSteps == {"claim", "timer", "cancel", "write", "run", "notify"}
Act == {NoAct}
       \cup [op : {"send"}, call : Calls, step : SendSteps, with : {"none"}]
       \cup [op : {"finish"}, call : Calls, step : FinishSteps, with : Errors \cup Calls]

CallerPc == {"idle", "call", "internal", "wait", "late", "waitWinner", "returned"}

TypeOK ==
    /\ key \in [Calls -> Calls] /\ noController \subseteq Calls
    /\ pc \in [Calls -> CallerPc]
    /\ act \in [Threads -> Act]
    /\ slot \in Calls \cup {NoCall}
    /\ owned \in [Calls -> BOOLEAN] /\ finished \in [Calls -> BOOLEAN]
    /\ timer \in [Calls -> {"off", "armed", "cancelled", "fired"}]
    /\ readCb \in [Calls -> Calls \cup {NoCall}]
    /\ connecting \subseteq Calls /\ requests \subseteq Calls /\ inbox \subseteq Calls
    /\ loopAlive \in BOOLEAN
    /\ doneFlag \in [Calls -> BOOLEAN] /\ doneRuns \in [Calls -> 0..1]
    /\ result \in [Calls -> Result]

\* A generated id is the call's own and stands for it; a call whose controller
\* came with an id uses the entry of whoever has that id too.
Init ==
    /\ key \in {f \in [Calls -> Calls] : \A k \in Calls : f[f[k]] = f[k]}
    /\ noController \in SUBSET Calls
    /\ pc = [k \in Calls |-> "idle"]
    /\ act = [t \in Threads |-> NoAct]
    /\ slot = NoCall
    /\ owned = [k \in Calls |-> FALSE] /\ finished = [k \in Calls |-> FALSE]
    /\ timer = [k \in Calls |-> "off"]
    /\ readCb = [k \in Calls |-> NoCall]
    /\ connecting = {} /\ requests = {} /\ inbox = {}
    /\ loopAlive = TRUE
    /\ doneFlag = [k \in Calls |-> FALSE] /\ doneRuns = [k \in Calls |-> 0]
    /\ result = [k \in Calls |-> "none"]

Sending(k, s) == [op |-> "send", call |-> k, step |-> s, with |-> "none"]
Finishing(k, s, w) == [op |-> "finish", call |-> k, step |-> s, with |-> w]

\* The controller's id, or one that MsgIDUtil::GenMsgID counts on from 20 random
\* digits each thread draws for itself (that two threads' ids do not meet is
\* assumed).  Nothing keeps two controllers with ids of their own, or one that is
\* used again, from naming the same entry.
MsgId(k) == key[k]

\* Nobody else uses the call's entry: its id was generated, or its client is its own.
OwnKey(k) == \A j \in Calls \ {k} : key[j] # key[k]

-----------------------------------------------------------------------------
(* finishRpc on thread t, one step per access to shared state.             *)

\* Regression: the gate is read and written instead of compare-exchanged: both pass.
ClaimTwice(t) ==
    LET k == act[t].call
    IN /\ act[t].op = "finish" /\ act[t].step = "claim"
       /\ finished' = [finished EXCEPT ![k] = TRUE]
       /\ act' = [act EXCEPT ![t] = Finishing(k, "timer", @.with)]
       /\ UNCHANGED <<pc, slot, owned, timer, readCb, connecting, requests,
                      inbox, loopAlive, doneFlag, doneRuns, result>>

\* Regression: a blocking caller that lost the race returns at once.
ClaimReturns(t) ==
    LET k == act[t].call
    IN /\ act[t].op = "finish" /\ act[t].step = "claim"
       /\ finished' = [finished EXCEPT ![k] = TRUE]
       /\ IF finished[k]
            THEN /\ act' = [act EXCEPT ![t] = NoAct]
                 /\ pc' = IF t = k /\ pc[k] = "late"
                            THEN [pc EXCEPT ![k] = "returned"] ELSE pc
            ELSE act' = [act EXCEPT ![t] = Finishing(k, "timer", @.with)] /\ UNCHANGED pc
       /\ UNCHANGED <<slot, owned, timer, readCb, connecting, requests, inbox,
                      loopAlive, doneFlag, doneRuns, result>>

\* compare_exchange_strong on finished; the loser leaves.
Claim(t) ==
    LET k == act[t].call
    IN /\ act[t].op = "finish" /\ act[t].step = "claim"
       /\ finished' = [finished EXCEPT ![k] = TRUE]
       /\ IF finished[k]
            THEN /\ act' = [act EXCEPT ![t] = NoAct]
                 /\ pc' = IF t = k /\ pc[k] = "late"
                            THEN [pc EXCEPT ![k] = "waitWinner"] ELSE pc
            ELSE act' = [act EXCEPT ![t] = Finishing(k, "timer", @.with)] /\ UNCHANGED pc
       /\ UNCHANGED <<slot, owned, timer, readCb, connecting, requests, inbox,
                      loopAlive, doneFlag, doneRuns, result>>

DeleteTimer(t) ==
    LET k == act[t].call
    IN /\ act[t].op = "finish" /\ act[t].step = "timer"
       /\ timer' = [timer EXCEPT ![k] = IF @ = "armed" THEN "cancelled" ELSE @]
       /\ act' = [act EXCEPT ![t] = Finishing(k, "cancel", @.with)]
       /\ UNCHANGED <<pc, slot, owned, finished, readCb, connecting, requests,
                      inbox, loopAlive, doneFlag, doneRuns, result>>

\* Only if the call got as far as taking its id, just before the deadline is armed.
CancelRead(t) ==
    LET k == act[t].call
    IN /\ act[t].op = "finish" /\ act[t].step = "cancel"
       /\ readCb' = IF timer[k] = "off" THEN readCb
                      ELSE [readCb EXCEPT ![MsgId(k)] = NoCall]
       /\ act' = [act EXCEPT ![t] = Finishing(k, "write", @.with)]
       /\ UNCHANGED <<pc, slot, owned, finished, timer, connecting, requests,
                      inbox, loopAlive, doneFlag, doneRuns, result>>

\* before_done: SetError, or parse the response into the caller's message.
BeforeDone(t) ==
    LET k == act[t].call
    IN /\ act[t].op = "finish" /\ act[t].step = "write"
       /\ result' = [result EXCEPT ![k] = act[t].with]
       /\ act' = [act EXCEPT ![t] = Finishing(k, "run", @.with)]
       /\ UNCHANGED <<pc, slot, owned, finished, timer, readCb, connecting,
                      requests, inbox, loopAlive, doneFlag, doneRuns>>

\* done->Run(): BlockingClosure sets the flag under the mutex ...
RunDone(t) ==
    LET k == act[t].call
    IN /\ act[t].op = "finish" /\ act[t].step = "run"
       /\ doneRuns' = [doneRuns EXCEPT ![k] = @ + 1]
       /\ doneFlag' = [doneFlag EXCEPT ![k] = TRUE]
       /\ act' = [act EXCEPT ![t] = Finishing(k, "notify", @.with)]
       /\ UNCHANGED <<pc, slot, owned, finished, timer, readCb, connecting,
                      requests, inbox, loopAlive, result>>

\* ... and notifies through its own member after releasing it.
Notify(t) ==
    LET k == act[t].call
    IN /\ act[t].op = "finish" /\ act[t].step = "notify"
       /\ act' = [act EXCEPT ![t] = NoAct]
       /\ pc' = IF t = k /\ pc[k] = "late" THEN [pc EXCEPT ![k] = "returned"] ELSE pc
       /\ UNCHANGED <<slot, owned, finished, timer, readCb, connecting, requests,
                      inbox, loopAlive, doneFlag, doneRuns, result>>

FinishStep(t) ==
    Claim(t) \/ DeleteTimer(t) \/ CancelRead(t) \/ BeforeDone(t) \/ RunDone(t) \/ Notify(t)

-----------------------------------------------------------------------------
(* doSendRead on thread t.                                                 *)

CheckFinished(t) ==
    /\ act[t].op = "send" /\ act[t].step = "check"
    /\ act' = [act EXCEPT ![t] = IF finished[act[t].call] THEN NoAct
                                 ELSE Sending(act[t].call, "register")]
    /\ UNCHANGED <<pc, slot, owned, finished, timer, readCb, connecting, requests,
                   inbox, loopAlive, doneFlag, doneRuns, result>>

ReadMessage(t) ==
    LET k == act[t].call
    IN /\ act[t].op = "send" /\ act[t].step = "register"
       /\ readCb' = [readCb EXCEPT ![MsgId(k)] = k]
       /\ act' = [act EXCEPT ![t] = Sending(k, "recheck")]
       /\ UNCHANGED <<pc, slot, owned, finished, timer, connecting, requests,
                      inbox, loopAlive, doneFlag, doneRuns, result>>

\* Regression: the second look at finished is left out.
RecheckSkipped(t) ==
    /\ act[t].op = "send" /\ act[t].step = "recheck"
    /\ act' = [act EXCEPT ![t] = Sending(act[t].call, "send")]
    /\ UNCHANGED <<pc, slot, owned, finished, timer, readCb, connecting, requests,
                   inbox, loopAlive, doneFlag, doneRuns, result>>

\* The call may have ended since the first look, before there was a callback
\* to cancel.
RecheckFinished(t) ==
    LET k == act[t].call
    IN /\ act[t].op = "send" /\ act[t].step = "recheck"
       /\ IF finished[k]
            THEN /\ act' = [act EXCEPT ![t] = NoAct]
                 /\ readCb' = [readCb EXCEPT ![MsgId(k)] = NoCall]
            ELSE act' = [act EXCEPT ![t] = Sending(k, "send")] /\ UNCHANGED readCb
       /\ UNCHANGED <<pc, slot, owned, finished, timer, connecting, requests,
                      inbox, loopAlive, doneFlag, doneRuns, result>>

SendRequest(t) ==
    /\ act[t].op = "send" /\ act[t].step = "send"
    /\ requests' = requests \cup {act[t].call}
    /\ act' = [act EXCEPT ![t] = NoAct]
    /\ UNCHANGED <<pc, slot, owned, finished, timer, readCb, connecting, inbox,
                   loopAlive, doneFlag, doneRuns, result>>

SendStep(t) == CheckFinished(t) \/ ReadMessage(t) \/ RecheckFinished(t) \/ SendRequest(t)

-----------------------------------------------------------------------------
(* The caller's thread.                                                    *)

\* RpcChannel::Init: whatever was in the slot is replaced.
HandOff(k) == slot' = k

\* CallMethodBlocking leaves its objects in the channel's hand-off slot first.
InitSlot(k) ==
    /\ pc[k] = "idle" /\ k \in Blocking
    /\ HandOff(k)
    /\ pc' = [pc EXCEPT ![k] = "call"]
    /\ UNCHANGED <<act, owned, finished, timer, readCb, connecting, requests,
                   inbox, loopAlive, doneFlag, doneRuns, result>>

CallMethod(k) ==
    /\ pc[k] = "idle" /\ k \notin Blocking
    /\ pc' = [pc EXCEPT ![k] = "call"]
    /\ UNCHANGED <<act, slot, owned, finished, timer, readCb, connecting,
                   requests, inbox, loopAlive, doneFlag, doneRuns, result>>

\* Null arguments: the closure runs at once and there is no RequestState.  The
\* error is written to the controller, if there is one.
RejectCall(k) ==
    /\ pc[k] = "call"
    /\ doneRuns' = [doneRuns EXCEPT ![k] = @ + 1]
    /\ doneFlag' = [doneFlag EXCEPT ![k] = TRUE]
    /\ result' = IF k \in noController THEN result ELSE [result EXCEPT ![k] = "failed"]
    /\ pc' = [pc EXCEPT ![k] = "wait"]
    /\ UNCHANGED <<act, slot, owned, finished, timer, readCb, connecting, requests, inbox,
                   loopAlive>>

\* callMethodInternal: take the slot over if it is this call's.
CaptureSlot(k) ==
    /\ pc[k] = "call" /\ k \notin noController
    /\ pc' = [pc EXCEPT ![k] = "internal"]
    /\ owned' = [owned EXCEPT ![k] = slot = k]
    /\ slot' = IF slot = k THEN NoCall ELSE slot
    /\ UNCHANGED <<act, finished, timer, readCb, connecting, requests, inbox,
                   loopAlive, doneFlag, doneRuns, result>>

\* No client, no peer address, or the request cannot be serialised: the caller
\* ends the call itself, before there is a deadline.
FailBeforeSend(k) ==
    /\ pc[k] = "internal" /\ act[k] = NoAct
    /\ act' = [act EXCEPT ![k] = Finishing(k, "claim", "failed")]
    /\ pc' = [pc EXCEPT ![k] = "wait"]
    /\ UNCHANGED <<slot, owned, finished, timer, readCb, connecting, requests,
                   inbox, loopAlive, doneFlag, doneRuns, result>>

\* Arm the deadline; then send on this thread (pooled client, connected), or
\* from the connect callback (standalone client), which runs here and now if
\* connect fails at once.
Start(k) ==
    /\ pc[k] = "internal" /\ act[k] = NoAct
    /\ timer' = [timer EXCEPT ![k] = "armed"]
    /\ \/ act' = [act EXCEPT ![k] = Sending(k, "check")] /\ UNCHANGED connecting
       \/ OwnKey(k) /\ connecting' = connecting \cup {k} /\ UNCHANGED act
       \/ /\ OwnKey(k) /\ UNCHANGED connecting
          /\ act' = [act EXCEPT ![k] = Finishing(k, "claim", "failed")]
    /\ pc' = [pc EXCEPT ![k] = "wait"]
    /\ UNCHANGED <<slot, owned, finished, readCb, requests, inbox, loopAlive,
                   doneFlag, doneRuns, result>>

\* callMethodInternal has returned.  An asynchronous caller goes its way, a
\* blocking one when it finds done set: notified, spuriously, or at its timeout.
WaitOver(k) ==
    /\ pc[k] \in {"wait", "waitWinner"} /\ act[k] = NoAct
    /\ k \in Blocking => doneFlag[k]
    /\ pc' = [pc EXCEPT ![k] = "returned"]
    /\ UNCHANGED <<act, slot, owned, finished, timer, readCb, connecting,
                   requests, inbox, loopAlive, doneFlag, doneRuns, result>>

\* cv.wait_for times out: the caller tries to end the call itself.
LocalTimeout(k) ==
    /\ pc[k] = "wait" /\ act[k] = NoAct
    /\ k \in Blocking /\ ~doneFlag[k]
    /\ pc' = [pc EXCEPT ![k] = "late"]
    /\ act' = [act EXCEPT ![k] = Finishing(k, "claim", "timeout")]
    /\ UNCHANGED <<slot, owned, finished, timer, readCb, connecting, requests,
                   inbox, loopAlive, doneFlag, doneRuns, result>>

CallerStep(k) ==
    \/ InitSlot(k) \/ CallMethod(k) \/ RejectCall(k) \/ CaptureSlot(k)
    \/ FailBeforeSend(k) \/ Start(k) \/ WaitOver(k) \/ LocalTimeout(k)

-----------------------------------------------------------------------------
(* The loop thread and the peer.                                           *)

LoopFree == loopAlive /\ act[Loop] = NoAct

\* The deadline's callback.
TimerFires(k) ==
    /\ LoopFree /\ timer[k] = "armed"
    /\ timer' = [timer EXCEPT ![k] = "fired"]
    /\ act' = [act EXCEPT ![Loop] = Finishing(k, "claim", "timeout")]
    /\ UNCHANGED <<pc, slot, owned, finished, readCb, connecting, requests,
                   inbox, loopAlive, doneFlag, doneRuns, result>>

\* The connect callback of a standalone client: failure ends the call.
Connected(k) ==
    /\ LoopFree /\ k \in connecting
    /\ connecting' = connecting \ {k}
    /\ \/ act' = [act EXCEPT ![Loop] = Finishing(k, "claim", "failed")]
       \/ act' = [act EXCEPT ![Loop] = Sending(k, "check")]
    /\ UNCHANGED <<pc, slot, owned, finished, timer, readCb, requests, inbox,
                   loopAlive, doneFlag, doneRuns, result>>

\* What before_done will make of a response: the caller's message, or an error
\* because it is no TinyPB message, has an error code or does not parse.
ResponseOutcomes(r) == {r, "failed"}

\* TcpClient::onMessage: take the callback out of the map under the mutex, call
\* it outside; a response nobody waits for is dropped.
OnMessage(r) ==
    /\ LoopFree /\ r \in inbox
    /\ inbox' = inbox \ {r}
    /\ LET k == readCb[MsgId(r)]
       IN IF k = NoCall
            THEN UNCHANGED <<act, readCb>>
            ELSE /\ readCb' = [readCb EXCEPT ![MsgId(r)] = NoCall]
                 /\ \E w \in ResponseOutcomes(r) :
                      act' = [act EXCEPT ![Loop] = Finishing(k, "claim", w)]
    /\ UNCHANGED <<pc, slot, owned, finished, timer, connecting, requests,
                   loopAlive, doneFlag, doneRuns, result>>

\* The server answers, at most once.
Respond(k) ==
    /\ k \in requests
    /\ requests' = requests \ {k}
    /\ inbox' = inbox \cup {k}
    /\ UNCHANGED <<pc, act, slot, owned, finished, timer, readCb, connecting,
                   loopAlive, doneFlag, doneRuns, result>>

\* TcpClient::stop on whatever thread: the client's callbacks are dropped.
ClearCallbacks ==
    /\ \E S \in SUBSET Calls :
          /\ \E i \in S : readCb[i] # NoCall
          /\ readCb' = [i \in Calls |-> IF i \in S THEN NoCall ELSE readCb[i]]
    /\ UNCHANGED <<pc, act, slot, owned, finished, timer, connecting, requests,
                   inbox, loopAlive, doneFlag, doneRuns, result>>

\* The loop is stopped (the client's own, or by pool shutdown) and ends between
\* two callbacks.
StopLoop ==
    /\ LoopFree
    /\ loopAlive' = FALSE
    /\ UNCHANGED <<pc, act, slot, owned, finished, timer, readCb, connecting, requests,
                   inbox, doneFlag, doneRuns, result>>

LoopStep == \E k \in Calls : TimerFires(k) \/ Connected(k) \/ OnMessage(k)

ThreadStep(t) == FinishStep(t) \/ SendStep(t)

Next ==
    /\ \/ \E t \in Threads : ThreadStep(t)
       \/ \E k \in Calls : CallerStep(k)
       \/ LoopStep
       \/ \E k \in Calls : Respond(k)
       \/ ClearCallbacks \/ StopLoop
    /\ UNCHANGED inputs

(* Fairness: every thread keeps running, deadlines and waits time out.     *)
(* The server never has to answer and the loop may be stopped.             *)
Fairness ==
    /\ \A t \in Threads : WF_vars(ThreadStep(t) /\ UNCHANGED inputs)
    /\ \A k \in Calls : WF_vars(pc[k] # "idle" /\ CallerStep(k) /\ UNCHANGED inputs)
    /\ WF_vars(LoopStep /\ UNCHANGED inputs)

Spec == Init /\ [][Next]_vars /\ Fairness

-----------------------------------------------------------------------------
(* Properties.                                                             *)

InFinish(k, steps) ==
    \E t \in Threads : act[t].op = "finish" /\ act[t].call = k /\ act[t].step \in steps

(* One winner: of all the threads that try to end a call (deadline,        *)
(* response, connect failure, the blocking caller's own timeout) at most   *)
(* one is past the gate, and once the closure has run the outcome is       *)
(* written, if there is a controller to write it to, and no thread is      *)
(* going to write it or run the closure again.                             *)
PastGate == {"timer", "cancel", "write", "run", "notify"}
OneWinner ==
    \A k \in Calls :
        /\ \A t, u \in Threads :
             /\ act[t].op = "finish" /\ act[t].call = k /\ act[t].step \in PastGate
             /\ act[u].op = "finish" /\ act[u].call = k /\ act[u].step \in PastGate
             => t = u
        /\ doneRuns[k] > 0 =>
             /\ result[k] # "none" \/ k \in noController
             /\ ~InFinish(k, {"timer", "cancel", "write", "run"})

(* CallMethodBlocking returns only when nobody will touch the caller's     *)
(* controller and response any more: whoever claimed the call has written  *)
(* its outcome and run the closure.                                        *)
NoWriteAfterReturn ==
    \A k \in Blocking :
        pc[k] = "returned" =>
            doneRuns[k] = 1 /\ ~InFinish(k, {"timer", "cancel", "write", "run"})

(* No callback outlives its call: once a call is finished and no thread is *)
(* inside finishRpc or doSendRead for it, the client's map has no entry    *)
(* left for it, although registration and cancellation race.               *)
NoStaleCallback ==
    \A k \in Calls :
        (finished[k] /\ \A t \in Threads : act[t].call # k) =>
            \A i \in Calls : readCb[i] # k

(* A call is completed only with a response that carries its own id: with  *)
(* a generated id, the response to its own request.  Calls whose           *)
(* controllers came with the same id can take each other's.                *)
OwnResponse ==
    \A k \in Calls : result[k] \in Calls =>
        key[result[k]] = key[k] /\ (OwnKey(k) => result[k] = k)

(* The closure is alive for as long as Run executes: after done is set it  *)
(* still reads its member to notify, and the blocking caller may return in *)
(* between.                                                                *)
ClosureAlive ==
    \A k \in Blocking : pc[k] = "returned" /\ InFinish(k, {"notify"}) => owned[k]

(* Every call ends: its closure runs once and its caller comes back.  A    *)
(* blocking call does even if the client's loop is stopped under it; the   *)
(* others need the loop for their deadline: onClose does not end pending   *)
(* calls, and a coroutine's run has no timeout of its own.                 *)
CallsComplete ==
    \A k \in Calls :
        pc[k] = "call" ~> \/ pc[k] = "returned" /\ doneRuns[k] = 1
                          \/ k \notin Blocking /\ ~loopAlive
=============================================================================
