---------------------------- MODULE RpcCallProofs ----------------------------
(***************************************************************************)
(* Proofs about RpcCall for any set of calls, blocking or not, and in the  *)
(* second half about Coroutine.                                            *)
(*                                                                         *)
(* The inductive invariant IInv says, besides the types,                   *)
(*  - Own: a map entry, a response being delivered and a parsed result     *)
(*    belong to a call with their id;                                      *)
(*  - PastOnce: only one thread is past finishRpc's compare-exchange, it   *)
(*    found the call unfinished, the closure has not run before it reaches *)
(*    Run, and the outcome is written by then;                             *)
(*  - Fresh: nothing in the client knows of a call before its deadline is  *)
(*    armed, nor of one that was rejected (its closure has run although it *)
(*    never became finished), so that nobody can claim it later; a call    *)
(*    without a controller is always rejected;                             *)
(*  - Tidy: the callback of a finished call is only left in the map while  *)
(*    some thread is on its way to remove it.                              *)
(***************************************************************************)
EXTENDS Coroutine, TLAPS

At(t, k, S) == act[t].op = "finish" /\ act[t].call = k /\ act[t].step \in S

BeforeRun == {"timer", "cancel", "write", "run"}

Own ==
    /\ \A i \in Calls : readCb[i] # NoCall => key[readCb[i]] = i
    /\ \A t \in Threads : act[t].op = "finish" /\ act[t].with \in Calls =>
                            key[act[t].with] = key[act[t].call]
    /\ \A k \in Calls : result[k] \in Calls => key[result[k]] = key[k]

PastOnce ==
    \A k \in Calls :
        /\ \A t, u \in Threads : At(t, k, PastGate) /\ At(u, k, PastGate) => t = u
        /\ \A t \in Threads :
             /\ At(t, k, PastGate) => finished[k]
             /\ At(t, k, BeforeRun) => doneRuns[k] = 0
             /\ At(t, k, {"run", "notify"}) => result[k] # "none"
             /\ At(t, k, {"notify"}) => doneRuns[k] = 1
        /\ doneRuns[k] = 1 => result[k] # "none" \/ k \in noController
        /\ doneFlag[k] <=> doneRuns[k] = 1

Unsent(k) ==
    /\ k \notin connecting /\ \A i \in Calls : readCb[i] # k
    /\ \A t \in Threads : act[t].op = "send" => act[t].call # k

Unknown(k) ==
    /\ timer[k] = "off" /\ Unsent(k)
    /\ \A t \in Threads : act[t].call # k

Fresh ==
    \A k \in Calls :
        /\ pc[k] \in {"idle", "call", "internal"} =>
             Unknown(k) /\ ~finished[k] /\ doneRuns[k] = 0
        /\ doneRuns[k] = 1 /\ ~finished[k] => Unknown(k)
        /\ timer[k] = "off" => Unsent(k)
        /\ k \in noController =>
             /\ Unknown(k) /\ ~finished[k] /\ result[k] = "none"
             /\ pc[k] \in {"idle", "call", "wait", "returned"}
             /\ pc[k] \in {"wait", "returned"} => doneRuns[k] = 1

Tidy ==
    \A i, k \in Calls :
        readCb[i] = k /\ finished[k] =>
            \E t \in Threads : \/ At(t, k, {"timer", "cancel"})
                               \/ act[t].op = "send" /\ act[t].call = k /\ act[t].step = "recheck"

Returned == \A k \in Blocking : pc[k] = "returned" => doneRuns[k] = 1

IInv == TypeOK /\ Own /\ PastOnce /\ Fresh /\ Tidy /\ Returned

(* The records in act.                                                     *)
LEMMA ActShape ==
  ASSUME TypeOK, NEW t \in Threads
  PROVE  /\ act[t].op \in {"none", "send", "finish"}
         /\ act[t].op = "none" => act[t] = NoAct
         /\ act[t].op = "send" => act[t].call \in Calls /\ act[t].step \in SendSteps
         /\ act[t].op = "finish" => /\ act[t].call \in Calls /\ act[t].step \in FinishSteps
                                    /\ act[t].with \in Errors \cup Calls
<1>1. act[t] \in Act
  BY DEF TypeOK
<1> QED BY <1>1 DEF Act, NoAct

(* The fields of what Sending and Finishing build.                         *)
LEMMA ActFields ==
  /\ NoAct \in Act /\ NoAct.op = "none" /\ NoAct.call = NoCall
  /\ \A k \in Calls, s \in SendSteps :
       /\ Sending(k, s) \in Act /\ Sending(k, s).op = "send"
       /\ Sending(k, s).call = k /\ Sending(k, s).step = s
  /\ \A k \in Calls, s \in FinishSteps, w \in Errors \cup Calls :
       /\ Finishing(k, s, w) \in Act /\ Finishing(k, s, w).op = "finish"
       /\ Finishing(k, s, w).call = k /\ Finishing(k, s, w).step = s
       /\ Finishing(k, s, w).with = w
  BY DEF Act, NoAct, Sending, Finishing

(* One thread moves, the others stay where they are.                       *)
LEMMA ActUpdate ==
  ASSUME TypeOK, NEW t \in Threads, NEW a \in Act, act' = [act EXCEPT ![t] = a]
  PROVE  /\ act' \in [Threads -> Act]
         /\ act'[t] = a
         /\ \A u \in Threads : u # t => act'[u] = act[u]
  BY DEF TypeOK

(* The compare-exchange: a loser leaves, a winner was the first.           *)
LEMMA ClaimInv == ASSUME IInv, NEW t \in Threads, Claim(t), key' = key, noController' = noController
  PROVE  IInv'
<1> DEFINE k == act[t].call
           w == act[t].with
           a == Finishing(k, "timer", w)
<1>0. TypeOK
  BY DEF IInv
<1>1. k \in Calls /\ w \in Errors \cup Calls /\ act[t].op = "finish" /\ act[t].step = "claim"
      /\ act[t].call = k /\ act[t].with = w
  BY <1>0, ActShape DEF Claim
<1>2. a \in Act /\ a.op = "finish" /\ a.call = k /\ a.step = "timer" /\ a.with = w
  BY <1>1, ActFields DEF FinishSteps
<1>3. CASE finished[k]
  <2>1. act' = [act EXCEPT ![t] = NoAct] /\ finished' = finished
    BY <1>0, <1>1, <1>3 DEF Claim, TypeOK
  <2>2. /\ act' \in [Threads -> Act] /\ act'[t] = NoAct
        /\ \A u \in Threads : u # t => act'[u] = act[u]
    BY <1>0, <2>1, ActUpdate, ActFields
  <2>3. /\ pc' \in [Calls -> CallerPc]
        /\ \A j \in Calls : pc'[j] = pc[j] \/ (j = k /\ pc'[j] = "waitWinner")
    BY <1>0, <1>1, <1>3 DEF Claim, TypeOK, CallerPc
  <2>4. UNCHANGED <<slot, owned, timer, readCb, connecting, requests, inbox,
                    loopAlive, doneFlag, doneRuns, result>>
    BY DEF Claim
  <2>5. NoAct.op = "none" /\ NoAct.call = NoCall
    BY ActFields
  <2> HIDE DEF k, w, a
  <2>6. TypeOK'
    BY <1>0, <2>1, <2>2, <2>3, <2>4 DEF TypeOK
  <2>7. Own'
    BY <1>1, <2>1, <2>2, <2>4, <2>5 DEF IInv, Own
  <2>8. PastOnce'
    BY <1>1, <2>1, <2>2, <2>4, <2>5 DEF IInv, PastOnce, At
  <2>9. Fresh'
    BY <1>1, <2>1, <2>2, <2>3, <2>4, <2>5, CallsAssumption DEF IInv, Fresh, Unknown, Unsent
  <2>10. Tidy'
    BY <1>1, <2>1, <2>2, <2>4, <2>5 DEF IInv, Tidy, At
  <2>11. Returned'
    BY <2>3, <2>4, CallsAssumption DEF IInv, Returned
  <2> QED BY <2>6, <2>7, <2>8, <2>9, <2>10, <2>11 DEF IInv
<1>4. CASE ~finished[k]
  <2>1. act' = [act EXCEPT ![t] = a] /\ finished' = [finished EXCEPT ![k] = TRUE]
    BY <1>0, <1>1, <1>4 DEF Claim, TypeOK
  <2>2. /\ act' \in [Threads -> Act] /\ act'[t] = a
        /\ \A u \in Threads : u # t => act'[u] = act[u]
    BY <1>0, <1>2, <2>1, ActUpdate
  <2>3. UNCHANGED <<pc, slot, owned, timer, readCb, connecting, requests, inbox,
                    loopAlive, doneFlag, doneRuns, result>>
    BY <1>4 DEF Claim
  <2>4. /\ finished' \in [Calls -> BOOLEAN] /\ finished'[k] = TRUE
        /\ \A j \in Calls : j # k => finished'[j] = finished[j]
    BY <1>0, <1>1, <2>1 DEF TypeOK
  <2>5. doneRuns[k] = 0
    BY <1>0, <1>1, <1>4 DEF IInv, Fresh, Unknown, Unsent, TypeOK
  <2> HIDE DEF k, w, a
  <2>6. TypeOK'
    BY <1>0, <2>2, <2>3, <2>4 DEF TypeOK
  <2>7. Own'
    BY <1>1, <1>2, <2>2, <2>3 DEF IInv, Own
  <2>8. PastOnce'
    BY <1>1, <1>2, <1>4, <2>2, <2>3, <2>4, <2>5 DEF IInv, PastOnce, At, PastGate, BeforeRun
  <2>9. Fresh'
    BY <1>1, <1>2, <2>2, <2>3, <2>4, <2>5 DEF IInv, Fresh, Unknown, Unsent
  <2>10. Tidy'
    BY <1>1, <1>2, <1>4, <2>2, <2>3, <2>4 DEF IInv, Tidy, At
  <2>11. Returned'
    BY <2>3 DEF IInv, Returned
  <2> QED BY <2>6, <2>7, <2>8, <2>9, <2>10, <2>11 DEF IInv
<1> QED BY <1>3, <1>4

(* The winner cancels the deadline.                                        *)
LEMMA DeleteTimerInv == ASSUME IInv, NEW t \in Threads, DeleteTimer(t), key' = key, noController' = noController
  PROVE  IInv'
<1> DEFINE k == act[t].call
           w == act[t].with
           a == Finishing(k, "cancel", w)
<1>1. TypeOK
  BY DEF IInv
<1>2. k \in Calls /\ w \in Errors \cup Calls /\ act[t].op = "finish" /\ act[t].step = "timer"
      /\ act[t].call = k /\ act[t].with = w
  BY <1>1, ActShape DEF DeleteTimer
<1>3. a \in Act /\ a.op = "finish" /\ a.call = k /\ a.step = "cancel" /\ a.with = w
  BY <1>2, ActFields DEF FinishSteps
<1>4. act' = [act EXCEPT ![t] = a]
  BY DEF DeleteTimer
<1>5. /\ act' \in [Threads -> Act] /\ act'[t] = a
      /\ \A u \in Threads : u # t => act'[u] = act[u]
  BY <1>1, <1>3, <1>4, ActUpdate
<1>6. UNCHANGED <<pc, slot, owned, finished, readCb, connecting, requests,
                  inbox, loopAlive, doneFlag, doneRuns, result>>
  BY DEF DeleteTimer
<1>7. timer' \in [Calls -> {"off", "armed", "cancelled", "fired"}]
      /\ \A j \in Calls : timer'[j] = timer[j] \/ (j = k /\ timer[j] # "off" /\ timer'[j] # "off")
  BY <1>1, <1>2 DEF DeleteTimer, TypeOK
<1> HIDE DEF k, w, a
<1>8. TypeOK'
  BY <1>1, <1>5, <1>6, <1>7 DEF TypeOK
<1>9. Own'
  BY <1>1, <1>2, <1>3, <1>5, <1>6, <1>7, CallsAssumption DEF IInv, Own
<1>10. PastOnce'
  BY <1>1, <1>2, <1>3, <1>5, <1>6, <1>7, CallsAssumption DEF IInv, PastOnce, At, PastGate, BeforeRun
<1>11. Fresh'
  BY <1>1, <1>2, <1>3, <1>5, <1>6, <1>7, CallsAssumption DEF IInv, Fresh, Unknown, Unsent
<1>12. Tidy'
  BY <1>1, <1>2, <1>3, <1>5, <1>6, <1>7, CallsAssumption DEF IInv, Tidy, At
<1>13. Returned'
  BY <1>1, <1>2, <1>3, <1>5, <1>6, <1>7, CallsAssumption DEF IInv, Returned
<1> QED BY <1>8, <1>9, <1>10, <1>11, <1>12, <1>13 DEF IInv

(* The winner removes the response callback.                               *)
LEMMA CancelReadInv == ASSUME IInv, NEW t \in Threads, CancelRead(t), key' = key, noController' = noController
  PROVE  IInv'
<1> DEFINE k == act[t].call
           w == act[t].with
           a == Finishing(k, "write", w)
<1>1. TypeOK
  BY DEF IInv
<1>2. k \in Calls /\ w \in Errors \cup Calls /\ act[t].op = "finish" /\ act[t].step = "cancel"
      /\ act[t].call = k /\ act[t].with = w
  BY <1>1, ActShape DEF CancelRead
<1>3. a \in Act /\ a.op = "finish" /\ a.call = k /\ a.step = "write" /\ a.with = w
  BY <1>2, ActFields DEF FinishSteps
<1>4. act' = [act EXCEPT ![t] = a]
  BY DEF CancelRead
<1>5. /\ act' \in [Threads -> Act] /\ act'[t] = a
      /\ \A u \in Threads : u # t => act'[u] = act[u]
  BY <1>1, <1>3, <1>4, ActUpdate
<1>6. UNCHANGED <<pc, slot, owned, finished, timer, connecting, requests,
                  inbox, loopAlive, doneFlag, doneRuns, result>>
  BY DEF CancelRead
<1>7. /\ readCb' \in [Calls -> Calls \cup {NoCall}]
      /\ \A i \in Calls : readCb'[i] = readCb[i] \/ readCb'[i] = NoCall
      /\ \A i \in Calls : readCb'[i] # k
  <2>1. CASE timer[k] = "off"
    BY <1>1, <1>2, <2>1 DEF CancelRead, TypeOK, IInv, Fresh, Unsent
  <2>2. CASE timer[k] # "off"
    BY <1>1, <1>2, <2>2, CallsAssumption DEF CancelRead, MsgId, TypeOK, IInv, Own
  <2> QED BY <2>1, <2>2
<1> HIDE DEF k, w, a
<1>8. TypeOK'
  BY <1>1, <1>5, <1>6, <1>7 DEF TypeOK
<1>9. Own'
  BY <1>1, <1>2, <1>3, <1>5, <1>6, <1>7, CallsAssumption DEF IInv, Own
<1>10. PastOnce'
  BY <1>1, <1>2, <1>3, <1>5, <1>6, <1>7, CallsAssumption DEF IInv, PastOnce, At, PastGate, BeforeRun
<1>11. Fresh'
  BY <1>1, <1>2, <1>3, <1>5, <1>6, <1>7, CallsAssumption DEF IInv, Fresh, Unknown, Unsent
<1>12. Tidy'
  BY <1>1, <1>2, <1>3, <1>5, <1>6, <1>7, CallsAssumption DEF IInv, Tidy, At
<1>13. Returned'
  BY <1>1, <1>2, <1>3, <1>5, <1>6, <1>7, CallsAssumption DEF IInv, Returned
<1> QED BY <1>8, <1>9, <1>10, <1>11, <1>12, <1>13 DEF IInv

(* The winner writes the outcome.                                          *)
LEMMA BeforeDoneInv == ASSUME IInv, NEW t \in Threads, BeforeDone(t), key' = key, noController' = noController
  PROVE  IInv'
<1> DEFINE k == act[t].call
           w == act[t].with
           a == Finishing(k, "run", w)
<1>1. TypeOK
  BY DEF IInv
<1>2. k \in Calls /\ w \in Errors \cup Calls /\ act[t].op = "finish" /\ act[t].step = "write"
      /\ act[t].call = k /\ act[t].with = w
  BY <1>1, ActShape DEF BeforeDone
<1>3. a \in Act /\ a.op = "finish" /\ a.call = k /\ a.step = "run" /\ a.with = w
  BY <1>2, ActFields DEF FinishSteps
<1>4. act' = [act EXCEPT ![t] = a]
  BY DEF BeforeDone
<1>5. /\ act' \in [Threads -> Act] /\ act'[t] = a
      /\ \A u \in Threads : u # t => act'[u] = act[u]
  BY <1>1, <1>3, <1>4, ActUpdate
<1>6. UNCHANGED <<pc, slot, owned, finished, timer, readCb, connecting,
                  requests, inbox, loopAlive, doneFlag, doneRuns>>
  BY DEF BeforeDone
<1>7. result' \in [Calls -> Result] /\ result'[k] = w /\ w # "none"
      /\ \A j \in Calls : j # k => result'[j] = result[j]
  BY <1>1, <1>2, CallsAssumption DEF BeforeDone, TypeOK, Result, Errors
<1> HIDE DEF k, w, a
<1>8. TypeOK'
  BY <1>1, <1>5, <1>6, <1>7 DEF TypeOK
<1>9. Own'
  BY <1>1, <1>2, <1>3, <1>5, <1>6, <1>7, CallsAssumption DEF IInv, Own, Errors
<1>10. PastOnce'
  BY <1>1, <1>2, <1>3, <1>5, <1>6, <1>7, CallsAssumption DEF IInv, PastOnce, At, PastGate, BeforeRun
<1>11. Fresh'
  BY <1>1, <1>2, <1>3, <1>5, <1>6, <1>7, CallsAssumption DEF IInv, Fresh, Unknown, Unsent
<1>12. Tidy'
  BY <1>1, <1>2, <1>3, <1>5, <1>6, <1>7, CallsAssumption DEF IInv, Tidy, At
<1>13. Returned'
  BY <1>1, <1>2, <1>3, <1>5, <1>6, <1>7, CallsAssumption DEF IInv, Returned
<1> QED BY <1>8, <1>9, <1>10, <1>11, <1>12, <1>13 DEF IInv

(* The winner runs the closure, the first time it runs.                    *)
LEMMA RunDoneInv == ASSUME IInv, NEW t \in Threads, RunDone(t), key' = key, noController' = noController
  PROVE  IInv'
<1> DEFINE k == act[t].call
           w == act[t].with
           a == Finishing(k, "notify", w)
<1>1. TypeOK
  BY DEF IInv
<1>2. k \in Calls /\ w \in Errors \cup Calls /\ act[t].op = "finish" /\ act[t].step = "run"
      /\ act[t].call = k /\ act[t].with = w
  BY <1>1, ActShape DEF RunDone
<1>3. a \in Act /\ a.op = "finish" /\ a.call = k /\ a.step = "notify" /\ a.with = w
  BY <1>2, ActFields DEF FinishSteps
<1>4. act' = [act EXCEPT ![t] = a]
  BY DEF RunDone
<1>5. /\ act' \in [Threads -> Act] /\ act'[t] = a
      /\ \A u \in Threads : u # t => act'[u] = act[u]
  BY <1>1, <1>3, <1>4, ActUpdate
<1>6. UNCHANGED <<pc, slot, owned, finished, timer, readCb, connecting,
                  requests, inbox, loopAlive, result>>
  BY DEF RunDone
<1>7. /\ doneRuns' \in [Calls -> 0..1] /\ doneRuns'[k] = 1 /\ doneRuns[k] = 0
      /\ doneFlag' \in [Calls -> BOOLEAN] /\ doneFlag'[k] = TRUE /\ finished[k]
      /\ \A j \in Calls : j # k => doneRuns'[j] = doneRuns[j] /\ doneFlag'[j] = doneFlag[j]
  BY <1>1, <1>2 DEF RunDone, TypeOK, IInv, PastOnce, At, PastGate, BeforeRun
<1> HIDE DEF k, w, a
<1>8. TypeOK'
  BY <1>1, <1>5, <1>6, <1>7 DEF TypeOK
<1>9. Own'
  BY <1>1, <1>2, <1>3, <1>5, <1>6, <1>7, CallsAssumption DEF IInv, Own
<1>10. PastOnce'
  BY <1>1, <1>2, <1>3, <1>5, <1>6, <1>7, CallsAssumption DEF IInv, PastOnce, At, PastGate, BeforeRun
<1>11. Fresh'
  BY <1>1, <1>2, <1>3, <1>5, <1>6, <1>7, CallsAssumption DEF IInv, Fresh, Unknown, Unsent
<1>12. Tidy'
  BY <1>1, <1>2, <1>3, <1>5, <1>6, <1>7, CallsAssumption DEF IInv, Tidy, At
<1>13. Returned'
  BY <1>1, <1>2, <1>3, <1>5, <1>6, <1>7, CallsAssumption DEF IInv, Returned
<1> QED BY <1>8, <1>9, <1>10, <1>11, <1>12, <1>13 DEF IInv

(* The closure has notified; a caller that won the race itself returns.    *)
LEMMA NotifyInv == ASSUME IInv, NEW t \in Threads, Notify(t), key' = key, noController' = noController
  PROVE  IInv'
<1> DEFINE k == act[t].call
           w == act[t].with
           a == NoAct
<1>1. TypeOK
  BY DEF IInv
<1>2. k \in Calls /\ w \in Errors \cup Calls /\ act[t].op = "finish" /\ act[t].step = "notify"
      /\ act[t].call = k /\ act[t].with = w
  BY <1>1, ActShape DEF Notify
<1>3. a \in Act /\ a.op = "none" /\ a.call = NoCall
  BY ActFields
<1>4. act' = [act EXCEPT ![t] = a]
  BY DEF Notify
<1>5. /\ act' \in [Threads -> Act] /\ act'[t] = a
      /\ \A u \in Threads : u # t => act'[u] = act[u]
  BY <1>1, <1>3, <1>4, ActUpdate
<1>6. UNCHANGED <<slot, owned, finished, timer, readCb, connecting,
                  requests, inbox, loopAlive, doneFlag, doneRuns, result>>
  BY DEF Notify
<1>7. /\ pc' \in [Calls -> CallerPc] /\ doneRuns[k] = 1
      /\ \A j \in Calls : pc'[j] = pc[j] \/ (j = k /\ pc'[j] = "returned")
  BY <1>1, <1>2 DEF Notify, TypeOK, CallerPc, IInv, PastOnce, At
<1> HIDE DEF k, w, a
<1>8. TypeOK'
  BY <1>1, <1>5, <1>6, <1>7 DEF TypeOK
<1>9. Own'
  BY <1>1, <1>2, <1>3, <1>5, <1>6, <1>7, CallsAssumption DEF IInv, Own
<1>10. PastOnce'
  BY <1>1, <1>2, <1>3, <1>5, <1>6, <1>7, CallsAssumption DEF IInv, PastOnce, At, PastGate, BeforeRun
<1>11. Fresh'
  BY <1>1, <1>2, <1>3, <1>5, <1>6, <1>7, CallsAssumption DEF IInv, Fresh, Unknown, Unsent
<1>12. Tidy'
  BY <1>1, <1>2, <1>3, <1>5, <1>6, <1>7, CallsAssumption DEF IInv, Tidy, At
<1>13. Returned'
  BY <1>1, <1>2, <1>3, <1>5, <1>6, <1>7, CallsAssumption DEF IInv, Returned
<1> QED BY <1>8, <1>9, <1>10, <1>11, <1>12, <1>13 DEF IInv

(* doSendRead's first look: leave, or go on to register.                   *)
LEMMA CheckFinishedInv == ASSUME IInv, NEW t \in Threads, CheckFinished(t), key' = key, noController' = noController
  PROVE  IInv'
<1> DEFINE k == act[t].call
           a == IF finished[k] THEN NoAct ELSE Sending(k, "register")
<1>1. TypeOK
  BY DEF IInv
<1>2. k \in Calls /\ act[t].op = "send" /\ act[t].step = "check"
      /\ act[t].call = k
  BY <1>1, ActShape DEF CheckFinished
<1>3. a \in Act /\ (a.call = k \/ a.call = NoCall) /\ a.op \in {"none", "send"}
      /\ a.step # "recheck"
  BY <1>2, ActFields DEF SendSteps, NoAct
<1>4. act' = [act EXCEPT ![t] = a]
  BY DEF CheckFinished
<1>5. /\ act' \in [Threads -> Act] /\ act'[t] = a
      /\ \A u \in Threads : u # t => act'[u] = act[u]
  BY <1>1, <1>3, <1>4, ActUpdate
<1>6. UNCHANGED <<pc, slot, owned, finished, timer, readCb, connecting,
                  requests, inbox, loopAlive, doneFlag, doneRuns, result>>
  BY DEF CheckFinished
<1> HIDE DEF k, a
<1>7. TypeOK'
  BY <1>1, <1>2, <1>3, <1>4, <1>5, <1>6 DEF TypeOK
<1>8. Own'
  BY <1>1, <1>2, <1>3, <1>4, <1>5, <1>6, CallsAssumption DEF IInv, Own
<1>9. PastOnce'
  BY <1>1, <1>2, <1>3, <1>4, <1>5, <1>6, CallsAssumption DEF IInv, PastOnce, At, PastGate, BeforeRun
<1>10. Fresh'
  BY <1>1, <1>2, <1>3, <1>4, <1>5, <1>6, CallsAssumption DEF IInv, Fresh, Unknown, Unsent
<1>11. Tidy'
  BY <1>1, <1>2, <1>3, <1>4, <1>5, <1>6, CallsAssumption DEF IInv, Tidy, At
<1>12. Returned'
  BY <1>1, <1>2, <1>3, <1>4, <1>5, <1>6, CallsAssumption DEF IInv, Returned
<1> QED BY <1>7, <1>8, <1>9, <1>10, <1>11, <1>12 DEF IInv

(* The callback is registered; the second look follows.                    *)
LEMMA ReadMessageInv == ASSUME IInv, NEW t \in Threads, ReadMessage(t), key' = key, noController' = noController
  PROVE  IInv'
<1> DEFINE k == act[t].call
           a == Sending(k, "recheck")
<1>1. TypeOK
  BY DEF IInv
<1>2. k \in Calls /\ act[t].op = "send" /\ act[t].step = "register"
      /\ act[t].call = k
  BY <1>1, ActShape DEF ReadMessage
<1>3. a \in Act /\ a.op = "send" /\ a.call = k /\ a.step = "recheck"
  BY <1>2, ActFields DEF SendSteps
<1>4. act' = [act EXCEPT ![t] = a]
  BY DEF ReadMessage
<1>5. /\ readCb' \in [Calls -> Calls \cup {NoCall}] /\ readCb'[key[k]] = k /\ key[k] \in Calls
      /\ \A j \in Calls : j # key[k] => readCb'[j] = readCb[j]
      /\ timer[k] # "off" /\ k \notin noController /\ pc[k] \notin {"idle", "call", "internal"}
      /\ (doneRuns[k] = 1 => finished[k])
  BY <1>1, <1>2 DEF ReadMessage, MsgId, TypeOK, IInv, Fresh, Unknown, Unsent
<1>6. /\ act' \in [Threads -> Act] /\ act'[t] = a
      /\ \A u \in Threads : u # t => act'[u] = act[u]
  BY <1>1, <1>3, <1>4, ActUpdate
<1>7. UNCHANGED <<pc, slot, owned, finished, timer, connecting, requests,
                  inbox, loopAlive, doneFlag, doneRuns, result>>
  BY DEF ReadMessage
<1> HIDE DEF k, a
<1>8. TypeOK'
  BY <1>1, <1>2, <1>3, <1>4, <1>5, <1>6, <1>7 DEF TypeOK
<1>9. Own'
  BY <1>1, <1>2, <1>3, <1>4, <1>5, <1>6, <1>7, CallsAssumption DEF IInv, Own
<1>10. PastOnce'
  BY <1>1, <1>2, <1>3, <1>4, <1>5, <1>6, <1>7, CallsAssumption DEF IInv, PastOnce, At, PastGate, BeforeRun
<1>11. Fresh'
  BY <1>1, <1>2, <1>3, <1>4, <1>5, <1>6, <1>7, CallsAssumption DEF IInv, Fresh, Unknown, Unsent
<1>12. Tidy'
  BY <1>1, <1>2, <1>3, <1>4, <1>5, <1>6, <1>7, CallsAssumption DEF IInv, Tidy, At
<1>13. Returned'
  BY <1>1, <1>2, <1>3, <1>4, <1>5, <1>6, <1>7, CallsAssumption DEF IInv, Returned
<1> QED BY <1>8, <1>9, <1>10, <1>11, <1>12, <1>13 DEF IInv

(* The second look: a callback registered too late is removed again.       *)
LEMMA RecheckFinishedInv == ASSUME IInv, NEW t \in Threads, RecheckFinished(t), key' = key, noController' = noController
  PROVE  IInv'
<1> DEFINE k == act[t].call
           a == IF finished[k] THEN NoAct ELSE Sending(k, "send")
<1>1. TypeOK
  BY DEF IInv
<1>2. k \in Calls /\ act[t].op = "send" /\ act[t].step = "recheck"
      /\ act[t].call = k
  BY <1>1, ActShape DEF RecheckFinished
<1>3. /\ a \in Act /\ (a.call = k \/ a.call = NoCall) /\ a.op \in {"none", "send"}
      /\ a.step # "recheck"
  BY <1>2, ActFields DEF SendSteps, NoAct
<1>4. act' = [act EXCEPT ![t] = a]
  BY DEF RecheckFinished
<1>5. /\ act' \in [Threads -> Act] /\ act'[t] = a
      /\ \A u \in Threads : u # t => act'[u] = act[u]
  BY <1>1, <1>3, <1>4, ActUpdate
<1>6. /\ readCb' \in [Calls -> Calls \cup {NoCall}]
      /\ finished[k] => \A i \in Calls : readCb'[i] # k
      /\ \A i \in Calls : readCb'[i] = readCb[i] \/ readCb'[i] = NoCall
  BY <1>1, <1>2, CallsAssumption DEF RecheckFinished, MsgId, TypeOK, IInv, Own
<1>7. UNCHANGED <<pc, slot, owned, finished, timer, connecting, requests, inbox,
                  loopAlive, doneFlag, doneRuns, result>>
  BY DEF RecheckFinished
<1> HIDE DEF k, a
<1>8. TypeOK'
  BY <1>1, <1>5, <1>6, <1>7 DEF TypeOK
<1>9. Own'
  BY <1>2, <1>3, <1>5, <1>6, <1>7 DEF IInv, Own
<1>10. PastOnce'
  BY <1>2, <1>3, <1>5, <1>7 DEF IInv, PastOnce, At
<1>11. Fresh'
  BY <1>2, <1>3, <1>5, <1>6, <1>7, CallsAssumption DEF IInv, Fresh, Unknown, Unsent
<1>12. Tidy'
  <2>1. ASSUME NEW i \in Calls, NEW j \in Calls, readCb'[i] = j, finished'[j]
        PROVE  \E u \in Threads :
                 \/ At(u, j, {"timer", "cancel"})'
                 \/ act'[u].op = "send" /\ act'[u].call = j /\ act'[u].step = "recheck"
    <3>1. j # k
      BY <1>2, <1>6, <1>7, <2>1, CallsAssumption
    <3>2. readCb[i] = j /\ finished[j]
      BY <1>6, <1>7, <2>1, <3>1, CallsAssumption
    <3>3. PICK u \in Threads :
            \/ At(u, j, {"timer", "cancel"})
            \/ act[u].op = "send" /\ act[u].call = j /\ act[u].step = "recheck"
      BY <3>2 DEF IInv, Tidy
    <3>4. u # t
      BY <3>1, <3>3 DEF At, k
    <3>5. act'[u] = act[u]
      BY <1>5, <3>4
    <3> QED BY <3>3, <3>5 DEF At
  <2> QED BY <2>1 DEF Tidy
<1>13. Returned'
  BY <1>7 DEF IInv, Returned
<1> QED BY <1>8, <1>9, <1>10, <1>11, <1>12, <1>13 DEF IInv

(* The request leaves.                                                     *)
LEMMA SendRequestInv == ASSUME IInv, NEW t \in Threads, SendRequest(t), key' = key, noController' = noController
  PROVE  IInv'
<1> DEFINE k == act[t].call
           a == NoAct
<1>1. TypeOK
  BY DEF IInv
<1>2. k \in Calls /\ act[t].op = "send" /\ act[t].step = "send"
      /\ act[t].call = k
  BY <1>1, ActShape DEF SendRequest
<1>3. a \in Act /\ a.op = "none" /\ a.call = NoCall
  BY ActFields
<1>4. act' = [act EXCEPT ![t] = a] /\ requests' = requests \cup {k}
  BY DEF SendRequest
<1>5. /\ act' \in [Threads -> Act] /\ act'[t] = a
      /\ \A u \in Threads : u # t => act'[u] = act[u]
  BY <1>1, <1>3, <1>4, ActUpdate
<1>6. UNCHANGED <<pc, slot, owned, finished, timer, readCb, connecting,
                  inbox, loopAlive, doneFlag, doneRuns, result>>
  BY DEF SendRequest
<1> HIDE DEF k, a
<1>7. TypeOK'
  BY <1>1, <1>2, <1>3, <1>4, <1>5, <1>6 DEF TypeOK
<1>8. Own'
  BY <1>1, <1>2, <1>3, <1>4, <1>5, <1>6, CallsAssumption DEF IInv, Own
<1>9. PastOnce'
  BY <1>1, <1>2, <1>3, <1>4, <1>5, <1>6, CallsAssumption DEF IInv, PastOnce, At, PastGate, BeforeRun
<1>10. Fresh'
  BY <1>1, <1>2, <1>3, <1>4, <1>5, <1>6, CallsAssumption DEF IInv, Fresh, Unknown, Unsent
<1>11. Tidy'
  BY <1>1, <1>2, <1>3, <1>4, <1>5, <1>6, CallsAssumption DEF IInv, Tidy, At
<1>12. Returned'
  BY <1>1, <1>2, <1>3, <1>4, <1>5, <1>6, CallsAssumption DEF IInv, Returned
<1> QED BY <1>7, <1>8, <1>9, <1>10, <1>11, <1>12 DEF IInv

(* The caller leaves its objects in the channel's slot.                    *)
LEMMA InitSlotInv == ASSUME IInv, NEW k \in Calls, InitSlot(k), key' = key, noController' = noController
  PROVE  IInv'
<1>1. TypeOK
  BY DEF IInv
<1>2. k \in Calls /\ pc[k] = "idle" /\ pc' \in [Calls -> CallerPc] /\ pc'[k] = "call"
      /\ \A j \in Calls : j # k => pc'[j] = pc[j]
  BY <1>1 DEF InitSlot, HandOff, TypeOK, CallerPc
<1>3. slot' = k
  BY DEF InitSlot, HandOff
<1>4. UNCHANGED <<act, owned, finished, timer, readCb, connecting, requests,
                  inbox, loopAlive, doneFlag, doneRuns, result>>
  BY DEF InitSlot, HandOff
<1>5. TypeOK'
  BY <1>1, <1>2, <1>3, <1>4 DEF TypeOK
<1>6. Own'
  BY <1>1, <1>2, <1>3, <1>4, CallsAssumption DEF IInv, Own
<1>7. PastOnce'
  BY <1>1, <1>2, <1>3, <1>4, CallsAssumption DEF IInv, PastOnce, At, PastGate, BeforeRun
<1>8. Fresh'
  BY <1>1, <1>2, <1>3, <1>4, CallsAssumption DEF IInv, Fresh, Unknown, Unsent
<1>9. Tidy'
  BY <1>1, <1>2, <1>3, <1>4, CallsAssumption DEF IInv, Tidy, At
<1>10. Returned'
  BY <1>1, <1>2, <1>3, <1>4, CallsAssumption DEF IInv, Returned
<1> QED BY <1>5, <1>6, <1>7, <1>8, <1>9, <1>10 DEF IInv

(* An asynchronous call begins.                                            *)
LEMMA CallMethodInv == ASSUME IInv, NEW k \in Calls, CallMethod(k), key' = key, noController' = noController
  PROVE  IInv'
<1>1. TypeOK
  BY DEF IInv
<1>2. k \in Calls /\ pc[k] = "idle" /\ pc' \in [Calls -> CallerPc] /\ pc'[k] = "call"
      /\ \A j \in Calls : j # k => pc'[j] = pc[j]
  BY <1>1 DEF CallMethod, TypeOK, CallerPc
<1>3. UNCHANGED <<act, slot, owned, finished, timer, readCb, connecting,
                  requests, inbox, loopAlive, doneFlag, doneRuns, result>>
  BY DEF CallMethod
<1>4. TypeOK'
  BY <1>1, <1>2, <1>3 DEF TypeOK
<1>5. Own'
  BY <1>1, <1>2, <1>3, CallsAssumption DEF IInv, Own
<1>6. PastOnce'
  BY <1>1, <1>2, <1>3, CallsAssumption DEF IInv, PastOnce, At, PastGate, BeforeRun
<1>7. Fresh'
  BY <1>1, <1>2, <1>3, CallsAssumption DEF IInv, Fresh, Unknown, Unsent
<1>8. Tidy'
  BY <1>1, <1>2, <1>3, CallsAssumption DEF IInv, Tidy, At
<1>9. Returned'
  BY <1>1, <1>2, <1>3, CallsAssumption DEF IInv, Returned
<1> QED BY <1>4, <1>5, <1>6, <1>7, <1>8, <1>9 DEF IInv

(* A rejected call: its closure runs, and nobody knows of the call.        *)
LEMMA RejectCallInv == ASSUME IInv, NEW k \in Calls, RejectCall(k), key' = key, noController' = noController
  PROVE  IInv'
<1>1. TypeOK
  BY DEF IInv
<1>2. k \in Calls /\ pc[k] = "call" /\ pc' \in [Calls -> CallerPc] /\ pc'[k] = "wait"
      /\ \A j \in Calls : j # k => pc'[j] = pc[j]
  BY <1>1 DEF RejectCall, TypeOK, CallerPc
<1>3. /\ doneRuns' \in [Calls -> 0..1] /\ doneRuns[k] = 0 /\ doneRuns'[k] = 1
      /\ doneFlag' \in [Calls -> BOOLEAN] /\ doneFlag'[k] = TRUE
      /\ result' \in [Calls -> Result]
      /\ result'[k] = IF k \in noController THEN "none" ELSE "failed"
      /\ \A j \in Calls : j # k => /\ doneRuns'[j] = doneRuns[j]
                                   /\ doneFlag'[j] = doneFlag[j]
                                   /\ result'[j] = result[j]
  BY <1>1, <1>2 DEF RejectCall, TypeOK, IInv, Fresh, Result, Errors
<1>4. UNCHANGED <<act, slot, owned, finished, timer, readCb, connecting,
                  requests, inbox, loopAlive>>
  BY DEF RejectCall
<1>5. TypeOK'
  BY <1>1, <1>2, <1>3, <1>4 DEF TypeOK
<1>6. Own'
  BY <1>1, <1>2, <1>3, <1>4, CallsAssumption DEF IInv, Own
<1>7. PastOnce'
  BY <1>1, <1>2, <1>3, <1>4, CallsAssumption DEF IInv, PastOnce, At, PastGate, BeforeRun, Fresh, Unknown, Unsent
<1>8. Fresh'
  BY <1>1, <1>2, <1>3, <1>4, CallsAssumption DEF IInv, Fresh, Unknown, Unsent
<1>9. Tidy'
  BY <1>1, <1>2, <1>3, <1>4, CallsAssumption DEF IInv, Tidy, At
<1>10. Returned'
  BY <1>1, <1>2, <1>3, <1>4, CallsAssumption DEF IInv, Returned
<1> QED BY <1>5, <1>6, <1>7, <1>8, <1>9, <1>10 DEF IInv

(* callMethodInternal takes the slot over if it is its own.                *)
LEMMA CaptureSlotInv == ASSUME IInv, NEW k \in Calls, CaptureSlot(k), key' = key, noController' = noController
  PROVE  IInv'
<1>1. TypeOK
  BY DEF IInv
<1>2. k \in Calls /\ pc[k] = "call" /\ pc' \in [Calls -> CallerPc] /\ pc'[k] = "internal"
      /\ k \notin noController
      /\ \A j \in Calls : j # k => pc'[j] = pc[j]
  BY <1>1 DEF CaptureSlot, TypeOK, CallerPc
<1>3. owned' \in [Calls -> BOOLEAN] /\ slot' \in Calls \cup {NoCall}
  BY <1>1, <1>2 DEF CaptureSlot, TypeOK
<1>4. UNCHANGED <<act, finished, timer, readCb, connecting, requests, inbox,
                  loopAlive, doneFlag, doneRuns, result>>
  BY DEF CaptureSlot
<1>5. TypeOK'
  BY <1>1, <1>2, <1>3, <1>4 DEF TypeOK
<1>6. Own'
  BY <1>1, <1>2, <1>3, <1>4, CallsAssumption DEF IInv, Own
<1>7. PastOnce'
  BY <1>1, <1>2, <1>3, <1>4, CallsAssumption DEF IInv, PastOnce, At, PastGate, BeforeRun
<1>8. Fresh'
  BY <1>1, <1>2, <1>3, <1>4, CallsAssumption DEF IInv, Fresh, Unknown, Unsent
<1>9. Tidy'
  BY <1>1, <1>2, <1>3, <1>4, CallsAssumption DEF IInv, Tidy, At
<1>10. Returned'
  BY <1>1, <1>2, <1>3, <1>4, CallsAssumption DEF IInv, Returned
<1> QED BY <1>5, <1>6, <1>7, <1>8, <1>9, <1>10 DEF IInv

(* The caller ends a call that cannot be sent.                             *)
LEMMA FailBeforeSendInv == ASSUME IInv, NEW k \in Calls, FailBeforeSend(k), key' = key, noController' = noController
  PROVE  IInv'
<1> DEFINE a == Finishing(k, "claim", "failed")
<1>1. TypeOK
  BY DEF IInv
<1>2. k \in Calls /\ pc[k] = "internal" /\ pc' \in [Calls -> CallerPc] /\ pc'[k] = "wait"
      /\ \A j \in Calls : j # k => pc'[j] = pc[j]
  BY <1>1 DEF FailBeforeSend, TypeOK, CallerPc
<1>3. k \in Threads
  BY DEF Threads
<1>4. a \in Act /\ a.op = "finish" /\ a.call = k /\ a.step = "claim" /\ a.with = "failed"
  BY <1>2, ActFields DEF FinishSteps, Errors
<1>5. act' = [act EXCEPT ![k] = a] /\ act[k] = NoAct /\ NoAct.op = "none"
  BY ActFields DEF FailBeforeSend
<1>6. /\ act' \in [Threads -> Act] /\ act'[k] = a
      /\ \A u \in Threads : u # k => act'[u] = act[u]
  BY <1>1, <1>3, <1>4, <1>5, ActUpdate
<1>7. UNCHANGED <<slot, owned, finished, timer, readCb, connecting,
                  requests, inbox, loopAlive, doneFlag, doneRuns, result>>
  BY DEF FailBeforeSend
<1> HIDE DEF a
<1>8. TypeOK'
  BY <1>1, <1>2, <1>3, <1>4, <1>5, <1>6, <1>7 DEF TypeOK
<1>9. Own'
  BY <1>1, <1>2, <1>3, <1>4, <1>5, <1>6, <1>7, CallsAssumption DEF IInv, Own
<1>10. PastOnce'
  BY <1>1, <1>2, <1>3, <1>4, <1>5, <1>6, <1>7, CallsAssumption DEF IInv, PastOnce, At, PastGate, BeforeRun
<1>11. Fresh'
  BY <1>1, <1>2, <1>3, <1>4, <1>5, <1>6, <1>7, CallsAssumption DEF IInv, Fresh, Unknown, Unsent
<1>12. Tidy'
  BY <1>1, <1>2, <1>3, <1>4, <1>5, <1>6, <1>7, CallsAssumption DEF IInv, Tidy, At
<1>13. Returned'
  BY <1>1, <1>2, <1>3, <1>4, <1>5, <1>6, <1>7, CallsAssumption DEF IInv, Returned
<1> QED BY <1>8, <1>9, <1>10, <1>11, <1>12, <1>13 DEF IInv

(* The deadline is armed; the request is sent here or when connected.      *)
LEMMA StartInv == ASSUME IInv, NEW k \in Calls, Start(k), key' = key, noController' = noController
  PROVE  IInv'
<1> DEFINE a == Sending(k, "check")
           b == Finishing(k, "claim", "failed")
<1>1. TypeOK
  BY DEF IInv
<1>2. /\ pc[k] = "internal" /\ pc' \in [Calls -> CallerPc] /\ pc'[k] = "wait"
      /\ \A j \in Calls : j # k => pc'[j] = pc[j]
  BY <1>1 DEF Start, TypeOK, CallerPc
<1>3. k \in Threads
  BY DEF Threads
<1>4. /\ a \in Act /\ a.op = "send" /\ a.call = k /\ a.step = "check"
      /\ b \in Act /\ b.op = "finish" /\ b.call = k /\ b.step = "claim" /\ b.with = "failed"
  BY ActFields DEF SendSteps, FinishSteps, Errors
<1>5. /\ act' \in [Threads -> Act] /\ connecting' \subseteq Calls
      /\ act'[k] = a \/ act'[k] = act[k] \/ act'[k] = b
      /\ \A u \in Threads : u # k => act'[u] = act[u]
      /\ \A j \in Calls : j # k => (j \in connecting' <=> j \in connecting)
  BY <1>1, <1>3, <1>4 DEF Start, TypeOK
<1>6. /\ timer' \in [Calls -> {"off", "armed", "cancelled", "fired"}] /\ timer'[k] = "armed"
      /\ \A j \in Calls : j # k => timer'[j] = timer[j]
  BY <1>1 DEF Start, TypeOK
<1>7. UNCHANGED <<slot, owned, finished, readCb, requests, inbox, loopAlive,
                  doneFlag, doneRuns, result>>
  BY DEF Start
<1>8. Unknown(k) /\ ~finished[k] /\ doneRuns[k] = 0
  BY <1>2 DEF IInv, Fresh
<1> HIDE DEF a, b
<1>9. TypeOK'
  BY <1>1, <1>2, <1>5, <1>6, <1>7 DEF TypeOK
<1>10. Own'
  BY <1>4, <1>5, <1>7, CallsAssumption DEF IInv, Own
<1>11. PastOnce'
  BY <1>4, <1>5, <1>7 DEF IInv, PastOnce, At, PastGate, BeforeRun
<1>12. Fresh'
  BY <1>2, <1>4, <1>5, <1>6, <1>7, <1>8 DEF IInv, Fresh, Unknown, Unsent
<1>13. Tidy'
  <2>1. \A i \in Calls : readCb[i] # k
    BY <1>8 DEF Unknown, Unsent
  <2>2. ASSUME NEW i \in Calls, NEW j \in Calls, readCb'[i] = j, finished'[j]
        PROVE  \E t \in Threads :
                 \/ At(t, j, {"timer", "cancel"})'
                 \/ act'[t].op = "send" /\ act'[t].call = j /\ act'[t].step = "recheck"
    <3>1. j # k /\ readCb[i] = j /\ finished[j]
      BY <1>7, <2>1, <2>2
    <3>2. PICK t \in Threads :
            \/ At(t, j, {"timer", "cancel"})
            \/ act[t].op = "send" /\ act[t].call = j /\ act[t].step = "recheck"
      BY <3>1 DEF IInv, Tidy
    <3>3. t # k
      BY <3>1, <3>2, ActFields, CallsAssumption DEF At, Start
    <3>4. act'[t] = act[t]
      BY <1>5, <3>3
    <3> QED BY <3>2, <3>4 DEF At
  <2> QED BY <2>2 DEF Tidy
<1>14. Returned'
  BY <1>2, <1>7, CallsAssumption DEF IInv, Returned
<1> QED BY <1>9, <1>10, <1>11, <1>12, <1>13, <1>14 DEF IInv

(* A caller returns; a blocking one has seen done.                         *)
LEMMA WaitOverInv == ASSUME IInv, NEW k \in Calls, WaitOver(k), key' = key, noController' = noController
  PROVE  IInv'
<1>1. TypeOK
  BY DEF IInv
<1>2. k \in Calls /\ pc[k] \in {"wait", "waitWinner"} /\ pc' \in [Calls -> CallerPc] /\ pc'[k] = "returned"
      /\ \A j \in Calls : j # k => pc'[j] = pc[j]
  BY <1>1 DEF WaitOver, TypeOK, CallerPc
<1>3. k \in Blocking => doneRuns[k] = 1
  BY DEF WaitOver, IInv, PastOnce
<1>4. UNCHANGED <<act, slot, owned, finished, timer, readCb, connecting,
                  requests, inbox, loopAlive, doneFlag, doneRuns, result>>
  BY DEF WaitOver
<1>5. TypeOK'
  BY <1>1, <1>2, <1>3, <1>4 DEF TypeOK
<1>6. Own'
  BY <1>1, <1>2, <1>3, <1>4, CallsAssumption DEF IInv, Own
<1>7. PastOnce'
  BY <1>1, <1>2, <1>3, <1>4, CallsAssumption DEF IInv, PastOnce, At, PastGate, BeforeRun
<1>8. Fresh'
  BY <1>1, <1>2, <1>3, <1>4, CallsAssumption DEF IInv, Fresh, Unknown, Unsent
<1>9. Tidy'
  BY <1>1, <1>2, <1>3, <1>4, CallsAssumption DEF IInv, Tidy, At
<1>10. Returned'
  BY <1>1, <1>2, <1>3, <1>4, CallsAssumption DEF IInv, Returned
<1> QED BY <1>5, <1>6, <1>7, <1>8, <1>9, <1>10 DEF IInv

(* The blocking caller's own timeout.                                      *)
LEMMA LocalTimeoutInv == ASSUME IInv, NEW k \in Calls, LocalTimeout(k), key' = key, noController' = noController
  PROVE  IInv'
<1> DEFINE a == Finishing(k, "claim", "timeout")
<1>1. TypeOK
  BY DEF IInv
<1>2. k \in Calls /\ pc[k] = "wait" /\ pc' \in [Calls -> CallerPc] /\ pc'[k] = "late"
      /\ \A j \in Calls : j # k => pc'[j] = pc[j]
  BY <1>1 DEF LocalTimeout, TypeOK, CallerPc
<1>3. k \in Threads
  BY DEF Threads
<1>4. a \in Act /\ a.op = "finish" /\ a.call = k /\ a.step = "claim" /\ a.with = "timeout"
  BY <1>2, ActFields DEF FinishSteps, Errors
<1>5. act' = [act EXCEPT ![k] = a] /\ act[k] = NoAct /\ NoAct.op = "none" /\ doneRuns[k] = 0
  BY <1>1, ActFields DEF LocalTimeout, IInv, PastOnce, TypeOK
<1>6. /\ act' \in [Threads -> Act] /\ act'[k] = a
      /\ \A u \in Threads : u # k => act'[u] = act[u]
  BY <1>1, <1>3, <1>4, <1>5, ActUpdate
<1>7. UNCHANGED <<slot, owned, finished, timer, readCb, connecting,
                  requests, inbox, loopAlive, doneFlag, doneRuns, result>>
  BY DEF LocalTimeout
<1> HIDE DEF a
<1>8. TypeOK'
  BY <1>1, <1>2, <1>3, <1>4, <1>5, <1>6, <1>7 DEF TypeOK
<1>9. Own'
  BY <1>1, <1>2, <1>3, <1>4, <1>5, <1>6, <1>7, CallsAssumption DEF IInv, Own
<1>10. PastOnce'
  BY <1>1, <1>2, <1>3, <1>4, <1>5, <1>6, <1>7, CallsAssumption DEF IInv, PastOnce, At, PastGate, BeforeRun
<1>11. Fresh'
  BY <1>1, <1>2, <1>3, <1>4, <1>5, <1>6, <1>7, CallsAssumption DEF IInv, Fresh, Unknown, Unsent
<1>12. Tidy'
  BY <1>1, <1>2, <1>3, <1>4, <1>5, <1>6, <1>7, CallsAssumption DEF IInv, Tidy, At
<1>13. Returned'
  BY <1>1, <1>2, <1>3, <1>4, <1>5, <1>6, <1>7, CallsAssumption DEF IInv, Returned
<1> QED BY <1>8, <1>9, <1>10, <1>11, <1>12, <1>13 DEF IInv

(* The deadline's callback enters finishRpc.                               *)
LEMMA TimerFiresInv == ASSUME IInv, NEW k \in Calls, TimerFires(k), key' = key, noController' = noController
  PROVE  IInv'
<1> DEFINE a == Finishing(k, "claim", "timeout")
<1>1. TypeOK
  BY DEF IInv
<1>2. Loop \in Threads
  BY DEF Threads
<1>3. a \in Act /\ a.op = "finish" /\ a.call = k /\ a.step = "claim" /\ a.with = "timeout"
  BY ActFields DEF FinishSteps, Errors
<1>4. act' = [act EXCEPT ![Loop] = a] /\ act[Loop] = NoAct /\ NoAct.op = "none"
  BY ActFields DEF TimerFires, LoopFree
<1>5. timer[k] = "armed" /\ timer' \in [Calls -> {"off", "armed", "cancelled", "fired"}]
      /\ timer'[k] = "fired" /\ \A j \in Calls : j # k => timer'[j] = timer[j]
  BY <1>1 DEF TimerFires, TypeOK
<1>6. /\ act' \in [Threads -> Act] /\ act'[Loop] = a
      /\ \A u \in Threads : u # Loop => act'[u] = act[u]
  BY <1>1, <1>2, <1>3, <1>4, ActUpdate
<1>7. UNCHANGED <<pc, slot, owned, finished, readCb, connecting, requests,
                  inbox, loopAlive, doneFlag, doneRuns, result>>
  BY DEF TimerFires
<1> HIDE DEF a
<1>8. TypeOK'
  BY <1>1, <1>2, <1>3, <1>4, <1>5, <1>6, <1>7 DEF TypeOK
<1>9. Own'
  BY <1>1, <1>2, <1>3, <1>4, <1>5, <1>6, <1>7, CallsAssumption DEF IInv, Own
<1>10. PastOnce'
  BY <1>1, <1>2, <1>3, <1>4, <1>5, <1>6, <1>7, CallsAssumption DEF IInv, PastOnce, At, PastGate, BeforeRun
<1>11. Fresh'
  BY <1>1, <1>2, <1>3, <1>4, <1>5, <1>6, <1>7, CallsAssumption DEF IInv, Fresh, Unknown, Unsent
<1>12. Tidy'
  BY <1>1, <1>2, <1>3, <1>4, <1>5, <1>6, <1>7, CallsAssumption DEF IInv, Tidy, At
<1>13. Returned'
  BY <1>1, <1>2, <1>3, <1>4, <1>5, <1>6, <1>7, CallsAssumption DEF IInv, Returned
<1> QED BY <1>8, <1>9, <1>10, <1>11, <1>12, <1>13 DEF IInv

(* The connect callback ends the call or sends the request.                *)
LEMMA ConnectedInv == ASSUME IInv, NEW k \in Calls, Connected(k), key' = key, noController' = noController
  PROVE  IInv'
<1>1. TypeOK /\ Loop \in Threads
  BY DEF IInv, Threads
<1>2. PICK a \in Act :
        /\ a.call = k /\ act' = [act EXCEPT ![Loop] = a]
        /\ \/ a.op = "finish" /\ a.step = "claim" /\ a.with = "failed"
           \/ a.op = "send" /\ a.step = "check"
  <2>1. CASE act' = [act EXCEPT ![Loop] = Finishing(k, "claim", "failed")]
    <3> DEFINE b == Finishing(k, "claim", "failed")
    <3>1. /\ b \in Act /\ b.call = k
          /\ b.op = "finish" /\ b.step = "claim" /\ b.with = "failed"
      BY ActFields DEF FinishSteps, Errors
    <3> HIDE DEF b
    <3> QED BY <2>1, <3>1 DEF b
  <2>2. CASE act' = [act EXCEPT ![Loop] = Sending(k, "check")]
    <3> DEFINE b == Sending(k, "check")
    <3>1. b \in Act /\ b.call = k /\ b.op = "send" /\ b.step = "check"
      BY ActFields DEF SendSteps
    <3> HIDE DEF b
    <3> QED BY <2>2, <3>1 DEF b
  <2> QED BY <2>1, <2>2 DEF Connected
<1>3. /\ act' \in [Threads -> Act] /\ act'[Loop] = a
      /\ \A u \in Threads : u # Loop => act'[u] = act[u]
  BY <1>1, <1>2, ActUpdate
<1>4. /\ act[Loop].op = "none" /\ k \in connecting /\ connecting' = connecting \ {k}
  BY ActFields DEF Connected, LoopFree
<1>5. UNCHANGED <<pc, slot, owned, finished, timer, readCb, requests, inbox,
                  loopAlive, doneFlag, doneRuns, result>>
  BY DEF Connected
<1>6. TypeOK'
  BY <1>1, <1>3, <1>4, <1>5 DEF TypeOK
<1>7. Own'
  BY <1>1, <1>2, <1>3, <1>5, CallsAssumption DEF IInv, Own
<1>8. PastOnce'
  BY <1>1, <1>2, <1>3, <1>4, <1>5 DEF IInv, PastOnce, At, PastGate, BeforeRun
<1>9. Fresh'
  BY <1>1, <1>2, <1>3, <1>4, <1>5 DEF IInv, Fresh, Unknown, Unsent
<1>10. Tidy'
  BY <1>1, <1>2, <1>3, <1>4, <1>5 DEF IInv, Tidy, At
<1>11. Returned'
  BY <1>5 DEF IInv, Returned
<1> QED BY <1>6, <1>7, <1>8, <1>9, <1>10, <1>11 DEF IInv

(* A response is delivered to the call that registered its id, or dropped. *)
LEMMA OnMessageInv == ASSUME IInv, NEW r \in Calls, OnMessage(r), key' = key, noController' = noController
  PROVE  IInv'
<1>1. TypeOK /\ Loop \in Threads
  BY DEF IInv, Threads
<1>2. inbox' \subseteq Calls
  BY <1>1 DEF OnMessage, ResponseOutcomes, TypeOK
<1>3. UNCHANGED <<pc, slot, owned, finished, timer, connecting, requests,
                  loopAlive, doneFlag, doneRuns, result>>
  BY DEF OnMessage, ResponseOutcomes
<1> DEFINE i == key[r]
           k == readCb[i]
<1>4. i \in Calls /\ k \in Calls \cup {NoCall}
  BY <1>1 DEF TypeOK
<1>5. CASE k = NoCall
  <2>1. UNCHANGED <<act, readCb>>
    BY <1>5 DEF OnMessage, ResponseOutcomes, MsgId
  <2> QED BY <1>1, <1>2, <1>3, <2>1
          DEF IInv, TypeOK, Own, PastOnce, Fresh, Tidy, Returned, Unknown, Unsent, At
<1>6. CASE k # NoCall
  <2>1. k \in Calls /\ key[k] = key[r]
    BY <1>4, <1>6 DEF IInv, Own
  <2>2. PICK w \in {r, "failed"} : act' = [act EXCEPT ![Loop] = Finishing(k, "claim", w)]
    BY <1>6 DEF OnMessage, ResponseOutcomes, MsgId
  <2> DEFINE a == Finishing(k, "claim", w)
  <2>3. a \in Act /\ a.op = "finish" /\ a.call = k /\ a.step = "claim" /\ a.with = w
    <3>1. w \in Errors \cup Calls
      BY DEF Errors
    <3>2. "claim" \in FinishSteps
      BY DEF FinishSteps
    <3> QED BY <2>1, <3>1, <3>2, ActFields
  <2>4. /\ act' \in [Threads -> Act] /\ act'[Loop] = a
        /\ \A u \in Threads : u # Loop => act'[u] = act[u]
    BY <1>1, <2>2, <2>3, ActUpdate
  <2>5. act[Loop].op = "none"
    BY ActFields DEF OnMessage, ResponseOutcomes, LoopFree
  <2>6. /\ readCb' \in [Calls -> Calls \cup {NoCall}] /\ readCb'[i] = NoCall
        /\ \A j \in Calls : j # i => readCb'[j] = readCb[j]
    BY <1>1, <1>4, <1>6 DEF OnMessage, ResponseOutcomes, MsgId, TypeOK
  <2>7. /\ timer[k] # "off" /\ k \notin noController /\ (doneRuns[k] = 1 => finished[k])
        /\ pc[k] \notin {"idle", "call", "internal"}
    BY <1>4, <2>1 DEF IInv, Fresh, Unknown, Unsent
  <2>8. w \in Calls => w = r
    BY CallsAssumption
  <2> HIDE DEF a, i, k
  <2>9. TypeOK'
    BY <1>1, <1>2, <1>3, <2>4, <2>6 DEF TypeOK
  <2>10. Own'
    <3>1. \A j \in Calls : readCb'[j] # NoCall => key[readCb'[j]] = j
      BY <2>6 DEF IInv, Own
    <3> QED BY <1>1, <1>3, <2>1, <2>3, <2>4, <2>8, <3>1 DEF IInv, Own
  <2>11. PastOnce'
    BY <1>1, <1>3, <2>3, <2>4, <2>5 DEF IInv, PastOnce, At, PastGate, BeforeRun
  <2>12. Fresh'
    BY <1>1, <1>3, <2>1, <2>3, <2>4, <2>5, <2>6, <2>7, CallsAssumption
       DEF IInv, Fresh, Unknown, Unsent
  <2>13. Tidy'
    BY <1>1, <1>3, <2>3, <2>4, <2>5, <2>6, CallsAssumption DEF IInv, Tidy, At
  <2>14. Returned'
    BY <1>3 DEF IInv, Returned
  <2> QED BY <2>9, <2>10, <2>11, <2>12, <2>13, <2>14 DEF IInv
<1> QED BY <1>5, <1>6

(* Stopping a client clears its map and nothing else a call depends on.    *)
LEMMA ClearCallbacksInv == ASSUME IInv, ClearCallbacks, key' = key, noController' = noController
  PROVE  IInv'
<1>1. /\ TypeOK /\ readCb' \in [Calls -> Calls \cup {NoCall}]
      /\ \A i \in Calls : readCb'[i] = readCb[i] \/ readCb'[i] = NoCall
  BY DEF IInv, TypeOK, ClearCallbacks
<1>2. UNCHANGED <<pc, act, slot, owned, finished, timer, connecting, requests,
                  inbox, loopAlive, doneFlag, doneRuns, result>>
  BY DEF ClearCallbacks
<1>3. TypeOK'
  BY <1>1, <1>2 DEF TypeOK
<1>4. Own' /\ PastOnce' /\ Returned'
  BY <1>1, <1>2 DEF IInv, Own, PastOnce, At, Returned
<1>5. Fresh' /\ Tidy'
  BY <1>1, <1>2, CallsAssumption DEF IInv, Fresh, Unknown, Unsent, Tidy, At
<1> QED BY <1>3, <1>4, <1>5 DEF IInv

(* The end of the loop leaves the calls as they are.                       *)
LEMMA StopLoopInv == ASSUME IInv, StopLoop, key' = key, noController' = noController
  PROVE  IInv'
<1>1. UNCHANGED <<pc, act, slot, owned, finished, timer, readCb, connecting, requests,
                  inbox, doneFlag, doneRuns, result>> /\ loopAlive' \in BOOLEAN
  BY DEF StopLoop
<1> QED BY <1>1
        DEF IInv, TypeOK, Own, PastOnce, Fresh, Tidy, Returned, Unknown, Unsent, At

(* The server's answers change nothing but the messages in flight.         *)
LEMMA RespondInv == ASSUME IInv, NEW k \in Calls, Respond(k), key' = key, noController' = noController
  PROVE  IInv'
<1>1. UNCHANGED <<pc, act, slot, owned, finished, timer, readCb, connecting,
                  loopAlive, doneFlag, doneRuns, result>>
  BY DEF Respond
<1>2. requests' \subseteq Calls /\ inbox' \subseteq Calls
  BY DEF Respond, IInv, TypeOK
<1> QED BY <1>1, <1>2
        DEF IInv, TypeOK, Own, PastOnce, Fresh, Tidy, Returned, Unknown, Unsent, At

LEMMA InitInv == Init => IInv
<1> SUFFICES ASSUME Init PROVE IInv
  OBVIOUS
<1>1. \A t \in Threads : act[t] = NoAct
  BY DEF Init
<1>2. TypeOK
  BY ActFields DEF Init, TypeOK, CallerPc, Result
<1>3. Own /\ PastOnce
  BY <1>1, ActFields, CallsAssumption DEF Init, Own, PastOnce, At
<1>4. Fresh /\ Tidy /\ Returned
  BY <1>1, ActFields, CallsAssumption DEF Init, Fresh, Unknown, Unsent, Tidy, Returned
<1> QED BY <1>2, <1>3, <1>4 DEF IInv

LEMMA NextInv == IInv /\ [Next]_vars => IInv'
<1> SUFFICES ASSUME IInv, [Next]_vars PROVE IInv'
  OBVIOUS
<1>0. CASE UNCHANGED vars
  BY <1>0 DEF vars, inputs, IInv, TypeOK, Own, PastOnce, Fresh, Tidy, Returned, Unknown, Unsent, At
<1> SUFFICES ASSUME key' = key, noController' = noController, Next PROVE IInv'
  BY <1>0 DEF Next, inputs
<1>1. ASSUME NEW t \in Threads, ThreadStep(t) PROVE IInv'
  BY <1>1, ClaimInv, DeleteTimerInv, CancelReadInv, BeforeDoneInv, RunDoneInv, NotifyInv,
     CheckFinishedInv, ReadMessageInv, RecheckFinishedInv, SendRequestInv
     DEF ThreadStep, FinishStep, SendStep
<1>2. ASSUME NEW k \in Calls, CallerStep(k) PROVE IInv'
  BY <1>2, InitSlotInv, CallMethodInv, RejectCallInv, CaptureSlotInv, FailBeforeSendInv,
     StartInv, WaitOverInv, LocalTimeoutInv
     DEF CallerStep
<1>3. CASE LoopStep
  BY <1>3, TimerFiresInv, ConnectedInv, OnMessageInv DEF LoopStep
<1> QED BY <1>1, <1>2, <1>3, RespondInv, ClearCallbacksInv, StopLoopInv DEF Next

LEMMA Invariance == Spec => []IInv
  BY InitInv, NextInv, PTL DEF Spec

(* The variables keep their types; in particular no closure runs twice.    *)
THEOREM TypeCorrect == Spec => []TypeOK
<1>1. IInv => TypeOK
  BY DEF IInv
<1> QED BY <1>1, Invariance, PTL

(* At most one of the deadline, the response, a connect failure and the    *)
(* blocking caller's timeout passes finishRpc's gate, and whoever does     *)
(* writes the outcome before it runs the closure, once.                    *)
THEOREM WinnerIsUnique == Spec => []OneWinner
<1>1. IInv => OneWinner
  <2> SUFFICES ASSUME IInv, NEW k \in Calls
               PROVE  /\ \A t, u \in Threads :
                           At(t, k, PastGate) /\ At(u, k, PastGate) => t = u
                      /\ doneRuns[k] > 0 => /\ result[k] # "none" \/ k \in noController
                                            /\ ~InFinish(k, BeforeRun)
    BY DEF OneWinner, At, BeforeRun
  <2>1. doneRuns[k] > 0 => doneRuns[k] = 1
    BY DEF IInv, TypeOK
  <2> QED BY <2>1 DEF IInv, PastOnce, At, InFinish
<1> QED BY <1>1, Invariance, PTL

(* When CallMethodBlocking returns, its closure has run and no thread will *)
(* touch the caller's controller and response any more.                    *)
THEOREM ReturnIsFinal == Spec => []NoWriteAfterReturn
<1>1. IInv => NoWriteAfterReturn
  <2> SUFFICES ASSUME IInv, NEW k \in Blocking, pc[k] = "returned"
               PROVE  doneRuns[k] = 1 /\ ~InFinish(k, BeforeRun)
    BY DEF NoWriteAfterReturn, BeforeRun
  <2>1. k \in Calls /\ doneRuns[k] = 1
    BY CallsAssumption DEF IInv, Returned
  <2> QED BY <2>1 DEF IInv, PastOnce, At, InFinish
<1> QED BY <1>1, Invariance, PTL

(* A finished call that no thread is working on has no callback left in    *)
(* the client's map, although registration and cancellation race.          *)
THEOREM CallbacksRemoved == Spec => []NoStaleCallback
<1>1. IInv => NoStaleCallback
  BY CallsAssumption DEF IInv, Own, Tidy, At, NoStaleCallback
<1> QED BY <1>1, Invariance, PTL

(* A call is only completed with a response that carries its id, which for *)
(* a generated id is the response to its own request, whatever ids the     *)
(* other callers' controllers bring.                                       *)
THEOREM ResponsesMatch == Spec => []OwnResponse
<1>1. IInv => OwnResponse
  BY DEF IInv, Own, OwnResponse, OwnKey
<1> QED BY <1>1, Invariance, PTL

-----------------------------------------------------------------------------
(***************************************************************************)
(* Proofs about Coroutine: what the users of RpcCall get back, for any set *)
(* of calls, any of them blocking and any of the others made by            *)
(* coroutines.  Every step of CoNext is a step of RpcCall or leaves its    *)
(* variables alone, so the invariant IInv holds here too and the safety    *)
(* results about RpcCall carry over.  The rest of the invariant follows    *)
(* the outcome from before_done to the user:                               *)
(*  - Body: a coroutine that was resumed has the outcome its closure ran   *)
(*    with, and run() is past the wait only when the coroutine has ended;  *)
(*  - Told: what CallMethodBlocking returned agrees with the outcome.      *)
(* Both rest on Settled: once the closure has run, the outcome is final.   *)
(***************************************************************************)
Frames == {"start", "suspended", "running", "final", "left"}
ReturnCodes == {"none", "-1", "error", "0"}

CoTypes ==
    /\ tasks \subseteq {k \in Calls \ (Blocking \cup noController) : OwnKey(k)}
    /\ frame \in [Calls -> Frames] /\ taken \in [Calls -> Result]
    /\ completed \in [Calls -> BOOLEAN]
    /\ returned \in [Blocking -> ReturnCodes]

Body ==
    \A k \in tasks :
        /\ frame[k] \in {"running", "final", "left"} =>
             doneRuns[k] = 1 /\ taken[k] = result[k]
        /\ completed[k] => frame[k] \in {"final", "left"}
        /\ pc[k] = "returned" => completed[k]

Told ==
    \A k \in Blocking :
        /\ returned[k] # "none" => doneRuns[k] = 1
        /\ returned[k] = "0" => result[k] \in Calls \/ k \in noController
        /\ returned[k] = "error" => result[k] \in Errors
        /\ pc[k] = "returned" => returned[k] # "none" /\ (k \in noController => returned[k] = "0")

CoInv == IInv /\ CoTypes /\ Body /\ Told

\* Once the closure has run nobody writes the outcome, or runs it again.
Settled == \A k \in Calls : doneRuns[k] = 1 => doneRuns'[k] = 1 /\ result'[k] = result[k]

\* The step with which a caller returns touches neither.
ReturnsQuietly ==
    \A k \in Calls : pc[k] # "returned" /\ pc'[k] = "returned" =>
                       doneRuns'[k] = doneRuns[k] /\ result'[k] = result[k]

(* The steps of finishRpc: only its winner writes, and before it runs.     *)
LEMMA FinishSettled ==
  ASSUME IInv, NEW t \in Threads, FinishStep(t) PROVE Settled /\ ReturnsQuietly
<1> DEFINE k == act[t].call
<1>0. TypeOK
  BY DEF IInv
<1>1. act[t].op = "finish" /\ k \in Calls /\ act[t].call = k
  BY <1>0, ActShape DEF FinishStep, Claim, DeleteTimer, CancelRead, BeforeDone, RunDone, Notify
<1> HIDE DEF k
<1>2. CASE UNCHANGED <<doneRuns, result>>
  BY <1>2 DEF Settled, ReturnsQuietly
<1>3. CASE BeforeDone(t)
  <2>1. doneRuns[k] = 0
    BY <1>1, <1>3 DEF BeforeDone, IInv, PastOnce, At, BeforeRun
  <2>2. UNCHANGED <<pc, doneRuns>> /\ \A j \in Calls : j # k => result'[j] = result[j]
    BY <1>0, <1>1, <1>3 DEF BeforeDone, TypeOK, k
  <2> QED BY <2>1, <2>2 DEF Settled, ReturnsQuietly
<1>4. CASE RunDone(t)
  <2>1. doneRuns[k] = 0
    BY <1>1, <1>4 DEF RunDone, IInv, PastOnce, At, BeforeRun
  <2>2. UNCHANGED <<pc, result>> /\ \A j \in Calls : j # k => doneRuns'[j] = doneRuns[j]
    BY <1>0, <1>1, <1>4 DEF RunDone, TypeOK, k
  <2> QED BY <2>1, <2>2 DEF Settled, ReturnsQuietly
<1> QED BY <1>2, <1>3, <1>4 DEF FinishStep, Claim, DeleteTimer, CancelRead, Notify

(* A rejected call had no outcome before.                                  *)
LEMMA CallerSettled ==
  ASSUME IInv, NEW k \in Calls, CallerStep(k) PROVE Settled /\ ReturnsQuietly
<1>0. TypeOK
  BY DEF IInv
<1>1. CASE UNCHANGED <<doneRuns, result>>
  BY <1>1 DEF Settled, ReturnsQuietly
<1>2. CASE RejectCall(k)
  <2>1. doneRuns[k] = 0
    BY <1>2 DEF RejectCall, IInv, Fresh
  <2>2. /\ pc'[k] = "wait"
        /\ \A j \in Calls : j # k => /\ pc'[j] = pc[j] /\ doneRuns'[j] = doneRuns[j]
                                     /\ result'[j] = result[j]
    BY <1>0, <1>2 DEF RejectCall, TypeOK
  <2> QED BY <2>1, <2>2 DEF Settled, ReturnsQuietly
<1> QED BY <1>1, <1>2 DEF CallerStep, InitSlot, CallMethod, CaptureSlot, FailBeforeSend, Start,
                          WaitOver, LocalTimeout

LEMMA NextSettled == ASSUME IInv, [Next]_vars PROVE Settled /\ ReturnsQuietly
<1>1. CASE UNCHANGED <<doneRuns, result>>
  BY <1>1 DEF Settled, ReturnsQuietly
<1>2. ASSUME NEW t \in Threads, SendStep(t) PROVE UNCHANGED <<doneRuns, result>>
  BY <1>2 DEF SendStep, CheckFinished, ReadMessage, RecheckFinished, SendRequest
<1>3. LoopStep => UNCHANGED <<doneRuns, result>>
  BY DEF LoopStep, TimerFires, Connected, OnMessage
<1>4. (\E k \in Calls : Respond(k)) \/ ClearCallbacks \/ StopLoop => UNCHANGED <<doneRuns, result>>
  BY DEF Respond, ClearCallbacks, StopLoop
<1>5. UNCHANGED vars => UNCHANGED <<doneRuns, result>>
  BY DEF vars
<1> QED BY <1>1, <1>2, <1>3, <1>4, <1>5, FinishSettled, CallerSettled DEF Next, ThreadStep

(* A step of a coroutine or of a call is a step of RpcCall.                *)
LEMMA CoNextIsNext == CoNext \/ UNCHANGED allVars => [Next]_vars
<1>1. \A k \in Calls : Begin(k) => Next
  BY DEF Begin, Next, CallerStep
<1>2. \A k \in Calls : BodyStep(k) => UNCHANGED vars
  BY DEF BodyStep, Resume, FinalSuspend, FinalNotify
<1>3. UNCHANGED allVars => UNCHANGED vars
  BY DEF allVars
<1> QED BY <1>1, <1>2, <1>3 DEF CoNext

LEMMA CoInitInv == CoInit => CoInv
<1> SUFFICES ASSUME CoInit PROVE CoInv
  OBVIOUS
<1>1. IInv
  BY InitInv DEF CoInit
<1>2. CoTypes
  BY DEF CoInit, CoTypes, Frames, ReturnCodes, Result
<1>3. Body /\ Told
  BY CallsAssumption DEF CoInit, Init, Body, Told
<1> QED BY <1>1, <1>2, <1>3 DEF CoInv

(* A step of a call: its caller may return, and then run() has seen        *)
(* completed, or CallMethodBlocking picks its return code.                 *)
LEMMA CallStepInv == ASSUME CoInv, [Next]_vars, CallStep PROVE CoInv'
<1>1. IInv /\ TypeOK /\ IInv' /\ Settled /\ ReturnsQuietly
  BY NextInv, NextSettled DEF CoInv, IInv
<1>2. UNCHANGED <<tasks, frame, taken, completed, key, noController>>
  BY DEF CallStep, coVars, inputs
<1>3. \A k \in Blocking : returned'[k] = IF pc[k] # "returned" /\ pc'[k] = "returned"
                                           THEN ReturnCode(k) ELSE returned[k]
  BY DEF CallStep, Return
<1>4. \A k \in Blocking : ReturnCode(k) \in {"-1", "error", "0"}
  BY DEF ReturnCode
<1>5. CoTypes'
  <2>1. returned' \in [Blocking -> ReturnCodes]
    BY <1>4 DEF CallStep, Return, CoInv, CoTypes, ReturnCodes
  <2> QED BY <1>2, <2>1 DEF CoInv, CoTypes, OwnKey
<1>6. Body'
  <2>1. \A k \in tasks : k \in Calls
    BY DEF CoInv, CoTypes
  <2>2. \A k \in tasks : pc'[k] = "returned" => completed[k]
    BY DEF CallStep, Gate, RunReturns, CoInv, Body
  <2> QED BY <1>1, <1>2, <2>1, <2>2 DEF CoInv, Body, Settled
<1>7. Told'
  <2> SUFFICES ASSUME NEW k \in Blocking
               PROVE  /\ returned'[k] # "none" => doneRuns'[k] = 1
                      /\ returned'[k] = "0" => result'[k] \in Calls \/ k \in noController
                      /\ returned'[k] = "error" => result'[k] \in Errors
                      /\ pc'[k] = "returned" => /\ returned'[k] # "none"
                                                /\ k \in noController => returned'[k] = "0"
    BY <1>2 DEF Told
  <2>0. k \in Calls
    BY CallsAssumption
  <2>1. CASE pc[k] # "returned" /\ pc'[k] = "returned"
    <3>1. doneRuns'[k] = 1
      BY <1>1, <2>1 DEF IInv, Returned
    <3>2. result'[k] = result[k] /\ (result[k] # "none" \/ k \in noController)
      BY <1>1, <2>0, <2>1, <3>1 DEF ReturnsQuietly, IInv, PastOnce
    <3>3. result[k] \in Errors \/ result[k] \in Calls \/ k \in noController
      BY <1>1, <2>0, <3>2 DEF TypeOK, Result
    <3>4. returned'[k] = ReturnCode(k)
      BY <1>3, <2>1
    <3>5. returned'[k] \in {"-1", "error", "0"}
      BY <1>4, <3>4
    <3>6. /\ returned'[k] = "0" => result[k] \notin Errors
          /\ returned'[k] = "error" => result[k] \in Errors
      BY <3>4 DEF ReturnCode
    <3>7. k \in noController => pc[k] \notin {"late", "waitWinner"} /\ result[k] = "none"
      BY <1>1, <2>0 DEF IInv, Fresh
    <3>8. k \in noController => returned'[k] = "0"
      BY <3>4, <3>7 DEF ReturnCode, Errors
    <3> QED BY <3>1, <3>2, <3>3, <3>5, <3>6, <3>8
  <2>2. CASE ~(pc[k] # "returned" /\ pc'[k] = "returned")
    <3>1. returned'[k] = returned[k]
      BY <1>3, <2>2
    <3>2. \/ returned[k] = "none" /\ pc'[k] # "returned"
          \/ doneRuns[k] = 1
      BY <2>2 DEF CoInv, Told
    <3>3. returned[k] # "none" => doneRuns'[k] = 1 /\ result'[k] = result[k]
      BY <1>1, <2>0, <3>2 DEF CoInv, Told, Settled
    <3>4. pc'[k] = "returned" => pc[k] = "returned"
      BY <2>2
    <3> QED BY <3>1, <3>3, <3>4 DEF CoInv, Told
  <2> QED BY <2>1, <2>2
<1> QED BY <1>1, <1>5, <1>6, <1>7 DEF CoInv

(* run() makes the call: the coroutine has not been resumed yet.           *)
LEMMA BeginInv == ASSUME CoInv, NEW k \in Calls, Begin(k) PROVE CoInv'
<1>1. IInv /\ TypeOK /\ IInv'
  BY CoNextIsNext, NextInv DEF CoNext, CoInv, IInv
<1>2. doneRuns[k] = 0 /\ k \in tasks
  BY <1>1 DEF IInv, Fresh, Begin, CallMethod
<1>3. UNCHANGED <<tasks, taken, completed, returned, doneRuns, result, key, noController>>
  BY DEF Begin, CallMethod, inputs
<1>4. /\ frame' = [frame EXCEPT ![k] = "suspended"]
      /\ pc' = [pc EXCEPT ![k] = "call"] /\ k \notin Blocking
  BY DEF Begin, CallMethod
<1>5. CoTypes'
  BY <1>3, <1>4 DEF CoInv, CoTypes, Frames, OwnKey
<1>6. ~completed[k]
  BY <1>2 DEF CoInv, Body
<1>7. \A j \in Calls : j # k => frame'[j] = frame[j] /\ pc'[j] = pc[j]
  BY <1>1, <1>4 DEF TypeOK, CoInv, CoTypes
<1>8. frame'[k] = "suspended" /\ pc'[k] = "call"
  BY <1>1, <1>4 DEF TypeOK, CoInv, CoTypes
<1>9. Body'
  BY <1>3, <1>6, <1>7, <1>8 DEF CoInv, Body, CoTypes
<1>10. Told'
  BY <1>3, <1>4, <1>7, CallsAssumption DEF CoInv, Told
<1> QED BY <1>1, <1>5, <1>9, <1>10 DEF CoInv

(* The coroutine runs inside its closure, behind the outcome.              *)
LEMMA BodyStepInv == ASSUME CoInv, NEW k \in Calls, BodyStep(k) PROVE CoInv'
<1>1. IInv /\ TypeOK /\ IInv'
  BY CoNextIsNext, NextInv DEF CoNext, CoInv, IInv
<1>2. UNCHANGED <<tasks, returned, pc, doneRuns, result, key, noController>>
  BY DEF BodyStep, Resume, FinalSuspend, FinalNotify, vars, inputs
<1>3. Told'
  BY <1>2 DEF CoInv, Told
<1>4. CASE Resume(k)
  <2>1. doneRuns[k] = 1 /\ result[k] \in Result
    BY <1>1, <1>4 DEF Resume, TypeOK
  <2>2. /\ frame'[k] = "running" /\ taken'[k] = result[k] /\ frame[k] = "suspended"
        /\ \A j \in Calls : j # k => frame'[j] = frame[j] /\ taken'[j] = taken[j]
        /\ UNCHANGED completed
    BY <1>4 DEF Resume, CoInv, CoTypes
  <2>3. CoTypes'
    BY <1>2, <1>4, <2>1 DEF Resume, CoInv, CoTypes, Frames, OwnKey
  <2>4. Body'
    BY <1>2, <2>1, <2>2 DEF CoInv, CoTypes, Body
  <2> QED BY <1>1, <1>3, <2>3, <2>4 DEF CoInv
<1>5. CASE FinalSuspend(k)
  <2>1. /\ frame'[k] = "final" /\ completed'[k] = TRUE /\ frame[k] = "running"
        /\ \A j \in Calls : j # k => frame'[j] = frame[j] /\ completed'[j] = completed[j]
        /\ UNCHANGED taken
    BY <1>5 DEF FinalSuspend, CoInv, CoTypes
  <2>2. CoTypes'
    BY <1>2, <1>5 DEF FinalSuspend, CoInv, CoTypes, Frames, OwnKey
  <2>3. Body'
    BY <1>2, <2>1 DEF CoInv, CoTypes, Body
  <2> QED BY <1>1, <1>3, <2>2, <2>3 DEF CoInv
<1>6. CASE FinalNotify(k)
  <2>1. /\ frame'[k] = "left" /\ frame[k] = "final"
        /\ \A j \in Calls : j # k => frame'[j] = frame[j]
        /\ UNCHANGED <<taken, completed>>
    BY <1>6 DEF FinalNotify, CoInv, CoTypes
  <2>2. CoTypes'
    BY <1>2, <1>6 DEF FinalNotify, CoInv, CoTypes, Frames, OwnKey
  <2>3. Body'
    BY <1>2, <2>1 DEF CoInv, CoTypes, Body
  <2> QED BY <1>1, <1>3, <2>2, <2>3 DEF CoInv
<1> QED BY <1>4, <1>5, <1>6 DEF BodyStep

LEMMA CoNextInv == CoInv /\ [CoNext]_allVars => CoInv'
<1> SUFFICES ASSUME CoInv, [CoNext]_allVars PROVE CoInv'
  OBVIOUS
<1>1. CASE UNCHANGED allVars
  <2>1. UNCHANGED <<tasks, frame, taken, completed, returned, pc, doneRuns, result,
                    key, noController>>
    BY <1>1 DEF allVars, vars, coVars, inputs
  <2>2. IInv'
    BY <1>1, CoNextIsNext, NextInv DEF CoInv
  <2> QED BY <2>1, <2>2 DEF CoInv, CoTypes, Body, Told, OwnKey
<1>2. CASE Next /\ CallStep
  BY <1>2, CallStepInv
<1> QED BY <1>1, <1>2, BeginInv, BodyStepInv DEF CoNext

LEMMA CoInvariance == CoSpec => []CoInv
  BY CoInitInv, CoNextInv, PTL DEF CoSpec

(* Nobody gets the response to another's call but by sharing its id;       *)
(* Task::run returns what its own call came to, once and for all; the      *)
(* return code of CallMethodBlocking agrees with what is in the            *)
(* controller, and says 0 without one.                                     *)
THEOREM UsersGetTheirs == CoSpec => []RunReturnsResult
<1>1. CoInv => RunReturnsResult
  <2> SUFFICES ASSUME CoInv PROVE RunReturnsResult
    OBVIOUS
  <2>1. OwnResponse
    BY DEF CoInv, IInv, Own, OwnResponse, OwnKey
  <2>2. ASSUME NEW k \in tasks, pc[k] = "returned"
        PROVE  taken[k] = result[k] /\ result[k] \in Errors \cup {k}
    <3>1. /\ k \in Calls /\ k \notin noController /\ OwnKey(k)
          /\ doneRuns[k] = 1 /\ taken[k] = result[k]
      BY <2>2 DEF CoInv, CoTypes, Body
    <3>2. result[k] \in Result /\ result[k] # "none"
      BY <3>1 DEF CoInv, IInv, PastOnce, TypeOK
    <3> QED BY <2>1, <3>1, <3>2 DEF Result, OwnResponse
  <2>3. ASSUME NEW k \in Blocking
        PROVE  /\ k \notin noController =>
                    /\ returned[k] = "0" => result[k] \in Calls
                    /\ returned[k] = "error" => result[k] \in Errors
                    /\ pc[k] = "returned" => returned[k] # "none" /\ result[k] # "none"
               /\ k \in noController /\ pc[k] = "returned" =>
                    returned[k] = "0" /\ result[k] = "none" /\ ~finished[k]
    <3>1. k \in Calls
      BY CallsAssumption
    <3>2. pc[k] = "returned" => doneRuns[k] = 1
      BY DEF CoInv, IInv, Returned
    <3>3. doneRuns[k] = 1 => result[k] # "none" \/ k \in noController
      BY <3>1 DEF CoInv, IInv, PastOnce
    <3>4. k \in noController => result[k] = "none" /\ ~finished[k]
      BY <3>1 DEF CoInv, IInv, Fresh
    <3> QED BY <3>2, <3>3, <3>4 DEF CoInv, Told
  <2> QED BY <2>1, <2>2, <2>3 DEF RunReturnsResult
<1> QED BY <1>1, CoInvariance, PTL

(* The gate of finishRpc, the caller's return and the callback map hold    *)
(* with coroutines that resume on any thread, the loop's included.         *)
THEOREM CallsStaySafe == CoSpec => [](OneWinner /\ NoWriteAfterReturn /\ NoStaleCallback)
<1>1. CoInv => OneWinner
  <2> SUFFICES ASSUME CoInv, NEW k \in Calls
               PROVE  /\ \A t, u \in Threads :
                           At(t, k, PastGate) /\ At(u, k, PastGate) => t = u
                      /\ doneRuns[k] > 0 => /\ result[k] # "none" \/ k \in noController
                                            /\ ~InFinish(k, BeforeRun)
    BY DEF OneWinner, At, BeforeRun
  <2>1. doneRuns[k] > 0 => doneRuns[k] = 1
    BY DEF CoInv, IInv, TypeOK
  <2> QED BY <2>1 DEF CoInv, IInv, PastOnce, At, InFinish
<1>2. CoInv => NoWriteAfterReturn
  <2> SUFFICES ASSUME CoInv, NEW k \in Blocking, pc[k] = "returned"
               PROVE  doneRuns[k] = 1 /\ ~InFinish(k, BeforeRun)
    BY DEF NoWriteAfterReturn, BeforeRun
  <2>1. k \in Calls /\ doneRuns[k] = 1
    BY CallsAssumption DEF CoInv, IInv, Returned
  <2> QED BY <2>1 DEF CoInv, IInv, PastOnce, At, InFinish
<1>3. CoInv => NoStaleCallback
  BY CallsAssumption DEF CoInv, IInv, Own, Tidy, At, NoStaleCallback
<1> QED BY <1>1, <1>2, <1>3, CoInvariance, PTL
=============================================================================
