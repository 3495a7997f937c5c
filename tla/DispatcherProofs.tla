--------------------------- MODULE DispatcherProofs ---------------------------
(***************************************************************************)
(* Proofs about Dispatcher for any requests, services, methods, workers    *)
(* and any queue limit.                                                    *)
(*                                                                         *)
(* The inductive invariant adds to TypeOK: the pool's queue holds each     *)
(* queued request once; a request without an answer has none; why a        *)
(* request was refused is known when it is told; the pool is stopped after *)
(* the dispatcher is flagged; and a worker that has left the pool has left *)
(* an empty queue behind.                                                  *)
(***************************************************************************)
EXTENDS Dispatcher, FiniteSetTheorems, SequenceTheorems, TLAPS

(* The queue holds requests with status "queued", each at most once.       *)
QueueExact ==
    /\ \A i \in 1..Len(m_tasks) : status[m_tasks[i]] = "queued"
    /\ \A i, j \in 1..Len(m_tasks) : m_tasks[i] = m_tasks[j] => i = j

Unanswered == \A r \in Requests : status[r] # "answered" => answer[r] = "none"

RefusedWhy ==
    \A r \in Requests :
        /\ status[r] = "refused" => refused[r] # "no"
        /\ refused[r] = "stopped" => m_stopping \/ Workers = {}
        /\ answer[r] = "overloaded" => refused[r] = "full" \/ Workers = {}

FlaggedFirst ==
    /\ stopPc # "idle" => m_stopping
    /\ m_stop => m_stopping
    /\ stopPc \in {"flagged", "joining", "stopped"} => m_stop

ExitedDry ==
    /\ \A w \in Workers : worker[w] = "exited" => m_stop /\ m_tasks = <<>>
    /\ \A w \in Workers : task[w] # NoRequest => worker[w] = "run"
    /\ Workers = {} => m_tasks = <<>>
    /\ stopPc = "stopped" => \A w \in Workers : worker[w] = "exited"

IInv == /\ TypeOK /\ QueueExact /\ Unanswered /\ RefusedWhy /\ FlaggedFirst
        /\ ExitedDry /\ InFlightExact

(* When stop() has returned, the pool has handed every queued request to a *)
(* service whose CallMethod has returned: the safety half of StopReturns.  *)
StoppedDrained ==
    stopPc = "stopped" => m_tasks = <<>> /\ \A w \in Workers : task[w] = NoRequest

(* A request is answered once: an answer that was sent is never followed   *)
(* by another, whoever sends it (an IO thread's error, a refused tryExecute *)
(* or the closure).                                                        *)
AnsweredOnce == [][\A r \in Requests : answer[r] # "none" => answer'[r] = answer[r]]_vars

(* The set of counted requests is finite and its size a natural number.    *)
LEMMA CountedFinite == IsFiniteSet(Counted) /\ Cardinality(Counted) \in Nat
<1>1. Counted \subseteq Requests
  BY DEF Counted
<1>2. IsFiniteSet(Counted)
  BY <1>1, FS_Subset, RequestsAssumption
<1> QED BY <1>2, FS_CardinalityType

(* The setters keep the table of execution modes a function into Modes.    *)
LEMMA ModesType ==
  ASSUME NEW f \in ModeTables, NEW n \in FullNames, NEW mode \in Modes
  PROVE  [x \in DOMAIN f \cup {n} |-> IF x = n THEN mode ELSE f[x]]
            \in ModeTables
<1>1. PICK D \in SUBSET FullNames : f \in [D -> Modes]
  BY DEF ModeTables
<1> DEFINE g == [x \in DOMAIN f \cup {n} |-> IF x = n THEN mode ELSE f[x]]
<1>2. g \in [D \cup {n} -> Modes]
  BY <1>1
<1>3. D \cup {n} \in SUBSET FullNames
  BY <1>1
<1> QED BY <1>2, <1>3 DEF ModeTables

(* Nothing has arrived, nothing is counted.                                *)
LEMMA InitInv == Init => IInv
<1> SUFFICES ASSUME Init PROVE IInv
  OBVIOUS
<1>1. m_method_execution_modes \in ModeTables
  <2>1. m_method_execution_modes \in [{} -> Modes]
    BY DEF Init
  <2>2. {} \in SUBSET FullNames
    OBVIOUS
  <2> QED BY <2>1, <2>2 DEF ModeTables
<1>2. m_tasks \in Seq(Requests) /\ Len(m_tasks) = 0
  BY DEF Init
<1>3. TypeOK
  <2>1. /\ status \in [Requests -> Status]
        /\ answer \in [Requests -> Answers]
        /\ refused \in [Requests -> {"no", "full", "stopped"}]
    BY DEF Init, Status, Answers
  <2>2. /\ worker \in [Workers -> {"check", "waiting", "run", "exited"}]
        /\ task \in [Workers -> Requests \cup {NoRequest}]
    BY DEF Init
  <2>3. configs \in 0..MaxConfigs /\ m_default_execution_mode \in Modes
    BY LimitAssumption DEF Init, Modes
  <2> QED BY <1>1, <1>2, <2>1, <2>2, <2>3 DEF Init, TypeOK
<1>4. Counted = {}
  BY DEF Init, Counted
<1>5. InFlightExact
  BY <1>4, FS_EmptySet DEF Init, InFlightExact
<1>6. QueueExact
  BY <1>2 DEF QueueExact
<1>7. Unanswered /\ RefusedWhy /\ FlaggedFirst /\ ExitedDry
  BY DEF Init, Unanswered, RefusedWhy, FlaggedFirst, ExitedDry
<1> QED BY <1>3, <1>5, <1>6, <1>7 DEF IInv

(* Accepting a request counts it; its closure, or a refusal, uncounts it.  *)
LEMMA CountOne ==
  ASSUME InFlightExact, NEW r \in Requests,
         \/ r \notin Counted /\ Counted' = Counted \cup {r} /\ m_in_flight' = m_in_flight + 1
         \/ r \in Counted /\ Counted' = Counted \ {r} /\ m_in_flight' = m_in_flight - 1
         \/ Counted' = Counted /\ m_in_flight' = m_in_flight
  PROVE  InFlightExact' /\ m_in_flight' \in Nat
<1>1. /\ IsFiniteSet(Counted \cup {r})
      /\ r \notin Counted => Cardinality(Counted \cup {r}) = Cardinality(Counted) + 1
  BY CountedFinite, FS_AddElement
<1>2. /\ IsFiniteSet(Counted \ {r})
      /\ r \in Counted => Cardinality(Counted \ {r}) = Cardinality(Counted) - 1
  BY CountedFinite, FS_RemoveElement
<1>3. /\ Cardinality(Counted) \in Nat
      /\ Cardinality(Counted \cup {r}) \in Nat
      /\ Cardinality(Counted \ {r}) \in Nat
  BY <1>1, <1>2, CountedFinite, FS_CardinalityType
<1> QED BY <1>1, <1>2, <1>3 DEF InFlightExact

(* A request that is not in the queue may change its status.               *)
LEMMA QueueKept ==
  ASSUME TypeOK, QueueExact, NEW r \in Requests, status[r] # "queued", NEW s,
         status' = [status EXCEPT ![r] = s], m_tasks' = m_tasks
  PROVE  QueueExact'
<1>1. \A i \in 1..Len(m_tasks) : m_tasks[i] \in Requests /\ m_tasks[i] # r
  BY DEF TypeOK, QueueExact
<1> QED BY <1>1 DEF TypeOK, QueueExact

(* Configuration touches nothing that the requests use.                    *)
LEMMA ConfigureInv == IInv /\ Configure => IInv'
<1> SUFFICES ASSUME IInv, Configure PROVE IInv'
  OBVIOUS
<1> USE DEF IInv
<1>1. /\ m_started' \in BOOLEAN /\ m_service_map' \subseteq Services
      /\ m_default_execution_mode' \in Modes
      /\ m_method_execution_modes' \in ModeTables
      /\ configs' \in 0..MaxConfigs
  <2>1. ASSUME NEW s \in Services, RegisterService(s) PROVE <1>1!:
    BY <2>1 DEF RegisterService, TypeOK
  <2>2. ASSUME NEW mode \in Modes, SetDefaultExecutionMode(mode) PROVE <1>1!:
    BY <2>2, LimitAssumption DEF SetDefaultExecutionMode, TypeOK
  <2>3. ASSUME NEW n \in FullNames, NEW mode \in Modes, SetMethodExecutionMode(n, mode)
        PROVE  <1>1!:
    <3>1. m_method_execution_modes' \in ModeTables
      BY <2>3, ModesType, ZenonT(30) DEF SetMethodExecutionMode, TypeOK
    <3> QED BY <2>3, <3>1, LimitAssumption DEF SetMethodExecutionMode, TypeOK
  <2>4. CASE StartServer
    BY <2>4 DEF StartServer, TypeOK
  <2> QED BY <2>1, <2>2, <2>3, <2>4 DEF Configure
<1>2. UNCHANGED <<status, answer, refused, m_in_flight, m_tasks, notify, m_stop,
                  m_stopping, worker, task, stopPc>>
  BY DEF Configure, runVars
<1>3. TypeOK'
  BY <1>1, <1>2 DEF TypeOK
<1>4. Counted' = Counted
  BY <1>2 DEF Counted
<1>5. InFlightExact'
  BY <1>2, <1>4 DEF InFlightExact
<1>6. QueueExact' /\ Unanswered' /\ RefusedWhy' /\ FlaggedFirst' /\ ExitedDry'
  BY <1>2 DEF QueueExact, Unanswered, RefusedWhy, FlaggedFirst, ExitedDry
<1> QED BY <1>3, <1>5, <1>6

(* An outcome of dispatch other than acceptance is an answer, and none of  *)
(* them is "overloaded".                                                   *)
LEMMA OutcomeType ==
  ASSUME NEW n, NEW a \in DispatchOutcomes(n) \ {"accept"}
  PROVE  a \in Answers /\ a \notin {"none", "overloaded"}
  BY DEF DispatchOutcomes, Answers

(* Every step of an IO thread preserves the invariant.                     *)
LEMMA DispatchInv ==
  ASSUME IInv, NEW r \in Requests, UNCHANGED configVars,
         Dispatch(r) \/ InvokeInline(r) \/ TryExecute(r) \/ NotifyOne(r) \/ Refuse(r)
  PROVE  IInv'
<1> USE DEF IInv, configVars
<1>1. ASSUME NEW n, DispatchError(r, n) PROVE IInv'
  <2>1. PICK a \in DispatchOutcomes(n) \ {"accept"} : Reply(r, a)
    BY <1>1 DEF DispatchError
  <2>2. a \in Answers /\ a \notin {"none", "overloaded"}
    BY OutcomeType
  <2>3. TypeOK'
    BY <1>1, <2>1, <2>2 DEF DispatchError, Reply, TypeOK, Status
  <2>4. Counted' = Counted
    BY <1>1, <2>1 DEF DispatchError, Reply, TypeOK, Counted
  <2>5. InFlightExact'
    BY <1>1, <2>4, CountOne DEF DispatchError
  <2>6. QueueExact'
    BY <1>1, <2>1, QueueKept DEF DispatchError, Reply
  <2>7. Unanswered' /\ RefusedWhy'
    BY <1>1, <2>1, <2>2 DEF DispatchError, Reply, TypeOK, Unanswered, RefusedWhy
  <2> QED BY <1>1, <2>3, <2>5, <2>6, <2>7 DEF DispatchError, FlaggedFirst, ExitedDry
<1>2. ASSUME NEW n, DispatchAccept(r, n) PROVE IInv'
  <2>1. PICK s \in {"inline", "counted"} : status' = [status EXCEPT ![r] = s]
    BY <1>2 DEF DispatchAccept
  <2>2. r \notin Counted /\ Counted' = Counted \cup {r}
    BY <1>2, <2>1 DEF DispatchAccept, TypeOK, Counted
  <2>3. InFlightExact' /\ m_in_flight' \in Nat
    BY <1>2, <2>2, CountOne DEF DispatchAccept
  <2>5. TypeOK'
    BY <1>2, <2>1, <2>3 DEF DispatchAccept, TypeOK, Status
  <2>6. QueueExact'
    BY <1>2, <2>1, QueueKept DEF DispatchAccept
  <2>7. Unanswered' /\ RefusedWhy'
    BY <1>2, <2>1 DEF DispatchAccept, TypeOK, Unanswered, RefusedWhy
  <2> QED BY <1>2, <2>3, <2>5, <2>6, <2>7 DEF DispatchAccept, FlaggedFirst, ExitedDry
<1>3. CASE InvokeInline(r)
  <2>1. Counted' = Counted
    BY <1>3 DEF InvokeInline, TypeOK, Counted
  <2>2. InFlightExact'
    BY <1>3, <2>1, CountOne DEF InvokeInline
  <2>3. TypeOK'
    BY <1>3 DEF InvokeInline, TypeOK, Status
  <2>4. QueueExact'
    BY <1>3, QueueKept DEF InvokeInline
  <2>5. Unanswered' /\ RefusedWhy'
    BY <1>3 DEF InvokeInline, TypeOK, Unanswered, RefusedWhy
  <2> QED BY <1>3, <2>2, <2>3, <2>4, <2>5 DEF InvokeInline, FlaggedFirst, ExitedDry
<1>4. CASE TryExecute(r)
  <2>1. CASE m_stop \/ Workers = {} \/ Full
    <3>1. /\ status' = [status EXCEPT ![r] = "refused"]
          /\ refused' = [refused EXCEPT ![r] = IF Full THEN "full" ELSE "stopped"]
          /\ UNCHANGED <<m_tasks, notify>>
      BY <1>4, <2>1 DEF TryExecute
    <3>2. Counted' = Counted
      BY <1>4, <3>1 DEF TryExecute, TypeOK, Counted
    <3>3. InFlightExact'
      BY <1>4, <3>2, CountOne DEF TryExecute
    <3>4. TypeOK'
      BY <1>4, <3>1 DEF TryExecute, TypeOK, Status
    <3>5. QueueExact'
      BY <1>4, <3>1, QueueKept DEF TryExecute
    <3>6. ~Full => m_stopping \/ Workers = {}
      BY <2>1 DEF FlaggedFirst
    <3>7. Unanswered' /\ RefusedWhy'
      BY <1>4, <3>1, <3>6 DEF TryExecute, TypeOK, Unanswered, RefusedWhy
    <3> QED BY <1>4, <3>1, <3>3, <3>4, <3>5, <3>7 DEF TryExecute, FlaggedFirst, ExitedDry
  <2>2. CASE ~(m_stop \/ Workers = {} \/ Full)
    <3>1. /\ status' = [status EXCEPT ![r] = "queued"]
          /\ m_tasks' = Append(m_tasks, r)
          /\ notify' = notify \cup {r}
          /\ UNCHANGED refused
      BY <1>4, <2>2 DEF TryExecute
    <3>2. Counted' = Counted
      BY <1>4, <3>1 DEF TryExecute, TypeOK, Counted
    <3>3. InFlightExact'
      BY <1>4, <3>2, CountOne DEF TryExecute
    <3>4. m_tasks' \in Seq(Requests)
      BY <3>1 DEF TypeOK
    <3>5. TypeOK'
      BY <1>4, <3>1, <3>4 DEF TryExecute, TypeOK, Status
    <3>6. QueueExact'
      <4>1. \A i \in 1..Len(m_tasks) : m_tasks[i] \in Requests /\ m_tasks[i] # r
        BY <1>4 DEF TryExecute, TypeOK, QueueExact
      <4>2. Len(m_tasks') = Len(m_tasks) + 1 /\ m_tasks'[Len(m_tasks) + 1] = r
        BY <3>1 DEF TypeOK
      <4>3. \A i \in 1..Len(m_tasks) : m_tasks'[i] = m_tasks[i]
        BY <3>1 DEF TypeOK
      <4>4. Len(m_tasks) \in Nat
        BY DEF TypeOK
      <4>5. \A i \in 1..Len(m_tasks') : i \in 1..Len(m_tasks) \/ i = Len(m_tasks) + 1
        BY <4>2, <4>4
      <4>6. \A i \in 1..Len(m_tasks') : status'[m_tasks'[i]] = "queued"
        BY <3>1, <4>1, <4>2, <4>3, <4>5 DEF TypeOK, QueueExact
      <4>7. \A i, j \in 1..Len(m_tasks') : m_tasks'[i] = m_tasks'[j] => i = j
        BY <4>1, <4>2, <4>3, <4>5 DEF QueueExact
      <4> QED BY <4>6, <4>7 DEF QueueExact
    <3>7. Unanswered' /\ RefusedWhy'
      BY <1>4, <3>1 DEF TryExecute, TypeOK, Unanswered, RefusedWhy
    <3>8. FlaggedFirst' /\ ExitedDry'
      BY <1>4, <2>2 DEF TryExecute, FlaggedFirst, ExitedDry
    <3> QED BY <3>3, <3>5, <3>6, <3>7, <3>8
  <2> QED BY <2>1, <2>2
<1>5. CASE NotifyOne(r)
  <2>1. /\ worker' \in [Workers -> {"check", "waiting", "run", "exited"}]
        /\ \A w \in Workers : worker'[w] = "exited" => worker[w] = "exited"
        /\ \A w \in Workers : worker[w] \in {"run", "exited"} => worker'[w] = worker[w]
    BY <1>5 DEF NotifyOne, TypeOK
  <2>2. TypeOK'
    BY <1>5, <2>1 DEF NotifyOne, TypeOK
  <2>3. Counted' = Counted
    BY <1>5 DEF NotifyOne, Counted
  <2>4. InFlightExact'
    BY <1>5, <2>3, CountOne DEF NotifyOne
  <2>5. ExitedDry'
    BY <1>5, <2>1 DEF NotifyOne, ExitedDry
  <2> QED BY <1>5, <2>2, <2>4, <2>5 DEF NotifyOne, QueueExact, Unanswered, RefusedWhy, FlaggedFirst
<1>6. CASE Refuse(r)
  <2>1. PICK a \in {"shutdown", "overloaded"} :
            Reply(r, a) /\ a = IF m_stopping THEN "shutdown" ELSE "overloaded"
    BY <1>6 DEF Refuse
  <2>2. r \in Counted /\ Counted' = Counted \ {r}
    BY <1>6, <2>1 DEF Refuse, Reply, TypeOK, Counted
  <2>3. InFlightExact' /\ m_in_flight' \in Nat
    BY <1>6, <2>2, CountOne DEF Refuse
  <2>5. TypeOK'
    BY <1>6, <2>1, <2>3 DEF Refuse, Reply, TypeOK, Status, Answers
  <2>6. QueueExact'
    BY <1>6, <2>1, QueueKept DEF Refuse, Reply
  <2>7. Unanswered' /\ RefusedWhy'
    BY <1>6, <2>1 DEF Refuse, Reply, TypeOK, Unanswered, RefusedWhy
  <2> QED BY <1>6, <2>3, <2>5, <2>6, <2>7 DEF Refuse, FlaggedFirst, ExitedDry
<1> QED BY <1>1, <1>2, <1>3, <1>4, <1>5, <1>6 DEF Dispatch

(* A closure runs once, uncounts the request and sends the response.       *)
LEMMA ServiceInv ==
  ASSUME IInv, NEW r \in Requests, UNCHANGED configVars,
         CloseRequest(r) \/ SendResponse(r) \/ Defer(r)
  PROVE  IInv'
<1> USE DEF IInv, configVars
<1>1. CASE CloseRequest(r)
  <2>1. PICK s \in {"closing", "closingLate"} : status' = [status EXCEPT ![r] = s]
    BY <1>1 DEF CloseRequest, TypeOK
  <2>2. r \in Counted /\ Counted' = Counted \ {r}
    BY <1>1, <2>1 DEF CloseRequest, TypeOK, Counted
  <2>3. InFlightExact' /\ m_in_flight' \in Nat
    BY <1>1, <2>2, CountOne DEF CloseRequest
  <2>4. TypeOK'
    BY <1>1, <2>1, <2>3 DEF CloseRequest, TypeOK, Status
  <2>5. QueueExact'
    BY <1>1, <2>1, QueueKept DEF CloseRequest
  <2>6. Unanswered' /\ RefusedWhy'
    BY <1>1, <2>1 DEF CloseRequest, TypeOK, Unanswered, RefusedWhy
  <2> QED BY <1>1, <2>3, <2>4, <2>5, <2>6 DEF CloseRequest, FlaggedFirst, ExitedDry
<1>2. CASE SendResponse(r)
  <2>1. PICK a \in {"ok", "unserializable"} : Reply(r, a)
    BY <1>2 DEF SendResponse
  <2>2. Counted' = Counted
    BY <1>2, <2>1 DEF SendResponse, Reply, TypeOK, Counted
  <2>3. InFlightExact'
    BY <1>2, <2>2, CountOne DEF SendResponse
  <2>4. TypeOK'
    BY <1>2, <2>1 DEF SendResponse, Reply, TypeOK, Status, Answers
  <2>5. QueueExact'
    BY <1>2, <2>1, QueueKept DEF SendResponse, Reply
  <2>6. Unanswered' /\ RefusedWhy'
    BY <1>2, <2>1 DEF SendResponse, Reply, TypeOK, Unanswered, RefusedWhy
  <2> QED BY <1>2, <2>3, <2>4, <2>5, <2>6 DEF SendResponse, FlaggedFirst, ExitedDry
<1>3. CASE Defer(r)
  <2>1. Counted' = Counted
    BY <1>3 DEF Defer, TypeOK, Counted
  <2>2. InFlightExact'
    BY <1>3, <2>1, CountOne DEF Defer
  <2>3. TypeOK'
    BY <1>3 DEF Defer, TypeOK, Status
  <2>4. QueueExact'
    BY <1>3, QueueKept DEF Defer
  <2>5. Unanswered' /\ RefusedWhy'
    BY <1>3 DEF Defer, TypeOK, Unanswered, RefusedWhy
  <2> QED BY <1>3, <2>2, <2>3, <2>4, <2>5 DEF Defer, FlaggedFirst, ExitedDry
<1> QED BY <1>1, <1>2, <1>3

(* A worker takes the head of the queue, waits, or leaves an empty queue   *)
(* of a stopped pool.                                                      *)
LEMMA WorkerInv ==
  ASSUME IInv, NEW w \in Workers, UNCHANGED configVars,
         Lock(w) \/ SpuriousWakeup(w) \/ TaskDone(w)
  PROVE  IInv'
<1> USE DEF IInv, configVars
<1>1. CASE Lock(w) /\ m_tasks # <<>>
  <2> DEFINE h == Head(m_tasks)
  <2>1. /\ worker' = [worker EXCEPT ![w] = "run"]
        /\ task' = [task EXCEPT ![w] = h]
        /\ status' = [status EXCEPT ![h] = "running"]
        /\ m_tasks' = Tail(m_tasks)
        /\ worker[w] = "check"
        /\ UNCHANGED <<answer, refused, m_in_flight, notify, m_stop, m_stopping, stopPc>>
    BY <1>1 DEF Lock
  <2>2. /\ Len(m_tasks) \in Nat /\ Len(m_tasks) > 0
        /\ h = m_tasks[1] /\ h \in Requests
        /\ Tail(m_tasks) \in Seq(Requests) /\ Len(Tail(m_tasks)) = Len(m_tasks) - 1
        /\ \A i \in 1..Len(Tail(m_tasks)) : Tail(m_tasks)[i] = m_tasks[i + 1]
    BY <1>1 DEF TypeOK
  <2>3. status[h] = "queued"
    BY <2>2 DEF QueueExact
  <2> HIDE DEF h
  <2>4. Counted' = Counted
    BY <2>1, <2>2, <2>3 DEF TypeOK, Counted
  <2>5. InFlightExact'
    BY <2>1, <2>2, <2>4, CountOne
  <2>6. TypeOK'
    BY <2>1, <2>2 DEF TypeOK, Status
  <2>7. QueueExact'
    <3>1. \A i \in 1..Len(m_tasks') : i + 1 \in 1..Len(m_tasks) /\ m_tasks'[i] = m_tasks[i + 1]
      BY <2>1, <2>2
    <3>2. \A i \in 1..Len(m_tasks') : m_tasks'[i] \in Requests /\ m_tasks'[i] # h
      BY <2>2, <3>1 DEF TypeOK, QueueExact
    <3>3. \A i \in 1..Len(m_tasks') : status'[m_tasks'[i]] = "queued"
      BY <2>1, <3>1, <3>2 DEF TypeOK, QueueExact
    <3>4. \A i, j \in 1..Len(m_tasks') : m_tasks'[i] = m_tasks'[j] => i = j
      BY <3>1 DEF QueueExact
    <3> QED BY <3>3, <3>4 DEF QueueExact
  <2>8. Unanswered' /\ RefusedWhy'
    BY <2>1, <2>2, <2>3 DEF TypeOK, Unanswered, RefusedWhy
  <2>9. ExitedDry'
    <3>1. \A v \in Workers : worker[v] # "exited"
      BY <1>1 DEF ExitedDry
    <3> QED BY <2>1, <3>1 DEF TypeOK, ExitedDry
  <2> QED BY <2>1, <2>5, <2>6, <2>7, <2>8, <2>9 DEF FlaggedFirst
<1>2. CASE Lock(w) /\ m_tasks = <<>>
  <2>1. /\ worker[w] = "check"
        /\ worker' = [worker EXCEPT ![w] = IF m_stop THEN "exited" ELSE "waiting"]
        /\ UNCHANGED <<status, answer, refused, m_in_flight, m_tasks, notify, m_stop,
                       m_stopping, task, stopPc>>
    BY <1>2 DEF Lock
  <2>2. TypeOK'
    BY <2>1 DEF TypeOK
  <2>3. Counted' = Counted
    BY <2>1 DEF Counted
  <2>4. ExitedDry'
    BY <1>2, <2>1 DEF TypeOK, ExitedDry
  <2> QED BY <2>1, <2>2, <2>3, <2>4
          DEF InFlightExact, QueueExact, Unanswered, RefusedWhy, FlaggedFirst
<1>3. CASE SpuriousWakeup(w)
  <2>1. TypeOK'
    BY <1>3 DEF SpuriousWakeup, TypeOK
  <2>2. Counted' = Counted
    BY <1>3 DEF SpuriousWakeup, Counted
  <2>3. ExitedDry'
    BY <1>3 DEF SpuriousWakeup, TypeOK, ExitedDry
  <2> QED BY <1>3, <2>1, <2>2, <2>3
          DEF SpuriousWakeup, InFlightExact, QueueExact, Unanswered, RefusedWhy, FlaggedFirst
<1>4. CASE TaskDone(w)
  <2>1. TypeOK'
    BY <1>4 DEF TaskDone, TypeOK
  <2>2. Counted' = Counted
    BY <1>4 DEF TaskDone, Counted
  <2>3. ExitedDry'
    BY <1>4 DEF TaskDone, TypeOK, ExitedDry
  <2> QED BY <1>4, <2>1, <2>2, <2>3
          DEF TaskDone, InFlightExact, QueueExact, Unanswered, RefusedWhy, FlaggedFirst
<1> QED BY <1>1, <1>2, <1>3, <1>4

(* stop() flags the dispatcher before the pool, and waits for the workers. *)
LEMMA StopInv ==
  ASSUME IInv, UNCHANGED configVars, SetStopping \/ StopStep
  PROVE  IInv'
<1> USE DEF IInv, configVars
<1>1. UNCHANGED <<status, answer, refused, m_in_flight, m_tasks, notify, task>>
  BY DEF SetStopping, StopStep, SetStop, NotifyAll, Join
<1>2. Counted' = Counted
  BY <1>1 DEF Counted
<1>3. TypeOK'
  BY <1>1 DEF SetStopping, StopStep, SetStop, NotifyAll, Join, TypeOK
<1>4. m_stopping => m_stopping'
  BY DEF SetStopping, StopStep, SetStop, NotifyAll, Join
<1>5. RefusedWhy'
  BY <1>1, <1>4 DEF RefusedWhy
<1>6. FlaggedFirst'
  BY DEF SetStopping, StopStep, SetStop, NotifyAll, Join, FlaggedFirst, TypeOK
<1>7. ExitedDry'
  <2>1. CASE SetStopping
    BY <2>1 DEF SetStopping, ExitedDry
  <2>2. CASE SetStop
    BY <2>2 DEF SetStop, ExitedDry
  <2>3. CASE NotifyAll
    BY <2>3 DEF NotifyAll, TypeOK, ExitedDry
  <2>4. CASE Join
    BY <2>4 DEF Join, ExitedDry
  <2> QED BY <2>1, <2>2, <2>3, <2>4 DEF StopStep
<1> QED BY <1>1, <1>2, <1>3, <1>5, <1>6, <1>7 DEF InFlightExact, QueueExact, Unanswered

(* Every step preserves the invariant.                                     *)
LEMMA NextInv == IInv /\ [Next]_vars => IInv'
<1> SUFFICES ASSUME IInv, [Next]_vars PROVE IInv'
  OBVIOUS
<1>1. ASSUME NEW r \in Requests, DispatchStep(r) \/ ServiceStep(r) PROVE IInv'
  BY <1>1, DispatchInv, ServiceInv DEF DispatchStep, ServiceStep
<1>2. ASSUME NEW r \in Requests, (Dispatch(r) \/ Defer(r)) /\ UNCHANGED configVars PROVE IInv'
  BY <1>2, DispatchInv, ServiceInv
<1>3. ASSUME NEW w \in Workers, WorkerStep(w) PROVE IInv'
  BY <1>3, WorkerInv DEF WorkerStep
<1>4. ASSUME NEW w \in Workers, SpuriousWakeup(w) /\ UNCHANGED configVars PROVE IInv'
  BY <1>4, WorkerInv
<1>5. CASE SetStopping /\ UNCHANGED configVars
  BY <1>5, StopInv
<1>6. CASE StopStep
  BY <1>6, StopInv DEF StopStep
<1>7. CASE UNCHANGED vars
  <2>1. Counted' = Counted
    BY <1>7 DEF vars, runVars, Counted
  <2> QED BY <1>7, <2>1 DEF vars, configVars, runVars, IInv, TypeOK, QueueExact, Unanswered,
                            RefusedWhy, FlaggedFirst, ExitedDry, InFlightExact
<1> QED BY <1>1, <1>2, <1>3, <1>4, <1>5, <1>6, <1>7, ConfigureInv DEF Next

(* The variables keep their types; in particular m_in_flight, which the    *)
(* closures and the refusals decrement from several threads, never wraps   *)
(* below zero.                                                             *)
THEOREM TypeCorrect == Spec => []TypeOK
<1>1. IInv => TypeOK
  BY DEF IInv
<1> QED BY InitInv, NextInv, <1>1, PTL DEF Spec

(* m_in_flight counts exactly the requests accepted and not yet closed,    *)
(* for any number of requests, workers and any queue limit.                *)
THEOREM InFlightIsExact == Spec => []InFlightExact
<1>1. IInv => InFlightExact
  BY DEF IInv
<1> QED BY InitInv, NextInv, <1>1, PTL DEF Spec

(* A server with workers says "server worker queue is full" only when      *)
(* tryExecute found the queue full.  (Without a worker tryExecute refuses  *)
(* every request, full or not, and this is what they are told.)            *)
THEOREM OverloadIsFull == Workers # {} => (Spec => []OverloadMeansFull)
<1> SUFFICES ASSUME Workers # {} PROVE Spec => []OverloadMeansFull
  OBVIOUS
<1>1. IInv => OverloadMeansFull
  BY DEF IInv, RefusedWhy, OverloadMeansFull
<1> QED BY InitInv, NextInv, <1>1, PTL DEF Spec

(* When RpcDispatcher::stop returns the pool is drained.                   *)
THEOREM StopDrains == Spec => []StoppedDrained
<1>1. IInv => StoppedDrained
  BY DEF IInv, TypeOK, ExitedDry, FlaggedFirst, StoppedDrained
<1> QED BY InitInv, NextInv, <1>1, PTL DEF Spec

(* No request is answered twice.                                           *)
THEOREM OneAnswer == Spec => AnsweredOnce
<1> DEFINE Kept == \A r \in Requests : answer[r] # "none" => answer'[r] = answer[r]
<1>1. IInv /\ [Next]_vars => [Kept]_vars
  <2> SUFFICES ASSUME IInv, Next PROVE Kept
    BY DEF vars
  <2>1. ASSUME NEW r \in Requests, NEW a, status[r] # "answered", Reply(r, a) PROVE Kept
    BY <2>1 DEF Reply, IInv, Unanswered, TypeOK
  <2>2. CASE UNCHANGED answer
    BY <2>2
  <2>3. ASSUME NEW r \in Requests, DispatchStep(r) \/ ServiceStep(r) PROVE Kept
    BY <2>1, <2>2, <2>3 DEF DispatchStep, ServiceStep, InvokeInline, TryExecute, NotifyOne,
                            Refuse, CloseRequest, SendResponse
  <2>4. ASSUME NEW r \in Requests, Dispatch(r) \/ Defer(r) PROVE Kept
    BY <2>1, <2>2, <2>4 DEF Dispatch, DispatchError, DispatchAccept, Defer
  <2>5. ASSUME NEW w \in Workers, WorkerStep(w) \/ SpuriousWakeup(w) PROVE Kept
    BY <2>2, <2>5 DEF WorkerStep, Lock, TaskDone, SpuriousWakeup
  <2>6. CASE Configure \/ SetStopping \/ StopStep
    BY <2>2, <2>6 DEF Configure, runVars, SetStopping, StopStep, SetStop, NotifyAll, Join
  <2> QED BY <2>3, <2>4, <2>5, <2>6 DEF Next
<1> QED BY InitInv, NextInv, <1>1, PTL DEF Spec, AnsweredOnce
=============================================================================
