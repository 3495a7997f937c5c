------------------------------ MODULE Dispatcher ------------------------------
(***************************************************************************)
(* The server's business side: RpcDispatcher::dispatch on the IO threads,  *)
(* the bounded ThreadPool with its condition variable, the services and    *)
(* their closures, and RpcDispatcher::stop, which flags the dispatcher and *)
(* then stops and drains the pool.  Execution modes are set before the     *)
(* server starts, services registered at any time.                         *)
(*                                                                         *)
(* Every request is dispatched by an IO thread of its own.  A service may  *)
(* run its closure before CallMethod returns or keep it for later          *)
(* (deferred).  All requests arrive on one connection, whose m_in_flight   *)
(* the dispatcher maintains.                                               *)
(***************************************************************************)
EXTENDS Integers, Sequences, FiniteSets

CONSTANTS Requests,     \* requests, distinct
          Services,     \* names of services
          Methods,      \* names of the methods every service has
          NoMethod,     \* the name of a method no service has
          Malformed,    \* a full name that is empty or has no dot
          MaxConfigs,   \* bound: calls that set an execution mode
          Workers,      \* threads of the pool
          MaxPending,   \* m_max_pending_tasks; 0 means no limit
          NoRequest

ASSUME RequestsAssumption == NoRequest \notin Requests
                             /\ IsFiniteSet(Requests)
ASSUME LimitAssumption == MaxPending \in Nat /\ MaxConfigs \in Nat
ASSUME NamesAssumption == /\ NoMethod \notin Methods
                          /\ Malformed \notin Services \X (Methods \cup {NoMethod})

VARIABLES
    m_started,     \* RpcServer::m_started: the configuration is closed
    m_service_map, \* services registered
    m_default_execution_mode, m_method_execution_modes,
    configs,       \* calls that have set a mode
    status,        \* per request, see Status
    answer,        \* per request: the response or error that was sent
    refused,       \* per request: why tryExecute refused it
    m_in_flight,   \* of the connection
    m_tasks,       \* the pool's queue
    notify,        \* requests whose enqueuer has not called notify_one yet
    m_stop,        \* ThreadPool::m_stop
    m_stopping,    \* RpcDispatcher::m_stopping
    worker,        \* per worker: check (about to lock), waiting, run, exited
    task,          \* per worker: the request it runs
    stopPc         \* the thread in RpcDispatcher::stop

configVars == <<m_started, m_service_map, m_default_execution_mode,
                m_method_execution_modes, configs>>
runVars == <<status, answer, refused, m_in_flight, m_tasks, notify, m_stop,
             m_stopping, worker, task, stopPc>>
vars == <<configVars, runVars>>

Modes == {"Worker", "Inline"}
FullNames == Services \X Methods
ModeTables == UNION {[D -> Modes] : D \in SUBSET FullNames}

Status == {"new", "counted", "inline", "refused", "queued", "running", "deferred",
           "closing", "closingLate", "answered"}

Answers == {"none", "ok", "unserializable", "parse service name", "service not found",
            "method not found", "deserialize", "shutdown", "overloaded"}

TypeOK ==
    /\ status \in [Requests -> Status]
    /\ m_started \in BOOLEAN /\ m_service_map \subseteq Services
    /\ m_default_execution_mode \in Modes
    /\ m_method_execution_modes \in ModeTables
    /\ configs \in 0..MaxConfigs
    /\ answer \in [Requests -> Answers]
    /\ refused \in [Requests -> {"no", "full", "stopped"}]
    /\ m_in_flight \in Nat
    /\ m_tasks \in Seq(Requests)
    /\ notify \subseteq Requests
    /\ m_stop \in BOOLEAN /\ m_stopping \in BOOLEAN
    /\ worker \in [Workers -> {"check", "waiting", "run", "exited"}]
    /\ task \in [Workers -> Requests \cup {NoRequest}]
    /\ stopPc \in {"idle", "stopping", "flagged", "joining", "stopped"}

Init ==
    /\ m_started = FALSE /\ m_service_map = {} /\ configs = 0
    /\ m_default_execution_mode = "Inline" /\ m_method_execution_modes = <<>>
    /\ status = [r \in Requests |-> "new"]
    /\ answer = [r \in Requests |-> "none"]
    /\ refused = [r \in Requests |-> "no"]
    /\ m_in_flight = 0
    /\ m_tasks = <<>> /\ notify = {}
    /\ m_stop = FALSE /\ m_stopping = FALSE
    /\ worker = [w \in Workers |-> "check"]
    /\ task = [w \in Workers |-> NoRequest]
    /\ stopPc = "idle"

-----------------------------------------------------------------------------
(* Configuration.                                                          *)

\* Not refused after start, when IO threads read m_service_map without a lock;
\* here the insertion is one step.
RegisterService(s) ==
    /\ m_service_map' = m_service_map \cup {s}
    /\ UNCHANGED <<m_started, m_default_execution_mode, m_method_execution_modes, configs>>

SetDefaultExecutionMode(mode) ==
    /\ configs < MaxConfigs /\ configs' = configs + 1
    /\ m_default_execution_mode' = mode
    /\ UNCHANGED <<m_started, m_service_map, m_method_execution_modes>>

\* insert_or_assign.  The method need not exist, nor its service be registered.
SetMethodExecutionMode(n, mode) ==
    /\ configs < MaxConfigs /\ configs' = configs + 1
    /\ m_method_execution_modes' =
          [x \in DOMAIN m_method_execution_modes \cup {n} |->
              IF x = n THEN mode ELSE m_method_execution_modes[x]]
    /\ UNCHANGED <<m_started, m_service_map, m_default_execution_mode>>

\* A server that was stopped does not start.
StartServer ==
    /\ ~m_stopping /\ m_started' = TRUE
    /\ UNCHANGED <<m_service_map, m_default_execution_mode, m_method_execution_modes, configs>>

\* The setters of the modes refuse once the server has started.
Configure ==
    /\ \/ \E s \in Services : RegisterService(s)
       \/ /\ ~m_started
          /\ \/ \E mode \in Modes : SetDefaultExecutionMode(mode)
             \/ \E n \in FullNames, mode \in Modes : SetMethodExecutionMode(n, mode)
             \/ StartServer
    /\ UNCHANGED runVars

-----------------------------------------------------------------------------
(* dispatch, on an IO thread, of a request for the method with name n.     *)
(* It is a TinyPB message, as all that RpcServer's coder makes are: the    *)
(* return for others is not reached.                                       *)

ParseServiceFullName(n) == n # Malformed

ExecutionModeFor(n) ==
    IF n \in DOMAIN m_method_execution_modes
      THEN m_method_execution_modes[n] ELSE m_default_execution_mode

\* The checks, in order; the last fails if the payload does not parse.
DispatchOutcomes(n) ==
    CASE m_stopping -> {"shutdown"}
      [] ~ParseServiceFullName(n) -> {"parse service name"}
      [] n[1] \notin m_service_map -> {"service not found"}
      [] n[2] \notin Methods -> {"method not found"}
      [] OTHER -> {"deserialize", "accept"}

\* sendError, or the closure's send: setTinyPBError and conn->send.
Reply(r, a) ==
    /\ answer' = [answer EXCEPT ![r] = a]
    /\ status' = [status EXCEPT ![r] = "answered"]

DispatchError(r, n) ==
    /\ status[r] = "new" /\ m_started
    /\ \E a \in DispatchOutcomes(n) \ {"accept"} : Reply(r, a)
    /\ UNCHANGED <<refused, m_in_flight, m_tasks, notify, m_stop, m_stopping,
                   worker, task, stopPc>>

\* incrInFlight, after m_stopping was seen FALSE; then the mode decides.
DispatchAccept(r, n) ==
    /\ status[r] = "new" /\ m_started /\ "accept" \in DispatchOutcomes(n)
    /\ status' = [status EXCEPT ![r] =
                     IF ExecutionModeFor(n) = "Inline" THEN "inline" ELSE "counted"]
    /\ m_in_flight' = m_in_flight + 1
    /\ UNCHANGED <<answer, refused, m_tasks, notify, m_stop, m_stopping, worker,
                   task, stopPc>>

Dispatch(r) ==
    \E n \in (Services \X (Methods \cup {NoMethod})) \cup {Malformed} :
        DispatchError(r, n) \/ DispatchAccept(r, n)

InvokeInline(r) ==
    /\ status[r] = "inline"
    /\ status' = [status EXCEPT ![r] = "running"]
    /\ UNCHANGED <<answer, refused, m_in_flight, m_tasks, notify, m_stop,
                   m_stopping, worker, task, stopPc>>

Full == MaxPending # 0 /\ Len(m_tasks) >= MaxPending

\* ThreadPool::tryExecute under the mutex.
TryExecute(r) ==
    /\ status[r] = "counted"
    /\ IF m_stop \/ Workers = {} \/ Full
         THEN /\ status' = [status EXCEPT ![r] = "refused"]
              /\ refused' = [refused EXCEPT ![r] = IF Full THEN "full" ELSE "stopped"]
              /\ UNCHANGED <<m_tasks, notify>>
         ELSE /\ status' = [status EXCEPT ![r] = "queued"]
              /\ m_tasks' = Append(m_tasks, r)
              /\ notify' = notify \cup {r}
              /\ UNCHANGED refused
    /\ UNCHANGED <<answer, m_in_flight, m_stop, m_stopping, worker, task, stopPc>>

\* Regression: no notify_one after the push.
NotifyNobody(r) ==
    /\ r \in notify
    /\ notify' = notify \ {r}
    /\ UNCHANGED <<status, answer, refused, m_in_flight, m_tasks, m_stop,
                   m_stopping, worker, task, stopPc>>

\* m_cv.notify_one, after the mutex is released.
NotifyOne(r) ==
    /\ r \in notify
    /\ notify' = notify \ {r}
    /\ IF \E w \in Workers : worker[w] = "waiting"
         THEN \E w \in Workers : /\ worker[w] = "waiting"
                                 /\ worker' = [worker EXCEPT ![w] = "check"]
         ELSE UNCHANGED worker
    /\ UNCHANGED <<status, answer, refused, m_in_flight, m_tasks, m_stop,
                   m_stopping, task, stopPc>>

\* Regression: a refused request stays counted.
RefuseLeaks(r) ==
    /\ status[r] = "refused"
    /\ Reply(r, IF m_stopping THEN "shutdown" ELSE "overloaded")
    /\ UNCHANGED <<refused, m_in_flight, m_tasks, notify, m_stop, m_stopping,
                   worker, task, stopPc>>

\* Not queued: decrInFlight, and an error chosen by a second look at m_stopping.
Refuse(r) ==
    /\ status[r] = "refused"
    /\ m_in_flight' = m_in_flight - 1
    /\ Reply(r, IF m_stopping THEN "shutdown" ELSE "overloaded")
    /\ UNCHANGED <<refused, m_tasks, notify, m_stop, m_stopping, worker, task, stopPc>>

-----------------------------------------------------------------------------
(* Services: the closure that invokeService hands out.                     *)

\* The closure runs, inside CallMethod or later: decrInFlight first ...
CloseRequest(r) ==
    /\ status[r] \in {"running", "deferred"}
    /\ status' = [status EXCEPT ![r] = IF @ = "running" THEN "closing" ELSE "closingLate"]
    /\ m_in_flight' = m_in_flight - 1
    /\ UNCHANGED <<answer, refused, m_tasks, notify, m_stop, m_stopping, worker,
                   task, stopPc>>

\* ... then the response is sent, or an error if it does not serialise.
SendResponse(r) ==
    /\ status[r] \in {"closing", "closingLate"}
    /\ \E a \in {"ok", "unserializable"} : Reply(r, a)
    /\ UNCHANGED <<refused, m_in_flight, m_tasks, notify, m_stop, m_stopping,
                   worker, task, stopPc>>

\* The service keeps the closure; CallMethod returns without it.
Defer(r) ==
    /\ status[r] = "running"
    /\ status' = [status EXCEPT ![r] = "deferred"]
    /\ UNCHANGED <<answer, refused, m_in_flight, m_tasks, notify, m_stop,
                   m_stopping, worker, task, stopPc>>

-----------------------------------------------------------------------------
(* The workers.                                                            *)

\* With the mutex: take a task, or leave if stopped, or wait.
Lock(w) ==
    /\ worker[w] = "check"
    /\ IF m_tasks # <<>>
         THEN /\ worker' = [worker EXCEPT ![w] = "run"]
              /\ task' = [task EXCEPT ![w] = Head(m_tasks)]
              /\ status' = [status EXCEPT ![Head(m_tasks)] = "running"]
              /\ m_tasks' = Tail(m_tasks)
         ELSE /\ worker' = [worker EXCEPT ![w] = IF m_stop THEN "exited" ELSE "waiting"]
              /\ UNCHANGED <<m_tasks, task, status>>
    /\ UNCHANGED <<answer, refused, m_in_flight, notify, m_stop, m_stopping, stopPc>>

SpuriousWakeup(w) ==
    /\ worker[w] = "waiting"
    /\ worker' = [worker EXCEPT ![w] = "check"]
    /\ UNCHANGED <<status, answer, refused, m_in_flight, m_tasks, notify, m_stop,
                   m_stopping, task, stopPc>>

\* CallMethod has returned: the response is sent or the closure was kept.
TaskDone(w) ==
    /\ worker[w] = "run"
    /\ status[task[w]] \notin {"running", "closing"}
    /\ worker' = [worker EXCEPT ![w] = "check"]
    /\ task' = [task EXCEPT ![w] = NoRequest]
    /\ UNCHANGED <<status, answer, refused, m_in_flight, m_tasks, notify, m_stop,
                   m_stopping, stopPc>>

-----------------------------------------------------------------------------
(* RpcDispatcher::stop.                                                    *)

\* Regression: the pool is stopped before the dispatcher is flagged.
SetStoppingLate ==
    /\ stopPc = "idle"
    /\ m_stop' = TRUE
    /\ stopPc' = "stopping"
    /\ UNCHANGED <<status, answer, refused, m_in_flight, m_tasks, notify,
                   m_stopping, worker, task>>

SetStopping ==
    /\ stopPc = "idle"
    /\ m_stopping' = TRUE
    /\ stopPc' = "stopping"
    /\ UNCHANGED <<status, answer, refused, m_in_flight, m_tasks, notify, m_stop,
                   worker, task>>

\* stopAndDrain: m_stop under the mutex, notify_all, join.
SetStop ==
    /\ stopPc = "stopping"
    /\ m_stop' = TRUE
    /\ stopPc' = "flagged"
    /\ UNCHANGED <<status, answer, refused, m_in_flight, m_tasks, notify,
                   m_stopping, worker, task>>

\* Regression: only one of the waiting workers is notified.
NotifyOnlyOne ==
    /\ stopPc = "flagged"
    /\ stopPc' = "joining"
    /\ \/ /\ \A w \in Workers : worker[w] # "waiting"
          /\ UNCHANGED worker
       \/ \E w \in Workers : /\ worker[w] = "waiting"
                             /\ worker' = [worker EXCEPT ![w] = "check"]
    /\ UNCHANGED <<status, answer, refused, m_in_flight, m_tasks, notify, m_stop,
                   m_stopping, task>>

NotifyAll ==
    /\ stopPc = "flagged"
    /\ stopPc' = "joining"
    /\ worker' = [w \in Workers |-> IF worker[w] = "waiting" THEN "check" ELSE worker[w]]
    /\ UNCHANGED <<status, answer, refused, m_in_flight, m_tasks, notify, m_stop,
                   m_stopping, task>>

Join ==
    /\ stopPc = "joining"
    /\ \A w \in Workers : worker[w] = "exited"
    /\ stopPc' = "stopped"
    /\ UNCHANGED <<status, answer, refused, m_in_flight, m_tasks, notify, m_stop,
                   m_stopping, worker, task>>

DispatchStep(r) ==
    /\ InvokeInline(r) \/ TryExecute(r) \/ NotifyOne(r) \/ Refuse(r)
    /\ UNCHANGED configVars

ServiceStep(r) == (CloseRequest(r) \/ SendResponse(r)) /\ UNCHANGED configVars

WorkerStep(w) == (Lock(w) \/ TaskDone(w)) /\ UNCHANGED configVars

StopStep == (SetStop \/ NotifyAll \/ Join) /\ UNCHANGED configVars

Next ==
    \/ Configure
    \/ \E r \in Requests : DispatchStep(r) \/ ServiceStep(r)
    \/ \E r \in Requests : (Dispatch(r) \/ Defer(r)) /\ UNCHANGED configVars
    \/ \E w \in Workers : WorkerStep(w)
    \/ \E w \in Workers : SpuriousWakeup(w) /\ UNCHANGED configVars
    \/ SetStopping /\ UNCHANGED configVars
    \/ StopStep

(* Fairness: threads keep running and every service runs its closure in    *)
(* the end.  Requests need not arrive, nobody needs to stop the server,    *)
(* and spurious wakeups are not relied on.                                 *)
Fairness ==
    /\ \A r \in Requests : /\ WF_vars(DispatchStep(r))
                           /\ WF_vars(ServiceStep(r))
    /\ \A w \in Workers : WF_vars(WorkerStep(w))
    /\ WF_vars(StopStep)

Spec == Init /\ [][Next]_vars /\ Fairness

-----------------------------------------------------------------------------
(* Properties.                                                             *)

Counted == {r \in Requests :
              status[r] \in {"counted", "inline", "refused", "queued", "running", "deferred"}}

(* m_in_flight counts exactly the requests that were accepted and whose    *)
(* closure has not run: a leak would keep a half-closed connection open    *)
(* for ever, a double decrement would close it under a running request.    *)
InFlightExact == m_in_flight = Cardinality(Counted)

(* "server worker queue is full" is only said when it was: a request       *)
(* refused because of the shutdown race is told "shutting down".           *)
OverloadMeansFull == \A r \in Requests : answer[r] = "overloaded" => refused[r] = "full"

(* Every accepted request is answered, also when it races with stop().     *)
AllAnswered ==
    \A r \in Requests : status[r] \in {"counted", "inline"} ~> status[r] = "answered"

(* stop() returns, and by then every request that reached the pool has     *)
(* been handed to its service, whose CallMethod has returned: stopAndDrain *)
(* drains.                                                                 *)
StopReturns ==
    m_stopping ~>
        /\ stopPc = "stopped"
        /\ m_tasks = <<>> /\ \A w \in Workers : task[w] = NoRequest
=============================================================================
