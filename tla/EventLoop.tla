------------------------------ MODULE EventLoop ------------------------------
(***************************************************************************)
(* rocket::EventLoop: one thread that alternates between the poller, fd    *)
(* handlers, timers and a mutex-protected task queue, and the threads that *)
(* hand it tasks, timers and the order to stop.                            *)
(*                                                                         *)
(* A task is <<owner, n>>: <<p, n>> is the n-th task that thread p passes  *)
(* to queueInLoop, <<c, 0>> is the output flush of connection c, which the *)
(* loop thread queues for itself WITHOUT a wakeup (addTask(.., false)) and *)
(* at most once at a time (m_flush_queued).                                *)
(*                                                                         *)
(* The wakeup channel is an eventfd: writing makes it readable, one drain  *)
(* empties it, so the counter is kept as the Boolean "readable".           *)
(***************************************************************************)
EXTENDS Naturals, Sequences

CONSTANTS Producers,   \* threads other than the loop's that submit work
          Conns,       \* connections served by the loop
          Timers,      \* one-shot timers (RPC deadlines)
          MaxTasks,    \* bound: tasks submitted by each producer
          MaxRounds    \* kMaxPendingTaskRounds

ASSUME RoundsAssumption == MaxRounds \in Nat \ {0}
ASSUME TasksAssumption == MaxTasks \in Nat
ASSUME OwnersAssumption == Producers \cap Conns = {}

VARIABLES
    loopPc,         \* where the loop thread is
    infinite,       \* the poll timeout chosen for this iteration is -1
    active,         \* events reported by poll and not handled yet
    round, batch,   \* locals of processPendingTasks
    m_pending_tasks,
    wakeFd,         \* the eventfd is readable
    m_stop_flag,
    m_flush_queued, \* per connection
    timer,          \* per timer: off, armed, due (its time has come), fired
    prodPc,         \* per producer: where it is inside addTask
    sent, ran,      \* per producer: tasks submitted and tasks executed
    stopPc          \* the thread that calls stop()

loopVars == <<loopPc, infinite, active, round, batch>>
prodVars == <<prodPc, sent>>
vars == <<loopVars, m_pending_tasks, wakeFd, m_stop_flag, m_flush_queued,
          timer, prodVars, ran, stopPc>>

WAKE == "wakeup"     \* the wakeup fd among the active events

Task == (Producers \X (1..MaxTasks)) \cup (Conns \X {0})

LoopPc == {"init", "check", "timeout", "poll", "events", "timers", "swap",
           "run", "ran", "recheck", "rewake", "done"}

TypeOK ==
    /\ loopPc \in LoopPc
    /\ infinite \in BOOLEAN
    /\ active \subseteq (Conns \cup {WAKE})
    /\ round \in 0..MaxRounds
    /\ batch \in Seq(Task)
    /\ m_pending_tasks \in Seq(Task)
    /\ wakeFd \in BOOLEAN
    /\ m_stop_flag \in BOOLEAN
    /\ m_flush_queued \in [Conns -> BOOLEAN]
    /\ timer \in [Timers -> {"off", "armed", "due", "fired"}]
    /\ prodPc \in [Producers -> {"idle", "timed", "pushed"}]
    /\ sent \in [Producers -> 0..MaxTasks]
    /\ ran \in [Producers -> 0..MaxTasks]
    /\ stopPc \in {"idle", "flagged", "stopped"}

Init ==
    /\ loopPc = "init"
    /\ infinite = TRUE
    /\ active = {}
    /\ round = 0
    /\ batch = <<>>
    /\ m_pending_tasks = <<>>
    /\ wakeFd = FALSE
    /\ m_stop_flag = FALSE
    /\ m_flush_queued = [c \in Conns |-> FALSE]
    /\ timer = [t \in Timers |-> "off"]
    /\ prodPc = [p \in Producers |-> "idle"]
    /\ sent = [p \in Producers |-> 0]
    /\ ran = [p \in Producers |-> 0]
    /\ stopPc = "idle"

-----------------------------------------------------------------------------
(* Threads that submit work.  addTask pushes under the mutex and writes    *)
(* the eventfd after releasing it: two steps.                              *)

AddTask(p) ==
    /\ prodPc[p] \in {"idle", "timed"}
    /\ sent[p] < MaxTasks
    /\ sent' = [sent EXCEPT ![p] = @ + 1]
    /\ m_pending_tasks' = Append(m_pending_tasks, <<p, sent[p] + 1>>)
    /\ prodPc' = [prodPc EXCEPT ![p] = "pushed"]
    /\ UNCHANGED <<loopVars, wakeFd, m_stop_flag, m_flush_queued, timer, ran, stopPc>>

\* Regression: the write to the eventfd is lost.
WakeupLost(p) ==
    /\ prodPc[p] = "pushed"
    /\ prodPc' = [prodPc EXCEPT ![p] = "idle"]
    /\ UNCHANGED <<loopVars, m_pending_tasks, wakeFd, m_stop_flag, m_flush_queued,
                   timer, sent, ran, stopPc>>

Wakeup(p) ==
    /\ prodPc[p] = "pushed"
    /\ prodPc' = [prodPc EXCEPT ![p] = "idle"]
    /\ wakeFd' = TRUE
    /\ UNCHANGED <<loopVars, m_pending_tasks, m_stop_flag, m_flush_queued,
                   timer, sent, ran, stopPc>>

(* addTimerEvent inserts into the wheel and does not touch the eventfd.    *)
(* Its foreign caller, RpcChannel::callMethodInternal, goes on to submit   *)
(* the send of the request to the same loop.                               *)
AddTimerEvent(p, t) ==
    /\ prodPc[p] = "idle"
    /\ sent[p] < MaxTasks
    /\ timer[t] = "off"
    /\ timer' = [timer EXCEPT ![t] = "armed"]
    /\ prodPc' = [prodPc EXCEPT ![p] = "timed"]
    /\ UNCHANGED <<loopVars, m_pending_tasks, wakeFd, m_stop_flag,
                   m_flush_queued, sent, ran, stopPc>>

\* The clock reaches the deadline of an armed timer.
Expire(t) ==
    /\ timer[t] = "armed"
    /\ timer' = [timer EXCEPT ![t] = "due"]
    /\ UNCHANGED <<loopVars, m_pending_tasks, wakeFd, m_stop_flag,
                   m_flush_queued, prodVars, ran, stopPc>>

\* Regression: stop() only sets the flag.
StopWithoutWakeup ==
    /\ stopPc = "idle"
    /\ m_stop_flag' = TRUE
    /\ stopPc' = "stopped"
    /\ UNCHANGED <<loopVars, m_pending_tasks, wakeFd, m_flush_queued, timer, prodVars, ran>>

Stop ==
    \/ /\ stopPc = "idle"
       /\ m_stop_flag' = TRUE
       /\ stopPc' = "flagged"
       /\ UNCHANGED <<loopVars, m_pending_tasks, wakeFd, m_flush_queued,
                      timer, prodVars, ran>>
    \/ /\ stopPc = "flagged"
       /\ wakeFd' = TRUE
       /\ stopPc' = "stopped"
       /\ UNCHANGED <<loopVars, m_pending_tasks, m_stop_flag, m_flush_queued,
                      timer, prodVars, ran>>

-----------------------------------------------------------------------------
(* The loop thread.                                                        *)

StartLoop ==
    /\ loopPc = "init"
    /\ loopPc' = "check"
    /\ UNCHANGED <<infinite, active, round, batch, m_pending_tasks, wakeFd,
                   m_stop_flag, m_flush_queued, timer, prodVars, ran, stopPc>>

CheckStop ==
    /\ loopPc = "check"
    /\ loopPc' = IF m_stop_flag THEN "done" ELSE "timeout"
    /\ UNCHANGED <<infinite, active, round, batch, m_pending_tasks, wakeFd,
                   m_stop_flag, m_flush_queued, timer, prodVars, ran, stopPc>>

\* msUntilNextExpire: -1 when the wheel is empty.
ChooseTimeout ==
    /\ loopPc = "timeout"
    /\ infinite' = \A t \in Timers : timer[t] \in {"off", "fired"}
    /\ loopPc' = "poll"
    /\ UNCHANGED <<active, round, batch, m_pending_tasks, wakeFd, m_stop_flag,
                   m_flush_queued, timer, prodVars, ran, stopPc>>

\* The poller returns with the set S of ready connections and the wakeup fd
\* if it is readable.
PollReturns(S) ==
    /\ loopPc = "poll"
    /\ active' = S \cup (IF wakeFd THEN {WAKE} ELSE {})
    /\ loopPc' = "events"
    /\ UNCHANGED <<infinite, round, batch, m_pending_tasks, wakeFd, m_stop_flag,
                   m_flush_queued, timer, prodVars, ran, stopPc>>

\* The wakeup fd is readable, or the timeout has passed.
Poll == (wakeFd \/ ~infinite) /\ PollReturns({})

\* Socket readiness, or (S = {}) EINTR: nothing the loop can count on.
PollIO == \E S \in SUBSET Conns : PollReturns(S)

PollFails ==
    /\ loopPc = "poll"
    /\ loopPc' = "done"
    /\ UNCHANGED <<infinite, active, round, batch, m_pending_tasks, wakeFd,
                   m_stop_flag, m_flush_queued, timer, prodVars, ran, stopPc>>

\* scheduleOutputFlush of connection c: a task without a wakeup, unless one
\* is queued already.
ScheduleFlush(c) ==
    /\ ~m_flush_queued[c]
    /\ m_flush_queued' = [m_flush_queued EXCEPT ![c] = TRUE]
    /\ m_pending_tasks' = Append(m_pending_tasks, <<c, 0>>)

MaybeFlush ==
    \/ UNCHANGED <<m_flush_queued, m_pending_tasks>>
    \/ \E c \in Conns : ScheduleFlush(c)

HandleWakeup ==
    /\ loopPc = "events" /\ WAKE \in active
    /\ wakeFd' = FALSE
    /\ active' = active \ {WAKE}
    /\ UNCHANGED <<loopPc, infinite, round, batch, m_pending_tasks, m_stop_flag,
                   m_flush_queued, timer, prodVars, ran, stopPc>>

\* A read or write handler of a connection; it may send and so defer a flush.
HandleIO(c) ==
    /\ loopPc = "events" /\ c \in active
    /\ active' = active \ {c}
    /\ MaybeFlush
    /\ UNCHANGED <<loopPc, infinite, round, batch, wakeFd, m_stop_flag, timer,
                   prodVars, ran, stopPc>>

EventsHandled ==
    /\ loopPc = "events" /\ active = {}
    /\ loopPc' = "timers"
    /\ UNCHANGED <<infinite, active, round, batch, m_pending_tasks, wakeFd,
                   m_stop_flag, m_flush_queued, timer, prodVars, ran, stopPc>>

ProcessTimerEvents ==
    /\ loopPc = "timers"
    /\ timer' = [t \in Timers |-> IF timer[t] = "due" THEN "fired" ELSE timer[t]]
    /\ MaybeFlush
    /\ round' = 0
    /\ loopPc' = "swap"
    /\ UNCHANGED <<infinite, active, batch, wakeFd, m_stop_flag, prodVars, ran, stopPc>>

\* Regression: the queue is copied instead of swapped.
SwapTasksCopies ==
    /\ loopPc = "swap"
    /\ batch' = m_pending_tasks
    /\ loopPc' = IF m_pending_tasks = <<>> THEN "check" ELSE "run"
    /\ UNCHANGED <<infinite, active, round, m_pending_tasks, wakeFd, m_stop_flag,
                   m_flush_queued, timer, prodVars, ran, stopPc>>

\* processPendingTasks: take the whole queue under the mutex.
SwapTasks ==
    /\ loopPc = "swap"
    /\ batch' = m_pending_tasks
    /\ m_pending_tasks' = <<>>
    /\ loopPc' = IF m_pending_tasks = <<>> THEN "check" ELSE "run"
    /\ UNCHANGED <<infinite, active, round, wakeFd, m_stop_flag, m_flush_queued,
                   timer, prodVars, ran, stopPc>>

\* Regression: a flush does not clear m_flush_queued.
RunTaskKeepsFlag ==
    /\ loopPc = "run"
    /\ LET o == Head(batch)[1]
       IN ran' = IF o \in Producers THEN [ran EXCEPT ![o] = Head(batch)[2]] ELSE ran
    /\ batch' = Tail(batch)
    /\ loopPc' = "ran"
    /\ UNCHANGED <<infinite, active, round, m_pending_tasks, wakeFd, m_stop_flag,
                   m_flush_queued, timer, prodVars, stopPc>>

\* Run the head of the batch.  A flush clears m_flush_queued first ...
RunTask ==
    /\ loopPc = "run"
    /\ LET o == Head(batch)[1]
       IN /\ ran' = IF o \in Producers THEN [ran EXCEPT ![o] = Head(batch)[2]] ELSE ran
          /\ m_flush_queued' = IF o \in Conns THEN [m_flush_queued EXCEPT ![o] = FALSE]
                                              ELSE m_flush_queued
    /\ batch' = Tail(batch)
    /\ loopPc' = "ran"
    /\ UNCHANGED <<infinite, active, round, m_pending_tasks, wakeFd, m_stop_flag,
                   timer, prodVars, stopPc>>

\* ... and a drain, a flush (its write-complete callback) or any other task may
\* send, that is, schedule a flush, before the next task or round.
TaskReturns ==
    /\ loopPc = "ran"
    /\ MaybeFlush
    /\ IF batch # <<>>
         THEN loopPc' = "run" /\ UNCHANGED round
         ELSE /\ round' = round + 1
              /\ loopPc' = IF round + 1 < MaxRounds THEN "swap" ELSE "recheck"
    /\ UNCHANGED <<infinite, active, batch, wakeFd, m_stop_flag, timer, prodVars,
                   ran, stopPc>>

\* Regression: the remainder after the last round is not announced.
RecheckForgets ==
    /\ loopPc = "recheck"
    /\ loopPc' = "check"
    /\ UNCHANGED <<infinite, active, round, batch, m_pending_tasks, wakeFd,
                   m_stop_flag, m_flush_queued, timer, prodVars, ran, stopPc>>

\* All rounds used: has_pending is read under the mutex ...
Recheck ==
    /\ loopPc = "recheck"
    /\ loopPc' = IF m_pending_tasks # <<>> THEN "rewake" ELSE "check"
    /\ UNCHANGED <<infinite, active, round, batch, m_pending_tasks, wakeFd,
                   m_stop_flag, m_flush_queued, timer, prodVars, ran, stopPc>>

\* ... and the loop wakes itself after releasing it.
Rewake ==
    /\ loopPc = "rewake"
    /\ wakeFd' = TRUE
    /\ loopPc' = "check"
    /\ UNCHANGED <<infinite, active, round, batch, m_pending_tasks, m_stop_flag,
                   m_flush_queued, timer, prodVars, ran, stopPc>>

LoopStep ==
    \/ StartLoop \/ CheckStop \/ ChooseTimeout \/ Poll
    \/ HandleWakeup \/ (\E c \in Conns : HandleIO(c)) \/ EventsHandled
    \/ ProcessTimerEvents \/ SwapTasks \/ RunTask \/ TaskReturns
    \/ Recheck \/ Rewake

ProducerStep(p) ==
    \/ AddTask(p)
    \/ Wakeup(p)
    \/ \E t \in Timers : AddTimerEvent(p, t)

Next ==
    \/ LoopStep \/ PollIO \/ PollFails
    \/ \E p \in Producers : ProducerStep(p)
    \/ \E t \in Timers : Expire(t)
    \/ Stop

(* Fairness: the OS keeps scheduling the loop thread and threads inside    *)
(* addTask or stop(); time passes.  No thread is obliged to submit, to     *)
(* call stop(), and no socket ever has to become ready.                    *)
Fairness ==
    /\ WF_vars(LoopStep)
    /\ \A p \in Producers : WF_vars(Wakeup(p)) /\ WF_vars(prodPc[p] = "timed" /\ AddTask(p))
    /\ \A t \in Timers : WF_vars(Expire(t))
    /\ WF_vars(stopPc = "flagged" /\ Stop)

Spec == Init /\ [][Next]_vars /\ Fairness

-----------------------------------------------------------------------------
(* Properties.                                                             *)

\* About to sleep, or asleep: tasks that nobody will look at before the poll.
Sleeping == loopPc \in {"check", "timeout", "poll"}

(* No lost wakeup: whenever the loop is on its way into the poller with a  *)
(* non-empty queue, the eventfd is readable or a producer is about to make *)
(* it so.  It covers the flushes queued without any wakeup, the round      *)
(* limit, and a drain that swallows the wakeups of several producers.      *)
NoLostWakeup ==
    Sleeping /\ m_pending_tasks # <<>> =>
        wakeFd \/ \E p \in Producers : prodPc[p] = "pushed"

(* m_flush_queued is exact: set if and only if one flush of the connection *)
(* is waiting; a stale TRUE would silence a connection for ever.           *)
FlushFlagExact ==
    LET Q == batch \o m_pending_tasks
    IN \A c \in Conns :
        /\ m_flush_queued[c] <=> \E i \in 1..Len(Q) : Q[i] = <<c, 0>>
        /\ \A i, j \in 1..Len(Q) : Q[i] = <<c, 0>> /\ Q[j] = <<c, 0>> => i = j

(* A timer added by a foreign thread fires although addTimerEvent does not *)
(* wake the loop, because its caller submits a task afterwards.            *)
TimersFire == \A t \in Timers : timer[t] = "armed" ~> (timer[t] = "fired" \/ loopPc = "done")

(* stop() always ends the loop, whenever it is called.                     *)
StopEndsLoop == m_stop_flag ~> loopPc = "done"

(* The loop implements the serial FIFO executor: every task, also one      *)
(* queued without a wakeup or left over by the round limit, runs exactly   *)
(* once, in the order of submission, unless the loop ends first.           *)
Executor == INSTANCE TaskExecutor
              WITH queue <- batch \o m_pending_tasks, open <- loopPc # "done"
ImplementsExecutor == Executor!Spec
=============================================================================
