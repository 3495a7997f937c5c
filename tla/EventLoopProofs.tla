--------------------------- MODULE EventLoopProofs ---------------------------
(***************************************************************************)
(* Proofs about EventLoop for any number of producers, connections and     *)
(* timers, any number of tasks and any round limit.                        *)
(*                                                                         *)
(* The inductive invariant adds to TypeOK what the loop's position says    *)
(* about its locals: a batch is being run exactly at "run" and "ran", it   *)
(* is not empty when its head is taken, rounds are left while tasks are    *)
(* swapped or run, and, before the first poll and between the task phase   *)
(* and the poll, a non-empty queue is announced by the eventfd or by a     *)
(* producer on its way to it.                                              *)
(***************************************************************************)
EXTENDS EventLoop, SequenceTheorems, TLAPS

BatchPlace ==
    /\ loopPc = "run" => batch # <<>>
    /\ loopPc \notin {"run", "ran"} => batch = <<>>

RoundsLeft == loopPc \in {"swap", "run", "ran"} => round < MaxRounds

Announced ==
    (Sleeping \/ loopPc = "init") /\ m_pending_tasks # <<>> =>
        wakeFd \/ \E p \in Producers : prodPc[p] = "pushed"

IInv == TypeOK /\ BatchPlace /\ RoundsLeft /\ Announced

(* The loop starts with an empty queue and nothing to run.                 *)
LEMMA InitInv == Init => IInv
<1> SUFFICES ASSUME Init PROVE IInv
  OBVIOUS
<1>1. /\ m_flush_queued \in [Conns -> BOOLEAN]
      /\ timer \in [Timers -> {"off", "armed", "due", "fired"}]
      /\ prodPc \in [Producers -> {"idle", "timed", "pushed"}]
  BY DEF Init
<1>2. /\ sent \in [Producers -> 0..MaxTasks]
      /\ ran \in [Producers -> 0..MaxTasks]
      /\ round \in 0..MaxRounds
  BY RoundsAssumption, TasksAssumption DEF Init
<1>3. batch \in Seq(Task) /\ m_pending_tasks \in Seq(Task)
  BY DEF Init
<1>4. TypeOK
  BY <1>1, <1>2, <1>3 DEF Init, TypeOK, LoopPc
<1>5. BatchPlace /\ RoundsLeft /\ Announced
  BY DEF Init, BatchPlace, RoundsLeft, Announced, Sleeping
<1> QED BY <1>4, <1>5 DEF IInv

(* What a task is: its owner and number; a producer's number is in range.  *)
LEMMA TaskShape ==
  ASSUME NEW t \in Task
  PROVE  /\ t[1] \in Producers => t[2] \in 1..MaxTasks
         /\ t[1] \in Producers \cup Conns
  BY OwnersAssumption DEF Task

(* scheduleOutputFlush appends at most one well-formed task.               *)
LEMMA FlushType ==
  ASSUME TypeOK, MaybeFlush
  PROVE  /\ m_pending_tasks' \in Seq(Task)
         /\ m_flush_queued' \in [Conns -> BOOLEAN]
  <1>1. CASE UNCHANGED <<m_flush_queued, m_pending_tasks>>
    BY <1>1 DEF TypeOK
  <1>2. CASE \E c \in Conns : ScheduleFlush(c)
    <2>1. PICK c \in Conns : ScheduleFlush(c)
      BY <1>2
    <2>2. <<c, 0>> \in Task
      BY DEF Task
    <2>3. m_pending_tasks' \in Seq(Task)
      BY <2>1, <2>2 DEF ScheduleFlush, TypeOK
    <2>4. m_flush_queued' \in [Conns -> BOOLEAN]
      BY <2>1 DEF ScheduleFlush, TypeOK
    <2> QED BY <2>3, <2>4
  <1> QED BY <1>1, <1>2 DEF MaybeFlush

(* Every step of every thread preserves the invariant.                     *)
LEMMA NextInv == IInv /\ [Next]_vars => IInv'
<1> SUFFICES ASSUME IInv, [Next]_vars PROVE IInv'
  OBVIOUS
<1> USE RoundsAssumption, TasksAssumption
<1> USE DEF IInv
<1>1. ASSUME NEW p \in Producers, AddTask(p) PROVE IInv'
  <2>1. <<p, sent[p] + 1>> \in Task
    BY <1>1 DEF AddTask, TypeOK, Task
  <2>2. TypeOK'
    BY <1>1, <2>1 DEF AddTask, TypeOK, loopVars
  <2>3. Announced'
    BY <1>1 DEF AddTask, TypeOK, Announced
  <2> QED BY <1>1, <2>2, <2>3 DEF AddTask, BatchPlace, RoundsLeft, loopVars
<1>2. ASSUME NEW p \in Producers, Wakeup(p) PROVE IInv'
  BY <1>2 DEF Wakeup, TypeOK, BatchPlace, RoundsLeft, Announced, loopVars
<1>3. ASSUME NEW p \in Producers, NEW t \in Timers, AddTimerEvent(p, t) PROVE IInv'
  <2>1. TypeOK'
    BY <1>3 DEF AddTimerEvent, TypeOK, loopVars
  <2>2. Announced'
    BY <1>3 DEF AddTimerEvent, TypeOK, Announced, Sleeping, loopVars
  <2> QED BY <1>3, <2>1, <2>2 DEF AddTimerEvent, BatchPlace, RoundsLeft, loopVars
<1>4. ASSUME NEW t \in Timers, Expire(t) PROVE IInv'
  BY <1>4 DEF Expire, TypeOK, BatchPlace, RoundsLeft, Announced, Sleeping, loopVars, prodVars
<1>5. CASE Stop
  BY <1>5 DEF Stop, TypeOK, BatchPlace, RoundsLeft, Announced, Sleeping, loopVars, prodVars
<1>6. CASE StartLoop
  BY <1>6 DEF StartLoop, TypeOK, BatchPlace, RoundsLeft, Announced, Sleeping, LoopPc, prodVars
<1>7. CASE CheckStop
  BY <1>7 DEF CheckStop, TypeOK, BatchPlace, RoundsLeft, Announced, Sleeping, LoopPc, prodVars
<1>8. CASE ChooseTimeout
  BY <1>8 DEF ChooseTimeout, TypeOK, BatchPlace, RoundsLeft, Announced, Sleeping, LoopPc, prodVars
<1>9. ASSUME NEW S \in SUBSET Conns, PollReturns(S) PROVE IInv'
  BY <1>9 DEF PollReturns, TypeOK, BatchPlace, RoundsLeft, Announced, Sleeping, LoopPc, prodVars
<1>10. CASE PollFails
  BY <1>10 DEF PollFails, TypeOK, BatchPlace, RoundsLeft, Announced, Sleeping, LoopPc, prodVars
<1>11. CASE HandleWakeup
  BY <1>11 DEF HandleWakeup, TypeOK, BatchPlace, RoundsLeft, Announced, Sleeping, prodVars
<1>12. ASSUME NEW c \in Conns, HandleIO(c) PROVE IInv'
  <2>1. TypeOK'
    BY <1>12, FlushType DEF HandleIO, TypeOK, prodVars
  <2> QED BY <1>12, <2>1 DEF HandleIO, BatchPlace, RoundsLeft, Announced, Sleeping
<1>13. CASE EventsHandled
  BY <1>13 DEF EventsHandled, TypeOK, BatchPlace, RoundsLeft, Announced, Sleeping, LoopPc, prodVars
<1>14. CASE ProcessTimerEvents
  <2>1. TypeOK'
    BY <1>14, FlushType DEF ProcessTimerEvents, TypeOK, LoopPc, prodVars
  <2> QED BY <1>14, <2>1 DEF ProcessTimerEvents, BatchPlace, RoundsLeft, Announced, Sleeping
<1>15. CASE SwapTasks
  BY <1>15 DEF SwapTasks, TypeOK, BatchPlace, RoundsLeft, Announced, Sleeping, LoopPc, prodVars
<1>16. CASE RunTask
  <2>1. batch # <<>> /\ Head(batch) \in Task /\ Tail(batch) \in Seq(Task)
    BY <1>16 DEF RunTask, TypeOK, BatchPlace
  <2>2. ran' \in [Producers -> 0..MaxTasks]
    BY <1>16, <2>1, TaskShape DEF RunTask, TypeOK
  <2>3. m_flush_queued' \in [Conns -> BOOLEAN]
    BY <1>16 DEF RunTask, TypeOK
  <2>4. TypeOK'
    BY <1>16, <2>1, <2>2, <2>3 DEF RunTask, TypeOK, LoopPc, prodVars
  <2> QED BY <1>16, <2>4 DEF RunTask, BatchPlace, RoundsLeft, Announced, Sleeping
<1>17. CASE TaskReturns
  <2>1. loopPc' \in LoopPc /\ round' \in 0..MaxRounds
    BY <1>17 DEF TaskReturns, TypeOK, RoundsLeft, LoopPc
  <2>2. TypeOK'
    BY <1>17, <2>1, FlushType DEF TaskReturns, TypeOK, prodVars
  <2> QED BY <1>17, <2>2 DEF TaskReturns, TypeOK, BatchPlace, RoundsLeft, Announced, Sleeping
<1>18. CASE Recheck
  BY <1>18 DEF Recheck, TypeOK, BatchPlace, RoundsLeft, Announced, Sleeping, LoopPc, prodVars
<1>19. CASE Rewake
  BY <1>19 DEF Rewake, TypeOK, BatchPlace, RoundsLeft, Announced, Sleeping, LoopPc, prodVars
<1>20. CASE UNCHANGED vars
  BY <1>20 DEF vars, TypeOK, BatchPlace, RoundsLeft, Announced, Sleeping, loopVars, prodVars
<1> QED
  BY <1>1, <1>2, <1>3, <1>4, <1>5, <1>6, <1>7, <1>8, <1>9, <1>10, <1>11, <1>12, <1>13,
     <1>14, <1>15, <1>16, <1>17, <1>18, <1>19, <1>20
     DEF Next, LoopStep, ProducerStep, Poll, PollIO

(* The variables keep their types; in particular round never passes        *)
(* kMaxPendingTaskRounds and only well-formed tasks are queued and run.    *)
THEOREM TypeCorrect == Spec => []TypeOK
<1>1. Spec => []IInv
  BY InitInv, NextInv, PTL DEF Spec
<1> QED BY <1>1, PTL DEF IInv

(* No wakeup is lost: a loop on its way into the poller with tasks in its  *)
(* queue finds the eventfd readable, or a producer is about to write it.   *)
THEOREM WakeupsNotLost == Spec => []NoLostWakeup
<1>1. Spec => []IInv
  BY InitInv, NextInv, PTL DEF Spec
<1>2. IInv => NoLostWakeup
  BY DEF IInv, Announced, NoLostWakeup
<1> QED BY <1>1, <1>2, PTL

-----------------------------------------------------------------------------
(* Refinement.  Facts about the executor's queue, batch \o m_pending_tasks. *)

LEMMA ConcatAppend ==
  ASSUME NEW T, NEW s \in Seq(T), NEW t \in Seq(T), NEW e \in T
  PROVE  s \o Append(t, e) = Append(s \o t, e)
<1> DEFINE l == s \o Append(t, e)
           r == Append(s \o t, e)
<1>1. l \in Seq(T) /\ r \in Seq(T)
  OBVIOUS
<1>2. Len(l) = Len(r)
  OBVIOUS
<1>3. \A i \in 1..Len(l) : l[i] = r[i]
  OBVIOUS
<1> HIDE DEF l, r
<1>4. l = r
  BY <1>1, <1>2, <1>3, SeqEqual
<1> QED BY <1>4 DEF l, r

LEMMA ConcatTail ==
  ASSUME NEW T, NEW s \in Seq(T), NEW t \in Seq(T), s # <<>>
  PROVE  /\ s \o t # <<>>
         /\ Tail(s) \o t = Tail(s \o t)
<1> DEFINE l == Tail(s) \o t
           r == Tail(s \o t)
<1>0. Len(s) > 0 /\ s \o t \in Seq(T) /\ Len(s \o t) > 0
  OBVIOUS
<1>1. l \in Seq(T) /\ r \in Seq(T)
  BY <1>0
<1>2. Len(l) = Len(r)
  BY <1>0
<1>3. \A i \in 1..Len(l) : l[i] = r[i]
  BY <1>0
<1> HIDE DEF l, r
<1>4. l = r
  BY <1>1, <1>2, <1>3, SeqEqual
<1> QED BY <1>0, <1>4 DEF l, r

LEMMA ConcatEmpty ==
  ASSUME NEW T, NEW s \in Seq(T)
  PROVE  <<>> \o s = s /\ s \o <<>> = s
  OBVIOUS

ExecStep == [Executor!Next]_(Executor!vars)

(* A handler that may defer a flush submits one task or none.              *)
LEMMA FlushSubmits ==
  ASSUME IInv, MaybeFlush, UNCHANGED batch,
         loopPc # "done", loopPc' # "done"
  PROVE  ExecStep
<1>1. CASE UNCHANGED <<m_flush_queued, m_pending_tasks>>
  BY <1>1 DEF ExecStep, Executor!vars
<1>2. CASE \E c \in Conns : ScheduleFlush(c)
  <2>1. PICK c \in Conns : ScheduleFlush(c)
    BY <1>2
  <2>2. <<c, 0>> \in Task
    BY DEF Task
  <2>3. (batch \o m_pending_tasks)' = Append(batch \o m_pending_tasks, <<c, 0>>)
    BY <2>1, <2>2, ConcatAppend DEF ScheduleFlush, IInv, TypeOK
  <2>4. Executor!Submit(<<c, 0>>)
    BY <2>3 DEF Executor!Submit
  <2> QED BY <2>2, <2>4 DEF ExecStep, Executor!Next
<1> QED BY <1>1, <1>2 DEF MaybeFlush

(* Every step of the loop is a step of the executor or a stutter.          *)
LEMMA StepRefines == IInv /\ [Next]_vars => ExecStep
<1> SUFFICES ASSUME IInv, [Next]_vars PROVE ExecStep
  OBVIOUS
<1>1. ASSUME NEW p \in Producers, AddTask(p) PROVE ExecStep
  <2>1. <<p, sent[p] + 1>> \in Task
    BY <1>1, TasksAssumption DEF AddTask, IInv, TypeOK, Task
  <2>2. (batch \o m_pending_tasks)' = Append(batch \o m_pending_tasks, <<p, sent[p] + 1>>)
    BY <1>1, <2>1, ConcatAppend DEF AddTask, IInv, TypeOK, loopVars
  <2>3. Executor!Submit(<<p, sent[p] + 1>>)
    BY <1>1, <2>2 DEF Executor!Submit, AddTask, loopVars
  <2> QED BY <2>1, <2>3 DEF ExecStep, Executor!Next
<1>2. ASSUME NEW p \in Producers, Wakeup(p) PROVE ExecStep
  BY <1>2 DEF Wakeup, ExecStep, Executor!vars, loopVars
<1>3. ASSUME NEW p \in Producers, NEW t \in Timers, AddTimerEvent(p, t) PROVE ExecStep
  BY <1>3 DEF AddTimerEvent, ExecStep, Executor!vars, loopVars
<1>4. ASSUME NEW t \in Timers, Expire(t) PROVE ExecStep
  BY <1>4 DEF Expire, ExecStep, Executor!vars, loopVars
<1>5. CASE Stop
  BY <1>5 DEF Stop, ExecStep, Executor!vars, loopVars
<1>6. CASE StartLoop
  BY <1>6 DEF StartLoop, ExecStep, Executor!vars
<1>7. CASE CheckStop
  <2>1. CASE m_stop_flag
    BY <1>7, <2>1 DEF CheckStop, ExecStep, Executor!Next, Executor!Close
  <2>2. CASE ~m_stop_flag
    BY <1>7, <2>2 DEF CheckStop, ExecStep, Executor!vars
  <2> QED BY <2>1, <2>2
<1>8. CASE ChooseTimeout
  BY <1>8 DEF ChooseTimeout, ExecStep, Executor!vars
<1>9. ASSUME NEW S \in SUBSET Conns, PollReturns(S) PROVE ExecStep
  BY <1>9 DEF PollReturns, ExecStep, Executor!vars
<1>10. CASE PollFails
  BY <1>10 DEF PollFails, ExecStep, Executor!Next, Executor!Close
<1>11. CASE HandleWakeup
  BY <1>11 DEF HandleWakeup, ExecStep, Executor!vars
<1>12. ASSUME NEW c \in Conns, HandleIO(c) PROVE ExecStep
  BY <1>12, FlushSubmits DEF HandleIO
<1>13. CASE EventsHandled
  BY <1>13 DEF EventsHandled, ExecStep, Executor!vars
<1>14. CASE ProcessTimerEvents
  BY <1>14, FlushSubmits DEF ProcessTimerEvents
<1>15. CASE SwapTasks
  <2>1. batch = <<>> /\ m_pending_tasks \in Seq(Task)
    BY <1>15 DEF SwapTasks, IInv, BatchPlace, TypeOK
  <2>2. (batch \o m_pending_tasks)' = batch \o m_pending_tasks
    BY <1>15, <2>1, ConcatEmpty DEF SwapTasks
  <2> QED BY <1>15, <2>2 DEF SwapTasks, ExecStep, Executor!vars
<1>16. CASE RunTask
  <2>1. batch # <<>> /\ batch \in Seq(Task) /\ m_pending_tasks \in Seq(Task)
    BY <1>16 DEF RunTask, IInv, BatchPlace, TypeOK
  <2>2. /\ batch \o m_pending_tasks # <<>>
        /\ (batch \o m_pending_tasks)' = Tail(batch \o m_pending_tasks)
    BY <1>16, <2>1, ConcatTail DEF RunTask
  <2> QED BY <1>16, <2>2 DEF RunTask, ExecStep, Executor!Next, Executor!Run
<1>17. CASE TaskReturns
  BY <1>17, FlushSubmits DEF TaskReturns
<1>18. CASE Recheck
  BY <1>18 DEF Recheck, ExecStep, Executor!vars
<1>19. CASE Rewake
  BY <1>19 DEF Rewake, ExecStep, Executor!vars
<1>20. CASE UNCHANGED vars
  BY <1>20 DEF vars, loopVars, ExecStep, Executor!vars
<1> QED
  BY <1>1, <1>2, <1>3, <1>4, <1>5, <1>6, <1>7, <1>8, <1>9, <1>10, <1>11, <1>12, <1>13,
     <1>14, <1>15, <1>16, <1>17, <1>18, <1>19, <1>20
     DEF Next, LoopStep, ProducerStep, Poll, PollIO

(* The event loop is a serial FIFO executor: whatever the threads do, each *)
(* task accepted is run at most once, in the order of acceptance, and      *)
(* nothing runs once the loop has ended (safety part of                    *)
(* ImplementsExecutor; its liveness is model-checked).                     *)
THEOREM ExecutorRefined == Spec => Executor!Safety
<1>1. Init => Executor!Init
  BY DEF Init, Executor!Init
<1>2. Spec => []IInv
  BY InitInv, NextInv, PTL DEF Spec
<1> QED BY <1>1, <1>2, StepRefines, PTL DEF Spec, Executor!Safety, ExecStep

-----------------------------------------------------------------------------
(* m_flush_queued is exact.                                                *)

Queue == batch \o m_pending_tasks
Occurs(Q, x) == \E i \in 1..Len(Q) : Q[i] = x
Once(Q, x) == \A i, j \in 1..Len(Q) : Q[i] = x /\ Q[j] = x => i = j

LEMMA OccursAppend ==
  ASSUME NEW T, NEW Q \in Seq(T), NEW e \in T, NEW x
  PROVE  /\ Occurs(Append(Q, e), x) <=> Occurs(Q, x) \/ e = x
         /\ e # x /\ Once(Q, x) => Once(Append(Q, e), x)
         /\ ~Occurs(Q, x) => Once(Append(Q, e), x)
<1> DEFINE R == Append(Q, e)
<1>1. /\ Len(Q) \in Nat /\ Len(R) = Len(Q) + 1
      /\ \A i \in 1..Len(Q) : R[i] = Q[i]
      /\ R[Len(Q) + 1] = e
  OBVIOUS
<1> HIDE DEF R
<1>2. Occurs(R, x) <=> Occurs(Q, x) \/ e = x
  <2>1. ASSUME NEW i \in 1..Len(R), R[i] = x PROVE Occurs(Q, x) \/ e = x
    BY <1>1, <2>1 DEF Occurs
  <2>2. Occurs(Q, x) => Occurs(R, x)
    BY <1>1 DEF Occurs
  <2>3. e = x => Occurs(R, x)
    BY <1>1 DEF Occurs
  <2> QED BY <2>1, <2>2, <2>3 DEF Occurs
<1>3. e # x /\ Once(Q, x) => Once(R, x)
  BY <1>1 DEF Once
<1>4. ~Occurs(Q, x) => Once(R, x)
  BY <1>1 DEF Once, Occurs
<1> QED BY <1>2, <1>3, <1>4 DEF R

LEMMA OccursTail ==
  ASSUME NEW T, NEW Q \in Seq(T), Q # <<>>, NEW x
  PROVE  /\ Head(Q) # x => (Occurs(Tail(Q), x) <=> Occurs(Q, x))
         /\ Head(Q) = x /\ Once(Q, x) => ~Occurs(Tail(Q), x)
         /\ Once(Q, x) => Once(Tail(Q), x)
<1> DEFINE R == Tail(Q)
<1>1. /\ Len(Q) \in Nat \ {0} /\ Len(R) = Len(Q) - 1
      /\ \A i \in 1..Len(R) : R[i] = Q[i + 1]
      /\ Head(Q) = Q[1]
  OBVIOUS
<1> HIDE DEF R
<1>2. Head(Q) # x => (Occurs(R, x) <=> Occurs(Q, x))
  <2> SUFFICES ASSUME Head(Q) # x PROVE Occurs(R, x) <=> Occurs(Q, x)
    OBVIOUS
  <2>1. ASSUME NEW i \in 1..Len(R), R[i] = x PROVE Occurs(Q, x)
    <3>1. i + 1 \in 1..Len(Q) /\ Q[i + 1] = x
      BY <1>1, <2>1
    <3> QED BY <3>1 DEF Occurs
  <2>2. ASSUME NEW i \in 1..Len(Q), Q[i] = x PROVE Occurs(R, x)
    <3>1. i - 1 \in 1..Len(R) /\ R[i - 1] = x
      BY <1>1, <2>2
    <3> QED BY <3>1 DEF Occurs
  <2> QED BY <2>1, <2>2 DEF Occurs
<1>3. Head(Q) = x /\ Once(Q, x) => ~Occurs(R, x)
  <2> SUFFICES ASSUME Head(Q) = x, Once(Q, x), NEW i \in 1..Len(R), R[i] = x PROVE FALSE
    BY DEF Occurs
  <2>1. i + 1 \in 1..Len(Q) /\ 1 \in 1..Len(Q) /\ Q[i + 1] = x /\ Q[1] = x
    BY <1>1
  <2> QED BY <2>1 DEF Once
<1>4. Once(Q, x) => Once(R, x)
  <2> SUFFICES ASSUME Once(Q, x), NEW i \in 1..Len(R), NEW j \in 1..Len(R), R[i] = x, R[j] = x
               PROVE  i = j
    BY DEF Once
  <2>1. /\ i + 1 \in 1..Len(Q) /\ j + 1 \in 1..Len(Q)
        /\ Q[i + 1] = x /\ Q[j + 1] = x
    BY <1>1
  <2>2. i + 1 = j + 1
    BY <2>1 DEF Once
  <2> QED BY <2>2
<1> QED BY <1>2, <1>3, <1>4 DEF R

FlagInv ==
    \A c \in Conns : (m_flush_queued[c] <=> Occurs(Queue, <<c, 0>>)) /\ Once(Queue, <<c, 0>>)

(* Queueing at most one flush, and only while the flag is clear, keeps the *)
(* flags exact.                                                            *)
LEMMA FlagSchedule ==
  ASSUME IInv, FlagInv, MaybeFlush, UNCHANGED batch
  PROVE  FlagInv'
<1>1. CASE UNCHANGED <<m_flush_queued, m_pending_tasks>>
  BY <1>1 DEF FlagInv, Queue
<1>2. CASE \E c \in Conns : ScheduleFlush(c)
  <2>1. PICK c \in Conns : ScheduleFlush(c)
    BY <1>2
  <2>2. <<c, 0>> \in Task /\ Queue \in Seq(Task)
    BY DEF Task, Queue, IInv, TypeOK
  <2>3. Queue' = Append(Queue, <<c, 0>>)
    BY <2>1, <2>2, ConcatAppend DEF ScheduleFlush, IInv, TypeOK, Queue
  <2>4. ASSUME NEW d \in Conns
        PROVE  (m_flush_queued'[d] <=> Occurs(Queue', <<d, 0>>)) /\ Once(Queue', <<d, 0>>)
    <3> DEFINE x == <<d, 0>>
               e == <<c, 0>>
    <3>1. /\ Occurs(Append(Queue, e), x) <=> Occurs(Queue, x) \/ e = x
          /\ e # x /\ Once(Queue, x) => Once(Append(Queue, e), x)
          /\ ~Occurs(Queue, x) => Once(Append(Queue, e), x)
      BY <2>2, OccursAppend
    <3>2. e = x <=> c = d
      OBVIOUS
    <3>3. /\ m_flush_queued[d] <=> Occurs(Queue, x)
          /\ Once(Queue, x)
      BY DEF FlagInv
    <3>4. m_flush_queued'[d] <=> m_flush_queued[d] \/ c = d
      BY <2>1 DEF ScheduleFlush, IInv, TypeOK
    <3>5. ~m_flush_queued[c]
      BY <2>1 DEF ScheduleFlush
    <3> HIDE DEF x, e
    <3>6. (m_flush_queued'[d] <=> Occurs(Queue', x)) /\ Once(Queue', x)
      <4>1. Queue' = Append(Queue, e)
        BY <2>3 DEF e
      <4>2. CASE c = d
        BY <3>1, <3>2, <3>3, <3>4, <3>5, <4>1, <4>2
      <4>3. CASE c # d
        BY <3>1, <3>2, <3>3, <3>4, <4>1, <4>3
      <4> QED BY <4>2, <4>3
    <3> QED BY <3>6 DEF x
  <2> QED BY <2>4 DEF FlagInv
<1> QED BY <1>1, <1>2 DEF MaybeFlush

LEMMA FlagStep == IInv /\ FlagInv /\ [Next]_vars => FlagInv'
<1> SUFFICES ASSUME IInv, FlagInv, [Next]_vars PROVE FlagInv'
  OBVIOUS
<1>1. ASSUME NEW p \in Producers, AddTask(p) PROVE FlagInv'
  <2> DEFINE e == <<p, sent[p] + 1>>
  <2>1. e \in Task /\ Queue \in Seq(Task)
    BY <1>1, TasksAssumption DEF AddTask, IInv, TypeOK, Task, Queue
  <2>2. Queue' = Append(Queue, e)
    BY <1>1, <2>1, ConcatAppend DEF AddTask, IInv, TypeOK, loopVars, Queue
  <2>3. \A d \in Conns : e # <<d, 0>>
    BY OwnersAssumption
  <2> HIDE DEF e
  <2>4. ASSUME NEW d \in Conns
        PROVE  /\ Occurs(Queue', <<d, 0>>) <=> Occurs(Queue, <<d, 0>>)
               /\ Once(Queue, <<d, 0>>) => Once(Queue', <<d, 0>>)
    BY <2>1, <2>2, <2>3, OccursAppend
  <2> QED BY <1>1, <2>4 DEF AddTask, FlagInv
<1>2. CASE RunTask
  <2>1. batch # <<>> /\ batch \in Seq(Task) /\ m_pending_tasks \in Seq(Task)
    BY <1>2 DEF RunTask, IInv, BatchPlace, TypeOK
  <2>2. /\ Queue # <<>> /\ Queue \in Seq(Task)
        /\ Queue' = Tail(Queue)
        /\ Head(Queue) = Head(batch)
    BY <1>2, <2>1, ConcatTail DEF RunTask, Queue
  <2>3. ASSUME NEW d \in Conns
        PROVE  (m_flush_queued'[d] <=> Occurs(Queue', <<d, 0>>)) /\ Once(Queue', <<d, 0>>)
    <3>1. /\ Head(Queue) # <<d, 0>> => (Occurs(Tail(Queue), <<d, 0>>) <=> Occurs(Queue, <<d, 0>>))
          /\ Head(Queue) = <<d, 0>> /\ Once(Queue, <<d, 0>>) => ~Occurs(Tail(Queue), <<d, 0>>)
          /\ Once(Queue, <<d, 0>>) => Once(Tail(Queue), <<d, 0>>)
      BY <2>2, OccursTail
    <3>2. /\ m_flush_queued[d] <=> Occurs(Queue, <<d, 0>>)
          /\ Once(Queue, <<d, 0>>)
      BY DEF FlagInv
    <3>3. Head(batch) \in Task
      BY <2>1
    <3>4. Head(batch)[1] = d <=> Head(batch) = <<d, 0>>
      BY <3>3, OwnersAssumption DEF Task
    <3>5. CASE Head(batch) = <<d, 0>>
      <4>1. m_flush_queued'[d] = FALSE
        BY <1>2, <3>4, <3>5 DEF RunTask, IInv, TypeOK
      <4> QED BY <2>2, <3>1, <3>2, <3>5, <4>1
    <3>6. CASE Head(batch) # <<d, 0>>
      <4>1. m_flush_queued'[d] = m_flush_queued[d]
        BY <1>2, <3>4, <3>6 DEF RunTask, IInv, TypeOK
      <4> QED BY <2>2, <3>1, <3>2, <3>6, <4>1
    <3> QED BY <3>5, <3>6
  <2> QED BY <2>3 DEF FlagInv
<1>3. CASE SwapTasks
  <2>1. batch = <<>> /\ m_pending_tasks \in Seq(Task)
    BY <1>3 DEF SwapTasks, IInv, BatchPlace, TypeOK
  <2>2. Queue' = Queue
    BY <1>3, <2>1, ConcatEmpty DEF SwapTasks, Queue
  <2> QED BY <1>3, <2>2 DEF SwapTasks, FlagInv
<1>4. ASSUME NEW c \in Conns, HandleIO(c) PROVE FlagInv'
  BY <1>4, FlagSchedule DEF HandleIO
<1>5. CASE ProcessTimerEvents
  BY <1>5, FlagSchedule DEF ProcessTimerEvents
<1>6. CASE TaskReturns
  BY <1>6, FlagSchedule DEF TaskReturns
<1>7. CASE UNCHANGED <<batch, m_pending_tasks, m_flush_queued>>
  BY <1>7 DEF FlagInv, Queue
<1> QED
  BY <1>1, <1>2, <1>3, <1>4, <1>5, <1>6, <1>7
     DEF Next, LoopStep, ProducerStep, Poll, PollIO, vars, loopVars,
         Wakeup, AddTimerEvent, Expire, Stop, StartLoop, CheckStop, ChooseTimeout,
         PollReturns, PollFails, HandleWakeup, EventsHandled, Recheck, Rewake

(* m_flush_queued is set exactly while one flush of the connection waits   *)
(* in the queue or in the swapped batch: scheduleOutputFlush never queues  *)
(* two, and a connection is never silenced by a stale flag.                *)
THEOREM FlushFlagsExact == Spec => []FlushFlagExact
<1>1. Init => FlagInv
  <2> SUFFICES ASSUME Init PROVE FlagInv
    OBVIOUS
  <2>1. Len(Queue) = 0 /\ \A c \in Conns : m_flush_queued[c] = FALSE
    BY DEF Init, Queue
  <2> QED BY <2>1 DEF FlagInv, Occurs, Once
<1>2. Spec => [](IInv /\ FlagInv)
  BY <1>1, InitInv, NextInv, FlagStep, PTL DEF Spec
<1>3. FlagInv => FlushFlagExact
  BY DEF FlagInv, FlushFlagExact, Queue, Occurs, Once
<1> QED BY <1>2, <1>3, PTL
=============================================================================
