-------------------------------- MODULE Server --------------------------------
(***************************************************************************)
(* The life of a server: RpcServer::start and stop over TcpServer::start   *)
(* and stop, the accepting main loop, an IO thread with its event loop,    *)
(* and the TcpConnections from accept to connectDestroyed.                 *)
(*                                                                         *)
(* The thread Main runs start() and with it the main loop; the threads in  *)
(* Stoppers run RpcServer::stop, and so does the signal monitor, a thread  *)
(* start() makes to turn SIGINT and SIGTERM into a stop.                   *)
(* There is one IO thread.  Its loop alternates between checking the stop  *)
(* flag, handling events and running tasks until none is left (EventLoop   *)
(* says how).  A request occupies a worker from its dispatch to its        *)
(* response (Dispatcher says how), or the service keeps the closure and    *)
(* runs it later on a thread of its own, which nobody waits for; a         *)
(* connection has one request at a time.                                   *)
(*                                                                         *)
(* An IO thread's EventLoop lives on the stack of its thread: queueing a   *)
(* task to it after the thread has ended is a use after free: the task     *)
(* goes nowhere, or the process crashes.                                   *)
(***************************************************************************)
EXTENDS Naturals, Sequences, SequencesExt, FiniteSets, FdEvents

CONSTANTS Conns,       \* clients that may connect
          Stoppers,    \* user threads that call RpcServer::stop
          Monitor,     \* m_signal_thread
          Main,        \* the thread that calls RpcServer::start
          m_handle_process_signals,
          None

ASSUME ServerAssumption == /\ IsFiniteSet(Conns) /\ None \notin Conns
                           /\ Main \notin Stoppers /\ Monitor \notin Stoppers \cup {Main}
                           /\ m_handle_process_signals \in BOOLEAN
                           /\ None \notin Stoppers \cup {Main, Monitor}

Threads == Stoppers \cup {Main, Monitor}

VARIABLES
    m_started, m_stopping,           \* RpcServer
    m_signal_handlers_installed, m_signal_monitor_stop,
    g_shutdown_signal,               \* the handler has run
    listening,                       \* TcpAcceptor has a socket, never changes
    m_running, m_main_loop_active,   \* TcpServer
    stopMutex,                       \* who holds m_stop_mutex
    mainStop,                        \* m_stop_flag of the main loop
    mainPc, accepting,               \* thread Main; the connection in onAccept
    ready,                           \* start() has reached the main loop
    pollFailed,                      \* loops that ended on a fatal poll error
    group,                           \* m_io_group: new, started, null
    ioPc, ioStop, ioTasks,           \* the IO thread and its loop
    stopPc,                          \* per thread: where it is in stop()
    dispatcherStopping,              \* RpcDispatcher::m_stopping
    worker,                          \* per connection: what a worker does for it
    peer,                            \* per client: away, connecting, open, closed
    state,                           \* TcpConnection::m_state, or none/destroyed
    out,                             \* per connection: m_out_buffer is not empty
    m_flush_queued,                  \* ... a flush is queued
    fdEvent,                         \* ... its FdEvent and what epoll watches
    m_connections, m_connection_count

signalVars == <<m_signal_handlers_installed, m_signal_monitor_stop, g_shutdown_signal>>
rpcVars == <<m_started, m_stopping, dispatcherStopping, signalVars, listening>>
tcpVars == <<m_running, m_main_loop_active, stopMutex, stopPc>>
mainVars == <<mainStop, mainPc, accepting, ready, pollFailed>>
ioVars == <<ioPc, ioStop>>
connVars == <<state, out, m_flush_queued, fdEvent>>
tableVars == <<m_connections, m_connection_count>>
vars == <<rpcVars, tcpVars, mainVars, ioVars, connVars, tableVars, group,
          ioTasks, worker, peer>>

MainPc == {"idle", "monitor", "handlers", "tcpStart", "active", "group", "check", "poll",
           "accept", "queue", "insert", "ended", "after", "selfStop", "tcpReturned",
           "joinMonitor", "returned", "crashed"}
StopPc == {"idle", "dispatcher", "draining", "lock", "loopStop", "wait",
           "shutdown", "reset", "join", "returned", "crashed"}
WorkerState == {"idle", "busy", "sending", "deferred", "late", "crashed"}
Live == {"NotConnected", "Connected", "HalfClosing"}

TypeOK ==
    /\ m_started \in BOOLEAN /\ m_stopping \in BOOLEAN /\ dispatcherStopping \in BOOLEAN
    /\ m_signal_handlers_installed \in BOOLEAN
    /\ m_signal_monitor_stop \in BOOLEAN /\ g_shutdown_signal \in BOOLEAN
    /\ listening \in BOOLEAN
    /\ m_running \in BOOLEAN /\ m_main_loop_active \in BOOLEAN
    /\ stopMutex \in Threads \cup {None}
    /\ stopPc \in [Threads -> StopPc]
    /\ mainStop \in BOOLEAN /\ mainPc \in MainPc /\ accepting \in Conns \cup {None}
    /\ ready \in BOOLEAN /\ pollFailed \subseteq {"main", "io"}
    /\ group \in {"new", "started", "null"}
    /\ ioPc \in {"none", "check", "events", "tasks", "exited"} /\ ioStop \in BOOLEAN
    /\ ioTasks \in Seq({"establish", "drain", "flush", "shutdown", "destroy"} \X Conns)
    /\ worker \in [Conns -> WorkerState]
    /\ peer \in [Conns -> {"away", "connecting", "open", "closed"}]
    /\ state \in [Conns -> Live \cup {"none", "Closed", "destroyed"}]
    /\ out \in [Conns -> BOOLEAN]
    /\ m_flush_queued \in [Conns -> BOOLEAN] /\ fdEvent \in [Conns -> FdEvent]
    /\ m_connections \subseteq Conns /\ m_connection_count \in Nat

\* TcpAcceptor's constructor: without an address or a socket, or when bind or
\* listen fails, the object has no listening descriptor and nobody is told.
ListenOrNot == listening \in BOOLEAN

RpcServerInit ==
    /\ m_started = FALSE /\ m_stopping = FALSE /\ m_signal_handlers_installed = FALSE
    /\ m_signal_monitor_stop = FALSE /\ g_shutdown_signal = FALSE

Init ==
    /\ RpcServerInit /\ dispatcherStopping = FALSE /\ ListenOrNot
    /\ m_running = FALSE /\ m_main_loop_active = FALSE /\ stopMutex = None
    /\ stopPc = [t \in Threads |-> "idle"]
    /\ mainStop = FALSE /\ mainPc = "idle" /\ accepting = None
    /\ ready = FALSE /\ pollFailed = {}
    /\ group = "new" /\ ioPc = "none" /\ ioStop = FALSE /\ ioTasks = <<>>
    /\ worker = [c \in Conns |-> "idle"]
    /\ peer = [c \in Conns |-> "away"]
    /\ state = [c \in Conns |-> "none"]
    /\ out = [c \in Conns |-> FALSE]
    /\ m_flush_queued = [c \in Conns |-> FALSE]
    /\ fdEvent = [c \in Conns |-> NewFdEvent]
    /\ m_connections = {} /\ m_connection_count = 0

-----------------------------------------------------------------------------
(* start(), on thread Main.                                                *)

MainStep(from, to) == mainPc = from /\ mainPc' = to

\* RpcServer::start: once, and not after stop().
RpcStart ==
    /\ MainStep("idle", CASE m_started \/ m_stopping -> "returned"
                          [] m_handle_process_signals -> "monitor"
                          [] OTHER -> "tcpStart")
    /\ m_started' = (m_started \/ ~m_stopping)
    /\ UNCHANGED <<m_stopping, dispatcherStopping, signalVars, listening, tcpVars, mainStop, accepting,
                   ready, pollFailed, ioVars, connVars, tableVars, group,
                   ioTasks, worker, peer>>

\* startSignalMonitor: the flags are reset, after a stop() perhaps ...
ResetSignalFlags ==
    /\ MainStep("monitor", "handlers")
    /\ g_shutdown_signal' = FALSE /\ m_signal_monitor_stop' = FALSE
    /\ UNCHANGED <<m_started, m_stopping, dispatcherStopping, listening,
                   m_signal_handlers_installed, tcpVars,
                   mainStop, accepting, ready, pollFailed, ioVars, connVars, tableVars,
                   group, ioTasks, worker, peer>>

\* ... both handlers are installed (with these arguments sigaction does not
\* fail) and the monitor starts.
StartSignalMonitor ==
    /\ MainStep("handlers", "tcpStart")
    /\ m_signal_handlers_installed' = TRUE
    /\ UNCHANGED <<m_started, m_stopping, dispatcherStopping, listening,
                   m_signal_monitor_stop, g_shutdown_signal,
                   tcpVars, mainStop, accepting, ready, pollFailed, ioVars, connVars,
                   tableVars, group, ioTasks, worker, peer>>

\* TcpServer::start: compare-exchange m_running ...
TcpStart ==
    /\ MainStep("tcpStart", IF m_running THEN "tcpReturned" ELSE "active")
    /\ m_running' = TRUE
    /\ UNCHANGED <<rpcVars, m_main_loop_active, stopMutex, stopPc, mainStop,
                   accepting, ready, pollFailed, ioVars, connVars, tableVars,
                   group, ioTasks, worker, peer>>

\* ... then announce the main loop ...
Activate ==
    /\ MainStep("active", "group")
    /\ m_main_loop_active' = TRUE
    /\ UNCHANGED <<rpcVars, m_running, stopMutex, stopPc, mainStop, accepting,
                   ready, pollFailed, ioVars, connVars, tableVars, group,
                   ioTasks, worker, peer>>

\* IOThread::start returns when its thread is in the loop ...
StartThread == ioPc' = "check"

\* ... and IOThreadGroup::start when all are.
StartThreads == group' = "started" /\ StartThread

\* ... and start the IO threads.  A null group is a crash.
StartGroup ==
    /\ IF group = "null"
         THEN MainStep("group", "crashed") /\ UNCHANGED <<group, ioPc, ready>>
         ELSE MainStep("group", "check") /\ StartThreads /\ ready' = TRUE
    /\ UNCHANGED <<rpcVars, tcpVars, mainStop, accepting, pollFailed, ioStop,
                   connVars, tableVars, ioTasks, worker, peer>>

MainCheckStop ==
    /\ MainStep("check", IF mainStop THEN "ended" ELSE "poll")
    /\ UNCHANGED <<rpcVars, tcpVars, mainStop, accepting, ready, pollFailed,
                   ioVars, connVars, tableVars, group, ioTasks, worker, peer>>

\* The wakeup written by stop(), or any other wakeup.
MainWakes ==
    /\ MainStep("poll", "check")
    /\ UNCHANGED <<rpcVars, tcpVars, mainStop, accepting, ready, pollFailed,
                   ioVars, connVars, tableVars, group, ioTasks, worker, peer>>

\* Bounds: one loop dies of a poll error, and of a signal, a stop() that a user
\* begins and the death of a loop at most two happen.
UserStops == \E t \in Stoppers : stopPc[t] # "idle"
LoopDied == pollFailed # {}

MainPollFails ==
    /\ MainStep("poll", "ended")
    /\ ~LoopDied /\ ~(g_shutdown_signal /\ UserStops)
    /\ pollFailed' = {"main"}
    /\ UNCHANGED <<rpcVars, tcpVars, mainStop, accepting, ready, ioVars, connVars,
                   tableVars, group, ioTasks, worker, peer>>

\* onAccept: a stopping server leaves the client in the backlog, and so may a
\* failing accept; out of descriptors the client is accepted and closed at
\* once; otherwise there is a socket to hand to the IO group.
OnAccept(c) ==
    /\ peer[c] = "connecting"
    /\ \/ MainStep("poll", "check") /\ UNCHANGED <<accepting, peer>>
       \/ /\ m_running
          /\ MainStep("poll", "check")
          /\ peer' = [peer EXCEPT ![c] = "closed"] /\ UNCHANGED accepting
       \/ /\ m_running
          /\ MainStep("poll", "accept")
          /\ accepting' = c
          /\ peer' = [peer EXCEPT ![c] = "open"]
    /\ UNCHANGED <<rpcVars, tcpVars, mainStop, ready, pollFailed, ioVars,
                   connVars, tableVars, group, ioTasks, worker>>

\* getIOThread takes the next thread in turn, here the only one; a thread that
\* has ended has no loop.
NoIOThread == group = "null" \/ ioPc = "exited"

\* Pick the IO thread's loop.  Without a group or a loop the socket is closed.
PickIOThread ==
    LET gone == NoIOThread
    IN /\ MainStep("accept", IF gone THEN "check" ELSE "queue")
       /\ accepting' = IF gone THEN None ELSE accepting
       /\ peer' = IF gone THEN [peer EXCEPT ![accepting] = "closed"] ELSE peer
       /\ UNCHANGED <<rpcVars, tcpVars, mainStop, ready, pollFailed, ioVars, connVars,
                      tableVars, group, ioTasks, worker>>

\* Count the connection and queue connectEstablished through the raw pointer
\* just read: if the loop has been destroyed since, that is a crash.
QueueConnection ==
    /\ IF NoIOThread
         THEN MainStep("queue", "crashed") /\ UNCHANGED <<state, ioTasks, m_connection_count>>
         ELSE /\ MainStep("queue", "insert")
              /\ state' = [state EXCEPT ![accepting] = "NotConnected"]
              /\ m_connection_count' = m_connection_count + 1
              /\ ioTasks' = Append(ioTasks, <<"establish", accepting>>)
    /\ UNCHANGED <<rpcVars, tcpVars, mainStop, accepting, ready, pollFailed,
                   ioVars, out, m_flush_queued, fdEvent, m_connections, group,
                   worker, peer>>

\* ... and, last, enter it in the table.
InsertConnection ==
    /\ MainStep("insert", "check")
    /\ m_connections' = m_connections \cup {accepting}
    /\ accepting' = None
    /\ UNCHANGED <<rpcVars, tcpVars, mainStop, ready, pollFailed, ioVars, connVars,
                   m_connection_count, group, ioTasks, worker, peer>>

\* The main loop has returned.
Deactivate ==
    /\ MainStep("ended", "after")
    /\ m_main_loop_active' = FALSE
    /\ UNCHANGED <<rpcVars, m_running, stopMutex, stopPc, mainStop, accepting,
                   ready, pollFailed, ioVars, connVars, tableVars, group,
                   ioTasks, worker, peer>>

\* Nobody called stop(): start() calls TcpServer::stop itself.
AfterLoop ==
    /\ MainStep("after", IF m_running THEN "selfStop" ELSE "tcpReturned")
    /\ stopPc' = IF m_running THEN [stopPc EXCEPT ![Main] = "lock"] ELSE stopPc
    /\ UNCHANGED <<rpcVars, m_running, m_main_loop_active, stopMutex, mainStop,
                   accepting, ready, pollFailed, ioVars, connVars, tableVars,
                   group, ioTasks, worker, peer>>

SelfStopped ==
    /\ MainStep("selfStop", "tcpReturned") /\ stopPc[Main] = "returned"
    /\ UNCHANGED <<rpcVars, tcpVars, mainStop, accepting, ready, pollFailed,
                   ioVars, connVars, tableVars, group, ioTasks, worker, peer>>

\* stopSignalMonitor: tell the monitor ...
StopSignalMonitor ==
    /\ MainStep("tcpReturned", IF m_handle_process_signals THEN "joinMonitor" ELSE "returned")
    /\ m_signal_monitor_stop' = (m_signal_monitor_stop \/ m_handle_process_signals)
    /\ UNCHANGED <<m_started, m_stopping, dispatcherStopping, listening,
                   m_signal_handlers_installed, g_shutdown_signal,
                   tcpVars, mainStop, accepting, ready, pollFailed, ioVars,
                   connVars, tableVars, group, ioTasks, worker, peer>>

\* The monitor's thread has left its loop (it may not look at the signal
\* again), or the stop() it was in.
MonitorLeft ==
    \/ /\ stopPc[Monitor] = "idle"
       /\ m_signal_monitor_stop \/ (g_shutdown_signal /\ m_stopping)
    \/ stopPc[Monitor] = "returned"

\* ... join it, be it in the middle of stop(), and restoreSignalHandlers.
JoinSignalMonitor ==
    /\ MainStep("joinMonitor", "returned") /\ MonitorLeft
    /\ m_signal_handlers_installed' = FALSE
    /\ g_shutdown_signal' = FALSE
    /\ UNCHANGED <<m_started, m_stopping, dispatcherStopping, listening,
                   m_signal_monitor_stop, tcpVars,
                   mainStop, accepting, ready, pollFailed, ioVars, connVars, tableVars,
                   group, ioTasks, worker, peer>>

MainThread ==
    \/ ResetSignalFlags \/ StartSignalMonitor \/ StopSignalMonitor \/ JoinSignalMonitor
    \/ RpcStart \/ TcpStart \/ Activate \/ StartGroup \/ MainCheckStop
    \/ PickIOThread \/ QueueConnection \/ InsertConnection
    \/ Deactivate \/ AfterLoop \/ SelfStopped

-----------------------------------------------------------------------------
(* Signals.  The monitor looks at g_shutdown_signal whenever its wait of   *)
(* 20 ms is over or it is notified, and calls stop() (RpcStop(Monitor)).   *)

\* requestShutdown, the handler of SIGINT and SIGTERM.
Signal ==
    /\ m_signal_handlers_installed /\ ~g_shutdown_signal
    /\ ~(UserStops /\ LoopDied)
    /\ g_shutdown_signal' = TRUE
    /\ UNCHANGED <<m_started, m_stopping, dispatcherStopping, listening,
                   m_signal_handlers_installed,
                   m_signal_monitor_stop, tcpVars, mainVars, ioVars, connVars,
                   tableVars, group, ioTasks, worker, peer>>

-----------------------------------------------------------------------------
(* stop(): RpcServer::stop on a Stopper or on the monitor, TcpServer::stop *)
(* on any thread.                                                          *)

StopStep(t, from, to) == stopPc[t] = from /\ stopPc' = [stopPc EXCEPT ![t] = to]

\* The monitor's thread exists while the handlers are installed.
MonitorSeesSignal == m_signal_handlers_installed /\ g_shutdown_signal

\* m_stopping.exchange(true): a second caller returns at once, nothing done,
\* the first tells the monitor.
RpcStop(t) ==
    /\ StopStep(t, "idle", IF m_stopping THEN "idle" ELSE "dispatcher")
    /\ IF t = Monitor THEN MonitorSeesSignal ELSE ~(g_shutdown_signal /\ LoopDied)
    /\ m_stopping' = TRUE
    /\ m_signal_monitor_stop' = (m_signal_monitor_stop \/ ~m_stopping)
    /\ UNCHANGED <<m_started, dispatcherStopping, listening,
                   m_signal_handlers_installed, g_shutdown_signal, m_running, m_main_loop_active,
                   stopMutex, mainVars, ioVars, connVars, tableVars, group,
                   ioTasks, worker, peer>>

\* Regression: the dispatcher is not stopped first.
StopDispatcherNever(t) ==
    /\ StopStep(t, "dispatcher", "lock")
    /\ UNCHANGED <<rpcVars, m_running, m_main_loop_active, stopMutex, mainVars,
                   ioVars, connVars, tableVars, group, ioTasks, worker, peer>>

\* RpcDispatcher::stop: reject ...
StopDispatcher(t) ==
    /\ StopStep(t, "dispatcher", "draining")
    /\ dispatcherStopping' = TRUE
    /\ UNCHANGED <<m_started, m_stopping, signalVars, listening, m_running,
                   m_main_loop_active, stopMutex, mainVars, ioVars, connVars, tableVars, group, ioTasks, worker, peer>>

\* The threads of the pool are done, whatever closures the services kept.
PoolIdle == \A c \in Conns : worker[c] \notin {"busy", "sending"}

\* ... and drain: the workers are joined.
Drained(t) ==
    /\ StopStep(t, "draining", "lock")
    /\ PoolIdle
    /\ UNCHANGED <<rpcVars, m_running, m_main_loop_active, stopMutex, mainVars,
                   ioVars, connVars, tableVars, group, ioTasks, worker, peer>>

\* TcpServer::stop: one at a time, and only a running server is stopped.
TcpStop(t) ==
    /\ stopMutex = None
    /\ StopStep(t, "lock", IF m_running THEN "loopStop" ELSE "returned")
    /\ stopMutex' = IF m_running THEN t ELSE None
    /\ m_running' = FALSE
    /\ UNCHANGED <<rpcVars, m_main_loop_active, mainVars, ioVars, connVars,
                   tableVars, group, ioTasks, worker, peer>>

\* Regression: the main loop is not told.
StopMainLoopNever(t) ==
    /\ StopStep(t, "loopStop", "wait")
    /\ UNCHANGED <<rpcVars, m_running, m_main_loop_active, stopMutex, mainVars,
                   ioVars, connVars, tableVars, group, ioTasks, worker, peer>>

StopMainLoop(t) ==
    /\ StopStep(t, "loopStop", "wait")
    /\ mainStop' = TRUE
    /\ UNCHANGED <<rpcVars, m_running, m_main_loop_active, stopMutex, mainPc,
                   accepting, ready, pollFailed, ioVars, connVars, tableVars,
                   group, ioTasks, worker, peer>>

\* Regression: the stopper does not wait for the main loop.
WaitMainLoopNever(t) ==
    /\ StopStep(t, "wait", "shutdown")
    /\ UNCHANGED <<rpcVars, m_running, m_main_loop_active, stopMutex, mainVars,
                   ioVars, connVars, tableVars, group, ioTasks, worker, peer>>

\* A foreign thread waits until the main loop is no longer active.
WaitMainLoop(t) ==
    /\ StopStep(t, "wait", "shutdown")
    /\ t = Main \/ ~m_main_loop_active
    /\ UNCHANGED <<rpcVars, m_running, m_main_loop_active, stopMutex, mainVars,
                   ioVars, connVars, tableVars, group, ioTasks, worker, peer>>

\* Queue shutdownGracefully for every connection in the table, each to the
\* loop it points to, be it gone.
ShutdownConnections(t) ==
    /\ \/ StopStep(t, "shutdown", "reset")
       \/ ioPc = "exited" /\ m_connections # {} /\ StopStep(t, "shutdown", "crashed")
    /\ ioTasks' = IF ioPc = "exited" THEN ioTasks
                  ELSE ioTasks \o SetToSeq({"shutdown"} \X m_connections)
    /\ UNCHANGED <<rpcVars, m_running, m_main_loop_active, stopMutex, mainVars,
                   ioVars, connVars, tableVars, group, worker, peer>>

\* ~IOThread: the loop is told to stop, and its thread joined.
StopThread == ioStop' = TRUE
ThreadEnded == ioPc \in {"none", "exited"}

\* m_io_group.reset(): the pointer is null, the IO loop is told to stop ...
ResetGroup(t) ==
    /\ StopStep(t, "reset", "join")
    /\ group' = "null" /\ StopThread
    /\ UNCHANGED <<rpcVars, m_running, m_main_loop_active, stopMutex, mainVars,
                   ioPc, connVars, tableVars, ioTasks, worker, peer>>

\* ... and its thread joined.
JoinGroup(t) ==
    /\ StopStep(t, "join", "returned")
    /\ ThreadEnded
    /\ stopMutex' = None
    /\ UNCHANGED <<rpcVars, m_running, m_main_loop_active, mainVars, ioVars,
                   connVars, tableVars, group, ioTasks, worker, peer>>

Stopping(t) ==
    \/ StopDispatcher(t) \/ Drained(t) \/ TcpStop(t) \/ StopMainLoop(t)
    \/ WaitMainLoop(t) \/ ShutdownConnections(t) \/ ResetGroup(t) \/ JoinGroup(t)

-----------------------------------------------------------------------------
(* TcpConnection on the IO thread.  q is the loop's task queue as the      *)
(* caller leaves it.                                                       *)

Open(c) == state[c] \in {"Connected", "HalfClosing"}

\* connectEstablished listens for input and errors ...
Attach(e) == UpdateFdEvent(SetErrorCallback(Listen(e, "IN")))

\* ... handleClose and connectDestroyed end it.
Detach(e) == ClearCallbacks(RemoveFdEvent(e))

\* Regression: the callback is set and epoll not told.
EnableWritingQuietly(c) == fdEvent' = [fdEvent EXCEPT ![c] = Listen(@, "OUT")]

EnableWriting(c) == fdEvent' = [fdEvent EXCEPT ![c] = UpdateFdEvent(Listen(@, "OUT"))]

DisableWriting(c) == fdEvent' = [fdEvent EXCEPT ![c] = UpdateFdEvent(Cancel(@, "OUT"))]

\* Regression: the connection stays counted.
RemoveConnectionUncounted(c, q) ==
    /\ m_connections' = m_connections \ {c}
    /\ ioTasks' = Append(q, <<"destroy", c>>)
    /\ UNCHANGED m_connection_count


\* TcpServer::removeConnection, the close callback.
RemoveConnection(c, q) ==
    /\ m_connections' = m_connections \ {c}
    /\ m_connection_count' = m_connection_count - 1
    /\ ioTasks' = Append(q, <<"destroy", c>>)

\* handleClose of a connection that is not closed.
HandleClose(c, q) ==
    /\ state' = [state EXCEPT ![c] = "Closed"]
    /\ fdEvent' = [fdEvent EXCEPT ![c] = Detach(@)]
    /\ RemoveConnection(c, q)

\* updateWriteInterest after everything was written, which ends a half-closed
\* connection without requests in flight ...
AllWritten(c, q) ==
    IF state[c] = "HalfClosing" /\ worker[c] \notin {"busy", "deferred"}
      THEN HandleClose(c, q)
      ELSE /\ IF IsListening(fdEvent[c], "OUT") THEN DisableWriting(c) ELSE UNCHANGED fdEvent
           /\ ioTasks' = q /\ UNCHANGED <<state, tableVars>>

\* ... and when EPOLLOUT has to tell when to go on.
SomeLeft(c, q) ==
    /\ IF IsListening(fdEvent[c], "OUT") THEN UNCHANGED fdEvent ELSE EnableWriting(c)
    /\ ioTasks' = q /\ UNCHANGED <<state, tableVars>>

\* flushOutputInLoop: all is written, or the socket is full, or the write fails.
Flush(c, q) ==
    \/ out' = [out EXCEPT ![c] = FALSE] /\ AllWritten(c, q)
    \/ out[c] /\ SomeLeft(c, q) /\ UNCHANGED out
    \/ out[c] /\ HandleClose(c, q) /\ UNCHANGED out

\* scheduleOutputFlush: one flush, at the end of this turn of the loop, unless
\* one is queued or EPOLLOUT will start it.
ScheduleOutputFlush(c, q) ==
    LET waits == m_flush_queued[c] \/ IsListening(fdEvent[c], "OUT")
    IN /\ ioTasks' = IF waits THEN q ELSE Append(q, <<"flush", c>>)
       /\ m_flush_queued' = [m_flush_queued EXCEPT ![c] = @ \/ ~waits]

\* sendInLoopBatch.  A failing encode closes the connection.  With many
\* connections on the loop a lone message is written at once; how many there
\* are is not modelled, so it may be.
SendInLoop(c, q) ==
    IF state[c] \notin {"NotConnected", "Connected"}
      THEN ioTasks' = q /\ UNCHANGED <<connVars, tableVars>>
      ELSE \/ /\ out' = [out EXCEPT ![c] = TRUE]
              /\ ScheduleOutputFlush(c, q)
              /\ UNCHANGED <<state, fdEvent, tableVars>>
           \/ /\ ~m_flush_queued[c] /\ ~IsListening(fdEvent[c], "OUT")
              /\ \/ out' = [out EXCEPT ![c] = FALSE] /\ AllWritten(c, q)
                 \/ out' = [out EXCEPT ![c] = TRUE] /\ SomeLeft(c, q)
              /\ UNCHANGED m_flush_queued
           \/ HandleClose(c, q) /\ UNCHANGED <<out, m_flush_queued>>

\* RpcServer::onMessage dispatches a request: a worker or an inline service
\* that keeps the closure gets it, unless the server is stopping, or the answer
\* (an error, or an inline service's response) is sent from here.
OnMessage(c) ==
    \/ SendInLoop(c, ioTasks) /\ UNCHANGED worker
    \/ /\ ~dispatcherStopping
       /\ \E w \in {"busy", "deferred"} : worker' = [worker EXCEPT ![c] = w]
       /\ UNCHANGED <<ioTasks, connVars, tableVars>>

\* handleRead with a decoded request.
ReadRequest(c) ==
    /\ ioPc = "events" /\ Handles(fdEvent[c], "IN") /\ Open(c)
    /\ peer[c] = "open" /\ worker[c] = "idle"
    /\ OnMessage(c)
    /\ UNCHANGED <<rpcVars, tcpVars, mainVars, ioVars, group, peer>>

\* End of file, a read error or garbage.
ReadClose(c) ==
    /\ ioPc = "events" /\ Handles(fdEvent[c], "IN") /\ Open(c)
    /\ HandleClose(c, ioTasks)
    /\ UNCHANGED <<rpcVars, tcpVars, mainVars, ioVars, out, m_flush_queued, group,
                   worker, peer>>

\* EPOLLERR or EPOLLHUP.
HandleError(c) ==
    /\ ioPc = "events" /\ Handles(fdEvent[c], "ERROR") /\ state[c] # "Closed"
    /\ HandleClose(c, ioTasks)
    /\ UNCHANGED <<rpcVars, tcpVars, mainVars, ioVars, out, m_flush_queued, group,
                   worker, peer>>

HandleWrite(c) ==
    /\ ioPc = "events" /\ Handles(fdEvent[c], "OUT") /\ Open(c)
    /\ Flush(c, ioTasks)
    /\ UNCHANGED <<rpcVars, tcpVars, mainVars, ioVars, m_flush_queued, group,
                   worker, peer>>

-----------------------------------------------------------------------------
(* The IO thread's loop.                                                   *)

\* The thread's function returns and the loop is destroyed; the tasks still in
\* it never run.
IOCheckStop ==
    /\ ioPc = "check"
    /\ ioPc' = IF ioStop THEN "exited" ELSE "events"
    /\ UNCHANGED <<rpcVars, tcpVars, mainVars, ioStop, connVars, tableVars, group,
                   ioTasks, worker, peer>>

IOPollFails ==
    /\ ioPc = "events"
    /\ ~LoopDied /\ ~(g_shutdown_signal /\ UserStops)
    /\ ioPc' = "exited" /\ pollFailed' = {"io"}
    /\ UNCHANGED <<rpcVars, tcpVars, mainStop, mainPc, accepting, ready, ioStop,
                   connVars, tableVars, group, ioTasks, worker, peer>>

EventsDone ==
    /\ ioPc = "events"
    /\ ioPc' = "tasks"
    /\ UNCHANGED <<rpcVars, tcpVars, mainVars, ioStop, connVars, tableVars, group,
                   ioTasks, worker, peer>>

TasksDone ==
    /\ ioPc = "tasks" /\ ioTasks = <<>>
    /\ ioPc' = "check"
    /\ UNCHANGED <<rpcVars, tcpVars, mainVars, ioStop, connVars, tableVars, group,
                   ioTasks, worker, peer>>

\* connectEstablished, connectDestroyed and shutdownInLoop change the state.
StateAfter(op, s) ==
    CASE op = "establish" -> IF s = "NotConnected" THEN "Connected" ELSE s
      [] op = "shutdown" -> IF s \in {"Closed", "destroyed"} THEN s ELSE "HalfClosing"
      [] op = "destroy" -> "destroyed"

RunStateTask ==
    /\ ioPc = "tasks" /\ ioTasks # <<>>
    /\ LET op == Head(ioTasks)[1]
           c == Head(ioTasks)[2]
       IN /\ op \in {"establish", "shutdown", "destroy"}
          /\ state' = [state EXCEPT ![c] = StateAfter(op, @)]
          /\ fdEvent' = [fdEvent EXCEPT ![c] =
                             CASE op = "establish" /\ state[c] = "NotConnected" -> Attach(@)
                               [] op = "destroy" -> Detach(@)
                               [] OTHER -> @]
    /\ ioTasks' = Tail(ioTasks)
    /\ UNCHANGED <<rpcVars, tcpVars, mainVars, ioVars, out, m_flush_queued,
                   tableVars, group, worker, peer>>

\* drainWriteQueue
RunDrain ==
    /\ ioPc = "tasks" /\ ioTasks # <<>> /\ Head(ioTasks)[1] = "drain"
    /\ SendInLoop(Head(ioTasks)[2], Tail(ioTasks))
    /\ UNCHANGED <<rpcVars, tcpVars, mainVars, ioVars, group, worker, peer>>

\* The task queued by scheduleOutputFlush.
RunFlush ==
    /\ ioPc = "tasks" /\ ioTasks # <<>> /\ Head(ioTasks)[1] = "flush"
    /\ LET c == Head(ioTasks)[2]
       IN /\ m_flush_queued' = [m_flush_queued EXCEPT ![c] = FALSE]
          /\ IF Open(c)
               THEN Flush(c, Tail(ioTasks))
               ELSE ioTasks' = Tail(ioTasks) /\ UNCHANGED <<state, out, fdEvent, tableVars>>
    /\ UNCHANGED <<rpcVars, tcpVars, mainVars, ioVars, group, worker, peer>>

IOThread ==
    IOCheckStop \/ EventsDone \/ TasksDone \/ RunStateTask \/ RunDrain \/ RunFlush

-----------------------------------------------------------------------------
(* Workers and clients.                                                    *)

\* The closure: decrInFlight ...
WorkerDone(c) ==
    /\ worker[c] = "busy"
    /\ worker' = [worker EXCEPT ![c] = "sending"]
    /\ UNCHANGED <<rpcVars, tcpVars, mainVars, ioVars, connVars, tableVars, group,
                   ioTasks, peer>>

\* A service on a worker returns and keeps the closure ...
Defer(c) ==
    /\ worker[c] = "busy"
    /\ worker' = [worker EXCEPT ![c] = "deferred"]
    /\ UNCHANGED <<rpcVars, tcpVars, mainVars, ioVars, connVars, tableVars, group,
                   ioTasks, peer>>

\* ... which a thread of the service runs at any time, or never.
RunDeferred(c) ==
    /\ worker[c] = "deferred"
    /\ worker' = [worker EXCEPT ![c] = "late"]
    /\ UNCHANGED <<rpcVars, tcpVars, mainVars, ioVars, connVars, tableVars, group,
                   ioTasks, peer>>

\* ... then send, which a closing connection refuses.
SendResponse(c) ==
    /\ worker[c] \in {"sending", "late"}
    /\ LET queues == /\ state[c] \in {"NotConnected", "Connected"}
                     /\ \A i \in DOMAIN ioTasks : ioTasks[i] # <<"drain", c>>
       IN \/ /\ worker' = [worker EXCEPT ![c] = "idle"]
             /\ ioTasks' = IF queues /\ ioPc # "exited" THEN Append(ioTasks, <<"drain", c>>)
                         ELSE ioTasks
          \/ /\ queues /\ ioPc = "exited"
             /\ worker' = [worker EXCEPT ![c] = "crashed"] /\ UNCHANGED ioTasks
    /\ UNCHANGED <<rpcVars, tcpVars, mainVars, ioVars, connVars, tableVars, group, peer>>

PeerConnects(c) ==
    /\ peer[c] = "away" /\ listening
    /\ peer' = [peer EXCEPT ![c] = "connecting"]
    /\ UNCHANGED <<rpcVars, tcpVars, mainVars, ioVars, connVars, tableVars, group,
                   ioTasks, worker>>

PeerCloses(c) ==
    /\ peer[c] = "open"
    /\ peer' = [peer EXCEPT ![c] = "closed"]
    /\ UNCHANGED <<rpcVars, tcpVars, mainVars, ioVars, connVars, tableVars, group,
                   ioTasks, worker>>

Next ==
    \/ MainThread \/ MainWakes \/ MainPollFails \/ IOPollFails
    \/ \E t \in Stoppers \cup {Monitor} : RpcStop(t)
    \/ Signal
    \/ \E t \in Threads : Stopping(t)
    \/ IOThread
    \/ \E c \in Conns : \/ OnAccept(c) \/ ReadRequest(c) \/ ReadClose(c) \/ HandleWrite(c)
                        \/ HandleError(c)
                        \/ WorkerDone(c) \/ Defer(c) \/ RunDeferred(c) \/ SendResponse(c)
                        \/ PeerConnects(c) \/ PeerCloses(c)

(* Fairness: threads keep running, a stopped main loop is woken (EventLoop *)
(* proves that wakeups are not lost), services return, and epoll, which is *)
(* level-triggered, reports an end of file again until it is handled.      *)
(* Clients and stoppers need not do anything, a closure that a service     *)
(* kept need not be run, and polls need not fail.                          *)
Fairness ==
    /\ WF_vars(MainThread \/ Stopping(Main))
    /\ WF_vars(mainStop /\ MainWakes)
    /\ \A t \in Stoppers : WF_vars(Stopping(t))
    /\ WF_vars(RpcStop(Monitor) \/ Stopping(Monitor))
    /\ WF_vars(IOThread)
    /\ \A c \in Conns : /\ SF_vars(peer[c] = "closed" /\ ReadClose(c))
                        /\ WF_vars(WorkerDone(c) \/ Defer(c) \/ SendResponse(c))

Spec == Init /\ [][Next]_vars /\ Fairness

-----------------------------------------------------------------------------
(* Properties.                                                             *)

(* The loop's connection count is the number of connections that were      *)
(* accepted and not closed: accept, peer close, write errors and graceful  *)
(* close come from several threads and each closes a connection once.      *)
CountExact == m_connection_count = Cardinality({c \in Conns : state[c] \in Live})

(* epoll holds a raw pointer to a connection's FdEvent exactly while the   *)
(* connection is open, and output that waits in m_out_buffer has a flush   *)
(* queued or EPOLLOUT asked for: it is never left with nothing that would  *)
(* write it.                                                               *)
Watched ==
    \A c \in Conns :
        /\ IsRegistered(fdEvent[c]) <=> Open(c)
        /\ out[c] /\ Open(c) => m_flush_queued[c] \/ Reports(fdEvent[c], "OUT")

(* Once the server has come up, the main loop never uses an IO group that  *)
(* stop() has destroyed, however onAccept and stop() interleave (unless    *)
(* the IO loop itself died of a poll error).                               *)
GroupAlive == ready /\ "io" \notin pollFailed => mainPc # "crashed"

(* "drain queued business work while the IO loops are still alive so       *)
(* worker completions can safely enqueue responses": no thread of the pool *)
(* is in a service or sends a response when the IO loop is gone, unless a  *)
(* loop died of an error.  Closures that services kept are not waited for. *)
WorkersBeforeLoops == ioPc = "exited" /\ pollFailed = {} => PoolIdle

(* After the server has come up, stop() returns and so does start(), also  *)
(* when the main loop has died and start() is itself in TcpServer::stop,   *)
(* when a signal and a user stop the server at once, and when it is the    *)
(* monitor that stops it and start() that joins the monitor; a signal that *)
(* comes then is as good as a stop().  Not when the IO loop has died of a  *)
(* poll error: stop() then queues tasks to an EventLoop that is destroyed, *)
(* and so does a closure that a service runs after stop().                 *)
StopReturns ==
    LET stopped == (\E t \in Stoppers : stopPc[t] = "dispatcher")
                     \/ (g_shutdown_signal /\ ~m_stopping)
        returned == mainPc = "returned" /\ \A t \in Stoppers : stopPc[t] \in {"idle", "returned"}
        usesDeadLoop == "io" \in pollFailed \/ \E c \in Conns : worker[c] = "crashed"
    IN ready /\ stopped ~> returned \/ usesDeadLoop


(* "the owner (TcpServer::removeConnection) already handled the removal    *)
(* before calling connectDestroyed": a destroyed connection is not in the  *)
(* server's table.                                                         *)
DestroyedIsRemoved == \A c \in Conns : state[c] = "destroyed" => c \notin m_connections
=============================================================================
