---------------------------- MODULE ConnectionPool ----------------------------
(***************************************************************************)
(* RpcConnectionPool and the TcpClients it makes, on the event loops of    *)
(* its IOThreadGroup: acquire on application threads and inside callbacks  *)
(* of a loop, the connecting sockets, connections that the peer closes,    *)
(* and shutdown.                                                           *)
(*                                                                         *)
(* A section under m_mutex is one step.  acquire reads the states of the   *)
(* pooled connections one by one, but they only go from Connected to       *)
(* Closed, so that all reads can be taken at the time of the last one.  A  *)
(* loop is its queue of tasks, run one at a time, and the sockets it       *)
(* watches; EventLoop.tla looks inside.  While a callback is inside        *)
(* acquire its loop does nothing else.                                     *)
(***************************************************************************)
EXTENDS Integers, Sequences, FiniteSets, SequencesExt, FiniteSetsExt

CONSTANTS Callers,     \* threads that acquire clients
          Home,        \* [Callers -> loop whose callback it is, or None]
          Closer,      \* the thread that calls shutdown
          Group,       \* the loops of m_io_group, a sequence
          Addrs,       \* peer addresses
          PoolScripts, \* what may be asked of the pool: see MCDiscovery
          None

ASSUME PoolAssumption ==
    /\ Closer \notin Callers /\ None \notin Addrs \cup Range(Group)
    /\ Group \in Seq(Range(Group))
    /\ \A p \in Callers : Home[p] \in Range(Group) \cup {None}

Loops == Range(Group)
Threads == Callers \cup {Closer}

VARIABLES
    script,         \* the script of this behaviour, never changes
    calls,          \* per caller: the acquires it has still to make
    m_clients,      \* per address: the pooled clients
    m_rr_counters,  \* per address: round robin index
    m_shutdown,
    clients,        \* every TcpClient made, with its TcpConnection
    loop,           \* per loop: IOThread and EventLoop
    crashed,        \* the process died of the use of a destroyed EventLoop
    pc, my          \* per thread: where it is, and its locals

poolVars == <<m_clients, m_rr_counters, m_shutdown>>
pVars == <<script, calls, poolVars, clients, loop, crashed, pc, my>>

ClientIds == DOMAIN clients
Conns == IF script.conns_per_addr = 0 THEN 1 ELSE script.conns_per_addr

\* A thread's locals: the address and loop of its acquire, the client it made,
\* the clients it still has to stop, and where to go on after a stop().
NoLocals == [addr |-> None, loop |-> None, client |-> 0, stale |-> <<>>, back |-> "idle"]

\* A client as constructed, on loop l.
NewClient(a, l) ==
    [addr |-> a, loop |-> l,
     m_connection |-> FALSE, m_stopped |-> FALSE,
     m_state |-> "NotConnected",
     watch |-> "none",          \* what its FdEvent listens for in the poller
     socket |-> "none",
     done |-> FALSE, error |-> "none",   \* WaitState of connectSync, whose error
                                         \* is m_connect_error_code at that time
     destroyed |-> FALSE]                \* StopState of stop

isConnected(c) == clients[c].m_connection /\ clients[c].m_state = "Connected"

PoolInit ==
    /\ script \in PoolScripts
    /\ calls = script.calls
    /\ m_clients = [a \in Addrs |-> <<>>]
    /\ m_rr_counters = [a \in Addrs |-> 0]
    /\ m_shutdown = FALSE
    /\ clients = <<>>
    /\ loop = [l \in Loops |-> [state |-> "looping", tasks |-> <<>>, m_connection_count |-> 0]]
    /\ crashed = FALSE
    /\ pc = [t \in Threads |-> "idle"]
    /\ my = [t \in Threads |-> NoLocals]

-----------------------------------------------------------------------------
(* acquire.                                                                *)

\* The callback that t is runs only when its loop runs nothing else.
Occupied(l) == \E p \in Callers : Home[p] = l /\ pc[p] # "idle"
LoopFree(l) == loop[l].state # "gone" /\ ~Occupied(l)

\* The first loop of S in the group with the fewest connections.
Emptiest(S) ==
    LET least == Min({loop[l].m_connection_count : l \in S})
    IN Group[Min({i \in DOMAIN Group :
                    Group[i] \in S /\ loop[Group[i]].m_connection_count = least})]

\* pickLoop, and the alternative for a thread that is that loop.
PickLoop(t) ==
    LET live == {l \in Loops : loop[l].state # "gone"}
        best == Emptiest(live)
        rest == live \ {best}
    IN IF live = {} THEN None
       ELSE IF t \in Callers /\ Home[t] = best
              THEN IF rest = {} THEN None ELSE Emptiest(rest)
              ELSE best

\* Steps from index idx of vec to the first connected client.
Healthy(vec, idx) ==
    {k \in 0..(Len(vec) - 1) : isConnected(vec[((idx + k) % Len(vec)) + 1])}

OnLoop(vec, l) == Cardinality({i \in DOMAIN vec : clients[vec[i]].loop = l})

\* Go on at step s of thread t; return from acquire, whose locals end.
Goto(t, s) == pc' = [pc EXCEPT ![t] = s]
Return(t) == Goto(t, "idle") /\ my' = [my EXCEPT ![t] = NoLocals]
GoOn(t, s) == IF s = "idle" THEN Return(t) ELSE Goto(t, s) /\ UNCHANGED my
Uncount(vec) ==
    loop' = [l \in Loops |-> [loop[l] EXCEPT !.m_connection_count = @ - OnLoop(vec, l)]]

\* The caller's next acquire meets a pool that has been shut down.
AcquireRefused(p) ==
    /\ pc[p] = "acquire" /\ m_shutdown
    /\ Return(p)
    /\ UNCHANGED <<script, crashed, calls, poolVars, clients, loop>>

\* Enough connections, one of them in good health: round robin.
AcquirePooled(p) ==
    LET a == my[p].addr
        vec == m_clients[a]
        idx == m_rr_counters[a] % Len(vec)
    IN /\ pc[p] = "acquire" /\ ~m_shutdown
       /\ Len(vec) >= Conns /\ Healthy(vec, idx) # {}
       /\ m_rr_counters' = [m_rr_counters EXCEPT
             ![a] = (idx + Min(Healthy(vec, idx)) + 1) % Len(vec)]
       /\ Return(p)
       /\ UNCHANGED <<script, crashed, calls, m_clients, m_shutdown, clients, loop>>

\* Too few connections: make one.
AcquireMore(p) ==
    /\ pc[p] = "acquire" /\ ~m_shutdown
    /\ Len(m_clients[my[p].addr]) < Conns
    /\ my' = [my EXCEPT ![p].loop = PickLoop(p)]
    /\ Goto(p, "evict")
    /\ UNCHANGED <<script, crashed, calls, poolVars, clients, loop>>

\* Regression: the evicted connections stay counted.
AcquireEvictsCounted(p) ==
    LET a == my[p].addr
        vec == m_clients[a]
    IN /\ pc[p] = "acquire" /\ ~m_shutdown
       /\ Len(vec) >= Conns /\ Healthy(vec, 0) = {}
       /\ m_clients' = [m_clients EXCEPT ![a] = <<>>]
       /\ m_rr_counters' = [m_rr_counters EXCEPT ![a] = 0]
       /\ my' = [my EXCEPT ![p].stale = vec, ![p].loop = PickLoop(p)]
       /\ Goto(p, "evict")
       /\ UNCHANGED <<script, crashed, calls, m_shutdown, clients, loop>>

\* All are dead: take them out and make one.
AcquireEvicts(p) ==
    LET a == my[p].addr
        vec == m_clients[a]
    IN /\ pc[p] = "acquire" /\ ~m_shutdown
       /\ Len(vec) >= Conns /\ Healthy(vec, 0) = {}
       /\ Uncount(vec)
       /\ m_clients' = [m_clients EXCEPT ![a] = <<>>]
       /\ m_rr_counters' = [m_rr_counters EXCEPT ![a] = 0]
       /\ my' = [my EXCEPT ![p].stale = vec, ![p].loop = PickLoop(p)']
       /\ Goto(p, "evict")
       /\ UNCHANGED <<script, crashed, calls, m_shutdown, clients>>

\* Outside the mutex: stop what was evicted, one after the other; then connect,
\* if there is a loop to do it.
EvictNext(p) ==
    /\ pc[p] = "evict"
    /\ IF my[p].stale = <<>>
         THEN GoOn(p, IF my[p].loop = None THEN "idle" ELSE "connect")
         ELSE /\ my' = [my EXCEPT ![p].client = Head(my[p].stale),
                                  ![p].stale = Tail(@), ![p].back = "evict"]
              /\ Goto(p, "stop")
    /\ UNCHANGED <<script, crashed, calls, poolVars, clients, loop>>

Task(kind, c) == [kind |-> kind, client |-> c]

\* A task queued on a loop that is gone goes nowhere.
QueueInLoop(l, task) ==
    loop' = [loop EXCEPT ![l].tasks = IF loop[l].state = "gone" THEN @ ELSE Append(@, task)]

\* TcpClient::connect: connected at once, in progress, or failed, in which case
\* done() runs on this thread and the client is dropped.
Connect(p, outcome) ==
    LET l == my[p].loop
        c == Len(clients) + 1
        new == NewClient(my[p].addr, l)
    IN /\ pc[p] = "connect"
       /\ IF outcome = "failed"
            THEN Return(p) /\ UNCHANGED <<clients, loop>>
            ELSE /\ clients' = Append(clients, [new EXCEPT
                       !.m_connection = TRUE,
                       !.socket = IF outcome = "now" THEN "up" ELSE "pending"])
                 /\ QueueInLoop(l, Task(outcome, c))
                 /\ my' = [my EXCEPT ![p].client = c]
                 /\ Goto(p, "connecting")
       /\ UNCHANGED <<script, crashed, calls, poolVars>>

\* connectSync finds done set.  With an error the client is dropped, and its
\* destructor stops it.
ConnectDone(p) ==
    LET c == my[p].client
    IN /\ pc[p] = "connecting" /\ clients[c].done
       /\ IF clients[c].error = "none"
            THEN Goto(p, "count") /\ UNCHANGED my
            ELSE Goto(p, "stop") /\ my' = [my EXCEPT ![p].back = "idle"]
       /\ UNCHANGED <<script, crashed, calls, poolVars, clients, loop>>

\* Regression: after a timeout the client is left to itself.
ConnectGivesUp(p) ==
    /\ pc[p] = "connecting" /\ ~clients[my[p].client].done
    /\ Return(p)
    /\ UNCHANGED <<script, crashed, calls, poolVars, clients, loop>>

\* connectSync times out and stops the client.
ConnectTimeout(p) ==
    LET c == my[p].client
    IN /\ pc[p] = "connecting" /\ ~clients[c].done
       /\ clients' = [clients EXCEPT ![c].error = "timeout"]
       /\ my' = [my EXCEPT ![p].back = "idle"]
       /\ Goto(p, "stop")
       /\ UNCHANGED <<script, crashed, calls, poolVars, loop>>

Count(l, d) == loop' = [loop EXCEPT ![l].m_connection_count = @ + d]

CountConnection(p) ==
    /\ pc[p] = "count"
    /\ Count(my[p].loop, 1)
    /\ Goto(p, "insert")
    /\ UNCHANGED <<script, crashed, calls, poolVars, clients, my>>

\* The pool may have been shut down, or filled by another caller, since acquire
\* let go of the mutex.
Insert(p) ==
    LET a == my[p].addr
        c == my[p].client
        vec == m_clients[a]
        idx == m_rr_counters[a] % Len(vec)
    IN /\ pc[p] = "insert"
       /\ \/ /\ m_shutdown
             /\ Goto(p, "uncount")
             /\ UNCHANGED <<m_clients, m_rr_counters, loop, my>>
          \/ /\ ~m_shutdown /\ Len(vec) < Conns
             /\ m_clients' = [m_clients EXCEPT ![a] = Append(vec, c)]
             /\ Return(p)
             /\ UNCHANGED <<m_rr_counters, loop>>
          \/ /\ ~m_shutdown /\ Len(vec) >= Conns
             /\ m_rr_counters' = [m_rr_counters EXCEPT ![a] = (idx + 1) % Len(vec)]
             /\ Count(my[p].loop, -1)
             /\ my' = [my EXCEPT ![p].back = "idle"]
             /\ Goto(p, "stop")
             /\ UNCHANGED m_clients
       /\ UNCHANGED <<script, crashed, calls, m_shutdown, clients>>

UncountConnection(p) ==
    /\ pc[p] = "uncount"
    /\ Count(my[p].loop, -1)
    /\ my' = [my EXCEPT ![p].back = "idle"]
    /\ Goto(p, "stop")
    /\ UNCHANGED <<script, crashed, calls, poolVars, clients>>

-----------------------------------------------------------------------------
(* TcpClient::stop on thread t, for my[t].client.                          *)

Destroyed(client) == [client EXCEPT !.m_state = "Closed", !.watch = "none"]

\* Regression: the thread of the loop waits for its own loop.
StopEnterWaits(t) ==
    LET c == my[t].client
        l == clients[c].loop
    IN /\ pc[t] = "stop"
       /\ clients' = [clients EXCEPT ![c].m_stopped = TRUE, ![c].m_connection = FALSE]
       /\ GoOn(t, IF clients[c].m_stopped \/ ~clients[c].m_connection \/ loop[l].state = "gone"
                    THEN my[t].back ELSE "stopQueue")
       /\ UNCHANGED <<script, crashed, calls, poolVars, loop>>

\* Stopped before or never connected: nothing to wait for.  On its own loop the
\* connection is destroyed at once.  Of a loop that is gone, which is a local of
\* threadFunc, anything may be read: that it is looping or that it is not.
StopEnter(t) ==
    LET c == my[t].client
        l == clients[c].loop
        taken == [clients[c] EXCEPT !.m_stopped = TRUE, !.m_connection = FALSE]
    IN /\ pc[t] = "stop"
       /\ IF clients[c].m_stopped \/ ~clients[c].m_connection
            THEN /\ clients' = [clients EXCEPT ![c].m_stopped = TRUE]
                 /\ GoOn(t, my[t].back)
            ELSE IF t \in Callers /\ Home[t] = l
            THEN /\ clients' = [clients EXCEPT ![c] = Destroyed(taken)]
                 /\ GoOn(t, my[t].back)
            ELSE /\ clients' = [clients EXCEPT ![c] = taken]
                 /\ \/ GoOn(t, "stopQueue")
                    \/ loop[l].state = "gone" /\ GoOn(t, my[t].back)
       /\ UNCHANGED <<script, crashed, calls, poolVars, loop>>

StopQueue(t) ==
    LET c == my[t].client
    IN /\ pc[t] = "stopQueue"
       /\ QueueInLoop(clients[c].loop, Task("destroy", c))
       /\ Goto(t, "stopWait")
       /\ UNCHANGED <<script, crashed, calls, poolVars, clients, my>>

StopWait(t) ==
    /\ pc[t] = "stopWait" /\ clients[my[t].client].destroyed
    /\ GoOn(t, my[t].back)
    /\ UNCHANGED <<script, crashed, calls, poolVars, clients, loop>>

-----------------------------------------------------------------------------
(* The loops.                                                              *)

\* connectEstablished, and the connect callback with no error.
Established(client) ==
    [client EXCEPT !.m_state = "Connected", !.watch = "read",
                   !.done = TRUE, !.error = "none"]

\* What a task leaves of its client.  Only a NotConnected connection begins to
\* connect; connectInProgress reports EISCONN for another one.
AfterTask(kind, client) ==
    CASE kind = "destroy" -> [Destroyed(client) EXCEPT !.destroyed = TRUE]
      [] kind = "now" ->
           IF client.m_state = "NotConnected" THEN Established(client)
           ELSE [client EXCEPT !.done = TRUE, !.error = "none"]
      [] kind = "progress" ->
           IF client.m_state = "NotConnected" THEN [client EXCEPT !.watch = "connect"]
           ELSE [client EXCEPT !.done = TRUE, !.error = "failed"]

RunTask(l) ==
    LET task == Head(loop[l].tasks)
    IN /\ LoopFree(l) /\ loop[l].tasks # <<>>
       /\ loop' = [loop EXCEPT ![l].tasks = Tail(@)]
       /\ clients' = [clients EXCEPT ![task.client] = AfterTask(task.kind, @)]
       /\ UNCHANGED <<script, crashed, calls, poolVars, pc, my>>

\* The socket turned writable or failed: connectInProgress' finish, which runs
\* once, whichever of its two events comes.
ConnectFinish(c) ==
    /\ LoopFree(clients[c].loop)
    /\ clients[c].watch = "connect" /\ clients[c].socket \in {"up", "refused"}
    /\ clients' = [clients EXCEPT ![c] =
          IF @.socket = "up" THEN Established(@)
          ELSE [Destroyed(@) EXCEPT !.done = TRUE, !.error = "failed"]]
    /\ UNCHANGED <<script, crashed, calls, poolVars, loop, pc, my>>

\* handleRead meets the end of the stream: handleClose; onClose only logs.
HandleClose(c) ==
    /\ LoopFree(clients[c].loop)
    /\ clients[c].watch = "read" /\ clients[c].socket = "closed"
    /\ clients' = [clients EXCEPT ![c] = Destroyed(@)]
    /\ UNCHANGED <<script, crashed, calls, poolVars, loop, pc, my>>

\* The peer answers a connecting socket, or closes a connected one.
Peer(c, answer) ==
    /\ clients[c].m_state # "Closed"
    /\ <<clients[c].socket, answer>> \in
          {<<"pending", "up">>, <<"pending", "refused">>, <<"up", "closed">>}
    /\ clients' = [clients EXCEPT ![c].socket = answer]
    /\ UNCHANGED <<script, crashed, calls, poolVars, loop, pc, my>>

\* loop() sees its stop flag between two callbacks; tasks still queued are lost.
\* IOThread::threadFunc then forgets the loop and destroys it, with its poller.
LoopLeaves(l) ==
    /\ LoopFree(l) /\ loop[l].state = "stopping"
    /\ loop' = [loop EXCEPT ![l].state = "gone", ![l].tasks = <<>>]
    /\ clients' = [c \in ClientIds |->
          [clients[c] EXCEPT !.watch = IF clients[c].loop = l THEN "none" ELSE @]]
    /\ UNCHANGED <<script, crashed, calls, poolVars, pc, my>>

\* The loops whose EventLoop the next step of thread t reads or writes.
Touched(t) ==
    {l \in Loops :
        \/ pc[t] \in {"connect", "count", "uncount"} /\ my[t].loop = l
        \/ pc[t] \in {"stop", "stopQueue"} /\ clients[my[t].client].loop = l}

\* Undefined: the step goes on with what it finds in the memory of a loop that
\* is gone, or it ends the process.
UseAfterDestroy(t) ==
    /\ \E l \in Touched(t) : loop[l].state = "gone"
    /\ crashed' = TRUE
    /\ UNCHANGED <<script, calls, poolVars, clients, loop, pc, my>>

-----------------------------------------------------------------------------
(* shutdown.  script.during bounds who may still be about to acquire, or   *)
(* inside acquire, when it is called.                                      *)

\* vec is a part of all, from some place on.
HasRun(all, vec) ==
    \E k \in 0..(Len(all) - Len(vec)) : \A i \in DOMAIN vec : all[k + i] = vec[i]

Through(S) == \A p \in S : pc[p] = "idle" /\ calls[p] = <<>>

\* The clients are copied address by address; in which order does not matter.
ShutdownBegin ==
    /\ pc[Closer] = "idle" /\ ~m_shutdown /\ Through(Callers \ script.during)
    /\ m_shutdown' = TRUE
    /\ \E all \in SetToSeqs(UNION {Range(m_clients[a]) : a \in Addrs}) :
          /\ \A a \in Addrs : HasRun(all, m_clients[a])
          /\ my' = [my EXCEPT ![Closer].stale = all]
    /\ Goto(Closer, "clients")
    /\ UNCHANGED <<script, crashed, calls, m_clients, m_rr_counters, clients, loop>>

\* Regression: the IO threads are joined first.
ShutdownJoinsFirst ==
    /\ pc[Closer] = "clients" /\ my[Closer].stale # <<>>
    /\ loop' = [l \in Loops |-> [loop[l] EXCEPT !.state = "stopping"]]
    /\ my' = [my EXCEPT ![Closer].client = Head(my[Closer].stale),
                        ![Closer].stale = Tail(@), ![Closer].back = "clients"]
    /\ Goto(Closer, "stop")
    /\ UNCHANGED <<script, crashed, calls, poolVars, clients>>

\* Uncount and stop each pooled client while its loop runs.
ShutdownClient ==
    LET c == Head(my[Closer].stale)
    IN /\ pc[Closer] = "clients" /\ my[Closer].stale # <<>>
       /\ Count(clients[c].loop, -1)
       /\ my' = [my EXCEPT ![Closer].client = c, ![Closer].stale = Tail(@),
                           ![Closer].back = "clients"]
       /\ Goto(Closer, "stop")
       /\ UNCHANGED <<script, crashed, calls, poolVars, clients>>

\* IOThread::join stops the loop and waits for its thread to leave.
StopLoop(l) ==
    /\ loop[l].state = "looping"
    /\ loop' = [loop EXCEPT ![l].state = "stopping"]

\* IOThreadGroup::join: one thread after the other.
ShutdownJoin ==
    /\ pc[Closer] = "clients" /\ my[Closer].stale = <<>>
    /\ LET left == {i \in DOMAIN Group : loop[Group[i]].state # "gone"}
       IN left # {} /\ StopLoop(Group[Min(left)])
    /\ UNCHANGED <<script, crashed, calls, poolVars, clients, pc, my>>

ShutdownEnd ==
    /\ pc[Closer] = "clients" /\ my[Closer].stale = <<>>
    /\ \A l \in Loops : loop[l].state = "gone"
    /\ m_clients' = [a \in Addrs |-> <<>>]
    /\ m_rr_counters' = [a \in Addrs |-> 0]
    /\ Goto(Closer, "closed")
    /\ UNCHANGED <<script, crashed, calls, m_shutdown, clients, loop, my>>

-----------------------------------------------------------------------------
\* A caller begins its next acquire of an address.
Acquire(p) ==
    /\ pc[p] = "idle" /\ calls[p] # <<>> /\ Head(calls[p]) \in Addrs
    /\ Home[p] # None => LoopFree(Home[p])
    /\ calls' = [calls EXCEPT ![p] = Tail(@)]
    /\ my' = [my EXCEPT ![p] = [NoLocals EXCEPT !.addr = Head(calls[p])]]
    /\ Goto(p, "acquire")
    /\ UNCHANGED <<script, crashed, poolVars, clients, loop>>

AcquireStep(p) ==
    \/ AcquireRefused(p) \/ AcquirePooled(p) \/ AcquireMore(p) \/ AcquireEvicts(p)
    \/ EvictNext(p) \/ \E o \in {"now", "progress", "failed"} : Connect(p, o)
    \/ ConnectDone(p) \/ ConnectTimeout(p) \/ CountConnection(p) \/ Insert(p)
    \/ UncountConnection(p)

StopStep(t) == StopEnter(t) \/ StopQueue(t) \/ StopWait(t)

LoopStep(l) ==
    \/ RunTask(l) \/ LoopLeaves(l)
    \/ \E c \in ClientIds : clients[c].loop = l /\ (ConnectFinish(c) \/ HandleClose(c))

ShutdownStep == ShutdownBegin \/ ShutdownClient \/ ShutdownJoin \/ ShutdownEnd

PeerStep == \E c \in ClientIds, answer \in {"up", "refused", "closed"} : Peer(c, answer)

\* The pool with callers that give it addresses.
PoolNext ==
    /\ ~crashed
    /\ \/ \E p \in Callers : Acquire(p) \/ AcquireStep(p)
       \/ \E t \in Threads : StopStep(t) \/ UseAfterDestroy(t)
       \/ \E l \in Loops : LoopStep(l)
       \/ PeerStep \/ ShutdownStep

PoolSpec == PoolInit /\ [][PoolNext]_pVars

\* Threads keep running and waits time out.  Peers need not answer.
PoolFairness ==
    /\ \A p \in Callers : WF_pVars(~crashed /\ (AcquireStep(p) \/ StopStep(p)))
    /\ WF_pVars(~crashed /\ (StopStep(Closer) \/ ShutdownStep))
    /\ \A l \in Loops : WF_pVars(~crashed /\ LoopStep(l))

-----------------------------------------------------------------------------
(* Properties.                                                             *)

(* The connections a loop is charged with, by which pickLoop balances, are *)
(* those of the pool and those that callers are about to add or give back, *)
(* whoever evicted, lost the race for the last place or met the shutdown.  *)
Charged(l) ==
    {c \in ClientIds :
        /\ clients[c].loop = l
        /\ \/ ~m_shutdown /\ \E a \in Addrs : c \in Range(m_clients[a])
           \/ m_shutdown /\ c \in Range(my[Closer].stale)
           \/ \E p \in Callers : pc[p] \in {"insert", "uncount"} /\ my[p].client = c}
LoadExact == \A l \in Loops : loop[l].m_connection_count = Cardinality(Charged(l))

(* No connection is left behind: one that a poller still watches, or that  *)
(* a task is going to connect, belongs to the pool or to a thread that is  *)
(* going to pool it or to stop it (timeout, eviction, loser, shutdown).    *)
Cared(c) ==
    \/ \E a \in Addrs : c \in Range(m_clients[a])
    \/ \E t \in Threads :
          \/ c \in Range(my[t].stale)
          \/ my[t].client = c /\ pc[t] \notin {"idle", "acquire", "connect", "closed"}
NoStrayConnection ==
    \A c \in ClientIds :
        (clients[c].watch # "none" \/
         \E l \in Loops : \E i \in DOMAIN loop[l].tasks :
            loop[l].tasks[i].client = c /\ loop[l].tasks[i].kind # "destroy")
        => Cared(c)

(* Callers that shutdown met inside acquire, past the check of m_shutdown, *)
(* but for the callbacks of the loop that is joined first: the join waits  *)
(* for those.                                                              *)
Overtaken ==
    {p \in Callers :
        m_shutdown /\ Home[p] # Group[1] /\ pc[p] \notin {"idle", "discover", "pick", "acquire"}}

(* The EventLoop outlives its TcpClients, as shutdown's "First unregister  *)
(* every connection while its owning loop is alive" wants: when a loop is  *)
(* gone every client on it was stopped, and nobody is going to use it or   *)
(* waits for a task on it.  Only a caller overtaken by shutdown may have   *)
(* its client left without a loop.  The second check of m_shutdown in      *)
(* acquire, made for that caller, comes too late for it: it goes on to use *)
(* the loop that join has destroyed, or waits for ever.                    *)
LoopOutlivesClient ==
    \A l \in Loops : loop[l].state = "gone" =>
        /\ \A c \in ClientIds : clients[c].loop = l /\ ~clients[c].m_stopped =>
              \E p \in Overtaken : my[p].client = c \/ c \in Range(my[p].stale)
        /\ \A t \in Threads :
              \/ pc[t] = "connect" /\ my[t].loop = l
              \/ pc[t] \in {"stopQueue", "stopWait"} /\ clients[my[t].client].loop = l
              => t \in Overtaken

(* Every acquire returns, with peers that never answer and with callbacks  *)
(* that acquire on their loop, and then shutdown does, unless it overtakes *)
(* a caller.                                                               *)
PoolSettles ==
    \/ <>[](pc[Closer] = "closed" /\ \A p \in Callers : pc[p] = "idle")
    \/ <>(Overtaken # {})
=============================================================================
