------------------------------ MODULE WriteQueue ------------------------------
(***************************************************************************)
(* The cross-thread send path of one TcpConnection: the lock-free MpscQueue*)
(* (mpsc_queue.h), the m_write_queued flag that lets only the first sender *)
(* of a burst schedule a drain, and drainWriteQueue on the loop thread.    *)
(*                                                                         *)
(* One step per access to shared memory.  The memory is sequentially       *)
(* consistent except for one store: m_write_queued.store(false, release)   *)
(* in drainWriteQueue is followed by an acquire load of another location,  *)
(* and x86-64 (plain mov, store buffer) may run the load first.  The       *)
(* variable storeBuffered selects that build; FALSE is AArch64, where      *)
(* stlr/ldar keep the order.  Locked instructions empty the buffer.        *)
(***************************************************************************)
EXTENDS Naturals, Sequences, FiniteSets

CONSTANTS Producers,     \* sending threads, none of them the loop's
          MaxSends,      \* bound: messages sent by all producers together
          DrainRounds,   \* rounds of drainWriteQueue (3 in the code)
          BatchMax,      \* pops per round (256 in the code)
          Builds         \* subset of BOOLEAN: values of storeBuffered
ASSUME BoundsAssumption == /\ MaxSends \in Nat
                           /\ DrainRounds \in Nat \ {0}
                           /\ BatchMax \in Nat \ {0}
ASSUME BuildsAssumption == Builds \subseteq BOOLEAN

Node == Producers \X (1..MaxSends)    \* <<p, n>> carries p's n-th message
Stub == <<"stub", 0>>
Null == <<"null", 0>>

VARIABLES
    next, tail,         \* MpscNode::next of every node, MpscQueue::tail_
    head,               \* MpscQueue::head_, owned by the consumer
    m_write_queued,     \* the flag as other threads see it
    buffered,           \* its store of FALSE waits in the consumer's buffer
    drainTasks,         \* drainWriteQueue tasks in the event loop's queue
    m_state,            \* TcpState, as far as this path distinguishes it
    sendPc, sent, prev, \* per producer: step of send(), sends begun, push()'s prev
    drainPc, round, count, messages, stubPrev,   \* locals of drainWriteQueue and pop
    storeBuffered,
    order,              \* history: nodes in the order of their tail exchange
    freed,              \* nodes returned to the MpscNodePool
    out                 \* messages encoded into m_out_buffer

queueVars == <<next, tail, head>>
prodVars == <<sendPc, sent, prev>>
drainVars == <<drainPc, round, count, messages, stubPrev>>
vars == <<queueVars, m_write_queued, buffered, drainTasks, m_state, prodVars,
          drainVars, storeBuffered, order, freed, out>>

DrainPc == {"idle", "pop", "popNext", "popTail", "stubXchg", "stubLink",
            "popLast", "flush", "clear", "recheck", "rearm", "requeue"}

TypeOK ==
    /\ next \in [Node \cup {Stub} -> Node \cup {Stub, Null}]
    /\ tail \in Node \cup {Stub} /\ head \in Node \cup {Stub}
    /\ m_write_queued \in BOOLEAN /\ buffered \in BOOLEAN
    /\ drainTasks \in 0..1
    /\ m_state \in {"Connected", "Closed"}
    /\ sendPc \in [Producers -> {"idle", "xchg", "link", "arm", "queue"}]
    /\ sent \in [Producers -> 0..MaxSends]
    /\ prev \in [Producers -> Node \cup {Stub}]
    /\ drainPc \in DrainPc
    /\ round \in 0..DrainRounds /\ count \in 0..BatchMax
    /\ messages \in Seq(Node)
    /\ stubPrev \in Node \cup {Stub}
    /\ storeBuffered \in BOOLEAN
    /\ order \in Seq(Node) /\ freed \subseteq Node /\ out \in Seq(Node)

Init ==
    /\ next = [x \in Node \cup {Stub} |-> Null]
    /\ tail = Stub /\ head = Stub
    /\ m_write_queued = FALSE /\ buffered = FALSE
    /\ drainTasks = 0
    /\ m_state = "Connected"
    /\ sendPc = [p \in Producers |-> "idle"]
    /\ sent = [p \in Producers |-> 0]
    /\ prev = [p \in Producers |-> Stub]
    /\ drainPc = "idle" /\ round = 0 /\ count = 0
    /\ messages = <<>> /\ stubPrev = Stub
    /\ storeBuffered \in Builds
    /\ order = <<>> /\ freed = {} /\ out = <<>>

-----------------------------------------------------------------------------
(* TcpConnection::send on a foreign thread.                                *)

\* Messages handed to send() so far.
Begun == {x \in Node : x[2] <= sent[x[1]]}

\* MpscNodePool::alloc: a node constructed in memory from the thread's free
\* list or from the heap, with no successor.  A node's name is never reused.
Alloc(x) == next' = [next EXCEPT ![x] = Null]

\* MpscNodePool::free: the node is destroyed, and its memory goes to the
\* consumer thread's free list or to the heap; nobody may touch it again.
Free(x) == freed' = freed \cup {x}

\* A closed connection rejects the message; otherwise allocate a node.
Send(p) ==
    /\ sendPc[p] = "idle" /\ sent[p] < MaxSends /\ Cardinality(Begun) < MaxSends
    /\ m_state = "Connected"
    /\ sent' = [sent EXCEPT ![p] = @ + 1]
    /\ Alloc(<<p, sent[p] + 1>>)
    /\ sendPc' = [sendPc EXCEPT ![p] = "xchg"]
    /\ UNCHANGED <<tail, head, m_write_queued, buffered, drainTasks, m_state,
                   prev, drainVars, storeBuffered, order, freed, out>>

Mine(p) == <<p, sent[p]>>

\* push(): prev = tail_.exchange(node)
PushXchg(p) ==
    /\ sendPc[p] = "xchg"
    /\ prev' = [prev EXCEPT ![p] = tail]
    /\ tail' = Mine(p)
    /\ order' = Append(order, Mine(p))
    /\ sendPc' = [sendPc EXCEPT ![p] = "link"]
    /\ UNCHANGED <<next, head, m_write_queued, buffered, drainTasks, m_state,
                   sent, drainVars, storeBuffered, freed, out>>

\* push(): prev->next = node
PushLink(p) ==
    /\ sendPc[p] = "link"
    /\ next' = [next EXCEPT ![prev[p]] = Mine(p)]
    /\ sendPc' = [sendPc EXCEPT ![p] = "arm"]
    /\ UNCHANGED <<tail, head, m_write_queued, buffered, drainTasks, m_state,
                   sent, prev, drainVars, storeBuffered, order, freed, out>>

\* compare_exchange_strong(false, true): the winner schedules the drain.
Arm(p) ==
    /\ sendPc[p] = "arm"
    /\ m_write_queued' = TRUE
    /\ sendPc' = [sendPc EXCEPT ![p] = IF m_write_queued THEN "idle" ELSE "queue"]
    /\ UNCHANGED <<queueVars, buffered, drainTasks, m_state, sent, prev,
                   drainVars, storeBuffered, order, freed, out>>

QueueDrain(p) ==
    /\ sendPc[p] = "queue"
    /\ drainTasks' = drainTasks + 1
    /\ sendPc' = [sendPc EXCEPT ![p] = "idle"]
    /\ UNCHANGED <<queueVars, m_write_queued, buffered, m_state, sent, prev,
                   drainVars, storeBuffered, order, freed, out>>

-----------------------------------------------------------------------------
(* drainWriteQueue on the loop thread.                                     *)

\* The loop locks its task mutex before it runs a task: the buffer is empty.
StartDrain ==
    /\ drainPc = "idle" /\ drainTasks > 0 /\ ~buffered
    /\ drainTasks' = drainTasks - 1
    /\ drainPc' = "pop" /\ round' = 0 /\ count' = 0 /\ messages' = <<>>
    /\ UNCHANGED <<queueVars, m_write_queued, buffered, m_state, prodVars,
                   stubPrev, storeBuffered, order, freed, out>>

\* Regression: the message that fills the batch is freed without being kept.
PoppedDropsLast(h) ==
    /\ head' = next[h]
    /\ messages' = IF m_state = "Connected" /\ count + 1 < BatchMax
                     THEN Append(messages, h) ELSE messages
    /\ Free(h)
    /\ count' = count + 1
    /\ drainPc' = IF count + 1 < BatchMax THEN "pop" ELSE "flush"

\* pop() returns the node h, now unlinked: keep its message while connected,
\* free the node, go on unless the batch is full.
Popped(h) ==
    /\ head' = next[h]
    /\ messages' = IF m_state = "Connected" THEN Append(messages, h) ELSE messages
    /\ Free(h)
    /\ count' = count + 1
    /\ drainPc' = IF count + 1 < BatchMax THEN "pop" ELSE "flush"

\* pop() returns nullptr: the round is over.
PoppedNothing ==
    /\ drainPc' = "flush"
    /\ UNCHANGED <<head, messages, freed, count>>

popUnchanged == <<m_write_queued, buffered, drainTasks, m_state, prodVars,
                  round, storeBuffered, order, out>>

\* pop(): the first load of head_->next.
PopHead ==
    /\ drainPc = "pop"
    /\ \/ head = Stub /\ next[Stub] = Null /\ PoppedNothing
       \/ /\ head = Stub /\ next[Stub] # Null
          /\ head' = next[Stub]
          /\ drainPc' = "popNext"
          /\ UNCHANGED <<messages, freed, count>>
       \/ head # Stub /\ next[head] # Null /\ Popped(head)
       \/ /\ head # Stub /\ next[head] = Null
          /\ drainPc' = "popTail"
          /\ UNCHANGED <<head, messages, freed, count>>
    /\ UNCHANGED <<next, tail, stubPrev, popUnchanged>>

\* pop(): the second load, after skipping the stub.
PopNext ==
    /\ drainPc = "popNext"
    /\ \/ next[head] # Null /\ Popped(head)
       \/ /\ next[head] = Null
          /\ drainPc' = "popTail"
          /\ UNCHANGED <<head, messages, freed, count>>
    /\ UNCHANGED <<next, tail, stubPrev, popUnchanged>>

\* Regression: pop hands out the last node although a push behind it is in flight.
PopTailTakesLast ==
    /\ drainPc = "popTail"
    /\ IF head # tail
         THEN Popped(head)
         ELSE drainPc' = "stubXchg" /\ UNCHANGED <<head, messages, freed, count>>
    /\ UNCHANGED <<next, tail, stubPrev, popUnchanged>>

\* pop(): another tail means that a producer is between its two stores.
PopTail ==
    /\ drainPc = "popTail"
    /\ IF head # tail
         THEN PoppedNothing
         ELSE drainPc' = "stubXchg" /\ UNCHANGED <<head, messages, freed, count>>
    /\ UNCHANGED <<next, tail, stubPrev, popUnchanged>>

\* push(&stub_): reset and exchange, then link.
StubXchg ==
    /\ drainPc = "stubXchg"
    /\ next' = [next EXCEPT ![Stub] = Null]
    /\ stubPrev' = tail
    /\ tail' = Stub
    /\ drainPc' = "stubLink"
    /\ UNCHANGED <<head, messages, freed, count, popUnchanged>>

StubLink ==
    /\ drainPc = "stubLink"
    /\ next' = [next EXCEPT ![stubPrev] = Stub]
    /\ drainPc' = "popLast"
    /\ UNCHANGED <<tail, head, messages, freed, count, stubPrev, popUnchanged>>

\* pop(): the last load of next.
PopLast ==
    /\ drainPc = "popLast"
    /\ IF next[head] # Null THEN Popped(head) ELSE PoppedNothing
    /\ UNCHANGED <<next, tail, stubPrev, popUnchanged>>

\* sendInLoopBatch at the end of a round: encode what was collected; a failed
\* encode closes the connection.
FlushBatch ==
    /\ drainPc = "flush"
    /\ \/ /\ out' = IF m_state = "Connected" THEN out \o messages ELSE out
          /\ UNCHANGED m_state
       \/ /\ messages # <<>> /\ m_state = "Connected"
          /\ m_state' = "Closed"
          /\ UNCHANGED out
    /\ messages' = <<>>
    /\ count' = 0
    /\ round' = round + 1
    /\ drainPc' = IF round + 1 < DrainRounds THEN "pop" ELSE "clear"
    /\ UNCHANGED <<queueVars, m_write_queued, buffered, drainTasks, prodVars,
                   stubPrev, storeBuffered, order, freed>>

\* m_write_queued.store(false, release): into the buffer on x86-64.
ClearQueued ==
    /\ drainPc = "clear"
    /\ IF storeBuffered
         THEN buffered' = TRUE /\ UNCHANGED m_write_queued
         ELSE m_write_queued' = FALSE /\ UNCHANGED buffered
    /\ drainPc' = "recheck"
    /\ UNCHANGED <<queueVars, drainTasks, m_state, prodVars, round, count,
                   messages, stubPrev, storeBuffered, order, freed, out>>

\* The buffered store reaches memory.
StoreLands ==
    /\ buffered
    /\ buffered' = FALSE /\ m_write_queued' = FALSE
    /\ UNCHANGED <<queueVars, drainTasks, m_state, prodVars, drainVars,
                   storeBuffered, order, freed, out>>

\* MpscQueue::empty
Empty == head = Stub /\ next[Stub] = Null

\* Regression: the drain ends without looking at the queue again.
RecheckSkipped ==
    /\ drainPc = "recheck"
    /\ drainPc' = "idle"
    /\ UNCHANGED <<queueVars, m_write_queued, buffered, drainTasks, m_state,
                   prodVars, round, count, messages, stubPrev, storeBuffered,
                   order, freed, out>>

RecheckEmpty ==
    /\ drainPc = "recheck"
    /\ drainPc' = IF Empty THEN "idle" ELSE "rearm"
    /\ UNCHANGED <<queueVars, m_write_queued, buffered, drainTasks, m_state,
                   prodVars, round, count, messages, stubPrev, storeBuffered,
                   order, freed, out>>

\* compare_exchange_strong empties the buffer before it reads the flag.
Rearm ==
    /\ drainPc = "rearm" /\ ~buffered
    /\ m_write_queued' = TRUE
    /\ drainPc' = IF m_write_queued THEN "idle" ELSE "requeue"
    /\ UNCHANGED <<queueVars, buffered, drainTasks, m_state, prodVars, round,
                   count, messages, stubPrev, storeBuffered, order, freed, out>>

\* Regression: the flag is taken but the task is not queued.
RequeueForgotten ==
    /\ drainPc = "requeue"
    /\ drainPc' = "idle"
    /\ UNCHANGED <<queueVars, m_write_queued, buffered, drainTasks, m_state,
                   prodVars, round, count, messages, stubPrev, storeBuffered,
                   order, freed, out>>

Requeue ==
    /\ drainPc = "requeue"
    /\ drainTasks' = drainTasks + 1
    /\ drainPc' = "idle"
    /\ UNCHANGED <<queueVars, m_write_queued, buffered, m_state, prodVars,
                   round, count, messages, stubPrev, storeBuffered, order, freed, out>>

\* The loop thread closes the connection between two tasks (peer closed, error).
Close ==
    /\ drainPc = "idle" /\ m_state = "Connected"
    /\ m_state' = "Closed"
    /\ UNCHANGED <<queueVars, m_write_queued, buffered, drainTasks, prodVars,
                   drainVars, storeBuffered, order, freed, out>>

SendStep(p) == PushXchg(p) \/ PushLink(p) \/ Arm(p) \/ QueueDrain(p)

DrainStep ==
    \/ StartDrain \/ PopHead \/ PopNext \/ PopTail \/ StubXchg \/ StubLink \/ PopLast
    \/ FlushBatch \/ ClearQueued \/ RecheckEmpty \/ Rearm \/ Requeue

Next ==
    \/ \E p \in Producers : Send(p) \/ SendStep(p)
    \/ DrainStep
    \/ StoreLands
    \/ Close

(* Fairness: a thread inside send() and the loop thread keep running; a    *)
(* store buffer drains.  Nobody has to send or to close.                   *)
Fairness ==
    /\ \A p \in Producers : WF_vars(SendStep(p))
    /\ WF_vars(DrainStep)
    /\ WF_vars(StoreLands)

Spec == Init /\ [][Next]_vars /\ Fairness

-----------------------------------------------------------------------------
(* Properties.                                                             *)

\* Threads and tasks that owe the queue a drain.
Draining == drainPc \notin {"idle", "recheck", "rearm"}
Owners == Cardinality({p \in Producers : sendPc[p] = "queue"})
          + drainTasks + (IF Draining THEN 1 ELSE 0)

(* The flag is exact: once the consumer's own store has landed,            *)
(* m_write_queued is TRUE exactly when one drain is being scheduled, is    *)
(* queued or is running.  Never stuck at TRUE (a deaf connection), and     *)
(* never two drains.                                                       *)
FlagExact == Owners = IF m_write_queued /\ ~buffered THEN 1 ELSE 0

(* pop never frees a node that a producer between its two stores is about  *)
(* to write to, nor one that the queue still uses as its head.             *)
NoUseAfterFree ==
    /\ \A p \in Producers : sendPc[p] = "link" => prev[p] \notin freed
    /\ head \notin freed
    /\ drainPc = "stubLink" => stubPrev \notin freed

(* FIFO: nodes leave in the order of their tail exchange, none twice and   *)
(* none skipped, and while the connection is up every message taken out is *)
(* encoded or about to be.                                                 *)
QueueOrder ==
    LET taken == SubSeq(order, 1, Cardinality(freed))
    IN /\ freed = {taken[i] : i \in 1..Len(taken)}
       /\ m_state = "Connected" => out \o messages = taken

\* A message is in the queue while no thread is responsible for it any more.
Stranded ==
    /\ Cardinality(freed) < Len(order)
    /\ \A p \in Producers : sendPc[p] = "idle"
    /\ drainPc = "idle" /\ drainTasks = 0 /\ ~buffered

(* "Only the first message in a batch schedules a drain callback;          *)
(* subsequent messages are picked up by the same drain": no message stays  *)
(* behind when all senders have returned and no drain is left.             *)
NothingStranded == ~Stranded

(* Every message that entered the queue is taken out of it, where the      *)
(* store is not delayed.                                                   *)
AllDrained ==
    \A p \in Producers : \A n \in 1..MaxSends :
        (~storeBuffered /\ sent[p] >= n) ~> <<p, n>> \in freed
=============================================================================
