--------------------------- MODULE WriteQueueProofs ---------------------------
(***************************************************************************)
(* Proofs about WriteQueue for any number of producers, messages, drain    *)
(* rounds and batch sizes, and for both builds.                            *)
(*                                                                         *)
(* The inductive invariant has two parts that do not need each other.      *)
(*  - Flag: of the producers that are to queue a drain, the queued drains  *)
(*    and the drain that runs there is one, or none when the flag is down; *)
(*    a buffered store leaves the flag up, so nobody else takes it.        *)
(*  - Chain(n, k): n nodes are freed; the list from head to tail is the    *)
(*    nodes order[n + 1], ..., with the stub behind order[k] (in front of  *)
(*    all when k = n, nowhere when k = Out).  A link is missing exactly    *)
(*    while its producer is between its two stores, and head never gets    *)
(*    past a missing link, so that such a producer's prev is still in the  *)
(*    list.                                                                *)
(***************************************************************************)
EXTENDS WriteQueue, FiniteSetTheorems, SequenceTheorems, TLAPS

Out == 0 - 1

Collecting == {"pop", "popNext", "popTail", "stubXchg", "stubLink", "popLast"}

Types ==
    /\ TypeOK
    /\ drainPc \in Collecting => count < BatchMax
    /\ drainPc \in Collecting \cup {"flush"} => round < DrainRounds
    /\ drainPc \notin Collecting \cup {"flush"} => messages = <<>>

Flag ==
    /\ buffered => m_write_queued
    /\ \A p, q \in Producers : sendPc[p] = "queue" /\ sendPc[q] = "queue" => p = q
    /\ \A p \in Producers : sendPc[p] = "queue" => drainTasks = 0 /\ ~Draining
    /\ drainTasks = 1 => ~Draining
    /\ (m_write_queued /\ ~buffered) <=>
          \/ \E p \in Producers : sendPc[p] = "queue"
          \/ drainTasks = 1
          \/ Draining

Senders ==
    /\ \A p \in Producers : sendPc[p] \in {"xchg", "link"} => sent[p] > 0
    /\ \A p \in Producers : sendPc[p] = "xchg" =>
          next[Mine(p)] = Null /\ \A i \in 1..Len(order) : order[i] # Mine(p)
    /\ \A i \in 1..Len(order) : order[i][2] <= sent[order[i][1]]
    /\ \A i, j \in 1..Len(order) : order[i] = order[j] => i = j

\* The producer of order[i] has still to link it.
Unlinked(i) == \E p \in Producers : sendPc[p] = "link" /\ Mine(p) = order[i]

\* What was the tail when order[i] was exchanged in, if the list has it.
Before(i, k) == IF k = i - 1 THEN Stub ELSE order[i - 1]

Ends(n, k) ==
    /\ n \in 0..Len(order)
    /\ k \in n..Len(order) \/ (k = Out /\ n < Len(order))
    /\ head = IF k = n THEN Stub ELSE order[n + 1]
    /\ tail = IF k = Len(order) THEN Stub ELSE order[Len(order)]
    /\ next[tail] = Null

Links(n, k) ==
    /\ \A i \in (n + 1)..(Len(order) - 1) : k # i =>
          next[order[i]] = IF Unlinked(i + 1) THEN Null ELSE order[i + 1]
    /\ k \in n..(Len(order) - 1) =>
          next[Stub] = IF Unlinked(k + 1) THEN Null ELSE order[k + 1]
    /\ k > n => next[order[k]] = IF drainPc = "stubLink" THEN Null ELSE Stub

Pushers(n, k) ==
    \A p \in Producers : sendPc[p] = "link" =>
        \E i \in (n + 1)..Len(order) :
            Mine(p) = order[i] /\ prev[p] = Before(i, k) /\ (i = n + 1 => k = n)

Drainer(n, k) ==
    /\ drainPc \in {"popNext", "popTail"} => k # n
    /\ drainPc = "stubXchg" => k = Out
    /\ drainPc = "stubLink" => k > n /\ stubPrev = order[k]
    /\ drainPc = "popLast" => k > n

Freed(n) ==
    /\ freed = {order[i] : i \in 1..n}
    /\ IsFiniteSet(freed) /\ Cardinality(freed) = n

Encoded(n) ==
    m_state = "Connected" =>
        /\ Len(out) + Len(messages) = n
        /\ \A i \in 1..Len(out) : out[i] = order[i]
        /\ \A i \in 1..Len(messages) : messages[i] = order[Len(out) + i]

Chain(n, k) == Ends(n, k) /\ Links(n, k) /\ Pushers(n, k) /\ Drainer(n, k)

Queue == \E n \in 0..Len(order) : \E k \in Out..Len(order) :
            Chain(n, k) /\ Freed(n) /\ Encoded(n)

IInv == Types /\ Flag /\ Senders /\ Queue

-----------------------------------------------------------------------------
(* The nodes are pairs, and neither the stub nor null is one of them.      *)
LEMMA NodeFacts ==
  /\ Stub \notin Node /\ Null \notin Node /\ Stub # Null
  /\ \A p \in Producers, i \in 1..MaxSends :
        <<p, i>> \in Node /\ <<p, i>>[1] = p /\ <<p, i>>[2] = i
  /\ \A x \in Node : x[1] \in Producers /\ x[2] \in 1..MaxSends /\ x = <<x[1], x[2]>>
  BY BoundsAssumption DEF Node, Stub, Null

(* A step outside push() and pop() leaves the list and what is known about *)
(* it as they are.                                                         *)
LEMMA ListSame ==
  ASSUME IInv,
         UNCHANGED <<next, tail, head, sent, prev, stubPrev, order, freed>>,
         \A p \in Producers : sendPc'[p] = sendPc[p] \/ sendPc'[p] \notin {"xchg", "link"},
         \A p \in Producers : sendPc[p] = "link" => sendPc'[p] = "link",
         drainPc' = drainPc \/ (drainPc # "stubLink" /\
                                drainPc' \in {"idle", "pop", "flush", "clear", "recheck",
                                              "rearm", "requeue"})
  PROVE  /\ Senders'
         /\ \A n \in 0..Len(order) : \A k \in Out..Len(order) :
               Chain(n, k) /\ Freed(n) => Chain(n, k)' /\ Freed(n)'
<1>1. Senders'
  BY DEF IInv, Senders, Mine
<1>2. SUFFICES ASSUME NEW n \in 0..Len(order), NEW k \in Out..Len(order), Chain(n, k), Freed(n)
               PROVE  Chain(n, k)' /\ Freed(n)'
  BY <1>1
<1>3. \A i \in 1..Len(order) : Unlinked(i)' <=> Unlinked(i)
  BY DEF Unlinked, Mine
<1>4. Ends(n, k)'
  BY <1>2 DEF Chain, Ends
<1>5. Links(n, k)'
  <2>1. n \in Nat /\ Len(order) \in Nat /\ k \in Int
    BY LenProperties DEF IInv, Types, TypeOK, Out
  <2> QED BY <1>2, <1>3, <2>1 DEF Chain, Links
<1>6. Pushers(n, k)'
  BY <1>2 DEF Chain, Pushers, Before, Mine
<1>7. Drainer(n, k)' /\ Freed(n)'
  BY <1>2 DEF Chain, Drainer, Freed
<1> QED BY <1>4, <1>5, <1>6, <1>7 DEF Chain

LEMMA QueueSame ==
  ASSUME IInv,
         UNCHANGED <<next, tail, head, sent, prev, stubPrev, order, freed, out>>,
         \A p \in Producers : sendPc'[p] = sendPc[p] \/ sendPc'[p] \notin {"xchg", "link"},
         \A p \in Producers : sendPc[p] = "link" => sendPc'[p] = "link",
         drainPc' = drainPc \/ (drainPc # "stubLink" /\
                                drainPc' \in {"idle", "pop", "flush", "clear", "recheck",
                                              "rearm", "requeue"}),
         m_state' = "Connected" => m_state = "Connected" /\ messages' = messages
  PROVE  Senders' /\ Queue'
<1>1. PICK n \in 0..Len(order), k \in Out..Len(order) : Chain(n, k) /\ Freed(n) /\ Encoded(n)
  BY DEF IInv, Queue
<1>2. Senders' /\ Chain(n, k)' /\ Freed(n)'
  BY <1>1, ListSame
<1>3. Encoded(n)'
  BY <1>1 DEF Encoded
<1> QED BY <1>2, <1>3 DEF Queue

-----------------------------------------------------------------------------
(* The steps of the flag and of the event loop's task queue.               *)

LEMMA ArmInv == ASSUME IInv, NEW p \in Producers, Arm(p) PROVE IInv'
<1>1. TypeOK /\ sendPc[p] = "arm" /\ m_write_queued' = TRUE
  BY DEF IInv, Types, Arm
<1>2. /\ sendPc' \in [Producers -> {"idle", "xchg", "link", "arm", "queue"}]
      /\ sendPc'[p] = IF m_write_queued THEN "idle" ELSE "queue"
      /\ \A q \in Producers : q # p => sendPc'[q] = sendPc[q]
  BY DEF Arm, IInv, Types, TypeOK
<1>3. UNCHANGED <<queueVars, buffered, drainTasks, m_state, sent, prev,
                  drainVars, storeBuffered, order, freed, out>>
  BY DEF Arm
<1>4. Types'
  BY <1>1, <1>2, <1>3 DEF IInv, Types, TypeOK, queueVars, drainVars
<1>5. Flag'
  <2>1. UNCHANGED <<buffered, drainTasks, drainPc>>
    BY <1>3 DEF drainVars
  <2>2. drainTasks \in 0..1 /\ buffered \in BOOLEAN /\ m_write_queued \in BOOLEAN
    BY <1>1 DEF TypeOK
  <2> QED BY <1>1, <1>2, <2>1, <2>2 DEF IInv, Flag, Draining
<1>6. Senders' /\ Queue'
  <2>1. UNCHANGED <<next, tail, head, sent, prev, stubPrev, order, freed, out, drainPc,
                    m_state, messages>>
    BY <1>3 DEF queueVars, drainVars
  <2> QED BY <1>1, <1>2, <2>1, QueueSame
<1> QED BY <1>4, <1>5, <1>6 DEF IInv

LEMMA QueueDrainInv == ASSUME IInv, NEW p \in Producers, QueueDrain(p) PROVE IInv'
<1>1. TypeOK /\ sendPc[p] = "queue" /\ drainTasks = 0 /\ drainTasks' = 1
  BY DEF IInv, Types, QueueDrain, Flag
<1>2. /\ sendPc' \in [Producers -> {"idle", "xchg", "link", "arm", "queue"}]
      /\ sendPc'[p] = "idle"
      /\ \A q \in Producers : q # p => sendPc'[q] = sendPc[q]
  BY DEF QueueDrain, IInv, Types, TypeOK
<1>3. UNCHANGED <<queueVars, m_write_queued, buffered, m_state, sent, prev,
                  drainVars, storeBuffered, order, freed, out>>
  BY DEF QueueDrain
<1>4. Types'
  BY <1>1, <1>2, <1>3 DEF IInv, Types, TypeOK, queueVars, drainVars
<1>5. Flag'
  <2>1. UNCHANGED <<buffered, m_write_queued, drainPc>>
    BY <1>3 DEF drainVars
  <2> QED BY <1>1, <1>2, <2>1 DEF IInv, Flag, Draining
<1>6. Senders' /\ Queue'
  <2>1. UNCHANGED <<next, tail, head, sent, prev, stubPrev, order, freed, out, drainPc,
                    m_state, messages>>
    BY <1>3 DEF queueVars, drainVars
  <2> QED BY <1>1, <1>2, <2>1, QueueSame
<1> QED BY <1>4, <1>5, <1>6 DEF IInv

LEMMA StartDrainInv == ASSUME IInv, StartDrain PROVE IInv'
<1>1. /\ TypeOK /\ drainPc = "idle" /\ drainTasks = 1 /\ drainTasks' = 0 /\ ~buffered
      /\ drainPc' = "pop" /\ round' = 0 /\ count' = 0 /\ messages' = <<>> /\ messages = <<>>
  BY DEF IInv, Types, TypeOK, StartDrain, Collecting
<1>2. UNCHANGED <<queueVars, m_write_queued, buffered, m_state, prodVars,
                  stubPrev, storeBuffered, order, freed, out>>
  BY DEF StartDrain
<1>3. Types'
  BY <1>1, <1>2, BoundsAssumption
     DEF IInv, Types, TypeOK, queueVars, prodVars, Collecting, DrainPc
<1>4. Flag'
  <2>1. UNCHANGED <<buffered, m_write_queued, sendPc>>
    BY <1>2 DEF prodVars
  <2> QED BY <1>1, <2>1 DEF IInv, Flag, Draining
<1>5. Senders' /\ Queue'
  <2>1. UNCHANGED <<next, tail, head, sent, prev, stubPrev, order, freed, out, m_state, sendPc>>
    BY <1>2 DEF queueVars, prodVars
  <2> QED BY <1>1, <2>1, QueueSame
<1> QED BY <1>3, <1>4, <1>5 DEF IInv

LEMMA ClearQueuedInv == ASSUME IInv, ClearQueued PROVE IInv'
<1>1. TypeOK /\ drainPc = "clear" /\ drainPc' = "recheck"
  BY DEF IInv, Types, ClearQueued
<1>2. UNCHANGED <<queueVars, drainTasks, m_state, prodVars, round, count,
                  messages, stubPrev, storeBuffered, order, freed, out>>
  BY DEF ClearQueued
<1>3. m_write_queued = TRUE /\ buffered = FALSE
  BY <1>1 DEF IInv, Flag, Draining, TypeOK
<1>4. \/ buffered' = TRUE /\ m_write_queued' = TRUE
      \/ buffered' = FALSE /\ m_write_queued' = FALSE
  BY <1>3 DEF ClearQueued
<1>5. Types'
  BY <1>1, <1>2, <1>4 DEF IInv, Types, TypeOK, queueVars, prodVars, Collecting, DrainPc
<1>6. Flag'
  <2>1. UNCHANGED <<drainTasks, sendPc>>
    BY <1>2 DEF prodVars
  <2> QED BY <1>1, <1>3, <1>4, <2>1 DEF IInv, Flag, Draining
<1>7. Senders' /\ Queue'
  <2>1. UNCHANGED <<next, tail, head, sent, prev, stubPrev, order, freed, out, m_state, sendPc,
                    messages>>
    BY <1>2 DEF queueVars, prodVars
  <2> QED BY <1>1, <2>1, QueueSame
<1> QED BY <1>5, <1>6, <1>7 DEF IInv

LEMMA StoreLandsInv == ASSUME IInv, StoreLands PROVE IInv'
<1>1. TypeOK /\ buffered = TRUE /\ buffered' = FALSE /\ m_write_queued' = FALSE
  BY DEF IInv, Types, TypeOK, StoreLands
<1>2. UNCHANGED <<queueVars, drainTasks, m_state, prodVars, drainVars,
                  storeBuffered, order, freed, out>>
  BY DEF StoreLands
<1>3. Types'
  BY <1>1, <1>2 DEF IInv, Types, TypeOK, queueVars, prodVars, drainVars
<1>4. Flag'
  <2>1. UNCHANGED <<drainTasks, sendPc, drainPc>>
    BY <1>2 DEF prodVars, drainVars
  <2> QED BY <1>1, <2>1 DEF IInv, Flag, Draining
<1>5. Senders' /\ Queue'
  <2>1. UNCHANGED <<next, tail, head, sent, prev, stubPrev, order, freed, out, m_state, sendPc,
                    messages, drainPc>>
    BY <1>2 DEF queueVars, prodVars, drainVars
  <2> QED BY <2>1, QueueSame
<1> QED BY <1>3, <1>4, <1>5 DEF IInv

LEMMA RecheckEmptyInv == ASSUME IInv, RecheckEmpty PROVE IInv'
<1>1. TypeOK /\ drainPc = "recheck" /\ drainPc' \in {"idle", "rearm"}
  BY DEF IInv, Types, RecheckEmpty
<1>2. UNCHANGED <<queueVars, m_write_queued, buffered, drainTasks, m_state,
                  prodVars, round, count, messages, stubPrev, storeBuffered,
                  order, freed, out>>
  BY DEF RecheckEmpty
<1>3. Types'
  BY <1>1, <1>2 DEF IInv, Types, TypeOK, queueVars, prodVars, Collecting, DrainPc
<1>4. Flag'
  <2>1. UNCHANGED <<drainTasks, sendPc, m_write_queued, buffered>>
    BY <1>2 DEF prodVars
  <2> QED BY <1>1, <2>1 DEF IInv, Flag, Draining
<1>5. Senders' /\ Queue'
  <2>1. UNCHANGED <<next, tail, head, sent, prev, stubPrev, order, freed, out, m_state, sendPc,
                    messages>>
    BY <1>2 DEF queueVars, prodVars
  <2> QED BY <1>1, <2>1, QueueSame
<1> QED BY <1>3, <1>4, <1>5 DEF IInv

LEMMA RearmInv == ASSUME IInv, Rearm PROVE IInv'
<1>1. /\ TypeOK /\ drainPc = "rearm" /\ buffered = FALSE /\ m_write_queued' = TRUE
      /\ drainPc' = IF m_write_queued THEN "idle" ELSE "requeue"
  BY DEF IInv, Types, TypeOK, Rearm
<1>2. UNCHANGED <<queueVars, buffered, drainTasks, m_state, prodVars, round,
                  count, messages, stubPrev, storeBuffered, order, freed, out>>
  BY DEF Rearm
<1>3. Types'
  BY <1>1, <1>2 DEF IInv, Types, TypeOK, queueVars, prodVars, Collecting, DrainPc
<1>4. Flag'
  <2>1. UNCHANGED <<drainTasks, sendPc, buffered>> /\ drainTasks \in 0..1
        /\ m_write_queued \in BOOLEAN
    BY <1>1, <1>2 DEF prodVars, TypeOK
  <2>2. CASE m_write_queued
    BY <1>1, <2>1, <2>2 DEF IInv, Flag, Draining
  <2>3. CASE ~m_write_queued
    BY <1>1, <2>1, <2>3 DEF IInv, Flag, Draining
  <2> QED BY <2>2, <2>3
<1>5. Senders' /\ Queue'
  <2>1. UNCHANGED <<next, tail, head, sent, prev, stubPrev, order, freed, out, m_state, sendPc,
                    messages>>
    BY <1>2 DEF queueVars, prodVars
  <2> QED BY <1>1, <2>1, QueueSame
<1> QED BY <1>3, <1>4, <1>5 DEF IInv

LEMMA RequeueInv == ASSUME IInv, Requeue PROVE IInv'
<1>1. TypeOK /\ drainPc = "requeue" /\ drainPc' = "idle" /\ drainTasks = 0 /\ drainTasks' = 1
  BY DEF IInv, Types, TypeOK, Requeue, Flag, Draining
<1>2. UNCHANGED <<queueVars, m_write_queued, buffered, m_state, prodVars,
                  round, count, messages, stubPrev, storeBuffered, order, freed, out>>
  BY DEF Requeue
<1>3. Types'
  BY <1>1, <1>2 DEF IInv, Types, TypeOK, queueVars, prodVars, Collecting, DrainPc
<1>4. Flag'
  <2>1. UNCHANGED <<m_write_queued, sendPc, buffered>>
    BY <1>2 DEF prodVars
  <2> QED BY <1>1, <2>1 DEF IInv, Flag, Draining
<1>5. Senders' /\ Queue'
  <2>1. UNCHANGED <<next, tail, head, sent, prev, stubPrev, order, freed, out, m_state, sendPc,
                    messages>>
    BY <1>2 DEF queueVars, prodVars
  <2> QED BY <1>1, <2>1, QueueSame
<1> QED BY <1>3, <1>4, <1>5 DEF IInv

LEMMA CloseInv == ASSUME IInv, Close PROVE IInv'
<1>1. TypeOK /\ drainPc = "idle" /\ m_state' = "Closed"
  BY DEF IInv, Types, Close
<1>2. UNCHANGED <<queueVars, m_write_queued, buffered, drainTasks, prodVars,
                  drainVars, storeBuffered, order, freed, out>>
  BY DEF Close
<1>3. Types'
  BY <1>1, <1>2 DEF IInv, Types, TypeOK, queueVars, prodVars, drainVars
<1>4. Flag'
  BY <1>2 DEF IInv, Flag, Draining, prodVars, drainVars
<1>5. Senders' /\ Queue'
  <2>1. UNCHANGED <<next, tail, head, sent, prev, stubPrev, order, freed, out, sendPc, drainPc>>
    BY <1>2 DEF queueVars, prodVars, drainVars
  <2> QED BY <1>1, <2>1, QueueSame
<1> QED BY <1>3, <1>4, <1>5 DEF IInv

(* What a round has collected is encoded behind what was, or the           *)
(* connection is closed.                                                   *)
LEMMA FlushBatchInv == ASSUME IInv, FlushBatch PROVE IInv'
<1>1. /\ TypeOK /\ drainPc = "flush" /\ messages' = <<>> /\ count' = 0
      /\ round' = round + 1 /\ round < DrainRounds
      /\ drainPc' = IF round + 1 < DrainRounds THEN "pop" ELSE "clear"
  BY DEF IInv, Types, FlushBatch
<1>2. UNCHANGED <<queueVars, m_write_queued, buffered, drainTasks, prodVars,
                  stubPrev, storeBuffered, order, freed>>
  BY DEF FlushBatch
<1>3. /\ out' \in Seq(Node) /\ m_state' \in {"Connected", "Closed"}
      /\ m_state' = "Connected" => m_state = "Connected" /\ out' = out \o messages
  <2>1. out \in Seq(Node) /\ out \o messages \in Seq(Node) /\ m_state \in {"Connected", "Closed"}
    BY <1>1, ConcatProperties DEF TypeOK
  <2> QED BY <2>1 DEF FlushBatch
<1>4. Types'
  <2>1. round' \in 0..DrainRounds /\ count' \in 0..BatchMax /\ messages' \in Seq(Node)
    BY <1>1, BoundsAssumption DEF TypeOK
  <2>2. drainPc' \in DrainPc
    BY <1>1 DEF DrainPc
  <2>3. TypeOK'
    BY <1>1, <1>2, <1>3, <2>1, <2>2 DEF TypeOK, queueVars, prodVars
  <2> QED BY <1>1, <2>3, BoundsAssumption DEF Types, Collecting
<1>5. Flag'
  <2>1. UNCHANGED <<m_write_queued, sendPc, buffered, drainTasks>>
    BY <1>2 DEF prodVars
  <2> QED BY <1>1, <2>1 DEF IInv, Flag, Draining
<1>6. PICK n \in 0..Len(order), k \in Out..Len(order) : Chain(n, k) /\ Freed(n) /\ Encoded(n)
  BY DEF IInv, Queue
<1>7. Senders' /\ Chain(n, k)' /\ Freed(n)' /\ order' = order
  <2>1. UNCHANGED <<next, tail, head, sent, prev, stubPrev, order, freed, sendPc>>
    BY <1>2 DEF queueVars, prodVars
  <2> QED BY <1>1, <1>6, <2>1, ListSame
<1>8. Encoded(n)'
  <2> SUFFICES ASSUME m_state' = "Connected"
               PROVE  /\ Len(out') + Len(messages') = n
                      /\ \A i \in 1..Len(out') : out'[i] = order[i]
                      /\ \A i \in 1..Len(messages') : messages'[i] = order[Len(out') + i]
    BY <1>7 DEF Encoded
  <2>1. /\ Len(out) + Len(messages) = n
        /\ \A i \in 1..Len(out) : out[i] = order[i]
        /\ \A i \in 1..Len(messages) : messages[i] = order[Len(out) + i]
    BY <1>3, <1>6 DEF Encoded
  <2>2. out \in Seq(Node) /\ messages \in Seq(Node) /\ Len(out) \in Nat /\ Len(messages) \in Nat
    BY <1>1, LenProperties DEF TypeOK
  <2>3. /\ Len(out') = Len(out) + Len(messages)
        /\ \A i \in 1..(Len(out) + Len(messages)) :
              out'[i] = IF i <= Len(out) THEN out[i] ELSE messages[i - Len(out)]
    BY <1>3, <2>2, ConcatProperties
  <2>4. Len(messages') = 0 /\ Len(out') = n
    BY <1>1, <2>1, <2>3
  <2>5. ASSUME NEW i \in 1..Len(out') PROVE out'[i] = order[i]
    <3>1. CASE i <= Len(out)
      BY <2>1, <2>2, <2>3, <3>1
    <3>2. CASE i > Len(out)
      <4>1. i - Len(out) \in 1..Len(messages) /\ Len(out) + (i - Len(out)) = i
        BY <2>2, <2>3, <3>2
      <4>2. out'[i] = messages[i - Len(out)]
        BY <2>2, <2>3, <3>2
      <4> QED BY <2>1, <4>1, <4>2
    <3> QED BY <2>2, <2>3, <3>1, <3>2
  <2> QED BY <2>4, <2>5
<1> QED BY <1>4, <1>5, <1>7, <1>8 DEF IInv, Queue

-----------------------------------------------------------------------------
(* send() and push() on the producers' threads.                            *)

LEMMA ListFacts ==
  ASSUME IInv
  PROVE  /\ Len(order) \in Nat /\ order \in Seq(Node)
         /\ \A i \in 1..Len(order) : order[i] \in Node /\ order[i] # Stub /\ order[i] # Null
         /\ \A p \in Producers : sendPc[p] \in {"xchg", "link"} => Mine(p) \in Node
         /\ \A p, q \in Producers : Mine(p) = Mine(q) => p = q
         /\ Out = 0 - 1 /\ Stub # Null
<1>1. order \in Seq(Node) /\ sent \in [Producers -> 0..MaxSends]
  BY DEF IInv, Types, TypeOK
<1>2. Len(order) \in Nat /\ \A i \in 1..Len(order) : order[i] \in Node
  BY <1>1, LenProperties
<1>3. ASSUME NEW p \in Producers, sendPc[p] \in {"xchg", "link"} PROVE Mine(p) \in Node
  <2>1. sent[p] > 0
    BY <1>3 DEF IInv, Senders
  <2>2. sent[p] \in 1..MaxSends
    BY <1>1, <2>1
  <2> QED BY <2>2, NodeFacts DEF Mine
<1>4. \A p, q \in Producers : Mine(p) = Mine(q) => p = q
  BY DEF Mine
<1> QED BY <1>1, <1>2, <1>3, <1>4, NodeFacts DEF Out

(* The new node is in nobody's way.                                        *)
LEMMA SendInv == ASSUME IInv, NEW p \in Producers, Send(p) PROVE IInv'
<1> DEFINE x == <<p, sent[p] + 1>>
<1>1. /\ TypeOK /\ sendPc[p] = "idle" /\ sent[p] \in Nat /\ sent[p] + 1 \in 1..MaxSends
      /\ sendPc' = [sendPc EXCEPT ![p] = "xchg"] /\ sent' = [sent EXCEPT ![p] = sent[p] + 1]
      /\ next' = [next EXCEPT ![x] = Null]
  BY BoundsAssumption DEF IInv, Types, TypeOK, Send, Alloc
<1>2. UNCHANGED <<tail, head, m_write_queued, buffered, drainTasks, m_state,
                  prev, drainVars, storeBuffered, order, freed, out>>
  BY DEF Send
<1>3. x \in Node /\ x # Stub /\ x[1] = p /\ x[2] = sent[p] + 1
  BY <1>1, NodeFacts
<1>4. /\ next' \in [Node \cup {Stub} -> Node \cup {Stub, Null}]
      /\ next'[x] = Null /\ \A y \in Node \cup {Stub} : y # x => next'[y] = next[y]
  BY <1>1, <1>3 DEF TypeOK
<1>5. /\ sendPc' \in [Producers -> {"idle", "xchg", "link", "arm", "queue"}]
      /\ sendPc'[p] = "xchg" /\ \A q \in Producers : q # p => sendPc'[q] = sendPc[q]
  BY <1>1 DEF TypeOK
<1>6. /\ sent' \in [Producers -> 0..MaxSends] /\ sent'[p] = sent[p] + 1
      /\ \A q \in Producers : q # p => sent'[q] = sent[q]
  BY <1>1 DEF TypeOK
<1>7. Mine(p)' = x /\ \A q \in Producers : q # p => Mine(q)' = Mine(q)
  BY <1>6 DEF Mine
<1> HIDE DEF x
<1>8. Types'
  <2>1. TypeOK'
    BY <1>1, <1>2, <1>4, <1>5, <1>6 DEF TypeOK, drainVars
  <2> QED BY <1>2, <2>1 DEF IInv, Types, drainVars
<1>9. Flag'
  BY <1>1, <1>2, <1>5 DEF IInv, Flag, Draining, drainVars
<1>10. \A i \in 1..Len(order) : order[i] # x
  <2> SUFFICES ASSUME NEW i \in 1..Len(order), order[i] = x PROVE FALSE
    OBVIOUS
  <2>1. order[i][2] <= sent[order[i][1]]
    BY DEF IInv, Senders
  <2> QED BY <1>1, <1>3, <2>1
<1>11. Senders'
  <2>1. \A q \in Producers : sendPc'[q] \in {"xchg", "link"} => sent'[q] > 0
    BY <1>1, <1>5, <1>6 DEF IInv, Senders
  <2>2. \A q \in Producers : sendPc'[q] = "xchg" =>
           next'[Mine(q)'] = Null /\ \A i \in 1..Len(order) : order[i] # Mine(q)'
    <3> SUFFICES ASSUME NEW q \in Producers, q # p, sendPc[q] = "xchg"
                 PROVE  next'[Mine(q)] = Null /\ \A i \in 1..Len(order) : order[i] # Mine(q)
      BY <1>4, <1>5, <1>7, <1>10
    <3>1. Mine(q) \in Node /\ Mine(q) # x
      <4>1. Mine(q)[1] = q
        BY DEF Mine
      <4> QED BY <1>3, <4>1, ListFacts
    <3> QED BY <1>4, <3>1 DEF IInv, Senders
  <2>3. \A i \in 1..Len(order) : order[i][2] <= sent'[order[i][1]]
    <3> SUFFICES ASSUME NEW i \in 1..Len(order) PROVE order[i][2] <= sent'[order[i][1]]
      OBVIOUS
    <3>1. order[i] \in Node /\ order[i][2] <= sent[order[i][1]]
      BY ListFacts DEF IInv, Senders
    <3>2. order[i][1] \in Producers /\ order[i][2] \in Nat
      BY <3>1, NodeFacts
    <3> QED BY <1>1, <1>6, <3>1, <3>2
  <2> QED BY <1>2, <2>1, <2>2, <2>3 DEF IInv, Senders
<1>12. PICK n \in 0..Len(order), k \in Out..Len(order) : Chain(n, k) /\ Freed(n) /\ Encoded(n)
  BY DEF IInv, Queue
<1>13. \A i \in 1..Len(order) : Unlinked(i)' <=> Unlinked(i)
  BY <1>1, <1>2, <1>5, <1>7 DEF Unlinked
<1>14. n \in Nat /\ k \in Int /\ Len(order) \in Nat /\ next'[Stub] = next[Stub]
       /\ \A i \in 1..Len(order) : next'[order[i]] = next[order[i]]
  BY <1>3, <1>4, <1>10, ListFacts
<1>15. Ends(n, k)'
  BY <1>2, <1>12, <1>14 DEF Chain, Ends
<1>16. Links(n, k)'
  <2>1. order' = order /\ drainPc' = drainPc
    BY <1>2 DEF drainVars
  <2>2. /\ \A i \in (n + 1)..(Len(order) - 1) : k # i =>
             next[order[i]] = IF Unlinked(i + 1) THEN Null ELSE order[i + 1]
        /\ k \in n..(Len(order) - 1) =>
             next[Stub] = IF Unlinked(k + 1) THEN Null ELSE order[k + 1]
        /\ k > n => next[order[k]] = IF drainPc = "stubLink" THEN Null ELSE Stub
    BY <1>12 DEF Chain, Links
  <2>3. ASSUME NEW i \in (n + 1)..(Len(order) - 1), k # i
        PROVE  next'[order[i]] = IF Unlinked(i + 1)' THEN Null ELSE order[i + 1]
    <3>1. i \in 1..Len(order) /\ i + 1 \in 1..Len(order)
      BY <1>14
    <3> QED BY <1>13, <1>14, <2>2, <2>3, <3>1
  <2>4. ASSUME k \in n..(Len(order) - 1)
        PROVE  next'[Stub] = IF Unlinked(k + 1)' THEN Null ELSE order[k + 1]
    <3>1. k + 1 \in 1..Len(order)
      BY <1>14, <2>4
    <3> QED BY <1>13, <1>14, <2>2, <2>4, <3>1
  <2>5. ASSUME k > n PROVE next'[order[k]] = IF drainPc = "stubLink" THEN Null ELSE Stub
    <3>1. k \in 1..Len(order)
      BY <1>14, <2>5
    <3> QED BY <1>14, <2>2, <2>5, <3>1
  <2> QED BY <2>1, <2>3, <2>4, <2>5 DEF Links
<1>17. Pushers(n, k)'
  BY <1>2, <1>5, <1>7, <1>12 DEF Chain, Pushers, Before
<1>18. Drainer(n, k)' /\ Freed(n)' /\ Encoded(n)'
  BY <1>2, <1>12 DEF Chain, Drainer, Freed, Encoded, drainVars
<1> QED BY <1>2, <1>8, <1>9, <1>11, <1>15, <1>16, <1>17, <1>18 DEF IInv, Queue, Chain

(* The exchange makes the node the tail; its link is missing from now on.  *)
LEMMA PushXchgInv == ASSUME IInv, NEW p \in Producers, PushXchg(p) PROVE IInv'
<1> DEFINE x == Mine(p)
<1>0. PICK L \in Nat : L = Len(order)
  BY ListFacts
<1>1. /\ TypeOK /\ sendPc[p] = "xchg" /\ prev' = [prev EXCEPT ![p] = tail] /\ tail' = x
      /\ order' = Append(order, x) /\ sendPc' = [sendPc EXCEPT ![p] = "link"]
  BY DEF IInv, Types, TypeOK, PushXchg
<1>2. UNCHANGED <<next, head, m_write_queued, buffered, drainTasks, m_state,
                  sent, drainVars, storeBuffered, freed, out>>
  BY DEF PushXchg
<1>3. x \in Node /\ x # Stub /\ x # Null /\ next[x] = Null /\ \A i \in 1..L : order[i] # x
  BY <1>0, <1>1, ListFacts, NodeFacts DEF IInv, Senders
<1>4. /\ order' \in Seq(Node) /\ Len(order') = L + 1 /\ L \in Nat
      /\ order'[L + 1] = x /\ \A i \in 1..L : order'[i] = order[i]
  BY <1>0, <1>1, <1>3, AppendProperties, LenProperties DEF TypeOK
<1>5. /\ sendPc' \in [Producers -> {"idle", "xchg", "link", "arm", "queue"}]
      /\ sendPc'[p] = "link" /\ \A q \in Producers : q # p => sendPc'[q] = sendPc[q]
  BY <1>1 DEF TypeOK
<1>6. /\ prev' \in [Producers -> Node \cup {Stub}]
      /\ prev'[p] = tail /\ \A q \in Producers : q # p => prev'[q] = prev[q]
  BY <1>1 DEF TypeOK
<1>7. \A q \in Producers : Mine(q)' = Mine(q)
  BY <1>2 DEF Mine
<1>8. Mine(p) = x
  OBVIOUS
<1> HIDE DEF x
<1>9. Types'
  <2>1. TypeOK'
    BY <1>1, <1>2, <1>3, <1>4, <1>5, <1>6 DEF TypeOK, drainVars
  <2> QED BY <1>2, <2>1 DEF IInv, Types, drainVars
<1>10. Flag'
  BY <1>1, <1>2, <1>5 DEF IInv, Flag, Draining, drainVars
<1>11. Senders'
  <2>1. \A q \in Producers : sendPc'[q] \in {"xchg", "link"} => sent'[q] > 0
    BY <1>1, <1>2, <1>5 DEF IInv, Senders
  <2>2. \A q \in Producers : sendPc'[q] = "xchg" =>
           next'[Mine(q)'] = Null /\ \A i \in 1..(L + 1) : order'[i] # Mine(q)'
    <3> SUFFICES ASSUME NEW q \in Producers, sendPc[q] = "xchg", q # p
                 PROVE  next[Mine(q)] = Null /\ \A i \in 1..(L + 1) : order'[i] # Mine(q)
      BY <1>2, <1>5, <1>7
    <3>1. Mine(q) # x
      BY <1>8, ListFacts
    <3>2. next[Mine(q)] = Null /\ \A i \in 1..L : order[i] # Mine(q)
      BY <1>0 DEF IInv, Senders
    <3>3. \A i \in 1..(L + 1) : i = L + 1 \/ i \in 1..L
      BY <1>4
    <3> QED BY <1>4, <3>1, <3>2, <3>3
  <2>3. \A i \in 1..(L + 1) : order'[i][2] <= sent'[order'[i][1]]
    <3>1. x[1] = p /\ x[2] = sent[p] /\ sent[p] <= sent[p]
      BY <1>1, <1>8 DEF Mine, TypeOK
    <3>2. \A i \in 1..L : order[i][2] <= sent[order[i][1]]
      BY <1>0 DEF IInv, Senders
    <3>3. \A i \in 1..(L + 1) : i = L + 1 \/ i \in 1..L
      BY <1>4
    <3> QED BY <1>2, <1>4, <3>1, <3>2, <3>3
  <2>4. \A i, j \in 1..(L + 1) : order'[i] = order'[j] => i = j
    <3>1. \A i, j \in 1..L : order[i] = order[j] => i = j
      BY <1>0 DEF IInv, Senders
    <3>3. \A i \in 1..(L + 1) : i = L + 1 \/ i \in 1..L
      BY <1>4
    <3> QED BY <1>3, <1>4, <3>1, <3>3
  <2> QED BY <1>4, <2>1, <2>2, <2>3, <2>4 DEF Senders
<1>12. PICK n \in 0..L, k \in Out..L : Chain(n, k) /\ Freed(n) /\ Encoded(n)
  BY <1>0 DEF IInv, Queue
<1>13. n \in Nat /\ k \in Int /\ n <= L /\ k <= L /\ Out = 0 - 1 /\ k >= Out
  BY <1>4 DEF Out
<1>14. Unlinked(L + 1)' /\ \A i \in 1..L : Unlinked(i)' <=> Unlinked(i)
  <2>1. Unlinked(L + 1)'
    BY <1>4, <1>5, <1>7, <1>8 DEF Unlinked
  <2>2. \A i \in 1..L : Unlinked(i)' <=> Unlinked(i)
    BY <1>1, <1>3, <1>4, <1>5, <1>7, <1>8 DEF Unlinked
  <2> QED BY <2>1, <2>2
<1>15. /\ k \in n..L \/ (k = Out /\ n < L)
       /\ head = IF k = n THEN Stub ELSE order[n + 1]
       /\ tail = IF k = L THEN Stub ELSE order[L]
       /\ next[tail] = Null
  BY <1>0, <1>12 DEF Chain, Ends
<1>16. Ends(n, k)'
  <2>1. n \in 0..(L + 1) /\ (k \in n..(L + 1) \/ (k = Out /\ n < L + 1)) /\ k # L + 1
    BY <1>4, <1>13, <1>15
  <2>2. head = IF k = n THEN Stub ELSE order'[n + 1]
    BY <1>4, <1>13, <1>15
  <2> QED BY <1>1, <1>2, <1>3, <1>4, <2>1, <2>2 DEF Ends
<1>17. Links(n, k)'
  <2>1. ASSUME NEW i \in (n + 1)..L, k # i
        PROVE  next[order'[i]] = IF Unlinked(i + 1)' THEN Null ELSE order'[i + 1]
    <3>1. CASE i = L
      BY <1>4, <1>13, <1>14, <1>15, <2>1, <3>1
    <3>2. CASE i < L
      <4>1. i \in (n + 1)..(L - 1) /\ i \in 1..L /\ i + 1 \in 1..L
        BY <1>4, <1>13, <3>2
      <4>2. next[order[i]] = IF Unlinked(i + 1) THEN Null ELSE order[i + 1]
        BY <1>0, <1>12, <2>1, <4>1 DEF Chain, Links
      <4> QED BY <1>4, <1>14, <4>1, <4>2
    <3> QED BY <1>4, <1>13, <3>1, <3>2
  <2>2. ASSUME k \in n..L
        PROVE  next[Stub] = IF Unlinked(k + 1)' THEN Null ELSE order'[k + 1]
    <3>1. CASE k = L
      BY <1>14, <1>15, <3>1
    <3>2. CASE k < L
      <4>1. k \in n..(L - 1) /\ k + 1 \in 1..L
        BY <1>4, <1>13, <2>2, <3>2
      <4>2. next[Stub] = IF Unlinked(k + 1) THEN Null ELSE order[k + 1]
        BY <1>0, <1>12, <4>1 DEF Chain, Links
      <4> QED BY <1>4, <1>14, <4>1, <4>2
    <3> QED BY <1>4, <1>13, <3>1, <3>2
  <2>3. k > n => next[order'[k]] = IF drainPc = "stubLink" THEN Null ELSE Stub
    BY <1>4, <1>12, <1>13 DEF Chain, Links
  <2>4. Len(order') - 1 = L /\ next' = next /\ drainPc' = drainPc
    BY <1>2, <1>4 DEF drainVars
  <2> QED BY <2>1, <2>2, <2>3, <2>4 DEF Links
<1>18. Pushers(n, k)'
  <2> SUFFICES ASSUME NEW q \in Producers, sendPc'[q] = "link"
               PROVE  \E i \in (n + 1)..(L + 1) :
                         Mine(q)' = order'[i] /\ prev'[q] = Before(i, k)' /\ (i = n + 1 => k = n)
    BY <1>4 DEF Pushers
  <2>1. CASE q = p
    <3>1. L + 1 \in (n + 1)..(L + 1) /\ (L + 1 = n + 1 => k = n)
      BY <1>4, <1>13, <1>15
    <3>2. prev'[p] = Before(L + 1, k)'
      <4>1. k # L => L \in 1..L
        BY <1>4, <1>13, <1>15
      <4>2. (L + 1) - 1 = L
        BY <1>4
      <4> QED BY <1>4, <1>6, <1>15, <4>1, <4>2 DEF Before
    <3>3. Mine(p)' = order'[L + 1]
      BY <1>4, <1>7, <1>8
    <3> QED BY <2>1, <3>1, <3>2, <3>3
  <2>2. CASE q # p
    <3>1. PICK i \in (n + 1)..L :
             Mine(q) = order[i] /\ prev[q] = Before(i, k) /\ (i = n + 1 => k = n)
      BY <1>0, <1>5, <1>12, <2>2 DEF Chain, Pushers
    <3>2. i \in 1..L /\ i \in (n + 1)..(L + 1) /\ (k # i - 1 => i - 1 \in 1..L)
      BY <1>4, <1>13, <3>1
    <3> QED BY <1>4, <1>6, <1>7, <2>2, <3>1, <3>2 DEF Before
  <2> QED BY <2>1, <2>2
<1>19. Drainer(n, k)'
  <2>1. k > n => order'[k] = order[k]
    BY <1>4, <1>13
  <2> QED BY <1>2, <1>12, <2>1 DEF Chain, Drainer, drainVars
<1>20. Freed(n)'
  <2>1. \A i \in 1..n : order'[i] = order[i]
    BY <1>4, <1>13
  <2> QED BY <1>2, <1>12, <2>1 DEF Freed
<1>21. Encoded(n)'
  <2> SUFFICES ASSUME m_state = "Connected"
               PROVE  /\ Len(out) + Len(messages) = n
                      /\ \A i \in 1..Len(out) : out[i] = order'[i]
                      /\ \A i \in 1..Len(messages) : messages[i] = order'[Len(out) + i]
    BY <1>2 DEF Encoded, drainVars
  <2>1. Len(out) \in Nat /\ Len(messages) \in Nat
    BY <1>1, LenProperties DEF TypeOK
  <2>2. /\ Len(out) + Len(messages) = n
        /\ \A i \in 1..Len(out) : out[i] = order[i]
        /\ \A i \in 1..Len(messages) : messages[i] = order[Len(out) + i]
    BY <1>12 DEF Encoded
  <2>3. /\ \A i \in 1..Len(out) : i \in 1..L
        /\ \A i \in 1..Len(messages) : Len(out) + i \in 1..L
    BY <1>13, <2>1, <2>2
  <2> QED BY <1>4, <2>2, <2>3
<1>22. n \in 0..Len(order') /\ k \in Out..Len(order')
  BY <1>4, <1>13
<1> QED BY <1>9, <1>10, <1>11, <1>16, <1>17, <1>18, <1>19, <1>20, <1>21, <1>22
        DEF IInv, Queue, Chain

(* The link: the tail that the exchange returned is still in the list.     *)
LEMMA PushLinkInv == ASSUME IInv, NEW p \in Producers, PushLink(p) PROVE IInv'
<1> DEFINE x == Mine(p)
           L == Len(order)
<1>1. /\ TypeOK /\ sendPc[p] = "link" /\ next' = [next EXCEPT ![prev[p]] = x]
      /\ sendPc' = [sendPc EXCEPT ![p] = "arm"]
  BY DEF IInv, Types, TypeOK, PushLink
<1>2. UNCHANGED <<tail, head, m_write_queued, buffered, drainTasks, m_state,
                  sent, prev, drainVars, storeBuffered, order, freed, out>>
  BY DEF PushLink
<1>3. x \in Node /\ prev[p] \in Node \cup {Stub} /\ Mine(p) = x /\ L \in Nat
  BY <1>1, ListFacts DEF TypeOK
<1>4. /\ next' \in [Node \cup {Stub} -> Node \cup {Stub, Null}] /\ next'[prev[p]] = x
      /\ \A y \in Node \cup {Stub} : y # prev[p] => next'[y] = next[y]
  BY <1>1, <1>3 DEF TypeOK
<1>5. /\ sendPc' \in [Producers -> {"idle", "xchg", "link", "arm", "queue"}]
      /\ sendPc'[p] = "arm" /\ \A q \in Producers : q # p => sendPc'[q] = sendPc[q]
  BY <1>1 DEF TypeOK
<1>6. \A q \in Producers : Mine(q)' = Mine(q)
  BY <1>2 DEF Mine
<1> HIDE DEF x
<1>7. Types'
  <2>1. TypeOK'
    BY <1>1, <1>2, <1>4, <1>5 DEF TypeOK, drainVars
  <2> QED BY <1>2, <2>1 DEF IInv, Types, drainVars
<1>8. Flag'
  BY <1>1, <1>2, <1>5 DEF IInv, Flag, Draining, drainVars
<1>9. PICK n \in 0..L, k \in Out..L : Chain(n, k) /\ Freed(n) /\ Encoded(n)
  BY DEF IInv, Queue
<1>10. n \in Nat /\ k \in Int /\ n <= L /\ k <= L /\ Out = 0 - 1 /\ k >= Out
  BY <1>3 DEF Out
<1>11. PICK i \in (n + 1)..L : x = order[i] /\ prev[p] = Before(i, k) /\ (i = n + 1 => k = n)
  BY <1>1, <1>3, <1>9 DEF Chain, Pushers
<1>12. /\ \A j \in 1..L : order[j] \in Node /\ order[j] # Stub
       /\ \A j, h \in 1..L : order[j] = order[h] => j = h
  BY ListFacts DEF IInv, Senders
<1>13. /\ k = i - 1 => prev[p] = Stub
       /\ k # i - 1 => prev[p] = order[i - 1] /\ i - 1 \in (n + 1)..(L - 1) /\ i - 1 \in 1..L
  BY <1>3, <1>10, <1>11 DEF Before
<1>14. ~Unlinked(i)' /\ \A j \in 1..L : j # i => (Unlinked(j)' <=> Unlinked(j))
  <2>1. ~Unlinked(i)'
    BY <1>2, <1>3, <1>5, <1>6, <1>11, ListFacts DEF Unlinked
  <2>2. ASSUME NEW j \in 1..L, j # i PROVE Unlinked(j)' <=> Unlinked(j)
    <3>1. order[j] # x
      BY <1>3, <1>10, <1>11, <1>12, <2>2
    <3> QED BY <1>2, <1>3, <1>5, <1>6, <3>1 DEF Unlinked
  <2> QED BY <2>1, <2>2
<1>15. /\ k \in n..L \/ (k = Out /\ n < L)
       /\ head = IF k = n THEN Stub ELSE order[n + 1]
       /\ tail = IF k = L THEN Stub ELSE order[L]
       /\ next[tail] = Null
  BY <1>9 DEF Chain, Ends
<1> HIDE DEF L
<1>16. Senders'
  <2>1. ASSUME NEW q \in Producers, sendPc[q] = "xchg" PROVE next'[Mine(q)] = Null
    <3>1. /\ Mine(q) \in Node /\ next[Mine(q)] = Null /\ \A j \in 1..L : order[j] # Mine(q)
      BY <2>1, ListFacts DEF IInv, Senders, L
    <3>2. Mine(q) # prev[p]
      BY <1>12, <1>13, <3>1, NodeFacts
    <3> QED BY <1>4, <3>1, <3>2
  <2>2. UNCHANGED <<order, sent>>
    BY <1>2
  <2>3. \A q \in Producers : sendPc'[q] \in {"xchg", "link"} => sent[q] > 0
    BY <1>1, <1>5 DEF IInv, Senders
  <2>4. \A q \in Producers : sendPc'[q] = "xchg" =>
           next'[Mine(q)'] = Null /\ \A j \in 1..Len(order) : order[j] # Mine(q)'
    BY <1>5, <1>6, <2>1 DEF IInv, Senders
  <2> QED BY <2>2, <2>3, <2>4 DEF IInv, Senders
<1>17. Ends(n, k)'
  <2>1. tail # prev[p] /\ tail \in Node \cup {Stub}
    <3>1. CASE k = L
      BY <1>3, <1>10, <1>11, <1>12, <1>13, <1>15, <3>1
    <3>2. CASE k # L
      <4>1. tail = order[L] /\ L \in 1..L
        BY <1>3, <1>10, <1>15, <3>2
      <4>2. k # i - 1 => i - 1 # L
        BY <1>3, <1>10, <1>11
      <4> QED BY <1>12, <1>13, <4>1, <4>2
    <3> QED BY <3>1, <3>2
  <2>2. next'[tail] = Null
    BY <1>4, <1>15, <2>1
  <2> QED BY <1>2, <1>9, <2>2 DEF Chain, Ends
<1>18. Links(n, k)'
  <2>1. ASSUME NEW j \in (n + 1)..(L - 1), k # j
        PROVE  next'[order[j]] = IF Unlinked(j + 1)' THEN Null ELSE order[j + 1]
    <3>0. j \in 1..L /\ j + 1 \in 1..L /\ i \in 1..L
      BY <1>3, <1>10
    <3>1. CASE j + 1 = i
      <4>1. j = i - 1
        BY <1>3, <1>10, <3>1
      <4> QED BY <1>4, <1>11, <1>13, <1>14, <2>1, <3>1, <4>1
    <3>2. CASE j + 1 # i
      <4>1. j # i - 1
        BY <1>3, <1>10, <3>2
      <4>2. order[j] # prev[p] /\ order[j] \in Node
        BY <1>12, <1>13, <3>0, <4>1
      <4>3. next[order[j]] = IF Unlinked(j + 1) THEN Null ELSE order[j + 1]
        BY <1>9, <2>1 DEF Chain, Links, L
      <4> QED BY <1>4, <1>14, <3>0, <3>2, <4>2, <4>3
    <3> QED BY <3>1, <3>2
  <2>2. ASSUME k \in n..(L - 1)
        PROVE  next'[Stub] = IF Unlinked(k + 1)' THEN Null ELSE order[k + 1]
    <3>1. CASE k = i - 1
      <4>1. k + 1 = i
        BY <1>3, <1>10, <3>1
      <4> QED BY <1>4, <1>11, <1>13, <1>14, <3>1, <4>1
    <3>2. CASE k # i - 1
      <4>1. Stub # prev[p] /\ k + 1 # i /\ k + 1 \in 1..L
        BY <1>3, <1>10, <1>12, <1>13, <2>2, <3>2
      <4>2. next[Stub] = IF Unlinked(k + 1) THEN Null ELSE order[k + 1]
        BY <1>9, <2>2 DEF Chain, Links, L
      <4> QED BY <1>4, <1>14, <4>1, <4>2
    <3> QED BY <3>1, <3>2
  <2>3. ASSUME k > n PROVE next'[order[k]] = IF drainPc = "stubLink" THEN Null ELSE Stub
    <3>1. k \in 1..L /\ next[order[k]] = IF drainPc = "stubLink" THEN Null ELSE Stub
      BY <1>3, <1>9, <1>10, <2>3 DEF Chain, Links
    <3>2. order[k] # prev[p] /\ order[k] \in Node
      BY <1>12, <1>13, <3>1
    <3> QED BY <1>4, <3>1, <3>2
  <2>4. order' = order /\ drainPc' = drainPc /\ Len(order') = L
    BY <1>2 DEF drainVars, L
  <2> QED BY <2>1, <2>2, <2>3, <2>4 DEF Links
<1>19. Pushers(n, k)'
  BY <1>2, <1>5, <1>6, <1>9 DEF Chain, Pushers, Before
<1>20. Drainer(n, k)' /\ Freed(n)' /\ Encoded(n)'
  BY <1>2, <1>9 DEF Chain, Drainer, Freed, Encoded, drainVars
<1>21. n \in 0..Len(order') /\ k \in Out..Len(order')
  BY <1>2 DEF L
<1> QED BY <1>7, <1>8, <1>16, <1>17, <1>18, <1>19, <1>20, <1>21 DEF IInv, Queue, Chain

-----------------------------------------------------------------------------
(* pop() and push(&stub_) on the loop thread.                              *)

(* The variables a step of pop() does not touch.                           *)
PopFrame == UNCHANGED <<tail, stubPrev, popUnchanged>>

(* A drain that goes on or ends its round owns the flag as before.         *)
LEMMA PopFlag ==
  ASSUME IInv, PopFrame, drainPc \in Collecting, drainPc' \in Collecting \cup {"flush"}
  PROVE  Flag'
<1>1. UNCHANGED <<m_write_queued, buffered, drainTasks, sendPc>>
  BY DEF PopFrame, popUnchanged, prodVars
<1>2. Draining /\ Draining'
  BY DEF Draining, Collecting
<1> QED BY <1>1, <1>2 DEF IInv, Flag

(* A load that only decides how pop() goes on.                             *)
LEMMA PopGoesOn ==
  ASSUME IInv, PopFrame, UNCHANGED <<next, head, messages, freed, count>>,
         drainPc \in Collecting \ {"stubLink"}, drainPc' \in {"flush", "popTail", "stubXchg"},
         \A n \in 0..Len(order) : \A k \in Out..Len(order) :
            Chain(n, k) => /\ drainPc' = "popTail" => k # n
                           /\ drainPc' = "stubXchg" => k = Out
  PROVE  IInv'
<1>1. UNCHANGED <<tail, stubPrev, m_write_queued, buffered, drainTasks, m_state,
                  sendPc, sent, prev, round, storeBuffered, order, out>>
  BY DEF PopFrame, popUnchanged, prodVars
<1>2. Types'
  BY <1>1 DEF IInv, Types, TypeOK, Collecting, DrainPc
<1>3. Flag'
  BY PopFlag DEF Collecting
<1>4. Senders'
  BY <1>1 DEF IInv, Senders, Mine
<1>5. PICK n \in 0..Len(order), k \in Out..Len(order) : Chain(n, k) /\ Freed(n) /\ Encoded(n)
  BY DEF IInv, Queue
<1>6. n \in Nat /\ Len(order) \in Nat /\ k \in Int
  BY ListFacts
<1>7. \A i \in 1..Len(order) : Unlinked(i)' <=> Unlinked(i)
  BY <1>1 DEF Unlinked, Mine
<1>8. Ends(n, k)'
  BY <1>1, <1>5 DEF Chain, Ends
<1>9. Links(n, k)'
  BY <1>1, <1>5, <1>6, <1>7 DEF Chain, Links
<1>10. Pushers(n, k)'
  BY <1>1, <1>5 DEF Chain, Pushers, Before, Mine
<1>11. Drainer(n, k)'
  BY <1>1, <1>5 DEF Drainer
<1>12. Freed(n)' /\ Encoded(n)'
  BY <1>1, <1>5 DEF Freed, Encoded
<1> QED BY <1>1, <1>2, <1>3, <1>4, <1>5, <1>8, <1>9, <1>10, <1>11, <1>12 DEF IInv, Queue, Chain

(* What the head's link says about the list.                               *)
LEMMA HeadFacts ==
  ASSUME IInv, NEW n \in 0..Len(order), NEW k \in Out..Len(order), Chain(n, k), k # n
  PROVE  /\ n \in Nat /\ k \in Int /\ Len(order) \in Nat /\ n + 1 \in 1..Len(order)
         /\ k = Out \/ k \in (n + 1)..Len(order)
         /\ head = order[n + 1] /\ head \in Node
         /\ drainPc # "stubLink" /\ next[head] # Null =>
               \/ k = n + 1 /\ next[head] = Stub
               \/ /\ k # n + 1 /\ n + 2 \in 1..Len(order)
                  /\ next[head] = order[n + 2] /\ ~Unlinked(n + 2)
<1>1. n \in Nat /\ k \in Int /\ Len(order) \in Nat /\ Out = 0 - 1
  BY ListFacts
<1>2. n + 1 \in 1..Len(order) /\ (k = Out \/ k \in (n + 1)..Len(order)) /\ head = order[n + 1]
  BY <1>1 DEF Chain, Ends
<1>3. head \in Node
  BY <1>2, ListFacts
<1>4. ASSUME drainPc # "stubLink", next[head] # Null, k = n + 1 PROVE next[head] = Stub
  BY <1>1, <1>2, <1>4 DEF Chain, Links
<1>5. ASSUME drainPc # "stubLink", next[head] # Null, k # n + 1
      PROVE  n + 2 \in 1..Len(order) /\ next[head] = order[n + 2] /\ ~Unlinked(n + 2)
  <2>1. n + 1 # Len(order)
    <3> SUFFICES ASSUME n + 1 = Len(order) PROVE FALSE
      OBVIOUS
    <3>1. tail = order[Len(order)] /\ next[tail] = Null
      BY <1>5 DEF Chain, Ends
    <3> QED BY <1>2, <1>5, <3>1
  <2>2. n + 1 \in (n + 1)..(Len(order) - 1) /\ n + 2 \in 1..Len(order) /\ (n + 1) + 1 = n + 2
    BY <1>1, <1>2, <2>1
  <2>3. next[order[n + 1]] = IF Unlinked((n + 1) + 1) THEN Null ELSE order[(n + 1) + 1]
    BY <1>5, <2>2 DEF Chain, Links
  <2> QED BY <1>2, <1>5, <2>2, <2>3
<1> QED BY <1>1, <1>2, <1>3, <1>4, <1>5

(* pop() returns the head: nobody is about to write to it, and the next in *)
(* order comes to the front, or the stub.                                  *)
LEMMA PoppedInv ==
  ASSUME IInv, PopFrame, UNCHANGED next, drainPc \in {"pop", "popNext", "popLast"},
         head # Stub, next[head] # Null, Popped(head)
  PROVE  IInv'
<1>1. UNCHANGED <<tail, stubPrev, m_write_queued, buffered, drainTasks, m_state,
                  sendPc, sent, prev, round, storeBuffered, order, out, next>>
  BY DEF PopFrame, popUnchanged, prodVars
<1>2. /\ head' = next[head] /\ freed' = freed \cup {head} /\ count' = count + 1
      /\ messages' = IF m_state = "Connected" THEN Append(messages, head) ELSE messages
      /\ drainPc' = IF count + 1 < BatchMax THEN "pop" ELSE "flush"
  BY DEF Popped, Free
<1>3. PICK n \in 0..Len(order), k \in Out..Len(order) : Chain(n, k) /\ Freed(n) /\ Encoded(n)
  BY DEF IInv, Queue
<1>4. k # n
  BY <1>3 DEF Chain, Ends
<1>5. /\ n \in Nat /\ k \in Int /\ Len(order) \in Nat /\ n + 1 \in 1..Len(order)
      /\ k = Out \/ k \in (n + 1)..Len(order)
      /\ head = order[n + 1] /\ head \in Node
      /\ \/ k = n + 1 /\ next[head] = Stub
         \/ /\ k # n + 1 /\ n + 2 \in 1..Len(order)
            /\ next[head] = order[n + 2] /\ ~Unlinked(n + 2)
  BY <1>3, <1>4, HeadFacts
<1>6. TypeOK /\ Out = 0 - 1
  BY ListFacts DEF IInv, Types
<1>7. messages' \in Seq(Node) /\ freed' \subseteq Node
  BY <1>2, <1>5, <1>6, AppendProperties DEF TypeOK
<1>8. Types'
  <2>1. count < BatchMax /\ round < DrainRounds /\ count \in Nat
    BY <1>6 DEF IInv, Types, Collecting, TypeOK
  <2>2. count' \in 0..BatchMax /\ head' \in Node \cup {Stub} /\ drainPc' \in DrainPc
    BY <1>2, <1>5, <2>1, BoundsAssumption, ListFacts DEF DrainPc
  <2>3. TypeOK'
    BY <1>1, <1>6, <1>7, <2>2 DEF TypeOK
  <2> QED BY <1>1, <1>2, <2>1, <2>3, BoundsAssumption DEF Types, Collecting
<1>9. Flag'
  BY <1>2, PopFlag DEF Collecting
<1>10. Senders'
  BY <1>1 DEF IInv, Senders, Mine
<1>11. \A i \in 1..Len(order) : Unlinked(i)' <=> Unlinked(i)
  BY <1>1 DEF Unlinked, Mine
<1>12. Ends(n + 1, k)'
  <2>1. n + 1 \in 0..Len(order) /\ (k \in (n + 1)..Len(order) \/ (k = Out /\ n + 1 < Len(order)))
    BY <1>5, <1>6
  <2>2. head' = IF k = n + 1 THEN Stub ELSE order[(n + 1) + 1]
    BY <1>2, <1>5
  <2>3. tail = (IF k = Len(order) THEN Stub ELSE order[Len(order)]) /\ next[tail] = Null
    BY <1>3 DEF Chain, Ends
  <2> QED BY <1>1, <2>1, <2>2, <2>3 DEF Ends
<1>13. Links(n + 1, k)'
  <2>1. \A i \in ((n + 1) + 1)..(Len(order) - 1) : k # i =>
           next[order[i]] = IF Unlinked(i + 1)' THEN Null ELSE order[i + 1]
    <3>1. \A i \in ((n + 1) + 1)..(Len(order) - 1) :
             i \in (n + 1)..(Len(order) - 1) /\ i + 1 \in 1..Len(order)
      BY <1>5
    <3> QED BY <1>3, <1>11, <3>1 DEF Chain, Links
  <2>2. k \in (n + 1)..(Len(order) - 1) =>
           next[Stub] = IF Unlinked(k + 1)' THEN Null ELSE order[k + 1]
    <3>1. k \in (n + 1)..(Len(order) - 1) =>
             k \in n..(Len(order) - 1) /\ k + 1 \in 1..Len(order)
      BY <1>5
    <3> QED BY <1>3, <1>11, <3>1 DEF Chain, Links
  <2>3. k > n + 1 => next[order[k]] = Stub
    <3>1. k > n + 1 => k > n
      BY <1>5
    <3> QED BY <1>3, <3>1 DEF Chain, Links
  <2>4. drainPc' # "stubLink"
    BY <1>2
  <2> QED BY <1>1, <2>1, <2>2, <2>3, <2>4 DEF Links
<1>14. Pushers(n + 1, k)'
  <2> SUFFICES ASSUME NEW q \in Producers, sendPc[q] = "link"
               PROVE  \E i \in ((n + 1) + 1)..Len(order) :
                         Mine(q) = order[i] /\ prev[q] = Before(i, k) /\ (i = (n + 1) + 1 => k = n + 1)
    BY <1>1 DEF Pushers, Before, Mine
  <2>1. PICK i \in (n + 1)..Len(order) :
           Mine(q) = order[i] /\ prev[q] = Before(i, k) /\ (i = n + 1 => k = n)
    BY <1>3 DEF Chain, Pushers
  <2>2. i = n + 2 => k = n + 1
    BY <1>5, <2>1 DEF Unlinked
  <2>3. i \in ((n + 1) + 1)..Len(order) /\ (i = (n + 1) + 1 => k = n + 1)
    BY <1>4, <1>5, <2>1, <2>2
  <2> QED BY <2>1, <2>3
<1>15. Drainer(n + 1, k)'
  BY <1>2 DEF Drainer
<1>16. Freed(n + 1)'
  <2>1. freed = {order[i] : i \in 1..n} /\ IsFiniteSet(freed) /\ Cardinality(freed) = n
    BY <1>3 DEF Freed
  <2>2. \A i \in 1..n : i \in 1..Len(order) /\ i # n + 1
    BY <1>5
  <2>3. head \notin freed
    BY <1>5, <2>1, <2>2 DEF IInv, Senders
  <2>4. IsFiniteSet(freed') /\ Cardinality(freed') = n + 1
    BY <1>2, <2>1, <2>3, FS_AddElement
  <2>5. \A i : i \in 1..(n + 1) <=> i \in 1..n \/ i = n + 1
    BY <1>5
  <2>6. freed' = {order[i] : i \in 1..(n + 1)}
    BY <1>2, <1>5, <2>1, <2>5
  <2> QED BY <1>1, <2>4, <2>6 DEF Freed
<1>17. Encoded(n + 1)'
  <2> SUFFICES ASSUME m_state = "Connected"
               PROVE  /\ Len(out) + Len(messages') = n + 1
                      /\ \A i \in 1..Len(out) : out[i] = order[i]
                      /\ \A i \in 1..Len(messages') : messages'[i] = order[Len(out) + i]
    BY <1>1 DEF Encoded
  <2>1. Len(out) \in Nat /\ Len(messages) \in Nat
    BY <1>6, LenProperties DEF TypeOK
  <2>2. /\ Len(messages') = Len(messages) + 1 /\ messages'[Len(messages) + 1] = head
        /\ \A i \in 1..Len(messages) : messages'[i] = messages[i]
    BY <1>2, <1>5, <1>6, AppendProperties DEF TypeOK
  <2>3. /\ Len(out) + Len(messages) = n
        /\ \A i \in 1..Len(out) : out[i] = order[i]
        /\ \A i \in 1..Len(messages) : messages[i] = order[Len(out) + i]
    BY <1>3 DEF Encoded
  <2>4. \A i \in 1..(Len(messages) + 1) : i \in 1..Len(messages) \/ i = Len(messages) + 1
    BY <2>1
  <2>5. Len(out) + (Len(messages) + 1) = n + 1
    BY <2>1, <2>3
  <2> QED BY <1>5, <2>2, <2>3, <2>4, <2>5
<1>18. n + 1 \in 0..Len(order') /\ k \in Out..Len(order')
  BY <1>1, <1>5
<1> QED BY <1>8, <1>9, <1>10, <1>12, <1>13, <1>14, <1>15, <1>16, <1>17, <1>18
        DEF IInv, Queue, Chain

(* The stub leaves the list once the node behind it is linked.             *)
LEMMA SkipStubInv ==
  ASSUME IInv, PopFrame, UNCHANGED <<next, messages, freed, count>>, drainPc = "pop",
         drainPc' = "popNext", head = Stub, next[Stub] # Null, head' = next[Stub]
  PROVE  IInv'
<1>1. UNCHANGED <<tail, stubPrev, m_write_queued, buffered, drainTasks, m_state,
                  sendPc, sent, prev, round, storeBuffered, order, out>>
  BY DEF PopFrame, popUnchanged, prodVars
<1>2. PICK n \in 0..Len(order), k \in Out..Len(order) : Chain(n, k) /\ Freed(n) /\ Encoded(n)
  BY DEF IInv, Queue
<1>3. /\ n \in Nat /\ k \in Int /\ Len(order) \in Nat /\ Out = 0 - 1
      /\ \A i \in 1..Len(order) : order[i] \in Node /\ order[i] # Stub
  BY ListFacts
<1>4. k = n
  BY <1>2, <1>3 DEF Chain, Ends
<1>5. /\ n # Len(order)
      /\ tail = order[Len(order)] /\ next[tail] = Null
  BY <1>2, <1>4 DEF Chain, Ends
<1>6. n \in n..(Len(order) - 1) /\ n + 1 \in 1..Len(order)
  BY <1>3, <1>5
<1>7. next[Stub] = order[n + 1] /\ ~Unlinked(n + 1)
  BY <1>2, <1>4, <1>6 DEF Chain, Links
<1>8. Types'
  <2>1. head' \in Node \cup {Stub} /\ drainPc' \in DrainPc
    BY <1>3, <1>6, <1>7 DEF DrainPc
  <2> QED BY <1>1, <2>1 DEF IInv, Types, TypeOK, Collecting
<1>9. Flag'
  BY PopFlag DEF Collecting
<1>10. Senders'
  BY <1>1 DEF IInv, Senders, Mine
<1>11. \A i \in 1..Len(order) : Unlinked(i)' <=> Unlinked(i)
  BY <1>1 DEF Unlinked, Mine
<1>12. Ends(n, Out)'
  BY <1>1, <1>3, <1>5, <1>6, <1>7 DEF Ends
<1>13. Links(n, Out)'
  <2>1. \A i \in (n + 1)..(Len(order) - 1) : i # n /\ i + 1 \in 1..Len(order)
    BY <1>3
  <2>2. \A i \in (n + 1)..(Len(order) - 1) :
           next[order[i]] = IF Unlinked(i + 1)' THEN Null ELSE order[i + 1]
    BY <1>2, <1>4, <1>11, <2>1 DEF Chain, Links
  <2>3. Out \notin n..(Len(order) - 1) /\ ~(Out > n)
    BY <1>3
  <2> QED BY <1>1, <2>2, <2>3 DEF Links
<1>14. Pushers(n, Out)'
  <2> SUFFICES ASSUME NEW q \in Producers, sendPc[q] = "link"
               PROVE  \E i \in (n + 1)..Len(order) :
                         Mine(q) = order[i] /\ prev[q] = Before(i, Out) /\ (i = n + 1 => Out = n)
    BY <1>1 DEF Pushers, Before, Mine, Out
  <2>1. PICK i \in (n + 1)..Len(order) : Mine(q) = order[i] /\ prev[q] = Before(i, k)
    BY <1>2 DEF Chain, Pushers
  <2>2. i # n + 1
    BY <1>7, <2>1 DEF Unlinked
  <2>3. k # i - 1 /\ Out # i - 1
    BY <1>3, <1>4, <2>2
  <2> QED BY <2>1, <2>2, <2>3 DEF Before
<1>15. Drainer(n, Out)'
  BY <1>3 DEF Drainer
<1>16. Freed(n)' /\ Encoded(n)'
  BY <1>1, <1>2 DEF Freed, Encoded
<1>17. Out \in Out..Len(order)
  BY <1>3
<1> QED BY <1>1, <1>8, <1>9, <1>10, <1>12, <1>13, <1>14, <1>15, <1>16, <1>17 DEF IInv, Queue, Chain

(* The stub becomes the tail, behind whatever was pushed meanwhile.        *)
LEMMA StubXchgInv == ASSUME IInv, StubXchg PROVE IInv'
<1>1. /\ TypeOK /\ drainPc = "stubXchg" /\ drainPc' = "stubLink" /\ stubPrev' = tail
      /\ tail' = Stub /\ next' = [next EXCEPT ![Stub] = Null]
  BY DEF IInv, Types, StubXchg
<1>2. UNCHANGED <<head, messages, freed, count, m_write_queued, buffered, drainTasks, m_state,
                  sendPc, sent, prev, round, storeBuffered, order, out>>
  BY DEF StubXchg, popUnchanged, prodVars
<1>3. /\ next' \in [Node \cup {Stub} -> Node \cup {Stub, Null}] /\ next'[Stub] = Null
      /\ \A y \in Node : next'[y] = next[y]
  BY <1>1, NodeFacts DEF TypeOK
<1>4. PICK n \in 0..Len(order), k \in Out..Len(order) : Chain(n, k) /\ Freed(n) /\ Encoded(n)
  BY DEF IInv, Queue
<1>5. PICK L \in Nat : L = Len(order)
  BY ListFacts
<1>6. /\ n \in Nat /\ k = Out /\ Out = 0 - 1
      /\ \A i \in 1..L : order[i] \in Node /\ order[i] # Stub
  BY <1>1, <1>4, <1>5, ListFacts DEF Chain, Drainer
<1>7. n < L /\ head = order[n + 1] /\ tail = order[L] /\ next[tail] = Null
  BY <1>4, <1>5, <1>6 DEF Chain, Ends
<1>8. L \in 1..L /\ L - 1 \in Nat
  BY <1>6, <1>7
<1>9. Types'
  BY <1>1, <1>2, <1>3 DEF IInv, Types, TypeOK, Collecting, DrainPc
<1>10. Flag'
  <2>1. Draining /\ Draining'
    BY <1>1 DEF Draining
  <2> QED BY <1>2, <2>1 DEF IInv, Flag
<1>11. Senders'
  <2>1. \A q \in Producers : sendPc[q] = "xchg" => next'[Mine(q)] = Null
    BY <1>3, ListFacts DEF IInv, Senders
  <2> QED BY <1>2, <2>1 DEF IInv, Senders, Mine
<1>12. \A i \in 1..L : Unlinked(i)' <=> Unlinked(i)
  BY <1>2 DEF Unlinked, Mine
<1>13. Ends(n, L)'
  BY <1>1, <1>2, <1>3, <1>5, <1>6, <1>7 DEF Ends
<1>14. Links(n, L)'
  <2>1. ASSUME NEW i \in (n + 1)..(L - 1)
        PROVE  next'[order[i]] = IF Unlinked(i + 1)' THEN Null ELSE order[i + 1]
    <3>1. i \in 1..L /\ i + 1 \in 1..L /\ k # i /\ i \in (n + 1)..(Len(order) - 1)
      BY <1>5, <1>6
    <3>2. next[order[i]] = IF Unlinked(i + 1) THEN Null ELSE order[i + 1]
      BY <1>4, <3>1 DEF Chain, Links
    <3> QED BY <1>3, <1>6, <1>12, <3>1, <3>2
  <2>2. L \notin n..(L - 1)
    OBVIOUS
  <2>3. next'[order[L]] = Null
    BY <1>3, <1>6, <1>7, <1>8
  <2> QED BY <1>1, <1>2, <1>5, <2>1, <2>2, <2>3 DEF Links
<1>15. Pushers(n, L)'
  <2> SUFFICES ASSUME NEW q \in Producers, sendPc[q] = "link"
               PROVE  \E i \in (n + 1)..L :
                         Mine(q) = order[i] /\ prev[q] = Before(i, L) /\ (i = n + 1 => L = n)
    BY <1>2, <1>5 DEF Pushers, Before, Mine
  <2>1. PICK i \in (n + 1)..L :
           Mine(q) = order[i] /\ prev[q] = Before(i, k) /\ (i = n + 1 => k = n)
    BY <1>4, <1>5 DEF Chain, Pushers
  <2>2. i # n + 1 /\ k # i - 1 /\ L # i - 1
    BY <1>6, <2>1
  <2> QED BY <2>1, <2>2 DEF Before
<1>16. Drainer(n, L)'
  BY <1>1, <1>2, <1>7 DEF Drainer
<1>17. Freed(n)' /\ Encoded(n)'
  BY <1>2, <1>4 DEF Freed, Encoded
<1>18. n \in 0..Len(order') /\ L \in Out..Len(order')
  BY <1>2, <1>5, <1>6
<1> QED BY <1>9, <1>10, <1>11, <1>13, <1>14, <1>15, <1>16, <1>17, <1>18 DEF IInv, Queue, Chain

(* ... and is linked: the node in front of it is still in the list.        *)
LEMMA StubLinkInv == ASSUME IInv, StubLink PROVE IInv'
<1>1. /\ TypeOK /\ drainPc = "stubLink" /\ drainPc' = "popLast"
      /\ next' = [next EXCEPT ![stubPrev] = Stub]
  BY DEF IInv, Types, StubLink
<1>2. UNCHANGED <<tail, stubPrev, head, messages, freed, count, m_write_queued, buffered,
                  drainTasks, m_state, sendPc, sent, prev, round, storeBuffered, order, out>>
  BY DEF StubLink, popUnchanged, prodVars
<1>3. PICK n \in 0..Len(order), k \in Out..Len(order) : Chain(n, k) /\ Freed(n) /\ Encoded(n)
  BY DEF IInv, Queue
<1>4. /\ n \in Nat /\ k \in Int /\ Len(order) \in Nat /\ k > n /\ stubPrev = order[k]
      /\ \A i \in 1..Len(order) : order[i] \in Node /\ order[i] # Stub
  BY <1>1, <1>3, ListFacts DEF Chain, Drainer
<1>5. k \in 1..Len(order) /\ \A i \in 1..Len(order) : order[i] = order[k] => i = k
  BY <1>4 DEF IInv, Senders
<1>6. /\ next' \in [Node \cup {Stub} -> Node \cup {Stub, Null}] /\ next'[order[k]] = Stub
      /\ \A y \in Node \cup {Stub} : y # order[k] => next'[y] = next[y]
  BY <1>1, <1>4, <1>5 DEF TypeOK
<1>7. Types'
  BY <1>1, <1>2, <1>6 DEF IInv, Types, TypeOK, Collecting, DrainPc
<1>8. Flag'
  <2>1. Draining /\ Draining'
    BY <1>1 DEF Draining
  <2> QED BY <1>2, <2>1 DEF IInv, Flag
<1>9. Senders'
  <2>1. \A q \in Producers : sendPc[q] = "xchg" => next'[Mine(q)] = Null
    BY <1>5, <1>6, ListFacts DEF IInv, Senders
  <2> QED BY <1>2, <2>1 DEF IInv, Senders, Mine
<1>10. \A i \in 1..Len(order) : Unlinked(i)' <=> Unlinked(i)
  BY <1>2 DEF Unlinked, Mine
<1>11. Ends(n, k)'
  <2>1. tail # order[k] /\ tail \in Node \cup {Stub}
    <3>1. CASE k = Len(order)
      BY <1>3, <1>4, <1>5, <3>1 DEF Chain, Ends
    <3>2. CASE k # Len(order)
      <4>1. tail = order[Len(order)] /\ Len(order) \in 1..Len(order)
        BY <1>3, <1>4, <1>5, <3>2 DEF Chain, Ends
      <4> QED BY <1>4, <1>5, <3>2, <4>1
    <3> QED BY <3>1, <3>2
  <2>2. next'[tail] = Null
    BY <1>3, <1>6, <2>1 DEF Chain, Ends
  <2> QED BY <1>2, <1>3, <2>2 DEF Chain, Ends
<1>12. Links(n, k)'
  <2>1. ASSUME NEW i \in (n + 1)..(Len(order) - 1), k # i
        PROVE  next'[order[i]] = IF Unlinked(i + 1)' THEN Null ELSE order[i + 1]
    <3>1. i \in 1..Len(order) /\ i + 1 \in 1..Len(order)
      BY <1>4
    <3>2. next[order[i]] = IF Unlinked(i + 1) THEN Null ELSE order[i + 1]
      BY <1>3, <2>1 DEF Chain, Links
    <3>3. order[i] # order[k] /\ order[i] \in Node
      BY <1>4, <1>5, <2>1, <3>1
    <3> QED BY <1>6, <1>10, <3>1, <3>2, <3>3
  <2>2. ASSUME k \in n..(Len(order) - 1)
        PROVE  next'[Stub] = IF Unlinked(k + 1)' THEN Null ELSE order[k + 1]
    <3>1. k + 1 \in 1..Len(order) /\ Stub # order[k]
      BY <1>4, <1>5, <2>2
    <3>2. next[Stub] = IF Unlinked(k + 1) THEN Null ELSE order[k + 1]
      BY <1>3, <2>2 DEF Chain, Links
    <3> QED BY <1>6, <1>10, <3>1, <3>2
  <2> QED BY <1>1, <1>2, <1>6, <2>1, <2>2 DEF Links
<1>13. Pushers(n, k)'
  BY <1>2, <1>3 DEF Chain, Pushers, Before, Mine
<1>14. Drainer(n, k)'
  BY <1>1, <1>4 DEF Drainer
<1>15. Freed(n)' /\ Encoded(n)'
  BY <1>2, <1>3 DEF Freed, Encoded
<1> QED BY <1>2, <1>7, <1>8, <1>9, <1>11, <1>12, <1>13, <1>14, <1>15 DEF IInv, Queue, Chain

(* With the stub away or further back the head is a node.                  *)
LEMMA HeadIsNode ==
  ASSUME IInv, drainPc \in {"popNext", "popTail", "popLast"}
  PROVE  head # Stub
<1>1. PICK n \in 0..Len(order), k \in Out..Len(order) : Chain(n, k)
  BY DEF IInv, Queue
<1>2. k # n
  BY <1>1, ListFacts DEF Chain, Drainer
<1> QED BY <1>1, <1>2, HeadFacts, NodeFacts

LEMMA PopHeadInv == ASSUME IInv, PopHead PROVE IInv'
<1>1. PopFrame /\ UNCHANGED next /\ drainPc = "pop"
  BY DEF PopHead, PopFrame
<1>2. CASE head = Stub /\ next[Stub] = Null /\ PoppedNothing
  BY <1>1, <1>2, PopGoesOn DEF PoppedNothing, Collecting
<1>3. CASE /\ head = Stub /\ next[Stub] # Null /\ head' = next[Stub]
           /\ drainPc' = "popNext" /\ UNCHANGED <<messages, freed, count>>
  BY <1>1, <1>3, SkipStubInv
<1>4. CASE head # Stub /\ next[head] # Null /\ Popped(head)
  BY <1>1, <1>4, PoppedInv
<1>5. CASE /\ head # Stub /\ next[head] = Null
           /\ drainPc' = "popTail" /\ UNCHANGED <<head, messages, freed, count>>
  <2>1. \A n \in 0..Len(order) : \A k \in Out..Len(order) : Chain(n, k) => k # n
    BY <1>5 DEF Chain, Ends
  <2> QED BY <1>1, <1>5, <2>1, PopGoesOn DEF Collecting
<1> QED BY <1>2, <1>3, <1>4, <1>5 DEF PopHead

LEMMA PopNextInv == ASSUME IInv, PopNext PROVE IInv'
<1>1. PopFrame /\ UNCHANGED next /\ drainPc = "popNext" /\ head # Stub
  BY HeadIsNode DEF PopNext, PopFrame
<1>2. CASE next[head] # Null /\ Popped(head)
  BY <1>1, <1>2, PoppedInv
<1>3. CASE drainPc' = "popTail" /\ UNCHANGED <<head, messages, freed, count>>
  <2>1. \A n \in 0..Len(order) : \A k \in Out..Len(order) : Chain(n, k) => k # n
    BY <1>1 DEF Chain, Ends
  <2> QED BY <1>1, <1>3, <2>1, PopGoesOn DEF Collecting
<1> QED BY <1>2, <1>3 DEF PopNext

(* The last node with no push behind it: the stub is not in the list.      *)
LEMMA PopTailInv == ASSUME IInv, PopTail PROVE IInv'
<1>1. PopFrame /\ UNCHANGED next /\ drainPc = "popTail" /\ head # Stub
  BY HeadIsNode DEF PopTail, PopFrame
<1>2. CASE PoppedNothing
  BY <1>1, <1>2, PopGoesOn DEF PoppedNothing, Collecting
<1>3. CASE head = tail /\ drainPc' = "stubXchg" /\ UNCHANGED <<head, messages, freed, count>>
  <2>1. ASSUME NEW n \in 0..Len(order), NEW k \in Out..Len(order), Chain(n, k) PROVE k = Out
    <3>1. k # n
      BY <1>1, <2>1 DEF Chain, Ends
    <3>2. /\ n \in Nat /\ k \in Int /\ Len(order) \in Nat /\ n + 1 \in 1..Len(order)
          /\ k = Out \/ k \in (n + 1)..Len(order)
          /\ head = order[n + 1]
      BY <2>1, <3>1, HeadFacts
    <3>3. k # Len(order) /\ tail = order[Len(order)]
      BY <1>1, <1>3, <2>1 DEF Chain, Ends
    <3>4. n + 1 = Len(order)
      <4>1. Len(order) \in 1..Len(order) /\ order[n + 1] = order[Len(order)]
        <5>1. Len(order) \in 1..Len(order)
          BY <3>2
        <5>2. order[n + 1] = order[Len(order)]
          BY <1>3, <3>2, <3>3, Zenon
        <5> QED BY <5>1, <5>2
      <4>2. \A i, j \in 1..Len(order) : order[i] = order[j] => i = j
        BY DEF IInv, Senders
      <4> QED BY <3>2, <4>1, <4>2
    <3> QED BY <3>2, <3>3, <3>4
  <2> QED BY <1>1, <1>3, <2>1, PopGoesOn DEF Collecting
<1> QED BY <1>2, <1>3 DEF PopTail

LEMMA PopLastInv == ASSUME IInv, PopLast PROVE IInv'
<1>1. PopFrame /\ UNCHANGED next /\ drainPc = "popLast" /\ head # Stub
  BY HeadIsNode DEF PopLast, PopFrame
<1>2. CASE next[head] # Null /\ Popped(head)
  BY <1>1, <1>2, PoppedInv
<1>3. CASE PoppedNothing
  BY <1>1, <1>3, PopGoesOn DEF PoppedNothing, Collecting
<1> QED BY <1>2, <1>3 DEF PopLast

-----------------------------------------------------------------------------
LEMMA InitInv == Init => IInv
<1> SUFFICES ASSUME Init PROVE IInv
  OBVIOUS
<1>1. Types
  <2>1. <<>> \in Seq(Node) /\ 0 \in 0..MaxSends /\ 0 \in 0..DrainRounds /\ 0 \in 0..BatchMax
    BY BoundsAssumption, EmptySeq
  <2>2. next \in [Node \cup {Stub} -> Node \cup {Stub, Null}]
    BY DEF Init
  <2>3. storeBuffered \in BOOLEAN
    BY BuildsAssumption DEF Init
  <2>4. TypeOK
    <3>1. /\ sendPc \in [Producers -> {"idle", "xchg", "link", "arm", "queue"}]
          /\ sent \in [Producers -> 0..MaxSends] /\ prev \in [Producers -> Node \cup {Stub}]
      BY <2>1 DEF Init
    <3>2. messages \in Seq(Node) /\ order \in Seq(Node) /\ out \in Seq(Node)
      BY <2>1 DEF Init
    <3>3. m_write_queued \in BOOLEAN /\ buffered \in BOOLEAN
      BY DEF Init
    <3> QED BY <2>1, <2>2, <2>3, <3>1, <3>2, <3>3 DEF Init, TypeOK, DrainPc
  <2> QED BY <2>4 DEF Init, Types, Collecting
<1>2. Flag
  BY DEF Init, Flag, Draining
<1>3. Len(order) = 0 /\ Len(out) = 0 /\ Len(messages) = 0 /\ Out = 0 - 1
  BY DEF Init, Out
<1>4. Senders
  BY <1>3 DEF Init, Senders
<1>5. Ends(0, 0) /\ Pushers(0, 0) /\ Drainer(0, 0) /\ Encoded(0)
  BY <1>3 DEF Init, Ends, Pushers, Drainer, Encoded
<1>6. Links(0, 0)
  BY <1>3 DEF Links
<1>7. Freed(0)
  BY FS_EmptySet DEF Init, Freed
<1>8. 0 \in 0..Len(order) /\ 0 \in Out..Len(order)
  BY <1>3
<1> QED BY <1>1, <1>2, <1>4, <1>5, <1>6, <1>7, <1>8 DEF IInv, Queue, Chain

LEMMA NextInv == IInv /\ [Next]_vars => IInv'
<1> SUFFICES ASSUME IInv, [Next]_vars PROVE IInv'
  OBVIOUS
<1>1. ASSUME NEW p \in Producers, Send(p) \/ SendStep(p) PROVE IInv'
  BY <1>1, SendInv, PushXchgInv, PushLinkInv, ArmInv, QueueDrainInv DEF SendStep
<1>2. CASE DrainStep
  BY <1>2, StartDrainInv, PopHeadInv, PopNextInv, PopTailInv, StubXchgInv, StubLinkInv,
     PopLastInv, FlushBatchInv, ClearQueuedInv, RecheckEmptyInv, RearmInv, RequeueInv
     DEF DrainStep
<1>3. CASE UNCHANGED vars
  <2>1. UNCHANGED <<next, tail, head, m_write_queued, buffered, drainTasks, m_state, sendPc,
                    sent, prev, drainPc, round, count, messages, stubPrev, storeBuffered,
                    order, freed, out>>
    BY <1>3 DEF vars, queueVars, prodVars, drainVars
  <2>2. Types' /\ Flag'
    BY <2>1 DEF IInv, Types, TypeOK, Flag, Draining
  <2> QED BY <2>1, <2>2, QueueSame DEF IInv
<1> QED BY <1>1, <1>2, <1>3, StoreLandsInv, CloseInv DEF Next

LEMMA Invariance == Spec => []IInv
  BY InitInv, NextInv, PTL DEF Spec

(* The variables keep their types; in particular at most one drain task is *)
(* queued, and rounds and batches stay within their limits.                *)
THEOREM TypeCorrect == Spec => []TypeOK
<1>1. IInv => TypeOK
  BY DEF IInv, Types
<1> QED BY <1>1, Invariance, PTL

(* m_write_queued is up exactly while one drain is being scheduled, is     *)
(* queued or runs, once the consumer's own store of FALSE has landed.      *)
THEOREM FlagIsExact == Spec => []FlagExact
<1>1. IInv => FlagExact
  <2> SUFFICES ASSUME IInv PROVE FlagExact
    OBVIOUS
  <2> DEFINE Q == {p \in Producers : sendPc[p] = "queue"}
             d == IF Draining THEN 1 ELSE 0
  <2>1. drainTasks \in 0..1 /\ buffered \in BOOLEAN /\ m_write_queued \in BOOLEAN
    BY DEF IInv, Types, TypeOK
  <2>2. Owners = Cardinality(Q) + drainTasks + d
    BY DEF Owners
  <2>3. CASE Q = {}
    <3>1. Cardinality(Q) = 0
      BY <2>3, FS_EmptySet
    <3>2. m_write_queued /\ ~buffered <=> drainTasks = 1 \/ Draining
      BY <2>3 DEF IInv, Flag
    <3>3. drainTasks = 1 => ~Draining
      BY DEF IInv, Flag
    <3> HIDE DEF Q
    <3>4. Cardinality(Q) + drainTasks + d = IF m_write_queued /\ ~buffered THEN 1 ELSE 0
      BY <2>1, <3>1, <3>2, <3>3
    <3> QED BY <2>2, <3>4 DEF FlagExact
  <2>4. CASE Q # {}
    <3>1. PICK p \in Producers : sendPc[p] = "queue"
      BY <2>4
    <3>2. Q = {p} /\ drainTasks = 0 /\ ~Draining
      BY <3>1 DEF IInv, Flag
    <3>3. Cardinality(Q) = 1
      BY <3>2, FS_Singleton
    <3>4. m_write_queued /\ ~buffered
      BY <3>1 DEF IInv, Flag
    <3> HIDE DEF Q
    <3> QED BY <2>2, <3>2, <3>3, <3>4 DEF FlagExact
  <2> QED BY <2>3, <2>4
<1> QED BY <1>1, Invariance, PTL

(* No producer between its two stores holds a node that pop has freed, and *)
(* neither does the queue itself.                                          *)
THEOREM NothingFreedInUse == Spec => []NoUseAfterFree
<1>1. IInv => NoUseAfterFree
  <2> SUFFICES ASSUME IInv PROVE NoUseAfterFree
    OBVIOUS
  <2>1. PICK n \in 0..Len(order), k \in Out..Len(order) : Chain(n, k) /\ Freed(n)
    BY DEF IInv, Queue
  <2>2. /\ n \in Nat /\ k \in Int /\ Len(order) \in Nat /\ Out = 0 - 1
        /\ \A i \in 1..Len(order) : order[i] # Stub
    BY ListFacts
  <2>3. Stub \notin freed
    BY <2>1, <2>2 DEF Freed
  <2>4. ASSUME NEW i \in (n + 1)..Len(order) PROVE order[i] \notin freed
    <3>1. \A j \in 1..n : j \in 1..Len(order) /\ i \in 1..Len(order) /\ j # i
      BY <2>2
    <3> QED BY <2>1, <3>1 DEF Freed, IInv, Senders
  <2>5. ASSUME NEW p \in Producers, sendPc[p] = "link" PROVE prev[p] \notin freed
    <3>1. PICK i \in (n + 1)..Len(order) : prev[p] = Before(i, k) /\ (i = n + 1 => k = n)
      BY <2>1, <2>5 DEF Chain, Pushers
    <3>2. prev[p] = Stub \/ (prev[p] = order[i - 1] /\ i - 1 \in (n + 1)..Len(order))
      BY <2>2, <3>1 DEF Before
    <3> QED BY <2>3, <2>4, <3>2
  <2>6. head \notin freed
    <3>1. CASE k = n
      BY <2>1, <2>3, <3>1 DEF Chain, Ends
    <3>2. CASE k # n
      <4>1. head = order[n + 1] /\ n + 1 \in (n + 1)..Len(order)
        BY <2>1, <2>2, <3>2, HeadFacts
      <4> QED BY <2>4, <4>1
    <3> QED BY <3>1, <3>2
  <2>7. drainPc = "stubLink" => stubPrev \notin freed
    BY <2>1, <2>2, <2>4 DEF Chain, Drainer
  <2> QED BY <2>5, <2>6, <2>7 DEF NoUseAfterFree
<1> QED BY <1>1, Invariance, PTL

(* The messages leave the queue in the order of their tail exchange, none  *)
(* twice and none skipped, and while the connection is up they are encoded *)
(* in that order.                                                          *)
THEOREM QueueIsFifo == Spec => []QueueOrder
<1>1. IInv => QueueOrder
  <2> SUFFICES ASSUME IInv PROVE QueueOrder
    OBVIOUS
  <2>1. PICK n \in 0..Len(order) : Freed(n) /\ Encoded(n)
    BY DEF IInv, Queue
  <2> DEFINE taken == SubSeq(order, 1, n)
  <2>2. n \in Nat /\ Len(order) \in Nat /\ order \in Seq(Node)
    BY ListFacts
  <2>3. taken \in Seq(Node) /\ Len(taken) = n /\ \A i \in 1..n : taken[i] = order[i]
    <3>1. \A i \in 1..n : order[i] \in Node
      BY <2>2, LenProperties
    <3>2. /\ taken \in Seq(Node) /\ Len(taken) = IF 1 <= n THEN n - 1 + 1 ELSE 0
          /\ \A i \in 1..(n - 1 + 1) : taken[i] = order[1 + i - 1]
      BY <2>2, <3>1, SubSeqProperties
    <3> HIDE DEF taken
    <3>3. n - 1 + 1 = n /\ \A i \in 1..n : 1 + i - 1 = i
      BY <2>2
    <3> QED BY <2>2, <3>2, <3>3
  <2>4. Cardinality(freed) = n /\ freed = {order[i] : i \in 1..n}
    BY <2>1 DEF Freed
  <2> HIDE DEF taken
  <2>5. freed = {taken[i] : i \in 1..Len(taken)}
    BY <2>3, <2>4
  <2>6. ASSUME m_state = "Connected" PROVE out \o messages = taken
    <3>1. out \in Seq(Node) /\ messages \in Seq(Node) /\ Len(out) \in Nat /\ Len(messages) \in Nat
      BY LenProperties DEF IInv, Types, TypeOK
    <3>2. /\ Len(out) + Len(messages) = n
          /\ \A i \in 1..Len(out) : out[i] = order[i]
          /\ \A i \in 1..Len(messages) : messages[i] = order[Len(out) + i]
      BY <2>1, <2>6 DEF Encoded
    <3>3. /\ out \o messages \in Seq(Node) /\ Len(out \o messages) = n
          /\ \A i \in 1..n : (out \o messages)[i] =
                               IF i <= Len(out) THEN out[i] ELSE messages[i - Len(out)]
      BY <3>1, <3>2, ConcatProperties
    <3>4. ASSUME NEW i \in 1..n PROVE (out \o messages)[i] = taken[i]
      <4>1. CASE i <= Len(out)
        BY <2>3, <3>1, <3>2, <3>3, <4>1
      <4>2. CASE i > Len(out)
        <5>1. i - Len(out) \in 1..Len(messages) /\ Len(out) + (i - Len(out)) = i
          BY <3>1, <3>2, <4>2
        <5>2. (out \o messages)[i] = messages[i - Len(out)]
          BY <3>1, <3>3, <4>2
        <5> QED BY <2>3, <3>2, <5>1, <5>2
      <4>3. i \in Int
        BY <2>2
      <4>4. i <= Len(out) \/ i > Len(out)
        BY <3>1, <4>3
      <4> QED BY <4>1, <4>2, <4>4
    <3> QED BY <2>3, <3>3, <3>4, SeqEqual
  <2> QED BY <2>4, <2>5, <2>6 DEF QueueOrder, taken
<1> QED BY <1>1, Invariance, PTL
=============================================================================
