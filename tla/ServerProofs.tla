----------------------------- MODULE ServerProofs -----------------------------
(***************************************************************************)
(* Proofs about Server for any number of connections and stopping threads. *)
(*                                                                         *)
(* The inductive invariant has two halves.  ConnInv is about connections:  *)
(* what the IO thread's queue may hold for a connection in each state, in  *)
(* particular that connectEstablished is queued before any graceful        *)
(* shutdown, and that epoll's interest follows the callbacks.  StopOrder   *)
(* is about the threads: once a thread has got past waiting for the main   *)
(* loop, the loop cannot take another turn, and whoever stops the server   *)
(* has drained the workers, unless start() does it after a poll error.     *)
(* Closures that services keep and run later are outside that order.       *)
(***************************************************************************)
EXTENDS Server, FiniteSetTheorems, FunctionTheorems, SequenceTheorems, TLAPS

TaskType == {"establish", "drain", "flush", "shutdown", "destroy"} \X Conns

States == Live \cup {"none", "Closed", "destroyed"}

(* What the state of its connection is while a task is queued.  st stands  *)
(* for the function state or its next value.                               *)
TaskOK(st, t) ==
    /\ st[t[2]] # "none"
    /\ t[1] = "destroy" => st[t[2]] \in {"Closed", "destroyed"}
    /\ t[1] \in {"drain", "flush"} => st[t[2]] # "NotConnected"

(* connectEstablished of c is in q, before every graceful shutdown of c.   *)
EstablishFirst(q, c) ==
    \E i \in 1..Len(q) : /\ q[i] = <<"establish", c>>
                         /\ \A j \in 1..Len(q) : q[j] = <<"shutdown", c>> => i < j

QueueOK(st, q) ==
    /\ q \in Seq(TaskType)
    /\ \A i \in 1..Len(q) : TaskOK(st, q[i])
    /\ \A c \in Conns : st[c] = "NotConnected" => EstablishFirst(q, c)

(* A registered descriptor with the interest its callbacks ask for.        *)
Attached(e) ==
    e \in FdEvent /\ IsRegistered(e) /\ e.interest = e.callbacks \cap {"IN", "OUT"}

ConnOK(c) ==
    /\ Open(c) => Attached(fdEvent[c])
    /\ ~Open(c) => ~IsRegistered(fdEvent[c])
    /\ out[c] /\ Open(c) => m_flush_queued[c] \/ IsListening(fdEvent[c], "OUT")
    /\ state[c] \in {"none", "NotConnected"} => ~out[c] /\ worker[c] = "idle"
    /\ c \in m_connections => state[c] # "none"
    /\ peer[c] \in {"away", "connecting"} => state[c] = "none"

Accepted ==
    /\ mainPc \in {"accept", "queue"} =>
          accepting \in Conns /\ state[accepting] = "none" /\ peer[accepting] \in {"open", "closed"}
    /\ mainPc = "insert" => accepting \in Conns /\ state[accepting] # "none"

ConnInv == CountExact /\ QueueOK(state, ioTasks) /\ Accepted /\ \A c \in Conns : ConnOK(c)

InTcpStop == {"loopStop", "wait", "shutdown", "reset", "join"}
PastWait == {"shutdown", "reset", "join"}
Starting == {"idle", "monitor", "handlers", "tcpStart", "active", "group"}
InTurn == {"poll", "accept", "queue", "insert"}

(* No thread of the pool is in a service, and none will be.                *)
Quiet == dispatcherStopping /\ PoolIdle

StopOrder ==
    /\ mainPc \in Starting => ~ready
    /\ mainPc \in Starting \ {"active", "group"} =>
          ~m_running /\ ~mainStop /\ \A t \in Threads : stopPc[t] \notin InTcpStop
    /\ m_running => ~mainStop /\ \A t \in Threads : stopPc[t] \notin InTcpStop
    /\ mainPc \in InTurn \cup {"group", "check", "ended"} => m_main_loop_active
    /\ \A t \in Threads : stopPc[t] \in InTcpStop \ {"loopStop"} => mainStop
    /\ (\E t \in Threads : stopPc[t] \in PastWait) \/ group = "null" \/ ioStop =>
          mainStop /\ mainPc \notin InTurn
    /\ stopPc[Main] # "idle" =>
          /\ mainPc \in {"selfStop", "tcpReturned", "joinMonitor", "returned"}
          /\ stopPc[Main] # "returned" => mainPc = "selfStop"
          /\ "main" \in pollFailed
    /\ mainPc \in {"ended", "after"} => mainStop \/ "main" \in pollFailed
    /\ ioPc = "exited" => ioStop \/ "io" \in pollFailed
    /\ \A t \in Threads : stopPc[t] = "draining" => dispatcherStopping
    /\ \A t \in Threads \ {Main} : stopPc[t] \in InTcpStop \cup {"lock"} => Quiet
    /\ ioStop => Quiet \/ "main" \in pollFailed

IInv == TypeOK /\ ConnInv /\ StopOrder /\ GroupAlive

(* A connection's state only moves on: NotConnected, Connected,            *)
(* HalfClosing, Closed, destroyed.                                         *)
Later(s) ==
    CASE s = "none" -> {"none", "NotConnected"}
      [] s = "NotConnected" -> {"NotConnected", "Connected"}
      [] s = "Connected" -> {"Connected", "HalfClosing", "Closed"}
      [] s = "HalfClosing" -> {"HalfClosing", "Closed"}
      [] s = "Closed" -> {"Closed", "destroyed"}
      [] s = "destroyed" -> {"destroyed"}

Forward == \A c \in Conns : state'[c] \in Later(state[c])

(* No step takes a connection back: it is not established twice, it is not *)
(* written to or shut down before it is established, and the order in      *)
(* which the IO loop runs the tasks that several threads queued never      *)
(* reopens a closed one or destroys an open one.                           *)
StateForward == [][Forward]_vars

-----------------------------------------------------------------------------
(* Facts about the operators the model is built from.                      *)

(* What attaching, detaching and changing write interest do to a           *)
(* descriptor and to what epoll was told about it.                         *)
LEMMA FdEventFacts ==
  ASSUME NEW e \in FdEvent
  PROVE  /\ Attached(Attach(e))
         /\ Detach(e) \in FdEvent /\ ~IsRegistered(Detach(e))
         /\ Attached(UpdateFdEvent(Listen(e, "OUT")))
         /\ IsListening(UpdateFdEvent(Listen(e, "OUT")), "OUT")
         /\ Attached(UpdateFdEvent(Cancel(e, "OUT")))
<1>1. "unregistered" \notin {"IN", "OUT"}
  OBVIOUS
<1>2. ASSUME NEW f \in FdEvent PROVE Attached(UpdateFdEvent(f))
  <2>1. UpdateFdEvent(f).callbacks = f.callbacks
    BY DEF UpdateFdEvent, FdEvent, TriggerEvent, Unregistered
  <2>2. UpdateFdEvent(f).interest = f.callbacks \cap {"IN", "OUT"}
    BY DEF UpdateFdEvent, ToEpollEvents, ListenMask, IsListening, FdEvent, TriggerEvent, Unregistered
  <2>3. UpdateFdEvent(f) \in FdEvent
    BY <2>2 DEF UpdateFdEvent, FdEvent, TriggerEvent, Unregistered
  <2>4. f.callbacks \cap {"IN", "OUT"} # {"unregistered"}
    BY <1>1
  <2> QED BY <2>1, <2>2, <2>3, <2>4 DEF Attached, IsRegistered, Unregistered
<1>3. /\ SetErrorCallback(Listen(e, "IN")) \in FdEvent
      /\ Listen(e, "OUT") \in FdEvent /\ Cancel(e, "OUT") \in FdEvent
  BY DEF SetErrorCallback, Listen, Cancel, FdEvent, TriggerEvent, Unregistered
<1>4. Attached(Attach(e))
  BY <1>2, <1>3 DEF Attach
<1>5. Detach(e) \in FdEvent /\ ~IsRegistered(Detach(e))
  <2>1. RemoveFdEvent(e) \in FdEvent /\ RemoveFdEvent(e).interest = Unregistered
    BY DEF RemoveFdEvent, FdEvent
  <2>2. ASSUME NEW f \in FdEvent
        PROVE  ClearCallbacks(f) \in FdEvent /\ ClearCallbacks(f).interest = f.interest
    BY DEF ClearCallbacks, FdEvent
  <2> QED BY <2>1, <2>2 DEF Detach, IsRegistered
<1>6. IsListening(UpdateFdEvent(Listen(e, "OUT")), "OUT")
  BY DEF IsListening, UpdateFdEvent, Listen, FdEvent
<1> QED BY <1>2, <1>3, <1>4, <1>5, <1>6

(* epoll reports OUT of an attached descriptor that listens for it.        *)
LEMMA AttachedReports ==
  ASSUME NEW e, Attached(e)
  PROVE  IsListening(e, "OUT") => Reports(e, "OUT")
  BY DEF Attached, Reports, IsListening

(* Appending a task, taking the head, appending several.                   *)
LEMMA AppendTask ==
  ASSUME NEW q \in Seq(TaskType), NEW t \in TaskType
  PROVE  /\ Append(q, t) \in Seq(TaskType)
         /\ \A i \in 1..Len(Append(q, t)) :
               Append(q, t)[i] = t \/ (i \in 1..Len(q) /\ Append(q, t)[i] = q[i])
         /\ \A c : EstablishFirst(q, c) => EstablishFirst(Append(q, t), c)
         /\ \A c : t = <<"establish", c>> /\ (\A i \in 1..Len(q) : q[i] # <<"shutdown", c>>)
                     => EstablishFirst(Append(q, t), c)
<1>1. /\ Append(q, t) \in Seq(TaskType) /\ Len(q) \in Nat
      /\ Len(Append(q, t)) = Len(q) + 1 /\ Append(q, t)[Len(q) + 1] = t
      /\ \A i \in 1..Len(q) : Append(q, t)[i] = q[i]
  OBVIOUS
<1> DEFINE r == Append(q, t)
<1>2. /\ \A i \in 1..Len(r) : i \in 1..Len(q) \/ i = Len(q) + 1
      /\ \A i \in 1..Len(q) : i \in 1..Len(r) /\ i < Len(q) + 1
      /\ Len(q) + 1 \in 1..Len(r)
  BY <1>1
<1> HIDE DEF r
<1>3. ASSUME NEW c, EstablishFirst(q, c) PROVE EstablishFirst(r, c)
  <2>1. PICK i \in 1..Len(q) : /\ q[i] = <<"establish", c>>
                               /\ \A j \in 1..Len(q) : q[j] = <<"shutdown", c>> => i < j
    BY <1>3 DEF EstablishFirst
  <2>2. i \in 1..Len(r) /\ r[i] = <<"establish", c>>
    BY <1>1, <1>2, <2>1 DEF r
  <2>3. \A j \in 1..Len(r) : r[j] = <<"shutdown", c>> => i < j
    BY <1>1, <1>2, <2>1 DEF r
  <2> QED BY <2>2, <2>3 DEF EstablishFirst
<1>4. ASSUME NEW c, t = <<"establish", c>>, \A i \in 1..Len(q) : q[i] # <<"shutdown", c>>
      PROVE  EstablishFirst(r, c)
  <2>1. r[Len(q) + 1] = <<"establish", c>>
    BY <1>1, <1>4 DEF r
  <2>2. \A j \in 1..Len(r) : r[j] # <<"shutdown", c>>
    <3>1. t[1] = "establish" /\ <<"shutdown", c>>[1] = "shutdown"
      BY <1>4
    <3> QED BY <1>1, <1>2, <1>4, <3>1 DEF r
  <2> QED BY <1>2, <2>1, <2>2 DEF EstablishFirst
<1>5. \A i \in 1..Len(r) : r[i] = t \/ (i \in 1..Len(q) /\ r[i] = q[i])
  BY <1>1, <1>2 DEF r
<1>6. \A c : EstablishFirst(q, c) => EstablishFirst(r, c)
  BY <1>3
<1>7. \A c : t = <<"establish", c>> /\ (\A i \in 1..Len(q) : q[i] # <<"shutdown", c>>)
              => EstablishFirst(r, c)
  BY <1>4
<1> QED BY ONLY <1>1, <1>5, <1>6, <1>7 DEF r

LEMMA TailTask ==
  ASSUME NEW q \in Seq(TaskType), q # <<>>
  PROVE  /\ Head(q) \in TaskType /\ Head(q) = q[1] /\ 1 \in 1..Len(q)
         /\ Tail(q) \in Seq(TaskType)
         /\ \A i \in 1..Len(Tail(q)) : i + 1 \in 1..Len(q) /\ Tail(q)[i] = q[i + 1]
         /\ \A c : EstablishFirst(q, c) /\ Head(q) # <<"establish", c>>
                     => EstablishFirst(Tail(q), c)
<1>1. /\ Head(q) \in TaskType /\ Head(q) = q[1]
      /\ Len(q) \in Nat /\ Len(q) >= 1
      /\ Tail(q) \in Seq(TaskType) /\ Len(Tail(q)) = Len(q) - 1
      /\ \A i \in 1..Len(Tail(q)) : Tail(q)[i] = q[i + 1]
  OBVIOUS
<1>2. \A i \in 1..Len(Tail(q)) : i + 1 \in 1..Len(q)
  BY <1>1
<1>3. ASSUME NEW c, EstablishFirst(q, c), Head(q) # <<"establish", c>>
      PROVE  EstablishFirst(Tail(q), c)
  <2>1. PICK i \in 1..Len(q) : /\ q[i] = <<"establish", c>>
                               /\ \A j \in 1..Len(q) : q[j] = <<"shutdown", c>> => i < j
    BY <1>3 DEF EstablishFirst
  <2>2. i - 1 \in 1..Len(Tail(q)) /\ Tail(q)[i - 1] = <<"establish", c>>
    BY <1>1, <1>3, <2>1
  <2>3. \A j \in 1..Len(Tail(q)) : Tail(q)[j] = <<"shutdown", c>> => i - 1 < j
    BY <1>1, <1>2, <2>1
  <2> QED BY <2>2, <2>3 DEF EstablishFirst
<1> QED BY <1>1, <1>2, <1>3

(* SetToSeq of a finite set is a sequence of its elements.                 *)
LEMMA SetToSeqType ==
  ASSUME NEW S, IsFiniteSet(S)
  PROVE  SetToSeq(S) \in Seq(S)
<1>1. Cardinality(S) \in Nat /\ ExistsBijection(1..Cardinality(S), S)
  BY FS_CardinalityType
<1>2. \E f \in [1..Cardinality(S) -> S] : IsInjective(f)
  BY <1>1 DEF ExistsBijection, Bijection, Injection, IsInjective
<1>3. SetToSeq(S) \in [1..Cardinality(S) -> S]
  BY <1>2 DEF SetToSeq
<1> QED BY <1>1, <1>3

LEMMA ConcatTasks ==
  ASSUME NEW q \in Seq(TaskType), NEW C \in SUBSET Conns
  PROVE  LET r == q \o SetToSeq({"shutdown"} \X C)
         IN /\ r \in Seq(TaskType)
            /\ \A i \in 1..Len(r) : \/ i \in 1..Len(q) /\ r[i] = q[i]
                                    \/ \E c \in C : r[i] = <<"shutdown", c>>
            /\ \A c : EstablishFirst(q, c) => EstablishFirst(r, c)
<1> DEFINE S == {"shutdown"} \X C
           s == SetToSeq(S)
           r == q \o s
<1>1. IsFiniteSet(S)
  <2>1. IsFiniteSet(C)
    BY FS_Subset, ServerAssumption
  <2>2. IsFiniteSet({"shutdown"})
    BY FS_Singleton
  <2> QED BY <2>1, <2>2, FS_Product
<1>2. s \in Seq(S)
  BY <1>1, SetToSeqType
<1> HIDE DEF s
<1>3. S \subseteq TaskType
  BY DEF TaskType
<1>4. s \in Seq(TaskType) /\ \A i \in 1..Len(s) : s[i] \in S
  BY <1>2, <1>3
<1>5. /\ r \in Seq(TaskType) /\ Len(r) = Len(q) + Len(s)
      /\ Len(q) \in Nat /\ Len(s) \in Nat
      /\ \A i \in 1..Len(q) : r[i] = q[i]
      /\ \A i \in 1..Len(r) : i > Len(q) => r[i] = s[i - Len(q)]
  BY <1>4
<1> HIDE DEF r
<1>6. ASSUME NEW i \in 1..Len(r), i \notin 1..Len(q)
      PROVE  \E c \in C : r[i] = <<"shutdown", c>>
  <2>1. i > Len(q) /\ i - Len(q) \in 1..Len(s)
    BY <1>5, <1>6
  <2>2. r[i] \in S
    BY <1>4, <1>5, <2>1
  <2> QED BY <2>2
<1>7. ASSUME NEW c, EstablishFirst(q, c) PROVE EstablishFirst(r, c)
  <2>1. PICK i \in 1..Len(q) : /\ q[i] = <<"establish", c>>
                               /\ \A j \in 1..Len(q) : q[j] = <<"shutdown", c>> => i < j
    BY <1>7 DEF EstablishFirst
  <2>2. i \in 1..Len(r) /\ r[i] = <<"establish", c>>
    BY <1>5, <2>1
  <2>3. \A j \in 1..Len(r) : r[j] = <<"shutdown", c>> => i < j
    BY <1>5, <2>1
  <2> QED BY <2>2, <2>3 DEF EstablishFirst
<1> QED BY <1>5, <1>6, <1>7 DEF r, s

(* What is queued stays right when states move on and no connection is new. *)
LEMMA QueueStays ==
  ASSUME NEW s \in [Conns -> States], NEW n \in [Conns -> States], NEW q, QueueOK(s, q),
         \A c \in Conns : n[c] \in Later(s[c]) /\ (n[c] = "NotConnected" => s[c] = "NotConnected")
  PROVE  QueueOK(n, q)
<1>1. ASSUME NEW t \in TaskType, TaskOK(s, t) PROVE TaskOK(n, t)
  <2>1. t[2] \in Conns
    BY DEF TaskType
  <2>2. n[t[2]] \in Later(s[t[2]]) /\ s[t[2]] \in States
    BY <2>1
  <2> QED BY <1>1, <2>2 DEF TaskOK, Later, States, Live
<1>2. \A i \in 1..Len(q) : q[i] \in TaskType
  BY DEF QueueOK
<1> QED BY <1>1, <1>2 DEF QueueOK

LEMMA QueueAppend ==
  ASSUME NEW s, NEW q, QueueOK(s, q), NEW t \in TaskType, TaskOK(s, t)
  PROVE  QueueOK(s, Append(q, t))
<1>1. q \in Seq(TaskType)
  BY DEF QueueOK
<1> QED BY <1>1, AppendTask DEF QueueOK

(* Taking the head.  If it establishes a connection, that is no longer     *)
(* NotConnected.                                                           *)
LEMMA QueueTail ==
  ASSUME NEW s, NEW q, QueueOK(s, q), q # <<>>
  PROVE  /\ Head(q) \in TaskType /\ TaskOK(s, Head(q))
         /\ Tail(q) \in Seq(TaskType)
         /\ \A i \in 1..Len(Tail(q)) : TaskOK(s, Tail(q)[i])
         /\ \A c \in Conns : s[c] = "NotConnected" /\ Head(q) # <<"establish", c>>
                               => EstablishFirst(Tail(q), c)
         /\ \A c \in Conns : s[c] = "NotConnected" => Head(q) # <<"shutdown", c>>
<1>1. q \in Seq(TaskType)
  BY DEF QueueOK
<1>2. ASSUME NEW c \in Conns, s[c] = "NotConnected" PROVE Head(q) # <<"shutdown", c>>
  <2>1. EstablishFirst(q, c)
    BY <1>2 DEF QueueOK
  <2>2. PICK i \in 1..Len(q) : \A j \in 1..Len(q) : q[j] = <<"shutdown", c>> => i < j
    BY <2>1 DEF EstablishFirst
  <2>3. Head(q) = q[1] /\ 1 \in 1..Len(q)
    BY <1>1, TailTask
  <2> QED BY <2>2, <2>3
<1> QED BY <1>1, <1>2, TailTask DEF QueueOK

-----------------------------------------------------------------------------
(* Connections.                                                            *)

ConnTypes ==
    /\ ioTasks \in Seq(TaskType)
    /\ worker \in [Conns -> WorkerState]
    /\ peer \in [Conns -> {"away", "connecting", "open", "closed"}]
    /\ state \in [Conns -> States]
    /\ out \in [Conns -> BOOLEAN]
    /\ m_flush_queued \in [Conns -> BOOLEAN] /\ fdEvent \in [Conns -> FdEvent]
    /\ m_connections \subseteq Conns /\ m_connection_count \in Nat

(* The connections counted are finitely many.                              *)
LEMMA LiveFinite ==
  ASSUME NEW s
  PROVE  /\ IsFiniteSet({c \in Conns : s[c] \in Live})
         /\ Cardinality({c \in Conns : s[c] \in Live}) \in Nat
<1>1. IsFiniteSet({c \in Conns : s[c] \in Live})
  BY FS_Subset, ServerAssumption
<1> QED BY <1>1, FS_CardinalityType

(* Closing a live connection takes one away, accepting adds one.           *)
LEMMA CountOne ==
  ASSUME ConnTypes, CountExact, NEW c \in Conns, NEW s \in States,
         state' = [state EXCEPT ![c] = s]
  PROVE  /\ state[c] \in Live /\ s \notin Live /\ m_connection_count' = m_connection_count - 1
              => CountExact' /\ m_connection_count' \in Nat
         /\ state[c] \notin Live /\ s \in Live /\ m_connection_count' = m_connection_count + 1
              => CountExact' /\ m_connection_count' \in Nat
         /\ (state[c] \in Live <=> s \in Live) /\ m_connection_count' = m_connection_count
              => CountExact' /\ m_connection_count' \in Nat
<1> DEFINE A == {d \in Conns : state[d] \in Live}
           B == {d \in Conns : state'[d] \in Live}
<1>1. /\ s \notin Live => B = A \ {c}
      /\ s \in Live => B = A \cup {c}
      /\ c \in A <=> state[c] \in Live
  BY DEF ConnTypes
<1>2. IsFiniteSet(A) /\ IsFiniteSet(B) /\ Cardinality(A) \in Nat /\ Cardinality(B) \in Nat
  BY LiveFinite
<1>3. Cardinality(A \ {c}) = IF c \in A THEN Cardinality(A) - 1 ELSE Cardinality(A)
  BY <1>2, FS_RemoveElement
<1>4. Cardinality(A \cup {c}) = IF c \in A THEN Cardinality(A) ELSE Cardinality(A) + 1
  BY <1>2, FS_AddElement
<1>5. m_connection_count = Cardinality(A) /\ (CountExact' <=> m_connection_count' = Cardinality(B))
  BY DEF CountExact
<1> HIDE DEF A, B
<1> QED BY <1>1, <1>2, <1>3, <1>4, <1>5

(* A step on the IO thread for c touches no other connection's output.     *)
OnlyConn(c) ==
    /\ UNCHANGED <<worker, peer, mainPc, accepting>>
    /\ out' \in [Conns -> BOOLEAN] /\ m_flush_queued' \in [Conns -> BOOLEAN]
    /\ \A d \in Conns \ {c} : out'[d] = out[d] /\ m_flush_queued'[d] = m_flush_queued[d]

ConnNext == ConnTypes' /\ ConnInv' /\ Forward

(* A connection that stays as it is has moved on.                          *)
LEMMA LaterSelf == \A s \in States : s \in Later(s)
  BY DEF States, Live, Later

(* handleClose of an open connection: counted once, detached, and its      *)
(* connectDestroyed queued.                                                *)
LEMMA CloseStep ==
  ASSUME ConnTypes, ConnInv, NEW c \in Conns, NEW q, QueueOK(state, q), Open(c),
         OnlyConn(c), HandleClose(c, q)
  PROVE  ConnNext
<1>1. /\ state' = [state EXCEPT ![c] = "Closed"]
      /\ fdEvent' = [fdEvent EXCEPT ![c] = Detach(@)]
      /\ m_connections' = m_connections \ {c}
      /\ m_connection_count' = m_connection_count - 1
      /\ ioTasks' = Append(q, <<"destroy", c>>)
  BY DEF HandleClose, RemoveConnection
<1>2. state[c] \in Live /\ "Closed" \notin Live /\ "Closed" \in States
  BY DEF Open, Live, States
<1>3. CountExact' /\ m_connection_count' \in Nat
  BY <1>1, <1>2, CountOne DEF ConnInv
<1>4. state' \in [Conns -> States]
  BY <1>1, <1>2 DEF ConnTypes
<1>5. Forward
  <2>1. "Closed" \in Later(state[c])
    BY DEF Open, Later
  <2> QED BY <1>1, <2>1, LaterSelf DEF ConnTypes, Forward
<1>6. QueueOK(state', q)
  <2>1. \A d \in Conns : state'[d] = "NotConnected" => state[d] = "NotConnected"
    BY <1>1 DEF ConnTypes
  <2> QED BY <1>4, <1>5, <2>1, QueueStays DEF ConnTypes, Forward
<1>7. QueueOK(state', ioTasks')
  <2>1. <<"destroy", c>> \in TaskType /\ TaskOK(state', <<"destroy", c>>)
    BY <1>1 DEF TaskType, TaskOK, ConnTypes
  <2> QED BY <1>1, <1>6, <2>1, QueueAppend
<1>8. Detach(fdEvent[c]) \in FdEvent /\ ~IsRegistered(Detach(fdEvent[c]))
  BY FdEventFacts DEF ConnTypes
<1>9. ConnTypes'
  BY <1>1, <1>3, <1>4, <1>7, <1>8 DEF ConnTypes, OnlyConn, QueueOK
<1>10. ASSUME NEW d \in Conns PROVE ConnOK(d)'
  <2>1. CASE d = c
    BY <1>1, <1>8, <2>1 DEF ConnTypes, ConnInv, ConnOK, Open, OnlyConn
  <2>2. CASE d # c
    BY <1>1, <2>2 DEF ConnTypes, ConnInv, ConnOK, Open, OnlyConn
  <2> QED BY <2>1, <2>2
<1>11. Accepted'
  BY <1>1, <1>2 DEF ConnTypes, ConnInv, Accepted, OnlyConn, Live
<1> QED BY <1>3, <1>5, <1>7, <1>9, <1>10, <1>11 DEF ConnNext, ConnInv

(* An open connection stays open: it is still attached, and output that is *)
(* left will be written.                                                   *)
LEMMA KeepStep ==
  ASSUME ConnTypes, ConnInv, NEW c \in Conns, Open(c), OnlyConn(c),
         NEW e, Attached(e), fdEvent' = [fdEvent EXCEPT ![c] = e],
         UNCHANGED <<state, tableVars>>, QueueOK(state, ioTasks'),
         out'[c] => m_flush_queued'[c] \/ IsListening(e, "OUT")
  PROVE  ConnNext
<1>1. CountExact'
  BY DEF ConnInv, CountExact, tableVars
<1>2. Forward
  BY LaterSelf DEF ConnTypes, Forward
<1>3. QueueOK(state', ioTasks')
  OBVIOUS
<1>4. ConnTypes'
  BY <1>3 DEF ConnTypes, OnlyConn, QueueOK, tableVars, Attached
<1>5. ASSUME NEW d \in Conns PROVE ConnOK(d)'
  <2>1. CASE d = c
    BY <2>1 DEF ConnTypes, ConnInv, ConnOK, Open, OnlyConn, tableVars
  <2>2. CASE d # c
    BY <2>2 DEF ConnTypes, ConnInv, ConnOK, Open, OnlyConn, tableVars
  <2> QED BY <2>1, <2>2
<1>6. Accepted'
  BY DEF ConnInv, Accepted, OnlyConn
<1> QED BY <1>1, <1>2, <1>3, <1>4, <1>5, <1>6 DEF ConnNext, ConnInv

(* updateWriteInterest, when all is written and when some is left.         *)
LEMMA AllWrittenStep ==
  ASSUME ConnTypes, ConnInv, NEW c \in Conns, NEW q, QueueOK(state, q), Open(c),
         OnlyConn(c), ~out'[c], AllWritten(c, q)
  PROVE  ConnNext
<1>1. CASE HandleClose(c, q)
  BY <1>1, CloseStep
<1>2. CASE ~HandleClose(c, q)
  <2>1. ioTasks' = q /\ UNCHANGED <<state, tableVars>>
    BY <1>2 DEF AllWritten
  <2>2. fdEvent[c] \in FdEvent /\ Attached(fdEvent[c])
    BY DEF ConnTypes, ConnInv, ConnOK
  <2>3. Attached(UpdateFdEvent(Cancel(fdEvent[c], "OUT")))
    BY <2>2, FdEventFacts
  <2>4. CASE fdEvent' = fdEvent
    <3>1. fdEvent' = [fdEvent EXCEPT ![c] = fdEvent[c]]
      BY <2>4 DEF ConnTypes
    <3> QED BY <2>1, <2>2, <3>1, KeepStep
  <2>5. CASE fdEvent' = [fdEvent EXCEPT ![c] = UpdateFdEvent(Cancel(fdEvent[c], "OUT"))]
    BY <2>1, <2>3, <2>5, KeepStep
  <2> QED BY <1>2, <2>4, <2>5 DEF AllWritten, DisableWriting
<1> QED BY <1>1, <1>2

LEMMA SomeLeftStep ==
  ASSUME ConnTypes, ConnInv, NEW c \in Conns, NEW q, QueueOK(state, q), Open(c),
         OnlyConn(c), SomeLeft(c, q)
  PROVE  ConnNext
<1>1. ioTasks' = q /\ UNCHANGED <<state, tableVars>>
  BY DEF SomeLeft
<1>2. fdEvent[c] \in FdEvent /\ Attached(fdEvent[c])
  BY DEF ConnTypes, ConnInv, ConnOK
<1> DEFINE e == UpdateFdEvent(Listen(fdEvent[c], "OUT"))
<1>3. Attached(e) /\ IsListening(e, "OUT")
  BY <1>2, FdEventFacts
<1>4. CASE IsListening(fdEvent[c], "OUT")
  <2>1. fdEvent' = [fdEvent EXCEPT ![c] = fdEvent[c]]
    BY <1>4 DEF ConnTypes, SomeLeft
  <2> QED BY <1>1, <1>2, <1>4, <2>1, KeepStep
<1>5. CASE ~IsListening(fdEvent[c], "OUT")
  <2>1. fdEvent' = [fdEvent EXCEPT ![c] = e]
    BY <1>5 DEF SomeLeft, EnableWriting
  <2> HIDE DEF e
  <2> QED BY <1>1, <1>3, <2>1, KeepStep
<1> QED BY <1>4, <1>5

(* flushOutputInLoop.                                                      *)
LEMMA FlushStep ==
  ASSUME ConnTypes, ConnInv, NEW c \in Conns, NEW q, QueueOK(state, q), Open(c),
         UNCHANGED <<worker, peer, mainPc, accepting>>,
         m_flush_queued' \in [Conns -> BOOLEAN],
         \A d \in Conns \ {c} : m_flush_queued'[d] = m_flush_queued[d],
         Flush(c, q)
  PROVE  ConnNext
<1>1. out' \in [Conns -> BOOLEAN] /\ \A d \in Conns \ {c} : out'[d] = out[d]
  BY DEF Flush, ConnTypes
<1>2. OnlyConn(c)
  BY <1>1 DEF OnlyConn
<1>3. CASE out' = [out EXCEPT ![c] = FALSE] /\ AllWritten(c, q)
  <2>1. ~out'[c]
    BY <1>3 DEF ConnTypes
  <2> QED BY <1>2, <1>3, <2>1, AllWrittenStep
<1>4. CASE SomeLeft(c, q)
  BY <1>2, <1>4, SomeLeftStep
<1>5. CASE HandleClose(c, q)
  BY <1>2, <1>5, CloseStep
<1> QED BY <1>3, <1>4, <1>5 DEF Flush

(* Nothing about the connections changes but the queue.                    *)
LEMMA SameStep ==
  ASSUME ConnTypes, ConnInv, QueueOK(state, ioTasks'), Accepted',
         UNCHANGED <<connVars, tableVars, worker, peer>>
  PROVE  ConnNext
<1>1. UNCHANGED <<state, out, m_flush_queued, fdEvent, m_connections, m_connection_count>>
  BY DEF connVars, tableVars
<1>2. CountExact' /\ QueueOK(state', ioTasks')
  BY <1>1 DEF ConnInv, CountExact
<1>3. \A d \in Conns : ConnOK(d)'
  BY <1>1 DEF ConnInv, ConnOK, Open
<1>4. Forward
  BY <1>1, LaterSelf DEF ConnTypes, Forward
<1>5. ConnTypes'
  BY <1>1 DEF ConnTypes, QueueOK
<1> QED BY <1>2, <1>3, <1>4, <1>5 DEF ConnNext, ConnInv

(* sendInLoopBatch, on a connection that has been established.             *)
LEMMA SendStep ==
  ASSUME ConnTypes, ConnInv, NEW c \in Conns, NEW q, QueueOK(state, q),
         state[c] \notin {"none", "NotConnected"},
         UNCHANGED <<worker, peer, mainPc, accepting>>, SendInLoop(c, q)
  PROVE  ConnNext
<1>1. CASE state[c] # "Connected"
  <2>1. ioTasks' = q /\ UNCHANGED <<connVars, tableVars>>
    BY <1>1 DEF SendInLoop
  <2>2. Accepted'
    BY <2>1 DEF ConnInv, Accepted, connVars
  <2> QED BY <2>1, <2>2, SameStep
<1>2. CASE state[c] = "Connected"
  <2>1. Open(c) /\ fdEvent[c] \in FdEvent /\ Attached(fdEvent[c])
    BY <1>2 DEF Open, ConnTypes, ConnInv, ConnOK
  <2>2. CASE /\ out' = [out EXCEPT ![c] = TRUE]
             /\ ScheduleOutputFlush(c, q)
             /\ UNCHANGED <<state, fdEvent, tableVars>>
    <3> DEFINE waits == m_flush_queued[c] \/ IsListening(fdEvent[c], "OUT")
    <3>1. OnlyConn(c)
      BY <2>2 DEF ScheduleOutputFlush, OnlyConn, ConnTypes
    <3>2. fdEvent' = [fdEvent EXCEPT ![c] = fdEvent[c]]
      BY <2>2 DEF ConnTypes
    <3>3. m_flush_queued'[c] \/ IsListening(fdEvent[c], "OUT")
      BY <2>2 DEF ScheduleOutputFlush, ConnTypes
    <3>4. <<"flush", c>> \in TaskType /\ TaskOK(state, <<"flush", c>>)
      BY <1>2 DEF TaskType, TaskOK
    <3>5. QueueOK(state, Append(q, <<"flush", c>>))
      BY <3>4, QueueAppend
    <3>6. QueueOK(state, ioTasks')
      BY <2>2, <3>5 DEF ScheduleOutputFlush
    <3> QED BY <2>1, <2>2, <3>1, <3>2, <3>3, <3>6, KeepStep
  <2>3. CASE /\ \/ out' = [out EXCEPT ![c] = FALSE] /\ AllWritten(c, q)
                \/ out' = [out EXCEPT ![c] = TRUE] /\ SomeLeft(c, q)
             /\ UNCHANGED m_flush_queued
    <3>1. OnlyConn(c)
      BY <2>3 DEF OnlyConn, ConnTypes
    <3>2. CASE out' = [out EXCEPT ![c] = FALSE] /\ AllWritten(c, q)
      <4>1. ~out'[c]
        BY <3>2 DEF ConnTypes
      <4> QED BY <2>1, <3>1, <3>2, <4>1, AllWrittenStep
    <3>3. CASE SomeLeft(c, q)
      BY <2>1, <3>1, <3>3, SomeLeftStep
    <3> QED BY <2>3, <3>2, <3>3
  <2>4. CASE HandleClose(c, q) /\ UNCHANGED <<out, m_flush_queued>>
    <3>1. OnlyConn(c)
      BY <2>4 DEF OnlyConn, ConnTypes
    <3> QED BY <2>1, <2>4, <3>1, CloseStep
  <2> QED BY <1>2, <2>2, <2>3, <2>4 DEF SendInLoop
<1> QED BY <1>1, <1>2

(* The tasks that only change the state: connectEstablished, the graceful  *)
(* shutdown and connectDestroyed.                                          *)
LEMMA StateTaskStep ==
  ASSUME ConnTypes, ConnInv, RunStateTask
  PROVE  ConnNext
<1> DEFINE h == Head(ioTasks)
           c == h[2]
           q == Tail(ioTasks)
<1>1. QueueOK(state, ioTasks) /\ ioTasks # <<>>
  BY DEF ConnInv, RunStateTask
<1>2. /\ h \in TaskType /\ TaskOK(state, h) /\ q \in Seq(TaskType)
      /\ \A i \in 1..Len(q) : TaskOK(state, q[i])
      /\ \A d \in Conns : state[d] = "NotConnected" /\ h # <<"establish", d>>
                            => EstablishFirst(q, d)
      /\ \A d \in Conns : state[d] = "NotConnected" => h # <<"shutdown", d>>
  BY <1>1, QueueTail
<1>3. c \in Conns /\ h = <<h[1], c>>
  BY <1>2 DEF TaskType
<1>4. /\ h[1] \in {"establish", "shutdown", "destroy"}
      /\ state' = [state EXCEPT ![c] = StateAfter(h[1], @)]
      /\ fdEvent' = [fdEvent EXCEPT ![c] =
                        CASE h[1] = "establish" /\ state[c] = "NotConnected" -> Attach(@)
                          [] h[1] = "destroy" -> Detach(@)
                          [] OTHER -> @]
      /\ ioTasks' = q
      /\ UNCHANGED <<mainPc, accepting, out, m_flush_queued, m_connections,
                     m_connection_count, worker, peer>>
  BY DEF RunStateTask, mainVars, tableVars
<1> HIDE DEF h, c, q
<1>5. PICK s \in States, e \in FdEvent :
         /\ state' = [state EXCEPT ![c] = s] /\ fdEvent' = [fdEvent EXCEPT ![c] = e]
         /\ s \in Later(state[c]) /\ s \notin {"none", "NotConnected"}
         /\ s \in Live <=> state[c] \in Live
         /\ s \in {"Connected", "HalfClosing"} => Attached(e)
         /\ s \notin {"Connected", "HalfClosing"} => ~IsRegistered(e)
         /\ s \in {"Connected", "HalfClosing"} /\ state[c] # "NotConnected" => e = fdEvent[c]
  <2> DEFINE s == StateAfter(h[1], state[c])
             e == CASE h[1] = "establish" /\ state[c] = "NotConnected" -> Attach(fdEvent[c])
                    [] h[1] = "destroy" -> Detach(fdEvent[c])
                    [] OTHER -> fdEvent[c]
  <2>1. state' = [state EXCEPT ![c] = s] /\ fdEvent' = [fdEvent EXCEPT ![c] = e]
    BY <1>4
  <2>2. /\ state[c] \in States \ {"none"} /\ fdEvent[c] \in FdEvent
        /\ state[c] = "NotConnected" => h[1] # "shutdown"
        /\ h[1] = "destroy" => state[c] \in {"Closed", "destroyed"}
    BY <1>2, <1>3 DEF ConnTypes, TaskOK
  <2>3. /\ Attached(Attach(fdEvent[c])) /\ Attach(fdEvent[c]) \in FdEvent
        /\ Detach(fdEvent[c]) \in FdEvent /\ ~IsRegistered(Detach(fdEvent[c]))
    BY <2>2, FdEventFacts DEF Attached
  <2>4. /\ state[c] \in {"Connected", "HalfClosing"} => Attached(fdEvent[c])
        /\ state[c] \notin {"Connected", "HalfClosing"} => ~IsRegistered(fdEvent[c])
    BY <1>3 DEF ConnInv, ConnOK, Open
  <2>5. CASE h[1] = "establish" /\ state[c] = "NotConnected"
    <3>1. s = "Connected" /\ e = Attach(fdEvent[c])
      BY <2>5 DEF StateAfter
    <3> HIDE DEF s, e
    <3>2. /\ s \in States /\ s \in Later(state[c]) /\ s \notin {"none", "NotConnected"}
          /\ s \in Live <=> state[c] \in Live
      BY <2>5, <3>1 DEF Later, States, Live
    <3> QED BY <2>1, <2>3, <2>5, <3>1, <3>2
  <2>6. CASE h[1] = "establish" /\ state[c] # "NotConnected"
    <3>1. s = state[c] /\ e = fdEvent[c]
      BY <2>6 DEF StateAfter
    <3> HIDE DEF s, e
    <3> QED BY <2>1, <2>2, <2>4, <2>6, <3>1, LaterSelf
  <2>7. CASE h[1] = "shutdown" /\ state[c] \in {"Closed", "destroyed"}
    <3>1. s = state[c] /\ e = fdEvent[c]
      BY <2>7 DEF StateAfter
    <3> HIDE DEF s, e
    <3> QED BY <2>1, <2>2, <2>4, <2>7, <3>1, LaterSelf
  <2>8. CASE h[1] = "shutdown" /\ state[c] \in {"Connected", "HalfClosing"}
    <3>1. s = "HalfClosing" /\ e = fdEvent[c]
      BY <2>8 DEF StateAfter
    <3> HIDE DEF s, e
    <3> QED BY <2>1, <2>2, <2>4, <2>8, <3>1 DEF Later, States, Live
  <2>9. CASE h[1] = "destroy"
    <3>1. s = "destroyed" /\ e = Detach(fdEvent[c])
      BY <2>9 DEF StateAfter
    <3> HIDE DEF s, e
    <3>2. /\ s \in States /\ s \in Later(state[c]) /\ s \notin {"none", "NotConnected"}
          /\ s \in Live <=> state[c] \in Live
      BY <2>2, <2>9, <3>1 DEF Later, States, Live
    <3> QED BY <2>1, <2>3, <2>9, <3>1, <3>2
  <2>10. state[c] \in {"NotConnected", "Connected", "HalfClosing", "Closed", "destroyed"}
    BY <2>2 DEF States, Live
  <2> HIDE DEF s, e
  <2> QED BY <1>4, <2>2, <2>5, <2>6, <2>7, <2>8, <2>9, <2>10
<1>6. state' \in [Conns -> States] /\ Forward
  BY <1>3, <1>5, LaterSelf DEF ConnTypes, Forward
<1>7. CountExact'
  BY <1>3, <1>4, <1>5, CountOne DEF ConnInv
<1>8. QueueOK(state', q)
  <2>1. ASSUME NEW d \in Conns, state'[d] = "NotConnected"
        PROVE  EstablishFirst(q, d)
    <3>1. d # c /\ state[d] = "NotConnected"
      BY <1>3, <1>5, <2>1 DEF ConnTypes
    <3>2. h # <<"establish", d>>
      BY <1>3, <3>1
    <3> QED BY <1>2, <3>1, <3>2
  <2>2. ASSUME NEW t \in TaskType, TaskOK(state, t) PROVE TaskOK(state', t)
    <3>1. t[2] \in Conns
      BY DEF TaskType
    <3>2. state'[t[2]] \in Later(state[t[2]]) /\ state[t[2]] \in States
      BY <1>6, <3>1 DEF Forward, ConnTypes
    <3> QED BY <2>2, <3>2 DEF TaskOK, Later, States, Live
  <2>3. \A i \in 1..Len(q) : q[i] \in TaskType
    BY <1>2
  <2> QED BY <1>2, <2>1, <2>2, <2>3 DEF QueueOK
<1>9. ConnTypes'
  BY <1>2, <1>3, <1>4, <1>5, <1>6 DEF ConnTypes
<1>10. ASSUME NEW d \in Conns PROVE ConnOK(d)'
  <2>1. CASE d = c
    <3>1. state'[c] = s /\ fdEvent'[c] = e
      BY <1>3, <1>5 DEF ConnTypes
    <3>2. ConnOK(c)
      BY <1>3 DEF ConnInv
    <3>3. out[c] => state[c] # "NotConnected"
      BY <3>2 DEF ConnOK
    <3>4. s \in {"Connected", "HalfClosing"} /\ state[c] # "NotConnected" => Open(c)
      BY <1>3, <1>5 DEF ConnTypes, Open, Later, States, Live
    <3>5. state[c] # "none"
      BY <1>2, <1>3 DEF TaskOK
    <3> QED BY <1>4, <1>5, <2>1, <3>1, <3>2, <3>3, <3>4, <3>5 DEF ConnOK, Open
  <2>2. CASE d # c
    BY <1>4, <1>5, <2>2 DEF ConnTypes, ConnInv, ConnOK, Open
  <2> QED BY <2>1, <2>2
<1>11. Accepted'
  <2>1. state[c] # "none"
    BY <1>2, <1>3 DEF TaskOK
  <2> QED BY <1>3, <1>4, <1>5, <2>1 DEF ConnTypes, ConnInv, Accepted
<1> QED BY <1>4, <1>6, <1>7, <1>8, <1>9, <1>10, <1>11 DEF ConnNext, ConnInv

(* The IO thread.                                                          *)
LEMMA IOStep ==
  ASSUME ConnTypes, ConnInv, IOThread \/ IOPollFails
  PROVE  ConnNext
<1>1. CASE IOCheckStop \/ EventsDone \/ TasksDone \/ IOPollFails
  <2>1. UNCHANGED <<connVars, tableVars, worker, peer, ioTasks, mainPc, accepting, state>>
    BY <1>1 DEF IOCheckStop, EventsDone, TasksDone, IOPollFails, mainVars, connVars
  <2>2. QueueOK(state, ioTasks') /\ Accepted'
    BY <2>1 DEF ConnInv, Accepted
  <2> QED BY <2>1, <2>2, SameStep
<1>2. CASE RunStateTask
  BY <1>2, StateTaskStep
<1>3. ASSUME ioTasks # <<>>, Head(ioTasks)[1] \in {"drain", "flush"}
      PROVE  /\ Head(ioTasks)[2] \in Conns /\ QueueOK(state, Tail(ioTasks))
             /\ state[Head(ioTasks)[2]] \notin {"none", "NotConnected"}
  <2>1. QueueOK(state, ioTasks)
    BY DEF ConnInv
  <2>2. Head(ioTasks) \in TaskType /\ TaskOK(state, Head(ioTasks))
    BY <1>3, <2>1, QueueTail
  <2>3. \A d \in Conns : Head(ioTasks) # <<"establish", d>>
    BY <1>3
  <2>4. QueueOK(state, Tail(ioTasks))
    BY <1>3, <2>1, <2>3, QueueTail DEF QueueOK
  <2> QED BY <1>3, <2>2, <2>4 DEF TaskType, TaskOK
<1>4. CASE RunDrain
  <2> DEFINE c == Head(ioTasks)[2]
             q == Tail(ioTasks)
  <2>1. /\ SendInLoop(c, q) /\ UNCHANGED <<worker, peer, mainPc, accepting>>
        /\ ioTasks # <<>> /\ Head(ioTasks)[1] = "drain"
    BY <1>4 DEF RunDrain, mainVars
  <2>2. c \in Conns /\ QueueOK(state, q) /\ state[c] \notin {"none", "NotConnected"}
    BY <1>3, <2>1
  <2> HIDE DEF c, q
  <2> QED BY <2>1, <2>2, SendStep
<1>5. CASE RunFlush
  <2> DEFINE c == Head(ioTasks)[2]
             q == Tail(ioTasks)
  <2>1. /\ m_flush_queued' = [m_flush_queued EXCEPT ![c] = FALSE]
        /\ IF Open(c) THEN Flush(c, q)
                      ELSE ioTasks' = q /\ UNCHANGED <<state, out, fdEvent, tableVars>>
        /\ UNCHANGED <<worker, peer, mainPc, accepting>>
        /\ ioTasks # <<>> /\ Head(ioTasks)[1] = "flush"
    BY <1>5 DEF RunFlush, mainVars
  <2>2. c \in Conns /\ QueueOK(state, q)
    BY <1>3, <2>1
  <2> HIDE DEF c, q
  <2>3. CASE Open(c)
    <3>1. /\ m_flush_queued' \in [Conns -> BOOLEAN]
          /\ \A d \in Conns \ {c} : m_flush_queued'[d] = m_flush_queued[d]
      BY <2>1 DEF ConnTypes
    <3> QED BY <2>1, <2>2, <2>3, <3>1, FlushStep
  <2>4. CASE ~Open(c)
    <3>1. /\ ioTasks' = q
          /\ UNCHANGED <<state, out, fdEvent, m_connections, m_connection_count>>
      BY <2>1, <2>4 DEF tableVars
    <3>2. QueueOK(state', ioTasks') /\ Accepted' /\ CountExact'
      BY <2>1, <2>2, <3>1 DEF ConnInv, Accepted, CountExact
    <3>3. ConnTypes'
      BY <2>1, <3>1, <3>2 DEF ConnTypes, QueueOK
    <3>4. Forward
      BY <3>1, LaterSelf DEF ConnTypes, Forward
    <3>5. ASSUME NEW d \in Conns PROVE ConnOK(d)'
      BY <2>1, <2>4, <3>1 DEF ConnTypes, ConnInv, ConnOK, Open
    <3> QED BY <3>2, <3>3, <3>4, <3>5 DEF ConnNext, ConnInv
  <2> QED BY <2>3, <2>4
<1> QED BY <1>1, <1>2, <1>4, <1>5 DEF IOThread

(* Events of a connection, workers and clients.                            *)
LEMMA EventStep ==
  ASSUME ConnTypes, ConnInv, NEW c \in Conns,
         \/ ReadRequest(c) \/ ReadClose(c) \/ HandleWrite(c) \/ HandleError(c)
         \/ WorkerDone(c) \/ Defer(c) \/ RunDeferred(c) \/ SendResponse(c)
         \/ PeerConnects(c) \/ PeerCloses(c)
  PROVE  ConnNext
<1>1. QueueOK(state, ioTasks) /\ ConnOK(c)
  BY DEF ConnInv
<1>2. CASE ReadRequest(c)
  <2>1. Open(c) /\ OnMessage(c) /\ UNCHANGED <<peer, mainPc, accepting>>
    BY <1>2 DEF ReadRequest, mainVars
  <2>2. CASE SendInLoop(c, ioTasks) /\ UNCHANGED worker
    <3>1. state[c] \notin {"none", "NotConnected"}
      BY <2>1 DEF Open
    <3> QED BY <1>1, <2>1, <2>2, <3>1, SendStep
  <2>3. CASE /\ \E w \in {"busy", "deferred"} : worker' = [worker EXCEPT ![c] = w]
             /\ UNCHANGED <<ioTasks, connVars, tableVars>>
    <3>1. UNCHANGED <<state, out, m_flush_queued, fdEvent, m_connections, m_connection_count>>
      BY <2>3 DEF connVars, tableVars
    <3>2. ConnTypes'
      BY <2>1, <2>3, <3>1 DEF ConnTypes, WorkerState
    <3>3. \A d \in Conns : ConnOK(d)'
      BY <2>1, <2>3, <3>1 DEF ConnTypes, ConnInv, ConnOK, Open
    <3>4. Forward
      BY <3>1, LaterSelf DEF ConnTypes, Forward
    <3>5. CountExact' /\ QueueOK(state', ioTasks') /\ Accepted'
      BY <2>1, <2>3, <3>1 DEF ConnInv, CountExact, Accepted
    <3> QED BY <3>2, <3>3, <3>4, <3>5 DEF ConnNext, ConnInv
  <2> QED BY <2>1, <2>2, <2>3 DEF OnMessage
<1>3. CASE ReadClose(c) \/ HandleError(c)
  <2>1. Open(c)
    BY <1>1, <1>3 DEF ReadClose, HandleError, Handles, Reports, ConnOK
  <2>2. OnlyConn(c) /\ HandleClose(c, ioTasks)
    BY <1>3 DEF ReadClose, HandleError, OnlyConn, mainVars, ConnTypes
  <2> QED BY <1>1, <2>1, <2>2, CloseStep
<1>4. CASE HandleWrite(c)
  <2>1. /\ Open(c) /\ Flush(c, ioTasks)
        /\ UNCHANGED <<worker, peer, mainPc, accepting, m_flush_queued>>
    BY <1>4 DEF HandleWrite, mainVars
  <2> QED BY <1>1, <2>1, FlushStep DEF ConnTypes
<1>5. CASE WorkerDone(c) \/ Defer(c) \/ RunDeferred(c)
  <2>1. /\ worker[c] # "idle"
        /\ \E w \in {"sending", "deferred", "late"} : worker' = [worker EXCEPT ![c] = w]
        /\ UNCHANGED <<peer, mainPc, accepting, ioTasks, state, out, m_flush_queued, fdEvent,
                       m_connections, m_connection_count>>
    BY <1>5 DEF WorkerDone, Defer, RunDeferred, mainVars, connVars, tableVars
  <2>2. ConnTypes'
    BY <2>1 DEF ConnTypes, WorkerState
  <2>3. \A d \in Conns : ConnOK(d)'
    BY <2>1 DEF ConnTypes, ConnInv, ConnOK, Open
  <2>4. Forward
    BY <2>1, LaterSelf DEF ConnTypes, Forward
  <2>5. CountExact' /\ QueueOK(state', ioTasks') /\ Accepted'
    BY <2>1 DEF ConnInv, CountExact, Accepted
  <2> QED BY <2>2, <2>3, <2>4, <2>5 DEF ConnNext, ConnInv
<1>6. CASE SendResponse(c)
  <2>1. /\ worker[c] # "idle"
        /\ \E w \in {"idle", "crashed"} : worker' = [worker EXCEPT ![c] = w]
        /\ UNCHANGED <<peer, mainPc, accepting, state, out, m_flush_queued, fdEvent,
                       m_connections, m_connection_count>>
        /\ ioTasks' \in {ioTasks, Append(ioTasks, <<"drain", c>>)}
    BY <1>6 DEF SendResponse, mainVars, connVars, tableVars
  <2>2. <<"drain", c>> \in TaskType /\ TaskOK(state, <<"drain", c>>)
    BY <1>1, <2>1 DEF ConnOK, TaskType, TaskOK
  <2>3. QueueOK(state', ioTasks')
    BY <1>1, <2>1, <2>2, QueueAppend
  <2>4. ConnTypes'
    BY <2>1, <2>3 DEF ConnTypes, WorkerState, QueueOK
  <2>5. \A d \in Conns : ConnOK(d)'
    BY <2>1 DEF ConnTypes, ConnInv, ConnOK, Open
  <2>6. Forward
    BY <2>1, LaterSelf DEF ConnTypes, Forward
  <2>7. CountExact' /\ Accepted'
    BY <2>1 DEF ConnInv, CountExact, Accepted
  <2> QED BY <2>3, <2>4, <2>5, <2>6, <2>7 DEF ConnNext, ConnInv
<1>7. CASE PeerConnects(c) \/ PeerCloses(c)
  <2>1. /\ \/ peer[c] = "away" /\ peer' = [peer EXCEPT ![c] = "connecting"]
           \/ peer[c] = "open" /\ peer' = [peer EXCEPT ![c] = "closed"]
        /\ UNCHANGED <<worker, mainPc, accepting, ioTasks, state, out, m_flush_queued, fdEvent,
                       m_connections, m_connection_count>>
    BY <1>7 DEF PeerConnects, PeerCloses, mainVars, connVars, tableVars
  <2>2. ConnTypes'
    BY <2>1 DEF ConnTypes
  <2>3. \A d \in Conns : ConnOK(d)'
    BY <2>1 DEF ConnTypes, ConnInv, ConnOK, Open
  <2>4. Forward
    BY <2>1, LaterSelf DEF ConnTypes, Forward
  <2>5. CountExact' /\ QueueOK(state', ioTasks') /\ Accepted'
    BY <2>1 DEF ConnTypes, ConnInv, CountExact, Accepted
  <2> QED BY <2>2, <2>3, <2>4, <2>5 DEF ConnNext, ConnInv
<1> QED BY <1>2, <1>3, <1>4, <1>5, <1>6, <1>7

(* Thread Main: a connection is new until QueueConnection counts it and    *)
(* queues its connectEstablished.                                          *)
LEMMA AcceptStep ==
  ASSUME ConnTypes, ConnInv,
         \/ \E c \in Conns : OnAccept(c)
         \/ PickIOThread \/ QueueConnection \/ InsertConnection
  PROVE  ConnNext
<1>1. QueueOK(state, ioTasks)
  BY DEF ConnInv
<1>2. ASSUME NEW c \in Conns, OnAccept(c) PROVE ConnNext
  <2>1. UNCHANGED <<worker, ioTasks, state, out, m_flush_queued, fdEvent,
                    m_connections, m_connection_count>>
    BY <1>2 DEF OnAccept, connVars, tableVars
  <2>2. /\ peer[c] = "connecting"
        /\ \/ peer' = peer \/ peer' = [peer EXCEPT ![c] = "closed"]
           \/ peer' = [peer EXCEPT ![c] = "open"]
        /\ \/ mainPc' = "check"
           \/ mainPc' = "accept" /\ accepting' = c /\ peer' = [peer EXCEPT ![c] = "open"]
    BY <1>2 DEF OnAccept, MainStep
  <2>3. ConnTypes'
    BY <2>1, <2>2 DEF ConnTypes
  <2>4. \A d \in Conns : ConnOK(d)'
    BY <2>1, <2>2 DEF ConnTypes, ConnInv, ConnOK, Open
  <2>5. state[c] = "none"
    BY <2>2 DEF ConnInv, ConnOK
  <2>6. Accepted'
    BY <2>1, <2>2, <2>5 DEF ConnTypes, Accepted
  <2>7. Forward
    BY <2>1, LaterSelf DEF ConnTypes, Forward
  <2>8. CountExact' /\ QueueOK(state', ioTasks')
    BY <2>1 DEF ConnInv, CountExact
  <2> QED BY <2>3, <2>4, <2>6, <2>7, <2>8 DEF ConnNext, ConnInv
<1>3. CASE PickIOThread
  <2>1. UNCHANGED <<worker, ioTasks, state, out, m_flush_queued, fdEvent,
                    m_connections, m_connection_count>>
    BY <1>3 DEF PickIOThread, connVars, tableVars
  <2>2. /\ accepting \in Conns /\ state[accepting] = "none"
        /\ peer[accepting] \in {"open", "closed"}
    BY <1>3 DEF PickIOThread, MainStep, ConnInv, Accepted
  <2>3. \/ mainPc' = "check" /\ peer' = [peer EXCEPT ![accepting] = "closed"]
        \/ mainPc' = "queue" /\ UNCHANGED <<accepting, peer>>
    BY <1>3 DEF PickIOThread, MainStep
  <2>4. ConnTypes'
    BY <2>1, <2>2, <2>3 DEF ConnTypes
  <2>5. \A d \in Conns : ConnOK(d)'
    BY <2>1, <2>2, <2>3 DEF ConnTypes, ConnInv, ConnOK, Open
  <2>6. Accepted'
    BY <2>1, <2>2, <2>3 DEF Accepted
  <2>7. Forward
    BY <2>1, LaterSelf DEF ConnTypes, Forward
  <2>8. CountExact' /\ QueueOK(state', ioTasks')
    BY <2>1 DEF ConnInv, CountExact
  <2> QED BY <2>4, <2>5, <2>6, <2>7, <2>8 DEF ConnNext, ConnInv
<1>4. CASE QueueConnection
  <2>1. /\ accepting \in Conns /\ state[accepting] = "none"
        /\ peer[accepting] \in {"open", "closed"}
    BY <1>4 DEF QueueConnection, MainStep, ConnInv, Accepted
  <2>2. UNCHANGED <<accepting, worker, peer, out, m_flush_queued, fdEvent, m_connections>>
    BY <1>4 DEF QueueConnection
  <2>3. CASE mainPc' = "crashed" /\ UNCHANGED <<state, ioTasks, m_connection_count>>
    <3>1. Accepted'
      BY <2>3 DEF Accepted
    <3> QED BY <1>1, <2>2, <2>3, <3>1, SameStep DEF connVars, tableVars
  <2>4. CASE /\ mainPc' = "insert"
             /\ state' = [state EXCEPT ![accepting] = "NotConnected"]
             /\ m_connection_count' = m_connection_count + 1
             /\ ioTasks' = Append(ioTasks, <<"establish", accepting>>)
    <3> DEFINE c == accepting
               t == <<"establish", c>>
    <3>1. t \in TaskType /\ "NotConnected" \in States /\ ioTasks \in Seq(TaskType)
      BY <2>1 DEF TaskType, States, Live, ConnTypes
    <3>2. state' \in [Conns -> States]
      BY <2>4, <3>1 DEF ConnTypes
    <3>3. Forward
      <4>1. "NotConnected" \in Later(state[c])
        BY <2>1 DEF Later
      <4> QED BY <2>4, <4>1, LaterSelf DEF ConnTypes, Forward
    <3>4. CountExact' /\ m_connection_count' \in Nat
      BY <2>1, <2>4, <3>1, CountOne DEF ConnInv, Live
    <3>5. QueueOK(state', ioTasks')
      <4>1. \A i \in 1..Len(ioTasks) : ioTasks[i][2] # c /\ ioTasks[i] \in TaskType
        BY <1>1, <2>1 DEF QueueOK, TaskOK
      <4>2. \A i \in 1..Len(ioTasks) : ioTasks[i] # <<"shutdown", c>>
        BY <4>1
      <4>3. \A i \in 1..Len(ioTasks) : TaskOK(state', ioTasks[i])
        BY <1>1, <2>4, <4>1 DEF QueueOK, TaskOK, TaskType, ConnTypes
      <4>4. TaskOK(state', t)
        BY <2>1, <2>4 DEF TaskOK, ConnTypes
      <4>5. /\ ioTasks' \in Seq(TaskType) /\ EstablishFirst(ioTasks', c)
            /\ \A d \in Conns : EstablishFirst(ioTasks, d) => EstablishFirst(ioTasks', d)
            /\ \A i \in 1..Len(ioTasks') :
                  ioTasks'[i] = t \/ (i \in 1..Len(ioTasks) /\ ioTasks'[i] = ioTasks[i])
        BY <2>4, <3>1, <4>2, AppendTask
      <4>6. \A d \in Conns : state'[d] = "NotConnected" => d = c \/ state[d] = "NotConnected"
        BY <2>1, <2>4 DEF ConnTypes
      <4> HIDE DEF c, t
      <4> QED BY <1>1, <4>3, <4>4, <4>5, <4>6 DEF QueueOK
    <3>6. ConnTypes'
      BY <2>2, <3>2, <3>4, <3>5 DEF ConnTypes, QueueOK
    <3>7. \A d \in Conns : ConnOK(d)'
      BY <2>1, <2>2, <2>4 DEF ConnTypes, ConnInv, ConnOK, Open
    <3>8. Accepted'
      BY <2>1, <2>2, <2>4 DEF ConnTypes, Accepted
    <3> QED BY <3>3, <3>4, <3>5, <3>6, <3>7, <3>8 DEF ConnNext, ConnInv
  <2> QED BY <1>4, <2>3, <2>4 DEF QueueConnection, MainStep
<1>5. CASE InsertConnection
  <2>1. UNCHANGED <<worker, peer, ioTasks, state, out, m_flush_queued, fdEvent,
                    m_connection_count>>
    BY <1>5 DEF InsertConnection, connVars
  <2>2. accepting \in Conns /\ state[accepting] # "none"
    BY <1>5 DEF InsertConnection, MainStep, ConnInv, Accepted
  <2>3. m_connections' = m_connections \cup {accepting} /\ mainPc' = "check"
    BY <1>5 DEF InsertConnection, MainStep
  <2>4. ConnTypes'
    BY <2>1, <2>2, <2>3 DEF ConnTypes
  <2>5. \A d \in Conns : ConnOK(d)'
    BY <2>1, <2>2, <2>3 DEF ConnTypes, ConnInv, ConnOK, Open
  <2>6. Accepted'
    BY <2>3 DEF Accepted
  <2>7. Forward
    BY <2>1, LaterSelf DEF ConnTypes, Forward
  <2>8. CountExact' /\ QueueOK(state', ioTasks')
    BY <2>1 DEF ConnInv, CountExact
  <2> QED BY <2>4, <2>5, <2>6, <2>7, <2>8 DEF ConnNext, ConnInv
<1> QED BY <1>2, <1>3, <1>4, <1>5

(* Every step keeps the connections right and moves their states on.       *)
LEMMA ConnStep ==
  ASSUME ConnTypes, ConnInv, [Next]_vars
  PROVE  ConnNext
<1>1. CASE \E t \in Threads : ShutdownConnections(t) /\ ioPc # "exited"
  <2>1. /\ ioTasks' = ioTasks \o SetToSeq({"shutdown"} \X m_connections)
        /\ UNCHANGED <<connVars, tableVars, worker, peer, mainPc, accepting, state>>
    BY <1>1 DEF ShutdownConnections, mainVars, connVars
  <2>2. QueueOK(state, ioTasks) /\ m_connections \in SUBSET Conns /\ ioTasks \in Seq(TaskType)
    BY DEF ConnTypes, ConnInv
  <2>3. /\ ioTasks' \in Seq(TaskType)
        /\ \A i \in 1..Len(ioTasks') :
              \/ i \in 1..Len(ioTasks) /\ ioTasks'[i] = ioTasks[i]
              \/ \E c \in m_connections : ioTasks'[i] = <<"shutdown", c>>
        /\ \A c : EstablishFirst(ioTasks, c) => EstablishFirst(ioTasks', c)
    BY <2>1, <2>2, ConcatTasks
  <2>4. \A c \in m_connections : TaskOK(state, <<"shutdown", c>>)
    BY DEF ConnTypes, ConnInv, ConnOK, TaskOK
  <2>5. QueueOK(state, ioTasks')
    BY <2>2, <2>3, <2>4 DEF QueueOK
  <2>6. Accepted'
    BY <2>1 DEF ConnInv, Accepted
  <2> QED BY <2>1, <2>5, <2>6, SameStep
<1>2. CASE UNCHANGED <<connVars, tableVars, worker, peer, ioTasks>> /\ Accepted'
  BY <1>2, SameStep DEF ConnInv
<1>3. CASE \/ ResetSignalFlags \/ StartSignalMonitor \/ StopSignalMonitor \/ JoinSignalMonitor
           \/ RpcStart \/ TcpStart \/ Activate \/ StartGroup \/ MainCheckStop
           \/ Deactivate \/ AfterLoop \/ SelfStopped \/ MainWakes \/ MainPollFails
  <2>1. UNCHANGED <<connVars, tableVars, worker, peer, ioTasks>>
    BY <1>3 DEF ResetSignalFlags, StartSignalMonitor, StopSignalMonitor, JoinSignalMonitor,
                RpcStart, TcpStart, Activate, StartGroup, MainCheckStop,
                Deactivate, AfterLoop, SelfStopped, MainWakes, MainPollFails
  <2>2. mainPc' \notin {"accept", "queue", "insert"}
    BY <1>3 DEF ResetSignalFlags, StartSignalMonitor, StopSignalMonitor, JoinSignalMonitor,
                RpcStart, TcpStart, Activate, StartGroup, MainCheckStop,
                Deactivate, AfterLoop, SelfStopped, MainWakes, MainPollFails, MainStep
  <2>3. Accepted'
    BY <2>2 DEF Accepted
  <2> QED BY <1>2, <2>1, <2>3
<1>4. CASE \/ \E t \in Stoppers \cup {Monitor} : RpcStop(t)
           \/ Signal
           \/ \E t \in Threads : \/ StopDispatcher(t) \/ Drained(t) \/ TcpStop(t) \/ StopMainLoop(t)
                                 \/ WaitMainLoop(t) \/ ResetGroup(t) \/ JoinGroup(t)
                                 \/ ShutdownConnections(t) /\ ioPc = "exited"
           \/ UNCHANGED vars
  <2>1. UNCHANGED <<connVars, tableVars, worker, peer, ioTasks, mainPc, accepting>>
    BY <1>4 DEF RpcStop, Signal, StopDispatcher, Drained, TcpStop, StopMainLoop, WaitMainLoop,
                ShutdownConnections, ResetGroup, JoinGroup, vars, mainVars
  <2>2. Accepted'
    BY <2>1 DEF ConnInv, Accepted, connVars
  <2> QED BY <1>2, <2>1, <2>2
<1>5. CASE IOThread \/ IOPollFails
  BY <1>5, IOStep
<1>6. CASE (\E c \in Conns : OnAccept(c)) \/ PickIOThread \/ QueueConnection \/ InsertConnection
  BY <1>6, AcceptStep
<1>7. ASSUME NEW c \in Conns,
             \/ ReadRequest(c) \/ ReadClose(c) \/ HandleWrite(c) \/ HandleError(c)
             \/ WorkerDone(c) \/ Defer(c) \/ RunDeferred(c) \/ SendResponse(c)
             \/ PeerConnects(c) \/ PeerCloses(c)
      PROVE  ConnNext
  BY <1>7, EventStep
<1> QED BY <1>1, <1>3, <1>4, <1>5, <1>6, <1>7 DEF Next, MainThread, Stopping

-----------------------------------------------------------------------------
(* The threads.                                                            *)

CtlTypes ==
    /\ m_started \in BOOLEAN /\ m_stopping \in BOOLEAN /\ dispatcherStopping \in BOOLEAN
    /\ m_signal_handlers_installed \in BOOLEAN
    /\ m_signal_monitor_stop \in BOOLEAN /\ g_shutdown_signal \in BOOLEAN
    /\ listening \in BOOLEAN
    /\ m_running \in BOOLEAN /\ m_main_loop_active \in BOOLEAN
    /\ stopMutex \in Threads \cup {None}
    /\ stopPc \in [Threads -> StopPc]
    /\ mainStop \in BOOLEAN /\ mainPc \in MainPc /\ accepting \in Conns \cup {None}
    /\ ready \in BOOLEAN /\ pollFailed \subseteq {"main", "io"}
    /\ group \in {"new", "started", "null"}
    /\ ioPc \in {"none", "check", "events", "tasks", "exited"} /\ ioStop \in BOOLEAN

ctlVars == <<m_running, m_main_loop_active, stopPc, mainStop, mainPc, ready, pollFailed,
             group, ioPc, ioStop>>

LEMMA TypeParts == TypeOK <=> ConnTypes /\ CtlTypes
  BY DEF TypeOK, ConnTypes, CtlTypes, TaskType, States, WorkerState

(* Requests are refused for good, and quiet lasts.                         *)
Settles ==
    /\ dispatcherStopping => dispatcherStopping'
    /\ Quiet => Quiet'

(* Once the dispatcher is stopped and drained no worker gets a request.    *)
LEMMA QuietStays == ConnTypes /\ [Next]_vars => Settles
<1> SUFFICES ASSUME ConnTypes, [Next]_vars,
                    UNCHANGED <<worker, dispatcherStopping>> => Settles,
                    worker' = worker /\ dispatcherStopping' => Settles
             PROVE  Settles
  BY DEF Settles, Quiet, PoolIdle
<1>1. ASSUME NEW c \in Conns,
             \/ OnAccept(c) \/ ReadClose(c) \/ HandleWrite(c)
             \/ HandleError(c) \/ PeerConnects(c) \/ PeerCloses(c)
      PROVE  UNCHANGED <<worker, dispatcherStopping>>
  BY <1>1 DEF OnAccept, ReadClose, HandleWrite, HandleError, PeerConnects, PeerCloses, rpcVars
<1>2. ASSUME NEW c \in Conns,
             ReadRequest(c) \/ WorkerDone(c) \/ Defer(c) \/ RunDeferred(c) \/ SendResponse(c)
      PROVE  Settles
  <2>1. /\ UNCHANGED dispatcherStopping
        /\ Quiet => \/ UNCHANGED worker
                    \/ \E w \in {"late", "idle", "crashed"} : worker' = [worker EXCEPT ![c] = w]
    BY <1>2 DEF ReadRequest, OnMessage, WorkerDone, Defer, RunDeferred, SendResponse, rpcVars,
                Quiet, PoolIdle
  <2> QED BY <2>1 DEF Settles, Quiet, PoolIdle, ConnTypes
<1>3. ASSUME NEW t \in Threads, Stopping(t)
      PROVE  worker' = worker /\ (dispatcherStopping' = dispatcherStopping \/ dispatcherStopping')
  BY <1>3 DEF Stopping, StopDispatcher, Drained, TcpStop, StopMainLoop, WaitMainLoop,
              ShutdownConnections, ResetGroup, JoinGroup, rpcVars
<1>4. CASE IOThread \/ IOPollFails
  BY <1>4 DEF IOThread, IOPollFails, IOCheckStop, EventsDone, TasksDone, RunStateTask,
              RunDrain, RunFlush, rpcVars
<1>5. CASE MainThread \/ MainWakes \/ MainPollFails
  BY <1>5 DEF MainThread, MainWakes, MainPollFails, ResetSignalFlags, StartSignalMonitor,
              StopSignalMonitor, JoinSignalMonitor, RpcStart, TcpStart, Activate, StartGroup,
              MainCheckStop, PickIOThread, QueueConnection, InsertConnection, Deactivate,
              AfterLoop, SelfStopped, rpcVars
<1>6. CASE (\E t \in Stoppers \cup {Monitor} : RpcStop(t)) \/ Signal \/ UNCHANGED vars
  BY <1>6 DEF RpcStop, Signal, vars, rpcVars
<1> QED BY <1>1, <1>2, <1>3, <1>4, <1>5, <1>6 DEF Next

(* Nothing the order depends on changes.                                   *)
LEMMA OrderSame ==
  ASSUME StopOrder, GroupAlive, Settles, UNCHANGED ctlVars
  PROVE  StopOrder' /\ GroupAlive'
  BY DEF ctlVars, Settles, StopOrder, GroupAlive, InTcpStop, PastWait, Starting, InTurn

(* start() and the main loop.                                              *)
LEMMA MainOrder ==
  ASSUME CtlTypes, StopOrder, GroupAlive, Settles,
         MainThread \/ MainWakes \/ MainPollFails \/ \E c \in Conns : OnAccept(c)
  PROVE  StopOrder' /\ GroupAlive'
<1> USE DEF Settles, StopOrder, GroupAlive, InTcpStop, PastWait, Starting, InTurn
<1>1. CASE RpcStart \/ ResetSignalFlags \/ StartSignalMonitor
  BY <1>1 DEF RpcStart, ResetSignalFlags, StartSignalMonitor, MainStep, ioVars, tcpVars, CtlTypes
<1>2. CASE TcpStart
  BY <1>2 DEF TcpStart, MainStep, ioVars, CtlTypes
<1>3. CASE Activate
  BY <1>3 DEF Activate, MainStep, ioVars, CtlTypes
<1>4. CASE StartGroup
  BY <1>4 DEF StartGroup, StartThreads, StartThread, MainStep, tcpVars, CtlTypes
<1>5. CASE MainCheckStop \/ MainWakes
  BY <1>5 DEF MainCheckStop, MainWakes, MainStep, ioVars, tcpVars, CtlTypes
<1>6. CASE MainPollFails
  BY <1>6 DEF MainPollFails, LoopDied, MainStep, ioVars, tcpVars, CtlTypes
<1>7. CASE \E c \in Conns : OnAccept(c)
  BY <1>7 DEF OnAccept, MainStep, ioVars, tcpVars, CtlTypes
<1>8. CASE PickIOThread \/ InsertConnection
  BY <1>8 DEF PickIOThread, InsertConnection, MainStep, ioVars, tcpVars, CtlTypes
<1>9. CASE QueueConnection
  <2>1. UNCHANGED <<m_running, m_main_loop_active, stopPc, mainStop, ready, pollFailed,
                    group, ioPc, ioStop>> /\ mainPc = "queue"
    BY <1>9 DEF QueueConnection, MainStep, ioVars, tcpVars
  <2>2. NoIOThread => "io" \in pollFailed
    BY <2>1 DEF NoIOThread
  <2>3. mainPc' = "insert" \/ (mainPc' = "crashed" /\ NoIOThread)
    BY <1>9 DEF QueueConnection, MainStep
  <2> QED BY <2>1, <2>2, <2>3 DEF CtlTypes
<1>10. CASE Deactivate
  BY <1>10 DEF Deactivate, MainStep, ioVars, CtlTypes
<1>11. CASE AfterLoop
  BY <1>11 DEF AfterLoop, MainStep, ioVars, CtlTypes, Threads, StopPc
<1>12. CASE SelfStopped \/ StopSignalMonitor \/ JoinSignalMonitor
  BY <1>12 DEF SelfStopped, StopSignalMonitor, JoinSignalMonitor, MainStep, ioVars, tcpVars, CtlTypes
<1> QED BY <1>1, <1>2, <1>3, <1>4, <1>5, <1>6, <1>7, <1>8, <1>9, <1>10, <1>11, <1>12
        DEF MainThread

(* The threads in stop().                                                  *)
LEMMA StopThreadOrder ==
  ASSUME CtlTypes, StopOrder, GroupAlive, Settles, NEW t \in Threads,
         Stopping(t) \/ (t # Main /\ RpcStop(t))
  PROVE  StopOrder' /\ GroupAlive'
<1> USE ServerAssumption DEF Settles, StopOrder, GroupAlive, InTcpStop, PastWait, Starting, InTurn
<1>1. Main \in Threads
  BY DEF Threads
<1>2. CASE t # Main /\ RpcStop(t)
  BY <1>1, <1>2 DEF RpcStop, StopStep, mainVars, ioVars, CtlTypes, StopPc
<1>3. CASE StopDispatcher(t)
  BY <1>1, <1>3 DEF StopDispatcher, StopStep, mainVars, ioVars, CtlTypes, StopPc
<1>4. CASE Drained(t)
  <2>1. Quiet
    BY <1>4 DEF Drained, StopStep, Quiet
  <2> QED BY <1>1, <1>4, <2>1 DEF Drained, StopStep, mainVars, ioVars, CtlTypes, StopPc
<1>5. CASE TcpStop(t)
  BY <1>1, <1>5 DEF TcpStop, StopStep, mainVars, ioVars, CtlTypes, StopPc
<1>6. CASE StopMainLoop(t)
  BY <1>1, <1>6 DEF StopMainLoop, StopStep, ioVars, CtlTypes, StopPc
<1>7. CASE WaitMainLoop(t)
  BY <1>1, <1>7 DEF WaitMainLoop, StopStep, mainVars, ioVars, CtlTypes, StopPc
<1>8. CASE ShutdownConnections(t)
  BY <1>1, <1>8 DEF ShutdownConnections, StopStep, mainVars, ioVars, CtlTypes, StopPc
<1>9. CASE ResetGroup(t)
  BY <1>1, <1>9 DEF ResetGroup, StopThread, StopStep, mainVars, ioVars, CtlTypes, StopPc
<1>10. CASE JoinGroup(t)
  BY <1>1, <1>10 DEF JoinGroup, StopStep, mainVars, ioVars, CtlTypes, StopPc
<1> QED BY <1>2, <1>3, <1>4, <1>5, <1>6, <1>7, <1>8, <1>9, <1>10 DEF Stopping

(* Every step keeps the order of the threads.                              *)
LEMMA OrderStep ==
  ASSUME TypeOK, StopOrder, GroupAlive, [Next]_vars
  PROVE  StopOrder' /\ GroupAlive'
<1>1. CtlTypes /\ Settles
  BY TypeParts, QuietStays
<1>2. CASE MainThread \/ MainWakes \/ MainPollFails \/ \E c \in Conns : OnAccept(c)
  BY <1>1, <1>2, MainOrder
<1>3. ASSUME NEW t \in Threads, Stopping(t) \/ (t # Main /\ RpcStop(t))
      PROVE  StopOrder' /\ GroupAlive'
  BY <1>1, <1>3, StopThreadOrder
<1>4. \A t \in Stoppers \cup {Monitor} : t \in Threads /\ t # Main
  BY ServerAssumption DEF Threads
<1>5. CASE IOCheckStop \/ IOPollFails \/ EventsDone \/ TasksDone
  BY <1>1, <1>5 DEF IOCheckStop, IOPollFails, LoopDied, EventsDone, TasksDone, tcpVars, mainVars, CtlTypes,
                    Settles, StopOrder, GroupAlive, InTcpStop, PastWait, Starting, InTurn
<1>6. CASE Signal \/ RunStateTask \/ RunDrain \/ RunFlush \/ UNCHANGED vars
  <2>1. UNCHANGED ctlVars
    BY <1>6 DEF Signal, RunStateTask, RunDrain, RunFlush, vars, ctlVars, tcpVars, mainVars, ioVars
  <2> QED BY <1>1, <2>1, OrderSame
<1>7. ASSUME NEW c \in Conns,
             \/ ReadRequest(c) \/ ReadClose(c) \/ HandleWrite(c) \/ HandleError(c)
             \/ WorkerDone(c) \/ Defer(c) \/ RunDeferred(c) \/ SendResponse(c)
             \/ PeerConnects(c) \/ PeerCloses(c)
      PROVE  StopOrder' /\ GroupAlive'
  <2>1. UNCHANGED ctlVars
    BY <1>7 DEF ReadRequest, ReadClose, HandleWrite, HandleError, WorkerDone, Defer, RunDeferred,
                SendResponse, PeerConnects, PeerCloses, ctlVars, tcpVars, mainVars, ioVars
  <2> QED BY <1>1, <2>1, OrderSame
<1> QED BY <1>2, <1>3, <1>4, <1>5, <1>6, <1>7 DEF Next, IOThread

(* The variables of the threads keep their types: start() and the main     *)
(* loop ...                                                                *)
LEMMA MainTypes ==
  ASSUME CtlTypes, MainThread \/ MainWakes \/ MainPollFails \/ \E c \in Conns : OnAccept(c)
  PROVE  CtlTypes'
<1> USE ServerAssumption DEF CtlTypes, MainStep, MainPc, rpcVars, signalVars, ioVars, tcpVars
<1>1. CASE RpcStart
  BY <1>1 DEF RpcStart
<1>2. CASE ResetSignalFlags
  <2>1. g_shutdown_signal' \in BOOLEAN /\ m_signal_monitor_stop' \in BOOLEAN /\ mainPc' \in MainPc
    BY <1>2 DEF ResetSignalFlags
  <2> QED BY <1>2, <2>1 DEF ResetSignalFlags
<1>3. CASE StartSignalMonitor
  BY <1>3 DEF StartSignalMonitor
<1>4. CASE TcpStart
  BY <1>4 DEF TcpStart
<1>5. CASE Activate
  BY <1>5 DEF Activate
<1>6. CASE StartGroup
  <2>1. /\ ready' \in BOOLEAN /\ mainPc' \in MainPc /\ group' \in {"new", "started", "null"}
        /\ ioPc' \in {"none", "check", "events", "tasks", "exited"}
    BY <1>6 DEF StartThreads, StartThread, StartGroup
  <2> QED BY <1>6, <2>1 DEF StartThreads, StartThread, StartGroup
<1>7. CASE MainCheckStop
  BY <1>7 DEF MainCheckStop
<1>8. CASE MainWakes
  BY <1>8 DEF MainWakes
<1>9. CASE MainPollFails
  BY <1>9 DEF MainPollFails
<1>10. CASE PickIOThread
  BY <1>10 DEF PickIOThread
<1>11. CASE QueueConnection
  BY <1>11 DEF QueueConnection
<1>12. CASE InsertConnection
  BY <1>12 DEF InsertConnection
<1>13. CASE Deactivate
  <2>1. m_main_loop_active' \in BOOLEAN /\ mainPc' \in MainPc
    BY <1>13 DEF Deactivate
  <2> QED BY <1>13, <2>1 DEF Deactivate
<1>14. CASE AfterLoop
  BY <1>14 DEF StopPc, Threads, AfterLoop
<1>15. CASE SelfStopped
  BY <1>15 DEF SelfStopped
<1>16. CASE StopSignalMonitor
  BY <1>16 DEF StopSignalMonitor
<1>17. CASE JoinSignalMonitor
  <2>1. g_shutdown_signal' \in BOOLEAN /\ m_signal_handlers_installed' \in BOOLEAN /\ mainPc' \in MainPc
    BY <1>17 DEF JoinSignalMonitor
  <2> QED BY <1>17, <2>1 DEF JoinSignalMonitor
<1>18. ASSUME NEW c \in Conns, OnAccept(c) PROVE CtlTypes'
  BY <1>18 DEF OnAccept
<1> HIDE DEF CtlTypes
<1> QED BY <1>1, <1>2, <1>3, <1>4, <1>5, <1>6, <1>7, <1>8, <1>9, <1>10,
           <1>11, <1>12, <1>13, <1>14, <1>15, <1>16, <1>17, <1>18 DEF MainThread

(* ... the threads in stop() ...                                           *)
LEMMA StopTypes ==
  ASSUME CtlTypes, NEW t \in Threads, Stopping(t) \/ RpcStop(t)
  PROVE  CtlTypes'
<1>1. stopPc' \in [Threads -> StopPc]
  BY DEF CtlTypes, Stopping, RpcStop, StopDispatcher, Drained, TcpStop, StopMainLoop,
         WaitMainLoop, ShutdownConnections, ResetGroup, JoinGroup, StopStep, StopPc
<1> USE <1>1 DEF CtlTypes, rpcVars, signalVars, mainVars, ioVars
<1>2. CASE RpcStop(t)
  BY <1>2 DEF RpcStop
<1>3. CASE StopDispatcher(t)
  BY <1>3 DEF StopDispatcher
<1>4. CASE Drained(t)
  BY <1>4 DEF Drained
<1>5. CASE TcpStop(t)
  <2>1. m_running' \in BOOLEAN /\ stopMutex' \in Threads \cup {None}
    BY <1>5 DEF TcpStop
  <2> QED BY <1>5, <2>1 DEF TcpStop
<1>6. CASE StopMainLoop(t)
  BY <1>6 DEF StopMainLoop
<1>7. CASE WaitMainLoop(t)
  BY <1>7 DEF WaitMainLoop
<1>8. CASE ShutdownConnections(t)
  BY <1>8 DEF ShutdownConnections
<1>9. CASE ResetGroup(t)
  BY <1>9 DEF StopThread, ResetGroup
<1>10. CASE JoinGroup(t)
  BY <1>10 DEF JoinGroup
<1> HIDE DEF CtlTypes
<1> QED BY <1>2, <1>3, <1>4, <1>5, <1>6, <1>7, <1>8, <1>9, <1>10 DEF Stopping

(* ... and everybody else.                                                 *)
LEMMA CtlTypesStep ==
  ASSUME CtlTypes, [Next]_vars
  PROVE  CtlTypes'
<1>1. CASE MainThread \/ MainWakes \/ MainPollFails \/ \E c \in Conns : OnAccept(c)
  BY <1>1, MainTypes
<1>2. ASSUME NEW t \in Threads, Stopping(t) \/ RpcStop(t) PROVE CtlTypes'
  BY <1>2, StopTypes
<1>3. CASE IOCheckStop
  BY <1>3 DEF IOCheckStop, CtlTypes, rpcVars, signalVars, mainVars, tcpVars
<1>4. CASE EventsDone
  BY <1>4 DEF EventsDone, CtlTypes, rpcVars, signalVars, mainVars, tcpVars
<1>5. CASE TasksDone
  BY <1>5 DEF TasksDone, CtlTypes, rpcVars, signalVars, mainVars, tcpVars
<1>6. CASE IOPollFails
  BY <1>6 DEF IOPollFails, CtlTypes, rpcVars, signalVars, tcpVars
<1>7. CASE Signal
  BY <1>7 DEF Signal, CtlTypes, mainVars, ioVars, tcpVars
<1>8. CASE UNCHANGED <<rpcVars, tcpVars, mainVars, ioVars, group>>
  BY <1>8 DEF CtlTypes, rpcVars, signalVars, mainVars, ioVars, tcpVars
<1>9. CASE RunStateTask \/ RunDrain \/ RunFlush \/ UNCHANGED vars
  BY <1>8, <1>9 DEF RunStateTask, RunDrain, RunFlush, vars
<1>10. ASSUME NEW c \in Conns,
              \/ ReadRequest(c) \/ ReadClose(c) \/ HandleWrite(c) \/ HandleError(c)
              \/ WorkerDone(c) \/ Defer(c) \/ RunDeferred(c) \/ SendResponse(c)
              \/ PeerConnects(c) \/ PeerCloses(c)
       PROVE  CtlTypes'
  BY <1>8, <1>10 DEF ReadRequest, ReadClose, HandleWrite, HandleError, WorkerDone, Defer, RunDeferred,
                     SendResponse, PeerConnects, PeerCloses
<1>11. \A t \in Stoppers \cup {Monitor} : t \in Threads
  BY DEF Threads
<1> QED BY <1>1, <1>2, <1>3, <1>4, <1>5, <1>6, <1>7, <1>9, <1>10, <1>11 DEF Next, IOThread

-----------------------------------------------------------------------------
(* The theorems.                                                           *)

LEMMA InitInv == Init => IInv
<1> SUFFICES ASSUME Init PROVE IInv
  OBVIOUS
<1> USE DEF Init, RpcServerInit, ListenOrNot
<1>1. ConnTypes
  <2>1. NewFdEvent \in FdEvent
    BY DEF NewFdEvent, FdEvent
  <2>2. ioTasks \in Seq(TaskType)
    OBVIOUS
  <2> QED BY <2>1, <2>2 DEF ConnTypes, States, WorkerState
<1>2. CtlTypes
  BY DEF CtlTypes, MainPc, StopPc
<1>3. ConnInv
  <2>1. {c \in Conns : state[c] \in Live} = {}
    BY DEF Live
  <2>2. CountExact
    BY <2>1, FS_EmptySet DEF CountExact
  <2>3. QueueOK(state, ioTasks)
    BY DEF QueueOK
  <2>4. \A c \in Conns : ConnOK(c)
    BY DEF ConnOK, Open, NewFdEvent, IsRegistered
  <2> QED BY <2>2, <2>3, <2>4 DEF ConnInv, Accepted
<1>4. StopOrder /\ GroupAlive
  BY DEF StopOrder, GroupAlive, InTcpStop, PastWait, Starting, InTurn, Threads
<1> QED BY <1>1, <1>2, <1>3, <1>4, TypeParts DEF IInv

LEMMA NextInv == IInv /\ [Next]_vars => IInv' /\ Forward
<1> SUFFICES ASSUME IInv, [Next]_vars PROVE IInv' /\ Forward
  OBVIOUS
<1>1. ConnTypes /\ CtlTypes /\ ConnInv
  BY TypeParts DEF IInv
<1>2. ConnNext
  BY <1>1, ConnStep
<1>3. CtlTypes'
  BY <1>1, CtlTypesStep
<1>4. StopOrder' /\ GroupAlive'
  BY OrderStep DEF IInv
<1>5. TypeOK'
  BY <1>2, <1>3 DEF ConnNext, ConnTypes, CtlTypes, TypeOK, TaskType, States, WorkerState
<1> QED BY <1>2, <1>4, <1>5 DEF IInv, ConnNext

(* The variables keep their types; in particular m_connection_count, which *)
(* removeConnection decrements, never wraps below zero.                    *)
THEOREM TypeCorrect == Spec => []TypeOK
<1>1. IInv => TypeOK
  BY DEF IInv
<1> QED BY InitInv, NextInv, <1>1, PTL DEF Spec

(* The loop's connection count is the number of connections accepted and   *)
(* not closed, for any number of connections and stopping threads.         *)
THEOREM CountIsExact == Spec => []CountExact
<1>1. IInv => CountExact
  BY DEF IInv, ConnInv
<1> QED BY InitInv, NextInv, <1>1, PTL DEF Spec

(* epoll watches exactly the open connections, and output that waits has   *)
(* something that will write it.                                           *)
THEOREM AlwaysWatched == Spec => []Watched
<1>1. IInv => Watched
  <2> SUFFICES ASSUME IInv, NEW c \in Conns
               PROVE  /\ IsRegistered(fdEvent[c]) <=> Open(c)
                      /\ out[c] /\ Open(c) => m_flush_queued[c] \/ Reports(fdEvent[c], "OUT")
    BY DEF Watched
  <2>1. ConnOK(c)
    BY DEF IInv, ConnInv
  <2> QED BY <2>1, AttachedReports DEF ConnOK, Attached
<1> QED BY InitInv, NextInv, <1>1, PTL DEF Spec

(* Once the server has come up the main loop never uses a destroyed IO     *)
(* group, however many threads stop the server and whenever they do.       *)
THEOREM GroupStaysAlive == Spec => []GroupAlive
<1>1. IInv => GroupAlive
  BY DEF IInv
<1> QED BY InitInv, NextInv, <1>1, PTL DEF Spec

(* No thread of the pool is in a service or sends a response when the IO   *)
(* loop has been stopped.                                                  *)
THEOREM WorkersEndFirst == Spec => []WorkersBeforeLoops
<1>1. IInv => WorkersBeforeLoops
  BY DEF IInv, StopOrder, Quiet, WorkersBeforeLoops
<1> QED BY InitInv, NextInv, <1>1, PTL DEF Spec

(* A connection's state never goes back.                                   *)
THEOREM StatesMoveForward == Spec => StateForward
<1>1. IInv /\ [Next]_vars => [Forward]_vars
  BY NextInv
<1> QED BY InitInv, NextInv, <1>1, PTL DEF Spec, StateForward
=============================================================================
