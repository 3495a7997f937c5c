---------------------------- MODULE DiscoveryProofs ----------------------------
(***************************************************************************)
(* The pool counts, keeps and outlives its connections as it should, and   *)
(* discover tells the truth, for every set of callers, loops, addresses,   *)
(* servers and scripts.                                                    *)
(*                                                                         *)
(* The argument is about who has a client: the pool, or exactly one thread *)
(* that is going to pool it or to stop it.  A task that is going to        *)
(* connect a client, and an entry in a poller, belong to a client that     *)
(* somebody has.  When a loop leaves, only the callers that shutdown met   *)
(* inside acquire may still have a client on it.                           *)
(*                                                                         *)
(* The second half is about the registry: what base64, the order of the    *)
(* keys and the range of a prefix compute, the leases that servers have,   *)
(* and from both that discover tells the truth.                            *)
(***************************************************************************)
EXTENDS Discovery, FiniteSetTheorems, SequenceTheorems, NaturalsInduction,
        WellFoundedInduction, TLAPS

-----------------------------------------------------------------------------
(* The inductive invariant.                                                *)

Stopping == {"stop", "stopQueue", "stopWait"}
\* Where a caller has not yet taken anything from the pool.
Quiet == {"idle", "discover", "pick", "acquire"}
\* Where a caller holds the client that it made, and where a thread holds one.
Making == {"connecting", "count", "insert", "uncount"}
Busy == Making \cup Stopping
Places == Quiet \cup Busy \cup {"evict", "connect", "clients", "closed"}

TaskType == [kind : {"now", "progress", "destroy"}, client : Nat]
LoopType == [state : {"looping", "stopping", "gone"}, tasks : Seq(TaskType),
             m_connection_count : Int]
ClientType ==
    [addr : Addrs, loop : Loops, m_connection : BOOLEAN, m_stopped : BOOLEAN,
     m_state : {"NotConnected", "Connected", "Closed"},
     watch : {"none", "connect", "read"},
     socket : {"none", "pending", "up", "refused", "closed"},
     done : BOOLEAN, error : {"none", "timeout", "failed"}, destroyed : BOOLEAN]
LocalsType ==
    [addr : Addrs \cup {None}, loop : Loops \cup {None}, client : Nat,
     stale : Seq(Nat), back : {"idle", "evict", "clients"}]

Types ==
    /\ script \in PoolScripts
    /\ m_clients \in [Addrs -> Seq(Nat)]
    /\ m_shutdown \in BOOLEAN
    /\ clients \in Seq(ClientType)
    /\ loop \in [Loops -> LoopType]
    /\ pc \in [Threads -> Places]
    /\ my \in [Threads -> LocalsType]

\* What a caller's locals are at each place of acquire; and the closer's.
CallerOK(p) ==
    /\ pc[p] \notin {"clients", "closed"}
    /\ pc[p] \in {"acquire", "evict", "connect"} \cup Busy => my[p].addr \in Addrs
    /\ my[p].loop # None => my[p].loop # Home[p]
    /\ pc[p] \in {"connect"} \cup Making => my[p].loop # None
    /\ pc[p] \in Making => clients[my[p].client].loop = my[p].loop
    /\ pc[p] \in Stopping => my[p].back \in {"idle", "evict"}
    /\ my[p].stale # <<>> =>
         pc[p] = "evict" \/ (pc[p] \in Stopping /\ my[p].back = "evict")
CloserOK ==
    /\ pc[Closer] \in {"idle", "clients", "closed"} \cup Stopping
    /\ pc[Closer] \in Stopping => my[Closer].back = "clients"
    /\ my[Closer].stale # <<>> => pc[Closer] \in {"clients"} \cup Stopping
LocalsOK == CloserOK /\ \A p \in Callers : CallerOK(p)

\* The order of shutdown.
Phases ==
    /\ m_shutdown <=> pc[Closer] # "idle"
    /\ \A l \in Loops : loop[l].state # "looping" =>
          /\ pc[Closer] \in {"clients", "closed"} /\ my[Closer].stale = <<>>
          /\ l # Group[1] => loop[Group[1]].state = "gone"
    /\ \A p \in Callers :
          Home[p] # None /\ loop[Home[p]].state = "gone" => pc[p] = "idle"

\* Who has client c.
Current(t, c) == pc[t] \in Busy /\ my[t].client = c
Later(t, c) == \E i \in DOMAIN my[t].stale : my[t].stale[i] = c
Has(t, c) == Current(t, c) \/ Later(t, c)
Pooled(c) == \E a \in Addrs : \E i \in DOMAIN m_clients[a] : m_clients[a][i] = c
InPool(c) == ~m_shutdown /\ Pooled(c)

Valid ==
    /\ \A a \in Addrs : \A i \in DOMAIN m_clients[a] : m_clients[a][i] \in ClientIds
    /\ \A t \in Threads : pc[t] \in Busy => my[t].client \in ClientIds
    /\ \A t \in Threads : \A i \in DOMAIN my[t].stale : my[t].stale[i] \in ClientIds
OneOwner ==
    /\ \A a, b \in Addrs : \A i \in DOMAIN m_clients[a], j \in DOMAIN m_clients[b] :
          m_clients[a][i] = m_clients[b][j] => a = b /\ i = j
    /\ \A t \in Threads : \A i, j \in DOMAIN my[t].stale :
          my[t].stale[i] = my[t].stale[j] => i = j
    /\ \A t \in Threads, c \in ClientIds : Current(t, c) => ~Later(t, c)
    /\ \A t, u \in Threads, c \in ClientIds : Has(t, c) /\ Has(u, c) => t = u
    /\ \A t \in Threads, c \in ClientIds : Has(t, c) => ~InPool(c)

\* A client that somebody has is whole until its stop() takes it apart.
Whole(c) == clients[c].m_connection /\ ~clients[c].m_stopped
OwnedWhole ==
    /\ \A c \in ClientIds : InPool(c) => Whole(c)
    /\ \A t \in Threads, c \in ClientIds : Later(t, c) => Whole(c)
    /\ \A t \in Threads, c \in ClientIds :
          Current(t, c) /\ pc[t] \notin {"stopQueue", "stopWait"} => Whole(c)

\* Tasks are of clients of their loop.  One that connects comes first and once,
\* while the thread that made the client, which is not the loop's, still has it.
ConnectTask(l, i, c) == loop[l].tasks[i].client = c /\ loop[l].tasks[i].kind # "destroy"
Maker(p, c) ==
    /\ pc[p] \in {"connecting"} \cup Stopping
    /\ my[p].client = c /\ Home[p] # clients[c].loop
Tasks ==
    \A l \in Loops : \A i \in DOMAIN loop[l].tasks :
        LET c == loop[l].tasks[i].client
        IN /\ c \in ClientIds /\ clients[c].loop = l
           /\ loop[l].tasks[i].kind # "destroy" =>
                /\ ~clients[c].done /\ clients[c].watch = "none" /\ ~clients[c].destroyed
                /\ \E p \in Callers : Maker(p, c)
                /\ \A j \in DOMAIN loop[l].tasks :
                     j < i => loop[l].tasks[j].client # c

\* What is watched or was not stopped has an owner, and nothing that was destroyed
\* is watched.
Live(c) == clients[c].watch # "none" \/ ~clients[c].m_stopped
LiveOwned ==
    \A c \in ClientIds :
        /\ clients[c].watch # "none" => ~clients[c].destroyed
        /\ Live(c) => InPool(c) \/ \E t \in Threads : Has(t, c)

Owning == Valid /\ OneOwner /\ OwnedWhole /\ Tasks /\ LiveOwned

IInv == Types /\ LocalsOK /\ Phases /\ Owning /\ LoadExact

\* A loop that is gone has nothing left, and what a thread waits to see destroyed
\* is stopped.
Emptied ==
    \A l \in Loops : loop[l].state = "gone" =>
        /\ loop[l].tasks = <<>>
        /\ \A c \in ClientIds : clients[c].loop = l => clients[c].watch = "none"
Taken ==
    \A t \in Threads : pc[t] \in {"stopQueue", "stopWait"} => clients[my[t].client].m_stopped
Side == Emptied /\ Taken

\* What discover found are addresses.
FoundOK ==
    /\ m_rr_service \in Nat /\ found = [p \in Callers |-> found[p]]
    /\ \A p \in Callers : pc[p] = "pick" => found[p] \in Seq(Addrs) /\ found[p] # <<>>

-----------------------------------------------------------------------------
(* Facts about the operators of the model.                                 *)

(* A minimum of naturals.                                                  *)
LEMMA MinExists ==
  ASSUME NEW S, S \subseteq Nat, S # {}
  PROVE  Min(S) \in S /\ \A y \in S : Min(S) <= y
<1>1. PICK x \in S : \A y \in S : ~(<<y, x>> \in OpToRel(<, Nat))
  BY NatLessThanWellFounded, WFMin
<1>2. \A y \in S : x <= y
  <2> SUFFICES ASSUME NEW y \in S, y < x PROVE FALSE
    OBVIOUS
  <2>1. <<y, x>> \in OpToRel(<, Nat)
    BY DEF OpToRel
  <2> QED BY <1>1, <2>1
<1> QED BY <1>2 DEF Min

LEMMA GroupFacts ==
  /\ Len(Group) \in Nat /\ DOMAIN Group = 1..Len(Group)
  /\ \A i \in DOMAIN Group : Group[i] \in Loops
  /\ \A l \in Loops : \E i \in DOMAIN Group : Group[i] = l
  /\ None \notin Loops /\ None \notin Addrs /\ Closer \notin Callers
  /\ \A p \in Callers : Home[p] \in Loops \cup {None}
  BY PoolAssumption DEF Loops, Range

(* Counts of connections that are natural numbers.                         *)
Counted == \A l \in Loops : loop[l].m_connection_count \in Nat

(* The emptiest loop of a set is one of the set.                           *)
LEMMA EmptiestIn ==
  ASSUME Counted, NEW S, S \subseteq Loops, S # {}
  PROVE  Emptiest(S) \in S
<1> DEFINE counts == {loop[l].m_connection_count : l \in S}
           least == Min(counts)
           places == {i \in DOMAIN Group :
                        Group[i] \in S /\ loop[Group[i]].m_connection_count = least}
<1>1. least \in counts
  BY MinExists DEF Counted
<1> HIDE DEF least
<1>2. PICK i \in DOMAIN Group : Group[i] \in S /\ loop[Group[i]].m_connection_count = least
  BY <1>1, GroupFacts
<1>3. i \in places /\ places \subseteq Nat
  BY <1>2, GroupFacts
<1>4. Min(places) \in places
  BY <1>3, MinExists
<1> QED BY <1>4 DEF Emptiest, least

(* pickLoop never gives a callback its own loop.                           *)
LEMMA PickLoopElsewhere ==
  Counted => \A p \in Callers : PickLoop(p) \in (Loops \ {Home[p]}) \cup {None}
<1> SUFFICES ASSUME Counted, NEW p \in Callers
             PROVE  PickLoop(p) \in (Loops \ {Home[p]}) \cup {None}
  OBVIOUS
<1> DEFINE live == {l \in Loops : loop[l].state # "gone"}
           best == Emptiest(live)
           rest == live \ {best}
<1>1. CASE live = {}
  BY <1>1 DEF PickLoop
<1>2. CASE live # {}
  <2>1. best \in live
    BY <1>2, EmptiestIn
  <2>2. rest # {} => Emptiest(rest) \in rest
    BY EmptiestIn
  <2> HIDE DEF best
  <2> QED BY <1>2, <2>1, <2>2 DEF PickLoop, best
<1> QED BY <1>1, <1>2

LEMMA PickLoopNext ==
  (Counted => \A p \in Callers : PickLoop(p) \in (Loops \ {Home[p]}) \cup {None})'
  BY PickLoopElsewhere, PTL

-----------------------------------------------------------------------------
(* What a step leaves alone.                                               *)

LEMMA ClientIdsAre ==
  clients \in Seq(ClientType) => ClientIds = 1..Len(clients) /\ Len(clients) \in Nat
  BY DEF ClientIds

(* Clients keep their loops.                                               *)
KeepLoops == \A c \in ClientIds : c \in ClientIds' /\ clients'[c].loop = clients[c].loop

(* A caller goes on in acquire.                                            *)
LEMMA CallerMoves ==
  ASSUME IInv, NEW p \in Callers, NEW s \in Places, NEW m \in LocalsType,
         pc' = [pc EXCEPT ![p] = s], my' = [my EXCEPT ![p] = m],
         UNCHANGED m_shutdown, KeepLoops,
         \A l \in Loops : loop'[l].state = loop[l].state,
         pc[p] = "idle" /\ s # "idle" /\ Home[p] # None => loop[Home[p]].state # "gone",
         CallerOK(p)'
  PROVE  LocalsOK' /\ Phases'
<1>1. p \in Threads /\ Closer \in Threads /\ p # Closer
  BY GroupFacts DEF Threads
<1>2. pc'[p] = s /\ my'[p] = m /\ \A t \in Threads \ {p} : pc'[t] = pc[t] /\ my'[t] = my[t]
  BY <1>1 DEF IInv, Types
<1>3. CloserOK'
  BY <1>1, <1>2 DEF IInv, LocalsOK, CloserOK
<1>4. ASSUME NEW q \in Callers, q # p PROVE CallerOK(q)'
  <2>1. q \in Threads /\ pc'[q] = pc[q] /\ my'[q] = my[q]
    BY <1>2, <1>4 DEF Threads
  <2>2. pc[q] \in Making => clients'[my[q].client].loop = clients[my[q].client].loop
    BY <2>1 DEF IInv, Owning, Valid, KeepLoops, Busy
  <2> QED BY <2>1, <2>2 DEF IInv, LocalsOK, CallerOK
<1>5. LocalsOK'
  BY <1>3, <1>4 DEF LocalsOK
<1>6. Phases'
  <2>1. m_shutdown' <=> pc'[Closer] # "idle"
    BY <1>1, <1>2 DEF IInv, Phases
  <2>3. ASSUME NEW l \in Loops, loop'[l].state # "looping"
        PROVE  /\ pc'[Closer] \in {"clients", "closed"} /\ my'[Closer].stale = <<>>
               /\ l # Group[1] => loop'[Group[1]].state = "gone"
    <3>1. Group[1] \in Loops
      BY GroupFacts
    <3> QED BY <1>1, <1>2, <2>3, <3>1 DEF IInv, Phases
  <2>4. ASSUME NEW q \in Callers, Home[q] # None, loop'[Home[q]].state = "gone"
        PROVE  pc'[q] = "idle"
    <3>1. Home[q] \in Loops
      BY <2>4, GroupFacts
    <3> QED BY <1>2, <2>4, <3>1 DEF IInv, Phases, Threads
  <2> QED BY <2>1, <2>3, <2>4 DEF Phases
<1> QED BY <1>5, <1>6

(* The closer goes on in shutdown.                                         *)
LEMMA CloserMoves ==
  ASSUME IInv, NEW s \in Places, NEW m \in LocalsType, s # "idle",
         pc' = [pc EXCEPT ![Closer] = s], my' = [my EXCEPT ![Closer] = m],
         m_shutdown', KeepLoops,
         \A l \in Loops : loop'[l].state = loop[l].state,
         (\E l \in Loops : loop[l].state # "looping") => s \in {"clients", "closed"} /\ m.stale = <<>>,
         CloserOK'
  PROVE  LocalsOK' /\ Phases'
<1>1. Closer \in Threads
  BY DEF Threads
<1>2. pc'[Closer] = s /\ my'[Closer] = m
    /\ \A p \in Callers : p \in Threads /\ pc'[p] = pc[p] /\ my'[p] = my[p]
  BY <1>1, GroupFacts DEF IInv, Types, Threads
<1>3. ASSUME NEW q \in Callers PROVE CallerOK(q)'
  <2>2. pc[q] \in Making => clients'[my[q].client].loop = clients[my[q].client].loop
    BY <1>2 DEF IInv, Owning, Valid, KeepLoops, Busy
  <2> QED BY <1>2, <2>2 DEF IInv, LocalsOK, CallerOK
<1>5. LocalsOK'
  BY <1>3 DEF LocalsOK
<1>6. Phases'
  <2>1. m_shutdown' <=> pc'[Closer] # "idle"
    BY <1>2
  <2>3. ASSUME NEW l \in Loops, loop'[l].state # "looping"
        PROVE  /\ pc'[Closer] \in {"clients", "closed"} /\ my'[Closer].stale = <<>>
               /\ l # Group[1] => loop'[Group[1]].state = "gone"
    <3>1. Group[1] \in Loops
      BY GroupFacts
    <3> QED BY <1>2, <2>3, <3>1 DEF IInv, Phases
  <2>4. ASSUME NEW q \in Callers, Home[q] # None, loop'[Home[q]].state = "gone"
        PROVE  pc'[q] = "idle"
    <3>1. Home[q] \in Loops
      BY <2>4, GroupFacts
    <3> QED BY <1>2, <2>4, <3>1 DEF IInv, Phases
  <2> QED BY <2>1, <2>3, <2>4 DEF Phases
<1> QED BY <1>5, <1>6

(* Clients and tasks as they were, but for what no invariant looks at.     *)
KeepClients ==
    /\ ClientIds' = ClientIds
    /\ \A c \in ClientIds :
          /\ clients'[c].loop = clients[c].loop
          /\ clients'[c].m_connection = clients[c].m_connection
          /\ clients'[c].m_stopped = clients[c].m_stopped
          /\ clients'[c].watch = clients[c].watch
          /\ clients'[c].done = clients[c].done
          /\ clients'[c].destroyed = clients[c].destroyed
KeepTasks == \A l \in Loops : loop'[l].tasks = loop[l].tasks

(* Thread t may go on to s with locals m: with no clients but those it     *)
(* had, and what it gives up is stopped and not watched, and has no task   *)
(* that connects it.                                                       *)
MayMove(t, s, m) ==
    /\ s \in Busy =>
         /\ Has(t, m.client)
         /\ \A i \in DOMAIN m.stale : m.stale[i] # m.client
         /\ s \notin {"stopQueue", "stopWait"} => Whole(m.client)
    /\ \A i \in DOMAIN m.stale : Later(t, m.stale[i])
    /\ \A i, j \in DOMAIN m.stale : m.stale[i] = m.stale[j] => i = j
    /\ \A c \in ClientIds : Maker(t, c) =>
         \/ s \in {"connecting"} \cup Stopping /\ m.client = c
         \/ \A l \in Loops : \A i \in DOMAIN loop[l].tasks : ~ConnectTask(l, i, c)
    /\ \A c \in ClientIds : Has(t, c) =>
         \/ s \in Busy /\ m.client = c
         \/ \E i \in DOMAIN m.stale : m.stale[i] = c
         \/ ~Live(c)

LEMMA Moves ==
  ASSUME IInv, NEW t \in Threads, NEW s \in Places, NEW m \in LocalsType,
         pc' = [pc EXCEPT ![t] = s], my' = [my EXCEPT ![t] = m],
         UNCHANGED <<m_clients, m_shutdown>>, KeepClients, KeepTasks,
         MayMove(t, s, m)
  PROVE  Owning'
<1>1. pc'[t] = s /\ my'[t] = m /\ \A u \in Threads \ {t} : pc'[u] = pc[u] /\ my'[u] = my[u]
  BY DEF IInv, Types
<1>2. \A u \in Threads \ {t} : \A c :
        (Current(u, c)' <=> Current(u, c)) /\ (Later(u, c)' <=> Later(u, c))
  BY <1>1 DEF Current, Later
<1>3. \A c : (Current(t, c)' <=> s \in Busy /\ m.client = c)
             /\ (Later(t, c)' <=> \E i \in DOMAIN m.stale : m.stale[i] = c)
  BY <1>1 DEF Current, Later
<1>4. \A c : InPool(c)' <=> InPool(c)
  BY DEF InPool, Pooled
<1>5. \A u \in Threads : \A c : Has(u, c)' => Has(u, c)
  BY <1>2, <1>3 DEF Has, MayMove
<1>6. Valid'
  <2>1. \A c : Has(t, c) => c \in ClientIds
    BY DEF Has, Current, Later, IInv, Owning, Valid
  <2>2. s \in Busy => m.client \in ClientIds
    BY <2>1 DEF MayMove
  <2>3. \A i \in DOMAIN m.stale : m.stale[i] \in ClientIds
    BY <2>1 DEF Has, MayMove
  <2> QED BY <1>1, <2>2, <2>3 DEF KeepClients, IInv, Owning, Valid
<1>7. OneOwner'
  <2>1. \A u \in Threads : \A i, j \in DOMAIN my'[u].stale :
          my'[u].stale[i] = my'[u].stale[j] => i = j
    BY <1>1 DEF IInv, Owning, OneOwner, MayMove
  <2>2. \A u \in Threads, c \in ClientIds : Current(u, c)' => ~Later(u, c)'
    BY <1>2, <1>3 DEF IInv, Owning, OneOwner, MayMove
  <2>3. \A u, v \in Threads, c \in ClientIds : Has(u, c)' /\ Has(v, c)' => u = v
    BY <1>5 DEF IInv, Owning, OneOwner
  <2>4. \A u \in Threads, c \in ClientIds : Has(u, c)' => ~InPool(c)'
    BY <1>4, <1>5 DEF IInv, Owning, OneOwner
  <2> QED BY <2>1, <2>2, <2>3, <2>4 DEF KeepClients, IInv, Owning, OneOwner
<1>8. OwnedWhole'
  <2>1. \A c \in ClientIds : Whole(c)' <=> Whole(c)
    BY DEF KeepClients, Whole
  <2>2. \A c \in ClientIds : InPool(c)' => Whole(c)'
    BY <1>4, <2>1 DEF IInv, Owning, OwnedWhole
  <2>3. \A u \in Threads, c \in ClientIds : Later(u, c)' => Whole(c)'
    BY <1>2, <1>3, <2>1 DEF IInv, Owning, OwnedWhole, MayMove
  <2>4. ASSUME NEW u \in Threads, NEW c \in ClientIds, Current(u, c)',
               pc'[u] \notin {"stopQueue", "stopWait"}
        PROVE  Whole(c)'
    BY <1>1, <1>2, <1>3, <2>1, <2>4 DEF IInv, Owning, OwnedWhole, MayMove
  <2> QED BY <2>2, <2>3, <2>4 DEF OwnedWhole, KeepClients
<1>9. Tasks'
  <2> SUFFICES ASSUME NEW l \in Loops, NEW i \in DOMAIN loop[l].tasks,
                      NEW c, c = loop[l].tasks[i].client
               PROVE  /\ c \in ClientIds' /\ clients'[c].loop = l
                      /\ loop[l].tasks[i].kind # "destroy" =>
                           /\ ~clients'[c].done /\ clients'[c].watch = "none"
                           /\ ~clients'[c].destroyed
                           /\ \E p \in Callers : Maker(p, c)'
                           /\ \A j \in DOMAIN loop[l].tasks :
                                j < i => loop[l].tasks[j].client # c
    BY DEF KeepTasks, Tasks
  <2>1. c \in ClientIds /\ clients[c].loop = l
    BY DEF IInv, Owning, Tasks
  <2>2. ASSUME loop[l].tasks[i].kind # "destroy"
        PROVE  \E p \in Callers : Maker(p, c)'
    <3>1. PICK p \in Callers : Maker(p, c)
      BY <2>2 DEF IInv, Owning, Tasks
    <3>2. p \in Threads /\ ConnectTask(l, i, c)
      BY <2>2 DEF Threads, ConnectTask
    <3>3. CASE p = t
      BY <1>1, <2>1, <3>1, <3>2, <3>3 DEF Maker, KeepClients, MayMove
    <3>4. CASE p # t
      BY <1>1, <2>1, <3>1, <3>2, <3>4 DEF Maker, KeepClients
    <3> QED BY <3>3, <3>4
  <2> QED BY <2>1, <2>2 DEF KeepClients, IInv, Owning, Tasks
<1>10. LiveOwned'
  <2> SUFFICES ASSUME NEW c \in ClientIds, Live(c)
               PROVE  InPool(c)' \/ \E u \in Threads : Has(u, c)'
    BY DEF LiveOwned, Live, KeepClients, IInv, Owning
  <2>1. CASE InPool(c)
    BY <1>4, <2>1
  <2>2. ASSUME NEW u \in Threads, Has(u, c) PROVE \E v \in Threads : Has(v, c)'
    BY <1>2, <1>3, <2>2 DEF Has, MayMove
  <2> QED BY <2>1, <2>2 DEF IInv, Owning, LiveOwned
<1> QED BY <1>6, <1>7, <1>8, <1>9, <1>10 DEF Owning

-----------------------------------------------------------------------------
(* The connections that a loop is charged with.                            *)

Paying(p, c) == pc[p] \in {"insert", "uncount"} /\ my[p].client = c
IsCharged(c) ==
    \/ InPool(c)
    \/ m_shutdown /\ Later(Closer, c)
    \/ \E p \in Callers : Paying(p, c)

LEMMA ChargedAre ==
  \A l, c : c \in Charged(l) <=> c \in ClientIds /\ clients[c].loop = l /\ IsCharged(c)
  BY DEF Charged, IsCharged, InPool, Pooled, Later, Paying, Range

LEMMA ChargedAreNext ==
  (\A l, c : c \in Charged(l) <=> c \in ClientIds /\ clients[c].loop = l /\ IsCharged(c))'
  BY ChargedAre, PTL

LEMMA ChargedFinite == clients \in Seq(ClientType) => \A l : IsFiniteSet(Charged(l))
<1> SUFFICES ASSUME clients \in Seq(ClientType), NEW l PROVE IsFiniteSet(Charged(l))
  OBVIOUS
<1>1. IsFiniteSet(ClientIds)
  BY ClientIdsAre, FS_Interval
<1> QED BY <1>1, FS_Subset DEF Charged

LEMMA CountsAre == IInv => Counted
<1> SUFFICES ASSUME IInv, NEW l \in Loops PROVE loop[l].m_connection_count \in Nat
  BY DEF Counted
<1>1. loop[l].m_connection_count = Cardinality(Charged(l))
  BY DEF IInv, LoadExact
<1> QED BY <1>1, ChargedFinite, FS_CardinalityType DEF IInv, Types

LEMMA CountsAreNext == (clients \in Seq(ClientType) /\ LoadExact => Counted)'
<1>1. clients \in Seq(ClientType) /\ LoadExact => Counted
  <2> SUFFICES ASSUME clients \in Seq(ClientType), LoadExact, NEW l \in Loops
               PROVE  loop[l].m_connection_count \in Nat
    BY DEF Counted
  <2>1. loop[l].m_connection_count = Cardinality(Charged(l))
    BY DEF LoadExact
  <2> QED BY <2>1, ChargedFinite, FS_CardinalityType
<1> QED BY <1>1, PTL

KeepCounts == \A l \in Loops : loop'[l].m_connection_count = loop[l].m_connection_count

(* The same connections, the same counts.                                  *)
LEMMA LoadSame ==
  ASSUME IInv, KeepLoops, KeepCounts,
         \A c \in ClientIds' : IsCharged(c)' <=> c \in ClientIds /\ IsCharged(c)
  PROVE  LoadExact'
<1> SUFFICES ASSUME NEW l \in Loops PROVE Charged(l)' = Charged(l)
  BY DEF LoadExact, IInv, KeepCounts
<1>1. \A c : c \in Charged(l)' <=> c \in Charged(l)
  BY ChargedAre, ChargedAreNext DEF KeepLoops
<1> QED BY <1>1

(* A thread that moves without counting or uncounting.                     *)
LEMMA MovesLoad ==
  ASSUME IInv, NEW t \in Threads, NEW s \in Places, NEW m \in LocalsType,
         pc' = [pc EXCEPT ![t] = s], my' = [my EXCEPT ![t] = m],
         UNCHANGED <<m_clients, m_shutdown>>, ClientIds' = ClientIds, KeepLoops, KeepCounts,
         t = Closer => m.stale = my[t].stale,
         s \in {"insert", "uncount"} <=> pc[t] \in {"insert", "uncount"},
         s \in {"insert", "uncount"} => m.client = my[t].client
  PROVE  LoadExact'
<1>1. pc'[t] = s /\ my'[t] = m /\ \A u \in Threads \ {t} : pc'[u] = pc[u] /\ my'[u] = my[u]
  BY DEF IInv, Types
<1>2. \A c : InPool(c)' <=> InPool(c)
  BY DEF InPool, Pooled
<1>3. \A c : Later(Closer, c)' <=> Later(Closer, c)
  BY <1>1 DEF Later, Threads
<1>4. \A p \in Callers : \A c : Paying(p, c)' <=> Paying(p, c)
  BY <1>1 DEF Paying, Threads
<1>5. \A c : IsCharged(c)' <=> IsCharged(c)
  BY <1>2, <1>3, <1>4 DEF IsCharged
<1> QED BY <1>5, LoadSame

(* One connection more, and one less.                                      *)
LEMMA LoadMore ==
  ASSUME IInv, KeepLoops, ClientIds' = ClientIds, NEW k \in ClientIds,
         loop' = [loop EXCEPT ![clients[k].loop].m_connection_count = @ + 1],
         ~IsCharged(k),
         \A c \in ClientIds : IsCharged(c)' <=> IsCharged(c) \/ c = k
  PROVE  LoadExact'
<1> SUFFICES ASSUME NEW l \in Loops
             PROVE  loop'[l].m_connection_count = Cardinality(Charged(l)')
  BY DEF LoadExact
<1>1. IsFiniteSet(Charged(l)) /\ loop[l].m_connection_count = Cardinality(Charged(l))
  BY ChargedFinite DEF IInv, Types, LoadExact
<1>2. CASE l = clients[k].loop
  <2>1. Charged(l)' = Charged(l) \cup {k} /\ k \notin Charged(l)
    BY <1>2, ChargedAre, ChargedAreNext DEF KeepLoops
  <2>2. Cardinality(Charged(l)') = Cardinality(Charged(l)) + 1
    BY <1>1, <2>1, FS_AddElement
  <2>3. loop'[l].m_connection_count = loop[l].m_connection_count + 1
    BY <1>2 DEF IInv, Types, LoopType
  <2> QED BY <1>1, <2>2, <2>3
<1>3. CASE l # clients[k].loop
  <2>0. \A c : c \in Charged(l)' <=> c \in Charged(l)
    BY <1>3, ChargedAre, ChargedAreNext DEF KeepLoops
  <2>1. Charged(l)' = Charged(l)
    BY <2>0
  <2>2. loop'[l].m_connection_count = loop[l].m_connection_count
    BY <1>3 DEF IInv, Types
  <2> QED BY <1>1, <2>1, <2>2
<1> QED BY <1>2, <1>3

LEMMA LoadLess ==
  ASSUME IInv, KeepLoops, ClientIds' = ClientIds, NEW k \in ClientIds,
         loop' = [loop EXCEPT ![clients[k].loop].m_connection_count = @ + (-1)],
         IsCharged(k),
         \A c \in ClientIds : IsCharged(c)' <=> IsCharged(c) /\ c # k
  PROVE  LoadExact'
<1> SUFFICES ASSUME NEW l \in Loops
             PROVE  loop'[l].m_connection_count = Cardinality(Charged(l)')
  BY DEF LoadExact
<1>1. IsFiniteSet(Charged(l)) /\ loop[l].m_connection_count = Cardinality(Charged(l))
  BY ChargedFinite DEF IInv, Types, LoadExact
<1>2. CASE l = clients[k].loop
  <2>1. Charged(l)' = Charged(l) \ {k} /\ k \in Charged(l)
    BY <1>2, ChargedAre, ChargedAreNext DEF KeepLoops
  <2>2. Cardinality(Charged(l)') = Cardinality(Charged(l)) - 1
    BY <1>1, <2>1, FS_RemoveElement
  <2>3. loop'[l].m_connection_count = loop[l].m_connection_count - 1
    BY <1>2 DEF IInv, Types, LoopType
  <2> QED BY <1>1, <2>2, <2>3
<1>3. CASE l # clients[k].loop
  <2>0. \A c : c \in Charged(l)' <=> c \in Charged(l)
    BY <1>3, ChargedAre, ChargedAreNext DEF KeepLoops
  <2>1. Charged(l)' = Charged(l)
    BY <2>0
  <2>2. loop'[l].m_connection_count = loop[l].m_connection_count
    BY <1>3 DEF IInv, Types
  <2> QED BY <1>1, <2>1, <2>2
<1> QED BY <1>2, <1>3

-----------------------------------------------------------------------------
(* acquire, step by step.                                                  *)

(* A caller that has no client goes on without one.                        *)
LEMMA QuietMoves ==
  ASSUME IInv, NEW p \in Callers, pc[p] \in Quiet,
         NEW s \in Quiet \cup {"evict"}, NEW m \in LocalsType,
         pc' = [pc EXCEPT ![p] = s], my' = [my EXCEPT ![p] = m],
         UNCHANGED <<script, m_clients, m_shutdown, clients, loop>>,
         m.stale = <<>>,
         s \in {"acquire", "evict"} => m.addr \in Addrs,
         m.loop # None => m.loop # Home[p],
         pc[p] = "idle" /\ s # "idle" /\ Home[p] # None => loop[Home[p]].state # "gone"
  PROVE  IInv'
<1>1. p \in Threads /\ p # Closer /\ s \in Places
  BY GroupFacts DEF Threads, Places
<1>2. pc'[p] = s /\ my'[p] = m
  BY <1>1 DEF IInv, Types
<1>3. s \notin Busy /\ pc[p] \notin Busy /\ DOMAIN m.stale = {}
  BY DEF Busy, Making, Stopping, Quiet
<1>4. \A c : ~Has(p, c)
  <2>1. my[p].stale = <<>>
    BY DEF IInv, LocalsOK, CallerOK, Quiet, Stopping
  <2> QED BY <1>3, <2>1 DEF Has, Current, Later
<1>5. Types'
  BY <1>1 DEF IInv, Types
<1>6. CallerOK(p)'
  BY <1>2, <1>3 DEF CallerOK, Quiet, Busy, Making, Stopping
<1>7. KeepLoops /\ KeepClients /\ KeepTasks /\ KeepCounts
  BY DEF KeepLoops, KeepClients, KeepTasks, KeepCounts, ClientIds
<1>8. LocalsOK' /\ Phases'
  BY <1>1, <1>6, <1>7, CallerMoves DEF Quiet
<1>9. Owning'
  <2>1. \A c : ~Maker(p, c)
    BY <1>3 DEF Maker, Busy, Making
  <2>2. MayMove(p, s, m)
    BY <1>3, <1>4, <2>1 DEF MayMove
  <2> QED BY <1>1, <1>7, <2>2, Moves
<1>10. LoadExact'
  <2>1. s \notin {"insert", "uncount"} /\ pc[p] \notin {"insert", "uncount"}
    BY DEF Quiet
  <2> QED BY <1>1, <1>7, <2>1, MovesLoad DEF ClientIds
<1> QED BY <1>5, <1>8, <1>9, <1>10 DEF IInv

LEMMA NoLocalsType == NoLocals \in LocalsType
  BY DEF NoLocals, LocalsType

LEMMA MyType == IInv => \A t \in Threads : my[t] \in LocalsType /\ pc[t] \in Places
  BY DEF IInv, Types

LEMMA CallersAreThreads == \A p \in Callers : p \in Threads /\ p # Closer
  BY GroupFacts DEF Threads

LEMMA AcquireOK == ASSUME IInv, NEW p \in Callers, Acquire(p) PROVE IInv'
<1>0. PICK a \in Addrs : a = Head(calls[p])
  BY DEF Acquire
<1> DEFINE m == [NoLocals EXCEPT !.addr = a]
<1>1. m \in LocalsType /\ m.stale = <<>> /\ m.addr \in Addrs /\ m.loop = None
  <2>1. NoLocals.stale = <<>> /\ NoLocals.loop = None
    BY DEF NoLocals
  <2>2. m \in LocalsType
    BY NoLocalsType DEF LocalsType
  <2> QED BY <2>1, <2>2, NoLocalsType DEF LocalsType
<1>2. Home[p] # None => loop[Home[p]].state # "gone"
  BY DEF Acquire, LoopFree
<1>3. pc[p] \in Quiet /\ "acquire" \in Quiet
  BY DEF Acquire, Quiet
<1>4. my' = [my EXCEPT ![p] = m]
  BY <1>0 DEF Acquire
<1> HIDE DEF m
<1> QED BY <1>1, <1>2, <1>3, <1>4, QuietMoves DEF Acquire, Goto, poolVars

LEMMA AcquireRefusedOK == ASSUME IInv, NEW p \in Callers, AcquireRefused(p) PROVE IInv'
<1>1. pc[p] \in Quiet /\ "idle" \in Quiet /\ pc[p] # "idle"
  BY DEF AcquireRefused, Quiet
<1>2. NoLocals.stale = <<>> /\ NoLocals.loop = None
  BY DEF NoLocals
<1> QED BY <1>1, <1>2, NoLocalsType, QuietMoves DEF AcquireRefused, Return, Goto, poolVars

LEMMA AcquirePooledOK == ASSUME IInv, NEW p \in Callers, AcquirePooled(p) PROVE IInv'
<1>1. pc[p] \in Quiet /\ "idle" \in Quiet /\ pc[p] # "idle"
  BY DEF AcquirePooled, Quiet
<1>2. NoLocals.stale = <<>> /\ NoLocals.loop = None
  BY DEF NoLocals
<1> QED BY <1>1, <1>2, NoLocalsType, QuietMoves DEF AcquirePooled, Return, Goto

LEMMA AcquireMoreOK == ASSUME IInv, NEW p \in Callers, AcquireMore(p) PROVE IInv'
<1> DEFINE m == [my[p] EXCEPT !.loop = PickLoop(p)]
<1>1. pc[p] \in Quiet /\ pc[p] # "idle" /\ ~m_shutdown /\ my[p].addr \in Addrs
      /\ my[p].stale = <<>>
  BY DEF AcquireMore, Quiet, IInv, LocalsOK, CallerOK, Stopping
<1>2. PickLoop(p) \in (Loops \ {Home[p]}) \cup {None}
  BY CountsAre, PickLoopElsewhere
<1>3. /\ m \in LocalsType /\ m.stale = <<>> /\ m.addr \in Addrs
      /\ m.loop # None => m.loop # Home[p]
  BY <1>1, <1>2, MyType, CallersAreThreads DEF LocalsType
<1>4. my' = [my EXCEPT ![p] = m]
  BY DEF AcquireMore
<1> HIDE DEF m
<1> QED BY <1>1, <1>3, <1>4, QuietMoves DEF AcquireMore, Goto, poolVars

LEMMA AcquireByServiceOK == ASSUME IInv, NEW p \in Callers, AcquireByService(p) PROVE IInv'
<1>1. pc[p] \in Quiet /\ "discover" \in Quiet
  BY DEF AcquireByService, Quiet
<1>2. Home[p] # None => loop[Home[p]].state # "gone"
  BY DEF AcquireByService, LoopFree
<1>3. /\ my[p] \in LocalsType /\ my[p].stale = <<>>
      /\ my[p].loop # None => my[p].loop # Home[p]
  BY MyType, CallersAreThreads DEF AcquireByService, IInv, LocalsOK, CallerOK, Stopping
<1>4. my' = [my EXCEPT ![p] = my[p]]
  BY CallersAreThreads DEF AcquireByService, IInv, Types
<1> QED BY <1>1, <1>2, <1>3, <1>4, QuietMoves DEF AcquireByService, poolVars

LEMMA DiscoverServiceOK == ASSUME IInv, NEW p \in Callers, DiscoverService(p) PROVE IInv'
<1>1. PICK s \in {"idle", "pick"} : pc' = [pc EXCEPT ![p] = s]
  BY DEF DiscoverService
<1>2. pc[p] \in Quiet /\ s \in Quiet /\ pc[p] # "idle" /\ s \notin {"acquire", "evict"}
  BY DEF DiscoverService, Quiet
<1>3. /\ my[p] \in LocalsType /\ my[p].stale = <<>>
      /\ my[p].loop # None => my[p].loop # Home[p]
  BY MyType, CallersAreThreads DEF DiscoverService, IInv, LocalsOK, CallerOK, Stopping
<1>4. my' = [my EXCEPT ![p] = my[p]]
  BY CallersAreThreads DEF DiscoverService, IInv, Types
<1> QED BY <1>1, <1>2, <1>3, <1>4, QuietMoves DEF DiscoverService, poolVars

LEMMA PickOK == ASSUME IInv, FoundOK, NEW p \in Callers, Pick(p) PROVE IInv'
<1>1. pc[p] \in Quiet /\ "acquire" \in Quiet /\ pc[p] # "idle"
  BY DEF Pick, Quiet
<1>2. found[p] \in Seq(Addrs) /\ Len(found[p]) \in Nat \ {0} /\ m_rr_service \in Nat
  BY DEF Pick, FoundOK
<1>3. PICK a \in Addrs : my' = [my EXCEPT ![p].addr = a]
  <2>1. ASSUME NEW i \in 1..Len(found[p]) PROVE found[p][i] \in Addrs
    BY <1>2, ElementOfSeq
  <2>2. (m_rr_service % Len(found[p])) + 1 \in 1..Len(found[p])
    <3>1. PICK n \in Nat \ {0} : n = Len(found[p])
      BY <1>2
    <3>2. PICK k \in Nat : k = m_rr_service
      BY <1>2
    <3>3. (k % n) + 1 \in 1..n
      OBVIOUS
    <3> QED BY <3>1, <3>2, <3>3
  <2>3. DOMAIN found[p] = 1..Len(found[p])
    BY <1>2
  <2>4. PICK i \in 1..Len(found[p]) : my' = [my EXCEPT ![p].addr = found[p][i]]
    BY <2>2, <2>3 DEF Pick
  <2> QED BY <2>1, <2>4
<1>4. /\ my[p].stale = <<>> /\ (my[p].loop # None => my[p].loop # Home[p])
  BY MyType, CallersAreThreads DEF Pick, IInv, LocalsOK, CallerOK, Stopping
<1> DEFINE m == [my[p] EXCEPT !.addr = a]
<1>5. /\ m \in LocalsType /\ m.stale = <<>> /\ m.addr \in Addrs
      /\ m.loop # None => m.loop # Home[p]
  BY <1>4, MyType, CallersAreThreads DEF LocalsType
<1>6. my' = [my EXCEPT ![p] = m]
  BY <1>3
<1> HIDE DEF m
<1> QED BY <1>1, <1>5, <1>6, QuietMoves DEF Pick, poolVars

(* A sequence of different clients is its first one and the others.        *)
LEMMA HeadTail ==
  ASSUME NEW q \in Seq(Nat), q # <<>>,
         \A i, j \in DOMAIN q : q[i] = q[j] => i = j
  PROVE  /\ Head(q) \in Nat /\ Tail(q) \in Seq(Nat)
         /\ \A i \in DOMAIN Tail(q) : Tail(q)[i] # Head(q)
         /\ \A i, j \in DOMAIN Tail(q) : Tail(q)[i] = Tail(q)[j] => i = j
         /\ \A c : (\E i \in DOMAIN q : q[i] = c) <=>
                     c = Head(q) \/ \E i \in DOMAIN Tail(q) : Tail(q)[i] = c
<1>1. /\ Len(q) \in Nat \ {0} /\ DOMAIN q = 1..Len(q) /\ Head(q) = q[1]
      /\ Tail(q) \in Seq(Nat) /\ DOMAIN Tail(q) = 1..(Len(q) - 1)
      /\ \A i \in 1..(Len(q) - 1) : Tail(q)[i] = q[i + 1]
  OBVIOUS
<1>2. ASSUME NEW c, NEW i \in DOMAIN q, q[i] = c
      PROVE  c = Head(q) \/ \E j \in DOMAIN Tail(q) : Tail(q)[j] = c
  <2>1. CASE i = 1
    BY <1>1, <1>2, <2>1
  <2>2. CASE i # 1
    <3>1. i - 1 \in DOMAIN Tail(q) /\ Tail(q)[i - 1] = q[i]
      BY <1>1, <2>2
    <3> QED BY <1>2, <3>1
  <2> QED BY <2>1, <2>2
<1>3. \A i \in DOMAIN Tail(q) : i + 1 \in DOMAIN q /\ i + 1 # 1 /\ Tail(q)[i] = q[i + 1]
  BY <1>1
<1>4. 1 \in DOMAIN q /\ Head(q) = q[1] /\ Head(q) \in Nat /\ Tail(q) \in Seq(Nat)
  BY <1>1
<1>5. \A i \in DOMAIN Tail(q) : Tail(q)[i] # Head(q)
  BY <1>3, <1>4
<1>6. ASSUME NEW i \in DOMAIN Tail(q), NEW j \in DOMAIN Tail(q), Tail(q)[i] = Tail(q)[j]
      PROVE  i = j
  <2>1. i + 1 = j + 1
    BY <1>3, <1>6
  <2> QED BY <1>1, <2>1
<1>7. ASSUME NEW c, c = Head(q) \/ \E j \in DOMAIN Tail(q) : Tail(q)[j] = c
      PROVE  \E i \in DOMAIN q : q[i] = c
  BY <1>3, <1>4, <1>7
<1> QED BY <1>2, <1>4, <1>5, <1>6, <1>7

LEMMA StaleFacts ==
  IInv => \A t \in Threads : /\ my[t].stale \in Seq(Nat)
                             /\ \A i, j \in DOMAIN my[t].stale :
                                  my[t].stale[i] = my[t].stale[j] => i = j
  BY DEF IInv, Types, LocalsType, Owning, OneOwner

LEMMA KeepAll ==
  ASSUME UNCHANGED <<clients, loop>>
  PROVE  KeepLoops /\ KeepClients /\ KeepTasks /\ KeepCounts /\ ClientIds' = ClientIds
  BY DEF KeepLoops, KeepClients, KeepTasks, KeepCounts, ClientIds

(* A caller without clients gives up its acquire or goes to connect.       *)
LEMMA EmptyHanded ==
  ASSUME IInv, NEW p \in Callers, pc[p] \in {"evict", "connect"}, my[p].stale = <<>>,
         NEW s \in {"idle", "connect"}, NEW m \in LocalsType, m.stale = <<>>,
         s = "connect" => m = my[p] /\ my[p].loop # None,
         s = "idle" => m.loop = None,
         pc' = [pc EXCEPT ![p] = s], my' = [my EXCEPT ![p] = m],
         UNCHANGED <<script, m_clients, m_shutdown, clients, loop>>
  PROVE  IInv'
<1>1. p \in Threads /\ p # Closer /\ my[p] \in LocalsType
      /\ my[p].addr \in Addrs /\ (my[p].loop # None => my[p].loop # Home[p])
  BY CallersAreThreads, MyType DEF IInv, LocalsOK, CallerOK
<1>2. KeepLoops /\ KeepClients /\ KeepTasks /\ KeepCounts /\ ClientIds' = ClientIds
  BY KeepAll
<1>3. pc[p] \notin Quiet /\ pc[p] \notin Busy /\ pc[p] \notin {"insert", "uncount"}
  BY DEF Quiet, Busy, Making, Stopping
<1>4. \A c : ~Maker(p, c) /\ ~Current(p, c) /\ ~Has(p, c)
  BY <1>3 DEF Maker, Current, Busy, Making, Has, Later
<1>5. s \in Places /\ s \notin Busy /\ s \notin {"insert", "uncount"} /\ DOMAIN m.stale = {}
  BY DEF Places, Quiet, Busy, Making, Stopping
<1>6. pc'[p] = s /\ my'[p] = m
  BY <1>1 DEF IInv, Types
<1>7. Types'
  BY <1>1, <1>5 DEF IInv, Types
<1>8. CallerOK(p)'
  BY <1>1, <1>6 DEF CallerOK, Busy, Making, Stopping
<1>9. LocalsOK' /\ Phases'
  <2>1. pc[p] # "idle"
    OBVIOUS
  <2> QED BY <1>1, <1>2, <1>3, <1>5, <1>8, <2>1, CallerMoves
<1>10. Owning'
  <2>1. MayMove(p, s, m)
    BY <1>4, <1>5 DEF MayMove
  <2> QED BY <1>1, <1>2, <1>5, <2>1, Moves
<1>11. LoadExact'
  BY <1>1, <1>2, <1>3, <1>5, MovesLoad
<1> QED BY <1>7, <1>9, <1>10, <1>11 DEF IInv

LEMMA EvictNextOK == ASSUME IInv, NEW p \in Callers, EvictNext(p) PROVE IInv'
<1>1. p \in Threads /\ p # Closer /\ my[p] \in LocalsType /\ pc[p] = "evict"
      /\ my[p].addr \in Addrs /\ (my[p].loop # None => my[p].loop # Home[p])
      /\ UNCHANGED <<script, m_clients, m_shutdown, clients, loop>>
  BY CallersAreThreads, MyType DEF EvictNext, poolVars, IInv, LocalsOK, CallerOK
<1>2. KeepLoops /\ KeepClients /\ KeepTasks /\ KeepCounts /\ ClientIds' = ClientIds
  BY <1>1, KeepAll
<1>3. pc[p] \notin Quiet /\ pc[p] \notin Busy /\ pc[p] \notin {"insert", "uncount"}
  BY <1>1 DEF Quiet, Busy, Making, Stopping
<1>4. \A c : ~Maker(p, c) /\ ~Current(p, c)
  BY <1>3 DEF Maker, Current, Busy, Making
<1>6. CASE my[p].stale = <<>> /\ my[p].loop = None
  <2>1. NoLocals.stale = <<>> /\ NoLocals.loop = None
    BY DEF NoLocals
  <2>2. pc' = [pc EXCEPT ![p] = "idle"] /\ my' = [my EXCEPT ![p] = NoLocals]
    BY <1>6 DEF EvictNext, GoOn, Return, Goto
  <2> QED BY <1>1, <1>6, <2>1, <2>2, NoLocalsType, EmptyHanded
<1>7. CASE my[p].stale = <<>> /\ my[p].loop # None
  <2>1. pc' = [pc EXCEPT ![p] = "connect"] /\ my' = my
    BY <1>7 DEF EvictNext, GoOn, Return, Goto
  <2>2. my' = [my EXCEPT ![p] = my[p]]
    BY <1>1, <2>1 DEF IInv, Types
  <2> QED BY <1>1, <1>7, <2>1, <2>2, EmptyHanded
<1>8. CASE my[p].stale # <<>>
  <2> DEFINE q == my[p].stale
             m == [my[p] EXCEPT !.client = Head(q), !.stale = Tail(q), !.back = "evict"]
  <2>1. /\ Head(q) \in Nat /\ Tail(q) \in Seq(Nat)
        /\ \A i \in DOMAIN Tail(q) : Tail(q)[i] # Head(q)
        /\ \A i, j \in DOMAIN Tail(q) : Tail(q)[i] = Tail(q)[j] => i = j
        /\ \A c : Later(p, c) <=> c = Head(q) \/ \E i \in DOMAIN Tail(q) : Tail(q)[i] = c
    BY <1>1, <1>8, StaleFacts, HeadTail DEF Later
  <2>2. pc' = [pc EXCEPT ![p] = "stop"] /\ my' = [my EXCEPT ![p] = m]
    BY <1>8 DEF EvictNext, Goto
  <2>3. /\ m \in LocalsType /\ m.client = Head(q) /\ m.stale = Tail(q) /\ m.back = "evict"
        /\ m.addr = my[p].addr /\ m.loop = my[p].loop
    BY <1>1, <2>1 DEF LocalsType
  <2>4. "stop" \in Places /\ "stop" \in Busy /\ "stop" \notin Making
    BY DEF Places, Busy, Making, Stopping
  <2> HIDE DEF q, m
  <2>5. pc'[p] = "stop" /\ my'[p] = m
    BY <1>1, <2>2 DEF IInv, Types
  <2>6. Types'
    BY <1>1, <2>2, <2>3, <2>4 DEF IInv, Types
  <2>7. CallerOK(p)'
    BY <1>1, <2>3, <2>4, <2>5 DEF CallerOK, Stopping
  <2>8. LocalsOK' /\ Phases'
    BY <1>1, <1>2, <1>3, <2>2, <2>3, <2>4, <2>7, CallerMoves
  <2>9. Has(p, Head(q)) /\ Later(p, Head(q)) /\ \A c : Has(p, c) => Later(p, c)
    BY <1>4, <2>1 DEF Has
  <2>10. Whole(Head(q))
    BY <1>1, <2>9 DEF IInv, Owning, OwnedWhole, Valid, Later
  <2>11. Owning'
    <3>1. \A i \in DOMAIN m.stale : Later(p, m.stale[i])
      BY <2>1, <2>3
    <3>2. \A i, j \in DOMAIN m.stale : m.stale[i] = m.stale[j] => i = j
      BY <2>1, <2>3
    <3>3. \A i \in DOMAIN m.stale : m.stale[i] # m.client
      BY <2>1, <2>3
    <3>4. \A c : Has(p, c) => c = m.client \/ \E i \in DOMAIN m.stale : m.stale[i] = c
      BY <2>1, <2>3, <2>9
    <3>5. Has(p, m.client) /\ Whole(m.client)
      BY <2>3, <2>9, <2>10
    <3>6. MayMove(p, "stop", m)
      BY <1>4, <2>4, <3>1, <3>2, <3>3, <3>4, <3>5 DEF MayMove
    <3> QED BY <1>1, <1>2, <2>2, <2>3, <2>4, <3>6, Moves
  <2>12. LoadExact'
    BY <1>1, <1>2, <1>3, <2>2, <2>3, <2>4, MovesLoad
  <2> QED BY <2>6, <2>8, <2>11, <2>12 DEF IInv
<1> QED BY <1>6, <1>7, <1>8

(* What a caller knows of the client it made.                              *)
LEMMA MakingFacts ==
  ASSUME IInv, NEW p \in Callers, pc[p] \in Making
  PROVE  /\ p \in Threads /\ p # Closer /\ my[p] \in LocalsType
         /\ pc[p] \in Busy /\ pc[p] \notin Quiet /\ pc[p] \notin Stopping
         /\ my[p].stale = <<>> /\ my[p].addr \in Addrs
         /\ my[p].client \in ClientIds /\ Whole(my[p].client)
         /\ clients[my[p].client].loop = my[p].loop
         /\ my[p].loop \in Loops /\ my[p].loop # Home[p]
         /\ \A c : Has(p, c) <=> c = my[p].client
<1>1. p \in Threads /\ p # Closer /\ my[p] \in LocalsType
  BY CallersAreThreads, MyType
<1>2. pc[p] \in Busy /\ pc[p] \notin Quiet /\ pc[p] \notin Stopping /\ pc[p] # "evict"
  BY DEF Making, Busy, Quiet, Stopping
<1>3. CallerOK(p)
  BY DEF IInv, LocalsOK
<1>4. my[p].stale = <<>> /\ my[p].addr \in Addrs /\ my[p].loop # None
      /\ my[p].loop # Home[p] /\ clients[my[p].client].loop = my[p].loop
  BY <1>2, <1>3 DEF CallerOK
<1>5. my[p].loop \in Loops
  BY <1>1, <1>4 DEF LocalsType
<1>6. my[p].client \in ClientIds
  BY <1>1, <1>2 DEF IInv, Owning, Valid
<1>7. \A c : Has(p, c) <=> c = my[p].client
  BY <1>2, <1>4 DEF Has, Current, Later
<1>8. Whole(my[p].client)
  BY <1>1, <1>2, <1>6 DEF IInv, Owning, OwnedWhole, Current, Stopping
<1> QED BY <1>1, <1>2, <1>4, <1>5, <1>6, <1>7, <1>8

(* It goes on with it.                                                     *)
LEMMA MakingMoves ==
  ASSUME IInv, NEW p \in Callers, pc[p] \in Making,
         NEW s \in {"count", "insert", "uncount", "stop"}, NEW m \in LocalsType,
         pc' = [pc EXCEPT ![p] = s], my' = [my EXCEPT ![p] = m],
         m.client = my[p].client, m.stale = <<>>, m.addr = my[p].addr,
         m.loop = my[p].loop, s = "stop" => m.back = "idle",
         UNCHANGED <<m_clients, m_shutdown>>, KeepLoops, KeepClients, KeepTasks,
         \A l \in Loops : loop'[l].state = loop[l].state,
         pc[p] = "connecting" /\ s # "stop" => clients[m.client].done
  PROVE  LocalsOK' /\ Phases' /\ Owning'
<1> DEFINE k == my[p].client
<1>1. /\ p \in Threads /\ p # Closer
      /\ pc[p] \in Busy /\ pc[p] \notin Quiet /\ pc[p] \notin Stopping
      /\ my[p].addr \in Addrs /\ k \in ClientIds /\ Whole(k)
      /\ clients[k].loop = my[p].loop /\ my[p].loop \in Loops /\ my[p].loop # Home[p]
      /\ \A c : Has(p, c) <=> c = k
  BY MakingFacts
<1>2. s \in Places /\ s \in Busy /\ (s # "stop" => s \in Making) /\ (s = "stop" => s \in Stopping)
  BY DEF Places, Busy, Making, Stopping
<1>3. pc'[p] = s /\ my'[p] = m
  BY <1>1 DEF IInv, Types
<1>4. clients'[k].loop = clients[k].loop
  BY <1>1 DEF KeepLoops
<1>5. CallerOK(p)'
  <2>1. m.loop # None
    BY <1>1, GroupFacts
  <2>2. s \notin {"clients", "closed"} /\ (s \in Stopping => s = "stop")
    BY DEF Stopping
  <2> QED BY <1>1, <1>3, <1>4, <2>1, <2>2 DEF CallerOK
<1>6. LocalsOK' /\ Phases'
  <2>1. pc[p] # "idle"
    BY <1>1 DEF Quiet
  <2> QED BY <1>1, <1>2, <1>5, <2>1, CallerMoves
<1>7. MayMove(p, s, m)
  <2>1. ASSUME NEW c \in ClientIds, Maker(p, c), ~(s \in {"connecting"} \cup Stopping /\ m.client = c),
               NEW l \in Loops, NEW i \in DOMAIN loop[l].tasks, ConnectTask(l, i, c)
        PROVE  FALSE
    <3>1. c = k /\ pc[p] = "connecting" /\ s # "stop"
      BY <1>1, <1>2, <2>1 DEF Maker
    <3>2. ~clients[c].done
      BY <2>1 DEF ConnectTask, IInv, Owning, Tasks
    <3> QED BY <3>1, <3>2
  <2>2. DOMAIN m.stale = {}
    OBVIOUS
  <2> QED BY <1>1, <1>2, <2>1, <2>2 DEF MayMove
<1>8. Owning'
  BY <1>1, <1>2, <1>7, Moves
<1> QED BY <1>6, <1>8

LEMMA ConnectDoneOK == ASSUME IInv, NEW p \in Callers, ConnectDone(p) PROVE IInv'
<1>1. pc[p] \in Making /\ pc[p] = "connecting" /\ clients[my[p].client].done
      /\ UNCHANGED <<script, m_clients, m_shutdown, clients, loop>>
  BY DEF ConnectDone, Making, poolVars
<1>2. KeepLoops /\ KeepClients /\ KeepTasks /\ KeepCounts /\ ClientIds' = ClientIds
  BY <1>1, KeepAll
<1>3. p \in Threads /\ p # Closer /\ my[p] \in LocalsType /\ my[p].stale = <<>>
  BY <1>1, MakingFacts
<1>4. ASSUME NEW s \in {"count", "stop"}, NEW m \in LocalsType,
             pc' = [pc EXCEPT ![p] = s], my' = [my EXCEPT ![p] = m],
             m.client = my[p].client, m.stale = <<>>, m.addr = my[p].addr,
             m.loop = my[p].loop, s = "stop" => m.back = "idle"
      PROVE  IInv'
  <2>1. s \in Places
    BY <1>4 DEF Places, Busy, Making, Stopping
  <2>2. Types'
    BY <1>1, <1>3, <1>4, <2>1 DEF IInv, Types
  <2>3. LocalsOK' /\ Phases' /\ Owning'
    BY <1>1, <1>2, <1>4, MakingMoves
  <2>4. LoadExact'
    BY <1>1, <1>2, <1>3, <1>4, <2>1, MovesLoad
  <2> QED BY <2>2, <2>3, <2>4 DEF IInv
<1>5. CASE clients[my[p].client].error = "none"
  <2>1. my' = [my EXCEPT ![p] = my[p]] /\ pc' = [pc EXCEPT ![p] = "count"]
    BY <1>3, <1>5 DEF ConnectDone, Goto, IInv, Types
  <2> QED BY <1>3, <1>4, <2>1
<1>6. CASE clients[my[p].client].error # "none"
  <2> DEFINE m == [my[p] EXCEPT !.back = "idle"]
  <2>1. my' = [my EXCEPT ![p] = m] /\ pc' = [pc EXCEPT ![p] = "stop"]
    BY <1>6 DEF ConnectDone, Goto
  <2>2. /\ m \in LocalsType /\ m.client = my[p].client /\ m.stale = <<>>
        /\ m.addr = my[p].addr /\ m.loop = my[p].loop /\ m.back = "idle"
    BY <1>3 DEF LocalsType
  <2> HIDE DEF m
  <2> QED BY <1>4, <2>1, <2>2
<1> QED BY <1>5, <1>6

LEMMA ClientAt == IInv => \A c \in ClientIds : clients[c] \in ClientType
  BY ClientIdsAre DEF IInv, Types

(* One client changes.                                                     *)
LEMMA ClientSet ==
  ASSUME IInv, NEW k \in ClientIds, NEW e \in ClientType, clients' = [clients EXCEPT ![k] = e]
  PROVE  /\ clients' \in Seq(ClientType) /\ ClientIds' = ClientIds /\ clients'[k] = e
         /\ \A c \in ClientIds \ {k} : clients'[c] = clients[c]
<1>1. clients' \in Seq(ClientType)
  BY ClientIdsAre DEF IInv, Types
<1> QED BY <1>1 DEF ClientIds

LEMMA ConnectTimeoutOK == ASSUME IInv, NEW p \in Callers, ConnectTimeout(p) PROVE IInv'
<1> DEFINE k == my[p].client
           m == [my[p] EXCEPT !.back = "idle"]
<1>1. pc[p] \in Making /\ pc[p] = "connecting"
      /\ UNCHANGED <<script, m_clients, m_shutdown, loop>>
      /\ clients' = [clients EXCEPT ![k].error = "timeout"]
  BY DEF ConnectTimeout, Making, poolVars
<1>2. p \in Threads /\ p # Closer /\ my[p] \in LocalsType /\ my[p].stale = <<>> /\ k \in ClientIds
  BY <1>1, MakingFacts
<1>3. clients' \in Seq(ClientType) /\ KeepLoops /\ KeepClients /\ ClientIds' = ClientIds
  <2>1. PICK r \in ClientType : r = clients[k]
    BY <1>2, ClientAt
  <2> DEFINE e == [r EXCEPT !.error = "timeout"]
  <2>2. /\ e \in ClientType /\ e.loop = r.loop /\ e.m_connection = r.m_connection
        /\ e.m_stopped = r.m_stopped /\ e.watch = r.watch /\ e.done = r.done
        /\ e.destroyed = r.destroyed
    BY DEF ClientType
  <2>3. clients' = [clients EXCEPT ![k] = e]
    BY <1>1, <2>1
  <2> HIDE DEF e
  <2>4. clients' \in Seq(ClientType) /\ ClientIds' = ClientIds /\ clients'[k] = e
        /\ \A c \in ClientIds \ {k} : clients'[c] = clients[c]
    BY <1>2, <2>2, <2>3, ClientSet
  <2> QED BY <2>1, <2>2, <2>4 DEF KeepLoops, KeepClients
<1>4. KeepTasks /\ KeepCounts
  BY <1>1 DEF KeepTasks, KeepCounts
<1>5. my' = [my EXCEPT ![p] = m] /\ pc' = [pc EXCEPT ![p] = "stop"]
  BY DEF ConnectTimeout, Goto
<1>6. /\ m \in LocalsType /\ m.client = my[p].client /\ m.stale = <<>>
      /\ m.addr = my[p].addr /\ m.loop = my[p].loop /\ m.back = "idle"
  BY <1>2 DEF LocalsType
<1> HIDE DEF m, k
<1>7. "stop" \in Places
  BY DEF Places, Busy, Stopping
<1>8. Types'
  BY <1>1, <1>2, <1>3, <1>5, <1>6, <1>7 DEF IInv, Types
<1>9. LocalsOK' /\ Phases' /\ Owning'
  BY <1>1, <1>3, <1>4, <1>5, <1>6, MakingMoves
<1>10. LoadExact'
  BY <1>1, <1>2, <1>3, <1>4, <1>5, <1>6, <1>7, MovesLoad
<1> QED BY <1>8, <1>9, <1>10 DEF IInv

(* The client that a caller made is charged at most to that caller.        *)
LEMMA ChargedOnce ==
  ASSUME IInv, NEW p \in Callers, pc[p] \in Making
  PROVE  /\ ~InPool(my[p].client) /\ ~Later(Closer, my[p].client)
         /\ \A q \in Callers : Paying(q, my[p].client) => q = p
<1> DEFINE k == my[p].client
<1>1. p \in Threads /\ p # Closer /\ k \in ClientIds /\ Has(p, k)
  BY MakingFacts
<1>2. ~InPool(k)
  BY <1>1 DEF IInv, Owning, OneOwner
<1>3. ~Later(Closer, k)
  <2>1. Closer \in Threads
    BY DEF Threads
  <2> QED BY <1>1, <2>1 DEF IInv, Owning, OneOwner, Has
<1>4. ASSUME NEW q \in Callers, Paying(q, k) PROVE q = p
  <2>1. q \in Threads /\ Has(q, k)
    BY <1>4, CallersAreThreads DEF Has, Current, Paying, Busy, Making
  <2> QED BY <1>1, <2>1 DEF IInv, Owning, OneOwner
<1> QED BY <1>2, <1>3, <1>4

LEMMA CountChanges ==
  ASSUME IInv, NEW l \in Loops, NEW d \in Int, Count(l, d)
  PROVE  /\ loop' \in [Loops -> LoopType] /\ KeepTasks
         /\ \A x \in Loops : loop'[x].state = loop[x].state
         /\ loop' = [loop EXCEPT ![l].m_connection_count = @ + d]
<1>1. PICK r \in LoopType : r = loop[l]
  BY DEF IInv, Types
<1> DEFINE e == [r EXCEPT !.m_connection_count = @ + d]
<1>2. e \in LoopType /\ e.tasks = r.tasks /\ e.state = r.state
  BY DEF LoopType
<1>3. loop' = [loop EXCEPT ![l] = e]
  BY <1>1 DEF Count
<1> HIDE DEF e
<1>4. loop' \in [Loops -> LoopType]
  BY <1>2, <1>3 DEF IInv, Types
<1>5. loop'[l] = e /\ \A x \in Loops \ {l} : loop'[x] = loop[x]
  BY <1>3 DEF IInv, Types
<1> QED BY <1>1, <1>2, <1>4, <1>5 DEF KeepTasks, Count

LEMMA CountConnectionOK == ASSUME IInv, NEW p \in Callers, CountConnection(p) PROVE IInv'
<1> DEFINE k == my[p].client
<1>1. pc[p] \in Making /\ pc[p] = "count" /\ Count(my[p].loop, 1)
      /\ UNCHANGED <<script, m_clients, m_shutdown, clients, my>>
      /\ pc' = [pc EXCEPT ![p] = "insert"]
  BY DEF CountConnection, Making, poolVars, Goto
<1>2. /\ p \in Threads /\ p # Closer /\ my[p] \in LocalsType /\ my[p].stale = <<>>
      /\ k \in ClientIds /\ clients[k].loop = my[p].loop /\ my[p].loop \in Loops
  BY <1>1, MakingFacts
<1>3. /\ loop' \in [Loops -> LoopType] /\ KeepTasks
      /\ \A x \in Loops : loop'[x].state = loop[x].state
      /\ loop' = [loop EXCEPT ![clients[k].loop].m_connection_count = @ + 1]
  BY <1>1, <1>2, CountChanges
<1>4. KeepLoops /\ KeepClients /\ ClientIds' = ClientIds
  BY <1>1 DEF KeepLoops, KeepClients, ClientIds
<1>5. my' = [my EXCEPT ![p] = my[p]] /\ "insert" \in Places
  BY <1>1, <1>2 DEF IInv, Types, Places, Busy, Making
<1>6. Types'
  BY <1>1, <1>2, <1>3, <1>5 DEF IInv, Types
<1>7. LocalsOK' /\ Phases' /\ Owning'
  BY <1>1, <1>2, <1>3, <1>4, <1>5, MakingMoves
<1>8. LoadExact'
  <2>1. /\ ~InPool(k) /\ ~Later(Closer, k)
        /\ \A q \in Callers : Paying(q, k) => q = p
    BY <1>1, ChargedOnce
  <2>2. ~Paying(p, k) /\ \A c : ~Paying(p, c)
    BY <1>1 DEF Paying
  <2>3. ~IsCharged(k)
    BY <2>1, <2>2 DEF IsCharged
  <2>4. /\ \A c : Later(Closer, c)' <=> Later(Closer, c)
        /\ \A q \in Callers \ {p} : \A c : Paying(q, c)' <=> Paying(q, c)
        /\ \A c : Paying(p, c)' <=> k = c
    <3>1. /\ pc'[p] = "insert" /\ my'[p] = my[p] /\ my'[Closer] = my[Closer]
          /\ \A q \in Callers \ {p} : pc'[q] = pc[q] /\ my'[q] = my[q]
      BY <1>1, CallersAreThreads DEF IInv, Types
    <3> QED BY <3>1 DEF Later, Paying
  <2>5. \A c : InPool(c)' <=> InPool(c)
    BY <1>1 DEF InPool, Pooled
  <2>6. \A c \in ClientIds : IsCharged(c)' <=> IsCharged(c) \/ c = k
    <3>1. \A c : (\E q \in Callers : Paying(q, c)') <=>
                   c = k \/ \E q \in Callers : Paying(q, c)
      BY <2>2, <2>4
    <3> QED BY <1>1, <2>4, <2>5, <3>1 DEF IsCharged
  <2> QED BY <1>2, <1>3, <1>4, <2>3, <2>6, LoadMore
<1> QED BY <1>6, <1>7, <1>8 DEF IInv

(* A caller gives back the place of the client it made.                    *)
LEMMA GivesBack ==
  ASSUME IInv, NEW p \in Callers, pc[p] \in {"insert", "uncount"},
         Count(my[p].loop, -1), my' = [my EXCEPT ![p].back = "idle"],
         pc' = [pc EXCEPT ![p] = "stop"],
         UNCHANGED <<script, m_clients, m_shutdown, clients>>
  PROVE  IInv'
<1> DEFINE k == my[p].client
           m == [my[p] EXCEPT !.back = "idle"]
<1>1. pc[p] \in Making /\ pc[p] # "connecting"
  BY DEF Making
<1>2. /\ p \in Threads /\ p # Closer /\ my[p] \in LocalsType /\ my[p].stale = <<>>
      /\ k \in ClientIds /\ clients[k].loop = my[p].loop /\ my[p].loop \in Loops
  BY <1>1, MakingFacts
<1>3. /\ loop' \in [Loops -> LoopType] /\ KeepTasks
      /\ \A x \in Loops : loop'[x].state = loop[x].state
      /\ loop' = [loop EXCEPT ![clients[k].loop].m_connection_count = @ + (-1)]
  BY <1>1, <1>2, CountChanges
<1>4. KeepLoops /\ KeepClients /\ ClientIds' = ClientIds
  BY DEF KeepLoops, KeepClients, ClientIds
<1>5. my' = [my EXCEPT ![p] = m] /\ "stop" \in Places
  BY <1>1, <1>2 DEF IInv, Types, Places, Busy, Stopping
<1>6. /\ m \in LocalsType /\ m.client = k /\ m.stale = <<>>
      /\ m.addr = my[p].addr /\ m.loop = my[p].loop /\ m.back = "idle"
  BY <1>2 DEF LocalsType
<1> HIDE DEF m
<1>7. Types'
  BY <1>2, <1>3, <1>5, <1>6 DEF IInv, Types
<1>8. LocalsOK' /\ Phases' /\ Owning'
  BY <1>1, <1>3, <1>4, <1>5, <1>6, MakingMoves
<1>9. LoadExact'
  <2>1. /\ ~InPool(k) /\ ~Later(Closer, k)
        /\ \A q \in Callers : Paying(q, k) => q = p
    BY <1>1, ChargedOnce
  <2>2. \A c : Paying(p, c) <=> c = k
    BY DEF Paying
  <2>3. IsCharged(k)
    BY <2>2 DEF IsCharged
  <2>4. /\ \A c : Later(Closer, c)' <=> Later(Closer, c)
        /\ \A q \in Callers \ {p} : \A c : Paying(q, c)' <=> Paying(q, c)
        /\ \A c : ~Paying(p, c)'
    <3>1. /\ pc'[p] = "stop" /\ my'[Closer] = my[Closer]
          /\ \A q \in Callers \ {p} : pc'[q] = pc[q] /\ my'[q] = my[q]
      BY <1>5, CallersAreThreads DEF IInv, Types, Threads
    <3> QED BY <3>1 DEF Later, Paying
  <2>5. \A c : InPool(c)' <=> InPool(c)
    BY DEF InPool, Pooled
  <2>6. \A c \in ClientIds : IsCharged(c)' <=> IsCharged(c) /\ c # k
    <3>1. \A c : (\E q \in Callers : Paying(q, c)') <=>
                   c # k /\ \E q \in Callers : Paying(q, c)
      BY <2>1, <2>2, <2>4
    <3> QED BY <2>1, <2>4, <2>5, <3>1 DEF IsCharged
  <2> QED BY <1>2, <1>3, <1>4, <2>3, <2>6, LoadLess
<1> QED BY <1>7, <1>8, <1>9 DEF IInv

LEMMA UncountConnectionOK == ASSUME IInv, NEW p \in Callers, UncountConnection(p) PROVE IInv'
  BY GivesBack DEF UncountConnection, Goto, poolVars

LEMMA Appended ==
  ASSUME NEW q \in Seq(Nat), NEW k \in Nat
  PROVE  /\ Append(q, k) \in Seq(Nat) /\ Len(q) \in Nat /\ DOMAIN q = 1..Len(q)
         /\ DOMAIN Append(q, k) = 1..(Len(q) + 1)
         /\ \A i \in DOMAIN Append(q, k) : Append(q, k)[i] = IF i = Len(q) + 1 THEN k ELSE q[i]
         /\ \A i \in DOMAIN q : i \in DOMAIN Append(q, k) /\ Append(q, k)[i] = q[i]
         /\ \A i \in DOMAIN Append(q, k) : i = Len(q) + 1 \/ i \in DOMAIN q
         /\ Len(q) + 1 \in DOMAIN Append(q, k) /\ Append(q, k)[Len(q) + 1] = k
  OBVIOUS

(* A client is in the pool once.                                           *)
LEMMA InPoolOnce ==
  IInv => \A a, b \in Addrs : \A i \in DOMAIN m_clients[a], j \in DOMAIN m_clients[b] :
            m_clients[a][i] = m_clients[b][j] => a = b /\ i = j
  BY DEF IInv, Owning, OneOwner

(* A caller puts the client it made into the pool.                         *)
LEMMA PutsInPool ==
  ASSUME IInv, NEW p \in Callers, pc[p] = "insert", ~m_shutdown,
         m_clients' = [m_clients EXCEPT ![my[p].addr] =
                          Append(m_clients[my[p].addr], my[p].client)],
         Return(p), UNCHANGED <<script, m_shutdown, clients, loop>>
  PROVE  IInv'
<1> DEFINE k == my[p].client
           a == my[p].addr
           vec == m_clients[a]
<1>1. pc[p] \in Making
  BY DEF Making
<1>2. /\ p \in Threads /\ p # Closer /\ pc[p] \in Busy /\ pc[p] \notin Quiet
      /\ k \in ClientIds /\ a \in Addrs /\ Whole(k)
      /\ \A c : Has(p, c) <=> c = k
  BY <1>1, MakingFacts
<1>3. pc' = [pc EXCEPT ![p] = "idle"] /\ my' = [my EXCEPT ![p] = NoLocals]
  BY DEF Return, Goto
<1>4. pc'[p] = "idle" /\ my'[p] = NoLocals
      /\ \A u \in Threads \ {p} : pc'[u] = pc[u] /\ my'[u] = my[u]
  BY <1>2, <1>3 DEF IInv, Types
<1>5. "idle" \in Places /\ "idle" \notin Busy /\ "idle" \in Quiet
  BY DEF Places, Busy, Making, Stopping, Quiet
<1>6. NoLocals.stale = <<>> /\ NoLocals.loop = None
  BY DEF NoLocals
<1>7. KeepLoops /\ KeepClients /\ KeepTasks /\ KeepCounts /\ ClientIds' = ClientIds
  BY KeepAll
<1>8. k \in Nat /\ vec \in Seq(Nat) /\ Len(vec) \in Nat
  BY <1>2, ClientIdsAre DEF IInv, Types
<1>9. /\ m_clients' \in [Addrs -> Seq(Nat)] /\ m_clients'[a] = Append(vec, k)
      /\ \A b \in Addrs \ {a} : m_clients'[b] = m_clients[b]
  <2>1. Append(vec, k) \in Seq(Nat)
    BY <1>8
  <2> QED BY <1>2, <2>1 DEF IInv, Types
<1>10. ~Pooled(k)
  BY <1>2 DEF IInv, Owning, OneOwner, InPool
<1> HIDE DEF k, a, vec
<1>11. \A c : Pooled(c)' <=> Pooled(c) \/ c = k
  <2> SUFFICES ASSUME NEW c PROVE Pooled(c)' <=> Pooled(c) \/ c = k
    OBVIOUS
  <2>1. ASSUME NEW b \in Addrs, NEW i \in DOMAIN m_clients'[b], m_clients'[b][i] = c
        PROVE  Pooled(c) \/ c = k
    <3>1. CASE b = a
      BY <1>2, <1>8, <1>9, <2>1, <3>1, Appended DEF Pooled, vec
    <3>2. CASE b # a
      BY <1>9, <2>1, <3>2 DEF Pooled
    <3> QED BY <3>1, <3>2
  <2>2. ASSUME NEW b \in Addrs, NEW i \in DOMAIN m_clients[b], m_clients[b][i] = c
        PROVE  i \in DOMAIN m_clients'[b] /\ m_clients'[b][i] = c
    <3>1. CASE b = a
      BY <1>8, <1>9, <2>2, <3>1, Appended DEF vec
    <3>2. CASE b # a
      BY <1>9, <2>2, <3>2
    <3> QED BY <3>1, <3>2
  <2>3. Len(vec) + 1 \in DOMAIN m_clients'[a] /\ m_clients'[a][Len(vec) + 1] = k
    BY <1>8, <1>9, Appended
  <2>4. Pooled(c)' => Pooled(c) \/ c = k
    BY <2>1 DEF Pooled
  <2>5. Pooled(c) \/ c = k => Pooled(c)'
    BY <1>2, <2>2, <2>3 DEF Pooled
  <2> QED BY <2>4, <2>5
<1>12. \A c : InPool(c)' <=> InPool(c) \/ c = k
  BY <1>11 DEF InPool
<1>13. \A c : ~Has(p, c)' /\ ~Current(p, c)' /\ ~Later(p, c)'
  BY <1>4, <1>5, <1>6 DEF Has, Current, Later
<1>14. \A u \in Threads \ {p} : \A c :
        (Current(u, c)' <=> Current(u, c)) /\ (Later(u, c)' <=> Later(u, c))
  BY <1>4 DEF Current, Later
<1>15. \A u \in Threads \ {p} : \A c : Has(u, c)' <=> Has(u, c)
  BY <1>14 DEF Has
<1>16. Types'
  BY <1>3, <1>5, <1>9, NoLocalsType DEF IInv, Types
<1>17. LocalsOK' /\ Phases'
  <2>1. CallerOK(p)'
    BY <1>4, <1>5, <1>6 DEF CallerOK, Making, Stopping, Busy
  <2> QED BY <1>2, <1>3, <1>5, <1>7, <2>1, NoLocalsType, CallerMoves
<1>18. Valid'
  <2>1. \A b \in Addrs : \A i \in DOMAIN m_clients'[b] : m_clients'[b][i] \in ClientIds
    <3>1. \A c : Pooled(c) => c \in ClientIds
      BY DEF Pooled, IInv, Owning, Valid
    <3> QED BY <1>2, <1>11, <3>1 DEF Pooled
  <2>2. \A u \in Threads : pc'[u] \in Busy => my'[u].client \in ClientIds
    BY <1>4, <1>5 DEF IInv, Owning, Valid
  <2>3. \A u \in Threads : \A i \in DOMAIN my'[u].stale : my'[u].stale[i] \in ClientIds
    BY <1>4, <1>6 DEF IInv, Owning, Valid
  <2> QED BY <1>7, <2>1, <2>2, <2>3 DEF Valid
<1>19. OneOwner'
  <2>1. ASSUME NEW b \in Addrs, NEW d \in Addrs, NEW i \in DOMAIN m_clients'[b],
               NEW j \in DOMAIN m_clients'[d], m_clients'[b][i] = m_clients'[d][j]
        PROVE  b = d /\ i = j
    <3>1. \A e \in Addrs : \A x \in DOMAIN m_clients[e] : m_clients[e][x] # k
      BY <1>10 DEF Pooled
    <3>0. \A x \in DOMAIN m_clients'[a] :
             \/ x \in DOMAIN vec /\ m_clients'[a][x] = vec[x]
             \/ x = Len(vec) + 1 /\ m_clients'[a][x] = k
      <4>1. \A x \in DOMAIN Append(vec, k) : x = Len(vec) + 1 \/ x \in DOMAIN vec
        BY <1>8, Appended
      <4>2. \A x \in DOMAIN vec : Append(vec, k)[x] = vec[x]
        BY <1>8, Appended
      <4>3. Append(vec, k)[Len(vec) + 1] = k
        BY <1>8, Appended
      <4> QED BY <1>9, <4>1, <4>2, <4>3
    <3>2. \A i1, j1 \in DOMAIN vec : vec[i1] = vec[j1] => i1 = j1
      BY <1>2 DEF IInv, Owning, OneOwner, vec
    <3>3. \A i1 \in DOMAIN vec : vec[i1] # k
      BY <1>2, <3>1 DEF vec
    <3>4. CASE b # a /\ d # a
      <4>1. m_clients'[b] = m_clients[b] /\ m_clients'[d] = m_clients[d]
        BY <1>9, <3>4
      <4>2. i \in DOMAIN m_clients[b] /\ j \in DOMAIN m_clients[d]
            /\ m_clients[b][i] = m_clients[d][j]
        BY <2>1, <4>1
      <4> QED BY <4>2, InPoolOnce
    <3>5. CASE b = a /\ d # a
      <4>1. m_clients[d][j] # k /\ \A i1 \in DOMAIN vec : vec[i1] # m_clients[d][j]
        BY <1>2, <1>9, <2>1, <3>1, <3>5 DEF IInv, Owning, OneOwner, vec
      <4> QED BY <1>9, <2>1, <3>0, <3>5, <4>1
    <3>6. CASE b # a /\ d = a
      <4>1. m_clients[b][i] # k /\ \A i1 \in DOMAIN vec : vec[i1] # m_clients[b][i]
        BY <1>2, <1>9, <2>1, <3>1, <3>6 DEF IInv, Owning, OneOwner, vec
      <4> QED BY <1>9, <2>1, <3>0, <3>6, <4>1
    <3>7. CASE b = a /\ d = a
      <4>1. \/ i \in DOMAIN vec /\ m_clients'[a][i] = vec[i]
            \/ i = Len(vec) + 1 /\ m_clients'[a][i] = k
        BY <2>1, <3>0, <3>7
      <4>2. \/ j \in DOMAIN vec /\ m_clients'[a][j] = vec[j]
            \/ j = Len(vec) + 1 /\ m_clients'[a][j] = k
        BY <2>1, <3>0, <3>7
      <4>3. m_clients'[a][i] = m_clients'[a][j]
        BY <2>1, <3>7
      <4> QED BY <3>2, <3>3, <3>7, <4>1, <4>2, <4>3
    <3> QED BY <3>4, <3>5, <3>6, <3>7
  <2>2. \A u \in Threads : \A i, j \in DOMAIN my'[u].stale :
          my'[u].stale[i] = my'[u].stale[j] => i = j
    BY <1>4, <1>6 DEF IInv, Owning, OneOwner
  <2>3. \A u \in Threads, c \in ClientIds : Current(u, c)' => ~Later(u, c)'
    BY <1>13, <1>14 DEF IInv, Owning, OneOwner
  <2>4. \A u, v \in Threads, c \in ClientIds : Has(u, c)' /\ Has(v, c)' => u = v
    BY <1>13, <1>15 DEF IInv, Owning, OneOwner
  <2>5. ASSUME NEW u \in Threads, NEW c \in ClientIds, Has(u, c)' PROVE ~InPool(c)'
    <3>1. u # p /\ Has(u, c)
      BY <1>13, <1>15, <2>5
    <3>2. c # k
      BY <1>2, <3>1 DEF IInv, Owning, OneOwner
    <3> QED BY <1>12, <3>1, <3>2 DEF IInv, Owning, OneOwner
  <2> QED BY <1>7, <2>1, <2>2, <2>3, <2>4, <2>5 DEF OneOwner
<1>20. OwnedWhole'
  <2>1. \A c : Whole(c)' <=> Whole(c)
    BY DEF Whole
  <2>2. \A c \in ClientIds : InPool(c)' => Whole(c)'
    BY <1>2, <1>12, <2>1 DEF IInv, Owning, OwnedWhole
  <2>3. \A u \in Threads, c \in ClientIds : Later(u, c)' => Whole(c)'
    BY <1>13, <1>14, <2>1 DEF IInv, Owning, OwnedWhole
  <2>4. ASSUME NEW u \in Threads, NEW c \in ClientIds, Current(u, c)',
               pc'[u] \notin {"stopQueue", "stopWait"}
        PROVE  Whole(c)'
    BY <1>4, <1>13, <1>14, <2>1, <2>4 DEF IInv, Owning, OwnedWhole
  <2> QED BY <1>7, <2>2, <2>3, <2>4 DEF OwnedWhole
<1>21. Tasks'
  <2>1. ASSUME NEW q \in Callers, NEW c, Maker(q, c) PROVE Maker(q, c)'
    <3>1. q # p
      BY <2>1 DEF Maker, Stopping
    <3> QED BY <1>4, <2>1, <3>1, CallersAreThreads DEF Maker
  <2> QED BY <1>7, <2>1 DEF IInv, Owning, Tasks
<1>22. LiveOwned'
  <2> SUFFICES ASSUME NEW c \in ClientIds, Live(c)
               PROVE  InPool(c)' \/ \E u \in Threads : Has(u, c)'
    BY <1>7 DEF LiveOwned, Live, IInv, Owning
  <2> QED BY <1>2, <1>12, <1>15 DEF IInv, Owning, LiveOwned
<1>23. LoadExact'
  <2>1. \A c : (\E q \in Callers : Paying(q, c)) <=>
                 c = k \/ \E q \in Callers : Paying(q, c)'
    <3>1. \A c : Paying(p, c) <=> c = k
      BY DEF Paying, k
    <3>2. \A c : ~Paying(p, c)'
      BY <1>4 DEF Paying
    <3>3. \A q \in Callers \ {p} : \A c : Paying(q, c)' <=> Paying(q, c)
      BY <1>4, CallersAreThreads DEF Paying
    <3> QED BY <3>1, <3>2, <3>3
  <2>2. \A c : IsCharged(c)' <=> IsCharged(c)
    BY <1>12, <2>1 DEF IsCharged
  <2> QED BY <1>7, <2>2, LoadSame
<1>24. Owning'
  BY <1>18, <1>19, <1>20, <1>21, <1>22 DEF Owning
<1> QED BY <1>16, <1>17, <1>23, <1>24 DEF IInv

LEMMA InsertOK == ASSUME IInv, NEW p \in Callers, Insert(p) PROVE IInv'
<1>1. pc[p] \in Making /\ pc[p] = "insert" /\ UNCHANGED <<script, m_shutdown, clients>>
  BY DEF Insert, Making
<1>2. CASE m_shutdown /\ Goto(p, "uncount") /\ UNCHANGED <<m_clients, m_rr_counters, loop, my>>
  <2>1. /\ p \in Threads /\ p # Closer /\ my[p] \in LocalsType /\ my[p].stale = <<>>
    BY <1>1, MakingFacts
  <2>2. KeepLoops /\ KeepClients /\ KeepTasks /\ KeepCounts /\ ClientIds' = ClientIds
    BY <1>1, <1>2, KeepAll
  <2>3. my' = [my EXCEPT ![p] = my[p]] /\ "uncount" \in Places
        /\ pc' = [pc EXCEPT ![p] = "uncount"]
    BY <1>2, <2>1 DEF IInv, Types, Places, Busy, Making, Goto
  <2>4. Types'
    BY <1>1, <1>2, <2>1, <2>3 DEF IInv, Types
  <2>5. LocalsOK' /\ Phases' /\ Owning'
    BY <1>1, <1>2, <2>1, <2>2, <2>3, MakingMoves
  <2>6. LoadExact'
    BY <1>1, <1>2, <2>1, <2>2, <2>3, MovesLoad
  <2> QED BY <2>4, <2>5, <2>6 DEF IInv
<1>3. CASE /\ ~m_shutdown
           /\ m_clients' = [m_clients EXCEPT ![my[p].addr] =
                               Append(m_clients[my[p].addr], my[p].client)]
           /\ Return(p) /\ UNCHANGED <<m_rr_counters, loop>>
  BY <1>1, <1>3, PutsInPool
<1>4. CASE /\ Count(my[p].loop, -1) /\ my' = [my EXCEPT ![p].back = "idle"]
           /\ Goto(p, "stop") /\ UNCHANGED m_clients
  BY <1>1, <1>4, GivesBack DEF Goto
<1> QED BY <1>2, <1>3, <1>4 DEF Insert

(* As many places of a pooled vector hold connections of a loop as there   *)
(* are such connections in it.                                             *)
LEMMA OnLoopCounts ==
  ASSUME NEW vec \in Seq(Nat), NEW l,
         \A i, j \in DOMAIN vec : vec[i] = vec[j] => i = j
  PROVE  LET there == {vec[i] : i \in {i \in DOMAIN vec : clients[vec[i]].loop = l}}
         IN IsFiniteSet(there) /\ OnLoop(vec, l) = Cardinality(there)
<1> DEFINE S == {i \in DOMAIN vec : clients[vec[i]].loop = l}
           there == {vec[i] : i \in S}
           f == [i \in S |-> vec[i]]
<1>1. IsFiniteSet(S)
  <2>1. IsFiniteSet(1..Len(vec)) /\ DOMAIN vec = 1..Len(vec)
    BY FS_Interval
  <2> QED BY <2>1, FS_Subset
<1>2. f \in [S -> there] /\ (\A i, j \in S : f[i] = f[j] => i = j)
      /\ \A c \in there : \E i \in S : f[i] = c
  OBVIOUS
<1>3. f \in Bijection(S, there)
  BY <1>2 DEF Bijection, Injection, Surjection, IsInjective
<1>4. ExistsBijection(S, there)
  BY <1>3 DEF ExistsBijection
<1> HIDE DEF S, there, f
<1>5. IsFiniteSet(there) /\ Cardinality(there) = Cardinality(S)
  BY <1>1, <1>4, FS_Bijection
<1> QED BY <1>5 DEF OnLoop, there, S

(* Uncount leaves all but the counts.                                      *)
LEMMA UncountChanges ==
  ASSUME IInv, NEW vec \in Seq(Nat), Uncount(vec)
  PROVE  /\ loop' \in [Loops -> LoopType] /\ KeepTasks
         /\ \A l \in Loops : loop'[l].state = loop[l].state
         /\ \A l \in Loops : loop'[l].m_connection_count = loop[l].m_connection_count - OnLoop(vec, l)
<1>1. \A l : OnLoop(vec, l) \in Nat
  <2> SUFFICES ASSUME NEW l PROVE OnLoop(vec, l) \in Nat
    OBVIOUS
  <2>1. IsFiniteSet(1..Len(vec)) /\ DOMAIN vec = 1..Len(vec)
    BY FS_Interval
  <2>2. IsFiniteSet({i \in DOMAIN vec : clients[vec[i]].loop = l})
    BY <2>1, FS_Subset
  <2> QED BY <2>2, FS_CardinalityType DEF OnLoop
<1>2. ASSUME NEW l \in Loops
      PROVE  /\ loop'[l] \in LoopType /\ loop'[l].tasks = loop[l].tasks
             /\ loop'[l].state = loop[l].state
             /\ loop'[l].m_connection_count = loop[l].m_connection_count - OnLoop(vec, l)
  <2>1. PICK r \in LoopType : r = loop[l]
    BY DEF IInv, Types
  <2>2. PICK n \in Nat : n = OnLoop(vec, l)
    BY <1>1
  <2>3. PICK x \in Int : x = r.m_connection_count - n
    BY DEF LoopType
  <2> DEFINE e == [r EXCEPT !.m_connection_count = x]
  <2>4. e \in LoopType /\ e.tasks = r.tasks /\ e.state = r.state
        /\ e.m_connection_count = x
    BY DEF LoopType
  <2>5. loop'[l] = e
    BY <2>1, <2>2, <2>3 DEF Uncount
  <2> QED BY <2>1, <2>2, <2>3, <2>4, <2>5
<1>3. loop' \in [Loops -> LoopType]
  BY <1>2 DEF Uncount
<1> QED BY <1>2, <1>3 DEF KeepTasks

LEMMA AcquireEvictsOK == ASSUME IInv, NEW p \in Callers, AcquireEvicts(p) PROVE IInv'
<1> DEFINE a == my[p].addr
           vec == m_clients[a]
           m == [my[p] EXCEPT !.stale = vec, !.loop = PickLoop(p)']
<1>1. /\ p \in Threads /\ p # Closer /\ my[p] \in LocalsType /\ pc[p] = "acquire"
      /\ ~m_shutdown /\ a \in Addrs /\ my[p].stale = <<>>
      /\ UNCHANGED <<script, m_shutdown, clients>>
      /\ Uncount(vec) /\ m_clients' = [m_clients EXCEPT ![a] = <<>>]
      /\ pc' = [pc EXCEPT ![p] = "evict"] /\ my' = [my EXCEPT ![p] = m]
  BY CallersAreThreads, MyType
     DEF AcquireEvicts, Goto, IInv, LocalsOK, CallerOK, Stopping
<1>2. vec \in Seq(Nat) /\ Len(vec) \in Nat /\ DOMAIN vec = 1..Len(vec)
      /\ \A i, j \in DOMAIN vec : vec[i] = vec[j] => i = j
  BY <1>1 DEF IInv, Types, Owning, OneOwner
<1>3. m.stale = vec /\ m.addr = a /\ m.loop = PickLoop(p)' /\ m.client = my[p].client
      /\ m.back = my[p].back
  BY <1>1 DEF LocalsType
<1> HIDE DEF m
<1>4. pc'[p] = "evict" /\ my'[p] = m
      /\ \A u \in Threads \ {p} : pc'[u] = pc[u] /\ my'[u] = my[u]
  BY <1>1 DEF IInv, Types
<1>5. pc[p] \in Quiet /\ pc[p] \notin Busy /\ "evict" \notin Busy /\ "evict" \in Places
      /\ "evict" \notin Making /\ "evict" \notin Stopping
  BY <1>1 DEF Quiet, Busy, Making, Stopping, Places
<1>6. /\ loop' \in [Loops -> LoopType] /\ KeepTasks
      /\ \A l \in Loops : loop'[l].state = loop[l].state
      /\ \A l \in Loops : loop'[l].m_connection_count = loop[l].m_connection_count - OnLoop(vec, l)
  BY <1>1, <1>2, UncountChanges
<1>7. KeepLoops /\ KeepClients /\ ClientIds' = ClientIds
  BY <1>1 DEF KeepLoops, KeepClients, ClientIds
<1>8. \A c : ~Has(p, c)
  BY <1>1, <1>5 DEF Has, Current, Later
<1> DEFINE Out(c) == \E i \in DOMAIN vec : vec[i] = c
<1>9. \A c : Out(c) => Pooled(c) /\ InPool(c) /\ c \in ClientIds
  BY <1>1 DEF Pooled, InPool, IInv, Owning, Valid
<1>10. /\ m_clients' \in [Addrs -> Seq(Nat)] /\ m_clients'[a] = <<>>
       /\ \A b \in Addrs \ {a} : m_clients'[b] = m_clients[b]
  BY <1>1 DEF IInv, Types
<1> HIDE DEF a
<1>11. ASSUME NEW c PROVE Pooled(c)' <=> Pooled(c) /\ ~Out(c)
  <2>1. ASSUME NEW b \in Addrs, NEW i \in DOMAIN m_clients'[b], m_clients'[b][i] = c
        PROVE  Pooled(c) /\ ~Out(c)
    <3>1. b # a /\ m_clients'[b] = m_clients[b]
      BY <1>10, <2>1
    <3>2. \A j \in DOMAIN vec : vec[j] # m_clients[b][i]
      BY <1>1, <2>1, <3>1 DEF IInv, Owning, OneOwner
    <3> QED BY <2>1, <3>1, <3>2 DEF Pooled
  <2>2. ASSUME NEW b \in Addrs, NEW i \in DOMAIN m_clients[b], m_clients[b][i] = c, ~Out(c)
        PROVE  i \in DOMAIN m_clients'[b] /\ m_clients'[b][i] = c
    <3>1. b # a
      BY <2>2
    <3> QED BY <1>10, <2>2, <3>1
  <2>3. Pooled(c)' => Pooled(c) /\ ~Out(c)
    BY <2>1 DEF Pooled
  <2>4. Pooled(c) /\ ~Out(c) => Pooled(c)'
    BY <2>2 DEF Pooled
  <2> QED BY <2>3, <2>4
<1>12. \A c : InPool(c)' <=> InPool(c) /\ ~Out(c)
  BY <1>1, <1>11 DEF InPool
<1>13. \A c : ~Current(p, c)' /\ (Later(p, c)' <=> Out(c)) /\ (Has(p, c)' <=> Out(c))
  BY <1>3, <1>4, <1>5 DEF Has, Current, Later
<1>14. \A u \in Threads \ {p} : \A c :
        /\ Current(u, c)' <=> Current(u, c)
        /\ Later(u, c)' <=> Later(u, c)
        /\ Has(u, c)' <=> Has(u, c)
  BY <1>4 DEF Current, Later, Has
<1> HIDE DEF vec
<1>15. LoadExact'
  <2> SUFFICES ASSUME NEW l \in Loops
               PROVE  loop'[l].m_connection_count = Cardinality(Charged(l)')
    BY DEF LoadExact
  <2> DEFINE there == {vec[i] : i \in {i \in DOMAIN vec : clients[vec[i]].loop = l}}
  <2>1. IsFiniteSet(there) /\ OnLoop(vec, l) = Cardinality(there)
    BY <1>2, OnLoopCounts
  <2>2. \A c : c \in there <=> Out(c) /\ clients[c].loop = l
    OBVIOUS
  <2>3. \A c : IsCharged(c)' <=> IsCharged(c) /\ ~Out(c)
    <3>1. \A q \in Callers : \A c : Paying(q, c)' <=> Paying(q, c)
      BY <1>1, <1>4, CallersAreThreads DEF Paying
    <3>2. ASSUME NEW q \in Callers, NEW c, Paying(q, c) PROVE ~Out(c)
      <4>1. q \in Threads /\ Has(q, c)
        BY <3>2, CallersAreThreads DEF Paying, Has, Current, Busy, Making
      <4> QED BY <1>9, <4>1 DEF IInv, Owning, OneOwner
    <3> QED BY <1>1, <1>12, <3>1, <3>2 DEF IsCharged
  <2>4. Charged(l)' = Charged(l) \ there
    <3>1. \A c : c \in Charged(l)' <=> c \in Charged(l) /\ c \notin there
      BY <1>1, <1>7, <2>2, <2>3, ChargedAre, ChargedAreNext
    <3> QED BY <3>1
  <2>5. there \subseteq Charged(l)
    BY <1>9, <2>2, ChargedAre DEF IsCharged
  <2>6. IsFiniteSet(Charged(l)) /\ loop[l].m_connection_count = Cardinality(Charged(l))
    BY ChargedFinite DEF IInv, Types, LoadExact
  <2> HIDE DEF there
  <2>7. Cardinality(Charged(l)') = Cardinality(Charged(l)) - Cardinality(there)
    <3>1. Charged(l) \cap there = there
      BY <2>5
    <3>2. Cardinality(Charged(l) \ there)
            = Cardinality(Charged(l)) - Cardinality(Charged(l) \cap there)
      BY <2>6, FS_Difference
    <3> QED BY <2>4, <3>1, <3>2
  <2> QED BY <1>6, <2>1, <2>6, <2>7
<1>16. m \in LocalsType /\ (m.loop # None => m.loop # Home[p])
  <2>1. (clients \in Seq(ClientType))'
    BY <1>1 DEF IInv, Types
  <2>2. Counted'
    BY <1>15, <2>1, CountsAreNext
  <2>3. PickLoop(p)' \in (Loops \ {Home[p]}) \cup {None}
    BY <2>2, PickLoopNext
  <2>4. m \in LocalsType
    <3>1. PICK r \in LocalsType : r = my[p]
      BY <1>1
    <3>2. PICK x \in Loops \cup {None} : x = PickLoop(p)'
      BY <2>3
    <3>3. [r EXCEPT !.stale = vec, !.loop = x] \in LocalsType
      BY <1>2 DEF LocalsType
    <3> QED BY <3>1, <3>2, <3>3 DEF m, vec, a
  <2> QED BY <1>3, <2>3, <2>4
<1>17. Types'
  BY <1>1, <1>5, <1>6, <1>10, <1>16 DEF IInv, Types
<1>18. LocalsOK' /\ Phases'
  <2>1. CallerOK(p)'
    BY <1>1, <1>3, <1>4, <1>5, <1>16 DEF CallerOK
  <2> QED BY <1>1, <1>5, <1>6, <1>7, <1>16, <2>1, CallerMoves
<1>19. Valid'
  <2>1. \A b \in Addrs : \A i \in DOMAIN m_clients'[b] : m_clients'[b][i] \in ClientIds
    BY <1>10 DEF IInv, Owning, Valid
  <2>2. \A u \in Threads : pc'[u] \in Busy => my'[u].client \in ClientIds
    BY <1>4, <1>5 DEF IInv, Owning, Valid
  <2>3. \A u \in Threads : \A i \in DOMAIN my'[u].stale : my'[u].stale[i] \in ClientIds
    BY <1>3, <1>4, <1>9 DEF IInv, Owning, Valid
  <2> QED BY <1>7, <2>1, <2>2, <2>3 DEF Valid
<1>20. OneOwner'
  <2>1. \A b, d \in Addrs : \A i \in DOMAIN m_clients'[b], j \in DOMAIN m_clients'[d] :
          m_clients'[b][i] = m_clients'[d][j] => b = d /\ i = j
    <3> SUFFICES ASSUME NEW b \in Addrs, NEW d \in Addrs, NEW i \in DOMAIN m_clients'[b],
                        NEW j \in DOMAIN m_clients'[d], m_clients'[b][i] = m_clients'[d][j]
                 PROVE  b = d /\ i = j
      OBVIOUS
    <3>1. DOMAIN m_clients'[a] = {}
      BY <1>10
    <3>2. b # a /\ d # a
      BY <3>1
    <3>3. m_clients'[b] = m_clients[b] /\ m_clients'[d] = m_clients[d]
      BY <1>10, <3>2
    <3> QED BY <3>3 DEF IInv, Owning, OneOwner
  <2>2. \A u \in Threads : \A i, j \in DOMAIN my'[u].stale :
          my'[u].stale[i] = my'[u].stale[j] => i = j
    <3>1. \A i, j \in DOMAIN vec : vec[i] = vec[j] => i = j
      BY <1>2, InPoolOnce DEF vec
    <3>2. \A u \in Threads \ {p} : my'[u].stale = my[u].stale
      BY <1>4
    <3>3. my'[p].stale = vec
      BY <1>3, <1>4
    <3> QED BY <3>1, <3>2, <3>3 DEF IInv, Owning, OneOwner
  <2>3. \A u \in Threads, c \in ClientIds : Current(u, c)' => ~Later(u, c)'
    BY <1>13, <1>14 DEF IInv, Owning, OneOwner
  <2>4. \A u \in Threads \ {p}, c \in ClientIds : Has(u, c)' => ~Out(c)
    BY <1>9, <1>14 DEF IInv, Owning, OneOwner
  <2>5. \A u, v \in Threads, c \in ClientIds : Has(u, c)' /\ Has(v, c)' => u = v
    BY <1>13, <1>14, <2>4 DEF IInv, Owning, OneOwner
  <2>6. \A u \in Threads, c \in ClientIds : Has(u, c)' => ~InPool(c)'
    BY <1>12, <1>13, <1>14 DEF IInv, Owning, OneOwner
  <2> QED BY <1>7, <2>1, <2>2, <2>3, <2>5, <2>6 DEF OneOwner
<1>21. OwnedWhole'
  <2>1. \A c : Whole(c)' <=> Whole(c)
    BY <1>1 DEF Whole
  <2>2. \A c \in ClientIds : InPool(c)' => Whole(c)'
    BY <1>12, <2>1 DEF IInv, Owning, OwnedWhole
  <2>3. \A u \in Threads, c \in ClientIds : Later(u, c)' => Whole(c)'
    BY <1>9, <1>13, <1>14, <2>1 DEF IInv, Owning, OwnedWhole
  <2>4. ASSUME NEW u \in Threads, NEW c \in ClientIds, Current(u, c)',
               pc'[u] \notin {"stopQueue", "stopWait"}
        PROVE  Whole(c)'
    BY <1>4, <1>13, <1>14, <2>1, <2>4 DEF IInv, Owning, OwnedWhole
  <2> QED BY <1>7, <2>2, <2>3, <2>4 DEF OwnedWhole
<1>22. Tasks'
  <2>1. ASSUME NEW q \in Callers, NEW c, Maker(q, c) PROVE Maker(q, c)'
    <3>1. q # p
      BY <1>5, <2>1 DEF Maker, Busy, Making
    <3> QED BY <1>1, <1>4, <2>1, <3>1, CallersAreThreads DEF Maker
  <2> QED BY <1>1, <1>6, <1>7, <2>1 DEF IInv, Owning, Tasks, KeepTasks
<1>23. LiveOwned'
  <2> SUFFICES ASSUME NEW c \in ClientIds, Live(c)
               PROVE  InPool(c)' \/ \E u \in Threads : Has(u, c)'
    BY <1>1, <1>7 DEF LiveOwned, Live, IInv, Owning
  <2> QED BY <1>1, <1>8, <1>12, <1>13, <1>14 DEF IInv, Owning, LiveOwned
<1>24. Owning'
  BY <1>19, <1>20, <1>21, <1>22, <1>23 DEF Owning
<1> QED BY <1>15, <1>17, <1>18, <1>24 DEF IInv

(* A task joins a loop's queue.                                            *)
LEMMA QueueChanges ==
  ASSUME IInv, NEW l \in Loops, NEW task \in TaskType, QueueInLoop(l, task)
  PROVE  /\ loop' \in [Loops -> LoopType] /\ KeepCounts
         /\ \A x \in Loops : loop'[x].state = loop[x].state
         /\ \A x \in Loops \ {l} : loop'[x].tasks = loop[x].tasks
         /\ \A i \in DOMAIN loop[l].tasks :
              i \in DOMAIN loop'[l].tasks /\ loop'[l].tasks[i] = loop[l].tasks[i]
         /\ \A i \in DOMAIN loop'[l].tasks :
              \/ i \in DOMAIN loop[l].tasks
              \/ /\ loop'[l].tasks[i] = task
                 /\ \A j \in DOMAIN loop'[l].tasks : j < i => j \in DOMAIN loop[l].tasks
         /\ \A i \in DOMAIN loop[l].tasks : \A j \in DOMAIN loop'[l].tasks :
              j < i => j \in DOMAIN loop[l].tasks
         /\ loop[l].state = "gone" => loop'[l].tasks = loop[l].tasks
<1>0. CASE loop[l].state = "gone"
  <2>0. PICK r \in LoopType : r = loop[l]
    BY DEF IInv, Types
  <2>1. loop' = [loop EXCEPT ![l] = [r EXCEPT !.tasks = r.tasks]]
    BY <1>0, <2>0 DEF QueueInLoop
  <2>2. [r EXCEPT !.tasks = r.tasks] = r
    BY DEF LoopType
  <2>3. loop' = [loop EXCEPT ![l] = loop[l]]
    BY <2>0, <2>1, <2>2
  <2>4. loop' = loop
    BY <2>3 DEF IInv, Types
  <2> QED BY <2>4 DEF KeepCounts, IInv, Types
<1> SUFFICES ASSUME loop[l].state # "gone" PROVE
         /\ loop' \in [Loops -> LoopType] /\ KeepCounts
         /\ \A x \in Loops : loop'[x].state = loop[x].state
         /\ \A x \in Loops \ {l} : loop'[x].tasks = loop[x].tasks
         /\ \A i \in DOMAIN loop[l].tasks :
              i \in DOMAIN loop'[l].tasks /\ loop'[l].tasks[i] = loop[l].tasks[i]
         /\ \A i \in DOMAIN loop'[l].tasks :
              \/ i \in DOMAIN loop[l].tasks
              \/ /\ loop'[l].tasks[i] = task
                 /\ \A j \in DOMAIN loop'[l].tasks : j < i => j \in DOMAIN loop[l].tasks
         /\ \A i \in DOMAIN loop[l].tasks : \A j \in DOMAIN loop'[l].tasks :
              j < i => j \in DOMAIN loop[l].tasks
  BY <1>0
<1>1. PICK r \in LoopType : r = loop[l]
  BY DEF IInv, Types
<1>2. PICK q \in Seq(TaskType) : q = r.tasks
  BY DEF LoopType
<1> DEFINE w == Append(q, task)
           e == [r EXCEPT !.tasks = w]
<1>3. /\ w \in Seq(TaskType) /\ DOMAIN q = 1..Len(q) /\ Len(q) \in Nat
      /\ DOMAIN w = 1..(Len(q) + 1)
      /\ \A i \in 1..Len(q) : w[i] = q[i]
      /\ w[Len(q) + 1] = task
  OBVIOUS
<1> HIDE DEF w
<1>4. e \in LoopType /\ e.tasks = w /\ e.state = r.state
      /\ e.m_connection_count = r.m_connection_count
  BY <1>3 DEF LoopType
<1>5. loop' = [loop EXCEPT ![l] = e]
  BY <1>1, <1>2 DEF QueueInLoop, w
<1> HIDE DEF e
<1>6. loop' \in [Loops -> LoopType] /\ loop'[l] = e /\ \A x \in Loops \ {l} : loop'[x] = loop[x]
  BY <1>4, <1>5 DEF IInv, Types
<1>7. loop'[l].tasks = w /\ loop[l].tasks = q
  BY <1>1, <1>2, <1>4, <1>6
<1>8. \A i \in DOMAIN q : i \in DOMAIN w /\ w[i] = q[i]
  BY <1>3
<1>9. \A i \in DOMAIN w : i \in DOMAIN q \/ (w[i] = task /\ \A j \in DOMAIN w : j < i => j \in DOMAIN q)
  BY <1>3
<1>10. \A i \in DOMAIN q : \A j \in DOMAIN w : j < i => j \in DOMAIN q
  BY <1>3
<1> QED BY <1>1, <1>4, <1>6, <1>7, <1>8, <1>9, <1>10 DEF KeepCounts

(* What the invariant says of one task.                                    *)
LEMMA TaskFacts ==
  ASSUME IInv, NEW l \in Loops, NEW i \in DOMAIN loop[l].tasks,
         NEW c, c = loop[l].tasks[i].client
  PROVE  /\ c \in ClientIds /\ clients[c].loop = l
         /\ loop[l].tasks[i].kind # "destroy" =>
              /\ ~clients[c].done /\ clients[c].watch = "none" /\ ~clients[c].destroyed
              /\ \E p \in Callers : Maker(p, c)
              /\ \A j \in DOMAIN loop[l].tasks : j < i => loop[l].tasks[j].client # c
  BY DEF IInv, Owning, Tasks

LEMMA ConnectOK ==
  ASSUME IInv, NEW p \in Callers, NEW o \in {"now", "progress", "failed"}, Connect(p, o)
  PROVE  IInv'
<1>0. PICK k \in Nat : k = Len(clients) + 1
  BY ClientIdsAre DEF IInv, Types
<1> DEFINE l == my[p].loop
           m == [my[p] EXCEPT !.client = k]
<1>1. /\ p \in Threads /\ p # Closer /\ my[p] \in LocalsType /\ pc[p] = "connect"
      /\ my[p].addr \in Addrs /\ l \in Loops /\ l # None /\ l # Home[p] /\ my[p].stale = <<>>
      /\ UNCHANGED <<script, m_clients, m_shutdown>>
  BY CallersAreThreads, MyType
     DEF Connect, poolVars, IInv, LocalsOK, CallerOK, Stopping, LocalsType
<1>2. CASE o = "failed"
  <2>1. NoLocals.stale = <<>> /\ NoLocals.loop = None
    BY DEF NoLocals
  <2>2. pc' = [pc EXCEPT ![p] = "idle"] /\ my' = [my EXCEPT ![p] = NoLocals]
        /\ UNCHANGED <<clients, loop>>
    BY <1>2 DEF Connect, Return, Goto
  <2> QED BY <1>1, <2>1, <2>2, NoLocalsType, EmptyHanded
<1>3. CASE o # "failed"
  <2>1. PICK new \in ClientType :
          /\ clients' = Append(clients, new)
          /\ new.loop = l /\ new.m_connection /\ ~new.m_stopped /\ new.watch = "none"
          /\ ~new.done /\ ~new.destroyed
    <3> DEFINE r == [NewClient(my[p].addr, l) EXCEPT !.m_connection = TRUE,
                        !.socket = IF o = "now" THEN "up" ELSE "pending"]
    <3>1. r \in ClientType
      BY <1>1 DEF NewClient, ClientType
    <3>2. r.loop = l /\ r.m_connection /\ ~r.m_stopped /\ r.watch = "none"
          /\ ~r.done /\ ~r.destroyed
      BY DEF NewClient
    <3>3. clients' = Append(clients, r)
      BY <1>3 DEF Connect
    <3> HIDE DEF r
    <3> QED BY <3>1, <3>2, <3>3
  <2>2. /\ clients' \in Seq(ClientType) /\ k \notin ClientIds /\ k \in Nat
        /\ ClientIds' = ClientIds \cup {k} /\ clients'[k] = new
        /\ \A c \in ClientIds : clients'[c] = clients[c]
    BY <1>0, <2>1, ClientIdsAre DEF IInv, Types, ClientIds
  <2>3. /\ m \in LocalsType /\ m.client = k /\ m.stale = <<>> /\ m.addr = my[p].addr
        /\ m.loop = l
    BY <1>1, <2>2 DEF LocalsType
  <2>4. /\ QueueInLoop(l, Task(o, k)) /\ my' = [my EXCEPT ![p] = m]
        /\ pc' = [pc EXCEPT ![p] = "connecting"]
    BY <1>0, <1>3 DEF Connect, Goto
  <2> HIDE DEF m
  <2>5. Task(o, k) \in TaskType /\ Task(o, k).client = k /\ Task(o, k).kind # "destroy"
    BY <1>3, <2>2 DEF Task, TaskType
  <2> DEFINE task == Task(o, k)
  <2>6. /\ loop' \in [Loops -> LoopType] /\ KeepCounts
        /\ \A x \in Loops : loop'[x].state = loop[x].state
        /\ \A x \in Loops \ {l} : loop'[x].tasks = loop[x].tasks
        /\ \A i \in DOMAIN loop[l].tasks :
             i \in DOMAIN loop'[l].tasks /\ loop'[l].tasks[i] = loop[l].tasks[i]
        /\ \A i \in DOMAIN loop'[l].tasks :
             \/ i \in DOMAIN loop[l].tasks
             \/ /\ loop'[l].tasks[i] = task
                /\ \A j \in DOMAIN loop'[l].tasks : j < i => j \in DOMAIN loop[l].tasks
        /\ \A i \in DOMAIN loop[l].tasks : \A j \in DOMAIN loop'[l].tasks :
             j < i => j \in DOMAIN loop[l].tasks
    BY <1>1, <2>4, <2>5, QueueChanges
  <2> HIDE DEF task, l
  <2>7. pc'[p] = "connecting" /\ my'[p] = m
        /\ \A u \in Threads \ {p} : pc'[u] = pc[u] /\ my'[u] = my[u]
    BY <1>1, <2>4 DEF IInv, Types
  <2>8. "connecting" \in Places /\ "connecting" \in Busy /\ "connecting" \in Making
        /\ "connecting" \notin Stopping
    BY DEF Places, Busy, Making, Stopping
  <2>9. pc[p] \notin Busy /\ pc[p] \notin Quiet /\ pc[p] \notin Stopping /\ pc[p] # "connecting"
        /\ pc[p] # "idle"
    BY <1>1 DEF Busy, Making, Stopping, Quiet
  <2>10. KeepLoops
    BY <2>2 DEF KeepLoops
  <2>11. \A c : ~Has(p, c)
    BY <1>1, <2>9 DEF Has, Current, Later
  <2>12. \A c : (Has(p, c)' <=> c = k) /\ (Current(p, c)' <=> c = k) /\ ~Later(p, c)'
    BY <2>3, <2>7, <2>8 DEF Has, Current, Later
  <2>13. \A u \in Threads \ {p} : \A c :
          /\ Current(u, c)' <=> Current(u, c)
          /\ Later(u, c)' <=> Later(u, c)
          /\ Has(u, c)' <=> Has(u, c)
    BY <2>7 DEF Current, Later, Has
  <2>14. \A c : InPool(c)' <=> InPool(c)
    BY <1>1 DEF InPool, Pooled
  <2>15. \A c : Pooled(c) => c \in ClientIds
    BY DEF Pooled, IInv, Owning, Valid
  <2>16. \A u \in Threads : \A c : Has(u, c) => c \in ClientIds
    BY DEF Has, Current, Later, IInv, Owning, Valid
  <2>17. Types'
    BY <1>1, <2>2, <2>3, <2>4, <2>6, <2>8 DEF IInv, Types
  <2>18. LocalsOK' /\ Phases'
    <3>1. CallerOK(p)'
      BY <1>1, <2>1, <2>2, <2>3, <2>7, <2>8 DEF CallerOK, l
    <3>2. UNCHANGED m_shutdown
      BY <1>1
    <3> QED BY <2>3, <2>4, <2>6, <2>8, <2>9, <2>10, <3>1, <3>2, CallerMoves
  <2>19. Valid'
    <3>1. \A a \in Addrs : \A i \in DOMAIN m_clients'[a] : m_clients'[a][i] \in ClientIds'
      BY <1>1, <2>2 DEF IInv, Owning, Valid
    <3>2. \A u \in Threads : pc'[u] \in Busy => my'[u].client \in ClientIds'
      BY <2>2, <2>3, <2>7 DEF IInv, Owning, Valid
    <3>3. \A u \in Threads : \A i \in DOMAIN my'[u].stale : my'[u].stale[i] \in ClientIds'
      BY <2>2, <2>3, <2>7 DEF IInv, Owning, Valid
    <3> QED BY <3>1, <3>2, <3>3 DEF Valid
  <2>20. OneOwner'
    <3>1. \A a, b \in Addrs : \A i \in DOMAIN m_clients'[a], j \in DOMAIN m_clients'[b] :
            m_clients'[a][i] = m_clients'[b][j] => a = b /\ i = j
      BY <1>1 DEF IInv, Owning, OneOwner
    <3>2. \A u \in Threads : \A i, j \in DOMAIN my'[u].stale :
            my'[u].stale[i] = my'[u].stale[j] => i = j
      BY <2>3, <2>7 DEF IInv, Owning, OneOwner
    <3>3. \A u \in Threads : \A c : Current(u, c)' => ~Later(u, c)'
      BY <2>12, <2>13, <2>16 DEF IInv, Owning, OneOwner, Has
    <3>4. \A u, v \in Threads : \A c : Has(u, c)' /\ Has(v, c)' => u = v
      BY <2>2, <2>12, <2>13, <2>16 DEF IInv, Owning, OneOwner
    <3>5. \A u \in Threads : \A c : Has(u, c)' => ~InPool(c)'
      BY <2>2, <2>12, <2>13, <2>14, <2>15, <2>16 DEF IInv, Owning, OneOwner, InPool
    <3> QED BY <3>1, <3>2, <3>3, <3>4, <3>5 DEF OneOwner
  <2>21. OwnedWhole'
    <3>1. Whole(k)' /\ \A c \in ClientIds : Whole(c)' <=> Whole(c)
      BY <2>1, <2>2 DEF Whole
    <3>2. \A c : InPool(c)' => Whole(c)'
      BY <2>14, <2>15, <3>1 DEF IInv, Owning, OwnedWhole, InPool
    <3>3. \A u \in Threads : \A c : Later(u, c)' => Whole(c)'
      BY <2>12, <2>13, <2>16, <3>1 DEF IInv, Owning, OwnedWhole, Has
    <3>4. ASSUME NEW u \in Threads, NEW c, Current(u, c)',
                 pc'[u] \notin {"stopQueue", "stopWait"}
          PROVE  Whole(c)'
      BY <2>7, <2>12, <2>13, <2>16, <3>1, <3>4 DEF IInv, Owning, OwnedWhole, Has
    <3> QED BY <3>2, <3>3, <3>4 DEF OwnedWhole
  <2>22. Tasks'
    <3> SUFFICES ASSUME NEW x \in Loops, NEW i \in DOMAIN loop'[x].tasks,
                        NEW c, c = loop'[x].tasks[i].client
                 PROVE  /\ c \in ClientIds' /\ clients'[c].loop = x
                        /\ loop'[x].tasks[i].kind # "destroy" =>
                             /\ ~clients'[c].done /\ clients'[c].watch = "none"
                             /\ ~clients'[c].destroyed
                             /\ \E q \in Callers : Maker(q, c)'
                             /\ \A j \in DOMAIN loop'[x].tasks :
                                  j < i => loop'[x].tasks[j].client # c
      BY DEF Tasks
    <3>1. ASSUME NEW q \in Callers, NEW d \in ClientIds, Maker(q, d) PROVE Maker(q, d)'
      <4>1. q # p
        BY <2>9, <3>1 DEF Maker
      <4> QED BY <2>2, <2>7, <3>1, <4>1, CallersAreThreads DEF Maker
    <3>2. \A y \in Loops : \A j \in DOMAIN loop[y].tasks :
            loop[y].tasks[j].client \in ClientIds /\ loop[y].tasks[j].client # k
      BY <2>2 DEF IInv, Owning, Tasks
    <3>3. CASE i \in DOMAIN loop[x].tasks
      <4>1. loop'[x].tasks[i] = loop[x].tasks[i]
            /\ \A j \in DOMAIN loop'[x].tasks : j < i =>
                 j \in DOMAIN loop[x].tasks /\ loop'[x].tasks[j] = loop[x].tasks[j]
        BY <2>6, <3>3
      <4>2. c \in ClientIds /\ clients'[c] = clients[c]
        BY <2>2, <3>2, <3>3, <4>1
      <4>3. /\ clients[c].loop = x
            /\ loop[x].tasks[i].kind # "destroy" =>
                 /\ ~clients[c].done /\ clients[c].watch = "none" /\ ~clients[c].destroyed
                 /\ \E q \in Callers : Maker(q, c)
                 /\ \A j \in DOMAIN loop[x].tasks : j < i => loop[x].tasks[j].client # c
        BY <3>3, <4>1, TaskFacts
      <4>4. \A j \in DOMAIN loop'[x].tasks : j < i /\ loop[x].tasks[i].kind # "destroy" =>
              loop'[x].tasks[j].client # c
        BY <4>1, <4>3
      <4>5. loop[x].tasks[i].kind # "destroy" => \E q \in Callers : Maker(q, c)'
        BY <3>1, <4>2, <4>3
      <4> QED BY <2>2, <4>1, <4>2, <4>3, <4>4, <4>5
    <3>4. CASE i \notin DOMAIN loop[x].tasks
      <4>1. x = l /\ loop'[x].tasks[i] = task /\ c = k
            /\ \A j \in DOMAIN loop'[x].tasks : j < i => j \in DOMAIN loop[x].tasks
        BY <2>5, <2>6, <3>4 DEF task
      <4>2. Maker(p, k)'
        BY <1>1, <2>1, <2>2, <2>3, <2>7 DEF Maker, l
      <4>3. \A j \in DOMAIN loop'[x].tasks : j < i => loop'[x].tasks[j].client # c
        BY <2>6, <3>2, <4>1
      <4> QED BY <2>1, <2>2, <4>1, <4>2, <4>3
    <3> QED BY <3>3, <3>4
  <2>23. LiveOwned'
    <3>1. ASSUME NEW c \in ClientIds, Live(c)
          PROVE  InPool(c)' \/ \E u \in Threads : Has(u, c)'
      BY <2>11, <2>13, <2>14, <3>1 DEF IInv, Owning, LiveOwned
    <3>2. \A c \in ClientIds : Live(c)' <=> Live(c)
      BY <2>2 DEF Live
    <3>3. \E u \in Threads : Has(u, k)'
      BY <1>1, <2>12
    <3> QED BY <2>1, <2>2, <3>1, <3>2, <3>3 DEF LiveOwned, IInv, Owning
  <2>24. LoadExact'
    <3>1. \A q \in Callers : \A c : Paying(q, c)' <=> Paying(q, c)
      BY <1>1, <2>7, CallersAreThreads DEF Paying
    <3>2. \A c : Later(Closer, c)' <=> Later(Closer, c)
      BY <1>1, <2>7 DEF Later, Threads
    <3>3. \A c : IsCharged(c)' <=> IsCharged(c)
      BY <1>1, <2>14, <3>1, <3>2 DEF IsCharged
    <3>4. ~IsCharged(k)
      <4>1. \A q \in Callers : \A c : Paying(q, c) => Has(q, c) /\ q \in Threads
        BY CallersAreThreads DEF Paying, Has, Current, Busy, Making
      <4>2. \A c : Later(Closer, c) => Has(Closer, c) /\ Closer \in Threads
        BY DEF Has, Threads
      <4> QED BY <2>2, <2>15, <2>16, <4>1, <4>2 DEF IsCharged, InPool
    <3> QED BY <2>2, <2>6, <2>10, <3>3, <3>4, LoadSame
  <2>25. Owning'
    BY <2>19, <2>20, <2>21, <2>22, <2>23 DEF Owning
  <2> QED BY <2>17, <2>18, <2>24, <2>25 DEF IInv
<1> QED BY <1>2, <1>3

-----------------------------------------------------------------------------
(* TcpClient::stop.                                                        *)

(* What a thread knows of the client it stops.                             *)
LEMMA StoppingFacts ==
  ASSUME IInv, NEW t \in Threads, pc[t] \in Stopping
  PROVE  /\ my[t].client \in ClientIds /\ Current(t, my[t].client) /\ Has(t, my[t].client)
         /\ clients[my[t].client] \in ClientType /\ clients[my[t].client].loop \in Loops
         /\ my[t] \in LocalsType
         /\ \A u \in Threads : Has(u, my[t].client) => u = t
         /\ ~Later(t, my[t].client) /\ ~InPool(my[t].client)
<1>1. my[t].client \in ClientIds /\ Current(t, my[t].client) /\ Has(t, my[t].client)
  BY DEF Busy, IInv, Owning, Valid, Current, Has
<1>2. clients[my[t].client] \in ClientType
  BY <1>1, ClientAt
<1>3. clients[my[t].client].loop \in Loops
  BY <1>2 DEF ClientType
<1>4. my[t] \in LocalsType
  BY MyType
<1>6. /\ \A u \in Threads : Has(u, my[t].client) => u = t
      /\ ~Later(t, my[t].client) /\ ~InPool(my[t].client)
  BY <1>1 DEF IInv, Owning, OneOwner
<1> QED BY <1>1, <1>2, <1>3, <1>4, <1>6

(* Where a thread goes in stop() and from it.                              *)
StopsTo(t, s, m) ==
    \/ s \in {"stopQueue", "stopWait"} /\ m = my[t]
    \/ t = Closer /\ s = "clients" /\ m = my[t]
    \/ t \in Callers /\ s = "evict" /\ m = my[t] /\ my[t].back = "evict"
    \/ t \in Callers /\ s = "idle" /\ m = NoLocals /\ my[t].back = "idle"

\* No task is going to connect client k.
NoConnectTask(k) == \A l \in Loops : \A i \in DOMAIN loop[l].tasks : ~ConnectTask(l, i, k)

LEMMA StopsToFacts ==
  ASSUME IInv, NEW t \in Threads, pc[t] \in Stopping, NEW s, NEW m, StopsTo(t, s, m)
  PROVE  /\ s \in Places /\ m \in LocalsType /\ m.stale = my[t].stale
         /\ s \in Busy => s \in {"stopQueue", "stopWait"} /\ m.client = my[t].client
         /\ s \notin {"insert", "uncount"} /\ pc[t] \notin {"insert", "uncount"}
<1>1. s \in Places /\ (s \in Busy => s \in {"stopQueue", "stopWait"})
      /\ s \notin {"insert", "uncount"} /\ pc[t] \notin {"insert", "uncount"}
  BY DEF StopsTo, Places, Busy, Making, Stopping, Quiet
<1>2. m \in LocalsType
  BY MyType, NoLocalsType DEF StopsTo
<1>3. CASE m = my[t]
  BY <1>1, <1>2, <1>3
<1>4. CASE t \in Callers /\ s = "idle" /\ m = NoLocals /\ my[t].back = "idle"
  <2>1. my[t].stale = <<>>
    BY <1>4 DEF IInv, LocalsOK, CallerOK, Stopping
  <2>2. m.stale = <<>> /\ s \notin Busy
    BY <1>4 DEF NoLocals, Busy, Making, Stopping
  <2> QED BY <1>1, <1>2, <2>1, <2>2
<1> QED BY <1>3, <1>4 DEF StopsTo

LEMMA StopsLocals ==
  ASSUME IInv, NEW t \in Threads, pc[t] \in Stopping, NEW s, NEW m, StopsTo(t, s, m),
         pc' = [pc EXCEPT ![t] = s], my' = [my EXCEPT ![t] = m],
         UNCHANGED m_shutdown, KeepLoops,
         \A l \in Loops : loop'[l].state = loop[l].state
  PROVE  LocalsOK' /\ Phases'
<1>1. s \in Places /\ m \in LocalsType /\ m.stale = my[t].stale
  BY StopsToFacts
<1>2. pc'[t] = s /\ my'[t] = m
  BY DEF IInv, Types
<1>3. CASE t = Closer
  <2>1. CloserOK
    BY DEF IInv, LocalsOK
  <2>2. CloserOK'
    BY <1>2, <1>3, <2>1, GroupFacts DEF CloserOK, StopsTo, Stopping
  <2>3. m_shutdown' /\ s # "idle" /\ \A l \in Loops : loop[l].state = "looping"
    BY <1>3, GroupFacts DEF IInv, Phases, Stopping, StopsTo
  <2>4. m_shutdown
    BY <2>3
  <2> QED BY <1>1, <1>3, <2>2, <2>3, <2>4, CloserMoves
<1>4. CASE t \in Callers
  <2>1. CallerOK(t)
    BY <1>4 DEF IInv, LocalsOK
  <2>2. pc[t] \in Busy /\ pc[t] \notin Quiet
    BY DEF Busy, Stopping, Quiet
  <2>3. CallerOK(t)'
    <3>1. CASE m = NoLocals /\ s = "idle"
      <4>1. NoLocals.stale = <<>> /\ NoLocals.loop = None
        BY DEF NoLocals
      <4> QED BY <1>2, <3>1, <4>1 DEF CallerOK, Busy, Making, Stopping
    <3>2. CASE m = my[t] /\ s \in {"evict", "stopQueue", "stopWait"}
               /\ (s = "evict" => my[t].back = "evict")
      BY <1>2, <2>1, <2>2, <3>2 DEF CallerOK, Busy, Making, Stopping
    <3> QED BY <1>4, <3>1, <3>2, GroupFacts DEF StopsTo
  <2>4. pc[t] # "idle"
    BY <2>2 DEF Quiet
  <2> QED BY <1>1, <1>4, <2>2, <2>3, <2>4, CallerMoves
<1> QED BY <1>3, <1>4 DEF Threads

(* The tasks are those there were, and later ones that destroy client k.   *)
TasksGrow(k) ==
    \A l \in Loops : \A i \in DOMAIN loop'[l].tasks :
        \/ /\ i \in DOMAIN loop[l].tasks /\ loop'[l].tasks[i] = loop[l].tasks[i]
           /\ \A j \in DOMAIN loop'[l].tasks : j < i =>
                j \in DOMAIN loop[l].tasks /\ loop'[l].tasks[j] = loop[l].tasks[j]
        \/ /\ l = clients[k].loop /\ loop'[l].tasks[i].client = k
           /\ loop'[l].tasks[i].kind = "destroy"

(* What becomes of the client that is stopped: nothing but what stop takes *)
(* from it.                                                                *)
TakenApart(k) ==
    /\ ClientIds' = ClientIds
    /\ \A c \in ClientIds \ {k} : clients'[c] = clients[c]
    /\ clients'[k].loop = clients[k].loop /\ clients'[k].done = clients[k].done
    /\ clients'[k].destroyed = clients[k].destroyed
    /\ clients'[k].watch \in {clients[k].watch, "none"}

(* A thread goes on with the client it stops, or it is through with it.    *)
LEMMA StopMoves ==
  ASSUME IInv, NEW t \in Threads, pc[t] \in Stopping, NEW s, NEW m, StopsTo(t, s, m),
         NEW k, k = my[t].client,
         pc' = [pc EXCEPT ![t] = s], my' = [my EXCEPT ![t] = m],
         UNCHANGED <<m_clients, m_shutdown>>, TakenApart(k),
         s \notin Busy => ~Live(k)' /\ NoConnectTask(k),
         TasksGrow(k)
  PROVE  Owning'
<1>0. /\ ClientIds' = ClientIds
      /\ \A c \in ClientIds \ {k} : clients'[c] = clients[c]
      /\ clients'[k].loop = clients[k].loop /\ clients'[k].done = clients[k].done
      /\ clients'[k].destroyed = clients[k].destroyed
      /\ clients'[k].watch \in {clients[k].watch, "none"}
  BY DEF TakenApart
<1>1. /\ k \in ClientIds /\ Current(t, k) /\ Has(t, k)
      /\ (\A u \in Threads : Has(u, k) => u = t) /\ ~Later(t, k) /\ ~InPool(k)
  BY StoppingFacts
<1>2. /\ s \in Places /\ m \in LocalsType /\ m.stale = my[t].stale
      /\ s \in Busy => s \in {"stopQueue", "stopWait"} /\ m.client = k
  BY StopsToFacts
<1>3. pc'[t] = s /\ my'[t] = m /\ \A u \in Threads \ {t} : pc'[u] = pc[u] /\ my'[u] = my[u]
  BY DEF IInv, Types
<1>4. \A u \in Threads : \A c : Later(u, c)' <=> Later(u, c)
  BY <1>2, <1>3 DEF Later
<1>5. \A u \in Threads : \A c : Current(u, c)' => Current(u, c)
  BY <1>1, <1>2, <1>3 DEF Current
<1>6. \A u \in Threads : \A c : Has(u, c)' => Has(u, c)
  BY <1>4, <1>5 DEF Has
<1>7. \A u \in Threads : \A c : Has(u, c) => Has(u, c)' \/ (u = t /\ c = k /\ s \notin Busy)
  BY <1>1, <1>2, <1>3, <1>4 DEF Has, Current
<1>8. \A c : InPool(c)' <=> InPool(c)
  BY DEF InPool, Pooled
<1>9. Valid'
  BY <1>0, <1>1, <1>2, <1>3 DEF IInv, Owning, Valid
<1>10. OneOwner'
  <2>1. \A u \in Threads : \A i, j \in DOMAIN my'[u].stale :
          my'[u].stale[i] = my'[u].stale[j] => i = j
    BY <1>2, <1>3 DEF IInv, Owning, OneOwner
  <2>2. \A u \in Threads, c \in ClientIds : Current(u, c)' => ~Later(u, c)'
    BY <1>4, <1>5 DEF IInv, Owning, OneOwner
  <2>3. \A u, v \in Threads, c \in ClientIds : Has(u, c)' /\ Has(v, c)' => u = v
    BY <1>6 DEF IInv, Owning, OneOwner
  <2>4. \A u \in Threads, c \in ClientIds : Has(u, c)' => ~InPool(c)'
    BY <1>6, <1>8 DEF IInv, Owning, OneOwner
  <2> QED BY <1>0, <2>1, <2>2, <2>3, <2>4 DEF IInv, Owning, OneOwner
<1>11. OwnedWhole'
  <2>1. \A c \in ClientIds \ {k} : Whole(c)' <=> Whole(c)
    BY <1>0 DEF Whole
  <2>2. \A c \in ClientIds : InPool(c)' => Whole(c)'
    BY <1>1, <1>8, <2>1 DEF IInv, Owning, OwnedWhole
  <2>3. \A u \in Threads, c \in ClientIds : Later(u, c)' => Whole(c)'
    <3>1. \A u \in Threads : ~Later(u, k)
      BY <1>1 DEF Has
    <3> QED BY <1>4, <2>1, <3>1 DEF IInv, Owning, OwnedWhole
  <2>4. ASSUME NEW u \in Threads, NEW c \in ClientIds, Current(u, c)',
               pc'[u] \notin {"stopQueue", "stopWait"}
        PROVE  Whole(c)'
    <3>1. u # t
      BY <1>2, <1>3, <2>4 DEF Current
    <3>2. Current(u, c) /\ pc[u] = pc'[u]
      BY <1>3, <1>5, <2>4, <3>1
    <3>3. c # k
      BY <1>1, <3>1, <3>2 DEF Has
    <3> QED BY <2>1, <2>4, <3>2, <3>3 DEF IInv, Owning, OwnedWhole
  <2> QED BY <1>0, <2>2, <2>3, <2>4 DEF OwnedWhole
<1>12. Tasks'
  <2> SUFFICES ASSUME NEW l \in Loops, NEW i \in DOMAIN loop'[l].tasks,
                      NEW c, c = loop'[l].tasks[i].client
               PROVE  /\ c \in ClientIds' /\ clients'[c].loop = l
                      /\ loop'[l].tasks[i].kind # "destroy" =>
                           /\ ~clients'[c].done /\ clients'[c].watch = "none"
                           /\ ~clients'[c].destroyed
                           /\ \E q \in Callers : Maker(q, c)'
                           /\ \A j \in DOMAIN loop'[l].tasks :
                                j < i => loop'[l].tasks[j].client # c
    BY DEF Tasks
  <2>1. CASE l = clients[k].loop /\ c = k /\ loop'[l].tasks[i].kind = "destroy"
    BY <1>0, <1>1, <2>1
  <2>2. CASE /\ i \in DOMAIN loop[l].tasks /\ loop'[l].tasks[i] = loop[l].tasks[i]
             /\ \A j \in DOMAIN loop'[l].tasks : j < i =>
                  j \in DOMAIN loop[l].tasks /\ loop'[l].tasks[j] = loop[l].tasks[j]
    <3>1. c \in ClientIds /\ clients[c].loop = l
      BY <2>2 DEF IInv, Owning, Tasks
    <3>2. clients'[c].loop = l
      BY <1>0, <3>1
    <3>3. ASSUME loop'[l].tasks[i].kind # "destroy"
          PROVE  /\ ~clients'[c].done /\ clients'[c].watch = "none"
                 /\ ~clients'[c].destroyed
                 /\ \E q \in Callers : Maker(q, c)'
                 /\ \A j \in DOMAIN loop'[l].tasks : j < i => loop'[l].tasks[j].client # c
      <4>1. /\ ~clients[c].done /\ clients[c].watch = "none" /\ ~clients[c].destroyed
            /\ \A j \in DOMAIN loop[l].tasks : j < i => loop[l].tasks[j].client # c
        BY <2>2, <3>3 DEF IInv, Owning, Tasks
      <4>2. PICK q \in Callers : Maker(q, c)
        BY <2>2, <3>3 DEF IInv, Owning, Tasks
      <4>3. Maker(q, c)'
        <5>1. CASE q # t
          BY <1>3, <3>1, <3>2, <4>2, <5>1, CallersAreThreads DEF Maker
        <5>2. CASE q = t
          <6>1. c = k /\ ConnectTask(l, i, k)
            BY <2>2, <3>3, <4>2, <5>2 DEF Maker, ConnectTask
          <6>2. s \in Busy
            BY <2>2, <6>1 DEF NoConnectTask
          <6> QED BY <1>2, <1>3, <3>1, <3>2, <4>2, <5>2, <6>1, <6>2 DEF Maker, Stopping
        <5> QED BY <5>1, <5>2
      <4>4. ~clients'[c].done /\ clients'[c].watch = "none" /\ ~clients'[c].destroyed
        BY <1>0, <3>1, <4>1
      <4> QED BY <2>2, <4>1, <4>3, <4>4
    <3> QED BY <1>0, <3>1, <3>2, <3>3
  <2> QED BY <2>1, <2>2 DEF TasksGrow
<1>13. LiveOwned'
  <2>1. \A c \in ClientIds : clients'[c].watch # "none" => ~clients'[c].destroyed
    BY <1>0 DEF IInv, Owning, LiveOwned
  <2>2. ASSUME NEW c \in ClientIds, Live(c)'
        PROVE  InPool(c)' \/ \E u \in Threads : Has(u, c)'
    <3>1. CASE c = k
      BY <1>1, <1>7, <2>2, <3>1
    <3>2. CASE c # k
      <4>1. Live(c)
        BY <1>0, <2>2, <3>2 DEF Live
      <4> QED BY <1>7, <1>8, <3>2, <4>1 DEF IInv, Owning, LiveOwned
    <3> QED BY <3>1, <3>2
  <2> QED BY <1>0, <2>1, <2>2 DEF LiveOwned
<1> QED BY <1>9, <1>10, <1>11, <1>12, <1>13 DEF Owning

(* It changes the client, and no loop.                                     *)
LEMMA StopOK ==
  ASSUME IInv, NEW t \in Threads, pc[t] \in Stopping, NEW s, NEW m, StopsTo(t, s, m),
         pc' = [pc EXCEPT ![t] = s], my' = [my EXCEPT ![t] = m],
         UNCHANGED <<script, m_clients, m_shutdown, loop>>,
         NEW k, k = my[t].client,
         NEW e \in ClientType, clients' = [clients EXCEPT ![k] = e],
         e.loop = clients[k].loop, e.done = clients[k].done,
         e.destroyed = clients[k].destroyed, e.watch \in {clients[k].watch, "none"},
         s \notin Busy => e.watch = "none" /\ e.m_stopped /\ NoConnectTask(k)
  PROVE  IInv'
<1>1. k \in ClientIds
  BY StoppingFacts
<1>2. /\ clients' \in Seq(ClientType) /\ ClientIds' = ClientIds /\ clients'[k] = e
      /\ \A c \in ClientIds \ {k} : clients'[c] = clients[c]
  BY <1>1, ClientSet
<1>3. KeepLoops /\ KeepCounts
  BY <1>2 DEF KeepLoops, KeepCounts
<1>4. /\ s \in Places /\ m \in LocalsType /\ m.stale = my[t].stale
      /\ s \notin {"insert", "uncount"} /\ pc[t] \notin {"insert", "uncount"}
  BY StopsToFacts
<1>5. Types'
  BY <1>2, <1>4 DEF IInv, Types
<1>6. LocalsOK' /\ Phases'
  BY <1>3, StopsLocals
<1>7. Owning'
  <2>1. TasksGrow(k) /\ TakenApart(k)
    BY <1>2 DEF TasksGrow, TakenApart
  <2>2. s \notin Busy => ~Live(k)' /\ NoConnectTask(k)
    BY <1>2 DEF Live
  <2> QED BY <1>2, <2>1, <2>2, StopMoves
<1>8. LoadExact'
  BY <1>2, <1>3, <1>4, MovesLoad
<1> QED BY <1>5, <1>6, <1>7, <1>8 DEF IInv

LEMMA GoesBack ==
  ASSUME IInv, NEW t \in Threads, pc[t] \in Stopping, GoOn(t, my[t].back)
  PROVE  \E s, m : /\ StopsTo(t, s, m) /\ s \notin Busy
                   /\ pc' = [pc EXCEPT ![t] = s] /\ my' = [my EXCEPT ![t] = m]
<1>0. my' = my => my' = [my EXCEPT ![t] = my[t]]
  BY DEF IInv, Types
<1>1. CASE t = Closer
  <2>1. my[t].back = "clients"
    BY <1>1 DEF IInv, LocalsOK, CloserOK
  <2>2. StopsTo(t, "clients", my[t]) /\ "clients" \notin Busy
    BY <1>1 DEF StopsTo, Busy, Making, Stopping
  <2>3. pc' = [pc EXCEPT ![t] = "clients"] /\ my' = my
    BY <2>1 DEF GoOn, Goto
  <2> QED BY <1>0, <2>2, <2>3
<1>2. CASE t \in Callers /\ my[t].back = "evict"
  <2>2. StopsTo(t, "evict", my[t]) /\ "evict" \notin Busy
    BY <1>2 DEF StopsTo, Busy, Making, Stopping
  <2>3. pc' = [pc EXCEPT ![t] = "evict"] /\ my' = my
    BY <1>2 DEF GoOn, Goto
  <2> QED BY <1>0, <2>2, <2>3
<1>3. CASE t \in Callers /\ my[t].back = "idle"
  <2>2. StopsTo(t, "idle", NoLocals) /\ "idle" \notin Busy
    BY <1>3 DEF StopsTo, Busy, Making, Stopping
  <2>3. pc' = [pc EXCEPT ![t] = "idle"] /\ my' = [my EXCEPT ![t] = NoLocals]
    BY <1>3 DEF GoOn, Goto, Return
  <2> QED BY <2>2, <2>3
<1>4. t \in Callers => my[t].back \in {"idle", "evict"}
  BY DEF IInv, LocalsOK, CallerOK
<1> QED BY <1>1, <1>2, <1>3, <1>4 DEF Threads

LEMMA StopEnterOK == ASSUME IInv, Side, NEW t \in Threads, StopEnter(t) PROVE IInv'
<1>0. PICK k : k = my[t].client
  OBVIOUS
<1>1. pc[t] \in Stopping /\ pc[t] = "stop" /\ UNCHANGED <<script, m_clients, m_shutdown, loop>>
  BY DEF StopEnter, Stopping, poolVars
<1>2. /\ k \in ClientIds /\ Current(t, k) /\ clients[k].loop \in Loops
      /\ \A u \in Threads : Has(u, k) => u = t
  BY <1>0, <1>1, StoppingFacts
<1>3. Whole(k)
  BY <1>1, <1>2 DEF IInv, Owning, OwnedWhole
<1>4. PICK r \in ClientType : r = clients[k]
  BY <1>2, ClientAt
<1> DEFINE taken == [r EXCEPT !.m_stopped = TRUE, !.m_connection = FALSE]
           gone == [taken EXCEPT !.m_state = "Closed", !.watch = "none"]
<1>5. /\ taken \in ClientType /\ taken.loop = r.loop /\ taken.done = r.done
      /\ taken.destroyed = r.destroyed /\ taken.watch = r.watch /\ taken.m_stopped
  BY DEF ClientType
<1>6. /\ gone \in ClientType /\ gone.loop = r.loop /\ gone.done = r.done
      /\ gone.destroyed = r.destroyed /\ gone.watch = "none" /\ gone.m_stopped
  BY DEF ClientType
<1>7. CASE t \in Callers /\ Home[t] = clients[k].loop
  <2>1. clients' = [clients EXCEPT ![k] = gone] /\ GoOn(t, my[t].back)
    BY <1>0, <1>3, <1>4, <1>7 DEF StopEnter, Whole, Destroyed
  <2> HIDE DEF gone
  <2>2. NoConnectTask(k)
    <3> SUFFICES ASSUME NEW l \in Loops, NEW i \in DOMAIN loop[l].tasks, ConnectTask(l, i, k)
                 PROVE  FALSE
      BY DEF NoConnectTask
    <3>1. PICK q \in Callers : Maker(q, k)
      BY DEF ConnectTask, IInv, Owning, Tasks
    <3>2. q = t
      <4>1. q \in Threads /\ Has(q, k)
        BY <3>1, CallersAreThreads DEF Maker, Has, Current, Busy, Making
      <4> QED BY <1>2, <4>1
    <3> QED BY <1>7, <3>1, <3>2 DEF Maker
  <2>3. PICK s, m : /\ StopsTo(t, s, m) /\ s \notin Busy
                    /\ pc' = [pc EXCEPT ![t] = s] /\ my' = [my EXCEPT ![t] = m]
    BY <1>1, <2>1, GoesBack
  <2> QED BY <1>0, <1>1, <1>4, <1>6, <2>1, <2>2, <2>3, StopOK
<1>8. CASE ~(t \in Callers /\ Home[t] = clients[k].loop)
  <2>1. /\ clients' = [clients EXCEPT ![k] = taken]
        /\ GoOn(t, "stopQueue") \/ (loop[clients[k].loop].state = "gone" /\ GoOn(t, my[t].back))
    BY <1>0, <1>3, <1>4, <1>8 DEF StopEnter, Whole
  <2> HIDE DEF taken
  <2>2. CASE GoOn(t, "stopQueue")
    <3>1. pc' = [pc EXCEPT ![t] = "stopQueue"] /\ my' = [my EXCEPT ![t] = my[t]]
      BY <2>2 DEF GoOn, Goto, IInv, Types
    <3>2. StopsTo(t, "stopQueue", my[t]) /\ "stopQueue" \in Busy
      BY DEF StopsTo, Busy, Stopping
    <3> QED BY <1>0, <1>1, <1>4, <1>5, <2>1, <3>1, <3>2, StopOK
  <2>3. CASE loop[clients[k].loop].state = "gone" /\ GoOn(t, my[t].back)
    <3>1. taken.watch = "none"
      BY <1>2, <1>4, <1>5, <2>3 DEF Side, Emptied
    <3>2. NoConnectTask(k)
      <4> SUFFICES ASSUME NEW l \in Loops, NEW i \in DOMAIN loop[l].tasks, ConnectTask(l, i, k)
                   PROVE  FALSE
        BY DEF NoConnectTask
      <4>1. l = clients[k].loop
        BY DEF ConnectTask, IInv, Owning, Tasks
      <4> QED BY <2>3, <4>1 DEF Side, Emptied
    <3>3. PICK s, m : /\ StopsTo(t, s, m) /\ s \notin Busy
                      /\ pc' = [pc EXCEPT ![t] = s] /\ my' = [my EXCEPT ![t] = m]
      BY <1>1, <2>3, GoesBack
    <3> QED BY <1>0, <1>1, <1>4, <1>5, <2>1, <3>1, <3>2, <3>3, StopOK
  <2> QED BY <2>1, <2>2, <2>3
<1> QED BY <1>7, <1>8

LEMMA StopWaitOK == ASSUME IInv, Side, NEW t \in Threads, StopWait(t) PROVE IInv'
<1>0. PICK k : k = my[t].client
  OBVIOUS
<1>1. pc[t] \in Stopping /\ UNCHANGED <<script, m_clients, m_shutdown, clients, loop>>
      /\ GoOn(t, my[t].back) /\ clients[k].destroyed
  BY <1>0 DEF StopWait, Stopping, poolVars
<1>2. k \in ClientIds /\ clients[k] \in ClientType
  BY <1>0, <1>1, StoppingFacts
<1>3. clients[k].watch = "none" /\ clients[k].m_stopped
  <2>1. clients[k].m_stopped
    BY <1>0 DEF StopWait, Side, Taken
  <2> QED BY <1>1, <1>2, <2>1 DEF IInv, Owning, LiveOwned
<1>4. NoConnectTask(k)
  BY <1>1 DEF NoConnectTask, ConnectTask, IInv, Owning, Tasks
<1>5. PICK s, m : /\ StopsTo(t, s, m) /\ s \notin Busy
                  /\ pc' = [pc EXCEPT ![t] = s] /\ my' = [my EXCEPT ![t] = m]
  BY <1>1, GoesBack
<1>6. clients' = [clients EXCEPT ![k] = clients[k]]
  BY <1>1, <1>2, ClientIdsAre DEF IInv, Types, ClientIds
<1>7. PICK e \in ClientType : e = clients[k]
  BY <1>2
<1>8. clients' = [clients EXCEPT ![k] = e]
  BY <1>6, <1>7
<1>9. /\ e.loop = clients[k].loop /\ e.done = clients[k].done
      /\ e.destroyed = clients[k].destroyed /\ e.watch \in {clients[k].watch, "none"}
      /\ e.watch = "none" /\ e.m_stopped
  BY <1>3, <1>7
<1>10. pc[t] \in Stopping /\ UNCHANGED <<script, m_clients, m_shutdown, loop>>
  BY <1>1
<1> QED BY <1>0, <1>4, <1>5, <1>8, <1>9, <1>10, StopOK

LEMMA StopQueueOK == ASSUME IInv, NEW t \in Threads, StopQueue(t) PROVE IInv'
<1>0. PICK k : k = my[t].client
  OBVIOUS
<1>1. pc[t] \in Stopping /\ UNCHANGED <<script, m_clients, m_shutdown, clients, my>>
      /\ pc' = [pc EXCEPT ![t] = "stopWait"]
      /\ QueueInLoop(clients[k].loop, Task("destroy", k))
  BY <1>0 DEF StopQueue, Stopping, poolVars, Goto
<1>2. k \in ClientIds /\ clients[k].loop \in Loops /\ k \in Nat /\ my[t] \in LocalsType
  BY <1>0, <1>1, StoppingFacts DEF LocalsType
<1>3. PICK task \in TaskType : task = Task("destroy", k)
  BY <1>2 DEF Task, TaskType
<1>4. task.client = k /\ task.kind = "destroy"
  BY <1>3 DEF Task
<1>5. PICK x \in Loops : x = clients[k].loop
  BY <1>2
<1>6. /\ loop' \in [Loops -> LoopType] /\ KeepCounts
      /\ \A l \in Loops : loop'[l].state = loop[l].state
      /\ \A l \in Loops \ {x} : loop'[l].tasks = loop[l].tasks
      /\ \A i \in DOMAIN loop[x].tasks :
           i \in DOMAIN loop'[x].tasks /\ loop'[x].tasks[i] = loop[x].tasks[i]
      /\ \A i \in DOMAIN loop'[x].tasks :
           \/ i \in DOMAIN loop[x].tasks
           \/ /\ loop'[x].tasks[i] = task
              /\ \A j \in DOMAIN loop'[x].tasks : j < i => j \in DOMAIN loop[x].tasks
      /\ \A i \in DOMAIN loop[x].tasks : \A j \in DOMAIN loop'[x].tasks :
           j < i => j \in DOMAIN loop[x].tasks
  BY <1>1, <1>3, <1>5, QueueChanges
<1>7. StopsTo(t, "stopWait", my[t]) /\ "stopWait" \in Busy
  BY DEF StopsTo, Busy, Stopping
<1>8. my' = [my EXCEPT ![t] = my[t]]
  BY <1>1 DEF IInv, Types
<1>9. KeepLoops /\ ClientIds' = ClientIds
  BY <1>1 DEF KeepLoops, ClientIds
<1>10. /\ "stopWait" \in Places /\ "stopWait" \notin {"insert", "uncount"}
       /\ pc[t] \notin {"insert", "uncount"}
  BY <1>1, <1>7, StopsToFacts
<1>11. Types'
  BY <1>1, <1>6, <1>10 DEF IInv, Types
<1>12. LocalsOK' /\ Phases'
  BY <1>1, <1>6, <1>7, <1>8, <1>9, StopsLocals
<1>13. Owning'
  <2>1. TasksGrow(k)
    <3> SUFFICES ASSUME NEW l \in Loops, NEW i \in DOMAIN loop'[l].tasks
                 PROVE  \/ /\ i \in DOMAIN loop[l].tasks /\ loop'[l].tasks[i] = loop[l].tasks[i]
                           /\ \A j \in DOMAIN loop'[l].tasks : j < i =>
                                j \in DOMAIN loop[l].tasks /\ loop'[l].tasks[j] = loop[l].tasks[j]
                        \/ /\ l = clients[k].loop /\ loop'[l].tasks[i].client = k
                           /\ loop'[l].tasks[i].kind = "destroy"
      BY DEF TasksGrow
    <3>1. CASE l # x
      BY <1>6, <3>1
    <3>2. CASE l = x
      BY <1>4, <1>5, <1>6, <3>2
    <3> QED BY <3>1, <3>2
  <2>2. TakenApart(k)
    BY <1>1, <1>9 DEF TakenApart
  <2> QED BY <1>0, <1>1, <1>7, <1>8, <2>1, <2>2, StopMoves
<1>14. LoadExact'
  <2>1. my[t].stale = my[t].stale
    OBVIOUS
  <2> QED BY <1>1, <1>2, <1>6, <1>8, <1>9, <1>10, MovesLoad
<1> QED BY <1>11, <1>12, <1>13, <1>14 DEF IInv

-----------------------------------------------------------------------------
(* The loops.                                                              *)

\* No thread moves and the pool stays.
ThreadsStay == UNCHANGED <<script, m_clients, m_shutdown, pc, my>>

LEMMA StayFacts ==
  ASSUME ThreadsStay
  PROVE  /\ \A t \in Threads : \A c : /\ Current(t, c)' <=> Current(t, c)
                                      /\ Later(t, c)' <=> Later(t, c)
                                      /\ Has(t, c)' <=> Has(t, c)
         /\ \A c : InPool(c)' <=> InPool(c)
         /\ \A c : IsCharged(c)' <=> IsCharged(c)
  BY DEF ThreadsStay, Current, Later, Has, InPool, Pooled, IsCharged, Paying

\* Loops may take their first task from their queue.
TasksShrink ==
    \E s \in [Loops -> {0, 1}] : \A l \in Loops : \A i \in DOMAIN loop'[l].tasks :
        /\ i \in Nat /\ i + s[l] \in DOMAIN loop[l].tasks /\ i + s[l] \in Nat
        /\ loop'[l].tasks[i] = loop[l].tasks[i + s[l]]

\* What a loop may do to client k: not what only its owner may.
Handled(k) ==
    /\ ClientIds' = ClientIds /\ clients' \in Seq(ClientType)
    /\ \A c \in ClientIds \ {k} : clients'[c] = clients[c]
    /\ clients'[k].loop = clients[k].loop
    /\ clients'[k].m_connection = clients[k].m_connection
    /\ clients'[k].m_stopped = clients[k].m_stopped
    /\ clients'[k].watch # "none" => ~clients'[k].destroyed
    /\ Live(k)' => InPool(k) \/ \E t \in Threads : Has(t, k)
    /\ \/ /\ clients'[k].done = clients[k].done /\ clients'[k].watch = clients[k].watch
          /\ clients'[k].destroyed = clients[k].destroyed
       \/ NoConnectTask(k)'

LEMMA LoopMoves ==
  ASSUME IInv, ThreadsStay, NEW k \in ClientIds, Handled(k),
         loop' \in [Loops -> LoopType], KeepCounts, TasksShrink,
         \A l \in Loops : loop'[l].state = loop[l].state
  PROVE  IInv'
<1>1. /\ \A t \in Threads : \A c : /\ Current(t, c)' <=> Current(t, c)
                                   /\ Later(t, c)' <=> Later(t, c)
                                   /\ Has(t, c)' <=> Has(t, c)
      /\ \A c : InPool(c)' <=> InPool(c)
      /\ \A c : IsCharged(c)' <=> IsCharged(c)
  BY StayFacts
<1>2. UNCHANGED <<script, m_clients, m_shutdown>> /\ UNCHANGED <<pc, my>>
  BY DEF ThreadsStay
<1>3. /\ ClientIds' = ClientIds /\ KeepLoops
      /\ \A c \in ClientIds : Whole(c)' <=> Whole(c)
  BY DEF Handled, KeepLoops, Whole
<1>4. Types'
  BY <1>2 DEF IInv, Types, Handled
<1>5. LocalsOK'
  <2>1. CloserOK'
    BY <1>2 DEF IInv, LocalsOK, CloserOK
  <2>2. ASSUME NEW q \in Callers PROVE CallerOK(q)'
    <3>1. pc[q] \in Making => clients'[my[q].client].loop = clients[my[q].client].loop
      BY <1>3, CallersAreThreads DEF IInv, Owning, Valid, KeepLoops, Busy
    <3> QED BY <1>2, <3>1 DEF IInv, LocalsOK, CallerOK
  <2> QED BY <2>1, <2>2 DEF LocalsOK
<1>6. Phases'
  <2>1. Group[1] \in Loops \/ Loops = {}
    BY GroupFacts
  <2>2. \A p \in Callers : Home[p] # None => Home[p] \in Loops
    BY GroupFacts
  <2> QED BY <1>2, <2>1, <2>2 DEF IInv, Phases
<1>7. Valid'
  BY <1>2, <1>3 DEF IInv, Owning, Valid
<1>8. OneOwner'
  <2>1. \A a, b \in Addrs : \A i \in DOMAIN m_clients'[a], j \in DOMAIN m_clients'[b] :
          m_clients'[a][i] = m_clients'[b][j] => a = b /\ i = j
    BY <1>2 DEF IInv, Owning, OneOwner
  <2>2. \A t \in Threads : \A i, j \in DOMAIN my'[t].stale :
          my'[t].stale[i] = my'[t].stale[j] => i = j
    BY <1>2 DEF IInv, Owning, OneOwner
  <2> QED BY <1>1, <1>3, <2>1, <2>2 DEF IInv, Owning, OneOwner
<1>9. OwnedWhole'
  BY <1>1, <1>2, <1>3 DEF IInv, Owning, OwnedWhole
<1>10. Tasks'
  <2>1. PICK s \in [Loops -> {0, 1}] : \A l \in Loops : \A i \in DOMAIN loop'[l].tasks :
          /\ i \in Nat /\ i + s[l] \in DOMAIN loop[l].tasks /\ i + s[l] \in Nat
          /\ loop'[l].tasks[i] = loop[l].tasks[i + s[l]]
    BY DEF TasksShrink
  <2> SUFFICES ASSUME NEW l \in Loops, NEW i \in DOMAIN loop'[l].tasks,
                      NEW c, c = loop'[l].tasks[i].client
               PROVE  /\ c \in ClientIds' /\ clients'[c].loop = l
                      /\ loop'[l].tasks[i].kind # "destroy" =>
                           /\ ~clients'[c].done /\ clients'[c].watch = "none"
                           /\ ~clients'[c].destroyed
                           /\ \E q \in Callers : Maker(q, c)'
                           /\ \A j \in DOMAIN loop'[l].tasks :
                                j < i => loop'[l].tasks[j].client # c
    BY DEF Tasks
  <2>2. /\ i \in Nat /\ i + s[l] \in DOMAIN loop[l].tasks /\ s[l] \in {0, 1}
        /\ loop'[l].tasks[i] = loop[l].tasks[i + s[l]]
    BY <2>1
  <2>3. c \in ClientIds /\ clients[c].loop = l
    BY <2>2 DEF IInv, Owning, Tasks
  <2>4. clients'[c].loop = l
    BY <1>3, <2>3 DEF KeepLoops
  <2>5. ASSUME loop'[l].tasks[i].kind # "destroy"
        PROVE  /\ ~clients'[c].done /\ clients'[c].watch = "none"
               /\ ~clients'[c].destroyed
               /\ \E q \in Callers : Maker(q, c)'
               /\ \A j \in DOMAIN loop'[l].tasks : j < i => loop'[l].tasks[j].client # c
    <3>0. PICK x \in DOMAIN loop[l].tasks : x = i + s[l]
      BY <2>2
    <3>1. /\ ~clients[c].done /\ clients[c].watch = "none" /\ ~clients[c].destroyed
          /\ \E q \in Callers : Maker(q, c)
          /\ \A j \in DOMAIN loop[l].tasks : j < x => loop[l].tasks[j].client # c
      <4>1. c = loop[l].tasks[x].client /\ loop[l].tasks[x].kind # "destroy"
        BY <2>2, <2>5, <3>0
      <4> QED BY <4>1, TaskFacts
    <3>2. PICK q \in Callers : Maker(q, c)
      BY <3>1
    <3>3. Maker(q, c)'
      BY <1>2, <2>3, <2>4, <3>2 DEF Maker
    <3>4. ~clients'[c].done /\ clients'[c].watch = "none" /\ ~clients'[c].destroyed
      <4>1. c = k => ~NoConnectTask(k)'
        BY <2>5 DEF NoConnectTask, ConnectTask
      <4> QED BY <2>3, <3>1, <4>1 DEF Handled
    <3>5. ASSUME NEW j \in DOMAIN loop'[l].tasks, j < i PROVE loop'[l].tasks[j].client # c
      <4>1. /\ j \in Nat /\ j + s[l] \in DOMAIN loop[l].tasks
            /\ loop'[l].tasks[j] = loop[l].tasks[j + s[l]]
        BY <2>1
      <4>2. j + s[l] < x
        BY <2>2, <3>0, <3>5, <4>1
      <4> QED BY <3>1, <4>1, <4>2
    <3> QED BY <3>3, <3>4, <3>5
  <2> QED BY <1>3, <2>3, <2>4, <2>5
<1>11. LiveOwned'
  <2>1. \A c \in ClientIds : clients'[c].watch # "none" => ~clients'[c].destroyed
    BY DEF Handled, IInv, Owning, LiveOwned
  <2>2. ASSUME NEW c \in ClientIds, Live(c)'
        PROVE  InPool(c)' \/ \E u \in Threads : Has(u, c)'
    <3>1. CASE c = k
      BY <1>1, <2>2, <3>1 DEF Handled
    <3>2. CASE c # k
      <4>1. Live(c)
        BY <2>2, <3>2 DEF Handled, Live
      <4> QED BY <1>1, <4>1 DEF IInv, Owning, LiveOwned
    <3> QED BY <3>1, <3>2
  <2> QED BY <1>3, <2>1, <2>2 DEF LiveOwned
<1>12. LoadExact'
  BY <1>1, <1>3, LoadSame
<1>13. Owning'
  BY <1>7, <1>8, <1>9, <1>10, <1>11 DEF Owning
<1> QED BY <1>4, <1>5, <1>6, <1>12, <1>13 DEF IInv

(* A loop that only works on a client.                                     *)
LEMMA LoopHandles ==
  ASSUME IInv, ThreadsStay, UNCHANGED loop, NEW k \in ClientIds,
         NEW e \in ClientType, clients' = [clients EXCEPT ![k] = e],
         e.loop = clients[k].loop, e.m_connection = clients[k].m_connection,
         e.m_stopped = clients[k].m_stopped, e.destroyed = clients[k].destroyed,
         e.watch # "none" => clients[k].watch # "none",
         (e.watch = clients[k].watch /\ e.done = clients[k].done) \/ clients[k].watch # "none"
  PROVE  IInv'
<1>1. /\ clients' \in Seq(ClientType) /\ ClientIds' = ClientIds /\ clients'[k] = e
      /\ \A c \in ClientIds \ {k} : clients'[c] = clients[c]
  BY ClientSet
<1>2. clients[k].watch # "none" => NoConnectTask(k)'
  BY DEF NoConnectTask, ConnectTask, IInv, Owning, Tasks
<1>3. /\ clients[k].watch # "none" => ~clients[k].destroyed
      /\ Live(k) => InPool(k) \/ \E t \in Threads : Has(t, k)
  BY DEF IInv, Owning, LiveOwned
<1>4. Handled(k)
  <2>1. Live(k)' => Live(k)
    BY <1>1 DEF Live
  <2> QED BY <1>1, <1>2, <1>3, <2>1 DEF Handled
<1>5. TasksShrink
  <2> DEFINE z == [l \in Loops |-> 0]
  <2>1. z \in [Loops -> {0, 1}]
    OBVIOUS
  <2>2. ASSUME NEW l \in Loops, NEW i \in DOMAIN loop'[l].tasks
        PROVE  /\ i \in Nat /\ i + z[l] \in DOMAIN loop[l].tasks /\ i + z[l] \in Nat
               /\ loop'[l].tasks[i] = loop[l].tasks[i + z[l]]
    <3>1. PICK r \in LoopType : r = loop[l]
      BY DEF IInv, Types
    <3>2. PICK q \in Seq(TaskType) : q = r.tasks
      BY DEF LoopType
    <3>3. \A j \in DOMAIN q : j \in Nat /\ j + 0 = j
      OBVIOUS
    <3>4. i \in DOMAIN q /\ loop'[l].tasks = q /\ loop[l].tasks = q /\ z[l] = 0
      BY <3>1, <3>2
    <3> HIDE DEF z
    <3> QED BY <3>3, <3>4
  <2> HIDE DEF z
  <2> QED BY <2>1, <2>2 DEF TasksShrink
<1>6. KeepCounts /\ loop' \in [Loops -> LoopType] /\ \A l \in Loops : loop'[l].state = loop[l].state
  BY DEF KeepCounts, IInv, Types
<1> QED BY <1>4, <1>5, <1>6, LoopMoves

LEMMA ConnectFinishOK ==
  ASSUME IInv, NEW c \in ClientIds, ConnectFinish(c) PROVE IInv'
<1>1. PICK r \in ClientType : r = clients[c]
  BY ClientAt
<1> DEFINE up == [r EXCEPT !.m_state = "Connected", !.watch = "read",
                           !.done = TRUE, !.error = "none"]
           down == [r EXCEPT !.m_state = "Closed", !.watch = "none",
                             !.done = TRUE, !.error = "failed"]
<1>2. /\ up \in ClientType /\ up.loop = r.loop /\ up.m_connection = r.m_connection
      /\ up.m_stopped = r.m_stopped /\ up.destroyed = r.destroyed
  BY DEF ClientType
<1>3. /\ down \in ClientType /\ down.loop = r.loop /\ down.m_connection = r.m_connection
      /\ down.m_stopped = r.m_stopped /\ down.destroyed = r.destroyed
  BY DEF ClientType
<1>4. ThreadsStay /\ UNCHANGED loop /\ clients[c].watch # "none"
  BY DEF ConnectFinish, ThreadsStay, poolVars
<1>5. PICK e \in {up, down} : clients' = [clients EXCEPT ![c] = e]
  <2>1. clients' = [clients EXCEPT ![c] = IF r.socket = "up" THEN up ELSE down]
    BY <1>1 DEF ConnectFinish, Established, Destroyed, ClientType
  <2> QED BY <2>1
<1> HIDE DEF up, down
<1> QED BY <1>1, <1>2, <1>3, <1>4, <1>5, LoopHandles

LEMMA HandleCloseOK ==
  ASSUME IInv, NEW c \in ClientIds, HandleClose(c) PROVE IInv'
<1>1. PICK r \in ClientType : r = clients[c]
  BY ClientAt
<1> DEFINE e == [r EXCEPT !.m_state = "Closed", !.watch = "none"]
<1>2. /\ e \in ClientType /\ e.loop = r.loop /\ e.m_connection = r.m_connection
      /\ e.m_stopped = r.m_stopped /\ e.destroyed = r.destroyed /\ e.watch = "none"
  BY DEF ClientType
<1>3. ThreadsStay /\ UNCHANGED loop /\ clients[c].watch # "none"
  BY DEF HandleClose, ThreadsStay, poolVars
<1>4. clients' = [clients EXCEPT ![c] = e]
  BY <1>1 DEF HandleClose, Destroyed
<1> HIDE DEF e
<1> QED BY <1>1, <1>2, <1>3, <1>4, LoopHandles

LEMMA PeerOK ==
  ASSUME IInv, NEW c \in ClientIds, NEW answer \in {"up", "refused", "closed"}, Peer(c, answer)
  PROVE  IInv'
<1>1. PICK r \in ClientType : r = clients[c]
  BY ClientAt
<1> DEFINE e == [r EXCEPT !.socket = answer]
<1>2. /\ e \in ClientType /\ e.loop = r.loop /\ e.m_connection = r.m_connection
      /\ e.m_stopped = r.m_stopped /\ e.destroyed = r.destroyed /\ e.watch = r.watch
      /\ e.done = r.done
  BY DEF ClientType
<1>3. ThreadsStay /\ UNCHANGED loop
  BY DEF Peer, ThreadsStay, poolVars
<1>4. clients' = [clients EXCEPT ![c] = e]
  BY <1>1 DEF Peer
<1> HIDE DEF e
<1> QED BY <1>1, <1>2, <1>3, <1>4, LoopHandles

LEMMA RunTaskOK == ASSUME IInv, NEW l \in Loops, RunTask(l) PROVE IInv'
<1>1. PICK x \in LoopType : x = loop[l]
  BY DEF IInv, Types
<1>2. PICK q \in Seq(TaskType) : q = x.tasks
  BY DEF LoopType
<1>3. PICK w : w = Tail(q)
  OBVIOUS
<1>4. /\ q # <<>> /\ 1 \in DOMAIN q /\ Head(q) = q[1] /\ Head(q) \in TaskType
      /\ w \in Seq(TaskType)
      /\ \A i \in DOMAIN w : i \in Nat /\ i + 1 \in DOMAIN q /\ i + 1 \in Nat /\ 1 < i + 1
                             /\ w[i] = q[i + 1]
  <2>1. q # <<>>
    BY <1>1, <1>2 DEF RunTask
  <2>2. /\ Len(q) \in Nat \ {0} /\ DOMAIN q = 1..Len(q) /\ Head(q) = q[1]
        /\ Tail(q) \in Seq(TaskType) /\ DOMAIN Tail(q) = 1..(Len(q) - 1)
        /\ \A i \in 1..(Len(q) - 1) : Tail(q)[i] = q[i + 1]
    BY <2>1
  <2> QED BY <1>3, <2>1, <2>2
<1>5. PICK task \in TaskType : task = Head(q) /\ task = q[1]
  BY <1>4
<1>6. PICK k : k = task.client
  OBVIOUS
<1> DEFINE y == [x EXCEPT !.tasks = w]
<1>7. y \in LoopType /\ y.tasks = w /\ y.state = x.state
      /\ y.m_connection_count = x.m_connection_count
  BY <1>4 DEF LoopType
<1>8. loop' = [loop EXCEPT ![l] = y]
  BY <1>1, <1>2, <1>3 DEF RunTask
<1> HIDE DEF y
<1>9. /\ loop' \in [Loops -> LoopType] /\ loop'[l].tasks = w /\ loop[l].tasks = q
      /\ loop'[l] = y /\ \A z \in Loops \ {l} : loop'[z] = loop[z]
  BY <1>1, <1>2, <1>7, <1>8 DEF IInv, Types
<1>10. ThreadsStay
  BY DEF RunTask, ThreadsStay, poolVars
<1>11. KeepCounts /\ \A z \in Loops : loop'[z].state = loop[z].state
  BY <1>1, <1>7, <1>9 DEF KeepCounts
<1>12. /\ k \in ClientIds /\ clients[k].loop = l
       /\ task.kind # "destroy" =>
            /\ ~clients[k].done /\ clients[k].watch = "none" /\ ~clients[k].destroyed
            /\ \E p \in Callers : Maker(p, k)
  BY <1>4, <1>5, <1>6, <1>9 DEF IInv, Owning, Tasks
<1>13. NoConnectTask(k)'
  <2> SUFFICES ASSUME NEW z \in Loops, NEW i \in DOMAIN loop'[z].tasks,
                      loop'[z].tasks[i].client = k, loop'[z].tasks[i].kind # "destroy"
               PROVE  FALSE
    BY DEF NoConnectTask, ConnectTask
  <2>1. CASE z # l
    <3>1. loop'[z] = loop[z]
      BY <1>9, <2>1
    <3> QED BY <1>12, <2>1, <3>1 DEF IInv, Owning, Tasks
  <2>2. CASE z = l
    <3>1. i + 1 \in DOMAIN q /\ 1 < i + 1 /\ q[i + 1].client = k /\ q[i + 1].kind # "destroy"
      BY <1>4, <1>9, <2>2
    <3>2. q[1].client # k
      BY <1>4, <1>9, <3>1 DEF IInv, Owning, Tasks
    <3> QED BY <1>5, <1>6, <3>2
  <2> QED BY <2>1, <2>2
<1>14. TasksShrink
  <2> DEFINE s == [z \in Loops |-> IF z = l THEN 1 ELSE 0]
  <2>1. s \in [Loops -> {0, 1}] /\ s[l] = 1 /\ \A z \in Loops \ {l} : s[z] = 0
    OBVIOUS
  <2> HIDE DEF s
  <2>2. ASSUME NEW z \in Loops, NEW i \in DOMAIN loop'[z].tasks
        PROVE  /\ i \in Nat /\ i + s[z] \in DOMAIN loop[z].tasks /\ i + s[z] \in Nat
               /\ loop'[z].tasks[i] = loop[z].tasks[i + s[z]]
    <3>1. CASE z = l
      BY <1>4, <1>9, <2>1, <2>2, <3>1
    <3>2. CASE z # l
      <4>1. PICK r \in LoopType : r = loop[z]
        BY DEF IInv, Types
      <4>2. PICK v \in Seq(TaskType) : v = r.tasks
        BY DEF LoopType
      <4>3. \A j \in DOMAIN v : j \in Nat /\ j + 0 = j
        OBVIOUS
      <4>4. i \in DOMAIN v /\ loop'[z].tasks = v /\ loop[z].tasks = v /\ s[z] = 0
        BY <1>9, <2>1, <3>2, <4>1, <4>2
      <4> QED BY <4>3, <4>4
    <3> QED BY <3>1, <3>2
  <2> QED BY <2>1, <2>2 DEF TasksShrink
<1>15. PICK r \in ClientType : r = clients[k]
  BY <1>12, ClientAt
<1>16. PICK e \in ClientType :
         /\ clients' = [clients EXCEPT ![k] = e]
         /\ e.loop = r.loop /\ e.m_connection = r.m_connection /\ e.m_stopped = r.m_stopped
         /\ e.watch # "none" => task.kind # "destroy" /\ ~e.destroyed
  <2>0. clients' = [clients EXCEPT ![k] = AfterTask(task.kind, r)]
    BY <1>1, <1>2, <1>5, <1>6, <1>15 DEF RunTask
  <2>1. CASE task.kind = "destroy"
    <3> DEFINE e == [r EXCEPT !.m_state = "Closed", !.watch = "none", !.destroyed = TRUE]
    <3>1. /\ e \in ClientType /\ e.loop = r.loop /\ e.m_connection = r.m_connection
          /\ e.m_stopped = r.m_stopped /\ e.watch = "none"
      BY DEF ClientType
    <3>2. AfterTask("destroy", r) = e
      BY DEF AfterTask, Destroyed
    <3> HIDE DEF e
    <3> QED BY <2>0, <2>1, <3>1, <3>2
  <2>2. CASE task.kind # "destroy"
    <3>0. r.watch = "none" /\ ~r.destroyed
      BY <1>12, <1>15, <2>2
    <3>1. ASSUME NEW e \in {Established(r), [r EXCEPT !.done = TRUE, !.error = "none"],
                            [r EXCEPT !.watch = "connect"],
                            [r EXCEPT !.done = TRUE, !.error = "failed"]}
          PROVE  /\ e \in ClientType /\ e.loop = r.loop /\ e.m_connection = r.m_connection
                 /\ e.m_stopped = r.m_stopped /\ ~e.destroyed
      BY <3>0 DEF ClientType, Established
    <3>2. AfterTask(task.kind, r) \in
            {Established(r), [r EXCEPT !.done = TRUE, !.error = "none"],
             [r EXCEPT !.watch = "connect"], [r EXCEPT !.done = TRUE, !.error = "failed"]}
      <4>1. task.kind \in {"now", "progress"}
        BY <2>2 DEF TaskType
      <4>2. CASE task.kind = "now"
        BY <4>2 DEF AfterTask
      <4>3. CASE task.kind = "progress"
        BY <4>3 DEF AfterTask
      <4> QED BY <4>1, <4>2, <4>3
    <3>3. PICK e : e = AfterTask(task.kind, r)
      OBVIOUS
    <3> QED BY <2>0, <2>2, <3>1, <3>2, <3>3
  <2> QED BY <2>1, <2>2
<1>17. Handled(k)
  <2>1. /\ clients' \in Seq(ClientType) /\ ClientIds' = ClientIds /\ clients'[k] = e
        /\ \A c \in ClientIds \ {k} : clients'[c] = clients[c]
    BY <1>12, <1>16, ClientSet
  <2>2. task.kind # "destroy" => \E t \in Threads : Has(t, k)
    <3>1. \A p \in Callers : Maker(p, k) => p \in Threads /\ Has(p, k)
      BY CallersAreThreads DEF Maker, Has, Current, Busy, Making
    <3> QED BY <1>12, <3>1
  <2>3. Live(k)' => InPool(k) \/ \E t \in Threads : Has(t, k)
    <3>1. Live(k) => InPool(k) \/ \E t \in Threads : Has(t, k)
      BY <1>12 DEF IInv, Owning, LiveOwned
    <3>2. Live(k)' => task.kind # "destroy" \/ Live(k)
      BY <1>15, <1>16, <2>1 DEF Live
    <3> QED BY <2>2, <3>1, <3>2
  <2> QED BY <1>13, <1>15, <1>16, <2>1, <2>3 DEF Handled
<1> QED BY <1>9, <1>10, <1>11, <1>12, <1>14, <1>17, LoopMoves

(* A loop that stops or leaves.                                            *)
Unwatched ==
    /\ ClientIds' = ClientIds /\ clients' \in Seq(ClientType)
    /\ \A c \in ClientIds :
          /\ clients'[c].loop = clients[c].loop
          /\ clients'[c].m_connection = clients[c].m_connection
          /\ clients'[c].m_stopped = clients[c].m_stopped
          /\ clients'[c].done = clients[c].done
          /\ clients'[c].destroyed = clients[c].destroyed
          /\ clients'[c].watch \in {clients[c].watch, "none"}

LEMMA SameClients == ASSUME IInv, UNCHANGED clients PROVE Unwatched
  BY DEF Unwatched, IInv, Types, ClientIds

LEMMA LoopEnds ==
  ASSUME IInv, ThreadsStay, Unwatched,
         loop' \in [Loops -> LoopType], KeepCounts,
         \A l \in Loops : loop'[l].tasks \in {loop[l].tasks, <<>>},
         Phases'
  PROVE  IInv'
<1>2. UNCHANGED <<script, m_clients, m_shutdown, pc, my>>
  BY DEF ThreadsStay
<1>3. /\ \A t \in Threads : \A c : /\ Current(t, c)' <=> Current(t, c)
                                   /\ Later(t, c)' <=> Later(t, c)
                                   /\ Has(t, c)' <=> Has(t, c)
      /\ \A c : InPool(c)' <=> InPool(c)
      /\ \A c : IsCharged(c)' <=> IsCharged(c)
  BY StayFacts
<1>8. KeepLoops /\ ClientIds' = ClientIds
  BY DEF KeepLoops, Unwatched
<1>9. Types'
  BY <1>2 DEF IInv, Types, Unwatched
<1>10. LocalsOK'
  <2>1. CloserOK'
    BY <1>2 DEF IInv, LocalsOK, CloserOK
  <2>2. ASSUME NEW q \in Callers PROVE CallerOK(q)'
    <3>1. pc[q] \in Making => clients'[my[q].client].loop = clients[my[q].client].loop
      BY <1>8, CallersAreThreads DEF IInv, Owning, Valid, KeepLoops, Busy
    <3> QED BY <1>2, <3>1 DEF IInv, LocalsOK, CallerOK
  <2> QED BY <2>1, <2>2 DEF LocalsOK
<1>12. Valid'
  BY <1>2, <1>8 DEF IInv, Owning, Valid
<1>13. OneOwner'
  <2>1. \A a, b \in Addrs : \A i \in DOMAIN m_clients'[a], j \in DOMAIN m_clients'[b] :
          m_clients'[a][i] = m_clients'[b][j] => a = b /\ i = j
    BY <1>2 DEF IInv, Owning, OneOwner
  <2>2. \A t \in Threads : \A i, j \in DOMAIN my'[t].stale :
          my'[t].stale[i] = my'[t].stale[j] => i = j
    BY <1>2 DEF IInv, Owning, OneOwner
  <2> QED BY <1>3, <1>8, <2>1, <2>2 DEF IInv, Owning, OneOwner
<1>14. OwnedWhole'
  <2>1. \A c \in ClientIds : Whole(c)' <=> Whole(c)
    BY DEF Unwatched, Whole
  <2> QED BY <1>2, <1>3, <1>8, <2>1 DEF IInv, Owning, OwnedWhole
<1>15. Tasks'
  <2>1. ASSUME NEW z \in Loops, NEW i \in DOMAIN loop'[z].tasks
        PROVE  loop'[z].tasks = loop[z].tasks
    <3>1. CASE loop'[z].tasks = <<>>
      BY <2>1, <3>1
    <3> QED BY <3>1
  <2>2. \A q \in Callers : \A c \in ClientIds : Maker(q, c)' <=> Maker(q, c)
    BY <1>2 DEF Maker, Unwatched
  <2> SUFFICES ASSUME NEW z \in Loops, NEW i \in DOMAIN loop'[z].tasks,
                      NEW c, c = loop'[z].tasks[i].client
               PROVE  /\ c \in ClientIds' /\ clients'[c].loop = z
                      /\ loop'[z].tasks[i].kind # "destroy" =>
                           /\ ~clients'[c].done /\ clients'[c].watch = "none"
                           /\ ~clients'[c].destroyed
                           /\ \E q \in Callers : Maker(q, c)'
                           /\ \A j \in DOMAIN loop'[z].tasks :
                                j < i => loop'[z].tasks[j].client # c
    BY DEF Tasks
  <2>3. loop'[z].tasks = loop[z].tasks
    BY <2>1
  <2>4. /\ c \in ClientIds /\ clients[c].loop = z
        /\ loop[z].tasks[i].kind # "destroy" =>
             /\ ~clients[c].done /\ clients[c].watch = "none" /\ ~clients[c].destroyed
             /\ \E q \in Callers : Maker(q, c)
             /\ \A j \in DOMAIN loop[z].tasks : j < i => loop[z].tasks[j].client # c
    BY <2>3, TaskFacts
  <2> QED BY <2>2, <2>3, <2>4 DEF Unwatched
<1>16. LiveOwned'
  <2>1. \A c \in ClientIds : Live(c)' => Live(c)
    BY DEF Unwatched, Live
  <2>2. \A c \in ClientIds : clients'[c].watch # "none" => ~clients'[c].destroyed
    BY DEF Unwatched, IInv, Owning, LiveOwned
  <2> QED BY <1>3, <1>8, <2>1, <2>2 DEF IInv, Owning, LiveOwned
<1>17. LoadExact'
  BY <1>3, <1>8, LoadSame
<1>18. Owning'
  BY <1>12, <1>13, <1>14, <1>15, <1>16 DEF Owning
<1> QED BY <1>9, <1>10, <1>17, <1>18 DEF IInv

(* What LoopLeaves does to the clients.                                    *)
LEMMA LeavesClients ==
  ASSUME IInv, NEW l \in Loops, LoopLeaves(l)
  PROVE  /\ Unwatched
         /\ \A c \in ClientIds : clients[c].loop = l => clients'[c].watch = "none"
<1>1. ClientIds = 1..Len(clients) /\ Len(clients) \in Nat
  BY ClientIdsAre DEF IInv, Types
<1>2. clients' = [c \in ClientIds |->
         [clients[c] EXCEPT !.watch = IF clients[c].loop = l THEN "none" ELSE @]]
  BY DEF LoopLeaves
<1>3. ASSUME NEW c \in ClientIds
      PROVE  /\ clients'[c] \in ClientType
             /\ clients'[c].loop = clients[c].loop
             /\ clients'[c].m_connection = clients[c].m_connection
             /\ clients'[c].m_stopped = clients[c].m_stopped
             /\ clients'[c].done = clients[c].done
             /\ clients'[c].destroyed = clients[c].destroyed
             /\ clients'[c].watch \in {clients[c].watch, "none"}
             /\ clients[c].loop = l => clients'[c].watch = "none"
  <2>1. PICK r \in ClientType : r = clients[c]
    BY ClientAt
  <2>2. clients'[c] = [r EXCEPT !.watch = IF r.loop = l THEN "none" ELSE r.watch]
    BY <1>2, <2>1
  <2> QED BY <2>1, <2>2 DEF ClientType
<1>4. DOMAIN clients' = 1..Len(clients)
  BY <1>1, <1>2
<1>5. clients' \in [1..Len(clients) -> ClientType]
  BY <1>1, <1>2, <1>3, <1>4
<1>6. clients' \in Seq(ClientType)
  BY <1>1, <1>5
<1>7. ClientIds' = ClientIds
  BY <1>1, <1>4 DEF ClientIds
<1> QED BY <1>3, <1>6, <1>7 DEF Unwatched

LEMMA LoopLeavesOK == ASSUME IInv, NEW l \in Loops, LoopLeaves(l) PROVE IInv'
<1>1. ThreadsStay /\ loop[l].state = "stopping" /\ LoopFree(l)
  BY DEF LoopLeaves, ThreadsStay, poolVars
<1>2. UNCHANGED <<script, m_clients, m_shutdown, pc, my>>
  BY <1>1 DEF ThreadsStay
<1>3. Unwatched
  BY LeavesClients
<1>4. PICK x \in LoopType : x = loop[l]
  BY DEF IInv, Types
<1> DEFINE y == [x EXCEPT !.state = "gone", !.tasks = <<>>]
<1>5. y \in LoopType /\ y.tasks = <<>> /\ y.state = "gone"
      /\ y.m_connection_count = x.m_connection_count
  <2>1. PICK w \in Seq(TaskType) : w = <<>>
    BY EmptySeq
  <2>2. [x EXCEPT !.state = "gone", !.tasks = w] \in LoopType
    BY DEF LoopType
  <2> QED BY <2>1, <2>2 DEF LoopType
<1>6. loop' = [loop EXCEPT ![l] = y]
  BY <1>4 DEF LoopLeaves
<1> HIDE DEF y
<1>7. /\ loop' \in [Loops -> LoopType] /\ loop'[l].tasks = <<>> /\ loop'[l].state = "gone"
      /\ loop'[l].m_connection_count = loop[l].m_connection_count
      /\ \A z \in Loops \ {l} : loop'[z] = loop[z]
  BY <1>4, <1>5, <1>6 DEF IInv, Types
<1>8. KeepCounts
  BY <1>7 DEF KeepCounts
<1>11. Phases'
  <2>1. ASSUME NEW z \in Loops, loop'[z].state # "looping"
        PROVE  /\ pc'[Closer] \in {"clients", "closed"} /\ my'[Closer].stale = <<>>
               /\ z # Group[1] => loop'[Group[1]].state = "gone"
    <3>1. loop[z].state # "looping"
      BY <1>1, <1>7, <2>1
    <3>2. Group[1] \in Loops
      BY GroupFacts
    <3>3. z # Group[1] => loop[Group[1]].state = "gone"
      BY <3>1 DEF IInv, Phases
    <3>4. z # Group[1] => loop'[Group[1]].state = "gone"
      BY <1>7, <3>2, <3>3
    <3> QED BY <1>2, <3>1, <3>4 DEF IInv, Phases
  <2>2. ASSUME NEW p \in Callers, Home[p] # None, loop'[Home[p]].state = "gone"
        PROVE  pc'[p] = "idle"
    <3>1. CASE Home[p] = l
      BY <1>1, <1>2, <3>1 DEF LoopFree, Occupied
    <3>2. CASE Home[p] # l
      <4>1. Home[p] \in Loops
        BY <2>2, GroupFacts
      <4> QED BY <1>2, <1>7, <2>2, <3>2, <4>1 DEF IInv, Phases
    <3> QED BY <3>1, <3>2
  <2> QED BY <1>2, <2>1, <2>2 DEF IInv, Phases
<1>12. \A z \in Loops : loop'[z].tasks \in {loop[z].tasks, <<>>}
  BY <1>7
<1> QED BY <1>1, <1>3, <1>7, <1>8, <1>11, <1>12, LoopEnds

-----------------------------------------------------------------------------
(* shutdown.                                                               *)

(* The closer takes what is in the pool.                                   *)
LEMMA CloserTakes ==
  ASSUME IInv, pc[Closer] \in {"idle", "clients"},
         NEW s \in {"clients", "closed"}, NEW m \in LocalsType,
         pc' = [pc EXCEPT ![Closer] = s], my' = [my EXCEPT ![Closer] = m],
         m_shutdown' = TRUE, UNCHANGED <<script, clients, loop>>,
         m_clients' \in [Addrs -> Seq(Nat)],
         \A a \in Addrs : m_clients'[a] \in {m_clients[a], <<>>},
         \A c : (\E i \in DOMAIN m.stale : m.stale[i] = c) <=> InPool(c) \/ Later(Closer, c),
         \A i, j \in DOMAIN m.stale : m.stale[i] = m.stale[j] => i = j,
         LocalsOK' /\ Phases'
  PROVE  IInv'
<1>1. /\ Closer \in Threads /\ s \in Places /\ s \notin Busy /\ pc[Closer] \notin Busy
      /\ "insert" \in Busy /\ "uncount" \in Busy
  BY DEF Threads, Places, Busy, Making, Stopping
<1>2. pc'[Closer] = s /\ my'[Closer] = m
      /\ \A u \in Threads \ {Closer} : pc'[u] = pc[u] /\ my'[u] = my[u]
  BY <1>1 DEF IInv, Types
<1>3. ClientIds' = ClientIds /\ KeepLoops /\ KeepCounts
  BY KeepAll
<1>4. \A c : ~Current(Closer, c) /\ ~Current(Closer, c)'
             /\ (Later(Closer, c)' <=> InPool(c) \/ Later(Closer, c))
  <2>1. \A c : ~Current(Closer, c) /\ ~Current(Closer, c)'
    BY <1>1, <1>2 DEF Current
  <2>2. \A c : Later(Closer, c)' <=> \E i \in DOMAIN m.stale : m.stale[i] = c
    BY <1>2 DEF Later
  <2>3. \A c : (\E i \in DOMAIN m.stale : m.stale[i] = c) <=> InPool(c) \/ Later(Closer, c)
    OBVIOUS
  <2> QED BY <2>1, <2>2, <2>3
<1>5. \A u \in Threads \ {Closer} : \A c :
        /\ Current(u, c)' <=> Current(u, c)
        /\ Later(u, c)' <=> Later(u, c)
        /\ Has(u, c)' <=> Has(u, c)
  BY <1>2 DEF Current, Later, Has
<1>6. \A c : Has(Closer, c)' <=> InPool(c) \/ Has(Closer, c)
  BY <1>4 DEF Has
<1>7. \A c : ~InPool(c)'
  BY DEF InPool
<1>8. \A c : InPool(c) \/ (\E u \in Threads : Has(u, c)) => c \in ClientIds
  BY DEF InPool, Pooled, Has, Current, Later, IInv, Owning, Valid
<1>9. \A a \in Addrs : \A i \in DOMAIN m_clients'[a] : m_clients'[a] = m_clients[a]
  <2> SUFFICES ASSUME NEW a \in Addrs, NEW i \in DOMAIN m_clients'[a]
               PROVE  m_clients'[a] = m_clients[a]
    OBVIOUS
  <2>1. CASE m_clients'[a] = <<>>
    BY <2>1
  <2> QED BY <2>1
<1>10. Types'
  BY <1>1 DEF IInv, Types
<1>11. Valid'
  <2>1. \A a \in Addrs : \A i \in DOMAIN m_clients'[a] : m_clients'[a][i] \in ClientIds
    BY <1>9 DEF IInv, Owning, Valid
  <2>2. \A u \in Threads : pc'[u] \in Busy => my'[u].client \in ClientIds
    BY <1>1, <1>2 DEF IInv, Owning, Valid
  <2>3. \A u \in Threads : \A i \in DOMAIN my'[u].stale : my'[u].stale[i] \in ClientIds
    <3>1. \A i \in DOMAIN m.stale : m.stale[i] \in ClientIds
      BY <1>1, <1>8 DEF Has
    <3> QED BY <1>2, <3>1 DEF IInv, Owning, Valid
  <2> QED BY <1>3, <2>1, <2>2, <2>3 DEF Valid
<1>12. OneOwner'
  <2>1. ASSUME NEW a \in Addrs, NEW b \in Addrs, NEW i \in DOMAIN m_clients'[a],
               NEW j \in DOMAIN m_clients'[b], m_clients'[a][i] = m_clients'[b][j]
        PROVE  a = b /\ i = j
    <3>1. m_clients'[a] = m_clients[a] /\ m_clients'[b] = m_clients[b]
      BY <1>9, <2>1
    <3> QED BY <2>1, <3>1 DEF IInv, Owning, OneOwner
  <2>2. \A u \in Threads : \A i, j \in DOMAIN my'[u].stale :
          my'[u].stale[i] = my'[u].stale[j] => i = j
    BY <1>2 DEF IInv, Owning, OneOwner
  <2>3. \A u \in Threads, c \in ClientIds : Current(u, c)' => ~Later(u, c)'
    BY <1>4, <1>5 DEF IInv, Owning, OneOwner
  <2>4. \A u, v \in Threads, c \in ClientIds : Has(u, c)' /\ Has(v, c)' => u = v
    BY <1>1, <1>5, <1>6 DEF IInv, Owning, OneOwner
  <2>5. \A u \in Threads, c \in ClientIds : Has(u, c)' => ~InPool(c)'
    BY <1>7
  <2> QED BY <1>3, <2>1, <2>2, <2>3, <2>4, <2>5 DEF OneOwner
<1>13. OwnedWhole'
  <2>1. \A c : Whole(c)' <=> Whole(c)
    BY DEF Whole
  <2>2. \A u \in Threads, c \in ClientIds : Later(u, c)' => Whole(c)'
    BY <1>1, <1>4, <1>5, <2>1 DEF IInv, Owning, OwnedWhole
  <2>3. ASSUME NEW u \in Threads, NEW c \in ClientIds, Current(u, c)',
               pc'[u] \notin {"stopQueue", "stopWait"}
        PROVE  Whole(c)'
    <3>1. u # Closer
      BY <1>4, <2>3
    <3> QED BY <1>2, <1>5, <2>1, <2>3, <3>1 DEF IInv, Owning, OwnedWhole
  <2> QED BY <1>3, <1>7, <2>2, <2>3 DEF OwnedWhole
<1>14. Tasks'
  <2>1. \A q \in Callers : \A c : Maker(q, c)' <=> Maker(q, c)
    BY <1>2, CallersAreThreads DEF Maker
  <2> QED BY <1>3, <2>1 DEF IInv, Owning, Tasks
<1>15. LiveOwned'
  <2> SUFFICES ASSUME NEW c \in ClientIds, Live(c)
               PROVE  \E u \in Threads : Has(u, c)'
    BY <1>3 DEF LiveOwned, Live, IInv, Owning
  <2> QED BY <1>1, <1>5, <1>6 DEF IInv, Owning, LiveOwned
<1>16. LoadExact'
  <2>1. \A q \in Callers : \A c : Paying(q, c)' <=> Paying(q, c)
    BY <1>2, CallersAreThreads DEF Paying
  <2>2. \A c : Later(Closer, c) => m_shutdown
    BY DEF Later, IInv, LocalsOK, CloserOK, Phases, Stopping
  <2>3. \A c : IsCharged(c)' <=> IsCharged(c)
    BY <1>4, <1>7, <2>1, <2>2 DEF IsCharged
  <2> QED BY <1>3, <2>3, LoadSame
<1>17. Owning'
  BY <1>11, <1>12, <1>13, <1>14, <1>15 DEF Owning
<1> QED BY <1>10, <1>16, <1>17 DEF IInv

LEMMA ShutdownBeginOK == ASSUME IInv, ShutdownBegin PROVE IInv'
<1>1. PICK S : S = UNION {Range(m_clients[a]) : a \in Addrs}
  OBVIOUS
<1>2. \A c : c \in S <=> Pooled(c)
  BY <1>1 DEF Range, Pooled
<1>3. S \subseteq ClientIds
  BY <1>2 DEF Pooled, IInv, Owning, Valid
<1>4. IsFiniteSet(S) /\ S \subseteq Nat
  <2>1. ClientIds = 1..Len(clients) /\ Len(clients) \in Nat
    BY ClientIdsAre DEF IInv, Types
  <2>2. IsFiniteSet(ClientIds)
    BY <2>1, FS_Interval
  <2>3. IsFiniteSet(S)
    BY <1>3, <2>2, FS_Subset
  <2>4. \A c \in ClientIds : c \in Nat
    BY <2>1
  <2> QED BY <1>3, <2>3, <2>4
<1>5. PICK n \in Nat : n = Cardinality(S)
  BY <1>4, FS_CardinalityType
<1>6. PICK all \in [1..n -> S] :
        /\ \A i, j \in 1..n : i # j => all[i] # all[j]
        /\ \A a \in Addrs : HasRun(all, m_clients[a])
        /\ my' = [my EXCEPT ![Closer].stale = all]
  BY <1>1, <1>5 DEF ShutdownBegin, SetToSeqs
<1>7. all \in Seq(Nat) /\ Len(all) = n /\ DOMAIN all = 1..n
  <2>1. all \in [1..n -> Nat]
    BY <1>4, <1>6
  <2> QED BY <2>1
<1>8. \A c : (\E i \in DOMAIN all : all[i] = c) <=> Pooled(c)
  <2>1. ASSUME NEW i \in DOMAIN all PROVE Pooled(all[i])
    BY <1>2, <1>6, <1>7
  <2>2. ASSUME NEW a \in Addrs, NEW i \in DOMAIN m_clients[a]
        PROVE  \E j \in DOMAIN all : all[j] = m_clients[a][i]
    <3>1. PICK vec \in Seq(Nat) : vec = m_clients[a]
      BY DEF IInv, Types
    <3>2. PICK k \in 0..(n - Len(vec)) : \A x \in DOMAIN vec : all[k + x] = vec[x]
      BY <1>6, <1>7, <3>1 DEF HasRun
    <3>3. Len(vec) \in Nat /\ i \in 1..Len(vec)
      BY <2>2, <3>1
    <3>4. k + i \in 1..n
      BY <3>2, <3>3
    <3> QED BY <1>7, <2>2, <3>1, <3>2, <3>4
  <2> QED BY <2>1, <2>2 DEF Pooled
<1>9. /\ pc[Closer] = "idle" /\ ~m_shutdown /\ m_shutdown' = TRUE
      /\ pc' = [pc EXCEPT ![Closer] = "clients"]
      /\ UNCHANGED <<script, m_clients, clients, loop>>
  BY DEF ShutdownBegin, Goto
<1> DEFINE m == [my[Closer] EXCEPT !.stale = all]
<1>10. Closer \in Threads /\ my[Closer] \in LocalsType
  BY MyType DEF Threads
<1>11. m \in LocalsType /\ m.stale = all
  BY <1>7, <1>10 DEF LocalsType
<1>12. my' = [my EXCEPT ![Closer] = m]
  BY <1>6
<1> HIDE DEF m
<1>13. my[Closer].stale = <<>>
  BY <1>9 DEF IInv, LocalsOK, CloserOK, Stopping
<1>14. \A l \in Loops : loop[l].state = "looping"
  BY <1>9 DEF IInv, Phases
<1>15. LocalsOK' /\ Phases'
  <2>1. pc'[Closer] = "clients" /\ my'[Closer] = m
    BY <1>9, <1>10, <1>12 DEF IInv, Types
  <2>2. CloserOK'
    BY <2>1 DEF CloserOK, Stopping
  <2>3. KeepLoops
    BY <1>9, KeepAll
  <2>4. "clients" \in Places
    BY DEF Places
  <2>5. \A l \in Loops : loop'[l].state = loop[l].state
    BY <1>9
  <2> QED BY <1>9, <1>11, <1>12, <1>14, <2>2, <2>3, <2>4, <2>5, CloserMoves
<1>16. \A c : (\E i \in DOMAIN m.stale : m.stale[i] = c) <=> InPool(c) \/ Later(Closer, c)
  BY <1>8, <1>9, <1>11, <1>13 DEF InPool, Later
<1>17. \A i, j \in DOMAIN m.stale : m.stale[i] = m.stale[j] => i = j
  BY <1>6, <1>7, <1>11
<1>18. m_clients' \in [Addrs -> Seq(Nat)] /\ \A a \in Addrs : m_clients'[a] \in {m_clients[a], <<>>}
  BY <1>9 DEF IInv, Types
<1> QED BY <1>9, <1>11, <1>12, <1>15, <1>16, <1>17, <1>18, CloserTakes

LEMMA ShutdownEndOK == ASSUME IInv, ShutdownEnd PROVE IInv'
<1>1. /\ pc[Closer] = "clients" /\ my[Closer].stale = <<>>
      /\ pc' = [pc EXCEPT ![Closer] = "closed"]
      /\ m_clients' = [a \in Addrs |-> <<>>]
      /\ UNCHANGED <<script, m_shutdown, clients, loop, my>>
  BY DEF ShutdownEnd, Goto
<1>2. Closer \in Threads /\ my[Closer] \in LocalsType
  BY MyType DEF Threads
<1>3. my' = [my EXCEPT ![Closer] = my[Closer]]
  BY <1>1, <1>2 DEF IInv, Types
<1>4. m_shutdown' = TRUE /\ m_shutdown
  BY <1>1 DEF IInv, Phases, Types
<1>5. m_clients' \in [Addrs -> Seq(Nat)] /\ \A a \in Addrs : m_clients'[a] \in {m_clients[a], <<>>}
  <2>1. PICK w \in Seq(Nat) : w = <<>>
    BY EmptySeq
  <2>2. m_clients' = [a \in Addrs |-> w]
    BY <1>1, <2>1
  <2> QED BY <2>1, <2>2
<1>6. LocalsOK' /\ Phases'
  <2>1. pc'[Closer] = "closed" /\ my'[Closer] = my[Closer]
    BY <1>1, <1>2, <1>3 DEF IInv, Types
  <2>2. CloserOK'
    BY <1>1, <2>1 DEF CloserOK, Stopping
  <2>3. KeepLoops
    BY <1>1, KeepAll
  <2>4. "closed" \in Places
    BY DEF Places
  <2>5. \A l \in Loops : loop'[l].state = loop[l].state
    BY <1>1
  <2> QED BY <1>1, <1>2, <1>3, <1>4, <2>2, <2>3, <2>4, <2>5, CloserMoves
<1>7. \A c : (\E i \in DOMAIN my[Closer].stale : my[Closer].stale[i] = c)
             <=> InPool(c) \/ Later(Closer, c)
  BY <1>4 DEF InPool, Later
<1>8. \A i, j \in DOMAIN my[Closer].stale : my[Closer].stale[i] = my[Closer].stale[j] => i = j
  BY <1>2, StaleFacts
<1>9. PICK m \in LocalsType : m = my[Closer]
  BY <1>2
<1> QED BY <1>1, <1>3, <1>4, <1>5, <1>6, <1>7, <1>8, <1>9, CloserTakes

LEMMA ShutdownJoinOK == ASSUME IInv, ShutdownJoin PROVE IInv'
<1>1. PICK left : left = {i \in DOMAIN Group : loop[Group[i]].state # "gone"}
  OBVIOUS
<1>2. /\ left # {} /\ StopLoop(Group[Min(left)]) /\ ThreadsStay /\ UNCHANGED clients
      /\ pc[Closer] = "clients" /\ my[Closer].stale = <<>>
  BY <1>1 DEF ShutdownJoin, ThreadsStay, poolVars
<1>3. PICK x \in left : x = Min(left) /\ \A y \in left : x <= y
  <2>1. left \subseteq Nat
    BY <1>1, GroupFacts
  <2> QED BY <1>2, <2>1, MinExists
<1>4. PICK l \in Loops : l = Group[x] /\ loop[l].state = "looping"
        /\ loop' = [loop EXCEPT ![l].state = "stopping"]
  BY <1>1, <1>2, <1>3, GroupFacts DEF StopLoop
<1>5. l # Group[1] => loop[Group[1]].state = "gone"
  <2>1. 1 \in DOMAIN Group /\ x \in DOMAIN Group
    BY <1>1, GroupFacts
  <2>2. 1 \in left => x = 1
    BY <1>3, <2>1, GroupFacts
  <2> QED BY <1>1, <1>4, <2>1, <2>2
<1>6. PICK r \in LoopType : r = loop[l]
  BY DEF IInv, Types
<1> DEFINE e == [r EXCEPT !.state = "stopping"]
<1>7. e \in LoopType /\ e.tasks = r.tasks /\ e.state = "stopping"
      /\ e.m_connection_count = r.m_connection_count
  BY DEF LoopType
<1>8. loop' = [loop EXCEPT ![l] = e]
  BY <1>4, <1>6
<1> HIDE DEF e
<1>9. loop' \in [Loops -> LoopType] /\ loop'[l] = e /\ \A z \in Loops \ {l} : loop'[z] = loop[z]
  BY <1>7, <1>8 DEF IInv, Types
<1>10. KeepCounts /\ \A z \in Loops : loop'[z].tasks \in {loop[z].tasks, <<>>}
  BY <1>6, <1>7, <1>9 DEF KeepCounts
<1>11. \A z \in Loops : loop'[z].state = "gone" <=> loop[z].state = "gone"
  BY <1>4, <1>7, <1>9
<1>12. Phases'
  <2>0. UNCHANGED <<pc, my, m_shutdown>>
    BY <1>2 DEF ThreadsStay
  <2>1. ASSUME NEW z \in Loops, loop'[z].state # "looping"
        PROVE  /\ pc'[Closer] \in {"clients", "closed"} /\ my'[Closer].stale = <<>>
               /\ z # Group[1] => loop'[Group[1]].state = "gone"
    <3>1. Group[1] \in Loops
      BY GroupFacts
    <3>2. z # Group[1] => loop[Group[1]].state = "gone"
      <4>1. CASE z = l
        BY <1>5, <4>1
      <4>2. CASE z # l
        BY <1>9, <2>1, <4>2 DEF IInv, Phases
      <4> QED BY <4>1, <4>2
    <3> QED BY <1>2, <1>11, <2>0, <3>1, <3>2
  <2>2. ASSUME NEW p \in Callers, Home[p] # None, loop'[Home[p]].state = "gone"
        PROVE  pc'[p] = "idle"
    <3>1. Home[p] \in Loops
      BY <2>2, GroupFacts
    <3> QED BY <1>11, <2>0, <2>2, <3>1 DEF IInv, Phases
  <2> QED BY <2>0, <2>1, <2>2 DEF IInv, Phases
<1>13. Unwatched
  BY <1>2, SameClients
<1> QED BY <1>2, <1>9, <1>10, <1>12, <1>13, LoopEnds

LEMMA ShutdownClientOK == ASSUME IInv, ShutdownClient PROVE IInv'
<1>1. /\ pc[Closer] = "clients" /\ my[Closer].stale # <<>>
      /\ UNCHANGED <<script, m_clients, m_shutdown, clients>>
  BY DEF ShutdownClient, poolVars
<1>2. Closer \in Threads /\ my[Closer] \in LocalsType
  BY MyType DEF Threads
<1>3. PICK q \in Seq(Nat) : q = my[Closer].stale
  BY <1>2, StaleFacts
<1>4. PICK k : k = Head(q)
  OBVIOUS
<1>5. PICK w \in Seq(Nat) : w = Tail(q)
  <2>1. q # <<>>
    BY <1>1, <1>3
  <2>2. Tail(q) \in Seq(Nat)
    BY <2>1
  <2> QED BY <2>2
<1>6. /\ k \in Nat
      /\ \A i \in DOMAIN w : w[i] # k
      /\ \A i, j \in DOMAIN w : w[i] = w[j] => i = j
      /\ \A c : Later(Closer, c) <=> c = k \/ \E i \in DOMAIN w : w[i] = c
  <2>1. \A i, j \in DOMAIN q : q[i] = q[j] => i = j
    BY <1>2, <1>3, StaleFacts
  <2>2. q # <<>>
    BY <1>1, <1>3
  <2>3. /\ Head(q) \in Nat
        /\ \A i \in DOMAIN Tail(q) : Tail(q)[i] # Head(q)
        /\ \A i, j \in DOMAIN Tail(q) : Tail(q)[i] = Tail(q)[j] => i = j
        /\ \A c : (\E i \in DOMAIN q : q[i] = c) <=>
                     c = Head(q) \/ \E i \in DOMAIN Tail(q) : Tail(q)[i] = c
    BY <2>1, <2>2, HeadTail
  <2>4. \A c : Later(Closer, c) <=> \E i \in DOMAIN q : q[i] = c
    BY <1>3 DEF Later
  <2>5. \A c : Later(Closer, c) <=> c = k \/ \E i \in DOMAIN w : w[i] = c
    BY <1>4, <1>5, <2>3, <2>4
  <2> QED BY <1>4, <1>5, <2>3, <2>5
<1> DEFINE m == [my[Closer] EXCEPT !.client = k, !.stale = w, !.back = "clients"]
<1>7. m \in LocalsType /\ m.client = k /\ m.stale = w /\ m.back = "clients"
  BY <1>2, <1>6 DEF LocalsType
<1>8. my' = [my EXCEPT ![Closer] = m] /\ pc' = [pc EXCEPT ![Closer] = "stop"]
      /\ Count(clients[k].loop, -1)
  BY <1>3, <1>4, <1>5 DEF ShutdownClient, Goto
<1> HIDE DEF m
<1>9. Later(Closer, k) /\ Has(Closer, k)
  BY <1>6 DEF Has
<1>10. k \in ClientIds /\ Whole(k)
  BY <1>2, <1>9 DEF IInv, Owning, Valid, OwnedWhole, Later
<1>11. clients[k].loop \in Loops
  BY <1>10, ClientAt DEF ClientType
<1>12. /\ loop' \in [Loops -> LoopType] /\ KeepTasks
       /\ \A x \in Loops : loop'[x].state = loop[x].state
       /\ loop' = [loop EXCEPT ![clients[k].loop].m_connection_count = @ + (-1)]
  <2>1. PICK x \in Loops : x = clients[k].loop
    BY <1>11
  <2>2. -1 \in Int
    OBVIOUS
  <2>3. Count(x, -1)
    BY <1>8, <2>1
  <2> QED BY <2>1, <2>2, <2>3, CountChanges
<1>13. KeepLoops /\ KeepClients /\ ClientIds' = ClientIds
  BY <1>1 DEF KeepLoops, KeepClients, ClientIds
<1>14. /\ "stop" \in Places /\ "stop" \in Busy /\ "stop" \in Stopping
       /\ pc[Closer] \notin Busy /\ pc[Closer] \notin Stopping
  BY <1>1 DEF Places, Busy, Making, Stopping
<1>15. m_shutdown
  BY <1>1 DEF IInv, Phases
<1>16. Types'
  BY <1>1, <1>7, <1>8, <1>12, <1>14 DEF IInv, Types
<1>17. pc'[Closer] = "stop" /\ my'[Closer] = m
       /\ \A p \in Callers : pc'[p] = pc[p] /\ my'[p] = my[p]
  BY <1>2, <1>8, CallersAreThreads DEF IInv, Types
<1>18. LocalsOK' /\ Phases'
  <2>1. CloserOK'
    BY <1>7, <1>14, <1>17 DEF CloserOK
  <2>2. \A l \in Loops : loop[l].state = "looping"
    BY <1>1 DEF IInv, Phases
  <2>3. m_shutdown'
    BY <1>1, <1>15
  <2> QED BY <1>7, <1>8, <1>12, <1>13, <1>14, <1>15, <2>1, <2>2, <2>3, CloserMoves
<1>19. Owning'
  <2>1. \A c : Has(Closer, c) => c = k \/ \E i \in DOMAIN w : w[i] = c
    BY <1>6, <1>14 DEF Has, Current
  <2>2. \A i \in DOMAIN w : Later(Closer, w[i])
    BY <1>6
  <2>3. \A c : ~Maker(Closer, c)
    BY <1>1 DEF Maker, Stopping
  <2>4. MayMove(Closer, "stop", m)
    BY <1>6, <1>7, <1>9, <1>10, <1>14, <2>1, <2>2, <2>3 DEF MayMove
  <2>5. UNCHANGED <<m_clients, m_shutdown>>
    BY <1>1
  <2> QED BY <1>2, <1>7, <1>8, <1>12, <1>13, <1>14, <2>4, <2>5, Moves
<1>20. LoadExact'
  <2>1. \A c : ~InPool(c) /\ ~InPool(c)'
    BY <1>1, <1>15 DEF InPool
  <2>2. \A c : Later(Closer, c)' <=> Later(Closer, c) /\ c # k
    <3>1. \A c : Later(Closer, c)' <=> \E i \in DOMAIN w : w[i] = c
      BY <1>7, <1>17 DEF Later
    <3> QED BY <1>6, <3>1
  <2>3. \A p \in Callers : \A c : Paying(p, c)' <=> Paying(p, c)
    BY <1>17 DEF Paying
  <2>4. \A p \in Callers : ~Paying(p, k)
    <3> SUFFICES ASSUME NEW p \in Callers, Paying(p, k) PROVE FALSE
      OBVIOUS
    <3>1. p \in Threads /\ p # Closer /\ Has(p, k)
      BY CallersAreThreads DEF Paying, Has, Current, Busy, Making
    <3> QED BY <1>2, <1>9, <1>10, <3>1 DEF IInv, Owning, OneOwner
  <2>5. IsCharged(k)
    BY <1>9, <1>15 DEF IsCharged
  <2>6. \A c \in ClientIds : IsCharged(c)' <=> IsCharged(c) /\ c # k
    BY <1>1, <1>15, <2>1, <2>2, <2>3, <2>4 DEF IsCharged
  <2> QED BY <1>10, <1>12, <1>13, <2>5, <2>6, LoadLess
<1> QED BY <1>16, <1>18, <1>19, <1>20 DEF IInv

-----------------------------------------------------------------------------
(* The invariant holds.                                                    *)

LEMMA PoolInitOK == PoolInit => IInv
<1> SUFFICES ASSUME PoolInit PROVE IInv
  OBVIOUS
<1>1. PICK e : e = <<>> /\ \A S : e \in Seq(S) /\ DOMAIN e = {}
  <2>1. \A S : <<>> \in Seq(S)
    BY EmptySeq
  <2>2. DOMAIN <<>> = {}
    OBVIOUS
  <2> QED BY <2>1, <2>2
<1>2. /\ script \in PoolScripts /\ m_shutdown = FALSE
      /\ m_clients = [a \in Addrs |-> e] /\ clients = e
      /\ pc = [t \in Threads |-> "idle"] /\ my = [t \in Threads |-> NoLocals]
  BY <1>1 DEF PoolInit
<1>3. PICK r \in LoopType : r.state = "looping" /\ r.tasks = e /\ r.m_connection_count = 0
                            /\ loop = [l \in Loops |-> r]
  <2> DEFINE x == [state |-> "looping", tasks |-> e, m_connection_count |-> 0]
  <2>1. x \in LoopType
    BY <1>1 DEF LoopType
  <2>2. loop = [l \in Loops |-> x]
    BY <1>1 DEF PoolInit
  <2> QED BY <2>1, <2>2
<1>4. ClientIds = {} /\ "idle" \in Quiet /\ "idle" \in Places /\ "idle" \notin Busy
      /\ Closer \in Threads
  BY <1>1, <1>2 DEF ClientIds, Quiet, Places, Busy, Making, Stopping, Threads
<1>5. NoLocals.stale = <<>> /\ NoLocals.loop = None /\ DOMAIN NoLocals.stale = {}
  BY <1>1 DEF NoLocals
<1>6. Types
  BY <1>1, <1>2, <1>3, <1>4, NoLocalsType DEF Types
<1>7. LocalsOK
  <2>1. CloserOK
    BY <1>2, <1>4, <1>5 DEF CloserOK, Stopping
  <2>2. ASSUME NEW p \in Callers PROVE CallerOK(p)
    BY <1>2, <1>4, <1>5, CallersAreThreads DEF CallerOK, Busy, Making, Stopping
  <2> QED BY <2>1, <2>2 DEF LocalsOK
<1>8. Phases
  BY <1>2, <1>3, <1>4, GroupFacts, CallersAreThreads DEF Phases
<1>9. Owning
  <2>1. \A t \in Threads : pc[t] \notin Busy /\ DOMAIN my[t].stale = {}
    BY <1>2, <1>4, <1>5
  <2>2. \A a \in Addrs : DOMAIN m_clients[a] = {}
    BY <1>1, <1>2
  <2>3. \A l \in Loops : DOMAIN loop[l].tasks = {}
    BY <1>1, <1>3
  <2> QED BY <1>4, <2>1, <2>2, <2>3
       DEF Owning, Valid, OneOwner, OwnedWhole, Tasks, LiveOwned
<1>10. LoadExact
  <2> SUFFICES ASSUME NEW l \in Loops PROVE loop[l].m_connection_count = Cardinality(Charged(l))
    BY DEF LoadExact
  <2>1. Charged(l) = {}
    BY <1>4 DEF Charged
  <2> QED BY <1>3, <2>1, FS_EmptySet
<1> QED BY <1>6, <1>7, <1>8, <1>9, <1>10 DEF IInv

LEMMA Stutters ==
  ASSUME IInv, UNCHANGED <<script, m_clients, m_shutdown, clients, loop, pc, my>>
  PROVE  IInv'
<1>1. ThreadsStay /\ UNCHANGED <<clients, loop>>
  BY DEF ThreadsStay
<1>2. Phases' /\ loop' \in [Loops -> LoopType] /\ KeepCounts
      /\ \A l \in Loops : loop'[l].tasks \in {loop[l].tasks, <<>>}
  BY <1>1 DEF IInv, Types, Phases, KeepCounts, ThreadsStay
<1>3. Unwatched
  BY <1>1, SameClients
<1> QED BY <1>1, <1>2, <1>3, LoopEnds

LEMMA AcquireStepOK == ASSUME IInv, NEW p \in Callers, AcquireStep(p) PROVE IInv'
  BY AcquireRefusedOK, AcquirePooledOK, AcquireMoreOK, AcquireEvictsOK, EvictNextOK,
     ConnectOK, ConnectDoneOK, ConnectTimeoutOK, CountConnectionOK, InsertOK,
     UncountConnectionOK
  DEF AcquireStep

LEMMA PoolNextOK == ASSUME IInv, Side, PoolNext PROVE IInv'
<1>1. ASSUME NEW p \in Callers, Acquire(p) PROVE IInv'
  BY <1>1, AcquireOK
<1>2. ASSUME NEW p \in Callers, AcquireStep(p) PROVE IInv'
  BY <1>2, AcquireStepOK
<1>3. ASSUME NEW t \in Threads, StopStep(t) PROVE IInv'
  BY <1>3, StopEnterOK, StopQueueOK, StopWaitOK DEF StopStep
<1>4. ASSUME NEW l \in Loops, LoopStep(l) PROVE IInv'
  BY <1>4, RunTaskOK, LoopLeavesOK, ConnectFinishOK, HandleCloseOK DEF LoopStep
<1>5. CASE PeerStep
  BY <1>5, PeerOK DEF PeerStep
<1>6. CASE ShutdownStep
  BY <1>6, ShutdownBeginOK, ShutdownClientOK, ShutdownJoinOK, ShutdownEndOK DEF ShutdownStep
<1>7. ASSUME NEW t \in Threads, UseAfterDestroy(t) PROVE IInv'
  BY <1>7, Stutters DEF UseAfterDestroy, poolVars
<1> QED BY <1>1, <1>2, <1>3, <1>4, <1>5, <1>6, <1>7 DEF PoolNext

-----------------------------------------------------------------------------
(* Loops that are gone stay empty, and clients that are stopped stay so.   *)

SideKept ==
    /\ \A c \in ClientIds :
          /\ c \in ClientIds' /\ clients'[c].loop = clients[c].loop
          /\ clients[c].m_stopped => clients'[c].m_stopped
    /\ \A c \in ClientIds' : clients'[c].watch # "none" =>
          /\ c \in ClientIds
          /\ clients[c].watch # "none" \/ loop[clients[c].loop].state # "gone"
    /\ \A l \in Loops : loop'[l].state = "gone" =>
          loop[l].state = "gone" /\ loop'[l].tasks = loop[l].tasks
    /\ \A t \in Threads : pc'[t] \in {"stopQueue", "stopWait"} =>
          \/ pc[t] \in {"stopQueue", "stopWait"} /\ my'[t].client = my[t].client
          \/ clients'[my'[t].client].m_stopped

LEMMA TakenKept ==
  ASSUME IInv, Side,
         \A c \in ClientIds : clients[c].m_stopped => clients'[c].m_stopped,
         \A t \in Threads : pc'[t] \in {"stopQueue", "stopWait"} =>
            \/ pc[t] \in {"stopQueue", "stopWait"} /\ my'[t].client = my[t].client
            \/ clients'[my'[t].client].m_stopped
  PROVE  Taken'
<1> SUFFICES ASSUME NEW t \in Threads, pc[t] \in {"stopQueue", "stopWait"},
                    my'[t].client = my[t].client
             PROVE  clients'[my[t].client].m_stopped
  BY DEF Taken
<1>1. my[t].client \in ClientIds
  BY DEF IInv, Owning, Valid, Busy, Stopping
<1> QED BY <1>1 DEF Side, Taken

LEMMA SideKeeps == ASSUME IInv, Side, SideKept PROVE Side'
<1>1. Taken'
  BY TakenKept DEF SideKept
<1>2. ASSUME NEW l \in Loops, loop'[l].state = "gone"
      PROVE  /\ loop'[l].tasks = <<>>
             /\ \A c \in ClientIds' : clients'[c].loop = l => clients'[c].watch = "none"
  BY <1>2 DEF SideKept, Side, Emptied
<1> QED BY <1>1, <1>2 DEF Side, Emptied

\* Thread t goes on, though not into the middle of a stop().
StepsAside(t) ==
    /\ pc'[t] \notin {"stopQueue", "stopWait"}
    /\ \A u \in Threads \ {t} : pc'[u] = pc[u] /\ my'[u] = my[u]

LEMMA StepAside ==
  ASSUME IInv, Side, NEW t \in Threads, StepsAside(t), UNCHANGED clients,
         \A l \in Loops : loop'[l].state = loop[l].state,
         \A l \in Loops : loop[l].state = "gone" => loop'[l].tasks = loop[l].tasks
  PROVE  Side'
<1>1. ClientIds' = ClientIds
  BY DEF ClientIds
<1>2. SideKept
  BY <1>1 DEF SideKept, StepsAside
<1> QED BY <1>2, SideKeeps

LEMMA AcquireAside ==
  ASSUME IInv, NEW p \in Callers, Acquire(p) \/ AcquireStep(p)
  PROVE  StepsAside(p) /\ p \in Threads
<1> USE CallersAreThreads DEF IInv, Types, StepsAside, GoOn, Return, Goto
<1>1. ASSUME Acquire(p) PROVE StepsAside(p)
  BY <1>1 DEF Acquire
<1>2. ASSUME AcquireRefused(p) \/ AcquirePooled(p) PROVE StepsAside(p)
  BY <1>2 DEF AcquireRefused, AcquirePooled
<1>3. ASSUME AcquireMore(p) \/ AcquireEvicts(p) PROVE StepsAside(p)
  BY <1>3 DEF AcquireMore, AcquireEvicts
<1>4. ASSUME EvictNext(p) PROVE StepsAside(p)
  BY <1>4 DEF EvictNext
<1>5. ASSUME NEW o \in {"now", "progress", "failed"}, Connect(p, o) PROVE StepsAside(p)
  BY <1>5 DEF Connect
<1>6. ASSUME ConnectDone(p) \/ ConnectTimeout(p) PROVE StepsAside(p)
  BY <1>6 DEF ConnectDone, ConnectTimeout
<1>7. ASSUME CountConnection(p) \/ UncountConnection(p) PROVE StepsAside(p)
  BY <1>7 DEF CountConnection, UncountConnection
<1>8. ASSUME Insert(p) PROVE StepsAside(p)
  BY <1>8 DEF Insert
<1> QED BY <1>1, <1>2, <1>3, <1>4, <1>5, <1>6, <1>7, <1>8 DEF AcquireStep

(* acquire: a queue that is gone takes no task.                            *)
LEMMA AcquireSide ==
  ASSUME IInv, Side, NEW p \in Callers, Acquire(p) \/ AcquireStep(p)
  PROVE  Side'
<1>1. StepsAside(p) /\ p \in Threads
  BY AcquireAside
<1>2. ASSUME UNCHANGED <<clients, loop>> PROVE Side'
  BY <1>1, <1>2, StepAside
<1>3. ASSUME NEW x \in Loops, NEW d \in Int, Count(x, d), UNCHANGED clients PROVE Side'
  <2>1. KeepTasks /\ \A l \in Loops : loop'[l].state = loop[l].state
    BY <1>3, CountChanges
  <2> QED BY <1>1, <1>3, <2>1, StepAside DEF KeepTasks
<1>4. CASE Acquire(p) \/ AcquireRefused(p) \/ AcquirePooled(p) \/ AcquireMore(p) \/ EvictNext(p)
           \/ ConnectDone(p)
  BY <1>2, <1>4 DEF Acquire, AcquireRefused, AcquirePooled, AcquireMore, EvictNext, ConnectDone
<1>5. CASE AcquireEvicts(p)
  <2>1. my[p].addr \in Addrs
    BY <1>5 DEF AcquireEvicts, IInv, LocalsOK, CallerOK
  <2>2. m_clients[my[p].addr] \in Seq(Nat)
    BY <2>1 DEF IInv, Types
  <2>3. Uncount(m_clients[my[p].addr]) /\ UNCHANGED clients
    BY <1>5 DEF AcquireEvicts
  <2>4. \A l \in Loops : loop'[l].state = loop[l].state /\ loop'[l].tasks = loop[l].tasks
    <3> SUFFICES ASSUME NEW l \in Loops
                 PROVE  loop'[l].state = loop[l].state /\ loop'[l].tasks = loop[l].tasks
      OBVIOUS
    <3>1. PICK r \in LoopType : r = loop[l]
      BY DEF IInv, Types
    <3>2. PICK n : n = OnLoop(m_clients[my[p].addr], l)
      OBVIOUS
    <3>3. loop'[l] = [r EXCEPT !.m_connection_count = @ - n]
      BY <2>3, <3>1, <3>2 DEF Uncount
    <3> QED BY <3>1, <3>3 DEF LoopType
  <2> QED BY <1>1, <2>3, <2>4, StepAside
<1>6. ASSUME NEW o \in {"now", "progress", "failed"}, Connect(p, o) PROVE Side'
  <2>1. CASE o = "failed"
    BY <1>2, <1>6, <2>1 DEF Connect
  <2>2. CASE o # "failed"
    <3>1. PICK x \in Loops : x = my[p].loop
      BY <1>6, MyType, <1>1 DEF Connect, IInv, LocalsOK, CallerOK, LocalsType
    <3>2. PICK k \in Nat : k = Len(clients) + 1
      BY ClientIdsAre DEF IInv, Types
    <3>3. QueueInLoop(x, Task(o, k)) /\ Task(o, k) \in TaskType
      BY <1>6, <2>2, <3>1, <3>2 DEF Connect, Task, TaskType
    <3>4. /\ \A l \in Loops : loop'[l].state = loop[l].state
          /\ \A l \in Loops : loop[l].state = "gone" => loop'[l].tasks = loop[l].tasks
      <4>1. PICK task \in TaskType : task = Task(o, k)
        BY <3>3
      <4>2. QueueInLoop(x, task)
        BY <3>3, <4>1
      <4>3. /\ \A l \in Loops : loop'[l].state = loop[l].state
            /\ \A l \in Loops \ {x} : loop'[l].tasks = loop[l].tasks
            /\ loop[x].state = "gone" => loop'[x].tasks = loop[x].tasks
        BY <4>2, QueueChanges
      <4> QED BY <4>3
    <3>5. PICK new : clients' = Append(clients, new) /\ new.watch = "none"
      <4> DEFINE r == [NewClient(my[p].addr, my[p].loop) EXCEPT !.m_connection = TRUE,
                          !.socket = IF o = "now" THEN "up" ELSE "pending"]
      <4>1. r.watch = "none"
        BY DEF NewClient
      <4>2. clients' = Append(clients, r)
        BY <1>6, <2>2 DEF Connect
      <4> HIDE DEF r
      <4> QED BY <4>1, <4>2
    <3>6. /\ ClientIds' = ClientIds \cup {k} /\ clients'[k] = new
          /\ \A c \in ClientIds : clients'[c] = clients[c]
      BY <3>2, <3>5, ClientIdsAre DEF IInv, Types, ClientIds
    <3>7. SideKept
      BY <1>1, <3>4, <3>5, <3>6 DEF SideKept, StepsAside
    <3> QED BY <3>7, SideKeeps
  <2> QED BY <2>1, <2>2
<1>7. CASE ConnectTimeout(p)
  <2>1. PICK k \in ClientIds : k = my[p].client
    BY <1>1, <1>7 DEF ConnectTimeout, IInv, Owning, Valid, Busy, Making
  <2>2. PICK r \in ClientType : r = clients[k]
    BY ClientAt
  <2> DEFINE e == [r EXCEPT !.error = "timeout"]
  <2>3. e \in ClientType /\ e.loop = r.loop /\ e.m_stopped = r.m_stopped /\ e.watch = r.watch
    BY DEF ClientType
  <2>4. clients' = [clients EXCEPT ![k] = e] /\ UNCHANGED loop
    BY <1>7, <2>1, <2>2 DEF ConnectTimeout
  <2> HIDE DEF e
  <2>5. ClientIds' = ClientIds /\ clients'[k] = e
        /\ \A c \in ClientIds \ {k} : clients'[c] = clients[c]
    BY <2>3, <2>4, ClientSet
  <2>6. SideKept
    BY <1>1, <2>2, <2>3, <2>4, <2>5 DEF SideKept, StepsAside
  <2> QED BY <2>6, SideKeeps
<1>8. CASE CountConnection(p) \/ UncountConnection(p)
  <2>1. my[p].loop \in Loops
    <3>1. my[p].loop # None
      BY <1>8 DEF CountConnection, UncountConnection, IInv, LocalsOK, CallerOK, Making
    <3> QED BY <1>1, <3>1, MyType DEF LocalsType
  <2>2. 1 \in Int /\ -1 \in Int
    OBVIOUS
  <2> QED BY <1>3, <1>8, <2>1, <2>2 DEF CountConnection, UncountConnection
<1>9. CASE Insert(p)
  <2>1. my[p].loop \in Loops
    <3>1. my[p].loop # None
      BY <1>9 DEF Insert, IInv, LocalsOK, CallerOK, Making
    <3> QED BY <1>1, <3>1, MyType DEF LocalsType
  <2>2. -1 \in Int
    OBVIOUS
  <2>3. UNCHANGED clients /\ (UNCHANGED loop \/ Count(my[p].loop, -1))
    BY <1>9 DEF Insert
  <2> QED BY <1>2, <1>3, <2>1, <2>2, <2>3
<1> QED BY <1>4, <1>5, <1>6, <1>7, <1>8, <1>9 DEF AcquireStep

(* stop(): the client is stopped before the thread waits.                  *)
LEMMA StopSide == ASSUME IInv, Side, NEW t \in Threads, StopStep(t) PROVE Side'
<1>0. PICK k \in ClientIds : k = my[t].client
  BY StoppingFacts DEF StopStep, StopEnter, StopQueue, StopWait, Stopping
<1>1. \A u \in Threads \ {t} : pc'[u] = pc[u] /\ my'[u] = my[u]
  BY DEF StopStep, StopEnter, StopQueue, StopWait, GoOn, Return, Goto, IInv, Types
<1>2. PICK r \in ClientType : r = clients[k]
  BY ClientAt
<1>3. CASE StopEnter(t)
  <2> DEFINE taken == [r EXCEPT !.m_stopped = TRUE, !.m_connection = FALSE]
             gone == [taken EXCEPT !.m_state = "Closed", !.watch = "none"]
             again == [r EXCEPT !.m_stopped = TRUE]
  <2>1. /\ taken \in ClientType /\ taken.loop = r.loop /\ taken.m_stopped /\ taken.watch = r.watch
        /\ gone \in ClientType /\ gone.loop = r.loop /\ gone.m_stopped /\ gone.watch = "none"
        /\ again \in ClientType /\ again.loop = r.loop /\ again.m_stopped /\ again.watch = r.watch
    BY DEF ClientType
  <2>2. PICK e \in {taken, gone, again} : clients' = [clients EXCEPT ![k] = e]
    BY <1>0, <1>2, <1>3 DEF StopEnter, Destroyed
  <2> HIDE DEF taken, gone, again
  <2>3. e \in ClientType /\ e.loop = r.loop /\ e.m_stopped /\ e.watch \in {r.watch, "none"}
    BY <2>1, <2>2
  <2>4. ClientIds' = ClientIds /\ clients'[k] = e
        /\ \A c \in ClientIds \ {k} : clients'[c] = clients[c]
    BY <2>2, <2>3, ClientSet
  <2>5. UNCHANGED loop
    BY <1>3 DEF StopEnter
  <2>6. pc'[t] \in {"stopQueue", "stopWait"} => my'[t].client = k
    <3>1. my[t].back \in {"idle", "evict", "clients"}
      BY MyType DEF LocalsType
    <3>2. GoOn(t, "stopQueue") \/ GoOn(t, my[t].back)
      BY <1>3 DEF StopEnter
    <3> QED BY <1>0, <3>1, <3>2 DEF GoOn, Return, Goto, IInv, Types
  <2>7. SideKept
    BY <1>1, <1>2, <2>3, <2>4, <2>5, <2>6 DEF SideKept
  <2> QED BY <2>7, SideKeeps
<1>4. CASE StopQueue(t)
  <2>1. PICK x \in Loops : x = clients[k].loop
    BY <1>2 DEF ClientType
  <2>2. k \in Nat
    BY ClientIdsAre DEF IInv, Types
  <2>3. PICK task \in TaskType : task = Task("destroy", k)
    BY <2>2 DEF Task, TaskType
  <2>4. QueueInLoop(x, task)
    BY <1>0, <1>4, <2>1, <2>3 DEF StopQueue
  <2>5. /\ \A l \in Loops : loop'[l].state = loop[l].state
        /\ \A l \in Loops \ {x} : loop'[l].tasks = loop[l].tasks
        /\ loop[x].state = "gone" => loop'[x].tasks = loop[x].tasks
    BY <2>4, QueueChanges
  <2>6. UNCHANGED <<clients, my>> /\ ClientIds' = ClientIds /\ pc[t] = "stopQueue"
    BY <1>4 DEF StopQueue, ClientIds
  <2>7. SideKept
    BY <1>1, <2>5, <2>6 DEF SideKept
  <2> QED BY <2>7, SideKeeps
<1>5. CASE StopWait(t)
  <2>1. my[t].back \in {"idle", "evict", "clients"}
    BY MyType DEF LocalsType
  <2>2. StepsAside(t)
    BY <1>1, <1>5, <2>1 DEF StepsAside, StopWait, GoOn, Return, Goto, IInv, Types
  <2>3. UNCHANGED <<clients, loop>>
    BY <1>5 DEF StopWait
  <2> QED BY <2>2, <2>3, StepAside
<1> QED BY <1>3, <1>4, <1>5 DEF StopStep

(* A loop works on a client of its own while it is there.                  *)
LEMMA HandledSide ==
  ASSUME IInv, Side, UNCHANGED <<pc, my>>, NEW k \in ClientIds,
         NEW e \in ClientType, clients' = [clients EXCEPT ![k] = e],
         e.loop = clients[k].loop, e.m_stopped = clients[k].m_stopped,
         e.watch = clients[k].watch \/ loop[clients[k].loop].state # "gone",
         \A l \in Loops : loop'[l].state = loop[l].state,
         \A l \in Loops : loop[l].state = "gone" => loop'[l].tasks = loop[l].tasks
  PROVE  Side'
<1>1. ClientIds' = ClientIds /\ clients'[k] = e
      /\ \A c \in ClientIds \ {k} : clients'[c] = clients[c]
  BY ClientSet
<1>2. SideKept
  BY <1>1 DEF SideKept
<1> QED BY <1>2, SideKeeps

LEMMA LoopSide == ASSUME IInv, Side, NEW l \in Loops, LoopStep(l) PROVE Side'
<1>1. CASE RunTask(l)
  <2>1. PICK x \in LoopType : x = loop[l]
    BY DEF IInv, Types
  <2>2. PICK q \in Seq(TaskType) : q = x.tasks
    BY DEF LoopType
  <2>3. q # <<>> /\ 1 \in DOMAIN q /\ Head(q) = q[1] /\ Head(q) \in TaskType
    BY <1>1, <2>1, <2>2 DEF RunTask
  <2>4. PICK task \in TaskType : task = q[1] /\ task = Head(q)
    BY <2>3
  <2>5. PICK k \in ClientIds : k = task.client /\ clients[k].loop = l
    BY <2>1, <2>2, <2>3, <2>4 DEF IInv, Owning, Tasks
  <2>6. PICK r \in ClientType : r = clients[k]
    BY ClientAt
  <2>7. loop[l].state # "gone"
    BY <1>1 DEF RunTask, LoopFree
  <2>8. PICK w : w = Tail(q)
    OBVIOUS
  <2>9. loop' = [loop EXCEPT ![l] = [x EXCEPT !.tasks = w]]
    BY <1>1, <2>1, <2>2, <2>8 DEF RunTask
  <2>10. /\ \A z \in Loops : loop'[z].state = loop[z].state
         /\ \A z \in Loops : loop[z].state = "gone" => loop'[z].tasks = loop[z].tasks
    <3>1. [x EXCEPT !.tasks = w].state = x.state
      BY DEF LoopType
    <3> QED BY <2>1, <2>7, <2>9, <3>1 DEF IInv, Types
  <2>11. PICK e : e = AfterTask(task.kind, r)
    OBVIOUS
  <2>12. clients' = [clients EXCEPT ![k] = e]
    BY <1>1, <2>1, <2>2, <2>4, <2>5, <2>6, <2>11 DEF RunTask
  <2>13. e \in ClientType /\ e.loop = r.loop /\ e.m_stopped = r.m_stopped
    <3> DEFINE es == {[r EXCEPT !.m_state = "Closed", !.watch = "none", !.destroyed = TRUE],
                      [r EXCEPT !.m_state = "Connected", !.watch = "read",
                                !.done = TRUE, !.error = "none"],
                      [r EXCEPT !.done = TRUE, !.error = "none"],
                      [r EXCEPT !.watch = "connect"],
                      [r EXCEPT !.done = TRUE, !.error = "failed"]}
    <3>1. \A d \in es : d \in ClientType /\ d.loop = r.loop /\ d.m_stopped = r.m_stopped
      BY DEF ClientType
    <3>2. task.kind \in {"now", "progress", "destroy"}
      BY DEF TaskType
    <3>3. CASE task.kind = "destroy"
      BY <2>11, <3>1, <3>3 DEF AfterTask, Destroyed
    <3>4. CASE task.kind = "now"
      BY <2>11, <3>1, <3>4 DEF AfterTask, Established
    <3>5. CASE task.kind = "progress"
      BY <2>11, <3>1, <3>5 DEF AfterTask
    <3> QED BY <3>2, <3>3, <3>4, <3>5
  <2>14. UNCHANGED <<pc, my>>
    BY <1>1 DEF RunTask
  <2> QED BY <2>5, <2>6, <2>7, <2>10, <2>12, <2>13, <2>14, HandledSide
<1>2. CASE LoopLeaves(l)
  <2>1. /\ Unwatched
        /\ \A c \in ClientIds : clients[c].loop = l => clients'[c].watch = "none"
    BY <1>2, LeavesClients
  <2>2. UNCHANGED <<pc, my>>
    BY <1>2 DEF LoopLeaves
  <2>3. Taken'
    BY <2>1, <2>2, TakenKept DEF Unwatched
  <2>4. PICK x \in LoopType : x = loop[l]
    BY DEF IInv, Types
  <2>5. loop' = [loop EXCEPT ![l] = [x EXCEPT !.state = "gone", !.tasks = <<>>]]
    BY <1>2, <2>4 DEF LoopLeaves
  <2>6. loop'[l].tasks = <<>> /\ \A z \in Loops \ {l} : loop'[z] = loop[z]
    BY <2>4, <2>5 DEF IInv, Types, LoopType
  <2>7. ASSUME NEW z \in Loops, loop'[z].state = "gone"
        PROVE  /\ loop'[z].tasks = <<>>
               /\ \A c \in ClientIds' : clients'[c].loop = z => clients'[c].watch = "none"
    BY <2>1, <2>6, <2>7 DEF Unwatched, Side, Emptied
  <2> QED BY <2>3, <2>7 DEF Side, Emptied
<1>3. ASSUME NEW c \in ClientIds, clients[c].loop = l, ConnectFinish(c) \/ HandleClose(c)
      PROVE  Side'
  <2>1. PICK r \in ClientType : r = clients[c]
    BY ClientAt
  <2> DEFINE es == {[r EXCEPT !.m_state = "Connected", !.watch = "read",
                              !.done = TRUE, !.error = "none"],
                    [r EXCEPT !.m_state = "Closed", !.watch = "none",
                              !.done = TRUE, !.error = "failed"],
                    [r EXCEPT !.m_state = "Closed", !.watch = "none"]}
  <2>2. \A d \in es : d \in ClientType /\ d.loop = r.loop /\ d.m_stopped = r.m_stopped
    BY DEF ClientType
  <2>3. PICK e \in es : clients' = [clients EXCEPT ![c] = e]
    BY <1>3, <2>1 DEF ConnectFinish, HandleClose, Established, Destroyed
  <2> HIDE DEF es
  <2>4. UNCHANGED <<loop, pc, my>> /\ loop[clients[c].loop].state # "gone"
    BY <1>3 DEF ConnectFinish, HandleClose, LoopFree
  <2> QED BY <2>1, <2>2, <2>3, <2>4, HandledSide
<1> QED BY <1>1, <1>2, <1>3 DEF LoopStep

LEMMA PeerSide == ASSUME IInv, Side, PeerStep PROVE Side'
<1>1. PICK c \in ClientIds, answer \in {"up", "refused", "closed"} : Peer(c, answer)
  BY DEF PeerStep
<1>2. PICK r \in ClientType : r = clients[c]
  BY ClientAt
<1> DEFINE e == [r EXCEPT !.socket = answer]
<1>3. e \in ClientType /\ e.loop = r.loop /\ e.m_stopped = r.m_stopped /\ e.watch = r.watch
  BY DEF ClientType
<1>4. clients' = [clients EXCEPT ![c] = e] /\ UNCHANGED <<loop, pc, my>>
  BY <1>1, <1>2 DEF Peer
<1> HIDE DEF e
<1> QED BY <1>2, <1>3, <1>4, HandledSide

LEMMA ShutdownSide == ASSUME IInv, Side, ShutdownStep PROVE Side'
<1>0. Closer \in Threads /\ UNCHANGED clients
  BY DEF Threads, ShutdownStep, ShutdownBegin, ShutdownClient, ShutdownJoin, ShutdownEnd, poolVars
<1>1. StepsAside(Closer)
  <2>1. CASE ShutdownBegin
    BY <1>0, <2>1 DEF ShutdownBegin, StepsAside, Goto, IInv, Types
  <2>2. CASE ShutdownClient
    BY <1>0, <2>2 DEF ShutdownClient, StepsAside, Goto, IInv, Types
  <2>3. CASE ShutdownJoin \/ ShutdownEnd
    BY <1>0, <2>3 DEF ShutdownJoin, ShutdownEnd, StepsAside, Goto, IInv, Types
  <2> QED BY <2>1, <2>2, <2>3 DEF ShutdownStep
<1>2. CASE ShutdownBegin \/ ShutdownEnd
  <2>1. UNCHANGED loop
    BY <1>2 DEF ShutdownBegin, ShutdownEnd
  <2> QED BY <1>0, <1>1, <2>1, StepAside
<1>3. CASE ShutdownClient
  <2>1. PICK k : k = Head(my[Closer].stale)
    OBVIOUS
  <2>2. my[Closer].stale # <<>> /\ Count(clients[k].loop, -1)
    BY <1>3, <2>1 DEF ShutdownClient
  <2>3. k \in ClientIds
    <3>1. PICK q \in Seq(Nat) : q = my[Closer].stale
      BY <1>0, StaleFacts
    <3>2. 1 \in DOMAIN q /\ k = q[1]
      BY <2>1, <2>2, <3>1
    <3> QED BY <1>0, <3>1, <3>2 DEF IInv, Owning, Valid
  <2>4. PICK x \in Loops : x = clients[k].loop
    BY <2>3, ClientAt DEF ClientType
  <2>5. -1 \in Int /\ Count(x, -1)
    BY <2>2, <2>4
  <2>6. KeepTasks /\ \A l \in Loops : loop'[l].state = loop[l].state
    BY <2>5, CountChanges
  <2> QED BY <1>0, <1>1, <2>6, StepAside DEF KeepTasks
<1>4. CASE ShutdownJoin
  <2>1. PICK l : loop[l].state = "looping" /\ loop' = [loop EXCEPT ![l].state = "stopping"]
    BY <1>4 DEF ShutdownJoin, StopLoop
  <2>2. \A z \in Loops : loop'[z].state = "gone" =>
          loop[z].state = "gone" /\ loop'[z].tasks = loop[z].tasks
    <3> SUFFICES ASSUME NEW z \in Loops, loop'[z].state = "gone"
                 PROVE  loop[z].state = "gone" /\ loop'[z].tasks = loop[z].tasks
      OBVIOUS
    <3>1. PICK r \in LoopType : r = loop[z]
      BY DEF IInv, Types
    <3>2. z = l => loop'[z] = [r EXCEPT !.state = "stopping"]
      BY <2>1, <3>1 DEF IInv, Types
    <3>3. z # l
      BY <3>1, <3>2 DEF LoopType
    <3>4. loop'[z] = loop[z]
      BY <2>1, <3>3 DEF IInv, Types
    <3> QED BY <3>4
  <2>3. SideKept
    BY <1>0, <1>1, <2>2 DEF SideKept, StepsAside, ClientIds
  <2> QED BY <2>3, SideKeeps
<1> QED BY <1>2, <1>3, <1>4 DEF ShutdownStep

LEMMA StutterSide == ASSUME Side, UNCHANGED <<clients, loop, pc, my>> PROVE Side'
  BY DEF Side, Emptied, Taken, ClientIds

LEMMA PoolNextSide == ASSUME IInv, Side, PoolNext PROVE Side'
<1>1. ASSUME NEW p \in Callers, Acquire(p) \/ AcquireStep(p) PROVE Side'
  BY <1>1, AcquireSide
<1>2. ASSUME NEW t \in Threads, StopStep(t) PROVE Side'
  BY <1>2, StopSide
<1>3. ASSUME NEW t \in Threads, UseAfterDestroy(t) PROVE Side'
  BY <1>3, StutterSide DEF UseAfterDestroy
<1>4. ASSUME NEW l \in Loops, LoopStep(l) PROVE Side'
  BY <1>4, LoopSide
<1> QED BY <1>1, <1>2, <1>3, <1>4, PeerSide, ShutdownSide DEF PoolNext

LEMMA PoolInitSide == PoolInit => Side
<1> SUFFICES ASSUME PoolInit PROVE Side
  OBVIOUS
<1>1. \A l \in Loops : loop[l].state # "gone"
  BY DEF PoolInit
<1>2. \A t \in Threads : pc[t] \notin {"stopQueue", "stopWait"}
  BY DEF PoolInit
<1> QED BY <1>1, <1>2 DEF Side, Emptied, Taken

LEMMA PoolInvariant == PoolSpec => [](IInv /\ Side)
<1>1. PoolInit => IInv /\ Side
  BY PoolInitOK, PoolInitSide
<1>2. IInv /\ Side /\ [PoolNext]_pVars => (IInv /\ Side)'
  <2> SUFFICES ASSUME IInv, Side, [PoolNext]_pVars PROVE (IInv /\ Side)'
    OBVIOUS
  <2>1. CASE PoolNext
    BY <2>1, PoolNextOK, PoolNextSide
  <2>2. CASE UNCHANGED pVars
    BY <2>2, Stutters, StutterSide DEF pVars, poolVars
  <2> QED BY <2>1, <2>2
<1> QED BY <1>1, <1>2, PTL DEF PoolSpec

(* What the invariant says of the properties.                              *)
LEMMA NothingStray == IInv => NoStrayConnection
<1> SUFFICES ASSUME IInv, NEW c \in ClientIds,
                    \/ clients[c].watch # "none"
                    \/ \E l \in Loops : \E i \in DOMAIN loop[l].tasks :
                         loop[l].tasks[i].client = c /\ loop[l].tasks[i].kind # "destroy"
             PROVE  Cared(c)
  BY DEF NoStrayConnection
<1>1. \A t \in Threads : Has(t, c) => Cared(c)
  BY DEF Has, Current, Later, Cared, Range, Busy, Making, Stopping
<1>2. InPool(c) => Cared(c)
  BY DEF InPool, Pooled, Cared, Range
<1>3. CASE clients[c].watch # "none"
  BY <1>1, <1>2, <1>3 DEF IInv, Owning, LiveOwned, Live
<1>4. ASSUME NEW l \in Loops, NEW i \in DOMAIN loop[l].tasks,
             loop[l].tasks[i].client = c, loop[l].tasks[i].kind # "destroy"
      PROVE  Cared(c)
  <2>1. PICK p \in Callers : Maker(p, c)
    BY <1>4 DEF IInv, Owning, Tasks
  <2>2. p \in Threads /\ Has(p, c)
    BY <2>1, CallersAreThreads DEF Maker, Has, Current, Busy, Making
  <2> QED BY <1>1, <2>2
<1> QED BY <1>3, <1>4

LEMMA LoopsOutlive == IInv => LoopOutlivesClient
<1> SUFFICES ASSUME IInv, NEW l \in Loops, loop[l].state = "gone"
             PROVE  /\ \A c \in ClientIds : clients[c].loop = l /\ ~clients[c].m_stopped =>
                          \E p \in Overtaken : my[p].client = c \/ c \in Range(my[p].stale)
                    /\ \A t \in Threads :
                          \/ pc[t] = "connect" /\ my[t].loop = l
                          \/ /\ pc[t] \in {"stopQueue", "stopWait"}
                             /\ clients[my[t].client].loop = l
                          => t \in Overtaken
  BY DEF LoopOutlivesClient
<1>1. /\ pc[Closer] \in {"clients", "closed"} /\ my[Closer].stale = <<>> /\ m_shutdown
      /\ loop[Group[1]].state = "gone" /\ Group[1] \in Loops
  <2>1. Group[1] \in Loops
    BY GroupFacts
  <2> QED BY <2>1 DEF IInv, Phases
<1>2. ASSUME NEW t \in Threads, pc[t] \notin Quiet, pc[t] \notin {"clients", "closed"}
      PROVE  t \in Overtaken
  <2>1. t \in Callers
    BY <1>1, <1>2 DEF Threads
  <2>2. Home[t] # Group[1]
    BY <1>1, <1>2, <2>1, GroupFacts DEF IInv, Phases, Quiet
  <2> QED BY <1>1, <1>2, <2>1, <2>2 DEF Overtaken, Quiet
<1>3. ASSUME NEW t \in Threads, NEW c, Has(t, c)
      PROVE  t \in Overtaken /\ (my[t].client = c \/ c \in Range(my[t].stale))
  <2>1. my[t].client = c \/ c \in Range(my[t].stale)
    BY <1>3 DEF Has, Current, Later, Range
  <2>2. pc[t] \notin Quiet /\ pc[t] \notin {"clients", "closed"}
    <3>1. CASE Current(t, c)
      BY <3>1 DEF Current, Quiet, Busy, Making, Stopping
    <3>2. CASE Later(t, c) /\ t = Closer
      BY <1>1, <3>2 DEF Later
    <3>3. CASE Later(t, c) /\ t \in Callers
      <4>1. my[t].stale # <<>>
        BY <3>3 DEF Later
      <4> QED BY <3>3, <4>1 DEF IInv, LocalsOK, CallerOK, Quiet, Stopping
    <3> QED BY <1>3, <3>1, <3>2, <3>3 DEF Has, Threads
  <2> QED BY <1>2, <2>1, <2>2
<1>4. ASSUME NEW c \in ClientIds, ~clients[c].m_stopped
      PROVE  \E p \in Overtaken : my[p].client = c \/ c \in Range(my[p].stale)
  <2>1. \E t \in Threads : Has(t, c)
    BY <1>1, <1>4 DEF IInv, Owning, LiveOwned, Live, InPool
  <2> QED BY <1>3, <2>1
<1>5. ASSUME NEW t \in Threads, pc[t] \in {"connect", "stopQueue", "stopWait"}
      PROVE  t \in Overtaken
  BY <1>2, <1>5 DEF Quiet
<1> QED BY <1>4, <1>5

(* Every loop is charged with exactly the connections on it that are in    *)
(* the pool or that a caller of acquire is about to add or to give back,   *)
(* and those that shutdown has still to stop: no eviction, lost race or    *)
(* shutdown between two sections under the mutex leaves a count behind.    *)
THEOREM PoolLoadExact == PoolSpec => []LoadExact
<1>1. IInv => LoadExact
  BY DEF IInv
<1> QED BY <1>1, PoolInvariant, PTL

(* A connection that a poller watches or a task is going to connect is in  *)
(* the pool or held by a thread that is going to pool or to stop it, after *)
(* every timeout, failure, eviction and lost race.                         *)
THEOREM PoolNoStrayConnection == PoolSpec => []NoStrayConnection
  BY NothingStray, PoolInvariant, PTL

(* When a loop is gone, every TcpClient on it was stopped and no thread is *)
(* going to use it or waits for it in TcpClient::stop, but for the callers *)
(* that shutdown met inside acquire, past its first check of m_shutdown.   *)
THEOREM PoolLoopOutlivesClient == PoolSpec => []LoopOutlivesClient
  BY LoopsOutlive, PoolInvariant, PTL

-----------------------------------------------------------------------------
(* base64.                                                                 *)

(* A sequence that is cut into pieces is what the pieces make up.          *)
Cuts(seqs, t, n, c) ==
    /\ n \in Nat /\ n > 0 /\ Len(seqs) = n
    /\ c[0] = 0 /\ c[n] = Len(t) /\ \A i \in 0..n : c[i] \in 0..Len(t)
    /\ \A i \in 1..n : c[i - 1] <= c[i] /\ seqs[i] = SubSeq(t, c[i - 1] + 1, c[i])

LEMMA FlattenCuts ==
  ASSUME NEW S, NEW t \in Seq(S), NEW seqs \in Seq(Seq(S)), NEW n, NEW c, Cuts(seqs, t, n, c)
  PROVE  FlattenSeq(seqs) = t
<1>0. /\ n \in Nat /\ n > 0 /\ Len(seqs) = n
      /\ c[0] = 0 /\ c[n] = Len(t) /\ \A i \in 0..n : c[i] \in 0..Len(t)
      /\ \A i \in 1..n : c[i - 1] <= c[i] /\ seqs[i] = SubSeq(t, c[i - 1] + 1, c[i])
  BY DEF Cuts
<1> USE <1>0
<1> DEFINE g == [i \in 1..n |-> SubSeq(t, 1, c[i])]
           step(f) == [i \in 1..n |-> IF i = 1 THEN seqs[i] ELSE f[i - 1] \o seqs[i]]
           F == CHOOSE f : f = step(f)
<1>1. FlattenSeq(seqs) = F[n]
  BY DEF FlattenSeq
<1>2. \A i \in 1..n : i # 1 => SubSeq(t, 1, c[i - 1]) \o seqs[i] = SubSeq(t, 1, c[i])
  <2> SUFFICES ASSUME NEW i \in 1..n, i # 1
               PROVE  SubSeq(t, 1, c[i - 1]) \o SubSeq(t, c[i - 1] + 1, c[i]) = SubSeq(t, 1, c[i])
    OBVIOUS
  <2>1. i \in 0..n /\ i - 1 \in 0..n
    OBVIOUS
  <2>2. PICK a \in Nat, b \in Nat, len \in Nat : a = c[i - 1] /\ b = c[i] /\ len = Len(t) /\ a <= b /\ b <= len
    <3>1. c[i - 1] \in 0..Len(t) /\ c[i] \in 0..Len(t) /\ c[i - 1] <= c[i] /\ Len(t) \in Nat
      BY <2>1
    <3> QED BY ONLY <3>1
  <2>3. 1 \in 1..(len + 1) /\ a \in (1 - 1)..len /\ b \in a..len
    BY <2>2
  <2> QED BY <2>2, <2>3, ConcatAdjacentSubSeq
<1>3. seqs[1] = SubSeq(t, 1, c[1])
  <2>1. 1 \in 1..n /\ 1 - 1 = 0 /\ 0 + 1 = 1
    OBVIOUS
  <2> QED BY <2>1
<1>4. g = step(g)
  <2>1. \A i \in 1..n : i # 1 => i - 1 \in 1..n
    OBVIOUS
  <2>2. \A i \in 1..n : SubSeq(t, 1, c[i]) = IF i = 1 THEN seqs[i] ELSE g[i - 1] \o seqs[i]
    BY <1>2, <1>3, <2>1
  <2> QED BY <2>2, Zenon
<1>5. F = step(F)
  <2> HIDE DEF step
  <2> QED BY <1>4
<1> DEFINE Bad == {i \in 1..n : F[i] # g[i]}
<1> HIDE DEF F
<1>6. \A i \in 1..n : F[i] = IF i = 1 THEN seqs[i] ELSE F[i - 1] \o seqs[i]
  <2> SUFFICES ASSUME NEW i \in 1..n PROVE F[i] = IF i = 1 THEN seqs[i] ELSE F[i - 1] \o seqs[i]
    OBVIOUS
  <2>1. step(F)[i] = IF i = 1 THEN seqs[i] ELSE F[i - 1] \o seqs[i]
    OBVIOUS
  <2> HIDE DEF step
  <2> QED BY <1>5, <2>1
<1>7. Bad = {}
  <2> SUFFICES ASSUME Bad # {} PROVE FALSE
    OBVIOUS
  <2>1. PICK i \in Bad : \A j \in Bad : i <= j
    <3> HIDE DEF Bad
    <3>1. Bad \subseteq Nat
      BY DEF Bad
    <3> QED BY <3>1, MinExists
  <2>2. i # 1
    BY <1>3, <1>6, <2>1
  <2>3. i - 1 \in 1..n /\ i - 1 \notin Bad
    <3>1. i \in 1..n /\ i - 1 \in 1..n /\ ~(i <= i - 1)
      BY <2>1, <2>2
    <3> HIDE DEF Bad
    <3> QED BY <2>1, <3>1
  <2>4. F[i - 1] = g[i - 1] /\ F[i] = F[i - 1] \o seqs[i]
    BY <1>6, <2>1, <2>2, <2>3
  <2>5. F[i] = SubSeq(t, 1, c[i])
    BY <1>2, <2>1, <2>2, <2>3, <2>4
  <2> QED BY <2>1, <2>5
<1>8. F[n] = g[n]
  <2>1. n \in 1..n
    OBVIOUS
  <2> HIDE DEF g
  <2> QED BY <1>7, <2>1
<1>9. g[n] = SubSeq(t, 1, Len(t))
  BY DEF g
<1> QED BY <1>1, <1>8, <1>9, SubSeqFull

(* The four characters of a group of three bytes.                          *)
LEMMA Chars ==
  ASSUME NEW d \in Seq(Bytes), NEW h \in Nat, NEW G \in Nat, G = (Len(d) + 2) \div 3, h < G
  PROVE  LET e == Base64Encode(d)
             b0 == Byte(d, 3 * h + 1)  b1 == Byte(d, 3 * h + 2)  b2 == Byte(d, 3 * h + 3)
         IN /\ Len(e) = 4 * G /\ DOMAIN e = 1..(4 * G)
            /\ Byte(e, 4 * h + 1) = b0 \div 4
            /\ Byte(e, 4 * h + 2) = (b0 % 4) * 16 + b1 \div 16
            /\ Byte(e, 4 * h + 3) = IF 3 * h + 2 <= Len(d) THEN (b1 % 16) * 4 + b2 \div 64 ELSE Pad
            /\ Byte(e, 4 * h + 4) = IF 3 * h + 3 <= Len(d) THEN b2 % 64 ELSE Pad
<1> DEFINE e == Base64Encode(d)
           b0 == Byte(d, 3 * h + 1)
           b1 == Byte(d, 3 * h + 2)
           b2 == Byte(d, 3 * h + 3)
           body(m, q) ==
             LET i == 3 * q + 1
                 c0 == Byte(d, i)  c1 == Byte(d, i + 1)  c2 == Byte(d, i + 2)
             IN CASE m = 0 -> c0 \div 4
                  [] m = 1 -> (c0 % 4) * 16 + c1 \div 16
                  [] m = 2 -> IF i + 1 <= Len(d) THEN (c1 % 16) * 4 + c2 \div 64 ELSE Pad
                  [] m = 3 -> IF i + 2 <= Len(d) THEN c2 % 64 ELSE Pad
<1>1. e = [j \in 1..(4 * G) |-> body((j - 1) % 4, (j - 1) \div 4)]
  BY DEF Base64Encode
<1> HIDE DEF e
<1>2. DOMAIN e = 1..(4 * G) /\ Len(e) = 4 * G
  <2>1. 4 * G \in Nat
    OBVIOUS
  <2>2. DOMAIN e = 1..(4 * G)
    BY <1>1
  <2>3. e = [j \in 1..(4 * G) |-> e[j]]
    BY <1>1
  <2> QED BY <2>1, <2>2, <2>3
<1>3. \A n \in 1..4 : /\ 4 * h + n \in DOMAIN e /\ 4 * h + n <= Len(e)
                      /\ (4 * h + n - 1) \div 4 = h /\ (4 * h + n - 1) % 4 = n - 1
  <2> SUFFICES ASSUME NEW n \in 1..4
               PROVE  /\ 4 * h + n \in 1..(4 * G) /\ 4 * h + n <= 4 * G
                      /\ (4 * h + n - 1) \div 4 = h /\ (4 * h + n - 1) % 4 = n - 1
    BY <1>2
  <2> QED OBVIOUS
<1>4. \A n \in 1..4 : Byte(e, 4 * h + n) = body(n - 1, h)
  <2> HIDE DEF body
  <2> SUFFICES ASSUME NEW n \in 1..4 PROVE Byte(e, 4 * h + n) = body(n - 1, h)
    OBVIOUS
  <2>1. PICK j : j = 4 * h + n
    OBVIOUS
  <2>2. j \in 1..(4 * G) /\ j <= Len(e) /\ (j - 1) \div 4 = h /\ (j - 1) % 4 = n - 1
    BY <1>2, <1>3, <2>1
  <2>3. e[j] = body((j - 1) % 4, (j - 1) \div 4)
    BY <1>1, <2>2
  <2> QED BY <2>1, <2>2, <2>3 DEF Byte
<1>5. 3 * h + 1 + 1 = 3 * h + 2 /\ 3 * h + 1 + 2 = 3 * h + 3
  OBVIOUS
<1>6. Byte(e, 4 * h + 1) = b0 \div 4
  BY <1>4
<1>7. Byte(e, 4 * h + 2) = (b0 % 4) * 16 + b1 \div 16
  BY <1>4, <1>5
<1>8. Byte(e, 4 * h + 3) = IF 3 * h + 2 <= Len(d) THEN (b1 % 16) * 4 + b2 \div 64 ELSE Pad
  BY <1>4, <1>5
<1>9. Byte(e, 4 * h + 4) = IF 3 * h + 3 <= Len(d) THEN b2 % 64 ELSE Pad
  BY <1>4, <1>5
<1> QED BY <1>2, <1>6, <1>7, <1>8, <1>9 DEF e

(* What three bytes become and are again.                                  *)
Packed(b0, b1, b2, w1, w2, w3, w4) ==
    /\ w1 = b0 \div 4 /\ w2 = (b0 % 4) * 16 + b1 \div 16
    /\ w3 = (b1 % 16) * 4 + b2 \div 64 /\ w4 = b2 % 64

LEMMA Sextets ==
  ASSUME NEW b0 \in Bytes, NEW b1 \in Bytes, NEW b2 \in Bytes,
         NEW w1, NEW w2, NEW w3, NEW w4, Packed(b0, b1, b2, w1, w2, w3, w4)
  PROVE  /\ w1 \in 0..63 /\ w2 \in 0..63 /\ w3 \in 0..63 /\ w4 \in 0..63
         /\ (w1 * 4 + w2 \div 16) % 256 = b0
         /\ (w2 * 16 + w3 \div 4) % 256 = b1
         /\ (w3 * 64 + w4) % 256 = b2
<1>1. PICK q0 \in 0..63, r0 \in 0..3 : b0 = 4 * q0 + r0 /\ q0 = b0 \div 4 /\ r0 = b0 % 4
  BY DEF Bytes
<1>2. PICK q1 \in 0..15, r1 \in 0..15 : b1 = 16 * q1 + r1 /\ q1 = b1 \div 16 /\ r1 = b1 % 16
  BY DEF Bytes
<1>3. PICK q2 \in 0..3, r2 \in 0..63 : b2 = 64 * q2 + r2 /\ q2 = b2 \div 64 /\ r2 = b2 % 64
  BY DEF Bytes
<1>4. w1 = q0 /\ w2 = r0 * 16 + q1 /\ w3 = r1 * 4 + q2 /\ w4 = r2
  BY <1>1, <1>2, <1>3 DEF Packed
<1>5. w1 \in 0..63 /\ w2 \in 0..63 /\ w3 \in 0..63 /\ w4 \in 0..63
  BY <1>4
<1>6. w2 \div 16 = r0 /\ w3 \div 4 = r1
  BY <1>4
<1>0. b0 \in 0..255 /\ b1 \in 0..255 /\ b2 \in 0..255
  BY DEF Bytes
<1>7. w1 * 4 + w2 \div 16 = b0
  <2>1. b0 = 4 * q0 + r0
    BY <1>1
  <2> QED BY <1>4, <1>6, <2>1
<1>8. w2 * 16 + w3 \div 4 = 256 * r0 + b1
  <2>1. b1 = 16 * q1 + r1
    BY <1>2
  <2> QED BY <1>4, <1>6, <2>1
<1>9. w3 * 64 + w4 = 256 * r1 + b2
  <2>1. b2 = 64 * q2 + r2
    BY <1>3
  <2> QED BY <1>4, <2>1
<1>10. \A r \in 0..15, b \in 0..255 : (256 * r + b) % 256 = b /\ b % 256 = b
  OBVIOUS
<1>11. (w1 * 4 + w2 \div 16) % 256 = b0
  BY <1>0, <1>7, <1>10
<1>12. (w2 * 16 + w3 \div 4) % 256 = b1
  <2>1. r0 \in 0..15
    OBVIOUS
  <2> QED BY <1>0, <1>8, <1>10, <2>1
<1>13. (w3 * 64 + w4) % 256 = b2
  BY <1>0, <1>9, <1>10
<1> QED BY <1>5, <1>11, <1>12, <1>13

LEMMA Tuples ==
  ASSUME NEW S, NEW a \in S, NEW b \in S, NEW c \in S
  PROVE  /\ <<a>> \o <<b>> \o <<c>> = <<a, b, c>>
         /\ <<a>> \o <<b>> \o <<>> = <<a, b>>
         /\ <<a>> \o <<>> \o <<>> = <<a>>
<1>1. <<a>> \in Seq(S) /\ <<b>> \in Seq(S) /\ <<c>> \in Seq(S) /\ <<a, b>> \in Seq(S)
      /\ <<a, b, c>> \in Seq(S)
  OBVIOUS
<1>2. <<a>> \o <<b>> = <<a, b>>
  <2> DEFINE s == <<a>> \o <<b>>
  <2>1. s \in Seq(S) /\ Len(s) = 2 /\ s[1] = a /\ s[2] = b
    BY <1>1, ConcatProperties
  <2> HIDE DEF s
  <2>2. s = <<a, b>>
    BY <2>1
  <2> QED BY <2>2 DEF s
<1>3. <<a, b>> \o <<c>> = <<a, b, c>>
  <2> DEFINE s == <<a, b>> \o <<c>>
  <2>1. s \in Seq(S) /\ Len(s) = 3 /\ s[1] = a /\ s[2] = b /\ s[3] = c
    BY <1>1, ConcatProperties
  <2> HIDE DEF s
  <2>2. s = <<a, b, c>>
    BY <2>1
  <2> QED BY <2>2 DEF s
<1>4. <<a, b>> \o <<>> = <<a, b>> /\ <<a>> \o <<>> = <<a>>
  BY <1>1, ConcatEmptySeq
<1> QED BY <1>2, <1>3, <1>4

LEMMA Bytewise ==
  ASSUME NEW d \in Seq(Bytes), NEW i \in Nat, i > 0
  PROVE  Byte(d, i) \in Bytes /\ (i <= Len(d) => Byte(d, i) = d[i]) /\ (i > Len(d) => Byte(d, i) = 0)
<1>1. 0 \in Bytes
  BY DEF Bytes
<1>2. i <= Len(d) => d[i] \in Bytes
  OBVIOUS
<1> QED BY <1>1, <1>2 DEF Byte

(* A group is decoded to the bytes it was made of.                         *)
LEMMA Group3 ==
  ASSUME NEW d \in Seq(Bytes), NEW h \in Nat, NEW G \in Nat, G = (Len(d) + 2) \div 3, h < G
  PROVE  LET e == Base64Encode(d)
             ch(n) == Byte(e, 4 * h + n)
             v(n) == Sextet(ch(n))
         IN << (v(1) * 4 + v(2) \div 16) % 256 >>
            \o (IF ch(3) # Pad THEN << (v(2) * 16 + v(3) \div 4) % 256 >> ELSE <<>>)
            \o (IF ch(4) # Pad THEN << (v(3) * 64 + v(4)) % 256 >> ELSE <<>>)
            = SubSeq(d, 3 * h + 1, IF 3 * h + 3 <= Len(d) THEN 3 * h + 3 ELSE Len(d))
<1> DEFINE e == Base64Encode(d)
           ch(n) == Byte(e, 4 * h + n)
           v(n) == Sextet(ch(n))
<1>1. PICK L \in Nat : L = Len(d)
  OBVIOUS
<1>2. 3 * h + 1 <= L
  BY <1>1
<1>3. PICK b0 \in Bytes, b1 \in Bytes, b2 \in Bytes :
        b0 = Byte(d, 3 * h + 1) /\ b1 = Byte(d, 3 * h + 2) /\ b2 = Byte(d, 3 * h + 3)
  <2>1. 3 * h + 1 \in Nat /\ 3 * h + 2 \in Nat /\ 3 * h + 3 \in Nat
        /\ 3 * h + 1 > 0 /\ 3 * h + 2 > 0 /\ 3 * h + 3 > 0
    OBVIOUS
  <2> QED BY <2>1, Bytewise
<1>3a. PICK w1, w2, w3, w4 : Packed(b0, b1, b2, w1, w2, w3, w4)
  BY Zenon DEF Packed
<1>4. /\ w1 \in 0..63 /\ w2 \in 0..63 /\ w3 \in 0..63 /\ w4 \in 0..63
      /\ (w1 * 4 + w2 \div 16) % 256 = b0
      /\ (w2 * 16 + w3 \div 4) % 256 = b1
      /\ (w3 * 64 + w4) % 256 = b2
  <2> HIDE DEF e, ch, v
  <2> QED BY <1>3a, Sextets
<1>5. /\ ch(1) = w1 /\ ch(2) = w2
      /\ ch(3) = (IF 3 * h + 2 <= L THEN w3 ELSE Pad)
      /\ ch(4) = (IF 3 * h + 3 <= L THEN w4 ELSE Pad)
  BY <1>1, <1>3, <1>3a, Chars DEF Packed
<1> HIDE DEF ch
<1>6. v(1) = w1 /\ v(2) = w2
      /\ (3 * h + 2 <= L => ch(3) # Pad /\ v(3) = w3) /\ (3 * h + 3 <= L => ch(4) # Pad /\ v(4) = w4)
  <2>1. \A w \in 0..63 : w # Pad /\ Sextet(w) = w
    BY DEF Sextet, Pad
  <2>2. v(1) = w1 /\ v(2) = w2
    BY <1>4, <1>5, <2>1
  <2>3. 3 * h + 2 <= L => ch(3) # Pad /\ v(3) = w3
    BY <1>4, <1>5, <2>1, Zenon
  <2>4. 3 * h + 3 <= L => ch(4) # Pad /\ v(4) = w4
    BY <1>4, <1>5, <2>1, Zenon
  <2> QED BY <2>2, <2>3, <2>4
<1> HIDE DEF v
<1>7. (v(1) * 4 + v(2) \div 16) % 256 = b0
  BY <1>4, <1>6
<1>8. 3 * h + 2 <= L => ch(3) # Pad /\ (v(2) * 16 + v(3) \div 4) % 256 = b1
  BY <1>4, <1>6
<1>9. 3 * h + 3 <= L => ch(4) # Pad /\ (v(3) * 64 + v(4)) % 256 = b2
  <2> SUFFICES ASSUME 3 * h + 3 <= L PROVE ch(4) # Pad /\ (v(3) * 64 + v(4)) % 256 = b2
    OBVIOUS
  <2>1. 3 * h + 2 <= L
    BY <1>1
  <2> QED BY <1>4, <1>6, <2>1
<1>10. (3 * h + 2 > L => ch(3) = Pad) /\ (3 * h + 3 > L => ch(4) = Pad)
  BY <1>1, <1>5
<1>11. b0 = d[3 * h + 1] /\ (3 * h + 2 <= L => b1 = d[3 * h + 2]) /\ (3 * h + 3 <= L => b2 = d[3 * h + 3])
  BY <1>1, <1>2, <1>3 DEF Byte
<1> DEFINE piece == << (v(1) * 4 + v(2) \div 16) % 256 >>
                    \o (IF ch(3) # Pad THEN << (v(2) * 16 + v(3) \div 4) % 256 >> ELSE <<>>)
                    \o (IF ch(4) # Pad THEN << (v(3) * 64 + v(4)) % 256 >> ELSE <<>>)
<1> HIDE DEF v
<1>12. PICK k \in Nat : k = 3 * h + 1 /\ 3 * h + 2 = k + 1 /\ 3 * h + 3 = k + 2 /\ k > 0
  OBVIOUS
<1>13. \A i \in 1..L : d[i] \in Bytes
  BY <1>1
<1>14. piece = SubSeq(d, k, IF k + 2 <= L THEN k + 2 ELSE L)
  <2>0. PICK m \in Nat : m = IF k + 2 <= L THEN k + 2 ELSE L
    OBVIOUS
  <2> DEFINE t == SubSeq(d, k, m)
  <2>1. k <= m /\ m <= L
    BY <1>2, <1>12, <2>0
  <2>2. \A i \in k..m : d[i] \in Bytes
    BY <1>12, <1>13, <2>1
  <2>3. t \in Seq(Bytes) /\ Len(t) = m - k + 1 /\ \A i \in 1..(m - k + 1) : t[i] = d[k + i - 1]
    BY <2>1, <2>2, SubSeqProperties
  <2> HIDE DEF t
  <2>4. ASSUME k + 2 <= L PROVE piece = t
    <3>1. 3 * h + 3 <= L /\ 3 * h + 2 <= L
      BY <1>12, <2>4
    <3>2. piece = <<b0, b1, b2>>
      <4>1. piece = <<b0>> \o <<b1>> \o <<b2>>
        BY <1>7, <1>8, <1>9, <3>1
      <4>2. <<b0>> \o <<b1>> \o <<b2>> = <<b0, b1, b2>>
        BY Tuples
      <4> QED BY <4>1, <4>2, Zenon
    <3>3. Len(t) = 3 /\ t[1] = b0 /\ t[2] = b1 /\ t[3] = b2
      <4>1. m - k + 1 = 3 /\ k + 1 - 1 = k /\ k + 2 - 1 = k + 1 /\ k + 3 - 1 = k + 2
        BY <2>0, <2>4
      <4>2. Len(t) = 3 /\ t[1] = d[k] /\ t[2] = d[k + 1] /\ t[3] = d[k + 2]
        BY <2>3, <4>1
      <4> QED BY <1>11, <1>12, <3>1, <4>2
    <3>4. t = <<b0, b1, b2>>
      BY <2>3, <3>3
    <3> HIDE DEF piece
    <3> QED BY <3>2, <3>4
  <2>5. ASSUME L = k + 1 PROVE piece = t
    <3>1. 3 * h + 3 > L /\ 3 * h + 2 <= L
      BY <1>12, <2>5
    <3>2. piece = <<b0, b1>>
      <4>1. piece = <<b0>> \o <<b1>> \o <<>>
        BY <1>7, <1>8, <1>10, <3>1
      <4>2. <<b0>> \o <<b1>> \o <<>> = <<b0, b1>>
        BY Tuples
      <4> QED BY <4>1, <4>2, Zenon
    <3>3. Len(t) = 2 /\ t[1] = b0 /\ t[2] = b1
      <4>1. m - k + 1 = 2 /\ k + 1 - 1 = k /\ k + 2 - 1 = k + 1
        BY <1>12, <2>0, <2>5
      <4>2. Len(t) = 2 /\ t[1] = d[k] /\ t[2] = d[k + 1]
        BY <2>3, <4>1
      <4> QED BY <1>11, <1>12, <3>1, <4>2
    <3>4. t = <<b0, b1>>
      BY <2>3, <3>3
    <3> HIDE DEF piece
    <3> QED BY <3>2, <3>4
  <2>6. ASSUME L = k PROVE piece = t
    <3>1. 3 * h + 3 > L /\ 3 * h + 2 > L
      BY <1>12, <2>6
    <3>2. piece = <<b0>>
      <4>1. piece = <<b0>> \o <<>> \o <<>>
        BY <1>7, <1>10, <3>1
      <4>2. <<b0>> \o <<>> \o <<>> = <<b0>>
        BY Tuples
      <4> QED BY <4>1, <4>2, Zenon
    <3>3. Len(t) = 1 /\ t[1] = b0
      <4>1. m - k + 1 = 1 /\ k + 1 - 1 = k
        BY <1>12, <2>0, <2>6
      <4>2. Len(t) = 1 /\ t[1] = d[k]
        BY <2>3, <4>1
      <4> QED BY <1>11, <1>12, <4>2
    <3>4. t = <<b0>>
      BY <2>3, <3>3
    <3> HIDE DEF piece
    <3> QED BY <3>2, <3>4
  <2>7. k + 2 <= L \/ L = k + 1 \/ L = k
    BY <1>2, <1>12
  <2> HIDE DEF piece
  <2>8. piece = t
    BY <2>4, <2>5, <2>6, <2>7
  <2> QED BY <2>0, <2>8 DEF t
<1>15. piece = SubSeq(d, 3 * h + 1, IF 3 * h + 3 <= Len(d) THEN 3 * h + 3 ELSE Len(d))
  <2> HIDE DEF piece
  <2> QED BY <1>1, <1>12, <1>14
<1> QED BY <1>15, Zenon DEF v, ch, e

(* base64 loses nothing.                                                   *)
LEMMA Base64RoundTrip ==
  ASSUME NEW d \in Seq(Bytes), d # <<>>
  PROVE  Base64Decode(Base64Encode(d)) = d
<1> DEFINE e == Base64Encode(d)
           G == (Len(d) + 2) \div 3
           L == Len(d)
           group(g) ==
             LET ch(n) == Byte(e, 4 * (g - 1) + n)
                 v(n) == Sextet(ch(n))
             IN << (v(1) * 4 + v(2) \div 16) % 256 >>
                \o (IF ch(3) # Pad THEN << (v(2) * 16 + v(3) \div 4) % 256 >> ELSE <<>>)
                \o (IF ch(4) # Pad THEN << (v(3) * 64 + v(4)) % 256 >> ELSE <<>>)
           c == [i \in 0..G |-> IF 3 * i <= L THEN 3 * i ELSE L]
           seqs == [g \in 1..G |-> group(g)]
<1>1. L \in Nat /\ L > 0
  OBVIOUS
<1>2. G \in Nat /\ G > 0 /\ 3 * G >= L /\ 3 * (G - 1) < L
  BY <1>1
<1> HIDE DEF L, G
<1>3. Len(e) = 4 * G
  <2>1. 0 < G /\ 0 \in Nat
    BY <1>2
  <2> QED BY <1>2, <2>1, Chars DEF G
<1>4. Base64Decode(e) = FlattenSeq(seqs)
  <2>1. (4 * G + 3) \div 4 = G
    BY <1>2
  <2> QED BY <1>3, <2>1, Zenon DEF Base64Decode
<1>5. \A g \in 1..G : group(g) = SubSeq(d, 3 * (g - 1) + 1, IF 3 * (g - 1) + 3 <= L THEN 3 * (g - 1) + 3 ELSE L)
  <2> SUFFICES ASSUME NEW g \in 1..G
               PROVE  group(g) = SubSeq(d, 3 * (g - 1) + 1, IF 3 * (g - 1) + 3 <= L THEN 3 * (g - 1) + 3 ELSE L)
    BY Zenon
  <2>1. PICK h \in Nat : h = g - 1 /\ h < G
    BY <1>2
  <2> QED BY <1>2, <2>1, Group3, Zenon DEF G, L
<1> HIDE DEF group, e
<1>6. \A g \in 1..G : 3 * (g - 1) + 3 = 3 * g /\ g - 1 \in 0..G /\ g \in 0..G
  BY <1>2
<1>7. \A i \in 0..G : c[i] \in 0..L
  BY <1>1, <1>2
<1>8. c[0] = 0 /\ c[G] = L
  BY <1>1, <1>2
<1>9. \A i \in 1..G : /\ c[i - 1] = 3 * (i - 1) /\ c[i - 1] <= c[i]
                      /\ c[i] = IF 3 * (i - 1) + 3 <= L THEN 3 * (i - 1) + 3 ELSE L
  BY <1>1, <1>2
<1> HIDE DEF c
<1>10. \A i \in 1..G : seqs[i] = SubSeq(d, c[i - 1] + 1, c[i])
  BY <1>5, <1>9, Zenon
<1>11. seqs \in Seq(Seq(Bytes)) /\ Len(seqs) = G
  <2>1. \A i \in 1..G : seqs[i] \in Seq(Bytes)
    <3> SUFFICES ASSUME NEW i \in 1..G PROVE SubSeq(d, c[i - 1] + 1, c[i]) \in Seq(Bytes)
      BY <1>10
    <3>1. PICK m \in Nat, n \in Nat : m = c[i - 1] + 1 /\ n = c[i] /\ m >= 1 /\ n <= L
      BY <1>6, <1>7, <1>1
    <3>2. \A j \in m..n : d[j] \in Bytes
      <4>1. \A j \in m..n : j \in 1..L
        BY <1>1, <3>1
      <4> QED BY <4>1 DEF L
    <3> QED BY <3>1, <3>2, SubSeqProperties
  <2>2. seqs = [i \in 1..G |-> seqs[i]]
    BY Zenon
  <2> HIDE DEF seqs
  <2> QED BY <1>2, <2>1, <2>2
<1> HIDE DEF seqs
<1>12. FlattenSeq(seqs) = d
  <2>1. c[0] = 0 /\ c[G] = Len(d) /\ \A i \in 0..G : c[i] \in 0..Len(d)
    BY <1>7, <1>8 DEF L
  <2>2. \A i \in 1..G : c[i - 1] <= c[i] /\ seqs[i] = SubSeq(d, c[i - 1] + 1, c[i])
    BY <1>9, <1>10, Zenon
  <2>3. G \in Nat /\ G > 0
    BY <1>2
  <2>4. Cuts(seqs, d, G, c)
    BY <1>11, <2>1, <2>2, <2>3 DEF Cuts
  <2> QED BY <1>11, <2>4, FlattenCuts
<1> QED BY <1>4, <1>12 DEF e

-----------------------------------------------------------------------------
(* The order of keys.  Past its end a key has something below every byte.  *)

At(s, i) == IF i <= Len(s) THEN s[i] ELSE -1
Less(s, t) ==
    \E i \in Nat \ {0} : At(s, i) < At(t, i) /\ \A j \in 1..(i - 1) : At(s, j) = At(t, j)

LEMMA AtType ==
  ASSUME NEW s \in Seq(Bytes), NEW i \in Nat \ {0}
  PROVE  /\ At(s, i) \in Int /\ At(s, i) >= -1 /\ At(s, i) <= 255
         /\ i <= Len(s) => At(s, i) = s[i] /\ At(s, i) >= 0
         /\ i > Len(s) => At(s, i) = -1
<1>1. i <= Len(s) => s[i] \in Bytes
  OBVIOUS
<1>2. \A b \in Bytes : b \in Int /\ b >= 0 /\ b <= 255
  BY DEF Bytes
<1>3. CASE i <= Len(s)
  BY <1>1, <1>2, <1>3 DEF At
<1>4. CASE ~(i <= Len(s))
  BY <1>4 DEF At
<1> QED BY <1>3, <1>4

LEMMA SameStart ==
  ASSUME NEW s \in Seq(Bytes), NEW t \in Seq(Bytes), NEW n \in Nat, n <= Len(s), n <= Len(t)
  PROVE  SubSeq(s, 1, n) = SubSeq(t, 1, n) <=> \A j \in 1..n : At(s, j) = At(t, j)
<1>1. \A j \in 1..n : /\ At(s, j) = s[j] /\ At(t, j) = t[j] /\ s[j] \in Bytes /\ t[j] \in Bytes
                      /\ j \in Nat \ {0}
  BY DEF At
<1>2. /\ SubSeq(s, 1, n) \in Seq(Bytes) /\ Len(SubSeq(s, 1, n)) = n
      /\ \A j \in 1..n : SubSeq(s, 1, n)[j] = s[j]
  <2>1. n - 1 + 1 = n /\ \A j \in 1..n : 1 + j - 1 = j
    OBVIOUS
  <2> QED BY <1>1, <2>1, SubSeqProperties
<1>3. /\ SubSeq(t, 1, n) \in Seq(Bytes) /\ Len(SubSeq(t, 1, n)) = n
      /\ \A j \in 1..n : SubSeq(t, 1, n)[j] = t[j]
  <2>1. n - 1 + 1 = n /\ \A j \in 1..n : 1 + j - 1 = j
    OBVIOUS
  <2> QED BY <1>1, <2>1, SubSeqProperties
<1>4. PICK u, w : u = SubSeq(s, 1, n) /\ w = SubSeq(t, 1, n)
  OBVIOUS
<1>5. u = w <=> \A j \in 1..n : u[j] = w[j]
  BY <1>2, <1>3, <1>4, SeqEqual
<1> QED BY <1>1, <1>2, <1>3, <1>4, <1>5

(* Below is the order of etcd's keys.                                      *)
LEMMA BelowIsLess ==
  ASSUME NEW s \in Seq(Bytes), NEW t \in Seq(Bytes)
  PROVE  Below(s, t) <=> Less(s, t)
<1> DEFINE m == Min({Len(s), Len(t)})
<1>1. m \in Nat /\ m <= Len(s) /\ m <= Len(t) /\ (m = Len(s) \/ m = Len(t))
  <2>1. {Len(s), Len(t)} \subseteq Nat /\ {Len(s), Len(t)} # {}
    OBVIOUS
  <2> QED BY <2>1, MinExists
<1> HIDE DEF m
<1>2. Len(s) \in Nat /\ Len(t) \in Nat
  OBVIOUS
<1>3. ASSUME NEW i \in 1..m, s[i] < t[i], SubSeq(s, 1, i - 1) = SubSeq(t, 1, i - 1)
      PROVE  Less(s, t)
  <2>1. i \in Nat \ {0} /\ i <= Len(s) /\ i <= Len(t) /\ i - 1 \in Nat /\ i - 1 <= Len(s) /\ i - 1 <= Len(t)
    BY <1>1, <1>2
  <2>2. At(s, i) < At(t, i)
    BY <1>3, <2>1, AtType
  <2>3. \A j \in 1..(i - 1) : At(s, j) = At(t, j)
    BY <1>3, <2>1, SameStart
  <2> QED BY <2>1, <2>2, <2>3 DEF Less
<1>4. ASSUME Len(s) < Len(t), SubSeq(t, 1, Len(s)) = s
      PROVE  Less(s, t)
  <2>1. PICK i \in Nat \ {0} : i = Len(s) + 1 /\ i > Len(s) /\ i <= Len(t) /\ i - 1 = Len(s)
    BY <1>2, <1>4
  <2>2. At(s, i) < At(t, i)
    BY <2>1, AtType
  <2>3. SubSeq(s, 1, Len(s)) = SubSeq(t, 1, Len(s))
    BY <1>4, SubSeqFull
  <2>4. \A j \in 1..(i - 1) : At(s, j) = At(t, j)
    BY <1>2, <1>4, <2>1, <2>3, SameStart
  <2> QED BY <2>1, <2>2, <2>4 DEF Less
<1>5. ASSUME Less(s, t) PROVE Below(s, t)
  <2>1. PICK i \in Nat \ {0} : At(s, i) < At(t, i) /\ \A j \in 1..(i - 1) : At(s, j) = At(t, j)
    BY <1>5 DEF Less
  <2>2. i <= Len(t)
    <3>1. At(s, i) >= -1 /\ At(s, i) \in Int /\ At(t, i) \in Int /\ (i > Len(t) => At(t, i) = -1)
      BY AtType
    <3> QED BY <1>2, <2>1, <3>1
  <2>3. CASE i <= Len(s)
    <3>1. i \in 1..m /\ i - 1 \in Nat /\ i - 1 <= Len(s) /\ i - 1 <= Len(t)
      BY <1>1, <1>2, <2>2, <2>3
    <3>2. s[i] < t[i]
      BY <2>1, <2>2, <2>3, AtType
    <3>3. SubSeq(s, 1, i - 1) = SubSeq(t, 1, i - 1)
      BY <2>1, <3>1, SameStart
    <3> QED BY <3>1, <3>2, <3>3 DEF Below, m
  <2>4. CASE i > Len(s)
    <3>1. i = Len(s) + 1
      <4> SUFFICES ASSUME i # Len(s) + 1 PROVE FALSE
        OBVIOUS
      <4>1. PICK j \in Nat \ {0} : j = Len(s) + 1 /\ j \in 1..(i - 1) /\ j > Len(s) /\ j <= Len(t)
        BY <1>2, <2>2, <2>4
      <4>2. At(s, j) = -1 /\ At(t, j) >= 0
        BY <4>1, AtType
      <4> QED BY <2>1, <4>1, <4>2
    <3>2. Len(s) < Len(t) /\ i - 1 = Len(s)
      BY <1>2, <2>2, <3>1
    <3>3. SubSeq(s, 1, Len(s)) = SubSeq(t, 1, Len(s))
      BY <1>2, <2>1, <3>2, SameStart
    <3>4. SubSeq(s, 1, Len(s)) = s
      BY SubSeqFull
    <3> QED BY <3>2, <3>3, <3>4 DEF Below
  <2> QED BY <1>2, <2>3, <2>4
<1> QED BY <1>3, <1>4, <1>5 DEF Below, m

LEMMA LessOrder ==
  /\ \A s \in Seq(Bytes) : ~Less(s, s)
  /\ \A s, t, u \in Seq(Bytes) : Less(s, t) /\ Less(t, u) => Less(s, u)
  /\ \A s, t \in Seq(Bytes) : s # t => Less(s, t) \/ Less(t, s)
<1>1. ASSUME NEW s \in Seq(Bytes), Less(s, s) PROVE FALSE
  <2>1. PICK i \in Nat \ {0} : At(s, i) < At(s, i)
    BY <1>1 DEF Less
  <2> QED BY <2>1, AtType
<1>2. ASSUME NEW s \in Seq(Bytes), NEW t \in Seq(Bytes), NEW u \in Seq(Bytes), Less(s, t), Less(t, u)
      PROVE  Less(s, u)
  <2>1. PICK i \in Nat \ {0} : At(s, i) < At(t, i) /\ \A j \in 1..(i - 1) : At(s, j) = At(t, j)
    BY <1>2 DEF Less
  <2>2. PICK k \in Nat \ {0} : At(t, k) < At(u, k) /\ \A j \in 1..(k - 1) : At(t, j) = At(u, j)
    BY <1>2 DEF Less
  <2>3. PICK n \in Nat \ {0} : n = IF i <= k THEN i ELSE k
    OBVIOUS
  <2>4. /\ \A j \in 1..(n - 1) : j \in 1..(i - 1) /\ j \in 1..(k - 1)
        /\ n = i \/ n \in 1..(i - 1)
        /\ n = k \/ n \in 1..(k - 1)
        /\ n = i \/ n = k
    BY <2>3
  <2>5. At(s, n) \in Int /\ At(t, n) \in Int /\ At(u, n) \in Int
    BY AtType
  <2>6. At(s, n) < At(u, n)
    <3>1. n = i => At(s, n) < At(t, n)
      BY <2>1
    <3>2. n # i => At(s, n) = At(t, n)
      BY <2>1, <2>4
    <3>3. n = k => At(t, n) < At(u, n)
      BY <2>2
    <3>4. n # k => At(t, n) = At(u, n)
      BY <2>2, <2>4
    <3> QED BY <2>4, <2>5, <3>1, <3>2, <3>3, <3>4
  <2>7. \A j \in 1..(n - 1) : At(s, j) = At(u, j)
    BY <2>1, <2>2, <2>4
  <2> QED BY <2>6, <2>7 DEF Less
<1>3. ASSUME NEW s \in Seq(Bytes), NEW t \in Seq(Bytes), s # t PROVE Less(s, t) \/ Less(t, s)
  <2> DEFINE D == {i \in Nat \ {0} : At(s, i) # At(t, i)}
  <2>1. D # {}
    <3> SUFFICES ASSUME \A i \in Nat \ {0} : At(s, i) = At(t, i) PROVE s = t
      BY <1>3
    <3>1. Len(s) <= Len(t)
      <4> SUFFICES ASSUME Len(s) > Len(t) PROVE FALSE
        OBVIOUS
      <4>1. Len(s) \in Nat \ {0} /\ Len(t) \in Nat
        OBVIOUS
      <4>2. At(s, Len(s)) >= 0 /\ At(t, Len(s)) = -1
        BY <4>1, AtType
      <4> QED BY <4>1, <4>2
    <3>2. Len(t) <= Len(s)
      <4> SUFFICES ASSUME Len(t) > Len(s) PROVE FALSE
        OBVIOUS
      <4>1. Len(t) \in Nat \ {0} /\ Len(s) \in Nat
        OBVIOUS
      <4>2. At(t, Len(t)) >= 0 /\ At(s, Len(t)) = -1
        BY <4>1, AtType
      <4> QED BY <4>1, <4>2
    <3>3. Len(s) = Len(t)
      BY <3>1, <3>2
    <3>4. \A i \in 1..Len(s) : s[i] = t[i]
      BY <3>3 DEF At
    <3> QED BY <3>3, <3>4, SeqEqual
  <2>2. PICK i \in D : \A j \in D : i <= j
    <3> HIDE DEF D
    <3>1. D \subseteq Nat
      BY DEF D
    <3> QED BY <2>1, <3>1, MinExists
  <2>3. i \in Nat \ {0} /\ At(s, i) # At(t, i) /\ At(s, i) \in Int /\ At(t, i) \in Int
    BY <2>2, AtType
  <2>4. \A j \in 1..(i - 1) : At(s, j) = At(t, j)
    <3> SUFFICES ASSUME NEW j \in 1..(i - 1), At(s, j) # At(t, j) PROVE FALSE
      OBVIOUS
    <3>1. j \in Nat \ {0} /\ ~(i <= j)
      BY <2>3
    <3> QED BY <2>2, <3>1
  <2>5. \A j \in 1..(i - 1) : At(t, j) = At(s, j)
    BY <2>4
  <2>6. At(s, i) < At(t, i) \/ At(t, i) < At(s, i)
    BY <2>3
  <2> QED BY <2>3, <2>4, <2>5, <2>6 DEF Less
<1> QED BY <1>1, <1>2, <1>3

-----------------------------------------------------------------------------
(* The range of the prefix.                                                *)

LEMMA MaxExists ==
  ASSUME NEW S, NEW n \in Nat, S \subseteq 1..n, S # {}
  PROVE  Max(S) \in S /\ \A y \in S : Max(S) >= y
<1> DEFINE T == {x \in 0..n : n - x \in S}
<1>1. T \subseteq Nat /\ T # {}
  <2>1. PICK y \in S : y \in 1..n
    OBVIOUS
  <2>2. n - y \in 0..n /\ n - (n - y) \in S
    <3>1. n - (n - y) = y
      BY <2>1
    <3> QED BY <2>1, <3>1
  <2>3. n - y \in T
    BY <2>2
  <2> HIDE DEF T
  <2>4. T # {}
    BY <2>3
  <2> QED BY <2>4 DEF T
<1>2. PICK x \in T : \A y \in T : x <= y
  <2> HIDE DEF T
  <2> QED BY <1>1, MinExists
<1>3. n - x \in S /\ \A y \in S : n - x >= y
  <2> SUFFICES ASSUME NEW y \in S PROVE n - x >= y
    BY <1>2
  <2>1. n - y \in T /\ y \in 1..n
    <3>1. y \in 1..n /\ n - y \in 0..n /\ n - (n - y) = y
      OBVIOUS
    <3> QED BY <3>1
  <2>2. x <= n - y /\ x \in 0..n
    BY <1>2, <2>1
  <2> QED BY <2>1, <2>2
<1> HIDE DEF T
<1>4. \E z \in S : \A y \in S : z >= y
  BY <1>3
<1> QED BY <1>4 DEF Max

\* The key after the last that begins with the prefix.
LastLow == Max({i \in DOMAIN Prefix : Prefix[i] < 255})
After == SubSeq(Prefix, 1, LastLow - 1) \o << Prefix[LastLow] + 1 >>

LEMMA PrefixFacts ==
  /\ Prefix \in Seq(Bytes) /\ Prefix # <<>> /\ Len(Prefix) \in Nat \ {0}
  /\ LastLow \in 1..Len(Prefix) /\ Prefix[LastLow] \in 0..254
  /\ \A j \in (LastLow + 1)..Len(Prefix) : Prefix[j] = 255
  /\ \A i \in 1..Len(Prefix) : Prefix[i] \in 0..255
<1> DEFINE low == {i \in DOMAIN Prefix : Prefix[i] < 255}
<1>1. Prefix \in Seq(Bytes) /\ low # {}
  BY KeysAssumption
<1>2. \A i \in 1..Len(Prefix) : Prefix[i] \in 0..255
  <2>1. \A i \in 1..Len(Prefix) : Prefix[i] \in Bytes
    BY <1>1
  <2> QED BY <2>1, Zenon DEF Bytes
<1>3. Len(Prefix) \in Nat /\ low \subseteq 1..Len(Prefix)
  BY <1>1
<1>4. LastLow \in low /\ \A y \in low : LastLow >= y
  <2> HIDE DEF low
  <2>1. LastLow = Max(low)
    BY DEF LastLow, low
  <2> QED BY <1>1, <1>3, <2>1, MaxExists
<1> HIDE DEF LastLow
<1>5. LastLow \in 1..Len(Prefix) /\ Prefix[LastLow] \in 0..254
  <2>1. LastLow \in 1..Len(Prefix) /\ Prefix[LastLow] < 255
    BY <1>3, <1>4
  <2>2. Prefix[LastLow] \in 0..255
    BY <1>2, <2>1, Zenon
  <2> QED BY <2>1, <2>2
<1>6. \A j \in (LastLow + 1)..Len(Prefix) : Prefix[j] = 255
  <2> SUFFICES ASSUME NEW j \in (LastLow + 1)..Len(Prefix), Prefix[j] # 255 PROVE FALSE
    OBVIOUS
  <2>1. j \in 1..Len(Prefix) /\ j > LastLow
    BY <1>3, <1>5
  <2>2. Prefix[j] < 255
    <3>0. j \in 1..Len(Prefix)
      BY <2>1
    <3>1. PICK y \in 0..255 : y = Prefix[j]
      BY <1>2, <3>0, Zenon
    <3>2. y < 255
      <4>1. y # 255
        BY <3>1, Zenon
      <4> QED BY ONLY <4>1, y \in 0..255
    <3> QED BY <3>1, <3>2, Zenon
  <2>3. j \in low
    BY <1>1, <2>1, <2>2
  <2> QED BY <1>4, <1>5, <2>1, <2>3
<1>7. Prefix # <<>> /\ Len(Prefix) # 0
  BY <1>3, <1>5
<1> QED BY <1>1, <1>2, <1>3, <1>5, <1>6, <1>7

LEMMA AfterFacts ==
  /\ After \in Seq(Bytes) /\ After # <<>> /\ Len(After) = LastLow
  /\ \A j \in 1..(LastLow - 1) : After[j] = Prefix[j]
  /\ After[LastLow] = Prefix[LastLow] + 1
<1>1. PICK m \in Nat : m = LastLow - 1 /\ LastLow = m + 1 /\ m <= Len(Prefix)
  BY PrefixFacts
<1>2. PICK u : u = SubSeq(Prefix, 1, m)
  OBVIOUS
<1>3. u \in Seq(Bytes) /\ Len(u) = m /\ \A j \in 1..m : u[j] = Prefix[j]
  <2>1. m - 1 + 1 = m /\ \A j \in 1..m : 1 + j - 1 = j /\ j \in 1..Len(Prefix)
    BY <1>1, PrefixFacts
  <2>2. \A j \in 1..m : Prefix[j] \in Bytes
    BY <2>1, PrefixFacts DEF Bytes
  <2> QED BY <1>2, <2>1, <2>2, SubSeqProperties
<1>4. PICK x \in Bytes : x = Prefix[LastLow] + 1
  <2>1. Prefix[LastLow] + 1 \in 0..255
    <3>1. PICK y \in 0..254 : y = Prefix[LastLow]
      BY PrefixFacts
    <3> QED BY <3>1
  <2> QED BY <2>1, Zenon DEF Bytes
<1>5. After = u \o <<x>>
  BY <1>1, <1>2, <1>4 DEF After
<1>6. <<x>> \in Seq(Bytes) /\ Len(<<x>>) = 1 /\ <<x>>[1] = x
  OBVIOUS
<1>7. /\ After \in Seq(Bytes) /\ Len(After) = m + 1
      /\ \A j \in 1..m : After[j] = u[j]
      /\ After[m + 1] = x
  <2>1. \A j \in 1..(m + 1) : After[j] = IF j <= m THEN u[j] ELSE <<x>>[j - m]
    BY <1>3, <1>5, <1>6, ConcatProperties
  <2>2. After \in Seq(Bytes) /\ Len(After) = m + 1
    BY <1>3, <1>5, <1>6, ConcatProperties
  <2>3. m + 1 \in 1..(m + 1) /\ m + 1 - m = 1 /\ ~(m + 1 <= m)
    OBVIOUS
  <2> QED BY <1>6, <2>1, <2>2, <2>3
<1>8. After # <<>>
  BY <1>7
<1> QED BY <1>1, <1>3, <1>4, <1>7, <1>8

(* The keys from the prefix up to After are those that begin with it.      *)
LEMMA RangeOfPrefix ==
  ASSUME NEW k \in Seq(Bytes)
  PROVE  ~Below(k, Prefix) /\ Below(k, After) <=> IsPrefix(Prefix, k)
<1> DEFINE n == Len(Prefix)
           m == LastLow
<1>1. n \in Nat \ {0} /\ m \in 1..n /\ m \in Nat \ {0}
  BY PrefixFacts
<1>2. \A i \in 1..n : i \in Nat \ {0} /\ At(Prefix, i) = Prefix[i] /\ At(Prefix, i) \in 0..255
  BY <1>1, PrefixFacts DEF At
<1>3. \A i \in Nat \ {0} : i > n => At(Prefix, i) = -1
  BY PrefixFacts, AtType
<1>4. \A i \in 1..(m - 1) : At(After, i) = At(Prefix, i)
  <2>1. \A i \in 1..(m - 1) : i \in 1..n /\ i <= m /\ i <= n
    BY <1>1
  <2>2. \A i \in 1..(m - 1) : At(After, i) = After[i] /\ At(Prefix, i) = Prefix[i]
    BY <2>1, AfterFacts DEF At
  <2> QED BY <2>2, AfterFacts
<1>5. At(After, m) = Prefix[m] + 1 /\ At(Prefix, m) = Prefix[m] /\ Prefix[m] \in 0..254
  <2>1. m <= Len(After)
    BY <1>1, AfterFacts
  <2>2. At(After, m) = After[m]
    BY <2>1 DEF At
  <2> QED BY <1>1, <1>2, <2>2, AfterFacts, PrefixFacts
<1>6. \A i \in Nat \ {0} : i > m => At(After, i) = -1
  BY AfterFacts, AtType
<1>7. \A i \in (m + 1)..n : At(Prefix, i) = 255
  <2>1. \A i \in (m + 1)..n : i \in 1..n
    BY <1>1
  <2> QED BY <1>2, <2>1, PrefixFacts
<1>8. \A i \in Nat \ {0} : At(k, i) \in Int /\ At(k, i) >= -1 /\ At(k, i) <= 255
  BY AtType
<1> DEFINE Same == \A j \in 1..n : At(k, j) = At(Prefix, j)
<1>9. IsPrefix(Prefix, k) <=> Same
  <2>1. ASSUME IsPrefix(Prefix, k) PROVE Same
    <3>1. n <= Len(k) /\ SubSeq(Prefix, 1, n) = SubSeq(k, 1, n)
      BY <2>1 DEF IsPrefix
    <3>2. \A j \in 1..n : At(Prefix, j) = At(k, j)
      BY <1>1, <3>1, PrefixFacts, SameStart
    <3> QED BY <3>2
  <2>2. ASSUME Same PROVE IsPrefix(Prefix, k)
    <3>1. n <= Len(k)
      <4>1. n \in 1..n /\ At(k, n) = At(Prefix, n)
        BY <1>1, <2>2
      <4>2. At(k, n) >= 0
        <5>0. n \in 1..n
          BY <1>1
        <5>1. PICK y \in 0..255 : y = At(Prefix, n)
          BY <1>2, <5>0
        <5>2. At(k, n) = y
          BY <4>1, <5>1, Zenon
        <5>3. y >= 0
          BY ONLY y \in 0..255
        <5> QED BY <5>2, <5>3, Zenon
      <4>3. n > Len(k) => At(k, n) = -1
        BY <1>1, AtType
      <4>4. Len(k) \in Nat
        OBVIOUS
      <4> QED BY <1>1, <4>2, <4>3, <4>4
    <3>2. \A j \in 1..n : At(Prefix, j) = At(k, j)
      BY <2>2
    <3>3. SubSeq(Prefix, 1, n) = SubSeq(k, 1, n)
      BY <1>1, <3>1, <3>2, PrefixFacts, SameStart
    <3> QED BY <3>1, <3>3 DEF IsPrefix
  <2> QED BY <2>1, <2>2
<1>10. (Below(k, Prefix) <=> Less(k, Prefix)) /\ (Below(k, After) <=> Less(k, After))
  BY BelowIsLess, PrefixFacts, AfterFacts
<1> HIDE DEF n, m
<1>11. ASSUME Same PROVE ~Less(k, Prefix) /\ Less(k, After)
  <2>1. ASSUME Less(k, Prefix) PROVE FALSE
    <3>1. PICK i \in Nat \ {0} : At(k, i) < At(Prefix, i)
      BY <2>1 DEF Less
    <3>2. i \in 1..n => At(k, i) = At(Prefix, i)
      BY <1>11
    <3>3. i <= n
      BY <1>1, <1>3, <1>8, <3>1
    <3>4. i \in 1..n
      BY <1>1, <3>3
    <3> QED BY <1>2, <1>8, <3>1, <3>2, <3>4
  <2>2. At(k, m) < At(After, m)
    <3>0. m \in 1..n
      BY <1>1
    <3>1. At(k, m) = Prefix[m]
      BY <1>5, <1>11, <3>0
    <3>2. PICK p \in 0..254 : p = Prefix[m]
      BY <1>5
    <3> QED BY <1>5, <3>1, <3>2
  <2>3. \A j \in 1..(m - 1) : At(k, j) = At(After, j)
    <3>1. \A j \in 1..(m - 1) : j \in 1..n
      BY <1>1
    <3> QED BY <1>4, <1>11, <3>1
  <2> QED BY <1>1, <2>1, <2>2, <2>3 DEF Less
<1>12. ASSUME ~Less(k, Prefix), Less(k, After) PROVE Same
  <2>1. PICK i \in Nat \ {0} : At(k, i) < At(After, i) /\ \A j \in 1..(i - 1) : At(k, j) = At(After, j)
    BY <1>12 DEF Less
  <2>2. i <= m
    BY <1>1, <1>6, <1>8, <2>1
  <2>3. i = m
    <3> SUFFICES ASSUME i # m PROVE FALSE
      OBVIOUS
    <3>1. i \in 1..(m - 1) /\ \A j \in 1..(i - 1) : j \in 1..(m - 1)
      BY <1>1, <2>2
    <3>2. At(k, i) < At(Prefix, i) /\ \A j \in 1..(i - 1) : At(k, j) = At(Prefix, j)
      BY <1>4, <2>1, <3>1
    <3> QED BY <1>12, <3>2 DEF Less
  <2>4. \A j \in 1..(m - 1) : At(k, j) = At(Prefix, j)
    BY <1>4, <2>1, <2>3
  <2>5. At(k, m) = At(Prefix, m)
    <3>0. PICK p \in 0..254 : p = Prefix[m]
      BY <1>5
    <3>1. At(k, m) < p + 1 /\ At(Prefix, m) = p
      BY <1>5, <2>1, <2>3, <3>0
    <3>2. ~(At(k, m) < At(Prefix, m))
      BY <1>1, <1>12, <2>4 DEF Less
    <3>3. At(k, m) \in Int
      BY <1>1, <1>8
    <3> QED BY <3>1, <3>2, <3>3
  <2> DEFINE D == {j \in 1..n : At(k, j) # At(Prefix, j)}
  <2>6. ASSUME D # {} PROVE FALSE
    <3>1. PICK j \in D : \A x \in D : j <= x
      <4> HIDE DEF D
      <4>1. D \subseteq Nat
        BY <1>1 DEF D
      <4> QED BY <2>6, <4>1, MinExists
    <3>2. j \in 1..n /\ j \in Nat \ {0} /\ At(k, j) # At(Prefix, j)
      BY <1>1, <3>1
    <3>3. j \in (m + 1)..n
      <4>1. j # m /\ j \notin 1..(m - 1)
        BY <2>4, <2>5, <3>2
      <4> QED BY <1>1, <3>2, <4>1
    <3>4. At(k, j) < At(Prefix, j)
      BY <1>7, <1>8, <3>2, <3>3
    <3>5. \A x \in 1..(j - 1) : At(k, x) = At(Prefix, x)
      <4> SUFFICES ASSUME NEW x \in 1..(j - 1), At(k, x) # At(Prefix, x) PROVE FALSE
        OBVIOUS
      <4>1. x \in 1..n /\ ~(j <= x)
        BY <1>1, <3>2
      <4> QED BY <3>1, <4>1
    <3> QED BY <1>12, <3>2, <3>4, <3>5 DEF Less
  <2> QED BY <2>6
<1> QED BY <1>9, <1>10, <1>11, <1>12

-----------------------------------------------------------------------------
(* The keys of a range in order.                                           *)

LEMMA FinitePart ==
  ASSUME NEW S, IsFiniteSet(S), NEW T, T \subseteq S
  PROVE  IsFiniteSet(T) /\ Cardinality(T) \in Nat /\ Cardinality(T) <= Cardinality(S)
         /\ (Cardinality(S) = Cardinality(T) => S = T)
<1>1. T \in SUBSET S
  OBVIOUS
<1> QED BY <1>1, FS_Subset, FS_CardinalityType

(* A sequence of different elements that is as long as its set has them all. *)
LEMMA AllListed ==
  ASSUME NEW K, IsFiniteSet(K), NEW f \in [1..Cardinality(K) -> K], IsInjective(f)
  PROVE  Range(f) = K
<1> DEFINE I == 1..Cardinality(K)
<1>1. Cardinality(K) \in Nat
  BY FS_CardinalityType
<1>2. Cardinality(I) = Cardinality(K)
  BY <1>1, FS_Interval
<1> HIDE DEF I
<1>3. f \in Injection(I, K)
  BY DEF Injection, I
<1>4. f \in Surjection(I, K)
  BY <1>2, <1>3, FS_Injection
<1> QED BY <1>4 DEF Surjection, Range, I

LEMMA OrderExists ==
  ASSUME NEW K, IsFiniteSet(K), K \subseteq Seq(Bytes)
  PROVE  \E f \in [1..Cardinality(K) -> K] : \A i, j \in DOMAIN f : i < j => Below(f[i], f[j])
<1> DEFINE n == Cardinality(K)
           lower(k) == {y \in K : Less(y, k)}
           rank == [k \in K |-> Cardinality(lower(k)) + 1]
<1>1. n \in Nat
  BY FS_CardinalityType
<1>2. \A k \in K : IsFiniteSet(lower(k)) /\ Cardinality(lower(k)) \in Nat /\ Cardinality(lower(k)) < n
  <2> SUFFICES ASSUME NEW k \in K
               PROVE  IsFiniteSet(lower(k)) /\ Cardinality(lower(k)) \in Nat /\ Cardinality(lower(k)) < n
    OBVIOUS
  <2> DEFINE T == lower(k)
  <2>1. T \subseteq K /\ k \notin T
    BY LessOrder
  <2> HIDE DEF T
  <2>2. IsFiniteSet(T) /\ Cardinality(T) \in Nat /\ Cardinality(T) <= n /\ Cardinality(T) # n
    BY <2>1, FinitePart
  <2>3. Cardinality(T) < n
    BY <1>1, <2>2
  <2> QED BY <2>2, <2>3 DEF T
<1>3. \A x, y \in K : Less(x, y) => rank[x] < rank[y]
  <2> SUFFICES ASSUME NEW x \in K, NEW y \in K, Less(x, y) PROVE rank[x] < rank[y]
    OBVIOUS
  <2> DEFINE S == lower(x)
             T == lower(y)
  <2>1. S \subseteq T /\ x \notin S /\ x \in T
    BY LessOrder
  <2>2. IsFiniteSet(T) /\ Cardinality(T) \in Nat
    BY <1>2
  <2>3. rank[x] = Cardinality(S) + 1 /\ rank[y] = Cardinality(T) + 1
    OBVIOUS
  <2> HIDE DEF S, T, rank
  <2>4. Cardinality(S) \in Nat /\ Cardinality(S) <= Cardinality(T) /\ Cardinality(S) # Cardinality(T)
    BY <2>1, <2>2, FinitePart
  <2> QED BY <2>2, <2>3, <2>4
<1>4. rank \in [K -> 1..n]
  <2>1. \A k \in K : Cardinality(lower(k)) + 1 \in 1..n
    <3> SUFFICES ASSUME NEW k \in K PROVE Cardinality(lower(k)) + 1 \in 1..n
      OBVIOUS
    <3>1. PICK c \in Nat : c = Cardinality(lower(k)) /\ c < n
      BY <1>2
    <3> HIDE DEF lower, n
    <3> QED BY <1>1, <3>1
  <2> QED BY <2>1
<1> HIDE DEF rank
<1>5. \A x, y \in K : rank[x] < rank[y] => Less(x, y)
  <2> SUFFICES ASSUME NEW x \in K, NEW y \in K, rank[x] < rank[y] PROVE Less(x, y)
    OBVIOUS
  <2>1. rank[x] \in 1..n /\ rank[y] \in 1..n
    BY <1>4
  <2>2. ~Less(y, x)
    BY <1>1, <1>3, <2>1
  <2>3. x # y
    BY <1>1, <2>1
  <2> QED BY <2>2, <2>3, LessOrder
<1>6. IsInjective(rank)
  <2> SUFFICES ASSUME NEW x \in K, NEW y \in K, rank[x] = rank[y], x # y PROVE FALSE
    BY <1>4 DEF IsInjective
  <2>1. rank[x] \in 1..n /\ rank[y] \in 1..n
    BY <1>4
  <2>2. rank[x] < rank[y] \/ rank[y] < rank[x]
    BY <1>3, LessOrder
  <2> QED BY <1>1, <2>1, <2>2
<1>7. \A i \in 1..n : \E k \in K : rank[k] = i
  <2> DEFINE I == 1..n
  <2>1. IsFiniteSet(I) /\ Cardinality(I) = n
    BY <1>1, FS_Interval
  <2> HIDE DEF I
  <2>2. rank \in Injection(K, I)
    BY <1>4, <1>6 DEF Injection, I
  <2>3. rank \in Surjection(K, I)
    BY <2>1, <2>2, FS_Injection
  <2> QED BY <2>3 DEF Surjection, I
<1> DEFINE f == [i \in 1..n |-> CHOOSE k \in K : rank[k] = i]
<1>8. \A i \in 1..n : f[i] \in K /\ rank[f[i]] = i
  BY <1>7
<1>9. f \in [1..n -> K]
  BY <1>7
<1>10. \A i, j \in DOMAIN f : i < j => Below(f[i], f[j])
  <2> SUFFICES ASSUME NEW i \in 1..n, NEW j \in 1..n, i < j PROVE Below(f[i], f[j])
    BY Zenon
  <2> HIDE DEF f
  <2>1. f[i] \in Seq(Bytes) /\ f[j] \in Seq(Bytes) /\ Less(f[i], f[j])
    BY <1>5, <1>8
  <2> QED BY <2>1, BelowIsLess
<1> HIDE DEF f
<1> QED BY <1>9, <1>10 DEF n

LEMMA InOrderLists ==
  ASSUME NEW K, IsFiniteSet(K), K \subseteq Seq(Bytes)
  PROVE  /\ Cardinality(K) \in Nat
         /\ InOrder(K) \in [1..Cardinality(K) -> K]
         /\ IsInjective(InOrder(K)) /\ Range(InOrder(K)) = K
<1> DEFINE f == InOrder(K)
           n == Cardinality(K)
<1>1. n \in Nat
  BY FS_CardinalityType
<1>2. f \in [1..n -> K] /\ \A i, j \in DOMAIN f : i < j => Below(f[i], f[j])
  BY OrderExists DEF InOrder
<1> HIDE DEF f
<1>3. IsInjective(f)
  <2> SUFFICES ASSUME NEW i \in 1..n, NEW j \in 1..n, f[i] = f[j], i # j PROVE FALSE
    BY <1>2 DEF IsInjective
  <2>1. f[i] \in Seq(Bytes)
    BY <1>2
  <2>2. i < j \/ j < i
    BY <1>1
  <2>3. Below(f[i], f[i])
    BY <1>2, <2>2
  <2> QED BY <2>1, <2>3, BelowIsLess, LessOrder
<1>4. Range(f) = K
  BY <1>2, <1>3, AllListed
<1> QED BY <1>1, <1>2, <1>3, <1>4 DEF f

-----------------------------------------------------------------------------
(* What discover computes.                                                 *)

(* Pieces of one element each.                                             *)
LEMMA FlattenSingles ==
  ASSUME NEW S, NEW n \in Nat, NEW t \in [1..n -> S]
  PROVE  FlattenSeq([i \in 1..n |-> <<t[i]>>]) = t
<1> DEFINE seqs == [i \in 1..n |-> <<t[i]>>]
<1> SUFFICES FlattenSeq(seqs) = t
  OBVIOUS
<1>1. Len(seqs) = n
  BY DOMAIN seqs = 1..n
<1>2. CASE n = 0
  <2>1. seqs = t
    BY <1>2
  <2> QED BY <1>1, <1>2, <2>1 DEF FlattenSeq
<1>3. CASE n > 0
  <2> DEFINE c == [i \in 0..n |-> i]
  <2>1. t \in Seq(S) /\ Len(t) = n
    OBVIOUS
  <2>2. seqs \in Seq(Seq(S))
    <3>1. \A i \in 1..n : <<t[i]>> \in Seq(S)
      OBVIOUS
    <3> QED BY <3>1
  <2>3. c[0] = 0 /\ c[n] = Len(t) /\ \A i \in 0..n : c[i] \in 0..Len(t)
    BY <2>1
  <2>4. \A i \in 1..n : c[i - 1] <= c[i] /\ seqs[i] = SubSeq(t, c[i - 1] + 1, c[i])
    <3> SUFFICES ASSUME NEW i \in 1..n PROVE c[i - 1] <= c[i] /\ seqs[i] = SubSeq(t, c[i - 1] + 1, c[i])
      OBVIOUS
    <3>1. c[i - 1] = i - 1 /\ c[i] = i /\ i - 1 + 1 = i /\ i - 1 <= i
      OBVIOUS
    <3>2. SubSeq(t, i, i) = <<t[i]>>
      <4>1. i \in Nat \ {0} /\ i - i + 1 = 1 /\ i + 1 - 1 = i /\ i \in 1..(Len(t) + 1) /\ i \in i..Len(t)
        BY <2>1
      <4>2. \A j \in i..i : t[j] \in S
        OBVIOUS
      <4>3. SubSeq(t, i, i) \in Seq(S) /\ Len(SubSeq(t, i, i)) = 1 /\ SubSeq(t, i, i)[1] = t[i]
        <5>1. 1 \in 1..(i - i + 1)
          BY <4>1
        <5> QED BY <4>1, <4>2, <5>1, SubSeqProperties
      <4>4. PICK u \in Seq(S), x \in S : u = SubSeq(t, i, i) /\ x = t[i]
        BY <4>3
      <4>5. u = <<x>>
        <5>1. Len(u) = 1 /\ u[1] = x
          BY <4>3, <4>4
        <5>2. <<x>> \in Seq(S) /\ Len(<<x>>) = 1 /\ <<x>>[1] = x
          OBVIOUS
        <5>3. \A j \in 1..Len(u) : u[j] = <<x>>[j]
          BY <5>1, <5>2
        <5> QED BY <5>1, <5>2, <5>3, SeqEqual
      <4> QED BY <4>4, <4>5
    <3> HIDE DEF c
    <3>3. seqs[i] = <<t[i]>>
      OBVIOUS
    <3> QED BY <3>1, <3>2, <3>3
  <2> HIDE DEF c
  <2>5. Cuts(seqs, t, n, c)
    BY <1>1, <1>3, <2>3, <2>4 DEF Cuts
  <2> QED BY <2>1, <2>2, <2>5, FlattenCuts
<1> QED BY <1>2, <1>3

Mine == {k \in DOMAIN kv : IsPrefix(Prefix, k)}
Address(k) == SubSeq(k, Len(Prefix) + 1, Len(k))

LEMMA RangeDecoded ==
  /\ Base64Decode(Base64Encode(Prefix)) = Prefix
  /\ Base64Decode(Base64RangeEnd(Prefix)) = After
<1>1. Base64Decode(Base64Encode(Prefix)) = Prefix
  BY PrefixFacts, Base64RoundTrip
<1>2. {i \in DOMAIN Prefix : Prefix[i] < 255} # {}
  BY KeysAssumption
<1>3. Base64RangeEnd(Prefix) = Base64Encode(After)
  BY <1>2, Zenon DEF Base64RangeEnd, After, LastLow
<1>4. Base64Decode(Base64Encode(After)) = After
  BY AfterFacts, Base64RoundTrip
<1> QED BY <1>1, <1>3, <1>4

LEMMA DiscoverLists ==
  ASSUME IsFiniteSet(DOMAIN kv), DOMAIN kv \subseteq Seq(Bytes)
  PROVE  \E n \in Nat : \E f \in [1..n -> Mine] :
            /\ IsInjective(f) /\ Range(f) = Mine
            /\ Discover = [i \in 1..n |-> Address(f[i])]
<1> DEFINE lo == Base64Decode(Base64Encode(Prefix))
           hi == Base64Decode(Base64RangeEnd(Prefix))
           f == InOrder(Mine)
           n == Cardinality(Mine)
           response == RangeResponse(Base64Encode(Prefix), Base64RangeEnd(Prefix))
           addr(key) == IF IsPrefix(Prefix, key) THEN <<SubSeq(key, Len(Prefix) + 1, Len(key))>>
                        ELSE <<>>
           t == [i \in 1..n |-> Address(f[i])]
           seqs == [i \in DOMAIN response |-> addr(Base64Decode(response[i]))]
<1>1. {k \in DOMAIN kv : ~Below(k, lo) /\ Below(k, hi)} = Mine
  <2>1. lo = Prefix /\ hi = After
    BY RangeDecoded
  <2> HIDE DEF lo, hi
  <2>2. \A k \in DOMAIN kv : ~Below(k, lo) /\ Below(k, hi) <=> IsPrefix(Prefix, k)
    BY <2>1, RangeOfPrefix
  <2> QED BY <2>2 DEF Mine
<1>2. response = [i \in DOMAIN f |-> Base64Encode(f[i])]
  BY <1>1, Zenon DEF RangeResponse
<1>3. IsFiniteSet(Mine) /\ Mine \subseteq Seq(Bytes)
  <2>1. Mine \subseteq DOMAIN kv
    BY DEF Mine
  <2> QED BY <2>1, FinitePart
<1>4. n \in Nat /\ f \in [1..n -> Mine] /\ IsInjective(f) /\ Range(f) = Mine
  BY <1>3, InOrderLists
<1> HIDE DEF f, n
<1>5. DOMAIN response = 1..n /\ \A i \in 1..n : response[i] = Base64Encode(f[i])
  <2> HIDE DEF response
  <2> QED BY <1>2, <1>4
<1>6. \A i \in 1..n : addr(Base64Decode(response[i])) = <<t[i]>>
  <2> SUFFICES ASSUME NEW i \in 1..n PROVE addr(Base64Decode(response[i])) = <<t[i]>>
    OBVIOUS
  <2> DEFINE k == f[i]
  <2>1. k \in Seq(Bytes) /\ IsPrefix(Prefix, k)
    BY <1>3, <1>4 DEF Mine
  <2> HIDE DEF k
  <2>2. k # <<>>
    <3>1. Len(Prefix) <= Len(k) /\ Len(Prefix) \in Nat \ {0}
      BY <2>1, PrefixFacts DEF IsPrefix
    <3>2. k = <<>> => Len(k) = 0
      OBVIOUS
    <3> QED BY <3>1, <3>2
  <2>3. Base64Decode(response[i]) = k
    <3>1. response[i] = Base64Encode(k)
      BY <1>5 DEF k
    <3>2. Base64Decode(Base64Encode(k)) = k
      BY <2>1, <2>2, Base64RoundTrip
    <3> QED BY <3>1, <3>2, Zenon
  <2>4. addr(k) = <<Address(k)>>
    BY <2>1, Zenon DEF Address
  <2>5. t[i] = Address(k)
    BY DEF k
  <2> HIDE DEF addr, t, response
  <2> QED BY <2>3, <2>4, <2>5
<1>7. seqs = [i \in 1..n |-> <<t[i]>>]
  <2> HIDE DEF addr, t, response
  <2> QED BY <1>5, <1>6
<1>8. Discover = FlattenSeq(seqs)
  BY Zenon DEF Discover
<1>9. t \in [1..n -> {Address(k) : k \in Mine}]
  BY <1>4
<1> HIDE DEF seqs, t
<1>10. FlattenSeq(seqs) = t
  <2>1. PICK S : S = {Address(k) : k \in Mine}
    OBVIOUS
  <2>2. t \in [1..n -> S] /\ n \in Nat
    BY <1>4, <1>9, <2>1
  <2>3. FlattenSeq([i \in 1..n |-> <<t[i]>>]) = t
    BY ONLY <2>2, FlattenSingles
  <2> QED BY <1>7, <2>3, Zenon
<1>11. Discover = [i \in 1..n |-> Address(f[i])]
  BY <1>8, <1>10 DEF t
<1> QED BY <1>4, <1>11

-----------------------------------------------------------------------------
(* The servers, their leases and their keys.                               *)

RNext == (\E s \in Servers : ServerStep(s)) \/ Tick

\* The leases that server s knows or has its key under.
Uses(s, id) == \/ id \in {server[s].grant, server[s].held, server[s].entry}
               \/ Key(s) \in DOMAIN kv /\ kv[Key(s)] = id

\* A server process whose leases are among the first n.
SRec(n) == [up : BOOLEAN, grant : 0..n, held : 0..n, entry : 0..n, sleep : -1..Period, gap : 0..Ttl]

RTypes ==
    /\ lease \in Seq(Nat) /\ \A i \in DOMAIN lease : lease[i] <= Ttl
    /\ kv = [k \in DOMAIN kv |-> kv[k]]
    /\ DOMAIN kv \subseteq OtherKeys \cup {Key(s) : s \in Servers}
    /\ server \in [Servers -> SRec(Len(lease))]

\* No two servers have to do with the same lease.
Leases == \A s, t \in Servers : \A id \in DOMAIN lease : Uses(s, id) /\ Uses(t, id) => s = t

\* A server's key is gone when its lease is over.
Living == \A s \in Servers : Key(s) \in DOMAIN kv => Alive(kv[Key(s)])

\* A lease that was kept alive is the one that the heartbeats are for, has the
\* key, and has lost as much as etcd has not heard of it.
Kept(s) ==
    server[s].held # 0 /\ server[s].gap < Ttl =>
        /\ server[s].held = server[s].entry /\ lease[server[s].held] = Ttl - server[s].gap
        /\ Key(s) \in DOMAIN kv /\ kv[Key(s)] = server[s].held

RInv == RTypes /\ Leases /\ Living /\ \A s \in Servers : Kept(s)

LEMMA TimeFacts == Period \in Nat /\ Period > 0 /\ Ttl \in Nat /\ Ttl > 0
BY RegistryAssumption

LEMMA KeyFacts ==
  ASSUME NEW s \in Servers
  PROVE  /\ Key(s) \in Seq(Bytes) /\ IsPrefix(Prefix, Key(s)) /\ Key(s) \notin OtherKeys
         /\ Address(Key(s)) = AddrBytes[s]

<1> DEFINE a == AddrBytes[s]
           n == Len(Prefix)
           k == Prefix \o a
<1>1. a \in Seq(Bytes) /\ Prefix \in Seq(Bytes) /\ n \in Nat /\ n > 0
  BY KeysAssumption, PrefixFacts
<1> HIDE DEF a, n
<1>2. Len(a) \in Nat
  BY <1>1
<1>3. k \in Seq(Bytes) /\ Len(k) = n + Len(a)
      /\ \A j \in 1..Len(k) : k[j] = IF j <= n THEN Prefix[j] ELSE a[j - n]
  BY <1>1, ConcatProperties DEF n
<1> HIDE DEF k
<1>4. Key(s) = k
  BY DEF Key, k, a
<1>5. IsPrefix(Prefix, k)
  <2>1. n <= Len(k) /\ n <= Len(Prefix)
    BY <1>1, <1>2, <1>3 DEF n
  <2>2. \A j \in 1..n : At(Prefix, j) = At(k, j)
    <3>1. \A j \in 1..n : j <= n /\ j <= Len(Prefix) /\ j <= Len(k) /\ j \in 1..Len(k)
      BY <1>1, <1>2, <1>3, <2>1
    <3> QED BY <1>3, <3>1 DEF At
  <2>3. SubSeq(Prefix, 1, n) = SubSeq(k, 1, n)
    BY <1>1, <1>3, <2>1, <2>2, SameStart
  <2> QED BY <2>1, <2>3 DEF IsPrefix, n
<1>6. Address(k) = a
  <2> DEFINE u == SubSeq(k, n + 1, Len(k))
  <2>1. u \in Seq(Bytes) /\ Len(u) = Len(a) /\ \A j \in 1..Len(a) : u[j] = k[n + 1 + j - 1]
    <3>1. \A j \in (n + 1)..Len(k) : k[j] \in Bytes
      <4>1. \A j \in (n + 1)..Len(k) : j \in 1..Len(k)
        BY <1>1, <1>2, <1>3
      <4> QED BY <1>3, <4>1
    <3>2. PICK m \in Nat, l \in Nat : m = n + 1 /\ l = Len(k) /\ m >= 1 /\ l - m + 1 = Len(a) /\ m <= l + 1
      BY <1>1, <1>2, <1>3
    <3> QED BY <3>1, <3>2, SubSeqProperties
  <2> HIDE DEF u
  <2>3. \A j \in 1..Len(u) : u[j] = a[j]
    <3> SUFFICES ASSUME NEW j \in 1..Len(a) PROVE u[j] = a[j]
      BY <2>1
    <3>1. PICK i \in Nat : i = n + 1 + j - 1 /\ i = n + j
      BY <1>1
    <3>2. i \in 1..Len(k) /\ ~(i <= n) /\ i - n = j
      BY <1>1, <1>2, <1>3, <3>1
    <3>3. u[j] = k[i]
      BY <2>1, <3>1
    <3>4. k[i] = a[i - n]
      BY <1>3, <3>2
    <3> QED BY <3>2, <3>3, <3>4
  <2>4. u = a
    BY <1>1, <2>1, <2>3, SeqEqual
  <2> QED BY <2>4 DEF Address, u, n
<1>7. k \notin OtherKeys
  BY <1>5, KeysAssumption
<1> QED BY <1>1, <1>3, <1>4, <1>5, <1>6, <1>7 DEF a

LEMMA KeysDiffer ==
  ASSUME NEW s \in Servers, NEW t \in Servers, Key(s) = Key(t)
  PROVE  s = t
<1>1. AddrBytes[s] = AddrBytes[t]
  BY KeyFacts
<1> QED BY <1>1, KeysAssumption DEF IsInjective

-----------------------------------------------------------------------------
(* Each step of the registry keeps the invariant.                          *)

LEMMA RFacts ==
  ASSUME RInv
  PROVE  /\ RTypes /\ Leases /\ Living /\ \A t \in Servers : Kept(t)
         /\ lease \in Seq(Nat) /\ Len(lease) \in Nat /\ DOMAIN lease = 1..Len(lease)
         /\ \A i \in 1..Len(lease) : lease[i] \in Nat /\ lease[i] <= Ttl
         /\ \A t \in Servers : server[t] \in SRec(Len(lease))
         /\ \A t \in Servers : /\ server[t].grant \in 0..Len(lease) /\ server[t].held \in 0..Len(lease)
                               /\ server[t].entry \in 0..Len(lease) /\ server[t].gap \in 0..Ttl
                               /\ server[t].sleep \in -1..Period /\ server[t].up \in BOOLEAN
         /\ \A t \in Servers : Key(t) \in DOMAIN kv => kv[Key(t)] \in 1..Len(lease) /\ Alive(kv[Key(t)])
<1>1. RTypes /\ Leases /\ Living /\ \A t \in Servers : Kept(t)
  BY DEF RInv
<1>2. /\ lease \in Seq(Nat) /\ Len(lease) \in Nat /\ DOMAIN lease = 1..Len(lease)
      /\ \A i \in 1..Len(lease) : lease[i] \in Nat /\ lease[i] <= Ttl
      /\ \A t \in Servers : server[t] \in SRec(Len(lease))
  BY <1>1 DEF RTypes
<1>3. \A t \in Servers : /\ server[t].grant \in 0..Len(lease) /\ server[t].held \in 0..Len(lease)
                         /\ server[t].entry \in 0..Len(lease) /\ server[t].gap \in 0..Ttl
                         /\ server[t].sleep \in -1..Period /\ server[t].up \in BOOLEAN
  BY <1>2 DEF SRec
<1>4. \A t \in Servers : Key(t) \in DOMAIN kv => kv[Key(t)] \in 1..Len(lease) /\ Alive(kv[Key(t)])
  BY <1>1, <1>2 DEF Living, Alive
<1> QED BY <1>1, <1>2, <1>3, <1>4

LEMMA MoreRecords ==
  ASSUME NEW m \in Nat, NEW n \in Nat, m <= n
  PROVE  SRec(m) \subseteq SRec(n)
BY 0..m \subseteq 0..n DEF SRec

\* Server s changes to r.
LEMMA OneChanged ==
  ASSUME RInv, NEW s \in Servers, NEW n \in Nat, Len(lease) <= n, NEW r \in SRec(n),
         server' = [server EXCEPT ![s] = r]
  PROVE  /\ server' \in [Servers -> SRec(n)] /\ server'[s] = r
         /\ \A t \in Servers : t # s => server'[t] = server[t]
<1>1. SRec(Len(lease)) \subseteq SRec(n)
  BY RFacts, MoreRecords
<1>2. server \in [Servers -> SRec(Len(lease))]
  BY RFacts DEF RTypes
<1> QED BY <1>1, <1>2

LEMMA OneHere ==
  ASSUME RInv, NEW s \in Servers, NEW r \in SRec(Len(lease)), server' = [server EXCEPT ![s] = r]
  PROVE  /\ server' \in [Servers -> SRec(Len(lease))] /\ server'[s] = r
         /\ \A t \in Servers : t # s => server'[t] = server[t]
<1>1. Len(lease) \in Nat
  BY RFacts
<1>2. PICK n \in Nat : n = Len(lease)
  BY <1>1
<1>3. n <= n
  OBVIOUS
<1> QED BY <1>2, <1>3, OneChanged

\* What a step without a new lease has to keep.
LEMMA NoNewLease ==
  ASSUME RInv, lease' \in Seq(Nat), Len(lease') = Len(lease), \A i \in 1..Len(lease) : lease'[i] <= Ttl,
         kv' = [k \in DOMAIN kv' |-> kv'[k]],
         DOMAIN kv' \subseteq DOMAIN kv \cup {Key(s) : s \in Servers},
         server' \in [Servers -> SRec(Len(lease))],
         \A t \in Servers : Key(t) \in DOMAIN kv' => kv'[Key(t)] \in 1..Len(lease) /\ lease'[kv'[Key(t)]] > 0,
         \A t \in Servers : \A id \in 1..Len(lease) : Uses(t, id)' => Uses(t, id),
         \A t \in Servers : Kept(t)'
  PROVE  RInv'
<1>1. Len(lease) \in Nat /\ DOMAIN lease = 1..Len(lease) /\ DOMAIN lease' = 1..Len(lease)
  BY RFacts
<1>2. RTypes'
  <2>1. DOMAIN kv' \subseteq OtherKeys \cup {Key(s) : s \in Servers}
    BY RFacts DEF RTypes
  <2> QED BY <1>1, <2>1 DEF RTypes, SRec, Key
<1>3. Leases'
  BY <1>1, RFacts DEF Leases
<1>4. Living'
  BY <1>1 DEF Living, Alive, Key
<1> QED BY <1>2, <1>3, <1>4 DEF RInv

LEMMA LeaseGrantKeeps ==
  ASSUME RInv, NEW s \in Servers, LeaseGrant(s)
  PROVE  RInv'
<1> DEFINE n == Len(lease)
           r == [server[s] EXCEPT !.up = TRUE, !.grant = n + 1]
<1>1. lease' = Append(lease, Ttl) /\ kv' = kv /\ server' = [server EXCEPT ![s] = r]
  BY DEF LeaseGrant
<1>2. /\ n \in Nat /\ DOMAIN lease = 1..n /\ lease \in Seq(Nat)
      /\ \A i \in 1..n : lease[i] \in Nat /\ lease[i] <= Ttl
      /\ \A t \in Servers : /\ server[t] \in SRec(n) /\ server[t].grant \in 0..n
                            /\ server[t].held \in 0..n /\ server[t].entry \in 0..n
      /\ \A t \in Servers : Key(t) \in DOMAIN kv => kv[Key(t)] \in 1..n /\ Alive(kv[Key(t)])
  BY RFacts
<1>3. /\ lease' \in Seq(Nat) /\ Len(lease') = n + 1 /\ DOMAIN lease' = 1..(n + 1)
      /\ \A i \in 1..n : lease'[i] = lease[i]
      /\ lease'[n + 1] = Ttl
  <2>1. Ttl \in Nat
    BY TimeFacts
  <2> QED BY <1>1, <1>2, <2>1, AppendProperties
<1>4. /\ r \in SRec(n + 1) /\ r.grant = n + 1 /\ r.held = server[s].held
      /\ r.entry = server[s].entry /\ r.gap = server[s].gap
  <2>1. n + 1 \in 0..(n + 1) /\ 0..n \subseteq 0..(n + 1)
    BY <1>2
  <2>2. server[s] \in SRec(n)
    BY <1>2
  <2> QED BY <2>1, <2>2 DEF SRec
<1>5. n + 1 \in Nat /\ Len(lease) <= n + 1
  BY <1>2
<1> HIDE DEF n, r
<1>6. /\ server' \in [Servers -> SRec(n + 1)] /\ server'[s] = r
      /\ \A t \in Servers : t # s => server'[t] = server[t]
  BY <1>1, <1>4, <1>5, OneChanged
<1>7. RTypes'
  <2>1. \A i \in DOMAIN lease' : lease'[i] <= Ttl
    <3>1. \A i \in 1..(n + 1) : i \in 1..n \/ i = n + 1
      BY <1>2
    <3> QED BY <1>2, <1>3, <3>1, TimeFacts
  <2>2. /\ kv' = [k \in DOMAIN kv' |-> kv'[k]]
        /\ DOMAIN kv' \subseteq OtherKeys \cup {Key(t) : t \in Servers}
    BY <1>1, RFacts DEF RTypes
  <2> QED BY <1>3, <1>6, <2>1, <2>2 DEF RTypes, SRec, Key
<1>8. Living'
  <2>1. \A id \in 1..n : Alive(id) => Alive(id)'
    <3>1. \A id \in 1..n : id \in 1..(n + 1)
      BY <1>2
    <3> QED BY <1>3, <3>1 DEF Alive
  <2> QED BY <1>1, <1>2, <2>1 DEF Living, Key
<1>9. \A t \in Servers : \A id \in 1..(n + 1) : Uses(t, id)' => IF id = n + 1 THEN t = s ELSE Uses(t, id)
  <2> SUFFICES ASSUME NEW t \in Servers, NEW id \in 1..(n + 1), Uses(t, id)'
               PROVE  IF id = n + 1 THEN t = s ELSE Uses(t, id)
    OBVIOUS
  <2>1. \/ id \in {server'[t].grant, server'[t].held, server'[t].entry}
        \/ Key(t) \in DOMAIN kv /\ kv[Key(t)] = id
    BY <1>1 DEF Uses, Key
  <2>3. CASE t = s
    BY <1>4, <1>6, <2>1, <2>3 DEF Uses
  <2>4. CASE t # s
    <3>1. server'[t] = server[t]
      BY <1>6, <2>4
    <3>2. Uses(t, id)
      BY <2>1, <3>1 DEF Uses
    <3>3. id # n + 1
      BY <1>2, <2>1, <3>1
    <3> QED BY <3>2, <3>3
  <2> QED BY <2>3, <2>4
<1>10. Leases'
  <2> SUFFICES ASSUME NEW t \in Servers, NEW u \in Servers, NEW id \in 1..(n + 1), Uses(t, id)', Uses(u, id)'
               PROVE  t = u
    BY <1>3 DEF Leases
  <2>1. CASE id = n + 1
    BY <1>9, <2>1
  <2>2. CASE id # n + 1
    <3>1. id \in 1..n /\ Uses(t, id) /\ Uses(u, id)
      BY <1>2, <1>9, <2>2
    <3> QED BY <1>2, <3>1, RFacts DEF Leases
  <2> QED BY <2>1, <2>2
<1>11. ASSUME NEW t \in Servers PROVE Kept(t)'
  <2>1. server'[t].held = server[t].held /\ server'[t].entry = server[t].entry /\ server'[t].gap = server[t].gap
    BY <1>4, <1>6
  <2>2. \A i \in 0..n : i # 0 => lease'[i] = lease[i]
    BY <1>2, <1>3
  <2>3. server[t].held \in 0..n /\ Kept(t)
    BY <1>2, RFacts
  <2> QED BY <1>1, <2>1, <2>2, <2>3 DEF Kept, Key
<1> QED BY <1>7, <1>8, <1>10, <1>11 DEF RInv

LEMMA CrashKeeps ==
  ASSUME RInv, NEW s \in Servers, Crash(s)
  PROVE  RInv'
<1> DEFINE n == Len(lease)
<1>1. server' = [server EXCEPT ![s] = Fresh] /\ lease' = lease /\ kv' = kv
  BY DEF Crash
<1>2. n \in Nat /\ \A i \in 1..n : lease[i] \in Nat /\ lease[i] <= Ttl
  BY RFacts
<1>3. Fresh \in SRec(n) /\ Fresh.grant = 0 /\ Fresh.held = 0 /\ Fresh.entry = 0
  <2>1. 0 \in 0..n /\ 0 \in 0..Ttl /\ -1 \in -1..Period
    BY <1>2, TimeFacts
  <2> QED BY <2>1 DEF SRec, Fresh, Off
<1>4. /\ server' \in [Servers -> SRec(n)] /\ server'[s] = Fresh
      /\ \A t \in Servers : t # s => server'[t] = server[t]
  BY <1>1, <1>3, OneHere
<1>5. ASSUME NEW t \in Servers, NEW id \in 1..n, Uses(t, id)' PROVE Uses(t, id)
  <2>1. \/ id \in {server'[t].grant, server'[t].held, server'[t].entry}
        \/ Key(t) \in DOMAIN kv /\ kv[Key(t)] = id
    BY <1>1, <1>5 DEF Uses, Key
  <2>2. id # 0
    BY <1>2
  <2>3. CASE t = s
    BY <1>3, <1>4, <2>1, <2>2, <2>3 DEF Uses
  <2>4. CASE t # s
    BY <1>4, <2>1, <2>4 DEF Uses
  <2> QED BY <2>3, <2>4
<1>6. ASSUME NEW t \in Servers PROVE Kept(t)'
  <2>1. CASE t = s
    BY <1>3, <1>4, <2>1 DEF Kept
  <2>2. CASE t # s
    BY <1>1, <1>4, <2>2, RFacts DEF Kept, Key
  <2> QED BY <2>1, <2>2
<1>7. \A t \in Servers : Key(t) \in DOMAIN kv' => kv'[Key(t)] \in 1..n /\ lease'[kv'[Key(t)]] > 0
  BY <1>1, RFacts DEF Alive
<1>8. /\ lease' \in Seq(Nat) /\ kv' = [k \in DOMAIN kv' |-> kv'[k]]
      /\ DOMAIN kv' \subseteq DOMAIN kv \cup {Key(t) : t \in Servers}
  BY <1>1, RFacts DEF RTypes
<1> QED BY <1>1, <1>2, <1>4, <1>5, <1>6, <1>7, <1>8, NoNewLease

\* The answer to a put: the server forgets the grant, or has it as its lease.
LEMMA PutKeeps ==
  ASSUME RInv, NEW s \in Servers, NEW done \in BOOLEAN, server[s].grant # 0, Put(s, server[s].grant, done),
         NEW r \in SRec(Len(lease)), server' = [server EXCEPT ![s] = r], lease' = lease, r.grant = 0,
         \/ r.held = server[s].held /\ r.entry = server[s].entry
            /\ r.gap = (IF done THEN Ttl ELSE server[s].gap)
         \/ r.held = server[s].grant /\ r.entry = server[s].grant
            /\ r.gap = (IF done THEN Ttl - lease[server[s].grant] ELSE Ttl)
  PROVE  RInv'
<1> DEFINE n == Len(lease)
           id == server[s].grant
<1>1. /\ n \in Nat /\ DOMAIN lease = 1..n /\ lease \in Seq(Nat)
      /\ \A i \in 1..n : lease[i] \in Nat /\ lease[i] <= Ttl
  BY RFacts
<1>2. id \in 1..n
  BY <1>1, RFacts
<1>3. /\ server' \in [Servers -> SRec(n)] /\ server'[s] = r
      /\ \A t \in Servers : t # s => server'[t] = server[t]
  BY OneHere
<1>4. done => Alive(id)
  BY DEF Put
<1>5. /\ kv' = [k \in DOMAIN kv' |-> kv'[k]]
      /\ DOMAIN kv' = (IF done THEN DOMAIN kv \cup {Key(s)} ELSE DOMAIN kv)
      /\ done => kv'[Key(s)] = id
      /\ ~done => kv' = kv
      /\ \A k \in DOMAIN kv : k # Key(s) => kv'[k] = kv[k]
  <2>1. CASE done
    <3>1. kv' = [k \in DOMAIN kv \cup {Key(s)} |-> IF k = Key(s) THEN id ELSE kv[k]]
      BY <2>1 DEF Put
    <3> QED BY <2>1, <3>1
  <2>2. CASE ~done
    <3>1. kv' = kv
      BY <2>2 DEF Put
    <3>2. kv = [k \in DOMAIN kv |-> kv[k]]
      BY RFacts DEF RTypes
    <3> QED BY <2>2, <3>1, <3>2
  <2> QED BY <2>1, <2>2
<1> HIDE DEF id, n
<1>6. ASSUME NEW t \in Servers, t # s
      PROVE  /\ Key(t) # Key(s) /\ (Key(t) \in DOMAIN kv' <=> Key(t) \in DOMAIN kv)
             /\ (Key(t) \in DOMAIN kv => kv'[Key(t)] = kv[Key(t)])
  <2>1. Key(t) # Key(s)
    BY <1>6, KeysDiffer
  <2> QED BY <1>5, <2>1
<1>7. ASSUME NEW t \in Servers, Key(t) \in DOMAIN kv'
      PROVE  kv'[Key(t)] \in 1..n /\ lease'[kv'[Key(t)]] > 0
  <2>1. CASE t = s /\ done
    BY <1>2, <1>4, <1>5, <2>1 DEF Alive
  <2>2. CASE ~done
    BY <1>5, <1>7, <2>2, RFacts DEF Alive, n
  <2>3. CASE t # s
    BY <1>6, <1>7, <2>3, RFacts DEF Alive, n
  <2> QED BY <2>1, <2>2, <2>3
<1>8. ASSUME NEW t \in Servers, NEW i \in 1..n, Uses(t, i)' PROVE Uses(t, i)
  <2>1. \/ i \in {server'[t].grant, server'[t].held, server'[t].entry}
        \/ Key(t) \in DOMAIN kv' /\ kv'[Key(t)] = i
    BY <1>8 DEF Uses, Key
  <2>2. CASE t = s
    <3>0. i # 0
      BY <1>1
    <3>1. \/ i \in {id, server[s].held, server[s].entry}
          \/ ~done /\ Key(s) \in DOMAIN kv /\ kv[Key(s)] = i
      BY <1>3, <1>5, <2>1, <2>2, <3>0 DEF id
    <3> QED BY <2>2, <3>1 DEF Uses, id
  <2>3. CASE t # s
    BY <1>3, <1>6, <2>1, <2>3 DEF Uses
  <2> QED BY <2>2, <2>3
<1>9. ASSUME NEW t \in Servers PROVE Kept(t)'
  <2>1. CASE t = s
    <3>0. Kept(s)
      BY RFacts
    <3>1. CASE r.held = server[s].held /\ r.entry = server[s].entry /\ r.gap = (IF done THEN Ttl ELSE server[s].gap)
      <4>1. CASE done
        BY <1>3, <2>1, <3>1, <4>1, TimeFacts DEF Kept
      <4>2. CASE ~done
        BY <1>3, <1>5, <2>1, <3>0, <3>1, <4>2 DEF Kept, Key
      <4> QED BY <4>1, <4>2
    <3>2. CASE r.held = id /\ r.entry = id /\ r.gap = (IF done THEN Ttl - lease[id] ELSE Ttl)
      <4>1. CASE done
        <5>1. lease[id] = Ttl - r.gap
          BY <1>1, <1>2, <3>2, <4>1, TimeFacts
        <5> QED BY <1>3, <1>5, <2>1, <3>2, <4>1, <5>1 DEF Kept, Key
      <4>2. CASE ~done
        BY <1>3, <2>1, <3>2, <4>2, TimeFacts DEF Kept
      <4> QED BY <4>1, <4>2
    <3> QED BY <3>1, <3>2 DEF id
  <2>2. CASE t # s
    BY <1>3, <1>6, <2>2, RFacts DEF Kept, Key
  <2> QED BY <2>1, <2>2
<1>10. DOMAIN kv' \subseteq DOMAIN kv \cup {Key(t) : t \in Servers}
  BY <1>5
<1> QED BY <1>1, <1>3, <1>5, <1>7, <1>8, <1>9, <1>10, NoNewLease DEF n

LEMMA KvPutKeeps ==
  ASSUME RInv, NEW s \in Servers, NEW done \in BOOLEAN, KvPut(s, done)
  PROVE  RInv'
<1> DEFINE id == server[s].grant
           z == IF server[s].sleep = Off THEN Period ELSE server[s].sleep
           g == IF done THEN Ttl - lease[id] ELSE Ttl
           r == [server[s] EXCEPT !.grant = 0, !.held = id, !.entry = id, !.sleep = z, !.gap = g]
<1>1. /\ id # 0 /\ Put(s, id, done) /\ lease' = lease
      /\ server' = [server EXCEPT ![s] = r]
  BY DEF KvPut
<1>2. server[s] \in SRec(Len(lease)) /\ Len(lease) \in Nat /\ id \in 1..Len(lease)
  BY <1>1, RFacts
<1>3. z \in -1..Period /\ g \in 0..Ttl
  <2>1. lease[id] \in Nat /\ lease[id] <= Ttl /\ server[s].sleep \in -1..Period
    BY <1>2, RFacts
  <2> QED BY <2>1, TimeFacts
<1> HIDE DEF z, g
<1>4. r \in SRec(Len(lease)) /\ r.grant = 0 /\ r.held = id /\ r.entry = id /\ r.gap = g
  <2>1. 0 \in 0..Len(lease) /\ id \in 0..Len(lease)
    BY <1>2
  <2> QED BY <1>2, <1>3, <2>1 DEF SRec
<1> HIDE DEF r
<1>5. r.gap = (IF done THEN Ttl - lease[server[s].grant] ELSE Ttl)
  BY <1>4 DEF g
<1> QED BY <1>1, <1>4, <1>5, PutKeeps

LEMMA RegisterFailsKeeps ==
  ASSUME RInv, NEW s \in Servers, NEW done \in BOOLEAN, RegisterFails(s, done)
  PROVE  RInv'
<1> DEFINE g == IF done THEN Ttl ELSE server[s].gap
           r == [server[s] EXCEPT !.grant = 0, !.gap = g]
<1>1. /\ server[s].grant # 0 /\ Put(s, server[s].grant, done) /\ lease' = lease
      /\ server' = [server EXCEPT ![s] = r]
  BY DEF RegisterFails
<1>2. server[s] \in SRec(Len(lease)) /\ 0 \in 0..Len(lease)
  BY RFacts
<1>3. g \in 0..Ttl
  BY RFacts, TimeFacts
<1> HIDE DEF g
<1>4. r \in SRec(Len(lease)) /\ r.grant = 0 /\ r.held = server[s].held /\ r.entry = server[s].entry /\ r.gap = g
  BY <1>2, <1>3 DEF SRec
<1> HIDE DEF r
<1>5. r.gap = (IF done THEN Ttl ELSE server[s].gap)
  BY <1>4 DEF g
<1> QED BY <1>1, <1>4, <1>5, PutKeeps

\* The keys that stay when some leases are over.
LEMMA WithoutFacts ==
  ASSUME NEW ids, kv' = Without(ids)
  PROVE  /\ DOMAIN kv' \subseteq DOMAIN kv /\ kv' = [k \in DOMAIN kv' |-> kv'[k]]
         /\ \A k \in DOMAIN kv' : kv'[k] = kv[k] /\ kv[k] \notin ids
         /\ \A k \in DOMAIN kv : kv[k] \notin ids => k \in DOMAIN kv'
BY DEF Without

LEMMA DeregisterKeeps ==
  ASSUME RInv, NEW s \in Servers, NEW done \in BOOLEAN, Deregister(s, done)
  PROVE  RInv'
<1> DEFINE id == server[s].held
           n == Len(lease)
           r == [server[s] EXCEPT !.held = 0, !.gap = 0]
<1>1. /\ id # 0 /\ lease' = (IF done THEN [lease EXCEPT ![id] = 0] ELSE lease)
      /\ kv' = (IF done THEN Without({id}) ELSE kv)
      /\ server' = [server EXCEPT ![s] = r]
  BY DEF Deregister
<1>2. /\ server[s] \in SRec(n) /\ n \in Nat /\ DOMAIN lease = 1..n /\ lease \in Seq(Nat) /\ id \in 1..n
      /\ \A i \in 1..n : lease[i] \in Nat /\ lease[i] <= Ttl
  BY <1>1, RFacts
<1>3. r \in SRec(n) /\ r.grant = server[s].grant /\ r.held = 0 /\ r.entry = server[s].entry
  <2>1. 0 \in 0..n /\ 0 \in 0..Ttl
    BY <1>2, TimeFacts
  <2> QED BY <1>2, <2>1 DEF SRec
<1> HIDE DEF r, id
<1>4. /\ lease' \in Seq(Nat) /\ Len(lease') = n
      /\ \A i \in 1..n : i # id \/ ~done => lease'[i] = lease[i]
      /\ \A i \in 1..n : lease'[i] <= Ttl
  <2>1. CASE done
    <3>1. lease' \in Seq(Nat) /\ Len(lease') = n
      BY <1>1, <1>2, <2>1, ExceptSeq
    <3>2. \A i \in 1..n : lease'[i] = IF i = id THEN 0 ELSE lease[i]
      BY <1>1, <1>2, <2>1
    <3> QED BY <1>2, <2>1, <3>1, <3>2, TimeFacts
  <2>2. CASE ~done
    BY <1>1, <1>2, <2>2
  <2> QED BY <2>1, <2>2
<1>5. /\ server' \in [Servers -> SRec(n)] /\ server'[s] = r
      /\ \A t \in Servers : t # s => server'[t] = server[t]
  BY <1>1, <1>3, OneHere
<1>6. /\ DOMAIN kv' \subseteq DOMAIN kv /\ kv' = [k \in DOMAIN kv' |-> kv'[k]]
      /\ \A k \in DOMAIN kv' : kv'[k] = kv[k] /\ (done => kv[k] # id)
      /\ \A k \in DOMAIN kv : kv[k] # id \/ ~done => k \in DOMAIN kv'
  <2>1. CASE done
    <3>1. kv' = Without({id})
      BY <1>1, <2>1
    <3> QED BY <2>1, <3>1, WithoutFacts
  <2>2. CASE ~done
    BY <1>1, <2>2, RFacts DEF RTypes
  <2> QED BY <2>1, <2>2
<1>7. ASSUME NEW t \in Servers, Key(t) \in DOMAIN kv'
      PROVE  kv'[Key(t)] \in 1..n /\ lease'[kv'[Key(t)]] > 0
  <2>1. Key(t) \in DOMAIN kv /\ kv'[Key(t)] = kv[Key(t)] /\ (done => kv[Key(t)] # id)
    BY <1>6, <1>7
  <2>2. kv[Key(t)] \in 1..n /\ lease[kv[Key(t)]] > 0
    BY <2>1, RFacts DEF Alive
  <2> QED BY <1>4, <2>1, <2>2
<1>8. ASSUME NEW t \in Servers, NEW i \in 1..n, Uses(t, i)' PROVE Uses(t, i)
  <2>1. \/ i \in {server'[t].grant, server'[t].held, server'[t].entry}
        \/ Key(t) \in DOMAIN kv' /\ kv'[Key(t)] = i
    BY <1>8 DEF Uses, Key
  <2>2. i # 0
    BY <1>2
  <2>3. i \in {server[t].grant, server[t].held, server[t].entry} \/ (Key(t) \in DOMAIN kv' /\ kv'[Key(t)] = i)
    BY <1>3, <1>5, <2>1, <2>2
  <2> QED BY <1>6, <2>3 DEF Uses
<1>9. ASSUME NEW t \in Servers PROVE Kept(t)'
  <2>1. CASE t = s
    BY <1>3, <1>5, <2>1 DEF Kept
  <2>2. CASE t # s
    <3>1. server'[t] = server[t]
      BY <1>5, <2>2
    <3>2. ~Uses(t, id)
      <4>1. Uses(s, id) /\ id \in DOMAIN lease
        BY <1>2 DEF Uses, id
      <4> QED BY <2>2, <4>1, RFacts DEF Leases
    <3>3. server[t].held # id /\ (Key(t) \in DOMAIN kv => kv[Key(t)] # id)
      BY <3>2 DEF Uses
    <3>4. \A i \in 0..n : i # 0 /\ i # id => lease'[i] = lease[i]
      BY <1>2, <1>4
    <3>5. Key(t) \in DOMAIN kv => Key(t) \in DOMAIN kv' /\ kv'[Key(t)] = kv[Key(t)]
      BY <1>6, <3>3
    <3>6. Kept(t) /\ server[t].held \in 0..n
      BY RFacts
    <3> QED BY <3>1, <3>3, <3>4, <3>5, <3>6 DEF Kept, Key
  <2> QED BY <2>1, <2>2
<1>10. DOMAIN kv' \subseteq DOMAIN kv \cup {Key(t) : t \in Servers}
  BY <1>6
<1> QED BY <1>4, <1>5, <1>6, <1>7, <1>8, <1>9, <1>10, NoNewLease

LEMMA HeartbeatKeeps ==
  ASSUME RInv, NEW s \in Servers, NEW done \in BOOLEAN, Heartbeat(s, done)
  PROVE  RInv'
<1> DEFINE e == server[s].entry
           n == Len(lease)
           g == IF done /\ server[s].gap < Ttl THEN 0 ELSE server[s].gap
           r == [server[s] EXCEPT !.sleep = Period, !.gap = g]
<1>1. /\ kv' = kv /\ lease' = (IF done /\ Alive(e) THEN [lease EXCEPT ![e] = Ttl] ELSE lease)
      /\ server' = [server EXCEPT ![s] = r]
  BY DEF Heartbeat
<1>2. /\ server[s] \in SRec(n) /\ n \in Nat /\ DOMAIN lease = 1..n /\ lease \in Seq(Nat)
      /\ \A i \in 1..n : lease[i] \in Nat /\ lease[i] <= Ttl
  BY RFacts
<1>3. g \in 0..Ttl
  BY RFacts, TimeFacts
<1> HIDE DEF g
<1>4. r \in SRec(n) /\ r.grant = server[s].grant /\ r.held = server[s].held /\ r.entry = e /\ r.gap = g
  <2>1. Period \in -1..Period
    BY TimeFacts
  <2> QED BY <1>2, <1>3, <2>1 DEF SRec
<1> HIDE DEF r, e
<1>5. /\ lease' \in Seq(Nat) /\ Len(lease') = n
      /\ \A i \in 1..n : lease'[i] = IF done /\ i = e /\ lease[i] > 0 THEN Ttl ELSE lease[i]
  <2>1. Ttl \in Nat
    BY TimeFacts
  <2>2. CASE done /\ Alive(e)
    <3>1. e \in 1..n /\ lease[e] > 0
      BY <1>2, <2>2 DEF Alive
    <3>2. lease' \in Seq(Nat) /\ Len(lease') = n
      BY <1>1, <1>2, <2>1, <2>2, <3>1, ExceptSeq
    <3> QED BY <1>1, <1>2, <2>2, <3>1, <3>2
  <2>3. CASE ~(done /\ Alive(e))
    BY <1>1, <1>2, <2>3 DEF Alive
  <2> QED BY <2>2, <2>3
<1>6. /\ server' \in [Servers -> SRec(n)] /\ server'[s] = r
      /\ \A t \in Servers : t # s => server'[t] = server[t]
  BY <1>1, <1>4, OneHere
<1>7. \A i \in 1..n : lease'[i] <= Ttl /\ (lease[i] > 0 => lease'[i] > 0)
  <2> SUFFICES ASSUME NEW i \in 1..n PROVE lease'[i] <= Ttl /\ (lease[i] > 0 => lease'[i] > 0)
    OBVIOUS
  <2>1. lease[i] \in Nat /\ lease[i] <= Ttl /\ Ttl \in Nat /\ Ttl > 0
    BY <1>2, TimeFacts
  <2> QED BY <1>5, <2>1
<1>8. ASSUME NEW t \in Servers, Key(t) \in DOMAIN kv'
      PROVE  kv'[Key(t)] \in 1..n /\ lease'[kv'[Key(t)]] > 0
  <2>1. kv[Key(t)] \in 1..n /\ lease[kv[Key(t)]] > 0
    BY <1>1, <1>8, RFacts DEF Alive
  <2> QED BY <1>1, <1>7, <2>1
<1>9. ASSUME NEW t \in Servers, NEW i \in 1..n, Uses(t, i)' PROVE Uses(t, i)
  <2>1. \/ i \in {server'[t].grant, server'[t].held, server'[t].entry}
        \/ Key(t) \in DOMAIN kv /\ kv[Key(t)] = i
    BY <1>1, <1>9 DEF Uses, Key
  <2>2. /\ server'[t].held = server[t].held /\ server'[t].entry = server[t].entry
        /\ server'[t].grant = server[t].grant
    BY <1>4, <1>6 DEF e
  <2> QED BY <2>1, <2>2 DEF Uses
<1>10. ASSUME NEW t \in Servers PROVE Kept(t)'
  <2> DEFINE h == server[t].held
  <2>0. Kept(t) /\ h \in 0..n /\ server[t].gap \in 0..Ttl
    BY RFacts
  <2>1. server'[t].held = h /\ server'[t].entry = server[t].entry
    BY <1>4, <1>6 DEF e
  <2>2. SUFFICES ASSUME h # 0, server'[t].gap < Ttl PROVE Kept(t)'
    BY <2>1 DEF Kept
  <2>3. h \in 1..n
    BY <1>2, <2>0, <2>2
  <2>4. server[t].gap < Ttl /\ lease'[h] = Ttl - server'[t].gap
    <3>1. CASE t = s
      <4>1. server[s].gap < Ttl /\ g = IF done THEN 0 ELSE server[s].gap
        BY <1>4, <1>6, <2>2, <3>1 DEF g
      <4>2. h = e /\ lease[h] = Ttl - server[s].gap
        BY <2>0, <2>2, <3>1, <4>1 DEF Kept, e
      <4>3. lease[h] > 0
        BY <2>0, <3>1, <4>1, <4>2, TimeFacts
      <4>4. lease'[h] = IF done THEN Ttl ELSE lease[h]
        BY <1>5, <2>3, <4>2, <4>3
      <4>5. server'[t].gap = g
        BY <1>4, <1>6, <3>1
      <4> QED BY <3>1, <4>1, <4>2, <4>4, <4>5, TimeFacts
    <3>2. CASE t # s
      <4>1. server'[t] = server[t]
        BY <1>6, <3>2
      <4>2. h # e
        <5>1. Uses(t, h) /\ (h = e => Uses(s, h)) /\ h \in DOMAIN lease
          BY <1>2, <2>3 DEF Uses, e
        <5> QED BY <3>2, <5>1, RFacts DEF Leases
      <4>3. lease'[h] = lease[h]
        BY <1>5, <2>3, <4>2
      <4> QED BY <2>0, <2>2, <4>1, <4>3 DEF Kept
    <3> QED BY <3>1, <3>2
  <2>5. h = server[t].entry /\ Key(t) \in DOMAIN kv /\ kv[Key(t)] = h
    BY <2>0, <2>2, <2>4 DEF Kept
  <2> QED BY <1>1, <2>1, <2>4, <2>5 DEF Kept, Key
<1>11. /\ kv' = [k \in DOMAIN kv' |-> kv'[k]]
       /\ DOMAIN kv' \subseteq DOMAIN kv \cup {Key(t) : t \in Servers}
  BY <1>1, RFacts DEF RTypes
<1> QED BY <1>5, <1>6, <1>7, <1>8, <1>9, <1>10, <1>11, NoNewLease

LEMMA TickKeeps ==
  ASSUME RInv, Tick
  PROVE  RInv'
<1> DEFINE n == Len(lease)
           z(s) == IF server[s].sleep > 0 THEN server[s].sleep - 1 ELSE server[s].sleep
           g(s) == IF server[s].held # 0 /\ server[s].gap < Ttl THEN server[s].gap + 1 ELSE server[s].gap
<1>1. /\ lease' = [i \in DOMAIN lease |-> IF lease[i] > 0 THEN lease[i] - 1 ELSE 0]
      /\ kv' = Without({i \in DOMAIN lease : lease[i] = 1})
      /\ server' = [s \in Servers |-> [server[s] EXCEPT !.sleep = z(s), !.gap = g(s)]]
  BY DEF Tick
<1>2. /\ n \in Nat /\ DOMAIN lease = 1..n
      /\ \A i \in 1..n : lease[i] \in Nat /\ lease[i] <= Ttl /\ Ttl \in Nat
  BY RFacts, TimeFacts
<1>3. /\ lease' \in Seq(Nat) /\ Len(lease') = n
      /\ \A i \in 1..n : lease'[i] = (IF lease[i] > 0 THEN lease[i] - 1 ELSE 0) /\ lease'[i] <= Ttl
  <2>0. lease' = [i \in 1..n |-> IF lease[i] > 0 THEN lease[i] - 1 ELSE 0]
    BY <1>1, <1>2
  <2> HIDE DEF n
  <2>1. \A i \in 1..n : (IF lease[i] > 0 THEN lease[i] - 1 ELSE 0) \in 0..Ttl
    BY <1>2
  <2>2. lease' \in [1..n -> Nat] /\ \A i \in 1..n : lease'[i] <= Ttl
    BY <1>2, <2>0, <2>1
  <2>3. lease' \in Seq(Nat) /\ Len(lease') = n
    BY <1>2, <2>2
  <2> QED BY <2>0, <2>2, <2>3
<1>4. \A s \in Servers : z(s) \in -1..Period /\ g(s) \in 0..Ttl
  <2> SUFFICES ASSUME NEW s \in Servers PROVE z(s) \in -1..Period /\ g(s) \in 0..Ttl
    OBVIOUS
  <2>1. server[s].sleep \in -1..Period /\ server[s].gap \in 0..Ttl
    BY RFacts
  <2> QED BY <2>1, TimeFacts
<1> HIDE DEF n
<1>5. ASSUME NEW s \in Servers
      PROVE  /\ server'[s] \in SRec(n) /\ server'[s].grant = server[s].grant
             /\ server'[s].held = server[s].held /\ server'[s].entry = server[s].entry
             /\ server'[s].gap = g(s)
  <2>1. PICK a \in -1..Period, b \in 0..Ttl : a = z(s) /\ b = g(s)
    BY <1>4
  <2>2. server'[s] = [server[s] EXCEPT !.sleep = a, !.gap = b]
    BY <1>1, <2>1
  <2>3. server[s] \in SRec(n)
    BY RFacts DEF n
  <2> QED BY <2>1, <2>2, <2>3 DEF SRec
<1>6. server' \in [Servers -> SRec(n)]
  BY <1>1, <1>5
<1>7. /\ DOMAIN kv' \subseteq DOMAIN kv /\ kv' = [k \in DOMAIN kv' |-> kv'[k]]
      /\ \A k \in DOMAIN kv' : kv'[k] = kv[k] /\ ~(kv[k] \in 1..n /\ lease[kv[k]] = 1)
      /\ \A k \in DOMAIN kv : ~(kv[k] \in 1..n /\ lease[kv[k]] = 1) => k \in DOMAIN kv'
  <2> DEFINE over == {i \in DOMAIN lease : lease[i] = 1}
  <2>1. \A i : i \in over <=> i \in 1..n /\ lease[i] = 1
    BY <1>2
  <2>2. kv' = Without(over)
    BY <1>1
  <2> HIDE DEF over
  <2> QED BY <2>1, <2>2, WithoutFacts
<1>8. ASSUME NEW t \in Servers, Key(t) \in DOMAIN kv'
      PROVE  kv'[Key(t)] \in 1..n /\ lease'[kv'[Key(t)]] > 0
  <2>1. Key(t) \in DOMAIN kv /\ kv'[Key(t)] = kv[Key(t)] /\ ~(kv[Key(t)] \in 1..n /\ lease[kv[Key(t)]] = 1)
    BY <1>7, <1>8
  <2>2. PICK i \in 1..n : i = kv[Key(t)] /\ lease[i] > 0
    BY <1>2, <2>1, RFacts DEF Alive, n
  <2>3. lease'[i] > 0
    BY <1>2, <1>3, <2>1, <2>2
  <2> QED BY <2>1, <2>2, <2>3
<1>9. ASSUME NEW t \in Servers, NEW i \in 1..n, Uses(t, i)' PROVE Uses(t, i)
  <2>1. \/ i \in {server'[t].grant, server'[t].held, server'[t].entry}
        \/ Key(t) \in DOMAIN kv' /\ kv'[Key(t)] = i
    BY <1>9 DEF Uses, Key
  <2> QED BY <1>5, <1>7, <2>1 DEF Uses
<1>10. ASSUME NEW t \in Servers PROVE Kept(t)'
  <2> DEFINE h == server[t].held
  <2>0. Kept(t) /\ h \in 0..n /\ server[t].gap \in 0..Ttl
    BY RFacts DEF n
  <2>1. server'[t].held = h /\ server'[t].entry = server[t].entry /\ server'[t].gap = g(t)
    BY <1>5
  <2>2. SUFFICES ASSUME h # 0, g(t) < Ttl PROVE Kept(t)'
    BY <2>1 DEF Kept
  <2>3. h \in 1..n
    BY <1>2, <2>0, <2>2
  <2>4. server[t].gap < Ttl /\ g(t) = server[t].gap + 1
    BY <2>2
  <2>5. h = server[t].entry /\ lease[h] = Ttl - server[t].gap /\ Key(t) \in DOMAIN kv /\ kv[Key(t)] = h
    BY <2>0, <2>2, <2>4 DEF Kept
  <2>6. lease[h] > 1 /\ lease[h] - 1 = Ttl - g(t)
    BY <2>0, <2>2, <2>4, <2>5, TimeFacts
  <2>7. lease'[h] = Ttl - g(t)
    BY <1>2, <1>3, <2>3, <2>6
  <2>8. Key(t) \in DOMAIN kv' /\ kv'[Key(t)] = h
    BY <1>7, <2>5, <2>6
  <2> QED BY <2>1, <2>5, <2>7, <2>8 DEF Kept, Key
<1>11. DOMAIN kv' \subseteq DOMAIN kv \cup {Key(t) : t \in Servers}
  BY <1>7
<1> QED BY <1>3, <1>6, <1>7, <1>8, <1>9, <1>10, <1>11, NoNewLease DEF n

(* The registry's steps keep its invariant.                                *)
LEMMA RegistryKeeps ==
  ASSUME RInv, [RNext]_rVars
  PROVE  RInv'
<1>1. CASE UNCHANGED rVars
  <2>0. lease' = lease /\ kv' = kv /\ server' = server
    BY <1>1 DEF rVars
  <2>1. RTypes'
    BY <2>0, RFacts DEF RTypes, Key, SRec
  <2>2. Leases'
    BY <2>0, RFacts DEF Leases, Uses, Key
  <2>3. Living'
    BY <2>0, RFacts DEF Living, Alive, Key
  <2>4. \A s \in Servers : Kept(s)'
    BY <2>0, RFacts DEF Kept, Key
  <2> QED BY <2>1, <2>2, <2>3, <2>4 DEF RInv
<1>2. ASSUME NEW s \in Servers, ServerStep(s) PROVE RInv'
  BY <1>2, LeaseGrantKeeps, CrashKeeps, KvPutKeeps, RegisterFailsKeeps, DeregisterKeeps, HeartbeatKeeps
     DEF ServerStep
<1>3. CASE Tick
  BY <1>3, TickKeeps
<1> QED BY <1>1, <1>2, <1>3 DEF RNext

LEMMA RegistryStarts ==
  ASSUME NEW known \in Seq(Servers), NEW running, RegistryInit(known, running)
  PROVE  RInv
<1> DEFINE D == DOMAIN known
           live == Range(known) \cap running
           rec(i) == [up |-> TRUE, grant |-> 0, held |-> i, entry |-> i, sleep |-> Period, gap |-> 0]
           place(s) == CHOOSE i \in D : known[i] = s
<1>0. D = 1..Len(known) /\ Len(known) \in Nat /\ \A i \in D : known[i] \in Servers
  OBVIOUS
<1>1. /\ lease = [i \in D |-> Ttl]
      /\ kv = [k \in OtherKeys \cup {Key(known[i]) : i \in D} |->
                 IF k \in OtherKeys THEN 0 ELSE CHOOSE i \in D : k = Key(known[i])]
      /\ server = [s \in Servers |-> IF s \in live THEN rec(place(s)) ELSE Fresh]
  BY Zenon DEF RegistryInit
<1>2. /\ lease \in Seq(Nat) /\ Len(lease) = Len(known) /\ DOMAIN lease = D
      /\ \A i \in D : lease[i] = Ttl
  <2>1. Ttl \in Nat
    BY TimeFacts
  <2>2. lease \in [1..Len(known) -> Nat] /\ \A i \in D : lease[i] = Ttl
    BY <1>0, <1>1, <2>1
  <2> QED BY <1>0, <2>2
<1>3. \A s \in Servers : s \in Range(known) => place(s) \in D /\ known[place(s)] = s
  BY DEF Range
<1>4. \A s \in Servers : Key(s) \in DOMAIN kv <=> s \in Range(known)
  <2> SUFFICES ASSUME NEW s \in Servers PROVE Key(s) \in DOMAIN kv <=> s \in Range(known)
    OBVIOUS
  <2>1. DOMAIN kv = OtherKeys \cup {Key(known[i]) : i \in D}
    BY <1>1
  <2>2. Key(s) \in DOMAIN kv <=> \E i \in D : Key(s) = Key(known[i])
    BY <2>1, KeyFacts
  <2>3. \A i \in D : Key(s) = Key(known[i]) <=> s = known[i]
    BY <1>0, KeysDiffer
  <2> QED BY <2>2, <2>3 DEF Range
<1>5. \A s \in Servers : s \in Range(known) => kv[Key(s)] = place(s)
  <2> SUFFICES ASSUME NEW s \in Servers, s \in Range(known) PROVE kv[Key(s)] = place(s)
    OBVIOUS
  <2>1. \A i \in D : (Key(s) = Key(known[i])) <=> (known[i] = s)
    BY <1>0, KeysDiffer
  <2>2. Key(s) \notin OtherKeys /\ Key(s) \in DOMAIN kv
    BY <1>4, KeyFacts
  <2>3. kv[Key(s)] = CHOOSE i \in D : Key(s) = Key(known[i])
    BY <1>1, <2>2
  <2>4. (CHOOSE i \in D : Key(s) = Key(known[i])) = place(s)
    BY <2>1, Zenon
  <2> QED BY <2>3, <2>4, Zenon
<1> HIDE DEF place, D, live
<1>6. \A s \in Servers : /\ s \in live => server[s] = rec(place(s)) /\ s \in Range(known)
                         /\ s \notin live => server[s] = Fresh
  <2>1. live \subseteq Range(known)
    BY DEF live
  <2> HIDE DEF rec
  <2> QED BY <1>1, <2>1
<1>6a. /\ Fresh.grant = 0 /\ Fresh.held = 0 /\ Fresh.entry = 0
       /\ \A i : rec(i).grant = 0 /\ rec(i).held = i /\ rec(i).entry = i /\ rec(i).gap = 0
  BY DEF Fresh
<1>7. RTypes
  <2>0. /\ 0 \in 0..Len(lease) /\ Period \in -1..Period /\ -1 \in -1..Period /\ 0 \in 0..Ttl
    BY <1>0, <1>2, TimeFacts
  <2>1. \A s \in Servers : server[s] \in SRec(Len(lease))
    <3> SUFFICES ASSUME NEW s \in Servers PROVE server[s] \in SRec(Len(lease))
      OBVIOUS
    <3>2. CASE s \in live
      <4>1. place(s) \in 0..Len(lease)
        <5>1. place(s) \in D
          BY <1>3, <1>6, <3>2
        <5>2. D \subseteq 0..Len(lease)
          BY <1>0, <1>2
        <5> QED BY <5>1, <5>2
      <4>2. rec(place(s)) \in SRec(Len(lease))
        <5>1. PICK i \in 0..Len(lease) : i = place(s)
          BY <4>1
        <5>2. rec(i) \in SRec(Len(lease))
          BY <2>0 DEF SRec
        <5> QED BY <5>1, <5>2
      <4> QED BY <1>6, <3>2, <4>2, Zenon
    <3>3. CASE s \notin live
      <4>2. Fresh \in SRec(Len(lease))
        BY <2>0 DEF SRec, Fresh, Off
      <4> QED BY <1>6, <3>3, <4>2, Zenon
    <3> QED BY <3>2, <3>3
  <2>2. server \in [Servers -> SRec(Len(lease))]
    BY <1>1, <2>1
  <2>3. \A i \in DOMAIN lease : lease[i] <= Ttl
    BY <1>2, TimeFacts
  <2>4. kv = [k \in DOMAIN kv |-> kv[k]]
    BY <1>1
  <2>5. DOMAIN kv \subseteq OtherKeys \cup {Key(s) : s \in Servers}
    BY <1>0, <1>1
  <2> QED BY <1>2, <2>2, <2>3, <2>4, <2>5 DEF RTypes
<1>8. Living
  BY <1>2, <1>3, <1>4, <1>5, TimeFacts DEF Living, Alive
<1>9. Leases
  <2>1. \A s \in Servers : \A id \in D : Uses(s, id) => known[id] = s
    <3> SUFFICES ASSUME NEW s \in Servers, NEW id \in D, Uses(s, id) PROVE known[id] = s
      OBVIOUS
    <3>1. id # 0
      BY <1>0
    <3>2. {server[s].grant, server[s].held, server[s].entry} \subseteq {0, place(s)}
          /\ (server[s].held # 0 => s \in Range(known)) /\ (server[s].entry # 0 => s \in Range(known))
          /\ server[s].grant = 0
      <4>1. CASE s \in live
        <5>1. server[s] = rec(place(s)) /\ s \in Range(known)
          BY <1>6, <4>1, Zenon
        <5> QED BY <5>1
      <4>2. CASE s \notin live
        <5>1. server[s] = Fresh
          BY <1>6, <4>2, Zenon
        <5>2. server[s].grant = 0 /\ server[s].held = 0 /\ server[s].entry = 0
          BY <1>6a, <5>1, Zenon
        <5> QED BY <5>2
      <4> QED BY <4>1, <4>2
    <3>3. s \in Range(known) /\ id = place(s)
      BY <1>4, <1>5, <3>1, <3>2 DEF Uses
    <3> QED BY <1>3, <3>3
  <2> QED BY <1>2, <2>1 DEF Leases
<1>10. ASSUME NEW s \in Servers PROVE Kept(s)
  <2>1. CASE s \in live
    <3>1. server[s] = rec(place(s)) /\ s \in Range(known)
      BY <1>6, <2>1, Zenon
    <3>2. place(s) \in D
      BY <1>3, <3>1
    <3>3. lease[place(s)] = Ttl - 0 /\ Key(s) \in DOMAIN kv /\ kv[Key(s)] = place(s)
      BY <1>2, <1>4, <1>5, <3>1, <3>2, TimeFacts
    <3>4. server[s].held = place(s) /\ server[s].entry = place(s) /\ server[s].gap = 0
      BY <3>1
    <3> QED BY <3>3, <3>4 DEF Kept
  <2>2. CASE s \notin live
    <3>1. server[s] = Fresh
      BY <1>6, <2>2, Zenon
    <3>2. server[s].held = 0
      BY <1>6a, <3>1, Zenon
    <3> QED BY <3>2 DEF Kept
  <2> QED BY <2>1, <2>2
<1> QED BY <1>7, <1>8, <1>9, <1>10 DEF RInv

(* What the invariant says of discover.                                    *)
LEMMA TellsTheTruth ==
  ASSUME RInv
  PROVE  DiscoverExact
<1>1. IsFiniteSet(DOMAIN kv) /\ DOMAIN kv \subseteq Seq(Bytes)
  <2> DEFINE K == {Key(s) : s \in Servers}
             f == [s \in Servers |-> Key(s)]
  <2>1. DOMAIN kv \subseteq OtherKeys \cup K
    BY RFacts DEF RTypes
  <2>2. K \subseteq Seq(Bytes) /\ OtherKeys \subseteq Seq(Bytes)
    BY KeyFacts, KeysAssumption
  <2>3. f \in Surjection(Servers, K)
    BY DEF Surjection
  <2> HIDE DEF K, f
  <2>4. IsFiniteSet(K) /\ IsFiniteSet(OtherKeys)
    BY <2>3, KeysAssumption, FS_Surjection
  <2>5. IsFiniteSet(OtherKeys \cup K)
    BY <2>4, FS_Union
  <2> QED BY <2>1, <2>2, <2>5, FinitePart
<1>2. PICK n \in Nat : \E f \in [1..n -> Mine] :
         IsInjective(f) /\ Range(f) = Mine /\ Discover = [i \in 1..n |-> Address(f[i])]
  BY <1>1, DiscoverLists
<1>3. PICK f \in [1..n -> Mine] :
         IsInjective(f) /\ Range(f) = Mine /\ Discover = [i \in 1..n |-> Address(f[i])]
  BY <1>2
<1>4. \A k \in Mine : \E s \in Servers : k = Key(s) /\ Key(s) \in DOMAIN kv /\ Alive(kv[Key(s)])
  <2> SUFFICES ASSUME NEW k \in Mine
               PROVE  \E s \in Servers : k = Key(s) /\ Key(s) \in DOMAIN kv /\ Alive(kv[Key(s)])
    OBVIOUS
  <2>1. k \in DOMAIN kv /\ k \notin OtherKeys
    BY KeysAssumption DEF Mine
  <2>2. PICK s \in Servers : k = Key(s)
    BY <2>1, RFacts DEF RTypes
  <2> QED BY <2>1, <2>2, RFacts
<1>5. \A s \in Servers : server[s].held # 0 /\ server[s].gap < Ttl => AddrBytes[s] \in Range(Discover)
  <2> SUFFICES ASSUME NEW s \in Servers, server[s].held # 0, server[s].gap < Ttl
               PROVE  AddrBytes[s] \in Range(Discover)
    OBVIOUS
  <2>1. Key(s) \in Mine
    BY RFacts, KeyFacts DEF Kept, Mine
  <2>2. PICK i \in 1..n : f[i] = Key(s)
    BY <1>3, <2>1 DEF Range
  <2>3. DOMAIN Discover = 1..n /\ Discover[i] = AddrBytes[s]
    BY <1>3, <2>2, KeyFacts
  <2> QED BY <2>3 DEF Range
<1> DEFINE A == {AddrBytes[s] : s \in {t \in Servers : Key(t) \in DOMAIN kv /\ Alive(kv[Key(t)])}}
<1>6. Discover \in Seq(A)
  <2>1. \A i \in 1..n : Address(f[i]) \in A
    <3> SUFFICES ASSUME NEW i \in 1..n PROVE Address(f[i]) \in A
      OBVIOUS
    <3>1. PICK s \in Servers : f[i] = Key(s) /\ Key(s) \in DOMAIN kv /\ Alive(kv[Key(s)])
      BY <1>4
    <3>2. Address(f[i]) = AddrBytes[s]
      BY <3>1, KeyFacts
    <3> QED BY <3>1, <3>2
  <2> HIDE DEF A
  <2> QED BY <1>3, <2>1
<1>7. IsInjective(Discover)
  <2> SUFFICES ASSUME NEW i \in 1..n, NEW j \in 1..n, Discover[i] = Discover[j] PROVE i = j
    BY <1>3 DEF IsInjective
  <2>1. PICK s \in Servers : f[i] = Key(s)
    BY <1>4
  <2>2. PICK t \in Servers : f[j] = Key(t)
    BY <1>4
  <2>3. AddrBytes[s] = AddrBytes[t]
    BY <1>3, <2>1, <2>2, KeyFacts
  <2>4. s = t
    BY <2>3, KeysAssumption DEF IsInjective
  <2> QED BY <1>3, <2>1, <2>2, <2>4 DEF IsInjective
<1> QED BY <1>5, <1>6, <1>7 DEF DiscoverExact

-----------------------------------------------------------------------------
(* The pool and the registry together.  The pool relies on discover, which *)
(* returns addresses of servers.                                           *)

LEMMA InitOK == Init => IInv /\ Side /\ FoundOK
<1>1. Init => IInv /\ Side
  BY PoolInitOK, PoolInitSide DEF Init
<1>2. Init => FoundOK
  BY CallersAreThreads DEF Init, PoolInit, FoundOK
<1> QED BY <1>1, <1>2

(* Only a look-up leads to the choice of an address.                       *)
LEMMA OnlyLookUpsPick ==
  ASSUME IInv, PoolNext, NEW p \in Callers, pc'[p] = "pick"
  PROVE  pc[p] = "pick"
<1>0. p \in Threads /\ pc = [t \in Threads |-> pc[t]]
  BY CallersAreThreads DEF IInv, Types
<1>1. ASSUME NEW t, NEW s, s # "pick", pc' = [pc EXCEPT ![t] = s] PROVE pc[p] = "pick"
  BY <1>0, <1>1
<1>2. ASSUME NEW t, NEW s, s # "pick", Goto(t, s) PROVE pc[p] = "pick"
  BY <1>1, <1>2 DEF Goto
<1>3. ASSUME NEW t, Return(t) PROVE pc[p] = "pick"
  BY <1>2, <1>3 DEF Return
<1>4. ASSUME NEW t, NEW s, s # "pick", GoOn(t, s) PROVE pc[p] = "pick"
  BY <1>2, <1>3, <1>4 DEF GoOn
<1>5. \A t \in Threads : my[t].back # "pick"
  BY MyType DEF LocalsType
<1>6. ASSUME pc' = pc PROVE pc[p] = "pick"
  BY <1>6
<1>7. ASSUME NEW q \in Callers, Acquire(q) \/ AcquireStep(q) PROVE pc[p] = "pick"
  <2>1. ASSUME NEW o, Connect(q, o) PROVE pc[p] = "pick"
    BY <1>2, <1>3, <2>1 DEF Connect
  <2>2. CASE EvictNext(q)
    BY <1>2, <1>4, <2>2 DEF EvictNext
  <2>3. CASE Insert(q)
    BY <1>2, <1>3, <2>3 DEF Insert
  <2>4. CASE ConnectDone(q)
    BY <1>2, <2>4 DEF ConnectDone
  <2>5. CASE Acquire(q) \/ AcquireMore(q) \/ AcquireEvicts(q)
             \/ ConnectTimeout(q) \/ CountConnection(q) \/ UncountConnection(q)
    BY <1>2, <2>5 DEF Acquire, AcquireMore, AcquireEvicts, ConnectTimeout,
                      CountConnection, UncountConnection
  <2>6. CASE AcquireRefused(q) \/ AcquirePooled(q)
    BY <1>3, <2>6 DEF AcquireRefused, AcquirePooled
  <2> QED BY <1>7, <2>1, <2>2, <2>3, <2>4, <2>5, <2>6 DEF AcquireStep
<1>8. ASSUME NEW t \in Threads, StopStep(t) PROVE pc[p] = "pick"
  <2>1. CASE StopEnter(t)
    <3>1. \E s : s # "pick" /\ GoOn(t, s)
      <4>1. GoOn(t, my[t].back) \/ GoOn(t, "stopQueue")
        BY <2>1 DEF StopEnter
      <4> QED BY <1>5, <4>1
    <3>2. PICK s : s # "pick" /\ GoOn(t, s)
      BY <3>1
    <3> QED BY <1>4, <3>2
  <2>2. CASE StopQueue(t)
    BY <1>2, <2>2 DEF StopQueue
  <2>3. CASE StopWait(t)
    BY <1>4, <1>5, <2>3 DEF StopWait
  <2> QED BY <1>8, <2>1, <2>2, <2>3 DEF StopStep
<1>9. ASSUME NEW l \in Loops, LoopStep(l) PROVE pc[p] = "pick"
  BY <1>6, <1>9 DEF LoopStep, RunTask, LoopLeaves, ConnectFinish, HandleClose
<1>10. CASE PeerStep
  BY <1>6, <1>10 DEF PeerStep, Peer
<1>11. CASE ShutdownStep
  BY <1>2, <1>6, <1>11
     DEF ShutdownStep, ShutdownBegin, ShutdownClient, ShutdownJoin, ShutdownEnd
<1>12. ASSUME NEW t \in Threads, UseAfterDestroy(t) PROVE pc[p] = "pick"
  BY <1>6, <1>12 DEF UseAfterDestroy
<1> QED BY <1>7, <1>8, <1>9, <1>10, <1>11, <1>12 DEF PoolNext

(* What a look-up finds are addresses.                                     *)
LEMMA LookUpFinds ==
  ASSUME IInv, FoundOK, DiscoverExact, NEW p \in Callers, DiscoverService(p)
  PROVE  FoundOK'
<1>1. PICK addrs \in {Discover, <<>>} :
        /\ found' = [found EXCEPT ![p] = [i \in DOMAIN addrs |-> AddrOf(addrs[i])]]
        /\ pc' = [pc EXCEPT ![p] = IF addrs = <<>> THEN "idle" ELSE "pick"]
  BY DEF DiscoverService
<1>2. /\ p \in Threads /\ UNCHANGED m_rr_service
      /\ \A q \in Callers \ {p} : q \in Threads /\ pc'[q] = pc[q] /\ found'[q] = found[q]
      /\ found'[p] = [i \in DOMAIN addrs |-> AddrOf(addrs[i])]
      /\ pc'[p] = IF addrs = <<>> THEN "idle" ELSE "pick"
      /\ found' = [q \in Callers |-> found'[q]]
  BY <1>1, CallersAreThreads DEF DiscoverService, FoundOK, IInv, Types
<1>3. ASSUME pc'[p] = "pick" PROVE found'[p] \in Seq(Addrs) /\ found'[p] # <<>>
  <2>1. addrs = Discover /\ addrs # <<>>
    BY <1>1, <1>2, <1>3
  <2>2. PICK T : addrs \in Seq(T) /\ \A b \in T : \E s \in Servers : AddrBytes[s] = b
    <3> DEFINE live == {t \in Servers : Key(t) \in DOMAIN kv /\ Alive(kv[Key(t)])}
               T == {AddrBytes[s] : s \in live}
    <3>1. Discover \in Seq(T)
      BY DEF DiscoverExact
    <3>2. \A b \in T : \E s \in Servers : AddrBytes[s] = b
      OBVIOUS
    <3> HIDE DEF T
    <3> QED BY <2>1, <3>1, <3>2
  <2>3. ASSUME NEW i \in DOMAIN addrs PROVE AddrOf(addrs[i]) \in Addrs
    <3>1. \E s \in Servers : AddrBytes[s] = addrs[i]
      BY <2>2
    <3> QED BY <3>1, DiscoveryAssumption DEF AddrOf
  <2>4. PICK n \in Nat \ {0} : DOMAIN addrs = 1..n
    BY <2>1, <2>2
  <2>5. found'[p] \in [1..n -> Addrs]
    BY <1>2, <2>3, <2>4
  <2>6. found'[p] \in Seq(Addrs) /\ Len(found'[p]) = n
    BY <2>5
  <2> QED BY <2>6
<1> QED BY <1>2, <1>3 DEF FoundOK

LEMMA NextOK ==
  ASSUME IInv, Side, FoundOK, DiscoverExact, [Next]_vars
  PROVE  IInv' /\ FoundOK'
<1>1. ASSUME NEW p \in Callers, AcquireByService(p) PROVE IInv' /\ FoundOK'
  <2>1. pc' = [pc EXCEPT ![p] = "discover"] /\ UNCHANGED <<found, m_rr_service>>
    BY <1>1 DEF AcquireByService
  <2>2. \A q \in Callers : pc'[q] = "pick" => pc[q] = "pick"
    BY <2>1, CallersAreThreads DEF IInv, Types
  <2>3. FoundOK'
    BY <2>1, <2>2 DEF FoundOK
  <2> QED BY <1>1, <2>3, AcquireByServiceOK
<1>2. ASSUME NEW p \in Callers, DiscoverService(p) PROVE IInv' /\ FoundOK'
  BY <1>2, DiscoverServiceOK, LookUpFinds
<1>3. ASSUME NEW p \in Callers, Pick(p) PROVE IInv' /\ FoundOK'
  <2>1. pc' = [pc EXCEPT ![p] = "acquire"] /\ found' = [found EXCEPT ![p] = <<>>]
    BY <1>3 DEF Pick
  <2>2. /\ pc'[p] # "pick"
        /\ \A q \in Callers \ {p} : pc'[q] = pc[q] /\ found'[q] = found[q]
        /\ found' = [q \in Callers |-> found'[q]]
    BY <2>1, CallersAreThreads DEF IInv, Types, FoundOK
  <2>3. m_rr_service' \in Nat
    <3>1. CASE UNCHANGED m_rr_service
      BY <3>1 DEF FoundOK
    <3>2. CASE m_rr_service' = (m_rr_service + 1) % Len(found[p])
      <4>1. found[p] \in Seq(Addrs) /\ found[p] # <<>>
        BY <1>3 DEF Pick, FoundOK
      <4>2. PICK n \in Nat \ {0} : n = Len(found[p])
        BY <4>1
      <4>3. PICK k \in Nat : k = m_rr_service
        BY DEF FoundOK
      <4>4. (k + 1) % n \in Nat
        OBVIOUS
      <4> QED BY <3>2, <4>2, <4>3, <4>4
    <3> QED BY <1>3, <3>1, <3>2 DEF Pick
  <2>4. FoundOK'
    BY <2>2, <2>3 DEF FoundOK
  <2> QED BY <1>3, <2>4, PickOK
<1>4. CASE PoolStep
  <2>1. PoolNext /\ UNCHANGED <<found, m_rr_service>>
    BY <1>4 DEF PoolStep
  <2>2. \A q \in Callers : pc'[q] = "pick" => pc[q] = "pick"
    BY <2>1, OnlyLookUpsPick
  <2>3. FoundOK'
    BY <2>1, <2>2 DEF FoundOK
  <2> QED BY <2>1, <2>3, PoolNextOK
<1>5. ASSUME UNCHANGED <<pVars, found, m_rr_service>> PROVE IInv' /\ FoundOK'
  <2>1. UNCHANGED <<pc, found, m_rr_service>>
    BY <1>5 DEF pVars
  <2>2. FoundOK'
    BY <2>1 DEF FoundOK
  <2>3. UNCHANGED <<script, m_clients, m_shutdown, clients, loop, pc, my>>
    BY <1>5 DEF pVars, poolVars
  <2> QED BY <2>2, <2>3, Stutters
<1>6. CASE RegistryStep
  BY <1>5, <1>6 DEF RegistryStep
<1>7. CASE UNCHANGED vars
  BY <1>5, <1>7 DEF vars
<1> QED BY <1>1, <1>2, <1>3, <1>4, <1>6, <1>7 DEF Next

(* Looking up and picking take nothing from the pool.                      *)
LEMMA NextSide ==
  ASSUME IInv, Side, [Next]_vars
  PROVE  Side'
<1>1. ASSUME NEW p \in Callers, NEW s, s \notin {"stopQueue", "stopWait"}, pc' = [pc EXCEPT ![p] = s],
             \A t \in Threads : my'[t].client = my[t].client, UNCHANGED <<clients, loop>>
      PROVE  Side'
  <2>1. Emptied'
    BY <1>1 DEF Side, Emptied, ClientIds
  <2>2. \A t \in Threads : pc'[t] \in {"stopQueue", "stopWait"} => pc[t] \in {"stopQueue", "stopWait"}
    BY <1>1, CallersAreThreads DEF IInv, Types
  <2>3. Taken'
    BY <1>1, <2>2 DEF Side, Taken
  <2> QED BY <2>1, <2>3 DEF Side
<1>2. ASSUME NEW p \in Callers, AcquireByService(p) PROVE Side'
  BY <1>1, <1>2 DEF AcquireByService
<1>3. ASSUME NEW p \in Callers, DiscoverService(p) PROVE Side'
  <2>1. \E s : s \notin {"stopQueue", "stopWait"} /\ pc' = [pc EXCEPT ![p] = s]
    BY <1>3 DEF DiscoverService
  <2> QED BY <1>1, <1>3, <2>1 DEF DiscoverService
<1>4. ASSUME NEW p \in Callers, Pick(p) PROVE Side'
  <2>1. \E a : my' = [my EXCEPT ![p].addr = a]
    BY <1>4 DEF Pick
  <2>2. \A t \in Threads : my'[t].client = my[t].client
    <3>1. my \in [Threads -> LocalsType] /\ \A t \in Threads : my[t] \in LocalsType
      BY DEF IInv, Types
    <3>2. PICK a : my' = [my EXCEPT ![p].addr = a]
      BY <2>1
    <3> SUFFICES ASSUME NEW t \in Threads PROVE my'[t].client = my[t].client
      OBVIOUS
    <3>3. CASE t = p
      <4>1. my'[t] = [my[t] EXCEPT !.addr = a]
        BY <3>1, <3>2, <3>3
      <4> QED BY <3>1, <4>1 DEF LocalsType
    <3>4. CASE t # p
      BY <3>1, <3>2, <3>4
    <3> QED BY <3>3, <3>4
  <2> QED BY <1>1, <1>4, <2>2 DEF Pick
<1>5. CASE PoolStep
  BY <1>5, PoolNextSide DEF PoolStep
<1>6. CASE RegistryStep \/ UNCHANGED vars
  <2>1. UNCHANGED <<clients, loop, pc, my>>
    BY <1>6 DEF RegistryStep, vars, pVars
  <2> QED BY <2>1, StutterSide
<1> QED BY <1>2, <1>3, <1>4, <1>5, <1>6 DEF Next

LEMMA InitRegistry == Init => RInv
<1> SUFFICES ASSUME Init PROVE RInv
  OBVIOUS
<1>1. script \in PoolScripts /\ RegistryInit(script.known, script.servers)
  BY DEF Init, PoolInit
<1>2. script.known \in Seq(Servers)
  BY <1>1, DiscoveryAssumption
<1> QED BY <1>1, <1>2, RegistryStarts

LEMMA NextRegistry ==
  ASSUME Types, RInv, [Next]_vars
  PROVE  RInv'
<1>1. script.servers \subseteq Servers
  BY DiscoveryAssumption DEF Types
<1>2. [RNext]_rVars
  <2>1. CASE UNCHANGED vars
    BY <2>1 DEF vars, rVars
  <2>2. ASSUME NEW p \in Callers, AcquireByService(p) \/ DiscoverService(p) \/ Pick(p) PROVE UNCHANGED rVars
    BY <2>2 DEF AcquireByService, DiscoverService, Pick, rVars
  <2>3. CASE PoolStep
    BY <2>3 DEF PoolStep, rVars
  <2>4. CASE RegistryStep
    BY <1>1, <2>4 DEF RegistryStep, RNext
  <2> QED BY <2>1, <2>2, <2>3, <2>4 DEF Next
<1> QED BY <1>2, RegistryKeeps

(* The pool's invariant and the registry's, together: the pool needs what  *)
(* discover returns to be addresses, for any servers that come, go, crash  *)
(* and come back, and any requests that are slow or fail.                  *)
THEOREM DiscoveryInvariant == Spec => [](IInv /\ Side /\ FoundOK /\ RInv)
<1>1. Init => IInv /\ Side /\ FoundOK /\ RInv
  BY InitOK, InitRegistry
<1>2. IInv /\ Side /\ FoundOK /\ RInv /\ [Next]_vars => (IInv /\ Side /\ FoundOK /\ RInv)'
  <2> SUFFICES ASSUME IInv, Side, FoundOK, RInv, [Next]_vars PROVE IInv' /\ Side' /\ FoundOK' /\ RInv'
    OBVIOUS
  <2>1. Types
    BY DEF IInv
  <2>2. RInv'
    BY <2>1, NextRegistry
  <2> QED BY <2>2, TellsTheTruth, NextOK, NextSide
<1> QED BY <1>1, <1>2, PTL DEF Spec

(* discover returns every address that etcd has taken from its             *)
(* registerService to deregister or the death of the process, as long as   *)
(* no Ttl seconds go by without a heartbeat that gets to etcd; none twice  *)
(* and none without a live lease.  For any ttl and any time between the    *)
(* heartbeats, any prefix, addresses and other keys, puts that etcd        *)
(* refuses and requests whose answers are lost.                            *)
THEOREM DiscoverTellsTheTruth == Spec => []DiscoverExact
  BY DiscoveryInvariant, TellsTheTruth, PTL

(* Callers that look a service up and callers that name an address leave   *)
(* the pool in the same order: counts, owners and loops are as they should *)
(* be, whatever the registry does between the look-up, the pick and the    *)
(* connect.                                                                *)
THEOREM DiscoveryPoolSafe ==
  Spec => [](LoadExact /\ NoStrayConnection /\ LoopOutlivesClient)
<1>1. IInv => LoadExact /\ NoStrayConnection /\ LoopOutlivesClient
  BY NothingStray, LoopsOutlive DEF IInv
<1> QED BY <1>1, DiscoveryInvariant, PTL
=============================================================================
