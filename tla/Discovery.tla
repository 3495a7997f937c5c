------------------------------- MODULE Discovery -------------------------------
(***************************************************************************)
(* The client's view of a service: acquireByService looks its addresses up *)
(* in the registry, which servers enter and leave, picks one and acquires  *)
(* a connection to it from the pool.                                       *)
(*                                                                         *)
(* discover runs before the pool's mutex is taken, so that a server may go *)
(* away between the look-up, the pick and the connect.                     *)
(***************************************************************************)
EXTENDS ConnectionPool, Registry

CONSTANT Service    \* in a caller's script: acquireByService

ASSUME DiscoveryAssumption ==
    /\ Servers \subseteq Addrs
    /\ \A s \in PoolScripts : s.known \in Seq(Servers) /\ s.servers \subseteq Servers

VARIABLES
    found,          \* per caller: the addresses discover returned
    m_rr_service    \* m_rr_counters of the service's name

vars == <<pVars, rVars, found, m_rr_service>>

AddrOf(bytes) == CHOOSE a \in Servers : AddrBytes[a] = bytes

Init ==
    /\ PoolInit /\ RegistryInit(script.known, script.servers)
    /\ found = [p \in Callers |-> <<>>]
    /\ m_rr_service = 0

AcquireByService(p) ==
    /\ pc[p] = "idle" /\ calls[p] # <<>> /\ Head(calls[p]) = Service
    /\ Home[p] # None => LoopFree(Home[p])
    /\ calls' = [calls EXCEPT ![p] = Tail(@)]
    /\ pc' = [pc EXCEPT ![p] = "discover"]
    /\ UNCHANGED <<script, crashed, poolVars, clients, loop, my, rVars, found, m_rr_service>>

\* The request may fail; discover then returns nothing.
DiscoverService(p) ==
    /\ pc[p] = "discover"
    /\ \E addrs \in {Discover, <<>>} :
         /\ found' = [found EXCEPT ![p] = [i \in DOMAIN addrs |-> AddrOf(addrs[i])]]
         /\ pc' = [pc EXCEPT ![p] = IF addrs = <<>> THEN "idle" ELSE "pick"]
    /\ UNCHANGED <<script, crashed, calls, poolVars, clients, loop, my, rVars, m_rr_service>>

\* Under the mutex: round robin over as many addresses as were found this time.
Pick(p) ==
    /\ pc[p] = "pick"
    /\ \/ /\ script.lb = "RoundRobin"
          /\ m_rr_service' = (m_rr_service + 1) % Len(found[p])
          /\ my' = [my EXCEPT ![p].addr = found[p][(m_rr_service % Len(found[p])) + 1]]
       \/ /\ script.lb = "Random"
          /\ \E i \in DOMAIN found[p] : my' = [my EXCEPT ![p].addr = found[p][i]]
          /\ UNCHANGED m_rr_service
    /\ pc' = [pc EXCEPT ![p] = "acquire"]
    /\ found' = [found EXCEPT ![p] = <<>>]
    /\ UNCHANGED <<script, crashed, calls, poolVars, clients, loop, rVars>>

PoolStep == PoolNext /\ UNCHANGED <<rVars, found, m_rr_service>>

\* Only the servers of the script run.
RegistryStep ==
    /\ Tick \/ \E s \in script.servers : ServerStep(s)
    /\ UNCHANGED <<pVars, found, m_rr_service>>

Next ==
    \/ ~crashed /\ \E p \in Callers : AcquireByService(p) \/ DiscoverService(p) \/ Pick(p)
    \/ PoolStep
    \/ RegistryStep

\* As for the pool and the registry; and callers call, a look-up ends.
LookUpEnds(p) == pc[p] = "discover" /\ pc' \in {[pc EXCEPT ![p] = s] : s \in {"idle", "pick"}}
Fairness ==
    /\ PoolFairness /\ RegistryFairness
    /\ \A p \in Callers :
          WF_pVars(~crashed /\ Acquire(p)) /\ WF_vars(~crashed /\ (AcquireByService(p) \/ Pick(p)))
    /\ \A p \in Callers : WF_pc(~crashed /\ LookUpEnds(p))

Spec == Init /\ [][Next]_vars /\ Fairness
=============================================================================
