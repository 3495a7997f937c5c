------------------------------- MODULE Registry -------------------------------
(***************************************************************************)
(* EtcdRegistry: server processes that register their address under a      *)
(* lease and keep it alive from a background thread, and clients that look *)
(* the addresses up.  etcd itself is external: leases that run out, a map  *)
(* from keys to leases, ranges of keys.                                    *)
(*                                                                         *)
(* Time passes in seconds, while requests are under way too, for httpPost  *)
(* waits without a limit.  A request may fail before or after etcd has     *)
(* done it; one that etcd refuses is answered, with an error that nobody   *)
(* reads.  A key is the bytes of its prefix and its address.               *)
(***************************************************************************)
EXTENDS Integers, Sequences, FiniteSets, SequencesExt, FiniteSetsExt

CONSTANTS Servers,    \* addresses of server processes
          AddrBytes,  \* [Servers -> the address as bytes]
          Prefix,     \* the bytes of "/services/<name>/"
          OtherKeys,  \* keys of other services that etcd also holds
          Ttl,        \* ttl_seconds of the leases
          Period,     \* seconds between two heartbeats
          MaxLeases   \* bound on the leases granted

ASSUME RegistryAssumption ==
    Period \in Nat \ {0} /\ Ttl \in Nat \ {0} /\ MaxLeases \in Nat

Bytes == 0..255

\* Addresses are different; the prefix is not all 0xff, and no key of another
\* service begins with it (the names of services hold no '/').
ASSUME KeysAssumption ==
    /\ IsFiniteSet(Servers) /\ IsFiniteSet(OtherKeys)
    /\ AddrBytes \in [Servers -> Seq(Bytes)] /\ IsInjective(AddrBytes)
    /\ Prefix \in Seq(Bytes) /\ \E i \in DOMAIN Prefix : Prefix[i] < 255
    /\ \A k \in OtherKeys : k \in Seq(Bytes) /\ ~IsPrefix(Prefix, k)

VARIABLES
    lease,   \* etcd: seconds left of each lease granted, 0 when it is over
    kv,      \* etcd: the lease of each key
    server   \* the server processes with their EtcdRegistry

rVars == <<lease, kv, server>>

Key(s) == Prefix \o AddrBytes[s]

Off == -1

\* A process that is down.  grant is the lease of a registerService under way,
\* held the one that it returned to the application, entry the one that m_leases
\* has for the key (0: none), sleep the seconds until the lease thread's next
\* heartbeat is due (Off: m_lease_running is not set).  gap is no variable of the
\* code: for how long etcd has not heard of the lease held, and Ttl for ever
\* when that was as long as it lives or the key is not under it.
Fresh == [up |-> FALSE, grant |-> 0, held |-> 0, entry |-> 0, sleep |-> Off, gap |-> 0]

\* The processes in the sequence known have just registered.  Those of them that
\* are not running have died since.
RegistryInit(known, running) ==
    /\ lease = [i \in DOMAIN known |-> Ttl]
    /\ kv = [k \in OtherKeys \cup {Key(known[i]) : i \in DOMAIN known} |->
              IF k \in OtherKeys THEN 0 ELSE CHOOSE i \in DOMAIN known : k = Key(known[i])]
    /\ server = [s \in Servers |->
          IF s \in Range(known) \cap running
            THEN LET i == CHOOSE i \in DOMAIN known : known[i] = s
                 IN [up |-> TRUE, grant |-> 0, held |-> i, entry |-> i, sleep |-> Period, gap |-> 0]
            ELSE Fresh]

-----------------------------------------------------------------------------
(* Base64.  A character is its place in kBase64Table, '=' is Pad.          *)

Pad == 64
Byte(data, i) == IF i <= Len(data) THEN data[i] ELSE 0

Base64Encode(data) ==
    [j \in 1..(4 * ((Len(data) + 2) \div 3)) |->
        LET i == 3 * ((j - 1) \div 4) + 1
            b0 == Byte(data, i)  b1 == Byte(data, i + 1)  b2 == Byte(data, i + 2)
        IN CASE (j - 1) % 4 = 0 -> b0 \div 4
             [] (j - 1) % 4 = 1 -> (b0 % 4) * 16 + b1 \div 16
             [] (j - 1) % 4 = 2 ->
                  IF i + 1 <= Len(data) THEN (b1 % 16) * 4 + b2 \div 64 ELSE Pad
             [] (j - 1) % 4 = 3 -> IF i + 2 <= Len(data) THEN b2 % 64 ELSE Pad]

\* decode_table has 0 for every character that is not in the table.
Sextet(ch) == IF ch = Pad THEN 0 ELSE ch

Base64Decode(data) ==
    FlattenSeq([g \in 1..((Len(data) + 3) \div 4) |->
        LET ch(n) == Byte(data, 4 * (g - 1) + n)
            v(n) == Sextet(ch(n))
        IN << (v(1) * 4 + v(2) \div 16) % 256 >>
           \o (IF ch(3) # Pad THEN << (v(2) * 16 + v(3) \div 4) % 256 >> ELSE <<>>)
           \o (IF ch(4) # Pad THEN << (v(3) * 64 + v(4)) % 256 >> ELSE <<>>)])

\* The end of the range of keys that begin with key.
Base64RangeEnd(key) ==
    LET low == {i \in DOMAIN key : key[i] < 255}
    IN Base64Encode(IF low = {} THEN <<0>>
                    ELSE SubSeq(key, 1, Max(low) - 1) \o << key[Max(low)] + 1 >>)

-----------------------------------------------------------------------------
(* etcd.                                                                   *)

\* Keys are ordered byte by byte.
Below(s, t) ==
    \/ \E i \in 1..Min({Len(s), Len(t)}) :
          s[i] < t[i] /\ SubSeq(s, 1, i - 1) = SubSeq(t, 1, i - 1)
    \/ Len(s) < Len(t) /\ SubSeq(t, 1, Len(s)) = s

\* A set of keys from the lowest to the highest.
InOrder(keys) ==
    CHOOSE f \in [1..Cardinality(keys) -> keys] :
        \A i, j \in DOMAIN f : i < j => Below(f[i], f[j])

\* /v3/kv/range: the keys from first up to end, in order, in base64.
RangeResponse(first, end) ==
    LET lo == Base64Decode(first)
        hi == Base64Decode(end)
        keys == InOrder({k \in DOMAIN kv : ~Below(k, lo) /\ Below(k, hi)})
    IN [i \in DOMAIN keys |-> Base64Encode(keys[i])]

Alive(id) == id \in DOMAIN lease /\ lease[id] > 0
Without(ids) == [k \in {k \in DOMAIN kv : kv[k] \notin ids} |-> kv[k]]

-----------------------------------------------------------------------------
(* The server's side.                                                      *)

\* registerService: a lease is granted.  A process may register again.
LeaseGrant(s) ==
    /\ server[s].grant = 0 /\ Len(lease) < MaxLeases
    /\ lease' = Append(lease, Ttl)
    /\ server' = [server EXCEPT ![s].up = TRUE, ![s].grant = Len(lease) + 1]
    /\ UNCHANGED kv

\* /v3/kv/put under lease id: done, unless etcd refuses it, as it does when the
\* lease has run out meanwhile.
Put(s, id, done) ==
    /\ done => Alive(id)
    /\ kv' = IF done THEN [k \in DOMAIN kv \cup {Key(s)} |-> IF k = Key(s) THEN id ELSE kv[k]]
             ELSE kv

\* Regression: the entry of an earlier registration is kept.
KvPutKeepsEntry(s, done) ==
    LET id == server[s].grant
    IN /\ id # 0 /\ Put(s, id, done)
       /\ server' = [server EXCEPT
             ![s].grant = 0, ![s].held = id,
             ![s].entry = IF @ = 0 THEN id ELSE @,
             ![s].sleep = IF @ = Off THEN Period ELSE @,
             ![s].gap = IF done THEN Ttl - lease[id] ELSE Ttl]
       /\ UNCHANGED lease

\* Regression: the key is put without its lease.
KvPutNoLease(s, done) ==
    /\ server[s].grant # 0
    /\ kv' = [k \in DOMAIN kv \cup {Key(s)} |-> IF k = Key(s) THEN 0 ELSE kv[k]]
    /\ server' = [server EXCEPT
          ![s].grant = 0, ![s].held = server[s].grant, ![s].entry = server[s].grant,
          ![s].sleep = IF @ = Off THEN Period ELSE @]
    /\ UNCHANGED lease

\* Any answer to the put is taken for success: the heartbeat thread is started
\* by the first registration, and the lease becomes the one to keep alive.
KvPut(s, done) ==
    LET id == server[s].grant
    IN /\ id # 0 /\ Put(s, id, done)
       /\ server' = [server EXCEPT
             ![s].grant = 0, ![s].held = id, ![s].entry = id,
             ![s].sleep = IF @ = Off THEN Period ELSE @,
             ![s].gap = IF done THEN Ttl - lease[id] ELSE Ttl]
       /\ UNCHANGED lease

\* No answer to one of the two requests: registerService returns -1.  An earlier
\* registration goes on, but its key may be under the new lease, which nobody
\* keeps alive.
RegisterFails(s, done) ==
    LET id == server[s].grant
    IN /\ id # 0 /\ Put(s, id, done)
       /\ server' = [server EXCEPT ![s].grant = 0, ![s].gap = IF done THEN Ttl ELSE @]
       /\ UNCHANGED lease

\* deregister: etcd revokes the lease, with its keys, if the request gets there;
\* m_leases keeps the entry.
Deregister(s, done) ==
    LET id == server[s].held
    IN /\ id # 0 /\ server[s].grant = 0
       /\ lease' = IF done THEN [lease EXCEPT ![id] = 0] ELSE lease
       /\ kv' = IF done THEN Without({id}) ELSE kv
       /\ server' = [server EXCEPT ![s].held = 0, ![s].gap = 0]

\* leaseLoop has slept and sends a heartbeat for its entry, which gets there or
\* not; a lease that is over stays over.
Heartbeat(s, done) ==
    LET id == server[s].entry
    IN /\ server[s].sleep = 0
       /\ lease' = IF done /\ Alive(id) THEN [lease EXCEPT ![id] = Ttl] ELSE lease
       /\ server' = [server EXCEPT
             ![s].sleep = Period, ![s].gap = IF done /\ @ < Ttl THEN 0 ELSE @]
       /\ UNCHANGED kv

\* The process dies, or ends the heartbeats in ~EtcdRegistry; nothing is revoked.
Crash(s) ==
    /\ server[s].up
    /\ server' = [server EXCEPT ![s] = Fresh]
    /\ UNCHANGED <<lease, kv>>

\* A second passes; a heartbeat that is due may be still under way.
Tick ==
    /\ lease' = [i \in DOMAIN lease |-> IF lease[i] > 0 THEN lease[i] - 1 ELSE 0]
    /\ kv' = Without({i \in DOMAIN lease : lease[i] = 1})
    /\ server' = [s \in Servers |-> [server[s] EXCEPT
          !.sleep = IF @ > 0 THEN @ - 1 ELSE @,
          !.gap = IF server[s].held # 0 /\ @ < Ttl THEN @ + 1 ELSE @]]

ServerStep(s) ==
    \/ LeaseGrant(s) \/ Crash(s)
    \/ \E done \in BOOLEAN :
          KvPut(s, done) \/ RegisterFails(s, done) \/ Deregister(s, done) \/ Heartbeat(s, done)

\* Time goes on.  Nobody has to register, and no request has to get through.
RegistryFairness == WF_rVars(Tick)

-----------------------------------------------------------------------------
(* The client's side.                                                      *)

\* discover: the addresses behind the keys of the response that begin with the
\* prefix.
Discover ==
    LET response == RangeResponse(Base64Encode(Prefix), Base64RangeEnd(Prefix))
        addr(key) == IF IsPrefix(Prefix, key) THEN <<SubSeq(key, Len(Prefix) + 1, Len(key))>>
                     ELSE <<>>
    IN FlattenSeq([i \in DOMAIN response |-> addr(Base64Decode(response[i]))])

-----------------------------------------------------------------------------
(* Properties.                                                             *)

(* discover tells the truth: it returns every address that etcd has taken *)
(* from its registerService's return to deregister or the death of the     *)
(* process, as long as no Ttl seconds go by without a heartbeat of that    *)
(* process that gets to etcd, through re-registrations, restarts whose old *)
(* leases run out, slow and lost requests, base64, the range of the prefix *)
(* and the keys of other services; it returns no address twice and none    *)
(* without a live lease.  The code does not promise more: an error to the  *)
(* put is taken for success, and the heartbeat comes every 2 s whatever    *)
(* the ttl (service_registry.h says every ttl/3).                          *)
DiscoverExact ==
    /\ \A s \in Servers :
          server[s].held # 0 /\ server[s].gap < Ttl => AddrBytes[s] \in Range(Discover)
    /\ Discover \in Seq({AddrBytes[s] : s \in {t \in Servers :
                                Key(t) \in DOMAIN kv /\ Alive(kv[Key(t)])}})
    /\ IsInjective(Discover)

(* The address of a dead process does not stay: it disappears, unless a    *)
(* process comes back at it.                                               *)
CrashedGone ==
    \A s \in Servers : []<>(server[s].up \/ Key(s) \notin DOMAIN kv)
=============================================================================
