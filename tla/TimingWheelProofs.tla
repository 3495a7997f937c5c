-------------------------- MODULE TimingWheelProofs --------------------------
(***************************************************************************)
(* Proofs about TimingWheel for any set of events, tick, number of slots   *)
(* and bounds.                                                             *)
(*                                                                         *)
(* The inductive invariant says, besides the types,                        *)
(*  - Loop: outside fireExpired nothing is collected, and inside it the    *)
(*    wheel's clock is less than a tick behind nowMs;                      *)
(*  - Places: a live event is in at most one of the slots, the overflow    *)
(*    map and the collected events, and in one of them exactly if it has   *)
(*    been added and has still to fire;                                    *)
(*  - Clock: an event in the slot that the cursor reaches after j more     *)
(*    ticks is not due before then (the wheel's clock plus j ticks), and   *)
(*    what fireExpired leaves in the overflow map is due later.            *)
(* Places is needed for Clock: a repeated event gets its new deadline when *)
(* the old one is nowhere in the wheel any more.                           *)
(***************************************************************************)
EXTENDS TimingWheel, FiniteSetTheorems, NaturalsInduction, WellFoundedInduction, TLAPS

Firing == {"fire", "rearm"}

Loop ==
    /\ loopPc \notin Firing => expired = {}
    /\ loopPc # "rearm" => firing = {}
    /\ loopPc = "rearm" => \E e \in Repeated : firing = {e} /\ e \notin expired
    /\ loopPc \in Firing => nowMs < m_last_tick_ms + Tick

InSlots(e) == \E i \in SlotIndex : e \in m_l1[i]

Once(e) ==
    /\ \A i, j \in SlotIndex : e \in m_l1[i] /\ e \in m_l1[j] => i = j
    /\ InSlots(e) => e \notin m_overflow /\ e \notin expired \cup firing
    /\ e \in m_overflow => e \notin expired \cup firing

Placed(e) == InSlots(e) \/ e \in m_overflow \/ e \in expired \cup firing

ToFire(e) == stage[e] = "added" /\ (e \in Repeated \/ fires[e] = 0)

Places ==
    \A e \in Events : ~cancelled[e] =>
        /\ Once(e)
        /\ Placed(e) <=> ToFire(e)
        /\ stage[e] # "added" => fires[e] = 0

Unstarted == m_last_tick_ms = 0 => m_overflow = {} /\ \A i \in SlotIndex : m_l1[i] = {}

NotBefore ==
    \A j \in SlotIndex : \A e \in m_l1[Ahead(j)] :
        ~cancelled[e] => Deadline(e) >= m_last_tick_ms + j * Tick

FarLater == loopPc \in Firing => \A e \in m_overflow : ~cancelled[e] => arrive[e] > nowMs

Clock == Unstarted /\ NotBefore /\ FarLater

IInv == TypeOK /\ Loop /\ Places /\ Clock

-----------------------------------------------------------------------------
(* Arithmetic of ticks and slots.                                          *)

LEMMA Bounds ==
  /\ Tick \in Nat /\ Tick >= 1 /\ Slots \in Nat /\ Slots >= 1
  /\ L1Range = Slots * Tick /\ L1Range \in Nat
  /\ MaxTime \in Nat /\ MaxTime >= 1 /\ MaxFires \in Nat /\ MaxFires >= 1 /\ MaxStall \in Nat
  /\ Never = 0 - 1
  /\ \A i : i \in SlotIndex <=> i \in Nat /\ i < Slots
  BY WheelAssumption, TimeAssumption DEF L1Range, Never, SlotIndex

(* Whole ticks and the remainder.                                          *)
LEMMA Quotient ==
  ASSUME NEW x \in Nat
  PROVE  /\ x \div Tick \in Nat
         /\ (x \div Tick) * Tick <= x /\ x < (x \div Tick) * Tick + Tick
  BY Bounds

LEMMA TimesMonotone ==
  \A i, j \in Nat : i <= j => i * Tick <= j * Tick /\ (i < j => i * Tick + Tick <= j * Tick)
  BY Bounds

LEMMA TimesAdd ==
  \A i, j \in Int : (i + j) * Tick = i * Tick + j * Tick /\ (i - j) * Tick = i * Tick - j * Tick
                    /\ i * Tick \in Int
  BY Bounds

(* One revolution is enough to undo the modulus.                           *)
LEMMA Wrap ==
  ASSUME NEW x \in Nat, x < 2 * Slots
  PROVE  x % Slots = IF x < Slots THEN x ELSE x - Slots
  BY Bounds

(* A minimum of naturals.                                                  *)
LEMMA MinExists ==
  ASSUME NEW S, S \subseteq Nat, S # {}
  PROVE  MinOf(S) \in S /\ \A y \in S : MinOf(S) <= y
<1>1. PICK x \in S : \A y \in S : ~(<<y, x>> \in OpToRel(<, Nat))
  BY NatLessThanWellFounded, WFMin
<1>2. \A y \in S : x <= y
  <2> SUFFICES ASSUME NEW y \in S, y < x PROVE FALSE
    OBVIOUS
  <2>1. <<y, x>> \in OpToRel(<, Nat)
    BY DEF OpToRel
  <2> QED BY <1>1, <2>1
<1> QED BY <1>2 DEF MinOf

(* The slots ahead of the cursor, without the modulus.                     *)
LEMMA AheadIs ==
  ASSUME TypeOK
  PROVE  /\ m_l1_cursor \in Nat /\ m_l1_cursor < Slots
         /\ \A j \in 0..Slots : Ahead(j) = IF m_l1_cursor + j < Slots THEN m_l1_cursor + j
                                          ELSE m_l1_cursor + j - Slots
<1>1. m_l1_cursor \in Nat /\ m_l1_cursor < Slots
  BY Bounds DEF TypeOK
<1>2. ASSUME NEW j \in 0..Slots
      PROVE  Ahead(j) = IF m_l1_cursor + j < Slots THEN m_l1_cursor + j
                        ELSE m_l1_cursor + j - Slots
  <2>1. PICK x \in Nat : x = m_l1_cursor + j
    BY <1>1, Bounds
  <2>2. x < 2 * Slots
    BY <1>1, <2>1, Bounds
  <2>3. x % Slots = IF x < Slots THEN x ELSE x - Slots
    BY <2>2, Wrap
  <2>4. Ahead(j) = x % Slots
    BY <2>1 DEF Ahead
  <2>5. Ahead(j) = IF x < Slots THEN x ELSE x - Slots
    BY <2>3, <2>4, Zenon
  <2> QED BY <1>1, <2>1, <2>5, Bounds
<1> QED BY <1>1, <1>2

(* They are all the slots, once each.                                      *)
LEMMA AheadFacts ==
  ASSUME TypeOK
  PROVE  /\ \A j \in SlotIndex : Ahead(j) \in SlotIndex
         /\ \A i, j \in SlotIndex : Ahead(i) = Ahead(j) => i = j
         /\ \A i \in SlotIndex : \E j \in SlotIndex : Ahead(j) = i
<1>1. PICK c \in Nat : c = m_l1_cursor /\ c < Slots
  BY AheadIs
<1>2. \A j \in SlotIndex : Ahead(j) = IF c + j < Slots THEN c + j ELSE c + j - Slots
  BY <1>1, AheadIs, Bounds
<1>3. \A j \in SlotIndex : Ahead(j) \in SlotIndex
  BY <1>1, <1>2, Bounds
<1>4. \A i, j \in SlotIndex : Ahead(i) = Ahead(j) => i = j
  BY <1>1, <1>2, Bounds
<1>5. ASSUME NEW i \in SlotIndex PROVE \E j \in SlotIndex : Ahead(j) = i
  <2>1. CASE i >= c
    <3>1. i - c \in SlotIndex /\ Ahead(i - c) = i
      BY <1>1, <1>2, <2>1, Bounds
    <3> QED BY <3>1
  <2>2. CASE i < c
    <3>1. i + Slots - c \in SlotIndex /\ Ahead(i + Slots - c) = i
      BY <1>1, <1>2, <2>2, Bounds
    <3> QED BY <3>1
  <2> QED BY <1>1, <2>1, <2>2, Bounds
<1> QED BY <1>3, <1>4, <1>5

(* Where schedule() puts an event: some ticks ahead of the cursor, not     *)
(* later than its deadline, or in the overflow map.                        *)
LEMMA ScheduleFacts ==
  ASSUME TypeOK, NEW e \in Events, NEW a \in Nat, Schedule(e, a)
  PROVE  \/ \E q \in SlotIndex :
               /\ m_l1' = [m_l1 EXCEPT ![Ahead(q)] = m_l1[Ahead(q)] \cup {e}]
               /\ m_overflow' = m_overflow
               /\ MaxOf(a, now) >= now + q * Tick
         \/ m_l1' = m_l1 /\ m_overflow' = m_overflow \cup {e} /\ a > now
<1> DEFINE delay == IF a - now <= 0 THEN Tick ELSE a - now
           q == (delay - 1) \div Tick
<1>1. now \in Nat /\ now >= 1
  BY Bounds DEF TypeOK
<1>2. delay \in Nat /\ delay >= 1 /\ delay - 1 \in Nat
  BY <1>1, Bounds
<1>3. q \in Nat /\ q * Tick <= delay - 1
  BY <1>2, Quotient
<1>4. IF delay <= L1Range
        THEN m_l1' = [m_l1 EXCEPT ![Ahead(q)] = @ \cup {e}] /\ UNCHANGED m_overflow
        ELSE m_overflow' = m_overflow \cup {e} /\ UNCHANGED m_l1
  BY DEF Schedule, Ahead
<1>5. a - now <= 0 => delay = Tick
  OBVIOUS
<1>6. a - now > 0 => delay = a - now
  BY <1>1
<1> HIDE DEF delay
<1>7. CASE delay <= L1Range
  <2>1. q < Slots
    <3> SUFFICES ASSUME Slots <= q PROVE FALSE
      BY <1>3, Bounds
    <3>1. Slots * Tick <= q * Tick
      BY <1>3, Bounds, TimesMonotone
    <3> HIDE DEF q
    <3>2. q * Tick \in Int /\ Slots * Tick \in Int
      BY <1>3, Bounds, TimesAdd
    <3> QED BY <1>2, <1>3, <1>7, <3>1, <3>2, Bounds
  <2>2. MaxOf(a, now) >= now + q * Tick
    <3>1. CASE a - now <= 0
      <4>1. delay - 1 = Tick - 1 /\ q * Tick <= Tick - 1
        BY <1>3, <1>5, <3>1
      <4> HIDE DEF q
      <4>2. q = 0
        <5> SUFFICES ASSUME 1 <= q PROVE FALSE
          BY <1>3
        <5>1. 1 * Tick <= q * Tick /\ q * Tick \in Int
          BY <1>3, TimesMonotone, TimesAdd
        <5> QED BY <4>1, <5>1, Bounds
      <4>3. q * Tick = 0
        BY <4>2, Bounds
      <4> QED BY <1>1, <4>3 DEF MaxOf
    <3>2. CASE a - now > 0
      <4> HIDE DEF q
      <4>1. q * Tick \in Int /\ q * Tick <= a - now - 1
        BY <1>3, <1>6, <3>2, TimesAdd
      <4> QED BY <1>1, <3>2, <4>1 DEF MaxOf
    <3> QED BY <1>1, <3>1, <3>2
  <2>3. q \in SlotIndex
    BY <1>3, <2>1, Bounds
  <2> HIDE DEF q
  <2> QED BY <1>4, <1>7, <2>2, <2>3
<1>8. CASE delay > L1Range
  <2>1. a > now
    <3> SUFFICES ASSUME a - now <= 0 PROVE FALSE
      BY <1>1
    <3>1. 1 * Tick <= Slots * Tick
      BY Bounds, TimesMonotone
    <3> QED BY <1>5, <1>8, <3>1, Bounds
  <2> QED BY <1>2, <1>4, <1>8, <2>1, Bounds
<1> QED BY <1>2, <1>7, <1>8, Bounds

-----------------------------------------------------------------------------
(* An insertion: the event, if it is live and was nowhere in the wheel, is *)
(* now in one place of it, and the clock's invariant goes on to hold.      *)
LEMMA InsertInv ==
  ASSUME TypeOK, Clock, NEW e \in Events, NEW a \in Nat, Insert(e, a),
         arrive' \in [Events -> Nat], arrive'[e] = a,
         \A d \in Events \ {e} : arrive'[d] = arrive[d],
         UNCHANGED <<now, cancelled, nowMs>>,
         loopPc' \in Firing => loopPc \in Firing,
         ~cancelled[e] => ~InSlots(e) /\ e \notin m_overflow
  PROVE  /\ m_l1' \in [SlotIndex -> SUBSET Events] /\ m_l1_cursor' = m_l1_cursor
         /\ m_last_tick_ms' \in 0..now' /\ m_last_tick_ms' >= m_last_tick_ms
         /\ m_overflow' \subseteq Events /\ addedAt' \in [Events -> 0..MaxTime]
         /\ Clock'
         /\ \A d \in Events \ {e} : /\ d \in m_overflow' <=> d \in m_overflow
                                    /\ \A i \in SlotIndex : d \in m_l1'[i] <=> d \in m_l1[i]
         /\ ~cancelled[e] =>
              \/ e \notin m_overflow' /\ \E q \in SlotIndex : \A i \in SlotIndex :
                                            e \in m_l1'[i] <=> i = q
              \/ e \in m_overflow' /\ \A i \in SlotIndex : e \notin m_l1'[i]
<1>1. now \in Nat /\ now >= 1 /\ now <= MaxTime /\ m_last_tick_ms \in Nat
      /\ m_last_tick_ms <= now /\ nowMs \in Nat /\ nowMs <= now
  BY Bounds DEF TypeOK
<1>2. m_last_tick_ms' \in 0..now' /\ m_last_tick_ms' >= m_last_tick_ms /\ m_last_tick_ms' # 0
      /\ m_last_tick_ms' \in Nat /\ m_last_tick_ms' <= now
      /\ (m_last_tick_ms # 0 => m_last_tick_ms' = m_last_tick_ms)
  BY <1>1 DEF Insert
<1>3. addedAt' = [addedAt EXCEPT ![e] = now] /\ addedAt' \in [Events -> 0..MaxTime]
  BY <1>1, Bounds DEF Insert, TypeOK
<1>4. /\ m_l1_cursor' = m_l1_cursor /\ Schedule(e, a)
      /\ m_l1 \in [SlotIndex -> SUBSET Events] /\ m_overflow \subseteq Events
  BY DEF Insert, TypeOK
<1>5. \A j : Ahead(j)' = Ahead(j)
  BY <1>4 DEF Ahead
<1>6. Unstarted'
  BY <1>2 DEF Unstarted
<1>7. Deadline(e)' = MaxOf(a, now) /\ \A d \in Events \ {e} : Deadline(d)' = Deadline(d)
  BY <1>3 DEF Deadline, TypeOK
<1>8. /\ \A j \in SlotIndex : Ahead(j) \in SlotIndex
      /\ \A i, j \in SlotIndex : Ahead(i) = Ahead(j) => i = j
  BY AheadFacts
<1>9. ASSUME NEW j \in SlotIndex, NEW d \in m_l1[Ahead(j)], ~cancelled[d], d # e
      PROVE  Deadline(d)' >= m_last_tick_ms' + j * Tick
  <2>1. d \in Events \ {e} /\ m_last_tick_ms # 0 /\ Deadline(d) >= m_last_tick_ms + j * Tick
    BY <1>4, <1>8, <1>9 DEF Clock, Unstarted, NotBefore
  <2> QED BY <1>2, <1>7, <2>1
<1>10. ASSUME NEW q \in SlotIndex,
              m_l1' = [m_l1 EXCEPT ![Ahead(q)] = m_l1[Ahead(q)] \cup {e}],
              m_overflow' = m_overflow, MaxOf(a, now) >= now + q * Tick
       PROVE  /\ m_l1' \in [SlotIndex -> SUBSET Events] /\ m_overflow' \subseteq Events
              /\ NotBefore' /\ FarLater'
              /\ \A d \in Events \ {e} : /\ d \in m_overflow' <=> d \in m_overflow
                                         /\ \A i \in SlotIndex : d \in m_l1'[i] <=> d \in m_l1[i]
              /\ ~cancelled[e] => e \notin m_overflow' /\ \E p \in SlotIndex : \A i \in SlotIndex :
                                            e \in m_l1'[i] <=> i = p
  <2>1. \A i \in SlotIndex : m_l1'[i] = IF i = Ahead(q) THEN m_l1[i] \cup {e} ELSE m_l1[i]
    BY <1>4, <1>8, <1>10
  <2>2. m_l1' \in [SlotIndex -> SUBSET Events] /\ m_overflow' \subseteq Events
    BY <1>4, <1>8, <1>10
  <2>3. ASSUME NEW j \in SlotIndex, NEW d \in m_l1'[Ahead(j)], ~cancelled[d]
        PROVE  Deadline(d)' >= m_last_tick_ms' + j * Tick
    <3>1. CASE d # e
      BY <1>8, <1>9, <2>1, <2>3, <3>1
    <3>2. CASE d = e
      <4>1. e \notin m_l1[Ahead(j)]
        BY <1>8, <2>3, <3>2 DEF InSlots
      <4>2. j = q
        BY <1>8, <2>1, <2>3, <3>2, <4>1
      <4>3. q * Tick \in Int /\ MaxOf(a, now) \in Int
        BY <1>1, Bounds, TimesAdd DEF MaxOf
      <4> QED BY <1>1, <1>2, <1>7, <1>10, <3>2, <4>2, <4>3
    <3> QED BY <3>1, <3>2
  <2>4. NotBefore'
    BY <1>5, <2>3 DEF NotBefore
  <2>5. ASSUME loopPc' \in Firing, NEW d \in m_overflow, ~cancelled[d]
        PROVE  arrive'[d] > nowMs
    <3>1. d # e /\ d \in Events
      BY <1>4, <2>5
    <3> QED BY <2>5, <3>1 DEF Clock, FarLater
  <2>6. FarLater'
    BY <1>10, <2>5 DEF FarLater
  <2>7. ASSUME ~cancelled[e]
        PROVE  e \notin m_overflow' /\ \A i \in SlotIndex : e \in m_l1'[i] <=> i = Ahead(q)
    <3>1. e \notin m_overflow' /\ \A i \in SlotIndex : e \notin m_l1[i]
      BY <1>10, <2>7 DEF InSlots
    <3> QED BY <2>1, <3>1
  <2>8. \A d \in Events \ {e} : /\ d \in m_overflow' <=> d \in m_overflow
                               /\ \A i \in SlotIndex : d \in m_l1'[i] <=> d \in m_l1[i]
    BY <1>10, <2>1
  <2> QED BY <1>8, <2>2, <2>4, <2>6, <2>7, <2>8
<1>11. ASSUME m_l1' = m_l1, m_overflow' = m_overflow \cup {e}, a > now
       PROVE  /\ m_l1' \in [SlotIndex -> SUBSET Events] /\ m_overflow' \subseteq Events
              /\ NotBefore' /\ FarLater'
              /\ \A d \in Events \ {e} : /\ d \in m_overflow' <=> d \in m_overflow
                                         /\ \A i \in SlotIndex : d \in m_l1'[i] <=> d \in m_l1[i]
              /\ ~cancelled[e] => e \in m_overflow' /\ \A i \in SlotIndex : e \notin m_l1'[i]
  <2>1. ASSUME NEW j \in SlotIndex, NEW d \in m_l1[Ahead(j)], ~cancelled[d]
        PROVE  Deadline(d)' >= m_last_tick_ms' + j * Tick
    <3>1. d # e
      BY <1>8, <2>1 DEF InSlots
    <3> QED BY <1>9, <2>1, <3>1
  <2>2. NotBefore'
    BY <1>5, <1>11, <2>1 DEF NotBefore
  <2>3. ASSUME loopPc' \in Firing, NEW d \in m_overflow \cup {e}, ~cancelled[d]
        PROVE  arrive'[d] > nowMs
    <3>1. CASE d = e
      BY <1>1, <1>11, <3>1
    <3>2. CASE d # e
      BY <1>4, <2>3, <3>2 DEF Clock, FarLater
    <3> QED BY <3>1, <3>2
  <2>4. FarLater'
    BY <1>11, <2>3 DEF FarLater
  <2> QED BY <1>4, <1>11, <2>2, <2>4 DEF InSlots
<1>12. \/ \E q \in SlotIndex :
             /\ m_l1' = [m_l1 EXCEPT ![Ahead(q)] = m_l1[Ahead(q)] \cup {e}]
             /\ m_overflow' = m_overflow
             /\ MaxOf(a, now) >= now + q * Tick
       \/ m_l1' = m_l1 /\ m_overflow' = m_overflow \cup {e} /\ a > now
  BY <1>4, ScheduleFacts
<1>13. CASE \E q \in SlotIndex :
             /\ m_l1' = [m_l1 EXCEPT ![Ahead(q)] = m_l1[Ahead(q)] \cup {e}]
             /\ m_overflow' = m_overflow
             /\ MaxOf(a, now) >= now + q * Tick
  BY <1>2, <1>3, <1>4, <1>6, <1>10, <1>13 DEF Clock
<1>14. CASE m_l1' = m_l1 /\ m_overflow' = m_overflow \cup {e} /\ a > now
  BY <1>2, <1>3, <1>4, <1>6, <1>11, <1>14 DEF Clock
<1> QED BY <1>12, <1>13, <1>14

(* Steps that only take events out of the wheel, or do not touch it.       *)
LEMMA ClockKept ==
  ASSUME TypeOK, Clock, UNCHANGED <<m_l1, m_l1_cursor, m_last_tick_ms>>,
         m_overflow' \subseteq m_overflow,
         loopPc' \in Firing => loopPc \in Firing /\ nowMs' = nowMs,
         \A d \in Events : ~cancelled'[d] /\ (InSlots(d) \/ d \in m_overflow) =>
             ~cancelled[d] /\ arrive'[d] = arrive[d] /\ addedAt'[d] = addedAt[d]
  PROVE  Clock'
<1>1. /\ \A j : Ahead(j)' = Ahead(j)
      /\ m_l1 \in [SlotIndex -> SUBSET Events] /\ m_overflow \subseteq Events
  BY DEF Ahead, TypeOK
<1>2. Unstarted'
  BY DEF Clock, Unstarted
<1>3. ASSUME NEW j \in SlotIndex, NEW d \in m_l1[Ahead(j)], ~cancelled'[d]
      PROVE  Deadline(d)' >= m_last_tick_ms + j * Tick
  <2>1. Ahead(j) \in SlotIndex
    BY AheadFacts
  <2>2. d \in Events /\ InSlots(d)
    BY <1>1, <2>1 DEF InSlots
  <2>3. ~cancelled[d] /\ Deadline(d)' = Deadline(d)
    BY <1>3, <2>2 DEF Deadline
  <2> QED BY <2>3 DEF Clock, NotBefore
<1>4. NotBefore'
  BY <1>1, <1>3 DEF NotBefore
<1>5. ASSUME loopPc' \in Firing, NEW d \in m_overflow', ~cancelled'[d]
      PROVE  arrive'[d] > nowMs'
  <2>1. d \in m_overflow /\ d \in Events
    BY <1>1
  <2> QED BY <1>5, <2>1 DEF Clock, FarLater
<1>6. FarLater'
  BY <1>5 DEF FarLater
<1> QED BY <1>2, <1>4, <1>6 DEF Clock

(* The timeout of the poll: a slot that is not empty or an event in the    *)
(* overflow map bounds it.                                                 *)
LEMMA MsFacts ==
  ASSUME TypeOK
  PROVE  /\ MsUntilNextExpire \in Nat \cup {Never}
         /\ \E u \in 1..Tick :
              /\ m_last_tick_ms # 0 /\ now - m_last_tick_ms < Tick => now + u = m_last_tick_ms + Tick
              /\ \A j \in SlotIndex : m_l1[Ahead(j)] # {} =>
                   MsUntilNextExpire \in Nat /\ MsUntilNextExpire <= u + j * Tick
         /\ \A e \in m_overflow :
              MsUntilNextExpire \in Nat /\ MsUntilNextExpire <= MaxOf(0, arrive[e] - now)
<1> DEFINE elapsed == IF m_last_tick_ms = 0 THEN 0 ELSE MaxOf(0, now - m_last_tick_ms)
           u == MaxOf(1, Tick - MinOf({elapsed, Tick}))
           filled == {i \in SlotIndex : m_l1[Ahead(i)] # {}}
           l1 == IF filled = {} THEN {} ELSE {u + MinOf(filled) * Tick}
           due == {arrive[e] : e \in m_overflow}
           far == IF m_overflow = {} THEN {} ELSE {MaxOf(0, MinOf(due) - now)}
<1>1. now \in Nat /\ m_last_tick_ms \in Nat /\ m_last_tick_ms <= now
  BY Bounds DEF TypeOK
<1>2. elapsed \in Nat /\ (m_last_tick_ms # 0 => elapsed = now - m_last_tick_ms)
  BY <1>1 DEF MaxOf
<1> HIDE DEF elapsed
<1>3. MinOf({elapsed, Tick}) \in {elapsed, Tick} /\ MinOf({elapsed, Tick}) <= Tick
      /\ MinOf({elapsed, Tick}) <= elapsed
  BY <1>2, Bounds, MinExists
<1>4. u \in 1..Tick /\ (elapsed < Tick => u = Tick - elapsed)
  BY <1>2, <1>3, Bounds DEF MaxOf
<1>5. m_last_tick_ms # 0 /\ now - m_last_tick_ms < Tick => now + u = m_last_tick_ms + Tick
  BY <1>1, <1>2, <1>4, Bounds
<1> HIDE DEF u
<1>6. filled \subseteq Nat
  BY Bounds
<1>7. filled # {} => MinOf(filled) \in filled /\ \A y \in filled : MinOf(filled) <= y
  BY <1>6, MinExists
<1>8. due \subseteq Nat
  BY DEF TypeOK
<1>9. m_overflow # {} => MinOf(due) \in Nat /\ \A e \in m_overflow : MinOf(due) <= arrive[e]
  <2> SUFFICES ASSUME m_overflow # {}
               PROVE  MinOf(due) \in Nat /\ \A e \in m_overflow : MinOf(due) <= arrive[e]
    OBVIOUS
  <2>1. due # {}
    OBVIOUS
  <2>2. MinOf(due) \in due /\ \A y \in due : MinOf(due) <= y
    BY <1>8, <2>1, MinExists
  <2> QED BY <1>8, <2>2
<1>10. MsUntilNextExpire = IF l1 \cup far = {} THEN Never ELSE MinOf(l1 \cup far)
  BY DEF MsUntilNextExpire, elapsed, u
<1>11. ASSUME filled # {} PROVE l1 = {u + MinOf(filled) * Tick} /\ u + MinOf(filled) * Tick \in Nat
  <2>1. MinOf(filled) \in Nat
    BY <1>6, <1>7, <1>11
  <2>2. MinOf(filled) * Tick \in Nat
    BY <2>1, Bounds
  <2> HIDE DEF filled
  <2> QED BY <1>4, <1>11, <2>2, Bounds
<1>12. ASSUME m_overflow # {} PROVE far = {MaxOf(0, MinOf(due) - now)} /\ MaxOf(0, MinOf(due) - now) \in Nat
  BY <1>1, <1>9, <1>12 DEF MaxOf
<1>13. l1 \subseteq Nat /\ far \subseteq Nat
  BY <1>11, <1>12
<1>14. l1 \cup far # {} => /\ MsUntilNextExpire \in Nat
                           /\ \A y \in l1 \cup far : MsUntilNextExpire <= y
  <2> SUFFICES ASSUME l1 \cup far # {}
               PROVE  MsUntilNextExpire \in Nat /\ \A y \in l1 \cup far : MsUntilNextExpire <= y
    OBVIOUS
  <2>1. MinOf(l1 \cup far) \in l1 \cup far /\ \A y \in l1 \cup far : MinOf(l1 \cup far) <= y
    BY <1>13, MinExists
  <2>2. MsUntilNextExpire = MinOf(l1 \cup far)
    BY <1>10
  <2> HIDE DEF l1, far
  <2> QED BY <1>13, <2>1, <2>2
<1>15. MsUntilNextExpire \in Nat \cup {Never}
  BY <1>10, <1>14
<1>16. ASSUME NEW j \in SlotIndex, m_l1[Ahead(j)] # {}
       PROVE  MsUntilNextExpire \in Nat /\ MsUntilNextExpire <= u + j * Tick
  <2>1. j \in filled
    BY <1>16
  <2>2. filled # {} /\ MinOf(filled) \in Nat /\ MinOf(filled) <= j /\ j \in Nat
    BY <1>6, <1>7, <2>1
  <2> HIDE DEF filled
  <2>3. MinOf(filled) * Tick <= j * Tick /\ MinOf(filled) * Tick \in Int /\ j * Tick \in Int
    BY <2>2, TimesMonotone, TimesAdd
  <2>4. MsUntilNextExpire \in Nat /\ MsUntilNextExpire <= u + MinOf(filled) * Tick
    BY <1>11, <1>14, <2>2
  <2> QED BY <1>4, <2>3, <2>4
<1>17. ASSUME NEW e \in m_overflow
       PROVE  MsUntilNextExpire \in Nat /\ MsUntilNextExpire <= MaxOf(0, arrive[e] - now)
  <2>1. MsUntilNextExpire \in Nat /\ MsUntilNextExpire <= MaxOf(0, MinOf(due) - now)
    BY <1>12, <1>14
  <2>2. MinOf(due) \in Nat /\ MinOf(due) <= arrive[e] /\ arrive[e] \in Nat
    BY <1>9 DEF TypeOK
  <2> HIDE DEF due
  <2> QED BY <1>1, <2>1, <2>2 DEF MaxOf
<1> QED BY <1>4, <1>5, <1>15, <1>16, <1>17

-----------------------------------------------------------------------------
(* The initial states and the actions.                                     *)

LEMMA InitInv == Init => IInv
<1> SUFFICES ASSUME Init PROVE IInv
  OBVIOUS
<1>1. 0 \in SlotIndex /\ 1 \in 1..MaxTime /\ 0 \in 0..MaxTime /\ 0 \in 0..MaxFires
  BY Bounds
<1>2. TypeOK
  BY <1>1, Bounds DEF Init, TypeOK
<1>3. Loop
  BY DEF Init, Loop, Firing
<1>4. Places
  BY DEF Init, Places, Once, Placed, InSlots, ToFire
<1>5. \A j \in SlotIndex : Ahead(j) \in SlotIndex
  BY <1>2, AheadFacts
<1>6. Clock
  BY <1>5 DEF Init, Clock, Unstarted, NotBefore, FarLater
<1> QED BY <1>2, <1>3, <1>4, <1>6 DEF IInv

LEMMA AdvanceInv == IInv /\ Advance => IInv'
<1> SUFFICES ASSUME IInv, Advance PROVE IInv'
  OBVIOUS
<1>1. UNCHANGED <<wheelVars, eventVars, loopVars>> /\ now' = now + 1 /\ now < MaxTime
  BY DEF Advance
<1>2. TypeOK'
  BY <1>1, Bounds DEF IInv, TypeOK, wheelVars, eventVars, loopVars
<1>3. Loop'
  BY <1>1 DEF IInv, Loop, wheelVars, loopVars
<1>4. Places'
  BY <1>1 DEF IInv, Places, Once, Placed, InSlots, ToFire, wheelVars, eventVars, loopVars
<1>5. Clock'
  BY <1>1, ClockKept DEF IInv, wheelVars, eventVars, loopVars
<1> QED BY <1>2, <1>3, <1>4, <1>5 DEF IInv

LEMMA CreateInv ==
  ASSUME IInv, NEW e \in Events, NEW iv \in Nat, Create(e, iv)
  PROVE  IInv'
<1>1. /\ UNCHANGED <<now, m_l1, m_l1_cursor, m_last_tick_ms, m_overflow, cancelled, addedAt,
                     fires, loopPc, wakeAt, nowMs, expired, firing>>
      /\ stage[e] = "none" /\ stage' = [stage EXCEPT ![e] = "new"]
      /\ interval' = [interval EXCEPT ![e] = iv] /\ arrive' = [arrive EXCEPT ![e] = now + iv]
  BY DEF Create, wheelVars, loopVars
<1>2. now + iv \in Nat
  BY Bounds DEF IInv, TypeOK
<1>3. TypeOK'
  BY <1>1, <1>2 DEF IInv, TypeOK
<1>4. Loop'
  BY <1>1 DEF IInv, Loop
<1>5. stage \in [Events -> {"none", "new", "added"}] /\ arrive \in [Events -> Nat]
  BY DEF IInv, TypeOK
<1>6. \A d \in Events : ToFire(d)' <=> ToFire(d)
  BY <1>1, <1>5 DEF ToFire
<1>7. \A d \in Events : (stage'[d] # "added" <=> stage[d] # "added")
  BY <1>1, <1>5
<1>8. \A d \in Events : (Once(d)' <=> Once(d)) /\ (Placed(d)' <=> Placed(d))
  BY <1>1 DEF Once, Placed, InSlots
<1>9. Places'
  BY <1>1, <1>6, <1>7, <1>8 DEF IInv, Places
<1>10. ~cancelled[e] => ~InSlots(e) /\ e \notin m_overflow
  BY <1>1 DEF IInv, Places, Placed, ToFire
<1>11. \A d \in Events \ {e} : arrive'[d] = arrive[d]
  BY <1>1, <1>5
<1>12. Clock'
  BY <1>1, <1>10, <1>11, ClockKept DEF IInv
<1> QED BY <1>3, <1>4, <1>9, <1>12 DEF IInv

(* addEvent: a live event that was created is not in the wheel yet.        *)
LEMMA AddEventInv ==
  ASSUME IInv, NEW e \in Events, AddEvent(e)
  PROVE  IInv'
<1>1. /\ UNCHANGED <<now, arrive, interval, cancelled, fires, loopPc, wakeAt, nowMs, expired, firing>>
      /\ stage[e] = "new" /\ stage' = [stage EXCEPT ![e] = "added"]
  BY DEF AddEvent, loopVars
<1>2. /\ stage \in [Events -> {"none", "new", "added"}] /\ arrive \in [Events -> Nat]
      /\ arrive[e] \in Nat /\ stage'[e] = "added" /\ TypeOK /\ Clock /\ Loop
      /\ \A d \in Events \ {e} : stage'[d] = stage[d]
  BY <1>1 DEF IInv, TypeOK
<1>3. /\ stage' \in [Events -> {"none", "new", "added"}]
      /\ m_last_tick_ms \in Nat /\ nowMs \in Nat
  BY <1>1, Bounds DEF IInv, TypeOK
<1>4. ~cancelled[e] => /\ ~InSlots(e) /\ e \notin m_overflow /\ e \notin expired \cup firing
                       /\ fires[e] = 0
  BY <1>1 DEF IInv, Places, Placed, ToFire
<1>5. CASE Insert(e, arrive[e])
  <2>1. /\ m_l1' \in [SlotIndex -> SUBSET Events] /\ m_l1_cursor' = m_l1_cursor
        /\ m_last_tick_ms' \in 0..now' /\ m_last_tick_ms' >= m_last_tick_ms
        /\ m_overflow' \subseteq Events /\ addedAt' \in [Events -> 0..MaxTime]
        /\ Clock'
        /\ \A d \in Events \ {e} : /\ d \in m_overflow' <=> d \in m_overflow
                                   /\ \A i \in SlotIndex : d \in m_l1'[i] <=> d \in m_l1[i]
        /\ ~cancelled[e] =>
             \/ e \notin m_overflow' /\ \E q \in SlotIndex : \A i \in SlotIndex :
                                           e \in m_l1'[i] <=> i = q
             \/ e \in m_overflow' /\ \A i \in SlotIndex : e \notin m_l1'[i]
    BY <1>1, <1>2, <1>4, <1>5, InsertInv
  <2>2. TypeOK'
    BY <1>1, <1>3, <2>1 DEF IInv, TypeOK
  <2>3. m_last_tick_ms' \in Nat
    BY <2>2, Bounds DEF TypeOK
  <2>4. Loop'
    <3>1. loopPc \in Firing => nowMs < m_last_tick_ms' + Tick
      <4>1. loopPc \in Firing => nowMs < m_last_tick_ms + Tick
        BY <1>2 DEF Loop
      <4>2. PICK k \in Nat, l \in Nat : k = m_last_tick_ms /\ l = m_last_tick_ms'
        BY <1>3, <2>3
      <4>3. l >= k
        BY <2>1, <4>2
      <4>4. PICK n \in Nat : n = nowMs
        BY <1>3
      <4>5. loopPc \in Firing => n < k + Tick
        BY <4>1, <4>2, <4>4
      <4>6. n < k + Tick => n < l + Tick
        BY <4>3, Bounds
      <4> QED BY <4>2, <4>4, <4>5, <4>6
    <3> QED BY <1>1, <1>2, <3>1 DEF Loop
  <2>5. ASSUME ~cancelled[e]
        PROVE  Once(e)' /\ Placed(e)' /\ ToFire(e)'
    <3>1. /\ e \notin expired' \cup firing' /\ fires'[e] = 0 /\ stage'[e] = "added"
      BY <1>1, <1>2, <1>4, <2>5
    <3>2. Once(e)' /\ Placed(e)'
      BY <2>1, <2>5, <3>1 DEF Once, Placed, InSlots
    <3> QED BY <3>1, <3>2 DEF ToFire
  <2>6. ASSUME NEW d \in Events \ {e}
        PROVE  (Once(d)' <=> Once(d)) /\ (Placed(d)' <=> Placed(d)) /\ (ToFire(d)' <=> ToFire(d))
    BY <1>1, <1>2, <2>1 DEF Once, Placed, InSlots, ToFire
  <2>7. Places'
    BY <1>1, <1>2, <2>5, <2>6 DEF IInv, Places
  <2> QED BY <2>1, <2>2, <2>4, <2>7 DEF IInv
<1>6. CASE cancelled[e] /\ UNCHANGED <<wheelVars, addedAt>>
  <2>1. UNCHANGED <<m_l1, m_l1_cursor, m_last_tick_ms, m_overflow, addedAt>>
    BY <1>6 DEF wheelVars
  <2>2. TypeOK'
    BY <1>1, <1>3, <2>1 DEF IInv, TypeOK
  <2>3. Loop'
    BY <1>1, <1>2, <2>1 DEF Loop
  <2>4. \A d \in Events \ {e} : (Once(d)' <=> Once(d)) /\ (Placed(d)' <=> Placed(d))
                                /\ (ToFire(d)' <=> ToFire(d))
    BY <1>1, <1>2, <2>1 DEF Once, Placed, InSlots, ToFire
  <2>5. Places'
    BY <1>1, <1>2, <1>6, <2>4 DEF IInv, Places
  <2>6. Clock'
    BY <1>1, <1>2, <2>1, ClockKept
  <2> QED BY <2>2, <2>3, <2>5, <2>6 DEF IInv
<1> QED BY <1>5, <1>6 DEF AddEvent

LEMMA CancelEventInv ==
  ASSUME IInv, NEW e \in Events, CancelEvent(e)
  PROVE  IInv'
<1>1. /\ UNCHANGED <<now, m_l1, m_l1_cursor, m_last_tick_ms, stage, arrive, interval, fires,
                     loopPc, wakeAt, nowMs, expired, firing>>
      /\ cancelled' = [cancelled EXCEPT ![e] = TRUE] /\ m_overflow' = m_overflow \ {e}
      /\ addedAt' = [addedAt EXCEPT ![e] = 0]
  BY DEF CancelEvent, loopVars
<1>2. /\ cancelled \in [Events -> BOOLEAN] /\ addedAt \in [Events -> 0..MaxTime]
      /\ m_overflow \subseteq Events /\ 0 \in 0..MaxTime /\ TypeOK /\ Clock
  BY Bounds DEF IInv, TypeOK
<1>3. /\ cancelled' \in [Events -> BOOLEAN] /\ addedAt' \in [Events -> 0..MaxTime]
      /\ m_overflow' \subseteq Events
  BY <1>1, <1>2
<1>4. TypeOK'
  BY <1>1, <1>3 DEF IInv, TypeOK
<1>5. Loop'
  BY <1>1 DEF IInv, Loop
<1>6. cancelled'[e] /\ \A d \in Events \ {e} : cancelled'[d] = cancelled[d] /\ addedAt'[d] = addedAt[d]
                                               /\ (d \in m_overflow' <=> d \in m_overflow)
  BY <1>1, <1>2
<1>7. \A d \in Events \ {e} : (Once(d)' <=> Once(d)) /\ (Placed(d)' <=> Placed(d))
                              /\ (ToFire(d)' <=> ToFire(d))
  BY <1>1, <1>6 DEF Once, Placed, InSlots, ToFire
<1>8. Places'
  BY <1>1, <1>6, <1>7 DEF IInv, Places
<1>9. Clock'
  BY <1>1, <1>2, <1>6, ClockKept
<1> QED BY <1>4, <1>5, <1>8, <1>9 DEF IInv

(* The loop's steps around the poll.                                       *)
LEMMA PollInv == IInv /\ (EnterPoll \/ CallFireExpired) => IInv'
<1> SUFFICES ASSUME IInv, EnterPoll \/ CallFireExpired PROVE IInv'
  OBVIOUS
<1>1. /\ UNCHANGED <<now, m_l1, m_l1_cursor, m_last_tick_ms, m_overflow, stage, arrive, interval,
                     cancelled, addedAt, fires, expired, firing>>
      /\ loopPc \in {"tasks", "poll"} /\ loopPc' \in {"poll", "called"}
  BY DEF EnterPoll, CallFireExpired, wheelVars, eventVars
<1>2. wakeAt' \in Nat \cup {Never} /\ nowMs' \in 0..now
  <2>1. CASE EnterPoll
    <3>1. MsUntilNextExpire \in Nat \cup {Never} /\ now \in Nat /\ nowMs \in 0..now
      BY MsFacts, Bounds DEF IInv, TypeOK
    <3> QED BY <2>1, <3>1 DEF EnterPoll, MaxOf
  <2>2. CASE CallFireExpired
    BY <2>2, Bounds DEF CallFireExpired, IInv, TypeOK
  <2> QED BY <2>1, <2>2
<1>3. TypeOK'
  BY <1>1, <1>2 DEF IInv, TypeOK
<1>4. Loop'
  BY <1>1 DEF IInv, Loop, Firing
<1>5. Places'
  BY <1>1 DEF IInv, Places, Once, Placed, InSlots, ToFire
<1>6. Clock'
  BY <1>1, ClockKept DEF IInv, Firing
<1> QED BY <1>3, <1>4, <1>5, <1>6 DEF IInv

(* fireExpired's part under the lock.  What the cursor passes is emptied,  *)
(* and the rest is as many ticks nearer.                                   *)
LEMMA TickFacts ==
  ASSUME TypeOK
  PROVE  /\ TicksPassed \in 0..Slots /\ Elapsed \in Nat
         /\ nowMs < LastTick + Tick /\ LastTick \in 0..now
         /\ LastTick # 0 \/ m_last_tick_ms = 0 \/ Gap
         /\ ~Gap => LastTick = m_last_tick_ms + TicksPassed * Tick
         /\ Gap => TicksPassed = Slots
<1>1. /\ now \in Nat /\ m_last_tick_ms \in Nat /\ m_last_tick_ms <= now
      /\ nowMs \in Nat /\ nowMs <= now
  BY Bounds DEF TypeOK
<1>2. PICK el \in Nat : el = Elapsed
  BY <1>1 DEF Elapsed, MaxOf
<1>3. nowMs <= m_last_tick_ms + el /\ (el = 0 \/ m_last_tick_ms + el = nowMs)
  BY <1>1, <1>2 DEF Elapsed, MaxOf
<1>4. PICK t \in Nat : t = el \div Tick
  BY <1>2, Quotient
<1>5. PICK w \in Int : w = t * Tick
  BY <1>4, TimesAdd, SMTT(30)
<1>6. w <= el /\ el < w + Tick
  BY <1>4, <1>5, Quotient
<1>7. 0 <= w
  BY <1>4, <1>5, Bounds
<1>8. Gap <=> t > Slots
  BY <1>2, <1>4 DEF Gap
<1>9. CASE Gap
  BY <1>1, <1>2, <1>9, Bounds DEF TicksPassed, LastTick
<1>10. CASE ~Gap
  <2>1. TicksPassed = t /\ t <= Slots
    BY <1>2, <1>4, <1>8, <1>10, Bounds DEF TicksPassed
  <2>2. LastTick = m_last_tick_ms + w
    BY <1>5, <1>10, <2>1 DEF LastTick
  <2>3. m_last_tick_ms + w <= now
    <3>1. CASE el = 0
      BY <1>1, <1>6, <1>7, <3>1
    <3>2. CASE m_last_tick_ms + el = nowMs
      BY <1>1, <1>6, <3>2
    <3> QED BY <1>3, <3>1, <3>2
  <2>4. nowMs < m_last_tick_ms + w + Tick
    BY <1>1, <1>3, <1>6, Bounds
  <2>5. TicksPassed \in 0..Slots /\ Elapsed \in Nat
    BY <1>2, <2>1, Bounds
  <2>6. LastTick \in 0..now /\ (LastTick # 0 \/ m_last_tick_ms = 0)
    BY <1>1, <1>7, <2>2, <2>3
  <2> QED BY <1>5, <1>10, <2>1, <2>2, <2>4, <2>5, <2>6
<1> QED BY <1>9, <1>10

LEMMA CollectFacts ==
  ASSUME TypeOK, TickL1
  PROVE  /\ m_l1_cursor' \in SlotIndex /\ m_l1' \in [SlotIndex -> SUBSET Events]
         /\ Passed \subseteq SlotIndex
         /\ \A i \in SlotIndex : m_l1'[i] = IF i \in Passed THEN {} ELSE m_l1[i]
         /\ Gap => Passed = SlotIndex
         /\ \A j \in SlotIndex : m_l1'[Ahead(j)'] # {} =>
              /\ ~Gap /\ TicksPassed + j \in SlotIndex
              /\ m_l1'[Ahead(j)'] = m_l1[Ahead(TicksPassed + j)]
<1>1. PICK c \in Nat : c = m_l1_cursor /\ c < Slots
  BY AheadIs
<1>2. \A j \in 0..Slots : Ahead(j) = IF c + j < Slots THEN c + j ELSE c + j - Slots
  BY <1>1, AheadIs
<1>3. PICK t \in Nat : t = TicksPassed /\ t <= Slots
  BY TickFacts, Bounds
<1>4. m_l1_cursor' = Ahead(t)
  BY <1>3 DEF TickL1
<1>5. m_l1_cursor' = IF c + t < Slots THEN c + t ELSE c + t - Slots
  BY <1>2, <1>3, <1>4, Bounds
<1>6. m_l1_cursor' \in SlotIndex /\ m_l1_cursor' \in Nat /\ m_l1_cursor' < Slots
  BY <1>1, <1>3, <1>5, Bounds
<1>7. Passed = {Ahead(i) : i \in 0..(t - 1)}
  BY <1>3 DEF Passed
<1>8. /\ \A j \in SlotIndex : Ahead(j) \in SlotIndex
      /\ \A i \in SlotIndex : \E j \in SlotIndex : Ahead(j) = i
  BY AheadFacts
<1>9. \A i \in 0..(t - 1) : i \in SlotIndex
  BY <1>3, Bounds
<1>10. Passed \subseteq SlotIndex
  BY <1>7, <1>8, <1>9
<1>11. \A i \in SlotIndex : m_l1'[i] = IF i \in Passed THEN {} ELSE m_l1[i]
  BY DEF TickL1
<1>12. m_l1' \in [SlotIndex -> SUBSET Events]
  <2>1. \A i \in SlotIndex : (IF i \in Passed THEN {} ELSE m_l1[i]) \in SUBSET Events
    BY DEF TypeOK
  <2> QED BY <2>1 DEF TickL1
<1>13. Gap => Passed = SlotIndex
  <2> SUFFICES ASSUME Gap, NEW i \in SlotIndex PROVE i \in Passed
    BY <1>10
  <2>1. t = Slots
    BY <1>3, TickFacts
  <2>2. PICK j \in SlotIndex : Ahead(j) = i
    BY <1>8
  <2>3. j \in 0..(t - 1)
    BY <2>1, Bounds
  <2> QED BY <1>7, <2>2, <2>3
<1>14. ASSUME NEW j \in SlotIndex, m_l1'[Ahead(j)'] # {}
       PROVE  ~Gap /\ t + j \in SlotIndex /\ m_l1'[Ahead(j)'] = m_l1[Ahead(t + j)]
  <2>0. PICK p \in Nat : p = m_l1_cursor' /\ p < Slots
    BY <1>6
  <2>1. PICK x \in Nat : x = p + j
    BY Bounds
  <2>2. x < 2 * Slots
    BY <2>0, <2>1, Bounds
  <2>3. x % Slots = IF x < Slots THEN x ELSE x - Slots
    BY <2>2, Wrap
  <2>4. Ahead(j)' = x % Slots
    BY <2>0, <2>1 DEF Ahead
  <2>5. Ahead(j)' = IF x < Slots THEN x ELSE x - Slots
    BY <2>3, <2>4, Zenon
  <2>6. PICK y \in Int : y = Ahead(j)'
    BY <2>1, <2>5, Bounds
  <2>7. y \in SlotIndex
    BY <2>1, <2>2, <2>5, <2>6, Bounds
  <2>8. y \notin Passed /\ m_l1'[y] = m_l1[y]
    BY <1>11, <1>14, <2>6, <2>7
  <2>9. ~Gap
    BY <1>13, <2>7, <2>8
  <2>10. t + j < Slots
    <3> SUFFICES ASSUME t + j >= Slots PROVE FALSE
      BY <1>3, Bounds
    <3>1. t + j - Slots \in 0..(t - 1) /\ t + j - Slots \in 0..Slots
      BY <1>3, Bounds
    <3>2. Ahead(t + j - Slots) = y
      <4>1. Ahead(t + j - Slots) = IF c + (t + j - Slots) < Slots THEN c + (t + j - Slots)
                                   ELSE c + (t + j - Slots) - Slots
        BY <1>2, <3>1
      <4>2. p = IF c + t < Slots THEN c + t ELSE c + t - Slots
        BY <1>5, <2>0
      <4>3. y = IF x < Slots THEN x ELSE x - Slots
        BY <2>5, <2>6
      <4> QED BY <1>1, <1>3, <2>1, <4>1, <4>2, <4>3, Bounds
    <3> QED BY <1>7, <2>8, <3>1, <3>2
  <2>11. t + j \in SlotIndex /\ t + j \in 0..Slots
    BY <1>3, <2>10, Bounds
  <2>12. Ahead(t + j) = y
    <3>1. Ahead(t + j) = IF c + (t + j) < Slots THEN c + (t + j) ELSE c + (t + j) - Slots
      BY <1>2, <2>11
    <3>2. p = IF c + t < Slots THEN c + t ELSE c + t - Slots
      BY <1>5, <2>0
    <3>3. y = IF x < Slots THEN x ELSE x - Slots
      BY <2>5, <2>6
    <3> QED BY <1>1, <1>3, <2>1, <2>10, <3>1, <3>2, <3>3, Bounds
  <2> QED BY <2>6, <2>8, <2>9, <2>11, <2>12
<1> QED BY <1>3, <1>6, <1>10, <1>11, <1>12, <1>13, <1>14

LEMMA CollectInv == IInv /\ CollectExpired => IInv'
<1> SUFFICES ASSUME IInv, CollectExpired PROVE IInv'
  OBVIOUS
<1>1. /\ UNCHANGED <<now, stage, arrive, interval, cancelled, addedAt, fires, wakeAt, nowMs, firing>>
      /\ loopPc = "called" /\ loopPc' = "fire" /\ loopPc' \in Firing /\ loopPc \notin Firing
  BY DEF CollectExpired, eventVars, Firing
<1>2. TypeOK /\ Loop /\ Places /\ Clock /\ expired = {} /\ firing = {}
  BY <1>1 DEF IInv, Loop
<1>3. now \in Nat /\ nowMs \in Nat /\ nowMs <= now /\ m_last_tick_ms \in Nat
  BY <1>2, Bounds DEF TypeOK
<1>4. CASE m_last_tick_ms = 0
  <2>1. m_last_tick_ms' = nowMs /\ UNCHANGED <<m_l1, m_l1_cursor, m_overflow, expired>>
    BY <1>4 DEF CollectExpired
  <2>2. TypeOK'
    BY <1>1, <1>2, <1>3, <2>1 DEF TypeOK
  <2>3. Loop'
    BY <1>1, <1>2, <1>3, <2>1, Bounds DEF Loop
  <2>4. Places'
    BY <1>1, <1>2, <2>1 DEF Places, Once, Placed, InSlots, ToFire
  <2>5. m_overflow' = {} /\ \A i \in SlotIndex : m_l1'[i] = {}
    BY <1>2, <1>4, <2>1 DEF Clock, Unstarted
  <2>6. \A j \in SlotIndex : Ahead(j)' \in SlotIndex
    BY <1>2, <2>1, AheadFacts DEF Ahead
  <2>7. Clock'
    BY <2>5, <2>6 DEF Clock, Unstarted, NotBefore, FarLater
  <2> QED BY <2>2, <2>3, <2>4, <2>7 DEF IInv
<1>5. CASE m_last_tick_ms # 0
  <2> DEFINE far == {e \in m_overflow : arrive[e] <= nowMs}
             passed == UNION {m_l1[i] : i \in Passed}
  <2>1. /\ m_last_tick_ms' = LastTick /\ TickL1
        /\ expired' = {e \in far \cup passed : ~cancelled[e]}
        /\ m_overflow' = m_overflow \ far
    BY <1>5 DEF CollectExpired, Live
  <2>2. /\ m_l1_cursor' \in SlotIndex /\ m_l1' \in [SlotIndex -> SUBSET Events]
        /\ Passed \subseteq SlotIndex
        /\ \A i \in SlotIndex : m_l1'[i] = IF i \in Passed THEN {} ELSE m_l1[i]
        /\ Gap => Passed = SlotIndex
        /\ \A j \in SlotIndex : m_l1'[Ahead(j)'] # {} =>
             /\ ~Gap /\ TicksPassed + j \in SlotIndex
             /\ m_l1'[Ahead(j)'] = m_l1[Ahead(TicksPassed + j)]
    BY <1>2, <2>1, CollectFacts
  <2>3. /\ TicksPassed \in 0..Slots /\ nowMs < LastTick + Tick /\ LastTick \in 0..now
        /\ LastTick # 0 \/ Gap
        /\ ~Gap => LastTick = m_last_tick_ms + TicksPassed * Tick
    BY <1>2, <1>5, TickFacts
  <2>4. /\ m_l1 \in [SlotIndex -> SUBSET Events] /\ m_overflow \subseteq Events
    BY <1>2 DEF TypeOK
  <2>5. expired' \subseteq Events /\ m_overflow' \subseteq Events
    BY <2>1, <2>2, <2>4
  <2>6. TypeOK'
    BY <1>1, <1>2, <2>1, <2>2, <2>3, <2>5 DEF TypeOK
  <2>7. Loop'
    BY <1>1, <1>2, <2>1, <2>3 DEF Loop
  <2>8. ASSUME NEW e \in Events, ~cancelled[e]
        PROVE  Once(e)' /\ (Placed(e)' <=> Placed(e))
    <3>1. /\ \A i, j \in SlotIndex : e \in m_l1[i] /\ e \in m_l1[j] => i = j
          /\ InSlots(e) => e \notin m_overflow
      BY <1>2, <2>8 DEF Places, Once
    <3>2. e \in passed <=> \E i \in Passed : e \in m_l1[i]
      OBVIOUS
    <3>3. e \in expired' <=> (e \in m_overflow /\ arrive[e] <= nowMs) \/ \E i \in Passed : e \in m_l1[i]
      BY <2>1, <2>8, <3>2
    <3>4. e \in m_overflow' <=> e \in m_overflow /\ ~(arrive[e] <= nowMs)
      BY <2>1
    <3>5. \A i \in SlotIndex : e \in m_l1'[i] <=> i \notin Passed /\ e \in m_l1[i]
      BY <2>2
    <3>6. firing' = {} /\ Passed \subseteq SlotIndex
      BY <1>1, <1>2, <2>2
    <3> HIDE DEF far, passed
    <3>7. InSlots(e) <=> \E i \in SlotIndex : e \in m_l1[i]
      BY DEF InSlots
    <3>8. InSlots(e)' <=> \E i \in SlotIndex : e \in m_l1[i] /\ i \notin Passed
      BY <3>5 DEF InSlots
    <3>9. Once(e)'
      <4>1. \A i, j \in SlotIndex : e \in m_l1'[i] /\ e \in m_l1'[j] => i = j
        BY <3>1, <3>5
      <4>2. InSlots(e)' => e \notin m_overflow' /\ e \notin expired' \cup firing'
        BY <3>1, <3>3, <3>4, <3>6, <3>7, <3>8
      <4>3. e \in m_overflow' => e \notin expired' \cup firing'
        BY <3>1, <3>3, <3>4, <3>6, <3>7
      <4> QED BY <4>1, <4>2, <4>3 DEF Once
    <3>10. Placed(e)' <=> Placed(e)
      BY <1>2, <3>3, <3>4, <3>6, <3>7, <3>8 DEF Placed
    <3> QED BY <3>9, <3>10
  <2>9. Places'
    BY <1>1, <1>2, <2>8 DEF Places, ToFire
  <2>10. Unstarted'
    <3>1. ASSUME LastTick = 0 PROVE FALSE
      <4>1. Gap
        BY <2>3, <3>1
      <4>2. LastTick = nowMs
        BY <4>1 DEF LastTick
      <4>3. Elapsed = 0
        BY <1>3, <3>1, <4>2 DEF Elapsed, MaxOf
      <4>4. (0 \div Tick) \in Nat /\ (0 \div Tick) * Tick <= 0
        BY Quotient
      <4>5. 0 \div Tick > Slots
        BY <4>1, <4>3 DEF Gap
      <4>6. PICK z \in Nat : z = 0 \div Tick
        BY <4>4
      <4>7. z >= 1 /\ z * Tick <= 0
        BY <4>4, <4>5, <4>6, Bounds
      <4>8. 1 * Tick <= z * Tick /\ z * Tick \in Int
        BY <4>6, <4>7, TimesMonotone, TimesAdd
      <4> QED BY <4>7, <4>8, Bounds
    <3> QED BY <2>1, <3>1 DEF Unstarted
  <2>11. ASSUME NEW j \in SlotIndex, NEW e \in m_l1'[Ahead(j)'], ~cancelled[e]
         PROVE  Deadline(e) >= LastTick + j * Tick
    <3>1. ~Gap /\ TicksPassed + j \in SlotIndex /\ e \in m_l1[Ahead(TicksPassed + j)]
      BY <2>2
    <3>2. Deadline(e) >= m_last_tick_ms + (TicksPassed + j) * Tick
      BY <1>2, <2>11, <3>1 DEF Clock, NotBefore
    <3>3. PICK t \in Int : t = TicksPassed
      BY <2>3
    <3>4. (t + j) * Tick = t * Tick + j * Tick /\ t * Tick \in Int /\ j * Tick \in Int
      BY TimesAdd, Bounds
    <3>5. LastTick = m_last_tick_ms + t * Tick
      BY <2>3, <3>1, <3>3
    <3>6. m_last_tick_ms + (t + j) * Tick = LastTick + j * Tick
      BY <1>3, <3>4, <3>5
    <3> QED BY <3>2, <3>3, <3>6
  <2>12. NotBefore'
    <3>1. \A e : Deadline(e)' = Deadline(e)
      BY <1>1 DEF Deadline
    <3> QED BY <1>1, <2>1, <2>11, <3>1 DEF NotBefore
  <2>13. FarLater'
    <3> SUFFICES ASSUME NEW e \in m_overflow' PROVE arrive'[e] > nowMs'
      BY DEF FarLater
    <3>1. e \in m_overflow /\ ~(arrive[e] <= nowMs)
      BY <2>1
    <3>2. arrive[e] \in Nat
      BY <1>2, <2>4, <3>1 DEF TypeOK
    <3> QED BY <1>1, <1>3, <3>1, <3>2
  <2> QED BY <2>6, <2>7, <2>9, <2>10, <2>12, <2>13 DEF IInv, Clock
<1> QED BY <1>4, <1>5

(* A callback: a one-shot event is nowhere any more, a repeated one is the *)
(* firing one.                                                             *)
LEMMA FireInv ==
  ASSUME IInv, NEW e \in Events, Fire(e)
  PROVE  IInv'
<1>1. /\ UNCHANGED <<now, m_l1, m_l1_cursor, m_last_tick_ms, m_overflow, stage, arrive, interval,
                     cancelled, addedAt, wakeAt, nowMs>>
      /\ loopPc = "fire" /\ loopPc \in Firing /\ loopPc' \in Firing /\ e \in expired
      /\ expired' = expired \ {e}
  BY DEF Fire, wheelVars, Firing
<1>2. TypeOK /\ Loop /\ Places /\ Clock /\ firing = {} /\ expired \subseteq Events
  BY <1>1 DEF IInv, Loop, TypeOK
<1>3. \/ /\ cancelled[e] /\ fires' = fires /\ loopPc' = "fire" /\ firing' = {}
      \/ /\ ~cancelled[e] /\ fires[e] < MaxFires /\ fires' = [fires EXCEPT ![e] = @ + 1]
         /\ loopPc' = IF e \in Repeated THEN "rearm" ELSE "fire"
         /\ firing' = IF e \in Repeated THEN {e} ELSE {}
  BY DEF Fire
<1>4. fires \in [Events -> 0..MaxFires]
  BY <1>2 DEF TypeOK
<1>5. fires' \in [Events -> 0..MaxFires]
  BY <1>3, <1>4, Bounds
<1>6. expired' \subseteq Events /\ firing' \subseteq Events /\ loopPc' \in {"fire", "rearm"}
  BY <1>1, <1>2, <1>3
<1>7. TypeOK'
  BY <1>1, <1>2, <1>5, <1>6 DEF TypeOK
<1>8. Loop'
  BY <1>1, <1>2, <1>3 DEF Loop
<1>9. ASSUME NEW d \in Events, d # e
      PROVE  (Once(d)' <=> Once(d)) /\ (Placed(d)' <=> Placed(d)) /\ (ToFire(d)' <=> ToFire(d))
             /\ fires'[d] = fires[d]
  <2>1. fires'[d] = fires[d]
    BY <1>3, <1>4, <1>9
  <2>2. d \in expired' \cup firing' <=> d \in expired \cup firing
    BY <1>1, <1>2, <1>3, <1>9
  <2> QED BY <1>1, <2>1, <2>2 DEF Once, Placed, InSlots, ToFire
<1>10. ASSUME ~cancelled[e]
       PROVE  Once(e)' /\ (Placed(e)' <=> ToFire(e)') /\ stage'[e] = "added"
  <2>1. Once(e) /\ Placed(e) /\ ToFire(e) /\ ~InSlots(e) /\ e \notin m_overflow
    BY <1>1, <1>2, <1>10 DEF Places, Placed, Once
  <2>2. ~InSlots(e)' /\ e \notin m_overflow' /\ stage'[e] = "added"
    BY <1>1, <2>1 DEF InSlots, ToFire
  <2>3. Once(e)'
    BY <2>2 DEF Once, InSlots
  <2>4. fires'[e] # 0
    BY <1>3, <1>4, <1>10, Bounds
  <2>5. e \in expired' \cup firing' <=> e \in Repeated
    BY <1>1, <1>3, <1>10
  <2> QED BY <2>2, <2>3, <2>4, <2>5 DEF Placed, ToFire
<1>11. Places'
  BY <1>1, <1>2, <1>9, <1>10 DEF Places
<1>12. Clock'
  BY <1>1, <1>2, ClockKept
<1> QED BY <1>7, <1>8, <1>11, <1>12 DEF IInv

(* A repeated event goes back into the wheel.                              *)
LEMMA RearmInv == IInv /\ Rearm => IInv'
<1> SUFFICES ASSUME IInv, Rearm PROVE IInv'
  OBVIOUS
<1>1. /\ UNCHANGED <<now, stage, interval, cancelled, fires, wakeAt, nowMs, expired>>
      /\ loopPc = "rearm" /\ loopPc \in Firing /\ loopPc' = "fire" /\ firing' = {}
  BY DEF Rearm, Firing
<1>2. TypeOK /\ Loop /\ Places /\ Clock
  BY DEF IInv
<1>3. PICK e \in Repeated : firing = {e} /\ e \notin expired
  BY <1>1, <1>2 DEF Loop
<1>4. e \in Events /\ arrive \in [Events -> Nat] /\ interval \in [Events -> Nat]
      /\ m_last_tick_ms \in Nat /\ nowMs \in Nat /\ now \in Nat
  BY <1>2, EventsAssumption, Bounds DEF TypeOK
<1>5. PICK a \in Nat : a = now + interval[e]
  BY <1>4
<1>6. ~cancelled[e] => ~InSlots(e) /\ e \notin m_overflow /\ e \in firing /\ ToFire(e)
  BY <1>2, <1>3, <1>4 DEF Places, Placed, Once
<1>7. \/ ~cancelled[e] /\ arrive' = [arrive EXCEPT ![e] = a] /\ Insert(e, a)
      \/ cancelled[e] /\ UNCHANGED <<arrive, addedAt, wheelVars>>
  BY <1>3, <1>5 DEF Rearm
<1>8. \A d \in Events \ {e} : (d \in expired' \cup firing' <=> d \in expired \cup firing)
  BY <1>1, <1>3
<1>9. CASE ~cancelled[e] /\ arrive' = [arrive EXCEPT ![e] = a] /\ Insert(e, a)
  <2>1. arrive' \in [Events -> Nat] /\ arrive'[e] = a /\ \A d \in Events \ {e} : arrive'[d] = arrive[d]
    BY <1>4, <1>9
  <2>2. /\ m_l1' \in [SlotIndex -> SUBSET Events] /\ m_l1_cursor' = m_l1_cursor
        /\ m_last_tick_ms' \in 0..now' /\ m_last_tick_ms' >= m_last_tick_ms
        /\ m_overflow' \subseteq Events /\ addedAt' \in [Events -> 0..MaxTime]
        /\ Clock'
        /\ \A d \in Events \ {e} : /\ d \in m_overflow' <=> d \in m_overflow
                                   /\ \A i \in SlotIndex : d \in m_l1'[i] <=> d \in m_l1[i]
        /\ ~cancelled[e] =>
             \/ e \notin m_overflow' /\ \E q \in SlotIndex : \A i \in SlotIndex :
                                           e \in m_l1'[i] <=> i = q
             \/ e \in m_overflow' /\ \A i \in SlotIndex : e \notin m_l1'[i]
    BY <1>1, <1>2, <1>4, <1>6, <1>9, <2>1, InsertInv
  <2>3. TypeOK'
    BY <1>1, <1>2, <2>1, <2>2 DEF TypeOK
  <2>4. Loop'
    <3>1. PICK k \in Nat, l \in Nat, n \in Nat :
            k = m_last_tick_ms /\ l = m_last_tick_ms' /\ n = nowMs
      BY <1>4, <2>2
    <3>2. l >= k /\ n < k + Tick
      BY <1>1, <1>2, <2>2, <3>1 DEF Loop
    <3>3. n < l + Tick
      BY <3>2, Bounds
    <3>4. nowMs' < m_last_tick_ms' + Tick
      BY <1>1, <3>1, <3>3
    <3> QED BY <1>1, <3>4 DEF Loop, Firing
  <2>5. Once(e)' /\ Placed(e)' /\ ToFire(e)' /\ stage'[e] = "added"
    <3>1. ToFire(e)' /\ stage'[e] = "added" /\ e \notin expired' \cup firing'
      BY <1>1, <1>3, <1>6, <1>9 DEF ToFire
    <3> QED BY <1>9, <2>2, <3>1 DEF Once, Placed, InSlots
  <2>6. ASSUME NEW d \in Events \ {e}
        PROVE  (Once(d)' <=> Once(d)) /\ (Placed(d)' <=> Placed(d)) /\ (ToFire(d)' <=> ToFire(d))
    BY <1>1, <1>8, <2>2 DEF Once, Placed, InSlots, ToFire
  <2>7. Places'
    BY <1>1, <1>2, <2>5, <2>6 DEF Places
  <2> QED BY <2>2, <2>3, <2>4, <2>7 DEF IInv
<1>10. CASE cancelled[e] /\ UNCHANGED <<arrive, addedAt, wheelVars>>
  <2>1. UNCHANGED <<m_l1, m_l1_cursor, m_last_tick_ms, m_overflow, arrive, addedAt>>
    BY <1>10 DEF wheelVars
  <2>2. TypeOK'
    BY <1>1, <1>2, <2>1 DEF TypeOK
  <2>3. Loop'
    BY <1>1, <1>2, <2>1 DEF Loop, Firing
  <2>4. ASSUME NEW d \in Events \ {e}
        PROVE  (Once(d)' <=> Once(d)) /\ (Placed(d)' <=> Placed(d)) /\ (ToFire(d)' <=> ToFire(d))
    BY <1>1, <1>8, <2>1 DEF Once, Placed, InSlots, ToFire
  <2>5. Places'
    BY <1>1, <1>2, <1>10, <2>4 DEF Places
  <2>6. Clock'
    BY <1>1, <1>2, <2>1, ClockKept
  <2> QED BY <2>2, <2>3, <2>5, <2>6 DEF IInv
<1> QED BY <1>7, <1>9, <1>10

LEMMA FireDoneInv == IInv /\ FireDone => IInv'
<1> SUFFICES ASSUME IInv, FireDone PROVE IInv'
  OBVIOUS
<1>1. /\ UNCHANGED <<now, m_l1, m_l1_cursor, m_last_tick_ms, m_overflow, stage, arrive, interval,
                     cancelled, addedAt, fires, wakeAt, expired, firing>>
      /\ loopPc = "fire" /\ expired = {} /\ loopPc' = "tasks" /\ nowMs' = 0 /\ loopPc' \notin Firing
  BY DEF FireDone, wheelVars, eventVars, Firing
<1>2. nowMs' \in 0..now'
  BY <1>1, Bounds DEF IInv, TypeOK
<1>3. TypeOK'
  BY <1>1, <1>2 DEF IInv, TypeOK
<1>4. Loop'
  BY <1>1 DEF IInv, Loop
<1>5. Places'
  BY <1>1 DEF IInv, Places, Once, Placed, InSlots, ToFire
<1>6. Clock'
  BY <1>1, ClockKept DEF IInv
<1> QED BY <1>3, <1>4, <1>5, <1>6 DEF IInv

LEMMA NextInv == IInv /\ [Next]_vars => IInv'
<1> SUFFICES ASSUME IInv, [Next]_vars PROVE IInv'
  OBVIOUS
<1>1. CASE Advance
  BY <1>1, AdvanceInv
<1>2. ASSUME NEW e \in Events, NEW iv \in Intervals[e], Create(e, iv) PROVE IInv'
  <2>1. iv \in Nat
    BY EventsAssumption
  <2> QED BY <1>2, <2>1, CreateInv
<1>3. ASSUME NEW e \in Events, AddEvent(e) \/ CancelEvent(e) \/ Fire(e) PROVE IInv'
  BY <1>3, AddEventInv, CancelEventInv, FireInv
<1>4. CASE EnterPoll \/ CallFireExpired
  BY <1>4, PollInv
<1>5. CASE CollectExpired
  BY <1>5, CollectInv
<1>6. CASE Rearm
  BY <1>6, RearmInv
<1>7. CASE FireDone
  BY <1>7, FireDoneInv
<1>8. CASE UNCHANGED vars
  <2>1. UNCHANGED <<now, m_l1, m_l1_cursor, m_last_tick_ms, m_overflow, stage, arrive, interval,
                    cancelled, addedAt, fires, loopPc, wakeAt, nowMs, expired, firing>>
    BY <1>8 DEF vars, wheelVars, eventVars, loopVars
  <2>2. TypeOK' /\ Loop'
    BY <2>1 DEF IInv, TypeOK, Loop
  <2>3. Places'
    BY <2>1 DEF IInv, Places, Once, Placed, InSlots, ToFire
  <2>4. Clock'
    BY <2>1, ClockKept DEF IInv
  <2> QED BY <2>2, <2>3, <2>4 DEF IInv
<1> QED BY <1>1, <1>2, <1>3, <1>4, <1>5, <1>6, <1>7, <1>8 DEF Next

LEMMA Invariance == Spec => []IInv
  BY InitInv, NextInv, PTL DEF Spec

-----------------------------------------------------------------------------
(* The theorems.                                                           *)

(* Type correctness of TimingWheel, the clock values that fireExpired and  *)
(* the poll compute included.                                              *)
THEOREM TypeCorrect == Spec => []TypeOK
<1>1. IInv => TypeOK
  BY DEF IInv
<1> QED BY <1>1, Invariance, PTL

(* No live event is overlooked: what fireExpired leaves in the wheel was   *)
(* due less than a tick before the time it was called with, whatever the   *)
(* tick, the number of slots, the stalls and the gaps.                     *)
THEOREM NothingLate == Spec => []NotLate
<1>1. IInv => NotLate
  <2> SUFFICES ASSUME IInv, loopPc \in Firing, NEW e \in Pending, ~cancelled[e]
               PROVE  Deadline(e) + Tick > nowMs
    BY DEF NotLate, Live, Firing
  <2>1. /\ TypeOK /\ Clock /\ nowMs < m_last_tick_ms + Tick
    BY DEF IInv, Loop
  <2>2. nowMs \in Nat /\ m_last_tick_ms \in Nat /\ e \in Events /\ arrive[e] \in Nat /\ addedAt[e] \in Nat
    BY <2>1, Bounds DEF TypeOK, Pending
  <2>3. Deadline(e) \in Nat /\ Deadline(e) >= arrive[e]
    BY <2>2 DEF Deadline, MaxOf
  <2>4. CASE e \in m_overflow
    <3>1. arrive[e] > nowMs
      BY <2>1, <2>4 DEF Clock, FarLater
    <3> QED BY <2>2, <2>3, <3>1, Bounds
  <2>5. CASE \E i \in SlotIndex : e \in m_l1[i]
    <3>1. PICK i \in SlotIndex : e \in m_l1[i]
      BY <2>5
    <3>2. PICK j \in SlotIndex : Ahead(j) = i
      BY <2>1, AheadFacts
    <3>3. Deadline(e) >= m_last_tick_ms + j * Tick
      BY <2>1, <3>1, <3>2 DEF Clock, NotBefore
    <3>4. j * Tick \in Nat
      BY Bounds
    <3> QED BY <2>1, <2>2, <2>3, <3>3, <3>4, Bounds
  <2> QED BY <2>4, <2>5 DEF Pending
<1> QED BY <1>1, Invariance, PTL

(* A live event that was added and has still to fire is in exactly one of  *)
(* the slots, the overflow map and the events fireExpired has in hand; any *)
(* other live event is in none.                                            *)
THEOREM InOnePlace == Spec => []OnePlace
<1>1. IInv => OnePlace
  <2> SUFFICES ASSUME IInv, NEW e \in Events, ~cancelled[e]
               PROVE  Cardinality({i \in SlotIndex : e \in m_l1[i]})
                      + (IF e \in m_overflow THEN 1 ELSE 0)
                      + (IF e \in expired \cup firing THEN 1 ELSE 0)
                      = IF ToFire(e) THEN 1 ELSE 0
    BY DEF OnePlace, ToFire
  <2> DEFINE S == {i \in SlotIndex : e \in m_l1[i]}
  <2>1. Once(e) /\ (Placed(e) <=> ToFire(e))
    BY DEF IInv, Places
  <2>2. CASE InSlots(e)
    <3>1. PICK i \in SlotIndex : e \in m_l1[i]
      BY <2>2 DEF InSlots
    <3>2. S = {i}
      BY <2>1, <3>1 DEF Once
    <3>3. Cardinality(S) = 1
      BY <3>2, FS_Singleton
    <3>4. e \notin m_overflow /\ e \notin expired \cup firing /\ ToFire(e)
      BY <2>1, <2>2 DEF Once, Placed
    <3> QED BY <3>3, <3>4
  <2>3. CASE ~InSlots(e)
    <3>1. S = {}
      BY <2>3 DEF InSlots
    <3>2. Cardinality(S) = 0
      BY <3>1, FS_EmptySet
    <3>3. ~(e \in m_overflow /\ e \in expired \cup firing)
          /\ (ToFire(e) <=> e \in m_overflow \/ e \in expired \cup firing)
      BY <2>1, <2>3 DEF Once, Placed
    <3> QED BY <3>2, <3>3
  <2> QED BY <2>2, <2>3
<1> QED BY <1>1, Invariance, PTL

(* A loop that goes to sleep with the wheel up to date wakes within a tick *)
(* of the deadline of every live event, for any mix of slots and overflow. *)
THEOREM SleepsInTime == Spec => PollInTime
<1> DEFINE InTime == loopPc = "tasks" /\ loopPc' = "poll" /\ now - m_last_tick_ms < Tick =>
                       \A e \in Live(Pending) :
                          wakeAt' # Never /\ wakeAt' <= MaxOf(Deadline(e), now) + Tick
<1>1. IInv /\ [Next]_vars => [InTime]_vars
  <2> SUFFICES ASSUME IInv, Next, loopPc = "tasks", loopPc' = "poll",
                      now - m_last_tick_ms < Tick, NEW e \in Pending, ~cancelled[e]
               PROVE  wakeAt' # Never /\ wakeAt' <= MaxOf(Deadline(e), now) + Tick
    BY DEF Live
  <2>1. EnterPoll
    BY DEF Next, Advance, Create, AddEvent, CancelEvent, Fire, CallFireExpired, CollectExpired,
           Rearm, FireDone, loopVars
  <2>2. TypeOK /\ Clock
    BY DEF IInv
  <2>3. now \in Nat /\ m_last_tick_ms \in Nat /\ e \in Events /\ arrive[e] \in Nat /\ addedAt[e] \in Nat
    BY <2>2, Bounds DEF TypeOK, Pending
  <2>4. Deadline(e) \in Nat /\ Deadline(e) >= arrive[e]
    BY <2>3 DEF Deadline, MaxOf
  <2>5. m_last_tick_ms # 0
    BY <2>2 DEF Clock, Unstarted, Pending
  <2>6. wakeAt' = IF MsUntilNextExpire = Never THEN Never ELSE now + MaxOf(1, MsUntilNextExpire)
    BY <2>1 DEF EnterPoll
  <2>7. CASE e \in m_overflow
    <3>1. PICK ms \in Nat : ms = MsUntilNextExpire
      BY <2>2, <2>7, MsFacts
    <3>2. ms <= MaxOf(0, arrive[e] - now)
      BY <2>2, <2>7, <3>1, MsFacts
    <3>3. PICK d \in Nat : d = Deadline(e) /\ d >= arrive[e]
      BY <2>4
    <3>4. wakeAt' = now + MaxOf(1, ms)
      BY <2>6, <3>1, Bounds
    <3>5. now + MaxOf(1, ms) <= MaxOf(d, now) + Tick /\ now + MaxOf(1, ms) \in Nat
      BY <2>3, <3>2, <3>3, Bounds DEF MaxOf
    <3> QED BY <3>3, <3>4, <3>5, Bounds
  <2>8. CASE \E i \in SlotIndex : e \in m_l1[i]
    <3>1. PICK i \in SlotIndex : e \in m_l1[i]
      BY <2>8
    <3>2. PICK j \in SlotIndex : Ahead(j) = i
      BY <2>2, AheadFacts
    <3>3. Deadline(e) >= m_last_tick_ms + j * Tick
      BY <2>2, <3>1, <3>2 DEF Clock, NotBefore
    <3>4. PICK w \in Nat : w = j * Tick
      BY Bounds
    <3>5. PICK u \in 1..Tick :
            /\ now + u = m_last_tick_ms + Tick
            /\ \A k \in SlotIndex : m_l1[Ahead(k)] # {} =>
                 MsUntilNextExpire \in Nat /\ MsUntilNextExpire <= u + k * Tick
      BY <2>2, <2>5, MsFacts
    <3>6. PICK ms \in Nat : ms = MsUntilNextExpire
      BY <3>1, <3>2, <3>5
    <3>7. ms <= u + w
      BY <3>1, <3>2, <3>4, <3>5, <3>6
    <3>8. PICK d \in Nat : d = Deadline(e) /\ d >= m_last_tick_ms + w
      BY <2>4, <3>3, <3>4
    <3>9. wakeAt' = now + MaxOf(1, ms)
      BY <2>6, <3>6, Bounds
    <3>10. now + MaxOf(1, ms) <= MaxOf(d, now) + Tick /\ now + MaxOf(1, ms) \in Nat
      BY <2>3, <3>5, <3>7, <3>8, Bounds DEF MaxOf
    <3> QED BY <3>8, <3>9, <3>10, Bounds
  <2> QED BY <2>7, <2>8 DEF Pending
<1> QED BY <1>1, Invariance, PTL DEF Spec, PollInTime
=============================================================================
