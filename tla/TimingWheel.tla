----------------------------- MODULE TimingWheel -----------------------------
(***************************************************************************)
(* rocket::TimingWheel as driven by EventLoop::loop: one level of slots    *)
(* for near deadlines, an ordered overflow map for the others, threads     *)
(* that create, add and cancel events, and the loop that sleeps for        *)
(* msUntilNextExpire and then calls fireExpired.                           *)
(*                                                                         *)
(* now is steady_clock in milliseconds.  0 is the "not initialised" value  *)
(* of m_last_tick_ms, so the clock starts at 1.  A slot is a set: callbacks *)
(* of one fireExpired may run in any order.                                *)
(***************************************************************************)
EXTENDS Integers, FiniteSets

CONSTANTS Events,      \* TimerEvent objects
          Repeated,    \* the repeated ones (m_is_repeated)
          Intervals,   \* per event: its possible m_interval values
          Tick,        \* kTickMs
          Slots,       \* kSlotsPerLevel
          MaxTime,     \* bound: the clock stops here
          MaxFires,    \* bound: firings of one repeated event
          MaxStall     \* bound: clock steps between fireExpired's reading of
                       \* the clock and its taking of the lock

ASSUME WheelAssumption == Tick \in Nat \ {0} /\ Slots \in Nat \ {0}
ASSUME EventsAssumption == Repeated \subseteq Events /\ Intervals \in [Events -> SUBSET Nat]
ASSUME TimeAssumption == MaxTime \in Nat \ {0} /\ MaxFires \in Nat \ {0} /\ MaxStall \in Nat

L1Range == Slots * Tick
SlotIndex == 0..(Slots - 1)
Never == -1              \* epoll_wait's infinite timeout

VARIABLES
    now,
    m_l1, m_l1_cursor, m_last_tick_ms,
    m_overflow,                 \* events in the multimap, keyed by arrive
    stage,                      \* per event: none, new (created), added
    arrive, interval, cancelled,
    addedAt,                    \* when the event was last scheduled
    fires,                      \* callbacks run
    loopPc,                     \* tasks, poll, called (clock read), fire, rearm
    wakeAt,                     \* when the poll times out
    nowMs,                      \* the clock value passed to fireExpired
    expired,                    \* collected events whose callback is to come
    firing                      \* the repeated event whose callback is running

wheelVars == <<m_l1, m_l1_cursor, m_last_tick_ms, m_overflow>>
eventVars == <<stage, arrive, interval, cancelled, addedAt, fires>>
loopVars == <<loopPc, wakeAt, nowMs, expired, firing>>
vars == <<now, wheelVars, eventVars, loopVars>>

TypeOK ==
    /\ now \in 1..MaxTime
    /\ m_l1 \in [SlotIndex -> SUBSET Events]
    /\ m_l1_cursor \in SlotIndex
    /\ m_last_tick_ms \in 0..now
    /\ m_overflow \subseteq Events
    /\ stage \in [Events -> {"none", "new", "added"}]
    /\ arrive \in [Events -> Nat] /\ interval \in [Events -> Nat]
    /\ cancelled \in [Events -> BOOLEAN]
    /\ addedAt \in [Events -> 0..MaxTime] /\ fires \in [Events -> 0..MaxFires]
    /\ loopPc \in {"tasks", "poll", "called", "fire", "rearm"}
    /\ wakeAt \in Nat \cup {Never} /\ nowMs \in 0..now
    /\ expired \subseteq Events /\ firing \subseteq Events

Init ==
    /\ now = 1
    /\ m_l1 = [i \in SlotIndex |-> {}] /\ m_l1_cursor = 0
    /\ m_last_tick_ms = 0 /\ m_overflow = {}
    /\ stage = [e \in Events |-> "none"]
    /\ arrive = [e \in Events |-> 0] /\ interval = [e \in Events |-> 0]
    /\ cancelled = [e \in Events |-> FALSE]
    /\ addedAt = [e \in Events |-> 0] /\ fires = [e \in Events |-> 0]
    /\ loopPc = "tasks" /\ wakeAt = Never /\ nowMs = 0 /\ expired = {} /\ firing = {}

-----------------------------------------------------------------------------
(* The clock.  A sleeping loop is woken when its timeout is over.          *)
Advance ==
    /\ now < MaxTime
    /\ loopPc = "poll" /\ wakeAt # Never => now < wakeAt
    /\ loopPc = "called" => now < nowMs + MaxStall
    /\ now' = now + 1
    /\ UNCHANGED <<wheelVars, eventVars, loopVars>>

-----------------------------------------------------------------------------
(* schedule(), with the wheel's lock held: e's deadline is a.              *)

Schedule(e, a) ==
    LET delay == IF a - now <= 0 THEN Tick ELSE a - now
        idx == (m_l1_cursor + (delay - 1) \div Tick) % Slots
    IN IF delay <= L1Range
         THEN m_l1' = [m_l1 EXCEPT ![idx] = @ \cup {e}] /\ UNCHANGED m_overflow
         ELSE m_overflow' = m_overflow \cup {e} /\ UNCHANGED m_l1

\* addEvent once the event was seen not cancelled.
Insert(e, a) ==
    /\ m_last_tick_ms' = IF m_last_tick_ms = 0 THEN now ELSE m_last_tick_ms
    /\ Schedule(e, a)
    /\ addedAt' = [addedAt EXCEPT ![e] = now]
    /\ UNCHANGED m_l1_cursor

(* Other threads. *)

\* TimerEvent's constructor: resetArriveTime.
Create(e, iv) ==
    /\ stage[e] = "none"
    /\ stage' = [stage EXCEPT ![e] = "new"]
    /\ interval' = [interval EXCEPT ![e] = iv]
    /\ arrive' = [arrive EXCEPT ![e] = now + iv]
    /\ UNCHANGED <<now, wheelVars, cancelled, addedAt, fires, loopVars>>

\* addEvent tests the flag before it takes the lock: an event cancelled by now
\* may or may not be inserted.
AddEvent(e) ==
    /\ stage[e] = "new"
    /\ stage' = [stage EXCEPT ![e] = "added"]
    /\ \/ Insert(e, arrive[e])
       \/ cancelled[e] /\ UNCHANGED <<wheelVars, addedAt>>
    /\ UNCHANGED <<now, arrive, interval, cancelled, fires, loopVars>>

\* The flag, and the eager removal from the overflow map.
CancelEvent(e) ==
    /\ stage[e] # "none" /\ ~cancelled[e]
    /\ cancelled' = [cancelled EXCEPT ![e] = TRUE]
    /\ m_overflow' = m_overflow \ {e}
    /\ addedAt' = [addedAt EXCEPT ![e] = 0]     \* history no longer needed
    /\ UNCHANGED <<now, m_l1, m_l1_cursor, m_last_tick_ms, stage, arrive,
                   interval, fires, loopVars>>

-----------------------------------------------------------------------------
(* The loop. *)

\* Slots in the order in which the cursor reaches them.
Ahead(i) == (m_l1_cursor + i) % Slots
MinOf(S) == CHOOSE x \in S : \A y \in S : x <= y
MaxOf(a, b) == IF a >= b THEN a ELSE b

\* Regression: a slot timer hides an earlier deadline in the overflow map.
MsUntilSlotOnly ==
    LET elapsed == IF m_last_tick_ms = 0 THEN 0 ELSE MaxOf(0, now - m_last_tick_ms)
        filled == {i \in SlotIndex : m_l1[Ahead(i)] # {}}
    IN IF filled # {} THEN MaxOf(1, Tick - MinOf({elapsed, Tick})) + MinOf(filled) * Tick
       ELSE IF m_overflow = {} THEN Never
       ELSE MaxOf(0, MinOf({arrive[e] : e \in m_overflow}) - now)

MsUntilNextExpire ==
    LET elapsed == IF m_last_tick_ms = 0 THEN 0 ELSE MaxOf(0, now - m_last_tick_ms)
        untilNextTick == MaxOf(1, Tick - MinOf({elapsed, Tick}))
        filled == {i \in SlotIndex : m_l1[Ahead(i)] # {}}
        l1 == IF filled = {} THEN {} ELSE {untilNextTick + MinOf(filled) * Tick}
        far == IF m_overflow = {} THEN {}
               ELSE {MaxOf(0, MinOf({arrive[e] : e \in m_overflow}) - now)}
    IN IF l1 \cup far = {} THEN Never ELSE MinOf(l1 \cup far)

\* loop(): choose the timeout (0 becomes 1) and sleep.
EnterPoll ==
    /\ loopPc = "tasks"
    /\ loopPc' = "poll"
    /\ LET ms == MsUntilNextExpire
       IN wakeAt' = IF ms = Never THEN Never ELSE now + MaxOf(1, ms)
    /\ UNCHANGED <<now, wheelVars, eventVars, nowMs, expired, firing>>

\* The poll times out or something else wakes the loop; after the handlers
\* processTimerEvents reads the clock.
CallFireExpired ==
    /\ loopPc = "poll"
    /\ loopPc' = "called"
    /\ nowMs' = now /\ wakeAt' = Never
    /\ UNCHANGED <<now, wheelVars, eventVars, expired, firing>>

Live(S) == {e \in S : ~cancelled[e]}

Elapsed == MaxOf(0, nowMs - m_last_tick_ms)
Gap == Elapsed \div Tick > Slots          \* a long gap, e.g. a suspend
TicksPassed == IF Gap THEN Slots ELSE Elapsed \div Tick
Passed == {Ahead(t) : t \in 0..(TicksPassed - 1)}

\* Regression: the clock is set to now although no whole tick has passed.
LastTickNow == nowMs

\* The sub-tick remainder is kept, except after a gap.
LastTick == IF Gap THEN nowMs ELSE m_last_tick_ms + TicksPassed * Tick

\* Regression: a slot that was collected is not cleared.
TickL1Keeps == m_l1_cursor' = Ahead(TicksPassed) /\ UNCHANGED m_l1

TickL1 ==
    /\ m_l1' = [i \in SlotIndex |-> IF i \in Passed THEN {} ELSE m_l1[i]]
    /\ m_l1_cursor' = Ahead(TicksPassed)

\* fireExpired with the lock held: advance the cursor over the ticks that have
\* passed (at most one revolution), empty those slots and the due part of the
\* overflow map, keep what is not cancelled.  The first call only sets the clock.
CollectExpired ==
    /\ loopPc = "called"
    /\ loopPc' = "fire"
    /\ IF m_last_tick_ms = 0
         THEN m_last_tick_ms' = nowMs
              /\ UNCHANGED <<m_l1, m_l1_cursor, m_overflow, expired>>
         ELSE LET far == {e \in m_overflow : arrive[e] <= nowMs}
              IN /\ m_last_tick_ms' = LastTick
                 /\ expired' = Live(far \cup UNION {m_l1[i] : i \in Passed})
                 /\ TickL1
                 /\ m_overflow' = m_overflow \ far
    /\ UNCHANGED <<now, eventVars, wakeAt, nowMs, firing>>

\* fireExpired without the lock: skip what was cancelled meanwhile, run the
\* callback ...
Fire(e) ==
    /\ loopPc = "fire" /\ e \in expired
    /\ cancelled[e] \/ fires[e] < MaxFires
    /\ expired' = expired \ {e}
    /\ fires' = IF cancelled[e] THEN fires ELSE [fires EXCEPT ![e] = @ + 1]
    /\ loopPc' = IF ~cancelled[e] /\ e \in Repeated THEN "rearm" ELSE "fire"
    /\ firing' = IF ~cancelled[e] /\ e \in Repeated THEN {e} ELSE {}
    /\ UNCHANGED <<now, wheelVars, stage, arrive, interval, cancelled, addedAt,
                   wakeAt, nowMs>>

\* ... and put a repeated event back with a new deadline, unless it was
\* cancelled during its callback.
Rearm ==
    /\ loopPc = "rearm"
    /\ loopPc' = "fire" /\ firing' = {}
    /\ \E e \in firing :
         \/ /\ ~cancelled[e]
            /\ arrive' = [arrive EXCEPT ![e] = now + interval[e]]
            /\ Insert(e, now + interval[e])
         \/ cancelled[e] /\ UNCHANGED <<arrive, addedAt, wheelVars>>
    /\ UNCHANGED <<now, stage, interval, cancelled, fires, wakeAt, nowMs, expired>>

FireDone ==
    /\ loopPc = "fire" /\ expired = {}
    /\ loopPc' = "tasks" /\ nowMs' = 0
    /\ UNCHANGED <<now, wheelVars, eventVars, wakeAt, expired, firing>>

Next ==
    \/ Advance
    \/ \E e \in Events :
         \/ \E iv \in Intervals[e] : Create(e, iv)
         \/ AddEvent(e) \/ CancelEvent(e) \/ Fire(e)
    \/ EnterPoll \/ CallFireExpired \/ CollectExpired \/ Rearm \/ FireDone

Spec == Init /\ [][Next]_vars

-----------------------------------------------------------------------------
(* Properties.                                                             *)

Pending == m_overflow \cup UNION {m_l1[i] : i \in SlotIndex}
\* The moment at which an event should fire: its deadline, or when it was
\* added with the deadline already over.
Deadline(e) == MaxOf(arrive[e], addedAt[e])

(* No live event is overlooked: after fireExpired has collected at nowMs,  *)
(* every live event left in the wheel was due less than a tick ago or is   *)
(* still to come.  It needs the slot arithmetic, the sub-tick remainder,   *)
(* the clamp after a long gap and the ordered overflow to agree.           *)
NotLate == loopPc \in {"fire", "rearm"} => \A e \in Live(Pending) : Deadline(e) + Tick > nowMs

(* A live event that was added and has not fired is in exactly one place,  *)
(* and a fired one-shot event is nowhere: none is lost and none fires      *)
(* twice, with cancellations and re-insertions in between.                 *)
OnePlace ==
    \A e \in Events :
        LET places == Cardinality({i \in SlotIndex : e \in m_l1[i]})
                      + (IF e \in m_overflow THEN 1 ELSE 0)
                      + (IF e \in expired \cup firing THEN 1 ELSE 0)
        IN ~cancelled[e] =>
             places = IF stage[e] = "added" /\ (e \in Repeated \/ fires[e] = 0) THEN 1 ELSE 0

(* A loop that goes to sleep with the wheel up to date (less than a tick   *)
(* behind the clock) does not sleep more than a tick past the deadline of  *)
(* any live event, whichever of the slots and the overflow map holds it.   *)
PollInTime ==
    [][loopPc = "tasks" /\ loopPc' = "poll" /\ now - m_last_tick_ms < Tick =>
         \A e \in Live(Pending) :
            wakeAt' # Never /\ wakeAt' <= MaxOf(Deadline(e), now) + Tick]_vars
=============================================================================
