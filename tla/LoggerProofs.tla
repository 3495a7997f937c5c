----------------------------- MODULE LoggerProofs -----------------------------
(***************************************************************************)
(* What holds of Logger for all threads, scripts, ring and batch sizes:    *)
(* every published line is in exactly one place, nothing but the lines of  *)
(* calls a stop() overlapped is left in a ring, and what is written is     *)
(* what was logged.                                                        *)
(*                                                                         *)
(* First the arithmetic of the rings, whose capacity is a power of two:    *)
(* what Publish and Dequeue do to the unread lines of a ring.  Then the    *)
(* inductive invariant IInv, with one lemma for each action.  Then the     *)
(* layout of the arguments (LogArgs): the places of different arguments do *)
(* not overlap, and reading at them gives back what was written.           *)
(***************************************************************************)
EXTENDS Logger, FiniteSetTheorems, SequenceTheorems, NaturalsInduction,
        WellFoundedInduction, TLAPS

-----------------------------------------------------------------------------
(* The capacity and the cells of a ring.                                   *)

(* A power of two is above its exponent: the subsets of 1..k are more than *)
(* its elements.                                                           *)
LEMMA PowerOfTwo == ASSUME NEW k \in Nat PROVE 2 ^ k \in Nat /\ 2 ^ k >= k /\ (k > 0 => 2 ^ k >= 2)
<1> DEFINE S == 1..k
<1>1. IsFiniteSet(S) /\ Cardinality(S) = k
  BY FS_Interval
<1>2. IsFiniteSet(SUBSET S) /\ Cardinality(SUBSET S) = 2 ^ k
  BY <1>1, FS_SUBSET, Zenon
<1>3. 2 ^ k \in Nat
  BY <1>2, FS_CardinalityType, Zenon
<1>4. 2 ^ k >= k
  <2> DEFINE f == [i \in S |-> {i}]
  <2>1. f \in Injection(S, SUBSET S)
    BY DEF Injection, IsInjective
  <2>2. Cardinality(S) <= Cardinality(SUBSET S)
    BY <1>2, <2>1, FS_Injection, Zenon
  <2> QED BY <1>1, <1>2, <2>2
<1>5. ASSUME k > 0 PROVE 2 ^ k >= 2
  <2>1. {} \in SUBSET S /\ {1} \in SUBSET S /\ {} # {1}
    BY <1>5
  <2>2. PICK a, b : a = {} /\ b = {1}
    OBVIOUS
  <2>3. {a, b} \in SUBSET (SUBSET S) /\ a # b
    BY <2>1, <2>2
  <2>4. IsFiniteSet({a}) /\ Cardinality({a}) = 1
    BY FS_Singleton, Zenon
  <2>5. IsFiniteSet({a} \cup {b}) /\ Cardinality({a} \cup {b}) = 2
    BY <2>3, <2>4, FS_AddElement
  <2>6. Cardinality({a} \cup {b}) <= Cardinality(SUBSET S)
    <3>1. {a} \cup {b} \in SUBSET (SUBSET S)
      BY <2>3
    <3> QED BY <3>1, <1>2, FS_Subset, Zenon
  <2> QED BY <1>2, <1>3, <2>5, <2>6
<1> QED BY <1>3, <1>4, <1>5

LEMMA LeastOf ==
  ASSUME NEW S, S \subseteq Nat, S # {}
  PROVE  \E x \in S : \A y \in S : x <= y
<1>1. PICK x \in S : \A y \in S : ~(<<y, x>> \in OpToRel(<, Nat))
  BY NatLessThanWellFounded, WFMin
<1>2. \A y \in S : x <= y
  <2> SUFFICES ASSUME NEW y \in S, y < x PROVE FALSE
    OBVIOUS
  <2>1. <<y, x>> \in OpToRel(<, Nat)
    BY DEF OpToRel
  <2> QED BY <1>1, <2>1
<1> QED BY <1>2

(* A ring has at least two cells.                                          *)
LEMMA CapacityOK == Capacity \in Nat /\ Capacity >= 2
<1> DEFINE v == QueueEntries
           P == {2 ^ k : k \in 1..(v + 1)}
           S == {n \in P : v <= n}
<1>1. v \in Nat
  BY LoggerAssumption
<1>2. \A n \in P : n \in Nat /\ n >= 2
  BY <1>1, PowerOfTwo
<1>3. 2 ^ (v + 1) \in S
  <2>1. v + 1 \in Nat /\ v + 1 \in 1..(v + 1)
    BY <1>1
  <2>2. 2 ^ (v + 1) \in Nat /\ 2 ^ (v + 1) >= v + 1
    BY <2>1, PowerOfTwo
  <2> QED BY <1>1, <2>1, <2>2
<1>4. PICK n \in S : \A m \in S : n <= m
  BY <1>2, <1>3, LeastOf
<1>5. n \in P /\ v <= n /\ \A k \in 1..(v + 1) : v <= 2 ^ k => n <= 2 ^ k
  BY <1>4
<1>6. Capacity \in P
  <2>1. Capacity = CHOOSE x \in P : v <= x /\ \A k \in 1..(v + 1) : v <= 2 ^ k => x <= 2 ^ k
    BY DEF Capacity, NextPow2
  <2> QED BY <1>5, <2>1, Zenon
<1> QED BY <1>2, <1>6

LEMMA TimesCapacity ==
  \A i, j \in Int :
      /\ i * Capacity \in Int
      /\ i < j => i * Capacity + Capacity <= j * Capacity
      /\ (i - j) * Capacity = i * Capacity - j * Capacity
      /\ (i + j) * Capacity = i * Capacity + j * Capacity
      /\ i * Capacity = Capacity * i
  BY CapacityOK

LEMMA Quotient ==
  ASSUME NEW x \in Nat, NEW c \in Nat, c >= 1
  PROVE  /\ x \div c \in Int /\ x % c \in Nat /\ x % c < c
         /\ x = (x \div c) * c + (x % c)
  OBVIOUS

LEMMA CellIs ==
  ASSUME NEW x \in Nat
  PROVE  /\ Cell(x) \in Nat /\ Cell(x) \in 0..(Capacity - 1)
         /\ \E q \in Int : x = q * Capacity + Cell(x)
<1>1. PICK c \in Nat : c = Capacity /\ c >= 1
  BY CapacityOK
<1>2. x \div c \in Int /\ x % c \in Nat /\ x % c < c /\ x = (x \div c) * c + (x % c)
  BY <1>1, Quotient
<1>3. Cell(x) = x % c
  BY <1>1 DEF Cell
<1>4. Cell(x) \in Nat /\ Cell(x) \in 0..(Capacity - 1)
  BY <1>1, <1>2, <1>3
<1>5. x = (x \div c) * Capacity + Cell(x)
  BY <1>1, <1>2, <1>3, Zenon
<1> QED BY <1>2, <1>4, <1>5, Zenon

LEMMA CellUnique ==
  ASSUME NEW x \in Nat, NEW q \in Int, NEW c \in 0..(Capacity - 1), x = q * Capacity + c
  PROVE  Cell(x) = c
<1>1. PICK e \in Int : x = e * Capacity + Cell(x)
  BY CellIs
<1>2. Cell(x) \in Nat /\ Cell(x) < Capacity /\ c \in Nat /\ c < Capacity
  BY CellIs, CapacityOK
<1>3. ~(q < e) /\ ~(e < q)
  BY <1>1, <1>2, TimesCapacity, CapacityOK
<1> QED BY <1>1, <1>2, <1>3, TimesCapacity, CapacityOK

(* Different positions less than the capacity apart have different cells.  *)
LEMMA CellsDiffer ==
  ASSUME NEW x \in Nat, NEW y \in Nat, x <= y, y < x + Capacity, Cell(x) = Cell(y)
  PROVE  x = y
<1>1. PICK a \in Int : x = a * Capacity + Cell(x)
  BY CellIs
<1>2. PICK b \in Int : y = b * Capacity + Cell(y)
  BY CellIs
<1>3. Cell(x) \in Nat
  BY CellIs
<1>4. ~(a < b) /\ ~(b < a)
  BY <1>1, <1>2, <1>3, TimesCapacity, CapacityOK
<1> QED BY <1>1, <1>2, <1>3, <1>4

(* The place of cell c ahead of position d.                                *)
LEMMA CellAhead ==
  ASSUME NEW d \in Nat, NEW c \in 0..(Capacity - 1)
  PROVE  LET o == Cell(c - d + Capacity * d)
         IN o \in Nat /\ o < Capacity /\ Cell(d + o) = c
<1> DEFINE x == c - d + Capacity * d
<1>1. x \in Nat
  <2>1. Capacity * d \in Nat /\ Capacity * d >= d
    BY CapacityOK
  <2> QED BY <2>1, CapacityOK
<1>2. PICK q \in Int : x = q * Capacity + Cell(x)
  BY <1>1, CellIs
<1>3. Cell(x) \in Nat /\ Cell(x) < Capacity
  BY <1>1, CellIs, CapacityOK
<1>4. d + Cell(x) = (d - q) * Capacity + c
  BY <1>2, <1>3, TimesCapacity, CapacityOK
<1>5. Cell(d + Cell(x)) = c
  <2>1. d - q \in Int /\ d + Cell(x) \in Nat
    BY <1>3
  <2> QED BY <2>1, <1>4, CellUnique, Zenon
<1> QED BY <1>3, <1>5

-----------------------------------------------------------------------------
(* How often a line occurs in a sequence.                                  *)

Lines == Threads \X Nat

LEMMA TimesType ==
  ASSUME NEW s \in Seq(Lines), NEW l
  PROVE  /\ IsFiniteSet({i \in DOMAIN s : s[i] = l}) /\ Times(l, s) \in Nat
         /\ Times(l, s) = 0 <=> \A i \in DOMAIN s : s[i] # l
<1> DEFINE W == {i \in DOMAIN s : s[i] = l}
<1>1. IsFiniteSet(1..Len(s)) /\ DOMAIN s = 1..Len(s)
  BY FS_Interval
<1>2. IsFiniteSet(W)
  <2>1. W \in SUBSET (1..Len(s))
    BY <1>1
  <2> QED BY <1>1, <2>1, FS_Subset, Zenon
<1>3. Cardinality(W) \in Nat /\ (Cardinality(W) = 0 <=> W = {})
  BY <1>2, FS_CardinalityType, FS_EmptySet, Zenon
<1>4. Times(l, s) = Cardinality(W)
  BY DEF Times
<1>5. W = {} <=> \A i \in DOMAIN s : s[i] # l
  OBVIOUS
<1> HIDE DEF W
<1> QED BY <1>2, <1>3, <1>4, <1>5 DEF W

LEMMA TimesEmpty == \A l : Times(l, <<>>) = 0
<1> SUFFICES ASSUME NEW l PROVE Times(l, <<>>) = 0
  OBVIOUS
<1>1. <<>> \in Seq(Lines) /\ \A i \in DOMAIN <<>> : <<>>[i] # l
  OBVIOUS
<1> QED BY <1>1, TimesType

LEMMA TimesConcat ==
  ASSUME NEW s \in Seq(Lines), NEW t \in Seq(Lines), NEW l
  PROVE  s \o t \in Seq(Lines) /\ Times(l, s \o t) = Times(l, s) + Times(l, t)
<1> DEFINE A == {i \in DOMAIN s : s[i] = l}
           B == {i \in DOMAIN t : t[i] = l}
           C == {i \in DOMAIN (s \o t) : (s \o t)[i] = l}
           D == {i \in C : i > Len(s)}
           f == [i \in B |-> i + Len(s)]
<1>1. s \o t \in Seq(Lines) /\ Len(s \o t) = Len(s) + Len(t)
      /\ \A i \in 1..(Len(s) + Len(t)) :
            (s \o t)[i] = IF i <= Len(s) THEN s[i] ELSE t[i - Len(s)]
  BY ConcatProperties, Zenon
<1>2. Len(s) \in Nat /\ Len(t) \in Nat /\ DOMAIN s = 1..Len(s) /\ DOMAIN t = 1..Len(t)
      /\ DOMAIN (s \o t) = 1..(Len(s) + Len(t))
  BY <1>1
<1>3. C = A \cup D /\ A \cap D = {}
  <2>1. \A i \in A : i \in C /\ i <= Len(s)
    BY <1>1, <1>2
  <2>2. \A i \in C : i \in A \/ i \in D
    BY <1>1, <1>2
  <2> QED BY <2>1, <2>2, <1>2
<1>4. f \in Bijection(B, D)
  <2>1. f \in [B -> D]
    BY <1>1, <1>2
  <2>2. \A i, j \in B : f[i] = f[j] => i = j
    BY <1>2
  <2>3. \A i \in D : \E j \in B : f[j] = i
    <3> SUFFICES ASSUME NEW i \in D PROVE i - Len(s) \in B /\ f[i - Len(s)] = i
      OBVIOUS
    <3> QED BY <1>1, <1>2
  <2> QED BY <2>1, <2>2, <2>3 DEF Bijection, Injection, Surjection, IsInjective
<1>5. IsFiniteSet(A) /\ IsFiniteSet(B)
  BY TimesType
<1>6. IsFiniteSet(D) /\ Cardinality(D) = Cardinality(B)
  BY <1>4, <1>5, FS_Bijection DEF ExistsBijection
<1>7. Cardinality(C) = Cardinality(A) + Cardinality(D) - Cardinality({})
  BY <1>3, <1>5, <1>6, FS_Union
<1>8. Cardinality(A) \in Nat /\ Cardinality(B) \in Nat /\ Cardinality({}) = 0
  BY <1>5, FS_CardinalityType, FS_EmptySet
<1>9. Times(l, s) = Cardinality(A) /\ Times(l, t) = Cardinality(B) /\ Times(l, s \o t) = Cardinality(C)
  BY DEF Times
<1> HIDE DEF A, B, C, D
<1> QED BY <1>1, <1>6, <1>7, <1>8, <1>9

LEMMA TimesAppend ==
  ASSUME NEW s \in Seq(Lines), NEW x \in Lines, NEW l
  PROVE  /\ Append(s, x) \in Seq(Lines)
         /\ Times(l, Append(s, x)) = Times(l, s) + (IF x = l THEN 1 ELSE 0)
<1>1. <<x>> \in Seq(Lines) /\ Append(s, x) = s \o <<x>>
  BY AppendIsConcat
<1>2. Times(l, <<x>>) = IF x = l THEN 1 ELSE 0
  <2>1. {i \in DOMAIN <<x>> : <<x>>[i] = l} = IF x = l THEN {1} ELSE {}
    OBVIOUS
  <2>2. Cardinality({1}) = 1 /\ Cardinality({}) = 0
    BY FS_Singleton, FS_EmptySet
  <2> QED BY <2>1, <2>2 DEF Times
<1>3. s \o <<x>> \in Seq(Lines) /\ Times(l, s \o <<x>>) = Times(l, s) + Times(l, <<x>>)
  BY <1>1, TimesConcat, Zenon
<1> QED BY <1>1, <1>2, <1>3

-----------------------------------------------------------------------------
(* The rings: the positions from dq to pos hold the published lines, the   *)
(* rest is free.                                                           *)

RingType == [sequence : [0..(Capacity - 1) -> Nat],
             storage : [0..(Capacity - 1) -> Lines \cup {None}],
             pos : Nat, dq : Nat, generation : Nat]

RingOK(r) ==
    /\ r \in RingType
    /\ r.dq <= r.pos /\ r.pos <= r.dq + Capacity
    /\ \A k \in Nat : r.dq <= k /\ k < r.pos =>
          r.sequence[Cell(k)] = k + 1 /\ r.storage[Cell(k)] \in Lines
    /\ \A k \in Nat : r.pos <= k /\ k < r.dq + Capacity => r.sequence[Cell(k)] = k

LEMMA UnreadIs ==
  ASSUME NEW r, RingOK(r)
  PROVE  /\ Unread(r) = [i \in 1..(r.pos - r.dq) |-> r.storage[Cell(r.dq + i - 1)]]
         /\ Unread(r) \in Seq(Lines) /\ Len(Unread(r)) = r.pos - r.dq
<1> DEFINE S == {k \in r.dq..(r.pos - 1) : r.sequence[Cell(k)] = k + 1}
           n == r.pos - r.dq
           u == [i \in 1..n |-> r.storage[Cell(r.dq + i - 1)]]
<1>1. r.pos \in Nat /\ r.dq \in Nat /\ n \in Nat
  BY DEF RingOK, RingType
<1>2. S = r.dq..(r.pos - 1)
  BY <1>1 DEF RingOK
<1>3. Cardinality(S) = n
  <2>1. PICK a, b \in Int : a = r.dq /\ b = r.pos - 1
    BY <1>1
  <2>2. Cardinality(a..b) = IF a > b THEN 0 ELSE b - a + 1
    BY FS_Interval
  <2> HIDE DEF S
  <2> QED BY <1>1, <1>2, <2>1, <2>2
<1>4. Unread(r) = u
  BY <1>3 DEF Unread
<1>5. \A i \in 1..n : u[i] \in Lines
  <2> SUFFICES ASSUME NEW i \in 1..n PROVE u[i] \in Lines
    OBVIOUS
  <2>1. r.dq + i - 1 \in Nat /\ r.dq <= r.dq + i - 1 /\ r.dq + i - 1 < r.pos
    BY <1>1
  <2> QED BY <2>1 DEF RingOK
<1> HIDE DEF n
<1>6. u \in Seq(Lines) /\ Len(u) = n
  BY <1>1, <1>5
<1> QED BY <1>4, <1>6 DEF n

LEMMA NewRingOK ==
  ASSUME NEW g \in Nat
  PROVE  /\ RingOK(NewRing(g)) /\ Unread(NewRing(g)) = <<>>
         /\ NewRing(g).generation = g /\ NewRing(g).pos = NewRing(g).dq
<1> DEFINE r == NewRing(g)
<1>1. /\ r.pos = 0 /\ r.dq = 0 /\ r.generation = g
      /\ r.sequence = [i \in 0..(Capacity - 1) |-> i] /\ r.storage = [i \in 0..(Capacity - 1) |-> None]
      /\ r \in RingType
  BY CapacityOK DEF NewRing, RingType
<1>2. \A k \in Nat : k < Capacity => Cell(k) = k
  <2> SUFFICES ASSUME NEW k \in Nat, k < Capacity PROVE Cell(k) = k
    OBVIOUS
  <2>1. k = 0 * Capacity + k /\ k \in 0..(Capacity - 1)
    BY CapacityOK
  <2> QED BY <2>1, CellUnique
<1>3. RingOK(r)
  BY <1>1, <1>2, CapacityOK DEF RingOK
<1>4. Unread(r) = <<>>
  <2>1. Unread(r) \in Seq(Lines) /\ Len(Unread(r)) = 0
    BY <1>1, <1>3, UnreadIs
  <2> QED BY <2>1
<1> QED BY <1>1, <1>3, <1>4

(* tryClaim succeeds exactly if there is a free cell, and the line goes to  *)
(* the end.                                                                 *)
LEMMA PublishOK ==
  ASSUME NEW r, RingOK(r), CanClaim(r), NEW l \in Lines
  PROVE  LET r2 == Publish(Claim(r), l)
         IN /\ RingOK(r2) /\ Unread(r2) = Append(Unread(r), l)
            /\ r2.generation = r.generation
<1> DEFINE r2 == Publish(Claim(r), l)
<1>1. r \in RingType /\ r.pos \in Nat /\ r.dq \in Nat /\ r.dq <= r.pos
      /\ Capacity \in Nat /\ Capacity >= 2
  BY CapacityOK DEF RingOK, RingType
<1>2. Cell(r.pos) \in 0..(Capacity - 1)
  BY <1>1, CellIs
<1>3. r.pos < r.dq + Capacity
  <2> SUFFICES ASSUME r.pos = r.dq + Capacity PROVE FALSE
    BY <1>1 DEF RingOK
  <2>1. PICK q \in Int : r.dq = q * Capacity + Cell(r.dq)
    BY <1>1, CellIs
  <2>2. r.pos = (q + 1) * Capacity + Cell(r.dq)
    BY <2>1, <1>1, TimesCapacity, CellIs
  <2>3. Cell(r.pos) = Cell(r.dq)
    <3>1. Cell(r.dq) \in 0..(Capacity - 1) /\ q + 1 \in Int
      BY <1>1, CellIs
    <3> QED BY <2>2, <1>1, <3>1, CellUnique, Zenon
  <2>4. r.sequence[Cell(r.dq)] = r.dq + 1
    BY <1>1 DEF RingOK
  <2> QED BY <1>1, <2>3, <2>4 DEF CanClaim
<1>4. /\ r2.pos = r.pos + 1 /\ r2.dq = r.dq /\ r2.generation = r.generation
      /\ r2.sequence = [r.sequence EXCEPT ![Cell(r.pos)] = r.pos + 1]
      /\ r2.storage = [r.storage EXCEPT ![Cell(r.pos)] = l]
      /\ r2 \in RingType
  <2>1. PICK c : c = Claim(r)
    OBVIOUS
  <2>2. /\ c \in RingType /\ c.pos = r.pos + 1 /\ c.dq = r.dq /\ c.generation = r.generation
        /\ c.sequence = r.sequence /\ c.storage = r.storage
    <3>1. c = [r EXCEPT !.pos = r.pos + 1]
      BY <2>1 DEF Claim
    <3>2. PICK v \in Nat : v = r.pos + 1
      BY <1>1
    <3>3. c = [r EXCEPT !.pos = v]
      BY <3>1, <3>2
    <3> QED BY <1>1, <3>2, <3>3 DEF RingType
  <2>3. c.pos - 1 = r.pos
    BY <1>1, <2>2
  <2>4. r2 = [c EXCEPT !.storage[Cell(r.pos)] = l, !.sequence[Cell(r.pos)] = r.pos + 1]
    BY <2>1, <2>3 DEF Publish
  <2>5. PICK i \in 0..(Capacity - 1), v \in Nat : i = Cell(r.pos) /\ v = r.pos + 1
    BY <1>1, <1>2
  <2>6. r2 = [c EXCEPT !.storage[i] = l, !.sequence[i] = v]
    BY <2>4, <2>5
  <2> HIDE DEF r2
  <2>7. /\ r2.pos = c.pos /\ r2.dq = c.dq /\ r2.generation = c.generation
        /\ r2.sequence = [c.sequence EXCEPT ![i] = v] /\ r2.storage = [c.storage EXCEPT ![i] = l]
        /\ r2 \in RingType
    BY <2>2, <2>6 DEF RingType
  <2> QED BY <2>2, <2>5, <2>7
<1>5. \A k \in Nat : r.dq <= k /\ k < r.dq + Capacity =>
         /\ r2.sequence[Cell(k)] = IF k = r.pos THEN r.pos + 1 ELSE r.sequence[Cell(k)]
         /\ r2.storage[Cell(k)] = IF k = r.pos THEN l ELSE r.storage[Cell(k)]
  <2> SUFFICES ASSUME NEW k \in Nat, r.dq <= k, k < r.dq + Capacity
               PROVE  /\ r2.sequence[Cell(k)] = IF k = r.pos THEN r.pos + 1 ELSE r.sequence[Cell(k)]
                      /\ r2.storage[Cell(k)] = IF k = r.pos THEN l ELSE r.storage[Cell(k)]
    OBVIOUS
  <2>1. Cell(k) \in 0..(Capacity - 1)
    BY CellIs
  <2>2. Cell(k) = Cell(r.pos) <=> k = r.pos
    BY <1>1, <1>3, CellsDiffer
  <2>3. r.sequence \in [0..(Capacity - 1) -> Nat] /\ r.storage \in [0..(Capacity - 1) -> Lines \cup {None}]
    BY <1>1 DEF RingType
  <2> HIDE DEF r2
  <2> QED BY <2>1, <2>2, <2>3, <1>4
<1> HIDE DEF r2
<1>6. RingOK(r2)
  BY <1>1, <1>3, <1>4, <1>5 DEF RingOK
<1>7. Unread(r2) = Append(Unread(r), l)
  <2>1. Unread(r) \in Seq(Lines) /\ Len(Unread(r)) = r.pos - r.dq
        /\ Unread(r2) \in Seq(Lines) /\ Len(Unread(r2)) = r.pos + 1 - r.dq
    <3>1. Unread(r2) \in Seq(Lines) /\ Len(Unread(r2)) = r2.pos - r2.dq
      BY <1>6, UnreadIs, Zenon
    <3>2. Unread(r) \in Seq(Lines) /\ Len(Unread(r)) = r.pos - r.dq
      BY UnreadIs, Zenon
    <3>3. r2.pos - r2.dq = r.pos + 1 - r.dq
      BY <1>1, <1>4
    <3> QED BY <3>1, <3>2, <3>3
  <2>2. \A i \in 1..(r.pos + 1 - r.dq) : Unread(r2)[i] = IF i <= r.pos - r.dq THEN Unread(r)[i] ELSE l
    <3> SUFFICES ASSUME NEW i \in 1..(r.pos + 1 - r.dq)
                 PROVE  Unread(r2)[i] = IF i <= r.pos - r.dq THEN Unread(r)[i] ELSE l
      OBVIOUS
    <3>1. PICK k \in Nat : k = r.dq + i - 1
      BY <1>1
    <3>2. Unread(r2)[i] = r2.storage[Cell(k)]
      <4>1. Unread(r2) = [m \in 1..(r2.pos - r2.dq) |-> r2.storage[Cell(r2.dq + m - 1)]]
        BY <1>6, UnreadIs, Zenon
      <4>2. r2.pos - r2.dq = r.pos + 1 - r.dq /\ r2.dq + i - 1 = k
        BY <1>1, <1>4, <3>1
      <4> QED BY <4>1, <4>2
    <3>3. i <= r.pos - r.dq => Unread(r)[i] = r.storage[Cell(k)]
      BY <1>1, <3>1, UnreadIs
    <3>4. r2.storage[Cell(k)] = IF k = r.pos THEN l ELSE r.storage[Cell(k)]
      BY <1>1, <1>3, <1>5, <3>1
    <3> QED BY <1>1, <3>1, <3>2, <3>3, <3>4
  <2>3. PICK a : a = Append(Unread(r), l)
    OBVIOUS
  <2>4. /\ a \in Seq(Lines) /\ Len(a) = r.pos - r.dq + 1
        /\ \A i \in 1..(r.pos - r.dq) : a[i] = Unread(r)[i]
        /\ a[r.pos - r.dq + 1] = l
    BY <2>1, <2>3, AppendProperties
  <2>5. Len(Unread(r2)) = Len(a) /\ \A i \in 1..Len(a) : Unread(r2)[i] = a[i]
    <3>1. PICK n \in Nat : n = r.pos - r.dq
      BY <1>1
    <3>2. n + 1 = r.pos + 1 - r.dq
      BY <1>1, <3>1
    <3>3. Len(a) = n + 1 /\ Len(Unread(r2)) = n + 1 /\ a[n + 1] = l
      <4>1. r.pos - r.dq + 1 = n + 1
        BY <3>1
      <4>2. Len(a) = n + 1 /\ a[n + 1] = l
        BY <2>4, <4>1, Zenon
      <4>3. Len(Unread(r2)) = n + 1
        BY <2>1, <3>2
      <4> QED BY <4>2, <4>3
    <3>4. \A i \in 1..(n + 1) : Unread(r2)[i] = IF i <= n THEN Unread(r)[i] ELSE l
      BY <2>2, <3>1, <3>2
    <3> QED BY <2>4, <3>1, <3>3, <3>4
  <2> QED BY <2>1, <2>3, <2>4, <2>5, SeqEqual
<1> QED BY <1>4, <1>6, <1>7 DEF r2

(* A turn dequeues at most what is there, oldest first, and frees its      *)
(* cells.                                                                  *)
LEMMA DequeueOK ==
  ASSUME NEW r, RingOK(r), NEW n \in Nat,
         \A k \in 0..(n - 1) : r.sequence[Cell(r.dq + k)] >= r.dq + k + 1
  PROVE  /\ RingOK(Dequeue(r, n)) /\ Oldest(r, n) \in Seq(Lines)
         /\ Unread(r) = Oldest(r, n) \o Unread(Dequeue(r, n))
         /\ Dequeue(r, n).generation = r.generation
<1> DEFINE r2 == Dequeue(r, n)
           off(c) == Cell(c - r.dq + Capacity * r.dq)
<1>1. r \in RingType /\ r.pos \in Nat /\ r.dq \in Nat /\ r.dq <= r.pos /\ r.pos <= r.dq + Capacity
      /\ Capacity \in Nat /\ Capacity >= 2
  BY CapacityOK DEF RingOK, RingType
<1>2. n <= r.pos - r.dq
  <2> SUFFICES ASSUME n > r.pos - r.dq PROVE FALSE
    BY <1>1
  <2>1. PICK k \in 0..(n - 1) : k = r.pos - r.dq
    BY <1>1
  <2>2. r.dq + k = r.pos
    BY <1>1, <2>1
  <2>3. r.sequence[Cell(r.pos)] >= r.pos + 1
    BY <2>1, <2>2
  <2>4. CASE r.pos < r.dq + Capacity
    BY <2>3, <2>4, <1>1 DEF RingOK
  <2>5. CASE r.pos = r.dq + Capacity
    <3>1. PICK q \in Int : r.dq = q * Capacity + Cell(r.dq)
      BY <1>1, CellIs
    <3>2. r.pos = (q + 1) * Capacity + Cell(r.dq)
      BY <2>5, <3>1, <1>1, TimesCapacity, CellIs
    <3>3. Cell(r.pos) = Cell(r.dq)
      <4>1. Cell(r.dq) \in 0..(Capacity - 1) /\ q + 1 \in Int
        BY <1>1, CellIs
      <4> QED BY <3>2, <1>1, <4>1, CellUnique, Zenon
    <3>4. r.sequence[Cell(r.dq)] = r.dq + 1
      BY <1>1, <2>5 DEF RingOK
    <3> QED BY <1>1, <2>3, <2>5, <3>3, <3>4
  <2> QED BY <1>1, <2>4, <2>5
<1>3. \A k \in Nat : r.dq <= k /\ k < r.dq + Capacity => off(Cell(k)) = k - r.dq
  <2> SUFFICES ASSUME NEW k \in Nat, r.dq <= k, k < r.dq + Capacity
               PROVE  off(Cell(k)) = k - r.dq
    OBVIOUS
  <2>1. PICK o \in Nat : o = off(Cell(k)) /\ o < Capacity /\ Cell(r.dq + o) = Cell(k)
    BY <1>1, CellIs, CellAhead
  <2>2. r.dq + o = k
    <3>1. r.dq + o \in Nat /\ (r.dq + o <= k => k < r.dq + o + Capacity)
          /\ (k <= r.dq + o => r.dq + o < k + Capacity)
      BY <1>1, <2>1
    <3>2. CASE r.dq + o <= k
      BY <2>1, <3>1, <3>2, CellsDiffer
    <3>3. CASE k <= r.dq + o
      BY <2>1, <3>1, <3>3, CellsDiffer
    <3> QED BY <3>1, <3>2, <3>3
  <2> QED BY <1>1, <2>1, <2>2
<1>4. /\ r2.pos = r.pos /\ r2.dq = r.dq + n /\ r2.generation = r.generation
      /\ r2.storage = r.storage
      /\ r2.sequence = [c \in 0..(Capacity - 1) |-> IF off(c) < n THEN r.dq + off(c) + Capacity
                                                    ELSE r.sequence[c]]
      /\ r2 \in RingType
  <2> DEFINE q == [c \in 0..(Capacity - 1) |-> IF off(c) < n THEN r.dq + off(c) + Capacity
                                               ELSE r.sequence[c]]
  <2>1. r2 = [r EXCEPT !.dq = r.dq + n, !.sequence = q]
    BY <1>1 DEF Dequeue, RingType
  <2>2. q \in [0..(Capacity - 1) -> Nat]
    <3> SUFFICES ASSUME NEW c \in 0..(Capacity - 1) PROVE q[c] \in Nat
      OBVIOUS
    <3>1. off(c) \in Nat /\ r.sequence[c] \in Nat
      BY <1>1, CellAhead DEF RingType
    <3> HIDE DEF off
    <3> QED BY <1>1, <3>1
  <2> HIDE DEF q
  <2>3. r2.pos = r.pos /\ r2.dq = r.dq + n /\ r2.generation = r.generation
        /\ r2.storage = r.storage /\ r2.sequence = q /\ r2 \in RingType
    <3>1. PICK d \in Nat : d = r.dq + n
      BY <1>1
    <3>2. r2 = [r EXCEPT !.dq = d, !.sequence = q]
      BY <2>1, <3>1
    <3> HIDE DEF r2
    <3> QED BY <1>1, <2>2, <3>1, <3>2 DEF RingType
  <2> QED BY <2>3 DEF q
<1>5. \A k \in Nat : r.dq <= k /\ k < r.dq + Capacity =>
         r2.sequence[Cell(k)] = IF k < r.dq + n THEN k + Capacity ELSE r.sequence[Cell(k)]
  <2> SUFFICES ASSUME NEW k \in Nat, r.dq <= k, k < r.dq + Capacity
               PROVE  r2.sequence[Cell(k)] = IF k < r.dq + n THEN k + Capacity ELSE r.sequence[Cell(k)]
    OBVIOUS
  <2>1. Cell(k) \in 0..(Capacity - 1) /\ off(Cell(k)) = k - r.dq
    BY <1>3, CellIs
  <2>2. r2.sequence[Cell(k)] = IF off(Cell(k)) < n THEN r.dq + off(Cell(k)) + Capacity
                               ELSE r.sequence[Cell(k)]
    BY <1>4, <2>1
  <2> HIDE DEF off, r2
  <2> QED BY <1>1, <2>1, <2>2
<1> HIDE DEF r2, off
<1>6. RingOK(r2)
  <2>1. \A k \in Nat : r2.dq <= k /\ k < r2.pos =>
           r2.sequence[Cell(k)] = k + 1 /\ r2.storage[Cell(k)] \in Lines
    BY <1>1, <1>4, <1>5 DEF RingOK
  <2>2. \A k \in Nat : r2.pos <= k /\ k < r2.dq + Capacity => r2.sequence[Cell(k)] = k
    <3> SUFFICES ASSUME NEW k \in Nat, r2.pos <= k, k < r2.dq + Capacity
                 PROVE  r2.sequence[Cell(k)] = k
      OBVIOUS
    <3>1. CASE k < r.dq + Capacity
      <4>1. r.dq <= k /\ ~(k < r.dq + n) /\ r.pos <= k
        BY <1>1, <1>2, <1>4
      <4>2. r2.sequence[Cell(k)] = r.sequence[Cell(k)]
        BY <1>5, <3>1, <4>1
      <4> QED BY <3>1, <4>1, <4>2 DEF RingOK
    <3>2. CASE k >= r.dq + Capacity
      <4>1. PICK j \in Nat : j = k - Capacity
        BY <1>1, <3>2
      <4>2. r.dq <= j /\ j < r.dq + n /\ k = j + Capacity /\ j < r.dq + Capacity
        BY <1>1, <1>2, <1>4, <3>2, <4>1
      <4>3. r2.sequence[Cell(j)] = k
        BY <1>1, <1>5, <4>2
      <4>4. Cell(k) = Cell(j)
        <5>1. PICK q \in Int : j = q * Capacity + Cell(j)
          BY CellIs
        <5>2. k = (q + 1) * Capacity + Cell(j)
          <6>1. (q + 1) * Capacity = q * Capacity + Capacity /\ q * Capacity \in Int
            BY <1>1
          <6>2. Cell(j) \in Nat
            BY CellIs
          <6> QED BY <4>2, <5>1, <6>1, <6>2, <1>1
        <5>3. Cell(j) \in 0..(Capacity - 1) /\ q + 1 \in Int
          BY CellIs
        <5> QED BY <5>2, <5>3, CellUnique, Zenon
      <4> QED BY <4>3, <4>4
    <3> QED BY <1>1, <3>1, <3>2
  <2>3. r2.dq <= r2.pos /\ r2.pos <= r2.dq + Capacity
    BY <1>1, <1>2, <1>4
  <2> QED BY <1>4, <2>1, <2>2, <2>3 DEF RingOK
<1>7. /\ Oldest(r, n) \in Seq(Lines) /\ Len(Oldest(r, n)) = n
      /\ \A i \in 1..n : Oldest(r, n)[i] = r.storage[Cell(r.dq + i - 1)]
  <2> DEFINE o == [k \in 1..n |-> r.storage[Cell(r.dq + k - 1)]]
  <2>1. \A i \in 1..n : o[i] \in Lines
    <3> SUFFICES ASSUME NEW i \in 1..n PROVE o[i] \in Lines
      OBVIOUS
    <3>1. r.dq + i - 1 \in Nat /\ r.dq <= r.dq + i - 1 /\ r.dq + i - 1 < r.pos
      BY <1>1, <1>2
    <3> QED BY <3>1 DEF RingOK
  <2>2. o \in Seq(Lines) /\ Len(o) = n
    BY <2>1
  <2> QED BY <2>2 DEF Oldest
<1>8. Unread(r) = Oldest(r, n) \o Unread(r2)
  <2>1. PICK a, b, c : a = Oldest(r, n) /\ b = Unread(r2) /\ c = a \o b
    OBVIOUS
  <2>2. a \in Seq(Lines) /\ b \in Seq(Lines) /\ Len(a) = n /\ Len(b) = r.pos - (r.dq + n)
    BY <1>4, <1>6, <1>7, <2>1, UnreadIs
  <2>3. c \in Seq(Lines) /\ Len(c) = r.pos - r.dq
        /\ \A i \in 1..(r.pos - r.dq) : c[i] = IF i <= n THEN a[i] ELSE b[i - n]
    <3>1. c \in Seq(Lines) /\ Len(c) = Len(a) + Len(b)
          /\ \A i \in 1..(Len(a) + Len(b)) : c[i] = IF i <= Len(a) THEN a[i] ELSE b[i - Len(a)]
      BY <2>1, <2>2, ConcatProperties
    <3>2. Len(a) + Len(b) = r.pos - r.dq
      BY <2>2, <1>1
    <3> QED BY <3>1, <3>2, <2>2
  <2>4. Unread(r) \in Seq(Lines) /\ Len(Unread(r)) = r.pos - r.dq
    BY UnreadIs
  <2>5. \A i \in 1..(r.pos - r.dq) : Unread(r)[i] = c[i]
    <3> SUFFICES ASSUME NEW i \in 1..(r.pos - r.dq) PROVE Unread(r)[i] = c[i]
      OBVIOUS
    <3>1. Unread(r)[i] = r.storage[Cell(r.dq + i - 1)]
      BY UnreadIs
    <3>2. CASE i <= n
      <4>1. i \in 1..n /\ c[i] = a[i]
        BY <2>3, <3>2, <1>1
      <4> QED BY <1>7, <2>1, <3>1, <4>1
    <3>3. CASE i > n
      <4>1. PICK j \in 1..(r2.pos - r2.dq) : j = i - n
        BY <1>1, <1>4, <3>3
      <4>2. b[j] = r2.storage[Cell(r2.dq + j - 1)]
        BY <1>6, <2>1, <4>1, UnreadIs
      <4>3. r2.dq + j - 1 = r.dq + i - 1
        BY <1>1, <1>4, <4>1
      <4>4. c[i] = b[j]
        BY <2>3, <3>3, <4>1, <1>1
      <4> QED BY <3>1, <4>2, <4>3, <4>4, <1>4
    <3> QED BY <3>2, <3>3
  <2> QED BY <2>1, <2>3, <2>4, <2>5, SeqEqual
<1> QED BY <1>4, <1>6, <1>7, <1>8 DEF r2

-----------------------------------------------------------------------------
(* The inductive invariant.                                                *)

Registered(s) == \E i \in DOMAIN m_slots : m_slots[i] = s
Inside == {"slot", "push", "claim"}
Running == {"open", "top", "poll", "idle"}

Types ==
    /\ script \in Scripts
    /\ m_running \in BOOLEAN /\ m_generation \in Nat /\ m_poll_index \in Nat
    /\ rings \in [Threads -> Seq(RingType)]
    /\ m_slots \in Seq(AllSlots)
    /\ pc \in [Threads -> {"idle", "start", "flushed"} \cup Inside]
    /\ next \in [Threads -> Nat]
    /\ consumer \in {"none", "drain", "handover", "done"} \cup Running
    /\ idx \in Nat /\ idx >= 1 /\ polled \in Nat
    /\ writer \in {"none", "lock", "write", "drowsy", "asleep", "leaving", "done"}
    /\ batch \in Seq(Lines) /\ m_fmt_buf \in Seq(Lines) /\ m_write_buf \in Seq(Lines)
    /\ buf \in Seq(Lines) /\ output \in Seq(Lines)
    /\ published \in SUBSET Lines

\* Lines are published in the order of their numbers.
Numbered ==
    /\ \A p \in Threads :
          /\ next[p] <= Len(script.lines[p])
          /\ pc[p] \notin {"idle", "flushed"} => next[p] >= 1
    /\ \A l \in published :
          /\ l[2] >= 1 /\ l[2] <= next[l[1]]
          /\ l[2] = next[l[1]] => pc[l[1]] \in {"idle", "flushed"}

Where(l) == {s \in AllSlots : Times(l, Unread(Ring(s))) = 1}
Outside(l) == Times(l, batch) + Times(l, m_fmt_buf) + Times(l, m_write_buf) + Times(l, buf)
              + Times(l, output)

\* Every published line is somewhere, once.
Counted ==
    /\ \A p \in Threads : \A k \in DOMAIN rings[p] : RingOK(rings[p][k])
    /\ \A s \in AllSlots, l \in Lines : Times(l, Unread(Ring(s))) <= 1
    /\ \A l \in Lines :
          /\ IsFiniteSet(Where(l))
          /\ Outside(l) + Cardinality(Where(l)) = IF l \in published THEN 1 ELSE 0

\* A logger is started before anybody uses it, and started again only after its
\* consumer has ended.
Life ==
    /\ lifecycle \in {None, "stop"}
    /\ m_running => lifecycle = None /\ consumer \in Running /\ m_generation >= 1
    /\ ~m_running /\ lifecycle = None => consumer \in {"none", "done"}
    /\ consumer = "none" <=> m_generation = 0
    /\ m_generation = 0 => \A p \in Threads : rings[p] = <<>>
    /\ \A p \in Threads : /\ pc[p] \in Inside => m_generation >= 1
                          /\ pc[p] \in {"push", "claim"} => rings[p] # <<>>
    /\ consumer = "poll" /\ m_slots # <<>> => idx <= Len(m_slots)

\* A slot of this life is registered before its thread uses it.
SlotsOK ==
    \A p \in Threads :
        /\ pc[p] = "push" => Unread(Ring(Mine(p))) = <<>>
        /\ \A k \in DOMAIN rings[p] :
              /\ rings[p][k].generation <= m_generation
              /\ rings[p][k].generation = m_generation =>
                    Registered(<<p, k>>) \/ (<<p, k>> = Mine(p) /\ pc[p] = "push")

Excused(s) == \A i \in DOMAIN Unread(Ring(s)) : Unread(Ring(s))[i] \in exposed

\* What may be left in a ring: the lines of calls that stop() overlapped.
Overlapped ==
    /\ \A p \in Threads :
          /\ pc[p] \in Inside /\ ~m_running => Line(p) \in exposed
          /\ pc[p] = "claim" /\ ~Registered(Mine(p)) => Line(p) \in exposed
    /\ \A s \in AllSlots : ~Registered(s) => Excused(s)
    /\ \A i \in DOMAIN m_slots :
          consumer \in {"handover", "done"} \/ (consumer = "drain" /\ i < idx) => Excused(m_slots[i])

\* In the first life the file is open when there is a line to write.
FileOpen ==
    m_generation <= 1 =>
        /\ misplaced = {}
        /\ consumer \in {"none", "open"} =>
              batch = <<>> /\ m_fmt_buf = <<>> /\ m_write_buf = <<>> /\ buf = <<>>
        /\ consumer \notin {"none", "open"} => m_log_fd \/ writer = "done"

IInv == Types /\ Numbered /\ Counted /\ Life /\ SlotsOK /\ Overlapped /\ FileOpen

-----------------------------------------------------------------------------
(* What each part depends on.                                              *)

LEMMA SameRings ==
  ASSUME UNCHANGED rings
  PROVE  /\ AllSlots' = AllSlots
         /\ \A s \in AllSlots : Ring(s)' = Ring(s)
         /\ \A s \in AllSlots : Unread(Ring(s))' = Unread(Ring(s))
         /\ \A s \in AllSlots : \A l : Times(l, Unread(Ring(s)))' = Times(l, Unread(Ring(s)))
         /\ \A p \in Threads : Mine(p)' = Mine(p)
         /\ \A l : Where(l)' = Where(l)
<1>1. AllSlots' = AllSlots /\ (\A s \in AllSlots : Ring(s)' = Ring(s))
  BY DEF AllSlots, Ring
<1>2. \A p \in Threads : Mine(p)' = Mine(p)
  BY DEF Mine
<1>3. ASSUME NEW l PROVE Where(l)' = Where(l)
  BY <1>1 DEF Where, Unread, Times
<1>4. \A s \in AllSlots : Unread(Ring(s))' = Unread(Ring(s))
  BY <1>1 DEF Unread
<1>5. \A s \in AllSlots : \A l : Times(l, Unread(Ring(s)))' = Times(l, Unread(Ring(s)))
  BY <1>4 DEF Times
<1> QED BY <1>1, <1>2, <1>3, <1>4, <1>5

LEMMA CountedMoves ==
  ASSUME Counted, UNCHANGED <<rings, published>>,
         \A l \in Lines : Outside(l)' = Outside(l)
  PROVE  Counted'
<1>1. \A p \in Threads : \A k \in DOMAIN rings[p] : RingOK(rings[p][k])'
  BY DEF Counted, RingOK, RingType
<1>2. \A s \in AllSlots', l \in Lines : (Times(l, Unread(Ring(s))) <= 1)'
  <2>1. \A s \in AllSlots, l \in Lines : Times(l, Unread(Ring(s)))' <= 1
    BY SameRings DEF Counted
  <2> QED BY <2>1, SameRings
<1>3. \A l \in Lines : /\ IsFiniteSet(Where(l)')
                       /\ Outside(l)' + Cardinality(Where(l)') = IF l \in published' THEN 1 ELSE 0
  BY SameRings DEF Counted
<1> QED BY <1>1, <1>2, <1>3 DEF Counted

LEMMA CountedFrame ==
  ASSUME Counted, UNCHANGED <<rings, published, batch, m_fmt_buf, m_write_buf, buf, output>>
  PROVE  Counted'
  BY CountedMoves DEF Outside, Times

LEMMA SlotsFrame ==
  ASSUME SlotsOK, UNCHANGED <<rings, m_slots, m_generation, pc>>
  PROVE  SlotsOK'
  BY DEF SlotsOK, Unread, Ring, Mine, Registered

LEMMA OverlappedFrame ==
  ASSUME Overlapped, Types,
         UNCHANGED <<rings, m_slots, exposed, consumer, idx, pc, next, m_running>>
  PROVE  Overlapped'
<1>1. \A s \in AllSlots : Excused(s)' = Excused(s)
  BY SameRings DEF Excused
<1>2. \A s : Registered(s)' = Registered(s)
  BY DEF Registered
<1>3. \A p \in Threads : Line(p)' = Line(p) /\ Mine(p)' = Mine(p)
  BY DEF Line, Mine
<1>4. \A s \in AllSlots' : ~Registered(s)' => Excused(s)'
  BY <1>1, <1>2, SameRings DEF Overlapped
<1>5. \A i \in DOMAIN m_slots : m_slots[i] \in AllSlots
  BY DEF Types
<1>6. \A i \in DOMAIN m_slots' :
         (consumer \in {"handover", "done"} \/ (consumer = "drain" /\ i < idx) => Excused(m_slots[i]))'
  <2> SUFFICES ASSUME NEW i \in DOMAIN m_slots,
                      consumer \in {"handover", "done"} \/ (consumer = "drain" /\ i < idx)
               PROVE  Excused(m_slots[i])'
    OBVIOUS
  <2>1. Excused(m_slots[i])
    BY DEF Overlapped
  <2>2. PICK s \in AllSlots : s = m_slots[i] /\ s = m_slots'[i]
    BY <1>5
  <2>3. Excused(s)'
    BY <1>1, <2>1, <2>2
  <2> QED BY <2>2, <2>3 DEF Excused, Ring
<1> QED BY <1>2, <1>3, <1>4, <1>6 DEF Overlapped

LEMMA LifeFrame ==
  ASSUME Life, UNCHANGED <<lifecycle, m_running, consumer, m_generation, rings, pc, m_slots, idx>>
  PROVE  Life'
  BY DEF Life

LEMMA NumberedFrame ==
  ASSUME Numbered, UNCHANGED <<script, next, pc, published>>
  PROVE  Numbered'
  BY DEF Numbered

LEMMA FileFrame ==
  ASSUME FileOpen,
         UNCHANGED <<m_generation, misplaced, consumer, batch, m_fmt_buf, m_write_buf, buf,
                     m_log_fd, writer>>
  PROVE  FileOpen'
  BY DEF FileOpen

LEMMA SlotsTyped ==
  ASSUME Types, UNCHANGED <<rings, m_slots>>
  PROVE  m_slots' \in Seq(AllSlots')
  BY SameRings DEF Types

LEMMA OverlappedSteps ==
  ASSUME Overlapped, Types, UNCHANGED <<rings, m_slots>>, exposed \subseteq exposed',
         \A p \in Threads :
            /\ pc'[p] \in Inside /\ ~m_running' => Line(p)' \in exposed'
            /\ pc'[p] = "claim" /\ ~Registered(Mine(p)) => Line(p)' \in exposed',
         \A i \in DOMAIN m_slots :
            consumer' \in {"handover", "done"} \/ (consumer' = "drain" /\ i < idx') => Excused(m_slots[i])
  PROVE  Overlapped'
<1>1. \A s \in AllSlots : Excused(s) => Excused(s)'
  BY SameRings DEF Excused
<1>2. \A s : Registered(s)' = Registered(s)
  BY DEF Registered
<1>3. \A p \in Threads : Registered(Mine(p))' = Registered(Mine(p))
  BY SameRings DEF Registered
<1>4. \A s \in AllSlots' : ~Registered(s)' => Excused(s)'
  BY <1>1, <1>2, SameRings DEF Overlapped
<1>5. \A i \in DOMAIN m_slots : m_slots[i] \in AllSlots
  BY DEF Types
<1>6. \A i \in DOMAIN m_slots' :
         (consumer \in {"handover", "done"} \/ (consumer = "drain" /\ i < idx) => Excused(m_slots[i]))'
  <2> SUFFICES ASSUME NEW i \in DOMAIN m_slots,
                      consumer' \in {"handover", "done"} \/ (consumer' = "drain" /\ i < idx')
               PROVE  Excused(m_slots[i])'
    OBVIOUS
  <2>1. Excused(m_slots[i])
    OBVIOUS
  <2>2. PICK s \in AllSlots : s = m_slots[i] /\ s = m_slots'[i]
    BY <1>5
  <2>3. Excused(s)'
    BY <1>1, <2>1, <2>2
  <2> QED BY <2>2, <2>3 DEF Excused, Ring
<1> QED BY <1>3, <1>4, <1>6 DEF Overlapped

\* A step of another thread than the consumer, or of the consumer before its end.
LEMMA OverlappedKeeps ==
  ASSUME Overlapped, Types, UNCHANGED <<rings, m_slots, exposed, pc, next, m_running>>,
         \/ consumer' = consumer /\ idx' = idx
         \/ consumer' \in Running
         \/ consumer' = "drain" /\ idx' = 1
  PROVE  Overlapped'
<1>1. \A p \in Threads : Line(p)' = Line(p)
  BY DEF Line
<1>2. \A i \in DOMAIN m_slots : i >= 1
  BY DEF Types
<1>3. \A i \in DOMAIN m_slots :
         consumer' \in {"handover", "done"} \/ (consumer' = "drain" /\ i < idx') => Excused(m_slots[i])
  <2>1. CASE consumer' = consumer /\ idx' = idx
    BY <2>1 DEF Overlapped
  <2>2. CASE consumer' \in Running
    BY <2>2 DEF Running
  <2>3. CASE consumer' = "drain" /\ idx' = 1
    BY <2>3, <1>2 DEF Types
  <2> QED BY <2>1, <2>2, <2>3
<1> QED BY <1>1, <1>3, OverlappedSteps DEF Overlapped
LEMMA SlotsSteps ==
  ASSUME SlotsOK, UNCHANGED <<rings, m_slots, m_generation>>,
         \A q \in Threads : pc'[q] = "push" <=> pc[q] = "push"
  PROVE  SlotsOK'
<1>1. \A q \in Threads : Unread(Ring(Mine(q)))' = Unread(Ring(Mine(q))) /\ Mine(q)' = Mine(q)
  BY DEF Unread, Ring, Mine
<1>2. \A s : Registered(s)' = Registered(s)
  BY DEF Registered
<1> QED BY <1>1, <1>2 DEF SlotsOK

-----------------------------------------------------------------------------
(* Steps that move no line.                                                *)

LEMMA LogCallInv == ASSUME IInv, NEW p \in Threads, LogCall(p) PROVE IInv'
<1>1. UNCHANGED <<script, m_running, m_generation, lifecycle, rings, m_slots, m_poll_index, consumer, idx, polled, batch, m_fmt_buf, m_write_buf, writer, buf, m_log_fd, output, misplaced, published, exposed>>
  BY DEF LogCall, LogStep, lifeVars, ringVars, logVars, pollVars, bufVars, fileVars, stopVars
<1>2. Types'
  <2>1. pc' \in [Threads -> {"idle", "start", "flushed"} \cup Inside] /\ next' \in [Threads -> Nat]
    BY DEF IInv, Types, Inside, LogCall, LogStep
  <2> QED BY <1>1, <2>1, SlotsTyped DEF IInv, Types
<1>3. Numbered'
  <2>1. pc[p] = "idle" /\ pc'[p] \in {"slot", "start"} /\ next[p] < Len(script.lines[p])
        /\ next[p] \in Nat /\ Len(script.lines[p]) \in Nat
    BY ScriptsAssumption DEF IInv, Types, LogCall, LogStep
  <2>2. \A q \in Threads : next'[q] = (IF q = p THEN next[p] + 1 ELSE next[q])
                            /\ (q # p => pc'[q] = pc[q])
    BY DEF IInv, Types, LogCall, LogStep
  <2>3. \A q \in Threads : next'[q] <= Len(script.lines[q]) /\ (pc'[q] \notin {"idle", "flushed"} => next'[q] >= 1)
    BY <2>1, <2>2 DEF IInv, Numbered
  <2>4. ASSUME NEW l \in published
        PROVE  /\ l[2] >= 1 /\ l[2] <= next'[l[1]]
               /\ l[2] = next'[l[1]] => pc'[l[1]] \in {"idle", "flushed"}
    <3>1. l[1] \in Threads /\ l[2] \in Nat /\ next[l[1]] \in Nat
      BY DEF IInv, Types, Lines
    <3>2. l[2] >= 1 /\ l[2] <= next[l[1]] /\ (l[2] = next[l[1]] => pc[l[1]] \in {"idle", "flushed"})
      BY DEF IInv, Numbered
    <3> QED BY <2>1, <2>2, <3>1, <3>2
  <2> QED BY <1>1, <2>3, <2>4 DEF Numbered
<1>4. Counted'
  BY <1>1, CountedFrame DEF IInv
<1>5. Life'
  <2>1. pc[p] = "idle" /\ pc'[p] = (IF m_running THEN "slot" ELSE "start")
    BY DEF IInv, Types, LogCall, LogStep
  <2>2. \A q \in Threads : q # p => pc'[q] = pc[q]
    BY DEF IInv, Types, LogCall, LogStep
  <2> QED BY <1>1, <2>1, <2>2 DEF IInv, Life, Inside
<1>6. SlotsOK'
  <2>1. \A q \in Threads : pc'[q] = "push" <=> pc[q] = "push"
    BY DEF IInv, Types, LogCall, LogStep
  <2> QED BY <1>1, <2>1, SlotsSteps DEF IInv
<1>7. Overlapped'
  BY <1>1, OverlappedSteps DEF IInv, Overlapped, Types, LogCall, LogStep, Line, Inside, Life
<1>8. FileOpen'
  BY <1>1, FileFrame DEF IInv
<1> QED BY <1>2, <1>3, <1>4, <1>5, <1>6, <1>7, <1>8 DEF IInv

LEMMA FlushInv == ASSUME IInv, NEW p \in Threads, Flush(p) PROVE IInv'
<1>1. UNCHANGED <<script, m_running, m_generation, lifecycle, rings, m_slots, m_poll_index, next, consumer, idx, polled, batch, m_fmt_buf, m_write_buf, writer, buf, m_log_fd, output, misplaced, published, exposed>>
  BY DEF Flush, LogStep, lifeVars, ringVars, logVars, pollVars, bufVars, fileVars, stopVars
<1>2. Types'
  BY <1>1, SlotsTyped DEF IInv, Types, Running, Inside, Flush, LogStep
<1>3. Numbered'
  BY <1>1, LoggerAssumption DEF IInv, Numbered, Types, Running, Inside, Flush, LogStep
<1>4. Counted'
  BY <1>1, CountedFrame DEF IInv
<1>5. Life'
  <2>1. \A q \in Threads : pc'[q] = pc[q] \/ pc'[q] = "flushed"
    BY DEF IInv, Types, Flush, LogStep
  <2> QED BY <1>1, <2>1 DEF IInv, Life, Inside
<1>6. SlotsOK'
  <2>1. \A q \in Threads : pc'[q] = "push" <=> pc[q] = "push"
    BY DEF IInv, Types, Flush, LogStep
  <2> QED BY <1>1, <2>1, SlotsSteps DEF IInv
<1>7. Overlapped'
  BY <1>1, OverlappedSteps DEF IInv, Overlapped, Types, Flush, LogStep, Line, Inside
<1>8. FileOpen'
  BY <1>1, FileFrame DEF IInv
<1> QED BY <1>2, <1>3, <1>4, <1>5, <1>6, <1>7, <1>8 DEF IInv

LEMMA OpenLogFileInv == ASSUME IInv, OpenLogFile PROVE IInv'
<1>1. UNCHANGED <<script, m_running, m_generation, lifecycle, rings, m_slots, m_poll_index, pc, next, idx, polled, batch, m_fmt_buf, m_write_buf, writer, buf, output, misplaced, published, exposed>>
  BY DEF OpenLogFile, ConsumerStep, lifeVars, ringVars, logVars, pollVars, bufVars, fileVars, stopVars
<1>2. Types'
  BY <1>1, SlotsTyped DEF IInv, Types, Running, Inside, OpenLogFile, ConsumerStep
<1>3. Numbered'
  BY <1>1, NumberedFrame DEF IInv
<1>4. Counted'
  BY <1>1, CountedFrame DEF IInv
<1>5. Life'
  BY <1>1, LoggerAssumption DEF IInv, Life, Types, Running, Inside, OpenLogFile, ConsumerStep
<1>6. SlotsOK'
  BY <1>1, SlotsFrame DEF IInv
<1>7. Overlapped'
  BY <1>1, OverlappedKeeps DEF IInv, OpenLogFile, ConsumerStep, Running
<1>8. FileOpen'
  BY <1>1, LoggerAssumption DEF IInv, FileOpen, Types, Running, Inside, OpenLogFile, ConsumerStep
<1> QED BY <1>2, <1>3, <1>4, <1>5, <1>6, <1>7, <1>8 DEF IInv

LEMMA ConsumerTopInv == ASSUME IInv, ConsumerTop PROVE IInv'
<1>1. UNCHANGED <<script, m_running, m_generation, lifecycle, rings, m_slots, m_poll_index, pc, next, polled, batch, m_fmt_buf, m_write_buf, writer, buf, m_log_fd, output, misplaced, published, exposed>>
  BY DEF ConsumerTop, ConsumerStep, lifeVars, ringVars, logVars, pollVars, bufVars, fileVars, stopVars
<1>2. Types'
  BY <1>1, SlotsTyped DEF IInv, Types, Running, Inside, ConsumerTop, ConsumerStep
<1>3. Numbered'
  BY <1>1, NumberedFrame DEF IInv
<1>4. Counted'
  BY <1>1, CountedFrame DEF IInv
<1>5. Life'
  BY <1>1, LoggerAssumption DEF IInv, Life, Types, Running, Inside, ConsumerTop, ConsumerStep
<1>6. SlotsOK'
  BY <1>1, SlotsFrame DEF IInv
<1>7. Overlapped'
  BY <1>1, OverlappedKeeps DEF IInv, ConsumerTop, ConsumerStep, Running
<1>8. FileOpen'
  BY <1>1, LoggerAssumption DEF IInv, FileOpen, Types, Running, Inside, ConsumerTop, ConsumerStep
<1> QED BY <1>2, <1>3, <1>4, <1>5, <1>6, <1>7, <1>8 DEF IInv

LEMMA IdleInv == ASSUME IInv, Idle PROVE IInv'
<1>1. UNCHANGED <<script, m_running, m_generation, lifecycle, rings, m_slots, m_poll_index, pc, next, idx, polled, batch, m_fmt_buf, m_write_buf, buf, m_log_fd, output, misplaced, published, exposed>>
  BY DEF Idle, ConsumerStep, NotifyWriter, lifeVars, ringVars, logVars, pollVars, bufVars, fileVars, stopVars
<1>2. Types'
  BY <1>1, SlotsTyped DEF IInv, Types, Running, Inside, Idle, ConsumerStep, NotifyWriter
<1>3. Numbered'
  BY <1>1, NumberedFrame DEF IInv
<1>4. Counted'
  BY <1>1, CountedFrame DEF IInv
<1>5. Life'
  BY <1>1, LoggerAssumption DEF IInv, Life, Types, Running, Inside, Idle, ConsumerStep, NotifyWriter
<1>6. SlotsOK'
  BY <1>1, SlotsFrame DEF IInv
<1>7. Overlapped'
  BY <1>1, OverlappedKeeps DEF IInv, Idle, ConsumerStep, Running
<1>8. FileOpen'
  BY <1>1, LoggerAssumption DEF IInv, FileOpen, Types, Running, Inside, Idle, ConsumerStep, NotifyWriter
<1> QED BY <1>2, <1>3, <1>4, <1>5, <1>6, <1>7, <1>8 DEF IInv

LEMMA WriterSleepsInv == ASSUME IInv, WriterSleeps PROVE IInv'
<1>1. UNCHANGED <<script, m_running, m_generation, lifecycle, rings, m_slots, m_poll_index, pc, next, consumer, idx, polled, batch, m_fmt_buf, m_write_buf, buf, m_log_fd, output, misplaced, published, exposed>>
  BY DEF WriterSleeps, WriterStep, lifeVars, ringVars, logVars, pollVars, bufVars, fileVars, stopVars
<1>2. Types'
  BY <1>1, SlotsTyped DEF IInv, Types, Running, Inside, WriterSleeps, WriterStep
<1>3. Numbered'
  BY <1>1, NumberedFrame DEF IInv
<1>4. Counted'
  BY <1>1, CountedFrame DEF IInv
<1>5. Life'
  BY <1>1, LifeFrame DEF IInv
<1>6. SlotsOK'
  BY <1>1, SlotsFrame DEF IInv
<1>7. Overlapped'
  BY <1>1, OverlappedFrame DEF IInv
<1>8. FileOpen'
  BY <1>1, LoggerAssumption DEF IInv, FileOpen, Types, Running, Inside, WriterSleeps, WriterStep
<1> QED BY <1>2, <1>3, <1>4, <1>5, <1>6, <1>7, <1>8 DEF IInv

LEMMA CloseLogFileInv == ASSUME IInv, CloseLogFile PROVE IInv'
<1>1. UNCHANGED <<script, m_running, m_generation, lifecycle, rings, m_slots, m_poll_index, pc, next, consumer, idx, polled, batch, m_fmt_buf, m_write_buf, buf, output, misplaced, published, exposed>>
  BY DEF CloseLogFile, WriterStep, lifeVars, ringVars, logVars, pollVars, bufVars, fileVars, stopVars
<1>2. Types'
  BY <1>1, SlotsTyped DEF IInv, Types, Running, Inside, CloseLogFile, WriterStep
<1>3. Numbered'
  BY <1>1, NumberedFrame DEF IInv
<1>4. Counted'
  BY <1>1, CountedFrame DEF IInv
<1>5. Life'
  BY <1>1, LifeFrame DEF IInv
<1>6. SlotsOK'
  BY <1>1, SlotsFrame DEF IInv
<1>7. Overlapped'
  BY <1>1, OverlappedFrame DEF IInv
<1>8. FileOpen'
  BY <1>1, LoggerAssumption DEF IInv, FileOpen, Types, Running, Inside, CloseLogFile, WriterStep
<1> QED BY <1>2, <1>3, <1>4, <1>5, <1>6, <1>7, <1>8 DEF IInv

LEMMA StopFlagInv == ASSUME IInv, StopFlag PROVE IInv'
<1>1. UNCHANGED <<script, m_generation, rings, m_slots, m_poll_index, pc, next, consumer, idx, polled, batch, m_fmt_buf, m_write_buf, writer, buf, m_log_fd, output, misplaced, published>>
  BY DEF StopFlag, StopStep, lifeVars, ringVars, logVars, pollVars, bufVars, fileVars, stopVars
<1>2. Types'
  BY <1>1, SlotsTyped DEF IInv, Types, Running, Inside, StopFlag, StopStep
<1>3. Numbered'
  BY <1>1, NumberedFrame DEF IInv
<1>4. Counted'
  BY <1>1, CountedFrame DEF IInv
<1>5. Life'
  BY <1>1, LoggerAssumption DEF IInv, Life, Types, Running, Inside, StopFlag, StopStep
<1>6. SlotsOK'
  BY <1>1, SlotsFrame DEF IInv
<1>7. Overlapped'
  BY <1>1, OverlappedSteps DEF IInv, Overlapped, Types, StopFlag, InsideLog, Line, Inside
<1>8. FileOpen'
  BY <1>1, FileFrame DEF IInv
<1> QED BY <1>2, <1>3, <1>4, <1>5, <1>6, <1>7, <1>8 DEF IInv

LEMMA StopNotifyInv == ASSUME IInv, StopNotify PROVE IInv'
<1>1. UNCHANGED <<script, m_running, m_generation, lifecycle, rings, m_slots, m_poll_index, pc, next, consumer, idx, polled, batch, m_fmt_buf, m_write_buf, buf, m_log_fd, output, misplaced, published, exposed>>
  BY DEF StopNotify, StopStep, NotifyWriter, lifeVars, ringVars, logVars, pollVars, bufVars, fileVars, stopVars
<1>2. Types'
  BY <1>1, SlotsTyped DEF IInv, Types, Running, Inside, StopNotify, StopStep, NotifyWriter
<1>3. Numbered'
  BY <1>1, NumberedFrame DEF IInv
<1>4. Counted'
  BY <1>1, CountedFrame DEF IInv
<1>5. Life'
  BY <1>1, LifeFrame DEF IInv
<1>6. SlotsOK'
  BY <1>1, SlotsFrame DEF IInv
<1>7. Overlapped'
  BY <1>1, OverlappedFrame DEF IInv
<1>8. FileOpen'
  BY <1>1, LoggerAssumption DEF IInv, FileOpen, Types, Running, Inside, StopNotify, StopStep, NotifyWriter
<1> QED BY <1>2, <1>3, <1>4, <1>5, <1>6, <1>7, <1>8 DEF IInv

LEMMA StopJoinInv == ASSUME IInv, StopJoin PROVE IInv'
<1>1. UNCHANGED <<script, m_running, m_generation, rings, m_slots, m_poll_index, pc, next, consumer, idx, polled, batch, m_fmt_buf, m_write_buf, writer, buf, m_log_fd, output, misplaced, published, exposed>>
  BY DEF StopJoin, StopStep, lifeVars, ringVars, logVars, pollVars, bufVars, fileVars, stopVars
<1>2. Types'
  BY <1>1, SlotsTyped DEF IInv, Types, Running, Inside, StopJoin, StopStep
<1>3. Numbered'
  BY <1>1, NumberedFrame DEF IInv
<1>4. Counted'
  BY <1>1, CountedFrame DEF IInv
<1>5. Life'
  BY <1>1, LoggerAssumption DEF IInv, Life, Types, Running, Inside, StopJoin, StopStep
<1>6. SlotsOK'
  BY <1>1, SlotsFrame DEF IInv
<1>7. Overlapped'
  BY <1>1, OverlappedFrame DEF IInv
<1>8. FileOpen'
  BY <1>1, FileFrame DEF IInv
<1> QED BY <1>2, <1>3, <1>4, <1>5, <1>6, <1>7, <1>8 DEF IInv

LEMMA StartInv == ASSUME IInv, NEW p \in Threads, Start(p) PROVE IInv'
<1>1. UNCHANGED <<script, lifecycle, rings, next, idx, polled, batch, m_fmt_buf, m_write_buf, buf, m_log_fd,
                  output, misplaced, published, exposed>>
  BY DEF Start, LogStep, lifeVars, ringVars, logVars, pollVars, bufVars, fileVars, stopVars
<1>2. pc[p] = "start" /\ pc'[p] = "slot" /\ (\A q \in Threads : q # p => pc'[q] = pc[q])
      /\ pc' \in [Threads -> {"idle", "start", "flushed"} \cup Inside] /\ lifecycle = None
  BY DEF IInv, Types, Inside, Start, LogStep
<1>3. CASE m_running
  <2>1. UNCHANGED <<m_running, m_generation, m_slots, m_poll_index, consumer, writer>>
    BY <1>3 DEF Start, lifeVars, ringVars
  <2>2. Types'
    BY <1>1, <1>2, <2>1, SlotsTyped DEF IInv, Types
  <2>3. Numbered'
    BY <1>1, <1>2 DEF IInv, Numbered, Types, Lines
  <2>4. Counted'
    BY <1>1, CountedFrame DEF IInv
  <2>5. Life'
    BY <1>1, <1>2, <1>3, <2>1 DEF IInv, Life, Inside
  <2>6. SlotsOK'
    BY <1>1, <1>2, <2>1, SlotsSteps DEF IInv
  <2>7. Overlapped'
    BY <1>1, <1>2, <1>3, <2>1, OverlappedSteps DEF IInv, Overlapped, Line
  <2>8. FileOpen'
    BY <1>1, <2>1, FileFrame DEF IInv
  <2> QED BY <2>2, <2>3, <2>4, <2>5, <2>6, <2>7, <2>8 DEF IInv
<1>4. CASE ~m_running
  <2>1. m_slots' = <<>> /\ m_poll_index' = 0 /\ m_generation' = m_generation + 1 /\ m_running' = TRUE
        /\ consumer' = "open" /\ writer' = "lock"
    BY <1>4 DEF Start
  <2>2. consumer \in {"none", "done"}
    BY <1>2, <1>4 DEF IInv, Life
  <2>3. Types'
    <3>1. m_slots' \in Seq(AllSlots')
      BY <2>1
    <3> QED BY <1>1, <1>2, <2>1, <3>1 DEF IInv, Types, Running
  <2>4. Numbered'
    BY <1>1, <1>2 DEF IInv, Numbered, Types, Lines
  <2>5. Counted'
    BY <1>1, CountedFrame DEF IInv
  <2>6. Life'
    BY <1>1, <1>2, <2>1 DEF IInv, Life, Inside, Running, Types
  <2>7. SlotsOK'
    <3>1. \A q \in Threads : \A k \in DOMAIN rings[q] :
             rings[q][k].generation \in Nat /\ rings[q][k].generation <= m_generation
      BY DEF IInv, SlotsOK, Counted, RingOK, RingType
    <3>2. \A q \in Threads : \A k \in DOMAIN rings[q] :
             rings[q][k].generation <= m_generation' /\ rings[q][k].generation # m_generation'
      BY <2>1, <3>1 DEF IInv, Types
    <3>3. \A q \in Threads : pc'[q] = "push" => Unread(Ring(Mine(q)))' = <<>>
      BY <1>1, <1>2 DEF IInv, SlotsOK, Unread, Ring, Mine
    <3> QED BY <1>1, <3>2, <3>3 DEF SlotsOK
  <2>8. Overlapped'
    <3>1. \A s \in AllSlots : Excused(s)
      <4> SUFFICES ASSUME NEW s \in AllSlots, Registered(s) PROVE Excused(s)
        BY DEF IInv, Overlapped
      <4>1. consumer # "none"
        BY DEF AllSlots, IInv, Life
      <4> QED BY <2>2, <4>1 DEF IInv, Overlapped, Registered
    <3>2. \A s \in AllSlots : Excused(s)'
      BY <1>1, <3>1, SameRings DEF Excused
    <3>3. \A q \in Threads : pc'[q] = "claim" => Line(q)' \in exposed
      BY <1>1, <1>2, <1>4 DEF IInv, Overlapped, Inside, Line
    <3> QED BY <1>1, <2>1, <3>2, <3>3, SameRings DEF Overlapped
  <2>9. FileOpen'
    BY <1>1, <2>1 DEF IInv, FileOpen, Types, Life
  <2> QED BY <2>3, <2>4, <2>5, <2>6, <2>7, <2>8, <2>9 DEF IInv
<1> QED BY <1>3, <1>4

LEMMA SlotOf ==
  /\ \A s \in AllSlots : /\ s[1] \in Threads /\ s[2] \in DOMAIN rings[s[1]] /\ s = <<s[1], s[2]>>
                         /\ Ring(s) = rings[s[1]][s[2]]
  /\ \A p \in Threads : \A k \in DOMAIN rings[p] : <<p, k>> \in AllSlots /\ Ring(<<p, k>>) = rings[p][k]
  BY DEF AllSlots, Ring

LEMMA MineIs ==
  ASSUME Types, NEW p \in Threads, rings[p] # <<>>
  PROVE  Mine(p) \in AllSlots /\ Len(rings[p]) \in DOMAIN rings[p] /\ Mine(p) = <<p, Len(rings[p])>>
<1>1. Len(rings[p]) \in DOMAIN rings[p]
  <2>1. rings[p] \in Seq(RingType)
    BY DEF Types
  <2> QED BY <2>1, EmptySeq
<1> QED BY <1>1, SlotOf DEF Mine

LEMMA PushSlotInv == ASSUME IInv, NEW p \in Threads, PushSlot(p) PROVE IInv'
<1>1. UNCHANGED <<script, m_running, m_generation, lifecycle, rings, m_poll_index, next, consumer, idx, polled,
                  batch, m_fmt_buf, m_write_buf, writer, buf, m_log_fd, output, misplaced, published, exposed>>
  BY DEF PushSlot, LogStep, lifeVars, pollVars, bufVars, fileVars, stopVars
<1>2. pc[p] = "push" /\ pc'[p] = "claim" /\ (\A q \in Threads : q # p => pc'[q] = pc[q])
      /\ pc' \in [Threads -> {"idle", "start", "flushed"} \cup Inside]
      /\ consumer \notin {"poll", "drain"} /\ m_slots' = Append(m_slots, Mine(p))
  BY DEF IInv, Types, Inside, PushSlot, LogStep
<1>3. Mine(p) \in AllSlots
  BY <1>2, MineIs DEF IInv, Life
<1>4. /\ m_slots' \in Seq(AllSlots) /\ DOMAIN m_slots' = 1..(Len(m_slots) + 1) /\ Len(m_slots) \in Nat
      /\ DOMAIN m_slots = 1..Len(m_slots)
      /\ \A i \in DOMAIN m_slots : m_slots'[i] = m_slots[i]
      /\ m_slots'[Len(m_slots) + 1] = Mine(p)
  BY <1>2, <1>3, AppendProperties DEF IInv, Types
<1>5. (\A s : Registered(s) => Registered(s)') /\ \A s : s = Mine(p) => Registered(s)'
  BY <1>4 DEF Registered
<1>6. Types'
  BY <1>1, <1>2, <1>4, SameRings DEF IInv, Types
<1>7. Numbered'
  BY <1>1, <1>2 DEF IInv, Numbered, Types, Lines
<1>8. Counted'
  BY <1>1, CountedFrame DEF IInv
<1>9. Life'
  BY <1>1, <1>2 DEF IInv, Life, Inside
<1>10. SlotsOK'
  <2>1. \A q \in Threads : Unread(Ring(Mine(q)))' = Unread(Ring(Mine(q))) /\ Mine(q)' = Mine(q)
    BY <1>1 DEF Unread, Ring, Mine
  <2> QED BY <1>1, <1>2, <1>5, <2>1 DEF IInv, SlotsOK
<1>11. Overlapped'
  <2>1. \A s \in AllSlots : Excused(s) => Excused(s)'
    BY <1>1, SameRings DEF Excused
  <2>2. \A q \in Threads : Line(q)' = Line(q) /\ Mine(q)' = Mine(q)
    BY <1>1 DEF Line, Mine
  <2>3. \A q \in Threads :
           /\ pc'[q] \in Inside /\ ~m_running' => Line(q)' \in exposed'
           /\ pc'[q] = "claim" /\ ~Registered(Mine(q))' => Line(q)' \in exposed'
    <3> SUFFICES ASSUME NEW q \in Threads
                 PROVE  /\ pc'[q] \in Inside /\ ~m_running' => Line(q)' \in exposed'
                        /\ pc'[q] = "claim" /\ ~Registered(Mine(q))' => Line(q)' \in exposed'
      OBVIOUS
    <3>1. Registered(Mine(q)) => Registered(Mine(q))'
      BY <1>4, <2>2 DEF Registered
    <3>2. Registered(Mine(p))'
      BY <1>4, <2>2 DEF Registered
    <3>3. CASE q = p
      BY <1>1, <1>2, <2>2, <3>2, <3>3 DEF IInv, Overlapped, Inside
    <3>4. CASE q # p
      BY <1>1, <1>2, <2>2, <3>1, <3>4 DEF IInv, Overlapped, Inside
    <3> QED BY <3>3, <3>4
  <2>4. \A s \in AllSlots' : ~Registered(s)' => Excused(s)'
    BY <1>1, <1>5, <2>1, SameRings DEF IInv, Overlapped
  <2>5. Excused(Mine(p))
    BY <1>2 DEF IInv, SlotsOK, Excused
  <2>6. \A i \in DOMAIN m_slots' :
           (consumer \in {"handover", "done"} \/ (consumer = "drain" /\ i < idx) => Excused(m_slots[i]))'
    <3> SUFFICES ASSUME NEW i \in DOMAIN m_slots', consumer \in {"handover", "done"}
                 PROVE  Excused(m_slots[i])'
      BY <1>1, <1>2
    <3>1. \A s \in AllSlots : s = m_slots'[i] /\ Excused(s)' => Excused(m_slots[i])'
      BY DEF Excused, Ring
    <3>2. CASE i \in DOMAIN m_slots
      <4>1. PICK s \in AllSlots : s = m_slots[i]
        BY <3>2 DEF IInv, Types
      <4>2. Excused(s)
        BY <3>2, <4>1 DEF IInv, Overlapped
      <4> QED BY <1>4, <2>1, <3>1, <3>2, <4>1, <4>2
    <3>3. CASE i = Len(m_slots) + 1
      <4>1. PICK s \in AllSlots : s = Mine(p)
        BY <1>3
      <4> QED BY <1>4, <2>1, <2>5, <3>1, <3>3, <4>1
    <3> QED BY <1>4, <3>2, <3>3
  <2> QED BY <2>3, <2>4, <2>6 DEF Overlapped
<1>12. FileOpen'
  BY <1>1, FileFrame DEF IInv
<1> QED BY <1>6, <1>7, <1>8, <1>9, <1>10, <1>11, <1>12 DEF IInv

LEMMA FindSlotInv == ASSUME IInv, NEW p \in Threads, FindSlot(p) PROVE IInv'
<1>1. UNCHANGED <<script, m_running, m_generation, lifecycle, m_slots, m_poll_index, next, consumer, idx, polled,
                  batch, m_fmt_buf, m_write_buf, writer, buf, m_log_fd, output, misplaced, published, exposed>>
  BY DEF FindSlot, LogStep, lifeVars, pollVars, bufVars, fileVars, stopVars
<1> DEFINE mine == rings[p] # <<>> /\ Ring(Mine(p)).generation = m_generation
<1>2. pc[p] = "slot" /\ pc'[p] = (IF mine THEN "claim" ELSE "push")
      /\ (\A q \in Threads : q # p => pc'[q] = pc[q])
      /\ pc' \in [Threads -> {"idle", "start", "flushed"} \cup Inside]
  BY DEF IInv, Types, Inside, FindSlot, LogStep
<1>3. Numbered'
  BY <1>1, <1>2 DEF IInv, Numbered, Types, Lines
<1>4. FileOpen'
  BY <1>1, FileFrame DEF IInv
<1>5. \A k \in DOMAIN rings[p] : rings[p][k].generation = m_generation => Registered(<<p, k>>)
  BY <1>2 DEF IInv, SlotsOK
<1>6. CASE mine
  <2>1. UNCHANGED rings
    BY <1>6 DEF FindSlot
  <2>2. Types'
    BY <1>1, <1>2, <2>1, SlotsTyped DEF IInv, Types
  <2>3. Counted'
    BY <1>1, <2>1, CountedFrame DEF IInv
  <2>4. Life'
    BY <1>1, <1>2, <1>6, <2>1 DEF IInv, Life, Inside
  <2>5. SlotsOK'
    BY <1>1, <1>2, <1>6, <2>1, SlotsSteps DEF IInv
  <2>6. Overlapped'
    <3>1. Registered(Mine(p))
      BY <1>5, <1>6, MineIs, SlotOf DEF IInv
    <3> QED BY <1>1, <1>2, <2>1, <3>1, OverlappedSteps DEF IInv, Overlapped, Line, Inside
  <2> QED BY <1>3, <1>4, <2>2, <2>3, <2>4, <2>5, <2>6 DEF IInv
<1>7. CASE ~mine
  <2> DEFINE n == Len(rings[p])
             fresh == NewRing(m_generation)
  <2> PICK new : new = <<p, n + 1>>
    OBVIOUS
  <2>1. rings' = [rings EXCEPT ![p] = Append(rings[p], fresh)] /\ pc'[p] = "push"
    BY <1>2, <1>7 DEF FindSlot
  <2>2. RingOK(fresh) /\ fresh \in RingType /\ Unread(fresh) = <<>> /\ fresh.generation = m_generation
    BY NewRingOK DEF RingOK, IInv, Types
  <2> HIDE DEF fresh, mine
  <2>3. n \in Nat /\ DOMAIN rings[p] = 1..n /\ rings \in [Threads -> Seq(RingType)]
    BY DEF IInv, Types
  <2>4. /\ rings' \in [Threads -> Seq(RingType)]
        /\ DOMAIN rings'[p] = 1..(n + 1) /\ rings'[p][n + 1] = fresh /\ Len(rings'[p]) = n + 1
        /\ \A k \in DOMAIN rings[p] : rings'[p][k] = rings[p][k]
        /\ \A q \in Threads : q # p => rings'[q] = rings[q]
    <3>1. PICK a : a = Append(rings[p], fresh)
      OBVIOUS
    <3>2. a \in Seq(RingType) /\ Len(a) = n + 1 /\ DOMAIN a = 1..(n + 1) /\ a[n + 1] = fresh
          /\ \A k \in 1..n : a[k] = rings[p][k]
      BY <2>2, <2>3, <3>1, AppendProperties
    <3> QED BY <2>1, <2>3, <3>1, <3>2
  <2> HIDE DEF n
  <2>5. AllSlots' = AllSlots \cup {new} /\ new \notin AllSlots
    BY <2>3, <2>4 DEF AllSlots
  <2>6. Ring(new)' = fresh /\ Unread(Ring(new))' = <<>>
    <3>1. Ring(new)' = fresh
      BY <2>4 DEF Ring
    <3> QED BY <3>1, <2>2 DEF Unread
  <2>7. \A s \in AllSlots : Ring(s)' = Ring(s) /\ Unread(Ring(s))' = Unread(Ring(s))
    <3>1. \A s \in AllSlots : Ring(s)' = Ring(s)
      <4> SUFFICES ASSUME NEW s \in AllSlots PROVE rings'[s[1]][s[2]] = rings[s[1]][s[2]]
        BY DEF Ring
      <4> QED BY <2>4, SlotOf
    <3> QED BY <3>1 DEF Unread
  <2>8. (\A q \in Threads : q # p => Mine(q)' = Mine(q)) /\ Mine(p)' = new
    BY <2>4 DEF Mine
  <2>9. \A s : Registered(s)' = Registered(s)
    BY <1>1 DEF Registered
  <2>10. Types'
    <3>1. m_slots' \in Seq(AllSlots')
      BY <1>1, <2>5 DEF IInv, Types
    <3> QED BY <1>1, <1>2, <2>4, <3>1 DEF IInv, Types
  <2>11. Counted'
    <3>1. ASSUME NEW q \in Threads, NEW k \in DOMAIN rings'[q] PROVE RingOK(rings'[q][k])
      <4>1. CASE q # p
        <5>1. rings'[q] = rings[q]
          BY <2>4, <4>1
        <5> QED BY <5>1 DEF IInv, Counted
      <4>2. CASE q = p /\ k = n + 1
        BY <2>2, <2>4, <4>2
      <4>3. CASE q = p /\ k # n + 1
        <5>1. k \in DOMAIN rings[p] /\ rings'[q][k] = rings[p][k]
          BY <2>3, <2>4, <4>3
        <5> QED BY <5>1 DEF IInv, Counted
      <4> QED BY <4>1, <4>2, <4>3
    <3>2. \A l : Times(l, Unread(Ring(new)))' = 0
      BY <2>6, TimesEmpty DEF Times
    <3>3. \A s \in AllSlots : \A l : Times(l, Unread(Ring(s)))' = Times(l, Unread(Ring(s)))
      BY <2>7 DEF Times
    <3>4. \A l : Where(l)' = Where(l)
      BY <2>5, <3>2, <3>3 DEF Where
    <3>5. \A l : Outside(l)' = Outside(l)
      BY <1>1 DEF Outside, Times
    <3>6. \A q \in Threads : \A k \in DOMAIN rings[q]' : RingOK(rings[q][k])'
      BY <3>1 DEF RingOK, RingType
    <3>7. \A s \in AllSlots', l \in Lines : (Times(l, Unread(Ring(s))) <= 1)'
      <4> SUFFICES ASSUME NEW s \in AllSlots', NEW l \in Lines PROVE Times(l, Unread(Ring(s)))' <= 1
        OBVIOUS
      <4>1. CASE s \in AllSlots
        BY <3>3, <4>1 DEF IInv, Counted
      <4>2. CASE s = new
        <5>1. Times(l, Unread(Ring(s)))' = Times(l, Unread(Ring(new)))'
          BY <4>2 DEF Times
        <5> QED BY <3>2, <5>1
      <4> QED BY <2>5, <4>1, <4>2
    <3>8. \A l \in Lines : /\ IsFiniteSet(Where(l)')
                           /\ Outside(l)' + Cardinality(Where(l)') = IF l \in published' THEN 1 ELSE 0
      BY <1>1, <3>4, <3>5 DEF IInv, Counted
    <3> QED BY <3>6, <3>7, <3>8 DEF Counted
  <2>12. Life'
    <3>1. m_generation # 0
      BY <1>2 DEF IInv, Life, Inside, Types
    <3>2. rings'[p] # <<>>
      BY <2>3, <2>4
    <3> QED BY <1>1, <1>2, <2>4, <3>1, <3>2 DEF IInv, Life, Inside
  <2>13. SlotsOK'
    <3>1. \A q \in Threads : pc'[q] = "push" => Unread(Ring(Mine(q)))' = <<>>
      <4> SUFFICES ASSUME NEW q \in Threads, pc'[q] = "push" PROVE Unread(Ring(Mine(q)))' = <<>>
        OBVIOUS
      <4>1. CASE q = p
        <5>1. Unread(Ring(Mine(q)))' = Unread(Ring(new))'
          BY <2>8, <4>1 DEF Unread, Ring
        <5> QED BY <2>6, <5>1
      <4>2. CASE q # p
        <5>1. Unread(Ring(Mine(q))) = <<>> /\ Mine(q) \in AllSlots
          BY <1>2, <4>2, MineIs DEF IInv, SlotsOK, Life
        <5>2. PICK s \in AllSlots : s = Mine(q) /\ s = Mine(q)'
          BY <2>8, <4>2, <5>1
        <5>3. Unread(Ring(Mine(q)))' = Unread(Ring(s))'
          BY <5>2 DEF Unread, Ring
        <5> QED BY <2>7, <5>1, <5>2, <5>3
      <4> QED BY <4>1, <4>2
    <3>2. \A q \in Threads : \A k \in DOMAIN rings'[q] :
              /\ rings'[q][k].generation <= m_generation
              /\ rings'[q][k].generation = m_generation =>
                    Registered(<<q, k>>) \/ (<<q, k>> = Mine(q)' /\ pc'[q] = "push")
      <4> SUFFICES ASSUME NEW q \in Threads, NEW k \in DOMAIN rings'[q]
                   PROVE  /\ rings'[q][k].generation <= m_generation
                          /\ rings'[q][k].generation = m_generation =>
                                Registered(<<q, k>>) \/ (<<q, k>> = Mine(q)' /\ pc'[q] = "push")
        OBVIOUS
      <4>1. CASE q # p
        BY <1>2, <2>4, <2>8, <4>1 DEF IInv, SlotsOK
      <4>2. CASE q = p /\ k \in DOMAIN rings[p]
        BY <1>5, <2>4, <4>2 DEF IInv, SlotsOK
      <4>3. CASE q = p /\ k = n + 1
        BY <2>1, <2>2, <2>4, <2>8, <4>3 DEF IInv, Types
      <4> QED BY <2>3, <2>4, <4>1, <4>2, <4>3
    <3> QED BY <1>1, <2>9, <3>1, <3>2 DEF SlotsOK, Registered
  <2>14. Overlapped'
    <3>1. \A s \in AllSlots : Excused(s) => Excused(s)'
      BY <1>1, <2>7 DEF Excused
    <3>2. Excused(new)'
      BY <2>6 DEF Excused
    <3>3. \A q \in Threads : /\ pc'[q] \in Inside /\ ~m_running => Line(q) \in exposed
                             /\ pc'[q] = "claim" /\ ~Registered(Mine(q))' => Line(q) \in exposed
      <4> SUFFICES ASSUME NEW q \in Threads
                   PROVE  /\ pc'[q] \in Inside /\ ~m_running => Line(q) \in exposed
                          /\ pc'[q] = "claim" /\ ~Registered(Mine(q))' => Line(q) \in exposed
        OBVIOUS
      <4>1. CASE q = p
        BY <1>2, <2>1, <4>1 DEF IInv, Overlapped, Inside
      <4>2. CASE q # p
        <5>1. Registered(Mine(q))' = Registered(Mine(q))
          BY <1>1, <2>8, <4>2 DEF Registered
        <5> QED BY <1>2, <4>2, <5>1 DEF IInv, Overlapped
      <4> QED BY <4>1, <4>2
    <3>4. \A q \in Threads : Line(q)' = Line(q)
      BY <1>1 DEF Line
    <3>5. \A s \in AllSlots' : ~Registered(s)' => Excused(s)'
      <4> SUFFICES ASSUME NEW s \in AllSlots', ~Registered(s) PROVE Excused(s)'
        BY <2>9
      <4>1. CASE s \in AllSlots
        BY <3>1, <4>1 DEF IInv, Overlapped
      <4>2. CASE s = new
        BY <3>2, <4>2 DEF Excused, Ring
      <4> QED BY <2>5, <4>1, <4>2
    <3>6. \A i \in DOMAIN m_slots' :
             (consumer \in {"handover", "done"} \/ (consumer = "drain" /\ i < idx) => Excused(m_slots[i]))'
      <4> SUFFICES ASSUME NEW i \in DOMAIN m_slots,
                          consumer \in {"handover", "done"} \/ (consumer = "drain" /\ i < idx)
                   PROVE  Excused(m_slots[i])'
        BY <1>1
      <4>1. PICK s \in AllSlots : s = m_slots[i] /\ s = m_slots'[i]
        BY <1>1 DEF IInv, Types
      <4>2. Excused(s)
        BY <4>1 DEF IInv, Overlapped
      <4>3. Excused(s)'
        BY <3>1, <4>2
      <4> QED BY <4>1, <4>3 DEF Excused, Ring
    <3> QED BY <1>1, <3>3, <3>4, <3>5, <3>6 DEF Overlapped
  <2> QED BY <1>3, <1>4, <2>10, <2>11, <2>12, <2>13, <2>14 DEF IInv
<1> QED BY <1>6, <1>7

-----------------------------------------------------------------------------
(* Steps that change one ring.                                             *)

LEMMA OneRing ==
  ASSUME Types, Counted, NEW t, t \in AllSlots, NEW r, RingOK(r), r.generation = Ring(t).generation,
         rings' = [rings EXCEPT ![t[1]][t[2]] = r]
  PROVE  /\ rings' \in [Threads -> Seq(RingType)]
         /\ AllSlots' = AllSlots /\ (\A p \in Threads : Mine(p)' = Mine(p))
         /\ \A p \in Threads : rings'[p] = <<>> <=> rings[p] = <<>>
         /\ \A p \in Threads : DOMAIN rings'[p] = DOMAIN rings[p]
         /\ \A p \in Threads : \A k \in DOMAIN rings[p] :
               RingOK(rings'[p][k]) /\ rings'[p][k].generation = rings[p][k].generation
         /\ Ring(t)' = r /\ Unread(Ring(t))' = Unread(r)
         /\ \A s \in AllSlots : s # t => Ring(s)' = Ring(s) /\ Unread(Ring(s))' = Unread(Ring(s))
<1> PICK p, k : p = t[1] /\ k = t[2]
  OBVIOUS
<1>1. p \in Threads /\ k \in DOMAIN rings[p] /\ t = <<p, k>> /\ t[1] = p /\ t[2] = k /\ Ring(t) = rings[p][k]
  BY SlotOf
<1>2. rings[p] \in Seq(RingType) /\ rings \in [Threads -> Seq(RingType)] /\ r \in RingType
  BY <1>1 DEF Types, RingOK
<1>3. PICK u : u = [rings[p] EXCEPT ![k] = r]
  OBVIOUS
<1>4. u \in Seq(RingType) /\ Len(u) = Len(rings[p]) /\ DOMAIN u = DOMAIN rings[p] /\ u[k] = r
      /\ \A i \in DOMAIN rings[p] : i # k => u[i] = rings[p][i]
  BY <1>1, <1>2, <1>3, ExceptSeq
<1>5. rings' = [rings EXCEPT ![p] = u]
  BY <1>1, <1>3
<1>6. rings' \in [Threads -> Seq(RingType)] /\ rings'[p] = u /\ \A q \in Threads : q # p => rings'[q] = rings[q]
  BY <1>1, <1>2, <1>4, <1>5
<1>7. \A q \in Threads : DOMAIN rings'[q] = DOMAIN rings[q] /\ Len(rings'[q]) = Len(rings[q])
  BY <1>4, <1>6
<1>8. \A q \in Threads : rings'[q] = <<>> <=> rings[q] = <<>>
  BY <1>2, <1>6, <1>7, EmptySeq
<1>9. AllSlots' = AllSlots /\ \A q \in Threads : Mine(q)' = Mine(q)
  BY <1>7 DEF AllSlots, Mine
<1>10. \A q \in Threads : \A i \in DOMAIN rings[q] :
          rings'[q][i] = IF q = p /\ i = k THEN r ELSE rings[q][i]
  BY <1>4, <1>6
<1>11. \A q \in Threads : \A i \in DOMAIN rings[q] :
          RingOK(rings'[q][i]) /\ rings'[q][i].generation = rings[q][i].generation
  <2> SUFFICES ASSUME NEW q \in Threads, NEW i \in DOMAIN rings[q]
               PROVE  RingOK(rings'[q][i]) /\ rings'[q][i].generation = rings[q][i].generation
    OBVIOUS
  <2>1. CASE q = p /\ i = k
    BY <1>1, <1>10, <2>1
  <2>2. CASE ~(q = p /\ i = k)
    <3>1. rings'[q][i] = rings[q][i]
      BY <1>10, <2>2
    <3> QED BY <3>1 DEF Counted
  <2> QED BY <2>1, <2>2
<1>12. Ring(t)' = r
  BY <1>1, <1>10 DEF Ring
<1>13. \A s \in AllSlots : s # t => Ring(s)' = Ring(s)
  <2> SUFFICES ASSUME NEW s \in AllSlots, s # t PROVE rings'[s[1]][s[2]] = rings[s[1]][s[2]]
    BY DEF Ring
  <2> QED BY <1>1, <1>10, SlotOf
<1>14. Unread(Ring(t))' = Unread(r)
  BY <1>12 DEF Unread
<1>15. \A s \in AllSlots : s # t => Unread(Ring(s))' = Unread(Ring(s))
  BY <1>13 DEF Unread
<1> QED BY <1>6, <1>7, <1>8, <1>9, <1>11, <1>12, <1>13, <1>14, <1>15

LEMMA OutsideType ==
  ASSUME Types, NEW l
  PROVE  Outside(l) \in Nat
<1>1. /\ batch \in Seq(Lines) /\ m_fmt_buf \in Seq(Lines) /\ m_write_buf \in Seq(Lines)
      /\ buf \in Seq(Lines) /\ output \in Seq(Lines)
  BY DEF Types
<1>2. Times(l, batch) \in Nat /\ Times(l, m_fmt_buf) \in Nat /\ Times(l, m_write_buf) \in Nat
      /\ Times(l, buf) \in Nat /\ Times(l, output) \in Nat
  BY <1>1, TimesType
<1> QED BY <1>2 DEF Outside

(* A line that was not published is nowhere.                               *)
LEMMA Nowhere ==
  ASSUME Types, Counted, NEW l \in Lines, l \notin published
  PROVE  Where(l) = {} /\ Outside(l) = 0 /\ \A s \in AllSlots : Times(l, Unread(Ring(s))) = 0
<1>1. Outside(l) \in Nat
  BY OutsideType
<1>2. IsFiniteSet(Where(l)) /\ Outside(l) + Cardinality(Where(l)) = 0
  BY DEF Counted
<1>3. Cardinality(Where(l)) \in Nat /\ (Cardinality(Where(l)) = 0 <=> Where(l) = {})
  BY <1>2, FS_CardinalityType, FS_EmptySet
<1>4. Where(l) = {} /\ Outside(l) = 0
  BY <1>1, <1>2, <1>3
<1>5. \A s \in AllSlots : Times(l, Unread(Ring(s))) = 0
  <2> SUFFICES ASSUME NEW s \in AllSlots PROVE Times(l, Unread(Ring(s))) = 0
    OBVIOUS
  <2>1. RingOK(Ring(s))
    BY SlotOf DEF Counted
  <2>2. Times(l, Unread(Ring(s))) \in Nat
    BY <2>1, UnreadIs, TimesType
  <2>3. Times(l, Unread(Ring(s))) <= 1 /\ Times(l, Unread(Ring(s))) # 1
    BY <1>4 DEF Counted, Where
  <2> QED BY <2>2, <2>3
<1> QED BY <1>4, <1>5

LEMMA EnqueueInv == ASSUME IInv, NEW p \in Threads, Enqueue(p) PROVE IInv'
<1>1. UNCHANGED <<script, m_running, m_generation, lifecycle, m_slots, m_poll_index, next, consumer, idx, polled,
                  batch, m_fmt_buf, m_write_buf, writer, buf, m_log_fd, output, misplaced, exposed>>
  BY DEF Enqueue, LogStep, lifeVars, pollVars, bufVars, fileVars, stopVars
<1> DEFINE free == CanClaim(Ring(Mine(p)))
<1>2. pc[p] = "claim" /\ pc'[p] = "idle" /\ (\A q \in Threads : q # p => pc'[q] = pc[q])
      /\ pc' \in [Threads -> {"idle", "start", "flushed"} \cup Inside]
  BY DEF IInv, Types, Inside, Enqueue, LogStep
<1>3. FileOpen'
  BY <1>1, FileFrame DEF IInv
<1>4. \A q \in Threads : pc'[q] = "push" <=> pc[q] = "push"
  BY <1>2
<1>5. CASE ~free
  <2>1. UNCHANGED <<rings, published>>
    BY <1>5 DEF Enqueue
  <2>2. Types'
    BY <1>1, <1>2, <2>1, SlotsTyped DEF IInv, Types
  <2>3. Numbered'
    BY <1>1, <1>2, <2>1 DEF IInv, Numbered, Types, Lines
  <2>4. Counted'
    BY <1>1, <2>1, CountedFrame DEF IInv
  <2>5. Life'
    BY <1>1, <1>2, <2>1 DEF IInv, Life, Inside
  <2>6. SlotsOK'
    BY <1>1, <1>4, <2>1, SlotsSteps DEF IInv
  <2>7. Overlapped'
    BY <1>1, <1>2, <2>1, OverlappedSteps DEF IInv, Overlapped, Line, Inside
  <2> QED BY <1>3, <2>2, <2>3, <2>4, <2>5, <2>6, <2>7 DEF IInv
<1>6. CASE free
  <2>1. PICK t, l : t = Mine(p) /\ l = Line(p)
    OBVIOUS
  <2>2. t \in AllSlots /\ t[1] = p /\ t[2] = Len(rings[p]) /\ Ring(t) = rings[t[1]][t[2]]
    BY <1>2, <2>1, MineIs, SlotOf DEF IInv, Life
  <2>3. PICK r : r = Publish(Claim(Ring(t)), l)
    OBVIOUS
  <2>4. rings' = [rings EXCEPT ![t[1]][t[2]] = r] /\ published' = published \cup {l}
    BY <1>6, <2>1, <2>2, <2>3 DEF Enqueue
  <2>5. l \in Lines /\ l[1] = p /\ l[2] = next[p] /\ l \notin published
    BY <1>2, <2>1 DEF Line, Lines, IInv, Types, Numbered
  <2>6. RingOK(Ring(t))
    BY <2>2, SlotOf DEF IInv, Counted
  <2>7. RingOK(r) /\ Unread(r) = Append(Unread(Ring(t)), l) /\ r.generation = Ring(t).generation
    BY <1>6, <2>1, <2>3, <2>5, <2>6, PublishOK
  <2>8. /\ rings' \in [Threads -> Seq(RingType)]
        /\ AllSlots' = AllSlots /\ (\A q \in Threads : Mine(q)' = Mine(q))
        /\ \A q \in Threads : rings'[q] = <<>> <=> rings[q] = <<>>
        /\ \A q \in Threads : DOMAIN rings'[q] = DOMAIN rings[q]
        /\ \A q \in Threads : \A k \in DOMAIN rings[q] :
              RingOK(rings'[q][k]) /\ rings'[q][k].generation = rings[q][k].generation
        /\ Unread(Ring(t))' = Unread(r)
        /\ \A s \in AllSlots : s # t => Unread(Ring(s))' = Unread(Ring(s))
    <3>1. Types /\ Counted
      BY DEF IInv
    <3>2. t \in AllSlots /\ RingOK(r) /\ r.generation = Ring(t).generation
          /\ rings' = [rings EXCEPT ![t[1]][t[2]] = r]
      BY <2>2, <2>4, <2>7
    <3> QED BY ONLY <3>1, <3>2, OneRing, ZenonT(60)
  <2>9. Types'
    BY <1>1, <1>2, <2>4, <2>5, <2>8 DEF IInv, Types
  <2>10. Numbered'
    <3>1. \A m \in published' :
             /\ m[2] >= 1 /\ m[2] <= next[m[1]]
             /\ m[2] = next[m[1]] => pc'[m[1]] \in {"idle", "flushed"}
      <4> SUFFICES ASSUME NEW m \in published'
                   PROVE  /\ m[2] >= 1 /\ m[2] <= next[m[1]]
                          /\ m[2] = next[m[1]] => pc'[m[1]] \in {"idle", "flushed"}
        OBVIOUS
      <4>1. CASE m = l
        <5>1. next[p] \in Nat /\ next[p] >= 1
          BY <1>2 DEF IInv, Numbered, Types
        <5> QED BY <1>2, <2>5, <4>1, <5>1
      <4>2. CASE m \in published
        BY <1>2, <4>2 DEF IInv, Numbered, Types, Lines
      <4> QED BY <2>4, <4>1, <4>2
    <3> QED BY <1>1, <1>2, <3>1 DEF IInv, Numbered
  <2>11. Counted'
    <3>1. \A s \in AllSlots, m \in Lines :
             Times(m, Unread(Ring(s)))' = Times(m, Unread(Ring(s))) + (IF s = t /\ m = l THEN 1 ELSE 0)
      <4> SUFFICES ASSUME NEW s \in AllSlots, NEW m \in Lines
                   PROVE  Times(m, Unread(Ring(s)))' = Times(m, Unread(Ring(s))) + (IF s = t /\ m = l THEN 1 ELSE 0)
        OBVIOUS
      <4>1. RingOK(Ring(s))
        BY SlotOf DEF IInv, Counted
      <4>2. Unread(Ring(s)) \in Seq(Lines) /\ Times(m, Unread(Ring(s))) \in Nat
        BY <4>1, UnreadIs, TimesType
      <4>3. CASE s = t
        <5>1. Times(m, Unread(Ring(s)))' = Times(m, Append(Unread(Ring(t)), l))
          BY <2>7, <2>8, <4>3 DEF Times
        <5> QED BY <2>5, <4>2, <4>3, <5>1, TimesAppend
      <4>4. CASE s # t
        <5>1. Times(m, Unread(Ring(s)))' = Times(m, Unread(Ring(s)))
          BY <2>8, <4>4 DEF Times
        <5> QED BY <4>2, <4>4, <5>1
      <4> QED BY <4>3, <4>4
    <3>2. Where(l) = {} /\ Outside(l) = 0 /\ \A s \in AllSlots : Times(l, Unread(Ring(s))) = 0
      BY <2>5, Nowhere DEF IInv
    <3>3. \A m : Outside(m)' = Outside(m)
      BY <1>1 DEF Outside, Times
    <3>4. \A s \in AllSlots, m \in Lines : Times(m, Unread(Ring(s)))' <= 1
      <4> SUFFICES ASSUME NEW s \in AllSlots, NEW m \in Lines PROVE Times(m, Unread(Ring(s)))' <= 1
        OBVIOUS
      <4>1. RingOK(Ring(s))
        BY SlotOf DEF IInv, Counted
      <4>2. Times(m, Unread(Ring(s))) \in Nat /\ Times(m, Unread(Ring(s))) <= 1
        BY <4>1, UnreadIs, TimesType DEF IInv, Counted
      <4> QED BY <3>1, <3>2, <4>2
    <3>5. ASSUME NEW m \in Lines
          PROVE  /\ IsFiniteSet(Where(m)')
                 /\ Outside(m)' + Cardinality(Where(m)') = IF m \in published' THEN 1 ELSE 0
      <4>1. CASE m = l
        <5>1. Where(m)' = {t}
          BY <2>2, <2>8, <3>1, <3>2, <4>1 DEF Where
        <5>2. IsFiniteSet({t}) /\ Cardinality({t}) = 1
          BY FS_Singleton
        <5> QED BY <2>4, <3>2, <3>3, <4>1, <5>1, <5>2
      <4>2. CASE m # l
        <5>1. ASSUME NEW s \in AllSlots
              PROVE  Times(m, Unread(Ring(s)))' = 1 <=> Times(m, Unread(Ring(s))) = 1
          <6>1. RingOK(Ring(s))
            BY SlotOf DEF IInv, Counted
          <6>2. Times(m, Unread(Ring(s))) \in Nat
            BY <6>1, UnreadIs, TimesType
          <6>3. Times(m, Unread(Ring(s)))' = Times(m, Unread(Ring(s))) + 0
            BY <3>1, <4>2
          <6> QED BY <6>2, <6>3
        <5>2. Where(m)' = Where(m)
          BY <2>8, <5>1 DEF Where
        <5> QED BY <2>4, <3>3, <4>2, <5>2 DEF IInv, Counted
      <4> QED BY <4>1, <4>2
    <3>6. \A q \in Threads : \A k \in DOMAIN rings[q]' : RingOK(rings[q][k])'
      <4> SUFFICES ASSUME NEW q \in Threads, NEW k \in DOMAIN rings'[q]
                   PROVE  RingOK(rings'[q][k])
        BY DEF RingOK, RingType
      <4> QED BY <2>8
    <3>7. \A s \in AllSlots', m \in Lines : (Times(m, Unread(Ring(s))) <= 1)'
      BY <2>8, <3>4
    <3> QED BY <3>5, <3>6, <3>7 DEF Counted
  <2>12. Life'
    BY <1>1, <1>2, <2>8 DEF IInv, Life, Inside
  <2>13. \A s : Registered(s)' = Registered(s)
    BY <1>1 DEF Registered
  <2>14. SlotsOK'
    <3>1. \A q \in Threads : pc'[q] = "push" => Unread(Ring(Mine(q)))' = <<>>
      <4> SUFFICES ASSUME NEW q \in Threads, pc'[q] = "push" PROVE Unread(Ring(Mine(q)))' = <<>>
        OBVIOUS
      <4>1. pc[q] = "push" /\ q # p
        BY <1>2
      <4>2. PICK s \in AllSlots : s = Mine(q) /\ s = Mine(q)' /\ s[1] = q /\ s # t
        BY <2>2, <2>8, <4>1, MineIs DEF IInv, Life
      <4>3. Unread(Ring(Mine(q)))' = Unread(Ring(s))'
        BY <4>2 DEF Unread, Ring
      <4> QED BY <2>8, <4>1, <4>2, <4>3 DEF IInv, SlotsOK
    <3>2. \A q \in Threads : \A k \in DOMAIN rings[q] : Registered(<<q, k>>)' = Registered(<<q, k>>)
      BY <1>1 DEF Registered
    <3> QED BY <1>1, <1>4, <2>8, <3>1, <3>2 DEF IInv, SlotsOK
  <2>15. Overlapped'
    <3>1. \A s \in AllSlots : Excused(s) /\ (s = t => l \in exposed) => Excused(s)'
      <4> SUFFICES ASSUME NEW s \in AllSlots, Excused(s), s = t => l \in exposed PROVE Excused(s)'
        OBVIOUS
      <4>1. CASE s # t
        BY <1>1, <2>8, <4>1 DEF Excused
      <4>2. CASE s = t
        <5>1. Unread(Ring(t)) \in Seq(Lines)
          BY <2>6, UnreadIs
        <5>2. PICK u, v : u = Unread(Ring(t)) /\ v = Append(u, l)
          OBVIOUS
        <5>3. \A i \in DOMAIN u : u[i] \in exposed
          BY <4>2, <5>2 DEF Excused
        <5>4. \A i \in DOMAIN v : v[i] \in exposed
          BY <4>2, <5>1, <5>2, <5>3, <2>5, AppendProperties
        <5>5. Unread(Ring(s))' = v
          BY <2>7, <2>8, <4>2, <5>2
        <5> QED BY <1>1, <5>4, <5>5 DEF Excused
      <4> QED BY <4>1, <4>2
    <3>2. \A q \in Threads : Line(q)' = Line(q) /\ Registered(Mine(q))' = Registered(Mine(q))
      BY <1>1, <2>8 DEF Line, Registered
    <3>3. \A q \in Threads : /\ pc'[q] \in Inside /\ ~m_running => Line(q) \in exposed
                             /\ pc'[q] = "claim" /\ ~Registered(Mine(q)) => Line(q) \in exposed
      BY <1>2 DEF IInv, Overlapped, Inside
    <3>4. \A s \in AllSlots : ~Registered(s) => Excused(s)'
      <4>1. ~Registered(t) => l \in exposed
        BY <1>2, <2>1 DEF IInv, Overlapped
      <4> QED BY <3>1, <4>1 DEF IInv, Overlapped
    <3>5. \A i \in DOMAIN m_slots' :
             (consumer \in {"handover", "done"} \/ (consumer = "drain" /\ i < idx) => Excused(m_slots[i]))'
      <4> SUFFICES ASSUME NEW i \in DOMAIN m_slots,
                          consumer \in {"handover", "done"} \/ (consumer = "drain" /\ i < idx)
                   PROVE  Excused(m_slots[i])'
        BY <1>1
      <4>1. PICK s \in AllSlots : s = m_slots[i] /\ s = m_slots'[i]
        BY <1>1 DEF IInv, Types
      <4>2. Excused(s)
        BY <4>1 DEF IInv, Overlapped
      <4>3. ~m_running
        BY DEF IInv, Life, Running
      <4>4. l \in exposed
        BY <1>2, <2>1, <4>3 DEF IInv, Overlapped, Inside
      <4>5. Excused(s)'
        BY <3>1, <4>2, <4>4
      <4> QED BY <4>1, <4>5 DEF Excused, Ring
    <3> QED BY <1>1, <2>8, <2>13, <3>2, <3>3, <3>4, <3>5 DEF Overlapped
  <2> QED BY <1>3, <2>9, <2>10, <2>11, <2>12, <2>14, <2>15 DEF IInv
<1> QED BY <1>5, <1>6

(* A turn moves lines from a ring to the batch, and empties the ring if it  *)
(* has taken none with room for one.                                       *)
LEMMA TurnMoves ==
  ASSUME IInv, idx \in DOMAIN m_slots, NEW n \in Nat, Turn(n),
         UNCHANGED <<published, m_generation, m_slots, pc, m_fmt_buf, m_write_buf, buf, output, exposed>>
  PROVE  /\ batch' \in Seq(Lines) /\ rings' \in [Threads -> Seq(RingType)]
         /\ AllSlots' = AllSlots /\ (\A p \in Threads : Mine(p)' = Mine(p))
         /\ \A p \in Threads : rings'[p] = <<>> <=> rings[p] = <<>>
         /\ Counted' /\ SlotsOK'
         /\ \A s \in AllSlots : Excused(s) => Excused(s)'
         /\ \A t : batch = <<>> /\ batch' = <<>> /\ t = m_slots[idx] => Excused(t)'
<1>1. PICK t, r, old, u : t = m_slots[idx] /\ r = Dequeue(Ring(t), n) /\ old = Oldest(Ring(t), n)
                          /\ u = Unread(Ring(t))
  OBVIOUS
<1>2. t \in AllSlots
  BY <1>1 DEF IInv, Types
<1>3. RingOK(Ring(t))
  BY <1>2, SlotOf DEF IInv, Counted
<1>4. /\ \A k \in 0..(n - 1) : Ring(t).sequence[Cell(Ring(t).dq + k)] >= Ring(t).dq + k + 1
      /\ Len(batch) + n = MaxBatch \/ Ring(t).sequence[Cell(Ring(t).dq + n)] < Ring(t).dq + n + 1
      /\ rings' = [rings EXCEPT ![t[1]][t[2]] = r]
      /\ batch' = batch \o old
  BY <1>1 DEF Turn
<1>5. /\ RingOK(r) /\ old \in Seq(Lines) /\ u = old \o Unread(r) /\ r.generation = Ring(t).generation
  BY <1>1, <1>3, <1>4, DequeueOK
<1>6. /\ rings' \in [Threads -> Seq(RingType)]
      /\ AllSlots' = AllSlots /\ (\A p \in Threads : Mine(p)' = Mine(p))
      /\ \A p \in Threads : rings'[p] = <<>> <=> rings[p] = <<>>
      /\ \A p \in Threads : DOMAIN rings'[p] = DOMAIN rings[p]
      /\ \A p \in Threads : \A k \in DOMAIN rings[p] :
            RingOK(rings'[p][k]) /\ rings'[p][k].generation = rings[p][k].generation
      /\ Ring(t)' = r /\ Unread(Ring(t))' = Unread(r)
      /\ \A s \in AllSlots : s # t => Ring(s)' = Ring(s) /\ Unread(Ring(s))' = Unread(Ring(s))
  <2>1. Types /\ Counted
    BY DEF IInv
  <2>2. t \in AllSlots /\ RingOK(r) /\ r.generation = Ring(t).generation
        /\ rings' = [rings EXCEPT ![t[1]][t[2]] = r]
    BY <1>2, <1>4, <1>5
  <2> QED BY ONLY <2>1, <2>2, OneRing, ZenonT(60)
<1>7. batch \in Seq(Lines) /\ u \in Seq(Lines) /\ Unread(r) \in Seq(Lines)
  BY <1>1, <1>3, <1>5, UnreadIs DEF IInv, Types
<1>8. batch' \in Seq(Lines)
  BY <1>4, <1>5, <1>7, TimesConcat
<1>9. Counted'
  <2>1. ASSUME NEW l \in Lines
        PROVE  /\ Times(l, u) \in Nat /\ Times(l, old) \in Nat /\ Times(l, Unread(r)) \in Nat
               /\ Times(l, u) = Times(l, old) + Times(l, Unread(r))
               /\ Times(l, u) <= 1
               /\ Times(l, Unread(Ring(t)))' = Times(l, Unread(r))
               /\ Times(l, Unread(Ring(t))) = Times(l, u)
               /\ Outside(l) \in Nat
               /\ Outside(l)' = Outside(l) + Times(l, old)
    <3>1. Times(l, u) \in Nat /\ Times(l, old) \in Nat /\ Times(l, Unread(r)) \in Nat
      BY <1>5, <1>7, TimesType
    <3>2. Times(l, u) = Times(l, old) + Times(l, Unread(r))
      BY <1>5, <1>7, TimesConcat
    <3>3. Times(l, u) <= 1
      BY <1>1, <1>2 DEF IInv, Counted
    <3>4. Times(l, Unread(Ring(t)))' = Times(l, Unread(r))
      BY <1>6 DEF Times
    <3>5. Times(l, batch)' = Times(l, batch) + Times(l, old)
      <4>1. Times(l, batch)' = Times(l, batch \o old)
        BY <1>4 DEF Times
      <4> QED BY <1>5, <1>7, <4>1, TimesConcat
    <3>6. /\ Times(l, m_fmt_buf)' = Times(l, m_fmt_buf) /\ Times(l, m_write_buf)' = Times(l, m_write_buf)
          /\ Times(l, buf)' = Times(l, buf) /\ Times(l, output)' = Times(l, output)
      BY DEF Times
    <3>7. /\ Times(l, batch) \in Nat /\ Times(l, m_fmt_buf) \in Nat /\ Times(l, m_write_buf) \in Nat
          /\ Times(l, buf) \in Nat /\ Times(l, output) \in Nat
      BY TimesType DEF IInv, Types
    <3>8. Outside(l) \in Nat /\ Outside(l)' = Outside(l) + Times(l, old)
      BY <3>1, <3>5, <3>6, <3>7 DEF Outside
    <3> QED BY <1>1, <3>1, <3>2, <3>3, <3>4, <3>8
  <2>2. ASSUME NEW l \in Lines, NEW s \in AllSlots
        PROVE  /\ Times(l, Unread(Ring(s)))' <= 1
               /\ s # t => Times(l, Unread(Ring(s)))' = Times(l, Unread(Ring(s)))
    <3>1. CASE s # t
      <4>1. Times(l, Unread(Ring(s)))' = Times(l, Unread(Ring(s)))
        BY <1>6, <3>1 DEF Times
      <4> QED BY <3>1, <4>1 DEF IInv, Counted
    <3>2. CASE s = t
      BY <2>1, <3>2
    <3> QED BY <3>1, <3>2
  <2>3. ASSUME NEW l \in Lines
        PROVE  /\ IsFiniteSet(Where(l)')
               /\ Outside(l)' + Cardinality(Where(l)') = IF l \in published' THEN 1 ELSE 0
    <3>1. IsFiniteSet(Where(l)) /\ Outside(l) + Cardinality(Where(l)) = IF l \in published THEN 1 ELSE 0
      BY DEF IInv, Counted
    <3>2. CASE Times(l, old) = 0
      <4>1. \A s \in AllSlots : Times(l, Unread(Ring(s)))' = Times(l, Unread(Ring(s)))
        BY <2>1, <2>2, <3>2
      <4>2. Where(l)' = Where(l)
        BY <1>6, <4>1 DEF Where
      <4> QED BY <2>1, <3>1, <3>2, <4>2
    <3>3. CASE Times(l, old) # 0
      <4>1. Times(l, old) = 1 /\ Times(l, u) = 1 /\ Times(l, Unread(r)) = 0
        BY <2>1, <3>3
      <4>2. Where(l)' = Where(l) \ {t} /\ t \in Where(l)
        BY <1>2, <1>6, <2>1, <2>2, <4>1 DEF Where
      <4>3. IsFiniteSet(Where(l) \ {t}) /\ Cardinality(Where(l) \ {t}) = Cardinality(Where(l)) - 1
            /\ Cardinality(Where(l)) \in Nat
        BY <3>1, <4>2, FS_RemoveElement, FS_CardinalityType
      <4> QED BY <2>1, <3>1, <4>1, <4>2, <4>3
    <3> QED BY <3>2, <3>3
  <2>4. \A q \in Threads : \A k \in DOMAIN rings[q]' : RingOK(rings[q][k])'
    <3> SUFFICES ASSUME NEW q \in Threads, NEW k \in DOMAIN rings'[q]
                 PROVE  RingOK(rings'[q][k])
      BY DEF RingOK, RingType
    <3> QED BY <1>6
  <2>5. \A s \in AllSlots', l \in Lines : (Times(l, Unread(Ring(s))) <= 1)'
    BY <1>6, <2>2
  <2> QED BY <2>3, <2>4, <2>5 DEF Counted
<1>10. ASSUME NEW s \in AllSlots
       PROVE  /\ Excused(s) => Excused(s)'
              /\ Unread(Ring(s)) = <<>> => Unread(Ring(s))' = <<>>
  <2>1. CASE s # t
    BY <1>6, <2>1 DEF Excused
  <2>2. CASE s = t
    <3>1. PICK v : v = Unread(r)
      OBVIOUS
    <3>2. v \in Seq(Lines) /\ Len(old) \in Nat /\ Len(v) \in Nat /\ u = old \o v
          /\ Len(u) = Len(old) + Len(v) /\ DOMAIN u = 1..Len(u) /\ DOMAIN v = 1..Len(v)
          /\ \A i \in 1..(Len(old) + Len(v)) : u[i] = IF i <= Len(old) THEN old[i] ELSE v[i - Len(old)]
      BY <1>5, <1>7, <3>1, ConcatProperties
    <3>3. \A i \in DOMAIN v : Len(old) + i \in DOMAIN u /\ u[Len(old) + i] = v[i]
      BY <3>2
    <3>4. Unread(Ring(s))' = v
      BY <1>6, <2>2, <3>1
    <3>5. Excused(s) => Excused(s)'
      <4> SUFFICES ASSUME Excused(s) PROVE \A i \in DOMAIN v : v[i] \in exposed
        BY <3>4 DEF Excused
      <4>1. \A i \in DOMAIN u : u[i] \in exposed
        BY <1>1, <2>2 DEF Excused
      <4> QED BY <3>3, <4>1
    <3>6. u = <<>> => v = <<>>
      BY <3>2
    <3> QED BY <1>1, <2>2, <3>4, <3>5, <3>6
  <2> QED BY <2>1, <2>2
<1>11. SlotsOK'
  <2>1. \A q \in Threads : pc'[q] = "push" => Unread(Ring(Mine(q)))' = <<>>
    <3> SUFFICES ASSUME NEW q \in Threads, pc[q] = "push" PROVE Unread(Ring(Mine(q)))' = <<>>
      OBVIOUS
    <3>1. PICK s \in AllSlots : s = Mine(q) /\ s = Mine(q)'
      BY <1>6, MineIs DEF IInv, Life
    <3>2. Unread(Ring(Mine(q)))' = Unread(Ring(s))'
      BY <3>1 DEF Unread, Ring
    <3>3. Unread(Ring(s)) = <<>>
      BY <3>1 DEF IInv, SlotsOK
    <3> QED BY <1>10, <3>2, <3>3
  <2>2. \A q \in Threads : \A k \in DOMAIN rings[q] : Registered(<<q, k>>)' = Registered(<<q, k>>)
    BY DEF Registered
  <2> QED BY <1>6, <2>1, <2>2 DEF IInv, SlotsOK
<1>12. ASSUME batch = <<>>, batch' = <<>> PROVE Excused(t)'
  <2>1. old = <<>> /\ n = 0
    <3>1. Len(old) = n
      BY <1>1 DEF Oldest
    <3>2. batch \o old = old
      BY <1>5, <1>12
    <3> QED BY <1>4, <1>12, <3>1, <3>2
  <2>2. PICK q : q = Ring(t)
    OBVIOUS
  <2>3. q.dq \in Nat /\ q.pos \in Nat /\ q.dq <= q.pos
    BY <1>3, <2>2 DEF RingOK, RingType
  <2>4. q.sequence[Cell(q.dq)] < q.dq + 1
    <3>1. MaxBatch \in Nat /\ MaxBatch > 0 /\ Len(batch) = 0
      BY <1>12, LoggerAssumption
    <3>2. q.sequence[Cell(q.dq + n)] < q.dq + n + 1
      BY <1>4, <2>1, <2>2, <3>1
    <3>3. q.dq + n = q.dq
      BY <2>1, <2>3
    <3> QED BY <3>2, <3>3
  <2>5. q.dq = q.pos
    <3> SUFFICES ASSUME q.dq < q.pos PROVE FALSE
      BY <2>3
    <3>1. q.sequence[Cell(q.dq)] = q.dq + 1
      BY <1>3, <2>2, <2>3 DEF RingOK
    <3> QED BY <2>3, <2>4, <3>1
  <2>6. u = <<>>
    <3>1. u \in Seq(Lines) /\ Len(u) = q.pos - q.dq
      BY <1>1, <1>3, <2>2, UnreadIs
    <3> QED BY <2>3, <2>5, <3>1, EmptySeq
  <2>7. Unread(Ring(t))' = <<>>
    BY <1>1, <1>2, <1>10, <2>6
  <2> QED BY <2>7 DEF Excused
<1> QED BY <1>1, <1>6, <1>8, <1>9, <1>10, <1>11, <1>12

LEMMA PollInv == ASSUME IInv, Poll PROVE IInv'
<1>1. UNCHANGED <<script, m_running, m_generation, lifecycle, m_slots, m_poll_index, pc, next, consumer,
                  m_fmt_buf, m_write_buf, writer, buf, m_log_fd, output, misplaced, published, exposed>>
  BY DEF Poll, ConsumerStep, lifeVars, logVars, bufVars, fileVars, stopVars
<1>2. consumer = "poll" /\ polled < Len(m_slots) /\ idx' = (idx % Len(m_slots)) + 1
  BY DEF Poll, ConsumerStep, MorePolling
<1>3. PICK n \in 0..(MaxBatch - Len(batch)) : Turn(n)
  BY DEF Poll
<1>4. n \in Nat /\ idx \in DOMAIN m_slots /\ idx' \in Nat /\ idx' >= 1 /\ idx' <= Len(m_slots)
  <2>1. Len(m_slots) \in Nat /\ Len(m_slots) >= 1 /\ DOMAIN m_slots = 1..Len(m_slots)
    <3> QED BY <1>2 DEF IInv, Types
  <2> QED BY <1>2, <2>1 DEF IInv, Life, Types
<1>5. /\ batch' \in Seq(Lines) /\ rings' \in [Threads -> Seq(RingType)]
      /\ AllSlots' = AllSlots /\ (\A p \in Threads : Mine(p)' = Mine(p))
      /\ \A p \in Threads : rings'[p] = <<>> <=> rings[p] = <<>>
      /\ Counted' /\ SlotsOK'
      /\ \A s \in AllSlots : Excused(s) => Excused(s)'
  BY <1>1, <1>3, <1>4, TurnMoves
<1>6. Types'
  <2>1. polled' \in Nat
    BY DEF Poll, IInv, Types
  <2> QED BY <1>1, <1>4, <1>5, <2>1 DEF IInv, Types
<1>7. Numbered'
  BY <1>1, NumberedFrame DEF IInv
<1>8. Life'
  BY <1>1, <1>4, <1>5 DEF IInv, Life
<1>9. Overlapped'
  <2>1. \A q \in Threads : Line(q)' = Line(q) /\ Registered(Mine(q))' = Registered(Mine(q))
    BY <1>1, <1>5 DEF Line, Registered
  <2>2. \A s : Registered(s)' = Registered(s)
    BY <1>1 DEF Registered
  <2> QED BY <1>1, <1>2, <1>5, <2>1, <2>2 DEF IInv, Overlapped
<1>10. FileOpen'
  BY <1>1, <1>2 DEF IInv, FileOpen
<1> QED BY <1>5, <1>6, <1>7, <1>8, <1>9, <1>10 DEF IInv

LEMMA DrainInv == ASSUME IInv, Drain PROVE IInv'
<1>1. UNCHANGED <<script, m_running, m_generation, lifecycle, m_slots, m_poll_index, pc, next, polled,
                  m_write_buf, writer, buf, m_log_fd, output, misplaced, published, exposed>>
  BY DEF Drain, lifeVars, logVars, fileVars, stopVars, pollVars
<1>2. consumer = "drain" /\ consumer' \in {"drain", "handover"}
  BY DEF Drain, ConsumerStep
<1>3. FileOpen'
  BY <1>1, <1>2 DEF IInv, FileOpen
<1>4. Numbered'
  BY <1>1, NumberedFrame DEF IInv
<1>5. \A q \in Threads : Line(q)' = Line(q)
  BY <1>1 DEF Line
<1>6. \A s : Registered(s)' = Registered(s)
  BY <1>1 DEF Registered
<1>7. CASE batch # <<>>
  <2>1. UNCHANGED <<idx, rings>> /\ consumer' = "drain" /\ m_fmt_buf' = m_fmt_buf \o batch /\ batch' = <<>>
    BY <1>7 DEF Drain, FormatLines, ConsumerStep
  <2>2. m_fmt_buf' \in Seq(Lines)
    BY <2>1, TimesConcat DEF IInv, Types
  <2>3. Types'
    BY <1>1, <2>1, <2>2, SlotsTyped DEF IInv, Types
  <2>4. Counted'
    <3>1. ASSUME NEW l \in Lines PROVE Outside(l)' = Outside(l)
      <4>1. Times(l, batch)' = 0
        BY <2>1, TimesEmpty DEF Times
      <4>2. Times(l, m_fmt_buf)' = Times(l, m_fmt_buf) + Times(l, batch)
        <5>1. Times(l, m_fmt_buf)' = Times(l, m_fmt_buf \o batch)
          BY <2>1 DEF Times
        <5> QED BY <5>1, TimesConcat DEF IInv, Types
      <4>3. /\ Times(l, m_write_buf)' = Times(l, m_write_buf)
            /\ Times(l, buf)' = Times(l, buf) /\ Times(l, output)' = Times(l, output)
        BY <1>1 DEF Times
      <4>4. /\ Times(l, batch) \in Nat /\ Times(l, m_fmt_buf) \in Nat /\ Times(l, m_write_buf) \in Nat
            /\ Times(l, buf) \in Nat /\ Times(l, output) \in Nat
        BY TimesType DEF IInv, Types
      <4> QED BY <4>1, <4>2, <4>3, <4>4 DEF Outside
    <3> QED BY <1>1, <2>1, <3>1, CountedMoves DEF IInv
  <2>5. Life'
    BY <1>1, <1>2, <2>1, LifeFrame DEF IInv
  <2>6. SlotsOK'
    BY <1>1, <2>1, SlotsFrame DEF IInv
  <2>7. Overlapped'
    BY <1>1, <1>2, <2>1, OverlappedFrame DEF IInv
  <2> QED BY <1>3, <1>4, <2>3, <2>4, <2>5, <2>6, <2>7 DEF IInv
<1>8. CASE batch = <<>> /\ idx <= Len(m_slots)
  <2>1. UNCHANGED m_fmt_buf /\ consumer' = "drain" /\ idx' = IF batch' = <<>> THEN idx + 1 ELSE idx
    BY <1>8 DEF Drain, ConsumerStep
  <2>2. PICK n \in 0..MaxBatch : Turn(n)
    BY <1>8 DEF Drain
  <2>3. n \in Nat /\ idx \in DOMAIN m_slots /\ idx \in Nat
    BY <1>8 DEF IInv, Types
  <2>4. /\ batch' \in Seq(Lines) /\ rings' \in [Threads -> Seq(RingType)]
        /\ AllSlots' = AllSlots /\ (\A p \in Threads : Mine(p)' = Mine(p))
        /\ \A p \in Threads : rings'[p] = <<>> <=> rings[p] = <<>>
        /\ Counted' /\ SlotsOK'
        /\ \A s \in AllSlots : Excused(s) => Excused(s)'
        /\ \A t : batch = <<>> /\ batch' = <<>> /\ t = m_slots[idx] => Excused(t)'
    BY <1>1, <2>1, <2>2, <2>3, TurnMoves
  <2>5. Types'
    <3>1. idx' \in Nat /\ idx' >= 1
      BY <2>1, <2>3 DEF IInv, Types
    <3> QED BY <1>1, <2>1, <2>4, <3>1 DEF IInv, Types
  <2>6. Life'
    BY <1>1, <1>2, <2>1, <2>4 DEF IInv, Life
  <2>7. Overlapped'
    <3>1. ASSUME NEW i \in DOMAIN m_slots, i < idx' PROVE \A t : t = m_slots[i] => Excused(t)'
      <4>1. m_slots[i] \in AllSlots /\ i \in Nat
        BY DEF IInv, Types
      <4>2. CASE i < idx
        <5>1. Excused(m_slots[i])
          BY <1>2, <4>2 DEF IInv, Overlapped
        <5> QED BY <2>4, <4>1, <5>1
      <4>3. CASE ~(i < idx)
        <5>1. batch' = <<>> /\ i = idx
          BY <2>1, <2>3, <3>1, <4>1, <4>3
        <5> QED BY <1>8, <2>4, <5>1
      <4> QED BY <4>2, <4>3
    <3>2. \A i \in DOMAIN m_slots' :
             (consumer \in {"handover", "done"} \/ (consumer = "drain" /\ i < idx) => Excused(m_slots[i]))'
      <4> SUFFICES ASSUME NEW i \in DOMAIN m_slots, i < idx' PROVE Excused(m_slots[i])'
        BY <1>1, <2>1
      <4>1. PICK t : t = m_slots[i] /\ t = m_slots'[i]
        BY <1>1
      <4>2. Excused(t)'
        BY <3>1, <4>1
      <4> QED BY <4>1, <4>2 DEF Excused, Ring
    <3>3. \A q \in Threads : Registered(Mine(q))' = Registered(Mine(q))
      BY <1>1, <2>4 DEF Registered
    <3> QED BY <1>1, <1>5, <1>6, <2>4, <3>2, <3>3 DEF IInv, Overlapped
  <2> QED BY <1>3, <1>4, <2>4, <2>5, <2>6, <2>7 DEF IInv
<1>9. CASE batch = <<>> /\ ~(idx <= Len(m_slots))
  <2>1. UNCHANGED <<rings, batch, m_fmt_buf>> /\ consumer' = "handover" /\ idx' = 1
    BY <1>9 DEF Drain, ConsumerStep
  <2>2. Types'
    BY <1>1, <2>1, SlotsTyped DEF IInv, Types
  <2>3. Counted'
    BY <1>1, <2>1, CountedFrame DEF IInv
  <2>4. Life'
    BY <1>1, <1>2, <2>1 DEF IInv, Life, Running
  <2>5. SlotsOK'
    BY <1>1, <2>1, SlotsFrame DEF IInv
  <2>6. Overlapped'
    <3>1. \A i \in DOMAIN m_slots : i < idx
      BY <1>9 DEF IInv, Types
    <3> QED BY <1>1, <1>2, <1>5, <2>1, <3>1, OverlappedSteps DEF IInv, Overlapped
  <2> QED BY <1>3, <1>4, <2>2, <2>3, <2>4, <2>5, <2>6 DEF IInv
<1> QED BY <1>7, <1>8, <1>9

-----------------------------------------------------------------------------
(* Steps that move lines from buffer to buffer.                            *)

LEMMA BufferTimes ==
  ASSUME Types, NEW l
  PROVE  /\ Times(l, batch) \in Nat /\ Times(l, m_fmt_buf) \in Nat /\ Times(l, m_write_buf) \in Nat
         /\ Times(l, buf) \in Nat /\ Times(l, output) \in Nat
         /\ (Times(l, batch))' = Times(l, batch') /\ (Times(l, m_fmt_buf))' = Times(l, m_fmt_buf')
         /\ (Times(l, m_write_buf))' = Times(l, m_write_buf') /\ (Times(l, buf))' = Times(l, buf')
         /\ (Times(l, output))' = Times(l, output')
<1>1. /\ Times(l, batch) \in Nat /\ Times(l, m_fmt_buf) \in Nat /\ Times(l, m_write_buf) \in Nat
      /\ Times(l, buf) \in Nat /\ Times(l, output) \in Nat
  BY TimesType DEF Types
<1>2. /\ (Times(l, batch))' = Times(l, batch') /\ (Times(l, m_fmt_buf))' = Times(l, m_fmt_buf')
      /\ (Times(l, m_write_buf))' = Times(l, m_write_buf') /\ (Times(l, buf))' = Times(l, buf')
      /\ (Times(l, output))' = Times(l, output')
  BY DEF Times
<1> QED BY <1>1, <1>2

LEMMA HandOverMoves ==
  ASSUME Types, NEW lines \in Seq(Lines), NEW cond, HandOver(lines, cond)
  PROVE  /\ m_fmt_buf' \in Seq(Lines) /\ m_write_buf' \in Seq(Lines)
         /\ writer' = writer \/ (writer' = "lock" /\ writer = "asleep")
         /\ \A l : Times(l, m_fmt_buf') + Times(l, m_write_buf') = Times(l, lines) + Times(l, m_write_buf)
<1>1. \A l : Times(l, lines) \in Nat /\ Times(l, m_write_buf) \in Nat
  BY TimesType DEF Types
<1>2. CASE cond
  <2>1. m_write_buf' = lines /\ m_fmt_buf' = m_write_buf /\ NotifyWriter
    BY <1>2 DEF HandOver
  <2> QED BY <1>1, <2>1 DEF NotifyWriter, Types
<1>3. CASE ~cond
  <2>1. m_fmt_buf' = lines /\ UNCHANGED <<m_write_buf, writer>>
    BY <1>3 DEF HandOver
  <2> QED BY <1>1, <2>1 DEF Types
<1> QED BY <1>2, <1>3

LEMMA PollEndInv == ASSUME IInv, PollEnd PROVE IInv'
<1>1. UNCHANGED <<script, m_running, m_generation, lifecycle, rings, m_slots, pc, next,
                  buf, m_log_fd, output, misplaced, published, exposed>>
  BY DEF PollEnd, lifeVars, logVars, fileVars, stopVars
<1>2. /\ consumer = "poll" /\ consumer' \in {"idle", "top"} /\ m_poll_index' = idx - 1
      /\ idx' = 1 /\ polled' = 0 /\ batch' = <<>>
  BY DEF PollEnd, ConsumerStep
<1>3. PICK lines : lines = m_fmt_buf \o batch
  OBVIOUS
<1>4. lines \in Seq(Lines) /\ \A l : Times(l, lines) = Times(l, m_fmt_buf) + Times(l, batch)
  BY <1>3, TimesConcat DEF IInv, Types
<1>5. PICK cond : HandOver(lines, cond)
  BY <1>3 DEF PollEnd, FormatLines
<1>6. /\ m_fmt_buf' \in Seq(Lines) /\ m_write_buf' \in Seq(Lines)
      /\ writer' = writer \/ (writer' = "lock" /\ writer = "asleep")
      /\ \A l : Times(l, m_fmt_buf') + Times(l, m_write_buf') = Times(l, lines) + Times(l, m_write_buf)
  BY <1>4, <1>5, HandOverMoves DEF IInv
<1>7. Types'
  <2>1. m_poll_index' \in Nat
    BY <1>2 DEF IInv, Types
  <2> QED BY <1>1, <1>2, <1>6, <2>1, SlotsTyped DEF IInv, Types, Running
<1>8. Numbered'
  BY <1>1, NumberedFrame DEF IInv
<1>9. Counted'
  <2>1. ASSUME NEW l \in Lines PROVE Outside(l)' = Outside(l)
    <3>1. /\ Times(l, batch') = 0 /\ Times(l, buf') = Times(l, buf) /\ Times(l, output') = Times(l, output)
          /\ Times(l, m_fmt_buf') \in Nat /\ Times(l, m_write_buf') \in Nat
      BY <1>1, <1>2, <1>6, TimesEmpty, TimesType
    <3>2. Times(l, m_fmt_buf') + Times(l, m_write_buf')
          = Times(l, m_fmt_buf) + Times(l, batch) + Times(l, m_write_buf)
      BY <1>4, <1>6
    <3> QED BY <3>1, <3>2, BufferTimes DEF Outside, IInv
  <2> QED BY <1>1, <2>1, CountedMoves DEF IInv
<1>10. Life'
  BY <1>1, <1>2 DEF IInv, Life, Running
<1>11. SlotsOK'
  BY <1>1, SlotsFrame DEF IInv
<1>12. Overlapped'
  BY <1>1, <1>2, OverlappedKeeps DEF IInv, Running
<1>13. FileOpen'
  BY <1>1, <1>2, <1>6 DEF IInv, FileOpen
<1> QED BY <1>7, <1>8, <1>9, <1>10, <1>11, <1>12, <1>13 DEF IInv

LEMMA LastHandOverInv == ASSUME IInv, LastHandOver PROVE IInv'
<1>1. UNCHANGED <<script, m_running, m_generation, lifecycle, rings, m_slots, m_poll_index, pc, next, idx,
                  polled, batch, buf, m_log_fd, output, misplaced, published, exposed>>
  BY DEF LastHandOver, lifeVars, ringVars, logVars, pollVars, fileVars, stopVars
<1>2. consumer = "handover" /\ consumer' = "done"
  BY DEF LastHandOver, ConsumerStep
<1>3. /\ m_fmt_buf' \in Seq(Lines) /\ m_write_buf' \in Seq(Lines)
      /\ writer' = writer \/ (writer' = "lock" /\ writer = "asleep")
      /\ \A l : Times(l, m_fmt_buf') + Times(l, m_write_buf') = Times(l, m_fmt_buf) + Times(l, m_write_buf)
  <2>1. CASE m_fmt_buf # <<>>
    <3>1. HandOver(m_fmt_buf, TRUE)
      BY <2>1 DEF LastHandOver
    <3> QED BY <3>1, HandOverMoves DEF IInv, Types
  <2>2. CASE m_fmt_buf = <<>>
    <3>1. NotifyWriter /\ UNCHANGED <<m_fmt_buf, m_write_buf>>
      BY <2>2 DEF LastHandOver, bufVars
    <3> QED BY <3>1 DEF NotifyWriter, IInv, Types
  <2> QED BY <2>1, <2>2
<1>4. Types'
  BY <1>1, <1>2, <1>3, SlotsTyped DEF IInv, Types
<1>5. Numbered'
  BY <1>1, NumberedFrame DEF IInv
<1>6. Counted'
  <2>1. ASSUME NEW l \in Lines PROVE Outside(l)' = Outside(l)
    <3>1. /\ Times(l, batch') = Times(l, batch) /\ Times(l, buf') = Times(l, buf)
          /\ Times(l, output') = Times(l, output)
          /\ Times(l, m_fmt_buf') \in Nat /\ Times(l, m_write_buf') \in Nat
      BY <1>1, <1>3, TimesType
    <3>2. Times(l, m_fmt_buf') + Times(l, m_write_buf') = Times(l, m_fmt_buf) + Times(l, m_write_buf)
      BY <1>3
    <3> QED BY <3>1, <3>2, BufferTimes DEF Outside, IInv
  <2> QED BY <1>1, <2>1, CountedMoves DEF IInv
<1>7. Life'
  BY <1>1, <1>2 DEF IInv, Life, Running
<1>8. SlotsOK'
  BY <1>1, SlotsFrame DEF IInv
<1>9. Overlapped'
  <2>1. \A q \in Threads : Line(q)' = Line(q)
    BY <1>1 DEF Line
  <2> QED BY <1>1, <1>2, <2>1, OverlappedSteps DEF IInv, Overlapped
<1>10. FileOpen'
  BY <1>1, <1>2, <1>3 DEF IInv, FileOpen
<1> QED BY <1>4, <1>5, <1>6, <1>7, <1>8, <1>9, <1>10 DEF IInv

LEMMA WriterTakeInv == ASSUME IInv, WriterTake PROVE IInv'
<1>1. UNCHANGED <<script, m_running, m_generation, lifecycle, rings, m_slots, m_poll_index, pc, next, consumer,
                  idx, polled, batch, m_fmt_buf, m_log_fd, output, misplaced, published, exposed>>
  BY DEF WriterTake, lifeVars, ringVars, logVars, pollVars, fileVars, stopVars
<1>2. writer = "lock" /\ writer' \in {"write", "leaving", "drowsy"}
  BY DEF WriterTake, WriterStep
<1>3. (buf' = m_write_buf /\ m_write_buf' = buf) \/ (buf' = buf /\ m_write_buf' = m_write_buf)
  BY DEF WriterTake
<1>4. Types'
  BY <1>1, <1>2, <1>3, SlotsTyped DEF IInv, Types
<1>5. Numbered'
  BY <1>1, NumberedFrame DEF IInv
<1>6. Counted'
  <2>1. ASSUME NEW l \in Lines PROVE Outside(l)' = Outside(l)
    <3>1. /\ Times(l, batch') = Times(l, batch) /\ Times(l, m_fmt_buf') = Times(l, m_fmt_buf)
          /\ Times(l, output') = Times(l, output)
      BY <1>1
    <3>2. \/ Times(l, buf') = Times(l, m_write_buf) /\ Times(l, m_write_buf') = Times(l, buf)
          \/ Times(l, buf') = Times(l, buf) /\ Times(l, m_write_buf') = Times(l, m_write_buf)
      BY <1>3
    <3> QED BY <3>1, <3>2, BufferTimes DEF Outside, IInv
  <2> QED BY <1>1, <2>1, CountedMoves DEF IInv
<1>7. Life'
  BY <1>1, LifeFrame DEF IInv
<1>8. SlotsOK'
  BY <1>1, SlotsFrame DEF IInv
<1>9. Overlapped'
  BY <1>1, OverlappedFrame DEF IInv
<1>10. FileOpen'
  BY <1>1, <1>2, <1>3 DEF IInv, FileOpen
<1> QED BY <1>4, <1>5, <1>6, <1>7, <1>8, <1>9, <1>10 DEF IInv

LEMMA WriteInv == ASSUME IInv, Write PROVE IInv'
<1>1. UNCHANGED <<script, m_running, m_generation, lifecycle, rings, m_slots, m_poll_index, pc, next, consumer,
                  idx, polled, batch, m_fmt_buf, m_write_buf, m_log_fd, published, exposed>>
  BY DEF Write, lifeVars, ringVars, logVars, pollVars, bufVars, stopVars
<1>2. /\ writer = "write" /\ writer' = "lock" /\ output' = output \o buf /\ buf' = <<>>
      /\ misplaced' = IF m_log_fd THEN misplaced ELSE misplaced \cup ToSet(buf)
  BY DEF Write, WriterStep
<1>3. output' \in Seq(Lines) /\ \A l : Times(l, output') = Times(l, output) + Times(l, buf)
  BY <1>2, TimesConcat DEF IInv, Types
<1>4. Types'
  BY <1>1, <1>2, <1>3, SlotsTyped DEF IInv, Types
<1>5. Numbered'
  BY <1>1, NumberedFrame DEF IInv
<1>6. Counted'
  <2>1. ASSUME NEW l \in Lines PROVE Outside(l)' = Outside(l)
    <3>1. /\ Times(l, batch') = Times(l, batch) /\ Times(l, m_fmt_buf') = Times(l, m_fmt_buf)
          /\ Times(l, m_write_buf') = Times(l, m_write_buf)
          /\ Times(l, buf') = 0 /\ Times(l, output') = Times(l, output) + Times(l, buf)
      BY <1>1, <1>2, <1>3, TimesEmpty
    <3> QED BY <3>1, BufferTimes DEF Outside, IInv
  <2> QED BY <1>1, <2>1, CountedMoves DEF IInv
<1>7. Life'
  BY <1>1, LifeFrame DEF IInv
<1>8. SlotsOK'
  BY <1>1, SlotsFrame DEF IInv
<1>9. Overlapped'
  BY <1>1, OverlappedFrame DEF IInv
<1>10. FileOpen'
  <2> SUFFICES ASSUME m_generation <= 1 PROVE misplaced' = {}
    BY <1>1, <1>2 DEF IInv, FileOpen
  <2>1. CASE m_log_fd
    BY <1>2, <2>1 DEF IInv, FileOpen
  <2>2. CASE ~m_log_fd
    <3>1. buf = <<>> /\ misplaced = {}
      BY <1>2, <2>2 DEF IInv, FileOpen
    <3>2. ToSet(<<>>) = {}
      BY DEF ToSet
    <3> QED BY <1>2, <3>1, <3>2
  <2> QED BY <2>1, <2>2
<1> QED BY <1>4, <1>5, <1>6, <1>7, <1>8, <1>9, <1>10 DEF IInv

(* flushAll, from the crash handler or atexit.                             *)
LEMMA FlushAllInv ==
  ASSUME IInv, FlushAll,
         UNCHANGED <<lifeVars, ringVars, logVars, pollVars, fileVars, exposed, consumer, writer, buf>>
  PROVE  IInv'
<1>1. UNCHANGED <<script, m_running, m_generation, lifecycle, rings, m_slots, m_poll_index, pc, next, consumer,
                  idx, polled, batch, writer, buf, m_log_fd, misplaced, published, exposed>>
  BY DEF lifeVars, ringVars, logVars, pollVars, fileVars
<1>2. PICK a : a = output \o m_fmt_buf
  OBVIOUS
<1>3. \/ UNCHANGED <<output, m_fmt_buf, m_write_buf>>
      \/ output' = a \o m_write_buf /\ m_fmt_buf' = <<>> /\ m_write_buf' = <<>>
  BY <1>2 DEF FlushAll
<1>4. a \in Seq(Lines) /\ \A l : Times(l, a) = Times(l, output) + Times(l, m_fmt_buf)
  BY <1>2, TimesConcat DEF IInv, Types
<1>5. a \o m_write_buf \in Seq(Lines)
      /\ \A l : Times(l, a \o m_write_buf) = Times(l, a) + Times(l, m_write_buf)
  BY <1>4, TimesConcat DEF IInv, Types
<1>6. Types'
  <2>1. output' \in Seq(Lines) /\ m_fmt_buf' \in Seq(Lines) /\ m_write_buf' \in Seq(Lines)
    <3>1. /\ output \in Seq(Lines) /\ m_fmt_buf \in Seq(Lines) /\ m_write_buf \in Seq(Lines)
          /\ <<>> \in Seq(Lines)
      BY DEF IInv, Types
    <3> QED BY <1>3, <1>5, <3>1
  <2> QED BY <1>1, <2>1, SlotsTyped DEF IInv, Types
<1>7. Numbered'
  BY <1>1, NumberedFrame DEF IInv
<1>8. Counted'
  <2>1. ASSUME NEW l \in Lines PROVE Outside(l)' = Outside(l)
    <3>1. Times(l, batch') = Times(l, batch) /\ Times(l, buf') = Times(l, buf)
      BY <1>1
    <3>2. \/ /\ Times(l, output') = Times(l, output) /\ Times(l, m_fmt_buf') = Times(l, m_fmt_buf)
             /\ Times(l, m_write_buf') = Times(l, m_write_buf)
          \/ /\ Times(l, output') = Times(l, output) + Times(l, m_fmt_buf) + Times(l, m_write_buf)
             /\ Times(l, m_fmt_buf') = 0 /\ Times(l, m_write_buf') = 0
      BY <1>3, <1>4, <1>5, TimesEmpty
    <3> QED BY <3>1, <3>2, BufferTimes DEF Outside, IInv
  <2> QED BY <1>1, <2>1, CountedMoves DEF IInv
<1>9. Life'
  BY <1>1, LifeFrame DEF IInv
<1>10. SlotsOK'
  BY <1>1, SlotsFrame DEF IInv
<1>11. Overlapped'
  BY <1>1, OverlappedFrame DEF IInv
<1>12. FileOpen'
  BY <1>1, <1>3 DEF IInv, FileOpen
<1> QED BY <1>6, <1>7, <1>8, <1>9, <1>10, <1>11, <1>12 DEF IInv

-----------------------------------------------------------------------------
(* Theorems.                                                               *)

LEMMA InitInv == ASSUME Init PROVE IInv
<1>1. Types
  <2>1. /\ rings \in [Threads -> Seq(RingType)] /\ pc \in [Threads -> {"idle", "start", "flushed"} \cup Inside]
        /\ next \in [Threads -> Nat] /\ m_slots \in Seq(AllSlots)
    BY DEF Init
  <2>2. /\ batch \in Seq(Lines) /\ m_fmt_buf \in Seq(Lines) /\ m_write_buf \in Seq(Lines)
        /\ buf \in Seq(Lines) /\ output \in Seq(Lines) /\ published \in SUBSET Lines
    BY DEF Init
  <2>3. /\ script \in Scripts /\ m_running \in BOOLEAN /\ m_generation \in Nat /\ m_poll_index \in Nat
        /\ consumer = "none" /\ writer = "none" /\ idx = 1 /\ polled = 0
    BY DEF Init
  <2> QED BY <2>1, <2>2, <2>3 DEF Types
<1>2. Numbered
  BY ScriptsAssumption DEF Init, Numbered
<1>3. AllSlots = {}
  BY DEF Init, AllSlots
<1>4. Counted
  <2>1. ASSUME NEW l \in Lines PROVE IsFiniteSet(Where(l)) /\ Cardinality(Where(l)) = 0 /\ Outside(l) = 0
    <3>1. Where(l) = {}
      BY <1>3 DEF Where
    <3>2. Outside(l) = 0
      BY TimesEmpty DEF Init, Outside
    <3> QED BY <3>1, <3>2, FS_EmptySet
  <2> QED BY <1>3, <2>1 DEF Init, Counted
<1>5. Life /\ FileOpen
  BY DEF Init, Life, FileOpen, Inside
<1>6. SlotsOK /\ Overlapped
  BY <1>3 DEF Init, SlotsOK, Overlapped, Inside
<1> QED BY <1>1, <1>2, <1>4, <1>5, <1>6 DEF IInv

LEMMA StutterInv == ASSUME IInv, UNCHANGED vars PROVE IInv'
<1>1. UNCHANGED <<script, m_running, m_generation, lifecycle, rings, m_slots, m_poll_index, pc, next, consumer,
                  idx, polled, batch, m_fmt_buf, m_write_buf, writer, buf, m_log_fd, output, misplaced,
                  published, exposed>>
  BY DEF vars, lifeVars, ringVars, logVars, pollVars, bufVars, fileVars, stopVars
<1>2. Types'
  BY <1>1, SlotsTyped DEF IInv, Types
<1> QED BY <1>1, <1>2, NumberedFrame, CountedFrame, LifeFrame, SlotsFrame, OverlappedFrame, FileFrame DEF IInv

-----------------------------------------------------------------------------
(* The layout of the arguments.                                            *)

(* The units of item n come behind those of the items before it.           *)
LEMMA SumStep ==
  ASSUME NEW size, NEW n \in Nat, \A i \in 1..n : size[i] \in Nat
  PROVE  /\ IsFiniteSet(UNION {{i} \X (1..size[i]) : i \in 1..n}) /\ Sum(size, n) \in Nat
         /\ n > 0 => Sum(size, n) = Sum(size, n - 1) + size[n]
<1> DEFINE item(i) == {i} \X (1..size[i])
           units(m) == UNION {item(i) : i \in 1..m}
<1>1. ASSUME NEW m \in Nat, m <= n PROVE IsFiniteSet(units(m))
  <2>1. ASSUME NEW i \in 1..m PROVE IsFiniteSet(item(i))
    <3>1. IsFiniteSet({i})
      BY FS_Singleton
    <3>2. PICK b \in Nat : b = size[i]
      BY <1>1
    <3>3. IsFiniteSet(1..b)
      BY FS_Interval
    <3> QED BY <3>1, <3>2, <3>3, FS_Product
  <2>2. IsFiniteSet({item(i) : i \in 1..m})
    <3>1. IsFiniteSet(1..m)
      BY FS_Interval
    <3> HIDE DEF item
    <3>2. PICK f : f = [i \in 1..m |-> item(i)]
      OBVIOUS
    <3>3. f \in Surjection(1..m, {item(i) : i \in 1..m})
      BY <3>2 DEF Surjection
    <3> QED BY <3>1, <3>3, FS_Surjection
  <2> HIDE DEF item
  <2>3. \A T \in {item(i) : i \in 1..m} : IsFiniteSet(T)
    BY <2>1
  <2> QED BY <2>2, <2>3, FS_UNION
<1>2. \A m \in Nat : Sum(size, m) = Cardinality(units(m))
  BY DEF Sum
<1>3. ASSUME n > 0 PROVE Sum(size, n) = Sum(size, n - 1) + size[n]
  <2>1. PICK m \in Nat : m = n - 1 /\ m <= n
    BY <1>3
  <2>2. units(n) = units(m) \cup item(n) /\ units(m) \cap item(n) = {}
    <3>1. 1..n = (1..m) \cup {n} /\ n \notin 1..m
      BY <2>1
    <3> QED BY <3>1
  <2>3. IsFiniteSet(item(n)) /\ Cardinality(item(n)) = size[n]
    <3>1. PICK b \in Nat : b = size[n]
      BY <1>3
    <3>2. IsFiniteSet(1..size[n]) /\ Cardinality(1..size[n]) = size[n]
      <4>1. IsFiniteSet(1..b) /\ Cardinality(1..b) = IF 1 > b THEN 0 ELSE b - 1 + 1
        BY FS_Interval
      <4> QED BY <3>1, <4>1
    <3>3. PICK f : f = [k \in 1..size[n] |-> <<n, k>>]
      OBVIOUS
    <3>4. f \in Bijection(1..size[n], item(n))
      BY <3>3 DEF Bijection, Injection, Surjection, IsInjective
    <3> QED BY <3>2, <3>4, FS_Bijection DEF ExistsBijection
  <2> HIDE DEF item, units
  <2>4. IsFiniteSet(units(m)) /\ Cardinality(units(m)) \in Nat
    BY <1>1, <2>1, FS_CardinalityType
  <2>5. Cardinality(units(n)) = Cardinality(units(m)) + Cardinality(item(n)) - Cardinality({})
    BY <2>2, <2>3, <2>4, FS_Union
  <2>6. Cardinality({}) = 0 /\ size[n] \in Nat
    BY <1>3, FS_EmptySet
  <2>7. Sum(size, n) = Cardinality(units(n)) /\ Sum(size, n - 1) = Cardinality(units(m))
    BY <1>2, <2>1
  <2> QED BY <2>3, <2>4, <2>5, <2>6, <2>7
<1>4. Sum(size, n) \in Nat
  <2> HIDE DEF units
  <2>1. IsFiniteSet(units(n))
    BY <1>1
  <2> QED BY <1>2, <2>1, FS_CardinalityType
<1> QED BY <1>1, <1>3, <1>4

LEMMA SumMonotone ==
  ASSUME NEW size, NEW n \in Nat, \A i \in 1..n : size[i] \in Nat, NEW m \in Nat, m <= n
  PROVE  Sum(size, m) \in Nat /\ Sum(size, n) \in Nat /\ Sum(size, m) <= Sum(size, n)
<1> DEFINE units(k) == UNION {{i} \X (1..size[i]) : i \in 1..k}
<1>1. IsFiniteSet(units(n)) /\ Sum(size, n) \in Nat /\ Sum(size, m) \in Nat
  <2>1. \A i \in 1..m : size[i] \in Nat
    OBVIOUS
  <2> QED BY <2>1, SumStep
<1>2. units(m) \subseteq units(n)
  <2>1. 1..m \subseteq 1..n
    OBVIOUS
  <2> QED BY <2>1
<1>3. Cardinality(units(m)) <= Cardinality(units(n))
  BY <1>1, <1>2, FS_Subset
<1> QED BY <1>1, <1>3 DEF Sum

LEMMA SumNone == \A size : Sum(size, 0) = 0
<1> SUFFICES ASSUME NEW size PROVE Sum(size, 0) = 0
  OBVIOUS
<1>1. UNION {{i} \X (1..size[i]) : i \in 1..0} = {}
  OBVIOUS
<1> QED BY <1>1, FS_EmptySet DEF Sum

(* The fixed parts come one behind the other, and the strings behind them.  *)
LEMMA Places ==
  ASSUME NEW args, NEW n \in Nat, Len(args) = n, DOMAIN args = 1..n, WellFormed(args)
  PROVE  /\ \A i \in 1..n : /\ FixedSize(args[i]) \in Nat /\ FixedSize(args[i]) >= 1
                            /\ TextSize(args[i]) \in Nat
                            /\ FixedAt(args, i) \in Nat /\ FixedAt(args, i) >= 2
                            /\ TextAt(args, i) \in Nat
                            /\ FixedAt(args, i) + FixedSize(args[i]) <= TextAt(args, 1)
                            /\ TextAt(args, 1) <= TextAt(args, i)
                            /\ TextAt(args, i) + TextSize(args[i]) <= TotalSize(args)
         /\ \A i, j \in 1..n : i < j =>
               /\ FixedAt(args, i) + FixedSize(args[i]) <= FixedAt(args, j)
               /\ TextAt(args, i) + TextSize(args[i]) <= TextAt(args, j)
         /\ TextAt(args, 1) \in Nat /\ TotalSize(args) \in Nat /\ TextAt(args, 1) <= TotalSize(args)
<1>1. PICK f, g, V : f = FixedSizes(args) /\ g = TextSizes(args) /\ V = ValuesAt(args)
  OBVIOUS
<1>2. V \in Nat /\ V >= 2
  BY <1>1 DEF ValuesAt
<1>3. \A i \in 1..n : f[i] = FixedSize(args[i]) /\ g[i] = TextSize(args[i])
  BY <1>1 DEF FixedSizes, TextSizes
<1>4. \A i \in 1..n : f[i] \in Nat /\ f[i] >= 1
  BY <1>3 DEF FixedSize, EncodedSize
<1>5. \A i \in 1..n : g[i] \in Nat
  <2> SUFFICES ASSUME NEW i \in 1..n PROVE TextSize(args[i]) \in Nat
    BY <1>3
  <2>1. PICK a : a = args[i]
    OBVIOUS
  <2>2. IsText(a) => a.val \in Seq(ToSet(a.val))
    BY <2>1 DEF WellFormed
  <2>3. CASE IsText(a)
    <3>1. PICK S : a.val \in Seq(S \cup {Null})
      <4>1. a.val \in Seq(ToSet(a.val) \cup {Null})
        BY <2>2, <2>3
      <4> QED BY <4>1
    <3>2. Append(a.val, Null) \in Seq(S \cup {Null})
      BY <3>1
    <3>3. Len(Text(a)) \in Nat
      BY <3>1, <3>2 DEF Text
    <3> QED BY <2>1, <3>3 DEF TextSize
  <2>4. CASE ~IsText(a)
    BY <2>1, <2>4 DEF TextSize
  <2> QED BY <2>3, <2>4
<1>6. \A i \in Int : FixedAt(args, i) = V + Sum(f, i - 1)
                     /\ TextAt(args, i) = V + Sum(f, n) + Sum(g, i - 1)
  BY <1>1 DEF FixedAt, TextAt
<1>7. TotalSize(args) = V + Sum(f, n) + Sum(g, n)
  <2>1. (n + 1) - 1 = n
    OBVIOUS
  <2> QED BY <1>6, <2>1 DEF TotalSize
<1>8. \A i \in 1..n : /\ Sum(f, i - 1) \in Nat /\ Sum(f, i) = Sum(f, i - 1) + f[i]
                      /\ Sum(g, i - 1) \in Nat /\ Sum(g, i) = Sum(g, i - 1) + g[i]
  <2> SUFFICES ASSUME NEW i \in 1..n
               PROVE  /\ Sum(f, i - 1) \in Nat /\ Sum(f, i) = Sum(f, i - 1) + f[i]
                      /\ Sum(g, i - 1) \in Nat /\ Sum(g, i) = Sum(g, i - 1) + g[i]
    OBVIOUS
  <2>1. i \in Nat /\ i > 0 /\ i - 1 \in Nat /\ (\A k \in 1..i : k \in 1..n) /\ (\A k \in 1..(i - 1) : k \in 1..n)
    OBVIOUS
  <2>2. (\A k \in 1..i : f[k] \in Nat /\ g[k] \in Nat) /\ (\A k \in 1..(i - 1) : f[k] \in Nat /\ g[k] \in Nat)
    BY <1>4, <1>5, <2>1
  <2>3. Sum(f, i) = Sum(f, i - 1) + f[i] /\ Sum(g, i) = Sum(g, i - 1) + g[i]
    BY <2>1, <2>2, SumStep
  <2>4. Sum(f, i - 1) \in Nat /\ Sum(g, i - 1) \in Nat
    BY <2>1, <2>2, SumStep
  <2> QED BY <2>3, <2>4
<1>9. \A i, j \in 0..n : i <= j => /\ Sum(f, i) \in Nat /\ Sum(f, j) \in Nat /\ Sum(f, i) <= Sum(f, j)
                                   /\ Sum(g, i) \in Nat /\ Sum(g, j) \in Nat /\ Sum(g, i) <= Sum(g, j)
  <2> SUFFICES ASSUME NEW i \in 0..n, NEW j \in 0..n, i <= j
               PROVE  /\ Sum(f, i) \in Nat /\ Sum(f, j) \in Nat /\ Sum(f, i) <= Sum(f, j)
                      /\ Sum(g, i) \in Nat /\ Sum(g, j) \in Nat /\ Sum(g, i) <= Sum(g, j)
    OBVIOUS
  <2>1. i \in Nat /\ j \in Nat /\ \A k \in 1..j : k \in 1..n
    OBVIOUS
  <2>2. \A k \in 1..j : f[k] \in Nat /\ g[k] \in Nat
    BY <1>4, <1>5, <2>1
  <2> QED BY <2>1, <2>2, SumMonotone
<1>10. Sum(g, 0) = 0 /\ Sum(f, n) \in Nat /\ Sum(g, n) \in Nat
  BY <1>9, SumNone
<1>11. ASSUME NEW i \in 1..n
       PROVE  /\ FixedAt(args, i) \in Nat /\ FixedAt(args, i) >= 2
              /\ TextAt(args, i) \in Nat
              /\ FixedAt(args, i) + f[i] <= TextAt(args, 1)
              /\ TextAt(args, 1) <= TextAt(args, i)
              /\ TextAt(args, i) + g[i] <= TotalSize(args)
  <2>1. PICK a \in Nat, b \in Nat, c \in Nat, d \in Nat :
           a = Sum(f, i - 1) /\ b = Sum(g, i - 1) /\ c = Sum(f, n) /\ d = Sum(g, n)
    BY <1>8, <1>10
  <2>2. /\ FixedAt(args, i) = V + a /\ TextAt(args, i) = V + c + b
        /\ TextAt(args, 1) = V + c + 0 /\ TotalSize(args) = V + c + d
    <3>1. 1 - 1 = 0 /\ i \in Int
      OBVIOUS
    <3>2. TextAt(args, 1) = V + c + Sum(g, 0)
      BY <1>6, <2>1, <3>1
    <3> QED BY <1>6, <1>7, <1>10, <2>1, <3>1, <3>2
  <2>3. a + f[i] <= c /\ b + g[i] <= d
    <3>1. i \in 0..n /\ n \in 0..n /\ i <= n
      OBVIOUS
    <3>2. Sum(f, i) <= c /\ Sum(g, i) <= d
      BY <1>9, <2>1, <3>1
    <3> QED BY <1>8, <2>1, <3>2
  <2>4. PICK x \in Nat, y \in Nat : x = f[i] /\ y = g[i]
    BY <1>4, <1>5
  <2>5. a + x <= c /\ b + y <= d
    BY <2>3, <2>4
  <2>6. PICK w \in Nat : w = V /\ w >= 2
    BY <1>2
  <2>7. /\ w + a \in Nat /\ w + a >= 2 /\ w + c + b \in Nat /\ w + a + x <= w + c + 0
        /\ w + c + 0 <= w + c + b /\ w + c + b + y <= w + c + d
    BY <2>5, <2>6
  <2> QED BY <2>2, <2>4, <2>6, <2>7
<1>12. ASSUME NEW i \in 1..n, NEW j \in 1..n, i < j
       PROVE  /\ FixedAt(args, i) + f[i] <= FixedAt(args, j)
              /\ TextAt(args, i) + g[i] <= TextAt(args, j)
  <2>1. PICK m \in 0..n : m = j - 1 /\ i <= m /\ i \in 0..n
    BY <1>12
  <2>2. PICK a \in Nat, b \in Nat, c \in Nat, a2 \in Nat, b2 \in Nat :
           /\ a = Sum(f, i - 1) /\ b = Sum(g, i - 1) /\ c = Sum(f, n)
           /\ a2 = Sum(f, m) /\ b2 = Sum(g, m)
    BY <1>8, <1>9, <1>10, <2>1
  <2>3. /\ FixedAt(args, i) = V + a /\ FixedAt(args, j) = V + a2
        /\ TextAt(args, i) = V + c + b /\ TextAt(args, j) = V + c + b2
    <3>1. i \in Int /\ j \in Int /\ j - 1 = m
      BY <2>1
    <3>2. /\ FixedAt(args, i) = V + Sum(f, i - 1) /\ FixedAt(args, j) = V + Sum(f, m)
          /\ TextAt(args, i) = V + Sum(f, n) + Sum(g, i - 1) /\ TextAt(args, j) = V + Sum(f, n) + Sum(g, m)
      BY <1>6, <3>1
    <3> QED BY <2>2, <3>2
  <2>4. a + f[i] <= a2 /\ b + g[i] <= b2
    <3>1. Sum(f, i) <= a2 /\ Sum(g, i) <= b2
      BY <1>9, <2>1, <2>2
    <3> QED BY <1>8, <2>2, <3>1
  <2>5. PICK x \in Nat, y \in Nat : x = f[i] /\ y = g[i]
    BY <1>4, <1>5
  <2>6. V + a + x <= V + a2 /\ V + c + b + y <= V + c + b2
    <3>1. a + x <= a2 /\ b + y <= b2
      BY <2>4, <2>5
    <3>2. PICK w \in Nat : w = V
      BY <1>2
    <3>3. w + a + x <= w + a2 /\ w + c + b + y <= w + c + b2
      BY <3>1
    <3> QED BY <3>2, <3>3
  <2> QED BY <2>3, <2>5, <2>6
<1>13. TextAt(args, 1) \in Nat /\ TotalSize(args) \in Nat /\ TextAt(args, 1) <= TotalSize(args)
  <2>1. TextAt(args, 1) = V + Sum(f, n) + 0
    <3>1. 1 - 1 = 0 /\ 1 \in Int
      OBVIOUS
    <3> QED BY <1>6, <1>10, <3>1
  <2> QED BY <1>2, <1>7, <1>10, <2>1
<1> QED BY <1>3, <1>4, <1>5, <1>11, <1>12, <1>13

(* What setArgs has left at the places of an argument.                     *)
LEMMA UnitsOf ==
  ASSUME NEW args, NEW n \in Nat, Len(args) = n, DOMAIN args = 1..n, WellFormed(args), NEW i \in 1..n
  PROVE  LET mem == SetArgs(args)
         IN /\ DOMAIN mem = 0..(TotalSize(args) - 1)
            /\ \A k \in 0..(FixedSize(args[i]) - 1) :
                  FixedAt(args, i) + k \in DOMAIN mem /\ mem[FixedAt(args, i) + k] = FixedUnit(args, i, k)
            /\ \A k \in 0..(TextSize(args[i]) - 1) :
                  /\ TextAt(args, i) + k \in DOMAIN mem
                  /\ mem[TextAt(args, i) + k] = [kind |-> "char", v |-> Text(args[i])[k + 1], k |-> 0]
<1> DEFINE mem == SetArgs(args)
           fixed(j) == {FixedAt(args, j) + k : k \in 0..(FixedSize(args[j]) - 1)}
           text(j) == {TextAt(args, j) + k : k \in 0..(TextSize(args[j]) - 1)}
           unit(j) == IF \E e \in DOMAIN args : j \in fixed(e)
                        THEN LET e == CHOOSE e \in DOMAIN args : j \in fixed(e)
                             IN FixedUnit(args, e, j - FixedAt(args, e))
                      ELSE IF \E e \in DOMAIN args : j \in text(e)
                        THEN LET e == CHOOSE e \in DOMAIN args : j \in text(e)
                             IN [kind |-> "char", v |-> Text(args[e])[j - TextAt(args, e) + 1], k |-> 0]
                      ELSE Uninitialized
<1>1. mem = [j \in 0..(TotalSize(args) - 1) |-> unit(j)]
  BY DEF SetArgs
<1> HIDE DEF mem
<1>2. \A e \in 1..n : /\ FixedSize(args[e]) \in Nat /\ TextSize(args[e]) \in Nat
                      /\ FixedAt(args, e) \in Nat /\ TextAt(args, e) \in Nat
                      /\ FixedAt(args, e) + FixedSize(args[e]) <= TextAt(args, 1)
                      /\ TextAt(args, 1) <= TextAt(args, e)
                      /\ TextAt(args, e) + TextSize(args[e]) <= TotalSize(args)
  BY Places
<1>3. \A e, j \in 1..n : e < j =>
         /\ FixedAt(args, e) + FixedSize(args[e]) <= FixedAt(args, j)
         /\ TextAt(args, e) + TextSize(args[e]) <= TextAt(args, j)
  BY Places
<1>4. TextAt(args, 1) \in Nat /\ TotalSize(args) \in Nat /\ TextAt(args, 1) <= TotalSize(args)
  BY Places
<1>5. DOMAIN mem = 0..(TotalSize(args) - 1)
  BY <1>1
<1>6. ASSUME NEW k \in 0..(FixedSize(args[i]) - 1)
      PROVE  FixedAt(args, i) + k \in DOMAIN mem /\ mem[FixedAt(args, i) + k] = FixedUnit(args, i, k)
  <2>1. PICK j \in Nat : j = FixedAt(args, i) + k
    BY <1>2
  <2>2. j \in fixed(i) /\ j < TextAt(args, 1) /\ j \in 0..(TotalSize(args) - 1)
    <3>1. PICK a \in Nat, b \in Nat, c \in Nat, d \in Nat :
             /\ a = FixedAt(args, i) /\ b = FixedSize(args[i]) /\ c = TextAt(args, 1) /\ d = TotalSize(args)
             /\ a + b <= c /\ c <= d
      BY <1>2, <1>4
    <3>2. k \in 0..(b - 1) /\ j = a + k
      BY <2>1, <3>1
    <3>3. j < c /\ j \in 0..(d - 1)
      <4>1. k \in Nat /\ k < b /\ j = a + k
        BY <3>2
      <4>2. a + b <= c /\ c <= d
        BY <3>1
      <4> QED BY <4>1, <4>2
    <3> QED BY <2>1, <3>1, <3>3
  <2>3. ASSUME NEW e \in DOMAIN args, j \in fixed(e) PROVE e = i
    <3>1. PICK m \in 0..(FixedSize(args[e]) - 1) : j = FixedAt(args, e) + m
      BY <2>3
    <3>2. PICK a \in Nat, b \in Nat, c \in Nat, d \in Nat :
             a = FixedAt(args, i) /\ b = FixedSize(args[i]) /\ c = FixedAt(args, e) /\ d = FixedSize(args[e])
      BY <1>2
    <3>3. k \in 0..(b - 1) /\ m \in 0..(d - 1) /\ a + k = c + m
      BY <2>1, <3>1, <3>2
    <3>4. e < i => c + d <= a
      BY <1>3, <3>2
    <3>5. i < e => a + b <= c
      BY <1>3, <3>2
    <3>6. ~(e < i) /\ ~(i < e)
      BY <3>3, <3>4, <3>5
    <3> QED BY <3>6
  <2>4. (CHOOSE e \in DOMAIN args : j \in fixed(e)) = i /\ \E e \in DOMAIN args : j \in fixed(e)
    <3> HIDE DEF fixed
    <3> QED BY <2>2, <2>3
  <2>5. j - FixedAt(args, i) = k
    BY <1>2, <2>1
  <2>6. unit(j) = FixedUnit(args, i, k)
    <3> HIDE DEF fixed
    <3> QED BY <2>4, <2>5
  <2> HIDE DEF unit
  <2> QED BY <1>1, <1>5, <2>1, <2>2, <2>6
<1>7. ASSUME NEW k \in 0..(TextSize(args[i]) - 1)
      PROVE  /\ TextAt(args, i) + k \in DOMAIN mem
             /\ mem[TextAt(args, i) + k] = [kind |-> "char", v |-> Text(args[i])[k + 1], k |-> 0]
  <2>1. PICK j \in Nat : j = TextAt(args, i) + k
    BY <1>2
  <2>2. j \in text(i) /\ j >= TextAt(args, 1) /\ j \in 0..(TotalSize(args) - 1)
    <3>1. PICK a \in Nat, b \in Nat, c \in Nat, d \in Nat :
             /\ a = TextAt(args, i) /\ b = TextSize(args[i]) /\ c = TextAt(args, 1) /\ d = TotalSize(args)
             /\ c <= a /\ a + b <= d
      BY <1>2, <1>4
    <3>2. k \in 0..(b - 1) /\ j = a + k
      BY <2>1, <3>1
    <3>3. j >= c /\ j \in 0..(d - 1)
      <4>1. k \in Nat /\ k < b /\ j = a + k
        BY <3>2
      <4>2. c <= a /\ a + b <= d
        BY <3>1
      <4> QED BY <4>1, <4>2
    <3> QED BY <2>1, <3>1, <3>3
  <2>3. ASSUME NEW e \in DOMAIN args, j \in text(e) PROVE e = i
    <3>1. PICK m \in 0..(TextSize(args[e]) - 1) : j = TextAt(args, e) + m
      BY <2>3
    <3>2. PICK a \in Nat, b \in Nat, c \in Nat, d \in Nat :
             a = TextAt(args, i) /\ b = TextSize(args[i]) /\ c = TextAt(args, e) /\ d = TextSize(args[e])
      BY <1>2
    <3>3. k \in 0..(b - 1) /\ m \in 0..(d - 1) /\ a + k = c + m
      BY <2>1, <3>1, <3>2
    <3>4. e < i => c + d <= a
      BY <1>3, <3>2
    <3>5. i < e => a + b <= c
      BY <1>3, <3>2
    <3>6. ~(e < i) /\ ~(i < e)
      BY <3>3, <3>4, <3>5
    <3> QED BY <3>6
  <2>4. ASSUME NEW e \in DOMAIN args, j \in fixed(e) PROVE FALSE
    <3>1. PICK m \in 0..(FixedSize(args[e]) - 1) : j = FixedAt(args, e) + m
      BY <2>4
    <3>2. PICK c \in Nat, d \in Nat, t \in Nat :
             c = FixedAt(args, e) /\ d = FixedSize(args[e]) /\ t = TextAt(args, 1) /\ c + d <= t
      BY <1>2, <1>4
    <3> QED BY <2>2, <3>1, <3>2
  <2>5. (CHOOSE e \in DOMAIN args : j \in text(e)) = i /\ (\E e \in DOMAIN args : j \in text(e))
        /\ ~\E e \in DOMAIN args : j \in fixed(e)
    <3> HIDE DEF fixed, text
    <3> QED BY <2>2, <2>3, <2>4
  <2>6. j - TextAt(args, i) + 1 = k + 1
    <3>1. PICK a \in Nat : a = TextAt(args, i)
      BY <1>2
    <3> QED BY <2>1, <3>1
  <2>7. unit(j) = [kind |-> "char", v |-> Text(args[i])[k + 1], k |-> 0]
    <3> HIDE DEF fixed, text
    <3> QED BY <2>5, <2>6
  <2> HIDE DEF unit
  <2> QED BY <1>1, <1>5, <2>1, <2>2, <2>7
<1> QED BY <1>5, <1>6, <1>7 DEF mem

LEMMA ReadBack ==
  ASSUME NEW args, NEW n \in Nat, Len(args) = n, DOMAIN args = 1..n, WellFormed(args), NEW i \in 1..n,
         Recoverable(args, i)
  PROVE  LET mem == SetArgs(args)
             p == FixedAt(args, i)
             a == args[i]
         IN IF a.tag \in Strings THEN ReadText(mem, p, a.tag) = a.val
            ELSE ReadValue(mem, p, FixedSize(a)) = a.val
<1> DEFINE mem == SetArgs(args)
<1>1. PICK a, p, t, s, g : /\ a = args[i] /\ p = FixedAt(args, i) /\ t = TextAt(args, i)
                           /\ s = FixedSize(a) /\ g = TextSize(a)
  OBVIOUS
<1>2. PICK tot : tot = TotalSize(args)
  OBVIOUS
<1>3. /\ s \in Nat /\ s >= 1 /\ g \in Nat /\ p \in Nat /\ p >= 2 /\ t \in Nat /\ tot \in Nat
      /\ p + s <= t /\ t + g <= tot
  <2>1. /\ s \in Nat /\ s >= 1 /\ g \in Nat /\ p \in Nat /\ p >= 2 /\ t \in Nat /\ tot \in Nat
        /\ p + s <= TextAt(args, 1) /\ TextAt(args, 1) <= t /\ t + g <= tot /\ TextAt(args, 1) \in Nat
    BY <1>1, <1>2, Places
  <2> QED BY <2>1
<1>4. (a.tag \in Strings => t < OffsetRange) /\ a.val # Null
      /\ (a.tag \in Strings => a.val \in Seq(ToSet(a.val)))
      /\ (a.tag = "Cstring" => \A k \in DOMAIN a.val : a.val[k] # Null)
  BY <1>1 DEF WellFormed, Recoverable, IsText, Strings
<1>5. DOMAIN mem = 0..(tot - 1)
  BY <1>2, UnitsOf
<1>6. \A k \in 0..(s - 1) : p + k \in DOMAIN mem /\ mem[p + k] = FixedUnit(args, i, k)
  BY <1>1, UnitsOf
<1>7. \A k \in 0..(g - 1) : t + k \in DOMAIN mem
                            /\ mem[t + k] = [kind |-> "char", v |-> Text(a)[k + 1], k |-> 0]
  BY <1>1, UnitsOf
<1> HIDE DEF mem
<1>8. \A k \in 0..(s - 1) : UnitAt(mem, p + k) = FixedUnit(args, i, k)
  BY <1>6 DEF UnitAt
<1>9. CASE a.tag \notin Strings
  <2>1. \A k \in 0..(s - 1) : FixedUnit(args, i, k) = [kind |-> "value", v |-> a.val, k |-> k]
    <3> SUFFICES ASSUME NEW k \in 0..(s - 1)
                 PROVE  FixedUnit(args, i, k) = [kind |-> "value", v |-> args[i].val, k |-> k]
      BY <1>1
    <3>1. args[i].tag \notin Strings
      BY <1>1, <1>9
    <3> QED BY <3>1 DEF FixedUnit, IsText
  <2>2. UnitAt(mem, p).v = a.val
    <3>1. p + 0 = p /\ 0 \in 0..(s - 1)
      BY <1>3
    <3> QED BY <1>8, <2>1, <3>1
  <2>3. \A k \in 0..(s - 1) : /\ Is(UnitAt(mem, p + k), "value")
                              /\ UnitAt(mem, p + k).v = UnitAt(mem, p).v
                              /\ UnitAt(mem, p + k).k = k
    BY <1>8, <2>1, <2>2 DEF Is
  <2>4. ReadValue(mem, p, s) = a.val
    BY <2>2, <2>3 DEF ReadValue
  <2> QED BY <1>1, <1>9, <2>4 DEF mem
<1>10. CASE a.tag \in Strings
  <2>1. PICK len \in Nat : len = Len(a.val) /\ DOMAIN a.val = 1..len
    BY <1>4, <1>10
  <2>2. IsText(a) /\ g = Len(Text(a))
    BY <1>1, <1>4, <1>10 DEF IsText, TextSize
  <2>3. g = (IF a.tag = "Cstring" THEN len + 1 ELSE len)
        /\ \A k \in 1..len : Text(a)[k] = a.val[k]
    <3>1. CASE a.tag = "Cstring"
      <4>1. PICK S : a.val \in Seq(S \cup {Null})
        <5>1. a.val \in Seq(ToSet(a.val) \cup {Null})
          BY <1>4, <1>10
        <5> QED BY <5>1
      <4>2. Len(Append(a.val, Null)) = len + 1 /\ \A k \in 1..len : Append(a.val, Null)[k] = a.val[k]
        BY <2>1, <4>1, AppendProperties
      <4> QED BY <2>2, <3>1, <4>2 DEF Text
    <3>2. CASE a.tag # "Cstring"
      BY <2>1, <2>2, <3>2 DEF Text
    <3> QED BY <3>1, <3>2
  <2>4. \A k \in 1..len : /\ t + k - 1 \in DOMAIN mem
                          /\ mem[t + k - 1] = [kind |-> "char", v |-> a.val[k], k |-> 0]
    <3> SUFFICES ASSUME NEW k \in 1..len
                 PROVE  t + k - 1 \in DOMAIN mem /\ mem[t + k - 1] = [kind |-> "char", v |-> a.val[k], k |-> 0]
      OBVIOUS
    <3>1. PICK m \in 0..(g - 1) : m = k - 1 /\ m + 1 = k /\ t + m = t + k - 1
      BY <1>3, <2>3
    <3> QED BY <1>7, <2>3, <3>1
  <2>5. ReadChars(mem, t, len) = a.val
    <3>1. \A j \in t..(t + len - 1) : Is(UnitAt(mem, j), "char")
      <4> SUFFICES ASSUME NEW j \in t..(t + len - 1) PROVE Is(UnitAt(mem, j), "char")
        OBVIOUS
      <4>1. PICK k \in 1..len : k = j - t + 1 /\ j = t + k - 1
        BY <1>3
      <4>2. j \in DOMAIN mem /\ mem[j] = [kind |-> "char", v |-> a.val[k], k |-> 0]
        BY <2>4, <4>1
      <4>3. mem[j].kind = "char"
        BY <4>2
      <4> QED BY <4>2, <4>3 DEF UnitAt, Is
    <3>2. [k \in 1..len |-> mem[t + k - 1].v] = [k \in 1..len |-> a.val[k]]
      <4>1. \A k \in 1..len : mem[t + k - 1].v = a.val[k]
        <5> SUFFICES ASSUME NEW k \in 1..len PROVE mem[t + k - 1].v = a.val[k]
          OBVIOUS
        <5>1. mem[t + k - 1] = [kind |-> "char", v |-> a.val[k], k |-> 0]
          BY <2>4
        <5> QED BY <5>1
      <4> QED BY <4>1, Zenon
    <3>3. a.val = [k \in 1..len |-> a.val[k]]
      BY <1>4, <1>10, <2>1
    <3> QED BY <3>1, <3>2, <3>3 DEF ReadChars
  <2>6. FixedUnit(args, i, 0) = [kind |-> "offset", v |-> t % OffsetRange, k |-> 0]
    BY <1>1, <1>10, <2>2 DEF FixedUnit
  <2>7. UnitAt(mem, p) = [kind |-> "offset", v |-> t % OffsetRange, k |-> 0]
    <3>1. p + 0 = p /\ 0 \in 0..(s - 1)
      BY <1>3
    <3> QED BY <1>8, <2>6, <3>1
  <2>8. t % OffsetRange = t
    <3>1. PICK c \in Nat : c = OffsetRange /\ c > 0
      BY LogArgsAssumption
    <3>2. t < c
      BY <1>3, <1>4, <1>10, <3>1
    <3>3. t % c = t
      BY <1>3, <3>1, <3>2
    <3> QED BY <3>1, <3>3
  <2>9. CASE a.tag = "Cstring"
    <3>1. t % OffsetRange = t /\ t # 0 /\ t >= 2 /\ g = len + 1
      BY <1>3, <2>3, <2>8, <2>9
    <3>2. mem[t + len] = [kind |-> "char", v |-> Null, k |-> 0] /\ t + len \in DOMAIN mem
      <4>1. len \in 0..(g - 1)
        BY <3>1
      <4>2. PICK S : a.val \in Seq(S \cup {Null})
        <5>1. a.val \in Seq(ToSet(a.val) \cup {Null})
          BY <1>4, <1>10
        <5> QED BY <5>1
      <4>3. Text(a)[len + 1] = Null
        BY <2>1, <2>9, <4>2, AppendProperties DEF Text
      <4> QED BY <1>7, <4>1, <4>3
    <3> DEFINE ends == {j \in DOMAIN mem : j >= t /\ Is(mem[j], "char") /\ mem[j].v = Null}
    <3>3. t + len \in ends
      BY <1>3, <3>2 DEF Is
    <3>4. ASSUME NEW j \in ends PROVE j \in Nat /\ t + len <= j
      <4>1. j \in Nat /\ j >= t /\ mem[j].v = Null
        BY <1>3, <1>5
      <4>2. ASSUME j < t + len PROVE FALSE
        <5>1. PICK k \in 1..len : k = j - t + 1 /\ j = t + k - 1
          BY <1>3, <4>1, <4>2
        <5>2. mem[j].v = a.val[k]
          <6>1. mem[j] = [kind |-> "char", v |-> a.val[k], k |-> 0]
            BY <2>4, <5>1
          <6> QED BY <6>1
        <5> QED BY <1>4, <2>1, <2>9, <4>1, <5>2
      <4> QED BY <1>3, <4>1, <4>2
    <3> HIDE DEF ends
    <3>5. (CHOOSE j \in ends : \A k \in ends : j <= k) = t + len
      <4>1. \A j \in ends : (\A k \in ends : j <= k) => j = t + len
        BY <1>3, <3>3, <3>4
      <4>2. \A k \in ends : t + len <= k
        BY <3>4
      <4> QED BY <3>3, <4>1, <4>2
    <3>6. PICK d : d = (t + len) - t /\ d = len
      BY <1>3
    <3>7. ReadCstring(mem, t) = a.val
      <4>1. ReadCstring(mem, t) = IF ends = {} THEN Junk
                                  ELSE ReadChars(mem, t, (CHOOSE j \in ends : \A k \in ends : j <= k) - t)
        BY DEF ReadCstring, ends
      <4>2. ends # {}
        BY <3>3
      <4>3. ReadCstring(mem, t) = ReadChars(mem, t, d)
        BY <3>5, <3>6, <4>1, <4>2
      <4>4. ReadChars(mem, t, d) = ReadChars(mem, t, len)
        BY <3>6
      <4> QED BY <2>5, <4>3, <4>4
    <3>8. ReadText(mem, p, a.tag) = a.val
      BY <2>7, <2>9, <3>1, <3>7 DEF ReadText, Is
    <3> QED BY <1>1, <1>10, <3>8 DEF mem
  <2>10. CASE a.tag = "StringView"
    <3>1. s = 3 /\ g = len
      BY <1>1, <2>3, <2>10 DEF FixedSize, EncodedSize
    <3>2. ReadValue(mem, p + 1, 2) = len
      <4>1. \A k \in 0..1 : UnitAt(mem, p + 1 + k) = [kind |-> "value", v |-> len, k |-> k]
        <5> SUFFICES ASSUME NEW k \in 0..1
                     PROVE  UnitAt(mem, p + 1 + k) = [kind |-> "value", v |-> len, k |-> k]
          OBVIOUS
        <5>1. PICK m \in 0..(s - 1) : m = k + 1 /\ m > 0 /\ m - 1 = k /\ p + 1 + k = p + m
          BY <1>3, <3>1
        <5>2. FixedUnit(args, i, m) = [kind |-> "value", v |-> Len(a.val), k |-> m - 1]
          BY <1>1, <1>10, <5>1 DEF FixedUnit
        <5> QED BY <1>8, <2>1, <5>1, <5>2
      <4>2. p + 1 + 0 = p + 1 /\ 0 \in 0..1 /\ 0..(2 - 1) = 0..1
        BY <1>3
      <4>3. UnitAt(mem, p + 1).v = len
        BY <4>1, <4>2
      <4>4. \A k \in 0..(2 - 1) : /\ Is(UnitAt(mem, p + 1 + k), "value")
                                  /\ UnitAt(mem, p + 1 + k).v = UnitAt(mem, p + 1).v
                                  /\ UnitAt(mem, p + 1 + k).k = k
        BY <4>1, <4>2, <4>3 DEF Is
      <4> QED BY <4>3, <4>4 DEF ReadValue
    <3>3. len # Junk
      BY LogArgsAssumption
    <3>4. ReadChars(mem, t % OffsetRange, len) = a.val
      <4>1. CASE len > 0
        BY <2>5, <2>8, <3>1, <4>1
      <4>2. CASE len = 0
        <5>1. PICK m \in Nat : m = t % OffsetRange
          <6>1. PICK c \in Nat : c = OffsetRange /\ c > 0
            BY LogArgsAssumption
          <6>2. t % c \in Nat
            BY <1>3, <6>1
          <6> QED BY <6>1, <6>2
        <5>2. m..(m + 0 - 1) = {}
          OBVIOUS
        <5>3. ReadChars(mem, m, 0) = [k \in 1..0 |-> mem[m + k - 1].v]
          BY <5>2 DEF ReadChars
        <5>4. [k \in 1..0 |-> mem[m + k - 1].v] = <<>> /\ a.val = <<>>
          <6>1. PICK S : a.val \in Seq(S)
            BY <1>4, <1>10
          <6>2. a.val = <<>>
            BY <2>1, <4>2, <6>1, EmptySeq
          <6> QED BY <6>2
        <5> QED BY <4>2, <5>1, <5>3, <5>4
      <4> QED BY <4>1, <4>2
    <3>5. ReadText(mem, p, a.tag) = a.val
      BY <2>7, <2>10, <3>2, <3>3, <3>4 DEF ReadText, Is
    <3> QED BY <1>1, <1>10, <3>5 DEF mem
  <2> QED BY <1>10, <2>9, <2>10 DEF Strings
<1> QED BY <1>9, <1>10

(* The passes agree: what the second writes fits what the first measured.  *)
LEMMA PassesAgree ==
  ASSUME NEW args, NEW n \in Nat, Len(args) = n, DOMAIN args = 1..n, WellFormed(args)
  PROVE  TotalSize(args) <= Room(args)
<1>1. MeasuredSizes(args) = FixedSizes(args)
  <2>1. \A i \in 1..n : MeasuredSize(args[i].tag) = EncodedSize(args[i].tag)
    <3> SUFFICES ASSUME NEW i \in 1..n
                 PROVE  MeasuredSize(args[i].tag) = EncodedSize(args[i].tag)
      OBVIOUS
    <3>1. PICK tag \in ArgType : tag = args[i].tag
      BY DEF WellFormed
    <3>2. MeasuredSize(tag) = EncodedSize(tag)
      BY <3>1 DEF MeasuredSize, EncodedSize, ArgType, Strings, Fallback
    <3> QED BY <3>1, <3>2
  <2> QED BY <2>1 DEF MeasuredSizes, FixedSizes, FixedSize
<1>2. TotalSize(args) = Measured(args)
  <2>1. (n + 1) - 1 = n
    OBVIOUS
  <2> QED BY <1>1, <2>1 DEF TotalSize, TextAt, Measured
<1>3. TotalSize(args) \in Nat
  BY Places
<1> QED BY <1>2, <1>3, LogArgsAssumption DEF Room

(* A sum looks only at the sizes it adds up.                               *)
LEMMA SumSame ==
  ASSUME NEW f, NEW g, NEW m, \A i \in 1..m : f[i] = g[i]
  PROVE  Sum(f, m) = Sum(g, m)
<1>1. UNION {{i} \X (1..f[i]) : i \in 1..m} = UNION {{i} \X (1..g[i]) : i \in 1..m}
  OBVIOUS
<1> QED BY <1>1 DEF Sum

(* runFormat gives back what setArgs was given.                            *)
LEMMA ArgsSurvive ==
  ASSUME NEW args, NEW n \in Nat, Len(args) = n, DOMAIN args = 1..n, WellFormed(args),
         NEW i \in 1..n, Recoverable(args, i)
  PROVE  RunFormat(Tags(args), SetArgs(args))[i] = Meant(args)[i]
<1> DEFINE tags == Tags(args)
           mem == SetArgs(args)
           sizes == [j \in DOMAIN tags |-> DecodedSize(tags[j])]
           at(j) == ValuesAt(tags) + Sum(sizes, j - 1)
<1>1. DOMAIN tags = 1..n /\ Len(tags) = n /\ \A j \in 1..n : tags[j] = args[j].tag
  BY DEF Tags
<1>2. \A j \in 1..i : DecodedSize(tags[j]) = FixedSize(args[j])
  <2> SUFFICES ASSUME NEW j \in 1..i PROVE DecodedSize(args[j].tag) = EncodedSize(args[j].tag)
    BY <1>1 DEF FixedSize
  <2>1. args[j].tag \notin Fallback
    BY DEF Recoverable
  <2> QED BY <2>1 DEF DecodedSize
<1>3. ValuesAt(tags) = ValuesAt(args)
  <2> HIDE DEF tags
  <2> QED BY <1>1 DEF ValuesAt
<1>4. Sum(sizes, i - 1) = Sum(FixedSizes(args), i - 1)
  <2>1. \A j \in 1..(i - 1) : sizes[j] = FixedSizes(args)[j]
    <3> SUFFICES ASSUME NEW j \in 1..(i - 1) PROVE sizes[j] = FixedSizes(args)[j]
      OBVIOUS
    <3>1. j \in 1..i /\ j \in 1..n
      OBVIOUS
    <3> HIDE DEF tags
    <3> QED BY <1>1, <1>2, <3>1 DEF FixedSizes
  <2> HIDE DEF sizes
  <2> QED BY <2>1, SumSame
<1>5. at(i) = FixedAt(args, i)
  <2> HIDE DEF tags, sizes
  <2> QED BY <1>3, <1>4 DEF FixedAt
<1> HIDE DEF mem, tags, at
<1>6. RunFormat(tags, mem) = [j \in DOMAIN tags |-> IF tags[j] \in Strings THEN ReadText(mem, at(j), tags[j])
                                                    ELSE ReadValue(mem, at(j), DecodedSize(tags[j]))]
  BY DEF RunFormat, at
<1>7. (IF tags[i] \in Strings THEN ReadText(mem, at(i), tags[i])
       ELSE ReadValue(mem, at(i), DecodedSize(tags[i]))) = args[i].val
  <2>1. i \in 1..i
    OBVIOUS
  <2> QED BY <1>1, <1>2, <1>5, <2>1, ReadBack DEF mem
<1>8. Meant(args)[i] = args[i].val
  BY DEF Meant, Recoverable
<1>9. RunFormat(tags, mem)[i] = args[i].val
  BY <1>1, <1>6, <1>7
<1> QED BY <1>8, <1>9 DEF tags, mem

-----------------------------------------------------------------------------
(* Theorems.                                                               *)

(* Whatever the threads log and whenever they flush, stop, crash or exit:   *)
(* every line is accounted for, no ring holds a line twice, and only lines  *)
(* whose log() a stop() overlapped are left in a ring nobody reads.         *)
THEOREM Invariance == Spec => []IInv
<1>1. Init => IInv
  BY InitInv
<1>2. IInv /\ [Next]_vars => IInv'
  <2> SUFFICES ASSUME IInv, [Next]_vars PROVE IInv'
    OBVIOUS
  <2>1. ASSUME NEW p \in Threads, LogCall(p) \/ Flush(p) \/ Log(p) PROVE IInv'
    BY <2>1, LogCallInv, FlushInv, StartInv, FindSlotInv, PushSlotInv, EnqueueInv DEF Log
  <2>2. CASE Consumer
    BY <2>2, OpenLogFileInv, ConsumerTopInv, PollInv, PollEndInv, IdleInv, DrainInv, LastHandOverInv
       DEF Consumer
  <2>3. CASE Writer
    BY <2>3, WriterTakeInv, WriterSleepsInv, WriteInv, CloseLogFileInv DEF Writer
  <2>4. CASE Stopper \/ StopFlag
    BY <2>4, StopNotifyInv, StopJoinInv, StopFlagInv DEF Stopper
  <2>5. CASE Crash \/ AtExit
    BY <2>5, FlushAllInv DEF Crash, AtExit
  <2>6. CASE UNCHANGED vars
    BY <2>6, StutterInv
  <2> QED BY <2>1, <2>2, <2>3, <2>4, <2>5, <2>6 DEF Next
<1> QED BY <1>1, <1>2, PTL DEF Spec

-----------------------------------------------------------------------------
(* The properties.                                                         *)

(* The lines of the scripts are lines.                                     *)
LEMMA AllLinesAreLines == AllLines \subseteq Lines
<1> SUFFICES ASSUME NEW s \in Scripts, NEW p \in Threads, NEW i \in DOMAIN s.lines[p]
             PROVE  <<p, i>> \in Lines
  BY DEF AllLines
<1>1. PICK S : s.lines[p] \in Seq(S)
  BY ScriptsAssumption
<1>2. i \in Nat
  BY <1>1
<1> QED BY <1>2 DEF Lines

(* A line somewhere in the output was published, so its thread logs it.    *)
LEMMA OutputIsPublished ==
  ASSUME IInv, NEW i \in DOMAIN output
  PROVE  /\ output[i][1] \in Threads /\ script \in Scripts
         /\ output[i][2] \in DOMAIN script.lines[output[i][1]]
<1>1. PICK l : l = output[i]
  OBVIOUS
<1>2. l \in Lines /\ output \in Seq(Lines)
  <2>1. output \in Seq(Lines)
    BY DEF IInv, Types
  <2> QED BY <1>1, <2>1
<1>3. Times(l, output) \in Nat /\ Times(l, output) # 0
  BY <1>1, <1>2, TimesType
<1>4. l \in published
  <2> SUFFICES ASSUME l \notin published PROVE FALSE
    OBVIOUS
  <2>1. Outside(l) = 0
    BY <1>2, Nowhere DEF IInv
  <2>2. /\ batch \in Seq(Lines) /\ m_fmt_buf \in Seq(Lines) /\ m_write_buf \in Seq(Lines)
        /\ buf \in Seq(Lines)
    BY DEF IInv, Types
  <2>3. Times(l, batch) \in Nat /\ Times(l, m_fmt_buf) \in Nat /\ Times(l, m_write_buf) \in Nat
        /\ Times(l, buf) \in Nat
    BY <2>2, TimesType
  <2> QED BY <1>3, <2>1, <2>3 DEF Outside
<1>5. PICK p \in Threads, n \in Nat : l = <<p, n>>
  BY <1>2 DEF Lines
<1>6. script \in Scripts /\ n >= 1 /\ n <= next[p] /\ next[p] \in Nat /\ next[p] <= Len(script.lines[p])
  BY <1>4, <1>5 DEF IInv, Types, Numbered
<1>7. PICK S : script.lines[p] \in Seq(S)
  BY <1>6, ScriptsAssumption
<1>8. n \in DOMAIN script.lines[p]
  <2>1. Len(script.lines[p]) \in Nat /\ DOMAIN script.lines[p] = 1..Len(script.lines[p])
    BY <1>7
  <2> QED BY <1>6, <2>1
<1> QED BY <1>1, <1>5, <1>6, <1>8

(* Every line that log() has published is in exactly one place: in a ring,  *)
(* in the consumer's batch, in one of the three buffers or written; through *)
(* a full ring, the swaps, a restart, a crash and the flush at exit.        *)
THEOREM EveryLineKept == Spec => []Conserved
<1>1. IInv => Conserved
  <2> SUFFICES ASSUME IInv, NEW l \in AllLines
               PROVE  Outside(l) + Cardinality(Where(l)) = IF l \in published THEN 1 ELSE 0
    BY DEF Conserved, Outside, Where
  <2>1. l \in Lines
    BY AllLinesAreLines
  <2> QED BY <2>1 DEF IInv, Counted
<1> QED BY <1>1, Invariance, PTL

(* Only a line whose log() a stop() overlapped can be in a ring that nobody *)
(* will read any more: of a slot start() has forgotten, or behind the final *)
(* drain.                                                                  *)
THEOREM NoneLeftBehind == Spec => []NotAbandoned
<1>1. IInv => NotAbandoned
  <2> SUFFICES ASSUME IInv, NEW s \in AllSlots, s \notin ToSet(m_slots) \/ consumer = "done"
               PROVE  Excused(s)
    BY DEF NotAbandoned, Excused
  <2>1. CASE ~Registered(s)
    BY <2>1 DEF IInv, Overlapped
  <2>2. CASE Registered(s)
    <3>1. PICK i \in DOMAIN m_slots : m_slots[i] = s
      BY <2>2 DEF Registered
    <3>2. consumer = "done"
      BY <3>1 DEF ToSet
    <3>3. Excused(m_slots[i])
      BY <3>2 DEF IInv, Overlapped
    <3> QED BY <3>1, <3>3
  <2> QED BY <2>1, <2>2
<1> QED BY <1>1, Invariance, PTL

(* What is written is what log() was given, read back out of the entry's    *)
(* bytes, for any list of up to 15 arguments: the second pass never leaves  *)
(* the room the first has made, and every argument is read back that is not *)
(* null, not behind a char, float or long double nor one itself, and whose  *)
(* string an offset reaches.  In the logger's first life it goes to the log *)
(* file.                                                                    *)
THEOREM WrittenAsLogged == Spec => []LinesIntact
<1>1. IInv => LinesIntact
  <2> SUFFICES ASSUME IInv PROVE LinesIntact
    OBVIOUS
  <2>1. m_generation = 1 => misplaced = {}
    BY DEF IInv, FileOpen
  <2>2. ASSUME NEW i \in DOMAIN output
        PROVE  script.lines[output[i][1]][output[i][2]] \in IntactLists
    <3>1. PICK p, n : p \in Threads /\ p = output[i][1] /\ n = output[i][2] /\ n \in DOMAIN script.lines[p]
      BY OutputIsPublished
    <3>2. script \in Scripts
      BY OutputIsPublished
    <3>3. PICK args : args = script.lines[p][n]
      OBVIOUS
    <3>4. args \in ToSet(script.lines[p])
      BY <3>1, <3>3 DEF ToSet
    <3>5. WellFormed(args)
      BY <3>1, <3>2, <3>4, ScriptsAssumption
    <3>6. PICK S : args \in Seq(S)
      BY <3>5 DEF WellFormed
    <3>7. Len(args) \in Nat /\ DOMAIN args = 1..Len(args)
      BY <3>6
    <3>8. Intact(args)
      BY <3>5, <3>7, PassesAgree, ArgsSurvive DEF Intact
    <3>9. args \in UNION {ToSet(s.lines[q]) : q \in Threads, s \in Scripts}
      BY <3>1, <3>2, <3>4
    <3> QED BY <3>1, <3>3, <3>8, <3>9 DEF IntactLists
  <2> QED BY <2>1, <2>2 DEF LinesIntact
<1> QED BY <1>1, Invariance, PTL
=============================================================================
