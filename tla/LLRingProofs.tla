----------------------------- MODULE LLRingProofs -----------------------------
(***************************************************************************)
(* Proofs about LLRing, for any number of threads, slots and values and    *)
(* for every modulus of the indices that is a multiple of the slots.       *)
(***************************************************************************)
EXTENDS LLRing, Integers, SequenceTheorems, WellFoundedInduction, TLAPS

(***************************************************************************)
(* The inductive invariant.  Both sides of the ring are alike: s is prod   *)
(* or cons, and a thread inside has reserved the entries from its head on. *)
(***************************************************************************)
CallRecord == [table : Seq(Values \cup {NoValue}), behavior : {"FIXED", "VARIABLE"}, head : Index,
               n : 0 .. MaxBurst, copied : Seq(Values \cup {NoValue})]

CallAt(place, c) ==
  /\ Len(c.copied) <= c.n
  /\ place \in {"head", "tail", "claim", "copy", "publish"} => Len(c.table) \in 1 .. MaxBurst
  /\ place \in {"claim", "copy", "publish"} => c.n \in 1 .. Len(c.table)
  /\ place \notin {"copy", "publish"} => c.copied = << >>
  /\ place = "copy" => Len(c.copied) < c.n
  /\ place = "publish" => Len(c.copied) = c.n

Types ==
  /\ prod \in [head : Index, tail : Index] /\ cons \in [head : Index, tail : Index]
  /\ ring \in [0 .. Mask -> Values \cup {NoValue}]
  /\ told \in [Threads -> 0 .. Mask]
  /\ pc \in [Threads -> {"idle", "head", "tail", "claim", "copy", "publish", "observe"}]
  /\ call \in [Threads -> CallRecord]
  /\ \A t \in Threads : CallAt(pc[t], call[t])
  /\ \A p \in Producers : call[p].table \in Seq(Values)

Ordered ==
  /\ Sub(cons.head, cons.tail) <= Sub(prod.tail, cons.tail)
  /\ Sub(prod.tail, cons.tail) <= Sub(prod.head, cons.tail)
  /\ Sub(prod.head, cons.tail) <= Mask

Side(t) == IF t \in Producers THEN prod ELSE cons
Lone(t) == IF t \in Producers THEN ~ MultiProducer ELSE ~ MultiConsumer
Room(t) == IF t \in Producers THEN FreeNow ELSE FilledNow

\* A head that was read is not far behind, and is the head if nobody else moves it.
NearAt(t, place, c) ==
  place \in {"tail", "claim"} =>
    /\ Sub(Side(t).head, c.head) <= Modulus - Slots
    /\ Lone(t) => c.head = Side(t).head

Near == \A t \in Threads : NearAt(t, pc[t], call[t])

\* What is claimed has room, unless the head has moved, when the claim fails.
FitsAt(t, place, c) == place = "claim" /\ c.head = Side(t).head => c.n <= Room(t)

Fits == \A t \in Threads : FitsAt(t, pc[t], call[t])

Inside(group, place) == {t \in group : place[t] \in {"copy", "publish"}}

\* The reserved entries are those from the tail to the head, each thread's part
\* followed by that of another thread or by the head.
Tiled(group, s, place, c) ==
  /\ \A t \in Inside(group, place) :
       Sub(c[t].head, s.tail) + c[t].n <= Sub(s.head, s.tail)
  /\ \A t, u \in Inside(group, place) : t # u =>
       \/ Sub(c[t].head, s.tail) + c[t].n <= Sub(c[u].head, s.tail)
       \/ Sub(c[u].head, s.tail) + c[u].n <= Sub(c[t].head, s.tail)
  /\ s.head # s.tail => \E t \in Inside(group, place) : c[t].head = s.tail
  /\ \A t \in Inside(group, place) : Add(c[t].head, c[t].n) # s.head =>
       \E u \in Inside(group, place) : c[u].head = Add(c[t].head, c[t].n)

\* What a lone producer or consumer has seen of the producers' tail, and what it
\* was told.
Watched(t, c) ==
  IF t \in Producers THEN c.head = prod.tail
  ELSE Sub(c.head, cons.tail) <= Sub(prod.tail, cons.tail)

ToldAt(t, place, c, number) ==
  Lone(t) =>
    /\ number <= Room(t)
    /\ place \in {"claim", "copy", "publish"} => number = 0
    /\ place = "observe" => Watched(t, c)

Told == \A t \in Threads : ToldAt(t, pc[t], call[t], told[t])

IInv ==
  /\ Types /\ Ordered /\ Near /\ Fits /\ Told
  /\ Tiled(Producers, prod, pc, call) /\ Tiled(Consumers, cons, pc, call)

USE LLRingAssumption

(***************************************************************************)
(* Indices and slots.                                                      *)
(***************************************************************************)
LEMMA Sizes ==
  /\ Slots \in Nat /\ Slots >= 2 /\ Modulus \in Nat /\ Modulus > Slots
  /\ Mask \in Nat /\ Mask = Slots - 1
  /\ MaxBurst \in 1 .. Slots
  /\ 0 \in Index
BY DEF Mask, Index

LEMMA ModulusAtLeast == Modulus >= Slots + Slots
<1>1. Modulus \in Nat /\ Slots \in Nat \ {0} /\ Modulus > Slots /\ Modulus % Slots = 0
  OBVIOUS
<1>2. CASE Modulus < Slots + Slots
  <2>1. Modulus % Slots = Modulus - Slots
    BY <1>1, <1>2
  <2> QED BY <1>1, <2>1
<1> QED BY <1>1, <1>2

LEMMA Reduced ==
  ASSUME NEW x \in Nat
  PROVE  /\ x < Modulus => x % Modulus = x
         /\ Modulus <= x /\ x < 2 * Modulus => x % Modulus = x - Modulus
BY Sizes

\* Wrapped differences and sums, by cases.
LEMMA Wrap ==
  /\ \A a, b \in Index : /\ b <= a => Sub(a, b) = a - b
                         /\ b > a => Sub(a, b) = a - b + Modulus
                         /\ Sub(a, b) \in Index
  /\ \A a \in Index, k \in 0 .. Slots :
       /\ a + k < Modulus => Add(a, k) = a + k
       /\ a + k >= Modulus => Add(a, k) = a + k - Modulus
       /\ Add(a, k) \in Index
<1>1. ASSUME NEW a \in Index, NEW b \in Index
      PROVE  /\ b <= a => Sub(a, b) = a - b
             /\ b > a => Sub(a, b) = a - b + Modulus
             /\ Sub(a, b) \in Index
  <2>1. CASE b <= a
    <3>1. a + Modulus - b \in Nat /\ Modulus <= a + Modulus - b /\ a + Modulus - b < 2 * Modulus
      BY <2>1, Sizes DEF Index
    <3>2. \A x \in Nat : Modulus <= x /\ x < 2 * Modulus => x % Modulus = x - Modulus
      BY Reduced
    <3>3. (a + Modulus - b) % Modulus = (a + Modulus - b) - Modulus
      BY <3>1, <3>2
    <3> QED BY <2>1, <3>3, Sizes DEF Sub, Index
  <2>2. CASE ~ (b <= a)
    <3>1. a + Modulus - b \in Nat /\ a + Modulus - b < Modulus
      BY <2>2, Sizes DEF Index
    <3>2. (a + Modulus - b) % Modulus = a + Modulus - b
      BY <3>1, Sizes
    <3> QED BY <2>2, <3>1, <3>2, Sizes DEF Sub, Index
  <2> QED BY <2>1, <2>2
<1>2. ASSUME NEW a \in Index, NEW k \in 0 .. Slots
      PROVE  /\ a + k < Modulus => Add(a, k) = a + k
             /\ a + k >= Modulus => Add(a, k) = a + k - Modulus
             /\ Add(a, k) \in Index
  <2>1. CASE a + k < Modulus
    <3>1. (a + k) % Modulus = a + k
      BY <2>1, Sizes DEF Index
    <3> QED BY <2>1, <3>1, Sizes DEF Add, Index
  <2>2. CASE ~ (a + k < Modulus)
    <3>1. a + k \in Nat /\ Modulus <= a + k /\ a + k < 2 * Modulus
      BY <2>2, Sizes DEF Index
    <3>2. \A x \in Nat : Modulus <= x /\ x < 2 * Modulus => x % Modulus = x - Modulus
      BY Reduced
    <3>3. (a + k) % Modulus = (a + k) - Modulus
      BY <3>1, <3>2
    <3> QED BY <2>2, <3>1, <3>3, Sizes DEF Add, Index
  <2> QED BY <2>1, <2>2
<1> QED BY <1>1, <1>2

LEMMA Differences ==
  ASSUME NEW a \in Index, NEW b \in Index
  PROVE  /\ Sub(a, b) \in Index /\ Sub(a, b) \in Nat /\ Sub(a, b) < Modulus
         /\ Sub(a, a) = 0
         /\ Sub(a, b) = 0 => a = b
<1>1. /\ a \in Nat /\ b \in Nat /\ a < Modulus /\ b < Modulus /\ Modulus \in Nat
      /\ \A i \in Index : i \in Nat /\ i < Modulus
  BY Sizes DEF Index
<1> PICK difference : difference = Sub(a, b)
  OBVIOUS
<1>2. /\ difference \in Index
      /\ b <= a => difference = a - b
      /\ b > a => difference = a - b + Modulus
  BY Wrap
<1>3. difference \in Nat /\ difference < Modulus
  BY <1>1, <1>2
<1>4. difference = 0 => a = b
  BY <1>1, <1>2
<1>5. Sub(a, a) = 0
  <2>1. a <= a /\ a - a = 0
    BY <1>1
  <2>2. Sub(a, a) = a - a
    BY <2>1, Wrap
  <2> QED BY <2>1, <2>2
<1> QED BY <1>2, <1>3, <1>4, <1>5

\* An index that goes on, and one that is seen from further on.
LEMMA Ahead ==
  ASSUME NEW a \in Index, NEW from \in Index, NEW k \in 0 .. Slots, Sub(a, from) + k < Modulus
  PROVE  Add(a, k) \in Index /\ Sub(Add(a, k), from) = Sub(a, from) + k
<1>1. /\ a \in Nat /\ from \in Nat /\ a < Modulus /\ from < Modulus /\ Modulus \in Nat
      /\ \A i \in Index : i \in Nat /\ i < Modulus
      /\ k \in Nat /\ k <= Slots /\ Slots < Modulus
  BY Sizes DEF Index
<1> PICK next : next = Add(a, k)
  OBVIOUS
<1>2. /\ next \in Index
      /\ a + k < Modulus => next = a + k
      /\ a + k >= Modulus => next = a + k - Modulus
  BY Wrap
<1>3. /\ from <= next => Sub(next, from) = next - from
      /\ from > next => Sub(next, from) = next - from + Modulus
      /\ from <= a => Sub(a, from) = a - from
      /\ from > a => Sub(a, from) = a - from + Modulus
  BY <1>2, Wrap
<1>4. next \in Nat /\ next < Modulus
  BY <1>1, <1>2
<1> QED BY <1>1, <1>2, <1>3, <1>4

LEMMA Behind ==
  ASSUME NEW a \in Index, NEW from \in Index, NEW k \in 0 .. Slots, k <= Sub(a, from)
  PROVE  Add(from, k) \in Index /\ Sub(a, Add(from, k)) = Sub(a, from) - k
<1>1. /\ a \in Nat /\ from \in Nat /\ a < Modulus /\ from < Modulus /\ Modulus \in Nat
      /\ \A i \in Index : i \in Nat /\ i < Modulus
      /\ k \in Nat /\ k <= Slots /\ Slots < Modulus
  BY Sizes DEF Index
<1> PICK next : next = Add(from, k)
  OBVIOUS
<1>2. /\ next \in Index
      /\ from + k < Modulus => next = from + k
      /\ from + k >= Modulus => next = from + k - Modulus
  BY Wrap
<1>3. /\ next <= a => Sub(a, next) = a - next
      /\ next > a => Sub(a, next) = a - next + Modulus
      /\ from <= a => Sub(a, from) = a - from
      /\ from > a => Sub(a, from) = a - from + Modulus
  BY <1>2, Wrap
<1>4. next \in Nat /\ next < Modulus
  BY <1>1, <1>2
<1> QED BY <1>1, <1>2, <1>3, <1>4

\* A number is so many times the slots and the slot it falls on.
LEMMA SlotIs ==
  ASSUME NEW x, NEW q \in Nat, NEW slot \in 0 .. Slots - 1, x = Slots * q + slot
  PROVE  x % Slots = slot
<1>1. Slots * q + slot \in Nat
  BY Sizes
<1>2. (Slots * q + slot) % Slots = slot
  BY <1>1, Sizes
<1> QED BY <1>2

LEMMA Distributes ==
  ASSUME NEW a \in Nat, NEW b \in Nat, NEW c \in Nat
  PROVE  a * (b + c) = a * b + a * c
OBVIOUS

LEMMA Division ==
  ASSUME NEW x \in Nat
  PROVE  \E q \in Nat, slot \in 0 .. Slots - 1 : x = Slots * q + slot /\ Slot(x) = slot
<1> DEFINE rests == {y \in Nat : \E q \in Nat : x = Slots * q + y}
<1>1. x \in rests
  <2>1. x = Slots * 0 + x
    BY Sizes
  <2> QED BY <2>1
<1>2. PICK slot \in rests : \A y \in rests : ~ (<<y, slot>> \in OpToRel(<, Nat))
  BY <1>1, NatLessThanWellFounded, WFMin
<1>3. \A y \in Nat : <<y, slot>> \in OpToRel(<, Nat) <=> y < slot
  BY DEF OpToRel
<1>4. PICK q \in Nat : x = Slots * q + slot
  OBVIOUS
<1>5. slot < Slots
  <2>1. SUFFICES ASSUME slot >= Slots
                 PROVE  FALSE
    BY Sizes
  <2>2. slot - Slots \in Nat /\ slot - Slots < slot
    BY <2>1, Sizes
  <2>3. x = Slots * (q + 1) + (slot - Slots)
    BY <1>4, Sizes
  <2>4. slot - Slots \in rests
    BY <2>2, <2>3
  <2> QED BY <1>2, <1>3, <2>2, <2>4
<1>6. slot \in 0 .. Slots - 1
  BY <1>5, Sizes
<1>7. x % Slots = slot
  BY <1>4, <1>6, SlotIs, Zenon
<1> QED BY <1>4, <1>6, <1>7, Zenon DEF Slot

LEMMA SlotWraps ==
  ASSUME NEW x \in Nat
  PROVE  Slot(x + Modulus) = Slot(x)
<1>1. PICK q \in Nat, slot \in 0 .. Slots - 1 : x = Slots * q + slot /\ Slot(x) = slot
  BY Division
<1>2. PICK m \in Nat, none \in 0 .. Slots - 1 : Modulus = Slots * m + none /\ Slot(Modulus) = none
  BY Division, Sizes
<1>3. none = 0
  BY <1>2 DEF Slot
<1>4. x + Modulus = Slots * (q + m) + slot
  <2> PICK a : a = Slots * q
    OBVIOUS
  <2> PICK b : b = Slots * m
    OBVIOUS
  <2>1. Slots * (q + m) = a + b
    BY Distributes, Sizes
  <2>2. a \in Int /\ b \in Int
    BY Sizes
  <2>3. x = a + slot /\ Modulus = b
    BY <1>1, <1>2, <1>3, <2>2
  <2> QED BY <2>1, <2>2, <2>3
<1>5. q + m \in Nat
  OBVIOUS
<1>6. (x + Modulus) % Slots = slot
  BY <1>4, <1>5, SlotIs, Zenon
<1> QED BY <1>1, <1>6, Zenon DEF Slot

\* Fewer than Slots entries are in different slots.
LEMMA SlotsApart ==
  ASSUME NEW x \in Nat, NEW d \in 1 .. Slots - 1
  PROVE  Slot(x + d) # Slot(x)
<1>1. PICK q \in Nat, slot \in 0 .. Slots - 1 : x = Slots * q + slot /\ Slot(x) = slot
  BY Division
<1>2. CASE slot + d < Slots
  <2>1. x + d = Slots * q + (slot + d) /\ slot + d \in 0 .. Slots - 1
    BY <1>1, <1>2, Sizes
  <2>2. Slot(x + d) = slot + d
    BY <2>1, SlotIs, Zenon DEF Slot
  <2> QED BY <1>1, <2>2, Sizes
<1>3. CASE slot + d >= Slots
  <2> PICK next : next = slot + d - Slots
    OBVIOUS
  <2>1. x + d = Slots * (q + 1) + next /\ next \in 0 .. Slots - 1
    BY <1>1, <1>3, Sizes
  <2>2. q + 1 \in Nat
    OBVIOUS
  <2>3. Slot(x + d) = next
    BY <2>1, <2>2, SlotIs, Zenon DEF Slot
  <2> QED BY <1>1, <2>3, Sizes
<1> QED BY <1>2, <1>3, Sizes

(***************************************************************************)
(* One side of the ring.                                                   *)
(***************************************************************************)
Shaped(group, s, place, c) ==
  /\ s \in [head : Index, tail : Index]
  /\ \A t \in group : c[t].head \in Index
  /\ \A t \in Inside(group, place) : c[t].n \in 1 .. Slots

\* A step of one side that reserves and frees nothing.
LEMMA TiledKept ==
  ASSUME NEW group, NEW s, NEW place, NEW c, NEW place2, NEW c2, Tiled(group, s, place, c),
         Inside(group, place2) = Inside(group, place),
         \A t \in Inside(group, place) : c2[t].head = c[t].head /\ c2[t].n = c[t].n
  PROVE  Tiled(group, s, place2, c2)
BY DEF Tiled

\* A thread that finds the head where it has read it reserves what follows.
LEMMA TiledClaim ==
  ASSUME NEW group, NEW s, NEW place, NEW c, NEW place2, NEW s2, NEW t \in group,
         Shaped(group, s, place, c), Tiled(group, s, place, c),
         t \notin Inside(group, place), Inside(group, place2) = Inside(group, place) \cup {t},
         c[t].n \in 1 .. Slots, c[t].head = s.head, Sub(s.head, s.tail) + c[t].n <= Mask,
         s2.head = Add(s.head, c[t].n), s2.tail = s.tail
  PROVE  /\ Tiled(group, s2, place2, c) /\ s2.head \in Index
         /\ Sub(s2.head, s2.tail) = Sub(s.head, s.tail) + c[t].n
         /\ \A i \in Index : Sub(s.head, i) + c[t].n < Modulus
              => Sub(s2.head, i) = Sub(s.head, i) + c[t].n
<1>1. /\ s.head \in Index /\ s.tail \in Index /\ c[t].n \in 0 .. Slots
      /\ c[t].n \in Nat /\ c[t].n >= 1 /\ Modulus > Mask /\ Modulus \in Nat /\ Mask \in Nat
  BY Sizes DEF Shaped
<1>2. Sub(s.head, s.tail) \in Nat /\ Sub(s.head, s.head) = 0
  BY <1>1, Differences
<1>3. \A i \in Index : Sub(s.head, i) + c[t].n < Modulus => Sub(s2.head, i) = Sub(s.head, i) + c[t].n
  BY <1>1, Ahead
<1>4. s2.head \in Index /\ Sub(s2.head, s2.tail) = Sub(s.head, s.tail) + c[t].n
  BY <1>1, <1>2, Ahead
<1>5. Sub(c[t].head, s.tail) = Sub(s.head, s.tail)
  OBVIOUS
<1>6. s2.head # s.head
  <2>1. Sub(s2.head, s.head) = c[t].n
    BY <1>1, <1>2, <1>3, Sizes
  <2> QED BY <1>1, <1>2, <2>1
<1>7. \A u \in Inside(group, place) : Sub(c[u].head, s.tail) \in Nat /\ c[u].n \in Nat
  BY <1>1, Differences, Sizes DEF Shaped, Inside
<1>8. ASSUME NEW u \in Inside(group, place2)
      PROVE  Sub(c[u].head, s2.tail) + c[u].n <= Sub(s2.head, s2.tail)
  BY <1>1, <1>2, <1>4, <1>5, <1>7 DEF Tiled
<1>9. ASSUME NEW u \in Inside(group, place2), NEW v \in Inside(group, place2), u # v
      PROVE  \/ Sub(c[u].head, s2.tail) + c[u].n <= Sub(c[v].head, s2.tail)
             \/ Sub(c[v].head, s2.tail) + c[v].n <= Sub(c[u].head, s2.tail)
  BY <1>2, <1>5, <1>7, <1>9 DEF Tiled
<1>10. ASSUME s2.head # s2.tail
       PROVE  \E u \in Inside(group, place2) : c[u].head = s2.tail
  <2>1. CASE s.head = s.tail
    BY <2>1
  <2>2. CASE s.head # s.tail
    BY <2>2 DEF Tiled
  <2> QED BY <2>1, <2>2
<1>11. ASSUME NEW u \in Inside(group, place2), Add(c[u].head, c[u].n) # s2.head
       PROVE  \E v \in Inside(group, place2) : c[v].head = Add(c[u].head, c[u].n)
  <2>1. u \in Inside(group, place)
    BY <1>11
  <2>2. CASE Add(c[u].head, c[u].n) = s.head
    BY <2>2
  <2>3. CASE Add(c[u].head, c[u].n) # s.head
    BY <2>1, <2>3 DEF Tiled
  <2> QED BY <2>2, <2>3
<1> QED BY <1>3, <1>4, <1>8, <1>9, <1>10, <1>11 DEF Tiled

\* A thread whose entries begin at the tail moves the tail behind them.
LEMMA TiledPublish ==
  ASSUME NEW group, NEW s, NEW place, NEW c, NEW place2, NEW s2, NEW c2, NEW t,
         Shaped(group, s, place, c), Tiled(group, s, place, c),
         t \in Inside(group, place), Inside(group, place2) = Inside(group, place) \ {t},
         c[t].head = s.tail, s2.head = s.head, s2.tail = Add(s.tail, c[t].n),
         \A u \in Inside(group, place2) : c2[u].head = c[u].head /\ c2[u].n = c[u].n
  PROVE  /\ Tiled(group, s2, place2, c2) /\ s2.tail \in Index
         /\ c[t].n <= Sub(s.head, s.tail)
<1>1. /\ s.head \in Index /\ s.tail \in Index /\ c[t].n \in 1 .. Slots
      /\ Modulus > Slots /\ Modulus \in Nat
      /\ \A u \in Inside(group, place) : c[u].head \in Index /\ c[u].n \in 1 .. Slots
  BY Sizes DEF Shaped, Inside
<1>2. c[t].n \in 0 .. Slots /\ c[t].n \in Nat /\ c[t].n >= 1 /\ c[t].n <= Slots
  BY <1>1, Sizes
<1>3. Sub(c[t].head, s.tail) = 0 /\ Sub(s.head, s.tail) \in Nat
  BY <1>1, Differences
<1>4. c[t].n <= Sub(s.head, s.tail)
  BY <1>2, <1>3 DEF Tiled
<1>5. \A i \in Index : Sub(i, s.tail) >= c[t].n => Sub(i, s2.tail) = Sub(i, s.tail) - c[t].n
  <2>1. \A i \in Index : Sub(i, s.tail) \in Nat
    BY <1>1, Differences
  <2> QED BY <1>1, <1>2, <2>1, Behind
<1>6. s2.tail \in Index /\ Sub(s2.head, s2.tail) = Sub(s.head, s.tail) - c[t].n
  BY <1>1, <1>2, <1>4, Behind
<1>7. \A u \in Inside(group, place) : Sub(c[u].head, s.tail) \in Nat /\ c[u].n \in Nat /\ c[u].n >= 1
  BY <1>1, Differences, Sizes
<1>8. ASSUME NEW u \in Inside(group, place), u # t
      PROVE  Sub(c[u].head, s.tail) >= c[t].n
             /\ Sub(c[u].head, s2.tail) = Sub(c[u].head, s.tail) - c[t].n
  <2>1. Sub(c[u].head, s.tail) >= c[t].n
    BY <1>2, <1>3, <1>7, <1>8 DEF Tiled
  <2> QED BY <1>1, <1>5, <2>1
<1>9. Sub(s.head, s.tail) \in Nat /\ c[t].n \in Nat
  BY <1>2, <1>3
<1>10. ASSUME NEW u \in Inside(group, place2)
       PROVE  Sub(c2[u].head, s2.tail) + c2[u].n <= Sub(s2.head, s2.tail)
  BY <1>6, <1>7, <1>8, <1>9 DEF Tiled
<1>11. ASSUME NEW u \in Inside(group, place2), NEW v \in Inside(group, place2), u # v
       PROVE  \/ Sub(c2[u].head, s2.tail) + c2[u].n <= Sub(c2[v].head, s2.tail)
              \/ Sub(c2[v].head, s2.tail) + c2[v].n <= Sub(c2[u].head, s2.tail)
  BY <1>7, <1>8, <1>9, <1>11 DEF Tiled
<1>12. ASSUME s2.head # s2.tail
       PROVE  \E u \in Inside(group, place2) : c2[u].head = s2.tail
  <2>1. PICK u \in Inside(group, place) : c[u].head = s2.tail
    BY <1>12 DEF Tiled
  <2>2. u # t
    <3>1. Sub(s2.tail, s.tail) = c[t].n
      <4>1. Sub(s.tail, s.tail) = 0 /\ c[t].n < Modulus
        BY <1>1, <1>2, Differences
      <4> QED BY <1>1, <1>2, <4>1, Ahead
    <3> QED BY <1>2, <1>3, <2>1, <3>1
  <2> QED BY <2>1, <2>2
<1>13. ASSUME NEW u \in Inside(group, place2), Add(c2[u].head, c2[u].n) # s2.head
       PROVE  \E v \in Inside(group, place2) : c2[v].head = Add(c2[u].head, c2[u].n)
  <2>1. u \in Inside(group, place) /\ u # t /\ c2[u].head = c[u].head /\ c2[u].n = c[u].n
    OBVIOUS
  <2>2. PICK v \in Inside(group, place) : c[v].head = Add(c[u].head, c[u].n)
    BY <1>13, <2>1 DEF Tiled
  <2>3. v # t
    <3>1. Sub(c[u].head, s.tail) + c[u].n <= Sub(s.head, s.tail) /\ Sub(s.head, s.tail) < Modulus
      BY <1>1, <2>1, Differences DEF Tiled
    <3>2. c[u].n \in 0 .. Slots
      BY <1>1, <2>1, Sizes
    <3>3. Sub(Add(c[u].head, c[u].n), s.tail) = Sub(c[u].head, s.tail) + c[u].n
      BY <1>1, <1>3, <1>7, <2>1, <3>1, <3>2, Ahead
    <3>4. Sub(Add(c[u].head, c[u].n), s.tail) # 0
      BY <1>7, <2>1, <3>3
    <3> QED BY <1>3, <2>2, <3>4
  <2> QED BY <2>1, <2>2, <2>3
<1> QED BY <1>4, <1>6, <1>10, <1>11, <1>12, <1>13 DEF Tiled

(***************************************************************************)
(* The indices in their order.                                             *)
(***************************************************************************)
LEMMA Between ==
  ASSUME NEW a \in Index, NEW b \in Index, NEW from \in Index, Sub(b, from) <= Sub(a, from)
  PROVE  Sub(a, b) = Sub(a, from) - Sub(b, from)
<1>1. /\ a \in Nat /\ b \in Nat /\ from \in Nat /\ Modulus \in Nat
      /\ a < Modulus /\ b < Modulus /\ from < Modulus
  BY Sizes DEF Index
<1> PICK x : x = Sub(a, from)
  OBVIOUS
<1> PICK y : y = Sub(b, from)
  OBVIOUS
<1> PICK z : z = Sub(a, b)
  OBVIOUS
<1>2. /\ from <= a => x = a - from
      /\ from > a => x = a - from + Modulus
      /\ from <= b => y = b - from
      /\ from > b => y = b - from + Modulus
      /\ b <= a => z = a - b
      /\ b > a => z = a - b + Modulus
  BY Wrap
<1> QED BY <1>1, <1>2

\* Differences add up as long as they do not wrap.
LEMMA Along ==
  ASSUME NEW a \in Index, NEW b \in Index, NEW from \in Index,
         Sub(a, b) + Sub(b, from) < Modulus
  PROVE  Sub(a, from) = Sub(a, b) + Sub(b, from)
<1>1. /\ a \in Nat /\ b \in Nat /\ from \in Nat /\ Modulus \in Nat
      /\ a < Modulus /\ b < Modulus /\ from < Modulus
  BY Sizes DEF Index
<1> PICK x : x = Sub(a, from)
  OBVIOUS
<1> PICK y : y = Sub(b, from)
  OBVIOUS
<1> PICK z : z = Sub(a, b)
  OBVIOUS
<1>2. /\ from <= a => x = a - from
      /\ from > a => x = a - from + Modulus
      /\ from <= b => y = b - from
      /\ from > b => y = b - from + Modulus
      /\ b <= a => z = a - b
      /\ b > a => z = a - b + Modulus
  BY Wrap
<1> QED BY <1>1, <1>2

LEMMA ReducedTwice ==
  ASSUME NEW x \in Nat
  PROVE  2 * Modulus <= x /\ x < 3 * Modulus => x % Modulus = x - 2 * Modulus
BY Sizes

\* mask + cons_tail - prod_head in 32 bits, for a head that may be an old one.
LEMMA FreeIs ==
  ASSUME NEW tail \in Index, NEW head \in Index, NEW was \in Index,
         Sub(head, tail) <= Mask, Sub(head, was) <= Modulus - Slots
  PROVE  Sub(Mask + tail, was) = Mask - Sub(head, tail) + Sub(head, was)
<1>1. /\ tail \in Nat /\ head \in Nat /\ was \in Nat /\ Modulus \in Nat
      /\ tail < Modulus /\ head < Modulus /\ was < Modulus
      /\ Mask \in Nat /\ Mask = Slots - 1 /\ Slots \in Nat /\ Slots < Modulus
  BY Sizes DEF Index
<1> PICK x : x = Sub(head, tail)
  OBVIOUS
<1> PICK y : y = Sub(head, was)
  OBVIOUS
<1>2. /\ tail <= head => x = head - tail
      /\ tail > head => x = head - tail + Modulus
      /\ was <= head => y = head - was
      /\ was > head => y = head - was + Modulus
  BY Wrap
<1> PICK sum : sum = Mask + tail + Modulus - was
  OBVIOUS
<1>3. sum \in Nat
  BY <1>1
<1> PICK free : free = Mask - x + y
  OBVIOUS
<1>4. x \in Nat /\ y \in Nat /\ x <= Mask /\ y <= Modulus - Slots
  BY Differences
<1>5. free \in Nat /\ free < Modulus
  BY <1>1, <1>4
<1>6. sum = free + Modulus + (x - y) - (was - tail)
  BY <1>1, <1>4
<1>7. x - y = was - tail \/ x - y = was - tail + Modulus \/ x - y = was - tail - Modulus
  BY <1>1, <1>2
<1>8. sum = free \/ sum = free + Modulus \/ sum = free + 2 * Modulus
  BY <1>1, <1>4, <1>5, <1>6, <1>7
<1>9. sum % Modulus = free
  <2>1. CASE sum = free
    BY <1>3, <1>5, <1>8, <2>1, Reduced
  <2>2. CASE sum = free + Modulus
    <3>1. Modulus <= sum /\ sum < 2 * Modulus /\ sum - Modulus = free
      BY <1>1, <1>5, <1>8, <2>2
    <3>2. sum % Modulus = sum - Modulus
      BY <1>3, <3>1, Reduced
    <3> QED BY <3>1, <3>2
  <2>3. CASE sum = free + 2 * Modulus
    <3>1. 2 * Modulus <= sum /\ sum < 3 * Modulus /\ sum - 2 * Modulus = free
      BY <1>1, <1>5, <1>8, <2>3
    <3>2. sum % Modulus = sum - 2 * Modulus
      BY <1>3, <3>1, ReducedTwice
    <3> QED BY <3>1, <3>2
  <2> QED BY <1>5, <1>8, <2>1, <2>2, <2>3
<1> QED BY <1>9 DEF Sub

LEMMA IndicesAre ==
  ASSUME Types, Ordered
  PROVE  /\ prod.head \in Index /\ prod.tail \in Index /\ cons.head \in Index /\ cons.tail \in Index
         /\ Sub(cons.head, cons.tail) \in Nat /\ Sub(prod.tail, cons.tail) \in Nat
         /\ Sub(prod.head, cons.tail) \in Nat /\ Mask \in Nat /\ Mask < Modulus /\ Modulus \in Nat
         /\ FilledNow = Sub(prod.tail, cons.tail) - Sub(cons.head, cons.tail)
         /\ FreeNow = Mask - Sub(prod.head, cons.tail)
         /\ Sub(prod.head, prod.tail) = Sub(prod.head, cons.tail) - Sub(prod.tail, cons.tail)
         /\ FilledNow \in 0 .. Mask /\ FreeNow \in 0 .. Mask
<1>1. /\ prod.head \in Index /\ prod.tail \in Index /\ cons.head \in Index /\ cons.tail \in Index
  BY DEF Types
<1>2. /\ Sub(cons.head, cons.tail) \in Nat /\ Sub(prod.tail, cons.tail) \in Nat
      /\ Sub(prod.head, cons.tail) \in Nat
  BY <1>1, Differences
<1>3. Mask \in Nat /\ Mask < Modulus /\ Modulus \in Nat
  BY Sizes
<1>4. FilledNow = Sub(prod.tail, cons.tail) - Sub(cons.head, cons.tail)
  BY <1>1, Between DEF FilledNow, Ordered
<1>5. Sub(prod.head, prod.tail) = Sub(prod.head, cons.tail) - Sub(prod.tail, cons.tail)
  BY <1>1, Between DEF Ordered
<1>6. FreeNow = Mask - Sub(prod.head, cons.tail)
  BY DEF FreeNow
<1>7. FilledNow \in 0 .. Mask /\ FreeNow \in 0 .. Mask
  BY <1>2, <1>3, <1>4, <1>6 DEF Ordered
<1> QED BY <1>1, <1>2, <1>3, <1>4, <1>5, <1>6, <1>7

Available(t) == IF t \in Producers THEN FreeEntries(t) ELSE FilledEntries(t)

\* What a call finds available is what there is, and more if its head is old.
LEMMA AvailableIs ==
  ASSUME Types, Ordered, Near, NEW t \in Threads, pc[t] = "tail"
  PROVE  /\ Available(t) \in Nat /\ Room(t) \in 0 .. Mask
         /\ Sub(Side(t).head, call[t].head) \in Nat
         /\ Available(t) = Room(t) + Sub(Side(t).head, call[t].head)
<1> PICK was : was = call[t].head
  OBVIOUS
<1>1. was \in Index
  BY DEF Types, CallRecord
<1>2. Sub(Side(t).head, was) <= Modulus - Slots
  BY DEF Near, NearAt
<1>3. Mask = Slots - 1 /\ Slots \in Nat
  BY Sizes
<1>4. CASE t \in Producers
  <2>1. Sub(prod.head, was) \in Nat
    BY <1>1, IndicesAre, Differences
  <2>2. FreeEntries(t) = Mask - Sub(prod.head, cons.tail) + Sub(prod.head, was)
    BY <1>1, <1>2, <1>4, IndicesAre, FreeIs DEF FreeEntries, Side, Ordered
  <2> QED BY <1>4, <2>1, <2>2, IndicesAre DEF Available, Room, Side
<1>5. CASE t \notin Producers
  <2>1. Sub(cons.head, was) \in Nat
    BY <1>1, IndicesAre, Differences
  <2>2. Sub(prod.tail, cons.head) + Sub(cons.head, was) < Modulus
    BY <1>2, <1>3, <1>5, <2>1, IndicesAre DEF FilledNow, Side
  <2>3. FilledEntries(t) = Sub(prod.tail, cons.head) + Sub(cons.head, was)
    BY <1>1, <2>2, IndicesAre, Along DEF FilledEntries
  <2> QED BY <1>5, <2>1, <2>3, IndicesAre DEF Available, Room, Side, FilledNow
<1> QED BY <1>4, <1>5

(***************************************************************************)
(* Steps that move no index.                                               *)
(***************************************************************************)
LEMMA LocalStep ==
  ASSUME IInv, NEW t \in Threads, UNCHANGED <<prod, cons>>, Types',
         \A u \in Threads \ {t} : pc'[u] = pc[u] /\ call'[u] = call[u] /\ told'[u] = told[u],
         pc[t] \in {"copy", "publish"} <=> pc'[t] \in {"copy", "publish"},
         pc[t] \in {"copy", "publish"} => call'[t].head = call[t].head /\ call'[t].n = call[t].n,
         NearAt(t, pc'[t], call'[t]), FitsAt(t, pc'[t], call'[t]),
         ToldAt(t, pc'[t], call'[t], told'[t])
  PROVE  IInv'
<1>1. \A u, place, c : /\ NearAt(u, place, c)' <=> NearAt(u, place, c)
                       /\ FitsAt(u, place, c)' <=> FitsAt(u, place, c)
  BY DEF NearAt, FitsAt, Side, Lone, Room, FreeNow, FilledNow
<1>2. \A u, place, c, number : ToldAt(u, place, c, number)' <=> ToldAt(u, place, c, number)
  BY DEF ToldAt, Watched, Lone, Room, FreeNow, FilledNow
<1>3. ASSUME NEW u \in Threads
      PROVE  /\ NearAt(u, pc'[u], call'[u]) /\ FitsAt(u, pc'[u], call'[u])
             /\ ToldAt(u, pc'[u], call'[u], told'[u])
  <2>1. CASE u = t
    BY <2>1
  <2>2. CASE u # t
    BY <2>2 DEF IInv, Near, Fits, Told
  <2> QED BY <2>1, <2>2
<1>4. \A u, place, c : /\ NearAt(u, place, c) => NearAt(u, place, c)'
                       /\ FitsAt(u, place, c) => FitsAt(u, place, c)'
  BY <1>1
<1>5. \A u, place, c, number : ToldAt(u, place, c, number) => ToldAt(u, place, c, number)'
  BY <1>2
<1>6. Near' /\ Fits' /\ Told'
  BY <1>3, <1>4, <1>5 DEF Near, Fits, Told
<1>7. Ordered'
  BY DEF IInv, Ordered
<1>8. ASSUME NEW group, group \in {Producers, Consumers}, NEW s, Tiled(group, s, pc, call)
      PROVE  Tiled(group, s, pc', call')
  <2>1. group \subseteq Threads
    BY <1>8 DEF Threads
  <2>2. Inside(group, pc') = Inside(group, pc)
    BY <2>1 DEF Inside
  <2>3. \A u \in Inside(group, pc) : call'[u].head = call[u].head /\ call'[u].n = call[u].n
    BY <2>1 DEF Inside
  <2> QED BY <1>8, <2>2, <2>3, TiledKept
<1>9. Tiled(Producers, prod, pc, call)' /\ Tiled(Consumers, cons, pc, call)'
  BY <1>8 DEF IInv
<1> QED BY <1>6, <1>7, <1>9 DEF IInv

\* A step of one thread: where it goes, its call and what it was told after it.
Places == {"idle", "head", "tail", "claim", "copy", "publish", "observe"}

Moves(t, place, c, number) ==
  /\ pc' = [pc EXCEPT ![t] = place]
  /\ call' = [call EXCEPT ![t] = c]
  /\ told' = [told EXCEPT ![t] = number]
  /\ CallAt(place, c)
  /\ t \in Producers => c.table \in Seq(Values)

LEMMA Moved ==
  ASSUME Types, NEW t \in Threads, NEW place \in Places, NEW c \in CallRecord, NEW number \in 0 .. Mask,
         Moves(t, place, c, number),
         prod' \in [head : Index, tail : Index], cons' \in [head : Index, tail : Index],
         ring' \in [0 .. Mask -> Values \cup {NoValue}]
  PROVE  /\ Types'
         /\ pc'[t] = place /\ call'[t] = c /\ told'[t] = number
         /\ \A u \in Threads \ {t} : pc'[u] = pc[u] /\ call'[u] = call[u] /\ told'[u] = told[u]
<1>1. pc' \in [Threads -> Places] /\ call' \in [Threads -> CallRecord] /\ told' \in [Threads -> 0 .. Mask]
  BY DEF Types, Moves, Places
<1>2. /\ pc'[t] = place /\ call'[t] = c /\ told'[t] = number
      /\ \A u \in Threads \ {t} : pc'[u] = pc[u] /\ call'[u] = call[u] /\ told'[u] = told[u]
  BY DEF Types, Moves
<1>3. \A where, d : CallAt(where, d)' <=> CallAt(where, d)
  BY DEF CallAt
<1>4. ASSUME NEW u \in Threads
      PROVE  CallAt(pc'[u], call'[u])
  BY <1>2 DEF Types, Moves
<1>5. ASSUME NEW p \in Producers
      PROVE  call'[p].table \in Seq(Values)
  BY <1>2 DEF Types, Moves, Threads
<1>6. \A u \in Threads : CallAt(pc[u], call[u])'
  BY <1>3, <1>4
<1> QED BY <1>1, <1>2, <1>5, <1>6 DEF Types, Places, CallRecord, Index, Mask

LEMMA LocalMove ==
  ASSUME IInv, NEW t \in Threads, NEW place \in Places, NEW c \in CallRecord, NEW number \in 0 .. Mask,
         Moves(t, place, c, number), UNCHANGED <<prod, cons>>,
         ring' \in [0 .. Mask -> Values \cup {NoValue}],
         pc[t] \in {"copy", "publish"} <=> place \in {"copy", "publish"},
         pc[t] \in {"copy", "publish"} => c.head = call[t].head /\ c.n = call[t].n,
         NearAt(t, place, c), FitsAt(t, place, c), ToldAt(t, place, c, number)
  PROVE  IInv'
<1>1. prod' \in [head : Index, tail : Index] /\ cons' \in [head : Index, tail : Index]
  BY DEF IInv, Types
<1>2. /\ Types' /\ pc'[t] = place /\ call'[t] = c /\ told'[t] = number
      /\ \A u \in Threads \ {t} : pc'[u] = pc[u] /\ call'[u] = call[u] /\ told'[u] = told[u]
  BY <1>1, Moved DEF IInv
<1> QED BY <1>2, LocalStep

LEMMA Spends ==
  ASSUME Types, NEW t \in Threads, Spend(t)
  PROVE  told' = [told EXCEPT ![t] = IF pc[t] = "tail" THEN 0 ELSE told[t]]
BY DEF Spend, Types

LEMMA NothingCalled == NoCall \in CallRecord /\ CallAt("idle", NoCall) /\ NoCall.table \in Seq(Values)
<1>1. 0 \in 0 .. MaxBurst /\ 0 \in Index
  BY Sizes
<1> QED BY <1>1 DEF NoCall, CallRecord, CallAt

LEMMA StartStep ==
  ASSUME IInv, NEW t \in Threads, NEW table \in Seq(Values \cup {NoValue}), NEW behavior \in Behaviors,
         Len(table) \in 1 .. MaxBurst, t \in Producers => table \in Seq(Values),
         Start(t, table, behavior), Spend(t)
  PROVE  IInv'
<1> DEFINE c == [call[t] EXCEPT !.table = table, !.behavior = behavior]
<1>1. Types /\ pc[t] = "idle"
  BY DEF IInv, Start, Goto
<1>2. call[t] \in CallRecord /\ CallAt("idle", call[t]) /\ told[t] \in 0 .. Mask
  BY <1>1 DEF Types
<1>3. c \in CallRecord /\ c.table = table /\ c.n = call[t].n /\ c.copied = call[t].copied
  BY <1>2 DEF CallRecord
<1>4. CallAt("head", c)
  BY <1>2, <1>3 DEF CallAt
<1>5. Moves(t, "head", c, told[t])
  <2>1. told' = [told EXCEPT ![t] = told[t]]
    BY <1>1, Spends
  <2>2. pc' = [pc EXCEPT ![t] = "head"] /\ call' = [call EXCEPT ![t] = c]
    BY <1>1 DEF Start, Goto, Types, CallRecord
  <2> QED BY <1>3, <1>4, <2>1, <2>2 DEF Moves
<1>6. UNCHANGED <<prod, cons>> /\ ring' \in [0 .. Mask -> Values \cup {NoValue}]
  BY <1>1 DEF Start, Types
<1>7. NearAt(t, "head", c) /\ FitsAt(t, "head", c)
  BY DEF NearAt, FitsAt
<1>8. ToldAt(t, "head", c, told[t])
  BY DEF IInv, Told, ToldAt
<1>9. "head" \in Places
  BY DEF Places
<1> HIDE DEF c
<1> QED BY <1>1, <1>2, <1>3, <1>5, <1>6, <1>7, <1>8, <1>9, LocalMove

LEMMA ReadHeadStep ==
  ASSUME IInv, NEW t \in Threads, ReadHead(t, Side(t).head), Spend(t)
  PROVE  IInv'
<1> DEFINE c == [call[t] EXCEPT !.head = Side(t).head]
<1>1. Types /\ pc[t] = "head"
  BY DEF IInv, ReadHead, Goto
<1>2. call[t] \in CallRecord /\ CallAt("head", call[t]) /\ told[t] \in 0 .. Mask
  BY <1>1 DEF Types
<1>3. Side(t).head \in Index
  BY <1>1 DEF Side, Types
<1>4. c \in CallRecord /\ c.table = call[t].table /\ c.head = Side(t).head
      /\ c.n = call[t].n /\ c.copied = call[t].copied
  BY <1>2, <1>3 DEF CallRecord
<1>5. CallAt("tail", c)
  BY <1>2, <1>4 DEF CallAt
<1>6. Moves(t, "tail", c, told[t])
  <2>1. told' = [told EXCEPT ![t] = told[t]]
    BY <1>1, Spends
  <2>2. pc' = [pc EXCEPT ![t] = "tail"] /\ call' = [call EXCEPT ![t] = c]
    BY <1>1 DEF ReadHead, Goto, Types, CallRecord
  <2> QED BY <1>1, <1>4, <1>5, <2>1, <2>2 DEF Moves, Types
<1>7. UNCHANGED <<prod, cons>> /\ ring' \in [0 .. Mask -> Values \cup {NoValue}]
  BY <1>1 DEF ReadHead, Types
<1>8. NearAt(t, "tail", c)
  <2>1. Sub(Side(t).head, Side(t).head) = 0 /\ 0 <= Modulus - Slots
    BY <1>3, Differences, Sizes
  <2> QED BY <1>4, <2>1 DEF NearAt
<1>9. FitsAt(t, "tail", c)
  BY DEF FitsAt
<1>10. ToldAt(t, "tail", c, told[t])
  BY DEF IInv, Told, ToldAt
<1>11. "tail" \in Places
  BY DEF Places
<1> HIDE DEF c
<1> QED BY <1>1, <1>2, <1>4, <1>6, <1>7, <1>8, <1>9, <1>10, <1>11, LocalMove

LEMMA DecideStep ==
  ASSUME IInv, NEW t \in Threads, Decide(t, Available(t)), Spend(t)
  PROVE  IInv'
<1>1. Types /\ Ordered /\ Near /\ pc[t] = "tail"
  BY DEF IInv, Decide, Goto, Return
<1>2. call[t] \in CallRecord /\ CallAt("tail", call[t])
  BY <1>1 DEF Types
<1>3. told' = [told EXCEPT ![t] = 0]
  BY <1>1, Spends
<1>4. UNCHANGED <<prod, cons>> /\ ring' \in [0 .. Mask -> Values \cup {NoValue}]
  BY <1>1 DEF Decide, Types
<1>5. Room(t) \in 0 .. Mask /\ Available(t) = Room(t) + Sub(Side(t).head, call[t].head)
      /\ Available(t) \in Nat
  BY <1>1, AvailableIs
<1>6. \A place, c : ToldAt(t, place, c, 0) \/ place = "observe"
  BY <1>5 DEF ToldAt
<1>7. 0 \in 0 .. Mask
  BY Sizes
<1>8. CASE Return(t, "tail")
  <2>1. Moves(t, "idle", NoCall, 0)
    BY <1>3, <1>8, NothingCalled DEF Return, Goto, Moves
  <2>2. NearAt(t, "idle", NoCall) /\ FitsAt(t, "idle", NoCall) /\ ToldAt(t, "idle", NoCall, 0)
    BY <1>6 DEF NearAt, FitsAt, Places
  <2>3. "idle" \in Places
    BY DEF Places
  <2> QED BY <1>1, <1>4, <1>7, <2>1, <2>2, <2>3, NothingCalled, LocalMove
<1>9. ASSUME NEW k, k \in 1 .. Len(call[t].table), k <= Available(t),
             Goto(t, "tail", "claim"), call' = [call EXCEPT ![t].n = k]
      PROVE  IInv'
  <2> DEFINE c == [call[t] EXCEPT !.n = k]
  <2>1. Len(call[t].table) \in 1 .. MaxBurst /\ MaxBurst \in Nat /\ k \in 0 .. MaxBurst
    BY <1>2, <1>9, Sizes DEF CallAt
  <2>2. c \in CallRecord /\ c.table = call[t].table /\ c.head = call[t].head
        /\ c.n = k /\ c.copied = call[t].copied
    BY <1>2, <2>1 DEF CallRecord
  <2>3. CallAt("claim", c)
    <3>1. c.copied = << >> /\ Len(c.copied) <= k
      BY <1>2, <1>9, <2>1, <2>2 DEF CallAt
    <3> QED BY <1>9, <2>1, <2>2, <3>1 DEF CallAt
  <2>4. Moves(t, "claim", c, 0)
    <3>1. pc' = [pc EXCEPT ![t] = "claim"] /\ call' = [call EXCEPT ![t] = c]
      BY <1>1, <1>9 DEF Goto, Types, CallRecord
    <3> QED BY <1>1, <1>3, <2>2, <2>3, <3>1 DEF Moves, Types
  <2>5. NearAt(t, "claim", c)
    BY <1>1, <2>2 DEF Near, NearAt
  <2>6. FitsAt(t, "claim", c)
    <3>1. ASSUME c.head = Side(t).head
          PROVE  k <= Room(t)
      <4>1. Side(t).head \in Index
        BY <1>1 DEF Side, Types
      <4>2. Sub(Side(t).head, call[t].head) = 0
        BY <2>2, <3>1, <4>1, Differences
      <4> QED BY <1>5, <1>9, <4>2
    <3> QED BY <2>2, <3>1 DEF FitsAt
  <2>7. "claim" \in Places /\ ToldAt(t, "claim", c, 0)
    BY <1>6 DEF Places
  <2> HIDE DEF c
  <2> QED BY <1>1, <1>4, <1>7, <2>2, <2>4, <2>5, <2>6, <2>7, LocalMove
<1>10. PICK max : max = Len(call[t].table)
  OBVIOUS
<1>11. max \in 1 .. MaxBurst /\ MaxBurst \in Nat
  BY <1>2, <1>10, Sizes DEF CallAt
<1>12. CASE ~ Return(t, "tail")
  <2>1. \/ /\ max <= Available(t) /\ Goto(t, "tail", "claim") /\ call' = [call EXCEPT ![t].n = max]
        \/ /\ max > Available(t) /\ Available(t) > 0 /\ Goto(t, "tail", "claim")
           /\ call' = [call EXCEPT ![t].n = Available(t)]
    BY <1>10, <1>12 DEF Decide
  <2> QED BY <1>5, <1>9, <1>10, <1>11, <2>1
<1> QED BY <1>8, <1>12

\* A head that has moved on since it was read is read again.
LEMMA AgainStep ==
  ASSUME IInv, NEW t \in Threads, Goto(t, "claim", "head"), UNCHANGED <<prod, cons, ring, call>>, Spend(t)
  PROVE  IInv'
<1>1. Types /\ pc[t] = "claim"
  BY DEF IInv, Goto
<1>2. call[t] \in CallRecord /\ CallAt("claim", call[t]) /\ told[t] \in 0 .. Mask
  BY <1>1 DEF Types
<1>3. Moves(t, "head", call[t], told[t])
  <2>1. told' = [told EXCEPT ![t] = told[t]]
    BY <1>1, Spends
  <2>2. pc' = [pc EXCEPT ![t] = "head"] /\ call' = [call EXCEPT ![t] = call[t]]
    BY <1>1 DEF Goto, Types
  <2>3. CallAt("head", call[t])
    BY <1>2 DEF CallAt
  <2> QED BY <1>1, <2>1, <2>2, <2>3 DEF Moves, Types
<1>4. UNCHANGED <<prod, cons>> /\ ring' \in [0 .. Mask -> Values \cup {NoValue}]
  BY <1>1 DEF Types
<1>5. NearAt(t, "head", call[t]) /\ FitsAt(t, "head", call[t])
  BY DEF NearAt, FitsAt
<1>6. ToldAt(t, "head", call[t], told[t])
  BY DEF IInv, Told, ToldAt
<1>7. "head" \in Places
  BY DEF Places
<1> QED BY <1>1, <1>2, <1>3, <1>4, <1>5, <1>6, <1>7, LocalMove

LEMMA CopyStep ==
  ASSUME IInv, NEW t \in Threads, NEW v \in Values \cup {NoValue}, Copy(t, v), UNCHANGED <<prod, cons>>,
         ring' \in [0 .. Mask -> Values \cup {NoValue}], Spend(t)
  PROVE  IInv'
<1> DEFINE c == [call[t] EXCEPT !.copied = Append(call[t].copied, v)]
           place == IF Done(t) + 1 = call[t].n THEN "publish" ELSE "copy"
<1>1. Types /\ pc[t] = "copy"
  BY DEF IInv, Copy, Goto
<1>2. call[t] \in CallRecord /\ CallAt("copy", call[t]) /\ told[t] \in 0 .. Mask
  BY <1>1 DEF Types
<1>3. Append(call[t].copied, v) \in Seq(Values \cup {NoValue})
      /\ Len(Append(call[t].copied, v)) = Done(t) + 1
  BY <1>2 DEF CallRecord, Done
<1>4. c \in CallRecord /\ c.table = call[t].table /\ c.head = call[t].head
      /\ c.n = call[t].n /\ c.copied = Append(call[t].copied, v)
  BY <1>2, <1>3 DEF CallRecord
<1>5. CallAt(place, c)
  <2>1. Done(t) \in Nat /\ call[t].n \in Nat /\ Done(t) < call[t].n
    BY <1>2, Sizes DEF CallRecord, CallAt, Done
  <2>2. Done(t) + 1 <= call[t].n /\ (Done(t) + 1 # call[t].n => Done(t) + 1 < call[t].n)
    BY <2>1
  <2>3. /\ Len(c.copied) <= c.n
        /\ place = "copy" => Len(c.copied) < c.n
        /\ place = "publish" => Len(c.copied) = c.n
    BY <1>3, <1>4, <2>2
  <2>4. Len(c.table) \in 1 .. MaxBurst /\ c.n \in 1 .. Len(c.table)
    BY <1>2, <1>4 DEF CallAt
  <2> QED BY <2>3, <2>4 DEF CallAt
<1>6. Moves(t, place, c, told[t])
  <2>1. told' = [told EXCEPT ![t] = told[t]]
    BY <1>1, Spends
  <2>2. pc' = [pc EXCEPT ![t] = place] /\ call' = [call EXCEPT ![t] = c]
    BY <1>1 DEF Copy, Goto, Types, CallRecord
  <2> QED BY <1>1, <1>4, <1>5, <2>1, <2>2 DEF Moves, Types
<1>7. NearAt(t, place, c) /\ FitsAt(t, place, c)
  BY DEF NearAt, FitsAt
<1>8. ToldAt(t, place, c, told[t])
  BY <1>1 DEF IInv, Told, ToldAt
<1>9. place \in Places /\ place \in {"copy", "publish"}
  BY DEF Places
<1> HIDE DEF c, place
<1> QED BY <1>1, <1>2, <1>4, <1>6, <1>7, <1>8, <1>9, LocalMove

LEMMA WriteStep ==
  ASSUME IInv, NEW p \in Producers, WriteEntry(p), Spend(p)
  PROVE  IInv'
<1>1. Types /\ pc[p] = "copy" /\ p \in Threads
  BY DEF IInv, WriteEntry, Copy, Goto, Threads
<1>2. call[p] \in CallRecord /\ CallAt("copy", call[p]) /\ call[p].table \in Seq(Values)
  BY <1>1 DEF Types
<1>3. Done(p) + 1 \in 1 .. Len(call[p].table)
  <2>1. Done(p) \in Nat /\ call[p].n \in 1 .. Len(call[p].table) /\ Done(p) < call[p].n
    BY <1>2 DEF CallRecord, CallAt, Done
  <2> QED BY <1>2, <2>1
<1>4. PICK v : v = call[p].table[Done(p) + 1]
  OBVIOUS
<1>5. v \in Values
  BY <1>2, <1>3, <1>4
<1>6. Copy(p, v) /\ ring' = [ring EXCEPT ![Here(p)] = v] /\ UNCHANGED <<prod, cons>>
  BY <1>4 DEF WriteEntry
<1>7. ring' \in [0 .. Mask -> Values \cup {NoValue}]
  BY <1>1, <1>5, <1>6 DEF Types
<1> QED BY <1>1, <1>5, <1>6, <1>7, CopyStep

LEMMA ReadEntryStep ==
  ASSUME IInv, NEW t \in Consumers, CopyEntry(t), Spend(t)
  PROVE  IInv'
<1>1. Types /\ t \in Threads
  BY DEF IInv, Threads
<1>2. Here(t) \in 0 .. Mask
  <2>1. call[t].head + Done(t) \in Nat
    BY <1>1, Sizes DEF Types, CallRecord, Index, Done
  <2> QED BY <2>1, Division DEF Here, Mask
<1>3. ring[Here(t)] \in Values \cup {NoValue}
  BY <1>1, <1>2 DEF Types
<1> QED BY <1>1, <1>3, CopyStep DEF CopyEntry, Types

(***************************************************************************)
(* The two observers.                                                      *)
(***************************************************************************)
LEMMA WatchStep ==
  ASSUME IInv, NEW t \in Threads, ReadProdTail(t)
  PROVE  IInv'
<1> DEFINE c == [call[t] EXCEPT !.head = prod.tail]
<1>1. Types /\ Ordered /\ pc[t] = "idle"
  BY DEF IInv, ReadProdTail, Goto
<1>2. call[t] \in CallRecord /\ CallAt("idle", call[t]) /\ told[t] \in 0 .. Mask
  BY <1>1 DEF Types
<1>3. prod.tail \in Index /\ Sub(prod.tail, cons.tail) \in Nat
  BY <1>1, IndicesAre
<1>4. c \in CallRecord /\ c.table = call[t].table /\ c.head = prod.tail
      /\ c.n = call[t].n /\ c.copied = call[t].copied
  BY <1>2, <1>3 DEF CallRecord
<1>5. CallAt("observe", c)
  BY <1>2, <1>4 DEF CallAt
<1>6. Moves(t, "observe", c, told[t])
  <2>1. told' = [told EXCEPT ![t] = told[t]]
    BY <1>1 DEF ReadProdTail, Types
  <2>2. pc' = [pc EXCEPT ![t] = "observe"] /\ call' = [call EXCEPT ![t] = c]
    BY <1>1 DEF ReadProdTail, Goto, Types, CallRecord
  <2> QED BY <1>1, <1>4, <1>5, <2>1, <2>2 DEF Moves, Types
<1>7. UNCHANGED <<prod, cons>> /\ ring' \in [0 .. Mask -> Values \cup {NoValue}]
  BY <1>1 DEF ReadProdTail, Types
<1>8. NearAt(t, "observe", c) /\ FitsAt(t, "observe", c)
  BY DEF NearAt, FitsAt
<1>9. ToldAt(t, "observe", c, told[t])
  <2>1. Lone(t) => told[t] <= Room(t)
    BY DEF IInv, Told, ToldAt
  <2>2. Watched(t, c)
    BY <1>3, <1>4 DEF Watched
  <2> QED BY <2>1, <2>2 DEF ToldAt
<1>10. "observe" \in Places
  BY DEF Places
<1> HIDE DEF c
<1> QED BY <1>1, <1>2, <1>4, <1>6, <1>7, <1>8, <1>9, <1>10, LocalMove

\* llring_free_count's formula, when the producers' tail is not behind the consumers'.
LEMMA FreeCountIs ==
  ASSUME NEW tail \in Index, NEW ahead \in Index, Sub(ahead, tail) <= Mask
  PROVE  Sub(Sub(tail, ahead), 1) % Slots = Mask - Sub(ahead, tail)
<1>1. /\ tail \in Nat /\ ahead \in Nat /\ Modulus \in Nat /\ tail < Modulus /\ ahead < Modulus
      /\ Mask = Slots - 1 /\ Slots \in Nat /\ Slots >= 2 /\ Modulus > Slots
  BY Sizes DEF Index
<1> PICK x : x = Sub(ahead, tail)
  OBVIOUS
<1> PICK y : y = Sub(tail, ahead)
  OBVIOUS
<1> PICK z : z = Sub(y, 1)
  OBVIOUS
<1>2. x \in Nat /\ y \in Nat /\ x <= Mask /\ y \in Index /\ 1 \in Index /\ y < Modulus
  <2>1. 1 \in Index
    BY <1>1 DEF Index
  <2> QED BY <2>1, Differences
<1>3. /\ tail <= ahead => x = ahead - tail
      /\ tail > ahead => x = ahead - tail + Modulus
      /\ ahead <= tail => y = tail - ahead
      /\ ahead > tail => y = tail - ahead + Modulus
  BY Wrap
<1>4. /\ 1 <= y => z = y - 1
      /\ 1 > y => z = y - 1 + Modulus
  <2>1. 1 <= y => Sub(y, 1) = y - 1
    BY <1>2, Wrap
  <2>2. 1 > y => Sub(y, 1) = y - 1 + Modulus
    BY <1>2, Wrap
  <2> QED BY <2>1, <2>2
<1>5. z = Modulus - 1 - x
  <2>1. y = Modulus - x \/ (y = 0 /\ x = 0)
    BY <1>1, <1>3
  <2> QED BY <1>1, <1>2, <1>4, <2>1
<1>6. PICK m \in Nat, none \in 0 .. Slots - 1 : Modulus = Slots * m + none /\ Slot(Modulus) = none
  BY <1>1, Division
<1>7. none = 0 /\ m >= 1
  <2>1. none = 0
    BY <1>6 DEF Slot
  <2>2. m # 0
    BY <1>1, <1>6, <2>1
  <2> QED BY <1>6, <2>1, <2>2
<1>8. z = Slots * (m - 1) + (Mask - x) /\ m - 1 \in Nat /\ Mask - x \in 0 .. Slots - 1
  <2> PICK a : a = Slots * m
    OBVIOUS
  <2> PICK b : b = Slots * (m - 1)
    OBVIOUS
  <2>1. a \in Nat /\ b = a - Slots
    BY <1>1, <1>6, <1>7
  <2>2. Modulus = a
    BY <1>6, <1>7, <2>1
  <2>3. z = b + (Mask - x) /\ Mask - x \in 0 .. Slots - 1
    BY <1>1, <1>2, <1>5, <2>1, <2>2
  <2> QED BY <1>7, <2>3
<1>9. z % Slots = Mask - x
  BY <1>8, SlotIs, Zenon
<1> QED BY <1>9

\* A lone thread that is not inside has reserved nothing.
LEMMA LoneOutside ==
  ASSUME IInv, NEW t \in Threads, Lone(t), pc[t] \notin {"copy", "publish"}
  PROVE  Side(t).head = Side(t).tail
<1>1. CASE t \in Producers
  <2>1. Inside(Producers, pc) = {}
    BY <1>1 DEF Inside, Lone
  <2> QED BY <1>1, <2>1 DEF IInv, Tiled, Side
<1>2. CASE t \notin Producers
  <2>1. Inside(Consumers, pc) = {}
    BY <1>2 DEF Inside, Lone, Threads
  <2> QED BY <1>2, <2>1 DEF IInv, Tiled, Side
<1> QED BY <1>1, <1>2

LEMMA CountStep ==
  ASSUME IInv, NEW t \in Threads, ReadConsTail(t)
  PROVE  IInv'
<1>1. Types /\ Ordered /\ pc[t] = "observe"
  BY DEF IInv, ReadConsTail, Return, Goto
<1>2. call[t].head \in Index
  BY <1>1 DEF Types, CallRecord
<1> PICK number : number = IF t \in Producers THEN llring_free_count(call[t].head)
                           ELSE llring_count(call[t].head)
  OBVIOUS
<1> PICK seen : seen = Sub(call[t].head, cons.tail)
  OBVIOUS
<1>3. /\ seen \in Nat
      /\ t \in Producers => number = Sub(Sub(cons.tail, call[t].head), 1) % Slots
      /\ t \notin Producers => number = seen % Slots
  BY <1>1, <1>2, IndicesAre, Differences DEF llring_free_count, llring_count
<1>4. number \in 0 .. Mask
  <2>1. \A x \in Nat : x % Slots \in 0 .. Mask
    BY Division DEF Slot, Mask
  <2>2. 1 \in Index
    BY Sizes DEF Index
  <2>3. Sub(Sub(cons.tail, call[t].head), 1) \in Nat
    BY <1>1, <1>2, <2>2, IndicesAre, Differences
  <2> QED BY <1>3, <2>1, <2>3
<1>5. Moves(t, "idle", NoCall, number)
  BY <1>1, NothingCalled DEF ReadConsTail, Return, Goto, Moves
<1>6. UNCHANGED <<prod, cons>> /\ ring' \in [0 .. Mask -> Values \cup {NoValue}]
  BY <1>1 DEF ReadConsTail, Types
<1>7. NearAt(t, "idle", NoCall) /\ FitsAt(t, "idle", NoCall)
  BY DEF NearAt, FitsAt
<1>8. ASSUME Lone(t)
      PROVE  number <= Room(t)
  <2>1. Side(t).head = Side(t).tail /\ Watched(t, call[t])
    BY <1>1, <1>8, LoneOutside DEF IInv, Told, ToldAt
  <2>2. CASE t \in Producers
    <3>1. call[t].head = prod.tail /\ prod.head = prod.tail
      BY <2>1, <2>2 DEF Watched, Side
    <3>2. number = Mask - Sub(prod.tail, cons.tail)
      BY <1>1, <1>2, <1>3, <2>2, <3>1, FreeCountIs, IndicesAre DEF Ordered
    <3> QED BY <1>1, <2>2, <3>1, <3>2, IndicesAre DEF Room
  <2>3. CASE t \notin Producers
    <3>1. seen <= Sub(prod.tail, cons.tail) /\ cons.head = cons.tail
      BY <2>1, <2>3 DEF Watched, Side
    <3>2. seen \in 0 .. Slots - 1
      BY <1>1, <1>3, <3>1, IndicesAre, Sizes DEF Ordered
    <3>3. number = seen
      BY <1>3, <2>3, <3>2, Sizes
    <3>4. Room(t) = Sub(prod.tail, cons.tail)
      BY <2>3, <3>1 DEF Room, FilledNow
    <3> QED BY <3>1, <3>3, <3>4
  <2> QED BY <2>2, <2>3
<1>9. ToldAt(t, "idle", NoCall, number)
  BY <1>8 DEF ToldAt
<1>10. "idle" \in Places
  BY DEF Places
<1> QED BY <1>1, <1>4, <1>5, <1>6, <1>7, <1>9, <1>10, NothingCalled, LocalMove

(***************************************************************************)
(* The four steps that move an index.                                      *)
(***************************************************************************)
LEMMA GroupsShaped ==
  ASSUME Types
  PROVE  /\ Shaped(Producers, prod, pc, call) /\ Shaped(Consumers, cons, pc, call)
         /\ \A t \in Threads : pc[t] \in {"claim", "copy", "publish"} => call[t].n \in 1 .. Slots
<1>1. ASSUME NEW t \in Threads, pc[t] \in {"claim", "copy", "publish"}
      PROVE  call[t].n \in 1 .. Slots
  <2>1. call[t] \in CallRecord /\ CallAt(pc[t], call[t])
    BY DEF Types
  <2>2. call[t].n \in Nat /\ call[t].n <= MaxBurst /\ call[t].n >= 1 /\ MaxBurst <= Slots
    BY <1>1, <2>1, Sizes DEF CallRecord, CallAt
  <2> QED BY <2>2, Sizes
<1>2. \A t \in Threads : call[t].head \in Index
  BY DEF Types, CallRecord
<1> QED BY <1>1, <1>2 DEF Shaped, Inside, Threads, Types

LEMMA ClaimSlotsStep ==
  ASSUME IInv, NEW p \in Producers, ClaimSlots(p), pc'[p] = "copy", Spend(p)
  PROVE  IInv'
<1>1. Types /\ Ordered /\ pc[p] = "claim" /\ p \in Threads /\ p \notin Consumers
  BY DEF IInv, ClaimSlots, Goto, Threads
<1>2. /\ Goto(p, "claim", "copy") /\ UNCHANGED <<cons, ring, call>>
      /\ MultiProducer => prod.head = call[p].head
      /\ NotLapped(Producers \ {p}, prod.head, call[p].n)
      /\ prod' = [prod EXCEPT !.head = Add(call[p].head, call[p].n)]
  BY <1>1 DEF ClaimSlots, Goto, Types
<1> PICK n : n = call[p].n
  OBVIOUS
<1>3. call[p].head = prod.head
  BY <1>1, <1>2 DEF IInv, Near, NearAt, Lone, Side
<1>4. call[p].n \in 1 .. Slots
  BY <1>1, GroupsShaped
<1>5. n \in Nat /\ n >= 1 /\ n \in 0 .. Slots
  BY <1>4, Sizes
<1>6. Sub(prod.head, cons.tail) + n <= Mask
  <2>1. n <= FreeNow
    BY <1>1, <1>3 DEF IInv, Fits, FitsAt, Side, Room
  <2> QED BY <1>1, <1>5, <2>1, IndicesAre
<1>7. /\ prod' \in [head : Index, tail : Index]
      /\ prod'.head = Add(prod.head, n) /\ prod'.tail = prod.tail /\ cons' = cons
  <2>1. Add(prod.head, n) \in Index
    BY <1>1, <1>5, IndicesAre, Wrap
  <2> QED BY <1>1, <1>2, <1>3, <2>1 DEF Types
<1>8. Moves(p, "copy", call[p], told[p])
  <2>1. told' = [told EXCEPT ![p] = told[p]]
    BY <1>1, Spends
  <2>2. pc' = [pc EXCEPT ![p] = "copy"] /\ call' = [call EXCEPT ![p] = call[p]]
    BY <1>1, <1>2 DEF Goto, Types
  <2>3. CallAt("copy", call[p])
    <3>1. CallAt("claim", call[p])
      BY <1>1 DEF Types
    <3>2. call[p].copied = << >> /\ Len(call[p].copied) = 0
      BY <3>1 DEF CallAt
    <3> QED BY <1>5, <3>1, <3>2 DEF CallAt
  <2> QED BY <1>1, <2>1, <2>2, <2>3 DEF Moves, Types
<1>9. /\ Types' /\ pc'[p] = "copy" /\ call' = call /\ told'[p] = told[p]
      /\ \A u \in Threads \ {p} : pc'[u] = pc[u] /\ told'[u] = told[u]
  <2>1. call[p] \in CallRecord /\ told[p] \in 0 .. Mask /\ "copy" \in Places
        /\ cons' \in [head : Index, tail : Index] /\ ring' \in [0 .. Mask -> Values \cup {NoValue}]
    BY <1>1, <1>2 DEF Types, Places
  <2> QED BY <1>1, <1>2, <1>7, <1>8, <2>1, Moved
<1>10. Inside(Producers, pc') = Inside(Producers, pc) \cup {p} /\ p \notin Inside(Producers, pc)
       /\ Inside(Consumers, pc') = Inside(Consumers, pc)
  BY <1>1, <1>9 DEF Inside, Threads
<1>11. /\ Tiled(Producers, prod', pc', call)
       /\ \A i \in Index : Sub(prod.head, i) + n < Modulus => Sub(prod'.head, i) = Sub(prod.head, i) + n
  <2>1. Sub(prod.head, prod.tail) + n <= Mask
    BY <1>1, <1>5, <1>6, IndicesAre
  <2>2. Shaped(Producers, prod, pc, call) /\ Tiled(Producers, prod, pc, call)
    BY <1>1, GroupsShaped DEF IInv
  <2> QED BY <1>3, <1>4, <1>7, <1>10, <2>1, <2>2, TiledClaim
<1>12. Tiled(Producers, prod, pc, call)' /\ Tiled(Consumers, cons, pc, call)'
  <2>1. Tiled(Consumers, cons, pc', call')
    BY <1>9, <1>10, TiledKept DEF IInv
  <2> QED BY <1>7, <1>9, <1>11, <2>1
<1>13. Sub(prod'.head, cons.tail) = Sub(prod.head, cons.tail) + n
  BY <1>1, <1>5, <1>6, <1>11, IndicesAre
<1>14. Ordered'
  BY <1>1, <1>5, <1>6, <1>7, <1>13, IndicesAre DEF Ordered
<1>15. ASSUME NEW u \in Producers, u # p, pc[u] \in {"tail", "claim"}
       PROVE  /\ Sub(prod'.head, call[u].head) <= Modulus - Slots
              /\ prod'.head # call[u].head
  <2>1. call[u].head \in Index /\ prod'.head \in Index
    BY <1>1, <1>7 DEF Types, CallRecord, Threads
  <2>2. Sub(prod.head, call[u].head) + n <= Modulus - Slots
    BY <1>2, <1>15 DEF NotLapped
  <2>3. Sub(prod.head, call[u].head) \in Nat
    BY <1>1, <2>1, IndicesAre, Differences
  <2>4. Sub(prod'.head, call[u].head) = Sub(prod.head, call[u].head) + n
    BY <1>5, <1>11, <2>1, <2>2, <2>3, Sizes
  <2>5. Sub(prod'.head, call[u].head) # 0
    BY <1>5, <2>3, <2>4
  <2> QED BY <2>1, <2>2, <2>4, <2>5, Differences
<1>16. \A u \in Producers : u # p => MultiProducer
  OBVIOUS
<1>17. FreeNow' \in Nat /\ FilledNow' = FilledNow
  <2>1. FreeNow' = Mask - (Sub(prod.head, cons.tail) + n)
    BY <1>7, <1>13 DEF FreeNow, Mask
  <2> QED BY <1>1, <1>5, <1>6, <1>7, <2>1, IndicesAre DEF FilledNow
<1>18. Near'
  BY <1>7, <1>9, <1>15, <1>16 DEF IInv, Near, NearAt, Side, Lone
<1>19. Fits'
  BY <1>7, <1>9, <1>15, <1>17 DEF IInv, Fits, FitsAt, Side, Room
<1>20. Told'
  <2>1. Lone(p) => told[p] = 0
    BY <1>1 DEF IInv, Told, ToldAt
  <2>2. ToldAt(p, pc[p], call[p], told[p])'
    BY <1>9, <1>17, <2>1 DEF ToldAt, Room, Lone
  <2>3. ASSUME NEW u \in Threads, u # p
        PROVE  ToldAt(u, pc[u], call[u], told[u])'
    BY <1>7, <1>9, <1>16, <1>17, <2>3 DEF IInv, Told, ToldAt, Room, Lone, Watched
  <2> QED BY <2>2, <2>3 DEF Told
<1> QED BY <1>9, <1>12, <1>14, <1>18, <1>19, <1>20 DEF IInv

LEMMA ClaimEntriesStep ==
  ASSUME IInv, NEW t \in Consumers, ClaimEntries(t), pc'[t] = "copy", Spend(t)
  PROVE  IInv'
<1>1. Types /\ Ordered /\ pc[t] = "claim" /\ t \in Threads /\ t \notin Producers
  BY DEF IInv, ClaimEntries, Goto, Threads
<1>2. /\ Goto(t, "claim", "copy") /\ UNCHANGED <<prod, ring, call>>
      /\ MultiConsumer => cons.head = call[t].head
      /\ NotLapped(Consumers \ {t}, cons.head, call[t].n)
      /\ cons' = [cons EXCEPT !.head = Add(call[t].head, call[t].n)]
  BY <1>1 DEF ClaimEntries, Goto, Types
<1> PICK n : n = call[t].n
  OBVIOUS
<1>3. call[t].head = cons.head
  BY <1>1, <1>2 DEF IInv, Near, NearAt, Lone, Side
<1>4. call[t].n \in 1 .. Slots
  BY <1>1, GroupsShaped
<1>5. n \in Nat /\ n >= 1 /\ n \in 0 .. Slots
  BY <1>4, Sizes
<1>6. Sub(cons.head, cons.tail) + n <= Sub(prod.tail, cons.tail)
  <2>1. n <= FilledNow
    BY <1>1, <1>3 DEF IInv, Fits, FitsAt, Side, Room
  <2> QED BY <1>1, <1>5, <2>1, IndicesAre
<1>7. /\ cons' \in [head : Index, tail : Index]
      /\ cons'.head = Add(cons.head, n) /\ cons'.tail = cons.tail /\ prod' = prod
  <2>1. Add(cons.head, n) \in Index
    BY <1>1, <1>5, IndicesAre, Wrap
  <2> QED BY <1>1, <1>2, <1>3, <2>1 DEF Types
<1>8. Moves(t, "copy", call[t], told[t])
  <2>1. told' = [told EXCEPT ![t] = told[t]]
    BY <1>1, Spends
  <2>2. pc' = [pc EXCEPT ![t] = "copy"] /\ call' = [call EXCEPT ![t] = call[t]]
    BY <1>1, <1>2 DEF Goto, Types
  <2>3. CallAt("copy", call[t])
    <3>1. CallAt("claim", call[t])
      BY <1>1 DEF Types
    <3>2. call[t].copied = << >> /\ Len(call[t].copied) = 0
      BY <3>1 DEF CallAt
    <3> QED BY <1>5, <3>1, <3>2 DEF CallAt
  <2> QED BY <1>1, <2>1, <2>2, <2>3 DEF Moves, Types
<1>9. /\ Types' /\ pc'[t] = "copy" /\ call' = call /\ told'[t] = told[t]
      /\ \A u \in Threads \ {t} : pc'[u] = pc[u] /\ told'[u] = told[u]
  <2>1. call[t] \in CallRecord /\ told[t] \in 0 .. Mask /\ "copy" \in Places
        /\ prod' \in [head : Index, tail : Index] /\ ring' \in [0 .. Mask -> Values \cup {NoValue}]
    BY <1>1, <1>2 DEF Types, Places
  <2> QED BY <1>1, <1>2, <1>7, <1>8, <2>1, Moved
<1>10. Inside(Consumers, pc') = Inside(Consumers, pc) \cup {t} /\ t \notin Inside(Consumers, pc)
       /\ Inside(Producers, pc') = Inside(Producers, pc)
  BY <1>1, <1>9 DEF Inside, Threads
<1>11. /\ Tiled(Consumers, cons', pc', call)
       /\ \A i \in Index : Sub(cons.head, i) + n < Modulus => Sub(cons'.head, i) = Sub(cons.head, i) + n
  <2>1. Sub(cons.head, cons.tail) + n <= Mask
    BY <1>1, <1>5, <1>6, IndicesAre DEF Ordered
  <2>2. Shaped(Consumers, cons, pc, call) /\ Tiled(Consumers, cons, pc, call)
    BY <1>1, GroupsShaped DEF IInv
  <2> QED BY <1>3, <1>4, <1>7, <1>10, <2>1, <2>2, TiledClaim
<1>12. Tiled(Producers, prod, pc, call)' /\ Tiled(Consumers, cons, pc, call)'
  <2>1. Tiled(Producers, prod, pc', call')
    BY <1>9, <1>10, TiledKept DEF IInv
  <2> QED BY <1>7, <1>9, <1>11, <2>1
<1>13. Sub(cons'.head, cons.tail) = Sub(cons.head, cons.tail) + n
  BY <1>1, <1>5, <1>6, <1>11, IndicesAre DEF Ordered
<1>14. Ordered'
  BY <1>1, <1>5, <1>6, <1>7, <1>13, IndicesAre DEF Ordered
<1>15. ASSUME NEW u \in Consumers, u # t, pc[u] \in {"tail", "claim"}
       PROVE  /\ Sub(cons'.head, call[u].head) <= Modulus - Slots
              /\ cons'.head # call[u].head
  <2>1. call[u].head \in Index /\ cons'.head \in Index
    BY <1>1, <1>7 DEF Types, CallRecord, Threads
  <2>2. Sub(cons.head, call[u].head) + n <= Modulus - Slots
    BY <1>2, <1>15 DEF NotLapped
  <2>3. Sub(cons.head, call[u].head) \in Nat
    BY <1>1, <2>1, IndicesAre, Differences
  <2>4. Sub(cons'.head, call[u].head) = Sub(cons.head, call[u].head) + n
    BY <1>5, <1>11, <2>1, <2>2, <2>3, Sizes
  <2>5. Sub(cons'.head, call[u].head) # 0
    BY <1>5, <2>3, <2>4
  <2> QED BY <2>1, <2>2, <2>4, <2>5, Differences
<1>16. \A u \in Consumers : u # t => MultiConsumer
  OBVIOUS
<1>17. FilledNow' \in Nat /\ FreeNow' = FreeNow
  <2>1. FilledNow' = Sub(prod.tail, cons'.head)
    BY <1>7 DEF FilledNow
  <2>2. Sub(prod.tail, cons'.head) \in Nat
    BY <1>1, <1>7, IndicesAre, Differences
  <2> QED BY <1>7, <2>1, <2>2 DEF FreeNow, Mask
<1>18. \A u \in Threads : u \in Producers \/ u \in Consumers
  BY DEF Threads
<1>19. Near'
  BY <1>7, <1>9, <1>15, <1>16, <1>18 DEF IInv, Near, NearAt, Side, Lone
<1>20. Fits'
  BY <1>7, <1>9, <1>15, <1>17, <1>18 DEF IInv, Fits, FitsAt, Side, Room
<1>21. Told'
  <2>1. Lone(t) => told[t] = 0
    BY <1>1 DEF IInv, Told, ToldAt
  <2>2. ToldAt(t, pc[t], call[t], told[t])'
    BY <1>1, <1>9, <1>17, <2>1 DEF ToldAt, Room, Lone
  <2>3. ASSUME NEW u \in Threads, u # t
        PROVE  ToldAt(u, pc[u], call[u], told[u])'
    BY <1>7, <1>9, <1>16, <1>17, <1>18, <2>3 DEF IInv, Told, ToldAt, Room, Lone, Watched
  <2> QED BY <2>2, <2>3 DEF Told
<1> QED BY <1>9, <1>12, <1>14, <1>19, <1>20, <1>21 DEF IInv

\* A thread inside whose turn it is: with one thread it always is.
LEMMA InTurn ==
  ASSUME IInv, NEW t \in Threads, pc[t] = "publish", ~ Lone(t) => Side(t).tail = call[t].head
  PROVE  call[t].head = Side(t).tail
<1>1. Types
  BY DEF IInv
<1>2. call[t].n \in 1 .. Slots /\ call[t].head \in Index
  BY <1>1, GroupsShaped DEF Types, CallRecord
<1>3. Side(t).head \in Index /\ Side(t).tail \in Index
  BY <1>1 DEF Types, Side
<1>4. SUFFICES ASSUME Lone(t)
               PROVE  call[t].head = Side(t).tail
  OBVIOUS
<1>5. \E group \in {Producers, Consumers} : Tiled(group, Side(t), pc, call) /\ Inside(group, pc) = {t}
  <2>1. CASE t \in Producers
    BY <1>4, <2>1 DEF IInv, Side, Lone, Inside
  <2>2. CASE t \notin Producers
    <3>1. t \in Consumers
      BY <2>2 DEF Threads
    <3> QED BY <1>4, <2>2, <3>1 DEF IInv, Side, Lone, Inside
  <2> QED BY <2>1, <2>2
<1>6. Sub(call[t].head, Side(t).tail) + call[t].n <= Sub(Side(t).head, Side(t).tail)
  BY <1>5 DEF Tiled
<1>7. Side(t).head # Side(t).tail
  <2>1. Sub(call[t].head, Side(t).tail) \in Nat /\ Sub(Side(t).tail, Side(t).tail) = 0
    BY <1>2, <1>3, Differences
  <2>2. call[t].n \in Nat /\ call[t].n >= 1
    BY <1>2, Sizes
  <2>3. Sub(Side(t).head, Side(t).tail) # 0
    BY <1>6, <2>1, <2>2, <1>3, Differences
  <2> QED BY <2>1, <2>3
<1> QED BY <1>5, <1>7 DEF Tiled

LEMMA PublishStep ==
  ASSUME IInv, NEW p \in Producers, PublishSlots(p), Spend(p)
  PROVE  IInv'
<1>1. Types /\ Ordered /\ pc[p] = "publish" /\ p \in Threads /\ p \notin Consumers
  BY DEF IInv, PublishSlots, Return, Goto, Threads
<1> PICK n : n = call[p].n
  OBVIOUS
<1>2. call[p].head = prod.tail
  BY <1>1, InTurn DEF PublishSlots, Lone, Side
<1>3. call[p].n \in 1 .. Slots
  BY <1>1, GroupsShaped
<1>4. n \in Nat /\ n >= 1 /\ n \in 0 .. Slots
  BY <1>3, Sizes
<1>5. /\ prod' \in [head : Index, tail : Index]
      /\ prod'.tail = Add(prod.tail, n) /\ prod'.head = prod.head /\ cons' = cons
  <2>1. Add(prod.tail, n) \in Index
    BY <1>1, <1>4, IndicesAre, Wrap
  <2> QED BY <1>1, <1>2, <2>1 DEF Types, PublishSlots
<1>6. Moves(p, "idle", NoCall, told[p])
  <2>1. told' = [told EXCEPT ![p] = told[p]]
    BY <1>1, Spends
  <2> QED BY <2>1, NothingCalled DEF Moves, PublishSlots, Return, Goto
<1>7. /\ Types' /\ pc'[p] = "idle" /\ call'[p] = NoCall /\ told'[p] = told[p]
      /\ \A u \in Threads \ {p} : pc'[u] = pc[u] /\ call'[u] = call[u] /\ told'[u] = told[u]
  <2>1. told[p] \in 0 .. Mask /\ "idle" \in Places
        /\ cons' \in [head : Index, tail : Index] /\ ring' \in [0 .. Mask -> Values \cup {NoValue}]
    BY <1>1 DEF Types, Places, PublishSlots
  <2> QED BY <1>1, <1>5, <1>6, <2>1, NothingCalled, Moved
<1>8. /\ Inside(Producers, pc') = Inside(Producers, pc) \ {p} /\ p \in Inside(Producers, pc)
      /\ Inside(Consumers, pc') = Inside(Consumers, pc)
  BY <1>1, <1>7 DEF Inside, Threads
<1>9. Tiled(Producers, prod', pc', call') /\ n <= Sub(prod.head, prod.tail)
  <2>1. Shaped(Producers, prod, pc, call) /\ Tiled(Producers, prod, pc, call)
    BY <1>1, GroupsShaped DEF IInv
  <2>2. \A u \in Inside(Producers, pc') : call'[u].head = call[u].head /\ call'[u].n = call[u].n
    BY <1>7, <1>8 DEF Inside, Threads
  <2> QED BY <1>2, <1>5, <1>8, <2>1, <2>2, TiledPublish
<1>10. Tiled(Producers, prod, pc, call)' /\ Tiled(Consumers, cons, pc, call)'
  <2>1. \A u \in Inside(Consumers, pc) : call'[u].head = call[u].head /\ call'[u].n = call[u].n
    BY <1>1, <1>7 DEF Inside, Threads
  <2>2. Tiled(Consumers, cons, pc', call')
    BY <1>8, <2>1, TiledKept DEF IInv
  <2> QED BY <1>5, <1>9, <2>2
<1>11. Sub(prod.tail, cons.tail) + n <= Sub(prod.head, cons.tail)
  BY <1>1, <1>4, <1>9, IndicesAre
<1>12. Sub(prod'.tail, cons.tail) = Sub(prod.tail, cons.tail) + n
  BY <1>1, <1>4, <1>5, <1>11, IndicesAre, Ahead DEF Ordered
<1>13. Ordered'
  BY <1>1, <1>4, <1>5, <1>11, <1>12, IndicesAre DEF Ordered
<1>14. FreeNow' = FreeNow /\ FilledNow' = FilledNow + n
  <2>1. Sub(prod.tail, cons.head) + n < Modulus /\ Sub(prod.tail, cons.head) = FilledNow
    BY <1>1, <1>4, <1>11, IndicesAre DEF Ordered, FilledNow
  <2>2. Sub(Add(prod.tail, n), cons.head) = FilledNow + n
    BY <1>1, <1>4, <2>1, IndicesAre, Ahead
  <2> QED BY <1>5, <2>2 DEF FreeNow, FilledNow, Mask
<1>15. \A u \in Threads : Room(u) \in 0 .. Mask /\ Room(u)' >= Room(u)
  BY <1>1, <1>4, <1>14, IndicesAre DEF Room
<1>16. \A u \in Producers : u # p => MultiProducer
  OBVIOUS
<1>17. Near'
  BY <1>5, <1>7 DEF IInv, Near, NearAt, Side, Lone
<1>18. Fits'
  <2>1. FitsAt(p, pc[p], call[p])'
    BY <1>7 DEF FitsAt
  <2>2. ASSUME NEW u \in Threads, u # p
        PROVE  FitsAt(u, pc[u], call[u])'
    <3>1. pc'[u] = pc[u] /\ call'[u] = call[u] /\ Side(u)'.head = Side(u).head
      BY <1>5, <1>7, <2>2 DEF Side
    <3>2. CASE pc[u] = "claim" /\ call[u].head = Side(u).head
      <4>1. call[u].n <= Room(u)
        BY <3>2 DEF IInv, Fits, FitsAt
      <4>2. call[u].n \in Nat
        BY <1>1, Sizes DEF Types, CallRecord
      <4>3. Room(u) \in Nat /\ Room(u)' \in Nat /\ Room(u)' >= Room(u)
        BY <1>1, <1>4, <1>14, <1>15, IndicesAre DEF Room
      <4>4. call[u].n <= Room(u)'
        BY <4>1, <4>2, <4>3
      <4> QED BY <3>1, <4>4 DEF FitsAt
    <3>3. CASE ~ (pc[u] = "claim" /\ call[u].head = Side(u).head)
      BY <3>1, <3>3 DEF FitsAt
    <3> QED BY <3>2, <3>3
  <2> QED BY <2>1, <2>2 DEF Fits
<1>19. Told'
  <2>1. ASSUME NEW u \in Threads, Lone(u)
        PROVE  told'[u] <= Room(u)'
    <3>1. told[u] <= Room(u) /\ told[u] \in Nat /\ told'[u] = told[u]
      BY <1>1, <1>7, <2>1, Sizes DEF IInv, Told, ToldAt, Types
    <3>2. Room(u) \in Nat /\ Room(u)' \in Nat /\ Room(u)' >= Room(u)
      BY <1>1, <1>4, <1>14, <1>15, IndicesAre DEF Room
    <3> QED BY <3>1, <3>2
  <2>2. ToldAt(p, pc[p], call[p], told[p])'
    BY <1>1, <1>7, <2>1 DEF ToldAt, Lone
  <2>3. ASSUME NEW u \in Threads, u # p
        PROVE  ToldAt(u, pc[u], call[u], told[u])'
    <3>1. ASSUME Lone(u), pc[u] = "observe"
          PROVE  Watched(u, call[u])'
      <4>1. u \notin Producers
        BY <1>16, <2>3, <3>1 DEF Lone
      <4>2. Sub(call[u].head, cons.tail) <= Sub(prod.tail, cons.tail)
        BY <3>1, <4>1 DEF IInv, Told, ToldAt, Watched
      <4>3. call[u].head \in Index
        BY <1>1 DEF Types, CallRecord
      <4>4. Sub(call[u].head, cons.tail) \in Nat
        BY <1>1, <4>3, IndicesAre, Differences
      <4>5. Sub(call[u].head, cons.tail) <= Sub(prod'.tail, cons.tail)
        BY <1>1, <1>4, <1>12, <4>2, <4>4, IndicesAre
      <4> QED BY <1>5, <1>7, <2>3, <4>1, <4>5 DEF Watched
    <3>2. Lone(u) /\ pc[u] \in {"claim", "copy", "publish"} => told[u] = 0
      BY DEF IInv, Told, ToldAt
    <3> QED BY <1>7, <2>1, <2>3, <3>1, <3>2 DEF ToldAt, Lone
  <2> QED BY <2>2, <2>3 DEF Told
<1> QED BY <1>7, <1>10, <1>13, <1>17, <1>18, <1>19 DEF IInv

LEMMA FreeStep ==
  ASSUME IInv, NEW t \in Consumers, FreeSlots(t), Spend(t)
  PROVE  IInv'
<1>1. Types /\ Ordered /\ pc[t] = "publish" /\ t \in Threads /\ t \notin Producers
  BY DEF IInv, FreeSlots, Return, Goto, Threads
<1> PICK n : n = call[t].n
  OBVIOUS
<1>2. call[t].head = cons.tail
  BY <1>1, InTurn DEF FreeSlots, Lone, Side
<1>3. call[t].n \in 1 .. Slots
  BY <1>1, GroupsShaped
<1>4. n \in Nat /\ n >= 1 /\ n \in 0 .. Slots
  BY <1>3, Sizes
<1>5. /\ cons' \in [head : Index, tail : Index]
      /\ cons'.tail = Add(cons.tail, n) /\ cons'.head = cons.head /\ prod' = prod
  <2>1. Add(cons.tail, n) \in Index
    BY <1>1, <1>4, IndicesAre, Wrap
  <2> QED BY <1>1, <1>2, <2>1 DEF Types, FreeSlots
<1>6. Moves(t, "idle", NoCall, told[t])
  <2>1. told' = [told EXCEPT ![t] = told[t]]
    BY <1>1, Spends
  <2> QED BY <2>1, NothingCalled DEF Moves, FreeSlots, Return, Goto
<1>7. /\ Types' /\ pc'[t] = "idle" /\ call'[t] = NoCall /\ told'[t] = told[t]
      /\ \A u \in Threads \ {t} : pc'[u] = pc[u] /\ call'[u] = call[u] /\ told'[u] = told[u]
  <2>1. told[t] \in 0 .. Mask /\ "idle" \in Places
        /\ prod' \in [head : Index, tail : Index] /\ ring' \in [0 .. Mask -> Values \cup {NoValue}]
    BY <1>1 DEF Types, Places, FreeSlots
  <2> QED BY <1>1, <1>5, <1>6, <2>1, NothingCalled, Moved
<1>8. /\ Inside(Consumers, pc') = Inside(Consumers, pc) \ {t} /\ t \in Inside(Consumers, pc)
      /\ Inside(Producers, pc') = Inside(Producers, pc)
  BY <1>1, <1>7 DEF Inside, Threads
<1>9. Tiled(Consumers, cons', pc', call') /\ n <= Sub(cons.head, cons.tail)
  <2>1. Shaped(Consumers, cons, pc, call) /\ Tiled(Consumers, cons, pc, call)
    BY <1>1, GroupsShaped DEF IInv
  <2>2. \A u \in Inside(Consumers, pc') : call'[u].head = call[u].head /\ call'[u].n = call[u].n
    BY <1>7, <1>8 DEF Inside, Threads
  <2> QED BY <1>2, <1>5, <1>8, <2>1, <2>2, TiledPublish
<1>10. Tiled(Producers, prod, pc, call)' /\ Tiled(Consumers, cons, pc, call)'
  <2>1. \A u \in Inside(Producers, pc) : call'[u].head = call[u].head /\ call'[u].n = call[u].n
    BY <1>1, <1>7 DEF Inside, Threads
  <2>2. Tiled(Producers, prod, pc', call')
    BY <1>8, <2>1, TiledKept DEF IInv
  <2> QED BY <1>5, <1>9, <2>2
<1>11. n <= Sub(prod.tail, cons.tail) /\ n <= Sub(prod.head, cons.tail)
  BY <1>1, <1>4, <1>9, IndicesAre DEF Ordered
<1>12. /\ Sub(cons.head, cons'.tail) = Sub(cons.head, cons.tail) - n
       /\ Sub(prod.tail, cons'.tail) = Sub(prod.tail, cons.tail) - n
       /\ Sub(prod.head, cons'.tail) = Sub(prod.head, cons.tail) - n
  BY <1>1, <1>4, <1>5, <1>9, <1>11, IndicesAre, Behind
<1>13. Ordered'
  BY <1>1, <1>4, <1>5, <1>12, IndicesAre DEF Ordered, Mask
<1>14. FreeNow' = FreeNow + n /\ FilledNow' = FilledNow
  <2>1. FreeNow' = Mask - Sub(prod.head, cons'.tail)
    BY <1>5 DEF FreeNow, Mask
  <2> QED BY <1>1, <1>4, <1>5, <1>12, <2>1, IndicesAre DEF FilledNow
<1>15. \A u \in Threads : Room(u) \in 0 .. Mask /\ Room(u)' \in Nat /\ Room(u)' >= Room(u)
  BY <1>1, <1>4, <1>14, IndicesAre DEF Room
<1>16. \A u \in Consumers : u # t => MultiConsumer
  OBVIOUS
<1>17. Near'
  BY <1>5, <1>7 DEF IInv, Near, NearAt, Side, Lone
<1>18. Fits'
  <2>1. FitsAt(t, pc[t], call[t])'
    BY <1>7 DEF FitsAt
  <2>2. ASSUME NEW u \in Threads, u # t
        PROVE  FitsAt(u, pc[u], call[u])'
    <3>1. pc'[u] = pc[u] /\ call'[u] = call[u] /\ Side(u)'.head = Side(u).head
      BY <1>5, <1>7, <2>2 DEF Side
    <3>2. CASE pc[u] = "claim" /\ call[u].head = Side(u).head
      <4>1. call[u].n <= Room(u)
        BY <3>2 DEF IInv, Fits, FitsAt
      <4>2. call[u].n \in Nat
        BY <1>1, Sizes DEF Types, CallRecord
      <4>3. Room(u) \in Nat /\ Room(u)' \in Nat /\ Room(u)' >= Room(u)
        BY <1>15, IndicesAre
      <4>4. call[u].n <= Room(u)'
        BY <4>1, <4>2, <4>3
      <4> QED BY <3>1, <4>4 DEF FitsAt
    <3>3. CASE ~ (pc[u] = "claim" /\ call[u].head = Side(u).head)
      BY <3>1, <3>3 DEF FitsAt
    <3> QED BY <3>2, <3>3
  <2> QED BY <2>1, <2>2 DEF Fits
<1>19. Told'
  <2>1. ASSUME NEW u \in Threads, Lone(u)
        PROVE  told'[u] <= Room(u)'
    <3>1. told[u] <= Room(u) /\ told[u] \in Nat /\ told'[u] = told[u]
      BY <1>1, <1>7, <2>1, Sizes DEF IInv, Told, ToldAt, Types
    <3>2. Room(u) \in Nat /\ Room(u)' \in Nat /\ Room(u)' >= Room(u)
      BY <1>15, IndicesAre
    <3> QED BY <3>1, <3>2
  <2>2. ToldAt(t, pc[t], call[t], told[t])'
    BY <1>1, <1>7, <2>1 DEF ToldAt, Lone
  <2>3. ASSUME NEW u \in Threads, u # t
        PROVE  ToldAt(u, pc[u], call[u], told[u])'
    <3>1. ASSUME Lone(u), pc[u] = "observe"
          PROVE  Watched(u, call[u])'
      <4>1. u \in Producers
        BY <1>16, <2>3, <3>1 DEF Lone, Threads
      <4>2. call[u].head = prod.tail
        BY <3>1, <4>1 DEF IInv, Told, ToldAt, Watched
      <4> QED BY <1>5, <1>7, <2>3, <4>1, <4>2 DEF Watched
    <3>2. Lone(u) /\ pc[u] \in {"claim", "copy", "publish"} => told[u] = 0
      BY DEF IInv, Told, ToldAt
    <3> QED BY <1>7, <2>1, <2>3, <3>1, <3>2 DEF ToldAt, Lone
  <2> QED BY <2>2, <2>3 DEF Told
<1> QED BY <1>7, <1>10, <1>13, <1>17, <1>18, <1>19 DEF IInv

(***************************************************************************)
(* The invariant.                                                          *)
(***************************************************************************)
LEMMA Initially == Init => IInv
<1> SUFFICES ASSUME Init
             PROVE  IInv
  OBVIOUS
<1>1. Sub(0, 0) = 0 /\ 0 \in Index /\ 0 \in Nat /\ 0 \in 0 .. Mask /\ 0 <= Mask
  BY Differences, Sizes
<1>2. prod = cons /\ prod.head = 0 /\ prod.tail = 0 /\ cons.head = 0 /\ cons.tail = 0
  BY DEF Init
<1>3. \A t \in Threads : pc[t] = "idle" /\ call[t] = NoCall /\ told[t] = 0
  BY DEF Init
<1>4. Types
  <2>1. call \in [Threads -> CallRecord]
    BY NothingCalled DEF Init
  <2>2. \A p \in Producers : call[p].table \in Seq(Values)
    BY <1>3, NothingCalled DEF Threads
  <2> QED BY <1>1, <1>3, <2>1, <2>2, NothingCalled DEF Init, Types
<1>5. Ordered
  BY <1>1, <1>2 DEF Ordered
<1>6. Near /\ Fits
  BY <1>3 DEF Near, NearAt, Fits, FitsAt
<1>7. Told
  <2>1. \A t \in Threads : Room(t) \in 0 .. Mask
    BY <1>4, <1>5, IndicesAre DEF Room
  <2> QED BY <1>3, <2>1 DEF Told, ToldAt
<1>8. Inside(Producers, pc) = {} /\ Inside(Consumers, pc) = {}
  BY <1>3 DEF Inside, Threads
<1>9. Tiled(Producers, prod, pc, call) /\ Tiled(Consumers, cons, pc, call)
  BY <1>2, <1>8 DEF Tiled
<1> QED BY <1>4, <1>5, <1>6, <1>7, <1>9 DEF IInv

LEMMA Inductive == IInv /\ [Next]_vars => IInv'
<1> SUFFICES ASSUME IInv, [Next]_vars
             PROVE  IInv'
  OBVIOUS
<1>1. ASSUME NEW p \in Producers, EnqueueCall(p), Spend(p)
      PROVE  IInv'
  <2>1. PICK table \in Bursts, behavior \in Behaviors : Start(p, table, behavior)
    BY <1>1 DEF EnqueueCall
  <2> PICK k \in 1 .. MaxBurst : table \in [1 .. k -> Values]
    BY <2>1 DEF Bursts
  <2>2. k \in Nat /\ table \in Seq(Values) /\ Len(table) = k
    BY Sizes
  <2>3. table \in Seq(Values \cup {NoValue}) /\ Len(table) \in 1 .. MaxBurst
    BY <2>2
  <2> QED BY <1>1, <2>1, <2>2, <2>3, StartStep DEF Threads
<1>2. ASSUME NEW p \in Producers, ReadHead(p, prod.head), Spend(p)
      PROVE  IInv'
  BY <1>2, ReadHeadStep DEF Threads, Side
<1>3. ASSUME NEW p \in Producers, Decide(p, FreeEntries(p)), Spend(p)
      PROVE  IInv'
  BY <1>3, DecideStep DEF Threads, Available
<1>4. ASSUME NEW p \in Producers, ClaimSlots(p), Spend(p)
      PROVE  IInv'
  <2>1. CASE Goto(p, "claim", "head") /\ UNCHANGED <<prod, cons, ring, call>>
    BY <1>4, <2>1, AgainStep DEF Threads
  <2>2. CASE Goto(p, "claim", "copy")
    <3>1. pc'[p] = "copy"
      BY <2>2 DEF IInv, Types, Goto, Threads
    <3> QED BY <1>4, <3>1, ClaimSlotsStep
  <2> QED BY <1>4, <2>1, <2>2 DEF ClaimSlots
<1>5. ASSUME NEW t \in Consumers, DequeueCall(t), Spend(t)
      PROVE  IInv'
  <2>1. PICK k \in 1 .. MaxBurst, behavior \in Behaviors :
               Start(t, [i \in 1 .. k |-> NoValue], behavior)
    BY <1>5 DEF DequeueCall
  <2>2. PICK table : table = [i \in 1 .. k |-> NoValue]
    OBVIOUS
  <2>3. k \in Nat /\ table \in Seq(Values \cup {NoValue}) /\ Len(table) = k
    BY <2>2, Sizes
  <2>4. Len(table) \in 1 .. MaxBurst /\ t \in Threads /\ t \notin Producers
    BY <2>3 DEF Threads
  <2> QED BY <1>5, <2>1, <2>2, <2>3, <2>4, StartStep
<1>6. ASSUME NEW t \in Consumers, ReadHead(t, cons.head), Spend(t)
      PROVE  IInv'
  BY <1>6, ReadHeadStep DEF Threads, Side
<1>7. ASSUME NEW t \in Consumers, Decide(t, FilledEntries(t)), Spend(t)
      PROVE  IInv'
  BY <1>7, DecideStep DEF Threads, Available
<1>8. ASSUME NEW t \in Consumers, ClaimEntries(t), Spend(t)
      PROVE  IInv'
  <2>1. CASE Goto(t, "claim", "head") /\ UNCHANGED <<prod, cons, ring, call>>
    BY <1>8, <2>1, AgainStep DEF Threads
  <2>2. CASE Goto(t, "claim", "copy")
    <3>1. pc'[t] = "copy"
      BY <2>2 DEF IInv, Types, Goto, Threads
    <3> QED BY <1>8, <3>1, ClaimEntriesStep
  <2> QED BY <1>8, <2>1, <2>2 DEF ClaimEntries
<1>9. ASSUME NEW t \in Observers, Observe(t)
      PROVE  IInv'
  BY <1>9, WatchStep, CountStep DEF Observe, Threads
<1>10. CASE UNCHANGED vars
  <2>1. /\ Types' /\ Ordered' /\ Tiled(Producers, prod, pc, call)' /\ Tiled(Consumers, cons, pc, call)'
    BY <1>10 DEF vars, IInv, Types, CallAt, Ordered
  <2>2. Near' /\ Fits' /\ Told'
    BY <1>10 DEF vars, IInv, Near, NearAt, Fits, FitsAt, Told, ToldAt, Watched, Side, Lone, Room,
                 FreeNow, FilledNow
  <2> QED BY <2>1, <2>2 DEF IInv
<1> QED BY <1>1, <1>2, <1>3, <1>4, <1>5, <1>6, <1>7, <1>8, <1>9, <1>10, WriteStep, ReadEntryStep,
           PublishStep, FreeStep DEF Next, EnqueueStep, DequeueStep

LEMMA InvariantHolds == Spec => []IInv
BY Initially, Inductive, PTL DEF Spec

(***************************************************************************)
(* The properties.                                                         *)
(***************************************************************************)
\* The indices never overtake each other and never reserve more than the ring,
\* whatever the threads do: the order of __llring_*_do_enqueue and _dequeue.
THEOREM IndicesAreOrdered == Spec => []IndicesOrdered
<1>1. IInv => IndicesOrdered
  <2> SUFFICES ASSUME IInv
               PROVE  IndicesOrdered
    OBVIOUS
  <2>1. TypeOK
    BY DEF IInv, Types, TypeOK, CallRecord, CallAt, Done
  <2> QED BY <2>1 DEF IInv, Ordered, IndicesOrdered
<1> QED BY <1>1, InvariantHolds, PTL

\* What a lone producer or consumer was told by llring_free_count or llring_count
\* is still there when it acts on it.
THEOREM CountsAreKept == Spec => []ToldIsThere
<1>1. IInv => ToldIsThere
  BY DEF IInv, Told, ToldAt, ToldIsThere, Lone, Room, Threads
<1> QED BY <1>1, InvariantHolds, PTL

\* Who waits for the tail to come to its entries waits for a thread that is still
\* inside its call, having reserved the entries at the tail.
THEOREM WaitsAreForOthers == Spec => []AwaitedIsInside
<1>1. IInv => AwaitedIsInside
  <2> SUFFICES ASSUME IInv
               PROVE  AwaitedIsInside
    OBVIOUS
  <2>1. ASSUME NEW group, NEW s, Shaped(group, s, pc, call), Tiled(group, s, pc, call),
               NEW t \in group, pc[t] = "publish", call[t].head # s.tail
        PROVE  \E u \in group \ {t} : pc[u] \in {"copy", "publish"} /\ call[u].head = s.tail
    <3>1. t \in Inside(group, pc)
      BY <2>1 DEF Inside
    <3>2. /\ call[t].head \in Index /\ s.head \in Index /\ s.tail \in Index
          /\ call[t].n \in Nat /\ call[t].n >= 1
      BY <2>1, <3>1, Sizes DEF Shaped
    <3>3. Sub(call[t].head, s.tail) + call[t].n <= Sub(s.head, s.tail)
      BY <2>1, <3>1 DEF Tiled
    <3>4. Sub(s.head, s.tail) # 0
      <4>1. Sub(call[t].head, s.tail) \in Nat /\ Sub(s.head, s.tail) \in Nat
        BY <3>2, Differences
      <4> QED BY <3>2, <3>3, <4>1
    <3>5. s.head # s.tail
      BY <3>2, <3>4, Differences
    <3>6. PICK u \in Inside(group, pc) : call[u].head = s.tail
      BY <2>1, <3>5 DEF Tiled
    <3> QED BY <2>1, <3>6 DEF Inside
  <2>2. Shaped(Producers, prod, pc, call) /\ Shaped(Consumers, cons, pc, call)
    BY GroupsShaped DEF IInv
  <2> QED BY <2>1, <2>2 DEF IInv, AwaitedIsInside
<1> QED BY <1>1, InvariantHolds, PTL

\* Where the entry i of a thread inside is, seen from the consumers' tail.
LEMMA SlotFrom ==
  ASSUME NEW head \in Index, NEW from \in Index, NEW i \in Nat
  PROVE  Slot(head + i) = Slot(from + (Sub(head, from) + i))
<1>1. head \in Nat /\ from \in Nat /\ Modulus \in Nat
  BY Sizes DEF Index
<1> PICK x : x = Sub(head, from)
  OBVIOUS
<1>2. /\ from <= head => x = head - from
      /\ from > head => x = head - from + Modulus
  BY Wrap
<1>3. from + (x + i) = head + i \/ from + (x + i) = (head + i) + Modulus
  BY <1>1, <1>2
<1>4. Slot((head + i) + Modulus) = Slot(head + i)
  BY <1>1, SlotWraps
<1> QED BY <1>3, <1>4

LEMMA PlacesApart ==
  ASSUME NEW from \in Index, NEW d \in Nat, NEW e \in Nat, d <= Mask, e <= Mask, d # e
  PROVE  Slot(from + d) # Slot(from + e)
<1>1. from \in Nat /\ Slots \in Nat /\ Mask = Slots - 1
  BY Sizes DEF Index
<1>2. ASSUME NEW a \in Nat, NEW b \in Nat, a < b, b <= Mask
      PROVE  Slot(from + a) # Slot(from + b)
  <2>1. from + a \in Nat /\ b - a \in 1 .. Slots - 1 /\ (from + a) + (b - a) = from + b
    BY <1>1, <1>2
  <2> QED BY <2>1, SlotsApart
<1> QED BY <1>2

\* What the threads inside have reserved, seen from there: the consumers' entries
\* are before the producers' tail, the producers' between their tail and head.
From(t) == Sub(call[t].head, cons.tail)

LEMMA ReservedFrom ==
  ASSUME IInv
  PROVE  /\ \A t \in Threads : From(t) \in Nat /\ call[t].head \in Index
         /\ \A t \in Inside(Consumers, pc) :
              /\ call[t].n \in Nat /\ call[t].n >= 1
              /\ From(t) + call[t].n <= Sub(cons.head, cons.tail)
         /\ \A t \in Inside(Producers, pc) :
              /\ call[t].n \in Nat /\ call[t].n >= 1
              /\ From(t) = Sub(call[t].head, prod.tail) + Sub(prod.tail, cons.tail)
              /\ Sub(prod.tail, cons.tail) <= From(t)
              /\ From(t) + call[t].n <= Sub(prod.head, cons.tail)
         /\ \A t, u \in Inside(Producers, pc) : t # u =>
              From(t) + call[t].n <= From(u) \/ From(u) + call[u].n <= From(t)
<1>1. Types /\ Ordered
  BY DEF IInv
<1>2. \A t \in Threads : From(t) \in Nat /\ call[t].head \in Index
  <2>1. \A t \in Threads : call[t].head \in Index
    BY <1>1 DEF Types, CallRecord
  <2> QED BY <1>1, <2>1, IndicesAre, Differences DEF From
<1>3. \A t \in Inside(Consumers, pc) \cup Inside(Producers, pc) :
        call[t].n \in Nat /\ call[t].n >= 1 /\ t \in Threads
  BY <1>1, GroupsShaped, Sizes DEF Shaped, Threads, Inside
<1>4. \A t \in Inside(Consumers, pc) : From(t) + call[t].n <= Sub(cons.head, cons.tail)
  BY DEF IInv, Tiled, From
<1>5. ASSUME NEW t \in Inside(Producers, pc)
      PROVE  /\ From(t) = Sub(call[t].head, prod.tail) + Sub(prod.tail, cons.tail)
             /\ Sub(prod.tail, cons.tail) <= From(t)
             /\ From(t) + call[t].n <= Sub(prod.head, cons.tail)
             /\ Sub(call[t].head, prod.tail) \in Nat
  <2>1. call[t].head \in Index /\ call[t].n \in Nat
    BY <1>2, <1>3
  <2>2. Sub(call[t].head, prod.tail) \in Nat
    BY <1>1, <2>1, IndicesAre, Differences
  <2>3. Sub(call[t].head, prod.tail) + call[t].n <= Sub(prod.head, prod.tail)
    BY DEF IInv, Tiled
  <2>4. Sub(call[t].head, prod.tail) + Sub(prod.tail, cons.tail) < Modulus
    BY <1>1, <2>1, <2>2, <2>3, IndicesAre DEF Ordered
  <2>5. From(t) = Sub(call[t].head, prod.tail) + Sub(prod.tail, cons.tail)
    BY <1>1, <2>1, <2>4, IndicesAre, Along DEF From
  <2> QED BY <1>1, <2>1, <2>2, <2>3, <2>5, IndicesAre
<1>6. ASSUME NEW t \in Inside(Producers, pc), NEW u \in Inside(Producers, pc), t # u
      PROVE  From(t) + call[t].n <= From(u) \/ From(u) + call[u].n <= From(t)
  <2>1. \/ Sub(call[t].head, prod.tail) + call[t].n <= Sub(call[u].head, prod.tail)
        \/ Sub(call[u].head, prod.tail) + call[u].n <= Sub(call[t].head, prod.tail)
    BY <1>6 DEF IInv, Tiled
  <2> QED BY <1>1, <1>3, <1>5, <2>1, IndicesAre
<1> QED BY <1>2, <1>3, <1>4, <1>5, <1>6

\* No slot is written while another thread writes or reads it.
THEOREM SlotsAreExclusive == Spec => []NoSlotRace
<1>1. IInv => NoSlotRace
  <2> SUFFICES ASSUME IInv, NEW t \in Producers, NEW u \in Threads, t # u
               PROVE  Reserved(t) \cap Reserved(u) = {}
    BY DEF NoSlotRace
  <2>1. SUFFICES ASSUME NEW slot, slot \in Reserved(t), slot \in Reserved(u)
                 PROVE  FALSE
    OBVIOUS
  <2>2. pc[t] \in {"copy", "publish"} /\ pc[u] \in {"copy", "publish"}
    BY <2>1 DEF Reserved
  <2>3. PICK i \in 0 .. call[t].n - 1 : slot = Slot(call[t].head + i)
    BY <2>1, <2>2 DEF Reserved
  <2>4. PICK j \in 0 .. call[u].n - 1 : slot = Slot(call[u].head + j)
    BY <2>1, <2>2 DEF Reserved
  <2>5. t \in Inside(Producers, pc) /\ t \in Threads
    BY <2>2 DEF Inside, Threads
  <2>6. /\ cons.tail \in Index /\ Mask \in Nat /\ Sub(prod.head, cons.tail) <= Mask
        /\ Sub(prod.head, cons.tail) \in Nat /\ Sub(prod.tail, cons.tail) \in Nat
        /\ Sub(cons.head, cons.tail) \in Nat
        /\ Sub(cons.head, cons.tail) <= Sub(prod.tail, cons.tail)
        /\ Sub(prod.tail, cons.tail) <= Sub(prod.head, cons.tail)
    BY IndicesAre DEF IInv, Ordered
  <2>7. /\ From(t) \in Nat /\ call[t].n \in Nat /\ Sub(prod.tail, cons.tail) <= From(t)
        /\ From(t) + call[t].n <= Sub(prod.head, cons.tail)
        /\ From(u) \in Nat /\ call[t].head \in Index /\ call[u].head \in Index
    BY <2>5, ReservedFrom
  <2>8. /\ call[u].n \in Nat /\ From(u) + call[u].n <= Sub(prod.head, cons.tail)
        /\ From(t) + call[t].n <= From(u) \/ From(u) + call[u].n <= From(t)
    <3>1. CASE u \in Producers
      <4>1. u \in Inside(Producers, pc)
        BY <2>2, <3>1 DEF Inside
      <4> QED BY <2>5, <4>1, ReservedFrom
    <3>2. CASE u \in Consumers
      <4>1. u \in Inside(Consumers, pc)
        BY <2>2, <3>2 DEF Inside
      <4>2. call[u].n \in Nat /\ From(u) + call[u].n <= Sub(cons.head, cons.tail)
        BY <4>1, ReservedFrom
      <4> QED BY <2>6, <2>7, <4>2
    <3> QED BY <3>1, <3>2 DEF Threads
  <2>9. i \in Nat /\ j \in Nat /\ i < call[t].n /\ j < call[u].n
    BY <2>7, <2>8
  <2>10. From(t) + i \in Nat /\ From(u) + j \in Nat
         /\ From(t) + i <= Mask /\ From(u) + j <= Mask /\ From(t) + i # From(u) + j
    BY <2>6, <2>7, <2>8, <2>9
  <2>11. slot = Slot(cons.tail + (From(t) + i)) /\ slot = Slot(cons.tail + (From(u) + j))
    BY <2>3, <2>4, <2>6, <2>7, <2>9, SlotFrom DEF From
  <2> QED BY <2>6, <2>10, <2>11, PlacesApart
<1> QED BY <1>1, InvariantHolds, PTL

\* A call is refused or cut short only if the room or the entries it asks for are
\* not there when it looks at the other side's tail.
THEOREM RefusalsAreJust == Spec => RefusedOnlyWhenShort
<1> DEFINE Just(t) ==
      pc[t] = "tail" /\ (pc'[t] = "idle" \/ (pc'[t] = "claim" /\ call'[t].n < Len(call[t].table)))
        => Room(t) < Len(call[t].table)
<1>1. IInv /\ [Next]_vars => [\A t \in Threads : Just(t)]_vars
  <2> SUFFICES ASSUME IInv, Next, NEW t \in Threads, pc[t] = "tail",
                      \/ pc'[t] = "idle"
                      \/ pc'[t] = "claim" /\ call'[t].n < Len(call[t].table)
               PROVE  Room(t) < Len(call[t].table)
    OBVIOUS
  <2>1. Types /\ Ordered /\ Near
    BY DEF IInv
  <2>2. call[t] \in CallRecord /\ CallAt("tail", call[t]) /\ call[t].n \in 0 .. MaxBurst
    BY <2>1 DEF Types, CallRecord
  <2>3. Room(t) \in Nat /\ Available(t) \in Nat /\ Room(t) <= Available(t)
    BY <2>1, AvailableIs, Sizes
  <2> PICK max : max = Len(call[t].table)
    OBVIOUS
  <2>4. max \in Nat
    BY <2>2 DEF CallAt
  <2>5. \A u, from, to : u \in Threads /\ Goto(u, from, to) /\ u # t => pc'[t] = pc[t]
    BY <2>1 DEF Goto, Types
  <2>6. \A from, to : Goto(t, from, to) => from = "tail" /\ to = pc'[t]
    BY <2>1 DEF Goto, Types
  <2>7. Decide(t, Available(t))
    <3>1. ASSUME NEW p \in Producers, EnqueueCall(p) \/ EnqueueStep(p)
          PROVE  p = t /\ Decide(p, FreeEntries(p))
      <4>1. p \in Threads
        BY DEF Threads
      <4>2. \A h : ~ ReadHead(p, h)
        BY <2>5, <2>6, <4>1 DEF ReadHead
      <4>3. ~ EnqueueCall(p) /\ ~ ClaimSlots(p) /\ ~ PublishSlots(p)
        <5>1. \A from, to : Goto(p, from, to) => from = "tail"
          BY <2>5, <2>6, <4>1
        <5>2. ~ EnqueueCall(p)
          BY <5>1 DEF EnqueueCall, Start
        <5>3. ~ ClaimSlots(p)
          BY <5>1 DEF ClaimSlots
        <5>4. ~ PublishSlots(p)
          BY <5>1 DEF PublishSlots, Return
        <5> QED BY <5>2, <5>3, <5>4
      <4>4. ~ WriteEntry(p)
        BY <2>5, <2>6, <4>1 DEF WriteEntry, Copy
      <4>5. Decide(p, FreeEntries(p))
        BY <3>1, <4>2, <4>3, <4>4 DEF EnqueueStep
      <4>6. p = t
        BY <2>5, <4>1, <4>5 DEF Decide, Return
      <4> QED BY <4>5, <4>6
    <3>2. ASSUME NEW c \in Consumers, DequeueCall(c) \/ DequeueStep(c)
          PROVE  c = t /\ Decide(c, FilledEntries(c))
      <4>1. c \in Threads
        BY DEF Threads
      <4>2. \A h : ~ ReadHead(c, h)
        BY <2>5, <2>6, <4>1 DEF ReadHead
      <4>3. ~ DequeueCall(c) /\ ~ ClaimEntries(c) /\ ~ FreeSlots(c)
        <5>1. \A from, to : Goto(c, from, to) => from = "tail"
          BY <2>5, <2>6, <4>1
        <5>2. ~ DequeueCall(c)
          BY <5>1 DEF DequeueCall, Start
        <5>3. ~ ClaimEntries(c)
          BY <5>1 DEF ClaimEntries
        <5>4. ~ FreeSlots(c)
          BY <5>1 DEF FreeSlots, Return
        <5> QED BY <5>2, <5>3, <5>4
      <4>4. ~ CopyEntry(c)
        BY <2>5, <2>6, <4>1 DEF CopyEntry, Copy
      <4>5. Decide(c, FilledEntries(c))
        BY <3>2, <4>2, <4>3, <4>4 DEF DequeueStep
      <4>6. c = t
        BY <2>5, <4>1, <4>5 DEF Decide, Return
      <4> QED BY <4>5, <4>6
    <3>3. ASSUME NEW u \in Observers
          PROVE  ~ Observe(u)
      BY <2>5, <2>6, <3>3 DEF Observe, ReadProdTail, ReadConsTail, Return, Threads
    <3> QED BY <3>1, <3>2, <3>3 DEF Next, Available, Threads
  <2>8. CASE Return(t, "tail")
    <3>1. max > Available(t)
      <4>1. pc'[t] = "idle"
        BY <2>1, <2>8 DEF Return, Goto, Types
      <4>2. ~ Goto(t, "tail", "claim")
        BY <2>6, <4>1
      <4> QED BY <2>7, <4>2 DEF Decide
    <3> QED BY <2>3, <2>4, <3>1
  <2>9. CASE ~ Return(t, "tail")
    <3>1. \/ max <= Available(t) /\ Goto(t, "tail", "claim") /\ call' = [call EXCEPT ![t].n = max]
          \/ max > Available(t)
      BY <2>7, <2>9 DEF Decide
    <3>2. CASE max > Available(t)
      BY <2>3, <2>4, <3>2
    <3>3. CASE Goto(t, "tail", "claim") /\ call' = [call EXCEPT ![t].n = max]
      <4>1. pc'[t] = "claim" /\ call'[t].n = max
        BY <2>1, <2>6, <3>3 DEF Types, CallRecord
      <4> QED BY <2>4, <4>1
    <3> QED BY <3>1, <3>2, <3>3
  <2> QED BY <2>8, <2>9
<1> HIDE DEF Just
<1>2. [\A t \in Threads : Just(t)]_vars =>
      [\A t \in Threads :
         LET asked == Len(call[t].table)
             now   == IF t \in Producers THEN FreeNow ELSE FilledNow
             short == pc'[t] = "idle" \/ (pc'[t] = "claim" /\ call'[t].n < asked)
         IN  pc[t] = "tail" /\ short => now < asked]_vars
  BY DEF Just, Room
<1> QED BY <1>1, <1>2, InvariantHolds, PTL DEF Spec, RefusedOnlyWhenShort

(***************************************************************************)
(* The queue (Fifo).  What a producer inside has already written is there  *)
(* to be published, and nobody writes into the queue or into what a        *)
(* consumer inside has reserved.                                           *)
(***************************************************************************)
Queue == [i \in 1 .. Sub(prod.tail, cons.head) |-> ring[Slot(cons.head + i - 1)]]

BurstOf(c) ==
  IF pc[c] \in {"copy", "publish"}
  THEN [i \in 1 .. call[c].n |-> IF i <= Done(c) THEN call[c].copied[i]
                                  ELSE ring[Slot(call[c].head + i - 1)]]
  ELSE << >>

Taken == [c \in Consumers |-> BurstOf(c)]

Written ==
  \A p \in Inside(Producers, pc) : \A i \in 1 .. Done(p) :
    ring[Slot(call[p].head + i - 1)] = call[p].table[i]

LEMMA DoneIs ==
  ASSUME Types, NEW t \in Threads
  PROVE  /\ Done(t) \in Nat /\ call[t].n \in Nat /\ Done(t) <= call[t].n /\ call[t].head \in Nat
         /\ pc[t] = "copy" => Done(t) < call[t].n
         /\ pc[t] = "publish" => Done(t) = call[t].n
         /\ pc[t] \notin {"copy", "publish"} => Done(t) = 0
<1>1. call[t] \in CallRecord /\ CallAt(pc[t], call[t])
  BY DEF Types
<1> QED BY <1>1, Sizes DEF CallRecord, CallAt, Done, Index

\* The entries of a thread inside, the others reserved, and the queue are in
\* different slots.
LEMMA EntriesApart ==
  ASSUME IInv, NEW p \in Inside(Producers, pc), NEW i \in 1 .. call[p].n
  PROVE  /\ \A j \in 1 .. call[p].n : j # i => Slot(call[p].head + j - 1) # Slot(call[p].head + i - 1)
         /\ \A q \in Inside(Producers, pc) \ {p} : \A j \in 1 .. call[q].n :
              Slot(call[q].head + j - 1) # Slot(call[p].head + i - 1)
         /\ \A c \in Inside(Consumers, pc) : \A j \in 1 .. call[c].n :
              Slot(call[c].head + j - 1) # Slot(call[p].head + i - 1)
         /\ \A j \in 1 .. Sub(prod.tail, cons.head) :
              Slot(cons.head + j - 1) # Slot(call[p].head + i - 1)
<1>1. /\ cons.tail \in Index /\ cons.head \in Index /\ Mask \in Nat /\ Sub(prod.head, cons.tail) <= Mask
      /\ Sub(prod.head, cons.tail) \in Nat /\ Sub(prod.tail, cons.tail) \in Nat
      /\ Sub(cons.head, cons.tail) \in Nat
      /\ Sub(cons.head, cons.tail) <= Sub(prod.tail, cons.tail)
      /\ Sub(prod.tail, cons.tail) <= Sub(prod.head, cons.tail)
      /\ Sub(prod.tail, cons.head) = Sub(prod.tail, cons.tail) - Sub(cons.head, cons.tail)
  BY IndicesAre DEF IInv, Ordered, FilledNow
<1>2. /\ \A t \in Threads : From(t) \in Nat /\ call[t].head \in Index
      /\ \A t \in Inside(Producers, pc) :
           /\ t \in Threads /\ call[t].n \in Nat /\ Sub(prod.tail, cons.tail) <= From(t)
           /\ From(t) + call[t].n <= Sub(prod.head, cons.tail)
      /\ \A t \in Inside(Consumers, pc) :
           t \in Threads /\ call[t].n \in Nat /\ From(t) + call[t].n <= Sub(cons.head, cons.tail)
  BY ReservedFrom DEF Inside, Threads
<1>3. ASSUME NEW a \in Index, NEW b \in Index, NEW k, NEW j, k - 1 \in Nat, j - 1 \in Nat, k \in Nat, j \in Nat,
             Sub(a, cons.tail) + (k - 1) <= Mask, Sub(b, cons.tail) + (j - 1) <= Mask,
             Sub(a, cons.tail) + (k - 1) # Sub(b, cons.tail) + (j - 1)
      PROVE  Slot(a + k - 1) # Slot(b + j - 1)
  <2>1. Sub(a, cons.tail) \in Nat /\ Sub(b, cons.tail) \in Nat /\ a \in Nat /\ b \in Nat
    <3>1. \A x \in Index : Sub(x, cons.tail) \in Nat
      BY <1>1, Differences
    <3>2. \A x \in Index : x \in Nat
      BY Sizes DEF Index
    <3> QED BY <1>3, <3>1, <3>2
  <2>2. Sub(a, cons.tail) + (k - 1) \in Nat /\ Sub(b, cons.tail) + (j - 1) \in Nat
    BY <1>3, <2>1
  <2>3. a + (k - 1) = a + k - 1 /\ b + (j - 1) = b + j - 1
    BY <1>3, <2>1
  <2> QED BY <1>1, <1>3, <2>2, <2>3, SlotFrom, PlacesApart
<1>4. i \in Nat /\ i - 1 \in Nat /\ i <= call[p].n /\ p \in Threads
      /\ From(p) + (i - 1) <= Mask /\ From(p) + (i - 1) < Sub(prod.head, cons.tail)
      /\ Sub(prod.tail, cons.tail) <= From(p) + (i - 1)
  BY <1>1, <1>2
<1>5. ASSUME NEW j \in 1 .. call[p].n, j # i
      PROVE  Slot(call[p].head + j - 1) # Slot(call[p].head + i - 1)
  <2>1. j \in Nat /\ j - 1 \in Nat /\ From(p) + (j - 1) <= Mask /\ From(p) + (j - 1) # From(p) + (i - 1)
    BY <1>1, <1>2, <1>4, <1>5
  <2> QED BY <1>2, <1>3, <1>4, <2>1 DEF From
<1>6. ASSUME NEW q \in Inside(Producers, pc) \ {p}, NEW j \in 1 .. call[q].n
      PROVE  Slot(call[q].head + j - 1) # Slot(call[p].head + i - 1)
  <2>1. From(p) + call[p].n <= From(q) \/ From(q) + call[q].n <= From(p)
    BY ReservedFrom
  <2>2. j \in Nat /\ j - 1 \in Nat /\ From(q) + (j - 1) <= Mask /\ From(q) + (j - 1) # From(p) + (i - 1)
    BY <1>1, <1>2, <1>4, <2>1
  <2> QED BY <1>2, <1>3, <1>4, <2>2 DEF From
<1>7. ASSUME NEW c \in Inside(Consumers, pc), NEW j \in 1 .. call[c].n
      PROVE  Slot(call[c].head + j - 1) # Slot(call[p].head + i - 1)
  <2>1. j \in Nat /\ j - 1 \in Nat /\ From(c) + (j - 1) <= Mask /\ From(c) + (j - 1) # From(p) + (i - 1)
    BY <1>1, <1>2, <1>4
  <2> QED BY <1>2, <1>3, <1>4, <2>1 DEF From
<1>8. ASSUME NEW j \in 1 .. Sub(prod.tail, cons.head)
      PROVE  Slot(cons.head + j - 1) # Slot(call[p].head + i - 1)
  <2>1. /\ j \in Nat /\ j - 1 \in Nat /\ Sub(cons.head, cons.tail) + (j - 1) <= Mask
        /\ Sub(cons.head, cons.tail) + (j - 1) # From(p) + (i - 1)
    BY <1>1, <1>4
  <2>2. cons.head \in Index /\ call[p].head \in Index
    BY <1>1, <1>2, <1>4
  <2>3. From(p) = Sub(call[p].head, cons.tail)
    BY DEF From
  <2>4. j \in Nat /\ i \in Nat /\ i - 1 \in Nat
    BY <1>4, <2>1
  <2> QED BY <1>3, <1>4, <2>1, <2>2, <2>3, <2>4, Zenon
<1> QED BY <1>5, <1>6, <1>7, <1>8

\* A step that leaves the ring, the queue's ends and what is reserved alone, but
\* may let a producer reserve slots.
LEMMA QuietStep ==
  ASSUME Types, Written, NEW t \in Threads, ring' = ring, prod'.tail = prod.tail, cons'.head = cons.head,
         pc[t] \notin {"copy", "publish"},
         pc'[t] \in {"copy", "publish"} => t \notin Consumers /\ Done(t)' = 0,
         \A u \in Threads \ {t} : pc'[u] = pc[u] /\ call'[u] = call[u]
  PROVE  Written' /\ Queue' = Queue /\ Taken' = Taken
<1>1. Written'
  <2> SUFFICES ASSUME NEW p \in Inside(Producers, pc'), NEW i \in 1 .. Done(p)'
               PROVE  ring'[Slot(call'[p].head + i - 1)] = call'[p].table[i]
    BY DEF Written
  <2>1. CASE p = t
    BY <2>1 DEF Inside
  <2>2. CASE p # t
    <3>1. p \in Inside(Producers, pc) /\ call'[p] = call[p]
      BY <2>2 DEF Inside, Threads
    <3>2. i \in 1 .. Done(p)
      BY <3>1 DEF Done
    <3> QED BY <3>1, <3>2 DEF Written
  <2> QED BY <2>1, <2>2
<1>2. Queue' = Queue
  BY DEF Queue
<1>3. ASSUME NEW c \in Consumers
      PROVE  BurstOf(c)' = BurstOf(c)
  <2>1. CASE c = t
    BY <2>1 DEF BurstOf
  <2>2. CASE c # t
    <3>1. pc'[c] = pc[c] /\ call'[c] = call[c]
      BY <2>2 DEF Threads
    <3>2. Done(c)' = Done(c)
      BY <3>1 DEF Done
    <3> QED BY <3>1, <3>2 DEF BurstOf
  <2> QED BY <2>1, <2>2
<1>4. Taken' = Taken
  BY <1>3 DEF Taken
<1> QED BY <1>1, <1>2, <1>4

\* What a step does to the thread that takes it, and to no other.
LEMMA OneSteps ==
  ASSUME Types, NEW t \in Threads, NEW from, NEW to, Goto(t, from, to)
  PROVE  /\ pc[t] = from /\ pc'[t] = to
         /\ \A u \in Threads \ {t} : pc'[u] = pc[u]
         /\ UNCHANGED call => \A u \in Threads : call'[u] = call[u]
         /\ call' = [call EXCEPT ![t] = NoCall] =>
              call'[t] = NoCall /\ \A u \in Threads \ {t} : call'[u] = call[u]
         /\ \A k : call' = [call EXCEPT ![t].n = k] => \A u \in Threads \ {t} : call'[u] = call[u]
         /\ \A k : call' = [call EXCEPT ![t].head = k] => \A u \in Threads \ {t} : call'[u] = call[u]
BY DEF Types, Goto

LEMMA QuietSteps ==
  ASSUME IInv, Written, NEW t \in Threads,
         \/ \E table, behavior : Start(t, table, behavior)
         \/ \E h : ReadHead(t, h)
         \/ \E k : Decide(t, k)
         \/ Goto(t, "claim", "head") /\ UNCHANGED <<prod, cons, ring, call>>
         \/ Observe(t)
         \/ t \in Producers /\ ClaimSlots(t) /\ pc'[t] = "copy"
  PROVE  Written' /\ Queue' = Queue /\ Taken' = Taken
<1>1. Types
  BY DEF IInv
<1>2. ASSUME NEW table, NEW behavior, Start(t, table, behavior)
      PROVE  Written' /\ Queue' = Queue /\ Taken' = Taken
  <2>1. Goto(t, "idle", "head") /\ UNCHANGED <<prod, cons, ring>>
        /\ call' = [call EXCEPT ![t].table = table, ![t].behavior = behavior]
    BY <1>2 DEF Start
  <2>2. pc[t] = "idle" /\ pc'[t] = "head" /\ \A u \in Threads \ {t} : pc'[u] = pc[u]
    BY <1>1, <2>1 DEF Types, Goto
  <2>3. \A u \in Threads \ {t} : call'[u] = call[u]
    BY <1>1, <2>1 DEF Types
  <2> QED BY <1>1, <2>1, <2>2, <2>3, QuietStep
<1>3. ASSUME NEW h, ReadHead(t, h)
      PROVE  Written' /\ Queue' = Queue /\ Taken' = Taken
  <2>1. Goto(t, "head", "tail") /\ UNCHANGED <<prod, cons, ring>> /\ call' = [call EXCEPT ![t].head = h]
    BY <1>3 DEF ReadHead
  <2>2. pc[t] = "head" /\ pc'[t] = "tail" /\ \A u \in Threads \ {t} : pc'[u] = pc[u] /\ call'[u] = call[u]
    BY <1>1, <2>1, OneSteps
  <2> QED BY <1>1, <2>1, <2>2, QuietStep
<1>4. ASSUME NEW k, Decide(t, k)
      PROVE  Written' /\ Queue' = Queue /\ Taken' = Taken
  <2>1. /\ UNCHANGED <<prod, cons, ring>>
        /\ \/ Return(t, "tail")
           \/ Goto(t, "tail", "claim") /\ \E n : call' = [call EXCEPT ![t].n = n]
    BY <1>4 DEF Decide
  <2>2. pc[t] = "tail" /\ pc'[t] \in {"claim", "idle"}
        /\ \A u \in Threads \ {t} : pc'[u] = pc[u] /\ call'[u] = call[u]
    BY <1>1, <2>1, OneSteps DEF Return
  <2> QED BY <1>1, <2>1, <2>2, QuietStep
<1>5. ASSUME Goto(t, "claim", "head"), UNCHANGED <<prod, cons, ring, call>>
      PROVE  Written' /\ Queue' = Queue /\ Taken' = Taken
  <2>1. pc[t] = "claim" /\ pc'[t] = "head" /\ \A u \in Threads \ {t} : pc'[u] = pc[u] /\ call'[u] = call[u]
    BY <1>1, <1>5, OneSteps
  <2> QED BY <1>1, <1>5, <2>1, QuietStep
<1>6. ASSUME Observe(t)
      PROVE  Written' /\ Queue' = Queue /\ Taken' = Taken
  <2>1. /\ UNCHANGED <<prod, cons, ring>>
        /\ \/ Return(t, "observe")
           \/ Goto(t, "idle", "observe") /\ call' = [call EXCEPT ![t].head = prod.tail]
    BY <1>6 DEF Observe, ReadProdTail, ReadConsTail
  <2>2. pc[t] \in {"idle", "observe"} /\ pc'[t] \in {"idle", "observe"}
        /\ \A u \in Threads \ {t} : pc'[u] = pc[u] /\ call'[u] = call[u]
    BY <1>1, <2>1, OneSteps DEF Return
  <2> QED BY <1>1, <2>1, <2>2, QuietStep
<1>7. ASSUME t \in Producers, ClaimSlots(t), pc'[t] = "copy"
      PROVE  Written' /\ Queue' = Queue /\ Taken' = Taken
  <2>1. Goto(t, "claim", "copy") /\ UNCHANGED <<cons, ring, call>> /\ prod'.tail = prod.tail
    BY <1>1, <1>7 DEF ClaimSlots, Goto, Types
  <2>2. pc[t] = "claim" /\ \A u \in Threads \ {t} : pc'[u] = pc[u] /\ call'[u] = call[u]
    BY <1>1, <2>1, OneSteps
  <2>3. Done(t)' = 0
    BY <1>1, <2>1, <2>2, DoneIs DEF Done
  <2> QED BY <1>1, <1>7, <2>1, <2>2, <2>3, QuietStep
<1> QED BY <1>2, <1>3, <1>4, <1>5, <1>6, <1>7

\* A producer's write goes into its own slot.
LEMMA WriteKeeps ==
  ASSUME IInv, Written, NEW p \in Producers, WriteEntry(p)
  PROVE  Written' /\ Queue' = Queue /\ Taken' = Taken
<1>1. Types /\ pc[p] = "copy" /\ p \in Threads /\ p \in Inside(Producers, pc)
  BY DEF IInv, WriteEntry, Copy, Goto, Threads, Inside
<1> PICK d : d = Done(p)
  OBVIOUS
<1> PICK v : v = call[p].table[d + 1]
  OBVIOUS
<1> PICK here : here = Here(p)
  OBVIOUS
<1>2. /\ d \in Nat /\ call[p].n \in Nat /\ d < call[p].n /\ call[p].head \in Nat
      /\ d + 1 \in 1 .. call[p].n
  BY <1>1, DoneIs
<1>3. here = Slot(call[p].head + (d + 1) - 1) /\ here \in 0 .. Mask
  <2>1. call[p].head + (d + 1) - 1 = call[p].head + d /\ call[p].head + d \in Nat
    BY <1>2
  <2>2. Slot(call[p].head + d) \in 0 .. Slots - 1
    BY <2>1, Division
  <2> QED BY <2>1, <2>2 DEF Here, Mask
<1>4. /\ ring' = [ring EXCEPT ![here] = v] /\ UNCHANGED <<prod, cons>>
      /\ pc'[p] \in {"copy", "publish"}
      /\ call' = [call EXCEPT ![p].copied = Append(@, v)]
      /\ \A u \in Threads \ {p} : pc'[u] = pc[u] /\ call'[u] = call[u]
  <2>1. Copy(p, v) /\ ring' = [ring EXCEPT ![here] = v] /\ UNCHANGED <<prod, cons>>
    BY DEF WriteEntry
  <2> QED BY <1>1, <2>1 DEF Copy, Goto, Types
<1>5. /\ ring'[here] = v
      /\ \A slot : slot # here => ring'[slot] = ring[slot]
  BY <1>1, <1>3, <1>4 DEF Types
<1>6. /\ call'[p].head = call[p].head /\ call'[p].table = call[p].table
      /\ call'[p].copied = Append(call[p].copied, v)
  BY <1>1, <1>4 DEF Types, CallRecord
<1>7. Done(p)' = d + 1
  <2>1. call[p].copied \in Seq(Values \cup {NoValue}) /\ d = Len(call[p].copied)
    BY <1>1 DEF Types, CallRecord, Done
  <2>2. Len(Append(call[p].copied, v)) = Len(call[p].copied) + 1
    BY <2>1
  <2> QED BY <1>6, <2>1, <2>2 DEF Done
<1>8. /\ \A j \in 1 .. call[p].n : j # d + 1 => Slot(call[p].head + j - 1) # here
      /\ \A q \in Inside(Producers, pc) \ {p} : \A j \in 1 .. call[q].n :
           Slot(call[q].head + j - 1) # here
      /\ \A c \in Inside(Consumers, pc) : \A j \in 1 .. call[c].n : Slot(call[c].head + j - 1) # here
      /\ \A j \in 1 .. Sub(prod.tail, cons.head) : Slot(cons.head + j - 1) # here
  BY <1>1, <1>2, <1>3, EntriesApart
<1>9. Written'
  <2> SUFFICES ASSUME NEW q \in Inside(Producers, pc'), NEW i \in 1 .. Done(q)'
               PROVE  ring'[Slot(call'[q].head + i - 1)] = call'[q].table[i]
    BY DEF Written
  <2>1. CASE q = p
    <3>1. CASE i = d + 1
      BY <1>3, <1>5, <1>6, <2>1, <3>1
    <3>2. CASE i # d + 1
      <4>1. i \in 1 .. d /\ i \in 1 .. call[p].n
        BY <1>2, <1>7, <2>1, <3>2
      <4>2. ring[Slot(call[p].head + i - 1)] = call[p].table[i]
        BY <1>1, <4>1 DEF Written
      <4>3. Slot(call[p].head + i - 1) # here
        BY <1>8, <3>2, <4>1
      <4> QED BY <1>5, <1>6, <2>1, <4>2, <4>3
    <3> QED BY <3>1, <3>2
  <2>2. CASE q # p
    <3>1. q \in Inside(Producers, pc) \ {p} /\ q \in Threads /\ call'[q] = call[q]
      BY <1>4, <2>2 DEF Inside, Threads
    <3>2. i \in 1 .. Done(q) /\ i \in 1 .. call[q].n
      <4>1. Done(q) \in Nat /\ call[q].n \in Nat /\ Done(q) <= call[q].n
        BY <1>1, <3>1, DoneIs
      <4>2. Done(q)' = Done(q)
        BY <3>1 DEF Done
      <4> QED BY <4>1, <4>2
    <3>3. Slot(call[q].head + i - 1) # here
      BY <1>8, <3>1, <3>2
    <3> QED BY <1>5, <3>1, <3>2, <3>3 DEF Written
  <2> QED BY <2>1, <2>2
<1>10. Queue' = Queue
  <2>1. \A i \in 1 .. Sub(prod.tail, cons.head) :
          ring'[Slot(cons.head + i - 1)] = ring[Slot(cons.head + i - 1)]
    BY <1>5, <1>8
  <2> QED BY <1>4, <2>1 DEF Queue
<1>11. ASSUME NEW c \in Consumers
       PROVE  BurstOf(c)' = BurstOf(c)
  <2>1. pc'[c] = pc[c] /\ call'[c] = call[c] /\ c \in Threads
    BY <1>4 DEF Threads
  <2>2. Done(c)' = Done(c)
    BY <2>1 DEF Done
  <2>3. CASE pc[c] \in {"copy", "publish"}
    <3>1. \A i \in 1 .. call[c].n :
            ring'[Slot(call[c].head + i - 1)] = ring[Slot(call[c].head + i - 1)]
      BY <1>5, <1>8, <2>3 DEF Inside
    <3> QED BY <2>1, <2>2, <2>3, <3>1 DEF BurstOf
  <2>4. CASE pc[c] \notin {"copy", "publish"}
    BY <2>1, <2>4 DEF BurstOf
  <2> QED BY <2>3, <2>4
<1>12. Taken' = Taken
  BY <1>11 DEF Taken
<1> QED BY <1>9, <1>10, <1>12

\* A consumer's copy is what it found.
LEMMA ReadKeeps ==
  ASSUME IInv, Written, NEW t \in Consumers, CopyEntry(t)
  PROVE  Written' /\ Queue' = Queue /\ Taken' = Taken
<1>1. Types /\ pc[t] = "copy" /\ t \in Threads
  BY DEF IInv, CopyEntry, Copy, Goto, Threads
<1> PICK d : d = Done(t)
  OBVIOUS
<1> PICK v : v = ring[Here(t)]
  OBVIOUS
<1>2. d \in Nat /\ call[t].n \in Nat /\ d < call[t].n /\ call[t].head \in Nat
  BY <1>1, DoneIs
<1>3. v = ring[Slot(call[t].head + (d + 1) - 1)]
  <2>1. call[t].head + (d + 1) - 1 = call[t].head + d
    BY <1>2
  <2> QED BY <2>1 DEF Here
<1>4. /\ UNCHANGED <<prod, cons, ring>> /\ pc'[t] \in {"copy", "publish"}
      /\ call' = [call EXCEPT ![t].copied = Append(@, v)]
      /\ \A u \in Threads \ {t} : pc'[u] = pc[u] /\ call'[u] = call[u]
  BY <1>1 DEF CopyEntry, Copy, Goto, Types
<1>5. /\ call'[t].head = call[t].head /\ call'[t].n = call[t].n
      /\ call'[t].copied = Append(call[t].copied, v)
  BY <1>1, <1>4 DEF Types, CallRecord
<1>6. call[t].copied \in Seq(Values \cup {NoValue}) /\ d = Len(call[t].copied)
  BY <1>1 DEF Types, CallRecord, Done
<1>7. /\ Done(t)' = d + 1 /\ call'[t].copied[d + 1] = v
      /\ \A i \in 1 .. d : call'[t].copied[i] = call[t].copied[i]
  <2>1. /\ Len(Append(call[t].copied, v)) = Len(call[t].copied) + 1
        /\ Append(call[t].copied, v)[Len(call[t].copied) + 1] = v
        /\ \A i \in 1 .. Len(call[t].copied) : Append(call[t].copied, v)[i] = call[t].copied[i]
    BY <1>6
  <2> QED BY <1>5, <1>6, <2>1 DEF Done
<1>8. Written'
  <2> SUFFICES ASSUME NEW q \in Inside(Producers, pc'), NEW i \in 1 .. Done(q)'
               PROVE  ring'[Slot(call'[q].head + i - 1)] = call'[q].table[i]
    BY DEF Written
  <2>1. q \in Inside(Producers, pc) /\ call'[q] = call[q]
    BY <1>4 DEF Inside, Threads
  <2>2. Done(q)' = Done(q)
    BY <2>1 DEF Done
  <2> QED BY <1>4, <2>1, <2>2 DEF Written
<1>9. Queue' = Queue
  BY <1>4 DEF Queue
<1>10. BurstOf(t)' = BurstOf(t)
  <2>1. \A i \in 1 .. call[t].n :
          (IF i <= d + 1 THEN call'[t].copied[i] ELSE ring[Slot(call[t].head + i - 1)])
            = (IF i <= d THEN call[t].copied[i] ELSE ring[Slot(call[t].head + i - 1)])
    <3> SUFFICES ASSUME NEW i \in 1 .. call[t].n
                 PROVE  (IF i <= d + 1 THEN call'[t].copied[i] ELSE ring[Slot(call[t].head + i - 1)])
                          = (IF i <= d THEN call[t].copied[i] ELSE ring[Slot(call[t].head + i - 1)])
      OBVIOUS
    <3>1. CASE i <= d
      <4>1. i \in 1 .. d /\ i <= d + 1
        BY <1>2, <3>1
      <4> QED BY <1>7, <3>1, <4>1
    <3>2. CASE i = d + 1
      <4>1. ~ (i <= d) /\ i <= d + 1
        BY <1>2, <3>2
      <4> QED BY <1>3, <1>7, <3>2, <4>1
    <3>3. CASE i > d + 1
      <4>1. ~ (i <= d) /\ ~ (i <= d + 1)
        BY <1>2, <3>3
      <4> QED BY <4>1
    <3> QED BY <1>2, <3>1, <3>2, <3>3
  <2>2. BurstOf(t) = [i \in 1 .. call[t].n |-> IF i <= d THEN call[t].copied[i]
                                               ELSE ring[Slot(call[t].head + i - 1)]]
    BY <1>1 DEF BurstOf
  <2>3. BurstOf(t)' = [i \in 1 .. call[t].n |-> IF i <= d + 1 THEN call'[t].copied[i]
                                                ELSE ring[Slot(call[t].head + i - 1)]]
    <3>1. ring' = ring /\ pc'[t] \in {"copy", "publish"} /\ call'[t].n = call[t].n
          /\ call'[t].head = call[t].head /\ Done(t)' = d + 1
      BY <1>4, <1>5, <1>7
    <3> QED BY <3>1 DEF BurstOf
  <2> QED BY <2>1, <2>2, <2>3
<1>11. ASSUME NEW c \in Consumers, c # t
       PROVE  BurstOf(c)' = BurstOf(c)
  <2>1. pc'[c] = pc[c] /\ call'[c] = call[c]
    BY <1>4, <1>11 DEF Threads
  <2>2. Done(c)' = Done(c)
    BY <2>1 DEF Done
  <2>3. ring' = ring
    BY <1>4
  <2> QED BY <2>1, <2>2, <2>3 DEF BurstOf
<1>12. Taken' = Taken
  BY <1>10, <1>11 DEF Taken
<1> QED BY <1>8, <1>9, <1>12

Entry == Values \cup {NoValue}

\* So many entries of a ring, from an index on.
LEMMA EntriesAre ==
  ASSUME NEW slots \in [0 .. Mask -> Entry], NEW from \in Index, NEW count \in Nat
  PROVE  \A i \in 1 .. count : slots[Slot(from + i - 1)] \in Entry
<1>1. \A i \in 1 .. count : from + i - 1 \in Nat
  BY Sizes DEF Index
<1>2. \A x \in Nat : Slot(x) \in 0 .. Mask
  BY Division DEF Mask
<1> QED BY <1>1, <1>2

LEMMA QueueIs ==
  ASSUME Types, Ordered
  PROVE  /\ Queue \in Seq(Entry) /\ Len(Queue) = FilledNow /\ FilledNow \in Nat
         /\ \A i \in 1 .. FilledNow : Queue[i] = ring[Slot(cons.head + i - 1)]
<1>1. FilledNow \in Nat /\ cons.head \in Index /\ ring \in [0 .. Mask -> Entry]
  BY IndicesAre DEF Types, Entry
<1>2. Queue = [i \in 1 .. FilledNow |-> ring[Slot(cons.head + i - 1)]]
  BY DEF Queue, FilledNow
<1>3. Queue \in [1 .. FilledNow -> Entry]
  BY <1>1, <1>2, EntriesAre
<1> QED BY <1>1, <1>2, <1>3

\* A sequence that begins with one and goes on with another.
LEMMA Concatenated ==
  ASSUME NEW S
  PROVE  \A s, t, u \in Seq(S) :
           /\ Len(u) = Len(s) + Len(t) /\ \A i \in 1 .. Len(s) : u[i] = s[i]
           /\ \A i \in 1 .. Len(t) : u[Len(s) + i] = t[i]
           => u = s \o t
<1> TAKE s, t, u \in Seq(S)
<1> HAVE /\ Len(u) = Len(s) + Len(t) /\ \A i \in 1 .. Len(s) : u[i] = s[i]
         /\ \A i \in 1 .. Len(t) : u[Len(s) + i] = t[i]
<1>1. /\ s \o t \in Seq(S) /\ Len(s \o t) = Len(s) + Len(t)
      /\ \A i \in 1 .. Len(s) + Len(t) : (s \o t)[i] = IF i <= Len(s) THEN s[i] ELSE t[i - Len(s)]
  BY ConcatProperties
<1>2. Len(s) \in Nat /\ Len(t) \in Nat
  BY LenProperties
<1>3. ASSUME NEW i \in 1 .. Len(u)
      PROVE  u[i] = (s \o t)[i]
  <2>1. CASE i <= Len(s)
    BY <1>1, <1>2, <2>1
  <2>2. CASE i > Len(s)
    <3>1. i - Len(s) \in 1 .. Len(t) /\ Len(s) + (i - Len(s)) = i /\ ~ (i <= Len(s))
      BY <1>2, <2>2
    <3>2. u[i] = t[i - Len(s)]
      BY <3>1
    <3> QED BY <1>1, <3>1, <3>2
  <2> QED BY <1>2, <2>1, <2>2
<1> QED BY <1>1, <1>3, SeqEqual

LEMMA PublishPuts ==
  ASSUME IInv, IInv', Written, NEW p \in Producers, PublishSlots(p)
  PROVE  Written' /\ \E burst \in Fifo!Bursts : Fifo!Put(burst)
<1>1. Types /\ Ordered /\ pc[p] = "publish" /\ p \in Threads /\ p \in Inside(Producers, pc)
  BY DEF IInv, PublishSlots, Return, Goto, Threads, Inside
<1> PICK n : n = call[p].n
  OBVIOUS
<1> PICK filled : filled = FilledNow
  OBVIOUS
<1>2. call[p].head = prod.tail
  BY <1>1, InTurn DEF PublishSlots, Lone, Side
<1>3. n \in 1 .. Slots /\ n \in Nat /\ n >= 1 /\ Done(p) = n
  BY <1>1, GroupsShaped, DoneIs, Sizes
<1>4. /\ prod'.tail = Add(prod.tail, n) /\ UNCHANGED <<cons, ring>> /\ pc'[p] = "idle"
      /\ \A u \in Threads \ {p} : pc'[u] = pc[u] /\ call'[u] = call[u]
  BY <1>1, <1>2 DEF PublishSlots, Return, Goto, Types
<1>5. filled \in Nat /\ filled + n <= Mask /\ FilledNow' = filled + n
  <2>1. n <= Sub(prod.head, prod.tail)
    <3>1. Sub(call[p].head, prod.tail) + call[p].n <= Sub(prod.head, prod.tail)
      BY <1>1 DEF IInv, Tiled
    <3>2. Sub(prod.tail, prod.tail) = 0
      BY <1>1, IndicesAre, Differences
    <3> QED BY <1>1, <1>2, <1>3, <3>1, <3>2, IndicesAre
  <2>2. filled \in Nat /\ filled + n <= Mask
    BY <1>1, <1>3, <2>1, IndicesAre DEF Ordered
  <2>3. FilledNow' = Sub(Add(prod.tail, n), cons.head)
    BY <1>4 DEF FilledNow
  <2>4. filled = Sub(prod.tail, cons.head) /\ filled + n < Modulus /\ n \in 0 .. Slots
    BY <1>1, <1>3, <2>2, IndicesAre, Sizes DEF FilledNow
  <2>5. Sub(Add(prod.tail, n), cons.head) = filled + n
    BY <1>1, <2>4, IndicesAre, Ahead
  <2> QED BY <2>2, <2>3, <2>5
<1>6. Written'
  <2> SUFFICES ASSUME NEW q \in Inside(Producers, pc'), NEW i \in 1 .. Done(q)'
               PROVE  ring'[Slot(call'[q].head + i - 1)] = call'[q].table[i]
    BY DEF Written
  <2>1. q \in Inside(Producers, pc) /\ call'[q] = call[q]
    BY <1>4 DEF Inside, Threads
  <2>2. Done(q)' = Done(q)
    BY <2>1 DEF Done
  <2>3. ring' = ring
    BY <1>4
  <2> QED BY <2>1, <2>2, <2>3 DEF Written
<1>7. Taken' = Taken
  <2> SUFFICES ASSUME NEW c \in Consumers
               PROVE  BurstOf(c)' = BurstOf(c)
    BY DEF Taken
  <2>1. pc'[c] = pc[c] /\ call'[c] = call[c]
    BY <1>4 DEF Threads
  <2>2. Done(c)' = Done(c)
    BY <2>1 DEF Done
  <2>3. ring' = ring
    BY <1>4
  <2> QED BY <2>1, <2>2, <2>3 DEF BurstOf
<1> DEFINE burst == [i \in 1 .. n |-> call[p].table[i]]
<1>8. burst \in [1 .. n -> Values] /\ n \in 1 .. Mask
  <2>1. call[p].table \in Seq(Values) /\ CallAt("publish", call[p])
    BY <1>1 DEF Types
  <2>2. n \in 1 .. Len(call[p].table)
    BY <2>1 DEF CallAt
  <2>3. \A i \in 1 .. n : i \in 1 .. Len(call[p].table)
    BY <2>1, <2>2
  <2>4. n <= Mask /\ Mask \in Nat
    BY <1>3, <1>5, Sizes
  <2> QED BY <1>3, <2>1, <2>3, <2>4
<1>9. \A i \in 1 .. n : burst[i] = call[p].table[i]
  OBVIOUS
<1> HIDE DEF burst
<1>10. burst \in Seq(Entry) /\ Len(burst) = n
  BY <1>3, <1>8 DEF Entry
<1>11. /\ Queue \in Seq(Entry) /\ Len(Queue) = filled
       /\ \A i \in 1 .. filled : Queue[i] = ring[Slot(cons.head + i - 1)]
  BY <1>1, QueueIs
<1>12. /\ Queue' \in Seq(Entry) /\ Len(Queue') = filled + n
       /\ \A i \in 1 .. filled + n : Queue'[i] = ring[Slot(cons.head + i - 1)]
  <2>1. Sub(prod'.tail, cons'.head) = filled + n /\ cons' = cons /\ ring' = ring
    BY <1>4, <1>5 DEF FilledNow
  <2>2. Queue' = [i \in 1 .. filled + n |-> ring[Slot(cons.head + i - 1)]]
    BY <2>1 DEF Queue
  <2>3. ring \in [0 .. Mask -> Entry] /\ cons.head \in Index /\ filled + n \in Nat
    BY <1>1, <1>3, <1>5 DEF Types, Entry
  <2>4. Queue' \in [1 .. filled + n -> Entry]
    BY <2>2, <2>3, EntriesAre
  <2>5. Queue' \in Seq(Entry) /\ Len(Queue') = filled + n
    BY <2>3, <2>4
  <2>6. \A i \in 1 .. filled + n : Queue'[i] = ring[Slot(cons.head + i - 1)]
    BY <2>2
  <2> QED BY <2>5, <2>6
<1>13. Queue' = Queue \o burst
  <2>1. ASSUME NEW i \in 1 .. filled
        PROVE  Queue'[i] = Queue[i]
    <3>1. i \in 1 .. filled + n
      BY <1>3, <1>5
    <3> QED BY <1>11, <1>12, <3>1
  <2>2. ASSUME NEW j \in 1 .. n
        PROVE  Queue'[filled + j] = burst[j]
    <3>1. j - 1 \in Nat /\ filled + j \in 1 .. filled + n
      BY <1>3, <1>5
    <3>2. Slot(prod.tail + (j - 1)) = Slot(cons.head + (filled + (j - 1)))
      BY <1>1, <3>1, IndicesAre, SlotFrom DEF FilledNow
    <3>3. cons.head + (filled + (j - 1)) = cons.head + (filled + j) - 1
          /\ prod.tail + (j - 1) = prod.tail + j - 1
      <4>1. cons.head \in Nat /\ prod.tail \in Nat
        BY <1>1, IndicesAre, Sizes DEF Index
      <4> QED BY <1>3, <1>5, <3>1, <4>1
    <3>4. ring[Slot(prod.tail + j - 1)] = call[p].table[j]
      BY <1>1, <1>2, <1>3 DEF Written
    <3> QED BY <1>9, <1>12, <3>1, <3>2, <3>3, <3>4
  <2> PICK after : after = Queue'
    OBVIOUS
  <2> PICK before : before = Queue
    OBVIOUS
  <2> PICK row : row = burst
    OBVIOUS
  <2>3. /\ after \in Seq(Entry) /\ before \in Seq(Entry) /\ row \in Seq(Entry)
        /\ Len(before) = filled /\ Len(row) = n /\ Len(after) = filled + n
    BY <1>10, <1>11, <1>12
  <2>4. Len(after) = Len(before) + Len(row)
    BY <2>3
  <2>5. \A i \in 1 .. Len(before) : after[i] = before[i]
    BY <2>1, <2>3
  <2>6. \A j \in 1 .. Len(row) : after[Len(before) + j] = row[j]
    BY <2>2, <2>3
  <2>7. after = before \o row
    <3>1. after \in Seq(Entry) /\ before \in Seq(Entry) /\ row \in Seq(Entry)
      BY <2>3
    <3>2. /\ Len(after) = Len(before) + Len(row) /\ \A i \in 1 .. Len(before) : after[i] = before[i]
          /\ \A i \in 1 .. Len(row) : after[Len(before) + i] = row[i]
          => after = before \o row
      BY <3>1, Concatenated
    <3> QED BY <2>4, <2>5, <2>6, <3>2, Zenon
  <2> QED BY <2>7
<1>14. burst \in Fifo!Bursts
  BY <1>8 DEF Fifo!Bursts
<1>15. Fifo!Put(burst)
  <2>1. Len(Queue) + Len(burst) <= Mask
    BY <1>5, <1>10, <1>11
  <2>2. ASSUME NEW c \in Consumers
        PROVE  Len(Queue) + Len(Taken[c]) + Len(burst) <= Mask
    <3>1. Taken[c] = BurstOf(c)
      BY DEF Taken
    <3>2. CASE c \in Inside(Consumers, pc)
      <4> PICK k : k = call[c].n
        OBVIOUS
      <4>1. k \in Nat /\ k <= Sub(cons.head, cons.tail)
        <5>1. c \in Threads /\ Sub(cons.head, cons.tail) \in Nat
          BY <1>1, IndicesAre DEF Threads
        <5>2. call[c].n \in Nat /\ From(c) \in Nat /\ From(c) + call[c].n <= Sub(cons.head, cons.tail)
          BY <3>2, <5>1, ReservedFrom
        <5> QED BY <5>1, <5>2
      <4>2. Len(BurstOf(c)) = k
        BY <3>2, <4>1 DEF BurstOf, Inside
      <4>3. Sub(prod.tail, cons.tail) + n <= Mask
        <5>1. From(p) + n <= Sub(prod.head, cons.tail) /\ From(p) = Sub(prod.tail, cons.tail)
          BY <1>1, <1>2, ReservedFrom DEF From
        <5>2. Sub(prod.head, cons.tail) <= Mask
          BY <1>1 DEF Ordered
        <5>3. Sub(prod.head, cons.tail) \in Nat /\ Sub(prod.tail, cons.tail) \in Nat /\ Mask \in Nat
          BY <1>1, IndicesAre
        <5> QED BY <1>3, <5>1, <5>2, <5>3
      <4>4. /\ filled = Sub(prod.tail, cons.tail) - Sub(cons.head, cons.tail)
            /\ Sub(cons.head, cons.tail) \in Nat /\ Sub(prod.tail, cons.tail) \in Nat /\ Mask \in Nat
        BY <1>1, IndicesAre
      <4>5. filled + k + n <= Mask
        BY <1>3, <4>1, <4>3, <4>4
      <4>6. Len(Queue) = filled /\ Len(burst) = n /\ Len(Taken[c]) = k
        BY <1>10, <1>11, <3>1, <4>2
      <4> QED BY <4>5, <4>6
    <3>3. CASE c \notin Inside(Consumers, pc)
      <4>1. Len(BurstOf(c)) = 0
        BY <3>3 DEF BurstOf, Inside
      <4> QED BY <1>5, <1>10, <1>11, <2>1, <3>1, <4>1
    <3> QED BY <3>2, <3>3
  <2> QED BY <1>7, <1>13, <2>1, <2>2 DEF Fifo!Put, Fifo!HasRoom, Queue, Taken, BurstOf
<1> QED BY <1>6, <1>14, <1>15

\* The beginning of a sequence, and what follows it.
LEMMA Beginning ==
  ASSUME NEW S, NEW s \in Seq(S), NEW n \in 0 .. Len(s), NEW t \in Seq(S),
         Len(t) = n, \A i \in 1 .. n : t[i] = s[i]
  PROVE  t = SubSeq(s, 1, n)
OBVIOUS

LEMMA Remainder ==
  ASSUME NEW S, NEW s \in Seq(S), NEW k \in Nat, NEW n \in 0 .. k, NEW t \in Seq(S),
         Len(s) = k, Len(t) = k - n, \A i \in 1 .. k - n : t[i] = s[n + i]
  PROVE  t = SubSeq(s, n + 1, k)
BY SMTT(30)

LEMMA SlotOnwards ==
  ASSUME NEW a \in Index, NEW k \in 0 .. Slots, NEW i \in Nat
  PROVE  Slot(Add(a, k) + i) = Slot(a + k + i)
<1>1. a \in Nat /\ k \in Nat /\ Modulus \in Nat
  BY Sizes DEF Index
<1> PICK next : next = Add(a, k)
  OBVIOUS
<1>2. next \in Nat /\ (next = a + k \/ next + Modulus = a + k)
  <2>1. /\ next \in Index
        /\ a + k < Modulus => next = a + k
        /\ a + k >= Modulus => next = a + k - Modulus
    BY Wrap
  <2>2. next \in Nat
    BY <2>1, Sizes DEF Index
  <2> QED BY <1>1, <2>1, <2>2
<1>3. a + k + i = next + i \/ a + k + i = (next + i) + Modulus
  BY <1>1, <1>2
<1>4. Slot((next + i) + Modulus) = Slot(next + i)
  BY <1>2, SlotWraps
<1> QED BY <1>3, <1>4

LEMMA ClaimTakes ==
  ASSUME IInv, Written, NEW t \in Consumers, ClaimEntries(t), pc'[t] = "copy"
  PROVE  Written' /\ \E n \in 1 .. Mask : Fifo!Take(t, n)
<1>1. Types /\ Ordered /\ pc[t] = "claim" /\ t \in Threads /\ t \notin Producers
  BY DEF IInv, ClaimEntries, Goto, Threads
<1> PICK n : n = call[t].n
  OBVIOUS
<1> PICK filled : filled = FilledNow
  OBVIOUS
<1>2. /\ UNCHANGED <<prod, ring, call>>
      /\ MultiConsumer => cons.head = call[t].head
      /\ cons' = [cons EXCEPT !.head = Add(call[t].head, call[t].n)]
      /\ \A u \in Threads \ {t} : pc'[u] = pc[u]
  BY <1>1 DEF ClaimEntries, Goto, Types
<1>3. call[t].head = cons.head
  BY <1>1, <1>2 DEF IInv, Near, NearAt, Lone, Side
<1>4. n \in 1 .. Slots /\ n \in Nat /\ n >= 1 /\ n \in 0 .. Slots
  BY <1>1, GroupsShaped, Sizes
<1>5. filled \in Nat /\ n <= filled /\ filled <= Mask /\ Mask \in Nat
  <2>1. n <= FilledNow
    BY <1>1, <1>3 DEF IInv, Fits, FitsAt, Side, Room
  <2> QED BY <1>1, <2>1, IndicesAre
<1>6. cons'.head = Add(cons.head, n) /\ ring' = ring /\ prod' = prod /\ call' = call
  BY <1>1, <1>2, <1>3 DEF Types
<1>7. Sub(prod'.tail, cons'.head) = filled - n
  <2>1. n <= Sub(prod.tail, cons.head)
    BY <1>5 DEF FilledNow
  <2>2. Sub(prod.tail, Add(cons.head, n)) = Sub(prod.tail, cons.head) - n
    BY <1>1, <1>4, <2>1, IndicesAre, Behind
  <2> QED BY <1>6, <2>2 DEF FilledNow
<1>8. Written'
  <2>1. Inside(Producers, pc') = Inside(Producers, pc)
    BY <1>1, <1>2 DEF Inside, Threads
  <2>2. \A q : Done(q)' = Done(q)
    BY <1>6 DEF Done
  <2> QED BY <1>6, <2>1, <2>2 DEF Written
<1> PICK q : q = Queue
  OBVIOUS
<1> PICK rest : rest = Queue'
  OBVIOUS
<1> PICK taking : taking = BurstOf(t)'
  OBVIOUS
<1>9. /\ q \in Seq(Entry) /\ Len(q) = filled
      /\ \A i \in 1 .. filled : q[i] = ring[Slot(cons.head + i - 1)]
  BY <1>1, QueueIs
<1>10. ring \in [0 .. Mask -> Entry] /\ cons.head \in Index /\ cons.head \in Nat
       /\ Add(cons.head, n) \in Index
  <2>1. ring \in [0 .. Mask -> Entry] /\ cons.head \in Index
    BY <1>1, IndicesAre DEF Types, Entry
  <2>2. Add(cons.head, n) \in Index
    BY <1>4, <2>1, Wrap
  <2>3. cons.head \in Nat
    BY <2>1, Sizes DEF Index
  <2> QED BY <2>1, <2>2, <2>3
<1>11. /\ rest \in Seq(Entry) /\ Len(rest) = filled - n
       /\ \A i \in 1 .. filled - n : rest[i] = q[n + i]
  <2>1. rest = [i \in 1 .. filled - n |-> ring[Slot(Add(cons.head, n) + i - 1)]]
    BY <1>6, <1>7 DEF Queue
  <2>2. filled - n \in Nat
    BY <1>4, <1>5
  <2>3. rest \in [1 .. filled - n -> Entry]
    <3>1. \A i \in 1 .. filled - n : ring[Slot(Add(cons.head, n) + i - 1)] \in Entry
      BY <1>10, <2>2, EntriesAre
    <3> QED BY <2>1, <3>1
  <2>4. rest \in Seq(Entry) /\ Len(rest) = filled - n
    BY <2>2, <2>3
  <2>5. ASSUME NEW i \in 1 .. filled - n
        PROVE  rest[i] = q[n + i]
    <3>1. i - 1 \in Nat /\ n + i \in 1 .. filled
      BY <1>4, <1>5
    <3>2. Slot(Add(cons.head, n) + (i - 1)) = Slot(cons.head + n + (i - 1))
      BY <1>4, <1>10, <3>1, SlotOnwards
    <3>3. Add(cons.head, n) + (i - 1) = Add(cons.head, n) + i - 1
          /\ cons.head + n + (i - 1) = cons.head + (n + i) - 1
      <4>1. Add(cons.head, n) \in Nat
        BY <1>10, Sizes DEF Index
      <4> QED BY <1>4, <1>10, <3>1, <4>1
    <3> QED BY <1>9, <2>1, <3>1, <3>2, <3>3
  <2> QED BY <2>4, <2>5
<1>12. /\ taking \in Seq(Entry) /\ Len(taking) = n
       /\ \A i \in 1 .. n : taking[i] = q[i]
  <2>1. Done(t)' = 0
    BY <1>1, <1>6, DoneIs DEF Done
  <2>2. taking = [i \in 1 .. n |-> IF i <= 0 THEN call[t].copied[i] ELSE ring[Slot(cons.head + i - 1)]]
    BY <1>3, <1>6, <2>1 DEF BurstOf
  <2>3. \A i \in 1 .. n : ~ (i <= 0) /\ i \in 1 .. filled
    BY <1>4, <1>5
  <2>4. taking = [i \in 1 .. n |-> ring[Slot(cons.head + i - 1)]]
    BY <2>2, <2>3
  <2>5. taking \in [1 .. n -> Entry]
    <3>1. \A i \in 1 .. n : ring[Slot(cons.head + i - 1)] \in Entry
      BY <1>4, <1>10, EntriesAre
    <3> QED BY <2>4, <3>1
  <2>6. taking \in Seq(Entry) /\ Len(taking) = n
    BY <1>4, <2>5
  <2>7. ASSUME NEW i \in 1 .. n
        PROVE  taking[i] = q[i]
    <3>1. taking[i] = ring[Slot(cons.head + i - 1)]
      BY <2>4
    <3> QED BY <1>9, <2>3, <3>1
  <2> QED BY <2>6, <2>7
<1>13. rest = SubSeq(q, n + 1, Len(q))
  <2>1. PICK gone \in 0 .. filled : gone = n
    BY <1>4, <1>5
  <2>2. Len(rest) = filled - gone /\ \A i \in 1 .. filled - gone : rest[i] = q[gone + i]
    BY <1>11, <2>1
  <2>3. filled \in Nat /\ q \in Seq(Entry) /\ rest \in Seq(Entry) /\ Len(q) = filled
    BY <1>5, <1>9, <1>11
  <2>4. rest = SubSeq(q, gone + 1, filled)
    BY <2>2, <2>3, Remainder
  <2> QED BY <1>9, <2>1, <2>4
<1>14. taking = SubSeq(q, 1, n)
  <2>1. n \in 0 .. Len(q) /\ Len(taking) = n /\ \A i \in 1 .. n : taking[i] = q[i]
    BY <1>4, <1>5, <1>9, <1>12
  <2>2. q \in Seq(Entry) /\ taking \in Seq(Entry)
    BY <1>9, <1>12
  <2> QED BY <2>1, <2>2, Beginning, SMTT(60)
<1>15. ASSUME NEW c \in Consumers, c # t
       PROVE  BurstOf(c)' = BurstOf(c)
  <2>1. pc'[c] = pc[c] /\ call'[c] = call[c]
    BY <1>2, <1>6, <1>15 DEF Threads
  <2>2. Done(c)' = Done(c)
    BY <2>1 DEF Done
  <2> QED BY <1>6, <2>1, <2>2 DEF BurstOf
<1>16. Taken' = [Taken EXCEPT ![t] = SubSeq(q, 1, n)]
  <2>1. Taken' = [c \in Consumers |-> IF c = t THEN taking ELSE BurstOf(c)]
    BY <1>15 DEF Taken
  <2> QED BY <1>14, <2>1 DEF Taken
<1>17. Taken[t] = << >>
  BY <1>1 DEF Taken, BurstOf
<1>18. n \in 1 .. Mask /\ n <= Len(Queue) /\ Queue' = SubSeq(Queue, n + 1, Len(Queue))
       /\ Taken' = [Taken EXCEPT ![t] = SubSeq(Queue, 1, n)]
  BY <1>4, <1>5, <1>9, <1>13, <1>16
<1>19. Fifo!Take(t, n)
  BY <1>17, <1>18 DEF Fifo!Take, Queue, Taken, BurstOf
<1> QED BY <1>8, <1>18, <1>19

LEMMA FreeFinishes ==
  ASSUME IInv, Written, NEW t \in Consumers, FreeSlots(t)
  PROVE  Written' /\ Fifo!Finish(t)
<1>1. Types /\ Ordered /\ t \in Threads /\ t \notin Producers
  BY DEF IInv, Threads
<1>2. /\ prod' = prod /\ ring' = ring /\ cons'.head = cons.head /\ pc'[t] = "idle"
      /\ \A u \in Threads \ {t} : pc'[u] = pc[u] /\ call'[u] = call[u]
  BY <1>1 DEF FreeSlots, Return, Goto, Types
<1>3. Written'
  <2>1. Inside(Producers, pc') = Inside(Producers, pc)
    BY <1>1, <1>2 DEF Inside, Threads
  <2>2. \A p \in Inside(Producers, pc) : call'[p] = call[p]
    BY <1>1, <1>2 DEF Inside, Threads
  <2>3. \A p \in Inside(Producers, pc) : Done(p)' = Done(p)
    BY <2>2 DEF Done
  <2> QED BY <1>2, <2>1, <2>2, <2>3 DEF Written
<1>4. Queue' = Queue
  BY <1>2 DEF Queue
<1>5. ASSUME NEW c \in Consumers
      PROVE  BurstOf(c)' = IF c = t THEN << >> ELSE BurstOf(c)
  <2>1. CASE c = t
    BY <1>2, <2>1 DEF BurstOf
  <2>2. CASE c # t
    <3>1. pc'[c] = pc[c] /\ call'[c] = call[c]
      BY <1>2, <2>2 DEF Threads
    <3>2. Done(c)' = Done(c)
      BY <3>1 DEF Done
    <3> QED BY <1>2, <2>2, <3>1, <3>2 DEF BurstOf
  <2> QED BY <2>1, <2>2
<1>6. Taken' = [Taken EXCEPT ![t] = << >>]
  BY <1>5 DEF Taken
<1> QED BY <1>3, <1>4, <1>6 DEF Fifo!Finish, Queue, Taken, BurstOf

(***************************************************************************)
(* The ring is a queue: whatever the threads and however they interleave,  *)
(* every publication puts a burst whole at the queue's end, every claim of *)
(* a consumer takes a burst from its front, and nothing else changes the   *)
(* queue or what a consumer has taken.                                     *)
(***************************************************************************)
THEOREM RingIsFifo == Spec => IsFifo
<1>1. Init => Written /\ Fifo!Init
  <2> SUFFICES ASSUME Init
               PROVE  Written /\ Fifo!Init
    OBVIOUS
  <2>1. \A t \in Threads : pc[t] = "idle"
    BY DEF Init
  <2>2. Written
    BY <2>1 DEF Written, Inside, Threads
  <2>3. Queue = << >>
    <3>1. Sub(0, 0) = 0
      BY Differences, Sizes
    <3>2. Sub(prod.tail, cons.head) = 0
      BY <3>1 DEF Init
    <3> QED BY <3>2 DEF Queue
  <2>4. Taken = [c \in Consumers |-> << >>]
    BY <2>1 DEF Taken, BurstOf, Threads
  <2> QED BY <2>2, <2>3, <2>4 DEF Fifo!Init, Queue, Taken, BurstOf
<1>2. IInv /\ IInv' /\ Written /\ [Next]_vars =>
        Written' /\ (Fifo!Next \/ (Queue' = Queue /\ Taken' = Taken))
  <2> SUFFICES ASSUME IInv, IInv', Written, [Next]_vars
               PROVE  Written' /\ (Fifo!Next \/ (Queue' = Queue /\ Taken' = Taken))
    OBVIOUS
  <2>1. ASSUME NEW p \in Producers, EnqueueCall(p) \/ EnqueueStep(p)
        PROVE  Written' /\ (Fifo!Next \/ (Queue' = Queue /\ Taken' = Taken))
    <3>1. p \in Threads
      BY DEF Threads
    <3>2. CASE EnqueueCall(p)
      BY <3>1, <3>2, QuietSteps DEF EnqueueCall
    <3>3. CASE ReadHead(p, prod.head) \/ Decide(p, FreeEntries(p))
      BY <3>1, <3>3, QuietSteps
    <3>4. CASE ClaimSlots(p)
      <4>1. \/ Goto(p, "claim", "head") /\ UNCHANGED <<prod, cons, ring, call>>
            \/ Goto(p, "claim", "copy")
        BY <3>4 DEF ClaimSlots
      <4>2. Goto(p, "claim", "copy") => pc'[p] = "copy"
        BY <3>1 DEF Goto, IInv, Types
      <4> QED BY <3>1, <3>4, <4>1, <4>2, QuietSteps
    <3>5. CASE WriteEntry(p)
      BY <3>5, WriteKeeps
    <3>6. CASE PublishSlots(p)
      BY <3>6, PublishPuts DEF Fifo!Next
    <3> QED BY <2>1, <3>2, <3>3, <3>4, <3>5, <3>6 DEF EnqueueStep
  <2>2. ASSUME NEW c \in Consumers, DequeueCall(c) \/ DequeueStep(c)
        PROVE  Written' /\ (Fifo!Next \/ (Queue' = Queue /\ Taken' = Taken))
    <3>1. c \in Threads
      BY DEF Threads
    <3>2. CASE DequeueCall(c)
      BY <3>1, <3>2, QuietSteps DEF DequeueCall
    <3>3. CASE ReadHead(c, cons.head) \/ Decide(c, FilledEntries(c))
      BY <3>1, <3>3, QuietSteps
    <3>4. CASE ClaimEntries(c)
      <4>1. \/ Goto(c, "claim", "head") /\ UNCHANGED <<prod, cons, ring, call>>
            \/ Goto(c, "claim", "copy")
        BY <3>4 DEF ClaimEntries
      <4>2. Goto(c, "claim", "copy") => pc'[c] = "copy"
        BY <3>1 DEF Goto, IInv, Types
      <4>3. CASE pc'[c] = "copy"
        BY <3>4, <4>3, ClaimTakes DEF Fifo!Next
      <4> QED BY <3>1, <4>1, <4>2, <4>3, QuietSteps
    <3>5. CASE CopyEntry(c)
      BY <3>5, ReadKeeps
    <3>6. CASE FreeSlots(c)
      BY <3>6, FreeFinishes DEF Fifo!Next
    <3> QED BY <2>2, <3>2, <3>3, <3>4, <3>5, <3>6 DEF DequeueStep
  <2>3. ASSUME NEW t \in Observers, Observe(t)
        PROVE  Written' /\ Queue' = Queue /\ Taken' = Taken
    <3>1. t \in Threads
      BY DEF Threads
    <3> QED BY <2>3, <3>1, QuietSteps
  <2>4. CASE UNCHANGED vars
    BY <2>4 DEF vars, Written, Inside, Queue, Taken, BurstOf, Done
  <2> QED BY <2>1, <2>2, <2>3, <2>4 DEF Next
<1>3. IInv /\ [Next]_vars => IInv'
  BY Inductive
<1>4. Init => IInv
  BY Initially
<1>5. Spec => [](IInv /\ Written)
  BY <1>1, <1>2, <1>3, <1>4, PTL DEF Spec
<1> DEFINE queue == [i \in 1 .. Sub(prod.tail, cons.head) |-> ring[Slot(cons.head + i - 1)]]
           taken == [c \in Consumers |->
                       IF pc[c] \in {"copy", "publish"}
                       THEN [i \in 1 .. call[c].n |-> IF i <= Done(c) THEN call[c].copied[i]
                                                       ELSE ring[Slot(call[c].head + i - 1)]]
                       ELSE << >>]
<1>6. IInv /\ IInv' /\ Written /\ [Next]_vars => [Fifo!Next]_<<queue, taken>>
  <2>1. Queue = queue /\ Taken = taken /\ Queue' = queue' /\ Taken' = taken'
    BY DEF Queue, Taken, BurstOf
  <2> QED BY <1>2, <2>1
<1> QED BY <1>1, <1>5, <1>6, PTL DEF Spec, IsFifo, Fifo!Spec
===============================================================================
