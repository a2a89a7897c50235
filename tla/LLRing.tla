------------------------------- MODULE LLRing -------------------------------
(***************************************************************************)
(* The lock-free ring of src/llring.h, one memory access at a time.        *)
(*                                                                         *)
(* A producer reserves slots by moving prod.head, writes them, and then    *)
(* publishes them by moving prod.tail; a consumer reserves entries by      *)
(* moving cons.head, copies them, and frees their slots by moving          *)
(* cons.tail.  With MultiProducer (MultiConsumer) the head moves by        *)
(* compare-and-set and the tails move in the order of the heads; without,  *)
(* both are plain stores.                                                  *)
(***************************************************************************)
EXTENDS Naturals, Sequences, FiniteSets

CONSTANTS
  Producers, Consumers,  \* threads
  Values,                \* what is enqueued
  NoValue,               \* the zero llring_init leaves in the slots
  Slots,                 \* r->common.slots, a power of two
  Modulus,               \* the indices' range: 2^32, here a small multiple of Slots
  MaxBurst,              \* bound on the n of one call
  Behaviors,             \* the llring_queue_behaviors in use: "FIXED", "VARIABLE"
  MultiProducer,         \* the mp or the sp enqueue
  MultiConsumer,         \* the mc or the sc dequeue
  Observers              \* the threads that ask how much the ring holds

ASSUME LLRingAssumption ==
  /\ Slots \in Nat \ {0, 1}
  /\ Behaviors \subseteq {"FIXED", "VARIABLE"}
  /\ Modulus \in Nat /\ Modulus > Slots /\ Modulus % Slots = 0
  /\ MaxBurst \in 1 .. Slots
  /\ MultiProducer \in BOOLEAN /\ MultiConsumer \in BOOLEAN
  \* "NOT multi-producers safe", "NOT multi-consumers safe" (llring.h:518, 687)
  /\ \A p, q \in Producers : MultiProducer \/ p = q
  /\ \A c, d \in Consumers : MultiConsumer \/ c = d
  /\ Producers \cap Consumers = {}
  /\ Observers \subseteq Producers \cup Consumers
  /\ NoValue \notin Values

VARIABLES
  prod,  \* prod.head and prod.tail
  cons,  \* cons.head and cons.tail
  ring,  \* the slots
  pc,    \* where each thread is
  call,  \* its call's arguments and local variables
  told   \* history: what the ring told each thread, until its next call has decided

vars == <<prod, cons, ring, pc, call, told>>

Threads == Producers \cup Consumers
Mask    == Slots - 1
Index   == 0 .. Modulus - 1
Bursts  == UNION {[1 .. k -> Values] : k \in 1 .. MaxBurst}

\* Unsigned subtraction and addition of indices.
Sub(a, b) == (a + Modulus - b) % Modulus
Add(a, b) == (a + b) % Modulus
Slot(i)   == i % Slots

\* A call: obj_table (of a consumer only the length counts), the behavior,
\* the local prod_head or cons_head, n, and what has been copied so far.
NoCall == [table |-> << >>, behavior |-> "VARIABLE", head |-> 0, n |-> 0, copied |-> << >>]

\* llring_init
Init ==
  /\ prod = [head |-> 0, tail |-> 0]
  /\ cons = [head |-> 0, tail |-> 0]
  /\ ring = [s \in 0 .. Mask |-> NoValue]
  /\ pc = [t \in Threads |-> "idle"]
  /\ call = [t \in Threads |-> NoCall]
  /\ told = [t \in Threads |-> 0]

Goto(t, from, to) == pc[t] = from /\ pc' = [pc EXCEPT ![t] = to]

Return(t, from) ==
  /\ Goto(t, from, "idle")
  /\ call' = [call EXCEPT ![t] = NoCall]

(***************************************************************************)
(* The beginning of each of the four functions.                            *)
(***************************************************************************)
Start(t, table, behavior) ==
  /\ Goto(t, "idle", "head")
  /\ call' = [call EXCEPT ![t].table = table, ![t].behavior = behavior]
  /\ UNCHANGED <<prod, cons, ring>>

ReadHead(t, h) ==
  /\ Goto(t, "head", "tail")
  /\ call' = [call EXCEPT ![t].head = h]
  /\ UNCHANGED <<prod, cons, ring>>

\* Mutant: exactly enough is not enough.
DecideStrictly(t, available) ==
  /\ \/ /\ Len(call[t].table) < available
        /\ Goto(t, "tail", "claim")
        /\ call' = [call EXCEPT ![t].n = Len(call[t].table)]
     \/ Len(call[t].table) >= available /\ Return(t, "tail")
  /\ UNCHANGED <<prod, cons, ring>>

\* With "available" entries the call goes on with what it asked for, or with
\* less if it may, or returns.
Decide(t, available) ==
  LET max == Len(call[t].table)
      GoOn(k) == Goto(t, "tail", "claim") /\ call' = [call EXCEPT ![t].n = k]
  IN
  /\ \/ max <= available /\ GoOn(max)
     \/ max > available /\ call[t].behavior = "VARIABLE" /\ available > 0 /\ GoOn(available)
     \/ max > available /\ (call[t].behavior = "FIXED" \/ available = 0) /\ Return(t, "tail")
  /\ UNCHANGED <<prod, cons, ring>>

\* Mutant: a count out of range taken for a full ring.
FreeOrFull(p) ==
  IF Sub(Mask + cons.tail, call[p].head) > Mask THEN 0 ELSE Sub(Mask + cons.tail, call[p].head)

\* mask + cons_tail - prod_head, and prod_tail - cons_head, in 32 bits
FreeEntries(p)   == Sub(Mask + cons.tail, call[p].head)
FilledEntries(c) == Sub(prod.tail, call[c].head)

(***************************************************************************)
(* A thread that has read an index is not stopped for so long that the     *)
(* index goes round its whole range: with 32 bits that takes 2^32 - Slots  *)
(* entries between two instructions.  Modulus makes this bound explicit.   *)
(***************************************************************************)
NotLapped(others, now, k) ==
  \A q \in others :
    pc[q] \in {"tail", "claim"} => Sub(now, call[q].head) + k <= Modulus - Slots

(***************************************************************************)
(* __llring_mp_do_enqueue and __llring_sp_do_enqueue                       *)
(***************************************************************************)
\* Mutants: the tail moves with the head; the head is stored, not compared.
ClaimAndPublish(p) ==
  /\ Goto(p, "claim", "copy")
  /\ prod' = [head |-> Add(call[p].head, call[p].n), tail |-> Add(call[p].head, call[p].n)]
  /\ UNCHANGED <<cons, ring, call>>

ClaimByStore(p) ==
  /\ Goto(p, "claim", "copy")
  /\ prod' = [prod EXCEPT !.head = Add(call[p].head, call[p].n)]
  /\ UNCHANGED <<cons, ring, call>>

ClaimSlots(p) ==
  LET prod_head == call[p].head IN
  /\ \/ /\ MultiProducer /\ prod.head # prod_head
        /\ Goto(p, "claim", "head")
        /\ UNCHANGED prod
     \/ /\ MultiProducer => prod.head = prod_head
        /\ NotLapped(Producers \ {p}, prod.head, call[p].n)
        /\ Goto(p, "claim", "copy")
        /\ prod' = [prod EXCEPT !.head = Add(prod_head, call[p].n)]
  /\ UNCHANGED <<cons, ring, call>>

\* The copy loops move the next entry and stop after n.
Done(t) == Len(call[t].copied)
Here(t) == Slot(call[t].head + Done(t))
Copy(t, v) ==
  /\ Goto(t, "copy", IF Done(t) + 1 = call[t].n THEN "publish" ELSE "copy")
  /\ call' = [call EXCEPT ![t].copied = Append(@, v)]

WriteEntry(p) ==
  LET v == call[p].table[Done(p) + 1] IN
  /\ Copy(p, v)
  /\ ring' = [ring EXCEPT ![Here(p)] = v]
  /\ UNCHANGED <<prod, cons>>

\* Mutant: no waiting for the producers that reserved before.
PublishAtOnce(p) ==
  /\ Return(p, "publish")
  /\ prod' = [prod EXCEPT !.tail = Add(call[p].head, call[p].n)]
  /\ UNCHANGED <<cons, ring>>

PublishSlots(p) ==
  /\ Return(p, "publish")
  /\ MultiProducer => prod.tail = call[p].head
  /\ prod' = [prod EXCEPT !.tail = Add(call[p].head, call[p].n)]
  /\ UNCHANGED <<cons, ring>>

EnqueueCall(p) ==
  \E table \in Bursts, behavior \in Behaviors : Start(p, table, behavior)

EnqueueStep(p) ==
  \/ ReadHead(p, prod.head)
  \/ Decide(p, FreeEntries(p))
  \/ ClaimSlots(p)
  \/ WriteEntry(p)
  \/ PublishSlots(p)

(***************************************************************************)
(* __llring_mc_do_dequeue and __llring_sc_do_dequeue                       *)
(***************************************************************************)
\* Mutant: the head is stored, not compared.
ClaimEntriesByStore(c) ==
  /\ Goto(c, "claim", "copy")
  /\ cons' = [cons EXCEPT !.head = Add(call[c].head, call[c].n)]
  /\ UNCHANGED <<prod, ring, call>>

ClaimEntries(c) ==
  LET cons_head == call[c].head IN
  /\ \/ /\ MultiConsumer /\ cons.head # cons_head
        /\ Goto(c, "claim", "head")
        /\ UNCHANGED cons
     \/ /\ MultiConsumer => cons.head = cons_head
        /\ NotLapped(Consumers \ {c}, cons.head, call[c].n)
        /\ Goto(c, "claim", "copy")
        /\ cons' = [cons EXCEPT !.head = Add(cons_head, call[c].n)]
  /\ UNCHANGED <<prod, ring, call>>

CopyEntry(c) ==
  /\ Copy(c, ring[Here(c)])
  /\ UNCHANGED <<prod, cons, ring>>

\* Mutant: no waiting for the consumers that reserved before.
FreeAtOnce(c) ==
  /\ Return(c, "publish")
  /\ cons' = [cons EXCEPT !.tail = Add(call[c].head, call[c].n)]
  /\ UNCHANGED <<prod, ring>>

FreeSlots(c) ==
  /\ Return(c, "publish")
  /\ MultiConsumer => cons.tail = call[c].head
  /\ cons' = [cons EXCEPT !.tail = Add(call[c].head, call[c].n)]
  /\ UNCHANGED <<prod, ring>>

DequeueCall(c) ==
  \E k \in 1 .. MaxBurst, behavior \in Behaviors :
    Start(c, [i \in 1 .. k |-> NoValue], behavior)

DequeueStep(c) ==
  \/ ReadHead(c, cons.head)
  \/ Decide(c, FilledEntries(c))
  \/ ClaimEntries(c)
  \/ CopyEntry(c)
  \/ FreeSlots(c)

(***************************************************************************)
(* llring_free_count, asked by a producer, and llring_count, by a          *)
(* consumer: two reads, the producer's tail first.  llring_full is a free  *)
(* count of 0, llring_empty a count of 0.                                  *)
(***************************************************************************)
\* Mutant: the entries reserved but not yet written are counted.
ReadProdHead(t) ==
  /\ Goto(t, "idle", "observe")
  /\ call' = [call EXCEPT ![t].head = prod.head]
  /\ UNCHANGED <<prod, cons, ring, told>>

ReadProdTail(t) ==
  /\ Goto(t, "idle", "observe")
  /\ call' = [call EXCEPT ![t].head = prod.tail]
  /\ UNCHANGED <<prod, cons, ring, told>>

\* The subtraction is masked with the number of slots less one.
llring_free_count(prod_tail) == Sub(Sub(cons.tail, prod_tail), 1) % Slots
llring_count(prod_tail)      == Sub(prod_tail, cons.tail) % Slots

ReadConsTail(t) ==
  /\ Return(t, "observe")
  /\ told' = [told EXCEPT ![t] = IF t \in Producers THEN llring_free_count(call[t].head)
                                 ELSE llring_count(call[t].head)]
  /\ UNCHANGED <<prod, cons, ring>>

Observe(t) == ReadProdTail(t) \/ ReadConsTail(t)

\* History: once a call has looked at the ring itself, what it was told is spent.
Spend(t) == told' = IF pc[t] = "tail" THEN [told EXCEPT ![t] = 0] ELSE told

Next ==
  \/ \E p \in Producers : (EnqueueCall(p) \/ EnqueueStep(p)) /\ Spend(p)
  \/ \E c \in Consumers : (DequeueCall(c) \/ DequeueStep(c)) /\ Spend(c)
  \/ \E t \in Observers : Observe(t)

Spec == Init /\ [][Next]_vars

(***************************************************************************)
(* Properties.                                                             *)
(***************************************************************************)
TypeOK ==
  /\ prod \in [head : Index, tail : Index]
  /\ cons \in [head : Index, tail : Index]
  /\ ring \in [0 .. Mask -> Values \cup {NoValue}]
  /\ told \in [Threads -> 0 .. Mask]
  /\ pc \in [Threads -> {"idle", "head", "tail", "claim", "copy", "publish", "observe"}]
  /\ \A t \in Threads :
       call[t].head \in Index /\ call[t].n \in 0 .. MaxBurst /\ Done(t) <= call[t].n

(***************************************************************************)
(* Seen from cons.tail the four indices never overtake each other, and the *)
(* reserved part never exceeds the ring, across the wrap of the indices.   *)
(* (With the types.)                                                       *)
(***************************************************************************)
IndicesOrdered ==
  LET from(i) == Sub(i, cons.tail) IN
  /\ TypeOK
  /\ from(cons.head) <= from(prod.tail)
  /\ from(prod.tail) <= from(prod.head)
  /\ from(prod.head) <= Mask

(***************************************************************************)
(* No slot is written while another thread writes or reads it: the slots   *)
(* reserved by the threads inside their copy loops are disjoint.           *)
(***************************************************************************)
Reserved(t) ==
  IF pc[t] \in {"copy", "publish"} THEN {Slot(call[t].head + i) : i \in 0 .. call[t].n - 1} ELSE {}

NoSlotRace ==
  \A t \in Producers, u \in Threads : t # u => Reserved(t) \cap Reserved(u) = {}

(***************************************************************************)
(* An enqueue or dequeue is refused, or cut short, only if at the moment   *)
(* it looks at the other side's tail the ring lacks the room or entries    *)
(* it asks for: a stale head never makes a call fail that could succeed.   *)
(***************************************************************************)
FreeNow   == Mask - Sub(prod.head, cons.tail)
FilledNow == Sub(prod.tail, cons.head)

RefusedOnlyWhenShort ==
  [][\A t \in Threads :
       LET asked == Len(call[t].table)
           now   == IF t \in Producers THEN FreeNow ELSE FilledNow
           short == pc'[t] = "idle" \/ (pc'[t] = "claim" /\ call'[t].n < asked)
       IN  pc[t] = "tail" /\ short => now < asked]_vars

(***************************************************************************)
(* What a lone consumer or producer was told stays true until it acts on   *)
(* it: as many entries are there for it, or slots free for it, although    *)
(* the two tails are read one after the other while the other side goes    *)
(* on (llring.h:1027).  epoll_wait reports a message on the strength of    *)
(* such a count.  With several consumers it would not hold: a count is     *)
(* then out of date, and wrong in both directions, when it is returned.    *)
(***************************************************************************)
ToldIsThere ==
  /\ \A c \in Consumers : ~MultiConsumer => told[c] <= FilledNow
  /\ \A p \in Producers : ~MultiProducer => told[p] <= FreeNow

(***************************************************************************)
(* The ring is a queue: values come out once, in the order they went in,   *)
(* a burst contiguous with itself, and what a consumer has reserved stays  *)
(* what it was until it has copied it.                                     *)
(***************************************************************************)
Fifo == INSTANCE Fifo WITH
  Capacity <- Mask,
  queue <- [i \in 1 .. Sub(prod.tail, cons.head) |-> ring[Slot(cons.head + i - 1)]],
  taken <- [c \in Consumers |->
              IF pc[c] \in {"copy", "publish"}
              THEN [i \in 1 .. call[c].n |-> IF i <= Done(c) THEN call[c].copied[i]
                                              ELSE ring[Slot(call[c].head + i - 1)]]
              ELSE << >>]

IsFifo == Fifo!Spec

(***************************************************************************)
(* A thread that waits for the tail to reach its own slots waits for       *)
(* another one that has reserved the slots at the tail and is still inside *)
(* its call (llring.h:510, 677): nobody waits for a call that has returned *)
(* or for one that waits for him.                                          *)
(***************************************************************************)
AwaitedIsInside ==
  LET inside(group, tail) ==
        \A t \in group :
          pc[t] = "publish" /\ call[t].head # tail =>
            \E u \in group \ {t} : pc[u] \in {"copy", "publish"} /\ call[u].head = tail
  IN  inside(Producers, prod.tail) /\ inside(Consumers, cons.tail)
=============================================================================
