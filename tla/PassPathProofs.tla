---------------------------- MODULE PassPathProofs ----------------------------
(***************************************************************************)
(* Proofs about VChannel and PassPath, for rings of any size and any set   *)
(* of messages.                                                            *)
(***************************************************************************)
EXTENDS PassPath, SequenceTheorems, TLAPS

(***************************************************************************)
(* The inductive invariant.  An object k places behind the one the sender  *)
(* takes next was claimed by the k-th send before; of these sends each was *)
(* accepted, and its message still waits, or refused, and was seen by all  *)
(* that waited.  With fewer than Slots refusals k is below the size of the *)
(* pool, so the sender does not get round to an object that still waits.   *)
(***************************************************************************)
Contents == Messages \cup {NoMessage}

Types ==
  /\ queue \in Seq(Objects)
  /\ taken \in [{App} -> Seq(Objects)]
  /\ Len(queue) + Len(taken[App]) < Slots
  /\ ring_top \in Objects
  /\ shared_objs \in [Objects -> [first : Contents, second : Contents, valid : BOOLEAN]]
  /\ tx \in [pc : {"idle", "copy", "copy2", "enqueue"}, msg : Contents, obj : Objects,
             seen : {0, Slots}]
  /\ rx \in [pc : {"idle", "dequeue", "check", "copy2", "clear"}, obj : Objects,
             first : Contents, second : Contents]
  /\ accepted \in Seq([msg : Contents, refusals : 0 .. Slots])
  /\ rx.pc # "dequeue" => taken[App] = << >>
  /\ Len(Carriers) = Len(accepted)

Lapsed(i) == accepted[i].refusals = Slots

Ahead(obj, k) == IF obj + k < CountElements THEN obj + k ELSE obj + k - CountElements

\* The object of the send under way, or of the next one.
NextObject == IF tx.pc = "idle" THEN ring_top ELSE tx.obj

Behind(i) == Len(accepted) - i + accepted[i].refusals + 1

InTurn ==
  /\ tx.pc # "idle" => ring_top = Ahead(tx.obj, 1)
  /\ \A i \in 1 .. Len(accepted) :
       ~ Lapsed(i) => NextObject = Ahead(Carriers[i], Behind(i))

Apart ==
  \A i, j \in 1 .. Len(accepted) : i < j /\ ~ Lapsed(j) => Carriers[i] # Carriers[j]

Intact ==
  \A i \in 1 .. Len(accepted) : ~ Lapsed(i) =>
    /\ shared_objs[Carriers[i]].first  = accepted[i].msg
    /\ shared_objs[Carriers[i]].second = accepted[i].msg
    /\ shared_objs[Carriers[i]].valid

SentSoFar ==
  tx.pc # "idle" /\ tx.seen # Slots =>
    /\ \A i \in 1 .. Len(accepted) : ~ Lapsed(i)
    /\ tx.pc \in {"copy2", "enqueue"} => shared_objs[tx.obj].first = tx.msg
    /\ tx.pc = "enqueue" => shared_objs[tx.obj].second = tx.msg /\ shared_objs[tx.obj].valid

ReceivedSoFar ==
  rx.pc # "idle" /\ ~ Lapsed(1) =>
    /\ rx.pc \in {"copy2", "clear"} => rx.first = accepted[1].msg
    /\ rx.pc = "clear" => rx.second = accepted[1].msg

IInv == Types /\ InTurn /\ Apart /\ Intact /\ SentSoFar /\ ReceivedSoFar

USE SlotsAssumption, NoMessageAssumption

Kept == Types /\ InTurn

\* A function on the numbers up to n is a sequence of that length.
LEMMA FunctionIsSequence ==
  ASSUME NEW S, NEW n \in Nat, NEW f \in [1 .. n -> S]
  PROVE  f \in Seq(S) /\ Len(f) = n
  OBVIOUS

(***************************************************************************)
(* Going round the pool.                                                   *)
(***************************************************************************)
\* ring_top of vc_tx_msg goes one place ahead.
LEMMA OneAhead ==
  ASSUME NEW obj \in Objects
  PROVE  (obj + 1) % CountElements = Ahead(obj, 1) /\ Ahead(obj, 1) \in Objects
  BY DEF Objects, CountElements, Ahead

\* One place ahead of k places ahead is k + 1 places ahead, up to a full round.
LEMMA AheadOfAhead ==
  ASSUME NEW obj \in Objects, NEW k \in 1 .. CountElements - 1
  PROVE  /\ Ahead(obj, k) \in Objects
         /\ Ahead(Ahead(obj, k), 1) = Ahead(obj, k + 1)
         /\ Ahead(obj, k) # obj
  BY DEF Objects, CountElements, Ahead

(***************************************************************************)
(* The objects of the accepted messages.                                   *)
(***************************************************************************)
\* They are objects of the pool, at most Slots, and the receiver's is the first.
LEMMA CarriersAre ==
  ASSUME Types
  PROVE  /\ Carriers \in Seq(Objects)
         /\ Len(accepted) \in 0 .. Slots
         /\ rx.pc # "idle" => Len(accepted) > 0 /\ Carriers[1] = rx.obj
<1>1. queue \in Seq(Objects) /\ Len(queue) \in Nat /\ Len(queue) < Slots
      /\ Len(taken[App]) \in Nat /\ rx.obj \in Objects
  BY DEF Types
<1>2. CASE rx.pc = "idle"
  BY <1>1, <1>2 DEF Types, Carriers
<1>3. CASE rx.pc # "idle"
  <2>1. <<rx.obj>> \in Seq(Objects) /\ Len(<<rx.obj>>) = 1 /\ <<rx.obj>>[1] = rx.obj
    BY <1>1
  <2>2. Carriers = <<rx.obj>> \o queue
    BY <1>3 DEF Carriers
  <2>3. /\ Carriers \in Seq(Objects)
        /\ Len(Carriers) = 1 + Len(queue)
        /\ Carriers[1] = rx.obj
    BY <2>1, <2>2, <1>1, ConcatProperties
  <2> QED BY <1>1, <2>3, SlotsAssumption DEF Types
<1> QED BY <1>2, <1>3

\* The object of a message that has not lapsed is less than a round behind the
\* sender's: it is not the one the sender takes.
LEMMA NotTheSenders ==
  ASSUME Kept, NEW i \in 1 .. Len(accepted), ~ Lapsed(i)
  PROVE  /\ Carriers[i] \in Objects
         /\ Behind(i) \in 1 .. CountElements - 1
         /\ NextObject # Carriers[i]
<1>1. Carriers \in Seq(Objects) /\ Len(accepted) \in 0 .. Slots
      /\ Len(Carriers) = Len(accepted)
  BY CarriersAre DEF Kept, Types
<1>2. Carriers[i] \in Objects
  BY <1>1, ElementOfSeq
<1>3. accepted[i] \in [msg : Contents, refusals : 0 .. Slots]
  BY <1>1, ElementOfSeq DEF Kept, Types
<1>4. accepted[i].refusals \in 0 .. Slots - 1
  BY <1>3 DEF Lapsed
<1>5. Behind(i) \in 1 .. CountElements - 1
  BY <1>1, <1>4 DEF Behind, CountElements
<1>6. NextObject = Ahead(Carriers[i], Behind(i))
  BY DEF Kept, InTurn
<1> QED BY <1>2, <1>5, <1>6, AheadOfAhead

(***************************************************************************)
(* The steps of the sender.                                                *)
(***************************************************************************)
\* While the sender is at its object no message moves.
AtObject == UNCHANGED <<queue, taken, rx, accepted>>

LEMMA NothingMoves ==
  ASSUME AtObject
  PROVE  /\ Carriers' = Carriers /\ Len(accepted)' = Len(accepted)
         /\ \A i \in 1 .. Len(accepted) : Lapsed(i)' <=> Lapsed(i)
         /\ \A i \in 1 .. Len(accepted) : Behind(i)' = Behind(i)
  BY DEF AtObject, Carriers, Lapsed, Behind

\* What was seen at the start of a send: nothing lapsed waits then.
LEMMA SeenAtStart ==
  Seen \in {0, Slots} /\ (Seen = 0 => \A i \in DOMAIN accepted : ~ Lapsed(i))
  BY DEF Seen, Lapsed

LEMMA ClaimKeeps ==
  ASSUME IInv, NEW msg \in Messages, TxClaim(msg)
  PROVE  IInv'
<1>1. AtObject /\ shared_objs' = shared_objs /\ tx.pc = "idle"
      /\ tx' = [pc |-> "copy", msg |-> msg, obj |-> ring_top, seen |-> Seen]
      /\ ring_top' = (ring_top + 1) % CountElements
  BY DEF TxClaim, AtObject
<1>2. ring_top \in Objects /\ ring_top' = Ahead(ring_top, 1) /\ ring_top' \in Objects
  BY <1>1, OneAhead DEF IInv, Types
<1>3. NextObject' = NextObject
  BY <1>1 DEF NextObject
<1>4. accepted \in Seq([msg : Contents, refusals : 0 .. Slots])
      /\ DOMAIN accepted = 1 .. Len(accepted)
  BY LenProperties DEF IInv, Types
<1>5. Types'
  BY <1>1, <1>2, NothingMoves, SeenAtStart DEF IInv, Types, AtObject, Contents
<1>6. InTurn'
  BY <1>1, <1>2, <1>3, NothingMoves DEF IInv, InTurn, Ahead, CountElements
<1>7. Apart' /\ Intact' /\ ReceivedSoFar'
  BY <1>1, <1>4, NothingMoves DEF IInv, Apart, Intact, ReceivedSoFar, AtObject, Lapsed
<1>8. SentSoFar'
  BY <1>1, <1>4, NothingMoves, SeenAtStart DEF SentSoFar
<1> QED BY <1>5, <1>6, <1>7, <1>8 DEF IInv

\* A write to the sender's object disturbs no message that has not lapsed.
LEMMA WriteKeeps ==
  ASSUME IInv, AtObject, ring_top' = ring_top, tx.pc # "idle", tx.obj \in Objects,
         NEW object \in [first : Contents, second : Contents, valid : BOOLEAN],
         shared_objs' = [shared_objs EXCEPT ![tx.obj] = object],
         NEW pc \in {"copy2", "enqueue"},
         tx' = [tx EXCEPT !.pc = pc]
  PROVE  Types' /\ InTurn' /\ Apart' /\ Intact' /\ ReceivedSoFar'
<1>1. NextObject' = NextObject /\ NextObject = tx.obj
  BY DEF NextObject, IInv, Types
<1>2. Types'
  BY NothingMoves DEF IInv, Types, AtObject
<1>3. InTurn'
  BY <1>1, NothingMoves DEF IInv, InTurn, Types
<1>4. Apart' /\ ReceivedSoFar'
  BY NothingMoves DEF IInv, Apart, ReceivedSoFar, AtObject, Lapsed
<1>5. ASSUME NEW i \in 1 .. Len(accepted), ~ Lapsed(i)
      PROVE  shared_objs'[Carriers[i]] = shared_objs[Carriers[i]]
  BY <1>1, <1>5, NotTheSenders DEF IInv, Types, Kept
<1>6. Intact'
  BY <1>5, NothingMoves DEF IInv, Intact, AtObject
<1> QED BY <1>2, <1>3, <1>4, <1>6

LEMMA CopyFirstKeeps ==
  ASSUME IInv, TxCopyFirst
  PROVE  IInv'
<1>1. /\ AtObject /\ ring_top' = ring_top /\ tx.pc = "copy"
      /\ tx' = [tx EXCEPT !.pc = "copy2"]
      /\ tx.obj \in Objects /\ tx.msg \in Contents
  BY DEF TxCopyFirst, AtObject, IInv, Types
<1> DEFINE object == [shared_objs[tx.obj] EXCEPT !.first = tx.msg]
<1>2. /\ object \in [first : Contents, second : Contents, valid : BOOLEAN]
      /\ shared_objs' = [shared_objs EXCEPT ![tx.obj] = object]
      /\ shared_objs'[tx.obj].first = tx.msg
  <2>1. shared_objs' = [shared_objs EXCEPT ![tx.obj] = object]
    BY DEF TxCopyFirst
  <2>2. shared_objs[tx.obj] \in [first : Contents, second : Contents, valid : BOOLEAN]
        /\ DOMAIN shared_objs = Objects
    BY <1>1 DEF IInv, Types
  <2>3. object \in [first : Contents, second : Contents, valid : BOOLEAN]
        /\ object.first = tx.msg
    BY <1>1, <2>2
  <2> QED BY <1>1, <2>1, <2>2, <2>3
<1>3. Types' /\ InTurn' /\ Apart' /\ Intact' /\ ReceivedSoFar'
  <2> HIDE DEF object
  <2> QED BY <1>1, <1>2, WriteKeeps
<1>4. SentSoFar'
  BY <1>1, <1>2, NothingMoves DEF IInv, Types, SentSoFar
<1> QED BY <1>3, <1>4 DEF IInv

LEMMA CopySecondKeeps ==
  ASSUME IInv, TxCopySecond
  PROVE  IInv'
<1>1. /\ AtObject /\ ring_top' = ring_top /\ tx.pc = "copy2"
      /\ tx' = [tx EXCEPT !.pc = "enqueue"]
      /\ tx.obj \in Objects /\ tx.msg \in Contents
  BY DEF TxCopySecond, AtObject, IInv, Types
<1> DEFINE object == [shared_objs[tx.obj] EXCEPT !.second = tx.msg, !.valid = TRUE]
<1>2. /\ object \in [first : Contents, second : Contents, valid : BOOLEAN]
      /\ shared_objs' = [shared_objs EXCEPT ![tx.obj] = object]
      /\ shared_objs'[tx.obj].first = shared_objs[tx.obj].first
      /\ shared_objs'[tx.obj].second = tx.msg
      /\ shared_objs'[tx.obj].valid
  <2>1. shared_objs[tx.obj] \in [first : Contents, second : Contents, valid : BOOLEAN]
        /\ DOMAIN shared_objs = Objects
    BY <1>1 DEF IInv, Types
  <2>2. shared_objs' = [shared_objs EXCEPT ![tx.obj] = object]
    BY <1>1, <2>1 DEF TxCopySecond
  <2>3. /\ object \in [first : Contents, second : Contents, valid : BOOLEAN]
        /\ object.first = shared_objs[tx.obj].first
        /\ object.second = tx.msg /\ object.valid
    BY <1>1, <2>1
  <2> QED BY <1>1, <2>1, <2>2, <2>3
<1>3. Types' /\ InTurn' /\ Apart' /\ Intact' /\ ReceivedSoFar'
  <2> HIDE DEF object
  <2> QED BY <1>1, <1>2, WriteKeeps
<1>4. SentSoFar'
  BY <1>1, <1>2, NothingMoves DEF IInv, Types, SentSoFar
<1> QED BY <1>3, <1>4 DEF IInv

\* The ring takes the object: one more message waits, behind all others.
LEMMA EnqueueMoves ==
  ASSUME Types, TxEnqueue
  PROVE  /\ queue' \in Seq(Objects) /\ Len(queue') = Len(queue) + 1
         /\ Len(Carriers') = Len(accepted) + 1
         /\ \A i \in 1 .. Len(accepted) : Carriers'[i] = Carriers[i]
         /\ Carriers'[Len(accepted) + 1] = tx.obj
         /\ accepted' \in Seq([msg : Contents, refusals : 0 .. Slots])
         /\ Len(accepted') = Len(accepted) + 1
         /\ \A i \in 1 .. Len(accepted) : accepted'[i] = accepted[i]
         /\ accepted'[Len(accepted) + 1] = [msg |-> tx.msg, refusals |-> tx.seen]
<1>1. /\ queue \in Seq(Objects) /\ rx.obj \in Objects
      /\ queue' = queue \o <<tx.obj>> /\ rx' = rx
      /\ Carriers \in Seq(Objects) /\ Len(Carriers) = Len(accepted)
      /\ <<tx.obj>> \in Seq(Objects) /\ Len(<<tx.obj>>) = 1
      /\ <<rx.obj>> \in Seq(Objects)
  BY CarriersAre DEF Types, TxEnqueue, Ring!Put
<1>2. Carriers' = Carriers \o <<tx.obj>>
  BY <1>1, ConcatAssociative DEF Carriers
<1>3. /\ Len(Carriers') = Len(accepted) + 1
      /\ \A i \in 1 .. Len(accepted) : Carriers'[i] = Carriers[i]
      /\ Carriers'[Len(accepted) + 1] = tx.obj
  <2> HIDE DEF Carriers
  <2>1. Len(accepted) \in Nat
    BY <1>1, LenProperties
  <2>2. /\ Len(Carriers') = Len(accepted) + 1
        /\ \A i \in 1 .. Len(accepted) + 1 :
             Carriers'[i] = IF i <= Len(accepted) THEN Carriers[i]
                                                  ELSE <<tx.obj>>[i - Len(accepted)]
    BY <1>1, <1>2, ConcatProperties
  <2>3. <<tx.obj>>[Len(accepted) + 1 - Len(accepted)] = tx.obj
    BY <2>1
  <2> QED BY <2>1, <2>2, <2>3
<1>4. queue' \in Seq(Objects) /\ Len(queue') = Len(queue) + 1
  BY <1>1, ConcatProperties
<1>5. accepted \in Seq([msg : Contents, refusals : 0 .. Slots])
      /\ [msg |-> tx.msg, refusals |-> tx.seen] \in [msg : Contents, refusals : 0 .. Slots]
      /\ accepted' = Append(accepted, [msg |-> tx.msg, refusals |-> tx.seen])
  BY DEF Types, TxEnqueue
<1>6. /\ accepted' \in Seq([msg : Contents, refusals : 0 .. Slots])
      /\ Len(accepted') = Len(accepted) + 1
      /\ \A i \in 1 .. Len(accepted) : accepted'[i] = accepted[i]
      /\ accepted'[Len(accepted) + 1] = [msg |-> tx.msg, refusals |-> tx.seen]
  BY <1>5, AppendProperties
<1> QED BY <1>3, <1>4, <1>6

LEMMA EnqueueKeeps ==
  ASSUME IInv, TxEnqueue
  PROVE  IInv'
<1> PICK n : n = Len(accepted)
  OBVIOUS
<1>1. /\ tx.pc = "enqueue" /\ tx' = TxIdle
      /\ UNCHANGED <<taken, ring_top, shared_objs, rx>>
      /\ Len(queue) + Len(taken[App]) < Slots - 1
  BY SlotsAssumption DEF TxEnqueue, IInv, Types, Ring!HasRoom, Ring!Put
<1>2. n \in 0 .. Slots /\ (rx.pc # "idle" => n > 0)
  BY CarriersAre DEF IInv
<1>3. /\ \A i \in 1 .. n : (Lapsed(i)' <=> Lapsed(i)) /\ Behind(i)' = Behind(i) + 1
      /\ Lapsed(n + 1)' <=> tx.seen = Slots
      /\ tx.seen = 0 => Behind(n + 1)' = 1
  <2>1. /\ \A i \in 1 .. n : accepted[i] \in [msg : Contents, refusals : 0 .. Slots]
        /\ \A i \in 1 .. n : accepted'[i] = accepted[i]
        /\ accepted'[n + 1] = [msg |-> tx.msg, refusals |-> tx.seen]
        /\ Len(accepted') = n + 1
    BY ElementOfSeq, EnqueueMoves DEF IInv, Types
  <2>2. ASSUME NEW i \in 1 .. n
        PROVE  (Lapsed(i)' <=> Lapsed(i)) /\ Behind(i)' = Behind(i) + 1
    <3>1. accepted[i].refusals \in 0 .. Slots /\ accepted'[i].refusals = accepted[i].refusals
      <4>1. accepted[i] \in [msg : Contents, refusals : 0 .. Slots] /\ accepted'[i] = accepted[i]
        BY <2>1, Zenon
      <4> QED BY <4>1
    <3>2. Lapsed(i)' <=> Lapsed(i)
      BY <3>1 DEF Lapsed
    <3>3. Len(accepted) = n /\ Len(accepted') = n + 1 /\ n \in Nat /\ i \in Nat
      BY <2>1, <1>2, SlotsAssumption
    <3>4. Behind(i)' = Behind(i) + 1
      BY <3>1, <3>3 DEF Behind
    <3> QED BY <3>2, <3>4
  <2>3. Lapsed(n + 1)' <=> tx.seen = Slots
    BY <2>1 DEF Lapsed
  <2>4. tx.seen = 0 => Behind(n + 1)' = 1
    BY <2>1, <1>2 DEF Behind
  <2> QED BY <2>2, <2>3, <2>4
<1>4. Types'
  <2>1. TxIdle \in [pc : {"idle", "copy", "copy2", "enqueue"}, msg : Contents, obj : Objects,
                    seen : {0, Slots}]
    BY DEF TxIdle, Contents, Objects, CountElements
  <2>2. Len(queue) \in Nat /\ Len(taken[App]) \in Nat
    BY LenProperties DEF IInv, Types
  <2> QED BY <1>1, <2>1, <2>2, EnqueueMoves DEF IInv, Types
<1>5. tx.seen \in {0, Slots} /\ tx.obj \in Objects /\ NextObject = tx.obj
      /\ NextObject' = ring_top /\ ring_top = Ahead(tx.obj, 1)
  BY <1>1 DEF IInv, Types, InTurn, NextObject, TxIdle
<1>6. InTurn'
  <2>1. tx'.pc = "idle"
    BY <1>1 DEF TxIdle
  <2>2. ASSUME NEW i \in 1 .. n, ~ Lapsed(i)
        PROVE  NextObject' = Ahead(Carriers[i], Behind(i) + 1)
    <3>1. tx.obj = Ahead(Carriers[i], Behind(i))
      BY <1>5, <2>2 DEF IInv, InTurn
    <3>2. Carriers[i] \in Objects /\ Behind(i) \in 1 .. CountElements - 1
      BY <2>2, NotTheSenders DEF IInv, Kept
    <3> QED BY <3>1, <3>2, <1>5, AheadOfAhead
  <2>3. ASSUME NEW i \in 1 .. n + 1, ~ Lapsed(i)'
        PROVE  NextObject' = Ahead(Carriers'[i], Behind(i)')
    <3>1. CASE i \in 1 .. n
      BY <3>1, <2>2, <2>3, <1>3, EnqueueMoves DEF IInv
    <3>2. CASE i = n + 1
      BY <3>2, <2>3, <1>3, <1>5, EnqueueMoves DEF IInv
    <3> QED BY <3>1, <3>2, <1>2
  <2>4. ASSUME NEW i \in 1 .. Len(accepted)', ~ Lapsed(i)'
        PROVE  NextObject' = Ahead(Carriers[i], Behind(i))'
    <3>1. i \in 1 .. n + 1
      BY EnqueueMoves DEF IInv
    <3> QED BY <3>1, <2>4, <2>3 DEF Ahead, CountElements
  <2> QED BY <2>1, <2>4 DEF InTurn
<1>7. Apart'
  <2>1. ASSUME NEW i \in 1 .. n, ~ Lapsed(n + 1)'
        PROVE  Carriers[i] # tx.obj
    <3>1. ~ Lapsed(i)
      BY <2>1, <1>1, <1>3, <1>5 DEF IInv, SentSoFar
    <3> QED BY <3>1, <1>5, NotTheSenders DEF IInv, Kept
  <2>2. ASSUME NEW i \in 1 .. n + 1, NEW j \in 1 .. n + 1, i < j, ~ Lapsed(j)'
        PROVE  Carriers'[i] # Carriers'[j]
    <3>1. CASE j \in 1 .. n
      <4>1. i \in 1 .. n /\ ~ Lapsed(j)
        BY <3>1, <2>2, <1>2, <1>3
      <4>2. Carriers[i] # Carriers[j]
        BY <4>1, <3>1, <2>2 DEF IInv, Apart
      <4> QED BY <4>1, <4>2, <3>1, EnqueueMoves DEF IInv
    <3>2. CASE j = n + 1
      BY <3>2, <2>1, <2>2, <1>2, EnqueueMoves DEF IInv
    <3> QED BY <3>1, <3>2, <1>2
  <2> QED BY <2>2, EnqueueMoves DEF IInv, Apart
<1>8. Intact'
  <2>1. ASSUME NEW i \in 1 .. n + 1, ~ Lapsed(i)'
        PROVE  /\ shared_objs[Carriers'[i]].first  = accepted'[i].msg
               /\ shared_objs[Carriers'[i]].second = accepted'[i].msg
               /\ shared_objs[Carriers'[i]].valid
    <3>1. CASE i \in 1 .. n
      BY <3>1, <2>1, <1>3, EnqueueMoves DEF IInv, Intact
    <3>2. CASE i = n + 1
      BY <3>2, <2>1, <1>1, <1>3, EnqueueMoves DEF IInv, SentSoFar
    <3> QED BY <3>1, <3>2, <1>2
  <2> QED BY <2>1, <1>1, EnqueueMoves DEF IInv, Intact
<1>9. SentSoFar' /\ ReceivedSoFar'
  BY <1>1, <1>2, <1>3, EnqueueMoves DEF IInv, SentSoFar, ReceivedSoFar, TxIdle, Lapsed
<1> QED BY <1>4, <1>6, <1>7, <1>8, <1>9 DEF IInv

\* The ring is full: one more refusal for every message that waits.
LEMMA RefuseKeeps ==
  ASSUME IInv, TxRefuse
  PROVE  IInv'
<1> PICK n : n = Len(accepted)
  OBVIOUS
<1>1. /\ tx.pc = "enqueue" /\ tx' = TxIdle
      /\ UNCHANGED <<queue, taken, ring_top, shared_objs, rx>>
      /\ Carriers' = Carriers
  BY DEF TxRefuse, Carriers
<1>2. /\ n \in 0 .. Slots /\ (rx.pc # "idle" => n > 0)
      /\ DOMAIN accepted = 1 .. n
      /\ \A i \in 1 .. n : accepted[i] \in [msg : Contents, refusals : 0 .. Slots]
  BY CarriersAre, LenProperties, ElementOfSeq DEF IInv, Types
<1>3. /\ accepted' \in [1 .. n -> [msg : Contents, refusals : 0 .. Slots]]
      /\ \A i \in 1 .. n : accepted'[i].msg = accepted[i].msg
                           /\ accepted'[i].refusals = OneMore(accepted[i].refusals)
  <2>1. accepted' = [i \in 1 .. n |->
                       [accepted[i] EXCEPT !.refusals = OneMore(accepted[i].refusals)]]
    BY <1>2 DEF TxRefuse
  <2>2. ASSUME NEW i \in 1 .. n
        PROVE  OneMore(accepted[i].refusals) \in 0 .. Slots
    <3>1. accepted[i].refusals \in 0 .. Slots
      BY <1>2
    <3> QED BY <3>1 DEF OneMore
  <2> QED BY <2>1, <2>2, <1>2
<1>4. accepted' \in Seq([msg : Contents, refusals : 0 .. Slots]) /\ Len(accepted') = n
  <2>1. n \in Nat
    BY <1>2
  <2> QED BY <1>3, <2>1, FunctionIsSequence
<1>5. ASSUME NEW i \in 1 .. n, ~ Lapsed(i)'
      PROVE  ~ Lapsed(i) /\ Behind(i)' = Behind(i) + 1
  <2>1. /\ accepted[i].refusals \in 0 .. Slots
        /\ accepted'[i].refusals = OneMore(accepted[i].refusals)
        /\ accepted'[i].refusals # Slots
    BY <1>2, <1>3, <1>5 DEF Lapsed
  <2>2. accepted[i].refusals < Slots /\ accepted'[i].refusals = accepted[i].refusals + 1
    BY <2>1 DEF OneMore
  <2>3. Behind(i) = n - i + accepted[i].refusals + 1
        /\ Behind(i)' = n - i + accepted'[i].refusals + 1
    BY <1>4 DEF Behind
  <2>4. Behind(i)' = Behind(i) + 1
    BY <2>1, <2>2, <2>3, <1>2
  <2> QED BY <2>2, <2>4, <2>1 DEF Lapsed
<1>6. Types'
  <2>1. TxIdle \in [pc : {"idle", "copy", "copy2", "enqueue"}, msg : Contents, obj : Objects,
                    seen : {0, Slots}]
    BY DEF TxIdle, Contents, Objects, CountElements
  <2> QED BY <1>1, <1>4, <2>1 DEF IInv, Types
<1>7. InTurn'
  <2>1. /\ tx.obj \in Objects /\ NextObject = tx.obj /\ tx'.pc = "idle"
        /\ NextObject' = ring_top /\ ring_top = Ahead(tx.obj, 1)
    BY <1>1 DEF IInv, Types, InTurn, NextObject, TxIdle
  <2>2. ASSUME NEW i \in 1 .. n, ~ Lapsed(i)'
        PROVE  NextObject' = Ahead(Carriers[i], Behind(i)')
    <3>1. tx.obj = Ahead(Carriers[i], Behind(i))
      BY <2>1, <2>2, <1>5 DEF IInv, InTurn
    <3>2. Carriers[i] \in Objects /\ Behind(i) \in 1 .. CountElements - 1
      BY <2>2, <1>5, NotTheSenders DEF IInv, Kept
    <3> QED BY <3>1, <3>2, <2>1, <2>2, <1>5, AheadOfAhead
  <2>3. ASSUME NEW i \in 1 .. Len(accepted)', ~ Lapsed(i)'
        PROVE  NextObject' = Ahead(Carriers[i], Behind(i))'
    BY <2>3, <2>2, <1>1, <1>4 DEF Ahead, CountElements
  <2> QED BY <2>1, <2>3 DEF InTurn
<1>8. Apart' /\ Intact'
  BY <1>1, <1>3, <1>4, <1>5 DEF IInv, Apart, Intact
<1>9. SentSoFar'
  BY <1>1 DEF SentSoFar, TxIdle
<1>10. ReceivedSoFar'
  BY <1>1, <1>2, <1>3, <1>5 DEF IInv, ReceivedSoFar
<1> QED BY <1>6, <1>7, <1>8, <1>9, <1>10 DEF IInv

(***************************************************************************)
(* The steps of the receiver.                                              *)
(***************************************************************************)
\* Between taking an object and finishing with it no message moves either.
LEMMA ReaderKeeps ==
  ASSUME IInv, UNCHANGED <<ring_top, shared_objs, tx, accepted>>,
         Carriers' = Carriers, Types', ReceivedSoFar'
  PROVE  IInv'
<1>1. UNCHANGED NextObject
  BY DEF NextObject
<1>2. \A i \in 1 .. Len(accepted) : (Lapsed(i)' <=> Lapsed(i)) /\ Behind(i)' = Behind(i)
  BY DEF Lapsed, Behind
<1>3. InTurn'
  BY <1>1, <1>2 DEF IInv, InTurn, Ahead, CountElements
<1>4. Apart' /\ Intact' /\ SentSoFar'
  BY <1>2 DEF IInv, Apart, Intact, SentSoFar
<1> QED BY <1>3, <1>4 DEF IInv

LEMMA DequeueKeeps ==
  ASSUME IInv, RxDequeue
  PROVE  IInv'
<1>1. /\ UNCHANGED <<ring_top, shared_objs, tx, accepted>>
      /\ rx.pc = "idle" /\ rx' = [rx EXCEPT !.pc = "dequeue", !.obj = Head(queue)]
      /\ taken[App] = << >> /\ 1 <= Len(queue)
      /\ taken' = [taken EXCEPT ![App] = SubSeq(queue, 1, 1)]
      /\ queue' = SubSeq(queue, 2, Len(queue))
  BY DEF RxDequeue, Ring!Take
<1>2. queue \in Seq(Objects) /\ queue # << >> /\ Len(queue) \in Nat
      /\ Head(queue) = queue[1] /\ Head(queue) \in Objects
  BY <1>1, HeadTailProperties DEF IInv, Types
<1>3. queue' \in Seq(Objects) /\ Len(queue') = Len(queue) - 1
      /\ SubSeq(queue, 1, 1) = <<queue[1]>>
      /\ <<queue[1]>> \o queue' = queue
  <2>1. queue' = Tail(queue)
    BY <1>1, <1>2, TailIsSubSeq
  <2>2. queue = SubSeq(queue, 1, Len(queue)) /\ 1 \in 1 .. Len(queue)
        /\ Len(queue) \in 1 .. Len(queue)
    BY <1>1, <1>2, SubSeqFull
  <2>3. SubSeq(queue, 1, Len(queue)) = <<queue[1]>> \o SubSeq(queue, 1 + 1, Len(queue))
    BY <2>2, <1>2, SubSeqRecursiveFirst
  <2>4. SubSeq(queue, 1, 1) = <<queue[1]>> \o SubSeq(queue, 1 + 1, 1)
    BY <2>2, <1>2, SubSeqRecursiveFirst
  <2>5. SubSeq(queue, 2, 1) = << >>
    BY SubSeqEmpty
  <2>6. <<queue[1]>> \o << >> = <<queue[1]>>
    BY <1>2, ConcatEmptySeq
  <2>7. Tail(queue) \in Seq(Objects) /\ Len(Tail(queue)) = Len(queue) - 1
    BY <1>2, HeadTailProperties
  <2>8. SubSeq(queue, 1 + 1, Len(queue)) = SubSeq(queue, 2, Len(queue))
        /\ SubSeq(queue, 1 + 1, 1) = SubSeq(queue, 2, 1)
    OBVIOUS
  <2>9. SubSeq(queue, 1, 1) = <<queue[1]>>
    BY <2>4, <2>5, <2>6, <2>8
  <2>10. <<queue[1]>> \o queue' = queue
    BY <1>1, <2>2, <2>3, <2>8
  <2> QED BY <2>1, <2>7, <2>9, <2>10
<1>4. rx'.pc = "dequeue" /\ rx'.obj = queue[1]
  BY <1>1, <1>2 DEF IInv, Types
<1>5. Carriers' = Carriers
  BY <1>1, <1>2, <1>3, <1>4 DEF Carriers
<1>6. Types'
  <2>1. taken' \in [{App} -> Seq(Objects)] /\ taken'[App] = <<queue[1]>>
        /\ Len(taken'[App]) = 1
    BY <1>1, <1>2, <1>3 DEF IInv, Types
  <2>2. Len(queue') + Len(taken'[App]) < Slots
    BY <1>1, <1>2, <1>3, <2>1 DEF IInv, Types
  <2>3. rx' \in [pc : {"idle", "dequeue", "check", "copy2", "clear"}, obj : Objects,
                 first : Contents, second : Contents]
    BY <1>1, <1>2 DEF IInv, Types
  <2> QED BY <1>1, <1>3, <1>4, <1>5, <2>1, <2>2, <2>3 DEF IInv, Types
<1>7. ReceivedSoFar'
  BY <1>4 DEF ReceivedSoFar
<1> QED BY <1>1, <1>5, <1>6, <1>7, ReaderKeeps

LEMMA DequeuedKeeps ==
  ASSUME IInv, RxDequeued
  PROVE  IInv'
<1>1. /\ UNCHANGED <<ring_top, shared_objs, tx, accepted, queue>>
      /\ rx.pc = "dequeue" /\ rx' = [rx EXCEPT !.pc = "check"]
      /\ taken' = [taken EXCEPT ![App] = << >>]
  BY DEF RxDequeued, Ring!Finish
<1>2. rx'.pc = "check" /\ rx'.obj = rx.obj
  BY <1>1 DEF IInv, Types
<1>3. Carriers' = Carriers
  BY <1>1, <1>2 DEF Carriers
<1>4. Types'
  <2>1. taken' \in [{App} -> Seq(Objects)] /\ taken'[App] = << >>
    BY <1>1 DEF IInv, Types
  <2>2. Len(queue) \in Nat /\ Len(taken[App]) \in Nat /\ Len(taken'[App]) = 0
    BY <2>1, LenProperties DEF IInv, Types
  <2>3. Len(queue') + Len(taken'[App]) < Slots
    BY <1>1, <2>2 DEF IInv, Types
  <2> QED BY <1>1, <1>3, <2>1, <2>3 DEF IInv, Types
<1>5. ReceivedSoFar'
  BY <1>2 DEF ReceivedSoFar
<1> QED BY <1>1, <1>3, <1>4, <1>5, ReaderKeeps

\* The receiver copies what is there, and its message is intact there.
LEMMA ReadKeeps ==
  ASSUME IInv, RxCopyFirst \/ RxCopySecond
  PROVE  IInv'
<1>1. /\ UNCHANGED <<queue, taken, ring_top, shared_objs, tx, accepted>>
      /\ rx.pc \in {"check", "copy2"}
  BY DEF RxCopyFirst, RxCopySecond
<1>2. /\ 1 \in 1 .. Len(accepted) /\ Carriers[1] = rx.obj
      /\ shared_objs[rx.obj] \in [first : Contents, second : Contents, valid : BOOLEAN]
  BY <1>1, CarriersAre DEF IInv, Types
<1>3. /\ rx' \in [pc : {"idle", "dequeue", "check", "copy2", "clear"}, obj : Objects,
                  first : Contents, second : Contents]
      /\ rx'.obj = rx.obj /\ rx'.pc \in {"copy2", "clear"}
  BY <1>2 DEF RxCopyFirst, RxCopySecond, IInv, Types
<1>4. Carriers' = Carriers
  BY <1>1, <1>3 DEF Carriers
<1>5. Types'
  BY <1>1, <1>3, <1>4 DEF IInv, Types
<1>6. ReceivedSoFar'
  <2>1. CASE RxCopyFirst
    BY <2>1, <1>1, <1>2 DEF RxCopyFirst, IInv, Types, Intact, ReceivedSoFar, Lapsed
  <2>2. CASE RxCopySecond
    BY <2>2, <1>1, <1>2 DEF RxCopySecond, IInv, Types, Intact, ReceivedSoFar, Lapsed
  <2> QED BY <2>1, <2>2
<1> QED BY <1>1, <1>4, <1>5, <1>6, ReaderKeeps

\* The receiver has finished with the oldest message: the others move up.
LEMMA FinishMoves ==
  ASSUME Types, RxNothing \/ RxClear
  PROVE  /\ Len(accepted) \in 1 .. Slots
         /\ Carriers' = queue /\ Len(queue) = Len(accepted) - 1
         /\ \A i \in 1 .. Len(accepted) - 1 : Carriers'[i] = Carriers[i + 1]
         /\ accepted' \in Seq([msg : Contents, refusals : 0 .. Slots])
         /\ Len(accepted') = Len(accepted) - 1
         /\ \A i \in 1 .. Len(accepted) - 1 : accepted'[i] = accepted[i + 1]
<1>1. /\ rx.pc \in {"check", "clear"} /\ rx' = RxIdle /\ rx'.pc = "idle"
      /\ queue' = queue /\ accepted' = Tail(accepted)
  BY DEF RxNothing, RxClear, RxIdle
<1>2. /\ Len(accepted) \in 1 .. Slots /\ Len(Carriers) = Len(accepted)
      /\ queue \in Seq(Objects) /\ <<rx.obj>> \in Seq(Objects) /\ Len(<<rx.obj>>) = 1
      /\ Len(queue) \in Nat
  BY <1>1, CarriersAre DEF Types
<1>3. Carriers' = queue /\ Carriers = <<rx.obj>> \o queue
  BY <1>1 DEF Carriers
<1>4. /\ Len(Carriers) = 1 + Len(queue)
      /\ \A i \in 1 .. 1 + Len(queue) :
           Carriers[i] = IF i <= 1 THEN <<rx.obj>>[i] ELSE queue[i - 1]
  BY <1>2, <1>3, ConcatProperties
<1>5. Len(queue) = Len(accepted) - 1
  BY <1>2, <1>4
<1>6. ASSUME NEW i \in 1 .. Len(accepted) - 1
      PROVE  Carriers'[i] = Carriers[i + 1]
  <2>1. i + 1 \in 1 .. 1 + Len(queue) /\ ~ (i + 1 <= 1) /\ i + 1 - 1 = i
    BY <1>2, <1>5
  <2> QED BY <2>1, <1>3, <1>4
<1>7. accepted \in Seq([msg : Contents, refusals : 0 .. Slots]) /\ accepted # << >>
  BY <1>2 DEF Types
<1>8. /\ accepted' \in Seq([msg : Contents, refusals : 0 .. Slots])
      /\ Len(accepted') = Len(accepted) - 1
      /\ \A i \in 1 .. Len(accepted) - 1 : accepted'[i] = accepted[i + 1]
  BY <1>1, <1>7, HeadTailProperties
<1> QED BY <1>2, <1>3, <1>5, <1>6, <1>8

LEMMA FinishKeeps ==
  ASSUME IInv, RxNothing \/ RxClear
  PROVE  IInv'
<1> PICK n : n = Len(accepted)
  OBVIOUS
<1>1. /\ UNCHANGED <<queue, taken, ring_top, tx>>
      /\ rx.pc \in {"check", "clear"} /\ rx' = RxIdle /\ rx'.pc = "idle"
      /\ shared_objs' \in {shared_objs, [shared_objs EXCEPT ![rx.obj].valid = FALSE]}
  BY DEF RxNothing, RxClear, RxIdle
<1>2. /\ n \in 1 .. Slots /\ Len(accepted') = n - 1 /\ Carriers[1] = rx.obj
      /\ \A i \in 1 .. n : accepted[i] \in [msg : Contents, refusals : 0 .. Slots]
  BY <1>1, FinishMoves, CarriersAre, ElementOfSeq DEF IInv, Types
<1>3. ASSUME NEW i \in 1 .. n - 1
      PROVE  /\ i + 1 \in 1 .. n
             /\ Carriers'[i] = Carriers[i + 1] /\ accepted'[i] = accepted[i + 1]
             /\ Lapsed(i)' <=> Lapsed(i + 1)
             /\ Behind(i)' = Behind(i + 1)
  <2>1. /\ i + 1 \in 1 .. n /\ accepted'[i] = accepted[i + 1]
        /\ Carriers'[i] = Carriers[i + 1]
    BY <1>2, FinishMoves DEF IInv
  <2>2. accepted[i + 1].refusals \in 0 .. Slots
    BY <2>1, <1>2
  <2>3. Behind(i)' = n - 1 - i + accepted[i + 1].refusals + 1
        /\ Behind(i + 1) = n - (i + 1) + accepted[i + 1].refusals + 1
    BY <2>1, <1>2 DEF Behind
  <2> QED BY <2>1, <2>2, <2>3, <1>2 DEF Lapsed
<1>4. /\ rx.obj \in Objects /\ shared_objs[rx.obj] \in
             [first : Contents, second : Contents, valid : BOOLEAN]
      /\ \A obj \in Objects : obj # rx.obj => shared_objs'[obj] = shared_objs[obj]
      /\ shared_objs' \in [Objects -> [first : Contents, second : Contents, valid : BOOLEAN]]
  <2>1. rx.obj \in Objects /\ shared_objs[rx.obj] \in
             [first : Contents, second : Contents, valid : BOOLEAN]
    BY DEF IInv, Types
  <2>2. [shared_objs[rx.obj] EXCEPT !.valid = FALSE] \in
             [first : Contents, second : Contents, valid : BOOLEAN]
    BY <2>1
  <2>3. CASE shared_objs' = shared_objs
    BY <2>1, <2>3 DEF IInv, Types
  <2>4. CASE shared_objs' = [shared_objs EXCEPT ![rx.obj].valid = FALSE]
    BY <2>1, <2>2, <2>4 DEF IInv, Types
  <2> QED BY <1>1, <2>3, <2>4
<1>5. Types'
  <2>1. rx' \in [pc : {"idle", "dequeue", "check", "copy2", "clear"}, obj : Objects,
                 first : Contents, second : Contents]
    BY <1>1 DEF RxIdle, Contents, Objects, CountElements
  <2>2. Len(Carriers') = Len(accepted')
    BY <1>2, FinishMoves DEF IInv
  <2>3. taken' = taken /\ taken[App] = << >>
    BY <1>1 DEF IInv, Types
  <2> QED BY <1>1, <1>4, <2>1, <2>2, <2>3, FinishMoves DEF IInv, Types
<1>6. InTurn'
  <2>1. NextObject' = NextObject
    BY <1>1 DEF NextObject
  <2>2. ASSUME NEW i \in 1 .. n - 1, ~ Lapsed(i)'
        PROVE  NextObject' = Ahead(Carriers'[i], Behind(i)')
    BY <2>1, <2>2, <1>3 DEF IInv, InTurn
  <2>3. ASSUME NEW i \in 1 .. Len(accepted)', ~ Lapsed(i)'
        PROVE  NextObject' = Ahead(Carriers[i], Behind(i))'
    BY <2>3, <2>2, <1>2 DEF Ahead, CountElements
  <2> QED BY <2>3, <1>1 DEF IInv, InTurn, Ahead, CountElements
<1>7. Apart'
  <2>1. ASSUME NEW i \in 1 .. n - 1, NEW j \in 1 .. n - 1, i < j, ~ Lapsed(j)'
        PROVE  Carriers'[i] # Carriers'[j]
    <3>1. i + 1 \in 1 .. n /\ j + 1 \in 1 .. n /\ i + 1 < j + 1 /\ ~ Lapsed(j + 1)
      BY <2>1, <1>3
    <3>2. Carriers[i + 1] # Carriers[j + 1]
      BY <3>1 DEF IInv, Apart
    <3> QED BY <3>2, <1>3
  <2> QED BY <2>1, <1>2 DEF Apart
<1>8. Intact'
  <2>1. ASSUME NEW i \in 1 .. n - 1, ~ Lapsed(i)'
        PROVE  /\ shared_objs'[Carriers'[i]].first  = accepted'[i].msg
               /\ shared_objs'[Carriers'[i]].second = accepted'[i].msg
               /\ shared_objs'[Carriers'[i]].valid
    <3>1. i + 1 \in 1 .. n /\ ~ Lapsed(i + 1) /\ 1 < i + 1 /\ 1 \in 1 .. n
      BY <2>1, <1>3, <1>2
    <3>2. Carriers[i + 1] \in Objects /\ Carriers[i + 1] # rx.obj
      BY <3>1, <1>2, NotTheSenders DEF IInv, Kept, Apart
    <3> QED BY <3>1, <3>2, <1>3, <1>4 DEF IInv, Intact
  <2> QED BY <2>1, <1>2 DEF Intact
<1>9. SentSoFar'
  <2>1. ASSUME tx.pc # "idle", tx.seen # Slots
        PROVE  /\ \A i \in 1 .. n - 1 : ~ Lapsed(i)'
               /\ tx.obj \in Objects /\ tx.obj # rx.obj
    <3>1. \A i \in 1 .. n : ~ Lapsed(i)
      BY <2>1 DEF IInv, SentSoFar
    <3>2. NextObject = tx.obj /\ NextObject # Carriers[1]
      BY <2>1, <3>1, <1>2, NotTheSenders DEF IInv, Kept, NextObject
    <3> QED BY <3>1, <3>2, <1>2, <1>3 DEF IInv, Types
  <2> QED BY <2>1, <1>1, <1>2, <1>4 DEF IInv, SentSoFar
<1>10. ReceivedSoFar'
  BY <1>1 DEF ReceivedSoFar
<1> QED BY <1>5, <1>6, <1>7, <1>8, <1>9, <1>10 DEF IInv

(***************************************************************************)
(* The invariant holds along every behaviour of the channel.               *)
(***************************************************************************)
LEMMA InitKeeps ==
  ASSUME Init
  PROVE  IInv
<1>1. /\ queue = << >> /\ taken = [c \in {App} |-> << >>] /\ ring_top = 0
      /\ tx = TxIdle /\ rx = RxIdle /\ accepted = << >>
      /\ shared_objs = [o \in Objects |->
                          [first |-> NoMessage, second |-> NoMessage, valid |-> FALSE]]
  BY DEF Init, Ring!Init
<1>2. 0 \in Objects /\ NoMessage \in Contents /\ tx.pc = "idle" /\ rx.pc = "idle"
  BY <1>1 DEF Objects, CountElements, Contents, TxIdle, RxIdle
<1>3. Carriers = << >> /\ Len(accepted) = 0 /\ Len(queue) = 0 /\ taken[App] = << >>
  BY <1>1, <1>2 DEF Carriers
<1>4. Types
  BY <1>1, <1>2, <1>3 DEF Types, TxIdle, RxIdle
<1> QED BY <1>2, <1>3, <1>4 DEF IInv, InTurn, Apart, Intact, SentSoFar, ReceivedSoFar

LEMMA StepKeeps ==
  ASSUME IInv, [Next]_vars
  PROVE  IInv'
<1>1. CASE Send
  BY <1>1, ClaimKeeps, CopyFirstKeeps, CopySecondKeeps, EnqueueKeeps, RefuseKeeps DEF Send
<1>2. CASE Receive
  BY <1>2, DequeueKeeps, DequeuedKeeps, ReadKeeps, FinishKeeps DEF Receive
<1>3. CASE UNCHANGED vars
  <2>1. Carriers' = Carriers
    BY <1>3 DEF vars, Carriers
  <2>2. Types' /\ ReceivedSoFar'
    BY <1>3, <2>1 DEF vars, IInv, Types, ReceivedSoFar, Lapsed
  <2> QED BY <1>3, <2>1, <2>2, ReaderKeeps DEF vars
<1> QED BY <1>1, <1>2, <1>3 DEF Next

LEMMA InvariantHolds == Spec => []IInv
  BY InitKeeps, StepKeeps, PTL DEF Spec

LEMMA IInvSuffices ==
  ASSUME IInv
  PROVE  IntactUnlessLapped /\ DeliveredUnlessLapped
<1>1. /\ DOMAIN accepted = 1 .. Len(accepted)
      /\ \A i \in 1 .. Len(accepted) : accepted[i] \in [msg : Contents, refusals : 0 .. Slots]
  BY LenProperties, ElementOfSeq DEF IInv, Types
<1>2. TypeOK
  <2>1. Len(queue) \in Nat /\ Len(taken[App]) \in Nat /\ Len(queue) < Slots
    BY LenProperties DEF IInv, Types
  <2> QED BY <2>1 DEF TypeOK, IInv, Types
<1>3. IntactUnlessLapped
  BY <1>1, <1>2 DEF IntactUnlessLapped, IInv, Intact, Lapsed
<1>4. DeliveredUnlessLapped
  BY <1>1, CarriersAre DEF DeliveredUnlessLapped, IInv, ReceivedSoFar, Lapsed
<1> QED BY <1>3, <1>4

(***************************************************************************)
(* A message that waits in the channel, or is being read, keeps its object *)
(* unless it saw Slots sends refused or was sent while such a message      *)
(* waited (vc_tx_msg takes the objects in turn, vchannel.c:187).           *)
(***************************************************************************)
THEOREM ObjectsAreKept == Spec => []IntactUnlessLapped
  BY InvariantHolds, IInvSuffices, PTL

(***************************************************************************)
(* What vc_rx_msg hands over is then the message that vc_tx_msg accepted,  *)
(* whole, however the two copies interleave (vchannel.c:193, 222).         *)
(***************************************************************************)
THEOREM MessagesArriveWhole == Spec => []DeliveredUnlessLapped
  BY InvariantHolds, IInvSuffices, PTL

(***************************************************************************)
(* The application's thread on the channel.  A report of the runtime       *)
(* stands until the thread has taken a message, and one of the kernel      *)
(* until it has asked the kernel, since nobody else takes any.             *)
(***************************************************************************)
ReportsStand ==
  /\ app # "receive" => rx.pc = "idle"
  /\ reported = "runtime" /\ app # "libc" => queue # << >> \/ rx.pc # "idle"
  /\ datagrams \in Nat
  /\ reported = "kernel" => datagrams > 0

PathIInv == IInv /\ ReportsStand

\* Every step of the path is one of the channel, or leaves the channel alone.
LEMMA PathStepsAreChannelSteps ==
  ASSUME [NextOfPath]_varsOfPath
  PROVE  [Next]_vars
<1>1. CASE UNCHANGED varsOfPath
  BY <1>1 DEF varsOfPath
<1>2. CASE NextOfPath
  BY <1>2 DEF NextOfPath, Library, Application, Next, Receive, CountMessages, PollKernel,
              PollOther, LibcRecvfrom, CallEpollWait, CallRecvfrom, DatagramArrives,
              ReceiveMessage, MessageReceived, NothingFromRuntime
<1> QED BY <1>1, <1>2

\* A step of the sender takes nothing out of the ring.
LEMMA SendKeepsReports ==
  ASSUME IInv, ReportsStand, Send, UNCHANGED appVars
  PROVE  ReportsStand'
<1>1. rx' = rx
  BY DEF Send, TxClaim, TxCopyFirst, TxCopySecond, TxEnqueue, TxRefuse
<1>2. queue # << >> => queue' # << >>
  <2>1. CASE TxEnqueue
    <3>1. Len(queue') = Len(queue) + 1 /\ Len(queue) \in Nat
      BY <2>1, EnqueueMoves DEF IInv, Types
    <3> QED BY <3>1
  <2>2. CASE ~ TxEnqueue
    BY <2>2 DEF Send, TxClaim, TxCopyFirst, TxCopySecond, TxRefuse
  <2> QED BY <2>1, <2>2
<1> QED BY <1>1, <1>2 DEF ReportsStand, appVars

LEMMA PathStepKeeps ==
  ASSUME PathIInv, [NextOfPath]_varsOfPath
  PROVE  PathIInv'
<1>1. IInv'
  BY StepKeeps, PathStepsAreChannelSteps DEF PathIInv
<1> SUFFICES ReportsStand'
  BY <1>1 DEF PathIInv
<1> USE DEF ReportsStand, AppGoes, appVars, vars
<1>2. CASE CountMessages
  BY <1>2 DEF PathIInv, CountMessages
<1>3. CASE PollKernel
  BY <1>3 DEF PathIInv, PollKernel
<1>4. CASE ReceiveMessage
  <2>1. app = "receive" /\ rx'.pc # "idle"
    BY <1>4 DEF ReceiveMessage, PathIInv, IInv, Types, RxDequeue, RxDequeued, RxCopyFirst,
                RxCopySecond
  <2> QED BY <1>4, <2>1 DEF ReceiveMessage, PathIInv
<1>5. CASE MessageReceived
  <2>1. rx'.pc = "idle"
    BY <1>5 DEF MessageReceived, RxClear, RxIdle
  <2> QED BY <1>5, <2>1 DEF MessageReceived, PathIInv
<1>6. CASE NothingFromRuntime
  <2>1. rx'.pc = "idle"
    BY <1>6 DEF NothingFromRuntime, RxNothing, RxIdle
  <2> QED BY <1>6, <2>1 DEF NothingFromRuntime, PathIInv
<1>7. CASE PollOther \/ LibcRecvfrom \/ Application
  BY <1>7 DEF PathIInv, PollOther, LibcRecvfrom, Application, CallEpollWait, CallRecvfrom
<1>8. CASE DatagramArrives
  BY <1>8 DEF PathIInv, DatagramArrives
<1>9. CASE Send /\ UNCHANGED appVars
  BY <1>9, SendKeepsReports DEF PathIInv
<1>10. CASE UNCHANGED varsOfPath
  BY <1>10 DEF PathIInv, varsOfPath
<1> QED
  BY <1>2, <1>3, <1>4, <1>5, <1>6, <1>7, <1>8, <1>9, <1>10 DEF NextOfPath, Library

LEMMA PathInvariantHolds == SpecOfPath => []PathIInv
<1>1. InitOfPath => PathIInv
  BY InitKeeps DEF InitOfPath, PathIInv, ReportsStand, Init, RxIdle
<1> QED BY <1>1, PathStepKeeps, PTL DEF SpecOfPath

(***************************************************************************)
(* The channel keeps its promises with the interposed library on it.       *)
(***************************************************************************)
THEOREM PathKeepsMessages == SpecOfPath => [](IntactUnlessLapped /\ DeliveredUnlessLapped)
  BY PathInvariantHolds, IInvSuffices, PTL DEF PathIInv

(***************************************************************************)
(* The thread that epoll_wait told of a message gets one from its next     *)
(* recvfrom, and the one it told of a datagram finds it in the kernel: it  *)
(* is not left in libc for nothing, unless the object lapsed               *)
(* (interpose.c:133).                                                      *)
(***************************************************************************)
THEOREM ReportsAreKept == SpecOfPath => ReportedIsThere
<1> DEFINE Answered ==
      app = "receive" /\ app' = "libc" =>
        /\ reported = "runtime" => accepted # << >> /\ accepted[1].refusals = Slots
        /\ reported = "kernel"  => datagrams > 0
<1>1. ASSUME PathIInv, [NextOfPath]_varsOfPath
      PROVE  [Answered]_varsOfPath
  <2>1. SUFFICES ASSUME app = "receive", app' = "libc"
                 PROVE  /\ reported = "runtime" =>
                             accepted # << >> /\ accepted[1].refusals = Slots
                        /\ reported = "kernel"  => datagrams > 0
    OBVIOUS
  <2>2. NothingFromRuntime
    BY <1>1, <2>1 DEF NextOfPath, Library, Application, CountMessages, PollKernel, PollOther,
         LibcRecvfrom, CallEpollWait, CallRecvfrom, DatagramArrives, ReceiveMessage,
         MessageReceived, AppGoes, appVars, varsOfPath
  <2>3. ASSUME reported = "runtime"
        PROVE  accepted # << >> /\ accepted[1].refusals = Slots
    <3>1. RxNothing
      BY <1>1, <2>1, <2>2, <2>3 DEF NothingFromRuntime, PathIInv, ReportsStand
    <3>2. 1 \in 1 .. Len(accepted) /\ Carriers[1] = rx.obj /\ ~ shared_objs[rx.obj].valid
      BY <1>1, <3>1, CarriersAre DEF RxNothing, PathIInv, IInv
    <3> QED BY <1>1, <3>2 DEF PathIInv, IInv, Intact, Lapsed
  <2> QED BY <1>1, <2>3 DEF PathIInv, ReportsStand
<1> QED BY <1>1, PathInvariantHolds, PTL DEF SpecOfPath, ReportedIsThere

\* What every step keeps while a message is there, and where the library goes.
WaitMeetsMessage ==
  [][queue # << >> /\ app \in {"count", "poll"} =>
       /\ app' = "running" \/ (app' \in {"count", "poll"} /\ queue' # << >>)
       /\ app = "count" => app' # "poll"
       /\ Library => app' # app]_varsOfPath

(***************************************************************************)
(* Why a message ends the wait in epoll_wait, as far as safety goes: while *)
(* the thread goes round the loop nobody takes the message away, and from  *)
(* the count the loop goes nowhere but back to the caller, so a thread on  *)
(* its way to the kernel comes by the count once and not again             *)
(* (interpose.c:262).                                                      *)
(***************************************************************************)
THEOREM WaitsMeetMessages == SpecOfPath => WaitMeetsMessage
<1> DEFINE Met ==
      app \in {"count", "poll"} /\ queue # << >> =>
        /\ app' = "running" \/ (app' \in {"count", "poll"} /\ queue' # << >>)
        /\ app = "count" => app' # "poll"
        /\ Library => app' # app
<1>1. ASSUME PathIInv, [NextOfPath]_varsOfPath
      PROVE  [Met]_varsOfPath
  <2>1. SUFFICES ASSUME app \in {"count", "poll"}, queue # << >>, NextOfPath
                 PROVE  Met
    BY <1>1
  <2> USE DEF AppGoes, appVars, vars
  <2>2. CASE CountMessages \/ PollKernel
    BY <2>1, <2>2 DEF CountMessages, PollKernel
  <2>3. ~ Library \/ CountMessages \/ PollKernel
    BY <2>1 DEF Library, ReceiveMessage, MessageReceived, NothingFromRuntime
  <2>4. CASE PollOther
    BY <2>1, <2>3, <2>4 DEF PollOther, CountMessages, PollKernel
  <2>5. CASE DatagramArrives
    BY <2>1, <2>3, <2>5 DEF DatagramArrives, CountMessages, PollKernel
  <2>6. CASE Send /\ UNCHANGED appVars
    <3>1. queue' # << >>
      <4>1. CASE TxEnqueue
        BY <1>1, <4>1 DEF TxEnqueue, Ring!Put, PathIInv, IInv, Types
      <4> QED BY <2>1, <2>6, <4>1 DEF Send, TxClaim, TxCopyFirst, TxCopySecond, TxRefuse
    <3> QED BY <2>1, <2>3, <2>6, <3>1 DEF CountMessages, PollKernel
  <2> QED
    BY <2>1, <2>2, <2>3, <2>4, <2>5, <2>6 DEF NextOfPath, Application, CallEpollWait, CallRecvfrom,
       LibcRecvfrom
<1> QED BY <1>1, PathInvariantHolds, PTL DEF SpecOfPath, WaitMeetsMessage

(***************************************************************************)
(* All that the channel and the library on it do to the ring is what the   *)
(* ring promises (Fifo), which RingIsFifo of LLRingProofs says of llring   *)
(* for one producer and one consumer too: an object goes in only where a   *)
(* slot is free, the burst being dequeued not counted as free, and one     *)
(* comes out at a time (vchannel.c:199, 212).                              *)
(***************************************************************************)
THEOREM PathUsesRing == SpecOfPath => Ring!Spec
<1>1. InitOfPath => Ring!Init
  BY DEF InitOfPath, Init
<1>2. ASSUME IInv, TxEnqueue
      PROVE  \E burst \in Ring!Bursts : Ring!Put(burst)
  <2>1. tx.obj \in Objects /\ 1 \in 1 .. Slots - 1
    BY <1>2 DEF IInv, Types
  <2> PICK burst : burst = <<tx.obj>>
    OBVIOUS
  <2>2. burst \in [1 .. 1 -> Objects]
    BY <2>1
  <2>3. burst \in Ring!Bursts
    BY <2>1, <2>2 DEF Ring!Bursts
  <2>4. Ring!Put(burst)
    BY <1>2 DEF TxEnqueue
  <2> QED BY <2>3, <2>4
<1>3. RxDequeue => \E n \in 1 .. Slots - 1 : Ring!Take(App, n)
  <2>1. 1 \in 1 .. Slots - 1
    OBVIOUS
  <2> QED BY <2>1 DEF RxDequeue
<1>4. RxDequeued => Ring!Finish(App)
  BY DEF RxDequeued
<1>5. ASSUME PathIInv, [NextOfPath]_varsOfPath
      PROVE  [Ring!Next]_<<queue, taken>>
  <2>1. IInv /\ [Next]_vars
    BY <1>5, PathStepsAreChannelSteps DEF PathIInv
  <2>2. CASE TxEnqueue
    BY <1>2, <2>1, <2>2 DEF Ring!Next
  <2>3. CASE RxDequeue
    BY <1>3, <2>3 DEF Ring!Next
  <2>4. CASE RxDequeued
    BY <1>4, <2>4 DEF Ring!Next
  <2>5. CASE ~ (TxEnqueue \/ RxDequeue \/ RxDequeued)
    BY <2>1, <2>5 DEF Next, Send, Receive, TxClaim, TxCopyFirst, TxCopySecond, TxRefuse, RxNothing,
                      RxCopyFirst, RxCopySecond, RxClear, vars
  <2> QED BY <2>2, <2>3, <2>4, <2>5
<1> QED BY <1>1, <1>5, PathInvariantHolds, PTL DEF SpecOfPath, Ring!Spec
===============================================================================
