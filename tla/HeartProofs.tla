----------------------------- MODULE HeartProofs -----------------------------
(***************************************************************************)
(* Proofs about Heart and HeartBatch, for every ring size, batch size and  *)
(* mode: who holds a frame; outstanding_tx, what each ring may hold, and   *)
(* the conservation of frames; that Heart implements FrameCycle; and what  *)
(* of this the build with VM_CALL_BATCHING keeps.                          *)
(***************************************************************************)
EXTENDS HeartBatch, FiniteSetTheorems, SequenceTheorems, TLAPS

(***************************************************************************)
(* What the ring operations do to the entries a ring holds.                *)
(***************************************************************************)
\* Submitting an entry adds it to what the ring holds, behind the rest.
LEMMA AppendEntries ==
  ASSUME NEW S, NEW s \in Seq(S), NEW e \in S, NEW k \in Nat \ {0}, k <= Len(s) + 1
  PROVE  /\ Entries(Append(s, e), k) = Entries(s, k) \cup {e}
         /\ ~HasDuplicates(s, k) /\ e \notin Entries(s, k)
              => ~HasDuplicates(Append(s, e), k)
<1> DEFINE t == Append(s, e)
<1>1. /\ t \in Seq(S) /\ Len(t) = Len(s) + 1 /\ t[Len(s) + 1] = e
      /\ \A i \in 1 .. Len(s) : t[i] = s[i]
  BY AppendProperties
<1>2. Entries(t, k) = Entries(s, k) \cup {e}
  BY <1>1 DEF Entries
<1>3. ~HasDuplicates(s, k) /\ e \notin Entries(s, k) => ~HasDuplicates(t, k)
  BY <1>1 DEF Entries, HasDuplicates
<1> QED BY <1>2, <1>3

\* Releasing the oldest entry shifts the others by one.
LEMMA TailEntries ==
  ASSUME NEW S, NEW s \in Seq(S), s # << >>, NEW k \in Nat \ {0}
  PROVE  /\ Entries(Tail(s), k) = Entries(s, k + 1)
         /\ HasDuplicates(Tail(s), k) <=> HasDuplicates(s, k + 1)
<1> DEFINE t == Tail(s)
<1>1. /\ t \in Seq(S) /\ Len(t) = Len(s) - 1 /\ Len(s) \in Nat \ {0}
      /\ \A i \in 1 .. Len(t) : t[i] = s[i + 1]
  BY HeadTailProperties, EmptySeq
<1>3. \A j \in k + 1 .. Len(s) : j - 1 \in k .. Len(t) /\ s[j] = t[j - 1]
  BY <1>1
<1>4. \A i \in k .. Len(t) : i + 1 \in k + 1 .. Len(s) /\ t[i] = s[i + 1]
  BY <1>1
<1>5. Entries(t, k) = Entries(s, k + 1)
  <2>1. Entries(t, k) \subseteq Entries(s, k + 1)
    BY <1>4 DEF Entries
  <2>2. Entries(s, k + 1) \subseteq Entries(t, k)
    BY <1>3 DEF Entries
  <2> QED BY <2>1, <2>2
<1>6. ASSUME HasDuplicates(t, k) PROVE HasDuplicates(s, k + 1)
  <2>1. PICK i, j \in k .. Len(t) : i # j /\ t[i] = t[j]
    BY <1>6 DEF HasDuplicates
  <2>2. i + 1 # j + 1
    BY <2>1
  <2> QED BY <1>4, <2>1, <2>2 DEF HasDuplicates
<1>7. ASSUME HasDuplicates(s, k + 1) PROVE HasDuplicates(t, k)
  <2>1. PICK i, j \in k + 1 .. Len(s) : i # j /\ s[i] = s[j]
    BY <1>7 DEF HasDuplicates
  <2>2. i - 1 # j - 1
    BY <2>1
  <2> QED BY <1>3, <2>1, <2>2 DEF HasDuplicates
<1> QED BY <1>5, <1>6, <1>7

\* The first of a ring's entries, and the rest.
LEMMA FirstEntry ==
  ASSUME NEW S, NEW s \in Seq(S), NEW k \in 1 .. Len(s)
  PROVE  /\ Entries(s, k) = {s[k]} \cup Entries(s, k + 1)
         /\ ~HasDuplicates(s, k) => ~HasDuplicates(s, k + 1) /\ s[k] \notin Entries(s, k + 1)
<1>1. Entries(s, k) = {s[k]} \cup Entries(s, k + 1)
  BY DEF Entries
<1>2. ~HasDuplicates(s, k) => ~HasDuplicates(s, k + 1) /\ s[k] \notin Entries(s, k + 1)
  BY DEF Entries, HasDuplicates
<1> QED BY <1>1, <1>2

\* Moving the m entries of t from position p + 1 on behind s, and releasing the
\* m oldest entries of t.
Moved(t, p, m)     == {t[i] : i \in p + 1 .. p + m}
Behind(s, t, p, m) == s \o SubSeq(t, p + 1, p + m)
Rest(t, m)         == SubSeq(t, m + 1, Len(t))

Distinct(s, t, p) ==
  /\ ~HasDuplicates(s, 1) /\ ~HasDuplicates(t, p + 1)
  /\ Entries(s, 1) \cap Entries(t, p + 1) = {}

MovesThem(s, t, p, m) ==
  /\ Entries(t, p + 1) = Moved(t, p, m) \cup Entries(Rest(t, m), p + 1)
  /\ Moved(t, p, m) \cap Entries(Rest(t, m), p + 1) = {}
  /\ Entries(Behind(s, t, p, m), 1) = Entries(s, 1) \cup Moved(t, p, m)
  /\ ~HasDuplicates(Behind(s, t, p, m), 1) /\ ~HasDuplicates(Rest(t, m), p + 1)

LEMMA MoveEntries ==
  ASSUME NEW S, NEW s \in Seq(S), NEW t \in Seq(S), NEW p \in Nat, NEW m \in Nat,
         p + m <= Len(t), Distinct(s, t, p)
  PROVE  MovesThem(s, t, p, m)
<1> DEFINE u  == SubSeq(t, p + 1, p + m)
           s2 == s \o u
           t2 == SubSeq(t, m + 1, Len(t))
<1>0. ~HasDuplicates(s, 1) /\ ~HasDuplicates(t, p + 1) /\ Entries(s, 1) \cap Entries(t, p + 1) = {}
  BY DEF Distinct
<1>1. /\ u \in Seq(S) /\ Len(u) = m
      /\ \A i \in 1 .. m : u[i] = t[p + i]
  <2>1. PICK from \in Int, to \in Int : from = p + 1 /\ to = p + m
    OBVIOUS
  <2>2. \A i \in from .. to : t[i] \in S
    BY <2>1
  <2>3. /\ SubSeq(t, from, to) \in Seq(S)
        /\ Len(SubSeq(t, from, to)) = (IF from <= to THEN to - from + 1 ELSE 0)
        /\ \A i \in 1 .. to - from + 1 : SubSeq(t, from, to)[i] = t[from + i - 1]
    BY <2>2, SubSeqProperties
  <2>4. u = SubSeq(t, from, to)
    BY <2>1
  <2> HIDE DEF u
  <2>5. to - from + 1 = m /\ \A i \in 1 .. m : from + i - 1 = p + i
    BY <2>1
  <2>6. Len(u) = m
    BY <2>1, <2>3, <2>4
  <2> QED BY <2>3, <2>4, <2>5, <2>6
<1>2. /\ Len(t2) = Len(t) - m
      /\ \A i \in 1 .. Len(t) - m : t2[i] = t[m + i]
  <2>1. PICK from \in Int, to \in Int : from = m + 1 /\ to = Len(t)
    OBVIOUS
  <2>2. \A i \in from .. to : t[i] \in S
    BY <2>1
  <2>3. /\ Len(SubSeq(t, from, to)) = (IF from <= to THEN to - from + 1 ELSE 0)
        /\ \A i \in 1 .. to - from + 1 : SubSeq(t, from, to)[i] = t[from + i - 1]
    BY <2>2, SubSeqProperties
  <2>4. t2 = SubSeq(t, from, to)
    BY <2>1
  <2> HIDE DEF t2
  <2>5. to - from + 1 = Len(t) - m /\ \A i \in 1 .. Len(t) - m : from + i - 1 = m + i
    BY <2>1
  <2>6. Len(t2) = Len(t) - m
    BY <2>1, <2>3, <2>4
  <2> QED BY <2>3, <2>4, <2>5, <2>6
<1>3. /\ Len(s2) = Len(s) + m
      /\ \A i \in 1 .. Len(s) : s2[i] = s[i]
      /\ \A i \in 1 .. m : s2[Len(s) + i] = t[p + i]
  <2> HIDE DEF u
  <2>1. /\ Len(s \o u) = Len(s) + Len(u)
        /\ \A i \in 1 .. Len(s) + Len(u) :
             (s \o u)[i] = IF i <= Len(s) THEN s[i] ELSE u[i - Len(s)]
    BY <1>1, ConcatProperties
  <2>2. s2 = s \o u /\ Len(s) \in Nat
    OBVIOUS
  <2> HIDE DEF s2
  <2> QED BY <1>1, <2>1, <2>2
<1> HIDE DEF u, s2, t2
<1>4. ASSUME NEW i \in Len(s) + 1 .. Len(s2)
      PROVE  p + (i - Len(s)) \in p + 1 .. p + m /\ s2[i] = t[p + (i - Len(s))]
  <2>1. i - Len(s) \in 1 .. m /\ Len(s) + (i - Len(s)) = i
    BY <1>3
  <2>2. s2[Len(s) + (i - Len(s))] = t[p + (i - Len(s))]
    BY <1>3, <2>1
  <2> QED BY <2>1, <2>2
<1>5. ASSUME NEW i \in p + 1 .. p + m
      PROVE  Len(s) + (i - p) \in Len(s) + 1 .. Len(s2) /\ s2[Len(s) + (i - p)] = t[i]
  <2>1. i - p \in 1 .. m /\ p + (i - p) = i
    OBVIOUS
  <2>2. s2[Len(s) + (i - p)] = t[p + (i - p)]
    BY <1>3, <2>1
  <2> QED BY <1>3, <2>1, <2>2
<1>6. Entries(t, p + 1) = Moved(t, p, m) \cup Entries(t2, p + 1)
  <2>1. \A i \in p + m + 1 .. Len(t) : i - m \in p + 1 .. Len(t2) /\ t2[i - m] = t[i]
    BY <1>2
  <2>2. \A i \in p + 1 .. Len(t2) : m + i \in p + m + 1 .. Len(t) /\ t2[i] = t[m + i]
    BY <1>2
  <2>3. Entries(t2, p + 1) = {t[i] : i \in p + m + 1 .. Len(t)}
    <3>1. ASSUME NEW i \in p + m + 1 .. Len(t) PROVE t[i] \in Entries(t2, p + 1)
      BY <2>1 DEF Entries
    <3>2. ASSUME NEW i \in p + 1 .. Len(t2) PROVE t2[i] \in {t[j] : j \in p + m + 1 .. Len(t)}
      BY <2>2
    <3> QED BY <3>1, <3>2 DEF Entries
  <2>4. p + 1 .. Len(t) = (p + 1 .. p + m) \cup (p + m + 1 .. Len(t))
    OBVIOUS
  <2> QED BY <2>3, <2>4 DEF Entries, Moved
<1>7. Moved(t, p, m) \cap Entries(t2, p + 1) = {}
  <2> SUFFICES ASSUME NEW i \in p + 1 .. p + m, NEW j \in p + 1 .. Len(t2), t[i] = t2[j]
               PROVE  FALSE
    BY DEF Moved, Entries
  <2>1. m + j \in p + 1 .. Len(t) /\ m + j # i /\ t[m + j] = t[i] /\ i \in p + 1 .. Len(t)
    BY <1>2
  <2> QED BY <1>0, <2>1 DEF HasDuplicates
<1>8. Entries(s2, 1) = Entries(s, 1) \cup Moved(t, p, m)
  <2>3. {s2[i] : i \in Len(s) + 1 .. Len(s2)} = Moved(t, p, m)
    <3>1. ASSUME NEW i \in p + 1 .. p + m
          PROVE  t[i] \in {s2[j] : j \in Len(s) + 1 .. Len(s2)}
      BY <1>5
    <3>2. ASSUME NEW i \in Len(s) + 1 .. Len(s2) PROVE s2[i] \in Moved(t, p, m)
      BY <1>4 DEF Moved
    <3> QED BY <3>1, <3>2 DEF Moved
  <2>4. {s2[i] : i \in 1 .. Len(s)} = Entries(s, 1)
    BY <1>3 DEF Entries
  <2>5. 1 .. Len(s2) = (1 .. Len(s)) \cup (Len(s) + 1 .. Len(s2))
    BY <1>3
  <2> QED BY <2>3, <2>4, <2>5 DEF Entries
<1>9. ~HasDuplicates(t2, p + 1)
  <2> SUFFICES ASSUME NEW i \in p + 1 .. Len(t2), NEW j \in p + 1 .. Len(t2),
                      i # j, t2[i] = t2[j]
               PROVE  FALSE
    BY DEF HasDuplicates
  <2>1. m + i \in p + 1 .. Len(t) /\ m + j \in p + 1 .. Len(t) /\ m + i # m + j
        /\ t[m + i] = t[m + j]
    BY <1>2
  <2> QED BY <1>0, <2>1 DEF HasDuplicates
<1>10. ~HasDuplicates(s2, 1)
  <2> SUFFICES ASSUME NEW i \in 1 .. Len(s2), NEW j \in 1 .. Len(s2), i < j, s2[i] = s2[j]
               PROVE  FALSE
    BY DEF HasDuplicates
  <2>1. CASE j <= Len(s)
    <3>1. i \in 1 .. Len(s) /\ j \in 1 .. Len(s) /\ i # j /\ s[i] = s[j]
      BY <1>3, <2>1
    <3> QED BY <1>0, <3>1 DEF HasDuplicates
  <2>2. CASE i <= Len(s) /\ Len(s) < j
    <3>1. /\ i \in 1 .. Len(s) /\ s2[i] = s[i]
          /\ p + (j - Len(s)) \in p + 1 .. Len(t) /\ s2[j] = t[p + (j - Len(s))]
      BY <1>3, <1>4, <2>2
    <3>2. s2[i] \in Entries(s, 1) /\ s2[j] \in Entries(t, p + 1)
      BY <3>1 DEF Entries
    <3> QED BY <1>0, <3>2
  <2>3. CASE Len(s) < i
    <3>1. /\ p + (i - Len(s)) \in p + 1 .. Len(t) /\ s2[i] = t[p + (i - Len(s))]
          /\ p + (j - Len(s)) \in p + 1 .. Len(t) /\ s2[j] = t[p + (j - Len(s))]
          /\ p + (i - Len(s)) # p + (j - Len(s))
      <4>1. i \in Len(s) + 1 .. Len(s2) /\ j \in Len(s) + 1 .. Len(s2)
        BY <2>3
      <4>2. p + m <= Len(t) /\ p + (i - Len(s)) # p + (j - Len(s))
        BY <4>1
      <4> QED BY <1>4, <4>1, <4>2
    <3> QED BY <1>0, <3>1 DEF HasDuplicates
  <2> QED BY <1>3, <2>1, <2>2, <2>3
<1>11. s2 = Behind(s, t, p, m) /\ t2 = Rest(t, m)
  BY DEF u, s2, t2, Behind, Rest
<1> QED BY <1>6, <1>7, <1>8, <1>9, <1>10, <1>11 DEF MovesThem

(***************************************************************************)
(* Types, and the place of the batch in the receive ring.                  *)
(***************************************************************************)
Shape == TypeOK /\ BatchInRing

LEMMA SizesAreNat == FillSize \in Nat /\ CompSize \in Nat
BY SizesAssumption DEF FillSize, CompSize

LEMMA PeekIsBounded ==
  ASSUME NEW available \in Nat, NEW m \in Nat, NEW k \in Peek(available, m)
  PROVE  k \in Nat /\ k <= available /\ k <= m
BY DEF Peek

\* In the packet loop the current descriptor is an entry of the receive ring.
LEMMA DescInRing ==
  ASSUME Shape, pc = "run"
  PROVE  /\ todo \in Nat \ {0} /\ peeked \in Nat \ {0}
         /\ Processed \in Nat /\ Processed + 1 \in 1 .. Len(rx)
         /\ rx # << >> /\ Desc = rx[Processed + 1] /\ Desc \in Frames
<1>1. rx \in Seq(Frames) /\ todo \in Nat \ {0} /\ peeked \in Nat /\ todo <= peeked
      /\ peeked <= Len(rx)
  BY DEF Shape, TypeOK, BatchInRing
<1>2. Processed \in Nat /\ Processed + 1 \in 1 .. Len(rx)
  BY <1>1 DEF Processed
<1> QED BY <1>1, <1>2 DEF Processed, Desc

LEMMA ShapeInit == Init => Shape
<1> SUFFICES ASSUME Init PROVE Shape
  OBVIOUS
<1>1. fq \in Seq(Frames)
  <2>1. \A i \in 1 .. FillSize : FrameAt[i - 1] \in Frames
    <3>1. \A i \in 1 .. FillSize : i - 1 \in 0 .. FillSize - 1
      BY SizesAreNat
    <3> QED BY <3>1 DEF Frames
  <2>2. [i \in 1 .. FillSize |-> FrameAt[i - 1]] \in Seq(Frames)
    BY <2>1, SizesAreNat
  <2> QED BY <2>2 DEF Init, Populated
<1>2. << >> \in Seq(Frames) /\ {} \subseteq Frames
  OBVIOUS
<1>3. TypeOK
  BY <1>1, <1>2, ModesAssumption DEF Init, TypeOK, Locations
<1>4. BatchInRing
  BY DEF Init, BatchInRing
<1> QED BY <1>3, <1>4 DEF Shape

LEMMA ShapeStep == Shape /\ [Next]_vars => Shape'
<1> SUFFICES ASSUME Shape, [Next]_vars PROVE Shape'
  OBVIOUS
<1> USE DEF Locations, fillVars, wakeVars, recvVars, sendVars, nicVars
<1>1. CASE compile
  BY <1>1 DEF compile, Shape, TypeOK, BatchInRing
<1>2. CASE loop_head
  BY <1>2 DEF loop_head, Shape, TypeOK, BatchInRing
<1>3. CASE kick_tx
  BY <1>3 DEF kick_tx, Shape, TypeOK, BatchInRing
<1>4. CASE complete_tx
  <2>1. PICK rcvd \in Peek(Len(cq) - cqPeeked, CompletionBatch) : Recycle(rcvd) \/ Abandon(rcvd)
    BY <1>4 DEF complete_tx
  <2>2. rcvd \in Nat /\ cqPeeked + rcvd <= Len(cq) /\ rcvd <= outstanding_tx
    BY <2>1, PeekIsBounded, SizesAssumption DEF Shape, TypeOK, BatchInRing, CompletionBatch
  <2>3. CASE Recycle(rcvd)
    <3>1. /\ SubSeq(cq, cqPeeked + 1, cqPeeked + rcvd) \in Seq(Frames)
          /\ SubSeq(cq, rcvd + 1, Len(cq)) \in Seq(Frames)
          /\ Len(SubSeq(cq, rcvd + 1, Len(cq))) = Len(cq) - rcvd
      BY <2>2, SubSeqProperties DEF Shape, TypeOK, BatchInRing
    <3>2. fq' \in Seq(Frames)
      BY <2>3, <3>1 DEF Recycle, Shape, TypeOK
    <3>3. TypeOK'
      BY <1>4, <2>2, <2>3, <3>1, <3>2 DEF complete_tx, Recycle, Shape, TypeOK
    <3>4. BatchInRing'
      BY <1>4, <2>2, <2>3, <3>1 DEF complete_tx, Recycle, Shape, TypeOK, BatchInRing
    <3> QED BY <3>3, <3>4 DEF Shape
  <2>4. CASE Abandon(rcvd)
    BY <1>4, <2>2, <2>4 DEF complete_tx, Abandon, Shape, TypeOK, BatchInRing
  <2> QED BY <2>1, <2>3, <2>4
<1>5. CASE poll_rx_queue
  <2>1. PICK rcvd \in Peek(Len(rx) - peeked, BatchSize) :
          \/ rcvd = 0 /\ WakeRx /\ pc' = "top" /\ UNCHANGED <<peeked, todo>>
          \/ rcvd > 0 /\ peeked' = peeked + rcvd /\ todo' = rcvd /\ pc' = "run"
             /\ UNCHANGED wakeVars
    BY <1>5 DEF poll_rx_queue
  <2>2. rcvd \in Nat /\ peeked + rcvd <= Len(rx)
    BY <2>1, PeekIsBounded, SizesAssumption DEF Shape, TypeOK, BatchInRing
  <2>3. TypeOK'
    <3>1. fqWakeup' \in BOOLEAN /\ txWakeup' \in BOOLEAN
      BY <2>1 DEF WakeRx, DriverPolled, Shape, TypeOK
    <3> QED BY <1>5, <2>1, <2>2, <3>1 DEF poll_rx_queue, Shape, TypeOK
  <2>4. BatchInRing'
    BY <1>5, <2>1, <2>2 DEF poll_rx_queue, Shape, TypeOK, BatchInRing
  <2> QED BY <2>3, <2>4 DEF Shape
<1>6. ASSUME NEW action \in Verdicts, apply_action(action) PROVE Shape'
  <2>1. Shape /\ pc = "run"
    BY <1>6 DEF apply_action
  <2>2. /\ Tail(rx) \in Seq(Frames) /\ Len(Tail(rx)) = Len(rx) - 1
        /\ Append(tx, Desc) \in Seq(Frames) /\ Append(fq, Desc) \in Seq(Frames)
    BY <2>1, DescInRing, HeadTailProperties DEF Shape, TypeOK
  <2>3. CASE send_desc
    BY <1>6, <2>2, <2>3, <2>1, DescInRing
       DEF apply_action, send_desc, ReleaseRx, Shape, TypeOK, BatchInRing
  <2>4. CASE drop
    <3>1. peeked \in Nat \ {0}
      BY <2>1, DescInRing
    <3>2. fq' \in Seq(Frames)
      BY <2>2, <2>4 DEF drop, Shape, TypeOK
    <3>3. rx' \in Seq(Frames)
      BY <2>2, <2>4 DEF drop, ReleaseRx, Shape, TypeOK
    <3>4. peeked' \in Nat
      BY <3>1, <2>4 DEF drop, ReleaseRx
    <3>5. TypeOK'
      BY <1>6, <2>4, <2>1, <3>2, <3>3, <3>4, DescInRing DEF apply_action, drop, Shape, TypeOK
    <3>6. BatchInRing'
      BY <1>6, <2>2, <2>4, <2>1, DescInRing
         DEF apply_action, drop, ReleaseRx, Shape, TypeOK, BatchInRing
    <3> QED BY <3>5, <3>6 DEF Shape
  <2> QED BY <1>6, <2>3, <2>4 DEF apply_action
<1>7. CASE KernelFill
  BY <1>7, HeadTailProperties DEF KernelFill, Shape, TypeOK, BatchInRing
<1>8. CASE KernelLook
  BY <1>8 DEF KernelLook, Shape, TypeOK, BatchInRing
<1>9. CASE KernelSleepTx
  BY <1>9 DEF KernelSleepTx, Shape, TypeOK, BatchInRing
<1>10. CASE KernelXmit
  BY <1>10, HeadTailProperties DEF KernelXmit, Shape, TypeOK, BatchInRing
<1>11. ASSUME NEW f \in Frames, KernelReceive(f) PROVE Shape'
  <2>1. rx' \in Seq(Frames) /\ Len(rx') = Len(rx) + 1
    BY <1>11 DEF KernelReceive, Shape, TypeOK
  <2>2. TypeOK'
    BY <1>11, <2>1 DEF KernelReceive, Shape, TypeOK
  <2>3. BatchInRing'
    BY <1>11, <2>1 DEF KernelReceive, Shape, TypeOK, BatchInRing
  <2> QED BY <2>2, <2>3 DEF Shape
<1>12. ASSUME NEW f \in Frames, KernelComplete(f) PROVE Shape'
  BY <1>12 DEF KernelComplete, Shape, TypeOK, BatchInRing
<1>13. CASE int_handler
  BY <1>13 DEF int_handler, Shape, TypeOK, BatchInRing
<1>14. CASE UNCHANGED vars
  BY <1>14 DEF vars, Shape, TypeOK, BatchInRing
<1> QED BY <1>1, <1>2, <1>3, <1>4, <1>5, <1>6, <1>7, <1>8, <1>9, <1>10, <1>11, <1>12,
           <1>13, <1>14 DEF Next, Pump, Kernel, Finished

(***************************************************************************)
(* In every reachable state the variables have their types, and the        *)
(* packets still to do are peeked entries of the receive ring.             *)
(***************************************************************************)
THEOREM ShapeIsInvariant == Spec => [](TypeOK /\ BatchInRing)
<1>1. Init => Shape
  BY ShapeInit
<1>2. Shape /\ [Next]_vars => Shape'
  BY ShapeStep
<1>3. Shape <=> TypeOK /\ BatchInRing
  BY DEF Shape
<1> QED BY <1>1, <1>2, <1>3, PTL DEF Spec

(***************************************************************************)
(* One holder per frame.                                                   *)
(***************************************************************************)
\* Nothing happens to the holders if no ring and no NIC queue changes.
LEMMA SameHolders ==
  ASSUME NoDoubleOwner, UNCHANGED <<fq, nicRx, rx, tx, nicTx, cq, cqPeeked>>,
         Processed' = Processed
  PROVE  NoDoubleOwner'
<1>1. Filling' = Filling
  BY DEF Filling
<1>2. Received' = Received /\ (HasDuplicates(rx, Processed + 1)' <=> HasDuplicates(rx, Processed + 1))
  BY DEF Received, HasDuplicates, Entries
<1>3. Sending' = Sending
  BY DEF Sending
<1> QED BY <1>1, <1>2, <1>3 DEF NoDoubleOwner

\* The current packet, and those after it.
LEMMA ReceivedFirst ==
  ASSUME Shape, pc = "run"
  PROVE  /\ Received = {Desc} \cup Entries(rx, Processed + 2)
         /\ ~HasDuplicates(rx, Processed + 1) =>
              ~HasDuplicates(rx, Processed + 2) /\ Desc \notin Entries(rx, Processed + 2)
<1>1. Processed \in Nat /\ Processed + 1 \in 1 .. Len(rx) /\ Desc = rx[Processed + 1]
      /\ rx \in Seq(Frames) /\ (Processed + 1) + 1 = Processed + 2
  BY DescInRing DEF Shape, TypeOK
<1> QED BY <1>1, FirstEntry DEF Received

\* Handling the current packet takes it out of the received ones, whether its
\* slot, an older one or none is released.
LEMMA ReceivedNext ==
  ASSUME Shape, pc = "run", todo' = todo - 1,
         ReleaseRx \/ UNCHANGED <<rx, peeked>>
  PROVE  /\ Received' = Entries(rx, Processed + 2)
         /\ HasDuplicates(rx', Processed' + 1) <=> HasDuplicates(rx, Processed + 2)
<1>1. /\ Processed \in Nat /\ rx # << >> /\ rx \in Seq(Frames)
      /\ todo \in Nat /\ peeked \in Nat
  BY DescInRing DEF Shape, TypeOK
<1>2. CASE ReleaseRx
  <2>1. Processed' = Processed /\ rx' = Tail(rx)
    BY <1>1, <1>2 DEF ReleaseRx, Processed
  <2>2. Processed + 1 \in Nat \ {0} /\ (Processed + 1) + 1 = Processed + 2
    BY <1>1
  <2>3. /\ Entries(Tail(rx), Processed + 1) = Entries(rx, Processed + 2)
        /\ HasDuplicates(Tail(rx), Processed + 1) <=> HasDuplicates(rx, Processed + 2)
    BY <1>1, <2>2, TailEntries
  <2>4. Received' = Entries(Tail(rx), Processed + 1)
    BY <2>1 DEF Received
  <2> QED BY <2>1, <2>3, <2>4
<1>3. CASE UNCHANGED <<rx, peeked>>
  <2>1. Processed' = Processed + 1
    BY <1>1, <1>3 DEF Processed
  <2>2. Processed' + 1 = Processed + 2
    BY <1>1, <2>1
  <2> QED BY <1>3, <2>2 DEF Received, Entries, HasDuplicates
<1> QED BY <1>2, <1>3

LEMMA NoDoubleOwnerInit == Init => NoDoubleOwner
<1> SUFFICES ASSUME Init PROVE NoDoubleOwner
  OBVIOUS
<1>1. Received = {} /\ Sending = {} /\ nicRx = {} /\ nicTx = {}
      /\ Entries(tx, 1) = {} /\ Entries(cq, cqPeeked + 1) = {}
  BY DEF Init, Received, Sending, Entries, Processed
<1>2. ~HasDuplicates(fq, 1)
  <2> SUFFICES ASSUME NEW i \in 1 .. FillSize, NEW j \in 1 .. FillSize, i # j
               PROVE  FrameAt[i - 1] # FrameAt[j - 1]
    BY SizesAreNat DEF Init, Populated, HasDuplicates
  <2>1. i - 1 \in DOMAIN FrameAt /\ j - 1 \in DOMAIN FrameAt /\ i - 1 # j - 1
    BY SizesAreNat, FramesAssumption
  <2> QED BY <2>1, FramesAssumption
<1>3. ~HasDuplicates(rx, Processed + 1) /\ ~HasDuplicates(tx, 1)
      /\ ~HasDuplicates(cq, cqPeeked + 1)
  BY DEF Init, HasDuplicates, Processed
<1> QED BY <1>1, <1>2, <1>3 DEF NoDoubleOwner

LEMMA NoDoubleOwnerStep == Shape /\ NoDoubleOwner /\ [Next]_vars => NoDoubleOwner'
<1> SUFFICES ASSUME Shape, NoDoubleOwner, [Next]_vars PROVE NoDoubleOwner'
  OBVIOUS
<1> USE DEF fillVars, wakeVars, recvVars, sendVars, nicVars
<1> DEFINE Q == Entries(fq, 1)
           T == Entries(tx, 1)
           C == Entries(cq, cqPeeked + 1)
           Later == Entries(rx, Processed + 2)
<1>0. /\ fq \in Seq(Frames) /\ rx \in Seq(Frames) /\ tx \in Seq(Frames) /\ cq \in Seq(Frames)
      /\ peeked \in Nat /\ todo \in Nat /\ cqPeeked \in Nat /\ cqPeeked <= Len(cq)
      /\ Processed \in Nat /\ Processed <= Len(rx)
  BY DEF Shape, TypeOK, BatchInRing, Processed
<1>1. CASE compile
  BY <1>1, SameHolders DEF compile, Processed
<1>2. CASE loop_head
  BY <1>2, SameHolders DEF loop_head, Processed
<1>3. CASE kick_tx
  BY <1>3, SameHolders DEF kick_tx, Processed
<1>4. CASE complete_tx
  <2>1. PICK rcvd \in Peek(Len(cq) - cqPeeked, CompletionBatch) : Recycle(rcvd) \/ Abandon(rcvd)
    BY <1>4 DEF complete_tx
  <2>2. rcvd \in Nat /\ cqPeeked + rcvd <= Len(cq)
    BY <2>1, PeekIsBounded, SizesAssumption DEF Shape, TypeOK, BatchInRing, CompletionBatch
  <2>3. Received' = Received /\ (HasDuplicates(rx, Processed + 1)' <=> HasDuplicates(rx, Processed + 1))
        /\ UNCHANGED <<tx, nicRx, nicTx>>
    BY <1>4 DEF complete_tx, Received, HasDuplicates, Entries, Processed
  <2>4. CASE Recycle(rcvd)
    <3> DEFINE M == Moved(cq, cqPeeked, rcvd)
               D == Entries(Rest(cq, rcvd), cqPeeked + 1)
    <3>1. ~HasDuplicates(fq, 1) /\ ~HasDuplicates(cq, cqPeeked + 1) /\ Q \cap C = {}
      BY DEF NoDoubleOwner, Filling, Sending
    <3>2. /\ C = M \cup D /\ M \cap D = {}
          /\ Entries(fq', 1) = Q \cup M /\ Entries(cq', cqPeeked' + 1) = D
          /\ ~HasDuplicates(fq', 1) /\ ~HasDuplicates(cq', cqPeeked' + 1)
      <4>1. fq' = Behind(fq, cq, cqPeeked, rcvd) /\ cq' = Rest(cq, rcvd) /\ cqPeeked' = cqPeeked
        BY <2>4 DEF Recycle, Behind, Rest
      <4>2. /\ C = M \cup D /\ M \cap D = {}
            /\ Entries(Behind(fq, cq, cqPeeked, rcvd), 1) = Q \cup M
            /\ ~HasDuplicates(Behind(fq, cq, cqPeeked, rcvd), 1)
            /\ ~HasDuplicates(Rest(cq, rcvd), cqPeeked + 1)
        <5>1. fq \in Seq(Frames) /\ cq \in Seq(Frames) /\ cqPeeked \in Nat /\ rcvd \in Nat
              /\ cqPeeked + rcvd <= Len(cq)
          BY <1>0, <2>2
        <5>2. Distinct(fq, cq, cqPeeked)
          BY <3>1 DEF Distinct
        <5>3. MovesThem(fq, cq, cqPeeked, rcvd)
          BY <5>1, <5>2, MoveEntries
        <5> QED BY <5>3 DEF MovesThem
      <4> QED BY <4>1, <4>2
    <3>3. Filling' = Filling \cup M /\ Sending' = T \cup nicTx \cup D
      BY <2>3, <3>2 DEF Filling, Sending
    <3> HIDE DEF M, D
    <3> QED BY <2>3, <3>2, <3>3 DEF NoDoubleOwner, Filling, Sending
  <2>5. CASE Abandon(rcvd)
    <3>1. /\ UNCHANGED <<fq, cq>> /\ cqPeeked' = cqPeeked + rcvd
      BY <2>5 DEF Abandon
    <3>2. Entries(cq', cqPeeked' + 1) \subseteq C
          /\ (HasDuplicates(cq', cqPeeked' + 1) => HasDuplicates(cq, cqPeeked + 1))
      BY <1>0, <2>2, <3>1 DEF Entries, HasDuplicates
    <3>3. Filling' = Filling /\ Sending' = T \cup nicTx \cup Entries(cq', cqPeeked' + 1)
      BY <2>3, <3>1 DEF Filling, Sending
    <3> QED BY <2>3, <3>1, <3>2, <3>3 DEF NoDoubleOwner, Filling, Sending
  <2> QED BY <2>1, <2>4, <2>5
<1>5. CASE poll_rx_queue
  <2>1. todo = 0 /\ Processed' = Processed
    BY <1>0, <1>5, PeekIsBounded, SizesAssumption
       DEF poll_rx_queue, Shape, TypeOK, BatchInRing, Processed
  <2> QED BY <1>5, <2>1, SameHolders DEF poll_rx_queue
<1>6. ASSUME NEW action \in Verdicts, apply_action(action) PROVE NoDoubleOwner'
  <2>1. pc = "run" /\ todo' = todo - 1 /\ UNCHANGED <<nicRx, nicTx, cq, cqPeeked>>
    BY <1>6 DEF apply_action
  <2>2. /\ Received = {Desc} \cup Later /\ Desc \notin Later /\ ~HasDuplicates(rx, Processed + 2)
        /\ Desc \in Frames
    BY <2>1, ReceivedFirst, DescInRing DEF NoDoubleOwner
  <2>3. Received' = Later /\ ~HasDuplicates(rx', Processed' + 1)
    BY <1>6, <2>1, <2>2, ReceivedNext DEF apply_action, send_desc, drop
  <2>4. Desc \notin Q /\ Desc \notin T
    BY <2>2 DEF NoDoubleOwner, Filling, Sending
  <2>5. CASE send_desc
    <3>1. tx' = Append(tx, Desc) /\ fq' = fq
      BY <2>5 DEF send_desc
    <3>2. Entries(tx', 1) = T \cup {Desc} /\ ~HasDuplicates(tx', 1)
      BY <1>0, <2>2, <2>4, <3>1, AppendEntries DEF NoDoubleOwner
    <3>3. Filling' = Filling /\ Sending' = Sending \cup {Desc}
      BY <2>1, <3>1, <3>2 DEF Filling, Sending
    <3> HIDE DEF Later
    <3> QED BY <2>1, <2>2, <2>3, <3>1, <3>2, <3>3 DEF NoDoubleOwner, Filling, Sending
  <2>6. CASE fq' = Append(fq, Desc) /\ tx' = tx
    <3>1. Entries(fq', 1) = Q \cup {Desc} /\ ~HasDuplicates(fq', 1)
      BY <1>0, <2>2, <2>4, <2>6, AppendEntries DEF NoDoubleOwner
    <3>2. Filling' = Filling \cup {Desc} /\ Sending' = Sending
      BY <2>1, <2>6, <3>1 DEF Filling, Sending
    <3> HIDE DEF Later
    <3> QED BY <2>1, <2>2, <2>3, <2>6, <3>1, <3>2 DEF NoDoubleOwner, Filling, Sending
  <2>7. CASE fq' = fq /\ tx' = tx
    <3>1. Filling' = Filling /\ Sending' = Sending
      BY <2>1, <2>7 DEF Filling, Sending
    <3> HIDE DEF Later
    <3> QED BY <2>1, <2>2, <2>3, <2>7, <3>1 DEF NoDoubleOwner, Filling, Sending
  <2> QED BY <1>6, <2>5, <2>6, <2>7 DEF apply_action, drop
<1>7. CASE KernelFill
  <2>1. /\ fq # << >> /\ fq' = Tail(fq) /\ nicRx' = nicRx \cup {fq[1]}
        /\ UNCHANGED <<rx, peeked, todo, tx, nicTx, cq, cqPeeked>>
    BY <1>7 DEF KernelFill
  <2>2. /\ Q = {fq[1]} \cup Entries(fq, 2) /\ fq[1] \notin Entries(fq, 2)
        /\ Entries(fq', 1) = Entries(fq, 2) /\ ~HasDuplicates(fq', 1)
    <3>1. 1 \in 1 .. Len(fq) /\ 1 \in Nat \ {0} /\ 1 + 1 = 2 /\ ~HasDuplicates(fq, 1)
      BY <1>0, <2>1, EmptySeq DEF NoDoubleOwner
    <3>2. Entries(fq', 1) = Entries(fq, 2) /\ (HasDuplicates(fq', 1) <=> HasDuplicates(fq, 2))
      BY <1>0, <2>1, <3>1, TailEntries
    <3> QED BY <1>0, <3>1, <3>2, FirstEntry
  <2>3. Filling' = Filling /\ Received' = Received /\ Sending' = Sending
        /\ (HasDuplicates(rx, Processed + 1)' <=> HasDuplicates(rx, Processed + 1))
    BY <2>1, <2>2 DEF Filling, Received, Sending, Processed, HasDuplicates, Entries
  <2> QED BY <2>1, <2>2, <2>3 DEF NoDoubleOwner
<1>8. CASE KernelLook
  BY <1>8, SameHolders DEF KernelLook, Processed
<1>9. CASE KernelSleepTx
  BY <1>9, SameHolders DEF KernelSleepTx, Processed
<1>10. CASE KernelXmit
  <2>1. /\ tx # << >> /\ tx' = Tail(tx) /\ nicTx' = nicTx \cup {tx[1]}
        /\ UNCHANGED <<fq, nicRx, rx, peeked, todo, cq, cqPeeked>>
    BY <1>10 DEF KernelXmit
  <2>2. /\ T = {tx[1]} \cup Entries(tx, 2) /\ tx[1] \notin Entries(tx, 2)
        /\ Entries(tx', 1) = Entries(tx, 2) /\ ~HasDuplicates(tx', 1)
    <3>1. 1 \in 1 .. Len(tx) /\ 1 \in Nat \ {0} /\ 1 + 1 = 2 /\ ~HasDuplicates(tx, 1)
      BY <1>0, <2>1, EmptySeq DEF NoDoubleOwner
    <3>2. Entries(tx', 1) = Entries(tx, 2) /\ (HasDuplicates(tx', 1) <=> HasDuplicates(tx, 2))
      BY <1>0, <2>1, <3>1, TailEntries
    <3> QED BY <1>0, <3>1, <3>2, FirstEntry
  <2>3. Filling' = Filling /\ Received' = Received /\ Sending' = Sending
        /\ (HasDuplicates(rx, Processed + 1)' <=> HasDuplicates(rx, Processed + 1))
    BY <2>1, <2>2 DEF Filling, Received, Sending, Processed, HasDuplicates, Entries
  <2> QED BY <2>1, <2>2, <2>3 DEF NoDoubleOwner
<1>11. ASSUME NEW f \in Frames, KernelReceive(f) PROVE NoDoubleOwner'
  <2>1. /\ f \in nicRx /\ nicRx' = nicRx \ {f} /\ rx' = Append(rx, f) /\ Processed' = Processed
        /\ UNCHANGED <<fq, tx, nicTx, cq, cqPeeked>>
    BY <1>11 DEF KernelReceive, Processed
  <2>2. f \notin Received /\ f \notin Q
    BY <2>1 DEF NoDoubleOwner, Filling
  <2>3. Processed + 1 \in Nat \ {0} /\ Processed + 1 <= Len(rx) + 1
    BY <1>0
  <2>4. Received' = Received \cup {f} /\ ~HasDuplicates(rx', Processed' + 1)
    <3>1. ~HasDuplicates(rx, Processed + 1) /\ f \notin Entries(rx, Processed + 1)
      BY <2>2 DEF NoDoubleOwner, Received
    <3>2. Entries(Append(rx, f), Processed + 1) = Entries(rx, Processed + 1) \cup {f}
      BY <1>0, <2>3, AppendEntries
    <3>3. ~HasDuplicates(Append(rx, f), Processed + 1)
      BY <1>0, <2>3, <3>1, AppendEntries
    <3>4. Received' = Entries(rx', Processed' + 1)
      BY DEF Received
    <3> QED BY <2>1, <3>2, <3>3, <3>4 DEF Received
  <2>5. Filling' = Filling \ {f} /\ Sending' = Sending
    BY <2>1, <2>2 DEF Filling, Sending
  <2> QED BY <2>1, <2>2, <2>4, <2>5 DEF NoDoubleOwner, Filling
<1>12. ASSUME NEW f \in Frames, KernelComplete(f) PROVE NoDoubleOwner'
  <2>1. /\ f \in nicTx /\ nicTx' = nicTx \ {f} /\ cq' = Append(cq, f) /\ Processed' = Processed
        /\ UNCHANGED <<fq, nicRx, rx, tx, cqPeeked>>
    BY <1>12 DEF KernelComplete, Processed
  <2>2. f \notin C /\ f \notin T
    BY <2>1 DEF NoDoubleOwner
  <2>3. Entries(cq', cqPeeked' + 1) = C \cup {f} /\ ~HasDuplicates(cq', cqPeeked' + 1)
    BY <1>0, <2>1, <2>2, AppendEntries DEF NoDoubleOwner
  <2>4. Filling' = Filling /\ Received' = Received
        /\ (HasDuplicates(rx, Processed + 1)' <=> HasDuplicates(rx, Processed + 1))
    BY <2>1 DEF Filling, Received, Entries, HasDuplicates
  <2>5. Sending' = Sending
    <3> HIDE DEF C
    <3>1. Sending' = T \cup (nicTx \ {f}) \cup (C \cup {f})
      BY <2>1, <2>3 DEF Sending
    <3> QED BY <2>1, <3>1 DEF Sending, C
  <2> QED BY <2>1, <2>2, <2>3, <2>4, <2>5 DEF NoDoubleOwner
<1>13. CASE int_handler
  BY <1>13, SameHolders DEF int_handler, Processed
<1>14. CASE UNCHANGED vars
  BY <1>14, SameHolders DEF vars, Processed
<1> QED BY <1>1, <1>2, <1>3, <1>4, <1>5, <1>6, <1>7, <1>8, <1>9, <1>10, <1>11, <1>12,
           <1>13, <1>14 DEF Next, Pump, Kernel, Finished

(***************************************************************************)
(* A frame never has two holders, and is never twice in a ring, whatever   *)
(* the sizes, the modes and the kernel's timing.                           *)
(***************************************************************************)
THEOREM NoDoubleOwnerIsInvariant == Spec => []NoDoubleOwner
<1>1. Init => Shape /\ NoDoubleOwner
  BY ShapeInit, NoDoubleOwnerInit
<1>2. Shape /\ NoDoubleOwner /\ [Next]_vars => (Shape /\ NoDoubleOwner)'
  BY ShapeStep, NoDoubleOwnerStep
<1> QED BY <1>1, <1>2, PTL DEF Spec

(***************************************************************************)
(* Numbers: how many frames and entries there are where.                   *)
(***************************************************************************)
\* Moving one frame into or out of a set of frames.
LEMMA CountFrames ==
  ASSUME NEW S \in SUBSET Frames, NEW f \in Frames
  PROVE  /\ Cardinality(S) \in Nat
         /\ f \notin S => Cardinality(S \cup {f}) = Cardinality(S) + 1
         /\ f \in S => Cardinality(S \ {f}) = Cardinality(S) - 1
<1>1. IsFiniteSet(Frames)
  <2> DEFINE at == [i \in 0 .. FillSize - 1 |-> FrameAt[i]]
  <2>1. IsFiniteSet(0 .. FillSize - 1)
    BY SizesAreNat, FS_Interval
  <2>2. at \in Surjection(0 .. FillSize - 1, Frames)
    BY DEF Surjection, Frames
  <2> QED BY <2>1, <2>2, FS_Surjection
<1>2. IsFiniteSet(S)
  BY <1>1, FS_Subset
<1>3. Cardinality(S) \in Nat
  BY <1>2, FS_CardinalityType
<1>4. f \notin S => Cardinality(S \cup {f}) = Cardinality(S) + 1
  BY <1>2, FS_AddElement
<1>5. f \in S => Cardinality(S \ {f}) = Cardinality(S) - 1
  BY <1>2, FS_RemoveElement
<1> QED BY <1>3, <1>4, <1>5

\* The NIC's queues are finite, and there is at least one frame to speak of.
LEMMA NicCounts ==
  ASSUME TypeOK
  PROVE  Cardinality(nicRx) \in Nat /\ Cardinality(nicTx) \in Nat
<1>1. FrameAt[0] \in Frames
  BY SizesAssumption DEF Frames, FillSize
<1> QED BY <1>1, CountFrames DEF TypeOK

LEMMA NoCounts == Cardinality({}) = 0
BY FS_EmptySet

\* A frame the kernel takes from a ring is not yet in the NIC's queue.
LEMMA TakenFromFill ==
  ASSUME Shape, NoDoubleOwner, KernelFill
  PROVE  /\ Len(fq') = Len(fq) - 1 /\ Len(fq) \in Nat \ {0}
         /\ Cardinality(nicRx') = Cardinality(nicRx) + 1
<1>1. fq \in Seq(Frames) /\ fq # << >> /\ Head(fq) \in Frames /\ nicRx \in SUBSET Frames
  BY HeadTailProperties DEF KernelFill, Shape, TypeOK
<1>2. Len(Tail(fq)) = Len(fq) - 1 /\ Len(fq) \in Nat \ {0}
  BY <1>1, HeadTailProperties, EmptySeq
<1>3. Head(fq) \in Entries(fq, 1)
  BY <1>1, <1>2 DEF Entries
<1>4. Head(fq) \notin nicRx
  BY <1>3 DEF NoDoubleOwner
<1>5. Cardinality(nicRx \cup {Head(fq)}) = Cardinality(nicRx) + 1
  BY <1>1, <1>4, CountFrames
<1> QED BY <1>2, <1>5 DEF KernelFill

LEMMA TakenFromTx ==
  ASSUME Shape, NoDoubleOwner, KernelXmit
  PROVE  /\ Len(tx') = Len(tx) - 1 /\ Len(tx) \in Nat \ {0}
         /\ Cardinality(nicTx') = Cardinality(nicTx) + 1
<1>1. tx \in Seq(Frames) /\ tx # << >> /\ Head(tx) \in Frames /\ nicTx \in SUBSET Frames
  BY HeadTailProperties DEF KernelXmit, Shape, TypeOK
<1>2. Len(Tail(tx)) = Len(tx) - 1 /\ Len(tx) \in Nat \ {0}
  BY <1>1, HeadTailProperties, EmptySeq
<1>3. Head(tx) \in Entries(tx, 1)
  BY <1>1, <1>2 DEF Entries
<1>4. Head(tx) \notin nicTx
  BY <1>3 DEF NoDoubleOwner
<1>5. Cardinality(nicTx \cup {Head(tx)}) = Cardinality(nicTx) + 1
  BY <1>1, <1>4, CountFrames
<1> QED BY <1>2, <1>5 DEF KernelXmit

\* What a recycled batch does to the lengths of the two rings.
LEMMA RecycleLengths ==
  ASSUME Shape, NEW rcvd \in Peek(Len(cq) - cqPeeked, CompletionBatch)
  PROVE  /\ rcvd \in Nat /\ rcvd <= outstanding_tx /\ cqPeeked + rcvd <= Len(cq)
         /\ Recycle(rcvd) => Len(fq') = Len(fq) + rcvd /\ Len(cq') = Len(cq) - rcvd
<1>1. fq \in Seq(Frames) /\ cq \in Seq(Frames) /\ cqPeeked \in Nat /\ cqPeeked <= Len(cq)
      /\ outstanding_tx \in Nat
  BY DEF Shape, TypeOK, BatchInRing
<1>2. rcvd \in Nat /\ rcvd <= outstanding_tx /\ cqPeeked + rcvd <= Len(cq)
  BY <1>1, PeekIsBounded, SizesAssumption DEF CompletionBatch
<1>3. /\ SubSeq(cq, cqPeeked + 1, cqPeeked + rcvd) \in Seq(Frames)
      /\ Len(SubSeq(cq, cqPeeked + 1, cqPeeked + rcvd)) = rcvd
      /\ Len(SubSeq(cq, rcvd + 1, Len(cq))) = Len(cq) - rcvd
  BY <1>1, <1>2, SubSeqProperties
<1>4. Len(fq \o SubSeq(cq, cqPeeked + 1, cqPeeked + rcvd)) = Len(fq) + rcvd
  BY <1>1, <1>3, ConcatProperties
<1> QED BY <1>2, <1>3, <1>4 DEF Recycle

\* Releasing the slot of a handled packet makes the receive ring one shorter.
LEMMA ReleaseLength ==
  ASSUME Shape, pc = "run"
  PROVE  /\ Len(Tail(rx)) = Len(rx) - 1 /\ Len(rx) \in Nat \ {0}
         /\ Len(Append(tx, Desc)) = Len(tx) + 1 /\ Len(Append(fq, Desc)) = Len(fq) + 1
<1>1. rx # << >> /\ Desc \in Frames /\ rx \in Seq(Frames) /\ tx \in Seq(Frames)
      /\ fq \in Seq(Frames)
  BY DescInRing DEF Shape, TypeOK
<1>2. Len(Tail(rx)) = Len(rx) - 1 /\ Len(rx) \in Nat \ {0}
  BY <1>1, HeadTailProperties, EmptySeq
<1> QED BY <1>1, <1>2

(***************************************************************************)
(* outstanding_tx.                                                         *)
(***************************************************************************)
LEMMA OutstandingInit == Init => OutstandingExact
BY NoCounts DEF Init, OutstandingExact

\* The frames it is about.
OnTheWay == Len(tx) + Cardinality(nicTx) + Len(cq)

LEMMA OnTheWayIsNat == (Shape => OnTheWay \in Nat) /\ (Shape => OnTheWay \in Nat)'
<1>1. Shape => OnTheWay \in Nat
  <2>1. Shape => Len(tx) \in Nat /\ Len(cq) \in Nat /\ Cardinality(nicTx) \in Nat
    BY NicCounts DEF Shape, TypeOK
  <2> QED BY <2>1 DEF OnTheWay
<1>2. (Shape => OnTheWay \in Nat)'
  BY <1>1, PTL
<1> QED BY <1>1, <1>2

\* A step changes both by the same number.
LEMMA ExcessStays ==
  ASSUME Shape, NoDoubleOwner, [Next]_vars
  PROVE  outstanding_tx' - OnTheWay' = outstanding_tx - OnTheWay
<1> USE DEF fillVars, wakeVars, recvVars, sendVars, nicVars
<1> DEFINE Same == outstanding_tx' - OnTheWay' = outstanding_tx - OnTheWay
<1>0. /\ Len(tx) \in Nat /\ Len(cq) \in Nat /\ Cardinality(nicTx) \in Nat
      /\ outstanding_tx \in Nat /\ nicTx \in SUBSET Frames /\ cq \in Seq(Frames)
  BY NicCounts DEF Shape, TypeOK
<1>1. UNCHANGED sendVars => Same
  BY DEF OnTheWay
<1>2. CASE complete_tx
  <2>1. PICK rcvd \in Peek(Len(cq) - cqPeeked, CompletionBatch) : Recycle(rcvd) \/ Abandon(rcvd)
    BY <1>2 DEF complete_tx
  <2>2. UNCHANGED <<tx, nicTx>>
    BY <1>2 DEF complete_tx
  <2>3. CASE Recycle(rcvd)
    <3>1. rcvd \in Nat /\ Len(cq') = Len(cq) - rcvd /\ outstanding_tx' = outstanding_tx - rcvd
      BY <2>1, <2>3, RecycleLengths DEF Recycle
    <3> QED BY <1>0, <2>2, <3>1 DEF OnTheWay
  <2>4. CASE Abandon(rcvd)
    BY <2>2, <2>4 DEF Abandon, OnTheWay
  <2> QED BY <2>1, <2>3, <2>4
<1>3. ASSUME NEW action \in Verdicts, apply_action(action) PROVE Same
  <2>1. pc = "run" /\ UNCHANGED <<nicTx, cq>>
    BY <1>3 DEF apply_action
  <2>2. CASE send_desc
    <3>1. Len(tx') = Len(tx) + 1 /\ outstanding_tx' = outstanding_tx + 1
      BY <2>1, <2>2, ReleaseLength DEF send_desc
    <3> QED BY <1>0, <2>1, <3>1 DEF OnTheWay
  <2>3. CASE drop
    BY <2>1, <2>3 DEF drop, OnTheWay
  <2> QED BY <1>3, <2>2, <2>3 DEF apply_action
<1>4. CASE KernelXmit
  <2>1. /\ Len(tx') = Len(tx) - 1 /\ Cardinality(nicTx') = Cardinality(nicTx) + 1
        /\ UNCHANGED <<cq, outstanding_tx>>
    BY <1>4, TakenFromTx DEF KernelXmit
  <2> QED BY <1>0, <2>1, TakenFromTx, <1>4 DEF OnTheWay
<1>5. ASSUME NEW f \in Frames, KernelComplete(f) PROVE Same
  <2>1. Cardinality(nicTx') = Cardinality(nicTx) - 1
    BY <1>0, <1>5, CountFrames DEF KernelComplete
  <2>2. Len(cq') = Len(cq) + 1 /\ UNCHANGED <<tx, outstanding_tx>>
    BY <1>0, <1>5 DEF KernelComplete
  <2> QED BY <1>0, <2>1, <2>2 DEF OnTheWay
<1>6. ASSUME NEW f \in Frames, KernelReceive(f) PROVE Same
  BY <1>1, <1>6 DEF KernelReceive
<1>7. compile \/ loop_head \/ kick_tx \/ poll_rx_queue => UNCHANGED sendVars
  BY DEF compile, loop_head, kick_tx, poll_rx_queue
<1>8. KernelFill \/ KernelLook \/ KernelSleepTx \/ int_handler \/ UNCHANGED vars
        => UNCHANGED sendVars
  BY DEF KernelFill, KernelLook, KernelSleepTx, int_handler, vars
<1> HIDE DEF Same
<1> QED BY <1>1, <1>2, <1>3, <1>4, <1>5, <1>6, <1>7, <1>8 DEF Next, Pump, Kernel, Finished, Same

LEMMA OutstandingStep ==
  Shape /\ NoDoubleOwner /\ OutstandingExact /\ [Next]_vars => OutstandingExact'
<1> SUFFICES ASSUME Shape, NoDoubleOwner, OutstandingExact, [Next]_vars
             PROVE  OutstandingExact'
  OBVIOUS
<1>1. outstanding_tx' - OnTheWay' = outstanding_tx - OnTheWay
  BY ExcessStays
<1>2. outstanding_tx = OnTheWay /\ OnTheWay \in Nat
  BY OnTheWayIsNat DEF OutstandingExact, OnTheWay
<1>3. Shape'
  BY ShapeStep
<1>4. OnTheWay' \in Nat /\ outstanding_tx' \in Nat
  BY <1>3, OnTheWayIsNat DEF Shape, TypeOK
<1>5. \A x, y \in Nat : x - y = OnTheWay - OnTheWay => x = y
  BY <1>2
<1>6. outstanding_tx' = OnTheWay'
  BY <1>1, <1>2, <1>4, <1>5
<1> QED BY <1>6 DEF OutstandingExact, OnTheWay

(***************************************************************************)
(* The counter that decides whether the loop looks for completions is      *)
(* exact, and so never wraps, in every mode and at every size.             *)
(***************************************************************************)
THEOREM OutstandingIsExact == Spec => []OutstandingExact
<1>1. Init => Shape /\ NoDoubleOwner /\ OutstandingExact
  BY ShapeInit, NoDoubleOwnerInit, OutstandingInit
<1>2. Shape /\ NoDoubleOwner /\ OutstandingExact /\ [Next]_vars
        => (Shape /\ NoDoubleOwner /\ OutstandingExact)'
  BY ShapeStep, NoDoubleOwnerStep, OutstandingStep
<1> QED BY <1>1, <1>2, PTL DEF Spec

(***************************************************************************)
(* The sizes of the rings.                                                 *)
(***************************************************************************)
LEMMA RingsInit == Init => RingsWithinSize
<1> SUFFICES ASSUME Init PROVE RingsWithinSize
  OBVIOUS
<1>1. Len(fq) = FillSize
  BY SizesAreNat DEF Init, Populated
<1>2. Cardinality(nicTx) = 0 /\ Len(rx) = 0 /\ Len(tx) = 0 /\ Len(cq) = 0 /\ fqLag = 0
  BY NoCounts DEF Init
<1> QED BY <1>1, <1>2, SizesAreNat, SizesAssumption DEF RingsWithinSize

LEMMA RingsStep ==
  Shape /\ NoDoubleOwner /\ RingsWithinSize /\ [Next]_vars => RingsWithinSize'
<1> SUFFICES ASSUME Shape, NoDoubleOwner, RingsWithinSize, [Next]_vars
             PROVE  RingsWithinSize'
  OBVIOUS
<1> USE DEF fillVars, wakeVars, recvVars, sendVars, nicVars
<1>0. /\ fq \in Seq(Frames) /\ rx \in Seq(Frames) /\ tx \in Seq(Frames) /\ cq \in Seq(Frames)
      /\ fqLag \in Nat /\ Cardinality(nicTx) \in Nat /\ nicTx \in SUBSET Frames
      /\ FillSize \in Nat /\ CompSize \in Nat /\ RxSize \in Nat /\ TxSize \in Nat
      /\ Len(fq) + fqLag <= FillSize /\ Len(rx) <= RxSize /\ Len(tx) <= TxSize
      /\ Len(cq) + Cardinality(nicTx) <= CompSize
  BY NicCounts, SizesAreNat, SizesAssumption DEF Shape, TypeOK, RingsWithinSize
<1>1. CASE UNCHANGED <<fq, fqLag, rx, tx, nicTx, cq>>
  BY <1>1 DEF RingsWithinSize
<1>2. CASE complete_tx
  <2>1. PICK rcvd \in Peek(Len(cq) - cqPeeked, CompletionBatch) : Recycle(rcvd) \/ Abandon(rcvd)
    BY <1>2 DEF complete_tx
  <2>2. UNCHANGED <<fqLag, rx, tx, nicTx>>
    BY <1>2 DEF complete_tx
  <2>3. CASE Recycle(rcvd)
    <3>1. /\ rcvd \in Nat /\ Len(fq') = Len(fq) + rcvd /\ Len(cq') = Len(cq) - rcvd
          /\ Len(fq) + fqLag + rcvd <= FillSize
      BY <2>1, <2>3, RecycleLengths DEF Recycle, CanReserveFill
    <3> QED BY <1>0, <2>2, <3>1 DEF RingsWithinSize
  <2>4. CASE Abandon(rcvd)
    BY <1>1, <2>2, <2>4 DEF Abandon
  <2> QED BY <2>1, <2>3, <2>4
<1>3. ASSUME NEW action \in Verdicts, apply_action(action) PROVE RingsWithinSize'
  <2>1. pc = "run" /\ UNCHANGED <<fqLag, nicTx, cq>>
    BY <1>3 DEF apply_action
  <2>2. Len(rx') <= RxSize
    BY <1>0, <1>3, <2>1, ReleaseLength DEF apply_action, send_desc, drop, ReleaseRx
  <2>3. CASE send_desc
    <3>1. Len(tx') = Len(tx) + 1 /\ Len(tx) + 1 <= TxSize /\ fq' = fq
      BY <2>1, <2>3, ReleaseLength DEF send_desc, CanReserveTx
    <3> QED BY <1>0, <2>1, <2>2, <3>1 DEF RingsWithinSize
  <2>4. CASE fq' = fq /\ tx' = tx
    BY <1>0, <2>1, <2>2, <2>4 DEF RingsWithinSize
  <2>5. CASE CanReserveFill(1) /\ fq' = Append(fq, Desc) /\ tx' = tx
    <3>1. Len(fq') = Len(fq) + 1 /\ Len(fq) + fqLag + 1 <= FillSize
      BY <2>1, <2>5, ReleaseLength DEF CanReserveFill
    <3> QED BY <1>0, <2>1, <2>2, <2>5, <3>1 DEF RingsWithinSize
  <2> QED BY <1>3, <2>3, <2>4, <2>5 DEF apply_action, drop
<1>4. CASE KernelFill
  <2>1. Len(fq') = Len(fq) - 1 /\ fqLag' \in {fqLag, fqLag + 1} /\ UNCHANGED <<rx, tx, nicTx, cq>>
    BY <1>4, TakenFromFill DEF KernelFill
  <2> QED BY <1>0, <1>4, <2>1, TakenFromFill DEF RingsWithinSize
<1>5. CASE KernelLook
  BY <1>0, <1>5 DEF KernelLook, RingsWithinSize
<1>6. CASE KernelXmit
  <2>1. /\ Len(tx') = Len(tx) - 1 /\ Cardinality(nicTx') = Cardinality(nicTx) + 1
        /\ Len(cq) + Cardinality(nicTx) < CompSize /\ UNCHANGED <<fq, fqLag, rx, cq>>
    BY <1>6, TakenFromTx DEF KernelXmit
  <2> QED BY <1>0, <2>1 DEF RingsWithinSize
<1>7. ASSUME NEW f \in Frames, KernelReceive(f) PROVE RingsWithinSize'
  <2>1. Len(rx') = Len(rx) + 1 /\ Len(rx) < RxSize /\ UNCHANGED <<fq, fqLag, tx, nicTx, cq>>
    BY <1>0, <1>7 DEF KernelReceive
  <2> QED BY <1>0, <2>1 DEF RingsWithinSize
<1>8. ASSUME NEW f \in Frames, KernelComplete(f) PROVE RingsWithinSize'
  <2>1. Cardinality(nicTx') = Cardinality(nicTx) - 1
    BY <1>0, <1>8, CountFrames DEF KernelComplete
  <2>2. Len(cq') = Len(cq) + 1 /\ UNCHANGED <<fq, fqLag, rx, tx>>
    BY <1>0, <1>8 DEF KernelComplete
  <2> QED BY <1>0, <2>1, <2>2 DEF RingsWithinSize
<1>9. compile \/ loop_head \/ kick_tx \/ poll_rx_queue \/ KernelSleepTx \/ int_handler
        \/ UNCHANGED vars => UNCHANGED <<fq, fqLag, rx, tx, nicTx, cq>>
  BY DEF compile, loop_head, kick_tx, poll_rx_queue, KernelSleepTx, int_handler, vars
<1> QED BY <1>1, <1>2, <1>3, <1>4, <1>5, <1>6, <1>7, <1>8, <1>9
        DEF Next, Pump, Kernel, Finished

(***************************************************************************)
(* No ring overflows, whatever its size and however late the kernel        *)
(* publishes its consumer index.                                           *)
(***************************************************************************)
THEOREM RingsAreWithinSize == Spec => []RingsWithinSize
<1>1. Init => Shape /\ NoDoubleOwner /\ RingsWithinSize
  BY ShapeInit, NoDoubleOwnerInit, RingsInit
<1>2. Shape /\ NoDoubleOwner /\ RingsWithinSize /\ [Next]_vars
        => (Shape /\ NoDoubleOwner /\ RingsWithinSize)'
  BY ShapeStep, NoDoubleOwnerStep, RingsStep
<1> QED BY <1>1, <1>2, PTL DEF Spec

\* How many steps the pump has at most before it looks at config.terminate
\* again and returns.
StepsLeft ==
  CASE Stopped         -> 0
    [] pc = "top"      -> 1
    [] pc = "compile"  -> 2
    [] pc = "run"      -> todo + 1
    [] pc = "poll"     -> BatchSize + 2
    [] pc = "complete" -> BatchSize + 3
    [] pc = "kick"     -> BatchSize + 4

\* The batch never has more packets than config.batch_size.
BatchFits == todo <= BatchSize

\* Nothing takes the signal back, and every step of the pump is one less.
SignalCountsDown ==
  [][config.terminate =>
       /\ config'.terminate
       /\ StepsLeft' <= StepsLeft
       /\ Pump => StepsLeft' < StepsLeft]_vars

LEMMA BatchFitsStep == Shape /\ BatchFits /\ [Next]_vars => BatchFits'
<1> SUFFICES ASSUME Shape, BatchFits, [Next]_vars PROVE BatchFits'
  OBVIOUS
<1>1. todo \in Nat /\ BatchSize \in Nat \ {0} /\ todo <= BatchSize
  BY SizesAssumption DEF Shape, TypeOK, BatchFits
<1>2. CASE poll_rx_queue
  BY <1>1, <1>2 DEF poll_rx_queue, Peek, BatchFits
<1>3. ASSUME NEW action \in Verdicts, apply_action(action) PROVE BatchFits'
  BY <1>1, <1>3 DEF apply_action, BatchFits
<1>4. ASSUME UNCHANGED todo PROVE BatchFits'
  BY <1>1, <1>4 DEF BatchFits
<1> QED
  BY <1>2, <1>3, <1>4
  DEF Next, Pump, Kernel, Finished, compile, loop_head, kick_tx, complete_tx, KernelFill,
      KernelLook, KernelSleepTx, KernelXmit, KernelReceive, KernelComplete, int_handler, recvVars,
      vars

(***************************************************************************)
(* Why a signal stops the pump, as far as safety goes: from the signal on  *)
(* the pump takes at most config.batch_size + 4 more steps, whatever the   *)
(* kernel does in between and whatever the sizes: it finishes the batch it *)
(* has and takes in at most one more (heart.c:413).                        *)
(***************************************************************************)
THEOREM SignalStopsSoon ==
  Spec => /\ SignalCountsDown
          /\ [](StepsLeft \in 0 .. BatchSize + 4 /\ (StepsLeft = 0 <=> Stopped))
<1> DEFINE Counted ==
      config.terminate => /\ config'.terminate
                          /\ StepsLeft' <= StepsLeft
                          /\ Pump => StepsLeft' < StepsLeft
<1>1. Init => Shape /\ BatchFits
  BY ShapeInit, SizesAssumption DEF Init, BatchFits
<1>2. Shape /\ BatchFits /\ [Next]_vars => (Shape /\ BatchFits)'
  BY ShapeStep, BatchFitsStep
<1>3. ASSUME Shape, BatchFits
      PROVE  StepsLeft \in 0 .. BatchSize + 4 /\ (StepsLeft = 0 <=> Stopped)
  <2>1. todo \in Nat /\ BatchSize \in Nat \ {0} /\ todo <= BatchSize /\ pc \in Locations
    BY <1>3, SizesAssumption DEF Shape, TypeOK, BatchFits
  <2> QED BY <2>1 DEF StepsLeft, Stopped, Locations
<1>4. ASSUME Shape, BatchFits, Shape', BatchFits', [Next]_vars
      PROVE  [Counted]_vars
  <2>1. SUFFICES ASSUME config.terminate, Next
                 PROVE  Counted
    BY <1>4
  <2>2. /\ todo \in Nat /\ todo' \in Nat /\ todo <= BatchSize /\ todo' <= BatchSize
        /\ BatchSize \in Nat \ {0} /\ pc \in Locations /\ pc' \in Locations
    BY <1>4, SizesAssumption DEF Shape, TypeOK, BatchFits
  <2>3. CASE Pump
    <3>1. UNCHANGED config
      BY <2>3 DEF Pump, compile, loop_head, kick_tx, complete_tx, poll_rx_queue, apply_action
    <3>2. StepsLeft' < StepsLeft
      <4> USE DEF StepsLeft, Stopped
      <4>1. CASE compile
        BY <2>2, <4>1 DEF compile
      <4>2. CASE loop_head
        BY <2>1, <2>2, <4>2 DEF loop_head
      <4>3. CASE kick_tx
        BY <2>2, <4>3 DEF kick_tx
      <4>4. CASE complete_tx
        BY <2>2, <4>4 DEF complete_tx
      <4>5. CASE poll_rx_queue
        <5>1. pc = "poll" /\ pc' \in {"top", "run"}
          BY <4>5 DEF poll_rx_queue
        <5> QED BY <2>2, <5>1
      <4>6. ASSUME NEW action \in Verdicts, apply_action(action)
            PROVE  StepsLeft' < StepsLeft
        <5>1. pc = "run" /\ todo' = todo - 1 /\ pc' = IF todo = 1 THEN "top" ELSE "run"
          BY <4>6 DEF apply_action
        <5>2. todo > 0
          BY <1>4, <2>2, <5>1 DEF Shape, BatchInRing
        <5> QED BY <2>2, <5>1, <5>2
      <4> QED BY <2>3, <4>1, <4>2, <4>3, <4>4, <4>5, <4>6 DEF Pump
    <3>3. StepsLeft \in Int /\ StepsLeft' \in Int
      BY <2>2 DEF StepsLeft, Stopped, Locations
    <3> QED BY <2>1, <3>1, <3>2, <3>3
  <2>4. CASE Kernel \/ int_handler \/ Finished
    <3>1. /\ UNCHANGED <<pc, todo>>
          /\ config'.terminate
      <4>1. UNCHANGED <<pc, todo>> /\ (UNCHANGED config \/ int_handler)
        BY <2>4 DEF Kernel, KernelFill, KernelLook, KernelSleepTx, KernelXmit, KernelReceive,
           KernelComplete, int_handler, Finished, recvVars, vars
      <4>2. ~ int_handler
        BY <2>1 DEF int_handler
      <4> QED BY <2>1, <4>1, <4>2
    <3>2. StepsLeft' = StepsLeft
      BY <3>1 DEF StepsLeft, Stopped
    <3>3. StepsLeft \in Int
      BY <1>3, <1>4
    <3>4. ~ Pump
      <4>1. UNCHANGED <<pc, todo>> /\ Pump => FALSE
        BY <2>1, <2>2 DEF Pump, compile, loop_head, kick_tx, complete_tx, poll_rx_queue,
           apply_action
      <4> QED BY <3>1, <4>1
    <3> QED BY <3>1, <3>2, <3>3, <3>4
  <2> QED BY <2>1, <2>3, <2>4 DEF Next
<1> QED BY <1>1, <1>2, <1>3, <1>4, PTL DEF Spec, SignalCountsDown

(***************************************************************************)
(* Conservation of the frames.  NothingLost is inductive only because it   *)
(* implies FillNeverFull: a full fill ring would mean that no frame is     *)
(* elsewhere, but the failure paths hold one in rx or cq when they ask.    *)
(***************************************************************************)
InFill  == Len(fq)
AtNicRx == Cardinality(nicRx)
InRx    == Len(rx)
InTx    == Len(tx)
AtNicTx == Cardinality(nicTx)
InCq    == Len(cq)
Total   == InFill + AtNicRx + InRx + InTx + AtNicTx + InCq

LEMMA CountsAreNat ==
  ASSUME Shape
  PROVE  /\ fq \in Seq(Frames) /\ rx \in Seq(Frames) /\ tx \in Seq(Frames) /\ cq \in Seq(Frames)
         /\ nicRx \in SUBSET Frames /\ nicTx \in SUBSET Frames
         /\ Len(fq) \in Nat /\ Len(rx) \in Nat /\ Len(tx) \in Nat /\ Len(cq) \in Nat
         /\ Cardinality(nicRx) \in Nat /\ Cardinality(nicTx) \in Nat
         /\ fqLag \in Nat /\ peeked \in Nat /\ todo \in Nat /\ cqPeeked \in Nat
         /\ FillSize \in Nat
         /\ InFill \in Nat /\ AtNicRx \in Nat /\ InRx \in Nat
         /\ InTx \in Nat /\ AtNicTx \in Nat /\ InCq \in Nat
<1>1. TypeOK
  BY DEF Shape
<1>2. Cardinality(nicRx) \in Nat /\ Cardinality(nicTx) \in Nat
  BY <1>1, NicCounts
<1> QED BY <1>1, <1>2, SizesAreNat DEF TypeOK, InFill, AtNicRx, InRx, InTx, AtNicTx, InCq

LEMMA FillHasRoom ==
  ASSUME Shape, NothingLost, ~LazyFill
  PROVE  /\ pc = "run" => CanReserveFill(1)
         /\ \A rcvd \in Peek(Len(cq) - cqPeeked, CompletionBatch) : CanReserveFill(rcvd)
<1>1. fqLag = 0 /\ cqPeeked = 0 /\ Total = FillSize
  BY DEF NothingLost, Total, InFill, AtNicRx, InRx, InTx, AtNicTx, InCq
<1>2. /\ InFill \in Nat /\ AtNicRx \in Nat /\ InRx \in Nat
      /\ InTx \in Nat /\ AtNicTx \in Nat /\ InCq \in Nat
  BY CountsAreNat
<1>3. InFill + InRx <= FillSize /\ InFill + InCq <= FillSize
  BY <1>1, <1>2 DEF Total
<1>4. ASSUME NEW n \in Nat, InFill + n <= FillSize PROVE CanReserveFill(n)
  BY <1>1, <1>2, <1>4 DEF CanReserveFill, InFill
<1>5. ASSUME pc = "run" PROVE CanReserveFill(1)
  <2>1. InRx \in Nat \ {0}
    BY <1>5, ReleaseLength DEF InRx
  <2>2. InFill + 1 <= FillSize
    BY <1>2, <1>3, <2>1, SizesAreNat
  <2> QED BY <1>4, <2>2
<1>6. ASSUME NEW rcvd \in Peek(Len(cq) - cqPeeked, CompletionBatch) PROVE CanReserveFill(rcvd)
  <2>1. rcvd \in Nat /\ rcvd <= InCq
    BY <1>1, RecycleLengths DEF InCq
  <2>2. InFill + rcvd <= FillSize
    BY <1>2, <1>3, <2>1, SizesAreNat
  <2> QED BY <1>4, <2>1, <2>2
<1> QED BY <1>5, <1>6

LEMMA NothingLostInit == Init => NothingLost
<1> SUFFICES ASSUME Init PROVE NothingLost
  OBVIOUS
<1>1. Len(fq) = FillSize
  BY SizesAreNat DEF Init, Populated
<1>2. /\ Cardinality(nicRx) = 0 /\ Cardinality(nicTx) = 0
      /\ Len(rx) = 0 /\ Len(tx) = 0 /\ Len(cq) = 0
      /\ fqLag = 0 /\ todo = 0 /\ peeked = 0 /\ cqPeeked = 0
  BY NoCounts DEF Init
<1> QED BY <1>1, <1>2, SizesAreNat DEF NothingLost

\* The numbers that change, and the sum that does not.
LEMMA MovesKeepTotal ==
  ASSUME Shape
  PROVE  /\ InFill' = InFill - 1 /\ AtNicRx' = AtNicRx + 1
              /\ UNCHANGED <<InRx, InTx, AtNicTx, InCq>> => Total' = Total
         /\ AtNicRx' = AtNicRx - 1 /\ InRx' = InRx + 1
              /\ UNCHANGED <<InFill, InTx, AtNicTx, InCq>> => Total' = Total
         /\ InRx' = InRx - 1 /\ InTx' = InTx + 1
              /\ UNCHANGED <<InFill, AtNicRx, AtNicTx, InCq>> => Total' = Total
         /\ InRx' = InRx - 1 /\ InFill' = InFill + 1
              /\ UNCHANGED <<AtNicRx, InTx, AtNicTx, InCq>> => Total' = Total
         /\ InTx' = InTx - 1 /\ AtNicTx' = AtNicTx + 1
              /\ UNCHANGED <<InFill, AtNicRx, InRx, InCq>> => Total' = Total
         /\ AtNicTx' = AtNicTx - 1 /\ InCq' = InCq + 1
              /\ UNCHANGED <<InFill, AtNicRx, InRx, InTx>> => Total' = Total
         /\ \A n \in Nat :
              InCq' = InCq - n /\ InFill' = InFill + n
                /\ UNCHANGED <<AtNicRx, InRx, InTx, AtNicTx>> => Total' = Total
<1>1. /\ InFill \in Nat /\ AtNicRx \in Nat /\ InRx \in Nat
      /\ InTx \in Nat /\ AtNicTx \in Nat /\ InCq \in Nat
  BY CountsAreNat
<1>2. InFill' = InFill - 1 /\ AtNicRx' = AtNicRx + 1 /\ UNCHANGED <<InRx, InTx, AtNicTx, InCq>>
        => Total' = Total
  BY <1>1 DEF Total
<1>3. AtNicRx' = AtNicRx - 1 /\ InRx' = InRx + 1 /\ UNCHANGED <<InFill, InTx, AtNicTx, InCq>>
        => Total' = Total
  BY <1>1 DEF Total
<1>4. InRx' = InRx - 1 /\ InTx' = InTx + 1 /\ UNCHANGED <<InFill, AtNicRx, AtNicTx, InCq>>
        => Total' = Total
  BY <1>1 DEF Total
<1>5. InRx' = InRx - 1 /\ InFill' = InFill + 1 /\ UNCHANGED <<AtNicRx, InTx, AtNicTx, InCq>>
        => Total' = Total
  BY <1>1 DEF Total
<1>6. InTx' = InTx - 1 /\ AtNicTx' = AtNicTx + 1 /\ UNCHANGED <<InFill, AtNicRx, InRx, InCq>>
        => Total' = Total
  BY <1>1 DEF Total
<1>7. AtNicTx' = AtNicTx - 1 /\ InCq' = InCq + 1 /\ UNCHANGED <<InFill, AtNicRx, InRx, InTx>>
        => Total' = Total
  BY <1>1 DEF Total
<1>8. ASSUME NEW n \in Nat, InCq' = InCq - n, InFill' = InFill + n,
             UNCHANGED <<AtNicRx, InRx, InTx, AtNicTx>>
      PROVE  Total' = Total
  BY <1>1, <1>8 DEF Total
<1> QED BY <1>2, <1>3, <1>4, <1>5, <1>6, <1>7, <1>8

\* In no step does an entry come or go, even if a frame gets lost: its slot is
\* then kept.
LEMMA TotalStays ==
  ASSUME Shape, NoDoubleOwner, [Next]_vars
  PROVE  Total' = Total
<1> USE DEF fillVars, wakeVars, recvVars, sendVars, nicVars
<1>1. UNCHANGED <<fq, nicRx, rx, tx, nicTx, cq>> => Total' = Total
  BY DEF Total, InFill, AtNicRx, InRx, InTx, AtNicTx, InCq
<1>2. CASE complete_tx
  <2>1. PICK rcvd \in Peek(Len(cq) - cqPeeked, CompletionBatch) : Recycle(rcvd) \/ Abandon(rcvd)
    BY <1>2 DEF complete_tx
  <2>2. UNCHANGED <<rx, nicRx, nicTx, tx>>
    BY <1>2 DEF complete_tx
  <2>3. CASE Recycle(rcvd)
    <3>1. /\ rcvd \in Nat /\ InFill' = InFill + rcvd /\ InCq' = InCq - rcvd
          /\ UNCHANGED <<AtNicRx, InRx, InTx, AtNicTx>>
      BY <2>1, <2>2, <2>3, RecycleLengths DEF InFill, AtNicRx, InRx, InTx, AtNicTx, InCq
    <3> QED BY <3>1, MovesKeepTotal
  <2>4. CASE Abandon(rcvd)
    BY <1>1, <2>2, <2>4 DEF Abandon
  <2> QED BY <2>1, <2>3, <2>4
<1>3. ASSUME NEW action \in Verdicts, apply_action(action) PROVE Total' = Total
  <2>1. pc = "run" /\ UNCHANGED <<nicRx, nicTx, cq>>
    BY <1>3 DEF apply_action
  <2>2. CASE UNCHANGED <<fq, rx, tx>>
    BY <1>1, <2>1, <2>2
  <2>3. CASE /\ ReleaseRx
             /\ \/ tx' = Append(tx, Desc) /\ fq' = fq
                \/ fq' = Append(fq, Desc) /\ tx' = tx
    <3>1. InRx' = InRx - 1 /\ UNCHANGED <<AtNicRx, AtNicTx, InCq>>
      BY <2>1, <2>3, ReleaseLength DEF ReleaseRx, InRx, AtNicRx, AtNicTx, InCq
    <3>2. \/ InTx' = InTx + 1 /\ InFill' = InFill
          \/ InFill' = InFill + 1 /\ InTx' = InTx
      BY <2>1, <2>3, ReleaseLength DEF InTx, InFill
    <3> QED BY <3>1, <3>2, MovesKeepTotal
  <2> QED BY <1>3, <2>2, <2>3 DEF apply_action, send_desc, drop
<1>4. CASE KernelFill
  <2>1. /\ InFill' = InFill - 1 /\ AtNicRx' = AtNicRx + 1
        /\ UNCHANGED <<InRx, InTx, AtNicTx, InCq>>
    BY <1>4, TakenFromFill DEF KernelFill, InFill, AtNicRx, InRx, InTx, AtNicTx, InCq
  <2> QED BY <2>1, MovesKeepTotal
<1>5. CASE KernelXmit
  <2>1. /\ InTx' = InTx - 1 /\ AtNicTx' = AtNicTx + 1
        /\ UNCHANGED <<InFill, AtNicRx, InRx, InCq>>
    BY <1>5, TakenFromTx DEF KernelXmit, InFill, AtNicRx, InRx, InTx, AtNicTx, InCq
  <2> QED BY <2>1, MovesKeepTotal
<1>6. ASSUME NEW f \in Frames, KernelReceive(f) PROVE Total' = Total
  <2>1. /\ f \in nicRx /\ nicRx' = nicRx \ {f} /\ rx' = Append(rx, f)
        /\ UNCHANGED <<fq, tx, nicTx, cq>>
    BY <1>6 DEF KernelReceive
  <2>2. nicRx \in SUBSET Frames /\ rx \in Seq(Frames)
    BY CountsAreNat
  <2>3. InRx' = InRx + 1 /\ AtNicRx' = AtNicRx - 1
    BY <2>1, <2>2, CountFrames DEF InRx, AtNicRx
  <2>4. UNCHANGED <<InFill, InTx, AtNicTx, InCq>>
    BY <2>1 DEF InFill, InTx, AtNicTx, InCq
  <2> QED BY <2>3, <2>4, MovesKeepTotal
<1>7. ASSUME NEW f \in Frames, KernelComplete(f) PROVE Total' = Total
  <2>1. /\ f \in nicTx /\ nicTx' = nicTx \ {f} /\ cq' = Append(cq, f)
        /\ UNCHANGED <<fq, rx, nicRx, tx>>
    BY <1>7 DEF KernelComplete
  <2>2. nicTx \in SUBSET Frames /\ cq \in Seq(Frames)
    BY CountsAreNat
  <2>3. InCq' = InCq + 1 /\ AtNicTx' = AtNicTx - 1
    BY <2>1, <2>2, CountFrames DEF InCq, AtNicTx
  <2>4. UNCHANGED <<InFill, AtNicRx, InRx, InTx>>
    BY <2>1 DEF InFill, AtNicRx, InRx, InTx
  <2> QED BY <2>3, <2>4, MovesKeepTotal
<1>8. compile \/ loop_head \/ kick_tx \/ poll_rx_queue \/ KernelLook \/ KernelSleepTx
        \/ int_handler \/ UNCHANGED vars => UNCHANGED <<fq, nicRx, rx, tx, nicTx, cq>>
  BY DEF compile, loop_head, kick_tx, poll_rx_queue, KernelLook, KernelSleepTx, int_handler, vars
<1> QED BY <1>1, <1>2, <1>3, <1>4, <1>5, <1>6, <1>7, <1>8 DEF Next, Pump, Kernel, Finished

LEMMA NothingLostStep ==
  Shape /\ NoDoubleOwner /\ NothingLost /\ [Next]_vars => NothingLost'
<1> SUFFICES ASSUME Shape, NoDoubleOwner, NothingLost, [Next]_vars, ~LazyFill
             PROVE  NothingLost'
  BY DEF NothingLost
<1> USE DEF fillVars, wakeVars, recvVars, sendVars, nicVars
<1> DEFINE Settled == fqLag = 0 /\ todo = peeked /\ cqPeeked = 0
<1>0. Settled /\ Total = FillSize
  BY DEF NothingLost, Total, InFill, AtNicRx, InRx, InTx, AtNicTx, InCq
<1>1. Settled' => NothingLost'
  BY <1>0, TotalStays DEF NothingLost, FillSize, Total, InFill, AtNicRx, InRx, InTx, AtNicTx, InCq
<1>2. CASE UNCHANGED <<fqLag, peeked, todo, cqPeeked>>
  BY <1>0, <1>1, <1>2
<1>3. CASE complete_tx
  <2>1. PICK rcvd \in Peek(Len(cq) - cqPeeked, CompletionBatch) : Recycle(rcvd) \/ Abandon(rcvd)
    BY <1>3 DEF complete_tx
  <2>2. CanReserveFill(rcvd)
    BY <2>1, FillHasRoom
  <2> QED BY <1>2, <1>3, <2>1, <2>2 DEF complete_tx, Recycle, Abandon
<1>4. CASE poll_rx_queue
  <2>1. PICK rcvd \in Peek(Len(rx) - peeked, BatchSize) :
          \/ rcvd = 0 /\ UNCHANGED <<peeked, todo>>
          \/ rcvd > 0 /\ peeked' = peeked + rcvd /\ todo' = rcvd /\ pc' = "run"
    BY <1>4 DEF poll_rx_queue
  <2>2. todo = 0
    BY <1>4, CountsAreNat DEF poll_rx_queue, Shape, BatchInRing
  <2>3. rcvd \in Nat
    BY <2>1, SizesAssumption DEF Peek
  <2>4. todo' = peeked'
    BY <1>0, <2>1, <2>2, <2>3
  <2> QED BY <1>0, <1>1, <1>4, <2>4 DEF poll_rx_queue
<1>5. ASSUME NEW action \in Verdicts, apply_action(action) PROVE NothingLost'
  <2>1. pc = "run" /\ todo' = todo - 1 /\ UNCHANGED <<fqLag, cqPeeked>>
    BY <1>5 DEF apply_action
  <2>2. CanReserveFill(1)
    BY <2>1, FillHasRoom
  <2>3. peeked' = peeked - 1
    BY <1>5, <2>2 DEF apply_action, send_desc, drop, ReleaseRx
  <2> QED BY <1>0, <1>1, <2>1, <2>3
<1>6. KernelFill \/ KernelLook \/ KernelXmit => UNCHANGED <<fqLag, peeked, todo, cqPeeked>>
  BY <1>0 DEF KernelFill, KernelLook, KernelXmit
<1>7. ASSUME NEW f \in Frames, KernelReceive(f) \/ KernelComplete(f)
      PROVE  UNCHANGED <<fqLag, peeked, todo, cqPeeked>>
  BY <1>7 DEF KernelReceive, KernelComplete
<1>8. compile \/ loop_head \/ kick_tx \/ KernelSleepTx \/ int_handler \/ UNCHANGED vars
         => UNCHANGED <<fqLag, peeked, todo, cqPeeked>>
  BY DEF compile, loop_head, kick_tx, KernelSleepTx, int_handler, vars
<1> QED BY <1>2, <1>3, <1>4, <1>5, <1>6, <1>7, <1>8 DEF Next, Pump, Kernel, Finished

(***************************************************************************)
(* No frame is lost and no completion abandoned by a kernel that publishes *)
(* its consumer index at once, at every size and in both copy modes.       *)
(***************************************************************************)
THEOREM NothingIsLost == Spec => []NothingLost
<1>1. Init => Shape /\ NoDoubleOwner /\ NothingLost
  BY ShapeInit, NoDoubleOwnerInit, NothingLostInit
<1>2. Shape /\ NoDoubleOwner /\ NothingLost /\ [Next]_vars
        => (Shape /\ NoDoubleOwner /\ NothingLost)'
  BY ShapeStep, NoDoubleOwnerStep, NothingLostStep
<1> QED BY <1>1, <1>2, PTL DEF Spec

(***************************************************************************)
(* The failure paths of drop() and complete_tx() are then dead code.       *)
(***************************************************************************)
THEOREM FillIsNeverFull == Spec => []FillNeverFull
<1>1. Init => Shape /\ NoDoubleOwner /\ NothingLost
  BY ShapeInit, NoDoubleOwnerInit, NothingLostInit
<1>2. Shape /\ NoDoubleOwner /\ NothingLost /\ [Next]_vars
        => (Shape /\ NoDoubleOwner /\ NothingLost)'
  BY ShapeStep, NoDoubleOwnerStep, NothingLostStep
<1>3. Shape /\ NothingLost => FillNeverFull
  BY FillHasRoom DEF FillNeverFull
<1> QED BY <1>1, <1>2, <1>3, PTL DEF Spec

(***************************************************************************)
(* The cycle of a frame (FrameCycle).  A step leaves the holders alone, or *)
(* moves frames from one to the next; a frame is dropped from the sight of *)
(* all three only when the fill ring had no room.                          *)
(***************************************************************************)
AllStay      == UNCHANGED <<Filling, Received, Sending>>
Arrives(f)   == /\ f \in Filling /\ Filling' = Filling \ {f}
                /\ Received' = Received \cup {f} /\ Sending' = Sending
Forwarded(f) == /\ f \in Received /\ Received' = Received \ {f}
                /\ Sending' = Sending \cup {f} /\ Filling' = Filling
Dropped(f)   == /\ f \in Received /\ Received' = Received \ {f}
                /\ Filling' = Filling \cup {f} /\ Sending' = Sending
Returned(M)  == /\ M \subseteq Sending /\ Sending' = Sending \ M
                /\ Filling' = Filling \cup M /\ Received' = Received
SomeLost     == /\ LazyFill /\ Filling' = Filling
                /\ Received' \subseteq Received /\ Sending' \subseteq Sending

Sound == Shape /\ NoDoubleOwner /\ NothingLost

LEMMA HoldersStay ==
  ASSUME UNCHANGED <<fq, nicRx, rx, tx, nicTx, cq, cqPeeked>>, Processed' = Processed
  PROVE  AllStay
BY DEF AllStay, Filling, Received, Sending

\* A batch of completions goes back to the fill ring, or is abandoned.
LEMMA CompletionMoves ==
  ASSUME Sound, complete_tx
  PROVE  SomeLost \/ \E M \in SUBSET Frames : Returned(M)
<1>0. /\ Shape /\ NoDoubleOwner /\ NothingLost
      /\ fq \in Seq(Frames) /\ cq \in Seq(Frames) /\ cqPeeked \in Nat /\ cqPeeked <= Len(cq)
  BY DEF Sound, Shape, TypeOK, BatchInRing
<1>1. PICK rcvd \in Peek(Len(cq) - cqPeeked, CompletionBatch) : Recycle(rcvd) \/ Abandon(rcvd)
  BY DEF complete_tx
<1>2. rcvd \in Nat /\ cqPeeked + rcvd <= Len(cq)
  BY <1>0, <1>1, RecycleLengths
<1>3. Received' = Received /\ UNCHANGED <<tx, nicRx, nicTx>>
  BY DEF complete_tx, Received, Processed, recvVars, nicVars
<1>4. CASE Recycle(rcvd)
  <2> DEFINE M == Moved(cq, cqPeeked, rcvd)
             D == Entries(Rest(cq, rcvd), cqPeeked + 1)
             C == Entries(cq, cqPeeked + 1)
             Q == Entries(fq, 1)
  <2>1. ~HasDuplicates(fq, 1) /\ ~HasDuplicates(cq, cqPeeked + 1) /\ Q \cap C = {}
    BY <1>0 DEF NoDoubleOwner, Filling, Sending
  <2>2. C = M \cup D /\ M \cap D = {} /\ Entries(Behind(fq, cq, cqPeeked, rcvd), 1) = Q \cup M
    <3>1. Distinct(fq, cq, cqPeeked)
      BY <2>1 DEF Distinct
    <3>2. MovesThem(fq, cq, cqPeeked, rcvd)
      BY <1>0, <1>2, <3>1, MoveEntries
    <3> QED BY <3>2 DEF MovesThem
  <2>3. fq' = Behind(fq, cq, cqPeeked, rcvd) /\ cq' = Rest(cq, rcvd) /\ cqPeeked' = cqPeeked
    BY <1>4 DEF Recycle, Behind, Rest
  <2>4. Entries(fq', 1) = Q \cup M /\ Entries(cq', cqPeeked' + 1) = D
    BY <2>2, <2>3
  <2>5. M \subseteq Frames
    BY <1>0, <1>2 DEF Moved
  <2>6. (Entries(tx, 1) \cup nicTx) \cap C = {}
    BY <1>0 DEF NoDoubleOwner
  <2> HIDE DEF M, D
  <2>7. Filling' = Filling \cup M /\ Sending' = Sending \ M /\ M \subseteq Sending
    BY <1>3, <2>2, <2>4, <2>6 DEF Filling, Sending
  <2> QED BY <1>3, <2>5, <2>7 DEF Returned
<1>5. CASE Abandon(rcvd)
  <2>1. LazyFill
    BY <1>0, <1>1, <1>5, FillHasRoom DEF Abandon
  <2>2. /\ UNCHANGED <<fq, cq>> /\ cqPeeked' = cqPeeked + rcvd
    BY <1>5 DEF Abandon
  <2>3. Entries(cq', cqPeeked' + 1) \subseteq Entries(cq, cqPeeked + 1)
    BY <1>0, <1>2, <2>2 DEF Entries
  <2> QED BY <1>3, <2>1, <2>2, <2>3 DEF SomeLost, Filling, Sending
<1> QED BY <1>1, <1>4, <1>5

\* A packet is forwarded or dropped.
LEMMA VerdictMoves ==
  ASSUME Sound, NEW action \in Verdicts, apply_action(action)
  PROVE  SomeLost \/ \E f \in Frames : Forwarded(f) \/ Dropped(f)
<1>0. /\ Shape /\ NoDoubleOwner /\ NothingLost /\ pc = "run" /\ todo' = todo - 1
      /\ UNCHANGED <<nicRx, nicTx, cq, cqPeeked>>
      /\ fq \in Seq(Frames) /\ tx \in Seq(Frames)
  BY DEF Sound, apply_action, nicVars, Shape, TypeOK
<1>1. /\ Received = {Desc} \cup Entries(rx, Processed + 2) /\ Desc \notin Entries(rx, Processed + 2)
      /\ Desc \in Frames
  BY <1>0, ReceivedFirst, DescInRing DEF NoDoubleOwner
<1>2. Received' = Entries(rx, Processed + 2)
  BY <1>0, ReceivedNext DEF apply_action, send_desc, drop
<1>3. Desc \in Received /\ Received' = Received \ {Desc}
  BY <1>1, <1>2
<1>4. CASE send_desc
  <2>1. tx' = Append(tx, Desc) /\ fq' = fq
    BY <1>4 DEF send_desc
  <2>2. Entries(tx', 1) = Entries(tx, 1) \cup {Desc}
    BY <1>0, <1>1, <2>1, AppendEntries
  <2>3. Forwarded(Desc)
    BY <1>0, <1>3, <2>1, <2>2 DEF Forwarded, Filling, Sending
  <2> QED BY <1>1, <2>3
<1>5. CASE fq' = Append(fq, Desc) /\ tx' = tx
  <2>1. Entries(fq', 1) = Entries(fq, 1) \cup {Desc}
    BY <1>0, <1>1, <1>5, AppendEntries
  <2>2. Dropped(Desc)
    BY <1>0, <1>3, <1>5, <2>1 DEF Dropped, Filling, Sending
  <2> QED BY <1>1, <2>2
<1>6. CASE ~CanReserveFill(1) /\ fq' = fq /\ tx' = tx
  <2>1. LazyFill
    BY <1>0, <1>6, FillHasRoom
  <2> QED BY <1>0, <1>3, <1>6, <2>1 DEF SomeLost, Filling, Sending
<1> QED BY <1>4, <1>5, <1>6 DEF apply_action, drop

\* What the kernel takes from a ring it still holds.
LEMMA TakenStays ==
  ASSUME Sound, KernelFill \/ KernelXmit
  PROVE  AllStay
<1>0. fq \in Seq(Frames) /\ tx \in Seq(Frames)
  BY DEF Sound, Shape, TypeOK
<1>1. CASE KernelFill
  <2>1. fq # << >> /\ fq' = Tail(fq) /\ nicRx' = nicRx \cup {fq[1]}
        /\ UNCHANGED <<rx, peeked, todo, tx, nicTx, cq, cqPeeked>>
    BY <1>1 DEF KernelFill, recvVars, sendVars
  <2>2. Entries(fq, 1) = {fq[1]} \cup Entries(fq', 1)
    <3>1. 1 \in 1 .. Len(fq) /\ 1 \in Nat \ {0} /\ 1 + 1 = 2
      BY <1>0, <2>1, EmptySeq
    <3>2. Entries(fq', 1) = Entries(fq, 2)
      BY <1>0, <2>1, <3>1, TailEntries
    <3>3. Entries(fq, 1) = {fq[1]} \cup Entries(fq, 2)
      BY <1>0, <3>1, FirstEntry
    <3> QED BY <3>2, <3>3
  <2> QED BY <2>1, <2>2 DEF AllStay, Filling, Received, Sending, Processed
<1>2. CASE KernelXmit
  <2>1. tx # << >> /\ tx' = Tail(tx) /\ nicTx' = nicTx \cup {tx[1]}
        /\ UNCHANGED <<fq, nicRx, rx, peeked, todo, cq, cqPeeked>>
    BY <1>2 DEF KernelXmit, fillVars, recvVars
  <2>2. Entries(tx, 1) = {tx[1]} \cup Entries(tx', 1)
    <3>1. 1 \in 1 .. Len(tx) /\ 1 \in Nat \ {0} /\ 1 + 1 = 2
      BY <1>0, <2>1, EmptySeq
    <3>2. Entries(tx', 1) = Entries(tx, 2)
      BY <1>0, <2>1, <3>1, TailEntries
    <3>3. Entries(tx, 1) = {tx[1]} \cup Entries(tx, 2)
      BY <1>0, <3>1, FirstEntry
    <3> QED BY <3>2, <3>3
  <2> QED BY <2>1, <2>2 DEF AllStay, Filling, Received, Sending, Processed
<1> QED BY <1>1, <1>2

\* A received frame is the pump's; a transmitted one is still on the wire.
LEMMA KernelMoves ==
  ASSUME Sound, NEW f \in Frames
  PROVE  /\ KernelReceive(f) => Arrives(f)
         /\ KernelComplete(f) => AllStay
<1>0. /\ NoDoubleOwner /\ rx \in Seq(Frames) /\ cq \in Seq(Frames)
      /\ Processed + 1 \in Nat \ {0} /\ Processed + 1 <= Len(rx) + 1
      /\ cqPeeked + 1 \in Nat \ {0} /\ cqPeeked + 1 <= Len(cq) + 1
  BY DEF Sound, Shape, TypeOK, BatchInRing, Processed
<1>1. ASSUME KernelReceive(f) PROVE Arrives(f)
  <2>1. /\ f \in nicRx /\ nicRx' = nicRx \ {f} /\ rx' = Append(rx, f) /\ Processed' = Processed
        /\ UNCHANGED <<fq, tx, nicTx, cq, cqPeeked>>
    BY <1>1 DEF KernelReceive, Processed, fillVars, sendVars
  <2>2. f \notin Entries(fq, 1)
    BY <1>0, <2>1 DEF NoDoubleOwner
  <2>3. Entries(Append(rx, f), Processed + 1) = Entries(rx, Processed + 1) \cup {f}
    BY <1>0, AppendEntries
  <2>4. Received' = Received \cup {f}
    BY <2>1, <2>3 DEF Received
  <2> QED BY <2>1, <2>2, <2>4 DEF Arrives, Filling, Sending
<1>2. ASSUME KernelComplete(f) PROVE AllStay
  <2>1. /\ f \in nicTx /\ nicTx' = nicTx \ {f} /\ cq' = Append(cq, f)
        /\ UNCHANGED <<fq, nicRx, rx, peeked, todo, tx, cqPeeked>>
    BY <1>2 DEF KernelComplete, fillVars, recvVars
  <2>2. Entries(Append(cq, f), cqPeeked + 1) = Entries(cq, cqPeeked + 1) \cup {f}
    BY <1>0, AppendEntries
  <2>3. Sending' = Entries(tx, 1) \cup (nicTx \ {f}) \cup (Entries(cq, cqPeeked + 1) \cup {f})
    BY <2>1, <2>2 DEF Sending
  <2>4. Sending' = Sending
    BY <2>1, <2>3 DEF Sending
  <2> QED BY <2>1, <2>4 DEF AllStay, Filling, Received, Processed
<1> QED BY <1>1, <1>2

\* Every step of Heart is one of these.
LEMMA StepMoves ==
  ASSUME Sound, [Next]_vars
  PROVE  \/ AllStay \/ SomeLost
         \/ \E f \in Frames : Arrives(f) \/ Forwarded(f) \/ Dropped(f)
         \/ \E M \in SUBSET Frames : Returned(M)
<1>1. CASE complete_tx
  BY <1>1, CompletionMoves
<1>2. ASSUME NEW action \in Verdicts, apply_action(action)
      PROVE  SomeLost \/ \E f \in Frames : Forwarded(f) \/ Dropped(f)
  BY <1>2, VerdictMoves
<1>3. CASE KernelFill \/ KernelXmit
  BY <1>3, TakenStays
<1>4. ASSUME NEW f \in Frames, KernelReceive(f) \/ KernelComplete(f)
      PROVE  AllStay \/ Arrives(f)
  BY <1>4, KernelMoves
<1>5. CASE poll_rx_queue
  <2>1. Processed' = Processed
    <3>1. peeked \in Nat /\ todo = 0 /\ Len(rx) - peeked \in Nat /\ BatchSize \in Nat
      BY <1>5, SizesAssumption DEF poll_rx_queue, Sound, Shape, TypeOK, BatchInRing
    <3>2. PICK rcvd \in Peek(Len(rx) - peeked, BatchSize) :
            \/ UNCHANGED <<peeked, todo>>
            \/ peeked' = peeked + rcvd /\ todo' = rcvd
      BY <1>5 DEF poll_rx_queue
    <3>3. rcvd \in Nat
      BY <3>1, PeekIsBounded
    <3> QED BY <3>1, <3>2, <3>3 DEF Processed
  <2> QED BY <1>5, <2>1, HoldersStay DEF poll_rx_queue, fillVars, sendVars
<1>6. CASE compile \/ loop_head \/ kick_tx \/ KernelLook \/ KernelSleepTx \/ int_handler
           \/ UNCHANGED vars
  BY <1>6, HoldersStay
     DEF compile, loop_head, kick_tx, KernelLook, KernelSleepTx, int_handler, vars, Processed,
         fillVars, recvVars, sendVars
<1> QED BY <1>1, <1>2, <1>3, <1>4, <1>5, <1>6 DEF Next, Pump, Kernel, Finished

\* Each of them takes a frame along the cycle, or leaves it where it is.
LEMMA MovesFollowCycle ==
  ASSUME NoDoubleOwner, NoDoubleOwner', Sound, [Next]_vars, NEW f \in Frames
  PROVE  Holder(f)' = Holder(f) \/ <<Holder(f), Holder(f)'>> \in Cycle!Moves \cup Cycle!Losses
<1>0. /\ Filling \cap Received = {} /\ Filling \cap Sending = {} /\ Received \cap Sending = {}
  BY DEF NoDoubleOwner
<1>1. /\ f \in Filling  => Holder(f) = "kernel"
      /\ f \in Received => Holder(f) = "pump"
      /\ f \in Sending  => Holder(f) = "wire"
      /\ f \notin Filling \cup Received \cup Sending => Holder(f) = "lost"
  BY <1>0 DEF Holder
<1>2. /\ Filling' \cap Received' = {} /\ Filling' \cap Sending' = {} /\ Received' \cap Sending' = {}
  BY DEF NoDoubleOwner
<1>3. /\ f \in Filling'  => Holder(f)' = "kernel"
      /\ f \in Received' => Holder(f)' = "pump"
      /\ f \in Sending'  => Holder(f)' = "wire"
      /\ f \notin Filling' \cup Received' \cup Sending' => Holder(f)' = "lost"
  BY <1>2 DEF Holder
<1>4. Holder(f) \in Cycle!Holders
  BY <1>1 DEF Cycle!Holders
<1>5. CASE AllStay
  BY <1>5 DEF AllStay, Holder
<1>6. CASE SomeLost
  <2>1. Holder(f)' = Holder(f) \/ Holder(f)' = "lost"
    BY <1>1, <1>3, <1>6 DEF SomeLost
  <2> QED BY <1>4, <1>6, <2>1 DEF SomeLost, Cycle!Losses
<1>7. ASSUME NEW g \in Frames, Arrives(g) \/ Forwarded(g) \/ Dropped(g)
      PROVE  Holder(f)' = Holder(f) \/ <<Holder(f), Holder(f)'>> \in Cycle!Moves
  BY <1>1, <1>3, <1>7 DEF Arrives, Forwarded, Dropped, Cycle!Moves
<1>8. ASSUME NEW M \in SUBSET Frames, Returned(M)
      PROVE  Holder(f)' = Holder(f) \/ <<Holder(f), Holder(f)'>> \in Cycle!Moves
  BY <1>1, <1>3, <1>8 DEF Returned, Cycle!Moves
<1> QED BY <1>5, <1>6, <1>7, <1>8, StepMoves

\* At the start every frame is on the fill ring.
LEMMA StartsWithKernel ==
  ASSUME Init, NEW f \in Frames
  PROVE  Holder(f) = "kernel"
<1>1. PICK i \in 0 .. FillSize - 1 : f = FrameAt[i]
  BY DEF Frames
<1>2. i + 1 \in 1 .. Len(fq) /\ fq[i + 1] = f
  BY <1>1, SizesAreNat DEF Init, Populated
<1>3. f \in Filling
  BY <1>2 DEF Filling, Entries
<1>4. f \notin Received /\ f \notin Sending
  BY <1>3, NoDoubleOwnerInit DEF NoDoubleOwner
<1> QED BY <1>3, <1>4 DEF Holder

(***************************************************************************)
(* The pump implements the cycle, at every size, in every mode, with       *)
(* either kernel: a frame goes from the kernel to the pump, from there     *)
(* back or to the wire, and from the wire back; it gets lost only if the   *)
(* kernel may publish its index late.                                      *)
(***************************************************************************)
THEOREM HeartImplementsCycle == Spec => ImplementsCycle
<1> DEFINE h == [f \in Frames |-> Holder(f)]
<1>1. Init => Sound
  BY ShapeInit, NoDoubleOwnerInit, NothingLostInit DEF Sound
<1>2. Sound /\ [Next]_vars => Sound'
  BY ShapeStep, NoDoubleOwnerStep, NothingLostStep DEF Sound
<1>3. Init => Cycle!Init
  BY StartsWithKernel DEF Cycle!Init
<1>4. Sound /\ Sound' /\ [Next]_vars => [Cycle!Next]_h
  <2> SUFFICES ASSUME Sound, Sound', [Next]_vars, h' # h PROVE Cycle!Next
    OBVIOUS
  <2> DEFINE moved == {f \in Frames : h'[f] # h[f]}
  <2>1. moved \in SUBSET Frames /\ moved # {}
    <3>1. h = [f \in Frames |-> h[f]] /\ h' = [f \in Frames |-> h'[f]]
      OBVIOUS
    <3> QED BY <3>1
  <2>2. \A f \in Frames \ moved : h'[f] = h[f]
    OBVIOUS
  <2>3. \A f \in moved : <<h[f], h'[f]>> \in Cycle!Moves \cup Cycle!Losses
    BY MovesFollowCycle DEF Sound
  <2> QED BY <2>1, <2>2, <2>3 DEF Cycle!Next, Cycle!Goes
<1> QED BY <1>1, <1>2, <1>3, <1>4, PTL DEF Spec, ImplementsCycle, Cycle!Spec

(***************************************************************************)
(* The two builds.  First, how index_target numbers the packets of a batch *)
(* that got a verdict: Nth(S, n) is the n-th of the places S.              *)
(***************************************************************************)
LEMMA NthCounts ==
  ASSUME NEW m \in Nat, NEW S \in SUBSET (1 .. m)
  PROVE  /\ IsFiniteSet(S) /\ Cardinality(S) \in 0 .. m
         /\ \A n \in 1 .. Cardinality(S) : Nth(S, n) \in S
         /\ \A i \in S : \E n \in 1 .. Cardinality(S) : Nth(S, n) = i
         /\ \A n1, n2 \in 1 .. Cardinality(S) : Nth(S, n1) = Nth(S, n2) => n1 = n2
         /\ S # {} => \E g \in S : \A j \in S : j <= g
<1> DEFINE UpTo(i) == {j \in S : j <= i}
           rank == [i \in S |-> Cardinality(UpTo(i))]
           c == Cardinality(S)
<1>1. IsFiniteSet(S) /\ c \in 0 .. m
  <2>1. IsFiniteSet(1 .. m) /\ Cardinality(1 .. m) = m
    BY FS_Interval
  <2>2. IsFiniteSet(S) /\ c <= m
    BY <2>1, FS_Subset
  <2> QED BY <2>2, FS_CardinalityType
<1>2. ASSUME NEW i \in S
      PROVE  IsFiniteSet(UpTo(i)) /\ Cardinality(UpTo(i)) \in 1 .. c /\ i \in UpTo(i)
  <2>1. UpTo(i) \in SUBSET S /\ i \in UpTo(i)
    OBVIOUS
  <2>2. IsFiniteSet(UpTo(i)) /\ Cardinality(UpTo(i)) <= c
    BY <1>1, <2>1, FS_Subset
  <2>3. Cardinality(UpTo(i)) \in Nat /\ Cardinality(UpTo(i)) # 0
    BY <2>1, <2>2, FS_CardinalityType, FS_EmptySet
  <2> QED BY <1>1, <2>1, <2>2, <2>3
<1>3. ASSUME NEW i \in S, NEW k \in S, i < k
      PROVE  Cardinality(UpTo(i)) # Cardinality(UpTo(k))
  <2>1. UpTo(i) \in SUBSET UpTo(k) /\ k \in UpTo(k) /\ k \notin UpTo(i)
    <3>1. \A j \in S : j \in Nat
      OBVIOUS
    <3>2. k <= k /\ ~ k <= i /\ \A j \in S : j <= i => j <= k
      BY <1>3, <3>1
    <3> HIDE <1>3
    <3> QED BY <3>2
  <2>2. Cardinality(UpTo(k)) = Cardinality(UpTo(i)) => UpTo(k) = UpTo(i)
    BY <1>2, <2>1, FS_Subset
  <2> QED BY <2>1, <2>2
<1>4. rank \in Injection(S, 1 .. c)
  <2>1. rank \in [S -> 1 .. c]
    BY <1>2
  <2>2. ASSUME NEW i \in S, NEW k \in S, rank[i] = rank[k] PROVE i = k
    <3>1. i < k \/ k < i \/ i = k
      OBVIOUS
    <3> QED BY <1>3, <2>2, <3>1
  <2> QED BY <2>1, <2>2 DEF Injection, IsInjective
<1>5. rank \in Surjection(S, 1 .. c)
  <2>1. IsFiniteSet(1 .. c) /\ Cardinality(1 .. c) = c
    BY <1>1, FS_Interval
  <2> QED BY <1>4, <2>1, FS_Injection
<1>6. ASSUME NEW n \in 1 .. c PROVE Nth(S, n) \in S /\ Cardinality(UpTo(Nth(S, n))) = n
  <2>1. \E i \in S : Cardinality(UpTo(i)) = n
    BY <1>5 DEF Surjection
  <2> QED BY <2>1 DEF Nth
<1>7. ASSUME NEW i \in S PROVE \E n \in 1 .. c : Nth(S, n) = i
  <2> DEFINE n == Cardinality(UpTo(i))
  <2>1. n \in 1 .. c
    BY <1>2
  <2>2. Nth(S, n) \in S /\ Cardinality(UpTo(Nth(S, n))) = n
    BY <1>6, <2>1
  <2>3. ~ Nth(S, n) < i /\ ~ i < Nth(S, n)
    BY <1>3, <2>2
  <2>4. Nth(S, n) = i
    <3>1. \A x, y \in S : ~ x < y /\ ~ y < x => x = y
      OBVIOUS
    <3> HIDE DEF n
    <3> QED BY <2>2, <2>3, <3>1
  <2> QED BY <2>1, <2>4
<1>8. ASSUME S # {} PROVE \E g \in S : \A j \in S : j <= g
  <2>1. c \in 1 .. c
    BY <1>1, <1>8, FS_EmptySet
  <2>2. Nth(S, c) \in S /\ Cardinality(UpTo(Nth(S, c))) = c
    BY <1>6, <2>1
  <2>3. UpTo(Nth(S, c)) \in SUBSET S
    OBVIOUS
  <2>4. UpTo(Nth(S, c)) = S
    BY <1>1, <2>2, <2>3, FS_Subset
  <2> QED BY <2>2, <2>4
<1>9. \A n1, n2 \in 1 .. c : Nth(S, n1) = Nth(S, n2) => n1 = n2
  BY <1>6
<1> QED BY <1>1, <1>6, <1>7, <1>8, <1>9

(***************************************************************************)
(* What placing a batch does to the entries of a ring.                     *)
(***************************************************************************)
\* One ring's entries behind another's.
LEMMA ConcatEntries ==
  ASSUME NEW S, NEW s \in Seq(S), NEW t \in Seq(S)
  PROVE  /\ s \o t \in Seq(S) /\ Len(s \o t) = Len(s) + Len(t)
         /\ Entries(s \o t, 1) = Entries(s, 1) \cup Entries(t, 1)
         /\ ~HasDuplicates(s, 1) /\ ~HasDuplicates(t, 1) /\ Entries(s, 1) \cap Entries(t, 1) = {}
              => ~HasDuplicates(s \o t, 1)
<1> DEFINE u == s \o t
<1>1. /\ u \in Seq(S) /\ Len(u) = Len(s) + Len(t) /\ Len(s) \in Nat /\ Len(t) \in Nat
      /\ \A i \in 1 .. Len(s) : u[i] = s[i]
      /\ \A i \in 1 .. Len(t) : u[Len(s) + i] = t[i]
  BY ConcatProperties
<1>2. \A i \in 1 .. Len(u) : i \in 1 .. Len(s) \/ i - Len(s) \in 1 .. Len(t)
  BY <1>1
<1>3. \A i \in 1 .. Len(u) : i - Len(s) \in 1 .. Len(t) => u[i] = t[i - Len(s)]
  <2> SUFFICES ASSUME NEW i \in 1 .. Len(u), i - Len(s) \in 1 .. Len(t)
               PROVE  u[i] = t[i - Len(s)]
    OBVIOUS
  <2>1. Len(s) + (i - Len(s)) = i
    BY <1>1
  <2>2. u[Len(s) + (i - Len(s))] = t[i - Len(s)]
    BY <1>1
  <2> QED BY <2>1, <2>2
<1> HIDE DEF u
<1>4. ASSUME NEW i \in 1 .. Len(u) PROVE u[i] \in Entries(s, 1) \cup Entries(t, 1)
  BY <1>1, <1>2, <1>3 DEF Entries
<1>5. ASSUME NEW i \in 1 .. Len(s) PROVE s[i] \in Entries(u, 1)
  <2>1. i \in 1 .. Len(u)
    BY <1>1
  <2> QED BY <1>1, <2>1 DEF Entries
<1>6. ASSUME NEW i \in 1 .. Len(t) PROVE t[i] \in Entries(u, 1)
  <2>1. Len(s) + i \in 1 .. Len(u)
    BY <1>1
  <2> QED BY <1>1, <2>1 DEF Entries
<1>7. Entries(u, 1) = Entries(s, 1) \cup Entries(t, 1)
  BY <1>4, <1>5, <1>6 DEF Entries
<1>8. ASSUME ~HasDuplicates(s, 1), ~HasDuplicates(t, 1), Entries(s, 1) \cap Entries(t, 1) = {}
      PROVE  ~HasDuplicates(u, 1)
  <2> SUFFICES ASSUME NEW i \in 1 .. Len(u), NEW j \in 1 .. Len(u), i # j, u[i] = u[j]
               PROVE  FALSE
    BY DEF HasDuplicates
  <2>1. CASE i \in 1 .. Len(s) /\ j \in 1 .. Len(s)
    BY <1>1, <1>8, <2>1 DEF HasDuplicates
  <2>2. CASE i - Len(s) \in 1 .. Len(t) /\ j - Len(s) \in 1 .. Len(t)
    <3>1. t[i - Len(s)] = t[j - Len(s)] /\ i - Len(s) # j - Len(s)
      BY <1>1, <1>3, <2>2
    <3> QED BY <1>8, <2>2, <3>1 DEF HasDuplicates
  <2>3. CASE i \in 1 .. Len(s) /\ j - Len(s) \in 1 .. Len(t)
    <3>1. u[i] \in Entries(s, 1) /\ u[j] \in Entries(t, 1)
      BY <1>1, <1>3, <2>3 DEF Entries
    <3> QED BY <1>8, <3>1
  <2>4. CASE j \in 1 .. Len(s) /\ i - Len(s) \in 1 .. Len(t)
    <3>1. u[j] \in Entries(s, 1) /\ u[i] \in Entries(t, 1)
      BY <1>1, <1>3, <2>4 DEF Entries
    <3> QED BY <1>8, <3>1
  <2> QED BY <1>2, <2>1, <2>2, <2>3, <2>4
<1> QED BY <1>1, <1>7, <1>8 DEF u

\* Slots of a ring that are less than its size apart are different.
LEMMA SlotsApart ==
  ASSUME NEW size \in Nat \ {0}, NEW first \in 0 .. size - 1,
         NEW i \in 1 .. size, NEW j \in 1 .. size, i # j
  PROVE  (first + i - 1) % size # (first + j - 1) % size
<1>1. \A x \in Nat : /\ x < size => x % size = x
                     /\ size <= x /\ x < 2 * size => x % size = x - size
  OBVIOUS
<1>2. first + i - 1 \in Nat /\ first + j - 1 \in Nat
      /\ first + i - 1 < 2 * size /\ first + j - 1 < 2 * size
  OBVIOUS
<1> DEFINE a == first + i - 1
           b == first + j - 1
<1>3. a \in Nat /\ b \in Nat /\ a < 2 * size /\ b < 2 * size /\ a # b
      /\ a - b < size /\ b - a < size
  OBVIOUS
<1> HIDE DEF a, b
<1>4. a % size # b % size
  BY <1>1, <1>3
<1> QED BY <1>4 DEF a, b

\* Writing over a ring puts frames of the batch in the place of others: it
\* makes no entry and doubles none, however many frames there are.
LEMMA OverwrittenEntries ==
  ASSUME NEW S, NEW ring \in Seq(S), NEW addrs \in Seq(S), NEW size \in Nat \ {0},
         NEW first \in 0 .. size - 1, Len(ring) <= size,
         ~HasDuplicates(ring, 1), ~HasDuplicates(addrs, 1),
         Entries(ring, 1) \cap Entries(addrs, 1) = {}
  PROVE  /\ Overwritten(ring, first, size, addrs) \in Seq(S)
         /\ Len(Overwritten(ring, first, size, addrs)) = Len(ring)
         /\ Entries(Overwritten(ring, first, size, addrs), 1)
              \subseteq Entries(ring, 1) \cup Entries(addrs, 1)
         /\ ~HasDuplicates(Overwritten(ring, first, size, addrs), 1)
<1> DEFINE hits(i) == {n \in 1 .. Len(addrs) : (n - 1) % size = (first + i - 1) % size}
           o == Overwritten(ring, first, size, addrs)
<1>1. o = [i \in 1 .. Len(ring) |-> IF hits(i) = {} THEN ring[i] ELSE addrs[Max(hits(i))]]
  BY DEF Overwritten
<1>2. ASSUME NEW i \in 1 .. Len(ring), hits(i) # {}
      PROVE  Max(hits(i)) \in hits(i)
  <2>1. hits(i) \in SUBSET (1 .. Len(addrs)) /\ Len(addrs) \in Nat
    OBVIOUS
  <2> HIDE DEF hits
  <2>2. \E g \in hits(i) : \A j \in hits(i) : j <= g
    BY <1>2, <2>1, NthCounts
  <2>3. \E g \in hits(i) : \A j \in hits(i) : g >= j
    BY <2>1, <2>2
  <2> QED BY <2>3 DEF Max
<1>3. ASSUME NEW i \in 1 .. Len(ring), NEW j \in 1 .. Len(ring), i # j
      PROVE  hits(i) \cap hits(j) = {}
  <2>1. i \in 1 .. size /\ j \in 1 .. size
    OBVIOUS
  <2>2. (first + i - 1) % size # (first + j - 1) % size
    BY <1>3, <2>1, SlotsApart
  <2> QED BY <2>2
<1>4. \A i \in 1 .. Len(ring) : hits(i) \subseteq 1 .. Len(addrs)
  OBVIOUS
<1> HIDE DEF hits
<1>5. \A i \in 1 .. Len(ring) : /\ hits(i) = {} => o[i] = ring[i]
                                /\ hits(i) # {} => o[i] = addrs[Max(hits(i))]
  BY <1>1
<1>6. \A i \in 1 .. Len(ring) : o[i] \in S
  BY <1>2, <1>4, <1>5
<1>7. o \in Seq(S) /\ Len(o) = Len(ring)
  <2>1. o \in [1 .. Len(ring) -> S]
    BY <1>1, <1>6
  <2>2. Len(ring) \in Nat
    OBVIOUS
  <2> HIDE DEF o
  <2> QED BY <2>1, <2>2
<1>8. Entries(o, 1) \subseteq Entries(ring, 1) \cup Entries(addrs, 1)
  <2> SUFFICES ASSUME NEW i \in 1 .. Len(ring)
               PROVE  o[i] \in Entries(ring, 1) \cup Entries(addrs, 1)
    BY <1>7 DEF Entries
  <2>1. CASE hits(i) = {}
    BY <1>5, <2>1 DEF Entries
  <2>2. CASE hits(i) # {}
    BY <1>2, <1>4, <1>5, <2>2 DEF Entries
  <2> QED BY <2>1, <2>2
<1>9. ~HasDuplicates(o, 1)
  <2> SUFFICES ASSUME NEW i \in 1 .. Len(ring), NEW j \in 1 .. Len(ring), i # j, o[i] = o[j]
               PROVE  FALSE
    BY <1>7 DEF HasDuplicates
  <2>1. CASE hits(i) = {} /\ hits(j) = {}
    BY <1>5, <2>1 DEF HasDuplicates
  <2>2. CASE hits(i) # {} /\ hits(j) # {}
    <3>1. Max(hits(i)) \in 1 .. Len(addrs) /\ Max(hits(j)) \in 1 .. Len(addrs)
          /\ Max(hits(i)) # Max(hits(j))
      BY <1>2, <1>3, <1>4, <2>2
    <3>2. addrs[Max(hits(i))] = addrs[Max(hits(j))]
      BY <1>5, <2>2
    <3> QED BY <3>1, <3>2 DEF HasDuplicates
  <2>3. CASE hits(i) = {} /\ hits(j) # {}
    <3>1. o[i] \in Entries(ring, 1)
      BY <1>5, <2>3 DEF Entries
    <3>2. o[j] \in Entries(addrs, 1)
      BY <1>2, <1>4, <1>5, <2>3 DEF Entries
    <3> QED BY <3>1, <3>2
  <2>4. CASE hits(i) # {} /\ hits(j) = {}
    <3>1. o[j] \in Entries(ring, 1)
      BY <1>5, <2>4 DEF Entries
    <3>2. o[i] \in Entries(addrs, 1)
      BY <1>2, <1>4, <1>5, <2>4 DEF Entries
    <3> QED BY <3>1, <3>2
  <2> QED BY <2>1, <2>2, <2>3, <2>4
<1> QED BY <1>7, <1>8, <1>9

(***************************************************************************)
(* The packets of the batch.                                               *)
(***************************************************************************)
\* What is known of the verdicts until they are handed out: the kernel only
\* makes room meanwhile, so a reservation stays good.
Mixed ==
  mix # NoMix =>
    /\ build = "batching" /\ pc = "run"
    /\ mix.verdicts \in [1 .. todo -> Verdicts]
    /\ mix.reserved \subseteq {"DROP", "SEND"}
    /\ "DROP" \in mix.reserved => CanReserveFill(Cardinality(With("DROP")))
    /\ "SEND" \in mix.reserved => CanReserveTx(Cardinality(With("SEND")))

PickedBy(verdict) == {Batch[i] : i \in With(verdict)}
Later             == Entries(rx, peeked + 1)

LEMMA BatchIs ==
  ASSUME Shape, Mixed, mix # NoMix
  PROVE  /\ todo \in Nat \ {0} /\ peeked \in Nat /\ peeked <= Len(rx) /\ Processed \in Nat
         /\ Processed + todo = peeked
         /\ \A i \in 1 .. todo : /\ Batch[i] = rx[Processed + i] /\ Batch[i] \in Frames
                                 /\ Processed + i \in Processed + 1 .. peeked
         /\ \A v \in Verdicts : With(v) \in SUBSET (1 .. todo)
         /\ \A i \in 1 .. todo : mix.verdicts[i] \in Verdicts
<1>1. /\ rx \in Seq(Frames) /\ peeked \in Nat /\ todo \in Nat \ {0} /\ todo <= peeked
      /\ peeked <= Len(rx)
  BY DEF Shape, TypeOK, BatchInRing, Mixed
<1>2. Processed \in Nat /\ Processed + todo = peeked
  BY <1>1 DEF Processed
<1>3. ASSUME NEW i \in 1 .. todo
      PROVE  /\ Batch[i] = rx[Processed + i] /\ Batch[i] \in Frames
             /\ Processed + i \in Processed + 1 .. peeked
  <2>1. peeked - todo + i = Processed + i /\ Processed + i \in 1 .. Len(rx)
        /\ Processed + i \in Processed + 1 .. peeked
    BY <1>1, <1>2 DEF Processed
  <2>2. Batch[i] = rx[Processed + i]
    BY <2>1 DEF Batch
  <2> QED BY <1>1, <2>1, <2>2
<1> QED BY <1>1, <1>2, <1>3 DEF With, Mixed

\* The entries received are those of the batch and those behind it.
LEMMA ReceivedParts ==
  ASSUME Shape, NoDoubleOwner, Mixed, mix # NoMix
  PROVE  /\ \A v \in Verdicts : PickedBy(v) \subseteq Received /\ PickedBy(v) \cap Later = {}
         /\ \A v, w \in Verdicts : v # w => PickedBy(v) \cap PickedBy(w) = {}
         /\ Received = (UNION {PickedBy(v) : v \in Verdicts}) \cup Later
         /\ ~HasDuplicates(rx, peeked + 1)
         /\ \A i, j \in 1 .. todo : Batch[i] = Batch[j] => i = j
<1>0. rx \in Seq(Frames) /\ ~HasDuplicates(rx, Processed + 1)
  BY DEF Shape, TypeOK, NoDoubleOwner
<1>1. \A i, j \in Processed + 1 .. Len(rx) : rx[i] = rx[j] => i = j
  BY <1>0 DEF HasDuplicates
<1>2. /\ todo \in Nat /\ peeked \in Nat /\ Processed \in Nat /\ peeked <= Len(rx) /\ Len(rx) \in Nat
      /\ Processed + todo = peeked
  BY <1>0, BatchIs
<1>3. \A i \in 1 .. todo : Batch[i] = rx[Processed + i] /\ Processed + i \in Processed + 1 .. peeked
  BY BatchIs
<1>4. ASSUME NEW i \in 1 .. todo, NEW j \in 1 .. todo, Batch[i] = Batch[j] PROVE i = j
  <2>1. Processed + i \in Processed + 1 .. Len(rx) /\ Processed + j \in Processed + 1 .. Len(rx)
    BY <1>2
  <2>2. Processed + i = Processed + j
    BY <1>1, <1>3, <1>4, <2>1
  <2> QED BY <1>2, <2>2
<1>5. ASSUME NEW i \in 1 .. todo PROVE Batch[i] \in Received /\ Batch[i] \notin Later
  <2>1. Processed + i \in Processed + 1 .. Len(rx) /\ Processed + i <= peeked
    BY <1>2
  <2>2. Batch[i] \in Received
    BY <1>3, <2>1 DEF Received, Entries
  <2>3. ASSUME NEW j \in peeked + 1 .. Len(rx), rx[j] = Batch[i] PROVE FALSE
    <3>1. j \in Processed + 1 .. Len(rx) /\ j # Processed + i
      BY <1>2, <2>1
    <3> QED BY <1>1, <1>3, <2>1, <2>3, <3>1
  <2> QED BY <2>2, <2>3 DEF Later, Entries
<1>6. \A v \in Verdicts : With(v) \subseteq 1 .. todo
  BY BatchIs
<1>7. Later \subseteq Received
  BY <1>2 DEF Later, Received, Entries
<1>8. ASSUME NEW f \in Received PROVE f \in (UNION {PickedBy(v) : v \in Verdicts}) \cup Later
  <2>1. PICK k \in Processed + 1 .. Len(rx) : rx[k] = f
    BY DEF Received, Entries
  <2>2. CASE k > peeked
    BY <1>2, <2>1, <2>2 DEF Later, Entries
  <2>3. CASE k <= peeked
    <3>1. k - Processed \in 1 .. todo /\ Processed + (k - Processed) = k
      BY <1>2, <2>3
    <3>2. Batch[k - Processed] = f
      BY <1>3, <2>1, <3>1
    <3>3. mix.verdicts[k - Processed] \in Verdicts
      BY <3>1, BatchIs
    <3>4. k - Processed \in With(mix.verdicts[k - Processed])
      BY <3>1 DEF With
    <3> QED BY <3>2, <3>3, <3>4 DEF PickedBy
  <2> QED BY <1>2, <2>2, <2>3
<1>9. \A v \in Verdicts : PickedBy(v) \subseteq Received /\ PickedBy(v) \cap Later = {}
  BY <1>5, <1>6 DEF PickedBy
<1>10. ASSUME NEW v \in Verdicts, NEW w \in Verdicts, v # w
       PROVE  PickedBy(v) \cap PickedBy(w) = {}
  <2>1. With(v) \cap With(w) = {}
    BY <1>10 DEF With
  <2> QED BY <1>4, <1>6, <2>1 DEF PickedBy
<1>11. ~HasDuplicates(rx, peeked + 1)
  <2>1. \A i \in peeked + 1 .. Len(rx) : i \in Processed + 1 .. Len(rx)
    BY <1>2
  <2> QED BY <1>1, <2>1 DEF HasDuplicates
<1> QED BY <1>4, <1>7, <1>8, <1>9, <1>10, <1>11

\* The packets with a verdict are written once each.
LEMMA ChosenEntries ==
  ASSUME Shape, NoDoubleOwner, Mixed, mix # NoMix, NEW v \in Verdicts
  PROVE  /\ Chosen(v) \in Seq(Frames) /\ Cardinality(With(v)) \in Nat
         /\ Len(Chosen(v)) = Cardinality(With(v))
         /\ Entries(Chosen(v), 1) = PickedBy(v) /\ ~HasDuplicates(Chosen(v), 1)
<1> DEFINE S == With(v)
           c == Cardinality(S)
           s == Chosen(v)
<1>1. todo \in Nat /\ S \in SUBSET (1 .. todo) /\ \A i \in 1 .. todo : Batch[i] \in Frames
  BY BatchIs
<1>2. /\ c \in 0 .. todo
      /\ \A n \in 1 .. c : Nth(S, n) \in S
      /\ \A i \in S : \E n \in 1 .. c : Nth(S, n) = i
      /\ \A n1, n2 \in 1 .. c : Nth(S, n1) = Nth(S, n2) => n1 = n2
  BY <1>1, NthCounts
<1>3. s = [n \in 1 .. c |-> Batch[Nth(S, n)]]
  BY DEF Chosen
<1>4. \A i, j \in 1 .. todo : Batch[i] = Batch[j] => i = j
  BY ReceivedParts
<1> HIDE DEF S, s, c
<1>5. s \in Seq(Frames) /\ Len(s) = c
  <2>1. \A n \in 1 .. c : Batch[Nth(S, n)] \in Frames
    BY <1>1, <1>2
  <2>2. s \in [1 .. c -> Frames] /\ c \in Nat
    BY <1>1, <1>2, <1>3, <2>1
  <2> QED BY <2>2
<1>6. \A n \in 1 .. c : s[n] = Batch[Nth(S, n)]
  BY <1>3
<1>7. Entries(s, 1) = {Batch[i] : i \in S}
  BY <1>2, <1>5, <1>6 DEF Entries
<1>8. ~HasDuplicates(s, 1)
  <2> SUFFICES ASSUME NEW n1 \in 1 .. c, NEW n2 \in 1 .. c, n1 # n2, s[n1] = s[n2]
               PROVE  FALSE
    BY <1>5 DEF HasDuplicates
  <2>1. Nth(S, n1) \in 1 .. todo /\ Nth(S, n2) \in 1 .. todo
    BY <1>1, <1>2
  <2> QED BY <1>2, <1>4, <1>6, <2>1
<1> QED BY <1>2, <1>5, <1>7, <1>8 DEF PickedBy, S, s, c

\* Behind the others if there is room, over them if not.
LEMMA PlacedEntries ==
  ASSUME Shape, NoDoubleOwner, Mixed, mix # NoMix, NEW v \in Verdicts,
         NEW ring \in Seq(Frames), NEW size \in Nat \ {0}, NEW first \in 0 .. size - 1,
         Len(ring) <= size, ~HasDuplicates(ring, 1), Entries(ring, 1) \cap PickedBy(v) = {}
  PROVE  /\ Placed(ring, first, size, v) \in Seq(Frames)
         /\ Len(Placed(ring, first, size, v))
              = Len(ring) + (IF v \in mix.reserved THEN Cardinality(With(v)) ELSE 0)
         /\ Entries(Placed(ring, first, size, v), 1) \subseteq Entries(ring, 1) \cup PickedBy(v)
         /\ ~HasDuplicates(Placed(ring, first, size, v), 1)
<1> DEFINE s == Chosen(v)
<1>1. /\ s \in Seq(Frames) /\ Cardinality(With(v)) \in Nat /\ Len(s) = Cardinality(With(v))
      /\ Entries(s, 1) = PickedBy(v) /\ ~HasDuplicates(s, 1)
  BY ChosenEntries
<1> HIDE DEF s
<1>2. CASE v \in mix.reserved
  <2>1. Placed(ring, first, size, v) = ring \o s
    BY <1>2 DEF Placed, s
  <2>2. /\ ring \o s \in Seq(Frames) /\ Len(ring \o s) = Len(ring) + Len(s)
        /\ Entries(ring \o s, 1) = Entries(ring, 1) \cup Entries(s, 1)
        /\ ~HasDuplicates(ring \o s, 1)
    BY <1>1, ConcatEntries
  <2> QED BY <1>1, <1>2, <2>1, <2>2
<1>3. CASE v \notin mix.reserved
  <2> DEFINE o == Overwritten(ring, first, size, s)
  <2>1. Placed(ring, first, size, v) = o
    BY <1>3 DEF Placed, s
  <2>2. /\ o \in Seq(Frames) /\ Len(o) = Len(ring)
        /\ Entries(o, 1) \subseteq Entries(ring, 1) \cup Entries(s, 1)
        /\ ~HasDuplicates(o, 1)
    BY <1>1, OverwrittenEntries
  <2>3. Len(ring) + 0 = Len(ring)
    OBVIOUS
  <2> HIDE DEF o
  <2> QED BY <1>1, <1>3, <2>1, <2>2, <2>3
<1> QED BY <1>2, <1>3

\* The oldest slots of the receive ring are released: as many as were reserved.
SlotsOf(verdict) == IF verdict \in mix.reserved THEN Cardinality(With(verdict)) ELSE 0

LEMMA ReleasedCounts ==
  ASSUME Shape, NoDoubleOwner, Mixed, mix # NoMix
  PROVE  /\ SlotsOf("DROP") \in Nat /\ SlotsOf("SEND") \in Nat
         /\ Released = SlotsOf("DROP") + SlotsOf("SEND") /\ Released <= todo
<1> DEFINE D == IF "DROP" \in mix.reserved THEN With("DROP") ELSE {}
           T == IF "SEND" \in mix.reserved THEN With("SEND") ELSE {}
<1>1. /\ todo \in Nat /\ With("DROP") \in SUBSET (1 .. todo) /\ With("SEND") \in SUBSET (1 .. todo)
      /\ mix.reserved \subseteq {"DROP", "SEND"}
  BY BatchIs DEF Mixed, Verdicts
<1>2. D \in SUBSET (1 .. todo) /\ T \in SUBSET (1 .. todo) /\ D \cap T = {}
  BY <1>1 DEF With
<1>3. UNION {With(verdict) : verdict \in mix.reserved} = D \cup T
  BY <1>1
<1>4. Cardinality(D) = SlotsOf("DROP") /\ Cardinality(T) = SlotsOf("SEND")
  BY NoCounts DEF SlotsOf
<1> HIDE DEF D, T
<1>5. /\ IsFiniteSet(D) /\ IsFiniteSet(T) /\ Cardinality(D) \in 0 .. todo
      /\ Cardinality(T) \in 0 .. todo
  BY <1>1, <1>2, NthCounts
<1>6. D \cup T \in SUBSET (1 .. todo)
  BY <1>2
<1>7. Cardinality(D \cup T) \in 0 .. todo
  BY <1>1, <1>6, NthCounts
<1>8. Cardinality(D \cup T) = Cardinality(D) + Cardinality(T)
  <2>1. Cardinality(D \cup T) = Cardinality(D) + Cardinality(T) - Cardinality(D \cap T)
    BY <1>5, FS_Union
  <2>2. Cardinality(D \cap T) = 0
    BY <1>2, NoCounts
  <2> QED BY <1>5, <2>1, <2>2
<1> QED BY <1>3, <1>4, <1>5, <1>7, <1>8 DEF Released

FirstSlots == fqFirst \in 0 .. FillSize - 1 /\ txFirst \in 0 .. TxSize - 1

\* What place_batch does to each of the three rings.
LEMMA PlaceParts ==
  ASSUME Shape, NoDoubleOwner, RingsWithinSize, Mixed, FirstSlots, place_batch
  PROVE  /\ fq' \in Seq(Frames) /\ Len(fq') = Len(fq) + SlotsOf("DROP")
         /\ Entries(fq', 1) \subseteq Entries(fq, 1) \cup PickedBy("DROP")
         /\ ~HasDuplicates(fq', 1)
         /\ tx' \in Seq(Frames) /\ Len(tx') = Len(tx) + SlotsOf("SEND")
         /\ Entries(tx', 1) \subseteq Entries(tx, 1) \cup PickedBy("SEND")
         /\ ~HasDuplicates(tx', 1)
         /\ rx' \in Seq(Frames) /\ Len(rx') = Len(rx) - Released /\ Released \in 0 .. todo
         /\ todo' = 0 /\ peeked' = peeked - Released /\ Processed' = peeked - Released
         /\ Received' = Later /\ ~HasDuplicates(rx', Processed' + 1)
<1>0. /\ mix # NoMix /\ {"DROP", "SEND"} \subseteq Verdicts
      /\ fq \in Seq(Frames) /\ tx \in Seq(Frames) /\ rx \in Seq(Frames) /\ fqLag \in Nat
      /\ ~HasDuplicates(fq, 1) /\ ~HasDuplicates(tx, 1)
      /\ Filling \cap Received = {} /\ Received \cap Sending = {}
  BY DEF place_batch, Verdicts, Shape, TypeOK, NoDoubleOwner
<1>1. /\ \A v \in Verdicts : PickedBy(v) \subseteq Received /\ PickedBy(v) \cap Later = {}
      /\ ~HasDuplicates(rx, peeked + 1)
  BY <1>0, ReceivedParts
<1>2. /\ todo \in Nat \ {0} /\ peeked \in Nat /\ peeked <= Len(rx) /\ Len(rx) \in Nat
      /\ Processed \in Nat /\ Processed + todo = peeked
  BY <1>0, BatchIs
<1>3. Released \in 0 .. todo
  BY <1>0, <1>2, ReleasedCounts
<1>4. FillSize \in Nat \ {0} /\ TxSize \in Nat \ {0}
  BY SizesAssumption DEF FillSize
<1>5. /\ fq' \in Seq(Frames) /\ Len(fq') = Len(fq) + SlotsOf("DROP")
      /\ Entries(fq', 1) \subseteq Entries(fq, 1) \cup PickedBy("DROP")
      /\ ~HasDuplicates(fq', 1)
  <2>1. Entries(fq, 1) \cap PickedBy("DROP") = {}
    BY <1>0, <1>1 DEF Filling
  <2>2. Len(fq) <= FillSize /\ fqFirst \in 0 .. FillSize - 1
    BY <1>0, <1>4 DEF RingsWithinSize, FirstSlots
  <2>3. fq' = Placed(fq, fqFirst, FillSize, "DROP")
    BY DEF place_batch
  <2> QED BY <1>0, <1>4, <2>1, <2>2, <2>3, PlacedEntries DEF SlotsOf
<1>6. /\ tx' \in Seq(Frames) /\ Len(tx') = Len(tx) + SlotsOf("SEND")
      /\ Entries(tx', 1) \subseteq Entries(tx, 1) \cup PickedBy("SEND")
      /\ ~HasDuplicates(tx', 1)
  <2>1. Entries(tx, 1) \cap PickedBy("SEND") = {}
    BY <1>0, <1>1 DEF Sending
  <2>2. Len(tx) <= TxSize /\ txFirst \in 0 .. TxSize - 1
    BY DEF RingsWithinSize, FirstSlots
  <2>3. tx' = Placed(tx, txFirst, TxSize, "SEND")
    BY DEF place_batch
  <2> QED BY <1>0, <1>4, <2>1, <2>2, <2>3, PlacedEntries DEF SlotsOf
<1>7. todo' = 0 /\ peeked' = peeked - Released /\ rx' = SubSeq(rx, Released + 1, Len(rx))
  BY DEF place_batch
<1>8. Processed' = peeked - Released /\ peeked - Released \in Nat
  BY <1>2, <1>3, <1>7 DEF Processed
<1> DEFINE m == Released
           p == peeked - Released
<1>9. m \in Nat /\ p \in Nat /\ p + m = peeked /\ m <= Len(rx)
  BY <1>2, <1>3
<1> HIDE DEF m, p
<1>10. rx' \in Seq(Frames) /\ Len(rx') = Len(rx) - m
       /\ \A i \in 1 .. Len(rx) - m : rx'[i] = rx[m + i]
  <2>1. rx' = SubSeq(rx, m + 1, Len(rx))
    BY <1>7 DEF m
  <2> QED BY <1>0, <1>2, <1>9, <2>1, SubSeqProperties
<1>11. \A i \in p + 1 .. Len(rx') : m + i \in peeked + 1 .. Len(rx) /\ rx'[i] = rx[m + i]
  BY <1>2, <1>9, <1>10
<1>12. \A i \in peeked + 1 .. Len(rx) : i - m \in p + 1 .. Len(rx') /\ rx'[i - m] = rx[i]
  <2> SUFFICES ASSUME NEW i \in peeked + 1 .. Len(rx)
               PROVE  i - m \in p + 1 .. Len(rx') /\ rx'[i - m] = rx[i]
    OBVIOUS
  <2>1. i - m \in 1 .. Len(rx) - m /\ m + (i - m) = i /\ i - m \in p + 1 .. Len(rx')
    BY <1>2, <1>9, <1>10
  <2>2. rx'[i - m] = rx[m + (i - m)]
    BY <1>10, <2>1
  <2> QED BY <2>1, <2>2
<1>13. {rx'[i] : i \in p + 1 .. Len(rx')} = {rx[i] : i \in peeked + 1 .. Len(rx)}
  BY <1>11, <1>12
<1>14. Received' = Later
  <2>1. Received' = {rx'[i] : i \in p + 1 .. Len(rx')}
    BY <1>8 DEF Received, Entries, p
  <2> QED BY <1>13, <2>1 DEF Later, Entries
<1>15. ~HasDuplicates(rx', Processed' + 1)
  <2> SUFFICES ASSUME NEW i \in p + 1 .. Len(rx'), NEW j \in p + 1 .. Len(rx'), i # j,
                      rx'[i] = rx'[j]
               PROVE  FALSE
    BY <1>8 DEF HasDuplicates, p
  <2>1. m + i # m + j
    BY <1>9
  <2> QED BY <1>1, <1>11, <2>1 DEF HasDuplicates
<1> QED BY <1>3, <1>5, <1>6, <1>7, <1>8, <1>10, <1>14, <1>15 DEF m

LEMMA PlaceKeepsShape ==
  ASSUME Shape, NoDoubleOwner, RingsWithinSize, Mixed, FirstSlots, place_batch
  PROVE  Shape'
<1>1. /\ pc' = "top" /\ mix # NoMix
      /\ UNCHANGED <<fqLag, wakeVars, nicVars, cq, cqPeeked, config>>
      /\ outstanding_tx' = outstanding_tx + Cardinality(With("SEND"))
  BY DEF place_batch, OutstandingAfter
<1>2. outstanding_tx' \in Nat
  <2>1. Cardinality(With("SEND")) \in Nat
    BY <1>1, ChosenEntries DEF Verdicts
  <2> QED BY <1>1, <2>1 DEF Shape, TypeOK
<1>3. /\ fq' \in Seq(Frames) /\ tx' \in Seq(Frames) /\ rx' \in Seq(Frames)
      /\ Len(rx') = Len(rx) - Released /\ Released \in 0 .. todo
      /\ todo' = 0 /\ peeked' = peeked - Released
  BY PlaceParts
<1>4. todo \in Nat /\ peeked \in Nat /\ todo <= peeked /\ peeked <= Len(rx) /\ Len(rx) \in Nat
  BY DEF Shape, TypeOK, BatchInRing
<1>5. peeked' \in Nat /\ todo' \in Nat /\ todo' <= peeked' /\ peeked' <= Len(rx')
  BY <1>3, <1>4
<1>6. TypeOK'
  BY <1>1, <1>2, <1>3, <1>5 DEF Shape, TypeOK, Locations, wakeVars, nicVars
<1>7. BatchInRing'
  BY <1>1, <1>3, <1>5 DEF Shape, BatchInRing
<1> QED BY <1>6, <1>7 DEF Shape

LEMMA PlaceKeepsOwner ==
  ASSUME Shape, NoDoubleOwner, RingsWithinSize, Mixed, FirstSlots, place_batch
  PROVE  NoDoubleOwner'
<1>1. mix # NoMix /\ UNCHANGED <<nicRx, nicTx, cq, cqPeeked>>
  BY DEF place_batch, nicVars
<1> DEFINE D == PickedBy("DROP")
           S == PickedBy("SEND")
           C == Entries(cq, cqPeeked + 1)
<1>2. /\ D \subseteq Received /\ S \subseteq Received /\ D \cap S = {}
      /\ D \cap Later = {} /\ S \cap Later = {} /\ Later \subseteq Received
  BY <1>1, ReceivedParts DEF Verdicts
<1>3. /\ Entries(fq', 1) \subseteq Entries(fq, 1) \cup D /\ ~HasDuplicates(fq', 1)
      /\ Entries(tx', 1) \subseteq Entries(tx, 1) \cup S /\ ~HasDuplicates(tx', 1)
      /\ Received' = Later /\ ~HasDuplicates(rx', Processed' + 1)
  BY PlaceParts
<1>4. /\ Filling' = Entries(fq', 1) \cup nicRx
      /\ Sending' = Entries(tx', 1) \cup nicTx \cup C
      /\ Entries(cq', cqPeeked' + 1) = C
      /\ HasDuplicates(cq', cqPeeked' + 1) = HasDuplicates(cq, cqPeeked + 1)
  BY <1>1 DEF Filling, Sending
<1>5. /\ Filling = Entries(fq, 1) \cup nicRx /\ Sending = Entries(tx, 1) \cup nicTx \cup C
      /\ ~HasDuplicates(cq, cqPeeked + 1)
      /\ Filling \cap Received = {} /\ Filling \cap Sending = {} /\ Received \cap Sending = {}
      /\ Entries(fq, 1) \cap nicRx = {} /\ Entries(tx, 1) \cap nicTx = {}
      /\ (Entries(tx, 1) \cup nicTx) \cap C = {}
  BY DEF NoDoubleOwner, Filling, Sending
<1> HIDE DEF D, S, C
<1>6. /\ Filling' \subseteq Filling \cup D /\ Sending' \subseteq Sending \cup S
      /\ Received' \subseteq Received
  BY <1>2, <1>3, <1>4, <1>5
<1>7. Filling' \cap Received' = {} /\ Filling' \cap Sending' = {} /\ Received' \cap Sending' = {}
  BY <1>2, <1>3, <1>5, <1>6
<1>8. Entries(fq', 1) \cap nicRx' = {} /\ Entries(tx', 1) \cap nicTx' = {}
      /\ (Entries(tx', 1) \cup nicTx') \cap C = {}
  BY <1>1, <1>2, <1>3, <1>5
<1> QED BY <1>1, <1>3, <1>4, <1>5, <1>7, <1>8 DEF NoDoubleOwner

LEMMA PlaceKeepsRings ==
  ASSUME Shape, NoDoubleOwner, RingsWithinSize, Mixed, FirstSlots, place_batch
  PROVE  RingsWithinSize'
<1>1. mix # NoMix /\ UNCHANGED <<fqLag, nicTx, cq>>
  BY DEF place_batch, nicVars
<1>2. /\ Len(fq') = Len(fq) + SlotsOf("DROP") /\ Len(tx') = Len(tx) + SlotsOf("SEND")
      /\ Len(rx') = Len(rx) - Released /\ Released \in 0 .. todo
  BY PlaceParts
<1>3. /\ Len(fq) \in Nat /\ fqLag \in Nat /\ Len(tx) \in Nat /\ Len(rx) \in Nat /\ todo \in Nat
      /\ FillSize \in Nat /\ TxSize \in Nat /\ RxSize \in Nat
  BY SizesAreNat, SizesAssumption DEF Shape, TypeOK
<1>4. SlotsOf("DROP") \in Nat /\ SlotsOf("SEND") \in Nat
  BY <1>1, ReleasedCounts
<1>5. /\ "DROP" \in mix.reserved => Len(fq) + fqLag + SlotsOf("DROP") <= FillSize
      /\ "SEND" \in mix.reserved => Len(tx) + SlotsOf("SEND") <= TxSize
      /\ "DROP" \notin mix.reserved => SlotsOf("DROP") = 0
      /\ "SEND" \notin mix.reserved => SlotsOf("SEND") = 0
  BY <1>1 DEF Mixed, CanReserveFill, CanReserveTx, SlotsOf
<1>6. /\ Len(fq) + fqLag <= FillSize /\ Len(rx) <= RxSize /\ Len(tx) <= TxSize
      /\ Len(cq) + Cardinality(nicTx) <= CompSize
  BY DEF RingsWithinSize
<1>7. Len(fq') + fqLag' <= FillSize
  <2>1. fqLag' = fqLag
    BY <1>1
  <2>2. Len(fq) + fqLag + SlotsOf("DROP") <= FillSize
    BY <1>3, <1>5, <1>6
  <2> QED BY <1>2, <1>3, <1>4, <2>1, <2>2
<1>8. Len(tx') <= TxSize /\ Len(rx') <= RxSize
  BY <1>2, <1>3, <1>4, <1>5, <1>6
<1> QED BY <1>1, <1>6, <1>7, <1>8 DEF RingsWithinSize

\* The entries placed are as many as the slots released; sends that found no
\* slot are counted all the same.
LEMMA PlaceKeepsNumbers ==
  ASSUME Shape, NoDoubleOwner, RingsWithinSize, Mixed, FirstSlots, place_batch
  PROVE  /\ Total' = Total
         /\ outstanding_tx >= OnTheWay => outstanding_tx' >= OnTheWay'
<1>1. /\ mix # NoMix /\ UNCHANGED <<nicRx, nicTx, cq>>
      /\ outstanding_tx' = outstanding_tx + Cardinality(With("SEND"))
  BY DEF place_batch, nicVars, OutstandingAfter
<1>2. /\ Len(fq') = Len(fq) + SlotsOf("DROP") /\ Len(tx') = Len(tx) + SlotsOf("SEND")
      /\ Len(rx') = Len(rx) - Released
  BY PlaceParts
<1>3. /\ InFill \in Nat /\ AtNicRx \in Nat /\ InRx \in Nat
      /\ InTx \in Nat /\ AtNicTx \in Nat /\ InCq \in Nat
  BY CountsAreNat
<1>4. SlotsOf("DROP") \in Nat /\ SlotsOf("SEND") \in Nat
      /\ Released = SlotsOf("DROP") + SlotsOf("SEND")
  BY <1>1, ReleasedCounts
<1>5. /\ InFill' = InFill + SlotsOf("DROP") /\ InTx' = InTx + SlotsOf("SEND")
      /\ InRx' = InRx - Released /\ UNCHANGED <<AtNicRx, AtNicTx, InCq>>
  BY <1>1, <1>2 DEF InFill, AtNicRx, InRx, InTx, AtNicTx, InCq
<1>6. Total' = Total
  BY <1>3, <1>4, <1>5 DEF Total
<1>7. OnTheWay = InTx + AtNicTx + InCq /\ OnTheWay' = InTx' + AtNicTx' + InCq'
  BY DEF OnTheWay, InTx, AtNicTx, InCq
<1>8. OnTheWay' = OnTheWay + SlotsOf("SEND")
  BY <1>3, <1>4, <1>5, <1>7
<1>9. Cardinality(With("SEND")) \in Nat /\ SlotsOf("SEND") <= Cardinality(With("SEND"))
  <2>1. Cardinality(With("SEND")) \in Nat
    BY <1>1, ChosenEntries DEF Verdicts
  <2> QED BY <2>1 DEF SlotsOf
<1>10. OnTheWay \in Nat /\ outstanding_tx \in Nat
  BY <1>3, <1>7 DEF Shape, TypeOK
<1>11. ASSUME outstanding_tx >= OnTheWay PROVE outstanding_tx' >= OnTheWay'
  BY <1>1, <1>4, <1>8, <1>9, <1>10, <1>11
<1> QED BY <1>6, <1>11

(***************************************************************************)
(* The inductive invariant of both builds.  Total counts a frame that was  *)
(* lost by the slot it keeps, so it stays what it was at the start.        *)
(***************************************************************************)
BuildsInv ==
  /\ Shape /\ NoDoubleOwner /\ RingsWithinSize
  /\ Mixed /\ FirstSlots
  /\ Total = FillSize
  /\ outstanding_tx >= OnTheWay
  /\ build \in Builds
  /\ build = "single" => outstanding_tx = OnTheWay

\* Every step of either build is a step of Heart or hands out a batch.
LEMMA StepOfBuilds ==
  ASSUME [NextOfBuilds]_varsOfBuilds
  PROVE  build' = build /\ ([Next]_vars \/ (place_batch /\ build = "batching"))
<1>1. ASSUME LoopOfBuilds PROVE build' = build /\ Next
  BY <1>1 DEF LoopOfBuilds, batchVars, Next, Pump
<1>2. ASSUME ApplyOneByOne PROVE build' = build /\ Next
  BY <1>2 DEF ApplyOneByOne, batchVars, Next, Pump
<1>3. ASSUME reserve_batch PROVE build' = build /\ [Next]_vars
  BY <1>3 DEF reserve_batch
<1>4. ASSUME FillTaken \/ XmitTaken PROVE build' = build /\ Next
  BY <1>4 DEF FillTaken, XmitTaken, Next, Kernel
<1>5. ASSUME OtherSteps PROVE build' = build /\ Next
  BY <1>5 DEF OtherSteps, batchVars, Next, Kernel
<1>6. ASSUME UNCHANGED varsOfBuilds PROVE build' = build /\ [Next]_vars
  BY <1>6 DEF varsOfBuilds, batchVars
<1>7. place_batch => build' = build /\ build = "batching"
  BY DEF place_batch
<1> QED BY <1>1, <1>2, <1>3, <1>4, <1>5, <1>6, <1>7 DEF NextOfBuilds

\* The slots of the rings' first entries stay on the rings.
LEMMA FirstSlotsStep ==
  ASSUME FirstSlots, [NextOfBuilds]_varsOfBuilds
  PROVE  FirstSlots'
<1>1. FillSize \in Nat \ {0} /\ TxSize \in Nat \ {0}
  BY SizesAssumption DEF FillSize
<1>2. \A n \in Nat \ {0} : \A first \in 0 .. n - 1 : SlotAfter(first, n) \in 0 .. n - 1
  <2>1. \A n \in Nat \ {0} : \A first \in 0 .. n - 1 : (first + 1) % n \in 0 .. n - 1
    OBVIOUS
  <2> QED BY <2>1 DEF SlotAfter
<1>3. CASE FillTaken
  BY <1>1, <1>2, <1>3 DEF FillTaken, FirstSlots
<1>4. CASE XmitTaken
  BY <1>1, <1>2, <1>4 DEF XmitTaken, FirstSlots
<1>5. LoopOfBuilds \/ ApplyOneByOne \/ reserve_batch \/ place_batch \/ OtherSteps
        \/ UNCHANGED varsOfBuilds => UNCHANGED slotVars
  BY DEF LoopOfBuilds, ApplyOneByOne, reserve_batch, place_batch, OtherSteps, varsOfBuilds, batchVars
<1> QED BY <1>3, <1>4, <1>5 DEF NextOfBuilds, FirstSlots, slotVars

\* A reservation stays good until the batch is handed out.
LEMMA MixedStep ==
  ASSUME Shape, NoDoubleOwner, Mixed, [NextOfBuilds]_varsOfBuilds
  PROVE  Mixed'
<1> DEFINE d == Cardinality(With("DROP"))
           s == Cardinality(With("SEND"))
<1>1. CASE mix' = NoMix
  BY <1>1 DEF Mixed
<1>2. ASSUME mix' = mix, mix # NoMix, UNCHANGED <<build, pc, todo>>,
             CanReserveFill(d) => Len(fq') + fqLag' + d <= FillSize,
             CanReserveTx(s) => Len(tx') + s <= TxSize
      PROVE  Mixed'
  <2>1. With("DROP")' = With("DROP") /\ With("SEND")' = With("SEND")
    BY <1>2 DEF With
  <2>2. mix.verdicts' = mix.verdicts /\ mix.reserved' = mix.reserved
    BY <1>2
  <2> QED BY <1>2, <2>1, <2>2 DEF Mixed, CanReserveFill, CanReserveTx
<1>3. CASE LoopOfBuilds \/ ApplyOneByOne
  <2>1. mix' = mix
    BY <1>3 DEF LoopOfBuilds, ApplyOneByOne, batchVars
  <2>2. mix # NoMix => build = "batching" /\ pc = "run"
    BY DEF Mixed
  <2>3. mix = NoMix
    BY <1>3, <2>2 DEF LoopOfBuilds, ApplyOneByOne, compile, loop_head, kick_tx, complete_tx,
                      poll_rx_queue
  <2> QED BY <1>1, <2>1, <2>3
<1>4. CASE reserve_batch
  <2>1. PICK verdicts \in [1 .. todo -> Verdicts] :
          mix' = [verdicts |-> verdicts,
                  reserved |->
                    {v \in {"DROP", "SEND"} :
                       LET n == Count(verdicts, v) IN
                         n > 0 /\ IF v = "DROP" THEN CanReserveFill(n) ELSE CanReserveTx(n)}]
    BY <1>4 DEF reserve_batch
  <2>2. /\ build' = "batching" /\ pc' = "run" /\ todo' = todo
        /\ fq' = fq /\ fqLag' = fqLag /\ tx' = tx
    BY <1>4 DEF reserve_batch, vars
  <2>3. /\ mix'.verdicts = verdicts /\ mix'.reserved \subseteq {"DROP", "SEND"}
        /\ "DROP" \in mix'.reserved => CanReserveFill(Count(verdicts, "DROP"))
        /\ "SEND" \in mix'.reserved => CanReserveTx(Count(verdicts, "SEND"))
    BY <2>1
  <2>4. /\ Cardinality(With("DROP"))' = Count(verdicts, "DROP")
        /\ Cardinality(With("SEND"))' = Count(verdicts, "SEND")
    BY <2>2, <2>3 DEF With, Count
  <2> QED BY <2>2, <2>3, <2>4 DEF Mixed, CanReserveFill, CanReserveTx
<1>5. CASE place_batch
  BY <1>1, <1>5 DEF place_batch
<1>6. CASE UNCHANGED varsOfBuilds
  BY <1>1, <1>2, <1>6 DEF varsOfBuilds, batchVars, vars, CanReserveFill, CanReserveTx
<1>7. mix # NoMix => d \in Nat /\ s \in Nat
  <2>1. mix # NoMix =>
          todo \in Nat /\ With("DROP") \in SUBSET (1 .. todo) /\ With("SEND") \in SUBSET (1 .. todo)
    BY BatchIs DEF Verdicts
  <2> QED BY <2>1, NthCounts
<1>8. Len(fq) \in Nat /\ fqLag \in Nat /\ Len(tx) \in Nat /\ FillSize \in Nat /\ TxSize \in Nat
  BY SizesAreNat, SizesAssumption DEF Shape, TypeOK
<1> HIDE DEF d, s
<1>9. CASE FillTaken
  <2>1. /\ mix' = mix /\ UNCHANGED <<build, pc, todo, tx>>
        /\ Len(fq') = Len(fq) - 1 /\ fqLag' \in {fqLag, fqLag + 1}
    BY <1>9, TakenFromFill DEF FillTaken, KernelFill, recvVars, sendVars
  <2>2. mix # NoMix /\ Len(fq) + fqLag + d <= FillSize => Len(fq') + fqLag' + d <= FillSize
    BY <1>7, <1>8, <2>1
  <2> QED BY <1>1, <1>2, <2>1, <2>2 DEF CanReserveFill, CanReserveTx
<1>10. CASE XmitTaken
  <2>1. /\ mix' = mix /\ UNCHANGED <<build, pc, todo, fq, fqLag>> /\ Len(tx') = Len(tx) - 1
    BY <1>10, TakenFromTx DEF XmitTaken, KernelXmit, recvVars, fillVars
  <2>2. mix # NoMix /\ Len(tx) + s <= TxSize => Len(tx') + s <= TxSize
    BY <1>7, <1>8, <2>1
  <2> QED BY <1>1, <1>2, <2>1, <2>2 DEF CanReserveFill, CanReserveTx
<1>11. CASE OtherSteps
  <2>1. mix' = mix /\ build' = build
    BY <1>11 DEF OtherSteps, batchVars
  <2>2. UNCHANGED <<pc, todo, fq, tx>> /\ fqLag' \in {0, fqLag}
    <3>1. KernelLook \/ int_handler \/ Finished => UNCHANGED <<pc, todo, fq, tx>> /\ fqLag' \in {0, fqLag}
      BY DEF KernelLook, int_handler, Finished, vars, fillVars, recvVars, sendVars
    <3>2. \A f \in Frames : KernelReceive(f) \/ KernelComplete(f)
            => UNCHANGED <<pc, todo, fq, tx>> /\ fqLag' \in {0, fqLag}
      BY DEF KernelReceive, KernelComplete, fillVars, recvVars, sendVars
    <3> QED BY <1>11, <3>1, <3>2 DEF OtherSteps
  <2>3. mix # NoMix /\ Len(fq) + fqLag + d <= FillSize => Len(fq') + fqLag' + d <= FillSize
    BY <1>7, <1>8, <2>2
  <2> QED BY <1>1, <1>2, <2>1, <2>2, <2>3 DEF CanReserveFill, CanReserveTx
<1> QED BY <1>3, <1>4, <1>5, <1>6, <1>9, <1>10, <1>11 DEF NextOfBuilds

LEMMA TotalInit == Init => Total = FillSize
<1> SUFFICES ASSUME Init PROVE Total = FillSize
  OBVIOUS
<1>1. Len(fq) = FillSize
  BY SizesAreNat DEF Init, Populated
<1>2. /\ Cardinality(nicRx) = 0 /\ Cardinality(nicTx) = 0
      /\ Len(rx) = 0 /\ Len(tx) = 0 /\ Len(cq) = 0
  BY NoCounts DEF Init
<1> QED BY <1>1, <1>2, SizesAreNat DEF Total, InFill, AtNicRx, InRx, InTx, AtNicTx, InCq

LEMMA BuildsInvInit == InitOfBuilds => BuildsInv
<1> SUFFICES ASSUME InitOfBuilds PROVE BuildsInv
  OBVIOUS
<1>1. Init /\ build \in Builds /\ mix = NoMix /\ fqFirst = 0 /\ txFirst = 0
  BY DEF InitOfBuilds
<1>2. Shape /\ NoDoubleOwner /\ RingsWithinSize /\ Total = FillSize
  BY <1>1, ShapeInit, NoDoubleOwnerInit, RingsInit, TotalInit
<1>3. outstanding_tx = OnTheWay /\ OnTheWay \in Nat
  BY <1>1, <1>2, OutstandingInit, OnTheWayIsNat DEF OutstandingExact, OnTheWay
<1>4. FirstSlots
  BY <1>1, SizesAssumption DEF FirstSlots, FillSize
<1> QED BY <1>1, <1>2, <1>3, <1>4 DEF BuildsInv, Mixed

LEMMA BuildsInvStep == BuildsInv /\ [NextOfBuilds]_varsOfBuilds => BuildsInv'
<1> SUFFICES ASSUME BuildsInv, [NextOfBuilds]_varsOfBuilds PROVE BuildsInv'
  OBVIOUS
<1>1. /\ Shape /\ NoDoubleOwner /\ RingsWithinSize /\ Mixed /\ FirstSlots /\ Total = FillSize
      /\ outstanding_tx >= OnTheWay /\ (build = "single" => outstanding_tx = OnTheWay)
      /\ build \in Builds
  BY DEF BuildsInv
<1>2. Mixed' /\ FirstSlots' /\ build' \in Builds
  BY <1>1, MixedStep, FirstSlotsStep, StepOfBuilds
<1>3. OnTheWay \in Nat /\ outstanding_tx \in Nat
  BY <1>1, OnTheWayIsNat DEF Shape, TypeOK
<1>4. CASE [Next]_vars
  <2>1. Shape' /\ NoDoubleOwner' /\ RingsWithinSize'
    BY <1>1, <1>4, ShapeStep, NoDoubleOwnerStep, RingsStep
  <2>2. Total' = FillSize
    BY <1>1, <1>4, TotalStays
  <2>3. outstanding_tx' - OnTheWay' = outstanding_tx - OnTheWay
    BY <1>1, <1>4, ExcessStays
  <2>4. OnTheWay' \in Nat /\ outstanding_tx' \in Nat
    BY <2>1, OnTheWayIsNat DEF Shape, TypeOK
  <2>5. \A a, b, c, e \in Nat : a - b = c - e => (c >= e => a >= b) /\ (c = e => a = b)
    OBVIOUS
  <2>6. outstanding_tx' >= OnTheWay' /\ (outstanding_tx = OnTheWay => outstanding_tx' = OnTheWay')
    BY <1>1, <1>3, <2>3, <2>4, <2>5
  <2>7. build' = build
    BY StepOfBuilds
  <2> QED BY <1>1, <1>2, <2>1, <2>2, <2>6, <2>7 DEF BuildsInv, FillSize
<1>5. CASE place_batch /\ build = "batching"
  <2>1. Shape' /\ NoDoubleOwner' /\ RingsWithinSize'
    BY <1>1, <1>5, PlaceKeepsShape, PlaceKeepsOwner, PlaceKeepsRings
  <2>2. Total' = FillSize /\ outstanding_tx' >= OnTheWay'
    BY <1>1, <1>5, PlaceKeepsNumbers
  <2>3. build' = build
    BY StepOfBuilds
  <2> QED BY <1>2, <1>5, <2>1, <2>2, <2>3 DEF BuildsInv, FillSize
<1> QED BY <1>4, <1>5, StepOfBuilds

LEMMA BuildsInvHolds == SpecOfBuilds => []BuildsInv
BY BuildsInvInit, BuildsInvStep, PTL DEF SpecOfBuilds

(***************************************************************************)
(* In both builds the packets of a batch are peeked entries, a frame has   *)
(* one holder, and no ring overflows: that a failed reservation writes all *)
(* the same (heart.c:335) loses frames, but doubles none.                  *)
(***************************************************************************)
THEOREM BuildsKeepOwners == SpecOfBuilds => [](BatchInRing /\ NoDoubleOwner /\ RingsWithinSize)
<1>1. BuildsInv => BatchInRing /\ NoDoubleOwner /\ RingsWithinSize
  BY DEF BuildsInv, Shape
<1> QED BY <1>1, BuildsInvHolds, PTL

\* Entries that are all different are as many frames.
LEMMA EntriesCount ==
  ASSUME NEW S, NEW ring \in Seq(S), NEW k \in 1 .. Len(ring) + 1, ~HasDuplicates(ring, k)
  PROVE  IsFiniteSet(Entries(ring, k)) /\ Cardinality(Entries(ring, k)) = Len(ring) - k + 1
<1> DEFINE at == [i \in k .. Len(ring) |-> ring[i]]
<1>1. IsFiniteSet(k .. Len(ring)) /\ Cardinality(k .. Len(ring)) = Len(ring) - k + 1
  <2> DEFINE n == Len(ring)
  <2>1. n \in Nat /\ k \in Int /\ n \in Int /\ k <= n + 1
    OBVIOUS
  <2> HIDE DEF n
  <2>2. IsFiniteSet(k .. n) /\ Cardinality(k .. n) = IF k > n THEN 0 ELSE n - k + 1
    BY <2>1, FS_Interval
  <2>3. Cardinality(k .. n) = n - k + 1
    BY <2>1, <2>2
  <2> QED BY <2>2, <2>3 DEF n
<1>2. at \in Surjection(k .. Len(ring), Entries(ring, k))
  BY DEF Surjection, Entries
<1>3. at \in Injection(k .. Len(ring), Entries(ring, k))
  BY DEF Injection, IsInjective, Entries, HasDuplicates
<1> QED BY <1>1, <1>2, <1>3, FS_Surjection

LEMMA FramesCount == IsFiniteSet(Frames) /\ Cardinality(Frames) = FillSize
<1> DEFINE at == [i \in 0 .. FillSize - 1 |-> FrameAt[i]]
<1>1. IsFiniteSet(0 .. FillSize - 1) /\ Cardinality(0 .. FillSize - 1) = FillSize
  BY SizesAreNat, SizesAssumption, FS_Interval DEF FillSize
<1>2. at \in Surjection(0 .. FillSize - 1, Frames)
  BY DEF Surjection, Frames
<1>3. at \in Injection(0 .. FillSize - 1, Frames)
  BY FramesAssumption DEF Injection, IsInjective, Frames
<1> QED BY <1>1, <1>2, <1>3, FS_Surjection

\* The frames of each holder, as entries of its rings.
LEMMA HoldersCount ==
  ASSUME Shape, NoDoubleOwner
  PROVE  /\ Cardinality(Filling) = InFill + AtNicRx
         /\ Cardinality(Received) = InRx - Processed
         /\ Cardinality(Sending) = InTx + AtNicTx + (InCq - cqPeeked)
<1>1. /\ fq \in Seq(Frames) /\ rx \in Seq(Frames) /\ tx \in Seq(Frames) /\ cq \in Seq(Frames)
      /\ nicRx \in SUBSET Frames /\ nicTx \in SUBSET Frames
      /\ cqPeeked \in Nat /\ cqPeeked <= Len(cq)
      /\ Processed \in Nat /\ Processed <= Len(rx)
  BY DEF Shape, TypeOK, BatchInRing, Processed
<1>2. /\ ~HasDuplicates(fq, 1) /\ ~HasDuplicates(rx, Processed + 1) /\ ~HasDuplicates(tx, 1)
      /\ ~HasDuplicates(cq, cqPeeked + 1) /\ Entries(fq, 1) \cap nicRx = {}
      /\ Entries(tx, 1) \cap nicTx = {}
      /\ (Entries(tx, 1) \cup nicTx) \cap Entries(cq, cqPeeked + 1) = {}
  BY DEF NoDoubleOwner
<1>3. /\ IsFiniteSet(nicRx) /\ AtNicRx \in Nat /\ IsFiniteSet(nicTx) /\ AtNicTx \in Nat
  BY <1>1, FramesCount, FS_Subset, FS_CardinalityType DEF AtNicRx, AtNicTx
<1>4. IsFiniteSet(Entries(fq, 1)) /\ Cardinality(Entries(fq, 1)) = InFill /\ InFill \in Nat
  <2>1. 1 \in 1 .. Len(fq) + 1 /\ Len(fq) \in Nat
    BY <1>1
  <2>2. IsFiniteSet(Entries(fq, 1)) /\ Cardinality(Entries(fq, 1)) = Len(fq) - 1 + 1
    BY <1>1, <1>2, <2>1, EntriesCount
  <2> QED BY <2>1, <2>2 DEF InFill
<1>5. Cardinality(Received) = InRx - Processed
  <2>1. Processed + 1 \in 1 .. Len(rx) + 1 /\ Len(rx) \in Nat
    BY <1>1
  <2>2. Cardinality(Entries(rx, Processed + 1)) = Len(rx) - (Processed + 1) + 1
    BY <1>1, <1>2, <2>1, EntriesCount
  <2> QED BY <1>1, <2>1, <2>2 DEF InRx, Received
<1>6. IsFiniteSet(Entries(tx, 1)) /\ Cardinality(Entries(tx, 1)) = InTx /\ InTx \in Nat
  <2>1. 1 \in 1 .. Len(tx) + 1 /\ Len(tx) \in Nat
    BY <1>1
  <2>2. IsFiniteSet(Entries(tx, 1)) /\ Cardinality(Entries(tx, 1)) = Len(tx) - 1 + 1
    BY <1>1, <1>2, <2>1, EntriesCount
  <2> QED BY <2>1, <2>2 DEF InTx
<1>7. /\ IsFiniteSet(Entries(cq, cqPeeked + 1))
      /\ Cardinality(Entries(cq, cqPeeked + 1)) = InCq - cqPeeked /\ InCq - cqPeeked \in Nat
  <2>1. cqPeeked + 1 \in 1 .. Len(cq) + 1 /\ Len(cq) \in Nat
    BY <1>1
  <2>2. /\ IsFiniteSet(Entries(cq, cqPeeked + 1))
        /\ Cardinality(Entries(cq, cqPeeked + 1)) = Len(cq) - (cqPeeked + 1) + 1
    BY <1>1, <1>2, <2>1, EntriesCount
  <2> QED BY <1>1, <2>1, <2>2 DEF InCq
<1>8. \A A, B : IsFiniteSet(A) /\ IsFiniteSet(B) /\ A \cap B = {} =>
        /\ IsFiniteSet(A \cup B)
        /\ Cardinality(A \cup B) = Cardinality(A) + Cardinality(B)
  <2> SUFFICES ASSUME NEW A, NEW B, IsFiniteSet(A), IsFiniteSet(B), A \cap B = {}
               PROVE  /\ IsFiniteSet(A \cup B)
                      /\ Cardinality(A \cup B) = Cardinality(A) + Cardinality(B)
    OBVIOUS
  <2>1. /\ IsFiniteSet(A \cup B)
        /\ Cardinality(A \cup B) = Cardinality(A) + Cardinality(B) - Cardinality(A \cap B)
    BY FS_Union
  <2>2. Cardinality(A) \in Nat /\ Cardinality(B) \in Nat /\ Cardinality(A \cap B) = 0
    BY FS_CardinalityType, NoCounts
  <2> QED BY <2>1, <2>2
<1>9. Cardinality(Filling) = InFill + AtNicRx
  BY <1>2, <1>3, <1>4, <1>8 DEF Filling, AtNicRx
<1>10. Cardinality(Sending) = InTx + AtNicTx + (InCq - cqPeeked)
  <2>1. /\ IsFiniteSet(Entries(tx, 1) \cup nicTx)
        /\ Cardinality(Entries(tx, 1) \cup nicTx) = InTx + AtNicTx
    BY <1>2, <1>3, <1>6, <1>8 DEF AtNicTx
  <2>2. Cardinality((Entries(tx, 1) \cup nicTx) \cup Entries(cq, cqPeeked + 1))
          = Cardinality(Entries(tx, 1) \cup nicTx) + Cardinality(Entries(cq, cqPeeked + 1))
    BY <1>2, <1>7, <1>8, <2>1
  <2>3. Sending = (Entries(tx, 1) \cup nicTx) \cup Entries(cq, cqPeeked + 1)
    BY DEF Sending
  <2> QED BY <1>7, <2>1, <2>2, <2>3
<1> QED BY <1>5, <1>9, <1>10

(***************************************************************************)
(* Whatever is lost is paid for with a slot of the receive ring or of the  *)
(* completion ring that is never given back, in both builds, at every ring *)
(* and batch size: so no more frames get lost than those rings have slots. *)
(***************************************************************************)
THEOREM LossesAreAccounted == SpecOfBuilds => []LossesAccounted
<1>1. BuildsInv => LossesAccounted
  <2> SUFFICES ASSUME BuildsInv PROVE LossesAccounted
    OBVIOUS
  <2>1. Shape /\ NoDoubleOwner /\ Total = FillSize
    BY DEF BuildsInv
  <2>2. /\ Cardinality(Filling) = InFill + AtNicRx
        /\ Cardinality(Received) = InRx - Processed
        /\ Cardinality(Sending) = InTx + AtNicTx + (InCq - cqPeeked)
    BY <2>1, HoldersCount
  <2>3. /\ InFill \in Nat /\ AtNicRx \in Nat /\ InRx \in Nat
        /\ InTx \in Nat /\ AtNicTx \in Nat /\ InCq \in Nat /\ cqPeeked \in Nat
    BY <2>1, CountsAreNat
  <2>4. Processed \in Nat
    BY <2>1 DEF Shape, TypeOK, BatchInRing, Processed
  <2>5. (InFill + AtNicRx) + (InRx - Processed) + (InTx + AtNicTx + (InCq - cqPeeked))
          + Processed + cqPeeked = Total
    BY <2>3, <2>4 DEF Total
  <2> QED BY <2>1, <2>2, <2>5, FramesCount DEF LossesAccounted
<1> QED BY <1>1, BuildsInvHolds, PTL

(***************************************************************************)
(* The loop never stops looking for completions while a frame is on its    *)
(* way (heart.c:417): outstanding_tx may count sends that found no slot,   *)
(* but never misses one that did; without batching it is exact.            *)
(***************************************************************************)
THEOREM OutstandingIsCovered == SpecOfBuilds => []OutstandingCovers
<1>1. BuildsInv => OutstandingCovers
  BY DEF BuildsInv, OutstandingCovers, OutstandingExact, OnTheWay
<1> QED BY <1>1, BuildsInvHolds, PTL

\* A batch that is handed out takes each of its packets along the cycle, or
\* loses it, and may push others off a ring it wrote over.
LEMMA PlaceFollowsCycle ==
  ASSUME BuildsInv, NoDoubleOwner', place_batch, LazyFill, NEW f \in Frames
  PROVE  Holder(f)' = Holder(f) \/ <<Holder(f), Holder(f)'>> \in Cycle!Moves \cup Cycle!Losses
<1>0. /\ Shape /\ NoDoubleOwner /\ RingsWithinSize /\ Mixed /\ FirstSlots /\ mix # NoMix
      /\ UNCHANGED <<nicRx, nicTx, cq, cqPeeked>>
  BY DEF BuildsInv, place_batch, nicVars
<1>1. /\ Entries(fq', 1) \subseteq Entries(fq, 1) \cup PickedBy("DROP")
      /\ Entries(tx', 1) \subseteq Entries(tx, 1) \cup PickedBy("SEND")
      /\ Received' = Later
  BY <1>0, PlaceParts
<1>2. PickedBy("DROP") \subseteq Received /\ PickedBy("SEND") \subseteq Received
      /\ Later \subseteq Received
  BY <1>0, ReceivedParts DEF Verdicts
<1>3. /\ Filling' \subseteq Filling \cup Received /\ Sending' \subseteq Sending \cup Received
      /\ Received' \subseteq Received
  BY <1>0, <1>1, <1>2 DEF Filling, Sending
<1>4. /\ Filling \cap Received = {} /\ Filling \cap Sending = {} /\ Received \cap Sending = {}
      /\ Filling' \cap Received' = {} /\ Filling' \cap Sending' = {} /\ Received' \cap Sending' = {}
  BY <1>0 DEF NoDoubleOwner
<1>5. /\ f \in Filling  => Holder(f) = "kernel"
      /\ f \in Received => Holder(f) = "pump"
      /\ f \in Sending  => Holder(f) = "wire"
      /\ f \notin Filling \cup Received \cup Sending => Holder(f) = "lost"
  BY <1>4 DEF Holder
<1>6. /\ f \in Filling'  => Holder(f)' = "kernel"
      /\ f \in Received' => Holder(f)' = "pump"
      /\ f \in Sending'  => Holder(f)' = "wire"
      /\ f \notin Filling' \cup Received' \cup Sending' => Holder(f)' = "lost"
  BY <1>4 DEF Holder
<1>7. Holder(f)' = "lost" => <<Holder(f), Holder(f)'>> \in Cycle!Losses
  BY <1>5 DEF Cycle!Losses, Cycle!Holders
<1>8. Holder(f)' # "lost" =>
        Holder(f)' = Holder(f) \/ <<Holder(f), Holder(f)'>> \in Cycle!Moves
  BY <1>3, <1>4, <1>5, <1>6 DEF Cycle!Moves
<1> QED BY <1>7, <1>8

(***************************************************************************)
(* Both builds implement the cycle of a frame, if frames may get lost: the *)
(* batching build loses some even with a kernel that publishes at once.    *)
(***************************************************************************)
THEOREM BuildsImplementCycle ==
  ASSUME LazyFill
  PROVE  SpecOfBuilds => ImplementsCycle
<1> DEFINE h == [f \in Frames |-> Holder(f)]
<1>1. InitOfBuilds => Cycle!Init
  <2> SUFFICES ASSUME Init, NEW f \in Frames PROVE Holder(f) = "kernel"
    BY DEF InitOfBuilds, Cycle!Init
  <2> QED BY StartsWithKernel
<1>2. BuildsInv /\ BuildsInv' /\ [NextOfBuilds]_varsOfBuilds => [Cycle!Next]_h
  <2> SUFFICES ASSUME BuildsInv, BuildsInv', [NextOfBuilds]_varsOfBuilds, h' # h
               PROVE  Cycle!Next
    OBVIOUS
  <2> DEFINE moved == {f \in Frames : h'[f] # h[f]}
  <2>1. moved \in SUBSET Frames /\ moved # {}
    <3>1. h = [f \in Frames |-> h[f]] /\ h' = [f \in Frames |-> h'[f]]
      OBVIOUS
    <3> QED BY <3>1
  <2>2. \A f \in Frames \ moved : h'[f] = h[f]
    OBVIOUS
  <2>3. \A f \in moved : <<h[f], h'[f]>> \in Cycle!Moves \cup Cycle!Losses
    <3>1. Sound /\ NoDoubleOwner /\ NoDoubleOwner'
      BY DEF BuildsInv, Sound, NothingLost
    <3> QED BY <3>1, MovesFollowCycle, PlaceFollowsCycle, StepOfBuilds
  <2> QED BY <2>1, <2>2, <2>3 DEF Cycle!Next, Cycle!Goes
<1> QED BY <1>1, <1>2, BuildsInvHolds, PTL DEF SpecOfBuilds, ImplementsCycle, Cycle!Spec
=============================================================================
