----------------------------- MODULE HeartBatch -----------------------------
(***************************************************************************)
(* The two builds of the pump.  With VM_CALL_BATCHING (heart.c:20) the     *)
(* eBPF program sees a whole batch at once and apply_mix_action hands the  *)
(* verdicts out: it asks each ring once for all the slots the batch needs  *)
(* and gets all of them or none.  Otherwise it is the pump of Heart.       *)
(*                                                                         *)
(* When a reservation fails the descriptors are written all the same, from *)
(* slot 0 of the ring on, so here a ring's entries have slot numbers.      *)
(***************************************************************************)
EXTENDS Heart, FiniteSetsExt

CONSTANT Builds      \* the builds looked at

ASSUME BuildsAssumption == Builds \subseteq {"single", "batching"}

VARIABLES
  build,             \* how the program was compiled
  mix,               \* what apply_mix_action has found out before it writes
  fqFirst, txFirst   \* the slots of the first entries of fq and tx

slotVars  == <<fqFirst, txFirst>>
batchVars == <<build, mix, slotVars>>
varsOfBuilds == <<vars, batchVars>>

NoMix == [verdicts |-> << >>, reserved |-> {}]

InitOfBuilds ==
  /\ Init
  /\ build \in Builds
  /\ mix = NoMix
  /\ fqFirst = 0
  /\ txFirst = 0

(***************************************************************************)
(* apply_mix_action                                                        *)
(***************************************************************************)
Batch == [i \in 1 .. todo |-> rx[peeked - todo + i]]

\* The frames of the batch that got a verdict, in the order of the batch:
\* index_target counts how many there were.
With(verdict)   == {i \in 1 .. todo : mix.verdicts[i] = verdict}
Nth(S, n)       == CHOOSE i \in S : Cardinality({j \in S : j <= i}) = n
Chosen(verdict) == [n \in 1 .. Cardinality(With(verdict)) |-> Batch[Nth(With(verdict), n)]]

Count(verdicts, verdict) == Cardinality({i \in DOMAIN verdicts : verdicts[i] = verdict})

\* Counting the verdicts of the batch and asking each ring for its share.
reserve_batch ==
  /\ build = "batching"
  /\ pc = "run"
  /\ mix = NoMix
  /\ \E verdicts \in [1 .. todo -> Verdicts] :
       mix' = [verdicts |-> verdicts,
               reserved |->
                 {v \in {"DROP", "SEND"} :
                    LET n == Count(verdicts, v) IN
                      n > 0 /\ IF v = "DROP" THEN CanReserveFill(n) ELSE CanReserveTx(n)}]
  /\ UNCHANGED <<vars, build, slotVars>>

\* Behind the ring's entries if their slots were reserved, else over whatever
\* the slots from 0 on hold; only an entry still to be taken matters.
Overwritten(ring, first, size, addrs) ==
  [i \in 1 .. Len(ring) |->
     LET hits == {n \in 1 .. Len(addrs) : (n - 1) % size = (first + i - 1) % size}
     IN  IF hits = {} THEN ring[i] ELSE addrs[Max(hits)]]

Placed(ring, first, size, verdict) ==
  IF verdict \in mix.reserved THEN ring \o Chosen(verdict)
  ELSE Overwritten(ring, first, size, Chosen(verdict))

\* Mutants: a batch counts as one frame to send; the whole batch is released.
OutstandingPerBatch == outstanding_tx + (IF With("SEND") = {} THEN 0 ELSE 1)
ReleasedWholeBatch  == todo

\* The frames to send are counted as outstanding, reserved or not.
OutstandingAfter == outstanding_tx + Cardinality(With("SEND"))
Released         == Cardinality(UNION {With(verdict) : verdict \in mix.reserved})

\* Writing the descriptors, then submitting and releasing what was reserved.
\* PASS is "not implemented yet": it gives nothing back.
place_batch ==
  /\ build = "batching"
  /\ mix # NoMix
  /\ fq' = Placed(fq, fqFirst, FillSize, "DROP")
  /\ tx' = Placed(tx, txFirst, TxSize, "SEND")
  /\ rx' = SubSeq(rx, Released + 1, Len(rx))
  /\ peeked' = peeked - Released
  /\ todo' = 0
  /\ outstanding_tx' = OutstandingAfter
  /\ mix' = NoMix
  /\ pc' = "top"
  /\ UNCHANGED <<fqLag, wakeVars, nicVars, cq, cqPeeked, config, build, slotVars>>

(***************************************************************************)
(* The rest of the pump is the same in both builds, and so is the kernel.  *)
(***************************************************************************)
LoopOfBuilds ==
  /\ compile \/ loop_head \/ kick_tx \/ complete_tx \/ poll_rx_queue
  /\ UNCHANGED batchVars

ApplyOneByOne ==
  /\ build = "single"
  /\ \E action \in Verdicts : apply_action(action)
  /\ UNCHANGED batchVars

\* Slot numbers matter to the batching build only.
SlotAfter(first, size) == IF build = "batching" THEN (first + 1) % size ELSE first

FillTaken ==
  /\ KernelFill
  /\ fqFirst' = SlotAfter(fqFirst, FillSize)
  /\ UNCHANGED <<build, mix, txFirst>>

XmitTaken ==
  /\ KernelXmit
  /\ txFirst' = SlotAfter(txFirst, TxSize)
  /\ UNCHANGED <<build, mix, fqFirst>>

OtherSteps ==
  /\ \/ KernelLook \/ int_handler \/ Finished
     \/ \E f \in Frames : KernelReceive(f) \/ KernelComplete(f)
  /\ UNCHANGED batchVars

NextOfBuilds ==
  \/ LoopOfBuilds \/ ApplyOneByOne \/ reserve_batch \/ place_batch
  \/ FillTaken \/ XmitTaken \/ OtherSteps

SpecOfBuilds == InitOfBuilds /\ [][NextOfBuilds]_varsOfBuilds

(***************************************************************************)
(* Every frame that left the cycle is paid for with a slot that was peeked *)
(* and never released, of the receive ring or the completion ring; so the  *)
(* pump can lose at most RxSize + CompSize frames before it stands still.  *)
(* A slot released without its frame handed on, or a frame handed on with  *)
(* its slot kept, would break the balance: in the batching build (heart.c: *)
(* 354) any verdict but SEND and DROP, and every failed reservation, keeps *)
(* slots of the oldest packets, not its own.                               *)
(***************************************************************************)
LossesAccounted ==
  Cardinality(Filling) + Cardinality(Received) + Cardinality(Sending)
    + Processed + cqPeeked = Cardinality(Frames)

(***************************************************************************)
(* outstanding_tx is never below the number of frames on their way through *)
(* tx and cq, or the loop would stop collecting them (heart.c:417).  It is *)
(* above it for ever after once a whole batch of sends found no room       *)
(* (heart.c:360), so it is then no count any more.                         *)
(***************************************************************************)
OutstandingCovers ==
  /\ outstanding_tx >= Len(tx) + Cardinality(nicTx) + Len(cq)
  /\ build = "single" => OutstandingExact
=============================================================================
