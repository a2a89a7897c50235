-------------------------------- MODULE Heart --------------------------------
(***************************************************************************)
(* The packet pump of Servant (src/heart.c): one thread that moves UMEM    *)
(* frames between the four AF_XDP rings of one socket.                     *)
(*                                                                         *)
(*      fq --kernel--> nicRx --kernel--> rx --pump--> tx                   *)
(*       ^                                |            | kernel            *)
(*       |                                | drop       v                   *)
(*       +------pump------ cq <--kernel-- | ------ nicTx                   *)
(*       +--------------------------------+                                *)
(*                                                                         *)
(* A frame is its address, a ring is the sequence of the entries between   *)
(* its published consumer and producer index.  A ring whose consumer is    *)
(* the pump also has the entries it has peeked (its cached_cons is ahead   *)
(* of the consumer index) but not released.  The kernel and the NIC are    *)
(* external: their actions are what the rings' protocol lets them do.      *)
(***************************************************************************)
EXTENDS Naturals, Sequences, FiniteSets

CONSTANTS
  RxSize,     \* config.rx_size; the fill ring and the UMEM population are twice that
  TxSize,     \* config.tx_size; the completion ring is twice that
  BatchSize,  \* config.batch_size
  FrameAt,    \* the address of the i-th frame of the UMEM: i * config.frame_size
  CopyModes,  \* which of config.copy_mode = XDP_COPY the user may ask for
  BusyPolls,  \* which of config.busy_poll
  LazyFill,   \* may the kernel publish the fill ring's consumer index late?
  TxSleeps    \* may a zero-copy driver stop looking at the transmit ring?

ASSUME SizesAssumption ==
  /\ RxSize \in Nat \ {0}
  /\ TxSize \in Nat \ {0}
  /\ BatchSize \in Nat \ {0}

ASSUME ModesAssumption ==
  /\ CopyModes \subseteq BOOLEAN /\ BusyPolls \subseteq BOOLEAN
  /\ LazyFill \in BOOLEAN /\ TxSleeps \in BOOLEAN

FillSize == 2 * RxSize
CompSize == 2 * TxSize
Frames   == {FrameAt[i] : i \in 0 .. FillSize - 1}

ASSUME FramesAssumption ==
  /\ DOMAIN FrameAt = 0 .. FillSize - 1
  /\ \A i, j \in DOMAIN FrameAt : i # j => FrameAt[i] # FrameAt[j]

Verdicts == {"SEND", "PASS", "DROP"}

VARIABLES
  fq,              \* fill ring: frames submitted and not yet taken by the kernel
  fqLag,           \* entries the kernel took without publishing its consumer index
  fqWakeup,        \* the NEED_WAKEUP flag of the fill ring
  txWakeup,        \* the NEED_WAKEUP flag of the transmit ring
  nicRx,           \* frames the kernel holds to receive into
  rx,              \* receive ring
  peeked,          \* entries of rx peeked and not released
  todo,            \* entries of the current batch not yet handed to apply_action
  tx,              \* transmit ring
  nicTx,           \* frames being transmitted
  cq,              \* completion ring
  cqPeeked,        \* entries of cq peeked and not released
  outstanding_tx,  \* xsk->outstanding_tx
  config,          \* the fields of config the pump reads
  pc               \* where the pump is

vars == <<fq, fqLag, fqWakeup, txWakeup, nicRx, rx, peeked, todo, tx, nicTx, cq,
          cqPeeked, outstanding_tx, config, pc>>

fillVars == <<fq, fqLag>>
wakeVars == <<fqWakeup, txWakeup>>
recvVars == <<rx, peeked, todo>>
sendVars == <<tx, nicTx, cq, cqPeeked, outstanding_tx>>
nicVars  == <<nicRx, nicTx>>

Locations == {"compile", "top", "kick", "complete", "poll", "run", "done", "exit"}
Stopped   == pc \in {"done", "exit"}

(***************************************************************************)
(* The ring operations of libbpf's xsk.h.                                  *)
(***************************************************************************)
\* How many entries a peek for n returns: it looks at its cached producer
\* index first, so it may see fewer than there are, but none only if none is.
Peek(available, n) ==
  {k \in 0 .. n : k <= available /\ (k = 0 => available = 0 \/ n = 0)}

\* xsk_ring_prod__reserve gives all n entries or none of them.
CanReserveFillButOne(n)   == Len(fq) + fqLag + n < FillSize   \* mutant
CanReserveTxBeyondSize(n) == Len(tx) + n <= TxSize + 1        \* mutant

CanReserveFill(n) == Len(fq) + fqLag + n <= FillSize
CanReserveTx(n)   == Len(tx) + n <= TxSize

(***************************************************************************)
(* setup_socket has put every frame on the fill ring.                      *)
(***************************************************************************)
Populated == [i \in 1 .. FillSize |-> FrameAt[i - 1]]

Init ==
  /\ fq = Populated
  /\ fqLag = 0
  /\ fqWakeup = FALSE
  /\ txWakeup = FALSE
  /\ nicRx = {}
  /\ rx = << >>
  /\ peeked = 0
  /\ todo = 0
  /\ tx = << >>
  /\ nicTx = {}
  /\ cq = << >>
  /\ cqPeeked = 0
  /\ outstanding_tx = 0
  /\ config \in [copy_mode : CopyModes, busy_poll : BusyPolls, terminate : {FALSE}]
  /\ pc = "compile"

(***************************************************************************)
(* The pump.                                                               *)
(***************************************************************************)
\* ubpf_compile either yields the program or makes pump_packets return.
compile ==
  /\ pc = "compile"
  /\ pc' \in {"top", "done"}
  /\ UNCHANGED <<fillVars, wakeVars, recvVars, sendVars, nicRx, config>>

\* Mutant: the signal is noticed only when nothing is outstanding.
loop_head_drains_first ==
  /\ pc = "top"
  /\ pc' = IF outstanding_tx > 0 THEN "kick" ELSE IF config.terminate THEN "done" ELSE "poll"
  /\ UNCHANGED <<fillVars, wakeVars, recvVars, sendVars, nicRx, config>>

\* The head of the loop: the only place that looks at config.terminate.
loop_head ==
  /\ pc = "top"
  /\ \/ /\ config.terminate
        /\ pc' = "done"
     \/ /\ ~config.terminate
        /\ outstanding_tx > 0
        /\ pc' = IF config.copy_mode THEN "kick" ELSE "complete"
     \/ /\ ~config.terminate
        /\ outstanding_tx = 0
        /\ pc' = "poll"
  /\ UNCHANGED <<fillVars, wakeVars, recvVars, sendVars, nicRx, config>>

\* The sendto of kick_tx returns: ENOBUFS, EAGAIN, EBUSY and ENETDOWN are
\* ignored, any other error ends the process.  What the kernel transmits
\* during the call is KernelXmit at pc = "kick".  Only copy mode calls it: the
\* test of the transmit ring's wakeup flag is commented out.
kick_tx ==
  /\ pc = "kick"
  /\ pc' \in {"complete", "exit"}
  /\ UNCHANGED <<fillVars, wakeVars, recvVars, sendVars, nicRx, config>>

CompletionBatch == IF outstanding_tx > BatchSize THEN BatchSize ELSE outstanding_tx

\* Mutants: the next peek sees the abandoned completions again; the counter
\* loses what was asked for, not what came.
RecycleRewinds(rcvd) ==
  /\ CanReserveFill(rcvd)
  /\ fq' = fq \o SubSeq(cq, cqPeeked + 1, cqPeeked + rcvd)
  /\ cq' = SubSeq(cq, rcvd + 1, Len(cq))
  /\ outstanding_tx' = outstanding_tx - rcvd
  /\ cqPeeked' = 0

RecycleCountsAsked(rcvd) ==
  /\ CanReserveFill(rcvd)
  /\ fq' = fq \o SubSeq(cq, cqPeeked + 1, cqPeeked + rcvd)
  /\ cq' = SubSeq(cq, rcvd + 1, Len(cq))
  /\ outstanding_tx' = outstanding_tx - CompletionBatch
  /\ UNCHANGED cqPeeked

\* Completed frames go back to the fill ring.  When the fill ring has no room
\* the peeked completions are neither released nor cancelled.
Recycle(rcvd) ==
  /\ CanReserveFill(rcvd)
  /\ fq' = fq \o SubSeq(cq, cqPeeked + 1, cqPeeked + rcvd)
  /\ cq' = SubSeq(cq, rcvd + 1, Len(cq))
  /\ outstanding_tx' = outstanding_tx - rcvd
  /\ UNCHANGED cqPeeked

Abandon(rcvd) ==
  /\ ~CanReserveFill(rcvd)
  /\ cqPeeked' = cqPeeked + rcvd
  /\ UNCHANGED <<fq, cq, outstanding_tx>>

complete_tx ==
  /\ pc = "complete"
  /\ \E rcvd \in Peek(Len(cq) - cqPeeked, CompletionBatch) :
       Recycle(rcvd) \/ Abandon(rcvd)
  /\ pc' = "poll"
  /\ UNCHANGED <<fqLag, wakeVars, recvVars, tx, nicVars, config>>

\* After an empty poll the pump calls recvfrom, which has the driver poll both
\* its queues, if the socket busy-polls or the fill ring asks for it.
CallsRecvfromBusyOnly   == config.busy_poll   \* mutant
CallsRecvfromOnFlagOnly == fqWakeup           \* mutant

CallsRecvfrom == config.busy_poll \/ fqWakeup
DriverPolled  == fqWakeup' = FALSE /\ txWakeup' = FALSE
WakeRx        == IF CallsRecvfrom THEN DriverPolled ELSE UNCHANGED wakeVars

poll_rx_queue ==
  /\ pc = "poll"
  /\ \E rcvd \in Peek(Len(rx) - peeked, BatchSize) :
       \/ /\ rcvd = 0
          /\ WakeRx
          /\ pc' = "top"
          /\ UNCHANGED <<peeked, todo>>
       \/ /\ rcvd > 0
          /\ peeked' = peeked + rcvd
          /\ todo' = rcvd
          /\ pc' = "run"
          /\ UNCHANGED wakeVars
  /\ UNCHANGED <<fillVars, rx, sendVars, nicRx, config>>

\* batch[i] points at a slot of rx that was peeked and not released.
Desc == rx[peeked - todo + 1]

\* Mutant: the first packet releases the whole batch.
ReleaseBatch ==
  /\ rx' = SubSeq(rx, peeked + 1, Len(rx))
  /\ peeked' = 0

\* xsk_ring_cons__release(&xsk->rx, 1) frees the oldest slot, whichever it is.
ReleaseRx ==
  /\ rx' = Tail(rx)
  /\ peeked' = peeked - 1

\* Mutants: the slot of a sent packet is not released; a sent frame is given
\* to the fill ring as well.
send_desc_without_release ==
  /\ CanReserveTx(1)
  /\ tx' = Append(tx, Desc)
  /\ outstanding_tx' = outstanding_tx + 1
  /\ UNCHANGED <<fq, rx, peeked>>

send_desc_and_refill ==
  /\ CanReserveTx(1)
  /\ tx' = Append(tx, Desc)
  /\ fq' = Append(fq, Desc)
  /\ outstanding_tx' = outstanding_tx + 1
  /\ ReleaseRx

send_desc ==
  /\ CanReserveTx(1)
  /\ tx' = Append(tx, Desc)
  /\ outstanding_tx' = outstanding_tx + 1
  /\ ReleaseRx
  /\ UNCHANGED fq

\* When the fill ring is full drop() returns 0, which no caller acts on.
drop ==
  /\ \/ /\ CanReserveFill(1)
        /\ fq' = Append(fq, Desc)
        /\ ReleaseRx
     \/ /\ ~CanReserveFill(1)
        /\ UNCHANGED <<fq, rx, peeked>>
  /\ UNCHANGED <<tx, outstanding_tx>>

\* The program's verdict is applied to the next packet of the batch.  PASS
\* hands the payload to the application and then drops, as DROP and every
\* verdict the code does not know.
apply_action(action) ==
  /\ pc = "run"
  /\ \/ action = "SEND" /\ send_desc
     \/ action = "SEND" /\ ~CanReserveTx(1) /\ drop
     \/ action # "SEND" /\ drop
  /\ todo' = todo - 1
  /\ pc' = IF todo = 1 THEN "top" ELSE "run"
  /\ UNCHANGED <<fqLag, wakeVars, nicVars, cq, cqPeeked, config>>

Pump ==
  \/ compile
  \/ loop_head
  \/ kick_tx
  \/ complete_tx
  \/ poll_rx_queue
  \/ \E action \in Verdicts : apply_action(action)

(***************************************************************************)
(* The kernel, the NIC and the signal handler.                             *)
(***************************************************************************)
\* The kernel takes a fill entry, publishing that at once or later.
KernelFill ==
  /\ fq # << >>
  /\ ~fqWakeup
  /\ fq' = Tail(fq)
  /\ nicRx' = nicRx \cup {Head(fq)}
  /\ fqLag' = IF LazyFill THEN fqLag + 1 ELSE fqLag
  /\ UNCHANGED <<wakeVars, recvVars, sendVars, config, pc>>

\* The kernel looks for more fill entries: it publishes how many it has taken
\* and, finding none, asks to be woken up.
KernelLook ==
  /\ ~fqWakeup
  /\ fqLag > 0 \/ fq = << >>
  /\ fqLag' = 0
  /\ fqWakeup' = (fq = << >>)
  /\ UNCHANGED <<fq, txWakeup, recvVars, sendVars, nicRx, config, pc>>

\* A zero-copy driver found the transmit ring empty: it too asks to be woken up.
KernelSleepTx ==
  /\ TxSleeps
  /\ ~config.copy_mode
  /\ tx = << >>
  /\ ~txWakeup
  /\ txWakeup' = TRUE
  /\ UNCHANGED <<fillVars, fqWakeup, recvVars, sendVars, nicRx, config, pc>>

\* A packet that comes in has the driver look at its transmit ring as well.
KernelReceive(f) ==
  /\ Len(rx) < RxSize
  /\ f \in nicRx
  /\ nicRx' = nicRx \ {f}
  /\ rx' = Append(rx, f)
  /\ txWakeup' = FALSE
  /\ UNCHANGED <<fillVars, fqWakeup, peeked, todo, sendVars, config, pc>>

\* A frame is taken for transmission once a completion entry is reserved for
\* it: at any time in zero-copy mode, inside sendto in copy mode.
KernelXmit ==
  /\ config.copy_mode => pc = "kick"
  /\ ~txWakeup
  /\ tx # << >>
  /\ Len(cq) + Cardinality(nicTx) < CompSize
  /\ tx' = Tail(tx)
  /\ nicTx' = nicTx \cup {Head(tx)}
  /\ UNCHANGED <<fillVars, wakeVars, recvVars, nicRx, cq, cqPeeked,
                 outstanding_tx, config, pc>>

KernelComplete(f) ==
  /\ f \in nicTx
  /\ nicTx' = nicTx \ {f}
  /\ cq' = Append(cq, f)
  /\ UNCHANGED <<fillVars, wakeVars, recvVars, nicRx, tx, cqPeeked,
                 outstanding_tx, config, pc>>

Kernel ==
  \/ KernelFill \/ KernelLook \/ KernelSleepTx \/ KernelXmit
  \/ \E f \in Frames : KernelReceive(f) \/ KernelComplete(f)

int_handler ==
  /\ ~config.terminate
  /\ config' = [config EXCEPT !.terminate = TRUE]
  /\ UNCHANGED <<fillVars, wakeVars, recvVars, sendVars, nicRx, pc>>

\* The pump has returned (or the process is gone) and nothing else moves.
Finished ==
  /\ Stopped
  /\ UNCHANGED vars

Next == Pump \/ Kernel \/ int_handler \/ Finished

Spec == Init /\ [][Next]_vars

(***************************************************************************)
(* The pump thread always gets to its next step: the calls it makes on the *)
(* rings' behalf are MSG_DONTWAIT, and the sendto of a PASS to a raw       *)
(* socket, which may wait for room in its send buffer (udp_socket.c:46),   *)
(* is taken to be let go in the end by the network stack, which empties    *)
(* it.  The kernel finishes what it started, and a kick that is repeated   *)
(* for ever is not refused for ever.  Nobody has to send packets to us.    *)
(***************************************************************************)
Fairness ==
  /\ WF_vars(Pump)
  /\ \A f \in Frames : WF_vars(KernelComplete(f))
  /\ SF_vars(KernelXmit)

FairSpec == Spec /\ Fairness

(***************************************************************************)
(* Who holds a frame.  Entries of rx and cq that the pump has dealt with,  *)
(* or given up, stay in the ring until released: they hold nothing.        *)
(***************************************************************************)
Entries(ring, first) == {ring[i] : i \in first .. Len(ring)}

Processed == peeked - todo        \* entries of rx that apply_action is done with
Filling   == Entries(fq, 1) \cup nicRx
Received  == Entries(rx, Processed + 1)
Sending   == Entries(tx, 1) \cup nicTx \cup Entries(cq, cqPeeked + 1)

TypeOK ==
  /\ fq \in Seq(Frames)
  /\ fqLag \in Nat
  /\ fqWakeup \in BOOLEAN
  /\ txWakeup \in BOOLEAN
  /\ nicRx \subseteq Frames
  /\ rx \in Seq(Frames)
  /\ peeked \in Nat
  /\ todo \in Nat
  /\ tx \in Seq(Frames)
  /\ nicTx \subseteq Frames
  /\ cq \in Seq(Frames)
  /\ cqPeeked \in Nat
  /\ outstanding_tx \in Nat
  /\ config \in [copy_mode : BOOLEAN, busy_poll : BOOLEAN, terminate : BOOLEAN]
  /\ pc \in Locations

(***************************************************************************)
(* batch[] (heart.c:146) points into the receive ring, and every packet of *)
(* the batch releases one slot while later ones are still pointed at: the  *)
(* packets still to do are always peeked, unreleased entries, so no slot   *)
(* the kernel may overwrite is read.  A batch is in progress only inside   *)
(* the packet loop.                                                        *)
(***************************************************************************)
BatchInRing ==
  /\ todo <= peeked
  /\ peeked <= Len(rx)
  /\ cqPeeked <= Len(cq)
  /\ pc = "run" <=> todo > 0

(***************************************************************************)
(* No ring is ever asked to hold more than it has slots: the producers'    *)
(* reservations and the kernel's reserved completions add up.              *)
(***************************************************************************)
RingsWithinSize ==
  /\ Len(fq) + fqLag <= FillSize
  /\ Len(rx) <= RxSize
  /\ Len(tx) <= TxSize
  /\ Len(cq) + Cardinality(nicTx) <= CompSize

(***************************************************************************)
(* A frame has one holder, and one entry of one ring: it is never free for *)
(* the kernel to receive into while it waits for its verdict or is being   *)
(* transmitted, so a packet is never overwritten by another one.           *)
(***************************************************************************)
HasDuplicates(ring, first) ==
  \E i, j \in first .. Len(ring) : i # j /\ ring[i] = ring[j]

NoDoubleOwner ==
  /\ ~HasDuplicates(fq, 1)
  /\ ~HasDuplicates(rx, Processed + 1)
  /\ ~HasDuplicates(tx, 1)
  /\ ~HasDuplicates(cq, cqPeeked + 1)
  /\ Filling \cap Received = {}
  /\ Filling \cap Sending = {}
  /\ Received \cap Sending = {}
  /\ Entries(fq, 1) \cap nicRx = {}
  /\ Entries(tx, 1) \cap nicTx = {}
  /\ (Entries(tx, 1) \cup nicTx) \cap Entries(cq, cqPeeked + 1) = {}

(***************************************************************************)
(* outstanding_tx counts the frames between tx() and complete_tx(), the    *)
(* abandoned completions included.  Were it too low the loop would stop    *)
(* looking for completions (heart.c:417); were a completion subtracted     *)
(* twice the unsigned counter would wrap.                                  *)
(***************************************************************************)
OutstandingExact ==
  outstanding_tx = Len(tx) + Cardinality(nicTx) + Len(cq)

(***************************************************************************)
(* With a kernel that publishes its consumer index at once no frame ever   *)
(* leaves the cycle, and nothing peeked is left unreleased: every frame    *)
(* setup_socket put on the fill ring is in exactly one of the six places.  *)
(***************************************************************************)
NothingLost ==
  ~LazyFill =>
    /\ fqLag = 0 /\ todo = peeked /\ cqPeeked = 0
    /\ Len(fq) + Cardinality(nicRx) + Len(rx) + Len(tx) + Cardinality(nicTx) + Len(cq)
         = FillSize

(***************************************************************************)
(* Then the fill ring has room whenever drop() or complete_tx() asks for   *)
(* it: their failure paths, which lose frames (heart.c:74, heart.c:174 and *)
(* the callers that ignore the result), are never taken.                   *)
(***************************************************************************)
FillNeverFull ==
  ~LazyFill =>
    /\ pc = "run" => CanReserveFill(1)
    /\ \A rcvd \in Peek(Len(cq) - cqPeeked, CompletionBatch) :
         rcvd > 0 => CanReserveFill(rcvd)

(***************************************************************************)
(* The abstract cycle of a frame (FrameCycle).                             *)
(***************************************************************************)
Holder(f) ==
  CASE f \in Filling  -> "kernel"
    [] f \in Received -> "pump"
    [] f \in Sending  -> "wire"
    [] OTHER          -> "lost"

Cycle == INSTANCE FrameCycle WITH
           Lossy  <- LazyFill,
           holder <- [f \in Frames |-> Holder(f)]

\* The pump implements the cycle: a frame goes from the kernel to the pump,
\* from there back or onto the wire, from the wire back, and a batch of
\* completions goes back together.  A frame is lost only if LazyFill.
ImplementsCycle == Cycle!Spec

(***************************************************************************)
(* Every frame the pump received or sent is back with the kernel after a   *)
(* while, unless the pump stops: no packet is stuck in a ring for ever.    *)
(* In copy mode kick_tx sees to it, with busy polling the recvfrom of an   *)
(* empty poll; in the default mode, zero copy without busy polling, nobody *)
(* looks at the transmit ring's wakeup flag (heart.c:55) and the pump      *)
(* relies on a driver that does not sleep.                                 *)
(***************************************************************************)
DriverIsPrompt == config.copy_mode \/ config.busy_poll \/ ~TxSleeps

EveryFrameReturns ==
  \A f \in Frames :
    (f \in Received \cup Sending /\ DriverIsPrompt) ~> (f \in Filling \/ Stopped)

(***************************************************************************)
(* A kernel that went to sleep on an empty fill ring is woken up.          *)
(***************************************************************************)
KernelIsWoken == fqWakeup ~> (~fqWakeup \/ Stopped)

(***************************************************************************)
(* The signal ends the pump, whatever traffic goes on.                     *)
(***************************************************************************)
SignalStopsPump == config.terminate ~> Stopped
==============================================================================
