------------------------------- MODULE VChannel -------------------------------
(***************************************************************************)
(* The shared channel of src/vchannel.c in the one direction Servant uses: *)
(* the runtime sends the packets its program passed (vc_tx_msg, called by  *)
(* heart.c), the interposed application receives them (vc_rx_msg and       *)
(* vc_count_msg, called by recvfrom and epoll_wait of interpose.c).        *)
(*                                                                         *)
(* Messages are copied into a pool of shared objects, taken in turn; the   *)
(* ring (LLRing, here the Fifo it implements) carries the objects.  One    *)
(* thread sends and one receives; each copy takes two steps, so that the   *)
(* two sides can touch the same object at the same time.                   *)
(***************************************************************************)
EXTENDS Naturals, Sequences

CONSTANTS
  Messages,   \* what is sent
  NoMessage,  \* the content of an object never written
  Slots       \* attr->ring_size: the slots of each ring

ASSUME SlotsAssumption == Slots \in Nat \ {0, 1}
ASSUME NoMessageAssumption == NoMessage \notin Messages

CountElements == 2 * Slots  \* ch->count_elements, with COUNT_RINGS = 2
Objects       == 0 .. CountElements - 1
App           == "app"

VARIABLES
  queue, taken,  \* the ring of the receiver
  ring_top,      \* ch->ring_top
  shared_objs,   \* the pool: two halves of the data, and the valid flag
  tx,            \* the sender: where it is, its message and its object
  rx,            \* the receiver: where it is, its object and its buffer
  accepted       \* history: the messages vc_tx_msg accepted and the receiver has not
                 \* finished with, and how many sends each saw refused (at most Slots)

vars == <<queue, taken, ring_top, shared_objs, tx, rx, accepted>>

Ring == INSTANCE Fifo WITH
          Values <- Objects, Consumers <- {App}, Capacity <- Slots - 1

TxIdle == [pc |-> "idle", msg |-> NoMessage, obj |-> 0, seen |-> 0]
RxIdle == [pc |-> "idle", obj |-> 0, first |-> NoMessage, second |-> NoMessage]

\* The state connect_shared_channel leaves.
Init ==
  /\ Ring!Init
  /\ ring_top = 0
  /\ shared_objs = [o \in Objects |->
                      [first |-> NoMessage, second |-> NoMessage, valid |-> FALSE]]
  /\ tx = TxIdle
  /\ rx = RxIdle
  /\ accepted = << >>

(***************************************************************************)
(* vc_tx_msg                                                               *)
(***************************************************************************)
\* History: a message that saw Slots sends refused may lose its object to
\* another one, which is then no better off.
Seen == IF \E i \in DOMAIN accepted : accepted[i].refusals = Slots THEN Slots ELSE 0
OneMore(k) == IF k < Slots THEN k + 1 ELSE k

\* Mutant: the pool is no larger than the ring.
TxClaimOfSlots(msg) ==
  /\ tx.pc = "idle"
  /\ tx' = [pc |-> "copy", msg |-> msg, obj |-> ring_top, seen |-> Seen]
  /\ ring_top' = (ring_top + 1) % Slots
  /\ UNCHANGED <<queue, taken, shared_objs, rx, accepted>>

\* The next object in turn is used, whether or not it is still valid.
TxClaim(msg) ==
  /\ tx.pc = "idle"
  /\ tx' = [pc |-> "copy", msg |-> msg, obj |-> ring_top, seen |-> Seen]
  /\ ring_top' = (ring_top + 1) % CountElements
  /\ UNCHANGED <<queue, taken, shared_objs, rx, accepted>>

TxCopyFirst ==
  /\ tx.pc = "copy"
  /\ shared_objs' = [shared_objs EXCEPT ![tx.obj].first = tx.msg]
  /\ tx' = [tx EXCEPT !.pc = "copy2"]
  /\ UNCHANGED <<queue, taken, ring_top, rx, accepted>>

\* Mutant: the copy is too short.
TxCopyShort ==
  /\ tx.pc = "copy2"
  /\ shared_objs' = [shared_objs EXCEPT ![tx.obj].valid = TRUE]
  /\ tx' = [tx EXCEPT !.pc = "enqueue"]
  /\ UNCHANGED <<queue, taken, ring_top, rx, accepted>>

TxCopySecond ==
  /\ tx.pc = "copy2"
  /\ shared_objs' = [shared_objs EXCEPT ![tx.obj].second = tx.msg, ![tx.obj].valid = TRUE]
  /\ tx' = [tx EXCEPT !.pc = "enqueue"]
  /\ UNCHANGED <<queue, taken, ring_top, rx, accepted>>

RingHasRoom == Ring!HasRoom(1)

TxEnqueue ==
  /\ tx.pc = "enqueue"
  /\ Ring!Put(<<tx.obj>>)
  /\ accepted' = Append(accepted, [msg |-> tx.msg, refusals |-> tx.seen])
  /\ tx' = TxIdle
  /\ UNCHANGED <<ring_top, shared_objs, rx>>

\* The enqueue fails and vc_tx_msg returns -1; ring_top has moved on, and the
\* object has been written, for good.
TxRefuse ==
  /\ tx.pc = "enqueue"
  /\ ~RingHasRoom
  /\ accepted' = [i \in DOMAIN accepted |->
                    [accepted[i] EXCEPT !.refusals = OneMore(@)]]
  /\ tx' = TxIdle
  /\ UNCHANGED <<queue, taken, ring_top, shared_objs, rx>>

Send == (\E msg \in Messages : TxClaim(msg))
        \/ TxCopyFirst \/ TxCopySecond \/ TxEnqueue \/ TxRefuse

(***************************************************************************)
(* vc_rx_msg, and vc_count_msg where it says that there is something       *)
(***************************************************************************)
RxDequeue ==
  /\ rx.pc = "idle"
  /\ Ring!Take(App, 1)
  /\ rx' = [rx EXCEPT !.pc = "dequeue", !.obj = Head(queue)]
  /\ UNCHANGED <<ring_top, shared_objs, tx, accepted>>

RxDequeued ==
  /\ rx.pc = "dequeue"
  /\ Ring!Finish(App)
  /\ rx' = [rx EXCEPT !.pc = "check"]
  /\ UNCHANGED <<ring_top, shared_objs, tx, accepted>>

\* An object that is not valid is taken for an empty ring.
RxNothing ==
  /\ rx.pc = "check"
  /\ ~shared_objs[rx.obj].valid
  /\ rx' = RxIdle
  /\ accepted' = Tail(accepted)
  /\ UNCHANGED <<queue, taken, ring_top, shared_objs, tx>>

RxCopyFirst ==
  /\ rx.pc = "check"
  /\ shared_objs[rx.obj].valid
  /\ rx' = [rx EXCEPT !.pc = "copy2", !.first = shared_objs[rx.obj].first]
  /\ UNCHANGED <<queue, taken, ring_top, shared_objs, tx, accepted>>

RxCopySecond ==
  /\ rx.pc = "copy2"
  /\ rx' = [rx EXCEPT !.pc = "clear", !.second = shared_objs[rx.obj].second]
  /\ UNCHANGED <<queue, taken, ring_top, shared_objs, tx, accepted>>

RxClear ==
  /\ rx.pc = "clear"
  /\ shared_objs' = [shared_objs EXCEPT ![rx.obj].valid = FALSE]
  /\ rx' = RxIdle
  /\ accepted' = Tail(accepted)
  /\ UNCHANGED <<queue, taken, ring_top, tx>>

Receive == RxDequeue \/ RxDequeued \/ RxNothing \/ RxCopyFirst \/ RxCopySecond \/ RxClear

Next == Send \/ Receive

Spec == Init /\ [][Next]_vars

(***************************************************************************)
(* Properties.                                                             *)
(***************************************************************************)
\* The objects of the accepted messages, oldest first.
Carriers == IF rx.pc = "idle" THEN queue ELSE <<rx.obj>> \o queue

TypeOK ==
  /\ queue \in Seq(Objects) /\ Len(queue) < Slots
  /\ taken[App] \in Seq(Objects)
  /\ ring_top \in Objects
  /\ tx.obj \in Objects /\ rx.obj \in Objects
  /\ Len(Carriers) = Len(accepted)

(***************************************************************************)
(* The pool has twice the slots of the ring and is used in turn, without   *)
(* asking which objects are free (vchannel.c:187).  The object of a        *)
(* message still waiting (or being read) is overwritten only after it saw  *)
(* Slots sends refused, or if one that had was waiting when it was sent:   *)
(* otherwise it holds its message and is valid.  (With the types.)         *)
(***************************************************************************)
IntactUnlessLapped ==
  /\ TypeOK
  /\ \A i \in DOMAIN accepted : accepted[i].refusals < Slots =>
      /\ shared_objs[Carriers[i]].first  = accepted[i].msg
      /\ shared_objs[Carriers[i]].second = accepted[i].msg
      /\ shared_objs[Carriers[i]].valid

(***************************************************************************)
(* Under the same condition the receiver's buffer ends up with the very    *)
(* message that was accepted, never a mixture of two.                      *)
(***************************************************************************)
DeliveredUnlessLapped ==
  rx.pc = "clear" /\ accepted[1].refusals < Slots =>
    rx.first = accepted[1].msg /\ rx.second = accepted[1].msg
=============================================================================
