------------------------------- MODULE PassPath -------------------------------
(***************************************************************************)
(* The way of a passed packet into the application: the channel of         *)
(* VChannel, and on its receiving side one thread of the application that  *)
(* calls the interposed epoll_wait and recvfrom (interpose.c).             *)
(*                                                                         *)
(* epoll_wait asks the channel and the kernel in turn, never waiting in    *)
(* the kernel, until one of them has something; recvfrom looks at the      *)
(* channel first and leaves the rest to libc, where a blocking socket may  *)
(* keep the thread.  The thread is past ensure_init and the epoll instance *)
(* is one the library follows (EnsureInit, EpollTable).  The UDP socket's  *)
(* queue in the kernel is external.                                        *)
(***************************************************************************)
EXTENDS VChannel

CONSTANT MaxDatagrams  \* bound: datagrams waiting in the kernel

ASSUME MaxDatagramsAssumption == MaxDatagrams \in Nat

VARIABLES
  app,        \* where the thread is
  reported,   \* who the last epoll_wait said has something, until it is received
  datagrams   \* how many datagrams wait in the kernel

appVars    == <<app, reported, datagrams>>
varsOfPath == <<vars, appVars>>

InitOfPath ==
  /\ Init
  /\ app = "running"
  /\ reported = "nobody"
  /\ datagrams = 0

AppGoes(from, to) == app = from /\ app' = to

(***************************************************************************)
(* epoll_wait                                                              *)
(***************************************************************************)
CallEpollWait ==
  /\ AppGoes("running", "count")
  /\ UNCHANGED <<vars, reported, datagrams>>

\* Mutant: a count of 0 is taken for messages.
CountNotNegative ==
  /\ AppGoes("count", "running") /\ reported' = "runtime"
  /\ UNCHANGED <<vars, datagrams>>

\* vc_count_msg; a count of the ring's one consumer holds until it dequeues.
CountMessages ==
  /\ \/ queue # << >> /\ AppGoes("count", "running") /\ reported' = "runtime"
     \/ queue = << >> /\ AppGoes("count", "poll") /\ UNCHANGED reported
  /\ UNCHANGED <<vars, datagrams>>

\* Mutant: having found the ring empty once, the loop goes on in the kernel.
PollKernelOnly ==
  /\ \/ datagrams > 0 /\ AppGoes("poll", "running") /\ reported' = "kernel"
     \/ datagrams = 0 /\ AppGoes("poll", "poll") /\ UNCHANGED reported
  /\ UNCHANGED <<vars, datagrams>>

\* libc_epoll_wait with a timeout of 0: the UDP socket is readable or not.
PollKernel ==
  /\ \/ datagrams > 0 /\ AppGoes("poll", "running") /\ reported' = "kernel"
     \/ datagrams = 0 /\ AppGoes("poll", "count") /\ UNCHANGED reported
  /\ UNCHANGED <<vars, datagrams>>

\* It fails, or it is about another descriptor, either of which also ends the loop.
PollOther ==
  /\ AppGoes("poll", "running") /\ reported' = "nobody"
  /\ UNCHANGED <<vars, datagrams>>

(***************************************************************************)
(* recvfrom, called on a report or without one                             *)
(***************************************************************************)
CallRecvfrom ==
  /\ AppGoes("running", "receive")
  /\ UNCHANGED <<vars, reported, datagrams>>

\* Taking a message out of the channel and copying it.
ReceiveMessage ==
  /\ app = "receive"
  /\ RxDequeue \/ RxDequeued \/ RxCopyFirst \/ RxCopySecond
  /\ UNCHANGED appVars

MessageReceived ==
  /\ RxClear
  /\ AppGoes("receive", "running")
  /\ reported' = "nobody"
  /\ UNCHANGED datagrams

\* vc_rx_msg returns 0 for an empty ring, and for an object that is not valid.
NothingFromRuntime ==
  /\ AppGoes("receive", "libc")
  /\ \/ rx.pc = "idle" /\ queue = << >> /\ UNCHANGED vars
     \/ RxNothing
  /\ UNCHANGED <<reported, datagrams>>

\* Without a datagram a non-blocking socket returns EAGAIN; a blocking one may
\* keep the thread here for ever.
LibcRecvfrom ==
  /\ AppGoes("libc", "running")
  /\ datagrams' = IF datagrams > 0 THEN datagrams - 1 ELSE 0
  /\ reported' = "nobody"
  /\ UNCHANGED vars

Library ==
  \/ CountMessages \/ PollKernel
  \/ ReceiveMessage \/ MessageReceived \/ NothingFromRuntime

Application == CallEpollWait \/ CallRecvfrom

\* A datagram that the XDP program let through to the socket arrives.
DatagramArrives ==
  /\ datagrams < MaxDatagrams
  /\ datagrams' = datagrams + 1
  /\ UNCHANGED <<vars, app, reported>>

NextOfPath ==
  \/ Library \/ PollOther \/ LibcRecvfrom \/ Application \/ DatagramArrives
  \/ Send /\ UNCHANGED appVars

SpecOfPath == InitOfPath /\ [][NextOfPath]_varsOfPath

\* A thread inside the library goes on.  Nobody has to call it or send anything,
\* recvfrom of libc need not return and epoll_wait of libc need not fail.
FairSpecOfPath == SpecOfPath /\ WF_varsOfPath(Library)

(***************************************************************************)
(* A thread that was told there is something gets it from its next         *)
(* recvfrom: told by the runtime it does not end up in libc, where a       *)
(* blocking socket would hold it, unless the message's object was taken    *)
(* again after Slots refused sends; told by the kernel and sent on to libc *)
(* it finds the datagram, although a message may have come in between and  *)
(* been received instead (interpose.c:133).                                *)
(***************************************************************************)
ReportedIsThere ==
  [][app = "receive" /\ app' = "libc" =>
       /\ reported = "runtime" => accepted # << >> /\ accepted[1].refusals = Slots
       /\ reported = "kernel"  => datagrams > 0]_varsOfPath

(***************************************************************************)
(* A message that comes in while a thread goes round the loop of           *)
(* epoll_wait ends its wait, however quiet the network stack is            *)
(* (interpose.c:262).                                                      *)
(***************************************************************************)
MessageEndsWait == (app \in {"count", "poll"} /\ queue # << >>) ~> app = "running"
===============================================================================
