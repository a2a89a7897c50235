------------------------------ MODULE EpollTable ------------------------------
(***************************************************************************)
(* The interposed epoll_ctl and epoll_wait of src/interpose/interpose.c.   *)
(* The library keeps its own table of the sockets (bound to port 8080)     *)
(* each epoll descriptor follows, so that epoll_wait can report the first  *)
(* of them readable when the runtime has passed messages.  The interest    *)
(* lists of the kernel are what libc's epoll_ctl makes of the same calls:  *)
(* it may refuse one the table has taken already, and it alone hears of    *)
(* sockets on other ports and of descriptors that are closed.              *)
(***************************************************************************)
EXTENDS Integers, FiniteSetsExt

CONSTANTS
  Threads,          \* threads of the application
  Epfds, Fds, Data, \* epoll descriptors, sockets, values of event->data
  Watched,          \* which sockets the application uses with which descriptor
  None,             \* the zero of an unused field
  MAX_EPOLL_FDS,
  MAX_EPOLL_DATA

ASSUME TableAssumption ==
  /\ MAX_EPOLL_FDS \in Nat \ {0} /\ MAX_EPOLL_DATA \in Nat \ {0}
  /\ None \notin Epfds \cup Fds \cup Data
  /\ Watched \subseteq Epfds \X Fds

VARIABLES
  epdata,    \* the table
  interest,  \* the kernel's: what each socket is registered with
  ours,      \* the sockets bound to port 8080
  pc, call,  \* where a thread is in epoll_ctl or epoll_wait, and its variables
  standing   \* history: was the table "never" told of a socket for a descriptor, has
             \* the kernel "agreed" to what it was told last, or are they "apart"?

vars == <<epdata, interest, ours, pc, call, standing>>

Indices == 0 .. MAX_EPOLL_FDS - 1
Places  == 0 .. MAX_EPOLL_DATA - 1
Ops     == {"ADD", "MOD", "DEL"}

Free   == [fd |-> None, data |-> None]
NoCall == [op |-> None, epfd |-> None, fd |-> None, data |-> None, index |-> -1]

Init ==
  /\ epdata = [i \in Indices |-> [epfd |-> None, following |-> [j \in Places |-> Free]]]
  /\ interest = [e \in Epfds |-> [f \in Fds |-> None]]
  /\ ours \in SUBSET Fds
  /\ pc = [t \in Threads |-> "out"]
  /\ call = [t \in Threads |-> NoCall]
  /\ standing = [e \in Epfds |-> [f \in Fds |-> "never"]]

Goto(t, from, to) == pc[t] = from /\ pc' = [pc EXCEPT ![t] = to]

Return(t, from) ==
  /\ Goto(t, from, "out")
  /\ call' = [call EXCEPT ![t] = NoCall]

\* Mutant: a free entry is preferred to the one that is the descriptor's.
EpollIndexFree(epfd) ==
  LET holding(e) == {i \in Indices : epdata[i].epfd = e} IN
  IF holding(None) # {} THEN Min(holding(None))
  ELSE IF holding(epfd) # {} THEN Min(holding(epfd)) ELSE -1

\* _get_epoll_index: the entry of epfd, the first free one, or -1.
EpollIndex(epfd) ==
  LET holding(e) == {i \in Indices : epdata[i].epfd = e} IN
  IF holding(epfd) # {} THEN Min(holding(epfd))
  ELSE IF holding(None) # {} THEN Min(holding(None)) ELSE -1

(***************************************************************************)
(* epoll_ctl: for a socket on port 8080 the table first and the kernel     *)
(* afterwards, for any other the kernel alone.                             *)
(***************************************************************************)
Ask(t, op, epfd, fd, data, index) ==
  call' = [call EXCEPT ![t] = [op |-> op, epfd |-> epfd, fd |-> fd, data |-> data,
                               index |-> index]]

EpollCtl(t, op, epfd, fd, data) ==
  /\ <<epfd, fd>> \in Watched
  /\ op = "DEL" <=> data = None
  /\ \/ fd \in ours /\ Goto(t, "out", "table") /\ Ask(t, op, epfd, fd, data, EpollIndex(epfd))
     \/ fd \notin ours /\ Goto(t, "out", "libc") /\ Ask(t, op, epfd, fd, data, -1)
  /\ UNCHANGED <<epdata, interest, ours, standing>>

\* Mutant: the last place that would do is taken.
FollowLast(following, fd, data) ==
  LET able == {j \in Places : following[j].fd \in {None, fd}} IN
  IF able = {} THEN following
  ELSE [following EXCEPT ![Max(able)] = [fd |-> fd, data |-> data]]

\* The first place that is free or has fd already; if there is none, nothing.
Follow(following, fd, data) ==
  LET able == {j \in Places : following[j].fd \in {None, fd}} IN
  IF able = {} THEN following
  ELSE [following EXCEPT ![Min(able)] = [fd |-> fd, data |-> data]]

\* Mutant: only the first copy is removed.
ForgetFirst(following, fd) ==
  LET having == {j \in Places : following[j].fd = fd} IN
  IF having = {} THEN following ELSE [following EXCEPT ![Min(having)] = Free]

\* Every copy is removed.  (The data stays, but of a place without a socket
\* nobody reads it.)
Forget(following, fd) ==
  [j \in Places |-> IF following[j].fd = fd THEN Free ELSE following[j]]

\* A free entry is taken whole; what the entry has become since the thread
\* looked for it is not asked.
Enter(t, i) ==
  LET c == call[t] IN
  \/ /\ epdata[i].epfd = None
     /\ epdata' = [epdata EXCEPT ![i].epfd = c.epfd,
                                 ![i].following[0] = [fd |-> c.fd, data |-> c.data]]
  \/ /\ epdata[i].epfd # None
     /\ epdata' = [epdata EXCEPT ![i].following = Follow(@, c.fd, c.data)]

AddOrMod(t) ==
  /\ call[t].op \in {"ADD", "MOD"}
  /\ \/ call[t].index >= 0 /\ Enter(t, call[t].index)
     \/ call[t].index < 0 /\ UNCHANGED epdata

\* The entry at index 0 is left alone.
Del(t) ==
  /\ call[t].op = "DEL"
  /\ \/ /\ call[t].index > 0
        /\ epdata' = [epdata EXCEPT ![call[t].index].following = Forget(@, call[t].fd)]
     \/ call[t].index <= 0 /\ UNCHANGED epdata

UpdateTable(t) ==
  /\ Goto(t, "table", "kernel")
  /\ AddOrMod(t) \/ Del(t)
  /\ standing' = [standing EXCEPT ![call[t].epfd][call[t].fd] = "apart"]
  /\ UNCHANGED <<interest, ours, call>>

\* The kernel adds what is not registered, and changes or deletes what is.
Accepted(t) ==
  /\ call[t].op = "ADD" <=> interest[call[t].epfd][call[t].fd] = None
  /\ interest' = [interest EXCEPT ![call[t].epfd][call[t].fd] = call[t].data]

\* For this and for want of memory or watches it refuses; the table stays as it is.
LibcEpollCtl(t) ==
  /\ Return(t, "kernel")
  /\ \/ /\ Accepted(t)
        /\ standing' = [standing EXCEPT ![call[t].epfd][call[t].fd] = "agreed"]
     \/ UNCHANGED <<interest, standing>>
  /\ UNCHANGED <<epdata, ours>>

Parted(status) == IF status = "agreed" THEN "apart" ELSE status

\* The call of a socket on another port, or of a number that is no socket.
LibcOnly(t) ==
  /\ Return(t, "libc")
  /\ \/ /\ Accepted(t)
        /\ standing' = [standing EXCEPT ![call[t].epfd][call[t].fd] = Parted(@)]
     \/ UNCHANGED <<interest, standing>>
  /\ UNCHANGED <<epdata, ours>>

(***************************************************************************)
(* The rest of the application.  The kernel forgets a socket or an epoll   *)
(* descriptor that is closed, and its number is used again; a socket gets  *)
(* its port.  The table hears of none of this.                             *)
(***************************************************************************)
NoneInside == \A t \in Threads : pc[t] = "out"

Close(fd) ==
  /\ NoneInside
  /\ interest' = [e \in Epfds |-> [interest[e] EXCEPT ![fd] = None]]
  /\ standing' = [e \in Epfds |-> [standing[e] EXCEPT ![fd] = Parted(@)]]
  /\ ours' \in {ours \cup {fd}, ours \ {fd}}
  /\ UNCHANGED <<epdata, pc, call>>

CloseEpoll(epfd) ==
  /\ NoneInside
  /\ interest' = [interest EXCEPT ![epfd] = [f \in Fds |-> None]]
  /\ standing' = [standing EXCEPT ![epfd] = [f \in Fds |-> Parted(@[f])]]
  /\ UNCHANGED <<epdata, ours, pc, call>>

Bind(fd) ==
  /\ NoneInside
  /\ ours' = ours \cup {fd}
  /\ UNCHANGED <<epdata, interest, pc, call, standing>>

(***************************************************************************)
(* epoll_wait.  With a followed socket in the table it waits, whatever the *)
(* timeout, until the runtime or the kernel has something; otherwise it is *)
(* libc's epoll_wait, which does not wait.                                 *)
(***************************************************************************)
Known(epfd) == \E i \in Indices : epdata[i].epfd = epfd

FollowedPlaces(i) == {j \in Places : epdata[i].following[j].fd # None}

FirstFollowed(i) == epdata[i].following[Min(FollowedPlaces(i))]

EpollWait(t, epfd) ==
  /\ Known(epfd)
  /\ LET i == EpollIndex(epfd) IN
       /\ FollowedPlaces(i) # {}
       /\ call' = [call EXCEPT ![t] = [op |-> "WAIT", epfd |-> epfd,
                                       fd |-> FirstFollowed(i).fd,
                                       data |-> FirstFollowed(i).data, index |-> i]]
  /\ Goto(t, "out", "wait")
  /\ UNCHANGED <<epdata, interest, ours, standing>>

\* vc_count_msg is not zero: the socket found above is reported readable.
ReportRuntime(t) ==
  /\ Return(t, "wait")
  /\ UNCHANGED <<epdata, interest, ours, standing>>

\* libc's epoll_wait reports an event of some socket that is registered.
ReportKernel(t) ==
  /\ \E f \in Fds : interest[call[t].epfd][f] # None
  /\ Return(t, "wait")
  /\ UNCHANGED <<epdata, interest, ours, standing>>

Step(t) ==
  \/ \E op \in Ops, e \in Epfds, f \in Fds, d \in Data \cup {None} : EpollCtl(t, op, e, f, d)
  \/ UpdateTable(t) \/ LibcEpollCtl(t) \/ LibcOnly(t)
  \/ \E e \in Epfds : EpollWait(t, e)
  \/ pc[t] = "wait" /\ (ReportRuntime(t) \/ ReportKernel(t))

Next ==
  \/ \E t \in Threads : Step(t)
  \/ \E f \in Fds : Close(f) \/ Bind(f)
  \/ \E e \in Epfds : CloseEpoll(e)

Spec == Init /\ [][Next]_vars

(***************************************************************************)
(* Properties.                                                             *)
(***************************************************************************)
TypeOK ==
  /\ epdata \in [Indices -> [epfd : Epfds \cup {None},
                             following : [Places -> [fd : Fds \cup {None},
                                                     data : Data \cup {None}]]]]
  /\ interest \in [Epfds -> [Fds -> Data \cup {None}]]
  /\ \A t \in Threads : call[t].index \in Indices \cup {-1}

(***************************************************************************)
(* A socket can be in several places of an entry, since a free place is    *)
(* taken before the one that has it is found (interpose.c:195).  The first *)
(* of them, which is the one epoll_wait reports, has the data the kernel   *)
(* has, whatever calls, refusals and closes went before, once a call that  *)
(* told the table of the socket is the last to have changed either of the  *)
(* two and has been accepted.                                              *)
(***************************************************************************)
FirstCopyIsLatest ==
  \A i \in Indices, j \in Places :
    LET e == epdata[i].epfd  place == epdata[i].following[j] IN
    (/\ e # None /\ place.fd # None
     /\ standing[e][place.fd] = "agreed" /\ interest[e][place.fd] # None
     /\ \A k \in 0 .. j - 1 : epdata[i].following[k].fd # place.fd)
      => place.data = interest[e][place.fd]

(***************************************************************************)
(* An epoll descriptor has one entry, and the entry follows only what the  *)
(* table was told of for that number.  (With the types.)                   *)
(***************************************************************************)
FollowsOwn ==
  /\ TypeOK
  /\ \A i \in Indices : epdata[i].epfd # None =>
      /\ \A k \in Indices \ {i} : epdata[k].epfd # epdata[i].epfd
      /\ \A j \in FollowedPlaces(i) :
           standing[epdata[i].epfd][epdata[i].following[j].fd] # "never"

Agreed(t) == standing[call[t].epfd][call[t].fd] = "agreed"

Registered(t) == interest[call[t].epfd][call[t].fd] = call[t].data

(***************************************************************************)
(* What epoll_wait reports for the runtime's messages is a socket that is  *)
(* registered with that descriptor, with the data it was registered with.  *)
(* The exceptions are the first descriptor of the process, index 0, and a  *)
(* socket that was closed, refused, or changed on another port since.      *)
(***************************************************************************)
ReportsRegistered ==
  \A t \in Threads : pc[t] = "wait" /\ call[t].index > 0 /\ Agreed(t) => Registered(t)

(***************************************************************************)
(* "Invalidate" (interpose.c:206): a socket that EPOLL_CTL_DEL removed is  *)
(* not reported any more, whatever the index of its descriptor.            *)
(***************************************************************************)
DeletedIsInvalid ==
  \A t \in Threads : pc[t] = "wait" /\ Agreed(t) => Registered(t)
=============================================================================
