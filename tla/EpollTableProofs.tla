---------------------------- MODULE EpollTableProofs ----------------------------
(***************************************************************************)
(* Proofs about EpollTable, for any number of descriptors, sockets, data,  *)
(* entries and places.  Nothing guards the table against threads that call *)
(* epoll_ctl and epoll_wait at once, so what is proved is for threads that *)
(* take turns.                                                             *)
(***************************************************************************)
EXTENDS EpollTable, WellFoundedInduction, TLAPS

\* One thread at a time is in a call: an application of a single thread, or one
\* with a lock of its own around the calls.
InTurn == \A t, u \in Threads : pc[t] # "out" /\ pc[u] # "out" => t = u

(***************************************************************************)
(* The inductive invariant.  Of a socket the table was told of last the    *)
(* first copy has what the call under way will register, and what the      *)
(* kernel has as soon as it has agreed; then a socket of any entry but     *)
(* that at index 0 is registered.                                          *)
(***************************************************************************)
Place == [fd : Fds \cup {None}, data : Data \cup {None}]
Entry == [epfd : Epfds \cup {None}, following : [Places -> Place]]

Stages    == {"out", "table", "kernel", "libc", "wait"}
Standings == {"never", "agreed", "apart"}

Types ==
  /\ epdata \in [Indices -> Entry]
  /\ interest \in [Epfds -> [Fds -> Data \cup {None}]]
  /\ ours \in SUBSET Fds
  /\ pc \in [Threads -> Stages]
  /\ standing \in [Epfds -> [Fds -> Standings]]
  /\ DOMAIN call = Threads

\* What entry i has at place j of a descriptor it is in use by.
FollowedAt(i, j) == epdata[i].epfd # None /\ epdata[i].following[j].fd # None

FirstAt(i, j) ==
  FollowedAt(i, j)
  /\ \A k \in 0 .. j - 1 : epdata[i].following[k].fd # epdata[i].following[j].fd

InCall(c) ==
  /\ c.epfd \in Epfds /\ c.fd \in Fds /\ c.data \in Data \cup {None}
  /\ c.op \in Ops /\ (c.op = "DEL" <=> c.data = None)
  /\ c.index \in Indices \cup {-1}

\* The table has been told of call c.
Told(c) ==
  \A i \in Indices, j \in Places :
    (FollowedAt(i, j) /\ epdata[i].epfd = c.epfd /\ epdata[i].following[j].fd = c.fd) =>
      /\ FirstAt(i, j) /\ c.data # None => epdata[i].following[j].data = c.data
      /\ i > 0 => c.data # None

InWait(c) ==
  /\ c.epfd \in Epfds /\ c.index \in Indices /\ epdata[c.index].epfd = c.epfd
  /\ \E j \in Places :
       /\ epdata[c.index].following[j] = [fd |-> c.fd, data |-> c.data]
       /\ c.fd # None
       /\ \A k \in 0 .. j - 1 : epdata[c.index].following[k].fd = None

CallAt(place, c) ==
  /\ place = "out" => c = NoCall
  /\ place \in {"table", "kernel", "libc"} => InCall(c)
  /\ place = "table" => c.index = EpollIndex(c.epfd)
  /\ place = "kernel" => Told(c)
  /\ place = "wait" => InWait(c)

Calls == \A t \in Threads : CallAt(pc[t], call[t])

Entries ==
  /\ \A i \in Indices : epdata[i].epfd = None =>
       \A j \in Places : epdata[i].following[j] = Free
  /\ \A i, k \in Indices : epdata[i].epfd # None /\ epdata[i].epfd = epdata[k].epfd => i = k

Asked ==
  \A i \in Indices, j \in Places : FollowedAt(i, j) =>
    standing[epdata[i].epfd][epdata[i].following[j].fd] # "never"

Latest ==
  \A i \in Indices, j \in Places :
    (/\ FirstAt(i, j) /\ standing[epdata[i].epfd][epdata[i].following[j].fd] = "agreed"
     /\ interest[epdata[i].epfd][epdata[i].following[j].fd] # None)
      => epdata[i].following[j].data = interest[epdata[i].epfd][epdata[i].following[j].fd]

Removed ==
  \A i \in Indices, j \in Places :
    (/\ i > 0 /\ FollowedAt(i, j)
     /\ standing[epdata[i].epfd][epdata[i].following[j].fd] = "agreed")
      => interest[epdata[i].epfd][epdata[i].following[j].fd] # None

IInv == Types /\ Calls /\ Entries /\ Asked /\ Latest /\ Removed

USE TableAssumption

(***************************************************************************)
(* The least element of a set of naturals.                                 *)
(***************************************************************************)
LEMMA MinIsLeast ==
  ASSUME NEW S \in SUBSET Nat, S # {}
  PROVE  Min(S) \in S /\ \A x \in S : Min(S) <= x
<1>1. PICK least \in S : \A y \in S : ~ (<<y, least>> \in OpToRel(<, Nat))
  BY NatLessThanWellFounded, WFMin
<1>2. \A y \in S : <<y, least>> \in OpToRel(<, Nat) <=> y < least
  BY DEF OpToRel
<1>3. \A y \in S : ~ (y < least)
  BY <1>1, <1>2, Zenon
<1>4. \A y \in S : least <= y
  BY <1>3
<1> QED BY <1>4 DEF Min

\* A table of which two fields of one entry are changed is still a function.
Started(f, g, i, epfd, place) == g = [f EXCEPT ![i].epfd = epfd, ![i].following[0] = place]

LEMMA StartedIsFunction ==
  ASSUME NEW f, NEW i, NEW epfd, NEW place, NEW g, Started(f, g, i, epfd, place)
  PROVE  g = [k \in DOMAIN f |-> g[k]]
<1>1. g = [k \in DOMAIN g |-> g[k]]
  BY Zenon DEF Started
<1>2. DOMAIN g = DOMAIN f
  BY Zenon DEF Started
<1> QED BY <1>1, <1>2, Zenon

\* The index is that of the descriptor's entry, or else of a free one.
LEMMA EpollIndexIs ==
  ASSUME NEW epfd, NEW i, i = EpollIndex(epfd)
  PROVE  \/ i \in Indices /\ epdata[i].epfd = epfd
         \/ /\ i = -1 \/ (i \in Indices /\ epdata[i].epfd = None)
            /\ \A k \in Indices : epdata[k].epfd # epfd
<1> DEFINE holding(e) == {k \in Indices : epdata[k].epfd = e}
<1>1. \A e : holding(e) \in SUBSET Nat
  BY DEF Indices
<1>2. \A e : holding(e) # {} => Min(holding(e)) \in holding(e)
  BY <1>1, MinIsLeast
<1>3. i = IF holding(epfd) # {} THEN Min(holding(epfd))
          ELSE IF holding(None) # {} THEN Min(holding(None)) ELSE -1
  BY DEF EpollIndex
<1>4. CASE holding(epfd) # {}
  <2>1. i \in holding(epfd)
    BY <1>2, <1>3, <1>4
  <2> QED BY <2>1
<1>5. CASE holding(epfd) = {}
  <2>1. \A k \in Indices : epdata[k].epfd # epfd
    BY <1>5
  <2>2. i = -1 \/ i \in holding(None)
    BY <1>2, <1>3, <1>5
  <2> QED BY <2>1, <2>2
<1> QED BY <1>4, <1>5

\* What is written when fd is followed: no earlier place would have done.
Written(old, new, fd, data) ==
  \E p \in Places :
    /\ old[p].fd \in {None, fd} /\ \A k \in 0 .. p - 1 : old[k].fd \notin {None, fd}
    /\ new \in [Places -> Place]
    /\ new[p] = [fd |-> fd, data |-> data] /\ \A j \in Places \ {p} : new[j] = old[j]

LEMMA FollowIs ==
  ASSUME NEW old \in [Places -> Place], NEW fd \in Fds, NEW data \in Data \cup {None},
         NEW new, new = Follow(old, fd, data)
  PROVE  \/ Written(old, new, fd, data)
         \/ new = old /\ \A j \in Places : old[j].fd # fd
<1> DEFINE able == {j \in Places : old[j].fd \in {None, fd}}
<1>1. able \in SUBSET Nat
  BY DEF Places
<1>2. CASE able = {}
  BY <1>2 DEF Follow
<1>3. CASE able # {}
  <2> PICK p : p = Min(able)
    OBVIOUS
  <2>1. p \in able /\ \A x \in able : p <= x
    BY <1>1, <1>3, MinIsLeast
  <2>2. p \in Places /\ old[p].fd \in {None, fd}
    BY <2>1
  <2>3. \A k \in 0 .. p - 1 : k \in Places /\ k \notin able
    BY <2>1, <2>2 DEF Places
  <2>4. \A k \in 0 .. p - 1 : old[k].fd \notin {None, fd}
    BY <2>3
  <2>5. new = [old EXCEPT ![p] = [fd |-> fd, data |-> data]]
    BY <1>3 DEF Follow
  <2>6. [fd |-> fd, data |-> data] \in Place
    BY DEF Place
  <2>7. /\ new \in [Places -> Place] /\ new[p] = [fd |-> fd, data |-> data]
        /\ \A j \in Places \ {p} : new[j] = old[j]
    BY <2>2, <2>5, <2>6
  <2> QED BY <2>2, <2>4, <2>7 DEF Written
<1> QED BY <1>2, <1>3

(***************************************************************************)
(* The first place in use.                                                 *)
(***************************************************************************)
LEMMA FirstFollowedIs ==
  ASSUME NEW i, FollowedPlaces(i) # {}
  PROVE  \E j \in Places :
           /\ FirstFollowed(i) = epdata[i].following[j]
           /\ epdata[i].following[j].fd # None
           /\ \A k \in 0 .. j - 1 : epdata[i].following[k].fd = None
<1>1. FollowedPlaces(i) \in SUBSET Nat
  BY DEF FollowedPlaces, Places
<1> PICK j : j = Min(FollowedPlaces(i))
  OBVIOUS
<1>2. j \in FollowedPlaces(i) /\ \A x \in FollowedPlaces(i) : j <= x
  BY <1>1, MinIsLeast
<1>3. j \in Places /\ epdata[i].following[j].fd # None
  BY <1>2 DEF FollowedPlaces
<1>4. ASSUME NEW k \in 0 .. j - 1
      PROVE  epdata[i].following[k].fd = None
  <2>1. k \in Places /\ k \notin FollowedPlaces(i)
    BY <1>2, <1>3, <1>4 DEF Places
  <2> QED BY <2>1 DEF FollowedPlaces
<1> QED BY <1>3, <1>4 DEF FirstFollowed

LEMMA Initially == Init => IInv
<1> SUFFICES ASSUME Init
             PROVE  IInv
  OBVIOUS
<1>1. /\ epdata = [i \in Indices |-> [epfd |-> None, following |-> [j \in Places |-> Free]]]
      /\ interest = [e \in Epfds |-> [f \in Fds |-> None]]
      /\ pc = [t \in Threads |-> "out"]
      /\ call = [t \in Threads |-> NoCall]
      /\ ours \in SUBSET Fds
      /\ standing = [e \in Epfds |-> [f \in Fds |-> "never"]]
  BY DEF Init
<1>2. [j \in Places |-> Free] \in [Places -> Place]
  BY DEF Free, Place
<1>3. epdata \in [Indices -> Entry]
  BY <1>1, <1>2 DEF Entry
<1>4. Types /\ Calls
  BY <1>1, <1>3 DEF Types, Calls, CallAt, Stages, Standings
<1>5. \A i \in Indices : epdata[i].epfd = None /\ \A j \in Places : epdata[i].following[j] = Free
  BY <1>1
<1> QED BY <1>4, <1>5 DEF IInv, Entries, Asked, Latest, Removed, FirstAt, FollowedAt

(***************************************************************************)
(* A step of t that leaves the table alone leaves the calls of the others  *)
(* as they are.                                                            *)
(***************************************************************************)
Steps(t) ==
  /\ DOMAIN call' = Threads /\ pc' \in [Threads -> Stages]
  /\ \A u \in Threads \ {t} : pc'[u] = pc[u] /\ call'[u] = call[u]
  /\ CallAt(pc'[t], call'[t])

LEMMA SameTable ==
  ASSUME epdata' = epdata
  PROVE  /\ \A place, c : CallAt(place, c)' <=> CallAt(place, c)
         /\ \A i, j : FollowedAt(i, j)' <=> FollowedAt(i, j)
         /\ \A i, j : FirstAt(i, j)' <=> FirstAt(i, j)
<1>1. /\ \A i, j : FollowedAt(i, j)' <=> FollowedAt(i, j)
      /\ \A i, j : FirstAt(i, j)' <=> FirstAt(i, j)
  BY DEF FollowedAt, FirstAt
<1>2. \A c : Told(c)' <=> Told(c)
  BY <1>1 DEF Told
<1>3. \A c : InWait(c)' <=> InWait(c)
  BY DEF InWait
<1>4. \A e : EpollIndex(e)' = EpollIndex(e)
  BY DEF EpollIndex
<1>5. \A c : InCall(c)' <=> InCall(c)
  BY DEF InCall
<1>6. \A place, c : CallAt(place, c)' <=> CallAt(place, c)
  BY <1>2, <1>3, <1>4, <1>5 DEF CallAt
<1> QED BY <1>1, <1>6

LEMMA CallsKept ==
  ASSUME IInv, NEW t \in Threads, epdata' = epdata, Steps(t)
  PROVE  Calls'
<1>1. \A place, c : CallAt(place, c)' <=> CallAt(place, c)
  BY SameTable
<1>2. \A u \in Threads : CallAt(pc'[u], call'[u])
  BY DEF IInv, Calls, Steps
<1>3. \A place, c : CallAt(place, c) => CallAt(place, c)'
  BY <1>1
<1> QED BY <1>2, <1>3 DEF Calls

\* A step that leaves the kernel alone too.
LEMMA QuietStep ==
  ASSUME IInv, NEW t \in Threads, UNCHANGED <<epdata, interest, ours, standing>>, Steps(t)
  PROVE  IInv'
<1>1. Types'
  BY DEF IInv, Types, Steps
<1>2. Calls'
  BY CallsKept
<1>3. Entries' /\ Asked'
  BY DEF IInv, Entries, Asked, FollowedAt
<1>4. Latest' /\ Removed'
  BY DEF IInv, Latest, Removed, FirstAt, FollowedAt
<1> QED BY <1>1, <1>2, <1>3, <1>4 DEF IInv

LEMMA EpollCtlStep ==
  ASSUME IInv, NEW t \in Threads, NEW op \in Ops, NEW e \in Epfds, NEW f \in Fds,
         NEW d \in Data \cup {None}, EpollCtl(t, op, e, f, d)
  PROVE  IInv'
<1>1. PICK place \in {"table", "libc"}, i \in Indices \cup {-1} :
        /\ place = "table" => i = EpollIndex(e)
        /\ pc' = [pc EXCEPT ![t] = place]
        /\ call' = [call EXCEPT ![t] = [op |-> op, epfd |-> e, fd |-> f, data |-> d, index |-> i]]
  <2>1. EpollIndex(e) \in Indices \cup {-1}
    BY EpollIndexIs
  <2>2. CASE Goto(t, "out", "table") /\ Ask(t, op, e, f, d, EpollIndex(e))
    BY <2>1, <2>2 DEF Goto, Ask
  <2>3. CASE Goto(t, "out", "libc") /\ Ask(t, op, e, f, d, -1)
    BY <2>3 DEF Goto, Ask
  <2> QED BY <2>2, <2>3 DEF EpollCtl
<1> PICK c : c = [op |-> op, epfd |-> e, fd |-> f, data |-> d, index |-> i]
  OBVIOUS
<1>2. op = "DEL" <=> d = None
  BY DEF EpollCtl
<1>3. InCall(c)
  BY <1>2 DEF InCall
<1>4. CallAt(place, c)
  BY <1>1, <1>3 DEF CallAt
<1>5. /\ DOMAIN call' = Threads /\ pc' \in [Threads -> Stages]
      /\ pc'[t] = place /\ call'[t] = c
      /\ \A u \in Threads \ {t} : pc'[u] = pc[u] /\ call'[u] = call[u]
  BY <1>1 DEF IInv, Types, Stages
<1>6. Steps(t)
  BY <1>4, <1>5 DEF Steps
<1> QED BY <1>6, QuietStep DEF EpollCtl

LEMMA EpollWaitStep ==
  ASSUME IInv, NEW t \in Threads, NEW e \in Epfds, EpollWait(t, e)
  PROVE  IInv'
<1> PICK i : i = EpollIndex(e)
  OBVIOUS
<1> PICK first : first = FirstFollowed(i)
  OBVIOUS
<1> PICK c : c = [op |-> "WAIT", epfd |-> e, fd |-> first.fd, data |-> first.data, index |-> i]
  OBVIOUS
<1>1. /\ Known(e) /\ FollowedPlaces(i) # {}
      /\ pc[t] = "out" /\ pc' = [pc EXCEPT ![t] = "wait"] /\ call' = [call EXCEPT ![t] = c]
      /\ UNCHANGED <<epdata, interest, ours, standing>>
  BY DEF EpollWait, Goto
<1>2. /\ DOMAIN call' = Threads /\ pc' \in [Threads -> Stages]
      /\ pc'[t] = "wait" /\ call'[t] = c
      /\ \A u \in Threads \ {t} : pc'[u] = pc[u] /\ call'[u] = call[u]
  BY <1>1 DEF IInv, Types, Stages
<1>3. i \in Indices /\ epdata[i].epfd = e
  BY <1>1, EpollIndexIs DEF Known
<1>4. PICK j \in Places : /\ first = epdata[i].following[j] /\ first.fd # None
                         /\ \A k \in 0 .. j - 1 : epdata[i].following[k].fd = None
  BY <1>1, FirstFollowedIs
<1>5. epdata[i].following[j] = [fd |-> c.fd, data |-> c.data]
  <2>1. epdata[i].following[j] \in Place
    BY <1>3, <1>4 DEF IInv, Types, Entry
  <2> QED BY <1>4, <2>1 DEF Place
<1>6. CallAt("wait", c)
  <2>1. c.epfd = e /\ c.fd = first.fd /\ c.index = i
    OBVIOUS
  <2>2. InWait(c)
    BY <1>3, <1>4, <1>5, <2>1 DEF InWait
  <2> QED BY <2>2 DEF CallAt
<1>7. Steps(t)
  BY <1>2, <1>6 DEF Steps
<1> QED BY <1>1, <1>7, QuietStep

LEMMA ReturnSteps ==
  ASSUME IInv, NEW t \in Threads,
         pc' = [pc EXCEPT ![t] = "out"], call' = [call EXCEPT ![t] = NoCall]
  PROVE  Steps(t)
<1>1. /\ DOMAIN call' = Threads /\ pc' \in [Threads -> Stages]
      /\ pc'[t] = "out" /\ call'[t] = NoCall
      /\ \A u \in Threads \ {t} : pc'[u] = pc[u] /\ call'[u] = call[u]
  BY DEF IInv, Types, Stages
<1>2. CallAt(pc'[t], call'[t])
  BY <1>1 DEF CallAt
<1> QED BY <1>1, <1>2 DEF Steps

LEMMA ReportStep ==
  ASSUME IInv, NEW t \in Threads, pc[t] = "wait", ReportRuntime(t) \/ ReportKernel(t)
  PROVE  IInv'
<1>1. /\ pc' = [pc EXCEPT ![t] = "out"] /\ call' = [call EXCEPT ![t] = NoCall]
      /\ UNCHANGED <<epdata, interest, ours, standing>>
  BY DEF ReportRuntime, ReportKernel, Return, Goto
<1>2. Steps(t)
  BY <1>1, ReturnSteps
<1> QED BY <1>1, <1>2, QuietStep

(***************************************************************************)
(* A step that leaves the table alone keeps the rest of the invariant if,  *)
(* wherever it has the two agree, either they did and the kernel has what  *)
(* it had, or a call that told the table is through.                       *)
(***************************************************************************)
Through(e, f) ==
  \E t \in Threads :
    /\ pc[t] = "kernel" /\ call[t].epfd = e /\ call[t].fd = f
    /\ interest'[e][f] = call[t].data

Agreeing(e, f) ==
  /\ standing[e][f] # "never" => standing'[e][f] # "never"
  /\ standing'[e][f] = "agreed" =>
       \/ standing[e][f] = "agreed" /\ interest'[e][f] = interest[e][f]
       \/ Through(e, f)

LEMMA KernelStep ==
  ASSUME IInv, epdata' = epdata, Types', Calls',
         \A e \in Epfds, f \in Fds : Agreeing(e, f)
  PROVE  IInv'
<1>1. \A i \in Indices, j \in Places : FollowedAt(i, j) =>
        epdata[i].epfd \in Epfds /\ epdata[i].following[j].fd \in Fds
  BY DEF FollowedAt, IInv, Types, Entry, Place
<1>2. \A t \in Threads : pc[t] = "kernel" => InCall(call[t]) /\ Told(call[t])
  BY DEF IInv, Calls, CallAt
<1>3. Entries'
  BY DEF IInv, Entries
<1>4. Asked'
  <2>1. ASSUME NEW i \in Indices, NEW j \in Places, FollowedAt(i, j)
        PROVE  standing'[epdata[i].epfd][epdata[i].following[j].fd] # "never"
    BY <1>1, <2>1 DEF IInv, Asked, Agreeing
  <2> QED BY <2>1, SameTable DEF Asked
<1>5. Latest'
  <2>1. ASSUME NEW i \in Indices, NEW j \in Places, FirstAt(i, j), NEW e \in Epfds, NEW f \in Fds,
               e = epdata[i].epfd, f = epdata[i].following[j].fd,
               standing'[e][f] = "agreed", interest'[e][f] # None
        PROVE  epdata[i].following[j].data = interest'[e][f]
    <3>1. FollowedAt(i, j)
      BY <2>1 DEF FirstAt
    <3>2. CASE standing[e][f] = "agreed" /\ interest'[e][f] = interest[e][f]
      BY <2>1, <3>2 DEF IInv, Latest
    <3>3. CASE Through(e, f)
      <4>1. PICK t \in Threads : /\ pc[t] = "kernel" /\ call[t].epfd = e /\ call[t].fd = f
                                 /\ interest'[e][f] = call[t].data
        BY <3>3 DEF Through
      <4> QED BY <1>2, <2>1, <3>1, <4>1 DEF Told
    <3> QED BY <2>1, <3>2, <3>3 DEF Agreeing
  <2>2. ASSUME NEW i \in Indices, NEW j \in Places, FirstAt(i, j)
        PROVE  FollowedAt(i, j)
    BY <2>2 DEF FirstAt
  <2> QED BY <1>1, <2>1, <2>2, SameTable DEF Latest
<1>6. Removed'
  <2>1. ASSUME NEW i \in Indices, NEW j \in Places, i > 0, FollowedAt(i, j),
               NEW e \in Epfds, NEW f \in Fds,
               e = epdata[i].epfd, f = epdata[i].following[j].fd, standing'[e][f] = "agreed"
        PROVE  interest'[e][f] # None
    <3>1. CASE standing[e][f] = "agreed" /\ interest'[e][f] = interest[e][f]
      BY <2>1, <3>1 DEF IInv, Removed
    <3>2. CASE Through(e, f)
      <4>1. PICK t \in Threads : /\ pc[t] = "kernel" /\ call[t].epfd = e /\ call[t].fd = f
                                 /\ interest'[e][f] = call[t].data
        BY <3>2 DEF Through
      <4> QED BY <1>2, <2>1, <4>1 DEF Told
    <3> QED BY <2>1, <3>1, <3>2 DEF Agreeing
  <2> QED BY <1>1, <2>1, SameTable DEF Removed
<1> QED BY <1>3, <1>4, <1>5, <1>6 DEF IInv

\* A call the kernel accepts, or refuses; the standing of the socket is what
\* the step makes of it.
LEMMA CallReturns ==
  ASSUME IInv, NEW t \in Threads, pc[t] \in {"kernel", "libc"}, NEW status \in Standings,
         pc' = [pc EXCEPT ![t] = "out"], call' = [call EXCEPT ![t] = NoCall],
         Accepted(t), standing' = [standing EXCEPT ![call[t].epfd][call[t].fd] = status],
         UNCHANGED <<epdata, ours>>,
         status = "agreed" => pc[t] = "kernel",
         status # "never" \/ standing[call[t].epfd][call[t].fd] = "never"
  PROVE  IInv'
<1> PICK c : c = call[t]
  OBVIOUS
<1>1. InCall(c)
  BY DEF IInv, Calls, CallAt
<1>2. c.epfd \in Epfds /\ c.fd \in Fds /\ c.data \in Data \cup {None}
  BY <1>1 DEF InCall
<1>3. interest' = [interest EXCEPT ![c.epfd][c.fd] = c.data]
  BY DEF Accepted
<1>4. /\ interest' \in [Epfds -> [Fds -> Data \cup {None}]]
      /\ \A e \in Epfds, f \in Fds :
           interest'[e][f] = IF e = c.epfd /\ f = c.fd THEN c.data ELSE interest[e][f]
  <2>1. interest \in [Epfds -> [Fds -> Data \cup {None}]]
    BY DEF IInv, Types
  <2> QED BY <1>2, <1>3, <2>1
<1>5. /\ standing' \in [Epfds -> [Fds -> Standings]]
      /\ \A e \in Epfds, f \in Fds :
           standing'[e][f] = IF e = c.epfd /\ f = c.fd THEN status ELSE standing[e][f]
  <2>1. standing \in [Epfds -> [Fds -> Standings]]
    BY DEF IInv, Types
  <2> QED BY <1>2, <2>1
<1>6. Steps(t)
  BY ReturnSteps
<1>7. Types' /\ Calls'
  BY <1>4, <1>5, <1>6, CallsKept DEF IInv, Types, Steps
<1>8. ASSUME NEW e \in Epfds, NEW f \in Fds
      PROVE  Agreeing(e, f)
  <2>1. CASE e = c.epfd /\ f = c.fd
    BY <1>4, <1>5, <2>1 DEF Agreeing, Through
  <2>2. CASE ~ (e = c.epfd /\ f = c.fd)
    BY <1>4, <1>5, <2>2 DEF Agreeing
  <2> QED BY <2>1, <2>2
<1> QED BY <1>7, <1>8, KernelStep

LEMMA LibcStep ==
  ASSUME IInv, NEW t \in Threads, LibcEpollCtl(t) \/ LibcOnly(t)
  PROVE  IInv'
<1>1. /\ pc[t] \in {"kernel", "libc"}
      /\ pc' = [pc EXCEPT ![t] = "out"] /\ call' = [call EXCEPT ![t] = NoCall]
      /\ UNCHANGED <<epdata, ours>>
  BY DEF LibcEpollCtl, LibcOnly, Return, Goto
<1>2. CASE UNCHANGED <<interest, standing>>
  BY <1>1, <1>2, ReturnSteps, QuietStep
<1>3. CASE /\ pc[t] = "kernel" /\ Accepted(t)
           /\ standing' = [standing EXCEPT ![call[t].epfd][call[t].fd] = "agreed"]
  BY <1>1, <1>3, CallReturns DEF Standings
<1>4. CASE /\ pc[t] = "libc" /\ Accepted(t)
           /\ standing' = [standing EXCEPT ![call[t].epfd][call[t].fd] = Parted(@)]
  <2>1. call[t].epfd \in Epfds /\ call[t].fd \in Fds
    BY <1>4 DEF IInv, Calls, CallAt, InCall
  <2>2. standing[call[t].epfd][call[t].fd] \in Standings
    BY <2>1 DEF IInv, Types
  <2>3. PICK status : status = Parted(standing[call[t].epfd][call[t].fd])
    OBVIOUS
  <2>4. /\ status \in Standings /\ status # "agreed"
        /\ status # "never" \/ standing[call[t].epfd][call[t].fd] = "never"
    BY <2>2, <2>3 DEF Parted, Standings
  <2>5. standing' = [standing EXCEPT ![call[t].epfd][call[t].fd] = status]
    BY <1>4, <2>3
  <2> QED BY <1>1, <1>4, <2>4, <2>5, CallReturns
<1> QED BY <1>2, <1>3, <1>4 DEF LibcEpollCtl, LibcOnly, Return, Goto

\* What is closed counts no longer, and a port that is given counts for nothing yet.
LEMMA CloseStep ==
  ASSUME IInv, NEW fd, NEW epfd,
         \/ fd \in Fds /\ (Close(fd) \/ Bind(fd))
         \/ epfd \in Epfds /\ CloseEpoll(epfd)
  PROVE  IInv'
<1>1. /\ UNCHANGED <<epdata, pc, call>>
      /\ ours' \in SUBSET Fds
  BY DEF Close, CloseEpoll, Bind, IInv, Types
<1>2. /\ interest \in [Epfds -> [Fds -> Data \cup {None}]]
      /\ standing \in [Epfds -> [Fds -> Standings]]
  BY DEF IInv, Types
<1>3. /\ interest' \in [Epfds -> [Fds -> Data \cup {None}]]
      /\ standing' \in [Epfds -> [Fds -> Standings]]
      /\ \A e \in Epfds, f \in Fds :
           \/ /\ interest'[e][f] = interest[e][f] /\ standing'[e][f] = standing[e][f]
           \/ standing'[e][f] = Parted(standing[e][f])
  <2>1. CASE fd \in Fds /\ Close(fd)
    <3>1. /\ interest' = [e \in Epfds |-> [interest[e] EXCEPT ![fd] = None]]
          /\ standing' = [e \in Epfds |-> [standing[e] EXCEPT ![fd] = Parted(@)]]
      BY <2>1 DEF Close
    <3>2. \A e \in Epfds : /\ interest[e] \in [Fds -> Data \cup {None}]
                           /\ standing[e] \in [Fds -> Standings]
                           /\ Parted(standing[e][fd]) \in Standings
      BY <1>2, <2>1 DEF Parted, Standings
    <3>3. /\ \A e \in Epfds : [interest[e] EXCEPT ![fd] = None] \in [Fds -> Data \cup {None}]
          /\ \A e \in Epfds : [standing[e] EXCEPT ![fd] = Parted(@)] \in [Fds -> Standings]
      BY <3>2
    <3>4. interest' \in [Epfds -> [Fds -> Data \cup {None}]]
          /\ standing' \in [Epfds -> [Fds -> Standings]]
      BY <3>1, <3>3
    <3>5. ASSUME NEW e \in Epfds, NEW f \in Fds
          PROVE  \/ /\ interest'[e][f] = interest[e][f] /\ standing'[e][f] = standing[e][f]
                 \/ standing'[e][f] = Parted(standing[e][f])
      BY <3>1, <3>2
    <3> QED BY <3>4, <3>5
  <2>2. CASE epfd \in Epfds /\ CloseEpoll(epfd)
    <3> PICK blank : blank = [f \in Fds |-> None]
      OBVIOUS
    <3> PICK status : status = [f \in Fds |-> Parted(standing[epfd][f])]
      OBVIOUS
    <3>1. /\ interest' = [interest EXCEPT ![epfd] = blank]
          /\ standing' = [standing EXCEPT ![epfd] = status]
      BY <2>2 DEF CloseEpoll
    <3>2. \A f \in Fds : standing[epfd][f] \in Standings
      BY <1>2, <2>2
    <3>3. \A f \in Fds : Parted(standing[epfd][f]) \in Standings
      BY <3>2 DEF Parted, Standings
    <3>4. blank \in [Fds -> Data \cup {None}] /\ status \in [Fds -> Standings]
      BY <3>3
    <3>5. interest' \in [Epfds -> [Fds -> Data \cup {None}]]
          /\ standing' \in [Epfds -> [Fds -> Standings]]
      BY <1>2, <3>1, <3>4
    <3>6. ASSUME NEW e \in Epfds, NEW f \in Fds
          PROVE  \/ /\ interest'[e][f] = interest[e][f] /\ standing'[e][f] = standing[e][f]
                 \/ standing'[e][f] = Parted(standing[e][f])
      <4>1. CASE e = epfd
        <5>1. standing'[e] = status
          BY <1>2, <2>2, <3>1, <4>1
        <5> QED BY <4>1, <5>1
      <4>2. CASE e # epfd
        BY <1>2, <3>1, <4>2
      <4> QED BY <4>1, <4>2
    <3> QED BY <3>5, <3>6
  <2>3. CASE Bind(fd)
    BY <1>2, <2>3 DEF Bind
  <2> QED BY <2>1, <2>2, <2>3
<1>4. Types'
  BY <1>1, <1>3 DEF IInv, Types
<1>5. Calls'
  <2>1. \A place, c : CallAt(place, c) => CallAt(place, c)'
    BY <1>1, SameTable
  <2>2. \A u \in Threads : CallAt(pc'[u], call'[u])
    BY <1>1 DEF IInv, Calls
  <2> QED BY <2>1, <2>2 DEF Calls
<1>6. \A e \in Epfds, f \in Fds : Agreeing(e, f)
  <2>1. ASSUME NEW e \in Epfds, NEW f \in Fds
        PROVE  Agreeing(e, f)
    <3>1. standing[e][f] \in Standings
      BY <1>2
    <3>2. CASE standing'[e][f] = Parted(standing[e][f])
      BY <3>1, <3>2 DEF Agreeing, Parted, Standings
    <3>3. CASE interest'[e][f] = interest[e][f] /\ standing'[e][f] = standing[e][f]
      BY <3>3 DEF Agreeing
    <3> QED BY <1>3, <3>2, <3>3
  <2> QED BY <2>1
<1> QED BY <1>1, <1>4, <1>5, <1>6, KernelStep

(***************************************************************************)
(* What epoll_ctl makes of the table for the socket and the descriptor of  *)
(* call c.  Whatever another socket is followed with was there before and  *)
(* stays first if it was.  The first copy of c's own has c's data, and a   *)
(* deletion leaves none of them, but at index 0.                           *)
(***************************************************************************)
Updates(c) ==
  /\ epdata' \in [Indices -> Entry]
  /\ Entries'
  /\ \A i \in Indices, j \in Places : FollowedAt(i, j)' =>
       IF epdata'[i].epfd = c.epfd /\ epdata'[i].following[j].fd = c.fd
       THEN /\ FirstAt(i, j)' /\ c.data # None => epdata'[i].following[j].data = c.data
            /\ i > 0 => c.data # None
       ELSE /\ FollowedAt(i, j) /\ epdata'[i].epfd = epdata[i].epfd
            /\ epdata'[i].following[j] = epdata[i].following[j]
            /\ FirstAt(i, j)' => FirstAt(i, j)

LEMMA WrittenUpdates ==
  ASSUME IInv, NEW c, InCall(c), c.data # None, NEW i \in Indices,
         \A k \in Indices : epdata[k].epfd = c.epfd => k = i,
         epdata[i].epfd \in {None, c.epfd},
         epdata' \in [Indices -> Entry], epdata'[i].epfd = c.epfd,
         \A k \in Indices \ {i} : epdata'[k] = epdata[k],
         Written(epdata[i].following, epdata'[i].following, c.fd, c.data)
  PROVE  Updates(c)
<1> PICK p \in Places :
      /\ epdata[i].following[p].fd \in {None, c.fd}
      /\ \A k \in 0 .. p - 1 : epdata[i].following[k].fd \notin {None, c.fd}
      /\ epdata'[i].following[p] = [fd |-> c.fd, data |-> c.data]
      /\ \A j \in Places \ {p} : epdata'[i].following[j] = epdata[i].following[j]
  BY DEF Written
<1>1. c.epfd \in Epfds /\ c.epfd # None /\ c.fd # None
  BY DEF InCall
<1>2. \A k \in Indices : epdata[k].epfd = None => \A j \in Places : epdata[k].following[j].fd = None
  BY DEF IInv, Entries, Free
<1>3. Entries'
  BY <1>1 DEF IInv, Entries
<1>4. ASSUME NEW k \in Indices, NEW j \in Places, FollowedAt(k, j)', k # i
      PROVE  /\ epdata'[k].epfd # c.epfd /\ FollowedAt(k, j) /\ epdata'[k] = epdata[k]
             /\ FirstAt(k, j)' => FirstAt(k, j)
  BY <1>4 DEF FollowedAt, FirstAt
<1>5. ASSUME NEW j \in Places, FollowedAt(i, j)', epdata'[i].following[j].fd = c.fd, FirstAt(i, j)'
      PROVE  epdata'[i].following[j].data = c.data
  <2>1. CASE j = p
    BY <2>1
  <2>2. CASE j # p
    <3>1. epdata[i].following[j].fd = c.fd
      BY <1>5, <2>2
    <3>2. ~ (j \in 0 .. p - 1)
      BY <3>1
    <3>3. p \in 0 .. j - 1
      BY <2>2, <3>2 DEF Places
    <3>4. epdata'[i].following[p].fd # epdata'[i].following[j].fd
      BY <1>5, <3>3 DEF FirstAt
    <3> QED BY <1>5, <3>4
  <2> QED BY <2>1, <2>2
<1>6. ASSUME NEW j \in Places, FollowedAt(i, j)', epdata'[i].following[j].fd # c.fd
      PROVE  /\ FollowedAt(i, j) /\ epdata'[i].epfd = epdata[i].epfd
             /\ epdata'[i].following[j] = epdata[i].following[j]
             /\ FirstAt(i, j)' => FirstAt(i, j)
  <2>1. j # p /\ epdata'[i].following[j] = epdata[i].following[j]
    BY <1>6
  <2>2. epdata[i].following[j].fd # None /\ epdata[i].epfd # None
    BY <1>2, <1>6, <2>1 DEF FollowedAt
  <2>3. ASSUME FirstAt(i, j)', NEW k \in 0 .. j - 1
        PROVE  epdata[i].following[k].fd # epdata[i].following[j].fd
    <3>1. k \in Places /\ epdata'[i].following[k].fd # epdata'[i].following[j].fd
      BY <2>3 DEF FirstAt, Places
    <3>2. CASE k = p
      BY <1>6, <2>1, <2>2, <3>2
    <3>3. CASE k # p
      BY <2>1, <3>1, <3>3
    <3> QED BY <3>2, <3>3
  <2>4. FollowedAt(i, j) /\ epdata'[i].epfd = epdata[i].epfd
    BY <2>2 DEF FollowedAt
  <2> QED BY <2>1, <2>3, <2>4 DEF FirstAt
<1> QED BY <1>3, <1>4, <1>5, <1>6 DEF Updates

LEMMA ForgottenUpdates ==
  ASSUME IInv, NEW c, InCall(c), c.data = None, NEW i \in Indices,
         \A k \in Indices : epdata[k].epfd = c.epfd => k = i,
         epdata' = [epdata EXCEPT ![i].following = Forget(@, c.fd)]
  PROVE  Updates(c)
<1>1. c.fd # None /\ Free \in Place /\ Free.fd = None
  BY DEF InCall, Place, Free
<1>2. epdata \in [Indices -> Entry] /\ epdata[i] \in Entry
  BY DEF IInv, Types
<1> PICK old : old = epdata[i].following
  OBVIOUS
<1> PICK new : new = Forget(old, c.fd)
  OBVIOUS
<1>3. old \in [Places -> Place]
  BY <1>2 DEF Entry
<1>4. new \in [Places -> Place]
      /\ \A j \in Places : new[j] = IF old[j].fd = c.fd THEN Free ELSE old[j]
  BY <1>1, <1>3 DEF Forget
<1>5. epdata'[i] = [epdata[i] EXCEPT !.following = new]
      /\ \A k \in Indices \ {i} : epdata'[k] = epdata[k]
  BY <1>2
<1>6. epdata'[i] \in Entry /\ epdata'[i].epfd = epdata[i].epfd /\ epdata'[i].following = new
  BY <1>2, <1>4, <1>5 DEF Entry
<1>7. epdata' \in [Indices -> Entry]
  BY <1>2, <1>5, <1>6
<1>8. Entries'
  <2>1. ASSUME NEW k \in Indices, epdata'[k].epfd = None, NEW j \in Places
        PROVE  epdata'[k].following[j] = Free
    <3>1. epdata[k].epfd = None
      BY <1>5, <1>6, <2>1
    <3>2. epdata[k].following[j] = Free
      BY <3>1 DEF IInv, Entries
    <3>3. CASE k = i
      BY <1>4, <1>6, <3>2, <3>3
    <3>4. CASE k # i
      BY <1>5, <3>2, <3>4
    <3> QED BY <3>3, <3>4
  <2>2. \A k \in Indices : epdata'[k].epfd = epdata[k].epfd
    BY <1>5, <1>6
  <2> QED BY <2>1, <2>2 DEF IInv, Entries
<1>9. ASSUME NEW k \in Indices, NEW j \in Places, FollowedAt(k, j)'
      PROVE  /\ ~ (epdata'[k].epfd = c.epfd /\ epdata'[k].following[j].fd = c.fd)
             /\ FollowedAt(k, j) /\ epdata'[k].epfd = epdata[k].epfd
             /\ epdata'[k].following[j] = epdata[k].following[j]
             /\ FirstAt(k, j)' => FirstAt(k, j)
  <2>1. CASE k # i
    BY <1>5, <1>9, <2>1 DEF FollowedAt, FirstAt
  <2>2. CASE k = i
    <3>1. new[j].fd # None /\ epdata[i].epfd # None
      BY <1>6, <1>9, <2>2 DEF FollowedAt
    <3>2. old[j].fd # c.fd /\ new[j] = old[j]
      BY <1>1, <1>4, <3>1
    <3>3. ASSUME \A l \in 0 .. j - 1 : new[l].fd # new[j].fd, NEW l \in 0 .. j - 1
          PROVE  old[l].fd # old[j].fd
      <4>1. l \in Places
        BY DEF Places
      <4> QED BY <1>4, <3>2, <3>3, <4>1
    <3>4. FirstAt(i, j)' => FirstAt(i, j)
      BY <1>6, <3>1, <3>2, <3>3 DEF FirstAt, FollowedAt
    <3> QED BY <1>6, <2>2, <3>1, <3>2, <3>4 DEF FollowedAt
  <2> QED BY <2>1, <2>2
<1> QED BY <1>7, <1>8, <1>9 DEF Updates

\* The table stays as it is when nothing there is about the socket, or when the
\* socket is deleted from the descriptor at index 0.
LEMMA NothingUpdates ==
  ASSUME IInv, NEW c, InCall(c), epdata' = epdata,
         \/ \A k \in Indices, j \in Places :
              epdata[k].epfd = c.epfd => epdata[k].following[j].fd # c.fd
         \/ c.data = None /\ \A k \in Indices : epdata[k].epfd = c.epfd => k = 0
  PROVE  Updates(c)
<1>1. epdata' \in [Indices -> Entry] /\ Entries'
  BY DEF IInv, Types, Entries
<1> QED BY <1>1 DEF Updates, FollowedAt, FirstAt, Indices

LEMMA TableUpdates ==
  ASSUME IInv, NEW t \in Threads, pc[t] = "table", AddOrMod(t) \/ Del(t)
  PROVE  InCall(call[t]) /\ Updates(call[t])
<1> PICK c : c = call[t]
  OBVIOUS
<1> PICK i : i = c.index
  OBVIOUS
<1>1. InCall(c) /\ i = EpollIndex(c.epfd)
  BY DEF IInv, Calls, CallAt
<1>2. /\ i = -1 \/ i \in Indices
      /\ \A k \in Indices : epdata[k].epfd = c.epfd => k = i
      /\ i \in Indices => epdata[i].epfd \in {None, c.epfd}
  <2>1. c.epfd # None
    BY <1>1 DEF InCall
  <2>2. CASE i \in Indices /\ epdata[i].epfd = c.epfd
    BY <2>1, <2>2 DEF IInv, Entries
  <2>3. CASE /\ i = -1 \/ (i \in Indices /\ epdata[i].epfd = None)
             /\ \A k \in Indices : epdata[k].epfd # c.epfd
    BY <2>3 DEF Indices
  <2> QED BY <1>1, <2>2, <2>3, EpollIndexIs
<1>3. i # -1 => i >= 0
  BY <1>2 DEF Indices
<1>4. -1 \notin Indices
  BY DEF Indices
<1>5. CASE AddOrMod(t)
  <2>1. c.data # None /\ c.data \in Data /\ c.epfd \in Epfds /\ c.fd \in Fds
    BY <1>1, <1>5 DEF InCall, AddOrMod
  <2>2. CASE i = -1
    <3>1. epdata' = epdata
      BY <1>5, <2>2 DEF AddOrMod
    <3> QED BY <1>1, <1>2, <1>4, <2>2, <3>1, NothingUpdates
  <2>3. CASE i \in Indices
    <3>1. IF epdata[i].epfd = None
          THEN epdata' = [epdata EXCEPT ![i].epfd = c.epfd,
                                        ![i].following[0] = [fd |-> c.fd, data |-> c.data]]
          ELSE epdata' = [epdata EXCEPT ![i].following = Follow(@, c.fd, c.data)]
      <4>1. call[t].index = i /\ i \in Int /\ i >= 0
        BY <1>2, <1>3, <2>3 DEF Indices
      <4>2. Enter(t, call[t].index)
        BY <1>5, <4>1 DEF AddOrMod
      <4> QED BY <4>1, <4>2 DEF Enter
    <3>2. epdata \in [Indices -> Entry] /\ epdata[i] \in Entry
      BY <2>3 DEF IInv, Types
    <3>3. epdata[i].following \in [Places -> Place]
      BY <3>2 DEF Entry
    <3>4. CASE epdata[i].epfd = None
      <4> PICK new : new = [fd |-> c.fd, data |-> c.data]
        OBVIOUS
      <4> PICK place : place = [epdata[i].following EXCEPT ![0] = new]
        OBVIOUS
      <4>1. epdata' = [epdata EXCEPT ![i].epfd = c.epfd, ![i].following[0] = new]
        BY <3>1, <3>4
      <4>2. new \in Place /\ 0 \in Places
        BY <2>1 DEF Place, Places
      <4>3. place \in [Places -> Place] /\ place[0] = new
            /\ \A j \in Places \ {0} : place[j] = epdata[i].following[j]
        BY <3>3, <4>2
      <4>4. epdata'[i] = [epfd |-> c.epfd, following |-> place]
            /\ \A k \in Indices \ {i} : epdata'[k] = epdata[k]
        BY <2>3, <3>2, <4>1 DEF Entry
      <4>5. [epfd |-> c.epfd, following |-> place] \in Entry
        BY <2>1, <4>3 DEF Entry
      <4>6. epdata' = [k \in Indices |-> epdata'[k]]
        <5>1. Started(epdata, epdata', i, c.epfd, new)
          BY <4>1, Zenon DEF Started
        <5>2. epdata' = [k \in DOMAIN epdata |-> epdata'[k]]
          BY <5>1, StartedIsFunction, Zenon
        <5>3. DOMAIN epdata = Indices
          BY <3>2
        <5> QED BY <5>2, <5>3
      <4>7. epdata' \in [Indices -> Entry]
        <5>1. \A k \in Indices : epdata[k] \in Entry
          BY <3>2
        <5>2. \A k \in Indices : epdata'[k] \in Entry
          BY <4>4, <4>5, <5>1, Zenon
        <5> QED BY <4>6, <5>2, Zenon
      <4>8. epdata[i].following[0].fd = None
        BY <2>3, <3>4, <4>2 DEF IInv, Entries, Free
      <4>9. Written(epdata[i].following, place, c.fd, c.data)
        <5>1. \A k \in 0 .. 0 - 1 : FALSE
          OBVIOUS
        <5>2. place[0] = [fd |-> c.fd, data |-> c.data]
          BY <4>3
        <5> QED BY <4>2, <4>3, <4>8, <5>1, <5>2, Zenon DEF Written
      <4>10. epdata'[i].epfd = c.epfd
             /\ Written(epdata[i].following, epdata'[i].following, c.fd, c.data)
        BY <4>4, <4>9
      <4>11. \A k \in Indices : epdata[k].epfd = c.epfd => k = i
        BY <1>2, <1>4, <2>3
      <4>12. epdata[i].epfd \in {None, c.epfd}
        BY <3>4
      <4> QED BY <1>1, <2>1, <2>3, <4>4, <4>7, <4>10, <4>11, <4>12, WrittenUpdates, Zenon
    <3>5. CASE epdata[i].epfd # None
      <4>1. epdata[i].epfd = c.epfd
        BY <1>2, <2>3, <3>5
      <4> PICK place : place = Follow(epdata[i].following, c.fd, c.data)
        OBVIOUS
      <4>2. epdata' = [epdata EXCEPT ![i].following = place]
        BY <3>1, <3>5
      <4>3. \/ Written(epdata[i].following, place, c.fd, c.data)
            \/ place = epdata[i].following /\ \A j \in Places : epdata[i].following[j].fd # c.fd
        BY <2>1, <3>3, FollowIs
      <4>4. CASE Written(epdata[i].following, place, c.fd, c.data)
        <5>1. place \in [Places -> Place]
          BY <4>4 DEF Written
        <5>2. epdata'[i] = [epdata[i] EXCEPT !.following = place]
              /\ \A k \in Indices \ {i} : epdata'[k] = epdata[k]
          BY <2>3, <3>2, <4>2
        <5>3. epdata'[i] \in Entry /\ epdata'[i].epfd = c.epfd /\ epdata'[i].following = place
          BY <3>2, <4>1, <5>1, <5>2 DEF Entry
        <5>4. epdata' \in [Indices -> Entry]
          BY <3>2, <4>2, <5>2, <5>3
        <5> QED BY <1>1, <1>2, <2>1, <2>3, <4>4, <5>2, <5>3, <5>4, WrittenUpdates
      <4>5. CASE place = epdata[i].following /\ \A j \in Places : epdata[i].following[j].fd # c.fd
        <5>1. epdata' = epdata
          BY <3>2, <4>2, <4>5 DEF Entry
        <5> QED BY <1>1, <1>2, <4>5, <5>1, NothingUpdates
      <4> QED BY <4>3, <4>4, <4>5
    <3> QED BY <3>4, <3>5
  <2> QED BY <1>1, <1>2, <2>2, <2>3
<1>6. CASE Del(t)
  <2>1. c.data = None
    BY <1>1, <1>6 DEF InCall, Del
  <2>2. CASE i > 0
    <3>1. i \in Indices /\ epdata' = [epdata EXCEPT ![i].following = Forget(@, c.fd)]
      BY <1>2, <1>6, <2>2 DEF Del, Indices
    <3> QED BY <1>1, <1>2, <2>1, <3>1, ForgottenUpdates
  <2>3. CASE ~ (i > 0)
    <3>1. epdata' = epdata
      BY <1>6, <2>3 DEF Del
    <3>2. \A k \in Indices : epdata[k].epfd = c.epfd => k = 0
      BY <1>2, <2>3 DEF Indices
    <3> QED BY <1>1, <2>1, <3>1, <3>2, NothingUpdates
  <2> QED BY <2>2, <2>3
<1> QED BY <1>5, <1>6

LEMMA UpdateTableStep ==
  ASSUME IInv, InTurn, NEW t \in Threads, UpdateTable(t)
  PROVE  IInv'
<1> PICK c : c = call[t]
  OBVIOUS
<1>1. /\ pc[t] = "table" /\ pc' = [pc EXCEPT ![t] = "kernel"]
      /\ standing' = [standing EXCEPT ![c.epfd][c.fd] = "apart"]
      /\ UNCHANGED <<interest, ours, call>>
  BY DEF UpdateTable, Goto
<1>2. InCall(c) /\ Updates(c)
  BY <1>1, TableUpdates DEF UpdateTable
<1>3. /\ \A u \in Threads \ {t} : pc[u] = "out" /\ pc'[u] = "out"
      /\ pc'[t] = "kernel" /\ pc' \in [Threads -> Stages]
  BY <1>1 DEF InTurn, IInv, Types, Stages
<1>4. /\ standing' \in [Epfds -> [Fds -> Standings]]
      /\ \A e \in Epfds, f \in Fds :
           standing'[e][f] = IF e = c.epfd /\ f = c.fd THEN "apart" ELSE standing[e][f]
  <2>1. standing \in [Epfds -> [Fds -> Standings]]
    BY DEF IInv, Types
  <2>2. c.epfd \in Epfds /\ c.fd \in Fds
    BY <1>2 DEF InCall
  <2> QED BY <1>1, <2>1, <2>2 DEF Standings
<1>5. Types'
  BY <1>1, <1>2, <1>3, <1>4 DEF IInv, Types, Updates
<1>6. Calls'
  <2>1. Told(c)'
    BY <1>2 DEF Told, Updates
  <2>2. InCall(c)'
    BY <1>2 DEF InCall
  <2>3. CallAt("kernel", c)'
    BY <2>1, <2>2 DEF CallAt
  <2>4. CallAt("out", NoCall)'
    BY DEF CallAt
  <2>5. ASSUME NEW u \in Threads
        PROVE  \/ pc'[u] = "kernel" /\ call'[u] = c
               \/ pc'[u] = "out" /\ call'[u] = NoCall
    <3>1. CASE u = t
      BY <1>1, <1>3, <3>1
    <3>2. CASE u # t
      BY <1>1, <1>3, <3>2 DEF IInv, Calls, CallAt
    <3> QED BY <3>1, <3>2
  <2> QED BY <2>3, <2>4, <2>5 DEF Calls
<1>7. \A i \in Indices, j \in Places : FollowedAt(i, j)' =>
        epdata'[i].epfd \in Epfds /\ epdata'[i].following[j].fd \in Fds
  BY <1>2 DEF FollowedAt, Updates, Entry, Place
\* Any other socket has what it had, and stands as it stood.
<1>8. ASSUME NEW i \in Indices, NEW j \in Places, FollowedAt(i, j)',
             NEW e, e = epdata'[i].epfd, NEW f, f = epdata'[i].following[j].fd
      PROVE  \/ standing'[e][f] = "apart"
             \/ /\ FollowedAt(i, j) /\ epdata[i].epfd = e
                /\ epdata[i].following[j].fd = f
                /\ epdata'[i].following[j] = epdata[i].following[j]
                /\ FirstAt(i, j)' => FirstAt(i, j)
                /\ standing'[e][f] = standing[e][f] /\ interest'[e][f] = interest[e][f]
  <2>1. CASE e = c.epfd /\ f = c.fd
    <3>1. e \in Epfds /\ f \in Fds
      BY <1>7, <1>8
    <3> QED BY <1>4, <2>1, <3>1
  <2>2. CASE ~ (e = c.epfd /\ f = c.fd)
    <3>1. /\ FollowedAt(i, j) /\ epdata'[i].epfd = epdata[i].epfd
          /\ epdata'[i].following[j] = epdata[i].following[j]
          /\ FirstAt(i, j)' => FirstAt(i, j)
      BY <1>2, <1>8, <2>2 DEF Updates
    <3>2. e \in Epfds /\ f \in Fds
      BY <1>7, <1>8
    <3>3. standing'[e][f] = standing[e][f] /\ interest' = interest
      BY <1>1, <1>4, <2>2, <3>2
    <3> QED BY <1>8, <3>1, <3>3
  <2> QED BY <2>1, <2>2
<1>9. Asked'
  BY <1>8 DEF IInv, Asked
<1>10. Latest'
  <2>1. ASSUME NEW i \in Indices, NEW j \in Places, FirstAt(i, j)',
               NEW e, e = epdata'[i].epfd, NEW f, f = epdata'[i].following[j].fd,
               standing'[e][f] = "agreed", interest'[e][f] # None
        PROVE  epdata'[i].following[j].data = interest'[e][f]
    <3>1. FollowedAt(i, j)'
      BY <2>1 DEF FirstAt
    <3>2. /\ FirstAt(i, j) /\ epdata[i].epfd = e /\ epdata[i].following[j].fd = f
          /\ epdata'[i].following[j] = epdata[i].following[j]
          /\ standing[e][f] = "agreed" /\ interest'[e][f] = interest[e][f]
      BY <1>8, <2>1, <3>1
    <3> QED BY <2>1, <3>2 DEF IInv, Latest
  <2> QED BY <2>1 DEF Latest
<1>11. Removed'
  <2>1. ASSUME NEW i \in Indices, NEW j \in Places, i > 0, FollowedAt(i, j)',
               NEW e, e = epdata'[i].epfd, NEW f, f = epdata'[i].following[j].fd,
               standing'[e][f] = "agreed"
        PROVE  interest'[e][f] # None
    <3>1. /\ FollowedAt(i, j) /\ epdata[i].epfd = e /\ epdata[i].following[j].fd = f
          /\ standing[e][f] = "agreed" /\ interest'[e][f] = interest[e][f]
      BY <1>8, <2>1
    <3> QED BY <2>1, <3>1 DEF IInv, Removed
  <2> QED BY <2>1 DEF Removed
<1> QED BY <1>2, <1>5, <1>6, <1>9, <1>10, <1>11 DEF IInv, Updates

LEMMA Inductive == IInv /\ InTurn /\ [Next]_vars => IInv'
<1> SUFFICES ASSUME IInv, InTurn, [Next]_vars
             PROVE  IInv'
  OBVIOUS
<1>1. ASSUME NEW t \in Threads, Step(t)
      PROVE  IInv'
  <2>1. ASSUME NEW op \in Ops, NEW e \in Epfds, NEW f \in Fds, NEW d \in Data \cup {None},
               EpollCtl(t, op, e, f, d)
        PROVE  IInv'
    BY <2>1, EpollCtlStep
  <2>2. CASE UpdateTable(t)
    BY <2>2, UpdateTableStep
  <2>3. CASE LibcEpollCtl(t) \/ LibcOnly(t)
    BY <2>3, LibcStep
  <2>4. ASSUME NEW e \in Epfds, EpollWait(t, e)
        PROVE  IInv'
    BY <2>4, EpollWaitStep
  <2>5. CASE pc[t] = "wait" /\ (ReportRuntime(t) \/ ReportKernel(t))
    BY <2>5, ReportStep
  <2> QED BY <1>1, <2>1, <2>2, <2>3, <2>4, <2>5 DEF Step
<1>2. ASSUME NEW fd \in Fds, Close(fd) \/ Bind(fd)
      PROVE  IInv'
  BY <1>2, CloseStep
<1>3. ASSUME NEW epfd \in Epfds, CloseEpoll(epfd)
      PROVE  IInv'
  BY <1>3, CloseStep
<1>4. CASE UNCHANGED vars
  <2>1. UNCHANGED <<epdata, interest, ours, pc, call, standing>>
    BY <1>4 DEF vars
  <2>2. Types' /\ Calls'
    <3>1. \A place, c : CallAt(place, c) => CallAt(place, c)'
      BY <2>1, SameTable
    <3>2. \A u \in Threads : CallAt(pc'[u], call'[u])
      BY <2>1 DEF IInv, Calls
    <3> QED BY <2>1, <3>1, <3>2 DEF IInv, Types, Calls
  <2>3. \A e \in Epfds, f \in Fds : Agreeing(e, f)
    BY <2>1 DEF Agreeing
  <2> QED BY <2>1, <2>2, <2>3, KernelStep
<1> QED BY <1>1, <1>2, <1>3, <1>4 DEF Next

LEMMA InvariantHolds == Spec /\ []InTurn => []IInv
BY Initially, Inductive, PTL DEF Spec

(***************************************************************************)
(* An application of one thread takes turns with nobody, so what follows   *)
(* holds for it of Spec alone.                                             *)
(***************************************************************************)
LEMMA OneThreadIsInTurn ==
  ASSUME \A t, u \in Threads : t = u
  PROVE  []InTurn
<1>1. InTurn
  BY DEF InTurn
<1> QED BY <1>1, PTL

(***************************************************************************)
(* However adding, changing, deleting and closing followed one another, an *)
(* epoll descriptor has one entry of the table, and the entry follows no   *)
(* socket that the table was not told of for that number (interpose.c:187).*)
(***************************************************************************)
THEOREM EntriesFollowTheirOwn == Spec /\ []InTurn => []FollowsOwn
<1>1. IInv => FollowsOwn
  <2> SUFFICES ASSUME IInv
               PROVE  FollowsOwn
    OBVIOUS
  <2>1. epdata \in [Indices -> [epfd : Epfds \cup {None},
                                following : [Places -> [fd : Fds \cup {None},
                                                        data : Data \cup {None}]]]]
    BY DEF IInv, Types, Entry, Place
  <2>2. \A t \in Threads : call[t].index \in Indices \cup {-1}
    <3>1. ASSUME NEW t \in Threads
          PROVE  call[t].index \in Indices \cup {-1}
      <4>1. CallAt(pc[t], call[t]) /\ pc[t] \in Stages
        BY DEF IInv, Calls, Types
      <4> QED BY <4>1 DEF CallAt, InCall, InWait, NoCall, Stages
    <3> QED BY <3>1
  <2>3. TypeOK
    BY <2>1, <2>2 DEF TypeOK, IInv, Types
  <2> QED BY <2>3 DEF IInv, Entries, Asked, FollowedAt, FollowsOwn, FollowedPlaces
<1> QED BY <1>1, InvariantHolds, PTL

(***************************************************************************)
(* The first copy of a socket in an entry, the one that epoll_wait finds   *)
(* first, has the data the kernel has, though stale copies stay behind     *)
(* (interpose.c:195).                                                      *)
(***************************************************************************)
THEOREM FirstCopiesAreLatest == Spec /\ []InTurn => []FirstCopyIsLatest
<1>1. IInv => FirstCopyIsLatest
  BY DEF FirstCopyIsLatest, IInv, Latest, FirstAt, FollowedAt
<1> QED BY <1>1, InvariantHolds, PTL

(***************************************************************************)
(* What epoll_wait reports for the messages of the runtime is registered   *)
(* in the kernel with that data, unless the descriptor is the one at index *)
(* 0 or the table and the kernel have parted over the socket since: it was *)
(* closed, refused, or changed while it was on another port                *)
(* (interpose.c:177, 205, 214).                                            *)
(***************************************************************************)
THEOREM ReportsAreRegistered == Spec /\ []InTurn => []ReportsRegistered
<1>1. IInv => ReportsRegistered
  <2> SUFFICES ASSUME IInv, NEW t \in Threads, pc[t] = "wait", call[t].index > 0, Agreed(t)
               PROVE  Registered(t)
    BY DEF ReportsRegistered
  <2> PICK c : c = call[t]
    OBVIOUS
  <2> PICK i : i = c.index
    OBVIOUS
  <2>1. InWait(c)
    BY DEF IInv, Calls, CallAt
  <2>2. PICK j \in Places :
          /\ epdata[i].following[j] = [fd |-> c.fd, data |-> c.data]
          /\ c.fd # None
          /\ \A k \in 0 .. j - 1 : epdata[i].following[k].fd = None
    BY <2>1 DEF InWait
  <2>3. i \in Indices /\ epdata[i].epfd = c.epfd /\ c.epfd \in Epfds
    BY <2>1 DEF InWait
  <2>4. FollowedAt(i, j) /\ FirstAt(i, j) /\ epdata[i].following[j].fd = c.fd
    BY <2>2, <2>3 DEF FollowedAt, FirstAt
  <2>5. standing[c.epfd][c.fd] = "agreed"
    BY DEF Agreed
  <2>6. interest[c.epfd][c.fd] # None
    BY <2>3, <2>4, <2>5 DEF IInv, Removed
  <2>7. epdata[i].following[j].data = interest[c.epfd][c.fd]
    <3>1. /\ i \in Indices /\ j \in Places /\ FirstAt(i, j)
          /\ standing[epdata[i].epfd][epdata[i].following[j].fd] = "agreed"
          /\ interest[epdata[i].epfd][epdata[i].following[j].fd] # None
      BY <2>3, <2>4, <2>5, <2>6
    <3>2. epdata[i].following[j].data = interest[epdata[i].epfd][epdata[i].following[j].fd]
      BY <3>1, Zenon DEF IInv, Latest
    <3> QED BY <2>3, <2>4, <3>2
  <2>8. Registered(t) <=> interest[c.epfd][c.fd] = c.data
    BY DEF Registered
  <2>9. epdata[i].following[j].data = c.data
    BY <2>2
  <2>10. interest[c.epfd][c.fd] = c.data
    BY <2>7, <2>9
  <2> QED BY <2>8, <2>10, Zenon
<1> QED BY <1>1, InvariantHolds, PTL
===============================================================================
