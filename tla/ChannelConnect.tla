---------------------------- MODULE ChannelConnect ----------------------------
(***************************************************************************)
(* How processes meet on the shared channel: connect_shared_channel and    *)
(* disconnect of src/vchannel.c, one access to the name or to the region   *)
(* at a time.                                                              *)
(*                                                                         *)
(* The first process to find the name free creates the region and          *)
(* initialises it; later ones map it and take the next place.  Nothing     *)
(* tells an attaching process that the creator is done, and the count of   *)
(* places is read and written by all without a lock.                       *)
(***************************************************************************)
EXTENDS Integers, FiniteSets

CONSTANTS
  Procs,           \* processes that connect, leave, crash and connect again
  Regions,         \* shared memory objects
  None,            \* no region
  MaxOverlaps      \* bound on the calls that begin while another is under way

ASSUME RegionsAssumption ==
  /\ IsFiniteSet(Procs) /\ IsFiniteSet(Regions)
  /\ Cardinality(Regions) >= Cardinality(Procs)
  /\ None \notin Regions
ASSUME MaxOverlapsAssumption == MaxOverlaps \in Nat

COUNT_RINGS == 2

VARIABLES
  shm,      \* the region /servant_<name> refers to, or None
  region,   \* the shared state of each region
  pc,       \* where each process is
  vc,       \* its struct vchannel, the count it read, and where it has mapped
            \* the region
  past      \* history: was the last call that ended refused; how many
            \* calls began during another; has a process crashed inside a call?

vars == <<shm, region, pc, vc, past>>

\* A region as ftruncate has not sized it yet.  "ready" stands for the rings
\* and objects, "master" for master_virt_addr.
Empty   == [sized |-> FALSE, master |-> FALSE, ready |-> FALSE, connected |-> 0]
Nowhere == [ch |-> None, proc_id |-> 0, seen |-> 0, at |-> "unasked"]

\* The address of a mapping: the creator's, one the kernel chose though it was
\* asked for the creator's, or one nobody asked for.
Addresses == {"creator's", "elsewhere", "unasked"}

Init ==
  /\ shm = None
  /\ region = [r \in Regions |-> Empty]
  /\ pc = [p \in Procs |-> "out"]
  /\ vc = [p \in Procs |-> Nowhere]
  /\ past = [refused |-> FALSE, overlaps |-> 0, cut |-> FALSE]

\* A call begins, perhaps while another is under way.
Inside == {p \in Procs : pc[p] \notin {"out", "in", "gone"}}
Begin ==
  \/ Inside = {} /\ UNCHANGED past
  \/ /\ Inside # {} /\ past.overlaps < MaxOverlaps
     /\ past' = [past EXCEPT !.overlaps = @ + 1]

Used(r) == shm = r \/ \E p \in Procs : vc[p].ch = r

Goto(p, from, to) == pc[p] = from /\ pc' = [pc EXCEPT ![p] = to]

\* "name" is what the name now refers to.  The kernel keeps an object while it
\* has the name or one of the users has it mapped.
Name(name, users) ==
  /\ shm' = name
  /\ region' = [r \in Regions |->
                  IF r = name \/ \E q \in users : vc[q].ch = r THEN region[r] ELSE Empty]

\* p is out of the region, or never gets into it.
Leave(p, name) ==
  /\ pc' = [pc EXCEPT ![p] = "out"]
  /\ vc' = [vc EXCEPT ![p] = Nowhere]
  /\ Name(name, Procs \ {p})

OpenNew(p) ==
  /\ shm' \in {r \in Regions : ~Used(r)}
  /\ vc' = [vc EXCEPT ![p].ch = shm']
  /\ UNCHANGED region

(***************************************************************************)
(* The process that finds the name free.                                   *)
(***************************************************************************)
Create(p) ==
  /\ shm = None
  /\ Goto(p, "out", "created")
  /\ OpenNew(p)
  /\ Begin

Truncate(p) ==
  /\ Goto(p, "created", "sized")
  /\ region' = [region EXCEPT ![vc[p].ch].sized = TRUE]
  /\ UNCHANGED <<shm, vc, past>>

InitHeader(p) ==
  /\ Goto(p, "sized", "header")
  /\ region' = [region EXCEPT ![vc[p].ch].master = TRUE, ![vc[p].ch].connected = 0]
  /\ vc' = [vc EXCEPT ![p].at = "creator's"]
  /\ UNCHANGED <<shm, past>>

InitRings(p) ==
  /\ Goto(p, "header", "ready")
  /\ region' = [region EXCEPT ![vc[p].ch].ready = TRUE]
  /\ UNCHANGED <<shm, vc, past>>

(***************************************************************************)
(* The process that finds the name taken.  Its second shm_open creates an  *)
(* empty object if the name has gone meanwhile.                            *)
(***************************************************************************)
Exists(p) ==
  /\ shm # None
  /\ Goto(p, "out", "exists")
  /\ Begin
  /\ UNCHANGED <<shm, region, vc>>

Open(p) ==
  /\ Goto(p, "exists", "opened")
  /\ \/ shm = None /\ OpenNew(p)
     \/ shm # None /\ vc' = [vc EXCEPT ![p].ch = shm] /\ UNCHANGED <<shm, region>>
  /\ UNCHANGED past

\* Mutant: the name of the region that turned p away is kept.
RefuseAndKeep(p) ==
  /\ past' = [past EXCEPT !.refused = TRUE]
  /\ Leave(p, shm)

\* The connection is refused, and the name removed.
Refuse(p) ==
  /\ past' = [past EXCEPT !.refused = TRUE]
  /\ Leave(p, None)

\* Mutant: an object too small is mapped all the same.
CheckSizeDropped(p) ==
  /\ Goto(p, "opened", "sizeok")
  /\ UNCHANGED <<shm, region, vc, past>>

CheckSize(p) ==
  \/ /\ Goto(p, "opened", "sizeok")
     /\ region[vc[p].ch].sized
     /\ UNCHANGED <<shm, region, vc, past>>
  \/ pc[p] = "opened" /\ ~region[vc[p].ch].sized /\ Refuse(p)

\* Mutant: one process too many.
CheckPlacesOffByOne(p) ==
  \/ /\ Goto(p, "sizeok", "remap")
     /\ region[vc[p].ch].connected <= COUNT_RINGS
     /\ UNCHANGED <<shm, region, vc, past>>
  \/ pc[p] = "sizeok" /\ region[vc[p].ch].connected > COUNT_RINGS /\ Refuse(p)

CheckPlaces(p) ==
  \/ /\ Goto(p, "sizeok", "remap")
     /\ region[vc[p].ch].connected < COUNT_RINGS
     /\ UNCHANGED <<shm, region, vc, past>>
  \/ pc[p] = "sizeok" /\ region[vc[p].ch].connected >= COUNT_RINGS /\ Refuse(p)

\* mmap is asked for the address of the creator, if that is known yet; where the
\* region ends up is not looked at.
Remap(p) ==
  /\ Goto(p, "remap", "ready")
  /\ \E address \in Addresses :
       /\ address = "unasked" <=> ~region[vc[p].ch].master
       /\ vc' = [vc EXCEPT ![p].at = address]
  /\ UNCHANGED <<shm, region, past>>

(***************************************************************************)
(* Both take a place: proc_id is read from the count, which is then        *)
(* incremented, from the value read or from another one read after it.     *)
(***************************************************************************)
ReadId(p) ==
  /\ Goto(p, "ready", "counted")
  /\ vc' = [vc EXCEPT ![p].proc_id = region[vc[p].ch].connected,
                     ![p].seen = region[vc[p].ch].connected]
  /\ UNCHANGED <<shm, region, past>>

ReadCount(p) ==
  /\ Goto(p, "counted", "counted")
  /\ vc' = [vc EXCEPT ![p].seen = region[vc[p].ch].connected]
  /\ UNCHANGED <<shm, region, past>>

TakePlace(p) ==
  /\ Goto(p, "counted", "in")
  /\ region' = [region EXCEPT ![vc[p].ch].connected = vc[p].seen + 1]
  /\ vc' = [vc EXCEPT ![p].seen = 0]
  /\ past' = [past EXCEPT !.refused = FALSE]
  /\ UNCHANGED shm

\* ftruncate, mmap, llring_init, fstat or munmap fails, and the name goes; or
\* the second shm_open fails, and it stays.
Fail(p) ==
  /\ \/ pc[p] \in {"created", "sized", "header", "opened", "sizeok", "remap"} /\ Leave(p, None)
     \/ pc[p] = "exists" /\ Leave(p, shm)
  /\ past' = [past EXCEPT !.refused = FALSE]

(***************************************************************************)
(* disconnect, and the end of a process, which may not have called it (the *)
(* interposed application never does).  The munmap of disconnect is given  *)
(* the address of vc->ch and not that of the region: a process that has    *)
(* disconnected has the region mapped until it ends.                       *)
(***************************************************************************)
StartLeaving(p) ==
  /\ Goto(p, "in", "leaving")
  /\ vc' = [vc EXCEPT ![p].seen = region[vc[p].ch].connected]
  /\ Begin
  /\ UNCHANGED <<shm, region>>

Decrement(p) ==
  /\ Goto(p, "leaving", "left")
  /\ region' = [region EXCEPT ![vc[p].ch].connected = vc[p].seen - 1]
  /\ vc' = [vc EXCEPT ![p].seen = 0]
  /\ UNCHANGED <<shm, past>>

\* Mutant: the name outlives the process.
UnlinkNot(p) ==
  /\ Goto(p, "left", "gone")
  /\ UNCHANGED <<shm, region, vc, past>>

Unlink(p) ==
  /\ Goto(p, "left", "gone")
  /\ Name(None, Procs)
  /\ UNCHANGED <<vc, past>>

Exit(p) ==
  /\ pc[p] # "out"
  /\ Leave(p, shm)
  /\ past' = IF pc[p] \in {"in", "gone"} THEN past
             ELSE [past EXCEPT !.refused = FALSE, !.cut = TRUE]

Step(p) ==
  \/ Create(p) \/ Truncate(p) \/ InitHeader(p) \/ InitRings(p)
  \/ Exists(p) \/ Open(p) \/ CheckSize(p) \/ CheckPlaces(p) \/ Remap(p)
  \/ ReadId(p) \/ ReadCount(p) \/ TakePlace(p) \/ Fail(p)
  \/ StartLeaving(p) \/ Decrement(p) \/ Unlink(p) \/ Exit(p)

Next == \E p \in Procs : Step(p)

Spec == Init /\ [][Next]_vars

(***************************************************************************)
(* Properties.                                                             *)
(***************************************************************************)
In(r) == {p \in Procs : pc[p] = "in" /\ vc[p].ch = r}

TypeOK ==
  /\ shm \in Regions \cup {None}
  /\ region \in [Regions -> [sized : BOOLEAN, master : BOOLEAN, ready : BOOLEAN,
                             connected : Int]]
  /\ vc \in [Procs -> [ch : Regions \cup {None}, proc_id : Int, seen : Int, at : Addresses]]
  /\ \A p \in Procs : pc[p] \notin {"out", "exists"} <=> vc[p].ch # None
  /\ \A r \in Regions : Used(r) \/ region[r] = Empty

(***************************************************************************)
(* "rings[i] is for messages that are send to proc_i" (vchannel.h:31): the *)
(* two processes of a region have the places 0 and 1, so that what one     *)
(* sends to "1 - proc_id" is what the other receives (vchannel.c:170),     *)
(* each finds the rings initialised, and each has asked for the address    *)
(* that the pointers stored in the region (rings[i], shared_objs) are      *)
(* good at.  Nothing in the code keeps calls apart, and it does not hold   *)
(* once two have overlapped, or one was cut short and stays counted; it    *)
(* does hold through disconnects, failed calls and ends between calls.     *)
(* Whether the address asked for was given is not looked at (vchannel.c:   *)
(* 150), so nothing is claimed of that.                                    *)
(***************************************************************************)
Orderly == past.overlaps = 0 /\ ~past.cut

PairMeets ==
  Orderly =>
    /\ \A p \in Procs : pc[p] = "in" => region[vc[p].ch].ready /\ vc[p].at # "unasked"
    /\ \A r \in Regions : \A p, q \in In(r) :
         /\ vc[p].proc_id < COUNT_RINGS
         /\ p # q => vc[p].proc_id # vc[q].proc_id

(***************************************************************************)
(* "allow at most two objects to connect" (vchannel.h:27), as long as no   *)
(* two calls overlap, wherever a process dies.                             *)
(***************************************************************************)
AtMostTwo ==
  past.overlaps = 0 => \A r \in Regions : Cardinality(In(r)) <= COUNT_RINGS

(***************************************************************************)
(* Whoever touches a region, however the calls interleave and wherever     *)
(* processes die, does so after ftruncate gave it its size: the check of   *)
(* statbuf.st_size keeps an attaching process away from an object without  *)
(* memory behind it.  (With the types.)                                    *)
(***************************************************************************)
AccessIsBacked ==
  /\ TypeOK
  /\ \A p \in Procs :
       pc[p] \in {"sizeok", "remap", "ready", "counted", "in", "leaving", "left", "gone"}
         => region[vc[p].ch].sized

(***************************************************************************)
(* A call may be refused because a crashed process is still counted or     *)
(* left a region half made, but the refusal removes the name: unless calls *)
(* overlap, the next one is not refused too.                               *)
(***************************************************************************)
RefusalHeals ==
  [][\A p \in Procs :
       pc[p] \in {"opened", "sizeok"} /\ pc'[p] = "out" /\ past'.refused /\ past.overlaps = 0
         => ~past.refused]_vars

(***************************************************************************)
(* "Creates a new shared channel or attaches to an existing one"           *)
(* (vchannel.h:58): a process that connects while just one other is        *)
(* connected joins it.                                                     *)
(***************************************************************************)
JoinsTheOther ==
  [][\A p, q \in Procs :
       (Orderly /\ p # q /\ pc[p] = "counted" /\ pc'[p] = "in"
        /\ {o \in Procs : pc[o] = "in"} = {q})
         => vc[p].ch = vc[q].ch]_vars
=============================================================================
