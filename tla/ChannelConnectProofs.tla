------------------------- MODULE ChannelConnectProofs -------------------------
(***************************************************************************)
(* Proofs about ChannelConnect, for any finite set of processes and any    *)
(* number of overlapping calls.                                            *)
(***************************************************************************)
EXTENDS ChannelConnect, FiniteSetTheorems, TLAPS

(***************************************************************************)
(* The inductive invariant.  A process keeps the region it is in from      *)
(* being reset.  As long as no two calls overlap, the one process inside a *)
(* call is the only one to touch the count: it reads what it then changes, *)
(* and a region never counts less than the processes that are in it.  If   *)
(* moreover no call was cut short, the name refers to a region that is     *)
(* complete or being made, and every place taken on it is counted.         *)
(***************************************************************************)
Creating  == {"created", "sized", "header"}
Attaching == {"opened", "sizeok", "remap"}
Placing   == {"ready", "counted"}
Leaving   == {"leaving", "left"}

\* A process with no call under way.
Outside == {"out", "in", "gone"}

Places ==
  {"exists"} \cup Outside \cup Creating \cup Attaching \cup Placing \cup Leaving

States == [sized : BOOLEAN, master : BOOLEAN, ready : BOOLEAN, connected : Int]

Handles == [ch : Regions \cup {None}, proc_id : Int, seen : Int, at : Addresses]

Types ==
  /\ shm \in Regions \cup {None}
  /\ region \in [Regions -> States]
  /\ pc \in [Procs -> Places]
  /\ vc \in [Procs -> Handles]
  /\ past \in [refused : BOOLEAN, overlaps : Nat, cut : BOOLEAN]
  /\ \A p \in Procs : pc[p] \notin {"out", "exists"} <=> vc[p].ch # None

UnusedEmpty == \A r \in Regions : Used(r) \/ region[r] = Empty

Backed ==
  \A p \in Procs : pc[p] \notin {"out", "exists", "created", "opened"}
    => region[vc[p].ch].sized

OneInside ==
  past.overlaps = 0 => \A p, q \in Inside : p = q

\* The processes a region still has to count.
Members(r) == {p \in Procs : pc[p] \in {"in", "leaving"} /\ vc[p].ch = r}

CountsCover ==
  past.overlaps = 0 =>
    /\ \A r \in Regions : /\ Cardinality(Members(r)) <= region[r].connected
                          /\ region[r].connected <= COUNT_RINGS
    /\ \A p \in Procs :
         /\ pc[p] \in {"created", "sized"} =>
              Members(vc[p].ch) = {} /\ region[vc[p].ch].connected = 0
         /\ pc[p] \in {"header", "remap"} \cup Placing =>
              region[vc[p].ch].connected < COUNT_RINGS
         /\ pc[p] \in {"counted", "leaving"} => vc[p].seen = region[vc[p].ch].connected

Refused ==
  past.overlaps = 0 /\ past.refused =>
    /\ \A p \in Procs : pc[p] \notin Attaching \cup {"exists"}
    /\ shm # None => \E p \in Procs : pc[p] \in Creating \cup Placing

NameMeans ==
  Orderly =>
    /\ \A p \in Procs : /\ pc[p] \in Creating \cup Attaching \cup Placing => vc[p].ch = shm
                        /\ pc[p] = "exists" => shm # None
                        /\ pc[p] = "header" => region[vc[p].ch].master /\ vc[p].at # "unasked"
                        /\ pc[p] \in Placing \cup {"in"} =>
                             region[vc[p].ch].ready /\ vc[p].at # "unasked"
                        /\ pc[p] = "counted" => vc[p].proc_id = region[vc[p].ch].connected
    /\ shm # None /\ (\A p \in Procs : pc[p] \notin Creating) =>
         region[shm].master /\ region[shm].ready

IdsApart ==
  Orderly =>
    /\ \A p \in Procs : pc[p] = "in" => vc[p].proc_id < COUNT_RINGS
    /\ \A p, q \in Procs : pc[p] = "in" /\ pc[q] = "in" /\ vc[p].ch = vc[q].ch /\ p # q
         => vc[p].proc_id # vc[q].proc_id
    /\ \A p \in Procs : pc[p] = "in" /\ vc[p].ch = shm /\ (\A q \in Procs : pc[q] # "left")
         => vc[p].proc_id < region[shm].connected

Safe == Types /\ UnusedEmpty /\ Backed

IInv == Safe /\ OneInside /\ CountsCover /\ Refused /\ NameMeans /\ IdsApart

USE RegionsAssumption, MaxOverlapsAssumption

(***************************************************************************)
(* What the kinds of steps do.                                             *)
(***************************************************************************)
\* Only p's own place and handle change.
LEMMA OthersStay ==
  ASSUME Types, NEW p \in Procs, Step(p)
  PROVE  /\ pc' \in [Procs -> Places]
         /\ \A q \in Procs \ {p} : pc'[q] = pc[q] /\ vc'[q] = vc[q]
<1> USE DEF Types, Goto, Places, Outside, Creating, Attaching, Placing, Leaving
<1>1. CASE Create(p) \/ Exists(p) \/ Open(p)
  BY <1>1 DEF Create, Exists, Open, OpenNew
<1>2. CASE Truncate(p) \/ InitHeader(p) \/ InitRings(p) \/ TakePlace(p) \/ Decrement(p)
  BY <1>2 DEF Truncate, InitHeader, InitRings, TakePlace, Decrement
<1>3. CASE CheckSize(p) \/ CheckPlaces(p)
  BY <1>3 DEF CheckSize, CheckPlaces, Refuse, Leave
<1>4. CASE Remap(p) \/ ReadId(p) \/ ReadCount(p) \/ StartLeaving(p)
  BY <1>4 DEF Remap, ReadId, ReadCount, StartLeaving
<1>5. CASE Fail(p) \/ Unlink(p) \/ Exit(p)
  BY <1>5 DEF Fail, Unlink, Exit, Leave
<1> QED BY <1>1, <1>2, <1>3, <1>4, <1>5 DEF Step

\* Handles and regions with a field changed are still such.
LEMMA HandlesChange ==
  ASSUME NEW h \in Handles
  PROVE  /\ \A address \in Addresses : [h EXCEPT !.at = address] \in Handles
         /\ \A n \in Int : [h EXCEPT !.seen = n] \in Handles
         /\ \A n \in Int : [h EXCEPT !.proc_id = n, !.seen = n] \in Handles
         /\ \A r \in Regions : [h EXCEPT !.ch = r] \in Handles
  BY DEF Handles

LEMMA StatesChange ==
  ASSUME NEW s \in States
  PROVE  /\ [s EXCEPT !.sized = TRUE] \in States
         /\ [s EXCEPT !.master = TRUE, !.connected = 0] \in States
         /\ [s EXCEPT !.ready = TRUE] \in States
         /\ \A n \in Int : [s EXCEPT !.connected = n] \in States
<1>1. [s EXCEPT !.sized = TRUE] \in States
  BY DEF States
<1>2. [s EXCEPT !.master = TRUE, !.connected = 0] \in States
  <2>1. [s EXCEPT !.master = TRUE] \in States
    BY DEF States
  <2>2. \A t \in States : [t EXCEPT !.connected = 0] \in States
    BY DEF States
  <2> QED BY <2>1, <2>2
<1>3. [s EXCEPT !.ready = TRUE] \in States
  BY DEF States
<1>4. \A n \in Int : [s EXCEPT !.connected = n] \in States
  BY DEF States
<1> QED BY <1>1, <1>2, <1>3, <1>4

\* p leaves: a region that still has the name or a user is kept as it is.
LEMMA LeaveKeeps ==
  ASSUME Safe, NEW p \in Procs, NEW name \in {shm, None}, Leave(p, name)
  PROVE  /\ shm' \in Regions \cup {None} /\ region' \in [Regions -> States]
         /\ vc' \in [Procs -> Handles]
         /\ pc'[p] = "out" /\ vc'[p] = Nowhere /\ shm' = name
         /\ \A q \in Procs \ {p} : pc'[q] = pc[q] /\ vc'[q] = vc[q]
         /\ \A q \in Procs \ {p} : vc[q].ch # None => region'[vc[q].ch] = region[vc[q].ch]
         /\ name # None => region'[name] = region[name]
         /\ \A r \in Regions : region'[r] = region[r] \/ region'[r] = Empty
         /\ UnusedEmpty'
<1>1. Nowhere \in Handles /\ Empty \in States
  BY DEF Nowhere, Empty, Handles, States, Addresses
<1>2. /\ shm' \in Regions \cup {None} /\ region' \in [Regions -> States]
      /\ vc' \in [Procs -> Handles]
      /\ pc'[p] = "out" /\ vc'[p] = Nowhere /\ shm' = name
      /\ \A q \in Procs \ {p} : pc'[q] = pc[q] /\ vc'[q] = vc[q]
  BY <1>1 DEF Leave, Name, Safe, Types
<1>3. \A r \in Regions :
        region'[r] = IF r = name \/ \E q \in Procs \ {p} : vc[q].ch = r
                     THEN region[r] ELSE Empty
  BY DEF Leave, Name
<1>4. \A q \in Procs : vc[q].ch \in Regions \cup {None}
  BY DEF Safe, Types, Handles
<1>5. UnusedEmpty'
  BY <1>2, <1>3 DEF UnusedEmpty, Used
<1> QED BY <1>2, <1>3, <1>4, <1>5 DEF Safe, Types

\* p removes the name; it has the region mapped still.
LEMMA UnlinkKeeps ==
  ASSUME Safe, NEW p \in Procs, Unlink(p)
  PROVE  /\ pc[p] = "left" /\ pc'[p] = "gone" /\ vc' = vc /\ past' = past /\ shm' = None
         /\ region' \in [Regions -> States]
         /\ \A q \in Procs : vc[q].ch # None => region'[vc[q].ch] = region[vc[q].ch]
         /\ \A r \in Regions : region'[r] = region[r] \/ region'[r] = Empty
         /\ UnusedEmpty'
<1>1. /\ pc[p] = "left" /\ pc'[p] = "gone" /\ vc' = vc /\ past' = past /\ shm' = None
  BY DEF Unlink, Goto, Name, Safe, Types
<1>2. region' = [r \in Regions |-> IF r = None \/ \E q \in Procs : vc[q].ch = r
                                 THEN region[r] ELSE Empty]
  BY DEF Unlink, Name
<1>3. Empty \in States
  BY DEF Empty, States
<1>4. region' \in [Regions -> States]
  BY <1>2, <1>3 DEF Safe, Types
<1>5. \A q \in Procs : vc[q].ch \in Regions \cup {None}
  BY DEF Safe, Types, Handles
<1>6. UnusedEmpty'
  BY <1>1, <1>2 DEF UnusedEmpty, Used
<1> QED BY <1>1, <1>2, <1>4, <1>5, <1>6

\* p writes to the region it is in, and to nothing else that is shared.
LEMMA Writes ==
  ASSUME Safe, NEW p \in Procs,
         Truncate(p) \/ InitHeader(p) \/ InitRings(p) \/ TakePlace(p) \/ Decrement(p)
  PROVE  /\ shm' = shm /\ vc[p].ch \in Regions /\ vc'[p].ch = vc[p].ch
         /\ vc' \in [Procs -> Handles] /\ region' \in [Regions -> States]
         /\ \A r \in Regions \ {vc[p].ch} : region'[r] = region[r]
         /\ region'[vc[p].ch].sized  <=> pc[p] = "created" \/ region[vc[p].ch].sized
         /\ region'[vc[p].ch].master <=> pc[p] = "sized" \/ region[vc[p].ch].master
         /\ region'[vc[p].ch].ready  <=> pc[p] = "header" \/ region[vc[p].ch].ready
         /\ pc[p] = "sized"   => region'[vc[p].ch].connected = 0
         /\ pc[p] = "counted" => region'[vc[p].ch].connected = vc[p].seen + 1
         /\ pc[p] = "leaving" => region'[vc[p].ch].connected = vc[p].seen - 1
         /\ pc[p] \in {"created", "header"} =>
              region'[vc[p].ch].connected = region[vc[p].ch].connected
         /\ vc'[p].at = IF pc[p] = "sized" THEN "creator's" ELSE vc[p].at
         /\ vc'[p].proc_id = vc[p].proc_id
<1> DEFINE r == vc[p].ch
<1>1. r \in Regions /\ vc[p] \in Handles /\ region[r] \in States /\ shm' = shm
  BY DEF Safe, Types, Handles, Goto, Truncate, InitHeader, InitRings, TakePlace, Decrement
<1>2. /\ vc' \in [Procs -> Handles] /\ vc'[p].ch = vc[p].ch
      /\ vc'[p].at = IF pc[p] = "sized" THEN "creator's" ELSE vc[p].at
      /\ vc'[p].proc_id = vc[p].proc_id
  <2>1. \/ vc' = vc /\ pc[p] # "sized"
        \/ vc' = [vc EXCEPT ![p].at = "creator's"] /\ pc[p] = "sized"
        \/ vc' = [vc EXCEPT ![p].seen = 0] /\ pc[p] # "sized"
    BY DEF Truncate, InitHeader, InitRings, TakePlace, Decrement, Goto
  <2>2. [vc[p] EXCEPT !.at = "creator's"] \in Handles /\ [vc[p] EXCEPT !.seen = 0] \in Handles
    BY <1>1, 0 \in Int, HandlesChange DEF Addresses
  <2>3. CASE vc' = vc /\ pc[p] # "sized"
    BY <2>3 DEF Safe, Types
  <2>4. CASE vc' = [vc EXCEPT ![p].at = "creator's"] /\ pc[p] = "sized"
    BY <2>4, <2>2, <1>1 DEF Safe, Types, Handles
  <2>5. CASE vc' = [vc EXCEPT ![p].seen = 0] /\ pc[p] # "sized"
    BY <2>5, <2>2, <1>1 DEF Safe, Types, Handles
  <2> QED BY <2>1, <2>3, <2>4, <2>5
<1>3. region[r].connected \in Int /\ vc[p].seen \in Int /\ region \in [Regions -> States]
  BY <1>1 DEF States, Handles, Safe, Types
<1>4. CASE Truncate(p)
  <2>1. pc[p] = "created" /\ region' = [region EXCEPT ![r] = [region[r] EXCEPT !.sized = TRUE]]
    BY <1>1, <1>3, <1>4 DEF Truncate, Goto
  <2>2. [region[r] EXCEPT !.sized = TRUE] \in States
    BY <1>1, StatesChange
  <2> QED BY <1>1, <1>2, <1>3, <2>1, <2>2 DEF States
<1>5. CASE InitHeader(p)
  <2>1. pc[p] = "sized"
        /\ region' = [region EXCEPT ![r] = [region[r] EXCEPT !.master = TRUE, !.connected = 0]]
    BY <1>1, <1>3, <1>5 DEF InitHeader, Goto
  <2>2. [region[r] EXCEPT !.master = TRUE, !.connected = 0] \in States
    BY <1>1, StatesChange
  <2> QED BY <1>1, <1>2, <1>3, <2>1, <2>2 DEF States
<1>6. CASE InitRings(p)
  <2>1. pc[p] = "header" /\ region' = [region EXCEPT ![r] = [region[r] EXCEPT !.ready = TRUE]]
    BY <1>1, <1>3, <1>6 DEF InitRings, Goto
  <2>2. [region[r] EXCEPT !.ready = TRUE] \in States
    BY <1>1, StatesChange
  <2> QED BY <1>1, <1>2, <1>3, <2>1, <2>2 DEF States
<1>7. CASE TakePlace(p)
  <2>1. pc[p] = "counted"
        /\ region' = [region EXCEPT ![r] = [region[r] EXCEPT !.connected = vc[p].seen + 1]]
    BY <1>1, <1>3, <1>7 DEF TakePlace, Goto
  <2>2. [region[r] EXCEPT !.connected = vc[p].seen + 1] \in States
    <3>1. vc[p].seen + 1 \in Int
      BY <1>3
    <3> QED BY <1>1, <3>1, StatesChange
  <2> QED BY <1>1, <1>2, <1>3, <2>1, <2>2 DEF States
<1>8. CASE Decrement(p)
  <2>1. pc[p] = "leaving"
        /\ region' = [region EXCEPT ![r] = [region[r] EXCEPT !.connected = vc[p].seen - 1]]
    BY <1>1, <1>3, <1>8 DEF Decrement, Goto
  <2>2. [region[r] EXCEPT !.connected = vc[p].seen - 1] \in States
    <3>1. vc[p].seen - 1 \in Int
      BY <1>3
    <3> QED BY <1>1, <3>1, StatesChange
  <2> QED BY <1>1, <1>2, <1>3, <2>1, <2>2 DEF States
<1> QED BY <1>4, <1>5, <1>6, <1>7, <1>8

\* Steps of p inside a call that change nothing that is shared.
Reads(p) ==
  \/ Exists(p) \/ Remap(p) \/ ReadId(p) \/ ReadCount(p) \/ StartLeaving(p)
  \/ CheckSize(p) /\ pc'[p] = "sizeok"
  \/ CheckPlaces(p) /\ pc'[p] = "remap"

LEMMA ReadsStay ==
  ASSUME Safe, NEW p \in Procs, Reads(p)
  PROVE  /\ shm' = shm /\ region' = region
         /\ vc' \in [Procs -> Handles] /\ vc'[p].ch = vc[p].ch
         /\ pc[p] # "exists"
         /\ IF pc[p] = "remap" THEN vc'[p].at = "unasked" <=> ~ region[vc[p].ch].master
            ELSE vc'[p].at = vc[p].at
         /\ pc[p] \in Placing \cup {"in"} => vc'[p].seen = region[vc[p].ch].connected
         /\ vc'[p].proc_id =
              IF pc[p] = "ready" THEN region[vc[p].ch].connected ELSE vc[p].proc_id
<1> DEFINE r == vc[p].ch
<1> USE DEF Placing
<1>1. /\ vc[p] \in Handles /\ vc \in [Procs -> Handles]
      /\ pc[p] \notin {"out", "exists"} =>
           r \in Regions /\ region[r].connected \in Int /\ region[r].master \in BOOLEAN
  <2>1. pc[p] \notin {"out", "exists"} => r \in Regions /\ region[r] \in States
    BY DEF Safe, Types, Handles
  <2> QED BY <2>1 DEF Safe, Types, States
<1>2. CASE Exists(p)
  BY <1>1, <1>2 DEF Exists, Goto
<1>3. CASE Remap(p)
  <2>1. PICK address \in Addresses :
          /\ address = "unasked" <=> ~ region[r].master
          /\ pc[p] = "remap" /\ shm' = shm /\ region' = region
          /\ vc' = [vc EXCEPT ![p] = [vc[p] EXCEPT !.at = address]]
    BY <1>1, <1>3 DEF Remap, Goto
  <2>2. [vc[p] EXCEPT !.at = address] \in Handles
    BY <1>1, HandlesChange
  <2> QED BY <1>1, <2>1, <2>2 DEF Handles
<1>4. CASE ReadId(p)
  <2>1. [vc[p] EXCEPT !.proc_id = region[r].connected, !.seen = region[r].connected] \in Handles
    BY <1>1, <1>4, HandlesChange DEF ReadId, Goto
  <2>2. pc[p] = "ready" /\ shm' = shm /\ region' = region
        /\ vc' = [vc EXCEPT ![p] = [vc[p] EXCEPT !.proc_id = region[r].connected,
                                                 !.seen = region[r].connected]]
    BY <1>1, <1>4 DEF ReadId, Goto
  <2> QED BY <1>1, <2>1, <2>2 DEF Handles
<1>5. CASE ReadCount(p) \/ StartLeaving(p)
  <2>1. [vc[p] EXCEPT !.seen = region[r].connected] \in Handles
    BY <1>1, <1>5, HandlesChange DEF ReadCount, StartLeaving, Goto
  <2>2. pc[p] \in {"counted", "in"} /\ shm' = shm /\ region' = region
        /\ vc' = [vc EXCEPT ![p] = [vc[p] EXCEPT !.seen = region[r].connected]]
    BY <1>1, <1>5 DEF ReadCount, StartLeaving, Goto
  <2> QED BY <1>1, <2>1, <2>2 DEF Handles
<1>6. CASE (CheckSize(p) /\ pc'[p] = "sizeok") \/ (CheckPlaces(p) /\ pc'[p] = "remap")
  <2>1. pc[p] \in {"opened", "sizeok"} /\ shm' = shm /\ region' = region /\ vc' = vc
    BY <1>6 DEF CheckSize, CheckPlaces, Goto, Refuse, Leave, Safe, Types
  <2> QED BY <1>1, <2>1
<1> QED BY <1>2, <1>3, <1>4, <1>5, <1>6 DEF Reads

\* p gets into a region: a new one, or the one the name refers to.
LEMMA Enters ==
  ASSUME Safe, NEW p \in Procs, Create(p) \/ Open(p)
  PROVE  /\ region' = region /\ shm' \in Regions
         /\ vc' \in [Procs -> Handles] /\ vc'[p].ch = shm'
         /\ shm # None => Open(p) /\ shm' = shm
         /\ shm = None => ~ Used(shm') /\ region[shm'] = Empty
<1>1. shm' \in Regions /\ region' = region
      /\ vc' = [vc EXCEPT ![p] = [vc[p] EXCEPT !.ch = shm']]
  BY DEF Create, Open, OpenNew, Safe, Types
<1>2. vc[p] \in Handles /\ [vc[p] EXCEPT !.ch = shm'] \in Handles
  BY <1>1, HandlesChange DEF Safe, Types
<1>3. vc' \in [Procs -> Handles] /\ vc'[p].ch = shm'
  BY <1>1, <1>2 DEF Safe, Types, Handles
<1>4. /\ shm # None => Open(p) /\ shm' = shm
      /\ shm = None => ~ Used(shm')
  BY DEF Create, Open, OpenNew
<1> QED BY <1>1, <1>3, <1>4 DEF Safe, UnusedEmpty

\* The ways a process is out of its region.
Leaves(p) ==
  /\ pc[p] # "out" /\ pc'[p] = "out"
  /\ \/ Leave(p, None) /\ pc[p] \notin Outside
     \/ /\ Leave(p, shm)
        /\ pc[p] \in Outside => past' = past
        /\ pc[p] \notin Outside => ~ past'.refused /\ (pc[p] # "exists" => past'.cut)

LEMMA Kinds ==
  ASSUME Safe, NEW p \in Procs, Step(p)
  PROVE  \/ Truncate(p) \/ InitHeader(p) \/ InitRings(p) \/ TakePlace(p) \/ Decrement(p)
         \/ Reads(p) \/ Create(p) \/ Open(p) \/ Unlink(p) \/ Leaves(p)
<1> USE DEF Outside
<1>1. pc \in [Procs -> Places] /\ past \in [refused : BOOLEAN, overlaps : Nat, cut : BOOLEAN]
      /\ (Leave(p, None) \/ Leave(p, shm) => pc'[p] = "out")
  BY DEF Safe, Types, Leave
<1>2. CASE CheckSize(p)
  <2>1. CASE pc[p] = "opened" /\ Refuse(p)
    BY <1>1, <2>1 DEF Refuse, Leaves
  <2>2. CASE Goto(p, "opened", "sizeok")
    BY <1>1, <1>2, <2>2 DEF Goto, Reads
  <2> QED BY <1>2, <2>1, <2>2 DEF CheckSize
<1>3. CASE CheckPlaces(p)
  BY <1>1, <1>3 DEF CheckPlaces, Goto, Refuse, Reads, Leaves
<1>4. CASE Fail(p)
  BY <1>1, <1>4 DEF Fail, Leaves
<1>5. CASE Exit(p)
  <2>1. /\ past' = (IF pc[p] \in {"in", "gone"} THEN past
                    ELSE [past EXCEPT !.refused = FALSE, !.cut = TRUE])
        /\ Leave(p, shm) /\ pc[p] # "out"
    BY <1>5 DEF Exit
  <2>2. pc[p] \notin {"in", "gone"} => past'.cut /\ ~ past'.refused
    BY <1>1, <2>1
  <2> QED BY <1>1, <2>1, <2>2 DEF Leaves
<1> QED BY <1>2, <1>3, <1>4, <1>5 DEF Step, Reads

(***************************************************************************)
(* Types, and the size of the region in use.                               *)
(***************************************************************************)
\* What is remembered of past calls only grows; while none overlaps, a call
\* begins with nobody inside one.
LEMMA History ==
  ASSUME Types, NEW p \in Procs, Step(p)
  PROVE  /\ past' \in [refused : BOOLEAN, overlaps : Nat, cut : BOOLEAN]
         /\ past'.overlaps = 0 => past.overlaps = 0
         /\ past'.overlaps = 0 /\ pc[p] \in Outside /\ pc'[p] \notin Outside
              => Inside = {}
         /\ past.cut => past'.cut
<1> USE DEF Outside
<1> DEFINE Past == [refused : BOOLEAN, overlaps : Nat, cut : BOOLEAN]
<1>1. past \in Past /\ past.overlaps \in Nat
  BY DEF Types
<1>2. CASE Begin
  BY <1>1, <1>2 DEF Begin
<1>3. CASE /\ pc[p] \in Outside => pc'[p] = "out"
           /\ \/ past' = past
              \/ past' = [past EXCEPT !.refused = TRUE]
              \/ past' = [past EXCEPT !.refused = FALSE]
              \/ past' = [past EXCEPT !.refused = FALSE, !.cut = TRUE]
  <2>1. past' \in Past /\ past'.overlaps = past.overlaps /\ (past.cut => past'.cut)
    BY <1>1, <1>3
  <2> QED BY <1>3, <2>1
<1>4. CASE Create(p) \/ Exists(p) \/ StartLeaving(p)
  BY <1>2, <1>4 DEF Create, Exists, StartLeaving
<1>5. CASE \/ Truncate(p) \/ InitHeader(p) \/ InitRings(p) \/ Open(p) \/ CheckSize(p)
           \/ CheckPlaces(p) \/ Remap(p) \/ ReadId(p) \/ ReadCount(p) \/ TakePlace(p)
           \/ Decrement(p) \/ Unlink(p)
  BY <1>3, <1>5 DEF Truncate, InitHeader, InitRings, Open, CheckSize, CheckPlaces, Remap,
                    ReadId, ReadCount, TakePlace, Decrement, Unlink, Goto, Refuse
<1>6. CASE Fail(p)
  BY <1>3, <1>6 DEF Fail
<1>7. CASE Exit(p)
  <2>1. pc'[p] = "out" /\ (\/ past' = past
                           \/ past' = [past EXCEPT !.refused = FALSE, !.cut = TRUE])
    BY <1>7 DEF Exit, Leave, Types
  <2> QED BY <1>3, <2>1
<1> QED BY <1>4, <1>5, <1>6, <1>7 DEF Step

LEMMA SafeKeeps ==
  ASSUME Safe, NEW p \in Procs, Step(p)
  PROVE  Safe'
<1> USE DEF Places, Outside, Creating, Attaching, Placing, Leaving
<1>1. /\ pc \in [Procs -> Places] /\ pc' \in [Procs -> Places]
      /\ past' \in [refused : BOOLEAN, overlaps : Nat, cut : BOOLEAN]
      /\ \A q \in Procs \ {p} : pc'[q] = pc[q] /\ vc'[q] = vc[q]
      /\ \A q \in Procs : vc[q].ch \in Regions \cup {None}
      /\ \A q \in Procs : pc[q] \notin {"out", "exists"} <=> vc[q].ch # None
  BY OthersStay, History DEF Safe, Types, Handles
<1>2. CASE Reads(p)
  <2>1. pc'[p] \notin {"out", "exists"} <=> vc'[p].ch # None
    BY <1>1, <1>2, ReadsStay DEF Reads, Exists, CheckSize, CheckPlaces, Remap, ReadId,
                                 ReadCount, StartLeaving, Goto
  <2>2. Types'
    BY <1>1, <1>2, <2>1, ReadsStay DEF Safe, Types
  <2>3. UnusedEmpty'
    BY <1>1, <1>2, ReadsStay DEF Safe, UnusedEmpty, Used
  <2>4. pc'[p] \notin {"out", "exists", "created", "opened"} => region[vc[p].ch].sized
    BY <1>1, <1>2 DEF Safe, Backed, Reads, Exists, CheckSize, CheckPlaces, Remap, ReadId,
                      ReadCount, StartLeaving, Goto, Refuse, Leave
  <2>5. Backed'
    BY <1>1, <1>2, <2>4, ReadsStay DEF Safe, Backed
  <2> QED BY <2>2, <2>3, <2>5 DEF Safe
<1>3. CASE Create(p) \/ Open(p)
  <2>1. pc'[p] \in {"created", "opened"} /\ vc'[p].ch # None
    BY <1>1, <1>3, Enters DEF Create, Open, Goto
  <2>2. Types'
    BY <1>1, <1>3, <2>1, Enters DEF Safe, Types
  <2>3. UnusedEmpty'
    BY <1>1, <1>3, <2>1, Enters DEF Safe, UnusedEmpty, Used, Create, Open, Goto
  <2>4. Backed'
    BY <1>1, <1>3, <2>1, Enters DEF Safe, Backed
  <2> QED BY <2>2, <2>3, <2>4 DEF Safe
<1>4. CASE Truncate(p) \/ InitHeader(p) \/ InitRings(p) \/ TakePlace(p) \/ Decrement(p)
  <2>1. /\ pc[p] \in {"created", "sized", "header", "counted", "leaving"}
        /\ pc'[p] \in {"sized", "header", "ready", "in", "left"}
    BY <1>1, <1>4 DEF Truncate, InitHeader, InitRings, TakePlace, Decrement, Goto
  <2>2. Types'
    BY <1>1, <1>4, <2>1, Writes DEF Safe, Types
  <2>3. UnusedEmpty'
    BY <1>1, <1>4, Writes DEF Safe, UnusedEmpty, Used
  <2>4. Backed'
    BY <1>1, <1>4, <2>1, Writes DEF Safe, Backed
  <2> QED BY <2>2, <2>3, <2>4 DEF Safe
<1>5. CASE Leaves(p)
  <2>1. PICK name \in {shm, None} : Leave(p, name)
    BY <1>5 DEF Leaves
  <2>2. Types'
    BY <1>1, <2>1, LeaveKeeps DEF Safe, Types, Nowhere
  <2>3. Backed'
    BY <1>1, <2>1, LeaveKeeps DEF Safe, Backed
  <2> QED BY <2>1, <2>2, <2>3, LeaveKeeps DEF Safe
<1>6. CASE Unlink(p)
  <2>1. Types'
    BY <1>1, <1>6, UnlinkKeeps DEF Safe, Types
  <2>2. Backed'
    BY <1>1, <1>6, UnlinkKeeps DEF Safe, Backed
  <2> QED BY <1>6, <2>1, <2>2, UnlinkKeeps DEF Safe
<1> QED BY <1>2, <1>3, <1>4, <1>5, <1>6, Kinds

LEMMA OneInsideKeeps ==
  ASSUME Safe, OneInside, NEW p \in Procs, Step(p)
  PROVE  OneInside'
<1>1. /\ \A q \in Procs \ {p} : pc'[q] = pc[q]
      /\ past'.overlaps = 0 => past.overlaps = 0
      /\ past'.overlaps = 0 /\ pc[p] \in Outside /\ pc'[p] \notin Outside
           => Inside = {}
  BY OthersStay, History DEF Safe
<1> QED BY <1>1 DEF OneInside, Inside, Outside

\* While p is inside a call or begins one, without overlaps, all others are not.
LEMMA OthersOutside ==
  ASSUME Safe, OneInside, NEW p \in Procs, Step(p), past'.overlaps = 0,
         pc[p] \notin Outside \/ pc'[p] \notin Outside
  PROVE  /\ past.overlaps = 0
         /\ \A q \in Procs \ {p} : pc[q] \in Outside /\ pc'[q] = pc[q]
  BY OneInsideKeeps, OthersStay, History DEF Safe, OneInside, Inside, Outside

(***************************************************************************)
(* The count of a region.                                                  *)
(***************************************************************************)
LEMMA MembersAre ==
  /\ \A S \in SUBSET Procs : IsFiniteSet(S) /\ Cardinality(S) \in Nat
  /\ \A S, T \in SUBSET Procs : S \subseteq T => Cardinality(S) <= Cardinality(T)
  /\ \A S \in SUBSET Procs : \A p \in Procs \ S : Cardinality(S \cup {p}) = Cardinality(S) + 1
  /\ \A S \in SUBSET Procs : \A p \in S : Cardinality(S \ {p}) = Cardinality(S) - 1
  /\ Cardinality({}) = 0
<1>1. ASSUME NEW S \in SUBSET Procs
      PROVE  IsFiniteSet(S) /\ Cardinality(S) \in Nat
  BY FS_Subset, FS_CardinalityType, RegionsAssumption
<1>2. ASSUME NEW S \in SUBSET Procs, NEW T \in SUBSET Procs, S \subseteq T
      PROVE  Cardinality(S) <= Cardinality(T)
  BY <1>1, <1>2, FS_Subset
<1>3. ASSUME NEW S \in SUBSET Procs, NEW p \in Procs \ S
      PROVE  Cardinality(S \cup {p}) = Cardinality(S) + 1
  BY <1>1, FS_AddElement
<1>4. ASSUME NEW S \in SUBSET Procs, NEW p \in S
      PROVE  Cardinality(S \ {p}) = Cardinality(S) - 1
  BY <1>1, FS_RemoveElement
<1> QED BY <1>1, <1>2, <1>3, <1>4, FS_EmptySet

LEMMA CountsKeep ==
  ASSUME Safe, OneInside, CountsCover, NEW p \in Procs, Step(p)
  PROVE  CountsCover'
<1> SUFFICES ASSUME past'.overlaps = 0
             PROVE  /\ \A r \in Regions : /\ Cardinality(Members(r)') <= region'[r].connected
                                          /\ region'[r].connected <= COUNT_RINGS
                    /\ \A q \in Procs :
                         /\ pc'[q] \in {"created", "sized"} =>
                              Members(vc[q].ch)' = {} /\ region'[vc'[q].ch].connected = 0
                         /\ pc'[q] \in {"header", "remap"} \cup Placing =>
                              region'[vc'[q].ch].connected < COUNT_RINGS
                         /\ pc'[q] \in {"counted", "leaving"} =>
                              vc'[q].seen = region'[vc'[q].ch].connected
  BY DEF CountsCover, COUNT_RINGS
<1> USE DEF Placing, Outside, COUNT_RINGS
<1>1. /\ past.overlaps = 0
      /\ pc \in [Procs -> Places] /\ pc' \in [Procs -> Places]
      /\ \A q \in Procs \ {p} : pc'[q] = pc[q] /\ vc'[q] = vc[q]
      /\ \A q \in Procs : vc[q].ch \in Regions \cup {None}
      /\ \A q \in Procs : pc[q] \notin {"out", "exists"} <=> vc[q].ch # None
      /\ \A r \in Regions : region[r].connected \in Int
      /\ \A r : Members(r) \in SUBSET Procs /\ Members(r)' \in SUBSET Procs
  BY OthersStay, History DEF Safe, Types, Handles, States, Members
<1>2. CASE Reads(p)
  <2>1. \A r : Members(r)' = Members(r)
    <3>1. pc[p] \in {"in", "leaving"} <=> pc'[p] \in {"in", "leaving"}
      BY <1>1, <1>2 DEF Reads, Exists, CheckSize, CheckPlaces, Remap, ReadId, ReadCount,
                        StartLeaving, Goto
    <3>2. vc'[p].ch = vc[p].ch
      BY <1>2, ReadsStay
    <3> QED BY <1>1, <3>1, <3>2 DEF Members
  <2>2. pc'[p] \notin Outside \cup {"created", "sized", "header"}
    BY <1>1, <1>2 DEF Reads, Exists, Remap, ReadId, ReadCount, StartLeaving, Goto
  <2>3. \A q \in Procs \ {p} : pc'[q] \in Outside
    BY <2>2, OthersOutside
  <2>4. pc'[p] \in {"remap"} \cup Placing => region[vc[p].ch].connected < COUNT_RINGS
    <3>1. CASE CheckPlaces(p)
      BY <1>1, <1>2, <3>1 DEF Reads, CheckPlaces, Goto, Refuse, Leave
    <3>2. CASE Remap(p) \/ ReadId(p) \/ ReadCount(p)
      <4>1. pc[p] \in {"remap"} \cup Placing
        BY <3>2 DEF Remap, ReadId, ReadCount, Goto
      <4> QED BY <1>1, <4>1 DEF CountsCover
    <3>3. CASE Exists(p) \/ CheckSize(p) \/ StartLeaving(p)
      BY <1>1, <1>2, <3>3 DEF Reads, Exists, CheckSize, StartLeaving, Goto, Refuse, Leave
    <3> QED BY <1>2, <3>1, <3>2, <3>3 DEF Reads
  <2>5. pc'[p] \in {"counted", "leaving"} => pc[p] \in Placing \cup {"in"}
    BY <1>1, <1>2 DEF Reads, Exists, Remap, ReadId, ReadCount, StartLeaving, Goto
  <2> QED BY <1>1, <1>2, <2>1, <2>2, <2>3, <2>4, <2>5, ReadsStay DEF CountsCover
<1>3. CASE Create(p) \/ Open(p)
  <2>1. /\ pc[p] \in {"out", "exists"} /\ pc'[p] \in {"created", "opened"}
        /\ pc'[p] = "created" => shm = None
    BY <1>1, <1>3 DEF Create, Open, Goto
  <2>2. \A r : Members(r)' = Members(r)
    BY <1>1, <2>1 DEF Members
  <2>3. \A q \in Procs \ {p} : pc'[q] \in Outside
    BY <2>1, OthersOutside
  <2>4. shm = None => Members(shm') = {} /\ region[shm'].connected = 0
    BY <1>3, Enters DEF Members, Used, Empty
  <2> QED BY <1>1, <1>3, <2>1, <2>2, <2>3, <2>4, Enters DEF CountsCover
<1>4. CASE Truncate(p) \/ InitHeader(p) \/ InitRings(p) \/ TakePlace(p) \/ Decrement(p)
  <2>1. /\ <<pc[p], pc'[p]>> \in {<<"created", "sized">>, <<"sized", "header">>,
              <<"header", "ready">>, <<"counted", "in">>, <<"leaving", "left">>}
    BY <1>1, <1>4 DEF Truncate, InitHeader, InitRings, TakePlace, Decrement, Goto
  <2>2. \A q \in Procs \ {p} : pc'[q] \in Outside
    BY <2>1, OthersOutside
  <2>3. \A r \in Regions :
          /\ r # vc[p].ch \/ pc[p] \notin {"counted", "leaving"} => Members(r)' = Members(r)
          /\ r = vc[p].ch /\ pc[p] = "counted" =>
               p \notin Members(r) /\ Members(r)' = Members(r) \cup {p}
          /\ r = vc[p].ch /\ pc[p] = "leaving" =>
               p \in Members(r) /\ Members(r)' = Members(r) \ {p}
    BY <1>1, <1>4, <2>1, Writes DEF Members
  <2>4. vc[p].ch \in Regions /\ vc[p].seen \in Int /\ Cardinality(Members(vc[p].ch)) \in Nat
    BY <1>1, <1>4, Writes, MembersAre DEF Safe, Types, Handles
  <2>5. ASSUME NEW r \in Regions
        PROVE  /\ Cardinality(Members(r)') <= region'[r].connected
               /\ region'[r].connected <= COUNT_RINGS
    <3>1. CASE r # vc[p].ch
      BY <1>1, <1>4, <2>3, <3>1, Writes DEF CountsCover
    <3>2. CASE r = vc[p].ch /\ pc[p] = "created"
      BY <1>1, <1>4, <2>3, <3>2, Writes DEF CountsCover
    <3>3. CASE r = vc[p].ch /\ pc[p] = "sized"
      BY <1>1, <1>4, <2>3, <3>3, Writes, MembersAre DEF CountsCover
    <3>4. CASE r = vc[p].ch /\ pc[p] = "header"
      BY <1>1, <1>4, <2>3, <3>4, Writes DEF CountsCover
    <3>5. CASE r = vc[p].ch /\ pc[p] = "counted"
      <4>1. Cardinality(Members(r)') = Cardinality(Members(r)) + 1
        BY <1>1, <2>3, <3>5, MembersAre
      <4>2. region'[r].connected = region[r].connected + 1 /\ region[r].connected < COUNT_RINGS
        BY <1>1, <1>4, <3>5, Writes DEF CountsCover
      <4> QED BY <1>1, <2>4, <3>5, <4>1, <4>2 DEF CountsCover
    <3>6. CASE r = vc[p].ch /\ pc[p] = "leaving"
      <4>1. Cardinality(Members(r)') = Cardinality(Members(r)) - 1
        BY <1>1, <2>3, <3>6, MembersAre
      <4>2. region'[r].connected = region[r].connected - 1
        BY <1>1, <1>4, <3>6, Writes DEF CountsCover
      <4> QED BY <1>1, <2>4, <3>6, <4>1, <4>2 DEF CountsCover
    <3> QED BY <2>1, <3>1, <3>2, <3>3, <3>4, <3>5, <3>6
  <2>6. pc'[p] = "sized" => Members(vc[p].ch)' = {} /\ region'[vc[p].ch].connected = 0
    <3>1. pc'[p] = "sized" => pc[p] = "created"
      BY <2>1
    <3>2. pc[p] = "created" => /\ Members(vc[p].ch) = {}
                               /\ region[vc[p].ch].connected = 0
      BY <1>1 DEF CountsCover
    <3>3. pc[p] = "created" => region'[vc[p].ch].connected = region[vc[p].ch].connected
      BY <1>4, Writes
    <3>4. /\ Members(vc[p].ch)' \in SUBSET Procs
          /\ \A q \in Members(vc[p].ch)' : q # p => q \in Members(vc[p].ch)
      <4>1. vc'[p].ch = vc[p].ch
        BY <1>4, Writes
      <4> QED BY <1>1, <4>1 DEF Members
    <3>5. pc'[p] = "sized" => p \notin Members(vc[p].ch)'
      BY DEF Members
    <3> QED BY <3>1, <3>2, <3>3, <3>4, <3>5
  <2>7. pc'[p] \in {"header", "ready"} => region'[vc[p].ch].connected < COUNT_RINGS
    BY <1>1, <1>4, <2>1, <2>4, Writes DEF CountsCover
  <2>8. vc'[p].ch = vc[p].ch
    BY <1>4, Writes
  <2> QED BY <1>1, <2>1, <2>2, <2>5, <2>6, <2>7, <2>8
<1>5. CASE Leaves(p)
  <2>1. PICK name \in {shm, None} : Leave(p, name)
    BY <1>5 DEF Leaves
  <2>2. /\ pc'[p] = "out"
        /\ \A r : Members(r)' = Members(r) \ {p}
    BY <1>1, <2>1, LeaveKeeps DEF Members
  <2>3. ASSUME NEW r \in Regions
        PROVE  /\ Cardinality(Members(r)') <= region'[r].connected
               /\ region'[r].connected <= COUNT_RINGS
    <3>1. CASE region'[r] = region[r]
      <4>1. Cardinality(Members(r)') <= Cardinality(Members(r))
            /\ Cardinality(Members(r)') \in Nat /\ Cardinality(Members(r)) \in Nat
        BY <1>1, <2>2, MembersAre
      <4> QED BY <1>1, <3>1, <4>1 DEF CountsCover
    <3>2. CASE region'[r] # region[r]
      <4>1. region'[r] = Empty
        BY <3>2, <2>1, LeaveKeeps
      <4>2. \A q \in Procs \ {p} : vc[q].ch # r
        BY <3>2, <2>1, LeaveKeeps, RegionsAssumption
      <4>3. Members(r)' = {}
        BY <2>2, <4>2 DEF Members
      <4> QED BY <4>1, <4>3, MembersAre DEF Empty
    <3> QED BY <3>1, <3>2
  <2>4. ASSUME NEW q \in Procs \ {p}, pc[q] \notin {"out", "exists"}
        PROVE  region'[vc[q].ch] = region[vc[q].ch]
    BY <1>1, <2>1, <2>4, LeaveKeeps
  <2> QED BY <1>1, <2>2, <2>3, <2>4 DEF CountsCover
<1>6. CASE Unlink(p)
  <2>1. \A r : Members(r)' = Members(r)
    BY <1>1, <1>6, UnlinkKeeps DEF Members
  <2>2. ASSUME NEW r \in Regions
        PROVE  /\ Cardinality(Members(r)') <= region'[r].connected
               /\ region'[r].connected <= COUNT_RINGS
    <3>1. CASE region'[r] = region[r]
      BY <1>1, <2>1, <3>1 DEF CountsCover
    <3>2. CASE region'[r] # region[r]
      <4>1. region'[r] = Empty
        BY <1>6, <3>2, UnlinkKeeps
      <4>2. \A q \in Procs : vc[q].ch # r
        BY <1>6, <3>2, UnlinkKeeps, RegionsAssumption
      <4>3. Members(r)' = {}
        BY <2>1, <4>2 DEF Members
      <4> QED BY <4>1, <4>3, MembersAre DEF Empty
    <3> QED BY <3>1, <3>2
  <2>3. ASSUME NEW q \in Procs \ {p}
        PROVE  pc'[q] \in Outside /\ vc'[q] = vc[q]
    BY <1>1, <1>6, UnlinkKeeps, OthersOutside
  <2> QED BY <1>6, <2>2, <2>3, UnlinkKeeps
<1> QED BY <1>2, <1>3, <1>4, <1>5, <1>6, Kinds

(***************************************************************************)
(* A refusal, and what the name refers to.                                 *)
(***************************************************************************)
LEMMA RefusedKeeps ==
  ASSUME Safe, OneInside, Refused, NEW p \in Procs, Step(p)
  PROVE  Refused'
<1> SUFFICES ASSUME past'.overlaps = 0, past'.refused
             PROVE  /\ \A q \in Procs : pc'[q] \notin Attaching \cup {"exists"}
                    /\ shm' # None => \E q \in Procs : pc'[q] \in Creating \cup Placing
  BY DEF Refused
<1> USE DEF Creating, Attaching, Placing, Outside
<1>1. /\ past.overlaps = 0 /\ past \in [refused : BOOLEAN, overlaps : Nat, cut : BOOLEAN]
      /\ pc \in [Procs -> Places] /\ pc' \in [Procs -> Places]
      /\ \A q \in Procs \ {p} : pc'[q] = pc[q]
  BY OthersStay, History DEF Safe, Types
<1>2. CASE Reads(p) \/ Create(p) \/ Open(p)
  <2>1. past.refused
    BY <1>1, <1>2 DEF Reads, Exists, CheckSize, CheckPlaces, Refuse, Leave, Remap, ReadId,
                      ReadCount, StartLeaving, Create, Open, Begin, Goto
  <2>2. pc'[p] \notin Outside
    BY <1>1, <1>2 DEF Reads, Exists, Remap, ReadId, ReadCount, StartLeaving, Create, Open, Goto
  <2>3. \A q \in Procs \ {p} : pc'[q] \in Outside /\ pc[q] \in Outside
    BY <2>2, OthersOutside
  <2>4. pc[p] \notin Attaching \cup {"exists"}
    BY <1>1, <2>1 DEF Refused
  <2>5. CASE Create(p)
    BY <1>1, <2>3, <2>5 DEF Create, Goto
  <2>6. CASE Exists(p) \/ StartLeaving(p)
    <3>1. pc[p] \in Outside /\ shm' = shm
      BY <2>6 DEF Exists, StartLeaving, Goto
    <3>2. shm = None
      BY <1>1, <2>1, <2>3, <3>1 DEF Refused
    <3>3. StartLeaving(p)
      BY <2>6, <3>2 DEF Exists
    <3> QED BY <1>1, <2>3, <3>1, <3>2, <3>3 DEF StartLeaving, Goto
  <2>7. CASE ReadId(p) \/ ReadCount(p)
    BY <1>1, <2>3, <2>7 DEF ReadId, ReadCount, Goto
  <2> QED BY <1>2, <2>4, <2>5, <2>6, <2>7 DEF Reads, Open, Remap, CheckSize, CheckPlaces, Goto,
                                              Refuse, Leave
<1>3. CASE Truncate(p) \/ InitHeader(p) \/ InitRings(p) \/ TakePlace(p) \/ Decrement(p)
  <2>1. ~ TakePlace(p) /\ past' = past /\ shm' = shm
    BY <1>1, <1>3 DEF Truncate, InitHeader, InitRings, TakePlace, Decrement
  <2>2. pc[p] \notin Outside
    BY <1>1, <1>3 DEF Truncate, InitHeader, InitRings, TakePlace, Decrement, Goto
  <2>3. \A q \in Procs \ {p} : pc'[q] \in Outside /\ pc[q] \in Outside
    BY <2>2, OthersOutside
  <2>4. CASE Decrement(p)
    BY <1>1, <2>1, <2>3, <2>4 DEF Decrement, Goto, Refused
  <2>5. CASE Truncate(p) \/ InitHeader(p) \/ InitRings(p)
    BY <1>1, <2>1, <2>3, <2>5 DEF Truncate, InitHeader, InitRings, Goto
  <2> QED BY <1>3, <2>1, <2>4, <2>5
<1>4. CASE Leaves(p)
  <2>1. CASE Leave(p, None) /\ pc[p] \notin Outside
    <3>1. shm' = None /\ pc'[p] = "out"
      BY <2>1, LeaveKeeps
    <3>2. \A q \in Procs \ {p} : pc'[q] \in Outside
      BY <1>4, <2>1, OthersOutside DEF Leaves
    <3> QED BY <3>1, <3>2
  <2>2. CASE Leave(p, shm) /\ pc[p] \in Outside /\ past' = past
    <3>1. shm' = shm /\ pc'[p] = "out"
      BY <2>2, LeaveKeeps
    <3> QED BY <1>1, <2>2, <3>1 DEF Refused
  <2> QED BY <1>4, <2>1, <2>2 DEF Leaves
<1>5. CASE Unlink(p)
  BY <1>5, UnlinkKeeps, OthersOutside
<1> QED BY <1>2, <1>3, <1>4, <1>5, Kinds

LEMMA NameKeeps ==
  ASSUME Safe, OneInside, NameMeans, NEW p \in Procs, Step(p)
  PROVE  NameMeans'
<1> DEFINE Means(q) ==
      /\ pc[q] \in Creating \cup Attaching \cup Placing => vc[q].ch = shm
      /\ pc[q] = "exists" => shm # None
      /\ pc[q] = "header" => region[vc[q].ch].master /\ vc[q].at # "unasked"
      /\ pc[q] \in Placing \cup {"in"} => region[vc[q].ch].ready /\ vc[q].at # "unasked"
      /\ pc[q] = "counted" => vc[q].proc_id = region[vc[q].ch].connected
<1> DEFINE Complete ==
      shm # None /\ (\A q \in Procs : pc[q] \notin Creating) =>
        region[shm].master /\ region[shm].ready
<1> USE DEF Creating, Attaching, Placing, Outside
<1>1. SUFFICES ASSUME Orderly'
               PROVE  (\A q \in Procs : Means(q)') /\ Complete'
  BY DEF NameMeans
<1>2. /\ past'.overlaps = 0 /\ ~ past'.cut
      /\ (\A q \in Procs : Means(q)) /\ Complete
      /\ pc \in [Procs -> Places] /\ pc' \in [Procs -> Places]
      /\ \A q \in Procs \ {p} : pc'[q] = pc[q] /\ vc'[q] = vc[q]
      /\ \A q \in Procs : vc[q].ch \in Regions \cup {None}
      /\ \A q \in Procs : pc[q] \notin {"out", "exists"} <=> vc[q].ch # None
  BY <1>1, OthersStay, History DEF Safe, Types, Handles, NameMeans, Orderly
<1>3. CASE Reads(p)
  <2>1. /\ pc'[p] \notin Outside \cup {"created", "sized", "header"}
        /\ pc[p] \notin {"created", "sized", "header"}
    BY <1>2, <1>3 DEF Reads, Exists, CheckSize, CheckPlaces, Remap, ReadId, ReadCount,
                      StartLeaving, Goto
  <2>2. \A q \in Procs \ {p} : pc[q] \in Outside /\ pc'[q] = pc[q]
    BY <2>1, <1>2, OthersOutside
  <2>3. \A q \in Procs \ {p} : Means(q)'
    BY <1>2, <1>3, <2>2, ReadsStay
  <2>4. Complete'
    BY <1>2, <1>3, <2>1, <2>2, ReadsStay
  <2>5. Means(p)'
    <3>1. CASE Exists(p) \/ StartLeaving(p)
      BY <1>2, <3>1 DEF Exists, StartLeaving, Goto
    <3>2. CASE Remap(p)
      <4>1. pc[p] = "remap" /\ pc'[p] = "ready"
        BY <1>2, <3>2 DEF Remap, Goto
      <4>2. vc[p].ch = shm /\ vc[p].ch # None /\ \A q \in Procs : pc[q] \notin Creating
        BY <1>2, <2>2, <4>1
      <4>3. region[shm].master /\ region[shm].ready
        BY <1>2, <4>2
      <4>4. /\ shm' = shm /\ region' = region /\ vc'[p].ch = vc[p].ch
            /\ vc'[p].at = "unasked" <=> ~ region[vc[p].ch].master
        BY <1>3, <4>1, ReadsStay
      <4> QED BY <4>1, <4>2, <4>3, <4>4
    <3>3. CASE ReadId(p) \/ ReadCount(p)
      BY <1>2, <1>3, <3>3, ReadsStay DEF ReadId, ReadCount, Goto
    <3>4. CASE CheckSize(p) \/ CheckPlaces(p)
      BY <1>2, <1>3, <2>1, <3>4, ReadsStay DEF CheckSize, CheckPlaces, Goto, Refuse, Leave
    <3> QED BY <1>3, <3>1, <3>2, <3>3, <3>4 DEF Reads
  <2> QED BY <2>3, <2>4, <2>5
<1>4. CASE Create(p) \/ Open(p)
  <2>1. /\ pc[p] \in {"out", "exists"} /\ pc'[p] \in {"created", "opened"}
        /\ pc'[p] = "opened" => pc[p] = "exists"
    BY <1>2, <1>4 DEF Create, Open, Goto
  <2>2. \A q \in Procs \ {p} : pc[q] \in Outside /\ pc'[q] = pc[q]
    BY <2>1, <1>2, OthersOutside
  <2> QED BY <1>2, <1>4, <2>1, <2>2, Enters
<1>5. CASE Truncate(p) \/ InitHeader(p) \/ InitRings(p) \/ TakePlace(p) \/ Decrement(p)
  <2>1. /\ <<pc[p], pc'[p]>> \in {<<"created", "sized">>, <<"sized", "header">>,
              <<"header", "ready">>, <<"counted", "in">>, <<"leaving", "left">>}
    BY <1>2, <1>5 DEF Truncate, InitHeader, InitRings, TakePlace, Decrement, Goto
  <2>2. \A q \in Procs \ {p} : pc[q] \in Outside /\ pc'[q] = pc[q]
    BY <2>1, <1>2, OthersOutside
  <2>3. \A q \in Procs \ {p} : Means(q)'
    BY <1>2, <1>5, <2>2, Writes
  <2>4. Means(p)'
    BY <1>2, <1>5, <2>1, Writes
  <2>5. Complete'
    <3>1. /\ shm' = shm /\ shm \in Regions \cup {None}
          /\ shm # None => /\ region[shm].master => region'[shm].master
                           /\ region[shm].ready => region'[shm].ready
      BY <1>5, Writes DEF Safe, Types
    <3>2. CASE pc[p] = "header"
      <4>1. vc[p].ch = shm /\ region[shm].master /\ vc[p].ch \in Regions
        BY <1>2, <1>5, <3>2, Writes
      <4>2. region'[shm].ready
        BY <1>5, <3>2, <4>1, Writes
      <4> QED BY <3>1, <4>1, <4>2, RegionsAssumption
    <3>3. CASE pc[p] \in {"counted", "leaving"}
      <4>1. \A q \in Procs : pc[q] \notin Creating
        BY <2>2, <3>3
      <4> QED BY <1>2, <3>1, <4>1
    <3>4. CASE pc[p] \in {"created", "sized"}
      BY <2>1, <3>4
    <3> QED BY <2>1, <3>2, <3>3, <3>4
  <2> QED BY <2>3, <2>4, <2>5
<1>6. CASE Leaves(p)
  <2>1. CASE Leave(p, None) /\ pc[p] \notin Outside
    <3>1. \A q \in Procs \ {p} : pc[q] \in Outside /\ pc'[q] = pc[q]
      BY <1>2, <1>6, <2>1, OthersOutside DEF Leaves
    <3> QED BY <1>2, <2>1, <3>1, LeaveKeeps
  <2>2. CASE Leave(p, shm) /\ pc[p] \in Outside \cup {"exists"}
    BY <1>2, <2>2, LeaveKeeps
  <2> QED BY <1>2, <1>6, <2>1, <2>2 DEF Leaves
<1>7. CASE Unlink(p)
  <2>1. \A q \in Procs \ {p} : pc[q] \in Outside /\ pc'[q] = pc[q]
    BY <1>2, <1>7, UnlinkKeeps, OthersOutside
  <2> QED BY <1>2, <1>7, <2>1, UnlinkKeeps
<1> QED BY <1>3, <1>4, <1>5, <1>6, <1>7, Kinds

(***************************************************************************)
(* The places taken on a region.                                           *)
(***************************************************************************)
LEMMA IdsKeep ==
  ASSUME Safe, OneInside, CountsCover, NameMeans, IdsApart, NEW p \in Procs, Step(p)
  PROVE  IdsApart'
<1> SUFFICES ASSUME Orderly'
             PROVE  IdsApart'
  BY DEF IdsApart
<1> USE DEF COUNT_RINGS, Outside
<1>1. /\ past'.overlaps = 0 /\ ~ past'.cut /\ past.overlaps = 0 /\ Orderly
      /\ pc \in [Procs -> Places] /\ pc' \in [Procs -> Places]
      /\ \A q \in Procs \ {p} : pc'[q] = pc[q] /\ vc'[q] = vc[q]
      /\ \A q \in Procs : vc[q].ch \in Regions \cup {None}
      /\ \A q \in Procs : pc[q] \notin {"out", "exists"} <=> vc[q].ch # None
  BY OthersStay, History DEF Safe, Types, Handles, Orderly
<1>2. CASE Reads(p)
  <2>1. pc'[p] \notin {"in", "left"} /\ pc[p] # "left"
    BY <1>1, <1>2 DEF Reads, Exists, CheckSize, CheckPlaces, Remap, ReadId, ReadCount,
                      StartLeaving, Goto
  <2> QED BY <1>1, <1>2, <2>1, ReadsStay DEF IdsApart
<1>3. CASE Create(p) \/ Open(p)
  <2>1. pc[p] \in {"out", "exists"} /\ pc'[p] \in {"created", "opened"}
    BY <1>1, <1>3 DEF Create, Open, Goto
  <2>2. \A q \in Procs : pc'[q] = "in" => shm # None \/ vc[q].ch # shm'
    BY <1>1, <1>3, <2>1, Enters DEF Used
  <2> QED BY <1>1, <1>3, <2>1, <2>2, Enters DEF IdsApart
<1>4. CASE Truncate(p) \/ InitHeader(p) \/ InitRings(p) \/ TakePlace(p) \/ Decrement(p)
  <2>1. /\ <<pc[p], pc'[p]>> \in {<<"created", "sized">>, <<"sized", "header">>,
              <<"header", "ready">>, <<"counted", "in">>, <<"leaving", "left">>}
    BY <1>1, <1>4 DEF Truncate, InitHeader, InitRings, TakePlace, Decrement, Goto
  <2>2. \A q \in Procs \ {p} : pc[q] \in Outside /\ pc'[q] = pc[q]
    BY <2>1, <1>1, OthersOutside
  <2>3. /\ shm' = shm /\ vc[p].ch \in Regions /\ vc'[p].ch = vc[p].ch
        /\ vc'[p].proc_id = vc[p].proc_id
        /\ vc[p].proc_id \in Int /\ region[vc[p].ch].connected \in Int
        /\ \A q \in Procs : vc[q].proc_id \in Int
    BY <1>4, Writes DEF Safe, Types, Handles, States
  <2>4. CASE pc[p] \in {"created", "header"}
    BY <1>1, <1>4, <2>1, <2>2, <2>3, <2>4, Writes DEF IdsApart
  <2>5. CASE pc[p] = "sized"
    <3>1. \A q \in Procs : pc[q] = "in" => vc[q].ch # vc[p].ch
      BY <1>1, <2>5 DEF CountsCover, Members
    <3> QED BY <1>1, <1>4, <2>1, <2>2, <2>3, <2>5, <3>1, Writes DEF IdsApart
  <2>6. CASE pc[p] = "counted"
    <3>1. /\ vc[p].ch = shm /\ vc[p].proc_id = region[shm].connected
          /\ region[shm].connected < COUNT_RINGS
          /\ region'[shm].connected = region[shm].connected + 1
      BY <1>1, <1>4, <2>6, Writes DEF NameMeans, CountsCover, Placing
    <3>2. \A q \in Procs \ {p} : pc[q] = "in" /\ vc[q].ch = shm
            => vc[q].proc_id < region[shm].connected
      BY <1>1, <2>2, <2>6, <3>1 DEF IdsApart
    <3> QED BY <1>1, <2>1, <2>2, <2>3, <2>6, <3>1, <3>2 DEF IdsApart
  <2>7. CASE pc[p] = "leaving"
    BY <1>1, <1>4, <2>1, <2>2, <2>3, <2>7 DEF IdsApart
  <2> QED BY <2>1, <2>4, <2>5, <2>6, <2>7
<1>5. CASE Leaves(p)
  <2>1. CASE Leave(p, None) /\ pc[p] \notin Outside
    BY <1>1, <2>1, LeaveKeeps DEF IdsApart
  <2>2. CASE Leave(p, shm) /\ pc[p] \in Outside \cup {"exists"}
    BY <1>1, <2>2, LeaveKeeps DEF IdsApart
  <2> QED BY <1>1, <1>5, <2>1, <2>2 DEF Leaves
<1>6. CASE Unlink(p)
  BY <1>1, <1>6, UnlinkKeeps DEF IdsApart
<1> QED BY <1>2, <1>3, <1>4, <1>5, <1>6, Kinds

(***************************************************************************)
(* The invariant holds along every behaviour.                              *)
(***************************************************************************)
LEMMA InitHolds ==
  ASSUME Init
  PROVE  IInv
<1>1. /\ shm = None /\ \A r \in Regions : region[r] = Empty
      /\ \A p \in Procs : pc[p] = "out" /\ vc[p] = Nowhere
  BY DEF Init
<1>2. Types
  BY DEF Init, Types, States, Handles, Places, Outside, Empty, Nowhere, Addresses
<1>3. UnusedEmpty /\ Backed /\ OneInside /\ Refused /\ NameMeans /\ IdsApart
  BY <1>1 DEF UnusedEmpty, Backed, OneInside, Inside, Refused, NameMeans, IdsApart, Orderly,
              Creating, Attaching, Placing
<1>4. CountsCover
  <2>1. \A r \in Regions : Members(r) = {}
    BY <1>1 DEF Members
  <2> QED BY <1>1, <2>1, MembersAre DEF CountsCover, Empty, Placing, COUNT_RINGS
<1> QED BY <1>2, <1>3, <1>4 DEF IInv, Safe

LEMMA NothingHappens ==
  ASSUME IInv, UNCHANGED vars
  PROVE  IInv'
<1>1. Types' /\ UnusedEmpty' /\ Backed' /\ OneInside'
  BY DEF vars, IInv, Safe, Types, UnusedEmpty, Used, Backed, OneInside, Inside
<1>2. CountsCover'
  <2>1. \A r : Members(r)' = Members(r)
    BY DEF vars, Members
  <2>2. \A p \in Procs : Members(vc[p].ch)' = Members(vc[p].ch)
    BY DEF vars, Members
  <2> QED BY <2>1, <2>2 DEF vars, IInv, CountsCover, COUNT_RINGS, Placing
<1>3. Refused' /\ NameMeans' /\ IdsApart'
  BY DEF vars, IInv, Refused, NameMeans, IdsApart, Orderly, COUNT_RINGS, Creating, Attaching,
         Placing
<1> QED BY <1>1, <1>2, <1>3 DEF IInv, Safe

LEMMA StepKeeps ==
  ASSUME IInv, [Next]_vars
  PROVE  IInv'
<1>1. ASSUME NEW p \in Procs, Step(p)
      PROVE  IInv'
  BY <1>1, SafeKeeps, OneInsideKeeps, CountsKeep, RefusedKeeps, NameKeeps, IdsKeep DEF IInv
<1> QED BY <1>1, NothingHappens DEF Next

LEMMA InvariantHolds == Spec => []IInv
  BY InitHolds, StepKeeps, PTL DEF Spec

(***************************************************************************)
(* Whoever touches a region has memory behind it: the check of the size    *)
(* keeps attaching processes away until ftruncate (vchannel.c:115), and no *)
(* region is reset under a process that is in it.                          *)
(***************************************************************************)
THEOREM AccessesAreBacked == Spec => []AccessIsBacked
<1>1. IInv => AccessIsBacked
  BY DEF IInv, Safe, Types, UnusedEmpty, Backed, AccessIsBacked, TypeOK, States, Handles
<1> QED BY <1>1, InvariantHolds, PTL

(***************************************************************************)
(* As long as no two calls overlap, no more than the two processes there   *)
(* are rings for get into a region, wherever processes die.                *)
(***************************************************************************)
THEOREM TwoAtMost == Spec => []AtMostTwo
<1>1. ASSUME IInv
      PROVE  AtMostTwo
  <2>1. ASSUME past.overlaps = 0, NEW r \in Regions
        PROVE  Cardinality(In(r)) <= COUNT_RINGS
    <3>1. In(r) \subseteq Members(r) /\ Members(r) \in SUBSET Procs /\ In(r) \in SUBSET Procs
      BY DEF In, Members
    <3>2. Cardinality(Members(r)) <= region[r].connected /\ region[r].connected <= COUNT_RINGS
      BY <1>1, <2>1 DEF IInv, CountsCover
    <3>3. region[r].connected \in Int
      BY <1>1 DEF IInv, Safe, Types, States
    <3> QED BY <3>1, <3>2, <3>3, MembersAre DEF COUNT_RINGS
  <2> QED BY <2>1 DEF AtMostTwo
<1> QED BY <1>1, InvariantHolds, PTL

(***************************************************************************)
(* The processes of a region have different places, 0 and 1, find its      *)
(* rings initialised and have asked for the address the pointers in it are *)
(* good at (vchannel.c:138), as long as no two calls overlap and none is   *)
(* cut short.                                                              *)
(***************************************************************************)
THEOREM PairsMeet == Spec => []PairMeets
<1>1. IInv => PairMeets
  BY DEF IInv, NameMeans, IdsApart, PairMeets, In, Placing, COUNT_RINGS
<1> QED BY <1>1, InvariantHolds, PTL

(***************************************************************************)
(* A refusal removes the name, so that the next call makes a region anew   *)
(* and is not refused too, unless calls overlap.                           *)
(***************************************************************************)
THEOREM RefusalsHeal == Spec => RefusalHeals
<1> DEFINE Heals ==
      \A p \in Procs :
        pc[p] \in {"opened", "sizeok"} /\ pc'[p] = "out" /\ past'.refused /\ past.overlaps = 0
          => ~past.refused
<1>1. IInv => [Heals]_vars
  BY DEF IInv, Refused, Attaching
<1> QED BY <1>1, InvariantHolds, PTL DEF RefusalHeals
===============================================================================
