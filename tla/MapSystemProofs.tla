---------------------------- MODULE MapSystemProofs ----------------------------
(***************************************************************************)
(* Proofs about MapSystem, for any number of maps, requests and indices.   *)
(***************************************************************************)
EXTENDS MapSystem, FiniteSetTheorems, WellFoundedInduction, TLAPS

(***************************************************************************)
(* The inductive invariant.  Below lastGlobalIndex no index is free, so    *)
(* the next free one found from there is the first of all, and the entry   *)
(* that makes room goes where none was: every match adds one entry and     *)
(* loses none.  Every entry has a buffer of its own, so that a lookup at   *)
(* one index does not write what a lookup at another returned.             *)
(***************************************************************************)
Used(i) == table[i].fd # NoFd
InUse   == {i \in Indices : Used(i)}

Request == [name : Names, index : Indices \cup {Anywhere, Beyond}]
Entry   == [fd : Fds, name : Names \cup {None}, size : Ids \cup {0}, pool : Nat,
            area : Ids \cup {0}]

Types ==
  /\ \A s \in DOMAIN requests : s \in Nat /\ requests[s] \in Request
  /\ host \in Seq(Names \cup {"another"}) /\ Len(host) \in 0 .. MaxMaps
  /\ pc \in {"scan", "match", "overflow", "failed", "ready"}
  /\ r \in Nat
  /\ last \in Indices
  /\ buffers \in Seq(Ids)
  /\ table \in [Indices -> Entry]
  /\ \A i \in Indices : table[i].pool <= Len(buffers)
  /\ held = None \/ pc = "ready"

\* What the scan knows of the map it is at.
Scanned ==
  /\ \/ info.id = 0 /\ info.name = None
     \/ info.id \in 1 .. Len(host) /\ info.name = host[info.id]
  /\ pc = "match" =>
       /\ Len(host) > 0
       /\ fd = BadFd \/ (fd = Len(host) /\ info.id = fd)

Matches ==
  /\ IsFiniteSet(matched)
  /\ \A m \in matched :
       /\ m[1] \in Fds /\ m[2] \in DOMAIN requests /\ m[3] \in 0 .. Len(host)
       /\ requests[m[2]].index # Beyond
       /\ pc = "match" /\ m[3] = Len(host) => m[2] < r

Filled ==
  \A i \in Indices :
    /\ ~ Used(i) => table[i] = Empty
    /\ Used(i) => table[i].name \in Names
    /\ i < last => Used(i)

WholeAt(i) ==
  LET e  == table[i]
      id == IF e.fd = BadFd THEN e.size ELSE e.fd
  IN  /\ id \in 1 .. Len(host) /\ e.pool \in 1 .. Len(buffers)
      /\ e.name = host[id] /\ e.size = id /\ buffers[e.pool] = id
      /\ e.area \in {0, e.fd}

Whole ==
  pc # "failed" => \A i \in InUse : WholeAt(i)

PoolsApart ==
  pc # "failed" => \A i, j \in InUse : i # j => table[i].pool # table[j].pool

Counted ==
  pc # "failed" =>
    /\ Cardinality(InUse) = Cardinality(matched)
    /\ \A id \in Ids :
         Cardinality({i \in Indices : table[i].fd = id})
           = Cardinality({m \in matched : m[1] = id})
    /\ pc = "overflow" => InUse = Indices \/ requests[r].index = Beyond

Alone(s) ==
  requests[s].index # Anywhere
  /\ \A t \in DOMAIN requests \ {s} : requests[t].index # requests[s].index

Placed ==
  \A m \in matched : Alone(m[2]) =>
    Used(requests[m[2]].index)
    /\ table[requests[m[2]].index].name = requests[m[2]].name

Unplaced == \A s \in DOMAIN requests : requests[s].index = Anywhere

InOrder ==
  Unplaced =>
    /\ \A i, j \in Indices : j < i /\ Used(i) => Used(j)
    /\ \A m \in matched : \E i \in InUse : table[i].name = requests[m[2]].name

Held ==
  held # None =>
    /\ held.index \in InUse
    /\ held.buffer = 0 \/ held.buffer = table[held.index].pool
    /\ \/ held.shows = <<table[held.index].fd, held.key>>
       \/ held.buffer = 0 /\ ~ Reaches(table[held.index].fd, table[held.index].fd, held.key)

Table == Types /\ Scanned /\ Matches /\ Filled

IInv == Table /\ Whole /\ PoolsApart /\ Counted /\ Placed /\ InOrder /\ Held

USE MapAssumption

(***************************************************************************)
(* The least element of a set of naturals.                                 *)
(***************************************************************************)
LEMMA MinIsLeast ==
  ASSUME NEW S \in SUBSET Nat, S # {}
  PROVE  Min(S) \in S /\ \A x \in S : Min(S) <= x
<1>1. PICK least \in S : \A y \in S : ~ (<<y, least>> \in OpToRel(<, Nat))
  BY NatLessThanWellFounded, WFMin
<1>2. \A y \in S : <<y, least>> \in OpToRel(<, Nat) <=> y < least
  BY DEF OpToRel
<1>3. \A y \in S : ~ (y < least)
  BY <1>1, <1>2, Zenon
<1>4. \A y \in S : least <= y
  BY <1>3
<1> QED BY <1>4 DEF Min

(***************************************************************************)
(* A match takes its place.                                                *)
(***************************************************************************)
Matching == pc = "match" /\ Requested /\ Fits

\* What is matched is a map of the host with a name that was asked for.
LEMMA MatchIs ==
  ASSUME Table, Matching
  PROVE  /\ r \in DOMAIN requests /\ requests[r] \in Request
         /\ info.id \in 1 .. Len(host) /\ info.id \in Ids
         /\ info.name = host[info.id] /\ info.name = requests[r].name
         /\ requests[r].name \in Names
         /\ FreeFrom(last) # {} /\ requests[r].index \in Indices \cup {Anywhere}
         /\ fd \in Fds /\ fd # NoFd /\ (fd = BadFd \/ (fd = Len(host) /\ info.id = fd))
         /\ Len(host) \in 1 .. MaxMaps
<1>1. /\ r \in DOMAIN requests /\ requests[r] \in Request /\ info.name = requests[r].name
      /\ requests[r].name \in Names
      /\ FreeFrom(last) # {} /\ requests[r].index \in Indices \cup {Anywhere}
  BY DEF Matching, Requested, Fits, Table, Types, Request
<1>2. info.id \in 1 .. Len(host) /\ info.name = host[info.id]
  BY <1>1, MapAssumption DEF Table, Scanned
<1>3. Len(host) \in 1 .. MaxMaps /\ (fd = BadFd \/ (fd = Len(host) /\ info.id = fd))
  BY DEF Matching, Table, Types, Scanned
<1>4. info.id \in Ids /\ fd \in Fds /\ fd # NoFd
  BY <1>2, <1>3 DEF Ids, Fds, NoFd, BadFd
<1> QED BY <1>1, <1>2, <1>3, <1>4

\* The free index found from lastGlobalIndex on is the first free one of all.
LEMMA FreeIsFirst ==
  ASSUME Table, FreeFrom(last) # {}
  PROVE  /\ Min(FreeFrom(last)) \in Indices /\ ~ Used(Min(FreeFrom(last)))
         /\ \A i \in Indices : i < Min(FreeFrom(last)) => Used(i)
<1>1. FreeFrom(last) \in SUBSET Nat /\ FreeFrom(last) \in SUBSET Indices /\ last \in Indices
  BY DEF FreeFrom, Indices, Table, Types
<1>2. PICK free : free = Min(FreeFrom(last))
  OBVIOUS
<1>3. free \in FreeFrom(last) /\ \A x \in FreeFrom(last) : free <= x
  BY <1>1, <1>2, MinIsLeast
<1>4. free \in Indices /\ ~ Used(free)
  BY <1>1, <1>3 DEF FreeFrom, Used
<1>5. ASSUME NEW i \in Indices, i < free
      PROVE  Used(i)
  <2>1. i \notin FreeFrom(last)
    BY <1>3, <1>4, <1>5 DEF Indices
  <2>2. CASE i < last
    BY <2>2 DEF Table, Filled
  <2>3. CASE ~ (i < last)
    BY <1>1, <2>1, <2>3 DEF FreeFrom, Used, Indices
  <2> QED BY <2>2, <2>3
<1> QED BY <1>2, <1>4, <1>5

Placement(free, cur, pool, area) ==
  /\ ~ Used(free) /\ \A i \in Indices : i < free => Used(i)
  /\ cur = CurIndex(free) /\ last' = free
  /\ table' \in [Indices -> Entry]
  /\ table'[cur] = [fd |-> fd, name |-> requests[r].name, size |-> info.id,
                    pool |-> pool, area |-> area]
  /\ \A i \in Indices \ {cur} :
       table'[i] = IF i = free /\ Used(cur) THEN table[cur] ELSE table[i]

LEMMA PlaceIs ==
  ASSUME Table, Matching, NEW pool \in Nat, NEW area \in Ids \cup {0}, Place(pool, area),
         NEW free, free = Min(FreeFrom(last))
  PROVE  /\ free \in Indices /\ CurIndex(free) \in Indices
         /\ Placement(free, CurIndex(free), pool, area)
<1> PICK cur : cur = CurIndex(free)
  OBVIOUS
<1> DEFINE new == [fd |-> fd, name |-> requests[r].name, size |-> info.id,
                   pool |-> pool, area |-> area]
<1>1. free \in Indices /\ ~ Used(free) /\ \A i \in Indices : i < free => Used(i)
  BY FreeIsFirst, MatchIs
<1>2. cur \in Indices
  BY <1>1, MatchIs DEF CurIndex, Anywhere
<1>3. new \in Entry
  BY MatchIs DEF Entry
<1>4. last' = free /\ table' = [MadeRoom(free, cur) EXCEPT ![cur] = new]
  BY DEF Place
<1>5. /\ MadeRoom(free, cur) \in [Indices -> Entry]
      /\ \A i \in Indices :
           MadeRoom(free, cur)[i] = IF i = free /\ Used(cur) THEN table[cur] ELSE table[i]
  <2>1. table \in [Indices -> Entry] /\ table[cur] \in Entry
    BY <1>2 DEF Table, Types
  <2>2. CASE table[cur].fd = NoFd
    BY <2>1, <2>2 DEF MadeRoom, Used
  <2>3. CASE table[cur].fd # NoFd
    BY <1>1, <2>1, <2>3 DEF MadeRoom, Used
  <2> QED BY <2>2, <2>3
<1>6. table' \in [Indices -> Entry] /\ table'[cur] = new
      /\ \A i \in Indices \ {cur} : table'[i] = MadeRoom(free, cur)[i]
  <2> HIDE DEF new
  <2> QED BY <1>2, <1>3, <1>4, <1>5
<1> QED BY <1>1, <1>2, <1>4, <1>5, <1>6 DEF Placement

\* One more index is in use, and every entry is the new one or was there.
LEMMA OneMoreInUse ==
  ASSUME Table, Matching, NEW pool, NEW area, NEW free \in Indices, NEW cur \in Indices,
         Placement(free, cur, pool, area)
  PROVE  \E added \in Indices :
           /\ added \notin InUse /\ InUse' = InUse \cup {added}
           /\ added = IF Used(cur) THEN free ELSE cur
           /\ free \in InUse' \/ (cur # free /\ ~ Used(cur))
<1> DEFINE added == IF Used(cur) THEN free ELSE cur
<1>1. \A i \in Indices : Used(i)' <=> Used(i) \/ i = added
  BY MatchIs DEF Placement, Used
<1>2. ~ Used(added) /\ added \in Indices
  BY DEF Placement
<1> QED BY <1>1, <1>2 DEF InUse

Kept(free, cur, pool, area) ==
  /\ Matching /\ free \in Indices /\ cur \in Indices
  /\ Placement(free, cur, pool, area)
  /\ pool \in Nat /\ area \in Ids \cup {0}
  /\ UNCHANGED <<requests, host, fd, info, held>>

LEMMA KeepIs ==
  ASSUME Table, Keep
  PROVE  \E free, cur \in Indices, area \in Ids \cup {0} :
           /\ Kept(free, cur, Len(buffers) + 1, area)
           /\ area \in {0, fd}
           /\ buffers' = Append(buffers, info.id) /\ pc' = pc /\ r' = r + 1
           /\ matched' = matched \cup {<<fd, r, Len(host)>>}
<1> PICK free : free = Min(FreeFrom(last))
  OBVIOUS
<1> PICK cur : cur = CurIndex(free)
  OBVIOUS
<1>1. Matching
  BY DEF Keep, Matching
<1>2. PICK area \in {0} \cup ({fd} \ {BadFd}) : Place(Len(buffers) + 1, area)
  BY DEF Keep, BufferFor
<1>3. area \in Ids \cup {0} /\ area \in {0, fd}
  BY <1>1, MatchIs DEF Ids
<1>4. Len(buffers) + 1 \in Nat
  BY DEF Table, Types
<1>5. free \in Indices /\ cur \in Indices /\ Placement(free, cur, Len(buffers) + 1, area)
  BY <1>1, <1>2, <1>3, <1>4, PlaceIs
<1>6. /\ UNCHANGED <<requests, host, fd, info, held>>
      /\ buffers' = Append(buffers, info.id) /\ pc' = pc /\ r' = r + 1
      /\ matched' = matched \cup {<<fd, r, Len(host)>>}
  BY DEF Keep
<1> QED BY <1>1, <1>3, <1>4, <1>5, <1>6 DEF Kept

LEMMA KeepFailsIs ==
  ASSUME Table, KeepFails
  PROVE  \E free, cur \in Indices, pool \in Nat, area \in Ids \cup {0} :
           /\ Kept(free, cur, pool, area)
           /\ pool <= Len(buffers)
           /\ UNCHANGED <<r, buffers, matched>> /\ pc' = "failed"
<1> PICK free : free = Min(FreeFrom(last))
  OBVIOUS
<1> PICK cur : cur = CurIndex(free)
  OBVIOUS
<1>1. Matching
  BY DEF KeepFails, Matching
<1>2. cur \in Indices
  <2>1. free \in Indices
    BY <1>1, FreeIsFirst, MatchIs
  <2> QED BY <2>1, <1>1, MatchIs DEF CurIndex, Anywhere
<1> PICK was : was = table[cur]
  OBVIOUS
<1>3. was \in Entry /\ was.pool <= Len(buffers)
  BY <1>2 DEF Table, Types
<1>4. Place(was.pool, was.area)
  BY DEF KeepFails
<1>5. was.pool \in Nat /\ was.area \in Ids \cup {0}
  BY <1>3 DEF Entry
<1>6. free \in Indices /\ cur \in Indices /\ Placement(free, cur, was.pool, was.area)
  BY <1>1, <1>4, <1>5, PlaceIs
<1>7. UNCHANGED <<requests, host, fd, info, held, r, buffers, matched>> /\ pc' = "failed"
  BY DEF KeepFails
<1> QED BY <1>1, <1>3, <1>5, <1>6, <1>7 DEF Kept

\* What holds of a match whether there was memory for its buffer or not.
LEMMA KeptTypes ==
  ASSUME IInv, NEW free, NEW cur, NEW pool, NEW area, Kept(free, cur, pool, area),
         buffers' \in Seq(Ids), Len(buffers') >= Len(buffers), pool <= Len(buffers'),
         r' \in Nat, pc' \in {"match", "failed"}
  PROVE  Types' /\ Filled'
<1>1. table' \in [Indices -> Entry] /\ table \in [Indices -> Entry]
  BY DEF Kept, Placement, IInv, Table, Types
<1>2. ASSUME NEW i \in Indices
      PROVE  table'[i].pool <= Len(buffers')
  <2>1. \A j \in Indices : table[j].pool \in Nat /\ table[j].pool <= Len(buffers)
    BY <1>1 DEF IInv, Table, Types, Entry
  <2>2. Len(buffers) \in Nat /\ Len(buffers') \in Nat
    BY DEF IInv, Table, Types
  <2>3. CASE i = cur
    BY <2>3 DEF Kept, Placement
  <2>4. CASE i # cur
    <3>1. \/ table'[i] = table[i]
          \/ table'[i] = table[cur]
      BY <2>4 DEF Kept, Placement
    <3>2. cur \in Indices
      BY DEF Kept
    <3> QED BY <2>1, <2>2, <3>1, <3>2
  <2> QED BY <2>3, <2>4
<1>3. held' = None
  BY DEF Kept, Matching, IInv, Table, Types
<1>4. last' \in Indices
  BY DEF Kept, Placement
<1>5. Types'
  <2>1. UNCHANGED <<requests, host>>
    BY DEF Kept
  <2> QED BY <1>1, <1>2, <1>3, <1>4, <2>1 DEF IInv, Table, Types
<1>6. ASSUME NEW i \in Indices
      PROVE  /\ table'[i].fd = NoFd => table'[i] = Empty
             /\ table'[i].fd # NoFd => table'[i].name \in Names
             /\ i < free => table'[i].fd # NoFd
  <2>1. /\ table[i].fd = NoFd => table[i] = Empty
        /\ table[i].fd # NoFd => table[i].name \in Names
        /\ table[cur].fd # NoFd => table[cur].name \in Names
    BY DEF Kept, IInv, Table, Filled, Used
  <2>2. fd # NoFd /\ requests[r].name \in Names
    BY MatchIs DEF Kept, IInv
  <2>3. CASE i = cur
    BY <2>2, <2>3 DEF Kept, Placement
  <2>4. CASE i # cur
    BY <2>1, <2>4 DEF Kept, Placement, Used
  <2> QED BY <2>3, <2>4
<1>7. Filled'
  BY <1>6 DEF Filled, Used, Kept, Placement
<1> QED BY <1>5, <1>7

LEMMA KeptMatches ==
  ASSUME IInv, NEW free, NEW cur, NEW pool, NEW area, Kept(free, cur, pool, area),
         \/ matched' = matched /\ r' = r
         \/ matched' = matched \cup {<<fd, r, Len(host)>>} /\ r' = r + 1
  PROVE  Matches' /\ Placed' /\ InOrder'
<1> DEFINE new == <<fd, r, Len(host)>>
<1>1. \A m \in matched' : m \in matched \/ m = new
  OBVIOUS
<1>2. /\ r \in DOMAIN requests /\ requests[r] \in Request /\ r \in Nat
      /\ fd \in Fds /\ fd # NoFd /\ Len(host) \in Nat /\ requests[r].index # Beyond
      /\ \A s \in DOMAIN requests : s \in Nat /\ requests[s] \in Request
  <2>1. Matching /\ Table
    BY DEF Kept, IInv
  <2>2. requests[r].index \in Indices \cup {Anywhere}
    BY <2>1, MatchIs
  <2>3. requests[r].index # Beyond
    BY <2>2 DEF Indices, Anywhere, Beyond
  <2> QED BY <2>1, <2>3, MatchIs DEF Table, Types
<1>3. /\ UNCHANGED <<requests, host, fd, info, held>>
      /\ free \in Indices /\ cur \in Indices /\ ~ Used(free) /\ cur = CurIndex(free)
      /\ table'[cur].fd = fd /\ table'[cur].name = requests[r].name
      /\ \A i \in Indices \ {cur} :
           table'[i] = IF i = free /\ Used(cur) THEN table[cur] ELSE table[i]
      /\ \A i \in Indices : i < free => Used(i)
      /\ pc = "match"
  BY DEF Kept, Placement, Matching
<1>4. Matches'
  <2>1. IsFiniteSet(matched')
    <3>1. IsFiniteSet(matched)
      BY DEF IInv, Table, Matches
    <3>2. IsFiniteSet(matched \cup {new})
      BY <3>1, FS_AddElement
    <3> QED BY <3>1, <3>2
  <2>2. ASSUME NEW m \in matched'
        PROVE  /\ m[1] \in Fds /\ m[2] \in DOMAIN requests /\ m[3] \in 0 .. Len(host)
               /\ requests[m[2]].index # Beyond
               /\ m[3] = Len(host) => m[2] < r'
    <3>1. CASE m \in matched
      <4>1. /\ m[1] \in Fds /\ m[2] \in DOMAIN requests /\ m[3] \in 0 .. Len(host)
            /\ requests[m[2]].index # Beyond
            /\ m[3] = Len(host) => m[2] < r
        BY <1>3, <3>1 DEF IInv, Table, Matches
      <4> QED BY <1>2, <4>1
    <3>2. CASE m = new /\ m \notin matched
      BY <1>2, <3>2
    <3> QED BY <1>1, <3>1, <3>2
  <2> QED BY <1>3, <2>1, <2>2 DEF Matches
<1>5. Placed'
  <2>1. SUFFICES ASSUME NEW m \in matched', Alone(m[2])
                 PROVE  /\ table'[requests[m[2]].index].fd # NoFd
                        /\ table'[requests[m[2]].index].name = requests[m[2]].name
    BY <1>3 DEF Placed, Alone, Used
  <2>2. CASE m \in matched
    <3> PICK wanted : wanted = requests[m[2]].index
      OBVIOUS
    <3>1. Used(wanted) /\ table[wanted].name = requests[m[2]].name
      BY <2>1, <2>2 DEF IInv, Placed
    <3>2. m[2] \in DOMAIN requests /\ wanted \in Indices
      BY <1>2, <2>1, <2>2 DEF Alone, IInv, Table, Matches, Request
    <3>3. CASE wanted = cur
      <4>1. requests[r].index = wanted
        BY <1>3, <3>1, <3>3 DEF CurIndex
      <4>2. r = m[2]
        BY <1>2, <2>1, <3>2, <4>1 DEF Alone
      <4> QED BY <1>2, <1>3, <3>3, <4>2
    <3>4. CASE wanted # cur
      <4>1. table'[wanted] = table[wanted]
        BY <1>3, <3>1, <3>2, <3>4
      <4> QED BY <3>1, <4>1 DEF Used
    <3> QED BY <3>3, <3>4
  <2>3. CASE m = new
    <3>1. m[2] = r /\ requests[r].index # Anywhere
      BY <2>1, <2>3 DEF Alone
    <3>2. cur = requests[m[2]].index
      BY <1>3, <3>1 DEF CurIndex
    <3> QED BY <1>2, <1>3, <3>1, <3>2
  <2> QED BY <1>1, <2>2, <2>3
<1>6. InOrder'
  <2>1. SUFFICES ASSUME Unplaced
                 PROVE  /\ \A i, j \in Indices : j < i /\ table'[i].fd # NoFd => table'[j].fd # NoFd
                        /\ \A m \in matched' : \E i \in Indices :
                             table'[i].fd # NoFd /\ table'[i].name = requests[m[2]].name
    BY <1>3 DEF InOrder, Unplaced, InUse, Used
  <2>2. cur = free
    BY <1>2, <1>3, <2>1 DEF Unplaced, CurIndex
  <2>3. \A i \in Indices : table'[i].fd # NoFd <=> Used(i) \/ i = free
    BY <1>2, <1>3, <2>2 DEF Used
  <2>4. \A i, j \in Indices : j < i /\ Used(i) => Used(j)
    BY <2>1 DEF IInv, InOrder
  <2>5. ASSUME NEW m \in matched'
        PROVE  \E i \in Indices : table'[i].fd # NoFd /\ table'[i].name = requests[m[2]].name
    <3>1. CASE m \in matched
      <4>1. PICK i \in Indices : Used(i) /\ table[i].name = requests[m[2]].name
        BY <2>1, <3>1 DEF IInv, InOrder, InUse
      <4>2. table'[i] = table[i]
        BY <1>3, <2>2, <4>1
      <4> QED BY <2>3, <4>1, <4>2
    <3>2. CASE m = new
      <4>1. m[2] = r
        BY <3>2
      <4> QED BY <1>2, <1>3, <4>1
    <3> QED BY <1>1, <3>1, <3>2
  <2> QED BY <1>3, <2>3, <2>4, <2>5
<1> QED BY <1>4, <1>5, <1>6

\* With memory for the buffer, every entry is whole and has its own buffer.
LEMMA KeptWhole ==
  ASSUME IInv, NEW free, NEW cur, NEW area, Kept(free, cur, Len(buffers) + 1, area),
         area \in {0, fd}, buffers' = Append(buffers, info.id)
  PROVE  Whole' /\ PoolsApart'
<1> DEFINE pool == Len(buffers) + 1
<1>1. /\ info.id \in 1 .. Len(host) /\ info.id \in Ids /\ requests[r].name = host[info.id]
      /\ fd # NoFd /\ (fd = BadFd \/ (fd = info.id))
  BY MatchIs DEF Kept, IInv
<1>2. /\ buffers \in Seq(Ids) /\ Len(buffers) \in Nat /\ Len(buffers') = pool
      /\ buffers'[pool] = info.id /\ pool \in Nat
      /\ \A b \in 1 .. Len(buffers) : buffers'[b] = buffers[b]
  BY <1>1 DEF IInv, Table, Types
<1>3. /\ host' = host /\ ~ Used(free) /\ free \in Indices /\ cur \in Indices
      /\ table'[cur] = [fd |-> fd, name |-> requests[r].name, size |-> info.id,
                        pool |-> pool, area |-> area]
      /\ \A i \in Indices \ {cur} :
           table'[i] = IF i = free /\ Used(cur) THEN table[cur] ELSE table[i]
      /\ pc = "match"
  BY DEF Kept, Placement, Matching
<1>4. \A i \in Indices : Used(i) => WholeAt(i)
  BY <1>3 DEF IInv, Whole, InUse
<1>5. \A i, j \in Indices : Used(i) /\ Used(j) /\ i # j => table[i].pool # table[j].pool
  BY <1>3 DEF IInv, PoolsApart, InUse
\* An entry other than the new one was there.
<1>6. ASSUME NEW i \in Indices, i # cur, table'[i].fd # NoFd
      PROVE  \E o \in Indices : /\ Used(o) /\ table'[i] = table[o]
                                /\ o = IF i = free THEN cur ELSE i
  BY <1>3, <1>6 DEF Used
<1>7. Whole'
  <2>1. SUFFICES ASSUME NEW i \in Indices, table'[i].fd # NoFd
                 PROVE  WholeAt(i)'
    BY DEF Whole, InUse, Used
  <2>2. CASE i = cur
    <3>1. /\ table'[i].fd = fd /\ table'[i].name = requests[r].name
          /\ table'[i].size = info.id /\ table'[i].pool = pool /\ table'[i].area = area
      BY <1>3, <2>2
    <3>2. (IF table'[i].fd = BadFd THEN table'[i].size ELSE table'[i].fd) = info.id
      BY <1>1, <3>1
    <3>3. pool \in 1 .. Len(buffers')
      BY <1>2
    <3> QED BY <1>1, <1>2, <1>3, <3>1, <3>2, <3>3 DEF WholeAt
  <2>3. CASE i # cur
    <3>1. PICK o \in Indices : Used(o) /\ table'[i] = table[o]
      BY <1>6, <2>1, <2>3
    <3>2. WholeAt(o)
      BY <1>4, <3>1
    <3>3. table[o].pool \in 1 .. Len(buffers') /\ buffers'[table[o].pool] = buffers[table[o].pool]
      BY <1>2, <3>2 DEF WholeAt
    <3> QED BY <1>3, <3>1, <3>2, <3>3 DEF WholeAt
  <2> QED BY <2>2, <2>3
<1>8. PoolsApart'
  <2>1. SUFFICES ASSUME NEW i \in Indices, NEW j \in Indices, i # j,
                        table'[i].fd # NoFd, table'[j].fd # NoFd
                 PROVE  table'[i].pool # table'[j].pool
    BY DEF PoolsApart, InUse, Used
  <2>2. \A o \in Indices : Used(o) => table[o].pool < pool
    BY <1>2, <1>4 DEF WholeAt
  <2>3. CASE i = cur
    <3>1. PICK o \in Indices : Used(o) /\ table'[j] = table[o]
      BY <1>6, <2>1, <2>3
    <3>2. table'[i].pool = pool
      BY <1>3, <2>3
    <3>3. table[o].pool \in Nat /\ table[o].pool < pool
      BY <1>4, <2>2, <3>1 DEF WholeAt
    <3> QED BY <1>2, <3>1, <3>2, <3>3
  <2>4. CASE j = cur
    <3>1. PICK o \in Indices : Used(o) /\ table'[i] = table[o]
      BY <1>6, <2>1, <2>4
    <3>2. table'[j].pool = pool
      BY <1>3, <2>4
    <3>3. table[o].pool \in Nat /\ table[o].pool < pool
      BY <1>4, <2>2, <3>1 DEF WholeAt
    <3> QED BY <1>2, <3>1, <3>2, <3>3
  <2>5. CASE i # cur /\ j # cur
    <3>1. PICK o \in Indices : /\ Used(o) /\ table'[i] = table[o]
                               /\ o = IF i = free THEN cur ELSE i
      BY <1>6, <2>1, <2>5
    <3>2. PICK p \in Indices : /\ Used(p) /\ table'[j] = table[p]
                               /\ p = IF j = free THEN cur ELSE j
      BY <1>6, <2>1, <2>5
    <3>3. o # p
      BY <2>1, <2>5, <3>1, <3>2
    <3> QED BY <1>5, <3>1, <3>2, <3>3
  <2> QED BY <2>3, <2>4, <2>5
<1> QED BY <1>7, <1>8

LEMMA IndicesFinite == IsFiniteSet(Indices) /\ Cardinality(Indices) = MAX_NR_MAPS
<1>1. 0 \in Int /\ MAX_NR_MAPS - 1 \in Int
  OBVIOUS
<1> QED BY <1>1, FS_Interval DEF Indices

\* The map that was matched is at one index more, and every other at as many.
LEMMA KeptCounts ==
  ASSUME IInv, NEW free, NEW cur, NEW pool, NEW area, Kept(free, cur, pool, area),
         matched' = matched \cup {<<fd, r, Len(host)>>}, pc' = pc
  PROVE  Counted'
<1> DEFINE new == <<fd, r, Len(host)>>
           At(id) == {i \in Indices : table[i].fd = id}
           AtNow(id) == {i \in Indices : table'[i].fd = id}
           Of(id) == {m \in matched : m[1] = id}
           OfNow(id) == {m \in matched' : m[1] = id}
<1>1. /\ IsFiniteSet(matched)
      /\ \A m \in matched : m[3] = Len(host) => m[2] < r
      /\ r \in Nat
  BY MatchIs DEF Kept, Matching, IInv, Table, Matches, Types
<1>2. new \notin matched
  BY <1>1
<1>3. pc = "match" /\ fd # NoFd /\ free \in Indices /\ cur \in Indices
      /\ ~ Used(free)
      /\ table'[cur].fd = fd
      /\ \A i \in Indices \ {cur} :
           table'[i] = IF i = free /\ Used(cur) THEN table[cur] ELSE table[i]
  BY MatchIs DEF Kept, Placement, Matching, IInv
<1>4. Cardinality(InUse') = Cardinality(matched')
  <2>1. PICK added \in Indices : added \notin InUse /\ InUse' = InUse \cup {added}
    BY OneMoreInUse DEF Kept, IInv
  <2>2. IsFiniteSet(InUse)
    BY IndicesFinite, FS_Subset DEF InUse
  <2>3. Cardinality(InUse') = Cardinality(InUse) + 1
    BY <2>1, <2>2, FS_AddElement
  <2>4. Cardinality(matched') = Cardinality(matched) + 1
    BY <1>1, <1>2, FS_AddElement
  <2> QED BY <1>3, <2>3, <2>4 DEF IInv, Counted
<1>5. ASSUME NEW id \in Ids
      PROVE  Cardinality(AtNow(id)) = Cardinality(OfNow(id))
  <2>1. Cardinality(At(id)) = Cardinality(Of(id))
    BY <1>3 DEF IInv, Counted
  <2>2. IsFiniteSet(At(id)) /\ IsFiniteSet(Of(id))
    BY <1>1, IndicesFinite, FS_Subset
  <2>3. id # NoFd
    BY DEF Ids, NoFd
  <2>4. ~ (free \in At(id))
    BY <1>3, <2>3 DEF Used
  <2>5. CASE id = fd
    <3>1. OfNow(id) = Of(id) \cup {new} /\ new \notin Of(id)
      BY <1>2, <2>5
    <3>2. Cardinality(OfNow(id)) = Cardinality(Of(id)) + 1
      BY <2>2, <3>1, FS_AddElement
    <3>3. CASE table[cur].fd = id
      <4>1. Used(cur) /\ cur # free
        BY <1>3, <2>3, <3>3 DEF Used
      <4>2. AtNow(id) = At(id) \cup {free}
        <5>1. \A i \in Indices : table'[i].fd = id <=> table[i].fd = id \/ i = free
          BY <1>3, <2>5, <3>3, <4>1
        <5> QED BY <1>3, <5>1
      <4>3. Cardinality(AtNow(id)) = Cardinality(At(id)) + 1
        BY <2>2, <2>4, <4>2, FS_AddElement
      <4> QED BY <2>1, <3>2, <4>3
    <3>4. CASE table[cur].fd # id
      <4>1. AtNow(id) = At(id) \cup {cur} /\ cur \notin At(id)
        <5>1. \A i \in Indices : table'[i].fd = id <=> table[i].fd = id \/ i = cur
          BY <1>3, <2>3, <2>5, <3>4 DEF Used
        <5> QED BY <1>3, <3>4, <5>1
      <4>2. Cardinality(AtNow(id)) = Cardinality(At(id)) + 1
        BY <2>2, <4>1, FS_AddElement
      <4> QED BY <2>1, <3>2, <4>2
    <3> QED BY <3>3, <3>4
  <2>6. CASE id # fd
    <3>1. OfNow(id) = Of(id)
      BY <2>6
    <3>2. CASE table[cur].fd = id
      <4>1. Used(cur) /\ cur # free
        BY <1>3, <2>3, <3>2 DEF Used
      <4>2. AtNow(id) = (At(id) \ {cur}) \cup {free}
        <5>1. \A i \in Indices : table'[i].fd = id <=> (table[i].fd = id /\ i # cur) \/ i = free
          BY <1>3, <2>6, <3>2, <4>1
        <5> QED BY <1>3, <5>1
      <4>3. cur \in At(id)
        BY <1>3, <3>2
      <4> PICK rest : rest = At(id) \ {cur}
        OBVIOUS
      <4>4. IsFiniteSet(rest) /\ Cardinality(rest) = Cardinality(At(id)) - 1
        BY <2>2, <4>3, FS_RemoveElement
      <4>5. free \notin rest
        BY <2>4
      <4>6. Cardinality(rest \cup {free}) = Cardinality(rest) + 1
        BY <4>4, <4>5, FS_AddElement
      <4>7. Cardinality(At(id)) \in Nat
        BY <2>2, FS_CardinalityType
      <4>8. AtNow(id) = rest \cup {free}
        BY <4>2
      <4>9. Cardinality(rest) + 1 = Cardinality(At(id))
        BY <4>4, <4>7
      <4>10. Cardinality(AtNow(id)) = Cardinality(At(id))
        BY <4>6, <4>8, <4>9, Zenon
      <4> QED BY <2>1, <3>1, <4>10, Zenon
    <3>3. CASE table[cur].fd # id
      <4>1. AtNow(id) = At(id)
        <5>1. \A i \in Indices : table'[i].fd = id <=> table[i].fd = id
          BY <1>3, <2>3, <2>6, <3>3 DEF Used
        <5> QED BY <5>1
      <4> QED BY <2>1, <3>1, <4>1
    <3> QED BY <3>2, <3>3
  <2> QED BY <2>5, <2>6
<1> QED BY <1>3, <1>4, <1>5 DEF Counted

LEMMA Initially == Init => IInv
<1> SUFFICES ASSUME Init
             PROVE  IInv
  OBVIOUS
<1>1. PICK n \in 1 .. MaxRequests : requests \in [1 .. n -> Request]
  BY DEF Init, Request
<1>2. /\ host = <<>> /\ pc = "scan" /\ r = 1 /\ fd = NoFd
      /\ info = [id |-> 0, name |-> None] /\ last = 0
      /\ table = [i \in Indices |-> Empty] /\ buffers = <<>> /\ held = None /\ matched = {}
  BY DEF Init
<1>3. Empty \in Entry
  BY DEF Empty, Entry, Fds
<1>4. \A i \in Indices : table[i] = Empty /\ table[i].fd = NoFd /\ ~ Used(i) /\ table[i].pool = 0
  BY <1>2 DEF Empty, Used
<1>5. 0 \in Indices
  BY DEF Indices
<1>6. Types
  <2>1. \A s \in DOMAIN requests : s \in Nat /\ requests[s] \in Request
    BY <1>1
  <2> QED BY <1>2, <1>3, <1>4, <1>5, <2>1 DEF Types
<1>7. Scanned
  BY <1>2 DEF Scanned
<1>8. Matches
  BY <1>2, FS_EmptySet DEF Matches
<1>9. Filled
  BY <1>2, <1>4 DEF Filled, Indices
<1>10. InUse = {}
  BY <1>4 DEF InUse
<1>11. Counted
  <2>1. \A id \in Ids : /\ {i \in Indices : table[i].fd = id} = {}
                        /\ {m \in matched : m[1] = id} = {}
    BY <1>2, <1>4 DEF Ids, NoFd
  <2> QED BY <1>2, <1>10, <2>1 DEF Counted
<1> QED BY <1>2, <1>4, <1>6, <1>7, <1>8, <1>9, <1>10, <1>11
        DEF IInv, Table, Whole, PoolsApart, Placed, InOrder, Held

(***************************************************************************)
(* The steps.                                                              *)
(***************************************************************************)
LEMMA NextMapStep ==
  ASSUME IInv, NEW name \in Names \cup {"another"}, NextMap(name)
  PROVE  IInv'
<1>1. /\ pc = "scan" /\ pc' = "match" /\ r' = 1
      /\ host' = Append(host, name) /\ Len(host) < MaxMaps
      /\ fd' = BadFd \/ (fd' = Len(host) + 1)
      /\ UNCHANGED <<requests, last, table, buffers, held, matched>>
  BY DEF NextMap, Seen
<1>2. /\ host \in Seq(Names \cup {"another"}) /\ Len(host) \in 0 .. MaxMaps
      /\ Len(host') = Len(host) + 1 /\ host' \in Seq(Names \cup {"another"})
      /\ host'[Len(host')] = name /\ \A i \in 1 .. Len(host) : host'[i] = host[i]
  BY <1>1 DEF IInv, Table, Types
<1>3. held = None
  BY <1>1 DEF IInv, Table, Types
<1>4. Types'
  BY <1>1, <1>2, <1>3 DEF IInv, Table, Types
<1>5. Scanned'
  <2>1. CASE fd' = Seen /\ info' = [id |-> Seen, name |-> name]
    BY <1>1, <1>2, <2>1 DEF Scanned, Seen
  <2>2. CASE fd' = BadFd /\ info' = info
    BY <1>1, <1>2, <2>2 DEF IInv, Table, Scanned
  <2> QED BY <2>1, <2>2 DEF NextMap
<1>6. Matches'
  BY <1>1, <1>2 DEF IInv, Table, Matches
<1>7. Filled'
  BY <1>1 DEF IInv, Table, Filled, Used
<1>8. Whole'
  <2>1. SUFFICES ASSUME NEW i \in InUse
                 PROVE  WholeAt(i)'
    BY <1>1 DEF Whole, InUse, Used
  <2>2. WholeAt(i)
    BY <1>1 DEF IInv, Whole
  <2> QED BY <1>1, <1>2, <2>2 DEF WholeAt
<1>9. PoolsApart' /\ Counted' /\ Placed' /\ InOrder' /\ Held'
  BY <1>1, <1>3 DEF IInv, PoolsApart, Counted, Placed, Alone, InOrder, Unplaced, Held, InUse, Used
<1> QED BY <1>4, <1>5, <1>6, <1>7, <1>8, <1>9 DEF IInv, Table

LEMMA NextRequestStep == IInv /\ NextRequest => IInv'
<1> SUFFICES ASSUME IInv, NextRequest
             PROVE  IInv'
  OBVIOUS
<1>1. /\ pc = "match" /\ pc' \in {"match", "scan"} /\ r' \in {r + 1, 1}
      /\ pc' = "match" => r' = r + 1
      /\ UNCHANGED <<requests, host, fd, info, last, table, buffers, held, matched>>
  BY DEF NextRequest
<1>2. Types'
  BY <1>1 DEF IInv, Table, Types
<1>3. Scanned'
  BY <1>1 DEF IInv, Table, Scanned
<1>4. Matches'
  BY <1>1 DEF IInv, Table, Matches, Types
<1>5. Filled' /\ Whole' /\ PoolsApart' /\ Counted' /\ Placed' /\ InOrder'
  BY <1>1 DEF IInv, Table, Filled, Whole, WholeAt, PoolsApart, Counted, Placed, Alone, InOrder,
              Unplaced, InUse, Used
<1>6. Held'
  BY <1>1 DEF IInv, Held, InUse, Used
<1> QED BY <1>2, <1>3, <1>4, <1>5, <1>6 DEF IInv, Table

LEMMA OverflowStep == IInv /\ Overflow => IInv'
<1> SUFFICES ASSUME IInv, Overflow
             PROVE  IInv'
  OBVIOUS
<1>1. /\ pc = "match" /\ pc' = "overflow"
      /\ FreeFrom(last) = {} \/ requests[r].index = Beyond
      /\ UNCHANGED <<requests, host, r, fd, info, last, table, buffers, held, matched>>
  BY DEF Overflow, Fits
<1>2. Types'
  BY <1>1 DEF IInv, Table, Types
<1>3. Scanned' /\ Matches' /\ Filled'
  BY <1>1 DEF IInv, Table, Scanned, Matches, Filled, Used
<1>4. Whole' /\ PoolsApart' /\ Placed' /\ InOrder' /\ Held'
  BY <1>1 DEF IInv, Whole, WholeAt, PoolsApart, Placed, Alone, InOrder, Unplaced, Held, InUse, Used
<1>5. FreeFrom(last) = {} => InUse = Indices
  BY DEF FreeFrom, InUse, Used, Indices, IInv, Table, Types, Filled
<1>6. Counted'
  BY <1>1, <1>5 DEF IInv, Counted, InUse, Used
<1> QED BY <1>2, <1>3, <1>4, <1>6 DEF IInv, Table

LEMMA KeepStep == IInv /\ Keep => IInv'
<1> SUFFICES ASSUME IInv, Keep
             PROVE  IInv'
  OBVIOUS
<1>1. PICK free \in Indices, cur \in Indices, area \in Ids \cup {0} :
           /\ Kept(free, cur, Len(buffers) + 1, area)
           /\ area \in {0, fd}
           /\ buffers' = Append(buffers, info.id) /\ pc' = pc /\ r' = r + 1
           /\ matched' = matched \cup {<<fd, r, Len(host)>>}
  BY KeepIs DEF IInv
<1>2. /\ pc = "match" /\ info.id \in Ids /\ r \in Nat
      /\ UNCHANGED <<requests, host, fd, info, held>>
  BY <1>1, MatchIs DEF Kept, Matching, IInv, Table, Types
<1>3. buffers' \in Seq(Ids) /\ Len(buffers') = Len(buffers) + 1 /\ Len(buffers) \in Nat
  BY <1>1, <1>2 DEF IInv, Table, Types
<1>4. Types' /\ Filled'
  BY <1>1, <1>2, <1>3, KeptTypes
<1>5. Scanned'
  BY <1>1, <1>2 DEF IInv, Table, Scanned
<1>6. Matches' /\ Placed' /\ InOrder'
  BY <1>1, KeptMatches
<1>7. Whole' /\ PoolsApart'
  BY <1>1, KeptWhole
<1>8. Counted'
  BY <1>1, KeptCounts
<1>9. Held'
  BY <1>1, <1>2 DEF IInv, Table, Types, Held
<1> QED BY <1>4, <1>5, <1>6, <1>7, <1>8, <1>9 DEF IInv, Table

LEMMA KeepFailsStep == IInv /\ KeepFails => IInv'
<1> SUFFICES ASSUME IInv, KeepFails
             PROVE  IInv'
  OBVIOUS
<1>1. PICK free \in Indices, cur \in Indices, pool \in Nat, area \in Ids \cup {0} :
           /\ Kept(free, cur, pool, area)
           /\ pool <= Len(buffers)
           /\ UNCHANGED <<r, buffers, matched>> /\ pc' = "failed"
  BY KeepFailsIs DEF IInv
<1>2. /\ pc = "match" /\ r \in Nat /\ UNCHANGED <<requests, host, fd, info, held>>
      /\ buffers \in Seq(Ids) /\ Len(buffers) \in Nat
  BY <1>1 DEF Kept, Matching, IInv, Table, Types
<1>3. Types' /\ Filled'
  BY <1>1, <1>2, KeptTypes
<1>4. Scanned'
  BY <1>1, <1>2 DEF IInv, Table, Scanned
<1>5. Matches' /\ Placed' /\ InOrder'
  BY <1>1, KeptMatches
<1>6. Held'
  BY <1>1, <1>2 DEF IInv, Table, Types, Held
<1> QED BY <1>1, <1>3, <1>4, <1>5, <1>6 DEF IInv, Table, Whole, PoolsApart, Counted

LEMMA ReadyStep == IInv /\ Ready => IInv'
<1> SUFFICES ASSUME IInv, Ready
             PROVE  IInv'
  OBVIOUS
<1>1. /\ pc = "scan" /\ pc' = "ready" /\ r' = 1 /\ last' = 0
      /\ info' = [id |-> 0, name |-> None]
      /\ UNCHANGED <<requests, host, table, buffers, held, matched>>
  BY DEF Ready
<1>2. Types'
  BY <1>1 DEF IInv, Table, Types, Indices
<1>3. Scanned'
  BY <1>1 DEF Scanned
<1>4. Matches'
  BY <1>1 DEF IInv, Table, Matches
<1>5. Filled'
  BY <1>1 DEF IInv, Table, Filled, Used, Indices
<1>6. Whole' /\ PoolsApart' /\ Counted' /\ Placed' /\ InOrder' /\ Held'
  BY <1>1 DEF IInv, Whole, WholeAt, PoolsApart, Counted, Placed, Alone, InOrder, Unplaced, Held,
              InUse, Used
<1> QED BY <1>2, <1>3, <1>4, <1>5, <1>6 DEF IInv, Table

\* No lookup at another index writes the buffer a pointer is into.
LEMMA LookupStep ==
  ASSUME IInv, NEW i \in Indices, NEW key, LookupAt(i, key)
  PROVE  IInv'
<1>1. /\ pc = "ready"
      /\ UNCHANGED <<requests, host, pc, r, fd, info, last, table, buffers, matched>>
  BY DEF LookupAt
<1>2. Types' /\ Scanned' /\ Matches' /\ Filled'
  BY <1>1 DEF IInv, Table, Types, Scanned, Matches, Filled, Used
<1>3. Whole' /\ PoolsApart' /\ Counted' /\ Placed' /\ InOrder'
  BY <1>1 DEF IInv, Whole, WholeAt, PoolsApart, Counted, Placed, Alone, InOrder, Unplaced,
              InUse, Used
<1>4. ASSUME NEW buffer, NEW value, Use(i, key, buffer, value), i \in InUse,
             buffer \in {0, table[i].pool},
             \/ value = <<table[i].fd, key>>
             \/ buffer = 0 /\ ~ Reaches(table[i].fd, table[i].fd, key)
      PROVE  Held'
  <2>1. SUFFICES ASSUME held' # None
                 PROVE  /\ held'.index \in InUse
                        /\ held'.buffer = 0 \/ held'.buffer = table[held'.index].pool
                        /\ \/ held'.shows = <<table[held'.index].fd, held'.key>>
                           \/ /\ held'.buffer = 0
                              /\ ~ Reaches(table[held'.index].fd, table[held'.index].fd, held'.key)
    BY <1>1 DEF Held, InUse, Used, Reaches
  <2>2. CASE held' = [index |-> i, key |-> key, buffer |-> buffer, shows |-> value]
    BY <1>4, <2>2
  <2>3. CASE /\ held # None /\ held.index # i
             /\ held' = IF buffer # 0 /\ held.buffer = buffer
                        THEN [held EXCEPT !.shows = value] ELSE held
    <3>1. /\ held.index \in InUse
          /\ held.buffer = 0 \/ held.buffer = table[held.index].pool
          /\ \/ held.shows = <<table[held.index].fd, held.key>>
             \/ held.buffer = 0 /\ ~ Reaches(table[held.index].fd, table[held.index].fd, held.key)
      BY <2>3 DEF IInv, Held
    <3>2. table[held.index].pool # table[i].pool
      BY <1>1, <1>4, <2>3, <3>1 DEF IInv, PoolsApart
    <3>3. held' = held
      BY <1>4, <2>3, <3>1, <3>2
    <3> QED BY <3>1, <3>3
  <2> QED BY <1>4, <2>2, <2>3 DEF Use
<1>5. i \in InUse \/ (table[i].area = 0 /\ table[i].pool = 0)
  BY DEF IInv, Table, Filled, Empty, InUse, Used
<1>6. i \in InUse /\ table[i].area # 0 => table[i].area = table[i].fd /\ table[i].area = table[i].size
  <2>1. i \in InUse => WholeAt(i) /\ table[i].area \in Ids \cup {0}
    BY <1>1 DEF IInv, Whole, Table, Types, Entry
  <2> QED BY <2>1 DEF WholeAt, Ids, BadFd
<1>7. CASE LookupMapped(i, key)
  <2> PICK id : id = table[i].fd
    OBVIOUS
  <2>1. i \in InUse /\ table[i].area = id /\ table[i].size = id
    BY <1>5, <1>6, <1>7 DEF LookupMapped
  <2>2. \E value : /\ Use(i, key, 0, value)
                   /\ value = <<id, key>> \/ ~ Reaches(id, id, key)
    BY <1>7, <2>1 DEF LookupMapped
  <2> QED BY <1>2, <1>3, <1>4, <2>1, <2>2 DEF IInv, Table
<1>8. CASE LookupCopied(i, key)
  <2>1. i \in InUse /\ Use(i, key, table[i].pool, <<table[i].fd, key>>)
    BY <1>5, <1>8 DEF LookupCopied
  <2> QED BY <1>2, <1>3, <1>4, <2>1 DEF IInv, Table
<1> QED BY <1>7, <1>8 DEF LookupAt

LEMMA IndexOfIs ==
  ASSUME NEW name
  PROVE  IndexOf(name) = -1 \/ IndexOf(name) \in Indices
<1> DEFINE ends == {i \in Indices : table[i].name \in {name, None}}
<1>1. ends \in SUBSET Nat
  BY DEF Indices
<1>2. ends # {} => Min(ends) \in Indices
  BY <1>1, MinIsLeast
<1>3. IndexOf(name) = IF ends # {} /\ table[Min(ends)].name = name THEN Min(ends) ELSE -1
  BY DEF IndexOf
<1> QED BY <1>2, <1>3

LEMMA Inductive == IInv /\ [Next]_vars => IInv'
<1> SUFFICES ASSUME IInv, [Next]_vars
             PROVE  IInv'
  OBVIOUS
<1>1. ASSUME NEW name \in Names \cup {"another"}, NextMap(name)
      PROVE  IInv'
  BY <1>1, NextMapStep
<1>2. CASE NextRequest
  BY <1>2, NextRequestStep
<1>3. CASE Overflow
  BY <1>3, OverflowStep
<1>4. CASE Keep
  BY <1>4, KeepStep
<1>5. CASE KeepFails
  BY <1>5, KeepFailsStep
<1>6. CASE Ready
  BY <1>6, ReadyStep
<1>7. ASSUME NEW key \in Keys, NEW name \in Names, ubpf_map_lookup_elem_kern(name, key)
      PROVE  IInv'
  <2> PICK i : i = IndexOf(name)
    OBVIOUS
  <2>1. i \in Indices /\ LookupAt(i, key)
    BY <1>7, IndexOfIs DEF ubpf_map_lookup_elem_kern
  <2> QED BY <2>1, LookupStep
<1>8. ASSUME NEW key \in Keys, NEW i \in Indices, ubpf_map_lookup_elem_kern_fast(i, key)
      PROVE  IInv'
  BY <1>8, LookupStep DEF ubpf_map_lookup_elem_kern_fast
<1>9. CASE UNCHANGED vars
  <2>1. UNCHANGED <<requests, host, pc, r, fd, info, last, table, buffers, held, matched>>
    BY <1>9 DEF vars
  <2>2. InUse' = InUse /\ \A i : Used(i)' <=> Used(i)
    BY <2>1 DEF InUse, Used
  <2>3. Table'
    BY <2>1, <2>2 DEF IInv, Table, Types, Scanned, Matches, Filled
  <2>4. Whole' /\ PoolsApart'
    BY <2>1, <2>2 DEF IInv, Whole, WholeAt, PoolsApart
  <2>5. Counted'
    BY <2>1, <2>2 DEF IInv, Counted
  <2>6. Placed' /\ InOrder' /\ Held'
    BY <2>1, <2>2 DEF IInv, Placed, Alone, InOrder, Unplaced, Held
  <2> QED BY <2>3, <2>4, <2>5, <2>6 DEF IInv
<1> QED BY <1>1, <1>2, <1>3, <1>4, <1>5, <1>6, <1>7, <1>8, <1>9 DEF Next

LEMMA InvariantHolds == Spec => []IInv
BY Initially, Inductive, PTL DEF Spec

(***************************************************************************)
(* Each entry belongs to one map, whatever made room for it                *)
(* (setup_map_system, map.c:118).                                          *)
(***************************************************************************)
THEOREM EntriesAreWhole == Spec => []EntriesWhole
<1>1. IInv => EntriesWhole
  <2> SUFFICES ASSUME IInv
               PROVE  EntriesWhole
    OBVIOUS
  <2>1. Len(buffers) \in Nat /\ table \in [Indices -> Entry]
    BY DEF IInv, Table, Types
  <2>2. ASSUME NEW i \in Indices
        PROVE  table[i] \in [fd : Fds, name : Names \cup {None}, size : Ids \cup {0},
                             pool : 0 .. Len(buffers), area : Ids \cup {0}]
    <3>1. table[i] \in Entry /\ table[i].pool <= Len(buffers)
      BY <2>1 DEF IInv, Table, Types
    <3> QED BY <2>1, <3>1 DEF Entry
  <2>3. TypeOK
    BY <2>1, <2>2 DEF TypeOK, IInv, Table, Types
  <2>4. ASSUME pc # "failed", NEW i \in Indices
        PROVE  LET e  == table[i]
                   id == IF e.fd = BadFd THEN e.size ELSE e.fd
               IN  IF e.fd = NoFd THEN e = Empty
                   ELSE /\ id \in Ids /\ e.pool # 0
                        /\ e.name = host[id] /\ e.size = id /\ buffers[e.pool] = id
                        /\ e.area \in {0, e.fd}
    <3>1. CASE table[i].fd = NoFd
      BY <3>1 DEF IInv, Table, Filled, Used
    <3>2. CASE table[i].fd # NoFd
      <4>1. WholeAt(i)
        BY <2>4, <3>2 DEF IInv, Whole, InUse, Used
      <4>2. Len(host) \in 0 .. MaxMaps
        BY DEF IInv, Table, Types
      <4> QED BY <3>2, <4>1, <4>2 DEF WholeAt, Ids
    <3> QED BY <3>1, <3>2
  <2> QED BY <2>3, <2>4 DEF EntriesWhole
<1> QED BY <1>1, InvariantHolds, PTL

(***************************************************************************)
(* A map is kept as often as requests matched it, and the arrays are left  *)
(* only when all of them is in use (map.c:104) or at an index outside them *)
(* that a request names (map.c:114).                                       *)
(***************************************************************************)
THEOREM MatchesAreKeptOnce == Spec => []KeptOnce
<1>1. IInv => KeptOnce
  <2> SUFFICES ASSUME IInv
               PROVE  KeptOnce
    OBVIOUS
  <2>1. pc = "overflow" => Cardinality(matched) = MAX_NR_MAPS \/ requests[r].index = Beyond
    BY IndicesFinite DEF IInv, Counted
  <2>2. pc = "overflow" => Cardinality(matched) >= MAX_NR_MAPS \/ requests[r].index = Beyond
    BY <2>1
  <2> QED BY <2>2 DEF IInv, Counted, KeptOnce
<1> QED BY <1>1, InvariantHolds, PTL

(***************************************************************************)
(* An index that one request alone names keeps the name it asked for       *)
(* (README.md:128, map.c:117).                                             *)
(***************************************************************************)
THEOREM IndicesAreHonoured == Spec => []IndexHonoured
<1>1. IInv => IndexHonoured
  <2> SUFFICES ASSUME IInv, NEW m \in matched, Alone(m[2])
               PROVE  table[requests[m[2]].index].name = requests[m[2]].name
    BY DEF Alone, IndexHonoured
  <2> QED BY DEF IInv, Placed
<1> QED BY <1>1, InvariantHolds, PTL

(***************************************************************************)
(* Without indices on the command line the table has no gaps, and          *)
(* _get_map_fd_and_idx, which stops at the first unused index, finds every *)
(* map that was kept (map.c:162).                                          *)
(***************************************************************************)
THEOREM UnplacedAreFound == Spec => []UnplacedFound
<1>1. IInv => UnplacedFound
  <2> SUFFICES ASSUME IInv, Unplaced, NEW m \in matched
               PROVE  IndexOf(requests[m[2]].name) # -1
    BY DEF UnplacedFound, AllFound, Unplaced
  <2> PICK name : name = requests[m[2]].name
    OBVIOUS
  <2> DEFINE ends == {i \in Indices : table[i].name \in {name, None}}
  <2>1. PICK at \in Indices : Used(at) /\ table[at].name = name
    BY DEF IInv, InOrder, InUse
  <2>2. ends \in SUBSET Nat /\ at \in ends
    BY <2>1 DEF Indices
  <2>3. PICK least \in Indices : least \in ends /\ least = Min(ends) /\ least <= at
    <3>1. ends # {}
      BY <2>2
    <3> HIDE DEF ends
    <3>2. Min(ends) \in ends /\ \A x \in ends : Min(ends) <= x
      BY <2>2, <3>1, MinIsLeast
    <3>3. Min(ends) <= at
      BY <2>2, <3>2, Zenon
    <3>4. Min(ends) \in Indices
      BY <3>2, Zenon DEF ends
    <3> QED BY <3>2, <3>3, <3>4, Zenon
  <2>4. Used(least)
    <3>1. least <= at
      BY <2>3, Zenon
    <3>2. least < at \/ least = at
      BY <3>1 DEF Indices
    <3> QED BY <2>1, <3>2 DEF IInv, InOrder
  <2>5. table[least].name \in Names
    BY <2>4 DEF IInv, Table, Filled
  <2>6. table[least].name = name
    <3>1. table[least].name \in {name, None}
      BY <2>3, Zenon
    <3>2. None \notin Names
      BY MapAssumption
    <3> QED BY <2>5, <3>1, <3>2
  <2>7. IndexOf(name) = least
    <3>1. ends # {} /\ table[Min(ends)].name = name /\ Min(ends) = least
      BY <2>3, <2>6, Zenon
    <3>2. IndexOf(name) = (IF ends # {} /\ table[Min(ends)].name = name THEN Min(ends) ELSE -1)
      BY Zenon DEF IndexOf
    <3> HIDE DEF ends
    <3> QED BY <3>1, <3>2, Zenon
  <2>8. least \in Nat
    BY DEF Indices
  <2> QED BY <2>7, <2>8
<1> QED BY <1>1, InvariantHolds, PTL

(***************************************************************************)
(* "Returns pointer to the value" (map.h:23): a pointer to a key that the  *)
(* sum of map.c:259 reaches, or to a copy, shows its value, and nothing a  *)
(* program looks up elsewhere changes that (map.c:261).                    *)
(***************************************************************************)
THEOREM PointersKeepShowing == Spec => []PointersHold
<1>1. IInv => PointersHold
  BY DEF IInv, Held, PointersHold
<1> QED BY <1>1, InvariantHolds, PTL
===============================================================================
