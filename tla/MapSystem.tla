------------------------------- MODULE MapSystem -------------------------------
(***************************************************************************)
(* The map system of src/map.c.  setup_map_system goes through the BPF     *)
(* maps of the host and keeps those whose names were requested, each at    *)
(* the index the request names or at the next free one; a map that is      *)
(* there already makes room.  A kernel map is its place in the order of    *)
(* ids, with a name; the value size and the mapped area kept with it are   *)
(* each the map they were taken from, and a value buffer is its place in   *)
(* the order of allocations.  Once all is set up, a program looks values   *)
(* up and goes on using a pointer it was given.  A key stands for its      *)
(* value as a number, the place of its entry in an array map.              *)
(***************************************************************************)
EXTENDS Integers, Sequences, FiniteSetsExt

CONSTANTS
  Names,
  Keys,          \* of the entries of the maps
  Padded,        \* maps whose value size is no multiple of 8: the kernel keeps the
                 \* values of an array map at the next multiple apart
  Entries,       \* max_entries of each map
  None,          \* NULL
  MAX_NR_MAPS,
  MaxRequests,   \* bound: requests on the command line
  MaxMaps        \* bound: maps on the host

ASSUME MapAssumption ==
  /\ MAX_NR_MAPS \in Nat \ {0} /\ MaxRequests \in 0 .. MAX_NR_MAPS /\ MaxMaps \in Nat
  /\ None \notin Names
  /\ Keys \subseteq Nat /\ Padded \subseteq 1 .. MaxMaps /\ Entries \in [1 .. MaxMaps -> Nat]

VARIABLES
  requests,      \* names and req_index
  host,          \* the names of the maps of the host that were seen, in order
  pc, r,         \* where setup_map_system is, and its i
  fd, info,      \* map_fd and map_info
  last,          \* lastGlobalIndex
  table,         \* map_fds, map_names, map_value_size, map_value_pool, mmap_area
  buffers,       \* for each value buffer allocated, the map whose value size it has
  held,          \* a pointer the program got from a lookup and still uses, with what
                 \* is behind it now: the map and the key of a value
  matched        \* history: which map, if it could be opened, was kept for which
                 \* request, and when

vars == <<requests, host, pc, r, fd, info, last, table, buffers, held, matched>>

Indices == 0 .. MAX_NR_MAPS - 1
Ids     == 1 .. MaxMaps
Anywhere == -1
\* Any other number atoi may return: none of the arrays has such an index.
Beyond   == MAX_NR_MAPS
NoFd     == 0
BadFd    == -1

Empty == [fd |-> NoFd, name |-> None, size |-> 0, pool |-> 0, area |-> 0]

Init ==
  /\ requests \in UNION {[1 .. n -> [name : Names, index : Indices \cup {Anywhere, Beyond}]] :
                           n \in 1 .. MaxRequests}
  /\ host = <<>>
  /\ pc = "scan" /\ r = 1
  /\ fd = NoFd /\ info = [id |-> 0, name |-> None]
  /\ last = 0
  /\ table = [i \in Indices |-> Empty]
  /\ buffers = <<>>
  /\ held = None
  /\ matched = {}

(***************************************************************************)
(* setup_map_system.                                                       *)
(***************************************************************************)
Seen == Len(host) + 1

\* The next map, of any name.  If it is gone by now, or descriptors have run
\* out, fd is -1 and map_info stays what it was.
NextMap(name) ==
  /\ pc = "scan" /\ Len(host) < MaxMaps
  /\ host' = Append(host, name)
  /\ \/ fd' = Seen /\ info' = [id |-> Seen, name |-> name]
     \/ fd' = BadFd /\ UNCHANGED info
  /\ pc' = "match" /\ r' = 1
  /\ UNCHANGED <<requests, last, table, buffers, held, matched>>

Requested == r \in DOMAIN requests /\ requests[r].name = info.name

NextRequest ==
  /\ pc = "match" /\ ~ Requested
  /\ \/ r \in DOMAIN requests /\ r' = r + 1 /\ pc' = pc
     \/ r \notin DOMAIN requests /\ r' = 1 /\ pc' = "scan"
  /\ UNCHANGED <<requests, host, fd, info, last, table, buffers, held, matched>>

FreeFrom(i) == {j \in Indices : j >= i /\ table[j].fd = NoFd}

\* There is room for what was matched, and the index requested is one there is.
Fits == FreeFrom(last) # {} /\ requests[r].index # Beyond

\* map_fds is read past its end, or where the request says; nothing checks
\* either, and what follows is undefined.
Overflow ==
  /\ pc = "match" /\ Requested /\ ~ Fits
  /\ pc' = "overflow"
  /\ UNCHANGED <<requests, host, r, fd, info, last, table, buffers, held, matched>>

\* Mutant: the request is placed at the free index whatever it names.
CurIndexFree(free) == free

CurIndex(free) == IF requests[r].index = Anywhere THEN free ELSE requests[r].index

\* Mutants: the buffer is not moved; nothing is moved.
MadeRoomNotPool(free, cur) ==
  IF table[cur].fd = NoFd THEN table
  ELSE [table EXCEPT ![free] = [table[cur] EXCEPT !.pool = 0]]

MadeRoomNever(free, cur) == table

\* What is at the index requested goes to the free one.
MadeRoom(free, cur) ==
  IF table[cur].fd = NoFd THEN table ELSE [table EXCEPT ![free] = table[cur]]

\* The requested map takes its index; what was there has moved.
Place(pool, area) ==
  LET free == Min(FreeFrom(last))
      cur  == CurIndex(free)
  IN  /\ last' = free
      /\ table' = [MadeRoom(free, cur) EXCEPT
                     ![cur] = [fd |-> fd, name |-> requests[r].name, size |-> info.id,
                               pool |-> pool, area |-> area]]

\* Mutant: a buffer that is at the index already is used again.
BufferKept(i) == IF table[i].pool # 0 THEN table[i].pool ELSE Len(buffers) + 1

\* The buffer that malloc returns for index i.
BufferFor(i) == Len(buffers) + 1

\* mmap succeeds or not.
Keep ==
  /\ pc = "match" /\ Requested /\ Fits
  /\ buffers' = Append(buffers, info.id)
  /\ LET buffer == BufferFor(CurIndex(Min(FreeFrom(last)))) IN
     \E area \in {0} \cup ({fd} \ {BadFd}) : Place(buffer, area)
  /\ matched' = matched \cup {<<fd, r, Len(host)>>}
  /\ r' = r + 1
  /\ UNCHANGED <<requests, host, pc, fd, info, held>>

\* Without memory for the buffer the pointers of the entry stay as they were.
KeepFails ==
  /\ pc = "match" /\ Requested /\ Fits
  /\ LET was == table[CurIndex(Min(FreeFrom(last)))] IN Place(was.pool, was.area)
  /\ pc' = "failed"
  /\ UNCHANGED <<requests, host, r, fd, info, buffers, held, matched>>

\* ENOENT, or another error, which ends the scan the same way: the locals are
\* gone.
Ready ==
  /\ pc = "scan"
  /\ pc' = "ready"
  /\ r' = 1 /\ fd' = NoFd /\ info' = [id |-> 0, name |-> None] /\ last' = 0
  /\ UNCHANGED <<requests, host, table, buffers, held, matched>>

(***************************************************************************)
(* The helpers of the programs.  ubpf_map_update_elem_kern and             *)
(* ubpf_map_elem_release change nothing here.                              *)
(***************************************************************************)
\* Mutant: the search ends one index short.
IndexOfShort(name) ==
  LET ends == {i \in 0 .. MAX_NR_MAPS - 2 : table[i].name \in {name, None}} IN
  IF ends # {} /\ table[Min(ends)].name = name THEN Min(ends) ELSE -1

\* _get_map_fd_and_idx: the first index with the name, before any unused one.
IndexOf(name) ==
  LET ends == {i \in Indices : table[i].name \in {name, None}} IN
  IF ends # {} /\ table[Min(ends)].name = name THEN Min(ends) ELSE -1

\* The program uses the pointer of this lookup, or goes on with one it got for
\* another map; the value copied may be behind that one too.
Use(i, key, buffer, value) ==
  \/ held' = [index |-> i, key |-> key, buffer |-> buffer, shows |-> value]
  \/ /\ held # None /\ held.index # i
     /\ held' = IF buffer # 0 /\ held.buffer = buffer
                THEN [held EXCEPT !.shows = value] ELSE held

\* key times the value size kept is where the value of that key begins.
Reaches(map, size, key) == (key = 0 \/ (size = map /\ map \notin Padded)) /\ key < Entries[map]

\* What is elsewhere in the area of the map, or past its end, is no value.
Astray == -1

LookupMapped(i, key) ==
  /\ table[i].area # 0
  /\ LET value == IF Reaches(table[i].area, table[i].size, key) THEN key ELSE Astray IN
     Use(i, key, 0, <<table[i].area, value>>)

\* The kernel copies the value to the buffer of the map, if there is one.
LookupCopied(i, key) ==
  /\ table[i].area = 0 /\ table[i].pool # 0
  /\ table[i].fd # BadFd
  /\ Use(i, key, table[i].pool, <<table[i].fd, key>>)

\* A lookup that returns NULL changes nothing.
LookupAt(i, key) ==
  /\ pc = "ready"
  /\ LookupMapped(i, key) \/ LookupCopied(i, key)
  /\ UNCHANGED <<requests, host, pc, r, fd, info, last, table, buffers, matched>>

ubpf_map_lookup_elem_kern(name, key) == IndexOf(name) # -1 /\ LookupAt(IndexOf(name), key)

ubpf_map_lookup_elem_kern_fast(index, key) == LookupAt(index, key)

Next ==
  \/ \E n \in Names \cup {"another"} : NextMap(n)
  \/ NextRequest \/ Overflow \/ Keep \/ KeepFails \/ Ready
  \/ \E key \in Keys :
       \/ \E n \in Names   : ubpf_map_lookup_elem_kern(n, key)
       \/ \E i \in Indices : ubpf_map_lookup_elem_kern_fast(i, key)

Spec == Init /\ [][Next]_vars

(***************************************************************************)
(* Properties.                                                             *)
(***************************************************************************)
Fds == Ids \cup {NoFd, BadFd}

TypeOK ==
  /\ pc \in {"scan", "match", "overflow", "failed", "ready"}
  /\ last \in Indices
  /\ buffers \in Seq(Ids)
  /\ table \in [Indices -> [fd : Fds, name : Names \cup {None}, size : Ids \cup {0},
                            pool : 0 .. Len(buffers), area : Ids \cup {0}]]

(***************************************************************************)
(* However maps make room for one another, what an index keeps belongs to  *)
(* one map: its descriptor, the name it was requested by, its value size,  *)
(* a buffer of that size, and its own mapped area or none (map.c:118).     *)
(* An entry for a map that could not be opened is that of the map before   *)
(* it but for the descriptor.  Only a setup that fails may leave one that  *)
(* is not whole.  (With the types.)                                        *)
(***************************************************************************)
EntriesWhole ==
  /\ TypeOK
  /\ pc # "failed" => \A i \in Indices :
    LET e  == table[i]
        id == IF e.fd = BadFd THEN e.size ELSE e.fd
    IN  IF e.fd = NoFd THEN e = Empty
        ELSE /\ id \in Ids /\ e.pool # 0
             /\ e.name = host[id] /\ e.size = id /\ buffers[e.pool] = id
             /\ e.area \in {0, e.fd}

(***************************************************************************)
(* No match is lost and none is kept twice: a map is at as many indices as *)
(* there are requests it was kept for.  The arrays are left for a match    *)
(* only when all of them is in use, or at an index outside them that its   *)
(* request names (map.c:66 takes any number, map.c:114 uses it).           *)
(***************************************************************************)
KeptOnce ==
  /\ pc # "failed" => \A id \in Ids :
       Cardinality({i \in Indices : table[i].fd = id}) = Cardinality({m \in matched : m[1] = id})
  /\ pc = "overflow" => Cardinality(matched) >= MAX_NR_MAPS \/ requests[r].index = Beyond

(***************************************************************************)
(* "You can define index of each map when starting Servant" (README.md:    *)
(* 128): an index that only one request names has a map of the name it     *)
(* asked for, once one was kept for it.                                    *)
(***************************************************************************)
IndexHonoured ==
  \A m \in matched :
    LET wanted == requests[m[2]].index IN
    wanted # Anywhere /\ (\A s \in DOMAIN requests \ {m[2]} : requests[s].index # wanted)
      => table[wanted].name = requests[m[2]].name

(***************************************************************************)
(* When no request names an index, the helpers find by name every map that *)
(* was kept.                                                               *)
(***************************************************************************)
AllFound == \A m \in matched : IndexOf(requests[m[2]].name) # -1

UnplacedFound == (\A s \in DOMAIN requests : requests[s].index = Anywhere) => AllFound

(***************************************************************************)
(* "Returns pointer to the value" (map.h:23): a pointer keeps showing the  *)
(* value of the map and the key it was asked for until the next lookup at  *)
(* the same index, whatever is looked up at others in between; lookups at  *)
(* one index share a buffer (map.c:261).  A pointer into a mapped area     *)
(* does so if the program kept to the keys the map has, and to the first   *)
(* one if the kernel pads the values: map.c:259 and 282 look at neither.   *)
(***************************************************************************)
PointersHold ==
  held # None =>
    LET id == table[held.index].fd IN
    held.buffer # 0 \/ Reaches(id, id, held.key) => held.shows = <<id, held.key>>
=============================================================================
