# Servant in TLA+

Servant runs packet programs (uBPF) in user space on AF\_XDP sockets, and can
pass packets to an unmodified application over shared memory. This directory
holds TLA+ models of it, the TLC runs that check them on small instances, and
proofs of the most important results for instances of any size. Paths such as
`heart.c` are those of `src/src/`; `src/README.md` is Servant's own README.

PROJECT.json lists components, runs, hazards, theorems and findings, and maps
every definition to the lines it models.

## The system

```
  NIC / kernel                servant process                   application process
 ┌───────────┐  four rings  ┌──────────────────┐  vchannel   ┌──────────────────────┐
 │ fill, rx, │◄────────────►│ heart: pump      │ shared mem  │ interpose (LD_PRELOAD)│
 │ tx, compl.│  sendto,     │  └ program: SEND,│────────────►│  recvfrom, epoll_*    │
 └───────────┘  recvfrom    │    PASS, DROP    │  + llring   │  ensure_init          │
 ┌───────────┐  bpf(2)      │  └ helpers: map  │             └──────────────────────┘
 │ BPF maps  │◄────────────►│ main: lifecycle  │
 └───────────┘              └──────────────────┘
```

| Component | State it keeps | Operations | What is hard | What makes it correct |
|---|---|---|---|---|
| Packet pump, `heart.c` | four AF\_XDP rings shared with the kernel, `outstanding_tx`, the batch, `config.terminate` | `poll_rx_queue`, `apply_action`, `apply_mix_action`, `tx`, `drop`, `complete_tx`, `kick_tx`, signal handler | the kernel moves frames at any time; reservations fail; wakeups; batch pointers into a ring that is released meanwhile | one holder per frame, no frame lost, every frame comes back, exact count, the kernel is woken |
| Socket setup, `sockets.c` | UMEM, socket, XDP program | `setup_socket`, `load_xdp_program`, `enter_xsks_into_map`, `tear_down_socket` | any step may fail, some exit, some return NULL | what is pumped is complete; what was made is removed |
| Lifecycle, `servant.c`, `interpose_link.c`, `udp_socket.c` | the resources of the process | `main`, signals | error paths that meet at two labels, results that are ignored | returns clean, pumps only with all it needs |
| Message channel, `vchannel.c` | a shared region: two rings, a pool of objects, `ring_top`, `connected` | `connect_shared_channel`, `vc_tx_msg`, `vc_rx_msg`, `vc_count_msg`, `disconnect` | no lock; processes start, die and come back in any order; objects are reused in turn | what is accepted is received, unmixed; two processes, one place each, in one region |
| Descriptor ring, `llring.h` | head and tail of each side, the slots | enqueue and dequeue, single or multi, burst or bulk; counting | lock-free; indices wrap; threads wait for one another; counts are old when used | a FIFO queue; no slot raced on; no false refusal; a count can be relied on |
| Interposition, `interpose.c` | `init_cnt`, `init_done`; the table of followed sockets | `ensure_init`, `recvfrom`, `epoll_ctl`, `epoll_wait` | first calls from many threads, or from inside `init`; the table and the kernel are changed one after the other; copies of a socket | initialised once and before use; reports what is registered and what is there; no message waits unseen |
| Map system, `map.c` | five arrays by index | `setup_map_system`, lookups, update | the host decides which maps there are; maps make room for one another; maps vanish | an index belongs to one map, requested indices are kept, names find maps, a pointer keeps its value |
| uBPF engine, `brain.c`; userspace maps, `userspace_maps.c` | the VM (in libubpf) | load, helpers, Katran's initial entries | failing setup; program files at the limit of the buffer | part of the lifecycle |
| `config.c`, `log.c`, `service_stats.c`, `duration_hist.h`, headers | options, counters | parsing, printing | nothing concurrent | see "What is not modelled" |

Interactions: `main` builds the parts and calls the pump; the pump calls the
program, the program calls the map helpers; a PASS verdict calls `vc_tx_msg`;
the application's `recvfrom` and `epoll_wait` call `vc_rx_msg` and
`vc_count_msg`; both processes call `connect_shared_channel` on their own, in
any order. The only true concurrency is pump/kernel, process/process on the
shared region, and threads in the application.

## The modules

| Module | Models | Composes |
|---|---|---|
| `Heart` (with `MCHeart`) | the pump, with the kernel and NIC as its environment | implements `FrameCycle` |
| `HeartBatch` (with `MCHeartBatch`) | the batching build of the pump, `apply_mix_action`, beside the default one | extends `Heart` |
| `FrameCycle` | what the pump promises about frames | |
| `LLRing` (with `MCLLRing`) | the four enqueue/dequeue variants, and the observers | implements `Fifo` |
| `Fifo` | what a ring promises | |
| `VChannel` | sending and receiving on a connected channel | uses `Fifo` as its ring |
| `PassPath` | an application thread in `epoll_wait` and `recvfrom`, between the channel and the network stack | extends `VChannel` |
| `ChannelConnect` (with `MCConnect`) | connecting, leaving, the end of a process | |
| `EnsureInit` | lazy initialisation of the interposed calls | |
| `EpollTable` (with `MCEpoll`) | the interposed `epoll_ctl` and `epoll_wait` | |
| `MapSystem` (with `MCMaps`) | map setup, and the lookups of programs | |
| `Servant` | the life of the process | |
| `HeartProofs`, `LLRingProofs`, `PassPathProofs`, `ChannelConnectProofs`, `EnsureInitProofs`, `EpollTableProofs`, `MapSystemProofs`, `ServantProofs` | proofs about the modules of these names; `HeartProofs` covers `HeartBatch`, `PassPathProofs` also `VChannel` | extend what they are about |

The `MC...` modules give constants their values (the addresses of the frames, the
sizes of the maps, which sockets are used with which epoll descriptor) and add
the symmetry of the constants that are only compared.

### Heart

A frame of the UMEM is its address, `FrameAt[i]` for the i-th; a ring is the sequence of entries between its
published indices. `peeked` and `cqPeeked` are what the pump has peeked and not
released (libbpf's `cached_cons`); `todo` is the rest of the current batch, so
`Desc`, the descriptor in hand, is an entry *of the receive ring*, as `batch[]`
holds pointers into it. `pc` follows the loop of `pump_packets`: `loop_head`
(413–418), `kick_tx`, `complete_tx`, `poll_rx_queue`, then `apply_action` once
per packet, whose verdict is any of SEND, PASS, DROP. `Recycle` and `Abandon`
are the two ends of `complete_tx`: the latter is the early return at line 74.
`KernelFill`, `KernelLook`, `KernelReceive`, `KernelXmit`, `KernelComplete` are what the
protocol of the rings allows the other side; `LazyFill` lets it publish the
fill ring's consumer index late, which is what makes reservations fail. `config`
has the options the pump reads, and `fqWakeup` and `txWakeup` are the
NEED\_WAKEUP flags: the kernel side of the fill ring sleeps when it finds it
empty, and with `TxSleeps` a zero-copy driver when it finds the transmit ring
empty. It is woken by the `recvfrom` of an empty poll (138-142), which looks only
at the fill ring's flag, or by the next packet; the test of the transmit
ring's flag is commented out (55).

`FrameCycle` says which holder a frame may go to from which, and that any number
of frames may go at once; `ImplementsCycle` maps the rings to holders.

`HeartBatch` has both builds side by side (`Builds`). In the batching one,
`reserve_batch` is the counting and the two reservations (301-333) and
`place_batch` the rest. When a reservation fails the descriptors are written
from slot 0 on all the same, so entries have slot numbers there (`fqFirst`,
`txFirst`), and `Overwritten` says which entries still to be taken change. The
verdicts of a batch are chosen at once, as the program sees the batch at once.
`KernelSleepTx` stays with `Heart`: wakeups do not bear on what `HeartBatch` asks.

### LLRing, VChannel, ChannelConnect

`LLRing` splits a call at every shared access: read own head, read the other
tail, decide, claim (a compare-and-set or a plain store), copy one entry per
step, wait for predecessors and publish. Indices are numbers modulo `Modulus`,
a multiple of `Slots`, as the code's are modulo 2^32. `NotLapped` is a bound: a
thread does not sleep between its read and its compare-and-set while the
indices go once round. `Observe` is `llring_count` for a consumer and
`llring_free_count` for a producer, two reads with anything in between; `told`
remembers the answer until the thread's next call has looked for itself.

`VChannel` has one sender (the pump) and one receiver (the application); the
copy of a message takes two steps on each side, so sender and receiver can meet
in one object. The ring is `Fifo`, which `LLRing` implements. `accepted` is a
history variable: what `vc_tx_msg` accepted and how many refusals it has seen.

`PassPath` puts an application thread around the receiver: `epoll_wait` asks the
channel (257) and the kernel (266) in turn until one has something, `recvfrom`
asks the channel (134) and leaves the rest to libc (136). `reported` is who the
last `epoll_wait` said has something. A blocking socket without a datagram may
hold the thread in libc for ever, so nothing is assumed about that step.

`ChannelConnect` takes `connect_shared_channel` one access to the name or to
the region at a time, for several processes, with `disconnect`, failing system
calls, and with processes that end at any point (`Exit`). `connected++` and
`connected--` are a read and a
write, and what is read may be stale. `at` is where a process has the region: `Remap`
asks for the creator's address if that is in the region already, and gets that
or another one (`vchannel.c:146-154`). An object lives as long as it has the
name or is mapped, and who has disconnected (`gone`) has it mapped until its end,
since `disconnect` unmaps `&vc->ch` (`vchannel.c:266`). `past` is history: the last refusal, how many calls began
during another (`MaxOverlaps` bounds them), and whether a process died inside a
call. The properties say which of these they need.

### EnsureInit, EpollTable

`EnsureInit` follows each thread through `ensure_init` (344–368) with a
per-thread `in_init`, the fetch-and-add, and `init()` symbol by symbol.
`EpollTable` keeps the library's table beside the kernel's interest lists. A
call for one of `ours`, the sockets on port 8080, looks up its entry, changes the
table, and then calls libc, in three steps; for any other socket it is libc's
call alone (`LibcOnly`, 176-180). The kernel accepts an ADD of what is not
registered and a MOD or DEL of what is, or refuses, with the table changed
already (214). `Close` and `CloseEpoll` are close(2) of a socket and of an epoll
descriptor, whose numbers are used again, and `Bind` gives a socket its port: the
kernel acts on them and the library is not told. `standing` is history, for a
socket number and an epoll descriptor number: the table was never told, the
kernel has `agreed` to what it was told last and nothing has changed since, or
the two are `apart`.

### MapSystem

The maps of the host come one by one, any name each. A map stands for what is
taken from it: descriptor, value size and mapped area of an index are each the
map they came from, so "the fields belong together" is a comparison. Value
buffers are numbered as they are allocated, and `buffers` has the map each was
made for. A request names an index, none (`Anywhere`), or any number that is no
index (`Beyond`), as `atoi` may return (66). The inner loop over the requests is
a step per request; `Overflow` is what happens outside the arrays, when no index
is free or the one requested is `Beyond`. A map may be gone when it is
opened: the descriptor is then -1 and `info` is still that of the map before.
After the setup a program looks values up by name or by index. It holds one
pointer, whose `shows` is the value behind it now, and goes on using it or takes
the one a new lookup returns; a lookup at the same index ends it. A key is the
place of its entry. In a mapped area a lookup goes to key times the value size kept
(259, 282), which is where that value begins (`Reaches`) for the first key, and for
the others if the map has as many `Entries` and is not `Padded`, as the kernel
keeps values at multiples of 8; elsewhere it is `Astray`.

### Servant

`main` from the options to the end, one action per call; whatever can fail may
fail, and results nobody looks at are lost: a channel that was refused, a program
that could not be unlinked (`linked` is then "left"). Without `--xdp-prog` libbpf
attaches a program of its own, or finds one (`CreateSocket`). A channel that was
left stays `mapped`. `out` is how the process ended; "overrun" is
`MapSystem!Overflow`. `readfile` gives the engine what fits in
its buffer and refuses a file whose end it has not met (`MeetsEnd`), one of
exactly `MAX_CODE_SIZE` bytes among them.

## The runs

| Run | Instance | Shows |
|---|---|---|
| `heart_prompt` | 4 frames, rings 4/2/1/2, batch 2; both copy modes, both busy-poll settings; the kernel publishes at once, a zero-copy driver may sleep | ring sizes, no frame lost, exact count, the fill ring always has room, every frame returns, the kernel is woken, a signal stops the pump |
| `heart_builds` | both builds, 4 frames, rings 4/2/2/4, batch 2, zero copy, with a late consumer index | one holder per frame, batch pointers valid, losses balanced by slots kept, the count covers what is out, and frames move only as `FrameCycle` says |
| `llring_spsc` | 1 + 1 threads, 4 slots, indices mod 8, two values, bursts of 2, fixed and variable, both may ask for a count | FIFO; what a thread was told is there when it calls |
| `llring_mpmc` | 2 + 2 threads, 4 slots, indices mod 8 | the same FIFO with compare-and-set; no false refusal; no slot raced on; index order across the wrap; waiting is for a call under way |
| `pass_path` | 2 slots, 4 objects, 2 messages, 1 datagram waiting | messages stay intact and are received unmixed unless they saw `Slots` refusals; what was reported is there; a message ends the wait |
| `connect` | 3 processes, 3 regions, one overlap, ends anywhere, mappings anywhere | for orderly calls places are right, rings there and the creator's address asked for; at most two; a refusal heals; nobody touches memory that is not there |
| `ensure_init` | 3 threads | once, before use, and without deadlock |
| `epoll_table` | 3 descriptors for 2 entries, 2 sockets, 2 data; refused calls, other ports, sockets and descriptors closed and reused | entries belong to one descriptor; where table and kernel have agreed since, reports are registered and the first copy has the kernel's data |
| `map_scan` | 3 indices, 3 requests, 3 maps, one padded and one with a single entry, 2 keys | entries whole, nothing lost, the arrays left only when full or by request, indices honoured, names found, pointers hold |
| `servant_life` | all options and failures, files below, at and above the limit | returns clean, pumps only with all it needs |
| `connect_joins`, `epoll_deleted` | 2 processes; 1 descriptor | two statements of comments that the code does not keep (see Findings) |

Bounds. The rings of `Heart` have different sizes, all small enough to be full
and to wrap; four frames allow a batch of two with one frame on each side of
it; `heart_builds` has a transmit ring of two, so that a batch of sends may find
room for one only, and permutes the frames (nothing compares two of them but
for equality). Four slots and indices modulo 8 make every index wrap twice the ring.
`llring_spsc` has bursts of two, which reach a partial burst, and two values,
which show the order; `llring_mpmc` has two threads on each side, which reach
every pair of steps of two calls, with single entries of one value: races are
found by the slots and indices, whatever the values. Three processes are one
more than the channel admits, and with as many regions as processes a name can
be created anew while the others are in use; one overlap is two rivals for
one place, after which the properties of orderly calls claim nothing more, and
`AccessIsBacked`, which does, is proved for any number. Two epoll entries and places get full
with three descriptors and with sockets in two places; the first descriptor is used
with both sockets, the others with one (`Watched`), so that the first socket is in
several entries and an entry has both. Three maps of two
requested names, or of another, give more matches than indices; of two keys one
is the first, where a mapped area begins, and one is not. `MaxDatagrams`
bounds the network stack of `PassPath`: one datagram is enough to be reported
and then found or taken by another call. `MaxRequests` and `MaxMaps` bound the inputs of `MapSystem`, `MaxBurst` the bursts of
`LLRing`, `MaxOverlaps` the overlapping calls of `ChannelConnect`; `LazyFill`
and `TxSleeps` select the kernel of `Heart`, `CopyModes` and `BusyPolls` the
options, `Builds` the builds. `Observers` are the threads of `LLRing` that count;
`llring_mpmc` has none, to stay small, and no caller counts on a ring with two
producers or two consumers. `EpollTable` is run with one
thread, as its properties do not hold with two (below).

`TypeOK` is a conjunct of an invariant of the runs, named in its comment ("with the
types"); that of `Heart` is not, and is proved (`ShapeIsInvariant`).

Deadlock is checked except in `MapSystem` (setup may overflow or fail and then
nothing more happens) and `Servant` (the process ends).

### Fairness

- `Heart`: the pump polls, kicks and wakes with `MSG_DONTWAIT`, so it is weakly
  fair. One call may wait: the `sendto` of a PASS to the raw socket has no flags
  (`udp_socket.c:46`) and waits for room in its send buffer. The network stack of the
  host empties that buffer without the pump, and is taken to do so. The kernel completes what it started,
  and a kick that is repeated for ever is obeyed in the end (strong fairness of
  `KernelXmit`). Nothing is assumed about arriving packets, nor about `int_handler`.
- `EnsureInit`: a thread inside `ensure_init` is scheduled again. Calls are
  never forced.
- `PassPath`: a thread inside the library is scheduled again. The application
  need not call, the runtime need not send, the recvfrom of libc need not return
  and its epoll_wait need not fail (`PollOther` is not fair).
- `LLRing` has no liveness property: `AwaitedIsInside` says as an invariant that
  whoever waits waits for a call under way.
- `HeartBatch`, `Servant`, `MapSystem`, `ChannelConnect`, `EpollTable` state safety
  only and assume no fairness.

### Findings

Two runs check one statement of a comment each and find it violated.
PROJECT.json quotes the lines.

| Run | What happens |
|---|---|
| `connect_joins` | after a disconnect or refusal the name is gone, and two processes that should meet are in different regions |
| `epoll_deleted` | EPOLL\_CTL\_DEL skips the entry at index 0, so the socket is still reported |

### Conditions the code does not establish

Several properties hold under a condition that is part of the property or of
the instance, because the code behaves otherwise without it:

- `EveryFrameReturns` needs copy mode, busy polling, or a driver that does not
  sleep (`DriverIsPrompt`). In the default mode a driver asleep on its transmit
  ring is woken only by a packet that comes in, as nobody looks at its flag
  (`heart.c:55`).
- `NothingLost` and `FillNeverFull` need a kernel that publishes at once. With a
  late one, `drop()` and `complete_tx()` lose frames; `LossesAccounted` says
  that each loss also keeps a slot, so at most `RxSize + CompSize` get lost.
- `OutstandingExact` holds in the default build. In the batching one a send
  whose reservation failed stays counted for ever (`heart.c:360`), a descriptor
  may be written over another one (`heart.c:343`), and any verdict but SEND and
  DROP keeps a slot (`heart.c:346`): `OutstandingCovers` and `LossesAccounted` are
  what is left.
- Nothing is said of the range of `free_entries` (`llring.h:467`): with several
  producers it leaves 0..slots-1 for a stale head. The compare-and-set then fails, so no harm is done: `RefusedOnlyWhenShort` holds.
- `IntactUnlessLapped` and `DeliveredUnlessLapped` exclude messages that saw
  `ring_size` refused sends: a refused send has used up and overwritten an
  object (`vchannel.c:187-200`), so it may replace an accepted message, and an
  object may be queued twice, whose second receipt finds it cleared.
- `PairMeets` needs calls that neither overlap nor are cut
  short, `AtMostTwo` calls that do not overlap: `connected` is read and raised
  without a lock (`vchannel.c:130, 157`). Of the address of a mapping `PairMeets` says
  only that the creator's was asked for: what `mmap` returns is not compared with it
  (`vchannel.c:146-154`), and a process with another address would follow
  pointers that are not its own. `vchannel.h:64` asks what to do then.
- `ReportsRegistered` excepts index 0 (the finding above), and like `FirstCopyIsLatest`
  it speaks of sockets over which table and kernel have `agreed`. They part when a
  socket or an epoll descriptor is closed, when its number is used for a socket on
  another port, whose calls pass the table by (`interpose.c:177-179`), and when the
  kernel refuses what the table has taken (214); a report of such a socket may be
  stale. The next call that tells the table and is accepted puts both right.
- `FollowsOwn` speaks of descriptor numbers: an epoll descriptor with the number of
  one that was closed inherits what that followed. It needs one thread: two that add to two new
  epoll descriptors at once take the same free entry (`interpose.c:183-189`).
- `KeptOnce` lets the arrays be left for two reasons: they are full, or a request
  names an index outside them, which nothing checks (`map.c:66, 114`).
- `UnplacedFound` needs requests without an index: an index above an unused one
  hides its map from the search by name (`map.c:221`).
- `ReportedIsThere` excepts a message whose object was taken again after
  `ring_size` refusals: it is counted and then found cleared, and `recvfrom` goes
  to libc.
- `PointersHold` ends at the next lookup at the same index, whose value is copied
  over the one before (`map.c:267`). What the pointer shows is a copy for most
  maps and the value itself for those that are mapped. Of a mapped one nothing is
  claimed for a key the map does not have, nor for any but the first if its values
  are padded: the lookup multiplies the size as it is and looks at no bound
  (`map.c:259, 282`), and the "pointer to the value" of `map.h:23` is then none.
- `EntriesWhole` has a case for a map that could not be opened: it is kept under
  the name of the one before, with descriptor -1 (`map.c:99-100`).
- `ReturnsClean` speaks of a `main` that returns. It may follow a null pointer instead,
  for want of a socket (`servant.c:173`) or a channel (`vchannel.c:264`), fail
  an assertion without Katran's maps (`userspace_maps.c:187`), or leave the arrays
  of the map system: `Servant` then ends "crashed", "aborted" or "overrun". When it
  returns, the channel is left but still mapped (`vchannel.c:266`), the program it
  loaded was asked to go but may be there (`servant.c:170`), and so may libbpf's.

## The proofs

Every safety property that a passing run checks, invariants, action properties
and refinements alike, is also a theorem, for instances of any size. The
assumptions are those the modules name: sizes are positive, a modulus is a
multiple of the slots, names and values differ from the marks for "none". They
are evaluated in every run.

| Module | Theorem | Says |
|---|---|---|
| `HeartProofs` | `ShapeIsInvariant` | `TypeOK` and `BatchInRing` |
| | `NoDoubleOwnerIsInvariant` | a frame has one holder and one entry |
| | `OutstandingIsExact` | `outstanding_tx` is what is between `tx()` and `complete_tx()` |
| | `RingsAreWithinSize` | no ring is overfilled |
| | `NothingIsLost` | with a kernel that publishes at once all frames are in the six places |
| | `SignalStopsSoon` | after the signal at most `BatchSize + 4` steps of the pump, whatever the kernel does |
| | `FillIsNeverFull` | then the failure paths that lose frames are never taken |
| | `HeartImplementsCycle` | `Heart` implements `FrameCycle` |
| | `BuildsKeepOwners` | one holder, batch in its ring, rings within size, in both builds |
| | `LossesAreAccounted` | `LossesAccounted`: each frame lost keeps a slot, in both builds |
| | `OutstandingIsCovered` | the count never misses a frame on its way, in both builds |
| | `BuildsImplementCycle` | both builds implement `FrameCycle`, if frames may get lost |
| `LLRingProofs` | `IndicesAreOrdered` | the order of the four indices, across the wrap |
| | `CountsAreKept` | what a lone thread was told is there |
| | `WaitsAreForOthers` | who waits waits for a call under way |
| | `SlotsAreExclusive` | no slot is raced on |
| | `RefusalsAreJust` | no false refusal, though the head may be stale |
| | `RingIsFifo` | `LLRing` implements `Fifo` |
| `PassPathProofs` | `ObjectsAreKept`, `MessagesArriveWhole` | `IntactUnlessLapped`, `DeliveredUnlessLapped` of `VChannel` |
| | `PathKeepsMessages`, `ReportsAreKept` | the same on the whole path, and `ReportedIsThere` |
| | `PathUsesRing` | channel and library use the ring as `Fifo` promises |
| | `WaitsMeetMessages` | a message stays until the loop of `epoll_wait` has counted it |
| `ChannelConnectProofs` | `AccessesAreBacked` | nobody touches memory that is not there |
| | `TwoAtMost`, `PairsMeet`, `RefusalsHeal` | `AtMostTwo`, `PairMeets`, `RefusalHeals` |
| `EnsureInitProofs` | `ReadyOnceIsInvariant` | once, and before use, for any threads |
| | `WaitsAreForAnother` | who waits for `init_done` waits for another thread that does not wait |
| `EpollTableProofs` | `EntriesFollowTheirOwn`, `FirstCopiesAreLatest`, `ReportsAreRegistered` | `FollowsOwn`, `FirstCopyIsLatest`, `ReportsRegistered`, for calls that take turns |
| `MapSystemProofs` | `EntriesAreWhole`, `MatchesAreKeptOnce`, `IndicesAreHonoured`, `UnplacedAreFound`, `PointersKeepShowing` | the five properties of the map system |
| `ServantProofs` | `CleanReturns`, `PumpsHaveAll` | the two properties of the lifecycle |

Each module has an inductive invariant (`IInv`, or the layers named below) of
named parts, a lemma per action or group of actions that keeps it, and
the theorems as consequences.

**Heart.** The argument goes in layers, each of which may use the ones before.
`Shape` (types, and the batch and completions inside their rings) is inductive
by itself. `NoDoubleOwner` needs it: a frame that moves from one ring to
another leaves the first only because the slot released is the slot the moved
descriptor was read from, which is what `BatchInRing` says. Its proof rests on
lemmas about the entries of a sequence under `Append`, `Tail` and moving a run
from one sequence to another (`AppendEntries`, `TailEntries`, `FirstEntry`,
`MoveEntries`). The counts (`OutstandingExact`, `RingsWithinSize`,
`NothingLost`) need both: a frame taken into a set of frames the NIC holds
raises its cardinality only if it was not there already, which is
`NoDoubleOwner`. `FillNeverFull` then is arithmetic: frames outside the fill
ring leave that many slots free in it, since it was made as large as the
population. For the refinement, every action is shown to keep the three sets of
holders, to move a set of frames from one to another, or to lose some; that
it loses none with a prompt kernel is `NothingLost`.

**HeartBatch.** A step of either build is a step of `Heart` or `place_batch`
(`StepOfBuilds`), so only `place_batch` needs new arguments. `NthCounts` says how
`index_target` numbers the packets with a verdict; `OverwrittenEntries` that what
is written from slot 0 on over a ring that had no room replaces entries by
packets of the batch and doubles none, as slots of entries are different
(`SlotsApart`). `Mixed`, in the invariant `BuildsInv`, says that what was
reserved still has room when it is written: only the kernel has moved since, and
it only makes room. `LossesAccounted` is `Total = FillSize`, in which a frame
that was lost is counted by the slot it keeps. `BuildsImplementCycle` assumes
`LazyFill`, which in `FrameCycle` is the permission to lose frames: the batching
build loses some with any kernel, so without it the statement is false.

**LLRing.** Distances modulo `Modulus` replace indices. `Ordered` is the order of
the four indices from `cons.tail` on, `Near` that a head that was read is not
as much as a lap behind and `Fits` that what is claimed has room if the
compare-and-set succeeds. `Tiled` is needed for publication: the reserved part of
each side is cut into the calls of its threads without gap or overlap, so a
thread that finds the tail at its own head publishes exactly its own entries.
`NotLapped`, a guard of the model, is what `Near` rests on. For `RingIsFifo`,
`Written` adds that what a producer copied is in its slots until it publishes and that
what a consumer copied is what it claimed; the queue is the slots from `cons.head` to
`prod.tail`. With single-producer or single-consumer functions the group of
callers is one thread (`LLRingAssumption`), as `llring.h:518` and `687` demand.

**VChannel, PassPath.** `InTurn` places the object of each waiting message as many
objects behind the sender's next one as sends were accepted or refused since;
with fewer than `Slots` refusals that is less than the pool, so the sender does
not meet it. `PathUsesRing` closes the composition with `LLRing`: the path does nothing to
the ring but `Put`, `Take` and `Finish` of `Fifo`, and those are what `LLRing` implements
(`RingIsFifo`); that a send is refused only without room is `RefusalsAreJust`. `Put` requires that the burst fits beside every
burst a consumer has under way, since its slots are free only when that
consumer publishes (`HasRoom`). What is on the path around it changes the channel only by the
steps of `VChannel`, so the invariant carries over; `ReportsStand` adds that a
report holds until the thread, the only receiver, has acted on it.

**ChannelConnect.** What holds for any interleaving (`Safe`) is kept apart from
what needs calls that do not overlap (`CountsCover`, `Refused`) and from what
moreover needs that none was cut short (`NameMeans`, `IdsApart`): each part is
an implication from the history, so that a step that spoils the history has
nothing to show.

**EnsureInit.** Whoever is to initialise was the first to count itself, and
`init_done` comes after it (`Progress`). As long as `init_done` is not set and
somebody has been counted, somebody is at it (`SomebodyIsAtIt`), and it is not
waiting: that is `WaitsAreForAnother`.

**EpollTable.** `Latest` and `Removed` compare the table with the kernel where the two
have agreed; while a call is between them, `Told` says what the table has from it,
which the kernel has too if it accepts. A change of a socket may put a second copy of it in a place that was freed
ahead of the first, whose data is stale from then on. That no stale copy ever
comes first rests on deletion, which removes every copy: a socket that was
removed, and whose removal was accepted, is followed nowhere (`Removed`). A call that
tells the table is enough to put right what a refusal or a close left behind, as
it writes the first copy or removes all.
The theorems have the hypothesis `[]InTurn`: calls take turns. One thread
always does (`OneThreadIsInTurn`), and so does an application with a lock of its
own around the calls; without it the properties fail (see above).

**MapSystem.** Below `lastGlobalIndex` no index is free (`Filled`), so the entry
that makes room goes where none was, and each match adds one entry and loses
none (`Counted`, by cardinalities). `PoolsApart`, that entries have different
buffers, is what the value of a copy rests on; a pointer into a mapped area needs
only `Reaches`, as its entry does not move after the setup.

**Servant.** The invariant says what is set up at each place `main` can be.

**Towards liveness.** Three theorems say of a liveness property what can be said
without fairness, and leave to fairness only that the thread in question is run:
`WaitsAreForAnother` of `CallsGetThrough` (no circle of waiting threads),
`WaitsMeetMessages` of `MessageEndsWait` (at most two steps of the library), and
`SignalStopsSoon` of `SignalStopsPump` (a count of the pump's steps that only falls).

Only model-checked: the liveness properties (`EveryFrameReturns`, `KernelIsWoken`,
`SignalStopsPump`, `CallsGetThrough`, `MessageEndsWait`), as the prover treats
neither fairness nor ENABLED, and the two runs that find a statement violated.
`FollowsOwn` for several threads without turns is neither: it is false there, as
the test of `ed->epfd` and the stores that follow it are not one step
(`interpose.c:183-189`), and nothing weaker that the calls would keep is promised anywhere.

## What is not modelled, and why

- USE\_POLL and the throughput counters of `heart.c`, and the SENDMSG variant of
  `interpose.c`: not in the default build. The poll(2) of USE\_POLL waits a second
  at most and wakes the drivers; it changes none of the state of `Heart`.
- `ubpf_map_update_elem_kern`, after the same search by name as a lookup: it
  changes a map of the kernel and nothing here.
- Two threads of an application in `recvfrom` at once: the channel is called
  through the single-consumer functions (`vchannel.c:213`), so `VChannel` has one.
- The timeout of the caller of `epoll_wait`, which the library overwrites
  (`interpose.c:223`): no document promises it.
- The memory model: steps are sequentially consistent. `llring.h` uses compiler
  barriers only and so relies on x86; no weaker machine is considered.
- The contents of packets and maps, the header arithmetic of `recvfrom`,
  `config.c`, `log.c`, `service_stats.c`, `duration_hist.h`: sequential, without
  shared state.
- libbpf, libubpf, the kernel and the NIC: by what the code expects of them.
- What a process finds behind the pointers stored in the shared region when it has
  that at another address than the creator: `ChannelConnect` has the address, and
  `VChannel` and `PassPath` are about two processes that have the same one.

## Plan

Done: the pump in both builds, ring and observers, channel and the path into the
application, connecting, interposition, maps with their lookups, lifecycle; all
safety properties of the runs, and the two refinements, are proved, and so are
the use `PassPath` makes of `Fifo` and the safety part of three liveness properties.

Left: the same for `EveryFrameReturns` and `KernelIsWoken`, whose counts would have
to go over several rings, and rise again with traffic.
