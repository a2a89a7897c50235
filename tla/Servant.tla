-------------------------------- MODULE Servant --------------------------------
(***************************************************************************)
(* The life of a servant process: main of src/servant.c with the setup and *)
(* teardown of sockets.c, brain.c, interpose_link.c and udp_socket.c, and  *)
(* the signals that end it.  What each part does in between has a module   *)
(* of its own (Heart, MapSystem, ChannelConnect).                          *)
(***************************************************************************)
EXTENDS Naturals

CONSTANTS
  Katran,        \* what programs are run: does one have Katran's maps?
  Sizes,         \* of program files
  MAX_CODE_SIZE

ASSUME ServantAssumption ==
  Katran \subseteq BOOLEAN /\ Sizes \subseteq Nat /\ MAX_CODE_SIZE \in Nat

VARIABLES
  config,    \* the options of the command line that main looks at
  program,   \* the program file: has it Katran's userspace maps, and its size
  pc, out,   \* where main is; how the process ended, or "running"
  handlers,  \* are the signal handlers installed?
  terminate, \* config.terminate
  linked,    \* the XDP program on the interface: "none", "ours", "libbpf" for the
             \* one libbpf brings, "theirs" for one that was there, or "left" for
             \* ours when it could not be removed
  xsk,       \* the AF_XDP socket and its umem
  entered,   \* is the socket in the map the XDP program redirects to?
  pass,      \* the vchannel or the raw socket of the PASS verdict; a vchannel
             \* that was disconnected is still "mapped"
  vm,        \* the uBPF engine
  code_len   \* how much of the program file it was given

vars == <<config, program, pc, out, handlers, terminate, linked, xsk, entered, pass, vm, code_len>>
resources == <<linked, xsk, entered, pass, vm, code_len>>
fixed == <<config, program>>

\* custom: --xdp-prog; file: it names a file, not "-"; inject: packet-injection
Configs == {c \in [custom : BOOLEAN, file : BOOLEAN, inject : BOOLEAN, busy : BOOLEAN] :
              c.file => c.custom}

Init ==
  /\ config \in Configs /\ program \in [katran : Katran, size : Sizes]
  /\ pc = "load" /\ out = "running"
  /\ handlers = FALSE /\ terminate = FALSE
  /\ linked \in {"none", "theirs"}
  /\ xsk = "none" /\ entered = FALSE /\ pass = "none" /\ vm = "none"
  /\ code_len = 0

At(place) == out = "running" /\ pc = place
End(how)  == out' = how /\ UNCHANGED <<fixed, pc, handlers, terminate, resources>>
GoTo(next) == pc' = next /\ UNCHANGED <<fixed, out, handlers, terminate>>

(***************************************************************************)
(* Setup, in the order of main.                                            *)
(***************************************************************************)
\* load_xdp_program leaves a program that is there; its result is ignored.
LoadXdp ==
  /\ At("load")
  /\ GoTo("socket")
  /\ \/ config.file /\ linked = "none" /\ linked' = "ours"
     \/ UNCHANGED linked
  /\ UNCHANGED <<xsk, entered, pass, vm, code_len>>

\* The umem or the socket cannot be created.
SocketExits == At("socket") /\ End("exited")

\* xsk_socket__create.  Unless it is told not to, libbpf sees to an XDP program,
\* its own if there is none, and enters the socket into the map of it.
CreateSocket ==
  \/ config.custom /\ UNCHANGED <<linked, entered>>
  \/ /\ ~ config.custom /\ entered' = TRUE
     /\ linked' = (IF linked = "none" THEN "libbpf" ELSE linked)

\* Without huge pages nothing was created; without busy polling the socket was.
SetupSocket ==
  /\ At("socket")
  /\ \/ xsk' = "open" /\ CreateSocket /\ GoTo("maps")
     \/ xsk' = "null" /\ UNCHANGED <<linked, entered>> /\ GoTo("teardown")
     \/ config.busy /\ xsk' = "forgotten" /\ CreateSocket /\ GoTo("teardown")
  /\ UNCHANGED <<pass, vm, code_len>>

SetupMaps ==
  /\ At("maps")
  /\ GoTo("enter") \/ GoTo("teardown")
  /\ UNCHANGED resources

\* The arrays are left (MapSystem!Overflow); what follows is undefined.
MapsOverrun == At("maps") /\ End("overrun")

EnterXsks ==
  /\ At("enter")
  /\ \/ config.custom /\ entered' = TRUE /\ GoTo("pass")
     \/ config.custom /\ GoTo("teardown") /\ UNCHANGED entered
     \/ ~ config.custom /\ GoTo("pass") /\ UNCHANGED entered
  /\ UNCHANGED <<linked, xsk, pass, vm, code_len>>

\* setup_interpose_link or setup_udp_socket; the result is ignored.
SetupPass ==
  /\ At("pass")
  /\ pass' \in {"open", "failed"}
  /\ GoTo("signals")
  /\ UNCHANGED <<linked, xsk, entered, vm, code_len>>

InstallHandlers ==
  /\ At("signals")
  /\ handlers' = TRUE /\ pc' = "engine"
  /\ UNCHANGED <<fixed, out, terminate, resources>>

\* Mutant: readfile does not look for the end of the file.
ReadsAnything(size) == TRUE

\* readfile goes on until fread gives nothing more.  A buffer that is full has
\* not met the end of the file, be there more of it or not.
MeetsEnd(size) == size < MAX_CODE_SIZE

Fread(size) == IF size < MAX_CODE_SIZE THEN size ELSE MAX_CODE_SIZE

\* The file cannot be opened or read, is too large, or is no program for uBPF.
EngineFails ==
  /\ At("engine")
  /\ GoTo("teardown2")
  /\ UNCHANGED resources

SetupEngine ==
  /\ At("engine") /\ MeetsEnd(program.size)
  /\ code_len' = Fread(program.size)
  /\ vm' = "loaded" /\ GoTo("maps server")
  /\ UNCHANGED <<linked, xsk, entered, pass>>

\* The assertions of __configure_katran_maps; abort() ends the process though
\* SIGABRT has a handler.
KatranAborts == At("maps server") /\ ~ program.katran /\ End("aborted")

LaunchMapsServer ==
  /\ At("maps server") /\ program.katran
  /\ GoTo("compile")
  /\ UNCHANGED resources

(***************************************************************************)
(* pump_packets.                                                           *)
(***************************************************************************)
Compile ==
  /\ At("compile")
  /\ GoTo("pump") \/ GoTo("destroy")
  /\ UNCHANGED resources

\* A PASS verdict with no channel; a raw socket that failed only gives errors.
PassCrashes == At("pump") /\ config.inject /\ pass # "open" /\ End("crashed")

\* The kernel refuses a wakeup for good, or a ring is not what it should be.
PumpExits == At("pump") /\ End("exited")

PumpReturns ==
  /\ At("pump") /\ terminate
  /\ GoTo("destroy")
  /\ UNCHANGED resources

(***************************************************************************)
(* Teardown.                                                               *)
(***************************************************************************)
Destroy ==
  /\ At("destroy")
  /\ vm' = "none" /\ code_len' = 0 /\ GoTo("teardown2")
  /\ UNCHANGED <<linked, xsk, entered, pass>>

\* disconnect follows the NULL channel of a link that was refused.
DisconnectCrashes == At("teardown2") /\ config.inject /\ pass # "open" /\ End("crashed")

\* Mutant: only the channel is torn down.
TeardownLinkOnly ==
  /\ At("teardown2")
  /\ config.inject => pass = "open"
  /\ pass' = (IF config.inject THEN "mapped" ELSE pass) /\ GoTo("teardown")
  /\ UNCHANGED <<linked, xsk, entered, vm, code_len>>

\* disconnect gives up the place in the channel, but not the mapping.
TeardownPass ==
  /\ At("teardown2")
  /\ config.inject => pass = "open"
  /\ pass' = (IF config.inject THEN "mapped" ELSE "none") /\ GoTo("teardown")
  /\ UNCHANGED <<linked, xsk, entered, vm, code_len>>

\* The program goes, whoever put it there; or it does not, which nothing checks.
UnlinkXdp ==
  /\ At("teardown")
  /\ \/ config.file /\ linked' = "none"
     \/ config.file /\ linked' = (IF linked = "ours" THEN "left" ELSE linked)
     \/ ~ config.file /\ UNCHANGED linked
  /\ GoTo("teardown socket")
  /\ UNCHANGED <<xsk, entered, pass, vm, code_len>>

\* tear_down_socket(NULL).
SocketCrashes == At("teardown socket") /\ xsk \in {"null", "forgotten"} /\ End("crashed")

\* A socket that is closed leaves the map; a program of libbpf goes with it or
\* stays.
Finish ==
  /\ At("teardown socket") /\ xsk = "open"
  /\ xsk' = "none" /\ entered' = FALSE
  /\ linked' \in {linked} \cup (IF linked = "libbpf" THEN {"none"} ELSE {})
  /\ out' = "returned"
  /\ UNCHANGED <<fixed, pc, handlers, terminate, pass, vm, code_len>>

\* SIGINT or SIGTERM.
Signal ==
  /\ out = "running"
  /\ \/ ~ handlers /\ End("killed")
     \/ handlers /\ terminate' = TRUE
        /\ UNCHANGED <<fixed, pc, out, handlers, resources>>

Main ==
  \/ LoadXdp \/ SocketExits \/ SetupSocket \/ SetupMaps \/ MapsOverrun \/ EnterXsks \/ SetupPass
  \/ InstallHandlers \/ EngineFails \/ SetupEngine \/ KatranAborts \/ LaunchMapsServer
  \/ Compile \/ PassCrashes \/ PumpExits \/ PumpReturns
  \/ Destroy \/ DisconnectCrashes \/ TeardownPass \/ UnlinkXdp \/ SocketCrashes \/ Finish

Next == Main \/ Signal

Spec == Init /\ [][Next]_vars

(***************************************************************************)
(* Properties.                                                             *)
(***************************************************************************)
TypeOK ==
  /\ config \in Configs /\ program \in [katran : Katran, size : Sizes]
  /\ out \in {"running", "returned", "exited", "aborted", "crashed", "killed", "overrun"}
  /\ handlers \in BOOLEAN /\ terminate \in BOOLEAN
  /\ linked \in {"none", "ours", "libbpf", "theirs", "left"}
  /\ xsk \in {"none", "open", "null", "forgotten"}
  /\ entered \in BOOLEAN
  /\ pass \in {"none", "open", "failed", "mapped"}
  /\ vm \in {"none", "loaded"} /\ code_len \in 0 .. MAX_CODE_SIZE

(***************************************************************************)
(* Whatever failed on the way, main returns only with the socket, the      *)
(* engine and the raw socket it set up taken down, disconnected from its   *)
(* channel, and with no XDP program on the interface that it loaded and    *)
(* has not tried to remove (servant.c:161-173).  The channel stays mapped  *)
(* (vchannel.c:266), and what libbpf loaded is not its business.  (With    *)
(* the types.)                                                             *)
(***************************************************************************)
ReturnsClean ==
  /\ TypeOK
  /\ out = "returned" =>
       /\ xsk = "none" /\ ~ entered /\ vm = "none" /\ linked # "ours"
       /\ pass = "none" \/ (config.inject /\ pass = "mapped")

(***************************************************************************)
(* Packets are pumped only with a socket, with the whole of the program    *)
(* file in the engine and none of it cut off (brain.c:118), with the       *)
(* socket entered by main or by libbpf (servant.c:104, sockets.c:113), and *)
(* with the signals handled.                                               *)
(***************************************************************************)
PumpHasAll ==
  pc = "pump" =>
    /\ xsk = "open" /\ handlers /\ entered
    /\ vm = "loaded" /\ code_len = program.size
=============================================================================
