----------------------------- MODULE ServantProofs -----------------------------
(***************************************************************************)
(* Proofs about Servant: what main has set up at each place it can be, and *)
(* so what it leaves behind when it returns, and what it has when it       *)
(* pumps.                                                                  *)
(***************************************************************************)
EXTENDS Servant, TLAPS

\* The places of main before and after each thing it sets up.
BeforeSocket == {"load", "socket"}
WithChannel  == {"signals", "engine", "maps server", "compile", "pump", "destroy", "teardown2"}
WithEngine   == {"maps server", "compile", "pump", "destroy"}
Watched      == {"engine"} \cup WithEngine
WithSocket   == {"maps", "enter", "pass"} \cup WithChannel
WhenEntered  == {"pass", "signals"} \cup Watched
Leaving      == {"teardown", "teardown socket"}
Places       == BeforeSocket \cup WithSocket \cup Leaving

\* The socket is open from its setup to the teardown, where it may be missing
\* if the setup failed.
SocketFollows ==
  /\ pc \in BeforeSocket => xsk = "none"
  /\ pc \in WithSocket => xsk = "open"
  /\ pc \in WithSocket /\ ~ config.custom => entered
  /\ pc \in WhenEntered => entered

\* A channel was tried exactly at the places between its setup and teardown;
\* only one that was disconnected is mapped after that.
ChannelFollows ==
  /\ pc \in WithChannel => pass \in {"open", "failed"}
  /\ pc \notin WithChannel => pass = "none" \/ (config.inject /\ pass = "mapped")

\* The engine is there at its places only, with the whole of the file.
EngineFollows ==
  /\ vm = "loaded" <=> pc \in WithEngine
  /\ vm = "loaded" => code_len = program.size

\* Only a file that was named puts a program of ours on the interface.
LinkFollows == linked = "ours" => config.file /\ pc # "teardown socket"

IInv ==
  /\ pc \in Places
  /\ pc \in Watched => handlers
  /\ SocketFollows
  /\ ChannelFollows
  /\ EngineFollows
  /\ LinkFollows
  /\ ReturnsClean

\* Nothing is set up at the start.
LEMMA Initially == Init => IInv
<1> SUFFICES ASSUME Init
             PROVE  IInv
  OBVIOUS
<1>1. TypeOK
  <2>1. 0 \in 0 .. MAX_CODE_SIZE
    BY ServantAssumption
  <2>2. handlers \in BOOLEAN /\ terminate \in BOOLEAN /\ entered \in BOOLEAN
    BY DEF Init
  <2> QED BY <2>1, <2>2 DEF Init, TypeOK
<1>2. pc \in Places /\ pc \notin WithSocket /\ pc \notin WithChannel /\ pc \notin Watched
  BY DEF Init, Places, BeforeSocket, WithSocket, WithChannel, Watched, WithEngine
<1>3. SocketFollows /\ ChannelFollows /\ EngineFollows
  BY <1>2 DEF Init, SocketFollows, ChannelFollows, EngineFollows, WhenEntered, WithEngine,
              Watched, WithChannel
<1> QED BY <1>1, <1>2, <1>3 DEF Init, IInv, LinkFollows, ReturnsClean

\* What a file gives to readfile when the end of it was met is all of it.
LEMMA FileIsWhole ==
  ASSUME NEW size \in Nat, MeetsEnd(size)
  PROVE  Fread(size) = size /\ Fread(size) \in 0 .. MAX_CODE_SIZE
BY ServantAssumption DEF MeetsEnd, Fread

\* Where main stays where it is, nothing it has set up changes.
LEMMA Stays ==
  ASSUME IInv, UNCHANGED <<fixed, pc, handlers, resources>>, terminate' \in BOOLEAN,
         out' = out \/ out' \in {"exited", "aborted", "crashed", "killed", "overrun"}
  PROVE  IInv'
<1>1. UNCHANGED <<config, program, pc, handlers, linked, xsk, entered, pass, vm, code_len>>
  BY DEF fixed, resources
<1>2. TypeOK'
  BY <1>1 DEF IInv, ReturnsClean, TypeOK
<1>3. ReturnsClean'
  BY <1>1, <1>2 DEF IInv, ReturnsClean
<1>4. SocketFollows' /\ ChannelFollows'
  BY <1>1 DEF IInv, SocketFollows, ChannelFollows
<1>5. EngineFollows' /\ LinkFollows'
  BY <1>1 DEF IInv, EngineFollows, LinkFollows
<1> QED BY <1>1, <1>3, <1>4, <1>5 DEF IInv

\* One step for every action: each moves main on and changes one resource.
LEMMA Inductive == IInv /\ [Next]_vars => IInv'
<1> SUFFICES ASSUME IInv, [Next]_vars
             PROVE  IInv'
  OBVIOUS
<1> USE DEF IInv, Places, BeforeSocket, WithChannel, WithEngine, Watched, WithSocket,
            WhenEntered, Leaving, SocketFollows, ChannelFollows, EngineFollows, LinkFollows,
            ReturnsClean, TypeOK, At, GoTo, resources, fixed
<1>1. CASE LoadXdp
  <2>1. pc' \in Places /\ (pc' \in Watched => handlers') /\ SocketFollows'
    BY <1>1 DEF LoadXdp
  <2>2. ChannelFollows' /\ EngineFollows' /\ LinkFollows'
    BY <1>1 DEF LoadXdp
  <2>3. TypeOK'
    BY <1>1 DEF LoadXdp
  <2>4. out' = "running"
    BY <1>1 DEF LoadXdp
  <2> QED BY <2>1, <2>2, <2>3, <2>4
<1>2. CASE SetupSocket
  <2>1. pc' \in Places /\ (pc' \in Watched => handlers') /\ SocketFollows'
    BY <1>2 DEF SetupSocket, CreateSocket
  <2>2. ChannelFollows' /\ EngineFollows' /\ LinkFollows'
    BY <1>2 DEF SetupSocket, CreateSocket
  <2>3. TypeOK'
    BY <1>2 DEF SetupSocket, CreateSocket
  <2>4. out' = "running"
    BY <1>2 DEF SetupSocket, CreateSocket
  <2> QED BY <2>1, <2>2, <2>3, <2>4
<1>3. CASE SetupMaps
  <2>1. pc' \in Places /\ (pc' \in Watched => handlers') /\ SocketFollows'
    BY <1>3 DEF SetupMaps
  <2>2. ChannelFollows' /\ EngineFollows' /\ LinkFollows'
    BY <1>3 DEF SetupMaps
  <2>3. TypeOK'
    BY <1>3 DEF SetupMaps
  <2>4. out' = "running"
    BY <1>3 DEF SetupMaps
  <2> QED BY <2>1, <2>2, <2>3, <2>4
<1>4. CASE EnterXsks
  <2>1. pc' \in Places /\ (pc' \in Watched => handlers') /\ SocketFollows'
    BY <1>4 DEF EnterXsks
  <2>2. ChannelFollows' /\ EngineFollows' /\ LinkFollows'
    BY <1>4 DEF EnterXsks
  <2>3. TypeOK'
    BY <1>4 DEF EnterXsks
  <2>4. out' = "running"
    BY <1>4 DEF EnterXsks
  <2> QED BY <2>1, <2>2, <2>3, <2>4
<1>5. CASE SetupPass
  <2>1. pc' \in Places /\ (pc' \in Watched => handlers') /\ SocketFollows'
    BY <1>5 DEF SetupPass
  <2>2. ChannelFollows' /\ EngineFollows' /\ LinkFollows'
    BY <1>5 DEF SetupPass
  <2>3. TypeOK'
    BY <1>5 DEF SetupPass
  <2>4. out' = "running"
    BY <1>5 DEF SetupPass
  <2> QED BY <2>1, <2>2, <2>3, <2>4
<1>6. CASE InstallHandlers
  <2>1. pc' \in Places /\ (pc' \in Watched => handlers') /\ SocketFollows'
    BY <1>6 DEF InstallHandlers
  <2>2. ChannelFollows' /\ EngineFollows' /\ LinkFollows'
    BY <1>6 DEF InstallHandlers
  <2>3. TypeOK'
    BY <1>6 DEF InstallHandlers
  <2>4. out' = "running"
    BY <1>6 DEF InstallHandlers
  <2> QED BY <2>1, <2>2, <2>3, <2>4
<1>7. CASE EngineFails
  <2>1. pc' \in Places /\ (pc' \in Watched => handlers') /\ SocketFollows'
    BY <1>7 DEF EngineFails
  <2>2. ChannelFollows' /\ EngineFollows' /\ LinkFollows'
    BY <1>7 DEF EngineFails
  <2>3. TypeOK'
    BY <1>7 DEF EngineFails
  <2>4. out' = "running"
    BY <1>7 DEF EngineFails
  <2> QED BY <2>1, <2>2, <2>3, <2>4
<1>8. CASE SetupEngine
  <2>1. program.size \in Nat
    BY ServantAssumption
  <2> QED BY <1>8, <2>1, FileIsWhole DEF SetupEngine
<1>9. CASE LaunchMapsServer \/ Compile \/ PumpReturns
  BY <1>9 DEF LaunchMapsServer, Compile, PumpReturns
<1>10. CASE Destroy
  BY <1>10, ServantAssumption DEF Destroy
<1>11. CASE TeardownPass
  <2>1. pc' \in Places /\ (pc' \in Watched => handlers') /\ SocketFollows'
    BY <1>11 DEF TeardownPass
  <2>2. ChannelFollows' /\ EngineFollows' /\ LinkFollows'
    BY <1>11 DEF TeardownPass
  <2>3. TypeOK'
    BY <1>11 DEF TeardownPass
  <2>4. out' = "running"
    BY <1>11 DEF TeardownPass
  <2> QED BY <2>1, <2>2, <2>3, <2>4
<1>12. CASE UnlinkXdp
  <2>1. pc' \in Places /\ (pc' \in Watched => handlers') /\ SocketFollows'
    BY <1>12 DEF UnlinkXdp
  <2>2. ChannelFollows' /\ EngineFollows' /\ LinkFollows'
    BY <1>12 DEF UnlinkXdp
  <2>3. TypeOK'
    BY <1>12 DEF UnlinkXdp
  <2>4. out' = "running"
    BY <1>12 DEF UnlinkXdp
  <2> QED BY <2>1, <2>2, <2>3, <2>4
<1>13. CASE Finish
  <2>1. pc' \in Places /\ (pc' \in Watched => handlers') /\ SocketFollows'
    BY <1>13 DEF Finish
  <2>2. ChannelFollows' /\ EngineFollows' /\ LinkFollows'
    BY <1>13 DEF Finish
  <2>3. TypeOK'
    BY <1>13 DEF Finish
  <2>4. ReturnsClean'
    BY <1>13, <2>3 DEF Finish
  <2> QED BY <2>1, <2>2, <2>3, <2>4
<1>14. CASE SocketExits \/ MapsOverrun \/ KatranAborts \/ PumpExits
  <2>1. /\ UNCHANGED <<fixed, pc, handlers, resources, terminate>>
        /\ out' \in {"exited", "aborted", "overrun"}
    BY <1>14 DEF SocketExits, MapsOverrun, KatranAborts, PumpExits, End
  <2> QED BY <2>1, Stays
<1>15. CASE PassCrashes \/ DisconnectCrashes \/ SocketCrashes
  <2>1. UNCHANGED <<fixed, pc, handlers, resources, terminate>> /\ out' = "crashed"
    BY <1>15 DEF PassCrashes, DisconnectCrashes, SocketCrashes, End
  <2> QED BY <2>1, Stays
<1>16. CASE Signal
  <2>1. /\ UNCHANGED <<fixed, pc, handlers, resources>> /\ terminate' \in BOOLEAN
        /\ out' \in {out, "killed"}
    BY <1>16 DEF Signal, End
  <2> QED BY <2>1, Stays
<1>17. CASE UNCHANGED vars
  <2>1. /\ UNCHANGED <<fixed, pc, handlers, resources>> /\ terminate' \in BOOLEAN
        /\ out' = out
    BY <1>17 DEF vars
  <2> QED BY <2>1, Stays
<1> QED BY <1>1, <1>2, <1>3, <1>4, <1>5, <1>6, <1>7, <1>8, <1>9, <1>10, <1>11, <1>12,
           <1>13, <1>14, <1>15, <1>16, <1>17 DEF Next, Main

LEMMA InvariantHolds == Spec => []IInv
BY Initially, Inductive, PTL DEF Spec

\* main that returns has closed what it opened and left its channel, whichever
\* step of the setup failed: what each label of the teardown leaves out was
\* never there (servant.c:161-173).
THEOREM CleanReturns == Spec => []ReturnsClean
<1>1. IInv => ReturnsClean
  BY DEF IInv
<1> QED BY <1>1, InvariantHolds, PTL

\* The pump runs with its socket open and entered, its signals handled and the
\* whole program loaded, whatever size the file and the buffer have.
THEOREM PumpsHaveAll == Spec => []PumpHasAll
<1>1. IInv => PumpHasAll
  BY DEF IInv, PumpHasAll, SocketFollows, EngineFollows, Watched, WithEngine, WithSocket, WithChannel,
         WhenEntered
<1> QED BY <1>1, InvariantHolds, PTL
================================================================================
