-------------------------- MODULE SioServerProofs --------------------------
(***************************************************************************)
(* Proofs about SioServer: the type invariant and OneSidPerEsid hold in    *)
(* every reachable state, for every value of the constants.                *)
(*                                                                         *)
(* Neither is inductive as it stands.  TypeOK needs to know that the       *)
(* recv_event task's locals are well formed in each of its phases and that *)
(* every socket a handler or an emit task uses has a namespace;            *)
(* OneSidPerEsid needs to know that a sid the task is about to register is *)
(* either registered already (the upgrade path) or the first sid of its    *)
(* session (SidInv).                                                       *)
(***************************************************************************)
EXTENDS SioServer, TLAPS

Busy == {"connecting", "callback", "handshake", "register"}
Inserting == {"callback", "handshake", "register"}

(* The recv_event task's locals in each phase.                            *)
LoopInv ==
  /\ loop.pc \in Busy =>
       /\ loop.esid \in Esids
       /\ loop.sid \in Sids
       /\ decode(loop.sid) = loop.esid
  /\ loop.pc \in Inserting =>
       /\ sockNsp[loop.sid] \in Registered
       /\ loop.nsp = sockNsp[loop.sid]
  /\ loop.pc = "dropRooms" => loop.esid \in Esids

(* Poll tasks and spawned emit tasks use sockets that have a namespace.   *)
SocketInv ==
  /\ \A s \in polling : sockNsp[s] \in Registered
  /\ \A t \in tasks : sockNsp[t[2]] \in Registered

(* The sid being inserted is registered or its session has no sid yet.   *)
SidInv ==
  loop.pc \in Busy =>
    \/ loop.sid \in clients
    \/ \A s \in clients : decode(s) # loop.esid

IInv == TypeOK /\ LoopInv /\ SocketInv /\ SidInv /\ OneSidPerEsid

-----------------------------------------------------------------------------
LEMMA InitIInv == Init => IInv
<1> SUFFICES ASSUME Init PROVE IInv
  OBVIOUS
<1> USE RegisteredAssumption, NoneAssumption, BoundsAssumption DEF Init
<1>1. loop \in [pc : LoopPcs, esid : Esids \cup {None}, sid : Sids \cup {None},
                nsp : Nsps \cup {None}, hs : BOOLEAN]
  BY DEF Idle, LoopPcs
<1>2. bcast \in [1 .. MaxCalls -> [nsp : Nsps \cup {None}, todo : SUBSET Names,
                                   ack : BOOLEAN]]
  BY DEF NoCall
<1>a. engine \in [Esids -> {"new", "open", "closed"}] /\ opens \in [Esids -> 0 .. MaxOpens]
  OBVIOUS
<1>b. sent \in [Esids -> 0 .. MaxPackets] /\ events \in Seq(EngineEvents)
  OBVIOUS
<1>c. inbox \in [Esids -> Seq(PeerPackets)] /\ out \in [Esids -> Seq(OutPackets)]
  OBVIOUS
<1>d. sockNsp \in [Sids -> Nsps \cup {None}] /\ seq \in 0 .. MaxSeq
  OBVIOUS
<1>e. members \in [Nsps -> [RoomNames -> SUBSET Sids]] /\ roomKeys \in [Nsps -> SUBSET RoomNames]
  OBVIOUS
<1>f. /\ clients \subseteq Sids /\ \A c \in clients : sockNsp[c] \in Registered
      /\ polling \subseteq Sids /\ tasks \subseteq (1 .. MaxCalls) \X Sids
      /\ calls \in 0 .. MaxCalls /\ dropped \subseteq Esids
  OBVIOUS
<1>3. TypeOK
  BY <1>1, <1>2, <1>a, <1>b, <1>c, <1>d, <1>e, <1>f, Zenon
  DEF TypeOK, EnvTypeOK, LoopTypeOK, RegistryTypeOK, RoomsTypeOK, EmitTypeOK
<1>4. LoopInv /\ SidInv
  BY DEF LoopInv, SidInv, Idle, Busy, Inserting
<1>5. QED
  BY <1>3, <1>4 DEF IInv, SocketInv, OneSidPerEsid

-----------------------------------------------------------------------------

(* Writing a well-typed packet on a session keeps out well typed.         *)
LEMMA SendType ==
  ASSUME NEW e \in Esids, NEW p \in OutPackets,
         out \in [Esids -> Seq(OutPackets)],
         Send(e, p)
  PROVE  out' \in [Esids -> Seq(OutPackets)]
  BY DEF Send


LEMMA EngineOpenIInv ==
  ASSUME NEW e \in Esids,
         IInv, EngineOpen(e)
  PROVE  IInv'
<1> USE RegisteredAssumption, NoneAssumption, BoundsAssumption
    DEF IInv, EngineOpen, envVars, roomVars, emitVars
<1>1. EnvTypeOK'
  <2>1. (engine \in [Esids -> {"new", "open", "closed"}])'
    BY DEF TypeOK, EnvTypeOK, EngineEvents
  <2>2. (opens \in [Esids -> 0 .. MaxOpens])'
    BY DEF TypeOK, EnvTypeOK, EngineEvents
  <2>3. (events \in Seq(EngineEvents))'
    BY DEF TypeOK, EnvTypeOK, EngineEvents
  <2>4. QED
    BY <2>1, <2>2, <2>3 DEF TypeOK, EnvTypeOK
<1>2. QED
  BY <1>1 DEF TypeOK, EnvTypeOK, LoopTypeOK, RegistryTypeOK, RoomsTypeOK,
     EmitTypeOK, LoopInv, SocketInv, SidInv, OneSidPerEsid

LEMMA EngineUpgradeIInv ==
  ASSUME NEW e \in Esids,
         IInv, EngineUpgrade(e)
  PROVE  IInv'
<1> USE RegisteredAssumption, NoneAssumption, BoundsAssumption
    DEF IInv, EngineUpgrade, envVars, roomVars, emitVars
<1>1. EnvTypeOK'
  <2>1. (opens \in [Esids -> 0 .. MaxOpens])'
    BY DEF TypeOK, EnvTypeOK, EngineEvents
  <2>2. (events \in Seq(EngineEvents))'
    BY DEF TypeOK, EnvTypeOK, EngineEvents
  <2>3. QED
    BY <2>1, <2>2 DEF TypeOK, EnvTypeOK
<1>2. QED
  BY <1>1 DEF TypeOK, EnvTypeOK, LoopTypeOK, RegistryTypeOK, RoomsTypeOK,
     EmitTypeOK, LoopInv, SocketInv, SidInv, OneSidPerEsid

LEMMA EngineCloseIInv ==
  ASSUME NEW e \in Esids,
         IInv, EngineClose(e)
  PROVE  IInv'
<1> USE RegisteredAssumption, NoneAssumption, BoundsAssumption
    DEF IInv, EngineClose, envVars, roomVars, emitVars
<1>1. EnvTypeOK'
  <2>1. (engine \in [Esids -> {"new", "open", "closed"}])'
    BY DEF TypeOK, EnvTypeOK, EngineEvents
  <2>2. (events \in Seq(EngineEvents))'
    BY DEF TypeOK, EnvTypeOK, EngineEvents
  <2>3. QED
    BY <2>1, <2>2 DEF TypeOK, EnvTypeOK
<1>2. QED
  BY <1>1 DEF TypeOK, EnvTypeOK, LoopTypeOK, RegistryTypeOK, RoomsTypeOK,
     EmitTypeOK, LoopInv, SocketInv, SidInv, OneSidPerEsid

LEMMA PeerSendIInv ==
  ASSUME NEW e \in Esids, NEW p \in PeerPackets,
         IInv, PeerSend(e, p)
  PROVE  IInv'
<1> USE RegisteredAssumption, NoneAssumption, BoundsAssumption
    DEF IInv, PeerSend, envVars, roomVars, emitVars
<1>1. EnvTypeOK'
  <2>1. (sent \in [Esids -> 0 .. MaxPackets])'
    BY DEF TypeOK, EnvTypeOK
  <2>2. (inbox \in [Esids -> Seq(PeerPackets)])'
    BY DEF TypeOK, EnvTypeOK
  <2>3. QED
    BY <2>1, <2>2 DEF TypeOK, EnvTypeOK
<1>2. QED
  BY <1>1 DEF TypeOK, EnvTypeOK, LoopTypeOK, RegistryTypeOK, RoomsTypeOK,
     EmitTypeOK, LoopInv, SocketInv, SidInv, OneSidPerEsid

LEMMA CreateClientIInv ==
  ASSUME IInv, CreateClient
  PROVE  IInv'
<1> USE RegisteredAssumption, NoneAssumption, BoundsAssumption
    DEF IInv, CreateClient, envVars, roomVars, emitVars
<1>a. loop.pc = "idle" /\ events # << >> /\ Head(events) \in EngineEvents
  BY DEF CreateClient, TypeOK, EnvTypeOK
<1>b. Head(events).esid \in Esids
  BY <1>a DEF EngineEvents
<1>c. \/ loop' = loop /\ seq' = seq
      \/ \E s \in clients :
           /\ decode(s) = Head(events).esid
           /\ loop' = [pc |-> "callback", esid |-> Head(events).esid, sid |-> s,
                       nsp |-> sockNsp[s], hs |-> FALSE]
           /\ seq' = seq
      \/ /\ \A s \in clients : decode(s) # Head(events).esid
         /\ seq < MaxSeq /\ seq' = seq + 1
         /\ loop' = [pc |-> "connecting", esid |-> Head(events).esid,
                     sid |-> <<Head(events).esid, seq>>, nsp |-> None, hs |-> TRUE]
  BY DEF CreateClient, PollingTransportInfo, generate
<1>1. EnvTypeOK'
  <2>1. (events \in Seq(EngineEvents))'
    BY <1>a, <1>b, <1>c DEF TypeOK, EnvTypeOK, PollingTransportInfo, generate, decode, Sids, LoopPcs, EngineEvents
  <2>2. QED
    BY <2>1 DEF TypeOK, EnvTypeOK
<1>2. LoopTypeOK'
  <2>1. (loop \in [pc : LoopPcs, esid : Esids \cup {None}, sid : Sids \cup {None}, nsp : Nsps \cup {None}, hs : BOOLEAN])'
    <3>1. CASE loop' = loop /\ seq' = seq
      BY <3>1 DEF TypeOK, LoopTypeOK
    <3>2. CASE \E s \in clients :
                 /\ decode(s) = Head(events).esid
                 /\ loop' = [pc |-> "callback", esid |-> Head(events).esid, sid |-> s,
                             nsp |-> sockNsp[s], hs |-> FALSE]
                 /\ seq' = seq
      BY <3>2, <1>b DEF TypeOK, RegistryTypeOK, LoopPcs
    <3>3. CASE /\ \A s \in clients : decode(s) # Head(events).esid
               /\ seq < MaxSeq /\ seq' = seq + 1
               /\ loop' = [pc |-> "connecting", esid |-> Head(events).esid,
                           sid |-> <<Head(events).esid, seq>>, nsp |-> None, hs |-> TRUE]
      BY <3>3, <1>b DEF TypeOK, LoopTypeOK, LoopPcs, Sids
    <3>4. QED
      BY <1>c, <3>1, <3>2, <3>3
  <2>2. (seq \in 0 .. MaxSeq)'
    BY <1>c DEF TypeOK, LoopTypeOK
  <2>3. QED
    BY <2>1, <2>2 DEF TypeOK, LoopTypeOK
<1>3. LoopInv'
  <2>1. CASE loop' = loop /\ seq' = seq
    BY <2>1 DEF LoopInv
  <2>2. CASE \E s \in clients :
               /\ decode(s) = Head(events).esid
               /\ loop' = [pc |-> "callback", esid |-> Head(events).esid, sid |-> s,
                           nsp |-> sockNsp[s], hs |-> FALSE]
               /\ seq' = seq
    <3>1. PICK s \in clients :
               /\ decode(s) = Head(events).esid
               /\ loop' = [pc |-> "callback", esid |-> Head(events).esid, sid |-> s,
                           nsp |-> sockNsp[s], hs |-> FALSE]
      BY <2>2
    <3>2. s \in Sids /\ sockNsp[s] \in Registered
      BY DEF TypeOK, RegistryTypeOK
    <3>3. QED
      BY <3>1, <3>2, <1>b DEF LoopInv, Busy, Inserting
  <2>3. CASE /\ \A s \in clients : decode(s) # Head(events).esid
             /\ seq < MaxSeq /\ seq' = seq + 1
             /\ loop' = [pc |-> "connecting", esid |-> Head(events).esid,
                         sid |-> <<Head(events).esid, seq>>, nsp |-> None, hs |-> TRUE]
    <3>1. <<Head(events).esid, seq>> \in Sids
      BY <2>3, <1>b DEF TypeOK, LoopTypeOK, Sids
    <3>2. QED
      BY <2>3, <3>1, <1>b DEF LoopInv, Busy, Inserting, decode
  <2>4. QED
    BY <1>c, <2>1, <2>2, <2>3
<1>4. SidInv'
  BY <1>a, <1>c DEF SidInv, Busy
<1>5. QED
  BY <1>1, <1>2, <1>3, <1>4 DEF TypeOK, EnvTypeOK, LoopTypeOK, RegistryTypeOK, RoomsTypeOK,
     EmitTypeOK, LoopInv, SocketInv, SidInv, OneSidPerEsid

LEMMA HandleConnectIInv ==
  ASSUME IInv, HandleConnect
  PROVE  IInv'
<1> USE RegisteredAssumption, NoneAssumption, BoundsAssumption
    DEF IInv, HandleConnect, envVars, roomVars, emitVars
<1>a. loop.pc = "connecting" /\ inbox[loop.esid] # << >>
  BY DEF HandleConnect
<1>b. loop.esid \in Esids /\ loop.sid \in Sids /\ decode(loop.sid) = loop.esid
  BY <1>a DEF LoopInv, Busy
<1>c. Head(inbox[loop.esid]) \in PeerPackets
  BY <1>a, <1>b DEF TypeOK, EnvTypeOK
<1>d. \/ /\ Head(inbox[loop.esid]).nsp \in Registered
         /\ loop' = [loop EXCEPT !.pc = "callback", !.nsp = Head(inbox[loop.esid]).nsp]
         /\ sockNsp' = [sockNsp EXCEPT ![loop.sid] = Head(inbox[loop.esid]).nsp]
      \/ loop' = Idle /\ sockNsp' = sockNsp
      \/ loop' = loop /\ sockNsp' = sockNsp
  BY DEF HandleConnect, InsertClients
<1>1. EnvTypeOK'
  <2>1. (inbox \in [Esids -> Seq(PeerPackets)])'
    BY <1>a, <1>b, <1>c, <1>d DEF TypeOK, EnvTypeOK, InsertClients, Idle, LoopPcs, PeerPackets
  <2>2. QED
    BY <2>1 DEF TypeOK, EnvTypeOK
<1>2. LoopTypeOK'
  <2>1. (loop \in [pc : LoopPcs, esid : Esids \cup {None}, sid : Sids \cup {None}, nsp : Nsps \cup {None}, hs : BOOLEAN])'
    <3>1. CASE Head(inbox[loop.esid]).nsp \in Registered
                /\ loop' = [loop EXCEPT !.pc = "callback", !.nsp = Head(inbox[loop.esid]).nsp]
                /\ sockNsp' = [sockNsp EXCEPT ![loop.sid] = Head(inbox[loop.esid]).nsp]
      BY <3>1, <1>b, RegisteredAssumption DEF TypeOK, LoopTypeOK, LoopPcs
    <3>2. CASE loop' = Idle /\ sockNsp' = sockNsp
      BY <3>2 DEF LoopPcs, Idle
    <3>3. CASE loop' = loop /\ sockNsp' = sockNsp
      BY <3>3 DEF TypeOK, LoopTypeOK
    <3>4. QED
      BY <1>d, <3>1, <3>2, <3>3
  <2>2. QED
    BY <2>1 DEF TypeOK, LoopTypeOK
<1>3. RegistryTypeOK'
  <2>1. (sockNsp \in [Sids -> Nsps \cup {None}])'
    BY <1>b, <1>d DEF TypeOK, RegistryTypeOK
  <2>2. (\A c \in clients : sockNsp[c] \in Registered)'
    BY <1>b, <1>d DEF TypeOK, RegistryTypeOK
  <2>3. QED
    BY <2>1, <2>2 DEF TypeOK, RegistryTypeOK
<1>4. LoopInv'
  <3>1. CASE Head(inbox[loop.esid]).nsp \in Registered
                /\ loop' = [loop EXCEPT !.pc = "callback", !.nsp = Head(inbox[loop.esid]).nsp]
                /\ sockNsp' = [sockNsp EXCEPT ![loop.sid] = Head(inbox[loop.esid]).nsp]
    BY <3>1, <1>b DEF LoopInv, TypeOK, LoopTypeOK, RegistryTypeOK, Busy, Inserting
  <3>2. CASE loop' = Idle /\ sockNsp' = sockNsp
    BY <3>2 DEF LoopInv, Busy, Inserting, Idle
  <3>3. CASE loop' = loop /\ sockNsp' = sockNsp
    BY <3>3 DEF LoopInv
  <3>4. QED
    BY <1>d, <3>1, <3>2, <3>3
<1>5. SocketInv'
  <3>1. CASE Head(inbox[loop.esid]).nsp \in Registered
                /\ loop' = [loop EXCEPT !.pc = "callback", !.nsp = Head(inbox[loop.esid]).nsp]
                /\ sockNsp' = [sockNsp EXCEPT ![loop.sid] = Head(inbox[loop.esid]).nsp]
    BY <3>1, <1>b DEF SocketInv, TypeOK, RegistryTypeOK
  <3>2. CASE loop' = Idle /\ sockNsp' = sockNsp
    BY <3>2 DEF SocketInv
  <3>3. CASE loop' = loop /\ sockNsp' = sockNsp
    BY <3>3 DEF SocketInv
  <3>4. QED
    BY <1>d, <3>1, <3>2, <3>3
<1>6. SidInv'
  <3>1. CASE Head(inbox[loop.esid]).nsp \in Registered
                /\ loop' = [loop EXCEPT !.pc = "callback", !.nsp = Head(inbox[loop.esid]).nsp]
                /\ sockNsp' = [sockNsp EXCEPT ![loop.sid] = Head(inbox[loop.esid]).nsp]
    BY <3>1, <1>a DEF SidInv, Busy, TypeOK, LoopTypeOK
  <3>2. CASE loop' = Idle /\ sockNsp' = sockNsp
    BY <3>2 DEF SidInv, Busy, Idle
  <3>3. CASE loop' = loop /\ sockNsp' = sockNsp
    BY <3>3 DEF SidInv
  <3>4. QED
    BY <1>d, <3>1, <3>2, <3>3
<1>7. QED
  BY <1>1, <1>2, <1>3, <1>4, <1>5, <1>6 DEF TypeOK, EnvTypeOK, LoopTypeOK, RegistryTypeOK, RoomsTypeOK,
     EmitTypeOK, LoopInv, SocketInv, SidInv, OneSidPerEsid

LEMMA HandleConnectEndIInv ==
  ASSUME IInv, HandleConnectEnd
  PROVE  IInv'
<1> USE RegisteredAssumption, NoneAssumption, BoundsAssumption
    DEF IInv, HandleConnectEnd, envVars, roomVars, emitVars
<1>1. LoopTypeOK'
  <2>1. (loop \in [pc : LoopPcs, esid : Esids \cup {None}, sid : Sids \cup {None}, nsp : Nsps \cup {None}, hs : BOOLEAN])'
    BY DEF TypeOK, LoopTypeOK, Idle, LoopPcs
  <2>2. QED
    BY <2>1 DEF TypeOK, LoopTypeOK
<1>2. LoopInv'
  BY DEF LoopInv, TypeOK, LoopTypeOK, RegistryTypeOK, Busy, Inserting, Idle, LoopPcs
<1>3. SidInv'
  BY DEF SidInv, TypeOK, LoopTypeOK, RegistryTypeOK, Busy, Inserting, Idle, LoopPcs
<1>4. QED
  BY <1>1, <1>2, <1>3 DEF TypeOK, EnvTypeOK, LoopTypeOK, RegistryTypeOK, RoomsTypeOK,
     EmitTypeOK, LoopInv, SocketInv, SidInv, OneSidPerEsid

LEMMA ConnectCallbackDoneIInv ==
  ASSUME IInv, ConnectCallbackDone
  PROVE  IInv'
<1> USE RegisteredAssumption, NoneAssumption, BoundsAssumption
    DEF IInv, ConnectCallbackDone, envVars, roomVars, emitVars
<1>1. LoopTypeOK'
  <2>1. (loop \in [pc : LoopPcs, esid : Esids \cup {None}, sid : Sids \cup {None}, nsp : Nsps \cup {None}, hs : BOOLEAN])'
    BY DEF TypeOK, LoopTypeOK, LoopPcs, LoopInv, Busy, Inserting
  <2>2. QED
    BY <2>1 DEF TypeOK, LoopTypeOK
<1>2. RegistryTypeOK'
  <2>1. (polling \subseteq Sids)'
    BY DEF TypeOK, RegistryTypeOK, LoopPcs, LoopInv, Busy, Inserting, LoopTypeOK
  <2>2. QED
    BY <2>1 DEF TypeOK, RegistryTypeOK
<1>3. LoopInv'
  BY DEF LoopInv, TypeOK, LoopTypeOK, RegistryTypeOK, Busy, Inserting, LoopPcs
<1>4. SocketInv'
  BY DEF SocketInv, TypeOK, LoopTypeOK, RegistryTypeOK, Busy, Inserting, LoopPcs, LoopInv
<1>5. SidInv'
  BY DEF SidInv, TypeOK, LoopTypeOK, RegistryTypeOK, Busy, Inserting, LoopPcs, LoopInv
<1>6. QED
  BY <1>1, <1>2, <1>3, <1>4, <1>5 DEF TypeOK, EnvTypeOK, LoopTypeOK, RegistryTypeOK, RoomsTypeOK,
     EmitTypeOK, LoopInv, SocketInv, SidInv, OneSidPerEsid

LEMMA HandshakeIInv ==
  ASSUME IInv, Handshake
  PROVE  IInv'
<1> USE RegisteredAssumption, NoneAssumption, BoundsAssumption
    DEF IInv, Handshake, envVars, roomVars, emitVars
<1>a. loop.pc = "handshake"
  BY DEF Handshake
<1>b. loop.esid \in Esids /\ loop.nsp \in Nsps
  BY <1>a, RegisteredAssumption DEF LoopInv, Busy, Inserting
<1>1. EnvTypeOK'
  <2>1. (out \in [Esids -> Seq(OutPackets)])'
    <3>1. [type |-> "connect", bid |-> 0, nsp |-> loop.nsp] \in OutPackets
      BY <1>b, BoundsAssumption, RegisteredAssumption DEF OutPackets
    <3>2. Send(loop.esid, [type |-> "connect", bid |-> 0, nsp |-> loop.nsp])
      BY DEF Handshake
    <3>3. QED
      BY <3>1, <3>2, <1>b, SendType DEF TypeOK, EnvTypeOK
  <2>2. QED
    BY <2>1 DEF TypeOK, EnvTypeOK
<1>2. LoopTypeOK'
  <2>1. (loop \in [pc : LoopPcs, esid : Esids \cup {None}, sid : Sids \cup {None}, nsp : Nsps \cup {None}, hs : BOOLEAN])'
    BY <1>a, <1>b DEF TypeOK, LoopTypeOK, Send, OutPackets, LoopPcs
  <2>2. QED
    BY <2>1 DEF TypeOK, LoopTypeOK
<1>3. LoopInv'
  BY <1>a, <1>b DEF LoopInv, TypeOK, LoopTypeOK, RegistryTypeOK, Busy, Inserting, Send, OutPackets, LoopPcs
<1>4. SidInv'
  BY <1>a, <1>b DEF SidInv, TypeOK, LoopTypeOK, RegistryTypeOK, Busy, Inserting, Send, OutPackets, LoopPcs
<1>5. QED
  BY <1>1, <1>2, <1>3, <1>4 DEF TypeOK, EnvTypeOK, LoopTypeOK, RegistryTypeOK, RoomsTypeOK,
     EmitTypeOK, LoopInv, SocketInv, SidInv, OneSidPerEsid

LEMMA RegisterIInv ==
  ASSUME IInv, Register
  PROVE  IInv'
<1> USE RegisteredAssumption, NoneAssumption, BoundsAssumption
    DEF IInv, Register, envVars, roomVars, emitVars
<1>a. loop.pc = "register" /\ clients' = clients \cup {loop.sid}
  BY DEF Register
<1>b. decode(loop.sid) = loop.esid
  BY <1>a DEF LoopInv, Busy
<1>c. loop.sid \in clients \/ \A s \in clients : decode(s) # loop.esid
  BY <1>a DEF SidInv, Busy
<1>1. LoopTypeOK'
  <2>1. (loop \in [pc : LoopPcs, esid : Esids \cup {None}, sid : Sids \cup {None}, nsp : Nsps \cup {None}, hs : BOOLEAN])'
    BY <1>a, <1>b, <1>c DEF TypeOK, LoopTypeOK, Idle, LoopPcs, LoopInv, Busy, Inserting
  <2>2. QED
    BY <2>1 DEF TypeOK, LoopTypeOK
<1>2. RegistryTypeOK'
  <2>1. (clients \subseteq Sids)'
    BY <1>a, <1>b, <1>c DEF TypeOK, RegistryTypeOK, Idle, LoopPcs, LoopInv, Busy, Inserting, LoopTypeOK
  <2>2. (\A c \in clients : sockNsp[c] \in Registered)'
    BY <1>a, <1>b, <1>c DEF TypeOK, RegistryTypeOK, Idle, LoopPcs, LoopInv, Busy, Inserting, LoopTypeOK
  <2>3. QED
    BY <2>1, <2>2 DEF TypeOK, RegistryTypeOK
<1>3. LoopInv'
  BY <1>a, <1>b, <1>c DEF LoopInv, TypeOK, LoopTypeOK, RegistryTypeOK, Busy, Inserting, Idle, LoopPcs
<1>4. SidInv'
  BY <1>a, <1>b, <1>c DEF SidInv, TypeOK, LoopTypeOK, RegistryTypeOK, Busy, Inserting, Idle, LoopPcs, LoopInv
<1>5. OneSidPerEsid'
  BY <1>a, <1>b, <1>c DEF OneSidPerEsid
<1>6. QED
  BY <1>1, <1>2, <1>3, <1>4, <1>5 DEF TypeOK, EnvTypeOK, LoopTypeOK, RegistryTypeOK, RoomsTypeOK,
     EmitTypeOK, LoopInv, SocketInv, SidInv, OneSidPerEsid

LEMMA DropClientIInv ==
  ASSUME IInv, DropClient
  PROVE  IInv'
<1> USE RegisteredAssumption, NoneAssumption, BoundsAssumption
    DEF IInv, DropClient, envVars, roomVars, emitVars
<1>a. loop.pc = "idle" /\ events # << >> /\ Head(events) \in EngineEvents
  BY DEF DropClient, TypeOK, EnvTypeOK
<1>b. Head(events).esid \in Esids
  BY <1>a DEF EngineEvents
<1>c. loop' = [Idle EXCEPT !.pc = "dropRooms", !.esid = Head(events).esid]
  BY DEF DropClient
<1>1. EnvTypeOK'
  <2>1. (engine \in [Esids -> {"new", "open", "closed"}])'
    BY <1>a, <1>b, <1>c DEF TypeOK, EnvTypeOK, Idle, LoopPcs, EngineEvents
  <2>2. (events \in Seq(EngineEvents))'
    BY <1>a, <1>b, <1>c DEF TypeOK, EnvTypeOK, Idle, LoopPcs, EngineEvents
  <2>3. QED
    BY <2>1, <2>2 DEF TypeOK, EnvTypeOK
<1>2. LoopTypeOK'
  <2>1. (loop \in [pc : LoopPcs, esid : Esids \cup {None}, sid : Sids \cup {None}, nsp : Nsps \cup {None}, hs : BOOLEAN])'
    BY <1>b, <1>c DEF TypeOK, LoopTypeOK, Idle, LoopPcs
  <2>2. QED
    BY <2>1 DEF TypeOK, LoopTypeOK
<1>3. RegistryTypeOK'
  <2>1. (clients \subseteq Sids)'
    BY <1>a, <1>b, <1>c DEF TypeOK, RegistryTypeOK, Idle, LoopPcs, EngineEvents
  <2>2. (\A c \in clients : sockNsp[c] \in Registered)'
    BY <1>a, <1>b, <1>c DEF TypeOK, RegistryTypeOK, Idle, LoopPcs, EngineEvents
  <2>3. QED
    BY <2>1, <2>2 DEF TypeOK, RegistryTypeOK
<1>4. LoopInv'
  BY <1>b, <1>c DEF LoopInv, Busy, Inserting, Idle
<1>5. SidInv'
  BY <1>a, <1>b, <1>c DEF SidInv, TypeOK, LoopTypeOK, RegistryTypeOK, Busy, Inserting, Idle, LoopPcs, EngineEvents
<1>6. OneSidPerEsid'
  BY <1>a, <1>b, <1>c DEF OneSidPerEsid, TypeOK, LoopTypeOK, RegistryTypeOK, Busy, Inserting, Idle, LoopPcs, EngineEvents
<1>7. QED
  BY <1>1, <1>2, <1>3, <1>4, <1>5, <1>6 DEF TypeOK, EnvTypeOK, LoopTypeOK, RegistryTypeOK, RoomsTypeOK,
     EmitTypeOK, LoopInv, SocketInv, SidInv, OneSidPerEsid

LEMMA DropRoomsIInv ==
  ASSUME IInv, DropRooms
  PROVE  IInv'
<1> USE RegisteredAssumption, NoneAssumption, BoundsAssumption
    DEF IInv, DropRooms, envVars, roomVars, emitVars
<1>1. LoopTypeOK'
  <2>1. (loop \in [pc : LoopPcs, esid : Esids \cup {None}, sid : Sids \cup {None}, nsp : Nsps \cup {None}, hs : BOOLEAN])'
    BY DEF TypeOK, LoopTypeOK, Idle, LoopPcs, LoopInv
  <2>2. QED
    BY <2>1 DEF TypeOK, LoopTypeOK
<1>2. RegistryTypeOK'
  <2>1. (dropped \subseteq Esids)'
    BY DEF TypeOK, RegistryTypeOK, Idle, LoopPcs, LoopInv, LoopTypeOK
  <2>2. QED
    BY <2>1 DEF TypeOK, RegistryTypeOK
<1>3. RoomsTypeOK'
  <2>1. (members \in [Nsps -> [RoomNames -> SUBSET Sids]])'
    BY DEF TypeOK, RoomsTypeOK, Idle, LoopPcs, LoopInv, LoopTypeOK
  <2>2. QED
    BY <2>1 DEF TypeOK, RoomsTypeOK
<1>4. LoopInv'
  BY DEF LoopInv, TypeOK, LoopTypeOK, RegistryTypeOK, Busy, Inserting, Idle, LoopPcs
<1>5. SidInv'
  BY DEF SidInv, TypeOK, LoopTypeOK, RegistryTypeOK, Busy, Inserting, Idle, LoopPcs, LoopInv
<1>6. QED
  BY <1>1, <1>2, <1>3, <1>4, <1>5 DEF TypeOK, EnvTypeOK, LoopTypeOK, RegistryTypeOK, RoomsTypeOK,
     EmitTypeOK, LoopInv, SocketInv, SidInv, OneSidPerEsid

LEMMA JoinIInv ==
  ASSUME NEW s \in Sids, NEW r \in RoomNames,
         IInv, Join(s, r)
  PROVE  IInv'
<1> USE RegisteredAssumption, NoneAssumption, BoundsAssumption
    DEF IInv, Join, envVars, roomVars, emitVars
<1>1. RoomsTypeOK'
  <2>1. (roomKeys \in [Nsps -> SUBSET RoomNames])'
    BY DEF TypeOK, RoomsTypeOK, Call, Handlers
  <2>2. (members \in [Nsps -> [RoomNames -> SUBSET Sids]])'
    BY DEF TypeOK, RoomsTypeOK, Call, Handlers
  <2>3. QED
    BY <2>1, <2>2 DEF TypeOK, RoomsTypeOK
<1>2. EmitTypeOK'
  <2>1. (calls \in 0 .. MaxCalls)'
    BY DEF TypeOK, EmitTypeOK, Call, Handlers
  <2>2. QED
    BY <2>1 DEF TypeOK, EmitTypeOK
<1>3. QED
  BY <1>1, <1>2 DEF TypeOK, EnvTypeOK, LoopTypeOK, RegistryTypeOK, RoomsTypeOK,
     EmitTypeOK, LoopInv, SocketInv, SidInv, OneSidPerEsid

LEMMA LeaveIInv ==
  ASSUME NEW s \in Sids, NEW r \in RoomNames,
         IInv, Leave(s, r)
  PROVE  IInv'
<1> USE RegisteredAssumption, NoneAssumption, BoundsAssumption
    DEF IInv, Leave, envVars, roomVars, emitVars
<1>1. RoomsTypeOK'
  <2>1. (members \in [Nsps -> [RoomNames -> SUBSET Sids]])'
    BY DEF TypeOK, RoomsTypeOK, Call, Handlers
  <2>2. QED
    BY <2>1 DEF TypeOK, RoomsTypeOK
<1>2. EmitTypeOK'
  <2>1. (calls \in 0 .. MaxCalls)'
    BY DEF TypeOK, EmitTypeOK, Call, Handlers
  <2>2. QED
    BY <2>1 DEF TypeOK, EmitTypeOK
<1>3. QED
  BY <1>1, <1>2 DEF TypeOK, EnvTypeOK, LoopTypeOK, RegistryTypeOK, RoomsTypeOK,
     EmitTypeOK, LoopInv, SocketInv, SidInv, OneSidPerEsid

LEMMA EmitIInv ==
  ASSUME NEW s \in Sids,
         IInv, Emit(s)
  PROVE  IInv'
<1> USE RegisteredAssumption, NoneAssumption, BoundsAssumption
    DEF IInv, Emit, envVars, roomVars, emitVars
<1>a. calls < MaxCalls /\ calls' = calls + 1
  BY DEF Call
<1>b. sockNsp[s] \in Registered
  BY DEF Call, Handlers, SocketInv, LoopInv, Inserting
<1>c. decode(s) \in Esids
  BY DEF Sids, decode
<1>1. EnvTypeOK'
  <2>1. (out \in [Esids -> Seq(OutPackets)])'
    <3>1. [type |-> "event", bid |-> 0, nsp |-> sockNsp[s]] \in OutPackets
      BY <1>b, <1>c, BoundsAssumption, RegisteredAssumption DEF OutPackets
    <3>2. Send(decode(s), [type |-> "event", bid |-> 0, nsp |-> sockNsp[s]])
      BY DEF Emit
    <3>3. QED
      BY <3>1, <3>2, <1>b, <1>c, SendType DEF TypeOK, EnvTypeOK
  <2>2. QED
    BY <2>1 DEF TypeOK, EnvTypeOK
<1>2. EmitTypeOK'
  <2>1. (calls \in 0 .. MaxCalls)'
    BY <1>a DEF TypeOK, EmitTypeOK
  <2>2. QED
    BY <2>1 DEF TypeOK, EmitTypeOK
<1>3. QED
  BY <1>1, <1>2 DEF TypeOK, EnvTypeOK, LoopTypeOK, RegistryTypeOK, RoomsTypeOK,
     EmitTypeOK, LoopInv, SocketInv, SidInv, OneSidPerEsid

LEMMA BroadcastIInv ==
  ASSUME NEW s \in Sids, NEW N \in EmitToArgs, NEW ack \in BOOLEAN,
         IInv, Broadcast(s, N, ack)
  PROVE  IInv'
<1> USE RegisteredAssumption, NoneAssumption, BoundsAssumption
    DEF IInv, Broadcast, envVars, roomVars, emitVars
<1>1. EmitTypeOK'
  <2>1. (bcast \in [1 .. MaxCalls -> [nsp : Nsps \cup {None}, todo : SUBSET Names,
                                     ack : BOOLEAN]])'
    BY DEF TypeOK, EmitTypeOK, Call, Handlers, SidsToEmit, Names, EmitToArgs, LoopInv, SocketInv, Busy, Inserting, LoopTypeOK, RegistryTypeOK, RoomsTypeOK
  <2>2. (calls \in 0 .. MaxCalls)'
    BY DEF TypeOK, EmitTypeOK, Call, Handlers, SidsToEmit, Names, EmitToArgs, LoopInv, SocketInv, Busy, Inserting, LoopTypeOK, RegistryTypeOK, RoomsTypeOK
  <2>3. QED
    BY <2>1, <2>2 DEF TypeOK, EmitTypeOK
<1>2. QED
  BY <1>1 DEF TypeOK, EnvTypeOK, LoopTypeOK, RegistryTypeOK, RoomsTypeOK,
     EmitTypeOK, LoopInv, SocketInv, SidInv, OneSidPerEsid

LEMMA EmitToLookupIInv ==
  ASSUME NEW b \in 1 .. MaxCalls, NEW x \in Names,
         IInv, EmitToLookup(b, x)
  PROVE  IInv'
<1> USE RegisteredAssumption, NoneAssumption, BoundsAssumption
    DEF IInv, EmitToLookup, envVars, roomVars, emitVars
<1>1. EmitTypeOK'
  <2>1. (bcast \in [1 .. MaxCalls -> [nsp : Nsps \cup {None}, todo : SUBSET Names,
                                     ack : BOOLEAN]])'
    BY DEF TypeOK, EmitTypeOK, client, Names, RegistryTypeOK
  <2>2. (tasks \subseteq (1 .. MaxCalls) \X Sids)'
    BY DEF TypeOK, EmitTypeOK, client, Names, RegistryTypeOK
  <2>3. QED
    BY <2>1, <2>2 DEF TypeOK, EmitTypeOK
<1>2. SocketInv'
  BY DEF SocketInv, TypeOK, LoopTypeOK, RegistryTypeOK, Busy, Inserting, client, Names
<1>3. QED
  BY <1>1, <1>2 DEF TypeOK, EnvTypeOK, LoopTypeOK, RegistryTypeOK, RoomsTypeOK,
     EmitTypeOK, LoopInv, SocketInv, SidInv, OneSidPerEsid

LEMMA EmitTaskIInv ==
  ASSUME NEW b \in 1 .. MaxCalls, NEW x \in Names,
         IInv, EmitTask(b, x)
  PROVE  IInv'
<1> USE RegisteredAssumption, NoneAssumption, BoundsAssumption
    DEF IInv, EmitTask, envVars, roomVars, emitVars
<1>a. x \in Sids /\ sockNsp[x] \in Registered
  BY DEF EmitTask, SocketInv, TypeOK, EmitTypeOK
<1>b. decode(x) \in Esids
  BY <1>a DEF decode, Sids
<1>1. EnvTypeOK'
  <2>1. (out \in [Esids -> Seq(OutPackets)])'
    <3>1. [type |-> IF bcast[b].ack THEN "ackEvent" ELSE "event",
           bid |-> b, nsp |-> sockNsp[x]] \in OutPackets
      BY <1>a, <1>b, BoundsAssumption, RegisteredAssumption DEF OutPackets
    <3>2. Send(decode(x), [type |-> IF bcast[b].ack THEN "ackEvent" ELSE "event",
                           bid |-> b, nsp |-> sockNsp[x]])
      BY DEF EmitTask
    <3>3. QED
      BY <3>1, <3>2, <1>a, <1>b, SendType DEF TypeOK, EnvTypeOK
  <2>2. QED
    BY <2>1 DEF TypeOK, EnvTypeOK
<1>2. EmitTypeOK'
  <2>1. (tasks \subseteq (1 .. MaxCalls) \X Sids)'
    BY <1>a, <1>b DEF TypeOK, EmitTypeOK, Send, OutPackets, decode, Sids
  <2>2. QED
    BY <2>1 DEF TypeOK, EmitTypeOK
<1>3. SocketInv'
  BY <1>a, <1>b DEF SocketInv, TypeOK, LoopTypeOK, RegistryTypeOK, Busy, Inserting, Send, OutPackets, decode, Sids
<1>4. QED
  BY <1>1, <1>2, <1>3 DEF TypeOK, EnvTypeOK, LoopTypeOK, RegistryTypeOK, RoomsTypeOK,
     EmitTypeOK, LoopInv, SocketInv, SidInv, OneSidPerEsid

LEMMA PollPacketIInv ==
  ASSUME NEW s \in Sids,
         IInv, PollPacket(s)
  PROVE  IInv'
<1> USE RegisteredAssumption, NoneAssumption, BoundsAssumption
    DEF IInv, PollPacket, envVars, roomVars, emitVars
<1>1. EnvTypeOK'
  <2>1. (inbox \in [Esids -> Seq(PeerPackets)])'
    BY DEF TypeOK, EnvTypeOK, decode, Sids
  <2>2. QED
    BY <2>1 DEF TypeOK, EnvTypeOK
<1>2. QED
  BY <1>1 DEF TypeOK, EnvTypeOK, LoopTypeOK, RegistryTypeOK, RoomsTypeOK,
     EmitTypeOK, LoopInv, SocketInv, SidInv, OneSidPerEsid

LEMMA PollEndIInv ==
  ASSUME NEW s \in Sids,
         IInv, PollEnd(s)
  PROVE  IInv'
<1> USE RegisteredAssumption, NoneAssumption, BoundsAssumption
    DEF IInv, PollEnd, envVars, roomVars, emitVars
<1>1. RegistryTypeOK'
  <2>1. (polling \subseteq Sids)'
    BY DEF TypeOK, RegistryTypeOK, decode, Sids
  <2>2. QED
    BY <2>1 DEF TypeOK, RegistryTypeOK
<1>2. SocketInv'
  BY DEF SocketInv, TypeOK, LoopTypeOK, RegistryTypeOK, Busy, Inserting, decode, Sids
<1>3. QED
  BY <1>1, <1>2 DEF TypeOK, EnvTypeOK, LoopTypeOK, RegistryTypeOK, RoomsTypeOK,
     EmitTypeOK, LoopInv, SocketInv, SidInv, OneSidPerEsid

LEMMA StutterIInv == IInv /\ UNCHANGED vars => IInv'
  BY DEF vars, IInv, TypeOK, EnvTypeOK, LoopTypeOK, RegistryTypeOK, RoomsTypeOK, EmitTypeOK, LoopInv, SocketInv, SidInv, OneSidPerEsid,
         Busy, Inserting

LEMMA NextIInv == IInv /\ [Next]_vars => IInv'
<1> SUFFICES ASSUME IInv, [Next]_vars PROVE IInv'
  OBVIOUS
<1>1. CASE Environment
  BY <1>1, EngineOpenIInv, EngineUpgradeIInv, EngineCloseIInv, PeerSendIInv
  DEF Environment
<1>2. CASE EventLoop
  BY <1>2, CreateClientIInv, HandleConnectIInv, HandleConnectEndIInv,
     ConnectCallbackDoneIInv, HandshakeIInv, RegisterIInv, DropClientIInv,
     DropRoomsIInv
  DEF EventLoop
<1>3. CASE Tasks
  BY <1>3, JoinIInv, LeaveIInv, EmitIInv, BroadcastIInv, EmitToLookupIInv,
     EmitTaskIInv, PollPacketIInv, PollEndIInv
  DEF Tasks, EmitTo, EmitToWithAck
<1>4. CASE UNCHANGED vars
  BY <1>4, StutterIInv
<1>5. QED
  BY <1>1, <1>2, <1>3, <1>4 DEF Next

LEMMA SpecIInv == Spec => []IInv
  BY InitIInv, NextIInv, PTL DEF Spec

(* Every reachable state is well typed, and every sid in Server.clients   *)
(* has a socket in a namespace with an event table.                       *)
THEOREM TypeCorrect == Spec => []TypeOK
  BY SpecIInv, PTL DEF IInv

(* For every number of sessions, namespaces and rooms and every bound, an *)
(* engine session never has two registered Socket.IO sids: the upgrade    *)
(* path of create_client reuses the sid.                                  *)
THEOREM SessionHasOneSid == Spec => []OneSidPerEsid
  BY SpecIInv, PTL DEF IInv

=============================================================================
