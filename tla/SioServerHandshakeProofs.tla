---------------------- MODULE SioServerHandshakeProofs ----------------------
(***************************************************************************)
(* Proof that an engine session receives at most one Socket.IO CONNECT    *)
(* (HandshakeAtMostOnce), for every value of the constants.               *)
(*                                                                         *)
(* create_client sends the handshake only on the path that mints a new     *)
(* sid, and takes that path only when polling_transport_info finds no     *)
(* registered sid of the session.  So once a CONNECT has been written,    *)
(* the session must already have a registered sid (ConnectOwned), or be    *)
(* about to register it, or be closed, which makes every later write a    *)
(* no-op; and a pending handshake finds nothing written yet               *)
(* (PendingHandshake).                                                     *)
(***************************************************************************)
EXTENDS SioServerProofs, FiniteSetTheorems

(* Nothing is written on a session the engine has not opened yet.         *)
NewSilent == \A e \in Esids : engine[e] = "new" => out[e] = << >>

(* At most one index of a session's packets holds a CONNECT.              *)
OneConnect == \A e \in Esids : \A i, j \in ConnectsSent(e) : i = j

(* A session that was sent a CONNECT is closed, has a registered sid, or  *)
(* is the one recv_event is about to register.                            *)
ConnectOwned ==
  \A e \in Esids :
    ConnectsSent(e) # {} =>
      \/ engine[e] = "closed"
      \/ PollingTransportInfo(e) # {}
      \/ loop.pc = "register" /\ loop.esid = e

(* The handshake recv_event is working towards has not been sent yet, or  *)
(* its session is closed.                                                  *)
PendingHandshake ==
  /\ loop.pc \in {"connecting", "callback", "handshake"} /\ loop.hs =>
       \/ ConnectsSent(loop.esid) = {}
       \/ engine[loop.esid] = "closed"
  /\ loop.pc = "handshake" => loop.hs

HInv == NewSilent /\ OneConnect /\ ConnectOwned /\ PendingHandshake


-----------------------------------------------------------------------------
USE RegisteredAssumption, NoneAssumption, BoundsAssumption, EsidsAssumption

(* Writing a packet that is not a CONNECT adds no CONNECT anywhere and    *)
(* writes nothing on a session that is not open.                          *)
LEMMA SendPlainConnects ==
  ASSUME NEW e \in Esids, NEW p, p.type # "connect",
         out \in [Esids -> Seq(OutPackets)], Send(e, p)
  PROVE  \A e2 \in Esids : /\ ConnectsSent(e2)' = ConnectsSent(e2)
                           /\ engine[e2] # "open" => out'[e2] = out[e2]
<1> SUFFICES ASSUME NEW e2 \in Esids
             PROVE  /\ ConnectsSent(e2)' = ConnectsSent(e2)
                    /\ engine[e2] # "open" => out'[e2] = out[e2]
  OBVIOUS
<1>1. CASE e2 = e /\ engine[e] = "open"
  <2>1. out'[e2] = Append(out[e2], p)
    BY <1>1 DEF Send
  <2>2. QED
    BY <1>1, <2>1 DEF ConnectsSent
<1>2. CASE ~(e2 = e /\ engine[e] = "open")
  <2>1. out'[e2] = out[e2]
    BY <1>2 DEF Send
  <2>2. QED
    BY <2>1 DEF ConnectsSent
<1>3. QED
  BY <1>1, <1>2

(* Writing a CONNECT on an open session adds its index there and nothing  *)
(* elsewhere.                                                              *)
LEMMA SendConnect ==
  ASSUME NEW e \in Esids, NEW p, p.type = "connect", engine[e] = "open",
         out \in [Esids -> Seq(OutPackets)], Send(e, p)
  PROVE  /\ ConnectsSent(e)' = ConnectsSent(e) \cup {Len(out[e]) + 1}
         /\ \A e2 \in Esids \ {e} : out'[e2] = out[e2]
<1>1. out'[e] = Append(out[e], p) /\ \A e2 \in Esids \ {e} : out'[e2] = out[e2]
  BY DEF Send
<1>2. QED
  BY <1>1 DEF ConnectsSent

(* A step that leaves the engine, the registered sids and every session's *)
(* CONNECTs alone, writes nothing on an unopened session and either keeps *)
(* recv_event's locals or returns it to idle from a phase other than      *)
(* register keeps HInv.                                                    *)
LEMMA HInvFrame ==
  ASSUME IInv, HInv, UNCHANGED <<engine, clients>>,
         \A e \in Esids : ConnectsSent(e)' = ConnectsSent(e),
         \A e \in Esids : engine[e] = "new" => out'[e] = out[e],
         UNCHANGED loop \/ (loop' = Idle /\ loop.pc # "register")
  PROVE  HInv'
<1>1. NewSilent' /\ OneConnect'
  BY DEF HInv, NewSilent, OneConnect
<1>2. PendingHandshake'
  <2>1. CASE UNCHANGED loop
    <3>1. loop.pc \in {"connecting", "callback", "handshake"} => loop.esid \in Esids
      BY DEF IInv, LoopInv, Busy
    <3>2. QED
      BY <2>1, <3>1 DEF HInv, PendingHandshake
  <2>2. CASE loop' = Idle
    BY <2>2 DEF PendingHandshake, Idle
  <2>3. QED
    BY <2>1, <2>2
<1>3. ConnectOwned'
  BY DEF HInv, ConnectOwned, PollingTransportInfo, Idle
<1>4. QED
  BY <1>1, <1>2, <1>3 DEF HInv

(* The same for a step that writes nothing at all.                        *)
LEMMA HInvQuiet ==
  ASSUME IInv, HInv, UNCHANGED <<engine, clients, out>>,
         UNCHANGED loop \/ (loop' = Idle /\ loop.pc # "register")
  PROVE  HInv'
<1>1. \A e \in Esids : ConnectsSent(e)' = ConnectsSent(e)
  BY DEF ConnectsSent
<1>2. QED
  BY <1>1, HInvFrame

LEMMA EnvironmentHInv == IInv /\ HInv /\ Environment => HInv'
<1> SUFFICES ASSUME IInv, HInv, Environment PROVE HInv'
  OBVIOUS
<1>0. /\ UNCHANGED <<out, loop, clients>>
      /\ engine \in [Esids -> {"new", "open", "closed"}]
  BY DEF Environment, EngineOpen, EngineUpgrade, EngineClose, PeerSend,
         IInv, TypeOK, EnvTypeOK
<1>1. CASE \E e \in Esids : EngineUpgrade(e) \/ \E p \in PeerPackets : PeerSend(e, p)
  <2>1. UNCHANGED engine
    BY <1>1 DEF EngineUpgrade, PeerSend
  <2>2. QED
    BY <1>0, <2>1, HInvQuiet
<1>2. CASE \E e \in Esids : EngineOpen(e)
  <2>1. PICK e \in Esids : EngineOpen(e)
    BY <1>2
  <2>2. /\ engine' = [engine EXCEPT ![e] = "open"] /\ engine[e] = "new"
        /\ out[e] = << >> /\ ConnectsSent(e) = {}
    BY <2>1 DEF EngineOpen, HInv, NewSilent, ConnectsSent
  <2>3. NewSilent' /\ OneConnect'
    BY <1>0, <2>2 DEF HInv, NewSilent, OneConnect, ConnectsSent
  <2>4. ConnectOwned'
    BY <1>0, <2>2 DEF HInv, ConnectOwned, ConnectsSent, PollingTransportInfo
  <2>5. PendingHandshake'
    BY <1>0, <2>2 DEF HInv, PendingHandshake, ConnectsSent
  <2>6. QED
    BY <2>3, <2>4, <2>5 DEF HInv
<1>3. CASE \E e \in Esids : EngineClose(e)
  <2>1. PICK e \in Esids : EngineClose(e)
    BY <1>3
  <2>2. engine' = [engine EXCEPT ![e] = "closed"] /\ engine[e] = "open"
    BY <2>1 DEF EngineClose
  <2>3. NewSilent' /\ OneConnect'
    BY <1>0, <2>2 DEF HInv, NewSilent, OneConnect, ConnectsSent
  <2>4. ConnectOwned'
    BY <1>0, <2>2 DEF HInv, ConnectOwned, ConnectsSent, PollingTransportInfo
  <2>5. PendingHandshake'
    BY <1>0, <2>2 DEF HInv, PendingHandshake, ConnectsSent
  <2>6. QED
    BY <2>3, <2>4, <2>5 DEF HInv
<1>4. QED
  BY <1>1, <1>2, <1>3 DEF Environment

LEMMA CreateClientHInv == IInv /\ HInv /\ CreateClient => HInv'
<1> SUFFICES ASSUME IInv, HInv, CreateClient PROVE HInv'
  OBVIOUS
<1> DEFINE e == Head(events).esid
<1>0. /\ e \in Esids /\ loop.pc = "idle"
      /\ UNCHANGED <<engine, out, clients>>
  <2>1. events \in Seq(EngineEvents) /\ events # << >>
    BY DEF CreateClient, IInv, TypeOK, EnvTypeOK
  <2>2. Head(events) \in EngineEvents
    BY <2>1
  <2>3. QED
    BY <2>2 DEF CreateClient, EngineEvents
<1>1. CASE UNCHANGED loop
  BY <1>0, <1>1, HInvQuiet
<1>2. CASE \E s \in PollingTransportInfo(e) :
             loop' = [pc |-> "callback", esid |-> e, sid |-> s,
                      nsp |-> sockNsp[s], hs |-> FALSE]
  <2>1. loop'.pc = "callback" /\ loop'.hs = FALSE
    BY <1>2
  <2>2. QED
    BY <1>0, <2>1 DEF HInv, NewSilent, OneConnect, ConnectOwned,
       PollingTransportInfo, ConnectsSent, PendingHandshake
<1>3. CASE /\ engine[e] = "open" /\ PollingTransportInfo(e) = {}
           /\ loop' = [pc |-> "connecting", esid |-> e, sid |-> generate(e, seq),
                       nsp |-> None, hs |-> TRUE]
  <2>1. ConnectsSent(e) = {}
    BY <1>0, <1>3 DEF HInv, ConnectOwned
  <2>2. PendingHandshake'
    BY <1>0, <1>3, <2>1 DEF PendingHandshake, ConnectsSent
  <2>3. QED
    BY <1>0, <1>3, <2>2 DEF HInv, NewSilent, OneConnect, ConnectOwned,
       PollingTransportInfo, ConnectsSent
<1>4. QED
  BY <1>1, <1>2, <1>3 DEF CreateClient

LEMMA HandleConnectHInv == IInv /\ HInv /\ HandleConnect => HInv'
<1> SUFFICES ASSUME IInv, HInv, HandleConnect PROVE HInv'
  OBVIOUS
<1>0. /\ loop.pc = "connecting" /\ UNCHANGED <<engine, out, clients>>
      /\ loop \in [pc : LoopPcs, esid : Esids \cup {None}, sid : Sids \cup {None},
                   nsp : Nsps \cup {None}, hs : BOOLEAN]
  BY DEF HandleConnect, IInv, TypeOK, LoopTypeOK
<1>1. CASE loop' = [loop EXCEPT !.pc = "callback", !.nsp = loop'.nsp]
  <2>1. /\ loop'.pc = "callback" /\ loop'.esid = loop.esid
        /\ loop'.hs = loop.hs
    BY <1>0, <1>1
  <2>2. QED
    BY <1>0, <2>1 DEF HInv, NewSilent, OneConnect, ConnectOwned,
       PollingTransportInfo, ConnectsSent, PendingHandshake
<1>2. CASE UNCHANGED loop \/ loop' = Idle
  BY <1>0, <1>2, HInvQuiet
<1>3. QED
  BY <1>1, <1>2 DEF HandleConnect, InsertClients

LEMMA ConnectCallbackDoneHInv == IInv /\ HInv /\ ConnectCallbackDone => HInv'
<1> SUFFICES ASSUME IInv, HInv, ConnectCallbackDone PROVE HInv'
  OBVIOUS
<1>0. /\ loop.pc = "callback" /\ UNCHANGED <<engine, out, clients>>
      /\ loop \in [pc : LoopPcs, esid : Esids \cup {None}, sid : Sids \cup {None},
                   nsp : Nsps \cup {None}, hs : BOOLEAN]
  BY DEF ConnectCallbackDone, IInv, TypeOK, LoopTypeOK
<1>1. /\ loop'.pc = IF loop.hs THEN "handshake" ELSE "register"
      /\ loop'.esid = loop.esid /\ loop'.hs = loop.hs
  BY <1>0 DEF ConnectCallbackDone
<1>2. PendingHandshake'
  BY <1>0, <1>1 DEF HInv, PendingHandshake, ConnectsSent
<1>3. QED
  BY <1>0, <1>1, <1>2 DEF HInv, NewSilent, OneConnect, ConnectOwned,
     PollingTransportInfo, ConnectsSent

LEMMA HandshakeHInv == IInv /\ HInv /\ Handshake => HInv'
<1> SUFFICES ASSUME IInv, HInv, Handshake PROVE HInv'
  OBVIOUS
<1> DEFINE p == [type |-> "connect", bid |-> 0, nsp |-> loop.nsp]
<1>a. PICK e \in Esids : e = loop.esid
  BY DEF Handshake, IInv, LoopInv, Busy
<1>0. /\ loop.pc = "handshake" /\ loop.hs /\ e \in Esids
      /\ UNCHANGED <<engine, clients>>
      /\ loop'.pc = "register" /\ loop'.esid = e
      /\ out \in [Esids -> Seq(OutPackets)]
      /\ Send(e, p)
  BY <1>a DEF Handshake, HInv, PendingHandshake, IInv, LoopInv, Busy, TypeOK,
         LoopTypeOK, EnvTypeOK
<1>1. CASE engine[e] = "open"
  <2>0. ConnectsSent(e) = {}
    BY <1>a, <1>0, <1>1 DEF HInv, PendingHandshake
  <2>1. /\ ConnectsSent(e) = {}
        /\ ConnectsSent(e)' = {Len(out[e]) + 1}
        /\ \A e2 \in Esids \ {e} : out'[e2] = out[e2]
    BY <2>0, <1>0, <1>1, SendConnect
  <2>2. \A e2 \in Esids \ {e} : ConnectsSent(e2)' = ConnectsSent(e2)
    BY <2>1 DEF ConnectsSent
  <2>3. NewSilent'
    BY <1>0, <1>1, <2>1 DEF HInv, NewSilent
  <2>4. OneConnect'
    <3> SUFFICES ASSUME NEW e2 \in Esids
                 PROVE  \A i, j \in ConnectsSent(e2)' : i = j
      BY DEF OneConnect
    <3>1. CASE e2 = e
      BY <2>1, <3>1
    <3>2. CASE e2 # e
      BY <2>2, <3>2 DEF HInv, OneConnect
    <3>3. QED
      BY <3>1, <3>2
  <2>5. ConnectOwned'
    BY <1>0, <2>2 DEF HInv, ConnectOwned, PollingTransportInfo
  <2>6. PendingHandshake'
    BY <1>0 DEF PendingHandshake
  <2>7. QED
    BY <2>3, <2>4, <2>5, <2>6 DEF HInv
<1>2. CASE engine[e] # "open"
  <2>1. UNCHANGED out
    BY <1>0, <1>2 DEF Send
  <2>2. QED
    BY <1>0, <2>1 DEF HInv, NewSilent, OneConnect, ConnectOwned,
       PollingTransportInfo, ConnectsSent, PendingHandshake
<1>3. QED
  BY <1>1, <1>2

LEMMA RegisterHInv == IInv /\ HInv /\ Register => HInv'
<1> SUFFICES ASSUME IInv, HInv, Register PROVE HInv'
  OBVIOUS
<1>0. /\ loop.pc = "register" /\ loop' = Idle
      /\ UNCHANGED <<engine, out>> /\ clients' = clients \cup {loop.sid}
      /\ loop.sid \in Sids /\ decode(loop.sid) = loop.esid
  BY DEF Register, IInv, LoopInv, Busy
<1>1. loop.sid \in clients'
  BY <1>0
<1>2. ConnectOwned'
  <2> SUFFICES ASSUME NEW e \in Esids, ConnectsSent(e)' # {}
               PROVE  engine'[e] = "closed" \/ PollingTransportInfo(e)' # {}
    BY DEF ConnectOwned
  <2>1. ConnectsSent(e) # {}
    BY <1>0 DEF ConnectsSent
  <2>2. CASE e = loop.esid
    BY <1>0, <1>1, <2>2 DEF PollingTransportInfo
  <2>3. CASE e # loop.esid
    BY <1>0, <2>1, <2>3 DEF HInv, ConnectOwned, PollingTransportInfo
  <2>4. QED
    BY <2>2, <2>3
<1>3. QED
  BY <1>0, <1>2 DEF HInv, NewSilent, OneConnect, ConnectsSent,
     PendingHandshake, Idle

LEMMA DropClientHInv == IInv /\ HInv /\ DropClient => HInv'
<1> SUFFICES ASSUME IInv, HInv, DropClient PROVE HInv'
  OBVIOUS
<1> DEFINE e == Head(events).esid
<1>0. /\ e \in Esids /\ loop.pc = "idle" /\ loop'.pc = "dropRooms"
      /\ engine' = [engine EXCEPT ![e] = "closed"]
      /\ engine \in [Esids -> {"new", "open", "closed"}]
      /\ UNCHANGED out
  <2>1. events \in Seq(EngineEvents) /\ events # << >>
    BY DEF DropClient, IInv, TypeOK, EnvTypeOK
  <2>2. Head(events) \in EngineEvents
    BY <2>1
  <2>3. QED
    BY <2>2 DEF DropClient, EngineEvents, Idle, IInv, TypeOK, EnvTypeOK
<1>1. UNCHANGED clients
  <2>1. clients \subseteq Sids /\ e \notin Sids
    BY <1>0 DEF IInv, TypeOK, RegistryTypeOK
  <2>2. QED
    BY <2>1 DEF DropClient
<1>2. NewSilent' /\ OneConnect'
  BY <1>0 DEF HInv, NewSilent, OneConnect, ConnectsSent
<1>3. ConnectOwned'
  BY <1>0, <1>1 DEF HInv, ConnectOwned, PollingTransportInfo, ConnectsSent
<1>4. PendingHandshake'
  BY <1>0 DEF PendingHandshake
<1>5. QED
  BY <1>2, <1>3, <1>4 DEF HInv

LEMMA LoopIdleHInv ==
  IInv /\ HInv /\ (HandleConnectEnd \/ DropRooms) => HInv'
<1> SUFFICES ASSUME IInv, HInv, HandleConnectEnd \/ DropRooms PROVE HInv'
  OBVIOUS
<1>1. /\ UNCHANGED <<engine, clients, out>>
      /\ loop' = Idle /\ loop.pc # "register"
  BY DEF HandleConnectEnd, DropRooms
<1>2. QED
  BY <1>1, HInvQuiet

(* Handler calls, lookups and poll tasks that write nothing.              *)
LEMMA SilentTaskHInv ==
  ASSUME IInv, HInv,
         \/ \E s \in Sids, r \in RoomNames : Join(s, r) \/ Leave(s, r)
         \/ \E s \in Sids : PollPacket(s) \/ PollEnd(s)
         \/ \E s \in Sids, N \in EmitToArgs, ack \in BOOLEAN : Broadcast(s, N, ack)
         \/ \E b \in 1 .. MaxCalls, x \in Names : EmitToLookup(b, x)
  PROVE  HInv'
<1>1. UNCHANGED <<engine, clients, out, loop>>
  BY DEF Join, Leave, PollPacket, PollEnd, Broadcast, EmitToLookup
<1>2. QED
  BY <1>1, HInvQuiet

(* socket.emit and an emit task write an event, never a CONNECT.          *)
LEMMA EmitWriteHInv ==
  ASSUME IInv, HInv,
         \/ \E s \in Sids : Emit(s)
         \/ \E b \in 1 .. MaxCalls, x \in Names : EmitTask(b, x)
  PROVE  HInv'
<1>1. out \in [Esids -> Seq(OutPackets)]
  BY DEF IInv, TypeOK, EnvTypeOK
<1>2. /\ UNCHANGED <<engine, clients, loop>>
      /\ \E e \in Esids : \E p : p.type # "connect" /\ Send(e, p)
  <2>1. CASE \E s \in Sids : Emit(s)
    BY <2>1 DEF Emit, decode, Sids
  <2>2. CASE \E b \in 1 .. MaxCalls, x \in Names : EmitTask(b, x)
    <3>1. PICK b \in 1 .. MaxCalls, x \in Names : EmitTask(b, x)
      BY <2>2
    <3>2. x \in Sids
      BY <3>1 DEF EmitTask, IInv, TypeOK, EmitTypeOK
    <3>3. QED
      BY <3>1, <3>2 DEF EmitTask, decode, Sids
  <2>3. QED
    BY <2>1, <2>2
<1>3. \A e2 \in Esids : /\ ConnectsSent(e2)' = ConnectsSent(e2)
                        /\ engine[e2] # "open" => out'[e2] = out[e2]
  BY <1>1, <1>2, SendPlainConnects
<1>4. QED
  BY <1>2, <1>3, HInvFrame

LEMMA InitHInv == Init => HInv
<1> SUFFICES ASSUME Init PROVE HInv
  OBVIOUS
<1>1. \A e \in Esids : ConnectsSent(e) = {}
  BY DEF Init, ConnectsSent
<1>2. QED
  BY <1>1 DEF Init, HInv, NewSilent, OneConnect, ConnectOwned,
     PendingHandshake, Idle

LEMMA NextHInv == IInv /\ HInv /\ [Next]_vars => HInv'
<1> SUFFICES ASSUME IInv, HInv, [Next]_vars PROVE HInv'
  OBVIOUS
<1>1. CASE Environment
  BY <1>1, EnvironmentHInv
<1>2. CASE EventLoop
  BY <1>2, CreateClientHInv, HandleConnectHInv, LoopIdleHInv,
     ConnectCallbackDoneHInv, HandshakeHInv, RegisterHInv, DropClientHInv
  DEF EventLoop
<1>3. CASE Tasks
  BY <1>3, SilentTaskHInv, EmitWriteHInv DEF Tasks, EmitTo, EmitToWithAck
<1>4. CASE UNCHANGED vars
  <2>1. UNCHANGED <<engine, clients, out, loop>>
    BY <1>4 DEF vars
  <2>2. QED
    BY <2>1, HInvQuiet
<1>5. QED
  BY <1>1, <1>2, <1>3, <1>4 DEF Next

LEMMA SpecHInv == Spec => [](IInv /\ HInv)
<1>1. Init => IInv /\ HInv
  BY InitIInv, InitHInv
<1>2. IInv /\ HInv /\ [Next]_vars => IInv' /\ HInv'
  BY NextIInv, NextHInv
<1>3. QED
  BY <1>1, <1>2, PTL DEF Spec

(* A set of indices below a bound whose members are all equal has at most *)
(* one member.                                                             *)
LEMMA AtMostOneMember ==
  ASSUME NEW n \in Nat, NEW S \in SUBSET (1 .. n), \A i, j \in S : i = j
  PROVE  Cardinality(S) <= 1
<1>1. CASE S = {}
  BY <1>1, FS_EmptySet
<1>2. CASE S # {}
  <2>1. PICK i \in S : TRUE
    BY <1>2
  <2>2. S = {i}
    BY <2>1
  <2>3. QED
    BY <2>2, FS_Singleton
<1>3. QED
  BY <1>1, <1>2

(* For every number of sessions, namespaces and upgrades and every bound, *)
(* an engine session is sent at most one Socket.IO CONNECT: create_client *)
(* hands insert_clients handshake = false whenever polling_transport_info *)
(* finds the session's sid (server.rs:204-207), and a session whose sid   *)
(* is not registered yet has not been sent one.                           *)
THEOREM HandshakeOnce == Spec => []HandshakeAtMostOnce
<1>1. IInv /\ HInv => HandshakeAtMostOnce
  <2> SUFFICES ASSUME IInv, HInv, NEW e \in Esids
               PROVE  Cardinality(ConnectsSent(e)) <= 1
    BY DEF HandshakeAtMostOnce
  <2>1. Len(out[e]) \in Nat /\ ConnectsSent(e) \subseteq 1 .. Len(out[e])
    BY DEF IInv, TypeOK, EnvTypeOK, ConnectsSent
  <2>2. \A i, j \in ConnectsSent(e) : i = j
    BY DEF HInv, OneConnect
  <2>3. QED
    BY <2>1, <2>2, AtMostOneMember
<1>2. QED
  BY SpecHInv, <1>1, PTL
=============================================================================
