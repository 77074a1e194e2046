----------------------- MODULE SioServerDeliveryProofs -----------------------
(***************************************************************************)
(* Proof that a broadcast reaches only sockets of its own namespace        *)
(* (NoCrossNamespaceDelivery), for every value of the constants.           *)
(*                                                                         *)
(* emit_to snapshots the rooms, looks each name up with                    *)
(* Server.client(sid, nsp) and spawns a task that later writes to the      *)
(* socket.  The packet's namespace is read when the task runs, so the      *)
(* proof must know that a socket's namespace cannot change between the     *)
(* lookup and the write: insert_clients only names a sid minted for the    *)
(* session being connected, which has no namespace yet (FreshInv).  It     *)
(* must also know that a broadcast's slot is never reused (SlotInv).       *)
(***************************************************************************)
EXTENDS SioServerProofs

(* A sid the SidGenerator has not minted yet has no socket; the sid       *)
(* handle_connect is connecting was minted and has none either.           *)
FreshInv ==
  /\ \A s \in Sids : s[2] >= seq => sockNsp[s] = None
  /\ loop.pc = "connecting" => loop.sid[2] < seq /\ sockNsp[loop.sid] = None

(* Every spawned emit task belongs to a started broadcast, and its        *)
(* socket is in the broadcast's namespace.                                *)
TaskNspInv ==
  \A t \in tasks : t[1] \in 1 .. calls /\ sockNsp[t[2]] = bcast[t[1]].nsp

(* emit_to slots past the calls made so far are unused.                   *)
SlotInv == \A b \in 1 .. MaxCalls : b > calls => bcast[b] = NoCall

(* Every packet of a broadcast names a started broadcast and carries its  *)
(* namespace.                                                              *)
OutInv ==
  \A e \in Esids : \A i \in 1 .. Len(out[e]) :
    out[e][i].bid # 0 =>
      /\ out[e][i].bid \in 1 .. calls
      /\ out[e][i].nsp = bcast[out[e][i].bid].nsp

DInv == FreshInv /\ TaskNspInv /\ SlotInv /\ OutInv

-----------------------------------------------------------------------------
USE RegisteredAssumption, NoneAssumption, BoundsAssumption

(* A step that leaves the sid generator, the sockets, the broadcasts and  *)
(* the written packets alone, and does not start a connect, keeps DInv.   *)
LEMMA DInvFrame ==
  ASSUME DInv, UNCHANGED <<seq, sockNsp, tasks, bcast, calls, out>>,
         loop'.pc # "connecting" \/ UNCHANGED loop
  PROVE  DInv'
BY DEF DInv, FreshInv, TaskNspInv, SlotInv, OutInv

(* A handler call that only counts itself keeps DInv.                     *)
LEMMA DInvCount ==
  ASSUME IInv, DInv, calls' = calls + 1,
         UNCHANGED <<seq, sockNsp, loop, tasks, bcast, out>>
  PROVE  DInv'
<1>1. calls \in Nat
  BY DEF IInv, TypeOK, EmitTypeOK
<1>2. QED
  BY <1>1 DEF DInv, FreshInv, TaskNspInv, SlotInv, OutInv

(* What Send(e, p) leaves at each index of each session's packets.        *)
LEMMA SendAt ==
  ASSUME NEW e \in Esids, NEW p, out \in [Esids -> Seq(OutPackets)], Send(e, p),
         NEW e2 \in Esids, NEW i \in 1 .. Len(out'[e2])
  PROVE  IF i <= Len(out[e2]) THEN out'[e2][i] = out[e2][i] ELSE out'[e2][i] = p
BY DEF Send

(* Writing a packet with no broadcast id keeps OutInv.                    *)
LEMMA SendPlainOutInv ==
  ASSUME NEW e \in Esids, NEW p, p.bid = 0, out \in [Esids -> Seq(OutPackets)],
         OutInv, Send(e, p), UNCHANGED <<bcast, calls>>
  PROVE  OutInv'
<1> SUFFICES ASSUME NEW e2 \in Esids, NEW i \in 1 .. Len(out'[e2]),
                    out'[e2][i].bid # 0
             PROVE  /\ out'[e2][i].bid \in 1 .. calls'
                    /\ out'[e2][i].nsp = bcast'[out'[e2][i].bid].nsp
  BY DEF OutInv
<1>1. i <= Len(out[e2]) /\ out'[e2][i] = out[e2][i]
  BY SendAt
<1>2. QED
  BY <1>1 DEF OutInv

LEMMA EnvironmentDInv == DInv /\ Environment => DInv'
<1> SUFFICES ASSUME DInv, Environment PROVE DInv'
  OBVIOUS
<1>1. UNCHANGED <<seq, sockNsp, tasks, bcast, calls, out, loop>>
  BY DEF Environment, EngineOpen, EngineUpgrade, EngineClose, PeerSend,
         emitVars
<1>2. QED
  BY <1>1, DInvFrame

LEMMA CreateClientDInv == IInv /\ DInv /\ CreateClient => DInv'
<1> SUFFICES ASSUME IInv, DInv, CreateClient PROVE DInv'
  OBVIOUS
<1> DEFINE e == Head(events).esid
<1>0. /\ e \in Esids /\ seq \in 0 .. MaxSeq
      /\ UNCHANGED <<sockNsp, tasks, bcast, calls, out>>
  <2>1. events \in Seq(EngineEvents) /\ events # << >>
    BY DEF CreateClient, IInv, TypeOK, EnvTypeOK
  <2>2. Head(events) \in EngineEvents
    BY <2>1
  <2>3. QED
    BY <2>2 DEF CreateClient, emitVars, IInv, TypeOK, LoopTypeOK, EngineEvents
<1>1. CASE UNCHANGED <<loop, seq>>
  BY <1>0, <1>1, DInvFrame
<1>2. CASE /\ \E s \in PollingTransportInfo(e) :
                loop' = [pc |-> "callback", esid |-> e, sid |-> s,
                         nsp |-> sockNsp[s], hs |-> FALSE]
           /\ UNCHANGED seq
  BY <1>0, <1>2, DInvFrame
<1>3. CASE /\ seq < MaxSeq
           /\ seq' = seq + 1
           /\ loop' = [pc |-> "connecting", esid |-> e, sid |-> generate(e, seq),
                       nsp |-> None, hs |-> TRUE]
  <2>1. generate(e, seq) \in Sids /\ generate(e, seq)[2] = seq
    BY <1>0, <1>3 DEF generate, Sids
  <2>2. FreshInv'
    <3>1. \A x \in Sids : x[2] >= seq' => x[2] >= seq /\ x # generate(e, seq)
      BY <1>0, <1>3, <2>1 DEF Sids
    <3>2. \A x \in Sids : x[2] >= seq' => sockNsp'[x] = None
      BY <1>0, <3>1 DEF DInv, FreshInv
    <3>3. sockNsp'[generate(e, seq)] = None
      BY <1>0, <2>1 DEF DInv, FreshInv
    <3>4. loop'.sid[2] < seq'
      BY <1>0, <1>3, <2>1
    <3>5. QED
      BY <1>3, <3>2, <3>3, <3>4 DEF FreshInv
  <2>3. QED
    BY <1>0, <2>2 DEF DInv, TaskNspInv, SlotInv, OutInv
<1>4. QED
  BY <1>1, <1>2, <1>3 DEF CreateClient

LEMMA HandleConnectDInv == IInv /\ DInv /\ HandleConnect => DInv'
<1> SUFFICES ASSUME IInv, DInv, HandleConnect PROVE DInv'
  OBVIOUS
<1> DEFINE p == Head(inbox[loop.esid])
<1>0. /\ UNCHANGED <<seq, tasks, bcast, calls, out>>
      /\ loop.pc = "connecting"
  BY DEF HandleConnect, emitVars
<1>1. CASE p.type = "connect" /\ p.nsp \in Registered
  <2>1. /\ loop' = [loop EXCEPT !.pc = "callback", !.nsp = p.nsp]
        /\ sockNsp' = [sockNsp EXCEPT ![loop.sid] = p.nsp]
    BY <1>1 DEF HandleConnect, InsertClients
  <2>2. /\ loop.sid \in Sids /\ loop.sid[2] < seq
        /\ sockNsp[loop.sid] = None
        /\ sockNsp \in [Sids -> Nsps \cup {None}]
    BY <1>0 DEF DInv, FreshInv, IInv, LoopInv, Busy, TypeOK, RegistryTypeOK
  <2>3. FreshInv'
    <3>1. loop'.pc = "callback" /\ loop'.sid = loop.sid
      BY <2>1 DEF IInv, TypeOK, LoopTypeOK
    <3>2. \A x \in Sids : x[2] >= seq => x # loop.sid
      <4>1. seq \in Nat /\ loop.sid[2] \in Nat
        BY <2>2 DEF IInv, TypeOK, LoopTypeOK, Sids
      <4>2. QED
        BY <2>2, <4>1
    <3>3. \A x \in Sids : x[2] >= seq => sockNsp'[x] = None
      BY <1>0, <2>1, <2>2, <3>2 DEF DInv, FreshInv
    <3>4. QED
      BY <1>0, <3>1, <3>3 DEF FreshInv
  <2>4. TaskNspInv'
    <3>1. \A t \in tasks : t[2] # loop.sid
      BY <2>2 DEF IInv, SocketInv
    <3>2. QED
      BY <1>0, <2>1, <3>1 DEF DInv, TaskNspInv
  <2>5. QED
    BY <1>0, <2>3, <2>4 DEF DInv, SlotInv, OutInv
<1>2. CASE p.type = "connect" /\ p.nsp \notin Registered
  <2>1. loop' = Idle /\ UNCHANGED sockNsp
    BY <1>2 DEF HandleConnect, InsertClients
  <2>2. QED
    BY <1>0, <2>1, DInvFrame DEF Idle
<1>3. CASE p.type # "connect"
  <2>1. UNCHANGED <<loop, sockNsp>>
    BY <1>3 DEF HandleConnect
  <2>2. QED
    BY <1>0, <2>1, DInvFrame
<1>4. QED
  BY <1>1, <1>2, <1>3

LEMMA LoopStepDInv ==
  IInv /\ DInv /\ (HandleConnectEnd \/ ConnectCallbackDone \/ Register
                   \/ DropClient \/ DropRooms) => DInv'
<1> SUFFICES ASSUME IInv, DInv,
                    HandleConnectEnd \/ ConnectCallbackDone \/ Register
                    \/ DropClient \/ DropRooms
             PROVE  DInv'
  OBVIOUS
<1>0. loop \in [pc : LoopPcs, esid : Esids \cup {None}, sid : Sids \cup {None},
                nsp : Nsps \cup {None}, hs : BOOLEAN]
  BY DEF IInv, TypeOK, LoopTypeOK
<1>1. UNCHANGED <<seq, sockNsp, tasks, bcast, calls, out>>
  BY DEF HandleConnectEnd, ConnectCallbackDone, Register, DropClient,
         DropRooms, emitVars
<1>2. loop'.pc # "connecting"
  <2>1. CASE HandleConnectEnd \/ Register \/ DropRooms
    BY <2>1 DEF HandleConnectEnd, Register, DropRooms, Idle
  <2>2. CASE ConnectCallbackDone
    BY <1>0, <2>2 DEF ConnectCallbackDone
  <2>3. CASE DropClient
    BY <2>3 DEF DropClient, Idle
  <2>4. QED
    BY <2>1, <2>2, <2>3
<1>3. QED
  BY <1>1, <1>2, DInvFrame

LEMMA HandshakeDInv == IInv /\ DInv /\ Handshake => DInv'
<1> SUFFICES ASSUME IInv, DInv, Handshake PROVE DInv'
  OBVIOUS
<1>1. /\ UNCHANGED <<seq, sockNsp, tasks, bcast, calls>>
      /\ loop'.pc = "register"
      /\ loop.esid \in Esids
      /\ out \in [Esids -> Seq(OutPackets)]
  BY DEF Handshake, emitVars, IInv, LoopInv, Busy, TypeOK, EnvTypeOK
<1>2. OutInv'
  BY <1>1, SendPlainOutInv DEF Handshake, DInv
<1>3. QED
  BY <1>1, <1>2 DEF DInv, FreshInv, TaskNspInv, SlotInv

LEMMA JoinLeaveDInv ==
  ASSUME IInv, DInv, NEW s \in Sids, NEW r \in RoomNames,
         Join(s, r) \/ Leave(s, r)
  PROVE  DInv'
<1>1. /\ calls' = calls + 1
      /\ UNCHANGED <<seq, sockNsp, loop, tasks, bcast, out>>
  BY DEF Join, Leave, Call, emitVars
<1>2. QED
  BY <1>1, DInvCount

LEMMA EmitDInv ==
  ASSUME IInv, DInv, NEW s \in Sids, Emit(s)
  PROVE  DInv'
<1>1. /\ calls' = calls + 1 /\ calls \in Nat
      /\ UNCHANGED <<seq, sockNsp, loop, tasks, bcast>>
      /\ decode(s) \in Esids
      /\ out \in [Esids -> Seq(OutPackets)]
  BY DEF Emit, Call, emitVars, decode, Sids, IInv, TypeOK, EnvTypeOK,
         EmitTypeOK
<1>2. OutInv'
  <2> SUFFICES ASSUME NEW e2 \in Esids, NEW i \in 1 .. Len(out'[e2]),
                      out'[e2][i].bid # 0
               PROVE  /\ out'[e2][i].bid \in 1 .. calls'
                      /\ out'[e2][i].nsp = bcast'[out'[e2][i].bid].nsp
    BY DEF OutInv
  <2>1. i <= Len(out[e2]) /\ out'[e2][i] = out[e2][i]
    BY <1>1, SendAt DEF Emit
  <2>2. QED
    BY <1>1, <2>1 DEF DInv, OutInv
<1>3. QED
  BY <1>1, <1>2 DEF DInv, FreshInv, TaskNspInv, SlotInv


(* Writing a packet of a started broadcast that carries the broadcast's   *)
(* namespace keeps OutInv.                                                *)
LEMMA SendOutInv ==
  ASSUME NEW e \in Esids, NEW p, out \in [Esids -> Seq(OutPackets)],
         p.bid = 0 \/ (p.bid \in 1 .. calls /\ p.nsp = bcast[p.bid].nsp),
         OutInv, Send(e, p), UNCHANGED <<bcast, calls>>
  PROVE  OutInv'
<1> SUFFICES ASSUME NEW e2 \in Esids, NEW i \in 1 .. Len(out'[e2]),
                    out'[e2][i].bid # 0
             PROVE  /\ out'[e2][i].bid \in 1 .. calls'
                    /\ out'[e2][i].nsp = bcast'[out'[e2][i].bid].nsp
  BY DEF OutInv
<1>1. CASE i <= Len(out[e2])
  <2>1. out'[e2][i] = out[e2][i]
    BY <1>1, SendAt
  <2>2. i \in 1 .. Len(out[e2]) /\ bcast' = bcast /\ calls' = calls
    BY <1>1
  <2>3. QED
    BY <2>1, <2>2 DEF OutInv
<1>2. CASE ~(i <= Len(out[e2]))
  <2>1. out'[e2][i] = p
    BY <1>2, SendAt
  <2>2. QED
    BY <2>1
<1>3. QED
  BY <1>1, <1>2

LEMMA BroadcastDInv ==
  ASSUME NEW s \in Sids, NEW N \in EmitToArgs, NEW ack \in BOOLEAN,
         IInv, DInv, Broadcast(s, N, ack)
  PROVE  DInv'
<1>1. /\ calls \in 0 .. MaxCalls /\ calls < MaxCalls /\ calls' = calls + 1
      /\ bcast \in [1 .. MaxCalls -> [nsp : Nsps \cup {None},
                                      todo : SUBSET Names, ack : BOOLEAN]]
      /\ UNCHANGED <<seq, sockNsp, loop, tasks, out>>
  BY DEF Broadcast, Call, IInv, TypeOK, EmitTypeOK
<1>2. \A b \in 1 .. calls : bcast'[b] = bcast[b]
  BY <1>1 DEF Broadcast
<1>3. SlotInv'
  <2>1. \A b \in 1 .. MaxCalls : b > calls + 1 => bcast'[b] = bcast[b]
    BY <1>1 DEF Broadcast
  <2>2. QED
    BY <1>1, <2>1 DEF DInv, SlotInv
<1>4. TaskNspInv'
  BY <1>1, <1>2 DEF DInv, TaskNspInv
<1>5. OutInv'
  BY <1>1, <1>2 DEF DInv, OutInv
<1>6. QED
  BY <1>1, <1>3, <1>4, <1>5 DEF DInv, FreshInv

LEMMA EmitToLookupDInv ==
  ASSUME NEW b \in 1 .. MaxCalls, NEW x \in Names,
         IInv, DInv, EmitToLookup(b, x)
  PROVE  DInv'
<1>1. /\ calls \in 0 .. MaxCalls
      /\ bcast \in [1 .. MaxCalls -> [nsp : Nsps \cup {None},
                                      todo : SUBSET Names, ack : BOOLEAN]]
      /\ UNCHANGED <<seq, sockNsp, loop, calls, out>>
  BY DEF EmitToLookup, IInv, TypeOK, EmitTypeOK
<1>2. b \in 1 .. calls
  <2>1. bcast[b] # NoCall
    BY DEF EmitToLookup, NoCall
  <2>2. QED
    BY <1>1, <2>1 DEF DInv, SlotInv
<1>3. \A c \in 1 .. MaxCalls : bcast'[c].nsp = bcast[c].nsp
  BY <1>1 DEF EmitToLookup
<1>4. SlotInv'
  <2>1. \A c \in 1 .. MaxCalls : c > calls => bcast'[c] = bcast[c]
    BY <1>1, <1>2 DEF EmitToLookup
  <2>2. QED
    BY <1>1, <2>1 DEF DInv, SlotInv
<1>5. TaskNspInv'
  <2>1. client(x, bcast[b].nsp) => sockNsp[x] = bcast[b].nsp
    BY DEF client
  <2>2. QED
    BY <1>1, <1>2, <1>3, <2>1 DEF EmitToLookup, DInv, TaskNspInv
<1>6. OutInv'
  BY <1>1, <1>3 DEF DInv, OutInv
<1>7. QED
  BY <1>1, <1>4, <1>5, <1>6 DEF DInv, FreshInv

LEMMA EmitTaskDInv ==
  ASSUME NEW b \in 1 .. MaxCalls, NEW x \in Names,
         IInv, DInv, EmitTask(b, x)
  PROVE  DInv'
<1> DEFINE p == [type |-> IF bcast[b].ack THEN "ackEvent" ELSE "event",
                 bid |-> b, nsp |-> sockNsp[x]]
<1>1. /\ UNCHANGED <<seq, sockNsp, loop, bcast, calls>>
      /\ tasks' \subseteq tasks
      /\ <<b, x>> \in tasks
      /\ Send(decode(x), p)
  BY DEF EmitTask
<1>2. /\ x \in Sids /\ decode(x) \in Esids
      /\ out \in [Esids -> Seq(OutPackets)]
  BY <1>1 DEF IInv, TypeOK, EmitTypeOK, EnvTypeOK, decode, Sids
<1>3. p.bid \in 1 .. calls /\ p.nsp = bcast[p.bid].nsp
  BY <1>1 DEF DInv, TaskNspInv
<1>4. OutInv'
  BY <1>1, <1>2, <1>3, SendOutInv DEF DInv
<1>5. QED
  BY <1>1, <1>4 DEF DInv, FreshInv, TaskNspInv, SlotInv

LEMMA PollDInv ==
  ASSUME NEW s \in Sids, DInv, PollPacket(s) \/ PollEnd(s)
  PROVE  DInv'
<1>1. UNCHANGED <<seq, sockNsp, tasks, bcast, calls, out, loop>>
  BY DEF PollPacket, PollEnd, emitVars
<1>2. QED
  BY <1>1, DInvFrame

LEMMA InitDInv == Init => DInv
<1> SUFFICES ASSUME Init PROVE DInv
  OBVIOUS
<1>1. FreshInv
  BY DEF Init, FreshInv, Idle
<1>2. SlotInv
  BY DEF Init, SlotInv
<1>3. TaskNspInv /\ OutInv
  BY DEF Init, TaskNspInv, OutInv
<1>4. QED
  BY <1>1, <1>2, <1>3 DEF DInv

LEMMA NextDInv == IInv /\ DInv /\ [Next]_vars => DInv'
<1> SUFFICES ASSUME IInv, DInv, [Next]_vars PROVE DInv'
  OBVIOUS
<1>1. CASE Environment
  BY <1>1, EnvironmentDInv
<1>2. CASE EventLoop
  BY <1>2, CreateClientDInv, HandleConnectDInv, LoopStepDInv, HandshakeDInv
  DEF EventLoop
<1>3. CASE Tasks
  BY <1>3, JoinLeaveDInv, EmitDInv, BroadcastDInv, EmitToLookupDInv,
     EmitTaskDInv, PollDInv
  DEF Tasks, EmitTo, EmitToWithAck
<1>4. CASE UNCHANGED vars
  BY <1>4, DInvFrame DEF vars
<1>5. QED
  BY <1>1, <1>2, <1>3, <1>4 DEF Next

LEMMA SpecDInv == Spec => [](IInv /\ DInv)
<1>1. Init => IInv /\ DInv
  BY InitIInv, InitDInv
<1>2. IInv /\ DInv /\ [Next]_vars => IInv' /\ DInv'
  BY NextIInv, NextDInv
<1>3. QED
  BY <1>1, <1>2, PTL DEF Spec

(* For every number of sessions, namespaces, rooms and calls, every       *)
(* packet an emit_to or emit_to_with_ack task writes carries the          *)
(* namespace of the broadcast that spawned it: Server.client filters the  *)
(* looked-up sid by namespace (server.rs:149-155) and a socket's          *)
(* namespace is fixed once insert_clients has set it.                     *)
THEOREM BroadcastStaysInNamespace == Spec => []NoCrossNamespaceDelivery
<1>1. DInv => NoCrossNamespaceDelivery
  BY DEF DInv, OutInv, NoCrossNamespaceDelivery
<1>2. QED
  BY SpecDInv, <1>1, PTL
=============================================================================
