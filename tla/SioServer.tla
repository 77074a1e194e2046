----------------------------- MODULE SioServer -----------------------------
(***************************************************************************)
(* The Socket.IO server of src/socketio/src/server/server.rs together with *)
(* the per-socket handle of src/socketio/src/server/client.rs.             *)
(*                                                                         *)
(* One task (recv_event) drains the engine's event channel and handles     *)
(* OnOpen / OnClose one at a time; create_client, handle_connect,          *)
(* insert_clients and drop_client run inside that task, and every await    *)
(* in them is a step of its own (the record `loop`).  Handlers of          *)
(* registered sockets (the poll tasks) and the connect callback run        *)
(* concurrently with it and call join, leave, emit and emit_to; emit_to    *)
(* snapshots the rooms index, looks every sid up in `clients` under a      *)
(* separate lock acquisition and spawns one emit task per recipient.       *)
(*                                                                         *)
(* The engine server and the peers are the environment: they open,         *)
(* upgrade and close engine sessions and send packets.                     *)
(***************************************************************************)
EXTENDS Naturals, Sequences, FiniteSets

CONSTANTS
  Esids,       \* engine session ids minted by the engine server
  Nsps,        \* namespaces a peer may name in its CONNECT packet
  Registered,  \* namespaces that have an event table (Server.on)
  RoomNames,   \* room names handlers pass to join, leave and emit_to
  None,        \* marks an absent namespace, sid or session
  MaxSeq,      \* sids the SidGenerator may mint: bound on its counter
  MaxOpens,    \* OnOpen events per engine session: 1 + transport upgrades
  MaxPackets,  \* packets one peer sends on its engine session
  MaxCalls     \* handler calls (join, leave, emit, emit_to) in a behaviour

ASSUME RegisteredAssumption == Registered \subseteq Nsps
ASSUME NoneAssumption == None \notin Nsps \cup Esids
ASSUME BoundsAssumption ==
  /\ MaxSeq \in Nat /\ MaxOpens \in Nat \ {0}
  /\ MaxPackets \in Nat /\ MaxCalls \in Nat

(***************************************************************************)
(* SidGenerator: a sid is base64("<esid>-<seq>").  base64 is a bijection,  *)
(* so a sid is kept as the pair it encodes and decode returns the part     *)
(* before the '-', the engine sid.                                         *)
(***************************************************************************)
Sids == Esids \X (0 .. MaxSeq - 1)

generate(e, n) == <<e, n>>

decode(s) == s[1]

(* An engine sid is an opaque token of the engine server and a Socket.IO  *)
(* sid is base64("<esid>-<seq>"), longer than the engine sid it encodes:  *)
(* the keys drop_client removes from `clients` are never Socket.IO sids.  *)
ASSUME EsidsAssumption == \A e \in Esids : e \notin Sids

(* A name passed to emit_to is a room name or, when no such room exists,  *)
(* taken for a sid.                                                        *)
Names == RoomNames \cup Sids

(* A CONNECT names a namespace; the namespace of other packets is not    *)
(* looked at by handle_connect.                                           *)
PeerPackets ==
  [type : {"connect"}, nsp : Nsps] \cup [type : {"event"}, nsp : {None}]

(* An event written by emit_with_ack carries an ack id: "ackEvent".     *)
OutPackets == [type : {"connect", "event", "ackEvent"}, bid : 0 .. MaxCalls, nsp : Nsps]

EngineEvents == [kind : {"OnOpen", "OnClose"}, esid : Esids]

LoopPcs == {"idle", "connecting", "callback", "handshake", "register", "dropRooms"}

VARIABLES
  engine,    \* engine session state: "new", "open" or "closed"
  opens,     \* OnOpen events the engine has emitted per session
  sent,      \* packets each peer has sent
  events,    \* the engine's event channel (event_rx)
  inbox,     \* packets received on each engine session, not yet polled
  out,       \* packets the server has written to each engine session
  loop,      \* where the recv_event task is, with its locals
  seq,       \* SidGenerator.seq
  clients,   \* the sids registered in Server.clients
  sockNsp,   \* namespace of the ServerSocket created for each sid
  polling,   \* sids whose poll task is running
  roomKeys,  \* Server.rooms: the rooms that exist in each namespace
  members,   \* Server.rooms: the sids in each room
  bcast,     \* emit_to calls: namespace, names still to look up, with ack
  tasks,     \* spawned per-recipient emit tasks <<call id, sid>>
  calls,     \* handler calls made so far
  dropped    \* history: sessions whose drop_client has finished

vars == <<engine, opens, sent, events, inbox, out, loop, seq, clients,
          sockNsp, polling, roomKeys, members, bcast, tasks, calls, dropped>>

envVars == <<opens, sent>>
roomVars == <<roomKeys, members>>
emitVars == <<bcast, tasks>>

Idle == [pc |-> "idle", esid |-> None, sid |-> None, nsp |-> None, hs |-> FALSE]

NoCall == [nsp |-> None, todo |-> {}, ack |-> FALSE]

Init ==
  /\ engine = [e \in Esids |-> "new"]
  /\ opens = [e \in Esids |-> 0]
  /\ sent = [e \in Esids |-> 0]
  /\ events = << >>
  /\ inbox = [e \in Esids |-> << >>]
  /\ out = [e \in Esids |-> << >>]
  /\ loop = Idle
  /\ seq = 0
  /\ clients = {}
  /\ sockNsp = [s \in Sids |-> None]
  /\ polling = {}
  /\ roomKeys = [n \in Nsps |-> {}]
  /\ members = [n \in Nsps |-> [r \in RoomNames |-> {}]]
  /\ bcast = [b \in 1 .. MaxCalls |-> NoCall]
  /\ tasks = {}
  /\ calls = 0
  /\ dropped = {}

(* Writing a packet on an engine session: an error once it is closed.     *)
Send(e, p) ==
  out' = IF engine[e] = "open" THEN [out EXCEPT ![e] = Append(@, p)] ELSE out

-----------------------------------------------------------------------------
(***************************************************************************)
(* Environment: the engine server and the peers.                           *)
(***************************************************************************)
EngineOpen(e) ==
  /\ engine[e] = "new"
  /\ engine' = [engine EXCEPT ![e] = "open"]
  /\ opens' = [opens EXCEPT ![e] = 1]
  /\ events' = Append(events, [kind |-> "OnOpen", esid |-> e])
  /\ UNCHANGED <<sent, inbox, out, loop, seq, clients, sockNsp, polling,
                 roomVars, emitVars, calls, dropped>>

(* A transport upgrade surfaces another OnOpen for the same session.      *)
EngineUpgrade(e) ==
  /\ engine[e] = "open"
  /\ opens[e] < MaxOpens
  /\ opens' = [opens EXCEPT ![e] = @ + 1]
  /\ events' = Append(events, [kind |-> "OnOpen", esid |-> e])
  /\ UNCHANGED <<engine, sent, inbox, out, loop, seq, clients, sockNsp,
                 polling, roomVars, emitVars, calls, dropped>>

EngineClose(e) ==
  /\ engine[e] = "open"
  /\ engine' = [engine EXCEPT ![e] = "closed"]
  /\ events' = Append(events, [kind |-> "OnClose", esid |-> e])
  /\ UNCHANGED <<envVars, inbox, out, loop, seq, clients, sockNsp, polling,
                 roomVars, emitVars, calls, dropped>>

PeerSend(e, p) ==
  /\ engine[e] = "open"
  /\ sent[e] < MaxPackets
  /\ sent' = [sent EXCEPT ![e] = @ + 1]
  /\ inbox' = [inbox EXCEPT ![e] = Append(@, p)]
  /\ UNCHANGED <<engine, opens, events, out, loop, seq, clients, sockNsp,
                 polling, roomVars, emitVars, calls, dropped>>

-----------------------------------------------------------------------------
(***************************************************************************)
(* The recv_event task.                                                    *)
(***************************************************************************)

(* Mutant: the upgrade lookup finds nothing.                              *)
PollingTransportInfoMissing(e) == {}

(* polling_transport_info: the registered sids that decode to e.          *)
PollingTransportInfo(e) == {s \in clients : decode(s) = e}

(* OnOpen: create_client.  No engine socket: nothing.  A registered sid   *)
(* of this session: insert_clients(handshake = false).  Otherwise         *)
(* handle_connect mints a sid and polls for the CONNECT packet.           *)
CreateClient ==
  /\ loop.pc = "idle"
  /\ events # << >>
  /\ Head(events).kind = "OnOpen"
  /\ events' = Tail(events)
  /\ LET e == Head(events).esid IN
       \/ /\ engine[e] # "open"
          /\ UNCHANGED <<loop, seq>>
       \/ /\ engine[e] = "open"
          /\ \E s \in PollingTransportInfo(e) :
               loop' = [pc |-> "callback", esid |-> e, sid |-> s,
                        nsp |-> sockNsp[s], hs |-> FALSE]
          /\ UNCHANGED seq
       \/ /\ engine[e] = "open"
          /\ PollingTransportInfo(e) = {}
          /\ seq < MaxSeq
          /\ seq' = seq + 1
          /\ loop' = [pc |-> "connecting", esid |-> e, sid |-> generate(e, seq),
                      nsp |-> None, hs |-> TRUE]
  /\ UNCHANGED <<engine, envVars, inbox, out, clients, sockNsp, polling,
                 roomVars, emitVars, calls, dropped>>

(* Mutant: insert_clients without the event-table lookup.                 *)
InsertClientsUnchecked(n) ==
  /\ loop' = [loop EXCEPT !.pc = "callback", !.nsp = n]
  /\ sockNsp' = [sockNsp EXCEPT ![loop.sid] = n]

(* insert_clients: a namespace without an event table is ignored;         *)
(* otherwise a ServerSocket is made and its connect callback runs.         *)
InsertClients(n) ==
  IF n \in Registered
    THEN /\ loop' = [loop EXCEPT !.pc = "callback", !.nsp = n]
         /\ sockNsp' = [sockNsp EXCEPT ![loop.sid] = n]
    ELSE /\ loop' = Idle
         /\ UNCHANGED sockNsp

(* handle_connect: packets other than CONNECT are skipped.                *)
HandleConnect ==
  /\ loop.pc = "connecting"
  /\ inbox[loop.esid] # << >>
  /\ inbox' = [inbox EXCEPT ![loop.esid] = Tail(@)]
  /\ LET p == Head(inbox[loop.esid]) IN
       IF p.type = "connect"
         THEN InsertClients(p.nsp)
         ELSE UNCHANGED <<loop, sockNsp>>
  /\ UNCHANGED <<engine, envVars, events, out, seq, clients, polling,
                 roomVars, emitVars, calls, dropped>>

(* poll_packet returns None: the session closed before any CONNECT.       *)
HandleConnectEnd ==
  /\ loop.pc = "connecting"
  /\ inbox[loop.esid] = << >>
  /\ engine[loop.esid] = "closed"
  /\ loop' = Idle
  /\ UNCHANGED <<engine, envVars, events, inbox, out, seq, clients, sockNsp,
                 polling, roomVars, emitVars, calls, dropped>>

(* Mutant: the handshake flag is ignored.                                 *)
ConnectCallbackDoneAlwaysHandshake ==
  /\ loop.pc = "callback"
  /\ polling' = polling \cup {loop.sid}
  /\ loop' = [loop EXCEPT !.pc = "handshake"]
  /\ UNCHANGED <<engine, envVars, events, inbox, out, seq, clients, sockNsp,
                 roomVars, emitVars, calls, dropped>>

(* The connect callback has returned: poll(client) spawns the poll task.  *)
ConnectCallbackDone ==
  /\ loop.pc = "callback"
  /\ polling' = polling \cup {loop.sid}
  /\ loop' = [loop EXCEPT !.pc = IF loop.hs THEN "handshake" ELSE "register"]
  /\ UNCHANGED <<engine, envVars, events, inbox, out, seq, clients, sockNsp,
                 roomVars, emitVars, calls, dropped>>

(* client.handshake({sid}): the CONNECT packet; its error is ignored.     *)
Handshake ==
  /\ loop.pc = "handshake"
  /\ Send(loop.esid, [type |-> "connect", bid |-> 0, nsp |-> loop.nsp])
  /\ loop' = [loop EXCEPT !.pc = "register"]
  /\ UNCHANGED <<engine, envVars, events, inbox, seq, clients, sockNsp,
                 polling, roomVars, emitVars, calls, dropped>>

(* clients.write().insert(sid, {nsp: client})                             *)
Register ==
  /\ loop.pc = "register"
  /\ clients' = clients \cup {loop.sid}
  /\ loop' = Idle
  /\ UNCHANGED <<engine, envVars, events, inbox, out, seq, sockNsp, polling,
                 roomVars, emitVars, calls, dropped>>

(* OnClose: drop_client closes the engine socket and removes the entry   *)
(* keyed by the ENGINE sid from clients, whose keys are Socket.IO sids.   *)
DropClient ==
  /\ loop.pc = "idle"
  /\ events # << >>
  /\ Head(events).kind = "OnClose"
  /\ events' = Tail(events)
  /\ LET e == Head(events).esid IN
       /\ engine' = [engine EXCEPT ![e] = "closed"]
       /\ clients' = clients \ {e}
       /\ loop' = [Idle EXCEPT !.pc = "dropRooms", !.esid = e]
  /\ UNCHANGED <<envVars, inbox, out, seq, sockNsp, polling, roomVars,
                 emitVars, calls, dropped>>

(* drop_client, second lock: retain in every room the sids of others.     *)
DropRooms ==
  /\ loop.pc = "dropRooms"
  /\ members' = [n \in Nsps |-> [r \in RoomNames |->
                   {s \in members[n][r] : decode(s) # loop.esid}]]
  /\ dropped' = dropped \cup {loop.esid}
  /\ loop' = Idle
  /\ UNCHANGED <<engine, envVars, events, inbox, out, seq, clients, sockNsp,
                 polling, roomKeys, emitVars, calls>>

-----------------------------------------------------------------------------
(***************************************************************************)
(* Handlers: the connect callback of the socket being inserted and the     *)
(* callbacks run by poll tasks call the ServerSocket handle.               *)
(***************************************************************************)
Handlers == polling \cup (IF loop.pc = "callback" THEN {loop.sid} ELSE {})

Call(s) ==
  /\ s \in Handlers
  /\ calls < MaxCalls
  /\ calls' = calls + 1

Join(s, r) ==
  /\ Call(s)
  /\ LET n == sockNsp[s] IN
       /\ roomKeys' = [roomKeys EXCEPT ![n] = @ \cup {r}]
       /\ members' = [members EXCEPT ![n][r] = @ \cup {s}]
  /\ UNCHANGED <<engine, envVars, events, inbox, out, loop, seq, clients,
                 sockNsp, polling, emitVars, dropped>>

Leave(s, r) ==
  /\ Call(s)
  /\ LET n == sockNsp[s] IN
       members' = IF r \in roomKeys[n]
                    THEN [members EXCEPT ![n][r] = @ \ {s}]
                    ELSE members
  /\ UNCHANGED <<engine, envVars, events, inbox, out, loop, seq, clients,
                 sockNsp, polling, roomKeys, emitVars, dropped>>

(* socket.emit on the handler's own socket.                               *)
Emit(s) ==
  /\ Call(s)
  /\ Send(decode(s), [type |-> "event", bid |-> 0, nsp |-> sockNsp[s]])
  /\ UNCHANGED <<engine, envVars, events, inbox, loop, seq, clients, sockNsp,
                 polling, roomVars, emitVars, dropped>>

(* sids_to_emit: nothing when the namespace has no rooms at all; a listed *)
(* name that is not a room of the namespace is taken as a sid.            *)
SidsToEmit(n, names) ==
  IF roomKeys[n] = {}
    THEN {}
    ELSE UNION {IF x \in roomKeys[n] THEN members[n][x] ELSE {x} : x \in names}

(* The rooms snapshot under the read lock that starts emit_to and        *)
(* emit_to_with_ack; `ack` tells which of the two spawns the emits.       *)
Broadcast(s, names, ack) ==
  /\ Call(s)
  /\ bcast' = [bcast EXCEPT ![calls + 1] =
                 [nsp |-> sockNsp[s], todo |-> SidsToEmit(sockNsp[s], names),
                  ack |-> ack]]
  /\ UNCHANGED <<engine, envVars, events, inbox, out, loop, seq, clients,
                 sockNsp, polling, roomVars, tasks, dropped>>

EmitTo(s, names) == Broadcast(s, names, FALSE)

(* emit_to_with_ack: the same loop; each task calls emit_with_ack, whose  *)
(* ledger entry and timeout live in socket.rs.                            *)
EmitToWithAck(s, names) == Broadcast(s, names, TRUE)

(* Mutant: the lookup ignores the namespace.                              *)
clientAnyNsp(x, n) == x \in clients

(* Server.client(sid, nsp): the registered socket of sid in nsp.          *)
client(x, n) == x \in clients /\ sockNsp[x] = n

(* emit_to, one iteration: look x up and spawn its emit task.             *)
EmitToLookup(b, x) ==
  /\ x \in bcast[b].todo
  /\ bcast' = [bcast EXCEPT ![b].todo = @ \ {x}]
  /\ tasks' = IF client(x, bcast[b].nsp) THEN tasks \cup {<<b, x>>} ELSE tasks
  /\ UNCHANGED <<engine, envVars, events, inbox, out, loop, seq, clients,
                 sockNsp, polling, roomVars, calls, dropped>>

(* The spawned task: client.emit (or emit_with_ack); a failure is only    *)
(* logged.                                                                *)
EmitTask(b, x) ==
  /\ <<b, x>> \in tasks
  /\ tasks' = tasks \ {<<b, x>>}
  /\ Send(decode(x), [type |-> IF bcast[b].ack THEN "ackEvent" ELSE "event",
                       bid |-> b, nsp |-> sockNsp[x]])
  /\ UNCHANGED <<engine, envVars, events, inbox, loop, seq, clients, sockNsp,
                 polling, roomVars, bcast, calls, dropped>>

(* The poll task reads the session's packets and dispatches them.         *)
PollPacket(s) ==
  /\ s \in polling
  /\ inbox[decode(s)] # << >>
  /\ inbox' = [inbox EXCEPT ![decode(s)] = Tail(@)]
  /\ UNCHANGED <<engine, envVars, events, out, loop, seq, clients, sockNsp,
                 polling, roomVars, emitVars, calls, dropped>>

(* poll_packet returns None once the session is closed: the task ends.    *)
PollEnd(s) ==
  /\ s \in polling
  /\ engine[decode(s)] = "closed"
  /\ polling' = polling \ {s}
  /\ UNCHANGED <<engine, envVars, events, inbox, out, loop, seq, clients,
                 sockNsp, roomVars, emitVars, calls, dropped>>

-----------------------------------------------------------------------------
EmitToArgs == {{x} : x \in Names}

Environment ==
  \/ \E e \in Esids : EngineOpen(e) \/ EngineUpgrade(e) \/ EngineClose(e)
  \/ \E e \in Esids, p \in PeerPackets : PeerSend(e, p)

EventLoop ==
  \/ CreateClient \/ HandleConnect \/ HandleConnectEnd
  \/ ConnectCallbackDone \/ Handshake \/ Register
  \/ DropClient \/ DropRooms

Tasks ==
  \/ \E s \in Sids, r \in RoomNames : Join(s, r) \/ Leave(s, r)
  \/ \E s \in Sids : Emit(s) \/ PollPacket(s) \/ PollEnd(s)
  \/ \E s \in Sids, N \in EmitToArgs : EmitTo(s, N) \/ EmitToWithAck(s, N)
  \/ \E b \in 1 .. MaxCalls, x \in Names : EmitToLookup(b, x) \/ EmitTask(b, x)

Next == Environment \/ EventLoop \/ Tasks

(* tokio runs the event loop, the spawned emit tasks and the poll tasks  *)
(* whenever they can; peers, the engine and handler code promise nothing. *)
Fairness ==
  /\ WF_vars(EventLoop)
  /\ \A b \in 1 .. MaxCalls, x \in Names :
       WF_vars(EmitToLookup(b, x)) /\ WF_vars(EmitTask(b, x))
  /\ \A s \in Sids : WF_vars(PollPacket(s)) /\ WF_vars(PollEnd(s))

Spec == Init /\ [][Next]_vars

FairSpec == Spec /\ Fairness

-----------------------------------------------------------------------------
(***************************************************************************)
(* Properties.                                                             *)
(***************************************************************************)

(* Types of the environment's state.                                       *)
EnvTypeOK ==
  /\ engine \in [Esids -> {"new", "open", "closed"}]
  /\ opens \in [Esids -> 0 .. MaxOpens]
  /\ sent \in [Esids -> 0 .. MaxPackets]
  /\ events \in Seq(EngineEvents)
  /\ inbox \in [Esids -> Seq(PeerPackets)]
  /\ out \in [Esids -> Seq(OutPackets)]

(* Types of the recv_event task's locals and of the sid generator.        *)
LoopTypeOK ==
  /\ loop \in [pc : LoopPcs, esid : Esids \cup {None}, sid : Sids \cup {None},
               nsp : Nsps \cup {None}, hs : BOOLEAN]
  /\ seq \in 0 .. MaxSeq

(* Server.clients and the sockets: every registered sid has a socket in a *)
(* namespace with an event table, as insert_clients only registers those. *)
RegistryTypeOK ==
  /\ clients \subseteq Sids
  /\ sockNsp \in [Sids -> Nsps \cup {None}]
  /\ \A c \in clients : sockNsp[c] \in Registered
  /\ polling \subseteq Sids
  /\ dropped \subseteq Esids

RoomsTypeOK ==
  /\ roomKeys \in [Nsps -> SUBSET RoomNames]
  /\ members \in [Nsps -> [RoomNames -> SUBSET Sids]]

EmitTypeOK ==
  /\ bcast \in [1 .. MaxCalls -> [nsp : Nsps \cup {None}, todo : SUBSET Names,
                                   ack : BOOLEAN]]
  /\ tasks \subseteq (1 .. MaxCalls) \X Sids
  /\ calls \in 0 .. MaxCalls

(* Types; and every sid in Server.clients has a socket in a namespace     *)
(* with an event table (insert_clients, server.rs:250).                   *)
TypeOK == EnvTypeOK /\ LoopTypeOK /\ RegistryTypeOK /\ RoomsTypeOK /\ EmitTypeOK

(* One engine session carries one Socket.IO sid: a transport upgrade     *)
(* re-registers the sid polling_transport_info finds instead of minting a *)
(* second one (create_client, server.rs:204-207).                         *)
OneSidPerEsid ==
  \A s1, s2 \in clients : decode(s1) = decode(s2) => s1 = s2

ConnectsSent(e) == {i \in 1 .. Len(out[e]) : out[e][i].type = "connect"}

(* The CONNECT handshake is written at most once on an engine session,   *)
(* however many OnOpen events the session produces (insert_clients is     *)
(* called with handshake = false on the upgrade path, server.rs:205).     *)
HandshakeAtMostOnce ==
  \A e \in Esids : Cardinality(ConnectsSent(e)) <= 1

(* A broadcast in namespace n reaches only sockets of namespace n, also   *)
(* when a listed name is the sid of a socket in another namespace         *)
(* (Server.client filters by namespace, server.rs:149-155).               *)
NoCrossNamespaceDelivery ==
  \A e \in Esids : \A i \in 1 .. Len(out[e]) :
    out[e][i].bid # 0 => out[e][i].nsp = bcast[out[e][i].bid].nsp

(* spec.md 4.5: OnClose removes the sids of the session from clients.     *)
ClientsRemovedOnClose ==
  \A s \in clients : decode(s) \notin dropped

(* spec.md 3: on disconnect the sid is removed from all rooms, and stays  *)
(* out: a handler still running when drop_client retains the rooms may    *)
(* join again afterwards.                                                 *)
RoomsCleanedOnClose ==
  \A n \in Nsps, r \in RoomNames : \A s \in members[n][r] : decode(s) \notin dropped

(* spec.md 4.5: the CONNECT handshake is sent before the connect callback *)
(* runs, so it precedes every event written on the session.               *)
HandshakeFirst ==
  \A e \in Esids : \A i \in 1 .. Len(out[e]) :
    out[e][i].type # "connect" => \E j \in 1 .. i - 1 : out[e][j].type = "connect"

(* The event loop handles every engine event: a session that is waiting  *)
(* for its CONNECT packet does not hold up the others.                    *)
EventLoopProgress == (loop.pc = "connecting") ~> (loop.pc = "idle")

=============================================================================
