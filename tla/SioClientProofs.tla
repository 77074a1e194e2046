-------------------------- MODULE SioClientProofs --------------------------
(***************************************************************************)
(* Proofs about the client of SioClient: every reachable state is well     *)
(* typed, and the client never holds two open connections, for every      *)
(* value of the constants.                                                 *)
(*                                                                         *)
(* AtMostOneLive is not inductive by itself: a step of do_reconnect opens *)
(* a connection, and is safe only because the poll task closed the       *)
(* broken one before it entered the reconnect loop.  LiveInv says which   *)
(* connection may be open at each point of the poll task: only the one in *)
(* Client.socket while polling or checking, none inside the retry loop,   *)
(* only the new one between connect_socket and the write of Client.socket. *)
(***************************************************************************)
EXTENDS SioClient, TLAPS

Reconnecting == {"retry", "connect"}

LiveInv ==
  /\ poll.pc \in Reconnecting => Live = {}
  /\ poll.pc = "install" => poll.new \in 1 .. opened /\ Live \subseteq {poll.new}
  /\ poll.pc \notin Reconnecting \cup {"install"} => Live \subseteq {socket}

IInv == TypeOK /\ LiveInv

USE ConnsAssumption, ReconnectAssumption, AttemptsAssumption, DelayAssumption

LEMMA InitIInv == Init => IInv
<1> SUFFICES ASSUME Init PROVE IInv
  OBVIOUS
<1>1. TypeOK
  <2>1. conn \in [Conns -> {"none", "live", "closed"}]
    BY DEF Init, Conns
  <2>2. \A c \in Conns : conn[c] = "none" <=> c > opened
    BY DEF Init, Conns
  <2>3. opened \in Conns /\ socket \in 1 .. opened
    BY DEF Init, Conns
  <2>4. poll \in [pc : PollPcs, attempts : Nat, new : 0 .. MaxConns]
    BY DEF Init, PollPcs
  <2>5. interval \in DelayMin .. DelayMax /\ lastDelay \in 0 .. DelayMax
    BY DEF Init
  <2>6. uemit \in [st : {"idle", "writing"}, conn : 0 .. opened]
    BY DEF Init
  <2>7. QED
    BY <2>1, <2>2, <2>3, <2>4, <2>5, <2>6 DEF Init, TypeOK
<1>2. Live \subseteq {socket}
  BY DEF Init, Live, Conns
<1>3. QED
  BY <1>1, <1>2 DEF Init, IInv, LiveInv, Reconnecting

LEMMA PollRecvIInv == IInv /\ PollRecv => IInv'
  BY DEF IInv, TypeOK, LiveInv, Live, Conns, PollPcs, Reconnecting, SetPc, PollRecv

LEMMA PollErrorIInv == IInv /\ PollError => IInv'
  BY DEF IInv, TypeOK, LiveInv, Live, Conns, PollPcs, Reconnecting, SetPc, PollError

LEMMA PollClosedIInv == IInv /\ PollClosed => IInv'
  BY DEF IInv, TypeOK, LiveInv, Live, Conns, PollPcs, Reconnecting, SetPc, PollClosed

LEMMA DisconnectSocketIInv == IInv /\ DisconnectSocket => IInv'
<1> SUFFICES ASSUME IInv, DisconnectSocket PROVE IInv'
  OBVIOUS
<1>a. Live \subseteq {socket} /\ socket \in Conns
  BY DEF IInv, LiveInv, TypeOK, DisconnectSocket, Reconnecting, Conns
<1>b. Live' = {}
  BY <1>a DEF DisconnectSocket, Live, IInv, TypeOK
<1>c. poll'.pc \in {"retry", "check"}
  BY DEF DisconnectSocket, IInv, TypeOK
<1>1. TypeOK'
  <2>1. conn' \in [Conns -> {"none", "live", "closed"}]
    BY <1>a DEF IInv, TypeOK, DisconnectSocket
  <2>2. \A c \in Conns : conn'[c] = "none" <=> c > opened'
    BY <1>a DEF IInv, TypeOK, DisconnectSocket, Conns
  <2>3. poll' \in [pc : PollPcs, attempts : Nat, new : 0 .. MaxConns]
    BY DEF IInv, TypeOK, DisconnectSocket, PollPcs
  <2>4. QED
    BY <2>1, <2>2, <2>3 DEF IInv, TypeOK, DisconnectSocket
<1>2. LiveInv'
  BY <1>b, <1>c DEF LiveInv, Reconnecting
<1>3. QED
  BY <1>1, <1>2 DEF IInv

LEMMA RetryHeadIInv == IInv /\ RetryHead => IInv'
<1> SUFFICES ASSUME IInv, RetryHead PROVE IInv'
  OBVIOUS
<1>a. Live = {} /\ interval \in DelayMin .. DelayMax
  BY DEF IInv, LiveInv, TypeOK, RetryHead, Reconnecting
<1>b. (interval * 3) \div 2 >= interval
  BY <1>a
<1>c. MinOf((interval * 3) \div 2, DelayMax) \in DelayMin .. DelayMax
  BY <1>a, <1>b DEF MinOf
<1>d. poll'.pc \in {"check", "connect"} /\ Live' = {}
  BY <1>a DEF RetryHead, SetPc, IInv, TypeOK, Live
<1>1. TypeOK'
  <2>a. poll \in [pc : PollPcs, attempts : Nat, new : 0 .. MaxConns]
        /\ lastDelay \in 0 .. DelayMax
    BY DEF IInv, TypeOK
  <2>1. poll' \in [pc : PollPcs, attempts : Nat, new : 0 .. MaxConns]
    <3>1. CASE poll.attempts > MaxReconnectAttempts
      BY <3>1, <2>a DEF RetryHead, SetPc, PollPcs
    <3>2. CASE ~(poll.attempts > MaxReconnectAttempts)
      <4>1. poll' = [poll EXCEPT !.pc = "connect", !.attempts = poll.attempts + 1]
        BY <3>2 DEF RetryHead
      <4>2. poll.attempts + 1 \in Nat
        BY <2>a
      <4>3. QED
        BY <4>1, <4>2, <2>a DEF PollPcs
    <3>3. QED
      BY <3>1, <3>2
  <2>2. interval' \in DelayMin .. DelayMax /\ lastDelay' \in 0 .. DelayMax
    BY <1>a, <1>c, <2>a DEF RetryHead
  <2>3. QED
    BY <2>1, <2>2 DEF IInv, TypeOK, RetryHead
<1>2. LiveInv'
  BY <1>d DEF LiveInv, Reconnecting
<1>3. QED
  BY <1>1, <1>2 DEF IInv

LEMMA DoReconnectIInv == IInv /\ DoReconnect => IInv'
<1> SUFFICES ASSUME IInv, DoReconnect PROVE IInv'
  OBVIOUS
<1>a. Live = {} /\ poll.pc = "connect"
  BY DEF IInv, LiveInv, DoReconnect, Reconnecting
<1>1. CASE /\ serverUp
           /\ opened < MaxConns
           /\ opened' = opened + 1
           /\ conn' = [conn EXCEPT ![opened + 1] = "live"]
           /\ poll' = [poll EXCEPT !.pc = "install", !.new = opened + 1]
  <2>a. opened + 1 \in Conns /\ conn[opened + 1] = "none"
    BY <1>1 DEF IInv, TypeOK, Conns
  <2>b. UNCHANGED <<socket, connected, interval, lastDelay, expired, serverUp,
                   user, uemit>>
    BY DEF DoReconnect
  <2>1. TypeOK'
    <3>1. conn' \in [Conns -> {"none", "live", "closed"}]
      BY <1>1, <2>a DEF IInv, TypeOK
    <3>2. \A c \in Conns : conn'[c] = "none" <=> c > opened'
      BY <1>1, <2>a DEF IInv, TypeOK, Conns
    <3>3. opened' \in Conns /\ socket' \in 1 .. opened'
      BY <1>1, <2>a, <2>b DEF IInv, TypeOK, Conns
    <3>4. poll' \in [pc : PollPcs, attempts : Nat, new : 0 .. MaxConns]
      <4>1. poll \in [pc : PollPcs, attempts : Nat, new : 0 .. MaxConns]
        BY DEF IInv, TypeOK
      <4>2. opened + 1 \in 0 .. MaxConns
        BY <2>a DEF Conns
      <4>3. QED
        BY <1>1, <4>1, <4>2 DEF PollPcs
    <3>5. uemit' \in [st : {"idle", "writing"}, conn : 0 .. opened']
      <4>1. uemit \in [st : {"idle", "writing"}, conn : 0 .. opened]
        BY DEF IInv, TypeOK
      <4>2. opened \in Nat
        BY DEF IInv, TypeOK, Conns
      <4>3. QED
        BY <1>1, <2>b, <4>1, <4>2
    <3>6. QED
      BY <3>1, <3>2, <3>3, <3>4, <3>5, <2>b DEF IInv, TypeOK
  <2>2. Live' \subseteq {opened + 1}
    BY <1>1, <1>a DEF Live, IInv, TypeOK
  <2>3. poll'.pc = "install" /\ poll'.new = opened' /\ opened' \in 1 .. opened'
    BY <1>1, <2>a DEF IInv, TypeOK, Conns
  <2>4. LiveInv'
    BY <1>1, <2>2, <2>3 DEF LiveInv, Reconnecting
  <2>5. QED
    BY <2>1, <2>4 DEF IInv
<1>2. CASE ~serverUp /\ SetPc("retry") /\ UNCHANGED <<conn, opened>>
  BY <1>2, <1>a DEF IInv, TypeOK, LiveInv, Live, DoReconnect, SetPc, PollPcs,
     Reconnecting
<1>3. QED
  BY <1>1, <1>2 DEF DoReconnect

LEMMA InstallIInv == IInv /\ Install => IInv'
  BY DEF IInv, TypeOK, LiveInv, Live, Conns, PollPcs, Reconnecting, SetPc, Install

LEMMA CheckIInv == IInv /\ Check => IInv'
  BY DEF IInv, TypeOK, LiveInv, Live, Conns, PollPcs, Reconnecting, SetPc, Check

LEMMA DisconnectBeginIInv == IInv /\ DisconnectBegin => IInv'
  BY DEF IInv, TypeOK, LiveInv, Live, Conns, PollPcs, Reconnecting, SetPc, DisconnectBegin

LEMMA DisconnectEndIInv == IInv /\ DisconnectEnd => IInv'
  BY DEF IInv, TypeOK, LiveInv, Live, Conns, PollPcs, Reconnecting, SetPc, DisconnectEnd

LEMMA EmitBeginIInv == IInv /\ EmitBegin => IInv'
  BY DEF IInv, TypeOK, LiveInv, Live, Conns, PollPcs, Reconnecting, SetPc, EmitBegin

LEMMA EmitEndIInv == IInv /\ EmitEnd => IInv'
  BY DEF IInv, TypeOK, LiveInv, Live, Conns, PollPcs, Reconnecting, SetPc, EmitEnd

LEMMA ServerFlipIInv == IInv /\ ServerFlip => IInv'
  BY DEF IInv, TypeOK, LiveInv, Live, Conns, PollPcs, Reconnecting, SetPc, ServerFlip

LEMMA ExpireIInv == IInv /\ Expire => IInv'
  BY DEF IInv, TypeOK, LiveInv, Live, Conns, PollPcs, Reconnecting, SetPc, Expire

LEMMA StutterIInv == IInv /\ UNCHANGED vars => IInv'
  BY DEF vars, IInv, TypeOK, LiveInv, Live, Reconnecting

LEMMA NextIInv == IInv /\ [Next]_vars => IInv'
  BY PollRecvIInv, PollErrorIInv, PollClosedIInv, DisconnectSocketIInv, RetryHeadIInv, DoReconnectIInv, InstallIInv, CheckIInv, DisconnectBeginIInv, DisconnectEndIInv, EmitBeginIInv, EmitEndIInv, ServerFlipIInv, ExpireIInv, StutterIInv
  DEF Next, PollTask

LEMMA SpecIInv == Spec => []IInv
  BY InitIInv, NextIInv, PTL DEF Spec

(* Every reachable state of the client is well typed: in particular the  *)
(* backoff interval stays within [delay_min, delay_max] and Client.socket *)
(* always names a connection that was opened.                             *)
THEOREM ClientTypeCorrect == Spec => []TypeOK
  BY SpecIInv, PTL DEF IInv

(* For every bound and configuration, the client never holds two open    *)
(* connections: disconnect_socket closes the broken one before            *)
(* do_reconnect opens the next, and a concurrent disconnect() only closes.*)
THEOREM ClientAtMostOneLive == Spec => []AtMostOneLive
  <1>1. IInv => AtMostOneLive
    BY DEF IInv, LiveInv, AtMostOneLive, Reconnecting
  <1>2. QED
    BY SpecIInv, <1>1, PTL

-----------------------------------------------------------------------------
(***************************************************************************)
(* Refinement: the client implements SioClientConn under Live.  Every     *)
(* step that leaves the connections alone is a stutter of the holder;      *)
(* disconnect_socket and the user's disconnect_socket close Client.socket, *)
(* a Close or, when it was closed already, a stutter; a successful         *)
(* connect_socket is an Open, because LiveInv says nothing is open inside  *)
(* the reconnect loop.                                                      *)
(***************************************************************************)

LEMMA InitRefines == Init => ConnHolder!Init
<1> SUFFICES ASSUME Init PROVE Live = {1} /\ opened = 1
  BY DEF ConnHolder!Init
<1>1. 1 \in Conns
  BY DEF Conns
<1>2. QED
  BY <1>1 DEF Init, Live, Conns

LEMMA QuietRefines ==
  ASSUME UNCHANGED <<conn, opened>>
  PROVE  [ConnHolder!Next]_ConnHolder!connVars
BY DEF ConnHolder!connVars, Live

(* Closing Client.socket: a Close of the holder, or a stutter when it was *)
(* closed already.                                                          *)
LEMMA CloseRefines ==
  ASSUME IInv, conn' = [conn EXCEPT ![socket] = "closed"], UNCHANGED opened
  PROVE  [ConnHolder!Next]_ConnHolder!connVars
<1>1. socket \in Conns /\ conn \in [Conns -> {"none", "live", "closed"}]
  BY DEF IInv, TypeOK, Conns
<1>2. Live' = Live \ {socket}
  BY <1>1 DEF Live
<1>3. CASE socket \in Live
  <2>1. ConnHolder!Close(socket)
    BY <1>2, <1>3 DEF ConnHolder!Close
  <2>2. QED
    BY <1>1, <2>1 DEF ConnHolder!Next, Conns
<1>4. CASE socket \notin Live
  BY <1>2, <1>4 DEF ConnHolder!connVars
<1>5. QED
  BY <1>3, <1>4

(* connect_socket succeeds inside the reconnect loop: an Open.            *)
LEMMA DoReconnectRefines ==
  ASSUME IInv, DoReconnect
  PROVE  [ConnHolder!Next]_ConnHolder!connVars
<1>1. CASE UNCHANGED <<conn, opened>>
  BY <1>1, QuietRefines
<1>2. CASE /\ opened < MaxConns
           /\ opened' = opened + 1
           /\ conn' = [conn EXCEPT ![opened + 1] = "live"]
  <2>1. Live = {}
    BY DEF DoReconnect, IInv, LiveInv, Reconnecting
  <2>2. opened + 1 \in Conns /\ conn \in [Conns -> {"none", "live", "closed"}]
    BY <1>2 DEF IInv, TypeOK, Conns
  <2>3. Live' = {opened + 1}
    BY <1>2, <2>1, <2>2 DEF Live
  <2>4. ConnHolder!Open
    BY <1>2, <2>1, <2>3 DEF ConnHolder!Open
  <2>5. QED
    BY <2>4 DEF ConnHolder!Next
<1>3. QED
  BY <1>1, <1>2 DEF DoReconnect, SetPc

LEMMA NextRefines == IInv /\ [Next]_vars => [ConnHolder!Next]_ConnHolder!connVars
<1> SUFFICES ASSUME IInv, [Next]_vars
             PROVE  [ConnHolder!Next]_ConnHolder!connVars
  OBVIOUS
<1>1. CASE DisconnectSocket \/ DisconnectEnd
  BY <1>1, CloseRefines DEF DisconnectSocket, DisconnectEnd
<1>2. CASE DoReconnect
  BY <1>2, DoReconnectRefines
<1>3. CASE \/ PollRecv \/ PollError \/ PollClosed \/ RetryHead \/ Install
           \/ Check \/ DisconnectBegin \/ EmitBegin \/ EmitEnd \/ ServerFlip
           \/ Expire \/ UNCHANGED vars
  <2>1. UNCHANGED <<conn, opened>>
    BY <1>3 DEF PollRecv, PollError, PollClosed, RetryHead, Install, Check,
                DisconnectBegin, EmitBegin, EmitEnd, ServerFlip, Expire, vars
  <2>2. QED
    BY <2>1, QuietRefines
<1>4. QED
  BY <1>1, <1>2, <1>3 DEF Next, PollTask

(* For every bound and configuration, the client is a connection holder  *)
(* that opens its next connection only when none is open and closes only *)
(* open ones: the reconnect loop of poll_callback, the backoff, the locks *)
(* on Client.socket and connected and a concurrent disconnect() add no    *)
(* other change to the set of open connections.                           *)
THEOREM ClientImplementsConnHolder == Spec => ConnRefinement
<1>1. Spec => []IInv
  BY SpecIInv
<1>2. QED
  BY <1>1, InitRefines, NextRefines, PTL DEF Spec, ConnRefinement, ConnHolder!Spec

=============================================================================
