----------------------------- MODULE SioClient -----------------------------
(***************************************************************************)
(* The Socket.IO client of src/socketio/src/client/client.rs: the poll     *)
(* task spawned by poll_callback, its reconnect loop with exponential      *)
(* backoff, and a user calling disconnect() concurrently.                  *)
(*                                                                         *)
(* Client.socket is an RwLock over the current connection; the poll task   *)
(* replaces it in do_reconnect.  Client.connected is an RwLock<bool> that  *)
(* disconnect() holds for writing across disconnect_socket, so the poll    *)
(* task's `connected.read()` waits for it.  Connections are numbered in    *)
(* the order connect_socket opened them.                                   *)
(***************************************************************************)
EXTENDS Naturals

CONSTANTS
  MaxConns,              \* connections opened in a behaviour (the first included)
  Reconnect,             \* builder.reconnect
  MaxReconnectAttempts,  \* builder.max_reconnect_attempts (Some value)
  DelayMin,              \* builder.reconnect_delay_min, ms
  DelayMax               \* builder.reconnect_delay_max, ms

ASSUME ConnsAssumption == MaxConns \in Nat \ {0}
ASSUME ReconnectAssumption == Reconnect \in BOOLEAN
ASSUME AttemptsAssumption == MaxReconnectAttempts \in Nat
ASSUME DelayAssumption == DelayMin \in Nat \ {0} /\ DelayMax \in Nat /\ DelayMin <= DelayMax

Conns == 1 .. MaxConns

PollPcs == {"poll", "disconnect", "retry", "connect", "install", "check", "exited"}

VARIABLES
  conn,       \* state of each connection: "none", "live" or "closed"
  opened,     \* connections opened so far
  socket,     \* the connection in Client.socket
  connected,  \* Client.connected
  poll,       \* the poll task: pc, reconnect_attempts, the new connection
  interval,   \* ExponentialBackoff.current_interval, ms
  lastDelay,  \* current_interval behind the latest sleep (0: no sleep);
              \* next_backoff randomises it by +-50%, left out here
  expired,    \* ExponentialBackoff's max_elapsed_time has passed
  serverUp,   \* whether connect_socket can reach the server
  user,       \* the user's disconnect() call: "idle", "disconnecting", "done"
  uemit       \* a user emit holding Client.socket's read guard: stage, connection

vars == <<conn, opened, socket, connected, poll, interval, lastDelay, expired,
          serverUp, user, uemit>>

MinOf(a, b) == IF a <= b THEN a ELSE b

Live == {c \in Conns : conn[c] = "live"}

(* Client::new: connect_socket succeeded, connected = true, backoff built. *)
Init ==
  /\ conn = [c \in Conns |-> IF c = 1 THEN "live" ELSE "none"]
  /\ opened = 1
  /\ socket = 1
  /\ connected = TRUE
  /\ poll = [pc |-> "poll", attempts |-> 0, new |-> 0]
  /\ interval = DelayMin
  /\ lastDelay = 0
  /\ expired = FALSE
  /\ serverUp \in BOOLEAN
  /\ user = "idle"
  /\ uemit = [st |-> "idle", conn |-> 0]

SetPc(pc) == poll' = [poll EXCEPT !.pc = pc]

-----------------------------------------------------------------------------
(***************************************************************************)
(* The poll task (poll_callback).                                          *)
(***************************************************************************)

(* poll_packet yields a packet (or an error other than                     *)
(* IncompleteResponseFromEngineIo): go on to the connected check.         *)
PollRecv ==
  /\ poll.pc = "poll"
  /\ conn[socket] = "live"
  /\ SetPc("check")
  /\ UNCHANGED <<conn, opened, socket, connected, interval, lastDelay, expired,
                 serverUp, user, uemit>>

(* IncompleteResponseFromEngineIo: the transport broke.                   *)
PollError ==
  /\ poll.pc = "poll"
  /\ conn[socket] = "live"
  /\ opened < MaxConns
  /\ SetPc("disconnect")
  /\ UNCHANGED <<conn, opened, socket, connected, interval, lastDelay, expired,
                 serverUp, user, uemit>>

(* poll_packet on a closed connection yields None (socket.rs is not in   *)
(* this repository: spec.md 4.6 lifecycle).                               *)
PollClosed ==
  /\ poll.pc = "poll"
  /\ conn[socket] = "closed"
  /\ SetPc("check")
  /\ UNCHANGED <<conn, opened, socket, connected, interval, lastDelay, expired,
                 serverUp, user, uemit>>

(* Mutant: disconnect_socket leaves the broken connection open.          *)
DisconnectSocketKeepsOpen ==
  /\ poll.pc = "disconnect"
  /\ poll' = [poll EXCEPT !.pc = IF Reconnect THEN "retry" ELSE "check",
                          !.attempts = 0]
  /\ UNCHANGED <<conn, opened, socket, connected, interval, lastDelay, expired,
                 serverUp, user, uemit>>

(* disconnect_socket on the current connection, then reconnect() with    *)
(* reconnect_attempts = 0, or nothing when reconnect is off.              *)
DisconnectSocket ==
  /\ poll.pc = "disconnect"
  /\ conn' = [conn EXCEPT ![socket] = "closed"]
  /\ poll' = [poll EXCEPT !.pc = IF Reconnect THEN "retry" ELSE "check",
                          !.attempts = 0]
  /\ UNCHANGED <<opened, socket, connected, interval, lastDelay, expired,
                 serverUp, user, uemit>>

(* Mutants: the attempt is not counted; the interval is not capped.      *)
RetryHeadUncounted ==
  /\ poll.pc = "retry"
  /\ IF poll.attempts > MaxReconnectAttempts
       THEN /\ SetPc("check")
            /\ UNCHANGED <<interval, lastDelay>>
       ELSE /\ SetPc("connect")
            /\ lastDelay' = IF expired THEN 0 ELSE interval
            /\ interval' = IF expired THEN interval
                           ELSE MinOf((interval * 3) \div 2, DelayMax)
  /\ UNCHANGED <<conn, opened, socket, connected, expired, serverUp, user, uemit>>

RetryHeadUncapped ==
  /\ poll.pc = "retry"
  /\ IF poll.attempts > MaxReconnectAttempts
       THEN /\ SetPc("check")
            /\ UNCHANGED <<interval, lastDelay>>
       ELSE /\ poll' = [poll EXCEPT !.pc = "connect", !.attempts = @ + 1]
            /\ lastDelay' = IF expired THEN 0 ELSE interval
            /\ interval' = IF expired THEN interval ELSE (interval * 3) \div 2
  /\ UNCHANGED <<conn, opened, socket, connected, expired, serverUp, user, uemit>>

(* Head of the reconnect loop: give up once attempts exceed the maximum; *)
(* otherwise count the attempt and take next_backoff, which is None once *)
(* max_elapsed_time has passed, and sleep for it.                         *)
RetryHead ==
  /\ poll.pc = "retry"
  /\ IF poll.attempts > MaxReconnectAttempts
       THEN /\ SetPc("check")
            /\ UNCHANGED <<interval, lastDelay>>
       ELSE /\ poll' = [poll EXCEPT !.pc = "connect", !.attempts = @ + 1]
            /\ lastDelay' = IF expired THEN 0 ELSE interval
            /\ interval' = IF expired THEN interval
                           ELSE MinOf((interval * 3) \div 2, DelayMax)
  /\ UNCHANGED <<conn, opened, socket, connected, expired, serverUp, user, uemit>>

(* do_reconnect, first half: connect_socket opens a new connection.       *)
DoReconnect ==
  /\ poll.pc = "connect"
  /\ \/ /\ serverUp
        /\ opened < MaxConns
        /\ opened' = opened + 1
        /\ conn' = [conn EXCEPT ![opened + 1] = "live"]
        /\ poll' = [poll EXCEPT !.pc = "install", !.new = opened + 1]
     \/ /\ ~serverUp
        /\ SetPc("retry")
        /\ UNCHANGED <<conn, opened>>
  /\ UNCHANGED <<socket, connected, interval, lastDelay, expired,
                 serverUp, user, uemit>>

(* do_reconnect, second half: *self.socket.write() = new_socket; the loop *)
(* breaks.  The write guard waits for the read guard of a user emit.      *)
Install ==
  /\ poll.pc = "install"
  /\ uemit.st = "idle"
  /\ socket' = poll.new
  /\ SetPc("check")
  /\ UNCHANGED <<conn, opened, connected, interval, lastDelay, expired, serverUp,
                 user, uemit>>

(* Mutant: the loop goes on polling whatever connected says.             *)
CheckIgnoringConnected ==
  /\ poll.pc = "check"
  /\ user # "disconnecting"
  /\ SetPc("poll")
  /\ UNCHANGED <<conn, opened, socket, connected, interval, lastDelay, expired,
                 serverUp, user, uemit>>

(* if !*connected.read().await { break }: waits while disconnect() holds *)
(* the write lock.                                                        *)
Check ==
  /\ poll.pc = "check"
  /\ user # "disconnecting"
  /\ SetPc(IF connected THEN "poll" ELSE "exited")
  /\ UNCHANGED <<conn, opened, socket, connected, interval, lastDelay, expired,
                 serverUp, user, uemit>>

-----------------------------------------------------------------------------
(***************************************************************************)
(* The user's disconnect() and the environment.                            *)
(***************************************************************************)

(* connected.write(); return if already false; set it false.              *)
DisconnectBegin ==
  /\ user = "idle"
  /\ uemit = [st |-> "idle", conn |-> 0]
  /\ connected' = FALSE
  /\ user' = IF connected THEN "disconnecting" ELSE "done"
  /\ UNCHANGED <<conn, opened, socket, poll, interval, lastDelay, expired, serverUp, uemit>>

(* disconnect_socket: the connection now in Client.socket is closed; the *)
(* write lock on connected is released.  tokio's RwLock queues its        *)
(* socket.read() behind the write do_reconnect is waiting for.            *)
DisconnectEnd ==
  /\ user = "disconnecting"
  /\ poll.pc # "install"
  /\ conn' = [conn EXCEPT ![socket] = "closed"]
  /\ user' = "done"
  /\ UNCHANGED <<opened, socket, connected, poll, interval, lastDelay, expired,
                 serverUp, uemit>>

(* Mutant: a reader-preferring lock; emits go ahead of a waiting write.  *)
EmitBeginReaderFirst ==
  /\ uemit.st = "idle"
  /\ uemit' = [st |-> "writing", conn |-> socket]
  /\ UNCHANGED <<conn, opened, socket, connected, poll, interval, lastDelay,
                 expired, serverUp, user>>

(* emit (and emit_with_ack, ack): self.socket.read(), then socket.emit   *)
(* with the guard held.  The read waits while do_reconnect's write is    *)
(* queued (tokio's RwLock is fair).                                       *)
EmitBegin ==
  /\ uemit.st = "idle"
  /\ poll.pc # "install"
  /\ uemit' = [st |-> "writing", conn |-> socket]
  /\ UNCHANGED <<conn, opened, socket, connected, poll, interval, lastDelay,
                 expired, serverUp, user>>

(* socket.emit returns (an error on a closed connection); the guard is   *)
(* dropped.                                                                *)
EmitEnd ==
  /\ uemit.st = "writing"
  /\ uemit' = [st |-> "idle", conn |-> 0]
  /\ UNCHANGED <<conn, opened, socket, connected, poll, interval, lastDelay,
                 expired, serverUp, user>>

ServerFlip ==
  /\ serverUp' = ~serverUp
  /\ UNCHANGED <<conn, opened, socket, connected, poll, interval, lastDelay, expired,
                 user, uemit>>

Expire ==
  /\ ~expired
  /\ expired' = TRUE
  /\ UNCHANGED <<conn, opened, socket, connected, poll, interval, lastDelay,
                 serverUp, user, uemit>>

PollTask ==
  \/ PollRecv \/ PollError \/ PollClosed \/ DisconnectSocket \/ RetryHead
  \/ DoReconnect \/ Install \/ Check

Next ==
  \/ PollTask
  \/ DisconnectBegin \/ DisconnectEnd \/ EmitBegin \/ EmitEnd
  \/ ServerFlip \/ Expire

Spec == Init /\ [][Next]_vars

(* The tokio runtime runs the poll task, a started disconnect() and a     *)
(* started emit to their next await; packets, failures, the server and   *)
(* the user are not obliged to do anything.                               *)
FairSpec ==
  /\ Spec
  /\ WF_vars(PollClosed) /\ WF_vars(DisconnectSocket) /\ WF_vars(RetryHead)
  /\ WF_vars(DoReconnect) /\ WF_vars(Install) /\ WF_vars(Check)
  /\ WF_vars(DisconnectEnd) /\ WF_vars(EmitEnd)

-----------------------------------------------------------------------------
(***************************************************************************)
(* Properties.                                                             *)
(***************************************************************************)

TypeOK ==
  /\ conn \in [Conns -> {"none", "live", "closed"}]
  /\ opened \in Conns
  /\ \A c \in Conns : conn[c] = "none" <=> c > opened
  /\ socket \in 1 .. opened
  /\ connected \in BOOLEAN
  /\ poll \in [pc : PollPcs, attempts : Nat, new : 0 .. MaxConns]
  /\ interval \in DelayMin .. DelayMax
  /\ lastDelay \in 0 .. DelayMax
  /\ expired \in BOOLEAN /\ serverUp \in BOOLEAN
  /\ user \in {"idle", "disconnecting", "done"}
  /\ uemit \in [st : {"idle", "writing"}, conn : 0 .. opened]

(* The client holds at most one open connection: the poll task closes the *)
(* broken one (disconnect_socket) before do_reconnect opens the next, and *)
(* a concurrent disconnect() only closes.                                 *)
AtMostOneLive == \A c, d \in Live : c = d

(* The client implements the connection holder of SioClientConn, seen    *)
(* through its open connections: do_reconnect opens the next connection   *)
(* only once disconnect_socket, or the user's disconnect(), has closed    *)
(* the previous one, and every close ends an open connection.             *)
ConnHolder == INSTANCE SioClientConn WITH live <- Live

ConnRefinement == ConnHolder!Spec

(* A reconnect episode ends, reconnected or given up, even if the server  *)
(* stays down (reconnect_attempts is counted against the maximum) and     *)
(* the user keeps emitting (the write do_reconnect queues on Client.socket *)
(* holds back new read guards).                                           *)
EpisodeEnds == (poll.pc = "retry") ~> (poll.pc = "check")

(* Once disconnect() has returned the poll task exits: the connected      *)
(* check follows every packet, every reconnect episode and every None.    *)
ExitsAfterDisconnect == (user = "done") ~> (poll.pc = "exited")

(* spec.md 8: after disconnect() the client keeps no connection open.    *)
(* The poll task may install a connection disconnect() never saw.         *)
DisconnectIsFinal ==
  (user = "done" /\ poll.pc = "exited") => Live = {}

(* spec.md 4.6 and 8: at most max_reconnect_attempts attempts, so 0 means *)
(* none; the loop tests attempts > max before counting one.               *)
ReconnectAttemptsBounded == poll.attempts <= MaxReconnectAttempts

(* spec.md 4.6: the delays of a reconnect episode start at delay_min.    *)
(* The poll task's ExponentialBackoff is cloned once in poll_callback and *)
(* never reset, so a second episode resumes where the first one stopped. *)
(* Stated while max_elapsed_time has not passed, when sleeps still occur. *)
BackoffRestartsAtMin ==
  (poll.pc = "connect" /\ poll.attempts = 1 /\ ~expired) => lastDelay = DelayMin

=============================================================================
