---------------------------- MODULE SioClientConn ----------------------------
(***************************************************************************)
(* What the Socket.IO client of client/client.rs promises about its        *)
(* connections, without the poll task, the backoff, the locks or the      *)
(* user's calls: it holds one connection at a time, numbered in the order *)
(* they are opened, and opens the next only once no connection is open.   *)
(* SioClient implements it with `live` the set of its open connections.   *)
(***************************************************************************)
EXTENDS Naturals

CONSTANT MaxConns  \* connections opened in a behaviour (the first included)

VARIABLES
  live,    \* the open connections
  opened   \* connections opened so far

connVars == <<live, opened>>

(* Client::new returns with connection 1 open.                            *)
Init == live = {1} /\ opened = 1

(* A new connection is opened while none is.                               *)
Open ==
  /\ live = {}
  /\ opened < MaxConns
  /\ opened' = opened + 1
  /\ live' = {opened + 1}

(* An open connection is closed.                                           *)
Close(c) ==
  /\ c \in live
  /\ live' = live \ {c}
  /\ UNCHANGED opened

Next == Open \/ \E c \in 1 .. MaxConns : Close(c)

Spec == Init /\ [][Next]_connVars

=============================================================================
