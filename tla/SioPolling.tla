----------------------------- MODULE SioPolling -----------------------------
(***************************************************************************)
(* The Engine.IO long-polling transport of                                 *)
(* src/engineio/src/transports/polling.rs, for one engine session.        *)
(*                                                                         *)
(* ServerPolling wraps two bounded tokio mpsc channels: emit sends into    *)
(* `send`, which the engine's HTTP handler drains into the answer of a     *)
(* client GET; poll_next receives from `recv`, which the handler fills     *)
(* with the body of a client POST.  ClientPolling sends a POST per emit    *)
(* and a GET per poll_next.  The HTTP handler and the session's closing    *)
(* are in the engine server, not in this repository: they are modelled    *)
(* from spec.md 4.2 and 5.                                                 *)
(*                                                                         *)
(* Frames and bodies are numbered in the order their emit was called.      *)
(***************************************************************************)
EXTENDS Naturals, Sequences, SequencesExt

CONSTANTS
  ChannelCap,  \* capacity of each mpsc channel (spec.md 5: 100 by default)
  MaxFrames,   \* ServerPolling::emit calls in a behaviour
  MaxPosts,    \* ClientPolling::emit calls in a behaviour
  MaxGets,     \* GET requests ClientPolling::poll_next sends in a behaviour
  Queries      \* the query pairs a user may give ClientPolling::new

ASSUME CapAssumption == ChannelCap \in Nat \ {0}
ASSUME BoundsAssumption ==
  MaxFrames \in Nat /\ MaxPosts \in Nat /\ MaxGets \in Nat \ {0}

VARIABLES
  url,        \* the query pairs of ClientPolling.url
  sendq,      \* the `send` channel: frames emitted, not yet drained
  nextFrame,  \* number of the next ServerPolling::emit call
  emitting,   \* frames whose ServerPolling::emit awaits sender.send
  accepted,   \* frames the `send` channel accepted (history)
  discarded,  \* frames written into the answer of a GET no future awaits
  gets,       \* GETs the engine holds open (long poll), by number
  nextGet,    \* number of the next GET
  parked,     \* poll_next returned Pending and its waker was dropped
  post,       \* ClientPolling::emit in progress: stage, body, HTTP status
  nextPost,   \* number of the next ClientPolling::emit call
  okPosts,    \* bodies whose ClientPolling::emit returned Ok (history)
  recvq,      \* the `recv` channel: POST bodies not yet received
  served,     \* bodies ServerPolling::poll_next yielded, in order
  ended,      \* ServerPolling::poll_next yielded None
  closed      \* the engine closed the session and dropped its channel ends

vars == <<url, sendq, nextFrame, emitting, accepted, discarded, gets, nextGet,
          parked, post, nextPost, okPosts, recvq, served, ended, closed>>

serverVars == <<sendq, nextFrame, emitting, accepted>>
clientVars == <<url, gets, nextGet, parked, post, nextPost, okPosts>>
recvVars == <<recvq, served, ended>>

-----------------------------------------------------------------------------
(***************************************************************************)
(* ClientPolling::new: append transport=polling unless some pair has the   *)
(* key "transport" or the value "polling".  Pairs are <<key, value>>; the *)
(* order of the query string is left out.                                  *)
(***************************************************************************)
NewUrl(q) ==
  IF \E p \in q : p[1] = "transport" \/ p[2] = "polling"
    THEN q
    ELSE q \cup {<<"transport", "polling">>}

Init ==
  /\ \E q \in Queries : url = NewUrl(q)
  /\ sendq = <<>> /\ nextFrame = 1 /\ emitting = {} /\ accepted = {}
  /\ discarded = {} /\ gets = {} /\ nextGet = 1 /\ parked = FALSE
  /\ post = [stage |-> "idle", body |-> 0, status |-> 0]
  /\ nextPost = 1 /\ okPosts = {}
  /\ recvq = <<>> /\ served = <<>> /\ ended = FALSE /\ closed = FALSE

-----------------------------------------------------------------------------
(***************************************************************************)
(* ServerPolling.                                                          *)
(***************************************************************************)

(* A task calls ServerPolling::emit with a new frame.                     *)
ServerEmitCall ==
  /\ nextFrame <= MaxFrames
  /\ emitting' = emitting \cup {nextFrame}
  /\ nextFrame' = nextFrame + 1
  /\ UNCHANGED <<sendq, accepted, discarded, clientVars, recvVars, closed>>

(* Mutant: an unbounded channel; send never waits.                       *)
ServerEmitSendUnbounded(f) ==
  /\ f \in emitting
  /\ emitting' = emitting \ {f}
  /\ \/ /\ ~closed
        /\ sendq' = Append(sendq, f)
        /\ accepted' = accepted \cup {f}
     \/ /\ closed
        /\ UNCHANGED <<sendq, accepted>>
  /\ UNCHANGED <<nextFrame, discarded, clientVars, recvVars, closed>>

(* sender.send(data).await: waits while the channel is full, and fails   *)
(* with SendError once its receiver is dropped.                            *)
ServerEmitSend(f) ==
  /\ f \in emitting
  /\ emitting' = emitting \ {f}
  /\ \/ /\ ~closed
        /\ Len(sendq) < ChannelCap
        /\ sendq' = Append(sendq, f)
        /\ accepted' = accepted \cup {f}
     \/ /\ closed
        /\ UNCHANGED <<sendq, accepted>>
  /\ UNCHANGED <<nextFrame, discarded, clientVars, recvVars, closed>>

(* Mutant: poll_next takes a closed channel for the end of the stream,   *)
(* dropping the bodies still buffered in it.                               *)
ServerPollEndEarly ==
  /\ ~ended
  /\ closed
  /\ ended' = TRUE
  /\ UNCHANGED <<recvq, served, serverVars, discarded, clientVars, closed>>

(* Mutant: `None => Poll::Pending`: the stream never ends.                *)
ServerPollEndPending ==
  /\ ~ended
  /\ closed /\ recvq = <<>>
  /\ UNCHANGED vars

(* poll_next: receiver.lock(), then recv(): a buffered body, or None once *)
(* the channel is closed and empty; Pending otherwise.  The engine server *)
(* polls each session's stream from a single task, so the lock is free.   *)
ServerPollNext ==
  /\ ~ended
  /\ recvq # <<>>
  /\ served' = Append(served, Head(recvq))
  /\ recvq' = Tail(recvq)
  /\ UNCHANGED <<ended, serverVars, discarded, clientVars, closed>>

ServerPollEnd ==
  /\ ~ended
  /\ closed /\ recvq = <<>>
  /\ ended' = TRUE
  /\ UNCHANGED <<recvq, served, serverVars, discarded, clientVars, closed>>

-----------------------------------------------------------------------------
(***************************************************************************)
(* ClientPolling.                                                          *)
(***************************************************************************)

(* emit: POST the body; the caller awaits the answer.                     *)
ClientEmit ==
  /\ post.stage = "idle"
  /\ nextPost <= MaxPosts
  /\ post' = [stage |-> "sent", body |-> nextPost, status |-> 0]
  /\ nextPost' = nextPost + 1
  /\ UNCHANGED <<url, gets, nextGet, parked, okPosts, serverVars, discarded,
                 recvVars, closed>>

(* Ok iff the status is 200, InvalidHttpResponseStatus otherwise.         *)
ClientEmitDone ==
  /\ post.stage = "answered"
  /\ okPosts' = IF post.status = 200 THEN okPosts \cup {post.body} ELSE okPosts
  /\ post' = [post EXCEPT !.stage = "idle"]
  /\ UNCHANGED <<url, gets, nextGet, parked, nextPost, serverVars, discarded,
                 recvVars, closed>>

(* poll_next boxes a fresh `client.get(..).send()` future and polls it    *)
(* once.  The request is handed to the connection, but its answer cannot  *)
(* be there on that first poll: ready! returns Pending and the future,    *)
(* with the waker it registered, is dropped.  The GET may still reach the *)
(* engine, or be cancelled; the task is parked.                           *)
ClientPollNext ==
  /\ ~parked
  /\ nextGet <= MaxGets
  /\ \/ gets' = gets \cup {nextGet}
     \/ UNCHANGED gets
  /\ nextGet' = nextGet + 1
  /\ parked' = TRUE
  /\ UNCHANGED <<url, post, nextPost, okPosts, serverVars, discarded, recvVars,
                 closed>>

(* Nothing is left to wake the parked task, but the runtime may poll it  *)
(* again spuriously; the next poll_next starts a new GET.                 *)
ClientWake ==
  /\ parked
  /\ parked' = FALSE
  /\ UNCHANGED <<url, gets, nextGet, post, nextPost, okPosts, serverVars,
                 discarded, recvVars, closed>>

-----------------------------------------------------------------------------
(***************************************************************************)
(* The engine's HTTP handler and session (spec.md 4.2, 5).                 *)
(***************************************************************************)

(* A held GET is answered with everything in `send`.  No future awaits   *)
(* the answer any more.                                                    *)
EngineAnswerGet(g) ==
  /\ g \in gets
  /\ ~closed
  /\ sendq # <<>>
  /\ discarded' = discarded \cup ToSet(sendq)
  /\ sendq' = <<>>
  /\ gets' = gets \ {g}
  /\ UNCHANGED <<nextFrame, emitting, accepted, url, nextGet, parked, post,
                 nextPost, okPosts, recvVars, closed>>

(* A POST body is pushed into `recv` (waiting while it is full) and      *)
(* answered 200; a closed session answers 400.                            *)
EnginePost ==
  /\ post.stage = "sent"
  /\ \/ /\ ~closed
        /\ Len(recvq) < ChannelCap
        /\ recvq' = Append(recvq, post.body)
        /\ post' = [post EXCEPT !.stage = "answered", !.status = 200]
     \/ /\ closed
        /\ post' = [post EXCEPT !.stage = "answered", !.status = 400]
        /\ UNCHANGED recvq
  /\ UNCHANGED <<served, ended, serverVars, discarded, url, gets, nextGet,
                 parked, nextPost, okPosts, closed>>

(* The session closes (client gone, heartbeat timeout): both channels    *)
(* lose their engine end.                                                  *)
EngineClose ==
  /\ ~closed
  /\ closed' = TRUE
  /\ UNCHANGED <<serverVars, discarded, clientVars, recvVars>>

Next ==
  \/ ServerEmitCall \/ \E f \in emitting : ServerEmitSend(f)
  \/ ServerPollNext \/ ServerPollEnd
  \/ ClientEmit \/ ClientEmitDone \/ ClientPollNext \/ ClientWake
  \/ \E g \in gets : EngineAnswerGet(g)
  \/ EnginePost \/ EngineClose

Spec == Init /\ [][Next]_vars

(* The engine polls the session's stream from its own task until None,   *)
(* and every emit awaits its send; the HTTP peers are not obliged to act. *)
FairSpec ==
  /\ Spec
  /\ WF_vars(ServerPollNext) /\ WF_vars(ServerPollEnd)
  /\ WF_vars(\E f \in emitting : ServerEmitSend(f))

-----------------------------------------------------------------------------
(***************************************************************************)
(* Properties.                                                             *)
(***************************************************************************)

TypeOK ==
  /\ sendq \in Seq(1 .. MaxFrames) /\ Len(sendq) <= ChannelCap
  /\ recvq \in Seq(1 .. MaxPosts) /\ Len(recvq) <= ChannelCap
  /\ nextFrame \in 1 .. MaxFrames + 1 /\ nextPost \in 1 .. MaxPosts + 1
  /\ nextGet \in 1 .. MaxGets + 1
  /\ emitting \subseteq 1 .. MaxFrames /\ accepted \subseteq 1 .. MaxFrames
  /\ discarded \subseteq accepted /\ gets \subseteq 1 .. MaxGets
  /\ post \in [stage : {"idle", "sent", "answered"}, body : 0 .. MaxPosts,
               status : {0, 200, 400}]
  /\ okPosts \subseteq 1 .. MaxPosts /\ served \in Seq(1 .. MaxPosts)
  /\ parked \in BOOLEAN /\ ended \in BOOLEAN /\ closed \in BOOLEAN

(* Once ServerPolling's stream has ended (server.rs poll breaks on None), *)
(* it has yielded every body a ClientPolling::emit saw acknowledged with *)
(* 200, first and in the order they were posted: a session closed with  *)
(* bodies still in `recv` hands them over before None.  Bodies are       *)
(* numbered in posting order, so body b must be the b-th item yielded.    *)
AckedPostsServed ==
  ended => \A b \in okPosts : b \in 1 .. Len(served) /\ served[b] = b

(* When the session closes, ServerPolling's stream ends: poll_next stops  *)
(* returning Pending once `recv` is closed and drained.                   *)
ServerStreamEnds == closed ~> ended

(* spec.md 4.2 and 8: frames leave the server in order and are received  *)
(* by the peer.  Every frame `send` accepted is still queued or reached   *)
(* ClientPolling's stream; poll_next drops each GET future it polls, so   *)
(* the answer that drained `send` is read by nobody.                      *)
NoFrameLost == discarded = {}

=============================================================================
