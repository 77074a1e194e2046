-------------------------- MODULE SioPollingProofs --------------------------
(***************************************************************************)
(* Proofs about the polling transport of SioPolling: the channels stay    *)
(* within their capacity, and a session's stream yields every body the    *)
(* client saw acknowledged with 200, in posting order, before it ends.    *)
(***************************************************************************)
EXTENDS SioPolling, TLAPS

(* Bodies pushed into the `recv` channel so far, served or still queued.  *)
Pushed == Len(served) + Len(recvq)

(***************************************************************************)
(* ServerPolling's stream and `recv` channel hold the bodies 1, 2, ... in  *)
(* order, with no gap and no repeat.  While the session is open, every    *)
(* POST but the one in flight has been pushed; an answered 200 names a    *)
(* pushed body; a stream that ended found its channel closed and empty.   *)
(***************************************************************************)
StreamInv ==
  /\ \A i \in 1 .. Len(served) : served[i] = i
  /\ \A i \in 1 .. Len(recvq) : recvq[i] = Len(served) + i
  /\ post.stage = "sent" =>
       /\ post.body \in 1 .. MaxPosts
       /\ post.body = nextPost - 1
       /\ closed \/ Pushed = post.body - 1
  /\ post.stage # "sent" /\ ~closed => Pushed = nextPost - 1
  /\ post.stage = "answered" => post.status \in {200, 400}
  /\ post.stage = "answered" /\ post.status = 200 => post.body \in 1 .. Pushed
  /\ okPosts \subseteq 1 .. Pushed
  /\ ended => closed /\ recvq = <<>>

(* Every frame queued in `send` was accepted by it.                       *)
SendInv == \A i \in 1 .. Len(sendq) : sendq[i] \in accepted

IInv == TypeOK /\ StreamInv /\ SendInv

(* TypeOK in groups, each proved by the backend that suits it.           *)
TypeSeqs ==
  /\ sendq \in Seq(1 .. MaxFrames) /\ Len(sendq) <= ChannelCap
  /\ recvq \in Seq(1 .. MaxPosts) /\ Len(recvq) <= ChannelCap
  /\ served \in Seq(1 .. MaxPosts)
TypeCounters ==
  /\ nextFrame \in 1 .. MaxFrames + 1 /\ nextPost \in 1 .. MaxPosts + 1
  /\ nextGet \in 1 .. MaxGets + 1
TypeSets ==
  /\ emitting \subseteq 1 .. MaxFrames /\ accepted \subseteq 1 .. MaxFrames
  /\ discarded \subseteq accepted /\ gets \subseteq 1 .. MaxGets
  /\ okPosts \subseteq 1 .. MaxPosts
PostRec ==
  [stage : {"idle", "sent", "answered"}, body : 0 .. MaxPosts,
   status : {0, 200, 400}]
TypePost == post \in PostRec
TypeFlags == parked \in BOOLEAN /\ ended \in BOOLEAN /\ closed \in BOOLEAN

USE CapAssumption, BoundsAssumption

LEMMA TypeSplit ==
  TypeOK <=> TypeSeqs /\ TypeCounters /\ TypeSets /\ TypePost /\ TypeFlags
BY Zenon DEF TypeOK, TypeSeqs, TypeCounters, TypeSets, TypePost, PostRec, TypeFlags


(* What Append and Tail put at each index of a sequence.                   *)
LEMMA AppendAt ==
  ASSUME NEW S, NEW s \in Seq(S), NEW x, NEW i \in 1 .. Len(s) + 1
  PROVE  /\ Len(Append(s, x)) = Len(s) + 1
         /\ Append(s, x)[i] = IF i <= Len(s) THEN s[i] ELSE x
OBVIOUS

LEMMA TailAt ==
  ASSUME NEW S, NEW s \in Seq(S), s # <<>>, NEW i \in 1 .. Len(s) - 1
  PROVE  /\ Len(Tail(s)) = Len(s) - 1
         /\ Tail(s)[i] = s[i + 1]
OBVIOUS

LEMMA InitIInv == Init => IInv
<1> SUFFICES ASSUME Init PROVE IInv
  OBVIOUS
<1>1. TypeOK
  <2>1. sendq \in Seq(1 .. MaxFrames) /\ recvq \in Seq(1 .. MaxPosts)
        /\ served \in Seq(1 .. MaxPosts)
    BY DEF Init
  <2>2. post \in [stage : {"idle", "sent", "answered"}, body : 0 .. MaxPosts,
                  status : {0, 200, 400}]
    BY DEF Init
  <2>3. /\ sendq = <<>> /\ recvq = <<>> /\ nextFrame = 1 /\ nextPost = 1
        /\ nextGet = 1 /\ emitting = {} /\ accepted = {} /\ discarded = {}
        /\ gets = {} /\ okPosts = {} /\ parked = FALSE /\ ended = FALSE
        /\ closed = FALSE
    BY DEF Init
  <2>4. Len(sendq) <= ChannelCap /\ Len(recvq) <= ChannelCap
    BY <2>3
  <2>5. /\ nextFrame \in 1 .. MaxFrames + 1 /\ nextPost \in 1 .. MaxPosts + 1
        /\ nextGet \in 1 .. MaxGets + 1
    BY <2>3
  <2>6. /\ emitting \subseteq 1 .. MaxFrames /\ accepted \subseteq 1 .. MaxFrames
        /\ discarded \subseteq accepted /\ gets \subseteq 1 .. MaxGets
        /\ okPosts \subseteq 1 .. MaxPosts
        /\ parked \in BOOLEAN /\ ended \in BOOLEAN /\ closed \in BOOLEAN
    BY <2>3, Zenon
  <2>7. QED
    BY <2>1, <2>2, <2>4, <2>5, <2>6 DEF TypeOK
<1>2. StreamInv
  BY DEF Init, StreamInv, Pushed
<1>3. SendInv
  BY DEF Init, SendInv
<1>4. QED
  BY <1>1, <1>2, <1>3 DEF IInv

LEMMA ServerEmitCallIInv == IInv /\ ServerEmitCall => IInv'
<1> SUFFICES ASSUME IInv, ServerEmitCall PROVE IInv'
  OBVIOUS
<1> USE DEF IInv, ServerEmitCall, clientVars, recvVars
<1>1. TypeOK'
  <2>0. TypeSeqs /\ TypeCounters /\ TypeSets /\ TypePost /\ TypeFlags
    BY TypeSplit
  <2>1. TypeSeqs'
    BY <2>0 DEF TypeSeqs, TypePost, PostRec
  <2>2. TypeCounters'
    BY <2>0 DEF TypeCounters
  <2>3. TypeSets'
    BY <2>0 DEF TypeSets, TypeCounters, TypePost, PostRec
  <2>4. TypePost'
    BY <2>0 DEF TypePost, PostRec, TypeCounters
  <2>5. TypeFlags'
    BY <2>0, Zenon DEF TypeFlags
  <2>6. QED
    BY <2>1, <2>2, <2>3, <2>4, <2>5, Zenon
       DEF TypeOK, TypeSeqs, TypeCounters, TypeSets, TypePost, PostRec, TypeFlags
<1>2. StreamInv'
  BY DEF TypeOK, StreamInv, Pushed
<1>3. SendInv'
  BY DEF TypeOK, SendInv
<1>4. QED
  BY <1>1, <1>2, <1>3

LEMMA ServerPollNextIInv == IInv /\ ServerPollNext => IInv'
<1> SUFFICES ASSUME IInv, ServerPollNext PROVE IInv'
  OBVIOUS
<1> USE DEF IInv, ServerPollNext, serverVars, clientVars
<1>1. TypeOK'
  <2>0. TypeSeqs /\ TypeCounters /\ TypeSets /\ TypePost /\ TypeFlags
    BY TypeSplit
  <2>1. TypeSeqs'
    BY <2>0 DEF TypeSeqs, TypePost, PostRec
  <2>2. TypeCounters'
    BY <2>0 DEF TypeCounters
  <2>3. TypeSets'
    BY <2>0 DEF TypeSets, TypeCounters, TypePost, PostRec
  <2>4. TypePost'
    BY <2>0 DEF TypePost, PostRec, TypeCounters
  <2>5. TypeFlags'
    BY <2>0, Zenon DEF TypeFlags
  <2>6. QED
    BY <2>1, <2>2, <2>3, <2>4, <2>5, Zenon
       DEF TypeOK, TypeSeqs, TypeCounters, TypeSets, TypePost, PostRec, TypeFlags
<1>2. StreamInv'
  <2>1. recvq \in Seq(1 .. MaxPosts) /\ served \in Seq(1 .. MaxPosts)
        /\ recvq # <<>>
    BY DEF TypeOK
  <2>2. Len(served') = Len(served) + 1 /\ Len(recvq') = Len(recvq) - 1
    BY <2>1
  <2>3. \A i \in 1 .. Len(served') : served'[i] = i
    <3> TAKE i \in 1 .. Len(served')
    <3>1. CASE i <= Len(served)
      BY <2>1, <2>2, <3>1, AppendAt DEF StreamInv
    <3>2. CASE i = Len(served) + 1
      BY <2>1, <2>2, <3>2, AppendAt DEF StreamInv
    <3>3. QED
      BY <2>2, <3>1, <3>2
  <2>4. \A i \in 1 .. Len(recvq') : recvq'[i] = Len(served') + i
    BY <2>1, <2>2, TailAt DEF StreamInv
  <2>5. QED
    BY <2>2, <2>3, <2>4 DEF StreamInv, Pushed
<1>3. SendInv'
  BY DEF TypeOK, SendInv
<1>4. QED
  BY <1>1, <1>2, <1>3

LEMMA ServerPollEndIInv == IInv /\ ServerPollEnd => IInv'
<1> SUFFICES ASSUME IInv, ServerPollEnd PROVE IInv'
  OBVIOUS
<1> USE DEF IInv, ServerPollEnd, serverVars, clientVars
<1>1. TypeOK'
  <2>0. TypeSeqs /\ TypeCounters /\ TypeSets /\ TypePost /\ TypeFlags
    BY TypeSplit
  <2>1. TypeSeqs'
    BY <2>0 DEF TypeSeqs, TypePost, PostRec
  <2>2. TypeCounters'
    BY <2>0 DEF TypeCounters
  <2>3. TypeSets'
    BY <2>0 DEF TypeSets, TypeCounters, TypePost, PostRec
  <2>4. TypePost'
    BY <2>0 DEF TypePost, PostRec, TypeCounters
  <2>5. TypeFlags'
    BY <2>0, Zenon DEF TypeFlags
  <2>6. QED
    BY <2>1, <2>2, <2>3, <2>4, <2>5, Zenon
       DEF TypeOK, TypeSeqs, TypeCounters, TypeSets, TypePost, PostRec, TypeFlags
<1>2. StreamInv'
  BY DEF TypeOK, StreamInv, Pushed
<1>3. SendInv'
  BY DEF TypeOK, SendInv
<1>4. QED
  BY <1>1, <1>2, <1>3

LEMMA ClientEmitIInv == IInv /\ ClientEmit => IInv'
<1> SUFFICES ASSUME IInv, ClientEmit PROVE IInv'
  OBVIOUS
<1> USE DEF IInv, ClientEmit, serverVars, recvVars
<1>1. TypeOK'
  <2>0. TypeSeqs /\ TypeCounters /\ TypeSets /\ TypePost /\ TypeFlags
    BY TypeSplit
  <2>1. TypeSeqs'
    BY <2>0 DEF TypeSeqs, TypePost, PostRec
  <2>2. TypeCounters'
    BY <2>0 DEF TypeCounters
  <2>3. TypeSets'
    BY <2>0 DEF TypeSets, TypeCounters, TypePost, PostRec
  <2>4. TypePost'
    BY <2>0 DEF TypePost, PostRec, TypeCounters
  <2>5. TypeFlags'
    BY <2>0, Zenon DEF TypeFlags
  <2>6. QED
    BY <2>1, <2>2, <2>3, <2>4, <2>5, Zenon
       DEF TypeOK, TypeSeqs, TypeCounters, TypeSets, TypePost, PostRec, TypeFlags
<1>2. StreamInv'
  BY DEF TypeOK, StreamInv, Pushed
<1>3. SendInv'
  BY DEF TypeOK, SendInv
<1>4. QED
  BY <1>1, <1>2, <1>3

LEMMA ClientEmitDoneIInv == IInv /\ ClientEmitDone => IInv'
<1> SUFFICES ASSUME IInv, ClientEmitDone PROVE IInv'
  OBVIOUS
<1> USE DEF IInv, ClientEmitDone, serverVars, recvVars
<1>1. TypeOK'
  <2>0. TypeSeqs /\ TypeCounters /\ TypeSets /\ TypePost /\ TypeFlags
    BY TypeSplit
  <2>1. TypeSeqs'
    BY <2>0 DEF TypeSeqs, TypePost, PostRec
  <2>2. TypeCounters'
    BY <2>0 DEF TypeCounters
  <2>3. TypeSets'
    <3>1. post.status = 200 => post.body \in 1 .. MaxPosts
      BY <2>0 DEF StreamInv, TypePost, PostRec, Pushed
    <3>2. QED
      BY <2>0, <3>1 DEF TypeSets
  <2>4. TypePost'
    BY <2>0 DEF TypePost, PostRec, TypeCounters
  <2>5. TypeFlags'
    BY <2>0, Zenon DEF TypeFlags
  <2>6. QED
    BY <2>1, <2>2, <2>3, <2>4, <2>5, Zenon
       DEF TypeOK, TypeSeqs, TypeCounters, TypeSets, TypePost, PostRec, TypeFlags
<1>2. StreamInv'
  BY DEF TypeOK, StreamInv, Pushed
<1>3. SendInv'
  BY DEF TypeOK, SendInv
<1>4. QED
  BY <1>1, <1>2, <1>3

LEMMA ClientPollNextIInv == IInv /\ ClientPollNext => IInv'
<1> SUFFICES ASSUME IInv, ClientPollNext PROVE IInv'
  OBVIOUS
<1> USE DEF IInv, ClientPollNext, serverVars, recvVars
<1>1. TypeOK'
  <2>0. TypeSeqs /\ TypeCounters /\ TypeSets /\ TypePost /\ TypeFlags
    BY TypeSplit
  <2>1. TypeSeqs'
    BY <2>0 DEF TypeSeqs, TypePost, PostRec
  <2>2. TypeCounters'
    BY <2>0 DEF TypeCounters
  <2>3. TypeSets'
    <3>1. nextGet \in 1 .. MaxGets
      BY <2>0 DEF TypeCounters
    <3>2. gets' \subseteq 1 .. MaxGets
      BY <2>0, <3>1 DEF TypeSets
    <3>3. QED
      BY <2>0, <3>2 DEF TypeSets
  <2>4. TypePost'
    BY <2>0 DEF TypePost, PostRec, TypeCounters
  <2>5. TypeFlags'
    BY <2>0, Zenon DEF TypeFlags
  <2>6. QED
    BY <2>1, <2>2, <2>3, <2>4, <2>5, Zenon
       DEF TypeOK, TypeSeqs, TypeCounters, TypeSets, TypePost, PostRec, TypeFlags
<1>2. StreamInv'
  BY DEF TypeOK, StreamInv, Pushed
<1>3. SendInv'
  BY DEF TypeOK, SendInv
<1>4. QED
  BY <1>1, <1>2, <1>3

LEMMA ClientWakeIInv == IInv /\ ClientWake => IInv'
<1> SUFFICES ASSUME IInv, ClientWake PROVE IInv'
  OBVIOUS
<1> USE DEF IInv, ClientWake, serverVars, recvVars
<1>1. TypeOK'
  <2>0. TypeSeqs /\ TypeCounters /\ TypeSets /\ TypePost /\ TypeFlags
    BY TypeSplit
  <2>1. TypeSeqs'
    BY <2>0 DEF TypeSeqs, TypePost, PostRec
  <2>2. TypeCounters'
    BY <2>0 DEF TypeCounters
  <2>3. TypeSets'
    BY <2>0 DEF TypeSets, TypeCounters, TypePost, PostRec
  <2>4. TypePost'
    BY <2>0 DEF TypePost, PostRec, TypeCounters
  <2>5. TypeFlags'
    BY <2>0, Zenon DEF TypeFlags
  <2>6. QED
    BY <2>1, <2>2, <2>3, <2>4, <2>5, Zenon
       DEF TypeOK, TypeSeqs, TypeCounters, TypeSets, TypePost, PostRec, TypeFlags
<1>2. StreamInv'
  BY DEF TypeOK, StreamInv, Pushed
<1>3. SendInv'
  BY DEF TypeOK, SendInv
<1>4. QED
  BY <1>1, <1>2, <1>3

LEMMA EnginePostIInv == IInv /\ EnginePost => IInv'
<1> SUFFICES ASSUME IInv, EnginePost PROVE IInv'
  OBVIOUS
<1> USE DEF IInv, serverVars
<1>0. /\ TypeSeqs /\ TypeCounters /\ TypeSets /\ TypePost /\ TypeFlags
      /\ post.stage = "sent"
      /\ post.body \in 1 .. MaxPosts /\ post.body = nextPost - 1
      /\ UNCHANGED <<served, ended, serverVars, discarded, url, gets, nextGet,
                     parked, nextPost, okPosts, closed>>
  BY TypeSplit DEF EnginePost, StreamInv
<1>1. CASE /\ ~closed
           /\ Len(recvq) < ChannelCap
           /\ recvq' = Append(recvq, post.body)
           /\ post' = [post EXCEPT !.stage = "answered", !.status = 200]
  <2>1. /\ post'.stage = "answered" /\ post'.body = post.body
        /\ post'.status = 200
        /\ post' \in PostRec
    <3>1. post \in PostRec /\ 200 \in {200, 400}
      BY <1>0 DEF TypePost
    <3>2. post' = [post EXCEPT !.stage = "answered", !.status = 200]
      BY <1>1
    <3>3. post'.stage = "answered" /\ post'.body = post.body /\ post'.status = 200
      BY <3>1, <3>2 DEF PostRec
    <3>4. post' = [stage |-> "answered", body |-> post.body, status |-> 200]
      BY <3>1, <3>2 DEF PostRec
    <3>5. post' \in PostRec
      BY <3>1, <3>4 DEF PostRec
    <3>6. QED
      BY <3>3, <3>5
  <2>2. Len(served) + Len(recvq) = post.body - 1
    BY <1>0, <1>1 DEF StreamInv, Pushed
  <2>3. Len(recvq') = Len(recvq) + 1 /\ recvq' \in Seq(1 .. MaxPosts)
    BY <1>0, <1>1 DEF TypeSeqs
  <2>4. TypeOK'
    <3>1. TypeSeqs'
      BY <1>0, <1>1, <2>3 DEF TypeSeqs
    <3>2. TypeCounters' /\ TypeSets' /\ TypeFlags'
      BY <1>0 DEF TypeCounters, TypeSets, TypeFlags
    <3>3. TypePost'
      BY <2>1 DEF TypePost, PostRec
    <3>4. QED
      BY <3>1, <3>2, <3>3, Zenon
         DEF TypeOK, TypeSeqs, TypeCounters, TypeSets, TypePost, PostRec, TypeFlags
  <2>5. \A i \in 1 .. Len(recvq') : recvq'[i] = Len(served') + i
    <3> TAKE i \in 1 .. Len(recvq')
    <3>1. CASE i <= Len(recvq)
      BY <1>0, <1>1, <3>1, AppendAt DEF TypeSeqs, StreamInv
    <3>2. CASE i = Len(recvq) + 1
      BY <1>0, <1>1, <2>2, <3>2, AppendAt DEF TypeSeqs
    <3>3. QED
      BY <2>3, <3>1, <3>2
  <2>6. StreamInv'
    <3>1. Pushed' = post.body /\ post.body = nextPost' - 1
      BY <1>0, <2>2, <2>3 DEF Pushed
    <3>2. \A i \in 1 .. Len(served') : served'[i] = i
      BY <1>0 DEF StreamInv
    <3>3. okPosts' \subseteq 1 .. Pushed'
      BY <1>0, <2>2, <3>1 DEF StreamInv, Pushed
    <3>4. ~ended'
      BY <1>0, <1>1 DEF StreamInv
    <3>5. QED
      BY <1>1, <2>1, <2>5, <3>1, <3>2, <3>3, <3>4 DEF StreamInv
  <2>7. SendInv'
    BY <1>0 DEF SendInv
  <2>8. QED
    BY <2>4, <2>6, <2>7
<1>2. CASE /\ closed
           /\ post' = [post EXCEPT !.stage = "answered", !.status = 400]
           /\ UNCHANGED recvq
  <2>1. /\ post'.stage = "answered" /\ post'.body = post.body
        /\ post'.status = 400
        /\ post' \in PostRec
    <3>1. post \in PostRec /\ 400 \in {200, 400}
      BY <1>0 DEF TypePost
    <3>2. post' = [post EXCEPT !.stage = "answered", !.status = 400]
      BY <1>2
    <3>3. post'.stage = "answered" /\ post'.body = post.body /\ post'.status = 400
      BY <3>1, <3>2 DEF PostRec
    <3>4. post' = [stage |-> "answered", body |-> post.body, status |-> 400]
      BY <3>1, <3>2 DEF PostRec
    <3>5. post' \in PostRec
      BY <3>1, <3>4 DEF PostRec
    <3>6. QED
      BY <3>3, <3>5
  <2>2. TypeOK'
    <3>1. TypeSeqs' /\ TypeCounters' /\ TypeSets' /\ TypeFlags'
      BY <1>0, <1>2 DEF TypeSeqs, TypeCounters, TypeSets, TypeFlags
    <3>2. TypePost'
      BY <2>1 DEF TypePost, PostRec
    <3>3. QED
      BY <3>1, <3>2, Zenon
         DEF TypeOK, TypeSeqs, TypeCounters, TypeSets, TypePost, PostRec, TypeFlags
  <2>3. StreamInv'
    BY <1>0, <1>2, <2>1 DEF StreamInv, Pushed
  <2>4. SendInv'
    BY <1>0 DEF SendInv
  <2>5. QED
    BY <2>2, <2>3, <2>4
<1>3. QED
  BY <1>1, <1>2 DEF EnginePost

LEMMA EngineCloseIInv == IInv /\ EngineClose => IInv'
<1> SUFFICES ASSUME IInv, EngineClose PROVE IInv'
  OBVIOUS
<1> USE DEF IInv, EngineClose, serverVars, clientVars, recvVars
<1>1. TypeOK'
  <2>0. TypeSeqs /\ TypeCounters /\ TypeSets /\ TypePost /\ TypeFlags
    BY TypeSplit
  <2>1. TypeSeqs'
    BY <2>0 DEF TypeSeqs, TypePost, PostRec
  <2>2. TypeCounters'
    BY <2>0 DEF TypeCounters
  <2>3. TypeSets'
    BY <2>0 DEF TypeSets, TypeCounters, TypePost, PostRec
  <2>4. TypePost'
    BY <2>0 DEF TypePost, PostRec, TypeCounters
  <2>5. TypeFlags'
    BY <2>0, Zenon DEF TypeFlags
  <2>6. QED
    BY <2>1, <2>2, <2>3, <2>4, <2>5, Zenon
       DEF TypeOK, TypeSeqs, TypeCounters, TypeSets, TypePost, PostRec, TypeFlags
<1>2. StreamInv'
  BY DEF TypeOK, StreamInv, Pushed
<1>3. SendInv'
  BY DEF TypeOK, SendInv
<1>4. QED
  BY <1>1, <1>2, <1>3

LEMMA ServerEmitSendIInv ==
  ASSUME NEW f \in emitting, IInv, ServerEmitSend(f)
  PROVE  IInv'
<1> USE DEF IInv, ServerEmitSend, clientVars, recvVars
<1>1. f \in 1 .. MaxFrames
  BY DEF TypeOK
<1>2. CASE ~closed /\ Len(sendq) < ChannelCap /\ sendq' = Append(sendq, f)
           /\ accepted' = accepted \cup {f}
  <2>1. TypeOK'
    <3>0. TypeSeqs /\ TypeCounters /\ TypeSets /\ TypePost /\ TypeFlags
      BY TypeSplit
    <3>1. TypeSeqs'
      BY <1>1, <1>2, <3>0 DEF TypeSeqs, TypePost, PostRec
    <3>2. TypeCounters'
      BY <1>1, <1>2, <3>0 DEF TypeCounters
    <3>3. TypeSets'
      BY <1>1, <1>2, <3>0 DEF TypeSets, TypeCounters, TypePost, PostRec
    <3>4. TypePost'
      BY <1>1, <1>2, <3>0 DEF TypePost, PostRec, TypeCounters
    <3>5. TypeFlags'
      BY <1>1, <1>2, <3>0, Zenon DEF TypeFlags
    <3>6. QED
      BY <3>1, <3>2, <3>3, <3>4, <3>5, Zenon
         DEF TypeOK, TypeSeqs, TypeCounters, TypeSets, TypePost, PostRec, TypeFlags
  <2>2. StreamInv'
    BY <1>2 DEF StreamInv, Pushed
  <2>3. SendInv'
    <3>1. sendq \in Seq(1 .. MaxFrames)
      BY DEF TypeOK
    <3>2. SUFFICES ASSUME NEW i \in 1 .. Len(sendq')
                   PROVE  sendq'[i] \in accepted'
      BY DEF SendInv
    <3>3. CASE i <= Len(sendq)
      BY <1>2, <3>1, <3>3, AppendAt DEF SendInv
    <3>4. CASE i = Len(sendq) + 1
      BY <1>2, <3>1, <3>4, AppendAt
    <3>5. QED
      BY <1>2, <3>1, <3>3, <3>4
  <2>4. QED
    BY <2>1, <2>2, <2>3
<1>3. CASE closed /\ UNCHANGED <<sendq, accepted>>
  <2>1. TypeOK'
    <3>0. TypeSeqs /\ TypeCounters /\ TypeSets /\ TypePost /\ TypeFlags
      BY TypeSplit
    <3>1. TypeSeqs'
      BY <1>1, <1>3, <3>0 DEF TypeSeqs, TypePost, PostRec
    <3>2. TypeCounters'
      BY <1>1, <1>3, <3>0 DEF TypeCounters
    <3>3. TypeSets'
      BY <1>1, <1>3, <3>0 DEF TypeSets, TypeCounters, TypePost, PostRec
    <3>4. TypePost'
      BY <1>1, <1>3, <3>0 DEF TypePost, PostRec, TypeCounters
    <3>5. TypeFlags'
      BY <1>1, <1>3, <3>0, Zenon DEF TypeFlags
    <3>6. QED
      BY <3>1, <3>2, <3>3, <3>4, <3>5, Zenon
         DEF TypeOK, TypeSeqs, TypeCounters, TypeSets, TypePost, PostRec, TypeFlags
  <2>2. StreamInv'
    BY <1>3 DEF StreamInv, Pushed
  <2>3. SendInv'
    BY <1>3 DEF SendInv
  <2>4. QED
    BY <2>1, <2>2, <2>3
<1>4. QED
  BY <1>2, <1>3

LEMMA EngineAnswerGetIInv ==
  ASSUME NEW g \in gets, IInv, EngineAnswerGet(g)
  PROVE  IInv'
<1> USE DEF IInv, EngineAnswerGet, recvVars
<1>1. TypeOK'
  <2>0. TypeSeqs /\ TypeCounters /\ TypeSets /\ TypePost /\ TypeFlags
    BY TypeSplit
  <2>1. TypeSeqs'
    BY <2>0 DEF TypeSeqs, TypePost, PostRec
  <2>2. TypeCounters'
    BY <2>0 DEF TypeCounters
  <2>3. TypeSets'
    <3>1. ToSet(sendq) \subseteq accepted
      BY <2>0 DEF TypeSeqs, SendInv, ToSet
    <3>2. QED
      BY <2>0, <3>1 DEF TypeSets
  <2>4. TypePost'
    BY <2>0 DEF TypePost, PostRec, TypeCounters
  <2>5. TypeFlags'
    BY <2>0, Zenon DEF TypeFlags
  <2>6. QED
    BY <2>1, <2>2, <2>3, <2>4, <2>5, Zenon
       DEF TypeOK, TypeSeqs, TypeCounters, TypeSets, TypePost, PostRec, TypeFlags
<1>2. StreamInv'
  BY DEF StreamInv, Pushed
<1>3. SendInv'
  BY DEF SendInv
<1>4. QED
  BY <1>1, <1>2, <1>3

LEMMA StutterIInv == IInv /\ UNCHANGED vars => IInv'
BY DEF IInv, TypeOK, StreamInv, SendInv, Pushed, vars

LEMMA NextIInv == IInv /\ [Next]_vars => IInv'
<1> SUFFICES ASSUME IInv, [Next]_vars PROVE IInv'
  OBVIOUS
<1>1. CASE ServerEmitCall
  BY <1>1, ServerEmitCallIInv
<1>2. CASE \E f \in emitting : ServerEmitSend(f)
  BY <1>2, ServerEmitSendIInv
<1>3. CASE ServerPollNext
  BY <1>3, ServerPollNextIInv
<1>4. CASE ServerPollEnd
  BY <1>4, ServerPollEndIInv
<1>5. CASE ClientEmit
  BY <1>5, ClientEmitIInv
<1>6. CASE ClientEmitDone
  BY <1>6, ClientEmitDoneIInv
<1>7. CASE ClientPollNext
  BY <1>7, ClientPollNextIInv
<1>8. CASE ClientWake
  BY <1>8, ClientWakeIInv
<1>9. CASE \E g \in gets : EngineAnswerGet(g)
  BY <1>9, EngineAnswerGetIInv
<1>10. CASE EnginePost
  BY <1>10, EnginePostIInv
<1>11. CASE EngineClose
  BY <1>11, EngineCloseIInv
<1>12. CASE UNCHANGED vars
  BY <1>12, StutterIInv
<1>13. QED
  BY <1>1, <1>2, <1>3, <1>4, <1>5, <1>6, <1>7, <1>8, <1>9, <1>10, <1>11,
     <1>12 DEF Next

LEMMA SpecIInv == Spec => []IInv
BY InitIInv, NextIInv, PTL DEF Spec

(* ServerPolling's send and recv channels never hold more than their     *)
(* capacity (ServerPolling::emit awaits sender.send while the channel is *)
(* full, and the engine's push waits likewise), and every counter and    *)
(* record of the transport stays within its bounds, for every capacity.  *)
THEOREM PollingTypeCorrect == Spec => []TypeOK
BY SpecIInv, PTL DEF IInv

(* For every channel capacity and bound: once ServerPolling::poll_next   *)
(* has returned None, it has yielded every body ClientPolling::emit saw  *)
(* answered with 200, body b as the b-th item.  The channel is drained   *)
(* before None, and the engine answers 200 only after the push.          *)
THEOREM PollingAckedPostsServed == Spec => []AckedPostsServed
<1>1. IInv => AckedPostsServed
  <2> SUFFICES ASSUME IInv, ended, NEW b \in okPosts
               PROVE  b \in 1 .. Len(served) /\ served[b] = b
    BY DEF AckedPostsServed
  <2>1. recvq = <<>> /\ okPosts \subseteq 1 .. Pushed
    BY DEF IInv, StreamInv
  <2>2. b \in 1 .. Len(served)
    BY <2>1 DEF Pushed
  <2>3. QED
    BY <2>2 DEF IInv, StreamInv
<1>2. QED
  BY SpecIInv, <1>1, PTL

=============================================================================
