---------------------------- MODULE ProcessProofs ----------------------------
(***************************************************************************)
(* Proofs about the transports of one process: the development transport,  *)
(* and both kinds together, whichever make_transport gives to the ends.    *)
(***************************************************************************)
EXTENDS Process, QuicLifetimeProofs

-----------------------------------------------------------------------------
(* The development transport. *)

\* Together with the types the two properties are inductive.
DevInv == DevTypeOK /\ LinkAlive /\ NoStalePayload

\* No transport of the process has connected yet.
LEMMA DevInitInv == DevInit => DevInv
<1> SUFFICES ASSUME DevInit PROVE DevInv
  OBVIOUS
<1>1. DevTypeOK
  BY DEF DevInit, DevTypeOK
<1>2. LinkAlive
  BY DEF DevInit, LinkAlive
<1>3. NoStalePayload
  BY DEF DevInit, NoStalePayload
<1> QED
  BY <1>1, <1>2, <1>3 DEF DevInv

\* The peer of an end is the other end.
LEMMA PeerOther ==
    ASSUME NEW e \in Ends
    PROVE  Peer(e) \in Ends /\ Peer(e) # e /\ \A d \in Ends : d = e \/ d = Peer(e)
  BY DEF Ends, Peer

\* link_for_port() returns a link that exists; an existing one stays.
LEMMA LinkForPortFinds ==
    ASSUME DevTypeOK, LinkForPort
    PROVE  /\ made' \in Nat /\ made <= made' /\ slot' \in 0 .. made' /\ slot' # 0
           /\ slot # 0 => slot' = slot
<1> made \in Nat /\ slot \in 0 .. made
  BY DEF DevTypeOK
<1>1. CASE slot = 0
  BY <1>1 DEF LinkForPort
<1>2. CASE slot # 0
  BY <1>2 DEF LinkForPort
<1> QED
  BY <1>1, <1>2

\* connect(): a new link, or the peer's.
LEMMA ConnectDevInv ==
    ASSUME DevInv, NEW e \in Ends, DevConnect(e)
    PROVE  DevInv'
<1>1. DevTypeOK /\ LinkAlive /\ NoStalePayload
  BY DEF DevInv
<1>2. /\ made' \in Nat /\ made <= made' /\ slot' \in 0 .. made' /\ slot' # 0
      /\ slot # 0 => slot' = slot
  BY <1>1, LinkForPortFinds DEF DevConnect
<1>3. link' = [link EXCEPT ![e] = slot'] /\ UNCHANGED <<queue, lives, dangling>>
  BY DEF DevConnect
<1>4. /\ connected' = [connected EXCEPT ![e] = TRUE]
      /\ peerClosed' = [peerClosed EXCEPT ![e] = FALSE]
  BY DEF DevConnect
<1>5. DevTypeOK'
  <2>1. link' \in [Ends -> 0 .. made']
    BY <1>1, <1>2, <1>3 DEF DevTypeOK
  <2>2. connected' \in [Ends -> BOOLEAN] /\ peerClosed' \in [Ends -> BOOLEAN]
    BY <1>1, <1>4 DEF DevTypeOK
  <2> QED
    BY <1>1, <1>2, <1>3, <2>1, <2>2 DEF DevTypeOK
<1>6. LinkAlive'
  <2> SUFFICES ASSUME NEW d \in Ends, connected'[d], ~peerClosed'[d]
               PROVE  link'[d] = slot' /\ slot' # 0
    BY DEF LinkAlive
  <2>1. CASE d = e
    BY <1>1, <1>2, <1>3, <2>1 DEF DevTypeOK
  <2>2. CASE d # e
    <3>1. connected[d] /\ ~peerClosed[d]
      BY <1>1, <1>4, <2>2, Zenon DEF DevTypeOK
    <3>2. link[d] = slot /\ slot # 0
      BY <1>1, <3>1 DEF LinkAlive
    <3> QED
      BY <1>1, <1>2, <1>3, <2>2, <3>2 DEF DevTypeOK
  <2> QED
    BY <2>1, <2>2
<1>7. NoStalePayload'
  BY <1>1, <1>3 DEF NoStalePayload
<1> QED
  BY <1>5, <1>6, <1>7 DEF DevInv

\* send_payload(): the payload waits in the link for the other end.
LEMMA SendDevInv ==
    ASSUME DevInv, NEW e \in Ends, DevSend(e)
    PROVE  DevInv'
<1>1. DevTypeOK /\ LinkAlive /\ NoStalePayload
  BY DEF DevInv
<1>2. UNCHANGED <<slot, made, link, connected, lives, peerClosed, dangling>>
  BY DEF DevSend
<1> DEFINE p == Peer(e)
<1>3. p \in Ends
  BY PeerOther
<1>4. queue' = [queue EXCEPT ![p] = Append(queue[p], lives[p])]
  BY <1>1, <1>3 DEF DevSend, DevTypeOK
<1> HIDE DEF p
<1>5. queue[p] \in Seq(Nat) /\ lives[p] \in Nat
  BY <1>1, <1>3 DEF DevTypeOK
<1>6. queue' \in [Ends -> Seq(Nat)]
  <2>1. Append(queue[p], lives[p]) \in Seq(Nat)
    BY <1>5
  <2> QED
    BY <1>1, <1>4, <2>1 DEF DevTypeOK
<1>7. DevTypeOK'
  BY <1>1, <1>2, <1>6 DEF DevTypeOK
<1>8. LinkAlive'
  BY <1>1, <1>2 DEF LinkAlive
<1>9. NoStalePayload'
  <2> SUFFICES ASSUME NEW d \in Ends, NEW i \in 1 .. Len(queue'[d])
               PROVE  queue'[d][i] = lives[d]
    BY <1>2 DEF NoStalePayload
  <2>1. CASE d = p
    <3>1. queue'[d] = Append(queue[p], lives[p])
      BY <1>1, <1>3, <1>4, <2>1 DEF DevTypeOK
    <3>2. \A j \in 1 .. Len(queue[p]) : queue[p][j] = lives[p]
      BY <1>1, <1>3 DEF NoStalePayload
    <3> QED
      BY <1>5, <2>1, <3>1, <3>2
  <2>2. CASE d # p
    <3>1. queue'[d] = queue[d]
      BY <1>1, <1>4, <2>2 DEF DevTypeOK
    <3> QED
      BY <1>1, <3>1 DEF NoStalePayload
  <2> QED
    BY <2>1, <2>2
<1> QED
  BY <1>7, <1>8, <1>9 DEF DevInv

\* What is left of a queue when its front has been taken.
LEMMA TailElements ==
    ASSUME NEW s \in Seq(Nat), s # <<>>, NEW i \in 1 .. Len(Tail(s))
    PROVE  i + 1 \in 1 .. Len(s) /\ Tail(s)[i] = s[i + 1]
<1>1. Len(s) \in Nat /\ Len(s) # 0
  OBVIOUS
<1>2. Len(Tail(s)) = Len(s) - 1
  BY <1>1
<1> QED
  BY <1>1, <1>2

\* receive_payload(): the oldest payload leaves the link.
LEMMA ReceiveDevInv ==
    ASSUME DevInv, NEW e \in Ends, DevReceive(e)
    PROVE  DevInv'
<1>1. DevTypeOK /\ LinkAlive /\ NoStalePayload
  BY DEF DevInv
<1>2. UNCHANGED <<slot, made, link, connected, lives, peerClosed, dangling>>
  BY DEF DevReceive
<1>3. queue' = [queue EXCEPT ![e] = Tail(queue[e])] /\ queue[e] # <<>>
  BY <1>1 DEF DevReceive, DevTypeOK
<1>4. queue[e] \in Seq(Nat)
  BY <1>1 DEF DevTypeOK
<1>5. queue' \in [Ends -> Seq(Nat)]
  <2>1. Tail(queue[e]) \in Seq(Nat)
    BY <1>3, <1>4
  <2> QED
    BY <1>1, <1>3, <2>1 DEF DevTypeOK
<1>6. DevTypeOK'
  BY <1>1, <1>2, <1>5 DEF DevTypeOK
<1>7. LinkAlive'
  BY <1>1, <1>2 DEF LinkAlive
<1>8. NoStalePayload'
  <2> SUFFICES ASSUME NEW d \in Ends, NEW i \in 1 .. Len(queue'[d])
               PROVE  queue'[d][i] = lives[d]
    BY <1>2 DEF NoStalePayload
  <2>1. CASE d = e
    <3>1. queue'[d] = Tail(queue[e])
      BY <1>1, <1>3, <2>1 DEF DevTypeOK
    <3>2. \A j \in 1 .. Len(queue[e]) : queue[e][j] = lives[e]
      BY <1>1 DEF NoStalePayload
    <3>3. i + 1 \in 1 .. Len(queue[e]) /\ queue'[d][i] = queue[e][i + 1]
      BY <1>3, <1>4, <3>1, TailElements
    <3> QED
      BY <2>1, <3>2, <3>3
  <2>2. CASE d # e
    <3>1. queue'[d] = queue[d]
      BY <1>1, <1>3, <2>2 DEF DevTypeOK
    <3> QED
      BY <1>1, <3>1 DEF NoStalePayload
  <2> QED
    BY <2>1, <2>2
<1> QED
  BY <1>6, <1>7, <1>8 DEF DevInv

\* close(): the link in the slot goes, and the end lets go of its own.
LEMMA CloseDevInv ==
    ASSUME DevInv, NEW e \in Ends, DevClose(e)
    PROVE  DevInv'
<1>1. DevTypeOK /\ LinkAlive /\ NoStalePayload
  BY DEF DevInv
<1>2. /\ connected' = [connected EXCEPT ![e] = FALSE]
      /\ link' = [link EXCEPT ![e] = 0]
      /\ UNCHANGED <<made, dangling>>
  BY DEF DevClose, Disconnect
<1>3. Peer(e) \in Ends /\ Peer(e) # e /\ \A d \in Ends : d = e \/ d = Peer(e)
  BY PeerOther
<1>4. link' \in [Ends -> 0 .. made'] /\ connected' \in [Ends -> BOOLEAN] /\ ~connected'[e]
  BY <1>1, <1>2 DEF DevTypeOK
<1>5. CASE connected[e]
  <2>1. /\ slot' = 0 /\ queue' = [d \in Ends |-> <<>>]
        /\ lives' = [lives EXCEPT ![e] = lives[e] + 1]
        /\ peerClosed' = [peerClosed EXCEPT ![Peer(e)] = TRUE]
    BY <1>1, <1>5 DEF DevClose, DevTypeOK
  <2>2. peerClosed' \in [Ends -> BOOLEAN] /\ peerClosed'[Peer(e)]
    BY <1>1, <1>3, <2>1 DEF DevTypeOK
  <2>3. lives' \in [Ends -> Nat] /\ queue' \in [Ends -> Seq(Nat)]
    BY <1>1, <2>1 DEF DevTypeOK
  <2>4. DevTypeOK'
    BY <1>1, <1>2, <1>4, <2>1, <2>2, <2>3 DEF DevTypeOK
  <2>5. LinkAlive'
    BY <1>3, <1>4, <2>2, Zenon DEF LinkAlive
  <2>6. NoStalePayload'
    BY <2>1 DEF NoStalePayload
  <2> QED
    BY <2>4, <2>5, <2>6 DEF DevInv
<1>6. CASE ~connected[e]
  <2>1. UNCHANGED <<slot, queue, lives, peerClosed>>
    BY <1>6 DEF DevClose
  <2>2. DevTypeOK'
    BY <1>1, <1>2, <1>4, <2>1 DEF DevTypeOK
  <2>3. LinkAlive'
    <3> SUFFICES ASSUME NEW d \in Ends, connected'[d], ~peerClosed'[d]
                 PROVE  link'[d] = slot' /\ slot' # 0
      BY DEF LinkAlive
    <3>1. d # e
      BY <1>4
    <3>2. connected[d] /\ ~peerClosed[d]
      BY <1>1, <1>2, <2>1, <3>1, Zenon DEF DevTypeOK
    <3> QED
      BY <1>1, <1>2, <2>1, <3>1, <3>2 DEF LinkAlive, DevTypeOK
  <2>4. NoStalePayload'
    BY <1>1, <2>1 DEF NoStalePayload
  <2> QED
    BY <2>2, <2>3, <2>4 DEF DevInv
<1> QED
  BY <1>5, <1>6

\* Every step of a development transport keeps its invariant.
LEMMA DevNextInv == DevInv /\ [DevNext]_devVars => DevInv'
<1> SUFFICES ASSUME DevInv, [DevNext]_devVars PROVE DevInv'
  OBVIOUS
<1>1. CASE UNCHANGED devVars
  BY <1>1 DEF DevInv, DevTypeOK, LinkAlive, NoStalePayload, devVars
<1>2. ASSUME NEW e \in Ends, UseFreed(e) PROVE DevInv'
  BY <1>2 DEF UseFreed, DevInv, DevTypeOK, LinkAlive, NoStalePayload
<1> QED
  BY <1>1, <1>2, ConnectDevInv, SendDevInv, ReceiveDevInv, CloseDevInv DEF DevNext, DevStep

-----------------------------------------------------------------------------
(* The process. *)

\* A step of the process is a step of each kind of transport, or leaves it alone.
LEMMA ProcessStep ==
    ASSUME [ProcessNext]_processVars
    PROVE  [QuicNext]_quicVars /\ [DevNext]_devVars
<1>1. CASE UNCHANGED processVars
  BY <1>1 DEF processVars
<1>2. CASE ProcessNext
  BY <1>2, ProcessAssumption DEF ProcessNext, QuicNext, DevNext
<1> QED
  BY <1>1, <1>2

KindOK == kind \in [Ends -> Kinds]

\* The invariants of both kinds hold in every reachable state, whichever kinds
\* make_transport has given to the two ends.
THEOREM ProcessInvariance == ProcessSpec => [](KindOK /\ QuicInv /\ DevInv)
<1>1. ProcessInit => KindOK /\ QuicInv /\ DevInv
  BY QuicInitInv, DevInitInv DEF ProcessInit, KindOK, Kinds, make_transport
<1>2. KindOK /\ QuicInv /\ DevInv /\ [ProcessNext]_processVars => (KindOK /\ QuicInv /\ DevInv)'
  <2> SUFFICES ASSUME KindOK, QuicInv, DevInv, [ProcessNext]_processVars
               PROVE  KindOK' /\ QuicInv' /\ DevInv'
    OBVIOUS
  <2>1. KindOK'
    BY DEF KindOK, ProcessNext, processVars
  <2> QED
    BY <2>1, ProcessStep, QuicNextInv, DevNextInv
<1> QED
  BY <1>1, <1>2, PTL DEF ProcessSpec

\* DevelopmentSecureTransport: a connected end whose peer has not closed since
\* uses the living link that the peer finds.
THEOREM LinkStaysAlive == ProcessSpec => []LinkAlive
<1>1. DevInv => LinkAlive
  BY DEF DevInv
<1> QED
  BY <1>1, ProcessInvariance, PTL

\* No payload for an earlier connection of an end waits for its present one.
THEOREM NoPayloadIsStale == ProcessSpec => []NoStalePayload
<1>1. DevInv => NoStalePayload
  BY DEF DevInv
<1> QED
  BY <1>1, ProcessInvariance, PTL

\* The two properties of the QUIC transports hold in the process as well.
THEOREM QuicInProcess == ProcessSpec => [](ApiCounted /\ NoCallAfterClose)
<1>1. QuicInv => ApiCounted /\ NoCallAfterClose
  BY DEF QuicInv, ObjectInv, Phases, Progress, Unopened, NoCallAfterClose, HasTable
<1> QED
  BY <1>1, ProcessInvariance, PTL

=============================================================================
