---------------------------- MODULE InnerSession ----------------------------
(***************************************************************************)
(* The inner session of src/inner_session.cpp at the two ends of a tunnel: *)
(* every frame is sealed with the next sequence number and opened only     *)
(* when its number is above the highest one opened so far.                 *)
(*                                                                         *)
(* Between the ends is a network that may lose, repeat, reorder and cut    *)
(* frames.  The server keeps one InnerSession object for as long as its    *)
(* engine lives (TunnelEngine::start creates it, nothing replaces it),     *)
(* while every client process starts with a new one.                       *)
(***************************************************************************)
EXTENDS Naturals, Sequences

Ends == {"client", "server"}
Peer(e) == IF e = "client" THEN "server" ELSE "client"

CONSTANTS MaxSeals,      \* bound: MaxSeals[e] seal calls in one run of end e
          MaxRestarts    \* bound: how often the client process starts again

ASSUME BoundsAssumption == MaxSeals \in [Ends -> Nat] /\ MaxRestarts \in Nat

VARIABLES mode,          \* mode[e]: the implementation create_inner_session chose
          sendSequence,  \* send_sequence_ of e's object
          lastReceived,  \* last_received_sequence_ of e's object
          life,          \* life[e]: which run of e's process this is
          wire,          \* wire[e]: the frames on their way to e
          sealed,        \* history: the messages e has sealed, <<life, sequence>>
          opened,        \* history: the frames e's object has opened, in order
          rejected       \* history: the undamaged frames of its format e has refused

vars == <<mode, sendSequence, lastReceived, life, wire, sealed, opened, rejected>>

-----------------------------------------------------------------------------
(* Choosing the implementation. *)

Mode == {"dev", "aead"}

\* An empty key selects the development session; a key that is not 64 hex
\* digits gives no session; a good key selects AES-GCM on Windows and the
\* development session elsewhere.
create_inner_session(psk, windows) ==
    IF psk = "malformed" THEN "null"
    ELSE IF psk = "key" /\ windows THEN "aead" ELSE "dev"

-----------------------------------------------------------------------------
(* Frames. *)

\* version tells the two formats apart; whole is FALSE for a frame that lost
\* its tail, which the length checks of the development format and the tag of
\* the AEAD format both refuse.
Frame == [version : Mode, life : Nat, seq : Nat, whole : BOOLEAN]

Id(f) == <<f.life, f.seq>>

CutShort(f) == [version |-> f.version, life |-> f.life, seq |-> f.seq, whole |-> FALSE]

AcceptsRepeated(m, last, f) ==
    /\ f.version = m
    /\ f.seq >= last
    /\ f.whole

AcceptsNextOnly(m, last, f) ==
    /\ f.version = m
    /\ f.seq = last + 1
    /\ f.whole

\* open() returns true: version, then sequence, then lengths or tag.
Accepts(m, last, f) ==
    /\ f.version = m
    /\ f.seq > last
    /\ f.whole

Init ==
    /\ \E psk \in [Ends -> {"empty", "malformed", "key"}],
          windows \in [Ends -> BOOLEAN] :
          /\ \A e \in Ends : create_inner_session(psk[e], windows[e]) # "null"
          /\ mode = [e \in Ends |-> create_inner_session(psk[e], windows[e])]
    /\ sendSequence = [e \in Ends |-> 0]
    /\ lastReceived = [e \in Ends |-> 0]
    /\ life = [e \in Ends |-> 0]
    /\ wire = [e \in Ends |-> {}]
    /\ sealed = [e \in Ends |-> {}]
    /\ opened = [e \in Ends |-> <<>>]
    /\ rejected = [e \in Ends |-> {}]

-----------------------------------------------------------------------------
(* The operations of an end. *)

\* seal() of a payload within kInnerMaxPayloadSize, handed to the transport.
\* A larger payload is refused before the sequence number moves.
Seal(e) ==
    /\ sendSequence[e] < MaxSeals[e]
    /\ LET n == sendSequence[e] + 1
           f == [version |-> mode[e], life |-> life[e], seq |-> n, whole |-> TRUE]
       IN  /\ sendSequence' = [sendSequence EXCEPT ![e] = n]
           /\ wire' = [wire EXCEPT ![Peer(e)] = @ \cup {f}]
           /\ sealed' = [sealed EXCEPT ![e] = @ \cup {Id(f)}]
    /\ UNCHANGED <<mode, lastReceived, life, opened, rejected>>

SealFailsBackwards(e) ==
    /\ mode[e] = "aead"
    /\ sendSequence[e] < MaxSeals[e]
    /\ sendSequence' = [sendSequence EXCEPT ![e] = @ - 1]
    /\ UNCHANGED <<mode, lastReceived, life, wire, sealed, opened, rejected>>

\* BCryptEncrypt fails: the sequence number is used up, no frame exists.
SealFails(e) ==
    /\ mode[e] = "aead"
    /\ sendSequence[e] < MaxSeals[e]
    /\ sendSequence' = [sendSequence EXCEPT ![e] = @ + 1]
    /\ UNCHANGED <<mode, lastReceived, life, wire, sealed, opened, rejected>>

OpenAcceptUnrecorded(e, f) ==
    /\ Accepts(mode[e], lastReceived[e], f)
    /\ opened' = [opened EXCEPT ![e] = Append(@, f)]
    /\ UNCHANGED <<mode, sendSequence, lastReceived, life, wire, sealed, rejected>>

OpenAccept(e, f) ==
    /\ Accepts(mode[e], lastReceived[e], f)
    /\ lastReceived' = [lastReceived EXCEPT ![e] = f.seq]
    /\ opened' = [opened EXCEPT ![e] = Append(@, f)]
    /\ UNCHANGED <<mode, sendSequence, life, wire, sealed, rejected>>

OpenReject(e, f) ==
    /\ ~Accepts(mode[e], lastReceived[e], f)
    /\ rejected' = [rejected EXCEPT ![e] =
                        @ \cup {g \in {f} : g.whole /\ g.version = mode[e]}]
    /\ UNCHANGED <<mode, sendSequence, lastReceived, life, wire, sealed, opened>>

\* A frame stays on the wire after it was opened, so it may arrive again.
Open(e) == \E f \in wire[e] : OpenAccept(e, f) \/ OpenReject(e, f)

\* The user starts the client again: a new object on a new connection.  What
\* the old process sent may still reach the server, what was sent to the old
\* process reaches nobody.
RestartClient ==
    /\ life["client"] < MaxRestarts
    /\ life' = [life EXCEPT !["client"] = @ + 1]
    /\ sendSequence' = [sendSequence EXCEPT !["client"] = 0]
    /\ lastReceived' = [lastReceived EXCEPT !["client"] = 0]
    /\ wire' = [wire EXCEPT !["client"] = {}]
    /\ opened' = [opened EXCEPT !["client"] = <<>>]
    /\ rejected' = [rejected EXCEPT !["client"] = {}]
    /\ UNCHANGED <<mode, sealed>>

-----------------------------------------------------------------------------
(* The network. *)

\* A frame loses its tail.  Loss needs no action (a frame may stay on the wire
\* for ever), nor do repetition and reordering (wire is a set that Open reads).
Cut(e) ==
    /\ \E f \in wire[e] : wire' = [wire EXCEPT ![e] = (@ \ {f}) \cup {CutShort(f)}]
    /\ UNCHANGED <<mode, sendSequence, lastReceived, life, sealed, opened, rejected>>

Next ==
    \/ \E e \in Ends : Seal(e) \/ SealFails(e) \/ Open(e) \/ Cut(e)
    \/ RestartClient

Spec == Init /\ [][Next]_vars

-----------------------------------------------------------------------------
(* Properties. *)

\* Every variable has its type; the history of e holds frames e could have met.
TypeOK ==
    /\ mode \in [Ends -> Mode]
    /\ sendSequence \in [Ends -> Nat]
    /\ lastReceived \in [Ends -> Nat]
    /\ life \in [Ends -> 0..MaxRestarts]
    /\ wire \in [Ends -> SUBSET Frame]
    /\ sealed \in [Ends -> SUBSET (Nat \X Nat)]
    /\ opened \in [Ends -> Seq(Frame)]
    /\ rejected \in [Ends -> SUBSET Frame]

\* "单调序号防重放" (include/tunnel/inner_session.hpp): whatever the network
\* repeats or reorders and however often the client starts again, open() never
\* succeeds twice for one sealed frame, nor for frames of one run of the peer
\* in an order other than the one they were sealed in.
OpenedOnceInOrder ==
    \A e \in Ends : \A i, j \in DOMAIN opened[e] :
        i < j /\ opened[e][i].life = opened[e][j].life
          => opened[e][i].seq < opened[e][j].seq

SealedNoEarlier(g, f) == g.life > f.life \/ (g.life = f.life /\ g.seq >= f.seq)

RefusedAreOvertaken(e) ==
    \A f \in rejected[e] : \E i \in DOMAIN opened[e] : SealedNoEarlier(opened[e][i], f)

\* open() turns away an undamaged frame of the right format only as a replay or
\* as overtaken, that is, after it has opened a frame sealed no earlier, as long
\* as the peer is in its first run: the first undamaged frame of a peer is always
\* opened, and a number burnt by a failed encryption does no harm.
RefusedInFirstRun == \A e \in Ends : life[Peer(e)] = 0 => RefusedAreOvertaken(e)

\* "服务端：客户端断开后回到 handshaking，继续等待下一连接。"
\* (include/tunnel/session.hpp): the same also for a client that is started
\* again, so that the server opens the first frame of the next client.
RefusedOnlyIfOvertaken == \A e \in Ends : RefusedAreOvertaken(e)

-----------------------------------------------------------------------------
(* The promise it implements. *)

openedIds == [e \in Ends |-> [i \in DOMAIN opened[e] |-> Id(opened[e][i])]]

Delivery == INSTANCE FrameDelivery WITH
    Restarting <- {"client"},
    Lives <- 0..MaxRestarts,
    Numbers <- 1..(MaxSeals["client"] + MaxSeals["server"]),
    sent <- sealed,
    got <- openedIds

\* The two sessions over this network deliver as FrameDelivery says.
DeliverySpec == Delivery!Spec
=============================================================================
