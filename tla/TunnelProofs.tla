---------------------------- MODULE TunnelProofs ----------------------------
(***************************************************************************)
(* Proofs about the engine over QuicSecureTransport, for any set of        *)
(* connections and every order of calls, callbacks and signals: the        *)
(* invariants of the transport, what it never takes back, that it          *)
(* implements TunnelEngine, and the measures that bring a stop, the next   *)
(* session, a connected client and a dead one to their end.                *)
(***************************************************************************)
EXTENDS Tunnel, TunnelEngineProofs, SequenceTheorems

USE DEF lifeVars, memberVars

-----------------------------------------------------------------------------
(* The inductive invariant. *)

\* The places before connect(), those a program that has not come to connect()
\* can be at, and those where the engine calls the transport.
Before == {"start", "acquire1", "pop1", "acquire2", "pop2", "toConnecting", "open", "connect"}
Early  == Before \cup {"startFailed", "exit", "gone"}
CallPc == {"connect", "perform", "startChannel", "openChannel", "send"}
OpenPc == {"startRouting", "toEstablished", "ensureRouting", "establish"}

\* No connection has come to exist and none can.
Blank ==
    /\ connection = NoConn /\ "listener" \notin handles /\ ~dataChannelOpen
    /\ chan = FreshChannel /\ hs = FreshHandshake
    /\ \A c \in Conns : phase[c] = "none" /\ ~streamUp[c] /\ inFlight[c] = 0

\* A close() that has anything to do finds the object as it was made.  Once it has
\* set closed_, nothing is ever dropped.
Pristine ==
    /\ ~closed \/ (\E t \in Callers : Busy(t)) =>
           pc["main"] \in Early /\ call = "idle" /\ handles = {} /\ contexts = "none" /\ Blank
    /\ \A t \in Callers : closing[t] \notin {"out", "set"} => closed
    /\ pc["main"] \in Before /\ call # "returned" => Blank

\* ready is set only with a stream, on a connection that has been CONNECTED.
StreamReady ==
    /\ \A c \in Conns : phase[c] \in {"opening", "connected"} => hs.connected
    /\ chan.ready => chan.stream # NoConn /\ hs.connected /\ streamUp[chan.stream]
    /\ dataChannelOpen => chan.ready
    /\ call \in {"sendWait", "sendDone"} => chan.stream # NoConn

\* Inside a call the main thread stands at the place of the call.
CallAt ==
    /\ call # "idle" => pc["main"] \in CallPc
    /\ call \in ConnectCalls => pc["main"] = "connect"
    /\ call = "performWait" => pc["main"] = "perform"
    /\ call \in {"openWait", "streamWait"} => pc["main"] \in {"startChannel", "openChannel"}
    /\ call \in {"sendWait", "sendDone"} => pc["main"] = "send"
    /\ call = "returned" /\ ret /\ pc["main"] \in {"startChannel", "openChannel"} => dataChannelOpen

\* On the way to an established session the channel is open.
ChannelOpen ==
    /\ pc["main"] \in OpenPc => dataChannelOpen
    /\ pc["main"] = "clearFlag" /\ ~IsServer => dataChannelOpen
    /\ session.state = "established" => dataChannelOpen

TunnelInv ==
    /\ race = "none"
    /\ TypeOK /\ TransportTypeOK /\ Pristine /\ SendSlot /\ StreamReady /\ CallAt /\ ChannelOpen

\* What a StreamChannel is, and what its callbacks and its caller do to it.
Channels == [stream : Conns \cup {NoConn}, ready : BOOLEAN, sendComplete : BOOLEAN, frames : Seq(Conns)]

\* They all leave a StreamChannel.
LEMMA ChannelTypes ==
    ASSUME NEW k \in Channels, NEW c \in Conns, NEW b \in BOOLEAN
    PROVE  /\ [k EXCEPT !.stream = c, !.ready = TRUE] \in Channels
           /\ [k EXCEPT !.sendComplete = b] \in Channels
           /\ [k EXCEPT !.frames = Append(@, c)] \in Channels
<1>1. [k EXCEPT !.stream = c, !.ready = TRUE] \in Channels
    BY DEF Channels
<1>2. [k EXCEPT !.sendComplete = b] \in Channels
    BY DEF Channels
<1>3. [k EXCEPT !.frames = Append(@, c)] \in Channels
    <2>1. k.frames \in Seq(Conns)
        BY DEF Channels
    <2>2. Append(k.frames, c) \in Seq(Conns)
        BY <2>1, AppendProperties
    <2> HIDE DEF Channels
    <2> DEFINE f == Append(k.frames, c)
    <2>3. f \in Seq(Conns)
        BY <2>2
    <2> HIDE DEF f
    <2>4. [k EXCEPT !.frames = f] \in Channels
        BY <2>3 DEF Channels
    <2> QED
        BY <2>4 DEF f
<1> QED
    BY <1>1, <1>2, <1>3

\* The program starts in the invariant.
LEMMA TunnelInitInv == TunnelInit => TunnelInv
<1> SUFFICES ASSUME TunnelInit PROVE TunnelInv
    OBVIOUS
<1> USE TransportAssumption
<1>1. TypeOK /\ pc["main"] = "start" /\ session.state = "stopped"
    BY InitType DEF TunnelInit, Init, Threads, InitialSession
<1>2. TransportTypeOK
    <2>1. chan \in Channels
        BY DEF TunnelInit, TransportInit, FreshChannel, Channels
    <2>2. hs \in [connected : BOOLEAN, failed : BOOLEAN, shutdownComplete : BOOLEAN]
        BY DEF TunnelInit, TransportInit, FreshHandshake
    <2> QED
        BY <2>1, <2>2 DEF TunnelInit, TransportInit, TransportTypeOK, Channels, ClosePc
<1>3. Pristine /\ SendSlot
    BY <1>1 DEF TunnelInit, TransportInit, Pristine, Blank, Busy, SendSlot, Early, Before
<1>4. StreamReady /\ CallAt /\ ChannelOpen
    BY <1>1 DEF TunnelInit, TransportInit, StreamReady, CallAt, ChannelOpen, FreshChannel, OpenPc,
               ConnectCalls
<1> QED
    BY <1>1, <1>2, <1>3, <1>4 DEF TunnelInv, TunnelInit, TransportInit

-----------------------------------------------------------------------------
(* MsQuic's callbacks. *)

\* The engine's part of the invariant does not see a callback.
LEMMA CallbackFrame ==
    ASSUME TunnelInv, ~Blank, UNCHANGED <<engineVars, closed, closing, race, call, ret, dataChannelOpen>>,
           TransportTypeOK', SendSlot', StreamReady'
    PROVE  TunnelInv'
<1>1. TypeOK'
    BY DEF TunnelInv, TypeOK, engineVars
<1>2. Pristine'
    BY DEF TunnelInv, Pristine, Busy, engineVars
<1>3. CallAt' /\ ChannelOpen'
    BY DEF TunnelInv, CallAt, ChannelOpen, engineVars, IsServer
<1> QED
    BY <1>1, <1>2, <1>3 DEF TunnelInv

\* Every callback keeps the invariant.
LEMMA CallbackInv ==
    ASSUME TunnelInv, Callback, UNCHANGED engineVars
    PROVE  TunnelInv'
<1> USE TransportAssumption
<1>0. PICK c \in Conns :
        \/ NewConnection(c) \/ Connected(c) \/ \E ok \in BOOLEAN : OpenClientStream(c, ok)
        \/ PeerStreamStarted(c) \/ Receive(c) \/ SendComplete(c)
        \/ ShutdownByTransport(c) \/ ShutdownByPeer(c) \/ ShutdownComplete(c)
    BY DEF Callback
<1>1. CASE NewConnection(c)
    <2>1. ~Blank /\ UNCHANGED <<closed, closing, race, call, ret, dataChannelOpen>>
        BY <1>1 DEF NewConnection, TunnelInv, TransportTypeOK, Blank
    <2>2. TransportTypeOK'
        BY <1>1 DEF NewConnection, TunnelInv, TransportTypeOK, Live
    <2>3. SendSlot' /\ StreamReady'
        BY <1>1 DEF NewConnection, TunnelInv, TransportTypeOK, SendSlot, StreamReady
    <2> QED
        BY <2>1, <2>2, <2>3, CallbackFrame
<1>2. CASE Connected(c)
    <2>1. ~Blank /\ UNCHANGED <<closed, closing, race, call, ret, dataChannelOpen>>
        BY <1>2 DEF Connected, TunnelInv, TransportTypeOK, Blank
    <2>2. hs' \in [connected : BOOLEAN, failed : BOOLEAN, shutdownComplete : BOOLEAN] /\ hs'.connected
        BY <1>2 DEF Connected, TunnelInv, TransportTypeOK
    <2>3. TransportTypeOK'
        BY <1>2, <2>2 DEF Connected, TunnelInv, TransportTypeOK, Live
    <2>4. SendSlot' /\ StreamReady'
        BY <1>2, <2>2 DEF Connected, TunnelInv, TransportTypeOK, SendSlot, StreamReady
    <2> QED
        BY <2>1, <2>3, <2>4, CallbackFrame
<1>2b. ASSUME NEW ok \in BOOLEAN, OpenClientStream(c, ok) PROVE TunnelInv'
    <2>1. ~Blank /\ UNCHANGED <<closed, closing, race, call, ret, dataChannelOpen>>
        BY <1>2b DEF OpenClientStream, TunnelInv, TransportTypeOK, Blank
    <2>2. hs.connected
        BY <1>2b DEF OpenClientStream, TunnelInv, StreamReady
    <2>3. CASE UNCHANGED <<chan, streamUp>>
        <3>1. TransportTypeOK'
            BY <1>2b, <2>3 DEF OpenClientStream, TunnelInv, TransportTypeOK, Live
        <3>2. SendSlot' /\ StreamReady'
            BY <1>2b, <2>2, <2>3 DEF OpenClientStream, TunnelInv, TransportTypeOK, SendSlot, StreamReady
        <3> QED
            BY <2>1, <3>1, <3>2, CallbackFrame
    <2>4. CASE AttachStream(c)
        <3>1. TransportTypeOK'
            <4>1. chan \in Channels /\ chan' \in Channels
                BY <2>4, ChannelTypes DEF AttachStream, TunnelInv, TransportTypeOK, Channels
            <4>2. phase' \in [Conns -> Live \cup {"none", "opened", "closed"}]
                BY <1>2b DEF OpenClientStream, TunnelInv, TransportTypeOK, Live
            <4>3. streamUp' \in [Conns -> BOOLEAN]
                BY <2>4 DEF AttachStream, TunnelInv, TransportTypeOK
            <4> QED
                BY <1>2b, <4>1, <4>2, <4>3 DEF OpenClientStream, TunnelInv, TransportTypeOK, Channels
        <3>2. SendSlot' /\ StreamReady'
            BY <1>2b, <2>2, <2>4 DEF OpenClientStream, AttachStream, TunnelInv, TransportTypeOK, SendSlot, StreamReady
        <3> QED
            BY <2>1, <3>1, <3>2, CallbackFrame
    <2> QED
        BY <1>2b, <2>3, <2>4 DEF OpenClientStream
<1>3. CASE PeerStreamStarted(c)
    <2>1. ~Blank /\ UNCHANGED <<closed, closing, race, call, ret, dataChannelOpen>>
        BY <1>3 DEF PeerStreamStarted, TunnelInv, TransportTypeOK, Blank
    <2>2. TransportTypeOK'
        BY <1>3 DEF PeerStreamStarted, AttachStream, TunnelInv, TransportTypeOK
    <2>3. SendSlot' /\ StreamReady'
        BY <1>3 DEF PeerStreamStarted, AttachStream, TunnelInv, TransportTypeOK, SendSlot, StreamReady
    <2> QED
        BY <2>1, <2>2, <2>3, CallbackFrame
<1>4. CASE Receive(c)
    <2>1. ~Blank /\ UNCHANGED <<closed, closing, race, call, ret, dataChannelOpen>>
        BY <1>4 DEF Receive, TunnelInv, TransportTypeOK, Blank
    <2>a. chan \in Channels
        BY DEF TunnelInv, TransportTypeOK, Channels
    <2>b. chan' \in Channels
        BY <1>4, <2>a, ChannelTypes DEF Receive
    <2>2. TransportTypeOK'
        BY <1>4, <2>b DEF Receive, TunnelInv, TransportTypeOK, quicVars, Channels
    <2>3. SendSlot' /\ StreamReady'
        BY <1>4 DEF Receive, TunnelInv, TransportTypeOK, SendSlot, StreamReady, quicVars
    <2> QED
        BY <2>1, <2>2, <2>3, CallbackFrame
<1>5. CASE SendComplete(c)
    <2>1. ~Blank /\ UNCHANGED <<closed, closing, race, call, ret, dataChannelOpen>>
        BY <1>5 DEF SendComplete, TunnelInv, TransportTypeOK, Blank
    <2>2. inFlight[c] = 1 /\ \A d \in Conns : d # c => inFlight[d] = 0
        BY <1>5 DEF SendComplete, TunnelInv, TransportTypeOK, SendSlot
    <2>a. chan \in Channels /\ inFlight \in [Conns -> Nat]
        BY DEF TunnelInv, TransportTypeOK, Channels
    <2>b. chan' \in Channels
        BY <1>5, <2>a, ChannelTypes DEF SendComplete
    <2>c. inFlight' \in [Conns -> Nat]
        BY <1>5, <2>2, <2>a DEF SendComplete
    <2>3. TransportTypeOK'
        BY <1>5, <2>b, <2>c DEF SendComplete, TunnelInv, TransportTypeOK, Channels
    <2>4. SendSlot'
        BY <1>5, <2>2 DEF SendComplete, TunnelInv, TransportTypeOK, SendSlot
    <2>5. StreamReady'
        BY <1>5 DEF SendComplete, TunnelInv, TransportTypeOK, StreamReady
    <2> QED
        BY <2>1, <2>3, <2>4, <2>5, CallbackFrame
<1>6. CASE ShutdownByTransport(c) \/ ShutdownByPeer(c)
    <2>1. ~Blank /\ UNCHANGED <<closed, closing, race, call, ret, dataChannelOpen, chan>>
        BY <1>6 DEF ShutdownByTransport, ShutdownByPeer, Blank, objectVars
    <2>2. hs' \in [connected : BOOLEAN, failed : BOOLEAN, shutdownComplete : BOOLEAN]
          /\ hs'.connected = hs.connected
        BY <1>6 DEF ShutdownByTransport, ShutdownByPeer, TunnelInv, TransportTypeOK, objectVars
    <2>3. TransportTypeOK'
        BY <1>6, <2>2 DEF ShutdownByTransport, ShutdownByPeer, TunnelInv, TransportTypeOK, objectVars, Live
    <2>4. SendSlot' /\ StreamReady'
        BY <1>6, <2>1, <2>2 DEF ShutdownByTransport, ShutdownByPeer, TunnelInv, TransportTypeOK, SendSlot,
                           StreamReady, objectVars
    <2> QED
        BY <2>1, <2>3, <2>4, CallbackFrame
<1>7. CASE ShutdownComplete(c)
    <2>1. ~Blank /\ UNCHANGED <<closed, closing, race, call, ret, dataChannelOpen>>
        BY <1>7 DEF ShutdownComplete, TunnelInv, TransportTypeOK, Blank
    <2>2. TransportTypeOK' /\ hs'.connected = hs.connected
        <3>1. /\ hs \in [connected : BOOLEAN, failed : BOOLEAN, shutdownComplete : BOOLEAN]
              /\ hs' = [hs EXCEPT !.shutdownComplete = TRUE]
            BY <1>7 DEF ShutdownComplete, TunnelInv, TransportTypeOK
        <3>2. /\ hs' \in [connected : BOOLEAN, failed : BOOLEAN, shutdownComplete : BOOLEAN]
              /\ hs'.connected = hs.connected
            BY <3>1
        <3> QED
            BY <1>7, <3>2 DEF ShutdownComplete, TunnelInv, TransportTypeOK, quicVars
    <2>3. SendSlot' /\ StreamReady'
        BY <1>7, <2>2 DEF ShutdownComplete, TunnelInv, TransportTypeOK, SendSlot, StreamReady, quicVars
    <2> QED
        BY <2>1, <2>2, <2>3, CallbackFrame
<1> QED
    BY <1>0, <1>1, <1>2, <1>2b, <1>3, <1>4, <1>5, <1>6, <1>7

-----------------------------------------------------------------------------
(* Calls of the transport. *)

\* The engine does not move while a call begins or goes on.
LEMMA CallFrame ==
    ASSUME TunnelInv, closed', \A t \in Callers : ~Busy(t)', race' = "none", UNCHANGED engineVars,
           pc["main"] \in Before => call' = "returned" \/ Blank',
           dataChannelOpen => dataChannelOpen', TransportTypeOK', SendSlot', StreamReady', CallAt'
    PROVE  TunnelInv'
<1>1. TypeOK'
    BY DEF TunnelInv, TypeOK, engineVars
<1>2. Pristine'
    BY DEF TunnelInv, Pristine, engineVars
<1>3. ChannelOpen'
    BY DEF TunnelInv, ChannelOpen, engineVars, IsServer
<1> QED
    BY <1>1, <1>2, <1>3 DEF TunnelInv

\* Once connect() has begun no close() is under way.
LEMMA CallAlone ==
    ASSUME TunnelInv, call # "idle" \/ pc["main"] \notin Early
    PROVE  closed /\ \A t \in Callers : ~Busy(t)
BY DEF TunnelInv, TransportTypeOK, Pristine

\* A call begins.
LEMMA BeginCallInv ==
    ASSUME TunnelInv, BeginCall, race' = "none"
    PROVE  TunnelInv'
<1> USE TransportAssumption DEF Before, Early
<1>0. UNCHANGED engineVars /\ UNCHANGED pc
    BY DEF BeginCall, engineVars
<1>1. ASSUME pc["main"] = "connect", ConnectBegin(EngineRole) PROVE TunnelInv'
    <2>1. closing \in [Callers -> ClosePc] /\ closing' = [closing EXCEPT !["main"] = "out"]
        BY <1>1 DEF ConnectBegin, Closing, TunnelInv, TransportTypeOK
    <2>2. closing' \in [Callers -> ClosePc] /\ \A t \in Callers : ~Busy(t)'
        BY <1>1, <2>1 DEF ConnectBegin, Callers, ClosePc, Busy
    <2>3. TransportTypeOK'
        <3>1. role' \in {"client", "server"} /\ call' \in ConnectCalls
            BY <1>1 DEF ConnectBegin, EngineRole, ConnectCalls
        <3> QED
            BY <1>1, <2>2, <3>1 DEF ConnectBegin, TunnelInv, TransportTypeOK, quicVars
    <2>4. closed'
        BY <1>1 DEF ConnectBegin, Closing, TunnelInv, Pristine, Callers
    <2>5. Blank'
        BY <1>1 DEF ConnectBegin, TunnelInv, Pristine, Blank, quicVars
    <2>6. SendSlot' /\ StreamReady' /\ CallAt' /\ UNCHANGED dataChannelOpen
        BY <1>0, <1>1 DEF ConnectBegin, TunnelInv, SendSlot, StreamReady, CallAt, CallPc, quicVars,
                          ConnectCalls
    <2> QED
        BY <1>0, <2>2, <2>3, <2>4, <2>5, <2>6, CallFrame
<1>2. ASSUME NEW ok \in BOOLEAN, pc["main"] = "perform", PerformHandshake(ok) PROVE TunnelInv'
    <2>1. closed' /\ (\A t \in Callers : ~Busy(t)') /\ UNCHANGED <<dataChannelOpen, chan, hs, inFlight, streamUp>>
        BY <1>2, CallAlone DEF PerformHandshake, Busy
    <2>2. ret' \in BOOLEAN /\ call' \in {"performWait", "returned"}
        BY <1>2 DEF PerformHandshake, Return, TunnelInv, TransportTypeOK
    <2>3. TransportTypeOK'
        <3>1. UNCHANGED <<lifeVars, connection, hs, chan, dataChannelOpen, streamUp, inFlight>>
            BY <1>2 DEF PerformHandshake
        <3>2. call' \in WaitCalls \cup {"returned"}
            BY <2>2 DEF WaitCalls
        <3>3. phase' \in [Conns -> Live \cup {"none", "opened", "closed"}]
            BY <1>2 DEF PerformHandshake, TunnelInv, TransportTypeOK, Live
        <3> QED
            BY <2>2, <3>1, <3>2, <3>3 DEF TunnelInv, TransportTypeOK
    <2>4. SendSlot' /\ CallAt'
        BY <1>0, <1>2, <2>1, <2>2 DEF TunnelInv, SendSlot, CallAt, CallPc, ConnectCalls
    <2>5. StreamReady'
        BY <1>2, <2>1, <2>2 DEF PerformHandshake, TunnelInv, TransportTypeOK, StreamReady
    <2> QED
        BY <1>0, <1>2, <2>1, <2>3, <2>4, <2>5, CallFrame
<1>3. ASSUME pc["main"] \in {"startChannel", "openChannel"}, OpenDataChannel PROVE TunnelInv'
    <2>1. closed' /\ (\A t \in Callers : ~Busy(t)') /\ UNCHANGED <<dataChannelOpen, chan, hs, quicVars>>
        BY <1>3, CallAlone DEF OpenDataChannel, Busy
    <2>2. \/ call' = "returned" /\ ret' = TRUE /\ dataChannelOpen
          \/ call' \in {"openWait", "streamWait"} /\ ret' = ret
        BY <1>3 DEF OpenDataChannel, Return
    <2>3. TransportTypeOK'
        <3>1. UNCHANGED <<lifeVars, connection, hs, chan, dataChannelOpen, quicVars>>
            BY <1>3 DEF OpenDataChannel
        <3>2. call' \in WaitCalls \cup {"returned"} /\ ret' \in BOOLEAN
            BY <2>2 DEF TunnelInv, TransportTypeOK, WaitCalls
        <3> QED
            BY <3>1, <3>2 DEF TunnelInv, TransportTypeOK, quicVars
    <2>4. SendSlot' /\ CallAt' /\ StreamReady'
        BY <1>0, <1>3, <2>1, <2>2 DEF TunnelInv, SendSlot, CallAt, CallPc, ConnectCalls, StreamReady, quicVars
    <2> QED
        BY <1>0, <1>3, <2>1, <2>3, <2>4, CallFrame
<1>4. ASSUME pc["main"] = "send", SendPayload PROVE TunnelInv'
    <2>1. closed' /\ (\A t \in Callers : ~Busy(t)') /\ UNCHANGED <<dataChannelOpen, chan, hs, quicVars>>
        BY <1>4, CallAlone DEF SendPayload, Busy
    <2>2. \/ call' = "returned" /\ ret' = FALSE
          \/ call' = "sendWait" /\ ret' = ret /\ chan.stream # NoConn
        BY <1>4 DEF SendPayload, Return
    <2>3. TransportTypeOK'
        <3>1. UNCHANGED <<lifeVars, connection, hs, chan, dataChannelOpen, quicVars>>
            BY <1>4 DEF SendPayload
        <3>2. call' \in WaitCalls \cup {"returned"} /\ ret' \in BOOLEAN
            BY <2>2 DEF TunnelInv, TransportTypeOK, WaitCalls
        <3> QED
            BY <3>1, <3>2 DEF TunnelInv, TransportTypeOK, quicVars
    <2>4. SendSlot' /\ CallAt' /\ StreamReady'
        BY <1>0, <1>4, <2>1, <2>2 DEF TunnelInv, SendSlot, CallAt, CallPc, ConnectCalls, StreamReady, quicVars
    <2> QED
        BY <1>0, <1>4, <2>1, <2>3, <2>4, CallFrame
<1> QED
    BY <1>1, <1>2, <1>3, <1>4 DEF BeginCall

\* A call goes on.
LEMMA InCallInv ==
    ASSUME TunnelInv, InCall, race' = "none"
    PROVE  TunnelInv'
<1> USE TransportAssumption
<1>0. UNCHANGED engineVars /\ UNCHANGED pc /\ Proceed
    BY DEF InCall, engineVars
<1>a. call # "idle" /\ (closed /\ closed') /\ \A t \in Callers : ~Busy(t) /\ ~Busy(t)'
    <2>1. call # "idle" /\ UNCHANGED <<closed, closing>>
        BY <1>0 DEF Proceed, HandshakeWait, StreamWait, SendWait, WaitTimeout, WaitCalls, StreamSend,
               EnsureApiOpen, OpenRegistration, LoadConfiguration, Open, NewContexts, StartOpenFailed,
               StartListener, OpenConnection
    <2> QED
        BY <2>1, CallAlone DEF Busy
<1>b. ASSUME NEW here \in ConnectCalls, NEW h \in Handles \ {"listener"}, NEW next \in ConnectCalls,
             NEW ok \in BOOLEAN, Open(here, h, next, ok)
      PROVE  TunnelInv'
    <2>1. pc["main"] = "connect" /\ Blank
        BY <1>b DEF Open, TunnelInv, CallAt, Pristine, ConnectCalls, Before
    <2>2. /\ handles' \subseteq Handles /\ "listener" \notin handles'
          /\ call' \in ConnectCalls \cup {"returned"} /\ ret' \in BOOLEAN
          /\ call' = "returned" => ~ret'
        <3>1. handles \subseteq Handles /\ "listener" \notin handles /\ ret \in BOOLEAN
            BY <2>1 DEF TunnelInv, TransportTypeOK, Blank
        <3>2. CASE ok
            <4>1. handles' = handles \cup {h} /\ call' = next /\ ret' = ret
                BY <1>b, <3>2 DEF Open
            <4>2. handles' \subseteq Handles /\ "listener" \notin handles'
                BY <3>1, <4>1, <1>b
            <4>3. next # "returned"
                BY <1>b DEF ConnectCalls
            <4> QED
                BY <1>b, <3>1, <4>1, <4>2, <4>3
        <3>3. CASE ~ok
            <4>1. handles' = handles /\ call' = "returned" /\ ret' = FALSE
                BY <1>b, <3>3 DEF Open, Return
            <4> QED
                BY <3>1, <4>1
        <3> QED
            BY <1>b, <3>2, <3>3
    <2>3. TransportTypeOK' /\ Blank'
        BY <1>b, <2>1, <2>2 DEF Open, TunnelInv, TransportTypeOK, Blank, quicVars
    <2>4. SendSlot' /\ StreamReady' /\ CallAt' /\ UNCHANGED dataChannelOpen
        BY <1>0, <1>b, <2>1, <2>2 DEF Open, TunnelInv, SendSlot, StreamReady, CallAt, CallPc, quicVars,
                                      ConnectCalls
    <2> QED
        BY <1>0, <1>a, <2>3, <2>4, CallFrame
<1>c. ASSUME NEW ok \in BOOLEAN, EnsureApiOpen(ok) \/ OpenRegistration(ok) \/ LoadConfiguration(ok)
      PROVE  TunnelInv'
    BY <1>b, <1>c DEF EnsureApiOpen, OpenRegistration, LoadConfiguration, ConnectCalls, Handles
<1>d. ASSUME NewContexts PROVE TunnelInv'
    <2>1. pc["main"] = "connect" /\ Blank
        BY <1>d DEF NewContexts, TunnelInv, CallAt, Pristine, ConnectCalls, Before
    <2>2. Blank' /\ UNCHANGED <<hs, chan>>
        BY <1>d, <2>1 DEF NewContexts, Blank, quicVars
    <2>3. TransportTypeOK'
        BY <1>d, <2>2 DEF NewContexts, TunnelInv, TransportTypeOK, quicVars, ConnectCalls
    <2>4. SendSlot' /\ StreamReady' /\ CallAt' /\ UNCHANGED dataChannelOpen
        BY <1>0, <1>d, <2>1, <2>2 DEF NewContexts, TunnelInv, SendSlot, StreamReady, CallAt, CallPc, quicVars
    <2> QED
        BY <1>0, <1>a, <2>2, <2>3, <2>4, CallFrame
<1>e. ASSUME StartOpenFailed \/ StartListener PROVE TunnelInv'
    <2>1. /\ call = "startOpen" /\ call' = "returned" /\ ret' \in BOOLEAN /\ handles' \subseteq Handles
          /\ UNCHANGED <<closed, role, contexts, closing, race, connection, hs, chan, dataChannelOpen, quicVars>>
        BY <1>e DEF StartOpenFailed, StartListener, Return, TunnelInv, TransportTypeOK, Handles, quicVars
    <2>2. TransportTypeOK'
        BY <2>1 DEF TunnelInv, TransportTypeOK, quicVars
    <2>3. SendSlot' /\ StreamReady' /\ CallAt'
        BY <1>0, <2>1 DEF TunnelInv, SendSlot, StreamReady, CallAt, CallPc, quicVars, ConnectCalls
    <2> QED
        BY <1>0, <1>a, <2>1, <2>2, <2>3, CallFrame
<1>f. ASSUME NEW c \in Conns, OpenConnection(c) PROVE TunnelInv'
    <2>1. phase' \in [Conns -> Live \cup {"none", "opened", "closed"}]
        BY <1>f DEF OpenConnection, TunnelInv, TransportTypeOK
    <2>2. call' = "returned" /\ TransportTypeOK'
        BY <1>f, <2>1 DEF OpenConnection, Return, TunnelInv, TransportTypeOK
    <2>3. SendSlot' /\ CallAt' /\ UNCHANGED dataChannelOpen
        BY <1>0, <1>f DEF OpenConnection, Return, TunnelInv, SendSlot, CallAt, CallPc, ConnectCalls
    <2>4. StreamReady'
        BY <1>f DEF OpenConnection, Return, TunnelInv, TransportTypeOK, StreamReady
    <2> QED
        BY <1>0, <1>a, <1>f, <2>2, <2>3, <2>4, CallFrame DEF OpenConnection
<1>g. call \in WaitCalls => pc["main"] \notin Before
    BY DEF TunnelInv, CallAt, WaitCalls, Before
<1>1. CASE HandshakeWait \/ SendWait \/ WaitTimeout
    <2>1. UNCHANGED <<lifeVars, connection, hs, chan, dataChannelOpen, quicVars>>
        BY <1>1 DEF HandshakeWait, SendWait, WaitTimeout
    <2>2. /\ call \in WaitCalls
          /\ \/ call' = "returned" /\ ret' \in BOOLEAN /\ (ret' => call \in {"performWait", "sendDone"})
             \/ call = "openWait" /\ call' = "streamWait" /\ ret' = ret
        BY <1>1 DEF HandshakeWait, SendWait, WaitTimeout, Return, TunnelInv, TransportTypeOK, WaitCalls
    <2>3. TransportTypeOK'
        BY <2>1, <2>2 DEF TunnelInv, TransportTypeOK, WaitCalls, quicVars
    <2>4. SendSlot' /\ StreamReady'
        BY <2>1, <2>2 DEF TunnelInv, SendSlot, StreamReady, quicVars
    <2>5. CallAt'
        BY <1>0, <2>1, <2>2 DEF TunnelInv, CallAt, CallPc, WaitCalls, ConnectCalls
    <2> QED
        BY <1>0, <1>a, <1>g, <2>1, <2>2, <2>3, <2>4, <2>5, CallFrame
<1>2. CASE StreamWait
    <2>1. TransportTypeOK'
        BY <1>2 DEF StreamWait, Return, TunnelInv, TransportTypeOK, WaitCalls, quicVars
    <2>2. SendSlot' /\ StreamReady' /\ CallAt' /\ dataChannelOpen'
        BY <1>0, <1>2 DEF StreamWait, Return, TunnelInv, SendSlot, StreamReady, CallAt, quicVars, CallPc, ConnectCalls
    <2> QED
        BY <1>0, <1>2, <1>a, <2>1, <2>2, CallFrame DEF StreamWait, Return
<1>3. ASSUME NEW ok \in BOOLEAN, StreamSend(ok) PROVE TunnelInv'
    <2>1. chan.stream \in Conns /\ \A c \in Conns : inFlight[c] = 0
        BY <1>3 DEF StreamSend, TunnelInv, TransportTypeOK, StreamReady, SendSlot
    <2>2. CASE ok
        <3>a. chan \in Channels /\ inFlight \in [Conns -> Nat]
            BY DEF TunnelInv, TransportTypeOK, Channels
        <3>b. chan' \in Channels
            BY <1>3, <2>2, <2>1, <3>a, ChannelTypes DEF StreamSend
        <3>c. inFlight' \in [Conns -> Nat]
            BY <1>3, <2>1, <2>2, <3>a DEF StreamSend
        <3>1. TransportTypeOK'
            BY <1>3, <2>1, <2>2, <3>b, <3>c DEF StreamSend, TunnelInv, TransportTypeOK, WaitCalls, Channels
        <3>2. SendSlot'
            BY <1>3, <2>1, <2>2 DEF StreamSend, TunnelInv, TransportTypeOK, SendSlot
        <3>3. StreamReady' /\ CallAt' /\ UNCHANGED dataChannelOpen
            BY <1>0, <1>3, <2>1, <2>2 DEF StreamSend, TunnelInv, TransportTypeOK, StreamReady, CallAt, CallPc, ConnectCalls
        <3> QED
            BY <1>0, <1>3, <1>a, <1>g, <3>1, <3>2, <3>3, CallFrame DEF StreamSend, WaitCalls
    <2>3. CASE ~ok
        <3>1. TransportTypeOK'
            BY <1>3, <2>3 DEF StreamSend, Return, TunnelInv, TransportTypeOK, WaitCalls
        <3>2. SendSlot' /\ StreamReady' /\ CallAt' /\ UNCHANGED dataChannelOpen
            BY <1>0, <1>3, <2>3 DEF StreamSend, Return, TunnelInv, SendSlot, StreamReady, CallAt, CallPc, ConnectCalls
        <3> QED
            BY <1>0, <1>3, <1>a, <1>g, <3>1, <3>2, CallFrame DEF StreamSend, WaitCalls
    <2> QED
        BY <2>2, <2>3
<1> QED
    BY <1>0, <1>c, <1>d, <1>e, <1>f, <1>1, <1>2, <1>3 DEF Proceed

-----------------------------------------------------------------------------
(* The engine's own steps. *)

\* What a close() that does not overlap connect() changes: closed_, and its place.
Harmless ==
    /\ closed' \in BOOLEAN /\ (closed => closed')
    /\ closing' \in [Callers -> ClosePc]
    /\ \A t \in Callers : Busy(t)' => Busy(t) \/ ~closed
    /\ \A t \in Callers : closing'[t] \notin {"out", "set"} => closed'
    /\ UNCHANGED <<role, handles, contexts, race, connection, hs, dataChannelOpen, call, ret, quicVars>>

\* reset_for_next_client() changes nothing: closed_ has been set by connect().
LEMMA ResetHarmless ==
    ASSUME TunnelInv, ResetForNextClient, pc["main"] = "reset"
    PROVE  Harmless /\ UNCHANGED chan
<1>1. closed
    BY CallAlone DEF Early, Before
<1> QED
    BY <1>1 DEF ResetForNextClient, Harmless, TunnelInv, TransportTypeOK, Pristine, Busy, quicVars

\* A step of close() moves its thread alone.
LEMMA ClosingStep ==
    ASSUME TunnelInv, NEW t \in Callers, NEW here, NEW next \in ClosePc, Closing(t, here, next),
           closed' \in BOOLEAN, closed => closed',
           next \in {"out", "done"} \/ here \notin {"out", "done"} \/ ~closed,
           next \in {"out", "set"} \/ closed',
           UNCHANGED <<role, handles, contexts, race, connection, hs, dataChannelOpen, call, ret, quicVars>>
    PROVE  Harmless
<1>1. closing \in [Callers -> ClosePc] /\ \A u \in Callers : closing[u] \notin {"out", "set"} => closed
    BY DEF TunnelInv, TransportTypeOK, Pristine
<1>2. closing[t] = here /\ closing' = [closing EXCEPT ![t] = next]
    BY DEF Closing
<1>3. closing' \in [Callers -> ClosePc]
    BY <1>1, <1>2
<1>4. \A u \in Callers : closing'[u] = IF u = t THEN next ELSE closing[u]
    BY <1>1, <1>2
<1> QED
    BY <1>1, <1>2, <1>3, <1>4 DEF Harmless, Busy

\* The steps of close() find nothing to drop: closed_ is set before there is anything.
LEMMA CloseHarmless ==
    ASSUME TunnelInv, NEW t \in Callers, CloseTest(t) \/ CloseStep(t) \/ CloseEnd(t)
    PROVE  Harmless /\ UNCHANGED chan
<1> USE TransportAssumption
<1>0. closed \in BOOLEAN /\ closing \in [Callers -> ClosePc]
      /\ \A u \in Callers : closing[u] \notin {"out", "set"} => closed
    BY DEF TunnelInv, TransportTypeOK, Pristine
<1>1. CASE CloseTest(t)
    BY <1>0, <1>1, ClosingStep DEF CloseTest, ClosePc
<1>2. CASE CloseEnd(t)
    BY <1>0, <1>2, ClosingStep DEF CloseEnd, ClosePc
<1>3. CASE CloseStep(t)
    <2>1. Busy(t)
        BY <1>3 DEF CloseStep, CloseSet, CloseChannel, CloseDetach, CloseStream, CloseConnection, CloseHandle,
               CloseDelete, CloseRelease, Closing, Busy
    <2>2. handles = {} /\ contexts = "none" /\ Blank
        BY <2>1 DEF TunnelInv, Pristine
    <2>3. dataChannelOpen = FALSE
        BY <2>2 DEF Blank, TunnelInv, TransportTypeOK
    <2>4. CASE CloseSet(t)
        BY <1>0, <2>4, ClosingStep DEF CloseSet, ClosePc
    <2>5. CASE CloseChannel(t)
        <3>1. closed
            BY <1>0, <2>5 DEF CloseChannel, Closing
        <3> QED
            BY <1>0, <2>3, <2>5, <3>1, ClosingStep DEF CloseChannel, ClosePc
    <2>6. CASE CloseDetach(t) \/ CloseDelete(t)
        <3>1. closed
            BY <1>0, <2>6 DEF CloseDetach, CloseDelete, Closing
        <3> QED
            BY <1>0, <2>2, <2>6, <3>1, ClosingStep DEF CloseDetach, CloseDelete, ClosePc
    <2>7. CASE CloseStream(t) \/ CloseConnection(t)
        <3>1. closed
            BY <1>0, <2>7 DEF CloseStream, CloseConnection, Closing
        <3>2. UNCHANGED <<role, handles, contexts, race, connection, hs, chan, dataChannelOpen, call, ret, quicVars>>
            BY <2>2, <2>7 DEF CloseStream, CloseConnection, quicVars
        <3> QED
            BY <1>0, <2>7, <3>1, <3>2, ClosingStep DEF CloseStream, CloseConnection, ClosePc
    <2>8. ASSUME NEW h, NEW next \in ClosePc, next # "set", h \notin {"out", "set", "done"}, CloseHandle(t, h, next)
          PROVE  Harmless /\ UNCHANGED chan
        <3>1. closed
            BY <1>0, <2>8 DEF CloseHandle, Closing
        <3> QED
            BY <1>0, <2>2, <2>8, <3>1, ClosingStep DEF CloseHandle
    <2>9. CASE CloseRelease(t)
        <3>1. closed
            BY <1>0, <2>9 DEF CloseRelease, Closing
        <3>2. handles' = handles
            BY <2>2, <2>9 DEF CloseRelease
        <3> QED
            BY <1>0, <2>9, <3>1, <3>2, ClosingStep DEF CloseRelease, ClosePc
    <2> QED
        BY <1>3, <2>4, <2>5, <2>6, <2>7, <2>8, <2>9 DEF CloseStep, ClosePc
<1> QED
    BY <1>1, <1>2, <1>3

\* What the engine's steps outside the calls do to the places and the session.
OnTheWay ==
    /\ app' = app
    /\ pc["main"] \notin CallPc \/ pc'["main"] = pc["main"]
    /\ pc["main"] \in Early => pc'["main"] \in Early
    /\ pc'["main"] \in Before => pc["main"] \in Before
    /\ pc'["main"] \in OpenPc => pc["main"] \in OpenPc \/ (pc["main"] = "clearFlag" /\ ~IsServer)
    /\ pc'["main"] = "clearFlag" => pc["main"] \in {"clearFlag", "startRouting"}
    /\ session'.state = "established" =>
           session.state = "established" \/ pc["main"] \in {"toEstablished", "establish"}

\* Such a step leaves the transport alone, but for the progress of a close() and
\* for frames it takes out of the queue.
Quiet ==
    /\ TypeOK' /\ OnTheWay /\ Harmless
    /\ chan' = chan \/ (pc["main"] \notin Early /\ chan' \in Channels)
    /\ chan'.stream = chan.stream /\ chan'.ready = chan.ready
    /\ chan'.sendComplete = chan.sendComplete

\* Such a step keeps the invariant.
LEMMA QuietInv == ASSUME TunnelInv, Quiet PROVE TunnelInv'
<1> USE DEF Quiet, Harmless
<1>1. chan \in Channels
    BY DEF TunnelInv, TransportTypeOK, Channels
<1>2. chan' \in Channels
    BY <1>1
<1>3. TransportTypeOK'
    BY <1>2 DEF TunnelInv, TransportTypeOK, quicVars, Channels
<1>4. Pristine'
    <2>1. pc["main"] \in Early /\ Blank => Blank'
        BY DEF Blank, quicVars
    <2>2. ~closed' \/ (\E t \in Callers : Busy(t)') => ~closed \/ (\E t \in Callers : Busy(t))
        OBVIOUS
    <2>3. ~closed' \/ (\E t \in Callers : Busy(t)') =>
            pc'["main"] \in Early /\ call' = "idle" /\ handles' = {} /\ contexts' = "none" /\ Blank'
        BY <2>1, <2>2 DEF TunnelInv, Pristine, OnTheWay
    <2>4. pc'["main"] \in Before /\ call' # "returned" => Blank'
        BY <2>1 DEF TunnelInv, Pristine, OnTheWay, Early
    <2> QED
        BY <2>3, <2>4 DEF Pristine
<1>5. SendSlot' /\ StreamReady'
    BY DEF TunnelInv, SendSlot, StreamReady, quicVars
<1>6. CallAt'
    BY DEF TunnelInv, CallAt, OnTheWay, CallPc
<1>7. ChannelOpen'
    BY DEF TunnelInv, ChannelOpen, OnTheWay, IsServer, OpenPc
<1> QED
    BY <1>3, <1>4, <1>5, <1>6, <1>7 DEF TunnelInv

\* A step that leaves the transport alone is harmless.
LEMMA AloneQuiet == ASSUME TunnelInv, TypeOK', OnTheWay, UNCHANGED transportVars PROVE Quiet
BY DEF Quiet, Harmless, transportVars, objectVars, TunnelInv, TransportTypeOK, Pristine, Busy

\* A step of the main thread that only moves on.
LEMMA MoveOnTheWay ==
    ASSUME TypeOK, NEW here \in MainPc, NEW place \in MainPc, Move("main", here, place),
           here \notin CallPc, here \notin Early \/ place \in Early, place \notin Before \/ here \in Before,
           place \notin OpenPc \/ here \in OpenPc, place # "clearFlag"
    PROVE  OnTheWay
BY DEF Move, Goto, TypeOK, OnTheWay, Threads

\* A transition of the main thread.
LEMMA TransitionOnTheWay ==
    ASSUME TypeOK, NEW here, NEW from, NEW next \in SessionState,
           NEW yes \in MainPc \ OpenPc, NEW no \in MainPc \ OpenPc,
           Transition("main", here, from, next, yes, no),
           here \notin CallPc, here \notin Early \/ (yes \in Early /\ no \in Early),
           yes \notin Before \/ here \in Before, no \notin Before \/ here \in Before,
           yes # "clearFlag", no # "clearFlag",
           next # "established" \/ here \in {"toEstablished", "establish"}
    PROVE  OnTheWay
<1> USE DEF Threads
<1>1. CASE UNCHANGED <<pc, session>>
    BY <1>1 DEF Transition, OnTheWay
<1>2. ASSUME session' = Store(session, next), Goto("main", yes) PROVE OnTheWay
    <2>1. pc'["main"] = yes /\ pc["main"] = here /\ app' = app
        BY <1>2 DEF Transition, Goto, TypeOK
    <2>2. session'.state = next
        BY <1>2, StoreType DEF TypeOK
    <2> QED
        BY <2>1, <2>2 DEF OnTheWay
<1>3. ASSUME session' = session, Goto("main", no) PROVE OnTheWay
    <2>1. pc'["main"] = no /\ pc["main"] = here /\ app' = app
        BY <1>3 DEF Transition, Goto, TypeOK
    <2> QED
        BY <1>3, <2>1 DEF OnTheWay
<1> QED
    BY <1>1, <1>2, <1>3 DEF Transition

\* The steps that leave the transport alone.
LEMMA LocalOnTheWay ==
    ASSUME TypeOK, LocalStep \/ Deadline \/ ReadPacket
    PROVE  TypeOK' /\ OnTheWay /\ UNCHANGED transportVars
<1> USE DEF MainPc, StartPc, LoopPc, StopPc, CallPc, OpenPc, Early, Before
<1>0. TypeOK /\ UNCHANGED transportVars
    BY DEF LocalStep, Deadline, ReadPacket
<1>1. [Next]_engineVars
    BY DEF LocalStep, Deadline, ReadPacket, Next, MainNext, StartNext, LoopNext
<1>2. TypeOK'
    BY <1>0, <1>1, NextType
<1>3. OnTheWay
    <2>0. CASE StartBuffers
        <3>1. pc["main"] \in Before \ {"connect"} /\ pc'["main"] \in Before /\ UNCHANGED <<app, session>>
            BY <1>0, <2>0, StartBuffersStep DEF Goto, TypeOK, Threads
        <3> QED
            BY <3>1 DEF OnTheWay
    <2>1a. ASSUME NEW ok \in BOOLEAN, StartBegin(ok) PROVE OnTheWay
        BY <1>0, <2>1a, MoveOnTheWay DEF StartBegin
    <2>1. ASSUME NEW ok \in BOOLEAN, StartOpen(ok) \/ StartRouting(ok) PROVE OnTheWay
        BY <1>0, <2>1 DEF StartOpen, StartRouting, Goto, TypeOK, Threads, OnTheWay
    <2>2. ASSUME NEW ok \in BOOLEAN, Started(ok) PROVE OnTheWay
        BY <1>0, <2>2, MoveOnTheWay DEF Started
    <2>3. CASE StartClearFlag
        BY <1>0, <2>3 DEF StartClearFlag, Goto, TypeOK, Threads, OnTheWay
    <2>4. CASE StartConnecting
        BY <1>0, <2>4, TransitionOnTheWay DEF StartConnecting, SessionState
    <2>4b. CASE StartHandshaking
        BY <1>0, <2>4b, TransitionOnTheWay DEF StartHandshaking, SessionState
    <2>5. CASE StartEstablished \/ EnsureEstablish
        BY <1>0, <2>5, TransitionOnTheWay DEF StartEstablished, EnsureEstablish, SessionState
    <2>6. CASE StartFailed \/ ClientFailed
        BY <1>0, <2>6, TransitionOnTheWay DEF StartFailed, ClientFailed, SessionState
    <2>7. CASE ResetSession
        <3>1. CASE Transition("main", "reset1", {"established"}, "closing", "reset2", "reset2")
            BY <1>0, <3>1, TransitionOnTheWay DEF SessionState
        <3>2. CASE Transition("main", "reset2", {"closing", "failed"}, "stopped", "reset3", "reset3")
            BY <1>0, <3>2, TransitionOnTheWay DEF SessionState
        <3>3. CASE Transition("main", "reset3", {"stopped"}, "connecting", "reset4", "reset4")
            BY <1>0, <3>3, TransitionOnTheWay DEF SessionState
        <3>4. CASE Transition("main", "reset4", {"connecting"}, "handshaking", "loop", "loop")
            BY <1>0, <3>4, TransitionOnTheWay DEF SessionState
        <3> QED
            BY <2>7, <3>1, <3>2, <3>3, <3>4 DEF ResetSession
    <2>8. CASE LoopHead \/ LoopDeadline \/ LoopCheck \/ EnsureRouting
        BY <1>0, <2>8, MoveOnTheWay DEF LoopHead, LoopDeadline, LoopCheck, EnsureRouting
    <2>9. CASE EnsureBegin
        BY <1>0, <2>9, MoveOnTheWay DEF EnsureBegin
    <2>10. CASE LoopRecheck \/ RelayBegin \/ RelayFailed
        BY <1>0, <2>10, MoveOnTheWay DEF LoopRecheck, RelayBegin, RelayFailed
    <2>11. ASSUME NEW packet, RelayOutbound(packet) PROVE OnTheWay
        BY <1>0, <2>11, MoveOnTheWay DEF RelayOutbound
    <2> QED
        BY <2>0, <2>1a, <2>1, <2>2, <2>3, <2>4, <2>5, <2>6, <2>7, <2>8, <2>9, <2>10, <2>11, <2>4b
        DEF LocalStep, Deadline, ReadPacket
<1> QED
    BY <1>0, <1>2, <1>3

\* They are quiet.
LEMMA LocalStepQuiet ==
    ASSUME TunnelInv, LocalStep \/ Deadline \/ ReadPacket
    PROVE  Quiet
BY LocalOnTheWay, AloneQuiet DEF TunnelInv

\* A batch of received frames.
LEMMA ReadFramesOnTheWay ==
    ASSUME TypeOK, chan \in Channels, ReadFrames
    PROVE  /\ TypeOK' /\ OnTheWay /\ pc["main"] \notin Early
           /\ UNCHANGED <<lifeVars, connection, hs, dataChannelOpen, call, ret, quicVars>>
           /\ chan' \in Channels
           /\ chan'.stream = chan.stream /\ chan'.ready = chan.ready
           /\ chan'.sendComplete = chan.sendComplete
<1> USE DEF MainPc, StartPc, LoopPc, StopPc, CallPc, OpenPc, Early, Before
<1>1. PICK n \in 0..MaxFrames : RelayInbound /\ TryReceive(n)
    BY DEF ReadFrames
<1>2. TypeOK /\ TypeOK'
    BY <1>1, NextType DEF Next, MainNext, LoopNext
<1>3. OnTheWay
    BY <1>1, <1>2, MoveOnTheWay DEF RelayInbound
<1>4. pc["main"] = "inbound" /\ pc'["main"] = "loop"
    BY <1>1, <1>2 DEF RelayInbound, Move, Goto, TypeOK, Threads
<1>5. UNCHANGED <<lifeVars, connection, hs, dataChannelOpen, call, ret, quicVars>>
    BY <1>1 DEF TryReceive
<1>6. chan \in Channels
    OBVIOUS
<1> DEFINE f == SubSeq(chan.frames, n + 1, Len(chan.frames))
<1>7. f \in Seq(Conns)
    <2>1. chan.frames \in Seq(Conns) /\ n + 1 \in 1..Len(chan.frames) + 1
        BY <1>1, <1>6, LenProperties, TransportAssumption DEF TryReceive, Channels
    <2> QED
        BY <2>1, SubSeqProperties
<1>8. chan' = [chan EXCEPT !.frames = f]
    BY <1>1 DEF TryReceive
<1> HIDE DEF f
<1>9. /\ chan' \in Channels
      /\ chan'.stream = chan.stream /\ chan'.ready = chan.ready
      /\ chan'.sendComplete = chan.sendComplete
    BY <1>6, <1>7, <1>8 DEF Channels
<1> QED
    BY <1>2, <1>3, <1>4, <1>5, <1>9

\* It is quiet.
LEMMA ReadFramesQuiet ==
    ASSUME TunnelInv, ReadFrames
    PROVE  Quiet
<1>1. TypeOK /\ chan \in Channels
    BY DEF TunnelInv, TransportTypeOK, Channels
<1>2. UNCHANGED <<lifeVars, connection, hs, dataChannelOpen, call, ret, quicVars>>
    BY <1>1, ReadFramesOnTheWay
<1>3. Harmless
    BY <1>2 DEF Harmless, TunnelInv, TransportTypeOK, Pristine, Busy, quicVars
<1> QED
    BY <1>1, <1>3, ReadFramesOnTheWay DEF Quiet

\* reset_server_session()'s call of the transport.
LEMMA ResetQuiet ==
    ASSUME TunnelInv, Reset
    PROVE  Quiet
<1>1. TypeOK /\ TypeOK'
    BY NextType DEF TunnelInv, Reset, Next, MainNext, LoopNext
<1>2. pc["main"] = "reset" /\ pc'["main"] = "reset1" /\ OnTheWay
    BY <1>1 DEF Reset, ResetTransport, Goto, TypeOK, Threads, OnTheWay, CallPc, OpenPc, Early, Before
<1>3. Harmless /\ UNCHANGED chan
    BY <1>2, ResetHarmless DEF Reset
<1> QED
    BY <1>1, <1>2, <1>3 DEF Quiet

\* stop(), in either thread.
LEMMA StopOnTheWay ==
    ASSUME TypeOK, NEW t \in Threads, StopStep(t)
    PROVE  TypeOK' /\ OnTheWay
<1>0. TypeOK /\ Stop(t) /\ "main" \in Threads
    BY DEF StopStep, Stop, Threads
<1>1. TypeOK'
    BY <1>0, StopType
<1>2. /\ pc[t] \in StopPc /\ pc'[t] \in StopPc \cup {"stopped"}
      /\ \A u \in Threads : u # t => pc'[u] = pc[u]
      /\ app' = app
    BY <1>0, StopPlaces
<1>3. session'.state = "established" => session.state = "established"
    BY <1>0, StopSession
<1>4. OnTheWay
    BY <1>0, <1>2, <1>3 DEF OnTheWay, CallPc, OpenPc, Early, Before, StopPc
<1> QED
    BY <1>1, <1>4

\* It is quiet.
LEMMA StopStepQuiet ==
    ASSUME TunnelInv, NEW t \in Threads, StopStep(t)
    PROVE  Quiet
<1>1. TypeOK' /\ OnTheWay
    BY StopOnTheWay DEF TunnelInv
<1>2. CASE UNCHANGED transportVars
    BY <1>1, <1>2, AloneQuiet
<1>3. CASE CloseEnd(t)
    BY <1>1, <1>3, CloseHarmless DEF Quiet, Threads, Callers
<1> QED
    BY <1>2, <1>3 DEF StopStep

\* The destructors.
LEMMA ExitQuiet ==
    ASSUME TunnelInv, Exit
    PROVE  Quiet
<1>1. TypeOK /\ TypeOK'
    BY NextType DEF TunnelInv, Exit, Next, MainNext
<1>2. OnTheWay
    BY <1>1 DEF Exit, Destroy, Goto, TypeOK, Threads, OnTheWay, CallPc, OpenPc, Early, Before
<1>3. Harmless /\ UNCHANGED chan
    BY CloseHarmless DEF Exit, Callers
<1> QED
    BY <1>1, <1>2, <1>3 DEF Quiet

\* The steps of close() itself.
LEMMA CloseQuiet ==
    ASSUME TunnelInv, NEW t \in Threads, CloseCall(t)
    PROVE  Quiet
<1>1. UNCHANGED engineVars /\ (CloseTest(t) \/ CloseStep(t))
    BY DEF CloseCall
<1>2. TypeOK' /\ OnTheWay
    BY <1>1 DEF engineVars, TunnelInv, TypeOK, OnTheWay
<1> QED
    BY <1>1, <1>2, CloseHarmless DEF Quiet, Threads, Callers

\* The handler's first steps.
LEMMA SignalQuiet ==
    ASSUME TunnelInv, Signal \/ RequestStop, UNCHANGED transportVars
    PROVE  Quiet
<1>1. TypeOK /\ TypeOK'
    BY NextType DEF TunnelInv, Next, HandlerNext
<1>2. pc'["main"] = pc["main"] /\ UNCHANGED <<app, session>>
    BY <1>1 DEF Signal, RequestStop, Move, Goto, TypeOK, Threads
<1>3. OnTheWay
    BY <1>2 DEF OnTheWay
<1> QED
    BY <1>1, <1>3, AloneQuiet

\* The engine's own steps.
OwnStep ==
    \/ LocalStep \/ Deadline \/ ReadPacket \/ ReadFrames \/ Reset \/ Exit
    \/ \E t \in Threads : CloseCall(t) \/ StopStep(t)
    \/ (Signal \/ RequestStop) /\ UNCHANGED <<transportVars, packets>>

\* They are all quiet.
LEMMA OwnStepQuiet == ASSUME TunnelInv, OwnStep PROVE Quiet
BY LocalStepQuiet, ReadFramesQuiet, ResetQuiet, ExitQuiet, StopStepQuiet, CloseQuiet, SignalQuiet DEF OwnStep

\* With the calls and the callbacks they are all steps of the program.
LEMMA TunnelSteps ==
    ASSUME TunnelNext, race' = "none"
    PROVE  BeginCall \/ InCall \/ EndCall \/ OwnStep \/ QuicStep
BY DEF TunnelNext, MainStep, HandlerStep, OwnStep, Threads, Misuse, Undefined

-----------------------------------------------------------------------------
(* The result of a call. *)

\* The engine goes on with the result of a call: it enters the way to an
\* established session only with the channel open.
LEMMA EndCallInv ==
    ASSUME TunnelInv, EndCall
    PROVE  TunnelInv'
<1> USE DEF CallPc, OpenPc
<1>0. PICK ok \in BOOLEAN :
        /\ Take(ok)
        /\ \/ StartConnect(ok) \/ StartPerform(ok) \/ StartChannel(ok)
           \/ OpenChannel(ok) \/ RelaySend(ok)
    BY DEF EndCall
<1>1. /\ closed /\ (\A t \in Callers : ~Busy(t))
      /\ call = "returned" /\ ret = ok /\ call' = "idle"
      /\ UNCHANGED <<lifeVars, connection, hs, chan, dataChannelOpen, ret, quicVars>>
    BY <1>0, CallAlone DEF Take
<1>2. TypeOK
    BY DEF TunnelInv
<1>3. TypeOK'
    <2>1. CASE StartConnect(ok) \/ StartPerform(ok)
        BY <1>2, <2>1, StartType DEF StartNext
    <2>2. CASE RelaySend(ok)
        BY <1>2, <2>2, LoopType DEF LoopNext
    <2>3. CASE StartChannel(ok) \/ OpenChannel(ok)
        BY <1>2, <2>3 DEF StartChannel, OpenChannel, Goto, TypeOK, Threads, MainPc, StartPc, LoopPc
    <2> QED
        BY <1>0, <2>1, <2>2, <2>3
<1>4. /\ UNCHANGED <<app, session>>
      /\ pc'["main"] \in OpenPc => ok /\ pc["main"] \in {"startChannel", "openChannel"}
      /\ pc'["main"] = "clearFlag" => IsServer
      /\ pc'["main"] \notin Before
    BY <1>0, <1>2 DEF StartConnect, StartPerform, RelaySend, StartChannel, OpenChannel, Move, Goto,
                      TypeOK, Threads, Before
<1>5. TransportTypeOK'
    BY <1>1 DEF TunnelInv, TransportTypeOK, quicVars
<1>6. SendSlot' /\ StreamReady' /\ CallAt' /\ Pristine'
    BY <1>1, <1>4 DEF TunnelInv, SendSlot, StreamReady, CallAt, ConnectCalls, Pristine, Busy, quicVars
<1>7. ChannelOpen'
    BY <1>1, <1>4 DEF TunnelInv, ChannelOpen, CallAt, IsServer
<1> QED
    BY <1>1, <1>3, <1>5, <1>6, <1>7 DEF TunnelInv

-----------------------------------------------------------------------------
(* The theorems. *)

\* A race is never forgotten.
LEMMA RaceKept == ASSUME [TunnelNext]_tunnelVars, race' = "none" PROVE race = "none"
<1>1. CASE BeginCall \/ InCall \/ EndCall
    BY <1>1 DEF BeginCall, ConnectBegin, PerformHandshake, OpenDataChannel, SendPayload, InCall, Proceed,
           EnsureApiOpen, OpenRegistration, LoadConfiguration, Open, NewContexts, StartOpenFailed,
           StartListener, OpenConnection, HandshakeWait, StreamWait, SendWait, WaitTimeout, StreamSend,
           EndCall, Take
<1>2. ASSUME NEW t \in Threads, CloseCall(t) \/ CloseEnd(t) PROVE race' = race
    BY <1>2 DEF CloseCall, CloseTest, CloseEnd, CloseStep, CloseSet, CloseChannel, CloseDetach, CloseStream,
           CloseConnection, CloseHandle, CloseDelete, CloseRelease
<1>3. CASE QuicStep
    BY <1>3 DEF QuicStep, Callback, NewConnection, Connected, OpenClientStream, PeerStreamStarted, Receive,
           SendComplete, ShutdownByTransport, ShutdownByPeer, ShutdownComplete, objectVars
<1>4. CASE UNCHANGED transportVars \/ ResetForNextClient \/ ReadFrames
    BY <1>4 DEF transportVars, objectVars, ResetForNextClient, ReadFrames, TryReceive
<1> QED
    BY <1>1, <1>2, <1>3, <1>4, TunnelSteps
    DEF OwnStep, LocalStep, Deadline, ReadPacket, Reset, Exit, StopStep, Threads, tunnelVars

\* The invariant holds until a close() overlaps connect().
THEOREM TunnelInvariance == TunnelSpec => [](race = "none" => TunnelInv)
<1>1. (race = "none" => TunnelInv) /\ [TunnelNext]_tunnelVars => (race = "none" => TunnelInv)'
    <2> SUFFICES ASSUME race = "none" => TunnelInv, [TunnelNext]_tunnelVars, race' = "none"
                 PROVE  TunnelInv'
        OBVIOUS
    <2>0. TunnelInv
        BY RaceKept
    <2>1. CASE BeginCall \/ InCall \/ EndCall
        BY <2>0, <2>1, BeginCallInv, InCallInv, EndCallInv
    <2>2. CASE OwnStep
        BY <2>0, <2>2, OwnStepQuiet, QuietInv
    <2>4. CASE QuicStep
        BY <2>0, <2>4, CallbackInv DEF QuicStep
    <2>5. CASE UNCHANGED tunnelVars
        BY <2>0, <2>5 DEF tunnelVars, engineVars, transportVars, objectVars, quicVars, TunnelInv, TypeOK,
               TransportTypeOK, Pristine, Busy, Blank, SendSlot, StreamReady, CallAt, ChannelOpen, IsServer
    <2> QED
        BY <2>1, <2>2, <2>4, <2>5, TunnelSteps
<1> QED
    BY TunnelInitInv, <1>1, PTL DEF TunnelSpec

\* An open data channel has the stream of a connection that was CONNECTED, as long
\* as no close() of the handler has overlapped connect().
THEOREM OpenChannelIsConnected == TunnelSpec => []OpenChannelHasStream
<1>1. (race = "none" => TunnelInv) => OpenChannelHasStream
    BY DEF TunnelInv, StreamReady, OpenChannelHasStream
<1> QED
    BY TunnelInvariance, <1>1, PTL

\* A session that may send has an open data channel, whatever the callbacks and
\* stop() in the handler do in between - unless its close() has passed the test of
\* closed_ before connect() set it, and runs on beside connect().
THEOREM EstablishedIsOpen == TunnelSpec => []EstablishedHasChannel
<1>1. (race = "none" => TunnelInv) => EstablishedHasChannel
    BY DEF TunnelInv, ChannelOpen, EstablishedHasChannel, CanSendData
<1> QED
    BY TunnelInvariance, <1>1, PTL

-----------------------------------------------------------------------------
(* One send at a time, whatever overlaps. *)

\* The part of the invariant that no race breaks: nothing is in flight before
\* connect() has returned, and closed_ is set from then on, so that no later call
\* makes the channel fresh.
SlotInv ==
    /\ TypeOK /\ chan \in Channels /\ inFlight \in [Conns -> Nat] /\ closing \in [Callers -> ClosePc]
    /\ SendSlot
    /\ \A t \in Callers : closing[t] \notin {"out", "set"} => closed
    /\ pc["main"] \notin Early \/ call # "idle" => closed
    /\ pc["main"] \in Before => \A c \in Conns : inFlight[c] = 0
    /\ call # "idle" => pc["main"] \in CallPc
    /\ call \in ConnectCalls => pc["main"] = "connect"
    /\ call \in {"sendWait", "sendDone"} => pc["main"] = "send"

\* A step that sends nothing.
LEMMA SlotFrame ==
    ASSUME SlotInv, TypeOK', OnTheWay, call' = call, closed => closed',
           closing' \in [Callers -> ClosePc], \A t \in Callers : closing'[t] \notin {"out", "set"} => closed',
           chan' \in Channels, chan'.sendComplete = chan.sendComplete, inFlight' \in [Conns -> Nat],
           \A c \in Conns : inFlight'[c] \in {inFlight[c], 0}
    PROVE  SlotInv'
<1>1. SendSlot'
    BY DEF SlotInv, SendSlot
<1>2. /\ pc'["main"] \notin Early \/ call' # "idle" => closed'
      /\ call' # "idle" => pc'["main"] = pc["main"]
    BY DEF SlotInv, OnTheWay
<1>3. pc'["main"] \in Before => \A c \in Conns : inFlight'[c] = 0
    BY DEF SlotInv, OnTheWay
<1>4. /\ call' # "idle" => pc'["main"] \in CallPc
      /\ call' \in ConnectCalls => pc'["main"] = "connect"
      /\ call' \in {"sendWait", "sendDone"} => pc'["main"] = "send"
    BY <1>2 DEF SlotInv, ConnectCalls
<1> QED
    BY <1>1, <1>2, <1>3, <1>4 DEF SlotInv

\* close(), in either thread.
LEMMA CloseSlot ==
    ASSUME SlotInv, NEW t \in Threads, CloseTest(t) \/ CloseStep(t) \/ CloseEnd(t), TypeOK', OnTheWay
    PROVE  SlotInv'
<1> USE TransportAssumption
<1>0. t \in Callers /\ chan \in Channels /\ inFlight \in [Conns -> Nat] /\ closing \in [Callers -> ClosePc]
      /\ \A u \in Callers : closing[u] \notin {"out", "set"} => closed
    BY DEF SlotInv, Threads, Callers
<1>1. /\ (closed => closed') /\ call' = call
      /\ \E next \in ClosePc : /\ closing' = [closing EXCEPT ![t] = next]
                               /\ next \in {"out", "set"} \/ closed'
    BY <1>0 DEF CloseTest, CloseEnd, CloseStep, CloseSet, CloseChannel, CloseDetach, CloseStream,
           CloseConnection, CloseHandle, CloseDelete, CloseRelease, Closing, ClosePc
<1>2. closing' \in [Callers -> ClosePc] /\ \A u \in Callers : closing'[u] \notin {"out", "set"} => closed'
    BY <1>0, <1>1
<1>3. /\ chan' \in Channels /\ chan'.sendComplete = chan.sendComplete
      /\ inFlight' \in [Conns -> Nat] /\ \A c \in Conns : inFlight'[c] \in {inFlight[c], 0}
    <2>1. CASE CloseStream(t)
        BY <1>0, <2>1 DEF CloseStream, Channels
    <2>2. CASE ~CloseStream(t)
        <3>1. UNCHANGED <<chan, inFlight>>
            BY <2>2 DEF CloseTest, CloseEnd, CloseStep, CloseSet, CloseChannel, CloseDetach,
                   CloseConnection, CloseHandle, CloseDelete, CloseRelease, quicVars
        <3> QED
            BY <1>0, <3>1
    <2> QED
        BY <2>1, <2>2
<1> QED
    BY <1>1, <1>2, <1>3, SlotFrame

\* The engine's own steps.
LEMMA OwnSlot == ASSUME SlotInv, OwnStep PROVE SlotInv'
<1>0. TypeOK /\ chan \in Channels
    BY DEF SlotInv
<1>1. ASSUME TypeOK', OnTheWay, UNCHANGED <<closed, closing, call, inFlight>>,
             chan' \in Channels, chan'.sendComplete = chan.sendComplete
      PROVE  SlotInv'
    BY <1>1, SlotFrame DEF SlotInv
<1>2. CASE LocalStep \/ Deadline \/ ReadPacket
    BY <1>0, <1>1, <1>2, LocalOnTheWay DEF transportVars, objectVars, quicVars
<1>3. CASE ReadFrames
    BY <1>0, <1>1, <1>3, ReadFramesOnTheWay DEF quicVars
<1>4. CASE Reset
    <2>1. TypeOK' /\ OnTheWay /\ pc["main"] \notin Early
        BY <1>0, <1>4, NextType DEF Reset, ResetTransport, Next, MainNext, LoopNext, Goto, TypeOK, Threads,
               OnTheWay, CallPc, OpenPc, Early, Before
    <2>2. closed
        BY <2>1 DEF SlotInv
    <2> QED
        BY <1>0, <1>1, <1>4, <2>1, <2>2 DEF Reset, ResetForNextClient, quicVars
<1>5. CASE Exit
    <2>1. TypeOK' /\ OnTheWay
        BY <1>0, <1>5, NextType DEF Exit, Destroy, Next, MainNext, Goto, TypeOK, Threads, OnTheWay, CallPc,
               OpenPc, Early, Before
    <2> QED
        BY <1>5, <2>1, CloseSlot DEF Exit, Threads
<1>6. ASSUME NEW t \in Threads, CloseCall(t) PROVE SlotInv'
    <2>1. UNCHANGED engineVars /\ (CloseTest(t) \/ CloseStep(t))
        BY <1>6 DEF CloseCall
    <2>2. TypeOK' /\ OnTheWay
        BY <1>0, <2>1 DEF engineVars, TypeOK, OnTheWay
    <2> QED
        BY <2>1, <2>2, CloseSlot
<1>7. ASSUME NEW t \in Threads, StopStep(t) PROVE SlotInv'
    <2>1. TypeOK' /\ OnTheWay
        BY <1>0, <1>7, StopOnTheWay
    <2>2. CASE CloseEnd(t)
        BY <2>1, <2>2, CloseSlot
    <2>3. CASE UNCHANGED transportVars
        BY <1>0, <1>1, <2>1, <2>3 DEF transportVars, objectVars, quicVars
    <2> QED
        BY <1>7, <2>2, <2>3 DEF StopStep
<1>8. CASE (Signal \/ RequestStop) /\ UNCHANGED <<transportVars, packets>>
    <2>1. TypeOK'
        BY <1>0, <1>8, NextType DEF Next, HandlerNext
    <2>2. OnTheWay
        BY <1>0, <1>8 DEF Signal, RequestStop, Move, Goto, TypeOK, Threads, OnTheWay
    <2> QED
        BY <1>0, <1>1, <1>8, <2>1, <2>2 DEF transportVars, objectVars, quicVars
<1> QED
    BY <1>2, <1>3, <1>4, <1>5, <1>6, <1>7, <1>8 DEF OwnStep

\* The calls: only the send adds a buffer, and it waits for the earlier one.
LEMMA CallSlot == ASSUME SlotInv, BeginCall \/ InCall \/ EndCall PROVE SlotInv'
<1>0. TypeOK /\ chan \in Channels /\ inFlight \in [Conns -> Nat] /\ closing \in [Callers -> ClosePc]
    BY DEF SlotInv
<1>1. CASE BeginCall
    <2>0. UNCHANGED engineVars /\ UNCHANGED pc /\ TypeOK'
        BY <1>0, <1>1 DEF BeginCall, engineVars, TypeOK
    <2>1. CASE pc["main"] = "connect" /\ ConnectBegin(EngineRole)
        <3>1. closed /\ closing' = [closing EXCEPT !["main"] = "out"] /\ call' = "openApi"
              /\ UNCHANGED <<closed, chan, inFlight>>
            BY <2>1 DEF ConnectBegin, Closing, SlotInv, Callers, quicVars
        <3>2. closing' \in [Callers -> ClosePc] /\ closed'
            BY <1>0, <3>1 DEF ClosePc
        <3> QED
            BY <2>0, <2>1, <3>1, <3>2 DEF SlotInv, SendSlot, CallPc, ConnectCalls
    <2>2. CASE \/ pc["main"] = "perform" /\ \E ok \in BOOLEAN : PerformHandshake(ok)
               \/ pc["main"] \in {"startChannel", "openChannel"} /\ OpenDataChannel
               \/ pc["main"] = "send" /\ SendPayload
        <3>1. /\ UNCHANGED <<closed, closing, chan, inFlight>>
              /\ pc["main"] \in CallPc \ {"connect"}
              /\ call' \notin ConnectCalls
              /\ call' \in {"sendWait", "sendDone"} => pc["main"] = "send"
            BY <2>2 DEF PerformHandshake, OpenDataChannel, SendPayload, Return, quicVars, CallPc, ConnectCalls
        <3> QED
            BY <2>0, <3>1 DEF SlotInv, SendSlot, CallPc, Early, Before
    <2> QED
        BY <1>1, <2>1, <2>2 DEF BeginCall
<1>2. CASE InCall
    <2>0. UNCHANGED engineVars /\ UNCHANGED pc /\ TypeOK' /\ Proceed
        BY <1>0, <1>2 DEF InCall, engineVars, TypeOK
    <2>1. CASE NewContexts
        <3>1. pc["main"] = "connect" /\ \A c \in Conns : inFlight[c] = 0
            BY <2>1 DEF NewContexts, SlotInv, ConnectCalls, Before
        <3>2. chan' \in Channels
            BY <2>1 DEF NewContexts, FreshChannel, Channels
        <3>3. UNCHANGED <<closed, closing, inFlight>> /\ call = "newContexts" /\ call' = "startOpen"
            BY <2>1 DEF NewContexts, quicVars
        <3> QED
            BY <2>0, <3>1, <3>2, <3>3 DEF SlotInv, SendSlot, CallPc, ConnectCalls
    <2>2. ASSUME NEW ok \in BOOLEAN, StreamSend(ok) PROVE SlotInv'
        <3>0. call = "sendWait" /\ pc["main"] = "send" /\ UNCHANGED <<closed, closing>>
              /\ call' \in {"sendDone", "returned"}
            BY <2>2 DEF StreamSend, SlotInv, Return
        <3>1. CASE ok
            <4>1. chan.stream \in Conns /\ chan.sendComplete
                BY <1>0, <2>2 DEF StreamSend, Channels
            <4>2. \A c \in Conns : inFlight[c] = 0
                BY <4>1 DEF SlotInv, SendSlot
            <4>3. chan' \in Channels /\ chan'.sendComplete = FALSE
                BY <1>0, <2>2, <3>1 DEF StreamSend, Channels
            <4>4. inFlight' = [inFlight EXCEPT ![chan.stream] = 1]
                BY <1>0, <2>2, <3>1, <4>1, <4>2 DEF StreamSend
            <4>5. inFlight' \in [Conns -> Nat] /\ SendSlot'
                BY <1>0, <4>1, <4>2, <4>3, <4>4 DEF SendSlot
            <4> QED
                BY <2>0, <3>0, <4>3, <4>5 DEF SlotInv, CallPc, ConnectCalls, Before
        <3>2. CASE ~ok
            <4>1. UNCHANGED <<chan, inFlight>>
                BY <2>2, <3>2 DEF StreamSend
            <4> QED
                BY <2>0, <3>0, <4>1 DEF SlotInv, SendSlot, CallPc, ConnectCalls
        <3> QED
            BY <3>1, <3>2
    <2>3. CASE ~NewContexts /\ ~\E ok \in BOOLEAN : StreamSend(ok)
        <3>1. /\ UNCHANGED <<closed, closing, chan, inFlight>> /\ call # "idle"
              /\ call' \in {"sendWait", "sendDone"} => call \in {"sendWait", "sendDone"}
              /\ call' \in ConnectCalls => call \in ConnectCalls
            BY <2>0, <2>3 DEF Proceed, EnsureApiOpen, OpenRegistration, LoadConfiguration, Open, Return,
                   StartOpenFailed, StartListener, OpenConnection, HandshakeWait, StreamWait, SendWait,
                   WaitTimeout, quicVars, ConnectCalls, WaitCalls
        <3> QED
            BY <2>0, <3>1 DEF SlotInv, SendSlot
    <2> QED
        BY <2>1, <2>2, <2>3
<1>3. CASE EndCall
    <2>1. PICK ok \in BOOLEAN :
            /\ Take(ok)
            /\ \/ StartConnect(ok) \/ StartPerform(ok) \/ StartChannel(ok)
               \/ OpenChannel(ok) \/ RelaySend(ok)
        BY <1>3 DEF EndCall
    <2>2. TypeOK' /\ pc'["main"] \notin Before
        <3>1. CASE StartConnect(ok) \/ StartPerform(ok)
            BY <1>0, <3>1, StartType DEF StartNext, StartConnect, StartPerform, Move, Goto, TypeOK, Threads, Before
        <3>2. CASE RelaySend(ok)
            BY <1>0, <3>2, LoopType DEF LoopNext, RelaySend, Move, Goto, TypeOK, Threads, Before
        <3>3. CASE StartChannel(ok) \/ OpenChannel(ok)
            BY <1>0, <3>3 DEF StartChannel, OpenChannel, Goto, TypeOK, Threads, MainPc, StartPc, LoopPc, Before
        <3> QED
            BY <2>1, <3>1, <3>2, <3>3
    <2>3. call # "idle" /\ call' = "idle" /\ UNCHANGED <<closed, closing, chan, inFlight>>
        BY <2>1 DEF Take, quicVars
    <2> QED
        BY <2>2, <2>3 DEF SlotInv, SendSlot, ConnectCalls
<1> QED
    BY <1>1, <1>2, <1>3

\* MsQuic's callbacks.
LEMMA CallbackSlot == ASSUME SlotInv, QuicStep PROVE SlotInv'
<1>0. /\ TypeOK /\ chan \in Channels /\ inFlight \in [Conns -> Nat] /\ UNCHANGED engineVars
      /\ SendSlot
    BY DEF SlotInv, QuicStep
<1>1. PICK c \in Conns :
        \/ NewConnection(c) \/ Connected(c) \/ \E ok \in BOOLEAN : OpenClientStream(c, ok)
        \/ PeerStreamStarted(c) \/ Receive(c) \/ SendComplete(c)
        \/ ShutdownByTransport(c) \/ ShutdownByPeer(c) \/ ShutdownComplete(c)
    BY DEF QuicStep, Callback
<1>2. UNCHANGED <<closed, closing, call, pc>>
    BY <1>0, <1>1 DEF NewConnection, Connected, OpenClientStream, PeerStreamStarted, Receive, SendComplete,
           ShutdownByTransport, ShutdownByPeer, ShutdownComplete, objectVars, engineVars
<1>3. /\ chan' \in Channels /\ inFlight' \in [Conns -> Nat] /\ SendSlot'
      /\ \A d \in Conns : inFlight[d] = 0 => inFlight'[d] = 0
    <2>1. CASE SendComplete(c)
        <3>1. inFlight[c] = 1 /\ \A d \in Conns : d # c => inFlight[d] = 0
            BY <1>0, <2>1 DEF SendComplete, SendSlot
        <3>2. chan' \in Channels
            BY <1>0, <2>1, ChannelTypes DEF SendComplete
        <3>3. inFlight' = [inFlight EXCEPT ![c] = 0]
            BY <1>0, <2>1, <3>1 DEF SendComplete
        <3> QED
            BY <1>0, <3>1, <3>2, <3>3 DEF SendSlot
    <2>2. CASE ~SendComplete(c)
        <3>1. inFlight' = inFlight /\ chan' \in Channels /\ chan'.sendComplete = chan.sendComplete
            <4>1. CASE Receive(c)
                <5>1. chan' \in Channels
                    BY <1>0, <4>1, ChannelTypes DEF Receive
                <5>2. chan'.sendComplete = chan.sendComplete
                    BY <1>0, <4>1 DEF Receive, Channels
                <5> QED
                    BY <4>1, <5>1, <5>2 DEF Receive, quicVars
            <4>2. CASE ~Receive(c)
                <5>1. inFlight' = inFlight /\ (chan' = chan \/ AttachStream(c))
                    BY <1>1, <2>2, <4>2 DEF NewConnection, Connected, OpenClientStream, PeerStreamStarted,
                           ShutdownByTransport, ShutdownByPeer, ShutdownComplete, objectVars, quicVars
                <5>2. CASE chan' = chan
                    BY <1>0, <5>1, <5>2
                <5>3. CASE AttachStream(c)
                    <6>1. chan' \in Channels
                        BY <1>0, <5>3, ChannelTypes DEF AttachStream
                    <6>2. chan'.sendComplete = chan.sendComplete
                        BY <1>0, <5>3 DEF AttachStream, Channels
                    <6> QED
                        BY <5>1, <6>1, <6>2
                <5> QED
                    BY <5>1, <5>2, <5>3
            <4> QED
                BY <4>1, <4>2
        <3> QED
            BY <1>0, <3>1 DEF SendSlot
    <2> QED
        BY <2>1, <2>2
<1>4. TypeOK'
    BY <1>0 DEF TypeOK, engineVars
<1> QED
    BY <1>2, <1>3, <1>4 DEF SlotInv

\* A client's or server's send_complete tells the truth in every behaviour, also when
\* the handler's close() overlaps connect() and takes the stream away: MsQuic never
\* holds two buffers of this object, through timeouts of sends, late completions and
\* the streams of later clients.
THEOREM OneSendAtATime == TunnelSpec => []SendSlot
<1>1. TunnelInit => SlotInv
    <2> SUFFICES ASSUME TunnelInit PROVE SlotInv
        OBVIOUS
    <2>1. TypeOK /\ pc["main"] = "start"
        BY InitType, TransportAssumption DEF TunnelInit, Init, Threads
    <2>2. chan \in Channels
        BY TransportAssumption DEF TunnelInit, TransportInit, FreshChannel, Channels
    <2> QED
        BY <2>1, <2>2 DEF TunnelInit, TransportInit, SlotInv, SendSlot, ClosePc, ConnectCalls, Early, Before
<1>2. SlotInv /\ [TunnelNext]_tunnelVars => SlotInv'
    <2> SUFFICES ASSUME SlotInv, [TunnelNext]_tunnelVars PROVE SlotInv'
        OBVIOUS
    <2>1. CASE BeginCall \/ InCall \/ EndCall
        BY <2>1, CallSlot
    <2>2. CASE OwnStep
        BY <2>2, OwnSlot
    <2>3. CASE QuicStep
        BY <2>3, CallbackSlot
    <2>4. CASE Misuse \/ UNCHANGED tunnelVars
        BY <2>4 DEF Misuse, Undefined, tunnelVars, transportVars, objectVars, quicVars, engineVars, SlotInv, TypeOK,
               SendSlot
    <2> QED
        BY <2>1, <2>2, <2>3, <2>4 DEF TunnelNext, MainStep, HandlerStep, OwnStep, Threads
<1>3. SlotInv => SendSlot
    BY DEF SlotInv
<1> QED
    BY <1>1, <1>2, <1>3, PTL DEF TunnelSpec

-----------------------------------------------------------------------------
(* Nothing is taken back: the two findings about reset_for_next_client(). *)

\* What no step undoes.
Kept ==
    /\ closed => closed'
    /\ handles \subseteq handles'
    /\ dataChannelOpen => dataChannelOpen'
    /\ hs.connected => hs'.connected
    /\ hs.failed => hs'.failed
    /\ hs'.failed => hs.failed \/ ~hs.connected

\* MsQuic's callbacks.
LEMMA CallbackKept ==
    ASSUME TunnelInv, Callback
    PROVE  Kept /\ UNCHANGED <<lifeVars, call, ret, dataChannelOpen>>
<1>0. hs \in [connected : BOOLEAN, failed : BOOLEAN, shutdownComplete : BOOLEAN]
    BY DEF TunnelInv, TransportTypeOK
<1>1. PICK c \in Conns :
        \/ NewConnection(c) \/ Connected(c) \/ \E ok \in BOOLEAN : OpenClientStream(c, ok)
        \/ PeerStreamStarted(c) \/ Receive(c) \/ SendComplete(c)
        \/ ShutdownByTransport(c) \/ ShutdownByPeer(c) \/ ShutdownComplete(c)
    BY DEF Callback
<1>2. UNCHANGED <<lifeVars, call, ret, dataChannelOpen>>
    BY <1>1 DEF NewConnection, Connected, OpenClientStream, PeerStreamStarted, Receive, SendComplete,
           ShutdownByTransport, ShutdownByPeer, ShutdownComplete, objectVars
<1>3. /\ hs.connected => hs'.connected
      /\ hs.failed => hs'.failed
      /\ hs'.failed => hs.failed \/ ~hs.connected
    <2>1. CASE ShutdownByTransport(c)
        BY <1>0, <2>1 DEF ShutdownByTransport
    <2>2. CASE ShutdownComplete(c)
        BY <1>0, <2>2 DEF ShutdownComplete
    <2>3. CASE Connected(c)
        BY <1>0, <2>3 DEF Connected
    <2>4. CASE UNCHANGED hs
        BY <2>4
    <2> QED
        BY <1>1, <2>1, <2>2, <2>3, <2>4
        DEF NewConnection, OpenClientStream, PeerStreamStarted, Receive, SendComplete, ShutdownByPeer, objectVars
<1> QED
    BY <1>2, <1>3 DEF Kept

\* The engine's calls.
LEMMA CallKept ==
    ASSUME TunnelInv, BeginCall \/ InCall \/ EndCall
    PROVE  Kept /\ UNCHANGED hs
<1>1. CASE BeginCall
    <2>1. UNCHANGED <<hs, dataChannelOpen, closed, handles>>
        BY <1>1 DEF BeginCall, ConnectBegin, PerformHandshake, OpenDataChannel, SendPayload
    <2> QED
        BY <2>1 DEF Kept
<1>2. CASE InCall
    <2>1. CASE NewContexts
        <3>1. Blank
            BY <2>1 DEF NewContexts, TunnelInv, CallAt, Pristine, ConnectCalls, Before
        <3>2. UNCHANGED <<hs, dataChannelOpen, closed, handles>>
            BY <2>1, <3>1 DEF NewContexts, Blank
        <3> QED
            BY <3>2 DEF Kept
    <2>2. CASE ~NewContexts
        <3>1. /\ UNCHANGED <<closed, hs>> /\ handles \subseteq handles'
              /\ dataChannelOpen' = TRUE \/ dataChannelOpen' = dataChannelOpen
            BY <1>2, <2>2 DEF InCall, Proceed, EnsureApiOpen, OpenRegistration, LoadConfiguration, Open,
                   StartOpenFailed, StartListener, OpenConnection, HandshakeWait, StreamWait, SendWait,
                   WaitTimeout, StreamSend
        <3> QED
            BY <3>1 DEF Kept
    <2> QED
        BY <2>1, <2>2
<1>3. CASE EndCall
    BY <1>3 DEF EndCall, Take, Kept
<1> QED
    BY <1>1, <1>2, <1>3

\* Every step keeps what there is.
LEMMA StepKept == ASSUME TunnelInv, [TunnelNext]_tunnelVars, race' = "none" PROVE Kept
<1>1. CASE BeginCall \/ InCall \/ EndCall
    BY <1>1, CallKept
<1>2. CASE OwnStep
    BY <1>2, OwnStepQuiet DEF Quiet, Harmless, Kept
<1>3. CASE QuicStep
    BY <1>3, CallbackKept DEF QuicStep
<1>4. CASE UNCHANGED tunnelVars
    BY <1>4 DEF tunnelVars, transportVars, objectVars, Kept
<1> QED
    BY <1>1, <1>2, <1>3, <1>4, TunnelSteps

\* Without the overlap of connect() with a close() that had passed its test, no
\* close() and no reset_for_next_client() takes anything back: no handle is given
\* up, an open channel is not closed, and neither the success nor the failure of a
\* handshake is forgotten, in whatever order the engine, its handler and MsQuic's
\* threads run.  So one HandshakeState serves all clients.
THEOREM NothingIsTakenBack == TunnelSpec => [][race' = "none" => Kept]_tunnelVars
<1>1. (race = "none" => TunnelInv) /\ [TunnelNext]_tunnelVars => [race' = "none" => Kept]_tunnelVars
    BY RaceKept, StepKept
<1> QED
    BY <1>1, TunnelInvariance, PTL DEF TunnelSpec

\* A server that has begun connect() has its role.
RoleKnown ==
    IsServer /\ (pc["main"] \notin Early \/ (pc["main"] = "connect" /\ call # "idle"))
      => role = "server"

\* The server waits for a stream, and opens its channel, only after a handshake
\* that nothing had failed before.
OnlyAfterSuccess ==
    IsServer /\ (call = "streamWait" \/ dataChannelOpen) => hs.connected /\ ~hs.failed

\* Every step keeps both.
LEMMA SuccessStep ==
    ASSUME TunnelInv, RoleKnown, OnlyAfterSuccess, [TunnelNext]_tunnelVars, race' = "none"
    PROVE  RoleKnown' /\ OnlyAfterSuccess'
<1>0. TypeOK
    BY DEF TunnelInv
<1>1. CASE BeginCall
    <2>0. UNCHANGED <<app, pc>>
        BY <1>1 DEF BeginCall, engineVars
    <2>1. CASE pc["main"] = "connect"
        <3>1. UNCHANGED <<hs, dataChannelOpen>> /\ call' = "openApi" /\ role' = EngineRole
            BY <1>1, <2>1 DEF BeginCall, ConnectBegin
        <3> QED
            BY <2>0, <3>1 DEF RoleKnown, OnlyAfterSuccess, IsServer, EngineRole
    <2>2. CASE pc["main"] # "connect"
        <3>1. UNCHANGED <<role, hs, dataChannelOpen>>
            BY <1>1, <2>2 DEF BeginCall, PerformHandshake, OpenDataChannel, SendPayload
        <3>2. pc["main"] \notin Early
            BY <1>1, <2>2 DEF BeginCall, Early, Before
        <3>3. IsServer => call' # "streamWait"
            BY <1>1, <2>2, <3>2 DEF BeginCall, PerformHandshake, OpenDataChannel, SendPayload, Return,
                                    RoleKnown
        <3> QED
            BY <2>0, <3>1, <3>2, <3>3 DEF RoleKnown, OnlyAfterSuccess, IsServer
    <2> QED
        BY <2>1, <2>2
<1>2. CASE InCall
    <2>1. UNCHANGED <<app, pc, role>> /\ call # "idle" /\ call # "returned" /\ UNCHANGED hs
        <3>1. UNCHANGED hs
            BY <1>2, CallKept
        <3> QED
            BY <1>2, <3>1 DEF InCall, engineVars, Proceed, EnsureApiOpen, OpenRegistration, LoadConfiguration,
                   Open, NewContexts, StartOpenFailed, StartListener, OpenConnection, HandshakeWait,
                   StreamWait, SendWait, WaitTimeout, WaitCalls, StreamSend
    <2>2. RoleKnown'
        BY <2>1 DEF RoleKnown, IsServer
    <2>3. call' = "streamWait" => call = "streamWait" \/ (hs.connected /\ ~hs.failed)
        BY <1>2 DEF InCall, Proceed, EnsureApiOpen, OpenRegistration, LoadConfiguration, Open, NewContexts,
               StartOpenFailed, StartListener, OpenConnection, HandshakeWait, HandshakeDone, StreamWait,
               SendWait, WaitTimeout, StreamSend, Return
    <2>4. dataChannelOpen' => dataChannelOpen \/ call = "streamWait"
        BY <1>2 DEF InCall, Proceed, EnsureApiOpen, OpenRegistration, LoadConfiguration, Open, NewContexts,
               StartOpenFailed, StartListener, OpenConnection, HandshakeWait, StreamWait, SendWait,
               WaitTimeout, StreamSend
    <2> QED
        BY <2>1, <2>2, <2>3, <2>4 DEF OnlyAfterSuccess, IsServer
<1>3. CASE EndCall
    <2>1. PICK ok \in BOOLEAN :
            /\ Take(ok)
            /\ \/ StartConnect(ok) \/ StartPerform(ok) \/ StartChannel(ok)
               \/ OpenChannel(ok) \/ RelaySend(ok)
        BY <1>3 DEF EndCall
    <2>2. UNCHANGED <<role, hs, dataChannelOpen>> /\ call = "returned" /\ call' = "idle"
        BY <2>1 DEF Take
    <2>3. app' = app /\ pc["main"] \in CallPc
        BY <2>1 DEF StartConnect, StartPerform, RelaySend, StartChannel, OpenChannel, Move, CallPc
    <2> QED
        BY <2>2, <2>3 DEF RoleKnown, OnlyAfterSuccess, IsServer, CallPc, Early, Before
<1>4. CASE OwnStep
    <2>1. /\ app' = app /\ UNCHANGED <<role, hs, dataChannelOpen, call>>
          /\ pc["main"] \notin CallPc \/ pc'["main"] = pc["main"]
          /\ pc["main"] \in Early => pc'["main"] \in Early
          /\ pc'["main"] \in Before => pc["main"] \in Before
        BY <1>4, OwnStepQuiet DEF Quiet, OnTheWay, Harmless
    <2>2. call # "idle" => pc["main"] \in CallPc
        BY DEF TunnelInv, CallAt
    <2>3. RoleKnown'
        BY <2>1, <2>2 DEF RoleKnown, IsServer
    <2>4. OnlyAfterSuccess'
        BY <2>1 DEF OnlyAfterSuccess, IsServer
    <2> QED
        BY <2>3, <2>4
<1>5. CASE QuicStep
    BY <1>5, CallbackKept DEF QuicStep, engineVars, Kept, RoleKnown, OnlyAfterSuccess, IsServer
<1>6. CASE UNCHANGED tunnelVars
    BY <1>6 DEF tunnelVars, engineVars, transportVars, objectVars, RoleKnown, OnlyAfterSuccess, IsServer
<1> QED
    BY <1>1, <1>2, <1>3, <1>4, <1>5, <1>6, TunnelSteps

\* One handshake that fails before any has succeeded is final: such a server
\* never opens its data channel and never has an established session, whoever
\* connects afterwards.  This is all that ConnectedClientServed leaves out.
THEOREM FailedServerServesNobody ==
    TunnelSpec => [](race = "none" /\ IsServer /\ hs.failed => ~dataChannelOpen /\ ~CanSendData(session))
<1> DEFINE Known == race = "none" => RoleKnown /\ OnlyAfterSuccess
<1>1. TunnelInit => Known
    BY DEF TunnelInit, Init, TransportInit, RoleKnown, OnlyAfterSuccess, Early, Before, Threads
<1>2. (race = "none" => TunnelInv) /\ Known /\ [TunnelNext]_tunnelVars => Known'
    BY RaceKept, SuccessStep
<1>3. (race = "none" => TunnelInv) /\ Known
        => (race = "none" /\ IsServer /\ hs.failed => ~dataChannelOpen /\ ~CanSendData(session))
    BY DEF TunnelInv, ChannelOpen, OnlyAfterSuccess, CanSendData
<1> HIDE DEF Known
<1> QED
    BY <1>1, <1>2, <1>3, TunnelInvariance, PTL DEF TunnelSpec

-----------------------------------------------------------------------------
(* The engine over this transport is the engine of TunnelEngine. *)

\* A step of the program is a step of the engine, none of its, or the return of
\* open_data_channel(), which TunnelEngine bounds and Tunnel does not.
LEMMA EngineSteps ==
    ASSUME [TunnelNext]_tunnelVars
    PROVE  [Next]_engineVars \/ \E ok \in BOOLEAN : StartChannel(ok) \/ OpenChannel(ok)
<1>1. CASE BeginCall \/ InCall \/ QuicStep \/ Misuse \/ CloseCall("main") \/ CloseCall("handler")
    BY <1>1 DEF BeginCall, InCall, QuicStep, Misuse, CloseCall
<1>2. CASE EndCall
    BY <1>2 DEF EndCall, Next, MainNext, StartNext, LoopNext
<1>3. CASE LocalStep
    BY <1>3 DEF LocalStep, Next, MainNext, StartNext, LoopNext
<1>4. CASE Deadline \/ ReadPacket \/ ReadFrames \/ Reset \/ Exit
    BY <1>4 DEF Deadline, ReadPacket, ReadFrames, Reset, Exit, Next, MainNext, LoopNext
<1>5. CASE StopStep("main")
    BY <1>5 DEF StopStep, Next, MainNext, Stop
<1>6. CASE HandlerStep
    BY <1>1, <1>6 DEF HandlerStep, StopStep, Next, HandlerNext, Stop
<1>7. CASE UNCHANGED tunnelVars
    BY <1>7 DEF tunnelVars
<1> QED
    BY <1>1, <1>2, <1>3, <1>4, <1>5, <1>6, <1>7 DEF TunnelNext, MainStep

\* The return of open_data_channel() keeps the engine's invariant, however often
\* it has succeeded before.
LEMMA OpenStep ==
    ASSUME IInv, NEW ok \in BOOLEAN, StartChannel(ok) \/ OpenChannel(ok)
    PROVE  IInv'
<1>0. TypeOK /\ LoadedInTransition /\ TakenDown /\ ChannelOnTheWay /\ EstablishedHasOpenChannel
      /\ ClientAlone
    BY DEF IInv
<1>1. /\ pc["main"] \in {"startChannel", "openChannel"}
      /\ pc'["main"] \in {"startRouting", "startFailed", "ensureRouting", "loop"}
      /\ pc'["handler"] = pc["handler"]
      /\ pc' \in [Threads -> MainPc \cup HandlerPc]
      /\ UNCHANGED <<app, loaded, session, stopRequested, interfaceOpen, routing, freeBuffers, asked>>
    BY <1>0 DEF StartChannel, OpenChannel, Goto, TypeOK, Threads, MainPc, StartPc, LoopPc
<1>2. TypeOK'
    BY <1>0, <1>1 DEF StartChannel, OpenChannel, TypeOK, MainPc, StartPc, LoopPc
<1>3. LoadedInTransition'
    BY <1>0, <1>1 DEF LoadedInTransition, Threads, ReadPc
<1>4. TakenDown'
    BY <1>1 DEF TakenDown
<1>5. ChannelOnTheWay'
    BY <1>0, <1>1 DEF StartChannel, OpenChannel, Goto, TypeOK, Threads, ChannelOnTheWay
<1>6. EstablishedHasOpenChannel'
    <2>1. CASE StartChannel(ok)
        <3>1. session.state # "established"
            BY <1>0, <2>1 DEF StartChannel, EstablishedHasOpenChannel, StartPc
        <3> QED
            BY <1>1, <3>1 DEF EstablishedHasOpenChannel
    <2>2. CASE OpenChannel(ok)
        <3>1. session.state = "established" => channel
            BY <1>0, <2>2 DEF OpenChannel, EstablishedHasOpenChannel
        <3>2. channel => channel'
            BY <2>2 DEF OpenChannel
        <3>3. pc'["main"] \in {"ensureRouting", "loop"}
            BY <1>0, <2>2 DEF OpenChannel, Goto, TypeOK, Threads
        <3> QED
            BY <1>1, <3>1, <3>2, <3>3 DEF EstablishedHasOpenChannel, StartPc
    <2> QED
        BY <2>1, <2>2
<1>7. ClientAlone'
    <2>1. CASE StartChannel(ok)
        <3>1. pc["main"] = "startChannel" /\ pc'["main"] \in {"startRouting", "startFailed"}
            BY <1>0, <2>1 DEF StartChannel, Goto, TypeOK, Threads
        <3> QED
            BY <1>0, <1>1, <3>1 DEF ClientAlone, ClientState, IsServer, TypeOK
    <2>2. CASE OpenChannel(ok)
        <3>1. pc["main"] = "openChannel"
            BY <2>2 DEF OpenChannel
        <3> QED
            BY <1>0, <1>1, <3>1 DEF ClientAlone, ClientState, IsServer
    <2> QED
        BY <2>1, <2>2
<1> QED
    BY <1>2, <1>3, <1>4, <1>5, <1>6, <1>7 DEF IInv

\* The engine's invariant holds over this transport, for any number of clients.
THEOREM EngineInvariance == TunnelSpec => []IInv
<1>1. TunnelInit => IInv
    BY InitIInv DEF TunnelInit
<1>2. IInv /\ [TunnelNext]_tunnelVars => IInv'
    BY EngineSteps, EngineStep, OpenStep
<1> QED
    BY <1>1, <1>2, PTL DEF TunnelSpec

\* What TunnelEngineProofs shows of the engine over any transport holds over this
\* one, without a bound on the number of clients.
THEOREM EngineOverQuic ==
    TunnelSpec => [](SendOnlyOverOpenChannel /\ StoppedIsClean /\ ClientEndsStopped)
<1>1. IInv => SendOnlyOverOpenChannel /\ StoppedIsClean /\ ClientEndsStopped
    BY DEF IInv, ChannelOnTheWay, SendOnlyOverOpenChannel, TakenDown, StoppedIsClean,
           ClientAlone, ClientState, ClientEndsStopped
<1> QED
    BY <1>1, EngineInvariance, PTL

\* A requested stop cannot be delayed by the transport either: between two returns
\* of its calls the engine has not moved, each return brings the main thread nearer
\* to the end of its stop(), and no callback takes the request back.
THEOREM StopIsBoundedOverQuic == TunnelSpec => [][Stopping => Approaches]_tunnelVars
<1>1. IInv /\ [TunnelNext]_tunnelVars => [Stopping => Approaches]_tunnelVars
    <2> SUFFICES ASSUME TypeOK, [TunnelNext]_tunnelVars, Stopping PROVE Approaches
        BY DEF IInv
    <2>1. CASE Next
        BY <2>1, EngineApproaches
    <2>2. CASE UNCHANGED engineVars
        BY <2>2 DEF engineVars, Stopping, Approaches
    <2>3. ASSUME NEW ok \in BOOLEAN, OpenChannel(ok) PROVE Approaches
        BY <2>3, OpenApproaches DEF Approaches, EndPc
    <2>4. ASSUME NEW ok \in BOOLEAN, StartChannel(ok) PROVE FALSE
        BY <2>4 DEF StartChannel, Stopping, LoopPc, StopPc
    <2> QED
        BY <2>1, <2>2, <2>3, <2>4, EngineSteps
<1> QED
    BY <1>1, EngineInvariance, PTL DEF TunnelSpec

\* A broken server comes to its next session over this transport as well: a step that
\* is not the engine's changes nothing for it, and one that is leads towards it.
THEOREM RecoveryIsBoundedOverQuic == TunnelSpec => [][Recovering => Recovers]_tunnelVars
<1>1. IInv /\ [TunnelNext]_tunnelVars => [Recovering => Recovers]_tunnelVars
    <2> SUFFICES ASSUME TypeOK, [TunnelNext]_tunnelVars, Recovering PROVE Recovers
        BY DEF IInv
    <2>0. RecoveryLeft \in 0..71 /\ RecoveryLeft' \in 0..71
        <3>1. RecoveryLeft \in 0..71
            BY RecoveryTypes DEF RecoveryLeft
        <3> QED
            BY <3>1, RecoveryTypes, RecoveryNext
    <2>1. CASE Next
        BY <2>1, EngineRecovers
    <2>2. CASE UNCHANGED engineVars
        <3>1. RecoveryLeft' = RecoveryLeft /\ Recovering'
            BY <2>2 DEF engineVars, Recovering, RecoveryLeft, ResetSucceeds, HandlerStores, IsServer
        <3> QED
            BY <2>0, <2>2, <3>1 DEF Recovers, engineVars
    <2>3. ASSUME NEW ok \in BOOLEAN, OpenChannel(ok) PROVE Recovers
        BY <2>0, <2>3, OpenRecovers, RecoveryNearer DEF Recovers
    <2>4. ASSUME NEW ok \in BOOLEAN, StartChannel(ok) PROVE FALSE
        BY <2>4 DEF StartChannel, Recovering, LoopPc
    <2> QED
        BY <2>1, <2>2, <2>3, <2>4, EngineSteps
<1> QED
    BY <1>1, EngineInvariance, PTL DEF TunnelSpec

-----------------------------------------------------------------------------
(* How often a session can be established. *)

\* The packets read and the stores of the handler so far are all that can have ended
\* an established session.
Spent == packets + HandlerStores

\* The main thread may be on its way to another session: this one is not
\* established, or will not be used any more, or its packet is being sent.
BreakPc == {"openChannel", "ensureRouting", "establish", "send", "relayFailed",
            "reset", "reset1", "reset2", "reset3", "reset4"}
Broken ==
    /\ pc["main"] \in LoopPc \cup {"started"}
    /\ session.state # "established" \/ pc["main"] \in BreakPc

\* Every session but the first has cost a packet or a store of the handler, and
\* once it is broken the next one is paid for.
SessionsPaid ==
    /\ packets \in 0..MaxPackets
    /\ pc["main"] \in StartPc => session.epoch = 0
    /\ session.epoch <= Spent + 1
    /\ Broken => session.epoch <= Spent

\* The handler stores at most twice.
LEMMA SpentType ==
    ASSUME packets \in 0..MaxPackets
    PROVE  Spent \in Nat /\ HandlerStores \in 0..2 /\ Spent <= MaxPackets + 2
<1>1. HandlerStores \in 0..2
    BY DEF HandlerStores
<1> QED
    BY <1>1, TunnelAssumption DEF Spent

\* What a step of the main thread does that reads no packet.
MainPays ==
    /\ pc'["handler"] = pc["handler"]
    /\ pc'["main"] \in StartPc => pc["main"] \in StartPc /\ session'.epoch = session.epoch
    /\ \/ session'.epoch = session.epoch /\ (Broken' => Broken \/ pc["main"] \in StartPc)
       \/ /\ session'.epoch = session.epoch + 1 /\ session'.state = "established"
          /\ pc["main"] \in {"toEstablished", "establish"}
          /\ pc'["main"] \in {"started", "recheck"}

\* Such a step keeps SessionsPaid.
LEMMA MainPaysInv ==
    ASSUME TypeOK, SessionsPaid, MainPays, packets' = packets
    PROVE  SessionsPaid'
<1>1. Spent' = Spent /\ Spent \in Nat /\ session.epoch \in Nat
    BY SpentType DEF MainPays, Spent, HandlerStores, SessionsPaid, TypeOK
<1>2. CASE session'.epoch = session.epoch /\ (Broken' => Broken \/ pc["main"] \in StartPc)
    BY <1>1, <1>2 DEF SessionsPaid, MainPays
<1>3. CASE /\ session'.epoch = session.epoch + 1 /\ session'.state = "established"
           /\ pc["main"] \in {"toEstablished", "establish"}
           /\ pc'["main"] \in {"started", "recheck"}
    <2>1. session.epoch <= Spent
        BY <1>1, <1>3 DEF SessionsPaid, Broken, StartPc, LoopPc, BreakPc
    <2>2. ~Broken' /\ pc'["main"] \notin StartPc
        BY <1>3 DEF Broken, BreakPc, StartPc
    <2> QED
        BY <1>1, <1>3, <2>1, <2>2 DEF SessionsPaid
<1> QED
    BY <1>2, <1>3 DEF MainPays

\* A move of the main thread that does not turn to the next session while the
\* one it has is established.
LEMMA MovePays ==
    ASSUME TypeOK, NEW place, Goto("main", place), session' = session,
           place \notin StartPc \/ pc["main"] \in StartPc,
           place \notin LoopPc \cup {"started"} \/ pc["main"] \in StartPc \cup LoopPc \cup {"started"},
           place \notin BreakPc \/ pc["main"] \in BreakPc
             \/ (pc["main"] \in LoopPc /\ session.state # "established")
    PROVE  MainPays
<1>1. pc'["main"] = place /\ pc'["handler"] = pc["handler"]
    BY DEF Goto, TypeOK, Threads
<1>2. Broken' => Broken \/ pc["main"] \in StartPc
    BY <1>1 DEF Broken, BreakPc, LoopPc, StartPc
<1> QED
    BY <1>1, <1>2 DEF MainPays

\* A transition of the main thread; only a session that is broken changes inside
\* the loop.
LEMMA TransitionPays ==
    ASSUME TypeOK, NEW here, NEW from, NEW next \in SessionState, NEW yes \in MainPc, NEW no \in MainPc,
           Transition("main", here, from, next, yes, no),
           yes \notin StartPc \/ here \in StartPc, no \notin StartPc \/ here \in StartPc,
           here \in StartPc \cup BreakPc \/ (yes \notin LoopPc \cup {"started"} /\ no \notin LoopPc \cup {"started"}),
           next # "established" \/ (here \in {"toEstablished", "establish"} /\ yes \in {"started", "recheck"})
    PROVE  MainPays
<1>1. /\ pc["main"] = here /\ pc'["handler"] = pc["handler"]
      /\ \/ pc' = pc /\ session' = session
         \/ pc'["main"] = yes /\ session' = Store(session, next)
         \/ pc'["main"] = no /\ session' = session
    BY DEF Transition, Goto, TypeOK, Threads
<1>2. session.epoch \in Nat
    BY DEF TypeOK
<1>3. CASE pc' = pc /\ session' = session
    BY <1>1, <1>3 DEF MainPays, Broken
<1>4. CASE pc'["main"] = no /\ session' = session
    BY <1>1, <1>4 DEF MainPays, Broken, BreakPc, LoopPc, StartPc
<1>5. CASE pc'["main"] = yes /\ session' = Store(session, next)
    <2>1. session'.state = next
          /\ session'.epoch = IF next = "established" THEN session.epoch + 1 ELSE session.epoch
        BY <1>5 DEF Store
    <2>2. CASE next = "established"
        BY <1>1, <1>5, <2>1, <2>2 DEF MainPays, StartPc
    <2>3. CASE next # "established"
        BY <1>1, <1>5, <2>1, <2>3 DEF MainPays, Broken, BreakPc, LoopPc, StartPc
    <2> QED
        BY <2>2, <2>3
<1> QED
    BY <1>1, <1>3, <1>4, <1>5

\* start() pays.
LEMMA StartPays ==
    ASSUME TypeOK, NEW ok \in BOOLEAN,
           \/ StartBegin(ok) \/ StartOpen(ok) \/ StartConnect(ok) \/ StartPerform(ok) \/ StartChannel(ok)
           \/ StartRouting(ok) \/ Started(ok) \/ StartConnecting \/ StartHandshaking \/ StartClearFlag
           \/ StartEstablished \/ StartFailed \/ StartBuffers
    PROVE  MainPays
<1> USE DEF StartPc, LoopPc, BreakPc
<1>0. CASE StartBuffers
    BY <1>0, StartBuffersStep, MovePays
<1>1. CASE StartOpen(ok) \/ StartChannel(ok) \/ StartRouting(ok)
    BY <1>1, MovePays DEF StartOpen, StartChannel, StartRouting
<1>2. CASE StartBegin(ok) \/ StartConnect(ok) \/ StartPerform(ok)
    BY <1>2, MovePays DEF StartBegin, StartConnect, StartPerform, Move
<1>3. CASE Started(ok) \/ StartClearFlag
    BY <1>3, MovePays DEF Started, StartClearFlag, Move
<1>4. CASE StartConnecting \/ StartHandshaking
    BY <1>4, TransitionPays DEF StartConnecting, StartHandshaking, SessionState, MainPc
<1>5. CASE StartEstablished
    BY <1>5, TransitionPays DEF StartEstablished, SessionState, MainPc
<1>6. CASE StartFailed
    BY <1>6, TransitionPays DEF StartFailed, SessionState, MainPc
<1> QED
    BY <1>0, <1>1, <1>2, <1>3, <1>4, <1>5, <1>6

\* The loop pays, when it reads no packet.
LEMMA LoopPays ==
    ASSUME TypeOK, NEW ok \in BOOLEAN,
           \/ LoopHead \/ LoopDeadline \/ LoopCheck \/ EnsureBegin \/ OpenChannel(ok) \/ EnsureRouting
           \/ EnsureEstablish \/ LoopRecheck \/ RelayBegin \/ RelayOutbound("none") \/ RelaySend(ok)
           \/ RelayInbound \/ RelayFailed \/ ClientFailed \/ ResetTransport \/ ResetSession
    PROVE  MainPays
<1> USE DEF StartPc, LoopPc, BreakPc
<1>1. CASE LoopHead \/ LoopDeadline \/ LoopCheck \/ RelayInbound
    BY <1>1, MovePays DEF LoopHead, LoopDeadline, LoopCheck, RelayInbound, Move
<1>2. CASE EnsureBegin
    BY <1>2, MovePays DEF EnsureBegin, Move
<1>3. CASE OpenChannel(ok) \/ EnsureRouting \/ ResetTransport
    BY <1>3, MovePays DEF OpenChannel, EnsureRouting, ResetTransport, Move
<1>4. CASE LoopRecheck \/ RelayBegin
    BY <1>4, MovePays DEF LoopRecheck, RelayBegin, CanSendData, Move
<1>5. CASE RelayOutbound("none") \/ RelaySend(ok) \/ RelayFailed
    BY <1>5, MovePays DEF RelayOutbound, RelaySend, RelayFailed, Move
<1>6. CASE EnsureEstablish
    BY <1>6, TransitionPays DEF EnsureEstablish, SessionState, MainPc
<1>7. CASE ClientFailed
    BY <1>7, TransitionPays DEF ClientFailed, SessionState, MainPc, StopPc
<1>8. CASE ResetSession
    BY <1>8, TransitionPays DEF ResetSession, SessionState, MainPc
<1> QED
    BY <1>1, <1>2, <1>3, <1>4, <1>5, <1>6, <1>7, <1>8

\* stop() and the destructors pay: there is no next session.
LEMMA EndPays ==
    ASSUME TypeOK, Stop("main") \/ Destroy
    PROVE  MainPays
<1>1. CASE Destroy
    BY <1>1, MovePays DEF Destroy, StartPc, LoopPc, BreakPc
<1>2. CASE Stop("main")
    <2>1. /\ pc["main"] \in StopPc /\ pc'["main"] \in StopPc \cup {"stopped"}
          /\ pc'["handler"] = pc["handler"]
        BY <1>2, StopPlaces DEF Threads
    <2>2. session'.epoch = session.epoch
        BY <1>2, StopBuffersStep DEF Stop, StopFlag, StopClosing, StopRouting, StopTransport, StopInterface,
               StopStopped, Transition, Store, Move, Threads
    <2> QED
        BY <2>1, <2>2 DEF MainPays, Broken, StartPc, LoopPc, StopPc
<1> QED
    BY <1>1, <1>2

\* The handler pays with its stores.
LEMMA HandlerPays ==
    ASSUME TypeOK, SessionsPaid, Signal \/ RequestStop \/ Stop("handler"), packets' = packets
    PROVE  SessionsPaid'
<1>0. Spent \in Nat /\ session.epoch \in Nat /\ packets \in Nat
    BY SpentType, TunnelAssumption DEF SessionsPaid, TypeOK
<1>1. pc'["main"] = pc["main"]
    BY StopPlaces DEF Signal, RequestStop, Move, Goto, TypeOK, Threads
<1>2. session'.epoch = session.epoch
    BY StopBuffersStep DEF Signal, RequestStop, Stop, StopFlag, StopClosing, StopRouting, StopTransport,
       StopInterface, StopStopped, Transition, Store, Move, Threads
<1>3. HandlerStores' \in Nat /\ HandlerStores' >= HandlerStores
      /\ (session'.state # session.state => HandlerStores' >= HandlerStores + 1)
    <2>1. CASE Signal \/ RequestStop
        BY <2>1 DEF Signal, RequestStop, Move, Goto, TypeOK, Threads, HandlerStores
    <2>2. CASE StopClosing("handler")
        <3>1. /\ pc["handler"] = "stop1"
              /\ \/ pc' = pc /\ session' = session
                 \/ pc'["handler"] = "stop2"
            BY <2>2 DEF StopClosing, Transition, Goto, TypeOK, Threads
        <3> QED
            BY <3>1 DEF HandlerStores
    <2>3. CASE StopStopped("handler")
        <3>1. /\ pc["handler"] = "stop7"
              /\ \/ pc' = pc /\ session' = session
                 \/ pc'["handler"] = "stopped"
            BY <2>3 DEF StopStopped, Transition, Goto, TypeOK, Threads
        <3> QED
            BY <3>1 DEF HandlerStores
    <2>4. CASE StopFlag("handler") \/ StopRouting("handler") \/ StopTransport("handler")
        BY <2>4 DEF StopFlag, StopRouting, StopTransport, Move, Goto, TypeOK, Threads, HandlerStores
    <2>5. CASE StopInterface("handler")
        BY <2>5 DEF StopInterface, Goto, TypeOK, Threads, HandlerStores
    <2>6. CASE StopBuffers("handler")
        BY <2>6, StopBuffersStep DEF Goto, TypeOK, Threads, HandlerStores
    <2> QED
        BY <2>1, <2>2, <2>3, <2>4, <2>5, <2>6 DEF Stop
<1>4. HandlerStores \in Nat
    BY SpentType DEF SessionsPaid
<1>5. Spent' \in Nat /\ Spent' >= Spent /\ (session'.state # session.state => Spent' >= Spent + 1)
    <2>1. Spent = packets + HandlerStores /\ Spent' = packets + HandlerStores'
        BY DEF Spent
    <2> DEFINE before == HandlerStores
               after == HandlerStores'
    <2>2. before \in Nat /\ after \in Nat /\ after >= before
        BY <1>3, <1>4
    <2>3. session'.state # session.state => after >= before + 1
        BY <1>3
    <2>4. Spent = packets + before /\ Spent' = packets + after
        BY <2>1
    <2> HIDE DEF before, after
    <2> QED
        BY <1>0, <2>2, <2>3, <2>4
<1>6. CASE session'.state = session.state
    <2>1. Broken' = Broken
        BY <1>1, <1>6 DEF Broken
    <2> QED
        BY <1>0, <1>1, <1>2, <1>5, <2>1 DEF SessionsPaid
<1>7. CASE session'.state # session.state
    BY <1>0, <1>1, <1>2, <1>5, <1>7 DEF SessionsPaid
<1> QED
    BY <1>6, <1>7

\* A packet pays for the session it may end.
LEMMA ReadPays ==
    ASSUME TypeOK, SessionsPaid, ReadPacket
    PROVE  SessionsPaid'
<1>1. PICK packet \in {"none", "sealed", "unsealed"} :
        /\ packet # "none" => packets < MaxPackets
        /\ packets' = IF packet # "none" THEN packets + 1 ELSE packets
        /\ RelayOutbound(packet)
    BY DEF ReadPacket
<1>2. CASE packet = "none"
    <2>1. MainPays
        BY <1>1, <1>2, LoopPays
    <2> QED
        BY <1>1, <1>2, <2>1, MainPaysInv
<1>3. CASE packet # "none"
    <2>1. packets' = packets + 1 /\ packets' \in 0..MaxPackets /\ packets \in Nat
        BY <1>1, <1>3, TunnelAssumption DEF SessionsPaid
    <2>2. /\ session' = session /\ pc'["main"] \in LoopPc /\ pc'["handler"] = pc["handler"]
        BY <1>1, <1>3 DEF RelayOutbound, Move, Goto, TypeOK, Threads, LoopPc
    <2>3. HandlerStores' = HandlerStores /\ HandlerStores \in Nat
        BY <2>2, SpentType DEF HandlerStores, SessionsPaid
    <2>4. Spent' = Spent + 1 /\ Spent \in Nat /\ session.epoch \in Nat
        BY <2>1, <2>3 DEF Spent, TypeOK
    <2>5. pc'["main"] \notin StartPc
        BY <2>2 DEF StartPc, LoopPc
    <2> QED
        BY <2>1, <2>2, <2>4, <2>5 DEF SessionsPaid
<1> QED
    BY <1>2, <1>3

\* Every step pays.
LEMMA StepPays ==
    ASSUME TypeOK, SessionsPaid, [TunnelNext]_tunnelVars
    PROVE  SessionsPaid'
<1>0. CASE UNCHANGED <<engineVars, packets>>
    BY <1>0 DEF engineVars, SessionsPaid, Spent, HandlerStores, Broken
<1>1. CASE BeginCall \/ InCall \/ QuicStep \/ Misuse \/ CloseCall("main") \/ CloseCall("handler")
           \/ UNCHANGED tunnelVars
    BY <1>0, <1>1 DEF BeginCall, InCall, QuicStep, Misuse, CloseCall, tunnelVars
<1>2. CASE EndCall
    <2>1. MainPays /\ packets' = packets
        BY <1>2, StartPays, LoopPays DEF EndCall
    <2> QED
        BY <2>1, MainPaysInv
<1>3. CASE LocalStep \/ Deadline \/ ReadFrames \/ Reset
    <2>1. MainPays /\ packets' = packets
        BY <1>3, StartPays, LoopPays DEF LocalStep, Deadline, ReadFrames, Reset
    <2> QED
        BY <2>1, MainPaysInv
<1>4. CASE ReadPacket
    BY <1>4, ReadPays
<1>5. CASE StopStep("main") \/ Exit
    <2>1. MainPays /\ packets' = packets
        BY <1>5, EndPays DEF StopStep, Stop, Exit
    <2> QED
        BY <2>1, MainPaysInv
<1>6. CASE HandlerStep
    BY <1>1, <1>6, HandlerPays DEF HandlerStep, StopStep, Stop
<1> QED
    BY <1>1, <1>2, <1>3, <1>4, <1>5, <1>6 DEF TunnelNext, MainStep

\* A server does not go from session to session by itself: each one but the first
\* has cost a packet that was read or a store of the handler's stop(), so a server
\* without traffic keeps the session it has.
THEOREM SessionsArePaidFor == TunnelSpec => [](session.epoch <= Spent + 1)
<1>1. TunnelInit => SessionsPaid
    BY TunnelAssumption DEF TunnelInit, Init, InitialSession, Threads, SessionsPaid, Spent,
       HandlerStores, Broken, LoopPc
<1>2. IInv /\ SessionsPaid /\ [TunnelNext]_tunnelVars => SessionsPaid'
    BY StepPays DEF IInv
<1>3. SessionsPaid => session.epoch <= Spent + 1
    BY DEF SessionsPaid
<1> QED
    BY <1>1, <1>2, <1>3, EngineInvariance, PTL DEF TunnelSpec

\* With room for as many clients as packets and stops can make, the engine over
\* this transport does what TunnelEngine allows over any: the safety part of
\* ImplementsEngine.
THEOREM ImplementsEngineSafely ==
    ASSUME MaxClients >= MaxPackets + 3
    PROVE  TunnelSpec => Init /\ [][Next]_engineVars
<1>1. TunnelInit => Init /\ SessionsPaid
    BY TunnelAssumption DEF TunnelInit, Init, InitialSession, Threads, SessionsPaid, Spent,
       HandlerStores, Broken, LoopPc
<1>2. IInv /\ SessionsPaid /\ [TunnelNext]_tunnelVars => SessionsPaid'
    BY StepPays DEF IInv
<1>3. IInv /\ SessionsPaid /\ [TunnelNext]_tunnelVars => [Next]_engineVars
    <2> SUFFICES ASSUME TypeOK, SessionsPaid, [TunnelNext]_tunnelVars PROVE [Next]_engineVars
        BY DEF IInv
    <2>0. Spent \in Nat /\ Spent <= MaxPackets + 2 /\ session.epoch \in Nat /\ MaxClients \in Nat
        BY SpentType, EngineAssumption DEF SessionsPaid, TypeOK
    <2>1. ASSUME NEW ok \in BOOLEAN, StartChannel(ok) \/ OpenChannel(ok) PROVE [Next]_engineVars
        <3>1. pc["main"] \in {"startChannel", "openChannel"}
            BY <2>1 DEF StartChannel, OpenChannel
        <3>2. session.epoch <= Spent
            BY <2>0, <3>1 DEF SessionsPaid, Broken, StartPc, LoopPc, BreakPc
        <3>3. ClientCame(ok)
            BY <2>0, <3>2, TunnelAssumption DEF ClientCame
        <3> QED
            BY <2>1, <3>3 DEF Next, MainNext, StartNext, LoopNext
    <2> QED
        BY <2>1, EngineSteps
<1> QED
    BY <1>1, <1>2, <1>3, EngineInvariance, PTL DEF TunnelSpec

-----------------------------------------------------------------------------
(* A client that is gone is noticed by the next send. *)

\* The main thread is in send_payload() for the stream of c, whose connection is
\* down, and has not handed the frame to MsQuic before it went down.
DeadSend(c) ==
    /\ pc["main"] = "send" /\ phase[c] = "down"
    /\ call \in {"idle", "sendWait"} \/ (call = "returned" /\ ~ret)

\* So it is, or the send has failed and the session is about to be ended.
Noticing(c) ==
    /\ CanSendData(session) /\ ~stopRequested /\ chan.stream = c
    /\ DeadSend(c) \/ pc["main"] \in {"relayFailed", "clientFailed", "reset", "reset1"}

Noticed(c) == ~CanSendData(session) \/ stopRequested \/ chan.stream # c

\* The steps of the main thread up to the end of the session.
NoticeLeft ==
    CASE pc["main"] = "send" -> IF call = "idle" THEN 7 ELSE IF call = "sendWait" THEN 6 ELSE 5
      [] pc["main"] = "relayFailed" -> 4
      [] pc["main"] = "reset" -> 3
      [] OTHER -> IF loaded["main"] = "none" THEN 2 ELSE 1

\* The end is noticed, or is nearer to that, or the main thread has not moved.
Notices(c) ==
    \/ Noticed(c)'
    \/ /\ Noticing(c)'
       /\ NoticeLeft' < NoticeLeft \/ UNCHANGED <<pc["main"], loaded["main"], call, ret>>

\* The places of such a main thread.
NoticePc == {"send", "relayFailed", "clientFailed", "reset", "reset1"}

\* The engine calls send_payload(), waits in it, and takes its result: the result is
\* false.
LEMMA CallNotices ==
    ASSUME TunnelInv, NEW c \in Conns, Noticing(c), BeginCall \/ InCall \/ EndCall
    PROVE  Notices(c)
<1>0. /\ TypeOK /\ c # NoConn /\ chan.stream = c /\ ~stopRequested /\ CanSendData(session)
      /\ call # "idle" => pc["main"] = "send" /\ call \notin ConnectCalls
      /\ pc["main"] \in NoticePc
    BY TransportAssumption DEF TunnelInv, CallAt, CallPc, Noticing, DeadSend, NoticePc
<1>1. CASE BeginCall
    <2>1. pc["main"] = "send" /\ SendPayload /\ UNCHANGED engineVars /\ DeadSend(c)
        BY <1>0, <1>1 DEF BeginCall, Noticing, NoticePc
    <2>2. /\ call = "idle" /\ UNCHANGED <<chan, phase>>
          /\ call' = "sendWait" \/ (call' = "returned" /\ ~ret')
        BY <2>1 DEF SendPayload, Return, quicVars
    <2>3. Noticing(c)'
        BY <1>0, <2>1, <2>2 DEF Noticing, DeadSend, engineVars
    <2>4. NoticeLeft' < NoticeLeft
        BY <2>1, <2>2 DEF NoticeLeft, engineVars
    <2> QED
        BY <2>3, <2>4 DEF Notices
<1>2. CASE InCall
    <2>1. pc["main"] = "send" /\ Proceed /\ UNCHANGED engineVars /\ call # "idle"
        BY <1>0, <1>2 DEF InCall, Proceed, EnsureApiOpen, OpenRegistration, LoadConfiguration, Open, NewContexts,
               StartOpenFailed, StartListener, OpenConnection, HandshakeWait, StreamWait, SendWait, WaitTimeout,
               StreamSend, WaitCalls
    <2>2. DeadSend(c)
        BY <2>1 DEF Noticing
    <2>3. /\ call = "sendWait" /\ call' = "returned" /\ ~ret' /\ UNCHANGED <<chan, phase>>
        <3>1. HandshakeWait \/ StreamWait \/ SendWait \/ WaitTimeout \/ \E ok \in BOOLEAN : StreamSend(ok)
            BY <1>0, <2>1 DEF Proceed, EnsureApiOpen, OpenRegistration, LoadConfiguration, Open, NewContexts,
                   StartOpenFailed, StartListener, OpenConnection, ConnectCalls
        <3> QED
            BY <1>0, <2>2, <3>1
            DEF DeadSend, HandshakeWait, StreamWait, SendWait, WaitTimeout, StreamSend, Return, quicVars, WaitCalls
    <2>4. Noticing(c)'
        BY <1>0, <2>1, <2>2, <2>3 DEF Noticing, DeadSend, engineVars
    <2>5. NoticeLeft' < NoticeLeft
        BY <2>1, <2>3 DEF NoticeLeft, engineVars
    <2> QED
        BY <2>4, <2>5 DEF Notices
<1>3. CASE EndCall
    <2>1. PICK ok \in BOOLEAN :
            /\ Take(ok)
            /\ \/ StartConnect(ok) \/ StartPerform(ok) \/ StartChannel(ok)
               \/ OpenChannel(ok) \/ RelaySend(ok)
        BY <1>3 DEF EndCall
    <2>2. pc["main"] = "send" /\ call = "returned" /\ ret = ok /\ UNCHANGED chan
        BY <1>0, <2>1 DEF Take
    <2>3. ~ok
        BY <2>2 DEF Noticing, DeadSend
    <2>4. RelaySend(ok)
        BY <2>1, <2>2 DEF StartConnect, StartPerform, StartChannel, OpenChannel, Move
    <2>5. pc'["main"] = "relayFailed" /\ UNCHANGED <<session, stopRequested>>
        BY <1>0, <2>3, <2>4 DEF RelaySend, Move, Goto, TypeOK, Threads
    <2>6. Noticing(c)'
        BY <1>0, <2>2, <2>5 DEF Noticing
    <2>7. NoticeLeft' < NoticeLeft
        BY <2>2, <2>5 DEF NoticeLeft
    <2> QED
        BY <2>6, <2>7 DEF Notices
<1> QED
    BY <1>1, <1>2, <1>3

\* The engine ends the session, and only then is done with it.
LEMMA EngineNotices ==
    ASSUME TunnelInv, LoadedFresh, NEW c \in Conns, Noticing(c),
           LocalStep \/ Reset
    PROVE  Notices(c)
<1>0. /\ TypeOK /\ ~stopRequested /\ session.state = "established"
      /\ pc["main"] \in NoticePc /\ closed /\ chan.stream = c
    BY DEF TunnelInv, Pristine, Early, Before, Noticing, DeadSend, NoticePc, CanSendData
<1>1. CASE Reset
    <2>1. /\ pc["main"] = "reset" /\ pc'["main"] = "reset1" /\ UNCHANGED <<chan, session, stopRequested>>
        BY <1>0, <1>1 DEF Reset, ResetTransport, ResetForNextClient, Goto, TypeOK, Threads
    <2>2. Noticing(c)'
        BY <1>0, <2>1 DEF Noticing, CanSendData
    <2>3. NoticeLeft' < NoticeLeft
        BY <2>1 DEF NoticeLeft
    <2> QED
        BY <2>2, <2>3 DEF Notices
<1>2. CASE LocalStep
    <2>1. UNCHANGED chan /\ (RelayFailed \/ ClientFailed \/ ResetSession)
        BY <1>0, <1>2, StartBuffersStep DEF LocalStep, transportVars, objectVars, NoticePc, StartBegin, StartOpen, Started,
               StartRouting, StartConnecting, StartHandshaking, StartClearFlag, StartEstablished,
               StartFailed, LoopHead, LoopCheck, EnsureBegin, EnsureRouting, EnsureEstablish,
               LoopRecheck, RelayBegin, Move, Transition
    <2>2. CASE RelayFailed
        <3>1. /\ pc["main"] = "relayFailed" /\ pc'["main"] \in {"clientFailed", "reset"}
              /\ UNCHANGED <<session, stopRequested, loaded>>
            BY <1>0, <2>2 DEF RelayFailed, Move, Goto, TypeOK, Threads
        <3>2. Noticing(c)'
            BY <1>0, <2>1, <3>1 DEF Noticing, CanSendData
        <3>3. NoticeLeft' < NoticeLeft
            BY <3>1 DEF NoticeLeft
        <3> QED
            BY <3>2, <3>3 DEF Notices
    <2>3. CASE ClientFailed \/ ResetSession
        <3>0. Allowed("established", "closing") /\ Allowed("established", "failed")
            BY DEF Allowed
        <3>1. /\ pc["main"] \in {"clientFailed", "reset1"} /\ stopRequested' = stopRequested
              /\ \/ /\ loaded["main"] = "none" /\ loaded'["main"] = session.state
                    /\ UNCHANGED <<pc, session>>
                 \/ loaded["main"] # "none" /\ session'.state \in {"closing", "failed"}
            <4>1. CASE Transition("main", "clientFailed", SessionState, "failed", "stop", "stop")
                BY <1>0, <3>0, <4>1 DEF Transition, LoadedFresh, TypeOK, Threads, SessionState, Store
            <4>2. CASE Transition("main", "reset1", {"established"}, "closing", "reset2", "reset2")
                BY <1>0, <3>0, <4>2 DEF Transition, LoadedFresh, TypeOK, Threads, Store
            <4> QED
                BY <1>0, <2>3, <4>1, <4>2 DEF ClientFailed, ResetSession, Transition, NoticePc
        <3>2. CASE loaded["main"] = "none"
            <4>1. Noticing(c)'
                BY <1>0, <2>1, <3>1, <3>2 DEF Noticing, CanSendData
            <4>2. NoticeLeft' < NoticeLeft
                BY <1>0, <3>1, <3>2 DEF NoticeLeft
            <4> QED
                BY <4>1, <4>2 DEF Notices
        <3>3. CASE loaded["main"] # "none"
            BY <3>1, <3>3 DEF Notices, Noticed, CanSendData
        <3> QED
            BY <3>2, <3>3
    <2> QED
        BY <2>1, <2>2, <2>3
<1> QED
    BY <1>1, <1>2

\* A callback moves nothing, unless it gives the channel another stream: a connection
\* that is down stays down.
LEMMA CallbackNotices ==
    ASSUME TunnelInv, NEW c \in Conns, Noticing(c), QuicStep
    PROVE  Notices(c)
<1>0. TransportTypeOK /\ chan.stream = c
    BY DEF TunnelInv, Noticing
<1>1. PICK d \in Conns :
        \/ NewConnection(d) \/ Connected(d) \/ \E ok \in BOOLEAN : OpenClientStream(d, ok)
        \/ PeerStreamStarted(d) \/ Receive(d) \/ SendComplete(d)
        \/ ShutdownByTransport(d) \/ ShutdownByPeer(d) \/ ShutdownComplete(d)
    BY DEF QuicStep, Callback
<1>2. UNCHANGED <<engineVars, call, ret>>
    BY <1>1 DEF QuicStep, NewConnection, Connected, OpenClientStream, PeerStreamStarted, Receive, SendComplete,
           ShutdownByTransport, ShutdownByPeer, ShutdownComplete, objectVars
<1>3. phase[c] = "down" => phase'[c] = "down"
    BY <1>0, <1>1 DEF NewConnection, Connected, OpenClientStream, PeerStreamStarted, Receive, SendComplete,
           quicVars, ShutdownByTransport, ShutdownByPeer, ShutdownComplete, TransportTypeOK
<1>4. chan'.stream # c \/ Noticing(c)'
    BY <1>2, <1>3 DEF Noticing, DeadSend, engineVars
<1> QED
    BY <1>2, <1>4 DEF Notices, Noticed, engineVars

\* The handler sets the stop flag, or ends the session, or changes nothing of it: its
\* close() finds closed_ set, or nothing to drop.
LEMMA HandlerNotices ==
    ASSUME TunnelInv, NEW c \in Conns, Noticing(c), HandlerStep
    PROVE  Notices(c)
<1>0. TypeOK
    BY DEF TunnelInv
<1>1. UNCHANGED <<call, ret, phase>> /\ chan'.stream = chan.stream
    <2>1. Quiet
        BY OwnStepQuiet DEF HandlerStep, OwnStep, Threads
    <2> QED
        BY <2>1 DEF Quiet, Harmless, quicVars
<1>2. CASE CloseCall("handler")
    <2>1. UNCHANGED engineVars
        BY <1>2 DEF CloseCall
    <2>2. Noticing(c)'
        BY <1>1, <2>1 DEF Noticing, DeadSend, engineVars
    <2> QED
        BY <1>1, <2>1, <2>2 DEF Notices, engineVars
<1>3. CASE HandlerNext
    <2>1. pc'["main"] = pc["main"] /\ loaded'["main"] = loaded["main"]
        BY <1>0, <1>3, HandlerAside
    <2>2. Noticed(c)' \/ Noticing(c)'
        BY <1>1, <2>1 DEF Noticed, Noticing, DeadSend
    <2> QED
        BY <1>1, <2>1, <2>2 DEF Notices
<1> QED
    BY <1>2, <1>3 DEF HandlerStep, StopStep, HandlerNext, Stop

\* The main thread is in close() only before or in connect(), in stop() and at the end.
LEMMA MainNotClosing ==
    ASSUME TunnelInv, pc["main"] \notin Early \cup {"stop3", "stopped"}
    PROVE  ~CloseCall("main")
<1>1. ~Busy("main")
    BY CallAlone DEF Callers
<1> QED
    BY <1>1 DEF CloseCall, CloseTest, CloseStep, CloseSet, CloseChannel, CloseDetach, CloseStream, CloseConnection,
           CloseHandle, CloseDelete, CloseRelease, Closing, Busy, Early, Before

\* A client that is gone is noticed by the next send: the end of an established
\* connection sets no flag, but a send_payload() that finds the connection down returns
\* false, and six more steps of the main thread end the session, unless another stream
\* takes the channel or a stop comes, and as long as no close() has overlapped connect().
\* No callback and no call makes such a send succeed.  What DeadClientNoticed adds is
\* that the thread takes the steps.
THEOREM DeadClientIsNoticed ==
    TunnelSpec => [][race' = "none" => \A c \in Conns : Noticing(c) => Notices(c)]_tunnelVars
<1>1. TunnelInit => LoadedFresh
    BY DEF TunnelInit, Init, LoadedFresh, Threads
<1>2. IInv /\ LoadedFresh /\ [TunnelNext]_tunnelVars => LoadedFresh'
    BY EngineSteps, FreshStep
<1>3. (race = "none" => TunnelInv) /\ LoadedFresh /\ [TunnelNext]_tunnelVars
        => [race' = "none" => \A c \in Conns : Noticing(c) => Notices(c)]_tunnelVars
    <2> SUFFICES ASSUME TunnelInv, LoadedFresh, TunnelNext, race' = "none", NEW c \in Conns, Noticing(c)
                 PROVE  Notices(c)
        BY RaceKept
    <2>0. pc["main"] \in NoticePc
        BY DEF Noticing, DeadSend, NoticePc
    <2>1. CASE BeginCall \/ InCall \/ EndCall
        BY <2>1, CallNotices
    <2>2. CASE LocalStep \/ Reset
        BY <2>2, EngineNotices
    <2>3. CASE QuicStep
        BY <2>3, CallbackNotices
    <2>4. CASE HandlerStep
        BY <2>4, HandlerNotices
    <2>5. ~(ReadPacket \/ ReadFrames \/ Deadline \/ Exit)
        BY <2>0 DEF ReadPacket, ReadFrames, Deadline, Exit, RelayOutbound, RelayInbound, LoopDeadline,
               Destroy, Move, NoticePc
    <2>6. ~StopStep("main")
        BY <2>0, StopBuffersStep DEF StopStep, StopFlag, StopClosing, StopRouting, StopTransport,
               StopInterface, StopStopped, Transition, Move, NoticePc, Threads
    <2>7. ~CloseCall("main") /\ ~Misuse
        BY <2>0, MainNotClosing DEF Misuse, Undefined, NoticePc, Early, Before
    <2> QED
        BY <2>1, <2>2, <2>3, <2>4, <2>5, <2>6, <2>7 DEF TunnelNext, MainStep
<1> QED
    BY <1>1, <1>2, <1>3, EngineInvariance, TunnelInvariance, PTL DEF TunnelSpec
-----------------------------------------------------------------------------
(* A client that is connected is served. *)

\* open_data_channel() will come back with a channel, if a client is there.
OpenSucceeds == call # "returned" \/ ret

\* The places between the main thread and an established session while the session
\* waits for a client.
WaitLeft(place, succeeds) ==
    CASE place = "establish" -> 1
      [] place = "ensureRouting" -> 2
      [] place = "openChannel" -> IF succeeds THEN 3 ELSE 7
      [] place = "ensure" -> 4
      [] place = "check" -> 5
      [] place = "loop" -> 6
      [] place \in {"inbound", "relayFailed", "clientFailed", "reset4"} -> 7
      [] place \in {"send", "relay", "reset3"} -> 8
      [] place \in {"read", "reset2"} -> 9
      [] place = "reset1" -> 10
      [] place = "reset" -> 11
      [] place = "recheck" -> 12
      [] OTHER -> 0

\* The same while it does not: after the reset the main thread is at the loop's head.
ServePlaces ==
    IF session.state = "handshaking" THEN WaitLeft(pc["main"], OpenSucceeds)
                                     ELSE 6 + ResetLeft(pc["main"], ResetSucceeds)

\* The same in steps; each store of the handler can spoil one attempt.
ServeLeft ==
    36 * (2 - HandlerStores) + 2 * ServePlaces + (IF loaded["main"] = "none" THEN 1 ELSE 0)

\* The steps left in a call of the transport.
CallLeft ==
    CASE call = "idle" -> 3
      [] call \in {"performWait", "openWait", "sendWait"} -> 2
      [] call \in {"streamWait", "sendDone"} -> 1
      [] OTHER -> 0

\* A server in its loop without an established session.
Unserved ==
    /\ IsServer /\ pc["main"] \in LoopPc \cup {"stop"}
    /\ ~CanSendData(session) /\ ~stopRequested

\* Such a server and a client that is connected and has opened its stream.
Waiting(c) == Unserved /\ ~hs.failed /\ phase[c] = "connected" /\ streamUp[c]

Served(c) == CanSendData(session) \/ stopRequested \/ hs.failed \/ phase[c] # "connected"

\* The client is served, or nearer to that, or the main thread has not moved.
Serves(c) ==
    \/ Served(c)'
    \/ /\ Waiting(c)' /\ ServeLeft' <= ServeLeft
       /\ \/ ServeLeft' < ServeLeft
          \/ /\ UNCHANGED <<pc["main"], loaded["main"]>>
             /\ CallLeft' < CallLeft \/ UNCHANGED <<call, ret>>

\* A stream that was started has made the channel ready, and after connect() the
\* state shared with the callbacks is there.
StreamsReady ==
    /\ \A c \in Conns : streamUp[c] => chan.ready
    /\ pc["main"] \notin Early => contexts # "none"
    /\ call = "startOpen" \/ (call = "returned" /\ ret /\ pc["main"] = "connect") => contexts # "none"

\* The next state's number of places, written out.
LEMMA ServeNext ==
    /\ session'.state = "handshaking" => ServePlaces' = WaitLeft(pc'["main"], OpenSucceeds')
    /\ session'.state # "handshaking" => ServePlaces' = 6 + ResetLeft(pc'["main"], ResetSucceeds')
BY DEF ServePlaces, WaitLeft, ResetLeft

\* The numbers are numbers.
LEMMA ServeTypes ==
    /\ \A place, succeeds : WaitLeft(place, succeeds) \in 0..12
    /\ ServePlaces \in 0..17 /\ ServePlaces' \in 0..17
    /\ ServeLeft \in Nat /\ ServeLeft' \in Nat
    /\ ServeLeft' = 36 * (2 - HandlerStores') + 2 * ServePlaces'
                      + (IF loaded'["main"] = "none" THEN 1 ELSE 0)
<1>1. \A place, succeeds : WaitLeft(place, succeeds) \in 0..12
    BY DEF WaitLeft
<1>2. ServePlaces \in 0..17
    BY <1>1, RecoveryTypes DEF ServePlaces
<1>3. ServePlaces' \in 0..17
    BY <1>1, RecoveryTypes, ServeNext
<1>4. ServeLeft' = 36 * (2 - HandlerStores') + 2 * ServePlaces'
                     + (IF loaded'["main"] = "none" THEN 1 ELSE 0)
    BY DEF ServeLeft
<1>5. ServeLeft \in Nat
    BY <1>2, RecoveryTypes DEF ServeLeft
<1>6. ServeLeft' \in Nat
    <2> DEFINE places == ServePlaces'
               stores == HandlerStores'
    <2>1. places \in 0..17 /\ stores \in 0..2
        BY <1>3, RecoveryTypes
    <2>2. ServeLeft' = 36 * (2 - stores) + 2 * places + (IF loaded'["main"] = "none" THEN 1 ELSE 0)
        BY <1>4
    <2> HIDE DEF places, stores
    <2> QED
        BY <2>1, <2>2
<1> QED
    BY <1>1, <1>2, <1>3, <1>4, <1>5, <1>6

\* A step of the main thread to a nearer place, or the read of a transition.
ServeNears ==
    /\ pc'["handler"] = pc["handler"]
    /\ \/ ServePlaces' < ServePlaces
       \/ ServePlaces' <= ServePlaces /\ loaded["main"] = "none" /\ loaded'["main"] # "none"

\* Such a step brings the established session nearer.
LEMMA ServeNearer ==
    ASSUME ServeNears
    PROVE  ServeLeft' < ServeLeft
<1>1. HandlerStores' = HandlerStores /\ HandlerStores \in 0..2
    BY RecoveryTypes DEF HandlerStores, ServeNears
<1> DEFINE before == ServePlaces
           after == ServePlaces'
<1>2. ServeLeft = 36 * (2 - HandlerStores) + 2 * before + (IF loaded["main"] = "none" THEN 1 ELSE 0)
    BY DEF ServeLeft
<1>3. ServeLeft' = 36 * (2 - HandlerStores) + 2 * after + (IF loaded'["main"] = "none" THEN 1 ELSE 0)
    BY <1>1, ServeTypes
<1>4. before \in 0..17 /\ after \in 0..17
    BY ServeTypes
<1>5. after < before \/ (after <= before /\ loaded["main"] = "none" /\ loaded'["main"] # "none")
    BY DEF ServeNears
<1> HIDE DEF before, after
<1> QED
    BY <1>1, <1>2, <1>3, <1>4, <1>5

\* The steps of the loop that call nothing of the transport that waits.
LoopStep ==
    \/ LoopHead \/ LoopDeadline \/ LoopCheck \/ EnsureBegin \/ EnsureRouting \/ EnsureEstablish
    \/ LoopRecheck \/ RelayBegin
    \/ \E packet \in {"none", "sealed", "unsealed"} : RelayOutbound(packet)
    \/ RelayInbound \/ RelayFailed \/ ClientFailed \/ ResetTransport \/ ResetSession

\* The step of the main thread has led to an established session or nearer to one.
Advances == CanSendData(session)' \/ stopRequested' \/ (Unserved' /\ ServeNears)

\* A step between two places of a session that waits.
LEMMA MoveServes ==
    ASSUME Unserved, session.state = "handshaking", UNCHANGED <<app, session, stopRequested>>,
           pc'["handler"] = pc["handler"], pc'["main"] \in LoopPc \cup {"stop"},
           WaitLeft(pc'["main"], OpenSucceeds') < WaitLeft(pc["main"], OpenSucceeds)
    PROVE  Advances
<1>1. ServePlaces' = WaitLeft(pc'["main"], OpenSucceeds') /\ ServePlaces = WaitLeft(pc["main"], OpenSucceeds)
    BY ServeNext DEF ServePlaces
<1>2. ServeNears
    BY <1>1 DEF ServeNears
<1>3. Unserved'
    BY DEF Unserved, IsServer, CanSendData
<1> QED
    BY <1>2, <1>3 DEF Advances

\* A transition of the main thread that reads, or goes on without a store, or stores.
LEMMA TransitionServes ==
    ASSUME TypeOK, NEW here, NEW from, NEW next, NEW yes, NEW no,
           Transition("main", here, from, next, yes, no)
    PROVE  /\ pc["main"] = here /\ pc'["handler"] = pc["handler"] /\ UNCHANGED <<app, stopRequested>>
           /\ \/ /\ loaded["main"] = "none" /\ loaded'["main"] # "none"
                 /\ session' = session /\ pc'["main"] = here
              \/ /\ loaded["main"] \in from /\ loaded["main"] # "none" /\ Allowed(loaded["main"], next)
                 /\ session'.state = next /\ pc'["main"] = yes
              \/ /\ ~(loaded["main"] \in from /\ Allowed(loaded["main"], next)) /\ loaded["main"] # "none"
                 /\ session' = session /\ pc'["main"] = no
<1>1. session.state # "none" /\ "main" \in Threads /\ "handler" \in Threads
    BY DEF TypeOK, SessionState, Threads
<1>2. pc["main"] = here /\ UNCHANGED <<app, stopRequested>>
    BY DEF Transition
<1>3. CASE loaded["main"] = "none"
    BY <1>1, <1>2, <1>3 DEF Transition, TypeOK
<1>4. CASE loaded["main"] # "none" /\ loaded["main"] \in from /\ Allowed(loaded["main"], next)
    BY <1>1, <1>2, <1>4 DEF Transition, Goto, Store, TypeOK
<1>5. CASE loaded["main"] # "none" /\ ~(loaded["main"] \in from /\ Allowed(loaded["main"], next))
    BY <1>1, <1>2, <1>5 DEF Transition, Goto, TypeOK
<1> QED
    BY <1>3, <1>4, <1>5

\* The loop takes a session that waits to its establishment: nothing it has read
\* of it is stale.
LEMMA WaitServes ==
    ASSUME TypeOK, LoadedFresh, Unserved, session.state = "handshaking", LoopStep,
           UNCHANGED <<call, ret>>, pc["main"] = "ensure" => call = "idle"
    PROVE  Advances
<1> DEFINE Goes(here, place) ==
               /\ pc["main"] = here /\ pc'["main"] = place /\ pc'["handler"] = pc["handler"]
               /\ UNCHANGED <<app, session, stopRequested>>
<1>0. /\ IsServer /\ ~stopRequested /\ ~CanSendData(session) /\ OpenSucceeds' = OpenSucceeds
      /\ loaded["main"] \in {"none", "handshaking"}
    BY DEF Unserved, OpenSucceeds, LoadedFresh
<1>1. ASSUME NEW here, NEW place, Move("main", here, place) PROVE Goes(here, place)
    BY <1>1 DEF Move, Goto, TypeOK, Threads
<1>2. ASSUME \/ Goes("loop", "check") \/ Goes("loop", "stop") \/ Goes("check", "ensure")
             \/ Goes("ensureRouting", "establish") \/ Goes("inbound", "loop")
             \/ Goes("recheck", "reset") \/ Goes("relay", "relayFailed")
             \/ Goes("relayFailed", "loop") \/ Goes("read", "inbound") \/ Goes("read", "send")
             \/ Goes("read", "relayFailed") \/ Goes("reset", "reset1")
             \/ Goes("reset1", "reset2") \/ Goes("reset2", "reset3")
             \/ Goes("reset3", "reset4") \/ Goes("reset4", "loop")
      PROVE  Advances
    <2>1. WaitLeft(pc'["main"], OpenSucceeds') < WaitLeft(pc["main"], OpenSucceeds)
        BY <1>2 DEF WaitLeft
    <2>2. pc'["main"] \in LoopPc \cup {"stop"}
        BY <1>2 DEF LoopPc
    <2> QED
        BY <1>2, <2>1, <2>2, MoveServes
<1>3. ASSUME loaded["main"] = "none", loaded'["main"] # "none", session' = session,
             pc'["main"] = pc["main"], pc'["handler"] = pc["handler"], UNCHANGED <<app, stopRequested>>
      PROVE  Advances
    <2>1. ServePlaces' = ServePlaces /\ ServePlaces \in 0..17
        BY <1>0, <1>3, ServeNext, ServeTypes DEF ServePlaces
    <2>2. ServeNears /\ Unserved'
        BY <1>3, <2>1 DEF ServeNears, Unserved, IsServer, CanSendData
    <2> QED
        BY <2>2 DEF Advances
<1> HIDE DEF Goes
<1>4. CASE LoopHead \/ LoopDeadline \/ LoopCheck
    BY <1>0, <1>1, <1>2, <1>4 DEF LoopHead, LoopDeadline, LoopCheck
<1>5. CASE EnsureBegin
    <2>1. Goes("ensure", "openChannel")
        BY <1>0, <1>1, <1>5 DEF EnsureBegin
    <2>2. OpenSucceeds'
        BY <2>1 DEF OpenSucceeds, Goes
    <2>3. WaitLeft("openChannel", TRUE) < WaitLeft("ensure", OpenSucceeds)
        BY DEF WaitLeft
    <2> QED
        BY <2>1, <2>2, <2>3, MoveServes DEF Goes, LoopPc
<1>6. CASE EnsureRouting \/ RelayInbound \/ LoopRecheck \/ RelayBegin \/ RelayFailed
    BY <1>0, <1>1, <1>2, <1>6 DEF EnsureRouting, RelayInbound, LoopRecheck, RelayBegin, RelayFailed
<1>7. ASSUME NEW packet, RelayOutbound(packet) PROVE Advances
    BY <1>1, <1>2, <1>7 DEF RelayOutbound
<1>8. CASE ResetTransport
    <2>1. Goes("reset", "reset1")
        BY <1>8 DEF ResetTransport, Goto, TypeOK, Threads, Goes
    <2> QED
        BY <1>2, <2>1
<1>9. CASE EnsureEstablish
    <2>1. Allowed("handshaking", "established") /\ "handshaking" \in SessionState
        BY DEF Allowed, SessionState
    <2>2. \/ /\ loaded["main"] = "none" /\ loaded'["main"] # "none" /\ session' = session
             /\ pc'["main"] = pc["main"] /\ pc'["handler"] = pc["handler"] /\ UNCHANGED <<app, stopRequested>>
          \/ session'.state = "established"
        BY <1>0, <1>9, <2>1, TransitionServes DEF EnsureEstablish
    <2> QED
        BY <1>3, <2>2 DEF Advances, CanSendData
<1>10. CASE ClientFailed
    <2>1. /\ pc["main"] = "clientFailed" /\ pc'["handler"] = pc["handler"] /\ UNCHANGED <<app, stopRequested>>
          /\ \/ /\ loaded["main"] = "none" /\ loaded'["main"] # "none"
                /\ session' = session /\ pc'["main"] = pc["main"]
             \/ pc'["main"] = "stop" /\ session'.state \in {"handshaking", "failed"}
        BY <1>10, TransitionServes DEF ClientFailed
    <2>2. ASSUME pc'["main"] = "stop", session'.state \in {"handshaking", "failed"} PROVE Advances
        <3>1. ServePlaces = 7
            BY <2>1 DEF ServePlaces, WaitLeft
        <3>2. ServePlaces' \in {0, 6}
            BY <2>2, ServeNext DEF WaitLeft, ResetLeft
        <3>3. ServeNears /\ Unserved'
            BY <1>0, <2>1, <2>2, <3>1, <3>2 DEF ServeNears, Unserved, IsServer, CanSendData
        <3> QED
            BY <3>3 DEF Advances
    <2> QED
        BY <1>3, <2>1, <2>2
<1>11. CASE ResetSession
    <2>1. ASSUME NEW here, NEW place, NEW from, NEW next, "handshaking" \notin from,
                 Transition("main", here, from, next, place, place)
          PROVE  \/ /\ loaded["main"] = "none" /\ loaded'["main"] # "none" /\ session' = session
                    /\ pc'["main"] = pc["main"] /\ pc'["handler"] = pc["handler"]
                    /\ UNCHANGED <<app, stopRequested>>
                 \/ Goes(here, place)
        BY <1>0, <2>1, TransitionServes DEF Goes
    <2>2. CASE Transition("main", "reset1", {"established"}, "closing", "reset2", "reset2")
        BY <1>2, <1>3, <2>1, <2>2
    <2>3. CASE Transition("main", "reset2", {"closing", "failed"}, "stopped", "reset3", "reset3")
        BY <1>2, <1>3, <2>1, <2>3
    <2>4. CASE Transition("main", "reset3", {"stopped"}, "connecting", "reset4", "reset4")
        BY <1>2, <1>3, <2>1, <2>4
    <2>5. CASE Transition("main", "reset4", {"connecting"}, "handshaking", "loop", "loop")
        BY <1>2, <1>3, <2>1, <2>5
    <2> QED
        BY <1>11, <2>2, <2>3, <2>4, <2>5 DEF ResetSession
<1> QED
    BY <1>4, <1>5, <1>6, <1>7, <1>8, <1>9, <1>10, <1>11 DEF LoopStep

\* A session that does not wait is reset, and waits again nearer to its establishment.
LEMMA BrokenServes ==
    ASSUME TypeOK, Unserved, session.state # "handshaking",
           LoopNext \/ LoopDeadline \/ \E ok \in BOOLEAN : OpenChannel(ok)
    PROVE  Advances
<1>0. /\ Recovering /\ ServePlaces = 6 + ResetLeft(pc["main"], ResetSucceeds)
      /\ ResetLeft(pc["main"], ResetSucceeds) \in 0..11
    BY RecoveryTypes DEF Unserved, Recovering, CanSendData, ServePlaces
<1>1. ASSUME Recovering', ResetNears PROVE Advances
    <2>1. session'.state # "handshaking"
        BY <1>1 DEF Recovering
    <2>2. ServePlaces' = 6 + ResetLeft(pc'["main"], ResetSucceeds')
          /\ ResetLeft(pc'["main"], ResetSucceeds') \in 0..11
        BY <2>1, ServeNext, RecoveryTypes
    <2>3. ServeNears
        BY <1>0, <1>1, <2>2 DEF ServeNears, ResetNears
    <2>4. Unserved'
        BY <1>1 DEF Recovering, Unserved, CanSendData
    <2> QED
        BY <2>3, <2>4 DEF Advances
<1>2. CASE \E ok \in BOOLEAN : OpenChannel(ok)
    BY <1>0, <1>1, <1>2, OpenRecovers
<1>3. CASE (LoopNext \/ LoopDeadline) /\ session'.state = "handshaking"
    <2>1. /\ pc["main"] = "reset4" /\ pc'["main"] = "loop" /\ pc'["handler"] = pc["handler"]
          /\ UNCHANGED <<app, stopRequested>>
        BY <1>0, <1>3, WaitsAgain
    <2>2. ServePlaces' = 6
        BY <1>3, <2>1, ServeNext DEF WaitLeft
    <2>3. ServePlaces \in {7, 15}
        BY <1>0, <2>1 DEF ResetLeft
    <2>4. ServeNears /\ Unserved'
        BY <1>3, <2>1, <2>2, <2>3 DEF ServeNears, Unserved, IsServer, CanSendData, LoopPc
    <2> QED
        BY <2>4 DEF Advances
<1>4. CASE (LoopNext \/ LoopDeadline) /\ session'.state # "handshaking"
    <2>1. Recovered' \/ (Recovering' /\ ResetNears)
        BY <1>0, <1>4, LoopRecovers
    <2> QED
        BY <1>1, <1>4, <2>1 DEF Recovered, Advances, CanSendData
<1> QED
    BY <1>2, <1>3, <1>4

\* What led nearer to an established session serves the client, if nothing has
\* happened to its connection.
LEMMA AdvanceServes ==
    ASSUME NEW c \in Conns, Waiting(c), Advances, UNCHANGED <<hs, phase, streamUp>>
    PROVE  Serves(c)
<1>1. CASE CanSendData(session)' \/ stopRequested'
    BY <1>1 DEF Serves, Served
<1>2. CASE Unserved' /\ ServeNears
    <2>1. ServeLeft' < ServeLeft
        BY <1>2, ServeNearer
    <2>2. Waiting(c)'
        BY <1>2 DEF Waiting
    <2>3. ServeLeft \in Nat /\ ServeLeft' \in Nat
        BY ServeTypes
    <2> QED
        BY <2>1, <2>2, <2>3 DEF Serves
<1> QED
    BY <1>1, <1>2 DEF Advances

\* The engine's own steps.
LEMMA OwnServes ==
    ASSUME TunnelInv, LoadedFresh, NEW c \in Conns, Waiting(c),
           LocalStep \/ ReadPacket \/ ReadFrames \/ Reset \/ Deadline
    PROVE  Serves(c)
<1>0. TypeOK /\ Unserved /\ pc["main"] \in LoopPc \cup {"stop"}
    BY DEF TunnelInv, Waiting, Unserved
<1>1. Quiet
    BY OwnStepQuiet DEF OwnStep
<1>2. UNCHANGED <<call, ret, hs, phase, streamUp>>
    BY <1>1 DEF Quiet, Harmless, quicVars
<1>3. LoopStep
    <2>1. CASE LocalStep
        BY <1>0, <2>1, StartBuffersStep DEF LocalStep, LoopStep, LoopPc, StartBegin, StartOpen, Started, StartRouting,
               StartConnecting, StartHandshaking, StartClearFlag, StartEstablished, StartFailed, Move,
               Transition
    <2> QED
        BY <2>1 DEF ReadPacket, ReadFrames, Reset, Deadline, LoopStep
<1>4. pc["main"] = "ensure" => call = "idle"
    BY DEF TunnelInv, CallAt, CallPc
<1>5. LoopNext \/ LoopDeadline
    BY <1>3 DEF LoopStep, LoopNext
<1>6. Advances
    BY <1>0, <1>2, <1>3, <1>4, <1>5, WaitServes, BrokenServes
<1> QED
    BY <1>2, <1>6, AdvanceServes

\* The engine takes the result of a call: a channel, or none and then it tries again.
LEMMA EndCallServes ==
    ASSUME TunnelInv, NEW c \in Conns, Waiting(c), EndCall
    PROVE  Serves(c)
<1>0. TypeOK /\ Unserved /\ pc["main"] \in LoopPc \cup {"stop"}
    BY DEF TunnelInv, Waiting, Unserved
<1>1. PICK ok \in BOOLEAN :
        /\ Take(ok)
        /\ \/ StartConnect(ok) \/ StartPerform(ok) \/ StartChannel(ok)
           \/ OpenChannel(ok) \/ RelaySend(ok)
    BY DEF EndCall
<1>2. OpenChannel(ok) \/ RelaySend(ok)
    BY <1>0, <1>1 DEF StartConnect, StartPerform, StartChannel, Move, LoopPc
<1>3. /\ call = "returned" /\ ret = ok /\ call' = "idle" /\ UNCHANGED <<ret, hs, phase, streamUp>>
    BY <1>1 DEF Take, quicVars
<1>4. CASE session.state # "handshaking"
    <2>1. LoopNext \/ \E x \in BOOLEAN : OpenChannel(x)
        BY <1>2 DEF LoopNext
    <2> QED
        BY <1>0, <1>3, <1>4, <2>1, BrokenServes, AdvanceServes
<1>5. CASE session.state = "handshaking"
    <2>1. /\ UNCHANGED <<app, session, stopRequested>> /\ pc'["handler"] = pc["handler"]
          /\ \/ pc["main"] = "openChannel" /\ pc'["main"] = IF ok THEN "ensureRouting" ELSE "loop"
             \/ pc["main"] = "send" /\ pc'["main"] \in {"inbound", "relayFailed"}
        BY <1>0, <1>2 DEF OpenChannel, RelaySend, Move, Goto, TypeOK, Threads
    <2>2. OpenSucceeds = ok
        BY <1>3 DEF OpenSucceeds
    <2>3. WaitLeft(pc'["main"], OpenSucceeds') < WaitLeft(pc["main"], OpenSucceeds)
        BY <2>1, <2>2 DEF WaitLeft
    <2>4. Advances
        BY <1>0, <1>5, <2>1, <2>3, MoveServes DEF LoopPc
    <2> QED
        BY <1>3, <2>4, AdvanceServes
<1> QED
    BY <1>4, <1>5

\* A call goes on: it does not give up, since the client is connected and its stream
\* has made the channel ready.
LEMMA CallServes ==
    ASSUME TunnelInv, StreamsReady, NEW c \in Conns, Waiting(c), BeginCall \/ InCall
    PROVE  Serves(c)
<1>0. /\ TypeOK /\ Unserved /\ pc["main"] \in LoopPc \cup {"stop"}
      /\ hs.connected /\ ~hs.failed /\ chan.ready /\ contexts # "none"
    BY DEF TunnelInv, StreamReady, StreamsReady, Waiting, Unserved, LoopPc, Early, Before
<1>1. UNCHANGED engineVars
    BY DEF BeginCall, InCall
<1>2. /\ UNCHANGED <<hs, phase, streamUp>> /\ CallLeft' < CallLeft
      /\ pc["main"] = "openChannel" => OpenSucceeds' = OpenSucceeds
    <2>1. CASE BeginCall
        <3>1. OpenDataChannel \/ (pc["main"] = "send" /\ SendPayload)
            BY <1>0, <2>1 DEF BeginCall, LoopPc
        <3>2. CASE OpenDataChannel
            BY <3>2 DEF OpenDataChannel, Return, CallLeft, OpenSucceeds, quicVars
        <3>3. CASE pc["main"] = "send" /\ SendPayload
            BY <3>3 DEF SendPayload, Return, CallLeft, quicVars
        <3> QED
            BY <3>1, <3>2, <3>3
    <2>2. CASE InCall
        <3>1. /\ call \notin ConnectCalls \cup {"performWait"}
              /\ call \in {"sendWait", "sendDone"} => pc["main"] = "send"
            BY <1>0 DEF TunnelInv, CallAt, LoopPc
        <3>2. HandshakeWait \/ StreamWait \/ SendWait \/ WaitTimeout \/ \E ok \in BOOLEAN : StreamSend(ok)
            BY <2>2, <3>1 DEF InCall, Proceed, EnsureApiOpen, OpenRegistration, LoadConfiguration, Open,
                   NewContexts, StartOpenFailed, StartListener, OpenConnection, ConnectCalls
        <3>3. CASE HandshakeWait
            BY <1>0, <3>1, <3>3 DEF HandshakeWait, CallLeft, OpenSucceeds, quicVars
        <3>4. CASE StreamWait
            BY <3>4 DEF StreamWait, Return, CallLeft, OpenSucceeds, quicVars
        <3>5. CASE SendWait
            BY <3>1, <3>5 DEF SendWait, Return, CallLeft, quicVars
        <3>6. CASE WaitTimeout
            <4>1. call \in {"sendWait", "sendDone"}
                BY <1>0, <3>6 DEF WaitTimeout, HandshakeDone
            <4> QED
                BY <3>1, <3>6, <4>1 DEF WaitTimeout, Return, CallLeft, quicVars
        <3>7. ASSUME NEW ok \in BOOLEAN, StreamSend(ok)
              PROVE  /\ UNCHANGED <<hs, phase, streamUp>> /\ CallLeft' < CallLeft
                     /\ pc["main"] = "send"
            <4>1. call = "sendWait" /\ call' \in {"sendDone", "returned"} /\ UNCHANGED <<hs, phase, streamUp>>
                BY <3>7 DEF StreamSend, Return
            <4> QED
                BY <3>1, <4>1 DEF CallLeft
        <3> QED
            BY <3>2, <3>3, <3>4, <3>5, <3>6, <3>7
    <2> QED
        BY <2>1, <2>2
<1>3. ServeLeft' = ServeLeft /\ ServeLeft \in Nat
    <2>1. ServePlaces' = ServePlaces
        <3>1. CASE session.state = "handshaking"
            <4>1. WaitLeft(pc["main"], OpenSucceeds') = WaitLeft(pc["main"], OpenSucceeds)
                BY <1>2 DEF WaitLeft
            <4> QED
                BY <1>1, <3>1, <4>1, ServeNext DEF ServePlaces, engineVars
        <3>2. CASE session.state # "handshaking"
            <4>1. ResetSucceeds' = ResetSucceeds
                BY <1>1 DEF ResetSucceeds, engineVars
            <4> QED
                BY <1>1, <3>2, <4>1, ServeNext DEF ServePlaces, engineVars
        <3> QED
            BY <3>1, <3>2
    <2>2. HandlerStores' = HandlerStores /\ loaded' = loaded
        BY <1>1 DEF HandlerStores, engineVars
    <2> QED
        BY <2>1, <2>2, ServeTypes DEF ServeLeft
<1>4. Waiting(c)'
    BY <1>1, <1>2 DEF Waiting, Unserved, IsServer, CanSendData, engineVars
<1> QED
    BY <1>1, <1>2, <1>3, <1>4 DEF Serves, engineVars

\* A callback fails the handshake, ends the connection, or changes nothing for the
\* client: its stream stays.
LEMMA CallbackServes ==
    ASSUME TunnelInv, NEW c \in Conns, Waiting(c), QuicStep
    PROVE  Serves(c)
<1>1. PICK d \in Conns :
        \/ NewConnection(d) \/ Connected(d) \/ \E ok \in BOOLEAN : OpenClientStream(d, ok)
        \/ PeerStreamStarted(d) \/ Receive(d) \/ SendComplete(d)
        \/ ShutdownByTransport(d) \/ ShutdownByPeer(d) \/ ShutdownComplete(d)
    BY DEF QuicStep, Callback
<1>2. UNCHANGED <<engineVars, call, ret>>
    BY <1>1 DEF QuicStep, NewConnection, Connected, OpenClientStream, PeerStreamStarted, Receive, SendComplete,
           ShutdownByTransport, ShutdownByPeer, ShutdownComplete, objectVars
<1>3. streamUp'[c]
    BY <1>1 DEF NewConnection, Connected, OpenClientStream, PeerStreamStarted, Receive, SendComplete, quicVars,
           AttachStream, ShutdownByTransport, ShutdownByPeer, ShutdownComplete, TunnelInv, TransportTypeOK, Waiting
<1>4. ServeLeft' = ServeLeft /\ ServeLeft \in Nat
    <2>1. ResetSucceeds' = ResetSucceeds /\ OpenSucceeds' = OpenSucceeds /\ HandlerStores' = HandlerStores
        BY <1>2 DEF ResetSucceeds, OpenSucceeds, HandlerStores, engineVars
    <2>2. ServePlaces' = ServePlaces
        BY <1>2, <2>1, ServeNext DEF ServePlaces, engineVars
    <2> QED
        BY <1>2, <2>1, <2>2, ServeTypes DEF ServeLeft, engineVars
<1>5. Served(c)' \/ Waiting(c)'
    BY <1>2, <1>3 DEF Served, Waiting, Unserved, IsServer, CanSendData, engineVars
<1> QED
    BY <1>2, <1>4, <1>5 DEF Serves, engineVars

\* The handler requests a stop, or pays for what its store may spoil.
LEMMA HandlerServes ==
    ASSUME TunnelInv, NEW c \in Conns, Waiting(c), HandlerStep
    PROVE  Serves(c)
<1>0. TypeOK /\ Unserved
    BY DEF TunnelInv, Waiting
<1>1. UNCHANGED <<call, ret, hs, phase, streamUp>>
    <2>1. Quiet
        BY OwnStepQuiet DEF HandlerStep, OwnStep, Threads
    <2> QED
        BY <2>1 DEF Quiet, Harmless, quicVars
<1>2. HandlerNext \/ UNCHANGED engineVars
    BY DEF HandlerStep, CloseCall, StopStep, HandlerNext, Stop
<1>3. pc'["main"] = pc["main"] /\ loaded'["main"] = loaded["main"]
    BY <1>0, <1>2, HandlerAside DEF engineVars
<1>4. ASSUME UNCHANGED <<app, stopRequested>>, session'.state \in {session.state, "closing", "stopped"},
             ServeLeft' <= ServeLeft
      PROVE  Serves(c)
    <2>1. Waiting(c)'
        BY <1>0, <1>1, <1>3, <1>4 DEF Waiting, Unserved, IsServer, CanSendData
    <2> QED
        BY <1>1, <1>3, <1>4, <2>1 DEF Serves
<1>5. ASSUME UNCHANGED <<app, stopRequested>>, session' = session, HandlerStores' = HandlerStores
      PROVE  Serves(c)
    <2>1. ResetSucceeds' = ResetSucceeds /\ OpenSucceeds' = OpenSucceeds
        BY <1>1, <1>3, <1>5 DEF ResetSucceeds, OpenSucceeds
    <2>2. ServePlaces' = ServePlaces
        BY <1>3, <1>5, <2>1, ServeNext DEF ServePlaces
    <2>3. ServeLeft' = ServeLeft /\ ServeLeft \in Nat
        BY <1>3, <1>5, <2>2, ServeTypes DEF ServeLeft
    <2> QED
        BY <1>4, <1>5, <2>3
<1>6. ASSUME UNCHANGED <<app, stopRequested>>, session'.state \in {session.state, "closing", "stopped"},
             HandlerStores' = HandlerStores + 1
      PROVE  Serves(c)
    <2> DEFINE before == ServePlaces
               after == ServePlaces'
    <2>1. before \in 0..17 /\ after \in 0..17 /\ HandlerStores \in 0..2
        BY ServeTypes, RecoveryTypes
    <2>2. ServeLeft = 36 * (2 - HandlerStores) + 2 * before + (IF loaded["main"] = "none" THEN 1 ELSE 0)
        BY DEF ServeLeft
    <2>3. ServeLeft' = 36 * (2 - (HandlerStores + 1)) + 2 * after
                         + (IF loaded["main"] = "none" THEN 1 ELSE 0)
        BY <1>3, <1>6, ServeTypes
    <2> HIDE DEF before, after
    <2>4. ServeLeft' <= ServeLeft
        BY <2>1, <2>2, <2>3
    <2> QED
        BY <1>4, <1>6, <2>4
<1> QED
    <2>1. CASE HandlerNext
        BY <1>0, <1>5, <1>6, <2>1, HandlerStoresTwice DEF Serves, Served
    <2>2. CASE UNCHANGED engineVars
        BY <1>5, <2>2 DEF engineVars, HandlerStores
    <2> QED
        BY <1>2, <2>1, <2>2

\* Every step keeps StreamsReady: whoever starts a stream makes the channel ready, and
\* nothing that is ready is dropped.
LEMMA StreamsStep ==
    ASSUME TunnelInv, StreamsReady, [TunnelNext]_tunnelVars, race' = "none"
    PROVE  StreamsReady'
<1> USE DEF StreamsReady
<1>0. chan \in Channels /\ (call \in ConnectCalls => pc["main"] = "connect")
    BY DEF TunnelInv, TransportTypeOK, Channels, CallAt
<1>1. CASE BeginCall
    BY <1>1 DEF BeginCall, ConnectBegin, PerformHandshake, OpenDataChannel, SendPayload, Return, quicVars,
           engineVars, Early, Before
<1>2. CASE InCall
    <2>1. CASE NewContexts
        <3>1. Blank
            BY <2>1 DEF NewContexts, TunnelInv, CallAt, Pristine, ConnectCalls, Before
        <3> QED
            BY <2>1, <3>1 DEF NewContexts, Blank, quicVars
    <2>2. CASE \/ \E ok \in BOOLEAN : EnsureApiOpen(ok) \/ OpenRegistration(ok) \/ LoadConfiguration(ok)
               \/ StartOpenFailed \/ StartListener \/ \E c \in Conns : OpenConnection(c)
        BY <1>0, <1>2, <2>2 DEF InCall, EnsureApiOpen, OpenRegistration, LoadConfiguration, Open, Return,
               StartOpenFailed, StartListener, OpenConnection, quicVars, engineVars
    <2>3. CASE HandshakeWait \/ StreamWait \/ SendWait \/ WaitTimeout \/ \E ok \in BOOLEAN : StreamSend(ok)
        <3>1. /\ UNCHANGED <<contexts, streamUp, pc>> /\ chan'.ready = chan.ready
              /\ call \in WaitCalls /\ call' # "startOpen"
            BY <1>0, <1>2, <2>3 DEF InCall, HandshakeWait, StreamWait, SendWait, WaitTimeout, StreamSend, Return,
                   quicVars, engineVars, WaitCalls, Channels
        <3>2. pc["main"] \notin Early
            BY <3>1 DEF TunnelInv, CallAt, WaitCalls, Early, Before
        <3> QED
            BY <3>1, <3>2
    <2> QED
        BY <1>2, <2>1, <2>2, <2>3 DEF InCall, Proceed
<1>2a. CASE EndCall
    <2>1. PICK ok \in BOOLEAN :
            /\ Take(ok)
            /\ \/ StartConnect(ok) \/ StartPerform(ok) \/ StartChannel(ok)
               \/ OpenChannel(ok) \/ RelaySend(ok)
        BY <1>2a DEF EndCall
    <2>2. pc["main"] \notin Early \/ (pc["main"] = "connect" /\ (ok \/ pc'["main"] = "startFailed"))
        BY <2>1 DEF StartConnect, StartPerform, StartChannel, OpenChannel, RelaySend, Move, Goto, TunnelInv,
               TypeOK, Threads, Early, Before
    <2> QED
        BY <2>1, <2>2 DEF Take, quicVars, Early
<1>2b. CASE OwnStep
    <2>1. Quiet
        BY <1>2b, OwnStepQuiet
    <2>2. /\ UNCHANGED <<contexts, streamUp, call, ret>> /\ chan'.ready = chan.ready
          /\ pc["main"] \in Early => pc'["main"] \in Early
          /\ call # "idle" => pc'["main"] = pc["main"]
        BY <2>1 DEF Quiet, Harmless, OnTheWay, quicVars, TunnelInv, CallAt
    <2> QED
        BY <2>2
<1>3. CASE QuicStep
    <2>0. chan \in Channels
        BY DEF TunnelInv, TransportTypeOK, Channels
    <2>1. PICK d \in Conns :
            \/ NewConnection(d) \/ Connected(d) \/ \E ok \in BOOLEAN : OpenClientStream(d, ok)
            \/ PeerStreamStarted(d) \/ Receive(d) \/ SendComplete(d)
            \/ ShutdownByTransport(d) \/ ShutdownByPeer(d) \/ ShutdownComplete(d)
        BY <1>3 DEF QuicStep, Callback
    <2>2. /\ (streamUp' = streamUp /\ chan'.ready = chan.ready) \/ chan'.ready
          /\ UNCHANGED <<contexts, call, ret>>
        BY <2>0, <2>1 DEF NewConnection, Connected, OpenClientStream, PeerStreamStarted, Receive, SendComplete,
               AttachStream, ShutdownByTransport, ShutdownByPeer, ShutdownComplete, quicVars, objectVars, Channels
    <2> QED
        BY <1>3, <2>2 DEF QuicStep, engineVars
<1>4. CASE UNCHANGED tunnelVars
    BY <1>4 DEF tunnelVars, engineVars, transportVars, objectVars, quicVars
<1> QED
    BY <1>1, <1>2, <1>2a, <1>2b, <1>3, <1>4, TunnelSteps

\* A client that is connected and has opened its stream is served soon: whatever the
\* handler's stores have done to the session, and while MsQuic's threads bring other
\* clients and streams, at most 107 steps of the engine's main thread, and three more
\* inside each call of the transport, lead to an established session, unless that client
\* leaves, a handshake has failed, or a stop comes, and as long as no close() has
\* overlapped connect().  No wait of open_data_channel() times out meanwhile.  What
\* ConnectedClientServed adds is that the thread takes the steps.
THEOREM ConnectedClientIsServed ==
    TunnelSpec => /\ [](ServeLeft \in 0..107)
                  /\ [][race' = "none" => \A c \in Conns : Waiting(c) => Serves(c)]_tunnelVars
<1>0. ServeLeft \in 0..107
    <2>1. ServePlaces \in 0..17 /\ HandlerStores \in 0..2
        BY ServeTypes, RecoveryTypes
    <2> QED
        BY <2>1 DEF ServeLeft
<1>1. TunnelInit => LoadedFresh /\ StreamsReady
    BY DEF TunnelInit, Init, TransportInit, LoadedFresh, StreamsReady, Threads, Early, Before
<1> DEFINE Unraced == race = "none" => TunnelInv
           Ready == race = "none" => StreamsReady
<1>2. IInv /\ LoadedFresh /\ [TunnelNext]_tunnelVars => LoadedFresh'
    BY EngineSteps, FreshStep
<1>2a. Unraced /\ Ready /\ [TunnelNext]_tunnelVars => Ready'
    BY RaceKept, StreamsStep
<1>3. Unraced /\ LoadedFresh /\ Ready /\ [TunnelNext]_tunnelVars
        => [race' = "none" => \A c \in Conns : Waiting(c) => Serves(c)]_tunnelVars
    <2> SUFFICES ASSUME TunnelInv, LoadedFresh, StreamsReady, TunnelNext, race' = "none",
                        NEW c \in Conns, Waiting(c)
                 PROVE  Serves(c)
        BY RaceKept
    <2>0. pc["main"] \in LoopPc \cup {"stop"}
        BY DEF Waiting, Unserved
    <2>1. CASE BeginCall \/ InCall
        BY <2>1, CallServes
    <2>2. CASE EndCall
        BY <2>2, EndCallServes
    <2>3. CASE LocalStep \/ ReadPacket \/ ReadFrames \/ Reset \/ Deadline
        BY <2>3, OwnServes
    <2>4. CASE QuicStep
        BY <2>4, CallbackServes
    <2>5. CASE HandlerStep
        BY <2>5, HandlerServes
    <2>6. CASE StopStep("main")
        <3>1. stopRequested'
            BY <2>0, <2>6, StopBuffersStep DEF StopStep, StopFlag, StopClosing, StopRouting, StopTransport,
                   StopInterface, StopStopped, Transition, Move, LoopPc, Threads
        <3> QED
            BY <3>1 DEF Serves, Served
    <2>7. ~Exit /\ ~Misuse /\ ~CloseCall("main")
        BY <2>0, MainNotClosing DEF Exit, Destroy, Misuse, Undefined, LoopPc, Early, Before
    <2> QED
        BY <2>1, <2>2, <2>3, <2>4, <2>5, <2>6, <2>7 DEF TunnelNext, MainStep
<1>4. TunnelSpec => []Unraced
    BY TunnelInvariance
<1>5. TunnelInit => Ready
    BY <1>1
<1> HIDE DEF Unraced, Ready
<1> QED
    BY <1>0, <1>1, <1>2, <1>2a, <1>3, <1>4, <1>5, EngineInvariance, PTL DEF TunnelSpec
=============================================================================
