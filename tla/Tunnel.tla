------------------------------- MODULE Tunnel -------------------------------
(***************************************************************************)
(* One program of the repository: TunnelEngine over QuicSecureTransport.   *)
(* A call of the engine begins when the main thread stands at its place,   *)
(* goes through the steps of the transport while MsQuic's callbacks come   *)
(* in, and ends with the engine's step for the result.                     *)
(***************************************************************************)
EXTENDS TunnelEngine, QuicSecureTransport

CONSTANT MaxPackets     \* bound: packets read from the virtual interface

ASSUME TunnelAssumption == MaxPackets \in Nat

VARIABLE packets         \* the packets read so far

tunnelVars == <<engineVars, transportVars, packets>>

TunnelInit == Init /\ TransportInit /\ packets = 0

EngineRole == IF IsServer THEN "server" ELSE "client"

-----------------------------------------------------------------------------
(* The main thread. *)

\* The engine calls the transport.
BeginCall ==
    /\ \/ pc["main"] = "connect" /\ ConnectBegin(EngineRole)
       \/ pc["main"] = "perform" /\ \E ok \in BOOLEAN : PerformHandshake(ok)
       \/ pc["main"] \in {"startChannel", "openChannel"} /\ OpenDataChannel
       \/ pc["main"] = "send" /\ SendPayload
    /\ UNCHANGED <<engineVars, packets>>

\* close(), called by connect(), by stop() and by the transport's destructor.
CloseCall(t) ==
    /\ \/ CloseStep(t)
       \/ pc[t] = "stop3" /\ CloseTest(t)
       \/ t = "main" /\ pc[t] = "connect" /\ call = "idle" /\ CloseTest(t)
       \/ t = "main" /\ pc[t] \in {"stopped", "exit"} /\ CloseTest(t)
    /\ UNCHANGED <<engineVars, packets>>

\* The call goes on by itself, or gives up.
InCall == Proceed /\ UNCHANGED <<engineVars, packets>>

\* The engine's step for the result.
EndCall ==
    \E ok \in BOOLEAN :
        /\ Take(ok)
        /\ \/ StartConnect(ok) \/ StartPerform(ok) \/ StartChannel(ok)
           \/ OpenChannel(ok) \/ RelaySend(ok)
        /\ UNCHANGED packets

\* Steps that leave the transport alone, as in TunnelEngine.
LocalStep ==
    /\ \/ \E ok \in BOOLEAN :
             \/ StartBegin(ok) \/ StartOpen(ok) \/ Started(ok)
             \/ (ok \/ app = "vpn") /\ StartRouting(ok)
       \/ StartBuffers \/ StartConnecting \/ StartHandshaking \/ StartClearFlag
       \/ StartEstablished \/ StartFailed
       \/ LoopHead \/ LoopCheck \/ EnsureBegin \/ EnsureRouting \/ EnsureEstablish
       \/ LoopRecheck \/ RelayBegin \/ RelayFailed \/ ClientFailed \/ ResetSession
    /\ UNCHANGED <<transportVars, packets>>

ReadPacket ==
    \E packet \in {"none", "sealed", "unsealed"} :
        /\ packet # "none" => packets < MaxPackets
        /\ packets' = IF packet # "none" THEN packets + 1 ELSE packets
        /\ RelayOutbound(packet)
        /\ UNCHANGED transportVars

ReadFrames ==
    \E n \in 0..MaxFrames : RelayInbound /\ TryReceive(n) /\ UNCHANGED packets

Reset == ResetTransport /\ ResetForNextClient /\ UNCHANGED packets

StopStep(t) ==
    /\ \/ /\ \/ StopFlag(t) \/ StopClosing(t) \/ StopRouting(t)
             \/ StopInterface(t) \/ StopBuffers(t) \/ StopStopped(t)
          /\ UNCHANGED transportVars
       \/ StopTransport(t) /\ CloseEnd(t)
    /\ UNCHANGED packets

\* The destructor of the transport has called close() again.
Exit == Destroy /\ CloseEnd("main") /\ UNCHANGED packets

MainStep ==
    /\ race # "undefined"
    /\ \/ BeginCall \/ CloseCall("main") \/ InCall \/ EndCall \/ LocalStep
       \/ ReadPacket \/ ReadFrames \/ Reset \/ StopStep("main") \/ Exit

-----------------------------------------------------------------------------

Deadline == LoopDeadline /\ UNCHANGED <<transportVars, packets>>

HandlerStep ==
    \/ (Signal \/ RequestStop) /\ UNCHANGED <<transportVars, packets>>
    \/ pc["main"] # "gone" /\ (CloseCall("handler") \/ StopStep("handler"))

\* MsQuic's threads run while the process lives.
QuicStep == pc["main"] # "gone" /\ Callback /\ UNCHANGED <<engineVars, packets>>

Misuse == pc["main"] # "gone" /\ Undefined /\ UNCHANGED <<engineVars, packets>>

TunnelNext ==
    MainStep \/ (race # "undefined" /\ (Deadline \/ HandlerStep \/ QuicStep \/ Misuse))

\* The main thread runs: its waits end by a callback or by their timeout.  No
\* callback, signal or deadline need ever come.
TunnelSpec == TunnelInit /\ [][TunnelNext]_tunnelVars /\ WF_tunnelVars(MainStep)

\* The behaviours of TunnelSpec in which no close() of the handler that has
\* passed its test is under way when connect() begins.
UnracedSpec ==
    TunnelInit /\ [][TunnelNext /\ race' = "none"]_tunnelVars /\ WF_tunnelVars(MainStep)

-----------------------------------------------------------------------------
(* Properties. *)

\* The engine over this transport behaves as TunnelEngine says, and its main
\* thread never hangs in a call: with fairness for its own steps only, every
\* connect, handshake, open, send and reset returns.
ImplementsEngine == Spec

\* A session that may send has an open data channel with a stream: the server
\* never relays before the handshake and the stream of some client are there -
\* unless a close() of the handler that was under way when connect() began has
\* closed the channel under it.
EstablishedHasChannel ==
    race = "none" /\ CanSendData(session) /\ pc["main"] # "reset1" => dataChannelOpen

\* While no handshake has failed, a client that is connected and has opened its
\* stream finds an established session, unless it leaves or the server stops.
ConnectedClientServed ==
    \A c \in Conns :
        (IsServer /\ pc["main"] \in LoopPc /\ phase[c] = "connected" /\ streamUp[c])
          ~> (CanSendData(session) \/ hs.failed \/ phase[c] # "connected" \/ stopRequested)

\* The end of an established connection sets no flag, but a send that finds the
\* connection down ends the established session - by failing at once or by its
\* timeout - unless another stream has taken the channel or a stop has come.
DeadClientNoticed ==
    \A c \in Conns :
        (CanSendData(session) /\ pc["main"] = "send" /\ call = "idle"
           /\ chan.stream = c /\ phase[c] = "down")
          ~> (~CanSendData(session) \/ chan.stream # c \/ stopRequested)

\* "Server 断线后持续监听" (README.md): the same without the exception, a failed
\* handshake of one client does not keep the server from serving the next.
NextClientServed ==
    \A c \in Conns :
        (IsServer /\ pc["main"] \in LoopPc /\ phase[c] = "connected" /\ streamUp[c])
          ~> (CanSendData(session) \/ phase[c] # "connected" \/ stopRequested \/ pc["handler"] # "armed")

\* "服务端专用：关闭当前连接但保持 Listener，等待下一客户端。"
\* (include/tunnel/quic_secure_transport.hpp): reset_for_next_client() leaves no
\* connection and no open data channel, and keeps the listener.
ResetClosesConnection ==
    [][pc["main"] = "reset" /\ pc'["main"] = "reset1"
         => connection' = NoConn /\ ~dataChannelOpen' /\ "listener" \in handles']_tunnelVars
=============================================================================
