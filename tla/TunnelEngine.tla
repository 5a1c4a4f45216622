---------------------------- MODULE TunnelEngine ----------------------------
(***************************************************************************)
(* TunnelEngine (src/tunnel_engine.cpp) as apps/server_main.cpp and         *)
(* apps/client_main.cpp drive it: start(), the data plane loop, stop(), and *)
(* the handler of Ctrl+C or SIGTERM, which runs beside the main thread.     *)
(*                                                                          *)
(* The secure transport and the virtual interface appear through the        *)
(* results of their calls: an action that is the return of a call takes the *)
(* result as a parameter, and Next lets a call return whatever the          *)
(* interface allows.  Tunnel joins these actions to QuicSecureTransport.    *)
(*                                                                          *)
(* session_, data_plane_stop_requested_ and the buffer pool are plain        *)
(* members that both threads read and write: the load of transition_to's    *)
(* check and the store that follows it are two steps, and so are the size   *)
(* that release() and acquire() test and the one they store.                *)
(***************************************************************************)
EXTENDS Integers, Session

CONSTANTS Apps,          \* which of the programs are considered
          MaxClients,    \* bound: how often open_data_channel() succeeds
          PoolCapacity   \* buffer_pool_capacity

ASSUME EngineAssumption ==
    /\ Apps \subseteq {"server", "client", "vpn"}
    /\ MaxClients \in Nat
    /\ PoolCapacity \in Nat \ {0}

Threads == {"main", "handler"}

VARIABLES app,            \* the program: server, client, or client with VPN routing
          pc,             \* pc[t]: where thread t is
          loaded,         \* loaded[t]: the state transition_to of t has read, or "none"
          session,        \* session_
          stopRequested,  \* data_plane_stop_requested_
          interfaceOpen,  \* the virtual interface is open
          routing,        \* routes_applied_: the interface has client routes to take back
          freeBuffers,    \* buffer_pool_.available()
          channel,        \* history: open_data_channel() succeeded since the last reset
          asked           \* history: the handler has set the stop flag

engineVars == <<app, pc, loaded, session, stopRequested, interfaceOpen, routing,
                freeBuffers, channel, asked>>

IsServer == app = "server"

-----------------------------------------------------------------------------
(* Places. *)

StartPc == {"start", "acquire1", "pop1", "acquire2", "pop2", "toConnecting", "open",
            "connect", "toHandshaking", "perform", "startChannel", "startRouting",
            "clearFlag", "toEstablished", "startFailed"}
LoopPc  == {"loop", "check", "ensure", "openChannel", "ensureRouting", "establish",
            "recheck", "relay", "read", "send", "inbound", "relayFailed", "clientFailed",
            "reset", "reset1", "reset2", "reset3", "reset4"}
StopPc  == {"stop", "stop1", "stop2", "stop3", "stop4", "stop5", "push5",
            "stop6", "push6", "stop7"}

MainPc    == StartPc \cup LoopPc \cup StopPc \cup {"started", "stopped", "exit", "gone"}
HandlerPc == StopPc \cup {"armed", "request", "stopped"}

\* main() has constructed the engine and installed the handler.
Init ==
    /\ app \in Apps
    /\ pc = [t \in Threads |-> IF t = "main" THEN "start" ELSE "armed"]
    /\ loaded = [t \in Threads |-> "none"]
    /\ session = InitialSession
    /\ stopRequested = FALSE
    /\ interfaceOpen = FALSE
    /\ routing = FALSE
    /\ freeBuffers = 0
    /\ channel = FALSE
    /\ asked = FALSE

Goto(t, place) == pc' = [pc EXCEPT ![t] = place]

\* if (state is in from) transition_to(next), by thread t at place here: one step
\* reads the state, one writes it.
Transition(t, here, from, next, yes, no) ==
    /\ pc[t] = here
    /\ \/ /\ loaded[t] = "none"
          /\ loaded' = [loaded EXCEPT ![t] = session.state]
          /\ UNCHANGED <<pc, session>>
       \/ /\ loaded[t] # "none"
          /\ loaded' = [loaded EXCEPT ![t] = "none"]
          /\ IF loaded[t] \in from /\ Allowed(loaded[t], next)
               THEN session' = Store(session, next) /\ Goto(t, yes)
               ELSE UNCHANGED session /\ Goto(t, no)
    /\ UNCHANGED <<app, stopRequested, interfaceOpen, routing, freeBuffers, channel, asked>>

\* A step of t that only moves on.
Move(t, here, place) ==
    /\ pc[t] = here
    /\ Goto(t, place)
    /\ UNCHANGED <<app, loaded, session, stopRequested, interfaceOpen, routing,
                   freeBuffers, channel, asked>>

-----------------------------------------------------------------------------
(* PacketBufferPool: free_list_ is a plain vector. *)

StoringSize(t) == pc[t] \in {"pop1", "pop2", "push5", "push6"}

\* t stores the vector's new size; the other thread, on the same way, may
\* overwrite it.
StoreSize(t, here, size, next) ==
    /\ pc[t] = here
    /\ \/ freeBuffers' = size
       \/ (\E u \in Threads \ {t} : StoringSize(u)) /\ UNCHANGED freeBuffers
    /\ Goto(t, next)
    /\ UNCHANGED <<app, loaded, session, stopRequested, interfaceOpen, routing, channel, asked>>

\* A buffer from the list, or a new one when it is empty.
acquire(here, pop, next) ==
    \/ Move("main", here, IF freeBuffers > 0 THEN pop ELSE next)
    \/ StoreSize("main", pop, freeBuffers - 1, next)

releaseUnbounded(t, here, push, next) ==
    \/ Move(t, here, push)
    \/ StoreSize(t, push, freeBuffers + 1, next)

\* A full pool drops the buffer.
release(t, here, push, next) ==
    \/ Move(t, here, IF freeBuffers < PoolCapacity THEN push ELSE next)
    \/ StoreSize(t, push, freeBuffers + 1, next)

-----------------------------------------------------------------------------
(* start() *)

\* The configuration is valid and an inner session exists.
StartBegin(ok) == Move("main", "start", IF ok THEN "acquire1" ELSE "exit")

\* Two scratch buffers.
StartBuffers ==
    \/ acquire("acquire1", "pop1", "acquire2")
    \/ acquire("acquire2", "pop2", "toConnecting")

StartConnecting == Transition("main", "toConnecting", SessionState, "connecting", "open", "exit")

StartOpen(ok) ==
    /\ pc["main"] = "open"
    /\ interfaceOpen' = ok
    /\ Goto("main", IF ok THEN "connect" ELSE "startFailed")
    /\ UNCHANGED <<app, loaded, session, stopRequested, routing, freeBuffers, channel, asked>>

StartConnect(ok) == Move("main", "connect", IF ok THEN "toHandshaking" ELSE "startFailed")

StartHandshaking ==
    Transition("main", "toHandshaking", SessionState, "handshaking", "perform", "exit")

\* The server returns from start() with a listener; the client goes on to open
\* its stream.
StartPerform(ok) ==
    Move("main", "perform", IF ~ok THEN "startFailed"
                            ELSE IF IsServer THEN "clearFlag" ELSE "startChannel")

StartChannel(ok) ==
    /\ pc["main"] = "startChannel"
    /\ channel' = ok
    /\ Goto("main", IF ok THEN "startRouting" ELSE "startFailed")
    /\ UNCHANGED <<app, loaded, session, stopRequested, interfaceOpen, routing, freeBuffers, asked>>

\* apply_client_routing(): only the VPN client has routes to add, and only it
\* can fail; it takes back what it added when it fails.
StartRouting(ok) ==
    /\ pc["main"] = "startRouting"
    /\ routing' = (ok /\ app = "vpn")
    /\ Goto("main", IF ok THEN "clearFlag" ELSE "startFailed")
    /\ UNCHANGED <<app, loaded, session, stopRequested, interfaceOpen, freeBuffers, channel, asked>>

StartClearFlag ==
    /\ pc["main"] = "clearFlag"
    /\ stopRequested' = FALSE
    /\ Goto("main", IF IsServer THEN "started" ELSE "toEstablished")
    /\ UNCHANGED <<app, loaded, session, interfaceOpen, routing, freeBuffers, channel, asked>>

StartEstablished ==
    Transition("main", "toEstablished", SessionState, "established", "started", "exit")

StartFailed == Transition("main", "startFailed", SessionState, "failed", "exit", "exit")

\* The program relays, or was not asked to and stops at once; the VPN client
\* always relays.
Started(relay) ==
    /\ relay \/ app # "vpn"
    /\ Move("main", "started", IF relay THEN "loop" ELSE "stop")

-----------------------------------------------------------------------------
(* run_data_plane_for() *)

LoopHeadDeaf == Move("main", "loop", "check")

LoopHead == Move("main", "loop", IF stopRequested THEN "stop" ELSE "check")

\* The time is over: seconds from the command line, or 24 hours.
LoopDeadline == Move("main", "loop", "stop")

LoopCheck ==
    Move("main", "check",
         IF CanSendData(session) THEN "relay"
         ELSE IF IsServer /\ session.state = "handshaking" THEN "ensure"
         ELSE "recheck")

\* ensure_session_ready() up to its call of the transport.
EnsureBegin ==
    Move("main", "ensure",
         IF CanSendData(session) THEN "recheck"
         ELSE IF session.state = "handshaking" THEN "openChannel"
         ELSE "loop")

OpenChannel(ok) ==
    /\ pc["main"] = "openChannel"
    /\ channel' = (channel \/ ok)
    /\ Goto("main", IF ok THEN "ensureRouting" ELSE "loop")
    /\ UNCHANGED <<app, loaded, session, stopRequested, interfaceOpen, routing, freeBuffers, asked>>

\* The interfaces of the server have no routes to add and report success.
EnsureRouting == Move("main", "ensureRouting", "establish")

EnsureEstablish ==
    Transition("main", "establish", SessionState, "established", "recheck", "loop")

LoopRecheck ==
    Move("main", "recheck",
         IF CanSendData(session) THEN "relay"
         ELSE IF IsServer /\ ~stopRequested THEN "reset"
         ELSE "stop")

\* relay_batch() and forward_outbound() up to the read.
RelayBegin == Move("main", "relay", IF CanSendData(session) THEN "read" ELSE "relayFailed")

\* The rest up to the send: no packet to read, a packet that was sealed, or one
\* that was not.
RelayOutbound(packet) ==
    Move("main", "read",
         IF packet = "none" THEN "inbound"
         ELSE IF packet = "sealed" THEN "send"
         ELSE "relayFailed")

RelaySendUnchecked(ok) == Move("main", "send", "inbound")

RelaySend(ok) == Move("main", "send", IF ok THEN "inbound" ELSE "relayFailed")

\* forward_inbound_batch(): frames go to the interface until the batch is full,
\* the queue is empty, or one cannot be opened or written; the loop goes on in
\* each case.
RelayInbound == Move("main", "inbound", "loop")

RelayFailed ==
    Move("main", "relayFailed",
         IF stopRequested THEN "stop"
         ELSE IF ~IsServer THEN "clientFailed"
         ELSE IF session.state = "handshaking" THEN "loop"
         ELSE "reset")

ClientFailed == Transition("main", "clientFailed", SessionState, "failed", "stop", "stop")

-----------------------------------------------------------------------------
(* reset_server_session() and Session::reset_to_handshaking() *)

ResetTransport ==
    /\ pc["main"] = "reset"
    /\ channel' = FALSE
    /\ Goto("main", "reset1")
    /\ UNCHANGED <<app, loaded, session, stopRequested, interfaceOpen, routing, freeBuffers, asked>>

ResetSessionForgotten == Move("main", "reset1", "loop")

ResetSessionFailedOnly ==
    \/ Transition("main", "reset1", {"established"}, "closing", "reset2", "reset2")
    \/ Transition("main", "reset2", {"failed"}, "stopped", "reset3", "reset3")
    \/ Transition("main", "reset3", {"stopped"}, "connecting", "reset4", "reset4")
    \/ Transition("main", "reset4", {"connecting"}, "handshaking", "loop", "loop")

ResetSession ==
    \/ Transition("main", "reset1", {"established"}, "closing", "reset2", "reset2")
    \/ Transition("main", "reset2", {"closing", "failed"}, "stopped", "reset3", "reset3")
    \/ Transition("main", "reset3", {"stopped"}, "connecting", "reset4", "reset4")
    \/ Transition("main", "reset4", {"connecting"}, "handshaking", "loop", "loop")

-----------------------------------------------------------------------------
(* stop(), by the main thread or by the server's signal handler *)

StopFlag(t) ==
    /\ pc[t] = "stop"
    /\ stopRequested' = TRUE
    /\ asked' = (asked \/ t = "handler")
    /\ Goto(t, "stop1")
    /\ UNCHANGED <<app, loaded, session, interfaceOpen, routing, freeBuffers, channel>>

StopClosing(t) == Transition(t, "stop1", {"established"}, "closing", "stop2", "stop2")

StopRoutingForgotten(t) == Move(t, "stop2", "stop3")

\* clear_client_routing() forgets its routes whatever the system answers to their
\* deletion; what a refusal leaves in the system is ClientRoutes' matter.
StopRouting(t) ==
    /\ pc[t] = "stop2"
    /\ routing' = FALSE
    /\ Goto(t, "stop3")
    /\ UNCHANGED <<app, loaded, session, stopRequested, interfaceOpen, freeBuffers, channel, asked>>

StopTransport(t) == Move(t, "stop3", "stop4")

StopInterface(t) ==
    /\ pc[t] = "stop4"
    /\ interfaceOpen' = FALSE
    /\ Goto(t, "stop5")
    /\ UNCHANGED <<app, loaded, session, stopRequested, routing, freeBuffers, channel, asked>>

\* The scratch buffers go back to the pool.
StopBuffers(t) ==
    \/ release(t, "stop5", "push5", "stop6")
    \/ release(t, "stop6", "push6", "stop7")

StopStoppedClosingOnly(t) == Transition(t, "stop7", {"closing"}, "stopped", "stopped", "stopped")

StopStopped(t) == Transition(t, "stop7", {"closing", "failed"}, "stopped", "stopped", "stopped")

Stop(t) ==
    \/ StopFlag(t) \/ StopClosing(t) \/ StopRouting(t) \/ StopTransport(t)
    \/ StopInterface(t) \/ StopBuffers(t) \/ StopStopped(t)

\* main() returns: the destructors close what is still open.
Destroy ==
    /\ pc["main"] \in {"stopped", "exit"}
    /\ Goto("main", "gone")
    /\ interfaceOpen' = FALSE
    /\ routing' = FALSE
    /\ UNCHANGED <<app, loaded, session, stopRequested, freeBuffers, channel, asked>>

-----------------------------------------------------------------------------
(* The handler *)

\* The handler finds the engine through a global pointer: the server clears it
\* when start() has failed or stop() is over, the VPN client before it calls
\* stop().  A client that fails to start leaves it set.
EngineKnown ==
    IF IsServer THEN pc["main"] \notin {"exit", "gone"}
                ELSE pc["main"] \notin StopPc \cup {"stopped", "gone"}

\* The server's handler calls stop(), the VPN client's request_data_plane_stop();
\* the plain client has no handler.
Signal ==
    /\ EngineKnown
    /\ app # "client"
    /\ Move("handler", "armed", IF IsServer THEN "stop" ELSE "request")

RequestStop ==
    /\ pc["handler"] = "request"
    /\ stopRequested' = TRUE
    /\ Goto("handler", "stopped")
    /\ asked' = TRUE
    /\ UNCHANGED <<app, loaded, session, interfaceOpen, routing, freeBuffers, channel>>

-----------------------------------------------------------------------------
(* The engine over a transport and an interface that may fail in any call. *)

\* A call of open_data_channel() succeeds when a client has come.
ClientCame(ok) == ok => session.epoch < MaxClients

StartNext ==
    \/ \E ok \in BOOLEAN :
          \/ StartBegin(ok) \/ StartOpen(ok) \/ StartConnect(ok) \/ StartPerform(ok)
          \/ ClientCame(ok) /\ StartChannel(ok)
          \/ (ok \/ app = "vpn") /\ StartRouting(ok)
          \/ Started(ok)
    \/ StartBuffers \/ StartConnecting \/ StartHandshaking \/ StartClearFlag
    \/ StartEstablished \/ StartFailed

LoopNext ==
    \/ LoopHead \/ LoopCheck \/ EnsureBegin
    \/ \E ok \in BOOLEAN : (ClientCame(ok) /\ OpenChannel(ok)) \/ RelaySend(ok)
    \/ EnsureRouting \/ EnsureEstablish \/ LoopRecheck \/ RelayBegin
    \/ \E packet \in {"none", "sealed", "unsealed"} : RelayOutbound(packet)
    \/ RelayInbound \/ RelayFailed \/ ClientFailed
    \/ ResetTransport \/ ResetSession

MainNext == StartNext \/ LoopNext \/ LoopDeadline \/ Stop("main") \/ Destroy

\* The handler dies with the process.
HandlerNext ==
    \/ Signal \/ RequestStop
    \/ pc["main"] # "gone" /\ Stop("handler")

Next == MainNext \/ HandlerNext

\* The main thread runs: no call it makes blocks for ever, since every wait of
\* the transport has a timeout.  Nothing is assumed of the handler.
Spec == Init /\ [][Next]_engineVars /\ WF_engineVars(MainNext)

-----------------------------------------------------------------------------
(* Properties. *)

\* Every variable has its type.
TypeOK ==
    /\ app \in {"server", "client", "vpn"}
    /\ pc \in [Threads -> MainPc \cup HandlerPc]
    /\ pc["main"] \in MainPc /\ pc["handler"] \in HandlerPc
    /\ loaded \in [Threads -> SessionState \cup {"none"}]
    /\ session \in [state : SessionState, epoch : Nat]
    /\ stopRequested \in BOOLEAN
    /\ interfaceOpen \in BOOLEAN
    /\ routing \in BOOLEAN
    /\ freeBuffers \in Int
    /\ channel \in BOOLEAN
    /\ asked \in BOOLEAN

Pushing(t) == pc[t] \in {"push5", "push6"}
Pending(t) == IF Pushing(t) THEN 1 ELSE 0

\* The pool is shared without a lock, by two threads in stop() or by a stop() in
\* the handler and the main thread's start(): acquire() never takes from an empty
\* list, and however the sizes tested and stored overlap, the pool holds at most
\* one buffer more than its capacity ("池容量不应被突破" of
\* tests/packet_buffer_pool_tests.cpp is about one thread).
PoolBounded ==
    /\ 0 <= freeBuffers
    /\ pc["main"] \in {"pop1", "pop2"} => 0 < freeBuffers
    /\ freeBuffers + Pending("main") + Pending("handler") <= PoolCapacity + 1

\* "防止未完成握手就发送数据" (include/tunnel/session.hpp): send_payload() is
\* called only over a data channel that was opened after the last reset, however
\* stop() in the handler interferes with the session's state.
SendOnlyOverOpenChannel == pc["main"] = "send" => channel

\* When stop() of the main thread is over, the interface is closed and has been
\* told to take its routes back (which of them the system refuses to delete is
\* the matter of ClientRoutes), even if start() or ensure_session_ready()
\* overlapped with the handler's own stop().
StoppedIsClean == pc["main"] = "stopped" => ~interfaceOpen /\ ~routing

\* stop() of a client ends in state stopped, whether the loop was left because
\* of a stop, of the deadline, or of a failed relay.
ClientEndsStopped ==
    ~IsServer /\ pc["main"] = "stopped" => session.state = "stopped"

\* A stop request that finds the loop running ends it: run_data_plane_for()
\* returns and the main thread's stop() completes.
StopEndsLoop ==
    (stopRequested /\ pc["main"] \in LoopPc) ~> (pc["main"] \in {"stopped", "gone"})

\* A server whose session is neither waiting nor established, after a broken
\* client or a stop() that start() has overruled, comes back to one of the two
\* unless it is asked to stop or its time is over.
ServerRecovers ==
    (/\ IsServer /\ pc["main"] \in LoopPc
     /\ session.state \notin {"handshaking", "established"})
      ~> (session.state \in {"handshaking", "established"} \/ stopRequested)

\* "Ctrl+C 退出时自动清理路由" (docs/USAGE_TUTORIAL.md): once the handler has
\* recorded the request, the client's loop does not begin another round.
NoRoundAfterCtrlC ==
    [][app = "vpn" /\ asked /\ pc["main"] = "loop" => pc'["main"] # "check"]_engineVars
=============================================================================
