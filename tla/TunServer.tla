----------------------------- MODULE TunServer -----------------------------
(***************************************************************************)
(* TunnelEngine over the interface make_interface (apps/server_main.cpp)   *)
(* gives it: the server with --tun works on LinuxTun, call by call, while  *)
(* its handler's stop() closes the same interface.  The other programs     *)
(* have an interface whose calls are single steps, as in TunnelEngine.     *)
(***************************************************************************)
EXTENDS TunnelEngine, LinuxTun

VARIABLE useTun          \* the interface is a LinuxTunVirtualInterface

serverVars == <<engineVars, tunVars, useTun>>

make_interface(use_tun) == IsServer /\ use_tun

ServerInit ==
    /\ Init
    /\ TunInit
    /\ useTun \in {make_interface(use) : use \in BOOLEAN}

-----------------------------------------------------------------------------

\* The engine calls the interface.  Bound: one write in a batch of frames.
BeginCall(t) ==
    /\ \/ pc[t] = "open" /\ TunOpen(t)
       \/ pc[t] = "read" /\ TunTransfer(t)
       \/ pc[t] = "inbound" /\ CanSendData(session) /\ TunTransfer(t)
       \/ pc[t] = "stop4" /\ TunClose(t)
    /\ UNCHANGED <<engineVars, useTun>>

InCall(t) == TunProceed(t) /\ UNCHANGED <<engineVars, useTun>>

\* The engine's step for the result: open() succeeded or not, a packet was read
\* or not; a write that fails ends the batch.
EndCall(t) ==
    /\ Leave(t)
    /\ \/ StartOpen(at[t] = "done")
       \/ \E packet \in {"none", "sealed", "unsealed"} :
             (packet # "none" <=> at[t] = "done") /\ RelayOutbound(packet)
       \/ RelayInbound
       \/ StopInterface(t)
    /\ pc'[t] # pc[t]
    /\ UNCHANGED useTun

\* A step of t without the interface, or with one whose calls are single steps.
Free(t) ==
    /\ useTun => at[t] = "out" /\ pc[t] \notin {"open", "read", "stop4"}
    /\ UNCHANGED <<tunVars, useTun>>

ServerMain ==
    \/ MainNext /\ Free("main")
    \/ useTun /\ (BeginCall("main") \/ InCall("main") \/ EndCall("main"))

ServerHandler ==
    \/ HandlerNext /\ Free("handler")
    \/ useTun /\ pc["main"] # "gone" /\ (BeginCall("handler") \/ InCall("handler") \/ EndCall("handler"))

OtherParts == useTun /\ (\E f \in Fds : OthersOpen(f)) /\ UNCHANGED <<engineVars, useTun>>

ServerNext == ServerMain \/ ServerHandler \/ OtherParts

\* The main thread runs, as in TunnelEngine: the descriptor is not blocking.
ServerSpec == ServerInit /\ [][ServerNext]_serverVars /\ WF_serverVars(ServerMain)

-----------------------------------------------------------------------------
(* Properties. *)

\* No TUN device is lost, in whatever step the handler's close() met open(),
\* read_packet() or the other close(): between calls fd_ is the descriptor of the
\* only one there is, and when stop() of the main thread is over there is none.
TunClosed ==
    /\ (\A t \in Callers : ~Inside(t)) => \A f \in Fds : owner[f] = "tun" <=> f = fd
    /\ pc["main"] = "stopped" => \A f \in Fds : owner[f] # "tun"
=============================================================================
