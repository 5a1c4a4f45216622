------------------------ MODULE QuicSecureTransport ------------------------
(***************************************************************************)
(* QuicSecureTransport (src/quic_secure_transport.cpp): the object the     *)
(* engine calls, and the callbacks MsQuic's worker threads make into it.   *)
(* All connections of a listener share one HandshakeState and one          *)
(* StreamChannel.                                                          *)
(*                                                                         *)
(* A call that waits is several steps: the condition variables are woken   *)
(* by callbacks, or the wait times out while its predicate is false.  The  *)
(* result of a call stays in ret until the caller takes it.                *)
(*                                                                         *)
(* The handler's thread calls close() beside the main thread's calls, and  *)
(* nothing locks the members: connect() and close() go handle by handle.   *)
(* A close() that has passed its test when connect() begins takes away     *)
(* what connect() and the later calls build; race records it, and that     *)
(* freed or null memory has been used, where the model ends.               *)
(***************************************************************************)
EXTENDS Naturals, Sequences

CONSTANTS Conns,         \* the QUIC connections that may come to exist
          NoConn,        \* nullptr
          MaxFrames      \* bound: frames in the receive queue

ASSUME TransportAssumption == NoConn \notin Conns /\ MaxFrames \in Nat

VARIABLES closed,           \* closed_
          role,             \* config_.role
          handles,          \* the MsQuic handles the object holds
          contexts,         \* handshake_state_, stream_channel_ and the callbacks' contexts
          connection,       \* connection_
          hs,               \* HandshakeState
          chan,             \* StreamChannel
          dataChannelOpen,  \* data_channel_open_
          call,             \* where the caller is inside the object
          ret,              \* the result of the last call
          closing,          \* closing[t]: where thread t is inside close()
          race              \* history: close() of the handler has overlapped connect()

lifeVars == <<closed, role, handles, contexts, closing, race>>
objectVars == <<lifeVars, connection, hs, chan, dataChannelOpen, call, ret>>

VARIABLES phase,            \* phase[c]: MsQuic's view of connection c
          streamUp,         \* streamUp[c]: the stream of c has started
          inFlight          \* inFlight[c]: sends on c's stream MsQuic has not completed

quicVars == <<phase, streamUp, inFlight>>
transportVars == <<objectVars, quicVars>>

Handles == {"api", "registration", "configuration", "listener"}
Callers == {"main", "handler"}
ConnectCalls == {"openApi", "openRegistration", "loadConfiguration", "newContexts", "startOpen"}
WaitCalls == {"performWait", "openWait", "streamWait", "sendWait", "sendDone"}
ClosePc == {"out", "set", "channel", "detach", "stream", "connection", "listener",
            "configuration", "registration", "delete", "release", "done"}
Live == {"handshaking", "opening", "connected", "down"}

FreshHandshake == [connected |-> FALSE, failed |-> FALSE, shutdownComplete |-> FALSE]
FreshChannel == [stream |-> NoConn, ready |-> FALSE, sendComplete |-> TRUE, frames |-> <<>>]

TransportInit ==
    /\ closed = FALSE
    /\ role = "client"
    /\ handles = {}
    /\ contexts = "none"
    /\ closing = [t \in Callers |-> "out"]
    /\ race = "none"
    /\ connection = NoConn
    /\ hs = FreshHandshake
    /\ chan = FreshChannel
    /\ dataChannelOpen = FALSE
    /\ call = "idle"
    /\ ret = FALSE
    /\ phase = [c \in Conns |-> "none"]
    /\ streamUp = [c \in Conns |-> FALSE]
    /\ inFlight = [c \in Conns |-> 0]

Return(ok) == call' = "returned" /\ ret' = ok

\* The caller takes the result.
Take(ok) ==
    /\ call = "returned"
    /\ ret = ok
    /\ call' = "idle"
    /\ UNCHANGED <<lifeVars, connection, hs, chan, dataChannelOpen, ret, quicVars>>

-----------------------------------------------------------------------------
(* close() *)

Closing(t, here, next) ==
    /\ closing[t] = here
    /\ closing' = [closing EXCEPT ![t] = next]

\* The members the steps of close() may change.
memberVars == <<contexts, connection, hs, chan, dataChannelOpen, quicVars>>

CloseTest(t) ==
    /\ Closing(t, "out", IF closed THEN "done" ELSE "set")
    /\ UNCHANGED <<closed, role, handles, race, call, ret, memberVars>>

CloseSet(t) ==
    /\ Closing(t, "set", "channel")
    /\ closed' = TRUE
    /\ UNCHANGED <<role, handles, race, call, ret, memberVars>>

CloseChannel(t) ==
    /\ Closing(t, "channel", "detach")
    /\ dataChannelOpen' = FALSE
    /\ UNCHANGED <<closed, role, handles, contexts, race, call, ret, connection, hs, chan, quicVars>>

\* The contexts lose their pointers.
CloseDetach(t) ==
    /\ Closing(t, "detach", "stream")
    /\ contexts' = IF contexts = "attached" THEN "detached" ELSE contexts
    /\ UNCHANGED <<closed, role, handles, race, call, ret, connection, hs, chan,
                   dataChannelOpen, quicVars>>

\* Stream and connection are closed with their callbacks detached.
CloseStream(t) ==
    /\ Closing(t, "stream", "connection")
    /\ IF contexts # "none" /\ "api" \in handles
         THEN /\ chan' = [chan EXCEPT !.stream = NoConn]
              /\ streamUp' = [c \in Conns |-> streamUp[c] /\ c # chan.stream]
              /\ inFlight' = [c \in Conns |-> IF c = chan.stream THEN 0 ELSE inFlight[c]]
         ELSE UNCHANGED <<chan, streamUp, inFlight>>
    /\ UNCHANGED <<closed, role, handles, contexts, race, call, ret, connection, hs,
                   dataChannelOpen, phase>>

CloseConnection(t) ==
    /\ Closing(t, "connection", "listener")
    /\ IF "api" \in handles
         THEN /\ phase' = [c \in Conns |-> IF c = connection THEN "closed" ELSE phase[c]]
              /\ connection' = NoConn
         ELSE UNCHANGED <<phase, connection>>
    /\ UNCHANGED <<closed, role, handles, contexts, race, call, ret, hs, chan,
                   dataChannelOpen, streamUp, inFlight>>

CloseHandle(t, handle, next) ==
    /\ Closing(t, handle, next)
    /\ handles' = IF "api" \in handles THEN handles \ {handle} ELSE handles
    /\ UNCHANGED <<closed, role, race, call, ret, memberVars>>

CloseDelete(t) ==
    /\ Closing(t, "delete", "release")
    /\ contexts' = "none"
    /\ UNCHANGED <<closed, role, handles, race, call, ret, connection, hs, chan,
                   dataChannelOpen, quicVars>>

CloseRelease(t) ==
    /\ Closing(t, "release", "done")
    /\ handles' = handles \ {"api"}
    /\ UNCHANGED <<closed, role, race, call, ret, memberVars>>

CloseStep(t) ==
    \/ CloseSet(t) \/ CloseChannel(t) \/ CloseDetach(t) \/ CloseStream(t) \/ CloseConnection(t)
    \/ CloseHandle(t, "listener", "configuration")
    \/ CloseHandle(t, "configuration", "registration")
    \/ CloseHandle(t, "registration", "delete")
    \/ CloseDelete(t) \/ CloseRelease(t)

\* close() returns.
CloseEnd(t) ==
    /\ Closing(t, "done", "out")
    /\ UNCHANGED <<closed, role, handles, race, call, ret, memberVars>>

\* t has passed the test and is not through.
Busy(t) == closing[t] \notin {"out", "done"}

-----------------------------------------------------------------------------
(* connect() *)

\* The close() at its top has returned; it set closed_ for ever, so the close()
\* after a failed step, and every later one, returns at once.
ConnectBegin(r) ==
    /\ call = "idle"
    /\ Closing("main", "done", "out")
    /\ role' = r
    /\ call' = "openApi"
    /\ race' = IF Busy("handler") THEN "overlap" ELSE race
    /\ UNCHANGED <<closed, handles, ret, memberVars>>

\* A step of connect() at place here opens handle, or fails and ends it.
Open(here, handle, next, ok) ==
    /\ call = here
    /\ IF ok
         THEN handles' = handles \cup {handle} /\ call' = next /\ UNCHANGED ret
         ELSE Return(FALSE) /\ UNCHANGED handles
    /\ UNCHANGED <<closed, role, closing, race, memberVars>>

EnsureApiOpen(ok) == Open("openApi", "api", "openRegistration", ok)

OpenRegistration(ok) ==
    "api" \in handles /\ Open("openRegistration", "registration", "loadConfiguration", ok)

LoadConfiguration(ok) ==
    /\ "registration" \in handles => "api" \in handles
    /\ ok => "registration" \in handles
    /\ Open("loadConfiguration", "configuration", "newContexts", ok)

\* start_client() and start_server_listener(): the state shared with the
\* callbacks comes first.
NewContexts ==
    /\ call = "newContexts"
    /\ contexts' = "attached"
    /\ hs' = FreshHandshake
    /\ chan' = FreshChannel
    /\ call' = "startOpen"
    /\ UNCHANGED <<closed, role, handles, closing, race, connection, dataChannelOpen, ret, quicVars>>

\* StartFailed of either, then ConnectionOpen or ListenerOpen and ListenerStart.
StartOpenFailed ==
    /\ call = "startOpen"
    /\ Return(FALSE)
    /\ UNCHANGED <<lifeVars, connection, hs, chan, dataChannelOpen, quicVars>>

OpenConnection(c) ==
    /\ call = "startOpen"
    /\ role = "client" /\ {"api", "registration"} \subseteq handles
    /\ phase[c] = "none"
    /\ phase' = [phase EXCEPT ![c] = "opened"]
    /\ connection' = c
    /\ Return(TRUE)
    /\ UNCHANGED <<lifeVars, hs, chan, dataChannelOpen, streamUp, inFlight>>

StartListener ==
    /\ call = "startOpen"
    /\ role = "server" /\ {"api", "registration"} \subseteq handles
    /\ handles' = handles \cup {"listener"}
    /\ Return(TRUE)
    /\ UNCHANGED <<closed, role, closing, race, memberVars>>

-----------------------------------------------------------------------------
(* perform_handshake() and open_data_channel() *)

PerformHandshake(ok) ==
    /\ call = "idle"
    /\ IF role = "client" /\ ok
         THEN /\ {"api", "registration", "configuration"} \subseteq handles
              /\ connection # NoConn
              /\ phase' = [phase EXCEPT ![connection] = "handshaking"]
              /\ call' = "performWait"
              /\ UNCHANGED ret
         ELSE /\ Return(role = "server" /\ {"registration", "configuration", "listener"} \subseteq handles)
              /\ UNCHANGED phase
    /\ UNCHANGED <<lifeVars, connection, hs, chan, dataChannelOpen, streamUp, inFlight>>

OpenDataChannel ==
    /\ call = "idle"
    /\ IF dataChannelOpen
         THEN Return(TRUE)
         ELSE /\ call' = IF role = "server" THEN "openWait" ELSE "streamWait"
              /\ UNCHANGED ret
    /\ UNCHANGED <<lifeVars, connection, hs, chan, dataChannelOpen, quicVars>>

HandshakeDone == hs.connected \/ hs.failed

\* wait_for_handshake(): an answer, and failed outweighs connected.
HandshakeWait ==
    /\ call \in {"performWait", "openWait"} /\ contexts # "none"
    /\ HandshakeDone
    /\ IF hs.failed \/ call = "performWait"
         THEN Return(~hs.failed)
         ELSE call' = "streamWait" /\ UNCHANGED ret
    /\ UNCHANGED <<lifeVars, connection, hs, chan, dataChannelOpen, quicVars>>

StreamWaitUnready ==
    /\ call = "streamWait" /\ contexts # "none"
    /\ dataChannelOpen' = TRUE
    /\ Return(TRUE)
    /\ UNCHANGED <<lifeVars, connection, hs, chan, quicVars>>

StreamWaitUnmarked ==
    /\ call = "streamWait" /\ contexts # "none"
    /\ chan.ready
    /\ Return(TRUE)
    /\ UNCHANGED <<lifeVars, connection, hs, chan, dataChannelOpen, quicVars>>

StreamWait ==
    /\ call = "streamWait" /\ contexts # "none"
    /\ chan.ready
    /\ dataChannelOpen' = TRUE
    /\ Return(TRUE)
    /\ UNCHANGED <<lifeVars, connection, hs, chan, quicVars>>

-----------------------------------------------------------------------------
(* send_payload() and try_receive_payload() *)

SendPayload ==
    /\ call = "idle"
    /\ IF dataChannelOpen /\ contexts # "none" /\ chan.stream # NoConn
         THEN call' = "sendWait" /\ UNCHANGED ret
         ELSE Return(FALSE)
    /\ UNCHANGED <<lifeVars, connection, hs, chan, dataChannelOpen, quicVars>>

StreamSendEarly(ok) ==
    /\ call = "sendWait" /\ contexts # "none" /\ chan.stream # NoConn
    /\ IF ok
         THEN /\ phase[chan.stream] = "connected"
              /\ chan' = [chan EXCEPT !.sendComplete = FALSE]
              /\ inFlight' = [inFlight EXCEPT ![chan.stream] = @ + 1]
              /\ call' = "sendDone"
              /\ UNCHANGED ret
         ELSE /\ Return(FALSE)
              /\ UNCHANGED <<chan, inFlight>>
    /\ UNCHANGED <<lifeVars, connection, hs, dataChannelOpen, phase, streamUp>>

\* The earlier send is complete.  MsQuic takes the buffer only on a live
\* connection, and may refuse it there.
StreamSend(ok) ==
    /\ call = "sendWait" /\ contexts # "none" /\ chan.stream # NoConn
    /\ chan.sendComplete
    /\ IF ok
         THEN /\ phase[chan.stream] = "connected"
              /\ chan' = [chan EXCEPT !.sendComplete = FALSE]
              /\ inFlight' = [inFlight EXCEPT ![chan.stream] = @ + 1]
              /\ call' = "sendDone"
              /\ UNCHANGED ret
         ELSE /\ Return(FALSE)
              /\ UNCHANGED <<chan, inFlight>>
    /\ UNCHANGED <<lifeVars, connection, hs, dataChannelOpen, phase, streamUp>>

SendWait ==
    /\ call = "sendDone" /\ contexts # "none"
    /\ chan.sendComplete
    /\ Return(TRUE)
    /\ UNCHANGED <<lifeVars, connection, hs, chan, dataChannelOpen, quicVars>>

WaitTimeoutNotSending ==
    /\ \/ call \in {"performWait", "openWait"} /\ ~HandshakeDone
       \/ call = "streamWait" /\ ~chan.ready
       \/ call \in WaitCalls /\ contexts = "none"
    /\ Return(FALSE)
    /\ UNCHANGED <<lifeVars, connection, hs, chan, dataChannelOpen, quicVars>>

\* Every wait gives up while its predicate is false, and is refused when there
\* is nothing to wait on; the result is false.  A send that is given up stays
\* with MsQuic.
WaitTimeout ==
    /\ \/ call \in {"performWait", "openWait"} /\ ~HandshakeDone
       \/ call = "streamWait" /\ ~chan.ready
       \/ call \in {"sendWait", "sendDone"} /\ ~chan.sendComplete
       \/ call \in WaitCalls /\ contexts = "none"
    /\ Return(FALSE)
    /\ UNCHANGED <<lifeVars, connection, hs, chan, dataChannelOpen, quicVars>>

\* A batch of n calls of try_receive_payload().
TryReceive(n) ==
    /\ n <= Len(chan.frames)
    /\ n > 0 => dataChannelOpen /\ contexts # "none"
    /\ chan' = [chan EXCEPT !.frames = SubSeq(@, n + 1, Len(@))]
    /\ UNCHANGED <<lifeVars, connection, hs, dataChannelOpen, call, ret, quicVars>>

-----------------------------------------------------------------------------
(* reset_for_next_client() *)

\* Stream and connection are closed with their callbacks detached, and the state
\* shared with them is fresh.
DropConnection ==
    /\ phase' = [c \in Conns |-> IF c = connection THEN "closed" ELSE phase[c]]
    /\ streamUp' = [c \in Conns |-> streamUp[c] /\ c # chan.stream]
    /\ inFlight' = [c \in Conns |-> IF c = chan.stream THEN 0 ELSE inFlight[c]]
    /\ connection' = NoConn
    /\ dataChannelOpen' = FALSE
    /\ hs' = FreshHandshake
    /\ chan' = FreshChannel

ResetForNextClient ==
    /\ IF closed \/ role # "server" \/ "listener" \notin handles
         THEN UNCHANGED <<connection, hs, chan, dataChannelOpen, quicVars>>
         ELSE DropConnection
    /\ UNCHANGED <<lifeVars, call, ret>>

-----------------------------------------------------------------------------
(* Callbacks.  An event of a connection whose context has lost its pointers is *)
(* ignored.                                                                    *)

\* listener_callback: the newest connection replaces connection_.
NewConnection(c) ==
    /\ "listener" \in handles /\ contexts = "attached"
    /\ phase[c] = "none"
    /\ phase' = [phase EXCEPT ![c] = "handshaking"]
    /\ connection' = c
    /\ UNCHANGED <<lifeVars, hs, chan, dataChannelOpen, call, ret, streamUp, inFlight>>

AttachStreamSilently(c) ==
    /\ chan' = [chan EXCEPT !.stream = c]
    /\ streamUp' = [streamUp EXCEPT ![c] = TRUE]

\* The stream of c becomes the channel's stream: open_client_stream on the
\* client, PEER_STREAM_STARTED on the server.
AttachStream(c) ==
    /\ chan' = [chan EXCEPT !.stream = c, !.ready = TRUE]
    /\ streamUp' = [streamUp EXCEPT ![c] = TRUE]

\* CONNECTED; the client goes on to open its stream.
Connected(c) ==
    /\ phase[c] = "handshaking" /\ contexts = "attached"
    /\ phase' = [phase EXCEPT ![c] = IF role = "client" THEN "opening" ELSE "connected"]
    /\ hs' = [hs EXCEPT !.connected = TRUE]
    /\ UNCHANGED <<lifeVars, connection, chan, dataChannelOpen, call, ret, streamUp, inFlight>>

\* A stream that cannot be opened or started is reported to nobody.
OpenClientStream(c, ok) ==
    /\ phase[c] = "opening"
    /\ ok => contexts = "attached"
    /\ phase' = [phase EXCEPT ![c] = "connected"]
    /\ IF ok THEN AttachStream(c) ELSE UNCHANGED <<chan, streamUp>>
    /\ UNCHANGED <<lifeVars, connection, hs, dataChannelOpen, call, ret, inFlight>>

PeerStreamStarted(c) ==
    /\ role = "server"
    /\ phase[c] = "connected" /\ contexts = "attached"
    /\ ~streamUp[c]
    /\ AttachStream(c)
    /\ UNCHANGED <<lifeVars, connection, hs, dataChannelOpen, call, ret, phase, inFlight>>

Receive(c) ==
    /\ phase[c] = "connected" /\ contexts # "none"
    /\ streamUp[c]
    /\ Len(chan.frames) < MaxFrames
    /\ chan' = [chan EXCEPT !.frames = Append(@, c)]
    /\ UNCHANGED <<lifeVars, connection, hs, dataChannelOpen, call, ret, quicVars>>

\* SEND_COMPLETE, also for a send that the end of the connection cancels.
SendComplete(c) ==
    /\ inFlight[c] > 0 /\ contexts # "none"
    /\ inFlight' = [inFlight EXCEPT ![c] = @ - 1]
    /\ chan' = [chan EXCEPT !.sendComplete = TRUE]
    /\ UNCHANGED <<lifeVars, connection, hs, dataChannelOpen, call, ret, phase, streamUp>>

\* SHUTDOWN_INITIATED_BY_TRANSPORT counts as a failed handshake until some
\* connection has been CONNECTED.
ShutdownByTransport(c) ==
    /\ phase[c] \in {"handshaking", "connected"}
    /\ phase' = [phase EXCEPT ![c] = "down"]
    /\ hs' = [hs EXCEPT !.failed = @ \/ (contexts = "attached" /\ ~hs.connected)]
    /\ UNCHANGED <<lifeVars, connection, chan, dataChannelOpen, call, ret, streamUp, inFlight>>

\* SHUTDOWN_INITIATED_BY_PEER has no case of its own.
ShutdownByPeer(c) ==
    /\ phase[c] \in {"handshaking", "connected"}
    /\ phase' = [phase EXCEPT ![c] = "down"]
    /\ UNCHANGED <<objectVars, streamUp, inFlight>>

\* SHUTDOWN_COMPLETE; close() looks at the flag for two seconds and goes on
\* whatever it sees.
ShutdownComplete(c) ==
    /\ phase[c] = "down" /\ contexts = "attached"
    /\ hs' = [hs EXCEPT !.shutdownComplete = TRUE]
    /\ UNCHANGED <<lifeVars, connection, chan, dataChannelOpen, call, ret, quicVars>>

Callback ==
    \E c \in Conns :
        \/ NewConnection(c) \/ Connected(c) \/ \E ok \in BOOLEAN : OpenClientStream(c, ok)
        \/ PeerStreamStarted(c) \/ Receive(c) \/ SendComplete(c)
        \/ ShutdownByTransport(c) \/ ShutdownByPeer(c) \/ ShutdownComplete(c)

\* The steps a call takes by itself.
Proceed ==
    \/ \E ok \in BOOLEAN :
          EnsureApiOpen(ok) \/ OpenRegistration(ok) \/ LoadConfiguration(ok) \/ StreamSend(ok)
    \/ NewContexts \/ StartOpenFailed \/ StartListener \/ \E c \in Conns : OpenConnection(c)
    \/ HandshakeWait \/ StreamWait \/ SendWait \/ WaitTimeout

\* A null or freed pointer is about to be used: by connect(), in a wait, by
\* listener_callback, or by an event of a connection that has outlived its context.
Dangling ==
    \/ call \in ConnectCalls \ {"openApi", "newContexts"} /\ "api" \notin handles
    \/ call \in WaitCalls /\ contexts = "none"
    \/ call = "sendWait" /\ chan.stream = NoConn
    \/ "listener" \in handles /\ contexts # "attached"
    \/ contexts = "none" /\ \E c \in Conns : phase[c] \in Live

Undefined ==
    /\ Dangling
    /\ race' = "undefined"
    /\ UNCHANGED <<closed, role, handles, closing, call, ret, memberVars>>

-----------------------------------------------------------------------------
(* Properties. *)

\* Every variable of the transport has its type.
TransportTypeOK ==
    /\ closed \in BOOLEAN
    /\ role \in {"client", "server"}
    /\ handles \subseteq Handles
    /\ contexts \in {"none", "attached", "detached"}
    /\ closing \in [Callers -> ClosePc]
    /\ race \in {"none", "overlap", "undefined"}
    /\ connection \in Conns \cup {NoConn}
    /\ hs \in [connected : BOOLEAN, failed : BOOLEAN, shutdownComplete : BOOLEAN]
    /\ chan \in [stream : Conns \cup {NoConn}, ready : BOOLEAN, sendComplete : BOOLEAN,
                 frames : Seq(Conns)]
    /\ dataChannelOpen \in BOOLEAN
    /\ call \in ConnectCalls \cup WaitCalls \cup {"idle", "returned"}
    /\ ret \in BOOLEAN
    /\ phase \in [Conns -> Live \cup {"none", "opened", "closed"}]
    /\ streamUp \in [Conns -> BOOLEAN]
    /\ inFlight \in [Conns -> Nat]

\* send_complete tells the truth across timeouts and across clients: when it is
\* set, MsQuic holds no buffer of this object, and it never holds two.
SendSlot ==
    /\ chan.sendComplete => \A c \in Conns : inFlight[c] = 0
    /\ \A c, d \in Conns : inFlight[c] > 0 /\ inFlight[d] > 0 => c = d /\ inFlight[c] = 1

\* An open data channel has a stream, and the connection of that stream has
\* completed its handshake - unless a close() of the handler that was under way
\* when connect() began has taken them away.
OpenChannelHasStream ==
    race = "none" /\ dataChannelOpen
      => chan.stream # NoConn /\ hs.connected /\ streamUp[chan.stream]
=============================================================================
