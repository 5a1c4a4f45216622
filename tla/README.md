# SecureTunnelCpp: a TLA+ model of the tunnel

SecureTunnelCpp is a point-to-point tunnel: a client and a server each read IP
packets from a virtual interface, seal them in an inner session, and carry them
over one QUIC stream. This directory models the code that decides when data may
flow and what happens when something fails: the session's state machine, the
engine and its data plane loop, the QUIC transport with MsQuic's callbacks, the
signal handlers, the inner session's replay protection, the framing of the byte
stream, what transports of one process share, the server's TUN device, and what
the Windows client does to the system's routes.

Paths below are relative to the repository; `engine:88` is line 88 of
`src/tunnel_engine.cpp`, `quic:720` of `src/quic_secure_transport.cpp`,
`inner:110` of `src/inner_session.cpp`, `net:345` of `src/windows_net_config.cpp`,
`wintun:178` of `src/wintun_virtual_interface.cpp`.

## 1. Inventory

| Component | State | Operations | Hard to get right |
|---|---|---|---|
| Session (`src/session.cpp`) | state (6 values), epoch | `transition_to`, `reset_to_handshaking`, `can_send_data` | plain members used by two threads; check and store are apart |
| TunnelEngine (`src/tunnel_engine.cpp`) | session, stop flag, scratch buffers, inner session | `start`, `run_data_plane_for` (`relay_batch`, `ensure_session_ready`, `reset_server_session`), `request_data_plane_stop`, `stop` | `stop()` in a handler beside every other operation; recovery after a broken client; leaving the loop |
| InnerSession (`src/inner_session.cpp`) | send counter, highest number opened | `seal`, `open`, `create_inner_session` | repeated, late and cut frames; a peer that restarts; two formats |
| QuicSecureTransport (`src/quic_secure_transport.cpp`) | `closed_`, handles, `connection_`, HandshakeState, StreamChannel, `data_channel_open_` | `connect`, `perform_handshake`, `open_data_channel`, `send_payload`, `try_receive_payload`, `reset_for_next_client`, `close`, four callbacks | callbacks on MsQuic's threads; timeouts racing completions; one state for all clients of a listener |
| StreamFraming (`append_received_bytes`, quic:103) | reassembly buffer, queue of frames | append, cut frames off | arbitrary pieces; an illegal length in the middle; the buffer outlives the stream |
| Main programs (`apps/`) | `g_engine_for_signal` | construct, `start`, relay, `stop`, signal and console handlers | a request at any moment, also during `start()` |
| PacketBufferPool | free buffers | `acquire`, `release` | test and push without a lock, by `stop()` in two threads |
| MsQuicApi (`src/msquic_api.cpp`) | API table, reference count, for the whole process | `acquire`, `release` | closed with the last reference, while another thread may still connect |
| WindowsNetConfigurator, WintunVirtualInterface, SmartRouteManager, WintunLoader | library, adapter, session, routes added and remembered, address, DNS server, worker thread | `load`, `unload`, `open`, `apply_client_routing`, `clear_client_routing`, `close`, the worker's passes | one of several steps fails; a route that existed before; the worker beside `stop()`; a process killed with its routes in place |
| LinuxTunVirtualInterface | `fd_` | `open`, `read_packet`, `write_packet`, `close` | the handler closes a descriptor the main thread has just tested; the kernel gives its number away |
| DevelopmentAdapters | link shared by port; one packet | the transport's and the interface's operations in one process | one end closes and frees the link the other still points to |
| TunnelConfig, RelayStats, console_utf8, wintun_probe | little or none | I/O, parsing, counters | not modelled, see section 7 |

Interactions: `main()` owns an engine, the engine owns a transport and an
interface and calls them from the main thread only, except that `stop()` may be
called by the handler. MsQuic calls back into the transport's HandshakeState and
StreamChannel on threads of its own; the main thread waits for them on condition
variables, always with a timeout. The two ends share nothing but the frames on
the wire. What makes each part correct:

- Session and engine: no data before the handshake; `stop()` leaves nothing
  behind however it overlaps; the buffer pool stays bounded; a stop request ends the loop; a server recovers.
- Transport: one send at a time; an open channel has a live stream; every call
  returns; a client that connects is served; a reset makes room for the next.
- Framing: whatever pieces the bytes come in, the frames are those sent, all of
  them, and the buffer stays bounded.
- Process: the API table lives exactly as long as a transport uses it; nothing is
  called through it afterwards; a development link outlives its users.
- TUN device: no descriptor of others is used, no device is left open.
- Inner session: no frame is opened twice or out of order, none is refused
  without a reason.
- Routes: what a run has set up is gone when it is closed; there is never a route
  into the tunnel without the one around it; the worker and the main thread do
  not touch the routes together; `stop()` returns.

## 2. Modules

| Module | Models | Extends |
|---|---|---|
| `Session` | the transition table, epoch, `can_send_data` | |
| `TunnelEngine` | the engine and the programs that drive it, over a transport and an interface that may fail in any call | `Session` |
| `TunnelEngineProofs` | the engine's theorems | `TunnelEngine` |
| `QuicSecureTransport` | the transport object and MsQuic's callbacks | |
| `Tunnel` | one program: the engine over this transport | `TunnelEngine`, `QuicSecureTransport` |
| `TunnelProofs` | theorems of the engine over this transport | `Tunnel`, `TunnelEngineProofs` |
| `MCTunnel` | symmetry and a bound of the connections | `Tunnel` |
| `FrameDelivery` | abstract: what a pair of inner sessions promises | |
| `InnerSession` | the two inner sessions and the network | |
| `MCInnerSession` | bounds for TLC | `InnerSession` |
| `InnerSessionProofs` | the inner session's theorems | `InnerSession` |
| `StreamFraming` | the length field and the reassembly of frames, byte by byte | |
| `MCStreamFraming` | payloads and symmetry for TLC | `StreamFraming` |
| `StreamFramingProofs` | the framing's theorems | `StreamFraming` |
| `QuicLifetime` | `connect()` and `close()` handle by handle, and MsQuicApi | |
| `QuicLifetimeProofs` | its theorems | `QuicLifetime` |
| `DevelopmentTransport` | the in-process transport and its links | |
| `Process` | the transports `make_transport` gives the engines of one process | `QuicLifetime`, `DevelopmentTransport` |
| `ProcessProofs` | its theorems | `Process`, `QuicLifetimeProofs` |
| `LinuxTun` | LinuxTunVirtualInterface and the descriptors of the process | |
| `TunServer` | the engine over the interface `make_interface` gives it | `TunnelEngine`, `LinuxTun` |
| `TunServerProofs` | its theorems | `TunServer`, `TunnelEngineProofs` |
| `ClientRoutes` | WintunVirtualInterface with its library, WindowsNetConfigurator and SmartRouteManager over one system, across runs of the client | |
| `ClientRoutesProofs` | the routes' theorems | `ClientRoutes` |

`PROJECT.json` maps every definition to its lines. Definitions that stand right
before the one they resemble (`StopRoutingForgotten` before `StopRouting`) are its mutants:
the same operation with a plausible mistake. No specification uses them; each
property is shown to fail when its mutant takes the operation's place.

### TunnelEngine

`pc` says where the main thread and the handler are. Every call of the transport
or the interface is one action whose parameter is the call's result. `stop()` is
a sequence of steps that either thread takes. `session_` and
`data_plane_stop_requested_` are plain members that both threads use, which the
language leaves undefined; the model takes what the supported builds do with
members of machine width, whole loads and stores in any interleaving.
`Transition` is therefore two steps: the load of `transition_to`'s check, kept
in `loaded`, and the store. The buffer pool is shared in the same way: `acquire` and
`release` test the size of `free_list_` in one step and store the new one in another,
and when both threads are between test and store, either may overwrite the size the
other has stored (`StoreSize`). When both have seen room for the same buffer the pool
exceeds its capacity, which the unit test (`packet_buffer_pool_tests.cpp:42`) rules out
for one thread; `PoolBounded` says that it does so by one buffer at most. `channel` and
`asked` are history: whether `open_data_channel()` has succeeded since the last reset,
and whether the handler has set the flag.

The handler is a thread of its own. That is exact on Windows, where console and
C signal handlers run on a new thread; on POSIX the handler interrupts the main
thread, and its runs are among those of the model. In the server the handler
calls `stop()`, in the VPN client `request_data_plane_stop()`, and the plain
client has none. `EngineKnown` follows the global pointer the handlers test.

Abstractions: packets and frames have no content here; `is_ready()` of the
interfaces is true while they are open; `relay_batch` never meets its own call
of `ensure_session_ready()`, because the loop enters it only in state
established and a state that changes in between takes the failing branch all the
same; the sleeps of the loop are left out. The test at the head of a round
(`RelayBegin`) and the reading of a packet (`RelayOutbound`) are apart, so that the
handler can close the interface between them. A batch of received frames is one
step: a frame that cannot be opened or written ends the batch and the loop goes
on in each case. `routing` says that the interface has been told to set up routes and
not yet to take them back: `StopRouting` is the call of `clear_client_routing()`, and
which deletions the system refuses is the matter of ClientRoutes.

### QuicSecureTransport

The object's members are variables of the same names. `call` is where the caller
is inside the object, so that callbacks fall between the steps of a call, and
`ret` keeps the result until the engine takes it. `phase`, `streamUp` and
`inFlight` are MsQuic's side, modelled from how the code uses it: a connection
goes from handshaking to connected to down; a send that is accepted is completed
at some time, also when the connection ends first, and possibly long after
`send_payload()` has given it up. All connections of a listener share one `hs`
and one `chan`, and a new connection replaces `connection`, as the code does.

A wait is two alternatives, its predicate holds or it has timed out while the
predicate is false. The callbacks store and notify without the mutex, so a
wake-up can be missed; the wait then ends at its timeout, when it tests the
predicate again, which the model allows as well. `CONNECTED` and the opening of
the client's stream that follows it are two steps (`Connected`, `OpenClientStream`), so
the main thread can see the one without the other. A received frame is the
connection it came from; the bytes are left to StreamFraming.

`connect()` and `close()` go handle by handle. `close()` is called by `connect()`, by
`stop()` in the main thread and in the handler, and by the destructor; `closing[t]` is
where thread `t` is inside it. `closed_` is tested in one step (`CloseTest`) and set in
another (`CloseSet`), then channel, contexts, stream, connection, handles and the API
table go one after the other, each only if it is there at that moment. `close()` waits
two seconds for SHUTDOWN_COMPLETE and goes on whatever it sees.

A `close()` of the handler that has passed its test when `connect()` begins takes away
what `connect()` and the later calls build: the channel of an established session, the
stream of an open channel, the contexts a callback is about to use. `race` records it:
`"overlap"` from the beginning of such a `connect()`, `"undefined"` once a null or freed
pointer has been used (`Dangling`, `Undefined`), where the model ends, since anything may
follow. Every other `close()` finds `closed_` set and returns, because `connect()` has set
it (finding 3).
`DropConnection` is the body of `reset_for_next_client()`; the runs show that it is
reached only before `connect()`, since `closed_` stays set.

### Tunnel

`BeginCall`, `InCall` and `EndCall` put a call of the engine together from the
transport's steps; `LocalStep` takes the engine's own steps as they are;
`CloseCall` is a step of `close()` in either thread; `Reset`, `StopStep` and `Exit` join
an action of each. `TunnelSpec` has every behaviour. `UnracedSpec` has those in which no
`close()` of the handler is past its test when `connect()` begins, and the runs other
than `tunnel` use it; the signal may come at
any other moment, and a `close()` that finds `closed_` set may run beside `connect()`.
The properties of channel and session say `race = "none"` themselves, so the theorems
about them are theorems of `TunnelSpec`.

### StreamFraming

`written[s]` is what `send_payload()` has put on stream `s`, `arrived[s]` how much of
it the RECEIVE callback has been given, in pieces of any size; QUIC keeps the order
within a stream. `reassembly` is the one buffer of the StreamChannel that all
streams of a listener share, and `CutFrame`, `CutIllegal`, `CutDone` are the rounds
of the loop in `append_received_bytes`, under the mutex, so no other piece comes
in between. The length is really encoded and decoded (`Header`, `SizeOf`); a byte
has `Base` values, a payload at most `Limit` bytes. The queue is kept per source
to compare it with what was sent. The code cannot tell streams apart: when a
client goes in the middle of a frame, its rest and the next client's first bytes
form one (`mixed`, history). The properties say exactly what is lost then, and
what is not: streams that never met a leftover are whole, and the buffer is
bounded in any case.

### QuicLifetime, DevelopmentTransport and Process

`QuicLifetime` follows each object through `connect()` and `close()` one call of
MsQuic at a time, by the main thread and by a handler's `close()`. `closed_` is
tested in one step and set in another. `acquire` and `release` are single steps,
they hold `g_msquic_mutex`; between `release` and the clearing of `api_open_` lies a
step of its own. A call through `msquic_` after that is undefined and recorded.
The contexts of the callbacks are one part, connection or listener another. The
waits in `close()` change nothing and are left out. What makes `NoCallAfterClose`
hold is that `connect()` itself sets `closed_` before it opens anything: the only
`close()` that can take handles away from it is one that had passed its test by
then (`raced`; `race` in QuicSecureTransport). It is the other side of finding 3.

`DevelopmentTransport` has the map `g_links` as `slot`, whose link is freed when it
is erased, since the ends keep plain pointers. A payload is the life of the end it
is meant for. After the peer's `close()` an end may use a freed link (`UseFreed`):
`LinkAlive` says that nothing else leads there. Two ends in one process are the
configuration of the repository's tests; the programs have one end each.
`Process` lets each end have either kind of transport, as `make_transport` does.

### LinuxTun and TunServer

`owner` is the process's descriptor table: a number is free, the TUN device, or
something of another part (`OthersOpen`, MsQuic's sockets for instance), which may
take a number as soon as it is free. The calls of the interface test `fd_` and then
pass it to the kernel. It is a plain `int`, and when the handler's `close()` runs in
between, the value passed is the one tested or the one that is there now
(`Passed`). `overlapped` is history: only then can a descriptor of others be
reached, and `OnlyOwnDescriptor` says so. `TunClosed` has no exception: no overlap
loses a device. `TunServer` runs the engine over it; bound: one write per batch of
frames. The class has no destructor that closes: when `start()` fails after
`open()`, the server ends without `stop()` and the device goes with the process.

### InnerSession and FrameDelivery

Both ends have a counter and a highest number. `Accepts` is the order of checks
that both implementations of `open()` share: version, number, then lengths or
tag. The cipher is abstract: a frame is whole, or it has lost its tail and is
refused. `wire[e]` is a set from which frames are read and never removed, so that
loss, repetition and reordering need no actions; `Cut` shortens a frame. `mode`
is what `create_inner_session` chose at each end from the key and the platform,
so two ends may speak different formats. `RestartClient` is a new client process
against a server that keeps its object. FrameDelivery says: an end gets only
what the other sent, and of one life only in increasing order. The counters are
64 bits wide and are not modelled modulo 2^64: that many frames are out of reach.

### ClientRoutes

`table` is the system: the adapter's address and DNS server, the default route,
prefix routes and bypass routes, each an entry that stands for what identifies
it. `remembered` is `selective_routes_`, the default route and the bypass route
of the configurator in one set; `ForgetRoute` keeps the order in which
`clear_client_routes()` deletes them, as far as it matters: the bypass last.
`pc` is the main thread in `open()`, `apply_client_routing()`, and
`clear_client_routes()` as `stop()` and then `close()` call it; `worker` is the
thread of SmartRouteManager, whose routes `PassAdds` adds one at a time. Every
creation and every deletion may be refused. `theirs`, `ours`, `used` and
`refused` are history: routes that were there before, what the program created,
what this run has set up, and what it failed to delete. `library`, `adapter` and
`tunSession` are `module_`, `adapter_` and `session_`; `close()` ends session and
adapter through functions of the library, each only if it is there. When the DNS
server cannot be set, `open()` closes all three but leaves the address on an adapter
that it had not created, because `network_applied_` is not set yet (wintun:178);
`left` records it, and `CleanEnd` allows exactly that.

An adapter that the process created disappears with the process or its handle,
with all its entries; one that it opened stays. `Killed` ends the process at any
moment and `NewRun` starts another one over the same table. Abstractions: lists,
names and CIDR texts are the prefixes they give; the best gateway is any gateway;
both deletions of `clear_network_config()` are one step; nobody else changes the
table during a run. The programs always configure an address and a DNS server.
In the VPN client the handler only sets a flag (see TunnelEngine), so `stop()`
runs in the main thread. `TunnelEngine` sees all of this as the Boolean `routing`.

## 3. Runs

| Run | Instance | Shows |
|---|---|---|
| `inner` | `MCInnerSession`, 52 thousand states | replay protection, justified refusals; implements FrameDelivery |
| `inner_reconnect` (violation) | the same | the first frames of a restarted client are refused |
| `engine` | `TunServer`: three programs, the server with and without TUN device, two descriptors, 307 thousand states | sends only over an open channel, no descriptor of others, no device lost, a bounded pool, a clean stop, the loop ends, the server recovers |
| `engine_ctrl_c` (violation) | VPN client | Ctrl+C during `start()` is forgotten |
| `tunnel` | `MCTunnel`: server, two connections, every overlap of `close()` with `connect()`, 2.4 million states | one send at a time; an open channel has its stream and an established session an open channel, without the overlap |
| `tunnel_live` | server and VPN client, one connection, 290 thousand states | every call returns: the composition implements `TunnelEngine` with its fairness; a connected client is served; a send to a dead one ends its session |
| `tunnel_reset` (violation) | server, two connections | the reset does nothing |
| `tunnel_next_client` (violation) | server, two connections | a failed handshake of one client keeps the server from the next |
| `routes` | two runs of the client, 165 thousand states | a closed run leaves nothing, no route into the tunnel without the one around it, the worker excluded, `stop()` returns |
| `routes_others` (violation) | one run | a bypass route of others is deleted |
| `framing` | two streams, 880 thousand states | frames as sent, none left behind, bytes thrown away only when clients mix, a bounded buffer |
| `process` | two transports of either kind, 139 thousand states | the API table is counted and not used after release; links live until the peer closes; no payload for an earlier connection |

Bounds and why they suffice:

- `MaxSeals` (`MCMaxSeals`), `MaxRestarts`: enough frames for one to be overtaken, repeated
  and cut while a number is burnt, and for a second life of the client to have
  fewer frames than the first. The theorems remove both bounds.
- `MaxClients` bounds the epoch; a third client meets no state the second has
  not met. The theorems hold for every value. In `Tunnel` the connections bound
  it and the constant plays no part in the main thread's steps; `tunnel_live`
  sets it high enough for the refinement.
- `PoolCapacity` is 1 to 3: smaller than the four buffers two calls of `stop()`
  release, so that the full pool is met, and in `engine` (2) with room for one buffer
  that both threads see. Theorems: every capacity.
- `Conns`: two connections are needed for a new one to replace an old one;
  three add no new relation, since the object remembers at most one.
  `tunnel` uses their symmetry; the runs with temporal properties do not.
  `MCRacedConns` is 1: after an overlap of `close()` with `connect()` one connection
  is enough for everything it has to be taken away. The theorems have no such bound.
- `MaxPackets` is 2: one send that is given up and one that meets its late
  completion. `MaxFrames` 0 or 1: only whether the queue is empty matters to control.
- `Gateways`, `Prefixes`: two each, so that a run can add one route beside another
  that exists, and a second run can choose another gateway than the first.
  `MaxRuns` is 1: a second run meets what a killed first one left. Theorems: all values.
- `Base`, `Limit`: bytes of two values and payloads of at most two bytes, next to an
  empty and a too long one that are refused; a header that is cut at each place
  and a leftover read as a header both occur. `MaxSent` is 2 per stream.
  Theorems: all values a length field of four bytes has room for.
- `Objects`: two, so that the last but one reference is given up. `MaxLinks` is 3:
  both ends can connect again. `MaxPending` is 2. Theorems: all values.
- `Fds`: two, one that the device has given up and another part has taken, and one
  that is free.

`CHECK_DEADLOCK FALSE` everywhere: a program ends, and the bounded inner
sessions run out of frames.

Fairness. `TunnelEngine`, `TunServer` and `Tunnel` assume weak fairness of the main thread
and nothing else: the operating system runs it, and each of its waits has a
timeout (quic:516, 591, 663, 687). Nothing is assumed of MsQuic's callbacks, of
the handler, or of the peer. In `TunnelEngine` this fairness says that
calls of the transport return; `ImplementsEngine` in `tunnel_live` shows that it
is so for this transport. The TUN descriptor is opened non-blocking, so a read
returns. `DeadClientNoticed` starts where a packet is about to be sent: without
one the server may never notice, and no fairness promises a packet. `ClientRoutes` assumes weak fairness of the main thread
and of the worker: both are threads the system runs, a call of IP Helper and the
resolution of a name return. Nothing makes a pass add a route.

## 4. What the violations mean

1. `inner_reconnect` (inner:110, 270). The server creates one inner session in
   `start()` and keeps it; a client that starts again counts from 1 and is
   refused as a replay until it passes the old number. `session.hpp:28` and
   README line 210 promise that the server goes on with the next connection.
   `RefusalsAreBounded` proves how far it goes: a frame above every number opened so
   far is never refused.
2. `engine_ctrl_c` (engine:88). `start()` clears the stop flag near its end.
   A Ctrl+C that the handler has taken before is lost and the 24 hour loop begins.
3. `tunnel_reset` (quic:720). `connect()` begins with `close()`, which sets
   `closed_`, and nothing clears it. From then on `reset_for_next_client()` and
   `close()` return at once; the resources go with the process. `NothingIsTakenBack`
   proves it for any set of connections and every order of steps but the one where
   a `close()` was already past its test.
4. `tunnel_next_client` (quic:242). `failed` belongs to the transport and is
   cleared only by the reset that never runs. When a handshake fails before any
   client was connected, later clients connect and are never served:
   `FailedServerServesNobody`, for any set of connections.
5. `routes_others` (net:345). A route that exists counts as added. The bypass
   route is not on the tunnel's adapter, so it may be the administrator's, and
   `clear_client_routes()` deletes it; `windows_net_config.hpp:75` speaks of the
   routes this helper added. The same rule is what lets a run remove the bypass
   that a killed one left (`CleanEnd`).

`ConnectedClientServed` is the fourth without its cause (`hs.failed`): what
holds of the code as it is. `EstablishedHasChannel` and `OpenChannelHasStream`
hold partly because of the third: the channel, once open, stays open, unless the
`close()` that closes it was past its test before `connect()` set `closed_`. A later
client's stream replaces the old one in the open channel.

## 5. Proofs

Every theorem is for all values of the constants under the named assumptions
(`BoundsAssumption`: the bounds are naturals; `EngineAssumption`: the programs are
among the three, the pool has room for one buffer).

**InnerSessionProofs.** `OpenedOnceInOrder` is not inductive: it says nothing of
the highest number. `IInv` adds that the highest number is that of an opened
frame and bounds all opened ones (`LastIsHighest`, `LastWasOpened`), that
whatever is on the wire was sealed by the peer (`WireWasSealed`), that sealed
numbers are not above the counter of their life (`SealedBelowCounter`), that
opened numbers increase across lives as well (`OpenedIncreasing`), and that a
refused frame is not above the highest number (`RefusedNotAboveLast`). From it:
`TypeCorrect`, `ReplayProtection`, `RefusalsAreJustified`, `RefusalsAreBounded` and `ImplementsDelivery`, the refinement, action by action: opening a frame is
a delivery, sealing one is a send, a restart of the client is a restart, the
rest stutters.

**TunnelEngineProofs.** `IInv` consists of
`LoadedInTransition` (a thread has a loaded state only inside a transition),
`TakenDown` (what the main thread's `stop()` has closed stays closed: nothing else
opens the interface or adds a route once it is there),
`ChannelOnTheWay` and `EstablishedHasOpenChannel` (wherever the state is or is
about to become established, the channel was opened since the reset; the
handler's stores only ever write closing and stopped), and `ClientAlone` (in a
client only the main thread touches the session, so its state is known at each
place). From it: `NoSendBeforeHandshake`, `StopTakesDown` and `StopEndsClientSession`.
`PoolIsBounded` needs only the types: a `release()` that has seen room counts as a
buffer already (`Pending`), and two threads cannot both be ahead by more than one.

The liveness properties have a part that is safety: a measure that no step raises
and every step of the main thread lowers. `StopIsBounded` has it for
`StopEndsLoop`: `StepsLeft` counts the places between the main thread and the end of
its `stop()` (at most 43), two steps for a `transition_to`; each way through the round that is
running leads down, and no new round begins. `RecoveryIsBounded` has it for
`ServerRecovers`. There the handler can interfere: a store into the session between
the check and the store of `reset_to_handshaking()` makes the reset end without a
session. `ResetSucceeds` says whether the present reset will come through as the
session stands, `ResetLeft` counts the places by way of the next reset if not, and
`RecoveryLeft` adds enough for each of the two stores the handler can still make
(`HandlerStores`).

**ClientRoutesProofs.** `CleanEnd` and `BypassWhileRouted` speak of the table, the
program only of what it remembers. `IInv` ties them together: `NoOrphan` (what
the run has set up and is still there is remembered, was refused, or is the
adapter's address and DNS server while `network_applied_` is set),
`RememberedPlace` and `NetworkPlace` (where the main thread may still have
something to clear, and that `client_routes_applied_` will make it do so),
`WorkerPlace` (the worker lives only from `start()` to the join, with
`client_routes_applied_` set, so what it adds will be cleared), `BypassExists`
and `BypassKept` (whoever adds a route finds a remembered bypass, whoever deletes
the bypass finds no remembered route). From it: `TypeCorrect`, `WorkerExcluded`,
`CloseLeavesNothing`, `NoLoop` and `StopIsBounded`, under `RoutesAssumption` (the kinds of entries
are distinct). The three invariants were also checked with TLC.

`HandlesPlace` says where library, adapter and session exist together, so that
`close()` finds a function for each of them. `StopIsBounded` is the safety part of
`StopReturns`: places left (`StopLeft`, the routes are cleared twice), then routes
remembered, which only shrink once the worker is joined; while the main thread waits
in `join()` the worker sees the flag (`FlagBeforeJoin`) and has two steps left.

**StreamFramingProofs.** The frames and the buffer of a stream that has not met
another's leftover are tied to what was sent by position: the buffer is the part of
`written[s]` from the start of the next frame to `arrived[s]` (`Aligned`), and the sent
frames stand in `written[s]` one after the other (`Layout`). A header decodes to the length it
encodes (`SizeOf` of `Header`, arithmetic in base `Base`), so the loop cuts at the next
start and never meets an illegal length. From it: `TypeCorrect`, `FramesFaithful`,
`AllDelivered`, `ClearsOnlyMixed`, `Bounded`; assumption `FramingAssumption`, above all
that a legal length fits into four bytes.

**QuicLifetimeProofs, ProcessProofs.** `QuicInv` has two parts per object. `Phases`
says where the threads can be: nothing is open before `ensure_api_open()`, `closed_`
is set by then, so the main thread never releases anything, and the handler's
thread does so only in an object whose opening it has overtaken. `Progress` says
what is open at each step of `connect()`. The count is proved by cardinality, for
any finite `Objects`. The two properties of the development transport are inductive
with its types. `ProcessProofs` shows that a step of one kind leaves the invariant
of the other alone.

**TunServerProofs.** `TunInv` ties `fd_`, what each thread has tested and the kernel's
table to the places of the two threads. `CallPlaces` says where the engine is during a
call. `Unopened`: `open()` is called once and nothing is there before. `OneTun`: a
device that exists is the one `fd_` names, and whoever is about to clear `fd_` has
closed it. `Held` is the other direction. `Tested`: what a thread has tested is still
`fd_`, or `fd_` was cleared since. `Down`: no device after the main thread's `close()`,
because a thread that finds `fd_` empty finds no device either. `Alone`: without an
overlap the descriptor tested is the device when the kernel is called. From it:
`DescriptorIsOwn`, `NoTunIsLost`. `EngineOverTun` carries the engine's theorems over to
`ServerSpec`; assumption `FdAssumption`. `ServerImplementsEngine` is the refinement
without its fairness: the kernel's steps inside a call stutter, its return is the engine's
step.

**TunnelProofs.** The invariants are not inductive. `TunnelInv` holds as long as
`race = "none"` (`TunnelInvariance`) and adds `Pristine` (until `closed_` is set the object is
as it was made, and the main thread has not begun to open anything; a thread inside
`close()` finds nothing there to take away; so no `close()` and no reset ever drops
anything, finding 3 above), `StreamReady` (`ready` comes with a stream on a connection
that was CONNECTED, and the channel is opened only when `ready`), `CallAt` (inside a
call the main thread stands at the place of that call, and `open_data_channel()` is
never about to return true with the channel closed) and `ChannelOpen` (every place on
the way to an established session has the channel open). From it:
`OpenChannelIsConnected` and `EstablishedIsOpen`; assumption `TransportAssumption`
(`NoConn` is no connection).

`OneSendAtATime` holds in every behaviour of `TunnelSpec`, the overlap included, and so
cannot rest on `TunnelInv`. `SlotInv` has what it needs: nothing is in flight before
`connect()` has returned, so the fresh channel it makes forgets no send; `closed_` is set
from then on, so no reset makes another; and a send is handed over only where
`send_complete` was seen set. A stream that `close()` takes away takes its buffer with it.

Findings 3 and 4 are theorems here, without the overlap. `Kept` lists what no step undoes
(`NothingIsTakenBack`); with `OnlyAfterSuccess` (a server waits for a stream only after
a handshake that nothing had failed before) it gives `FailedServerServesNobody`.

`EngineInvariance` shows the engine's `IInv` over this transport, without a bound on the
clients, and `EngineOverQuic` the engine's properties. `ImplementsEngineSafely` is the
refinement without its fairness. `TunnelEngine` bounds the sessions by `MaxClients`,
`Tunnel` does not, so the theorem has to bound them by what the environment does: a session
that was established ends only by a packet that could not be sealed or sent, or by one of
the handler's two stores, and `SessionsPaid` keeps the account at every place on the way
(`SessionsArePaidFor`). Hence the hypothesis `MaxClients >= MaxPackets + 3`, which
`MCTunnelLive.cfg` meets with 5 and 2.

The measures over this transport, the last two as long as no `close()` overlapped
`connect()`:

- `StopIsBoundedOverQuic`, `RecoveryIsBoundedOverQuic`: those of the engine; inside a
  call they stand still.
- `DeadClientIsNoticed` (`NoticeLeft`, at most 7): in a send that finds the connection down,
  every result is false, by the refusal of MsQuic or by the timeout, and leads to the
  end of the session. It needs `LoadedFresh`: what `transition_to` has read of a session
  that connects, waits or is established is what it is, since the handler only closes and
  stops.
- `ConnectedClientIsServed` (`ServeLeft`, then `CallLeft`): with a client that is
  connected and has its stream, `open_data_channel()` cannot time out, because `connected`
  and `ready` are set (`StreamReady`, `StreamsReady`) and are never taken back; the
  return of an earlier call that had given up costs one more round. When the session
  does not wait for a client, the places of `RecoveryLeft` come first.

Only model-checked: that the main thread and the worker do take their steps. So the
temporal properties themselves (`StopEndsLoop`, `ServerRecovers`,
`ConnectedClientServed`, `DeadClientNoticed`, `StopReturns`) and the fairness in
`ImplementsEngine` stay with TLC, because fairness and ENABLED are outside the prover.
What the proofs show of them is that each step taken leads nearer, for all constants.

## 6. Plan

Done: every module above and the proofs of section 5. What is left:

- An abstract specification of the routes as `TunnelEngine` sees them (applied,
   cleared, or failed with nothing left), and `ClientRoutes` shown to implement it.

## 7. Not modelled

- Bytes beyond the framing: the cipher, the layout of sealed frames, addresses,
  certificates.
- `console_utf8`, `wintun_probe`: straight-line I/O on the console.
- `DevelopmentVirtualInterface`'s packet: one slot that a write fills and a read
  empties, by one thread; its calls are the single steps of `TunnelEngine`.
- `TunnelConfig`: `is_valid()` is the choice in `StartBegin`; the single checks are
  range tests on strings and numbers without state.
- `RelayStats`: counters that choose between sleeping and not sleeping.
- The configuration handle that `load_configuration()` loses when the credential
  cannot be loaded (quic:411), and the buffer of a send that was given up
  (quic:690): what happens to them is decided inside MsQuic.
- The engine destroyed at the end of `main()` while the handler is still in `stop()`:
  the model lets the handler end with the process.
- Others changing the client's routes during a run.
- Time: a timeout may come whenever the predicate is false, a deadline whenever
  the loop is at its head.
- Scripts, deployment files, examples, MsQuic and Wintun themselves.
