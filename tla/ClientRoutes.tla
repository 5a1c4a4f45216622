---------------------------- MODULE ClientRoutes ----------------------------
(***************************************************************************)
(* What the Windows client does to the system's network configuration:     *)
(* WintunVirtualInterface, its WindowsNetConfigurator and the worker of    *)
(* SmartRouteManager, called by the engine's start() and stop() and by the *)
(* destructor.                                                             *)
(*                                                                         *)
(* The address and the DNS server of the adapter, the default route, a     *)
(* prefix route and a bypass route are entries of one table.  An entry     *)
(* stands for what identifies it there: a gateway in Gateways is the /32   *)
(* route to the endpoint through that gateway.  The process may be killed  *)
(* at any moment and be started again.                                     *)
(***************************************************************************)
EXTENDS Naturals

CONSTANTS Gateways,      \* gateways of the default routes of other interfaces
          Prefixes,      \* what the lists may resolve to
          MaxRuns        \* bound: how often the client is started again

ASSUME RoutesAssumption ==
    /\ MaxRuns \in Nat
    /\ Gateways \cap Prefixes = {}
    /\ (Gateways \cup Prefixes) \cap {"address", "dns", "default"} = {}

VARIABLES table,           \* the entries in the system
          mode,            \* client_routing_mode
          loopback,        \* the endpoint is this host: no bypass is needed
          pc,              \* where the main thread is
          closing,         \* the main thread is in close()
          library,         \* module_: wintun.dll is loaded and its functions are known
          adapter,         \* adapter_: none, or an adapter that was created or opened
          tunSession,      \* session_
          networkApplied,  \* network_applied_
          remembered,      \* the routes the configurator will delete
          routesApplied,   \* client_routes_applied_
          stopRequested,   \* stop_requested_ of the smart route manager
          worker           \* where worker_ is, "none" if it is not joinable

VARIABLES theirs,          \* history: bypass routes that were there before
          ours,            \* history: entries in the table that the program created
          used,            \* history: what this run has successfully set up
          refused,         \* history: of these, what the system refused to delete
          left,            \* history: what a failed open() left on an adapter it opened
          runs             \* history: how often the client was started again

handles == <<library, tunSession>>
process == <<mode, loopback, pc, closing, handles, adapter, networkApplied, remembered,
             routesApplied, stopRequested, worker>>
history == <<theirs, ours, used, refused, left, runs>>
vars == <<table, process, history>>

TunnelRoutes == Prefixes \cup {"default"}
OnAdapter == TunnelRoutes \cup {"address", "dns"}
Routes == TunnelRoutes \cup Gateways
Entries == OnAdapter \cup Gateways

Modes == {"none", "global", "smart"}

Init ==
    /\ theirs \in SUBSET Gateways
    /\ table = theirs
    /\ mode \in Modes
    /\ loopback \in BOOLEAN
    /\ pc = "open"
    /\ closing = FALSE
    /\ library = FALSE
    /\ adapter = "none"
    /\ tunSession = FALSE
    /\ networkApplied = FALSE
    /\ remembered = {}
    /\ routesApplied = FALSE
    /\ stopRequested = FALSE
    /\ worker = "none"
    /\ ours = {}
    /\ used = {}
    /\ refused = {}
    /\ left = {}
    /\ runs = 0

-----------------------------------------------------------------------------
(* The system's tables *)

\* Create an entry; one that exists is as good as one that was created.
Create(e, ok) ==
    /\ table' = IF ok THEN table \cup {e} ELSE table
    /\ ours' = IF ok /\ e \notin table THEN ours \cup {e} ELSE ours

\* Delete entries; the system refuses some.
Delete(es, no) ==
    /\ table' = table \ (es \ no)
    /\ ours' = ours \ (es \ no)
    /\ refused' = refused \cup no

\* An adapter goes with the handle that created it, and its entries with it.
DropAdapter ==
    /\ adapter' = "none"
    /\ table' = IF adapter = "created" THEN table \ OnAdapter ELSE table
    /\ ours' = IF adapter = "created" THEN ours \ OnAdapter ELSE ours

-----------------------------------------------------------------------------
(* open() *)

\* close() at the beginning finds nothing but sets the flag.  load() finds no
\* library, or one without all the functions, which it frees again.
LoadLibrary(ok) ==
    /\ pc = "open"
    /\ library' = ok
    /\ stopRequested' = TRUE
    /\ pc' = IF ok THEN "create" ELSE "stop"
    /\ closing' = ~ok
    /\ UNCHANGED <<table, mode, loopback, adapter, tunSession, networkApplied, remembered,
                   routesApplied, worker, history>>

\* The adapter of the name is opened, or else created.
OpenAdapter(got) ==
    /\ pc = "create"
    /\ adapter' = got
    /\ library' = (got # "none")
    /\ pc' = IF got = "none" THEN "stop" ELSE "session"
    /\ closing' = (got = "none")
    /\ UNCHANGED <<table, mode, loopback, tunSession, networkApplied, remembered, routesApplied,
                   stopRequested, worker, history>>

StartSession ==
    /\ pc = "session"
    /\ tunSession' = TRUE
    /\ pc' = "address"
    /\ UNCHANGED <<table, mode, loopback, closing, library, adapter, networkApplied, remembered,
                   routesApplied, stopRequested, worker, history>>

\* The programs configure an address and a DNS server always.
ApplyAddress ==
    /\ pc = "address"
    /\ Create("address", TRUE)
    /\ used' = used \cup {"address"}
    /\ pc' = "dns"
    /\ UNCHANGED <<mode, loopback, closing, adapter, handles, networkApplied, remembered,
                   routesApplied, stopRequested, worker, theirs, refused, left, runs>>

ApplyDns ==
    /\ pc = "dns"
    /\ Create("dns", TRUE)
    /\ networkApplied' = TRUE
    /\ used' = used \cup {"dns"}
    /\ pc' = "apply"
    /\ UNCHANGED <<mode, loopback, closing, adapter, handles, remembered, routesApplied,
                   stopRequested, worker, theirs, refused, left, runs>>

\* The session cannot be started, or the address or the DNS server cannot be set:
\* open() closes the adapter again, and an address that was set stays on one that
\* survives.
OpenFails ==
    /\ pc \in {"session", "address", "dns"}
    /\ DropAdapter
    /\ tunSession' = FALSE
    /\ library' = FALSE
    /\ left' = IF adapter = "opened" THEN used ELSE {}
    /\ pc' = "stop"
    /\ closing' = TRUE
    /\ UNCHANGED <<mode, loopback, networkApplied, remembered, routesApplied,
                   stopRequested, worker, theirs, used, refused, runs>>

-----------------------------------------------------------------------------
(* apply_client_routing() *)

\* start() fails before it comes to the routes, and the destructor closes.
NotConnected ==
    /\ pc = "apply"
    /\ pc' = "stop"
    /\ closing' = TRUE
    /\ UNCHANGED <<table, mode, loopback, adapter, handles, networkApplied, remembered,
                   routesApplied, stopRequested, worker, history>>

\* Nothing to do without a routing mode; no bypass to a local endpoint.
NoBypass ==
    /\ pc = "apply"
    /\ mode = "none" \/ loopback
    /\ pc' = IF mode = "none" THEN "running" ELSE "bypassed"
    /\ UNCHANGED <<table, mode, loopback, closing, adapter, handles, networkApplied, remembered,
                   routesApplied, stopRequested, worker, history>>

ApplyBypassUnchecked(g, ok) ==
    /\ pc = "apply"
    /\ mode # "none" /\ ~loopback
    /\ Create(g, ok)
    /\ remembered' = remembered \cup {IF ok THEN g ELSE "no gateway"}
    /\ used' = IF ok THEN used \cup {g} ELSE used
    /\ pc' = IF ok THEN "bypassed" ELSE "stop"
    /\ closing' = ~ok
    /\ UNCHANGED <<mode, loopback, adapter, handles, networkApplied, routesApplied,
                   stopRequested, worker, theirs, refused, left, runs>>

\* apply_endpoint_bypass_route() through the gateway g of the best default
\* route; without an address, a gateway or the system's consent it fails.
ApplyBypass(g, ok) ==
    /\ pc = "apply"
    /\ mode # "none" /\ ~loopback
    /\ Create(g, ok)
    /\ remembered' = IF ok THEN remembered \cup {g} ELSE remembered
    /\ used' = IF ok THEN used \cup {g} ELSE used
    /\ pc' = IF ok THEN "bypassed" ELSE "stop"
    /\ closing' = ~ok
    /\ UNCHANGED <<mode, loopback, adapter, handles, networkApplied, routesApplied,
                   stopRequested, worker, theirs, refused, left, runs>>

\* apply_global_default_route(); when it fails the bypass is taken back.
ApplyDefault(ok) ==
    /\ pc = "bypassed"
    /\ mode = "global"
    /\ Create("default", ok)
    /\ remembered' = IF ok THEN remembered \cup {"default"} ELSE remembered
    /\ used' = IF ok THEN used \cup {"default"} ELSE used
    /\ routesApplied' = ok
    /\ pc' = IF ok THEN "running" ELSE "undo"
    /\ UNCHANGED <<mode, loopback, closing, adapter, handles, networkApplied, stopRequested,
                   worker, theirs, refused, left, runs>>

\* SmartRouteManager::start() up to the first pass: a list is missing, or both
\* are empty, or the pass begins.
SmartStart(ok) ==
    /\ pc = "bypassed"
    /\ mode = "smart"
    /\ stopRequested' = ~ok
    /\ pc' = IF ok THEN "firstPass" ELSE "undo"
    /\ UNCHANGED <<table, mode, loopback, closing, adapter, handles, networkApplied, remembered,
                   routesApplied, worker, history>>

\* The worker is started when the first pass is over.
SmartStarted ==
    /\ pc = "firstPass"
    /\ worker' = "sleep"
    /\ routesApplied' = TRUE
    /\ pc' = "running"
    /\ UNCHANGED <<table, mode, loopback, closing, adapter, handles, networkApplied, remembered,
                   stopRequested, history>>
-----------------------------------------------------------------------------
(* apply_routes_once(), by the main thread in start() and by the worker *)

AddRouteCreatedOnly(p, ok) ==
    /\ p \notin remembered
    /\ Create(p, ok)
    /\ remembered' = IF ok /\ p \notin table THEN remembered \cup {p} ELSE remembered
    /\ used' = IF ok THEN used \cup {p} ELSE used

\* apply_prefix_route() for a prefix that is not remembered yet.
AddRoute(p, ok) ==
    /\ p \notin remembered
    /\ Create(p, ok)
    /\ remembered' = IF ok THEN remembered \cup {p} ELSE remembered
    /\ used' = IF ok THEN used \cup {p} ELSE used

\* The routes of one pass: those a CIDR or the addresses of a domain give.
PassAdds(p, ok) ==
    /\ pc = "firstPass" \/ worker = "add"
    /\ AddRoute(p, ok)
    /\ UNCHANGED <<mode, loopback, pc, closing, adapter, handles, networkApplied, routesApplied,
                   stopRequested, worker, theirs, refused, left, runs>>

WorkerAt(here, next) ==
    /\ worker = here
    /\ worker' = next
    /\ UNCHANGED <<table, mode, loopback, pc, closing, adapter, handles, networkApplied, remembered,
                   routesApplied, stopRequested, history>>

\* The flag is read after each second of sleep and before each list entry.
WorkerWakes == WorkerAt("sleep", IF stopRequested THEN "done" ELSE "check")

WorkerChecks == WorkerAt("check", IF stopRequested THEN "done" ELSE "add")

WorkerGoesOn == WorkerAt("add", "check") \/ WorkerAt("add", "sleep")

-----------------------------------------------------------------------------
(* clear_client_routes(), called by stop() and again by close() *)

\* The engine's stop().
Stop ==
    /\ pc = "running"
    /\ pc' = "stop"
    /\ UNCHANGED <<table, mode, loopback, closing, adapter, handles, networkApplied, remembered,
                   routesApplied, stopRequested, worker, history>>

StopWorkerUnflagged ==
    /\ pc = "stop"
    /\ pc' = "join"
    /\ UNCHANGED <<table, mode, loopback, closing, adapter, handles, networkApplied, remembered,
                   routesApplied, stopRequested, worker, history>>

StopWorker ==
    /\ pc = "stop"
    /\ stopRequested' = TRUE
    /\ pc' = "join"
    /\ UNCHANGED <<table, mode, loopback, closing, adapter, handles, networkApplied, remembered,
                   routesApplied, worker, history>>

JoinWorkerNoWait ==
    /\ pc = "join"
    /\ pc' = IF routesApplied THEN "clear" ELSE "cleared"
    /\ UNCHANGED <<table, mode, loopback, closing, adapter, handles, networkApplied, remembered,
                   routesApplied, stopRequested, worker, history>>

JoinWorker ==
    /\ pc = "join"
    /\ worker \in {"none", "done"}
    /\ worker' = "none"
    /\ pc' = IF routesApplied THEN "clear" ELSE "cleared"
    /\ UNCHANGED <<table, mode, loopback, closing, adapter, handles, networkApplied, remembered,
                   routesApplied, stopRequested, history>>

ForgetRouteAnyOrder(e, ok) ==
    /\ e \in remembered
    /\ Delete({e}, IF ok THEN {} ELSE {e})
    /\ remembered' = remembered \ {e}

\* The prefix routes and the default route go before the bypass.  A route is
\* forgotten even if the system refuses to delete it.
ForgetRoute(e, ok) ==
    /\ e \in remembered
    /\ e \in Gateways => remembered \cap TunnelRoutes = {}
    /\ Delete({e}, IF ok THEN {} ELSE {e})
    /\ remembered' = remembered \ {e}

ClearRoute(e, ok) ==
    /\ pc \in {"clear", "undo"}
    /\ ForgetRoute(e, ok)
    /\ UNCHANGED <<mode, loopback, pc, closing, adapter, handles, networkApplied, routesApplied,
                   stopRequested, worker, theirs, used, left, runs>>

\* All routes are forgotten; after a failed start() the destructor closes.
RoutesCleared ==
    /\ pc \in {"clear", "undo"}
    /\ remembered = {}
    /\ routesApplied' = FALSE
    /\ pc' = IF pc = "clear" THEN "cleared" ELSE "stop"
    /\ closing' = (closing \/ pc = "undo")
    /\ UNCHANGED <<table, mode, loopback, adapter, handles, networkApplied, remembered,
                   stopRequested, worker, history>>

\* stop() goes on to close(), close() to the address and the DNS server.
AfterRoutes ==
    /\ pc = "cleared"
    /\ pc' = IF closing THEN "network" ELSE "stop"
    /\ closing' = TRUE
    /\ UNCHANGED <<table, mode, loopback, adapter, handles, networkApplied, remembered,
                   routesApplied, stopRequested, worker, history>>

-----------------------------------------------------------------------------
(* The rest of close() *)

ClearNetwork(no) ==
    /\ pc = "network"
    /\ IF networkApplied /\ adapter # "none" /\ library
         THEN Delete({"address", "dns"}, no)
         ELSE no = {} /\ UNCHANGED <<table, ours, refused>>
    /\ networkApplied' = FALSE
    /\ pc' = "endSession"
    /\ UNCHANGED <<mode, loopback, closing, adapter, handles, remembered, routesApplied,
                   stopRequested, worker, theirs, used, left, runs>>

\* Each is closed through a function of the library, if there is one.
EndSession ==
    /\ pc = "endSession"
    /\ tunSession' = (tunSession /\ ~library)
    /\ pc' = "adapter"
    /\ UNCHANGED <<table, mode, loopback, closing, library, adapter, networkApplied, remembered,
                   routesApplied, stopRequested, worker, history>>

CloseAdapter ==
    /\ pc = "adapter"
    /\ IF library THEN DropAdapter ELSE UNCHANGED <<table, ours, adapter>>
    /\ pc' = "unload"
    /\ UNCHANGED <<mode, loopback, closing, handles, networkApplied, remembered, routesApplied,
                   stopRequested, worker, theirs, used, refused, left, runs>>

Unload ==
    /\ pc = "unload"
    /\ library' = FALSE
    /\ pc' = "ended"
    /\ UNCHANGED <<table, mode, loopback, closing, adapter, tunSession, networkApplied, remembered,
                   routesApplied, stopRequested, worker, history>>

-----------------------------------------------------------------------------
(* The process *)

\* The process is killed: its threads and its memory are gone, and its adapter.
Killed ==
    /\ pc \notin {"ended", "killed"}
    /\ pc' = "killed"
    /\ worker' = "none"
    /\ DropAdapter
    /\ library' = FALSE
    /\ tunSession' = FALSE
    /\ UNCHANGED <<mode, loopback, closing, networkApplied, remembered, routesApplied,
                   stopRequested, theirs, used, refused, left, runs>>

\* The client is started again, perhaps in another mode.
NewRun ==
    /\ pc \in {"ended", "killed"}
    /\ runs < MaxRuns
    /\ runs' = runs + 1
    /\ mode' \in Modes
    /\ loopback' \in BOOLEAN
    /\ pc' = "open"
    /\ closing' = FALSE
    /\ networkApplied' = FALSE
    /\ remembered' = {}
    /\ routesApplied' = FALSE
    /\ stopRequested' = FALSE
    /\ used' = {}
    /\ refused' = {}
    /\ left' = {}
    /\ UNCHANGED <<table, adapter, handles, worker, theirs, ours>>

MainStep ==
    \/ \E got \in {"none", "created", "opened"} : OpenAdapter(got)
    \/ StartSession \/ ApplyAddress \/ ApplyDns \/ OpenFails \/ NotConnected \/ NoBypass
    \/ \E ok \in BOOLEAN :
          \/ \E g \in Gateways : ApplyBypass(g, ok)
          \/ LoadLibrary(ok) \/ ApplyDefault(ok) \/ SmartStart(ok)
          \/ \E e \in Routes : ClearRoute(e, ok)
    \/ SmartStarted \/ StopWorker \/ JoinWorker \/ RoutesCleared \/ AfterRoutes
    \/ \E no \in SUBSET {"address", "dns"} : ClearNetwork(no)
    \/ EndSession \/ CloseAdapter \/ Unload

WorkerStep == WorkerWakes \/ WorkerChecks \/ WorkerGoesOn

Next ==
    \/ MainStep \/ WorkerStep \/ Stop \/ Killed \/ NewRun
    \/ \E p \in Prefixes, ok \in BOOLEAN : PassAdds(p, ok)

\* Both threads run: a call of the system and the resolution of a name return.
Spec == Init /\ [][Next]_vars /\ WF_vars(MainStep) /\ WF_vars(WorkerStep)

-----------------------------------------------------------------------------
(* Properties. *)

\* Every variable has its type.
TypeOK ==
    /\ table \subseteq Entries
    /\ mode \in Modes
    /\ loopback \in BOOLEAN
    /\ pc \in {"open", "create", "session", "address", "dns", "apply", "bypassed", "firstPass",
              "running", "undo", "stop", "join", "clear", "cleared", "network", "endSession",
              "adapter", "unload", "ended", "killed"}
    /\ closing \in BOOLEAN
    /\ library \in BOOLEAN
    /\ adapter \in {"none", "created", "opened"}
    /\ tunSession \in BOOLEAN
    /\ networkApplied \in BOOLEAN
    /\ remembered \subseteq Routes
    /\ routesApplied \in BOOLEAN
    /\ stopRequested \in BOOLEAN
    /\ worker \in {"none", "sleep", "check", "add", "done"}
    /\ theirs \subseteq Gateways
    /\ ours \subseteq Entries
    /\ used \subseteq Entries
    /\ refused \subseteq Entries
    /\ left \subseteq {"address"}
    /\ runs \in 0..MaxRuns

\* selective_routes_ has no lock: while the main thread adds or deletes routes
\* the worker does not exist.
RoutesAlone == pc \in {"firstPass", "undo", "clear"} => worker = "none"

\* "退出时自动清理" (README.md): when close() is over, nothing is left of what this
\* run has set up in open() and in apply_client_routing(), in whatever step they
\* failed or were stopped, except what the system refused to delete and the
\* address that open() had set on an adapter of its own name it found, when the
\* DNS server could not be set.  That holds also of entries an earlier run left
\* when it was killed and this one uses.  No session, adapter or library is left
\* open, and none was closed through a function that was gone.
CleanEnd ==
    pc = "ended" =>
        /\ used \cap ours \subseteq refused \cup left
        /\ adapter = "none" /\ ~tunSession /\ ~library

\* "避免 QUIC 流量经隧道环路" (include/tunnel/windows_net_config.hpp): as long as
\* this run has a route into the tunnel, the route around it exists as well,
\* while routes are added, while they are deleted, and after a kill.
BypassWhileRouted ==
    ~loopback /\ (used \cap table \cap TunnelRoutes) \ refused # {}
      => used \cap table \cap Gateways # {}

\* stop() returns: the worker notices the flag in whatever it is doing.
StopReturns == pc = "stop" ~> pc \in {"ended", "killed"}

\* "清理本助手添加的旁路、默认与选择性前缀路由。"
\* (include/tunnel/windows_net_config.hpp): only routes that this helper added
\* are deleted, so the bypass routes of others stay.
OthersKept == theirs \subseteq table
=============================================================================
