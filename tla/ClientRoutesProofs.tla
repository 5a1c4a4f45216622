------------------------- MODULE ClientRoutesProofs -------------------------
(***************************************************************************)
(* Proofs about ClientRoutes: the worker and the main thread never touch   *)
(* the routes together, close() leaves nothing of its run behind, and no   *)
(* route leads into the tunnel without the one around it.                  *)
(***************************************************************************)
EXTENDS ClientRoutes, TLAPS

\* The worker exists only between apply_client_routing() and the join, and the
\* routes it adds will be cleared.
WorkerPlace == worker # "none" => pc \in {"running", "stop", "join"} /\ routesApplied

\* Routes are remembered only where some later step of the main thread clears
\* them.
RememberedPlace ==
    /\ pc \in {"open", "create", "session", "address", "dns", "apply", "cleared", "network",
               "endSession", "adapter", "unload", "ended"} => remembered = {}
    /\ pc \in {"running", "stop", "join"} /\ remembered # {} => routesApplied

\* network_applied_ is set at the end of open() and cleared by close().
NetworkPlace ==
    /\ pc \in {"open", "create", "session", "address"} => used = {}
    /\ pc = "dns" => used = {"address"}
    /\ pc \in {"open", "create", "session", "address", "dns", "endSession", "adapter", "unload",
               "ended"} => ~networkApplied

\* The session needs the adapter and the adapter the library, from open() to
\* close() and through every failure of open(); so does the address.
HandlesPlace ==
    /\ tunSession => adapter # "none"
    /\ adapter # "none" => library
    /\ networkApplied /\ pc # "killed" => adapter # "none"
    /\ pc \in {"session", "address", "dns"} => adapter # "none"
    /\ pc \in {"adapter", "unload", "ended", "killed"} => ~tunSession
    /\ pc \in {"open", "create", "unload", "ended", "killed"} => adapter = "none"
    /\ pc \in {"ended", "killed"} => ~library

\* What this run has set up is remembered, or was refused or left, as long as it
\* is there; between the address and the DNS server open() itself knows of it.
NoOrphan ==
    used \cap table
      \subseteq remembered \cup refused \cup left
               \cup (IF networkApplied \/ pc \in {"dns", "killed"} THEN {"address", "dns"} ELSE {})

\* A remembered bypass exists.
BypassExists == remembered \cap Gateways \subseteq used \cap table

\* Whoever adds a route into the tunnel finds a remembered bypass, and whoever
\* deletes the bypass finds no remembered route into the tunnel.
BypassKept ==
    ~loopback /\ (pc \in {"bypassed", "firstPass"} \/ worker # "none"
                                                  \/ remembered \cap TunnelRoutes # {})
      => remembered \cap Gateways # {}

IInv ==
    /\ TypeOK
    /\ ours \subseteq table
    /\ WorkerPlace
    /\ RememberedPlace
    /\ NetworkPlace
    /\ HandlesPlace
    /\ NoOrphan
    /\ BypassExists
    /\ BypassKept

-----------------------------------------------------------------------------

\* The client starts in the invariant.
LEMMA InitIInv == Init => IInv
<1> SUFFICES ASSUME Init PROVE IInv
    OBVIOUS
<1>1. TypeOK
    <2>1. theirs \subseteq Gateways /\ table = theirs /\ Gateways \subseteq Entries
        BY DEF Init, Entries
    <2>2. runs \in 0..MaxRuns
        BY RoutesAssumption DEF Init
    <2> QED
        BY <2>1, <2>2 DEF Init, TypeOK
<1>2. ours \subseteq table /\ WorkerPlace /\ RememberedPlace /\ NetworkPlace /\ HandlesPlace
    BY DEF Init, WorkerPlace, RememberedPlace, NetworkPlace, HandlesPlace
<1>3. NoOrphan /\ BypassExists /\ BypassKept
    BY DEF Init, NoOrphan, BypassExists, BypassKept
<1> QED
    BY <1>1, <1>2, <1>3 DEF IInv

\* open() preserves the invariant.
LEMMA OpenIInv ==
    ASSUME IInv,
           \/ \E got \in {"none", "created", "opened"} : OpenAdapter(got)
           \/ \E ok \in BOOLEAN : LoadLibrary(ok)
           \/ StartSession \/ ApplyAddress \/ ApplyDns \/ OpenFails
    PROVE  IInv'
<1> USE DEF IInv, TypeOK, WorkerPlace, RememberedPlace, NetworkPlace, HandlesPlace, NoOrphan,
            BypassExists, BypassKept, history, handles
<1>1. ASSUME NEW got \in {"none", "created", "opened"}, OpenAdapter(got) PROVE IInv'
    BY <1>1 DEF OpenAdapter
<1>2. CASE ApplyAddress
    BY <1>2 DEF ApplyAddress, Create, Entries, OnAdapter
<1>3. CASE ApplyDns
    BY <1>3 DEF ApplyDns, Create, Entries, OnAdapter
<1>4. CASE OpenFails
    <2>1. used \subseteq {"address"} /\ remembered = {} /\ worker = "none"
        BY <1>4 DEF OpenFails
    <2>2. TypeOK' /\ (ours \subseteq table)'
        BY <1>4, <2>1 DEF OpenFails, DropAdapter
    <2>3. WorkerPlace' /\ RememberedPlace' /\ NetworkPlace'
        BY <1>4, <2>1 DEF OpenFails
    <2>4. NoOrphan'
        <3>1. CASE adapter = "opened"
            BY <1>4, <2>1, <3>1 DEF OpenFails
        <3>2. CASE adapter = "created"
            BY <1>4, <2>1, <3>2 DEF OpenFails, DropAdapter, OnAdapter
        <3> QED
            BY <1>4, <3>1, <3>2 DEF OpenFails
    <2>5. BypassExists' /\ BypassKept'
        BY <1>4, <2>1 DEF OpenFails
    <2>6. HandlesPlace'
        BY <1>4 DEF OpenFails, DropAdapter
    <2> QED
        BY <2>2, <2>3, <2>4, <2>5, <2>6
<1>5. ASSUME NEW ok \in BOOLEAN, LoadLibrary(ok) PROVE IInv'
    BY <1>5 DEF LoadLibrary
<1>6. CASE StartSession
    BY <1>6 DEF StartSession
<1> QED
    BY <1>1, <1>2, <1>3, <1>4, <1>5, <1>6

\* apply_client_routing() preserves the invariant.
LEMMA ApplyIInv ==
    ASSUME IInv,
           \/ NotConnected \/ NoBypass \/ SmartStarted
           \/ \E ok \in BOOLEAN :
                 \/ \E g \in Gateways : ApplyBypass(g, ok)
                 \/ ApplyDefault(ok) \/ SmartStart(ok)
    PROVE  IInv'
<1> USE DEF IInv, TypeOK, WorkerPlace, RememberedPlace, NetworkPlace, HandlesPlace, NoOrphan,
            BypassExists, BypassKept, history, handles
<1>1. CASE NotConnected
    BY <1>1 DEF NotConnected
<1>2. CASE NoBypass
    BY <1>2 DEF NoBypass
<1>3. CASE SmartStarted
    BY <1>3 DEF SmartStarted
<1>4. ASSUME NEW ok \in BOOLEAN, NEW g \in Gateways, ApplyBypass(g, ok) PROVE IInv'
    BY <1>4 DEF ApplyBypass, Create, Entries, Routes
<1>5. ASSUME NEW ok \in BOOLEAN, ApplyDefault(ok) PROVE IInv'
    BY <1>5, RoutesAssumption DEF ApplyDefault, Create, Entries, OnAdapter, Routes, TunnelRoutes
<1>6. ASSUME NEW ok \in BOOLEAN, SmartStart(ok) PROVE IInv'
    BY <1>6 DEF SmartStart
<1> QED
    BY <1>1, <1>2, <1>3, <1>4, <1>5, <1>6

\* A pass over the lists, of the main thread or of the worker, preserves the
\* invariant.
LEMMA PassIInv ==
    ASSUME IInv,
           \/ WorkerStep
           \/ \E p \in Prefixes, ok \in BOOLEAN : PassAdds(p, ok)
    PROVE  IInv'
<1> USE DEF IInv, TypeOK, WorkerPlace, RememberedPlace, NetworkPlace, HandlesPlace, NoOrphan,
            BypassExists, BypassKept, history, handles
<1>1. ASSUME NEW here \in {"sleep", "check", "add"}, NEW next \in {"sleep", "check", "add", "done"},
             WorkerAt(here, next)
      PROVE  IInv'
    BY <1>1 DEF WorkerAt
<1>2. CASE WorkerStep
    BY <1>1, <1>2 DEF WorkerStep, WorkerWakes, WorkerChecks, WorkerGoesOn
<1>3. ASSUME NEW p \in Prefixes, NEW ok \in BOOLEAN, PassAdds(p, ok) PROVE IInv'
    BY <1>3, RoutesAssumption
       DEF PassAdds, AddRoute, Create, Entries, OnAdapter, Routes, TunnelRoutes
<1> QED
    BY <1>2, <1>3

\* stop() and close() preserve the invariant.
LEMMA CloseIInv ==
    ASSUME IInv,
           \/ Stop \/ StopWorker \/ JoinWorker \/ RoutesCleared \/ AfterRoutes
           \/ EndSession \/ CloseAdapter \/ Unload
           \/ \E e \in Routes, ok \in BOOLEAN : ClearRoute(e, ok)
           \/ \E no \in SUBSET {"address", "dns"} : ClearNetwork(no)
    PROVE  IInv'
<1> USE DEF IInv, TypeOK, WorkerPlace, RememberedPlace, NetworkPlace, HandlesPlace, NoOrphan,
            BypassExists, BypassKept, history, handles
<1>1. CASE Stop
    BY <1>1 DEF Stop
<1>2. CASE StopWorker
    BY <1>2 DEF StopWorker
<1>3. CASE JoinWorker
    BY <1>3 DEF JoinWorker
<1>4. CASE RoutesCleared
    <2>1. TypeOK' /\ (ours \subseteq table)' /\ NoOrphan'
        BY <1>4 DEF RoutesCleared
    <2>2. WorkerPlace' /\ RememberedPlace' /\ NetworkPlace'
        BY <1>4 DEF RoutesCleared
    <2>3. HandlesPlace' /\ BypassExists' /\ BypassKept'
        BY <1>4 DEF RoutesCleared
    <2> QED
        BY <2>1, <2>2, <2>3
<1>5. CASE AfterRoutes
    BY <1>5 DEF AfterRoutes
<1>6. CASE CloseAdapter
    BY <1>6 DEF CloseAdapter, DropAdapter
<1>7. ASSUME NEW e \in Routes, NEW ok \in BOOLEAN, ClearRoute(e, ok) PROVE IInv'
    BY <1>7, RoutesAssumption
       DEF ClearRoute, ForgetRoute, Delete, Entries, OnAdapter, Routes, TunnelRoutes
<1>8. ASSUME NEW no \in SUBSET {"address", "dns"}, ClearNetwork(no) PROVE IInv'
    <2>1. TypeOK' /\ (ours \subseteq table)' /\ NoOrphan'
        <3>0. networkApplied => adapter # "none" /\ library
            BY <1>8 DEF ClearNetwork
        <3>1. CASE networkApplied
            <4>1. TypeOK' /\ (ours \subseteq table)'
                <5>1. /\ table' = table \ ({"address", "dns"} \ no)
                      /\ ours' = ours \ ({"address", "dns"} \ no)
                      /\ refused' = refused \cup no
                      /\ networkApplied' = FALSE /\ pc' = "endSession"
                      /\ UNCHANGED <<mode, loopback, closing, adapter, library, tunSession, remembered,
                                     routesApplied, stopRequested, worker, theirs, used, left, runs>>
                    BY <1>8, <3>0, <3>1 DEF ClearNetwork, Delete
                <5>2. table' \subseteq Entries /\ ours' \subseteq Entries /\ (ours \subseteq table)'
                    BY <5>1
                <5>3. refused' \subseteq Entries
                    BY <5>1 DEF Entries, OnAdapter
                <5> QED
                    BY <5>1, <5>2, <5>3
            <4>2. /\ table' = table \ ({"address", "dns"} \ no) /\ refused' = refused \cup no
                  /\ UNCHANGED <<used, remembered, left>>
                BY <1>8, <3>0, <3>1 DEF ClearNetwork, Delete
            <4> QED
                BY <4>1, <4>2
        <3>2. CASE ~networkApplied
            BY <1>8, <3>2 DEF ClearNetwork
        <3> QED
            BY <3>1, <3>2
    <2>2. WorkerPlace' /\ RememberedPlace' /\ NetworkPlace' /\ HandlesPlace'
        BY <1>8 DEF ClearNetwork
    <2>3. BypassExists' /\ BypassKept'
        BY <1>8, RoutesAssumption DEF ClearNetwork, Delete
    <2> QED
        BY <2>1, <2>2, <2>3
<1>9. CASE Unload
    BY <1>9 DEF Unload
<1>10. CASE EndSession
    <2>1. tunSession' = FALSE
        BY <1>10, Zenon DEF EndSession
    <2> QED
        BY <1>10, <2>1 DEF EndSession
<1> QED
    BY <1>1, <1>2, <1>3, <1>4, <1>5, <1>6, <1>7, <1>8, <1>9, <1>10

\* A kill and a new run preserve the invariant.
LEMMA ProcessIInv ==
    ASSUME IInv, Killed \/ NewRun
    PROVE  IInv'
<1> USE DEF IInv, TypeOK, WorkerPlace, RememberedPlace, NetworkPlace, HandlesPlace, NoOrphan,
            BypassExists, BypassKept, handles
<1>1. CASE Killed
    <2>1. /\ table' \subseteq table /\ ours' \subseteq table' /\ ours' \subseteq ours
          /\ table \cap Gateways \subseteq table'
        BY <1>1, RoutesAssumption DEF Killed, DropAdapter, OnAdapter, TunnelRoutes
    <2>2. TypeOK' /\ (ours \subseteq table)'
        BY <1>1, <2>1 DEF Killed, DropAdapter
    <2>3. WorkerPlace' /\ RememberedPlace' /\ NetworkPlace' /\ HandlesPlace'
        BY <1>1 DEF Killed, DropAdapter
    <2>4. NoOrphan'
        BY <1>1, <2>1 DEF Killed
    <2>5. BypassExists' /\ BypassKept'
        BY <1>1, <2>1 DEF Killed
    <2> QED
        BY <2>2, <2>3, <2>4, <2>5
<1>2. CASE NewRun
    <2>1. worker = "none"
        BY <1>2 DEF NewRun
    <2>2. runs' \in 0..MaxRuns
        BY <1>2, RoutesAssumption DEF NewRun
    <2>3. TypeOK' /\ (ours \subseteq table)'
        BY <1>2, <2>2 DEF NewRun
    <2>4. WorkerPlace' /\ RememberedPlace' /\ NetworkPlace' /\ BypassExists' /\ BypassKept'
        BY <1>2, <2>1 DEF NewRun
    <2>6. HandlesPlace'
        BY <1>2 DEF NewRun
    <2>5. NoOrphan'
        BY <1>2 DEF NewRun
    <2> QED
        BY <2>3, <2>4, <2>5, <2>6
<1> QED
    BY <1>1, <1>2

\* Every step preserves the invariant.
LEMMA NextIInv == IInv /\ [Next]_vars => IInv'
<1> SUFFICES ASSUME IInv, [Next]_vars PROVE IInv'
    OBVIOUS
<1>1. CASE UNCHANGED vars
    BY <1>1 DEF vars, process, history, handles, IInv, TypeOK, WorkerPlace, RememberedPlace,
                NetworkPlace, HandlesPlace, NoOrphan, BypassExists, BypassKept
<1>2. CASE MainStep
    BY <1>2, OpenIInv, ApplyIInv, CloseIInv DEF MainStep
<1>3. CASE WorkerStep \/ \E p \in Prefixes, ok \in BOOLEAN : PassAdds(p, ok)
    BY <1>3, PassIInv
<1>4. CASE Stop
    BY <1>4, CloseIInv
<1>5. CASE Killed \/ NewRun
    BY <1>5, ProcessIInv
<1> QED
    BY <1>1, <1>2, <1>3, <1>4, <1>5 DEF Next

\* The invariant holds in every state, for every set of gateways and prefixes and
\* every number of runs.
THEOREM InvariantHolds == Spec => []IInv
<1>1. Init => IInv
    BY InitIInv
<1>2. IInv /\ [Next]_vars => IInv'
    BY NextIInv
<1> QED
    BY <1>1, <1>2, PTL DEF Spec

\* Type correctness.
THEOREM TypeCorrect == Spec => []TypeOK
<1>1. IInv => TypeOK
    BY DEF IInv
<1> QED
    BY <1>1, InvariantHolds, PTL

\* The worker never runs while the main thread changes the unlocked list of
\* routes: stop() has joined it, or start() has not created it yet.
THEOREM WorkerExcluded == Spec => []RoutesAlone
<1>1. IInv => RoutesAlone
    BY DEF IInv, WorkerPlace, RoutesAlone
<1> QED
    BY <1>1, InvariantHolds, PTL

\* close() leaves nothing of its run in the system but what the system refused
\* to delete and the address a failed open() left on an adapter it had found.
THEOREM CloseLeavesNothing == Spec => []CleanEnd
<1>1. IInv => CleanEnd
    BY DEF IInv, RememberedPlace, NetworkPlace, HandlesPlace, NoOrphan, CleanEnd
<1> QED
    BY <1>1, InvariantHolds, PTL

\* No route leads into the tunnel while the route around it is missing.
THEOREM NoLoop == Spec => []BypassWhileRouted
<1>1. IInv => BypassWhileRouted
    <2> SUFFICES ASSUME IInv, ~loopback, NEW r \in (used \cap table \cap TunnelRoutes) \ refused
                 PROVE  used \cap table \cap Gateways # {}
        BY DEF BypassWhileRouted
    <2>1. r \in remembered
        BY RoutesAssumption DEF IInv, TypeOK, NoOrphan, TunnelRoutes
    <2> QED
        BY <2>1 DEF IInv, BypassKept, BypassExists
<1> QED
    BY <1>1, InvariantHolds, PTL

-----------------------------------------------------------------------------
(* How far a stop() that has begun is from its end. *)

\* The places of stop() and close(); the first four come twice, since close() clears
\* the routes again.
ClosePc ==
    {"stop", "join", "clear", "cleared", "network", "endSession", "adapter", "unload"}

PlacesLeft(place, again) ==
    CASE place = "stop" -> IF again THEN 8 ELSE 12
      [] place = "join" -> IF again THEN 7 ELSE 11
      [] place = "clear" -> IF again THEN 6 ELSE 10
      [] place = "cleared" -> IF again THEN 5 ELSE 9
      [] place = "network" -> 4
      [] place = "endSession" -> 3
      [] place = "adapter" -> 2
      [] place = "unload" -> 1
      [] OTHER -> 0

StopLeft == PlacesLeft(pc, closing)

\* The steps the worker takes at most once it can see the flag.
WorkerLeft(place) ==
    CASE place = "add" -> 2
      [] place \in {"check", "sleep"} -> 1
      [] OTHER -> 0

\* What a step does to a stop() that has begun.  It does not take it back.  One of the
\* main thread takes it on to the next place, or forgets a route where no worker can
\* add one.  One of the worker, while the main thread waits in join(), brings the
\* worker nearer to its end.  Routes are added only by a worker that is not joined.
Approaches ==
    /\ pc' \in ClosePc \cup {"ended", "killed"}
    /\ StopLeft' <= StopLeft
    /\ MainStep => \/ StopLeft' < StopLeft
                   \/ /\ StopLeft' = StopLeft
                      /\ pc = "clear" /\ worker = "none"
                      /\ remembered' \subseteq remembered /\ remembered' # remembered
    /\ pc = "join" => WorkerLeft(worker') <= WorkerLeft(worker)
    /\ pc = "join" /\ WorkerStep => WorkerLeft(worker') < WorkerLeft(worker)
    /\ (worker = "add" /\ pc \in {"stop", "join"}) \/ remembered' \subseteq remembered

\* The main thread has set stop_requested_ before it waits for the worker.
FlagBeforeJoin == pc = "join" => stopRequested

\* The main thread is in stop() or close().
InClose == pc \in ClosePc

\* The number of places left is one.
LEMMA StopLeftType == StopLeft \in 0..12
BY DEF StopLeft, PlacesLeft

\* The flag stays set: only start() and a new run clear it.
LEMMA FlagStep == FlagBeforeJoin /\ [Next]_vars => FlagBeforeJoin'
<1> SUFFICES ASSUME FlagBeforeJoin, [Next]_vars, pc' = "join" PROVE stopRequested'
    BY DEF FlagBeforeJoin
<1> USE DEF FlagBeforeJoin
<1>1. CASE UNCHANGED vars
    BY <1>1 DEF vars, process
<1>2. CASE StopWorker
    BY <1>2 DEF StopWorker
<1>3. CASE \/ WorkerStep
           \/ \E p \in Prefixes, ok \in BOOLEAN : PassAdds(p, ok)
           \/ \E e \in Routes, ok \in BOOLEAN : ClearRoute(e, ok)
    BY <1>3 DEF WorkerStep, WorkerWakes, WorkerChecks, WorkerGoesOn, WorkerAt, PassAdds, ClearRoute
<1>4. ~(Stop \/ Killed \/ NewRun)
    BY DEF Stop, Killed, NewRun
<1>5. CASE MainStep /\ ~StopWorker /\ ~(\E e \in Routes, ok \in BOOLEAN : ClearRoute(e, ok))
    BY <1>5 DEF MainStep, LoadLibrary, OpenAdapter, StartSession, ApplyAddress, ApplyDns, OpenFails,
           NotConnected, NoBypass, ApplyBypass, ApplyDefault, SmartStart, SmartStarted, JoinWorker,
           RoutesCleared, AfterRoutes, ClearNetwork, EndSession, CloseAdapter, Unload
<1> QED
    BY <1>1, <1>2, <1>3, <1>4, <1>5 DEF Next

\* A step of the main thread takes stop() on.
LEMMA MainApproaches ==
    ASSUME IInv, InClose, MainStep
    PROVE  Approaches
<1> USE DEF InClose, ClosePc, Approaches, PlacesLeft, StopLeft
<1>0. TypeOK /\ WorkerPlace
    BY DEF IInv
<1>1. pc \in {"stop", "join", "clear", "cleared"} \/ pc \in {"network", "endSession", "adapter", "unload"}
    OBVIOUS
<1>2. CASE StopWorker
    BY <1>2 DEF StopWorker, WorkerStep, WorkerWakes, WorkerChecks, WorkerGoesOn, WorkerAt
<1>3. CASE JoinWorker
    BY <1>3 DEF JoinWorker, WorkerLeft, WorkerStep, WorkerWakes, WorkerChecks, WorkerGoesOn, WorkerAt
<1>4. CASE \E e \in Routes, ok \in BOOLEAN : ClearRoute(e, ok)
    <2>1. worker = "none" /\ pc = "clear"
        BY <1>0, <1>4 DEF ClearRoute, WorkerPlace
    <2>2. remembered' \subseteq remembered /\ remembered' # remembered /\ pc' = pc /\ closing' = closing
        BY <1>4 DEF ClearRoute, ForgetRoute
    <2> QED
        BY <2>1, <2>2
<1>5. CASE RoutesCleared
    <2>1. pc = "clear" /\ pc' = "cleared" /\ closing' = closing /\ remembered' = remembered
        BY <1>0, <1>5 DEF RoutesCleared, TypeOK
    <2> QED
        BY <2>1
<1>6. CASE AfterRoutes
    BY <1>0, <1>6 DEF AfterRoutes, TypeOK
<1>7. CASE \E no \in SUBSET {"address", "dns"} : ClearNetwork(no)
    BY <1>7 DEF ClearNetwork
<1>8. CASE EndSession \/ CloseAdapter \/ Unload
    BY <1>8 DEF EndSession, CloseAdapter, Unload
<1>9. ~(\/ \E got \in {"none", "created", "opened"} : OpenAdapter(got)
        \/ StartSession \/ ApplyAddress \/ ApplyDns \/ OpenFails \/ NotConnected \/ NoBypass
        \/ \E ok \in BOOLEAN :
              \/ \E g \in Gateways : ApplyBypass(g, ok)
              \/ LoadLibrary(ok) \/ ApplyDefault(ok) \/ SmartStart(ok)
        \/ SmartStarted)
    BY DEF LoadLibrary, OpenAdapter, StartSession, ApplyAddress, ApplyDns, OpenFails,
           NotConnected, NoBypass, ApplyBypass, ApplyDefault, SmartStart, SmartStarted
<1> QED
    BY <1>2, <1>3, <1>4, <1>5, <1>6, <1>7, <1>8, <1>9 DEF MainStep

\* The worker adds no route after it was joined, and stops when it sees the flag.
LEMMA WorkerApproaches ==
    ASSUME IInv, FlagBeforeJoin, InClose,
           WorkerStep \/ \E p \in Prefixes, ok \in BOOLEAN : PassAdds(p, ok)
    PROVE  Approaches
<1>0. TypeOK /\ WorkerPlace /\ pc # "firstPass"
    BY DEF IInv, InClose, ClosePc
<1>1. /\ pc' = pc /\ closing' = closing
      /\ remembered' = remembered \/ (worker = "add" /\ ~WorkerStep /\ worker' = worker)
    BY <1>0 DEF WorkerStep, WorkerWakes, WorkerChecks, WorkerGoesOn, WorkerAt, PassAdds
<1>2. StopLeft' = StopLeft /\ StopLeft \in 0..12
    BY <1>1, StopLeftType DEF StopLeft
<1>3. worker = "add" => pc \in {"stop", "join"}
    BY <1>0 DEF WorkerPlace, InClose, ClosePc
<1>4. pc = "join" /\ WorkerStep => WorkerLeft(worker') < WorkerLeft(worker)
    <2> SUFFICES ASSUME pc = "join", WorkerStep PROVE WorkerLeft(worker') < WorkerLeft(worker)
        OBVIOUS
    <2>1. stopRequested
        BY DEF FlagBeforeJoin
    <2>2. \/ worker \in {"sleep", "check"} /\ worker' = "done"
          \/ worker = "add" /\ worker' \in {"check", "sleep"}
        BY <2>1 DEF WorkerStep, WorkerWakes, WorkerChecks, WorkerGoesOn, WorkerAt
    <2> QED
        BY <2>2 DEF WorkerLeft
<1>5. WorkerLeft(worker') <= WorkerLeft(worker) \/ pc # "join"
    <2>1. CASE WorkerStep
        BY <1>4, <2>1 DEF WorkerLeft
    <2>2. CASE \E p \in Prefixes, ok \in BOOLEAN : PassAdds(p, ok)
        BY <2>2 DEF PassAdds, WorkerLeft
    <2> QED
        BY <2>1, <2>2
<1>6. CASE MainStep
    BY <1>6, MainApproaches
<1>7. CASE ~MainStep
    BY <1>1, <1>2, <1>3, <1>4, <1>5, <1>7 DEF Approaches, InClose
<1> QED
    BY <1>6, <1>7

\* A stop() of the client that has begun cannot be delayed: a second pass through
\* the routes, in close(), is the last; every step of the main thread takes it to the
\* next place or deletes a route while nobody can add one; and while it waits in
\* join() the worker's next two steps end the worker, in whatever part of
\* apply_routes_once() the flag finds it.  What StopReturns adds is that the threads
\* take their steps.
THEOREM StopIsBounded ==
    Spec => /\ [](StopLeft \in 0..12)
            /\ [][InClose => Approaches]_vars
<1>1. StopLeft \in 0..12
    BY StopLeftType
<1>2. Init => FlagBeforeJoin
    BY DEF Init, FlagBeforeJoin
<1>3. IInv /\ FlagBeforeJoin /\ [Next]_vars => [InClose => Approaches]_vars
    <2> SUFFICES ASSUME IInv, FlagBeforeJoin, Next, InClose PROVE Approaches
        OBVIOUS
    <2>1. CASE MainStep
        BY <2>1, MainApproaches
    <2>2. CASE WorkerStep \/ \E p \in Prefixes, ok \in BOOLEAN : PassAdds(p, ok)
        BY <2>2, WorkerApproaches
    <2>3. CASE Killed /\ ~MainStep
        <3>1. /\ pc' = "killed" /\ worker' = "none" /\ remembered' = remembered /\ closing' = closing
            BY <2>3 DEF Killed
        <3>2. StopLeft' = 0 /\ StopLeft \in 0..12
            BY <3>1, StopLeftType DEF StopLeft, PlacesLeft
        <3>3. WorkerLeft(worker') <= WorkerLeft(worker)
            BY <3>1 DEF WorkerLeft
        <3>4. ~WorkerStep \/ pc # "join"
            BY <3>1 DEF WorkerStep, WorkerWakes, WorkerChecks, WorkerGoesOn, WorkerAt
        <3> QED
            BY <2>3, <3>1, <3>2, <3>3, <3>4 DEF Approaches
    <2>4. ~Stop /\ ~NewRun
        BY DEF InClose, ClosePc, Stop, NewRun
    <2> QED
        BY <2>1, <2>2, <2>3, <2>4 DEF Next
<1> QED
    BY <1>1, <1>2, <1>3, FlagStep, InvariantHolds, PTL DEF Spec
=============================================================================
