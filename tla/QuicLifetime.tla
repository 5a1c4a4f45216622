---------------------------- MODULE QuicLifetime ----------------------------
(***************************************************************************)
(* What the QuicSecureTransport objects of one process open and release:   *)
(* connect() and close() (src/quic_secure_transport.cpp) handle by handle, *)
(* and the API table all objects share (src/msquic_api.cpp), which is      *)
(* opened for the first and closed with the last reference.                *)
(*                                                                         *)
(* The main thread connects an object and closes it; a signal handler's    *)
(* thread may call close() on it at any time (TunnelEngine::stop).         *)
(* closed_ is a plain bool: testing it and setting it are two steps.       *)
(***************************************************************************)
EXTENDS Naturals, FiniteSets

CONSTANT Objects         \* the QuicSecureTransport objects of the process

ASSUME ObjectsAssumption == IsFiniteSet(Objects)

Threads == {"main", "handler"}

VARIABLES table,         \* g_msquic_api is not null
          refCount,      \* g_msquic_ref_count
          closed,        \* closed[o]: closed_
          apiOpen,       \* apiOpen[o]: api_open_, and msquic_ is not null
          open,          \* open[o]: the other handles and contexts o holds
          at,            \* at[o][t]: where thread t is with object o
          then,          \* then[o][t]: where close() returns to
          raced,         \* history: objects opened while a close() was under way
          undefined      \* objects through which a released table was called

quicVars == <<table, refCount, closed, apiOpen, open, at, then, raced, undefined>>

\* Configuration, connection and listener belong to the registration; the
\* callbacks of connection or listener ("link") use the contexts.
Parts == {"registration", "configuration", "contexts", "link"}

Releasing == {"set", "link", "configuration", "registration", "contexts", "release", "forget"}
Opening == {"acquire", "openRegistration", "openConfiguration", "newContexts", "openLink"}

QuicInit ==
    /\ table = FALSE
    /\ refCount = 0
    /\ closed = [o \in Objects |-> FALSE]
    /\ apiOpen = [o \in Objects |-> FALSE]
    /\ open = [o \in Objects |-> {}]
    /\ at = [o \in Objects |-> [t \in Threads |-> "new"]]
    /\ then = [o \in Objects |-> [t \in Threads |-> "idle"]]
    /\ raced = {}
    /\ undefined = {}

GoTo(o, t, place) == at' = [at EXCEPT ![o][t] = place]

-----------------------------------------------------------------------------
(* MsQuicApi, under g_msquic_mutex *)

acquireFirst ==
    /\ table' = TRUE
    /\ refCount' = IF table THEN refCount ELSE refCount + 1

acquire ==
    /\ table' = TRUE
    /\ refCount' = refCount + 1

release ==
    IF refCount = 0
      THEN UNCHANGED <<table, refCount>>
      ELSE /\ refCount' = refCount - 1
           /\ table' = (table /\ refCount > 1)

-----------------------------------------------------------------------------
(* close(), by either thread *)

\* stop() or a destructor calls it.  The handler does so once.
BeginClose(o, t) ==
    /\ IF t = "main" THEN at[o][t] = "idle" ELSE at[o][t] = "new"
    /\ GoTo(o, t, "check")
    /\ then' = [then EXCEPT ![o][t] = "idle"]
    /\ UNCHANGED <<table, refCount, closed, apiOpen, open, raced, undefined>>

CloseUnchecked(o, t) ==
    /\ at[o][t] = "check"
    /\ GoTo(o, t, "set")
    /\ UNCHANGED <<table, refCount, closed, apiOpen, open, then, raced, undefined>>

CloseCheck(o, t) ==
    /\ at[o][t] = "check"
    /\ GoTo(o, t, IF closed[o] THEN then[o][t] ELSE "set")
    /\ UNCHANGED <<table, refCount, closed, apiOpen, open, then, raced, undefined>>

CloseSet(o, t) ==
    /\ at[o][t] = "set"
    /\ closed' = [closed EXCEPT ![o] = TRUE]
    /\ GoTo(o, t, "link")
    /\ UNCHANGED <<table, refCount, apiOpen, open, then, raced, undefined>>

\* Stream and connection, or listener, then configuration, then registration:
\* each is closed when the object has the table.
AfterClosing == [link |-> "configuration", configuration |-> "registration",
                 registration |-> "contexts"]

CloseHandle(o, t) ==
    /\ at[o][t] \in DOMAIN AfterClosing
    /\ open' = [open EXCEPT ![o] = IF apiOpen[o] THEN @ \ {at[o][t]} ELSE @]
    /\ GoTo(o, t, AfterClosing[at[o][t]])
    /\ UNCHANGED <<table, refCount, closed, apiOpen, then, raced, undefined>>

CloseContexts(o, t) ==
    /\ at[o][t] = "contexts"
    /\ open' = [open EXCEPT ![o] = @ \ {"contexts"}]
    /\ GoTo(o, t, "release")
    /\ UNCHANGED <<table, refCount, closed, apiOpen, then, raced, undefined>>

CloseRelease(o, t) ==
    /\ at[o][t] = "release"
    /\ IF apiOpen[o]
         THEN release /\ GoTo(o, t, "forget")
         ELSE UNCHANGED <<table, refCount>> /\ GoTo(o, t, then[o][t])
    /\ UNCHANGED <<closed, apiOpen, open, then, raced, undefined>>

CloseForget(o, t) ==
    /\ at[o][t] = "forget"
    /\ apiOpen' = [apiOpen EXCEPT ![o] = FALSE]
    /\ GoTo(o, t, then[o][t])
    /\ UNCHANGED <<table, refCount, closed, open, then, raced, undefined>>

Close(o, t) ==
    \/ BeginClose(o, t) \/ CloseCheck(o, t) \/ CloseSet(o, t) \/ CloseHandle(o, t)
    \/ CloseContexts(o, t) \/ CloseRelease(o, t) \/ CloseForget(o, t)

-----------------------------------------------------------------------------
(* connect(), by the main thread *)

\* It begins with close() and goes on to open.
BeginConnect(o) ==
    /\ at[o]["main"] = "new"
    /\ GoTo(o, "main", "check")
    /\ then' = [then EXCEPT ![o]["main"] = "acquire"]
    /\ UNCHANGED <<table, refCount, closed, apiOpen, open, raced, undefined>>

\* A step that fails calls close() and returns false.
Fail(o) ==
    /\ GoTo(o, "main", "check")
    /\ then' = [then EXCEPT ![o]["main"] = "idle"]
    /\ UNCHANGED <<open, undefined>>

\* ensure_api_open(): MsQuicOpen2 may fail when the table is not open yet.
EnsureApiOpen(o, ok) ==
    /\ at[o]["main"] = "acquire"
    /\ raced' = IF at[o]["handler"] \in Releasing THEN raced \cup {o} ELSE raced
    /\ IF ok \/ table \/ apiOpen[o]
         THEN /\ IF apiOpen[o] THEN UNCHANGED <<table, refCount>> ELSE acquire
              /\ apiOpen' = [apiOpen EXCEPT ![o] = TRUE]
              /\ GoTo(o, "main", "openRegistration")
              /\ UNCHANGED <<open, then, undefined>>
         ELSE Fail(o) /\ UNCHANGED <<table, refCount, apiOpen>>
    /\ UNCHANGED closed

\* The object's reference to the table is not null and not given up.
HasTable(o) == apiOpen[o] /\ at[o]["handler"] # "forget"

\* A step that calls through msquic_ and opens part p, which needs other parts.
OpenPart(o, p, needs, next, ok) ==
    /\ IF ~HasTable(o)
         THEN /\ undefined' = undefined \cup {o}
              /\ GoTo(o, "main", "undefined")
              /\ UNCHANGED <<open, then>>
         ELSE IF ok /\ needs \subseteq open[o]
           THEN /\ open' = [open EXCEPT ![o] = @ \cup {p}]
                /\ GoTo(o, "main", next)
                /\ UNCHANGED <<then, undefined>>
           ELSE Fail(o)
    /\ UNCHANGED <<table, refCount, closed, apiOpen, raced>>

OpenRegistration(o, ok) ==
    /\ at[o]["main"] = "openRegistration"
    /\ OpenPart(o, "registration", {}, "openConfiguration", ok)

\* load_configuration() looks at registration_ before it calls anything.
LoadConfiguration(o, ok) ==
    /\ at[o]["main"] = "openConfiguration"
    /\ IF "registration" \notin open[o]
         THEN Fail(o) /\ UNCHANGED <<table, refCount, closed, apiOpen, raced>>
         ELSE OpenPart(o, "configuration", {"registration"}, "newContexts", ok)

\* start_client() and start_server_listener(): the contexts, then the connection
\* or the listener that calls back with them.
NewContexts(o) ==
    /\ at[o]["main"] = "newContexts"
    /\ open' = [open EXCEPT ![o] = @ \cup {"contexts"}]
    /\ GoTo(o, "main", "openLink")
    /\ UNCHANGED <<table, refCount, closed, apiOpen, then, raced, undefined>>

StartLink(o, ok) ==
    /\ at[o]["main"] = "openLink"
    /\ OpenPart(o, "link", {"registration"}, "idle", ok)

Connect(o) ==
    \/ BeginConnect(o) \/ NewContexts(o)
    \/ \E ok \in BOOLEAN :
          \/ EnsureApiOpen(o, ok) \/ OpenRegistration(o, ok)
          \/ LoadConfiguration(o, ok) \/ StartLink(o, ok)

QuicStep(o) == Connect(o) \/ \E t \in Threads : Close(o, t)

QuicNext == \E o \in Objects : QuicStep(o)

QuicSpec == QuicInit /\ [][QuicNext]_quicVars

-----------------------------------------------------------------------------
(* Properties. *)

\* Types of the object's fields and of the places of the threads.
QuicTypeOK ==
    /\ table \in BOOLEAN
    /\ refCount \in Nat
    /\ closed \in [Objects -> BOOLEAN]
    /\ apiOpen \in [Objects -> BOOLEAN]
    /\ open \in [Objects -> SUBSET Parts]
    /\ at \in [Objects -> [Threads -> {"new", "idle", "check", "undefined"} \cup Releasing \cup Opening]]
    /\ then \in [Objects -> [Threads -> {"idle", "acquire"}]]
    /\ raced \subseteq Objects
    /\ undefined \subseteq Objects

\* The objects that hold a reference to the table.
Holders == {o \in Objects : apiOpen[o] /\ \A t \in Threads : at[o][t] # "forget"}

\* "同一进程内允许多个 QuicSecureTransport 并存，最后一个关闭时才 MsQuicClose"
\* (include/tunnel/msquic_api.hpp): the count is the number of objects that hold
\* a reference, and the table is open exactly while there is one, whichever
\* threads close whichever objects.
ApiCounted == refCount = Cardinality(Holders) /\ (table <=> refCount > 0)

\* connect() never calls through a table that close() has released, and what it
\* opened keeps what it needs - the registration, the configuration, the contexts
\* of its callbacks - unless a close() of the handler had passed its test of
\* closed_ before connect() began to open.
NoCallAfterClose ==
    \A o \in Objects \ raced :
        /\ o \notin undefined
        /\ "link" \in open[o] => {"registration", "configuration", "contexts"} \subseteq open[o]
        /\ "configuration" \in open[o] => "registration" \in open[o]
        /\ "registration" \in open[o] => HasTable(o)
=============================================================================
