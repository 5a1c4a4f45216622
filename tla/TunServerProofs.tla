-------------------------- MODULE TunServerProofs --------------------------
(***************************************************************************)
(* Proofs about the server over its TUN device, for any set of descriptors *)
(* and every overlap of the handler's stop() with the main thread.         *)
(***************************************************************************)
EXTENDS TunServer, TunnelEngineProofs

-----------------------------------------------------------------------------
(* The inductive invariant. *)

TunPlaces == {"out", "test", "sysClose", "forget", "sysOpen", "ioctl", "transfer", "done", "failed"}

TunTypeOK ==
    /\ fd \in Fds \cup {NoFd}
    /\ owner \in [Fds -> {"free", "tun", "other"}]
    /\ at \in [Callers -> TunPlaces]
    /\ seen \in [Callers -> Fds \cup {NoFd}]
    /\ next \in [Callers -> {"done", "failed", "sysOpen"}]
    /\ overlapped \in BOOLEAN
    /\ strayed \subseteq Callers
    /\ useTun \in BOOLEAN

NoTun == \A f \in Fds : owner[f] # "tun"

\* Where the engine is during a call, and where a close() inside open() leads.
CallPlaces ==
    /\ at["main"] # "out" => pc["main"] \in {"open", "read", "inbound", "stop4"}
    /\ at["main"] \in {"sysOpen", "ioctl"} => pc["main"] = "open"
    /\ at["main"] = "transfer" => pc["main"] \in {"read", "inbound"}
    /\ at["main"] \in {"test", "sysClose", "forget"} =>
           \/ pc["main"] = "stop4" /\ next["main"] = "done"
           \/ pc["main"] = "open" /\ next["main"] \in {"failed", "sysOpen"}
    /\ at["main"] \in {"sysClose", "forget"} => next["main"] # "sysOpen"
    /\ at["handler"] \in {"out", "test", "sysClose", "forget", "done"}
    /\ at["handler"] # "out" => pc["handler"] = "stop4" /\ next["handler"] = "done"

\* The places of start() up to its call of open(), and of stop() after its close().
OpeningPc == {"start", "acquire1", "pop1", "acquire2", "pop2", "toConnecting", "open"}
DownPc == {"stop5", "push5", "stop6", "push6", "stop7", "stopped"}

\* The main thread calls open() once; before the kernel is called there is no
\* descriptor, and the handler has none in its hands.
BeforeOpen ==
    /\ pc["main"] \in OpeningPc
    /\ \/ at["main"] \in {"out", "sysOpen"}
       \/ at["main"] = "test" /\ next["main"] = "sysOpen"

Unopened ==
    BeforeOpen => fd = NoFd /\ NoTun /\ at["handler"] \notin {"sysClose", "forget"}

\* A device is the one fd_ names; a thread about to forget fd_ finds none.
OneTun ==
    /\ \A f \in Fds : owner[f] = "tun" => fd = f
    /\ \A t \in Callers : at[t] = "forget" => NoTun

\* fd_ names the device, or some thread is about to forget it.
Held == fd # NoFd => owner[fd] = "tun" \/ \E t \in Callers : at[t] = "forget"

\* What a thread has tested is fd_, unless fd_ has been forgotten since.
Tested ==
    \A t \in Callers : at[t] \in {"sysClose", "ioctl", "transfer"} =>
        seen[t] # NoFd /\ fd \in {NoFd, seen[t]}

\* After the main thread's close() there is no device.
Down ==
    (\/ pc["main"] \in DownPc
     \/ pc["main"] = "stop4" /\ at["main"] \in Returned)
      => NoTun

\* As long as the threads have not been inside at the same time, whoever is about
\* to call the kernel passes the device.
Alone ==
    ~overlapped =>
        /\ strayed = {}
        /\ \A t \in Callers :
              /\ Inside(t) => \A u \in Callers : u # t => ~Inside(u)
              /\ at[t] \in {"sysClose", "ioctl", "transfer"} =>
                     seen[t] = fd /\ fd # NoFd /\ owner[fd] = "tun"

\* Without a TUN device nothing happens here.
Unused == ~useTun => fd = NoFd /\ NoTun /\ (\A t \in Callers : at[t] = "out") /\ strayed = {}

TunInv ==
    /\ TunTypeOK /\ CallPlaces /\ Unopened /\ OneTun /\ Held /\ Tested /\ Down /\ Alone /\ Unused

\* The server starts in the invariant.
LEMMA ServerInitInv == ServerInit => IInv /\ TunInv
<1> SUFFICES ASSUME ServerInit PROVE IInv /\ TunInv
    OBVIOUS
<1>1. IInv
    BY InitIInv DEF ServerInit
<1>2. TunInit /\ pc["main"] = "start" /\ useTun \in BOOLEAN /\ NoTun
    BY DEF ServerInit, Init, Threads, TunInit, make_interface, NoTun, IsServer
<1>3. TunTypeOK
    BY <1>2 DEF TunInit, TunTypeOK, TunPlaces
<1>4. CallPlaces /\ Unopened /\ OneTun /\ Held /\ Tested /\ Down /\ Unused
    BY <1>2 DEF TunInit, Callers, CallPlaces, Unopened, OneTun, Held, Tested, Down, Unused, NoTun
<1>5. Alone
    BY <1>2 DEF TunInit, Alone, Inside
<1> QED
    BY <1>1, <1>3, <1>4, <1>5 DEF TunInv

-----------------------------------------------------------------------------
(* The steps inside the interface. *)

\* close() tests fd_.
LEMMA CloseTestInv ==
    ASSUME TunInv, NEW t \in Callers, CloseTest(t), UNCHANGED <<engineVars, useTun>>
    PROVE  TunInv'
<1> USE FdAssumption DEF CloseTest, engineVars
<1>1. TunTypeOK'
    BY DEF TunInv, TunTypeOK, TunPlaces
<1>2. CallPlaces'
    <2>1. CASE t = "main"
        BY <2>1 DEF TunInv, TunTypeOK, CallPlaces, Callers, Unopened, BeforeOpen, OpeningPc
    <2>2. CASE t = "handler"
        BY <2>2 DEF TunInv, TunTypeOK, CallPlaces, Callers
    <2> QED
        BY <2>1, <2>2 DEF Callers
<1>3. Unopened' /\ OneTun'
    BY DEF TunInv, TunTypeOK, CallPlaces, Callers, Unopened, BeforeOpen, OneTun, NoTun
<1>4. Held' /\ Tested'
    BY DEF TunInv, TunTypeOK, CallPlaces, Callers, Held, Tested
<1>5. Down'
    BY DEF TunInv, TunTypeOK, CallPlaces, Callers, Down, OneTun, NoTun, Returned
<1>6. Alone'
    BY DEF TunInv, TunTypeOK, CallPlaces, Callers, Alone, Held, Inside, Returned
<1>7. Unused'
    BY DEF TunInv, TunTypeOK, Unused, NoTun
<1> QED
    BY <1>1, <1>2, <1>3, <1>4, <1>5, <1>6, <1>7 DEF TunInv

\* close() calls the kernel.
LEMMA SysCloseInv ==
    ASSUME TunInv, NEW t \in Callers, SysClose(t), UNCHANGED <<engineVars, useTun>>
    PROVE  TunInv'
<1> USE FdAssumption DEF engineVars
<1>0. PICK f \in Passed(t) :
          /\ owner' = [g \in Fds |-> IF g = f THEN "free" ELSE owner[g]]
          /\ Stray(t, f)
    BY DEF SysClose
<1>a. /\ at[t] = "sysClose" /\ at' = [at EXCEPT ![t] = "forget"]
      /\ UNCHANGED <<fd, seen, next, overlapped>>
    BY DEF SysClose
<1>b. f \in {seen[t], fd} /\ seen[t] # NoFd /\ fd \in {NoFd, seen[t]}
    BY <1>0, <1>a DEF Passed, TunInv, Tested
<1>1. TunTypeOK'
    BY <1>0, <1>a, <1>b DEF TunInv, TunTypeOK, TunPlaces, Stray
<1>2. CallPlaces'
    BY <1>a DEF TunInv, TunTypeOK, CallPlaces, Callers
<1>3. NoTun'
    BY <1>0, <1>a, <1>b DEF TunInv, OneTun, NoTun
<1>4. Unopened'
    BY <1>a, <1>3 DEF TunInv, TunTypeOK, CallPlaces, Callers, Unopened, BeforeOpen
<1>5. OneTun' /\ Down'
    BY <1>3 DEF OneTun, Down, NoTun
<1>6. Held' /\ Tested'
    BY <1>a DEF TunInv, TunTypeOK, Held, Tested
<1>7. Alone'
    <2>1. ~overlapped => f = fd /\ owner[fd] = "tun" /\ fd # NoFd
        BY <1>a, <1>b DEF TunInv, Alone
    <2>2. ~overlapped => strayed' = {}
        BY <1>0, <2>1 DEF TunInv, Alone, Stray, OwnerOf
    <2> QED
        BY <1>a, <2>2 DEF TunInv, TunTypeOK, Alone, Inside, Returned
<1>8. Unused'
    BY <1>a DEF TunInv, Unused
<1> QED
    BY <1>1, <1>2, <1>4, <1>5, <1>6, <1>7, <1>8 DEF TunInv

\* close() forgets fd_.
LEMMA CloseForgetInv ==
    ASSUME TunInv, NEW t \in Callers, CloseForget(t), UNCHANGED <<engineVars, useTun>>
    PROVE  TunInv'
<1> USE FdAssumption DEF CloseForget, engineVars
<1>1. TunTypeOK'
    BY DEF TunInv, TunTypeOK, TunPlaces
<1>2. CallPlaces'
    BY DEF TunInv, TunTypeOK, CallPlaces, Callers
<1>3. NoTun'
    BY DEF TunInv, OneTun, NoTun
<1>4. Unopened'
    BY <1>3 DEF TunInv, TunTypeOK, CallPlaces, Callers, Unopened, BeforeOpen
<1>5. OneTun' /\ Down' /\ Held'
    BY <1>3 DEF OneTun, Down, NoTun, Held
<1>6. Tested'
    BY DEF TunInv, TunTypeOK, Tested
<1>7. Alone'
    BY DEF TunInv, TunTypeOK, Alone, Inside, Returned
<1>8. Unused'
    BY DEF TunInv, Unused
<1> QED
    BY <1>1, <1>2, <1>4, <1>5, <1>6, <1>7, <1>8 DEF TunInv

\* open() calls the kernel, by the main thread only and once.
LEMMA SysOpenInv ==
    ASSUME TunInv, NEW t \in Callers, SysOpen(t), UNCHANGED <<engineVars, useTun>>
    PROVE  TunInv'
<1> USE FdAssumption DEF engineVars
<1>0. /\ t = "main" /\ at["main"] = "sysOpen" /\ BeforeOpen
      /\ fd = NoFd /\ NoTun /\ at["handler"] \notin {"sysClose", "forget"}
      /\ UNCHANGED <<next, overlapped, strayed>>
    BY DEF SysOpen, TunInv, CallPlaces, Unopened, BeforeOpen, Callers, OpeningPc
<1>1. CASE \E f \in Fds :
             /\ owner[f] = "free"
             /\ owner' = [owner EXCEPT ![f] = "tun"]
             /\ fd' = f
             /\ seen' = [seen EXCEPT ![t] = f]
             /\ at' = [at EXCEPT ![t] = "ioctl"]
    <2>0. PICK f \in Fds :
             /\ owner[f] = "free"
             /\ owner' = [owner EXCEPT ![f] = "tun"]
             /\ fd' = f
             /\ seen' = [seen EXCEPT !["main"] = f]
             /\ at' = [at EXCEPT !["main"] = "ioctl"]
        BY <1>0, <1>1
    <2>1. TunTypeOK'
        BY <1>0, <2>0 DEF TunInv, TunTypeOK, TunPlaces
    <2>2. CallPlaces' /\ Unopened'
        BY <1>0, <2>0 DEF TunInv, TunTypeOK, CallPlaces, Callers, BeforeOpen, Unopened
    <2>3. OneTun' /\ Held' /\ Tested'
        BY <1>0, <2>0 DEF TunInv, TunTypeOK, CallPlaces, Callers, OneTun, NoTun, Held, Tested
    <2>4. Down' /\ Unused'
        BY <1>0, <2>0 DEF TunInv, TunTypeOK, CallPlaces, Callers, Down, Unused, BeforeOpen, OpeningPc, DownPc
    <2>5. Alone'
        BY <1>0, <2>0 DEF TunInv, TunTypeOK, CallPlaces, Callers, Alone, Inside, Returned
    <2> QED
        BY <2>1, <2>2, <2>3, <2>4, <2>5 DEF TunInv
<1>2. CASE /\ fd' = NoFd
           /\ at' = [at EXCEPT ![t] = "failed"]
           /\ UNCHANGED <<owner, seen>>
    <2>1. TunTypeOK' /\ NoTun'
        BY <1>0, <1>2 DEF TunInv, TunTypeOK, TunPlaces, NoTun
    <2>2. CallPlaces' /\ Unopened'
        BY <1>0, <1>2 DEF TunInv, TunTypeOK, CallPlaces, Callers, BeforeOpen, Unopened
    <2>3. OneTun' /\ Held' /\ Tested' /\ Down'
        BY <1>0, <1>2, <2>1 DEF TunInv, TunTypeOK, CallPlaces, Callers, OneTun, NoTun, Held, Tested, Down
    <2>4. Alone' /\ Unused'
        BY <1>0, <1>2 DEF TunInv, TunTypeOK, CallPlaces, Callers, Alone, Inside, Returned, Unused
    <2> QED
        BY <2>1, <2>2, <2>3, <2>4 DEF TunInv
<1> QED
    BY <1>1, <1>2 DEF SysOpen

\* TUNSETIFF, read and write change no descriptor.
LEMMA KernelCallInv ==
    ASSUME TunInv, NEW t \in Callers, Ioctl(t) \/ SysTransfer(t), UNCHANGED <<engineVars, useTun>>
    PROVE  TunInv'
<1> USE FdAssumption DEF engineVars
<1>0. /\ t = "main"
      /\ at["main"] \in {"ioctl", "transfer"}
      /\ UNCHANGED <<fd, owner, seen, overlapped>>
      /\ \E f \in Passed("main") : Stray("main", f)
      /\ \/ at' = [at EXCEPT !["main"] = "done"] /\ UNCHANGED next
         \/ at' = [at EXCEPT !["main"] = "failed"] /\ UNCHANGED next /\ at["main"] = "transfer"
         \/ /\ at["main"] = "ioctl"
            /\ at' = [at EXCEPT !["main"] = "test"]
            /\ next' = [next EXCEPT !["main"] = "failed"]
    BY DEF Ioctl, SysTransfer, TunInv, CallPlaces, Callers
<1>1. TunTypeOK' /\ (NoTun <=> NoTun')
    BY <1>0 DEF TunInv, TunTypeOK, TunPlaces, Stray, Callers, NoTun
<1>2. CallPlaces'
    BY <1>0 DEF TunInv, TunTypeOK, CallPlaces, Callers
<1>3. Unopened'
    BY <1>0 DEF TunInv, TunTypeOK, CallPlaces, Callers, BeforeOpen, Unopened
<1>4. OneTun' /\ Held' /\ Tested'
    BY <1>0, <1>1 DEF TunInv, TunTypeOK, Callers, OneTun, Held, Tested
<1>5. Down'
    BY <1>0, <1>1 DEF TunInv, TunTypeOK, CallPlaces, Callers, Down
<1>6. Alone'
    <2>1. ~overlapped => strayed' = {}
        BY <1>0 DEF TunInv, TunTypeOK, Callers, Alone, Stray, OwnerOf, Passed
    <2> QED
        BY <1>0, <2>1 DEF TunInv, TunTypeOK, Callers, Alone, Inside, Returned
<1>7. Unused'
    BY <1>0 DEF TunInv, Unused, Callers
<1> QED
    BY <1>1, <1>2, <1>3, <1>4, <1>5, <1>6, <1>7 DEF TunInv

\* Other parts of the process never have the device's descriptor.
LEMMA OthersInv ==
    ASSUME TunInv, NEW f \in Fds, OthersOpen(f), useTun, UNCHANGED <<engineVars, useTun>>
    PROVE  TunInv'
<1> USE FdAssumption DEF engineVars
<1>1. /\ TunTypeOK' /\ (NoTun <=> NoTun')
      /\ \A g \in Fds : owner'[g] = "tun" <=> owner[g] = "tun"
    BY DEF TunInv, TunTypeOK, OthersOpen, NoTun
<1>2. UNCHANGED <<fd, at, seen, next, overlapped, strayed>>
    BY DEF OthersOpen
<1>3. CallPlaces' /\ Unopened' /\ Tested' /\ Down' /\ Unused'
    BY <1>1, <1>2 DEF TunInv, CallPlaces, Unopened, BeforeOpen, Tested, Down, Unused
<1>4. OneTun' /\ Held'
    BY <1>1, <1>2 DEF TunInv, TunTypeOK, OneTun, Held
<1>5. Alone'
    BY <1>1, <1>2 DEF TunInv, TunTypeOK, Alone, Inside
<1> QED
    BY <1>1, <1>3, <1>4, <1>5 DEF TunInv

-----------------------------------------------------------------------------
(* Calls and results. *)

\* A call begins.
LEMMA BeginCallInv ==
    ASSUME TypeOK, TunInv, useTun, NEW t \in Callers, BeginCall(t)
    PROVE  TunInv'
<1> USE FdAssumption DEF engineVars
<1>0. /\ at[t] = "out"
      /\ overlapped' = (overlapped \/ \E u \in Callers \ {t} : Inside(u))
      /\ UNCHANGED <<pc, useTun, fd, owner, strayed>>
      /\ \/ /\ at' = [at EXCEPT ![t] = "test"] /\ UNCHANGED seen
            /\ \/ pc[t] = "open" /\ next' = [next EXCEPT ![t] = "sysOpen"]
               \/ pc[t] = "stop4" /\ next' = [next EXCEPT ![t] = "done"]
         \/ /\ pc[t] \in {"read", "inbound"} /\ UNCHANGED next
            /\ at' = [at EXCEPT ![t] = IF fd = NoFd THEN "failed" ELSE "transfer"]
            /\ seen' = [seen EXCEPT ![t] = fd]
    BY DEF BeginCall, TunOpen, TunTransfer, TunClose, Enter
<1>a. pc["handler"] \notin {"open", "read", "inbound"}
    BY DEF TypeOK, HandlerPc, StopPc
<1>1. TunTypeOK'
    BY <1>0 DEF TunInv, TunTypeOK, TunPlaces
<1>2. CallPlaces'
    BY <1>0, <1>a DEF TunInv, TunTypeOK, CallPlaces, Callers
<1>3. NoTun <=> NoTun'
    BY <1>0 DEF NoTun
<1>4. Unopened'
    BY <1>0, <1>3 DEF TunInv, TunTypeOK, Callers, Unopened, BeforeOpen
<1>5. OneTun' /\ Held' /\ Tested'
    BY <1>0, <1>3 DEF TunInv, TunTypeOK, OneTun, Held, Tested
<1>6. Down'
    BY <1>0, <1>3 DEF TunInv, TunTypeOK, Callers, Down, Returned
<1>7. Alone'
    <2> SUFFICES ASSUME ~overlapped' PROVE Alone'
        BY DEF Alone
    <2>1. ~overlapped /\ \A u \in Callers : u # t => ~Inside(u)
        BY <1>0 DEF TunInv, TunTypeOK
    <2>2. strayed' = {} /\ \A u \in Callers : u # t => at'[u] = at[u] /\ seen'[u] = seen[u]
        BY <1>0, <2>1 DEF TunInv, TunTypeOK, Alone
    <2>3. \A u \in Callers : u # t => ~Inside(u)'
        BY <2>1, <2>2 DEF Inside
    <2>4. \A u \in Callers : u # t => at'[u] \notin {"sysClose", "ioctl", "transfer"}
        BY <2>3 DEF Inside, Returned
    <2>5. fd # NoFd => owner[fd] = "tun"
        BY <1>0, <2>1 DEF TunInv, Held, Inside, Returned
    <2>6. at'[t] \in {"sysClose", "ioctl", "transfer"} => seen'[t] = fd /\ fd # NoFd
        BY <1>0 DEF TunInv, TunTypeOK
    <2> QED
        BY <1>0, <2>2, <2>3, <2>4, <2>5, <2>6 DEF Alone
<1>8. Unused'
    BY <1>0 DEF Unused
<1> QED
    BY <1>1, <1>2, <1>4, <1>5, <1>6, <1>7, <1>8 DEF TunInv

\* The engine takes the result.
LEMMA EndCallInv ==
    ASSUME TypeOK, TunInv, NEW t \in Callers, EndCall(t)
    PROVE  TunInv'
<1> USE FdAssumption
<1>0. /\ at[t] \in Returned /\ at' = [at EXCEPT ![t] = "out"]
      /\ UNCHANGED <<fd, owner, seen, next, overlapped, strayed, useTun>>
    BY DEF EndCall, Leave
<1> DEFINE Moved ==
      \/ pc[t] = "stop4" /\ pc' = [pc EXCEPT ![t] = "stop5"]
      \/ t = "main" /\ \E p \in {"connect", "startFailed", "inbound", "send", "relayFailed", "loop"} :
                          pc' = [pc EXCEPT !["main"] = p]
<1>a. Moved
    <2>1. CASE StartOpen(at[t] = "done")
        BY <2>1 DEF EndCall, StartOpen, Goto, TypeOK, Threads, Callers
    <2>2. ASSUME NEW packet \in {"none", "sealed", "unsealed"}, RelayOutbound(packet)
          PROVE  Moved
        BY <2>2 DEF EndCall, RelayOutbound, Move, Goto, TypeOK, Threads, Callers
    <2>3. CASE RelayInbound
        BY <2>3 DEF EndCall, RelayInbound, Move, Goto, TypeOK, Threads, Callers
    <2>4. CASE StopInterface(t)
        BY <2>4 DEF StopInterface, Goto
    <2> QED
        BY <2>1, <2>2, <2>3, <2>4 DEF EndCall
<1>1. TunTypeOK' /\ (NoTun <=> NoTun')
    BY <1>0 DEF TunInv, TunTypeOK, TunPlaces, NoTun
<1>2. CallPlaces'
    BY <1>0, <1>a DEF TunInv, TunTypeOK, CallPlaces, Callers, TypeOK, Threads
<1>3. Unopened'
    BY <1>0, <1>a, <1>1 DEF TunInv, TunTypeOK, Callers, Unopened, BeforeOpen, TypeOK, Threads, OpeningPc
<1>4. OneTun' /\ Held' /\ Tested'
    BY <1>0, <1>1 DEF TunInv, TunTypeOK, OneTun, Held, Tested, Returned
<1>5. Down'
    BY <1>0, <1>a, <1>1 DEF TunInv, TunTypeOK, Callers, Down, TypeOK, Threads, DownPc
<1>6. Alone'
    BY <1>0 DEF TunInv, TunTypeOK, Callers, Alone, Inside, Returned
<1>7. Unused'
    BY <1>0, <1>1 DEF TunInv, Unused, Returned, Callers
<1> QED
    BY <1>1, <1>2, <1>3, <1>4, <1>5, <1>6, <1>7 DEF TunInv

-----------------------------------------------------------------------------
(* The engine's own steps. *)

\* What matters of a step of the main thread away from the interface.
LEMMA MainPlaces ==
    ASSUME TypeOK, MainNext
    PROVE  /\ pc'["handler"] = pc["handler"]
           /\ pc'["main"] \in OpeningPc => pc["main"] \in OpeningPc
           /\ pc'["main"] \in DownPc => pc["main"] \in DownPc \cup {"stop4"}
<1> USE DEF OpeningPc, DownPc
<1> DEFINE Goal == /\ pc'["handler"] = pc["handler"]
                   /\ pc'["main"] \in OpeningPc => pc["main"] \in OpeningPc
                   /\ pc'["main"] \in DownPc => pc["main"] \in DownPc \cup {"stop4"}
<1>1. ASSUME NEW ok \in BOOLEAN, StartOpen(ok) \/ StartChannel(ok) \/ StartRouting(ok)
      PROVE  Goal
    BY <1>1 DEF StartOpen, StartChannel, StartRouting, Goto, TypeOK, Threads
<1>8. CASE StartBuffers
    BY <1>8, StartBuffersStep DEF Goto, TypeOK, Threads
<1>2. ASSUME NEW ok \in BOOLEAN, StartBegin(ok) \/ StartConnect(ok) \/ StartPerform(ok) \/ Started(ok)
      PROVE  Goal
    BY <1>2 DEF StartBegin, StartConnect, StartPerform, Started, Move, Goto, TypeOK, Threads
<1>3. CASE StartClearFlag
    BY <1>3 DEF StartClearFlag, Goto, TypeOK, Threads
<1>4. CASE StartConnecting \/ StartHandshaking \/ StartEstablished \/ StartFailed
    BY <1>4 DEF StartConnecting, StartHandshaking, StartEstablished, StartFailed, Transition, Goto,
                TypeOK, Threads
<1>5. CASE LoopNext \/ LoopDeadline
    BY <1>5, LoopPlaces DEF LoopPc
<1>6. CASE Stop("main")
    <2>1. CASE StopFlag("main") \/ StopRouting("main") \/ StopTransport("main")
        BY <2>1 DEF StopFlag, StopRouting, StopTransport, Move, Goto, TypeOK, Threads
    <2>2. CASE StopInterface("main") \/ StopBuffers("main")
        BY <2>2, StopBuffersStep DEF StopInterface, Goto, TypeOK, Threads
    <2>3. CASE StopClosing("main") \/ StopStopped("main")
        BY <2>3 DEF StopClosing, StopStopped, Transition, Goto, TypeOK, Threads
    <2> QED
        BY <1>6, <2>1, <2>2, <2>3 DEF Stop
<1>7. CASE Destroy
    BY <1>7 DEF Destroy, Goto, TypeOK, Threads
<1> QED
    BY <1>1, <1>2, <1>3, <1>4, <1>5, <1>6, <1>7, <1>8 DEF MainNext, StartNext

\* A step of the handler away from the interface leaves the main thread alone.
LEMMA HandlerPlaces ==
    ASSUME TypeOK, HandlerNext
    PROVE  pc'["main"] = pc["main"]
<1>1. CASE Signal \/ RequestStop
    BY <1>1 DEF Signal, RequestStop, Move, Goto, TypeOK, Threads
<1>2. CASE Stop("handler")
    BY <1>2, StopPlaces DEF Threads
<1> QED
    BY <1>1, <1>2 DEF HandlerNext

\* Such steps keep the invariant.
LEMMA FreeInv ==
    ASSUME TypeOK, TunInv,
           \/ MainNext /\ Free("main")
           \/ HandlerNext /\ Free("handler")
    PROVE  TunInv'
<1> USE FdAssumption
<1>0. UNCHANGED <<fd, owner, at, seen, next, overlapped, strayed, useTun>>
    BY DEF Free, tunVars
<1>1. TunTypeOK' /\ OneTun' /\ Held' /\ Tested' /\ Alone' /\ Unused' /\ (NoTun <=> NoTun')
    BY <1>0 DEF TunInv, TunTypeOK, OneTun, Held, Tested, Alone, Unused, NoTun, Inside
<1>2. CASE ~useTun
    BY <1>0, <1>1, <1>2 DEF TunInv, TunTypeOK, Unused, CallPlaces, Unopened, Down, Callers
<1>3. CASE useTun /\ MainNext /\ Free("main")
    <2>1. at["main"] = "out" /\ pc["main"] \notin {"open", "read", "stop4"}
        BY <1>3 DEF Free
    <2>2. CallPlaces'
        BY <1>0, <1>3, <2>1, MainPlaces DEF TunInv, CallPlaces
    <2>3. Unopened'
        BY <1>0, <1>1, <1>3, <2>1, MainPlaces DEF TunInv, Unopened, BeforeOpen
    <2>4. Down'
        BY <1>0, <1>1, <1>3, <2>1, MainPlaces DEF TunInv, Down, Returned
    <2> QED
        BY <1>1, <2>2, <2>3, <2>4 DEF TunInv
<1>4. CASE useTun /\ HandlerNext /\ Free("handler")
    <2>1. at["handler"] = "out"
        BY <1>4 DEF Free
    <2>2. CallPlaces' /\ Unopened' /\ Down'
        BY <1>0, <1>1, <1>4, <2>1, HandlerPlaces DEF TunInv, CallPlaces, Unopened, BeforeOpen, Down
    <2> QED
        BY <1>1, <2>2 DEF TunInv
<1> QED
    BY <1>2, <1>3, <1>4 DEF TunInv, TunTypeOK

-----------------------------------------------------------------------------
(* The server. *)

\* Every step of the server is a step of the engine or none of its.
LEMMA ServerRefines == ASSUME ServerNext PROVE [Next]_engineVars
<1>1. ASSUME NEW t \in Callers, BeginCall(t) \/ InCall(t) PROVE UNCHANGED engineVars
    BY <1>1 DEF BeginCall, InCall
<1>2. ASSUME EndCall("main") PROVE Next
    BY <1>2 DEF EndCall, Next, MainNext, StartNext, LoopNext, Stop
<1>3. ASSUME EndCall("handler"), pc["main"] # "gone" PROVE Next
    BY <1>3 DEF EndCall, Next, MainNext, HandlerNext, StartNext, LoopNext, Stop
<1> QED
    BY <1>1, <1>2, <1>3 DEF ServerNext, ServerMain, ServerHandler, OtherParts, Next, Callers

\* IInv and TunInv are invariants of the server.
THEOREM ServerInvariance == ServerSpec => [](IInv /\ TunInv)
<1>1. IInv /\ TunInv /\ [ServerNext]_serverVars => (IInv /\ TunInv)'
    <2> SUFFICES ASSUME IInv, TunInv, [ServerNext]_serverVars PROVE IInv' /\ TunInv'
        OBVIOUS
    <2>0. TypeOK
        BY DEF IInv
    <2>1. CASE UNCHANGED serverVars
        <3>1. UNCHANGED <<engineVars, fd, owner, at, seen, next, overlapped, strayed, useTun>>
            BY <2>1 DEF serverVars, tunVars
        <3>2. IInv'
            BY <3>1, EngineStep
        <3>3. TunInv'
            BY <3>1 DEF engineVars, TunInv, TunTypeOK, CallPlaces, Unopened, BeforeOpen, NoTun, OneTun,
                        Held, Tested, Down, Alone, Inside, Unused
        <3> QED
            BY <3>2, <3>3
    <2>2. CASE ServerNext
        <3>1. IInv'
            BY <2>2, ServerRefines, EngineStep
        <3>2. ASSUME NEW t \in Callers, InCall(t) PROVE TunInv'
            BY <3>2, CloseTestInv, SysCloseInv, CloseForgetInv, SysOpenInv, KernelCallInv
               DEF InCall, TunProceed
        <3>3. ASSUME OtherParts PROVE TunInv'
            BY <3>3, OthersInv DEF OtherParts
        <3>4. ASSUME (MainNext /\ Free("main")) \/ (HandlerNext /\ Free("handler")) PROVE TunInv'
            BY <2>0, <3>4, FreeInv
        <3>5. ASSUME NEW t \in Callers, useTun, BeginCall(t) \/ EndCall(t) PROVE TunInv'
            BY <2>0, <3>5, BeginCallInv, EndCallInv
        <3>6. "main" \in Callers /\ "handler" \in Callers
            BY DEF Callers
        <3>7. TunInv'
            BY <2>2, <3>2, <3>3, <3>4, <3>5, <3>6 DEF ServerNext, ServerMain, ServerHandler
        <3> QED
            BY <3>1, <3>7
    <2> QED
        BY <2>1, <2>2
<1> QED
    BY <1>1, ServerInitInv, PTL DEF ServerSpec

\* A call reaches a descriptor of another part of the process only when the two
\* threads were inside the interface at the same time.
THEOREM DescriptorIsOwn == ServerSpec => []OnlyOwnDescriptor
<1>1. TunInv => OnlyOwnDescriptor
    BY DEF TunInv, Alone, OnlyOwnDescriptor
<1> QED
    BY <1>1, ServerInvariance, PTL

\* No TUN device is lost, and stop() of the main thread leaves none.
THEOREM NoTunIsLost == ServerSpec => []TunClosed
<1>1. TunInv => TunClosed
    BY FdAssumption DEF TunInv, TunTypeOK, OneTun, Held, Down, NoTun, TunClosed, Inside, Returned, DownPc
<1> QED
    BY <1>1, ServerInvariance, PTL

\* The server over its TUN device is an engine over an interface whose calls are
\* single steps: however open(), read_packet(), write_packet() and close() of the
\* two threads meet inside LinuxTun, the engine sees each take effect once, when it
\* returns.
THEOREM ServerImplementsEngine == ServerSpec => Init /\ [][Next]_engineVars
<1>1. [ServerNext]_serverVars => [Next]_engineVars
    BY ServerRefines DEF serverVars
<1>2. ServerInit => Init
    BY DEF ServerInit
<1> QED
    BY <1>1, <1>2, PTL DEF ServerSpec

\* What TunnelEngineProofs shows of the engine holds over the TUN device as well.
THEOREM EngineOverTun ==
    ServerSpec => [](PoolBounded /\ SendOnlyOverOpenChannel /\ StoppedIsClean /\ ClientEndsStopped)
<1>1. IInv => SendOnlyOverOpenChannel /\ StoppedIsClean /\ ClientEndsStopped
    BY DEF IInv, ChannelOnTheWay, SendOnlyOverOpenChannel, TakenDown, StoppedIsClean,
           ClientAlone, ClientState, ClientEndsStopped
<1>2. ServerSpec => []PoolBounded
    BY ServerImplementsEngine, InitType, NextType, InitPool, NextPool, PTL
<1> QED
    BY <1>1, <1>2, ServerInvariance, PTL
=============================================================================
