------------------------- MODULE TunnelEngineProofs -------------------------
(***************************************************************************)
(* Proofs about TunnelEngine for every number of clients and every size of *)
(* the buffer pool: its invariants, and the measures by which a requested  *)
(* stop and a broken session come to their end.                            *)
(***************************************************************************)
EXTENDS TunnelEngine, TLAPS

-----------------------------------------------------------------------------
(* The two kinds of steps most actions consist of. *)

\* transition_to stores a state and keeps the session a session.
LEMMA StoreType ==
    ASSUME NEW s \in [state : SessionState, epoch : Nat], NEW next \in SessionState
    PROVE  Store(s, next) \in [state : SessionState, epoch : Nat]
           /\ Store(s, next).state = next
BY DEF Store

Places == MainPc \cup HandlerPc

\* A place set for one thread leaves the other where it is.
LEMMA GotoFacts ==
    ASSUME pc \in [Threads -> Places], NEW t \in Threads, NEW place \in Places, Goto(t, place)
    PROVE  /\ pc' \in [Threads -> Places]
           /\ pc'[t] = place
           /\ \A u \in Threads : u # t => pc'[u] = pc[u]
BY DEF Goto

\* A transition reads the state, or acts on what it has read.
LEMMA TransitionFacts ==
    ASSUME TypeOK, NEW t \in Threads, NEW here, NEW from, NEW next \in SessionState,
           NEW yes \in Places, NEW no \in Places, Transition(t, here, from, next, yes, no)
    PROVE  /\ pc[t] = here
           /\ \A u \in Threads : u # t => pc'[u] = pc[u] /\ loaded'[u] = loaded[u]
           /\ \/ /\ loaded[t] = "none" /\ loaded'[t] = session.state
                 /\ session' = session /\ pc' = pc
              \/ /\ loaded[t] # "none" /\ loaded'[t] = "none"
                 /\ loaded[t] \in from /\ Allowed(loaded[t], next)
                 /\ session'.state = next /\ pc'[t] = yes
              \/ /\ loaded[t] # "none" /\ loaded'[t] = "none"
                 /\ ~(loaded[t] \in from /\ Allowed(loaded[t], next))
                 /\ session' = session /\ pc'[t] = no
           /\ pc' \in [Threads -> Places]
           /\ loaded' \in [Threads -> SessionState \cup {"none"}]
           /\ session' \in [state : SessionState, epoch : Nat]
           /\ UNCHANGED <<app, stopRequested, interfaceOpen, routing, freeBuffers, channel, asked>>
<1>1. /\ pc \in [Threads -> Places] /\ loaded \in [Threads -> SessionState \cup {"none"}]
      /\ session \in [state : SessionState, epoch : Nat] /\ session.state \in SessionState
    BY DEF TypeOK, Places
<1>2. CASE /\ loaded[t] = "none"
           /\ loaded' = [loaded EXCEPT ![t] = session.state]
           /\ UNCHANGED <<pc, session>>
    BY <1>1, <1>2 DEF Transition
<1>3. CASE /\ loaded[t] # "none"
           /\ loaded' = [loaded EXCEPT ![t] = "none"]
           /\ loaded[t] \in from /\ Allowed(loaded[t], next)
           /\ session' = Store(session, next) /\ Goto(t, yes)
    BY <1>1, <1>3, StoreType, GotoFacts DEF Transition
<1>4. CASE /\ loaded[t] # "none"
           /\ loaded' = [loaded EXCEPT ![t] = "none"]
           /\ ~(loaded[t] \in from /\ Allowed(loaded[t], next))
           /\ UNCHANGED session /\ Goto(t, no)
    BY <1>1, <1>4, GotoFacts DEF Transition
<1> QED
    BY <1>2, <1>3, <1>4 DEF Transition

\* A step that only moves on.
LEMMA MoveFacts ==
    ASSUME TypeOK, NEW t \in Threads, NEW here, NEW place \in Places, Move(t, here, place)
    PROVE  /\ pc[t] = here /\ pc'[t] = place
           /\ \A u \in Threads : u # t => pc'[u] = pc[u]
           /\ pc' \in [Threads -> Places]
           /\ UNCHANGED <<app, loaded, session, stopRequested, interfaceOpen, routing,
                          freeBuffers, channel, asked>>
BY GotoFacts DEF Move, TypeOK, Places

\* start() takes its buffers from the pool place by place.
LEMMA StartBuffersStep ==
    ASSUME StartBuffers
    PROVE  /\ UNCHANGED <<app, loaded, session, stopRequested, interfaceOpen, routing, channel, asked>>
           /\ \/ pc["main"] = "acquire1" /\ (Goto("main", "pop1") \/ Goto("main", "acquire2"))
              \/ pc["main"] = "pop1" /\ Goto("main", "acquire2")
              \/ pc["main"] = "acquire2" /\ (Goto("main", "pop2") \/ Goto("main", "toConnecting"))
              \/ pc["main"] = "pop2" /\ Goto("main", "toConnecting")
BY DEF StartBuffers, acquire, Move, StoreSize

\* stop() gives them back.
LEMMA StopBuffersStep ==
    ASSUME NEW t \in Threads, StopBuffers(t)
    PROVE  /\ UNCHANGED <<app, loaded, session, stopRequested, interfaceOpen, routing, channel, asked>>
           /\ \/ pc[t] = "stop5" /\ (Goto(t, "push5") \/ Goto(t, "stop6"))
              \/ pc[t] = "push5" /\ Goto(t, "stop6")
              \/ pc[t] = "stop6" /\ (Goto(t, "push6") \/ Goto(t, "stop7"))
              \/ pc[t] = "push6" /\ Goto(t, "stop7")
BY DEF StopBuffers, release, Move, StoreSize

\* The size of the pool's list, as either of them leaves it.
LEMMA SizeStored ==
    ASSUME TypeOK, StartBuffers \/ \E t \in Threads : StopBuffers(t)
    PROVE  freeBuffers' \in Int
<1>1. freeBuffers \in Int
    BY DEF TypeOK
<1>2. freeBuffers' \in {freeBuffers, freeBuffers - 1, freeBuffers + 1}
    BY DEF StartBuffers, StopBuffers, acquire, release, Move, StoreSize
<1> QED
    BY <1>1, <1>2

-----------------------------------------------------------------------------
(* Type correctness. *)

\* The engine starts with the types.
LEMMA InitType == Init => TypeOK
<1> SUFFICES ASSUME Init PROVE TypeOK
    OBVIOUS
<1>1. /\ pc \in [Threads -> MainPc \cup HandlerPc]
      /\ pc["main"] \in MainPc /\ pc["handler"] \in HandlerPc
    BY DEF Init, Threads, MainPc, HandlerPc, StartPc
<1>2. session \in [state : SessionState, epoch : Nat]
    BY DEF Init, InitialSession, SessionState
<1>3. freeBuffers \in Int /\ app \in {"server", "client", "vpn"}
    BY EngineAssumption DEF Init
<1> QED
    BY <1>1, <1>2, <1>3 DEF Init, TypeOK

\* A transition of the main thread between two of its places keeps the types.
LEMMA MainTransitionType ==
    ASSUME TypeOK, NEW here, NEW from, NEW next \in SessionState,
           NEW yes \in MainPc, NEW no \in MainPc, Transition("main", here, from, next, yes, no)
    PROVE  TypeOK'
<1>1. "main" \in Threads /\ "handler" \in Threads /\ yes \in Places /\ no \in Places
    BY DEF Threads, Places
<1>2. /\ \A u \in Threads : u # "main" => pc'[u] = pc[u]
      /\ pc'["main"] = pc["main"] \/ pc'["main"] = yes \/ pc'["main"] = no
    BY <1>1 DEF Transition, Goto, TypeOK
<1>3. /\ pc' \in [Threads -> Places]
      /\ loaded' \in [Threads -> SessionState \cup {"none"}]
      /\ session' \in [state : SessionState, epoch : Nat]
    BY <1>1, TransitionFacts
<1>4. UNCHANGED <<app, stopRequested, interfaceOpen, routing, freeBuffers, channel, asked>>
    BY DEF Transition
<1> QED
    BY <1>1, <1>2, <1>3, <1>4 DEF TypeOK, Places

\* So does a step that only moves on.
LEMMA MainMoveType ==
    ASSUME TypeOK, NEW here, NEW place \in MainPc, Move("main", here, place)
    PROVE  TypeOK'
<1>1. "main" \in Threads /\ "handler" \in Threads /\ place \in Places
    BY DEF Threads, Places
<1>2. /\ pc'["handler"] = pc["handler"] /\ pc'["main"] = place /\ pc' \in [Threads -> Places]
      /\ UNCHANGED <<app, loaded, session, stopRequested, interfaceOpen, routing,
                     freeBuffers, channel, asked>>
    BY <1>1, MoveFacts
<1> QED
    BY <1>2 DEF TypeOK, Places

\* start() keeps the types.
LEMMA StartType == ASSUME TypeOK, StartNext PROVE TypeOK'
<1> USE DEF MainPc, StartPc, LoopPc, StopPc
<1>1. ASSUME NEW ok \in BOOLEAN, StartBegin(ok) PROVE TypeOK'
    BY <1>1, MainMoveType DEF StartBegin
<1>10. CASE StartBuffers
    BY <1>10, StartBuffersStep, SizeStored DEF Goto, TypeOK, Threads
<1>2. ASSUME NEW ok \in BOOLEAN, StartOpen(ok) PROVE TypeOK'
    BY <1>2 DEF StartOpen, Goto, TypeOK, Threads
<1>3. ASSUME NEW ok \in BOOLEAN, StartConnect(ok) PROVE TypeOK'
    BY <1>3, MainMoveType DEF StartConnect
<1>4. ASSUME NEW ok \in BOOLEAN, StartPerform(ok) PROVE TypeOK'
    BY <1>4, MainMoveType DEF StartPerform
<1>5. ASSUME NEW ok \in BOOLEAN, StartChannel(ok) PROVE TypeOK'
    BY <1>5 DEF StartChannel, Goto, TypeOK, Threads
<1>6. ASSUME NEW ok \in BOOLEAN, StartRouting(ok) PROVE TypeOK'
    BY <1>6 DEF StartRouting, Goto, TypeOK, Threads
<1>7. ASSUME NEW ok \in BOOLEAN, Started(ok) PROVE TypeOK'
    BY <1>7, MainMoveType DEF Started
<1>8. CASE StartClearFlag
    BY <1>8 DEF StartClearFlag, Goto, TypeOK, Threads
<1>9. CASE StartConnecting \/ StartHandshaking \/ StartEstablished \/ StartFailed
    BY <1>9, MainTransitionType
    DEF StartConnecting, StartHandshaking, StartEstablished, StartFailed, SessionState
<1> QED
    BY <1>1, <1>2, <1>3, <1>4, <1>5, <1>6, <1>7, <1>8, <1>9, <1>10 DEF StartNext

\* So does the loop.
LEMMA LoopType == ASSUME TypeOK, LoopNext \/ LoopDeadline PROVE TypeOK'
<1> USE DEF MainPc, StartPc, LoopPc, StopPc
<1>1. CASE LoopHead \/ LoopDeadline \/ LoopCheck \/ EnsureBegin \/ EnsureRouting
           \/ LoopRecheck \/ RelayBegin \/ RelayInbound \/ RelayFailed
    BY <1>1, MainMoveType DEF LoopHead, LoopDeadline, LoopCheck, EnsureBegin, EnsureRouting,
                              LoopRecheck, RelayBegin, RelayInbound, RelayFailed
<1>2. ASSUME NEW ok \in BOOLEAN, OpenChannel(ok) PROVE TypeOK'
    BY <1>2 DEF OpenChannel, Goto, TypeOK, Threads
<1>3. ASSUME NEW ok \in BOOLEAN, RelaySend(ok) PROVE TypeOK'
    BY <1>3, MainMoveType DEF RelaySend
<1>4. ASSUME NEW packet, RelayOutbound(packet) PROVE TypeOK'
    BY <1>4, MainMoveType DEF RelayOutbound
<1>5. CASE EnsureEstablish \/ ClientFailed
    BY <1>5, MainTransitionType DEF EnsureEstablish, ClientFailed, SessionState
<1>6. CASE ResetTransport
    BY <1>6 DEF ResetTransport, Goto, TypeOK, Threads
<1>7. CASE ResetSession
    BY <1>7, MainTransitionType DEF ResetSession, SessionState
<1> QED
    BY <1>1, <1>2, <1>3, <1>4, <1>5, <1>6, <1>7 DEF LoopNext

\* And stop(), whichever thread runs it.
LEMMA StopType == ASSUME TypeOK, NEW t \in Threads, Stop(t) PROVE TypeOK'
<1> USE DEF MainPc, HandlerPc, StartPc, LoopPc, StopPc
<1>1. t = "main" \/ t = "handler"
    BY DEF Threads
<1>2. CASE StopFlag(t)
    BY <1>1, <1>2 DEF StopFlag, Goto, TypeOK, Threads
<1>3. ASSUME NEW here, NEW from, NEW next \in SessionState, NEW yes \in StopPc \cup {"stopped"},
             Transition(t, here, from, next, yes, yes)
      PROVE  TypeOK'
    <2>1. "main" \in Threads /\ "handler" \in Threads /\ yes \in Places
          /\ yes \in MainPc /\ yes \in HandlerPc
        BY DEF Threads, Places
    <2>2. /\ \A u \in Threads : u # t => pc'[u] = pc[u]
          /\ pc'[t] = pc[t] \/ pc'[t] = yes
        BY <1>3, <2>1 DEF Transition, Goto, TypeOK
    <2>3. /\ pc' \in [Threads -> Places]
          /\ loaded' \in [Threads -> SessionState \cup {"none"}]
          /\ session' \in [state : SessionState, epoch : Nat]
        BY <1>3, <2>1, TransitionFacts
    <2>4. UNCHANGED <<app, stopRequested, interfaceOpen, routing, freeBuffers, channel, asked>>
        BY <1>3 DEF Transition
    <2> HIDE DEF MainPc, HandlerPc
    <2>5. pc'["main"] \in MainPc /\ pc'["handler"] \in HandlerPc
        BY <1>1, <2>1, <2>2 DEF TypeOK
    <2> QED
        BY <2>3, <2>4, <2>5 DEF TypeOK, Places
<1>4. CASE StopClosing(t)
    BY <1>3, <1>4 DEF StopClosing, SessionState
<1>5. CASE StopStopped(t)
    BY <1>3, <1>5 DEF StopStopped, SessionState
<1>6. CASE StopTransport(t)
    BY <1>1, <1>6 DEF StopTransport, Move, Goto, TypeOK, Threads
<1>7. CASE StopRouting(t)
    <2>1. pc' = [pc EXCEPT ![t] = "stop3"] /\ routing' = FALSE
          /\ UNCHANGED <<app, loaded, session, stopRequested, interfaceOpen, freeBuffers, channel, asked>>
        BY <1>7 DEF StopRouting, Goto
    <2>2. pc' \in [Threads -> MainPc \cup HandlerPc]
        BY <2>1 DEF TypeOK
    <2>3. pc'["main"] \in MainPc /\ pc'["handler"] \in HandlerPc
        BY <1>1, <2>1 DEF TypeOK, Threads
    <2> HIDE DEF MainPc, HandlerPc
    <2> QED
        BY <2>1, <2>2, <2>3 DEF TypeOK
<1>8. CASE StopInterface(t)
    <2>1. pc' = [pc EXCEPT ![t] = "stop5"] /\ interfaceOpen' = FALSE
          /\ UNCHANGED <<app, loaded, session, stopRequested, routing, freeBuffers, channel, asked>>
        BY <1>8 DEF StopInterface, Goto
    <2>2. pc' \in [Threads -> MainPc \cup HandlerPc]
        BY <2>1 DEF TypeOK
    <2>3. pc'["main"] \in MainPc /\ pc'["handler"] \in HandlerPc
        BY <1>1, <2>1 DEF TypeOK, Threads
    <2> HIDE DEF MainPc, HandlerPc
    <2> QED
        BY <2>1, <2>2, <2>3 DEF TypeOK
<1>9. CASE StopBuffers(t)
    <2>1. PICK place \in {"push5", "stop6", "push6", "stop7"} : pc' = [pc EXCEPT ![t] = place]
        BY <1>9, StopBuffersStep DEF Goto
    <2>2. UNCHANGED <<app, loaded, session, stopRequested, interfaceOpen, routing, channel, asked>>
        BY <1>9, StopBuffersStep
    <2>3. freeBuffers' \in Int
        BY <1>9, SizeStored
    <2>4. pc' \in [Threads -> MainPc \cup HandlerPc]
        BY <2>1 DEF TypeOK
    <2>5. pc'["main"] \in MainPc /\ pc'["handler"] \in HandlerPc
        BY <1>1, <2>1 DEF TypeOK, Threads
    <2> HIDE DEF MainPc, HandlerPc
    <2> QED
        BY <2>2, <2>3, <2>4, <2>5 DEF TypeOK
<1> QED
    BY <1>2, <1>4, <1>5, <1>6, <1>7, <1>8, <1>9 DEF Stop

\* Every step keeps the types.
LEMMA NextType == TypeOK /\ [Next]_engineVars => TypeOK'
<1> SUFFICES ASSUME TypeOK, [Next]_engineVars PROVE TypeOK'
    OBVIOUS
<1>1. CASE UNCHANGED engineVars
    BY <1>1 DEF engineVars, TypeOK
<1>2. CASE Destroy
    BY <1>2 DEF Destroy, Goto, TypeOK, Threads, MainPc
<1>4. CASE Signal
    BY <1>4 DEF Signal, Move, Goto, TypeOK, Threads, HandlerPc, StopPc
<1>5. CASE RequestStop
    BY <1>5 DEF RequestStop, Goto, TypeOK, Threads, HandlerPc
<1>3. "main" \in Threads /\ "handler" \in Threads
    BY DEF Threads
<1> QED
    BY <1>1, <1>2, <1>3, <1>4, <1>5, StartType, LoopType, StopType DEF Next, MainNext, HandlerNext

\* Every variable has its type in every reachable state.
LEMMA TypeCorrect == Spec => []TypeOK
BY InitType, NextType, PTL DEF Spec

-----------------------------------------------------------------------------
(* The pool. *)

\* A step that is not the pool's leaves its size and its threads where they are.
LEMMA PoolAside ==
    ASSUME TypeOK, PoolBounded, freeBuffers' = freeBuffers,
           pc'["main"] = pc["main"] \/ pc'["main"] \notin {"pop1", "pop2", "push5", "push6"},
           pc'["handler"] = pc["handler"] \/ ~Pushing("handler")'
    PROVE  PoolBounded'
<1>1. freeBuffers \in Int /\ PoolCapacity \in Int
    BY EngineAssumption DEF TypeOK
<1> QED
    BY <1>1 DEF PoolBounded, Pushing, Pending

\* acquire() has seen a buffer that only the main thread can take.
LEMMA AcquireBounded ==
    ASSUME TypeOK, PoolBounded, StartBuffers
    PROVE  PoolBounded'
<1>0. "main" \in Threads /\ "handler" \in Threads /\ freeBuffers \in Int /\ PoolCapacity \in Int
    BY EngineAssumption DEF Threads, TypeOK
<1>1. pc'["handler"] = pc["handler"] /\ Pending("handler")' = Pending("handler")
    BY <1>0, StartBuffersStep DEF Goto, TypeOK, Pending, Pushing
<1>2. Pending("main") = 0 /\ Pending("main")' = 0
    BY <1>0, StartBuffersStep DEF Goto, TypeOK, Pending, Pushing
<1>3. \/ freeBuffers' = freeBuffers /\ (pc'["main"] \in {"pop1", "pop2"} => freeBuffers > 0)
      \/ freeBuffers' = freeBuffers - 1 /\ pc["main"] \in {"pop1", "pop2"}
         /\ pc'["main"] \notin {"pop1", "pop2"}
    BY <1>0 DEF StartBuffers, acquire, Move, StoreSize, Goto, TypeOK
<1>4. Pending("handler") \in {0, 1}
    BY DEF Pending
<1> QED
    BY <1>0, <1>1, <1>2, <1>3, <1>4 DEF PoolBounded

\* release() adds to a list it has seen below the capacity, where the other thread
\* may be about to do the same.
LEMMA ReleaseBounded ==
    ASSUME TypeOK, PoolBounded, NEW t \in Threads, StopBuffers(t)
    PROVE  PoolBounded'
<1>0. "main" \in Threads /\ "handler" \in Threads /\ freeBuffers \in Int /\ PoolCapacity \in Int
    BY EngineAssumption DEF Threads, TypeOK
<1>1. PICK u \in Threads : {t, u} = Threads /\ u # t
    BY DEF Threads
<1>2. pc'[u] = pc[u] /\ Pending(u)' = Pending(u) /\ Pending(u) \in {0, 1}
    BY <1>1, StopBuffersStep DEF Goto, TypeOK, Pending, Pushing
<1>3. pc'["main"] \in {"pop1", "pop2"} => pc["main"] \in {"pop1", "pop2"}
    BY <1>0, StopBuffersStep DEF Goto, TypeOK
<1>4. \/ Pending(t) = 0 /\ Pending(t)' = 0 /\ freeBuffers' = freeBuffers
      \/ Pending(t) = 0 /\ Pending(t)' = 1 /\ freeBuffers' = freeBuffers /\ freeBuffers < PoolCapacity
      \/ Pending(t) = 1 /\ Pending(t)' = 0 /\ freeBuffers' \in {freeBuffers, freeBuffers + 1}
    BY <1>0 DEF StopBuffers, release, Move, StoreSize, Goto, TypeOK, Pending, Pushing
<1>5. Pending("main") + Pending("handler") = Pending(t) + Pending(u)
      /\ Pending("main")' + Pending("handler")' = Pending(t)' + Pending(u)'
    BY <1>1, <1>2, <1>4 DEF Threads
<1>6. /\ Pending("main") \in {0, 1} /\ Pending("handler") \in {0, 1}
      /\ Pending("main")' \in {0, 1} /\ Pending("handler")' \in {0, 1}
    BY DEF Pending
<1> DEFINE mine == Pending("main") + Pending("handler")
           next == Pending("main")' + Pending("handler")'
<1>7. mine \in 0..2 /\ next \in 0..2 /\ freeBuffers + mine <= PoolCapacity + 1
      /\ freeBuffers >= 0 /\ (pc["main"] \in {"pop1", "pop2"} => freeBuffers > 0)
    BY <1>0, <1>6 DEF PoolBounded
<1>8. \/ next = mine /\ freeBuffers' = freeBuffers
      \/ next = mine + 1 /\ mine <= 1 /\ freeBuffers' = freeBuffers /\ freeBuffers < PoolCapacity
      \/ next = mine - 1 /\ freeBuffers' \in {freeBuffers, freeBuffers + 1}
    BY <1>2, <1>4, <1>5
<1> HIDE DEF mine, next
<1>9. 0 <= freeBuffers' /\ freeBuffers' + next <= PoolCapacity + 1
      /\ (pc'["main"] \in {"pop1", "pop2"} => 0 < freeBuffers')
    BY <1>0, <1>3, <1>7, <1>8
<1>10. freeBuffers' + next = freeBuffers' + Pending("main")' + Pending("handler")'
    BY <1>0, <1>6, <1>8 DEF next
<1> QED
    BY <1>9, <1>10 DEF PoolBounded

\* The other steps of the main thread.
LEMMA MainPool ==
    ASSUME TypeOK, PoolBounded, MainNext, ~StartBuffers, ~StopBuffers("main")
    PROVE  PoolBounded'
<1>0. "main" \in Threads /\ "handler" \in Threads
    BY DEF Threads
<1> DEFINE Aside == /\ freeBuffers' = freeBuffers /\ pc'["handler"] = pc["handler"]
                    /\ pc'["main"] = pc["main"] \/ pc'["main"] \notin {"pop1", "pop2", "push5", "push6"}
<1>1. ASSUME NEW here, NEW place, place \notin {"pop1", "pop2", "push5", "push6"}, Move("main", here, place)
      PROVE  Aside
    BY <1>0, <1>1 DEF Move, Goto, TypeOK
<1>2. ASSUME NEW here, NEW from, NEW next, NEW yes, NEW no,
             yes \notin {"pop1", "pop2", "push5", "push6"},
             no \notin {"pop1", "pop2", "push5", "push6"},
             Transition("main", here, from, next, yes, no)
      PROVE  Aside
    BY <1>0, <1>2 DEF Transition, Goto, TypeOK
<1>3. ASSUME NEW ok, StartBegin(ok) \/ StartConnect(ok) \/ StartPerform(ok) \/ Started(ok) PROVE Aside
    BY <1>1, <1>3 DEF StartBegin, StartConnect, StartPerform, Started
<1>4. ASSUME NEW ok, StartOpen(ok) \/ StartChannel(ok) \/ StartRouting(ok) \/ OpenChannel(ok) PROVE Aside
    BY <1>0, <1>4 DEF StartOpen, StartChannel, StartRouting, OpenChannel, Goto, TypeOK
<1>5. ASSUME StartConnecting \/ StartHandshaking \/ StartEstablished \/ StartFailed PROVE Aside
    BY <1>2, <1>5 DEF StartConnecting, StartHandshaking, StartEstablished, StartFailed
<1>6. ASSUME StartClearFlag \/ ResetTransport \/ Destroy PROVE Aside
    BY <1>0, <1>6 DEF StartClearFlag, ResetTransport, Destroy, Goto, TypeOK
<1>7. ASSUME LoopHead \/ LoopDeadline \/ LoopCheck \/ EnsureBegin PROVE Aside
    BY <1>1, <1>7 DEF LoopHead, LoopDeadline, LoopCheck, EnsureBegin
<1>8. ASSUME EnsureRouting \/ LoopRecheck \/ RelayBegin \/ RelayInbound \/ RelayFailed PROVE Aside
    BY <1>1, <1>8 DEF EnsureRouting, LoopRecheck, RelayBegin, RelayInbound, RelayFailed
<1>9. ASSUME NEW x, RelaySend(x) \/ RelayOutbound(x) PROVE Aside
    BY <1>1, <1>9 DEF RelaySend, RelayOutbound
<1>10. ASSUME EnsureEstablish \/ ClientFailed \/ ResetSession PROVE Aside
    BY <1>2, <1>10 DEF EnsureEstablish, ClientFailed, ResetSession
<1>11. ASSUME Stop("main") PROVE Aside
    <2>1. ASSUME StopClosing("main") \/ StopStopped("main") PROVE Aside
        BY <1>2, <2>1 DEF StopClosing, StopStopped
    <2>2. ASSUME StopTransport("main") PROVE Aside
        BY <1>1, <2>2 DEF StopTransport
    <2>3. ASSUME StopFlag("main") \/ StopRouting("main") \/ StopInterface("main") PROVE Aside
        BY <1>0, <2>3 DEF StopFlag, StopRouting, StopInterface, Goto, TypeOK
    <2> QED
        BY <1>11, <2>1, <2>2, <2>3 DEF Stop
<1>12. ASSUME StartNext PROVE Aside
    BY <1>3, <1>4, <1>5, <1>6, <1>12 DEF StartNext
<1>13. ASSUME LoopNext \/ LoopDeadline PROVE Aside
    BY <1>4, <1>6, <1>7, <1>8, <1>9, <1>10, <1>13 DEF LoopNext
<1> QED
    BY <1>6, <1>11, <1>12, <1>13, PoolAside DEF MainNext

\* And of the handler, which takes no buffer.
LEMMA HandlerPool ==
    ASSUME TypeOK, PoolBounded, HandlerNext, ~StopBuffers("handler")
    PROVE  PoolBounded'
<1>0. "main" \in Threads /\ "handler" \in Threads
    BY DEF Threads
<1> DEFINE Aside == /\ freeBuffers' = freeBuffers /\ pc'["main"] = pc["main"]
                    /\ pc'["handler"] = pc["handler"] \/ pc'["handler"] \notin {"push5", "push6"}
<1>1. ASSUME Signal \/ RequestStop PROVE Aside
    BY <1>0, <1>1 DEF Signal, RequestStop, Move, Goto, TypeOK
<1>2. ASSUME StopClosing("handler") \/ StopStopped("handler") PROVE Aside
    BY <1>0, <1>2 DEF StopClosing, StopStopped, Transition, Goto, TypeOK
<1>3. ASSUME StopFlag("handler") \/ StopRouting("handler") \/ StopTransport("handler") \/ StopInterface("handler") PROVE Aside
    BY <1>0, <1>3 DEF StopFlag, StopRouting, StopTransport, StopInterface, Move, Goto, TypeOK
<1>4. Aside
    BY <1>1, <1>2, <1>3 DEF HandlerNext, Stop
<1> QED
    BY <1>4, PoolAside DEF Pushing

\* The pool starts empty.
LEMMA InitPool == Init => PoolBounded
<1> SUFFICES ASSUME Init PROVE PoolBounded
    OBVIOUS
<1>1. freeBuffers = 0 /\ Pending("main") = 0 /\ Pending("handler") = 0 /\ pc["main"] = "start"
      /\ PoolCapacity \in Nat
    BY EngineAssumption DEF Init, Pending, Pushing, Threads
<1> QED
    BY <1>1 DEF PoolBounded

\* Every step keeps its bounds.
LEMMA NextPool == TypeOK /\ PoolBounded /\ [Next]_engineVars => PoolBounded'
<1> SUFFICES ASSUME TypeOK, PoolBounded, [Next]_engineVars PROVE PoolBounded'
    OBVIOUS
<1>1. CASE UNCHANGED engineVars
    BY <1>1, PoolAside DEF engineVars
<1>2. CASE MainNext
    BY <1>2, AcquireBounded, ReleaseBounded, MainPool DEF Threads
<1>3. CASE HandlerNext
    BY <1>3, ReleaseBounded, HandlerPool DEF Threads
<1> QED
    BY <1>1, <1>2, <1>3 DEF Next

\* stop() in the handler may overlap with start() or with stop() of the main thread:
\* acquire() never takes from an empty list, and a release() that has seen room for
\* its buffer finds it taken by at most one other, so that the pool holds at most one
\* buffer more than its capacity.
THEOREM PoolIsBounded == Spec => []PoolBounded
BY InitType, NextType, InitPool, NextPool, PTL DEF Spec

-----------------------------------------------------------------------------
(* Where the main thread goes. *)

\* A step of start() stays in start() or leaves it for the loop, for stop() or
\* for the end of main(); it does not touch the handler.
LEMMA StartPlaces ==
    ASSUME TypeOK, StartNext
    PROVE  /\ pc["main"] \in StartPc \cup {"started"}
           /\ pc'["main"] \in StartPc \cup {"started", "loop", "stop", "exit"}
           /\ pc'["handler"] = pc["handler"] /\ loaded'["handler"] = loaded["handler"]
<1> DEFINE Goal == /\ pc["main"] \in StartPc \cup {"started"}
                   /\ pc'["main"] \in StartPc \cup {"started", "loop", "stop", "exit"}
                   /\ pc'["handler"] = pc["handler"] /\ loaded'["handler"] = loaded["handler"]
<1>1. ASSUME NEW ok \in BOOLEAN, StartOpen(ok) \/ StartChannel(ok)
      PROVE  Goal
    BY <1>1 DEF StartOpen, StartChannel, Goto, TypeOK, Threads, StartPc
<1>7. CASE StartBuffers
    BY <1>7, StartBuffersStep DEF Goto, TypeOK, Threads, StartPc
<1>2. ASSUME NEW ok \in BOOLEAN, StartRouting(ok)
      PROVE  Goal
    BY <1>2 DEF StartRouting, Goto, TypeOK, Threads, StartPc
<1>3. ASSUME NEW ok \in BOOLEAN, StartBegin(ok) \/ StartConnect(ok) \/ StartPerform(ok) \/ Started(ok)
      PROVE  Goal
    BY <1>3 DEF StartBegin, StartConnect, StartPerform, Started, Move, Goto, TypeOK, Threads, StartPc
<1>4. CASE StartClearFlag
    BY <1>4 DEF StartClearFlag, Goto, TypeOK, Threads, StartPc
<1>5. CASE StartConnecting \/ StartHandshaking
    BY <1>5 DEF StartConnecting, StartHandshaking, Transition, Goto, TypeOK, Threads, StartPc
<1>6. CASE StartEstablished \/ StartFailed
    BY <1>6 DEF StartEstablished, StartFailed, Transition, Goto, TypeOK, Threads, StartPc
<1> QED
    BY <1>1, <1>2, <1>3, <1>4, <1>5, <1>6, <1>7 DEF StartNext

\* A step of the loop stays in the loop or leaves it for stop().
LEMMA LoopPlaces ==
    ASSUME TypeOK, LoopNext \/ LoopDeadline
    PROVE  /\ pc["main"] \in LoopPc
           /\ pc'["main"] \in LoopPc \cup {"stop"}
           /\ pc'["handler"] = pc["handler"] /\ loaded'["handler"] = loaded["handler"]
<1> DEFINE Goal == /\ pc["main"] \in LoopPc
                   /\ pc'["main"] \in LoopPc \cup {"stop"}
                   /\ pc'["handler"] = pc["handler"] /\ loaded'["handler"] = loaded["handler"]
<1>1. CASE LoopHead \/ LoopDeadline \/ LoopCheck \/ EnsureBegin
    BY <1>1 DEF LoopHead, LoopDeadline, LoopCheck, EnsureBegin, Move, Goto, TypeOK, Threads, LoopPc
<1>2. CASE EnsureRouting \/ LoopRecheck \/ RelayBegin \/ RelayInbound \/ RelayFailed
    BY <1>2 DEF EnsureRouting, LoopRecheck, RelayBegin, RelayInbound, RelayFailed, Move, Goto,
                TypeOK, Threads, LoopPc
<1>3. ASSUME NEW ok \in BOOLEAN, OpenChannel(ok) \/ RelaySend(ok)
      PROVE  Goal
    BY <1>3 DEF OpenChannel, RelaySend, Move, Goto, TypeOK, Threads, LoopPc
<1>4. ASSUME NEW packet, RelayOutbound(packet)
      PROVE  Goal
    BY <1>4 DEF RelayOutbound, Move, Goto, TypeOK, Threads, LoopPc
<1>5. CASE EnsureEstablish \/ ClientFailed
    BY <1>5 DEF EnsureEstablish, ClientFailed, Transition, Goto, TypeOK, Threads, LoopPc
<1>6. CASE ResetTransport
    BY <1>6 DEF ResetTransport, Goto, TypeOK, Threads, LoopPc
<1>7. CASE ResetSession
    BY <1>7 DEF ResetSession, Transition, Goto, TypeOK, Threads, LoopPc
<1> QED
    BY <1>1, <1>2, <1>3, <1>4, <1>5, <1>6, <1>7 DEF LoopNext

\* A step of stop() stays in it or ends it, and leaves the other thread alone.
LEMMA StopPlaces ==
    ASSUME TypeOK, NEW t \in Threads, Stop(t)
    PROVE  /\ pc[t] \in StopPc /\ pc'[t] \in StopPc \cup {"stopped"}
           /\ \A u \in Threads : u # t => pc'[u] = pc[u] /\ loaded'[u] = loaded[u]
           /\ UNCHANGED <<app, channel>>
<1> DEFINE Goal == /\ pc[t] \in StopPc /\ pc'[t] \in StopPc \cup {"stopped"}
                   /\ \A u \in Threads : u # t => pc'[u] = pc[u] /\ loaded'[u] = loaded[u]
                   /\ UNCHANGED <<app, channel>>
<1>1. CASE StopFlag(t) \/ StopRouting(t) \/ StopTransport(t)
    BY <1>1 DEF StopFlag, StopRouting, StopTransport, Move, Goto, TypeOK, StopPc
<1>2. CASE StopInterface(t) \/ StopBuffers(t)
    BY <1>2, StopBuffersStep DEF StopInterface, Goto, TypeOK, StopPc
<1>3. CASE StopClosing(t)
    BY <1>3 DEF StopClosing, Transition, Goto, TypeOK, StopPc
<1>4. CASE StopStopped(t)
    BY <1>4 DEF StopStopped, Transition, Goto, TypeOK, StopPc
<1> QED
    BY <1>1, <1>2, <1>3, <1>4 DEF Stop

-----------------------------------------------------------------------------
(* The inductive invariant. *)

\* A thread has read the state only at a place where it is about to write it.
ReadPc == {"toConnecting", "toHandshaking", "toEstablished", "startFailed", "establish",
           "clientFailed", "reset1", "reset2", "reset3", "reset4", "stop1", "stop7"}

LoadedInTransition ==
    \A t \in Threads : loaded[t] # "none" => pc[t] \in ReadPc

\* What the main thread's stop() has taken down stays down.
TakenDown ==
    /\ pc["main"] \in {"stop5", "push5", "stop6", "push6", "stop7", "stopped"} => ~interfaceOpen
    /\ pc["main"] \in {"stop3", "stop4", "stop5", "push5", "stop6", "push6", "stop7", "stopped"}
         => ~routing

\* The way from an opened channel to an established session, and to a send.
ChannelOnTheWay ==
    /\ pc["main"] \in {"startRouting", "toEstablished", "ensureRouting", "establish", "read",
                       "send"} => channel
    /\ pc["main"] = "clearFlag" /\ ~IsServer => channel

\* start() has not established a session yet; afterwards an established session
\* has a channel, but for the moment between the reset of the transport and the
\* reset of the session, where the main thread is bound to see established.
EstablishedHasOpenChannel ==
    /\ pc["main"] \in StartPc => session.state # "established"
    /\ session.state = "established" =>
           channel \/ (pc["main"] = "reset1" /\ loaded["main"] \in {"none", "established"})

\* The state of a client's session at each place of its main thread.
ClientState(place) ==
    IF place \in {"start", "acquire1", "pop1", "acquire2", "pop2", "toConnecting", "stopped"}
      THEN {"stopped"}
    ELSE IF place \in {"open", "connect", "toHandshaking"} THEN {"connecting"}
    ELSE IF place \in {"perform", "startChannel", "startRouting", "clearFlag", "toEstablished"}
      THEN {"handshaking"}
    ELSE IF place \in {"started", "loop", "check", "relay", "read", "send", "inbound",
                       "relayFailed", "clientFailed"} THEN {"established"}
    ELSE IF place \in {"stop", "stop1"} THEN {"established", "failed"}
    ELSE IF place \in {"stop2", "stop3", "stop4", "stop5", "push5", "stop6", "push6", "stop7"}
      THEN {"closing", "failed"}
    ELSE IF place \in {"startFailed", "exit", "gone"} THEN SessionState
    ELSE {}

\* The handler of a client never runs stop(), so the main thread alone moves the
\* session, and what it has read is what is there.
ClientAlone ==
    ~IsServer =>
        /\ pc["handler"] \in {"armed", "request", "stopped"}
        /\ loaded["main"] \in {"none", session.state}
        /\ session.state \in ClientState(pc["main"])

IInv ==
    /\ TypeOK
    /\ LoadedInTransition
    /\ TakenDown
    /\ ChannelOnTheWay
    /\ EstablishedHasOpenChannel
    /\ ClientAlone

\* The engine starts in the invariant.
LEMMA InitIInv == Init => IInv
<1> SUFFICES ASSUME Init PROVE IInv
    OBVIOUS
<1>1. /\ pc["main"] = "start" /\ pc["handler"] = "armed" /\ session.state = "stopped"
      /\ \A t \in Threads : loaded[t] = "none"
    BY DEF Init, Threads, InitialSession
<1>2. "main" \in Threads
    BY DEF Threads
<1>3. LoadedInTransition /\ TakenDown /\ ChannelOnTheWay /\ EstablishedHasOpenChannel
    BY <1>1 DEF LoadedInTransition, TakenDown, ChannelOnTheWay, EstablishedHasOpenChannel
<1>4. ClientAlone
    BY <1>1, <1>2 DEF ClientAlone, ClientState
<1> QED
    BY <1>3, <1>4, InitType DEF IInv

-----------------------------------------------------------------------------
(* LoadedInTransition *)

\* transition_to forgets what it has read when it moves on.
LEMMA TransitionLoaded ==
    ASSUME TypeOK, LoadedInTransition, NEW t \in Threads, NEW here \in ReadPc, NEW from,
           NEW next, NEW yes, NEW no, Transition(t, here, from, next, yes, no)
    PROVE  LoadedInTransition'
BY DEF Transition, Goto, TypeOK, LoadedInTransition

\* A step from any other place has read nothing.
LEMMA OtherLoaded ==
    ASSUME TypeOK, LoadedInTransition, NEW t \in Threads, pc[t] \notin ReadPc,
           NEW place, pc' = [pc EXCEPT ![t] = place], loaded' = loaded
    PROVE  LoadedInTransition'
BY DEF TypeOK, LoadedInTransition

\* Every step of the main thread and of the handler keeps LoadedInTransition.
LEMMA NextLoaded ==
    ASSUME TypeOK, LoadedInTransition, Next
    PROVE  LoadedInTransition'
<1> USE DEF ReadPc
<1>0. "main" \in Threads /\ "handler" \in Threads
    BY DEF Threads
<1>1. CASE StartConnecting \/ StartHandshaking \/ StartEstablished \/ StartFailed
    BY <1>0, <1>1, TransitionLoaded
    DEF StartConnecting, StartHandshaking, StartEstablished, StartFailed
<1>2. ASSUME NEW ok, StartBuffers \/ StartOpen(ok) \/ StartChannel(ok) \/ StartRouting(ok)
      PROVE  LoadedInTransition'
    BY <1>0, <1>2, OtherLoaded, StartBuffersStep DEF StartOpen, StartChannel, StartRouting, Goto
<1>3. ASSUME NEW ok, StartBegin(ok) \/ StartConnect(ok) \/ StartPerform(ok) \/ Started(ok)
      PROVE  LoadedInTransition'
    BY <1>0, <1>3, OtherLoaded DEF StartBegin, StartConnect, StartPerform, Started, Move, Goto
<1>4. CASE StartClearFlag \/ ResetTransport \/ Destroy
    BY <1>0, <1>4, OtherLoaded DEF StartClearFlag, ResetTransport, Destroy, Goto
<1>5. CASE LoopHead \/ LoopDeadline \/ LoopCheck \/ EnsureBegin
    BY <1>0, <1>5, OtherLoaded DEF LoopHead, LoopDeadline, LoopCheck, EnsureBegin, Move, Goto
<1>6. CASE EnsureRouting \/ LoopRecheck \/ RelayBegin \/ RelayInbound \/ RelayFailed
    BY <1>0, <1>6, OtherLoaded
    DEF EnsureRouting, LoopRecheck, RelayBegin, RelayInbound, RelayFailed, Move, Goto
<1>7. ASSUME NEW x, OpenChannel(x) \/ RelaySend(x) \/ RelayOutbound(x)
      PROVE  LoadedInTransition'
    BY <1>0, <1>7, OtherLoaded DEF OpenChannel, RelaySend, RelayOutbound, Move, Goto
<1>8. CASE EnsureEstablish \/ ClientFailed \/ ResetSession
    BY <1>0, <1>8, TransitionLoaded DEF EnsureEstablish, ClientFailed, ResetSession
<1>9. CASE Signal \/ RequestStop
    BY <1>0, <1>9, OtherLoaded DEF Signal, RequestStop, Move, Goto
<1>10. ASSUME NEW t \in Threads, Stop(t)
       PROVE  LoadedInTransition'
    <2>1. CASE StopClosing(t) \/ StopStopped(t)
        BY <2>1, TransitionLoaded DEF StopClosing, StopStopped
    <2>2. CASE StopFlag(t) \/ StopRouting(t) \/ StopTransport(t)
        BY <2>2, OtherLoaded DEF StopFlag, StopRouting, StopTransport, Move, Goto
    <2>3. CASE StopInterface(t) \/ StopBuffers(t)
        BY <2>3, OtherLoaded, StopBuffersStep DEF StopInterface, Goto
    <2> QED
        BY <1>10, <2>1, <2>2, <2>3 DEF Stop
<1>11. CASE StartNext
    BY <1>1, <1>2, <1>3, <1>4, <1>11 DEF StartNext
<1>12. CASE LoopNext \/ LoopDeadline
    BY <1>4, <1>5, <1>6, <1>7, <1>8, <1>12 DEF LoopNext
<1> QED
    BY <1>0, <1>4, <1>9, <1>10, <1>11, <1>12 DEF Next, MainNext, HandlerNext

-----------------------------------------------------------------------------
(* TakenDown *)

\* Only start() opens the interface or adds routes, and it is over when stop()
\* of the main thread runs; the handler's stop() only takes down.
LEMMA NextTakenDown ==
    ASSUME TypeOK, TakenDown, Next
    PROVE  TakenDown'
<1>0. "main" \in Threads /\ "handler" \in Threads
    BY DEF Threads
<1>1. CASE StartNext \/ LoopNext \/ LoopDeadline
    <2>1. pc'["main"] \in StartPc \cup LoopPc \cup {"started", "loop", "stop", "exit"}
        BY <1>1, StartPlaces, LoopPlaces
    <2> QED
        BY <2>1 DEF TakenDown, StartPc, LoopPc
<1>2. CASE Destroy
    BY <1>0, <1>2 DEF Destroy, Goto, TypeOK, TakenDown
<1>3. CASE Signal
    BY <1>0, <1>3 DEF Signal, Move, Goto, TypeOK, TakenDown
<1>4. CASE RequestStop
    BY <1>0, <1>4 DEF RequestStop, Goto, TypeOK, TakenDown
<1>5. CASE Stop("main")
    <2>1. CASE StopFlag("main") \/ StopTransport("main") \/ StopBuffers("main")
        BY <1>0, <2>1, StopBuffersStep DEF StopFlag, StopTransport, Move, Goto, TypeOK, TakenDown
    <2>2. CASE StopRouting("main") \/ StopInterface("main")
        BY <1>0, <2>2 DEF StopRouting, StopInterface, Goto, TypeOK, TakenDown
    <2>3. CASE StopClosing("main")
        BY <1>0, <2>3 DEF StopClosing, Transition, Goto, TypeOK, TakenDown
    <2>4. CASE StopStopped("main")
        BY <1>0, <2>4 DEF StopStopped, Transition, Goto, TypeOK, TakenDown
    <2> QED
        BY <1>5, <2>1, <2>2, <2>3, <2>4 DEF Stop
<1>6. CASE Stop("handler")
    <2>1. pc'["main"] = pc["main"]
        BY <1>0, <1>6, StopPlaces
    <2>2. CASE StopRouting("handler") \/ StopInterface("handler")
        BY <2>1, <2>2 DEF StopRouting, StopInterface, TakenDown
    <2>3. CASE StopFlag("handler") \/ StopTransport("handler") \/ StopBuffers("handler")
               \/ StopClosing("handler") \/ StopStopped("handler")
        BY <1>0, <2>1, <2>3, StopBuffersStep
        DEF StopFlag, StopTransport, StopClosing, StopStopped, Move, Transition, TakenDown
    <2> QED
        BY <1>6, <2>2, <2>3 DEF Stop
<1> QED
    BY <1>1, <1>2, <1>3, <1>4, <1>5, <1>6 DEF Next, MainNext, HandlerNext

-----------------------------------------------------------------------------
(* ChannelOnTheWay and EstablishedHasOpenChannel *)

\* start() opens the channel before it establishes the session of a client.
LEMMA StartChannelInv ==
    ASSUME TypeOK, ChannelOnTheWay, EstablishedHasOpenChannel, StartNext
    PROVE  ChannelOnTheWay' /\ EstablishedHasOpenChannel'
<1> USE DEF StartPc
<1>0. "main" \in Threads /\ app' = app
    BY StartBuffersStep
    DEF Threads, StartNext, StartBegin, StartOpen, StartConnect, StartPerform, StartChannel,
           StartRouting, Started, StartConnecting, StartHandshaking, StartClearFlag,
           StartEstablished, StartFailed, Move, Transition
<1> DEFINE Goal == ChannelOnTheWay' /\ EstablishedHasOpenChannel'
<1>1. ASSUME NEW ok \in BOOLEAN, StartBuffers \/ StartOpen(ok)
      PROVE  Goal
    BY <1>0, <1>1, StartBuffersStep DEF StartOpen, Goto, TypeOK, ChannelOnTheWay,
                      EstablishedHasOpenChannel, IsServer
<1>2. ASSUME NEW ok \in BOOLEAN, StartChannel(ok) \/ StartRouting(ok)
      PROVE  Goal
    BY <1>0, <1>2 DEF StartChannel, StartRouting, Goto, TypeOK, ChannelOnTheWay,
                      EstablishedHasOpenChannel, IsServer
<1>3. ASSUME NEW ok \in BOOLEAN, StartBegin(ok) \/ StartConnect(ok) \/ StartPerform(ok) \/ Started(ok)
      PROVE  Goal
    BY <1>0, <1>3 DEF StartBegin, StartConnect, StartPerform, Started, Move, Goto, TypeOK, ChannelOnTheWay,
                      EstablishedHasOpenChannel, IsServer
<1>4. CASE StartClearFlag
    BY <1>0, <1>4 DEF StartClearFlag, Goto, TypeOK, ChannelOnTheWay,
                      EstablishedHasOpenChannel, IsServer
<1>5. CASE StartConnecting \/ StartHandshaking \/ StartFailed
    BY <1>0, <1>5 DEF StartConnecting, StartHandshaking, StartFailed, Transition, Store, Goto,
                      TypeOK, ChannelOnTheWay, EstablishedHasOpenChannel, IsServer
<1>6. CASE StartEstablished
    BY <1>0, <1>6 DEF StartEstablished, Transition, Store, Goto, TypeOK, ChannelOnTheWay,
                      EstablishedHasOpenChannel, IsServer
<1> QED
    BY <1>1, <1>2, <1>3, <1>4, <1>5, <1>6 DEF StartNext

\* The loop sends only over an established session, establishes only after it
\* has opened a channel, and resets the session together with the channel.
LEMMA LoopChannelInv ==
    ASSUME TypeOK, LoadedInTransition, ChannelOnTheWay, EstablishedHasOpenChannel,
           LoopNext \/ LoopDeadline
    PROVE  ChannelOnTheWay' /\ EstablishedHasOpenChannel'
<1> DEFINE Goal == ChannelOnTheWay' /\ EstablishedHasOpenChannel'
<1>0. "main" \in Threads
    BY DEF Threads
<1>1. CASE LoopHead \/ LoopDeadline \/ LoopCheck \/ EnsureBegin
    BY <1>0, <1>1 DEF LoopHead, LoopDeadline, LoopCheck, EnsureBegin, Move, Goto, TypeOK,
                      ChannelOnTheWay, EstablishedHasOpenChannel, StartPc
<1>2. CASE EnsureRouting \/ LoopRecheck \/ RelayBegin \/ RelayInbound \/ RelayFailed
    BY <1>0, <1>2 DEF EnsureRouting, LoopRecheck, RelayBegin, CanSendData, RelayInbound,
                      RelayFailed, Move, Goto, TypeOK, ChannelOnTheWay, EstablishedHasOpenChannel, StartPc
<1>3. ASSUME NEW ok \in BOOLEAN, OpenChannel(ok)
      PROVE  Goal
    BY <1>0, <1>3 DEF OpenChannel, Goto, TypeOK, ChannelOnTheWay, EstablishedHasOpenChannel,
                      StartPc
<1>4. ASSUME NEW ok \in BOOLEAN, RelaySend(ok)
      PROVE  Goal
    BY <1>0, <1>4 DEF RelaySend, Move, Goto, TypeOK, ChannelOnTheWay,
                      EstablishedHasOpenChannel, StartPc
<1>5. ASSUME NEW packet, RelayOutbound(packet)
      PROVE  Goal
    BY <1>0, <1>5 DEF RelayOutbound, CanSendData, Move, Goto, TypeOK, ChannelOnTheWay,
                      EstablishedHasOpenChannel, StartPc
<1>6. CASE EnsureEstablish
    BY <1>0, <1>6 DEF EnsureEstablish, Transition, Store, Goto, TypeOK, ChannelOnTheWay,
                      EstablishedHasOpenChannel, StartPc
<1>7. CASE ClientFailed
    BY <1>0, <1>7 DEF ClientFailed, Transition, Store, Goto, TypeOK, ChannelOnTheWay,
                      EstablishedHasOpenChannel, StartPc
<1>8. CASE ResetTransport
    BY <1>0, <1>8 DEF ResetTransport, Goto, TypeOK, LoadedInTransition, ReadPc,
                      ChannelOnTheWay, EstablishedHasOpenChannel, StartPc
<1>9. CASE ResetSession
    <2>1. CASE Transition("main", "reset1", {"established"}, "closing", "reset2", "reset2")
        <3>1. Allowed("established", "closing")
            BY DEF Allowed
        <3> QED
            BY <1>0, <2>1, <3>1 DEF Transition, Store, Goto, TypeOK, ChannelOnTheWay,
                                    EstablishedHasOpenChannel, StartPc
    <2>2. CASE Transition("main", "reset2", {"closing", "failed"}, "stopped", "reset3", "reset3")
        BY <1>0, <2>2 DEF Transition, Store, Goto, TypeOK, ChannelOnTheWay,
                          EstablishedHasOpenChannel, StartPc
    <2>3. CASE Transition("main", "reset3", {"stopped"}, "connecting", "reset4", "reset4")
        BY <1>0, <2>3 DEF Transition, Store, Goto, TypeOK, ChannelOnTheWay,
                          EstablishedHasOpenChannel, StartPc
    <2>4. CASE Transition("main", "reset4", {"connecting"}, "handshaking", "loop", "loop")
        BY <1>0, <2>4 DEF Transition, Store, Goto, TypeOK, ChannelOnTheWay,
                          EstablishedHasOpenChannel, StartPc
    <2> QED
        BY <1>9, <2>1, <2>2, <2>3, <2>4 DEF ResetSession
<1> QED
    BY <1>1, <1>2, <1>3, <1>4, <1>5, <1>6, <1>7, <1>8, <1>9 DEF LoopNext

\* stop() moves the session only away from established.
LEMMA StopSession ==
    ASSUME TypeOK, NEW t \in Threads, Stop(t)
    PROVE  session'.state = "established" => session' = session
<1>1. CASE StopClosing(t) \/ StopStopped(t)
    BY <1>1 DEF StopClosing, StopStopped, Transition, Store
<1>2. CASE ~(StopClosing(t) \/ StopStopped(t))
    BY <1>2, StopBuffersStep DEF Stop, StopFlag, StopRouting, StopTransport, StopInterface, Move
<1> QED
    BY <1>1, <1>2

\* Every step keeps the two parts about the channel.
LEMMA NextChannel ==
    ASSUME TypeOK, LoadedInTransition, ChannelOnTheWay, EstablishedHasOpenChannel, Next
    PROVE  ChannelOnTheWay' /\ EstablishedHasOpenChannel'
<1>0. "main" \in Threads /\ "handler" \in Threads
    BY DEF Threads
<1>1. CASE StartNext
    BY <1>1, StartChannelInv
<1>2. CASE LoopNext \/ LoopDeadline
    BY <1>2, LoopChannelInv
<1>3. CASE Destroy
    BY <1>0, <1>3 DEF Destroy, Goto, TypeOK, ChannelOnTheWay, EstablishedHasOpenChannel, StartPc
<1>4. CASE Signal \/ RequestStop
    BY <1>0, <1>4 DEF Signal, RequestStop, Move, Goto, TypeOK, ChannelOnTheWay,
                      EstablishedHasOpenChannel, IsServer
<1>5. CASE Stop("main")
    <2>1. pc["main"] \in StopPc /\ pc'["main"] \in StopPc \cup {"stopped"}
          /\ channel' = channel
        BY <1>0, <1>5, StopPlaces
    <2>2. session'.state = "established" => session' = session
        BY <1>0, <1>5, StopSession
    <2> QED
        BY <2>1, <2>2 DEF ChannelOnTheWay, EstablishedHasOpenChannel, StartPc, StopPc
<1>6. CASE Stop("handler")
    <2>1. pc'["main"] = pc["main"] /\ loaded'["main"] = loaded["main"]
          /\ channel' = channel /\ app' = app
        BY <1>0, <1>6, StopPlaces
    <2>2. session'.state = "established" => session' = session
        BY <1>0, <1>6, StopSession
    <2> QED
        BY <2>1, <2>2 DEF ChannelOnTheWay, EstablishedHasOpenChannel, IsServer
<1> QED
    BY <1>1, <1>2, <1>3, <1>4, <1>5, <1>6 DEF Next, MainNext, HandlerNext

-----------------------------------------------------------------------------
(* ClientAlone *)

\* A transition of a client's main thread that always succeeds: it takes the
\* session from a state of one place to a state of the next.
LEMMA ClientTransition ==
    ASSUME TypeOK, ClientAlone, ~IsServer, NEW here, NEW from, NEW next \in SessionState,
           NEW yes, NEW no, Transition("main", here, from, next, yes, no),
           next \in ClientState(yes),
           \A x \in ClientState(here) :
               ~(x \in from /\ Allowed(x, next)) => x \in ClientState(no)
    PROVE  ClientAlone'
<1>0. /\ "main" \in Threads /\ "handler" \in Threads
      /\ pc["main"] = here /\ app' = app /\ session.state \in ClientState(here)
      /\ loaded["main"] \in {"none", session.state}
      /\ pc["handler"] \in {"armed", "request", "stopped"}
    BY DEF Threads, Transition, ClientAlone
<1>1. CASE /\ loaded["main"] = "none"
           /\ loaded' = [loaded EXCEPT !["main"] = session.state]
           /\ UNCHANGED <<pc, session>>
    BY <1>0, <1>1 DEF TypeOK, ClientAlone, IsServer
<1>2. CASE /\ loaded["main"] # "none"
           /\ loaded' = [loaded EXCEPT !["main"] = "none"]
           /\ session' = Store(session, next) /\ Goto("main", yes)
    <2>1. /\ session'.state = next /\ loaded'["main"] = "none"
          /\ pc'["main"] = yes /\ pc'["handler"] = pc["handler"]
        BY <1>0, <1>2 DEF Store, Goto, TypeOK
    <2> QED
        BY <1>0, <2>1 DEF ClientAlone
<1>3. CASE /\ loaded["main"] # "none"
           /\ loaded' = [loaded EXCEPT !["main"] = "none"]
           /\ ~(loaded["main"] \in from /\ Allowed(loaded["main"], next))
           /\ UNCHANGED session /\ Goto("main", no)
    <2>1. /\ loaded'["main"] = "none" /\ session.state \in ClientState(no)
          /\ pc'["main"] = no /\ pc'["handler"] = pc["handler"]
        BY <1>0, <1>3 DEF Goto, TypeOK
    <2> QED
        BY <1>0, <1>3, <2>1 DEF ClientAlone
<1> QED
    BY <1>1, <1>2, <1>3 DEF Transition

\* Any other step of it leaves the session alone.
LEMMA ClientMove ==
    ASSUME TypeOK, ClientAlone, ~IsServer, NEW place, Goto("main", place), app' = app,
           loaded' = loaded, session' = session, session.state \in ClientState(place)
    PROVE  ClientAlone'
<1>1. pc'["main"] = place /\ pc'["handler"] = pc["handler"]
    BY DEF Goto, TypeOK, Threads
<1> QED
    BY <1>1 DEF ClientAlone, IsServer

\* start() of a client takes its session up to established.
LEMMA StartClient ==
    ASSUME TypeOK, ClientAlone, ~IsServer, StartNext
    PROVE  ClientAlone'
<1>0. session.state \in ClientState(pc["main"]) /\ session.state \in SessionState
    BY DEF ClientAlone, TypeOK
<1>1. ASSUME NEW ok \in BOOLEAN, StartOpen(ok)
      PROVE  ClientAlone'
    BY <1>0, <1>1, ClientMove DEF StartOpen, ClientState
<1>10. CASE StartBuffers
    BY <1>0, <1>10, ClientMove, StartBuffersStep DEF ClientState
<1>2. ASSUME NEW ok \in BOOLEAN, StartChannel(ok) \/ StartRouting(ok)
      PROVE  ClientAlone'
    BY <1>0, <1>2, ClientMove DEF StartChannel, StartRouting, ClientState
<1>3. ASSUME NEW ok \in BOOLEAN, StartBegin(ok) \/ StartConnect(ok) \/ StartPerform(ok)
      PROVE  ClientAlone'
    BY <1>0, <1>3, ClientMove DEF StartBegin, StartConnect, StartPerform, Move, ClientState
<1>4. ASSUME NEW ok \in BOOLEAN, Started(ok)
      PROVE  ClientAlone'
    BY <1>0, <1>4, ClientMove DEF Started, Move, ClientState
<1>5. CASE StartClearFlag
    BY <1>0, <1>5, ClientMove DEF StartClearFlag, ClientState
<1>6. CASE StartConnecting
    BY <1>6, ClientTransition DEF StartConnecting, ClientState, Allowed, SessionState
<1>7. CASE StartHandshaking
    BY <1>7, ClientTransition DEF StartHandshaking, ClientState, Allowed, SessionState
<1>8. CASE StartEstablished
    BY <1>8, ClientTransition DEF StartEstablished, ClientState, Allowed, SessionState
<1>9. CASE StartFailed
    BY <1>9, ClientTransition DEF StartFailed, ClientState, Allowed, SessionState
<1> QED
    BY <1>1, <1>2, <1>3, <1>4, <1>5, <1>6, <1>7, <1>8, <1>9, <1>10 DEF StartNext

\* The loop of a client only relays, and fails its session when that fails.
LEMMA LoopClient ==
    ASSUME TypeOK, ClientAlone, ~IsServer, LoopNext \/ LoopDeadline
    PROVE  ClientAlone'
<1>0. session.state \in ClientState(pc["main"]) /\ session.state \in SessionState
    BY DEF ClientAlone, TypeOK
<1>1. CASE LoopHead \/ LoopDeadline \/ LoopCheck
    BY <1>0, <1>1, ClientMove DEF LoopHead, LoopDeadline, LoopCheck, CanSendData, Move, ClientState
<1>2. CASE RelayBegin \/ RelayInbound \/ RelayFailed
    BY <1>0, <1>2, ClientMove DEF RelayBegin, CanSendData, RelayInbound, RelayFailed, Move, ClientState
<1>3. ASSUME NEW ok \in BOOLEAN, RelaySend(ok)
      PROVE  ClientAlone'
    BY <1>0, <1>3, ClientMove DEF RelaySend, Move, ClientState
<1>4. ASSUME NEW packet, RelayOutbound(packet)
      PROVE  ClientAlone'
    BY <1>0, <1>4, ClientMove DEF RelayOutbound, CanSendData, Move, ClientState
<1>5. CASE ClientFailed
    BY <1>5, ClientTransition DEF ClientFailed, ClientState, Allowed, SessionState
<1>6. ASSUME NEW ok \in BOOLEAN,
             EnsureBegin \/ OpenChannel(ok) \/ EnsureRouting \/ EnsureEstablish \/ LoopRecheck
             \/ ResetTransport \/ ResetSession
      PROVE  FALSE
    <2>1. pc["main"] \in {"ensure", "openChannel", "ensureRouting", "establish", "recheck",
                          "reset", "reset1", "reset2", "reset3", "reset4"}
        BY <1>6 DEF EnsureBegin, OpenChannel, EnsureRouting, EnsureEstablish, LoopRecheck,
                    ResetTransport, ResetSession, Move, Transition
    <2> QED
        BY <1>0, <2>1 DEF ClientState
<1> QED
    BY <1>1, <1>2, <1>3, <1>4, <1>5, <1>6 DEF LoopNext

\* stop() of a client finds it established or failed, and leaves it stopped.
LEMMA StopClient ==
    ASSUME TypeOK, ClientAlone, ~IsServer, Stop("main")
    PROVE  ClientAlone'
<1>0. session.state \in ClientState(pc["main"]) /\ session.state \in SessionState
    BY DEF ClientAlone, TypeOK
<1>1. CASE StopFlag("main") \/ StopRouting("main") \/ StopTransport("main")
    BY <1>0, <1>1, ClientMove DEF StopFlag, StopRouting, StopTransport, Move, ClientState
<1>2. CASE StopInterface("main") \/ StopBuffers("main")
    BY <1>0, <1>2, ClientMove, StopBuffersStep DEF StopInterface, ClientState, Threads
<1>3. CASE StopClosing("main")
    BY <1>3, ClientTransition DEF StopClosing, ClientState, Allowed, SessionState
<1>4. CASE StopStopped("main")
    BY <1>4, ClientTransition DEF StopStopped, ClientState, Allowed, SessionState
<1> QED
    BY <1>1, <1>2, <1>3, <1>4 DEF Stop

\* Every step keeps ClientAlone.
LEMMA NextClient ==
    ASSUME TypeOK, ClientAlone, Next
    PROVE  ClientAlone'
<1>0. "main" \in Threads /\ "handler" \in Threads
    BY DEF Threads
<1>1. app' = app
    BY <1>0, StopPlaces, StartBuffersStep
    DEF Next, MainNext, HandlerNext, StartNext, LoopNext, StartBegin, StartOpen, StartConnect,
        StartPerform, StartChannel, StartRouting, Started, StartConnecting, StartHandshaking,
        StartClearFlag, StartEstablished, StartFailed, LoopHead, LoopDeadline, LoopCheck,
        EnsureBegin, OpenChannel, EnsureRouting, EnsureEstablish, LoopRecheck, RelayBegin,
        RelayOutbound, RelaySend, RelayInbound, RelayFailed, ClientFailed, ResetTransport, ResetSession,
        Destroy, Signal, RequestStop, Move, Transition
<1>2. CASE IsServer
    BY <1>1, <1>2 DEF IsServer, ClientAlone
<1>3. CASE ~IsServer
    <2>1. CASE StartNext
        BY <1>3, <2>1, StartClient
    <2>2. CASE LoopNext \/ LoopDeadline
        BY <1>3, <2>2, LoopClient
    <2>3. CASE Stop("main")
        BY <1>3, <2>3, StopClient
    <2>4. CASE Destroy
        <3>1. session.state \in SessionState
            BY DEF TypeOK
        <3> QED
            BY <1>3, <2>4, <3>1, ClientMove DEF Destroy, ClientState
    <2>5. CASE Signal \/ RequestStop
        BY <1>0, <1>3, <2>5 DEF Signal, RequestStop, Move, Goto, TypeOK, ClientAlone, IsServer
    <2>6. ~Stop("handler")
        <3>1. pc["handler"] \notin StopPc
            BY <1>3 DEF ClientAlone, StopPc
        <3> QED
            BY <1>0, <3>1, StopPlaces
    <2> QED
        BY <2>1, <2>2, <2>3, <2>4, <2>5, <2>6 DEF Next, MainNext, HandlerNext
<1> QED
    BY <1>2, <1>3

-----------------------------------------------------------------------------
(* The properties. *)

\* Every step of the engine keeps IInv.
LEMMA EngineStep == IInv /\ [Next]_engineVars => IInv'
<1> SUFFICES ASSUME IInv, [Next]_engineVars PROVE IInv'
    OBVIOUS
<1>1. CASE UNCHANGED engineVars
    BY <1>1 DEF engineVars, IInv, TypeOK, LoadedInTransition, TakenDown, ChannelOnTheWay,
                EstablishedHasOpenChannel, ClientAlone, IsServer
<1>2. CASE Next
    BY <1>2, NextType, NextLoaded, NextTakenDown, NextChannel, NextClient DEF IInv
<1> QED
    BY <1>1, <1>2

\* IInv is an invariant of the engine.
THEOREM InvariantHolds == Spec => []IInv
BY EngineStep, InitIInv, PTL DEF Spec

\* send_payload() is called only over a data channel opened since the last reset,
\* whatever the handler's stop() does to the session meanwhile.
THEOREM NoSendBeforeHandshake == Spec => []SendOnlyOverOpenChannel
<1>1. IInv => SendOnlyOverOpenChannel
    BY DEF IInv, ChannelOnTheWay, SendOnlyOverOpenChannel
<1> QED
    BY <1>1, InvariantHolds, PTL

\* stop() of the main thread leaves no open interface and no route.
THEOREM StopTakesDown == Spec => []StoppedIsClean
<1>1. IInv => StoppedIsClean
    BY DEF IInv, TakenDown, StoppedIsClean
<1> QED
    BY <1>1, InvariantHolds, PTL

\* stop() of a client leaves its session stopped.
THEOREM StopEndsClientSession == Spec => []ClientEndsStopped
<1>1. IInv => ClientEndsStopped
    BY DEF IInv, ClientAlone, ClientState, ClientEndsStopped
<1> QED
    BY <1>1, InvariantHolds, PTL

-----------------------------------------------------------------------------
(* How far a requested stop is from its end. *)

\* The places between the main thread and the end of its stop() once
\* data_plane_stop_requested_ is set: the round it is in goes on, the next one does
\* not begin.
PlacesLeft(place) ==
    CASE place = "stop7" -> 1
      [] place = "push6" -> 2
      [] place = "stop6" -> 3
      [] place = "push5" -> 4
      [] place = "stop5" -> 5
      [] place = "stop4" -> 6
      [] place = "stop3" -> 7
      [] place = "stop2" -> 8
      [] place = "stop1" -> 9
      [] place = "stop" -> 10
      [] place \in {"loop", "relayFailed", "clientFailed"} -> 11
      [] place \in {"inbound", "reset4"} -> 12
      [] place \in {"send", "reset3"} -> 13
      [] place \in {"read", "reset2"} -> 14
      [] place \in {"relay", "reset1"} -> 15
      [] place \in {"recheck", "reset"} -> 16
      [] place = "establish" -> 17
      [] place = "ensureRouting" -> 18
      [] place = "openChannel" -> 19
      [] place = "ensure" -> 20
      [] place = "check" -> 21
      [] OTHER -> 0

\* The same in steps: a transition_to takes two.
StepsLeft == 2 * PlacesLeft(pc["main"]) + (IF loaded["main"] = "none" THEN 1 ELSE 0)

\* The main thread is in its loop or in its stop(), and the stop is requested.
Stopping == stopRequested /\ pc["main"] \in LoopPc \cup StopPc

\* The request is not lost, and the main thread comes nearer to the end of its
\* stop() or has not moved.
Approaches ==
    /\ stopRequested'
    /\ pc'["main"] \in LoopPc \cup StopPc \cup {"stopped"}
    /\ \/ StepsLeft' < StepsLeft
       \/ pc'["main"] = pc["main"] /\ loaded'["main"] = loaded["main"]

\* The number of places left is one.
LEMMA PlacesLeftType ==
    ASSUME NEW place
    PROVE  PlacesLeft(place) \in 0..21
BY DEF PlacesLeft

\* A step to a nearer place brings the end nearer, and so does the read of a
\* transition.
LEMMA Nearer ==
    ASSUME \/ PlacesLeft(pc'["main"]) < PlacesLeft(pc["main"])
           \/ pc'["main"] = pc["main"] /\ loaded["main"] = "none" /\ loaded'["main"] # "none"
    PROVE  StepsLeft' < StepsLeft
<1>1. PlacesLeft(pc["main"]) \in 0..21 /\ PlacesLeft(pc'["main"]) \in 0..21
    BY PlacesLeftType
<1>2. StepsLeft' = 2 * PlacesLeft(pc'["main"]) + (IF loaded'["main"] = "none" THEN 1 ELSE 0)
    BY DEF StepsLeft, PlacesLeft
<1> QED
    BY <1>1, <1>2 DEF StepsLeft

\* The places a requested stop goes through.
EndPc == LoopPc \cup StopPc \cup {"stopped"}

\* A transition between such places approaches the end, in both of its steps.
LEMMA TransitionApproaches ==
    ASSUME TypeOK, Stopping, NEW here \in EndPc, NEW from, NEW next,
           NEW yes \in EndPc, NEW no \in EndPc, Transition("main", here, from, next, yes, no),
           PlacesLeft(yes) < PlacesLeft(here), PlacesLeft(no) < PlacesLeft(here)
    PROVE  stopRequested' /\ pc'["main"] \in EndPc /\ StepsLeft' < StepsLeft
<1>1. pc["main"] = here /\ stopRequested' /\ session.state # "none"
    BY DEF Transition, TypeOK, SessionState, Stopping
<1>2. \/ pc'["main"] = here /\ loaded["main"] = "none" /\ loaded'["main"] # "none"
      \/ pc'["main"] = yes
      \/ pc'["main"] = no
    BY <1>1 DEF Transition, Goto, TypeOK, Threads
<1> QED
    BY <1>1, <1>2, Nearer

\* The return of open_data_channel() does, with a client or without.
LEMMA OpenApproaches ==
    ASSUME TypeOK, Stopping, NEW ok, OpenChannel(ok)
    PROVE  stopRequested' /\ pc'["main"] \in EndPc /\ StepsLeft' < StepsLeft
<1>1. pc["main"] = "openChannel" /\ pc'["main"] \in {"ensureRouting", "loop"} /\ stopRequested'
    BY DEF OpenChannel, Goto, TypeOK, Threads, Stopping
<1> QED
    BY <1>1, Nearer DEF PlacesLeft, EndPc, LoopPc

\* Each step of the loop approaches the end of a requested stop.
LEMMA LoopApproaches ==
    ASSUME TypeOK, Stopping, LoopNext \/ LoopDeadline
    PROVE  stopRequested' /\ pc'["main"] \in EndPc /\ StepsLeft' < StepsLeft
<1> DEFINE Goal == stopRequested' /\ pc'["main"] \in EndPc /\ StepsLeft' < StepsLeft
           Goes(here, place) == pc["main"] = here /\ pc'["main"] = place /\ stopRequested'
<1>0. stopRequested
    BY DEF Stopping
<1>a. ASSUME NEW here, NEW place, Move("main", here, place) PROVE Goes(here, place)
    BY <1>0, <1>a DEF Move, Goto, TypeOK, Threads
<1>b. ASSUME \/ Goes("loop", "stop") \/ Goes("check", "relay") \/ Goes("check", "ensure")
             \/ Goes("check", "recheck") \/ Goes("ensure", "recheck") \/ Goes("ensure", "openChannel")
             \/ Goes("ensure", "loop") \/ Goes("ensureRouting", "establish") \/ Goes("inbound", "loop")
             \/ Goes("recheck", "relay") \/ Goes("recheck", "stop") \/ Goes("relay", "read")
             \/ Goes("relay", "relayFailed") \/ Goes("relayFailed", "stop")
             \/ Goes("read", "inbound") \/ Goes("read", "send") \/ Goes("read", "relayFailed")
             \/ Goes("send", "inbound") \/ Goes("send", "relayFailed")
      PROVE  Goal
    <2>1. PlacesLeft(pc'["main"]) < PlacesLeft(pc["main"])
        BY <1>b DEF PlacesLeft
    <2>2. pc'["main"] \in EndPc /\ stopRequested'
        BY <1>b DEF EndPc, LoopPc, StopPc
    <2> QED
        BY <2>1, <2>2, Nearer
<1> HIDE DEF Goes
<1>1. CASE LoopHead
    BY <1>0, <1>a, <1>b, <1>1 DEF LoopHead
<1>2. CASE LoopDeadline
    BY <1>a, <1>b, <1>2 DEF LoopDeadline
<1>3. CASE LoopCheck
    BY <1>a, <1>b, <1>3 DEF LoopCheck
<1>4. CASE EnsureBegin
    BY <1>a, <1>b, <1>4 DEF EnsureBegin
<1>5. CASE EnsureRouting \/ RelayInbound
    BY <1>a, <1>b, <1>5 DEF EnsureRouting, RelayInbound
<1>6. CASE LoopRecheck
    BY <1>0, <1>a, <1>b, <1>6 DEF LoopRecheck
<1>7. CASE RelayBegin
    BY <1>a, <1>b, <1>7 DEF RelayBegin
<1>8. CASE RelayFailed
    BY <1>0, <1>a, <1>b, <1>8 DEF RelayFailed
<1>9. ASSUME NEW packet, RelayOutbound(packet) PROVE Goal
    BY <1>a, <1>b, <1>9 DEF RelayOutbound
<1>10. ASSUME NEW ok, RelaySend(ok) PROVE Goal
    BY <1>a, <1>b, <1>10 DEF RelaySend
<1> USE DEF PlacesLeft, EndPc, LoopPc, StopPc
<1>11. ASSUME NEW ok, OpenChannel(ok) PROVE Goal
    BY <1>11, OpenApproaches
<1>12. CASE ResetTransport
    <2>1. pc["main"] = "reset" /\ pc'["main"] = "reset1" /\ stopRequested'
        BY <1>0, <1>12 DEF ResetTransport, Goto, TypeOK, Threads
    <2> QED
        BY <2>1, Nearer
<1>13. CASE EnsureEstablish \/ ClientFailed
    <2>0. /\ PlacesLeft("recheck") < PlacesLeft("establish")
          /\ PlacesLeft("loop") < PlacesLeft("establish")
          /\ PlacesLeft("stop") < PlacesLeft("clientFailed")
        OBVIOUS
    <2> HIDE DEF PlacesLeft
    <2>1. Transition("main", "establish", SessionState, "established", "recheck", "loop") => Goal
        BY <2>0, TransitionApproaches
    <2>2. Transition("main", "clientFailed", SessionState, "failed", "stop", "stop") => Goal
        BY <2>0, TransitionApproaches
    <2> QED
        BY <1>13, <2>1, <2>2 DEF EnsureEstablish, ClientFailed
<1>14. CASE ResetSession
    <2>0. /\ PlacesLeft("reset2") < PlacesLeft("reset1")
          /\ PlacesLeft("reset3") < PlacesLeft("reset2")
          /\ PlacesLeft("reset4") < PlacesLeft("reset3")
          /\ PlacesLeft("loop") < PlacesLeft("reset4")
        OBVIOUS
    <2> HIDE DEF PlacesLeft
    <2>1. Transition("main", "reset1", {"established"}, "closing", "reset2", "reset2") => Goal
        BY <2>0, TransitionApproaches
    <2>2. Transition("main", "reset2", {"closing", "failed"}, "stopped", "reset3", "reset3") => Goal
        BY <2>0, TransitionApproaches
    <2>3. Transition("main", "reset3", {"stopped"}, "connecting", "reset4", "reset4") => Goal
        BY <2>0, TransitionApproaches
    <2>4. Transition("main", "reset4", {"connecting"}, "handshaking", "loop", "loop") => Goal
        BY <2>0, TransitionApproaches
    <2> QED
        BY <1>14, <2>1, <2>2, <2>3, <2>4 DEF ResetSession
<1> QED
    BY <1>1, <1>2, <1>3, <1>4, <1>5, <1>6, <1>7, <1>8, <1>9, <1>10, <1>11, <1>12, <1>13, <1>14
       DEF LoopNext

\* Each step of the main thread's stop() does.
LEMMA StopApproaches ==
    ASSUME TypeOK, Stopping, Stop("main")
    PROVE  stopRequested' /\ pc'["main"] \in EndPc /\ StepsLeft' < StepsLeft
<1> DEFINE Goal == stopRequested' /\ pc'["main"] \in EndPc /\ StepsLeft' < StepsLeft
<1> USE DEF PlacesLeft, EndPc, LoopPc, StopPc
<1>1. CASE StopClosing("main") \/ StopStopped("main")
    <2>0. /\ PlacesLeft("stop2") < PlacesLeft("stop1")
          /\ PlacesLeft("stopped") < PlacesLeft("stop7")
        OBVIOUS
    <2> HIDE DEF PlacesLeft
    <2>1. Transition("main", "stop1", {"established"}, "closing", "stop2", "stop2") => Goal
        BY <2>0, TransitionApproaches
    <2>2. Transition("main", "stop7", {"closing", "failed"}, "stopped", "stopped", "stopped") => Goal
        BY <2>0, TransitionApproaches
    <2> QED
        BY <1>1, <2>1, <2>2 DEF StopClosing, StopStopped
<1>2. CASE StopTransport("main")
    <2>1. pc["main"] = "stop3" /\ pc'["main"] = "stop4" /\ stopRequested'
        BY <1>2 DEF StopTransport, Move, Goto, TypeOK, Threads, Stopping
    <2> QED
        BY <2>1, Nearer
<1>4. CASE StopBuffers("main")
    <2>1. /\ stopRequested'
          /\ \/ pc["main"] = "stop5" /\ pc'["main"] \in {"push5", "stop6"}
             \/ pc["main"] = "push5" /\ pc'["main"] = "stop6"
             \/ pc["main"] = "stop6" /\ pc'["main"] \in {"push6", "stop7"}
             \/ pc["main"] = "push6" /\ pc'["main"] = "stop7"
        BY <1>4, StopBuffersStep DEF Goto, TypeOK, Threads, Stopping
    <2> QED
        BY <2>1, Nearer
<1>3. CASE StopFlag("main") \/ StopRouting("main") \/ StopInterface("main")
    <2>1. /\ stopRequested'
          /\ \/ pc["main"] = "stop" /\ pc'["main"] = "stop1"
             \/ pc["main"] = "stop2" /\ pc'["main"] = "stop3"
             \/ pc["main"] = "stop4" /\ pc'["main"] = "stop5"
        BY <1>3 DEF StopFlag, StopRouting, StopInterface, Goto, TypeOK, Threads, Stopping
    <2> QED
        BY <2>1, Nearer
<1> QED
    BY <1>1, <1>2, <1>3, <1>4 DEF Stop

\* A step of the handler takes the main thread nowhere.
LEMMA HandlerAside ==
    ASSUME TypeOK, HandlerNext
    PROVE  /\ pc'["main"] = pc["main"] /\ loaded'["main"] = loaded["main"]
           /\ stopRequested => stopRequested'
<1>1. CASE Signal \/ RequestStop
    BY <1>1 DEF Signal, RequestStop, Move, Goto, TypeOK, Threads
<1>2. CASE StopClosing("handler") \/ StopStopped("handler")
    BY <1>2 DEF StopClosing, StopStopped, Transition, Goto, TypeOK, Threads
<1>3. CASE \/ StopFlag("handler") \/ StopRouting("handler") \/ StopTransport("handler")
           \/ StopInterface("handler") \/ StopBuffers("handler")
    BY <1>3, StopBuffersStep
    DEF StopFlag, StopRouting, StopTransport, StopInterface, Move, Goto, TypeOK, Threads
<1> QED
    BY <1>1, <1>2, <1>3 DEF HandlerNext, Stop

\* Each step of the engine approaches it, and one of the main thread does not leave
\* it where it is.
LEMMA EngineApproaches ==
    ASSUME TypeOK, Stopping, Next
    PROVE  Approaches /\ (MainNext => StepsLeft' < StepsLeft)
<1>1. pc["main"] \in LoopPc \cup StopPc
    BY DEF Stopping
<1>2. ASSUME MainNext PROVE stopRequested' /\ pc'["main"] \in EndPc /\ StepsLeft' < StepsLeft
    <2>1. ~StartNext /\ ~Destroy
        BY <1>1, StartBuffersStep DEF StartNext, StartBegin, StartOpen, StartConnect, StartPerform, StartChannel,
               StartRouting, Started, StartConnecting, StartHandshaking, StartClearFlag,
               StartEstablished, StartFailed, Destroy, Move, Transition, LoopPc, StopPc
    <2> QED
        BY <1>2, <2>1, LoopApproaches, StopApproaches DEF MainNext
<1>3. ASSUME HandlerNext
      PROVE  stopRequested' /\ pc'["main"] = pc["main"] /\ loaded'["main"] = loaded["main"]
    BY <1>3, HandlerAside DEF Stopping
<1> QED
    BY <1>1, <1>2, <1>3 DEF Approaches, EndPc, Next

\* A requested stop cannot be delayed: from wherever in run_data_plane_for() the
\* request finds the main thread, no round of the loop begins after the current one,
\* no failed relay leads into another reset, and at most 43 steps of the main thread
\* end its stop(), whatever the handler's own stop() does to the session meanwhile.
\* What StopEndsLoop adds is that the thread takes them.
THEOREM StopIsBounded ==
    Spec => /\ [](StepsLeft \in 0..43)
            /\ [][Stopping => Approaches /\ (MainNext => StepsLeft' < StepsLeft)]_engineVars
<1>1. StepsLeft \in 0..43
    BY PlacesLeftType DEF StepsLeft
<1>2. TypeOK /\ [Next]_engineVars
        => [Stopping => Approaches /\ (MainNext => StepsLeft' < StepsLeft)]_engineVars
    BY EngineApproaches
<1> QED
    BY <1>1, <1>2, TypeCorrect, PTL DEF Spec

-----------------------------------------------------------------------------
(* How far a broken session of the server is from the next one. *)

\* The stores the handler's stop() may have made to the session.
HandlerStores ==
    IF pc["handler"] \in {"stop2", "stop3", "stop4", "stop5", "push5", "stop6", "push6", "stop7"} THEN 1
    ELSE IF pc["handler"] = "stopped" THEN 2 ELSE 0

\* reset_to_handshaking() will come through if the handler stores nothing more: what
\* it has read, or else what it will read, fits its next transition.
ResetSucceeds ==
    \/ pc["main"] = "reset2" /\ \/ loaded["main"] \in {"none", "closing", "failed"}
                                \/ session.state \in {"stopped", "connecting"}
    \/ pc["main"] = "reset3" /\ \/ loaded["main"] = "none" /\ session.state = "stopped"
                                \/ loaded["main"] = "stopped"
                                \/ session.state = "connecting"
    \/ pc["main"] = "reset4" /\ \/ loaded["main"] = "none" /\ session.state = "connecting"
                                \/ loaded["main"] = "connecting"

\* The places between the main thread and the end of a reset that succeeds; one that
\* does not leads back to the head of the loop.
ResetLeft(place, succeeds) ==
    CASE place = "reset4" -> IF succeeds THEN 1 ELSE 9
      [] place = "reset3" -> IF succeeds THEN 2 ELSE 10
      [] place = "reset2" -> IF succeeds THEN 3 ELSE 11
      [] place = "reset1" -> 4
      [] place = "reset" -> 5
      [] place \in {"recheck", "relayFailed"} -> 6
      [] place \in {"check", "relay"} -> 7
      [] place = "loop" -> 8
      [] place \in {"ensure", "inbound", "establish"} -> 9
      [] place \in {"send", "ensureRouting"} -> 10
      [] place \in {"read", "openChannel"} -> 11
      [] place = "clientFailed" -> 1
      [] OTHER -> 0

\* The same in steps.  Each store of the handler can spoil one reset.
RecoveryLeft ==
    24 * (2 - HandlerStores) + 2 * ResetLeft(pc["main"], ResetSucceeds)
      + (IF loaded["main"] = "none" THEN 1 ELSE 0)

\* A server in its loop whose session is neither waiting nor established.
Recovering ==
    /\ IsServer /\ pc["main"] \in LoopPc \cup {"stop"}
    /\ session.state \notin {"handshaking", "established"} /\ ~stopRequested

\* It has its next session, or has been asked to stop.
Recovered == session.state \in {"handshaking", "established"} \/ stopRequested

\* It has come nearer to that, or the main thread has not moved.
Recovers ==
    \/ Recovered'
    \/ /\ Recovering' /\ RecoveryLeft' <= RecoveryLeft
       /\ \/ RecoveryLeft' < RecoveryLeft
          \/ pc'["main"] = pc["main"] /\ loaded'["main"] = loaded["main"]

\* The numbers are numbers.
LEMMA RecoveryTypes ==
    /\ HandlerStores \in 0..2 /\ HandlerStores' \in 0..2
    /\ \A place, succeeds : ResetLeft(place, succeeds) \in 0..11
    /\ \A place, succeeds : place \notin {"reset2", "reset3", "reset4"}
                             => ResetLeft(place, succeeds) = ResetLeft(place, FALSE)
BY DEF HandlerStores, ResetLeft

\* The next state's number of steps, written out.
LEMMA RecoveryNext ==
    RecoveryLeft' = 24 * (2 - HandlerStores') + 2 * ResetLeft(pc'["main"], ResetSucceeds')
                      + (IF loaded'["main"] = "none" THEN 1 ELSE 0)
BY DEF RecoveryLeft, ResetLeft

\* A step of the main thread to a nearer place, or the read of a transition.
ResetNears ==
    /\ pc'["handler"] = pc["handler"]
    /\ \/ ResetLeft(pc'["main"], ResetSucceeds') < ResetLeft(pc["main"], ResetSucceeds)
       \/ /\ ResetLeft(pc'["main"], ResetSucceeds') <= ResetLeft(pc["main"], ResetSucceeds)
          /\ loaded["main"] = "none" /\ loaded'["main"] # "none"

\* Such a step brings the next session nearer.
LEMMA RecoveryNearer ==
    ASSUME ResetNears
    PROVE  RecoveryLeft' < RecoveryLeft
<1>1. HandlerStores' = HandlerStores /\ HandlerStores \in 0..2
    BY RecoveryTypes DEF HandlerStores, ResetNears
<1> DEFINE before == ResetLeft(pc["main"], ResetSucceeds)
           after == ResetLeft(pc'["main"], ResetSucceeds')
<1>2. before \in 0..11 /\ after \in 0..11
    BY RecoveryTypes
<1>3. RecoveryLeft = 24 * (2 - HandlerStores) + 2 * before + (IF loaded["main"] = "none" THEN 1 ELSE 0)
    BY DEF RecoveryLeft
<1>4. RecoveryLeft' = 24 * (2 - HandlerStores) + 2 * after + (IF loaded'["main"] = "none" THEN 1 ELSE 0)
    BY <1>1, RecoveryNext
<1>5. after < before \/ (after <= before /\ loaded["main"] = "none" /\ loaded'["main"] # "none")
    BY DEF ResetNears
<1> HIDE DEF before, after
<1> QED
    BY <1>1, <1>2, <1>3, <1>4, <1>5

\* A step between places outside the transitions of the reset.
LEMMA MoveRecovers ==
    ASSUME TypeOK, Recovering, NEW place \in LoopPc \cup {"stop"},
           pc'["main"] = place, pc'["handler"] = pc["handler"],
           UNCHANGED <<app, session, stopRequested>>,
           pc["main"] \notin {"reset2", "reset3", "reset4"},
           place \notin {"reset2", "reset3", "reset4"},
           ResetLeft(place, FALSE) < ResetLeft(pc["main"], FALSE)
    PROVE  Recovering' /\ ResetNears
<1>1. ResetLeft(pc'["main"], ResetSucceeds') < ResetLeft(pc["main"], ResetSucceeds)
    BY RecoveryTypes
<1> QED
    BY <1>1 DEF Recovering, IsServer, ResetNears

\* What a transition of the main thread to the next place does.
LEMMA TransitionRecovers ==
    ASSUME TypeOK, Recovering, NEW here \in MainPc, NEW from, NEW next \in SessionState,
           NEW place \in MainPc, Transition("main", here, from, next, place, place)
    PROVE  /\ pc["main"] = here /\ pc'["handler"] = pc["handler"]
           /\ session.state \in {"stopped", "connecting", "closing", "failed"}
           /\ UNCHANGED <<app, stopRequested>>
           /\ \/ /\ loaded["main"] = "none" /\ loaded'["main"] = session.state
                 /\ session' = session /\ pc'["main"] = here
              \/ /\ loaded["main"] # "none" /\ loaded'["main"] = "none"
                 /\ loaded["main"] \in from /\ Allowed(loaded["main"], next)
                 /\ session'.state = next /\ pc'["main"] = place
              \/ /\ loaded["main"] # "none" /\ loaded'["main"] = "none"
                 /\ ~(loaded["main"] \in from /\ Allowed(loaded["main"], next))
                 /\ session' = session /\ pc'["main"] = place
<1>1. "main" \in Threads /\ "handler" \in Threads /\ place \in Places
    BY DEF Threads, Places
<1>2. session.state \in {"stopped", "connecting", "closing", "failed"}
    BY DEF TypeOK, SessionState, Recovering
<1>3. \A u \in Threads : u # "main" => pc'[u] = pc[u] /\ loaded'[u] = loaded[u]
    BY <1>1, TransitionFacts
<1>4. pc["main"] = here /\ UNCHANGED <<app, stopRequested>>
    BY DEF Transition
<1>5. CASE loaded["main"] = "none"
    BY <1>1, <1>2, <1>3, <1>4, <1>5 DEF Transition, TypeOK
<1>6. CASE loaded["main"] # "none" /\ loaded["main"] \in from /\ Allowed(loaded["main"], next)
    BY <1>1, <1>2, <1>3, <1>4, <1>6 DEF Transition, Goto, Store, TypeOK
<1>7. CASE loaded["main"] # "none" /\ ~(loaded["main"] \in from /\ Allowed(loaded["main"], next))
    BY <1>1, <1>2, <1>3, <1>4, <1>7 DEF Transition, Goto, TypeOK
<1> QED
    BY <1>5, <1>6, <1>7

\* Each step of the reset brings the next session nearer: one that succeeds ends in
\* it, one that does not ends at the head of the loop.
LEMMA ResetRecovers ==
    ASSUME TypeOK, Recovering, ResetSession
    PROVE  Recovered' \/ (Recovering' /\ ResetNears)
<1> DEFINE before == ResetLeft(pc["main"], ResetSucceeds)
           after == ResetLeft(pc'["main"], ResetSucceeds')
           Nears == after < before
                    \/ (after <= before /\ loaded["main"] = "none" /\ loaded'["main"] # "none")
           Bad == {"stopped", "connecting", "closing", "failed"}
<1>0. IsServer /\ ~stopRequested
    BY DEF Recovering
<1>a. /\ Allowed("closing", "stopped") /\ Allowed("failed", "stopped")
      /\ Allowed("stopped", "connecting") /\ Allowed("connecting", "handshaking")
    BY DEF Allowed
<1>1. CASE Transition("main", "reset1", {"established"}, "closing", "reset2", "reset2")
    <2>1. /\ pc["main"] = "reset1" /\ pc'["handler"] = pc["handler"]
          /\ UNCHANGED <<app, stopRequested>> /\ session'.state \in Bad
          /\ \/ loaded["main"] = "none" /\ loaded'["main"] # "none" /\ pc'["main"] = "reset1"
             \/ loaded'["main"] = "none" /\ pc'["main"] = "reset2"
        <3>1. /\ "reset1" \in MainPc /\ "reset2" \in MainPc /\ "closing" \in SessionState
            BY DEF MainPc, LoopPc, SessionState
        <3>2. "none" \notin Bad /\ "closing" \in Bad
            OBVIOUS
        <3> HIDE DEF Bad
        <3>3. session.state \in Bad
            BY <1>1, <3>1, TransitionRecovers DEF Bad
        <3>4. CASE loaded["main"] = "none"
            BY <1>1, <3>1, <3>2, <3>3, <3>4, TransitionRecovers
        <3>5. CASE loaded["main"] # "none"
            BY <1>1, <3>1, <3>2, <3>3, <3>5, TransitionRecovers
        <3> QED
            BY <3>4, <3>5
    <2>2. Nears
        BY <2>1 DEF ResetLeft, ResetSucceeds
    <2>3. ResetNears
        BY <2>1, <2>2 DEF ResetNears
    <2> QED
        BY <1>0, <2>1, <2>3 DEF Recovering, IsServer, LoopPc
<1>2. CASE Transition("main", "reset2", {"closing", "failed"}, "stopped", "reset3", "reset3")
    <2>1. /\ pc["main"] = "reset2" /\ pc'["handler"] = pc["handler"]
          /\ UNCHANGED <<app, stopRequested>> /\ session.state \in Bad /\ session'.state \in Bad
          /\ \/ /\ loaded["main"] = "none" /\ loaded'["main"] = session.state
                /\ session'.state = session.state /\ pc'["main"] = "reset2"
             \/ /\ loaded["main"] \in {"closing", "failed"} /\ loaded'["main"] = "none"
                /\ session'.state = "stopped" /\ pc'["main"] = "reset3"
             \/ /\ loaded["main"] \notin {"none", "closing", "failed"} /\ loaded'["main"] = "none"
                /\ session'.state = session.state /\ pc'["main"] = "reset3"
        <3>1. /\ "reset2" \in MainPc /\ "reset3" \in MainPc /\ "stopped" \in SessionState
            BY DEF MainPc, LoopPc, SessionState
        <3>2. CASE loaded["main"] = "none"
            BY <1>2, <3>1, <3>2, TransitionRecovers
        <3>3. CASE loaded["main"] \in {"closing", "failed"}
            BY <1>a, <1>2, <3>1, <3>3, TransitionRecovers
        <3>4. CASE loaded["main"] \notin {"none", "closing", "failed"}
            BY <1>2, <3>1, <3>4, TransitionRecovers
        <3> QED
            BY <3>2, <3>3, <3>4
    <2>2. Nears
        BY <2>1 DEF ResetLeft, ResetSucceeds
    <2>3. ResetNears
        BY <2>1, <2>2 DEF ResetNears
    <2> QED
        BY <1>0, <2>1, <2>3 DEF Recovering, IsServer, LoopPc
<1>3. CASE Transition("main", "reset3", {"stopped"}, "connecting", "reset4", "reset4")
    <2>1. /\ pc["main"] = "reset3" /\ pc'["handler"] = pc["handler"]
          /\ UNCHANGED <<app, stopRequested>> /\ session.state \in Bad /\ session'.state \in Bad
          /\ \/ /\ loaded["main"] = "none" /\ loaded'["main"] = session.state
                /\ session'.state = session.state /\ pc'["main"] = "reset3"
             \/ /\ loaded["main"] = "stopped" /\ loaded'["main"] = "none"
                /\ session'.state = "connecting" /\ pc'["main"] = "reset4"
             \/ /\ loaded["main"] \notin {"none", "stopped"} /\ loaded'["main"] = "none"
                /\ session'.state = session.state /\ pc'["main"] = "reset4"
        <3>1. /\ "reset3" \in MainPc /\ "reset4" \in MainPc /\ "connecting" \in SessionState
            BY DEF MainPc, LoopPc, SessionState
        <3>2. CASE loaded["main"] = "none"
            BY <1>3, <3>1, <3>2, TransitionRecovers
        <3>3. CASE loaded["main"] = "stopped"
            BY <1>a, <1>3, <3>1, <3>3, TransitionRecovers
        <3>4. CASE loaded["main"] \notin {"none", "stopped"}
            BY <1>3, <3>1, <3>4, TransitionRecovers
        <3> QED
            BY <3>2, <3>3, <3>4
    <2>2. Nears
        BY <2>1 DEF ResetLeft, ResetSucceeds
    <2>3. ResetNears
        BY <2>1, <2>2 DEF ResetNears
    <2> QED
        BY <1>0, <2>1, <2>3 DEF Recovering, IsServer, LoopPc
<1>4. CASE Transition("main", "reset4", {"connecting"}, "handshaking", "loop", "loop")
    <2>1. /\ pc["main"] = "reset4" /\ pc'["handler"] = pc["handler"]
          /\ UNCHANGED <<app, stopRequested>> /\ session.state \in Bad
          /\ \/ /\ loaded["main"] = "none" /\ loaded'["main"] = session.state
                /\ session'.state = session.state /\ pc'["main"] = "reset4"
             \/ /\ loaded["main"] = "connecting" /\ session'.state = "handshaking"
             \/ /\ loaded["main"] \notin {"none", "connecting"} /\ loaded'["main"] = "none"
                /\ session'.state = session.state /\ pc'["main"] = "loop"
        <3>1. /\ "reset4" \in MainPc /\ "loop" \in MainPc /\ "handshaking" \in SessionState
            BY DEF MainPc, LoopPc, SessionState
        <3>2. CASE loaded["main"] = "none"
            BY <1>4, <3>1, <3>2, TransitionRecovers
        <3>3. CASE loaded["main"] = "connecting"
            BY <1>a, <1>4, <3>1, <3>3, TransitionRecovers
        <3>4. CASE loaded["main"] \notin {"none", "connecting"}
            BY <1>4, <3>1, <3>4, TransitionRecovers
        <3> QED
            BY <3>2, <3>3, <3>4
    <2>2. session'.state = "handshaking" \/ (Nears /\ session'.state \in Bad)
        BY <2>1 DEF ResetLeft, ResetSucceeds
    <2>3. session'.state = "handshaking" \/ ResetNears
        BY <2>1, <2>2 DEF ResetNears
    <2> QED
        BY <1>0, <2>1, <2>2, <2>3 DEF Recovering, Recovered, IsServer, LoopPc
<1> QED
    BY <1>1, <1>2, <1>3, <1>4 DEF ResetSession

\* The return of open_data_channel() does, with a client or without.
LEMMA OpenRecovers ==
    ASSUME TypeOK, Recovering, NEW ok, OpenChannel(ok)
    PROVE  Recovering' /\ ResetNears
<1>1. /\ pc["main"] = "openChannel" /\ pc'["main"] \in {"ensureRouting", "loop"}
      /\ pc'["handler"] = pc["handler"] /\ UNCHANGED <<app, session, stopRequested>>
    BY DEF OpenChannel, Goto, TypeOK, Threads
<1>2. /\ ResetLeft("ensureRouting", FALSE) < ResetLeft("openChannel", FALSE)
      /\ ResetLeft("loop", FALSE) < ResetLeft("openChannel", FALSE)
    BY DEF ResetLeft
<1> QED
    BY <1>1, <1>2, MoveRecovers DEF LoopPc

\* Each step of the loop leads to the reset by the shortest way.
LEMMA LoopRecovers ==
    ASSUME TypeOK, Recovering, LoopNext \/ LoopDeadline
    PROVE  Recovered' \/ (Recovering' /\ ResetNears)
<1> DEFINE Goal == Recovered' \/ (Recovering' /\ ResetNears)
           Goes(here, place) ==
               /\ pc["main"] = here /\ pc'["main"] = place /\ pc'["handler"] = pc["handler"]
               /\ UNCHANGED <<app, session, stopRequested>>
<1>0. /\ IsServer /\ ~stopRequested /\ ~CanSendData(session)
      /\ session.state \notin {"handshaking", "established"}
    BY DEF Recovering, CanSendData
<1>1. ASSUME NEW here, NEW place, Move("main", here, place) PROVE Goes(here, place)
    BY <1>1 DEF Move, Goto, TypeOK, Threads
<1>2. ASSUME \/ Goes("loop", "check") \/ Goes("loop", "stop") \/ Goes("check", "recheck")
             \/ Goes("ensure", "loop") \/ Goes("ensureRouting", "establish")
             \/ Goes("inbound", "loop") \/ Goes("recheck", "reset")
             \/ Goes("relay", "relayFailed") \/ Goes("relayFailed", "reset")
             \/ Goes("read", "inbound") \/ Goes("read", "send") \/ Goes("read", "relayFailed")
             \/ Goes("send", "inbound") \/ Goes("send", "relayFailed")
             \/ Goes("reset", "reset1")
      PROVE  Goal
    <2>1. ResetLeft(pc'["main"], FALSE) < ResetLeft(pc["main"], FALSE)
        BY <1>2 DEF ResetLeft
    <2>2. /\ pc'["main"] \in LoopPc \cup {"stop"}
          /\ pc'["main"] \notin {"reset2", "reset3", "reset4"}
          /\ pc["main"] \notin {"reset2", "reset3", "reset4"}
        BY <1>2 DEF LoopPc
    <2> QED
        BY <1>2, <2>1, <2>2, MoveRecovers
<1> HIDE DEF Goes
<1>3. CASE LoopHead \/ LoopDeadline
    BY <1>0, <1>1, <1>2, <1>3 DEF LoopHead, LoopDeadline
<1>4. CASE LoopCheck \/ EnsureBegin
    BY <1>0, <1>1, <1>2, <1>4 DEF LoopCheck, EnsureBegin
<1>5. CASE EnsureRouting \/ RelayInbound
    BY <1>1, <1>2, <1>5 DEF EnsureRouting, RelayInbound
<1>6. CASE LoopRecheck \/ RelayBegin \/ RelayFailed
    BY <1>0, <1>1, <1>2, <1>6 DEF LoopRecheck, RelayBegin, RelayFailed
<1>7. ASSUME NEW packet, RelayOutbound(packet) PROVE Goal
    BY <1>1, <1>2, <1>7 DEF RelayOutbound
<1>8. ASSUME NEW ok, RelaySend(ok) PROVE Goal
    BY <1>1, <1>2, <1>8 DEF RelaySend
<1>9. ASSUME NEW ok, OpenChannel(ok) PROVE Goal
    BY <1>9, OpenRecovers
<1>10. CASE ResetTransport
    <2>1. Goes("reset", "reset1")
        BY <1>10 DEF ResetTransport, Goto, TypeOK, Threads, Goes
    <2> QED
        BY <1>2, <2>1
<1>11. CASE EnsureEstablish
    <2>1. /\ pc["main"] = "establish" /\ pc'["handler"] = pc["handler"]
          /\ UNCHANGED <<app, stopRequested>>
          /\ \/ /\ loaded["main"] = "none" /\ loaded'["main"] # "none"
                /\ session' = session /\ pc'["main"] = "establish"
             \/ session'.state = "established"
             \/ session' = session /\ pc'["main"] = "loop"
        <3>1. session.state # "none"
            BY DEF TypeOK, SessionState
        <3> QED
            BY <1>11, <3>1 DEF EnsureEstablish, Transition, Store, Goto, TypeOK, Threads
    <2>2. /\ ResetLeft("establish", ResetSucceeds) = 9 /\ ResetLeft("establish", ResetSucceeds') = 9
          /\ ResetLeft("loop", ResetSucceeds') = 8
        BY DEF ResetLeft
    <2>3. session'.state = "established" \/ ResetNears
        BY <2>1, <2>2 DEF ResetNears
    <2> QED
        BY <1>0, <2>1, <2>3 DEF Recovering, Recovered, IsServer, LoopPc
<1>12. CASE ClientFailed
    <2>1. /\ pc["main"] = "clientFailed" /\ pc'["handler"] = pc["handler"]
          /\ UNCHANGED <<app, stopRequested>>
          /\ session'.state = "failed" \/ session' = session
          /\ \/ loaded["main"] = "none" /\ loaded'["main"] # "none" /\ pc'["main"] = "clientFailed"
             \/ pc'["main"] = "stop"
        <3>1. session.state # "none"
            BY DEF TypeOK, SessionState
        <3> QED
            BY <1>12, <3>1 DEF ClientFailed, Transition, Store, Goto, TypeOK, Threads
    <2>2. /\ ResetLeft("clientFailed", ResetSucceeds) = 1 /\ ResetLeft("clientFailed", ResetSucceeds') = 1
          /\ ResetLeft("stop", ResetSucceeds') = 0
        BY DEF ResetLeft
    <2>3. ResetNears
        BY <2>1, <2>2 DEF ResetNears
    <2> QED
        BY <1>0, <2>1, <2>3 DEF Recovering, IsServer, LoopPc
<1>13. CASE ResetSession
    BY <1>13, ResetRecovers
<1> QED
    BY <1>3, <1>4, <1>5, <1>6, <1>7, <1>8, <1>9, <1>10, <1>11, <1>12, <1>13 DEF LoopNext

\* The session waits again only at the end of a reset.
LEMMA WaitsAgain ==
    ASSUME TypeOK, Recovering, LoopNext \/ LoopDeadline, session'.state = "handshaking"
    PROVE  /\ pc["main"] = "reset4" /\ pc'["main"] = "loop" /\ pc'["handler"] = pc["handler"]
           /\ UNCHANGED <<app, stopRequested>>
<1>0. session.state # "handshaking"
    BY DEF Recovering
<1>1. session' # session
    BY <1>0
<1>2. CASE ResetSession
    BY <1>0, <1>1, <1>2 DEF ResetSession, Transition, Store, Goto, TypeOK, Threads
<1>3. ~(EnsureEstablish \/ ClientFailed)
    BY <1>1 DEF EnsureEstablish, ClientFailed, Transition, Store
<1> QED
    BY <1>1, <1>2, <1>3 DEF LoopNext, LoopDeadline, LoopHead, LoopCheck, EnsureBegin, OpenChannel, RelaySend,
           EnsureRouting, LoopRecheck, RelayBegin, RelayOutbound, RelayInbound, RelayFailed,
           ResetTransport, Move

\* A step of the handler requests a stop, or changes nothing the main thread works
\* with, or makes one of its two stores.
LEMMA HandlerStoresTwice ==
    ASSUME TypeOK, HandlerNext
    PROVE  \/ stopRequested'
           \/ /\ UNCHANGED <<app, stopRequested>>
              /\ \/ session' = session /\ HandlerStores' = HandlerStores
                 \/ /\ session'.state \in {session.state, "closing", "stopped"}
                    /\ HandlerStores' = HandlerStores + 1
<1>1. CASE Signal
    <2>1. /\ UNCHANGED <<app, stopRequested, session>>
          /\ pc["handler"] = "armed" /\ pc'["handler"] \in {"stop", "request"}
        BY <1>1 DEF Signal, Move, Goto, TypeOK, Threads
    <2> QED
        BY <2>1 DEF HandlerStores
<1>2. CASE RequestStop \/ StopFlag("handler")
    BY <1>2 DEF RequestStop, StopFlag
<1>3. CASE StopRouting("handler") \/ StopTransport("handler") \/ StopInterface("handler") \/ StopBuffers("handler")
    <2>1. /\ UNCHANGED <<app, stopRequested, session>>
          /\ pc["handler"] \in {"stop2", "stop3", "stop4", "stop5", "push5", "stop6", "push6"}
          /\ pc'["handler"] \in {"stop3", "stop4", "stop5", "push5", "stop6", "push6", "stop7"}
        BY <1>3, StopBuffersStep DEF StopRouting, StopTransport, StopInterface, Move, Goto, TypeOK, Threads
    <2> QED
        BY <2>1 DEF HandlerStores
<1>4. CASE StopClosing("handler")
    <2>1. /\ UNCHANGED <<app, stopRequested>> /\ pc["handler"] = "stop1"
          /\ \/ pc' = pc /\ session' = session
             \/ pc'["handler"] = "stop2" /\ session'.state \in {session.state, "closing"}
        BY <1>4 DEF StopClosing, Transition, Store, Goto, TypeOK, Threads
    <2> QED
        BY <2>1 DEF HandlerStores
<1>5. CASE StopStopped("handler")
    <2>1. /\ UNCHANGED <<app, stopRequested>> /\ pc["handler"] = "stop7"
          /\ \/ pc' = pc /\ session' = session
             \/ pc'["handler"] = "stopped" /\ session'.state \in {session.state, "stopped"}
        BY <1>5 DEF StopStopped, Transition, Store, Goto, TypeOK, Threads
    <2> QED
        BY <2>1 DEF HandlerStores
<1> QED
    BY <1>1, <1>2, <1>3, <1>4, <1>5 DEF HandlerNext, Stop

\* A store of the handler pays for the reset it may spoil.
LEMMA HandlerRecovers ==
    ASSUME TypeOK, Recovering, HandlerNext
    PROVE  Recovered' \/ (Recovering' /\ RecoveryLeft' <= RecoveryLeft)
<1>0. /\ pc'["main"] = pc["main"] /\ loaded'["main"] = loaded["main"]
      /\ session.state \in {"stopped", "connecting", "closing", "failed"}
    BY HandlerAside DEF Recovering, TypeOK, SessionState
<1>1. ASSUME UNCHANGED <<app, stopRequested>>, session' = session, HandlerStores' = HandlerStores
      PROVE  Recovering' /\ RecoveryLeft' <= RecoveryLeft
    <2>1. ResetSucceeds' = ResetSucceeds
        BY <1>0, <1>1 DEF ResetSucceeds
    <2>2. ResetLeft(pc["main"], ResetSucceeds) \in 0..11 /\ HandlerStores \in 0..2
        BY RecoveryTypes
    <2>3. RecoveryLeft' = RecoveryLeft /\ RecoveryLeft \in 0..71
        BY <1>0, <1>1, <2>1, <2>2, RecoveryNext DEF RecoveryLeft
    <2> QED
        BY <1>0, <1>1, <2>3 DEF Recovering, IsServer
<1>2. ASSUME UNCHANGED <<app, stopRequested>>, session'.state \in {session.state, "closing", "stopped"},
             HandlerStores' = HandlerStores + 1
      PROVE  Recovering' /\ RecoveryLeft' <= RecoveryLeft
    <2> DEFINE before == ResetLeft(pc["main"], ResetSucceeds)
               after == ResetLeft(pc'["main"], ResetSucceeds')
    <2>1. before \in 0..11 /\ after \in 0..11 /\ HandlerStores \in 0..2 /\ HandlerStores' \in 0..2
        BY RecoveryTypes
    <2>2. RecoveryLeft = 24 * (2 - HandlerStores) + 2 * before + (IF loaded["main"] = "none" THEN 1 ELSE 0)
        BY DEF RecoveryLeft
    <2>3. RecoveryLeft' = 24 * (2 - (HandlerStores + 1)) + 2 * after
                            + (IF loaded'["main"] = "none" THEN 1 ELSE 0)
        BY <1>2, RecoveryNext
    <2> HIDE DEF before, after
    <2>4. RecoveryLeft' <= RecoveryLeft
        BY <2>1, <2>2, <2>3
    <2> QED
        BY <1>0, <1>2, <2>4 DEF Recovering, IsServer
<1> QED
    BY <1>1, <1>2, HandlerStoresTwice DEF Recovered

\* Every step of the engine leads a broken server towards its next session.
LEMMA EngineRecovers ==
    ASSUME TypeOK, Recovering, Next
    PROVE  Recovers /\ (MainNext => Recovered' \/ RecoveryLeft' < RecoveryLeft)
<1>0. pc["main"] \in LoopPc \cup {"stop"} /\ RecoveryLeft \in 0..71 /\ RecoveryLeft' \in 0..71
    <2>1. RecoveryLeft \in 0..71
        BY RecoveryTypes DEF RecoveryLeft
    <2>2. RecoveryLeft' \in 0..71
        BY RecoveryTypes, RecoveryNext
    <2> QED
        BY <2>1, <2>2 DEF Recovering
<1>1. ASSUME MainNext PROVE Recovered' \/ (Recovering' /\ RecoveryLeft' < RecoveryLeft)
    <2>1. ~StartNext /\ ~Destroy
        BY <1>0, StartBuffersStep DEF StartNext, StartBegin, StartOpen, StartConnect, StartPerform, StartChannel,
               StartRouting, Started, StartConnecting, StartHandshaking, StartClearFlag,
               StartEstablished, StartFailed, Destroy, Move, Transition, LoopPc
    <2>2. Stop("main") => Recovered'
        BY <1>0, StopBuffersStep
        DEF Stop, StopFlag, StopClosing, StopRouting, StopTransport, StopInterface, Threads,
               StopStopped, Transition, Move, LoopPc, Recovered
    <2> QED
        BY <1>1, <2>1, <2>2, LoopRecovers, RecoveryNearer DEF MainNext
<1>2. ASSUME HandlerNext PROVE Recovered' \/ (Recovering' /\ RecoveryLeft' <= RecoveryLeft)
    BY <1>2, HandlerRecovers
<1>3. ASSUME HandlerNext PROVE pc'["main"] = pc["main"] /\ loaded'["main"] = loaded["main"]
    BY <1>3, HandlerAside
<1> QED
    BY <1>0, <1>1, <1>2, <1>3 DEF Next, Recovers

\* A broken server has its next session soon: reset_server_session() ends without one
\* when the handler's stop() stores into the session between its check and its store,
\* but a handler whose request start() has overruled can do that to two resets only,
\* and the loop reaches the next one without another wait for a client.  At most 71 steps of
\* the main thread lead to a session that waits or is established, or to a stop.  What
\* ServerRecovers adds is that the thread takes them.
THEOREM RecoveryIsBounded ==
    Spec => /\ [](RecoveryLeft \in 0..71)
            /\ [][Recovering => /\ Recovers
                                /\ MainNext => Recovered' \/ RecoveryLeft' < RecoveryLeft]_engineVars
<1>1. RecoveryLeft \in 0..71
    BY RecoveryTypes DEF RecoveryLeft
<1>2. TypeOK /\ [Next]_engineVars
        => [Recovering => /\ Recovers
                          /\ MainNext => Recovered' \/ RecoveryLeft' < RecoveryLeft]_engineVars
    BY EngineRecovers
<1> QED
    BY <1>1, <1>2, TypeCorrect, PTL DEF Spec

-----------------------------------------------------------------------------
(* What the main thread has read of the session. *)

\* What transition_to has read of a session on its way to its client is what it is:
\* only the main thread itself takes it there.
LoadedFresh ==
    session.state \in {"connecting", "handshaking", "established"}
      => loaded["main"] \in {"none", session.state}

\* A step of the main thread that moves on has read nothing, one that reads has read
\* what is there.
LEMMA MainReads ==
    ASSUME TypeOK, LoadedInTransition,
           MainNext \/ \E ok \in BOOLEAN : StartChannel(ok) \/ OpenChannel(ok)
    PROVE  loaded'["main"] \in {"none", session'.state}
<1> DEFINE Goal == loaded'["main"] \in {"none", session'.state}
<1>0. pc["main"] \notin ReadPc => loaded["main"] = "none"
    BY DEF LoadedInTransition, Threads
<1>1. ASSUME NEW here, NEW from, NEW next, NEW yes, NEW no, Transition("main", here, from, next, yes, no)
      PROVE  Goal
    BY <1>1 DEF Transition, TypeOK, Threads
<1>2. ASSUME loaded' = loaded, pc["main"] \notin ReadPc PROVE Goal
    BY <1>0, <1>2
<1>3. ASSUME NEW here, here \notin ReadPc, NEW place, Move("main", here, place) PROVE Goal
    BY <1>2, <1>3 DEF Move
<1> USE DEF ReadPc
<1>4. CASE StartNext
    <2>1. CASE StartConnecting \/ StartHandshaking \/ StartEstablished \/ StartFailed
        BY <1>1, <2>1 DEF StartConnecting, StartHandshaking, StartEstablished, StartFailed
    <2>2. ASSUME NEW ok, StartBuffers \/ StartOpen(ok) \/ StartChannel(ok) \/ StartRouting(ok)
          PROVE  Goal
        BY <1>2, <2>2, StartBuffersStep DEF StartOpen, StartChannel, StartRouting
    <2>3. ASSUME NEW ok, StartBegin(ok) \/ StartConnect(ok) \/ StartPerform(ok) \/ Started(ok) PROVE Goal
        BY <1>3, <2>3 DEF StartBegin, StartConnect, StartPerform, Started
    <2>4. CASE StartClearFlag
        BY <1>2, <2>4 DEF StartClearFlag
    <2> QED
        BY <1>4, <2>1, <2>2, <2>3, <2>4 DEF StartNext
<1>5. CASE LoopNext \/ LoopDeadline
    <2>1. CASE LoopHead \/ LoopDeadline \/ LoopCheck \/ EnsureBegin
        BY <1>3, <2>1 DEF LoopHead, LoopDeadline, LoopCheck, EnsureBegin
    <2>2. CASE EnsureRouting \/ LoopRecheck \/ RelayBegin \/ RelayInbound \/ RelayFailed
        BY <1>3, <2>2 DEF EnsureRouting, LoopRecheck, RelayBegin, RelayInbound, RelayFailed
    <2>3. ASSUME NEW x, RelaySend(x) \/ RelayOutbound(x) PROVE Goal
        BY <1>3, <2>3 DEF RelaySend, RelayOutbound
    <2>4. ASSUME NEW ok, OpenChannel(ok) PROVE Goal
        BY <1>2, <2>4 DEF OpenChannel
    <2>5. CASE ResetTransport
        BY <1>2, <2>5 DEF ResetTransport
    <2>6. CASE EnsureEstablish \/ ClientFailed \/ ResetSession
        BY <1>1, <2>6 DEF EnsureEstablish, ClientFailed, ResetSession
    <2> QED
        BY <1>5, <2>1, <2>2, <2>3, <2>4, <2>5, <2>6 DEF LoopNext
<1>6. CASE Stop("main")
    <2>1. CASE StopClosing("main") \/ StopStopped("main")
        BY <1>1, <2>1 DEF StopClosing, StopStopped
    <2>2. CASE StopTransport("main")
        BY <1>3, <2>2 DEF StopTransport
    <2>3. CASE StopFlag("main") \/ StopRouting("main") \/ StopInterface("main") \/ StopBuffers("main")
        BY <1>2, <2>3, StopBuffersStep DEF StopFlag, StopRouting, StopInterface, Threads
    <2> QED
        BY <1>6, <2>1, <2>2, <2>3 DEF Stop
<1>7. CASE Destroy
    BY <1>2, <1>7 DEF Destroy
<1>8. ASSUME NEW ok, StartChannel(ok) \/ OpenChannel(ok) PROVE Goal
    BY <1>2, <1>8 DEF StartChannel, OpenChannel
<1> QED
    BY <1>4, <1>5, <1>6, <1>7, <1>8 DEF MainNext

\* Every step keeps LoadedFresh: the handler only closes and stops.
LEMMA FreshStep ==
    ASSUME IInv, LoadedFresh,
           [Next]_engineVars \/ \E ok \in BOOLEAN : StartChannel(ok) \/ OpenChannel(ok)
    PROVE  LoadedFresh'
<1>0. TypeOK /\ LoadedInTransition
    BY DEF IInv
<1>1. CASE MainNext \/ \E ok \in BOOLEAN : StartChannel(ok) \/ OpenChannel(ok)
    BY <1>0, <1>1, MainReads DEF LoadedFresh
<1>2. CASE HandlerNext
    <2>1. pc'["main"] = pc["main"] /\ loaded'["main"] = loaded["main"]
        BY <1>0, <1>2, HandlerAside
    <2>2. session'.state \in {"connecting", "handshaking", "established"} => session' = session
        BY <1>2, StopBuffersStep
        DEF HandlerNext, Signal, RequestStop, Stop, StopFlag, StopClosing, StopRouting,
            StopTransport, StopInterface, StopStopped, Transition, Store, Move, Threads
    <2> QED
        BY <2>1, <2>2 DEF LoadedFresh
<1>3. CASE UNCHANGED engineVars
    BY <1>3 DEF engineVars, LoadedFresh
<1> QED
    BY <1>1, <1>2, <1>3 DEF Next
=============================================================================
